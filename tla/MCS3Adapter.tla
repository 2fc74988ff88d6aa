------------------------------ MODULE MCS3Adapter ------------------------------
(***************************************************************************)
(* Two clients, a directory of two files and one file beside it, listed    *)
(* one by one.  Both clients want a rule for the trash, for other numbers  *)
(* of days, and one of them a rule for the temporary files.                *)
(***************************************************************************)
EXTENDS S3Adapter

CONSTANTS c1, c2

MCClient == {c1, c2}
MCKey == 1..3
MCDir == {1, 2}
MCTwin == [k \in MCKey |-> IF k = 1 THEN 2 ELSE 1]

On(op, keys) == [op |-> op, keys |-> keys, limit |-> 0]
MCCallsOf == [c \in MCClient |->
  IF c = c1
  THEN {On("trash", {1, 2}), On("trashDir", {}), On("restore", {1}), On("deleteDir", {}),
        On("configure", {})}
  ELSE {On("create", {1}), On("trash", {1}), On("copy", {1}), On("copy", {3}),
        On("delete", {2}), On("list", {}), [op |-> "list", keys |-> {}, limit |-> 1], On("get", {1}),
        On("head", {2}), On("configure", {})}]

R(folder, days) == [folder |-> folder, days |-> days]
MCRule == {R("trash", 7), R("trash", 14), R("tmp", 1), R("logs", 30)}
MCRulesOf == [c \in MCClient |-> IF c = c1 THEN {R("trash", 7)} ELSE {R("trash", 14), R("tmp", 1)}]
MCForeign == {R("logs", 30)}
================================================================================
