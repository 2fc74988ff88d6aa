-------------------------- MODULE MCLibraryManagement --------------------------
(***************************************************************************)
(* A wished content type a that needs b and offers c in its semantics, b   *)
(* and c needing each other; c is a library without preloaded files.       *)
(***************************************************************************)
EXTENDS LibraryManagement

CONSTANTS a, b, c, quiz, text

MCLib == {a, b, c}
MCName == {quiz, text}
MCWishList == {quiz}
MCNameOf == [l \in MCLib |-> IF l = a THEN quiz ELSE text]
MCAsset == {"js", "semantics"}
MCContent == [l \in MCLib |-> CASE l = a -> {"js", "semantics"} [] OTHER -> {"js"}]
MCRequired == [l \in MCLib |-> IF l = c THEN {} ELSE {"js"}]
MCUses == [l \in MCLib |-> CASE l = a -> {b} [] l = b -> {c} [] l = c -> {b}]
MCSoftUses == [l \in MCLib |-> IF l = a THEN {c} ELSE {}]
MCPackage == [n \in MCWishList |-> MCLib]
MCPublished == {BadJson, 1, 2}

\* The two-library instance: a and b need each other.
SmallLib == {a, b}
SmallNameOf == [l \in SmallLib |-> IF l = a THEN quiz ELSE text]
SmallContent == [l \in SmallLib |-> IF l = a THEN {"js", "semantics"} ELSE {"js"}]
SmallRequired == [l \in SmallLib |-> {"js"}]
SmallUses == [l \in SmallLib |-> IF l = a THEN {b} ELSE {a}]
SmallSoftUses == [l \in SmallLib |-> {}]
SmallPackage == [n \in MCWishList |-> SmallLib]
=================================================================================
