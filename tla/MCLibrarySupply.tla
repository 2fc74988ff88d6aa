----------------------------- MODULE MCLibrarySupply -----------------------------
(***************************************************************************)
(* A wished content type ma and its editor mb need each other.  The        *)
(* organisation offers both; a user has a fork of ma, with a               *)
(* semantics.json that is refused.  ma 1.2 is tagged with a v and names a  *)
(* script it does not have; as a dependency ma is forced to 1.3, so that   *)
(* two local folders go to one in S3.  ma 2.1 is broken, mb 1.3 is newer   *)
(* than the Hub's 1.2, which is built with npm.  mc has no tags, only a    *)
(* master branch, no line 2, and a forced patch version; it needs mb 2, a  *)
(* line above the Hub's, and names a style it does not have.  S3 may hold  *)
(* an older ma 1.1.                                                        *)
(***************************************************************************)
EXTENDS LibrarySupply, TLC

CONSTANTS ma, mb, mc, ra, rb, rc, fork, user, org

MCName == {ma, mb, mc}
MCRepo == {ra, rb, rc, fork}
MCOwners == <<user, org>>
MCOffers == [o \in {user, org} |->
  IF o = user THEN {<<ma, fork>>} ELSE {<<ma, ra>>, <<mb, rb>>, <<mc, rc>>}]
MCWishList == <<ma>>
MCFile == {"json", "js", "css"}
MCLine == {1, 2}

Of(l, p) == [line |-> l, patch |-> p]
T(form, l, p) == [form |-> form, line |-> l, patch |-> p]
MCTags == [r \in MCRepo |->
  CASE r = ra -> {T("plain", 1, 1), T("v", 1, 2), T("v", 2, 1)}
    [] r = fork -> {T("plain", 1, 1)}
    [] r = rb -> {T("plain", 1, 2), T("plain", 1, 3), T("plain", 2, 1)}
    [] r = rc -> {}]
MCMaster == [r \in MCRepo |-> IF r \in {rb, rc} THEN Of(1, 1) ELSE NoVersion]
MCHub == [n \in MCName |-> CASE n = ma -> Of(2, 1) [] n = mb -> Of(1, 2) [] n = mc -> NoVersion]
MCArchive == [v \in MCRepo \X MCLine \X (1..3) |->
  LET r == v[1]  version == Of(v[2], v[3])  b2 == r = rb /\ version = Of(1, 2) IN
  [files |-> CASE b2 -> {"json", "css"} [] r = ra /\ version = Of(1, 2) -> {"json"} [] OTHER -> {"json", "js"},
   needs |-> IF r = rc THEN {"js", "css"} ELSE {"js"},
  styles |-> {"css"},
   ignored |-> CASE b2 -> {"css"} [] r = ra /\ version = Of(2, 1) -> {"js"} [] OTHER -> {},
   npm |-> b2,
   made |-> {"js"},
   wants |-> IF b2 THEN {"oldNode"} ELSE {},
   deps |-> CASE r \in {ra, fork} -> {<<mc, 1>>} [] r = rb -> {<<ma, 1>>} [] r = rc -> {<<mb, 2>>},
   soft |-> CASE r \in {ra, fork} -> {<<mb, 1>>} [] r = rb -> {<<ma, 2>>, <<mc, 2>>} [] r = rc -> {},
   readable |-> r # fork]]
MCTable == [o \in {"openssl", "legacyPeerDeps", "oldNode", "install"} |->
  IF o = "oldNode" THEN {<<mb, T("plain", 1, 2)>>} ELSE {}]
MCPinned == [x \in MCName \X MCLine |-> CASE x = <<mc, 1>> -> 2 [] x = <<ma, 1>> -> 3 [] OTHER -> 0]
MCPathCorrected == {<<ma, T("v", 1, 2)>>, <<mc, T("plain", 1, 2)>>}
MCStocked == {stock \in [MCName \X MCLine -> {0, 1}] : \A k \in DOMAIN stock : stock[k] # 0 => k = <<ma, 1>>}
=================================================================================
