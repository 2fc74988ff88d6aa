----------------------------- MODULE UploadContract -----------------------------
(***************************************************************************)
(* What the library management job may rely on about uploads: seen between *)
(* two runs of the job, an upload, finished or interrupted anywhere, turns *)
(* an empty folder into part of a library, or replaces what an older patch *)
(* version has left by part of a newer one.  Beside that, files only go,   *)
(* when the job removes them.  An upload never touches a folder with files *)
(* but no library.json.                                                    *)
(*                                                                         *)
(* LibraryUploader implements this specification; LibraryManagement takes  *)
(* its uploads from it.                                                    *)
(***************************************************************************)
EXTENDS Integers

CONSTANTS
  Lib,        \* library folders
  Content,    \* the files a folder can hold beside library.json
  Published   \* the patch versions an upload can carry

VARIABLES asset, json

NoJson == 0
Empty(l) == asset[l] = {} /\ json[l] = NoJson

\* An upload of patch version p takes hold of the folder of l.
Wanted(l, p) == Empty(l) \/ (json[l] # NoJson /\ p > json[l])

\* The folder of l afterwards: the files S, the library.json j.
Replace(l, p, S, j) ==
  /\ Wanted(l, p)
  /\ j \in {NoJson, json[l], p}
  /\ asset' = [asset EXCEPT ![l] = S]
  /\ json' = [json EXCEPT ![l] = j]

Upload ==
  \E l \in Lib, p \in Published :
    /\ Wanted(l, p)
    /\ \E S \in SUBSET Content[l], j \in {NoJson, json[l], p} : Replace(l, p, S, j)

\* The job removes a folder, or part of it.
Remove(l, S, j) ==
  /\ asset' = [asset EXCEPT ![l] = S]
  /\ json' = [json EXCEPT ![l] = j]

Init ==
  /\ asset \in [Lib -> UNION {SUBSET Content[l] : l \in Lib}]
  /\ json \in [Lib -> {NoJson} \cup Published]

Next == Upload \/ \E l \in Lib : \E S \in SUBSET asset[l], j \in {NoJson, json[l]} : Remove(l, S, j)

Spec == Init /\ [][Next]_<<asset, json>>
=================================================================================
