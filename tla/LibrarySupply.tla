------------------------------ MODULE LibrarySupply ------------------------------
(***************************************************************************)
(* How libraries get into S3: the three scripts of scripts/h5p, run by     *)
(* hand one at a time, in any order and as often as one likes.  They share *)
(* the map file and the temporary directory; a script that dies leaves     *)
(* what it has written for the next one.                                   *)
(***************************************************************************)
EXTENDS Integers, Sequences, FiniteSets

CONSTANTS
  Name, Repo, NoRepo, Owners, Offers,
  WishList, Line, MaxPatch, File, Tags, Master, Hub, NoVersion, Archive, Table,
  PathCorrected, Unbuilt, Pinned,
  BatchSize, PageSize, NoKey, MaxMishaps,
  Stocked    \* what S3 may hold at first: the patch versions of its whole folders

VARIABLES
  script, mishaps,
  repoOf, visit, draft, missed,                                 \* RepoMap
  agenda, tagsCached, hubCached, available, failed, unresolved,
  folder, blind,                                                \* Packager
  s3, step, todo, cur, left, page, was, torn, lost, source, removed   \* Uploader

mapping   == <<visit, draft, missed>>
packaging == <<agenda, tagsCached, hubCached, available, failed, unresolved, blind>>
uploading == <<s3, step, todo, cur, left, page, was, torn, lost, source, removed>>
vars == <<script, mishaps, repoOf, mapping, packaging, folder, uploading>>

RepoMap  == INSTANCE LibraryRepoMap
Packager == INSTANCE LibraryPackager
Uploader == INSTANCE LibraryUploader

ASSUME SupplyAssumption ==
  RepoMap!RepoConstants /\ Packager!PackagerConstants /\ Uploader!UploaderConstants
  /\ Stocked \subseteq [Name \X Line -> 0..MaxPatch]

Init ==
  /\ mishaps = 0
  /\ RepoMap!MapInit /\ Packager!PackagerInit /\ Uploader!UploaderInit
  /\ \E stock \in Stocked :
       /\ source = [k \in Name \X Line |->
                      [patch |-> stock[k], files |-> IF stock[k] = 0 THEN {} ELSE File]]
       /\ s3 = [k \in Name \X Line |-> Uploader!CopyOf(source[k])]

MapScript      == RepoMap!MapNext /\ UNCHANGED <<packaging, folder, uploading>>
PackagerScript == Packager!PackagerNext /\ UNCHANGED <<mapping, uploading>>
UploaderScript == Uploader!UploaderNext /\ UNCHANGED <<repoOf, mapping, packaging>>

Next == MapScript \/ PackagerScript \/ UploaderScript

Spec == Init /\ [][Next]_vars

\* A script that is running goes on.
Running ==
  \/ (RepoMap!VisitOwner \/ RepoMap!WriteMap) /\ UNCHANGED <<packaging, folder, uploading>>
  \/ Packager!PackagingStep /\ UNCHANGED <<mapping, uploading>>
  \/ Uploader!UploadStep /\ UNCHANGED <<repoOf, mapping, packaging>>

FairSpec == Spec /\ WF_vars(Running)

(***************************************************************************)
(* Properties.                                                             *)
(***************************************************************************)
TypeOK == Packager!PackagerTypeOK /\ Uploader!UploaderTypeOK

OfficialWins        == RepoMap!OfficialWins
DependenciesSettled == Packager!DependenciesSettled
AvailableIsWhole    == Packager!AvailableIsWhole
HeldBack            == Packager!HeldBack
UploadsAsExpected   == Uploader!UploadsAsExpected
FaithfulCopy        == Uploader!FaithfulCopy
RoundUploads        == Uploader!RoundUploads

\* Every script ends, whatever cycles there are among the dependencies.
ScriptsEnd == script # "none" ~> script = "none"
=================================================================================
