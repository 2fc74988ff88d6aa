---------------------------- MODULE LibraryManagement ----------------------------
(***************************************************************************)
(* The H5P library management job (a cron job) and the two stores it keeps *)
(* in step: the metadata entries in MongoDB and the library folders in S3. *)
(*                                                                         *)
(* One run goes through four phases: uninstall what nobody wants, install  *)
(* the wish list from the H5P Hub, synchronise the entries with the        *)
(* library.json files found in S3, remove what fails the consistency       *)
(* check.  Every remote call is a step, so a run can be killed, or a call  *)
(* can fail, between any two of them.  The next run starts from whatever   *)
(* was left behind.                                                        *)
(*                                                                         *)
(* A library is an ubername (machine name and major.minor version); its    *)
(* patch version is the number kept in the entry and in library.json.      *)
(***************************************************************************)
EXTENDS Integers, FiniteSets

CONSTANTS
  Lib,          \* ubernames
  Name,         \* machine names
  NameOf,       \* machine name of a library
  WishList,     \* config.libraryList: the machine names to install
  Asset,        \* files of a library other than library.json
  Content,      \* the assets a complete package of a library holds
  Required,     \* its preloaded JS and CSS files
  Semantics,    \* the asset semantics.json
  Uses,         \* preloaded, editor and dynamic dependencies of a library
  SoftUses,     \* the libraries its semantics.json offers as options
  Package,      \* the libraries in the Hub package of a machine name
  MaxPatch,     \* bound on patch versions
  Published,    \* the library.json contents an upload can carry
  Faults,       \* the kinds of fault the environment may inject
  MaxMishaps,   \* bound on faults, kills and uploads together
  NoLib

NoJson  == 0    \* the folder has no library.json
BadJson == -1   \* its library.json is refused by checkIsLibraryMetadata

ASSUME LibraryAssumption ==
  /\ NoLib \notin Lib
  /\ NameOf \in [Lib -> Name]
  /\ WishList \subseteq Name
  /\ Content \in [Lib -> SUBSET Asset]
  /\ Required \in [Lib -> SUBSET Asset]
  /\ \A l \in Lib : Required[l] \subseteq Content[l]
  /\ Uses \in [Lib -> SUBSET Lib]
  /\ SoftUses \in [Lib -> SUBSET Lib]
  /\ Package \in [WishList -> SUBSET Lib]
  /\ MaxPatch \in Nat
  /\ Published \subseteq {BadJson} \cup 1..MaxPatch
  /\ MaxMishaps \in Nat

VARIABLES
  entry,    \* entry[l]: patch version of l's metadata entry, 0 if it has none
  asset,    \* asset[l]: the assets in l's S3 folder
  json,     \* json[l]: the patch version library.json states, NoJson, BadJson
  pc,       \* the call the run is about to make
  wishes,   \* machine names the install loop has still to visit
  pkg,      \* libraries of the current Hub package still to install
  todo,     \* libraries the current loop has still to visit
  cur,      \* the library being worked on
  ret,      \* who called deleteLibrary
  failed,   \* machine names whose uninstallation failed in this run
  removed,  \* the current uninstall round removed a library
  outcome,  \* how the last run ended
  mishaps,  \* faults, kills and uploads so far
  excused   \* history: libraries for which this run swallowed an error

store == <<entry, asset, json>>
loop  == <<wishes, pkg, todo, failed, removed, outcome>>
vars  == <<entry, asset, json, pc, wishes, pkg, todo, cur, ret, failed,
           removed, outcome, mishaps, excused>>

Deleting == {"del_check", "del_files"}
WithCur  == Deleting \cup {"clear", "copy", "sync_read", "restore", "lost", "updated"}
Steps    == WithCur \cup {"uninstall_list", "uninstall", "install", "package",
                          "sync_list", "sync", "check_list", "check"}
Callers  == {"uninstall", "install", "sync", "check"}

(***************************************************************************)
(* What the code reads from the two stores.                                *)
(***************************************************************************)
Installed(l)   == entry[l] # 0
FolderEmpty(l) == asset[l] = {} /\ json[l] = NoJson

\* Two installed libraries of which each declares the other, once in each order.
Opposed ==
  {e \in Lib \X Lib : /\ Installed(e[1]) /\ Installed(e[2])
                      /\ e[2] \in Uses[e[1]] /\ e[1] \in Uses[e[2]]}

\* Library m still declares l when the declarations in lost have been deleted.
Declares(m, l, lost) == l \in Uses[m] /\ <<m, l>> \notin lost

\* Mutant: both sides of a mutual dependency are deleted.
CutsBoth == {Opposed}

\* removeCircularDependencies, by what module DependentsCount shows of it: from every
\* two libraries that declare each other it deletes one of the declarations, which one
\* depends on the order of the lists.  It returns when that leaves no ring: some
\* library of every set is declared by no other of them.
Cuts ==
  {lost \in SUBSET Opposed :
     /\ \A e \in Opposed : e \in lost <=> (e[1] = e[2] \/ <<e[2], e[1]>> \notin lost)
     /\ \A S \in SUBSET {l \in Lib : Installed(l)} :
          S # {} => \E l \in S : \A m \in S : ~Declares(m, l, lost)}

\* The dependents of l that are counted when the declarations in lost have been deleted
\* and the semantics.json of the libraries in missed is not found.
Dependents(l, missed, lost) ==
  {m \in Lib : /\ Installed(m)
               /\ \/ Declares(m, l, lost)
                  \/ /\ l \in SoftUses[m]
                     /\ Semantics \in asset[m] /\ m \notin missed}

Unwanted(missed, lost) ==
  {l \in Lib : /\ Installed(l)
               /\ NameOf[l] \notin failed
               /\ NameOf[l] \notin WishList
               /\ Dependents(l, missed, lost) = {}}

\* checkConsistency: installed, and the preloaded JS and CSS files exist.
Consistent(l) == Installed(l) /\ Required[l] \subseteq asset[l]

(***************************************************************************)
(* Control.                                                                *)
(***************************************************************************)
Init ==
  /\ entry = [l \in Lib |-> 0]
  /\ asset \in {f \in [Lib -> SUBSET Asset] : \A l \in Lib : f[l] \subseteq Content[l]}
  /\ json \in [Lib -> {NoJson} \cup Published]
  /\ pc = "idle" /\ cur = NoLib /\ ret = "none" /\ outcome = "none"
  /\ wishes = {} /\ pkg = {} /\ todo = {} /\ failed = {} /\ excused = {}
  /\ removed = FALSE
  /\ mishaps = 0

\* A fault of kind k happens (counted against the bound).
Fault(k) == k \in Faults /\ mishaps < MaxMishaps /\ mishaps' = mishaps + 1

\* The process is gone: its local state with it, the stores stay.
End(how) ==
  /\ pc' = "idle" /\ cur' = NoLib /\ ret' = "none" /\ outcome' = how
  /\ wishes' = {} /\ pkg' = {} /\ todo' = {} /\ failed' = {}
  /\ removed' = FALSE

\* run() rethrows S3 client errors only; it swallows every other error.
Abort(kind) == End(IF kind = "s3" THEN "failed" ELSE "swallowed")

\* Go on with loop or call p, between two libraries.
Continue(p) == pc' = p /\ cur' = NoLib /\ ret' = "none"

\* Call deleteLibrary(l) on behalf of caller c.
Delete(l, c) == pc' = "del_check" /\ cur' = l /\ ret' = c

StartRun ==
  /\ pc = "idle"
  /\ pc' = "uninstall_list"
  /\ outcome' = "none" /\ excused' = {}
  /\ UNCHANGED <<store, wishes, pkg, todo, cur, ret, failed, removed, mishaps>>

(***************************************************************************)
(* Phase 1: uninstallUnwantedLibrariesAsBulk.                              *)
(***************************************************************************)
ListForUninstall ==
  /\ pc = "uninstall_list"
  /\ \E missed \in SUBSET {m \in Lib : Semantics \in asset[m]}, lost \in Cuts :
       /\ \/ missed = {} /\ UNCHANGED mishaps
          \/ missed # {} /\ Fault("head")
       /\ todo' = Unwanted(missed, lost)
  /\ removed' = FALSE
  /\ Continue("uninstall")
  /\ UNCHANGED <<store, wishes, pkg, failed, outcome, excused>>

UninstallNext ==
  /\ pc = "uninstall"
  /\ \E l \in todo : todo' = todo \ {l} /\ Delete(l, "uninstall")
  /\ UNCHANGED <<store, wishes, pkg, failed, removed, outcome, mishaps, excused>>

\* Mutant: the loop starts over even if the round removed nothing.
UninstallForEver ==
  /\ pc = "uninstall" /\ todo = {}
  /\ Continue("uninstall_list")
  /\ UNCHANGED <<store, loop, mishaps, excused>>

UninstallAgain ==
  /\ pc = "uninstall" /\ todo = {} /\ removed
  /\ Continue("uninstall_list")
  /\ UNCHANGED <<store, loop, mishaps, excused>>

\* Mutant: one round of uninstalling.
UninstallOnce ==
  /\ pc = "uninstall" /\ todo = {}
  /\ wishes' = WishList
  /\ Continue("install")
  /\ UNCHANGED <<store, pkg, todo, failed, removed, outcome, mishaps, excused>>

UninstallDone ==
  /\ pc = "uninstall" /\ todo = {} /\ ~removed
  /\ wishes' = WishList
  /\ Continue("install")
  /\ UNCHANGED <<store, pkg, todo, failed, removed, outcome, mishaps, excused>>

(***************************************************************************)
(* LibraryStorage.deleteLibrary: the folder page by page, then the entry.  *)
(***************************************************************************)
\* Mutant: the ubername instead of the machine name is noted as failed.
ThrowUbername(kind) ==
  IF ret = "uninstall" /\ kind # "s3"
  THEN /\ failed' = failed \cup {cur}
       /\ Continue("uninstall")
       /\ UNCHANGED <<wishes, pkg, todo, removed, outcome>>
  ELSE Abort(kind)

\* An error leaves deleteLibrary: the uninstall loop notes the library and
\* goes on unless it is an S3 client error, everyone else gives up.
Throw(kind) ==
  IF ret = "uninstall" /\ kind # "s3"
  THEN /\ failed' = failed \cup {NameOf[cur]}
       /\ Continue("uninstall")
       /\ UNCHANGED <<wishes, pkg, todo, removed, outcome>>
  ELSE Abort(kind)

DelCheck ==
  /\ pc = "del_check"
  /\ IF Installed(cur)
     THEN pc' = "del_files" /\ UNCHANGED <<cur, ret, loop>>
     ELSE Throw("not_found")
  /\ UNCHANGED <<store, mishaps, excused>>

\* One DeleteObjects request, of which any part may have taken effect.
DelPage ==
  /\ pc \in {"del_files", "clear", "lost"}
  /\ \E S \in SUBSET asset[cur], j \in {NoJson, json[cur]} :
       /\ S # {} \/ j # json[cur]
       /\ asset' = [asset EXCEPT ![cur] = @ \ S]
       /\ json' = [json EXCEPT ![cur] = j]
  /\ UNCHANGED <<entry, pc, cur, ret, loop, mishaps, excused>>

\* Mutant: deleteDirectory returns after its first page.
FolderFirstPage == UNCHANGED <<mishaps, excused>>

\* deleteDirectory has returned.  Keys that DeleteObjects reports as not
\* deleted are not looked at (fault "keys"), so files may be left.
FolderDeleted ==
  \/ FolderEmpty(cur) /\ UNCHANGED <<mishaps, excused>>
  \/ ~FolderEmpty(cur) /\ Fault("keys") /\ excused' = excused \cup {cur}

DelEntry ==
  /\ pc = "del_files"
  /\ FolderDeleted
  /\ entry' = [entry EXCEPT ![cur] = 0]
  /\ removed' = (removed \/ ret = "uninstall")
  /\ Continue(ret)
  /\ UNCHANGED <<asset, json, wishes, pkg, todo, failed, outcome>>

DelFails ==
  /\ \E k \in {"s3", "db"} : /\ pc \in (IF k = "s3" THEN {"del_files"} ELSE Deleting)
                            /\ Fault(k) /\ Throw(k)
  /\ UNCHANGED <<store, excused>>

(***************************************************************************)
(* Phase 2: installLibrariesAsBulk.  The installer itself is a library     *)
(* (h5p-server); it writes through LibraryStorage.                         *)
(***************************************************************************)
InstallNext ==
  /\ pc = "install"
  /\ \E n \in wishes :
       /\ wishes' = wishes \ {n}
       /\ \/ pkg' = Package[n] /\ Continue("package")
          \/ UNCHANGED pkg /\ Continue("install")      \* not on the Hub
  /\ UNCHANGED <<store, todo, failed, removed, outcome, mishaps, excused>>

\* Another library of the package, in the patch version p the Hub offers.
InstallStart ==
  /\ pc = "package"
  /\ \E x \in pkg, p \in 1..MaxPatch :
       /\ pkg' = pkg \ {x}
       /\ \/ /\ ~Installed(x)
             /\ entry' = [entry EXCEPT ![x] = p]
             /\ pc' = "copy" /\ cur' = x
          \/ /\ Installed(x) /\ entry[x] < p
             /\ entry' = [entry EXCEPT ![x] = p]
             /\ pc' = "clear" /\ cur' = x
          \/ /\ entry[x] >= p
             /\ UNCHANGED <<entry, pc, cur>>
  /\ UNCHANGED <<asset, json, wishes, todo, ret, failed, removed, outcome, mishaps, excused>>

InstallCleared ==
  /\ pc = "clear" /\ FolderEmpty(cur)
  /\ pc' = "copy"
  /\ UNCHANGED <<store, cur, ret, loop, mishaps, excused>>

InstallCopy ==
  /\ pc = "copy"
  /\ \E a \in Content[cur] \ asset[cur] :
       asset' = [asset EXCEPT ![cur] = @ \cup {a}]
  /\ UNCHANGED <<entry, json, pc, cur, ret, loop, mishaps, excused>>

InstallCopied ==
  /\ pc = "copy" /\ Content[cur] \subseteq asset[cur]
  /\ Continue("package")
  /\ UNCHANGED <<store, loop, mishaps, excused>>

PackageDone ==
  /\ pc = "package" /\ pkg = {}
  /\ Continue("install")
  /\ UNCHANGED <<store, loop, mishaps, excused>>

\* The installer gives up, after removing the library again or not.  For a
\* timeout or a consistency error the job reverts with deleteLibrary; any
\* other error is logged and the loop goes on.
InstallFails ==
  /\ pc \in {"clear", "copy"}
  /\ Fault("hub")
  /\ \/ UNCHANGED store
     \/ /\ entry' = [entry EXCEPT ![cur] = 0]
        /\ asset' = [asset EXCEPT ![cur] = {}]
        /\ json' = [json EXCEPT ![cur] = NoJson]
  /\ Delete(cur, "install") \/ Continue("install")
  /\ pkg' = {}
  /\ UNCHANGED <<wishes, todo, failed, removed, outcome, excused>>

InstallDone ==
  /\ pc = "install" /\ wishes = {}
  /\ Continue("sync_list")
  /\ UNCHANGED <<store, loop, mishaps, excused>>

(***************************************************************************)
(* Phase 3: synchronizeDbEntryAndLibraryJson.                              *)
(***************************************************************************)
SyncList ==
  /\ pc = "sync_list"
  /\ todo' = {l \in Lib : ~FolderEmpty(l)}
  /\ Continue("sync")
  /\ UNCHANGED <<store, wishes, pkg, failed, removed, outcome, mishaps, excused>>

\* fileExists answers false for a missing file and for every error of head.
SyncNext ==
  /\ pc = "sync"
  /\ \E l \in todo :
       /\ todo' = todo \ {l}
       /\ cur' = l
       /\ \/ json[l] # NoJson /\ pc' = "sync_read" /\ UNCHANGED mishaps
          \/ json[l] = NoJson /\ pc' = "restore" /\ UNCHANGED mishaps
          \/ json[l] # NoJson /\ pc' = "restore" /\ Fault("head")
  /\ UNCHANGED <<store, ret, wishes, pkg, failed, removed, outcome, excused>>

\* synchronizeLibraryMetadataInDatabase
SyncRefuse ==
  /\ pc = "sync_read" /\ json[cur] = BadJson
  /\ Abort("bad_json")
  /\ UNCHANGED <<store, mishaps, excused>>

SyncAdd ==
  /\ pc = "sync_read" /\ json[cur] > 0 /\ ~Installed(cur)
  /\ \/ entry' = [entry EXCEPT ![cur] = json[cur]] /\ UNCHANGED <<mishaps, excused>>
     \/ Fault("db") /\ excused' = excused \cup {cur} /\ UNCHANGED entry
  /\ Continue("sync")
  /\ UNCHANGED <<asset, json, loop>>

SyncUpdate ==
  /\ pc = "sync_read" /\ json[cur] > entry[cur] /\ Installed(cur)
  /\ \/ /\ entry' = [entry EXCEPT ![cur] = json[cur]]
        /\ pc' = "updated" /\ UNCHANGED <<cur, ret, mishaps>>
     \/ Fault("db") /\ Delete(cur, "sync") /\ UNCHANGED entry
  /\ UNCHANGED <<asset, json, loop, excused>>

SyncUpToDate ==
  /\ pc = "sync_read" /\ json[cur] > 0 /\ json[cur] <= entry[cur]
  /\ Continue("sync")
  /\ UNCHANGED <<store, loop, mishaps, excused>>

UpdateChecked ==
  /\ pc = "updated"
  /\ \/ Consistent(cur) /\ Continue("sync") /\ UNCHANGED mishaps
     \/ ~Consistent(cur) /\ Delete(cur, "sync") /\ UNCHANGED mishaps
     \/ Consistent(cur) /\ Delete(cur, "sync") /\ (Fault("head") \/ Fault("db"))
  /\ UNCHANGED <<store, loop, excused>>

\* Mutant: the library.json of an installed library is not written again.
SyncRestoreForgets ==
  /\ pc = "restore"
  /\ \/ Installed(cur) /\ Continue("sync") /\ UNCHANGED <<json, mishaps, excused>>
     \/ /\ ~Installed(cur)
        /\ pc' = "lost" /\ UNCHANGED <<json, cur, ret, mishaps, excused>>
     \/ /\ Fault("db") /\ excused' = excused \cup {cur}
        /\ Continue("sync") /\ UNCHANGED json
  /\ UNCHANGED <<entry, asset, loop>>

\* Mutant: a folder nobody has an entry for is left alone.
SyncRestoreKeeps ==
  /\ pc = "restore"
  /\ \/ /\ Installed(cur)
        /\ json' = [json EXCEPT ![cur] = entry[cur]] /\ UNCHANGED <<mishaps, excused>>
     \/ ~Installed(cur) /\ UNCHANGED <<json, mishaps, excused>>
     \/ Fault("db") /\ excused' = excused \cup {cur} /\ UNCHANGED json
  /\ Continue("sync")
  /\ UNCHANGED <<entry, asset, loop>>

\* addLibraryJsonToS3
SyncRestore ==
  /\ pc = "restore"
  /\ \/ /\ Installed(cur)
        /\ json' = [json EXCEPT ![cur] = entry[cur]]
        /\ Continue("sync") /\ UNCHANGED <<mishaps, excused>>
     \/ /\ ~Installed(cur)
        /\ pc' = "lost" /\ UNCHANGED <<json, cur, ret, mishaps, excused>>
     \/ /\ Fault("db") /\ excused' = excused \cup {cur}
        /\ Continue("sync") /\ UNCHANGED json
  /\ UNCHANGED <<entry, asset, loop>>

LostDeleted ==
  /\ pc = "lost"
  /\ FolderDeleted
  /\ Continue("sync")
  /\ UNCHANGED <<store, loop>>

SyncDone ==
  /\ pc = "sync" /\ todo = {}
  /\ Continue("check_list")
  /\ UNCHANGED <<store, loop, mishaps, excused>>

(***************************************************************************)
(* Phase 4: checkAndRemoveBrokenLibraries.                                 *)
(***************************************************************************)
CheckList ==
  /\ pc = "check_list"
  /\ todo' = {l \in Lib : Installed(l)}
  /\ Continue("check")
  /\ UNCHANGED <<store, wishes, pkg, failed, removed, outcome, mishaps, excused>>

CheckNext ==
  /\ pc = "check"
  /\ \E l \in todo :
       /\ todo' = todo \ {l}
       /\ \/ Consistent(l) /\ Continue("check") /\ UNCHANGED mishaps
          \/ ~Consistent(l) /\ Delete(l, "check") /\ UNCHANGED mishaps
          \/ Consistent(l) /\ Delete(l, "check") /\ (Fault("head") \/ Fault("db"))
  /\ UNCHANGED <<store, wishes, pkg, failed, removed, outcome, excused>>

RunDone ==
  /\ pc = "check" /\ todo = {}
  /\ End("finished")
  /\ UNCHANGED <<store, mishaps, excused>>

(***************************************************************************)
(* Errors no loop catches, the deadline of the cron job, and uploads.      *)
(***************************************************************************)
UncaughtAt ==
  [s3 |-> {"uninstall_list", "sync_list", "sync_read", "restore", "lost", "check_list"},
   db |-> {"uninstall_list", "install", "sync_read", "check_list"}]

CallFails ==
  /\ \E k \in {"s3", "db"} : /\ pc \in UncaughtAt[k]
                            /\ Fault(k) /\ Abort(k)
  /\ UNCHANGED <<store, excused>>

Kill ==
  /\ pc # "idle"
  /\ Fault("kill")
  /\ End("killed")
  /\ UNCHANGED <<store, excused>>

\* H5pLibraryUploaderService, run between two job runs, possibly interrupted.
Uploads == INSTANCE UploadContract

Upload ==
  /\ pc = "idle"
  /\ Fault("upload")
  /\ Uploads!Upload
  /\ outcome' = "none"
  /\ UNCHANGED <<entry, pc, cur, ret, wishes, pkg, todo, failed, removed, excused>>

JobStep ==
  \/ ListForUninstall \/ UninstallNext \/ UninstallAgain \/ UninstallDone
  \/ DelCheck \/ DelPage \/ DelEntry
  \/ InstallNext \/ InstallStart \/ InstallCleared \/ InstallCopy
  \/ InstallCopied \/ PackageDone \/ InstallDone
  \/ SyncList \/ SyncNext \/ SyncRefuse \/ SyncAdd \/ SyncUpdate
  \/ SyncUpToDate \/ UpdateChecked \/ SyncRestore \/ LostDeleted \/ SyncDone
  \/ CheckList \/ CheckNext \/ RunDone

Mishap == DelFails \/ InstallFails \/ CallFails \/ Kill \/ Upload

Next == StartRun \/ JobStep \/ Mishap

Spec == Init /\ [][Next]_vars

\* The cron schedule starts runs for ever and a run that is not killed goes on.
FairSpec == Spec /\ WF_vars(StartRun) /\ WF_vars(JobStep)

(***************************************************************************)
(* Properties.                                                             *)
(***************************************************************************)
TypeOK ==
  /\ entry \in [Lib -> 0..MaxPatch]
  /\ asset \in [Lib -> SUBSET Asset]
  /\ json \in [Lib -> {BadJson, NoJson} \cup 1..MaxPatch]
  /\ pc \in Steps \cup {"idle"}
  /\ IF pc \in WithCur THEN cur \in Lib ELSE cur = NoLib
  /\ IF pc \in Deleting THEN ret \in Callers ELSE ret = "none"
  /\ wishes \subseteq WishList
  /\ pkg \subseteq Lib
  /\ todo \subseteq Lib
  /\ failed \subseteq Name
  /\ removed \in BOOLEAN
  /\ outcome \in {"none", "finished", "swallowed", "failed", "killed"}
  /\ mishaps \in 0..MaxMishaps
  /\ excused \subseteq Lib

\* The folder of l, if there is one, is described by a readable library.json
\* and by an entry that is not behind it.
Described(l) == ~FolderEmpty(l) => json[l] > 0 /\ entry[l] >= json[l]

\* An entry's preloaded scripts and styles are there.
Complete(l) == Installed(l) => Required[l] \subseteq asset[l]

\* When a run has finished (and until the next upload or run) the database and
\* S3 agree on every library for which no error was swallowed, whatever state
\* the run started from, and however many probes of S3 failed on the way.
FinishedRunAgrees ==
  pc = "idle" /\ outcome = "finished" =>
    \A l \in Lib : Complete(l) /\ (l \in excused \/ Described(l))

\* Files that nothing describes any more: no run can tell what they were.
Orphaned(l) == ~FolderEmpty(l) /\ json[l] = NoJson /\ ~Installed(l)

\* However the four phases, the installer and the deletions interleave with errors
\* and kills, the job never orphans files, except in a folder it is removing as lost.
NothingOrphaned ==
  [][\A l \in Lib : Orphaned(l)' /\ ~Orphaned(l) => pc = "idle" \/ (pc = "lost" /\ l = cur)]_vars

\* The uninstall loop works on a list read before its first deletion, and a count that
\* forgets one side of a mutual dependency.  It removes no library of the wish list, and
\* one that another installed library declares only when it declares that one itself:
\* the two never go with the same list.
NeededStays ==
  [][\A l \in Lib : ret = "uninstall" /\ entry[l] # 0 /\ entry'[l] = 0 =>
       /\ NameOf[l] \notin WishList
       /\ \A m \in Lib \ {l} : Installed(m) /\ l \in Uses[m] => m \in Uses[l] /\ m \notin todo]_vars

\* Installed libraries nobody wants: no name of theirs is wished for, only they declare
\* each other, and no semantics.json offers one of them.
Unneeded(S) ==
  /\ S # {}
  /\ \A l \in S : Installed(l) /\ NameOf[l] \notin WishList
  /\ \A l \in S, m \in Lib : Installed(m) =>
       /\ l \in Uses[m] => m \in S
       /\ ~(l \in SoftUses[m] /\ Semantics \in asset[m])

\* The uninstall loop stops only when all such libraries are gone, chains and pairs that
\* keep each other and what became unwanted through its own deletions included, except
\* libraries of a name whose uninstallation failed, and those that only the
\* semantics.json of such a library had offered: its folder may be gone already.
ChainsUninstalled ==
  [][pc = "uninstall" /\ pc' = "install" =>
       \A S \in SUBSET Lib : Unneeded(S) =>
         \E l \in S, m \in Lib : NameOf[m] \in failed /\ (m = l \/ l \in SoftUses[m])]_vars

\* "If the folder exists without a library.json in S3 and we don't have a
\* metadata entry stored in the database, we remove the folder": only such
\* folders are removed as lost.
LostIsLost == pc = "lost" => json[cur] = NoJson /\ ~Installed(cur)

\* Every run ends: the uninstall loop, a do-while(true), included.
RunEnds == pc # "idle" ~> pc = "idle"

\* Whatever faults, kills and uploads left behind, the runs after the last of
\* them bring the stores back in step, and nothing unneeded stays installed.
Settles == <>[](pc = "idle" => /\ \A l \in Lib : Complete(l) /\ Described(l)
                               /\ \A S \in SUBSET Lib : ~Unneeded(S))
=================================================================================
