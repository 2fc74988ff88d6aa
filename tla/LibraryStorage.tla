------------------------------ MODULE LibraryStorage ------------------------------
(***************************************************************************)
(* LibraryStorage and its repository, call by call, for one ubername: the  *)
(* documents of the library in MongoDB and its folder in S3, used at once  *)
(* by the run of the library management job, by the installers it starts   *)
(* and by an editor that lists the libraries.                              *)
(*                                                                         *)
(* MongoDB has no unique index on name and version, so nothing but the     *)
(* order of the calls keeps a library to one document.  An installer is    *)
(* h5p-server's (external).  When its lock times out, at whatever call it  *)
(* is, the job takes the library back and goes on, but the installer is    *)
(* not stopped: it shares the process with the run until process.exit.     *)
(* One that is left before its first lookup has returned may find the      *)
(* library taken back, and add it while others do: only then has a library *)
(* two documents, and these no run can repair.                             *)
(***************************************************************************)
EXTENDS Integers, FiniteSets

CONSTANTS
  Installer,    \* installations of one run that meet this library
  Doc,          \* document ids
  Hub,          \* the patch version the Hub offers
  MaxTimeouts,  \* bound on lock timeouts
  NoDoc

ASSUME StorageAssumption ==
  /\ Hub \in Nat \ {0}
  /\ MaxTimeouts \in Nat
  /\ NoDoc \notin Doc
  /\ {"job", "editor"} \cap Installer = {}
  /\ IsFiniteSet(Doc)

File == {"library.json", "script"}
Flow == Installer \cup {"job", "editor"}

VARIABLES
  docs,      \* docs[d]: patch version in document d, 0 if there is no such document
  folder,    \* folder[f]: patch version of file f in S3, 0 if there is no such file
  flow,      \* flow[f]: the call f is about to make, and its locals
  left,      \* installations the run has still to start
  timeouts,  \* lock timeouts so far
  deletions, \* history: an entry was deleted while the editor was listing
  late       \* history: an installer the run had left looked the library up and found none

vars == <<docs, folder, flow, left, timeouts, deletions, late>>

\* patch is what the caller wants to store, doc the document it has found, names
\* the number of listed libraries still to be read, who the installer waited for,
\* then where a called operation returns to.
Idle == [pc |-> "idle", patch |-> 0, doc |-> NoDoc, names |-> 0, who |-> "none", then |-> "none"]

At(f, p)    == flow[f].pc = p
Go(f, next) == flow' = [flow EXCEPT ![f] = next]
Goto(f, p)  == Go(f, [flow[f] EXCEPT !.pc = p])

(***************************************************************************)
(* What the repository's queries find.                                     *)
(***************************************************************************)
Entries  == {d \in Doc : docs[d] # 0}
None     == Entries = {}
One      == Cardinality(Entries) = 1
Exact(p) == {d \in Entries : docs[d] = p}
Newest   == CHOOSE p \in {docs[d] : d \in Entries} : \A d \in Entries : docs[d] <= p

\* The run is over and with it the process, whatever is still going on in it.
EndRun ==
  /\ flow' = [f \in Flow |-> IF f = "editor" THEN flow[f] ELSE Idle]
  /\ left' = {}

Stay == UNCHANGED left

\* Mutant: a library that is not there any more counts as deleted.
DeletionGoesOn(f) == Goto(f, flow[f].then) /\ Stay

\* deleteLibrary throws: no loop of the run catches that.
DeletionThrows(f) ==
  IF f = "job" THEN EndRun ELSE Goto(f, "threw") /\ Stay

\* Call deleteLibrary and go on at p.
Delete(f, p) == Go(f, [flow[f] EXCEPT !.pc = "delete", !.then = p])

(***************************************************************************)
(* Listing: the names, then the metadata of each, all at once.             *)
(***************************************************************************)
ListingFails(f) ==
  IF f = "job" THEN EndRun ELSE Goto(f, "failed") /\ Stay

GetInstalledLibraryNames(f) ==
  /\ At(f, "list")
  /\ Go(f, [flow[f] EXCEPT !.pc = "read", !.names = Cardinality(Entries),
                           !.then = IF @ = "check" /\ None THEN "over" ELSE @])
  /\ UNCHANGED <<docs, folder, left, timeouts, deletions, late>>

ReadListed(f) ==
  /\ At(f, "read") /\ flow[f].names > 0
  /\ IF One THEN Go(f, [flow[f] EXCEPT !.names = @ - 1]) /\ Stay ELSE ListingFails(f)
  /\ UNCHANGED <<docs, folder, timeouts, deletions, late>>

Listed(f) ==
  /\ At(f, "read") /\ flow[f].names = 0
  /\ Goto(f, flow[f].then)
  /\ UNCHANGED <<docs, folder, left, timeouts, deletions, late>>

\* h5p-server asks for the addons whenever the editor renders a page.
ListAddons ==
  /\ flow["editor"].pc \in {"idle", "failed"}
  /\ Go("editor", [Idle EXCEPT !.pc = "list", !.then = "idle"])
  /\ deletions' = FALSE
  /\ UNCHANGED <<docs, folder, left, timeouts, late>>

(***************************************************************************)
(* addLibrary, updateLibrary.                                              *)
(***************************************************************************)
FindByNameAndExactVersion(f) ==
  /\ At(f, "add")
  /\ IF Exact(flow[f].patch) = {}
     THEN Goto(f, "create")
     ELSE Goto(f, IF f = "job" THEN "list" ELSE "threw")
  /\ UNCHANGED <<docs, folder, left, timeouts, deletions, late>>

CreateLibrary(f) ==
  /\ At(f, "create")
  /\ \E d \in Doc \ Entries : docs' = [docs EXCEPT ![d] = flow[f].patch]
  /\ Goto(f, IF f = "job" THEN "verify" ELSE "copy")
  /\ UNCHANGED <<folder, left, timeouts, deletions, late>>

\* The entity is looked up in the identity map as soon as the query has returned, so
\* that the save is an update of this document, whatever happens to it in between.
\* Lists are compared by reference: metadata read from a file always count as changed.
FindForUpdate(f) ==
  /\ At(f, "update")
  /\ IF One
     THEN \E d \in Entries : Go(f, [flow[f] EXCEPT !.pc = "save", !.doc = d])
     ELSE Delete(f, IF f = "job" THEN "list" ELSE "inconsistent")
  /\ UNCHANGED <<docs, folder, left, timeouts, deletions, late>>

\* Mutant: the changed metadata are stored in a document with an id of its own.
SaveAsNew(f) ==
  /\ At(f, "save")
  /\ \E d \in Doc \ Entries : docs' = [docs EXCEPT ![d] = flow[f].patch]
  /\ Goto(f, IF f = "job" THEN "verify_update" ELSE "clear")
  /\ UNCHANGED <<folder, left, timeouts, deletions, late>>

\* An update that finds its document gone changes nothing and is no error.
Save(f) ==
  /\ At(f, "save")
  /\ docs' = [docs EXCEPT ![flow[f].doc] = IF @ = 0 THEN 0 ELSE flow[f].patch]
  /\ Goto(f, IF f = "job" THEN "verify_update" ELSE "clear")
  /\ UNCHANGED <<folder, left, timeouts, deletions, late>>

(***************************************************************************)
(* clearFiles, deleteFolder, deleteLibrary.                                *)
(***************************************************************************)
ClearFiles(f) ==
  /\ At(f, "clear")
  /\ IF None THEN Delete(f, "inconsistent") ELSE Goto(f, "clearing")
  /\ UNCHANGED <<docs, folder, left, timeouts, deletions, late>>

Emptying == {"clearing", "deleting", "losing"}

\* deleteDirectory, object by object.
DeleteObject(f) ==
  /\ flow[f].pc \in Emptying
  /\ \E x \in File : folder[x] # 0 /\ folder' = [folder EXCEPT ![x] = 0]
  /\ UNCHANGED <<docs, flow, left, timeouts, deletions, late>>

FolderDeleted(f) ==
  /\ flow[f].pc \in Emptying
  /\ \A x \in File : folder[x] = 0
  /\ Goto(f, CASE At(f, "clearing") -> "copy"
               [] At(f, "deleting") -> "find"
               [] At(f, "losing")   -> "list")
  /\ UNCHANGED <<docs, folder, left, timeouts, deletions, late>>

\* deleteLibrary asks isInstalled, and so does the clearFiles it calls.
DeleteLibrary(f) ==
  /\ flow[f].pc \in {"delete", "delete_files"}
  /\ IF None
     THEN DeletionThrows(f)
     ELSE Goto(f, IF At(f, "delete") THEN "delete_files" ELSE "deleting") /\ Stay
  /\ UNCHANGED <<docs, folder, timeouts, deletions, late>>

FindForDelete(f) ==
  /\ At(f, "find")
  /\ IF One
     THEN \E d \in Entries : Go(f, [flow[f] EXCEPT !.pc = "remove", !.doc = d]) /\ Stay
     ELSE DeletionThrows(f)
  /\ UNCHANGED <<docs, folder, timeouts, deletions, late>>

\* A synchronisation that has deleted goes on to the list that is checked.
DeleteEntry(f) ==
  /\ At(f, "remove")
  /\ docs' = [docs EXCEPT ![flow[f].doc] = 0]
  /\ Go(f, [flow[f] EXCEPT !.pc = flow[f].then, !.then = "check"])
  /\ deletions' = TRUE
  /\ UNCHANGED <<folder, left, timeouts, late>>

(***************************************************************************)
(* checkConsistency: the entry, then the preloaded scripts.                *)
(***************************************************************************)
Verifying == {"verify", "verify_update", "check"}

\* Where a check that fails leads: addLibrary swallows it, the others delete.
Inconsistent(f) ==
  IF At(f, "verify") /\ f = "job" THEN Goto(f, "list")
  ELSE Delete(f, CASE f # "job"              -> "inconsistent"
                   [] At(f, "check")         -> "over"
                   [] At(f, "verify_update") -> "list")

\* Mutant: the files of an entry are not looked at.
ConsistentUnread == One

Consistent == One /\ folder["script"] # 0

CheckConsistency(f) ==
  /\ flow[f].pc \in Verifying
  /\ IF Consistent
     THEN Goto(f, CASE f # "job" -> "done" [] At(f, "check") -> "over" [] OTHER -> "list")
     ELSE Inconsistent(f)
  /\ UNCHANGED <<docs, folder, left, timeouts, deletions, late>>

(***************************************************************************)
(* An installer (external): as h5p-server calls the storage.               *)
(***************************************************************************)
AwaitedFor(i) == At("job", "await") /\ flow["job"].who = i

\* The entry is read to compare versions, which throws when it is not the only one.
IsInstalled(i) ==
  /\ At(i, "start")
  /\ Goto(i, CASE None                 -> "add"
               [] One /\ Newest < Hub  -> "update"
               [] One /\ Newest >= Hub -> "done"
               [] OTHER                -> "threw")
  /\ late' = (late \/ (None /\ ~AwaitedFor(i)))
  /\ UNCHANGED <<docs, folder, left, timeouts, deletions>>

AddFile(i) ==
  /\ At(i, "copy")
  /\ folder' = [folder EXCEPT !["script"] = Hub]
  /\ Goto(i, "verify")
  /\ UNCHANGED <<docs, left, timeouts, deletions, late>>

(***************************************************************************)
(* The run.                                                                *)
(***************************************************************************)
Init ==
  /\ docs \in {g \in [Doc -> 0..Hub] : Cardinality({d \in Doc : g[d] # 0}) <= 1}
  /\ folder \in [File -> 0..Hub]
  /\ flow = [f \in Flow |-> Idle]
  /\ left = {} /\ timeouts = 0 /\ deletions = FALSE /\ late = FALSE

StartRun ==
  /\ At("job", "idle")
  /\ Go("job", [Idle EXCEPT !.pc = "list", !.then = "wish"])
  /\ left' = Installer
  /\ UNCHANGED <<docs, folder, timeouts, deletions, late>>

InstallLibrary ==
  /\ At("job", "wish")
  /\ \E i \in left :
       /\ left' = left \ {i}
       /\ flow' = [flow EXCEPT !["job"] = [@ EXCEPT !.pc = "await", !.who = i],
                               ![i] = [Idle EXCEPT !.pc = "start", !.patch = Hub]]
  /\ UNCHANGED <<docs, folder, timeouts, deletions, late>>

\* A consistency error is answered with deleteLibrary, any other is logged.
Installed ==
  /\ At("job", "await")
  /\ LET i == flow["job"].who IN
       \/ flow[i].pc \in {"done", "threw"} /\ Goto("job", "wish")
       \/ At(i, "inconsistent") /\ Delete("job", "wish")
  /\ UNCHANGED <<docs, folder, left, timeouts, deletions, late>>

\* The lock has been held too long: the run takes the library back and leaves the
\* installer to itself, wherever it is.
TimesOut ==
  /\ At("job", "await")
  /\ flow[flow["job"].who].pc \notin {"done", "threw", "inconsistent"}
  /\ timeouts < MaxTimeouts /\ timeouts' = timeouts + 1
  /\ Delete("job", "wish")
  /\ UNCHANGED <<docs, folder, left, deletions, late>>

AllWished ==
  /\ At("job", "wish") /\ left = {}
  /\ Go("job", [flow["job"] EXCEPT !.pc = IF \E x \in File : folder[x] # 0 THEN "head" ELSE "list",
                                   !.then = "check"])
  /\ UNCHANGED <<docs, folder, left, timeouts, deletions, late>>

LibraryJsonExists ==
  /\ At("job", "head")
  /\ Goto("job", IF folder["library.json"] # 0 THEN "json" ELSE "restore")
  /\ UNCHANGED <<docs, folder, left, timeouts, deletions, late>>

ReadLibraryJson ==
  /\ At("job", "json")
  /\ IF folder["library.json"] = 0
     THEN EndRun
     ELSE /\ Go("job", [flow["job"] EXCEPT !.pc = "synchronize", !.patch = folder["library.json"]])
          /\ Stay
  /\ UNCHANGED <<docs, folder, timeouts, deletions, late>>

\* isPatchedLibrary is not caught: an entry that is not the only one ends the run.
SynchronizeLibraryMetadata ==
  /\ At("job", "synchronize")
  /\ \/ None /\ Goto("job", "add") /\ Stay
     \/ One /\ Newest < flow["job"].patch /\ Goto("job", "update") /\ Stay
     \/ One /\ Newest >= flow["job"].patch /\ Goto("job", "list") /\ Stay
     \/ ~None /\ ~One /\ EndRun
  /\ UNCHANGED <<docs, folder, timeouts, deletions, late>>

\* The entry is read, and its patch version written to library.json; without an
\* entry the folder is lost; any other error is logged.
AddLibraryJsonToS3 ==
  /\ At("job", "restore")
  /\ Go("job", [flow["job"] EXCEPT !.pc = IF One THEN "write" ELSE IF None THEN "losing" ELSE "list",
                                   !.patch = IF One THEN Newest ELSE 0])
  /\ UNCHANGED <<docs, folder, left, timeouts, deletions, late>>

WriteLibraryJson ==
  /\ At("job", "write")
  /\ folder' = [folder EXCEPT !["library.json"] = flow["job"].patch]
  /\ Goto("job", "list")
  /\ UNCHANGED <<docs, left, timeouts, deletions, late>>

RunOver ==
  /\ At("job", "over")
  /\ EndRun
  /\ UNCHANGED <<docs, folder, timeouts, deletions, late>>

Listing(f) == GetInstalledLibraryNames(f) \/ ReadListed(f) \/ Listed(f)

StorageCall(f) ==
  \/ FindByNameAndExactVersion(f) \/ CreateLibrary(f)
  \/ FindForUpdate(f) \/ Save(f)
  \/ ClearFiles(f) \/ DeleteObject(f) \/ FolderDeleted(f)
  \/ DeleteLibrary(f) \/ FindForDelete(f) \/ DeleteEntry(f)
  \/ CheckConsistency(f)

RunStep ==
  \/ Listing("job") \/ StorageCall("job")
  \/ StartRun \/ InstallLibrary \/ Installed \/ AllWished
  \/ LibraryJsonExists \/ ReadLibraryJson \/ SynchronizeLibraryMetadata
  \/ AddLibraryJsonToS3 \/ WriteLibraryJson \/ RunOver

InstallerStep(i) == IsInstalled(i) \/ AddFile(i) \/ StorageCall(i)

Next ==
  \/ RunStep \/ TimesOut
  \/ \E i \in Installer : InstallerStep(i)
  \/ ListAddons \/ Listing("editor")

Spec == Init /\ [][Next]_vars

\* The schedule of the job, and every call returns.  Nobody has to open an editor.
FairSpec ==
  /\ Spec
  /\ WF_vars(RunStep)
  /\ \A i \in Installer : WF_vars(InstallerStep(i))

(***************************************************************************)
(* Properties.                                                             *)
(***************************************************************************)
Labels == {"idle", "failed", "list", "read", "add", "create", "update", "save", "clear",
           "delete", "delete_files", "find", "remove", "start", "copy", "done", "threw",
           "inconsistent", "wish", "await", "head", "json", "synchronize", "restore",
           "write", "over"} \cup Emptying \cup Verifying

TypeOK ==
  /\ docs \in [Doc -> 0..Hub]
  /\ folder \in [File -> 0..Hub]
  /\ flow \in [Flow -> [pc : Labels, patch : 0..Hub, doc : Doc \cup {NoDoc},
                        names : 0..Cardinality(Doc), who : Installer \cup {"none"},
                        then : Labels \cup {"none"}]]
  /\ left \subseteq Installer
  /\ timeouts \in 0..MaxTimeouts
  /\ deletions \in BOOLEAN
  /\ late \in BOOLEAN
  /\ late \/ Cardinality(Entries) <= 1

\* The list of libraries, and with it every page of the editor, fails only when a
\* library was deleted while it was being read, or after an installer that the run had
\* left found the library taken back and added it beside another: of two documents
\* ("Multiple libraries with the same name and version found") every list fails from
\* then on, the one the job starts with included.  No other interleaving makes two.
ListFailsOnlyOnDeletion == At("editor", "failed") => deletions \/ late

\* Whatever installers left to themselves have written or removed, the runs after
\* the last timeout bring the library to one entry with its files, unless such an
\* installer looked the library up late and found it taken back.
Whole ==
  /\ One /\ Newest = Hub
  /\ folder["script"] # 0 /\ folder["library.json"] \in 1..Hub

Recovers == (<>[]Whole) \/ <>late
=================================================================================
