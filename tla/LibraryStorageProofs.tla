-------------------------- MODULE LibraryStorageProofs --------------------------
(***************************************************************************)
(* Theorems about the library storage: for any number of documents and     *)
(* installers, wherever an installer is when the job takes the library     *)
(* back.  Only one that looks the library up after that, and finds it      *)
(* gone, makes a second document: late, in the model.                      *)
(***************************************************************************)
EXTENDS LibraryStorage, FiniteSetTheorems, TLAPS

(***************************************************************************)
(* What an actor may be doing.                                             *)
(***************************************************************************)
Locals == [pc : Labels, patch : 0..Hub, doc : Doc \cup {NoDoc}, names : 0..Cardinality(Doc),
           who : Installer \cup {"none"}, then : Labels \cup {"none"}]

Adding   == {"add", "create"}
Removing == {"delete", "delete_files", "deleting", "find", "remove"}
Storing  == {"start", "synchronize", "update", "save"} \cup Adding

\* From here the job goes to a list, or is at one.
Syncing == {"list", "read", "head", "json", "synchronize", "restore", "write", "losing",
            "update", "save", "verify", "verify_update"} \cup Adding

EditorOK(x) ==
  /\ x.pc \in {"idle", "failed", "list", "read"}
  /\ x.pc \in {"list", "read"} => x.then = "idle"

InstallerOK(x) ==
  /\ x.pc \notin {"check", "verify_update"}
  /\ x.pc \in Removing => x.then = "inconsistent"

JobOK(x) ==
  /\ x.pc \notin {"start", "clear", "clearing", "copy"}
  /\ x.pc \in Syncing => x.then \in {"wish", "check", "over"}
  /\ x.pc \in Removing => x.then \in {"wish", "list", "over"}

\* Nothing is stored under the patch version that stands for no document.
ActorOK(f, x) ==
  /\ x \in Locals
  /\ f = "editor" => EditorOK(x)
  /\ f = "job" => JobOK(x)
  /\ f \in Installer => InstallerOK(x)
  /\ x.pc \in Storing => x.patch # 0

TypeInv ==
  /\ docs \in [Doc -> 0..Hub] /\ folder \in [File -> 0..Hub]
  /\ left \subseteq Installer /\ timeouts \in 0..MaxTimeouts
  /\ deletions \in BOOLEAN /\ late \in BOOLEAN
  /\ flow \in [Flow -> Locals]
  /\ \A f \in Flow : ActorOK(f, flow[f])

(***************************************************************************)
(* One document, because one actor adds it.                                *)
(***************************************************************************)
Single == \A d, e \in Doc : docs[d] # 0 /\ docs[e] # 0 => d = e

\* The job waits for installer i, or is about to find out that what i was to
\* install is not there.
Waiting(i, pcs) == flow["job"].pc \in pcs /\ flow["job"].who = i

OneAdds ==
  /\ flow["job"].pc \in Adding => None
  /\ \A i \in Installer :
       flow[i].pc \in Adding => None /\ Waiting(i, {"await", "delete"})

\* What the editor has still to read is there, as long as nothing is deleted.
EditorReads ==
  /\ At("editor", "failed") => deletions
  /\ At("editor", "read") /\ flow["editor"].names > 0 => deletions \/ ~None

\* All of it until an installer is late.
Once == Single /\ OneAdds /\ EditorReads

StorageInv == TypeInv /\ (late \/ Once)

(***************************************************************************)
(* The documents.                                                          *)
(***************************************************************************)
LEMMA SomeOrNone ==
  /\ IsFiniteSet(Entries)
  /\ Cardinality(Entries) \in 0..Cardinality(Doc) /\ Cardinality(Doc) \in Nat
  /\ None <=> Cardinality(Entries) = 0
<1>1. Entries \subseteq Doc
  BY DEF Entries
<1>2. IsFiniteSet(Doc) /\ IsFiniteSet(Entries) /\ Cardinality(Entries) <= Cardinality(Doc)
  BY <1>1, StorageAssumption, FS_Subset
<1>3. Cardinality(Entries) \in Nat /\ Cardinality(Doc) \in Nat
  BY <1>2, FS_CardinalityType
<1>4. None <=> Cardinality(Entries) = 0
  BY <1>2, FS_EmptySet DEF None
<1> QED  BY <1>2, <1>3, <1>4

\* A query that finds one document.
LEMMA FoundOne ==
  ASSUME docs \in [Doc -> 0..Hub], One
  PROVE  ~None /\ Newest \in 1..Hub
<1>1. PICK d : Entries = {d}
  BY SomeOrNone, FS_Singleton DEF One
<1>2. d \in Doc /\ docs[d] # 0
  BY <1>1 DEF Entries
<1>3. docs[d] \in 1..Hub
  BY <1>2, StorageAssumption
<1>4. Newest = docs[d]
  <2>1. docs[d] <= docs[d]
    BY <1>3
  <2>2. \A p : p \in {docs[e] : e \in Entries} /\ (\A e \in Entries : docs[e] <= p) <=> p = docs[d]
    BY <1>1, <2>1
  <2>3. Newest = CHOOSE p : p \in {docs[e] : e \in Entries} /\ (\A e \in Entries : docs[e] <= p)
    BY DEF Newest
  <2>4. Newest = CHOOSE p : p = docs[d]
    BY <2>2, <2>3
  <2> QED  BY <2>4
<1> QED  BY <1>1, <1>3, <1>4 DEF None

\* With at most one document a query finds it or nothing.
LEMMA Found ==
  ASSUME Single
  PROVE  One <=> ~None
<1>1. ASSUME ~None PROVE One
  <2>1. PICK d \in Doc : docs[d] # 0
    BY <1>1 DEF None, Entries
  <2>2. Entries = {d}
    BY <2>1 DEF Entries, Single
  <2> QED  BY <2>2, FS_Singleton DEF One
<1> QED  BY <1>1, SomeOrNone DEF One

(***************************************************************************)
(* What a call changes of its actor.                                       *)
(***************************************************************************)
LEMMA PcSet ==
  ASSUME NEW x \in Locals, NEW p \in Labels
  PROVE  LET y == [x EXCEPT !.pc = p] IN
         /\ y \in Locals
         /\ y.pc = p /\ y.then = x.then /\ y.who = x.who /\ y.patch = x.patch /\ y.names = x.names
<1>1. [x EXCEPT !.pc = p] \in Locals
  BY Zenon DEF Locals
<1> QED  BY <1>1, SMT DEF Locals

LEMMA IdleOK ==
  /\ Idle \in Locals
  /\ Idle.pc = "idle" /\ Idle.then = "none" /\ Idle.who = "none" /\ Idle.patch = 0 /\ Idle.names = 0
  /\ \A f \in Flow : ActorOK(f, Idle)
<1>1. 0 \in 0..Hub /\ 0 \in 0..Cardinality(Doc)
  BY StorageAssumption, SomeOrNone
<1>2. "idle" \in Labels /\ "none" \in Labels \cup {"none"} /\ "none" \in Installer \cup {"none"}
  BY DEF Labels
<1>3. NoDoc \in Doc \cup {NoDoc}
  OBVIOUS
<1>4. Idle \in Locals
  BY <1>1, <1>2, <1>3, Zenon DEF Idle, Locals
<1>5. Idle.pc = "idle" /\ Idle.then = "none" /\ Idle.who = "none" /\ Idle.patch = 0 /\ Idle.names = 0
  BY DEF Idle
<1> QED
  BY <1>4, <1>5 DEF ActorOK, EditorOK, InstallerOK, JobOK, Storing, Adding, Syncing, Removing

(***************************************************************************)
(* Steps of one actor.                                                     *)
(***************************************************************************)
\* One actor moves, the others stay where they are.
LEMMA Moves ==
  ASSUME TypeInv, NEW f \in Flow, NEW y, ActorOK(f, y), Go(f, y)
  PROVE  /\ flow' \in [Flow -> Locals]
         /\ flow'[f] = y
         /\ \A g \in Flow \ {f} : flow'[g] = flow[g]
         /\ \A g \in Flow : ActorOK(g, flow'[g])
<1>1. y \in Locals
  BY DEF ActorOK
<1>2. /\ flow' \in [Flow -> Locals]
      /\ flow'[f] = y
      /\ \A g \in Flow \ {f} : flow'[g] = flow[g]
  BY <1>1 DEF TypeInv, Go
<1>3. \A g \in Flow : ActorOK(g, flow'[g])
  <2> TAKE g \in Flow
  <2>1. CASE g = f
    BY <1>2, <2>1
  <2>2. CASE g # f
    BY <1>2, <2>2 DEF TypeInv
  <2> QED  BY <2>1, <2>2
<1> QED  BY <1>2, <1>3

\* A step to p that adds only what is not there, and leaves no installer at its
\* insertion behind.
Quiet(f, p) ==
  /\ p \in Adding => None /\ (f \in Installer => flow[f].pc \in Adding \/ Waiting(f, {"await"}))
  /\ f = "job" /\ flow["job"].pc \in {"await", "delete"} =>
       \A i \in Installer : flow[i].pc \notin Adding

\* What is asked of a step only while no installer is late.
Unless(Q) == late' \in BOOLEAN /\ (late => late') /\ (late' \/ Q)

LEMMA QuietStep ==
  ASSUME StorageInv, NEW f \in Installer \cup {"job"}, NEW y, ActorOK(f, y), Go(f, y),
         Unless(Quiet(f, y.pc)),
         UNCHANGED <<docs, timeouts, deletions>>,
         folder' \in [File -> 0..Hub], left' \subseteq Installer
  PROVE  StorageInv'
<1> f \in Flow
  BY DEF Flow
<1>1. /\ flow' \in [Flow -> Locals]
      /\ flow'[f] = y
      /\ \A g \in Flow \ {f} : flow'[g] = flow[g]
      /\ \A g \in Flow : ActorOK(g, flow'[g])
  BY Moves DEF StorageInv
<1>2. TypeInv'
  BY <1>1 DEF StorageInv, TypeInv, Unless
<1>q. SUFFICES ASSUME Once, Quiet(f, y.pc) PROVE Once'
  BY <1>2 DEF StorageInv, Unless
<1>3. Single' /\ (None' <=> None)
  BY <1>q DEF Once, Single, None, Entries
<1>4. "job" \in Flow /\ "editor" \in Flow /\ f # "editor" /\ Installer \subseteq Flow /\ "job" \notin Installer
  BY StorageAssumption DEF Flow
<1>5. OneAdds'
  <2>1. CASE f = "job"
    <3>1. \A i \in Installer : flow'[i] = flow[i]
      BY <1>1, <1>4, <2>1
    <3>2. \A i \in Installer : flow[i].pc \notin Adding
      BY <1>q, <2>1 DEF Once, OneAdds, Waiting, Quiet
    <3> QED  BY <1>1, <1>3, <1>q, <2>1, <3>1, <3>2 DEF OneAdds, Quiet
  <2>2. CASE f \in Installer
    <3>1. flow'["job"] = flow["job"]
      BY <1>1, <1>4, <2>2
    <3>2. ASSUME NEW i \in Installer, flow'[i].pc \in Adding
          PROVE  None /\ (flow[i].pc \in Adding \/ Waiting(i, {"await"}))
      BY <1>1, <1>4, <1>q, <2>2, <3>2 DEF Quiet, Once, OneAdds
    <3> QED  BY <1>3, <1>q, <3>1, <3>2 DEF Once, OneAdds, Waiting
  <2> QED  BY <2>1, <2>2
<1>6. EditorReads'
  <2>1. flow'["editor"] = flow["editor"]
    BY <1>1, <1>4
  <2> QED  BY <2>1, <1>3, <1>q DEF Once, EditorReads, At
<1> QED  BY <1>3, <1>5, <1>6 DEF Once

\* The end of the run.
LEMMA EndRunStep ==
  ASSUME StorageInv, EndRun, UNCHANGED <<docs, folder, timeouts, deletions, late>>
  PROVE  StorageInv'
<1>1. /\ "editor" \in Flow /\ "job" \in Flow /\ Installer \subseteq Flow
      /\ "job" # "editor" /\ "editor" \notin Installer
  BY StorageAssumption DEF Flow
<1>2. /\ flow' \in [Flow -> Locals]
      /\ flow'["editor"] = flow["editor"]
      /\ \A f \in Flow \ {"editor"} : flow'[f] = Idle
  BY <1>1, IdleOK DEF EndRun, StorageInv, TypeInv
<1>3. \A f \in Flow : ActorOK(f, flow'[f])
  BY <1>2, IdleOK DEF StorageInv, TypeInv
<1>4. TypeInv'
  BY <1>2, <1>3 DEF StorageInv, TypeInv, EndRun
<1>q. SUFFICES ASSUME Once PROVE Once'
  BY <1>4 DEF StorageInv
<1>5. Single' /\ (None' <=> None)
  BY <1>q DEF Once, Single, None, Entries
<1>6. OneAdds'
  <2>1. flow'["job"].pc = "idle" /\ \A i \in Installer : flow'[i].pc = "idle"
    BY <1>1, <1>2, IdleOK
  <2> QED  BY <2>1 DEF OneAdds, Adding
<1>7. EditorReads'
  BY <1>2, <1>5, <1>q DEF Once, EditorReads, At
<1> QED  BY <1>5, <1>6, <1>7 DEF Once

\* The actor goes on at p.
MayGo(f, p) ==
  /\ f = "job" =>
       /\ p \notin {"start", "clear", "clearing", "copy"}
       /\ p \in Syncing => flow[f].then \in {"wish", "check", "over"}
       /\ p \in Removing => flow[f].then \in {"wish", "list", "over"}
  /\ f \in Installer =>
       /\ p \notin {"check", "verify_update"}
       /\ p \in Removing => flow[f].then = "inconsistent"
  /\ p \in Storing => flow[f].patch # 0

LEMMA GotoStep ==
  ASSUME StorageInv, NEW f \in Installer \cup {"job"}, NEW p \in Labels, Goto(f, p), MayGo(f, p),
         Unless(Quiet(f, p)),
         UNCHANGED <<docs, timeouts, deletions>>,
         folder' \in [File -> 0..Hub], left' \subseteq Installer
  PROVE  StorageInv'
<1> DEFINE y == [flow[f] EXCEPT !.pc = p]
<1>1. /\ f \in Flow /\ f # "editor" /\ (f = "job" \/ f \in Installer)
      /\ flow[f] \in Locals
  BY StorageAssumption DEF Flow, StorageInv, TypeInv
<1>2. /\ y \in Locals
      /\ y.pc = p /\ y.then = flow[f].then /\ y.patch = flow[f].patch
  BY <1>1, PcSet
<1>3. Go(f, y)
  BY DEF Goto
<1> HIDE DEF y
<1>4. ActorOK(f, y)
  BY <1>1, <1>2 DEF ActorOK, MayGo, JobOK, InstallerOK
<1> QED  BY <1>2, <1>3, <1>4, QuietStep

\* The actor calls deleteLibrary and goes on at p.
LEMMA DeleteStep ==
  ASSUME StorageInv, NEW f \in Installer \cup {"job"}, NEW p \in Labels, Delete(f, p),
         f = "job" => p \in {"wish", "list", "over"},
         f \in Installer => p = "inconsistent",
         Unless(Quiet(f, "delete")),
         UNCHANGED <<docs, folder, left, timeouts, deletions>>
  PROVE  StorageInv'
<1>y. PICK y : y = [flow[f] EXCEPT !.pc = "delete", !.then = p]
  OBVIOUS
<1>1. /\ f \in Flow /\ f # "editor" /\ (f = "job" \/ f \in Installer)
      /\ flow[f] \in Locals
  BY StorageAssumption DEF Flow, StorageInv, TypeInv
<1>2. "delete" \in Labels
  BY DEF Labels
<1>3. /\ y \in Locals
      /\ y.pc = "delete" /\ y.then = p
  <2>1. p \in Labels \cup {"none"}
    OBVIOUS
  <2>2. y \in Locals
    BY <1>y, <1>1, <1>2, <2>1, Zenon DEF Locals
  <2> QED  BY <1>y, <1>1, <2>2, SMT DEF Locals
<1>4. Go(f, y)
  BY <1>y DEF Delete
<1>5. ActorOK(f, y)
  BY <1>1, <1>3 DEF ActorOK, JobOK, InstallerOK, Removing, Syncing, Storing, Adding
<1>6. folder' \in [File -> 0..Hub] /\ left' \subseteq Installer
  BY DEF StorageInv, TypeInv
<1> QED  BY <1>3, <1>4, <1>5, <1>6, QuietStep

\* What holds of an actor where it is.
LEMMA Here ==
  ASSUME StorageInv, NEW f \in Installer \cup {"job"}
  PROVE  /\ f \in Flow /\ f # "editor" /\ (f = "job" <=> f \notin Installer)
         /\ flow[f] \in Locals
         /\ flow[f].patch \in 0..Hub
         /\ flow[f].pc \in Storing => flow[f].patch # 0
         /\ f = "job" => JobOK(flow[f])
         /\ f \in Installer => InstallerOK(flow[f])
         /\ late \in BOOLEAN /\ (late \/ Once)
         /\ late \/ (One <=> ~None)
         /\ folder \in [File -> 0..Hub] /\ left \subseteq Installer
BY Found, StorageAssumption DEF StorageInv, TypeInv, ActorOK, Flow, Locals, Once

\* A step away from the waiting and the deletion of the job, to no insertion, is quiet.
LEMMA QuietHere ==
  ASSUME StorageInv, NEW f \in Installer \cup {"job"}, NEW p, p \notin Adding,
         f = "job" => flow["job"].pc \notin {"await", "delete"}, UNCHANGED late
  PROVE  Unless(Quiet(f, p))
BY Here DEF Unless, Quiet

LEMMA GotoQuietly ==
  ASSUME StorageInv, NEW f \in Installer \cup {"job"}, NEW p \in Labels, Goto(f, p), MayGo(f, p),
         p \notin {"add", "create"}, f = "job" => flow["job"].pc \notin {"await", "delete"},
         UNCHANGED <<docs, timeouts, deletions, late>>,
         folder' \in [File -> 0..Hub], left' \subseteq Installer
  PROVE  StorageInv'
<1>1. Unless(Quiet(f, p))
  BY QuietHere DEF Adding
<1> QED  BY <1>1, GotoStep

LEMMA DeleteQuietly ==
  ASSUME StorageInv, NEW f \in Installer \cup {"job"}, NEW p \in Labels, Delete(f, p),
         f = "job" => p \in {"wish", "list", "over"},
         f \in Installer => p = "inconsistent",
         f = "job" => flow["job"].pc \notin {"await", "delete"},
         UNCHANGED <<docs, folder, left, timeouts, deletions, late>>
  PROVE  StorageInv'
<1>1. Unless(Quiet(f, "delete"))
  BY QuietHere DEF Adding
<1> QED  BY <1>1, DeleteStep

\* Nobody is at its insertion unless the job waits for it or takes the library back.
LEMMA NobodyAdds ==
  ASSUME Once, flow["job"].pc \notin {"await", "delete"}
  PROVE  \A i \in Installer : flow[i].pc \notin Adding
BY DEF Once, OneAdds, Waiting

(***************************************************************************)
(* The calls of the storage, whoever makes them.                           *)
(***************************************************************************)
LEMMA FindByNameStep ==
  ASSUME StorageInv, NEW f \in Installer \cup {"job"}, FindByNameAndExactVersion(f)
  PROVE  StorageInv'
<1>1. flow[f].pc = "add" /\ UNCHANGED <<docs, folder, left, timeouts, deletions, late>>
  BY DEF FindByNameAndExactVersion, At
<1>2. late \/ None
  BY <1>1, Here DEF Once, OneAdds, Adding
<1>3. PICK p \in {"create", "list", "threw"} : Goto(f, p)
  BY DEF FindByNameAndExactVersion
<1>4. MayGo(f, p)
  BY <1>1, Here DEF MayGo, JobOK, Syncing, Adding, Removing, Storing
<1>5. Unless(Quiet(f, p))
  BY <1>1, <1>2, Here DEF Unless, Quiet, Adding
<1>6. p \in Labels
  BY DEF Labels
<1> QED  BY <1>1, <1>3, <1>4, <1>5, <1>6, Here, GotoStep

LEMMA FindForUpdateStep ==
  ASSUME StorageInv, NEW f \in Installer \cup {"job"}, FindForUpdate(f)
  PROVE  StorageInv'
<1>1. flow[f].pc = "update" /\ UNCHANGED <<docs, folder, left, timeouts, deletions, late>>
  BY DEF FindForUpdate, At
<1>2. CASE ~One
  <2>1. Delete(f, IF f = "job" THEN "list" ELSE "inconsistent")
    BY <1>2 DEF FindForUpdate
  <2>2. "list" \in Labels /\ "inconsistent" \in Labels
    BY DEF Labels
  <2>3. f = "job" => Delete(f, "list")
    BY <2>1
  <2>4. f \in Installer => f # "job" /\ Delete(f, "inconsistent")
    BY <2>1, Here
  <2>5. CASE f = "job"
    BY <1>1, <2>2, <2>3, <2>5, Here, DeleteQuietly
  <2>6. CASE f \in Installer
    BY <1>1, <2>2, <2>4, <2>6, DeleteQuietly
  <2> QED  BY <2>5, <2>6
<1>3. CASE One
  <2>1. PICK d \in Entries : Go(f, [flow[f] EXCEPT !.pc = "save", !.doc = d])
    BY <1>3 DEF FindForUpdate
  <2>y. PICK y : y = [flow[f] EXCEPT !.pc = "save", !.doc = d]
    OBVIOUS
  <2>2. d \in Doc /\ "save" \in Labels
    BY DEF Entries, Labels
  <2>3. y \in Locals /\ y.pc = "save" /\ y.then = flow[f].then /\ y.patch = flow[f].patch
    <3>1. d \in Doc \cup {NoDoc} /\ flow[f] \in Locals
      BY <2>2, Here
    <3>2. y \in Locals
      BY <2>y, <2>2, <3>1, Zenon DEF Locals
    <3> QED  BY <2>y, <3>1, <3>2, SMT DEF Locals
  <2>4. ActorOK(f, y)
    BY <1>1, <2>3, Here DEF ActorOK, JobOK, InstallerOK, Syncing, Removing, Storing, Adding
  <2>5. Unless(Quiet(f, y.pc))
    BY <1>1, <2>3, QuietHere DEF Adding
  <2>6. Go(f, y)
    BY <2>y, <2>1
  <2> QED  BY <1>1, <2>4, <2>5, <2>6, Here, QuietStep
<1> QED  BY <1>2, <1>3

LEMMA ClearFilesStep ==
  ASSUME StorageInv, NEW f \in Installer \cup {"job"}, ClearFiles(f)
  PROVE  StorageInv'
<1>1. /\ flow[f].pc = "clear" /\ UNCHANGED <<docs, folder, left, timeouts, deletions, late>>
      /\ f \in Installer
  BY Here DEF ClearFiles, At, JobOK
<1>2. "inconsistent" \in Labels /\ "clearing" \in Labels
  BY DEF Labels, Emptying
<1>3. CASE Delete(f, "inconsistent")
  BY <1>1, <1>2, <1>3, Here, DeleteQuietly
<1>4. CASE Goto(f, "clearing")
  <2>1. MayGo(f, "clearing")
    BY <1>1, Here DEF MayGo, Adding, Removing, Storing
  <2> QED  BY <1>1, <1>2, <1>4, <2>1, Here, GotoQuietly
<1> QED  BY <1>3, <1>4 DEF ClearFiles

LEMMA DeleteObjectStep ==
  ASSUME StorageInv, NEW f, DeleteObject(f)
  PROVE  StorageInv'
<1>1. folder' \in [File -> 0..Hub]
  <2>1. PICK x \in File : folder' = [folder EXCEPT ![x] = 0]
    BY DEF DeleteObject
  <2> QED  BY <2>1, StorageAssumption DEF StorageInv, TypeInv
<1>2. UNCHANGED <<docs, flow, left, timeouts, deletions, late>>
  BY DEF DeleteObject
<1>3. TypeInv'
  BY <1>1, <1>2 DEF StorageInv, TypeInv
<1>4. Once => Once'
  BY <1>2 DEF Once, Single, OneAdds, EditorReads, None, Entries, Waiting, At
<1> QED  BY <1>2, <1>3, <1>4 DEF StorageInv

LEMMA FolderDeletedStep ==
  ASSUME StorageInv, NEW f \in Installer \cup {"job"}, FolderDeleted(f)
  PROVE  StorageInv'
<1>1. flow[f].pc \in Emptying /\ UNCHANGED <<docs, folder, left, timeouts, deletions, late>>
  BY DEF FolderDeleted
<1>2. CASE flow[f].pc = "clearing"
  <2>1. Goto(f, "copy") /\ f \in Installer
    BY <1>2, Here DEF FolderDeleted, At, JobOK
  <2>2. MayGo(f, "copy")
    BY <2>1, Here DEF MayGo, Adding, Removing, Storing
  <2>3. "copy" \in Labels
    BY DEF Labels
  <2> QED  BY <1>1, <2>1, <2>2, <2>3, Here, GotoQuietly
<1>3. CASE flow[f].pc = "deleting"
  <2>1. Goto(f, "find")
    BY <1>3 DEF FolderDeleted, At
  <2>2. MayGo(f, "find")
    BY <1>3, Here DEF MayGo, Adding, Removing, Storing, Syncing, JobOK, InstallerOK
  <2>3. "find" \in Labels
    BY DEF Labels
  <2> QED  BY <1>1, <1>3, <2>1, <2>2, <2>3, Here, GotoQuietly
<1>4. CASE flow[f].pc = "losing"
  <2>1. Goto(f, "list")
    BY <1>4 DEF FolderDeleted, At
  <2>2. MayGo(f, "list")
    BY <1>4, Here DEF MayGo, Adding, Removing, Storing, Syncing, JobOK
  <2>3. "list" \in Labels
    BY DEF Labels
  <2> QED  BY <1>1, <1>4, <2>1, <2>2, <2>3, Here, GotoQuietly
<1> QED  BY <1>1, <1>2, <1>3, <1>4 DEF Emptying

LEMMA DeletionThrowsStep ==
  ASSUME StorageInv, NEW f \in Installer \cup {"job"}, flow[f].pc \in Removing, DeletionThrows(f),
         UNCHANGED <<docs, folder, timeouts, deletions, late>>
  PROVE  StorageInv'
<1>1. CASE f = "job"
  BY <1>1, EndRunStep DEF DeletionThrows
<1>2. CASE f \in Installer
  <2>1. Goto(f, "threw") /\ left' = left
    BY <1>2, Here DEF DeletionThrows, Stay
  <2>2. MayGo(f, "threw")
    BY <1>2, Here DEF MayGo, Adding, Removing, Storing
  <2>3. "threw" \in Labels
    BY DEF Labels
  <2> QED  BY <1>2, <2>1, <2>2, <2>3, Here, GotoQuietly
<1> QED  BY <1>1, <1>2

LEMMA DeleteLibraryStep ==
  ASSUME StorageInv, NEW f \in Installer \cup {"job"}, DeleteLibrary(f)
  PROVE  StorageInv'
<1>1. flow[f].pc \in {"delete", "delete_files"} /\ UNCHANGED <<docs, folder, timeouts, deletions, late>>
  BY DEF DeleteLibrary
<1>2. CASE None
  BY <1>1, <1>2, DeletionThrowsStep DEF DeleteLibrary, Removing
<1>3. CASE ~None
  <2>1. PICK p \in {"delete_files", "deleting"} : Goto(f, p) /\ left' = left
    BY <1>3 DEF DeleteLibrary, Stay
  <2>2. p \in Labels
    BY DEF Labels, Emptying
  <2>3. Unless(Quiet(f, p))
    <3>1. Once => \A i \in Installer : flow[i].pc \notin Adding
      BY <1>3 DEF Once, OneAdds
    <3> QED  BY <1>1, <3>1, Here DEF Unless, Quiet, Adding
  <2>4. MayGo(f, p)
    BY <1>1, Here DEF MayGo, Adding, Removing, Storing, Syncing, JobOK, InstallerOK
  <2> QED  BY <1>1, <2>1, <2>2, <2>3, <2>4, Here, GotoStep
<1> QED  BY <1>2, <1>3

LEMMA FindForDeleteStep ==
  ASSUME StorageInv, NEW f \in Installer \cup {"job"}, FindForDelete(f)
  PROVE  StorageInv'
<1>1. flow[f].pc = "find" /\ UNCHANGED <<docs, folder, timeouts, deletions, late>>
  BY DEF FindForDelete, At
<1>2. CASE ~One
  BY <1>1, <1>2, DeletionThrowsStep DEF FindForDelete, Removing
<1>3. CASE One
  <2>1. PICK d \in Entries : Go(f, [flow[f] EXCEPT !.pc = "remove", !.doc = d]) /\ left' = left
    BY <1>3 DEF FindForDelete, Stay
  <2>y. PICK y : y = [flow[f] EXCEPT !.pc = "remove", !.doc = d]
    OBVIOUS
  <2>2. d \in Doc /\ "remove" \in Labels
    BY DEF Entries, Labels
  <2>3. y \in Locals /\ y.pc = "remove" /\ y.then = flow[f].then /\ y.patch = flow[f].patch
    <3>1. d \in Doc \cup {NoDoc} /\ flow[f] \in Locals
      BY <2>2, Here
    <3>2. y \in Locals
      BY <2>y, <2>2, <3>1, Zenon DEF Locals
    <3> QED  BY <2>y, <3>1, <3>2, SMT DEF Locals
  <2>4. Go(f, y)
    BY <2>y, <2>1
  <2>5. ActorOK(f, y)
    BY <1>1, <2>3, Here DEF ActorOK, JobOK, InstallerOK, Syncing, Removing, Storing, Adding
  <2>6. Unless(Quiet(f, y.pc))
    BY <1>1, <2>3, QuietHere DEF Adding
  <2> QED  BY <1>1, <2>1, <2>4, <2>5, <2>6, Here, QuietStep
<1> QED  BY <1>2, <1>3

LEMMA CheckConsistencyStep ==
  ASSUME StorageInv, NEW f \in Installer \cup {"job"}, CheckConsistency(f)
  PROVE  StorageInv'
<1>1. flow[f].pc \in Verifying /\ UNCHANGED <<docs, folder, left, timeouts, deletions, late>>
  BY DEF CheckConsistency
<1>2. CASE f \in Installer
  <2>1. f # "job"
    BY <1>2, Here
  <2>a. ~At(f, "check") /\ ~At(f, "verify_update")
    BY <1>2, Here DEF At, InstallerOK
  <2>2. Goto(f, "done") \/ Delete(f, "inconsistent")
    BY <2>1, <2>a DEF CheckConsistency, Inconsistent
  <2>3. "done" \in Labels /\ "inconsistent" \in Labels
    BY DEF Labels
  <2>4. MayGo(f, "done")
    BY <1>2, <2>1 DEF MayGo, Adding, Removing, Storing
  <2>5. CASE Goto(f, "done")
    BY <1>1, <2>1, <2>3, <2>4, <2>5, Here, GotoQuietly
  <2>6. CASE Delete(f, "inconsistent")
    BY <1>1, <1>2, <2>1, <2>3, <2>6, Here, DeleteQuietly
  <2> QED  BY <2>2, <2>5, <2>6
<1>3. CASE f = "job"
  <2>1. "list" \in Labels /\ "over" \in Labels
    BY DEF Labels
  <2>2. \/ Goto(f, "list") /\ flow[f].pc \in {"verify", "verify_update"}
        \/ Goto(f, "over")
        \/ Delete(f, "list")
        \/ Delete(f, "over")
    BY <1>1, <1>3 DEF CheckConsistency, Inconsistent, At, Verifying
  <2>3. flow["job"].pc \notin {"await", "delete"}
    BY <1>1, <1>3 DEF Verifying
  <2>4. CASE Goto(f, "list") /\ flow[f].pc \in {"verify", "verify_update"}
    <3>1. MayGo(f, "list")
      BY <1>3, <2>3, <2>4, Here DEF MayGo, JobOK, Adding, Removing, Storing, Syncing
    <3> QED  BY <1>1, <2>1, <2>4, <3>1, Here, GotoQuietly
  <2>5. CASE Goto(f, "over")
    <3>1. MayGo(f, "over")
      BY <1>3, <2>3, Here DEF MayGo, JobOK, Adding, Removing, Storing, Syncing
    <3> QED  BY <1>1, <1>3, <2>1, <2>3, <2>5, <3>1, Here, GotoQuietly
  <2>6. CASE Delete(f, "list")
    BY <1>1, <1>3, <2>1, <2>3, <2>6, Here, DeleteQuietly
  <2>7. CASE Delete(f, "over")
    BY <1>1, <1>3, <2>1, <2>3, <2>7, Here, DeleteQuietly
  <2> QED  BY <2>2, <2>4, <2>5, <2>6, <2>7
<1> QED  BY <1>2, <1>3

\* The first document, stored by the one actor that may.
LEMMA CreateLibraryStep ==
  ASSUME StorageInv, NEW f \in Installer \cup {"job"}, CreateLibrary(f)
  PROVE  StorageInv'
<1>1. flow[f].pc = "create" /\ UNCHANGED <<folder, left, timeouts, deletions, late>>
  BY DEF CreateLibrary, At
<1>3. PICK d \in Doc : docs' = [docs EXCEPT ![d] = flow[f].patch]
  BY DEF CreateLibrary
<1>4. docs \in [Doc -> 0..Hub] /\ docs' \in [Doc -> 0..Hub]
  BY <1>3, Here DEF StorageInv, TypeInv
<1>6. PICK p \in {"verify", "copy"} : Goto(f, p) /\ (f = "job" => p = "verify")
  BY DEF CreateLibrary
<1> DEFINE y == [flow[f] EXCEPT !.pc = p]
<1>7. /\ y \in Locals
      /\ y.pc = p /\ y.then = flow[f].then /\ y.patch = flow[f].patch
  <2>1. p \in Labels /\ flow[f] \in Locals
    BY Here DEF Labels, Verifying
  <2> QED  BY <2>1, PcSet
<1>8. Go(f, y)
  BY <1>6 DEF Goto
<1> HIDE DEF y
<1>9. ActorOK(f, y)
  BY <1>1, <1>6, <1>7, Here DEF ActorOK, JobOK, InstallerOK, Syncing, Removing, Storing, Adding
<1>10. /\ flow' \in [Flow -> Locals]
       /\ flow'[f] = y
       /\ \A g \in Flow \ {f} : flow'[g] = flow[g]
       /\ \A g \in Flow : ActorOK(g, flow'[g])
  BY <1>8, <1>9, Here, Moves DEF StorageInv
<1>11. TypeInv'
  BY <1>1, <1>4, <1>10 DEF StorageInv, TypeInv
<1>12. /\ "job" \in Flow /\ "editor" \in Flow /\ Installer \subseteq Flow
       /\ "job" \notin Installer /\ f # "editor"
  BY Here, StorageAssumption DEF Flow
<1>q. SUFFICES ASSUME Once PROVE Once'
  BY <1>1, <1>11, Here DEF StorageInv
<1>2. /\ flow[f].pc \in Adding /\ None
      /\ \A i \in Installer : i # f => flow[i].pc \notin Adding
      /\ f \in Installer => flow["job"].pc \notin Adding
  BY <1>1, <1>q, Here DEF Once, OneAdds, Waiting, Adding
<1>5. Single'
  BY <1>2, <1>3, <1>4 DEF Single, None, Entries
<1>13. OneAdds'
  <2>1. \A i \in Installer : flow'[i].pc \notin Adding
    BY <1>2, <1>6, <1>7, <1>10, <1>12 DEF Adding
  <2>2. flow'["job"].pc \notin Adding
    BY <1>2, <1>6, <1>7, <1>10, <1>12 DEF Adding
  <2> QED  BY <2>1, <2>2 DEF OneAdds
<1>14. EditorReads'
  <2>1. flow'["editor"] = flow["editor"]
    BY <1>10, <1>12
  <2> QED  BY <1>1, <1>2, <1>q, <2>1 DEF Once, EditorReads, At
<1> QED  BY <1>5, <1>13, <1>14 DEF Once

\* A document that is saved over stays, one that is gone stays away.
LEMMA SaveStep ==
  ASSUME StorageInv, NEW f \in Installer \cup {"job"}, Save(f)
  PROVE  StorageInv'
<1>1. /\ flow[f].pc = "save" /\ UNCHANGED <<folder, left, timeouts, deletions, late>>
      /\ flow[f].patch # 0 /\ flow[f].patch \in 0..Hub
  BY Here DEF Save, At, Storing
<1>d. PICK e : e = flow[f].doc
  OBVIOUS
<1>2. docs' = [docs EXCEPT ![e] = IF @ = 0 THEN 0 ELSE flow[f].patch]
  BY <1>d DEF Save
<1>3. docs \in [Doc -> 0..Hub]
  BY DEF StorageInv, TypeInv
<1>4. docs' \in [Doc -> 0..Hub] /\ \A d \in Doc : docs'[d] = 0 <=> docs[d] = 0
  BY <1>1, <1>2, <1>3
<1>6. PICK p \in {"verify_update", "clear"} :
        Goto(f, p) /\ (f = "job" => p = "verify_update") /\ (f # "job" => p = "clear")
  BY DEF Save
<1> DEFINE y == [flow[f] EXCEPT !.pc = p]
<1>7. /\ y \in Locals
      /\ y.pc = p /\ y.then = flow[f].then /\ y.patch = flow[f].patch
  <2>1. p \in Labels /\ flow[f] \in Locals
    BY Here DEF Labels, Verifying
  <2> QED  BY <2>1, PcSet
<1>8. Go(f, y)
  BY <1>6 DEF Goto
<1> HIDE DEF y
<1>9. ActorOK(f, y)
  BY <1>1, <1>6, <1>7, Here DEF ActorOK, JobOK, InstallerOK, Syncing, Removing, Storing, Adding
<1>10. /\ flow' \in [Flow -> Locals]
       /\ flow'[f] = y
       /\ \A g \in Flow \ {f} : flow'[g] = flow[g]
       /\ \A g \in Flow : ActorOK(g, flow'[g])
  BY <1>8, <1>9, Here, Moves DEF StorageInv
<1>11. TypeInv'
  BY <1>1, <1>4, <1>10 DEF StorageInv, TypeInv
<1>12. /\ "job" \in Flow /\ "editor" \in Flow /\ Installer \subseteq Flow
       /\ "job" \notin Installer /\ f # "editor"
  BY Here, StorageAssumption DEF Flow
<1>q. SUFFICES ASSUME Once PROVE Once'
  BY <1>1, <1>11, Here DEF StorageInv
<1>5. Single' /\ (None' <=> None)
  BY <1>4, <1>q DEF Once, Single, None, Entries
<1>13. OneAdds'
  <2>1. \A i \in Installer : flow'[i].pc \in Adding => flow[i].pc \in Adding
    BY <1>6, <1>7, <1>10, <1>12 DEF Adding
  <2>2. CASE f = "job"
    <3>1. \A i \in Installer : flow[i].pc \notin Adding
      BY <1>1, <1>q, <2>2, NobodyAdds
    <3>2. flow'["job"].pc \notin Adding
      BY <1>6, <1>7, <1>10, <2>2 DEF Adding
    <3> QED  BY <2>1, <3>1, <3>2 DEF OneAdds
  <2>3. CASE f # "job"
    <3>1. flow'["job"] = flow["job"]
      BY <1>10, <1>12, <2>3
    <3> QED  BY <1>5, <1>q, <2>1, <3>1 DEF Once, OneAdds, Waiting
  <2> QED  BY <2>2, <2>3
<1>14. EditorReads'
  <2>1. flow'["editor"] = flow["editor"]
    BY <1>10, <1>12
  <2> QED  BY <1>1, <1>5, <1>q, <2>1 DEF Once, EditorReads, At
<1> QED  BY <1>5, <1>13, <1>14 DEF Once

LEMMA DeleteEntryStep ==
  ASSUME StorageInv, NEW f \in Installer \cup {"job"}, DeleteEntry(f)
  PROVE  StorageInv'
<1>1. flow[f].pc = "remove" /\ deletions' = TRUE /\ UNCHANGED <<folder, left, timeouts, late>>
  BY DEF DeleteEntry, At
<1>d. PICK e : e = flow[f].doc
  OBVIOUS
<1>2. docs' = [docs EXCEPT ![e] = 0]
  BY <1>d DEF DeleteEntry
<1>3. docs \in [Doc -> 0..Hub]
  BY DEF StorageInv, TypeInv
<1>4. docs' \in [Doc -> 0..Hub] /\ \A d \in Doc : docs[d] = 0 => docs'[d] = 0
  <2>1. 0 \in 0..Hub
    BY StorageAssumption
  <2> QED  BY <1>2, <1>3, <2>1
<1>p. PICK p : p = flow[f].then
  OBVIOUS
<1>y. PICK y : y = [flow[f] EXCEPT !.pc = p, !.then = "check"]
  OBVIOUS
<1>6. /\ f = "job" => p \in {"wish", "list", "over"}
      /\ f \in Installer => p = "inconsistent"
  BY <1>1, <1>p, Here DEF JobOK, InstallerOK, Removing
<1>7. p \in Labels /\ "check" \in Labels \cup {"none"}
  BY <1>6, Here DEF Labels, Verifying
<1>8. y \in Locals /\ y.pc = p /\ y.then = "check"
  <2>1. flow[f] \in Locals
    BY Here
  <2>2. y \in Locals
    BY <1>y, <1>7, <2>1, Zenon DEF Locals
  <2> QED  BY <1>y, <2>1, <2>2, SMT DEF Locals
<1>9. Go(f, y)
  BY <1>p, <1>y DEF DeleteEntry
<1>10. ActorOK(f, y)
  BY <1>6, <1>8, Here DEF ActorOK, JobOK, InstallerOK, Syncing, Removing, Storing, Adding
<1>11. /\ flow' \in [Flow -> Locals]
       /\ flow'[f] = y
       /\ \A g \in Flow \ {f} : flow'[g] = flow[g]
       /\ \A g \in Flow : ActorOK(g, flow'[g])
  BY <1>9, <1>10, Here, Moves DEF StorageInv
<1>12. TypeInv'
  BY <1>1, <1>4, <1>11 DEF StorageInv, TypeInv
<1>13. /\ "job" \in Flow /\ "editor" \in Flow /\ Installer \subseteq Flow
       /\ "job" \notin Installer /\ f # "editor"
  BY Here, StorageAssumption DEF Flow
<1>q. SUFFICES ASSUME Once PROVE Once'
  BY <1>1, <1>12, Here DEF StorageInv
<1>5. Single' /\ (None => None')
  BY <1>3, <1>4, <1>q DEF Once, Single, None, Entries
<1>14. OneAdds'
  <2>1. \A i \in Installer : flow'[i].pc \in Adding => flow[i].pc \in Adding
    BY <1>6, <1>8, <1>11, <1>13 DEF Adding
  <2>2. CASE f = "job"
    <3>1. \A i \in Installer : flow[i].pc \notin Adding
      BY <1>1, <1>q, <2>2, NobodyAdds
    <3>2. flow'["job"].pc \notin Adding
      BY <1>6, <1>8, <1>11, <2>2 DEF Adding
    <3> QED  BY <2>1, <3>1, <3>2 DEF OneAdds
  <2>3. CASE f # "job"
    <3>1. flow'["job"] = flow["job"]
      BY <1>11, <1>13, <2>3
    <3> QED  BY <1>5, <1>q, <2>1, <3>1 DEF Once, OneAdds, Waiting
  <2> QED  BY <2>2, <2>3
<1>15. EditorReads'
  BY <1>1 DEF EditorReads
<1> QED  BY <1>5, <1>14, <1>15 DEF Once

LEMMA StorageCallStep ==
  ASSUME StorageInv, NEW f \in Installer \cup {"job"}, StorageCall(f)
  PROVE  StorageInv'
BY FindByNameStep, CreateLibraryStep, FindForUpdateStep, SaveStep, ClearFilesStep, DeleteObjectStep,
   FolderDeletedStep, DeleteLibraryStep, FindForDeleteStep, DeleteEntryStep, CheckConsistencyStep
   DEF StorageCall

(***************************************************************************)
(* Installers.                                                             *)
(***************************************************************************)
LEMMA InstallerSteps ==
  ASSUME StorageInv, NEW i \in Installer, InstallerStep(i)
  PROVE  StorageInv'
<1> i \in Installer \cup {"job"}
  OBVIOUS
<1>1. i # "job"
  BY Here
<1>2. CASE IsInstalled(i)
  <2>1. flow[i].pc = "start" /\ UNCHANGED <<docs, folder, left, timeouts, deletions>>
    BY <1>2 DEF IsInstalled, At
  <2>2. PICK p \in {"add", "update", "done", "threw"} : Goto(i, p) /\ (p = "add" => None)
    <3>1. One => ~None /\ Newest \in Nat /\ Hub \in Nat
      BY FoundOne, StorageAssumption DEF StorageInv, TypeInv
    <3>2. CASE None
      BY <1>2, <3>2 DEF IsInstalled
    <3>3. CASE One /\ Newest < Hub
      BY <1>2, <3>1, <3>3 DEF IsInstalled
    <3>4. CASE One /\ Newest >= Hub
      BY <1>2, <3>1, <3>4 DEF IsInstalled
    <3>5. CASE ~None /\ ~One
      BY <1>2, <3>5 DEF IsInstalled
    <3> QED  BY <3>1, <3>2, <3>3, <3>4, <3>5
  <2>3. p \in Labels
    BY DEF Labels
  <2>4. MayGo(i, p)
    BY <1>1, <2>1, <2>2, Here DEF MayGo, Removing, Storing, Adding
  <2>5. Unless(Quiet(i, p))
    <3>1. late' = (late \/ (None /\ ~AwaitedFor(i)))
      BY <1>2 DEF IsInstalled
    <3>2. AwaitedFor(i) => Waiting(i, {"await"})
      BY DEF AwaitedFor, Waiting, At
    <3> QED  BY <1>1, <2>2, <3>1, <3>2, Here DEF Unless, Quiet, Adding
  <2> QED  BY <2>1, <2>2, <2>3, <2>4, <2>5, Here, GotoStep
<1>3. CASE AddFile(i)
  <2>1. Goto(i, "verify") /\ UNCHANGED <<docs, left, timeouts, deletions, late>>
    BY <1>3 DEF AddFile
  <2>2. "verify" \in Labels
    BY DEF Labels, Verifying
  <2>3. MayGo(i, "verify")
    BY <1>1 DEF MayGo, Removing, Storing, Adding
  <2>4. folder' \in [File -> 0..Hub]
    <3>1. Hub \in 0..Hub
      BY StorageAssumption
    <3> QED  BY <1>3, <3>1, Here DEF AddFile
  <2> QED  BY <1>1, <2>1, <2>2, <2>3, <2>4, Here, GotoQuietly
<1>4. CASE StorageCall(i)
  BY <1>4, StorageCallStep
<1> QED  BY <1>2, <1>3, <1>4 DEF InstallerStep

(***************************************************************************)
(* Lists.                                                                  *)
(***************************************************************************)
\* What the names of a list leave to be read.
LEMMA NamesRead ==
  ASSUME StorageInv, NEW f \in {"job", "editor"}, GetInstalledLibraryNames(f),
         NEW y, y = flow'[f]
  PROVE  /\ flow[f].pc = "list" /\ UNCHANGED <<docs, folder, left, timeouts, deletions, late>>
         /\ f \in Flow /\ y \in Locals /\ Go(f, y)
         /\ y.pc = "read" /\ y.patch = flow[f].patch /\ (y.names > 0 => ~None)
         /\ \/ y.then = flow[f].then
            \/ y.then = "over" /\ flow[f].then = "check"
<1>1. flow[f].pc = "list" /\ UNCHANGED <<docs, folder, left, timeouts, deletions, late>>
  BY DEF GetInstalledLibraryNames, At
<1>2. f \in Flow /\ flow[f] \in Locals /\ flow \in [Flow -> Locals]
  BY DEF Flow, StorageInv, TypeInv
<1>3. PICK n \in 0..Cardinality(Doc) : n = Cardinality(Entries) /\ (n > 0 => ~None)
  BY SomeOrNone
<1>4. PICK q : q = IF flow[f].then = "check" /\ None THEN "over" ELSE flow[f].then
  OBVIOUS
<1>5. q \in Labels \cup {"none"}
  BY <1>2, <1>4 DEF Locals, Labels
<1>6. Go(f, [flow[f] EXCEPT !.pc = "read", !.names = n, !.then = q])
  BY <1>3, <1>4 DEF GetInstalledLibraryNames
<1>7. y = [flow[f] EXCEPT !.pc = "read", !.names = n, !.then = q]
  BY <1>2, <1>6 DEF Go
<1>8. y \in Locals
  <2>1. "read" \in Labels
    BY DEF Labels
  <2> QED  BY <1>2, <1>5, <1>7, <2>1, Zenon DEF Locals
<1>9. y.pc = "read" /\ y.patch = flow[f].patch /\ y.names = n /\ y.then = q
  BY <1>2, <1>7, <1>8, SMT DEF Locals
<1>10. Go(f, y)
  BY <1>6, <1>7
<1> QED  BY <1>1, <1>2, <1>3, <1>4, <1>8, <1>9, <1>10

\* What is left when a listed library has been read.
LEMMA OneRead ==
  ASSUME StorageInv, NEW f \in {"job", "editor"}, ReadListed(f), One,
         NEW y, y = flow'[f]
  PROVE  /\ flow[f].pc = "read" /\ UNCHANGED <<docs, folder, left, timeouts, deletions, late>>
         /\ f \in Flow /\ y \in Locals /\ Go(f, y)
         /\ y.pc = "read" /\ y.patch = flow[f].patch /\ y.then = flow[f].then
<1>1. /\ flow[f].pc = "read" /\ flow[f].names > 0
      /\ UNCHANGED <<docs, folder, left, timeouts, deletions, late>>
  BY DEF ReadListed, At, Stay
<1>2. f \in Flow /\ flow[f] \in Locals /\ flow \in [Flow -> Locals]
  BY DEF Flow, StorageInv, TypeInv
<1>3. PICK n \in 0..Cardinality(Doc) : n = flow[f].names - 1
  <2>1. flow[f].names \in 0..Cardinality(Doc)
    BY <1>2 DEF Locals
  <2> QED  BY <1>1, <2>1, SomeOrNone
<1>4. Go(f, [flow[f] EXCEPT !.names = n])
  BY <1>3 DEF ReadListed
<1>5. y = [flow[f] EXCEPT !.names = n]
  BY <1>2, <1>4 DEF Go
<1>6. y \in Locals
  BY <1>2, <1>3, <1>5, Zenon DEF Locals
<1>7. y.pc = "read" /\ y.patch = flow[f].patch /\ y.then = flow[f].then
  BY <1>1, <1>2, <1>5, <1>6, SMT DEF Locals
<1>8. Go(f, y)
  BY <1>4, <1>5
<1> QED  BY <1>1, <1>2, <1>6, <1>7, <1>8

LEMMA JobListing ==
  ASSUME StorageInv, Listing("job")
  PROVE  StorageInv'
<1> "job" \in Installer \cup {"job"}
  OBVIOUS
<1>y. PICK y : y = flow'["job"]
  OBVIOUS
<1>1. CASE GetInstalledLibraryNames("job")
  <2>1. /\ flow["job"].pc = "list" /\ UNCHANGED <<docs, folder, left, timeouts, deletions, late>>
        /\ y \in Locals /\ Go("job", y)
        /\ y.pc = "read"
        /\ \/ y.then = flow["job"].then
           \/ y.then = "over"
    BY <1>y, <1>1, NamesRead
  <2>2. ActorOK("job", y)
    BY <2>1, Here DEF ActorOK, JobOK, Syncing, Removing, Storing, Adding
  <2>3. Unless(Quiet("job", y.pc))
    BY <2>1, QuietHere DEF Adding
  <2> QED  BY <2>1, <2>2, <2>3, Here, QuietStep
<1>2. CASE ReadListed("job")
  <2>1. CASE One
    <3>1. /\ flow["job"].pc = "read" /\ UNCHANGED <<docs, folder, left, timeouts, deletions, late>>
          /\ y \in Locals /\ Go("job", y)
          /\ y.pc = "read" /\ y.then = flow["job"].then
      BY <1>y, <1>2, <2>1, OneRead
    <3>2. ActorOK("job", y)
      BY <3>1, Here DEF ActorOK, JobOK, Syncing, Removing, Storing, Adding
    <3>3. Unless(Quiet("job", y.pc))
      BY <3>1, QuietHere DEF Adding
    <3> QED  BY <3>1, <3>2, <3>3, Here, QuietStep
  <2>2. CASE ~One
    <3>1. EndRun /\ UNCHANGED <<docs, folder, timeouts, deletions, late>>
      BY <1>2, <2>2 DEF ReadListed, ListingFails
    <3> QED  BY <3>1, EndRunStep
  <2> QED  BY <2>1, <2>2
<1>3. CASE Listed("job")
  <2>1. PICK p : p = flow["job"].then
    OBVIOUS
  <2>2. /\ flow["job"].pc = "read" /\ UNCHANGED <<docs, folder, left, timeouts, deletions, late>>
        /\ Goto("job", p)
    BY <1>3, <2>1 DEF Listed, At
  <2>3. p \in {"wish", "check", "over"}
    BY <2>1, <2>2, Here DEF JobOK, Syncing
  <2>4. p \in Labels
    BY <2>3 DEF Labels, Verifying
  <2>5. MayGo("job", p)
    BY <2>2, <2>3, Here DEF MayGo, Syncing, Removing, Storing, Adding
  <2> QED  BY <2>2, <2>3, <2>4, <2>5, Here, GotoQuietly
<1> QED  BY <1>1, <1>2, <1>3 DEF Listing

\* The editor moves and changes nothing but what it knows of deletions.
LEMMA EditorStep ==
  ASSUME StorageInv, NEW y, ActorOK("editor", y), Go("editor", y),
         UNCHANGED <<docs, folder, left, timeouts, late>>, deletions' \in BOOLEAN,
         y.pc = "failed" => deletions' \/ late,
         y.pc = "read" /\ y.names > 0 => deletions' \/ ~None
  PROVE  StorageInv'
<1>1. /\ "job" \in Flow /\ "editor" \in Flow /\ Installer \subseteq Flow
      /\ "job" # "editor" /\ "editor" \notin Installer
  BY StorageAssumption DEF Flow
<1>2. /\ flow' \in [Flow -> Locals]
      /\ flow'["editor"] = y
      /\ \A g \in Flow \ {"editor"} : flow'[g] = flow[g]
      /\ \A g \in Flow : ActorOK(g, flow'[g])
  BY <1>1, Moves DEF StorageInv
<1>3. TypeInv'
  BY <1>2 DEF StorageInv, TypeInv
<1>q. SUFFICES ASSUME Once, ~late PROVE Once'
  BY <1>3 DEF StorageInv, TypeInv
<1>4. Single' /\ (None' <=> None)
  BY <1>q DEF Once, Single, None, Entries
<1>5. OneAdds'
  <2>1. flow'["job"] = flow["job"] /\ \A i \in Installer : flow'[i] = flow[i]
    BY <1>1, <1>2
  <2> QED  BY <1>4, <1>q, <2>1 DEF Once, OneAdds, Waiting
<1>6. EditorReads'
  BY <1>2, <1>4, <1>q DEF EditorReads, At
<1> QED  BY <1>4, <1>5, <1>6 DEF Once

LEMMA EditorListing ==
  ASSUME StorageInv, Listing("editor") \/ ListAddons
  PROVE  StorageInv'
<1>1. /\ "editor" \in Flow /\ "editor" # "job" /\ "editor" \notin Installer
      /\ flow \in [Flow -> Locals] /\ flow["editor"] \in Locals /\ EditorOK(flow["editor"])
      /\ deletions \in BOOLEAN
  BY StorageAssumption DEF Flow, StorageInv, TypeInv, ActorOK
<1>y. PICK y : y = flow'["editor"]
  OBVIOUS
<1>2. CASE GetInstalledLibraryNames("editor")
  <2>1. /\ flow["editor"].pc = "list" /\ UNCHANGED <<docs, folder, left, timeouts, deletions, late>>
        /\ y \in Locals /\ Go("editor", y)
        /\ y.pc = "read" /\ (y.names > 0 => ~None)
        /\ \/ y.then = flow["editor"].then
           \/ y.then = "over" /\ flow["editor"].then = "check"
    BY <1>y, <1>2, NamesRead
  <2>2. ActorOK("editor", y)
    BY <1>1, <2>1 DEF ActorOK, EditorOK, Storing, Adding
  <2> QED  BY <1>1, <2>1, <2>2, EditorStep
<1>3. CASE ReadListed("editor")
  <2>1. CASE One
    <3>1. /\ flow["editor"].pc = "read" /\ UNCHANGED <<docs, folder, left, timeouts, deletions, late>>
          /\ y \in Locals /\ Go("editor", y)
          /\ y.pc = "read" /\ y.then = flow["editor"].then
      BY <1>y, <1>3, <2>1, OneRead
    <3>n. ~None
      BY <2>1, SomeOrNone DEF One
    <3>2. ActorOK("editor", y)
      BY <1>1, <3>1 DEF ActorOK, EditorOK, Storing, Adding
    <3> QED  BY <1>1, <3>1, <3>2, <3>n, EditorStep
  <2>2. CASE ~One
    <3>1. /\ flow["editor"].pc = "read" /\ flow["editor"].names > 0
          /\ Goto("editor", "failed") /\ UNCHANGED <<docs, folder, left, timeouts, deletions, late>>
      BY <1>1, <1>3, <2>2 DEF ReadListed, ListingFails, At, Stay
    <3>2. deletions \/ late
      <4>1. ASSUME Once PROVE deletions
        <5>1. None
          BY <2>2, <4>1, Found DEF Once
        <5> QED  BY <3>1, <4>1, <5>1 DEF Once, EditorReads, At
      <4> QED  BY <4>1 DEF StorageInv
    <3>3. "failed" \in Labels
      BY DEF Labels
    <3>4. PICK z : z = [flow["editor"] EXCEPT !.pc = "failed"]
      OBVIOUS
    <3>5. z \in Locals /\ z.pc = "failed"
      BY <1>1, <3>3, <3>4, PcSet
    <3>6. Go("editor", z)
      BY <3>1, <3>4 DEF Goto
    <3>7. ActorOK("editor", z)
      BY <1>1, <3>5 DEF ActorOK, EditorOK, Storing, Adding
    <3> QED  BY <1>1, <3>1, <3>2, <3>5, <3>6, <3>7, EditorStep
  <2> QED  BY <2>1, <2>2
<1>4. CASE Listed("editor")
  <2>1. /\ flow["editor"].pc = "read" /\ UNCHANGED <<docs, folder, left, timeouts, deletions, late>>
        /\ Goto("editor", "idle")
    BY <1>1, <1>4 DEF Listed, At, EditorOK
  <2>2. "idle" \in Labels
    BY DEF Labels
  <2>3. PICK z : z = [flow["editor"] EXCEPT !.pc = "idle"]
    OBVIOUS
  <2>4. z \in Locals /\ z.pc = "idle"
    BY <1>1, <2>2, <2>3, PcSet
  <2>5. Go("editor", z)
    BY <2>1, <2>3 DEF Goto
  <2>6. ActorOK("editor", z)
    BY <1>1, <2>4 DEF ActorOK, EditorOK, Storing, Adding
  <2> QED  BY <1>1, <2>1, <2>4, <2>5, <2>6, EditorStep
<1>5. CASE ListAddons
  <2>1. /\ Go("editor", [Idle EXCEPT !.pc = "list", !.then = "idle"])
        /\ deletions' = FALSE /\ UNCHANGED <<docs, folder, left, timeouts, late>>
    BY <1>5 DEF ListAddons
  <2>2. PICK z : z = [Idle EXCEPT !.pc = "list", !.then = "idle"]
    OBVIOUS
  <2>3. "list" \in Labels /\ "idle" \in Labels \cup {"none"}
    BY DEF Labels
  <2>4. z \in Locals /\ z.pc = "list" /\ z.then = "idle"
    <3>1. Idle \in Locals
      BY IdleOK
    <3>2. z \in Locals
      BY <2>2, <2>3, <3>1, Zenon DEF Locals
    <3> QED  BY <2>2, <3>1, <3>2, SMT DEF Locals
  <2>5. Go("editor", z)
    BY <2>1, <2>2
  <2>6. ActorOK("editor", z)
    BY <1>1, <2>4 DEF ActorOK, EditorOK, Storing, Adding
  <2> QED  BY <2>1, <2>4, <2>5, <2>6, EditorStep
<1> QED  BY <1>2, <1>3, <1>4, <1>5 DEF Listing

(***************************************************************************)
(* The run.                                                                *)
(***************************************************************************)
\* A step of the run that only says where the job goes.
LEMMA JobGoto ==
  ASSUME StorageInv, NEW p \in Labels, Goto("job", p),
         p \notin {"start", "clear", "clearing", "copy", "create"},
         p \in Syncing => flow["job"].then \in {"wish", "check", "over"},
         p \notin Removing,
         p \in Storing => flow["job"].patch # 0,
         p \in Adding => None,
         flow["job"].pc \in {"await", "delete"} => late \/ \A i \in Installer : flow[i].pc \notin Adding,
         UNCHANGED <<docs, left, timeouts, deletions, late>>, folder' \in [File -> 0..Hub]
  PROVE  StorageInv'
<1>1. MayGo("job", p)
  BY Here DEF MayGo
<1>2. Unless(Quiet("job", p))
  BY Here DEF Unless, Quiet
<1> QED  BY <1>1, <1>2, Here, GotoStep

LEMMA StartRunStep ==
  ASSUME StorageInv, StartRun
  PROVE  StorageInv'
<1>1. /\ flow["job"].pc = "idle"
      /\ Go("job", [Idle EXCEPT !.pc = "list", !.then = "wish"])
      /\ left' = Installer /\ UNCHANGED <<docs, folder, timeouts, deletions, late>>
  BY DEF StartRun, At
<1>2. PICK y : y = [Idle EXCEPT !.pc = "list", !.then = "wish"]
  OBVIOUS
<1>3. "list" \in Labels /\ "wish" \in Labels \cup {"none"}
  BY DEF Labels
<1>4. y \in Locals /\ y.pc = "list" /\ y.then = "wish"
  <2>1. Idle \in Locals
    BY IdleOK
  <2>2. y \in Locals
    BY <1>2, <1>3, <2>1, Zenon DEF Locals
  <2> QED  BY <1>2, <2>1, <2>2, SMT DEF Locals
<1>5. Go("job", y)
  BY <1>1, <1>2
<1>6. ActorOK("job", y)
  BY <1>4, Here DEF ActorOK, JobOK, Syncing, Removing, Storing, Adding
<1>7. Unless(Quiet("job", y.pc))
  BY <1>1, <1>4, QuietHere DEF Adding
<1> QED  BY <1>1, <1>5, <1>6, <1>7, Here, QuietStep

\* One installer starts while no other may add, and the job waits for it.
LEMMA InstallLibraryStep ==
  ASSUME StorageInv, InstallLibrary
  PROVE  StorageInv'
<1>1. flow["job"].pc = "wish" /\ UNCHANGED <<docs, folder, timeouts, deletions, late>>
  BY DEF InstallLibrary, At
<1>2. PICK i \in left :
        /\ left' = left \ {i}
        /\ flow' = [flow EXCEPT !["job"] = [@ EXCEPT !.pc = "await", !.who = i],
                                ![i] = [Idle EXCEPT !.pc = "start", !.patch = Hub]]
  BY DEF InstallLibrary
<1>3. PICK x : x = [flow["job"] EXCEPT !.pc = "await", !.who = i]
  OBVIOUS
<1>4. PICK y : y = [Idle EXCEPT !.pc = "start", !.patch = Hub]
  OBVIOUS
<1>5. /\ i \in Installer /\ i # "job" /\ i # "editor" /\ i \in Flow
      /\ "job" \in Flow /\ "editor" \in Flow /\ "job" # "editor" /\ Installer \subseteq Flow
      /\ flow \in [Flow -> Locals] /\ flow["job"] \in Locals
      /\ \A f \in Flow : ActorOK(f, flow[f])
  BY StorageAssumption DEF Flow, StorageInv, TypeInv
<1>6. x \in Locals /\ x.pc = "await" /\ x.who = i
  <2>1. "await" \in Labels /\ i \in Installer \cup {"none"}
    BY <1>5 DEF Labels
  <2>2. x \in Locals
    BY <1>3, <1>5, <2>1, Zenon DEF Locals
  <2> QED  BY <1>3, <1>5, <2>2, SMT DEF Locals
<1>7. y \in Locals /\ y.pc = "start" /\ y.patch = Hub
  <2>1. "start" \in Labels /\ Hub \in 0..Hub
    BY StorageAssumption DEF Labels
  <2>2. Idle \in Locals
    BY IdleOK
  <2>3. y \in Locals
    BY <1>4, <2>1, <2>2, Zenon DEF Locals
  <2> QED  BY <1>4, <2>2, <2>3, SMT DEF Locals
<1>8. flow' = [flow EXCEPT !["job"] = x, ![i] = y]
  BY <1>2, <1>3, <1>4
<1>9. /\ flow' \in [Flow -> Locals]
      /\ flow'["job"] = x /\ flow'[i] = y
      /\ \A f \in Flow \ {"job", i} : flow'[f] = flow[f]
  BY <1>5, <1>6, <1>7, <1>8
<1>10. \A f \in Flow : ActorOK(f, flow'[f])
  <2>1. ActorOK("job", x)
    BY <1>5, <1>6, Here DEF ActorOK, JobOK, Syncing, Removing, Storing, Adding
  <2>2. ActorOK(i, y)
    BY <1>5, <1>7, StorageAssumption DEF ActorOK, InstallerOK, Removing
  <2> QED  BY <1>5, <1>9, <2>1, <2>2
<1>11. TypeInv'
  BY <1>1, <1>2, <1>9, <1>10 DEF StorageInv, TypeInv
<1>q. SUFFICES ASSUME Once PROVE Once'
  BY <1>1, <1>11, Here DEF StorageInv
<1>12. Single' /\ (None' <=> None)
  BY <1>1, <1>q DEF Once, Single, None, Entries
<1>13. OneAdds'
  <2>1. \A j \in Installer : flow[j].pc \notin Adding
    BY <1>1, <1>q, NobodyAdds
  <2>2. \A j \in Installer \ {i} : flow'[j].pc \notin Adding
    <3>1. "job" \notin Installer
      BY StorageAssumption
    <3> QED  BY <1>5, <1>9, <2>1, <3>1
  <2> QED  BY <1>6, <1>7, <1>9, <2>2 DEF OneAdds, Waiting, Adding
<1>14. EditorReads'
  BY <1>1, <1>5, <1>9, <1>12, <1>q DEF Once, EditorReads, At
<1> QED  BY <1>12, <1>13, <1>14 DEF Once

LEMMA InstalledStep ==
  ASSUME StorageInv, Installed
  PROVE  StorageInv'
<1>1. flow["job"].pc = "await" /\ UNCHANGED <<docs, folder, left, timeouts, deletions, late>>
  BY DEF Installed, At
<1>2. /\ flow[flow["job"].who].pc \in {"done", "threw", "inconsistent"}
      /\ Goto("job", "wish") \/ Delete("job", "wish")
  BY DEF Installed, At
<1>3. late \/ \A i \in Installer : flow[i].pc \notin Adding
  BY <1>1, <1>2, Here DEF Once, OneAdds, Waiting, Adding
<1>4. "wish" \in Labels
  BY DEF Labels
<1>5. CASE Goto("job", "wish")
  BY <1>1, <1>3, <1>4, <1>5, Here, JobGoto DEF Syncing, Removing, Storing, Adding
<1>6. CASE Delete("job", "wish")
  <2>1. Unless(Quiet("job", "delete"))
    BY <1>1, <1>3, Here DEF Unless, Quiet, Adding
  <2> QED  BY <1>1, <1>4, <1>6, <2>1, Here, DeleteStep
<1> QED  BY <1>2, <1>5, <1>6

\* The job takes the library back.  An installer at its insertion has found no document, so
\* that the deletion throws if it comes first.
LEMMA TimesOutStep ==
  ASSUME StorageInv, TimesOut
  PROVE  StorageInv'
<1>1. /\ flow["job"].pc = "await"
      /\ Delete("job", "wish") /\ timeouts' \in 0..MaxTimeouts
      /\ UNCHANGED <<docs, folder, left, deletions, late>>
  BY StorageAssumption DEF TimesOut, At, StorageInv, TypeInv
<1>y. PICK y : y = [flow["job"] EXCEPT !.pc = "delete", !.then = "wish"]
  OBVIOUS
<1>2. /\ "job" \in Flow /\ "editor" \in Flow /\ Installer \subseteq Flow
      /\ "job" # "editor" /\ "job" \notin Installer
      /\ flow["job"] \in Locals
  BY StorageAssumption DEF Flow, StorageInv, TypeInv
<1>3. y \in Locals /\ y.pc = "delete" /\ y.then = "wish" /\ y.who = flow["job"].who
  <2>1. "delete" \in Labels /\ "wish" \in Labels \cup {"none"}
    BY DEF Labels
  <2>2. y \in Locals
    BY <1>y, <1>2, <2>1, Zenon DEF Locals
  <2> QED  BY <1>y, <1>2, <2>2, SMT DEF Locals
<1>4. Go("job", y)
  BY <1>1, <1>y DEF Delete
<1>5. ActorOK("job", y)
  BY <1>2, <1>3 DEF ActorOK, JobOK, Syncing, Removing, Storing, Adding
<1>6. /\ flow' \in [Flow -> Locals]
      /\ flow'["job"] = y
      /\ \A g \in Flow \ {"job"} : flow'[g] = flow[g]
      /\ \A g \in Flow : ActorOK(g, flow'[g])
  BY <1>2, <1>4, <1>5, Moves DEF StorageInv
<1>7. TypeInv'
  BY <1>1, <1>6 DEF StorageInv, TypeInv
<1>q. SUFFICES ASSUME Once PROVE Once'
  BY <1>1, <1>7, Here DEF StorageInv
<1>8. Single' /\ (None' <=> None)
  BY <1>1, <1>q DEF Once, Single, None, Entries
<1>9. OneAdds'
  <2>2. \A i \in Installer : flow'[i] = flow[i]
    BY <1>2, <1>6
  <2> QED  BY <1>3, <1>6, <1>8, <1>q, <2>2 DEF Once, OneAdds, Waiting, Adding
<1>10. EditorReads'
  BY <1>1, <1>2, <1>6, <1>8, <1>q DEF Once, EditorReads, At
<1> QED  BY <1>8, <1>9, <1>10 DEF Once

LEMMA AllWishedStep ==
  ASSUME StorageInv, AllWished
  PROVE  StorageInv'
<1>1. flow["job"].pc = "wish" /\ UNCHANGED <<docs, folder, left, timeouts, deletions, late>>
  BY DEF AllWished, At
<1>2. PICK p \in {"head", "list"} : Go("job", [flow["job"] EXCEPT !.pc = p, !.then = "check"])
  BY DEF AllWished
<1>y. PICK y : y = [flow["job"] EXCEPT !.pc = p, !.then = "check"]
  OBVIOUS
<1>3. y \in Locals /\ y.pc = p /\ y.then = "check"
  <2>1. p \in Labels /\ "check" \in Labels \cup {"none"}
    BY DEF Labels, Verifying
  <2>2. flow["job"] \in Locals
    BY Here
  <2>3. y \in Locals
    BY <1>y, <2>1, <2>2, Zenon DEF Locals
  <2> QED  BY <1>y, <2>2, <2>3, SMT DEF Locals
<1>4. Go("job", y)
  BY <1>2, <1>y
<1>5. ActorOK("job", y)
  BY <1>3, Here DEF ActorOK, JobOK, Syncing, Removing, Storing, Adding
<1>6. Unless(Quiet("job", y.pc))
  BY <1>1, <1>3, QuietHere DEF Adding
<1> QED  BY <1>1, <1>4, <1>5, <1>6, Here, QuietStep

LEMMA ReadLibraryJsonStep ==
  ASSUME StorageInv, ReadLibraryJson
  PROVE  StorageInv'
<1>1. flow["job"].pc = "json" /\ UNCHANGED <<docs, folder, timeouts, deletions, late>>
  BY DEF ReadLibraryJson, At
<1>2. CASE EndRun
  BY <1>1, <1>2, EndRunStep
<1>3. CASE ~EndRun
  <2>1. PICK n : n = folder["library.json"]
    OBVIOUS
  <2>2. /\ n # 0 /\ Stay
        /\ Go("job", [flow["job"] EXCEPT !.pc = "synchronize", !.patch = n])
    BY <1>3, <2>1 DEF ReadLibraryJson
  <2>3. n \in 0..Hub
    BY <2>1, Here DEF File
  <2>y. PICK y : y = [flow["job"] EXCEPT !.pc = "synchronize", !.patch = n]
    OBVIOUS
  <2>4. y \in Locals /\ y.pc = "synchronize" /\ y.patch = n /\ y.then = flow["job"].then
    <3>1. "synchronize" \in Labels /\ flow["job"] \in Locals
      BY Here DEF Labels
    <3>2. y \in Locals
      BY <2>y, <2>3, <3>1, Zenon DEF Locals
    <3> QED  BY <2>y, <3>1, <3>2, SMT DEF Locals
  <2>5. Go("job", y)
    BY <2>2, <2>y
  <2>6. ActorOK("job", y)
    BY <1>1, <2>2, <2>4, Here DEF ActorOK, JobOK, Syncing, Removing, Storing, Adding
  <2>7. Unless(Quiet("job", y.pc))
    BY <1>1, <2>4, QuietHere DEF Adding
  <2> QED  BY <1>1, <2>2, <2>5, <2>6, <2>7, Here, QuietStep DEF Stay
<1> QED  BY <1>2, <1>3

LEMMA AddLibraryJsonStep ==
  ASSUME StorageInv, AddLibraryJsonToS3
  PROVE  StorageInv'
<1>1. flow["job"].pc = "restore" /\ UNCHANGED <<docs, folder, left, timeouts, deletions, late>>
  BY DEF AddLibraryJsonToS3, At
<1>2. PICK p \in {"write", "losing", "list"} : p = IF One THEN "write" ELSE IF None THEN "losing" ELSE "list"
  OBVIOUS
<1>3. PICK n : n = IF One THEN Newest ELSE 0
  OBVIOUS
<1>4. Go("job", [flow["job"] EXCEPT !.pc = p, !.patch = n])
  BY <1>2, <1>3 DEF AddLibraryJsonToS3
<1>5. n \in 0..Hub
  BY <1>3, FoundOne, StorageAssumption DEF StorageInv, TypeInv
<1>y. PICK y : y = [flow["job"] EXCEPT !.pc = p, !.patch = n]
  OBVIOUS
<1>6. y \in Locals /\ y.pc = p /\ y.then = flow["job"].then
  <2>1. p \in Labels /\ flow["job"] \in Locals
    BY Here DEF Labels, Emptying
  <2>2. y \in Locals
    BY <1>y, <1>5, <2>1, Zenon DEF Locals
  <2> QED  BY <1>y, <2>1, <2>2, SMT DEF Locals
<1>7. Go("job", y)
  BY <1>4, <1>y
<1>8. ActorOK("job", y)
  BY <1>1, <1>6, Here DEF ActorOK, JobOK, Syncing, Removing, Storing, Adding
<1>9. Unless(Quiet("job", y.pc))
  BY <1>1, <1>6, QuietHere DEF Adding
<1> QED  BY <1>1, <1>7, <1>8, <1>9, Here, QuietStep

LEMMA RunSteps ==
  ASSUME StorageInv, RunStep
  PROVE  StorageInv'
<1>1. CASE Listing("job")
  BY <1>1, JobListing
<1>2. CASE StorageCall("job")
  BY <1>2, StorageCallStep
<1>3. CASE StartRun
  BY <1>3, StartRunStep
<1>4. CASE InstallLibrary
  BY <1>4, InstallLibraryStep
<1>5. CASE Installed
  BY <1>5, InstalledStep
<1>6. CASE AllWished
  BY <1>6, AllWishedStep
<1>7. CASE LibraryJsonExists
  <2>1. PICK p \in {"json", "restore"} : Goto("job", p)
    BY <1>7 DEF LibraryJsonExists
  <2>2. flow["job"].pc = "head" /\ UNCHANGED <<docs, folder, left, timeouts, deletions, late>>
    BY <1>7 DEF LibraryJsonExists, At
  <2>3. p \in Labels
    BY DEF Labels
  <2> QED  BY <2>1, <2>2, <2>3, Here, JobGoto DEF JobOK, Syncing, Removing, Storing, Adding
<1>8. CASE ReadLibraryJson
  BY <1>8, ReadLibraryJsonStep
<1>9. CASE SynchronizeLibraryMetadata
  <2>1. flow["job"].pc = "synchronize" /\ UNCHANGED <<docs, folder, timeouts, deletions, late>>
    BY <1>9 DEF SynchronizeLibraryMetadata, At
  <2>2. CASE EndRun
    BY <2>1, <2>2, EndRunStep
  <2>3. CASE ~EndRun
    <3>1. PICK p \in {"add", "update", "list"} : Goto("job", p) /\ (p = "add" => None)
      BY <1>9, <2>3 DEF SynchronizeLibraryMetadata
    <3>2. left' = left
      BY <1>9, <2>3 DEF SynchronizeLibraryMetadata, Stay
    <3>3. p \in Labels
      BY DEF Labels
    <3> QED  BY <2>1, <3>1, <3>2, <3>3, Here, JobGoto DEF JobOK, Syncing, Removing, Storing, Adding
  <2> QED  BY <2>2, <2>3
<1>10. CASE AddLibraryJsonToS3
  BY <1>10, AddLibraryJsonStep
<1>11. CASE WriteLibraryJson
  <2>1. /\ flow["job"].pc = "write" /\ Goto("job", "list")
        /\ UNCHANGED <<docs, left, timeouts, deletions, late>>
    BY <1>11 DEF WriteLibraryJson, At
  <2>2. folder' \in [File -> 0..Hub]
    BY <1>11, Here DEF WriteLibraryJson
  <2>3. "list" \in Labels
    BY DEF Labels
  <2> QED  BY <2>1, <2>2, <2>3, Here, JobGoto DEF JobOK, Syncing, Removing, Storing, Adding
<1>12. CASE RunOver
  BY <1>12, EndRunStep DEF RunOver
<1> QED
  BY <1>1, <1>2, <1>3, <1>4, <1>5, <1>6, <1>7, <1>8, <1>9, <1>10, <1>11, <1>12 DEF RunStep

(***************************************************************************)
(* Theorems.                                                               *)
(***************************************************************************)
LEMMA InitOK ==
  ASSUME Init
  PROVE  StorageInv
<1>1. docs \in [Doc -> 0..Hub] /\ Cardinality({d \in Doc : docs[d] # 0}) <= 1
  BY DEF Init
<1>2. Single
  <2> DEFINE S == {d \in Doc : docs[d] # 0}
  <2>1. IsFiniteSet(S)
    BY StorageAssumption, FS_Subset
  <2>2. SUFFICES ASSUME NEW d \in S, NEW e \in S PROVE d = e
    BY DEF Single
  <2>3. Cardinality(S) \in Nat /\ Cardinality(S) <= 1
    BY <1>1, <2>1, FS_CardinalityType
  <2>4. Cardinality(S) # 0
    BY <2>1, FS_EmptySet
  <2>5. Cardinality(S) = 1
    BY <2>3, <2>4
  <2>6. \E x : S = {x}
    BY <2>1, <2>5, FS_Singleton
  <2> QED  BY <2>2, <2>6
<1>3. /\ "job" \in Flow /\ "editor" \in Flow /\ Installer \subseteq Flow
      /\ flow = [f \in Flow |-> Idle]
  BY DEF Flow, Init
<1>4. flow \in [Flow -> Locals] /\ \A f \in Flow : ActorOK(f, flow[f])
  BY <1>3, IdleOK
<1>5. TypeInv
  <2>1. /\ folder \in [File -> 0..Hub] /\ left = {} /\ timeouts = 0
        /\ deletions = FALSE /\ late = FALSE
    BY DEF Init
  <2>2. 0 \in 0..MaxTimeouts
    BY StorageAssumption
  <2> QED  BY <1>1, <1>4, <2>1, <2>2 DEF TypeInv
<1>6. \A f \in Flow : flow[f].pc = "idle"
  BY <1>3, IdleOK
<1>7. OneAdds /\ EditorReads
  BY <1>3, <1>6 DEF OneAdds, EditorReads, At, Adding
<1> QED  BY <1>2, <1>5, <1>7 DEF StorageInv, Once

\* Wherever installers are left behind, the state is one the program may be in, and
\* until one of them looks the library up late and finds it taken back there is at most
\* one document and one actor that adds it.
THEOREM StorageInvariant == Spec => []StorageInv
<1>1. Init => StorageInv
  BY InitOK
<1>2. StorageInv /\ [Next]_vars => StorageInv'
  <2> SUFFICES ASSUME StorageInv, [Next]_vars PROVE StorageInv'
    OBVIOUS
  <2>1. CASE RunStep
    BY <2>1, RunSteps
  <2>2. CASE TimesOut
    BY <2>2, TimesOutStep
  <2>3. CASE \E i \in Installer : InstallerStep(i)
    BY <2>3, InstallerSteps
  <2>4. CASE ListAddons \/ Listing("editor")
    BY <2>4, EditorListing
  <2>5. CASE UNCHANGED vars
    BY <2>5 DEF vars, StorageInv, TypeInv, Once, Single, OneAdds, EditorReads, None, Entries, Waiting, At
  <2> QED  BY <2>1, <2>2, <2>3, <2>4, <2>5 DEF Next
<1> QED  BY <1>1, <1>2, PTL DEF Spec

\* The shape of the state, and that the library has at most one document until an
\* installer the run has left looks it up late and finds it taken back: no other order
\* of the calls, and no other place at which an installer is left, makes two.
THEOREM StorageTypeCorrect == Spec => []TypeOK
<1>1. StorageInv => TypeOK
  <2> SUFFICES ASSUME StorageInv PROVE TypeOK
    OBVIOUS
  <2>1. late \/ Cardinality(Entries) <= 1
    <3>1. Once => One \/ Cardinality(Entries) = 0
      BY Found, SomeOrNone DEF Once
    <3> QED  BY <3>1 DEF StorageInv, One
  <2> QED  BY <2>1, Zenon DEF StorageInv, TypeInv, TypeOK, Locals
<1> QED  BY <1>1, StorageInvariant, PTL

\* A page of the editor fails only when a library was deleted while it was listed, or
\* after an installer the run had left found the library taken back.
THEOREM PagesFailOnlyOnDeletion == Spec => []ListFailsOnlyOnDeletion
<1>1. StorageInv => ListFailsOnlyOnDeletion
  BY DEF StorageInv, Once, EditorReads, ListFailsOnlyOnDeletion
<1> QED  BY <1>1, StorageInvariant, PTL
================================================================================
