------------------------- MODULE LibraryManagementProofs -------------------------
(***************************************************************************)
(* Theorems about the library management job, for every set of libraries,  *)
(* every dependency structure and every schedule of faults and kills.      *)
(***************************************************************************)
EXTENDS LibraryManagement, FiniteSetTheorems, WellFoundedInduction, TLAPS

USE DEF LibraryAssumption, NoJson, BadJson

LEMMA InitType == Init => TypeOK
<1> SUFFICES ASSUME Init PROVE TypeOK
  OBVIOUS
<1>1. /\ entry \in [Lib -> 0..MaxPatch]
      /\ asset \in [Lib -> SUBSET Asset]
      /\ json \in [Lib -> {BadJson, NoJson} \cup 1..MaxPatch]
  <2>1. entry \in [Lib -> 0..MaxPatch]
    BY LibraryAssumption DEF Init
  <2>2. asset \in [Lib -> SUBSET Asset]
    BY DEF Init
  <2>3. {NoJson} \cup Published \subseteq {BadJson, NoJson} \cup 1..MaxPatch
    BY LibraryAssumption
  <2>4. json \in [Lib -> {NoJson} \cup Published]
    BY DEF Init
  <2>5. json \in [Lib -> {BadJson, NoJson} \cup 1..MaxPatch]
    BY <2>3, <2>4
  <2>6. QED
    BY <2>1, <2>2, <2>5
<1>2. mishaps \in 0..MaxMishaps
  BY LibraryAssumption DEF Init
<1>3. QED
  BY <1>1, <1>2 DEF Init, TypeOK, Steps, WithCur, Deleting

\* The end of a run, however it comes, leaves a well-typed state.
LEMMA EndType ==
  ASSUME TypeOK, UNCHANGED store,
         NEW how \in {"finished", "swallowed", "failed", "killed"}, End(how),
         mishaps' \in 0..MaxMishaps, excused' \subseteq Lib
  PROVE  TypeOK'
<1>1. /\ entry' \in [Lib -> 0..MaxPatch]
      /\ asset' \in [Lib -> SUBSET Asset]
      /\ json' \in [Lib -> {BadJson, NoJson} \cup 1..MaxPatch]
  BY DEF TypeOK, store
<1>2. QED
  BY <1>1 DEF TypeOK, End, Steps, WithCur, Deleting

LEMMA FaultType ==
  ASSUME TypeOK, NEW k, Fault(k)
  PROVE  mishaps' \in 0..MaxMishaps
BY LibraryAssumption DEF TypeOK, Fault

\* An error leaving deleteLibrary keeps the state well-typed.
LEMMA ThrowType ==
  ASSUME TypeOK, UNCHANGED store, pc \in Deleting, NEW k, Throw(k),
         mishaps' \in 0..MaxMishaps, excused' \subseteq Lib
  PROVE  TypeOK'
<1>1. CASE ret = "uninstall" /\ k # "s3"
  <2>1. /\ entry' \in [Lib -> 0..MaxPatch]
        /\ asset' \in [Lib -> SUBSET Asset]
        /\ json' \in [Lib -> {BadJson, NoJson} \cup 1..MaxPatch]
    BY DEF TypeOK, store
  <2>2. cur \in Lib
    BY DEF TypeOK, WithCur
  <2>3. failed' \subseteq Name
    BY <1>1, <2>2, LibraryAssumption DEF TypeOK, Throw
  <2>4. QED
    BY <1>1, <2>1, <2>3 DEF TypeOK, Throw, Continue, Steps, WithCur, Deleting
<1>2. CASE ~(ret = "uninstall" /\ k # "s3")
  BY <1>2, EndType DEF Throw, Abort
<1>3. QED
  BY <1>1, <1>2

LEMMA NextType == TypeOK /\ [Next]_vars => TypeOK'
<1> SUFFICES ASSUME TypeOK, [Next]_vars PROVE TypeOK'
  OBVIOUS
<1> USE LibraryAssumption DEF TypeOK, Steps, WithCur, Deleting, Callers, store, loop,
                              Continue, Delete, Fault
<1>1. CASE StartRun
  BY <1>1 DEF StartRun
<1>2. CASE ListForUninstall
  <2>1. todo' \subseteq Lib
    BY <1>2 DEF ListForUninstall, Unwanted
  <2>2. mishaps' \in 0..MaxMishaps
    BY <1>2 DEF ListForUninstall
  <2>3. QED
    BY <1>2, <2>1, <2>2 DEF ListForUninstall
<1>3. CASE UninstallNext
  BY <1>3 DEF UninstallNext
<1>4. CASE UninstallAgain
  BY <1>4 DEF UninstallAgain
<1>5. CASE UninstallDone
  BY <1>5 DEF UninstallDone
<1>6. CASE DelCheck
  <2>1. CASE Installed(cur)
    BY <1>6, <2>1 DEF DelCheck
  <2>2. CASE ~Installed(cur)
    BY <1>6, <2>2, ThrowType DEF DelCheck
  <2>3. QED
    BY <2>1, <2>2
<1>7. CASE DelPage
  BY <1>7 DEF DelPage
<1>8. CASE DelEntry
  BY <1>8 DEF DelEntry, FolderDeleted
<1>9. CASE InstallNext
  BY <1>9 DEF InstallNext
<1>10. CASE InstallStart
  BY <1>10 DEF InstallStart
<1>11. CASE InstallCleared
  BY <1>11 DEF InstallCleared
<1>12. CASE InstallCopy
  BY <1>12 DEF InstallCopy
<1>13. CASE InstallCopied
  BY <1>13 DEF InstallCopied
<1>14. CASE PackageDone
  BY <1>14 DEF PackageDone
<1>15. CASE InstallDone
  BY <1>15 DEF InstallDone
<1>16. CASE SyncList
  BY <1>16 DEF SyncList
<1>17. CASE SyncNext
  BY <1>17 DEF SyncNext
<1>18. CASE SyncRefuse
  BY <1>18 DEF SyncRefuse, Abort, End
<1>19. CASE SyncAdd
  BY <1>19 DEF SyncAdd
<1>20. CASE SyncUpdate
  BY <1>20 DEF SyncUpdate
<1>21. CASE SyncUpToDate
  BY <1>21 DEF SyncUpToDate
<1>22. CASE UpdateChecked
  BY <1>22 DEF UpdateChecked
<1>23. CASE SyncRestore
  BY <1>23 DEF SyncRestore, Installed
<1>24. CASE LostDeleted
  BY <1>24 DEF LostDeleted, FolderDeleted
<1>25. CASE SyncDone
  BY <1>25 DEF SyncDone
<1>26. CASE CheckList
  BY <1>26 DEF CheckList
<1>27. CASE CheckNext
  BY <1>27 DEF CheckNext
<1>28. CASE RunDone
  BY <1>28 DEF RunDone, End
<1>29. CASE DelFails
  <2>1. PICK k \in {"s3", "db"} : Fault(k) /\ Throw(k)
    BY <1>29 DEF DelFails
  <2>2. mishaps' \in 0..MaxMishaps
    BY <2>1, FaultType
  <2>3. QED
    BY <1>29, <2>1, <2>2, ThrowType DEF DelFails
<1>30. CASE InstallFails
  BY <1>30 DEF InstallFails
<1>31. CASE CallFails
  <2>1. mishaps' \in 0..MaxMishaps /\ excused' \subseteq Lib
    BY <1>31, FaultType DEF CallFails
  <2>2. QED
    BY <1>31, <2>1, EndType DEF CallFails, Abort
<1>32. CASE Kill
  <2>1. mishaps' \in 0..MaxMishaps /\ excused' \subseteq Lib
    BY <1>32, FaultType DEF Kill
  <2>2. QED
    BY <1>32, <2>1, EndType DEF Kill
<1>33. CASE Upload
  <2>1. PICK l \in Lib, p \in Published : \E S \in SUBSET Content[l], j \in {NoJson, json[l], p} :
          /\ asset' = [asset EXCEPT ![l] = S]
          /\ json' = [json EXCEPT ![l] = j]
    BY <1>33 DEF Upload, Uploads!Upload, Uploads!Replace, Uploads!NoJson
  <2>2. PICK S \in SUBSET Content[l], j \in {NoJson, json[l], p} :
          /\ asset' = [asset EXCEPT ![l] = S]
          /\ json' = [json EXCEPT ![l] = j]
    BY <2>1
  <2>3. j \in {BadJson, NoJson} \cup 1..MaxPatch /\ Content[l] \subseteq Asset
    BY <2>1, <2>2, LibraryAssumption DEF TypeOK
  <2>4. asset' \in [Lib -> SUBSET Asset] /\ json' \in [Lib -> {BadJson, NoJson} \cup 1..MaxPatch]
    BY <2>2, <2>3 DEF TypeOK
  <2>5. mishaps' \in 0..MaxMishaps
    BY <1>33, FaultType DEF Upload
  <2>6. QED
    BY <1>33, <2>4, <2>5 DEF Upload, TypeOK, Steps, WithCur, Deleting
<1>34. CASE UNCHANGED vars
  BY <1>34 DEF vars
<1>35. QED
  BY <1>1, <1>2, <1>3, <1>4, <1>5, <1>6, <1>7, <1>8, <1>9, <1>10, <1>11, <1>12, <1>13,
     <1>14, <1>15, <1>16, <1>17, <1>18, <1>19, <1>20, <1>21, <1>22, <1>23, <1>24, <1>25,
     <1>26, <1>27, <1>28, <1>29, <1>30, <1>31, <1>32, <1>33, <1>34
  DEF Next, JobStep, Mishap

\* The type invariant of the job and its two stores.
THEOREM TypeCorrect == Spec => []TypeOK
<1>1. Init => TypeOK
  BY InitType
<1>2. TypeOK /\ [Next]_vars => TypeOK'
  BY NextType
<1>3. QED
  BY <1>1, <1>2, PTL DEF Spec

(***************************************************************************)
(* FinishedRunAgrees.  It says nothing of a run under way, so it is not    *)
(* inductive; what a run has established so far is.  Visited(l) holds for  *)
(* the libraries the current loop is through with.                         *)
(***************************************************************************)
Visited(l) == l \in Lib /\ l \notin todo /\ l # cur

Syncing  == pc \in {"sync", "sync_read", "restore", "lost"} \/ (pc \in Deleting /\ ret = "sync")
Checking == pc = "check" \/ (pc \in Deleting /\ ret = "check")

\* The synchronisation loop has brought the libraries behind it in step.
SyncProgress == Syncing => \A l \in Lib : Visited(l) /\ l \notin excused => Described(l)

\* After an update the library at hand is in step as well.
UpdateProgress == pc = "updated" => \A l \in Lib : l \notin todo /\ l \notin excused => Described(l)

\* The checking loop keeps that, but for the library it is deleting.
SyncedStays == pc = "check_list" \/ Checking => \A l \in Lib : l # cur /\ l \notin excused => Described(l)

\* It has made sure of the files of the libraries behind it.
CheckProgress == Checking => \A l \in Lib : Visited(l) => Complete(l)

AgreeInv ==
  /\ SyncProgress
  /\ UpdateProgress
  /\ SyncedStays
  /\ CheckProgress
  /\ FinishedRunAgrees

\* In the phases before the synchronisation, and when a run ends without
\* having finished, the invariant says nothing.
LEMMA Vacuous ==
  ASSUME \/ pc' \in {"uninstall_list", "uninstall", "install", "package", "clear",
                     "copy", "sync_list"}
         \/ pc' \in Deleting /\ ret' \in {"uninstall", "install"}
         \/ pc' = "idle" /\ outcome' # "finished"
  PROVE  AgreeInv'
BY DEF AgreeInv, SyncProgress, UpdateProgress, SyncedStays, CheckProgress,
       FinishedRunAgrees, Syncing, Checking, Deleting

\* So does every way a run ends but the last.
LEMMA EndUnfinished ==
  ASSUME NEW how \in {"swallowed", "failed", "killed"}, End(how)
  PROVE  AgreeInv'
BY Vacuous DEF End

LEMMA ThrowAgree ==
  ASSUME NEW k, Throw(k)
  PROVE  AgreeInv'
<1>1. CASE ret = "uninstall" /\ k # "s3"
  BY <1>1, Vacuous DEF Throw, Continue
<1>2. CASE ~(ret = "uninstall" /\ k # "s3")
  BY <1>2, EndUnfinished DEF Throw, Abort
<1>3. QED
  BY <1>1, <1>2

LEMMA InitAgree == Init => AgreeInv
BY DEF Init, AgreeInv, SyncProgress, UpdateProgress, SyncedStays, CheckProgress,
       FinishedRunAgrees, Syncing, Checking, Deleting

LEMMA NextAgree == TypeOK /\ AgreeInv /\ [Next]_vars => AgreeInv'
<1> SUFFICES ASSUME TypeOK, AgreeInv, [Next]_vars PROVE AgreeInv'
  OBVIOUS
<1>1. CASE StartRun
  BY <1>1, Vacuous DEF StartRun
<1>2. CASE ListForUninstall \/ UninstallAgain \/ UninstallDone
  BY <1>2, Vacuous DEF ListForUninstall, UninstallAgain, UninstallDone, Continue
<1>3. CASE UninstallNext
  BY <1>3, Vacuous DEF UninstallNext, Delete, Deleting
<1>4. CASE DelCheck
  <2>1. CASE Installed(cur)
    BY <1>4, <2>1 DEF DelCheck, AgreeInv, SyncProgress, UpdateProgress, SyncedStays,
       CheckProgress, FinishedRunAgrees, Syncing, Checking, Deleting, Visited, Described,
       Complete, FolderEmpty, Installed, store, loop
  <2>2. CASE ~Installed(cur)
    BY <1>4, <2>2, ThrowAgree DEF DelCheck
  <2>3. QED
    BY <2>1, <2>2
<1>5. CASE DelPage
  <2>1. \A l \in Lib : l # cur => asset'[l] = asset[l] /\ json'[l] = json[l]
    BY <1>5 DEF DelPage, TypeOK
  <2>2. QED
    BY <1>5, <2>1 DEF DelPage, AgreeInv, SyncProgress, UpdateProgress, SyncedStays,
       CheckProgress, FinishedRunAgrees, Syncing, Checking, Deleting, Visited, Described,
       Complete, FolderEmpty, Installed, store, loop
<1>6. CASE DelEntry
  <2>1. entry'[cur] = 0 /\ cur \in Lib /\ cur' = NoLib /\ cur' \notin Lib
    BY <1>6, LibraryAssumption DEF DelEntry, TypeOK, WithCur, Deleting, Continue
  <2>2. \A l \in Lib : l # cur => entry'[l] = entry[l]
    BY <1>6 DEF DelEntry, TypeOK
  <2>3. cur \in excused' \/ FolderEmpty(cur)
    BY <1>6 DEF DelEntry, FolderDeleted
  <2>4. excused \subseteq excused'
    BY <1>6 DEF DelEntry, FolderDeleted
  <2>5. CASE ret \in {"uninstall", "install"}
    BY <1>6, <2>5, Vacuous DEF DelEntry, Continue
  <2>6. CASE ret = "sync"
    <3>1. \A l \in Lib : Visited(l) /\ l \notin excused => Described(l)
      BY <1>6, <2>6 DEF AgreeInv, SyncProgress, Syncing, DelEntry, Deleting
    <3>2. \A l \in Lib : l \notin todo /\ l \notin excused' => Described(l)'
      BY <1>6, <2>1, <2>2, <2>3, <2>4, <3>1
      DEF DelEntry, Visited, Described, FolderEmpty
    <3>3. QED
      BY <1>6, <2>1, <2>6, <3>2
      DEF DelEntry, Continue, AgreeInv, SyncProgress, UpdateProgress, SyncedStays,
          CheckProgress, FinishedRunAgrees, Syncing, Checking, Deleting, Visited
  <2>7. CASE ret = "check"
    <3>1. /\ \A l \in Lib : l # cur /\ l \notin excused => Described(l)
          /\ \A l \in Lib : Visited(l) => Complete(l)
      BY <1>6, <2>7 DEF AgreeInv, SyncedStays, CheckProgress, Checking, DelEntry, Deleting
    <3>2. \A l \in Lib : l \notin excused' => Described(l)'
      BY <1>6, <2>1, <2>2, <2>3, <2>4, <3>1 DEF DelEntry, Described, FolderEmpty
    <3>3. \A l \in Lib : l \notin todo => Complete(l)'
      BY <1>6, <2>1, <2>2, <3>1 DEF DelEntry, Visited, Complete, Installed
    <3>4. QED
      BY <1>6, <2>1, <2>7, <3>2, <3>3
      DEF DelEntry, Continue, AgreeInv, SyncProgress, UpdateProgress, SyncedStays,
          CheckProgress, FinishedRunAgrees, Syncing, Checking, Deleting, Visited
  <2>8. QED
    BY <1>6, <2>5, <2>6, <2>7 DEF DelEntry, TypeOK, Deleting, Callers
<1>7. CASE InstallNext \/ PackageDone \/ InstallDone \/ InstallCleared \/ InstallCopied
  BY <1>7, Vacuous
  DEF InstallNext, PackageDone, InstallDone, InstallCleared, InstallCopied, Continue
<1>8. CASE InstallStart
  BY <1>8, Vacuous DEF InstallStart
<1>9. CASE InstallCopy
  BY <1>9, Vacuous DEF InstallCopy
<1>10. CASE InstallFails
  BY <1>10, Vacuous DEF InstallFails, Delete, Continue, Deleting
<1>11. CASE SyncList
  BY <1>11 DEF SyncList, Continue, AgreeInv, SyncProgress, UpdateProgress, SyncedStays,
     CheckProgress, FinishedRunAgrees, Syncing, Checking, Deleting, Visited, Described,
     FolderEmpty, store
<1>12. CASE SyncNext
  <2>1. pc = "sync" /\ cur = NoLib /\ UNCHANGED <<store, ret, excused>>
    BY <1>12 DEF SyncNext, TypeOK, WithCur, Deleting
  <2>2. \A l \in Lib : l \notin todo /\ l \notin excused => Described(l)
    BY <2>1, LibraryAssumption DEF AgreeInv, SyncProgress, Syncing, Visited
  <2>3. PICK x \in todo : /\ todo' = todo \ {x} /\ cur' = x
                          /\ pc' \in {"sync_read", "restore"}
    BY <1>12 DEF SyncNext
  <2>4. \A l \in Lib : l \notin todo /\ l \notin excused' => Described(l)'
    BY <2>1, <2>2 DEF store, Described, FolderEmpty
  <2>5. QED
    BY <2>3, <2>4
    DEF AgreeInv, SyncProgress, UpdateProgress, SyncedStays, CheckProgress,
        FinishedRunAgrees, Syncing, Checking, Deleting, Visited
<1>13. CASE SyncRefuse
  BY <1>13, EndUnfinished DEF SyncRefuse, Abort
<1>14. CASE SyncAdd
  <2>1. cur \in Lib /\ pc = "sync_read" /\ pc' = "sync" /\ cur' = NoLib
    BY <1>14 DEF SyncAdd, TypeOK, WithCur, Continue
  <2>2. \A l \in Lib : l # cur => entry'[l] = entry[l]
    BY <1>14 DEF SyncAdd, TypeOK
  <2>3. cur \in excused' \/ (entry'[cur] = json[cur] /\ json[cur] > 0 /\ json[cur] \in Int)
    BY <1>14, <2>1, LibraryAssumption DEF SyncAdd, TypeOK
  <2>4. excused \subseteq excused'
    BY <1>14 DEF SyncAdd
  <2>5. \A l \in Lib : Visited(l) /\ l \notin excused => Described(l)
    BY <2>1 DEF AgreeInv, SyncProgress, Syncing
  <2>6. \A l \in Lib : l \notin todo /\ l \notin excused' => Described(l)'
    BY <1>14, <2>1, <2>2, <2>3, <2>4, <2>5 DEF SyncAdd, Visited, Described, FolderEmpty
  <2>7. QED
    BY <1>14, <2>1, <2>6
    DEF SyncAdd, loop, AgreeInv, SyncProgress, UpdateProgress, SyncedStays, CheckProgress,
        FinishedRunAgrees, Syncing, Checking, Deleting, Visited
<1>15. CASE SyncUpdate
  <2>1. cur \in Lib /\ pc = "sync_read"
    BY <1>15 DEF SyncUpdate, TypeOK, WithCur
  <2>2. \A l \in Lib : Visited(l) /\ l \notin excused => Described(l)
    BY <2>1 DEF AgreeInv, SyncProgress, Syncing
  <2>3. CASE pc' = "updated"
    <3>1. /\ entry'[cur] = json[cur] /\ json[cur] > 0 /\ json[cur] \in Int
          /\ \A l \in Lib : l # cur => entry'[l] = entry[l]
      BY <1>15, <2>1, <2>3, LibraryAssumption DEF SyncUpdate, Delete, Installed, TypeOK
    <3>2. \A l \in Lib : l \notin todo /\ l \notin excused' => Described(l)'
      BY <1>15, <2>2, <3>1 DEF SyncUpdate, Visited, Described, FolderEmpty
    <3>3. QED
      BY <1>15, <2>3, <3>2
      DEF SyncUpdate, loop, AgreeInv, SyncProgress, UpdateProgress, SyncedStays,
          CheckProgress, FinishedRunAgrees, Syncing, Checking, Deleting
  <2>4. CASE pc' # "updated"
    <3>1. UNCHANGED store /\ pc' = "del_check" /\ ret' = "sync" /\ cur' = cur
      BY <1>15, <2>4 DEF SyncUpdate, Delete, store
    <3>2. \A l \in Lib : Visited(l)' /\ l \notin excused' => Described(l)'
      BY <1>15, <2>2, <3>1 DEF SyncUpdate, loop, store, Visited, Described, FolderEmpty
    <3>3. QED
      BY <3>1, <3>2
      DEF AgreeInv, SyncProgress, UpdateProgress, SyncedStays, CheckProgress,
          FinishedRunAgrees, Syncing, Checking, Deleting
  <2>5. QED
    BY <2>3, <2>4
<1>16. CASE SyncUpToDate
  <2>1. pc = "sync_read" /\ json[cur] > 0 /\ entry[cur] >= json[cur] /\ pc' = "sync"
    BY <1>16, LibraryAssumption DEF SyncUpToDate, TypeOK, WithCur, Continue
  <2>2. \A l \in Lib : Visited(l) /\ l \notin excused => Described(l)
    BY <2>1 DEF AgreeInv, SyncProgress, Syncing
  <2>3. \A l \in Lib : l \notin todo /\ l \notin excused => Described(l)'
    BY <1>16, <2>1, <2>2 DEF SyncUpToDate, store, Visited, Described, FolderEmpty
  <2>4. QED
    BY <1>16, <2>1, <2>3
    DEF SyncUpToDate, loop, AgreeInv, SyncProgress, UpdateProgress, SyncedStays,
        CheckProgress, FinishedRunAgrees, Syncing, Checking, Deleting, Visited
<1>17. CASE UpdateChecked
  <2>1. pc = "updated" /\ UNCHANGED store
    BY <1>17 DEF UpdateChecked
  <2>2. \A l \in Lib : l \notin todo' /\ l \notin excused' => Described(l)'
    BY <1>17, <2>1
    DEF AgreeInv, UpdateProgress, UpdateChecked, loop, store, Described, FolderEmpty
  <2>3. pc' = "sync" \/ (pc' = "del_check" /\ ret' = "sync")
    BY <1>17 DEF UpdateChecked, Continue, Delete
  <2>4. QED
    BY <2>2, <2>3
    DEF AgreeInv, SyncProgress, UpdateProgress, SyncedStays, CheckProgress,
        FinishedRunAgrees, Syncing, Checking, Deleting, Visited
<1>18. CASE SyncRestore
  <2>1. cur \in Lib /\ pc = "restore"
    BY <1>18 DEF SyncRestore, TypeOK, WithCur
  <2>2. \A l \in Lib : Visited(l) /\ l \notin excused => Described(l)
    BY <2>1 DEF AgreeInv, SyncProgress, Syncing
  <2>3. CASE pc' = "lost"
    BY <1>18, <2>2, <2>3
    DEF SyncRestore, Continue, loop, AgreeInv, SyncProgress, UpdateProgress, SyncedStays,
        CheckProgress, FinishedRunAgrees, Syncing, Checking, Deleting, Visited, Described,
        FolderEmpty
  <2>4. CASE pc' # "lost"
    <3>1. /\ excused \subseteq excused' /\ pc' = "sync"
          /\ cur \in excused' \/ (json'[cur] = entry[cur] /\ entry[cur] > 0)
      BY <1>18, <2>1, <2>4, LibraryAssumption DEF SyncRestore, Continue, Installed, TypeOK
    <3>2. \A l \in Lib : l # cur => json'[l] = json[l]
      BY <1>18 DEF SyncRestore, TypeOK
    <3>3. entry[cur] \in Int
      BY <2>1, LibraryAssumption DEF TypeOK
    <3>4. \A l \in Lib : l \notin todo /\ l \notin excused' => Described(l)'
      BY <1>18, <2>2, <3>1, <3>2, <3>3 DEF SyncRestore, Visited, Described, FolderEmpty
    <3>5. QED
      BY <1>18, <3>1, <3>4
      DEF SyncRestore, loop, AgreeInv, SyncProgress, UpdateProgress, SyncedStays,
          CheckProgress, FinishedRunAgrees, Syncing, Checking, Deleting, Visited
  <2>5. QED
    BY <2>3, <2>4
<1>19. CASE LostDeleted
  <2>1. \A l \in Lib : Visited(l) /\ l \notin excused => Described(l)
    BY <1>19 DEF LostDeleted, AgreeInv, SyncProgress, Syncing
  <2>2. \A l \in Lib : l \notin todo /\ l \notin excused' => Described(l)'
    BY <1>19, <2>1
    DEF LostDeleted, FolderDeleted, store, Visited, Described, FolderEmpty
  <2>3. QED
    BY <1>19, <2>2
    DEF LostDeleted, Continue, loop, AgreeInv, SyncProgress, UpdateProgress, SyncedStays,
        CheckProgress, FinishedRunAgrees, Syncing, Checking, Deleting, Visited
<1>20. CASE SyncDone
  <2>1. \A l \in Lib : l # cur /\ l \notin excused => Described(l)
    BY <1>20 DEF SyncDone, AgreeInv, SyncProgress, Syncing, Visited
  <2>2. cur = cur'
    BY <1>20 DEF SyncDone, Continue, TypeOK, WithCur, Deleting
  <2>3. QED
    BY <1>20, <2>1, <2>2
    DEF SyncDone, Continue, store, AgreeInv, SyncProgress, UpdateProgress, SyncedStays,
        CheckProgress, FinishedRunAgrees, Syncing, Checking, Deleting, Described,
        FolderEmpty
<1>21. CASE CheckList
  <2>1. \A l \in Lib : l # cur /\ l \notin excused => Described(l)
    BY <1>21 DEF CheckList, AgreeInv, SyncedStays
  <2>2. cur = cur'
    BY <1>21 DEF CheckList, Continue, TypeOK, WithCur, Deleting
  <2>3. QED
    BY <1>21, <2>1, <2>2
    DEF CheckList, Continue, store, AgreeInv, SyncProgress, UpdateProgress, SyncedStays,
        CheckProgress, FinishedRunAgrees, Syncing, Checking, Deleting, Visited, Described,
        Complete, Installed, FolderEmpty
<1>22. CASE CheckNext
  <2>1. /\ \A l \in Lib : l \notin excused => Described(l)
        /\ \A l \in Lib : l \notin todo => Complete(l)
    BY <1>22, LibraryAssumption
    DEF CheckNext, AgreeInv, SyncedStays, CheckProgress, Checking, Visited, TypeOK, WithCur,
        Deleting
  <2>2. PICK l \in todo : /\ todo' = todo \ {l}
                          /\ \/ Consistent(l) /\ pc' = "check"
                             \/ pc' = "del_check" /\ cur' = l /\ ret' = "check"
    BY <1>22 DEF CheckNext, Continue, Delete
  <2>3. /\ \A x \in Lib : x \notin excused' => Described(x)'
        /\ \A x \in Lib : x \notin todo => Complete(x)'
        /\ Consistent(l) => Complete(l)'
    BY <1>22, <2>1
    DEF CheckNext, store, Consistent, Complete, Described, Installed, FolderEmpty
  <2>4. QED
    BY <2>2, <2>3
    DEF AgreeInv, SyncProgress, UpdateProgress, SyncedStays, CheckProgress,
        FinishedRunAgrees, Syncing, Checking, Deleting, Visited
<1>23. CASE RunDone
  <2>1. /\ \A l \in Lib : l \notin excused => Described(l)
        /\ \A l \in Lib : Complete(l)
    BY <1>23, LibraryAssumption
    DEF RunDone, AgreeInv, SyncedStays, CheckProgress, Checking, Visited, TypeOK, WithCur,
        Deleting
  <2>2. QED
    BY <1>23, <2>1
    DEF RunDone, End, store, AgreeInv, SyncProgress, UpdateProgress, SyncedStays,
        CheckProgress, FinishedRunAgrees, Syncing, Checking, Deleting, Complete, Described,
        Installed, FolderEmpty
<1>24. CASE DelFails
  BY <1>24, ThrowAgree DEF DelFails
<1>25. CASE CallFails
  BY <1>25, EndUnfinished DEF CallFails, Abort
<1>26. CASE Kill
  BY <1>26, EndUnfinished DEF Kill
<1>27. CASE Upload
  BY <1>27, Vacuous DEF Upload
<1>28. CASE UNCHANGED vars
  BY <1>28
  DEF vars, AgreeInv, SyncProgress, UpdateProgress, SyncedStays, CheckProgress,
      FinishedRunAgrees, Syncing, Checking, Deleting, Visited, Described, Complete,
      Installed, FolderEmpty
<1>29. QED
  BY <1>1, <1>2, <1>3, <1>4, <1>5, <1>6, <1>7, <1>8, <1>9, <1>10, <1>11, <1>12, <1>13,
     <1>14, <1>15, <1>16, <1>17, <1>18, <1>19, <1>20, <1>21, <1>22, <1>23, <1>24, <1>25,
     <1>26, <1>27, <1>28
  DEF Next, JobStep, Mishap

\* When a run has finished, the entries and the S3 folders agree, for every
\* number of libraries and every schedule of faults, kills and uploads.
THEOREM FinishedRunCorrect == Spec => []FinishedRunAgrees
<1>1. Init => AgreeInv
  BY InitAgree
<1>2. TypeOK /\ AgreeInv /\ [Next]_vars => AgreeInv'
  BY NextAgree
<1>3. AgreeInv => FinishedRunAgrees
  BY DEF AgreeInv
<1>4. QED
  BY <1>1, <1>2, <1>3, TypeCorrect, PTL DEF Spec

(***************************************************************************)
(* NothingOrphaned.  Whoever removes or copies files works on a library    *)
(* with an entry, unless it removes a lost folder.                         *)
(***************************************************************************)
EntryStays == pc \in {"del_files", "clear", "copy"} => Installed(cur)

LEMMA InitEntry == Init => EntryStays
BY DEF Init, EntryStays

LEMMA NextEntry == TypeOK /\ EntryStays /\ [Next]_vars => EntryStays'
<1> SUFFICES ASSUME TypeOK, EntryStays, [Next]_vars, pc' \in {"del_files", "clear", "copy"}
             PROVE  Installed(cur)'
  BY DEF EntryStays
<1>1. CASE DelCheck
  <2>1. CASE Installed(cur)
    BY <1>1, <2>1 DEF DelCheck, Installed, store
  <2>2. CASE ~Installed(cur)
    BY <1>1, <2>2 DEF DelCheck, Throw, Abort, End, Continue
  <2> QED  BY <2>1, <2>2
<1>2. CASE DelPage \/ InstallCleared \/ InstallCopy \/ UNCHANGED vars
  BY <1>2 DEF DelPage, InstallCleared, InstallCopy, vars, store, EntryStays, Installed
<1>3. CASE InstallStart
  <2>1. PICK x \in pkg, p \in 1..MaxPatch :
          \/ entry' = [entry EXCEPT ![x] = p] /\ cur' = x
          \/ UNCHANGED <<entry, pc, cur>>
    BY <1>3 DEF InstallStart
  <2>2. CASE entry' = [entry EXCEPT ![x] = p] /\ cur' = x
    BY <2>1, <2>2, LibraryAssumption DEF TypeOK, Installed
  <2>3. CASE UNCHANGED <<entry, pc, cur>>
    BY <1>3, <2>3 DEF InstallStart
  <2> QED  BY <2>1, <2>2, <2>3
<1>4. CASE DelEntry
  BY <1>4 DEF DelEntry, Continue, TypeOK, Deleting, Callers
<1>5. CASE DelFails
  BY <1>5 DEF DelFails, Throw, Abort, End, Continue
<1>6. CASE StartRun \/ ListForUninstall \/ UninstallNext \/ UninstallAgain \/ UninstallDone
  BY <1>6
  DEF StartRun, ListForUninstall, UninstallNext, UninstallAgain, UninstallDone, Continue, Delete
<1>7. CASE InstallNext \/ InstallCopied \/ PackageDone \/ InstallDone \/ InstallFails
  BY <1>7 DEF InstallNext, InstallCopied, PackageDone, InstallDone, InstallFails, Continue, Delete
<1>8. CASE SyncList \/ SyncNext \/ SyncRefuse \/ SyncAdd \/ SyncUpdate \/ SyncUpToDate
  BY <1>8
  DEF SyncList, SyncNext, SyncRefuse, SyncAdd, SyncUpdate, SyncUpToDate, Continue, Delete, Abort, End
<1>9. CASE UpdateChecked \/ SyncRestore \/ LostDeleted \/ SyncDone \/ CheckList \/ CheckNext \/ RunDone
  BY <1>9
  DEF UpdateChecked, SyncRestore, LostDeleted, SyncDone, CheckList, CheckNext, RunDone, Continue,
      Delete, End
<1>10. CASE CallFails \/ Kill \/ Upload
  BY <1>10 DEF CallFails, Kill, Upload, Abort, End
<1> QED
  BY <1>1, <1>2, <1>3, <1>4, <1>5, <1>6, <1>7, <1>8, <1>9, <1>10 DEF Next, JobStep, Mishap

\* A step that keeps entry, files and library.json, or only adds an entry.
LEMMA OrphanStep ==
  ASSUME TypeOK, EntryStays, "keys" \notin Faults, [Next]_vars,
         NEW l \in Lib, Orphaned(l)', ~Orphaned(l)
  PROVE  pc = "idle" \/ (pc = "lost" /\ l = cur)
<1>1. CASE UNCHANGED store
  BY <1>1 DEF store, Orphaned, FolderEmpty, Installed
<1>2. ASSUME ~UNCHANGED store PROVE pc = "idle" \/ (pc = "lost" /\ l = cur)
  <2>1. CASE DelPage
    <3>1. /\ pc \in {"del_files", "clear", "lost"} /\ cur \in Lib /\ entry' = entry
          /\ l # cur => asset'[l] = asset[l] /\ json'[l] = json[l]
      BY <2>1 DEF DelPage, TypeOK, WithCur, Deleting
    <3>2. CASE l = cur
      BY <3>1, <3>2 DEF EntryStays, Orphaned, Installed
    <3>3. CASE l # cur
      BY <3>1, <3>3 DEF Orphaned, FolderEmpty, Installed
    <3> QED  BY <3>2, <3>3
  <2>2. CASE DelEntry
    <3>1. FolderEmpty(cur) /\ UNCHANGED <<asset, json>>
      BY <2>2 DEF DelEntry, FolderDeleted, Fault
    <3>2. l # cur => entry'[l] = entry[l]
      BY <2>2 DEF DelEntry, TypeOK
    <3> QED  BY <3>1, <3>2 DEF Orphaned, FolderEmpty, Installed
  <2>3. CASE InstallStart
    <3>1. UNCHANGED <<asset, json>> /\ (Installed(l) => Installed(l)')
      BY <2>3, LibraryAssumption DEF InstallStart, TypeOK, Installed
    <3> QED  BY <3>1 DEF Orphaned, FolderEmpty
  <2>4. CASE InstallCopy
    <3>1. UNCHANGED <<entry, json>> /\ Installed(cur) /\ (l # cur => asset'[l] = asset[l])
      BY <2>4 DEF InstallCopy, TypeOK, EntryStays
    <3> QED  BY <3>1 DEF Orphaned, FolderEmpty, Installed
  <2>5. CASE InstallFails
    <3>1. /\ entry' = [entry EXCEPT ![cur] = 0]
          /\ asset' = [asset EXCEPT ![cur] = {}]
          /\ json' = [json EXCEPT ![cur] = NoJson]
      BY <1>2, <2>5 DEF InstallFails
    <3>2. l # cur => entry'[l] = entry[l] /\ asset'[l] = asset[l] /\ json'[l] = json[l]
      BY <3>1 DEF TypeOK
    <3>3. l = cur => FolderEmpty(l)'
      BY <3>1 DEF TypeOK, FolderEmpty
    <3> QED  BY <3>2, <3>3 DEF Orphaned, FolderEmpty, Installed
  <2>6. CASE SyncAdd \/ SyncUpdate
    <3>1. UNCHANGED <<asset, json>> /\ (Installed(l) => Installed(l)')
      BY <2>6, LibraryAssumption DEF SyncAdd, SyncUpdate, TypeOK, Installed
    <3> QED  BY <3>1 DEF Orphaned, FolderEmpty
  <2>7. CASE SyncRestore
    <3>1. UNCHANGED <<entry, asset>> /\ json' = [json EXCEPT ![cur] = entry[cur]] /\ Installed(cur)
      BY <1>2, <2>7 DEF SyncRestore, store
    <3>2. l # cur => json'[l] = json[l]
      BY <3>1 DEF TypeOK
    <3> QED  BY <3>1, <3>2 DEF Orphaned, FolderEmpty, Installed
  <2>8. CASE Upload
    BY <2>8 DEF Upload
  <2>9. CASE StartRun \/ ListForUninstall \/ UninstallNext \/ UninstallAgain \/ UninstallDone
             \/ DelCheck \/ DelFails
    BY <1>2, <2>9
    DEF StartRun, ListForUninstall, UninstallNext, UninstallAgain, UninstallDone, DelCheck, DelFails
  <2>10. CASE InstallNext \/ InstallCleared \/ InstallCopied \/ PackageDone \/ InstallDone
    BY <1>2, <2>10 DEF InstallNext, InstallCleared, InstallCopied, PackageDone, InstallDone
  <2>11. CASE SyncList \/ SyncNext \/ SyncRefuse \/ SyncUpToDate \/ UpdateChecked \/ LostDeleted
              \/ SyncDone
    BY <1>2, <2>11
    DEF SyncList, SyncNext, SyncRefuse, SyncUpToDate, UpdateChecked, LostDeleted, SyncDone
  <2>12. CASE CheckList \/ CheckNext \/ RunDone \/ CallFails \/ Kill \/ UNCHANGED vars
    BY <1>2, <2>12 DEF CheckList, CheckNext, RunDone, CallFails, Kill, vars, store
  <2> QED
    BY <2>1, <2>2, <2>3, <2>4, <2>5, <2>6, <2>7, <2>8, <2>9, <2>10, <2>11, <2>12
    DEF Next, JobStep, Mishap
<1> QED  BY <1>1, <1>2

\* Unless DeleteObjects reports keys it did not delete, which nobody reads, no
\* step of the job leaves files that nothing describes, whatever fails and
\* whenever it is killed, except in a folder it is removing as lost.
THEOREM NoFilesOrphaned == ASSUME "keys" \notin Faults PROVE Spec => NothingOrphaned
<1>1. TypeOK /\ EntryStays /\ [Next]_vars =>
        [\A l \in Lib : Orphaned(l)' /\ ~Orphaned(l) => pc = "idle" \/ (pc = "lost" /\ l = cur)]_vars
  BY OrphanStep
<1> QED  BY <1>1, InitEntry, NextEntry, TypeCorrect, PTL DEF Spec, NothingOrphaned

(***************************************************************************)
(* The uninstall loop works on a list read at the start of a round.        *)
(***************************************************************************)
Uninstalling == pc = "uninstall" \/ (pc \in Deleting /\ ret = "uninstall")

\* The libraries of the round, the one being deleted included, are not wished for, and
\* an installed library declares one of them only when that one declares it, and is not
\* of the round itself: during the loop entries only go.
NobodyNeeds(l) ==
  /\ NameOf[l] \notin WishList
  /\ \A m \in Lib \ {l} : Installed(m) /\ l \in Uses[m] => m \in Uses[l] /\ m \notin todo /\ m # cur

NotNeeded == Uninstalling => \A l \in Lib : l \in todo \/ l = cur => NobodyNeeds(l)

\* As long as the round has removed no entry, what is unwanted when the declarations of
\* some cut are not counted, the one the round's list was made with, is still to come,
\* or has lost the semantics.json that offered it to a deletion under way or failed.
Ahead(l) ==
  \/ l \in todo
  \/ pc \in Deleting /\ (l = cur \/ l \in SoftUses[cur])
  \/ \E m \in Lib : NameOf[m] \in failed /\ l \in SoftUses[m]

UnwantedAhead ==
  Uninstalling /\ ~removed => \E lost \in Cuts : \A l \in Unwanted({}, lost) : Ahead(l)

LoopInv == NotNeeded /\ UnwantedAhead

\* Outside the loop this says nothing.
LEMMA OutsideLoop ==
  ASSUME pc' # "uninstall", pc' \in Deleting => ret' # "uninstall"
  PROVE  LoopInv'
BY DEF LoopInv, NotNeeded, UnwantedAhead, Uninstalling

LEMMA EndLoop == ASSUME NEW how, End(how) PROVE LoopInv'
BY OutsideLoop DEF End, Deleting

LEMMA InitLoop == Init => LoopInv
BY DEF Init, LoopInv, NotNeeded, UnwantedAhead, Uninstalling, Deleting

\* Fewer libraries count as dependents when semantics.json files are missed.
LEMMA MissedUnwanted ==
  ASSUME NEW missed, NEW lost PROVE Unwanted({}, lost) \subseteq Unwanted(missed, lost)
BY DEF Unwanted, Dependents

\* What is cut depends on what is installed.
LEMMA SameCuts ==
  ASSUME \A l \in Lib : Installed(l)' <=> Installed(l) PROVE Cuts' = Cuts
<1>1. Opposed' = Opposed
  BY DEF Opposed
<1>2. {l \in Lib : Installed(l)}' = {l \in Lib : Installed(l)}
  OBVIOUS
<1> QED  BY <1>1, <1>2 DEF Cuts, Declares

\* What is unwanted depends on what is installed, on the files and on what has failed.
LEMMA SameUnwanted ==
  ASSUME UNCHANGED <<entry, asset, failed>>, NEW lost
  PROVE  Cuts' = Cuts /\ Unwanted({}, lost)' = Unwanted({}, lost)
<1>1. Cuts' = Cuts
  BY SameCuts DEF Installed
<1> QED  BY <1>1 DEF Unwanted, Dependents, Declares, Installed

\* Two libraries that declare each other do not both come onto the list.
LEMMA ListedApart ==
  ASSUME NEW missed, NEW lost \in Cuts, NEW l \in Unwanted(missed, lost),
         NEW m \in Lib \ {l}, Installed(m), l \in Uses[m]
  PROVE  m \in Uses[l] /\ m \notin Unwanted(missed, lost)
<1>1. l \in Lib /\ Installed(l) /\ m \notin Dependents(l, missed, lost)
  BY DEF Unwanted
<1>2. <<m, l>> \in lost
  BY <1>1 DEF Dependents, Declares
<1>3. <<m, l>> \in Opposed /\ <<l, m>> \notin lost
  <2>1. lost \subseteq Opposed /\ \A e \in Opposed : e \in lost <=> (e[1] = e[2] \/ <<e[2], e[1]>> \notin lost)
    BY DEF Cuts
  <2> QED  BY <1>2, <2>1
<1>4. m \in Uses[l]
  BY <1>3 DEF Opposed
<1>5. l \in Dependents(m, missed, lost)
  BY <1>1, <1>3, <1>4 DEF Dependents, Declares
<1> QED  BY <1>4, <1>5 DEF Unwanted

LEMMA ListLoop == ASSUME TypeOK, ListForUninstall PROVE LoopInv'
<1>1. PICK missed, lost : lost \in Cuts /\ todo' = Unwanted(missed, lost)
  BY DEF ListForUninstall
<1>2. pc' = "uninstall" /\ cur' = NoLib /\ UNCHANGED <<entry, asset, failed>>
  BY DEF ListForUninstall, Continue, store
<1>3. ASSUME NEW l \in Lib, l \in todo' PROVE NobodyNeeds(l)'
  <2>1. NameOf[l] \notin WishList
    BY <1>1, <1>3 DEF Unwanted
  <2>2. ASSUME NEW m \in Lib \ {l}, Installed(m)', l \in Uses[m]
        PROVE  m \in Uses[l] /\ m \notin todo' /\ m # cur'
    <3>1. Installed(m)
      BY <1>2, <2>2 DEF Installed
    <3>2. m # cur'
      BY <1>2, LibraryAssumption
    <3> QED  BY <1>1, <1>3, <2>2, <3>1, <3>2, ListedApart
  <2> QED  BY <2>1, <2>2 DEF NobodyNeeds
<1>4. Cuts' = Cuts /\ Unwanted({}, lost)' = Unwanted({}, lost)
  BY <1>2, SameUnwanted
<1>5. \A l \in Unwanted({}, lost)' : Ahead(l)'
  BY <1>1, <1>4, MissedUnwanted DEF Ahead
<1> QED  BY <1>1, <1>2, <1>3, <1>4, <1>5, LibraryAssumption DEF LoopInv, NotNeeded, UnwantedAhead

LEMMA NextLibraryLoop == ASSUME TypeOK, LoopInv, UninstallNext PROVE LoopInv'
<1>1. PICK x \in todo : todo' = todo \ {x} /\ pc' = "del_check" /\ cur' = x /\ ret' = "uninstall"
  BY DEF UninstallNext, Delete
<1>2. pc = "uninstall" /\ UNCHANGED <<entry, asset, failed, removed>>
  BY DEF UninstallNext, store
<1>3. Uninstalling
  BY <1>2 DEF Uninstalling
<1>4. ASSUME NEW l \in Lib, l \in todo' \/ l = cur' PROVE NobodyNeeds(l)'
  <2>1. NobodyNeeds(l)
    BY <1>1, <1>3, <1>4 DEF LoopInv, NotNeeded
  <2> QED  BY <1>1, <1>2, <2>1 DEF NobodyNeeds, Installed
<1>5. ASSUME ~removed' PROVE \E lost \in Cuts' : \A l \in Unwanted({}, lost)' : Ahead(l)'
  <2>1. PICK lost \in Cuts : \A l \in Unwanted({}, lost) : Ahead(l)
    BY <1>2, <1>3, <1>5 DEF LoopInv, UnwantedAhead
  <2>2. Cuts' = Cuts /\ Unwanted({}, lost)' = Unwanted({}, lost)
    BY <1>2, SameUnwanted
  <2>3. \A l \in Unwanted({}, lost) : Ahead(l)'
    BY <1>1, <1>2, <2>1 DEF Ahead, Deleting
  <2> QED  BY <2>2, <2>3
<1> QED  BY <1>4, <1>5 DEF LoopInv, NotNeeded, UnwantedAhead

\* An error of the deletion.
LEMMA ThrowLoop ==
  ASSUME TypeOK, LoopInv, pc \in Deleting, NEW k, Throw(k), UNCHANGED store
  PROVE  LoopInv'
<1>1. CASE ret = "uninstall" /\ k # "s3"
  <2>1. /\ failed' = failed \cup {NameOf[cur]} /\ pc' = "uninstall" /\ cur' = NoLib
        /\ UNCHANGED <<entry, asset, todo, removed>>
    BY <1>1 DEF Throw, Continue, store
  <2>2. Uninstalling /\ cur \in Lib
    BY <1>1 DEF Uninstalling, TypeOK, WithCur
  <2>3. ASSUME NEW l \in Lib, l \in todo' \/ l = cur' PROVE NobodyNeeds(l)'
    <3>1. NobodyNeeds(l)
      BY <2>1, <2>2, <2>3, LibraryAssumption DEF LoopInv, NotNeeded
    <3> QED  BY <2>1, <3>1, LibraryAssumption DEF NobodyNeeds, Installed
  <2>4. ASSUME ~removed' PROVE \E lost \in Cuts' : \A l \in Unwanted({}, lost)' : Ahead(l)'
    <3>1. PICK lost \in Cuts : \A l \in Unwanted({}, lost) : Ahead(l)
      BY <2>1, <2>2, <2>4 DEF LoopInv, UnwantedAhead
    <3>2. Cuts' = Cuts
      BY <2>1, SameCuts DEF Installed
    <3>3. ASSUME NEW l \in Unwanted({}, lost)' PROVE Ahead(l)'
      <4>1. l \in Unwanted({}, lost) /\ l # cur
        BY <2>1, <3>3 DEF Unwanted, Dependents, Declares, Installed
      <4>2. Ahead(l)
        BY <3>1, <4>1
      <4> QED  BY <2>1, <2>2, <4>1, <4>2 DEF Ahead
    <3> QED  BY <3>2, <3>3
  <2> QED  BY <2>3, <2>4 DEF LoopInv, NotNeeded, UnwantedAhead
<1>2. CASE ~(ret = "uninstall" /\ k # "s3")
  BY <1>2, EndLoop DEF Throw, Abort
<1> QED  BY <1>1, <1>2

LEMMA DeleteLoop == ASSUME TypeOK, LoopInv, DelCheck \/ DelPage \/ DelEntry \/ DelFails PROVE LoopInv'
<1>1. CASE DelCheck
  <2>1. CASE Installed(cur)
    <3>1. pc' = "del_files" /\ pc = "del_check" /\ UNCHANGED <<entry, asset, cur, ret, todo, failed, removed>>
      BY <1>1, <2>1 DEF DelCheck, loop, store
    <3>2. NotNeeded'
      BY <3>1 DEF LoopInv, NotNeeded, Uninstalling, NobodyNeeds, Installed, Deleting
    <3>3. ASSUME Uninstalling', ~removed'
          PROVE  \E lost \in Cuts' : \A l \in Unwanted({}, lost)' : Ahead(l)'
      <4>1. PICK lost \in Cuts : \A l \in Unwanted({}, lost) : Ahead(l)
        BY <3>1, <3>3 DEF LoopInv, UnwantedAhead, Uninstalling, Deleting
      <4>2. Cuts' = Cuts /\ Unwanted({}, lost)' = Unwanted({}, lost)
        BY <3>1, SameUnwanted
      <4>3. \A l \in Unwanted({}, lost) : Ahead(l)'
        BY <3>1, <4>1 DEF Ahead, Deleting
      <4> QED  BY <4>2, <4>3
    <3> QED  BY <3>2, <3>3 DEF LoopInv, UnwantedAhead
  <2>2. CASE ~Installed(cur)
    BY <1>1, <2>2, ThrowLoop DEF DelCheck, Deleting
  <2> QED  BY <2>1, <2>2
<1>2. CASE DelPage
  <2>1. /\ UNCHANGED <<entry, pc, cur, ret, todo, failed, removed>> /\ cur \in Lib
        /\ asset' \in [Lib -> SUBSET Asset]
        /\ \A m \in Lib : asset'[m] \subseteq asset[m] /\ (m # cur => asset'[m] = asset[m])
    BY <1>2 DEF DelPage, loop, TypeOK, WithCur, Deleting
  <2>2. NotNeeded'
    BY <2>1 DEF LoopInv, NotNeeded, Uninstalling, NobodyNeeds, Installed
  <2>3. ASSUME Uninstalling', ~removed'
        PROVE  \E lost \in Cuts' : \A l \in Unwanted({}, lost)' : Ahead(l)'
    <3>1. PICK lost \in Cuts : \A l \in Unwanted({}, lost) : Ahead(l)
      BY <2>1, <2>3 DEF LoopInv, UnwantedAhead, Uninstalling
    <3>2. Cuts' = Cuts
      BY <2>1, SameCuts DEF Installed
    <3>3. ASSUME NEW l \in Unwanted({}, lost)' PROVE Ahead(l)'
      <4>1. CASE l \in SoftUses[cur]
        BY <1>2, <2>1, <2>3, <4>1 DEF Uninstalling, Ahead, DelPage
      <4>2. CASE l \notin SoftUses[cur]
        <5>1. Dependents(l, {}, lost)' = Dependents(l, {}, lost)
          BY <2>1, <4>2 DEF Dependents, Declares, Installed
        <5>2. l \in Unwanted({}, lost)
          BY <2>1, <3>3, <5>1 DEF Unwanted, Installed
        <5> QED  BY <2>1, <3>1, <5>2 DEF Ahead
      <4> QED  BY <4>1, <4>2
    <3> QED  BY <3>2, <3>3
  <2> QED  BY <2>2, <2>3 DEF LoopInv, UnwantedAhead
<1>3. CASE DelEntry
  <2>1. CASE ret = "uninstall"
    <3>1. /\ removed' /\ pc' = "uninstall" /\ cur' = NoLib /\ todo' = todo
          /\ \A m \in Lib : Installed(m)' => Installed(m)
      BY <1>3, <2>1 DEF DelEntry, Continue, TypeOK, Installed
    <3>2. Uninstalling
      BY <1>3, <2>1 DEF DelEntry, Uninstalling, Deleting
    <3>3. ASSUME NEW l \in Lib, l \in todo' \/ l = cur' PROVE NobodyNeeds(l)'
      <4>1. NobodyNeeds(l)
        BY <3>1, <3>2, <3>3, LibraryAssumption DEF LoopInv, NotNeeded
      <4> QED  BY <3>1, <4>1, LibraryAssumption DEF NobodyNeeds
    <3> QED  BY <3>1, <3>3 DEF LoopInv, NotNeeded, UnwantedAhead
  <2>2. CASE ret # "uninstall"
    BY <1>3, <2>2, OutsideLoop DEF DelEntry, Continue, TypeOK, Deleting, Callers
  <2> QED  BY <2>1, <2>2
<1>4. CASE DelFails
  BY <1>4, ThrowLoop DEF DelFails, Deleting
<1> QED  BY <1>1, <1>2, <1>3, <1>4

LEMMA NextLoop == TypeOK /\ LoopInv /\ [Next]_vars => LoopInv'
<1> SUFFICES ASSUME TypeOK, LoopInv, [Next]_vars PROVE LoopInv'
  OBVIOUS
<1>1. CASE ListForUninstall \/ UninstallNext
  BY <1>1, ListLoop, NextLibraryLoop
<1>2. CASE DelCheck \/ DelPage \/ DelEntry \/ DelFails
  BY <1>2, DeleteLoop
<1>3. CASE StartRun \/ UninstallAgain \/ UninstallDone
  BY <1>3, OutsideLoop DEF StartRun, UninstallAgain, UninstallDone, Continue, Deleting
<1>4. CASE InstallNext \/ InstallCleared \/ InstallCopied \/ PackageDone \/ InstallDone
  BY <1>4, OutsideLoop
  DEF InstallNext, InstallCleared, InstallCopied, PackageDone, InstallDone, Continue, Deleting
<1>5. CASE InstallStart \/ InstallCopy \/ InstallFails
  BY <1>5, OutsideLoop DEF InstallStart, InstallCopy, InstallFails, Continue, Delete, Deleting
<1>6. CASE SyncList \/ SyncNext \/ SyncAdd \/ SyncUpdate \/ SyncUpToDate
  BY <1>6, OutsideLoop
  DEF SyncList, SyncNext, SyncAdd, SyncUpdate, SyncUpToDate, Continue, Delete, Deleting
<1>7. CASE UpdateChecked \/ SyncRestore \/ LostDeleted \/ SyncDone \/ CheckList \/ CheckNext
  BY <1>7, OutsideLoop
  DEF UpdateChecked, SyncRestore, LostDeleted, SyncDone, CheckList, CheckNext, Continue, Delete, Deleting
<1>8. CASE SyncRefuse \/ RunDone \/ CallFails \/ Kill
  BY <1>8, EndLoop DEF SyncRefuse, RunDone, CallFails, Kill, Abort
<1>9. CASE Upload
  BY <1>9, OutsideLoop DEF Upload, Deleting
<1>10. CASE UNCHANGED vars
  <2>1. NotNeeded'
    BY <1>10 DEF vars, LoopInv, NotNeeded, Uninstalling, NobodyNeeds, Installed
  <2>2. ASSUME Uninstalling', ~removed'
        PROVE  \E lost \in Cuts' : \A l \in Unwanted({}, lost)' : Ahead(l)'
    <3>1. PICK lost \in Cuts : \A l \in Unwanted({}, lost) : Ahead(l)
      BY <1>10, <2>2 DEF vars, LoopInv, UnwantedAhead, Uninstalling
    <3>2. Cuts' = Cuts /\ Unwanted({}, lost)' = Unwanted({}, lost)
      BY <1>10, SameUnwanted DEF vars
    <3>3. \A l \in Unwanted({}, lost) : Ahead(l)'
      BY <1>10, <3>1 DEF vars, Ahead
    <3> QED  BY <3>2, <3>3
  <2> QED  BY <2>1, <2>2 DEF LoopInv, UnwantedAhead
<1> QED
  BY <1>1, <1>2, <1>3, <1>4, <1>5, <1>6, <1>7, <1>8, <1>9, <1>10 DEF Next, JobStep, Mishap

\* The step that takes an entry away on behalf of the uninstall loop.
LEMMA NeededStep ==
  ASSUME TypeOK, LoopInv, [Next]_vars, NEW l \in Lib,
         ret = "uninstall", entry[l] # 0, entry'[l] = 0
  PROVE  /\ NameOf[l] \notin WishList
         /\ \A m \in Lib \ {l} : Installed(m) /\ l \in Uses[m] => m \in Uses[l] /\ m \notin todo
<1>1. pc \in Deleting
  BY DEF TypeOK
<1>2. DelEntry
  <2>1. entry' # entry
    OBVIOUS
  <2> QED
    BY <1>1, <2>1
    DEF Next, JobStep, Mishap, vars, store, Deleting, StartRun, ListForUninstall, UninstallNext,
        UninstallAgain, UninstallDone, DelCheck, DelPage, InstallNext, InstallStart,
        InstallCleared, InstallCopy, InstallCopied, PackageDone, InstallDone, SyncList, SyncNext,
        SyncRefuse, SyncAdd, SyncUpdate, SyncUpToDate, UpdateChecked, SyncRestore, LostDeleted,
        SyncDone, CheckList, CheckNext, RunDone, DelFails, InstallFails, CallFails, Kill, Upload
<1>3. l = cur
  BY <1>2 DEF DelEntry, TypeOK
<1>4. NobodyNeeds(l)
  BY <1>1, <1>3 DEF LoopInv, NotNeeded, Uninstalling
<1> QED  BY <1>4 DEF NobodyNeeds

\* Whatever the dependencies, rings included, the uninstall loop removes no library of
\* the wish list, and one that another installed library declares only when it declares
\* that one itself and that one is not on the list: of such a pair one stays.
THEOREM NeededLibrariesStay == Spec => NeededStays
<1>1. TypeOK /\ LoopInv /\ [Next]_vars =>
        [\A l \in Lib : ret = "uninstall" /\ entry[l] # 0 /\ entry'[l] = 0 =>
           /\ NameOf[l] \notin WishList
           /\ \A m \in Lib \ {l} : Installed(m) /\ l \in Uses[m] => m \in Uses[l] /\ m \notin todo]_vars
  BY NeededStep
<1> QED  BY <1>1, InitLoop, NextLoop, TypeCorrect, PTL DEF Spec, NeededStays

\* The step that leaves the loop.
LEMMA ChainStep ==
  ASSUME TypeOK, LoopInv, [Next]_vars, pc = "uninstall", pc' = "install",
         NEW S \in SUBSET Lib, Unneeded(S)
  PROVE  \E l \in S, m \in Lib : NameOf[m] \in failed /\ (m = l \/ l \in SoftUses[m])
<1>1. todo = {} /\ ~removed
  BY DEF Next, JobStep, Mishap, vars, store, Continue, Delete, Abort, End, UncaughtAt, StartRun, ListForUninstall,
         UninstallNext, UninstallAgain, UninstallDone, DelCheck, DelPage, DelEntry, InstallNext,
         InstallStart, InstallCleared, InstallCopy, InstallCopied, PackageDone, InstallDone,
         SyncList, SyncNext, SyncRefuse, SyncAdd, SyncUpdate, SyncUpToDate, UpdateChecked,
         SyncRestore, LostDeleted, SyncDone, CheckList, CheckNext, RunDone, DelFails,
         InstallFails, CallFails, Kill, Upload, Deleting
<1>2. PICK lost \in Cuts : \A l \in Unwanted({}, lost) : Ahead(l)
  BY <1>1 DEF LoopInv, UnwantedAhead, Uninstalling
<1>3. S # {} /\ \A l \in S : Installed(l)
  BY DEF Unneeded
<1>4. PICK l \in S : \A m \in S : ~Declares(m, l, lost)
  BY <1>2, <1>3 DEF Cuts
<1>5. Dependents(l, {}, lost) = {}
  BY <1>4 DEF Dependents, Declares, Unneeded
<1>6. CASE NameOf[l] \in failed
  BY <1>6
<1>7. CASE NameOf[l] \notin failed
  <2>1. l \in Unwanted({}, lost)
    BY <1>3, <1>5, <1>7 DEF Unwanted, Unneeded
  <2> QED  BY <1>1, <1>2, <2>1 DEF Ahead, Deleting
<1> QED  BY <1>6, <1>7

\* When the loop stops, whatever chains and mutual dependencies there were, libraries
\* nobody wants are left only where an uninstallation failed: of one of them, or of a
\* library whose semantics.json offered one of them.
THEOREM ChainsGone == Spec => ChainsUninstalled
<1>1. TypeOK /\ LoopInv /\ [Next]_vars =>
        [pc = "uninstall" /\ pc' = "install" =>
           \A S \in SUBSET Lib : Unneeded(S) =>
             \E l \in S, m \in Lib : NameOf[m] \in failed /\ (m = l \/ l \in SoftUses[m])]_vars
  BY ChainStep
<1> QED  BY <1>1, InitLoop, NextLoop, TypeCorrect, PTL DEF Spec, ChainsUninstalled

(***************************************************************************)
(* A run ends: each of its steps takes away something of which there is    *)
(* only a finite amount.  What a run has still to do is written as nested  *)
(* pairs, each of which decreases when its first part does, or when the    *)
(* first part stays and the second decreases.                              *)
(***************************************************************************)
\* The phases of a run; each begins when the one before it is over.
Phase ==
  CASE pc = "uninstall_list" \/ Uninstalling -> 6
    [] pc \in {"install", "package", "clear", "copy"} \/ (pc \in Deleting /\ ret = "install") -> 5
    [] pc = "sync_list" -> 4
    [] pc \in {"sync", "sync_read", "restore", "lost", "updated"} \/ (pc \in Deleting /\ ret = "sync") -> 3
    [] pc = "check_list" -> 2
    [] Checking -> 1
    [] OTHER -> 0

\* What the rounds of a phase use up: what is installed, or the wishes not looked at.
Fuel == CASE Phase = 6 -> {l \in Lib : Installed(l)} [] Phase = 5 -> wishes [] OTHER -> {}

\* A round of uninstalling that has removed something will be followed by another.
Rounds == CASE Phase # 6 -> 0 [] pc = "uninstall_list" -> 1 [] OTHER -> IF removed THEN 2 ELSE 0

\* The libraries the current loop has still to visit.
Waiting == IF Phase = 5 THEN pkg ELSE todo

\* The calls for one library, in their order, then the loop it belongs to.
Position ==
  CASE pc \in {"clear", "sync_read", "restore"} -> 6
    [] pc \in {"copy", "updated", "lost"}       -> 5
    [] pc = "del_check"                         -> 4
    [] pc = "del_files"                         -> 3
    [] pc = "package"                           -> 2
    [] OTHER                                    -> 1

\* What is left for the current call: files to remove or to copy, and library.json.
FilesLeft ==
  CASE pc \in {"del_files", "clear", "lost"} -> asset[cur]
    [] pc = "copy" -> Content[cur] \ asset[cur]
    [] OTHER -> {}
JsonLeft == IF pc \in {"del_files", "clear", "lost"} /\ json[cur] # NoJson THEN 1 ELSE 0

\* The work of the current call, of the current library, of its loop, of the rounds of
\* the loop, of the phase, and of the run.
CallWork    == <<FilesLeft, JsonLeft>>
LibraryWork == <<Position, CallWork>>
LoopWork    == <<Waiting, LibraryWork>>
RoundWork   == <<Rounds, LoopWork>>
PhaseWork   == <<Fuel, RoundWork>>
RunWork     == <<Phase, PhaseWork>>

CallMeasures    == FiniteSubsetsOf(Asset) \X Nat
LibraryMeasures == Nat \X CallMeasures
LoopMeasures    == FiniteSubsetsOf(Lib) \X LibraryMeasures
RoundMeasures   == Nat \X LoopMeasures
PhaseMeasures   == FiniteSubsetsOf(Lib \cup WishList) \X RoundMeasures
RunMeasures     == Nat \X PhaseMeasures

\* Numbers are ordered by size, finite sets by inclusion.
Below == {ss \in Nat \X Nat : ss[1] < ss[2]}

CallOrder    == LexPairOrdering(StrictSubsetOrdering(Asset), Below, FiniteSubsetsOf(Asset), Nat)
LibraryOrder == LexPairOrdering(Below, CallOrder, Nat, CallMeasures)
LoopOrder    == LexPairOrdering(StrictSubsetOrdering(Lib), LibraryOrder, FiniteSubsetsOf(Lib), LibraryMeasures)
RoundOrder   == LexPairOrdering(Below, LoopOrder, Nat, LoopMeasures)
PhaseOrder   == LexPairOrdering(StrictSubsetOrdering(Lib \cup WishList), RoundOrder,
                                FiniteSubsetsOf(Lib \cup WishList), RoundMeasures)
RunOrder     == LexPairOrdering(Below, PhaseOrder, Nat, PhaseMeasures)

LEMMA BelowWellFounded == IsWellFoundedOn(Below, Nat)
<1>1. OpToRel(<, Nat) = Below
  BY DEF OpToRel, Below
<1> QED  BY <1>1, NatLessThanWellFounded

LEMMA RunOrderWellFounded == IsWellFoundedOn(RunOrder, RunMeasures)
<1>1. IsWellFoundedOn(CallOrder, CallMeasures)
  BY WFLexPairOrdering, BelowWellFounded, FS_StrictSubsetOrderingWellFounded, Zenon DEF CallOrder, CallMeasures
<1>2. IsWellFoundedOn(LibraryOrder, LibraryMeasures)
  BY <1>1, WFLexPairOrdering, BelowWellFounded, Zenon DEF LibraryOrder, LibraryMeasures
<1>3. IsWellFoundedOn(LoopOrder, LoopMeasures)
  BY <1>2, WFLexPairOrdering, FS_StrictSubsetOrderingWellFounded, Zenon DEF LoopOrder, LoopMeasures
<1>4. IsWellFoundedOn(RoundOrder, RoundMeasures)
  BY <1>3, WFLexPairOrdering, BelowWellFounded, Zenon DEF RoundOrder, RoundMeasures
<1>5. IsWellFoundedOn(PhaseOrder, PhaseMeasures)
  BY <1>4, WFLexPairOrdering, FS_StrictSubsetOrderingWellFounded, Zenon DEF PhaseOrder, PhaseMeasures
<1> QED
  BY <1>5, WFLexPairOrdering, BelowWellFounded, Zenon DEF RunOrder, RunMeasures

LEMMA LexLess ==
  ASSUME NEW R, NEW S, NEW Q, NEW T, NEW a \in S, NEW x \in S, NEW b \in T, NEW y \in T,
         <<x, a>> \in R \/ (x = a /\ <<y, b>> \in Q)
  PROVE  <<<<x, y>>, <<a, b>>>> \in LexPairOrdering(R, Q, S, T)
<1>1. <<x, y>> \in S \X T /\ <<a, b>> \in S \X T
  OBVIOUS
<1> QED  BY <1>1 DEF LexPairOrdering

\* What the parts of the work are.
WorkTypes ==
  /\ Phase \in Nat /\ Rounds \in Nat /\ Position \in Nat /\ JsonLeft \in Nat
  /\ Fuel \in FiniteSubsetsOf(Lib \cup WishList)
  /\ Waiting \in FiniteSubsetsOf(Lib)
  /\ FilesLeft \in FiniteSubsetsOf(Asset)

Finiteness == IsFiniteSet(Lib) /\ IsFiniteSet(WishList) /\ IsFiniteSet(Asset)

LEMMA WorkTyped ==
  ASSUME TypeOK, Finiteness
  PROVE  WorkTypes
<1>1. Phase \in Nat /\ Rounds \in Nat /\ Position \in Nat /\ JsonLeft \in Nat
  <2>1. Phase \in Nat
    BY DEF Phase
  <2>2. Rounds \in Nat
    BY DEF Rounds
  <2>3. Position \in Nat
    BY DEF Position
  <2> QED  BY <2>1, <2>2, <2>3 DEF JsonLeft
<1>2. Fuel \subseteq Lib \cup WishList
  <2>1. CASE Phase = 6
    BY <2>1 DEF Fuel
  <2>2. CASE Phase = 5
    BY <2>2 DEF Fuel, TypeOK
  <2>3. CASE Phase # 6 /\ Phase # 5
    BY <2>3 DEF Fuel
  <2> QED  BY <2>1, <2>2, <2>3
<1>3. Waiting \subseteq Lib
  BY DEF TypeOK, Waiting
<1>4. FilesLeft \subseteq Asset
  BY LibraryAssumption DEF TypeOK, FilesLeft, WithCur, Deleting
<1>5. IsFiniteSet(Lib \cup WishList)
  BY FS_Union DEF Finiteness
<1>6. IsFiniteSet(Fuel) /\ IsFiniteSet(Waiting) /\ IsFiniteSet(FilesLeft)
  BY <1>2, <1>3, <1>4, <1>5, FS_Subset DEF Finiteness
<1> QED  BY <1>1, <1>2, <1>3, <1>4, <1>6 DEF WorkTypes, FiniteSubsetsOf

Measured ==
  /\ CallWork \in CallMeasures /\ LibraryWork \in LibraryMeasures
  /\ LoopWork \in LoopMeasures /\ RoundWork \in RoundMeasures
  /\ PhaseWork \in PhaseMeasures /\ RunWork \in RunMeasures

LEMMA WorkMeasured ==
  ASSUME WorkTypes
  PROVE  Measured
<1>1. CallWork \in CallMeasures
  BY DEF WorkTypes, CallWork, CallMeasures
<1>2. LibraryWork \in LibraryMeasures
  BY <1>1 DEF WorkTypes, LibraryWork, LibraryMeasures
<1>3. LoopWork \in LoopMeasures
  BY <1>2 DEF WorkTypes, LoopWork, LoopMeasures
<1>4. RoundWork \in RoundMeasures
  BY <1>3 DEF WorkTypes, RoundWork, RoundMeasures
<1>5. PhaseWork \in PhaseMeasures
  BY <1>4 DEF WorkTypes, PhaseWork, PhaseMeasures
<1> QED  BY <1>1, <1>2, <1>3, <1>4, <1>5 DEF WorkTypes, Measured, RunWork, RunMeasures

\* The ways in which a step can leave less to do.
Fewer(A, B) == A \subseteq B /\ A # B

LessLeft ==
  \/ Phase' < Phase
  \/ /\ Phase' = Phase
     /\ \/ Fewer(Fuel', Fuel)
        \/ /\ Fuel' = Fuel
           /\ \/ Rounds' < Rounds
              \/ /\ Rounds' = Rounds
                 /\ \/ Fewer(Waiting', Waiting)
                    \/ Waiting' = Waiting /\ Position' < Position
                    \/ /\ Waiting' = Waiting /\ Position' = Position
                       /\ \/ Fewer(FilesLeft', FilesLeft)
                          \/ FilesLeft' = FilesLeft /\ JsonLeft' < JsonLeft

LEMMA LessIsLess ==
  ASSUME WorkTypes, WorkTypes', Measured, Measured', LessLeft
  PROVE  <<RunWork', RunWork>> \in RunOrder
<1>s. ASSUME NEW S, NEW A \in FiniteSubsetsOf(S), NEW B, Fewer(B, A)
      PROVE  <<B, A>> \in StrictSubsetOrdering(S)
  BY <1>s DEF Fewer, FiniteSubsetsOf, StrictSubsetOrdering
<1>n. ASSUME NEW m \in Nat, NEW n \in Nat, m < n
      PROVE  <<m, n>> \in Below
  BY <1>n DEF Below
<1>1. ASSUME Fewer(FilesLeft', FilesLeft) \/ (FilesLeft' = FilesLeft /\ JsonLeft' < JsonLeft)
      PROVE  <<CallWork', CallWork>> \in CallOrder
  <2>1. <<FilesLeft', FilesLeft>> \in StrictSubsetOrdering(Asset)
        \/ (FilesLeft' = FilesLeft /\ <<JsonLeft', JsonLeft>> \in Below)
    BY <1>1, <1>s, <1>n DEF WorkTypes
  <2> QED  BY <2>1, LexLess DEF WorkTypes, CallWork, CallOrder
<1>2. ASSUME Position' < Position \/ (Position' = Position /\ <<CallWork', CallWork>> \in CallOrder)
      PROVE  <<LibraryWork', LibraryWork>> \in LibraryOrder
  <2>1. <<Position', Position>> \in Below
        \/ (Position' = Position /\ <<CallWork', CallWork>> \in CallOrder)
    BY <1>2, <1>n DEF WorkTypes
  <2> QED  BY <2>1, LexLess DEF WorkTypes, Measured, LibraryWork, LibraryOrder
<1>3. ASSUME Fewer(Waiting', Waiting) \/ (Waiting' = Waiting /\ <<LibraryWork', LibraryWork>> \in LibraryOrder)
      PROVE  <<LoopWork', LoopWork>> \in LoopOrder
  <2>1. <<Waiting', Waiting>> \in StrictSubsetOrdering(Lib)
        \/ (Waiting' = Waiting /\ <<LibraryWork', LibraryWork>> \in LibraryOrder)
    BY <1>3, <1>s DEF WorkTypes
  <2> QED  BY <2>1, LexLess DEF WorkTypes, Measured, LoopWork, LoopOrder
<1>4. ASSUME Rounds' < Rounds \/ (Rounds' = Rounds /\ <<LoopWork', LoopWork>> \in LoopOrder)
      PROVE  <<RoundWork', RoundWork>> \in RoundOrder
  <2>1. <<Rounds', Rounds>> \in Below
        \/ (Rounds' = Rounds /\ <<LoopWork', LoopWork>> \in LoopOrder)
    BY <1>4, <1>n DEF WorkTypes
  <2> QED  BY <2>1, LexLess DEF WorkTypes, Measured, RoundWork, RoundOrder
<1>5. ASSUME Fewer(Fuel', Fuel) \/ (Fuel' = Fuel /\ <<RoundWork', RoundWork>> \in RoundOrder)
      PROVE  <<PhaseWork', PhaseWork>> \in PhaseOrder
  <2>1. <<Fuel', Fuel>> \in StrictSubsetOrdering(Lib \cup WishList)
        \/ (Fuel' = Fuel /\ <<RoundWork', RoundWork>> \in RoundOrder)
    BY <1>5, <1>s DEF WorkTypes
  <2> QED  BY <2>1, LexLess DEF WorkTypes, Measured, PhaseWork, PhaseOrder
<1>6. ASSUME Phase' < Phase \/ (Phase' = Phase /\ <<PhaseWork', PhaseWork>> \in PhaseOrder)
      PROVE  <<RunWork', RunWork>> \in RunOrder
  <2>1. <<Phase', Phase>> \in Below
        \/ (Phase' = Phase /\ <<PhaseWork', PhaseWork>> \in PhaseOrder)
    BY <1>6, <1>n DEF WorkTypes
  <2> QED  BY <2>1, LexLess DEF WorkTypes, Measured, RunWork, RunOrder
<1> QED  BY <1>1, <1>2, <1>3, <1>4, <1>5, <1>6 DEF LessLeft

\* The places of the run.
Installing == pc \in {"install", "package", "clear", "copy"} \/ (pc \in Deleting /\ ret = "install")
InSync == pc \in {"sync", "sync_read", "restore", "lost", "updated"} \/ (pc \in Deleting /\ ret = "sync")

Located ==
  /\ pc = "uninstall_list" => Phase = 6 /\ Rounds = 1
  /\ Uninstalling => Phase = 6 /\ Rounds = IF removed THEN 2 ELSE 0
  /\ Installing => Phase = 5 /\ Fuel = wishes /\ Rounds = 0 /\ Waiting = pkg
  /\ pc = "sync_list" => Phase = 4
  /\ InSync => Phase = 3 /\ Fuel = {} /\ Rounds = 0 /\ Waiting = todo
  /\ pc = "check_list" => Phase = 2
  /\ Checking => Phase = 1 /\ Fuel = {} /\ Rounds = 0 /\ Waiting = todo
  /\ pc = "idle" <=> Phase = 0
  /\ Phase = 6 => Fuel = {l \in Lib : Installed(l)} /\ Waiting = todo
  /\ Phase \in 0..6
  /\ pc \in Deleting => Uninstalling \/ Installing \/ InSync \/ Checking

LEMMA Places == TypeOK => Located
<1> SUFFICES ASSUME TypeOK PROVE Located
  OBVIOUS
<1>1. pc \in Deleting => ret \in Callers
  BY DEF TypeOK
<1>2. /\ pc = "uninstall_list" => Phase = 6
      /\ Uninstalling => Phase = 6
      /\ Installing => Phase = 5
      /\ pc = "sync_list" => Phase = 4
      /\ InSync => Phase = 3
      /\ pc = "check_list" => Phase = 2
      /\ Checking => Phase = 1
      /\ pc = "idle" <=> Phase = 0
      /\ Phase \in 0..6
  <2>1. pc = "uninstall_list" \/ Uninstalling => Phase = 6
    BY DEF Phase, Uninstalling, Installing, InSync, Checking, Deleting
  <2>2. Installing => Phase = 5
    BY DEF Phase, Uninstalling, Installing, InSync, Checking, Deleting
  <2>3. pc = "sync_list" => Phase = 4
    BY DEF Phase, Uninstalling, Installing, InSync, Checking, Deleting
  <2>4. InSync => Phase = 3
    BY DEF Phase, Uninstalling, Installing, InSync, Checking, Deleting
  <2>5. pc = "check_list" => Phase = 2
    BY DEF Phase, Uninstalling, Installing, InSync, Checking, Deleting
  <2>6. Checking => Phase = 1
    BY DEF Phase, Uninstalling, Installing, InSync, Checking, Deleting
  <2>7. pc = "idle" => Phase = 0
    BY DEF Phase, Uninstalling, Installing, InSync, Checking, Deleting
  <2>8. Phase \in 0..6
    BY DEF Phase
  <2>9. pc # "idle" =>
          \/ pc \in {"uninstall_list", "sync_list", "check_list"}
          \/ Uninstalling \/ Installing \/ InSync \/ Checking
    BY <1>1 DEF TypeOK, Steps, WithCur, Deleting, Callers, Uninstalling, Installing, InSync, Checking
  <2> QED  BY <2>1, <2>2, <2>3, <2>4, <2>5, <2>6, <2>7, <2>8, <2>9
<1>3. pc \in Deleting => Uninstalling \/ Installing \/ InSync \/ Checking
  BY <1>1 DEF Uninstalling, Installing, InSync, Checking, Callers
<1>4. Phase = 6 => Fuel = {l \in Lib : Installed(l)} /\ Waiting = todo
  BY DEF Fuel, Waiting
<1>5. Phase # 6 => Rounds = 0
  BY <1>2 DEF Rounds
<1>6. Phase = 5 => Fuel = wishes /\ Waiting = pkg
  BY DEF Fuel, Waiting
<1>7. Phase \in {1, 3} => Fuel = {} /\ Waiting = todo
  BY DEF Fuel, Waiting
<1>8. Phase = 6 => Rounds = IF pc = "uninstall_list" THEN 1 ELSE IF removed THEN 2 ELSE 0
  BY DEF Rounds
<1> QED
  BY <1>2, <1>3, <1>4, <1>5, <1>6, <1>7, <1>8 DEF Located, Uninstalling, Deleting

LEMMA StepAdvances ==
  ASSUME TypeOK, TypeOK', Located, Located', EntryStays, Next, pc # "idle"
  PROVE  LessLeft
<1>p. Phase \in 0..6 /\ Phase' \in 0..6 /\ Phase # 0
  BY DEF Located
<1>i. ASSUME pc' = "idle"
      PROVE  LessLeft
  BY <1>i, <1>p DEF Located, LessLeft
<1>1. CASE ListForUninstall
  <2>1. pc = "uninstall_list" /\ pc' = "uninstall" /\ removed' = FALSE /\ entry' = entry
    BY <1>1 DEF ListForUninstall, Continue, store
  <2>2. Phase = 6 /\ Phase' = 6 /\ Rounds = 1 /\ Rounds' = 0 /\ Fuel' = Fuel
    BY <2>1 DEF Located, Uninstalling, Installed
  <2> QED  BY <2>2 DEF LessLeft
<1>2. CASE UninstallNext
  <2>1. PICK l \in todo : todo' = todo \ {l} /\ Delete(l, "uninstall")
    BY <1>2 DEF UninstallNext
  <2>2. pc = "uninstall" /\ pc' = "del_check" /\ ret' = "uninstall" /\ UNCHANGED <<entry, removed>>
    BY <1>2, <2>1 DEF UninstallNext, Delete, store
  <2>3. Uninstalling /\ Uninstalling'
    BY <2>2 DEF Uninstalling, Deleting
  <2>4. Phase = 6 /\ Phase' = 6 /\ Rounds' = Rounds /\ Fuel' = Fuel /\ Waiting = todo /\ Waiting' = todo'
    BY <2>2, <2>3 DEF Located, Installed
  <2> QED  BY <2>1, <2>4 DEF LessLeft, Fewer
<1>3. CASE UninstallAgain
  <2>1. pc = "uninstall" /\ pc' = "uninstall_list" /\ removed /\ entry' = entry
    BY <1>3 DEF UninstallAgain, Continue, store
  <2>2. Phase = 6 /\ Phase' = 6 /\ Rounds = 2 /\ Rounds' = 1 /\ Fuel' = Fuel
    BY <2>1 DEF Located, Uninstalling, Installed
  <2> QED  BY <2>2 DEF LessLeft
<1>4. CASE UninstallDone
  <2>1. pc = "uninstall" /\ pc' = "install"
    BY <1>4 DEF UninstallDone, Continue
  <2> QED  BY <2>1 DEF Located, LessLeft, Uninstalling, Installing
<1>5. CASE InstallDone
  <2>1. pc = "install" /\ pc' = "sync_list"
    BY <1>5 DEF InstallDone, Continue
  <2> QED  BY <2>1 DEF Located, LessLeft, Installing
<1>6. CASE SyncList
  <2>1. pc = "sync_list" /\ pc' = "sync"
    BY <1>6 DEF SyncList, Continue
  <2> QED  BY <2>1 DEF Located, LessLeft, InSync
<1>7. CASE SyncDone
  <2>1. pc = "sync" /\ pc' = "check_list"
    BY <1>7 DEF SyncDone, Continue
  <2> QED  BY <2>1 DEF Located, LessLeft, InSync
<1>8. CASE CheckList
  <2>1. pc = "check_list" /\ pc' = "check"
    BY <1>8 DEF CheckList, Continue
  <2> QED  BY <2>1 DEF Located, LessLeft, Checking
<1>9. CASE SyncRefuse \/ RunDone \/ CallFails \/ Kill
  BY <1>9, <1>i DEF SyncRefuse, RunDone, CallFails, Kill, Abort, End
\* A deletion leaves the loop it belongs to, and how far that is, as they are.
<1>d. ASSUME pc \in Deleting, pc' \in Deleting \/ pc' = ret, pc' \in Deleting => ret' = ret,
             UNCHANGED <<wishes, pkg, todo, removed, entry>>
      PROVE  Phase' = Phase /\ Fuel' = Fuel /\ Rounds' = Rounds /\ Waiting' = Waiting
  <2>1. CASE ret = "uninstall"
    <3>1. Uninstalling /\ Uninstalling'
      BY <1>d, <2>1 DEF Uninstalling
    <3> QED  BY <1>d, <3>1 DEF Located, Installed
  <2>2. CASE ret = "install"
    <3>1. Installing /\ Installing'
      BY <1>d, <2>2 DEF Installing
    <3> QED  BY <1>d, <3>1 DEF Located
  <2>3. CASE ret = "sync"
    <3>1. InSync /\ InSync'
      BY <1>d, <2>3 DEF InSync
    <3> QED  BY <1>d, <3>1 DEF Located
  <2>4. CASE ret = "check"
    <3>1. Checking /\ Checking'
      BY <1>d, <2>4 DEF Checking
    <3> QED  BY <1>d, <3>1 DEF Located
  <2> QED  BY <1>d, <2>1, <2>2, <2>3, <2>4 DEF TypeOK, Callers
<1>10. CASE DelCheck
  <2>1. CASE Installed(cur)
    <3>1. pc = "del_check" /\ pc' = "del_files" /\ UNCHANGED <<ret, wishes, pkg, todo, removed, entry>>
      BY <1>10, <2>1 DEF DelCheck, loop, store
    <3>2. Position = 4 /\ Position' = 3
      BY <3>1 DEF Position
    <3> QED  BY <1>d, <3>1, <3>2 DEF LessLeft, Deleting
  <2>2. CASE ~Installed(cur)
    <3>1. pc = "del_check" /\ Throw("not_found") /\ entry' = entry
      BY <1>10, <2>2 DEF DelCheck, store
    <3>2. CASE ret = "uninstall"
      <4>1. pc' = "uninstall" /\ UNCHANGED <<wishes, pkg, todo, removed>>
        BY <3>1, <3>2 DEF Throw, Continue
      <4>2. Position = 4 /\ Position' = 1
        BY <3>1, <4>1 DEF Position
      <4> QED  BY <1>d, <3>1, <3>2, <4>1, <4>2 DEF LessLeft, Deleting
    <3>3. CASE ret # "uninstall"
      BY <1>i, <3>1, <3>3 DEF Throw, Abort, End
    <3> QED  BY <3>2, <3>3
  <2> QED  BY <2>1, <2>2
<1>11. CASE DelFails
  <2>1. PICK k \in {"s3", "db"} : pc \in Deleting /\ Throw(k) /\ entry' = entry
    BY <1>11 DEF DelFails, Deleting, store
  <2>2. CASE ret = "uninstall" /\ k # "s3"
    <3>1. pc' = "uninstall" /\ UNCHANGED <<wishes, pkg, todo, removed>>
      BY <2>1, <2>2 DEF Throw, Continue
    <3>2. Position \in {3, 4} /\ Position' = 1
      BY <2>1, <3>1 DEF Position, Deleting
    <3> QED  BY <1>d, <2>1, <2>2, <3>1, <3>2 DEF LessLeft, Deleting
  <2>3. CASE ~(ret = "uninstall" /\ k # "s3")
    BY <1>i, <2>1, <2>3 DEF Throw, Abort, End
  <2> QED  BY <2>2, <2>3
<1>12. CASE DelEntry
  <2>1. /\ pc = "del_files" /\ pc' = ret /\ UNCHANGED <<wishes, pkg, todo>>
        /\ entry' = [entry EXCEPT ![cur] = 0] /\ removed' = (removed \/ ret = "uninstall")
    BY <1>12 DEF DelEntry, Continue
  <2>2. cur \in Lib /\ entry \in [Lib -> 0..MaxPatch] /\ Installed(cur) /\ ret \in Callers
    BY <2>1 DEF TypeOK, WithCur, Deleting, EntryStays
  <2>3. Position = 3 /\ Position' = 1
    BY <2>1, <2>2 DEF Position, Callers
  <2>4. CASE ret = "uninstall"
    <3>1. Uninstalling /\ Uninstalling'
      BY <2>1, <2>4 DEF Uninstalling, Deleting
    <3>2. Phase = 6 /\ Phase' = 6 /\ Fuel = {l \in Lib : entry[l] # 0} /\ Fuel' = {l \in Lib : entry'[l] # 0}
      BY <3>1 DEF Located, Installed
    <3>3. Fewer(Fuel', Fuel)
      <4>1. \A l \in Lib : entry'[l] # 0 => entry[l] # 0
        BY <2>1, <2>2
      <4>2. entry[cur] # 0 /\ entry'[cur] = 0
        BY <2>1, <2>2 DEF Installed
      <4>3. cur \in Fuel /\ cur \notin Fuel'
        BY <2>2, <3>2, <4>2
      <4> QED  BY <3>2, <4>1, <4>3 DEF Fewer
    <3> QED  BY <3>2, <3>3 DEF LessLeft
  <2>5. CASE ret = "install"
    <3>1. Installing /\ Installing'
      BY <2>1, <2>5 DEF Installing, Deleting
    <3> QED  BY <2>1, <2>3, <3>1 DEF Located, LessLeft
  <2>6. CASE ret = "sync"
    <3>1. InSync /\ InSync'
      BY <2>1, <2>6 DEF InSync, Deleting
    <3> QED  BY <2>1, <2>3, <3>1 DEF Located, LessLeft
  <2>7. CASE ret = "check"
    <3>1. Checking /\ Checking'
      BY <2>1, <2>7 DEF Checking, Deleting
    <3> QED  BY <2>1, <2>3, <3>1 DEF Located, LessLeft
  <2> QED  BY <2>2, <2>4, <2>5, <2>6, <2>7 DEF Callers
<1>13. CASE DelPage
  <2>1. PICK S \in SUBSET asset[cur], j \in {NoJson, json[cur]} :
          /\ S # {} \/ j # json[cur]
          /\ asset' = [asset EXCEPT ![cur] = @ \ S]
          /\ json' = [json EXCEPT ![cur] = j]
    BY <1>13 DEF DelPage
  <2>2. pc \in {"del_files", "clear", "lost"} /\ UNCHANGED <<entry, pc, cur, ret, wishes, pkg, todo, removed>>
    BY <1>13 DEF DelPage, loop
  <2>3. cur \in Lib /\ asset \in [Lib -> SUBSET Asset] /\ json \in [Lib -> {BadJson, NoJson} \cup 1..MaxPatch]
    BY <2>2 DEF TypeOK, WithCur, Deleting
  <2>4. asset'[cur] = asset[cur] \ S /\ json'[cur] = j
    BY <2>1, <2>3
  <2>5. FilesLeft = asset[cur] /\ FilesLeft' = asset'[cur] /\ Position' = Position
    BY <2>2 DEF FilesLeft, Position
  <2>6. UNCHANGED <<Phase, Fuel, Rounds, Waiting>>
    <3>1. UNCHANGED Phase
      BY <2>2 DEF Phase, Uninstalling, Checking
    <3> QED  BY <2>2, <3>1 DEF Fuel, Rounds, Waiting, Installed
  <2>7. CASE S # {}
    <3>1. Fewer(FilesLeft', FilesLeft)
      BY <2>1, <2>4, <2>5, <2>7 DEF Fewer
    <3> QED  BY <2>5, <2>6, <3>1 DEF LessLeft
  <2>8. CASE S = {}
    <3>1. j = 0 /\ json[cur] # 0 /\ FilesLeft' = FilesLeft
      BY <2>1, <2>4, <2>5, <2>8
    <3>2. JsonLeft = 1 /\ JsonLeft' = 0
      BY <2>2, <2>4, <3>1 DEF JsonLeft
    <3> QED  BY <2>5, <2>6, <3>1, <3>2 DEF LessLeft
  <2> QED  BY <2>7, <2>8
<1>14. CASE InstallNext
  <2>1. PICK n \in wishes : /\ wishes' = wishes \ {n} /\ pc = "install" /\ pc' \in {"package", "install"}
    BY <1>14 DEF InstallNext, Continue
  <2>2. Phase = 5 /\ Phase' = 5 /\ Fuel = wishes /\ Fuel' = wishes'
    BY <2>1 DEF Located, Installing
  <2> QED  BY <2>1, <2>2 DEF LessLeft, Fewer
<1>15. CASE InstallStart
  <2>1. PICK x \in pkg : pkg' = pkg \ {x} /\ pc = "package" /\ pc' \in {"copy", "clear", "package"}
    BY <1>15 DEF InstallStart
  <2>2. Installing /\ Installing' /\ wishes' = wishes
    BY <1>15, <2>1 DEF Installing, InstallStart
  <2> QED  BY <2>1, <2>2 DEF Located, LessLeft, Fewer
\* The installer goes from one of its calls to a later one, or back to its loops.
<1>e. ASSUME Installing, Installing', UNCHANGED <<wishes, pkg>>, Position' < Position
      PROVE  LessLeft
  BY <1>e DEF Located, LessLeft
<1>16. CASE InstallCleared
  BY <1>16, <1>e DEF InstallCleared, Installing, Position, loop
<1>17. CASE InstallCopied
  BY <1>17, <1>e DEF InstallCopied, Installing, Position, loop, Continue
<1>18. CASE PackageDone
  BY <1>18, <1>e DEF PackageDone, Installing, Position, loop, Continue
<1>19. CASE InstallCopy
  <2>1. PICK a \in Content[cur] \ asset[cur] : asset' = [asset EXCEPT ![cur] = @ \cup {a}]
    BY <1>19 DEF InstallCopy
  <2>2. pc = "copy" /\ UNCHANGED <<pc, cur, wishes, pkg>>
    BY <1>19 DEF InstallCopy, loop
  <2>3. asset'[cur] = asset[cur] \cup {a}
    BY <2>1, <2>2 DEF TypeOK, WithCur
  <2>4. FilesLeft = Content[cur] \ asset[cur] /\ FilesLeft' = Content[cur] \ asset'[cur] /\ Position' = Position
    BY <2>2 DEF FilesLeft, Position
  <2>5. Fewer(FilesLeft', FilesLeft)
    BY <2>1, <2>3, <2>4 DEF Fewer
  <2>6. Installing /\ Installing'
    BY <2>2 DEF Installing
  <2> QED  BY <2>2, <2>4, <2>5, <2>6 DEF Located, LessLeft
<1>20. CASE InstallFails
  <2>1. /\ pc \in {"clear", "copy"} /\ pkg' = {} /\ wishes' = wishes
        /\ pc' = "install" \/ (pc' = "del_check" /\ ret' = "install")
    BY <1>20 DEF InstallFails, Delete, Continue
  <2>2. Installing /\ Installing'
    BY <2>1 DEF Installing, Deleting
  <2>3. Position' < Position
    BY <2>1 DEF Position
  <2> QED  BY <2>1, <2>2, <2>3 DEF Located, LessLeft, Fewer
\* So does the synchronisation.
<1>f. ASSUME InSync, InSync', todo' = todo, Position' < Position
      PROVE  LessLeft
  BY <1>f DEF Located, LessLeft
<1>21. CASE SyncNext
  <2>1. PICK l \in todo : todo' = todo \ {l} /\ pc = "sync" /\ pc' \in {"sync_read", "restore"}
    BY <1>21 DEF SyncNext
  <2>2. InSync /\ InSync'
    BY <2>1 DEF InSync
  <2> QED  BY <2>1, <2>2 DEF Located, LessLeft, Fewer
<1>22. CASE SyncAdd \/ SyncUpToDate
  <2>1. pc = "sync_read" /\ pc' = "sync" /\ todo' = todo
    BY <1>22 DEF SyncAdd, SyncUpToDate, Continue, loop
  <2> QED  BY <2>1, <1>f DEF InSync, Position
<1>23. CASE SyncUpdate
  <2>1. pc = "sync_read" /\ todo' = todo /\ (pc' = "updated" \/ (pc' = "del_check" /\ ret' = "sync"))
    BY <1>23 DEF SyncUpdate, Delete, loop
  <2> QED  BY <2>1, <1>f DEF InSync, Position, Deleting
<1>24. CASE UpdateChecked
  <2>1. pc = "updated" /\ todo' = todo /\ (pc' = "sync" \/ (pc' = "del_check" /\ ret' = "sync"))
    BY <1>24 DEF UpdateChecked, Delete, Continue, loop
  <2> QED  BY <2>1, <1>f DEF InSync, Position, Deleting
<1>25. CASE SyncRestore
  <2>1. pc = "restore" /\ todo' = todo /\ pc' \in {"lost", "sync"}
    BY <1>25 DEF SyncRestore, Continue, loop
  <2> QED  BY <2>1, <1>f DEF InSync, Position
<1>26. CASE LostDeleted
  <2>1. pc = "lost" /\ todo' = todo /\ pc' = "sync"
    BY <1>26 DEF LostDeleted, Continue, loop
  <2> QED  BY <2>1, <1>f DEF InSync, Position
<1>27. CASE CheckNext
  <2>1. PICK l \in todo : /\ todo' = todo \ {l} /\ pc = "check"
                          /\ pc' = "check" \/ (pc' = "del_check" /\ ret' = "check")
    BY <1>27 DEF CheckNext, Delete, Continue
  <2>2. Checking /\ Checking'
    BY <2>1 DEF Checking, Deleting
  <2> QED  BY <2>1, <2>2 DEF Located, LessLeft, Fewer
<1>28. ~StartRun /\ ~Upload
  BY DEF StartRun, Upload
<1> QED
  BY <1>1, <1>2, <1>3, <1>4, <1>5, <1>6, <1>7, <1>8, <1>9, <1>10, <1>11, <1>12, <1>13, <1>14, <1>15,
     <1>16, <1>17, <1>18, <1>19, <1>20, <1>21, <1>22, <1>23, <1>24, <1>25, <1>26, <1>27, <1>28
     DEF Next, JobStep, Mishap

\* Whatever faults there are, every step of a run leaves it less to do, in an order in
\* which nothing decreases for ever: neither the loop that uninstalls until nothing is
\* unwanted nor the deletions that fail keep the job from ending.
THEOREM RunsEnd ==
  ASSUME Finiteness
  PROVE  /\ IsWellFoundedOn(RunOrder, RunMeasures)
         /\ Spec => [](RunWork \in RunMeasures)
         /\ Spec => [][pc # "idle" => <<RunWork', RunWork>> \in RunOrder]_vars
<1>1. TypeOK => WorkTypes
  BY WorkTyped
<1>2. WorkTypes => Measured
  BY WorkMeasured
<1>3. ASSUME TypeOK, TypeOK', WorkTypes, WorkTypes', Measured, Measured', Located, Located',
             EntryStays, [Next]_vars
      PROVE  [pc # "idle" => <<RunWork', RunWork>> \in RunOrder]_vars
  BY <1>3, StepAdvances, LessIsLess
<1>4. TypeOK /\ EntryStays /\ [Next]_vars => EntryStays'
  BY NextEntry
<1>5. Spec => [](TypeOK /\ EntryStays)
  BY <1>4, InitEntry, TypeCorrect, PTL DEF Spec
<1>6. Spec => [](WorkTypes /\ Measured /\ Located)
  BY <1>1, <1>2, <1>5, Places, PTL
<1>7. Measured => RunWork \in RunMeasures
  BY DEF Measured
<1>8. Spec => [](RunWork \in RunMeasures)
  BY <1>6, <1>7, PTL
<1>9. Spec => [][pc # "idle" => <<RunWork', RunWork>> \in RunOrder]_vars
  BY <1>3, <1>5, <1>6, PTL DEF Spec
<1> QED  BY <1>8, <1>9, RunOrderWellFounded
=================================================================================
