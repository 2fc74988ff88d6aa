----------------------------- MODULE LibraryUploader -----------------------------
(***************************************************************************)
(* The script upload-h5p-libraries: it compares every folder of the        *)
(* temporary directory with the one in S3 and adds or replaces it.  Files  *)
(* are sent in batches; the first error ends the script, wherever it is.   *)
(* Meanwhile the library management job may remove folders from S3.        *)
(***************************************************************************)
EXTENDS Integers, FiniteSets

CONSTANTS
  Name, Line, MaxPatch,
  File,         \* files of a library, library.json among them
  BatchSize,    \* files uploaded at a time
  PageSize,     \* keys S3 lists at a time
  MaxMishaps,   \* bound on failed calls, kills and pages listed by the job
  NoKey

Json    == "json"
Folders == Name \X Line \X {"plain", "v"}
Keys    == Name \X Line

\* What the constants are; LibrarySupply assumes it.
UploaderConstants ==
  /\ Json \in File
  /\ BatchSize \in Nat \ {0} /\ PageSize \in Nat \ {0}
  /\ MaxPatch \in Nat /\ MaxMishaps \in Nat
  /\ NoKey \notin Folders

VARIABLES
  script,   \* the script that is running
  folder,   \* the folders of the temporary directory
  s3,       \* s3[k][f]: the patch version file f of folder k is from, 0 if absent
  step,     \* the call the script is about to make
  todo,     \* local folders still to upload
  cur,      \* the local folder being uploaded
  left,     \* its files still to send
  page,     \* keys the job has listed in an S3 folder, to delete them next
  was,      \* history: the S3 folder of cur when its upload was decided
  torn,     \* history: S3 folders left by an upload that did not get through
  lost,     \* history: files of cur the job has deleted since they were sent
  source,   \* history: what an S3 folder should hold, the files of the local folder
            \* it was last uploaded from but for those the job has deleted since
  removed,  \* history: S3 folders the job has deleted from since the round began
  mishaps

uploaderVars ==
  <<script, folder, s3, step, todo, cur, left, page, was, torn, lost, source, removed, mishaps>>

NoFile == [f \in File |-> 0]
NoPage == [key |-> NoKey, files |-> {}]

\* buildS3FolderPath: lib-v1.2 and lib-1.2 go to the same folder.
KeyOf(f) == <<f[1], f[2]>>

Here(k)  == {x \in File : s3[k][x] # 0}
CopyOf(c) == [x \in File |-> IF x \in c.files THEN c.patch ELSE 0]

Mishap ==
  /\ mishaps < MaxMishaps
  /\ mishaps' = mishaps + 1

UploaderInit ==
  /\ step = "none" /\ todo = {} /\ cur = NoKey /\ left = {} /\ page = NoPage
  /\ was = NoFile /\ torn = {} /\ lost = {} /\ removed = {}

StartUpload ==
  /\ script = "none"
  /\ script' = "upload"
  /\ step' = "next"
  /\ todo' = {f \in Folders : folder[f].files # {}}
  /\ UNCHANGED <<folder, s3, cur, left, page, was, torn, lost, source, removed, mishaps>>

\* Mutant: the folder is not let go.
FolderHeld == step' = "next" /\ left' = {} /\ lost' = {} /\ was' = NoFile /\ UNCHANGED cur

\* The current folder is through, or needs no update.
FolderDone == step' = "next" /\ cur' = NoKey /\ left' = {} /\ lost' = {} /\ was' = NoFile

\* The script ends at an uncaught error.
GiveUp ==
  /\ script' = "none" /\ step' = "none" /\ todo' = {}
  /\ cur' = NoKey /\ left' = {} /\ lost' = {} /\ was' = NoFile /\ removed' = {}
  /\ torn' = IF step \in {"clear", "send"} THEN torn \cup {KeyOf(cur)} ELSE torn

\* checkFolderAlreadyExistsInS3
CheckExists ==
  /\ step = "next"
  /\ \E f \in todo :
       /\ todo' = todo \ {f}
       /\ cur' = f
       /\ IF Here(KeyOf(f)) = {}
          THEN /\ step' = "send" /\ left' = folder[f].files
               /\ torn' = torn \ {KeyOf(f)}
          ELSE step' = "compare" /\ UNCHANGED <<left, torn>>
  /\ UNCHANGED <<script, folder, s3, page, was, lost, source, removed, mishaps>>

\* Mutant: a folder without library.json counts as older.
NewerThanNothing(p, q) == p > q

\* Mutant: a newer patch version is not taken for an update.
NeverNewer(p, q) == FALSE

\* compareVersions: without a library.json in S3 there is nothing to update.
UpdateNeeded(p, q) == q # 0 /\ p > q

\* checkIfUpdateIsNeeded
CompareVersions ==
  /\ step = "compare"
  /\ Json \in folder[cur].files
  /\ IF UpdateNeeded(folder[cur].patch, s3[KeyOf(cur)][Json])
     THEN step' = "clear" /\ was' = s3[KeyOf(cur)] /\ UNCHANGED <<cur, left, lost>>
     ELSE FolderDone
  /\ UNCHANGED <<script, folder, s3, todo, page, torn, source, removed, mishaps>>

\* A local folder without library.json whose S3 folder exists.
NoLocalJson ==
  /\ step = "compare" /\ Json \notin folder[cur].files
  /\ GiveUp
  /\ UNCHANGED <<folder, s3, page, source, mishaps>>

\* deleteFolder: one DeleteObjects request, of which any part may have taken effect.
DeletePage ==
  /\ step = "clear"
  /\ \E S \in (SUBSET Here(KeyOf(cur))) \ {{}} :
       s3' = [s3 EXCEPT ![KeyOf(cur)] = [x \in File |-> IF x \in S THEN 0 ELSE @[x]]]
  /\ UNCHANGED <<script, folder, step, todo, cur, left, page, was, torn, lost, source, removed, mishaps>>

\* Keys that DeleteObjects reports as not deleted are not looked at.
FolderCleared ==
  /\ step = "clear"
  /\ step' = "send" /\ left' = folder[cur].files
  /\ IF Here(KeyOf(cur)) = {}
     THEN torn' = torn \ {KeyOf(cur)} /\ UNCHANGED mishaps
     ELSE torn' = torn \cup {KeyOf(cur)} /\ Mishap
  /\ UNCHANGED <<script, folder, s3, todo, cur, page, was, lost, source, removed>>

\* S3 once the files S of the current folder are stored.
Stored(S) ==
  [s3 EXCEPT ![KeyOf(cur)] = [x \in File |-> IF x \in S THEN folder[cur].patch ELSE @[x]]]

\* Mutant: an incomplete batch is never sent.
FullBatches == {S \in SUBSET left : Cardinality(S) = BatchSize}

\* The next files in the order of the directory, which is arbitrary here.
Batches ==
  {S \in SUBSET left : Cardinality(S) = IF Cardinality(left) < BatchSize
                                        THEN Cardinality(left) ELSE BatchSize}

SendBatch ==
  /\ step = "send" /\ left # {}
  /\ \E S \in Batches : s3' = Stored(S) /\ left' = left \ S /\ lost' = lost \ S
  /\ UNCHANGED <<script, folder, step, todo, cur, page, was, torn, source, removed, mishaps>>

\* Mutant: the last, incomplete batch is not waited for.
LastBatchDropped == Cardinality(left) < BatchSize

AllSent == left = {}

FolderSent ==
  /\ step = "send" /\ AllSent
  /\ source' = [source EXCEPT ![KeyOf(cur)] =
                 [patch |-> folder[cur].patch, files |-> folder[cur].files \ lost]]
  /\ FolderDone
  /\ UNCHANGED <<script, folder, s3, todo, page, torn, removed, mishaps>>

\* An S3 call that still fails after its retries, or a kill: the requests of the
\* batch that were under way may or may not be carried out.
UploadFails ==
  /\ script = "upload"
  /\ Mishap
  /\ IF step = "send" /\ left # {}
     THEN \E S \in Batches : \E T \in SUBSET S : s3' = Stored(T)
     ELSE UNCHANGED s3
  /\ GiveUp
  /\ UNCHANGED <<folder, page, source>>

UploadDone ==
  /\ step = "next" /\ todo = {}
  /\ script' = "none" /\ step' = "none" /\ removed' = {}
  /\ UNCHANGED <<folder, s3, todo, cur, left, page, was, torn, lost, source, mishaps>>

(***************************************************************************)
(* The library management job removes a folder, at any moment: it lists a  *)
(* page of keys and deletes what it has listed, whatever has become of the *)
(* folder meanwhile.  It may be gone for good after any call.              *)
(***************************************************************************)
Pages(k) ==
  {S \in SUBSET Here(k) : S # {} /\ Cardinality(S) = IF Cardinality(Here(k)) < PageSize
                                                   THEN Cardinality(Here(k)) ELSE PageSize}

JobLists ==
  /\ Mishap
  /\ \E k \in Keys : \E S \in Pages(k) : page' = [key |-> k, files |-> S]
  /\ UNCHANGED <<script, folder, s3, step, todo, cur, left, was, torn, lost, source, removed>>

JobDeletes ==
  /\ page.files # {}
  /\ LET k == page.key IN
     /\ s3' = [s3 EXCEPT ![k] = [x \in File |-> IF x \in page.files THEN 0 ELSE @[x]]]
     /\ source' = [source EXCEPT ![k].files = @ \ page.files]
     /\ lost' = IF step = "send" /\ KeyOf(cur) = k THEN lost \cup page.files ELSE lost
     /\ removed' = IF script = "upload" THEN removed \cup {k} ELSE removed
  /\ page' = NoPage
  /\ UNCHANGED <<script, folder, step, todo, cur, left, was, torn, mishaps>>

JobRemoves == JobLists \/ JobDeletes

UploadStep ==
  \/ CheckExists \/ CompareVersions \/ NoLocalJson \/ DeletePage
  \/ FolderCleared \/ SendBatch \/ FolderSent \/ UploadDone

UploaderNext == StartUpload \/ UploadStep \/ UploadFails \/ JobRemoves

(***************************************************************************)
(* The abstract specification: an upload in one step.  Until the upload of *)
(* a folder is over, the folder counts as it was when it was decided.      *)
(***************************************************************************)
Seen(k) == IF step \in {"clear", "send"} /\ KeyOf(cur) = k THEN was ELSE s3[k]

Contract == INSTANCE UploadContract WITH
  Lib       <- Keys,
  Content   <- [k \in Keys |-> File \ {Json}],
  Published <- 1..MaxPatch,
  asset     <- [k \in Keys |-> {x \in File \ {Json} : Seen(k)[x] # 0}],
  json      <- [k \in Keys |-> Seen(k)[Json]]

(***************************************************************************)
(* Properties.                                                             *)
(***************************************************************************)
UploaderTypeOK ==
  /\ s3 \in [Keys -> [File -> 0..MaxPatch]]
  /\ step \in {"none", "next", "compare", "clear", "send"}
  /\ (script = "upload") <=> (step # "none")
  /\ todo \subseteq Folders
  /\ IF step \in {"compare", "clear", "send"} THEN cur \in Folders ELSE cur = NoKey
  /\ left \subseteq File /\ lost \subseteq File
  /\ IF page.files = {} THEN page = NoPage ELSE page.key \in Keys /\ page.files \subseteq File
  /\ torn \subseteq Keys

\* Uploads, finished or interrupted, do no more than the job expects of them.
UploadsAsExpected == Contract!Spec

\* A folder in S3 holds the files of one local folder, all in one patch version, but for
\* those the job has deleted from it, also when it deletes from the fresh copy what it
\* had listed before, or while the copy is sent: never a mixture of two versions.  Only a
\* folder that is being uploaded, or whose upload was interrupted, is exempt.
FaithfulCopy ==
  \A k \in Keys :
    k \in torn \/ (step \in {"clear", "send"} /\ KeyOf(cur) = k) \/ s3[k] = CopyOf(source[k])

\* After a round that came to its end every local folder is in S3 in its patch
\* version or a newer one, also when two of them go to the same folder, and also when an
\* earlier upload was interrupted.  Exceptions are a folder without library.json, which
\* the script takes for up to date, and one from which the job has deleted meanwhile.
RoundUploads ==
  [][step = "next" /\ todo = {} /\ script' = "none" =>
       \A f \in Folders : folder[f].files # {} =>
         LET k == KeyOf(f) IN
         \/ k \in removed \/ (Here(k) # {} /\ s3[k][Json] = 0)
         \/ s3[k][Json] >= folder[f].patch]_uploaderVars
=================================================================================
