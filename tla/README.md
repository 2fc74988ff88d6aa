# TLA+ model of h5p-server

This directory keeps TLA+ specifications of the H5P server (`src/`), the TLC
configurations that check them and machine-checked proofs of their main
theorems. `PROJECT.json` ties every definition to the lines it models, every
property to the runs that check it, and every hazard to the properties that
would catch it.

## 1. Inventory

The repository builds three processes around the library `@lumieducation/h5p-server`
and a set of scripts:

* the **editor** (`src/src/apps/h5p-editor.app.ts`), an HTTP API;
* the **consumer** (`h5p-editor-consumer.app.ts`), which takes messages from RabbitMQ;
* the **library management job** (`h5p-library-management.app.ts`), a cron job;
* the **scripts** (`src/scripts/h5p`) that package H5P libraries from GitHub and
  upload them to S3.

They share two stores without transactions across them: MongoDB (one collection
of library metadata, one of contents) and S3 (a bucket of libraries, a bucket of
contents). Everything hard about this system follows from that: each operation
is a sequence of remote calls, and between two calls another operation can run,
a call can fail, or the process can end.

| component | state it keeps | operations | what makes it correct |
|---|---|---|---|
| library management job | none between runs; per run the lists it works through | `run`: uninstall, install, synchronise, check | after a run the metadata entries and the folders agree; nothing needed is removed, nothing unwanted stays; every run ends; runs repair what kills and errors left |
| `LibraryStorage`, `LibraryRepo` | entries in MongoDB, folders in S3 | add, update, delete, clear, list, count dependents | folder first, then entry; dependents are counted for every declared dependency, cycles cut |
| `S3ClientAdapter` | objects and lifecycle rules of a bucket | get, create, delete, copy, list, head, directories, trash, lifecycle | no file is lost between folder and trash, every page is handled, no rule is dropped, every call and stream ends |
| `createLazyS3Readable` | one S3 stream | read, push, pause, end, destroy | the consumer sees the end or an error |
| `ContentStorage`, `H5pContentService`, content repository | a document per content, its files in S3 | save, copy, delete, add and delete files, list | a document has the files it refers to, without a document there are no files |
| `TemporaryFileStorage` | files in S3 per user | save, delete, stream, stats | streams opened only to look are closed again |
| AMQP consumer and its infrastructure | unacknowledged messages | copy-content, delete-content | every message comes to an end, whatever fails |
| editor use cases and controller | none | reads, save, delete, upload, download | every handler ends and frees its sockets, temporary directories are removed, clients are told the truth |
| timeout interceptor | one timer per request | answer after a limit | the handler that goes on does no harm |
| map update, GitHub client | the map file | list repositories, read their `library.json` | the official repository wins over forks |
| packager, Hub client, consistency checker | a temporary directory, caches | recursive build of versions and dependencies | ends on cyclic dependencies, drops none, what counts as built is whole |
| uploader | none | upload or update a folder | a folder in S3 is never a mixture of versions; no more is changed than the job expects |
| authorization, auth guard, configuration, logging, error mapping | none | stateless calls and mappings | not modelled |

Interactions: the job and the installer of h5p-server call `LibraryStorage`,
which calls the repository and the S3 adapter. The uploader writes to the
library bucket without the database; the job adopts what it finds there. Editor
and consumer call `ContentStorage` through h5p-server's `H5PEditor`, or
`H5pContentService`; both change the same contents. The consumer acknowledges a
message when its handler has returned, with or without an error, and the whole
process exits when the connection is lost.

The hazards are listed in `PROJECT.json`, each at its line.

## 2. Modules

| module | role |
|---|---|
| `LibraryManagement`, `MCLibraryManagement` | the job with library storage, entries and S3 folders; takes its uploads from `UploadContract` |
| `LibraryManagementProofs` | theorems about the job: every safety property of its runs, and the work of a run, which every step lessens |
| `LibraryStorage`, `LibraryStorageProofs` | storage and repository call by call, for one library and several actors: the run, installers that outlive their lock, an editor |
| `UploadContract` | abstract specification: what the job relies on about uploads |
| `LibraryRepoMap`, `LibraryPackager`, `LibraryUploader` | the three scripts; the last implements `UploadContract` |
| `LibrarySupply`, `MCLibrarySupply` | composition of the three scripts, which share the map file and the temporary directory |
| `LibrarySupplyProofs` | theorems about the three scripts: every safety property of their run, the refinement included, and the work of each script, which its steps lessen |
| `S3Adapter`, `MCS3Adapter` | every operation of the S3 adapter, by several clients of one bucket |
| `S3AdapterProofs` | theorems about the adapter: every safety property of its run, and the work of a call |
| `EditorRequests`, `MCEditorRequests` | requests to the editor: routes, time limit, clients that leave, sockets to S3 |
| `EditorRequestsProofs` | theorems about requests: every safety property of their run, what a request still has to do, and that nobody waits in a circle |
| `ContentLifecycle`, `ContentLifecycleProofs` | contents: editor requests, consumer messages, restarts |
| `LazyReadable`, `LazyReadableProofs` | one S3 object read through the lazy stream, with backpressure and the inactivity timer |
| `DependentsCount`, `MCDependentsCount`, `DependentsCountProofs` | the search that cuts dependency cycles before dependents are counted |

How they fit together. `LibrarySupply` instantiates the three scripts on shared
variables, one script at a time. `LibraryUploader` is checked against
`UploadContract` (`UploadsAsExpected`, a refinement), and the action `Upload` of
`LibraryManagement` is built from the same module: what the uploader does, and no
more, is what the job is checked with. `LibraryManagement` sees one entry per
library and steps of whole deletions; `LibraryStorage` looks at one library closely,
with documents that can be two and with installers the job no longer waits for.
`DependentsCount` details the search of which `LibraryManagement` has the outcome
(`Cuts`). `LazyReadable` details the content stream that
`EditorRequests` opens (`LazyOpens`), `S3Adapter` the calls behind all of them, and
`ContentLifecycle` what the saving, deleting and copying of a content does to
documents and files.

Every safety property of every run is stated by a theorem. Of what ends, theorems state
the measure that every step lessens; the step from there to liveness, and all else that is
left to TLC, is in section 11. What could be added: a model of the caches in front of the storage, and
theorems about runs of the job that overlap with uploads.

## 3. The library management job

**State.** `entry[l]` is the patch version in the metadata entry of library `l`
(an ubername), 0 without an entry; `asset[l]` and `json[l]` are its S3 folder:
the files, and what `library.json` states (`NoJson`: no such file, `BadJson`: a
file that `checkIsLibraryMetadata` refuses). `pc` is the remote call the run
makes next and `cur`, `ret`, `wishes`, `pkg`, `todo`, `failed`, `removed` are the
locals of the methods it is in. `outcome` is how the last run ended. Two
variables are not in the code: `mishaps` bounds the faults, and `excused`
collects the libraries for which the run swallowed an error.

**Actions**, by phase of `run()`:

1. `ListForUninstall`, `UninstallNext`, `UninstallAgain`, `UninstallDone`:
   `uninstallUnwantedLibrariesAsBulk` with its do-while loop. The list is computed
   once per round (`Unwanted`), and failed machine names are left out of the
   next. Before dependents are counted, the code cuts mutual dependencies
   (`removeCircularDependencies`): `Cuts` are its possible outcomes, one declaration of
   every two opposite ones deleted, which one being a matter of order, and `Dependents` counts
   what is left.
2. `InstallNext` to `InstallDone`: the wish list. The installer is external: it
   writes the entry first, clears the folder for an update, then copies files;
   `InstallFails` is an error of it, after which the job reverts
   (`deleteLibrary`) or only logs.
3. `SyncList` to `SyncDone`: every folder in S3 is compared with its entry.
   `SyncNext` is the check for `library.json`, `SyncAdd`, `SyncUpdate`,
   `SyncUpToDate`, `SyncRefuse` the cases of
   `synchronizeLibraryMetadataInDatabase`, `SyncRestore` and `LostDeleted` are
   `addLibraryJsonToS3`.
4. `CheckList`, `CheckNext`, `RunDone`: the consistency check of every entry.

`DelCheck`, `DelPage`, `DelEntry`, `Throw` are `LibraryStorage.deleteLibrary`,
called from all four phases: `ret` says who called, and so who catches its
errors. One `DelPage` is any part of the deletion of a page of a folder.

**Faults** (`Faults`, at most `MaxMishaps` of them): `head` a failed HEAD or GET
that the code takes for a missing file, `db` and `s3` calls that throw, `keys` keys
that DeleteObjects reports as not deleted, `hub` an installer error, `kill` the
deadline of the cron job at any point, `upload` a complete or interrupted upload
between runs, as `UploadContract` allows it.

**Assumptions.** Runs do not overlap (`concurrencyPolicy: Forbid` in the cron job
template). Dependencies may form any graph; when a longer ring of them outlasts the cut,
the search of the code never returns (`dependents_ring`), so `ListForUninstall` is not
enabled then and the run stays where it is. An ubername has at most one entry. A declaration
of a library by itself is cut here; `DependentsCount` leaves those out. Reads
of h5p-server's LibraryManager are fresh (its cache is external). Nothing is uploaded
during a run (section 9 has the uploader's view of removals by the job). An uploaded
folder holds files of the library only. Contents play no part: the code
uninstalls by wish list and dependents alone.

### Runs

| run | instance | shows |
|---|---|---|
| `library_safety` | 3 libraries: a wished `a` needs `b` and offers `c` in its semantics, `b` and `c` need each other; every initial S3 content; patch versions 1 and 2; 2 mishaps of six kinds | `TypeOK`, `FinishedRunAgrees`, `NothingOrphaned`, `NeededStays`, `ChainsUninstalled` |
| `library_heals` | 2 libraries, a wished `a` and `b`, that need each other; all seven kinds; no refused `library.json` | `RunEnds`, `Settles` |
| `library_lost` | `head` faults only | `LostIsLost` is violated |

* `FinishedRunAgrees`: after a run that reached its end, from whatever state it
  started, every entry has its preloaded scripts and styles, and every folder is
  described by an entry that is not behind its `library.json`, except where an
  error was swallowed.
* `NothingOrphaned`: no step of the job turns a folder into files that neither
  `library.json` nor an entry describes, except in a folder it removes as lost.
  This is why the folder has to go before the entry, and why a kill in between
  can be repaired. The run has no `keys` faults: after one, `DelEntry` does leave
  files that nothing describes (see below).
* `NeededStays`, `ChainsUninstalled`: the stale list of a round removes nothing on the wish
  list, and a dependency of an installed library only when that library is a dependency
  of it in turn, and then not both by the same list. The last case is what the code does:
  of two libraries that need each other one declaration is not counted, so that the
  library it names can be removed while the other one, wished for or not, still declares it;
  the install phase of the same run brings it back if it is in a wished package. When the
  loop stops, no set of libraries is left that nobody but they themselves declare or offer:
  chains and mutual pairs have gone. Exempt from this are libraries of a name whose deletion failed, and those that such a library had
  offered in its `semantics.json`: when its folder is gone and the deletion of its
  entry fails, they lose their dependent although the round has removed nothing, and the
  loop stops. They go in the next run.
* `RunEnds`, `Settles`: under fairness every run ends and, once mishaps are
  over, the stores are brought in step. A refused `library.json` is left out
  here because it stops the synchronisation of every run, before the check: with
  one the stores never settle. This is a behaviour of the code, modelled by
  `SyncRefuse` and part of the safety run.
* `LostIsLost` fails: `fileExists` answers false for every error of HEAD, so one
  transient error makes the synchronisation delete a freshly uploaded folder
  that has a `library.json`. The comment in the service promises deletion only
  when there is none.
The errors per key in the response of DeleteObjects are not read, so
`deleteLibrary` may remove the entry and leave files (`keys`). The next run finds and
repairs this: `Settles` is checked with these faults.

Bounds. Two patch versions are what comparisons tell apart (older, equal,
newer). Two mishaps give a fault during the repair of a fault. Two assets
separate required from other files (`semantics.json`). All initial S3 contents
are enumerated, so what one more upload would produce is covered from the
start.

Fairness: weak fairness of `StartRun` (the schedule of the cron job) and of the
run's own steps (every call returns). No fairness of faults: they may or may not
happen.

### Proofs (`LibraryManagementProofs`)

For every set of libraries, wish list, dependency structure, package and set of
faults that satisfies `LibraryAssumption`, and every bound:

* `TypeCorrect`: `Spec => []TypeOK`. `TypeOK` is inductive as it stands; it says
  more than ranges: `cur` is a library exactly in the steps that work on one,
  and a caller is noted exactly inside `deleteLibrary`.
* `FinishedRunCorrect`: `Spec => []FinishedRunAgrees`. Not inductive: at the last
  step of a run nothing in the property says what the run did before. `AgreeInv`
  adds four parts. `SyncProgress`: while synchronising, every folder neither to
  be visited nor being visited is described or excused. `UpdateProgress`: between
  the update of an entry and its check, entry and `library.json` agree.
  `SyncedStays`: from the start of the check phase all folders are described or
  excused and stay so, since the check only deletes. `CheckProgress`: in the
  check phase every library visited is complete. There is one step per action;
  runs that end early (errors, kills) satisfy the property vacuously.

* `NoFilesOrphaned`: `Spec => NothingOrphaned`, assuming that `"keys"` is not among
  `Faults`: the code does not read the errors per key in the answer of DeleteObjects, and
  with them the property is false. The invariant, `EntryStays`, says that whoever removes
  or copies files works on a library with an entry, unless it removes a lost folder.
* `NeededLibrariesStay` (`Spec => NeededStays`) and `ChainsGone` (`Spec =>
  ChainsUninstalled`) come from one invariant of the uninstall loop, `LoopInv`. Its first
  part, `NotNeeded`, says of the libraries of the round, the one being deleted
  included, that an installed library that declares them is declared by them and not in
  the list: it stays true of a stale list because during the loop entries only go. The
  second, `UnwantedAhead`, says that as long as the round has removed no entry, what is
  unwanted after one of the possible cuts is still to come, or has lost its dependent's
  `semantics.json` to a deletion under way or failed. A set nobody else needs always holds such a
  library: after a cut that leaves no ring some member is declared by no other.

* `RunsEnd`, for finitely many libraries, wishes and files: `RunWork` (the phase, what
  is installed or still wished, whether the round has removed something, the libraries ahead,
  the place in the code, the files to remove or copy) decreases in a well-founded order with every step of a run, whatever fails.
  The do-while loop is the reason to prove it: a round is repeated only if it removed
  something, a failed name is left out of the next, and within the loop entries only go.
  The start of a run and uploads between runs are not steps of a run.

`RunEnds` is more than `RunsEnd`: it also needs that a run that is not over has a step to
take. It and `Settles` stay with TLC.

## 4. Contents

**State.** `docs` are the contents with a document, `refs[c]` the files the
document refers to, `files[c]` the files in S3, `queue` the messages, and
`job[w]` the operation of worker `w`: its kind, its place in the code (`pc`) and
its locals. A worker is a request under way in the editor or a message under way
in the consumer; the prefetch count of the consumer is 5, and copy-content and
delete-content have queues of their own, so messages are handled concurrently
and in any order. `torn` is a history variable: contents an error or a restart
left half done at a place where the code does not undo its work. `clashed` is
another one: contents on which an operation was started while another used them.

**Actions.** `SendCopy`, `SendDelete` are the clients (another service, external);
`Take` the delivery; `RequestDelete`, `RequestSave` the editor. Then one action per
remote call: `Find`, `Insert`, `Write` (repository), `AddFile` and `PutFile`
(`addFile`: the check and the creation are two calls), `List`, `CopyFile`,
`Copied`, `Undo` (`copyH5pContent`), `RemoveDoc`, `RemoveFile`, `Removed`
(`deleteContent`: one `Promise.all`, so in any order, and the calls go on after the
handler has failed), `Prune` (h5p-server removes files no longer referred to).
`Restart` ends one of the two processes: the consumer's messages that were not
acknowledged are delivered again.

| run | instance | shows |
|---|---|---|
| `contents` | 2 contents, 2 files, 2 workers, 2 operations that overlap freely, 2 faults or restarts | `TypeOK`, `WholeAtRest`, `AllHandled` |
| `content_copied` | one failed S3 call | `CopiedHasFiles` is violated |

* `WholeAtRest`: a content nobody is working on has all files its document refers
  to, and no files without a document. Two things it does not promise are
  visible in its statement: contents torn by an error (the code logs errors and
  acknowledges the message, nothing is tried again) and contents on which
  operations have clashed, where a file may be created after its content was
  deleted, or a document changed that another operation has read. A later deletion
  that gets through mends a torn content.
* `AllHandled`: no error, restart or overtaking makes a message come back for
  ever, because messages whose handler fails are acknowledged.
* `CopiedHasFiles` fails: rejected CopyObject requests are only logged, so the
  cleanup that `copyH5pContent` has for this case never runs.

Bounds. Two contents are a source and its copy. Two files
allow a partial copy and a partial deletion. Two workers give every
interleaving of a pair of operations. Two mishaps are a failure and a failure
of its cleanup or of a redelivery.

Fairness: every call returns (`Call`) and a waiting message is delivered when a
worker is free (`Take`). Clients and faults are not fair.

Simplifications: two identical messages waiting count as one. The first lookup and the
permission check of an editor's deletion change nothing and are left out. The
order in which files are handled is arbitrary, which includes the code's. A
deletion that has failed counts as in use until its remaining calls have
returned, although its client has been answered.

**Proved** (`ContentLifecycleProofs`), for any contents, files, workers and faults:
`ContentTypeCorrect` (`TypeOK`) and `ContentsWholeAtRest` (`WholeAtRest`). At rest
`WholeAtRest` says nothing of a content somebody works on, so it is not inductive.
`PhaseInv` says for each operation and each of its calls how far it has got: before its
first write the content is still whole; while files are added, those the document
refers to are there or still to be added; while it is removed, what is left is in the
list. A content that is given up (`torn`, `clashed`) is exempt. What another operation does
leaves `PhaseInv` alone because of `ClashInv`: of two operations under way, as jobs or as
messages, neither changes what the other changes or copies, unless the content is
given up, and what is copied from such a content is given up as well. A restart needs
that an operation stopped where it is not `Halfway` leaves its content whole
(`NotHalfway`). The conjunction, `ContentInv`, was model-checked on the instance of
`contents` and on one with three contents before it was proved.

`WorkRunsOut`, for finitely many files and workers, is the argument under `AllHandled`: `Toil`
(faults left, then requests left, then waiting messages together with the calls ahead of
the workers, counted in `Pool`) decreases in a well-founded order with every step. A
message comes back only at the price of a restart, of which there is one less; without
one, to take a message trades it for calls that only become fewer. `Toil` was checked by
TLC on the instance of `contents` first.

## 5. Reading from S3 (`LazyReadable`)

**State.** Three streams in a row: `src` the response of S3, `pass` the PassThrough
of `S3ClientAdapter.getFile`, `lazy` the readable of `createLazyS3Readable`; the
chunks in their buffers (`left`, `passBuf`, `buf`) and with the reader (`got`).
`asked` is the code's `initializing` while the request is under way, `held` says
that `s3Stream` is set, `paused` that `data.pause()` was called, `timer` is the
60 s timer. A reader may also be a probe: the `fileExists` methods open a stream
to see whether it can be opened and never read it.

**Actions.** `FirstRead`, `Opened`, `GetFails`, `Forward` (`onData`), `ForwardEnd`
(`onEnd`), `Take`, `TakeEnd`, `Leave` and `CloseLazy` (`cleanup`) are the readable;
`Receive`, `SourceEnds`, `SourceFails` and `TimerFires` the adapter. What the
stream classes of Node.js do (buffers, `pipe`, destroying at the end) is external
and modelled as far as the code relies on it. Time is left out: an armed timer
may fire at any moment, which includes every moment it really can.

| run | instance | shows |
|---|---|---|
| `lazy_stream` | an object of 5 chunks, buffers of 2, every fault, readers and probes | `TypeOK`, `EndMeansAll`, `NeverStuck`, `Released`, `Served` |

* `EndMeansAll`: an end is told only to a reader that has the whole object. The
  timer also fires when S3 has delivered everything and only the reader is slow,
  and destroys both streams without an error; that this is never taken for the
  end of the file keeps truncated files out of exports.
* `Released`: an opened response is closed in the end, also when the reader went
  away before it was opened or while it was paused, and when nobody reads it.
  The timer is what guarantees this.
* `NeverStuck`: pausing in one callback and resuming in another never leaves
  reader and source waiting for each other. The timer would end such a wait, and
  so hide it from `Served`; it is therefore stated of every state, without it.
* `Served`: a reader gets the end or an error, unless it leaves or is cut off.
  The exception `cut` is a behaviour of the code a reader should know: a stream
  destroyed without an error emits only `close`, which the lazy readable does not
  listen to, so a reader cut off by the timer waits for ever.

Bounds. Five chunks and marks of two fill both buffers, with one chunk more to
come. Fairness: streams move when they can, a request under way is answered, an armed
timer runs down; a reader that has begun to read takes what is there. Whether it
begins at all, faults and disconnections are not fair.

Proved for objects and buffers of every size (`LazyReadableProofs`):
`StreamTypeCorrect` (`Spec => []TypeOK`, where the part that matters is that no
buffer exceeds its mark) and `EndIsWhole` (`Spec => []EndMeansAll`). The
inductive invariant says that chunks are conserved, that the end travels behind
the last chunk and a response is opened once, and that a full lazy readable has
paused its source: without the last, `Forward` could overfill the buffer.

What `Served` and `Released` rest on is proved as well. `ReaderIsFed` (`Spec => []NeverStuck`):
the invariant says who will wake whom, so that a paused source always has a reader with
something to take or room to fill. `EffortIsSpent`: `Effort`, a number of at most
`3 * Total + 6`, falls with every step, so that pausing and resuming cannot go round.
`RestIsReleased`: when no step is left, the response is closed and a reader has its end or
its error, unless it left or was cut off. The guards have names in the module
(`CanForward`, `CanTake`, ...), since ENABLED is out of the provers' reach. Left to
TLC is the temporal step: that under fairness what can happen does.

## 6. Counting dependents (`DependentsCount`)

**State.** `deps` are the dependency lists of the installed libraries, by type;
`rest`, `queue`, `cur`, `todo` are the locals of `removeCircularDependencies`;
`declared` is a history variable, the lists before the call. `Search`, `Shift`,
`Cut`, `Through` are its two loops; one `Cut` handles one dependency of the
current library: the opposite one, of whatever type, is deleted, and the
dependency is queued. Libraries and lists come in any order.

| run | instance | shows |
|---|---|---|
| `dependents` | all graphs of three libraries with at most two dependencies each, of two types, and one library that is not installed, without a ring of three | `OneSideKept`, `NoMutualLeft`, `Returns` |
| `dependents_ring` | a needs b, b needs c, c needs a | `Returns` is violated |

* `OneSideKept`: a dependency is lost only if its opposite is kept. So of two
  libraries that need each other one still counts as needed, whatever the
  order. Which one is a matter of order: the job can see a wished library
  without dependents.
* `NoMutualLeft`: when the call is through, no mutual dependency is left that would keep
  two unwanted libraries installed for ever.
* `Returns` holds without longer cycles. On a ring of three, only opposites are
  deleted, no library is marked as visited, and the search goes round for ever.
  The job and the library administration call it on the installed libraries.

Fairness: the loop goes on. The options in `semantics.json`, which are counted
as well but never cut, and self dependencies are left out.

`DependentsCountProofs` proves, for every set of libraries and every graph, rings
included, `CutTypeCorrect` (`Spec => []TypeOK`; no run checks
it, the proof does), `NoRelationLost` (`Spec => []OneSideKept`) and `MutualCut`. `OneSideKept` needs two facts to be inductive: what is still to be
looked at is still a dependency of the current library (`TodoIsKept`), since it is
the other side of the one that is cut, and nobody depends on itself
(`NoSelf`), or the lists that are cut and walked would be the same. `MutualCut`
(`Spec => []NoMutualLeft`) rests on `MutualAhead`: of two libraries that depend on each
other, each still waits to be looked at, or is being looked at with the other before
it. So a pair cannot be left over, whatever the order, and when nothing waits there
is none.

## 7. The library storage among several actors (`LibraryStorage`)

**State.** One ubername: `docs[d]` the patch version in document `d` (0: no such
document), `folder[f]` that of file `f` in S3. `flow[x]` is where actor `x` is, the
call it makes next and its locals; the actors are the run of the job, the
installers it starts, and an editor that lists libraries. `deletions` and `late` are
history variables.

**Actions** are named after the methods: `FindByNameAndExactVersion`, `CreateLibrary`
(`addLibrary`), `FindForUpdate`, `Save` (`updateLibrary`), `ClearFiles`, `DeleteObject`,
`FolderDeleted`, `DeleteLibrary`, `FindForDelete`, `DeleteEntry`,
`GetInstalledLibraryNames`, `ReadListed`, `CheckConsistency`, and the phases of the run.
A lookup that meets none or several documents throws, and the model follows the
error to whoever catches it: `deleteLibrary` that throws ends the run (`EndRun`, and
with it the process and every installer in it), the list that throws fails the page
of the editor. `IsInstalled`, `AddFile` and the order of calls of an installer are
h5p-server's (external).

When an installer holds its lock for too long, the job deletes the library and
goes on (`TimesOut`); nothing stops the installer, which from then on shares the
stores with the run.

| run | instance | shows |
|---|---|---|
| `storage` | any folder, at most one document at first; two installers, two timeouts, an editor | `TypeOK`, `ListFailsOnlyOnDeletion`, `Recovers` |

* Two documents: MongoDB has no unique index on name and version, so only the
  order of calls keeps a library to one document, and one order does not. The lock's
  time is over before the first lookup of an installer has returned; the job takes the
  library back and goes on; the lookup then finds none, the synchronisation of the same run
  finds none either and adds the entry from `library.json`, and the installer adds
  its own. From then on every list of libraries throws, the one every run starts with
  included, and nothing repairs this. TLC finds this behaviour, with one timeout, as a
  counterexample to the last part of `TypeOK` without `late`.
* `late` records the one circumstance this takes: an installer the run has left looks
  the library up afterwards and finds none. `TypeOK` says, of all other interleavings, that
  there is at most one document.
* `ListFailsOnlyOnDeletion`: a list fails only when a library was deleted while it was being
  read, or after `late`.
* `Recovers`: runs bring the library back to one entry with its files, whatever an
  abandoned installer has written or removed in between, at whatever call it was
  abandoned, unless `late`.

Bounds: two documents are enough to violate what one document is needed for; when both
exist a third is not added (`CreateLibrary` waits), which happens only after `late`, where
nothing is claimed any more. Two installers are one abandoned and one that follows; patch versions up to 2 are
older and current. Fairness: the job is scheduled and its calls return, installers'
calls return. Nobody has to open an editor, and timeouts are not fair.

**Proved** (`LibraryStorageProofs`), for any number of documents and installers, left
behind at any call: `StorageTypeCorrect` (`TypeOK`) and `PagesFailOnlyOnDeletion`
(`ListFailsOnlyOnDeletion`). The invariant says why one document stays one, unless `late`,
although nothing in MongoDB enforces it. `Single`: there is at most one. `OneAdds`: an actor between its lookup and its insert has
found none, and is either the job itself or the installer the job waits for, or is
about to take the library back from; in that last case the job's `deleteLibrary`
meets no document, throws and ends the process with the installer in it.
`EditorReads`: what the editor has still to read is there, unless something was deleted
since it began. `TypeInv` has the places each actor can be at and where a called
operation returns to. `Recovers` stays with TLC.

## 8. The S3 adapter (`S3Adapter`)

**State.** `bucket` (it exists), `at[<<area, k>>]` the file stored under key `k` in the
folder or in the trash, named by the number of the call that created it, `rules` the
lifecycle rules, `call[c]` the call client `c` is in with its page, marker and copies
still under way, `answer[c]` how its last call ended. History: `newest`, `waived`,
`configured`, `crossed`.

**Actions** are requests: `Put`, `CreateBucket`, `CopyObject`, `DeleteObjects`, `ListPage`,
`Read`, `ReadRules`, `PutRules`, and what an error of each leads to. `CopiesSettled` is
`Promise.allSettled`; `Truncated` goes on to the next page; `StreamTimesOut` is the timer of
the stream of `get`. `moveToTrash`, `moveDirectoryToTrash` and `restore` have no
caller in this repository yet, but are the adapter's public interface.

| run | instance | shows |
|---|---|---|
| `s3_adapter` | two clients, a directory of two files listed one by one, one more file, four calls of ten kinds, one fault or kill, bucket present or not | `TypeOK`, `Kept`, `ListsDirectory`, `RulesKept`, `DirectoryEmptied`, `CallsEnd` |

* `Kept`: the newest file stored whole under a key is in the folder or in the trash.
  The comment in `moveFilesToTrash` argues that no rollback is needed; this is what it
  relies on. A copy counts as a new file of the key it is put under. Exempt are files
  that were deleted or had another one restored over them, files another call touched
  during their move, and (this is the code's behaviour) files whose own copy failed in a move, since failed copies
  are only logged and the original is deleted all the same, and keys whose upload
  was repeated after the bucket was created, with a stream the first attempt had
  read from.
* `RulesKept`: rules are read and written back as a whole, by every client at its
  start; none is lost and no folder gets a second one, unless two clients
  configure at the same time.
* `DirectoryEmptied`, `ListsDirectory`: paging misses nothing and respects the limit.
* `CallsEnd`: creating a missing bucket and starting over does not go round for
  ever, and every stream is closed, in the end by its timer.

Bounds: pages of one key and a directory of two make two pages; four calls are a
sequence such as move, create, restore, delete. Fairness: requests are answered.
Assumed of the constants: what a client configures, and what the bucket has at first,
names a folder once (`OneRule`).

**Proved** (`S3AdapterProofs`), for any clients, keys, calls, rules and page size, on
the types (`TypeInv`: which steps an operation has, what its page and its copies under
way may be, that a missing bucket is empty):

* `MovesLoseNothing` (`Kept`). Three invariants carry it. `Told`: two calls that share
  keys, one of which writes, have them in `met`. `Copied`: what a move is about to
  delete is at its target, unless its copy failed or was interfered with. `Placed`:
  the newest file is in its place, or in the trash with nothing in its place. `Kept`
  alone is not inductive: a deletion keeps it only because of `Copied`, and `Copied`
  survives the other calls only because of `Told`.
* `LifecycleRulesKept` (`RulesKept`), from `RulesInv`: what a configuration has read is
  what the bucket has, unless two overlapped.
* `DirectoriesEmptied` (`DirectoryEmptied`), from `Swept`: up to the marker nothing is left
  but what the call has met.
* `ListingsComplete` (`ListsDirectory`), from `ListedSoFar`: what was found is all there is up
  to the marker. That a page is a beginning of what remains, and that there is one
  beginning of a length, are lemmas about finite sets of keys (`PageIsFirst`,
  `FirstIsUnique`), by the least number principle.
* `CallsFinish`: what a call still has to do (`WorkOf`: the keys ahead of its marker, the
  rank of its request, the copies under way) decreases in a well-founded order with
  each of its requests and is not increased by another call. Creating a missing bucket
  starts over once, since a bucket that is there stays there (`BucketStays`); a page
  moves the marker on, whatever others delete or add behind it. That a call that is not
  through has a request to make, and its stream a timer, stays with TLC (`CallsEnd`).

## 9. Supplying libraries

Three scripts are run by hand, one at a time, in any order. They share a map file
(`repoOf`) and the temporary directory (`folder`).

**`LibraryRepoMap`** (`update-h5p-map.ts`): owners are visited in order
(`VisitOwner`); what cannot be read is logged and forgotten; `Merge` overrides.

**`LibraryPackager`** (`package-h5p-libraries.ts`): the recursion of
`buildLibrary`, `buildLibraryVersionAndDependencies` and `buildLibraryDependency` is an
agenda worked off from the front, so that its order is the code's order of visits.
`bad` are the calls to GitHub and the Hub that fail in a step; answers are cached,
failures are not. `Packed` is one build: unpacking, the correction of version and
paths, npm with the options listed for the tag, the clean-up by `.h5pignore`, the
check for preloaded files. A folder is named by major and minor version, so
different patch versions share it, and a tag written with `v` has one of its own.
`PathsCorrected` drops the missing scripts, or when none is missing the missing styles, from what
`library.json` asks for. `HubSeen` is the version the client finds in the Hub's package: it
takes the first folder whose name starts with the library's name, and `Hub[n]` stands for
the version it reads there.

**`LibraryUploader`** (`upload-h5p-libraries.ts`): `CheckExists`, `CompareVersions`,
`DeletePage`, `SendBatch`; the first error ends the script (`GiveUp`) wherever it is. The
job may remove a folder at any moment, and does it page by page (`JobRemoves`): it lists up
to `PageSize` keys (`JobLists`) and deletes these keys by a later request (`JobDeletes`),
whatever the uploader has stored under them in between. It may stop after any page.
`source` follows what a folder should hold: the files of the local folder it was last
uploaded from, without those the job has deleted since.

| run | instance | shows |
|---|---|---|
| `supply` | a content type and its editor that need each other, a fork, a library without tags, a broken version, a version newer than the Hub's, two local folders for one in S3, a library that needs another one's line above the Hub's; one mishap, the pages the job lists included | `TypeOK`, `OfficialWins`, `DependenciesSettled`, `AvailableIsWhole`, `HeldBack`, `UploadsAsExpected`, `FaithfulCopy`, `RoundUploads`, `ScriptsEnd` |

* `OfficialWins`: a fork is taken for the original only if a call about the original
  failed. That this happens at all, and that the map is written nevertheless, is
  the code's behaviour.
* `DependenciesSettled`: at the end each dependency of each version built is built or
  noted as failed, whatever cycles there are.
* `AvailableIsWhole`: a version counted as built has its preloaded files. The exception
  in its statement is a newer patch version tried later in the same folder that
  failed: it leaves its remains in place of the one that was built.
* `HeldBack`: on its own account a library is built only below the Hub's version. A version
  that is not below is there because one that was built depends on its line; in the
  Hub's own line such a dependency is built in the Hub's patch version at most, if that has a tag
  and no patch version is forced. In another line nothing holds it back: the code caps a
  dependency only when major and minor version are the Hub's, so the instance has `mb` 2.1
  built, above the Hub's `mb` 1.2, because `mc` needs it.
* `UploadsAsExpected`: the refinement of `UploadContract`. While a folder is being
  uploaded it counts as it was before (`Seen`, with the history variable `was`); when the
  upload is over or interrupted, the contract takes its step.
* `FaithfulCopy`, `RoundUploads`: a folder that is neither being uploaded nor left by a
  broken-off upload holds files of one local folder, all in one patch version. Files may be
  missing from it only if the job has deleted them, and the job can delete fresh ones: those
  it had listed when they were still the old ones. Nothing marks such a copy as incomplete
  until the job's consistency check meets it. A round that ends has uploaded
  everything, earlier interrupted uploads included, except over a folder
  without `library.json`, which the script takes as up to date for ever and
  only the job removes, and to a folder the job has deleted from since the round began
  (`removed`, a history variable). Two local folders, one of a tag written with `v`, can go
  to one folder in S3; then the newer patch version stays, whichever is uploaded first, unless
  the job removes it before the older one is compared.
* `ScriptsEnd`: under fairness of the running script.

Bounds: three libraries, two lines, three patch versions, three files, batches and pages of
two, so that a removal by the job takes two pages. One mishap can strike any of the three
scripts; a page listed by the job counts as one. Assumptions: scripts run one at a time; tags are of the form
`[v]major.minor[.patch]`; the temporary directory holds no foreign folders, a kill
between unpacking an archive and renaming its folder included, which would leave one under
the name of the repository and tag; a script
that is started again finds what the last one left.

**Proved** (`LibrarySupplyProofs`), for any owners, repositories, tags, dependencies and
libraries that satisfy the assumptions of the modules, with the scripts run in any
order and interrupted anywhere. Each script has an invariant of its own, which the
other two leave alone; `SupplyInvariant` proves them together, and the theorems on the
types (`SupplyTypeCorrect`) and on the properties follow.

* `ForksOverridden` (`OfficialWins`), and `LaterOwnersWin` for the script on its own
  (`MapSpec`), from `DraftInv`: the owners still to visit are a tail of `Owners`, and the draft
  is right about those before it; one more `Merge` either overrides a name or leaves
  it to the owner it has.
* `NoDependencyForgotten` (`DependenciesSettled`), `BuiltIsWhole` (`AvailableIsWhole`),
  `NoneAboveHub` (`HeldBack`), from `PackagerInv`. The recursion is an agenda, so that the
  invariant can speak of what is still to come: each dependency of what was built is
  settled or on the agenda (`AgendaRight`), and the versions on the agenda have a tag in
  the repository, and are below the Hub's or asked for by what was built, then at most the
  Hub's in its own line. Cycles do no harm, since a version that is
  met again is available by then.
* `CopiesFaithful` (`FaithfulCopy`), `RoundsComplete` (`RoundUploads`), `UploadsKeepContract`
  (`UploadsAsExpected`), from `UploaderInv`. `Compared`, `Held` and `Sent` say what the folder
  holds while it is compared, cleared and filled, with the job deleting from it, what it
  listed before included, at any time;
  `Rounds`, which folders a round has brought up to date so far. The refinement is
  proved step by step: the start of an upload and its batches stutter, the end, an error or
  the removal of a page is a step of the contract.
* `MapUpdateEnds`, `PackagingEnds` and `UploadEnds`, the argument under `ScriptsEnd`: as long as
  a script runs, each of its steps ends it or leaves it less to do in a well-founded
  order, and a removal by the job never adds to that. For the map it is the owners still
  to visit; for the packager the versions neither built nor given up, then the agenda, so that
  libraries that need each other do not keep it going; for the uploader the folders
  ahead and the files to list, delete and send. The last two assume finitely many names and
  lines, and files.

## 10. Requests to the editor (`EditorRequests`)

**State.** `req[r]` is a request: its route, the step of its handler, the answer sent,
whether the connection has closed and whether a listener heard it, the stream the
handler works with, a download's export, the temporary directory of an SVG upload.
All requests share `Sockets` sockets to S3 (`maxSockets` of the factory): a stream
holds one until it has ended or its timer destroys it. `Held(q)` are the sockets a
request holds, by what holds them, `InUse` those of all requests.

**Actions** follow the use cases: `ReadContent`, `CheckPermission`, then one per route
(`GetAjax`, `GetH5pEditor`, `StatContentFile`, `OpenTemporaryFile`, `StreamMetadata`, `StartExport`,
`ReceiveFile` to `DeleteSvg`, `Fetch` to `CopyFails`, ...), then the controller's
return (`ReturnBody`, `ReturnFile`, `ReturnLibraryFile`, `ReturnDownload`). `TimesOut` is the interceptor: the
client has its 408 and the handler goes on. `Close` is the `close` event of the
request; the listener that destroys the stream hears it only if it was registered
before. A stream that breaks while it is sent meets the default error handler of NestJS's
`StreamableFile` (`SendFails`): a 400 as long as nothing is out, after that the response is
ended.

| run | instance | shows |
|---|---|---|
| `editor` | two requests, every route, two sockets, two failures | `TypeOK`, `TempDirGone`, `ToldTruly`, `HandlersEnd` |

* `HandlersEnd`: every handler ends and gives its sockets back. Two saves can each hold
  the socket of their source and wait for a second one to write to; streams of
  clients that left before the listener was registered, of answers discarded after
  the 408, and of `fileExists` are left open: in each case only the inactivity timer
  of the adapter frees the socket.
* `TempDirGone`: the directory of an SVG is removed after success, error and time limit,
  and not before the upload is through. Excused: a write that fails, after which
  nobody knows the directory, and a deletion that fails, which is logged.
* `ToldTruly`: success is answered only after the fact, also when cleaning up follows a failure,
  and the transfer of a download does not end normally while its export goes on.
* A download that ended normally need not be whole: when its export fails after the first
  bytes, the response is ended like that of a whole package (`SendEnds` with an export that has
  failed), and no length was announced by which the client could tell. The repository's
  tests of the route accept this. So `ToldTruly` does not claim it.

Bounds: two requests and two sockets are what it takes for each to hold one and wait
for the other's. Fairness: handlers and exports go on, timers fire, answered connections are
closed. Clients need not leave and failures need not happen. What h5p-server does
for a route is reduced to the storage calls it makes. Routes of a kind are divided
between the two requests (see `MCEditorRequests`).

**Proved** (`EditorRequestsProofs`), for any set of requests and any number of sockets:
`EditorTypeCorrect` (`TypeOK`, with the limit on sockets), `TemporaryDirectoriesGone`
(`TempDirGone`) and `ClientsToldTruly` (`ToldTruly`). The invariant has two parts. `FlowInv` is
about one request: `Stage` pairs a route with the steps its handler has, and for each
step it says what may have been answered, whether the temporary directory is there, what
has been stored, and how the export of a download stands. `SocketsInv` counts: the
sockets in use are a finite set of at most `Sockets`; a step of one request takes at
most one more, and only if one is free.

The argument under `HandlersEnd` is proved in three theorems. `HandlersAdvance`: what a request
still has to do (`Todo`) is a number of at most `82 + 2 * MaxMishaps`, and every step leaves
the request that takes it less and no other more. `NobodyWaitsForGood`: a request that is not
through can move, or waits for a socket while one is free or its holder can move without
another; so saves that hold one socket each and want a second do not wait in a circle.
`MovesAreSteps`: such a move is a step of a handler, an export or a timer. Together they
leave to TLC the temporal step, that fairness takes what stays possible.

## 11. What is proved and what is checked

Proved for every value of the constants that the modules' assumptions allow:

| module | theorems |
|---|---|
| `LibraryManagementProofs` | `TypeCorrect`, `FinishedRunCorrect`, `NoFilesOrphaned` (without `keys` faults), `NeededLibrariesStay`, `ChainsGone`, `RunsEnd` (finite libraries, wishes, files) |
| `LibraryStorageProofs` | `StorageTypeCorrect`, `PagesFailOnlyOnDeletion` (both unless `late`) |
| `DependentsCountProofs` | `CutTypeCorrect`, `NoRelationLost`, `MutualCut` |
| `LibrarySupplyProofs` | `SupplyTypeCorrect`, `LaterOwnersWin`, `ForksOverridden`, `NoDependencyForgotten`, `BuiltIsWhole`, `NoneAboveHub`, `CopiesFaithful`, `RoundsComplete`, `UploadsKeepContract`, `MapUpdateEnds`, `PackagingEnds` (finite names, lines), `UploadEnds` (and files) |
| `S3AdapterProofs` | `AdapterTypeCorrect`, `MovesLoseNothing`, `LifecycleRulesKept`, `DirectoriesEmptied`, `ListingsComplete`, `CallsFinish` |
| `EditorRequestsProofs` | `EditorTypeCorrect`, `TemporaryDirectoriesGone`, `ClientsToldTruly`, `HandlersAdvance`, `MovesAreSteps`, `NobodyWaitsForGood` |
| `ContentLifecycleProofs` | `ContentTypeCorrect`, `ContentsWholeAtRest`, `WorkRunsOut` (finite files, workers) |
| `LazyReadableProofs` | `StreamTypeCorrect`, `EndIsWhole`, `ReaderIsFed`, `RestIsReleased`, `EffortIsSpent` |

The inductive invariants were checked by TLC on small instances before they were proved. Twice
TLC and the proof showed a property to be false on an instance other than the one of
its run: `ChainsUninstalled` when the deletion of an entry fails after that of its folder, and
`RoundUploads` when two local folders go to one in S3 that the job removes meanwhile. Both now name the exception.

Only checked by TLC, on the instances above: what holds under fairness, since the provers
reach neither induction over behaviours nor ENABLED. How much of each is left to TLC differs:

| property | proved for every instance | left to TLC |
|---|---|---|
| `Released`, `Served` | every step uses effort up (`EffortIsSpent`); at rest the property holds (`RestIsReleased`) | that fairness brings the stream to rest |
| `HandlersEnd` | every step lessens what is to do (`HandlersAdvance`); who waits can move, or a holder can (`NobodyWaitsForGood`, `MovesAreSteps`) | that fairness takes the step |
| `RunEnds` | `RunsEnd` | that a run that is not over has a step, and fairness takes it |
| `ScriptsEnd` | `MapUpdateEnds`, `PackagingEnds`, `UploadEnds` | the same of a script, in any order of its lists |
| `CallsEnd` | `CallsFinish` | the same of a call; that streams are closed |
| `AllHandled` | `WorkRunsOut` | the same of a message and its worker |
| `Settles`, `Recovers`, `Returns` | nothing | all of it |

The theorems on measures need no fairness. They say that no loop, retry or interleaving goes
round, which is where the code could be wrong; that calls return and timers run down is what
it assumes of its environment. The sets they take to be finite are finite in the program: the
constants are open only because the safety theorems do not need it.

The three expected violations are counterexamples TLC finds.

History variables (`excused`, `torn`, `clashed`, `declared`, `deletions`, `newest`, `waived`,
`late`, `configured`, `crossed`, `missed`, `blind`, `was`, `lost`, `source`, `removed` of the uploader) record
what has happened; no action of the code depends on them.

## 12. Not modelled

* The caches of h5p-server (`CachedLibraryStorage`, key-value caches in MongoDB), which the
  job's direct deletions and updates do not invalidate: what they keep and how long
  is decided outside this repository. All models take reads through them as fresh.
* Change detection of MikroORM on the lists that the search for cycles cuts.
* Bytes, encodings and lengths; among them the announced length of a generated
  `library.json`, which counts UTF-16 units of a UTF-8 stream.
* Reads that change no state and hold nothing: `countUsage`, `getMetadata`,
  `getParameters`, `listFiles`, languages; `updateAdditionalMetadata`, which nothing calls.
* `writeStreamToFile`, which does not settle when its source fails before the end: the
  packager then waits for ever. The model takes downloads as calls that return.
* Durations. A timer may fire at any moment after it was set.
* Authorization, authentication, error mapping, configuration and logging keep no
  state; the authorization client appears as a call that answers or throws. The
  API client is generated code, and nothing uses the RPC message producer.

## 13. Running

    tlasany LibraryManagement.tla
    tlc -workers 2 -config LibraryManagement.cfg MCLibraryManagement.tla
    tlc -workers 2 -config LibraryStorage.cfg LibraryStorage.tla
    tlc -workers 2 -config LibrarySupply.cfg MCLibrarySupply.tla
    tlc -workers 2 -config S3Adapter.cfg MCS3Adapter.tla
    tlc -workers 2 -config EditorRequests.cfg MCEditorRequests.tla
    tlc -workers 2 -config ContentLifecycle.cfg ContentLifecycle.tla
    tlc -workers 2 -config LazyReadable.cfg LazyReadable.tla
    tlc -workers 2 -config DependentsCount.cfg MCDependentsCount.tla
    tlapm LibraryManagementProofs.tla
    tlapm LazyReadableProofs.tla
    tlapm LibraryStorageProofs.tla
    tlapm LibrarySupplyProofs.tla
    tlapm DependentsCountProofs.tla
    tlapm S3AdapterProofs.tla
    tlapm EditorRequestsProofs.tla
    tlapm ContentLifecycleProofs.tla

The operators introduced as mutants or broken variants in the modules are not
part of any specification. Each replaces the definition after it to show that
the property listed for it in `PROJECT.json` notices the difference.
