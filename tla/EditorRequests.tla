----------------------------- MODULE EditorRequests -----------------------------
(***************************************************************************)
(* Requests to the editor application: the handler of a route runs behind  *)
(* a time limit, its client may go away at any moment, and all handlers    *)
(* share a pool of sockets to S3.                                          *)
(*                                                                         *)
(* What the h5p-server library does for a route is modelled by the calls   *)
(* it makes to the storages of this repository.  A stream from S3 holds a  *)
(* socket until it has ended or its own timer destroys it.                 *)
(***************************************************************************)
EXTENDS Integers, FiniteSets

CONSTANTS
  Req,         \* requests
  Routes,      \* Routes[r]: the routes request r may be for
  Sockets,     \* maxSockets of the S3 client
  MaxMishaps   \* bound on failures

\* The routes of a stored content, those for anyone of the school, and saving, where
\* the client names the parent.
OfContent  == {"play", "params", "contentFile", "edit", "delete", "download"}
OfSchool   == {"libraryFile", "tempFile", "getAjax", "postAjax", "newEdit"}
OfParent   == {"save"}
Route      == OfContent \cup OfSchool \cup OfParent
Streamed   == {"contentFile", "libraryFile", "tempFile", "download"}

ASSUME RequestsAssumption ==
  /\ IsFiniteSet(Req)
  /\ Routes \in [Req -> SUBSET Route]
  /\ Sockets \in Nat \ {0} /\ MaxMishaps \in Nat

VARIABLES
  req,      \* req[r]: the state of a request, see Fresh
  mishaps,
  excused   \* history: requests whose temporary directory could not be handled

vars == <<req, mishaps, excused>>

\* step: what the handler is about to do; answer: what the client has been sent;
\* closed: the request has emitted 'close'; heard: somebody listened for it;
\* data: the stream the handler works with, on its way to the client or to S3;
\* loose: streams opened for their existence alone; back: the export of a
\* download; dir: the temporary directory of an SVG upload, or the file is in memory;
\* through: the calls of a Promise.all that have returned; sent: how far the
\* answer got; stored: the upload or save has taken effect.
Fresh ==
  [route |-> "none", step |-> "free", answer |-> "none", closed |-> FALSE, heard |-> FALSE,
   data |-> "none", loose |-> 0, back |-> "none", dir |-> "none", failing |-> FALSE, through |-> {},
   sent |-> "none", stored |-> FALSE]

Init ==
  /\ req = [r \in Req |-> Fresh]
  /\ mishaps = 0 /\ excused = {}

Go(r, next) == req' = [req EXCEPT ![r] = next]

Fault ==
  /\ mishaps < MaxMishaps
  /\ mishaps' = mishaps + 1

\* The sockets a request holds.
Held(q) ==
  (IF q.data \in {"open", "left"} THEN {<<"data", 1>>} ELSE {})
    \cup {<<"loose", i>> : i \in 1..q.loose}
    \cup (IF q.back = "reading" THEN {<<"export", 1>>} ELSE {})
    \cup (IF q.step \in {"storing", "copying"} THEN {<<"upload", 1>>} ELSE {})

InUse == UNION {{r} \X Held(req[r]) : r \in Req}

\* Mutant: one socket more than there are.
SocketAtLimit == Cardinality(InUse) <= Sockets

SocketFree == Cardinality(InUse) < Sockets

(***************************************************************************)
(* The way of every request: the content is read for its parent, the       *)
(* permission is asked for, the route does its work.                       *)
(***************************************************************************)
Arrive(r) ==
  /\ req[r].step = "free"
  /\ \E route \in Routes[r] :
       Go(r, [req[r] EXCEPT !.route = route,
                !.step = IF route \in OfContent THEN "content" ELSE "permission"])
  /\ UNCHANGED <<mishaps, excused>>

\* The handler throws: the client has its answer, unless the time limit was faster.
Threw(q) == [q EXCEPT !.step = "over", !.answer = IF @ = "none" THEN "error" ELSE @]

\* A call of another service, of the database or of h5p-server: it answers and the
\* handler goes on, or it throws.
AnswersOrThrows(r, next) ==
  /\ Go(r, next) \/ Go(r, Threw(req[r]))
  /\ UNCHANGED <<mishaps, excused>>

ReadContent(r) ==
  /\ req[r].step = "content"
  /\ AnswersOrThrows(r, [req[r] EXCEPT !.step = "permission"])

FirstWork(route) ==
  CASE route \in {"contentFile", "tempFile"} -> "stat"
    [] route = "libraryFile" -> "open"
    [] route = "download" -> "export"
    [] route \in {"getAjax", "postAjax"} -> "language"
    [] route = "save" -> "fetch"
    [] OTHER -> "act"

CheckPermission(r) ==
  /\ req[r].step = "permission"
  /\ AnswersOrThrows(r, [req[r] EXCEPT !.step = FirstWork(req[r].route)])

\* getUser, inside the try of postAjax: at this point there is nothing to clean up.
GetUserLanguage(r) ==
  /\ req[r].step = "language"
  /\ AnswersOrThrows(r, [req[r] EXCEPT !.step = IF req[r].route = "getAjax" THEN "act" ELSE "file"])

(***************************************************************************)
(* Routes whose work is one call of h5p-server.                            *)
(***************************************************************************)
Works(r, route) ==
  /\ req[r].step = "act" /\ req[r].route = route
  /\ AnswersOrThrows(r, [req[r] EXCEPT !.step = "return"])

GetAjax(r) == Works(r, "getAjax")
GetContentParameters(r) == Works(r, "params")
GetH5pPlayer(r) == Works(r, "play")
GetEmptyH5pEditor(r) == Works(r, "newEdit")

\* Promise.all of two calls: the first that fails gives the answer, the other goes on.
GetH5pEditor(r) ==
  /\ req[r].step = "act" /\ req[r].route = "edit"
  /\ LET q == req[r] IN
     \E call \in {"render", "getContent"} \ q.through, fails \in BOOLEAN :
       LET through == q.through \cup {call}  failing == q.failing \/ fails
           next == [q EXCEPT !.through = through, !.failing = failing,
                      !.answer = IF @ = "none" /\ fails THEN "error" ELSE @] IN
       Go(r, [next EXCEPT !.step = IF Cardinality(through) < 2 THEN "act"
                                   ELSE IF failing THEN "over" ELSE "return"])
  /\ UNCHANGED <<mishaps, excused>>

DeleteH5pContent(r) ==
  /\ req[r].step = "act" /\ req[r].route = "delete"
  /\ AnswersOrThrows(r, [req[r] EXCEPT !.step = "return", !.stored = TRUE])

(***************************************************************************)
(* Files.  The stream of a content file is lazy, the others are opened.    *)
(***************************************************************************)
\* getFileStats: a HEAD request, whose answer may lack the length.
HeadAnswers(r, next) == SocketFree /\ AnswersOrThrows(r, next)

\* Size and range: a file that is missing or a range that is refused throws.
StatContentFile(r) ==
  /\ req[r].step = "stat" /\ req[r].route = "contentFile"
  /\ HeadAnswers(r, [req[r] EXCEPT !.step = "return", !.data = "lazy"])

StatTemporaryFile(r) ==
  /\ req[r].step = "stat" /\ req[r].route = "tempFile"
  /\ HeadAnswers(r, [req[r] EXCEPT !.step = "open"])

\* TemporaryFileStorage.getFileStream: paused until it is piped.
OpenTemporaryFile(r) ==
  /\ req[r].step = "open" /\ req[r].route = "tempFile" /\ SocketFree
  /\ AnswersOrThrows(r, [req[r] EXCEPT !.step = "return", !.data = "open"])

\* A library.json is written anew from the metadata in the database.
LibraryFile(r, stream) ==
  /\ req[r].step = "open" /\ req[r].route = "libraryFile"
  /\ AnswersOrThrows(r, [req[r] EXCEPT !.step = "return", !.data = stream])

StreamMetadata(r) == LibraryFile(r, "buffered")
OpenLibraryFile(r) == SocketFree /\ LibraryFile(r, "open")

(***************************************************************************)
(* download: the export runs on behind the PassThrough that is returned.   *)
(***************************************************************************)
StartExport(r) ==
  /\ req[r].step = "export"
  /\ Go(r, [req[r] EXCEPT !.step = "return", !.data = "pass", !.back = "running"])
  /\ UNCHANGED <<mishaps, excused>>

ExportReads(r) ==
  /\ req[r].back = "running" /\ SocketFree
  /\ Go(r, [req[r] EXCEPT !.back = "reading"])
  /\ UNCHANGED <<mishaps, excused>>

\* Into a PassThrough nobody reads it can only write what the buffers take.
ExportDone(r) ==
  /\ req[r].back = "reading"
  /\ Go(r, [req[r] EXCEPT !.back = "done"])
  /\ UNCHANGED <<mishaps, excused>>

\* passThrough.destroy(error)
Broken(q) == [q EXCEPT !.back = "failed", !.data = IF @ = "pass" THEN "gone" ELSE @]

ExportFails(r) ==
  /\ req[r].back \in {"running", "reading"}
  /\ Fault
  /\ Go(r, Broken(req[r]))
  /\ UNCHANGED excused

(***************************************************************************)
(* postAjax.  An uploaded file becomes a temporary file in S3; an SVG goes  *)
(* through a directory of its own, where h5p-server can clean it.          *)
(***************************************************************************)
ReceiveFile(r) ==
  /\ req[r].step = "file"
  /\ \/ Go(r, [req[r] EXCEPT !.step = "write", !.dir = "empty"])
     \/ Go(r, [req[r] EXCEPT !.step = "name", !.dir = "memory"])
     \/ Go(r, [req[r] EXCEPT !.step = "act"])
  /\ UNCHANGED <<mishaps, excused>>

\* If the write fails, nobody remembers the directory.
WriteSvg(r) ==
  /\ req[r].step = "write"
  /\ \/ Go(r, [req[r] EXCEPT !.step = "name", !.dir = "full"]) /\ UNCHANGED <<mishaps, excused>>
     \/ Fault /\ excused' = excused \cup {r} /\ Go(r, Threw(req[r]))

\* Mutant: an upload that fails leaves the handler at once.
AfterStore(q, failing) ==
  IF failing THEN Threw(q) ELSE [q EXCEPT !.step = "clean", !.stored = TRUE]

\* Mutant: the error of the upload is swallowed.
Swallowed(q, failing) == [q EXCEPT !.step = "clean", !.stored = ~failing]

\* The finally block comes after the success and the error.
Finally(q, failing) == [q EXCEPT !.step = "clean", !.failing = failing, !.stored = ~failing]

\* Libraries, translations, parameters to be filtered: no file is stored.
PostAjax(r) ==
  /\ req[r].step = "act" /\ req[r].route = "postAjax"
  /\ \E failing \in BOOLEAN : Go(r, Finally(req[r], failing))
  /\ UNCHANGED <<mishaps, excused>>

\* TemporaryFileStorage.fileExists: get, for the error it may throw.  A stream it
\* does return is left to its timer.
FileExists(r) ==
  /\ req[r].step = "name" /\ SocketFree
  /\ \/ Go(r, [req[r] EXCEPT !.step = "store"]) /\ UNCHANGED mishaps
     \/ Fault /\ Go(r, [req[r] EXCEPT !.loose = @ + 1])
     \/ Fault /\ Go(r, [req[r] EXCEPT !.step = "clean", !.failing = TRUE])
  /\ UNCHANGED excused

SaveFile(r) ==
  /\ req[r].step = "store" /\ SocketFree
  /\ Go(r, [req[r] EXCEPT !.step = "storing"])
  /\ UNCHANGED <<mishaps, excused>>

FileSaved(r) ==
  /\ req[r].step = "storing"
  /\ \/ Go(r, Finally(req[r], FALSE)) /\ UNCHANGED mishaps
     \/ Fault /\ Go(r, Finally(req[r], TRUE))
  /\ UNCHANGED excused

\* An error of the deletion is logged.
DeleteSvg(r) ==
  /\ req[r].step = "clean"
  /\ LET q == IF req[r].failing THEN Threw(req[r]) ELSE [req[r] EXCEPT !.step = "return"] IN
     \/ Go(r, [q EXCEPT !.dir = "none"]) /\ UNCHANGED <<mishaps, excused>>
     \/ q.dir = "full" /\ Fault /\ excused' = excused \cup {r} /\ Go(r, q)

(***************************************************************************)
(* Saving: a temporary file is streamed from S3 to S3.                     *)
(***************************************************************************)
Fetch(r) ==
  /\ req[r].step = "fetch" /\ SocketFree
  /\ AnswersOrThrows(r, [req[r] EXCEPT !.step = "copy", !.data = "open"])

\* A file of at most a part's size has been read before a second socket is needed.
FileBuffered(r) ==
  /\ req[r].step = "copy" /\ req[r].data = "open"
  /\ Go(r, [req[r] EXCEPT !.data = "buffered"])
  /\ UNCHANGED <<mishaps, excused>>

CopyStarts(r) ==
  /\ req[r].step = "copy" /\ req[r].data \in {"open", "buffered"} /\ SocketFree
  /\ Go(r, [req[r] EXCEPT !.step = "copying"])
  /\ UNCHANGED <<mishaps, excused>>

CopyEnds(r) ==
  /\ req[r].step = "copying" /\ req[r].data \in {"open", "buffered"}
  /\ Go(r, [req[r] EXCEPT !.step = "return", !.data = "gone", !.stored = TRUE])
  /\ UNCHANGED <<mishaps, excused>>

\* The upload finds its source destroyed, or S3 refuses it; a stream it has not read
\* to its end is left to its timer.
CopyFails(r) ==
  /\ \/ req[r].step \in {"copy", "copying"} /\ req[r].data = "gone" /\ UNCHANGED mishaps
     \/ req[r].step = "copying" /\ Fault
  /\ Go(r, [Threw(req[r]) EXCEPT !.data = IF @ = "open" THEN "left" ELSE "gone"])
  /\ UNCHANGED excused

(***************************************************************************)
(* The answer, the time limit, and clients that go away.                   *)
(***************************************************************************)
\* data.destroy(): without an error, so that S3's half is not told.
Dropped(d) == CASE d = "open" -> "left" [] d \in {"lazy", "pass", "buffered"} -> "gone" [] OTHER -> d

\* catchError(TimeoutError): who is late is not answered any more.
Timely(q) == q.answer = "none"

\* The controller awaits the use case and returns what it got.
ReturnBody(r) ==
  /\ req[r].step = "return" /\ req[r].route \notin Streamed
  /\ Go(r, [req[r] EXCEPT !.step = "over", !.answer = IF Timely(req[r]) THEN "ok" ELSE @])
  /\ UNCHANGED <<mishaps, excused>>

\* The listener for 'close' destroys the stream, unless 'close' came before it was
\* registered: then only piping into the closed response does, and that happens only
\* to an answer in time.
Streams(r, routes) ==
  /\ req[r].step = "return" /\ req[r].route \in routes
  /\ LET q == req[r] IN
     Go(r, [q EXCEPT !.answer = IF Timely(q) THEN "ok" ELSE @,
              !.step = IF Timely(q) /\ ~q.closed THEN "send" ELSE "over",
              !.heard = ~q.closed,
              !.data = IF Timely(q) /\ q.closed THEN Dropped(@) ELSE @])
  /\ UNCHANGED <<mishaps, excused>>

ReturnFile(r) == Streams(r, {"contentFile", "tempFile"})
ReturnLibraryFile(r) == Streams(r, {"libraryFile"})
ReturnDownload(r) == Streams(r, {"download"})

LazyOpens(r) ==
  /\ req[r].step = "send" /\ req[r].data = "lazy" /\ SocketFree
  /\ Go(r, [req[r] EXCEPT !.data = "open"])
  /\ UNCHANGED <<mishaps, excused>>

SendEnds(r) ==
  /\ req[r].step = "send"
  /\ \/ req[r].data \in {"open", "buffered"}
     \/ req[r].data = "pass" /\ req[r].back \in {"done", "failed"}
  /\ Go(r, [req[r] EXCEPT !.step = "over", !.data = "gone", !.sent = "ended"])
  /\ UNCHANGED <<mishaps, excused>>

\* The stream breaks.  A StreamableFile without an error handler of its own answers 400
\* as long as nothing is out, and ends the response after that: a file is then shorter
\* than announced, a download has announced no length.
SendFails(r) ==
  /\ req[r].step = "send"
  /\ \/ req[r].data = "gone" /\ UNCHANGED mishaps
     \/ req[r].data \in {"lazy", "open"} /\ Fault
  /\ LET q == [req[r] EXCEPT !.step = "over", !.data = "gone"] IN
     \/ Go(r, [q EXCEPT !.answer = "error"])
     \/ req[r].data # "lazy" /\ Go(r, [q EXCEPT !.sent = IF q.route = "download" THEN "ended" ELSE "cut"])
  /\ UNCHANGED excused

\* TimeoutInterceptor: the client gets its 408, the handler goes on.
TimesOut(r) ==
  /\ req[r].step \notin {"free", "send", "over"}
  /\ Timely(req[r])
  /\ Go(r, [req[r] EXCEPT !.answer = "timeout"])
  /\ UNCHANGED <<mishaps, excused>>

\* 'close': the client has gone, or the request was destroyed after the time limit.
Close(r) ==
  /\ req[r].step # "free" /\ ~req[r].closed
  /\ LET q == req[r] IN
     Go(r, [q EXCEPT !.closed = TRUE,
              !.data = IF q.heard THEN Dropped(@) ELSE @,
              !.step = IF @ = "send" THEN "over" ELSE @,
              !.sent = IF q.step = "send" THEN "cut" ELSE @])
  /\ UNCHANGED <<mishaps, excused>>

\* Mutant: only a stream whose reader has gone has a timer.
LeftAlone(q) == q.data = "left"

\* A stream from S3 nobody reads from: destroyed by its reader, discarded after the
\* time limit, or waiting for a socket to be sent on.
Silent(q) == q.data = "left" \/ (q.data = "open" /\ q.step \in {"over", "copy"})

\* setTimeOutAndErrorHandling
StreamTimer(r) ==
  /\ \/ Silent(req[r]) /\ Go(r, [req[r] EXCEPT !.data = "gone"])
     \/ req[r].loose > 0 /\ Go(r, [req[r] EXCEPT !.loose = @ - 1])
     \/ /\ req[r].back = "reading" /\ (req[r].data = "gone" \/ req[r].step = "over")
        /\ Go(r, Broken(req[r]))
  /\ UNCHANGED <<mishaps, excused>>

Handler(r) ==
  \/ ReadContent(r) \/ CheckPermission(r) \/ GetUserLanguage(r)
  \/ GetAjax(r) \/ GetContentParameters(r) \/ GetH5pPlayer(r) \/ GetEmptyH5pEditor(r)
  \/ GetH5pEditor(r) \/ DeleteH5pContent(r)
  \/ StatContentFile(r) \/ StatTemporaryFile(r) \/ OpenTemporaryFile(r)
  \/ StreamMetadata(r) \/ OpenLibraryFile(r) \/ StartExport(r)
  \/ ReceiveFile(r) \/ WriteSvg(r) \/ PostAjax(r) \/ FileExists(r) \/ SaveFile(r)
  \/ FileSaved(r) \/ DeleteSvg(r)
  \/ Fetch(r) \/ FileBuffered(r) \/ CopyStarts(r) \/ CopyEnds(r) \/ CopyFails(r)
  \/ ReturnBody(r) \/ ReturnFile(r) \/ ReturnLibraryFile(r) \/ ReturnDownload(r)
  \/ LazyOpens(r) \/ SendEnds(r) \/ SendFails(r)

Next ==
  \E r \in Req :
    \/ Arrive(r) \/ Handler(r) \/ ExportReads(r) \/ ExportDone(r) \/ ExportFails(r)
    \/ TimesOut(r) \/ Close(r) \/ StreamTimer(r)

\* Handlers and exports go on, timers fire, and a connection that has had its answer
\* is closed in the end.
Spec ==
  /\ Init /\ [][Next]_vars
  /\ \A r \in Req :
       /\ WF_vars(Handler(r))
       /\ WF_vars(ExportReads(r) \/ ExportDone(r))
       /\ WF_vars(StreamTimer(r))
       /\ WF_vars(Close(r) /\ req[r].answer # "none")

(***************************************************************************)
(* Properties.                                                             *)
(***************************************************************************)
TypeOK ==
  /\ Cardinality(InUse) <= Sockets
  /\ mishaps \in 0..MaxMishaps
  /\ \A r \in Req :
       /\ req[r].answer \in {"none", "ok", "error", "timeout"}
       /\ req[r].data \in {"none", "lazy", "open", "left", "pass", "buffered", "gone"}
       /\ req[r].step = "send" => req[r].answer = "ok" /\ ~req[r].closed
       /\ req[r].step = "copying" => req[r].route = "save"

\* The handler of every request ends and gives every socket back, and with it the
\* requests that wait for one, however many streams are opened for clients that have
\* gone or have had their 408, and however many saves hold a socket and wait for a
\* second one.
HandlersEnd ==
  \A r \in Req : (req[r].step # "free" ~> req[r].step = "over" /\ Held(req[r]) = {})

\* The temporary directory of an SVG upload is gone once its handler has ended, after
\* an error and after the time limit too, and stays as long as the upload reads it.
\* Excused: a write that failed, which loses the directory, and a failed deletion.
TempDirGone ==
  \A r \in Req :
    /\ req[r].step = "over" /\ r \notin excused => req[r].dir = "none"
    /\ req[r].step \in {"name", "store", "storing"} => req[r].dir \in {"full", "memory"}

\* What is answered with success has been stored, and the transfer of a download does not
\* end normally while its export still goes on.
ToldTruly ==
  \A r \in Req :
    /\ req[r].answer = "ok" /\ req[r].route \in {"postAjax", "save", "delete"} => req[r].stored
    /\ req[r].sent = "ended" /\ req[r].route = "download" => req[r].back \in {"done", "failed"}
================================================================================
