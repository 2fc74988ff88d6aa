-------------------------- MODULE EditorRequestsProofs --------------------------
(***************************************************************************)
(* Theorems about the requests to the editor, for any requests, any number *)
(* of sockets and any number of failures.                                  *)
(***************************************************************************)
EXTENDS EditorRequests, FiniteSetTheorems, TLAPS

(***************************************************************************)
(* What a request may be.                                                  *)
(***************************************************************************)
\* A route and a step its handler may be at.
Stage ==
  {<<"none", "free">>}
    \cup OfContent \X {"content"}
    \cup Route \X {"permission", "return", "over"}
    \cup {"getAjax", "postAjax", "play", "params", "newEdit", "edit", "delete"} \X {"act"}
    \cup {"getAjax", "postAjax"} \X {"language"}
    \cup {"postAjax"} \X {"file", "write", "name", "store", "storing", "clean"}
    \cup {"save"} \X {"fetch", "copy", "copying"}
    \cup {"contentFile", "tempFile"} \X {"stat"}
    \cup {"tempFile", "libraryFile"} \X {"open"}
    \cup {<<"download", "export">>}
    \cup Streamed \X {"send"}

StepName == {"free", "content", "permission", "return", "over", "act", "language", "file", "write",
             "name", "store", "storing", "clean", "fetch", "copy", "copying", "stat", "open",
             "export", "send"}

AnswerName == {"none", "ok", "error", "timeout"}
DirName == {"none", "empty", "full", "memory"}
DataName == {"none", "lazy", "open", "left", "pass", "buffered", "gone"}
BackName == {"none", "running", "reading", "done", "failed"}

Request ==
  [route : Route \cup {"none"}, step : StepName, answer : AnswerName,
   closed : BOOLEAN, heard : BOOLEAN,
   data : DataName, loose : Nat, back : BackName,
   dir : DirName, failing : BOOLEAN,
   through : SUBSET {"render", "getContent"}, sent : {"none", "ended", "cut"}, stored : BOOLEAN]

\* The answer and the stream it belongs to.
AnswerOK(q) ==
  /\ q.step = "send" => q.answer = "ok" /\ ~q.closed
  /\ q.answer = "ok" => q.step \in {"send", "over"}
  /\ q.sent # "none" => q.step = "over"
  /\ q.heard => q.step \in {"send", "over"}

\* The directory of an SVG upload; lost: those that could not be handled.
DirOK(r, q, lost) ==
  /\ q.step = "write" => q.dir = "empty"
  /\ q.step \in {"name", "store", "storing"} => q.dir \in {"full", "memory"}
  /\ q.step \notin {"write", "name", "store", "storing", "clean"} /\ r \notin lost => q.dir = "none"

\* Success is announced only after it.
StoredOK(q) ==
  /\ q.step = "clean" => q.failing \/ q.stored
  /\ q.step = "return" \/ q.answer = "ok" => (q.route \in {"postAjax", "save", "delete"} => q.stored)

\* A download whose export has failed has lost its stream.
DownloadOK(q) ==
  q.route \in {"none", "download"} =>
    /\ q.data \in {"none", "pass", "gone"}
    /\ q.data = "pass" => q.back # "failed"
    /\ q.data = "gone" /\ q.step \in {"return", "send"} => q.back = "failed"
    /\ q.sent = "ended" => q.back \in {"done", "failed"}

FlowOK(r, q, lost) ==
  /\ q \in Request /\ <<q.route, q.step>> \in Stage
  /\ AnswerOK(q) /\ DirOK(r, q, lost) /\ StoredOK(q) /\ DownloadOK(q)

FlowInv ==
  /\ req \in [Req -> Request]
  /\ mishaps \in 0..MaxMishaps
  /\ \A r \in Req : FlowOK(r, req[r], excused)

SocketsInv == IsFiniteSet(InUse) /\ Cardinality(InUse) <= Sockets

\* The failures of a step of request r.
Counted(r) ==
  /\ excused \subseteq excused' /\ excused' \subseteq excused \cup {r}
  /\ mishaps' \in 0..MaxMishaps

\* What a step of request r leaves behind.
Advances(r, q) ==
  /\ Go(r, q)
  /\ FlowOK(r, q, excused')
  /\ Counted(r)
  /\ \/ Held(q) \subseteq Held(req[r])
     \/ SocketFree /\ \E y : Held(q) \subseteq Held(req[r]) \cup {y}

\* A change of one field.
LEMMA SetOK ==
  ASSUME NEW q \in Request
  PROVE  /\ \A step \in StepName : [q EXCEPT !.step = step] \in Request
         /\ \A answer \in AnswerName : [q EXCEPT !.answer = answer] \in Request
         /\ \A closed \in BOOLEAN : [q EXCEPT !.closed = closed] \in Request
         /\ \A heard \in BOOLEAN : [q EXCEPT !.heard = heard] \in Request
         /\ \A data \in DataName : [q EXCEPT !.data = data] \in Request
         /\ \A loose \in Nat : [q EXCEPT !.loose = loose] \in Request
         /\ \A back \in BackName : [q EXCEPT !.back = back] \in Request
         /\ \A dir \in DirName : [q EXCEPT !.dir = dir] \in Request
         /\ \A failing \in BOOLEAN : [q EXCEPT !.failing = failing] \in Request
         /\ \A through \in SUBSET {"render", "getContent"} : [q EXCEPT !.through = through] \in Request
         /\ \A sent \in {"none", "ended", "cut"} : [q EXCEPT !.sent = sent] \in Request
         /\ \A stored \in BOOLEAN : [q EXCEPT !.stored = stored] \in Request
         /\ \A route \in Route : [q EXCEPT !.route = route] \in Request
BY DEF Request

\* What holds no more sockets.
LEMMA HoldsNoMore ==
  ASSUME NEW x, NEW y, y.loose = x.loose,
         y.data \in {"open", "left"} => x.data \in {"open", "left"},
         y.back = "reading" => x.back = "reading",
         y.step \in {"storing", "copying"} => x.step \in {"storing", "copying"}
  PROVE  Held(y) \subseteq Held(x)
BY DEF Held

\* The handler throws.
LEMMA ThrewOK ==
  ASSUME NEW r, NEW q, NEW lost, NEW after, FlowOK(r, q, lost), lost \subseteq after,
         q.step \notin {"free", "send", "over"}, q.dir = "none" \/ r \in after
  PROVE  FlowOK(r, Threw(q), after) /\ Held(Threw(q)) \subseteq Held(q)
<1> DEFINE t == Threw(q)
<1>1. q \in Request /\ q.step \in StepName /\ q.answer \in AnswerName
  BY DEF FlowOK, Request
<1>2. /\ t \in Request /\ t.step = "over" /\ t.answer = (IF q.answer = "none" THEN "error" ELSE q.answer)
      /\ t.route = q.route /\ t.data = q.data /\ t.loose = q.loose /\ t.back = q.back
      /\ t.dir = q.dir /\ t.sent = q.sent /\ t.stored = q.stored
  <2>1. PICK a \in AnswerName : a = IF q.answer = "none" THEN "error" ELSE q.answer
    BY <1>1 DEF AnswerName
  <2>2. t = [q EXCEPT !.step = "over", !.answer = a]
    BY <2>1 DEF Threw
  <2>3. t \in Request
    <3>1. [q EXCEPT !.step = "over"] \in Request
      BY <1>1 DEF Request, StepName
    <3>2. \A u \in Request : [u EXCEPT !.answer = a] \in Request
      BY <2>1 DEF Request
    <3> QED  BY <2>2, <3>1, <3>2
  <2>4. t.step = "over" /\ t.answer = a
    BY <1>1, <2>1, <2>2 DEF Request, StepName
  <2>5. t.route = q.route /\ t.data = q.data /\ t.loose = q.loose /\ t.back = q.back
      /\ t.dir = q.dir /\ t.sent = q.sent
    BY <1>1, <2>1, <2>2 DEF Request, StepName
  <2>6. t.stored = q.stored
    BY <1>1, <2>1, <2>2 DEF Request, StepName
  <2> QED  BY <2>1, <2>3, <2>4, <2>5, <2>6
<1>3. <<t.route, t.step>> \in Stage
  BY <1>2 DEF FlowOK, Stage, Route, OfContent, OfSchool, OfParent, Streamed
<1>4. AnswerOK(t) /\ DirOK(r, t, after) /\ StoredOK(t) /\ DownloadOK(t)
  BY <1>2 DEF FlowOK, AnswerOK, DirOK, StoredOK, DownloadOK
<1>5. Held(t) \subseteq Held(q)
  BY <1>2 DEF Held
<1> QED  BY <1>2, <1>3, <1>4, <1>5 DEF FlowOK

\* A call that answers or throws.
LEMMA AnswersOrThrowsOK ==
  ASSUME FlowInv, NEW r \in Req, NEW next, AnswersOrThrows(r, next), FlowOK(r, next, excused),
         \/ Held(next) \subseteq Held(req[r])
         \/ SocketFree /\ \E y : Held(next) \subseteq Held(req[r]) \cup {y},
         req[r].step \notin {"free", "send", "over", "write", "name", "store", "storing", "clean"}
  PROVE  \E q : Advances(r, q)
<1>1. FlowOK(r, req[r], excused) /\ (req[r].dir = "none" \/ r \in excused)
  BY DEF FlowInv, FlowOK, DirOK
<1>2. FlowOK(r, Threw(req[r]), excused) /\ Held(Threw(req[r])) \subseteq Held(req[r])
  BY <1>1, ThrewOK
<1>3. mishaps \in 0..MaxMishaps
  BY DEF FlowInv
<1> QED  BY <1>2, <1>3 DEF AnswersOrThrows, Advances, Counted

\* The calls of another service, of the database and of h5p-server.
LEMMA CallStep ==
  ASSUME FlowInv, NEW r \in Req,
         \/ ReadContent(r) \/ CheckPermission(r) \/ GetUserLanguage(r) \/ GetAjax(r)
         \/ GetContentParameters(r) \/ GetH5pPlayer(r) \/ GetEmptyH5pEditor(r)
         \/ DeleteH5pContent(r) \/ StatContentFile(r) \/ StatTemporaryFile(r)
         \/ OpenTemporaryFile(r) \/ StreamMetadata(r) \/ OpenLibraryFile(r) \/ Fetch(r)
  PROVE  \E q : Advances(r, q)
<1> PICK x \in Request : x = req[r] /\ FlowOK(r, x, excused)
  BY DEF FlowInv
<1>1. CASE ReadContent(r)
  <2> DEFINE y == [x EXCEPT !.step = "permission"]
  <2>1. x.step \notin {"free", "send", "over", "write", "name", "store", "storing", "clean"}
    BY <1>1 DEF ReadContent
  <2>2. FlowOK(r, y, excused)
    BY <1>1 DEF ReadContent, FlowOK, AnswerOK, DirOK, StoredOK, DownloadOK, Request,
      StepName, AnswerName, DataName, BackName, DirName, Stage, Route, OfContent, OfSchool,
      OfParent, Streamed
  <2>3. Held(y) \subseteq Held(x)
    BY <1>1 DEF ReadContent, Held, Request
  <2>4. AnswersOrThrows(r, y)
    BY <1>1 DEF ReadContent
  <2> QED  BY <2>1, <2>2, <2>3, <2>4, AnswersOrThrowsOK
<1>2. CASE CheckPermission(r)
  <2> DEFINE s == FirstWork(x.route)
             y == [x EXCEPT !.step = s]
  <2>1. x.step = "permission" /\ x.route \in Route
    BY <1>2 DEF CheckPermission, FlowOK, Stage
  <2>2. <<x.route, s>> \in Stage /\ s \in {"stat", "open", "export", "language", "fetch", "act"}
    BY <2>1, ZenonT(40) DEF FirstWork, Stage, Route, OfContent, OfSchool, OfParent, Streamed
  <2>3. AnswersOrThrows(r, y)
    BY <1>2 DEF CheckPermission
  <2> HIDE DEF s
  <2>4. y \in Request
    BY <2>2, SetOK DEF StepName
  <2>5. /\ y.route = x.route /\ y.data = x.data /\ y.loose = x.loose /\ y.back = x.back
        /\ y.dir = x.dir /\ y.sent = x.sent /\ y.answer = x.answer /\ y.step = s
    BY DEF Request
  <2>6. (y.stored <=> x.stored) /\ (y.heard <=> x.heard)
    BY DEF Request
  <2> HIDE DEF y
  <2>7. AnswerOK(y) /\ StoredOK(y)
    BY <2>1, <2>2, <2>5, <2>6 DEF FlowOK, AnswerOK, StoredOK
  <2>8. DirOK(r, y, excused) /\ DownloadOK(y)
    BY <2>1, <2>2, <2>5 DEF FlowOK, DirOK, DownloadOK
  <2>9. Held(y) \subseteq Held(x)
    BY <2>2, <2>5, HoldsNoMore
  <2>10. FlowOK(r, y, excused)
    BY <2>2, <2>4, <2>5, <2>7, <2>8 DEF FlowOK
  <2> QED  BY <2>1, <2>3, <2>9, <2>10, AnswersOrThrowsOK
<1>3. CASE GetUserLanguage(r)
  <2> DEFINE y == [x EXCEPT !.step = IF x.route = "getAjax" THEN "act" ELSE "file"]
  <2>1. x.step \notin {"free", "send", "over", "write", "name", "store", "storing", "clean"}
    BY <1>3 DEF GetUserLanguage
  <2>2. FlowOK(r, y, excused)
    BY <1>3 DEF GetUserLanguage, FlowOK, AnswerOK, DirOK, StoredOK, DownloadOK, Request,
      StepName, AnswerName, DataName, BackName, DirName, Stage, Route, OfContent, OfSchool,
      OfParent, Streamed
  <2>3. Held(y) \subseteq Held(x)
    BY <1>3 DEF GetUserLanguage, Held, Request
  <2>4. AnswersOrThrows(r, y)
    BY <1>3 DEF GetUserLanguage
  <2> QED  BY <2>1, <2>2, <2>3, <2>4, AnswersOrThrowsOK
<1>4. CASE GetAjax(r)
  <2> DEFINE y == [x EXCEPT !.step = "return"]
  <2>1. x.step \notin {"free", "send", "over", "write", "name", "store", "storing", "clean"}
    BY <1>4 DEF GetAjax, Works
  <2>2. FlowOK(r, y, excused)
    BY <1>4 DEF GetAjax, Works, FlowOK, AnswerOK, DirOK, StoredOK, DownloadOK, Request,
      StepName, AnswerName, DataName, BackName, DirName, Stage, Route, OfContent, OfSchool,
      OfParent, Streamed
  <2>3. Held(y) \subseteq Held(x)
    BY <1>4 DEF GetAjax, Works, Held, Request
  <2>4. AnswersOrThrows(r, y)
    BY <1>4 DEF GetAjax, Works
  <2> QED  BY <2>1, <2>2, <2>3, <2>4, AnswersOrThrowsOK
<1>5. CASE GetContentParameters(r)
  <2> DEFINE y == [x EXCEPT !.step = "return"]
  <2>1. x.step \notin {"free", "send", "over", "write", "name", "store", "storing", "clean"}
    BY <1>5 DEF GetContentParameters, Works
  <2>2. FlowOK(r, y, excused)
    BY <1>5 DEF GetContentParameters, Works, FlowOK, AnswerOK, DirOK, StoredOK, DownloadOK, Request,
      StepName, AnswerName, DataName, BackName, DirName, Stage, Route, OfContent, OfSchool,
      OfParent, Streamed
  <2>3. Held(y) \subseteq Held(x)
    BY <1>5 DEF GetContentParameters, Works, Held, Request
  <2>4. AnswersOrThrows(r, y)
    BY <1>5 DEF GetContentParameters, Works
  <2> QED  BY <2>1, <2>2, <2>3, <2>4, AnswersOrThrowsOK
<1>6. CASE GetH5pPlayer(r)
  <2> DEFINE y == [x EXCEPT !.step = "return"]
  <2>1. x.step \notin {"free", "send", "over", "write", "name", "store", "storing", "clean"}
    BY <1>6 DEF GetH5pPlayer, Works
  <2>2. FlowOK(r, y, excused)
    BY <1>6 DEF GetH5pPlayer, Works, FlowOK, AnswerOK, DirOK, StoredOK, DownloadOK, Request,
      StepName, AnswerName, DataName, BackName, DirName, Stage, Route, OfContent, OfSchool,
      OfParent, Streamed
  <2>3. Held(y) \subseteq Held(x)
    BY <1>6 DEF GetH5pPlayer, Works, Held, Request
  <2>4. AnswersOrThrows(r, y)
    BY <1>6 DEF GetH5pPlayer, Works
  <2> QED  BY <2>1, <2>2, <2>3, <2>4, AnswersOrThrowsOK
<1>7. CASE GetEmptyH5pEditor(r)
  <2> DEFINE y == [x EXCEPT !.step = "return"]
  <2>1. x.step \notin {"free", "send", "over", "write", "name", "store", "storing", "clean"}
    BY <1>7 DEF GetEmptyH5pEditor, Works
  <2>2. FlowOK(r, y, excused)
    BY <1>7 DEF GetEmptyH5pEditor, Works, FlowOK, AnswerOK, DirOK, StoredOK, DownloadOK, Request,
      StepName, AnswerName, DataName, BackName, DirName, Stage, Route, OfContent, OfSchool,
      OfParent, Streamed
  <2>3. Held(y) \subseteq Held(x)
    BY <1>7 DEF GetEmptyH5pEditor, Works, Held, Request
  <2>4. AnswersOrThrows(r, y)
    BY <1>7 DEF GetEmptyH5pEditor, Works
  <2> QED  BY <2>1, <2>2, <2>3, <2>4, AnswersOrThrowsOK
<1>8. CASE DeleteH5pContent(r)
  <2> DEFINE y == [x EXCEPT !.step = "return", !.stored = TRUE]
  <2>1. x.step \notin {"free", "send", "over", "write", "name", "store", "storing", "clean"}
    BY <1>8 DEF DeleteH5pContent
  <2>a. [x EXCEPT !.step = "return"] \in Request
    BY SetOK DEF StepName
  <2>b. \A u \in Request : [u EXCEPT !.stored = TRUE] \in Request
    BY SetOK DEF DataName
  <2>c. y \in Request
    BY <2>a, <2>b
  <2>2. FlowOK(r, y, excused)
    BY <1>8, <2>c DEF DeleteH5pContent, FlowOK, AnswerOK, DirOK, StoredOK, DownloadOK, Request,
      StepName, AnswerName, DataName, BackName, DirName, Stage, Route, OfContent, OfSchool,
      OfParent, Streamed
  <2>3. Held(y) \subseteq Held(x)
    BY <1>8 DEF DeleteH5pContent, Held, Request
  <2>4. AnswersOrThrows(r, y)
    BY <1>8 DEF DeleteH5pContent
  <2> QED  BY <2>1, <2>2, <2>3, <2>4, AnswersOrThrowsOK
<1>9. CASE StatContentFile(r)
  <2> DEFINE y == [x EXCEPT !.step = "return", !.data = "lazy"]
  <2>1. x.step \notin {"free", "send", "over", "write", "name", "store", "storing", "clean"}
    BY <1>9 DEF StatContentFile, HeadAnswers
  <2>a. [x EXCEPT !.step = "return"] \in Request
    BY SetOK DEF StepName
  <2>b. \A u \in Request : [u EXCEPT !.data = "lazy"] \in Request
    BY SetOK DEF DataName
  <2>c. y \in Request
    BY <2>a, <2>b
  <2>2. FlowOK(r, y, excused)
    BY <1>9, <2>c DEF StatContentFile, HeadAnswers, FlowOK, AnswerOK, DirOK, StoredOK, DownloadOK, Request,
      StepName, AnswerName, DataName, BackName, DirName, Stage, Route, OfContent, OfSchool,
      OfParent, Streamed
  <2>3. Held(y) \subseteq Held(x)
    BY <1>9 DEF StatContentFile, HeadAnswers, Held, Request
  <2>4. AnswersOrThrows(r, y)
    BY <1>9 DEF StatContentFile, HeadAnswers
  <2> QED  BY <2>1, <2>2, <2>3, <2>4, AnswersOrThrowsOK
<1>10. CASE StatTemporaryFile(r)
  <2> DEFINE y == [x EXCEPT !.step = "open"]
  <2>1. x.step \notin {"free", "send", "over", "write", "name", "store", "storing", "clean"}
    BY <1>10 DEF StatTemporaryFile, HeadAnswers
  <2>2. FlowOK(r, y, excused)
    BY <1>10 DEF StatTemporaryFile, HeadAnswers, FlowOK, AnswerOK, DirOK, StoredOK, DownloadOK, Request,
      StepName, AnswerName, DataName, BackName, DirName, Stage, Route, OfContent, OfSchool,
      OfParent, Streamed
  <2>3. Held(y) \subseteq Held(x)
    BY <1>10 DEF StatTemporaryFile, HeadAnswers, Held, Request
  <2>4. AnswersOrThrows(r, y)
    BY <1>10 DEF StatTemporaryFile, HeadAnswers
  <2> QED  BY <2>1, <2>2, <2>3, <2>4, AnswersOrThrowsOK
<1>11. CASE OpenTemporaryFile(r)
  <2> DEFINE y == [x EXCEPT !.step = "return", !.data = "open"]
  <2>1. x.step \notin {"free", "send", "over", "write", "name", "store", "storing", "clean"}
    BY <1>11 DEF OpenTemporaryFile
  <2>a. [x EXCEPT !.step = "return"] \in Request
    BY SetOK DEF StepName
  <2>b. \A u \in Request : [u EXCEPT !.data = "open"] \in Request
    BY SetOK DEF DataName
  <2>c. y \in Request
    BY <2>a, <2>b
  <2>2. FlowOK(r, y, excused)
    BY <1>11, <2>c DEF OpenTemporaryFile, FlowOK, AnswerOK, DirOK, StoredOK, DownloadOK, Request,
      StepName, AnswerName, DataName, BackName, DirName, Stage, Route, OfContent, OfSchool,
      OfParent, Streamed
  <2>3. Held(y) \subseteq Held(x) \cup {<<"data", 1>>} /\ SocketFree
    BY <1>11 DEF OpenTemporaryFile, Held, Request
  <2>4. AnswersOrThrows(r, y)
    BY <1>11 DEF OpenTemporaryFile
  <2> QED  BY <2>1, <2>2, <2>3, <2>4, AnswersOrThrowsOK
<1>12. CASE StreamMetadata(r)
  <2> DEFINE y == [x EXCEPT !.step = "return", !.data = "buffered"]
  <2>1. x.step \notin {"free", "send", "over", "write", "name", "store", "storing", "clean"}
    BY <1>12 DEF StreamMetadata, LibraryFile
  <2>a. [x EXCEPT !.step = "return"] \in Request
    BY SetOK DEF StepName
  <2>b. \A u \in Request : [u EXCEPT !.data = "buffered"] \in Request
    BY SetOK DEF DataName
  <2>c. y \in Request
    BY <2>a, <2>b
  <2>2. FlowOK(r, y, excused)
    BY <1>12, <2>c DEF StreamMetadata, LibraryFile, FlowOK, AnswerOK, DirOK, StoredOK, DownloadOK, Request,
      StepName, AnswerName, DataName, BackName, DirName, Stage, Route, OfContent, OfSchool,
      OfParent, Streamed
  <2>3. Held(y) \subseteq Held(x)
    BY <1>12 DEF StreamMetadata, LibraryFile, Held, Request
  <2>4. AnswersOrThrows(r, y)
    BY <1>12 DEF StreamMetadata, LibraryFile
  <2> QED  BY <2>1, <2>2, <2>3, <2>4, AnswersOrThrowsOK
<1>13. CASE OpenLibraryFile(r)
  <2> DEFINE y == [x EXCEPT !.step = "return", !.data = "open"]
  <2>1. x.step \notin {"free", "send", "over", "write", "name", "store", "storing", "clean"}
    BY <1>13 DEF OpenLibraryFile, LibraryFile
  <2>a. [x EXCEPT !.step = "return"] \in Request
    BY SetOK DEF StepName
  <2>b. \A u \in Request : [u EXCEPT !.data = "open"] \in Request
    BY SetOK DEF DataName
  <2>c. y \in Request
    BY <2>a, <2>b
  <2>2. FlowOK(r, y, excused)
    BY <1>13, <2>c DEF OpenLibraryFile, LibraryFile, FlowOK, AnswerOK, DirOK, StoredOK, DownloadOK, Request,
      StepName, AnswerName, DataName, BackName, DirName, Stage, Route, OfContent, OfSchool,
      OfParent, Streamed
  <2>3. Held(y) \subseteq Held(x) \cup {<<"data", 1>>} /\ SocketFree
    BY <1>13 DEF OpenLibraryFile, LibraryFile, Held, Request
  <2>4. AnswersOrThrows(r, y)
    BY <1>13 DEF OpenLibraryFile, LibraryFile
  <2> QED  BY <2>1, <2>2, <2>3, <2>4, AnswersOrThrowsOK
<1>14. CASE Fetch(r)
  <2> DEFINE y == [x EXCEPT !.step = "copy", !.data = "open"]
  <2>1. x.step \notin {"free", "send", "over", "write", "name", "store", "storing", "clean"}
    BY <1>14 DEF Fetch
  <2>a. [x EXCEPT !.step = "copy"] \in Request
    BY SetOK DEF StepName
  <2>b. \A u \in Request : [u EXCEPT !.data = "open"] \in Request
    BY SetOK DEF DataName
  <2>c. y \in Request
    BY <2>a, <2>b
  <2>2. FlowOK(r, y, excused)
    BY <1>14, <2>c DEF Fetch, FlowOK, AnswerOK, DirOK, StoredOK, DownloadOK, Request,
      StepName, AnswerName, DataName, BackName, DirName, Stage, Route, OfContent, OfSchool,
      OfParent, Streamed
  <2>3. Held(y) \subseteq Held(x) \cup {<<"data", 1>>} /\ SocketFree
    BY <1>14 DEF Fetch, Held, Request
  <2>4. AnswersOrThrows(r, y)
    BY <1>14 DEF Fetch
  <2> QED  BY <2>1, <2>2, <2>3, <2>4, AnswersOrThrowsOK
<1> QED  BY <1>1, <1>2, <1>3, <1>4, <1>5, <1>6, <1>7, <1>8, <1>9, <1>10, <1>11, <1>12, <1>13, <1>14

\* The steps of an upload.
LEMMA UploadStep ==
  ASSUME FlowInv, NEW r \in Req,
         \/ ReceiveFile(r) \/ SaveFile(r) \/ FileExists(r)
  PROVE  \E q : Advances(r, q)
<1> PICK x \in Request : x = req[r] /\ FlowOK(r, x, excused)
  BY DEF FlowInv
<1>m. mishaps \in 0..MaxMishaps /\ MaxMishaps \in Nat
  BY RequestsAssumption DEF FlowInv
<1>1. CASE ReceiveFile(r)
  <2>1. CASE Go(r, [req[r] EXCEPT !.step = "write", !.dir = "empty"])
    <3> DEFINE y == [x EXCEPT !.step = "write", !.dir = "empty"]
    <3>1. y \in Request
      <4>1. [x EXCEPT !.step = "write"] \in Request
        BY SetOK, <1>1, <2>1 DEF StepName, DataName, BackName, AnswerName, DirName
      <4>2. \A u \in Request : [u EXCEPT !.dir = "empty"] \in Request
        BY SetOK, <1>1, <2>1 DEF StepName, DataName, BackName, AnswerName, DirName
      <4> QED  BY <4>1, <4>2
    <3>2. FlowOK(r, y, excused')
      BY <1>1, <2>1, <3>1 DEF ReceiveFile, FlowOK, AnswerOK, DirOK, StoredOK, DownloadOK,
        Request,
      StepName, AnswerName, DataName, BackName, DirName, Stage, Route, OfContent, OfSchool,
      OfParent, Streamed
    <3>3. Held(y) \subseteq Held(x)
      BY <1>1, <2>1, <3>1 DEF ReceiveFile, Held, Request
    <3>4. Go(r, y) /\ Counted(r)
      BY <1>1, <2>1, <1>m DEF ReceiveFile, Fault, Counted
    <3> QED  BY <3>2, <3>3, <3>4 DEF Advances
  <2>2. CASE Go(r, [req[r] EXCEPT !.step = "name", !.dir = "memory"])
    <3> DEFINE y == [x EXCEPT !.step = "name", !.dir = "memory"]
    <3>1. y \in Request
      <4>1. [x EXCEPT !.step = "name"] \in Request
        BY SetOK, <1>1, <2>2 DEF StepName, DataName, BackName, AnswerName, DirName
      <4>2. \A u \in Request : [u EXCEPT !.dir = "memory"] \in Request
        BY SetOK, <1>1, <2>2 DEF StepName, DataName, BackName, AnswerName, DirName
      <4> QED  BY <4>1, <4>2
    <3>2. FlowOK(r, y, excused')
      BY <1>1, <2>2, <3>1 DEF ReceiveFile, FlowOK, AnswerOK, DirOK, StoredOK, DownloadOK,
        Request,
      StepName, AnswerName, DataName, BackName, DirName, Stage, Route, OfContent, OfSchool,
      OfParent, Streamed
    <3>3. Held(y) \subseteq Held(x)
      BY <1>1, <2>2, <3>1 DEF ReceiveFile, Held, Request
    <3>4. Go(r, y) /\ Counted(r)
      BY <1>1, <2>2, <1>m DEF ReceiveFile, Fault, Counted
    <3> QED  BY <3>2, <3>3, <3>4 DEF Advances
  <2>3. CASE Go(r, [req[r] EXCEPT !.step = "act"])
    <3> DEFINE y == [x EXCEPT !.step = "act"]
    <3>1. y \in Request
      BY SetOK, <1>1, <2>3 DEF StepName
    <3>2. FlowOK(r, y, excused')
      BY <1>1, <2>3, <3>1 DEF ReceiveFile, FlowOK, AnswerOK, DirOK, StoredOK, DownloadOK,
        Request,
      StepName, AnswerName, DataName, BackName, DirName, Stage, Route, OfContent, OfSchool,
      OfParent, Streamed
    <3>3. Held(y) \subseteq Held(x)
      BY <1>1, <2>3, <3>1 DEF ReceiveFile, Held, Request
    <3>4. Go(r, y) /\ Counted(r)
      BY <1>1, <2>3, <1>m DEF ReceiveFile, Fault, Counted
    <3> QED  BY <3>2, <3>3, <3>4 DEF Advances
  <2> QED  BY <1>1, <2>1, <2>2, <2>3 DEF ReceiveFile
<1>2. CASE SaveFile(r)
  <2> DEFINE y == [x EXCEPT !.step = "storing"]
  <2>1. y \in Request
    BY SetOK, <1>2 DEF StepName
  <2>2. FlowOK(r, y, excused')
    BY <1>2, <2>1 DEF SaveFile, FlowOK, AnswerOK, DirOK, StoredOK, DownloadOK, Request,
    StepName, AnswerName, DataName, BackName, DirName, Stage, Route, OfContent, OfSchool,
    OfParent, Streamed
  <2>3. Held(y) \subseteq Held(x) \cup {<<"upload", 1>>} /\ SocketFree
    BY <1>2, <2>1 DEF SaveFile, Held, Request
  <2>4. Go(r, y) /\ Counted(r)
    BY <1>2, <1>m DEF SaveFile, Fault, Counted
  <2> QED  BY <2>2, <2>3, <2>4 DEF Advances
<1>3. CASE FileExists(r)
  <2>1. CASE Go(r, [req[r] EXCEPT !.step = "store"]) /\ UNCHANGED mishaps
    <3> DEFINE y == [x EXCEPT !.step = "store"]
    <3>1. y \in Request
      BY SetOK, <1>3, <2>1 DEF StepName
    <3>2. FlowOK(r, y, excused')
      BY <1>3, <2>1, <3>1 DEF FileExists, FlowOK, AnswerOK, DirOK, StoredOK, DownloadOK,
        Request,
      StepName, AnswerName, DataName, BackName, DirName, Stage, Route, OfContent, OfSchool,
      OfParent, Streamed
    <3>3. Held(y) \subseteq Held(x)
      BY <1>3, <2>1, <3>1 DEF FileExists, Held, Request
    <3>4. Go(r, y) /\ Counted(r)
      BY <1>3, <2>1, <1>m DEF FileExists, Fault, Counted
    <3> QED  BY <3>2, <3>3, <3>4 DEF Advances
  <2>2. CASE Fault /\ Go(r, [req[r] EXCEPT !.loose = @ + 1])
    <3>v1. PICK n \in Nat : n = x.loose + 1
      BY DEF Request
    <3> DEFINE y == [x EXCEPT !.loose = n]
    <3>1. y \in Request
      BY SetOK, <3>v1
    <3>2. FlowOK(r, y, excused')
      BY <1>3, <2>2, <3>1, <3>v1 DEF FileExists, FlowOK, AnswerOK, DirOK, StoredOK,
        DownloadOK, Request,
      StepName, AnswerName, DataName, BackName, DirName, Stage, Route, OfContent, OfSchool,
      OfParent, Streamed
    <3>3. Held(y) \subseteq Held(x) \cup {<<"loose", n>>} /\ SocketFree
      BY <1>3, <2>2, <3>1, <3>v1 DEF FileExists, Held, Request
    <3>4. Go(r, y) /\ Counted(r)
      BY <1>3, <2>2, <1>m, <3>v1 DEF FileExists, Fault, Counted
    <3> QED  BY <3>2, <3>3, <3>4 DEF Advances
  <2>3. CASE Fault /\ Go(r, [req[r] EXCEPT !.step = "clean", !.failing = TRUE])
    <3> DEFINE y == [x EXCEPT !.step = "clean", !.failing = TRUE]
    <3>1. y \in Request
      <4>1. [x EXCEPT !.step = "clean"] \in Request
        BY SetOK, <1>3, <2>3 DEF StepName, DataName, BackName, AnswerName, DirName
      <4>2. \A u \in Request : [u EXCEPT !.failing = TRUE] \in Request
        BY SetOK, <1>3, <2>3 DEF StepName, DataName, BackName, AnswerName, DirName
      <4> QED  BY <4>1, <4>2
    <3>2. FlowOK(r, y, excused')
      BY <1>3, <2>3, <3>1 DEF FileExists, FlowOK, AnswerOK, DirOK, StoredOK, DownloadOK,
        Request,
      StepName, AnswerName, DataName, BackName, DirName, Stage, Route, OfContent, OfSchool,
      OfParent, Streamed
    <3>3. Held(y) \subseteq Held(x)
      BY <1>3, <2>3, <3>1 DEF FileExists, Held, Request
    <3>4. Go(r, y) /\ Counted(r)
      BY <1>3, <2>3, <1>m DEF FileExists, Fault, Counted
    <3> QED  BY <3>2, <3>3, <3>4 DEF Advances
  <2> QED  BY <1>3, <2>1, <2>2, <2>3 DEF FileExists
<1> QED  BY <1>1, <1>2, <1>3

\* The export of a download.
LEMMA ExportStep ==
  ASSUME FlowInv, NEW r \in Req,
         \/ StartExport(r) \/ ExportReads(r) \/ ExportDone(r)
  PROVE  \E q : Advances(r, q)
<1> PICK x \in Request : x = req[r] /\ FlowOK(r, x, excused)
  BY DEF FlowInv
<1>m. mishaps \in 0..MaxMishaps /\ MaxMishaps \in Nat
  BY RequestsAssumption DEF FlowInv
<1>1. CASE StartExport(r)
  <2> DEFINE y == [x EXCEPT !.step = "return", !.data = "pass", !.back = "running"]
  <2>1. y \in Request
    <3>1. [x EXCEPT !.step = "return"] \in Request
      BY SetOK, <1>1 DEF StepName, DataName, BackName, AnswerName, DirName
    <3>2. \A u \in Request : [u EXCEPT !.data = "pass"] \in Request
      BY SetOK, <1>1 DEF StepName, DataName, BackName, AnswerName, DirName
    <3>3. \A u \in Request : [u EXCEPT !.back = "running"] \in Request
      BY SetOK, <1>1 DEF StepName, DataName, BackName, AnswerName, DirName
    <3> QED  BY <3>1, <3>2, <3>3
  <2>2. FlowOK(r, y, excused')
    BY <1>1, <2>1 DEF StartExport, FlowOK, AnswerOK, DirOK, StoredOK, DownloadOK, Request,
    StepName, AnswerName, DataName, BackName, DirName, Stage, Route, OfContent, OfSchool,
    OfParent, Streamed
  <2>3. Held(y) \subseteq Held(x)
    BY <1>1, <2>1 DEF StartExport, Held, Request
  <2>4. Go(r, y) /\ Counted(r)
    BY <1>1, <1>m DEF StartExport, Fault, Counted
  <2> QED  BY <2>2, <2>3, <2>4 DEF Advances
<1>2. CASE ExportReads(r)
  <2> DEFINE y == [x EXCEPT !.back = "reading"]
  <2>1. y \in Request
    BY SetOK, <1>2 DEF BackName
  <2>2. FlowOK(r, y, excused')
    BY <1>2, <2>1 DEF ExportReads, FlowOK, AnswerOK, DirOK, StoredOK, DownloadOK, Request,
    StepName, AnswerName, DataName, BackName, DirName, Stage, Route, OfContent, OfSchool,
    OfParent, Streamed
  <2>3. Held(y) \subseteq Held(x) \cup {<<"export", 1>>} /\ SocketFree
    BY <1>2, <2>1 DEF ExportReads, Held, Request
  <2>4. Go(r, y) /\ Counted(r)
    BY <1>2, <1>m DEF ExportReads, Fault, Counted
  <2> QED  BY <2>2, <2>3, <2>4 DEF Advances
<1>3. CASE ExportDone(r)
  <2> DEFINE y == [x EXCEPT !.back = "done"]
  <2>1. y \in Request
    BY SetOK, <1>3 DEF BackName
  <2>2. FlowOK(r, y, excused')
    BY <1>3, <2>1 DEF ExportDone, FlowOK, AnswerOK, DirOK, StoredOK, DownloadOK, Request,
    StepName, AnswerName, DataName, BackName, DirName, Stage, Route, OfContent, OfSchool,
    OfParent, Streamed
  <2>3. Held(y) \subseteq Held(x)
    BY <1>3, <2>1 DEF ExportDone, Held, Request
  <2>4. Go(r, y) /\ Counted(r)
    BY <1>3, <1>m DEF ExportDone, Fault, Counted
  <2> QED  BY <2>2, <2>3, <2>4 DEF Advances
<1> QED  BY <1>1, <1>2, <1>3

\* Saving.
LEMMA SaveStep ==
  ASSUME FlowInv, NEW r \in Req,
         \/ FileBuffered(r) \/ CopyStarts(r) \/ CopyEnds(r)
  PROVE  \E q : Advances(r, q)
<1> PICK x \in Request : x = req[r] /\ FlowOK(r, x, excused)
  BY DEF FlowInv
<1>m. mishaps \in 0..MaxMishaps /\ MaxMishaps \in Nat
  BY RequestsAssumption DEF FlowInv
<1>1. CASE FileBuffered(r)
  <2> DEFINE y == [x EXCEPT !.data = "buffered"]
  <2>1. y \in Request
    BY SetOK, <1>1 DEF DataName
  <2>2. FlowOK(r, y, excused')
    BY <1>1, <2>1 DEF FileBuffered, FlowOK, AnswerOK, DirOK, StoredOK, DownloadOK, Request,
    StepName, AnswerName, DataName, BackName, DirName, Stage, Route, OfContent, OfSchool,
    OfParent, Streamed
  <2>3. Held(y) \subseteq Held(x)
    BY <1>1, <2>1 DEF FileBuffered, Held, Request
  <2>4. Go(r, y) /\ Counted(r)
    BY <1>1, <1>m DEF FileBuffered, Fault, Counted
  <2> QED  BY <2>2, <2>3, <2>4 DEF Advances
<1>2. CASE CopyStarts(r)
  <2> DEFINE y == [x EXCEPT !.step = "copying"]
  <2>1. y \in Request
    BY SetOK, <1>2 DEF StepName
  <2>2. FlowOK(r, y, excused')
    BY <1>2, <2>1 DEF CopyStarts, FlowOK, AnswerOK, DirOK, StoredOK, DownloadOK, Request,
    StepName, AnswerName, DataName, BackName, DirName, Stage, Route, OfContent, OfSchool,
    OfParent, Streamed
  <2>3. Held(y) \subseteq Held(x) \cup {<<"upload", 1>>} /\ SocketFree
    BY <1>2, <2>1 DEF CopyStarts, Held, Request
  <2>4. Go(r, y) /\ Counted(r)
    BY <1>2, <1>m DEF CopyStarts, Fault, Counted
  <2> QED  BY <2>2, <2>3, <2>4 DEF Advances
<1>3. CASE CopyEnds(r)
  <2> DEFINE y == [x EXCEPT !.step = "return", !.data = "gone", !.stored = TRUE]
  <2>1. y \in Request
    <3>1. [x EXCEPT !.step = "return"] \in Request
      BY SetOK, <1>3 DEF StepName, DataName, BackName, AnswerName, DirName
    <3>2. \A u \in Request : [u EXCEPT !.data = "gone"] \in Request
      BY SetOK, <1>3 DEF StepName, DataName, BackName, AnswerName, DirName
    <3>3. \A u \in Request : [u EXCEPT !.stored = TRUE] \in Request
      BY SetOK, <1>3 DEF StepName, DataName, BackName, AnswerName, DirName
    <3> QED  BY <3>1, <3>2, <3>3
  <2>2. FlowOK(r, y, excused')
    BY <1>3, <2>1 DEF CopyEnds, FlowOK, AnswerOK, DirOK, StoredOK, DownloadOK, Request,
    StepName, AnswerName, DataName, BackName, DirName, Stage, Route, OfContent, OfSchool,
    OfParent, Streamed
  <2>3. Held(y) \subseteq Held(x)
    BY <1>3, <2>1 DEF CopyEnds, Held, Request
  <2>4. Go(r, y) /\ Counted(r)
    BY <1>3, <1>m DEF CopyEnds, Fault, Counted
  <2> QED  BY <2>2, <2>3, <2>4 DEF Advances
<1> QED  BY <1>1, <1>2, <1>3

\* What is sent, and the time limit.
LEMMA SendStep ==
  ASSUME FlowInv, NEW r \in Req,
         \/ LazyOpens(r) \/ SendEnds(r) \/ SendFails(r) \/ TimesOut(r)
  PROVE  \E q : Advances(r, q)
<1> PICK x \in Request : x = req[r] /\ FlowOK(r, x, excused)
  BY DEF FlowInv
<1>m. mishaps \in 0..MaxMishaps /\ MaxMishaps \in Nat
  BY RequestsAssumption DEF FlowInv
<1>1. CASE LazyOpens(r)
  <2> DEFINE y == [x EXCEPT !.data = "open"]
  <2>1. y \in Request
    BY SetOK, <1>1 DEF DataName
  <2>2. FlowOK(r, y, excused')
    BY <1>1, <2>1 DEF LazyOpens, FlowOK, AnswerOK, DirOK, StoredOK, DownloadOK, Request,
    StepName, AnswerName, DataName, BackName, DirName, Stage, Route, OfContent, OfSchool,
    OfParent, Streamed
  <2>3. Held(y) \subseteq Held(x) \cup {<<"data", 1>>} /\ SocketFree
    BY <1>1, <2>1 DEF LazyOpens, Held, Request
  <2>4. Go(r, y) /\ Counted(r)
    BY <1>1, <1>m DEF LazyOpens, Fault, Counted
  <2> QED  BY <2>2, <2>3, <2>4 DEF Advances
<1>2. CASE SendEnds(r)
  <2> DEFINE y == [x EXCEPT !.step = "over", !.data = "gone", !.sent = "ended"]
  <2>1. y \in Request
    <3>1. [x EXCEPT !.step = "over"] \in Request
      BY SetOK, <1>2 DEF StepName, DataName, BackName, AnswerName, DirName
    <3>2. \A u \in Request : [u EXCEPT !.data = "gone"] \in Request
      BY SetOK, <1>2 DEF StepName, DataName, BackName, AnswerName, DirName
    <3>3. \A u \in Request : [u EXCEPT !.sent = "ended"] \in Request
      BY SetOK, <1>2 DEF StepName, DataName, BackName, AnswerName, DirName
    <3> QED  BY <3>1, <3>2, <3>3
  <2>2. FlowOK(r, y, excused')
    BY <1>2, <2>1 DEF SendEnds, FlowOK, AnswerOK, DirOK, StoredOK, DownloadOK, Request,
    StepName, AnswerName, DataName, BackName, DirName, Stage, Route, OfContent, OfSchool,
    OfParent, Streamed
  <2>3. Held(y) \subseteq Held(x)
    BY <1>2, <2>1 DEF SendEnds, Held, Request
  <2>4. Go(r, y) /\ Counted(r)
    BY <1>2, <1>m DEF SendEnds, Fault, Counted
  <2> QED  BY <2>2, <2>3, <2>4 DEF Advances
<1>3. CASE SendFails(r)
  <2> DEFINE q == [x EXCEPT !.step = "over", !.data = "gone"]
  <2>1. q \in Request
    <3>1. [x EXCEPT !.step = "over"] \in Request
      BY SetOK DEF StepName
    <3>2. \A u \in Request : [u EXCEPT !.data = "gone"] \in Request
      BY SetOK DEF DataName
    <3> QED  BY <3>1, <3>2
  <2>2. /\ q.step = "over" /\ q.data = "gone" /\ q.answer = x.answer /\ q.loose = x.loose
        /\ q.back = x.back /\ q.dir = x.dir /\ q.sent = x.sent /\ q.route = x.route
    BY DEF Request
  <2>3. (q.stored <=> x.stored) /\ (q.heard <=> x.heard) /\ (q.closed <=> x.closed)
    BY DEF Request
  <2>4. PICK a \in AnswerName, t \in {"none", "ended", "cut"} :
          /\ Go(r, [[q EXCEPT !.answer = a] EXCEPT !.sent = t])
          /\ a = x.answer \/ a = "error"
          /\ t = "ended" => x.sent = "ended" \/ x.data = "gone"
    <3>h. x.data = "gone" \/ x.data \in {"lazy", "open"}
      BY <1>3 DEF SendFails
    <3>1. CASE Go(r, [q EXCEPT !.answer = "error"])
      <4>1. [q EXCEPT !.answer = "error"] = [[q EXCEPT !.answer = "error"] EXCEPT !.sent = x.sent]
        BY <2>1, <2>2 DEF Request
      <4> QED  BY <3>1, <4>1 DEF AnswerName, Request
    <3>2. CASE Go(r, [q EXCEPT !.sent = IF q.route = "download" THEN "ended" ELSE "cut"])
      <4> DEFINE t == IF q.route = "download" THEN "ended" ELSE "cut"
      <4>1. [q EXCEPT !.sent = t] = [[q EXCEPT !.answer = x.answer] EXCEPT !.sent = t]
        BY <2>1, <2>2 DEF Request
      <4>2. t \in {"ended", "cut"} /\ (t = "ended" => x.data = "gone")
        BY <2>2, <3>h DEF FlowOK, DownloadOK
      <4>3. Go(r, [[q EXCEPT !.answer = x.answer] EXCEPT !.sent = t])
        BY <3>2, <4>1
      <4> HIDE DEF t
      <4> QED  BY <4>2, <4>3 DEF Request
    <3> QED  BY <1>3, <3>1, <3>2 DEF SendFails
  <2> DEFINE y == [[q EXCEPT !.answer = a] EXCEPT !.sent = t]
  <2> HIDE DEF q
  <2>5. y \in Request
    BY <2>1, SetOK
  <2>6. /\ y.step = "over" /\ y.data = "gone" /\ y.answer = a /\ y.loose = x.loose
        /\ y.back = x.back /\ y.dir = x.dir /\ y.sent = t /\ y.route = x.route
    BY <2>1, <2>2 DEF Request
  <2>7. (y.stored <=> x.stored) /\ (y.heard <=> x.heard) /\ (y.closed <=> x.closed)
    BY <2>1, <2>3 DEF Request
  <2>8. Go(r, y)
    BY <2>4
  <2> HIDE DEF y
  <2>9. x.step = "send" /\ excused' = excused
    BY <1>3 DEF SendFails
  <2>10. <<y.route, y.step>> \in Stage
    BY <2>6, <2>9 DEF FlowOK, Stage, Route, OfContent, OfSchool, OfParent, Streamed
  <2>11. AnswerOK(y) /\ StoredOK(y)
    BY <2>4, <2>6, <2>7, <2>9 DEF FlowOK, AnswerOK, StoredOK
  <2>12. DirOK(r, y, excused') /\ DownloadOK(y)
    BY <2>4, <2>6, <2>9 DEF FlowOK, DirOK, DownloadOK, AnswerOK
  <2>13. Held(y) \subseteq Held(x)
    BY <2>6, HoldsNoMore
  <2>14. Counted(r)
    BY <1>3, <1>m DEF SendFails, Fault, Counted
  <2> QED  BY <2>5, <2>8, <2>10, <2>11, <2>12, <2>13, <2>14 DEF Advances, FlowOK
<1>4. CASE TimesOut(r)
  <2> DEFINE y == [x EXCEPT !.answer = "timeout"]
  <2>1. y \in Request
    BY SetOK, <1>4 DEF AnswerName
  <2>2. FlowOK(r, y, excused')
    BY <1>4, <2>1 DEF TimesOut, Timely, FlowOK, AnswerOK, DirOK, StoredOK, DownloadOK,
      Request,
    StepName, AnswerName, DataName, BackName, DirName, Stage, Route, OfContent, OfSchool,
    OfParent, Streamed
  <2>3. Held(y) \subseteq Held(x)
    BY <1>4, <2>1 DEF TimesOut, Timely, Held, Request
  <2>4. Go(r, y) /\ Counted(r)
    BY <1>4, <1>m DEF TimesOut, Timely, Fault, Counted
  <2> QED  BY <2>2, <2>3, <2>4 DEF Advances
<1> QED  BY <1>1, <1>2, <1>3, <1>4

\* What clients, exports and timers do.
LEMMA OutsideStep ==
  ASSUME FlowInv, NEW r \in Req,
         \/ Arrive(r) \/ ExportFails(r) \/ StreamTimer(r) \/ Close(r)
  PROVE  \E q : Advances(r, q)
<1> PICK x \in Request : x = req[r] /\ FlowOK(r, x, excused)
  BY DEF FlowInv
<1>m. mishaps \in 0..MaxMishaps /\ MaxMishaps \in Nat
  BY RequestsAssumption DEF FlowInv
<1>1. CASE Arrive(r)
  <2>v1. PICK route \in Route : Go(r, [x EXCEPT !.route = route, !.step = IF route \in OfContent THEN "content" ELSE "permission"])
    BY <1>1, RequestsAssumption DEF Arrive
  <2>v2. PICK s \in {"content", "permission"} : s = IF route \in OfContent THEN "content" ELSE "permission"
    OBVIOUS
  <2> DEFINE y == [x EXCEPT !.route = route, !.step = s]
  <2>1. y \in Request
    <3>1. [x EXCEPT !.route = route] \in Request
      BY SetOK, <2>v1, <2>v2, <1>1 DEF StepName, DataName, BackName, AnswerName, DirName
    <3>2. \A u \in Request : [u EXCEPT !.step = s] \in Request
      BY SetOK, <2>v1, <2>v2, <1>1 DEF StepName, DataName, BackName, AnswerName, DirName
    <3> QED  BY <3>1, <3>2
  <2>e. y.step = s /\ y.answer = x.answer /\ y.data = x.data /\ y.loose = x.loose /\ y.back = x.back
        /\ y.dir = x.dir /\ y.sent = x.sent /\ y.route = route
    BY <2>1 DEF Request
  <2>f. (y.heard <=> x.heard) /\ (y.closed <=> x.closed) /\ (y.failing <=> x.failing) /\ (y.stored <=> x.stored)
    BY <2>1 DEF Request
  <2>2. FlowOK(r, y, excused')
    <3> HIDE DEF y
    <3>0. excused \subseteq excused'
      BY <1>1 DEF Arrive
    <3>1. <<y.route, y.step>> \in Stage
      BY <2>e, <2>v1, <2>v2 DEF FlowOK, Stage, Route, OfContent, OfSchool, OfParent,
        Streamed
    <3>a. AnswerOK(y)
      BY <1>1, <2>e, <2>f, <2>v1, <2>v2 DEF Arrive, FlowOK, AnswerOK
    <3>2. DirOK(r, y, excused')
      BY <1>1, <2>e, <3>0, <2>v1, <2>v2 DEF Arrive, FlowOK, DirOK, Stage, Streamed
    <3>3. StoredOK(y)
      BY <1>1, <2>e, <2>f, <2>v1, <2>v2 DEF Arrive, FlowOK, StoredOK, AnswerOK, Stage,
        Streamed
    <3>4. DownloadOK(y)
      BY <1>1, <2>e, <2>v1, <2>v2 DEF Arrive, FlowOK, DownloadOK, AnswerOK, Stage, Dropped
    <3> QED  BY <2>1, <3>1, <3>a, <3>2, <3>3, <3>4 DEF FlowOK
  <2>3. Held(y) \subseteq Held(x)
    <3> HIDE DEF y
    <3>1. /\ y.loose = x.loose
          /\ y.data \in {"open", "left"} => x.data \in {"open", "left"}
          /\ y.back = "reading" => x.back = "reading"
          /\ y.step \in {"storing", "copying"} => x.step \in {"storing", "copying"}
      BY <2>e, <2>v1, <2>v2 DEF Dropped
    <3> QED  BY <3>1, HoldsNoMore
  <2>4. Go(r, y) /\ Counted(r)
    BY <1>1, <1>m, <2>v1, <2>v2 DEF Arrive, Fault, Counted
  <2> QED  BY <2>2, <2>3, <2>4 DEF Advances
<1>2. CASE ExportFails(r)
  <2>v1. PICK d \in DataName : d = IF x.data = "pass" THEN "gone" ELSE x.data
    BY DEF Request, DataName
  <2> DEFINE y == [x EXCEPT !.back = "failed", !.data = d]
  <2>1. y \in Request
    <3>1. [x EXCEPT !.back = "failed"] \in Request
      BY SetOK, <2>v1, <1>2 DEF StepName, DataName, BackName, AnswerName, DirName
    <3>2. \A u \in Request : [u EXCEPT !.data = d] \in Request
      BY SetOK, <2>v1, <1>2 DEF StepName, DataName, BackName, AnswerName, DirName
    <3> QED  BY <3>1, <3>2
  <2>2. FlowOK(r, y, excused')
    BY <1>2, <2>1, <2>v1 DEF ExportFails, Broken, FlowOK, AnswerOK, DirOK, StoredOK,
      DownloadOK, Request,
    StepName, AnswerName, DataName, BackName, DirName, Stage, Route, OfContent, OfSchool,
    OfParent, Streamed
  <2>3. Held(y) \subseteq Held(x)
    BY <1>2, <2>1, <2>v1 DEF ExportFails, Broken, Held, Request
  <2>4. Go(r, y) /\ Counted(r)
    BY <1>2, <1>m, <2>v1 DEF ExportFails, Broken, Fault, Counted
  <2> QED  BY <2>2, <2>3, <2>4 DEF Advances
<1>3. CASE StreamTimer(r)
  <2>1. CASE Silent(req[r]) /\ Go(r, [req[r] EXCEPT !.data = "gone"])
    <3> DEFINE y == [x EXCEPT !.data = "gone"]
    <3>1. y \in Request
      BY SetOK, <1>3, <2>1 DEF DataName
    <3>2. FlowOK(r, y, excused')
      BY <1>3, <2>1, <3>1 DEF StreamTimer, Silent, Broken, FlowOK, AnswerOK, DirOK,
        StoredOK, DownloadOK, Request,
      StepName, AnswerName, DataName, BackName, DirName, Stage, Route, OfContent, OfSchool,
      OfParent, Streamed
    <3>3. Held(y) \subseteq Held(x)
      BY <1>3, <2>1, <3>1 DEF StreamTimer, Silent, Broken, Held, Request
    <3>4. Go(r, y) /\ Counted(r)
      BY <1>3, <2>1, <1>m DEF StreamTimer, Silent, Broken, Fault, Counted
    <3> QED  BY <3>2, <3>3, <3>4 DEF Advances
  <2>2. CASE req[r].loose > 0 /\ Go(r, [req[r] EXCEPT !.loose = @ - 1])
    <3>v1. PICK n \in Nat : n = x.loose - 1
      BY <2>2 DEF Request
    <3> DEFINE y == [x EXCEPT !.loose = n]
    <3>1. y \in Request
      BY SetOK, <3>v1
    <3>2. FlowOK(r, y, excused')
      BY <1>3, <2>2, <3>1, <3>v1 DEF StreamTimer, Silent, Broken, FlowOK, AnswerOK, DirOK,
        StoredOK, DownloadOK, Request,
      StepName, AnswerName, DataName, BackName, DirName, Stage, Route, OfContent, OfSchool,
      OfParent, Streamed
    <3>3. Held(y) \subseteq Held(x)
      BY <1>3, <2>2, <3>1, <3>v1 DEF StreamTimer, Silent, Broken, Held, Request
    <3>4. Go(r, y) /\ Counted(r)
      BY <1>3, <2>2, <1>m, <3>v1 DEF StreamTimer, Silent, Broken, Fault, Counted
    <3> QED  BY <3>2, <3>3, <3>4 DEF Advances
  <2>3. CASE req[r].back = "reading" /\ Go(r, Broken(req[r]))
    <3>v1. PICK d \in DataName : d = IF x.data = "pass" THEN "gone" ELSE x.data
      BY DEF Request, DataName
    <3> DEFINE y == [x EXCEPT !.back = "failed", !.data = d]
    <3>1. y \in Request
      <4>1. [x EXCEPT !.back = "failed"] \in Request
        BY SetOK, <3>v1, <1>3, <2>3 DEF StepName, DataName, BackName, AnswerName, DirName
      <4>2. \A u \in Request : [u EXCEPT !.data = d] \in Request
        BY SetOK, <3>v1, <1>3, <2>3 DEF StepName, DataName, BackName, AnswerName, DirName
      <4> QED  BY <4>1, <4>2
    <3>2. FlowOK(r, y, excused')
      BY <1>3, <2>3, <3>1, <3>v1 DEF StreamTimer, Silent, Broken, FlowOK, AnswerOK, DirOK,
        StoredOK, DownloadOK, Request,
      StepName, AnswerName, DataName, BackName, DirName, Stage, Route, OfContent, OfSchool,
      OfParent, Streamed
    <3>3. Held(y) \subseteq Held(x)
      BY <1>3, <2>3, <3>1, <3>v1 DEF StreamTimer, Silent, Broken, Held, Request
    <3>4. Go(r, y) /\ Counted(r)
      BY <1>3, <2>3, <1>m, <3>v1 DEF StreamTimer, Silent, Broken, Fault, Counted
    <3> QED  BY <3>2, <3>3, <3>4 DEF Advances
  <2> QED  BY <1>3, <2>1, <2>2, <2>3 DEF StreamTimer, Silent, Broken
<1>4. CASE Close(r)
  <2>v1. PICK d \in DataName : d = IF x.heard THEN Dropped(x.data) ELSE x.data
    BY DEF Request, DataName, Dropped
  <2>v2. PICK s \in StepName : s = IF x.step = "send" THEN "over" ELSE x.step
    BY DEF Request, StepName
  <2>v3. PICK t \in {"none", "ended", "cut"} : t = IF x.step = "send" THEN "cut" ELSE x.sent
    BY DEF Request
  <2> DEFINE y == [x EXCEPT !.closed = TRUE, !.data = d, !.step = s, !.sent = t]
  <2>1. y \in Request
    <3>1. [x EXCEPT !.closed = TRUE] \in Request
      BY SetOK, <2>v1, <2>v2, <2>v3, <1>4 DEF StepName, DataName, BackName, AnswerName,
        DirName
    <3>2. \A u \in Request : [u EXCEPT !.data = d] \in Request
      BY SetOK, <2>v1, <2>v2, <2>v3, <1>4 DEF StepName, DataName, BackName, AnswerName,
        DirName
    <3>3. \A u \in Request : [u EXCEPT !.step = s] \in Request
      BY ZenonT(60), SetOK, <2>v1, <2>v2, <2>v3, <1>4 DEF StepName, DataName, BackName, AnswerName,
        DirName
    <3>4. \A u \in Request : [u EXCEPT !.sent = t] \in Request
      BY SetOK, <2>v1, <2>v2, <2>v3, <1>4 DEF StepName, DataName, BackName, AnswerName,
        DirName
    <3> QED  BY <3>1, <3>2, <3>3, <3>4
  <2>e. y.step = s /\ y.answer = x.answer /\ y.data = d /\ y.loose = x.loose /\ y.back = x.back
        /\ y.dir = x.dir /\ y.sent = t /\ y.route = x.route
    BY <2>1 DEF Request
  <2>f. (y.heard <=> x.heard) /\ (y.closed <=> TRUE) /\ (y.failing <=> x.failing) /\ (y.stored <=> x.stored)
    BY <2>1 DEF Request
  <2>2. FlowOK(r, y, excused')
    <3> HIDE DEF y
    <3>0. excused \subseteq excused'
      BY <1>4 DEF Close
    <3>1. <<y.route, y.step>> \in Stage
      BY <1>4, <2>e, <2>v1, <2>v2, <2>v3 DEF Close, FlowOK, Stage, Route, OfContent,
        OfSchool, OfParent, Streamed
    <3>a. AnswerOK(y)
      BY <1>4, <2>e, <2>f, <2>v1, <2>v2, <2>v3 DEF Close, FlowOK, AnswerOK
    <3>2. DirOK(r, y, excused')
      BY <1>4, <2>e, <3>0, <2>v1, <2>v2, <2>v3 DEF Close, FlowOK, DirOK, Stage, Streamed
    <3>3. StoredOK(y)
      BY <1>4, <2>e, <2>f, <2>v1, <2>v2, <2>v3 DEF Close, FlowOK, StoredOK, AnswerOK,
        Stage, Streamed
    <3>4. DownloadOK(y)
      BY <1>4, <2>e, <2>v1, <2>v2, <2>v3 DEF Close, FlowOK, DownloadOK, AnswerOK, Stage,
        Dropped
    <3> QED  BY <2>1, <3>1, <3>a, <3>2, <3>3, <3>4 DEF FlowOK
  <2>3. Held(y) \subseteq Held(x)
    <3> HIDE DEF y
    <3>1. /\ y.loose = x.loose
          /\ y.data \in {"open", "left"} => x.data \in {"open", "left"}
          /\ y.back = "reading" => x.back = "reading"
          /\ y.step \in {"storing", "copying"} => x.step \in {"storing", "copying"}
      BY <2>e, <2>v1, <2>v2, <2>v3 DEF Dropped
    <3> QED  BY <3>1, HoldsNoMore
  <2>4. Go(r, y) /\ Counted(r)
    BY <1>4, <1>m, <2>v1, <2>v2, <2>v3 DEF Close, Fault, Counted
  <2> QED  BY <2>2, <2>3, <2>4 DEF Advances
<1> QED  BY <1>1, <1>2, <1>3, <1>4

\* The use case returns.
LEMMA ReturnStep ==
  ASSUME FlowInv, NEW r \in Req,
         \/ ReturnBody(r) \/ ReturnFile(r) \/ ReturnLibraryFile(r) \/ ReturnDownload(r)
  PROVE  \E q : Advances(r, q)
<1> PICK x \in Request : x = req[r] /\ FlowOK(r, x, excused)
  BY DEF FlowInv
<1>m. mishaps \in 0..MaxMishaps /\ MaxMishaps \in Nat
  BY RequestsAssumption DEF FlowInv
<1>1. CASE ReturnBody(r)
  <2>v1. PICK a \in AnswerName : a = IF x.answer = "none" THEN "ok" ELSE x.answer
    BY DEF Request, AnswerName
  <2> DEFINE y == [x EXCEPT !.step = "over", !.answer = a]
  <2>1. y \in Request
    <3>1. [x EXCEPT !.step = "over"] \in Request
      BY SetOK, <2>v1, <1>1 DEF StepName, DataName, BackName, AnswerName, DirName
    <3>2. \A u \in Request : [u EXCEPT !.answer = a] \in Request
      BY SetOK, <2>v1, <1>1 DEF StepName, DataName, BackName, AnswerName, DirName
    <3> QED  BY <3>1, <3>2
  <2>2. FlowOK(r, y, excused')
    BY <1>1, <2>1, <2>v1 DEF ReturnBody, Timely, FlowOK, AnswerOK, DirOK, StoredOK,
      DownloadOK, Request,
    StepName, AnswerName, DataName, BackName, DirName, Stage, Route, OfContent, OfSchool,
    OfParent, Streamed
  <2>3. Held(y) \subseteq Held(x)
    BY <1>1, <2>1, <2>v1 DEF ReturnBody, Timely, Held, Request
  <2>4. Go(r, y) /\ Counted(r)
    BY <1>1, <1>m, <2>v1 DEF ReturnBody, Timely, Fault, Counted
  <2> QED  BY <2>2, <2>3, <2>4 DEF Advances
<1>2. CASE ReturnFile(r)
  <2>v1. PICK a \in AnswerName : a = IF x.answer = "none" THEN "ok" ELSE x.answer
    BY DEF Request, AnswerName
  <2>v2. PICK s \in {"send", "over"} : s = IF x.answer = "none" /\ ~x.closed THEN "send" ELSE "over"
    OBVIOUS
  <2>v3. PICK d \in DataName : d = IF x.answer = "none" /\ x.closed THEN Dropped(x.data) ELSE x.data
    BY DEF Request, DataName, Dropped
  <2> DEFINE y == [x EXCEPT !.answer = a, !.step = s, !.heard = ~x.closed, !.data = d]
  <2>1. y \in Request
    <3>1. [x EXCEPT !.answer = a] \in Request
      BY SetOK, <2>v1, <2>v2, <2>v3, <1>2 DEF StepName, DataName, BackName, AnswerName,
        DirName
    <3>2. \A u \in Request : [u EXCEPT !.step = s] \in Request
      BY SetOK, <2>v1, <2>v2, <2>v3, <1>2 DEF StepName, DataName, BackName, AnswerName,
        DirName
    <3>3. \A u \in Request : [u EXCEPT !.heard = ~x.closed] \in Request
      BY SetOK, <2>v1, <2>v2, <2>v3, <1>2 DEF StepName, DataName, BackName, AnswerName,
        DirName
    <3>4. \A u \in Request : [u EXCEPT !.data = d] \in Request
      BY SetOK, <2>v1, <2>v2, <2>v3, <1>2 DEF StepName, DataName, BackName, AnswerName,
        DirName
    <3> QED  BY <3>1, <3>2, <3>3, <3>4
  <2>e. y.step = s /\ y.answer = a /\ y.data = d /\ y.loose = x.loose /\ y.back = x.back
        /\ y.dir = x.dir /\ y.sent = x.sent /\ y.route = x.route
    BY <2>1 DEF Request
  <2>f. (y.heard <=> ~x.closed) /\ (y.closed <=> x.closed) /\ (y.failing <=> x.failing) /\ (y.stored <=> x.stored)
    BY <2>1 DEF Request
  <2>2. FlowOK(r, y, excused')
    <3> HIDE DEF y
    <3>0. excused \subseteq excused'
      BY <1>2 DEF ReturnFile, Streams, Timely
    <3>1. <<y.route, y.step>> \in Stage
      BY <1>2, <2>e, <2>v1, <2>v2, <2>v3 DEF ReturnFile, Streams, Timely, FlowOK, Stage,
        Route, OfContent, OfSchool, OfParent, Streamed
    <3>a. AnswerOK(y)
      BY <1>2, <2>e, <2>f, <2>v1, <2>v2, <2>v3 DEF ReturnFile, Streams, Timely, FlowOK,
        AnswerOK
    <3>2. DirOK(r, y, excused')
      BY <1>2, <2>e, <3>0, <2>v1, <2>v2, <2>v3 DEF ReturnFile, Streams, Timely, FlowOK,
        DirOK, Stage, Streamed
    <3>3. StoredOK(y)
      BY <1>2, <2>e, <2>f, <2>v1, <2>v2, <2>v3 DEF ReturnFile, Streams, Timely, FlowOK,
        StoredOK, AnswerOK, Stage, Streamed
    <3>4. DownloadOK(y)
      BY <1>2, <2>e, <2>v1, <2>v2, <2>v3 DEF ReturnFile, Streams, Timely, FlowOK,
        DownloadOK, AnswerOK, Stage, Dropped
    <3> QED  BY <2>1, <3>1, <3>a, <3>2, <3>3, <3>4 DEF FlowOK
  <2>3. Held(y) \subseteq Held(x)
    <3> HIDE DEF y
    <3>1. /\ y.loose = x.loose
          /\ y.data \in {"open", "left"} => x.data \in {"open", "left"}
          /\ y.back = "reading" => x.back = "reading"
          /\ y.step \in {"storing", "copying"} => x.step \in {"storing", "copying"}
      BY <2>e, <2>v1, <2>v2, <2>v3 DEF Dropped
    <3> QED  BY <3>1, HoldsNoMore
  <2>4. Go(r, y) /\ Counted(r)
    BY <1>2, <1>m, <2>v1, <2>v2, <2>v3 DEF ReturnFile, Streams, Timely, Fault, Counted
  <2> QED  BY <2>2, <2>3, <2>4 DEF Advances
<1>3. CASE ReturnLibraryFile(r)
  <2>v1. PICK a \in AnswerName : a = IF x.answer = "none" THEN "ok" ELSE x.answer
    BY DEF Request, AnswerName
  <2>v2. PICK s \in {"send", "over"} : s = IF x.answer = "none" /\ ~x.closed THEN "send" ELSE "over"
    OBVIOUS
  <2>v3. PICK d \in DataName : d = IF x.answer = "none" /\ x.closed THEN Dropped(x.data) ELSE x.data
    BY DEF Request, DataName, Dropped
  <2> DEFINE y == [x EXCEPT !.answer = a, !.step = s, !.heard = ~x.closed, !.data = d]
  <2>1. y \in Request
    <3>1. [x EXCEPT !.answer = a] \in Request
      BY SetOK, <2>v1, <2>v2, <2>v3, <1>3 DEF StepName, DataName, BackName, AnswerName,
        DirName
    <3>2. \A u \in Request : [u EXCEPT !.step = s] \in Request
      BY SetOK, <2>v1, <2>v2, <2>v3, <1>3 DEF StepName, DataName, BackName, AnswerName,
        DirName
    <3>3. \A u \in Request : [u EXCEPT !.heard = ~x.closed] \in Request
      BY SetOK, <2>v1, <2>v2, <2>v3, <1>3 DEF StepName, DataName, BackName, AnswerName,
        DirName
    <3>4. \A u \in Request : [u EXCEPT !.data = d] \in Request
      BY SetOK, <2>v1, <2>v2, <2>v3, <1>3 DEF StepName, DataName, BackName, AnswerName,
        DirName
    <3> QED  BY <3>1, <3>2, <3>3, <3>4
  <2>e. y.step = s /\ y.answer = a /\ y.data = d /\ y.loose = x.loose /\ y.back = x.back
        /\ y.dir = x.dir /\ y.sent = x.sent /\ y.route = x.route
    BY <2>1 DEF Request
  <2>f. (y.heard <=> ~x.closed) /\ (y.closed <=> x.closed) /\ (y.failing <=> x.failing) /\ (y.stored <=> x.stored)
    BY <2>1 DEF Request
  <2>2. FlowOK(r, y, excused')
    <3> HIDE DEF y
    <3>0. excused \subseteq excused'
      BY <1>3 DEF ReturnLibraryFile, Streams, Timely
    <3>1. <<y.route, y.step>> \in Stage
      BY <1>3, <2>e, <2>v1, <2>v2, <2>v3 DEF ReturnLibraryFile, Streams, Timely, FlowOK,
        Stage, Route, OfContent, OfSchool, OfParent, Streamed
    <3>a. AnswerOK(y)
      BY <1>3, <2>e, <2>f, <2>v1, <2>v2, <2>v3 DEF ReturnLibraryFile, Streams, Timely,
        FlowOK, AnswerOK
    <3>2. DirOK(r, y, excused')
      BY <1>3, <2>e, <3>0, <2>v1, <2>v2, <2>v3 DEF ReturnLibraryFile, Streams, Timely,
        FlowOK, DirOK, Stage, Streamed
    <3>3. StoredOK(y)
      BY <1>3, <2>e, <2>f, <2>v1, <2>v2, <2>v3 DEF ReturnLibraryFile, Streams, Timely,
        FlowOK, StoredOK, AnswerOK, Stage, Streamed
    <3>4. DownloadOK(y)
      BY <1>3, <2>e, <2>v1, <2>v2, <2>v3 DEF ReturnLibraryFile, Streams, Timely, FlowOK,
        DownloadOK, AnswerOK, Stage, Dropped
    <3> QED  BY <2>1, <3>1, <3>a, <3>2, <3>3, <3>4 DEF FlowOK
  <2>3. Held(y) \subseteq Held(x)
    <3> HIDE DEF y
    <3>1. /\ y.loose = x.loose
          /\ y.data \in {"open", "left"} => x.data \in {"open", "left"}
          /\ y.back = "reading" => x.back = "reading"
          /\ y.step \in {"storing", "copying"} => x.step \in {"storing", "copying"}
      BY <2>e, <2>v1, <2>v2, <2>v3 DEF Dropped
    <3> QED  BY <3>1, HoldsNoMore
  <2>4. Go(r, y) /\ Counted(r)
    BY <1>3, <1>m, <2>v1, <2>v2, <2>v3 DEF ReturnLibraryFile, Streams, Timely, Fault,
      Counted
  <2> QED  BY <2>2, <2>3, <2>4 DEF Advances
<1>4. CASE ReturnDownload(r)
  <2>v1. PICK a \in AnswerName : a = IF x.answer = "none" THEN "ok" ELSE x.answer
    BY DEF Request, AnswerName
  <2>v2. PICK s \in {"send", "over"} : s = IF x.answer = "none" /\ ~x.closed THEN "send" ELSE "over"
    OBVIOUS
  <2>v3. PICK d \in DataName : d = IF x.answer = "none" /\ x.closed THEN Dropped(x.data) ELSE x.data
    BY DEF Request, DataName, Dropped
  <2> DEFINE y == [x EXCEPT !.answer = a, !.step = s, !.heard = ~x.closed, !.data = d]
  <2>1. y \in Request
    <3>1. [x EXCEPT !.answer = a] \in Request
      BY SetOK, <2>v1, <2>v2, <2>v3, <1>4 DEF StepName, DataName, BackName, AnswerName,
        DirName
    <3>2. \A u \in Request : [u EXCEPT !.step = s] \in Request
      BY SetOK, <2>v1, <2>v2, <2>v3, <1>4 DEF StepName, DataName, BackName, AnswerName,
        DirName
    <3>3. \A u \in Request : [u EXCEPT !.heard = ~x.closed] \in Request
      BY SetOK, <2>v1, <2>v2, <2>v3, <1>4 DEF StepName, DataName, BackName, AnswerName,
        DirName
    <3>4. \A u \in Request : [u EXCEPT !.data = d] \in Request
      BY SetOK, <2>v1, <2>v2, <2>v3, <1>4 DEF StepName, DataName, BackName, AnswerName,
        DirName
    <3> QED  BY <3>1, <3>2, <3>3, <3>4
  <2>e. y.step = s /\ y.answer = a /\ y.data = d /\ y.loose = x.loose /\ y.back = x.back
        /\ y.dir = x.dir /\ y.sent = x.sent /\ y.route = x.route
    BY <2>1 DEF Request
  <2>f. (y.heard <=> ~x.closed) /\ (y.closed <=> x.closed) /\ (y.failing <=> x.failing) /\ (y.stored <=> x.stored)
    BY <2>1 DEF Request
  <2>2. FlowOK(r, y, excused')
    <3> HIDE DEF y
    <3>0. excused \subseteq excused'
      BY <1>4 DEF ReturnDownload, Streams, Timely
    <3>1. <<y.route, y.step>> \in Stage
      BY <1>4, <2>e, <2>v1, <2>v2, <2>v3 DEF ReturnDownload, Streams, Timely, FlowOK,
        Stage, Route, OfContent, OfSchool, OfParent, Streamed
    <3>a. AnswerOK(y)
      BY <1>4, <2>e, <2>f, <2>v1, <2>v2, <2>v3 DEF ReturnDownload, Streams, Timely, FlowOK,
        AnswerOK
    <3>2. DirOK(r, y, excused')
      BY <1>4, <2>e, <3>0, <2>v1, <2>v2, <2>v3 DEF ReturnDownload, Streams, Timely, FlowOK,
        DirOK, Stage, Streamed
    <3>3. StoredOK(y)
      BY <1>4, <2>e, <2>f, <2>v1, <2>v2, <2>v3 DEF ReturnDownload, Streams, Timely, FlowOK,
        StoredOK, AnswerOK, Stage, Streamed
    <3>4. DownloadOK(y)
      BY <1>4, <2>e, <2>v1, <2>v2, <2>v3 DEF ReturnDownload, Streams, Timely, FlowOK,
        DownloadOK, AnswerOK, Stage, Dropped
    <3> QED  BY <2>1, <3>1, <3>a, <3>2, <3>3, <3>4 DEF FlowOK
  <2>3. Held(y) \subseteq Held(x)
    <3> HIDE DEF y
    <3>1. /\ y.loose = x.loose
          /\ y.data \in {"open", "left"} => x.data \in {"open", "left"}
          /\ y.back = "reading" => x.back = "reading"
          /\ y.step \in {"storing", "copying"} => x.step \in {"storing", "copying"}
      BY <2>e, <2>v1, <2>v2, <2>v3 DEF Dropped
    <3> QED  BY <3>1, HoldsNoMore
  <2>4. Go(r, y) /\ Counted(r)
    BY <1>4, <1>m, <2>v1, <2>v2, <2>v3 DEF ReturnDownload, Streams, Timely, Fault, Counted
  <2> QED  BY <2>2, <2>3, <2>4 DEF Advances
<1> QED  BY <1>1, <1>2, <1>3, <1>4

\* Writing, storing and cleaning up; a save that fails.
LEMMA CleanStep ==
  ASSUME FlowInv, NEW r \in Req,
         \/ WriteSvg(r) \/ PostAjax(r) \/ FileSaved(r) \/ DeleteSvg(r) \/ CopyFails(r)
  PROVE  \E q : Advances(r, q)
<1> PICK x \in Request : x = req[r] /\ FlowOK(r, x, excused)
  BY DEF FlowInv
<1>m. mishaps \in 0..MaxMishaps /\ MaxMishaps \in Nat
  BY RequestsAssumption DEF FlowInv
<1>1. CASE WriteSvg(r)
  <2>1. CASE Go(r, [req[r] EXCEPT !.step = "name", !.dir = "full"]) /\ UNCHANGED <<mishaps, excused>>
    <3> DEFINE y == [x EXCEPT !.step = "name", !.dir = "full"]
    <3>1. y \in Request
      <4>1. [x EXCEPT !.step = "name"] \in Request
        BY SetOK, <1>1, <2>1 DEF StepName, DataName, BackName, AnswerName, DirName
      <4>2. \A u \in Request : [u EXCEPT !.dir = "full"] \in Request
        BY SetOK, <1>1, <2>1 DEF StepName, DataName, BackName, AnswerName, DirName
      <4> QED  BY <4>1, <4>2
    <3>2. FlowOK(r, y, excused')
      BY <1>1, <2>1, <3>1 DEF WriteSvg, FlowOK, AnswerOK, DirOK, StoredOK, DownloadOK,
        Request,
      StepName, AnswerName, DataName, BackName, DirName, Stage, Route, OfContent, OfSchool,
      OfParent, Streamed
    <3>3. Held(y) \subseteq Held(x)
      BY <1>1, <2>1, <3>1 DEF WriteSvg, Held, Request
    <3>4. Go(r, y) /\ Counted(r)
      BY <1>1, <2>1, <1>m DEF WriteSvg, Fault, Counted
    <3> QED  BY <3>2, <3>3, <3>4 DEF Advances
  <2>2. CASE Fault /\ excused' = excused \cup {r} /\ Go(r, Threw(req[r]))
    <3>1. FlowOK(r, Threw(x), excused') /\ Held(Threw(x)) \subseteq Held(x)
      <4>1. x.step \notin {"free", "send", "over"} /\ r \in excused' /\ excused \subseteq excused'
        BY <1>1, <2>2 DEF WriteSvg
      <4> QED  BY <4>1, ThrewOK
    <3>2. Go(r, Threw(x)) /\ excused' = excused \cup {r} /\ mishaps' \in 0..MaxMishaps
      BY <1>1, <2>2, <1>m DEF WriteSvg, Fault
    <3> QED  BY <3>1, <3>2 DEF Counted, Advances
  <2> QED  BY <1>1, <2>1, <2>2 DEF WriteSvg
<1>2. CASE PostAjax(r)
  <2>v1. PICK failing \in BOOLEAN : Go(r, Finally(req[r], failing))
    BY <1>2 DEF PostAjax
  <2> DEFINE y == [x EXCEPT !.step = "clean", !.failing = failing, !.stored = ~failing]
  <2>1. y \in Request
    <3>1. [x EXCEPT !.step = "clean"] \in Request
      BY SetOK, <2>v1, <1>2 DEF StepName, DataName, BackName, AnswerName, DirName
    <3>2. \A u \in Request : [u EXCEPT !.failing = failing] \in Request
      BY SetOK, <2>v1, <1>2 DEF StepName, DataName, BackName, AnswerName, DirName
    <3>3. \A u \in Request : [u EXCEPT !.stored = ~failing] \in Request
      BY SetOK, <2>v1, <1>2 DEF StepName, DataName, BackName, AnswerName, DirName
    <3> QED  BY <3>1, <3>2, <3>3
  <2>e. y.step = "clean" /\ y.answer = x.answer /\ y.data = x.data /\ y.loose = x.loose /\ y.back = x.back
        /\ y.dir = x.dir /\ y.sent = x.sent /\ y.route = x.route
    BY <2>1 DEF Request
  <2>f. (y.heard <=> x.heard) /\ (y.closed <=> x.closed) /\ (y.failing <=> failing) /\ (y.stored <=> ~failing)
    BY <2>1 DEF Request
  <2>2. FlowOK(r, y, excused')
    <3> HIDE DEF y
    <3>0. excused \subseteq excused'
      BY <1>2 DEF PostAjax, Finally
    <3>1. <<y.route, y.step>> \in Stage
      BY <1>2, <2>e, <2>v1 DEF PostAjax, Finally, FlowOK, Stage, Route, OfContent,
        OfSchool, OfParent, Streamed
    <3>a. AnswerOK(y)
      BY <1>2, <2>e, <2>f, <2>v1 DEF PostAjax, Finally, FlowOK, AnswerOK
    <3>2. DirOK(r, y, excused')
      BY <1>2, <2>e, <3>0, <2>v1 DEF PostAjax, Finally, FlowOK, DirOK, Stage, Streamed
    <3>3. StoredOK(y)
      BY <1>2, <2>e, <2>f, <2>v1 DEF PostAjax, Finally, FlowOK, StoredOK, AnswerOK, Stage,
        Streamed
    <3>4. DownloadOK(y)
      BY <1>2, <2>e, <2>v1 DEF PostAjax, Finally, FlowOK, DownloadOK, AnswerOK, Stage,
        Dropped
    <3> QED  BY <2>1, <3>1, <3>a, <3>2, <3>3, <3>4 DEF FlowOK
  <2>3. Held(y) \subseteq Held(x)
    <3> HIDE DEF y
    <3>1. /\ y.loose = x.loose
          /\ y.data \in {"open", "left"} => x.data \in {"open", "left"}
          /\ y.back = "reading" => x.back = "reading"
          /\ y.step \in {"storing", "copying"} => x.step \in {"storing", "copying"}
      BY <2>e, <2>v1 DEF Dropped
    <3> QED  BY <3>1, HoldsNoMore
  <2>4. Go(r, y) /\ Counted(r)
    BY <1>2, <1>m, <2>v1 DEF PostAjax, Finally, Fault, Counted
  <2> QED  BY <2>2, <2>3, <2>4 DEF Advances
<1>3. CASE FileSaved(r)
  <2>1. CASE Go(r, Finally(req[r], FALSE)) /\ UNCHANGED mishaps
    <3> DEFINE y == [x EXCEPT !.step = "clean", !.failing = FALSE, !.stored = ~FALSE]
    <3>1. y \in Request
      <4>1. [x EXCEPT !.step = "clean"] \in Request
        BY SetOK, <1>3, <2>1 DEF StepName, DataName, BackName, AnswerName, DirName
      <4>2. \A u \in Request : [u EXCEPT !.failing = FALSE] \in Request
        BY SetOK, <1>3, <2>1 DEF StepName, DataName, BackName, AnswerName, DirName
      <4>3. \A u \in Request : [u EXCEPT !.stored = ~FALSE] \in Request
        BY SetOK, <1>3, <2>1 DEF StepName, DataName, BackName, AnswerName, DirName
      <4> QED  BY <4>1, <4>2, <4>3
    <3>e. y.step = "clean" /\ y.answer = x.answer /\ y.data = x.data /\ y.loose = x.loose /\ y.back = x.back
          /\ y.dir = x.dir /\ y.sent = x.sent /\ y.route = x.route
      BY <3>1 DEF Request
    <3>f. (y.heard <=> x.heard) /\ (y.closed <=> x.closed) /\ (y.failing <=> FALSE) /\ (y.stored <=> ~FALSE)
      BY <3>1 DEF Request
    <3>2. FlowOK(r, y, excused')
      <4> HIDE DEF y
      <4>0. excused \subseteq excused'
        BY <1>3, <2>1 DEF FileSaved, Finally
      <4>1. <<y.route, y.step>> \in Stage
        BY <1>3, <2>1, <3>e DEF FileSaved, Finally, FlowOK, Stage, Route, OfContent,
          OfSchool, OfParent, Streamed
      <4>a. AnswerOK(y)
        BY <1>3, <2>1, <3>e, <3>f DEF FileSaved, Finally, FlowOK, AnswerOK
      <4>2. DirOK(r, y, excused')
        BY <1>3, <2>1, <3>e, <4>0 DEF FileSaved, Finally, FlowOK, DirOK, Stage, Streamed
      <4>3. StoredOK(y)
        BY <1>3, <2>1, <3>e, <3>f DEF FileSaved, Finally, FlowOK, StoredOK, AnswerOK,
          Stage, Streamed
      <4>4. DownloadOK(y)
        BY <1>3, <2>1, <3>e DEF FileSaved, Finally, FlowOK, DownloadOK, AnswerOK, Stage,
          Dropped
      <4> QED  BY <3>1, <4>1, <4>a, <4>2, <4>3, <4>4 DEF FlowOK
    <3>3. Held(y) \subseteq Held(x)
      <4> HIDE DEF y
      <4>1. /\ y.loose = x.loose
            /\ y.data \in {"open", "left"} => x.data \in {"open", "left"}
            /\ y.back = "reading" => x.back = "reading"
            /\ y.step \in {"storing", "copying"} => x.step \in {"storing", "copying"}
        BY <3>e DEF Dropped
      <4> QED  BY <4>1, HoldsNoMore
    <3>4. Go(r, y) /\ Counted(r)
      BY <1>3, <2>1, <1>m DEF FileSaved, Finally, Fault, Counted
    <3> QED  BY <3>2, <3>3, <3>4 DEF Advances
  <2>2. CASE Fault /\ Go(r, Finally(req[r], TRUE))
    <3> DEFINE y == [x EXCEPT !.step = "clean", !.failing = TRUE, !.stored = ~TRUE]
    <3>1. y \in Request
      <4>1. [x EXCEPT !.step = "clean"] \in Request
        BY SetOK, <1>3, <2>2 DEF StepName, DataName, BackName, AnswerName, DirName
      <4>2. \A u \in Request : [u EXCEPT !.failing = TRUE] \in Request
        BY SetOK, <1>3, <2>2 DEF StepName, DataName, BackName, AnswerName, DirName
      <4>3. \A u \in Request : [u EXCEPT !.stored = ~TRUE] \in Request
        BY SetOK, <1>3, <2>2 DEF StepName, DataName, BackName, AnswerName, DirName
      <4> QED  BY <4>1, <4>2, <4>3
    <3>e. y.step = "clean" /\ y.answer = x.answer /\ y.data = x.data /\ y.loose = x.loose /\ y.back = x.back
          /\ y.dir = x.dir /\ y.sent = x.sent /\ y.route = x.route
      BY <3>1 DEF Request
    <3>f. (y.heard <=> x.heard) /\ (y.closed <=> x.closed) /\ (y.failing <=> TRUE) /\ (y.stored <=> ~TRUE)
      BY <3>1 DEF Request
    <3>2. FlowOK(r, y, excused')
      <4> HIDE DEF y
      <4>0. excused \subseteq excused'
        BY <1>3, <2>2 DEF FileSaved, Finally
      <4>1. <<y.route, y.step>> \in Stage
        BY <1>3, <2>2, <3>e DEF FileSaved, Finally, FlowOK, Stage, Route, OfContent,
          OfSchool, OfParent, Streamed
      <4>a. AnswerOK(y)
        BY <1>3, <2>2, <3>e, <3>f DEF FileSaved, Finally, FlowOK, AnswerOK
      <4>2. DirOK(r, y, excused')
        BY <1>3, <2>2, <3>e, <4>0 DEF FileSaved, Finally, FlowOK, DirOK, Stage, Streamed
      <4>3. StoredOK(y)
        BY <1>3, <2>2, <3>e, <3>f DEF FileSaved, Finally, FlowOK, StoredOK, AnswerOK,
          Stage, Streamed
      <4>4. DownloadOK(y)
        BY <1>3, <2>2, <3>e DEF FileSaved, Finally, FlowOK, DownloadOK, AnswerOK, Stage,
          Dropped
      <4> QED  BY <3>1, <4>1, <4>a, <4>2, <4>3, <4>4 DEF FlowOK
    <3>3. Held(y) \subseteq Held(x)
      <4> HIDE DEF y
      <4>1. /\ y.loose = x.loose
            /\ y.data \in {"open", "left"} => x.data \in {"open", "left"}
            /\ y.back = "reading" => x.back = "reading"
            /\ y.step \in {"storing", "copying"} => x.step \in {"storing", "copying"}
        BY <3>e DEF Dropped
      <4> QED  BY <4>1, HoldsNoMore
    <3>4. Go(r, y) /\ Counted(r)
      BY <1>3, <2>2, <1>m DEF FileSaved, Finally, Fault, Counted
    <3> QED  BY <3>2, <3>3, <3>4 DEF Advances
  <2> QED  BY <1>3, <2>1, <2>2 DEF FileSaved, Finally
<1>4. CASE DeleteSvg(r)
  <2>1. CASE req[r].failing /\ Go(r, [Threw(req[r]) EXCEPT !.dir = "none"]) /\ UNCHANGED <<mishaps, excused>>
    <3>v1. PICK a \in AnswerName : a = IF x.answer = "none" THEN "error" ELSE x.answer
      BY DEF Request, AnswerName
    <3> DEFINE y == [x EXCEPT !.step = "over", !.answer = a, !.dir = "none"]
    <3>1. y \in Request
      <4>1. [x EXCEPT !.step = "over"] \in Request
        BY SetOK, <3>v1, <1>4, <2>1 DEF StepName, DataName, BackName, AnswerName, DirName
      <4>2. \A u \in Request : [u EXCEPT !.answer = a] \in Request
        BY SetOK, <3>v1, <1>4, <2>1 DEF StepName, DataName, BackName, AnswerName, DirName
      <4>3. \A u \in Request : [u EXCEPT !.dir = "none"] \in Request
        BY SetOK, <3>v1, <1>4, <2>1 DEF StepName, DataName, BackName, AnswerName, DirName
      <4> QED  BY <4>1, <4>2, <4>3
    <3>2. FlowOK(r, y, excused')
      BY <1>4, <2>1, <3>1, <3>v1 DEF DeleteSvg, Threw, FlowOK, AnswerOK, DirOK, StoredOK,
        DownloadOK, Request,
      StepName, AnswerName, DataName, BackName, DirName, Stage, Route, OfContent, OfSchool,
      OfParent, Streamed
    <3>3. Held(y) \subseteq Held(x)
      BY <1>4, <2>1, <3>1, <3>v1 DEF DeleteSvg, Threw, Held, Request
    <3>4. Go(r, y) /\ Counted(r)
      BY <1>4, <2>1, <1>m, <3>v1 DEF DeleteSvg, Threw, Fault, Counted
    <3> QED  BY <3>2, <3>3, <3>4 DEF Advances
  <2>2. CASE ~req[r].failing /\ Go(r, [req[r] EXCEPT !.step = "return", !.dir = "none"]) /\ UNCHANGED <<mishaps, excused>>
    <3> DEFINE y == [x EXCEPT !.step = "return", !.dir = "none"]
    <3>1. y \in Request
      <4>1. [x EXCEPT !.step = "return"] \in Request
        BY SetOK, <1>4, <2>2 DEF StepName, DataName, BackName, AnswerName, DirName
      <4>2. \A u \in Request : [u EXCEPT !.dir = "none"] \in Request
        BY SetOK, <1>4, <2>2 DEF StepName, DataName, BackName, AnswerName, DirName
      <4> QED  BY <4>1, <4>2
    <3>2. FlowOK(r, y, excused')
      BY <1>4, <2>2, <3>1 DEF DeleteSvg, Threw, FlowOK, AnswerOK, DirOK, StoredOK,
        DownloadOK, Request,
      StepName, AnswerName, DataName, BackName, DirName, Stage, Route, OfContent, OfSchool,
      OfParent, Streamed
    <3>3. Held(y) \subseteq Held(x)
      BY <1>4, <2>2, <3>1 DEF DeleteSvg, Threw, Held, Request
    <3>4. Go(r, y) /\ Counted(r)
      BY <1>4, <2>2, <1>m DEF DeleteSvg, Threw, Fault, Counted
    <3> QED  BY <3>2, <3>3, <3>4 DEF Advances
  <2>3. CASE req[r].failing /\ Fault /\ excused' = excused \cup {r} /\ Go(r, Threw(req[r]))
    <3>1. FlowOK(r, Threw(x), excused') /\ Held(Threw(x)) \subseteq Held(x)
      <4>1. x.step \notin {"free", "send", "over"} /\ r \in excused' /\ excused \subseteq excused'
        BY <1>4, <2>3 DEF DeleteSvg, Threw
      <4> QED  BY <4>1, ThrewOK
    <3>2. Go(r, Threw(x)) /\ excused' = excused \cup {r} /\ mishaps' \in 0..MaxMishaps
      BY <1>4, <2>3, <1>m DEF DeleteSvg, Threw, Fault
    <3> QED  BY <3>1, <3>2 DEF Counted, Advances
  <2>4. CASE ~req[r].failing /\ Fault /\ excused' = excused \cup {r} /\ Go(r, [req[r] EXCEPT !.step = "return"])
    <3> DEFINE y == [x EXCEPT !.step = "return"]
    <3>1. y \in Request
      BY SetOK, <1>4, <2>4 DEF StepName
    <3>2. FlowOK(r, y, excused')
      BY <1>4, <2>4, <3>1 DEF DeleteSvg, Threw, FlowOK, AnswerOK, DirOK, StoredOK,
        DownloadOK, Request,
      StepName, AnswerName, DataName, BackName, DirName, Stage, Route, OfContent, OfSchool,
      OfParent, Streamed
    <3>3. Held(y) \subseteq Held(x)
      BY <1>4, <2>4, <3>1 DEF DeleteSvg, Threw, Held, Request
    <3>4. Go(r, y) /\ Counted(r)
      BY <1>4, <2>4, <1>m DEF DeleteSvg, Threw, Fault, Counted
    <3> QED  BY <3>2, <3>3, <3>4 DEF Advances
  <2> QED  BY <1>4, <2>1, <2>2, <2>3, <2>4 DEF DeleteSvg, Threw
<1>5. CASE CopyFails(r)
  <2>v1. PICK a \in AnswerName : a = IF x.answer = "none" THEN "error" ELSE x.answer
    BY DEF Request, AnswerName
  <2>v2. PICK d \in {"left", "gone"} : d = IF x.data = "open" THEN "left" ELSE "gone"
    OBVIOUS
  <2> DEFINE y == [x EXCEPT !.step = "over", !.answer = a, !.data = d]
  <2>1. y \in Request
    <3>1. [x EXCEPT !.step = "over"] \in Request
      BY SetOK, <2>v1, <2>v2, <1>5 DEF StepName, DataName, BackName, AnswerName, DirName
    <3>2. \A u \in Request : [u EXCEPT !.answer = a] \in Request
      BY SetOK, <2>v1, <2>v2, <1>5 DEF StepName, DataName, BackName, AnswerName, DirName
    <3>3. \A u \in Request : [u EXCEPT !.data = d] \in Request
      BY SetOK, <2>v1, <2>v2, <1>5 DEF StepName, DataName, BackName, AnswerName, DirName
    <3> QED  BY <3>1, <3>2, <3>3
  <2>2. FlowOK(r, y, excused')
    BY <1>5, <2>1, <2>v1, <2>v2 DEF CopyFails, Threw, FlowOK, AnswerOK, DirOK, StoredOK,
      DownloadOK, Request,
    StepName, AnswerName, DataName, BackName, DirName, Stage, Route, OfContent, OfSchool,
    OfParent, Streamed
  <2>3. Held(y) \subseteq Held(x)
    BY <1>5, <2>1, <2>v1, <2>v2 DEF CopyFails, Threw, Held, Request
  <2>4. Go(r, y) /\ Counted(r)
    BY <1>5, <1>m, <2>v1, <2>v2 DEF CopyFails, Threw, Fault, Counted
  <2> QED  BY <2>2, <2>3, <2>4 DEF Advances
<1> QED  BY <1>1, <1>2, <1>3, <1>4, <1>5

\* Two calls at once.
LEMMA EditorStep ==
  ASSUME FlowInv, NEW r \in Req, GetH5pEditor(r)
  PROVE  \E q : Advances(r, q)
<1> PICK x \in Request : x = req[r] /\ FlowOK(r, x, excused)
  BY DEF FlowInv
<1>1. PICK through \in SUBSET {"render", "getContent"}, failing \in BOOLEAN, a \in AnswerName,
           s \in {"act", "over", "return"} :
        /\ Go(r, [[x EXCEPT !.through = through, !.failing = failing, !.answer = a] EXCEPT !.step = s])
        /\ a = x.answer \/ a = "error"
  <2>1. PICK c \in {"render", "getContent"}, fails \in BOOLEAN :
          LET through == x.through \cup {c}  failing == x.failing \/ fails
              next == [x EXCEPT !.through = through, !.failing = failing,
                         !.answer = IF @ = "none" /\ fails THEN "error" ELSE @] IN
          Go(r, [next EXCEPT !.step = IF Cardinality(through) < 2 THEN "act"
                                      ELSE IF failing THEN "over" ELSE "return"])
    BY ZenonT(60) DEF GetH5pEditor
  <2> DEFINE through == x.through \cup {c}
             failing == x.failing \/ fails
             a == IF x.answer = "none" /\ fails THEN "error" ELSE x.answer
             s == IF Cardinality(through) < 2 THEN "act" ELSE IF failing THEN "over" ELSE "return"
  <2>2. through \in SUBSET {"render", "getContent"} /\ failing \in BOOLEAN /\ a \in AnswerName
    BY DEF Request, AnswerName
  <2>3. s \in {"act", "over", "return"}
    OBVIOUS
  <2>4. Go(r, [[x EXCEPT !.through = through, !.failing = failing, !.answer = a] EXCEPT !.step = s])
    BY <2>1, Zenon
  <2>5. a = x.answer \/ a = "error"
    OBVIOUS
  <2> HIDE DEF through, failing, a, s
  <2> QED  BY ZenonT(60), <2>2, <2>3, <2>4, <2>5
<1> DEFINE z == [x EXCEPT !.through = through, !.failing = failing, !.answer = a]
           y == [z EXCEPT !.step = s]
<1>2. z \in Request
  BY DEF Request
<1>3. y \in Request
  BY <1>2, SetOK DEF StepName
<1>4. /\ z.route = x.route /\ z.data = x.data /\ z.loose = x.loose /\ z.back = x.back
      /\ z.dir = x.dir /\ z.sent = x.sent /\ z.answer = a
  BY DEF Request
<1>5. (z.stored <=> x.stored) /\ (z.heard <=> x.heard)
  BY DEF Request
<1> HIDE DEF z
<1>6. /\ y.route = x.route /\ y.data = x.data /\ y.loose = x.loose /\ y.back = x.back
      /\ y.dir = x.dir /\ y.sent = x.sent /\ y.answer = a /\ y.step = s
  BY <1>2, <1>4 DEF Request
<1>7. (y.stored <=> x.stored) /\ (y.heard <=> x.heard)
  BY <1>2, <1>5 DEF Request
<1>8. x.step = "act" /\ x.route = "edit" /\ UNCHANGED <<mishaps, excused>>
  BY DEF GetH5pEditor
<1>9. Go(r, y)
  BY <1>1 DEF z
<1> HIDE DEF y
<1>10. <<y.route, y.step>> \in Stage
  BY <1>6, <1>8 DEF Stage, Route, OfContent
<1>11. AnswerOK(y) /\ StoredOK(y)
  BY <1>1, <1>6, <1>7, <1>8 DEF FlowOK, AnswerOK, StoredOK
<1>12. DirOK(r, y, excused') /\ DownloadOK(y)
  BY <1>6, <1>8 DEF FlowOK, DirOK, DownloadOK
<1>13. Held(y) \subseteq Held(x)
  BY <1>6, HoldsNoMore
<1> QED
  BY ZenonT(60), <1>3, <1>8, <1>9, <1>10, <1>11, <1>12, <1>13 DEF Advances, Counted, FlowOK, FlowInv

\* Every step is one of these.
LEMMA RequestStep ==
  ASSUME FlowInv, Next
  PROVE  \E r \in Req : \E q : Advances(r, q)
<1> PICK r \in Req :
      \/ Arrive(r) \/ Handler(r) \/ ExportReads(r) \/ ExportDone(r) \/ ExportFails(r)
      \/ TimesOut(r) \/ Close(r) \/ StreamTimer(r)
  BY DEF Next
<1>1. CASE Handler(r)
  BY <1>1, CallStep, UploadStep, ExportStep, SaveStep, SendStep, ReturnStep, CleanStep, EditorStep
  DEF Handler
<1> QED  BY <1>1, OutsideStep, ExportStep, SendStep

\* The flow of the requests.
LEMMA NextFlow == FlowInv /\ [Next]_vars => FlowInv'
<1> SUFFICES ASSUME FlowInv, [Next]_vars PROVE FlowInv'
  OBVIOUS
<1>1. CASE UNCHANGED vars
  BY <1>1 DEF vars, FlowInv
<1>2. CASE Next
  <2>1. PICK r \in Req, q \in Request : Advances(r, q)
    BY <1>2, RequestStep DEF Advances, FlowOK
  <2>2. req' = [req EXCEPT ![r] = q]
    BY <2>1 DEF Advances, Go
  <2>3. req' \in [Req -> Request]
    BY <2>2 DEF FlowInv
  <2>4. ASSUME NEW s \in Req PROVE FlowOK(s, req'[s], excused')
    <3>1. CASE s = r
      BY <2>1, <2>2, <3>1 DEF Advances, Counted, FlowInv
    <3>2. CASE s # r
      <4>1. req'[s] = req[s] /\ FlowOK(s, req[s], excused) /\ excused \subseteq excused'
        BY <2>1, <2>2, <3>2 DEF Advances, Counted, FlowInv
      <4> QED  BY <4>1 DEF FlowOK, DirOK
    <3> QED  BY <3>1, <3>2
  <2> QED  BY <2>1, <2>3, <2>4 DEF FlowInv, Advances, Counted
<1> QED  BY <1>1, <1>2

LEMMA InitFlow == Init => FlowInv
<1> SUFFICES ASSUME Init PROVE FlowInv
  OBVIOUS
<1>1. Fresh \in Request
  BY DEF Fresh, Request, StepName, AnswerName, DataName, BackName, DirName
<1>2. ASSUME NEW r \in Req PROVE FlowOK(r, Fresh, excused)
  BY <1>1 DEF Fresh, FlowOK, Stage, AnswerOK, DirOK, StoredOK, DownloadOK
<1> QED  BY <1>1, <1>2, RequestsAssumption DEF Init, FlowInv

\* A step takes one socket at the most, and only if there is one.
LEMMA NextSockets == FlowInv /\ SocketsInv /\ [Next]_vars => SocketsInv'
<1> SUFFICES ASSUME FlowInv, SocketsInv, [Next]_vars PROVE SocketsInv'
  OBVIOUS
<1>1. CASE UNCHANGED vars
  BY <1>1 DEF vars, SocketsInv, InUse
<1>2. CASE Next
  <2>1. PICK r \in Req, q \in Request : Advances(r, q)
    BY <1>2, RequestStep DEF Advances, FlowOK
  <2>2. req' = [req EXCEPT ![r] = q] /\ req \in [Req -> Request]
    BY <2>1 DEF Advances, Go, FlowInv
  <2>3. PICK Q : Q = InUse'
    OBVIOUS
  <2>4. ASSUME NEW y, Held(q) \subseteq Held(req[r]) \cup {y}
        PROVE  Q \subseteq InUse \cup {<<r, y>>}
    BY <2>2, <2>3, <2>4 DEF InUse
  <2>5. CASE Held(q) \subseteq Held(req[r])
    <3>1. Q \subseteq InUse
      BY <2>2, <2>3, <2>5 DEF InUse
    <3>2. IsFiniteSet(Q) /\ Cardinality(Q) <= Cardinality(InUse)
      BY <3>1, FS_Subset DEF SocketsInv
    <3>3. Cardinality(Q) \in Nat /\ Cardinality(InUse) \in Nat
      BY <3>2, FS_CardinalityType DEF SocketsInv
    <3> QED  BY <2>3, <3>2, <3>3, RequestsAssumption DEF SocketsInv
  <2>6. CASE SocketFree /\ \E y : Held(q) \subseteq Held(req[r]) \cup {y}
    <3>1. PICK y : Q \subseteq InUse \cup {<<r, y>>}
      BY <2>4, <2>6
    <3>2. /\ IsFiniteSet(InUse \cup {<<r, y>>}) /\ Cardinality(InUse) \in Nat
          /\ Cardinality(InUse \cup {<<r, y>>}) \in {Cardinality(InUse), Cardinality(InUse) + 1}
      BY FS_AddElement, FS_CardinalityType DEF SocketsInv
    <3>3. IsFiniteSet(Q) /\ Cardinality(Q) <= Cardinality(InUse \cup {<<r, y>>}) /\ Cardinality(Q) \in Nat
      BY <3>1, <3>2, FS_Subset, FS_CardinalityType
    <3>4. Cardinality(InUse) < Sockets /\ Sockets \in Nat
      BY <2>6, RequestsAssumption DEF SocketFree
    <3>5. Cardinality(Q) <= Sockets
      BY <3>2, <3>3, <3>4
    <3> QED  BY <2>3, <3>3, <3>5 DEF SocketsInv
  <2> QED  BY <2>1, <2>5, <2>6 DEF Advances
<1> QED  BY <1>1, <1>2

\* At first none is used.
LEMMA InitSockets == Init => SocketsInv
<1> SUFFICES ASSUME Init PROVE SocketsInv
  OBVIOUS
<1>1. Held(Fresh) = {}
  BY DEF Held, Fresh
<1>2. InUse = {}
  BY <1>1 DEF Init, InUse
<1> QED  BY <1>2, FS_EmptySet, RequestsAssumption DEF SocketsInv

(***************************************************************************)
(* Never are more sockets in use than there are, however many handlers run *)
(* on for clients that have gone, and every request is at a step of its    *)
(* route: what is sent is an answer in time to a client that is there.     *)
(***************************************************************************)
THEOREM EditorTypeCorrect == Spec => []TypeOK
<1>1. Init => FlowInv /\ SocketsInv
  BY InitFlow, InitSockets
<1>2. FlowInv /\ SocketsInv /\ [Next]_vars => (FlowInv /\ SocketsInv)'
  BY NextFlow, NextSockets
<1>3. FlowInv /\ SocketsInv => TypeOK
  <2> SUFFICES ASSUME FlowInv, SocketsInv, NEW r \in Req
               PROVE  /\ req[r].answer \in {"none", "ok", "error", "timeout"}
                      /\ req[r].data \in {"none", "lazy", "open", "left", "pass", "buffered", "gone"}
                      /\ req[r].step = "send" => req[r].answer = "ok" /\ ~req[r].closed
                      /\ req[r].step = "copying" => req[r].route = "save"
    BY DEF FlowInv, SocketsInv, TypeOK
  <2> PICK x \in Request : x = req[r] /\ FlowOK(r, x, excused)
    BY DEF FlowInv
  <2>1. x.answer \in AnswerName /\ x.data \in DataName
    BY DEF Request
  <2>2. x.step = "copying" => x.route = "save"
    BY DEF FlowOK, Stage, Streamed
  <2> QED  BY <2>1, <2>2 DEF FlowOK, AnswerOK, AnswerName, DataName
<1> QED  BY <1>1, <1>2, <1>3, PTL DEF Spec

(***************************************************************************)
(* The temporary directory of an SVG upload is gone once its handler has   *)
(* ended, unless it could not be written or deleted, and is there while    *)
(* the upload works with it.                                               *)
(***************************************************************************)
THEOREM TemporaryDirectoriesGone == Spec => []TempDirGone
<1>1. FlowInv => TempDirGone
  BY DEF FlowInv, FlowOK, DirOK, TempDirGone
<1> QED  BY InitFlow, NextFlow, <1>1, PTL DEF Spec

(***************************************************************************)
(* What is answered with success has been stored, and a download does not  *)
(* end normally before its export has ended, one way or the other.         *)
(***************************************************************************)
THEOREM ClientsToldTruly == Spec => []ToldTruly
<1>1. FlowInv => ToldTruly
  BY DEF FlowInv, FlowOK, StoredOK, DownloadOK, ToldTruly
<1> QED  BY InitFlow, NextFlow, <1>1, PTL DEF Spec

(***************************************************************************)
(* What HandlersEnd rests on.  A request takes finitely many steps: every  *)
(* one of them leaves it less to do, unless it is a failure.  And as long  *)
(* as a request is not through, it has a step to take, or waits for a      *)
(* socket; then a socket is free, or a request that holds one has a step   *)
(* to take for which it needs no other.                                    *)
(***************************************************************************)
\* How far the handler still is from its end.
StepsLeft(step) ==
  CASE step = "free"                                 -> 13
    [] step = "content"                              -> 12
    [] step = "permission"                           -> 11
    [] step = "language"                             -> 10
    [] step \in {"file", "stat", "fetch", "export"}  -> 9
    [] step \in {"write", "open", "copy"}            -> 8
    [] step \in {"name", "copying"}                  -> 7
    [] step = "store"                                -> 6
    [] step \in {"storing", "act"}                   -> 5
    [] step = "clean"                                -> 4
    [] step = "return"                               -> 3
    [] step = "send"                                 -> 2
    [] OTHER                                         -> 1

DataLeft(data) ==
  CASE data = "lazy" -> 3 [] data = "open" -> 2 [] data \in {"left", "pass", "buffered"} -> 1 [] OTHER -> 0

BackLeft(back) == CASE back = "running" -> 2 [] back = "reading" -> 1 [] OTHER -> 0

CallsLeft(through) ==
  (IF "render" \in through THEN 0 ELSE 1) + (IF "getContent" \in through THEN 0 ELSE 1)

\* A step of the handler may open a stream and start an export; nothing else grows.
Left(q) ==
  6 * StepsLeft(q.step) + DataLeft(q.data) + BackLeft(q.back) + CallsLeft(q.through) + q.loose
    + (IF q.answer = "none" THEN 1 ELSE 0) + (IF q.closed THEN 0 ELSE 1)

\* What has to go on.
Unfinished(q) == q.step # "free" /\ ~(q.step = "over" /\ Held(q) = {})

\* A request that has a step to take without a socket and without a failure.
CanMove(q) ==
  \/ q.loose > 0 \/ Silent(q) \/ q.back = "reading"
  \/ q.step \in {"content", "permission", "language", "act", "export", "file", "write", "storing",
                 "clean", "return"}
  \/ q.step = "open" /\ q.route = "libraryFile"
  \/ q.step \in {"copy", "copying"} /\ q.data \in {"open", "gone"}
  \/ q.step = "copying" /\ q.data = "buffered"
  \/ q.step = "send" /\ q.data \in {"open", "buffered", "gone"}
  \/ q.step = "send" /\ q.data = "pass" /\ q.back \in {"done", "failed"}

\* One that has a step to take with a socket.
CanUseSocket(q) ==
  \/ q.step \in {"stat", "open", "name", "store", "fetch"}
  \/ q.step = "copy" /\ q.data = "buffered"
  \/ q.step = "send" /\ q.data = "lazy"
  \/ q.back = "running"

NobodyStuck ==
  \A r \in Req : Unfinished(req[r]) =>
    \/ CanMove(req[r])
    \/ CanUseSocket(req[r]) /\ (SocketFree \/ \E s \in Req : Held(req[s]) # {} /\ CanMove(req[s]))

\* The steps request r may still take: a stream opened for its existence alone is a
\* step that leads nowhere, but also one of the failures, which are bounded.
Todo(r) == Left(req[r]) + 2 * (MaxMishaps - mishaps)

TodoBounded == \A r \in Req : Todo(r) \in 0..(82 + 2 * MaxMishaps)

\* What a step does to the requests: who takes it has less to do, nobody has more.
TodoGoesDown ==
  \A r \in Req :
    /\ Todo(r)' <= Todo(r)
    /\ req'[r] # req[r] => Todo(r)' < Todo(r)

BothCalls == {"render", "getContent"}

\* Where the stream of a request is, and how far its calls are.
PlaceOK(q) ==
  /\ q.heard => q.step \in {"send", "over"}
  /\ q.step \in {"copy", "copying"} => q.data \in {"open", "buffered", "gone"}
  /\ q.route \in Streamed /\ q.step \in {"return", "send"} =>
       q.data \in {"lazy", "open", "buffered", "gone", "pass"}
  /\ q.data = "pass" => q.back # "none"
  /\ q.data = "open" => q.step \in {"return", "copy", "copying", "send", "over"}
  /\ q.through = BothCalls => q.step \in {"return", "send", "over"}

Placed == \A r \in Req : PlaceOK(req[r])

\* The measure counts.
LEMMA LeftParts ==
  ASSUME NEW q \in Request
  PROVE  /\ StepsLeft(q.step) \in 1..13 /\ DataLeft(q.data) \in 0..3 /\ BackLeft(q.back) \in 0..2
         /\ CallsLeft(q.through) \in 0..2 /\ q.loose \in Nat /\ Left(q) \in Nat
<1>1. StepsLeft(q.step) \in 1..13
  BY DEF StepsLeft
<1>2. DataLeft(q.data) \in 0..3 /\ BackLeft(q.back) \in 0..2 /\ CallsLeft(q.through) \in 0..2
  BY DEF DataLeft, BackLeft, CallsLeft
<1>3. q.loose \in Nat
  BY DEF Request
<1> QED  BY <1>1, <1>2, <1>3 DEF Left

\* The handler goes on, whatever streams that opens.
LEMMA StepDown ==
  ASSUME NEW x \in Request, NEW y \in Request, StepsLeft(y.step) < StepsLeft(x.step),
         CallsLeft(y.through) <= CallsLeft(x.through), y.loose = x.loose,
         y.answer = "none" => x.answer = "none", x.closed => y.closed
  PROVE  Left(y) < Left(x)
<1> PICK s \in 1..13, t \in 1..13 : s = StepsLeft(x.step) /\ t = StepsLeft(y.step)
  BY LeftParts
<1>1. t + 1 <= s
  OBVIOUS
<1> QED  BY <1>1, LeftParts DEF Left

\* It stays where it is, and something else is done.
LEMMA SameStep ==
  ASSUME NEW x \in Request, NEW y \in Request, y.step = x.step,
         DataLeft(y.data) <= DataLeft(x.data), BackLeft(y.back) <= BackLeft(x.back),
         CallsLeft(y.through) <= CallsLeft(x.through), y.loose <= x.loose,
         y.answer = "none" => x.answer = "none", x.closed => y.closed,
         \/ DataLeft(y.data) < DataLeft(x.data) \/ BackLeft(y.back) < BackLeft(x.back)
         \/ CallsLeft(y.through) < CallsLeft(x.through) \/ y.loose < x.loose
         \/ x.answer = "none" /\ y.answer # "none"
         \/ ~x.closed /\ y.closed
  PROVE  Left(y) < Left(x)
<1>1. PICK a \in 0..3, b \in 0..3, c \in 0..2, d \in 0..2, e \in 0..2, f \in 0..2, m \in Nat, n \in Nat :
        /\ a = DataLeft(x.data) /\ b = DataLeft(y.data) /\ c = BackLeft(x.back) /\ d = BackLeft(y.back)
        /\ e = CallsLeft(x.through) /\ f = CallsLeft(y.through) /\ m = x.loose /\ n = y.loose
  BY Zenon, LeftParts
<1>2. PICK s \in 1..13, u \in 0..1, v \in 0..1, w \in 0..1, z \in 0..1 :
        /\ s = StepsLeft(x.step)
        /\ u = (IF x.answer = "none" THEN 1 ELSE 0) /\ v = (IF y.answer = "none" THEN 1 ELSE 0)
        /\ w = (IF x.closed THEN 0 ELSE 1) /\ z = (IF y.closed THEN 0 ELSE 1)
  BY LeftParts
<1>3. Left(x) = 6 * s + a + c + e + m + u + w /\ Left(y) = 6 * s + b + d + f + n + v + z
  BY <1>1, <1>2 DEF Left
<1>4. b <= a /\ d <= c /\ f <= e /\ n <= m /\ v <= u /\ z <= w
      /\ (b < a \/ d < c \/ f < e \/ n < m \/ v < u \/ z < w)
  BY <1>1, <1>2
<1> QED  BY SMTT(60), <1>3, <1>4

\* What is left of a request that has moved from x to y.
Goes(x, y) == PlaceOK(y) /\ Left(y) < Left(x)

LEMMA ThrewGoes ==
  ASSUME NEW x \in Request, Threw(x) \in Request, PlaceOK(x), x.step \notin {"free", "over"}
  PROVE  Goes(x, Threw(x))
<1> PICK y \in Request : y = Threw(x)
  OBVIOUS
<1>1. /\ y.step = "over" /\ y.data = x.data /\ y.back = x.back /\ y.through = x.through
      /\ y.loose = x.loose /\ (y.answer = "none" => x.answer = "none")
  BY DEF Threw, Request
<1>2. (x.closed => y.closed) /\ (y.heard => x.heard)
  BY DEF Threw, Request
<1>3. StepsLeft(y.step) < StepsLeft(x.step)
  BY <1>1 DEF StepsLeft, Request, StepName
<1>4. Left(y) < Left(x)
  BY <1>1, <1>2, <1>3, StepDown, LeftParts
<1>5. PlaceOK(y)
  BY <1>1, <1>2 DEF PlaceOK
<1> QED  BY <1>4, <1>5 DEF Goes

\* The handler goes to its next call.
LEMMA StepGoes ==
  ASSUME NEW x \in Request, NEW s \in StepName, PlaceOK(x),
         x.step \notin {"free", "copy", "copying", "return", "send", "over"}, StepsLeft(s) < StepsLeft(x.step), s \notin {"copying", "copy", "send", "free"},
         s = "return" => x.route \notin Streamed
  PROVE  [x EXCEPT !.step = s] \in Request /\ Goes(x, [x EXCEPT !.step = s])
<1> PICK y \in Request : y = [x EXCEPT !.step = s]
  BY SetOK
<1>1. /\ y.step = s /\ y.data = x.data /\ y.back = x.back /\ y.through = x.through
      /\ y.loose = x.loose /\ y.answer = x.answer /\ y.route = x.route
  BY DEF Request
<1>2. (x.closed => y.closed) /\ (y.heard => x.heard)
  BY DEF Request
<1>3. Left(y) < Left(x)
  <2>1. StepsLeft(y.step) < StepsLeft(x.step)
    BY <1>1
  <2>2. CallsLeft(y.through) <= CallsLeft(x.through)
    BY <1>1, LeftParts
  <2> QED  BY <1>1, <1>2, <2>1, <2>2, StepDown
<1>4. PlaceOK(y)
  BY <1>1, <1>2 DEF PlaceOK
<1> QED  BY <1>3, <1>4 DEF Goes

\* The same, where a stream is opened, taken over or given up with it.
LEMMA StreamGoes ==
  ASSUME NEW x \in Request, NEW y \in Request, PlaceOK(x), x.step \notin {"free", "over"},
         StepsLeft(y.step) < StepsLeft(x.step), y.step # "free",
         y.route = x.route, y.through = x.through, y.loose = x.loose,
         y.answer = "none" => x.answer = "none", x.closed => y.closed,
         y.heard => x.heard \/ y.step \in {"send", "over"},
         y.step \in {"copy", "copying"} => y.data \in {"open", "buffered", "gone"},
         y.route \in Streamed /\ y.step \in {"return", "send"} =>
           y.data \in {"lazy", "open", "buffered", "gone", "pass"},
         y.data = "pass" => y.back # "none",
         y.data = "open" => y.step \in {"return", "copy", "copying", "send", "over"}
  PROVE  Goes(x, y)
<1>1. Left(y) < Left(x)
  <2>1. CallsLeft(y.through) <= CallsLeft(x.through)
    BY LeftParts
  <2> QED  BY <2>1, StepDown
<1>2. x.step = "send" => y.step = "over"
  BY DEF StepsLeft, Request, StepName
<1>3. x.step = "return" => y.step \in {"send", "over"}
  BY DEF StepsLeft, Request, StepName
<1>4. (y.heard => y.step \in {"send", "over"})
  BY <1>2 DEF PlaceOK
<1>5. y.through = BothCalls => y.step \in {"return", "send", "over"}
  BY <1>2, <1>3 DEF PlaceOK
<1>6. PlaceOK(y)
  BY <1>4, <1>5 DEF PlaceOK
<1> QED  BY <1>1, <1>6 DEF Goes

\* A call that answers or throws.
LEMMA CallGoes ==
  ASSUME FlowInv, FlowInv', Placed, NEW r \in Req, NEW next, AnswersOrThrows(r, next),
         req[r].step \notin {"free", "over"}, next \in Request => Goes(req[r], next)
  PROVE  Goes(req[r], req'[r])
<1>1. req[r] \in Request /\ PlaceOK(req[r]) /\ req'[r] \in Request
  BY DEF FlowInv, Placed
<1>2. req'[r] = next \/ req'[r] = Threw(req[r])
  BY DEF AnswersOrThrows, Go, FlowInv
<1> QED  BY <1>1, <1>2, ThrewGoes

LEMMA CallsGo ==
  ASSUME FlowInv, FlowInv', Placed, NEW r \in Req,
         \/ ReadContent(r) \/ CheckPermission(r) \/ GetUserLanguage(r)
         \/ GetAjax(r) \/ GetContentParameters(r) \/ GetH5pPlayer(r) \/ GetEmptyH5pEditor(r)
         \/ DeleteH5pContent(r) \/ StatContentFile(r) \/ StatTemporaryFile(r) \/ OpenTemporaryFile(r)
         \/ StreamMetadata(r) \/ OpenLibraryFile(r) \/ Fetch(r)
  PROVE  Goes(req[r], req'[r])
<1> PICK x \in Request : x = req[r] /\ PlaceOK(x) /\ <<x.route, x.step>> \in Stage
  BY DEF FlowInv, FlowOK, Placed
<1>c. ASSUME NEW s \in StepName \ {"copying", "copy", "send", "free"}, StepsLeft(s) < StepsLeft(x.step),
             AnswersOrThrows(r, [x EXCEPT !.step = s]),
             x.step \notin {"free", "copy", "copying", "return", "send", "over"},
             s = "return" => x.route \notin Streamed
      PROVE  Goes(req[r], req'[r])
  BY <1>c, StepGoes, CallGoes
<1>1. CASE ReadContent(r)
  BY <1>1, <1>c DEF ReadContent, StepsLeft, StepName
<1>2. CASE CheckPermission(r)
  <2>1. PICK s : s = FirstWork(x.route)
    OBVIOUS
  <2>2. s \in {"stat", "open", "export", "language", "fetch", "act"}
    BY <2>1 DEF FirstWork
  <2>3. x.step = "permission" /\ AnswersOrThrows(r, [x EXCEPT !.step = s])
    BY <1>2, <2>1 DEF CheckPermission
  <2> QED  BY <1>c, <2>2, <2>3 DEF StepsLeft, StepName
<1>3. CASE GetUserLanguage(r)
  <2>1. PICK s : s = IF x.route = "getAjax" THEN "act" ELSE "file"
    OBVIOUS
  <2>2. x.step = "language" /\ AnswersOrThrows(r, [x EXCEPT !.step = s])
    BY <1>3, <2>1 DEF GetUserLanguage
  <2> QED  BY <1>c, <2>1, <2>2 DEF StepsLeft, StepName
<1>4. CASE GetAjax(r) \/ GetContentParameters(r) \/ GetH5pPlayer(r) \/ GetEmptyH5pEditor(r)
  <2>1. /\ x.route \in {"getAjax", "params", "play", "newEdit"} /\ x.step = "act"
        /\ AnswersOrThrows(r, [x EXCEPT !.step = "return"])
    BY <1>4 DEF GetAjax, GetContentParameters, GetH5pPlayer, GetEmptyH5pEditor, Works
  <2> QED  BY <1>c, <2>1 DEF StepsLeft, StepName, Streamed
<1>5. CASE StatTemporaryFile(r)
  BY <1>5, <1>c DEF StatTemporaryFile, HeadAnswers, StepsLeft, StepName
\* Those that have a stream to show for it.
<1>s. ASSUME NEW s \in {"return", "copy"}, NEW d \in {"lazy", "open", "buffered"}, s = "return" \/ (d = "open" /\ x.step = "fetch"),
             x.step \in {"stat", "open", "fetch"}, AnswersOrThrows(r, [x EXCEPT !.step = s, !.data = d])
      PROVE  Goes(req[r], req'[r])
  <2> DEFINE next == [x EXCEPT !.step = s, !.data = d]
  <2>1. ASSUME next \in Request PROVE Goes(x, next)
    <3> PICK y \in Request : y = next
      BY <2>1
    <3>1. /\ y.step = s /\ y.data = d /\ y.through = x.through
          /\ y.loose = x.loose /\ y.answer = x.answer /\ y.route = x.route
      BY DEF Request
    <3>2. (x.closed => y.closed) /\ (y.heard => x.heard)
      BY DEF Request
    <3>3. StepsLeft(y.step) < StepsLeft(x.step)
      BY <1>s, <3>1 DEF StepsLeft
    <3>4. y.step \in {"copy", "copying"} => y.data \in {"open", "buffered", "gone"}
      BY <1>s, <3>1
    <3>5. y.data \in {"lazy", "open", "buffered"} /\ y.step # "free" /\ x.step \notin {"free", "over"}
      BY <1>s, <3>1
    <3>6. y.data # "pass" /\ y.step \in {"return", "copy"}
      BY <1>s, <3>1
    <3>7. Goes(x, y)
      BY <3>1, <3>2, <3>3, <3>4, <3>5, <3>6, StreamGoes
    <3> QED  BY <3>7
  <2> QED  BY <1>s, <2>1, CallGoes
<1>6. CASE StatContentFile(r)
  BY <1>6, <1>s DEF StatContentFile, HeadAnswers
<1>7. CASE OpenTemporaryFile(r)
  BY <1>7, <1>s DEF OpenTemporaryFile
<1>8. CASE StreamMetadata(r) \/ OpenLibraryFile(r)
  BY <1>8, <1>s DEF StreamMetadata, OpenLibraryFile, LibraryFile
<1>9. CASE Fetch(r)
  BY <1>9, <1>s DEF Fetch
<1>10. CASE DeleteH5pContent(r)
  <2> DEFINE next == [x EXCEPT !.step = "return", !.stored = TRUE]
  <2>1. x.step = "act" /\ x.route = "delete" /\ AnswersOrThrows(r, next)
    BY <1>10 DEF DeleteH5pContent
  <2>2. ASSUME next \in Request PROVE Goes(x, next)
    <3> PICK y \in Request : y = next
      BY <2>2
    <3>1. /\ y.step = "return" /\ y.data = x.data /\ y.through = x.through /\ y.back = x.back
          /\ y.loose = x.loose /\ y.answer = x.answer /\ y.route = x.route
      BY DEF Request
    <3>2. (x.closed => y.closed) /\ (y.heard => x.heard)
      BY DEF Request
    <3>3. StepsLeft(y.step) < StepsLeft(x.step)
      BY <2>1, <3>1 DEF StepsLeft
    <3>4. y.data = "pass" => y.back # "none"
      BY <3>1 DEF PlaceOK
    <3>5. y.route \notin Streamed
      BY <2>1, <3>1 DEF Streamed
    <3> QED  BY ZenonT(60), <2>1, <3>1, <3>2, <3>3, <3>4, <3>5, StreamGoes
  <2> QED  BY <2>1, <2>2, CallGoes
<1> QED  BY <1>1, <1>2, <1>3, <1>4, <1>5, <1>6, <1>7, <1>8, <1>9, <1>10

\* Uploads, exports and saves.
LEMMA WorkGoes ==
  ASSUME FlowInv, FlowInv', Placed, NEW r \in Req,
         \/ StartExport(r) \/ ReceiveFile(r) \/ WriteSvg(r) \/ PostAjax(r) \/ SaveFile(r)
         \/ FileSaved(r) \/ DeleteSvg(r) \/ CopyStarts(r) \/ CopyEnds(r) \/ CopyFails(r)
  PROVE  Goes(req[r], req'[r])
<1> PICK x \in Request : x = req[r] /\ PlaceOK(x) /\ <<x.route, x.step>> \in Stage
  BY DEF FlowInv, FlowOK, Placed
<1> PICK y \in Request : y = req'[r]
  BY DEF FlowInv
<1>g. \A q : Go(r, q) => y = q
  BY DEF Go, FlowInv
<1>t. x.step \notin {"free", "over"} => (y = Threw(x) => Goes(x, y))
  BY ThrewGoes
<1>1. CASE StartExport(r)
  <2>1. y = [x EXCEPT !.step = "return", !.data = "pass", !.back = "running"] /\ x.step = "export"
    BY <1>1, <1>g DEF StartExport
  <2>2. /\ y.step = "return" /\ y.data = "pass" /\ y.back = "running" /\ y.through = x.through
        /\ y.loose = x.loose /\ y.answer = x.answer /\ y.route = x.route
    BY <2>1 DEF Request
  <2>3. (x.closed => y.closed) /\ (y.heard => x.heard)
    BY <2>1 DEF Request
  <2>4. StepsLeft(y.step) < StepsLeft(x.step)
    BY <2>1, <2>2 DEF StepsLeft
  <2>5. x.step \notin {"free", "over"}
    BY <2>1
  <2> QED  BY <2>2, <2>3, <2>4, <2>5, StreamGoes
\* The steps of an upload change neither its stream nor its answer.
<1>u. ASSUME StepsLeft(y.step) < StepsLeft(x.step),
             y.step \in {"write", "name", "act", "clean", "storing", "return"},
             x.step \in {"file", "write", "act", "store", "storing", "clean"}, x.route = "postAjax",
             y.data = x.data, y.back = x.back, y.through = x.through, y.loose = x.loose,
             y.answer = x.answer, y.route = x.route, x.closed => y.closed, y.heard => x.heard
      PROVE  Goes(x, y)
  <2>1. y.data = "pass" => y.back # "none"
    BY <1>u DEF PlaceOK
  <2>2. y.route \notin Streamed
    BY <1>u DEF Streamed
  <2>3. y.data # "open"
    BY <1>u DEF PlaceOK
  <2> QED  BY <1>u, <2>1, <2>2, <2>3, StreamGoes
<1>p. x.step \in {"file", "write", "store", "storing", "clean"} => x.route = "postAjax"
  BY DEF Stage, Streamed, OfContent
<1>2. CASE ReceiveFile(r)
  <2>1. PICK s, d : /\ s \in {"write", "name", "act"} /\ x.step = "file"
                   /\ y = [x EXCEPT !.step = s, !.dir = d]
    <3>1. \/ y = [x EXCEPT !.step = "write", !.dir = "empty"]
          \/ y = [x EXCEPT !.step = "name", !.dir = "memory"]
          \/ y = [x EXCEPT !.step = "act"]
      BY <1>2, <1>g DEF ReceiveFile
    <3>2. [x EXCEPT !.step = "act"] = [x EXCEPT !.step = "act", !.dir = x.dir]
      BY DEF Request
    <3>3. x.step = "file"
      BY <1>2, <1>g DEF ReceiveFile
    <3>4. CASE y = [x EXCEPT !.step = "write", !.dir = "empty"]
      <4> WITNESS "write", "empty"
      <4> QED  BY <3>3, <3>4
    <3>5. CASE y = [x EXCEPT !.step = "name", !.dir = "memory"]
      <4> WITNESS "name", "memory"
      <4> QED  BY <3>3, <3>5
    <3>6. CASE y = [x EXCEPT !.step = "act"]
      <4> WITNESS "act", x.dir
      <4> QED  BY <3>2, <3>3, <3>6
    <3> QED  BY <3>1, <3>4, <3>5, <3>6
  <2>2. /\ y.step = s /\ y.data = x.data /\ y.back = x.back /\ y.through = x.through
        /\ y.loose = x.loose /\ y.answer = x.answer /\ y.route = x.route
    BY <2>1 DEF Request
  <2>3. (x.closed => y.closed) /\ (y.heard => x.heard)
    BY <2>1 DEF Request
  <2>4. StepsLeft(y.step) < StepsLeft(x.step)
    BY <2>1, <2>2 DEF StepsLeft
  <2> QED  BY <1>u, <1>p, <2>1, <2>2, <2>3, <2>4
<1>3. CASE WriteSvg(r)
  <2>1. x.step = "write" /\ (y = [x EXCEPT !.step = "name", !.dir = "full"] \/ y = Threw(x))
    BY <1>3, <1>g DEF WriteSvg
  <2>2. ASSUME y = [x EXCEPT !.step = "name", !.dir = "full"] PROVE Goes(x, y)
    <3>1. /\ y.step = "name" /\ y.data = x.data /\ y.back = x.back /\ y.through = x.through
          /\ y.loose = x.loose /\ y.answer = x.answer /\ y.route = x.route
      BY <2>2 DEF Request
    <3>2. (x.closed => y.closed) /\ (y.heard => x.heard)
      BY <2>2 DEF Request
    <3>3. StepsLeft(y.step) < StepsLeft(x.step)
      BY <2>1, <3>1 DEF StepsLeft
    <3> QED  BY <1>u, <1>p, <2>1, <3>1, <3>2, <3>3
  <2> QED  BY <1>t, <2>1, <2>2
<1>4. CASE PostAjax(r) \/ FileSaved(r)
  <2>1. x.step \in {"act", "storing"} /\ x.route = "postAjax" /\ \E failing \in BOOLEAN : y = Finally(x, failing)
    BY <1>4, <1>g, <1>p DEF PostAjax, FileSaved
  <2>2. /\ y.step = "clean" /\ y.data = x.data /\ y.back = x.back /\ y.through = x.through
        /\ y.loose = x.loose /\ y.answer = x.answer /\ y.route = x.route
        /\ (x.closed => y.closed) /\ (y.heard => x.heard)
    <3>1. PICK failing \in BOOLEAN : y = [x EXCEPT !.step = "clean", !.failing = failing, !.stored = ~failing]
      BY <2>1 DEF Finally
    <3>2. /\ y.step = "clean" /\ y.data = x.data /\ y.back = x.back /\ y.through = x.through
          /\ y.loose = x.loose /\ y.answer = x.answer /\ y.route = x.route
      BY <3>1 DEF Request
    <3>3. (x.closed => y.closed) /\ (y.heard => x.heard)
      BY <3>1 DEF Request
    <3> QED  BY <3>2, <3>3
  <2>3. StepsLeft(y.step) < StepsLeft(x.step)
    BY <2>1, <2>2 DEF StepsLeft
  <2>4. x.step \in {"act", "storing"} /\ x.route = "postAjax"
    BY <2>1
  <2> QED  BY <1>u, <2>2, <2>3, <2>4
<1>5. CASE SaveFile(r)
  <2>1. x.step = "store" /\ y = [x EXCEPT !.step = "storing"]
    BY <1>5, <1>g DEF SaveFile
  <2>2. "storing" \in StepName /\ StepsLeft("storing") < StepsLeft(x.step)
    BY <2>1 DEF StepsLeft, StepName
  <2> QED  BY <2>1, <2>2, StepGoes
<1>6. CASE DeleteSvg(r)
  <2>1. PICK q : q = IF x.failing THEN Threw(x) ELSE [x EXCEPT !.step = "return"]
    OBVIOUS
  <2>2. x.step = "clean" /\ (y = [q EXCEPT !.dir = "none"] \/ y = q)
    BY <1>6, <1>g, <2>1 DEF DeleteSvg
  <2>3. /\ q.step \in {"over", "return"} /\ q.data = x.data /\ q.back = x.back /\ q.through = x.through
        /\ q.loose = x.loose /\ (q.answer = "none" => x.answer = "none") /\ q.route = x.route
        /\ DOMAIN q = DOMAIN x
    BY <2>1 DEF Request, Threw
  <2>4. (x.closed => q.closed) /\ (q.heard => x.heard)
    BY <2>1 DEF Request, Threw
  <2>5. /\ y.step = q.step /\ y.data = x.data /\ y.back = x.back /\ y.through = x.through
        /\ y.loose = x.loose /\ (y.answer = "none" => x.answer = "none") /\ y.route = x.route
    BY <2>2, <2>3 DEF Request
  <2>6. (x.closed => y.closed) /\ (y.heard => x.heard)
    BY <2>2, <2>3, <2>4 DEF Request
  <2>7. StepsLeft(y.step) < StepsLeft(x.step)
    BY <2>2, <2>3, <2>5 DEF StepsLeft
  <2>8. (y.data = "pass" => y.back # "none") /\ y.route \notin Streamed
    BY <1>p, <2>2, <2>5 DEF PlaceOK, Streamed
  <2> QED  BY <2>2, <2>3, <2>5, <2>6, <2>7, <2>8, StreamGoes
<1>7. CASE CopyStarts(r)
  <2>1. /\ x.step = "copy" /\ x.data \in {"open", "buffered"}
        /\ y = [x EXCEPT !.step = "copying"]
    BY <1>7, <1>g DEF CopyStarts
  <2>2. /\ y.step = "copying" /\ y.data = x.data /\ y.back = x.back /\ y.through = x.through
        /\ y.loose = x.loose /\ y.answer = x.answer /\ y.route = x.route
    BY <2>1 DEF Request
  <2>3. (x.closed => y.closed) /\ (y.heard => x.heard)
    BY <2>1 DEF Request
  <2>4. StepsLeft(y.step) < StepsLeft(x.step)
    BY <2>1, <2>2 DEF StepsLeft
  <2>5. /\ x.step \notin {"free", "over"} /\ y.data \in {"open", "buffered", "gone"}
        /\ y.data # "pass"
    BY <2>1, <2>2
  <2> QED  BY <2>2, <2>3, <2>4, <2>5, StreamGoes
<1>8. CASE CopyEnds(r)
  <2>1. /\ x.step = "copying"
        /\ y = [x EXCEPT !.step = "return", !.data = "gone", !.stored = TRUE]
    BY <1>8, <1>g DEF CopyEnds
  <2>2. /\ y.step = "return" /\ y.data = "gone" /\ y.back = x.back /\ y.through = x.through
        /\ y.loose = x.loose /\ y.answer = x.answer /\ y.route = x.route
    BY <2>1 DEF Request
  <2>3. (x.closed => y.closed) /\ (y.heard => x.heard)
    BY <2>1 DEF Request
  <2>4. StepsLeft(y.step) < StepsLeft(x.step)
    BY <2>1, <2>2 DEF StepsLeft
  <2>5. x.step \notin {"free", "over"}
    BY <2>1
  <2> QED  BY <2>2, <2>3, <2>4, <2>5, StreamGoes
<1>9. CASE CopyFails(r)
  <2>1. PICK d \in {"left", "gone"} : /\ x.step \in {"copy", "copying"}
                                      /\ y = [Threw(x) EXCEPT !.data = d]
    BY <1>9, <1>g DEF CopyFails, Threw, Request
  <2>2. /\ y.step = "over" /\ y.data = d /\ y.back = x.back /\ y.through = x.through
        /\ y.loose = x.loose /\ (y.answer = "none" => x.answer = "none") /\ y.route = x.route
    BY <2>1 DEF Request, Threw
  <2>3. (x.closed => y.closed) /\ (y.heard => x.heard)
    BY <2>1 DEF Request, Threw
  <2>4. StepsLeft(y.step) < StepsLeft(x.step)
    BY <2>1, <2>2 DEF StepsLeft
  <2> QED  BY <2>1, <2>2, <2>3, <2>4, StreamGoes
<1> QED  BY <1>1, <1>2, <1>3, <1>4, <1>5, <1>6, <1>7, <1>8, <1>9

\* The handler stays where it is, and something else is done.
LEMMA StaysGoes ==
  ASSUME NEW x \in Request, NEW y \in Request, PlaceOK(x), y.step = x.step,
         y.route = x.route, y.through = x.through, y.loose <= x.loose,
         DataLeft(y.data) <= DataLeft(x.data), BackLeft(y.back) <= BackLeft(x.back),
         y.answer = "none" => x.answer = "none", x.closed => y.closed, y.heard => x.heard,
         \/ DataLeft(y.data) < DataLeft(x.data) \/ BackLeft(y.back) < BackLeft(x.back)
         \/ y.loose < x.loose
         \/ x.answer = "none" /\ y.answer # "none"
         \/ ~x.closed /\ y.closed,
         \/ y.data = x.data /\ (y.back = "none" => x.back = "none")
         \/ y.data = "buffered" \/ y.data = "gone"
         \/ y.data = "open" /\ y.step = "send"
         \/ y.step = "over" /\ y.data # "pass"
  PROVE  Goes(x, y)
<1>1. CallsLeft(y.through) = CallsLeft(x.through) /\ CallsLeft(x.through) \in 0..2
  BY LeftParts
<1>2. Left(y) < Left(x)
  BY <1>1, SameStep
<1>3. PlaceOK(y)
  BY DEF PlaceOK
<1> QED  BY <1>2, <1>3 DEF Goes

\* The two calls of the editor page.
LEMMA EditorGoes ==
  ASSUME FlowInv, FlowInv', Placed, NEW r \in Req, GetH5pEditor(r)
  PROVE  Goes(req[r], req'[r])
<1> PICK x \in Request : x = req[r] /\ PlaceOK(x)
  BY DEF FlowInv, FlowOK, Placed
<1> PICK y \in Request : y = req'[r]
  BY DEF FlowInv
<1>1. PICK call \in BothCalls \ x.through, fails \in BOOLEAN :
        y = [[x EXCEPT !.through = x.through \cup {call}, !.failing = x.failing \/ fails,
                       !.answer = IF @ = "none" /\ fails THEN "error" ELSE @]
               EXCEPT !.step = IF Cardinality(x.through \cup {call}) < 2 THEN "act"
                               ELSE IF x.failing \/ fails THEN "over" ELSE "return"]
  BY ZenonT(60) DEF GetH5pEditor, Go, FlowInv, BothCalls
<1>2. x.step = "act" /\ x.route = "edit"
  BY DEF GetH5pEditor
<1>3. /\ y.step = (IF Cardinality(x.through \cup {call}) < 2 THEN "act"
                   ELSE IF x.failing \/ fails THEN "over" ELSE "return")
      /\ y.through = x.through \cup {call}
      /\ y.data = x.data /\ y.back = x.back /\ y.loose = x.loose /\ y.route = x.route
  BY <1>1 DEF Request
<1>4. (x.closed => y.closed) /\ (y.heard => x.heard)
  BY <1>1 DEF Request
<1>5. y.answer = "none" => x.answer = "none"
  BY <1>1 DEF Request
<1>6. CallsLeft(y.through) < CallsLeft(x.through)
  BY <1>1, <1>3 DEF CallsLeft, BothCalls
<1>7. CASE y.step = "act"
  <2>1. y.through # BothCalls
    <3>1. Cardinality(y.through) < 2
      BY <1>3, <1>7
    <3>2. Cardinality(BothCalls) = 2
      <4>1. IsFiniteSet({"render"}) /\ Cardinality({"render"}) = 1
        BY FS_Singleton
      <4>2. "getContent" \notin {"render"}
        OBVIOUS
      <4>3. Cardinality({"render"} \cup {"getContent"}) = 1 + 1
        BY <4>1, <4>2, FS_AddElement
      <4>4. {"render"} \cup {"getContent"} = BothCalls
        BY DEF BothCalls
      <4> QED  BY <4>3, <4>4
    <3> QED  BY <3>1, <3>2
  <2>2. /\ DataLeft(x.data) \in 0..3 /\ BackLeft(x.back) \in 0..2 /\ x.loose \in Nat
        /\ CallsLeft(x.through) \in 0..2 /\ CallsLeft(y.through) \in 0..2
    BY LeftParts
  <2>3. y.step = x.step /\ y.data = x.data /\ y.back = x.back /\ y.loose = x.loose
    BY <1>2, <1>3, <1>7
  <2>4. /\ DataLeft(y.data) <= DataLeft(x.data) /\ BackLeft(y.back) <= BackLeft(x.back)
        /\ y.loose <= x.loose /\ CallsLeft(y.through) <= CallsLeft(x.through)
    BY <1>6, <2>2, <2>3
  <2>5. Left(y) < Left(x)
    BY <1>4, <1>5, <1>6, <2>3, <2>4, SameStep
  <2>6. PlaceOK(y)
    BY <1>2, <1>3, <1>4, <1>7, <2>1 DEF PlaceOK
  <2> QED  BY <2>5, <2>6 DEF Goes
<1>8. CASE y.step \in {"over", "return"}
  <2>1. StepsLeft(y.step) < StepsLeft(x.step)
    BY <1>2, <1>8 DEF StepsLeft
  <2>2. CallsLeft(y.through) <= CallsLeft(x.through)
    BY <1>6, LeftParts
  <2>3. Left(y) < Left(x)
    BY <1>3, <1>4, <1>5, <2>1, <2>2, StepDown
  <2>4. y.route \notin Streamed /\ x.step # "send" /\ x.step # "over"
    BY <1>2, <1>3 DEF Streamed
  <2>5. PlaceOK(y)
    BY <1>3, <1>4, <1>8, <2>4 DEF PlaceOK
  <2> QED  BY <2>3, <2>5 DEF Goes
<1> QED  BY <1>3, <1>7, <1>8

\* The answer, and the file that is copied.
LEMMA AnswerGoes ==
  ASSUME FlowInv, FlowInv', Placed, NEW r \in Req,
         \/ FileBuffered(r) \/ ReturnBody(r) \/ ReturnFile(r) \/ ReturnLibraryFile(r) \/ ReturnDownload(r)
         \/ LazyOpens(r) \/ SendEnds(r) \/ SendFails(r)
  PROVE  Goes(req[r], req'[r])
<1> PICK x \in Request : x = req[r] /\ PlaceOK(x) /\ <<x.route, x.step>> \in Stage
  BY DEF FlowInv, FlowOK, Placed
<1> PICK y \in Request : y = req'[r]
  BY DEF FlowInv
<1>g. \A q : Go(r, q) => y = q
  BY DEF Go, FlowInv
<1>1. CASE FileBuffered(r)
  <2>1. y = [x EXCEPT !.data = "buffered"] /\ x.data = "open"
    BY <1>1, <1>g DEF FileBuffered
  <2>2. /\ y.data = "buffered" /\ y.step = x.step /\ y.back = x.back /\ y.through = x.through
        /\ y.loose = x.loose /\ y.answer = x.answer /\ y.route = x.route
    BY <2>1 DEF Request
  <2>3. (x.closed => y.closed) /\ (y.heard => x.heard)
    BY <2>1 DEF Request
  <2>4. DataLeft(y.data) < DataLeft(x.data) /\ DataLeft(y.data) <= DataLeft(x.data)
    BY <2>1, <2>2 DEF DataLeft
  <2>5. BackLeft(y.back) <= BackLeft(x.back) /\ y.loose <= x.loose
    BY <2>2, LeftParts
  <2> QED  BY <2>2, <2>3, <2>4, <2>5, StaysGoes
<1>2. CASE ReturnBody(r)
  <2>1. /\ x.step = "return" /\ x.route \notin Streamed
        /\ y = [x EXCEPT !.step = "over", !.answer = IF Timely(x) THEN "ok" ELSE @]
    BY <1>2, <1>g DEF ReturnBody
  <2>2. /\ y.step = "over" /\ y.data = x.data /\ y.back = x.back /\ y.through = x.through
        /\ y.loose = x.loose /\ y.route = x.route
    BY <2>1 DEF Request
  <2>3. (x.closed => y.closed) /\ (y.heard => x.heard)
    BY <2>1 DEF Request
  <2>4. y.answer = "none" => x.answer = "none"
    BY <2>1 DEF Request, Timely
  <2>5. StepsLeft(y.step) < StepsLeft(x.step)
    BY <2>1, <2>2 DEF StepsLeft
  <2>6. (y.data = "pass" => y.back # "none") /\ x.step \notin {"free", "over"}
    BY <2>1, <2>2 DEF PlaceOK
  <2> QED  BY <2>2, <2>3, <2>4, <2>5, <2>6, StreamGoes
<1>3. CASE ReturnFile(r) \/ ReturnLibraryFile(r) \/ ReturnDownload(r)
  <2>1. /\ x.step = "return" /\ x.route \in Streamed
        /\ y = [x EXCEPT !.answer = IF Timely(x) THEN "ok" ELSE @,
                         !.step = IF Timely(x) /\ ~x.closed THEN "send" ELSE "over",
                         !.heard = ~x.closed,
                         !.data = IF Timely(x) /\ x.closed THEN Dropped(@) ELSE @]
    BY <1>3, <1>g DEF ReturnFile, ReturnLibraryFile, ReturnDownload, Streams, Streamed
  <2>2. /\ y.step \in {"send", "over"} /\ y.back = x.back /\ y.through = x.through
        /\ y.loose = x.loose /\ y.route = x.route
        /\ y.step = "send" => y.data = x.data
    BY <2>1 DEF Request
  <2>3. x.closed => y.closed
    BY <2>1 DEF Request
  <2>4. y.answer = "none" => x.answer = "none"
    BY <2>1 DEF Request, Timely
  <2>5. StepsLeft(y.step) < StepsLeft(x.step)
    BY <2>1, <2>2 DEF StepsLeft
  <2>6. y.data = x.data \/ y.data = Dropped(x.data)
    BY <2>1 DEF Request
  <2>7. y.data = "pass" => y.back # "none"
    BY <2>2, <2>6 DEF PlaceOK, Dropped
  <2>8. y.step = "send" => y.data \in {"lazy", "open", "buffered", "gone", "pass"}
    BY <2>1, <2>2 DEF PlaceOK
  <2>9. x.step \notin {"free", "over"}
    BY <2>1
  <2> QED  BY <2>2, <2>3, <2>4, <2>5, <2>7, <2>8, <2>9, StreamGoes
<1>4. CASE LazyOpens(r)
  <2>1. y = [x EXCEPT !.data = "open"] /\ x.data = "lazy" /\ x.step = "send"
    BY <1>4, <1>g DEF LazyOpens
  <2>2. /\ y.data = "open" /\ y.step = x.step /\ y.back = x.back /\ y.through = x.through
        /\ y.loose = x.loose /\ y.answer = x.answer /\ y.route = x.route
    BY <2>1 DEF Request
  <2>3. (x.closed => y.closed) /\ (y.heard => x.heard)
    BY <2>1 DEF Request
  <2>4. DataLeft(y.data) < DataLeft(x.data) /\ DataLeft(y.data) <= DataLeft(x.data)
    BY <2>1, <2>2 DEF DataLeft
  <2>5. BackLeft(y.back) <= BackLeft(x.back) /\ y.loose <= x.loose
    BY <2>2, LeftParts
  <2> QED  BY ZenonT(60), <2>1, <2>2, <2>3, <2>4, <2>5, StaysGoes
<1>5. CASE SendEnds(r) \/ SendFails(r)
  <2>0. PICK u \in Request : u = [x EXCEPT !.step = "over"]
    BY SetOK DEF StepName
  <2>q. PICK q \in Request : q = [x EXCEPT !.step = "over", !.data = "gone"]
    BY <2>0, SetOK DEF DataName
  <2>1. /\ x.step = "send"
        /\ \/ y = [q EXCEPT !.answer = "error"]
           \/ \E sent \in {"ended", "cut"} : y = [q EXCEPT !.sent = sent]
    <3>1. [x EXCEPT !.step = "over", !.data = "gone", !.sent = "ended"] = [q EXCEPT !.sent = "ended"]
      BY <2>q
    <3> QED  BY <1>5, <1>g, <2>q, <3>1 DEF SendEnds, SendFails
  <2>p. /\ q.step = "over" /\ q.data = "gone" /\ q.back = x.back /\ q.through = x.through
        /\ q.loose = x.loose /\ q.route = x.route /\ q.answer = x.answer
        /\ (x.closed => q.closed) /\ (q.heard => x.heard)
    BY <2>q DEF Request
  <2>r. /\ y.step = q.step /\ y.data = q.data /\ y.back = q.back /\ y.through = q.through
        /\ y.loose = q.loose /\ y.route = q.route
        /\ (q.closed => y.closed) /\ (y.heard => q.heard)
        /\ y.answer = q.answer \/ y.answer = "error"
    <3>1. CASE y = [q EXCEPT !.answer = "error"]
      BY <3>1 DEF Request
    <3>2. CASE \E sent \in {"ended", "cut"} : y = [q EXCEPT !.sent = sent]
      BY <3>2 DEF Request
    <3> QED  BY <2>1, <3>1, <3>2
  <2>2. /\ y.step = "over" /\ y.data = "gone" /\ y.back = x.back /\ y.through = x.through
        /\ y.loose = x.loose /\ y.route = x.route
    BY <2>p, <2>r
  <2>3. (x.closed => y.closed) /\ (y.heard => x.heard)
    BY <2>p, <2>r
  <2>6. y.answer = "none" => x.answer = "none"
    BY <2>p, <2>r
  <2>4. StepsLeft(y.step) < StepsLeft(x.step)
    BY <2>1, <2>2 DEF StepsLeft
  <2>5. x.step \notin {"free", "over"}
    BY <2>1
  <2> QED  BY <2>2, <2>3, <2>4, <2>5, <2>6, StreamGoes
<1> QED  BY <1>1, <1>2, <1>3, <1>4, <1>5

\* Exports, timers, the time limit, and clients that go away.
LEMMA OutsideGoes ==
  ASSUME FlowInv, FlowInv', Placed, NEW r \in Req,
         \/ ExportReads(r) \/ ExportDone(r) \/ ExportFails(r)
         \/ TimesOut(r) \/ Close(r) \/ StreamTimer(r)
  PROVE  Goes(req[r], req'[r])
<1> PICK x \in Request : x = req[r] /\ PlaceOK(x) /\ <<x.route, x.step>> \in Stage
  BY DEF FlowInv, FlowOK, Placed
<1> PICK y \in Request : y = req'[r]
  BY DEF FlowInv
<1>g. \A q : Go(r, q) => y = q
  BY DEF Go, FlowInv
<1>n. DataLeft(x.data) \in 0..3 /\ BackLeft(x.back) \in 0..2 /\ x.loose \in Nat
  BY LeftParts
<1>b. ASSUME x.back \in {"running", "reading"}, NEW b \in {"reading", "done", "failed"},
             NEW d, y = [x EXCEPT !.back = b, !.data = d], b = "reading" => x.back = "running",
             d = x.data \/ d = "gone"
      PROVE  Goes(x, y)
  <2>1. /\ y.back = b /\ y.data = d /\ y.step = x.step /\ y.through = x.through
        /\ y.loose = x.loose /\ y.answer = x.answer /\ y.route = x.route
    BY <1>b DEF Request
  <2>2. (x.closed => y.closed) /\ (y.heard => x.heard)
    BY <1>b DEF Request
  <2>3. BackLeft(y.back) < BackLeft(x.back)
    BY <1>b, <2>1 DEF BackLeft
  <2>4. BackLeft(y.back) <= BackLeft(x.back) /\ y.loose <= x.loose
    BY <1>n, <2>1, <2>3, LeftParts
  <2>5. DataLeft(y.data) <= DataLeft(x.data)
    BY <1>b, <1>n, <2>1 DEF DataLeft
  <2>6. \/ y.data = x.data /\ (y.back = "none" => x.back = "none")
        \/ y.data = "gone"
    BY <1>b, <2>1
  <2> QED  BY <2>1, <2>2, <2>3, <2>4, <2>5, <2>6, StaysGoes
<1>1. CASE ExportReads(r) \/ ExportDone(r)
  <2>1. PICK b \in {"reading", "done"} :
          /\ x.back \in {"running", "reading"} /\ y = [x EXCEPT !.back = b]
          /\ b = "reading" => x.back = "running"
    BY <1>1, <1>g DEF ExportReads, ExportDone
  <2>2. y = [x EXCEPT !.back = b, !.data = x.data]
    BY <2>1 DEF Request
  <2> QED  BY <1>b, <2>1, <2>2
<1>f. ASSUME x.back \in {"running", "reading"}, y = Broken(x)
      PROVE  Goes(x, y)
  <2>1. PICK d : d = IF x.data = "pass" THEN "gone" ELSE x.data
    OBVIOUS
  <2>2. y = [x EXCEPT !.back = "failed", !.data = d]
    BY <1>f, <2>1 DEF Broken, Request
  <2>3. d = x.data \/ d = "gone"
    BY <2>1
  <2> QED  BY <1>b, <1>f, <2>2, <2>3
<1>2. CASE ExportFails(r)
  BY <1>2, <1>f, <1>g DEF ExportFails
<1>3. CASE TimesOut(r)
  <2>1. y = [x EXCEPT !.answer = "timeout"] /\ x.answer = "none"
    BY <1>3, <1>g DEF TimesOut, Timely
  <2>2. /\ y.answer = "timeout" /\ y.data = x.data /\ y.step = x.step /\ y.back = x.back
        /\ y.through = x.through /\ y.loose = x.loose /\ y.route = x.route
    BY <2>1 DEF Request
  <2>3. (x.closed => y.closed) /\ (y.heard => x.heard)
    BY <2>1 DEF Request
  <2>4. DataLeft(y.data) <= DataLeft(x.data) /\ BackLeft(y.back) <= BackLeft(x.back) /\ y.loose <= x.loose
    BY <1>n, <2>2
  <2> QED  BY <2>1, <2>2, <2>3, <2>4, StaysGoes
<1>4. CASE Close(r)
  <2>1. /\ x.step # "free" /\ ~x.closed
        /\ y = [x EXCEPT !.closed = TRUE,
                  !.data = IF x.heard THEN Dropped(@) ELSE @,
                  !.step = IF @ = "send" THEN "over" ELSE @,
                  !.sent = IF x.step = "send" THEN "cut" ELSE @]
    BY <1>4, <1>g DEF Close
  <2>2. /\ y.step = (IF x.step = "send" THEN "over" ELSE x.step)
        /\ y.data = (IF x.heard THEN Dropped(x.data) ELSE x.data)
        /\ y.back = x.back /\ y.through = x.through
        /\ y.loose = x.loose /\ y.answer = x.answer /\ y.route = x.route
    BY <2>1 DEF Request
  <2>3. y.closed /\ (y.heard => x.heard)
    BY <2>1 DEF Request
  <2>4. CASE x.step = "send"
    <3>1. StepsLeft(y.step) < StepsLeft(x.step)
      BY <2>2, <2>4 DEF StepsLeft
    <3>2. y.data = "pass" => y.back # "none"
      BY <2>2 DEF PlaceOK, Dropped
    <3>3. y.step = "over" /\ x.step \notin {"free", "over"}
      BY <2>2, <2>4
    <3> QED  BY <2>2, <2>3, <3>1, <3>2, <3>3, StreamGoes
  <2>5. CASE x.step # "send"
    <3>1. y.step = x.step /\ (x.heard => x.step = "over")
      BY <2>2, <2>5 DEF PlaceOK
    <3>2. DataLeft(y.data) <= DataLeft(x.data) /\ (x.heard => y.data # "pass")
      BY <1>n, <2>2 DEF DataLeft, Dropped
    <3>3. BackLeft(y.back) <= BackLeft(x.back) /\ y.loose <= x.loose
      BY <1>n, <2>2
    <3>4. \/ y.data = x.data /\ (y.back = "none" => x.back = "none")
          \/ y.step = "over" /\ y.data # "pass"
      BY <2>2, <3>1, <3>2
    <3> QED  BY <2>1, <2>2, <2>3, <3>1, <3>2, <3>3, <3>4, StaysGoes
  <2> QED  BY <2>4, <2>5
<1>5. CASE StreamTimer(r)
  <2>1. \/ Silent(x) /\ y = [x EXCEPT !.data = "gone"]
        \/ x.loose > 0 /\ y = [x EXCEPT !.loose = @ - 1]
        \/ x.back = "reading" /\ y = Broken(x)
    BY <1>5, <1>g DEF StreamTimer
  <2>2. ASSUME Silent(x), y = [x EXCEPT !.data = "gone"]
        PROVE  Goes(x, y)
    <3>1. /\ y.data = "gone" /\ y.step = x.step /\ y.back = x.back /\ y.through = x.through
          /\ y.loose = x.loose /\ y.answer = x.answer /\ y.route = x.route
      BY <2>2 DEF Request
    <3>2. (x.closed => y.closed) /\ (y.heard => x.heard)
      BY <2>2 DEF Request
    <3>3. DataLeft(y.data) < DataLeft(x.data) /\ DataLeft(y.data) <= DataLeft(x.data)
      BY <2>2, <3>1 DEF DataLeft, Silent
    <3>4. BackLeft(y.back) <= BackLeft(x.back) /\ y.loose <= x.loose
      BY <1>n, <3>1
    <3> QED  BY <3>1, <3>2, <3>3, <3>4, StaysGoes
  <2>3. ASSUME x.loose > 0, y = [x EXCEPT !.loose = @ - 1]
        PROVE  Goes(x, y)
    <3>1. /\ y.loose = x.loose - 1 /\ y.data = x.data /\ y.step = x.step /\ y.back = x.back
          /\ y.through = x.through /\ y.answer = x.answer /\ y.route = x.route
      BY <2>3 DEF Request
    <3>2. (x.closed => y.closed) /\ (y.heard => x.heard)
      BY <2>3 DEF Request
    <3>3. y.loose < x.loose /\ y.loose <= x.loose
      BY <1>n, <3>1
    <3>4. DataLeft(y.data) <= DataLeft(x.data) /\ BackLeft(y.back) <= BackLeft(x.back)
      BY <1>n, <3>1
    <3> QED  BY <3>1, <3>2, <3>3, <3>4, StaysGoes
  <2> QED  BY <1>f, <2>1, <2>2, <2>3
<1> QED  BY <1>1, <1>2, <1>3, <1>4, <1>5

\* A request comes in.
LEMMA ArriveGoes ==
  ASSUME FlowInv, FlowInv', Placed, NEW r \in Req, Arrive(r)
  PROVE  Goes(req[r], req'[r])
<1> PICK x \in Request : x = req[r] /\ PlaceOK(x)
  BY DEF FlowInv, FlowOK, Placed
<1> PICK y \in Request : y = req'[r]
  BY DEF FlowInv
<1>1. x.step = "free" /\ \E route : y = [x EXCEPT !.route = route,
                                          !.step = IF route \in OfContent THEN "content" ELSE "permission"]
  BY DEF Arrive, Go, FlowInv
<1>2. /\ y.step \in {"content", "permission"} /\ y.data = x.data /\ y.back = x.back
      /\ y.through = x.through /\ y.loose = x.loose /\ y.answer = x.answer
  BY <1>1 DEF Request
<1>3. (x.closed => y.closed) /\ (y.heard => x.heard)
  BY <1>1 DEF Request
<1>4. StepsLeft(y.step) < StepsLeft(x.step)
  BY <1>1, <1>2 DEF StepsLeft
<1>5. CallsLeft(y.through) <= CallsLeft(x.through)
  BY <1>2, LeftParts
<1>6. Left(y) < Left(x)
  BY <1>2, <1>3, <1>4, <1>5, StepDown
<1>7. PlaceOK(y)
  BY <1>1, <1>2, <1>3 DEF PlaceOK
<1> QED  BY <1>6, <1>7 DEF Goes

\* The file that is looked for: only a stream that is left open takes it no further.
LEMMA LooksGoes ==
  ASSUME FlowInv, FlowInv', Placed, NEW r \in Req, FileExists(r)
  PROVE  \/ Goes(req[r], req'[r])
         \/ PlaceOK(req'[r]) /\ Left(req'[r]) = Left(req[r]) + 1 /\ mishaps' = mishaps + 1
<1> PICK x \in Request : x = req[r] /\ PlaceOK(x) /\ <<x.route, x.step>> \in Stage
  BY DEF FlowInv, FlowOK, Placed
<1> PICK y \in Request : y = req'[r]
  BY DEF FlowInv
<1>g. \A q : Go(r, q) => y = q
  BY DEF Go, FlowInv
<1>1. x.step = "name" /\ x.route = "postAjax" /\ x.route \notin Streamed
  BY DEF FileExists, Stage, Streamed, OfContent
<1>2. ASSUME y.step \in {"store", "clean"}, y.data = x.data, y.back = x.back, y.through = x.through,
             y.loose = x.loose, y.answer = x.answer, y.route = x.route, x.closed => y.closed,
             y.heard => x.heard
      PROVE  Goes(x, y)
  <2>1. StepsLeft(y.step) < StepsLeft(x.step)
    BY <1>1, <1>2 DEF StepsLeft
  <2>2. y.data = "pass" => y.back # "none"
    BY <1>2 DEF PlaceOK
  <2>3. y.data # "open"
    BY <1>1, <1>2 DEF PlaceOK
  <2> QED  BY <1>1, <1>2, <2>1, <2>2, <2>3, StreamGoes
<1>3. CASE Go(r, [x EXCEPT !.step = "store"])
  <2>1. /\ y.step = "store" /\ y.data = x.data /\ y.back = x.back /\ y.through = x.through
        /\ y.loose = x.loose /\ y.answer = x.answer /\ y.route = x.route
    BY <1>3, <1>g DEF Request
  <2>2. (x.closed => y.closed) /\ (y.heard => x.heard)
    BY <1>3, <1>g DEF Request
  <2> QED  BY <1>2, <2>1, <2>2
<1>4. CASE Go(r, [x EXCEPT !.step = "clean", !.failing = TRUE])
  <2>1. y = [x EXCEPT !.step = "clean", !.failing = TRUE]
    BY <1>4, <1>g
  <2>2. /\ y.step = "clean" /\ y.data = x.data /\ y.back = x.back /\ y.through = x.through
        /\ y.loose = x.loose /\ y.answer = x.answer /\ y.route = x.route
    BY <2>1 DEF Request
  <2>3. (x.closed => y.closed) /\ (y.heard => x.heard)
    BY <2>1 DEF Request
  <2> QED  BY <1>2, <2>2, <2>3
<1>5. CASE Fault /\ Go(r, [x EXCEPT !.loose = @ + 1])
  <2>1. /\ y.step = x.step /\ y.data = x.data /\ y.back = x.back /\ y.through = x.through
        /\ y.loose = x.loose + 1 /\ y.answer = x.answer /\ y.route = x.route
    BY <1>5, <1>g DEF Request
  <2>2. y.closed = x.closed /\ y.heard = x.heard
    BY <1>5, <1>g DEF Request
  <2>3. PlaceOK(y)
    BY <2>1, <2>2 DEF PlaceOK
  <2>4. Left(y) = Left(x) + 1
    <3>1. PICK s \in 1..13, d \in 0..3, b \in 0..2, c \in 0..2, l \in Nat :
            /\ s = StepsLeft(x.step) /\ d = DataLeft(x.data) /\ b = BackLeft(x.back)
            /\ c = CallsLeft(x.through) /\ l = x.loose
      BY LeftParts
    <3> QED  BY SMTT(60), <2>1, <2>2, <3>1 DEF Left
  <2> QED  BY <1>5, <2>3, <2>4 DEF Fault
<1> QED  BY <1>3, <1>4, <1>5 DEF FileExists

\* Failures are counted.
LEMMA MishapsGrow ==
  ASSUME FlowInv, NEW r \in Req,
         \/ Arrive(r) \/ Handler(r) \/ ExportReads(r) \/ ExportDone(r) \/ ExportFails(r)
         \/ TimesOut(r) \/ Close(r) \/ StreamTimer(r)
  PROVE  mishaps' \in {mishaps, mishaps + 1}
<1>1. CASE \/ ReadContent(r) \/ CheckPermission(r) \/ GetUserLanguage(r)
           \/ GetAjax(r) \/ GetContentParameters(r) \/ GetH5pPlayer(r) \/ GetEmptyH5pEditor(r)
           \/ GetH5pEditor(r) \/ DeleteH5pContent(r)
  BY <1>1 DEF ReadContent, CheckPermission, GetUserLanguage, GetAjax, GetContentParameters,
       GetH5pPlayer, GetEmptyH5pEditor, Works, GetH5pEditor, DeleteH5pContent, AnswersOrThrows
<1>2. CASE \/ StatContentFile(r) \/ StatTemporaryFile(r) \/ OpenTemporaryFile(r)
           \/ StreamMetadata(r) \/ OpenLibraryFile(r) \/ StartExport(r) \/ Fetch(r)
  BY <1>2 DEF StatContentFile, StatTemporaryFile, OpenTemporaryFile, StreamMetadata, OpenLibraryFile,
       LibraryFile, StartExport, Fetch, HeadAnswers, AnswersOrThrows
<1>3. CASE \/ ReceiveFile(r) \/ WriteSvg(r) \/ PostAjax(r) \/ FileExists(r) \/ SaveFile(r)
           \/ FileSaved(r) \/ DeleteSvg(r)
  BY <1>3 DEF ReceiveFile, WriteSvg, PostAjax, FileExists, SaveFile, FileSaved, DeleteSvg, Fault
<1>4. CASE \/ FileBuffered(r) \/ CopyStarts(r) \/ CopyEnds(r) \/ CopyFails(r)
           \/ ReturnBody(r) \/ ReturnFile(r) \/ ReturnLibraryFile(r) \/ ReturnDownload(r)
           \/ LazyOpens(r) \/ SendEnds(r) \/ SendFails(r)
  BY <1>4 DEF FileBuffered, CopyStarts, CopyEnds, CopyFails, ReturnBody, ReturnFile, ReturnLibraryFile,
       ReturnDownload, Streams, LazyOpens, SendEnds, SendFails, Fault
<1>5. CASE \/ Arrive(r) \/ ExportReads(r) \/ ExportDone(r) \/ ExportFails(r)
           \/ TimesOut(r) \/ Close(r) \/ StreamTimer(r)
  BY <1>5 DEF Arrive, ExportReads, ExportDone, ExportFails, TimesOut, Close, StreamTimer, Fault
<1> QED  BY <1>1, <1>2, <1>3, <1>4, <1>5 DEF Handler

\* Every step of a request.
LEMMA RequestGoes ==
  ASSUME FlowInv, FlowInv', Placed, NEW r \in Req,
         \/ Arrive(r) \/ Handler(r) \/ ExportReads(r) \/ ExportDone(r) \/ ExportFails(r)
         \/ TimesOut(r) \/ Close(r) \/ StreamTimer(r)
  PROVE  \/ Goes(req[r], req'[r])
         \/ PlaceOK(req'[r]) /\ Left(req'[r]) = Left(req[r]) + 1 /\ mishaps' = mishaps + 1
<1>1. CASE Handler(r)
  BY <1>1, CallsGo, WorkGoes, EditorGoes, LooksGoes, AnswerGoes DEF Handler
<1> QED  BY <1>1, ArriveGoes, OutsideGoes

\* Who takes the step.
LEMMA OneRequest ==
  ASSUME FlowInv, NEW r \in Req,
         \/ Arrive(r) \/ Handler(r) \/ ExportReads(r) \/ ExportDone(r) \/ ExportFails(r)
         \/ TimesOut(r) \/ Close(r) \/ StreamTimer(r)
  PROVE  \A s \in Req \ {r} : req'[s] = req[s]
<1>1. PICK q : Advances(r, q)
  <2>1. CASE Handler(r)
    BY <2>1, CallStep, UploadStep, ExportStep, SaveStep, SendStep, ReturnStep, CleanStep, EditorStep
    DEF Handler
  <2> QED  BY <2>1, OutsideStep, ExportStep, SendStep
<1> QED  BY <1>1 DEF Advances, Go, FlowInv

LEMMA InitPlaced == Init => Placed
BY DEF Init, Placed, PlaceOK, Fresh, BothCalls

LEMMA NextPlaced == FlowInv /\ FlowInv' /\ Placed /\ [Next]_vars => Placed'
<1> SUFFICES ASSUME FlowInv, FlowInv', Placed, [Next]_vars, NEW s \in Req
             PROVE  PlaceOK(req'[s])
  BY DEF Placed
<1>1. CASE UNCHANGED vars
  BY <1>1 DEF vars, Placed
<1>2. CASE Next
  <2>1. PICK r \in Req :
          \/ Arrive(r) \/ Handler(r) \/ ExportReads(r) \/ ExportDone(r) \/ ExportFails(r)
          \/ TimesOut(r) \/ Close(r) \/ StreamTimer(r)
    BY <1>2 DEF Next
  <2>2. PlaceOK(req'[r])
    BY <2>1, RequestGoes DEF Goes
  <2>3. s # r => req'[s] = req[s]
    BY <2>1, OneRequest
  <2> QED  BY <2>2, <2>3 DEF Placed
<1> QED  BY <1>1, <1>2

(***************************************************************************)
(* A request takes finitely many steps: what it has to do is a number, at  *)
(* first one that only the number of failures decides, and every step of   *)
(* its handler, its export, its timers, its client and its time limit,     *)
(* failures included, leaves it less, whatever the other requests do.      *)
(***************************************************************************)
THEOREM HandlersAdvance ==
  /\ Spec => []TodoBounded
  /\ Spec => [][TodoGoesDown]_vars
<1>1. Init => TodoBounded
  <2> SUFFICES ASSUME Init, NEW r \in Req PROVE Todo(r) \in 0..(82 + 2 * MaxMishaps)
    BY DEF TodoBounded
  <2>1. req[r] = Fresh /\ mishaps = 0
    BY DEF Init
  <2>2. Left(Fresh) = 82
    BY DEF Left, Fresh, StepsLeft, DataLeft, BackLeft, CallsLeft
  <2> QED  BY <2>1, <2>2, RequestsAssumption DEF Todo
<1>2. FlowInv /\ FlowInv' /\ Placed /\ [Next]_vars => [TodoGoesDown]_vars
  <2> SUFFICES ASSUME FlowInv, FlowInv', Placed, Next PROVE TodoGoesDown
    BY DEF vars
  <2>1. PICK r \in Req :
          \/ Arrive(r) \/ Handler(r) \/ ExportReads(r) \/ ExportDone(r) \/ ExportFails(r)
          \/ TimesOut(r) \/ Close(r) \/ StreamTimer(r)
    BY DEF Next
  <2>2. mishaps \in Nat /\ MaxMishaps \in Nat /\ mishaps' \in {mishaps, mishaps + 1}
    BY <2>1, MishapsGrow, RequestsAssumption DEF FlowInv
  <2>3. \A s \in Req : Left(req[s]) \in Nat /\ Left(req'[s]) \in Nat
    BY LeftParts DEF FlowInv
  <2>4. \/ Left(req'[r]) < Left(req[r])
        \/ Left(req'[r]) = Left(req[r]) + 1 /\ mishaps' = mishaps + 1
    BY <2>1, RequestGoes DEF Goes
  <2>5. Todo(r)' < Todo(r) /\ Todo(r)' <= Todo(r)
    BY <2>2, <2>3, <2>4 DEF Todo
  <2>6. ASSUME NEW s \in Req \ {r} PROVE req'[s] = req[s] /\ Todo(s)' <= Todo(s)
    <3>1. req'[s] = req[s]
      BY <2>1, OneRequest
    <3> QED  BY <2>2, <2>3, <3>1 DEF Todo
  <2> QED  BY <2>5, <2>6 DEF TodoGoesDown
<1>3. TodoBounded /\ FlowInv /\ FlowInv' /\ [TodoGoesDown]_vars => TodoBounded'
  <2> SUFFICES ASSUME TodoBounded, FlowInv, FlowInv', [TodoGoesDown]_vars, NEW r \in Req
               PROVE  Todo(r)' \in 0..(82 + 2 * MaxMishaps)
    BY DEF TodoBounded
  <2>1. Todo(r)' <= Todo(r)
    <3>1. CASE TodoGoesDown
      BY <3>1 DEF TodoGoesDown
    <3>2. CASE UNCHANGED vars
      <4>1. Todo(r)' = Todo(r)
        BY <3>2 DEF vars, Todo
      <4>2. Todo(r) \in Int
        BY RequestsAssumption DEF TodoBounded
      <4> QED  BY <4>1, <4>2
    <3> QED  BY <3>1, <3>2
  <2>2. Todo(r)' \in Nat
    <3>1. Left(req'[r]) \in Nat
      BY LeftParts DEF FlowInv
    <3>2. MaxMishaps - mishaps' \in Nat
      <4>1. PICK m \in 0..MaxMishaps : m = mishaps'
        BY DEF FlowInv
      <4>2. MaxMishaps \in Nat
        BY RequestsAssumption
      <4>3. MaxMishaps - m \in Nat
        BY <4>2
      <4> QED  BY <4>1, <4>3
    <3> QED  BY <3>1, <3>2 DEF Todo
  <2> QED  BY <2>1, <2>2, RequestsAssumption DEF TodoBounded
<1>4. Spec => []TodoBounded
  BY InitFlow, NextFlow, InitPlaced, NextPlaced, <1>1, <1>2, <1>3, PTL DEF Spec
<1>5. Spec => [][TodoGoesDown]_vars
  BY InitFlow, NextFlow, InitPlaced, NextPlaced, <1>2, PTL DEF Spec
<1> QED  BY <1>4, <1>5

(***************************************************************************)
(* The step that CanMove and CanUseSocket speak of, as a function of the   *)
(* request: it is one that is there to be taken.                           *)
(***************************************************************************)
Onward(q) ==
  IF q.loose > 0 THEN [q EXCEPT !.loose = @ - 1]
  ELSE IF Silent(q) THEN [q EXCEPT !.data = "gone"]
  ELSE IF q.back = "reading" THEN [q EXCEPT !.back = "done"]
  ELSE CASE q.step = "content"    -> [q EXCEPT !.step = "permission"]
         [] q.step = "permission" -> [q EXCEPT !.step = FirstWork(q.route)]
         [] q.step = "language"   -> [q EXCEPT !.step = IF q.route = "getAjax" THEN "act" ELSE "file"]
         [] q.step = "export"     -> [q EXCEPT !.step = "return", !.data = "pass", !.back = "running"]
         [] q.step = "file"       -> [q EXCEPT !.step = "act"]
         [] q.step = "write"      -> [q EXCEPT !.step = "name", !.dir = "full"]
         [] q.step = "storing"    -> Finally(q, FALSE)
         [] q.step = "clean" ->
              [IF q.failing THEN Threw(q) ELSE [q EXCEPT !.step = "return"] EXCEPT !.dir = "none"]
         [] q.step = "open"       -> [q EXCEPT !.step = "return", !.data = "buffered"]
         [] q.step \in {"copy", "copying"} ->
              IF q.data = "gone" THEN [Threw(q) EXCEPT !.data = IF @ = "open" THEN "left" ELSE "gone"]
              ELSE [q EXCEPT !.step = "return", !.data = "gone", !.stored = TRUE]
         [] q.step = "send" ->
              IF q.data = "gone" THEN [[q EXCEPT !.step = "over", !.data = "gone"] EXCEPT !.answer = "error"]
              ELSE [q EXCEPT !.step = "over", !.data = "gone", !.sent = "ended"]
         [] q.step = "return" /\ q.route \notin Streamed ->
              [q EXCEPT !.step = "over", !.answer = IF Timely(q) THEN "ok" ELSE @]
         [] q.step = "return" /\ q.route \in Streamed ->
              [q EXCEPT !.answer = IF Timely(q) THEN "ok" ELSE @,
                        !.step = IF Timely(q) /\ ~q.closed THEN "send" ELSE "over",
                        !.heard = ~q.closed,
                        !.data = IF Timely(q) /\ q.closed THEN Dropped(@) ELSE @]
         [] q.step = "act" /\ q.route = "postAjax" -> Finally(q, FALSE)
         [] q.step = "act" /\ q.route = "delete"   -> [q EXCEPT !.step = "return", !.stored = TRUE]
         [] q.step = "act" /\ q.route = "edit" ->
              LET call == IF "render" \in q.through THEN "getContent" ELSE "render"
                  through == q.through \cup {call}  failing == q.failing \/ FALSE
                  next == [q EXCEPT !.through = through, !.failing = failing,
                             !.answer = IF @ = "none" /\ FALSE THEN "error" ELSE @] IN
              [next EXCEPT !.step = IF Cardinality(through) < 2 THEN "act"
                                    ELSE IF failing THEN "over" ELSE "return"]
         [] OTHER -> [q EXCEPT !.step = "return"]

WithSocket(q) ==
  IF q.back = "running" THEN [q EXCEPT !.back = "reading"]
  ELSE CASE q.step = "stat" ->
              IF q.route = "tempFile" THEN [q EXCEPT !.step = "open"]
              ELSE [q EXCEPT !.step = "return", !.data = "lazy"]
         [] q.step = "open"  -> [q EXCEPT !.step = "return", !.data = "open"]
         [] q.step = "name"  -> [q EXCEPT !.step = "store"]
         [] q.step = "store" -> [q EXCEPT !.step = "storing"]
         [] q.step = "fetch" -> [q EXCEPT !.step = "copy", !.data = "open"]
         [] q.step = "copy"  -> [q EXCEPT !.step = "copying"]
         [] OTHER            -> [q EXCEPT !.data = "open"]

LEMMA MoveIsAStep ==
  ASSUME FlowInv, Placed, NEW r \in Req, CanMove(req[r]),
         Go(r, Onward(req[r])), UNCHANGED <<mishaps, excused>>
  PROVE  Handler(r) \/ ExportDone(r) \/ StreamTimer(r)
<1> PICK x \in Request : x = req[r] /\ PlaceOK(x) /\ <<x.route, x.step>> \in Stage
  BY DEF FlowInv, FlowOK, Placed
<1> PICK y : y = Onward(x)
  OBVIOUS
<1>g. Go(r, y) /\ UNCHANGED <<mishaps, excused>> /\ CanMove(x)
  OBVIOUS
<1>1. CASE x.loose > 0 \/ Silent(x) \/ x.back = "reading"
  <2>1. CASE x.loose > 0
    BY Zenon, <1>g, <2>1 DEF Onward, StreamTimer
  <2>2. CASE ~(x.loose > 0) /\ Silent(x)
    BY <1>g, <2>2 DEF Onward, StreamTimer
  <2>3. CASE ~(x.loose > 0) /\ ~Silent(x) /\ x.back = "reading"
    BY <1>g, <2>3 DEF Onward, ExportDone
  <2> QED  BY SMTT(60), <1>1, <2>1, <2>2, <2>3
<1>2. CASE ~(x.loose > 0 \/ Silent(x) \/ x.back = "reading")
  <2>1. CASE x.step = "content"
    BY <1>g, <1>2, <2>1 DEF Onward, ReadContent, AnswersOrThrows, Handler
  <2>2. CASE x.step = "permission"
    BY <1>g, <1>2, <2>2 DEF Onward, CheckPermission, AnswersOrThrows, Handler
  <2>3. CASE x.step = "language"
    BY <1>g, <1>2, <2>3 DEF Onward, GetUserLanguage, AnswersOrThrows, Handler
  <2>4. CASE x.step = "export"
    BY <1>g, <1>2, <2>4 DEF Onward, StartExport, Handler
  <2>5. CASE x.step = "file"
    BY <1>g, <1>2, <2>5 DEF Onward, ReceiveFile, Handler
  <2>6. CASE x.step = "write"
    BY <1>g, <1>2, <2>6 DEF Onward, WriteSvg, Handler
  <2>7. CASE x.step = "storing"
    BY <1>g, <1>2, <2>7 DEF Onward, FileSaved, Handler
  <2>8. CASE x.step = "clean"
    BY <1>g, <1>2, <2>8 DEF Onward, DeleteSvg, Handler
  <2>9. CASE x.step = "open"
    <3>1. x.route = "libraryFile"
      BY SMTT(60), <1>g, <1>2, <2>9 DEF CanMove
    <3> QED  BY <1>g, <1>2, <2>9, <3>1 DEF Onward, StreamMetadata, LibraryFile, AnswersOrThrows, Handler
  <2>10. CASE x.step \in {"copy", "copying"} /\ x.data = "gone"
    BY <1>g, <1>2, <2>10 DEF Onward, CopyFails, Handler
  <2>11. CASE x.step \in {"copy", "copying"} /\ x.data # "gone"
    <3>1. x.step = "copying" /\ x.data \in {"open", "buffered"}
      BY <1>g, <1>2, <2>11 DEF CanMove, Silent
    <3> QED  BY <1>g, <1>2, <3>1 DEF Onward, CopyEnds, Handler
  <2>12. CASE x.step = "send" /\ x.data = "gone"
    BY <1>g, <1>2, <2>12 DEF Onward, SendFails, Handler
  <2>13. CASE x.step = "send" /\ x.data # "gone"
    <3>1. \/ x.data \in {"open", "buffered"}
          \/ x.data = "pass" /\ x.back \in {"done", "failed"}
      BY <1>g, <1>2, <2>13 DEF CanMove
    <3> QED  BY <1>g, <1>2, <2>13, <3>1 DEF Onward, SendEnds, Handler
  <2>14. CASE x.step = "return" /\ x.route \notin Streamed
    BY <1>g, <1>2, <2>14 DEF Onward, ReturnBody, Handler
  <2>15. CASE x.step = "return" /\ x.route \in Streamed
    BY <1>g, <1>2, <2>15 DEF Onward, ReturnFile, ReturnLibraryFile, ReturnDownload, Streams, Streamed, Handler
  <2>16. CASE x.step = "act" /\ x.route = "postAjax"
    BY <1>g, <1>2, <2>16 DEF Onward, PostAjax, Handler
  <2>17. CASE x.step = "act" /\ x.route = "delete"
    BY <1>g, <1>2, <2>17 DEF Onward, DeleteH5pContent, AnswersOrThrows, Handler
  <2>18. CASE x.step = "act" /\ x.route = "edit"
    <3>1. PICK call : call = IF "render" \in x.through THEN "getContent" ELSE "render"
      OBVIOUS
    <3>2. call \in {"render", "getContent"} \ x.through
      BY <2>18, <3>1 DEF PlaceOK, BothCalls, Request
    <3> QED  BY <1>g, <1>2, <2>18, <3>1, <3>2 DEF Onward, GetH5pEditor, Handler
  <2>19. CASE x.step = "act" /\ x.route \notin {"postAjax", "delete", "edit"}
    <3>1. x.route \in {"getAjax", "play", "params", "newEdit"}
      BY <2>19 DEF Stage, Streamed, OfContent
    <3> QED  BY <1>g, <1>2, <2>19, <3>1
             DEF Onward, GetAjax, GetContentParameters, GetH5pPlayer, GetEmptyH5pEditor, Works,
                 AnswersOrThrows, Handler
  <2> QED  BY <1>g, <1>2, <2>1, <2>2, <2>3, <2>4, <2>5, <2>6, <2>7, <2>8, <2>9, <2>10, <2>11, <2>12,
              <2>13, <2>14, <2>15, <2>16, <2>17, <2>18, <2>19 DEF CanMove
<1> QED  BY <1>1, <1>2

LEMMA SocketIsAStep ==
  ASSUME FlowInv, Placed, NEW r \in Req, CanUseSocket(req[r]), SocketFree,
         Go(r, WithSocket(req[r])), UNCHANGED <<mishaps, excused>>
  PROVE  Handler(r) \/ ExportReads(r)
<1> PICK x \in Request : x = req[r] /\ PlaceOK(x) /\ <<x.route, x.step>> \in Stage
  BY DEF FlowInv, FlowOK, Placed
<1> PICK y : y = WithSocket(x)
  OBVIOUS
<1>g. Go(r, y) /\ UNCHANGED <<mishaps, excused>> /\ CanUseSocket(x) /\ SocketFree
  OBVIOUS
<1>1. CASE x.back = "running"
  BY <1>g, <1>1 DEF WithSocket, ExportReads
<1>2. CASE x.back # "running"
  <2>1. CASE x.step = "stat"
    <3>1. x.route \in {"contentFile", "tempFile"}
      BY <2>1 DEF Stage, Streamed, OfContent
    <3> QED  BY <1>g, <1>2, <2>1, <3>1
             DEF WithSocket, StatContentFile, StatTemporaryFile, HeadAnswers, AnswersOrThrows, Handler
  <2>2. CASE x.step = "open"
    <3>1. x.route \in {"libraryFile", "tempFile"}
      BY <2>2 DEF Stage, Streamed, OfContent
    <3> QED  BY <1>g, <1>2, <2>2, <3>1
             DEF WithSocket, OpenTemporaryFile, OpenLibraryFile, LibraryFile, AnswersOrThrows, Handler
  <2>3. CASE x.step = "name"
    BY <1>g, <1>2, <2>3 DEF WithSocket, FileExists, Handler
  <2>4. CASE x.step = "store"
    BY <1>g, <1>2, <2>4 DEF WithSocket, SaveFile, Handler
  <2>5. CASE x.step = "fetch"
    BY <1>g, <1>2, <2>5 DEF WithSocket, Fetch, AnswersOrThrows, Handler
  <2>6. CASE x.step = "copy"
    BY <1>g, <1>2, <2>6 DEF WithSocket, CanUseSocket, CopyStarts, Handler
  <2>7. CASE x.step = "send" /\ x.data = "lazy"
    BY <1>g, <1>2, <2>7 DEF WithSocket, LazyOpens, Handler
  <2> QED  BY <1>g, <1>2, <2>1, <2>2, <2>3, <2>4, <2>5, <2>6, <2>7 DEF CanUseSocket
<1> QED  BY <1>1, <1>2

\* A request that holds a socket needs no other one to go on.
LEMMA HolderMoves ==
  ASSUME NEW q \in Request, PlaceOK(q), Held(q) # {}
  PROVE  CanMove(q)
<1>1. CASE q.data \in {"open", "left"}
  BY <1>1 DEF PlaceOK, CanMove, Silent
<1>2. CASE q.loose > 0 \/ q.back = "reading" \/ q.step = "storing"
  BY <1>2 DEF CanMove
<1>3. CASE q.step = "copying"
  BY <1>3 DEF PlaceOK, CanMove
<1>4. \A i : i \in 1..q.loose => q.loose > 0
  BY DEF Request
<1> QED  BY <1>1, <1>2, <1>3, <1>4 DEF Held

\* One that is not through goes on, or needs a socket to go on.
LEMMA UnfinishedGoesOn ==
  ASSUME NEW q \in Request, <<q.route, q.step>> \in Stage, PlaceOK(q), Unfinished(q)
  PROVE  CanMove(q) \/ CanUseSocket(q)
<1>1. CASE q.step = "over"
  BY <1>1, HolderMoves DEF Unfinished
<1>2. CASE q.step = "send"
  <2>1. q.route \in Streamed
    BY <1>2 DEF Stage, Streamed, OfContent
  <2>2. q.data \in {"lazy", "open", "buffered", "gone", "pass"}
    BY <1>2, <2>1 DEF PlaceOK
  <2>3. q.data = "pass" => q.back \in {"running", "reading", "done", "failed"}
    BY DEF PlaceOK, Request, BackName
  <2> QED  BY <1>2, <2>2, <2>3 DEF CanMove, CanUseSocket
<1>3. CASE q.step \in {"copy", "copying"}
  BY <1>3 DEF PlaceOK, CanMove, CanUseSocket
<1>4. CASE q.step \notin {"over", "send", "copy", "copying"}
  <2>1. q.step \in StepName \ {"free"}
    BY DEF Request, Unfinished
  <2> QED  BY <1>4, <2>1 DEF StepName, CanMove, CanUseSocket
<1> QED  BY <1>1, <1>2, <1>3, <1>4

\* The step is one: it leaves less to do.
THEOREM MovesAreSteps ==
  ASSUME FlowInv, Placed, NEW r \in Req, UNCHANGED <<mishaps, excused>>,
         \/ CanMove(req[r]) /\ Go(r, Onward(req[r]))
         \/ CanUseSocket(req[r]) /\ SocketFree /\ Go(r, WithSocket(req[r]))
  PROVE  /\ Handler(r) \/ ExportReads(r) \/ ExportDone(r) \/ StreamTimer(r)
         /\ Left(req'[r]) < Left(req[r])
<1>1. Handler(r) \/ ExportReads(r) \/ ExportDone(r) \/ StreamTimer(r)
  BY MoveIsAStep, SocketIsAStep
<1>2. FlowInv'
  BY <1>1, NextFlow DEF Next
<1>3. mishaps' = mishaps /\ mishaps \in Nat
  BY RequestsAssumption DEF FlowInv
<1>4. mishaps' # mishaps + 1
  BY <1>3
<1> QED  BY <1>1, <1>2, <1>4, RequestGoes DEF Goes

(***************************************************************************)
(* Nobody waits for a socket for good: a request that is not through has a *)
(* step to take, or one for which it needs a socket, and then a socket is  *)
(* free or its holder has a step to take for which it needs no other.      *)
(* However many saves hold one socket and wait for a second one, there is  *)
(* no circle among them.                                                   *)
(***************************************************************************)
THEOREM NobodyWaitsForGood == Spec => []NobodyStuck
<1>1. FlowInv /\ Placed /\ SocketsInv => NobodyStuck
  <2> SUFFICES ASSUME FlowInv, Placed, SocketsInv, NEW r \in Req, Unfinished(req[r])
               PROVE  \/ CanMove(req[r])
                      \/ /\ CanUseSocket(req[r])
                         /\ SocketFree \/ \E s \in Req : Held(req[s]) # {} /\ CanMove(req[s])
    BY DEF NobodyStuck
  <2>1. CanMove(req[r]) \/ CanUseSocket(req[r])
    BY UnfinishedGoesOn DEF FlowInv, FlowOK, Placed
  <2>2. CASE ~SocketFree
    <3>1. Cardinality(InUse) # 0
      BY <2>2, RequestsAssumption DEF SocketFree
    <3>2. InUse # {}
      BY <3>1, FS_EmptySet
    <3>3. PICK s \in Req : Held(req[s]) # {}
      BY <3>2 DEF InUse
    <3>4. CanMove(req[s])
      BY <3>3, HolderMoves DEF FlowInv, Placed
    <3> QED  BY <2>1, <3>3, <3>4
  <2> QED  BY <2>1, <2>2
<1> QED  BY InitFlow, NextFlow, InitSockets, NextSockets, InitPlaced, NextPlaced, <1>1, PTL DEF Spec
================================================================================
