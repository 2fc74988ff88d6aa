------------------------------ MODULE LazyReadable ------------------------------
(***************************************************************************)
(* Reading one S3 object: S3 response stream (src), PassThrough of the S3  *)
(* client adapter (pass), readable of createLazyS3Readable (lazy), reader. *)
(*                                                                         *)
(* The S3 request is sent at the first read, backpressure pauses the       *)
(* streams one after the other, and a timer destroys a response that has   *)
(* not delivered anything for 60 s.  Data is counted in chunks, time is    *)
(* left out: the timer may fire whenever it is armed.                      *)
(*                                                                         *)
(* A reader may also be a probe, the fileExists methods that open a        *)
(* stream only to see whether it can be opened and never touch it.         *)
(***************************************************************************)
EXTENDS Naturals

CONSTANTS
  Total,   \* chunks of the object
  High,    \* high water mark of a stream's buffer, in chunks
  Faults   \* "get": the request fails; "source": the response breaks off;
           \* "leave": the reader destroys its stream

ASSUME StreamAssumption == Total \in Nat /\ High \in Nat \ {0}

VARIABLES
  reader,   \* "waiting" (has not read yet), "reading", "end", "error", "gone", "probe", "probed"
  got,      \* chunks the reader has taken
  lazy,     \* "open", "closed", "none" (for a probe)
  buf,      \* chunks in lazy's buffer
  eof,      \* push(null) was called
  asked,    \* the S3 request is under way
  held,     \* s3Stream is set and listened to
  paused,   \* lazy has paused pass
  pass,     \* "none", "open", "closed"
  passBuf,  \* chunks in pass's buffer
  ended,    \* src has ended pass
  src,      \* "none", "open", "closed"
  left,     \* chunks still to come from S3
  timer,    \* "off", "armed", "cleared", "fired"
  cut       \* history: the timer has taken the stream away from an open lazy

lazyVars == <<lazy, buf, eof, asked, held, paused>>
s3Vars   == <<pass, passBuf, ended, src, left, timer>>
vars     == <<reader, got, lazyVars, s3Vars, cut>>

Init ==
  /\ \/ reader = "waiting" /\ lazy = "open" /\ asked = FALSE
     \/ reader = "probe" /\ lazy = "none" /\ asked = TRUE
  /\ got = 0 /\ buf = 0 /\ passBuf = 0 /\ left = Total
  /\ eof = FALSE /\ held = FALSE /\ paused = FALSE /\ ended = FALSE /\ cut = FALSE
  /\ pass = "none" /\ src = "none" /\ timer = "off"

\* lazyReadable.destroy, its 'close' event and cleanup, for reader's outcome r.
CloseLazy(r) ==
  /\ lazy' = "closed" /\ held' = FALSE
  /\ reader' = r
  /\ UNCHANGED <<buf, eof, paused>>

(***************************************************************************)
(* createLazyS3Readable                                                    *)
(***************************************************************************)
\* The first _read.
FirstRead ==
  /\ reader = "waiting"
  /\ reader' = "reading" /\ asked' = TRUE
  /\ UNCHANGED <<got, lazy, buf, eof, held, paused, s3Vars, cut>>

\* getStream has resolved: getFile has piped the response into a PassThrough
\* and started the timer.  A lazy closed meanwhile destroys the PassThrough.
Opened ==
  /\ asked /\ asked' = FALSE
  /\ src' = "open" /\ timer' = "armed"
  /\ pass' = IF lazy = "closed" THEN "closed" ELSE "open"
  /\ held' = (lazy = "open")
  /\ reader' = IF reader = "probe" THEN "probed" ELSE reader
  /\ UNCHANGED <<got, lazy, buf, eof, paused, passBuf, ended, left, cut>>

GetFails ==
  /\ "get" \in Faults
  /\ asked /\ asked' = FALSE
  /\ CASE lazy = "open"   -> CloseLazy("error")
       [] lazy = "closed" -> UNCHANGED <<reader, lazy, buf, eof, held, paused>>
       [] lazy = "none"   -> reader' = "probed" /\ UNCHANGED <<lazy, buf, eof, held, paused>>
  /\ UNCHANGED <<got, s3Vars, cut>>

CanForward == held /\ pass = "open" /\ passBuf > 0 /\ ~paused

\* A broken variant of Forward: backpressure is not passed on.
ForwardUnpaused ==
  /\ CanForward
  /\ passBuf' = passBuf - 1
  /\ buf' = buf + 1
  /\ UNCHANGED <<reader, got, lazy, eof, asked, held, paused, pass, ended, src, left, timer, cut>>

\* onData
Forward ==
  /\ CanForward
  /\ passBuf' = passBuf - 1
  /\ buf' = buf + 1
  /\ paused' = ~(buf + 1 < High)
  /\ UNCHANGED <<reader, got, lazy, eof, asked, held, pass, ended, src, left, timer, cut>>

CanForwardEnd == held /\ pass = "open" /\ passBuf = 0 /\ ended /\ ~paused

\* onEnd; pass destroys itself when it has ended.
ForwardEnd ==
  /\ CanForwardEnd
  /\ eof' = TRUE
  /\ pass' = "closed"
  /\ UNCHANGED <<reader, got, lazy, buf, asked, held, paused, passBuf, ended, src, left, timer, cut>>

CanTake == reader = "reading" /\ buf > 0

\* A broken variant of Take: s3Stream is not resumed.
TakeOnly ==
  /\ CanTake
  /\ buf' = buf - 1 /\ got' = got + 1
  /\ UNCHANGED <<reader, lazy, eof, asked, held, paused, s3Vars, cut>>

\* The reader takes a chunk; with room in the buffer, _read resumes s3Stream.
Take ==
  /\ CanTake
  /\ buf' = buf - 1 /\ got' = got + 1
  /\ paused' = (paused /\ ~(buf - 1 < High))
  /\ UNCHANGED <<reader, lazy, eof, asked, held, s3Vars, cut>>

CanTakeEnd == reader = "reading" /\ buf = 0 /\ eof

TakeEnd ==
  /\ CanTakeEnd
  /\ CloseLazy("end")
  /\ UNCHANGED <<got, asked, s3Vars, cut>>

\* The reader's client disconnects, or an earlier file of an export fails.
Leave ==
  /\ "leave" \in Faults
  /\ reader \in {"waiting", "reading"}
  /\ CloseLazy("gone")
  /\ pass' = IF held THEN "closed" ELSE pass
  /\ UNCHANGED <<got, asked, passBuf, ended, src, left, timer, cut>>

(***************************************************************************)
(* S3ClientAdapter.getFile                                                 *)
(***************************************************************************)
CanReceive == src = "open" /\ left > 0 /\ pass = "open" /\ passBuf < High

\* sourceStream.on('data'): the timer starts again.  A closed pass is no
\* longer piped into.
Receive ==
  /\ CanReceive
  /\ left' = left - 1
  /\ passBuf' = passBuf + 1
  /\ timer' = "armed"
  /\ UNCHANGED <<reader, got, lazyVars, pass, ended, src, cut>>

CanEndSource == src = "open" /\ left = 0 /\ pass = "open" /\ passBuf < High

SourceEnds ==
  /\ CanEndSource
  /\ src' = "closed" /\ ended' = TRUE
  /\ UNCHANGED <<reader, got, lazyVars, pass, passBuf, left, timer, cut>>

\* A broken variant of SourceFails: lazy does not listen to errors.
SourceUnheard ==
  /\ "source" \in Faults
  /\ src = "open"
  /\ src' = "closed" /\ pass' = "closed" /\ timer' = "cleared"
  /\ UNCHANGED <<reader, got, lazyVars, passBuf, ended, left, cut>>

\* sourceStream.on('error'), the error of pass it causes, and onError.
SourceFails ==
  /\ "source" \in Faults
  /\ src = "open"
  /\ src' = "closed" /\ pass' = "closed" /\ timer' = "cleared"
  /\ IF held THEN CloseLazy("error") ELSE UNCHANGED <<reader, lazy, buf, eof, held, paused>>
  /\ UNCHANGED <<got, asked, passBuf, ended, left, cut>>

\* A broken variant of TimerFires: nothing to do if one stream is destroyed.
TimerGivesUp ==
  /\ timer = "armed" /\ timer' = "fired"
  /\ IF src = "closed" \/ pass = "closed"
     THEN UNCHANGED <<src, pass, cut>>
     ELSE src' = "closed" /\ pass' = "closed" /\ cut' = (cut \/ lazy = "open")
  /\ UNCHANGED <<reader, got, lazyVars, passBuf, ended, left>>

\* A broken variant of TimerFires: pass is ended instead of destroyed.
TimerEnds ==
  /\ timer = "armed" /\ timer' = "fired"
  /\ src' = "closed" /\ ended' = TRUE
  /\ UNCHANGED <<reader, got, lazyVars, pass, passBuf, left, cut>>

\* createStreamTimeout: both streams are destroyed, without an error, so that
\* lazy, which listens to data, end and error, is not told.
TimerFires ==
  /\ timer = "armed" /\ timer' = "fired"
  /\ cut' = (cut \/ (pass = "open" /\ lazy = "open"))
  /\ src' = "closed" /\ pass' = "closed"
  /\ UNCHANGED <<reader, got, lazyVars, passBuf, ended, left>>

Flow == Opened \/ Forward \/ ForwardEnd \/ Take \/ TakeEnd \/ Receive \/ SourceEnds

Next == FirstRead \/ Flow \/ TimerFires \/ GetFails \/ Leave \/ SourceFails

Spec == Init /\ [][Next]_vars

\* Streams move when they can, S3 answers, a timer runs down.
FairSpec == Spec /\ WF_vars(Flow) /\ WF_vars(TimerFires)

(***************************************************************************)
(* Properties.                                                             *)
(***************************************************************************)
Flags ==
  /\ eof \in BOOLEAN /\ asked \in BOOLEAN /\ held \in BOOLEAN
  /\ paused \in BOOLEAN /\ ended \in BOOLEAN /\ cut \in BOOLEAN

Bounds ==
  /\ got \in 0..Total /\ left \in 0..Total
  /\ buf \in 0..High /\ passBuf \in 0..High

TypeOK ==
  /\ reader \in {"waiting", "reading", "end", "error", "gone", "probe", "probed"}
  /\ lazy \in {"open", "closed", "none"}
  /\ pass \in {"none", "open", "closed"}
  /\ src \in {"none", "open", "closed"}
  /\ timer \in {"off", "armed", "cleared", "fired"}
  /\ Flags /\ Bounds

\* A reader that is told the end has the whole object: no error, timeout or
\* disconnection, and no pausing and resuming, looks like the end of a file.
EndMeansAll == reader = "end" => got = Total

\* An S3 response that was opened is closed in the end, whoever loses interest
\* in it and when: before it is opened, while it is paused, or never reading it.
Released == src = "open" ~> (src = "closed" /\ pass = "closed")

\* A step of Flow can be taken: the guards of its actions.
CanFlow ==
  asked \/ CanForward \/ CanForwardEnd \/ CanTake \/ CanTakeEnd \/ CanReceive \/ CanEndSource

\* Backpressure never leaves both sides waiting: a reader that was not cut off
\* always has something under way, a chunk, the end or the answer of S3, and does
\* not depend on the timer to go on.
NeverStuck == reader = "reading" /\ ~cut => CanFlow

\* A reader is served: it gets the end or an error, unless it leaves or the
\* timer cuts it off.
Served == reader = "reading" ~> (reader # "reading" \/ cut)
=================================================================================
