--------------------------- MODULE LazyReadableProofs ---------------------------
(***************************************************************************)
(* For objects and buffers of every size: buffers stay within their marks, *)
(* and the end of a file is never told before all of it was delivered.     *)
(***************************************************************************)
EXTENDS LazyReadable, TLAPS

\* Chunks are neither lost nor duplicated on their way.
Conserved == got + buf + passBuf + left = Total

\* The end travels behind the last chunk, and a stream is opened once.
EndLast ==
  /\ ended => left = 0
  /\ eof => ended /\ passBuf = 0 /\ pass = "closed"
  /\ reader = "end" => eof /\ buf = 0
  /\ asked \/ reader = "waiting" => /\ pass = "none" /\ src = "none" /\ timer = "off"
                                     /\ ~held /\ ~eof
  /\ reader = "waiting" => ~asked

\* With a full buffer the lazy readable has paused its source.
FullIsPaused == paused \/ buf < High

States ==
  /\ reader \in {"waiting", "reading", "end", "error", "gone", "probe", "probed"}
  /\ lazy \in {"open", "closed", "none"}
  /\ pass \in {"none", "open", "closed"}
  /\ src \in {"none", "open", "closed"}
  /\ timer \in {"off", "armed", "cleared", "fired"}

Flowing == Bounds /\ Conserved /\ EndLast /\ FullIsPaused

LEMMA InitStates == Init => States /\ Flags
<1>1. Init => States
  BY DEF Init, States
<1>2. Init => Flags
  BY Zenon DEF Init, Flags
<1>3. QED
  BY <1>1, <1>2

LEMMA NextStates == States /\ [Next]_vars => States'
<1> SUFFICES ASSUME States, [Next]_vars PROVE States'
  OBVIOUS
<1> USE DEF States, lazyVars, s3Vars, CloseLazy
<1>1. CASE FirstRead
  BY <1>1 DEF FirstRead
<1>2. CASE Opened
  BY <1>2 DEF Opened
<1>3. CASE Forward
  BY <1>3 DEF Forward, CanForward
<1>4. CASE ForwardEnd
  BY <1>4 DEF ForwardEnd, CanForwardEnd
<1>5. CASE Take
  BY <1>5 DEF Take, CanTake
<1>6. CASE TakeEnd
  BY <1>6 DEF TakeEnd, CanTakeEnd
<1>7. CASE Receive
  BY <1>7 DEF Receive, CanReceive
<1>8. CASE SourceEnds
  BY <1>8 DEF SourceEnds, CanEndSource
<1>9. CASE TimerFires
  BY <1>9 DEF TimerFires
<1>10. CASE GetFails
  BY <1>10 DEF GetFails, States
<1>11. CASE Leave
  BY <1>11 DEF Leave
<1>12. CASE SourceFails
  BY <1>12 DEF SourceFails
<1>13. CASE UNCHANGED vars
  BY <1>13 DEF vars
<1>14. QED
  BY <1>1, <1>2, <1>3, <1>4, <1>5, <1>6, <1>7, <1>8, <1>9, <1>10, <1>11, <1>12, <1>13
  DEF Next, Flow

LEMMA NextFlags == States /\ Flags /\ [Next]_vars => Flags'
<1> SUFFICES ASSUME States, Flags, [Next]_vars PROVE Flags'
  OBVIOUS
<1> USE DEF Flags, lazyVars, s3Vars, CloseLazy
<1>1. CASE FirstRead
  BY <1>1, Zenon DEF FirstRead
<1>2. CASE Opened
  BY <1>2, Zenon DEF Opened
<1>3. CASE Forward
  BY <1>3, Zenon DEF Forward
<1>4. CASE ForwardEnd
  BY <1>4, Zenon DEF ForwardEnd
<1>5. CASE Take
  BY <1>5, Zenon DEF Take
<1>6. CASE TakeEnd
  BY <1>6, Zenon DEF TakeEnd
<1>7. CASE Receive
  BY <1>7, Zenon DEF Receive
<1>8. CASE SourceEnds
  BY <1>8, Zenon DEF SourceEnds
<1>9. CASE TimerFires
  BY <1>9, Zenon DEF TimerFires
<1>10. CASE GetFails
  BY <1>10, Zenon DEF GetFails, States
<1>11. CASE Leave
  BY <1>11, Zenon DEF Leave
<1>12. CASE SourceFails
  BY <1>12, Zenon DEF SourceFails
<1>13. CASE UNCHANGED vars
  BY <1>13 DEF vars
<1>14. QED
  BY <1>1, <1>2, <1>3, <1>4, <1>5, <1>6, <1>7, <1>8, <1>9, <1>10, <1>11, <1>12, <1>13
  DEF Next, Flow

LEMMA InitFlowing == Init => Flowing
BY StreamAssumption
DEF Init, Flowing, Bounds, Conserved, EndLast, FullIsPaused

LEMMA NextFlowing == States /\ Flowing /\ [Next]_vars => Flowing'
<1> SUFFICES ASSUME States, Flowing, [Next]_vars PROVE Flowing'
  OBVIOUS
<1> USE StreamAssumption
    DEF Flowing, Bounds, Conserved, EndLast, FullIsPaused, lazyVars, s3Vars, CloseLazy
<1>1. CASE FirstRead
  BY <1>1 DEF FirstRead
<1>2. CASE Opened
  BY <1>2 DEF Opened
<1>3. CASE Forward
  <2>1. FullIsPaused'
    <3>1. buf' = buf + 1 /\ paused' = ~(buf + 1 < High)
      BY <1>3 DEF Forward, CanForward
    <3>2. QED
      BY <3>1, Zenon
  <2>2. Bounds' /\ Conserved' /\ EndLast'
    <3>1. /\ pass = "open" /\ pass' = pass /\ passBuf > 0 /\ buf < High
          /\ passBuf' = passBuf - 1 /\ buf' = buf + 1
          /\ UNCHANGED <<got, left, ended, eof, reader, asked, held, src, timer>>
      BY <1>3 DEF Forward, CanForward
    <3>2. QED
      BY <3>1
  <2>3. QED
    BY <2>1, <2>2
<1>4. CASE ForwardEnd
  BY <1>4 DEF ForwardEnd, CanForwardEnd
<1>5. CASE Take
  BY <1>5 DEF Take, CanTake
<1>6. CASE TakeEnd
  BY <1>6 DEF TakeEnd, CanTakeEnd
<1>7. CASE Receive
  BY <1>7 DEF Receive, CanReceive
<1>8. CASE SourceEnds
  BY <1>8 DEF SourceEnds, CanEndSource
<1>9. CASE TimerFires
  BY <1>9 DEF TimerFires
<1>10. CASE GetFails
  BY <1>10 DEF GetFails, States
<1>11. CASE Leave
  BY <1>11 DEF Leave
<1>12. CASE SourceFails
  BY <1>12 DEF SourceFails
<1>13. CASE UNCHANGED vars
  BY <1>13 DEF vars
<1>14. QED
  BY <1>1, <1>2, <1>3, <1>4, <1>5, <1>6, <1>7, <1>8, <1>9, <1>10, <1>11, <1>12, <1>13
  DEF Next, Flow

\* The streams are well-typed: in particular their buffers are bounded by the
\* high water mark, whatever the size of the object and the pace of the reader.
THEOREM StreamTypeCorrect == Spec => []TypeOK
<1>1. States /\ Flags /\ Flowing => TypeOK
  BY DEF States, Flowing, TypeOK
<1>2. QED
  BY <1>1, InitStates, NextStates, NextFlags, InitFlowing, NextFlowing, PTL DEF Spec

\* A reader that is told the end has the whole object.
THEOREM EndIsWhole == Spec => []EndMeansAll
<1>1. Flowing => EndMeansAll
  <2> SUFFICES ASSUME Flowing, reader = "end" PROVE got = Total
    BY DEF EndMeansAll
  <2>1. buf = 0 /\ passBuf = 0 /\ left = 0
    BY DEF Flowing, EndLast
  <2>2. got \in Nat
    BY StreamAssumption DEF Flowing, Bounds
  <2>3. QED
    BY <2>1, <2>2 DEF Flowing, Conserved
<1>2. QED
  BY <1>1, InitStates, NextStates, InitFlowing, NextFlowing, PTL DEF Spec

(***************************************************************************)
(* Nobody waits for nobody, and every step is one of finitely many.        *)
(***************************************************************************)
\* Who listens to whom: a reader that is reading has a lazy readable that is
\* open, waits for S3 or is fed by streams that are open, or has the end in its
\* buffer; a paused stream has a full buffer in front of it; and as long as one
\* of the two S3 streams is open the timer runs.
Listening ==
  /\ held \/ reader \in {"waiting", "reading"} => lazy = "open"
  /\ paused => buf >= High
  /\ reader = "reading" /\ ~cut =>
       asked \/ eof \/ (held /\ pass = "open" /\ (src = "open" \/ ended))
  /\ src = "open" \/ pass = "open" => timer = "armed"

LEMMA InitListening == Init => Listening
<1> SUFFICES ASSUME Init PROVE Listening
  OBVIOUS
<1>1. /\ reader \in {"waiting", "probe"} /\ (reader = "waiting" => lazy = "open")
      /\ pass = "none" /\ src = "none"
  BY DEF Init
<1>2. ~held /\ ~paused
  BY Zenon DEF Init
<1>3. QED
  BY <1>1, <1>2 DEF Listening

LEMMA NextListening ==
  States /\ Flags /\ Flowing /\ Listening /\ [Next]_vars => Listening'
<1> SUFFICES ASSUME States, Flags, Flowing, Listening, [Next]_vars PROVE Listening'
  OBVIOUS
<1> USE StreamAssumption
    DEF Listening, lazyVars, s3Vars, CloseLazy
<1>1. CASE FirstRead
  BY <1>1 DEF FirstRead
<1>2. CASE Opened
  <2>1. /\ lazy' = lazy /\ reader' = (IF reader = "probe" THEN "probed" ELSE reader)
        /\ pass' = (IF lazy = "closed" THEN "closed" ELSE "open")
        /\ src' = "open" /\ timer' = "armed"
        /\ UNCHANGED buf
    BY <1>2 DEF Opened
  <2>2. (held' <=> lazy = "open") /\ (paused' <=> paused)
    BY <1>2, Zenon DEF Opened
  <2>3. QED
    BY <2>1, <2>2 DEF States
<1>3. CASE Forward
  <2>1. /\ held /\ pass = "open"
        /\ buf' = buf + 1
        /\ UNCHANGED <<reader, lazy, eof, asked, held, pass, ended, src, timer, cut>>
    BY <1>3 DEF Forward, CanForward
  <2>2. paused' <=> ~(buf + 1 < High)
    BY <1>3, Zenon DEF Forward
  <2>3. buf \in Nat
    BY DEF Flowing, Bounds
  <2>4. paused' => buf' >= High
    BY <2>1, <2>2, <2>3
  <2>5. QED
    BY <2>1, <2>4
<1>4. CASE ForwardEnd
  BY <1>4 DEF ForwardEnd
<1>5. CASE Take
  <2>1. /\ buf' = buf - 1
        /\ UNCHANGED <<reader, lazy, eof, asked, held, pass, ended, src, timer, cut>>
    BY <1>5 DEF Take
  <2>2. paused' => ~(buf - 1 < High)
    BY <1>5, Zenon DEF Take
  <2>3. buf \in Nat
    BY DEF Flowing, Bounds
  <2>4. paused' => buf' >= High
    BY <2>1, <2>2, <2>3
  <2>5. QED
    BY <2>1, <2>4
<1>6. CASE TakeEnd
  BY <1>6 DEF TakeEnd
<1>7. CASE Receive
  BY <1>7 DEF Receive
<1>8. CASE SourceEnds
  BY <1>8 DEF SourceEnds, CanEndSource
<1>9. CASE TimerFires
  <2>1. /\ src' = "closed" /\ pass' = "closed"
        /\ UNCHANGED <<reader, lazy, buf, eof, asked, held, paused>>
    BY <1>9 DEF TimerFires
  <2>2. cut' <=> cut \/ (pass = "open" /\ lazy = "open")
    BY <1>9, Zenon DEF TimerFires
  <2>3. QED
    BY <2>1, <2>2
<1>10. CASE GetFails
  BY <1>10 DEF GetFails, States
<1>11. CASE Leave
  BY <1>11 DEF Leave
<1>12. CASE SourceFails
  <2>1. CASE held
    BY <1>12, <2>1 DEF SourceFails
  <2>2. CASE ~held
    BY <1>12, <2>2 DEF SourceFails, Flowing, EndLast
  <2>3. QED
    BY <2>1, <2>2
<1>13. CASE UNCHANGED vars
  BY <1>13 DEF vars
<1>14. QED
  BY <1>1, <1>2, <1>3, <1>4, <1>5, <1>6, <1>7, <1>8, <1>9, <1>10, <1>11, <1>12, <1>13
  DEF Next, Flow

\* A state in which backpressure has both sides waiting is not reached.
LEMMA ListeningFlows ==
  Flowing /\ Listening => NeverStuck
<1> SUFFICES ASSUME Flowing, Listening, reader = "reading", ~cut PROVE CanFlow
  BY DEF NeverStuck
<1> USE StreamAssumption DEF CanFlow
<1>1. buf \in 0..High /\ passBuf \in 0..High /\ left \in 0..Total
  BY DEF Flowing, Bounds
<1>2. CASE asked
  BY <1>2
<1>3. CASE buf > 0
  BY <1>3 DEF CanTake
<1>4. CASE eof /\ ~(buf > 0)
  BY <1>1, <1>4 DEF CanTakeEnd
<1>5. CASE held /\ pass = "open" /\ (src = "open" \/ ended) /\ ~(buf > 0)
  <2>1. ~paused
    BY <1>1, <1>5 DEF Listening
  <2>2. CASE passBuf > 0
    BY <1>5, <2>1, <2>2 DEF CanForward
  <2>3. CASE ~(passBuf > 0) /\ ended
    BY <1>1, <1>5, <2>1, <2>3 DEF CanForwardEnd
  <2>4. CASE ~(passBuf > 0) /\ src = "open"
    BY <1>1, <1>5, <2>4 DEF CanReceive, CanEndSource
  <2>5. QED
    BY <1>5, <2>2, <2>3, <2>4
<1>6. QED
  BY <1>2, <1>3, <1>4, <1>5 DEF Listening

\* Backpressure never leaves both sides waiting, for objects and buffers of every
\* size: a reader that was not cut off always has a step of the streams before it.
THEOREM ReaderIsFed == Spec => []NeverStuck
<1>1. Init => Flowing /\ Listening
  BY InitFlowing, InitListening
<1>2. QED
  BY <1>1, ListeningFlows, InitStates, NextStates, NextFlags, NextFlowing, NextListening, PTL
  DEF Spec

\* What Released and Served promise, where nothing is left to happen: when no
\* stream can move and no timer runs, both streams of S3 are closed, and a reader
\* that is still reading was cut off.
AtRest ==
  ~CanFlow /\ timer # "armed" =>
    /\ src # "open" /\ pass # "open"
    /\ reader = "reading" => cut

\* Streams that come to rest have released S3 and served the reader: no response
\* is left open by a reader that leaves early, pauses for ever or never reads.
THEOREM RestIsReleased == Spec => []AtRest
<1>1. Listening /\ NeverStuck => AtRest
  BY DEF Listening, NeverStuck, AtRest
<1>2. Init => Flowing /\ Listening
  BY InitFlowing, InitListening
<1>3. QED
  BY <1>1, <1>2, ListeningFlows, InitStates, NextStates, NextFlags, NextFlowing, NextListening, PTL
  DEF Spec

\* What is still to be done: each chunk is received, forwarded and taken, the
\* request is sent, answered, and each stream and the timer stop once.
Weight(b, w) == IF b THEN w ELSE 0

Effort ==
  3 * left + 2 * passBuf + buf
    + Weight(reader = "waiting", 5) + Weight(asked, 4)
    + Weight(src = "open", 1) + Weight(pass = "open", 1) + Weight(timer = "armed", 1)
    + Weight(lazy = "open", 1)

LEMMA EffortBound == Flowing => Effort \in 0..(3 * Total + 6)
<1> SUFFICES ASSUME Flowing PROVE Effort \in 0..(3 * Total + 6)
  OBVIOUS
<1> DEFINE Chunks == 3 * left + 2 * passBuf + buf
<1>1. Chunks \in 0..(3 * Total)
  BY StreamAssumption DEF Flowing, Bounds, Conserved
<1>2. Weight(reader = "waiting", 5) + Weight(asked, 4)
        + Weight(src = "open", 1) + Weight(pass = "open", 1) + Weight(timer = "armed", 1)
        + Weight(lazy = "open", 1) \in 0..6
  BY DEF Flowing, EndLast, Weight
<1>3. /\ Weight(reader = "waiting", 5) \in Nat /\ Weight(asked, 4) \in Nat
      /\ Weight(src = "open", 1) \in Nat /\ Weight(pass = "open", 1) \in Nat
      /\ Weight(timer = "armed", 1) \in Nat /\ Weight(lazy = "open", 1) \in Nat
  BY DEF Weight
<1>4. QED
  BY <1>1, <1>2, <1>3, StreamAssumption DEF Effort

LEMMA NextEffort == States /\ Flags /\ Flowing /\ Listening /\ Next => Effort' < Effort
<1> SUFFICES ASSUME States, Flags, Flowing, Listening, Next PROVE Effort' < Effort
  OBVIOUS
<1> USE StreamAssumption DEF Effort, Weight, lazyVars, s3Vars, CloseLazy, Flowing, Bounds
<1>1. CASE FirstRead
  BY <1>1 DEF FirstRead, EndLast
<1>2. CASE Opened
  BY <1>2 DEF Opened, EndLast
<1>3. CASE Forward
  BY <1>3 DEF Forward, CanForward
<1>4. CASE ForwardEnd
  BY <1>4 DEF ForwardEnd, CanForwardEnd
<1>5. CASE Take
  BY <1>5 DEF Take, CanTake
<1>6. CASE TakeEnd
  BY <1>6 DEF TakeEnd, CanTakeEnd, Listening
<1>7. CASE Receive
  BY <1>7 DEF Receive, CanReceive, Listening
<1>8. CASE SourceEnds
  BY <1>8 DEF SourceEnds, CanEndSource
<1>9. CASE TimerFires
  BY <1>9 DEF TimerFires
<1>10. CASE GetFails
  <2>1. asked /\ ~asked' /\ UNCHANGED <<got, buf, s3Vars>>
    BY <1>10 DEF GetFails, States
  <2>2. reader' = reader \/ reader' \in {"error", "probed"}
    BY <1>10 DEF GetFails, States
  <2>3. lazy' = lazy \/ lazy' = "closed"
    BY <1>10 DEF GetFails, States
  <2>4. QED
    BY <2>1, <2>2, <2>3
<1>11. CASE Leave
  BY <1>11 DEF Leave, Listening
<1>12. CASE SourceFails
  BY <1>12 DEF SourceFails
<1>13. QED
  BY <1>1, <1>2, <1>3, <1>4, <1>5, <1>6, <1>7, <1>8, <1>9, <1>10, <1>11, <1>12
  DEF Next, Flow

\* Every step, of the streams or of what goes wrong with them, uses up a part of
\* a finite effort: no pausing and resuming goes on for ever, and the rest that
\* RestIsReleased describes is reached after at most 3 * Total + 6 steps.
THEOREM EffortIsSpent ==
  Spec => [](Effort \in 0..(3 * Total + 6)) /\ [][Effort' < Effort]_vars
<1>1. Init => Flowing /\ Listening
  BY InitFlowing, InitListening
<1>2. States /\ Flags /\ Flowing /\ Listening /\ [Next]_vars => [Effort' < Effort]_vars
  BY NextEffort
<1>3. QED
  BY <1>1, <1>2, EffortBound, InitStates, NextStates, NextFlags, NextFlowing, NextListening, PTL
  DEF Spec
=================================================================================
