-------------------------- MODULE LiveSessionProofs ---------------------------
(***************************************************************************)
(* What holds of the browser's live session for every block, chunk and     *)
(* bound.  The argument is in four invariants, each inductive with those   *)
(* before it:                                                              *)
(*                                                                         *)
(*   BaseInv  every variable has its type, and the samples that are        *)
(*            counted are numbers;                                         *)
(*   LifeInv  which states of start and finish go with one another, with   *)
(*            the phase and with a worklet that listens: nothing fails     *)
(*            before there is a socket, nothing is captured before start   *)
(*            is over, and `end` is sent by finish, once;                  *)
(*   ViewInv  what App holds and shows follows the outcome;                *)
(*   FlowInv  samples are neither made nor lost on their way: those sent,  *)
(*            pending, in the port and in the worklet are together no more *)
(*            than were heard, and while the worklet listens those that    *)
(*            were captured are among them, before the mark of the flush   *)
(*            when it is on its way.                                       *)
(*                                                                         *)
(* How many samples are in the first messages of the port is a sum, which  *)
(* no induction computes here: FlowInv says that there is a function that  *)
(* counts them, and each step of the port finds the next such function.    *)
(***************************************************************************)
EXTENDS LiveSession, SequenceTheorems, TLAPS

\* The audio context and the worklet, as records.
ContextType == [state : {"none", "suspended", "running", "closed"},
                closer : Stoppers \cup {"none"}, ref : BOOLEAN]
WorkletType == [exists : BOOLEAN, listening : BOOLEAN, heard : 0..Block - 1]

\* start() has not opened the socket yet.
Unstarted == {"idle", "microphone", "resume", "module", "unpreparing", "throwing"}

\* No flush-complete is on its way.
Unmarked == \A p \in 1..Len(port) : port[p] # 0

\* Every variable has its type.
BaseInv ==
    /\ starting \in {"idle", "microphone", "resume", "module", "unpreparing", "throwing", "opening",
                     "unsuspending", "failing", "over"}
    /\ finishing \in {"idle", "flushing", "stopping", "sending", "over"}
    /\ stops \subseteq Stoppers
    /\ phase \in {"idle", "requesting", "connecting", "streaming", "finalizing", "complete",
                  "error", "cancelled"}
    /\ cancelled \in BOOLEAN /\ failed \in BOOLEAN /\ finalReceived \in BOOLEAN
    /\ stream \in BOOLEAN /\ asked \in BOOLEAN /\ flushed \in BOOLEAN /\ held \in BOOLEAN
    /\ tracks \in {"none", "live", "stopped"}
    /\ context \in ContextType /\ worklet \in WorkletType
    /\ socket \in {"none", "connecting", "open", "closing", "closed"}
    /\ backlog \in 0..MaxBacklog /\ pending \in Nat /\ sent \in Nat
    /\ captured \in Nat /\ total \in 0..MaxHeard
    /\ port \in Seq(Nat) /\ ends \in Nat
    /\ screen \in {"idle", "requesting", "connecting", "streaming", "finalizing", "complete",
                   "error"}

\* What the awaits of start and finish say of the phase, the socket, the worklet and `end`.
LifeInv ==
    /\ starting \in Unstarted => ~failed /\ socket = "none"
    /\ starting # "over" => finishing = "idle" /\ captured = 0
    /\ phase \in {"streaming", "finalizing"} => starting = "over"
    /\ phase = "connecting" => captured = 0
    /\ phase = "streaming" => finishing = "idle"
    /\ finishing = "idle" => ~asked /\ Unmarked
    /\ asked => Unmarked
    /\ finishing \in {"idle", "flushing"} => ~flushed
    /\ finishing # "over" => ends = 0
    /\ ends <= 1
    /\ finalReceived => ends = 1
    /\ "finish" \in stops => finishing = "stopping"
    /\ worklet.listening =>
         /\ ~Over /\ finishing \in {"idle", "flushing"}
         /\ phase \in {"connecting", "streaming", "finalizing"}
         /\ starting \notin Unstarted

\* f[i] is the number of samples in the first i messages of the port.
Counts(f, q) ==
    /\ f \in [0..Len(q) -> Nat]
    /\ f[0] = 0
    /\ \A i \in 1..Len(q) : f[i] = f[i - 1] + q[i]
    /\ \A i, j \in 0..Len(q) : i <= j => f[i] <= f[j]

\* The samples that reached the session: sent, or waiting to be.
Collectable == sent + pending

\* With f the counts of the port, what was heard and captured is still somewhere.
Flows(f) ==
    /\ Collectable + f[Len(port)] + worklet.heard <= total
    /\ captured <= total
    /\ worklet.listening =>
         /\ phase = "streaming" \/ asked => captured <= Collectable + f[Len(port)] + worklet.heard
         /\ \A p \in 1..Len(port) : port[p] = 0 => captured <= Collectable + f[p]
    /\ finishing \in {"stopping", "sending"} /\ ~Over /\ flushed => captured <= Collectable

\* Some function counts the port so.
FlowInv == \E f : Counts(f, port) /\ Flows(f)

\* What App holds and shows follows the outcome of the session.
ViewInv ==
    /\ ~(failed /\ finalReceived)
    /\ ~held /\ starting # "idle" =>
         /\ Over
         /\ screen = (IF cancelled THEN "idle" ELSE IF failed THEN "error" ELSE "complete")
    /\ held => starting # "idle" /\ screen \notin {"complete", "error", "idle"}
    /\ "fail" \in stops => failed

-------------------------------------------------------------------------------
(* The bounds are numbers. *)
LEMMA Constants ==
    /\ Block \in Nat /\ Block > 0 /\ Chunk \in Nat /\ Chunk > 0
    /\ MaxCapture \in Nat /\ MaxBacklog \in Nat /\ MaxHeard \in Nat
BY LiveAssumption

(* A muted worklet posts nothing. *)
LEMMA MuteIs ==
    ASSUME worklet \in WorkletType
    PROVE  Mute \in WorkletType /\ Mute.listening = FALSE /\ Mute.heard = 0
<1>1. 0 \in 0..Block - 1
  BY Constants
<1> QED BY <1>1 DEF Mute, WorkletType

(* What stop() does up to its await. *)
LEMMA StopIs ==
    ASSUME worklet \in WorkletType, context \in ContextType, stops \subseteq Stoppers,
           tracks \in {"none", "live", "stopped"},
           NEW who \in Stoppers, NEW has \in BOOLEAN, Stop(who, has)
    PROVE  /\ stops' = stops \cup {who} /\ stops' \subseteq Stoppers
           /\ worklet' \in WorkletType /\ ~worklet'.listening /\ worklet'.heard = 0
           /\ tracks' \in {"none", "live", "stopped"} /\ stream' \in BOOLEAN
           /\ context' \in ContextType
<1>1. worklet' \in WorkletType /\ ~worklet'.listening /\ worklet'.heard = 0
  BY MuteIs DEF Stop
<1>2. context' \in ContextType
  BY DEF Stop, ContextType
<1> QED BY <1>1, <1>2 DEF Stop

(* What it does after it. *)
LEMMA StopReturnsIs ==
    ASSUME worklet \in WorkletType, context \in ContextType, stops \subseteq Stoppers,
           NEW who, StopReturns(who)
    PROVE  /\ who \in stops /\ stops' = stops \ {who} /\ stops' \subseteq Stoppers
           /\ worklet' \in WorkletType /\ worklet'.listening = worklet.listening
           /\ worklet'.heard = worklet.heard
           /\ tracks' = tracks /\ stream' = FALSE
           /\ context' \in ContextType
<1>1. worklet' \in WorkletType /\ worklet'.listening = worklet.listening
      /\ worklet'.heard = worklet.heard
  BY DEF StopReturns, WorkletType
<1>2. context' \in ContextType
  BY DEF StopReturns, ContextType
<1> QED BY <1>1, <1>2 DEF StopReturns

\* What a step does in which the session fails.
Failing ==
    /\ failed' = TRUE /\ phase' = "error" /\ pending' = 0
    /\ cancelled' = cancelled /\ finalReceived' = finalReceived
    /\ ~worklet'.listening /\ worklet'.heard = 0
    /\ stops' = stops \cup {"fail"}

(* What fail() does: nothing when the session is over. *)
LEMMA FailIs ==
    ASSUME BaseInv, Fail
    PROVE  /\ stops' \subseteq Stoppers /\ worklet' \in WorkletType /\ context' \in ContextType
           /\ tracks' \in {"none", "live", "stopped"} /\ stream' \in BOOLEAN
           /\ pending' \in Nat /\ failed' \in BOOLEAN /\ cancelled' \in BOOLEAN
           /\ finalReceived' \in BOOLEAN
           /\ phase' \in {"idle", "requesting", "connecting", "streaming", "finalizing", "complete",
                          "error", "cancelled"}
           /\ IF Over THEN UNCHANGED <<stops, device, flags, pending>> ELSE Failing
<1>1. CASE Over
  BY <1>1 DEF Fail, BaseInv, device, flags
<1>2. CASE ~Over
  <2>1. /\ failed' = TRUE /\ phase' = "error" /\ pending' = 0
        /\ cancelled' = cancelled /\ finalReceived' = finalReceived /\ Stop("fail", stream)
    BY <1>2 DEF Fail
  <2>2. /\ stops' = stops \cup {"fail"} /\ stops' \subseteq Stoppers
        /\ worklet' \in WorkletType /\ ~worklet'.listening /\ worklet'.heard = 0
        /\ tracks' \in {"none", "live", "stopped"} /\ stream' \in BOOLEAN
        /\ context' \in ContextType
    BY <2>1, StopIs DEF BaseInv, Stoppers
  <2> QED BY <1>2, <2>1, <2>2 DEF BaseInv, Failing
<1> QED BY <1>1, <1>2

(* The types hold at first ... *)
LEMMA BaseInit == Init => BaseInv
<1> SUFFICES ASSUME Init PROVE BaseInv
  OBVIOUS
<1>1. context \in ContextType
  BY DEF Init, ContextType
<1>2. worklet \in WorkletType
  BY Constants DEF Init, WorkletType
<1>3. /\ port \in Seq(Nat) /\ stops \subseteq Stoppers /\ backlog \in 0..MaxBacklog
      /\ total \in 0..MaxHeard
  BY Constants DEF Init
<1> QED BY <1>1, <1>2, <1>3 DEF Init, BaseInv

(* The end of prepare's catch clause, up to its await. *)
LEMMA UnprepareIs ==
    ASSUME BaseInv, NEW has \in BOOLEAN, Unprepare(has)
    PROVE  /\ starting' = "unpreparing"
           /\ stops' \subseteq Stoppers /\ stops' = stops \cup {"prepare"}
           /\ worklet' \in WorkletType /\ ~worklet'.listening /\ worklet'.heard = 0
           /\ tracks' \in {"none", "live", "stopped"} /\ stream' \in BOOLEAN
           /\ context' \in ContextType
BY StopIs DEF Unprepare, BaseInv, Stoppers

(* What a message of samples brings. *)
LEMMA CollectedIs ==
    ASSUME BaseInv, Deliver
    PROVE  /\ port # <<>> /\ Head(port) \in Nat /\ Head(port) > 0 /\ Collected \in Nat
           /\ Collected = pending + Head(port)
           /\ port' = Tail(port) /\ port' \in Seq(Nat)
<1>1. port # <<>> /\ Head(port) > 0 /\ port' = Tail(port) /\ port \in Seq(Nat) /\ pending \in Nat
  BY DEF Deliver, BaseInv
<1>2. Head(port) \in Nat /\ Tail(port) \in Seq(Nat)
  BY <1>1
<1> QED BY <1>1, <1>2 DEF Collected

(* A sample heard stays in the worklet, or completes the block it posts. *)
LEMMA HearIs ==
    ASSUME BaseInv, Hear
    PROVE  /\ total < MaxHeard /\ total' = total + 1 /\ worklet.listening
           /\ worklet' \in WorkletType /\ worklet'.listening = worklet.listening
           /\ worklet.heard \in Nat
           /\ \/ port' = Append(port, Block) /\ worklet.heard + 1 = Block /\ worklet'.heard = 0
              \/ port' = port /\ worklet'.heard = worklet.heard + 1
           /\ captured' = (IF phase = "streaming" \/ (phase = "finalizing" /\ asked)
                           THEN captured + 1 ELSE captured)
           /\ UNCHANGED <<starting, finishing, stops, flags, pending, tracks, stream, context,
                          asked, net, flushed, view>>
<1>1. worklet \in WorkletType /\ worklet.heard \in 0..Block - 1 /\ worklet.heard \in Nat
  BY Constants DEF BaseInv, WorkletType
<1>2. CASE worklet.heard + 1 = Block
  <2>1. port' = Append(port, Block) /\ worklet' = [worklet EXCEPT !.heard = 0]
    BY <1>2 DEF Hear
  <2>3. 0 \in 0..Block - 1
    BY Constants
  <2>2. worklet' \in WorkletType /\ worklet'.listening = worklet.listening /\ worklet'.heard = 0
    BY <1>1, <2>1, <2>3 DEF WorkletType
  <2> QED BY <1>1, <1>2, <2>1, <2>2 DEF Hear
<1>3. CASE worklet.heard + 1 # Block
  <2>1. port' = port /\ worklet' = [worklet EXCEPT !.heard = @ + 1]
    BY <1>3 DEF Hear
  <2>2. worklet.heard + 1 \in 0..Block - 1
    BY <1>1, <1>3, Constants
  <2>3. /\ worklet' \in WorkletType /\ worklet'.listening = worklet.listening
        /\ worklet'.heard = worklet.heard + 1
    BY <1>1, <2>1, <2>2 DEF WorkletType
  <2> QED BY <1>1, <2>1, <2>3 DEF Hear
<1> QED BY <1>2, <1>3

(* The answer to a flush posts what the worklet has, then the mark. *)
LEMMA AnswerIs ==
    ASSUME BaseInv, Answer
    PROVE  /\ asked /\ asked' = FALSE
           /\ worklet' \in WorkletType /\ worklet'.listening = worklet.listening
           /\ worklet'.heard = 0 /\ worklet.heard \in Nat
           /\ port' \in Seq(Nat)
           /\ \/ worklet.heard > 0 /\ port' = Append(Append(port, worklet.heard), 0)
              \/ worklet.heard = 0 /\ port' = Append(port, 0)
           /\ UNCHANGED <<starting, finishing, stops, flags, pending, tracks, stream, context, net,
                          history, view>>
<1>1. worklet \in WorkletType /\ worklet.heard \in Nat /\ port \in Seq(Nat)
  BY DEF BaseInv, WorkletType
<1>2. /\ worklet' \in WorkletType /\ worklet'.listening = worklet.listening
      /\ worklet'.heard = 0
  <2>1. 0 \in 0..Block - 1
    BY Constants
  <2>2. worklet' = [worklet EXCEPT !.heard = 0]
    BY DEF Answer
  <2> QED BY <1>1, <2>1, <2>2 DEF WorkletType
<1> DEFINE first == IF worklet.heard > 0 THEN Append(port, worklet.heard) ELSE port
<1>3. first \in Seq(Nat)
  BY <1>1
<1>4. port' = first \o <<0>>
  BY DEF Answer
<1> HIDE DEF first
<1>5. port' = Append(first, 0)
  BY <1>3, <1>4, AppendIsConcat
<1>6. port' \in Seq(Nat)
  BY <1>3, <1>5
<1>7. \/ worklet.heard > 0 /\ port' = Append(Append(port, worklet.heard), 0)
      \/ worklet.heard = 0 /\ port' = Append(port, 0)
  BY <1>1, <1>5 DEF first
<1>8. /\ asked /\ asked' = FALSE
      /\ UNCHANGED <<starting, finishing, stops, flags, pending, tracks, stream, context, net,
                     history, view>>
  BY DEF Answer
<1> QED BY <1>1, <1>2, <1>6, <1>7, <1>8

(* What finish does when its flush resolves. *)
LEMMA ResolvedIs ==
    ASSUME BaseInv, Resolved
    PROVE  /\ finishing' = (IF Over THEN "over" ELSE "stopping")
           /\ stops' \subseteq stops \cup {"finish"} /\ stops' \subseteq Stoppers
           /\ worklet' \in WorkletType /\ context' \in ContextType
           /\ tracks' \in {"none", "live", "stopped"} /\ stream' \in BOOLEAN
           /\ IF Over THEN UNCHANGED <<stops, worklet>>
              ELSE ~worklet'.listening /\ worklet'.heard = 0
<1>1. CASE Over
  BY <1>1 DEF Resolved, BaseInv, device
<1>2. CASE ~Over
  <2>1. finishing' = "stopping" /\ Stop("finish", stream)
    BY <1>2 DEF Resolved
  <2>2. /\ stops' = stops \cup {"finish"} /\ stops' \subseteq Stoppers
        /\ worklet' \in WorkletType /\ ~worklet'.listening /\ worklet'.heard = 0
        /\ tracks' \in {"none", "live", "stopped"} /\ stream' \in BOOLEAN
        /\ context' \in ContextType
    BY <2>1, StopIs DEF BaseInv, Stoppers
  <2> QED BY <1>2, <2>1, <2>2
<1> QED BY <1>1, <1>2

(* App looks only while it holds the session. *)
LEMMA ShowIs ==
    ASSUME NEW state, Show(state)
    PROVE  screen' \in {screen, state} /\ (held => screen' = state) /\ (~held => screen' = screen)
BY DEF Show

(* The mark leaves the port, and resolves the flush that waits for it. *)
LEMMA FlushCompleteIs ==
    ASSUME BaseInv, FlushComplete
    PROVE  /\ port # <<>> /\ Head(port) = 0 /\ port' = Tail(port) /\ port' \in Seq(Nat)
           /\ \/ worklet.listening /\ finishing = "flushing" /\ Resolved /\ flushed' = TRUE
              \/ ~(worklet.listening /\ finishing = "flushing")
                 /\ UNCHANGED <<finishing, stops, device, flushed>>
           /\ UNCHANGED <<starting, flags, pending, asked, net, captured, total, view>>
<1>1. port' \in Seq(Nat)
  BY DEF BaseInv, FlushComplete
<1> QED BY <1>1 DEF FlushComplete

(* ... and every step keeps them. *)
LEMMA BaseNext == BaseInv /\ LifeInv /\ [Next]_vars => BaseInv'
<1> SUFFICES ASSUME BaseInv, LifeInv, [Next]_vars PROVE BaseInv'
  OBVIOUS
<1> USE DEF flags, device, lines, net, view, history
(* What a stop that returns leaves to be seen to. *)
<1>r. ASSUME NEW who, StopReturns(who)
      PROVE  /\ stops' \subseteq Stoppers /\ worklet' \in WorkletType
             /\ tracks' = tracks /\ stream' \in BOOLEAN /\ context' \in ContextType
  BY <1>r, StopReturnsIs DEF BaseInv
<1>s. ASSUME NEW who \in Stoppers, Stop(who, stream)
      PROVE  /\ stops' \subseteq Stoppers /\ worklet' \in WorkletType
             /\ tracks' \in {"none", "live", "stopped"} /\ stream' \in BOOLEAN
             /\ context' \in ContextType
  BY <1>s, StopIs DEF BaseInv
<1>u. ASSUME NEW has \in BOOLEAN, Unprepare(has),
             UNCHANGED <<finishing, flags, pending, lines, net, history, view>>
      PROVE  BaseInv'
  <2>1. /\ starting' = "unpreparing"
        /\ stops' \subseteq Stoppers /\ worklet' \in WorkletType
        /\ tracks' \in {"none", "live", "stopped"} /\ stream' \in BOOLEAN
        /\ context' \in ContextType
    BY <1>u, UnprepareIs
  <2> QED BY <1>u, <2>1 DEF BaseInv
<1>f. ASSUME Fail, starting' \in {starting, "over", "failing"}, finishing' \in {finishing, "over"},
             socket' \in {socket, "closed", "connecting"}, port' \in Seq(Nat),
             UNCHANGED <<asked, backlog, sent, ends, history, view>>
      PROVE  BaseInv'
  <2>1. /\ stops' \subseteq Stoppers /\ worklet' \in WorkletType /\ context' \in ContextType
        /\ tracks' \in {"none", "live", "stopped"} /\ stream' \in BOOLEAN
        /\ pending' \in Nat /\ failed' \in BOOLEAN /\ cancelled' \in BOOLEAN
        /\ finalReceived' \in BOOLEAN
        /\ phase' \in {"idle", "requesting", "connecting", "streaming", "finalizing", "complete",
                       "error", "cancelled"}
    BY <1>f, FailIs
  <2> QED BY <1>f, <2>1 DEF BaseInv
<1>p. port \in Seq(Nat) /\ stream \in BOOLEAN /\ TRUE \in BOOLEAN
  BY DEF BaseInv
<1>1. CASE Start
  <2>1. context' \in ContextType
    BY <1>1 DEF Start, ContextType
  <2> QED BY <1>1, <2>1 DEF Start, BaseInv
<1>2. CASE Granted
  <2>1. CASE cancelled
    BY <1>2, <2>1, <1>u, <1>p DEF Granted
  <2>2. CASE ~cancelled
    BY <1>2, <2>2 DEF Granted, BaseInv
  <2> QED BY <2>1, <2>2
<1>3. CASE Denied
  BY <1>3, <1>u, <1>p DEF Denied
<1>4. CASE Resumed
  <2>1. CASE context.ref /\ context.state = "running"
    BY <1>4, <2>1 DEF Resumed, BaseInv
  <2>2. CASE ~(context.ref /\ context.state = "running")
    BY <1>4, <2>2, <1>u, <1>p DEF Resumed
  <2> QED BY <2>1, <2>2
<1>5. CASE Unsupported
  BY <1>5, <1>u, <1>p DEF Unsupported
<1>6. CASE Prepared
  <2>1. CASE cancelled
    BY <1>6, <2>1, <1>u, <1>p DEF Prepared
  <2>2. CASE ~cancelled
    <3>0. 0 \in 0..Block - 1
      BY Constants
    <3>1. worklet' \in WorkletType
      <4>1. worklet' = [exists |-> TRUE, listening |-> TRUE, heard |-> 0]
        BY <1>6, <2>2 DEF Prepared
      <4> QED BY <3>0, <4>1, <1>p DEF WorkletType
    <3>2. screen' \in {screen, "connecting"}
      BY <1>6, <2>2 DEF Prepared, Show
    <3> QED BY <1>6, <2>2, <3>1, <3>2 DEF Prepared, BaseInv
  <2> QED BY <2>1, <2>2
<1>7. CASE Unprepared
  <2>1. StopReturns("prepare")
    BY <1>7 DEF Unprepared
  <2>2. /\ stops' \subseteq Stoppers /\ worklet' \in WorkletType
        /\ tracks' = tracks /\ stream' \in BOOLEAN /\ context' \in ContextType
    BY <2>1, <1>r
  <2> QED BY <1>7, <2>2 DEF Unprepared, BaseInv
<1>8. CASE Thrown
  BY <1>8, <1>f, <1>p DEF Thrown, Throw
<1>9. CASE Opened
  <2>1. screen' \in {screen, "streaming"}
    BY <1>9 DEF Opened, Stream, Show
  <2> QED BY <1>9, <2>1 DEF Opened, Stream, BaseInv
<1>10. ASSUME NEW how \in {"closed", "connecting"}, NotOpened(how) PROVE BaseInv'
  BY <1>10, <1>f, <1>p DEF NotOpened, Throw
<1>11. CASE Unsuspended
  <2>1. screen' \in {screen, "streaming"}
    BY <1>11 DEF Unsuspended, Stream, Show
  <2> QED BY <1>11, <2>1 DEF Unsuspended, Stream, BaseInv
<1>12. CASE NotStarted
  BY <1>12, <1>f, <1>p DEF NotStarted, Throw
<1>13. CASE Hear
  <2>1. /\ total < MaxHeard /\ total' = total + 1 /\ worklet' \in WorkletType
        /\ port' = port \/ port' = Append(port, Block)
        /\ captured' = captured \/ captured' = captured + 1
        /\ UNCHANGED <<starting, finishing, stops, flags, pending, tracks, stream, context,
                       asked, net, flushed, view>>
    BY <1>13, HearIs
  <2>2. total' \in 0..MaxHeard
    BY <2>1, Constants DEF BaseInv
  <2>3. captured' \in Nat
    BY <2>1 DEF BaseInv
  <2>4. port' \in Seq(Nat)
    BY <1>p, <2>1, Constants
  <2> QED BY <2>1, <2>2, <2>3, <2>4 DEF BaseInv
<1>14. CASE Answer
  <2>1. /\ asked' = FALSE /\ worklet' \in WorkletType /\ port' \in Seq(Nat)
        /\ UNCHANGED <<starting, finishing, stops, flags, pending, tracks, stream, context, net,
                       history, view>>
    BY <1>14, AnswerIs
  <2>2. asked' \in BOOLEAN
    BY <2>1
  <2> QED BY <2>1, <2>2 DEF BaseInv
<1>15. CASE Wipe
  <2>1. port' \in Seq(Nat)
    BY <1>15, CollectedIs DEF Wipe
  <2> QED BY <1>15, <2>1 DEF Wipe, BaseInv
<1>16. CASE Keep
  <2>1. port' \in Seq(Nat) /\ Collected \in Nat
    BY <1>16, CollectedIs DEF Keep
  <2> QED BY <1>16, <2>1 DEF Keep, BaseInv
<1>17. CASE SendChunk
  <2>0. port' \in Seq(Nat) /\ Collected \in Nat
    BY <1>17, CollectedIs DEF SendChunk
  <2>1. pending' = 0 /\ sent' = sent + Collected /\ backlog' = backlog + Collected
        /\ ~(backlog + Collected > MaxBacklog)
    BY <1>17 DEF SendChunk, Send, Backpressure
  <2>2. sent' \in Nat /\ backlog' \in 0..MaxBacklog
    <3>1. sent \in Nat /\ backlog \in Nat
      BY Constants DEF BaseInv
    <3> QED BY <2>0, <2>1, <3>1, Constants
  <2>3. /\ phase' \in {phase, "finalizing"} /\ finishing' \in {finishing, "flushing"}
        /\ asked' \in BOOLEAN /\ screen' \in {screen, "finalizing"}
    <3>1. worklet.exists \in BOOLEAN /\ asked \in BOOLEAN
      BY DEF BaseInv, WorkletType
    <3> QED BY <1>17, <3>1 DEF SendChunk, BeginFinish, Show
  <2>4. UNCHANGED <<starting, stops, cancelled, failed, finalReceived, device, socket, ends,
                    history, held>>
    BY <1>17 DEF SendChunk
  <2> QED BY <2>0, <2>1, <2>2, <2>3, <2>4 DEF BaseInv
<1>18. CASE Overflow
  <2>1. port' \in Seq(Nat)
    BY <1>18, CollectedIs DEF Overflow
  <2> QED BY <1>18, <2>1, <1>f DEF Overflow
<1>19. CASE Finish
  <2>1. worklet.exists \in BOOLEAN /\ screen' \in {screen, "finalizing"}
    BY <1>19 DEF Finish, BeginFinish, Show, WorkletType, BaseInv
  <2> QED BY <1>19, <2>1 DEF Finish, BeginFinish, BaseInv
<1>v. ASSUME Resolved
      PROVE  /\ finishing' \in {"over", "stopping"}
             /\ stops' \subseteq Stoppers /\ worklet' \in WorkletType /\ context' \in ContextType
             /\ tracks' \in {"none", "live", "stopped"} /\ stream' \in BOOLEAN
  BY <1>v, ResolvedIs
<1>20. CASE FlushComplete
  <2>1. /\ port' \in Seq(Nat)
        /\ (Resolved /\ flushed' = TRUE) \/ UNCHANGED <<finishing, stops, device, flushed>>
        /\ UNCHANGED <<starting, flags, pending, asked, net, captured, total, view>>
    BY <1>20, FlushCompleteIs
  <2>2. CASE Resolved /\ flushed' = TRUE
    BY <2>1, <2>2, <1>v DEF BaseInv
  <2>3. CASE UNCHANGED <<finishing, stops, device, flushed>>
    BY <2>1, <2>3 DEF BaseInv
  <2> QED BY <2>1, <2>2, <2>3
<1>21. CASE FlushTimeout
  <2>1. Resolved /\ UNCHANGED <<starting, flags, pending, lines, net, history, view>>
    BY <1>21 DEF FlushTimeout
  <2> QED BY <2>1, <1>v DEF BaseInv
<1>22. CASE AfterStop
  <2>1. /\ StopReturns("finish") /\ finishing' = "sending"
        /\ UNCHANGED <<starting, flags, pending, lines, net, history, view>>
    BY <1>22 DEF AfterStop, FinishStopped
  <2>2. /\ stops' \subseteq Stoppers /\ worklet' \in WorkletType
        /\ tracks' = tracks /\ stream' \in BOOLEAN /\ context' \in ContextType
    BY <2>1, <1>r
  <2> QED BY <2>1, <2>2 DEF BaseInv
<1>23. CASE SendEnd
  <2>1. /\ sent' = sent + pending /\ backlog' = backlog + pending /\ pending' = 0
        /\ pending > 0 => ~(backlog + pending > MaxBacklog)
        /\ ends' = ends + 1 /\ finishing' = "over"
        /\ UNCHANGED <<starting, stops, flags, device, lines, socket, history, view>>
    BY <1>23 DEF SendEnd, Send, Backpressure
  <2>2. sent' \in Nat /\ backlog' \in 0..MaxBacklog /\ ends' \in Nat
    <3>1. sent \in Nat /\ backlog \in 0..MaxBacklog /\ pending \in Nat /\ ends \in Nat
      BY DEF BaseInv
    <3> QED BY <2>1, <3>1, Constants
  <2>3. phase' = phase /\ cancelled' = cancelled /\ failed' = failed
        /\ finalReceived' = finalReceived
    BY <1>23 DEF SendEnd
  <2> QED BY <2>1, <2>2, <2>3 DEF BaseInv
<1>24. CASE NoEnd
  <2>1. UNCHANGED <<stops, device, flags, pending>> \/ Fail
    BY <1>24 DEF NoEnd
  <2>2. finishing' = "over" /\ UNCHANGED <<starting, lines, net, history, view>>
    BY <1>24 DEF NoEnd
  <2>3. CASE UNCHANGED <<stops, device, flags, pending>>
    BY <2>2, <2>3 DEF BaseInv
  <2>4. CASE Fail
    BY <2>2, <2>4, <1>f, <1>p
  <2> QED BY <2>1, <2>3, <2>4
<1>25. CASE Cancel
  <2>1. Stop("cancel", stream) /\ "cancel" \in Stoppers
    BY <1>25 DEF Cancel, Stoppers
  <2>2. /\ stops' \subseteq Stoppers /\ worklet' \in WorkletType
        /\ tracks' \in {"none", "live", "stopped"} /\ stream' \in BOOLEAN
        /\ context' \in ContextType
    BY <2>1, <1>s
  <2> QED BY <1>25, <2>2 DEF Cancel, BaseInv
<1>26. CASE CancelStopped
  <2>1. /\ StopReturns("cancel") /\ socket' \in {socket, "closing"}
        /\ UNCHANGED <<starting, finishing, flags, pending, lines, backlog, sent, ends, history,
                       view>>
    BY <1>26 DEF CancelStopped, Closing
  <2>2. /\ stops' \subseteq Stoppers /\ worklet' \in WorkletType
        /\ tracks' = tracks /\ stream' \in BOOLEAN /\ context' \in ContextType
    BY <2>1, <1>r
  <2> QED BY <2>1, <2>2 DEF BaseInv
<1>27. CASE ServerError
  BY <1>27, <1>f, <1>p DEF ServerError
<1>28. CASE FinalResult
  <2>1. Stop("final", stream) /\ "final" \in Stoppers /\ screen' \in {screen, "complete"}
    BY <1>28 DEF FinalResult, Stoppers, Show
  <2>2. /\ stops' \subseteq Stoppers /\ worklet' \in WorkletType
        /\ tracks' \in {"none", "live", "stopped"} /\ stream' \in BOOLEAN
        /\ context' \in ContextType
    BY <2>1, <1>s
  <2>3. /\ finalReceived' = TRUE /\ phase' = "complete" /\ pending' = 0 /\ held' = FALSE
        /\ UNCHANGED <<starting, finishing, cancelled, failed, lines, net, history>>
    BY <1>28 DEF FinalResult
  <2>4. finalReceived' \in BOOLEAN /\ held' \in BOOLEAN /\ pending' \in Nat
    BY <2>3
  <2> QED BY <2>1, <2>2, <2>3, <2>4 DEF BaseInv
<1>29. CASE FinalStopped
  <2>1. /\ StopReturns("final")
        /\ UNCHANGED <<starting, finishing, flags, pending, lines, net, history, view>>
    BY <1>29 DEF FinalStopped
  <2>2. /\ stops' \subseteq Stoppers /\ worklet' \in WorkletType
        /\ tracks' = tracks /\ stream' \in BOOLEAN /\ context' \in ContextType
    BY <2>1, <1>r
  <2> QED BY <2>1, <2>2 DEF BaseInv
<1>30. CASE FailShown
  <2>1. /\ StopReturns("fail") /\ socket' \in {socket, "closing"}
        /\ screen' \in {screen, "error"} /\ (held' = held \/ held' = FALSE)
        /\ starting' \in {starting, "over"}
        /\ UNCHANGED <<finishing, flags, pending, lines, backlog, sent, ends, history>>
    BY <1>30 DEF FailShown, Closing, Show
  <2>3. held' \in BOOLEAN /\ pending' \in Nat
    BY <2>1 DEF BaseInv
  <2>2. /\ stops' \subseteq Stoppers /\ worklet' \in WorkletType
        /\ tracks' = tracks /\ stream' \in BOOLEAN /\ context' \in ContextType
    BY <2>1, <1>r
  <2> QED BY <2>1, <2>2, <2>3 DEF BaseInv
<1>31. CASE SocketClose
  BY <1>31, <1>f, <1>p DEF SocketClose
<1>32. CASE ServerCloses
  BY <1>32 DEF ServerCloses, BaseInv
<1>33. CASE Drain
  BY <1>33, Constants DEF Drain, BaseInv
<1>34. CASE Suspend \/ Run \/ CloseContext
  <2>1. context \in ContextType
    BY DEF BaseInv
  <2>2. context' \in ContextType
    BY <1>34, <2>1 DEF Suspend, Run, CloseContext, ContextType
  <2> QED BY <1>34, <2>2 DEF Suspend, Run, CloseContext, BaseInv
<1>35. CASE UNCHANGED vars
  BY <1>35 DEF vars, BaseInv
<1> QED BY <1>1, <1>2, <1>3, <1>4, <1>5, <1>6, <1>7, <1>8, <1>9, <1>10, <1>11, <1>12, <1>13,
           <1>14, <1>15, <1>16, <1>17, <1>18, <1>19, <1>20, <1>21, <1>22, <1>23, <1>24, <1>25,
           <1>26, <1>27, <1>28, <1>29, <1>30, <1>31, <1>32, <1>33, <1>34, <1>35
        DEF Next, User, Page, Browser, Server

-------------------------------------------------------------------------------
\* No message of q is the mark.
Clean(q) == \A p \in 1..Len(q) : q[p] # 0

(* What is left when the first message leaves has no mark if there was none. *)
LEMMA CleanTail ==
    ASSUME NEW q \in Seq(Nat), q # <<>>, Clean(q)
    PROVE  Clean(Tail(q))
BY DEF Clean

(* A message of samples that comes is no mark. *)
LEMMA CleanAppend ==
    ASSUME NEW q \in Seq(Nat), NEW n \in Nat, n > 0, Clean(q)
    PROVE  Clean(Append(q, n))
BY DEF Clean

(* The session's life at first. *)
LEMMA LifeInit == Init => LifeInv
BY DEF Init, LifeInv, Unstarted, Unmarked, Over

(* Every step keeps the session's life. *)
LEMMA LifeNext == BaseInv /\ LifeInv /\ [Next]_vars => LifeInv'
<1> SUFFICES ASSUME BaseInv, LifeInv, [Next]_vars PROVE LifeInv'
  OBVIOUS
<1> USE DEF flags, device, lines, net, view, history
<1>p. /\ port \in Seq(Nat) /\ worklet \in WorkletType /\ ends \in Nat
      /\ Unmarked = Clean(port) /\ Unmarked' = Clean(port')
  BY DEF BaseInv, Unmarked, Clean
(* Nothing of the session's life changes. *)
<1>q. ASSUME UNCHANGED <<starting, finishing, flags, asked, flushed, ends>>,
             Unmarked => Unmarked',
             captured' = captured
               \/ (captured' = captured + 1 /\ phase \in {"streaming", "finalizing"}),
             worklet'.listening => worklet.listening,
             "finish" \in stops' => "finish" \in stops,
             starting \in Unstarted => socket' = socket
      PROVE  LifeInv'
  BY <1>q DEF LifeInv, Over
(* A failure. *)
<1>f. ASSUME Fail, starting \notin Unstarted \/ starting' \notin Unstarted,
             starting' \in {starting, "over", "failing"},
             starting' # "over" => starting # "over",
             finishing' = finishing \/ (finishing = "sending" /\ finishing' = "over"),
             Unmarked => Unmarked',
             UNCHANGED <<asked, flushed, captured, ends>>
      PROVE  LifeInv'
  <2>1. starting' \notin Unstarted
    BY <1>f DEF Unstarted
  <2>2. CASE Over
    <3>1. UNCHANGED <<stops, worklet, flags>>
      BY <1>f, <2>2, FailIs
    <3> QED BY <1>f, <2>1, <2>2, <3>1 DEF LifeInv, Over, Unstarted
  <2>3. CASE ~Over
    <3>1. Failing
      BY <1>f, <2>3, FailIs
    <3> QED BY <1>f, <2>1, <2>3, <3>1 DEF LifeInv, Over, Failing
  <2> QED BY <2>2, <2>3
(* A session that is not open is taken back. *)
<1>u. ASSUME NEW has \in BOOLEAN, Unprepare(has), starting \in Unstarted,
             UNCHANGED <<finishing, flags, pending, lines, net, history, view>>
      PROVE  LifeInv'
  <2>1. starting' = "unpreparing" /\ ~worklet'.listening /\ stops' = stops \cup {"prepare"}
    BY <1>u, UnprepareIs
  <2> QED BY <1>u, <2>1, <1>p DEF LifeInv, Unstarted, Over
<1>b. stream \in BOOLEAN /\ TRUE \in BOOLEAN
  BY DEF BaseInv
<1>r. ASSUME NEW who, StopReturns(who)
      PROVE  worklet'.listening = worklet.listening /\ who \in stops /\ stops' = stops \ {who}
  BY <1>r, StopReturnsIs DEF BaseInv
<1>s. ASSUME NEW who \in Stoppers, Stop(who, stream)
      PROVE  ~worklet'.listening /\ stops' = stops \cup {who}
  BY <1>s, StopIs DEF BaseInv
<1>1. CASE Start
  BY <1>1, <1>p DEF Start, LifeInv, Unstarted, Over
<1>2. CASE Granted
  <2>1. CASE cancelled
    BY <1>2, <2>1, <1>u, <1>b DEF Granted, Unstarted
  <2>2. CASE ~cancelled
    BY <1>2, <2>2, <1>p DEF Granted, LifeInv, Unstarted, Over
  <2> QED BY <2>1, <2>2
<1>3. CASE Denied
  BY <1>3, <1>u, <1>b DEF Denied, Unstarted
<1>4. CASE Resumed
  <2>1. CASE context.ref /\ context.state = "running"
    BY <1>4, <2>1, <1>p DEF Resumed, LifeInv, Unstarted, Over
  <2>2. CASE ~(context.ref /\ context.state = "running")
    BY <1>4, <2>2, <1>u, <1>b DEF Resumed, Unstarted
  <2> QED BY <2>1, <2>2
<1>5. CASE Unsupported
  BY <1>5, <1>u, <1>b DEF Unsupported, Unstarted
<1>6. CASE Prepared
  <2>1. CASE cancelled
    BY <1>6, <2>1, <1>u, <1>b DEF Prepared, Unstarted
  <2>2. CASE ~cancelled
    <3>1. /\ starting = "module" /\ starting' = "opening" /\ phase' = "connecting"
          /\ UNCHANGED <<finishing, stops, cancelled, failed, finalReceived, lines, ends, history>>
      BY <1>6, <2>2 DEF Prepared
    <3>2. ~Over
      BY <2>2, <3>1 DEF LifeInv, Unstarted, Over
    <3> QED BY <3>1, <3>2, <1>p DEF LifeInv, Unstarted, Over
  <2> QED BY <2>1, <2>2
<1>7. CASE Unprepared
  <2>1. ~worklet.listening
    BY <1>7 DEF Unprepared, LifeInv, Unstarted
  <2>2. ~worklet'.listening /\ ("finish" \in stops' => "finish" \in stops)
    BY <1>7, <2>1, <1>r DEF Unprepared
  <2> QED BY <1>7, <2>2, <1>p DEF Unprepared, LifeInv, Unstarted, Over
<1>8. CASE Thrown
  <2>1. /\ Fail /\ starting = "throwing" /\ starting' \in {"over", "failing"}
        /\ UNCHANGED <<finishing, lines, net, history, view>>
    BY <1>8 DEF Thrown, Throw
  <2> QED BY <2>1, <1>f, <1>p DEF Unstarted
<1>t. ASSUME Stream, starting \in {"opening", "unsuspending"},
             UNCHANGED <<finishing, stops, worklet, lines, ends, history>>
      PROVE  LifeInv'
  BY <1>t, <1>p DEF Stream, LifeInv, Unstarted, Over
<1>9. CASE Opened
  <2>1. CASE context.state = "running"
    BY <1>9, <2>1, <1>t DEF Opened
  <2>2. CASE context.state # "running"
    <3>1. /\ starting = "opening" /\ starting' = "unsuspending"
          /\ UNCHANGED <<finishing, stops, flags, worklet, lines, ends, history>>
      BY <1>9, <2>2 DEF Opened
    <3> QED BY <3>1, <1>p DEF LifeInv, Unstarted, Over
  <2> QED BY <2>1, <2>2
<1>10. ASSUME NEW how \in {"closed", "connecting"}, NotOpened(how) PROVE LifeInv'
  <2>1. /\ Fail /\ starting = "opening" /\ starting' \in {"over", "failing"}
        /\ UNCHANGED <<finishing, lines, ends, history>>
    BY <1>10 DEF NotOpened, Throw
  <2> QED BY <2>1, <1>f, <1>p DEF Unstarted
<1>11. CASE Unsuspended
  BY <1>11, <1>t DEF Unsuspended
<1>12. CASE NotStarted
  <2>1. /\ Fail /\ starting = "unsuspending" /\ starting' \in {"over", "failing"}
        /\ UNCHANGED <<finishing, lines, ends, history>>
    BY <1>12 DEF NotStarted, Throw
  <2> QED BY <2>1, <1>f, <1>p DEF Unstarted
<1>13. CASE Hear
  <2>1. /\ worklet'.listening = worklet.listening
        /\ port' = port \/ port' = Append(port, Block)
        /\ UNCHANGED <<starting, finishing, stops, flags, asked, net, flushed>>
        /\ captured' = (IF phase = "streaming" \/ (phase = "finalizing" /\ asked)
                        THEN captured + 1 ELSE captured)
    BY <1>13, HearIs
  <2>2. Unmarked => Unmarked'
    BY <1>p, <2>1, CleanAppend, Constants
  <2> QED BY <2>1, <2>2, <1>q
<1>14. CASE Answer
  <2>1. /\ asked /\ asked' = FALSE /\ worklet'.listening = worklet.listening
        /\ UNCHANGED <<starting, finishing, stops, flags, net, history>>
    BY <1>14, AnswerIs
  <2>2. finishing # "idle"
    BY <2>1 DEF LifeInv
  <2> QED BY <2>1, <2>2, <1>p DEF LifeInv, Over
<1>d. ASSUME Deliver
      PROVE  Unmarked => Unmarked'
  BY <1>d, <1>p, CleanTail, CollectedIs
<1>15. CASE Wipe
  BY <1>15, <1>d, <1>q DEF Wipe
<1>16. CASE Keep
  BY <1>16, <1>d, <1>q DEF Keep
(* finish() begins. *)
<1>e. ASSUME phase = "streaming", BeginFinish, Unmarked => Unmarked',
             UNCHANGED <<starting, stops, cancelled, failed, finalReceived, worklet, socket, ends,
                         history>>
      PROVE  LifeInv'
  <2>1. /\ phase' = "finalizing" /\ finishing' = "flushing" /\ finishing = "idle" /\ Unmarked
        /\ starting = "over"
    BY <1>e DEF BeginFinish, LifeInv
  <2> QED BY <1>e, <2>1, <1>p DEF LifeInv, Unstarted, Over
<1>17. CASE SendChunk
  <2>1. /\ Deliver /\ socket' = socket
        /\ UNCHANGED <<starting, stops, cancelled, failed, finalReceived, worklet, ends, history>>
        /\ \/ phase = "streaming" /\ BeginFinish
           \/ UNCHANGED <<phase, finishing, asked, screen>>
    BY <1>17 DEF SendChunk
  <2> QED BY <2>1, <1>d, <1>e, <1>q
<1>18. CASE Overflow
  <2>1. /\ Deliver /\ Fail /\ worklet.listening
        /\ UNCHANGED <<starting, finishing, asked, ends, history>>
    BY <1>18 DEF Overflow, Accepts
  <2>2. starting \notin Unstarted
    BY <2>1 DEF LifeInv
  <2> QED BY <2>1, <2>2, <1>d, <1>f
<1>19. CASE Finish
  <2>1. /\ phase = "streaming" /\ BeginFinish /\ port' = port
        /\ UNCHANGED <<starting, stops, cancelled, failed, finalReceived, worklet, socket, ends,
                         history>>
    BY <1>19 DEF Finish
  <2> QED BY <2>1, <1>p, <1>e
(* The flush of finish() resolves. *)
<1>v. ASSUME Resolved, finishing = "flushing", Unmarked => Unmarked',
             UNCHANGED <<starting, flags, asked, net, captured>>
      PROVE  LifeInv'
  <2>1. /\ finishing' = (IF Over THEN "over" ELSE "stopping")
        /\ IF Over THEN UNCHANGED <<stops, worklet>> ELSE ~worklet'.listening
    BY <1>v, ResolvedIs
  <2>2. ~worklet'.listening /\ Over' = Over
    <3>1. Over => ~worklet.listening
      BY DEF LifeInv
    <3> QED BY <1>v, <2>1, <3>1 DEF Over
  <2>3. /\ finishing' \notin {"idle", "flushing"} /\ starting = "over"
        /\ phase # "streaming" /\ ends = 0
    BY <1>v, <2>1 DEF LifeInv
  <2>4. "finish" \in stops' => finishing' = "stopping"
    BY <1>v, <2>1 DEF LifeInv
  <2> QED BY <1>v, <2>2, <2>3, <2>4 DEF LifeInv, Unstarted
<1>20. CASE FlushComplete
  <2>1. /\ port # <<>> /\ port' = Tail(port)
        /\ \/ finishing = "flushing" /\ Resolved
           \/ UNCHANGED <<finishing, stops, device, flushed>>
        /\ UNCHANGED <<starting, flags, pending, asked, net, captured, total, view>>
    BY <1>20, FlushCompleteIs
  <2>2. Unmarked => Unmarked'
    BY <2>1, <1>p, CleanTail
  <2> QED BY <2>1, <2>2, <1>v, <1>q
<1>21. CASE FlushTimeout
  BY <1>21, <1>v, <1>p DEF FlushTimeout
<1>22. CASE AfterStop
  <2>1. /\ StopReturns("finish") /\ finishing' = "sending"
        /\ UNCHANGED <<starting, flags, pending, lines, net, history, view>>
    BY <1>22 DEF AfterStop, FinishStopped
  <2>2. /\ finishing = "stopping" /\ worklet'.listening = worklet.listening
        /\ stops' = stops \ {"finish"}
    BY <2>1, <1>r DEF LifeInv
  <2> QED BY <2>1, <2>2, <1>p DEF LifeInv, Unstarted, Over
<1>23. CASE SendEnd
  <2>1. /\ finishing = "sending" /\ finishing' = "over" /\ ends' = ends + 1 /\ ~Over
        /\ UNCHANGED <<starting, stops, flags, worklet, lines, socket, history>>
    BY <1>23 DEF SendEnd
  <2>2. ends' = 1 /\ ~worklet.listening /\ phase # "streaming" /\ starting = "over"
    BY <2>1 DEF LifeInv
  <2> QED BY <2>1, <2>2, <1>p DEF LifeInv, Unstarted, Over
<1>24. CASE NoEnd
  <2>1. UNCHANGED <<stops, device, flags, pending>> \/ Fail
    BY <1>24 DEF NoEnd
  <2>2. /\ finishing = "sending" /\ finishing' = "over"
        /\ UNCHANGED <<starting, lines, net, history, view>>
    BY <1>24 DEF NoEnd
  <2>3. starting = "over" /\ ~worklet.listening /\ phase # "streaming"
    BY <2>2 DEF LifeInv
  <2>4. CASE UNCHANGED <<stops, device, flags, pending>>
    BY <2>2, <2>3, <2>4, <1>p DEF LifeInv, Unstarted, Over
  <2>5. CASE Fail
    BY <2>2, <2>3, <2>5, <1>f, <1>p DEF Unstarted
  <2> QED BY <2>1, <2>4, <2>5
<1>25. CASE Cancel
  <2>1. Stop("cancel", stream) /\ "cancel" \in Stoppers
    BY <1>25 DEF Cancel, Stoppers
  <2>2. ~worklet'.listening /\ ("finish" \in stops' => "finish" \in stops)
    BY <2>1, <1>s
  <2>3. /\ phase' = "cancelled" /\ starting' = (IF starting = "opening" THEN "over" ELSE starting)
        /\ UNCHANGED <<finishing, failed, finalReceived, lines, net, history>>
    BY <1>25 DEF Cancel
  <2> QED BY <2>2, <2>3, <1>p DEF LifeInv, Unstarted, Over
<1>26. CASE CancelStopped
  <2>1. /\ StopReturns("cancel") /\ socket' = Closing
        /\ UNCHANGED <<starting, finishing, flags, lines, ends, history>>
    BY <1>26 DEF CancelStopped
  <2>2. worklet'.listening = worklet.listening /\ ("finish" \in stops' => "finish" \in stops)
    BY <2>1, <1>r
  <2>3. starting \in Unstarted => socket' = socket
    BY <2>1 DEF LifeInv, Closing
  <2> QED BY <2>1, <2>2, <2>3, <1>q, <1>p
<1>27. CASE ServerError
  <2>1. socket = "open" /\ Fail /\ UNCHANGED <<starting, finishing, lines, ends, history>>
    BY <1>27 DEF ServerError
  <2>2. starting \notin Unstarted
    BY <2>1 DEF LifeInv
  <2> QED BY <2>1, <2>2, <1>f, <1>p
<1>28. CASE FinalResult
  <2>1. Stop("final", stream) /\ "final" \in Stoppers
    BY <1>28 DEF FinalResult, Stoppers
  <2>2. ~worklet'.listening /\ ("finish" \in stops' => "finish" \in stops)
    BY <2>1, <1>s
  <2>3. /\ ends > 0 /\ phase' = "complete"
        /\ UNCHANGED <<starting, finishing, failed, cancelled, lines, net, history>>
    BY <1>28 DEF FinalResult
  <2>4. ends = 1 /\ finishing = "over"
    BY <2>3, <1>p DEF LifeInv
  <2> QED BY <2>2, <2>3, <2>4, <1>p DEF LifeInv, Over
<1>29. CASE FinalStopped
  <2>1. worklet'.listening = worklet.listening /\ ("finish" \in stops' => "finish" \in stops)
    BY <1>29, <1>r DEF FinalStopped
  <2> QED BY <1>29, <2>1, <1>q, <1>p DEF FinalStopped
<1>30. CASE FailShown
  <2>1. /\ StopReturns("fail") /\ socket' = Closing
        /\ starting' \in {starting, "over"} /\ (starting' # "over" => starting # "over")
        /\ UNCHANGED <<finishing, flags, pending, lines, ends, history>>
    BY <1>30 DEF FailShown
  <2>2. worklet'.listening = worklet.listening /\ ("finish" \in stops' => "finish" \in stops)
    BY <2>1, <1>r
  <2>3. starting \in Unstarted => socket' = socket
    BY <2>1 DEF LifeInv, Closing
  <2> QED BY <2>1, <2>2, <2>3, <1>p DEF LifeInv, Over, Unstarted
<1>31. CASE SocketClose
  <2>1. Attached /\ Fail /\ UNCHANGED <<starting, finishing, lines, ends, history>>
    BY <1>31 DEF SocketClose
  <2>2. starting \notin Unstarted
    BY <2>1 DEF LifeInv, Attached
  <2> QED BY <2>1, <2>2, <1>f, <1>p
<1>32. CASE ServerCloses
  <2>1. /\ socket = "open"
        /\ UNCHANGED <<starting, finishing, stops, flags, worklet, lines, ends, history>>
    BY <1>32 DEF ServerCloses
  <2>2. starting \notin Unstarted
    BY <2>1 DEF LifeInv
  <2> QED BY <2>1, <2>2, <1>q, <1>p
<1>33. CASE Drain
  BY <1>33, <1>q, <1>p DEF Drain
<1>34. CASE Suspend \/ Run \/ CloseContext
  BY <1>34, <1>q, <1>p DEF Suspend, Run, CloseContext
<1>35. CASE UNCHANGED vars
  BY <1>35, <1>q, <1>p DEF vars
<1> QED BY <1>1, <1>2, <1>3, <1>4, <1>5, <1>6, <1>7, <1>8, <1>9, <1>10, <1>11, <1>12, <1>13,
           <1>14, <1>15, <1>16, <1>17, <1>18, <1>19, <1>20, <1>21, <1>22, <1>23, <1>24, <1>25,
           <1>26, <1>27, <1>28, <1>29, <1>30, <1>31, <1>32, <1>33, <1>34, <1>35
        DEF Next, User, Page, Browser, Server

-------------------------------------------------------------------------------
(* What App shows at first. *)
LEMMA ViewInit == Init => ViewInv
BY DEF Init, ViewInv, Over

(* Every step keeps what App shows. *)
LEMMA ViewNext == BaseInv /\ LifeInv /\ ViewInv /\ [Next]_vars => ViewInv'
<1> SUFFICES ASSUME BaseInv, LifeInv, ViewInv, [Next]_vars PROVE ViewInv'
  OBVIOUS
<1> USE DEF flags, device, lines, net, view, history
(* The outcome stays as it is; what is shown of it changes while App holds the session. *)
<1>q. ASSUME UNCHANGED <<cancelled, failed, finalReceived, held>>,
             screen' = screen
               \/ \E state \in {"requesting", "connecting", "streaming", "finalizing"} :
                    Show(state),
             starting' = starting \/ (starting # "idle" /\ starting' # "idle"),
             "fail" \in stops' => "fail" \in stops
      PROVE  ViewInv'
  <2>1. screen' = screen
        \/ (held /\ screen' \in {"requesting", "connecting", "streaming", "finalizing"})
    BY <1>q DEF Show
  <2>2. Over' = Over
    BY <1>q DEF Over
  <2> QED BY <1>q, <2>1, <2>2 DEF ViewInv
(* A failure, of a session App holds. *)
<1>f. ASSUME Fail, UNCHANGED view, starting # "idle", starting' # "idle"
      PROVE  ViewInv'
  <2>1. CASE Over
    <3>1. UNCHANGED <<stops, flags>>
      BY <1>f, <2>1, FailIs
    <3> QED BY <1>f, <3>1 DEF ViewInv, Over
  <2>2. CASE ~Over
    <3>1. Failing /\ held
      BY <1>f, <2>2, FailIs DEF ViewInv
    <3> QED BY <1>f, <2>2, <3>1 DEF ViewInv, Over, Failing
  <2> QED BY <2>1, <2>2
<1>b. stream \in BOOLEAN /\ TRUE \in BOOLEAN
  BY DEF BaseInv
<1>u. ASSUME NEW has \in BOOLEAN, Unprepare(has), starting # "idle", UNCHANGED <<flags, view>>
      PROVE  ViewInv'
  <2>1. starting' = "unpreparing" /\ stops' = stops \cup {"prepare"}
    BY <1>u, UnprepareIs
  <2> QED BY <1>u, <2>1, <1>q
<1>r. ASSUME NEW who, StopReturns(who)
      PROVE  who \in stops /\ stops' = stops \ {who}
  BY <1>r, StopReturnsIs DEF BaseInv
<1>s. ASSUME NEW who \in Stoppers, Stop(who, stream)
      PROVE  stops' = stops \cup {who}
  BY <1>s, StopIs DEF BaseInv
(* A session with a socket has been started. *)
<1>i. socket # "none" \/ worklet.listening \/ finishing # "idle" => starting # "idle"
  BY DEF LifeInv, Unstarted
<1>1. CASE Start
  BY <1>1 DEF Start, ViewInv, Over
<1>2. CASE Granted
  <2>1. CASE cancelled
    BY <1>2, <2>1, <1>u, <1>b DEF Granted
  <2>2. CASE ~cancelled
    BY <1>2, <2>2, <1>q DEF Granted
  <2> QED BY <2>1, <2>2
<1>3. CASE Denied
  BY <1>3, <1>u, <1>b DEF Denied
<1>4. CASE Resumed
  <2>1. CASE context.ref /\ context.state = "running"
    BY <1>4, <2>1, <1>q DEF Resumed
  <2>2. CASE ~(context.ref /\ context.state = "running")
    BY <1>4, <2>2, <1>u, <1>b DEF Resumed
  <2> QED BY <2>1, <2>2
<1>5. CASE Unsupported
  BY <1>5, <1>u, <1>b DEF Unsupported
<1>6. CASE Prepared
  <2>1. CASE cancelled
    BY <1>6, <2>1, <1>u, <1>b DEF Prepared
  <2>2. CASE ~cancelled
    <3>1. /\ starting = "module" /\ starting' = "opening" /\ Show("connecting")
          /\ UNCHANGED <<stops, cancelled, failed, finalReceived, held>>
      BY <1>6, <2>2 DEF Prepared
    <3> QED BY <3>1, <1>q
  <2> QED BY <2>1, <2>2
<1>7. CASE Unprepared
  BY <1>7, <1>r, <1>q DEF Unprepared
<1>8. CASE Thrown
  BY <1>8, <1>f DEF Thrown, Throw
<1>t. ASSUME Stream, starting # "idle", stops' = stops PROVE ViewInv'
  BY <1>t, <1>q DEF Stream
<1>9. CASE Opened
  <2>1. CASE context.state = "running"
    BY <1>9, <2>1, <1>t DEF Opened
  <2>2. CASE context.state # "running"
    BY <1>9, <2>2, <1>q DEF Opened
  <2> QED BY <2>1, <2>2
<1>10. ASSUME NEW how \in {"closed", "connecting"}, NotOpened(how) PROVE ViewInv'
  BY <1>10, <1>f DEF NotOpened, Throw
<1>11. CASE Unsuspended
  BY <1>11, <1>t DEF Unsuspended
<1>12. CASE NotStarted
  BY <1>12, <1>f DEF NotStarted, Throw
<1>13. CASE Hear
  BY <1>13, <1>q DEF Hear
<1>14. CASE Answer
  BY <1>14, <1>q DEF Answer
<1>15. CASE Wipe
  BY <1>15, <1>q DEF Wipe
<1>16. CASE Keep
  BY <1>16, <1>q DEF Keep
<1>17. CASE SendChunk
  <2>1. /\ UNCHANGED <<starting, stops, cancelled, failed, finalReceived, held>>
        /\ screen' = screen \/ Show("finalizing")
    BY <1>17 DEF SendChunk, BeginFinish
  <2> QED BY <2>1, <1>q
<1>18. CASE Overflow
  BY <1>18, <1>f, <1>i DEF Overflow, Accepts
<1>19. CASE Finish
  BY <1>19, <1>q DEF Finish, BeginFinish
<1>v. ASSUME Resolved PROVE "fail" \in stops' => "fail" \in stops
  BY <1>v, ResolvedIs
<1>20. CASE FlushComplete
  <2>1. /\ Resolved \/ UNCHANGED <<finishing, stops, device, flushed>>
        /\ UNCHANGED <<starting, flags, view>>
    BY <1>20, FlushCompleteIs
  <2> QED BY <2>1, <1>v, <1>q
<1>21. CASE FlushTimeout
  BY <1>21, <1>v, <1>q DEF FlushTimeout
<1>22. CASE AfterStop
  BY <1>22, <1>r, <1>q DEF AfterStop, FinishStopped
<1>23. CASE SendEnd
  BY <1>23, <1>q DEF SendEnd
<1>24. CASE NoEnd
  <2>1. UNCHANGED <<stops, device, flags, pending>> \/ Fail
    BY <1>24 DEF NoEnd
  <2>2. finishing = "sending" /\ UNCHANGED <<starting, view>>
    BY <1>24 DEF NoEnd
  <2>3. CASE UNCHANGED <<stops, device, flags, pending>>
    BY <2>2, <2>3, <1>q
  <2>4. CASE Fail
    BY <2>2, <2>4, <1>f, <1>i
  <2> QED BY <2>1, <2>3, <2>4
<1>25. CASE Cancel
  <2>1. Stop("cancel", stream) /\ "cancel" \in Stoppers
    BY <1>25 DEF Cancel, Stoppers
  <2>2. "fail" \in stops' => "fail" \in stops
    BY <2>1, <1>s
  <2>3. /\ held /\ held' = FALSE /\ screen' = "idle" /\ cancelled' = TRUE
        /\ starting' \in {starting, "over"} /\ UNCHANGED <<failed, finalReceived>>
    BY <1>25 DEF Cancel
  <2> QED BY <2>2, <2>3 DEF ViewInv, Over
<1>26. CASE CancelStopped
  BY <1>26, <1>r, <1>q DEF CancelStopped
<1>27. CASE ServerError
  BY <1>27, <1>f, <1>i DEF ServerError
<1>28. CASE FinalResult
  <2>1. Stop("final", stream) /\ "final" \in Stoppers
    BY <1>28 DEF FinalResult, Stoppers
  <2>2. "fail" \in stops' => "fail" \in stops
    BY <2>1, <1>s
  <2>3. /\ ~Over /\ finalReceived' = TRUE /\ held' = FALSE /\ Show("complete")
        /\ starting # "idle" /\ UNCHANGED <<starting, failed, cancelled>>
    BY <1>28, <1>i DEF FinalResult
  <2>4. held /\ screen' = "complete"
    BY <2>3 DEF ViewInv, Show
  <2> QED BY <2>2, <2>3, <2>4 DEF ViewInv, Over
<1>29. CASE FinalStopped
  BY <1>29, <1>r, <1>q DEF FinalStopped
<1>30. CASE FailShown
  <2>1. StopReturns("fail") /\ starting' \in {starting, "over"} /\ UNCHANGED flags
    BY <1>30 DEF FailShown
  <2>2. "fail" \in stops /\ stops' = stops \ {"fail"}
    BY <2>1, <1>r
  <2>3. failed /\ ~finalReceived /\ starting # "idle"
    BY <2>2 DEF ViewInv, LifeInv, Unstarted
  <2>4. CASE cancelled
    <3>1. UNCHANGED view
      BY <1>30, <2>4 DEF FailShown
    <3>2. starting' = starting \/ starting' # "idle"
      BY <2>1
    <3> QED BY <2>1, <2>2, <2>3, <3>1, <3>2, <1>q
  <2>5. CASE ~cancelled
    <3>1. held' = FALSE /\ Show("error")
      BY <1>30, <2>3, <2>5 DEF FailShown
    <3>2. screen' = "error"
      BY <2>3, <2>5, <3>1 DEF ViewInv, Show
    <3> QED BY <2>1, <2>2, <2>3, <2>5, <3>1, <3>2 DEF ViewInv, Over
  <2> QED BY <2>4, <2>5
<1>31. CASE SocketClose
  BY <1>31, <1>f, <1>i DEF SocketClose, Attached
<1>32. CASE ServerCloses
  BY <1>32, <1>q DEF ServerCloses
<1>33. CASE Drain
  BY <1>33, <1>q DEF Drain
<1>34. CASE Suspend \/ Run \/ CloseContext
  BY <1>34, <1>q DEF Suspend, Run, CloseContext
<1>35. CASE UNCHANGED vars
  BY <1>35, <1>q DEF vars
<1> QED BY <1>1, <1>2, <1>3, <1>4, <1>5, <1>6, <1>7, <1>8, <1>9, <1>10, <1>11, <1>12, <1>13,
           <1>14, <1>15, <1>16, <1>17, <1>18, <1>19, <1>20, <1>21, <1>22, <1>23, <1>24, <1>25,
           <1>26, <1>27, <1>28, <1>29, <1>30, <1>31, <1>32, <1>33, <1>34, <1>35
        DEF Next, User, Page, Browser, Server

(* Types and life hold of every state. *)
LEMMA LifeAlways == Spec => [](BaseInv /\ LifeInv)
<1>1. BaseInv /\ LifeInv /\ [Next]_vars => BaseInv' /\ LifeInv'
  BY BaseNext, LifeNext
<1> QED BY <1>1, BaseInit, LifeInit, PTL DEF Spec

(* OneOutcome: whatever start, finish, fail, cancel and the final result do while they *)
(* wait for one another, a session does not both fail and complete, it completes only  *)
(* after its `end`, and once App has let go of it the screen shows the outcome it had. *)
THEOREM TheOutcomeIsOne == Spec => []OneOutcome
<1>1. LifeInv /\ ViewInv => OneOutcome
  BY DEF LifeInv, ViewInv, OneOutcome
<1>2. Spec => []ViewInv
  BY LifeAlways, ViewInit, ViewNext, PTL DEF Spec
<1> QED BY <1>1, <1>2, LifeAlways, PTL

-------------------------------------------------------------------------------
(* An empty port is counted by 0 ... *)
LEMMA CountsInit == \E f : Counts(f, <<>>) /\ f[0] = 0
<1> DEFINE f == [i \in 0..0 |-> 0]
<1>1. f \in [0..Len(<<>>) -> Nat] /\ f[0] = 0 /\ 1..Len(<<>>) = {} /\ Len(<<>>) = 0
  OBVIOUS
<1>2. \A i, j \in 0..0 : f[i] <= f[j]
  OBVIOUS
<1> HIDE DEF f
<1>3. Counts(f, <<>>)
  BY <1>1, <1>2 DEF Counts
<1> QED BY <1>1, <1>3

(* ... one with a message more by the same counts and one more ... *)
LEMMA CountsAppend ==
    ASSUME NEW q \in Seq(Nat), NEW f, Counts(f, q), NEW n \in Nat
    PROVE  \E g : /\ Counts(g, Append(q, n)) /\ g[Len(Append(q, n))] = f[Len(q)] + n
                  /\ \A i \in 0..Len(q) : g[i] = f[i]
<1> DEFINE m == Len(q)
           g == [i \in 0..m + 1 |-> IF i <= m THEN f[i] ELSE f[m] + n]
           r == Append(q, n)
<1>1. m \in Nat /\ Len(r) = m + 1 /\ r[m + 1] = n /\ \A i \in 1..m : r[i] = q[i]
  OBVIOUS
<1>2. /\ f \in [0..m -> Nat] /\ f[0] = 0 /\ \A i \in 1..m : f[i] = f[i - 1] + q[i]
      /\ \A i, j \in 0..m : i <= j => f[i] <= f[j]
  BY DEF Counts
<1> HIDE DEF m, r
<1>3. g[m + 1] = f[m] + n /\ \A i \in 0..m : g[i] = f[i]
  BY <1>1
<1>4. \A i \in 0..m : f[i] \in Nat
  BY <1>2
<1>5. f[m] \in Nat /\ \A i \in 0..m : f[i] <= f[m]
  BY <1>1, <1>2, <1>4
<1>6. \A i \in 0..m + 1 : i \in 0..m \/ i = m + 1
  BY <1>1
<1>7. g \in [0..m + 1 -> Nat]
  BY <1>1, <1>4, <1>5
<1> HIDE DEF g
<1>8. g[0] = 0
  BY <1>1, <1>2, <1>3
<1>9. \A i \in 1..m + 1 : g[i] = g[i - 1] + r[i]
  <2> TAKE i \in 1..m + 1
  <2>1. CASE i = m + 1
    <3>1. i - 1 = m /\ m \in 0..m
      BY <2>1, <1>1
    <3> QED BY <2>1, <3>1, <1>1, <1>3
  <2>2. CASE i # m + 1
    <3>1. i \in 1..m /\ i \in 0..m /\ i - 1 \in 0..m
      BY <2>2, <1>1
    <3> QED BY <3>1, <1>1, <1>2, <1>3
  <2> QED BY <2>1, <2>2
<1>10. \A i, j \in 0..m + 1 : i <= j => g[i] <= g[j]
  <2> TAKE i \in 0..m + 1, j \in 0..m + 1
  <2> SUFFICES ASSUME i <= j PROVE g[i] <= g[j]
    OBVIOUS
  <2>1. CASE j = m + 1
    <3>1. CASE i = m + 1
      BY <2>1, <3>1, <1>3, <1>5
    <3>2. CASE i \in 0..m
      BY <2>1, <3>2, <1>3, <1>4, <1>5
    <3> QED BY <3>1, <3>2, <1>6
  <2>2. CASE j \in 0..m
    <3>1. i \in 0..m
      BY <2>2, <1>1
    <3> QED BY <2>2, <3>1, <1>2, <1>3
  <2> QED BY <2>1, <2>2, <1>6
<1>11. Counts(g, r)
  BY <1>1, <1>7, <1>8, <1>9, <1>10 DEF Counts
<1> QED BY <1>1, <1>3, <1>11 DEF m, r

(* ... and one with a message less by what follows the first, less the first. *)
LEMMA CountsTail ==
    ASSUME NEW q \in Seq(Nat), q # <<>>, NEW f, Counts(f, q)
    PROVE  \E g : /\ Counts(g, Tail(q))
                  /\ \A i \in 0..Len(Tail(q)) : f[i + 1] \in Nat /\ g[i] = f[i + 1] - Head(q)
                  /\ Len(Tail(q)) + 1 = Len(q)
<1> DEFINE m == Len(q) - 1
           h == Head(q)
           r == Tail(q)
           g == [i \in 0..m |-> f[i + 1] - h]
<1>1. /\ m \in Nat /\ Len(q) = m + 1 /\ Len(r) = m /\ \A i \in 1..m : r[i] = q[i + 1]
      /\ \A i \in 1..m + 1 : q[i] \in Nat
  OBVIOUS
<1>2. /\ f \in [0..m + 1 -> Nat] /\ f[0] = 0 /\ \A i \in 1..m + 1 : f[i] = f[i - 1] + q[i]
      /\ \A i, j \in 0..m + 1 : i <= j => f[i] <= f[j]
  BY <1>1 DEF Counts
<1>3. h \in Nat /\ h = q[1]
  OBVIOUS
<1> HIDE DEF m, r, h
<1>4. \A i \in 0..m : g[i] = f[i + 1] - h /\ i + 1 \in 0..m + 1 /\ f[i + 1] \in Nat
  BY <1>1, <1>2
<1>5. f[1] = h
  BY <1>1, <1>2, <1>3
<1>6. \A i \in 0..m : h <= f[i + 1]
  BY <1>1, <1>2, <1>4, <1>5
<1>7. \A i \in 0..m : f[i + 1] - h \in Nat
  BY <1>3, <1>4, <1>6
<1>8. g \in [0..m -> Nat]
  BY <1>7
<1> HIDE DEF g
<1>9. g[0] = 0
  BY <1>1, <1>3, <1>4, <1>5
<1>10. \A i \in 1..m : g[i] = g[i - 1] + r[i]
  <2> TAKE i \in 1..m
  <2>1. i \in 0..m /\ i - 1 \in 0..m /\ i + 1 \in 1..m + 1 /\ (i + 1) - 1 = i /\ (i - 1) + 1 = i
    BY <1>1
  <2>2. f[i + 1] = f[i] + q[i + 1]
    BY <2>1, <1>2
  <2>3. g[i] = f[i + 1] - h /\ g[i - 1] = f[i] - h
    BY <2>1, <1>4
  <2>4. f[i] \in Nat /\ f[i + 1] \in Nat
    BY <2>1, <1>4
  <2>5. q[i + 1] \in Nat /\ r[i] = q[i + 1]
    BY <2>1, <1>1
  <2> QED BY <2>2, <2>3, <2>4, <2>5, <1>3
<1>11. \A i, j \in 0..m : i <= j => g[i] <= g[j]
  <2> TAKE i \in 0..m, j \in 0..m
  <2> SUFFICES ASSUME i <= j PROVE g[i] <= g[j]
    OBVIOUS
  <2>1. f[i + 1] <= f[j + 1]
    BY <1>1, <1>2, <1>4
  <2> QED BY <2>1, <1>3, <1>4
<1>12. Counts(g, r)
  BY <1>1, <1>8, <1>9, <1>10, <1>11 DEF Counts
<1> QED BY <1>1, <1>4, <1>12 DEF m, r, h

(* The samples on their way: none at first. *)
LEMMA FlowInit == Init => FlowInv
<1> SUFFICES ASSUME Init PROVE FlowInv
  OBVIOUS
<1>1. PICK f : Counts(f, <<>>) /\ f[0] = 0
  BY CountsInit
<1>2. port = <<>> /\ Len(port) = 0 /\ 1..Len(port) = {}
  BY DEF Init
<1>3. Flows(f)
  BY <1>1, <1>2 DEF Init, Flows, Collectable
<1> QED BY <1>1, <1>2, <1>3 DEF FlowInv

\* The messages r are those of q without the first, and g and f count them.
Pops(g, r, f, q) ==
    /\ Counts(g, r)
    /\ Len(r) \in Nat /\ Len(q) = Len(r) + 1 /\ Head(q) \in Nat
    /\ \A i \in 0..Len(r) : g[i] \in Nat /\ f[i + 1] \in Nat /\ f[i + 1] = g[i] + Head(q)
    /\ g[Len(r)] \in Nat /\ f[Len(q)] = g[Len(r)] + Head(q)
    /\ \A i \in 1..Len(r) : r[i] = q[i + 1] /\ i + 1 \in 1..Len(q)
    /\ f[1] = Head(q) /\ q[1] = Head(q) /\ 1 \in 1..Len(q)

(* The samples, c of them collected, F in the port and h in the worklet: n of F are wiped. *)
LEMMA SumOfFewer ==
    ASSUME NEW c \in Nat, NEW F \in Nat, NEW h \in Nat, NEW t \in Nat, NEW G \in Nat, NEW n \in Nat,
           F = G + n, c + F + h <= t
    PROVE  c + G + h <= t
OBVIOUS

(* They move from the worklet to the session, or are lost there. *)
LEMMA SumOfSame ==
    \A c, F, h, d, k, t \in Nat : c + F + h <= t /\ d + k <= c + h => d + F + k <= t
OBVIOUS

(* One more is heard. *)
LEMMA SumOfMore ==
    \A c, F, h, G, k \in Nat : G + k = F + h + 1 => c + G + k = (c + F + h) + 1
OBVIOUS

(* The session loses some, and n of F with them. *)
LEMMA SumOfLost ==
    ASSUME NEW c \in Nat, NEW F \in Nat, NEW h \in Nat, NEW t \in Nat, NEW G \in Nat, NEW n \in Nat,
           F = G + n, c + F + h <= t, NEW d \in Nat, d <= c
    PROVE  d + G + 0 <= t
OBVIOUS

(* The port without its first message is counted. *)
LEMMA PortPops ==
    ASSUME NEW q \in Seq(Nat), q # <<>>, NEW f, Counts(f, q)
    PROVE  \E g : Pops(g, Tail(q), f, q)
<1> DEFINE r == Tail(q)
           h == Head(q)
<1>1. PICK g : /\ Counts(g, r)
               /\ \A i \in 0..Len(r) : f[i + 1] \in Nat /\ g[i] = f[i + 1] - h
               /\ Len(r) + 1 = Len(q)
  BY CountsTail
<1>3. /\ h \in Nat /\ q[1] = h /\ 1 \in 1..Len(q) /\ Len(r) \in Nat
      /\ \A i \in 1..Len(r) : r[i] = q[i + 1] /\ i + 1 \in 1..Len(q)
  OBVIOUS
<1> HIDE DEF r, h
<1>2. \A i \in 0..Len(r) : g[i] \in Nat
  BY <1>1 DEF Counts
<1>4. f[1] = h
  <2>1. \A i \in 1..Len(q) : f[i] = f[i - 1] + q[i]
    BY DEF Counts
  <2>2. f[1] = f[1 - 1] + q[1] /\ 1 - 1 = 0 /\ f[0] = 0
    BY <2>1, <1>3 DEF Counts
  <2> QED BY <2>2, <1>3
<1>5. \A i \in 0..Len(r) : f[i + 1] = g[i] + h
  <2> TAKE i \in 0..Len(r)
  <2>1. g[i] = f[i + 1] - h /\ f[i + 1] \in Nat
    BY <1>1
  <2> QED BY <2>1, <1>3
<1>6. g[Len(r)] \in Nat /\ f[Len(q)] = g[Len(r)] + h
  <2>1. Len(r) \in 0..Len(r)
    BY <1>3
  <2> QED BY <2>1, <1>1, <1>2, <1>5
<1>7. \A i \in 0..Len(r) : f[i + 1] \in Nat
  BY <1>1
<1> QED BY <1>1, <1>2, <1>3, <1>4, <1>5, <1>6, <1>7 DEF Pops, r, h

(* Every step keeps the samples that are on their way. *)
LEMMA FlowNext == BaseInv /\ LifeInv /\ FlowInv /\ [Next]_vars => FlowInv'
<1> SUFFICES ASSUME BaseInv, LifeInv, FlowInv, [Next]_vars PROVE FlowInv'
  OBVIOUS
<1> USE DEF flags, device, lines, net, view, history
<1>a. PICK f : Counts(f, port) /\ Flows(f)
  BY DEF FlowInv
<1>b. /\ port \in Seq(Nat) /\ sent \in Nat /\ pending \in Nat /\ captured \in Nat /\ total \in Nat
      /\ worklet.heard \in Nat /\ Len(port) \in Nat /\ stream \in BOOLEAN /\ TRUE \in BOOLEAN
      /\ Collectable \in Nat /\ Collectable = sent + pending
  BY DEF BaseInv, WorkletType, Collectable
<1>c. \A i \in 0..Len(port) : f[i] \in Nat
  BY <1>a DEF Counts
<1>d. Len(port) \in 0..Len(port)
  BY <1>b
<1>e. /\ f[Len(port)] \in Nat /\ worklet.heard \in Nat /\ Collectable \in Nat
      /\ captured \in Nat /\ total \in Nat
  BY <1>b, <1>c, <1>d
(* The port stays as it is. *)
<1>q. ASSUME UNCHANGED <<port, captured, total>>,
             Collectable' \in Nat, worklet'.heard \in Nat,
             Collectable' + worklet'.heard <= Collectable + worklet.heard,
             worklet'.listening =>
               \/ captured = 0
               \/ /\ worklet.listening /\ worklet'.heard = worklet.heard
                  /\ Collectable' = Collectable
                  /\ phase' = "streaming" \/ asked' => phase = "streaming" \/ asked,
             finishing' \in {"stopping", "sending"} /\ ~Over' /\ flushed' =>
               \/ captured = 0
               \/ /\ finishing \in {"stopping", "sending"} /\ ~Over /\ flushed
                  /\ Collectable' = Collectable
      PROVE  FlowInv'
  <2>1. Counts(f, port')
    BY <1>a, <1>q
  <2>2. Collectable' + f[Len(port')] + worklet'.heard <= total' /\ captured' <= total'
    <3>1. Collectable + f[Len(port)] + worklet.heard <= total /\ captured <= total
      BY <1>a DEF Flows
    <3>2. f[Len(port')] = f[Len(port)] /\ total' = total /\ captured' = captured
      BY <1>q
    <3> DEFINE c == Collectable
               F == f[Len(port)]
               h == worklet.heard
               d == Collectable'
               k == worklet'.heard
    <3>3. /\ c \in Nat /\ F \in Nat /\ h \in Nat /\ d \in Nat /\ k \in Nat
          /\ c + F + h <= total /\ d + k <= c + h
      BY <3>1, <1>e, <1>q
    <3> HIDE DEF c, F, h, d, k
    <3>4. d + F + k <= total
      BY <3>3, <1>e, SumOfSame
    <3> QED BY <3>1, <3>2, <3>4 DEF F, d, k
  <2>3. worklet'.listening =>
          /\ phase' = "streaming" \/ asked' =>
               captured' <= Collectable' + f[Len(port')] + worklet'.heard
          /\ \A p \in 1..Len(port') : port'[p] = 0 => captured' <= Collectable' + f[p]
    <3> SUFFICES ASSUME worklet'.listening
                 PROVE  /\ phase' = "streaming" \/ asked' =>
                             captured' <= Collectable' + f[Len(port')] + worklet'.heard
                        /\ \A p \in 1..Len(port') :
                             port'[p] = 0 => captured' <= Collectable' + f[p]
      OBVIOUS
    <3>1. CASE captured = 0
      <4>1. \A p \in 1..Len(port) : f[p] \in Nat
        BY <1>b, <1>c
      <4>2. /\ captured' = 0 /\ Len(port') = Len(port)
            /\ Collectable' \in Nat /\ worklet'.heard \in Nat
        BY <3>1, <1>q
      <4>3. Collectable' + f[Len(port)] + worklet'.heard \in Nat
        BY <4>2, <1>e
      <4>4. \A p \in 1..Len(port) : Collectable' + f[p] \in Nat
        BY <4>1, <4>2
      <4>5. \A n \in Nat : 0 <= n
        OBVIOUS
      <4> QED BY <4>2, <4>3, <4>4, <4>5
    <3>2. CASE captured # 0
      BY <3>2, <1>a, <1>q DEF Flows
    <3> QED BY <3>1, <3>2
  <2>4. finishing' \in {"stopping", "sending"} /\ ~Over' /\ flushed' => captured' <= Collectable'
    BY <1>a, <1>b, <1>q DEF Flows
  <2>5. Flows(f)'
    BY <2>2, <2>3, <2>4 DEF Flows
  <2> QED BY <2>1, <2>5 DEF FlowInv
(* Neither the port nor what was heard changes. *)
<1>k. ASSUME UNCHANGED <<port, asked, captured, total, flushed, sent, pending, cancelled, failed,
                         finalReceived>>,
             worklet'.listening = worklet.listening, worklet'.heard = worklet.heard,
             phase' = phase \/ captured = 0 \/ phase = "streaming",
             finishing' = finishing
               \/ (finishing = "stopping" /\ finishing' = "sending") \/ finishing' = "over"
      PROVE  FlowInv'
  <2>1. Collectable' = Collectable /\ Over' = Over
    BY <1>k DEF Collectable, Over
  <2> QED BY <2>1, <1>b, <1>k, <1>q
(* The worklet is muted. *)
<1>m. ASSUME UNCHANGED <<port, captured, total, sent>>,
             ~worklet'.listening, worklet'.heard = 0, pending' \in {0, pending},
             Over' \/ finishing' \notin {"stopping", "sending"} \/ ~flushed'
      PROVE  FlowInv'
  <2>1. Collectable' = sent + pending'
    BY <1>m DEF Collectable
  <2>2. Collectable' \in Nat /\ Collectable' <= Collectable
    <3>1. CASE pending' = 0
      BY <2>1, <3>1, <1>b
    <3>2. CASE pending' = pending
      BY <2>1, <3>2, <1>b
    <3> QED BY <1>m, <3>1, <3>2
  <2>3. Collectable' + worklet'.heard <= Collectable + worklet.heard /\ worklet'.heard \in Nat
    BY <2>2, <1>e, <1>m
  <2> QED BY <2>2, <2>3, <1>m, <1>q
<1>f. ASSUME Fail, UNCHANGED <<port, asked, captured, total, flushed, sent>>,
             finishing' \in {finishing, "over"}
      PROVE  FlowInv'
  <2>1. CASE Over
    BY <2>1, <1>f, <1>k, FailIs
  <2>2. CASE ~Over
    <3>1. Failing
      BY <1>f, <2>2, FailIs
    <3>2. Over'
      BY <3>1 DEF Failing, Over
    <3> QED BY <1>f, <1>m, <3>1, <3>2 DEF Failing
  <2> QED BY <2>1, <2>2
<1>u. ASSUME NEW has \in BOOLEAN, Unprepare(has), starting # "over",
             UNCHANGED <<finishing, flags, pending, lines, net, history, view>>
      PROVE  FlowInv'
  <2>1. ~worklet'.listening /\ worklet'.heard = 0 /\ finishing = "idle"
    BY <1>u, UnprepareIs DEF LifeInv
  <2> QED BY <1>u, <2>1, <1>m
<1>r. ASSUME NEW who, StopReturns(who)
      PROVE  /\ worklet'.listening = worklet.listening /\ worklet'.heard = worklet.heard
             /\ who \in stops
  BY <1>r, StopReturnsIs DEF BaseInv
<1>s. ASSUME NEW who \in Stoppers, Stop(who, stream)
      PROVE  ~worklet'.listening /\ worklet'.heard = 0
  BY <1>s, StopIs DEF BaseInv
<1>1. CASE Start
  BY <1>1, <1>k DEF Start, LifeInv
<1>2. CASE Granted
  <2>1. CASE cancelled
    BY <1>2, <2>1, <1>u, <1>b DEF Granted
  <2>2. CASE ~cancelled
    BY <1>2, <2>2, <1>k DEF Granted
  <2> QED BY <2>1, <2>2
<1>3. CASE Denied
  BY <1>3, <1>u, <1>b DEF Denied
<1>4. CASE Resumed
  <2>1. CASE context.ref /\ context.state = "running"
    BY <1>4, <2>1, <1>k DEF Resumed
  <2>2. CASE ~(context.ref /\ context.state = "running")
    BY <1>4, <2>2, <1>u, <1>b DEF Resumed
  <2> QED BY <2>1, <2>2
<1>5. CASE Unsupported
  BY <1>5, <1>u, <1>b DEF Unsupported
<1>6. CASE Prepared
  <2>1. CASE cancelled
    BY <1>6, <2>1, <1>u, <1>b DEF Prepared
  <2>2. CASE ~cancelled
    <3>1. /\ captured = 0 /\ finishing = "idle"
          /\ worklet' = [exists |-> TRUE, listening |-> TRUE, heard |-> 0]
          /\ UNCHANGED <<finishing, port, captured, total, sent, pending>>
      BY <1>6, <2>2 DEF Prepared, LifeInv
    <3>2. worklet'.heard = 0 /\ Collectable' = Collectable
      BY <3>1 DEF Collectable
    <3> QED BY <3>1, <3>2, <1>b, <1>q
  <2> QED BY <2>1, <2>2
<1>7. CASE Unprepared
  BY <1>7, <1>r, <1>k DEF Unprepared
<1>8. CASE Thrown
  BY <1>8, <1>f DEF Thrown, Throw
<1>t. ASSUME Stream, starting # "over",
             UNCHANGED <<finishing, port, asked, captured, total, flushed, sent, pending, worklet>>
      PROVE  FlowInv'
  BY <1>t, <1>k DEF Stream, LifeInv
<1>9. CASE Opened
  <2>1. CASE context.state = "running"
    BY <1>9, <2>1, <1>t DEF Opened
  <2>2. CASE context.state # "running"
    BY <1>9, <2>2, <1>k DEF Opened
  <2> QED BY <2>1, <2>2
<1>10. ASSUME NEW how \in {"closed", "connecting"}, NotOpened(how) PROVE FlowInv'
  BY <1>10, <1>f DEF NotOpened, Throw
<1>11. CASE Unsuspended
  BY <1>11, <1>t DEF Unsuspended
<1>12. CASE NotStarted
  BY <1>12, <1>f DEF NotStarted, Throw
(* A sample more, in the worklet or in the block it posts. *)
<1>13. CASE Hear
  <2>1. /\ total < MaxHeard /\ total' = total + 1 /\ worklet.listening
        /\ worklet'.listening = worklet.listening /\ worklet'.heard \in Nat
        /\ \/ port' = Append(port, Block) /\ worklet.heard + 1 = Block /\ worklet'.heard = 0
           \/ port' = port /\ worklet'.heard = worklet.heard + 1
        /\ captured' = (IF phase = "streaming" \/ (phase = "finalizing" /\ asked)
                        THEN captured + 1 ELSE captured)
        /\ UNCHANGED <<starting, finishing, stops, flags, pending, asked, net, flushed>>
    BY <1>13, HearIs DEF WorkletType
  <2>2. PICK g : /\ Counts(g, port')
                 /\ g[Len(port')] + worklet'.heard = f[Len(port)] + worklet.heard + 1
                 /\ g[Len(port')] \in Nat
                 /\ \A p \in 1..Len(port') :
                      port'[p] = 0 => p \in 1..Len(port) /\ port[p] = 0 /\ g[p] = f[p]
    <3>1. CASE port' = port /\ worklet'.heard = worklet.heard + 1
      <4>1. f[Len(port)] + (worklet.heard + 1) = f[Len(port)] + worklet.heard + 1
        BY <1>b, <1>c
      <4>2. Counts(f, port')
        BY <1>a, <3>1
      <4> QED BY <3>1, <4>1, <4>2, <1>c
    <3>2. CASE port' = Append(port, Block) /\ worklet.heard + 1 = Block /\ worklet'.heard = 0
      <4>1. PICK g : /\ Counts(g, Append(port, Block))
                     /\ g[Len(Append(port, Block))] = f[Len(port)] + Block
                     /\ \A i \in 0..Len(port) : g[i] = f[i]
        BY CountsAppend, Constants, <1>a, <1>b
      <4>2. /\ Len(port') = Len(port) + 1 /\ port'[Len(port) + 1] = Block
            /\ \A p \in 1..Len(port) : port'[p] = port[p]
        BY <3>2, <1>b
      <4>3. \A p \in 1..Len(port') : port'[p] = 0 => p \in 1..Len(port)
        BY <4>2, <1>b, Constants
      <4>4. /\ f[Len(port)] + Block + 0 = f[Len(port)] + worklet.heard + 1
            /\ f[Len(port)] + Block \in Nat
        <5>1. \A a, b \in Nat : /\ a + (b + 1) + 0 = a + b + 1 /\ a + (b + 1) \in Nat
          OBVIOUS
        <5> QED BY <3>2, <5>1, <1>e
      <4>5. \A p \in 1..Len(port) : p \in 0..Len(port)
        BY <1>b
      <4> QED BY <3>2, <4>1, <4>2, <4>3, <4>4, <4>5
    <3> QED BY <2>1, <3>1, <3>2
  <2>3. Collectable' = Collectable
    BY <2>1 DEF Collectable
  <2>4. Collectable + f[Len(port)] + worklet.heard <= total /\ captured <= total
    BY <1>a DEF Flows
  <2>s. /\ worklet'.heard \in Nat /\ g[Len(port')] \in Nat
        /\ Collectable' + g[Len(port')] + worklet'.heard
             = (Collectable + f[Len(port)] + worklet.heard) + 1
        /\ Collectable + f[Len(port)] + worklet.heard \in Nat
    <3> DEFINE c == Collectable
               F == f[Len(port)]
               h == worklet.heard
               G == g[Len(port')]
               k == worklet'.heard
    <3>1. c \in Nat /\ F \in Nat /\ h \in Nat /\ G \in Nat /\ k \in Nat /\ G + k = F + h + 1
      BY <2>1, <2>2, <1>e
    <3> HIDE DEF c, F, h, G, k
    <3>2. c + G + k = (c + F + h) + 1 /\ c + F + h \in Nat
      BY <3>1, SumOfMore
    <3>3. Collectable' = c
      BY <2>3 DEF c
    <3> QED BY <3>1, <3>2, <3>3 DEF c, F, h, G, k
  <2>t. captured' \in {captured, captured + 1} /\ total' = total + 1
    BY <2>1
  <2>v. \A a, b \in Nat : a <= b => a + 1 <= b + 1 /\ a <= b + 1
    OBVIOUS
  <2>5. Collectable' + g[Len(port')] + worklet'.heard <= total' /\ captured' <= total'
    BY <2>4, <2>s, <2>t, <2>v, <1>e
  <2>6. phase' = "streaming" \/ asked' =>
          captured' <= Collectable' + g[Len(port')] + worklet'.heard
    <3>1. phase = "streaming" \/ asked => captured <= Collectable + f[Len(port)] + worklet.heard
      BY <1>a, <2>1 DEF Flows
    <3>2. phase' = "streaming" \/ asked' => phase = "streaming" \/ asked
      BY <2>1
    <3> QED BY <3>1, <3>2, <2>s, <2>t, <2>v, <1>e
  <2>7. \A p \in 1..Len(port') : port'[p] = 0 => captured' <= Collectable' + g[p]
    <3> TAKE p \in 1..Len(port')
    <3> SUFFICES ASSUME port'[p] = 0 PROVE captured' <= Collectable' + g[p]
      OBVIOUS
    <3>1. p \in 1..Len(port) /\ port[p] = 0 /\ g[p] = f[p]
      BY <2>2
    <3>2. captured <= Collectable + f[p]
      BY <3>1, <1>a, <2>1 DEF Flows
    <3>3. ~Unmarked
      BY <3>1 DEF Unmarked
    <3>4. captured' = captured
      BY <2>1, <3>3 DEF LifeInv
    <3> QED BY <2>3, <3>1, <3>2, <3>4
  <2>8. finishing' \notin {"stopping", "sending"}
    BY <2>1 DEF LifeInv
  <2>9. Flows(g)'
    BY <2>5, <2>6, <2>7, <2>8 DEF Flows
  <2> QED BY <2>2, <2>9 DEF FlowInv
(* What the worklet has is posted, and the mark behind it. *)
<1>14. CASE Answer
  <2>1. /\ asked /\ asked' = FALSE
        /\ worklet'.listening = worklet.listening /\ worklet'.heard = 0
        /\ \/ worklet.heard > 0 /\ port' = Append(Append(port, worklet.heard), 0)
           \/ worklet.heard = 0 /\ port' = Append(port, 0)
        /\ UNCHANGED <<finishing, flags, pending, net, history>>
    BY <1>14, AnswerIs
  <2> DEFINE first == IF worklet.heard > 0 THEN Append(port, worklet.heard) ELSE port
  <2>2. /\ first \in Seq(Nat) /\ Len(first) \in Nat /\ port' = Append(first, 0)
        /\ \A p \in 1..Len(first) : p \in 1..Len(port) \/ (p = Len(first) /\ first[p] > 0)
        /\ \A p \in 1..Len(port) : first[p] = port[p] /\ p \in 0..Len(port)
    <3>1. CASE worklet.heard > 0
      BY <3>1, <2>1, <1>b
    <3>2. CASE worklet.heard = 0
      BY <3>2, <2>1, <1>b
    <3> QED BY <3>1, <3>2, <1>b
  <2>3. PICK h : /\ Counts(h, first) /\ h[Len(first)] = f[Len(port)] + worklet.heard
                 /\ \A i \in 0..Len(port) : h[i] = f[i]
    <3>1. CASE worklet.heard > 0
      BY <3>1, CountsAppend, <1>a, <1>b
    <3>2. CASE worklet.heard = 0
      BY <3>2, <1>a, <1>b, <1>c
    <3> QED BY <3>1, <3>2, <1>b
  <2> HIDE DEF first
  <2>4. PICK g : /\ Counts(g, Append(first, 0)) /\ g[Len(Append(first, 0))] = h[Len(first)] + 0
                 /\ \A i \in 0..Len(first) : g[i] = h[i]
    BY CountsAppend, <2>2, <2>3
  <2>5. /\ Counts(g, port') /\ Len(port') = Len(first) + 1
        /\ g[Len(port')] = f[Len(port)] + worklet.heard
    <3>1. h[Len(first)] + 0 = f[Len(port)] + worklet.heard
      BY <2>3, <1>b, <1>c
    <3> QED BY <2>2, <2>4, <3>1
  <2>6. Collectable' = Collectable
    BY <2>1 DEF Collectable
  <2>7. Collectable + f[Len(port)] + worklet.heard <= total /\ captured <= total
    BY <1>a DEF Flows
  <2>8. worklet'.listening => captured <= Collectable + f[Len(port)] + worklet.heard
    BY <1>a, <2>1 DEF Flows
  <2>9. Collectable' + g[Len(port')] + worklet'.heard <= total' /\ captured' <= total'
    BY <2>1, <2>5, <2>6, <2>7, <1>b, <1>c
  <2>10. worklet'.listening => captured' <= Collectable' + g[Len(port')] + worklet'.heard
    BY <2>1, <2>5, <2>6, <2>8, <1>b, <1>c
  <2>11. ASSUME NEW p \in 1..Len(port'), port'[p] = 0, worklet'.listening
         PROVE  captured' <= Collectable' + g[p]
    <3>1. CASE p = Len(port')
      <4>1. g[p] = g[Len(port')] /\ g[p] \in Nat
        BY <3>1, <2>5, <1>b, <1>c
      <4> QED BY <2>1, <2>5, <2>10, <2>11, <2>6, <4>1, <1>b
    <3>2. CASE p # Len(port')
      <4>1. p \in 1..Len(first) /\ p \in 0..Len(first)
        BY <3>2, <2>2, <2>5
      <4>2. first[p] = 0
        BY <2>2, <2>11, <4>1
      <4>3. p \in 1..Len(port) /\ port[p] = 0
        BY <2>2, <4>1, <4>2
      <4>4. g[p] = f[p]
        BY <2>2, <2>3, <2>4, <4>1, <4>3
      <4>5. captured <= Collectable + f[p]
        BY <4>3, <2>1, <2>11, <1>a DEF Flows
      <4> QED BY <2>1, <2>6, <4>4, <4>5
    <3> QED BY <3>1, <3>2
  <2>12. finishing' \in {"stopping", "sending"} /\ ~Over' /\ flushed' => captured' <= Collectable'
    BY <2>1, <2>6, <1>a DEF Flows, Over
  <2>13. Flows(g)'
    BY <2>9, <2>10, <2>11, <2>12 DEF Flows
  <2> QED BY <2>5, <2>13 DEF FlowInv
(* A message that is wiped belongs to nobody: nothing was captured, or nobody listens. *)
<1>15. CASE Wipe
  <2>1. /\ Deliver /\ ~Accepts
        /\ UNCHANGED <<finishing, stops, flags, pending, device, asked, net, history>>
    BY <1>15 DEF Wipe
  <2>2. port # <<>> /\ port' = Tail(port) /\ Head(port) \in Nat
    BY <2>1, CollectedIs
  <2>3. PICK g : Pops(g, port', f, port)
    BY <1>a, <1>b, <2>2, PortPops
  <2>4. g[Len(port')] \in Nat /\ f[Len(port)] = g[Len(port')] + Head(port)
    BY <2>3 DEF Pops
  <2>5. Collectable' = Collectable /\ Over' = Over
    BY <2>1 DEF Collectable, Over
  <2>6. Collectable + f[Len(port)] + worklet.heard <= total /\ captured <= total
    BY <1>a DEF Flows
  <2>7. Collectable' + g[Len(port')] + worklet'.heard <= total' /\ captured' <= total'
    <3>1. /\ worklet'.heard = worklet.heard /\ Collectable' = Collectable /\ Head(port) \in Nat
          /\ total' = total /\ captured' = captured
      BY <2>1, <2>2, <2>5
    <3>2. Collectable + g[Len(port')] + worklet.heard <= total
      BY <3>1, <2>4, <2>6, <1>e, SumOfFewer
    <3> QED BY <3>1, <3>2, <2>6
  <2>8. worklet'.listening => captured' = 0
    BY <2>1 DEF Accepts, LifeInv
  <2>9. worklet'.listening =>
          /\ phase' = "streaming" \/ asked' =>
               captured' <= Collectable' + g[Len(port')] + worklet'.heard
          /\ \A p \in 1..Len(port') : port'[p] = 0 => captured' <= Collectable' + g[p]
    <3>1. worklet'.heard \in Nat /\ Collectable' \in Nat /\ \A p \in 1..Len(port') : g[p] \in Nat
      BY <2>1, <2>3, <2>5, <1>b DEF Pops
    <3> QED BY <2>4, <2>8, <3>1
  <2>10. finishing' \in {"stopping", "sending"} /\ ~Over' /\ flushed' => captured' <= Collectable'
    BY <2>1, <2>5, <1>a DEF Flows
  <2>11. Flows(g)'
    BY <2>7, <2>9, <2>10 DEF Flows
  <2> QED BY <2>3, <2>11 DEF FlowInv, Pops
(* A message that is kept or sent leaves the port for pending or for the socket. *)
<1>c1. ASSUME Deliver, Accepts, Collectable' = Collectable + Head(port),
              UNCHANGED <<worklet, captured, total, flushed, cancelled, failed, finalReceived>>,
              (phase' = phase /\ asked' = asked) \/ phase = "streaming",
              finishing' \in {finishing, "flushing"}
       PROVE  FlowInv'
  <2>2. port # <<>> /\ port' = Tail(port) /\ Head(port) \in Nat
    BY <1>c1, CollectedIs
  <2>3. PICK g : Pops(g, port', f, port)
    BY <1>a, <1>b, <2>2, PortPops
  <2>4. g[Len(port')] \in Nat /\ f[Len(port)] = g[Len(port')] + Head(port)
    BY <2>3 DEF Pops
  <2>6. Collectable + f[Len(port)] + worklet.heard <= total /\ captured <= total
    BY <1>a DEF Flows
  <2>7. Collectable' + g[Len(port')] + worklet'.heard <= total' /\ captured' <= total'
    <3>1. /\ worklet'.heard = worklet.heard /\ Collectable' = Collectable + Head(port)
          /\ Head(port) \in Nat /\ total' = total /\ captured' = captured
      BY <1>c1, <2>2
    <3> QED BY <3>1, <2>4, <2>6, <1>e
  <2>8. phase' = "streaming" \/ asked' => captured' <= Collectable' + g[Len(port')] + worklet'.heard
    <3>1. phase = "streaming" \/ asked => captured <= Collectable + f[Len(port)] + worklet.heard
      BY <1>a, <1>c1 DEF Flows, Accepts
    <3>2. /\ worklet'.heard = worklet.heard /\ Collectable' = Collectable + Head(port)
          /\ Head(port) \in Nat /\ captured' = captured
      BY <1>c1, <2>2
    <3>3. phase' = "streaming" \/ asked' => phase = "streaming" \/ asked
      BY <1>c1
    <3> QED BY <3>1, <3>2, <3>3, <2>4, <1>e
  <2>9. \A p \in 1..Len(port') : port'[p] = 0 => captured' <= Collectable' + g[p]
    <3> TAKE p \in 1..Len(port')
    <3> SUFFICES ASSUME port'[p] = 0 PROVE captured' <= Collectable' + g[p]
      OBVIOUS
    <3>1. /\ port[p + 1] = 0 /\ p + 1 \in 1..Len(port) /\ g[p] \in Nat /\ f[p + 1] \in Nat
          /\ f[p + 1] = g[p] + Head(port)
      BY <2>3 DEF Pops
    <3>2. captured <= Collectable + f[p + 1]
      BY <3>1, <1>a, <1>c1 DEF Flows, Accepts
    <3>3. /\ Collectable' = Collectable + Head(port) /\ Head(port) \in Nat /\ captured' = captured
      BY <1>c1, <2>2
    <3>4. f[p + 1] = g[p] + Head(port) /\ g[p] \in Nat
      BY <3>1
    <3>5. Collectable \in Nat /\ captured \in Nat
      BY <1>e
    <3> QED BY <3>2, <3>3, <3>4, <3>5
  <2>10. finishing' \notin {"stopping", "sending"}
    BY <1>c1 DEF Accepts, LifeInv
  <2>11. Flows(g)'
    BY <2>7, <2>8, <2>9, <2>10 DEF Flows
  <2> QED BY <2>3, <2>11 DEF FlowInv, Pops
<1>16. CASE Keep
  <2>1. Deliver /\ Accepts /\ pending' = Collected
        /\ UNCHANGED <<finishing, stops, flags, device, asked, net, history>>
    BY <1>16 DEF Keep
  <2>2. Collected = pending + Head(port) /\ Head(port) \in Nat
    BY <2>1, CollectedIs
  <2>3. Collectable' = Collectable + Head(port)
    BY <2>1, <2>2, <1>b DEF Collectable
  <2> QED BY <2>1, <2>3, <1>c1
<1>17. CASE SendChunk
  <2>1. /\ Deliver /\ Accepts /\ sent' = sent + Collected /\ pending' = 0
        /\ UNCHANGED <<cancelled, failed, finalReceived, device, history>>
        /\ \/ phase = "streaming" /\ finishing' = "flushing"
           \/ UNCHANGED <<phase, finishing, asked>>
    BY <1>17 DEF SendChunk, Send, BeginFinish
  <2>2. Collected = pending + Head(port) /\ Head(port) \in Nat
    BY <2>1, CollectedIs
  <2>3. Collectable' = Collectable + Head(port)
    BY <2>1, <2>2, <1>b DEF Collectable
  <2> QED BY <2>1, <2>3, <1>c1
(* The samples that do not fit are lost, with the session. *)
<1>18. CASE Overflow
  <2>1. Deliver /\ Accepts /\ Fail /\ UNCHANGED <<finishing, asked, net, history>>
    BY <1>18 DEF Overflow
  <2>2. port # <<>> /\ port' = Tail(port) /\ Head(port) \in Nat
    BY <2>1, CollectedIs
  <2>3. PICK g : Pops(g, port', f, port)
    BY <1>a, <1>b, <2>2, PortPops
  <2>4. g[Len(port')] \in Nat /\ f[Len(port)] = g[Len(port')] + Head(port)
    BY <2>3 DEF Pops
  <2>5. ~Over
    BY <2>1 DEF Accepts, LifeInv
  <2>6. Failing
    BY <2>1, <2>5, FailIs
  <2>7. /\ ~worklet'.listening /\ worklet'.heard = 0 /\ Over' /\ Collectable' = sent + 0
        /\ total' = total /\ captured' = captured
    BY <2>1, <2>6 DEF Failing, Over, Collectable
  <2>8. Collectable + f[Len(port)] + worklet.heard <= total /\ captured <= total
    BY <1>a DEF Flows
  <2>9. Collectable' + g[Len(port')] + worklet'.heard <= total' /\ captured' <= total'
    <3>1. Collectable' <= Collectable /\ Collectable' \in Nat
      BY <2>7, <1>b
    <3>2. Collectable' + g[Len(port')] + 0 <= total
      BY <3>1, <2>2, <2>4, <2>8, <1>e, SumOfLost
    <3> QED BY <3>2, <2>7, <2>8
  <2>10. Flows(g)'
    BY <2>7, <2>9 DEF Flows
  <2> QED BY <2>3, <2>10 DEF FlowInv, Pops
<1>19. CASE Finish
  <2>1. /\ phase = "streaming" /\ finishing' = "flushing"
        /\ UNCHANGED <<pending, device, port, net, history>>
    BY <1>19 DEF Finish, BeginFinish
  <2>2. Collectable' = Collectable
    BY <2>1 DEF Collectable
  <2> QED BY <2>1, <2>2, <1>b, <1>q
(* The mark arrives: what was captured before it has been collected. *)
<1>20. CASE FlushComplete
  <2>1. /\ port # <<>> /\ Head(port) = 0 /\ port' = Tail(port)
        /\ \/ worklet.listening /\ finishing = "flushing" /\ Resolved /\ flushed' = TRUE
           \/ UNCHANGED <<finishing, device, flushed>>
        /\ UNCHANGED <<starting, flags, pending, asked, net, captured, total>>
    BY <1>20, FlushCompleteIs
  <2>2. PICK g : Pops(g, port', f, port)
    BY <1>a, <1>b, <2>1, PortPops
  <2>3. \A i \in 0..Len(port') : g[i] \in Nat /\ f[i + 1] = g[i]
    <3> TAKE i \in 0..Len(port')
    <3>1. g[i] \in Nat /\ f[i + 1] = g[i] + 0
      BY <2>1, <2>2 DEF Pops
    <3> QED BY <3>1
  <2>4. Collectable' = Collectable /\ Over' = Over
    BY <2>1 DEF Collectable, Over
  <2>5. g[Len(port')] \in Nat /\ f[Len(port)] = g[Len(port')]
    <3>1. g[Len(port')] \in Nat /\ f[Len(port)] = g[Len(port')] + 0
      BY <2>1, <2>2 DEF Pops
    <3> QED BY <3>1
  <2>6. Collectable + f[Len(port)] + worklet.heard <= total /\ captured <= total
    BY <1>a DEF Flows
  <2>7. CASE UNCHANGED <<finishing, device, flushed>>
    <3>1. Collectable' + g[Len(port')] + worklet'.heard <= total' /\ captured' <= total'
      BY <2>1, <2>4, <2>5, <2>6, <2>7
    <3>2. worklet'.listening /\ (phase' = "streaming" \/ asked') =>
            captured' <= Collectable' + g[Len(port')] + worklet'.heard
      BY <2>1, <2>4, <2>5, <2>7, <1>a DEF Flows
    <3>3. ASSUME worklet'.listening, NEW p \in 1..Len(port'), port'[p] = 0
          PROVE  captured' <= Collectable' + g[p]
      <4>1. port[p + 1] = 0 /\ p + 1 \in 1..Len(port) /\ f[p + 1] = g[p]
        BY <2>2, <2>3, <3>3 DEF Pops
      <4>2. captured <= Collectable + f[p + 1]
        BY <4>1, <3>3, <2>7, <1>a DEF Flows
      <4> QED BY <4>1, <4>2, <2>1, <2>4
    <3>4. finishing' \in {"stopping", "sending"} /\ ~Over' /\ flushed' => captured' <= Collectable'
      BY <2>1, <2>4, <2>7, <1>a DEF Flows
    <3>5. Flows(g)'
      BY <3>1, <3>2, <3>3, <3>4 DEF Flows
    <3> QED BY <2>2, <3>5 DEF FlowInv, Pops
  <2>8. CASE worklet.listening /\ finishing = "flushing" /\ Resolved /\ flushed' = TRUE
    <3>1. ~worklet'.listening /\ worklet'.heard = 0
      BY <2>8, ResolvedIs DEF LifeInv
    <3>2. Collectable' + g[Len(port')] + worklet'.heard <= total' /\ captured' <= total'
      BY <2>1, <2>4, <2>5, <2>6, <3>1, <1>b
    <3>3. captured' <= Collectable'
      <4>1. captured <= Collectable + f[1]
        BY <2>1, <2>2, <2>8, <1>a DEF Flows, Pops
      <4>2. f[1] = 0
        BY <2>1, <2>2 DEF Pops
      <4> QED BY <2>1, <2>4, <4>1, <4>2, <1>e
    <3>4. Flows(g)'
      BY <3>1, <3>2, <3>3 DEF Flows
    <3> QED BY <2>2, <3>4 DEF FlowInv, Pops
  <2> QED BY <2>1, <2>7, <2>8
<1>21. CASE FlushTimeout
  <2>1. /\ finishing = "flushing" /\ Resolved
        /\ UNCHANGED <<starting, flags, pending, lines, net, history>>
    BY <1>21 DEF FlushTimeout
  <2>2. CASE Over
    BY <2>1, <2>2, <1>k, ResolvedIs
  <2>3. CASE ~Over
    <3>1. ~worklet'.listening /\ worklet'.heard = 0 /\ ~flushed'
      BY <2>1, <2>3, ResolvedIs DEF LifeInv
    <3> QED BY <2>1, <3>1, <1>m
  <2> QED BY <2>2, <2>3
<1>22. CASE AfterStop
  <2>1. /\ StopReturns("finish") /\ finishing' = "sending"
        /\ UNCHANGED <<starting, flags, pending, lines, net, history>>
    BY <1>22 DEF AfterStop, FinishStopped
  <2>2. finishing = "stopping"
    BY <2>1, <1>r DEF LifeInv
  <2> QED BY <2>1, <2>2, <1>r, <1>k
<1>23. CASE SendEnd
  <2>1. /\ finishing = "sending" /\ finishing' = "over" /\ sent' = sent + pending /\ pending' = 0
        /\ UNCHANGED <<flags, device, lines, history>>
    BY <1>23 DEF SendEnd, Send
  <2>2. Collectable' = Collectable /\ ~worklet.listening
    BY <2>1, <1>b DEF Collectable, LifeInv
  <2> QED BY <2>1, <2>2, <1>b, <1>q
<1>24. CASE NoEnd
  <2>1. UNCHANGED <<stops, device, flags, pending>> \/ Fail
    BY <1>24 DEF NoEnd
  <2>2. finishing' = "over" /\ UNCHANGED <<starting, lines, net, history, view>>
    BY <1>24 DEF NoEnd
  <2>3. CASE UNCHANGED <<stops, device, flags, pending>>
    BY <2>2, <2>3, <1>k
  <2>4. CASE Fail
    BY <2>2, <2>4, <1>f
  <2> QED BY <2>1, <2>3, <2>4
<1>25. CASE Cancel
  <2>1. Stop("cancel", stream) /\ "cancel" \in Stoppers
    BY <1>25 DEF Cancel, Stoppers
  <2>2. cancelled' = TRUE /\ pending' = 0 /\ UNCHANGED <<port, captured, total, sent>>
    BY <1>25 DEF Cancel
  <2> QED BY <2>1, <2>2, <1>s, <1>m DEF Over
<1>26. CASE CancelStopped
  BY <1>26, <1>r, <1>k DEF CancelStopped
<1>27. CASE ServerError
  BY <1>27, <1>f DEF ServerError
<1>28. CASE FinalResult
  <2>1. Stop("final", stream) /\ "final" \in Stoppers
    BY <1>28 DEF FinalResult, Stoppers
  <2>2. finalReceived' = TRUE /\ pending' = 0 /\ UNCHANGED <<port, captured, total, sent>>
    BY <1>28 DEF FinalResult
  <2> QED BY <2>1, <2>2, <1>s, <1>m DEF Over
<1>29. CASE FinalStopped
  BY <1>29, <1>r, <1>k DEF FinalStopped
<1>30. CASE FailShown
  BY <1>30, <1>r, <1>k DEF FailShown
<1>31. CASE SocketClose
  BY <1>31, <1>f DEF SocketClose
<1>32. CASE ServerCloses
  BY <1>32, <1>k DEF ServerCloses
<1>33. CASE Drain
  BY <1>33, <1>k DEF Drain
<1>34. CASE Suspend \/ Run \/ CloseContext
  BY <1>34, <1>k DEF Suspend, Run, CloseContext
<1>35. CASE UNCHANGED vars
  BY <1>35, <1>k DEF vars
<1> QED BY <1>1, <1>2, <1>3, <1>4, <1>5, <1>6, <1>7, <1>8, <1>9, <1>10, <1>11, <1>12, <1>13,
           <1>14, <1>15, <1>16, <1>17, <1>18, <1>19, <1>20, <1>21, <1>22, <1>23, <1>24, <1>25,
           <1>26, <1>27, <1>28, <1>29, <1>30, <1>31, <1>32, <1>33, <1>34, <1>35
        DEF Next, User, Page, Browser, Server

(* The three invariants of the audio hold of every state. *)
LEMMA FlowAlways == Spec => [](BaseInv /\ LifeInv /\ FlowInv)
BY LifeAlways, FlowInit, FlowNext, PTL DEF Spec

(* TypeOK: the browser never sends more samples than it heard, never counts more as     *)
(* captured, and never has more than MAX_SOCKET_BUFFER_BYTES of them in the socket.     *)
THEOREM LiveTypeCorrect == Spec => []TypeOK
<1>1. BaseInv /\ FlowInv => TypeOK
  <2> SUFFICES ASSUME BaseInv, FlowInv PROVE TypeOK
    OBVIOUS
  <2>1. PICK f : Counts(f, port) /\ Flows(f)
    BY DEF FlowInv
  <2>2. sent \in Nat /\ pending \in Nat /\ captured \in Nat /\ total \in 0..MaxHeard
        /\ worklet.heard \in Nat /\ port \in Seq(Nat)
    BY DEF BaseInv, WorkletType
  <2>3. f[Len(port)] \in Nat
    <3>1. Len(port) \in 0..Len(port)
      BY <2>2
    <3> QED BY <2>1, <3>1 DEF Counts
  <2>4. (sent + pending) + f[Len(port)] + worklet.heard <= total /\ captured <= total
    BY <2>1 DEF Flows, Collectable
  <2>5. sent <= total
    <3>1. \A a, b, c, d, e \in Nat : (a + b) + c + d <= e => a <= e
      OBVIOUS
    <3>2. total \in Nat
      BY <2>2, Constants
    <3> QED BY <3>1, <3>2, <2>2, <2>3, <2>4
  <2>6. sent \in 0..total /\ captured \in 0..MaxHeard /\ total \in 0..MaxHeard
    BY <2>2, <2>4, <2>5, Constants
  <2>7. /\ context.state \in {"none", "suspended", "running", "closed"}
        /\ context.closer \in Stoppers \cup {"none"}
        /\ worklet.heard \in 0..Block - 1
    BY DEF BaseInv, ContextType, WorkletType
  <2>8. {cancelled, failed, finalReceived, stream, asked, flushed, held} \subseteq BOOLEAN
    BY DEF BaseInv
  <2>9. {captured, total} \subseteq 0..MaxHeard
    BY <2>6
  <2> QED BY <2>6, <2>7, <2>8, <2>9 DEF BaseInv, TypeOK
<1> QED BY <1>1, FlowAlways, PTL

(* What a step of the session does to what it has sent. *)
LEMMA EndStep ==
    BaseInv /\ LifeInv /\ FlowInv /\ [Next]_vars =>
      /\ ends' # ends /\ flushed => sent' >= captured
      /\ ends > 0 \/ failed \/ cancelled => UNCHANGED <<sent, ends>>
<1> SUFFICES ASSUME BaseInv, LifeInv, FlowInv, [Next]_vars
             PROVE  /\ ends' # ends /\ flushed => sent' >= captured
                    /\ ends > 0 \/ failed \/ cancelled => UNCHANGED <<sent, ends>>
  OBVIOUS
<1> USE DEF flags, device, lines, net, view, history
<1>0. sent \in Nat /\ pending \in Nat /\ captured \in Nat /\ ends \in Nat
  BY DEF BaseInv
<1>1. CASE SendChunk
  <2>1. Accepts /\ ends' = ends
    BY <1>1 DEF SendChunk
  <2>2. ~Over /\ finishing # "over"
    BY <2>1 DEF Accepts, LifeInv
  <2>3. ends = 0
    BY <2>2 DEF LifeInv
  <2> QED BY <2>1, <2>2, <2>3 DEF Over
<1>2. CASE SendEnd
  <2>1. ~Over /\ finishing = "sending" /\ sent' = sent + pending
    BY <1>2 DEF SendEnd, Send
  <2>2. ends = 0
    BY <2>1 DEF LifeInv
  <2>3. flushed => captured <= sent + pending
    BY <2>1 DEF FlowInv, Flows, Collectable
  <2> QED BY <2>1, <2>2, <2>3, <1>0 DEF Over
<1>3. CASE ~SendChunk /\ ~SendEnd
  <2>1. UNCHANGED <<sent, ends>>
    BY <1>3 DEF Next, User, Page, Browser, Server, vars, Start, Granted, Denied, Finish, Cancel,
       Resumed, Prepared, Unprepared, Thrown, Unsuspended, NotStarted, Wipe, Keep, Overflow,
       FlushComplete, FlushTimeout, AfterStop, NoEnd, FailShown, CancelStopped, FinalStopped,
       Unsupported, Hear, Answer, Drain, Run, Suspend, Opened, NotOpened, ServerError,
       ServerCloses, FinalResult, SocketClose, CloseContext
  <2> QED BY <2>1
<1> QED BY <1>1, <1>2, <1>3

(* EndClosesTheStream: when `end` goes out after a flush that was answered in time, all  *)
(* that was captured has been sent, and nothing is sent after it, nor once the session  *)
(* has failed or was cancelled.                                                          *)
THEOREM TheEndIsTheEnd == Spec => EndClosesTheStream
<1>1. BaseInv /\ LifeInv /\ FlowInv /\ [Next]_vars =>
        [/\ ends' # ends /\ flushed => sent' >= captured
         /\ ends > 0 \/ failed \/ cancelled => UNCHANGED <<sent, ends>>]_vars
  BY EndStep
<1> QED BY <1>1, FlowAlways, PTL DEF Spec, EndClosesTheStream
===============================================================================
