----------------------------- MODULE LiveSession ------------------------------
(***************************************************************************)
(* The browser's live session: LiveAnalysisSession and its                 *)
(* PcmMicrophoneCapture (frontend/src/api/streamAnalysis.js), the capture  *)
(* worklet, and what App.jsx does with them.                               *)
(*                                                                         *)
(* JavaScript runs a task and the continuations it settles to their end,   *)
(* so a step is one event and the code up to the awaits it leads to; only  *)
(* what follows a stop() in finish and in the catch clause of start is a   *)
(* step of its own, which adds interleavings and takes none away.          *)
(* start, finish, fail, cancel and the answer to a final result may all be *)
(* waiting at once, most of them in capture.stop() for the audio context   *)
(* to close.  Audio is counted in one unit.  The server, the network and   *)
(* the browser do what they like, except that a final result only answers  *)
(* an `end`.                                                               *)
(***************************************************************************)
EXTENDS Integers, Sequences

CONSTANTS Block,        \* samples the worklet posts at once
          Chunk,        \* samples sendPending waits for
          MaxCapture,   \* MAX_CAPTURE_SECONDS, in samples
          MaxBacklog,   \* MAX_SOCKET_BUFFER_BYTES, in samples
          MaxHeard      \* bound: samples the microphone gives

ASSUME LiveAssumption ==
    {Block, Chunk, MaxCapture, MaxBacklog, MaxHeard} \subseteq Nat \ {0}

VARIABLES
    starting,    \* the await start() is in
    finishing,   \* the await finish() is in
    stops,       \* who waits in capture.stop()
    phase, cancelled, failed, finalReceived, pending,    \* of the session
    tracks,      \* the microphone: "none", "live" or "stopped"
    stream,      \* this.stream is set
    context,     \* the AudioContext: [state, closer, ref]
    worklet,     \* [exists, listening, heard]: the node, its onmessage, its buffer
    asked,       \* a flush message is on its way to the worklet
    port,        \* what the worklet posted: a number of samples, or 0 for flush-complete
    socket,      \* readyState, "none" before there is one
    backlog,     \* bufferedAmount
    sent, ends,  \* samples sent, `end` messages sent
    flushed,     \* history: the flush of finish was answered in time
    captured,    \* history: samples heard while streaming, before that flush
    total,       \* history: samples heard at all
    held,        \* App's liveSessionRef is this session
    screen       \* App's livePhase

flags == <<phase, cancelled, failed, finalReceived>>
device == <<tracks, stream, context, worklet>>
lines == <<asked, port>>
net == <<socket, backlog, sent, ends>>
view == <<held, screen>>
history == <<flushed, captured, total>>
vars == <<starting, finishing, stops, flags, pending, device, lines, net, history, view>>

Init ==
    /\ starting = "idle" /\ finishing = "idle" /\ stops = {}
    /\ phase = "idle" /\ cancelled = FALSE /\ failed = FALSE /\ finalReceived = FALSE
    /\ pending = 0
    /\ tracks = "none" /\ stream = FALSE
    /\ context = [state |-> "none", closer |-> "none", ref |-> FALSE]
    /\ worklet = [exists |-> FALSE, listening |-> FALSE, heard |-> 0]
    /\ asked = FALSE /\ port = <<>>
    /\ socket = "none" /\ backlog = 0 /\ sent = 0 /\ ends = 0
    /\ flushed = FALSE /\ captured = 0 /\ total = 0
    /\ held = FALSE /\ screen = "idle"

Over == cancelled \/ failed \/ finalReceived

\* onState: App looks only while it holds the session.
Show(state) == screen' = IF held THEN state ELSE screen

-------------------------------------------------------------------------------
(* capture.stop(), up to its await and after it; fail(). *)

Mute == [worklet EXCEPT !.listening = FALSE, !.heard = 0]

Stop(who, has) ==
    /\ stops' = stops \cup {who}
    /\ worklet' = Mute
    /\ tracks' = IF has THEN "stopped" ELSE tracks
    /\ stream' = has
    /\ context' = IF context.ref /\ context.state # "closed" /\ context.closer = "none"
                  THEN [context EXCEPT !.closer = who] ELSE context

\* close() resolves for its first caller when the context has closed, and fails at
\* once for the others.
StopReturns(who) ==
    /\ who \in stops
    /\ context.closer = who => context.state = "closed"
    /\ stops' = stops \ {who}
    /\ stream' = FALSE
    /\ context' = [context EXCEPT !.ref = FALSE]
    /\ worklet' = [worklet EXCEPT !.exists = FALSE]
    /\ UNCHANGED tracks

Fail ==
    IF Over THEN UNCHANGED <<stops, device, flags, pending>>
    ELSE /\ failed' = TRUE /\ phase' = "error" /\ pending' = 0
         /\ Stop("fail", stream)
         /\ UNCHANGED <<cancelled, finalReceived>>

Closing == IF socket \in {"connecting", "open"} THEN "closing" ELSE socket

\* The rest of fail, and of a start that awaits it.
FailShown ==
    /\ StopReturns("fail")
    /\ socket' = Closing
    /\ IF cancelled \/ finalReceived THEN UNCHANGED view
       ELSE held' = FALSE /\ Show("error")
    /\ starting' = IF starting = "failing" THEN "over" ELSE starting
    /\ UNCHANGED <<finishing, flags, pending, lines, backlog, sent, ends, history>>

-------------------------------------------------------------------------------
(* start(), and prepare() of the capture. *)

\* startLiveAnalysis of App; a context that is new is suspended or runs at once.
Start ==
    /\ starting = "idle" /\ phase = "idle" /\ ~cancelled
    /\ held' = TRUE
    /\ starting' = "microphone" /\ phase' = "requesting" /\ screen' = "requesting"
    /\ context' = [state |-> "suspended", closer |-> "none", ref |-> TRUE]
    /\ UNCHANGED <<finishing, stops, cancelled, failed, finalReceived, pending, tracks, stream,
                   worklet, lines, net, history>>

\* The catch clause of start.
Throw ==
    /\ Fail
    /\ starting' = IF Over THEN "over" ELSE "failing"

\* Mutant of Unprepare: it leaves the capture to start's own.
Unprepare_NotStopped(has) ==
    /\ starting' = "throwing"
    /\ tracks' = IF has THEN "live" ELSE tracks
    /\ stream' = has
    /\ UNCHANGED <<stops, context, worklet>>

\* The catch clause of prepare, whose stream may be set.
Unprepare(has) ==
    /\ starting' = "unpreparing"
    /\ Stop("prepare", has)

\* The user allows the microphone, perhaps of a session that was cancelled meanwhile.
Granted ==
    /\ starting = "microphone"
    /\ IF cancelled
       THEN Unprepare(TRUE)
       ELSE /\ starting' = "resume"
            /\ tracks' = "live" /\ stream' = TRUE
            /\ UNCHANGED <<stops, context, worklet>>
    /\ UNCHANGED <<finishing, flags, pending, lines, net, history, view>>

Denied ==
    /\ starting = "microphone"
    /\ Unprepare(stream)
    /\ UNCHANGED <<finishing, flags, pending, lines, net, history, view>>

\* resume() of the click has settled.  Without a context the next line throws.
Resumed ==
    /\ starting = "resume"
    /\ context.state # "suspended" \/ ~context.ref
    /\ IF context.ref /\ context.state = "running"
       THEN starting' = "module" /\ UNCHANGED <<stops, device>>
       ELSE Unprepare(stream)
    /\ UNCHANGED <<finishing, flags, pending, lines, net, history, view>>

\* The rate is refused, resume or addModule fails.
Unsupported ==
    /\ starting \in {"resume", "module"}
    /\ Unprepare(stream)
    /\ UNCHANGED <<finishing, flags, pending, lines, net, history, view>>

\* The worklet is there: the rest of prepare, and start up to waitForOpen.
Prepared ==
    /\ starting = "module"
    /\ IF cancelled
       THEN Unprepare(stream) /\ UNCHANGED <<phase, socket, screen>>
       ELSE /\ worklet' = [exists |-> TRUE, listening |-> TRUE, heard |-> 0]
            /\ starting' = "opening" /\ phase' = "connecting" /\ Show("connecting")
            /\ socket' = "connecting"
            /\ UNCHANGED <<stops, tracks, stream, context>>
    /\ UNCHANGED <<finishing, cancelled, failed, finalReceived, pending, lines, backlog, sent,
                   ends, history, held>>

Unprepared ==
    /\ starting = "unpreparing"
    /\ StopReturns("prepare")
    /\ starting' = "throwing"
    /\ UNCHANGED <<finishing, flags, pending, lines, net, history, view>>

Thrown ==
    /\ starting = "throwing"
    /\ Throw
    /\ UNCHANGED <<finishing, lines, net, history, view>>

\* capture.start() returns.  start looks for a cancellation only: a session that has
\* failed meanwhile calls itself streaming again.
Stream ==
    /\ starting' = "over"
    /\ phase' = "streaming" /\ Show("streaming")
    /\ UNCHANGED <<cancelled, failed, finalReceived, held>>

\* open: the handlers are attached, `start` is sent, the source is connected; a
\* context that does not run is resumed first.
Opened ==
    /\ starting = "opening" /\ socket = "connecting"
    /\ socket' = "open"
    /\ IF context.state = "running" THEN Stream
       ELSE starting' = "unsuspending" /\ UNCHANGED <<flags, view>>
    /\ UNCHANGED <<finishing, stops, pending, device, lines, backlog, sent, ends, history>>

\* error, close or the timeout of waitForOpen.
NotOpened(how) ==
    /\ starting = "opening"
    /\ socket' = how
    /\ Throw
    /\ UNCHANGED <<finishing, lines, backlog, sent, ends, history, view>>

Unsuspended ==
    /\ starting = "unsuspending"
    /\ context.ref /\ context.state = "running" /\ ~cancelled
    /\ Stream
    /\ UNCHANGED <<finishing, stops, pending, device, lines, net, history>>

\* capture.start() throws, or ensureActive does.
NotStarted ==
    /\ starting = "unsuspending"
    /\ \/ ~context.ref \/ context.state = "closed" \/ cancelled
       \/ context.state = "suspended"                      \* resume() fails
    /\ Throw
    /\ UNCHANGED <<finishing, lines, net, history, view>>

-------------------------------------------------------------------------------
(* Samples on their way: microphone, worklet, page, socket. *)

\* process(): a sample; a full block is posted.
Hear ==
    /\ total < MaxHeard
    /\ worklet.listening /\ tracks = "live" /\ context.state = "running"
    /\ starting \in {"unsuspending", "failing", "over"}            \* the source is connected
    /\ IF worklet.heard + 1 = Block
       THEN port' = Append(port, Block) /\ worklet' = [worklet EXCEPT !.heard = 0]
       ELSE port' = port /\ worklet' = [worklet EXCEPT !.heard = @ + 1]
    /\ total' = total + 1
    /\ captured' = IF phase = "streaming" \/ (phase = "finalizing" /\ asked)
                   THEN captured + 1 ELSE captured
    /\ UNCHANGED <<starting, finishing, stops, flags, pending, tracks, stream, context, asked,
                   net, flushed, view>>

\* The worklet answers a flush: what it has, then flush-complete.
Answer ==
    /\ asked
    /\ asked' = FALSE
    /\ port' = (IF worklet.heard > 0 THEN Append(port, worklet.heard) ELSE port) \o <<0>>
    /\ worklet' = [worklet EXCEPT !.heard = 0]
    /\ UNCHANGED <<starting, finishing, stops, flags, pending, tracks, stream, context,
                   net, history, view>>

\* finish() up to its first await.
BeginFinish ==
    /\ phase' = "finalizing" /\ Show("finalizing")
    /\ finishing' = "flushing"
    /\ asked' = worklet.exists

\* Mutant of Backpressure: what is about to be sent does not count.
Backpressure_Late(n) == backlog > MaxBacklog

\* sendPending() of n samples on an open socket: they go, or fail takes them.
Backpressure(n) == backlog + n > MaxBacklog

Send(n) ==
    /\ backlog' = backlog + n /\ sent' = sent + n
    /\ pending' = 0

\* onmessage with samples.
Deliver == port # <<>> /\ Head(port) > 0 /\ port' = Tail(port)
Accepts == worklet.listening /\ phase \in {"streaming", "finalizing"}
Collected == pending + Head(port)
Goes == Collected >= Chunk /\ socket = "open"

\* acceptSamples: wiped, kept, or kept and sent.
Wipe ==
    /\ Deliver /\ ~Accepts
    /\ UNCHANGED <<starting, finishing, stops, flags, pending, device, asked, net, history, view>>

Keep ==
    /\ Deliver /\ Accepts /\ ~Goes
    /\ pending' = Collected
    /\ UNCHANGED <<starting, finishing, stops, flags, device, asked, net, history, view>>

SendChunk ==
    /\ Deliver /\ Accepts /\ Goes /\ ~Backpressure(Collected)
    /\ Send(Collected)
    /\ IF sent' >= MaxCapture /\ phase = "streaming"                    \* autoFinishing
       THEN BeginFinish
       ELSE UNCHANGED <<phase, finishing, asked, screen>>
    /\ UNCHANGED <<starting, stops, cancelled, failed, finalReceived, device, socket, ends,
                   history, held>>

Overflow ==
    /\ Deliver /\ Accepts /\ Goes /\ Backpressure(Collected)
    /\ Fail
    /\ UNCHANGED <<starting, finishing, asked, net, history, view>>

-------------------------------------------------------------------------------
(* finish() *)

\* The user's Stop button.
Finish ==
    /\ held /\ phase = "streaming"
    /\ BeginFinish
    /\ UNCHANGED <<starting, stops, cancelled, failed, finalReceived, pending, device, port, net,
                   history, held>>

\* flush() resolves.
Resolved ==
    IF Over THEN finishing' = "over" /\ UNCHANGED <<stops, device>>
    ELSE finishing' = "stopping" /\ Stop("finish", stream)

\* onmessage with flush-complete.
FlushComplete ==
    /\ port # <<>> /\ Head(port) = 0
    /\ port' = Tail(port)
    /\ IF worklet.listening /\ finishing = "flushing"
       THEN Resolved /\ flushed' = TRUE
       ELSE UNCHANGED <<finishing, stops, device, flushed>>
    /\ UNCHANGED <<starting, flags, pending, asked, net, captured, total, view>>

\* The 150 ms are over, or there is no worklet to ask.
FlushTimeout ==
    /\ finishing = "flushing"
    /\ Resolved
    /\ UNCHANGED <<starting, flags, pending, lines, net, history, view>>

\* The rest of finish once the capture has stopped.
FinishStopped == StopReturns("finish") /\ finishing' = "sending"

AfterStop ==
    /\ FinishStopped
    /\ UNCHANGED <<starting, flags, pending, lines, net, history, view>>

\* Mutant of SendEnd: what is pending stays behind.
SendEnd_Only ==
    /\ finishing = "sending" /\ ~Over /\ socket = "open"
    /\ finishing' = "over" /\ ends' = ends + 1
    /\ UNCHANGED <<starting, stops, flags, pending, device, lines, socket, backlog, sent, history, view>>

SendEnd ==
    /\ finishing = "sending" /\ ~Over
    /\ socket = "open" /\ (pending > 0 => ~Backpressure(pending))
    /\ finishing' = "over"
    /\ Send(pending) /\ ends' = ends + 1
    /\ UNCHANGED <<starting, stops, flags, device, lines, socket, history, view>>

\* The session is over, or sendPending or the socket's state ends it.
NoEnd ==
    /\ finishing = "sending"
    /\ finishing' = "over"
    /\ \/ Over /\ UNCHANGED <<stops, device, flags, pending>>
       \/ ~Over /\ socket = "open" /\ pending > 0 /\ Backpressure(pending) /\ Fail
       \/ ~Over /\ socket # "open" /\ pending = 0 /\ Fail
       \/ ~Over /\ socket # "open" /\ pending > 0 /\ UNCHANGED <<stops, device, flags, pending>>
    /\ UNCHANGED <<starting, lines, net, history, view>>

-------------------------------------------------------------------------------
(* cancel(), and what comes from outside. *)

\* App's cancel button, a change of mode, or its end; abortOpen makes waitForOpen throw.
Cancel ==
    /\ held
    /\ held' = FALSE /\ screen' = "idle"
    /\ cancelled' = TRUE /\ phase' = "cancelled" /\ pending' = 0
    /\ starting' = IF starting = "opening" THEN "over" ELSE starting
    /\ Stop("cancel", stream)
    /\ UNCHANGED <<finishing, failed, finalReceived, lines, net, history>>

CancelStopped ==
    /\ StopReturns("cancel")
    /\ socket' = Closing
    /\ UNCHANGED <<starting, finishing, flags, pending, lines, backlog, sent, ends, history, view>>

Attached == socket \in {"open", "closing"}

\* An error message, or one the page cannot read.
ServerError ==
    /\ socket = "open"
    /\ Fail
    /\ UNCHANGED <<starting, finishing, lines, net, history, view>>

\* Mutant of FinalResult: it is taken by a session that has failed.
FinalResult_Always ==
    /\ socket = "open" /\ ends > 0 /\ ~finalReceived /\ ~cancelled
    /\ finalReceived' = TRUE /\ phase' = "complete" /\ pending' = 0
    /\ held' = FALSE /\ Show("complete")
    /\ Stop("final", stream)
    /\ UNCHANGED <<starting, finishing, cancelled, failed, lines, net, history>>

FinalResult ==
    /\ socket = "open" /\ ends > 0 /\ ~Over
    /\ finalReceived' = TRUE /\ phase' = "complete" /\ pending' = 0
    /\ held' = FALSE /\ Show("complete")
    /\ Stop("final", stream)
    /\ UNCHANGED <<starting, finishing, cancelled, failed, lines, net, history>>

FinalStopped ==
    /\ StopReturns("final")
    /\ UNCHANGED <<starting, finishing, flags, pending, lines, net, history, view>>

\* The close event, and the error event before it if the connection was lost.
SocketClose ==
    /\ Attached
    /\ socket' = "closed"
    /\ Fail
    /\ UNCHANGED <<starting, finishing, lines, backlog, sent, ends, history, view>>

\* The server closes, and the page has not heard of it yet.
ServerCloses ==
    /\ socket = "open"
    /\ socket' = "closing"
    /\ UNCHANGED <<starting, finishing, stops, flags, pending, device, lines, backlog, sent, ends,
                   history, view>>

Drain ==
    /\ backlog > 0
    /\ backlog' = 0
    /\ UNCHANGED <<starting, finishing, stops, flags, pending, device, lines, socket, sent, ends,
                   history, view>>

\* The browser suspends the audio context.
Suspend ==
    /\ context.state = "running" /\ context.closer = "none"
    /\ context' = [context EXCEPT !.state = "suspended"]
    /\ UNCHANGED <<starting, finishing, stops, flags, pending, tracks, stream, worklet, lines,
                   net, history, view>>

\* It starts or resumes, and closes after what was asked before.
Run ==
    /\ context.state = "suspended"
    /\ context' = [context EXCEPT !.state = "running"]
    /\ UNCHANGED <<starting, finishing, stops, flags, pending, tracks, stream, worklet, lines,
                   net, history, view>>

CloseContext ==
    /\ context.closer # "none" /\ context.state # "closed"
    /\ context' = [context EXCEPT !.state = "closed"]
    /\ UNCHANGED <<starting, finishing, stops, flags, pending, tracks, stream, worklet, lines,
                   net, history, view>>

-------------------------------------------------------------------------------
User == Start \/ Granted \/ Denied \/ Finish \/ Cancel

Page ==
    \/ Resumed \/ Prepared \/ Unprepared \/ Thrown \/ Unsuspended \/ NotStarted
    \/ Wipe \/ Keep \/ SendChunk \/ Overflow \/ FlushComplete \/ FlushTimeout \/ AfterStop \/ SendEnd \/ NoEnd
    \/ FailShown \/ CancelStopped \/ FinalStopped

Browser == Unsupported \/ Hear \/ Answer \/ Drain \/ Run \/ Suspend

Server ==
    \/ Opened \/ NotOpened("closed") \/ NotOpened("connecting")
    \/ ServerError \/ ServerCloses

Next == User \/ Page \/ Browser \/ Server \/ FinalResult \/ SocketClose \/ CloseContext

Spec == Init /\ [][Next]_vars

\* The page runs its tasks and timers, a context that is closed closes, a socket that
\* closes says so, and the server answers an `end`, with a result or by closing
\* (SessionEnds of StreamSession).  Nobody has to speak or to press a button.
FairSpec ==
    /\ Spec
    /\ WF_vars(Page) /\ WF_vars(CloseContext)
    /\ WF_vars((socket = "closing" \/ ends > 0) /\ (SocketClose \/ FinalResult))

-------------------------------------------------------------------------------
Stoppers == {"prepare", "fail", "cancel", "finish", "final"}

TypeOK ==
    /\ starting \in {"idle", "microphone", "resume", "module", "unpreparing", "throwing", "opening",
                     "unsuspending", "failing", "over"}
    /\ finishing \in {"idle", "flushing", "stopping", "sending", "over"}
    /\ stops \subseteq Stoppers
    /\ phase \in {"idle", "requesting", "connecting", "streaming", "finalizing", "complete", "error",
                  "cancelled"}
    /\ {cancelled, failed, finalReceived, stream, asked, flushed, held} \subseteq BOOLEAN
    /\ tracks \in {"none", "live", "stopped"}
    /\ context.state \in {"none", "suspended", "running", "closed"}
    /\ context.closer \in Stoppers \cup {"none"}
    /\ worklet.heard \in 0..Block - 1
    /\ socket \in {"none", "connecting", "open", "closing", "closed"}
    /\ backlog \in 0..MaxBacklog /\ pending \in Nat /\ sent \in 0..total
    /\ {captured, total} \subseteq 0..MaxHeard
    /\ screen \in {"idle", "requesting", "connecting", "streaming", "finalizing", "complete", "error"}

\* A session has one outcome and the page shows it: it never fails and completes, it
\* completes only after its `end`, and when App has let go of it what stays on the
\* screen is the outcome it had, though start still calls a failed session streaming.
OneOutcome ==
    /\ ~(failed /\ finalReceived)
    /\ finalReceived => ends = 1
    /\ ~held /\ starting # "idle" =>
         screen = (IF cancelled THEN "idle" ELSE IF failed THEN "error" ELSE "complete")
    /\ held => screen \notin {"complete", "error", "idle"}

\* `end` closes the stream: everything the user said until the worklet was flushed has
\* been sent before it, unless the flush was too late, and neither it nor audio is
\* sent after it or once the session failed or was cancelled.
EndClosesTheStream ==
    [][/\ ends' # ends /\ flushed => sent' >= captured
       /\ ends > 0 \/ failed \/ cancelled => UNCHANGED <<sent, ends>>]_vars

\* A session that fails, is cancelled, completes or is finished by the user gets to
\* its outcome, and its microphone is off for good, whatever is awaited by then; that
\* of one cancelled in the permission prompt as soon as it is granted.
SessionSettles ==
    (Over \/ finishing # "idle") ~> [](~held /\ tracks # "live")
==============================================================================
