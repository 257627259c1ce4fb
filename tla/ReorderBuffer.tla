----------------------------- MODULE ReorderBuffer -----------------------------
(***************************************************************************)
(* The reorder buffer of a sequenced stream (backend/app/audio/jitter.py): *)
(* it puts frames back in order, drops duplicates and late frames, and     *)
(* fills the slot of a frame it no longer waits for.                       *)
(*                                                                         *)
(* push and flush are synchronous loops.  Each iteration is a step here,   *)
(* and no other call starts before the loop returns: pc is "idle" between  *)
(* calls, "drain" inside push's _drain and "flush" inside flush, after     *)
(* which the session's only user drops the buffer ("closed").  A payload   *)
(* is its length: an empty one is what a frame with a header only carries. *)
(***************************************************************************)
EXTENDS Integers, FiniteSets

CONSTANTS Window,           \* ReorderBuffer.window, WS_REORDER_WINDOW_FRAMES
          MaxRepeatFrames,  \* ReorderBuffer.max_repeat_frames
          SequenceNumbers,  \* the sequence numbers frames may carry
          PayloadSizes,     \* the payload lengths frames may have
          MaxPushes         \* bound: frames that arrive

ASSUME ReorderAssumption ==
    /\ Window \in Nat
    /\ MaxRepeatFrames \in Nat
    /\ SequenceNumbers \subseteq Nat
    /\ PayloadSizes \subseteq Nat
    /\ MaxPushes \in Nat

VARIABLES
    pc,
    pending,         \* _pending: a function from the held sequence numbers to payloads
    next,            \* _next: the slot to fill next
    lastBytes,       \* len(_last_payload)
    repeats,         \* _repeats
    frameBytes,      \* _frame_bytes
    received, duplicated, reordered, lost, concealed, highest,
    pushes,          \* frames that arrived
    accepted,        \* history: the payload of every frame that was not dropped
    released         \* history: what was put out for each slot below next

counters == <<received, duplicated, reordered, lost, concealed, highest>>
vars == <<pc, pending, next, lastBytes, repeats, frameBytes, counters, pushes, accepted, released>>

Held == DOMAIN pending
With(f, k, v) == [x \in DOMAIN f \cup {k} |-> IF x = k THEN v ELSE f[x]]
Without(f, k) == [x \in DOMAIN f \ {k} |-> f[x]]
Output(kind, bytes) == [kind |-> kind, bytes |-> bytes]

Init ==
    /\ pc = "idle"
    /\ pending = [x \in {} |-> 0]
    /\ next = 0
    /\ lastBytes = 0 /\ repeats = 0 /\ frameBytes = 0
    /\ received = 0 /\ duplicated = 0 /\ reordered = 0
    /\ lost = 0 /\ concealed = 0 /\ highest = -1
    /\ pushes = 0
    /\ accepted = [x \in {} |-> 0]
    /\ released = [x \in {} |-> Output("real", 0)]

-------------------------------------------------------------------------------
\* Mutant of IsDuplicate: a frame whose slot was filled is taken after all.
IsDuplicate_AdmitsLate(q) == q \in Held

\* Already released or already held.
IsDuplicate(q) == q < next \/ q \in Held

Duplicate(q) ==
    /\ pc = "idle" /\ pushes < MaxPushes
    /\ IsDuplicate(q)
    /\ pushes' = pushes + 1
    /\ duplicated' = duplicated + 1
    /\ UNCHANGED <<pc, pending, next, lastBytes, repeats, frameBytes,
                   received, reordered, lost, concealed, highest, accepted, released>>

\* push up to the loop of _drain.
Accept(q, bytes) ==
    /\ pc = "idle" /\ pushes < MaxPushes
    /\ ~IsDuplicate(q)
    /\ pushes' = pushes + 1
    /\ reordered' = IF q < highest THEN reordered + 1 ELSE reordered
    /\ highest' = IF q > highest THEN q ELSE highest
    /\ received' = received + 1
    /\ pending' = With(pending, q, bytes)
    /\ accepted' = With(accepted, q, bytes)
    /\ frameBytes' = IF bytes > 0 THEN bytes ELSE frameBytes
    /\ pc' = "drain"
    /\ UNCHANGED <<next, lastBytes, repeats, duplicated, lost, concealed, released>>

\* One iteration of either loop that finds the next frame.
Release ==
    /\ pc \in {"drain", "flush"}
    /\ next \in Held
    /\ released' = With(released, next, Output("real", pending[next]))
    /\ lastBytes' = pending[next]
    /\ repeats' = 0
    /\ pending' = Without(pending, next)
    /\ next' = next + 1
    /\ UNCHANGED <<pc, frameBytes, counters, pushes, accepted>>

\* Mutant of GivesUp: the window is one frame short.
GivesUp_Early == pc = "flush" \/ Cardinality(Held) >= Window

\* Mutant of GivesUp: flush waits for missing frames as push does.
GivesUp_NotAtFlush == Cardinality(Held) > Window

\* The next frame is no longer waited for.
GivesUp == pc = "flush" \/ Cardinality(Held) > Window

\* Mutant of Repeats: the last frame is repeated as long as the gap lasts.
Repeats_Forever == lastBytes > 0

\* _conceal repeats the last frame a few times, then falls silent.
Repeats == lastBytes > 0 /\ repeats < MaxRepeatFrames

\* Mutant of Conceal: silence is not counted as a lost frame.
Conceal_SilenceNotLost ==
    /\ pc \in {"drain", "flush"}
    /\ Held # {} /\ next \notin Held /\ GivesUp
    /\ lost' = IF Repeats THEN lost + 1 ELSE lost
    /\ next' = next + 1
    /\ LET bytes == IF Repeats THEN lastBytes ELSE frameBytes IN
          /\ released' = With(released, next, Output(IF Repeats THEN "repeat" ELSE "silence", bytes))
          /\ concealed' = IF bytes > 0 THEN concealed + 1 ELSE concealed
    /\ repeats' = IF Repeats THEN repeats + 1 ELSE repeats
    /\ UNCHANGED <<pc, pending, lastBytes, frameBytes,
                   received, duplicated, reordered, highest, pushes, accepted>>

\* One iteration of either loop that fills the slot of a missing frame.
Conceal ==
    /\ pc \in {"drain", "flush"}
    /\ Held # {} /\ next \notin Held /\ GivesUp
    /\ lost' = lost + 1
    /\ next' = next + 1
    /\ LET bytes == IF Repeats THEN lastBytes ELSE frameBytes IN
          /\ released' = With(released, next, Output(IF Repeats THEN "repeat" ELSE "silence", bytes))
          /\ concealed' = IF bytes > 0 THEN concealed + 1 ELSE concealed
    /\ repeats' = IF Repeats THEN repeats + 1 ELSE repeats
    /\ UNCHANGED <<pc, pending, lastBytes, frameBytes,
                   received, duplicated, reordered, highest, pushes, accepted>>

\* The loop ends.
Return ==
    /\ \/ pc = "drain" /\ (Held = {} \/ (next \notin Held /\ ~GivesUp)) /\ pc' = "idle"
       \/ pc = "flush" /\ Held = {} /\ pc' = "closed"
    /\ UNCHANGED <<pending, next, lastBytes, repeats, frameBytes, counters,
                   pushes, accepted, released>>

Flush ==
    /\ pc = "idle"
    /\ pc' = "flush"
    /\ UNCHANGED <<pending, next, lastBytes, repeats, frameBytes, counters,
                   pushes, accepted, released>>

Loop == Release \/ Conceal \/ Return

Next ==
    \/ \E q \in SequenceNumbers : Duplicate(q) \/ \E bytes \in PayloadSizes : Accept(q, bytes)
    \/ Loop
    \/ Flush

Spec == Init /\ [][Next]_vars

\* The loops are synchronous code: once entered they run.
FairSpec == Spec /\ WF_vars(Loop)

-------------------------------------------------------------------------------
Slots == 0 .. (next - 1)
Filled == {s \in Slots : released[s].kind # "real"}

\* Every variable stays in its type; one output per slot below next.
TypeOK ==
    /\ pc \in {"idle", "drain", "flush", "closed"}
    /\ Held \subseteq SequenceNumbers
    /\ pending \in [Held -> PayloadSizes]
    /\ next \in Nat
    /\ lastBytes \in Nat /\ repeats \in 0 .. MaxRepeatFrames /\ frameBytes \in Nat
    /\ received \in Nat /\ duplicated \in Nat /\ reordered \in Nat
    /\ lost \in Nat /\ concealed \in Nat
    /\ highest \in Nat \cup {-1}
    /\ pushes \in 0 .. MaxPushes
    /\ DOMAIN accepted \subseteq SequenceNumbers
    /\ accepted \in [DOMAIN accepted -> PayloadSizes]
    /\ released \in [Slots -> [kind : {"real", "repeat", "silence"}, bytes : Nat]]

\* A frame that was accepted is put out in its own slot with its own payload, or is
\* still held and its slot is not passed: never lost, doubled or misplaced.
EveryFrameInItsSlot ==
    /\ \A q \in DOMAIN accepted :
          IF q < next THEN released[q] = Output("real", accepted[q])
                      ELSE q \in Held /\ pending[q] = accepted[q]
    /\ \A q \in Held : q >= next
    /\ \A s \in Slots \ Filled : s \in DOMAIN accepted

\* What loss_ratio is computed from: every slot below next was received or is counted
\* lost, and what is received beyond that is exactly what is held.
SlotsAccounted ==
    /\ received + lost = next + Cardinality(Held)
    /\ lost = Cardinality(Filled)

\* Between two calls no frame that could go out is held, and no more than the window.
NothingHeldBack == pc = "idle" => next \notin Held /\ Cardinality(Held) <= Window

\* Before the end of the stream a frame is given up only when more than a window of
\* later frames has arrived.
LostBehindFullWindow ==
    pc \in {"idle", "drain"} =>
        \A s \in Filled : Cardinality({q \in DOMAIN accepted : q > s}) > Window

\* A gap repeats only the last real frame, and only right behind it.
RepeatsAreShort ==
    \A s \in Slots : released[s].kind = "repeat" =>
        \E r \in (s - MaxRepeatFrames) .. (s - 1) :
            /\ r >= 0 /\ released[r] = Output("real", released[s].bytes)
            /\ \A t \in (r + 1) .. s : released[t].kind = "repeat"

\* The window is exactly what is waited for: nothing that could go out is kept back,
\* and no frame is given up before a full window has arrived behind it.
WindowIsKept == NothingHeldBack /\ LostBehindFullWindow

\* A lost frame is counted once and concealed by real speech only briefly.
LossIsConcealed == SlotsAccounted /\ RepeatsAreShort

\* push and flush return, however wide the gap is.
LoopsEnd == pc \in {"drain", "flush"} ~> pc \in {"idle", "closed"}
==============================================================================
