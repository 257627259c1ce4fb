------------------------- MODULE ReorderBufferProofs -------------------------
(***************************************************************************)
(* The safety of ReorderBuffer for every window, every repeat limit, every *)
(* set of sequence numbers and every set of payload lengths.               *)
(***************************************************************************)
EXTENDS ReorderBuffer, FiniteSetTheorems, TLAPS

USE ReorderAssumption DEF ReorderAssumption

-------------------------------------------------------------------------------
(***************************************************************************)
(* The two updates of a function with a varying domain, and the slots.     *)
(***************************************************************************)
Outputs == [kind : {"real", "repeat", "silence"}, bytes : Nat]

\* Adding a key.
LEMMA WithType ==
    ASSUME NEW D, NEW R, NEW f \in [D -> R], NEW k, NEW v \in R
    PROVE  With(f, k, v) \in [D \cup {k} -> R]
BY DEF With

\* Removing a key.
LEMMA WithoutType ==
    ASSUME NEW D, NEW R, NEW f \in [D -> R], NEW k
    PROVE  Without(f, k) \in [D \ {k} -> R]
BY DEF Without

\* Filling a slot adds the one that was next.
LEMMA NextSlot ==
    ASSUME next \in Nat, next' = next + 1
    PROVE  Slots' = Slots \cup {next} /\ next \notin Slots
BY DEF Slots

\* The slots filled before keep their output.
LEMMA FillSlot ==
    ASSUME NEW out, released' = With(released, next, out),
           DOMAIN released = Slots, next \notin Slots
    PROVE  /\ DOMAIN released' = Slots \cup {next}
           /\ released'[next] = out
           /\ \A x \in Slots : released'[x] = released[x]
BY DEF With

-------------------------------------------------------------------------------
(***************************************************************************)
(* Types.                                                                  *)
(***************************************************************************)
\* Every variable stays in its type: in particular released has exactly one output
\* for each slot below _next, whatever arrives.
THEOREM TypeCorrect == Spec => []TypeOK
<1>1. Init => TypeOK
  BY DEF Init, TypeOK, Held, Slots, Output
<1>2. TypeOK /\ [Next]_vars => TypeOK'
  <2> SUFFICES ASSUME TypeOK, [Next]_vars PROVE TypeOK'
    OBVIOUS
  <2>1. ASSUME NEW q \in SequenceNumbers, Duplicate(q) PROVE TypeOK'
    <3>1. duplicated' \in Nat /\ pushes' \in 0 .. MaxPushes
      BY <2>1 DEF TypeOK, Duplicate
    <3>2. UNCHANGED <<pc, pending, next, lastBytes, repeats, frameBytes,
                      received, reordered, lost, concealed, highest, accepted, released>>
      BY <2>1 DEF Duplicate
    <3>3. UNCHANGED <<Held, Slots>>
      BY <3>2 DEF Held, Slots
    <3> QED
      BY <3>1, <3>2, <3>3 DEF TypeOK
  <2>2. ASSUME NEW q \in SequenceNumbers, NEW bytes \in PayloadSizes, Accept(q, bytes)
        PROVE  TypeOK'
    <3>1. /\ Held' = Held \cup {q}
          /\ pending' \in [Held \cup {q} -> PayloadSizes]
      BY <2>2, WithType DEF Accept, TypeOK, Held, With
    <3>2. /\ DOMAIN accepted' = DOMAIN accepted \cup {q}
          /\ accepted' \in [DOMAIN accepted \cup {q} -> PayloadSizes]
      BY <2>2, WithType DEF Accept, TypeOK, With
    <3>3. UNCHANGED <<next, lastBytes, repeats, duplicated, lost, concealed, released>>
      BY <2>2 DEF Accept
    <3>4. Slots' = Slots
      BY <3>3 DEF Slots
    <3>5. frameBytes' \in Nat /\ received' \in Nat /\ reordered' \in Nat
      BY <2>2 DEF Accept, TypeOK
    <3>6. highest' \in Nat \cup {-1} /\ pushes' \in 0 .. MaxPushes /\ pc' = "drain"
      BY <2>2 DEF Accept, TypeOK
    <3> QED
      BY <3>1, <3>2, <3>3, <3>4, <3>5, <3>6 DEF TypeOK
  <2>3. CASE Release
    <3>1. /\ Held' = Held \ {next}
          /\ pending' \in [Held \ {next} -> PayloadSizes]
      BY <2>3, WithoutType DEF Release, TypeOK, Held, Without
    <3>2. pending[next] \in Nat
      BY <2>3 DEF Release, TypeOK
    <3>3. UNCHANGED <<pc, frameBytes, received, duplicated, reordered, lost, concealed,
                      highest, pushes, accepted>>
      BY <2>3 DEF Release, counters
    <3>4. next' \in Nat /\ lastBytes' \in Nat /\ repeats' \in 0 .. MaxRepeatFrames
      BY <2>3, <3>2 DEF Release, TypeOK
    <3>5. Slots' = Slots \cup {next}
      BY <2>3, NextSlot DEF Release, TypeOK
    <3>6. Output("real", pending[next]) \in Outputs
      BY <3>2 DEF Output, Outputs
    <3>7. released \in [Slots -> Outputs]
      BY DEF TypeOK, Outputs
    <3>8. released' = With(released, next, Output("real", pending[next]))
      BY <2>3 DEF Release
    <3>9. released' \in [Slots' -> Outputs]
      BY <3>5, <3>6, <3>7, <3>8, WithType
    <3> QED
      BY <3>1, <3>3, <3>4, <3>9 DEF TypeOK, Outputs
  <2>4. CASE Conceal
    <3> DEFINE out == Output(IF Repeats THEN "repeat" ELSE "silence",
                             IF Repeats THEN lastBytes ELSE frameBytes)
    <3>1. UNCHANGED <<pc, pending, lastBytes, frameBytes,
                      received, duplicated, reordered, highest, pushes, accepted>>
      BY <2>4 DEF Conceal
    <3>2. Held' = Held
      BY <3>1 DEF Held
    <3>3. next' \in Nat /\ lost' \in Nat /\ Slots' = Slots \cup {next}
      BY <2>4, NextSlot DEF Conceal, TypeOK
    <3>4. concealed' \in Nat
      BY <2>4 DEF Conceal, TypeOK
    <3>5. repeats' \in 0 .. MaxRepeatFrames
      BY <2>4 DEF Conceal, TypeOK, Repeats
    <3>6. released' = With(released, next, out)
      BY <2>4 DEF Conceal
    <3>7. out \in Outputs
      BY DEF Output, Outputs, TypeOK
    <3>8. released \in [Slots -> Outputs]
      BY DEF TypeOK, Outputs
    <3> HIDE DEF out
    <3>9. released' \in [Slots' -> Outputs]
      BY <3>3, <3>6, <3>7, <3>8, WithType
    <3> QED
      BY <3>1, <3>2, <3>3, <3>4, <3>5, <3>9 DEF TypeOK, Outputs
  <2>5. ASSUME pc' \in {"idle", "drain", "flush", "closed"},
               UNCHANGED <<pending, next, lastBytes, repeats, frameBytes, counters,
                           pushes, accepted, released>>
        PROVE  TypeOK'
    <3>1. UNCHANGED <<Held, Slots, received, duplicated, reordered, lost, concealed, highest>>
      BY <2>5 DEF Held, Slots, counters
    <3> QED
      BY <2>5, <3>1 DEF TypeOK
  <2>6. CASE Return
    BY <2>5, <2>6 DEF Return
  <2>7. CASE Flush
    BY <2>5, <2>7 DEF Flush
  <2>8. CASE UNCHANGED vars
    BY <2>5, <2>8 DEF vars, TypeOK
  <2> QED
    BY <2>1, <2>2, <2>3, <2>4, <2>6, <2>7, <2>8 DEF Next, Loop
<1> QED
  BY <1>1, <1>2, PTL DEF Spec

-------------------------------------------------------------------------------
(***************************************************************************)
(* No frame is lost, doubled or misplaced.  The property is inductive once *)
(* it says that nothing is held that was not accepted.                     *)
(***************************************************************************)
HeldAccepted == Held \subseteq DOMAIN accepted

SlotInv == EveryFrameInItsSlot /\ HeldAccepted

(* The invariant of the slots holds at first. *)
LEMMA SlotInvInit == Init => SlotInv
BY DEF Init, SlotInv, HeldAccepted, EveryFrameInItsSlot, Held, Slots, Filled

(* Every step keeps it. *)
LEMMA SlotInvStep ==
    ASSUME TypeOK, SlotInv, [Next]_vars
    PROVE  SlotInv'
<1> USE DEF SlotInv, HeldAccepted, EveryFrameInItsSlot
<1>1. ASSUME NEW q \in SequenceNumbers, Duplicate(q) PROVE SlotInv'
  BY <1>1 DEF Duplicate, Held, Slots, Filled
<1>2. ASSUME NEW q \in SequenceNumbers, NEW bytes \in PayloadSizes, Accept(q, bytes)
      PROVE  SlotInv'
  <2>1. /\ DOMAIN pending' = Held \cup {q}
        /\ pending'[q] = bytes
        /\ \A x \in Held \ {q} : pending'[x] = pending[x]
    <3>1. pending' = With(pending, q, bytes)
      BY <1>2 DEF Accept
    <3> QED
      BY <3>1 DEF With, Held
  <2>2. /\ DOMAIN accepted' = DOMAIN accepted \cup {q}
        /\ accepted'[q] = bytes
        /\ \A x \in DOMAIN accepted \ {q} : accepted'[x] = accepted[x]
    <3>1. accepted' = With(accepted, q, bytes)
      BY <1>2 DEF Accept
    <3> QED
      BY <3>1 DEF With
  <2>3. q >= next /\ q \notin Held
    BY <1>2 DEF Accept, IsDuplicate, TypeOK
  <2>4. q \notin DOMAIN accepted
    BY <2>3 DEF TypeOK
  <2>5. UNCHANGED <<next, released>> /\ Slots' = Slots /\ Filled' = Filled
    BY <1>2 DEF Accept, Slots, Filled
  <2> QED
    BY <2>1, <2>2, <2>3, <2>4, <2>5 DEF Held, TypeOK
<1>3. CASE Release
  <2>1. /\ DOMAIN pending' = Held \ {next}
        /\ \A x \in Held \ {next} : pending'[x] = pending[x]
    <3>1. pending' = Without(pending, next)
      BY <1>3 DEF Release
    <3> QED
      BY <3>1 DEF Without, Held
  <2>2. DOMAIN released = Slots /\ next \notin Slots
    BY DEF TypeOK, Slots
  <2>3. /\ released'[next] = Output("real", pending[next])
        /\ \A x \in Slots : released'[x] = released[x]
    BY <1>3, <2>2, FillSlot DEF Release
  <2>4. next' = next + 1 /\ Slots' = Slots \cup {next} /\ accepted' = accepted /\ next \in Held
    BY <1>3, NextSlot DEF Release, TypeOK
  <2>5. \A q \in DOMAIN accepted : IF q < next' THEN released'[q] = Output("real", accepted[q])
                                   ELSE q \in Held' /\ pending'[q] = accepted[q]
    <3> SUFFICES ASSUME NEW q \in DOMAIN accepted
                 PROVE  IF q < next' THEN released'[q] = Output("real", accepted[q])
                                     ELSE q \in Held' /\ pending'[q] = accepted[q]
      OBVIOUS
    <3>1. CASE q < next
      <4>1. q \in Slots /\ q < next'
        <5>1. q \in Nat /\ next \in Nat
          BY DEF TypeOK
        <5> QED
          BY <3>1, <2>4, <5>1 DEF Slots
      <4>2. released'[q] = released[q]
        BY <4>1, <2>3
      <4> QED
        BY <3>1, <4>1, <4>2
    <3>2. CASE q = next
      BY <3>2, <2>3, <2>4 DEF TypeOK
    <3>3. CASE q > next
      BY <3>3, <2>1, <2>4 DEF TypeOK, Held
    <3> QED
      BY <3>1, <3>2, <3>3 DEF TypeOK
  <2>6. \A q \in Held' : q >= next'
    BY <2>1, <2>4 DEF Held, TypeOK
  <2>7. \A s \in Slots' \ Filled' : s \in DOMAIN accepted'
    BY <2>3, <2>4 DEF Filled
  <2>8. Held' \subseteq DOMAIN accepted'
    BY <2>1, <2>4 DEF Held
  <2> QED
    BY <2>4, <2>5, <2>6, <2>7, <2>8
<1>4. CASE Conceal
  <2>1. DOMAIN released = Slots /\ next \notin Slots
    BY DEF TypeOK, Slots
  <2>2. /\ released'[next].kind \in {"repeat", "silence"}
        /\ \A x \in Slots : released'[x] = released[x]
    <3> DEFINE out == Output(IF Repeats THEN "repeat" ELSE "silence",
                             IF Repeats THEN lastBytes ELSE frameBytes)
    <3>1. released' = With(released, next, out)
      BY <1>4 DEF Conceal
    <3>2. out.kind \in {"repeat", "silence"}
      BY DEF Output
    <3> HIDE DEF out
    <3> QED
      BY <3>1, <3>2, <2>1, FillSlot
  <2>3. /\ next' = next + 1 /\ Slots' = Slots \cup {next}
        /\ UNCHANGED <<accepted, pending>> /\ next \notin Held
    BY <1>4, NextSlot DEF Conceal, TypeOK
  <2>4. next \notin DOMAIN accepted
    BY <2>3 DEF TypeOK
  <2>5. \A q \in DOMAIN accepted : q < next' <=> q < next
    BY <2>3, <2>4 DEF TypeOK
  <2>6. \A q \in DOMAIN accepted : q < next => q \in Slots
    BY DEF TypeOK, Slots
  <2> QED
    BY <2>2, <2>3, <2>4, <2>5, <2>6 DEF Held, Filled, TypeOK
<1>5. CASE Return
  BY <1>5 DEF Return, Held, Slots, Filled
<1>6. CASE Flush
  BY <1>6 DEF Flush, Held, Slots, Filled
<1>7. CASE UNCHANGED vars
  BY <1>7 DEF vars, Held, Slots, Filled
<1> QED
  BY <1>1, <1>2, <1>3, <1>4, <1>5, <1>6, <1>7 DEF Next, Loop

\* No accepted frame is lost, doubled or put out in another frame's slot, for any
\* order of arrival and any window.
THEOREM FramesInTheirSlots == Spec => []EveryFrameInItsSlot
<1>1. SlotInv => EveryFrameInItsSlot
  BY DEF SlotInv
<1> QED
  BY <1>1, TypeCorrect, SlotInvInit, SlotInvStep, PTL DEF Spec

-------------------------------------------------------------------------------
(***************************************************************************)
(* The books balance.  What an action may do to the counted sets is all    *)
(* the proof needs: one frame more is held, one less, or one slot more is  *)
(* filled.                                                                 *)
(***************************************************************************)
FiniteInv == IsFiniteSet(Held) /\ IsFiniteSet(DOMAIN accepted) /\ IsFiniteSet(Filled)

AccountInv == SlotsAccounted /\ FiniteInv

(* The invariant of the counts holds at first. *)
LEMMA AccountInvInit == Init => AccountInv
<1> SUFFICES ASSUME Init PROVE AccountInv
  OBVIOUS
<1>1. Held = {} /\ DOMAIN accepted = {} /\ Filled = {}
  BY DEF Init, Held, Filled, Slots
<1>2. received + lost = next /\ lost = 0
  BY DEF Init
<1> QED
  BY <1>1, <1>2, FS_EmptySet DEF AccountInv, SlotsAccounted, FiniteInv, Init

\* What Release and Conceal do to the set of filled slots.
LEMMA FilledAfter ==
    ASSUME TypeOK, NEW out, released' = With(released, next, out), next' = next + 1
    PROVE  Filled' = IF out.kind # "real" THEN Filled \cup {next} ELSE Filled
<1>1. Slots' = Slots \cup {next} /\ next \notin Slots
  BY NextSlot DEF TypeOK
<1>2. DOMAIN released = Slots
  BY DEF TypeOK
<1>3. /\ released'[next] = out
      /\ \A x \in Slots : released'[x] = released[x]
  BY <1>1, <1>2, FillSlot
<1> QED
  BY <1>1, <1>3 DEF Filled

(* Every step keeps it. *)
LEMMA AccountInvStep ==
    ASSUME TypeOK, SlotInv, AccountInv, [Next]_vars
    PROVE  AccountInv'
<1> USE DEF AccountInv, SlotsAccounted, FiniteInv
<1>0. /\ Cardinality(Held) \in Nat /\ Cardinality(Filled) \in Nat
      /\ next \in Nat /\ received \in Nat /\ lost \in Nat
  BY FS_CardinalityType DEF TypeOK
<1>1. ASSUME NEW q \in SequenceNumbers, NEW bytes \in PayloadSizes, Accept(q, bytes)
      PROVE  AccountInv'
  <2>1. Held' = Held \cup {q} /\ DOMAIN accepted' = DOMAIN accepted \cup {q}
    BY <1>1 DEF Accept, With, Held
  <2>2. q \notin Held
    BY <1>1 DEF Accept, IsDuplicate
  <2>3. Filled' = Filled /\ next' = next /\ lost' = lost /\ received' = received + 1
    BY <1>1 DEF Accept, Filled, Slots
  <2>4. /\ IsFiniteSet(Held') /\ IsFiniteSet(DOMAIN accepted')
        /\ Cardinality(Held') = Cardinality(Held) + 1
    BY <2>1, <2>2, FS_AddElement
  <2> QED
    BY <1>0, <2>3, <2>4
<1>2. CASE Release
  <2>1. /\ Held' = Held \ {next} /\ next \in Held /\ DOMAIN accepted' = DOMAIN accepted
        /\ next' = next + 1 /\ lost' = lost /\ received' = received
    BY <1>2 DEF Release, Without, Held, counters
  <2>2. Filled' = Filled
    <3>1. released' = With(released, next, Output("real", pending[next])) /\ next' = next + 1
      BY <1>2 DEF Release
    <3>2. Output("real", pending[next]).kind = "real"
      BY DEF Output
    <3> QED
      BY <3>1, <3>2, FilledAfter
  <2>3. IsFiniteSet(Held') /\ Cardinality(Held') = Cardinality(Held) - 1
    BY <2>1, FS_RemoveElement
  <2> QED
    BY <1>0, <2>1, <2>2, <2>3
<1>3. CASE Conceal
  <2>1. /\ Held' = Held /\ DOMAIN accepted' = DOMAIN accepted
        /\ next' = next + 1 /\ lost' = lost + 1 /\ received' = received
    BY <1>3 DEF Conceal, Held
  <2>2. Filled' = Filled \cup {next} /\ next \notin Filled
    <3> DEFINE out == Output(IF Repeats THEN "repeat" ELSE "silence",
                             IF Repeats THEN lastBytes ELSE frameBytes)
    <3>1. released' = With(released, next, out) /\ next' = next + 1
      BY <1>3 DEF Conceal
    <3>2. out.kind # "real"
      BY DEF Output
    <3> HIDE DEF out
    <3>3. Filled' = Filled \cup {next}
      BY <3>1, <3>2, FilledAfter
    <3>4. next \notin Filled
      BY <1>0 DEF Filled, Slots
    <3> QED
      BY <3>3, <3>4
  <2>3. IsFiniteSet(Filled') /\ Cardinality(Filled') = Cardinality(Filled) + 1
    BY <2>2, FS_AddElement
  <2> QED
    BY <1>0, <2>1, <2>3
<1>4. ASSUME UNCHANGED <<pending, accepted, released, next, lost, received>>
      PROVE  AccountInv'
  BY <1>4 DEF Held, Filled, Slots
<1> QED
  BY <1>1, <1>2, <1>3, <1>4
     DEF Next, Loop, Duplicate, Return, Flush, vars, counters

\* frames_received + frames_lost is the number of slots put out plus the frames held,
\* so loss_ratio counts each slot once, whatever the losses and the order.
THEOREM LossIsAccounted == Spec => []SlotsAccounted
<1>1. AccountInv => SlotsAccounted
  BY DEF AccountInv
<1> QED
  BY <1>1, TypeCorrect, SlotInvInit, SlotInvStep, AccountInvInit, AccountInvStep, PTL DEF Spec

-------------------------------------------------------------------------------
(***************************************************************************)
(* The window is an upper bound on what is held and a lower bound on what  *)
(* a given-up frame has been waited for.                                   *)
(***************************************************************************)
\* Between two calls the buffer holds at most a window of frames and none it could
\* put out.
THEOREM WindowIsBound == Spec => []NothingHeldBack
<1>1. Init => NothingHeldBack
  <2> SUFFICES ASSUME Init PROVE NothingHeldBack
    OBVIOUS
  <2>1. Held = {}
    BY DEF Init, Held
  <2> QED
    BY <2>1, FS_EmptySet DEF NothingHeldBack
<1>2. TypeOK /\ AccountInv /\ NothingHeldBack /\ [Next]_vars => NothingHeldBack'
  <2> SUFFICES ASSUME TypeOK, AccountInv, NothingHeldBack, [Next]_vars
               PROVE  NothingHeldBack'
    OBVIOUS
  <2>1. CASE Return
    <3>1. UNCHANGED <<Held, next>>
      BY <2>1 DEF Return, Held
    <3>2. Cardinality(Held) \in Nat
      BY FS_CardinalityType DEF AccountInv, FiniteInv
    <3>3. Held = {} => Cardinality(Held) = 0
      BY FS_EmptySet
    <3>4. Held = {} \/ (next \notin Held /\ ~GivesUp) \/ pc' # "idle"
      BY <2>1 DEF Return
    <3> QED
      BY <3>1, <3>2, <3>3, <3>4 DEF NothingHeldBack, GivesUp
  <2>2. ASSUME UNCHANGED <<pc, pending, next>> PROVE NothingHeldBack'
    BY <2>2 DEF NothingHeldBack, Held
  <2>3. ASSUME pc' # "idle" PROVE NothingHeldBack'
    BY <2>3 DEF NothingHeldBack
  <2>4. ASSUME NEW q \in SequenceNumbers, Duplicate(q) PROVE NothingHeldBack'
    BY <2>2, <2>4 DEF Duplicate
  <2>5. ASSUME NEW q \in SequenceNumbers, NEW bytes \in PayloadSizes, Accept(q, bytes)
        PROVE  NothingHeldBack'
    BY <2>3, <2>5 DEF Accept
  <2>6. Release \/ Conceal \/ Flush => NothingHeldBack'
    BY <2>3 DEF Release, Conceal, Flush
  <2>7. CASE UNCHANGED vars
    BY <2>2, <2>7 DEF vars
  <2> QED
    BY <2>1, <2>4, <2>5, <2>6, <2>7 DEF Next, Loop
<1> QED
  BY <1>1, <1>2, TypeCorrect, SlotInvInit, SlotInvStep, AccountInvInit, AccountInvStep,
     PTL DEF Spec

\* What a later frame than s is.
Behind(s) == {q \in DOMAIN accepted : q > s}

\* Before the end of the stream a frame is given up only behind a window of frames
\* that arrived and are later than it.
THEOREM NoFrameGivenUpEarly == Spec => []LostBehindFullWindow
<1>1. Init => LostBehindFullWindow
  BY DEF Init, LostBehindFullWindow, Filled, Slots
<1>2. TypeOK /\ SlotInv /\ AccountInv /\ LostBehindFullWindow /\ [Next]_vars
          => LostBehindFullWindow'
  <2> SUFFICES ASSUME TypeOK, SlotInv, AccountInv, LostBehindFullWindow, [Next]_vars,
                      pc' \in {"idle", "drain"}
               PROVE  \A s \in Filled' : Cardinality(Behind(s)') > Window
    BY DEF LostBehindFullWindow, Behind
  <2>0. \A s : IsFiniteSet(Behind(s)) /\ Cardinality(Behind(s)) \in Nat
    <3> SUFFICES ASSUME NEW s PROVE IsFiniteSet(Behind(s)) /\ Cardinality(Behind(s)) \in Nat
      OBVIOUS
    <3>1. Behind(s) \in SUBSET DOMAIN accepted /\ IsFiniteSet(DOMAIN accepted)
      BY DEF Behind, AccountInv, FiniteInv
    <3> QED
      BY <3>1, FS_Subset, FS_CardinalityType
  <2>1. ASSUME pc \in {"idle", "drain"}, UNCHANGED <<accepted, Filled>>
        PROVE  \A s \in Filled' : Cardinality(Behind(s)') > Window
    BY <2>1 DEF LostBehindFullWindow, Behind
  <2>2. ASSUME NEW q \in SequenceNumbers, NEW bytes \in PayloadSizes, Accept(q, bytes)
        PROVE  \A s \in Filled' : Cardinality(Behind(s)') > Window
    <3> SUFFICES ASSUME NEW s \in Filled' PROVE Cardinality(Behind(s)') > Window
      OBVIOUS
    <3>1. s \in Filled /\ pc = "idle"
      BY <2>2 DEF Accept, Filled, Slots
    <3>2. DOMAIN accepted' = DOMAIN accepted \cup {q}
      BY <2>2 DEF Accept, With
    <3>3. Behind(s) \in SUBSET Behind(s)'
      BY <3>2 DEF Behind
    <3>4. IsFiniteSet(Behind(s)')
      <4>1. Behind(s)' = IF q > s THEN Behind(s) \cup {q} ELSE Behind(s)
        BY <3>2 DEF Behind
      <4> QED
        BY <4>1, <2>0, FS_AddElement
    <3>5. Cardinality(Behind(s)) > Window
      BY <3>1 DEF LostBehindFullWindow, Behind
    <3>6. Cardinality(Behind(s)') \in Nat /\ Cardinality(Behind(s)) <= Cardinality(Behind(s)')
      BY <3>3, <3>4, FS_Subset, FS_CardinalityType
    <3> QED
      BY <3>5, <3>6, <2>0
  <2>3. CASE Release
    <3>1. released' = With(released, next, Output("real", pending[next])) /\ next' = next + 1
      BY <2>3 DEF Release
    <3>2. Output("real", pending[next]).kind = "real"
      BY DEF Output
    <3>3. Filled' = Filled
      BY <3>1, <3>2, FilledAfter
    <3> QED
      BY <2>1, <2>3, <3>3 DEF Release
  <2>4. CASE Conceal
    <3> DEFINE out == Output(IF Repeats THEN "repeat" ELSE "silence",
                             IF Repeats THEN lastBytes ELSE frameBytes)
    <3>1. released' = With(released, next, out) /\ next' = next + 1
      BY <2>4 DEF Conceal
    <3>2. out.kind # "real"
      BY DEF Output
    <3> HIDE DEF out
    <3>3. Filled' = Filled \cup {next}
      BY <3>1, <3>2, FilledAfter
    <3>4. pc = "drain" /\ accepted' = accepted /\ next \notin Held /\ Cardinality(Held) > Window
      BY <2>4 DEF Conceal, GivesUp
    <3>5. Held \in SUBSET Behind(next)
      <4> SUFFICES ASSUME NEW q \in Held PROVE q \in Behind(next)
        OBVIOUS
      <4>1. q \in DOMAIN accepted /\ q >= next /\ q # next
        BY <3>4 DEF SlotInv, HeldAccepted, EveryFrameInItsSlot
      <4>2. q \in Nat /\ next \in Nat
        BY DEF TypeOK
      <4> QED
        BY <4>1, <4>2 DEF Behind
    <3>6. Cardinality(Held) \in Nat /\ Cardinality(Held) <= Cardinality(Behind(next))
      BY <3>5, <2>0, FS_Subset, FS_CardinalityType
    <3>7. Cardinality(Behind(next)) > Window
      BY <3>4, <3>6, <2>0
    <3>8. \A s \in Filled : Cardinality(Behind(s)) > Window
      BY <3>4 DEF LostBehindFullWindow, Behind
    <3>9. \A s : Behind(s)' = Behind(s)
      BY <3>4 DEF Behind
    <3> QED
      BY <3>3, <3>7, <3>8, <3>9
  <2>5. ASSUME NEW q \in SequenceNumbers, Duplicate(q)
        PROVE  \A s \in Filled' : Cardinality(Behind(s)') > Window
    BY <2>1, <2>5 DEF Duplicate, Filled, Slots
  <2>6. CASE Return
    BY <2>1, <2>6 DEF Return, Filled, Slots
  <2>7. CASE Flush
    BY <2>7 DEF Flush
  <2>8. CASE UNCHANGED vars
    BY <2>1, <2>8 DEF vars, Filled, Slots
  <2> QED
    BY <2>2, <2>3, <2>4, <2>5, <2>6, <2>7, <2>8 DEF Next, Loop
<1> QED
  BY <1>1, <1>2, TypeCorrect, SlotInvInit, SlotInvStep, AccountInvInit, AccountInvStep,
     PTL DEF Spec

-------------------------------------------------------------------------------
(***************************************************************************)
(* Concealment stays short.  While it may still repeat, the buffer is      *)
(* exactly _repeats slots behind the last real frame.                      *)
(***************************************************************************)
Tail ==
    Repeats => LET r == next - 1 - repeats IN
        /\ r >= 0 /\ released[r] = Output("real", lastBytes)
        /\ \A t \in (r + 1) .. (next - 1) : released[t].kind = "repeat"

\* Behind a real frame at most max_repeat_frames repeats follow, each with that
\* frame's payload; after that comes silence.
THEOREM ConcealmentIsShort == Spec => []RepeatsAreShort
<1>1. Init => RepeatsAreShort /\ Tail
  BY DEF Init, RepeatsAreShort, Tail, Slots, Repeats
<1>2. TypeOK /\ RepeatsAreShort /\ Tail /\ [Next]_vars => (RepeatsAreShort /\ Tail)'
  <2> SUFFICES ASSUME TypeOK, RepeatsAreShort, Tail, [Next]_vars
               PROVE  RepeatsAreShort' /\ Tail'
    OBVIOUS
  <2>0. /\ next \in Nat /\ repeats \in 0 .. MaxRepeatFrames /\ lastBytes \in Nat
        /\ DOMAIN released = Slots /\ next \notin Slots
    BY DEF TypeOK, Slots
  <2>1. ASSUME UNCHANGED <<next, lastBytes, repeats, released>>
        PROVE  RepeatsAreShort' /\ Tail'
    BY <2>1 DEF RepeatsAreShort, Tail, Slots, Repeats
  <2>2. ASSUME NEW out, released' = With(released, next, out), next' = next + 1,
               out.kind = "repeat" =>
                  \E r \in (next - MaxRepeatFrames) .. (next - 1) :
                     /\ r >= 0 /\ released[r] = Output("real", out.bytes)
                     /\ \A t \in (r + 1) .. (next - 1) : released[t].kind = "repeat"
        PROVE  RepeatsAreShort'
    <3>1. /\ Slots' = Slots \cup {next} /\ released'[next] = out
          /\ \A x \in Slots : released'[x] = released[x]
      BY <2>0, <2>2, NextSlot, FillSlot
    <3> SUFFICES ASSUME NEW s \in Slots', released'[s].kind = "repeat"
                 PROVE  \E r \in (s - MaxRepeatFrames) .. (s - 1) :
                           /\ r >= 0 /\ released'[r] = Output("real", released'[s].bytes)
                           /\ \A t \in (r + 1) .. s : released'[t].kind = "repeat"
      BY DEF RepeatsAreShort
    <3>2. CASE s \in Slots
      <4>1. PICK r \in (s - MaxRepeatFrames) .. (s - 1) :
                   /\ r >= 0 /\ released[r] = Output("real", released[s].bytes)
                   /\ \A t \in (r + 1) .. s : released[t].kind = "repeat"
        BY <3>1, <3>2 DEF RepeatsAreShort
      <4>2. r \in Slots /\ \A t \in (r + 1) .. s : t \in Slots
        BY <3>2, <4>1, <2>0 DEF Slots
      <4> QED
        BY <3>1, <3>2, <4>1, <4>2
    <3>3. CASE s = next
      <4>1. PICK r \in (next - MaxRepeatFrames) .. (next - 1) :
                   /\ r >= 0 /\ released[r] = Output("real", out.bytes)
                   /\ \A t \in (r + 1) .. (next - 1) : released[t].kind = "repeat"
        BY <2>2, <3>1, <3>3
      <4>2. r \in Slots /\ \A t \in (r + 1) .. (next - 1) : t \in Slots
        BY <4>1, <2>0 DEF Slots
      <4>3. released'[r] = Output("real", released'[s].bytes)
        BY <3>1, <3>3, <4>1, <4>2
      <4>4. \A t \in (r + 1) .. s : released'[t].kind = "repeat"
        <5> SUFFICES ASSUME NEW t \in (r + 1) .. s PROVE released'[t].kind = "repeat"
          OBVIOUS
        <5>1. t = next \/ t \in (r + 1) .. (next - 1)
          BY <3>3, <2>0
        <5> QED
          BY <5>1, <3>1, <3>3, <4>1, <4>2
      <4> QED
        BY <3>3, <4>1, <4>3, <4>4
    <3> QED
      BY <3>1, <3>2, <3>3
  <2>3. CASE Release
    <3>1. released' = With(released, next, Output("real", pending[next])) /\ next' = next + 1
      BY <2>3 DEF Release
    <3>2. Output("real", pending[next]).kind # "repeat"
      BY DEF Output
    <3>3. RepeatsAreShort'
      BY <2>2, <3>1, <3>2
    <3>4. lastBytes' = pending[next] /\ repeats' = 0
      BY <2>3 DEF Release
    <3>5. released'[next] = Output("real", pending[next])
      BY <3>1, <2>0, FillSlot
    <3>6. Tail'
      BY <3>1, <3>4, <3>5, <2>0 DEF Tail
    <3> QED
      BY <3>3, <3>6
  <2>4. CASE Conceal /\ Repeats
    <3> DEFINE out == Output("repeat", lastBytes)
               r   == next - 1 - repeats
    <3>1. /\ released' = With(released, next, out) /\ next' = next + 1
          /\ repeats' = repeats + 1 /\ lastBytes' = lastBytes
      BY <2>4 DEF Conceal
    <3>2. out.kind = "repeat" /\ out.bytes = lastBytes
      BY DEF Output
    <3>3. repeats < MaxRepeatFrames
      BY <2>4 DEF Repeats
    <3>4. /\ r \in (next - MaxRepeatFrames) .. (next - 1)
          /\ r >= 0 /\ released[r] = Output("real", lastBytes)
          /\ \A t \in (r + 1) .. (next - 1) : released[t].kind = "repeat"
      BY <2>0, <2>4, <3>3 DEF Tail
    <3> HIDE DEF out
    <3>5. RepeatsAreShort'
      <4> HIDE DEF r
      <4> QED
        BY <2>2, <3>1, <3>2, <3>4
    <3>6. released'[next] = out /\ \A x \in Slots : released'[x] = released[x]
      BY <2>0, <3>1, FillSlot
    <3>7. r \in Slots /\ \A t \in (r + 1) .. (next - 1) : t \in Slots
      BY <2>0, <3>4 DEF Slots
    <3>8. next' - 1 - repeats' = r
      BY <2>0, <3>1
    <3>9. \A t \in (r + 1) .. (next' - 1) : released'[t].kind = "repeat"
      <4> SUFFICES ASSUME NEW t \in (r + 1) .. (next' - 1) PROVE released'[t].kind = "repeat"
        OBVIOUS
      <4>1. t = next \/ t \in (r + 1) .. (next - 1)
        BY <2>0, <3>1
      <4> QED
        BY <4>1, <3>2, <3>4, <3>6, <3>7
    <3>10. Tail'
      <4>1. r >= 0 /\ released'[r] = Output("real", lastBytes')
        BY <3>1, <3>4, <3>6, <3>7
      <4> HIDE DEF r
      <4> QED
        BY <4>1, <3>8, <3>9 DEF Tail
    <3> QED
      BY <3>5, <3>10
  <2>5. CASE Conceal /\ ~Repeats
    <3> DEFINE out == Output("silence", frameBytes)
    <3>1. released' = With(released, next, out) /\ next' = next + 1
      BY <2>5 DEF Conceal
    <3>2. out.kind # "repeat"
      BY DEF Output
    <3> HIDE DEF out
    <3>3. RepeatsAreShort'
      BY <2>2, <3>1, <3>2
    <3>4. UNCHANGED <<lastBytes, repeats>>
      BY <2>5 DEF Conceal
    <3>5. ~Repeats'
      BY <2>5, <3>4 DEF Repeats
    <3> QED
      BY <3>3, <3>5 DEF Tail
  <2> QED
    BY <2>1, <2>3, <2>4, <2>5 DEF Next, Loop, Duplicate, Accept, Return, Flush, vars
<1> QED
  BY <1>1, <1>2, TypeCorrect, PTL DEF Spec

-------------------------------------------------------------------------------
\* The window is exactly what is waited for, at both of its ends.
THEOREM WindowIsExact == Spec => []WindowIsKept
BY WindowIsBound, NoFrameGivenUpEarly, PTL DEF WindowIsKept

\* A lost frame is counted once, and at most max_repeat_frames repeats stand in for it
\* and its neighbours.
THEOREM ConcealmentIsHonest == Spec => []LossIsConcealed
BY LossIsAccounted, ConcealmentIsShort, PTL DEF LossIsConcealed

-------------------------------------------------------------------------------
(***************************************************************************)
(* The loops.  That a loop which can run on does run on is fairness, and   *)
(* LoopsEnd is checked for it; here is the bound on how long it runs.      *)
(***************************************************************************)
\* The slots up to the highest frame seen that are still to fill.
Left == highest + 1 - next

\* No frame is held beyond the highest, and no slot filled beyond it.
ReachInv == Left \in Nat /\ \A q \in Held : q <= highest

\* A step inside a loop leaves it, or fills one of the slots that are left.
LoopAdvances ==
    pc \in {"drain", "flush"} =>
        \/ pc' \in {"idle", "closed"} /\ UNCHANGED released
        \/ pc' = pc /\ Left' = Left - 1 /\ Left' \in Nat

\* A frame that is waited for lies below one that is held, so the loops do not pass the highest.
LEMMA ReachStep ==
    TypeOK /\ SlotInv /\ ReachInv /\ [Next]_vars => ReachInv' /\ [LoopAdvances]_vars
<1> SUFFICES ASSUME TypeOK, SlotInv, ReachInv, [Next]_vars, vars' # vars
             PROVE  ReachInv' /\ LoopAdvances
  BY DEF ReachInv, Left, Held, vars, counters
<1>1. next \in Nat /\ highest \in Nat \cup {-1} /\ \A q \in Held : q \in Nat /\ q >= next
  BY DEF TypeOK, SlotInv, EveryFrameInItsSlot
<1>2. ASSUME UNCHANGED <<pending, next, highest>>,
             pc \in {"drain", "flush"} => pc' \in {"idle", "closed"} /\ UNCHANGED released
      PROVE  ReachInv' /\ LoopAdvances
  BY <1>2 DEF ReachInv, Left, Held, LoopAdvances
<1>3. ASSUME NEW q \in SequenceNumbers, Duplicate(q) PROVE ReachInv' /\ LoopAdvances
  BY <1>2, <1>3 DEF Duplicate
<1>4. ASSUME NEW q \in SequenceNumbers, NEW bytes \in PayloadSizes, Accept(q, bytes)
      PROVE  ReachInv' /\ LoopAdvances
  <2>1. Held' = Held \cup {q} /\ next' = next /\ pc = "idle"
    BY <1>4 DEF Accept, Held, With
  <2>2. q \in Nat /\ highest' = IF q > highest THEN q ELSE highest
    BY <1>4 DEF Accept
  <2>3. highest' \in Nat \cup {-1} /\ highest <= highest' /\ q <= highest'
    BY <1>1, <2>2
  <2>4. Left' \in Nat
    <3>1. highest + 1 - next \in Nat
      BY DEF ReachInv, Left
    <3>2. \A h, g \in Nat \cup {-1}, n \in Nat : h + 1 - n \in Nat /\ h <= g => g + 1 - n \in Nat
      OBVIOUS
    <3>3. highest' + 1 - next \in Nat
      BY <1>1, <2>3, <3>1, <3>2
    <3> QED
      BY <2>1, <3>3 DEF Left
  <2>5. \A x \in Held' : x <= highest'
    BY <1>1, <2>1, <2>2, <2>3 DEF ReachInv
  <2> QED
    BY <2>1, <2>4, <2>5 DEF ReachInv, LoopAdvances
<1>5. CASE Release \/ Conceal
  <2>1. next' = next + 1 /\ highest' = highest /\ pc' = pc /\ Held' \subseteq Held
    BY <1>5 DEF Release, Conceal, counters, Held, Without
  <2>2. PICK q \in Held : q >= next /\ q <= highest
    BY <1>1, <1>5 DEF Release, Conceal, ReachInv
  <2>3. Left' = Left - 1 /\ Left' \in Nat
    BY <1>1, <2>1, <2>2 DEF Left
  <2> QED
    BY <2>1, <2>3 DEF ReachInv, LoopAdvances
<1>6. CASE Return
  BY <1>2, <1>6 DEF Return, counters
<1>7. CASE Flush
  BY <1>2, <1>7 DEF Flush, counters
<1> QED
  BY <1>3, <1>4, <1>5, <1>6, <1>7 DEF Next, Loop

\* push and flush are bounded however wide the gap is: each iteration fills one slot, and
\* there are no more of them than slots up to the highest sequence number seen.
THEOREM LoopsAreBounded == Spec => [][LoopAdvances]_vars
<1>1. Init => ReachInv
  BY DEF Init, ReachInv, Left, Held
<1>2. TypeOK /\ SlotInv /\ ReachInv /\ [Next]_vars => [LoopAdvances]_vars
  BY ReachStep
<1> QED
  BY <1>1, <1>2, ReachStep, TypeCorrect, SlotInvInit, SlotInvStep, PTL DEF Spec
==============================================================================
