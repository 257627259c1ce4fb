-------------------------- MODULE StreamSessionProofs --------------------------
(***************************************************************************)
(* The safety of StreamSession for every choice of its constants: any      *)
(* chunk sizes, any segment target, any window, any limits and any         *)
(* intervals.                                                              *)
(*                                                                         *)
(* The argument has five parts.  Sums are the folds of the model: they add *)
(* up in any order.  EndToEnd says how segments tile a stream of chunks,   *)
(* and from it follows how many bytes of a chunk they hold.  BaseInv is    *)
(* the type invariant with where the handler stands when nothing was       *)
(* streamed yet.  StorageInv says where every byte the handler took in is: *)
(* stored, full and not stored, or in the accumulator.  OutcomeInv,        *)
(* PaceInv, RawInv and ReportInv carry one property each.                  *)
(***************************************************************************)
EXTENDS StreamSession, FiniteSetTheorems, SequenceTheorems, WellFoundedInduction, TLAPS

-------------------------------------------------------------------------------
(***************************************************************************)
(* Sums.  The folds of the community modules are recursive functions on    *)
(* the subsets of a finite set; that they add up in any order follows from *)
(* the well-foundedness of these subsets, by looking at a least            *)
(* counterexample.                                                         *)
(***************************************************************************)

(* What holds of a set when it holds of all its proper subsets holds of every finite set. *)
LEMMA SubsetInduction ==
    ASSUME NEW D, IsFiniteSet(D), NEW Good,
           \A T \in SUBSET D : (\A U \in SUBSET T : U # T => U \in Good) => T \in Good
    PROVE  \A T \in SUBSET D : T \in Good
<1> DEFINE R == StrictSubsetOrdering(D)
           Bad == {T \in SUBSET D : T \notin Good}
<1>1. SUBSET D \subseteq FiniteSubsetsOf(D)
  BY FS_Subset DEF FiniteSubsetsOf
<1>2. IsWellFoundedOn(R, FiniteSubsetsOf(D))
  BY FS_StrictSubsetOrderingWellFounded
<1>3. ASSUME Bad # {} PROVE FALSE
  <2>1. Bad \subseteq FiniteSubsetsOf(D)
    BY <1>1
  <2> HIDE DEF R, Bad
  <2>2. PICK T \in Bad : \A U \in Bad : <<U, T>> \notin R
    BY <1>2, <1>3, <2>1, WFMin
  <2>3. \A U \in SUBSET T : U # T => U \in Good
    BY <2>2 DEF Bad, R, StrictSubsetOrdering
  <2> QED BY <2>2, <2>3 DEF Bad
<1> QED BY <1>3

\* An element of a set that is not empty, as the folds choose it.
Pick(s) == CHOOSE x \in s : TRUE

\* It is one, and leaves a smaller set.
LEMMA PickIsIn == \A s : s # {} => Pick(s) \in s /\ s \ {Pick(s)} \in SUBSET s /\ s \ {Pick(s)} # s
BY DEF Pick

(* g is the sum of the weights w over every subset of D. *)
SumsUp(w, D, g) ==
    g = [s \in SUBSET D |-> IF s = {} THEN 0 ELSE w[Pick(s)] + g[s \ {Pick(s)}]]

\* The sum of the weights w over D.
Sum(w, D) == (CHOOSE g : SumsUp(w, D, g))[D]

(* Two such functions agree wherever both are defined. *)
LEMMA SumsAgree ==
    ASSUME NEW w, NEW D, IsFiniteSet(D), NEW g, SumsUp(w, D, g),
           NEW E \in SUBSET D, NEW h, SumsUp(w, E, h)
    PROVE  \A s \in SUBSET E : g[s] = h[s]
<1> DEFINE Good == {s \in SUBSET E : g[s] = h[s]}
<1>1. IsFiniteSet(E)
  BY FS_Subset
<1>2. ASSUME NEW T \in SUBSET E, \A U \in SUBSET T : U # T => U \in Good
      PROVE  T \in Good
  <2>1. /\ g[T] = IF T = {} THEN 0 ELSE w[Pick(T)] + g[T \ {Pick(T)}]
        /\ h[T] = IF T = {} THEN 0 ELSE w[Pick(T)] + h[T \ {Pick(T)}]
    BY DEF SumsUp
  <2>2. T # {} => T \ {Pick(T)} \in Good
    BY <1>2, PickIsIn
  <2> QED BY <2>1, <2>2
<1> HIDE DEF Good
<1>3. \A T \in SUBSET E : T \in Good
  BY <1>1, <1>2, SubsetInduction
<1> QED BY <1>3 DEF Good

\* There is such a function, on every finite set.
LEMMA SumsExist ==
    ASSUME NEW w, NEW D, IsFiniteSet(D)
    PROVE  \A T \in SUBSET D : \E g : SumsUp(w, T, g)
<1> DEFINE Good == {T \in SUBSET D : \E g : SumsUp(w, T, g)}
<1>1. ASSUME NEW T \in SUBSET D, \A U \in SUBSET T : U # T => U \in Good
      PROVE  T \in Good
  <2> DEFINE V(s) == IF s = T THEN IF T = {} THEN 0 ELSE w[Pick(T)] + Sum(w, T \ {Pick(T)})
                     ELSE Sum(w, s)
             v == [s \in SUBSET T |-> V(s)]
  <2>1. ASSUME NEW s \in SUBSET T, s # T PROVE SumsUp(w, s, CHOOSE g : SumsUp(w, s, g))
    BY <1>1, <2>1
  <2>2. ASSUME NEW s \in SUBSET T
        PROVE  V(s) = IF s = {} THEN 0 ELSE w[Pick(s)] + Sum(w, s \ {Pick(s)})
    <3>1. CASE s = T
      BY <3>1
    <3>2. CASE s # T
      <4> DEFINE g == CHOOSE g : SumsUp(w, s, g)
      <4>1. SumsUp(w, s, g)
        BY <2>1, <3>2
      <4> HIDE DEF g
      <4>2. g[s] = IF s = {} THEN 0 ELSE w[Pick(s)] + g[s \ {Pick(s)}]
        BY <4>1 DEF SumsUp
      <4>3. ASSUME s # {} PROVE g[s \ {Pick(s)}] = Sum(w, s \ {Pick(s)})
        <5> DEFINE r == s \ {Pick(s)}
                   h == CHOOSE h : SumsUp(w, r, h)
        <5>1. r \in SUBSET s /\ r # T
          BY <3>2, <4>3, PickIsIn
        <5>2. SumsUp(w, r, h)
          BY <2>1, <5>1
        <5>3. IsFiniteSet(s)
          BY FS_Subset
        <5> HIDE DEF r, h
        <5>4. g[r] = h[r]
          BY <4>1, <5>1, <5>2, <5>3, SumsAgree
        <5> QED BY <5>4 DEF Sum, h, r
      <4> QED BY <3>2, <4>2, <4>3 DEF Sum, g
    <3> QED BY <3>1, <3>2
  <2>3. ASSUME NEW s \in SUBSET T, s # {}
        PROVE  v[s \ {Pick(s)}] = Sum(w, s \ {Pick(s)})
    BY <2>3, PickIsIn
  <2> HIDE DEF V
  <2>4. v = [s \in SUBSET T |-> IF s = {} THEN 0 ELSE w[Pick(s)] + v[s \ {Pick(s)}]]
    BY <2>2, <2>3
  <2> HIDE DEF v
  <2> QED BY <2>4 DEF SumsUp
<1> HIDE DEF Good
<1>2. \A T \in SUBSET D : T \in Good
  BY <1>1, SubsetInduction
<1> QED BY <1>2 DEF Good

\* So the sum over a set is the weight of one of its elements and the sum of the rest.
LEMMA SumEquation ==
    ASSUME NEW w, NEW D, IsFiniteSet(D)
    PROVE  Sum(w, D) = IF D = {} THEN 0 ELSE w[Pick(D)] + Sum(w, D \ {Pick(D)})
<1> DEFINE g == CHOOSE g : SumsUp(w, D, g)
           E == D \ {Pick(D)}
           h == CHOOSE h : SumsUp(w, E, h)
<1>1. SumsUp(w, D, g)
  BY SumsExist
<1>2. SumsUp(w, E, h)
  BY SumsExist
<1> HIDE DEF g, h
<1>3. g[D] = IF D = {} THEN 0 ELSE w[Pick(D)] + g[E]
  BY <1>1 DEF SumsUp
<1>4. g[E] = h[E]
  BY <1>1, <1>2, SumsAgree
<1> QED BY <1>3, <1>4 DEF Sum, g, h

(* Weights that are natural numbers add up to one, in any order. *)
Weighs(w, D) == \A x \in D : w[x] \in Nat

\* Sums of numbers are numbers.
LEMMA SumType ==
    ASSUME NEW D, IsFiniteSet(D), NEW w, Weighs(w, D)
    PROVE  \A T \in SUBSET D : Sum(w, T) \in Nat
<1> DEFINE Good == {T \in SUBSET D : Sum(w, T) \in Nat}
<1>1. ASSUME NEW T \in SUBSET D, \A U \in SUBSET T : U # T => U \in Good
      PROVE  T \in Good
  <2>1. IsFiniteSet(T)
    BY FS_Subset
  <2>2. Sum(w, T) = IF T = {} THEN 0 ELSE w[Pick(T)] + Sum(w, T \ {Pick(T)})
    BY <2>1, SumEquation
  <2>3. T # {} => Sum(w, T \ {Pick(T)}) \in Nat /\ w[Pick(T)] \in Nat
    BY <1>1, PickIsIn DEF Weighs
  <2> QED BY <2>2, <2>3
<1> HIDE DEF Good
<1>2. \A T \in SUBSET D : T \in Good
  BY <1>1, SubsetInduction
<1> QED BY <1>2 DEF Good

\* The element taken first does not matter.
LEMMA SumAnyOrder ==
    ASSUME NEW D, IsFiniteSet(D), NEW w, Weighs(w, D)
    PROVE  \A T \in SUBSET D : \A x \in T : Sum(w, T) = w[x] + Sum(w, T \ {x})
<1> DEFINE Good == {T \in SUBSET D : \A x \in T : Sum(w, T) = w[x] + Sum(w, T \ {x})}
<1>1. ASSUME NEW T \in SUBSET D, \A U \in SUBSET T : U # T => U \in Good
      PROVE  T \in Good
  <2> SUFFICES ASSUME NEW x \in T PROVE Sum(w, T) = w[x] + Sum(w, T \ {x})
    OBVIOUS
  <2> DEFINE p == Pick(T)
  <2>1. IsFiniteSet(T) /\ IsFiniteSet(T \ {x})
    BY FS_Subset
  <2>2. p \in T
    BY PickIsIn
  <2>3. Sum(w, T) = w[p] + Sum(w, T \ {p})
    BY <2>1, <2>2, SumEquation
  <2> HIDE DEF p
  <2>4. CASE x = p
    BY <2>3, <2>4
  <2>5. CASE x # p
    <3>1. T \ {p} \in Good /\ T \ {x} \in Good
      BY <1>1, <2>2
    <3>2. Sum(w, T \ {p}) = w[x] + Sum(w, (T \ {p}) \ {x})
      BY <2>5, <3>1
    <3>3. Sum(w, T \ {x}) = w[p] + Sum(w, (T \ {x}) \ {p})
      BY <2>2, <2>5, <3>1
    <3>4. (T \ {p}) \ {x} = (T \ {x}) \ {p}
      OBVIOUS
    <3>5. w[x] \in Nat /\ w[p] \in Nat /\ Sum(w, (T \ {x}) \ {p}) \in Nat
      BY <2>2, SumType DEF Weighs
    <3>6. Sum(w, T \ {p}) = w[x] + Sum(w, (T \ {x}) \ {p})
      BY <3>2, <3>4
    <3> HIDE DEF Good
    <3> QED BY <2>3, <3>3, <3>5, <3>6
  <2> QED BY <2>4, <2>5
<1> HIDE DEF Good
<1>2. \A T \in SUBSET D : T \in Good
  BY <1>1, SubsetInduction
<1> QED BY <1>2 DEF Good

\* An element more.
LEMMA SumOfOneMore ==
    ASSUME NEW D, IsFiniteSet(D), NEW x, x \notin D, NEW w, Weighs(w, D \cup {x})
    PROVE  Sum(w, D \cup {x}) = w[x] + Sum(w, D)
<1>1. IsFiniteSet(D \cup {x})
  BY FS_AddElement
<1>2. Sum(w, D \cup {x}) = w[x] + Sum(w, (D \cup {x}) \ {x})
  BY <1>1, SumAnyOrder
<1>3. (D \cup {x}) \ {x} = D
  OBVIOUS
<1> QED BY <1>2, <1>3

(* A sum depends on the weights of its own set only. *)
LEMMA SumOfTheSame ==
    ASSUME NEW D, IsFiniteSet(D), NEW w, NEW v, \A x \in D : w[x] = v[x]
    PROVE  \A T \in SUBSET D : Sum(w, T) = Sum(v, T)
<1> DEFINE Good == {T \in SUBSET D : Sum(w, T) = Sum(v, T)}
<1>1. ASSUME NEW T \in SUBSET D, \A U \in SUBSET T : U # T => U \in Good
      PROVE  T \in Good
  <2>1. IsFiniteSet(T)
    BY FS_Subset
  <2>2. /\ Sum(w, T) = IF T = {} THEN 0 ELSE w[Pick(T)] + Sum(w, T \ {Pick(T)})
        /\ Sum(v, T) = IF T = {} THEN 0 ELSE v[Pick(T)] + Sum(v, T \ {Pick(T)})
    BY <2>1, SumEquation
  <2>3. T # {} => Sum(w, T \ {Pick(T)}) = Sum(v, T \ {Pick(T)}) /\ w[Pick(T)] = v[Pick(T)]
    BY <1>1, PickIsIn
  <2> QED BY <2>2, <2>3
<1> HIDE DEF Good
<1>2. \A T \in SUBSET D : T \in Good
  BY <1>1, SubsetInduction
<1> QED BY <1>2 DEF Good

-------------------------------------------------------------------------------
(* The length of a sequence of chunks. *)

\* Total, which folds a sequence, is the sum of its elements over its positions.
LEMMA TotalIsSum == \A q : Total(q) = Sum(q, DOMAIN q)
BY DEF Total, FoldSeq, FoldFunction, FoldFunctionOnSet, MapThenFoldSet, Sum, SumsUp, Pick

\* A sequence has finitely many positions.
LEMMA SeqIsFinite ==
    ASSUME NEW q \in Seq(Nat)
    PROVE  DOMAIN q = 1..Len(q) /\ Len(q) \in Nat /\ IsFiniteSet(DOMAIN q) /\ Weighs(q, DOMAIN q)
<1>1. DOMAIN q = 1..Len(q) /\ Len(q) \in Nat
  OBVIOUS
<1>2. IsFiniteSet(1..Len(q))
  BY <1>1, FS_Interval
<1>3. Weighs(q, DOMAIN q)
  BY DEF Weighs
<1> QED BY <1>1, <1>2, <1>3

\* The empty sequence.
LEMMA TotalEmpty == Total(<<>>) = 0
<1>1. DOMAIN <<>> = {}
  OBVIOUS
<1>2. Sum(<<>>, {}) = 0
  BY FS_EmptySet, SumEquation
<1> QED BY <1>1, <1>2, TotalIsSum

\* Lengths add up to a length.
LEMMA TotalType ==
    ASSUME NEW q \in Seq(Nat)
    PROVE  Total(q) \in Nat
BY SeqIsFinite, SumType, TotalIsSum

\* A chunk more adds its length.
LEMMA TotalAppend ==
    ASSUME NEW q \in Seq(Nat), NEW n \in Nat
    PROVE  Total(Append(q, n)) = Total(q) + n
<1> DEFINE D == DOMAIN q
           r == Append(q, n)
           last == Len(q) + 1
<1>1. /\ r \in Seq(Nat) /\ DOMAIN r = D \cup {last} /\ last \notin D
      /\ r[last] = n /\ \A i \in D : r[i] = q[i]
  OBVIOUS
<1>2. IsFiniteSet(D) /\ Weighs(q, D) /\ Weighs(r, D \cup {last})
  BY <1>1, SeqIsFinite
<1> HIDE DEF D, r, last
<1>3. Sum(r, D) = Sum(q, D)
  <2>1. \A T \in SUBSET D : Sum(r, T) = Sum(q, T)
    BY <1>1, <1>2, SumOfTheSame
  <2> QED BY <2>1
<1>4. Sum(r, D \cup {last}) = r[last] + Sum(r, D)
  BY <1>1, <1>2, SumOfOneMore
<1>5. Total(q) = Sum(q, D)
  BY TotalIsSum DEF D
<1>6. Total(r) = Sum(r, D \cup {last})
  BY <1>1, TotalIsSum
<1>7. Total(q) \in Nat
  BY TotalType
<1>8. Total(r) = Total(q) + n
  BY <1>1, <1>3, <1>4, <1>5, <1>6, <1>7
<1> QED BY <1>8 DEF r

(* The least number principle for sets of numbers. *)
LEMMA NumberInduction ==
    ASSUME NEW Good, 0 \in Good, \A n \in Nat : n \in Good => n + 1 \in Good
    PROVE  \A n \in Nat : n \in Good
<1> DEFINE R == OpToRel(<, Nat)
           Bad == {n \in Nat : n \notin Good}
<1>1. IsWellFoundedOn(R, Nat)
  BY NatLessThanWellFounded
<1>2. \A m, n \in Nat : m < n => <<m, n>> \in R
  BY DEF OpToRel
<1>3. ASSUME Bad # {} PROVE FALSE
  <2>1. Bad \subseteq Nat
    OBVIOUS
  <2> HIDE DEF R, Bad
  <2>2. PICK n \in Bad : \A m \in Bad : <<m, n>> \notin R
    BY <1>1, <1>3, <2>1, WFMin
  <2>3. n \in Nat /\ n \notin Good /\ n # 0
    BY <2>2 DEF Bad
  <2>4. n - 1 \in Nat /\ n - 1 < n /\ (n - 1) + 1 = n
    BY <2>3
  <2>5. n - 1 \notin Good
    BY <2>3, <2>4
  <2> QED BY <1>2, <2>2, <2>3, <2>4, <2>5 DEF Bad
<1> QED BY <1>3

-------------------------------------------------------------------------------
(* Where chunk i of the chunks z ends. *)
EndOf(z, i) == Total(SubSeq(z, 1, i))

\* No chunk at all.
LEMMA EndOfZero == \A z : EndOf(z, 0) = 0
<1> SUFFICES ASSUME NEW z PROVE EndOf(z, 0) = 0
  OBVIOUS
<1>1. SubSeq(z, 1, 0) = <<>>
  BY SubSeqEmpty
<1> QED BY <1>1, TotalEmpty DEF EndOf

\* It is a number of bytes.
LEMMA EndOfType ==
    ASSUME NEW z \in Seq(Nat), NEW i \in 0..Len(z)
    PROVE  EndOf(z, i) \in Nat
<1>1. SubSeq(z, 1, i) \in Seq(Nat)
  OBVIOUS
<1> QED BY <1>1, TotalType DEF EndOf

\* A chunk begins where the one before it ends.
LEMMA EndOfNext ==
    ASSUME NEW z \in Seq(Nat), NEW i \in 1..Len(z)
    PROVE  EndOf(z, i) = EndOf(z, i - 1) + z[i]
<1>1. SubSeq(z, 1, i) = Append(SubSeq(z, 1, i - 1), z[i])
  OBVIOUS
<1>2. SubSeq(z, 1, i - 1) \in Seq(Nat) /\ z[i] \in Nat
  OBVIOUS
<1> QED BY <1>1, <1>2, TotalAppend DEF EndOf

\* A chunk more leaves the ends of the others where they are.
LEMMA EndOfAppend ==
    ASSUME NEW z \in Seq(Nat), NEW n \in Nat
    PROVE  /\ \A i \in 0..Len(z) : EndOf(Append(z, n), i) = EndOf(z, i)
           /\ EndOf(Append(z, n), Len(z) + 1) = EndOf(z, Len(z)) + n
<1>1. ASSUME NEW i \in 0..Len(z) PROVE EndOf(Append(z, n), i) = EndOf(z, i)
  <2>1. SubSeq(Append(z, n), 1, i) = SubSeq(z, 1, i)
    OBVIOUS
  <2> QED BY <2>1 DEF EndOf
<1> DEFINE r == Append(z, n)
<1>2. r \in Seq(Nat) /\ Len(z) + 1 \in 1..Len(r) /\ r[Len(z) + 1] = n /\ (Len(z) + 1) - 1 = Len(z)
  OBVIOUS
<1>3. EndOf(r, Len(z)) = EndOf(z, Len(z))
  BY <1>1
<1> HIDE DEF r
<1>4. EndOf(r, Len(z) + 1) = EndOf(z, Len(z)) + n
  BY <1>2, <1>3, EndOfNext
<1> QED BY <1>1, <1>4 DEF r

\* Chunks lie in their order.
LEMMA EndOfGrows ==
    ASSUME NEW z \in Seq(Nat)
    PROVE  \A i, j \in 0..Len(z) : i <= j => EndOf(z, i) <= EndOf(z, j)
<1> SUFFICES ASSUME NEW i \in 0..Len(z)
             PROVE  \A j \in 0..Len(z) : i <= j => EndOf(z, i) <= EndOf(z, j)
  OBVIOUS
<1> DEFINE Good == {d \in Nat : i + d <= Len(z) => EndOf(z, i) <= EndOf(z, i + d)}
<1>1. 0 \in Good
  <2>1. i + 0 = i /\ EndOf(z, i) \in Nat
    BY EndOfType
  <2> QED BY <2>1
<1>2. ASSUME NEW d \in Nat, d \in Good PROVE d + 1 \in Good
  <2> SUFFICES ASSUME i + (d + 1) <= Len(z) PROVE EndOf(z, i) <= EndOf(z, i + (d + 1))
    OBVIOUS
  <2> DEFINE j == i + d
  <2>1. j \in 0..Len(z) /\ j + 1 \in 1..Len(z) /\ i + (d + 1) = j + 1 /\ (j + 1) - 1 = j
    OBVIOUS
  <2>2. EndOf(z, i) <= EndOf(z, j)
    BY <1>2, <2>1
  <2> HIDE DEF j
  <2>3. EndOf(z, j + 1) = EndOf(z, j) + z[j + 1]
    BY <2>1, EndOfNext
  <2>4. EndOf(z, i) \in Nat /\ EndOf(z, j) \in Nat /\ z[j + 1] \in Nat
    BY <2>1, EndOfType
  <2> QED BY <2>1, <2>2, <2>3, <2>4
<1> HIDE DEF Good
<1>3. \A d \in Nat : d \in Good
  BY <1>1, <1>2, NumberInduction
<1> SUFFICES ASSUME NEW j \in 0..Len(z), i <= j PROVE EndOf(z, i) <= EndOf(z, j)
  OBVIOUS
<1>4. j - i \in Nat /\ i + (j - i) = j /\ j <= Len(z)
  OBVIOUS
<1>5. j - i \in Good
  BY <1>3, <1>4
<1> QED BY <1>4, <1>5 DEF Good

-------------------------------------------------------------------------------
(***************************************************************************)
(* How chunks and segments cut each other.                                 *)
(***************************************************************************)
\* A slice: which bytes of which chunk it holds, and where in its segment.
SliceType == [chunk : Nat, from : Nat, to : Nat, segFrom : Nat, segTo : Nat]
\* The accumulator.
StreamType == [filled : Nat, slices : Seq(SliceType), cursor : Nat, start : Nat, chunks : Nat]

(* Slice sl lies within its chunk of z, and in a segment that begins at byte start. *)
LiesWithin(z, sl, start) ==
    /\ sl.segFrom < sl.segTo
    /\ sl.from = start + sl.segFrom /\ sl.to = start + sl.segTo
    /\ sl.chunk + 1 \in DOMAIN z
    /\ EndOf(z, sl.chunk) <= sl.from /\ sl.to <= EndOf(z, sl.chunk + 1)

(* The slices of a segment that begins at byte start and has n bytes so far: end to   *)
(* end, no byte twice and none left out.                                              *)
CutsUp(z, slices, start, n) ==
    /\ slices \in Seq(SliceType)
    /\ slices = <<>> => n = 0
    /\ slices # <<>> => slices[Len(slices)].segTo = n
    /\ \A j \in DOMAIN slices :
         /\ LiesWithin(z, slices[j], start)
         /\ slices[j].segFrom = (IF j = 1 THEN 0 ELSE slices[j - 1].segTo)
         /\ slices[j].segTo <= n
    /\ \A i, j \in DOMAIN slices : i < j => slices[i].segTo <= slices[j].segFrom
    /\ \A x \in 0..n - 1 : \E j \in DOMAIN slices : slices[j].segFrom <= x /\ x < slices[j].segTo

(* A segment, of a size it may have. *)
IsSegment(z, seg, sized) ==
    /\ seg \in SegmentType /\ seg.start < seg.end
    /\ seg.end - seg.start \in sized
    /\ CutsUp(z, seg.slices, seg.start, seg.end - seg.start)

\* The sizes a segment may have before the session is completed.
Full == {SegmentTarget}

\* The segments of segs lie end to end from byte from to byte to, all full but the last,
\* whose size is one of lastSized.
EndToEnd(z, segs, from, to, lastSized) ==
    /\ segs \in Seq(SegmentType)
    /\ segs = <<>> => to = from
    /\ segs # <<>> => segs[Len(segs)].end = to
    /\ \A k \in DOMAIN segs :
         /\ IsSegment(z, segs[k], IF k = Len(segs) THEN lastSized ELSE Full)
         /\ segs[k].start = (IF k = 1 THEN from ELSE segs[k - 1].end)
         /\ segs[k].end <= to
    /\ \A i, k \in DOMAIN segs : i < k => segs[i].end <= segs[k].start
    /\ \A x \in from..to - 1 : \E k \in DOMAIN segs : segs[k].start <= x /\ x < segs[k].end

(* A chunk more in the stream leaves what was cut as it was. *)
LEMMA LiesGrow ==
    ASSUME NEW z \in Seq(Nat), NEW n \in Nat, NEW sl \in SliceType, NEW start \in Nat,
           LiesWithin(z, sl, start)
    PROVE  LiesWithin(Append(z, n), sl, start)
<1>1. /\ sl.chunk + 1 \in 1..Len(z) /\ sl.chunk \in 0..Len(z)
      /\ sl.chunk + 1 \in 0..Len(z) /\ sl.chunk + 1 \in DOMAIN Append(z, n)
  BY DEF LiesWithin, SliceType
<1>2. /\ EndOf(Append(z, n), sl.chunk) = EndOf(z, sl.chunk)
      /\ EndOf(Append(z, n), sl.chunk + 1) = EndOf(z, sl.chunk + 1)
  BY <1>1, EndOfAppend
<1> QED BY <1>1, <1>2 DEF LiesWithin

\* So do the slices of a segment.
LEMMA CutsUpGrow ==
    ASSUME NEW z \in Seq(Nat), NEW n \in Nat, NEW slices, NEW start \in Nat, NEW k,
           CutsUp(z, slices, start, k)
    PROVE  CutsUp(Append(z, n), slices, start, k)
<1>1. \A j \in DOMAIN slices : slices[j] \in SliceType
  BY DEF CutsUp
<1>2. \A j \in DOMAIN slices : LiesWithin(Append(z, n), slices[j], start)
  BY <1>1, LiesGrow DEF CutsUp
<1> QED BY <1>2 DEF CutsUp

\* So does a segment.
LEMMA SegmentGrow ==
    ASSUME NEW z \in Seq(Nat), NEW n \in Nat, NEW seg, NEW sized, IsSegment(z, seg, sized)
    PROVE  IsSegment(Append(z, n), seg, sized)
<1>1. seg.start \in Nat
  BY DEF IsSegment, SegmentType
<1> QED BY <1>1, CutsUpGrow DEF IsSegment

\* So do all of them.
LEMMA EndToEndGrow ==
    ASSUME NEW z \in Seq(Nat), NEW n \in Nat, NEW segs, NEW from, NEW to, NEW sized,
           EndToEnd(z, segs, from, to, sized)
    PROVE  EndToEnd(Append(z, n), segs, from, to, sized)
<1>1. \A k \in DOMAIN segs :
        IsSegment(Append(z, n), segs[k], IF k = Len(segs) THEN sized ELSE Full)
  BY SegmentGrow DEF EndToEnd
<1> QED BY <1>1 DEF EndToEnd

(* Nothing is cut up into nothing. *)
LEMMA NothingCut ==
    /\ \A z, start : CutsUp(z, <<>>, start, 0)
    /\ \A z, sized : \A from \in Nat : EndToEnd(z, <<>>, from, from, sized)
BY DEF CutsUp, EndToEnd

(* A slice that begins where the last one ended. *)
LEMMA OneMoreSlice ==
    ASSUME NEW z, NEW start \in Nat, NEW n \in Nat, NEW slices, CutsUp(z, slices, start, n),
           NEW sl \in SliceType, sl.segFrom = n, LiesWithin(z, sl, start)
    PROVE  CutsUp(z, Append(slices, sl), start, sl.segTo)
<1> DEFINE more == Append(slices, sl)
           L == Len(slices)
           t == sl.segTo
<1>0. slices \in Seq(SliceType)
  BY DEF CutsUp
<1>1. /\ slices \in Seq(SliceType) /\ more \in Seq(SliceType) /\ L \in Nat
      /\ Len(more) = L + 1 /\ more # <<>>
      /\ DOMAIN slices = 1..L /\ DOMAIN more = 1..(L + 1)
      /\ more[L + 1] = sl /\ \A j \in 1..L : more[j] = slices[j]
  <2> HIDE DEF SliceType
  <2>1. L \in Nat /\ DOMAIN slices = 1..L /\ sl \in SliceType
    BY <1>0
  <2> QED BY <1>0, <2>1, AppendProperties
<1>2. t \in Nat /\ n < t /\ sl.segFrom = n
  BY DEF LiesWithin, SliceType
<1>3. \A j \in 1..L : /\ slices[j] \in SliceType
                      /\ slices[j].segTo \in Nat /\ slices[j].segFrom \in Nat
                      /\ slices[j].segTo <= n
  <2>1. \A j \in 1..L : slices[j] \in SliceType
    BY <1>0
  <2>2. \A j \in 1..L : slices[j].segTo \in Nat /\ slices[j].segFrom \in Nat
    BY <2>1 DEF SliceType
  <2>3. \A j \in 1..L : slices[j].segTo <= n
    BY <1>1 DEF CutsUp
  <2> QED BY <2>1, <2>2, <2>3
<1>4. L # 0 => slices[L].segTo = n
  BY <1>1 DEF CutsUp
<1>5. L = 0 => n = 0
  BY <1>1 DEF CutsUp
<1> HIDE DEF more
<1>6. \A j \in DOMAIN more : LiesWithin(z, more[j], start)
  BY <1>1 DEF CutsUp
<1>7. \A j \in DOMAIN more : more[j].segFrom = (IF j = 1 THEN 0 ELSE more[j - 1].segTo)
  <2> SUFFICES ASSUME NEW j \in 1..(L + 1)
               PROVE  more[j].segFrom = (IF j = 1 THEN 0 ELSE more[j - 1].segTo)
    BY <1>1
  <2>1. CASE j \in 1..L
    <3>1. more[j] = slices[j] /\ (j # 1 => more[j - 1] = slices[j - 1])
      BY <1>1, <2>1
    <3>2. slices[j].segFrom = (IF j = 1 THEN 0 ELSE slices[j - 1].segTo)
      BY <1>1, <2>1 DEF CutsUp
    <3> QED BY <3>1, <3>2
  <2>2. CASE j = L + 1
    <3>1. more[j] = sl
      BY <1>1, <2>2
    <3>2. CASE L = 0
      BY <1>2, <1>5, <2>2, <3>1, <3>2
    <3>3. CASE L # 0
      <4>1. j # 1 /\ j - 1 = L /\ L \in 1..L
        BY <1>1, <2>2, <3>3
      <4> QED BY <1>1, <1>2, <1>4, <3>1, <3>3, <4>1
    <3> QED BY <3>2, <3>3
  <2> QED BY <1>1, <2>1, <2>2
<1>8. \A j \in DOMAIN more : more[j].segTo <= t
  <2>1. \A j \in 1..L : slices[j].segTo <= t
    BY <1>2, <1>3
  <2> QED BY <1>1, <1>2, <2>1
<1>9. \A i, j \in DOMAIN more : i < j => more[i].segTo <= more[j].segFrom
  <2> SUFFICES ASSUME NEW i \in 1..(L + 1), NEW j \in 1..(L + 1), i < j
               PROVE  more[i].segTo <= more[j].segFrom
    BY <1>1
  <2>1. i \in 1..L
    BY <1>1
  <2>2. CASE j \in 1..L
    BY <1>1, <2>1, <2>2 DEF CutsUp
  <2>3. CASE j = L + 1
    BY <1>1, <1>2, <1>3, <2>1, <2>3
  <2> QED BY <1>1, <2>2, <2>3
<1>10. ASSUME NEW x \in 0..t - 1
       PROVE  \E j \in DOMAIN more : more[j].segFrom <= x /\ x < more[j].segTo
  <2>1. CASE x < n
    <3>1. x \in 0..n - 1
      BY <1>2, <2>1
    <3>2. PICK j \in DOMAIN slices : slices[j].segFrom <= x /\ x < slices[j].segTo
      BY <3>1 DEF CutsUp
    <3>3. j \in DOMAIN more /\ more[j] = slices[j]
      BY <1>1, <3>2
    <3> QED BY <3>2, <3>3
  <2>2. CASE ~(x < n)
    <3>1. sl.segFrom <= x /\ x < sl.segTo
      BY <1>2, <2>2
    <3>2. L + 1 \in DOMAIN more /\ more[L + 1] = sl
      BY <1>1
    <3> QED BY <3>1, <3>2
  <2> QED BY <2>1, <2>2
<1>11. more # <<>> /\ more[Len(more)].segTo = t
  BY <1>1
<1>12. CutsUp(z, more, start, t)
  BY <1>1, <1>6, <1>7, <1>8, <1>9, <1>10, <1>11 DEF CutsUp
<1> QED BY <1>12 DEF more

(* The segments lie in what they make up. *)
LEMMA SegmentsLie ==
    ASSUME NEW z, NEW segs, NEW from \in Nat, NEW to \in Nat, NEW sized,
           EndToEnd(z, segs, from, to, sized)
    PROVE  /\ from <= to /\ Len(segs) \in Nat /\ DOMAIN segs = 1..Len(segs)
           /\ \A k \in DOMAIN segs : /\ segs[k] \in SegmentType
                                     /\ segs[k].start \in Nat /\ segs[k].end \in Nat
                                     /\ from <= segs[k].start /\ segs[k].start < segs[k].end
                                     /\ segs[k].end <= to
<1>1. segs \in Seq(SegmentType) /\ Len(segs) \in Nat /\ DOMAIN segs = 1..Len(segs)
  BY DEF EndToEnd
<1>2. \A k \in DOMAIN segs :
        /\ segs[k] \in SegmentType /\ segs[k].start < segs[k].end /\ segs[k].end <= to
        /\ segs[k].start = (IF k = 1 THEN from ELSE segs[k - 1].end)
  BY <1>1 DEF EndToEnd, IsSegment
<1>3. \A k \in DOMAIN segs : segs[k].start \in Nat /\ segs[k].end \in Nat
  BY <1>2 DEF SegmentType
<1>4. ASSUME NEW k \in DOMAIN segs PROVE from <= segs[k].start
  <2>1. CASE k = 1
    BY <1>2, <2>1
  <2>2. CASE k # 1
    <3>1. 1 \in DOMAIN segs /\ 1 < k
      BY <1>1, <2>2
    <3>2. segs[1].start = from /\ segs[1].start < segs[1].end /\ segs[1].end <= segs[k].start
      BY <1>2, <3>1 DEF EndToEnd
    <3> QED BY <1>3, <3>1, <3>2
  <2> QED BY <2>1, <2>2
<1>5. from <= to
  <2>1. CASE segs = <<>>
    BY <2>1 DEF EndToEnd
  <2>2. CASE segs # <<>>
    <3>1. 1 \in DOMAIN segs
      BY <1>1, <2>2
    <3> QED BY <1>2, <1>3, <1>4, <3>1
  <2> QED BY <2>1, <2>2
<1> QED BY <1>1, <1>2, <1>3, <1>4, <1>5

(* A segment that begins where the last one ended. *)
LEMMA OneMoreSegment ==
    ASSUME NEW z, NEW segs, NEW from \in Nat, NEW to \in Nat, EndToEnd(z, segs, from, to, Full),
           NEW seg, NEW sized, IsSegment(z, seg, sized), seg.start = to
    PROVE  EndToEnd(z, Append(segs, seg), from, seg.end, sized)
<1> DEFINE more == Append(segs, seg)
           L == Len(segs)
           t == seg.end
<1>1. /\ segs \in Seq(SegmentType) /\ seg \in SegmentType /\ more \in Seq(SegmentType) /\ L \in Nat
      /\ Len(more) = L + 1 /\ more # <<>>
      /\ DOMAIN segs = 1..L /\ DOMAIN more = 1..(L + 1)
      /\ more[L + 1] = seg /\ \A j \in 1..L : more[j] = segs[j]
  BY DEF EndToEnd, IsSegment
<1>2. t \in Nat /\ to < t /\ seg.start = to
  BY DEF IsSegment, SegmentType
<1>3. \A k \in 1..L : /\ segs[k].start \in Nat /\ segs[k].end \in Nat /\ segs[k].end <= to
  BY <1>1, SegmentsLie
<1>4. L # 0 => segs[L].end = to
  BY <1>1 DEF EndToEnd
<1>5. L = 0 => to = from
  BY <1>1 DEF EndToEnd
<1> HIDE DEF more
<1>6. \A k \in DOMAIN more : IsSegment(z, more[k], IF k = Len(more) THEN sized ELSE Full)
  <2> SUFFICES ASSUME NEW k \in 1..(L + 1)
               PROVE  IsSegment(z, more[k], IF k = L + 1 THEN sized ELSE Full)
    BY <1>1
  <2>1. CASE k \in 1..L
    <3>1. IsSegment(z, segs[k], Full)
      BY <1>1, <2>1 DEF EndToEnd
    <3> QED BY <1>1, <2>1, <3>1
  <2>2. CASE k = L + 1
    BY <1>1, <2>2
  <2> QED BY <1>1, <2>1, <2>2
<1>7. \A k \in DOMAIN more : more[k].start = (IF k = 1 THEN from ELSE more[k - 1].end)
  <2> SUFFICES ASSUME NEW k \in 1..(L + 1)
               PROVE  more[k].start = (IF k = 1 THEN from ELSE more[k - 1].end)
    BY <1>1
  <2>1. CASE k \in 1..L
    <3>1. more[k] = segs[k] /\ (k # 1 => more[k - 1] = segs[k - 1])
      BY <1>1, <2>1
    <3>2. segs[k].start = (IF k = 1 THEN from ELSE segs[k - 1].end)
      BY <1>1, <2>1 DEF EndToEnd
    <3> QED BY <3>1, <3>2
  <2>2. CASE k = L + 1
    <3>1. more[k] = seg
      BY <1>1, <2>2
    <3>2. CASE L = 0
      BY <1>2, <1>5, <2>2, <3>1, <3>2
    <3>3. CASE L # 0
      <4>1. k # 1 /\ k - 1 = L /\ L \in 1..L
        BY <1>1, <2>2, <3>3
      <4> QED BY <1>1, <1>2, <1>4, <3>1, <3>3, <4>1
    <3> QED BY <3>2, <3>3
  <2> QED BY <1>1, <2>1, <2>2
<1>8. \A k \in DOMAIN more : more[k].end <= t
  <2>1. \A k \in 1..L : segs[k].end <= t
    BY <1>2, <1>3
  <2> QED BY <1>1, <1>2, <2>1
<1>9. \A i, k \in DOMAIN more : i < k => more[i].end <= more[k].start
  <2> SUFFICES ASSUME NEW i \in 1..(L + 1), NEW k \in 1..(L + 1), i < k
               PROVE  more[i].end <= more[k].start
    BY <1>1
  <2>1. i \in 1..L
    BY <1>1
  <2>2. CASE k \in 1..L
    BY <1>1, <2>1, <2>2 DEF EndToEnd
  <2>3. CASE k = L + 1
    BY <1>1, <1>2, <1>3, <2>1, <2>3
  <2> QED BY <1>1, <2>2, <2>3
<1>10. ASSUME NEW x \in from..t - 1
       PROVE  \E k \in DOMAIN more : more[k].start <= x /\ x < more[k].end
  <2>1. CASE x < to
    <3>1. x \in from..to - 1
      BY <1>2, <2>1
    <3>2. PICK k \in DOMAIN segs : segs[k].start <= x /\ x < segs[k].end
      BY <3>1 DEF EndToEnd
    <3>3. k \in DOMAIN more /\ more[k] = segs[k]
      BY <1>1, <3>2
    <3> QED BY <3>2, <3>3
  <2>2. CASE ~(x < to)
    <3>1. seg.start <= x /\ x < seg.end
      BY <1>2, <2>2
    <3>2. L + 1 \in DOMAIN more /\ more[L + 1] = seg
      BY <1>1
    <3> QED BY <3>1, <3>2
  <2> QED BY <2>1, <2>2
<1>11. more # <<>> /\ more[Len(more)].end = t
  BY <1>1
<1>12. EndToEnd(z, more, from, t, sized)
  BY <1>1, <1>6, <1>7, <1>8, <1>9, <1>10, <1>11 DEF EndToEnd
<1> QED BY <1>12 DEF more

(* The first of the segments that wait, and the others. *)
LEMMA FirstSegment ==
    ASSUME NEW z, NEW segs, NEW from \in Nat, NEW to \in Nat, EndToEnd(z, segs, from, to, Full),
           segs # <<>>
    PROVE  /\ IsSegment(z, Head(segs), Full) /\ Head(segs).start = from
           /\ EndToEnd(z, Tail(segs), Head(segs).end, to, Full)
<1> DEFINE rest == Tail(segs)
           L == Len(segs)
           h == Head(segs)
<1>1. /\ segs \in Seq(SegmentType) /\ L \in Nat /\ L >= 1 /\ rest \in Seq(SegmentType)
      /\ Len(rest) = L - 1 /\ DOMAIN segs = 1..L /\ DOMAIN rest = 1..(L - 1)
      /\ h = segs[1] /\ \A j \in 1..(L - 1) : rest[j] = segs[j + 1]
  BY DEF EndToEnd
<1> HIDE DEF rest, h
<1>2. \A k \in 1..L : /\ IsSegment(z, segs[k], Full)
                      /\ segs[k].start = (IF k = 1 THEN from ELSE segs[k - 1].end)
                      /\ segs[k].end <= to
  BY <1>1 DEF EndToEnd
<1>3. \A k \in 1..L : segs[k].start \in Nat /\ segs[k].end \in Nat
  BY <1>1, SegmentsLie
<1>4. \A k \in DOMAIN rest : IsSegment(z, rest[k], IF k = Len(rest) THEN Full ELSE Full)
  <2>1. \A k \in 1..(L - 1) : k + 1 \in 1..L /\ rest[k] = segs[k + 1]
    BY <1>1
  <2> QED BY <1>1, <1>2, <2>1
<1>5. ASSUME NEW k \in DOMAIN rest
      PROVE  /\ rest[k].start = (IF k = 1 THEN h.end ELSE rest[k - 1].end)
             /\ rest[k].end <= to
  <2>1. k + 1 \in 1..L /\ rest[k] = segs[k + 1] /\ k + 1 # 1 /\ (k + 1) - 1 = k
    BY <1>1
  <2>2. segs[k + 1].start = segs[k].end /\ segs[k + 1].end <= to
    BY <1>2, <2>1
  <2>3. IF k = 1 THEN h = segs[k] ELSE rest[k - 1] = segs[k]
    BY <1>1
  <2> QED BY <2>1, <2>2, <2>3
<1>6. \A i, k \in DOMAIN rest : i < k => rest[i].end <= rest[k].start
  <2> SUFFICES ASSUME NEW i \in 1..(L - 1), NEW k \in 1..(L - 1), i < k
               PROVE  rest[i].end <= rest[k].start
    BY <1>1
  <2>1. i + 1 \in DOMAIN segs /\ k + 1 \in DOMAIN segs /\ i + 1 < k + 1
    BY <1>1
  <2>2. segs[i + 1].end <= segs[k + 1].start
    BY <2>1 DEF EndToEnd
  <2> QED BY <1>1, <2>2
<1>7. ASSUME NEW x \in h.end..to - 1
      PROVE  \E k \in DOMAIN rest : rest[k].start <= x /\ x < rest[k].end
  <2>1. h.end \in Nat /\ h.start = from /\ from < h.end
    BY <1>1, <1>2, <1>3 DEF IsSegment
  <2>2. x \in from..to - 1
    BY <2>1
  <2>3. PICK k \in DOMAIN segs : segs[k].start <= x /\ x < segs[k].end
    BY <2>2 DEF EndToEnd
  <2>4. k # 1
    BY <1>1, <1>3, <2>1, <2>3
  <2>5. k - 1 \in DOMAIN rest /\ rest[k - 1] = segs[k]
    BY <1>1, <2>3, <2>4
  <2> QED BY <2>3, <2>5
<1>8. rest = <<>> => to = h.end
  <2> SUFFICES ASSUME rest = <<>> PROVE to = h.end
    OBVIOUS
  <2>1. L = 1
    BY <1>1
  <2> QED BY <1>1, <2>1 DEF EndToEnd
<1>9. rest # <<>> => rest[Len(rest)].end = to
  <2> SUFFICES ASSUME rest # <<>> PROVE rest[L - 1].end = to
    BY <1>1
  <2>1. L - 1 # 0
    BY <1>1
  <2>2. rest[L - 1] = segs[L]
    BY <1>1, <2>1
  <2> QED BY <1>1, <2>2 DEF EndToEnd
<1>10. EndToEnd(z, rest, h.end, to, Full)
  BY <1>1, <1>4, <1>5, <1>6, <1>7, <1>8, <1>9 DEF EndToEnd
<1>11. IsSegment(z, h, Full) /\ h.start = from
  BY <1>1, <1>2
<1> QED BY <1>10, <1>11 DEF rest, h

(* When the session completes, the last segment may be a full one. *)
LEMMA LastMayBeFull ==
    ASSUME NEW z, NEW segs, NEW from, NEW to, EndToEnd(z, segs, from, to, Full)
    PROVE  EndToEnd(z, segs, from, to, 1..SegmentTarget)
<1>1. SegmentTarget \in 1..SegmentTarget
  BY StreamAssumption
<1>2. \A k \in DOMAIN segs :
        IsSegment(z, segs[k], IF k = Len(segs) THEN 1..SegmentTarget ELSE Full)
  BY <1>1 DEF EndToEnd, IsSegment, Full
<1> QED BY <1>2 DEF EndToEnd

-------------------------------------------------------------------------------
(***************************************************************************)
(* How many bytes of a chunk the stored segments hold.                     *)
(***************************************************************************)
\* The bytes of the stream a slice holds.
Bytes(sl) == sl.from..sl.to - 1
\* Those of a set of slices.
AllBytes(H) == UNION {Bytes(sl) : sl \in H}
\* Slices that share no byte.
Apart(H) == \A a, b \in H : a # b => a.to <= b.from \/ b.to <= a.from
\* How many bytes each holds.
Length(H) == [sl \in H |-> sl.to - sl.from]

\* They are as many as the slice says.
LEMMA BytesCount ==
    ASSUME NEW sl \in SliceType, sl.from < sl.to
    PROVE  IsFiniteSet(Bytes(sl)) /\ Cardinality(Bytes(sl)) = sl.to - sl.from
<1>1. sl.from \in Int /\ sl.to - 1 \in Int /\ ~(sl.from > sl.to - 1)
  BY DEF SliceType
<1>2. (sl.to - 1) - sl.from + 1 = sl.to - sl.from
  BY <1>1 DEF SliceType
<1>3. IsFiniteSet(Bytes(sl))
  BY <1>1, FS_Interval DEF Bytes
<1>4. Cardinality(Bytes(sl)) = (sl.to - 1) - sl.from + 1
  BY <1>1, FS_Interval DEF Bytes
<1> QED BY <1>2, <1>3, <1>4

(* Slices that lie apart hold as many bytes as their lengths add up to. *)
LEMMA BytesAddUp ==
    ASSUME NEW H, IsFiniteSet(H), H \subseteq SliceType, Apart(H), \A sl \in H : sl.from < sl.to
    PROVE  /\ IsFiniteSet(AllBytes(H))
           /\ Cardinality(AllBytes(H)) = Sum(Length(H), H)
<1> DEFINE w == Length(H)
           B(T) == AllBytes(T)
           Good == {T \in SUBSET H : IsFiniteSet(B(T)) /\ Cardinality(B(T)) = Sum(w, T)}
<1>1. Weighs(w, H)
  BY DEF Weighs, Length, SliceType
<1>2. ASSUME NEW T \in SUBSET H, \A U \in SUBSET T : U # T => U \in Good
      PROVE  T \in Good
  <2>1. IsFiniteSet(T)
    BY FS_Subset
  <2>2. Sum(w, T) = IF T = {} THEN 0 ELSE w[Pick(T)] + Sum(w, T \ {Pick(T)})
    BY <2>1, SumEquation
  <2>3. CASE T = {}
    <3>1. B(T) = {}
      BY <2>3 DEF AllBytes
    <3> QED BY <2>2, <2>3, <3>1, FS_EmptySet
  <2>4. CASE T # {}
    <3> DEFINE p == Pick(T)
               U == T \ {p}
    <3>1. p \in T /\ U \in SUBSET T /\ U # T
      BY <2>4, PickIsIn
    <3>2. U \in Good
      BY <1>2, <3>1
    <3>3. IsFiniteSet(B(U)) /\ Cardinality(B(U)) = Sum(w, U)
      BY <3>2
    <3>4. Sum(w, T) = w[p] + Sum(w, U)
      BY <2>2, <2>4
    <3>5. Sum(w, U) \in Nat
      BY <1>1, <3>1, SumType
    <3> HIDE DEF p
    <3>6. B(T) = Bytes(p) \cup B(U)
      BY <3>1 DEF AllBytes
    <3>7. p \in SliceType /\ p.from < p.to /\ p \in H
      BY <3>1
    <3>8. IsFiniteSet(Bytes(p)) /\ Cardinality(Bytes(p)) = p.to - p.from
      BY <3>7, BytesCount
    <3>9. Bytes(p) \cap B(U) = {}
      <4> SUFFICES ASSUME NEW x \in Bytes(p), NEW u \in U, x \in Bytes(u) PROVE FALSE
        BY DEF AllBytes
      <4>1. u \in SliceType /\ u \in H /\ u # p
        BY <3>1
      <4>2. u.to <= p.from \/ p.to <= u.from
        BY <3>7, <4>1 DEF Apart
      <4>3. {u.from, u.to, p.from, p.to} \subseteq Nat
        BY <3>7, <4>1 DEF SliceType
      <4>4. x \in Int /\ p.from <= x /\ x < p.to /\ u.from <= x /\ x < u.to
        BY <4>3 DEF Bytes
      <4> QED BY <4>2, <4>3, <4>4
    <3>10. w[p] = p.to - p.from /\ w[p] \in Nat
      BY <1>1, <3>7 DEF Length, Weighs
    <3> HIDE DEF B, U, w
    <3>11. IsFiniteSet(B(T))
      BY <3>3, <3>6, <3>8, FS_Union
    <3>12. Cardinality(Bytes(p) \cup B(U))
             = Cardinality(Bytes(p)) + Cardinality(B(U)) - Cardinality(Bytes(p) \cap B(U))
      BY <3>3, <3>8, FS_Union
    <3>13. Cardinality(Bytes(p) \cap B(U)) = 0
      BY <3>9, FS_EmptySet
    <3>14. Cardinality(B(T)) = Sum(w, T)
      BY <3>3, <3>4, <3>5, <3>6, <3>8, <3>10, <3>12, <3>13
    <3> QED BY <3>11, <3>14
  <2> QED BY <2>3, <2>4
<1> HIDE DEF Good
<1>3. \A T \in SUBSET H : T \in Good
  BY <1>2, SubsetInduction
<1>4. H \in Good
  BY <1>3
<1> QED BY <1>4 DEF Good

(* The fold of StoredBytes is such a sum. *)
Measures(H, g) ==
    g = [s \in SUBSET H |-> IF s = {} THEN 0 ELSE g[s \ {Pick(s)}] + Pick(s).to - Pick(s).from]

\* It exists, is unique and adds up the lengths of the slices.
LEMMA MeasuredSums ==
    ASSUME NEW H, IsFiniteSet(H), H \subseteq SliceType, \A sl \in H : sl.from < sl.to
    PROVE  /\ \E g : Measures(H, g)
           /\ \A g : Measures(H, g) => g[H] = Sum(Length(H), H)
<1> DEFINE w == Length(H)
<1>1. Weighs(w, H)
  BY DEF Weighs, Length, SliceType
<1>2. ASSUME NEW s \in SUBSET H, s # {}
      PROVE  /\ Pick(s) \in s /\ s \ {Pick(s)} \in SUBSET H
             /\ Pick(s).to \in Nat /\ Pick(s).from \in Nat
             /\ w[Pick(s)] = Pick(s).to - Pick(s).from
  BY <1>2, PickIsIn DEF SliceType, Length
<1>3. ASSUME NEW s \in SUBSET H
      PROVE  Sum(w, s) = IF s = {} THEN 0
                         ELSE Sum(w, s \ {Pick(s)}) + Pick(s).to - Pick(s).from
  <2>1. IsFiniteSet(s)
    BY FS_Subset
  <2>2. Sum(w, s) = IF s = {} THEN 0 ELSE w[Pick(s)] + Sum(w, s \ {Pick(s)})
    BY <2>1, SumEquation
  <2>3. s # {} => Sum(w, s \ {Pick(s)}) \in Nat
    BY <1>1, <1>2, SumType
  <2> QED BY <1>2, <2>2, <2>3
<1> HIDE DEF w
<1>4. \E g : Measures(H, g)
  <2> DEFINE v == [s \in SUBSET H |-> Sum(w, s)]
  <2>1. ASSUME NEW s \in SUBSET H
        PROVE  Sum(w, s) = IF s = {} THEN 0 ELSE v[s \ {Pick(s)}] + Pick(s).to - Pick(s).from
    BY <1>2, <1>3
  <2>2. v = [s \in SUBSET H |-> IF s = {} THEN 0 ELSE v[s \ {Pick(s)}] + Pick(s).to - Pick(s).from]
    BY <2>1
  <2> HIDE DEF v
  <2> QED BY <2>2 DEF Measures
<1>5. ASSUME NEW g, Measures(H, g) PROVE g[H] = Sum(w, H)
  <2> DEFINE Good == {T \in SUBSET H : g[T] = Sum(w, T)}
  <2>1. ASSUME NEW T \in SUBSET H, \A U \in SUBSET T : U # T => U \in Good
        PROVE  T \in Good
    <3>1. g[T] = IF T = {} THEN 0 ELSE g[T \ {Pick(T)}] + Pick(T).to - Pick(T).from
      BY <1>5 DEF Measures
    <3>2. T # {} => g[T \ {Pick(T)}] = Sum(w, T \ {Pick(T)})
      BY <2>1, PickIsIn
    <3> QED BY <1>3, <3>1, <3>2
  <2> HIDE DEF Good
  <2>2. \A T \in SUBSET H : T \in Good
    BY <2>1, SubsetInduction
  <2>3. H \in Good
    BY <2>2
  <2> QED BY <2>3 DEF Good
<1> QED BY <1>4, <1>5 DEF w

(* The slices of chunk i in the segments segs. *)
Held(segs, i) ==
    {s \in UNION {Range(segs[k].slices) : k \in DOMAIN segs} : s.chunk = i - 1}

\* StoredBytes is this fold.
LEMMA StoredBytesIsMeasured ==
    \A i : StoredBytes(i) = (CHOOSE g : Measures(Held(segments, i), g))[Held(segments, i)]
BY DEF StoredBytes, Held, FoldSet, MapThenFoldSet, Measures, Pick

(* Slice s is in segment k of segs. *)
InSegment(segs, k, s) == k \in DOMAIN segs /\ \E j \in DOMAIN segs[k].slices : s = segs[k].slices[j]

\* What a slice says of itself, spelt out.
LEMMA WithinItsChunk ==
    ASSUME NEW z \in Seq(Nat), NEW sl \in SliceType, NEW start \in Nat, LiesWithin(z, sl, start)
    PROVE  /\ sl.segFrom \in Nat /\ sl.segTo \in Nat /\ sl.from \in Nat /\ sl.to \in Nat
           /\ sl.from = start + sl.segFrom /\ sl.to = start + sl.segTo /\ sl.from < sl.to
           /\ sl.chunk \in 0..Len(z) /\ sl.chunk + 1 \in 1..Len(z) /\ sl.chunk + 1 \in 0..Len(z)
           /\ EndOf(z, sl.chunk) <= sl.from /\ sl.to <= EndOf(z, sl.chunk + 1)
<1>1. /\ sl.segFrom \in Nat /\ sl.segTo \in Nat /\ sl.from \in Nat /\ sl.to \in Nat
      /\ sl.chunk \in Nat
  BY DEF SliceType
<1>2. DOMAIN z = 1..Len(z) /\ Len(z) \in Nat
  OBVIOUS
<1> QED BY <1>1, <1>2 DEF LiesWithin

\* The held slices of chunk i are slices of that chunk, each in a segment it lies within.
LEMMA HeldSlices ==
    ASSUME NEW z, NEW segs, NEW to \in Nat, NEW sized, EndToEnd(z, segs, 0, to, sized),
           NEW i, NEW s \in Held(segs, i)
    PROVE  /\ s \in SliceType /\ s.chunk = i - 1
           /\ \E k \in DOMAIN segs :
                /\ InSegment(segs, k, s) /\ LiesWithin(z, s, segs[k].start)
                /\ segs[k].start <= s.from /\ s.to <= segs[k].end /\ s.from < s.to
<1>1. s.chunk = i - 1
  BY DEF Held
<1>2. PICK k \in DOMAIN segs : s \in Range(segs[k].slices)
  BY DEF Held
<1>3. PICK j \in DOMAIN segs[k].slices : s = segs[k].slices[j]
  BY <1>2 DEF Range
<1> DEFINE start == segs[k].start
           slices == segs[k].slices
           n == segs[k].end - segs[k].start
<1>4. CutsUp(z, slices, start, n)
  BY <1>2 DEF EndToEnd, IsSegment
<1>5. start \in Nat /\ segs[k].end \in Nat /\ start < segs[k].end
  BY <1>2, SegmentsLie
<1>6. slices \in Seq(SliceType)
  BY <1>4 DEF CutsUp
<1>7. s \in SliceType
  BY <1>3, <1>6
<1>8. LiesWithin(z, s, start) /\ s.segTo <= n
  BY <1>3, <1>4 DEF CutsUp
<1>9. /\ s.segFrom \in Nat /\ s.segTo \in Nat /\ s.segFrom < s.segTo
      /\ s.from = start + s.segFrom /\ s.to = start + s.segTo
  BY <1>7, <1>8 DEF LiesWithin, SliceType
<1>10. start <= s.from /\ s.to <= segs[k].end /\ s.from < s.to
  BY <1>5, <1>8, <1>9
<1> QED BY <1>1, <1>2, <1>3, <1>7, <1>8, <1>10 DEF InSegment

\* There are finitely many of them.
LEMMA HeldIsFinite ==
    ASSUME NEW z, NEW segs, NEW to \in Nat, NEW sized, EndToEnd(z, segs, 0, to, sized), NEW i
    PROVE  IsFiniteSet(Held(segs, i))
<1> DEFINE all == {Range(segs[k].slices) : k \in DOMAIN segs}
<1>1. DOMAIN segs = 1..Len(segs) /\ Len(segs) \in Nat
  BY SegmentsLie
<1>2. IsFiniteSet(DOMAIN segs)
  BY <1>1, FS_Interval
<1>3. ASSUME NEW k \in DOMAIN segs PROVE IsFiniteSet(Range(segs[k].slices))
  <2> DEFINE q == segs[k].slices
  <2>1. q \in Seq(SliceType)
    BY DEF EndToEnd, IsSegment, CutsUp
  <2> HIDE DEF q
  <2>2. DOMAIN q = 1..Len(q) /\ Len(q) \in Nat
    BY <2>1
  <2>3. IsFiniteSet(DOMAIN q)
    BY <2>2, FS_Interval
  <2>4. q \in Surjection(DOMAIN q, Range(q))
    BY <2>1 DEF Surjection, Range
  <2>5. IsFiniteSet(Range(q))
    BY <2>3, <2>4, FS_Surjection
  <2> QED BY <2>5 DEF q
<1>4. IsFiniteSet(all)
  <2> DEFINE f == [k \in DOMAIN segs |-> Range(segs[k].slices)]
  <2>1. f \in Surjection(DOMAIN segs, all)
    BY DEF Surjection
  <2> HIDE DEF f, all
  <2> QED BY <1>2, <2>1, FS_Surjection
<1>5. \A T \in all : IsFiniteSet(T)
  BY <1>3
<1> HIDE DEF all
<1>6. IsFiniteSet(UNION all)
  BY <1>4, <1>5, FS_UNION
<1>7. Held(segs, i) \in SUBSET (UNION all)
  BY DEF Held, all
<1> QED BY <1>6, <1>7, FS_Subset

\* Two of them share no byte: they are apart in one segment, or in two segments that are.
LEMMA HeldApart ==
    ASSUME NEW z, NEW segs, NEW to \in Nat, NEW sized, EndToEnd(z, segs, 0, to, sized), NEW i
    PROVE  Apart(Held(segs, i))
<1> SUFFICES ASSUME NEW a \in Held(segs, i), NEW b \in Held(segs, i), a # b
             PROVE  a.to <= b.from \/ b.to <= a.from
  BY DEF Apart
<1>1. a \in SliceType /\ b \in SliceType
  BY HeldSlices
<1>2. PICK k \in DOMAIN segs : /\ InSegment(segs, k, a) /\ LiesWithin(z, a, segs[k].start)
                               /\ segs[k].start <= a.from /\ a.to <= segs[k].end
  BY HeldSlices
<1>3. PICK m \in DOMAIN segs : /\ InSegment(segs, m, b) /\ LiesWithin(z, b, segs[m].start)
                               /\ segs[m].start <= b.from /\ b.to <= segs[m].end
  BY HeldSlices
<1>4. k \in Nat /\ m \in Nat
  BY SegmentsLie
<1>5. /\ {a.from, a.to, b.from, b.to} \subseteq Nat
      /\ {a.segFrom, a.segTo, b.segFrom, b.segTo} \subseteq Nat
      /\ {segs[k].start, segs[k].end, segs[m].start, segs[m].end} \subseteq Nat
  <2>1. /\ a.from \in Nat /\ a.to \in Nat /\ b.from \in Nat /\ b.to \in Nat
        /\ a.segFrom \in Nat /\ a.segTo \in Nat /\ b.segFrom \in Nat /\ b.segTo \in Nat
    BY <1>1 DEF SliceType
  <2>2. /\ segs[k].start \in Nat /\ segs[k].end \in Nat
        /\ segs[m].start \in Nat /\ segs[m].end \in Nat
    BY <1>2, <1>3, SegmentsLie
  <2> QED BY <2>1, <2>2
<1>6. CASE k < m
  <2>1. segs[k].end <= segs[m].start
    BY <1>2, <1>3, <1>6 DEF EndToEnd
  <2> QED BY <1>2, <1>3, <1>5, <2>1
<1>7. CASE m < k
  <2>1. segs[m].end <= segs[k].start
    BY <1>2, <1>3, <1>7 DEF EndToEnd
  <2> QED BY <1>2, <1>3, <1>5, <2>1
<1>8. CASE m = k
  <2> DEFINE slices == segs[k].slices
             n == segs[k].end - segs[k].start
  <2>1. CutsUp(z, slices, segs[k].start, n)
    BY <1>2 DEF EndToEnd, IsSegment
  <2>2. PICK j \in DOMAIN slices : a = slices[j]
    BY <1>2 DEF InSegment
  <2>3. PICK l \in DOMAIN slices : b = slices[l]
    BY <1>3, <1>8 DEF InSegment
  <2>4. j \in Nat /\ l \in Nat /\ j # l
    BY <2>1, <2>2, <2>3 DEF CutsUp
  <2>5. /\ j < l => a.segTo <= b.segFrom
        /\ l < j => b.segTo <= a.segFrom
    BY <2>1, <2>2, <2>3 DEF CutsUp
  <2>6. /\ a.from = segs[k].start + a.segFrom /\ a.to = segs[k].start + a.segTo
        /\ b.from = segs[k].start + b.segFrom /\ b.to = segs[k].start + b.segTo
    BY <1>2, <1>3, <1>8 DEF LiesWithin
  <2> HIDE DEF slices, n
  <2> QED BY <1>5, <2>4, <2>5, <2>6
<1> QED BY <1>4, <1>6, <1>7, <1>8

(* They hold the bytes of the chunk that are in some segment. *)
Stretch(z, i, to) == {x \in EndOf(z, i - 1)..EndOf(z, i) - 1 : x < to}

\* The bytes held of chunk i are those before the end of the stored segments: none is
\* missing, as the segments and their slices lie end to end.
LEMMA HeldBytes ==
    ASSUME NEW z \in Seq(Nat), NEW segs, NEW to \in Nat, NEW sized, EndToEnd(z, segs, 0, to, sized),
           NEW i \in 1..Len(z)
    PROVE  AllBytes(Held(segs, i)) = Stretch(z, i, to)
<1>1. EndOf(z, i - 1) \in Nat /\ EndOf(z, i) \in Nat /\ i - 1 \in 0..Len(z) /\ i \in 0..Len(z)
  BY EndOfType
<1>2. ASSUME NEW s \in Held(segs, i), NEW x \in Bytes(s)
      PROVE  x \in EndOf(z, i - 1)..EndOf(z, i) - 1 /\ x < to
  <2>1. s \in SliceType /\ s.chunk = i - 1
    BY HeldSlices
  <2>2. PICK k \in DOMAIN segs : LiesWithin(z, s, segs[k].start) /\ s.to <= segs[k].end
    BY HeldSlices
  <2>3. segs[k].end \in Nat /\ segs[k].end <= to
    BY <2>2, SegmentsLie
  <2>4. EndOf(z, s.chunk) <= s.from /\ s.to <= EndOf(z, s.chunk + 1)
    BY <2>2 DEF LiesWithin
  <2>5. s.chunk + 1 = i
    BY <2>1
  <2>6. EndOf(z, i - 1) <= s.from /\ s.to <= EndOf(z, i)
    BY <2>1, <2>4, <2>5
  <2>7. x \in Int /\ s.from \in Nat /\ s.to \in Nat /\ s.from <= x /\ x <= s.to - 1
    BY <2>1 DEF Bytes, SliceType
  <2>8. x < to
    BY <2>2, <2>3, <2>7
  <2> DEFINE a == EndOf(z, i - 1)
             b == EndOf(z, i)
  <2>9. a \in Nat /\ b \in Nat /\ a <= s.from /\ s.to <= b
    BY <1>1, <2>6
  <2> HIDE DEF a, b
  <2>10. x \in a..b - 1
    BY <2>7, <2>9
  <2> QED BY <2>8, <2>10 DEF a, b
<1>3. ASSUME NEW x \in EndOf(z, i - 1)..EndOf(z, i) - 1, x < to
      PROVE  \E s \in Held(segs, i) : x \in Bytes(s)
  <2>1. x \in Nat /\ EndOf(z, i - 1) <= x /\ x < EndOf(z, i)
    BY <1>1, <1>3
  <2>2. x \in 0..to - 1
    BY <1>3, <2>1
  <2>3. PICK k \in DOMAIN segs : segs[k].start <= x /\ x < segs[k].end
    BY <2>2 DEF EndToEnd
  <2>4. segs[k].start \in Nat /\ segs[k].end \in Nat
    BY <2>3, SegmentsLie
  <2>5. PICK s \in SliceType : /\ s \in Range(segs[k].slices)
                              /\ LiesWithin(z, s, segs[k].start)
                              /\ s.segFrom <= x - segs[k].start /\ x - segs[k].start < s.segTo
    <3> DEFINE slices == segs[k].slices
               n == segs[k].end - segs[k].start
    <3>1. CutsUp(z, slices, segs[k].start, n)
      BY <2>3 DEF EndToEnd, IsSegment
    <3>2. x - segs[k].start \in 0..n - 1
      <4>1. x \in Nat
        BY <2>1
      <4> DEFINE from == segs[k].start
                 last == segs[k].end
      <4>2. from \in Nat /\ last \in Nat /\ from <= x /\ x < last
        BY <2>3, <2>4
      <4> HIDE DEF from, last
      <4>3. x - from \in 0..(last - from) - 1
        BY <4>1, <4>2
      <4> QED BY <4>3 DEF from, last
    <3>3. PICK j \in DOMAIN slices :
            slices[j].segFrom <= x - segs[k].start /\ x - segs[k].start < slices[j].segTo
      BY <3>1, <3>2 DEF CutsUp
    <3>4. slices \in Seq(SliceType)
      BY <3>1 DEF CutsUp
    <3>5. slices[j] \in SliceType /\ slices[j] \in Range(slices)
      BY <3>3, <3>4 DEF Range
    <3>6. LiesWithin(z, slices[j], segs[k].start)
      BY <3>1, <3>3 DEF CutsUp
    <3> QED BY <3>3, <3>5, <3>6
  <2>11. /\ s.segFrom \in Nat /\ s.segTo \in Nat /\ s.from \in Nat /\ s.to \in Nat
         /\ s.from = segs[k].start + s.segFrom /\ s.to = segs[k].start + s.segTo
         /\ s.chunk \in 0..Len(z) /\ s.chunk + 1 \in 1..Len(z) /\ s.chunk + 1 \in 0..Len(z)
         /\ EndOf(z, s.chunk) <= s.from /\ s.to <= EndOf(z, s.chunk + 1)
    BY <2>4, <2>5, WithinItsChunk
  <2>12. s.from <= x /\ x < s.to
    <3>1. s.segFrom <= x - segs[k].start /\ x - segs[k].start < s.segTo
      BY <2>5
    <3>2. x \in Nat /\ segs[k].start \in Nat /\ s.segFrom \in Nat /\ s.segTo \in Nat
      BY <2>1, <2>4, <2>11
    <3>4. segs[k].start + s.segFrom <= x
      BY <3>1, <3>2
    <3>5. x < segs[k].start + s.segTo
      BY <3>1, <3>2
    <3> QED BY <2>11, <3>4, <3>5
  <2>13. x \in Bytes(s)
    BY <2>1, <2>11, <2>12 DEF Bytes
  <2> DEFINE c == s.chunk
  <2>14. c \in 0..Len(z) /\ c + 1 \in 0..Len(z) /\ EndOf(z, c) \in Nat /\ EndOf(z, c + 1) \in Nat
    BY <2>11, EndOfType
  <2>15. EndOf(z, c) <= x /\ x < EndOf(z, c + 1)
    <3>1. EndOf(z, c) <= s.from /\ s.to <= EndOf(z, c + 1)
      BY <2>11
    <3>2. /\ EndOf(z, c) \in Nat /\ EndOf(z, c + 1) \in Nat /\ x \in Nat
          /\ s.from \in Nat /\ s.to \in Nat
      BY <2>1, <2>11, <2>14
    <3> HIDE DEF c
    <3> QED BY <2>12, <3>1, <3>2
  <2> HIDE DEF c
  <2>21. ~(c + 1 <= i - 1)
    <3> SUFFICES ASSUME c + 1 <= i - 1 PROVE FALSE
      OBVIOUS
    <3>1. EndOf(z, c + 1) <= EndOf(z, i - 1)
      BY <1>1, <2>14, EndOfGrows
    <3> QED BY <1>1, <2>1, <2>14, <2>15, <3>1
  <2>18. ~(i <= c)
    <3> SUFFICES ASSUME i <= c PROVE FALSE
      OBVIOUS
    <3>1. EndOf(z, i) <= EndOf(z, c)
      BY <1>1, <2>14, EndOfGrows
    <3> QED BY <1>1, <2>1, <2>14, <2>15, <3>1
  <2>19. c = i - 1
    BY <1>1, <2>14, <2>21, <2>18
  <2>20. s \in Held(segs, i)
    BY <2>3, <2>5, <2>19 DEF Held, c
  <2> QED BY <2>13, <2>20
<1>4. \A x \in UNION {Bytes(s) : s \in Held(segs, i)} :
         x \in EndOf(z, i - 1)..EndOf(z, i) - 1 /\ x < to
  BY <1>2
<1>5. \A x \in EndOf(z, i - 1)..EndOf(z, i) - 1 :
         x < to => x \in UNION {Bytes(s) : s \in Held(segs, i)}
  BY <1>3
<1> DEFINE A == UNION {Bytes(s) : s \in Held(segs, i)}
           I == EndOf(z, i - 1)..EndOf(z, i) - 1
<1>6. /\ \A x \in A : x \in I /\ x < to
      /\ \A x \in I : x < to => x \in A
  BY <1>4, <1>5
<1> HIDE DEF A, I
<1>7. A = {x \in I : x < to}
  BY <1>6
<1> QED BY <1>7 DEF A, I, AllBytes, Stretch

(* A chunk counts as stored when it ends within the stored segments. *)
LEMMA MeasuredChunk ==
    ASSUME NEW z \in Seq(Nat), NEW segs, NEW to \in Nat, NEW sized, EndToEnd(z, segs, 0, to, sized),
           NEW i \in 1..Len(z), z[i] # 0
    PROVE  (CHOOSE g : Measures(Held(segs, i), g))[Held(segs, i)] >= z[i] <=> EndOf(z, i) <= to
<1> DEFINE H == Held(segs, i)
           a == EndOf(z, i - 1)
           b == EndOf(z, i)
<1>1. a \in Nat /\ b \in Nat /\ z[i] \in Nat /\ b = a + z[i]
  <2>1. i - 1 \in 0..Len(z) /\ i \in 0..Len(z) /\ z[i] \in Nat
    OBVIOUS
  <2>2. a \in Nat /\ b \in Nat
    BY <2>1, EndOfType
  <2> QED BY <2>1, <2>2, EndOfNext
<1>2. IsFiniteSet(H) /\ Apart(H)
  BY HeldIsFinite, HeldApart
<1>3. H \subseteq SliceType /\ \A s \in H : s.from < s.to
  BY HeldSlices
<1>4. AllBytes(H) = Stretch(z, i, to)
  BY HeldBytes
<1>10. Stretch(z, i, to) = {x \in a..b - 1 : x < to}
  BY DEF Stretch
<1> HIDE DEF H, a, b
<1> DEFINE B == {x \in a..b - 1 : x < to}
           m == CHOOSE g : Measures(H, g)
<1>5. Measures(H, m)
  <2>1. \E g : Measures(H, g)
    BY <1>2, <1>3, MeasuredSums
  <2> QED BY <2>1
<1>6. m[H] = Sum(Length(H), H)
  <2> HIDE DEF m
  <2> QED BY <1>2, <1>3, <1>5, MeasuredSums
<1>7. Cardinality(B) = m[H]
  <2> HIDE DEF m, B
  <2>1. Cardinality(AllBytes(H)) = Sum(Length(H), H)
    BY <1>2, <1>3, BytesAddUp
  <2> QED BY <1>4, <1>6, <1>10, <2>1 DEF B
<1>8. CASE b <= to
  <2>1. B = a..b - 1
    BY <1>1, <1>8
  <2>2. Cardinality(a..b - 1) = (b - 1) - a + 1
    <3>1. a \in Int /\ b - 1 \in Int /\ ~(a > b - 1)
      BY <1>1
    <3> QED BY <3>1, FS_Interval
  <2> HIDE DEF m, B
  <2>3. Cardinality(B) = z[i]
    BY <1>1, <2>1, <2>2
  <2>4. m[H] >= z[i]
    BY <1>1, <1>7, <2>3
  <2> QED BY <1>8, <2>4 DEF m, H, b
<1>9. CASE ~(b <= to)
  <2>1. B = a..to - 1
    BY <1>1, <1>9
  <2>2. Cardinality(a..to - 1) = IF a > to - 1 THEN 0 ELSE (to - 1) - a + 1
    <3>1. a \in Int /\ to - 1 \in Int
      BY <1>1
    <3> QED BY <3>1, FS_Interval
  <2> HIDE DEF m, B
  <2>3. Cardinality(B) = IF a > to - 1 THEN 0 ELSE (to - 1) - a + 1
    BY <2>1, <2>2
  <2>4. ~(m[H] >= z[i])
    BY <1>1, <1>7, <1>9, <2>3
  <2> QED BY <1>9, <2>4 DEF m, H, b
<1> QED BY <1>8, <1>9

-------------------------------------------------------------------------------
(***************************************************************************)
(* Types.                                                                  *)
(***************************************************************************)
\* A chunk is being stored: it is in the stored stream and not in the buffer.
InFlight == pc \in {"append", "store"}
\* The session was not opened yet.
Early == pc \in {"connecting", "starting", "opening"}

\* Then nothing was streamed.
NothingYet ==
    /\ waiting = <<>> /\ ordered = <<>> /\ buffered = 0 /\ lastEmitted = 0
    /\ sequence = 0 /\ language = "none"
    /\ stream = NewStream /\ pending = <<>> /\ segments = <<>> /\ sizes = <<>>
    /\ report = [received |-> 0, stored |-> 0]
    /\ record = "none"

\* The type invariant, with what it needs to be inductive.
BaseInv ==
    /\ TypeOK
    /\ stream \in StreamType
    /\ Early => NothingYet
    /\ InFlight => ordered # <<>>
    /\ completed => pc \in {"answer", "leaving", "closed"}
    /\ pc = "answer" => completed

\* The assumption on the constants, one by one.
LEMMA Constants ==
    /\ ChunkSizes \subseteq Nat
    /\ Window \in Nat /\ MaxUpload \in Nat /\ MaxAudio \in Nat /\ MinAudio \in Nat
    /\ LanguageRefresh \in Nat
    /\ SegmentTarget \in Nat /\ SegmentTarget > 0
    /\ EmitInterval \in Nat /\ EmitInterval > 0 /\ EmitBackoff \in Nat /\ EmitBackoff > 0
    /\ MaxEmitInterval \in Nat /\ EmitInterval <= MaxEmitInterval
    /\ StartTimeout \in Nat /\ IdleTimeout \in Nat /\ MaxSession \in Nat
    /\ "none" \notin Labels \cup Languages /\ "unknown" \notin Languages
BY StreamAssumption

\* The two names of a slice's type.
LEMMA SegmentTypeIs == SegmentType = [start : Nat, end : Nat, slices : Seq(SliceType)]
BY DEF SegmentType, SliceType

\* The fields of the accumulator.
LEMMA StreamFields ==
    ASSUME NEW s \in StreamType
    PROVE  /\ s.filled \in Nat /\ s.slices \in Seq(SliceType) /\ s.cursor \in Nat
           /\ s.start \in Nat /\ s.chunks \in Nat
<1> HIDE DEF SliceType
<1> QED BY DEF StreamType

(* What the accumulator does to its fields. *)
LEMMA EmptiedType ==
    ASSUME NEW s \in StreamType
    PROVE  /\ Emptied(s) \in StreamType
           /\ Emptied(s).filled = 0 /\ Emptied(s).slices = <<>> /\ Emptied(s).cursor = s.cursor
           /\ Emptied(s).start = s.start + s.filled /\ Emptied(s).chunks = s.chunks
<1> HIDE DEF SliceType
<1>1. s.start + s.filled \in Nat /\ <<>> \in Seq(SliceType)
  BY DEF StreamType
<1>2. Emptied(s) \in StreamType
  BY <1>1 DEF Emptied, StreamType
<1>3. Emptied(s).filled = 0
  BY <1>1 DEF Emptied, StreamType
<1>4. Emptied(s).slices = <<>>
  BY <1>1 DEF Emptied, StreamType
<1>5. Emptied(s).cursor = s.cursor
  BY <1>1 DEF Emptied, StreamType
<1>6. Emptied(s).start = s.start + s.filled
  BY <1>1 DEF Emptied, StreamType
<1>7. Emptied(s).chunks = s.chunks
  BY <1>1 DEF Emptied, StreamType
<1> QED BY <1>2, <1>3, <1>4, <1>5, <1>6, <1>7

\* What append makes of a part of a chunk is a slice.
LEMMA SliceIs ==
    ASSUME NEW c \in Nat, NEW f \in Nat, NEW g \in Nat, NEW n \in Nat
    PROVE  Slice(c, f, g, n) \in SliceType
<1>1. f + n \in Nat /\ g + n \in Nat
  OBVIOUS
<1> QED BY <1>1 DEF Slice, SliceType

\* A slice was added to the accumulator's segment.
Extended(s, n, q) == [s EXCEPT !.filled = n, !.slices = q]
\* A whole chunk was taken in.
Moved(s, n, q) == [s EXCEPT !.cursor = n, !.chunks = q]

\* What this does to its fields.
LEMMA ExtendedType ==
    ASSUME NEW s \in StreamType, NEW n \in Nat, NEW q \in Seq(SliceType)
    PROVE  /\ Extended(s, n, q) \in StreamType
           /\ Extended(s, n, q).filled = n /\ Extended(s, n, q).slices = q
           /\ Extended(s, n, q).cursor = s.cursor
           /\ Extended(s, n, q).start = s.start /\ Extended(s, n, q).chunks = s.chunks
<1> HIDE DEF SliceType
<1>2. Extended(s, n, q) \in StreamType
  BY DEF StreamType, Extended
<1>3. Extended(s, n, q).filled = n
  BY DEF StreamType, Extended
<1>4. Extended(s, n, q).slices = q
  BY DEF StreamType, Extended
<1>5. Extended(s, n, q).cursor = s.cursor
  BY DEF StreamType, Extended
<1>6. Extended(s, n, q).start = s.start
  BY DEF StreamType, Extended
<1>7. Extended(s, n, q).chunks = s.chunks
  BY DEF StreamType, Extended
<1> QED BY <1>2, <1>3, <1>4, <1>5, <1>6, <1>7

\* What this does to its fields.
LEMMA MovedType ==
    ASSUME NEW s \in StreamType, NEW n \in Nat, NEW q \in Nat
    PROVE  /\ Moved(s, n, q) \in StreamType
           /\ Moved(s, n, q).filled = s.filled /\ Moved(s, n, q).slices = s.slices
           /\ Moved(s, n, q).cursor = n
           /\ Moved(s, n, q).start = s.start /\ Moved(s, n, q).chunks = q
<1> HIDE DEF SliceType
<1>2. Moved(s, n, q) \in StreamType
  BY DEF StreamType, Moved
<1>3. Moved(s, n, q).filled = s.filled
  BY DEF StreamType, Moved
<1>4. Moved(s, n, q).slices = s.slices
  BY DEF StreamType, Moved
<1>5. Moved(s, n, q).cursor = n
  BY DEF StreamType, Moved
<1>6. Moved(s, n, q).start = s.start
  BY DEF StreamType, Moved
<1>7. Moved(s, n, q).chunks = q
  BY DEF StreamType, Moved
<1> QED BY <1>2, <1>3, <1>4, <1>5, <1>6, <1>7

\* The chunk the handler is at.
LEMMA HeadType ==
    ASSUME NEW q \in Seq(ChunkSizes), q # <<>>
    PROVE  Head(q) \in ChunkSizes /\ Head(q) \in Nat /\ Tail(q) \in Seq(ChunkSizes)
<1>1. Head(q) \in ChunkSizes /\ Tail(q) \in Seq(ChunkSizes)
  OBVIOUS
<1> QED BY <1>1, Constants

\* The accumulator of a new session.
LEMMA NewStreamType == NewStream \in StreamType /\ NewStream.filled \in 0..SegmentTarget
BY StreamAssumption DEF NewStream, StreamType

\* min.
LEMMA SmallerIs == \A a, b \in Int : /\ Smaller(a, b) \in {a, b}
                                     /\ Smaller(a, b) <= a /\ Smaller(a, b) <= b
BY DEF Smaller

\* The length of what the reorder buffer holds.
LEMMA TotalOfChunks ==
    ASSUME NEW q \in Seq(ChunkSizes)
    PROVE  Total(q) \in Nat
<1>1. q \in Seq(Nat)
  BY StreamAssumption, SeqMonotonic
<1> QED BY <1>1, TotalType

(* The interval grows when the answer stays the same, up to its bound. *)
LEMMA BackoffType ==
    ASSUME interval \in EmitInterval..MaxEmitInterval, NEW l
    PROVE  Backoff(l) \in EmitInterval..MaxEmitInterval
<1>1. /\ EmitInterval \in Nat /\ MaxEmitInterval \in Nat /\ EmitInterval <= MaxEmitInterval
      /\ EmitBackoff \in Nat /\ EmitBackoff >= 1 /\ interval \in Nat
  BY StreamAssumption
<1>2. interval * EmitBackoff \in Nat /\ interval * EmitBackoff >= interval
  <2>1. EmitBackoff - 1 \in Nat
    BY <1>1
  <2>2. \A a, b \in Nat : a * b \in Nat /\ a * (b + 1) = a * b + a
    OBVIOUS
  <2>3. interval * ((EmitBackoff - 1) + 1) = interval * (EmitBackoff - 1) + interval
    BY <1>1, <2>1, <2>2
  <2>4. (EmitBackoff - 1) + 1 = EmitBackoff
    BY <1>1
  <2>5. interval * (EmitBackoff - 1) \in Nat /\ interval * EmitBackoff \in Nat
    BY <1>1, <2>1, <2>2
  <2> QED BY <1>1, <2>3, <2>4, <2>5
<1> DEFINE more == interval * EmitBackoff
<1>3. more \in Nat /\ more >= interval
  BY <1>2
<1> HIDE DEF more
<1>4. Smaller(MaxEmitInterval, more) \in EmitInterval..MaxEmitInterval
  BY <1>1, <1>3 DEF Smaller
<1> QED BY <1>1, <1>4 DEF Backoff, more

(* What push does with a frame of the reorder buffer keeps to the chunk sizes. *)
LEMMA Inserted ==
    ASSUME NEW S, NEW q \in Seq(S), NEW n \in S, NEW i \in 0..Len(q)
    PROVE  SubSeq(q, 1, i) \o <<n>> \o SubSeq(q, i + 1, Len(q)) \in Seq(S)
<1>1. SubSeq(q, 1, i) \in Seq(S) /\ <<n>> \in Seq(S) /\ SubSeq(q, i + 1, Len(q)) \in Seq(S)
  OBVIOUS
<1>2. SubSeq(q, 1, i) \o <<n>> \in Seq(S)
  BY <1>1, ConcatProperties
<1> QED BY <1>1, <1>2, ConcatProperties

\* What it releases and what it keeps.
LEMMA Released ==
    ASSUME NEW S, NEW q \in Seq(S), NEW k \in 0..Len(q)
    PROVE  /\ SubSeq(q, 1, k) \in Seq(S)
           /\ SubSeq(q, k + 1, Len(q)) \in Seq(S)
           /\ Len(SubSeq(q, k + 1, Len(q))) = Len(q) - k
<1>1. Len(q) \in Nat /\ k \in Nat /\ k <= Len(q) /\ k + 1 \in Int /\ Len(q) \in Int
  OBVIOUS
<1>2. (\A j \in 1..k : q[j] \in S) /\ \A j \in k + 1..Len(q) : q[j] \in S
  OBVIOUS
<1>3. SubSeq(q, 1, k) \in Seq(S)
  BY <1>1, <1>2, SubSeqProperties
<1> DEFINE r == SubSeq(q, k + 1, Len(q))
<1>4. r \in Seq(S) /\ Len(r) = IF k + 1 <= Len(q) THEN Len(q) - (k + 1) + 1 ELSE 0
  BY <1>1, <1>2, SubSeqProperties
<1> HIDE DEF r
<1>5. Len(r) = Len(q) - k
  BY <1>1, <1>4
<1> QED BY <1>3, <1>4, <1>5 DEF r

\* The buffer after a frame: never more than the window.
LEMMA FrameType ==
    ASSUME NEW n \in ChunkSizes, Frame(n), waiting \in Seq(ChunkSizes), Len(waiting) <= Window
    PROVE  waiting' \in Seq(ChunkSizes) /\ Len(waiting') <= Window /\ ordered' \in Seq(ChunkSizes)
<1>1. CASE waiting' = waiting /\ ordered' = <<>>
  BY <1>1
<1> DEFINE Line(i) == SubSeq(waiting, 1, i) \o <<n>> \o SubSeq(waiting, i + 1, Len(waiting))
           Fills(line) == IF Len(line) > Window THEN {<<c>> : c \in ChunkSizes} ELSE {<<>>}
<1>2. ASSUME NEW i \in 0..Len(waiting), NEW k \in 0..Len(Line(i)), NEW fill \in Fills(Line(i)),
             Len(Line(i)) - k <= Window,
             waiting' = SubSeq(Line(i), k + 1, Len(Line(i))),
             ordered' = fill \o SubSeq(Line(i), 1, k)
      PROVE  waiting' \in Seq(ChunkSizes) /\ Len(waiting') <= Window /\ ordered' \in Seq(ChunkSizes)
  <2> DEFINE line == Line(i)
  <2>1. line \in Seq(ChunkSizes)
    BY Inserted
  <2>2. fill \in Seq(ChunkSizes)
    <3>1. <<>> \in Seq(ChunkSizes) /\ \A c \in ChunkSizes : <<c>> \in Seq(ChunkSizes)
      OBVIOUS
    <3>2. {<<c>> : c \in ChunkSizes} \subseteq Seq(ChunkSizes) /\ {<<>>} \subseteq Seq(ChunkSizes)
      BY <3>1
    <3>3. Fills(line) \subseteq Seq(ChunkSizes)
      BY <3>2
    <3> QED BY <3>3
  <2> HIDE DEF Line, line, Fills
  <2>3. /\ SubSeq(line, 1, k) \in Seq(ChunkSizes)
        /\ SubSeq(line, k + 1, Len(line)) \in Seq(ChunkSizes)
        /\ Len(SubSeq(line, k + 1, Len(line))) = Len(line) - k
    BY <1>2, <2>1, Released DEF line
  <2>4. fill \o SubSeq(line, 1, k) \in Seq(ChunkSizes)
    BY <2>2, <2>3, ConcatProperties
  <2> QED BY <1>2, <2>3, <2>4 DEF line
<1> QED BY <1>1, <1>2 DEF Frame

\* Types hold at the start.
LEMMA BaseInit == Init => BaseInv
<1> SUFFICES ASSUME Init PROVE BaseInv
  OBVIOUS
<1>1. stream \in StreamType /\ stream.filled \in 0..SegmentTarget
  BY NewStreamType DEF Init
<1>2. TypeOK
  <2>1. /\ waiting \in Seq(ChunkSizes) /\ Len(waiting) = 0 /\ ordered \in Seq(ChunkSizes)
        /\ pending \in Seq(SegmentType) /\ segments \in Seq(SegmentType)
        /\ sizes \in Seq(ChunkSizes \ {0})
    BY DEF Init
  <2>2. report.stored \in 0..report.received
    BY DEF Init
  <2>3. interval \in EmitInterval..MaxEmitInterval /\ Window \in Nat /\ MaxSession \in Nat
    BY Constants DEF Init
  <2>4. Len(waiting) <= Window /\ age \in 0..MaxSession
    BY <2>1, <2>3 DEF Init
  <2>5. /\ pc = "connecting" /\ framing = "raw" /\ mode = "none" /\ timer \in Nat
        /\ buffered \in Nat /\ lastEmitted \in Nat /\ checkedAt \in Nat /\ sequence \in Nat
        /\ labels = "none" /\ language = "none" /\ offset \in Nat
        /\ record = "none" /\ completed \in BOOLEAN /\ verdict = "none" /\ cleanup = "none"
    BY DEF Init
  <2> QED BY <1>1, <2>1, <2>2, <2>3, <2>4, <2>5 DEF TypeOK
<1> QED BY <1>1, <1>2 DEF Init, BaseInv, NothingYet, InFlight

\* Where the head of the receive loop leads.
LEMMA ListenType ==
    ASSUME NEW now \in 0..MaxSession, Listen(now), timer \in Nat
    PROVE  pc' \in {"receive", "failing"} /\ timer' \in Nat
BY Constants DEF Listen, Smaller, Fail

(* What a slice taken from the chunk adds to the accumulator. *)
LEMMA FillTypes ==
    ASSUME BaseInv, Fill
    PROVE  /\ stream' \in StreamType /\ stream'.filled \in 0..SegmentTarget
           /\ offset' \in Nat /\ pending' \in Seq(SegmentType)
<1>1. /\ stream \in StreamType /\ stream.filled \in 0..SegmentTarget /\ offset \in Nat
      /\ pending \in Seq(SegmentType) /\ ordered \in Seq(ChunkSizes)
      /\ pc = "append" /\ offset < Head(ordered) /\ ordered # <<>>
  BY DEF BaseInv, TypeOK, Fill, InFlight
<1>0. Head(ordered) \in Nat
  BY <1>1, HeadType
<1>2. /\ stream.filled \in Nat /\ stream.slices \in Seq(SliceType) /\ stream.cursor \in Nat
      /\ stream.start \in Nat /\ stream.chunks \in Nat
  BY <1>1 DEF StreamType
<1> DEFINE take == Smaller(Room, Head(ordered) - offset)
           slice == Slice(stream.chunks, stream.cursor + offset, stream.filled, take)
           filled == [stream EXCEPT !.filled = @ + take, !.slices = Append(@, slice)]
<1>3. take \in Nat /\ stream.filled + take \in 0..SegmentTarget /\ offset + take \in Nat
  <2>1. /\ SegmentTarget - stream.filled \in Nat /\ Head(ordered) - offset \in Nat
        /\ SegmentTarget \in Nat /\ stream.filled \in Nat
    BY <1>0, <1>1, Constants
  <2>2. take \in Nat /\ take <= SegmentTarget - stream.filled
    BY <2>1, SmallerIs DEF Room
  <2> HIDE DEF take
  <2> QED BY <1>1, <2>1, <2>2
<1>4. /\ offset' = offset + take
      /\ \/ stream' = Emptied(filled) /\ pending' = Append(pending, TakeSegment(filled))
         \/ stream' = filled /\ pending' = pending
  BY DEF Fill
<1> HIDE DEF take
<1>5. slice \in SliceType
  <2>1. stream.cursor + offset \in Nat
    BY <1>1, <1>2
  <2> QED BY <1>2, <1>3, <2>1, SliceIs
<1> HIDE DEF slice, SliceType
<1>6. /\ filled.filled = stream.filled + take /\ filled.slices = Append(stream.slices, slice)
      /\ filled.cursor = stream.cursor /\ filled.start = stream.start
      /\ filled.chunks = stream.chunks
      /\ filled \in StreamType
  <2>1. Append(stream.slices, slice) \in Seq(SliceType) /\ stream.filled + take \in Nat
    BY <1>2, <1>3, <1>5
  <2>2. filled = Extended(stream, stream.filled + take, Append(stream.slices, slice))
    BY DEF Extended
  <2>3. stream \in StreamType
    BY <1>1
  <2> HIDE DEF filled
  <2> DEFINE m == stream.filled + take
             q == Append(stream.slices, slice)
  <2>4. q \in Seq(SliceType) /\ m \in Nat /\ filled = Extended(stream, m, q)
    BY <2>1, <2>2
  <2> HIDE DEF m, q
  <2>5. /\ filled.filled = m /\ filled.slices = q /\ filled.cursor = stream.cursor
        /\ filled.start = stream.start /\ filled.chunks = stream.chunks
        /\ filled \in StreamType
    BY <2>3, <2>4, ExtendedType
  <2> QED BY <2>5 DEF m, q
<1> HIDE DEF filled
<1>7. Emptied(filled) \in StreamType /\ Emptied(filled).filled \in 0..SegmentTarget
  <2>1. Emptied(filled) \in StreamType /\ Emptied(filled).filled = 0
    BY <1>6, EmptiedType
  <2> QED BY <2>1, Constants
<1>8. TakeSegment(filled) \in SegmentType
  <2>1. /\ filled.start + filled.filled \in Nat /\ filled.start \in Nat
        /\ filled.slices \in Seq(SliceType)
    <3>1. filled.start \in Nat /\ filled.filled \in Nat /\ filled.slices \in Seq(SliceType)
      BY <1>6, StreamFields
    <3> QED BY <3>1
  <2> QED BY <2>1, SegmentTypeIs DEF TakeSegment
<1>9. pending' \in Seq(SegmentType)
  <2>1. pending \in Seq(SegmentType)
    BY <1>1
  <2>2. pending' = Append(pending, TakeSegment(filled)) \/ pending' = pending
    BY <1>4
  <2> DEFINE seg == TakeSegment(filled)
  <2>3. seg \in SegmentType
    BY <1>8
  <2> HIDE DEF seg, SegmentType
  <2>4. Append(pending, seg) \in Seq(SegmentType)
    BY <2>1, <2>3
  <2> QED BY <2>1, <2>2, <2>4 DEF seg
<1>10. stream' \in StreamType /\ stream'.filled \in 0..SegmentTarget
  BY <1>3, <1>4, <1>6, <1>7
<1> QED BY <1>9, <1>10, <1>1, <1>3, <1>4, <1>6, <1>7, <1>8

\* Every step keeps them.
LEMMA BaseNext == BaseInv /\ [Next]_vars => BaseInv'
<1> SUFFICES ASSUME BaseInv, [Next]_vars PROVE BaseInv'
  OBVIOUS
<1> USE DEF BaseInv, InFlight, frames, updates, storage, outcome, clock
(* What the flush of the accumulator leaves. *)
<1>f. /\ segments \o Trailing \in Seq(SegmentType)
      /\ Emptied(stream) \in StreamType /\ Emptied(stream).filled \in 0..SegmentTarget
  <2>1. Trailing \in Seq(SegmentType)
    <3>1. TakeSegment(stream) \in SegmentType
      BY SegmentTypeIs DEF TakeSegment, StreamType, TypeOK
    <3> QED BY <3>1 DEF Trailing
  <2>2. segments \o Trailing \in Seq(SegmentType)
    BY <2>1, ConcatProperties DEF TypeOK
  <2>3. Emptied(stream) \in StreamType /\ Emptied(stream).filled = 0
    BY EmptiedType
  <2> QED BY <2>2, <2>3, Constants
<1>1. CASE Refuse
  BY <1>1 DEF Refuse, TypeOK, Early, NothingYet
<1>2. CASE Accept
  BY <1>2, Constants DEF Accept, TypeOK, Early, NothingYet
<1>3. ASSUME NEW f \in Framings, NEW m \in Modes, Start(f, m) PROVE BaseInv'
  BY <1>3 DEF Start, TypeOK, Early, NothingYet
<1>4. CASE Open
  <2>1. pc' \in {"receive", "failing"} /\ timer' \in Nat
    BY <1>4, ListenType DEF Open, TypeOK
  <2> QED BY <1>4, <2>1 DEF Open, TypeOK, Early, NothingYet
<1>5. CASE OpenFails \/ OpenCancelled
  <2>1. /\ pc = "opening" /\ pc' \in {"failing", "leaving"} /\ mode' = "none"
        /\ record' \in {"none", "pending"}
    BY <1>5 DEF OpenFails, OpenCancelled, NoHandle, Fail, Leave
  <2>2. UNCHANGED <<framing, clock, frames, updates, storage, completed, verdict, cleanup>>
    BY <1>5 DEF OpenFails, OpenCancelled, NoHandle
  <2> QED BY <2>1, <2>2 DEF TypeOK, Early
<1>6. ASSUME NEW n \in ChunkSizes, RawFrame(n) PROVE BaseInv'
  BY <1>6 DEF RawFrame, TypeOK, Early
<1>7. ASSUME NEW n \in ChunkSizes, Frame(n) PROVE BaseInv'
  <2>1. waiting' \in Seq(ChunkSizes) /\ Len(waiting') <= Window /\ ordered' \in Seq(ChunkSizes)
    BY <1>7, FrameType DEF TypeOK
  <2>2. /\ pc = "receive" /\ pc' = "chunks"
        /\ UNCHANGED <<framing, mode, clock, updates, storage, outcome>>
    BY <1>7 DEF Frame
  <2> QED BY <2>1, <2>2 DEF TypeOK, Early
<1>8. CASE SkipEmpty
  <2>1. ordered' \in Seq(ChunkSizes)
    BY <1>8 DEF SkipEmpty, TypeOK
  <2> QED BY <1>8, <2>1 DEF SkipEmpty, TypeOK, Early
<1>9. CASE TooMuch
  BY <1>9 DEF TooMuch, TypeOK, Early, Fail
<1>10. CASE TakeChunk
  <2>1. /\ ordered # <<>> /\ Head(ordered) # 0 /\ ordered \in Seq(ChunkSizes)
        /\ sizes \in Seq(ChunkSizes \ {0})
    BY <1>10 DEF TakeChunk, TypeOK
  <2>2. Head(ordered) \in ChunkSizes /\ Head(ordered) \in Nat
    BY <2>1, HeadType
  <2>3. Tail(ordered) \in Seq(ChunkSizes) /\ Append(sizes, Head(ordered)) \in Seq(ChunkSizes \ {0})
    BY <2>1, <2>2
  <2>4. /\ ordered' \in Seq(ChunkSizes) /\ sizes' \in Seq(ChunkSizes \ {0}) /\ offset' \in Nat
        /\ buffered' \in Nat /\ pc' \in {"append", "chunks"} /\ pc = "chunks"
        /\ pc' = "append" => ordered' # <<>>
    <3>1. buffered \in Nat /\ offset \in Nat
      BY DEF TypeOK
    <3>2. CASE KeepsAudio
      BY <1>10, <2>1, <2>3, <3>1, <3>2 DEF TakeChunk
    <3>3. CASE ~KeepsAudio
      <4>1. /\ buffered' = buffered + Head(ordered) /\ ordered' = Tail(ordered)
            /\ pc' = pc /\ offset' = offset /\ sizes' = sizes /\ pc = "chunks"
        BY <1>10, <3>3 DEF TakeChunk
      <4>2. buffered' \in Nat /\ ordered' \in Seq(ChunkSizes)
        BY <2>2, <2>3, <3>1, <4>1
      <4> QED BY <2>1, <3>1, <4>1, <4>2
    <3> QED BY <3>2, <3>3
  <2>5. UNCHANGED <<framing, mode, clock, waiting, lastEmitted, interval, labels, language,
                    checkedAt, sequence, stream, pending, segments, report, outcome>>
    BY <1>10 DEF TakeChunk
  <2> QED BY <2>4, <2>5 DEF TypeOK, Early
<1>11. CASE Fill
  <2>1. /\ stream' \in StreamType /\ stream'.filled \in 0..SegmentTarget
        /\ offset' \in Nat /\ pending' \in Seq(SegmentType)
    BY <1>11, FillTypes
  <2>2. /\ pc = "append" /\ pc' = pc
        /\ UNCHANGED <<framing, mode, clock, frames, updates, segments, sizes, report, outcome>>
    BY <1>11 DEF Fill
  <2> QED BY <2>1, <2>2 DEF TypeOK, Early
<1>12. CASE Filled
  <2>1. Head(ordered) \in Nat
    <3>1. ordered # <<>> /\ ordered \in Seq(ChunkSizes)
      BY <1>12 DEF Filled, TypeOK
    <3> QED BY <3>1, HeadType
  <2>2. stream' \in StreamType /\ stream'.filled = stream.filled
    <3>1. stream' = [stream EXCEPT !.cursor = @ + Head(ordered), !.chunks = @ + 1]
      BY <1>12 DEF Filled
    <3>2. stream.cursor + Head(ordered) \in Nat /\ stream.chunks + 1 \in Nat
      BY <2>1 DEF StreamType
    <3>3. stream' = Moved(stream, stream.cursor + Head(ordered), stream.chunks + 1)
      BY <3>1 DEF Moved
    <3> QED BY <3>2, <3>3, MovedType
  <2>3. /\ pc = "append" /\ pc' = "store"
        /\ UNCHANGED <<framing, mode, clock, frames, updates, offset, pending, segments,
                       sizes, report, outcome>>
    BY <1>12 DEF Filled
  <2> QED BY <2>2, <2>3 DEF TypeOK, Early
<1>13. CASE StoreSegment
  <2>1. pending # <<>> /\ Head(pending) \in SegmentType /\ Tail(pending) \in Seq(SegmentType)
    BY <1>13 DEF StoreSegment, TypeOK
  <2>2. segments' \in Seq(SegmentType) /\ pending' \in Seq(SegmentType)
    BY <1>13, <2>1 DEF StoreSegment, TypeOK
  <2> QED BY <1>13, <2>2 DEF StoreSegment, TypeOK, Early
<1>14. CASE StoreFails \/ StoreCancelled
  <2>1. segments' \in Seq(SegmentType)
    <3>1. segments \in Seq(SegmentType) /\ pending \in Seq(SegmentType)
      BY DEF TypeOK
    <3>2. CASE segments' = segments
      BY <3>1, <3>2
    <3>3. CASE pending # <<>> /\ segments' = Append(segments, Head(pending))
      BY <3>1, <3>3
    <3> QED BY <1>14, <3>2, <3>3 DEF StoreFails, StoreCancelled, StoreBreaks
  <2>2. /\ pc \in {"append", "store"} /\ pc' \in {"failing", "leaving"}
        /\ UNCHANGED <<framing, mode, clock, frames, updates, stream, offset, pending, sizes,
                       report, outcome>>
    BY <1>14 DEF StoreFails, StoreCancelled, StoreBreaks, Fail, Leave
  <2>3. ~completed
    BY <2>2
  <2> QED BY <2>1, <2>2, <2>3 DEF TypeOK, Early
<1>15. CASE Stored
  <2> DEFINE C == {i \in DOMAIN sizes : CountsAsStored(i)}
  <2>1. Len(sizes) \in Nat /\ DOMAIN sizes = 1..Len(sizes)
    BY DEF TypeOK
  <2>2. /\ C \in SUBSET (1..Len(sizes)) /\ IsFiniteSet(1..Len(sizes))
        /\ Cardinality(1..Len(sizes)) = Len(sizes)
    <3>1. IsFiniteSet(1..Len(sizes))
      BY <2>1, FS_Interval
    <3>2. Cardinality(1..Len(sizes)) = IF 1 > Len(sizes) THEN 0 ELSE Len(sizes) - 1 + 1
      BY <2>1, FS_Interval
    <3> QED BY <2>1, <3>1, <3>2
  <2>3. IsFiniteSet(C) /\ Cardinality(C) <= Len(sizes)
    BY <2>2, FS_Subset
  <2>4. Cardinality(C) \in Nat
    BY <2>3, FS_CardinalityType
  <2>5. report' = [received |-> Len(sizes), stored |-> Cardinality(C)]
    BY <1>15 DEF Stored
  <2> HIDE DEF C
  <2>6. report'.stored \in 0..report'.received
    BY <2>1, <2>3, <2>4, <2>5
  <2>7. /\ pc = "store" /\ pc' = "chunks"
        /\ buffered' = buffered + Head(ordered) /\ ordered' = Tail(ordered)
    BY <1>15 DEF Stored
  <2>8. UNCHANGED <<framing, mode, clock, waiting, lastEmitted, interval, labels, language,
                    checkedAt, sequence, stream, offset, pending, segments, sizes, outcome>>
    BY <1>15 DEF Stored
  <2>9. buffered' \in Nat /\ ordered' \in Seq(ChunkSizes)
    <3>1. ordered # <<>> /\ ordered \in Seq(ChunkSizes) /\ buffered \in Nat
      BY <2>7 DEF TypeOK
    <3>2. Head(ordered) \in Nat /\ Tail(ordered) \in Seq(ChunkSizes)
      BY <3>1, HeadType
    <3> QED BY <2>7, <3>1, <3>2
  <2> QED BY <2>6, <2>7, <2>8, <2>9 DEF TypeOK, Early
<1>16. CASE ChunksDone
  <2>1. pc' \in {"receive", "failing", "analyze"} /\ timer' \in Nat
    BY <1>16, ListenType DEF ChunksDone, TypeOK
  <2> QED BY <1>16, <2>1 DEF ChunksDone, TypeOK, Early
<1>17. ASSUME NEW l \in Labels, NEW answer \in Heard, Update(l, answer) PROVE BaseInv'
  <2>1. pc' \in {"receive", "failing"} /\ timer' \in Nat
    BY <1>17, ListenType DEF Update, TypeOK
  <2>2. interval' \in EmitInterval..MaxEmitInterval
    BY <1>17, BackoffType DEF Update, TypeOK
  <2>3. language' \in Languages \cup {"none"}
    BY <1>17 DEF Update, Carried, Heard, Identified, TypeOK
  <2> QED BY <1>17, <2>1, <2>2, <2>3 DEF Update, TypeOK, Early
<1>18. CASE AnalysisFails
  BY <1>18 DEF AnalysisFails, TypeOK, Early, Fail
<1>19. ASSUME NEW answer \in Identified, Conclude(answer) PROVE BaseInv'
  BY <1>19 DEF Conclude, Carried, Identified, TypeOK, Early
<1>20. CASE Complete
  <2>1. /\ segments' \in Seq(SegmentType)
        /\ stream' \in StreamType /\ stream'.filled \in 0..SegmentTarget
        /\ record' \in {"none", "pending", "stored", "deleted"}
    <3>1. CASE ~Enabled
      BY <1>20, <3>1 DEF Complete, TypeOK
    <3>2. CASE Enabled
      <4>1. segments' = segments \o Trailing /\ stream' = Emptied(stream) /\ record' = "stored"
        BY <1>20, <3>2 DEF Complete
      <4> QED BY <1>f, <4>1
    <3> QED BY <3>1, <3>2
  <2>2. pc' = "answer" /\ completed' = TRUE /\ sequence' \in Nat /\ pc = "complete"
    BY <1>20 DEF Complete, TypeOK
  <2>3. UNCHANGED <<framing, mode, clock, frames, buffered, lastEmitted, interval, labels,
                    language, checkedAt, offset, pending, sizes, report, verdict, cleanup>>
    BY <1>20 DEF Complete
  <2> QED BY <2>1, <2>2, <2>3 DEF TypeOK, Early
<1>21. CASE CompleteFails \/ CompleteCancelled
  <2>1. /\ pc = "complete" /\ pc' \in {"failing", "leaving"} /\ completed' = completed
        /\ UNCHANGED <<framing, mode, clock, frames, updates, offset, pending, sizes, report,
                       verdict, cleanup>>
    BY <1>21 DEF CompleteFails, CompleteCancelled, CompleteBreaks, Fail, Leave
  <2>2. /\ segments' \in {segments, segments \o Trailing}
        /\ stream' \in {stream, Emptied(stream)} /\ record' \in {record, "stored"}
    BY <1>21 DEF CompleteFails, CompleteCancelled, CompleteBreaks
  <2>3. /\ segments' \in Seq(SegmentType)
        /\ stream' \in StreamType /\ stream'.filled \in 0..SegmentTarget
    BY <1>f, <2>2 DEF TypeOK
  <2>4. record' \in {"none", "pending", "stored", "deleted"} /\ ~completed
    BY <2>1, <2>2 DEF TypeOK
  <2> QED BY <2>1, <2>3, <2>4 DEF TypeOK, Early
<1>22. CASE Answer
  BY <1>22 DEF Answer, TypeOK, Early
<1>23. CASE TimesOut
  BY <1>23 DEF TimesOut, TypeOK, Early, Fail
<1>24. CASE TellError
  BY <1>24 DEF TellError, TypeOK, Early, Leave
<1>25. CASE Finally
  <2>1. /\ waiting' \in Seq(ChunkSizes) /\ Len(waiting') <= Window /\ ordered' \in Seq(ChunkSizes)
        /\ buffered' \in Nat /\ lastEmitted' \in Nat /\ checkedAt' \in Nat /\ sequence' \in Nat
        /\ interval' \in EmitInterval..MaxEmitInterval /\ labels' = "none" /\ language' = "none"
        /\ offset' \in Nat /\ pending' \in Seq(SegmentType)
    BY <1>25, Constants DEF Finally
  <2>2. stream' \in StreamType /\ stream'.filled \in 0..SegmentTarget
    BY <1>25, NewStreamType DEF Finally
  <2>3. /\ segments' \in Seq(SegmentType) /\ record' \in {"none", "pending", "stored", "deleted"}
        /\ cleanup' \in {"none", "done", "failed"}
    <3>1. segments' = <<>> \/ segments' = segments
      BY <1>25 DEF Finally, CleanUp, Erased
    <3>2. record' = "deleted" \/ record' = record
      BY <1>25 DEF Finally, CleanUp, Erased
    <3>5. cleanup' \in {"none", "done", "failed"}
      BY <1>25 DEF Finally, CleanUp, TypeOK
    <3>3. segments' \in Seq(SegmentType)
      <4>1. <<>> \in Seq(SegmentType) /\ segments \in Seq(SegmentType)
        BY DEF TypeOK
      <4> QED BY <3>1, <4>1
    <3>4. record' \in {"none", "pending", "stored", "deleted"}
      BY <3>2 DEF TypeOK
    <3> QED BY <3>3, <3>4, <3>5
  <2>4. report'.stored \in 0..report'.received
    BY <1>25 DEF Finally
  <2>5. pc' = "closed" /\ UNCHANGED <<framing, mode, clock, sizes, completed, verdict>>
    BY <1>25 DEF Finally
  <2> QED BY <2>1, <2>2, <2>3, <2>4, <2>5 DEF TypeOK, Early
<1>26. CASE Ping
  <2>1. pc' \in {"receive", "failing"} /\ timer' \in Nat
    BY <1>26, ListenType DEF Ping, TypeOK
  <2> QED BY <1>26, <2>1 DEF Ping, TypeOK, Early
<1>27. CASE BadMessage
  BY <1>27 DEF BadMessage, TypeOK, Early, Fail
<1>28. CASE End
  <2>1. PICK rest \in Flushed : /\ buffered' = buffered + rest
                               /\ IF buffered + rest = 0 THEN Fail ELSE pc' = "conclude"
    BY <1>28 DEF End
  <2>2. rest \in Nat
    <3>1. Total(waiting) \in Nat
      BY TotalOfChunks DEF TypeOK
    <3>2. \A c \in ChunkSizes \cup {0} : Total(waiting) + c \in Nat
      BY <3>1, Constants
    <3> QED BY <2>1, <3>2 DEF Flushed
  <2>3. buffered' \in Nat /\ pc' \in {"failing", "conclude"} /\ pc = "receive"
        /\ waiting' = <<>>
    BY <1>28, <2>1, <2>2 DEF End, Fail, TypeOK
  <2>4. UNCHANGED <<framing, mode, clock, ordered, lastEmitted, interval, labels, language,
                    checkedAt, sequence, storage, outcome>>
    BY <1>28 DEF End
  <2>5. waiting' \in Seq(ChunkSizes) /\ Len(waiting') <= Window
    BY <2>3, Constants
  <2> QED BY <2>3, <2>4, <2>5 DEF TypeOK, Early
<1>29. CASE Disconnect \/ Cancelled
  <2>1. /\ pc' = "leaving"
        /\ UNCHANGED <<framing, mode, clock, frames, updates, storage, outcome>>
    BY <1>29 DEF Disconnect, Cancelled, Leave
  <2> QED BY <2>1 DEF TypeOK, Early
<1>30. CASE Tick
  <2>1. age' \in 0..MaxSession /\ timer' \in Nat
    BY <1>30, Constants DEF Tick, TypeOK, Smaller
  <2>2. UNCHANGED <<pc, framing, mode, frames, updates, storage, outcome>>
    BY <1>30 DEF Tick
  <2> QED BY <2>1, <2>2 DEF TypeOK, Early, NothingYet
<1>31. CASE UNCHANGED vars
  BY <1>31 DEF vars, TypeOK, Early, NothingYet
<1> QED BY <1>1, <1>2, <1>3, <1>4, <1>5, <1>6, <1>7, <1>8, <1>9, <1>10, <1>11, <1>12, <1>13,
           <1>14, <1>15, <1>16, <1>17, <1>18, <1>19, <1>20, <1>21, <1>22, <1>23, <1>24, <1>25,
           <1>26, <1>27, <1>28, <1>29, <1>30, <1>31 DEF Next, Client, Handler

-------------------------------------------------------------------------------
(***************************************************************************)
(* Where the handler holds what it streams.                                *)
(***************************************************************************)
\* The handler is past storing: complete was tried, or nothing more will be.
Past == {"answer", "failing", "leaving", "closed"}

\* It takes no more audio in, and what it has in hand may not be stored any more.
Stopped == {"failing", "leaving", "closed"}

\* The stored segments tile the stored stream up to StoredEnd; only the segment that
\* complete writes may be short, whether complete returns or not.
SegmentsInv ==
    EndToEnd(sizes, segments, 0, StoredEnd, IF pc \in Past THEN 1..SegmentTarget ELSE Full)

\* Behind them come the segments that are full and not stored, and behind these the bytes
\* of the accumulator, up to the byte the handler is at; every chunk before is cut up whole.
StreamInv ==
    /\ stream.filled < SegmentTarget
    /\ CutsUp(sizes, stream.slices, stream.start, stream.filled)
    /\ ~completed => EndToEnd(sizes, pending, StoredEnd, stream.start, Full)
    /\ stream.cursor = EndOf(sizes, stream.chunks)
    /\ stream.start + stream.filled = stream.cursor + (IF pc = "append" THEN offset ELSE 0)
    /\ Len(sizes) = stream.chunks + (IF pc = "append" THEN 1 ELSE 0)
    /\ InFlight => sizes # <<>> /\ Head(ordered) = sizes[Len(sizes)] /\ KeepsAudio
    /\ pc = "append" => offset <= Head(ordered)
    /\ ~InFlight => pending = <<>>
    /\ completed => StoredEnd = stream.start /\ stream.filled = 0 /\ pending = <<>>

\* Without retention of audio nothing of it is kept.
NothingKept ==
    ~KeepsAudio => stream = NewStream /\ sizes = <<>> /\ segments = <<>> /\ pending = <<>>

\* The inductive invariant behind SegmentsTile.  A segment whose storing failed may be
\* stored all the same, so that the accumulator says nothing once the handler has stopped.
StorageInv ==
    /\ SegmentsInv
    /\ pc \notin Stopped => StreamInv
    /\ NothingKept

\* The steps that move no audio.
LEMMA StorageSame ==
    ASSUME StorageInv,
           UNCHANGED <<pc, mode, ordered, offset, stream, pending, segments, sizes, completed>>
    PROVE  StorageInv'
<1> SUFFICES SegmentsInv' = SegmentsInv /\ StreamInv' = StreamInv /\ NothingKept' = NothingKept
  BY DEF StorageInv
<1>1. StoredEnd' = StoredEnd /\ KeepsAudio' = KeepsAudio /\ InFlight' = InFlight
  BY DEF StoredEnd, KeepsAudio, InFlight
<1> QED BY <1>1 DEF SegmentsInv, StreamInv, NothingKept

(* The steps that leave the storage alone. *)
LEMMA StorageQuiet ==
    ASSUME StorageInv, pc \notin Past \cup {"append"}, pc' \notin Past \cup {"append", "store"},
           pending = <<>>, UNCHANGED <<mode, stream, pending, segments, sizes, completed>>
    PROVE  StorageInv'
<1>1. StoredEnd' = StoredEnd /\ KeepsAudio' = KeepsAudio /\ ~InFlight'
  BY DEF StoredEnd, KeepsAudio, InFlight
<1>2. SegmentsInv' /\ NothingKept'
  BY <1>1 DEF StorageInv, SegmentsInv, NothingKept
<1>3. StreamInv
  BY DEF StorageInv, Past, Stopped
<1>4. StreamInv'
  BY <1>1, <1>3 DEF StreamInv, Past
<1> QED BY <1>2, <1>4 DEF StorageInv

(* The sizes a segment may have grow. *)
LEMMA SegmentsMayBeShort ==
    ASSUME StorageInv
    PROVE  EndToEnd(sizes, segments, 0, StoredEnd, 1..SegmentTarget)
<1>1. CASE pc \in Past
  BY <1>1 DEF StorageInv, SegmentsInv
<1>2. CASE pc \notin Past
  BY <1>2, LastMayBeFull DEF StorageInv, SegmentsInv
<1> QED BY <1>1, <1>2

(* The steps by which the handler stops. *)
LEMMA StorageStops ==
    ASSUME StorageInv, pc' \in Stopped, UNCHANGED <<mode, stream, pending, segments, sizes>>
    PROVE  StorageInv'
<1>1. StoredEnd' = StoredEnd /\ KeepsAudio' = KeepsAudio
  BY DEF StoredEnd, KeepsAudio
<1>2. SegmentsInv'
  BY <1>1, SegmentsMayBeShort DEF SegmentsInv, Past, Stopped
<1>3. NothingKept'
  BY <1>1 DEF StorageInv, NothingKept
<1> QED BY <1>2, <1>3 DEF StorageInv

(* Where nothing was streamed yet. *)
NoStream ==
    /\ stream = NewStream /\ sizes = <<>> /\ segments = <<>> /\ pending = <<>>
    /\ ~completed /\ pc \notin {"append", "store"}

\* The invariant holds of an empty stream.
LEMMA StorageNone == NoStream => StorageInv
<1> SUFFICES ASSUME NoStream PROVE StorageInv
  OBVIOUS
<1> USE DEF NoStream
<1>1. StoredEnd = 0 /\ EndOf(sizes, 0) = 0 /\ Len(sizes) = 0
  BY EndOfZero DEF StoredEnd
<1>2. SegmentsInv
  BY <1>1, NothingCut DEF SegmentsInv
<1>3. /\ stream.filled = 0 /\ stream.slices = <<>> /\ stream.cursor = 0 /\ stream.start = 0
      /\ stream.chunks = 0
  BY DEF NewStream
<1>4. /\ CutsUp(sizes, stream.slices, stream.start, stream.filled)
      /\ EndToEnd(sizes, pending, StoredEnd, stream.start, Full)
  BY <1>1, <1>3, NothingCut
<1>5. stream.filled < SegmentTarget
  BY <1>3, Constants
<1>6. StreamInv
  BY <1>1, <1>3, <1>4, <1>5 DEF StreamInv, InFlight
<1> QED BY <1>2, <1>6 DEF StorageInv, NothingKept

\* So it does after a step.
LEMMA StorageNoneNext == NoStream' => StorageInv'
BY StorageNone, PTL

\* The chunks of the stored stream are not empty.
LEMMA SizesAreNat == BaseInv => sizes \in Seq(Nat) /\ \A i \in 1..Len(sizes) : sizes[i] # 0
<1> SUFFICES ASSUME BaseInv PROVE sizes \in Seq(Nat) /\ \A i \in 1..Len(sizes) : sizes[i] # 0
  OBVIOUS
<1>1. sizes \in Seq(ChunkSizes \ {0})
  BY DEF BaseInv, TypeOK
<1>2. ChunkSizes \ {0} \subseteq Nat
  BY Constants
<1>3. sizes \in Seq(Nat)
  BY <1>1, <1>2, SeqMonotonic
<1> QED BY <1>1, <1>3

\* The end of the stored segments.
LEMMA StoredEndIs ==
    ASSUME BaseInv, StorageInv
    PROVE  StoredEnd \in Nat
<1>1. segments \in Seq(SegmentType)
  BY DEF BaseInv, TypeOK
<1>2. CASE segments = <<>>
  BY <1>2 DEF StoredEnd
<1>3. CASE segments # <<>>
  <2>1. segments[Len(segments)] \in SegmentType
    BY <1>1, <1>3
  <2>2. segments[Len(segments)].end \in Nat
    BY <2>1 DEF SegmentType
  <2> QED BY <1>3, <2>2 DEF StoredEnd
<1> QED BY <1>2, <1>3

(* The chunk taken by the handler. *)
LEMMA StorageTakeChunk ==
    ASSUME BaseInv, StorageInv, TakeChunk, KeepsAudio
    PROVE  StorageInv'
<1>1. /\ pc = "chunks" /\ pc' = "append" /\ offset' = 0 /\ sizes' = Append(sizes, Head(ordered))
      /\ UNCHANGED <<mode, stream, pending, segments, ordered, completed>>
      /\ ordered # <<>> /\ ordered \in Seq(ChunkSizes)
  BY DEF TakeChunk, outcome, BaseInv, TypeOK
<1> DEFINE n == Head(ordered)
<1>2. n \in Nat /\ sizes \in Seq(Nat)
  BY <1>1, HeadType, SizesAreNat
<1> HIDE DEF n
<1>3. /\ sizes' = Append(sizes, n) /\ Len(sizes') = Len(sizes) + 1 /\ Len(sizes) \in Nat
      /\ sizes'[Len(sizes')] = n /\ sizes' # <<>>
  BY <1>1, <1>2 DEF n
<1>4. StreamInv /\ SegmentsInv /\ ~completed /\ pending = <<>>
  BY <1>1 DEF StorageInv, StreamInv, BaseInv, InFlight, Stopped
<1>5. StoredEnd' = StoredEnd
  BY <1>1 DEF StoredEnd
<1>6. stream.start \in Nat /\ stream.chunks \in Nat
  BY StreamFields DEF BaseInv
<1>7. SegmentsInv'
  BY <1>1, <1>2, <1>3, <1>4, <1>5, EndToEndGrow DEF SegmentsInv, Past
<1>8. CutsUp(sizes', stream'.slices, stream'.start, stream'.filled)
  BY <1>1, <1>2, <1>3, <1>4, <1>6, CutsUpGrow DEF StreamInv
<1>9. EndToEnd(sizes', pending', StoredEnd', stream'.start, Full)
  BY <1>1, <1>2, <1>3, <1>4, <1>5, EndToEndGrow DEF StreamInv
<1>10. stream.cursor = EndOf(sizes, stream.chunks) /\ stream.chunks = Len(sizes)
       /\ stream.start + stream.filled = stream.cursor
  <2>1. stream.start + stream.filled = stream.cursor + 0 /\ Len(sizes) = stream.chunks + 0
    BY <1>1, <1>4 DEF StreamInv
  <2>2. stream.cursor \in Nat
    BY StreamFields DEF BaseInv
  <2> QED BY <1>4, <1>6, <2>1, <2>2 DEF StreamInv
<1>11. stream.chunks \in 0..Len(sizes)
  BY <1>3, <1>6, <1>10
<1>12. EndOf(sizes', stream'.chunks) = stream'.cursor
  BY <1>1, <1>2, <1>3, <1>10, <1>11, EndOfAppend
<1>13. /\ stream'.start + stream'.filled = stream'.cursor + offset'
       /\ Len(sizes') = stream'.chunks + 1
  <2>1. stream.cursor \in Nat
    BY StreamFields DEF BaseInv
  <2> QED BY <1>1, <1>3, <1>10, <2>1
<1>14. InFlight' /\ KeepsAudio' /\ Head(ordered') = n
  BY <1>1 DEF InFlight, KeepsAudio, n
<1>15. offset' <= Head(ordered')
  BY <1>1, <1>2, <1>14
<1>16. stream'.filled < SegmentTarget
  BY <1>1, <1>4 DEF StreamInv
<1>17. StreamInv'
  BY <1>1, <1>3, <1>4, <1>8, <1>9, <1>12, <1>13, <1>14, <1>15, <1>16 DEF StreamInv
<1> QED BY <1>1, <1>7, <1>14, <1>17 DEF StorageInv, NothingKept

(* One iteration of append. *)
LEMMA FillIs ==
    ASSUME BaseInv, StorageInv, Fill
    PROVE  \E take \in Nat :
             LET more == Extended(stream, stream.filled + take,
                           Append(stream.slices,
                             Slice(stream.chunks, stream.cursor + offset, stream.filled, take)))
             IN  /\ take > 0 /\ stream.filled + take <= SegmentTarget /\ offset' = offset + take
                 /\ offset + take <= Head(ordered)
                 /\ IF stream.filled + take = SegmentTarget
                    THEN stream' = Emptied(more) /\ pending' = Append(pending, TakeSegment(more))
                    ELSE stream' = more /\ pending' = pending
<1>1. /\ stream \in StreamType /\ offset \in Nat /\ offset < Head(ordered)
      /\ pc = "append" /\ Head(ordered) \in Nat
  <2>1. /\ pc = "append" /\ offset < Head(ordered) /\ offset \in Nat
        /\ ordered # <<>> /\ ordered \in Seq(ChunkSizes)
    BY DEF Fill, BaseInv, TypeOK, InFlight
  <2> QED BY <2>1, HeadType DEF BaseInv
<1>2. /\ stream.filled \in Nat /\ stream.slices \in Seq(SliceType) /\ stream.cursor \in Nat
      /\ stream.start \in Nat /\ stream.chunks \in Nat
  BY <1>1, StreamFields
<1>3. stream.filled < SegmentTarget /\ SegmentTarget \in Nat
  BY <1>1, Constants DEF StorageInv, StreamInv, Stopped
<1> DEFINE take == Smaller(Room, Head(ordered) - offset)
           slice == Slice(stream.chunks, stream.cursor + offset, stream.filled, take)
           filled == [stream EXCEPT !.filled = @ + take, !.slices = Append(@, slice)]
<1>4. /\ offset' = offset + take
      /\ IF filled.filled = SegmentTarget
         THEN stream' = Emptied(filled) /\ pending' = Append(pending, TakeSegment(filled))
         ELSE stream' = filled /\ pending' = pending
  BY DEF Fill
<1>5. /\ take \in Nat /\ take > 0 /\ stream.filled + take <= SegmentTarget
      /\ offset + take <= Head(ordered)
  <2>1. /\ SegmentTarget - stream.filled \in Nat /\ Head(ordered) - offset \in Nat
        /\ SegmentTarget - stream.filled > 0 /\ Head(ordered) - offset > 0
    BY <1>1, <1>2, <1>3
  <2>2. /\ take \in {SegmentTarget - stream.filled, Head(ordered) - offset}
        /\ take <= SegmentTarget - stream.filled /\ take <= Head(ordered) - offset
    BY <2>1, SmallerIs DEF Room
  <2> HIDE DEF take
  <2>3. take \in Nat /\ take > 0
    BY <2>1, <2>2
  <2>4. stream.filled + take <= SegmentTarget
    BY <1>2, <1>3, <2>2, <2>3
  <2>5. offset + take <= Head(ordered)
    BY <1>1, <2>2, <2>3
  <2> QED BY <2>3, <2>4, <2>5
<1> HIDE DEF take
<1>6. slice \in SliceType
  <2>1. offset \in Nat /\ take \in Nat
    BY <1>1, <1>5
  <2>2. stream.cursor + offset \in Nat
    BY <1>2, <2>1
  <2> QED BY <1>2, <2>1, <2>2, SliceIs
<1> HIDE DEF slice, SliceType
<1>7. filled = Extended(stream, stream.filled + take, Append(stream.slices, slice))
  BY DEF Extended
<1> HIDE DEF filled
<1>8. Append(stream.slices, slice) \in Seq(SliceType) /\ stream.filled + take \in Nat
  BY <1>2, <1>5, <1>6
<1>9. filled.filled = stream.filled + take
  BY <1>1, <1>7, <1>8, ExtendedType
<1> QED BY <1>4, <1>5, <1>7, <1>9 DEF slice

\* An iteration of append keeps the invariant, whether or not it fills the segment.
LEMMA StorageFill ==
    ASSUME BaseInv, StorageInv, Fill
    PROVE  StorageInv'
<1>1. /\ pc = "append" /\ pc' = pc
      /\ UNCHANGED <<mode, segments, sizes, ordered, completed>>
  BY DEF Fill, outcome, frames
<1>2. StreamInv /\ SegmentsInv /\ ~completed /\ InFlight
  BY <1>1 DEF StorageInv, BaseInv, InFlight, Stopped
<1>3. StoredEnd' = StoredEnd /\ SegmentsInv' /\ InFlight' /\ KeepsAudio' = KeepsAudio
  BY <1>1, <1>2 DEF StoredEnd, SegmentsInv, InFlight, KeepsAudio, Past
<1>4. stream \in StreamType /\ offset \in Nat /\ sizes \in Seq(Nat) /\ Head(ordered) \in Nat
  <2>1. ordered # <<>> /\ ordered \in Seq(ChunkSizes)
    BY <1>2 DEF BaseInv, TypeOK
  <2> QED BY <2>1, HeadType, SizesAreNat DEF BaseInv, TypeOK
<1> DEFINE n == stream.filled
           c == stream.chunks
<1>5. /\ n \in Nat /\ stream.slices \in Seq(SliceType) /\ stream.cursor \in Nat
      /\ stream.start \in Nat /\ c \in Nat
  BY <1>4, StreamFields
<1>6. PICK take \in Nat :
             LET more == Extended(stream, stream.filled + take,
                           Append(stream.slices,
                             Slice(stream.chunks, stream.cursor + offset, stream.filled, take)))
             IN  /\ take > 0 /\ stream.filled + take <= SegmentTarget /\ offset' = offset + take
                 /\ offset + take <= Head(ordered)
                 /\ IF stream.filled + take = SegmentTarget
                    THEN stream' = Emptied(more) /\ pending' = Append(pending, TakeSegment(more))
                    ELSE stream' = more /\ pending' = pending
  BY FillIs
<1> DEFINE sl == Slice(c, stream.cursor + offset, n, take)
           q == Append(stream.slices, sl)
           more == Extended(stream, n + take, q)
<1>7. /\ take > 0 /\ n + take <= SegmentTarget
      /\ offset' = offset + take /\ offset + take <= Head(ordered)
      /\ IF n + take = SegmentTarget
         THEN stream' = Emptied(more) /\ pending' = Append(pending, TakeSegment(more))
         ELSE stream' = more /\ pending' = pending
  BY <1>6
<1>8. /\ sl \in SliceType /\ sl.segFrom = n /\ sl.segTo = n + take /\ sl.chunk = c
      /\ sl.from = stream.cursor + offset /\ sl.to = stream.cursor + offset + take
  <2> DEFINE f == stream.cursor + offset
  <2>1. c \in Nat /\ n \in Nat /\ f \in Nat /\ take \in Nat
    BY <1>4, <1>5
  <2>2. sl = Slice(c, f, n, take)
    OBVIOUS
  <2> HIDE DEF n, c, f, sl, SliceType
  <2>3. /\ sl \in SliceType /\ sl.segFrom = n /\ sl.segTo = n + take /\ sl.chunk = c
        /\ sl.from = f /\ sl.to = f + take
    <3> DEFINE a == f + take
               b == n + take
    <3>1. a \in Nat /\ b \in Nat
      BY <2>1
    <3>2. sl = [chunk |-> c, from |-> f, to |-> a, segFrom |-> n, segTo |-> b]
      BY <2>2 DEF Slice
    <3> HIDE DEF a, b
    <3>3. sl \in SliceType
      BY <2>1, <3>1, <3>2 DEF SliceType
    <3>4. sl.segFrom = n /\ sl.segTo = b /\ sl.chunk = c /\ sl.from = f /\ sl.to = a
      BY <3>2
    <3> QED BY <3>3, <3>4 DEF a, b
  <2> QED BY <2>3 DEF f
<1> HIDE DEF SliceType, sl
<1>9. /\ more \in StreamType /\ more.filled = n + take /\ more.slices = q
      /\ more.cursor = stream.cursor /\ more.start = stream.start /\ more.chunks = c
  <2> DEFINE m == n + take
  <2>1. q \in Seq(SliceType) /\ m \in Nat /\ stream \in StreamType
    BY <1>4, <1>5, <1>8
  <2>2. more = Extended(stream, m, q)
    OBVIOUS
  <2> HIDE DEF m, q, more
  <2>3. /\ more \in StreamType /\ more.filled = m /\ more.slices = q
        /\ more.cursor = stream.cursor /\ more.start = stream.start
        /\ more.chunks = stream.chunks
    BY <2>1, <2>2, ExtendedType
  <2> QED BY <2>3 DEF m
<1> HIDE DEF more
<1>10. /\ stream.start + n = stream.cursor + offset
       /\ Len(sizes) = c + 1 /\ Head(ordered) = sizes[Len(sizes)] /\ KeepsAudio
       /\ stream.cursor = EndOf(sizes, c)
  BY <1>1, <1>2 DEF StreamInv
<1>11. /\ c + 1 \in DOMAIN sizes /\ c + 1 \in 1..Len(sizes) /\ (c + 1) - 1 = c
       /\ c + 1 \in 0..Len(sizes) /\ c \in 0..Len(sizes)
  <2> HIDE DEF c
  <2> QED BY <1>4, <1>5, <1>10
<1>12. EndOf(sizes, c + 1) = stream.cursor + Head(ordered)
  <2>1. EndOf(sizes, c + 1) = EndOf(sizes, (c + 1) - 1) + sizes[c + 1]
    BY <1>4, <1>11, EndOfNext
  <2> QED BY <1>10, <1>11, <2>1
<1>13. LiesWithin(sizes, sl, stream.start)
  <2>1. sl.segFrom < sl.segTo
    BY <1>5, <1>7, <1>8
  <2>2. sl.from = stream.start + sl.segFrom
    BY <1>8, <1>10
  <2>3. sl.to = stream.start + sl.segTo
    <3> HIDE DEF n
    <3>1. /\ sl.segTo = n + take /\ sl.to = stream.cursor + offset + take
          /\ stream.start + n = stream.cursor + offset
      BY <1>8, <1>10
    <3>2. /\ stream.start \in Nat /\ n \in Nat /\ take \in Nat
          /\ stream.cursor \in Nat /\ offset \in Nat
      BY <1>4, <1>5
    <3> QED BY <3>1, <3>2
  <2>4. EndOf(sizes, sl.chunk) <= sl.from
    <3>1. sl.chunk = c /\ sl.from = stream.cursor + offset /\ stream.cursor = EndOf(sizes, c)
      BY <1>8, <1>10
    <3>2. stream.cursor <= stream.cursor + offset
      BY <1>4, <1>5
    <3> QED BY <3>1, <3>2
  <2>5. sl.to <= EndOf(sizes, sl.chunk + 1)
    BY <1>4, <1>5, <1>7, <1>8, <1>12
  <2>6. sl.chunk + 1 \in DOMAIN sizes
    BY <1>8, <1>11
  <2> QED BY <2>1, <2>2, <2>3, <2>4, <2>5, <2>6 DEF LiesWithin
<1>14. CutsUp(sizes, q, stream.start, n + take)
  <2>1. CutsUp(sizes, stream.slices, stream.start, n)
    BY <1>2 DEF StreamInv
  <2>2. CutsUp(sizes, Append(stream.slices, sl), stream.start, sl.segTo)
    BY <1>5, <1>8, <1>13, <2>1, OneMoreSlice
  <2> QED BY <1>8, <2>2
<1>15. EndToEnd(sizes, pending, StoredEnd, stream.start, Full)
  BY <1>2 DEF StreamInv
<1>16. StoredEnd \in Nat
  BY StoredEndIs
<1>19. stream.start + (n + take) = stream.cursor + (offset + take)
  <2> HIDE DEF n
  <2>1. /\ stream.start \in Nat /\ n \in Nat /\ stream.cursor \in Nat /\ offset \in Nat
        /\ stream.start + n = stream.cursor + offset
    BY <1>4, <1>5, <1>10
  <2> QED BY <2>1
<1> HIDE DEF q
<1>17. CASE n + take = SegmentTarget
  <2>1. stream' = Emptied(more) /\ pending' = Append(pending, TakeSegment(more))
    BY <1>7, <1>17
  <2>2. /\ stream'.filled = 0 /\ stream'.slices = <<>> /\ stream'.cursor = stream.cursor
        /\ stream'.start = stream.start + SegmentTarget /\ stream'.chunks = c
    BY <1>9, <1>17, <2>1, EmptiedType
  <2> DEFINE seg == TakeSegment(more)
  <2>3. seg = [start |-> stream.start, end |-> stream.start + SegmentTarget, slices |-> q]
    BY <1>9, <1>17 DEF TakeSegment
  <2>4. seg.start = stream.start /\ seg.end = stream.start + SegmentTarget /\ seg.slices = q
    BY <2>3
  <2>5. stream.start + SegmentTarget \in Nat /\ q \in Seq(SliceType)
    BY <1>5, <1>14, Constants DEF CutsUp
  <2>6. seg \in SegmentType
    BY <1>5, <2>3, <2>5, SegmentTypeIs
  <2> HIDE DEF seg
  <2>7. seg.start < seg.end /\ seg.end - seg.start = SegmentTarget
    BY <1>5, <2>4, Constants
  <2>8. IsSegment(sizes, seg, Full)
    BY <1>14, <1>17, <2>4, <2>6, <2>7 DEF IsSegment, Full
  <2>9. EndToEnd(sizes, Append(pending, seg), StoredEnd, seg.end, Full)
    BY <1>5, <1>15, <1>16, <2>4, <2>8, OneMoreSegment
  <2>10. EndToEnd(sizes', pending', StoredEnd', stream'.start, Full)
    BY <1>1, <1>3, <2>1, <2>2, <2>4, <2>9 DEF seg
  <2>11. CutsUp(sizes', stream'.slices, stream'.start, stream'.filled)
    BY <2>2, NothingCut
  <2>12. stream'.start + stream'.filled = stream'.cursor + offset'
    <3>1. stream.start + SegmentTarget = stream.cursor + (offset + take)
      BY <1>17, <1>19
    <3>2. (stream.start + SegmentTarget) + 0 = stream.start + SegmentTarget
      BY <1>5, Constants
    <3> QED BY <1>7, <2>2, <3>1, <3>2
  <2>13. stream'.filled < SegmentTarget
    BY <2>2, Constants
  <2>14. StreamInv'
    BY <1>1, <1>2, <1>3, <1>7, <1>10, <2>2, <2>10, <2>11, <2>12, <2>13 DEF StreamInv
  <2> QED BY <1>1, <1>3, <1>10, <2>14 DEF StorageInv, NothingKept
<1>18. CASE n + take # SegmentTarget
  <2>1. stream' = more /\ pending' = pending
    BY <1>7, <1>18
  <2>2. /\ stream'.filled = n + take /\ stream'.slices = q /\ stream'.cursor = stream.cursor
        /\ stream'.start = stream.start /\ stream'.chunks = c
    BY <1>9, <2>1
  <2>3. EndToEnd(sizes', pending', StoredEnd', stream'.start, Full)
    BY <1>1, <1>3, <1>15, <2>1, <2>2
  <2>4. CutsUp(sizes', stream'.slices, stream'.start, stream'.filled)
    BY <1>1, <1>14, <2>2
  <2>5. stream'.start + stream'.filled = stream'.cursor + offset'
    BY <1>7, <1>19, <2>2
  <2>6. stream'.filled < SegmentTarget
    BY <1>5, <1>7, <1>18, <2>2, Constants
  <2>7. StreamInv'
    BY <1>1, <1>2, <1>3, <1>7, <1>10, <2>2, <2>3, <2>4, <2>5, <2>6 DEF StreamInv
  <2> QED BY <1>1, <1>3, <1>10, <2>7 DEF StorageInv, NothingKept
<1> QED BY <1>17, <1>18

(* The chunk is cut up. *)
LEMMA StorageFilled ==
    ASSUME BaseInv, StorageInv, Filled
    PROVE  StorageInv'
<1>1. /\ pc = "append" /\ pc' = "store" /\ offset = Head(ordered)
      /\ stream' = [stream EXCEPT !.cursor = @ + Head(ordered), !.chunks = @ + 1]
      /\ UNCHANGED <<mode, segments, sizes, pending, ordered, completed>>
  BY DEF Filled, outcome, frames
<1>2. StreamInv /\ SegmentsInv /\ InFlight
  BY <1>1 DEF StorageInv, InFlight, Stopped
<1>3. StoredEnd' = StoredEnd /\ SegmentsInv' /\ InFlight' /\ KeepsAudio' = KeepsAudio
  BY <1>1, <1>2 DEF StoredEnd, SegmentsInv, InFlight, KeepsAudio, Past
<1>4. stream \in StreamType /\ sizes \in Seq(Nat) /\ Head(ordered) \in Nat
  <2>1. ordered # <<>> /\ ordered \in Seq(ChunkSizes)
    BY <1>2 DEF BaseInv, TypeOK
  <2> QED BY <2>1, HeadType, SizesAreNat DEF BaseInv
<1> DEFINE c == stream.chunks
<1>5. stream.filled \in Nat /\ stream.cursor \in Nat /\ stream.start \in Nat /\ c \in Nat
  BY <1>4, StreamFields
<1>6. /\ stream'.filled = stream.filled /\ stream'.slices = stream.slices
      /\ stream'.cursor = stream.cursor + Head(ordered)
      /\ stream'.start = stream.start /\ stream'.chunks = c + 1
  <2> DEFINE a == stream.cursor + Head(ordered)
             b == stream.chunks + 1
  <2>1. stream' = Moved(stream, a, b)
    BY <1>1 DEF Moved
  <2>2. a \in Nat /\ b \in Nat
    <3>1. stream.cursor \in Nat /\ stream.chunks \in Nat
      BY <1>4, StreamFields
    <3> QED BY <1>4, <3>1
  <2>9. stream \in StreamType
    BY <1>4
  <2> HIDE DEF a, b
  <2>3. /\ stream'.filled = stream.filled /\ stream'.slices = stream.slices
        /\ stream'.start = stream.start /\ stream'.cursor = a /\ stream'.chunks = b
    <3>1. stream'.filled = stream.filled
      BY <2>9, <2>1, <2>2, MovedType
    <3>2. stream'.slices = stream.slices
      BY <2>9, <2>1, <2>2, MovedType
    <3>3. stream'.start = stream.start
      BY <2>9, <2>1, <2>2, MovedType
    <3>4. stream'.cursor = a
      BY <2>9, <2>1, <2>2, MovedType
    <3>5. stream'.chunks = b
      BY <2>9, <2>1, <2>2, MovedType
    <3> QED BY <3>1, <3>2, <3>3, <3>4, <3>5
  <2> QED BY <2>3 DEF a, b
<1>7. /\ stream.start + stream.filled = stream.cursor + Head(ordered)
      /\ Len(sizes) = c + 1 /\ sizes # <<>> /\ Head(ordered) = sizes[Len(sizes)] /\ KeepsAudio
      /\ stream.cursor = EndOf(sizes, c)
  BY <1>1, <1>2 DEF StreamInv
<1>8. EndOf(sizes, c + 1) = stream.cursor + Head(ordered)
  <2>1. c + 1 \in 1..Len(sizes) /\ (c + 1) - 1 = c
    <3> HIDE DEF c
    <3> QED BY <1>5, <1>7
  <2>2. EndOf(sizes, c + 1) = EndOf(sizes, (c + 1) - 1) + sizes[c + 1]
    BY <1>4, <2>1, EndOfNext
  <2> QED BY <1>7, <2>1, <2>2
<1>9. /\ stream'.cursor = EndOf(sizes', stream'.chunks)
      /\ stream'.start + stream'.filled = stream'.cursor + 0
      /\ Len(sizes') = stream'.chunks + 0
  <2>1. (stream.cursor + Head(ordered)) + 0 = stream.cursor + Head(ordered) /\ (c + 1) + 0 = c + 1
    BY <1>4, <1>5
  <2> QED BY <1>1, <1>6, <1>7, <1>8, <2>1
<1>10. StreamInv'
  BY <1>1, <1>2, <1>3, <1>6, <1>7, <1>9 DEF StreamInv
<1> QED BY <1>1, <1>3, <1>7, <1>10 DEF StorageInv, NothingKept

(* The next segment is written. *)
LEMMA OneMoreStored ==
    ASSUME BaseInv, StorageInv, pc = "store", pending # <<>>,
           segments' = Append(segments, Head(pending)), sizes' = sizes
    PROVE  /\ EndToEnd(sizes, segments', 0, StoredEnd', Full)
           /\ EndToEnd(sizes, Tail(pending), StoredEnd', stream.start, Full)
           /\ StoredEnd' \in Nat /\ StoredEnd <= StoredEnd' /\ KeepsAudio
<1>2. StreamInv /\ SegmentsInv /\ ~completed /\ KeepsAudio
  <2>1. StreamInv /\ SegmentsInv /\ InFlight /\ ~completed
    BY DEF StorageInv, InFlight, BaseInv, Stopped
  <2> QED BY <2>1 DEF StreamInv
<1> DEFINE seg == Head(pending)
<1>3. StoredEnd \in Nat /\ stream.start \in Nat
  BY StoredEndIs, StreamFields DEF BaseInv
<1>4. /\ IsSegment(sizes, seg, Full) /\ seg.start = StoredEnd
      /\ EndToEnd(sizes, Tail(pending), seg.end, stream.start, Full)
  <2>1. EndToEnd(sizes, pending, StoredEnd, stream.start, Full)
    BY <1>2 DEF StreamInv
  <2> QED BY <1>3, <2>1, FirstSegment
<1>5. EndToEnd(sizes, segments, 0, StoredEnd, Full)
  BY <1>2 DEF SegmentsInv, Past
<1>6. EndToEnd(sizes, segments', 0, seg.end, Full)
  BY <1>3, <1>4, <1>5, OneMoreSegment
<1>7. StoredEnd' = seg.end /\ seg.end \in Nat /\ StoredEnd <= seg.end
  <2>1. segments \in Seq(SegmentType) /\ seg \in SegmentType
    BY <1>4, <1>5 DEF IsSegment, EndToEnd
  <2>2. segments' # <<>> /\ segments'[Len(segments')] = seg
    BY <2>1
  <2>3. seg.start \in Nat /\ seg.end \in Nat /\ seg.start < seg.end
    BY <1>4, <2>1 DEF SegmentType, IsSegment
  <2> QED BY <1>4, <2>2, <2>3 DEF StoredEnd
<1> HIDE DEF seg
<1> QED BY <1>2, <1>4, <1>6, <1>7

\* It is, and the handler goes on.
LEMMA StorageStore ==
    ASSUME BaseInv, StorageInv, StoreSegment
    PROVE  StorageInv' /\ StoredEnd' \in Nat /\ StoredEnd <= StoredEnd'
<1>1. /\ pc = "store" /\ pc' = pc /\ pending # <<>>
      /\ segments' = Append(segments, Head(pending)) /\ pending' = Tail(pending)
      /\ UNCHANGED <<mode, stream, sizes, ordered, completed>>
  BY DEF StoreSegment, outcome, frames
<1>2. StreamInv /\ InFlight
  BY <1>1 DEF StorageInv, InFlight, Stopped
<1>3. /\ EndToEnd(sizes, segments', 0, StoredEnd', Full)
      /\ EndToEnd(sizes, pending', StoredEnd', stream.start, Full)
      /\ StoredEnd' \in Nat /\ StoredEnd <= StoredEnd' /\ KeepsAudio
  BY <1>1, OneMoreStored
<1>4. SegmentsInv'
  BY <1>1, <1>3 DEF SegmentsInv, Past
<1>5. EndToEnd(sizes', pending', StoredEnd', stream'.start, Full)
  BY <1>1, <1>3
<1>6. completed' = FALSE
  BY <1>1 DEF BaseInv, TypeOK
<1>7. StreamInv'
  BY <1>1, <1>2, <1>5, <1>6 DEF StreamInv, InFlight, KeepsAudio
<1>8. KeepsAudio'
  BY <1>1, <1>3 DEF KeepsAudio
<1> QED BY <1>3, <1>4, <1>7, <1>8 DEF StorageInv, NothingKept

\* Storing is left, with the segment written or not.
LEMMA StorageStoreBreaks ==
    ASSUME BaseInv, StorageInv, StoreBreaks, pc' \in Stopped
    PROVE  StorageInv' /\ StoredEnd' \in Nat /\ StoredEnd <= StoredEnd'
<1>1. UNCHANGED <<mode, stream, pending, sizes>>
  BY DEF StoreBreaks
<1>2. CASE segments' = segments
  <2>1. StorageInv'
    BY <1>1, <1>2, StorageStops
  <2>2. StoredEnd' = StoredEnd /\ StoredEnd \in Nat
    BY <1>2, StoredEndIs DEF StoredEnd
  <2> QED BY <2>1, <2>2
<1>3. CASE pc = "store" /\ pending # <<>> /\ segments' = Append(segments, Head(pending))
  <2>1. /\ EndToEnd(sizes, segments', 0, StoredEnd', Full)
        /\ StoredEnd' \in Nat /\ StoredEnd <= StoredEnd' /\ KeepsAudio
    BY <1>1, <1>3, OneMoreStored
  <2>2. EndToEnd(sizes, segments', 0, StoredEnd', 1..SegmentTarget)
    BY <2>1, LastMayBeFull
  <2>3. SegmentsInv' /\ KeepsAudio'
    BY <1>1, <2>1, <2>2 DEF SegmentsInv, Past, Stopped, KeepsAudio
  <2> QED BY <1>1, <2>1, <2>3 DEF StorageInv, NothingKept
<1> QED BY <1>2, <1>3 DEF StoreBreaks

(* Where no audio is kept, the accumulator is empty. *)
LEMMA NothingToEmpty ==
    ASSUME BaseInv, StorageInv, ~KeepsAudio
    PROVE  Emptied(stream) = NewStream /\ segments \o Trailing = <<>>
<1>1. stream = NewStream /\ segments = <<>>
  BY DEF StorageInv, NothingKept
<1>2. stream \in StreamType /\ NewStream \in StreamType
  BY NewStreamType DEF BaseInv
<1>3. /\ NewStream.filled = 0 /\ NewStream.slices = <<>>
      /\ NewStream.cursor = 0 /\ NewStream.start = 0 /\ NewStream.chunks = 0
  BY DEF NewStream
<1>4. Emptied(stream) \in StreamType
  BY <1>2, EmptiedType
<1>5. /\ Emptied(stream).filled = 0 /\ Emptied(stream).slices = <<>>
      /\ Emptied(stream).cursor = 0 /\ Emptied(stream).start = 0 /\ Emptied(stream).chunks = 0
  BY <1>1, <1>2, <1>3, EmptiedType
<1>6. Emptied(stream) = NewStream
  <2> HIDE DEF SliceType
  <2> QED BY <1>2, <1>3, <1>4, <1>5 DEF StreamType
<1>7. Trailing = <<>>
  BY <1>1, <1>3 DEF Trailing
<1>8. segments \o Trailing = <<>>
  BY <1>1, <1>7
<1> QED BY <1>6, <1>8

(* The trailing segment is written: the last segment may be short. *)
LEMMA TrailingStored ==
    ASSUME BaseInv, StorageInv, pc = "complete",
           segments' = segments \o Trailing, stream' = Emptied(stream)
    PROVE  /\ EndToEnd(sizes, segments', 0, StoredEnd', 1..SegmentTarget)
           /\ StoredEnd' = stream'.start /\ StoredEnd' \in Nat /\ StoredEnd <= StoredEnd'
           /\ stream'.filled = 0 /\ stream'.slices = <<>>
           /\ stream'.start = stream.cursor /\ stream'.cursor = stream.cursor
           /\ stream'.chunks = stream.chunks
<1>1. StreamInv /\ SegmentsInv /\ ~completed /\ pending = <<>>
  <2>1. StreamInv /\ SegmentsInv /\ ~completed /\ ~InFlight
    BY DEF StorageInv, InFlight, BaseInv, Stopped
  <2> QED BY <2>1 DEF StreamInv
<1>2. stream \in StreamType /\ StoredEnd \in Nat /\ segments \in Seq(SegmentType)
  BY StoredEndIs DEF BaseInv, TypeOK
<1>3. /\ stream.filled \in Nat /\ stream.slices \in Seq(SliceType) /\ stream.cursor \in Nat
      /\ stream.start \in Nat /\ stream.chunks \in Nat
  BY <1>2, StreamFields
<1>4. stream.start = StoredEnd
  <2>1. EndToEnd(sizes, pending, StoredEnd, stream.start, Full)
    BY <1>1 DEF StreamInv
  <2> QED BY <1>1, <2>1 DEF EndToEnd
<1>5. EndToEnd(sizes, segments, 0, StoredEnd, Full)
  BY <1>1 DEF SegmentsInv, Past
<1>6. /\ stream.start + stream.filled = stream.cursor /\ stream.filled < SegmentTarget
      /\ CutsUp(sizes, stream.slices, stream.start, stream.filled)
  <2>1. stream.start + stream.filled = stream.cursor + 0
    BY <1>1 DEF StreamInv
  <2> QED BY <1>1, <1>3, <2>1 DEF StreamInv
<1>7. /\ stream'.filled = 0 /\ stream'.slices = <<>> /\ stream'.cursor = stream.cursor
      /\ stream'.start = stream.start + stream.filled /\ stream'.chunks = stream.chunks
  BY <1>2, EmptiedType
<1>8. CASE stream.filled = 0
  <2>1. segments' = segments
    BY <1>2, <1>8, ConcatEmptySeq DEF Trailing
  <2>2. StoredEnd' = StoredEnd /\ stream'.start = StoredEnd
    BY <1>3, <1>4, <1>7, <1>8, <2>1 DEF StoredEnd
  <2>3. EndToEnd(sizes, segments, 0, StoredEnd, 1..SegmentTarget)
    BY <1>5, LastMayBeFull
  <2> QED BY <1>2, <1>6, <1>7, <2>1, <2>2, <2>3
<1>9. CASE stream.filled # 0
  <2> DEFINE seg == TakeSegment(stream)
  <2>1. /\ seg.start = stream.start /\ seg.end = stream.start + stream.filled
        /\ seg.slices = stream.slices
    BY DEF TakeSegment
  <2>2. seg \in SegmentType
    BY <1>3, SegmentTypeIs DEF TakeSegment
  <2>3. Trailing = <<seg>>
    BY <1>9 DEF Trailing
  <2> HIDE DEF seg
  <2>4. segments' = Append(segments, seg)
    BY <1>2, <2>2, <2>3, AppendIsConcat
  <2>5. seg.end - seg.start = stream.filled /\ seg.start < seg.end /\ seg.end \in Nat
    BY <1>3, <1>9, <2>1
  <2>6. stream.filled \in 1..SegmentTarget
    BY <1>3, <1>6, <1>9, Constants
  <2>7. IsSegment(sizes, seg, 1..SegmentTarget)
    BY <1>6, <2>1, <2>2, <2>5, <2>6 DEF IsSegment
  <2>8. EndToEnd(sizes, Append(segments, seg), 0, seg.end, 1..SegmentTarget)
    BY <1>2, <1>4, <1>5, <2>1, <2>7, OneMoreSegment
  <2>9. segments' # <<>> /\ segments'[Len(segments')] = seg
    BY <1>2, <2>2, <2>4
  <2>10. StoredEnd' = seg.end
    BY <2>9 DEF StoredEnd
  <2>11. StoredEnd <= seg.end
    BY <1>2, <1>4, <2>1, <2>5
  <2> QED BY <1>6, <1>7, <2>1, <2>4, <2>5, <2>8, <2>10, <2>11
<1> QED BY <1>8, <1>9

(* The session completes. *)
LEMMA StorageComplete ==
    ASSUME BaseInv, StorageInv, Complete
    PROVE  StorageInv' /\ StoredEnd' \in Nat /\ StoredEnd <= StoredEnd'
<1>1. /\ pc = "complete" /\ pc' = "answer" /\ completed' = TRUE
      /\ IF Enabled THEN segments' = segments \o Trailing /\ stream' = Emptied(stream)
                    ELSE segments' = segments /\ stream' = stream
      /\ UNCHANGED <<mode, sizes, pending, ordered>>
  BY DEF Complete, frames
<1>2. StreamInv /\ pending = <<>> /\ ~InFlight'
  <2>1. StreamInv /\ ~InFlight /\ ~InFlight'
    BY <1>1 DEF StorageInv, InFlight, Stopped
  <2> QED BY <2>1 DEF StreamInv
<1>3. /\ stream.cursor = EndOf(sizes, stream.chunks) /\ Len(sizes) = stream.chunks
      /\ stream.cursor \in Nat /\ stream.chunks \in Nat
  <2>1. stream.cursor \in Nat /\ stream.chunks \in Nat
    BY StreamFields DEF BaseInv
  <2>2. Len(sizes) = stream.chunks + 0
    BY <1>1, <1>2 DEF StreamInv
  <2> QED BY <1>2, <2>1, <2>2 DEF StreamInv
<1>4. /\ EndToEnd(sizes, segments', 0, StoredEnd', 1..SegmentTarget)
      /\ StoredEnd' = stream'.start /\ StoredEnd' \in Nat /\ StoredEnd <= StoredEnd'
      /\ stream'.filled = 0 /\ stream'.slices = <<>>
      /\ stream'.start = stream.cursor /\ stream'.cursor = stream.cursor
      /\ stream'.chunks = stream.chunks
  <2>1. CASE ~Enabled
    <3>1. stream = NewStream /\ segments = <<>>
      BY <2>1 DEF StorageInv, NothingKept, KeepsAudio, Enabled
    <3>2. segments' = <<>> /\ stream' = NewStream /\ StoredEnd' = 0
      BY <1>1, <2>1, <3>1 DEF StoredEnd
    <3>3. EndToEnd(sizes, segments', 0, StoredEnd', 1..SegmentTarget)
      BY <3>2, NothingCut
    <3>4. StoredEnd = 0 /\ stream.cursor = 0 /\ stream.chunks = 0
      BY <3>1 DEF StoredEnd, NewStream
    <3> QED BY <3>2, <3>3, <3>4 DEF NewStream
  <2>2. CASE Enabled
    BY <1>1, <2>2, TrailingStored
  <2> QED BY <2>1, <2>2
<1>5. SegmentsInv'
  BY <1>1, <1>4 DEF SegmentsInv, Past
<1>6. CutsUp(sizes', stream'.slices, stream'.start, stream'.filled)
  BY <1>4, NothingCut
<1>7. stream'.filled < SegmentTarget
  BY <1>4, Constants
<1>8. /\ stream'.start + stream'.filled = stream'.cursor + 0
      /\ Len(sizes') = stream'.chunks + 0
  BY <1>1, <1>3, <1>4
<1>9. StreamInv'
  BY <1>1, <1>2, <1>3, <1>4, <1>6, <1>7, <1>8 DEF StreamInv
<1>10. NothingKept'
  <2> SUFFICES ASSUME ~KeepsAudio
               PROVE  stream' = NewStream /\ sizes' = <<>> /\ segments' = <<>> /\ pending' = <<>>
    BY <1>1 DEF NothingKept, KeepsAudio
  <2>1. stream = NewStream /\ sizes = <<>> /\ segments = <<>> /\ pending = <<>>
    BY DEF StorageInv, NothingKept
  <2>2. Emptied(stream) = NewStream /\ segments \o Trailing = <<>>
    BY NothingToEmpty
  <2> QED BY <1>1, <2>1, <2>2
<1> QED BY <1>4, <1>5, <1>9, <1>10 DEF StorageInv

(* It is left on the way, with the trailing segment written or not. *)
LEMMA StorageCompleteBreaks ==
    ASSUME BaseInv, StorageInv, CompleteBreaks, pc' \in Stopped
    PROVE  StorageInv' /\ StoredEnd' \in Nat /\ StoredEnd <= StoredEnd'
<1>1. pc = "complete" /\ UNCHANGED <<mode, sizes, pending>>
  BY DEF CompleteBreaks
<1>2. \/ segments' = segments
      \/ segments' = segments \o Trailing /\ stream' = Emptied(stream)
  BY DEF CompleteBreaks
<1>3. /\ EndToEnd(sizes, segments', 0, StoredEnd', 1..SegmentTarget)
      /\ StoredEnd' \in Nat /\ StoredEnd <= StoredEnd'
  <2>1. CASE segments' = segments
    <3>1. StoredEnd' = StoredEnd /\ StoredEnd \in Nat
      BY <2>1, StoredEndIs DEF StoredEnd
    <3> QED BY <2>1, <3>1, SegmentsMayBeShort
  <2>2. CASE segments' = segments \o Trailing /\ stream' = Emptied(stream)
    BY <1>1, <2>2, TrailingStored
  <2> QED BY <1>2, <2>1, <2>2
<1>4. SegmentsInv'
  BY <1>1, <1>3 DEF SegmentsInv, Past, Stopped
<1>5. NothingKept'
  <2> SUFFICES ASSUME ~KeepsAudio
               PROVE  stream' = NewStream /\ sizes' = <<>> /\ segments' = <<>> /\ pending' = <<>>
    BY <1>1 DEF NothingKept, KeepsAudio
  <2>1. stream = NewStream /\ sizes = <<>> /\ segments = <<>> /\ pending = <<>>
    BY DEF StorageInv, NothingKept
  <2>2. Emptied(stream) = NewStream /\ segments \o Trailing = <<>>
    BY NothingToEmpty
  <2>3. stream' \in {stream, Emptied(stream)}
    BY DEF CompleteBreaks
  <2> QED BY <1>1, <1>2, <2>1, <2>2, <2>3
<1> QED BY <1>3, <1>4, <1>5 DEF StorageInv

\* Every step keeps the invariant.
LEMMA StorageNext == BaseInv /\ StorageInv /\ [Next]_vars => StorageInv'
<1> SUFFICES ASSUME BaseInv, StorageInv, [Next]_vars PROVE StorageInv'
  OBVIOUS
<1> USE DEF frames, updates, storage, outcome, clock
<1>q. ASSUME pc' \in Stopped \/ (pc \notin Past \cup {"append", "store"}
                               /\ pc' \notin Past \cup {"append", "store"}),
             UNCHANGED <<mode, stream, pending, segments, sizes, completed>>
      PROVE  StorageInv'
  <2>1. CASE pc' \in Stopped
    BY <1>q, <2>1, StorageStops
  <2>2. CASE pc' \notin Stopped
    <3>1. StreamInv /\ ~InFlight
      BY <1>q, <2>2 DEF StorageInv, Past, Stopped, InFlight
    <3>2. pending = <<>>
      BY <3>1 DEF StreamInv
    <3> QED BY <1>q, <2>2, <3>2, StorageQuiet
  <2> QED BY <2>1, <2>2
<1>n. ASSUME Early, stream' = stream, sizes' = sizes, segments' = segments, pending' = pending,
             completed' = completed, pc' \notin {"append", "store"}
      PROVE  StorageInv'
  <2>1. NoStream'
    BY <1>n DEF BaseInv, Early, NothingYet, NoStream
  <2> QED BY <2>1, StorageNoneNext
<1>s. ASSUME UNCHANGED <<pc, mode, ordered, offset, stream, pending, segments, sizes, completed>>
      PROVE  StorageInv'
  BY <1>s, StorageSame
<1>1. CASE Refuse
  BY <1>1, <1>n DEF Refuse, Early
<1>2. CASE Accept
  BY <1>2, <1>n DEF Accept, Early
<1>3. ASSUME NEW f \in Framings, NEW m \in Modes, Start(f, m) PROVE StorageInv'
  BY <1>3, <1>n DEF Start, Early
<1>4. CASE Open
  BY <1>4, <1>n DEF Open, Early, Listen, Fail
<1>5. CASE OpenFails \/ OpenCancelled
  BY <1>5, <1>n DEF OpenFails, OpenCancelled, NoHandle, Early, Fail, Leave
<1>6. ASSUME NEW n \in ChunkSizes, RawFrame(n) PROVE StorageInv'
  BY <1>6, <1>q DEF RawFrame, Past, Stopped
<1>7. ASSUME NEW n \in ChunkSizes, Frame(n) PROVE StorageInv'
  <2>1. pc = "receive" /\ pc' = "chunks" /\ UNCHANGED <<mode, storage, outcome>>
    BY <1>7 DEF Frame
  <2> QED BY <2>1, <1>q DEF Past, Stopped
<1>8. CASE SkipEmpty
  BY <1>8, <1>q DEF SkipEmpty, Past, Stopped
<1>9. CASE TooMuch
  BY <1>9, <1>q DEF TooMuch, Fail, Past, Stopped
<1>10. CASE TakeChunk
  <2>1. CASE KeepsAudio
    BY <1>10, <2>1, StorageTakeChunk
  <2>2. CASE ~KeepsAudio
    <3>1. /\ pc = "chunks" /\ pc' = pc
          /\ UNCHANGED <<mode, stream, pending, segments, sizes, completed>>
      BY <1>10, <2>2 DEF TakeChunk
    <3> QED BY <3>1, <1>q DEF Past, Stopped
  <2> QED BY <2>1, <2>2
<1>11. CASE Fill
  BY <1>11, StorageFill
<1>12. CASE Filled
  BY <1>12, StorageFilled
<1>13. CASE StoreSegment
  BY <1>13, StorageStore
<1>14. CASE StoreFails \/ StoreCancelled
  <2>1. StoreBreaks /\ pc' \in Stopped
    BY <1>14 DEF StoreFails, StoreCancelled, Fail, Leave, Stopped
  <2> QED BY <2>1, StorageStoreBreaks
<1>15. CASE Stored
  <2>1. /\ pc = "store" /\ pc' = "chunks" /\ pending = <<>>
        /\ UNCHANGED <<mode, stream, pending, segments, sizes, completed>>
    BY <1>15 DEF Stored
  <2> QED BY <2>1, StorageQuiet DEF Past
<1>16. CASE ChunksDone
  BY <1>16, <1>q DEF ChunksDone, Listen, Fail, Past, Stopped
<1>17. ASSUME NEW l \in Labels, NEW answer \in Heard, Update(l, answer) PROVE StorageInv'
  BY <1>17, <1>q DEF Update, Listen, Fail, Past, Stopped
<1>18. CASE AnalysisFails
  BY <1>18, <1>q DEF AnalysisFails, Fail, Past, Stopped
<1>19. ASSUME NEW answer \in Identified, Conclude(answer) PROVE StorageInv'
  BY <1>19, <1>q DEF Conclude, Past, Stopped
<1>20. CASE Complete
  BY <1>20, StorageComplete
<1>21. CASE CompleteFails \/ CompleteCancelled
  <2>1. CompleteBreaks /\ pc' \in Stopped /\ completed' = completed
    BY <1>21 DEF CompleteFails, CompleteCancelled, Fail, Leave, Stopped
  <2> QED BY <2>1, StorageCompleteBreaks
<1>22. CASE Answer
  BY <1>22, <1>q DEF Answer, Past, Stopped
<1>23. CASE TimesOut
  BY <1>23, <1>q DEF TimesOut, Fail, Past, Stopped
<1>24. CASE TellError
  BY <1>24, <1>q DEF TellError, Leave, Past, Stopped
<1>25. CASE Finally
  <2>1. /\ pc = "leaving" /\ pc' = "closed" /\ stream' = NewStream /\ pending' = <<>>
        /\ UNCHANGED <<mode, sizes, completed>>
        /\ segments' = <<>> \/ segments' = segments
    BY <1>25 DEF Finally, CleanUp, Erased
  <2>2. EndToEnd(sizes, segments, 0, StoredEnd, 1..SegmentTarget)
    BY SegmentsMayBeShort
  <2>3. SegmentsInv'
    <3>1. CASE segments' = <<>>
      <4>1. StoredEnd' = 0
        BY <3>1 DEF StoredEnd
      <4> QED BY <3>1, <4>1, NothingCut DEF SegmentsInv
    <3>2. CASE segments' = segments
      <4>1. StoredEnd' = StoredEnd
        BY <3>2 DEF StoredEnd
      <4> QED BY <2>1, <2>2, <3>2, <4>1 DEF SegmentsInv, Past
    <3> QED BY <2>1, <3>1, <3>2
  <2>4. NothingKept'
    BY <2>1 DEF StorageInv, NothingKept, KeepsAudio
  <2> QED BY <2>1, <2>3, <2>4 DEF StorageInv, Stopped
<1>26. CASE Ping
  BY <1>26, <1>q DEF Ping, Listen, Fail, Past, Stopped
<1>27. CASE BadMessage
  BY <1>27, <1>q DEF BadMessage, Fail, Past, Stopped
<1>28. CASE End
  <2>1. pc = "receive" /\ pc' \in {"failing", "conclude"} /\ UNCHANGED <<mode, storage, outcome>>
    BY <1>28 DEF End, Fail
  <2> QED BY <2>1, <1>q DEF Past, Stopped
<1>29. CASE Disconnect \/ Cancelled
  BY <1>29, <1>q DEF Disconnect, Cancelled, Leave, Past, Stopped
<1>30. CASE Tick
  BY <1>30, <1>s DEF Tick
<1>31. CASE UNCHANGED vars
  BY <1>31, <1>s DEF vars
<1> QED BY <1>1, <1>2, <1>3, <1>4, <1>5, <1>6, <1>7, <1>8, <1>9, <1>10, <1>11, <1>12, <1>13,
           <1>14, <1>15, <1>16, <1>17, <1>18, <1>19, <1>20, <1>21, <1>22, <1>23, <1>24, <1>25,
           <1>26, <1>27, <1>28, <1>29, <1>30, <1>31 DEF Next, Client, Handler

(* The types are as declared: no step of a session leaves one out of range.  The      *)
(* accumulator never holds more than a segment, the interval between updates stays    *)
(* between its bounds, the reorder buffer within its window, and a storage message    *)
(* never counts more chunks as stored than were received.                             *)
THEOREM StreamTypeCorrect == Spec => []TypeOK
<1>1. Spec => []BaseInv
  BY BaseInit, BaseNext, PTL DEF Spec
<1>2. BaseInv => TypeOK
  BY DEF BaseInv
<1> QED BY <1>1, <1>2, PTL

\* The two invariants together.
LEMMA StorageAlways == Spec => [](BaseInv /\ StorageInv)
<1>1. Init => StorageInv
  <2>1. Init => NoStream
    BY DEF Init, NoStream
  <2> QED BY <2>1, StorageNone
<1>2. BaseInv /\ StorageInv /\ [Next]_vars => BaseInv' /\ StorageInv'
  BY BaseNext, StorageNext
<1> QED BY <1>1, <1>2, BaseInit, PTL DEF Spec

(* The segments stored lie end to end from byte 0, and their slices say which bytes of *)
(* which chunk they hold.                                                              *)
LEMMA TilesFromStorage == BaseInv /\ StorageInv => SegmentsTile
<1> SUFFICES ASSUME BaseInv, StorageInv, NEW k \in DOMAIN segments
             PROVE  LET seg == segments[k]
                    IN  /\ seg.start = (IF k = 1 THEN 0 ELSE segments[k - 1].end)
                        /\ seg.end - seg.start <= SegmentTarget
                        /\ k < Len(segments) => seg.end - seg.start = SegmentTarget
                        /\ seg.slices # <<>>
                        /\ seg.slices[Len(seg.slices)].segTo = seg.end - seg.start
                        /\ \A j \in DOMAIN seg.slices :
                             LET sl == seg.slices[j]
                             IN  /\ sl.segFrom = (IF j = 1 THEN 0 ELSE seg.slices[j - 1].segTo)
                                 /\ sl.segFrom < sl.segTo
                                 /\ sl.from = seg.start + sl.segFrom /\ sl.to = seg.start + sl.segTo
                                 /\ sl.chunk + 1 \in DOMAIN sizes
                                 /\ ChunkStart(sl.chunk + 1) <= sl.from
                                 /\ sl.to <= ChunkEnd(sl.chunk + 1)
  BY DEF SegmentsTile
<1> DEFINE last == IF pc \in Past THEN 1..SegmentTarget ELSE Full
           seg == segments[k]
           n == seg.end - seg.start
           q == seg.slices
<1>1. EndToEnd(sizes, segments, 0, StoredEnd, last) /\ StoredEnd \in Nat
  BY StoredEndIs DEF StorageInv, SegmentsInv
<1> HIDE DEF last
<1>2. /\ IsSegment(sizes, seg, IF k = Len(segments) THEN last ELSE Full)
      /\ seg.start = (IF k = 1 THEN 0 ELSE segments[k - 1].end)
  BY <1>1 DEF EndToEnd
<1>3. CutsUp(sizes, q, seg.start, n) /\ seg.start < seg.end /\ seg.start \in Nat /\ seg.end \in Nat
  BY <1>2 DEF IsSegment, SegmentType
<1>4. n <= SegmentTarget /\ (k < Len(segments) => n = SegmentTarget)
  <2>1. last \subseteq 1..SegmentTarget /\ Full = {SegmentTarget} /\ SegmentTarget \in Nat
    BY Constants DEF last, Full
  <2>2. n \in IF k = Len(segments) THEN last ELSE Full
    BY <1>2 DEF IsSegment
  <2>3. k \in Nat /\ Len(segments) \in Nat
    BY <1>1, SegmentsLie
  <2> HIDE DEF n
  <2> QED BY <2>1, <2>2, <2>3
<1>5. q # <<>> /\ q[Len(q)].segTo = n
  <2>1. n # 0
    BY <1>3
  <2> HIDE DEF n, q
  <2> QED BY <1>3, <2>1 DEF CutsUp
<1>6. ASSUME NEW j \in DOMAIN q
      PROVE  /\ q[j].segFrom = (IF j = 1 THEN 0 ELSE q[j - 1].segTo)
             /\ q[j].segFrom < q[j].segTo
             /\ q[j].from = seg.start + q[j].segFrom /\ q[j].to = seg.start + q[j].segTo
             /\ q[j].chunk + 1 \in DOMAIN sizes
             /\ ChunkStart(q[j].chunk + 1) <= q[j].from /\ q[j].to <= ChunkEnd(q[j].chunk + 1)
  <2>1. q \in Seq(SliceType)
    BY <1>3 DEF CutsUp
  <2>2. /\ q[j].segFrom = (IF j = 1 THEN 0 ELSE q[j - 1].segTo)
        /\ LiesWithin(sizes, q[j], seg.start)
    BY <1>3 DEF CutsUp
  <2>3. q[j].chunk \in Nat
    <3>1. q[j] \in SliceType
      BY <2>1
    <3> QED BY <3>1 DEF SliceType
  <2>4. (q[j].chunk + 1) - 1 = q[j].chunk
    BY <2>3
  <2> HIDE DEF q
  <2> QED BY <2>2, <2>4 DEF LiesWithin, ChunkStart, ChunkEnd, EndOf
<1> HIDE DEF n
<1> QED BY <1>2, <1>4, <1>5, <1>6 DEF n

\* SegmentsTile: the stored segments tile the stored stream, for every choice of the chunk
\* and segment sizes and however chunks and segments cut each other.
THEOREM StoredSegmentsTile == Spec => []SegmentsTile
BY StorageAlways, TilesFromStorage, PTL

-------------------------------------------------------------------------------
(***************************************************************************)
(* What the verdict, the row and the flag say of each other.               *)
(***************************************************************************)
\* The inductive invariant behind VerdictMatchesRecord.
OutcomeInv ==
    /\ pc \in {"connecting", "starting"} => ~Enabled
    /\ completed /\ Enabled => record = "stored"
    /\ completed /\ KeepsAudio => StoredEnd = EndOf(sizes, Len(sizes))
    /\ verdict = "error" => ~completed /\ pc \in {"leaving", "closed"}
    /\ verdict = "final" => completed
    /\ ~Enabled => record \in {"none", "pending"} /\ segments = <<>>
    /\ pc # "closed" => cleanup = "none"
    /\ pc = "closed" /\ Enabled => (completed <=> cleanup = "none")
    /\ cleanup = "done" => record = "deleted" /\ segments = <<>>

\* When the session completes, its segments hold all that was streamed.
AllHeld == pc = "answer" => StoredEnd = EndOf(sizes, Len(sizes))

\* It is so, because nothing is left in the accumulator.
LEMMA CompletedHoldsAll == BaseInv /\ StorageInv => AllHeld
<1> SUFFICES ASSUME BaseInv, StorageInv, pc = "answer" PROVE StoredEnd = EndOf(sizes, Len(sizes))
  BY DEF AllHeld
<1>1. StreamInv /\ completed
  BY DEF StorageInv, BaseInv, Stopped
<1>2. stream.start \in Nat /\ stream.cursor \in Nat /\ stream.chunks \in Nat
  BY StreamFields DEF BaseInv
<1>3. StoredEnd = stream.start /\ stream.filled = 0
  BY <1>1 DEF StreamInv
<1>4. stream.start + stream.filled = stream.cursor + 0 /\ Len(sizes) = stream.chunks + 0
  BY <1>1 DEF StreamInv
<1>5. stream.start = stream.cursor /\ Len(sizes) = stream.chunks
  BY <1>2, <1>3, <1>4
<1> QED BY <1>1, <1>3, <1>5 DEF StreamInv

\* So they do after a step.
LEMMA CompletedHoldsAllNext == BaseInv' /\ StorageInv' => AllHeld'
BY CompletedHoldsAll, PTL

\* It holds at the start.
LEMMA OutcomeInit == Init => OutcomeInv
BY DEF Init, OutcomeInv, Enabled, KeepsAudio

\* Every step keeps it.
LEMMA OutcomeNext ==
    BaseInv /\ StorageInv /\ OutcomeInv /\ [Next]_vars /\ BaseInv' /\ StorageInv' => OutcomeInv'
<1> SUFFICES ASSUME BaseInv, StorageInv, OutcomeInv, [Next]_vars, BaseInv', StorageInv'
             PROVE  OutcomeInv'
  OBVIOUS
<1> USE DEF frames, updates, storage, outcome, clock
<1>q. ASSUME pc \notin {"leaving", "closed"}, pc' \notin {"connecting", "starting", "closed"},
             UNCHANGED <<mode, record, verdict, cleanup>>,
             \/ UNCHANGED <<completed, sizes, segments>>
             \/ ~completed /\ ~completed' /\ (segments' = segments \/ Enabled)
      PROVE  OutcomeInv'
  <2>1. Enabled' = Enabled /\ KeepsAudio' = KeepsAudio
    BY <1>q DEF Enabled, KeepsAudio
  <2>2. completed' /\ KeepsAudio' => StoredEnd' = EndOf(sizes', Len(sizes'))
    BY <1>q, <2>1 DEF OutcomeInv, StoredEnd
  <2> QED BY <1>q, <2>1, <2>2 DEF OutcomeInv
(* Nothing was answered yet, but at the end. *)
<1>c. pc \notin {"answer", "leaving", "closed"} => ~completed
  BY DEF BaseInv
<1>1. CASE Refuse
  BY <1>1, <1>c DEF Refuse, OutcomeInv, Enabled
<1>2. CASE Accept
  BY <1>2, <1>c DEF Accept, OutcomeInv, Enabled
<1>3. ASSUME NEW f \in Framings, NEW m \in Modes, Start(f, m) PROVE OutcomeInv'
  <2>1. pc = "starting" /\ pc' = "opening" /\ UNCHANGED outcome /\ UNCHANGED segments
    BY <1>3 DEF Start
  <2>2. record = "none" /\ segments = <<>> /\ ~completed
    BY <2>1 DEF BaseInv, Early, NothingYet
  <2> QED BY <2>1, <2>2 DEF OutcomeInv, Enabled
<1>4. CASE Open
  <2>1. /\ pc = "opening" /\ record' = (IF Enabled THEN "pending" ELSE "none")
        /\ pc' \in {"receive", "failing"}
        /\ UNCHANGED <<mode, segments, completed, verdict, cleanup>>
    BY <1>4 DEF Open, Listen, Fail
  <2>2. ~completed /\ segments = <<>>
    BY <2>1 DEF BaseInv, Early, NothingYet
  <2> QED BY <2>1, <2>2 DEF OutcomeInv, Enabled
<1>5. CASE OpenFails \/ OpenCancelled
  <2>1. /\ pc = "opening" /\ pc' \in {"failing", "leaving"} /\ mode' = "none"
        /\ record' \in {"none", "pending"} /\ UNCHANGED <<completed, verdict, cleanup, segments>>
    BY <1>5 DEF OpenFails, OpenCancelled, NoHandle, Fail, Leave
  <2>2. segments = <<>> /\ ~completed
    BY <2>1 DEF BaseInv, Early, NothingYet
  <2> QED BY <2>1, <2>2 DEF OutcomeInv, Enabled
<1>6. ASSUME NEW n \in ChunkSizes, RawFrame(n) PROVE OutcomeInv'
  BY <1>6, <1>q DEF RawFrame
<1>7. ASSUME NEW n \in ChunkSizes, Frame(n) PROVE OutcomeInv'
  <2>1. pc = "receive" /\ pc' = "chunks" /\ UNCHANGED <<mode, storage, outcome>>
    BY <1>7 DEF Frame
  <2> QED BY <2>1, <1>q
<1>8. CASE SkipEmpty
  BY <1>8, <1>q DEF SkipEmpty
<1>9. CASE TooMuch
  BY <1>9, <1>q DEF TooMuch, Fail
<1>10. CASE TakeChunk
  <2>1. pc = "chunks" /\ pc' \in {"append", "chunks"}
    BY <1>10 DEF TakeChunk
  <2>2. UNCHANGED <<mode, outcome, segments>>
    BY <1>10 DEF TakeChunk
  <2> QED BY <2>1, <2>2, <1>q, <1>c
<1>11. CASE Fill
  <2>1. pc = "append" /\ pc' = "append" /\ UNCHANGED <<mode, outcome, segments>>
    BY <1>11 DEF Fill
  <2> QED BY <2>1, <1>q, <1>c
<1>12. CASE Filled
  BY <1>12, <1>q DEF Filled
<1>13. CASE StoreSegment
  <2>1. pc = "store" /\ pc' = "store" /\ UNCHANGED <<mode, outcome>>
    BY <1>13 DEF StoreSegment
  <2>2. KeepsAudio
    BY <2>1 DEF StorageInv, StreamInv, InFlight, Stopped
  <2> QED BY <2>1, <2>2, <1>q, <1>c DEF Enabled, KeepsAudio
<1>14. CASE StoreFails \/ StoreCancelled
  <2>1. /\ pc \in {"append", "store"} /\ pc' \in {"failing", "leaving"}
        /\ UNCHANGED <<mode, outcome>>
    BY <1>14 DEF StoreFails, StoreCancelled, StoreBreaks, Fail, Leave
  <2>2. KeepsAudio
    BY <2>1 DEF StorageInv, StreamInv, InFlight, Stopped
  <2> QED BY <2>1, <2>2, <1>q, <1>c DEF Enabled, KeepsAudio
<1>15. CASE Stored
  <2>1. pc = "store" /\ pc' = "chunks" /\ UNCHANGED <<mode, outcome, segments>>
    BY <1>15 DEF Stored
  <2> QED BY <2>1, <1>q, <1>c
<1>16. CASE ChunksDone
  BY <1>16, <1>q DEF ChunksDone, Listen, Fail
<1>17. ASSUME NEW l \in Labels, NEW answer \in Heard, Update(l, answer) PROVE OutcomeInv'
  BY <1>17, <1>q DEF Update, Listen, Fail
<1>18. CASE AnalysisFails
  BY <1>18, <1>q DEF AnalysisFails, Fail
<1>19. ASSUME NEW answer \in Identified, Conclude(answer) PROVE OutcomeInv'
  BY <1>19, <1>q DEF Conclude
<1>20. CASE Complete
  <2>1. /\ pc = "complete" /\ pc' = "answer" /\ completed' = TRUE
        /\ UNCHANGED <<mode, verdict, cleanup>>
        /\ IF Enabled THEN record' = "stored" ELSE UNCHANGED <<segments, record>>
    BY <1>20 DEF Complete
  <2>2. StoredEnd' = EndOf(sizes', Len(sizes'))
    BY <2>1, CompletedHoldsAllNext DEF AllHeld
  <2>3. verdict # "error" /\ cleanup = "none"
    BY <2>1 DEF OutcomeInv
  <2> QED BY <2>1, <2>2, <2>3 DEF OutcomeInv, Enabled
<1>21. CASE CompleteFails \/ CompleteCancelled
  <2>1. /\ pc = "complete" /\ pc' \in {"failing", "leaving"} /\ Enabled
        /\ UNCHANGED <<mode, completed, verdict, cleanup>>
    BY <1>21 DEF CompleteFails, CompleteCancelled, CompleteBreaks, Fail, Leave
  <2>2. ~completed
    BY <2>1, <1>c
  <2> QED BY <2>1, <2>2 DEF OutcomeInv, Enabled
<1>22. CASE Answer
  <2>1. /\ pc = "answer" /\ pc' = "leaving" /\ verdict' \in {"final", "none"}
        /\ UNCHANGED <<mode, segments, sizes, record, completed, cleanup>>
    BY <1>22 DEF Answer
  <2>2. completed
    BY <2>1 DEF BaseInv
  <2> QED BY <2>1, <2>2 DEF OutcomeInv, Enabled, KeepsAudio, StoredEnd
<1>23. CASE TimesOut
  BY <1>23, <1>q DEF TimesOut, Fail
<1>24. CASE TellError
  <2>1. /\ pc = "failing" /\ pc' = "leaving" /\ verdict' \in {"error", "none"}
        /\ UNCHANGED <<mode, segments, record, completed, cleanup>>
    BY <1>24 DEF TellError, Leave
  <2>2. ~completed
    BY <2>1, <1>c
  <2> QED BY <2>1, <2>2 DEF OutcomeInv, Enabled
<1>25. CASE Finally
  <2>1. /\ pc = "leaving" /\ pc' = "closed" /\ UNCHANGED <<mode, sizes, completed, verdict>>
        /\ IF Enabled /\ ~completed THEN CleanUp ELSE UNCHANGED <<record, segments, cleanup>>
    BY <1>25 DEF Finally
  <2>2. cleanup = "none"
    BY <2>1 DEF OutcomeInv
  <2>3. CASE Enabled /\ ~completed
    BY <2>1, <2>2, <2>3 DEF OutcomeInv, Enabled, CleanUp, Erased
  <2>4. CASE ~(Enabled /\ ~completed)
    BY <2>1, <2>2, <2>4 DEF OutcomeInv, Enabled, KeepsAudio, StoredEnd
  <2> QED BY <2>3, <2>4
<1>26. CASE Ping
  BY <1>26, <1>q DEF Ping, Listen, Fail
<1>27. CASE BadMessage
  <2>1. pc \in {"starting", "receive"} /\ pc' = "failing" /\ UNCHANGED <<mode, outcome, segments>>
    BY <1>27 DEF BadMessage, Fail
  <2> QED BY <2>1, <1>q, <1>c
<1>28. CASE End
  <2>1. pc = "receive" /\ pc' \in {"failing", "conclude"} /\ UNCHANGED <<mode, storage, outcome>>
    BY <1>28 DEF End, Fail
  <2> QED BY <2>1, <1>q
<1>29. CASE Disconnect \/ Cancelled
  <2>1. /\ pc \notin {"leaving", "closed"} /\ pc' = "leaving"
        /\ UNCHANGED <<mode, outcome, segments, sizes>>
    BY <1>29 DEF Disconnect, Cancelled, Leave
  <2> QED BY <2>1, <1>q
<1>30. CASE Tick
  BY <1>30 DEF Tick, OutcomeInv, Enabled, KeepsAudio, StoredEnd
<1>31. CASE UNCHANGED vars
  BY <1>31 DEF vars, OutcomeInv, Enabled, KeepsAudio, StoredEnd
<1> QED BY <1>1, <1>2, <1>3, <1>4, <1>5, <1>6, <1>7, <1>8, <1>9, <1>10, <1>11, <1>12, <1>13,
           <1>14, <1>15, <1>16, <1>17, <1>18, <1>19, <1>20, <1>21, <1>22, <1>23, <1>24, <1>25,
           <1>26, <1>27, <1>28, <1>29, <1>30, <1>31 DEF Next, Client, Handler

(* VerdictMatchesRecord: what is left of a session agrees with what its client was     *)
(* told, for every choice of the constants.  A session that was answered is completed   *)
(* and holds every chunk that was released before `end`; one that was not has been      *)
(* cleaned up, or its deletion failed; and without a handle there is at most an empty   *)
(* row.                                                                                 *)
THEOREM VerdictIsKept == Spec => []VerdictMatchesRecord
<1>1. BaseInv /\ OutcomeInv => VerdictMatchesRecord
  <2> SUFFICES ASSUME BaseInv, OutcomeInv PROVE VerdictMatchesRecord
    OBVIOUS
  <2>1. EndOf(sizes, Len(sizes)) = Total(sizes)
    <3>1. sizes \in Seq(Nat)
      BY SizesAreNat
    <3>2. SubSeq(sizes, 1, Len(sizes)) = sizes
      BY <3>1
    <3> QED BY <3>2 DEF EndOf
  <2>2. verdict \in {"none", "final", "error"}
    BY DEF BaseInv, TypeOK
  <2> QED BY <2>1, <2>2 DEF OutcomeInv, VerdictMatchesRecord
<1>2. Spec => []OutcomeInv
  BY StorageAlways, OutcomeInit, OutcomeNext, PTL DEF Spec
<1> QED BY <1>1, <1>2, StorageAlways, PTL

-------------------------------------------------------------------------------
(***************************************************************************)
(* The progressive updates.                                                *)
(***************************************************************************)
\* The receive loop is not left.
Busy == pc \notin {"conclude", "complete", "answer", "failing", "leaving", "closed"}

\* The inductive invariant behind UpdatesKeepPace: an update is due when the handler goes to
\* analyse and not due when it goes to listen, and while it has a language the language
\* model was asked within the refresh interval before the last update, or at it.
PaceInv ==
    /\ pc # "closed" => lastEmitted <= buffered
    /\ Busy /\ language # "none" =>
         /\ lastEmitted > 0 /\ lastEmitted >= MinAudio
         /\ lastEmitted - checkedAt < LanguageRefresh \/ lastEmitted = checkedAt
    /\ pc = "analyze" => Due
    /\ pc = "receive" => ~Due
    /\ ~completed => sequence * EmitInterval <= lastEmitted

\* It holds at the start.
LEMMA PaceInit == Init => PaceInv
<1> SUFFICES ASSUME Init PROVE PaceInv
  OBVIOUS
<1>1. sequence * EmitInterval = 0
  BY Constants DEF Init
<1> QED BY <1>1 DEF Init, PaceInv, Busy

(* What an update does. *)
LEMMA PaceUpdate ==
    ASSUME BaseInv, PaceInv, NEW l \in Labels, NEW answer \in Heard, Update(l, answer)
    PROVE  PaceInv'
<1>1. /\ pc = "analyze" /\ pc' \in {"receive", "failing"} /\ language' = Carried(answer)
      /\ checkedAt' = (IF Recheck THEN buffered ELSE checkedAt)
      /\ sequence' = sequence + 1 /\ lastEmitted' = buffered
      /\ UNCHANGED <<buffered, completed>>
  BY DEF Update, Listen, Fail, outcome
<1>2. interval' \in EmitInterval..MaxEmitInterval
  BY BackoffType DEF Update, BaseInv, TypeOK
<1>3. /\ buffered \in Nat /\ lastEmitted \in Nat /\ sequence \in Nat /\ checkedAt \in Nat
      /\ interval \in Nat /\ EmitInterval <= interval /\ EmitInterval \in Nat /\ EmitInterval > 0
      /\ MinAudio \in Nat /\ LanguageRefresh \in Nat
  BY Constants DEF BaseInv, TypeOK
<1>4. buffered > 0 /\ buffered >= MinAudio /\ buffered - lastEmitted >= interval
  BY <1>1 DEF PaceInv, Due
<1>5. ~completed /\ sequence * EmitInterval <= lastEmitted
  BY <1>1 DEF PaceInv, BaseInv
<1>6. sequence' * EmitInterval <= lastEmitted'
  <2>1. (sequence + 1) * EmitInterval = sequence * EmitInterval + EmitInterval
    BY <1>3
  <2> DEFINE p == sequence * EmitInterval
  <2>2. p \in Nat
    BY <1>3
  <2>3. p + EmitInterval <= buffered
    <3> HIDE DEF p
    <3>1. p <= lastEmitted
      BY <1>5 DEF p
    <3> QED BY <1>3, <1>4, <2>2, <3>1
  <2> QED BY <1>1, <2>1, <2>3
<1>7. lastEmitted' - checkedAt' < LanguageRefresh \/ lastEmitted' = checkedAt'
  <2>1. CASE Recheck
    BY <1>1, <2>1
  <2>2. CASE ~Recheck
    BY <1>1, <1>3, <2>2 DEF Recheck
  <2> QED BY <2>1, <2>2
<1>8. ~Due'
  <2>1. buffered' - lastEmitted' = 0 /\ interval' \in Nat /\ interval' > 0
    BY <1>1, <1>2, <1>3, Constants
  <2> QED BY <2>1 DEF Due
<1> QED BY <1>1, <1>3, <1>4, <1>6, <1>7, <1>8 DEF PaceInv

\* Every step keeps it.
LEMMA PaceNext == BaseInv /\ PaceInv /\ [Next]_vars => PaceInv'
<1> SUFFICES ASSUME BaseInv, PaceInv, [Next]_vars PROVE PaceInv'
  OBVIOUS
<1> USE DEF frames, updates, storage, outcome, clock
<1>t. /\ buffered \in Nat /\ lastEmitted \in Nat /\ sequence \in Nat /\ checkedAt \in Nat
      /\ EmitInterval \in Nat
  BY Constants DEF BaseInv, TypeOK
<1>q. ASSUME pc # "closed", buffered' \in Nat, buffered <= buffered',
             pc' \notin {"analyze", "receive"}, Busy' => Busy \/ language' = "none",
             UNCHANGED <<lastEmitted, language, checkedAt, sequence, completed>>
      PROVE  PaceInv'
  <2>1. lastEmitted' <= buffered'
    BY <1>q, <1>t DEF PaceInv
  <2> QED BY <1>q, <2>1 DEF PaceInv
<1>1. CASE Refuse
  BY <1>1, <1>q, <1>t DEF Refuse, Busy
<1>2. CASE Accept
  BY <1>2, <1>q, <1>t DEF Accept, Busy
<1>3. ASSUME NEW f \in Framings, NEW m \in Modes, Start(f, m) PROVE PaceInv'
  BY <1>3, <1>q, <1>t DEF Start, Busy
<1>4. CASE Open
  <2>1. pc = "opening" /\ pc' \in {"receive", "failing"} /\ UNCHANGED <<updates, completed>>
    BY <1>4 DEF Open, Listen, Fail
  <2>2. buffered = 0 /\ lastEmitted = 0 /\ language = "none"
    BY <2>1 DEF BaseInv, Early, NothingYet
  <2> QED BY <2>1, <2>2 DEF PaceInv, Due
<1>5. CASE OpenFails \/ OpenCancelled
  BY <1>5, <1>q, <1>t DEF OpenFails, OpenCancelled, NoHandle, Fail, Leave, Busy
<1>6. ASSUME NEW n \in ChunkSizes, RawFrame(n) PROVE PaceInv'
  BY <1>6, <1>q, <1>t DEF RawFrame, Busy
<1>7. ASSUME NEW n \in ChunkSizes, Frame(n) PROVE PaceInv'
  <2>1. pc = "receive" /\ pc' = "chunks" /\ UNCHANGED <<updates, outcome>>
    BY <1>7 DEF Frame
  <2> QED BY <2>1, <1>q, <1>t DEF Busy
<1>8. CASE SkipEmpty
  BY <1>8, <1>q, <1>t DEF SkipEmpty, Busy
<1>9. CASE TooMuch
  BY <1>9, <1>q, <1>t DEF TooMuch, Fail, Busy
<1>10. CASE TakeChunk
  <2>1. /\ pc = "chunks" /\ pc' \in {"append", "chunks"}
        /\ buffered' \in {buffered, buffered + Head(ordered)}
        /\ ordered # <<>> /\ ordered \in Seq(ChunkSizes)
    BY <1>10 DEF TakeChunk, BaseInv, TypeOK
  <2>2. UNCHANGED <<lastEmitted, language, checkedAt, sequence, completed>>
    BY <1>10 DEF TakeChunk
  <2>3. Head(ordered) \in Nat
    BY <2>1, HeadType
  <2>4. buffered' \in Nat /\ buffered <= buffered'
    BY <1>t, <2>1, <2>3
  <2> QED BY <2>1, <2>2, <2>4, <1>q DEF Busy
<1>11. CASE Fill
  <2>1. pc = "append" /\ pc' = "append" /\ UNCHANGED <<updates, outcome>>
    BY <1>11 DEF Fill
  <2> QED BY <2>1, <1>q, <1>t DEF Busy
<1>12. CASE Filled
  BY <1>12, <1>q, <1>t DEF Filled, Busy
<1>13. CASE StoreSegment
  BY <1>13, <1>q, <1>t DEF StoreSegment, Busy
<1>14. CASE StoreFails \/ StoreCancelled
  <2>1. pc # "closed" /\ pc' \in {"failing", "leaving"} /\ UNCHANGED <<updates, outcome>>
    BY <1>14 DEF StoreFails, StoreCancelled, StoreBreaks, Fail, Leave
  <2> QED BY <2>1, <1>q, <1>t DEF Busy
<1>15. CASE Stored
  <2>1. /\ pc = "store" /\ pc' = "chunks" /\ buffered' = buffered + Head(ordered)
        /\ ordered # <<>> /\ ordered \in Seq(ChunkSizes)
    BY <1>15 DEF Stored, BaseInv, TypeOK, InFlight
  <2>2. UNCHANGED <<lastEmitted, language, checkedAt, sequence, completed>>
    BY <1>15 DEF Stored
  <2>3. Head(ordered) \in Nat
    BY <2>1, HeadType
  <2>4. buffered' \in Nat /\ buffered <= buffered'
    BY <1>t, <2>1, <2>3
  <2> QED BY <2>1, <2>2, <2>4, <1>q DEF Busy
<1>16. CASE ChunksDone
  <2>1. /\ pc = "chunks" /\ UNCHANGED <<updates, outcome>>
        /\ IF Due THEN pc' = "analyze" ELSE pc' \in {"receive", "failing"}
    BY <1>16 DEF ChunksDone, Listen, Fail
  <2>2. Due' = Due
    BY <2>1 DEF Due
  <2> QED BY <2>1, <2>2 DEF PaceInv, Busy
<1>17. ASSUME NEW l \in Labels, NEW answer \in Heard, Update(l, answer) PROVE PaceInv'
  BY <1>17, PaceUpdate
<1>18. CASE AnalysisFails
  BY <1>18, <1>q, <1>t DEF AnalysisFails, Fail, Busy
<1>19. ASSUME NEW answer \in Identified, Conclude(answer) PROVE PaceInv'
  BY <1>19 DEF Conclude, PaceInv, Busy
<1>20. CASE Complete
  <2>1. /\ pc = "complete" /\ pc' = "answer" /\ completed' = TRUE
        /\ UNCHANGED <<buffered, lastEmitted>>
    BY <1>20 DEF Complete
  <2> QED BY <2>1 DEF PaceInv, Busy
<1>21. CASE CompleteFails \/ CompleteCancelled
  <2>1. /\ pc # "closed" /\ pc' \in {"failing", "leaving"} /\ UNCHANGED <<updates, completed>>
    BY <1>21 DEF CompleteFails, CompleteCancelled, CompleteBreaks, Fail, Leave
  <2> QED BY <2>1, <1>q, <1>t DEF Busy
<1>22. CASE Answer
  BY <1>22, <1>q, <1>t DEF Answer, Busy
<1>23. CASE TimesOut
  BY <1>23, <1>q, <1>t DEF TimesOut, Fail, Busy
<1>24. CASE TellError
  BY <1>24, <1>q, <1>t DEF TellError, Leave, Busy
<1>25. CASE Finally
  <2>1. pc' = "closed" /\ sequence' = 0 /\ lastEmitted' = 0 /\ language' = "none"
    BY <1>25 DEF Finally
  <2>2. sequence' * EmitInterval = 0
    BY <1>t, <2>1
  <2> QED BY <2>1, <2>2 DEF PaceInv
<1>26. CASE Ping
  <2>1. pc = "receive" /\ pc' \in {"receive", "failing"} /\ UNCHANGED <<updates, outcome>>
    BY <1>26 DEF Ping, Listen, Fail
  <2>2. Due' = Due
    BY <2>1 DEF Due
  <2> QED BY <2>1, <2>2 DEF PaceInv, Busy
<1>27. CASE BadMessage
  BY <1>27, <1>q, <1>t DEF BadMessage, Fail, Busy
<1>28. CASE End
  <2>1. PICK rest \in Flushed : buffered' = buffered + rest
    BY <1>28 DEF End
  <2>2. rest \in Nat
    <3>1. Total(waiting) \in Nat
      BY TotalOfChunks DEF BaseInv, TypeOK
    <3>2. \A c \in ChunkSizes \cup {0} : Total(waiting) + c \in Nat
      BY <3>1, Constants
    <3> QED BY <2>1, <3>2 DEF Flushed
  <2>3. /\ pc = "receive" /\ pc' \in {"failing", "conclude"}
        /\ UNCHANGED <<lastEmitted, language, checkedAt, sequence, completed>>
    BY <1>28 DEF End, Fail
  <2>4. buffered' \in Nat /\ buffered <= buffered'
    BY <1>t, <2>1, <2>2
  <2> QED BY <2>3, <2>4, <1>q DEF Busy
<1>29. CASE Disconnect \/ Cancelled
  <2>1. pc # "closed" /\ pc' = "leaving" /\ UNCHANGED <<updates, outcome>>
    BY <1>29 DEF Disconnect, Cancelled, Leave
  <2> QED BY <2>1, <1>q, <1>t DEF Busy
<1>30. CASE Tick
  <2>1. UNCHANGED <<pc, updates, outcome>>
    BY <1>30 DEF Tick
  <2> QED BY <2>1 DEF PaceInv, Busy, Due
<1>31. CASE UNCHANGED vars
  BY <1>31 DEF vars, PaceInv, Busy, Due
<1> QED BY <1>1, <1>2, <1>3, <1>4, <1>5, <1>6, <1>7, <1>8, <1>9, <1>10, <1>11, <1>12, <1>13,
           <1>14, <1>15, <1>16, <1>17, <1>18, <1>19, <1>20, <1>21, <1>22, <1>23, <1>24, <1>25,
           <1>26, <1>27, <1>28, <1>29, <1>30, <1>31 DEF Next, Client, Handler

(* UpdatesKeepPace: whenever the handler listens, the last update is less than the     *)
(* largest interval old, there were never more updates than one per interval, and while *)
(* a language is reported the language model was asked less than the refresh and one    *)
(* interval together ago; for every choice of the intervals and of the back-off.        *)
THEOREM PaceIsKept == Spec => []UpdatesKeepPace
<1>1. BaseInv /\ PaceInv => UpdatesKeepPace
  <2> SUFFICES ASSUME BaseInv, PaceInv PROVE UpdatesKeepPace
    OBVIOUS
  <2>1. /\ buffered \in Nat /\ lastEmitted \in Nat /\ checkedAt \in Nat
        /\ interval \in EmitInterval..MaxEmitInterval
        /\ EmitInterval \in Nat /\ MaxEmitInterval \in Nat
        /\ LanguageRefresh \in Nat /\ MinAudio \in Nat
    BY Constants DEF BaseInv, TypeOK
  <2>2. ASSUME pc = "receive", buffered > 0, buffered >= MinAudio
        PROVE  buffered - lastEmitted < MaxEmitInterval
    BY <2>1, <2>2 DEF PaceInv, Due
  <2>3. ASSUME pc = "receive", language # "none"
        PROVE  buffered - checkedAt < LanguageRefresh + MaxEmitInterval
    <3>1. /\ lastEmitted > 0 /\ lastEmitted >= MinAudio /\ lastEmitted <= buffered
          /\ lastEmitted - checkedAt < LanguageRefresh \/ lastEmitted = checkedAt
      BY <2>3 DEF PaceInv, Busy
    <3>2. buffered - lastEmitted < MaxEmitInterval
      BY <2>1, <2>2, <2>3, <3>1
    <3> QED BY <2>1, <3>1, <3>2
  <2> QED BY <2>2, <2>3 DEF UpdatesKeepPace, PaceInv
<1>2. Spec => []PaceInv
  BY StorageAlways, PaceInit, PaceNext, PTL DEF Spec
<1> QED BY <1>1, <1>2, StorageAlways, PTL

-------------------------------------------------------------------------------
(***************************************************************************)
(* What a raw session may buffer, and what it has stored of it.            *)
(***************************************************************************)
\* Within both bounds.
Bounded(n) == n <= MaxUpload /\ n <= MaxAudio

\* The inductive invariant behind RecordHoldsTheAudio: the buffer is what was stored, but
\* for the chunk between the two.
RawInv ==
    framing = "raw" =>
        /\ waiting = <<>>
        /\ Bounded(buffered)
        /\ InFlight => Bounded(buffered + Head(ordered))
        /\ KeepsAudio /\ pc \notin {"failing", "leaving", "closed"} =>
             EndOf(sizes, Len(sizes)) = buffered + (IF InFlight THEN Head(ordered) ELSE 0)

(* Where nothing was streamed yet, or nothing is left. *)
Blank == waiting = <<>> /\ buffered = 0 /\ ~InFlight /\ (sizes = <<>> \/ pc = "closed")

\* It holds where nothing was streamed.
LEMMA RawBlank == Blank => RawInv
<1> SUFFICES ASSUME Blank PROVE RawInv
  OBVIOUS
<1>1. Bounded(buffered)
  BY Constants DEF Bounded, Blank
<1>2. sizes = <<>> => EndOf(sizes, Len(sizes)) = 0
  <2>1. sizes = <<>> => Len(sizes) = 0
    OBVIOUS
  <2> QED BY <2>1, EndOfZero
<1> QED BY <1>1, <1>2 DEF RawInv, Blank

\* So it does after a step.
LEMMA RawBlankNext == Blank' => RawInv'
BY RawBlank, PTL

\* Every step keeps it.
LEMMA RawNext == BaseInv /\ StorageInv /\ RawInv /\ [Next]_vars => RawInv'
<1> SUFFICES ASSUME BaseInv, StorageInv, RawInv, [Next]_vars PROVE RawInv'
  OBVIOUS
<1> USE DEF frames, updates, storage, outcome, clock
<1>t. /\ buffered \in Nat /\ sizes \in Seq(Nat) /\ ordered \in Seq(ChunkSizes)
      /\ MaxUpload \in Nat /\ MaxAudio \in Nat
  <2>1. sizes \in Seq(ChunkSizes \ {0})
    BY DEF BaseInv, TypeOK
  <2> QED BY <2>1, Constants, SizesAreNat DEF BaseInv, TypeOK
<1>q. ASSUME ~InFlight, ~InFlight', waiting' = waiting \/ waiting' = <<>>,
             pc' \in {"failing", "leaving", "closed"} \/ pc \notin {"failing", "leaving", "closed"},
             UNCHANGED <<framing, mode, buffered, sizes>>
      PROVE  RawInv'
  BY <1>q DEF RawInv, KeepsAudio
<1>n. ASSUME Early, ~InFlight', waiting' = waiting, buffered' = buffered, sizes' = sizes
      PROVE  RawInv'
  <2>1. waiting = <<>> /\ buffered = 0 /\ sizes = <<>>
    BY <1>n DEF BaseInv, NothingYet
  <2> QED BY <1>n, <2>1, RawBlankNext DEF Blank
(* The steps on a chunk's way into the store. *)
<1>i. ASSUME InFlight, InFlight' \/ pc' \in {"failing", "leaving"},
             UNCHANGED <<framing, mode, waiting, ordered, buffered, sizes>>
      PROVE  RawInv'
  BY <1>i DEF RawInv, KeepsAudio, InFlight
<1>1. CASE Refuse
  BY <1>1, <1>n DEF Refuse, Early, InFlight
<1>2. CASE Accept
  BY <1>2, <1>n DEF Accept, Early, InFlight
<1>3. ASSUME NEW f \in Framings, NEW m \in Modes, Start(f, m) PROVE RawInv'
  BY <1>3, <1>n DEF Start, Early, InFlight
<1>4. CASE Open
  <2>1. pc = "opening" /\ pc' \in {"receive", "failing"} /\ UNCHANGED <<waiting, buffered, sizes>>
    BY <1>4 DEF Open, Listen, Fail
  <2> QED BY <2>1, <1>n DEF Early, InFlight
<1>5. CASE OpenFails \/ OpenCancelled
  BY <1>5, <1>n DEF OpenFails, OpenCancelled, NoHandle, Early, InFlight, Fail, Leave
<1>6. ASSUME NEW n \in ChunkSizes, RawFrame(n) PROVE RawInv'
  BY <1>6, <1>q DEF RawFrame, InFlight
<1>7. ASSUME NEW n \in ChunkSizes, Frame(n) PROVE RawInv'
  <2>1. framing = "seq32" /\ framing' = framing
    BY <1>7 DEF Frame
  <2> QED BY <2>1 DEF RawInv
<1>8. CASE SkipEmpty
  BY <1>8, <1>q DEF SkipEmpty, InFlight
<1>9. CASE TooMuch
  BY <1>9, <1>q DEF TooMuch, Fail, InFlight
<1>10. CASE TakeChunk
  <2>1. /\ pc = "chunks" /\ ordered # <<>> /\ Head(ordered) \in Nat
        /\ ~Exceeds(MaxUpload) /\ ~Exceeds(MaxAudio)
        /\ UNCHANGED <<framing, mode, waiting>>
    BY <1>10, <1>t, HeadType DEF TakeChunk
  <2> DEFINE n == Head(ordered)
  <2>2. Bounded(buffered + n)
    BY <1>t, <2>1 DEF Exceeds, Bounded
  <2>3. CASE ~KeepsAudio
    <3>1. buffered' = buffered + n /\ pc' = "chunks"
      BY <1>10, <2>1, <2>3 DEF TakeChunk
    <3> QED BY <2>1, <2>2, <2>3, <3>1 DEF RawInv, KeepsAudio, InFlight
  <2>4. CASE KeepsAudio
    <3>1. /\ pc' = "append" /\ sizes' = Append(sizes, n) /\ ordered' = ordered
          /\ buffered' = buffered
      BY <1>10, <2>4 DEF TakeChunk
    <3> SUFFICES ASSUME framing' = "raw" PROVE RawInv'
      BY DEF RawInv
    <3>2. waiting = <<>> /\ Bounded(buffered) /\ EndOf(sizes, Len(sizes)) = buffered
      BY <1>t, <2>1, <2>4 DEF RawInv, InFlight
    <3>3. /\ Len(sizes') = Len(sizes) + 1
          /\ EndOf(sizes', Len(sizes) + 1) = EndOf(sizes, Len(sizes)) + n
      <4>1. Len(Append(sizes, n)) = Len(sizes) + 1
        BY <1>t, <2>1
      <4>2. EndOf(Append(sizes, n), Len(sizes) + 1) = EndOf(sizes, Len(sizes)) + n
        BY <1>t, <2>1, EndOfAppend
      <4> QED BY <3>1, <4>1, <4>2
    <3>4. EndOf(sizes', Len(sizes')) = buffered' + Head(ordered')
      BY <3>1, <3>2, <3>3
    <3> QED BY <2>1, <2>2, <3>1, <3>2, <3>4 DEF RawInv, InFlight
  <2> QED BY <2>3, <2>4
<1>11. CASE Fill
  <2>1. pc = "append" /\ pc' = pc /\ UNCHANGED <<framing, mode, frames, updates, sizes>>
    BY <1>11 DEF Fill
  <2> QED BY <2>1, <1>i DEF InFlight
<1>12. CASE Filled
  BY <1>12, <1>i DEF Filled, InFlight
<1>13. CASE StoreSegment
  BY <1>13, <1>i DEF StoreSegment, InFlight
<1>14. CASE StoreFails \/ StoreCancelled
  <2>1. /\ pc \in {"append", "store"} /\ pc' \in {"failing", "leaving"}
        /\ UNCHANGED <<framing, mode, frames, updates, sizes>>
    BY <1>14 DEF StoreFails, StoreCancelled, StoreBreaks, Fail, Leave
  <2> QED BY <2>1, <1>i DEF InFlight
<1>15. CASE Stored
  <2>1. /\ pc = "store" /\ pc' = "chunks" /\ buffered' = buffered + Head(ordered)
        /\ UNCHANGED <<framing, mode, waiting, sizes>>
    BY <1>15 DEF Stored
  <2>2. InFlight /\ ~InFlight' /\ buffered' + 0 = buffered'
    <3>1. ordered # <<>>
      BY <2>1 DEF BaseInv, InFlight
    <3> QED BY <1>t, <2>1, <3>1, HeadType DEF InFlight
  <2> QED BY <2>1, <2>2 DEF RawInv, KeepsAudio
<1>16. CASE ChunksDone
  BY <1>16, <1>q DEF ChunksDone, Listen, Fail, InFlight
<1>17. ASSUME NEW l \in Labels, NEW answer \in Heard, Update(l, answer) PROVE RawInv'
  BY <1>17, <1>q DEF Update, Listen, Fail, InFlight
<1>18. CASE AnalysisFails
  BY <1>18, <1>q DEF AnalysisFails, Fail, InFlight
<1>19. ASSUME NEW answer \in Identified, Conclude(answer) PROVE RawInv'
  BY <1>19, <1>q DEF Conclude, InFlight
<1>20. CASE Complete
  <2>1. /\ pc = "complete" /\ pc' = "answer"
        /\ UNCHANGED <<framing, mode, frames, buffered, sizes>>
    BY <1>20 DEF Complete
  <2> QED BY <2>1, <1>q DEF InFlight
<1>21. CASE CompleteFails \/ CompleteCancelled
  <2>1. /\ pc = "complete" /\ pc' \in {"failing", "leaving"}
        /\ UNCHANGED <<framing, mode, frames, updates, sizes>>
    BY <1>21 DEF CompleteFails, CompleteCancelled, CompleteBreaks, Fail, Leave
  <2> QED BY <2>1, <1>q DEF InFlight
<1>22. CASE Answer
  BY <1>22, <1>q DEF Answer, InFlight
<1>23. CASE TimesOut
  BY <1>23, <1>q DEF TimesOut, Fail, InFlight
<1>24. CASE TellError
  BY <1>24, <1>q DEF TellError, Leave, InFlight
<1>25. CASE Finally
  <2>1. pc' = "closed" /\ waiting' = <<>> /\ buffered' = 0
    BY <1>25 DEF Finally
  <2> QED BY <2>1, RawBlankNext DEF InFlight, Blank
<1>26. CASE Ping
  BY <1>26, <1>q DEF Ping, Listen, Fail, InFlight
<1>27. CASE BadMessage
  <2>1. /\ pc \in {"starting", "receive"} /\ pc' = "failing"
        /\ UNCHANGED <<framing, mode, frames, updates, storage>>
    BY <1>27 DEF BadMessage, Fail
  <2> QED BY <2>1, <1>q DEF InFlight
<1>28. CASE End
  <2>1. /\ pc = "receive" /\ pc' \in {"failing", "conclude"} /\ waiting' = <<>>
        /\ UNCHANGED <<framing, mode, sizes>>
    BY <1>28 DEF End, Fail
  <2>2. framing = "raw" => buffered' = buffered
    <3>1. PICK rest \in Flushed : buffered' = buffered + rest
      BY <1>28 DEF End
    <3>2. framing = "raw" => rest = 0
      BY DEF RawInv, Flushed
    <3> QED BY <1>t, <3>1, <3>2
  <2>3. framing # "raw" => RawInv'
    BY <2>1 DEF RawInv
  <2> QED BY <2>1, <2>2, <2>3, <1>q DEF InFlight
<1>29. CASE Disconnect \/ Cancelled
  <2>1. /\ pc' = "leaving" /\ UNCHANGED <<framing, mode, frames, updates, sizes>>
    BY <1>29 DEF Disconnect, Cancelled, Leave
  <2> QED BY <2>1, <1>q, <1>i DEF InFlight
<1>30. CASE Tick
  <2>1. UNCHANGED <<pc, framing, mode, frames, updates, sizes>>
    BY <1>30 DEF Tick
  <2> QED BY <2>1 DEF RawInv, KeepsAudio, InFlight
<1>31. CASE UNCHANGED vars
  BY <1>31 DEF vars, RawInv, KeepsAudio, InFlight
<1> QED BY <1>1, <1>2, <1>3, <1>4, <1>5, <1>6, <1>7, <1>8, <1>9, <1>10, <1>11, <1>12, <1>13,
           <1>14, <1>15, <1>16, <1>17, <1>18, <1>19, <1>20, <1>21, <1>22, <1>23, <1>24, <1>25,
           <1>26, <1>27, <1>28, <1>29, <1>30, <1>31 DEF Next, Client, Handler

(* RecordHoldsTheAudio: a raw session never buffers more than max_upload_bytes and     *)
(* max_audio_seconds allow, and when one that retains its audio is answered, its       *)
(* record holds every byte the answer is about, the trailing partial segment included. *)
THEOREM RecordIsComplete == Spec => []RecordHoldsTheAudio
<1>1. BaseInv /\ StorageInv /\ RawInv => RecordHoldsTheAudio
  <2> SUFFICES ASSUME BaseInv, StorageInv, RawInv, framing = "raw"
               PROVE  /\ buffered <= Smaller(MaxUpload, MaxAudio)
                      /\ pc = "answer" /\ KeepsAudio => StoredEnd = buffered
    BY DEF RecordHoldsTheAudio
  <2>1. buffered <= Smaller(MaxUpload, MaxAudio)
    BY DEF RawInv, Bounded, Smaller
  <2>2. ASSUME pc = "answer", KeepsAudio PROVE StoredEnd = buffered
    <3>1. StoredEnd = EndOf(sizes, Len(sizes)) /\ ~InFlight
      BY <2>2, CompletedHoldsAll DEF AllHeld, InFlight
    <3>2. EndOf(sizes, Len(sizes)) = buffered + 0
      BY <2>2, <3>1 DEF RawInv
    <3>3. buffered \in Nat
      BY DEF BaseInv, TypeOK
    <3> QED BY <3>1, <3>2, <3>3
  <2> QED BY <2>1, <2>2
<1>2. Init => RawInv
  BY RawBlank DEF Init, InFlight, Blank
<1>3. Spec => []RawInv
  BY <1>2, StorageAlways, RawNext, PTL DEF Spec
<1> QED BY <1>1, <1>3, StorageAlways, PTL

-------------------------------------------------------------------------------
(***************************************************************************)
(* The storage messages.                                                   *)
(***************************************************************************)
\* The chunks that are stored whole.
StoredChunks == {i \in DOMAIN sizes : ChunkEnd(i) <= StoredEnd}

\* The last storage message counts them.
Reported == /\ report.received = Len(sizes)
            /\ report.stored = Cardinality(StoredChunks)

\* The inductive invariant behind ReportIsTrue.
ReportInv ==
    /\ pc # "closed" => report.stored <= Cardinality(StoredChunks)
    /\ KeepsAudio /\ pc \in {"connecting", "starting", "opening", "receive", "chunks", "analyze"} =>
         Reported

\* They can be counted.
Countable == IsFiniteSet(StoredChunks) /\ Cardinality(StoredChunks) \in Nat

\* There are finitely many of them.
LEMMA StoredChunksAreFinite == BaseInv => Countable
<1> SUFFICES ASSUME BaseInv PROVE Countable
  OBVIOUS
<1>1. Len(sizes) \in Nat /\ StoredChunks \subseteq 1..Len(sizes)
  BY SizesAreNat DEF StoredChunks
<1>2. IsFiniteSet(1..Len(sizes))
  BY <1>1, FS_Interval
<1>3. IsFiniteSet(StoredChunks)
  BY <1>1, <1>2, FS_Subset
<1> QED BY <1>3, FS_CardinalityType DEF Countable

\* So there are after a step.
LEMMA StoredChunksAreFiniteNext == BaseInv' => Countable'
BY StoredChunksAreFinite, PTL

(* A chunk that is stored stays stored. *)
LEMMA StoredChunksGrow ==
    ASSUME BaseInv, StorageInv, BaseInv', StoredEnd' \in Nat, StoredEnd <= StoredEnd',
           sizes' = sizes \/ \E n \in Nat : sizes' = Append(sizes, n)
    PROVE  Cardinality(StoredChunks) <= Cardinality(StoredChunks')
<1>1. sizes \in Seq(Nat) /\ StoredEnd \in Nat
  BY SizesAreNat, StoredEndIs
<1>2. ASSUME NEW i \in DOMAIN sizes
      PROVE  i \in DOMAIN sizes' /\ EndOf(sizes', i) = EndOf(sizes, i) /\ EndOf(sizes, i) \in Nat
  <2>1. i \in 1..Len(sizes) /\ i \in 0..Len(sizes)
    BY <1>1
  <2>2. EndOf(sizes, i) \in Nat
    BY <1>1, <2>1, EndOfType
  <2>3. ASSUME NEW n \in Nat, sizes' = Append(sizes, n)
        PROVE  i \in DOMAIN sizes' /\ EndOf(sizes', i) = EndOf(sizes, i)
    BY <1>1, <2>1, <2>3, EndOfAppend
  <2> QED BY <2>2, <2>3
<1>3. StoredChunks \subseteq StoredChunks'
  <2> SUFFICES ASSUME NEW i \in StoredChunks PROVE i \in StoredChunks'
    OBVIOUS
  <2>1. i \in DOMAIN sizes /\ EndOf(sizes, i) <= StoredEnd
    BY DEF StoredChunks, ChunkEnd, EndOf
  <2>2. i \in DOMAIN sizes' /\ EndOf(sizes', i) <= StoredEnd'
    BY <1>1, <1>2, <2>1
  <2> QED BY <2>2 DEF StoredChunks, ChunkEnd, EndOf
<1>4. IsFiniteSet(StoredChunks')
  BY StoredChunksAreFiniteNext DEF Countable
<1> QED BY <1>3, <1>4, FS_Subset

(* The chunks the handler counts are those that are stored. *)
LEMMA CountedChunks ==
    BaseInv /\ StorageInv => {i \in DOMAIN sizes : CountsAsStored(i)} = StoredChunks
<1> SUFFICES ASSUME BaseInv, StorageInv, NEW i \in DOMAIN sizes
             PROVE  CountsAsStored(i) <=> ChunkEnd(i) <= StoredEnd
  BY DEF StoredChunks
<1>1. sizes \in Seq(Nat) /\ i \in 1..Len(sizes) /\ sizes[i] # 0 /\ StoredEnd \in Nat
  BY SizesAreNat, StoredEndIs
<1> DEFINE sized == IF pc \in Past THEN 1..SegmentTarget ELSE Full
<1>2. EndToEnd(sizes, segments, 0, StoredEnd, sized)
  BY DEF StorageInv, SegmentsInv
<1> HIDE DEF sized
<1>3. (CHOOSE g : Measures(Held(segments, i), g))[Held(segments, i)] >= sizes[i]
        <=> EndOf(sizes, i) <= StoredEnd
  BY <1>1, <1>2, MeasuredChunk
<1> QED BY <1>3, StoredBytesIsMeasured DEF CountsAsStored, ChunkEnd, EndOf

\* Before the first message.
Unreported == sizes = <<>> /\ segments = <<>> /\ report = [received |-> 0, stored |-> 0]

\* The invariant holds before the first message.
LEMMA NothingReported == Unreported => ReportInv
<1> SUFFICES ASSUME Unreported PROVE ReportInv
  OBVIOUS
<1>1. StoredChunks = {} /\ Len(sizes) = 0
  BY DEF StoredChunks, Unreported
<1>2. Cardinality(StoredChunks) = 0
  BY <1>1, FS_EmptySet
<1> QED BY <1>1, <1>2 DEF ReportInv, Reported, Unreported

\* So it does after a step.
LEMMA NothingReportedNext == Unreported' => ReportInv'
BY NothingReported, PTL

\* Every step keeps the invariant.
LEMMA ReportNext ==
    BaseInv /\ StorageInv /\ ReportInv /\ [Next]_vars /\ BaseInv' => ReportInv'
<1> SUFFICES ASSUME BaseInv, StorageInv, ReportInv, [Next]_vars, BaseInv' PROVE ReportInv'
  OBVIOUS
<1> USE DEF frames, updates, storage, outcome, clock
<1> DEFINE Before == {"connecting", "starting", "opening"}
           Between == {"receive", "chunks", "analyze"}
(* The storage is left alone. *)
<1>q. ASSUME pc # "closed", pc' \notin Before, pc' \in Between => pc \in Between,
             UNCHANGED <<mode, segments, sizes, report>>
      PROVE  ReportInv'
  <2>1. StoredChunks' = StoredChunks /\ KeepsAudio' = KeepsAudio
    BY <1>q DEF StoredChunks, ChunkEnd, StoredEnd, KeepsAudio
  <2> QED BY <1>q, <2>1 DEF ReportInv, Reported
<1>n. ASSUME Early, UNCHANGED <<segments, sizes, report>>
      PROVE  ReportInv'
  <2>1. sizes = <<>> /\ segments = <<>> /\ report = [received |-> 0, stored |-> 0]
    BY <1>n DEF BaseInv, NothingYet
  <2> QED BY <1>n, <2>1, NothingReportedNext DEF Unreported
(* Chunks or segments are added. *)
<1>g. ASSUME pc # "closed", pc' \notin Before \cup Between, report' = report,
             StoredEnd' \in Nat, StoredEnd <= StoredEnd',
             sizes' = sizes \/ \E n \in Nat : sizes' = Append(sizes, n)
      PROVE  ReportInv'
  <2>1. report.stored <= Cardinality(StoredChunks) /\ report.stored \in Nat
    <3>1. report.stored \in 0..report.received
      BY DEF BaseInv, TypeOK
    <3> QED BY <1>g, <3>1 DEF ReportInv
  <2>2. Cardinality(StoredChunks) <= Cardinality(StoredChunks')
    BY <1>g, StoredChunksGrow
  <2>3. Cardinality(StoredChunks) \in Nat /\ Cardinality(StoredChunks') \in Nat
    BY StoredChunksAreFinite, StoredChunksAreFiniteNext DEF Countable
  <2>4. report'.stored <= Cardinality(StoredChunks')
    BY <1>g, <2>1, <2>2, <2>3
  <2> QED BY <1>g, <2>4 DEF ReportInv
<1>1. CASE Refuse
  BY <1>1, <1>n DEF Refuse, Early
<1>2. CASE Accept
  BY <1>2, <1>n DEF Accept, Early
<1>3. ASSUME NEW f \in Framings, NEW m \in Modes, Start(f, m) PROVE ReportInv'
  BY <1>3, <1>n DEF Start, Early
<1>4. CASE Open
  <2>1. pc = "opening" /\ UNCHANGED storage
    BY <1>4 DEF Open
  <2> QED BY <2>1, <1>n DEF Early
<1>5. CASE OpenFails \/ OpenCancelled
  BY <1>5, <1>n DEF OpenFails, OpenCancelled, NoHandle, Early
<1>6. ASSUME NEW n \in ChunkSizes, RawFrame(n) PROVE ReportInv'
  BY <1>6, <1>q DEF RawFrame
<1>7. ASSUME NEW n \in ChunkSizes, Frame(n) PROVE ReportInv'
  <2>1. pc = "receive" /\ pc' = "chunks" /\ UNCHANGED <<mode, storage>>
    BY <1>7 DEF Frame
  <2> QED BY <2>1, <1>q
<1>8. CASE SkipEmpty
  BY <1>8, <1>q DEF SkipEmpty
<1>9. CASE TooMuch
  BY <1>9, <1>q DEF TooMuch, Fail
<1>10. CASE TakeChunk
  <2>1. CASE ~KeepsAudio
    <3>1. pc = "chunks" /\ pc' = "chunks" /\ UNCHANGED <<mode, segments, sizes, report>>
      BY <1>10, <2>1 DEF TakeChunk
    <3> QED BY <3>1, <1>q
  <2>2. CASE KeepsAudio
    <3>1. /\ pc = "chunks" /\ pc' = "append" /\ sizes' = Append(sizes, Head(ordered))
          /\ UNCHANGED <<segments, report>> /\ ordered # <<>> /\ ordered \in Seq(ChunkSizes)
      BY <1>10, <2>2 DEF TakeChunk, BaseInv, TypeOK
    <3>2. Head(ordered) \in Nat
      BY <3>1, HeadType
    <3>3. StoredEnd' = StoredEnd /\ StoredEnd \in Nat
      BY <3>1, StoredEndIs DEF StoredEnd
    <3> QED BY <3>1, <3>2, <3>3, <1>g
  <2> QED BY <2>1, <2>2
<1>11. CASE Fill
  <2>1. pc = "append" /\ pc' = "append" /\ UNCHANGED <<mode, segments, sizes, report>>
    BY <1>11 DEF Fill
  <2> QED BY <2>1, <1>q
<1>12. CASE Filled
  BY <1>12, <1>q DEF Filled
<1>13. CASE StoreSegment
  <2>1. pc = "store" /\ pc' = "store" /\ UNCHANGED <<sizes, report>>
    BY <1>13 DEF StoreSegment
  <2>2. StoredEnd' \in Nat /\ StoredEnd <= StoredEnd'
    BY <1>13, StorageStore
  <2> QED BY <2>1, <2>2, <1>g
<1>14. CASE StoreFails \/ StoreCancelled
  <2>1. /\ pc \in {"append", "store"} /\ pc' \in {"failing", "leaving"}
        /\ UNCHANGED <<sizes, report>>
    BY <1>14 DEF StoreFails, StoreCancelled, StoreBreaks, Fail, Leave
  <2>2. StoredEnd' \in Nat /\ StoredEnd <= StoredEnd'
    <3>1. StoreBreaks /\ pc' \in Stopped
      BY <1>14, <2>1 DEF StoreFails, StoreCancelled, Stopped
    <3> QED BY <3>1, StorageStoreBreaks
  <2> QED BY <2>1, <2>2, <1>g
<1>15. CASE Stored
  <2> DEFINE C == {i \in DOMAIN sizes : CountsAsStored(i)}
  <2>1. /\ pc' = "chunks" /\ UNCHANGED <<mode, segments, sizes>>
        /\ report' = [received |-> Len(sizes), stored |-> Cardinality(C)]
    BY <1>15 DEF Stored
  <2>2. C = StoredChunks
    BY CountedChunks
  <2> HIDE DEF C
  <2>3. StoredChunks' = StoredChunks
    BY <2>1 DEF StoredChunks, ChunkEnd, StoredEnd
  <2>4. report'.received = Len(sizes') /\ report'.stored = Cardinality(StoredChunks')
    BY <2>1, <2>2, <2>3
  <2>5. Cardinality(StoredChunks') \in Nat
    BY StoredChunksAreFiniteNext DEF Countable
  <2> QED BY <2>4, <2>5 DEF ReportInv, Reported
<1>16. CASE ChunksDone
  BY <1>16, <1>q DEF ChunksDone, Listen, Fail
<1>17. ASSUME NEW l \in Labels, NEW answer \in Heard, Update(l, answer) PROVE ReportInv'
  BY <1>17, <1>q DEF Update, Listen, Fail
<1>18. CASE AnalysisFails
  BY <1>18, <1>q DEF AnalysisFails, Fail
<1>19. ASSUME NEW answer \in Identified, Conclude(answer) PROVE ReportInv'
  BY <1>19, <1>q DEF Conclude
<1>20. CASE Complete
  <2>1. pc = "complete" /\ pc' = "answer" /\ UNCHANGED <<sizes, report>>
    BY <1>20 DEF Complete
  <2>2. StoredEnd' \in Nat /\ StoredEnd <= StoredEnd'
    BY <1>20, StorageComplete
  <2> QED BY <2>1, <2>2, <1>g
<1>21. CASE CompleteFails \/ CompleteCancelled
  <2>1. pc = "complete" /\ pc' \in {"failing", "leaving"} /\ UNCHANGED <<sizes, report>>
    BY <1>21 DEF CompleteFails, CompleteCancelled, CompleteBreaks, Fail, Leave
  <2>2. StoredEnd' \in Nat /\ StoredEnd <= StoredEnd'
    <3>1. CompleteBreaks /\ pc' \in Stopped
      BY <1>21, <2>1 DEF CompleteFails, CompleteCancelled, Stopped
    <3> QED BY <3>1, StorageCompleteBreaks
  <2> QED BY <2>1, <2>2, <1>g
<1>22. CASE Answer
  BY <1>22, <1>q DEF Answer
<1>23. CASE TimesOut
  BY <1>23, <1>q DEF TimesOut, Fail
<1>24. CASE TellError
  BY <1>24, <1>q DEF TellError, Leave
<1>25. CASE Finally
  <2>1. pc' = "closed"
    BY <1>25 DEF Finally
  <2> QED BY <2>1 DEF ReportInv
<1>26. CASE Ping
  BY <1>26, <1>q DEF Ping, Listen, Fail
<1>27. CASE BadMessage
  <2>1. pc \in {"starting", "receive"} /\ pc' = "failing" /\ UNCHANGED <<mode, storage>>
    BY <1>27 DEF BadMessage, Fail
  <2> QED BY <2>1, <1>q
<1>28. CASE End
  <2>1. pc = "receive" /\ pc' \in {"failing", "conclude"} /\ UNCHANGED <<mode, storage>>
    BY <1>28 DEF End, Fail
  <2> QED BY <2>1, <1>q
<1>29. CASE Disconnect \/ Cancelled
  <2>1. pc # "closed" /\ pc' = "leaving" /\ UNCHANGED <<mode, storage>>
    BY <1>29 DEF Disconnect, Cancelled, Leave
  <2> QED BY <2>1, <1>q
<1>30. CASE Tick
  <2>1. pc # "closed" /\ pc # "connecting" /\ pc' = pc /\ UNCHANGED <<mode, storage>>
    BY <1>30 DEF Tick
  <2> QED BY <2>1, <1>q, <1>n DEF Early
<1>31. CASE UNCHANGED vars
  <2>1. pc' = pc /\ UNCHANGED <<mode, segments, sizes, report>>
    BY <1>31 DEF vars
  <2>2. StoredChunks' = StoredChunks /\ KeepsAudio' = KeepsAudio
    BY <2>1 DEF StoredChunks, ChunkEnd, StoredEnd, KeepsAudio
  <2> QED BY <2>1, <2>2 DEF ReportInv, Reported
<1> QED BY <1>1, <1>2, <1>3, <1>4, <1>5, <1>6, <1>7, <1>8, <1>9, <1>10, <1>11, <1>12, <1>13,
           <1>14, <1>15, <1>16, <1>17, <1>18, <1>19, <1>20, <1>21, <1>22, <1>23, <1>24, <1>25,
           <1>26, <1>27, <1>28, <1>29, <1>30, <1>31 DEF Next, Client, Handler

(* ReportIsTrue: a storage message never claims more than the segments hold, and       *)
(* whenever the handler listens the last one counts exactly the chunks that are stored *)
(* whole, however the segments cut them.                                               *)
THEOREM ReportsAreTrue == Spec => []ReportIsTrue
<1>1. ReportInv => ReportIsTrue
  BY DEF ReportInv, Reported, ReportIsTrue, StoredChunks
<1>2. Init => ReportInv
  BY NothingReported DEF Init, Unreported
<1>3. Spec => []ReportInv
  BY <1>2, StorageAlways, ReportNext, PTL DEF Spec
<1> QED BY <1>1, <1>3, PTL
===============================================================================
