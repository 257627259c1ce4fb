---------------------------- MODULE CleanupProofs ----------------------------
(***************************************************************************)
(* Theorems about RetentionCleanup, for any finite set of sessions, any    *)
(* number of containers, any batch and page size and any retention.        *)
(***************************************************************************)
EXTENDS RetentionCleanup, FiniteSetTheorems, TLAPS

-----------------------------------------------------------------------------
(* ORDER BY ... LIMIT n, as a set: those with fewer than n before them. *)

Ranked(S, before, n) == {s \in S : Cardinality({t \in S : <<t, s>> \in before}) < n}

IsStrictOrder(before, S) ==
    /\ \A s \in S : <<s, s>> \notin before
    /\ \A r, s, t \in S : <<r, s>> \in before /\ <<s, t>> \in before => <<r, t>> \in before
    /\ \A s, t \in S : s = t \/ <<s, t>> \in before \/ <<t, s>> \in before

(* One that comes earlier has fewer before it. *)
LEMMA RankGrows ==
    ASSUME NEW S, IsFiniteSet(S), NEW before, IsStrictOrder(before, S),
           NEW s \in S, NEW t \in S, <<s, t>> \in before
    PROVE  Cardinality({r \in S : <<r, s>> \in before})
             < Cardinality({r \in S : <<r, t>> \in before})
<1> DEFINE A == {r \in S : <<r, s>> \in before}
           B == {r \in S : <<r, t>> \in before}
<1>1. A \subseteq B /\ s \in B /\ s \notin A
  BY DEF IsStrictOrder
<1>2. IsFiniteSet(A) /\ IsFiniteSet(B)
  BY FS_Subset
<1>3. Cardinality(A) <= Cardinality(B) /\ (Cardinality(A) = Cardinality(B) => A = B)
  BY <1>1, <1>2, FS_Subset
<1>4. Cardinality(A) \in Nat /\ Cardinality(B) \in Nat
  BY <1>2, FS_CardinalityType
<1> QED BY <1>1, <1>3, <1>4

(* LIMIT n returns n rows at most: their ranks are distinct numbers below n. *)
LEMMA LimitHoldsTheRows ==
    ASSUME NEW S, IsFiniteSet(S), NEW before, IsStrictOrder(before, S), NEW n \in Nat
    PROVE  IsFiniteSet(Ranked(S, before, n)) /\ Cardinality(Ranked(S, before, n)) <= n
<1> DEFINE R == Ranked(S, before, n)
           rank(s) == Cardinality({r \in S : <<r, s>> \in before})
           f == [s \in R |-> rank(s)]
           T == 0 .. (n - 1)
<1>1. R \subseteq S /\ IsFiniteSet(R)
  BY FS_Subset DEF Ranked
<1>2. \A s \in R : rank(s) \in T
  <2>1. TAKE s \in R
  <2>2. IsFiniteSet({r \in S : <<r, s>> \in before})
    BY FS_Subset
  <2>3. rank(s) \in Nat
    BY <2>2, FS_CardinalityType
  <2>4. rank(s) < n
    BY DEF Ranked
  <2> QED BY <2>3, <2>4
<1>3. \A s, t \in R : rank(s) = rank(t) => s = t
  <2>1. TAKE s, t \in R
  <2>2. rank(s) \in Nat /\ rank(t) \in Nat
    BY <1>2
  <2>3. ASSUME <<s, t>> \in before PROVE rank(s) < rank(t)
    BY <1>1, <2>3, RankGrows
  <2>4. ASSUME <<t, s>> \in before PROVE rank(t) < rank(s)
    BY <1>1, <2>4, RankGrows
  <2>5. s = t \/ <<s, t>> \in before \/ <<t, s>> \in before
    BY <1>1 DEF IsStrictOrder
  <2> HIDE DEF rank
  <2> QED BY <2>2, <2>3, <2>4, <2>5
<1>4. f \in [R -> T] /\ \A s, t \in R : f[s] = f[t] => s = t
  <2>1. f \in [R -> T]
    BY <1>2
  <2>2. \A s \in R : f[s] = rank(s)
    OBVIOUS
  <2> HIDE DEF f, rank
  <2> QED BY <2>1, <2>2, <1>3
<1>5. IsFiniteSet(T) /\ Cardinality(T) = n
  BY FS_Interval
<1>6. ~(Cardinality(T) < Cardinality(R))
  <2> HIDE DEF f, T, R
  <2> QED BY <1>1, <1>4, <1>5, FS_PigeonHole
<1>7. Cardinality(R) \in Nat
  BY <1>1, FS_CardinalityType
<1> HIDE DEF T
<1> QED BY <1>1, <1>5, <1>6, <1>7 DEF R

(* LIMIT n takes the first: one that is left out comes after each that is taken. *)
LEMMA LimitTakesTheFirst ==
    ASSUME NEW S, IsFiniteSet(S), NEW before, IsStrictOrder(before, S), NEW n \in Nat
    PROVE  /\ \A s \in S \ Ranked(S, before, n) : \A p \in Ranked(S, before, n) :
                 <<p, s>> \in before
           /\ Cardinality(S) < n => Ranked(S, before, n) = S
<1> DEFINE rank(s) == Cardinality({r \in S : <<r, s>> \in before})
<1>1. \A s \in S : rank(s) \in Nat /\ rank(s) <= Cardinality(S)
  <2>1. TAKE s \in S
  <2>2. {r \in S : <<r, s>> \in before} \in SUBSET S
    OBVIOUS
  <2>3. /\ IsFiniteSet({r \in S : <<r, s>> \in before})
        /\ rank(s) <= Cardinality(S)
    BY <2>2, FS_Subset
  <2> QED BY <2>3, FS_CardinalityType
<1>2. \A s \in S : s \in Ranked(S, before, n) <=> rank(s) < n
  BY DEF Ranked
<1>3. Ranked(S, before, n) \subseteq S
  BY DEF Ranked
<1>4. ASSUME NEW s \in S, s \notin Ranked(S, before, n), NEW p \in Ranked(S, before, n)
      PROVE  <<p, s>> \in before
  <2>1. p \in S /\ rank(p) < n /\ ~(rank(s) < n)
    BY <1>2, <1>3, <1>4
  <2>2. ASSUME <<s, p>> \in before PROVE FALSE
    <3>1. rank(s) < rank(p)
      BY <2>1, <2>2, RankGrows
    <3> HIDE DEF rank
    <3> QED BY <1>1, <2>1, <3>1
  <2>3. s = p \/ <<s, p>> \in before \/ <<p, s>> \in before
    BY <2>1 DEF IsStrictOrder
  <2> QED BY <1>4, <2>2, <2>3
<1>5. Cardinality(S) < n => Ranked(S, before, n) = S
  <2>1. Cardinality(S) \in Nat
    BY FS_CardinalityType
  <2> HIDE DEF rank
  <2> QED BY <1>1, <1>2, <1>3, <2>1
<1> QED BY <1>4, <1>5

-----------------------------------------------------------------------------
(* The bounds and delays are numbers. *)
LEMMA Constants ==
    /\ Sessions \subseteq Nat /\ IsFiniteSet(Sessions)
    /\ AudioHours \in Nat \ {0} /\ ResultHours \in Nat \ {0} /\ Day \in Nat \ {0}
    /\ Interval \in Nat \ {0} /\ BatchSize \in Nat \ {0} /\ PageSize \in Nat \ {0}
    /\ LastStart \in Nat /\ MaxTime \in Nat /\ MaxFaults \in Nat
BY CleanupAssumption DEF CleanupAssumption

(* purge_expired takes a batch at most. *)
LEMMA BatchIsBounded ==
    ASSUME TypeOK
    PROVE  Oldest \subseteq Expired /\ Cardinality(Oldest) <= BatchSize
<1> DEFINE order == {p \in Sessions \X Sessions : ExpiresBefore(p[1], p[2])}
<1>1. \A s, t \in Sessions : <<s, t>> \in order <=> ExpiresBefore(s, t)
  OBVIOUS
<1>2. Expired \subseteq Sessions /\ IsFiniteSet(Expired)
  BY Constants, FS_Subset DEF Expired, Live
<1>3. IsStrictOrder(order, Expired)
  <2>1. \A s \in Expired : s \in Nat /\ expires[s] \in Nat
    BY <1>2, Constants DEF TypeOK
  <2>2. /\ \A s \in Expired : ~ExpiresBefore(s, s)
        /\ \A r, s, t \in Expired : ExpiresBefore(r, s) /\ ExpiresBefore(s, t) => ExpiresBefore(r, t)
        /\ \A s, t \in Expired : s = t \/ ExpiresBefore(s, t) \/ ExpiresBefore(t, s)
    BY <2>1 DEF ExpiresBefore
  <2> HIDE DEF order
  <2> QED BY <1>1, <1>2, <2>2 DEF IsStrictOrder
<1>4. Oldest = Ranked(Expired, order, BatchSize)
  <2>1. \A s \in Expired : {t \in Expired : ExpiresBefore(t, s)} = {t \in Expired : <<t, s>> \in order}
    BY <1>1, <1>2
  <2> HIDE DEF order
  <2> QED BY <2>1 DEF Oldest, Ranked
<1> HIDE DEF order
<1> QED BY <1>2, <1>3, <1>4, Constants, LimitHoldsTheRows DEF Oldest

(* One session leaves the batch. *)
LEMMA RestIsSmaller ==
    ASSUME TypeOK, NEW w \in Workers, NEW s, NEW deleted \in BOOLEAN
    PROVE  /\ Rest(w, s, deleted) \subseteq batch[w]
           /\ Cardinality(Rest(w, s, deleted)) <= BatchSize
<1>1. batch[w] \subseteq Sessions /\ IsFiniteSet(batch[w])
  BY Constants, FS_Subset DEF TypeOK
<1>2. Rest(w, s, deleted) \subseteq batch[w]
  BY DEF Rest
<1>3. IsFiniteSet(Rest(w, s, deleted)) /\ Cardinality(Rest(w, s, deleted)) <= Cardinality(batch[w])
  BY <1>1, <1>2, FS_Subset
<1>4. Cardinality(Rest(w, s, deleted)) \in Nat /\ Cardinality(batch[w]) \in Nat
  BY <1>1, <1>3, FS_CardinalityType
<1> QED BY <1>2, <1>3, <1>4, Constants DEF TypeOK

-----------------------------------------------------------------------------
(* The types hold at first. *)
LEMMA TypeCorrectInit ==
    ASSUME Init
    PROVE  TypeOK
<1>1. Cardinality({}) = 0
  BY FS_EmptySet
<1>2. page.at \in {"idle", "closed"} /\ page.before = NoCursor /\ page.listed = {}
  BY DEF Init
<1>3. NoCursor \in 0..NoCursor
  BY Constants DEF NoCursor
<1> QED BY <1>1, <1>2, <1>3, Constants DEF Init, TypeOK, Live

(* TypeCorrect: every variable of the cleanup stays in its type, no container works *)
(* on more than a batch, and no audio is left that no row leads to.                 *)
THEOREM TypeCorrect == Spec => []TypeOK
<1>1. Init => TypeOK
  BY TypeCorrectInit
<1>2. TypeOK /\ [Next]_vars => TypeOK'
  <2> SUFFICES ASSUME TypeOK, [Next]_vars PROVE TypeOK'
    OBVIOUS
  <2>1. ASSUME NEW s \in Sessions, Retain(s) PROVE TypeOK'
    <3>1. now \in 0..MaxTime /\ now + ResultHours \in Nat /\ now + AudioHours \in Nat
      BY Constants DEF TypeOK
    <3> QED BY <2>1, <3>1 DEF Retain, TypeOK, Live, deployment, workers, reader
  <2>2. ASSUME NEW s \in Sessions, ClientDelete(s) PROVE TypeOK'
    BY <2>2 DEF ClientDelete, Gone, TypeOK, Live, deployment, workers
  <2>3. ASSUME NEW s \in Sessions, Lifecycle(s) PROVE TypeOK'
    BY <2>3 DEF Lifecycle, TypeOK, Live, deployment, workers, reader
  <2>4. ASSUME NEW w \in Workers, Wake(w) PROVE TypeOK'
    <3>1. Oldest \subseteq Sessions /\ Cardinality(Oldest) <= BatchSize
      BY BatchIsBounded DEF Expired, Live
    <3> QED BY <2>4, <3>1, Constants DEF Wake, Sleep, TypeOK, Live, rows, deployment, reader
  <2>5. ASSUME NEW w \in Workers, WakeFails(w) PROVE TypeOK'
    BY <2>5, Constants DEF WakeFails, Sleep, TypeOK, Live, rows, deployment, reader
  <2>6. ASSUME NEW w \in Workers, Purge(w) PROVE TypeOK'
    <3>1. PICK s \in batch[w], deleted \in BOOLEAN :
            /\ IF deleted
               THEN Deletable(s) /\ Gone(s) /\ UNCHANGED faults
               ELSE Stays(s)
            /\ batch' = [batch EXCEPT ![w] = Rest(w, s, deleted)]
            /\ IF Rest(w, s, deleted) = {} THEN Sleep(w) ELSE UNCHANGED sleep
      BY <2>6 DEF Purge
    <3>2. UNCHANGED <<now, deployment, asked>>
      BY <2>6 DEF Purge
    <3>3. s \in Sessions
      BY DEF TypeOK
    <3>4. /\ batch' \in [Workers -> SUBSET Sessions]
          /\ \A v \in Workers : Cardinality(batch'[v]) <= BatchSize
      BY <3>1, RestIsSmaller DEF TypeOK
    <3>5. sleep' \in [Workers -> 0..Interval]
      BY <3>1, Constants DEF Sleep, TypeOK
    <3>6. CASE Gone(s) /\ UNCHANGED faults
      BY <3>2, <3>3, <3>4, <3>5, <3>6 DEF Gone, TypeOK, Live, deployment
    <3>7. CASE Stays(s)
      BY <3>2, <3>4, <3>5, <3>7, Constants DEF Stays, TypeOK, Live, deployment, rows, reader
    <3> QED BY <3>1, <3>6, <3>7
  <2>7. CASE Tick
    BY <2>7, Constants DEF Tick, TypeOK, Live, rows, deployment, reader
  <2>8. CASE ReadPage
    <3>1. PICK before \in 0..NoCursor :
            page' = [at     |-> IF Cardinality(Older) < PageSize THEN "read" ELSE "reading",
                     before |-> before,
                     listed |-> page.listed \cup Page]
      BY <2>8 DEF ReadPage
    <3>2. /\ page'.at \in {"idle", "reading", "read", "closed"} /\ page'.before \in 0..NoCursor
          /\ page'.listed \subseteq Sessions
      BY <3>1 DEF TypeOK, Page, Older, Live
    <3> QED BY <2>8, <3>2 DEF ReadPage, TypeOK, Live, rows, deployment, workers, NoCursor
  <2>9. CASE CloseList
    BY <2>9, Constants DEF CloseList, TypeOK, Live, NoCursor, rows, deployment, workers
  <2>10. CASE UNCHANGED vars
    BY <2>10 DEF vars, TypeOK, Live, NoCursor, rows, deployment, workers, reader
  <2> QED BY <2>1, <2>2, <2>3, <2>4, <2>5, <2>6, <2>7, <2>8, <2>9, <2>10 DEF Next
<1> QED BY <1>1, <1>2, PTL DEF Spec

-----------------------------------------------------------------------------
(* s3_orphan_lifecycle_days: rounding up covers the retention. *)
LEMMA LifecycleIsLater == LifecycleDays * Day >= AudioHours
<1> DEFINE n == AudioHours + Day - 1
           q == n \div Day
<1>1. n \in Nat /\ Day \in Nat \ {0} /\ AudioHours \in Nat
  BY Constants
<1>2. q \in Nat /\ n < (q + 1) * Day
  <2> HIDE DEF n
  <2> QED BY <1>1
<1>3. (q + 1) * Day \in Nat
  BY <1>1, <1>2
<1>4. LifecycleDays = q + 1
  BY DEF LifecycleDays
<1> HIDE DEF q
<1> QED BY <1>1, <1>2, <1>3, <1>4 DEF n

Hours(s) == IF mode[s] = "result" THEN ResultHours ELSE AudioHours

(* Whatever deletes a session early finds it expired when it looks: the batch holds *)
(* expired sessions only, and the clock does not go back.                           *)
DueInv ==
    /\ TypeOK
    /\ \A s \in Sessions : row[s] # "none" => expires[s] = created[s] + Hours(s)
    /\ \A w \in Workers : \A s \in batch[w] : row[s] # "none" /\ expires[s] <= now
    /\ RetainedUntilExpiry

(* RetentionIsKept (main.py _build_persistence, service.py _start and purge_expired): *)
(* nothing but its own client ends the retention of an analysis early, for any        *)
(* retention times, number of containers and batch size.                              *)
THEOREM RetentionIsKept == Spec => []RetainedUntilExpiry
<1>1. Init => DueInv
  <2> SUFFICES ASSUME Init, TypeOK PROVE DueInv
    BY TypeCorrectInit
  <2> QED BY DEF Init, DueInv, RetainedUntilExpiry
<1>2. TypeOK /\ TypeOK' /\ DueInv /\ [Next]_vars => DueInv'
  <2> SUFFICES ASSUME TypeOK, TypeOK', DueInv, [Next]_vars PROVE DueInv'
    OBVIOUS
  <2> USE DEF DueInv
  <2>1. ASSUME NEW s \in Sessions, Retain(s) PROVE DueInv'
    BY <2>1 DEF Retain, TypeOK, Hours, RetainedUntilExpiry, deployment, workers, reader
  <2>2. ASSUME NEW s \in Sessions, ClientDelete(s) PROVE DueInv'
    BY <2>2 DEF ClientDelete, Gone, TypeOK, Hours, RetainedUntilExpiry, deployment, workers
  <2>3. ASSUME NEW s \in Sessions, Lifecycle(s) PROVE DueInv'
    <3>1. s \in audio /\ row[s] = "live" /\ now >= created[s] + LifecycleDays * Day
      BY <2>3 DEF Lifecycle, TypeOK, Live
    <3>2. mode[s] # "result" => expires[s] <= now
      <4>1. mode[s] # "result" => expires[s] = created[s] + AudioHours
        BY <3>1 DEF Hours
      <4>2. created[s] \in Nat /\ now \in Nat /\ AudioHours \in Nat
        BY Constants DEF TypeOK
      <4>3. LifecycleDays \in Int /\ LifecycleDays * Day \in Int
        BY Constants DEF LifecycleDays
      <4> QED BY <3>1, <4>1, <4>2, <4>3, LifecycleIsLater
    <3>3. expires[s] \in Nat /\ now \in Nat
      BY Constants DEF TypeOK
    <3>4. RetainedUntilExpiry'
      <4>1. /\ audio' = audio \ {s}
            /\ UNCHANGED <<now, row, mode, created, expires, asked>>
        BY <2>3 DEF Lifecycle
      <4>2. ASSUME NEW t \in Sessions, row[t] # "none", t \notin asked, now < expires[t],
                   mode[t] = "result_and_audio"
            PROVE  t \in audio \ {s}
        BY <3>2, <3>3, <4>2 DEF RetainedUntilExpiry
      <4> QED BY <4>1, <4>2 DEF RetainedUntilExpiry
    <3> QED BY <2>3, <3>4 DEF Lifecycle, Hours, deployment, workers, reader
  <2>4. ASSUME NEW w \in Workers, Wake(w) PROVE DueInv'
    <3>1. \A s \in Oldest : row[s] = "live" /\ expires[s] <= now
      BY BatchIsBounded DEF Expired, Live
    <3> QED BY <2>4, <3>1 DEF Wake, TypeOK, Hours, RetainedUntilExpiry, rows, deployment, reader
  <2>5. ASSUME NEW w \in Workers, WakeFails(w) PROVE DueInv'
    BY <2>5 DEF WakeFails, Hours, RetainedUntilExpiry, rows, deployment, reader
  <2>6. ASSUME NEW w \in Workers, Purge(w) PROVE DueInv'
    <3>1. PICK s \in batch[w], deleted \in BOOLEAN :
            /\ IF deleted
               THEN Deletable(s) /\ Gone(s) /\ UNCHANGED faults
               ELSE Stays(s)
            /\ batch' = [batch EXCEPT ![w] = Rest(w, s, deleted)]
      BY <2>6 DEF Purge
    <3>2. UNCHANGED <<now, deployment, asked>>
      BY <2>6 DEF Purge
    <3>3. s \in Sessions /\ row[s] # "none" /\ expires[s] <= now
      BY DEF TypeOK
    <3>4. \A v \in Workers : batch'[v] \subseteq batch[v]
      BY <3>1, RestIsSmaller DEF TypeOK
    <3>5. expires[s] \in Nat /\ now \in Nat
      BY <3>3, Constants DEF TypeOK
    <3>6. CASE Gone(s)
      BY <3>2, <3>3, <3>4, <3>5, <3>6 DEF Gone, TypeOK, Hours, RetainedUntilExpiry
    <3>7. CASE Stays(s)
      BY <3>2, <3>4, <3>7 DEF Stays, Hours, RetainedUntilExpiry, rows
    <3> QED BY <3>1, <3>6, <3>7
  <2>7. CASE Tick
    <3>1. now' \in Nat /\ now \in Nat /\ now <= now'
      BY <2>7, Constants DEF Tick, TypeOK
    <3>2. \A s \in Sessions : expires[s] \in Nat
      BY DEF TypeOK
    <3>3. \A w \in Workers : batch[w] \subseteq Sessions
      BY DEF TypeOK
    <3> QED BY <2>7, <3>1, <3>2, <3>3 DEF Tick, Hours, RetainedUntilExpiry, rows
  <2>8. CASE ReadPage
    BY <2>8 DEF ReadPage, Hours, RetainedUntilExpiry, rows, deployment, workers
  <2>9. CASE CloseList
    BY <2>9 DEF CloseList, Hours, RetainedUntilExpiry, rows, deployment, workers
  <2>10. CASE UNCHANGED vars
    BY <2>10 DEF vars, Hours, RetainedUntilExpiry, rows, deployment, workers, reader
  <2> QED BY <2>1, <2>2, <2>3, <2>4, <2>5, <2>6, <2>7, <2>8, <2>9, <2>10 DEF Next
<1>3. DueInv => RetainedUntilExpiry
  BY DEF DueInv
<1> QED BY <1>1, <1>2, <1>3, TypeCorrect, PTL DEF Spec

-----------------------------------------------------------------------------
(* What a page leaves out is no newer than anything on it, and the last page has all. *)
LEMMA PageIsNext ==
    ASSUME TypeOK
    PROVE  /\ Page \subseteq Older
           /\ \A s \in Older \ Page : \A p \in Page : created[s] <= created[p]
           /\ Cardinality(Older) < PageSize => Page = Older
<1> DEFINE order == {p \in Sessions \X Sessions : CreatedAfter(p[1], p[2])}
<1>1. \A s, t \in Sessions : <<s, t>> \in order <=> CreatedAfter(s, t)
  OBVIOUS
<1>2. Older \subseteq Sessions /\ IsFiniteSet(Older)
  BY Constants, FS_Subset DEF Older, Live
<1>3. \A s \in Older : s \in Nat /\ created[s] \in Nat
  BY <1>2, Constants DEF TypeOK
<1>4. IsStrictOrder(order, Older)
  <2>1. /\ \A s \in Older : ~CreatedAfter(s, s)
        /\ \A r, s, t \in Older : CreatedAfter(r, s) /\ CreatedAfter(s, t) => CreatedAfter(r, t)
        /\ \A s, t \in Older : s = t \/ CreatedAfter(s, t) \/ CreatedAfter(t, s)
    BY <1>3 DEF CreatedAfter
  <2> HIDE DEF order
  <2> QED BY <1>1, <1>2, <2>1 DEF IsStrictOrder
<1>5. Page = Ranked(Older, order, PageSize)
  <2>1. \A s \in Older : {t \in Older : CreatedAfter(t, s)} = {t \in Older : <<t, s>> \in order}
    BY <1>1, <1>2
  <2> HIDE DEF order
  <2> QED BY <2>1 DEF Page, Ranked
<1>6. /\ \A s \in Older \ Page : \A p \in Page : <<p, s>> \in order
      /\ Cardinality(Older) < PageSize => Page = Older
  <2> HIDE DEF order
  <2> QED BY <1>2, <1>4, <1>5, Constants, LimitTakesTheFirst
<1>7. Page \subseteq Older
  BY DEF Page
<1>8. ASSUME NEW s \in Older \ Page, NEW p \in Page PROVE created[s] <= created[p]
  <2>1. CreatedAfter(p, s)
    BY <1>1, <1>2, <1>6, <1>7, <1>8
  <2> QED BY <1>3, <1>7, <1>8, <2>1 DEF CreatedAfter
<1> QED BY <1>6, <1>7, <1>8

Seen(s) == s \in page.listed \/ \E t \in page.listed : t # s /\ created[t] = created[s]

(* Between two pages: whoever the reader is owed is listed or still to come. *)
ListInv ==
    /\ \A s \in Sessions : row[s] # "none" => created[s] <= now
    /\ \A s \in page.listed : row[s] # "none"
    /\ page.at = "idle" => page.before = NoCursor
    /\ page.at = "reading" => \A s \in owed : created[s] < page.before \/ Seen(s)
    /\ page.at = "read" => \A s \in owed : Seen(s)

(* PagesAreComplete (main.py list_analyses, stores.py list_sessions): a client that *)
(* follows the cursor misses no analysis that is there all the time, but one        *)
(* created at the instant of another, for any page size.                            *)
THEOREM PagesAreComplete == Spec => []PagesMissNothing
<1>1. Init => ListInv
  BY DEF Init, ListInv
<1>2. TypeOK /\ ListInv /\ [Next]_vars => ListInv'
  <2> SUFFICES ASSUME TypeOK, ListInv, [Next]_vars PROVE ListInv'
    OBVIOUS
  <2> USE DEF ListInv, Seen
  <2>1. ASSUME NEW s \in Sessions, Retain(s) PROVE ListInv'
    <3>1. \A t \in page.listed \cup owed : t # s /\ t \in Sessions
      BY <2>1 DEF Retain, TypeOK, Live
    <3>2. \A t \in page.listed \cup owed : created'[t] = created[t] /\ row'[t] = row[t]
      BY <2>1, <3>1 DEF Retain, TypeOK
    <3>3. UNCHANGED <<page, owed, now>>
      BY <2>1 DEF Retain, reader
    <3>4. \A t \in Sessions : row'[t] # "none" => created'[t] <= now
      BY <2>1, Constants DEF Retain, TypeOK
    <3> QED BY <3>2, <3>3, <3>4
  <2>2. ASSUME NEW s \in Sessions, Gone(s), UNCHANGED now PROVE ListInv'
    BY <2>2 DEF Gone, TypeOK
  <2>3. ASSUME UNCHANGED <<row, created, page, owed, now>> PROVE ListInv'
    BY <2>3
  <2>4. ASSUME NEW w \in Workers, Purge(w) PROVE ListInv'
    <3>1. PICK s \in batch[w] : Gone(s) \/ Stays(s)
      BY <2>4 DEF Purge
    <3>2. UNCHANGED now /\ s \in Sessions
      BY <2>4 DEF Purge, TypeOK
    <3> QED BY <2>2, <2>3, <3>1, <3>2 DEF Stays, rows, reader
  <2>5. CASE Tick
    <3>1. now' \in Nat /\ now \in Nat /\ now <= now'
      BY <2>5, Constants DEF Tick, TypeOK
    <3>2. \A s \in Sessions : created[s] \in Nat
      BY DEF TypeOK
    <3> QED BY <2>5, <3>1, <3>2 DEF Tick, rows, reader
  <2>6. CASE ReadPage
    <3>1. PICK before \in 0..NoCursor :
            /\ IF Page = {} THEN before = page.before
               ELSE before \in {created[s] : s \in Page}
            /\ page' = [at     |-> IF Cardinality(Older) < PageSize THEN "read" ELSE "reading",
                        before |-> before,
                        listed |-> page.listed \cup Page]
      BY <2>6 DEF ReadPage
    <3>2. /\ owed' = IF page.at = "idle" THEN Live ELSE owed
          /\ page.at \in {"idle", "reading"}
          /\ UNCHANGED <<row, created, now>>
      BY <2>6 DEF ReadPage, rows
    <3>3. page'.listed = page.listed \cup Page /\ page'.before = before
      BY <3>1
    <3>4. \A s \in Sessions : created[s] \in Nat
      BY DEF TypeOK
    <3>5. Page \subseteq Older /\ Older \subseteq Live /\ Live \subseteq Sessions
      BY PageIsNext DEF Older, Live
    <3>6. owed' \subseteq Live
      BY <3>2 DEF TypeOK
    <3>7. \A s \in owed' : s \in Older \/ Seen(s)
      <4>1. CASE page.at = "idle"
        <5>1. \A s \in Live : created[s] < page.before
          BY <4>1, <3>4, Constants DEF TypeOK, Live, NoCursor
        <5> QED BY <3>6, <5>1 DEF Older
      <4>2. CASE page.at = "reading"
        BY <3>2, <3>6, <4>2 DEF Older
      <4> QED BY <3>2, <4>1, <4>2
    <3>8. \A s \in owed' : Seen(s) => Seen(s)'
      BY <3>2, <3>3
    <3>9. ASSUME NEW s \in owed', s \in Older \ Page PROVE created[s] < before \/ Seen(s)'
      <4>1. CASE Page = {}
        BY <3>1, <3>9, <4>1 DEF Older
      <4>2. CASE Page # {}
        <5>1. PICK p \in Page : before = created[p]
          BY <3>1, <4>2
        <5>2. created[s] <= created[p] /\ p # s
          BY <3>9, PageIsNext
        <5>3. created[s] \in Nat /\ created[p] \in Nat
          BY <3>4, <3>5, <3>9
        <5> QED BY <3>2, <3>3, <5>1, <5>2, <5>3
      <4> QED BY <4>1, <4>2
    <3>10. \A s \in Page : Seen(s)'
      BY <3>3
    <3>11. page'.at = "reading" => \A s \in owed' : created'[s] < page'.before \/ Seen(s)'
      BY <3>2, <3>3, <3>7, <3>8, <3>9, <3>10
    <3>12. page'.at = "read" => \A s \in owed' : Seen(s)'
      <4>1. page'.at = "read" => Page = Older
        BY <3>1, PageIsNext
      <4> QED BY <4>1, <3>7, <3>8, <3>10
    <3>13. page'.at # "idle"
      BY <3>1
    <3>14. \A s \in page'.listed : row'[s] # "none"
      BY <3>2, <3>3, <3>5 DEF Live
    <3> QED BY <3>2, <3>11, <3>12, <3>13, <3>14
  <2>7. CASE CloseList
    BY <2>7 DEF CloseList, rows
  <2>8. ASSUME NEW s \in Sessions, ClientDelete(s) \/ Lifecycle(s) PROVE ListInv'
    BY <2>2, <2>3, <2>8 DEF ClientDelete, Lifecycle, reader
  <2>9. ASSUME NEW w \in Workers, Wake(w) \/ WakeFails(w) PROVE ListInv'
    BY <2>3, <2>9 DEF Wake, WakeFails, rows, reader
  <2>10. CASE UNCHANGED vars
    BY <2>3, <2>10 DEF vars, rows, reader
  <2> QED BY <2>1, <2>4, <2>5, <2>6, <2>7, <2>8, <2>9, <2>10 DEF Next
<1>3. ListInv => PagesMissNothing
  BY DEF ListInv, Seen, PagesMissNothing
<1> QED BY <1>1, <1>2, <1>3, TypeCorrect, PTL DEF Spec
==============================================================================
