-------------------------- MODULE InferencePoolProofs --------------------------
(***************************************************************************)
(* The pools and the threads of InferencePool, for any number of requests, *)
(* replicas and cancellations.                                             *)
(*                                                                         *)
(* First what each operation does to one queue (Queue(p): no waiter twice, *)
(* none both queued and woken), then to both pools, then PoolInv: waiters  *)
(* wait for the pool they are in, replicas are held by stages that run on  *)
(* them, and what is not held is free.  ThreadInv adds where a thread may  *)
(* be while there was at most one cancellation.                            *)
(***************************************************************************)
EXTENDS InferencePool, SequenceTheorems, FiniteSetTheorems, TLAPS

\* Two pieces put together.
LEMMA Joint ==
    ASSUME NEW S, NEW n \in Nat, NEW k \in 1 .. n, NEW a \in Seq(S), NEW b \in Seq(S),
           Len(a) = k - 1, Len(b) = n - k
    PROVE  /\ a \o b \in Seq(S)
           /\ Len(a \o b) = n - 1
           /\ \A i \in 1 .. n - 1 :
                 /\ i < k => (a \o b)[i] = a[i]
                 /\ i >= k => /\ (a \o b)[i] = b[i - (k - 1)]
                              /\ i - (k - 1) \in 1 .. n - k /\ k + (i - (k - 1)) = i + 1
<1>1. Len(a \o b) = Len(a) + Len(b)
  OBVIOUS
<1>2. Len(a) + Len(b) = n - 1
  OBVIOUS
<1>3. ASSUME NEW i \in 1 .. n - 1, i >= k
      PROVE  i - (k - 1) \in 1 .. n - k /\ k + (i - (k - 1)) = i + 1
  BY <1>3
<1>4. ASSUME NEW i \in 1 .. n - 1, i >= k
      PROVE  (a \o b)[i] = b[i - (k - 1)]
  BY <1>4
<1>5. ASSUME NEW i \in 1 .. n - 1, i < k
      PROVE  (a \o b)[i] = a[i]
  BY <1>5
<1> QED BY <1>1, <1>2, <1>3, <1>4, <1>5

\* Cutting out position k.
LEMMA CutOut ==
    ASSUME NEW S, NEW s \in Seq(S), NEW k \in 1 .. Len(s)
    PROVE  /\ SubSeq(s, 1, k - 1) \in Seq(S) /\ Len(SubSeq(s, 1, k - 1)) = k - 1
           /\ \A i \in 1 .. k - 1 : SubSeq(s, 1, k - 1)[i] = s[i]
           /\ SubSeq(s, k + 1, Len(s)) \in Seq(S) /\ Len(SubSeq(s, k + 1, Len(s))) = Len(s) - k
           /\ \A i \in 1 .. Len(s) - k : SubSeq(s, k + 1, Len(s))[i] = s[k + i]
  OBVIOUS

\* Removing an element that occurs once moves those after it one place to the front.
LEMMA RemoveFirstShifts ==
    ASSUME NEW S, NEW s \in Seq(S), NEW e, NEW k \in 1 .. Len(s), s[k] = e,
           \A i, j \in 1 .. Len(s) : s[i] = s[j] => i = j
    PROVE  /\ RemoveFirst(s, e) \in Seq(S)
           /\ Len(RemoveFirst(s, e)) = Len(s) - 1
           /\ \A i \in 1 .. Len(s) - 1 :
                 /\ i < k => RemoveFirst(s, e)[i] = s[i]
                 /\ i >= k => RemoveFirst(s, e)[i] = s[i + 1]
<1>1. {i \in 1 .. Len(s) : s[i] = e} = {k}
  OBVIOUS
<1>2. SelectInSeq(s, LAMBDA v : v = e) = k
  <2>1. Min({k}) = k
    BY DEF Min
  <2> QED BY <1>1, <2>1 DEF SelectInSeq
<1>3. RemoveFirst(s, e) = SubSeq(s, 1, k - 1) \o SubSeq(s, k + 1, Len(s))
    BY <1>2 DEF RemoveFirst, RemoveAt
<1>4. Len(s) \in Nat
  OBVIOUS
<1>5. ASSUME NEW a \in Seq(S), NEW b \in Seq(S), Len(a) = k - 1, Len(b) = Len(s) - k,
             \A i \in 1 .. k - 1 : a[i] = s[i],
             \A i \in 1 .. Len(s) - k : b[i] = s[k + i]
      PROVE  /\ a \o b \in Seq(S) /\ Len(a \o b) = Len(s) - 1
             /\ \A i \in 1 .. Len(s) - 1 :
                 /\ i < k => (a \o b)[i] = s[i]
                 /\ i >= k => (a \o b)[i] = s[i + 1]
  <2>1. /\ a \o b \in Seq(S) /\ Len(a \o b) = Len(s) - 1
        /\ \A i \in 1 .. Len(s) - 1 :
                 /\ i < k => (a \o b)[i] = a[i]
                 /\ i >= k => /\ (a \o b)[i] = b[i - (k - 1)]
                              /\ i - (k - 1) \in 1 .. Len(s) - k /\ k + (i - (k - 1)) = i + 1
    BY <1>4, <1>5, Joint
  <2>2. ASSUME NEW i \in 1 .. Len(s) - 1, i < k PROVE (a \o b)[i] = s[i]
    <3>1. i \in 1 .. k - 1
      BY <2>2
    <3> QED BY <2>1, <2>2, <3>1, <1>5, Zenon
  <2>3. ASSUME NEW i \in 1 .. Len(s) - 1, i >= k PROVE (a \o b)[i] = s[i + 1]
    <3>1. (a \o b)[i] = b[i - (k - 1)] /\ i - (k - 1) \in 1 .. Len(s) - k
          /\ k + (i - (k - 1)) = i + 1
      BY <2>1, <2>3, Zenon
    <3> QED BY <3>1, <1>5, Zenon
  <2> QED BY <2>1, <2>2, <2>3, Zenon
<1>6. /\ SubSeq(s, 1, k - 1) \in Seq(S) /\ Len(SubSeq(s, 1, k - 1)) = k - 1
      /\ \A i \in 1 .. k - 1 : SubSeq(s, 1, k - 1)[i] = s[i]
      /\ SubSeq(s, k + 1, Len(s)) \in Seq(S) /\ Len(SubSeq(s, k + 1, Len(s))) = Len(s) - k
      /\ \A i \in 1 .. Len(s) - k : SubSeq(s, k + 1, Len(s))[i] = s[k + i]
  BY CutOut, Zenon
<1>7. LET c == SubSeq(s, 1, k - 1) \o SubSeq(s, k + 1, Len(s))
      IN  /\ c \in Seq(S) /\ Len(c) = Len(s) - 1
          /\ \A i \in 1 .. Len(s) - 1 :
                 /\ i < k => c[i] = s[i]
                 /\ i >= k => c[i] = s[i + 1]
  BY <1>5, <1>6, Zenon
<1> QED BY <1>3, <1>7, Zenon
-------------------------------------------------------------------------------
Queued(q) == {q.getters[i] : i \in 1 .. Len(q.getters)}
Members(q) == Queued(q) \cup q.woken \cup q.asking

\* No waiter is in the queue twice, or both in the queue and about to run.
QueueOK(q) ==
    /\ \A i, j \in 1 .. Len(q.getters) : q.getters[i] = q.getters[j] => i = j
    /\ Queued(q) \cap (q.woken \cup q.asking) = {}
    /\ IsFiniteSet(q.free) /\ IsFiniteSet(q.woken)

\* NoLostWakeup, of one pool.
Wakeful(q) == q.getters # <<>> => Cardinality(q.free) <= Cardinality(q.woken)

Queue(p) == {q \in PoolType(p) : QueueOK(q)}

\* An element that is not there is not removed.
LEMMA RemoveFirstAbsent ==
    ASSUME NEW s, NEW e, \A i \in 1 .. Len(s) : s[i] # e
    PROVE  RemoveFirst(s, e) = s
<1>1. {i \in 1 .. Len(s) : s[i] = e} = {}
  OBVIOUS
<1>2. SelectInSeq(s, LAMBDA v : v = e) = 0
  BY <1>1 DEF SelectInSeq
<1> QED BY <1>2 DEF RemoveFirst

\* Waking the first waiter.
LEMMA WakeNextQueue ==
    ASSUME NEW p \in Pools, NEW q \in Queue(p)
    PROVE  /\ WakeNext(q) \in Queue(p)
           /\ WakeNext(q).free = q.free
           /\ Members(WakeNext(q)) = Members(q)
           /\ WakeNext(q).getters # <<>> => q.getters # <<>>
           /\ q.getters # <<>> =>
                 Cardinality(WakeNext(q).woken) = Cardinality(q.woken) + 1
<1>1. CASE q.getters = <<>>
  BY <1>1 DEF WakeNext
<1>2. CASE q.getters # <<>>
  <2> DEFINE g == q.getters
             h == Head(g)
             w == WakeNext(q)
  <2>1. /\ g \in Seq(Requests) /\ q.woken \in SUBSET Requests
        /\ q.asking \in SUBSET Requests /\ q.free \in SUBSET Estimators(p)
    BY DEF Queue, PoolType
  <2>2. /\ Len(g) \in Nat /\ Len(g) >= 1 /\ h = g[1] /\ h \in Requests
        /\ Tail(g) \in Seq(Requests) /\ Len(Tail(g)) = Len(g) - 1
        /\ \A i \in 1 .. Len(g) - 1 : Tail(g)[i] = g[i + 1]
    BY <1>2, <2>1
  <2>3. w = [free |-> q.free, getters |-> Tail(g), woken |-> q.woken \cup {h},
             asking |-> q.asking]
    BY <1>2 DEF WakeNext, Queue, PoolType
  <2>4. /\ \A i, j \in 1 .. Len(g) : g[i] = g[j] => i = j
        /\ Queued(q) \cap (q.woken \cup q.asking) = {}
        /\ IsFiniteSet(q.free) /\ IsFiniteSet(q.woken)
    BY DEF Queue, QueueOK
  <2>5. Queued(q) = {h} \cup Queued(w) /\ h \notin Queued(w)
    <3>1. Queued(w) = {Tail(g)[i] : i \in 1 .. Len(g) - 1}
      BY <2>2, <2>3 DEF Queued
    <3>2. Queued(w) \subseteq Queued(q) /\ h \notin Queued(w)
      <4>1. \A i \in 1 .. Len(g) - 1 : i + 1 \in 1 .. Len(g) /\ i + 1 # 1
        BY <2>2
      <4>2. 1 \in 1 .. Len(g)
        BY <2>2
      <4> HIDE DEF g, h, w
      <4>3. \A i \in 1 .. Len(g) - 1 : Tail(g)[i] = g[i + 1] /\ g[i + 1] # h
        BY <2>2, <2>4, <4>1, <4>2
      <4>4. \A i \in 1 .. Len(g) - 1 : g[i + 1] \in Queued(q)
        BY <4>1 DEF Queued, g
      <4> QED BY <3>1, <4>3, <4>4
    <3>3. ASSUME NEW i \in 1 .. Len(g), i # 1 PROVE g[i] \in Queued(w)
      <4>1. i - 1 \in 1 .. Len(g) - 1 /\ (i - 1) + 1 = i
        BY <2>2, <3>3
      <4> QED BY <2>2, <3>1, <4>1
    <3>4. h \in Queued(q)
      BY <2>2 DEF Queued
    <3> QED BY <2>2, <3>2, <3>3, <3>4 DEF Queued
  <2>6. h \notin q.woken
    BY <2>4, <2>5
  <2>7. IsFiniteSet(w.woken) /\ Cardinality(w.woken) = Cardinality(q.woken) + 1
    BY <2>3, <2>4, <2>6, FS_AddElement
  <2>8. \A i, j \in 1 .. Len(w.getters) : w.getters[i] = w.getters[j] => i = j
    <3>1. w.getters = Tail(g)
      BY <2>3
    <3>2. \A i, j \in 1 .. Len(g) - 1 :
             i + 1 \in 1 .. Len(g) /\ j + 1 \in 1 .. Len(g) /\ (i + 1 = j + 1 => i = j)
      BY <2>2
    <3>3. \A i, j \in 1 .. Len(g) - 1 : Tail(g)[i] = Tail(g)[j] => i = j
      <4> HIDE DEF g, h, w
      <4> QED BY <2>2, <2>4, <3>2, Zenon
    <3> QED BY <2>2, <3>1, <3>3
  <2>9. h \notin q.asking
    BY <2>4, <2>5
  <2>10. w \in PoolType(p) /\ QueueOK(w)
    <3>1. w \in PoolType(p)
      BY <2>1, <2>2, <2>3 DEF PoolType
    <3>2. w.woken = q.woken \cup {h} /\ w.asking = q.asking
      BY <2>3
    <3>3. Queued(w) \cap (w.woken \cup w.asking) = {}
      <4> HIDE DEF g, h, w
      <4> QED BY <2>4, <2>5, <3>2
    <3>4. w.free = q.free
      BY <2>3
    <3> HIDE DEF g, h, w
    <3> QED BY <2>3, <2>4, <2>7, <2>8, <3>1, <3>3, <3>4 DEF QueueOK
  <2>11. Members(w) = Members(q)
    <3>1. w.woken = q.woken \cup {h} /\ w.asking = q.asking
      BY <2>3
    <3> HIDE DEF g, h, w
    <3> QED BY <2>5, <3>1 DEF Members
  <2>12. w \in Queue(p)
    BY <2>10 DEF Queue
  <2>13. w.free = q.free
    BY <2>3
  <2> QED BY <1>2, <2>7, <2>11, <2>12, <2>13
<1> QED BY <1>1, <1>2

\* What a release does to a queue.
LEMMA PutQueue ==
    ASSUME NEW p \in Pools, NEW q \in Queue(p), NEW x \in Estimators(p)
    PROVE  /\ Put(q, x) \in Queue(p)
           /\ Put(q, x).free = q.free \cup {x}
           /\ Members(Put(q, x)) = Members(q)
           /\ Wakeful(q) => Wakeful(Put(q, x))
<1> DEFINE b == [q EXCEPT !.free = @ \cup {x}]
<1>1. /\ b = [free |-> q.free \cup {x}, getters |-> q.getters, woken |-> q.woken,
              asking |-> q.asking]
      /\ q.free \in SUBSET Estimators(p)
  <2>1. q \in PoolType(p)
    BY DEF Queue
  <2>2. /\ q = [free |-> q.free, getters |-> q.getters, woken |-> q.woken,
                asking |-> q.asking]
        /\ q.free \in SUBSET Estimators(p)
    BY <2>1 DEF PoolType
  <2> QED BY <2>2
<1>2. /\ b.free = q.free \cup {x} /\ b.getters = q.getters
      /\ b.woken = q.woken /\ b.asking = q.asking
  BY <1>1
<1>3. IsFiniteSet(q.free) /\ IsFiniteSet(q.free \cup {x}) /\ IsFiniteSet(q.woken)
  BY FS_AddElement DEF Queue, QueueOK
<1>4. b \in Queue(p)
  <2>1. b \in PoolType(p)
    BY <1>1 DEF Queue, PoolType
  <2>2. QueueOK(b)
    <3> HIDE DEF b
    <3>1. Queued(b) = Queued(q)
      BY <1>2 DEF Queued
    <3> QED BY <1>2, <1>3, <3>1 DEF Queue, QueueOK
  <2> QED BY <2>1, <2>2 DEF Queue
<1>5. Put(q, x) = WakeNext(b)
  BY DEF Put
<1> HIDE DEF b
<1>6. Members(b) = Members(q)
  BY <1>2 DEF Members, Queued
<1>7. ASSUME Wakeful(q), WakeNext(b).getters # <<>>
      PROVE  Cardinality(WakeNext(b).free) <= Cardinality(WakeNext(b).woken)
  <2>1. q.getters # <<>> /\ Cardinality(WakeNext(b).woken) = Cardinality(q.woken) + 1
    BY <1>2, <1>4, <1>7, WakeNextQueue
  <2>2. Cardinality(q.free) <= Cardinality(q.woken)
    BY <1>7, <2>1 DEF Wakeful
  <2>3. Cardinality(q.free \cup {x}) <= Cardinality(q.free) + 1
    <3>1. Cardinality(q.free) \in Nat
      BY <1>3, FS_CardinalityType
    <3>2. Cardinality(q.free \cup {x}) \in {Cardinality(q.free), Cardinality(q.free) + 1}
      BY <1>3, FS_AddElement
    <3> QED BY <3>1, <3>2
  <2>4. WakeNext(b).free = q.free \cup {x}
    BY <1>2, <1>4, WakeNextQueue
  <2>5. /\ Cardinality(q.free) \in Nat /\ Cardinality(q.woken) \in Nat
        /\ Cardinality(q.free \cup {x}) \in Nat
    BY <1>3, FS_CardinalityType
  <2> QED BY <2>1, <2>2, <2>3, <2>4, <2>5
<1>8. Wakeful(q) => Wakeful(WakeNext(b))
  BY <1>7 DEF Wakeful
<1>9. /\ WakeNext(b) \in Queue(p) /\ WakeNext(b).free = b.free
      /\ Members(WakeNext(b)) = Members(b)
  BY <1>4, WakeNextQueue
<1> QED BY <1>2, <1>5, <1>6, <1>8, <1>9

\* What the end of a wait does to a queue: the waiter is gone, and no wake-up with it.
LEMMA WithdrawQueue ==
    ASSUME NEW p \in Pools, NEW q \in Queue(p), NEW r \in Requests
    PROVE  /\ Withdraw(q, r) \in Queue(p)
           /\ Withdraw(q, r).free = q.free
           /\ Members(Withdraw(q, r)) = Members(q) \ {r}
           /\ Wakeful(q) => Wakeful(Withdraw(q, r))
<1> DEFINE gone == [free |-> q.free, getters |-> RemoveFirst(q.getters, r),
                    woken |-> q.woken \ {r}, asking |-> q.asking \ {r}]
           g == q.getters
<1>1. /\ g \in Seq(Requests) /\ q.woken \in SUBSET Requests
      /\ q.asking \in SUBSET Requests /\ q.free \in SUBSET Estimators(p)
  BY DEF Queue, PoolType
<1>2. gone = [free |-> q.free, getters |-> RemoveFirst(g, r), woken |-> q.woken \ {r},
              asking |-> q.asking \ {r}]
  OBVIOUS
<1>3. /\ gone.free = q.free /\ gone.getters = RemoveFirst(g, r)
      /\ gone.woken = q.woken \ {r} /\ gone.asking = q.asking \ {r}
  BY <1>2
<1>4. /\ \A i, j \in 1 .. Len(g) : g[i] = g[j] => i = j
      /\ Queued(q) \cap (q.woken \cup q.asking) = {}
      /\ IsFiniteSet(q.free) /\ IsFiniteSet(q.woken)
  BY DEF Queue, QueueOK
<1>5. /\ RemoveFirst(g, r) \in Seq(Requests)
      /\ \A i, j \in 1 .. Len(RemoveFirst(g, r)) :
            RemoveFirst(g, r)[i] = RemoveFirst(g, r)[j] => i = j
      /\ Queued(gone) = Queued(q) \ {r}
      /\ r \notin Queued(q) => RemoveFirst(g, r) = g
      /\ RemoveFirst(g, r) # <<>> => g # <<>>
  <2>1. Queued(gone) = {RemoveFirst(g, r)[i] : i \in 1 .. Len(RemoveFirst(g, r))}
    BY <1>3 DEF Queued
  <2>2. CASE r \notin Queued(q)
    <3>1. \A i \in 1 .. Len(g) : g[i] # r
      BY <2>2 DEF Queued
    <3>2. RemoveFirst(g, r) = g
      BY <3>1, RemoveFirstAbsent
    <3>3. Queued(gone) = Queued(q)
      BY <2>1, <3>2 DEF Queued
    <3> QED BY <1>1, <1>4, <2>2, <3>2, <3>3
  <2>3. ASSUME NEW k \in 1 .. Len(g), g[k] = r
        PROVE  /\ RemoveFirst(g, r) \in Seq(Requests)
               /\ \A i, j \in 1 .. Len(RemoveFirst(g, r)) :
                     RemoveFirst(g, r)[i] = RemoveFirst(g, r)[j] => i = j
               /\ Queued(gone) = Queued(q) \ {r}
               /\ r \in Queued(q) /\ g # <<>>
    <3> DEFINE f == RemoveFirst(g, r)
               to(i) == IF i < k THEN i ELSE i + 1
    <3>1. /\ f \in Seq(Requests) /\ Len(f) = Len(g) - 1
          /\ \A i \in 1 .. Len(g) - 1 :
                (i < k => f[i] = g[i]) /\ (i >= k => f[i] = g[i + 1])
      <4> HIDE DEF g
      <4>1. g \in Seq(Requests)
        BY <1>1
      <4>2. \A i, j \in 1 .. Len(g) : g[i] = g[j] => i = j
        BY <1>4
      <4>3. g[k] = r
        BY <2>3
      <4>4. /\ RemoveFirst(g, r) \in Seq(Requests)
            /\ Len(RemoveFirst(g, r)) = Len(g) - 1
            /\ \A i \in 1 .. Len(g) - 1 :
                 /\ i < k => RemoveFirst(g, r)[i] = g[i]
                 /\ i >= k => RemoveFirst(g, r)[i] = g[i + 1]
        BY <4>1, <4>2, <4>3, RemoveFirstShifts
      <4> QED BY <4>4
    <3>2. Len(g) \in Nat
      BY <1>1
    <3>3. \A i \in 1 .. Len(g) - 1 : to(i) \in 1 .. Len(g) /\ to(i) # k
      BY <3>2
    <3>4. \A i, j \in 1 .. Len(g) - 1 : to(i) = to(j) => i = j
      BY <3>2
    <3>5. \A j \in 1 .. Len(g) : j # k => \E i \in 1 .. Len(g) - 1 : j = to(i)
      <4>1. TAKE j \in 1 .. Len(g)
      <4>2. HAVE j # k
      <4>3. CASE j < k
        <5>1. j \in 1 .. Len(g) - 1 /\ j = to(j)
          BY <3>2, <4>3
        <5> QED BY <5>1
      <4>4. CASE j > k
        <5>1. j - 1 \in 1 .. Len(g) - 1 /\ j = to(j - 1)
          BY <3>2, <4>4
        <5> QED BY <5>1
      <4> QED BY <3>2, <4>2, <4>3, <4>4
    <3>6. \A i \in 1 .. Len(g) - 1 : f[i] = g[to(i)]
      <4>1. TAKE i \in 1 .. Len(g) - 1
      <4>2. i < k \/ i >= k
        BY <3>2
      <4>3. CASE i < k
        BY <3>1, <4>3
      <4>4. CASE i >= k
        <5>1. ~(i < k)
          BY <3>2, <4>4
        <5> QED BY <3>1, <4>4, <5>1
      <4> QED BY <4>2, <4>3, <4>4
    <3>7. f = RemoveFirst(g, r)
      OBVIOUS
    <3> HIDE DEF to, f, gone, g
    <3>8. \A i, j \in 1 .. Len(f) : f[i] = f[j] => i = j
      BY <1>4, <3>1, <3>3, <3>4, <3>6
    <3>9. Queued(q) = {g[j] : j \in 1 .. Len(g)}
      BY DEF Queued, g
    <3>10. Queued(gone) = {f[i] : i \in 1 .. Len(g) - 1}
      BY <2>1, <3>1, <3>7
    <3>11. ASSUME NEW e \in Queued(gone) PROVE e \in Queued(q) /\ e # r
      <4>1. PICK i \in 1 .. Len(g) - 1 : e = g[to(i)]
        BY <3>6, <3>10
      <4> QED BY <1>4, <2>3, <3>3, <3>9, <4>1
    <3>12. ASSUME NEW e \in Queued(q), e # r PROVE e \in Queued(gone)
      <4>1. PICK j \in 1 .. Len(g) : e = g[j]
        BY <3>9
      <4>2. j # k
        BY <2>3, <3>12, <4>1
      <4>3. PICK i \in 1 .. Len(g) - 1 : j = to(i)
        BY <3>5, <4>2
      <4> QED BY <3>6, <3>10, <4>1, <4>3
    <3>13. r \in Queued(q)
      BY <2>3, <3>9
    <3>14. g # <<>>
      BY <2>3
    <3> QED BY <3>1, <3>7, <3>8, <3>11, <3>12, <3>13, <3>14
  <2>4. CASE r \in Queued(q)
    <3>1. PICK k \in 1 .. Len(g) : g[k] = r
      BY <2>4 DEF Queued
    <3> HIDE DEF gone, g
    <3> QED BY <2>3, <3>1, <2>4
  <2> QED BY <2>2, <2>4
<1> HIDE DEF gone, g
<1>6. Members(gone) = Members(q) \ {r}
  BY <1>3, <1>5 DEF Members
<1>7. gone \in Queue(p)
  <2>1. gone \in PoolType(p)
    <3>1. /\ q.free \in SUBSET Estimators(p) /\ RemoveFirst(g, r) \in Seq(Requests)
          /\ q.woken \ {r} \in SUBSET Requests /\ q.asking \ {r} \in SUBSET Requests
      BY <1>1, <1>5
    <3> QED BY <1>2, <3>1 DEF PoolType
  <2>2. IsFiniteSet(gone.woken)
    <3>1. IsFiniteSet(q.woken)
      BY <1>4
    <3>2. IsFiniteSet(q.woken \ {r})
      BY <3>1, FS_RemoveElement, Zenon
    <3> QED BY <1>3, <3>2
  <2>3. QueueOK(gone)
    BY <1>3, <1>4, <1>5, <2>2 DEF QueueOK
  <2> QED BY <2>1, <2>3 DEF Queue
<1>8. CASE r \in q.woken /\ q.free # {}
  <2>1. Withdraw(q, r) = WakeNext(gone)
    BY <1>8 DEF Withdraw, gone
  <2>2. r \notin Queued(q) /\ gone.getters = g
    BY <1>3, <1>4, <1>5, <1>8
  <2>3. Cardinality(gone.woken) = Cardinality(q.woken) - 1
    BY <1>3, <1>4, <1>8, FS_RemoveElement
  <2>4. Cardinality(q.woken) \in Nat
    BY <1>4, FS_CardinalityType
  <2>5. /\ WakeNext(gone) \in Queue(p) /\ WakeNext(gone).free = gone.free
        /\ Members(WakeNext(gone)) = Members(gone)
        /\ WakeNext(gone).getters # <<>> => gone.getters # <<>>
        /\ gone.getters # <<>> =>
              Cardinality(WakeNext(gone).woken) = Cardinality(gone.woken) + 1
    BY <1>7, WakeNextQueue
  <2>6. ASSUME Wakeful(q), WakeNext(gone).getters # <<>>
        PROVE  Cardinality(WakeNext(gone).free) <= Cardinality(WakeNext(gone).woken)
    <3>1. Cardinality(WakeNext(gone).woken) = Cardinality(q.woken)
      BY <2>3, <2>4, <2>5, <2>6
    <3>2. Cardinality(q.free) <= Cardinality(q.woken)
      BY <2>2, <2>5, <2>6 DEF Wakeful, g
    <3> QED BY <1>3, <2>5, <3>1, <3>2
  <2> QED BY <1>3, <1>6, <2>1, <2>5, <2>6 DEF Wakeful
<1>9. CASE ~(r \in q.woken /\ q.free # {})
  <2>1. Withdraw(q, r) = gone
    BY <1>9 DEF Withdraw, gone
  <2>2. ASSUME Wakeful(q), gone.getters # <<>>
        PROVE  Cardinality(gone.free) <= Cardinality(gone.woken)
    <3>1. g # <<>> /\ Cardinality(q.free) <= Cardinality(q.woken)
      BY <1>3, <1>5, <2>2 DEF Wakeful, g
    <3>2. CASE r \notin q.woken
      <4>1. gone.woken = q.woken
        BY <1>3, <3>2
      <4> QED BY <1>3, <3>1, <4>1
    <3>3. CASE q.free = {}
      <4>1. Cardinality(gone.free) = 0
        BY <1>3, <3>3, FS_EmptySet
      <4>2. Cardinality(gone.woken) \in Nat
        BY <1>3, <1>4, FS_RemoveElement, FS_CardinalityType
      <4> QED BY <4>1, <4>2
    <3> QED BY <1>9, <3>2, <3>3
  <2> QED BY <1>3, <1>6, <1>7, <2>1, <2>2 DEF Wakeful
<1> QED BY <1>8, <1>9

\* A queue whose waiters are unchanged and that has one replica less.
LEMMA TakeQueue ==
    ASSUME NEW p \in Pools, NEW q \in Queue(p), NEW x \in q.free
    PROVE  LET b == [q EXCEPT !.free = @ \ {x}] IN
           /\ b \in Queue(p) /\ b.free = q.free \ {x} /\ Members(b) = Members(q)
           /\ Wakeful(q) => Wakeful(b)
<1> DEFINE b == [q EXCEPT !.free = @ \ {x}]
<1>0. q = [free |-> q.free, getters |-> q.getters, woken |-> q.woken, asking |-> q.asking]
  <2>1. q \in PoolType(p)
    BY DEF Queue
  <2> QED BY <2>1 DEF PoolType
<1>1. /\ q.free \in SUBSET Estimators(p) /\ q.getters \in Seq(Requests)
      /\ q.woken \in SUBSET Requests /\ q.asking \in SUBSET Requests
  BY DEF Queue, PoolType
<1>2. b = [free |-> q.free \ {x}, getters |-> q.getters, woken |-> q.woken,
           asking |-> q.asking]
  BY <1>0
<1>3. /\ b.free = q.free \ {x} /\ b.getters = q.getters
      /\ b.woken = q.woken /\ b.asking = q.asking
  BY <1>2
<1>4. IsFiniteSet(q.free) /\ IsFiniteSet(q.woken)
  BY DEF Queue, QueueOK
<1>5. IsFiniteSet(q.free \ {x}) /\ Cardinality(q.free \ {x}) = Cardinality(q.free) - 1
  BY <1>4, FS_RemoveElement
<1>6. b \in PoolType(p)
  BY <1>1, <1>2 DEF PoolType
<1> HIDE DEF b
<1>7. QueueOK(b)
  <2>1. Queued(b) = Queued(q)
    BY <1>3 DEF Queued
  <2> QED BY <1>3, <1>4, <1>5, <2>1 DEF Queue, QueueOK
<1>8. Members(b) = Members(q)
  BY <1>3 DEF Members, Queued
<1>9. Wakeful(q) => Wakeful(b)
  <2>1. Cardinality(q.free) \in Nat /\ Cardinality(q.woken) \in Nat
    BY <1>4, FS_CardinalityType
  <2> QED BY <1>3, <1>5, <2>1 DEF Wakeful
<1>10. b \in Queue(p)
  BY <1>6, <1>7 DEF Queue
<1> QED BY <1>3, <1>8, <1>9, <1>10 DEF b

\* A new waiter, which comes only when there is no free replica.
LEMMA AskQueue ==
    ASSUME NEW p \in Pools, NEW q \in Queue(p), NEW r \in Requests,
           r \notin Members(q), q.free = {}
    PROVE  LET b == [q EXCEPT !.asking = @ \cup {r}] IN
           /\ b \in Queue(p) /\ b.free = q.free /\ Members(b) = Members(q) \cup {r}
           /\ Wakeful(b)
<1> DEFINE b == [q EXCEPT !.asking = @ \cup {r}]
<1>0. q = [free |-> q.free, getters |-> q.getters, woken |-> q.woken, asking |-> q.asking]
  <2>1. q \in PoolType(p)
    BY DEF Queue
  <2> QED BY <2>1 DEF PoolType
<1>1. /\ q.free \in SUBSET Estimators(p) /\ q.getters \in Seq(Requests)
      /\ q.woken \in SUBSET Requests /\ q.asking \in SUBSET Requests
  BY DEF Queue, PoolType
<1>2. b = [free |-> q.free, getters |-> q.getters, woken |-> q.woken,
           asking |-> q.asking \cup {r}]
  BY <1>0
<1>3. /\ b.free = q.free /\ b.getters = q.getters
      /\ b.woken = q.woken /\ b.asking = q.asking \cup {r}
  BY <1>2
<1>4. b \in PoolType(p)
  BY <1>1, <1>2 DEF PoolType
<1> HIDE DEF b
<1>5. Queued(b) = Queued(q)
  BY <1>3 DEF Queued
<1>6. QueueOK(b)
  BY <1>3, <1>5 DEF Queue, QueueOK, Members
<1>7. Members(b) = Members(q) \cup {r}
  BY <1>3, <1>5 DEF Members
<1>8. Wakeful(b)
  <2>1. Cardinality(b.free) = 0
    BY <1>3, FS_EmptySet
  <2>2. Cardinality(b.woken) \in Nat
    BY <1>3, <1>6, FS_CardinalityType DEF QueueOK
  <2> QED BY <2>1, <2>2 DEF Wakeful
<1>9. b \in Queue(p)
  BY <1>4, <1>6 DEF Queue
<1> QED BY <1>3, <1>7, <1>8, <1>9 DEF b

\* A waiter that runs in vain queues up.
LEMMA PollQueue ==
    ASSUME NEW p \in Pools, NEW q \in Queue(p), NEW r \in q.asking \cup q.woken
    PROVE  LET s == [q EXCEPT !.asking = @ \ {r}, !.woken = @ \ {r}]
               b == [s EXCEPT !.getters = Append(@, r)]
           IN  /\ s.free = q.free
               /\ s.free = {} =>
                     /\ b \in Queue(p) /\ b.free = q.free /\ Members(b) = Members(q)
                     /\ Wakeful(b)
<1> DEFINE s == [q EXCEPT !.asking = @ \ {r}, !.woken = @ \ {r}]
<1>0. q = [free |-> q.free, getters |-> q.getters, woken |-> q.woken, asking |-> q.asking]
  <2>1. q \in PoolType(p)
    BY DEF Queue
  <2> QED BY <2>1 DEF PoolType
<1>1. /\ q.free \in SUBSET Estimators(p) /\ q.getters \in Seq(Requests)
      /\ q.woken \in SUBSET Requests /\ q.asking \in SUBSET Requests
  BY DEF Queue, PoolType
<1>2. s = [free |-> q.free, getters |-> q.getters, woken |-> q.woken \ {r},
           asking |-> q.asking \ {r}]
  <2> DEFINE y == [q EXCEPT !.asking = @ \ {r}]
  <2>1. y = [free |-> q.free, getters |-> q.getters, woken |-> q.woken,
             asking |-> q.asking \ {r}]
    BY <1>0
  <2>2. s = [y EXCEPT !.woken = q.woken \ {r}]
    OBVIOUS
  <2> HIDE DEF y, s
  <2> QED BY <2>1, <2>2
<1>3. /\ s.free = q.free /\ s.getters = q.getters
      /\ s.woken = q.woken \ {r} /\ s.asking = q.asking \ {r}
  BY <1>2
<1>4. /\ \A i, j \in 1 .. Len(q.getters) : q.getters[i] = q.getters[j] => i = j
      /\ Queued(q) \cap (q.woken \cup q.asking) = {}
      /\ IsFiniteSet(q.free) /\ IsFiniteSet(q.woken)
  BY DEF Queue, QueueOK
<1>5. /\ IsFiniteSet(s.woken) /\ Cardinality(s.woken) \in Nat
      /\ Cardinality(q.woken) \in Nat /\ Cardinality(q.woken) - 1 <= Cardinality(s.woken)
  <2>1. IsFiniteSet(q.woken) /\ Cardinality(q.woken) \in Nat
    BY <1>4, FS_CardinalityType
  <2>2. IsFiniteSet(s.woken) /\ Cardinality(s.woken) \in Nat
    <3>1. IsFiniteSet(q.woken \ {r})
      BY <2>1, FS_RemoveElement, Zenon
    <3> QED BY <1>3, <3>1, FS_CardinalityType
  <2>3. Cardinality(s.woken) \in {Cardinality(q.woken) - 1, Cardinality(q.woken)}
    BY <1>3, <2>1, FS_RemoveElement
  <2> QED BY <2>1, <2>2, <2>3
<1> HIDE DEF s
<1>6. ASSUME s.free = {}
      PROVE  LET b == [s EXCEPT !.getters = Append(@, r)] IN
             /\ b \in Queue(p) /\ b.free = q.free /\ Members(b) = Members(q)
             /\ Wakeful(b)
  <2> DEFINE b == [s EXCEPT !.getters = Append(@, r)]
             g == q.getters
             h == Append(g, r)
  <2>1. b = [free |-> q.free, getters |-> h, woken |-> q.woken \ {r},
             asking |-> q.asking \ {r}]
    <3>1. b = [s EXCEPT !.getters = h]
      BY <1>3
    <3> HIDE DEF b, h
    <3> QED BY <1>2, <3>1
  <2>2. /\ b.free = q.free /\ b.getters = h
        /\ b.woken = q.woken \ {r} /\ b.asking = q.asking \ {r}
    BY <2>1
  <2>3. /\ h \in Seq(Requests) /\ Len(g) \in Nat /\ Len(h) = Len(g) + 1
        /\ \A i \in 1 .. Len(g) : h[i] = g[i]
        /\ h[Len(g) + 1] = r
    BY <1>1
  <2>4. b \in PoolType(p)
    BY <1>1, <2>1, <2>3 DEF PoolType
  <2> HIDE DEF b, h, g
  <2>5. Queued(q) = {g[i] : i \in 1 .. Len(g)}
    BY DEF Queued, g
  <2>6. Queued(b) = Queued(q) \cup {r}
    <3>1. Queued(b) = {h[i] : i \in 1 .. Len(g) + 1}
      BY <2>2, <2>3 DEF Queued
    <3>2. 1 .. Len(g) + 1 = (1 .. Len(g)) \cup {Len(g) + 1}
      BY <2>3
    <3> QED BY <2>3, <2>5, <3>1, <3>2
  <2>7. r \notin Queued(q)
    BY <1>4
  <2>8. \A i, j \in 1 .. Len(b.getters) : b.getters[i] = b.getters[j] => i = j
    <3>1. \A i \in 1 .. Len(g) : h[i] \in Queued(q)
      BY <2>3, <2>5
    <3>2. \A i, j \in 1 .. Len(g) : h[i] = h[j] => i = j
      BY <1>4, <2>3 DEF g
    <3>3. \A i \in 1 .. Len(g) + 1 : i \in 1 .. Len(g) \/ i = Len(g) + 1
      BY <2>3
    <3>4. \A i, j \in 1 .. Len(g) + 1 : h[i] = h[j] => i = j
      BY <2>3, <2>7, <3>1, <3>2, <3>3, Zenon
    <3> QED BY <2>2, <2>3, <3>4
  <2>9. QueueOK(b)
    <3>1. IsFiniteSet(b.woken) /\ IsFiniteSet(b.free)
      BY <1>3, <1>4, <1>5, <2>2
    <3>2. Queued(b) \cap (b.woken \cup b.asking) = {}
      BY <1>4, <2>2, <2>6
    <3> QED BY <2>8, <3>1, <3>2 DEF QueueOK
  <2>10. Members(b) = Members(q)
    BY <2>2, <2>6 DEF Members
  <2>11. Wakeful(b)
    <3>1. Cardinality(b.free) = 0
      BY <1>3, <1>6, <2>2, FS_EmptySet
    <3>2. Cardinality(b.woken) \in Nat
      BY <1>3, <1>5, <2>2
    <3> QED BY <3>1, <3>2 DEF Wakeful
  <2>12. b \in Queue(p)
    BY <2>4, <2>9 DEF Queue
  <2> QED BY <2>2, <2>10, <2>11, <2>12 DEF b
<1> QED BY <1>3, <1>6 DEF s

\* A waiter that runs and finds a replica goes with it.
LEMMA GrantQueue ==
    ASSUME NEW p \in Pools, NEW q \in Queue(p), NEW r \in q.asking \cup q.woken,
           NEW x \in q.free
    PROVE  LET c == [free |-> q.free \ {x}, getters |-> q.getters,
                     woken |-> q.woken \ {r}, asking |-> q.asking \ {r}]
           IN  /\ c \in Queue(p) /\ Members(c) = Members(q) \ {r}
               /\ Wakeful(q) => Wakeful(c)
<1> DEFINE c == [free |-> q.free \ {x}, getters |-> q.getters,
                 woken |-> q.woken \ {r}, asking |-> q.asking \ {r}]
<1>1. /\ q.free \in SUBSET Estimators(p) /\ q.getters \in Seq(Requests)
      /\ q.woken \in SUBSET Requests /\ q.asking \in SUBSET Requests
  BY DEF Queue, PoolType
<1>2. /\ c.free = q.free \ {x} /\ c.getters = q.getters
      /\ c.woken = q.woken \ {r} /\ c.asking = q.asking \ {r}
  OBVIOUS
<1>3. c \in PoolType(p)
  BY <1>1 DEF PoolType
<1>4. /\ \A i, j \in 1 .. Len(q.getters) : q.getters[i] = q.getters[j] => i = j
      /\ Queued(q) \cap (q.woken \cup q.asking) = {}
      /\ IsFiniteSet(q.free) /\ IsFiniteSet(q.woken)
  BY DEF Queue, QueueOK
<1>5. /\ IsFiniteSet(q.free \ {x})
      /\ Cardinality(q.free \ {x}) = Cardinality(q.free) - 1
  BY <1>4, FS_RemoveElement
<1>6. /\ IsFiniteSet(q.woken \ {r})
      /\ Cardinality(q.woken \ {r}) \in {Cardinality(q.woken) - 1, Cardinality(q.woken)}
  BY <1>4, FS_RemoveElement
<1> HIDE DEF c
<1>7. Queued(c) = Queued(q)
  BY <1>2 DEF Queued
<1>8. QueueOK(c)
  <2>1. Queued(c) \cap (c.woken \cup c.asking) = {}
    BY <1>2, <1>4, <1>7
  <2> QED BY <1>2, <1>4, <1>5, <1>6, <2>1 DEF QueueOK
<1>9. Members(c) = Members(q) \ {r}
  BY <1>2, <1>4, <1>7 DEF Members
<1>10. Wakeful(q) => Wakeful(c)
  <2>1. ASSUME q.getters # <<>> => Cardinality(q.free) <= Cardinality(q.woken),
               c.getters # <<>>
        PROVE  Cardinality(c.free) <= Cardinality(c.woken)
    <3>1. Cardinality(q.free) <= Cardinality(q.woken)
      BY <1>2, <2>1
    <3>2. Cardinality(q.free) \in Nat /\ Cardinality(q.woken) \in Nat
      BY <1>4, FS_CardinalityType
    <3> QED BY <1>2, <1>5, <1>6, <3>1, <3>2
  <2> QED BY <2>1 DEF Wakeful
<1>11. c \in Queue(p)
  BY <1>3, <1>8 DEF Queue
<1> QED BY <1>9, <1>10, <1>11 DEF c

-------------------------------------------------------------------------------
(***************************************************************************)
(* The inductive invariant of the pools.                                   *)
(***************************************************************************)
Flat ==
    /\ ready \in BOOLEAN
    /\ pc \in [Requests -> {"idle", "call", "join", "wait", "granted", "done"}]
    /\ stage \in [Requests -> Stages \cup {"none"}]
    /\ held \in [Requests -> Replicas \cup {NoReplica}]
    /\ worker \in [Requests -> Stages \cup {"none"}]
    /\ uses \in [Requests -> Replicas \cup {NoReplica}]
    /\ reply \in [Requests -> {"none", "value", "error"}]
    /\ audio \in [Requests -> SUBSET {"decoded", "enhanced"}]
    /\ cancelled \in [Requests -> BOOLEAN]
    /\ cancels \in 0 .. MaxCancels

Queues(P) == DOMAIN P = Pools /\ \A p \in Pools : P[p] \in Queue(p) /\ Wakeful(P[p])

\* Whoever is in the queue of a pool waits for a replica of that pool.
WaitInv == \A p \in Pools : \A r \in Members(pool[p]) : pc[r] = "wait" /\ PoolOf(stage[r]) = p

\* A replica is held only by a stage that runs on one of its pool.
HoldInv ==
    \A r \in Requests :
        /\ held[r] # NoReplica =>
              pc[r] \in {"call", "join", "granted"} /\ held[r] \in Estimators(PoolOf(stage[r]))
        /\ held[r] # NoReplica \/ pc[r] \in {"wait", "granted"} =>
              stage[r] \in {"predict", "identify"}

\* With replicas handed out as h says, the rest of them are free, and each is handed out
\* once.
Account(h, P) ==
    /\ \A p \in Pools : \A x \in Estimators(p) :
          x \in P[p].free <=> \A r \in Requests : h[r] # x
    /\ \A r1, r2 \in Requests : h[r1] = h[r2] /\ h[r1] # NoReplica => r1 = r2

PoolInv == Flat /\ Queues(pool) /\ WaitInv /\ HoldInv /\ Account(held, pool)

\* A replica belongs to one pool.
LEMMA PoolsApart ==
    /\ \A p \in Pools : Estimators(p) \subseteq Replicas /\ NoReplica \notin Estimators(p)
    /\ \A p1, p2 \in Pools : \A x \in Estimators(p1) \cap Estimators(p2) : p1 = p2
    /\ \A p \in Pools : IsFiniteSet(Estimators(p))
<1>1. /\ \A p \in Pools : Estimators(p) \subseteq Replicas /\ NoReplica \notin Estimators(p)
      /\ \A p1, p2 \in Pools : \A x \in Estimators(p1) \cap Estimators(p2) : p1 = p2
  BY PoolAssumption DEF Pools, Estimators, Replicas
<1>2. IsFiniteSet(Replicas)
  BY PoolAssumption
<1> QED BY <1>1, <1>2, FS_Subset

(* A request gives its replica back to the pool it came from. *)
LEMMA AccountGive ==
    ASSUME NEW h, NEW k, NEW P, NEW Q, Account(h, P),
           NEW r \in Requests, NEW p \in Pools, h[r] \in Estimators(p),
           Q[p].free = P[p].free \cup {h[r]},
           \A p2 \in Pools \ {p} : Q[p2].free = P[p2].free,
           k[r] = NoReplica, \A s \in Requests \ {r} : k[s] = h[s]
    PROVE  Account(k, Q)
<1>1. k[r] = NoReplica /\ \A s \in Requests \ {r} : k[s] = h[s]
  OBVIOUS
<1>2. \A r1, r2 \in Requests : k[r1] = k[r2] /\ k[r1] # NoReplica => r1 = r2
  BY <1>1 DEF Account
<1>3. ASSUME NEW p2 \in Pools, NEW x \in Estimators(p2)
      PROVE  x \in Q[p2].free <=> \A s \in Requests : k[s] # x
  <2>1. x # NoReplica
    BY PoolsApart
  <2>2. CASE x = h[r]
    <3>1. p2 = p
      BY <2>2, PoolsApart
    <3>2. \A s \in Requests \ {r} : h[s] # x
      BY <2>1, <2>2 DEF Account
    <3> QED BY <1>1, <2>1, <2>2, <3>1, <3>2
  <2>3. CASE x # h[r]
    <3>1. x \in Q[p2].free <=> x \in P[p2].free
      BY <2>3
    <3>2. x \in P[p2].free <=> \A s \in Requests : h[s] # x
      BY DEF Account
    <3> QED BY <1>1, <2>1, <2>3, <3>1, <3>2
  <2> QED BY <2>2, <2>3
<1> QED BY <1>2, <1>3 DEF Account

(* A request without a replica takes a free one. *)
LEMMA AccountTake ==
    ASSUME NEW h, NEW k, NEW P, NEW Q, Account(h, P),
           NEW r \in Requests, NEW p \in Pools, h[r] = NoReplica,
           NEW x \in Estimators(p), x \in P[p].free,
           Q[p].free = P[p].free \ {x},
           \A p2 \in Pools \ {p} : Q[p2].free = P[p2].free,
           k[r] = x, \A s \in Requests \ {r} : k[s] = h[s]
    PROVE  Account(k, Q)
<1>1. k[r] = x /\ \A s \in Requests \ {r} : k[s] = h[s]
  OBVIOUS
<1>2. \A s \in Requests : h[s] # x
  BY DEF Account
<1>3. \A r1, r2 \in Requests : k[r1] = k[r2] /\ k[r1] # NoReplica => r1 = r2
  BY <1>1, <1>2 DEF Account
<1>4. ASSUME NEW p2 \in Pools, NEW y \in Estimators(p2)
      PROVE  y \in Q[p2].free <=> \A s \in Requests : k[s] # y
  <2>1. y # NoReplica
    BY PoolsApart
  <2>2. CASE y = x
    <3>1. p2 = p
      BY <2>2, PoolsApart
    <3> QED BY <1>1, <2>2, <3>1
  <2>3. CASE y # x
    <3>1. y \in Q[p2].free <=> y \in P[p2].free
      BY <2>3
    <3>2. y \in P[p2].free <=> \A s \in Requests : h[s] # y
      BY DEF Account
    <3> QED BY <1>1, <2>1, <2>3, <3>1, <3>2
  <2> QED BY <2>2, <2>3
<1> QED BY <1>3, <1>4 DEF Account

\* The pools after a release, seen from a request that is left without a replica.
LEMMA GiveBackPools ==
    ASSUME PoolInv, NEW r \in Requests, pc[r] # "wait"
    PROVE  /\ Queues(GiveBack(r))
           /\ \A p \in Pools : Members(GiveBack(r)[p]) \subseteq Members(pool[p]) \ {r}
           /\ Account([held EXCEPT ![r] = NoReplica], GiveBack(r))
<1> USE DEF PoolInv
<1>1. \A p \in Pools : r \notin Members(pool[p])
  BY DEF WaitInv
<1>2. CASE held[r] = NoReplica
  <2>1. GiveBack(r) = pool
    BY <1>2 DEF GiveBack
  <2>2. [held EXCEPT ![r] = NoReplica] = held
    BY <1>2 DEF Flat
  <2> QED BY <1>1, <2>1, <2>2
<1>3. CASE held[r] # NoReplica
  <2> DEFINE p == PoolOf(stage[r])
             Q == GiveBack(r)
  <2>1. p \in Pools /\ held[r] \in Estimators(p)
    BY <1>3 DEF HoldInv, PoolOf, Pools
  <2>2. Q = [pool EXCEPT ![p] = Put(pool[p], held[r])]
    BY <1>3 DEF GiveBack
  <2>3. /\ DOMAIN Q = Pools /\ Q[p] = Put(pool[p], held[r])
        /\ \A p2 \in Pools \ {p} : Q[p2] = pool[p2]
    BY <2>1, <2>2 DEF Queues
  <2> HIDE DEF p, Q
  <2>4. /\ Q[p] \in Queue(p) /\ Q[p].free = pool[p].free \cup {held[r]}
        /\ Members(Q[p]) = Members(pool[p]) /\ Wakeful(Q[p])
    BY <2>1, <2>3, PutQueue DEF Queues
  <2>5. Queues(Q)
    BY <2>3, <2>4 DEF Queues
  <2>6. \A p2 \in Pools : Members(Q[p2]) \subseteq Members(pool[p2]) \ {r}
    BY <1>1, <2>3, <2>4
  <2>7. Account([held EXCEPT ![r] = NoReplica], Q)
    <3> DEFINE k == [held EXCEPT ![r] = NoReplica]
    <3>1. k[r] = NoReplica /\ \A s \in Requests \ {r} : k[s] = held[s]
      BY DEF Flat
    <3>2. \A p2 \in Pools \ {p} : Q[p2].free = pool[p2].free
      BY <2>3
    <3>3. Account(held, pool)
      OBVIOUS
    <3> HIDE DEF PoolInv, k
    <3>4. Account(k, Q)
      BY <2>1, <2>4, <3>1, <3>2, <3>3, AccountGive
    <3> QED BY <3>4 DEF k
  <2> QED BY <2>5, <2>6, <2>7 DEF Q
<1> QED BY <1>2, <1>3

\* The pools after a wait that ended without a replica.
LEMMA WithdrawPools ==
    ASSUME PoolInv, NEW r \in Requests, pc[r] = "wait"
    PROVE  LET Q == [pool EXCEPT ![PoolOf(stage[r])] = Withdraw(@, r)] IN
           /\ Queues(Q)
           /\ \A p \in Pools : Members(Q[p]) \subseteq Members(pool[p]) \ {r}
           /\ Account([held EXCEPT ![r] = NoReplica], Q)
<1> USE DEF PoolInv
<1> DEFINE p == PoolOf(stage[r])
           Q == [pool EXCEPT ![p] = Withdraw(@, r)]
<1>1. p \in Pools
  BY DEF PoolOf, Pools
<1>2. /\ DOMAIN Q = Pools /\ Q[p] = Withdraw(pool[p], r)
      /\ \A p2 \in Pools \ {p} : Q[p2] = pool[p2]
  BY <1>1 DEF Queues
<1>3. \A p2 \in Pools \ {p} : r \notin Members(pool[p2])
  BY DEF WaitInv
<1> HIDE DEF p, Q
<1>4. /\ Q[p] \in Queue(p) /\ Q[p].free = pool[p].free
      /\ Members(Q[p]) = Members(pool[p]) \ {r} /\ Wakeful(Q[p])
  BY <1>1, <1>2, WithdrawQueue DEF Queues
<1>5. Queues(Q)
  BY <1>2, <1>4 DEF Queues
<1>6. \A p2 \in Pools : Members(Q[p2]) \subseteq Members(pool[p2]) \ {r}
  BY <1>2, <1>3, <1>4
<1>7. Account([held EXCEPT ![r] = NoReplica], Q)
  <2>1. held[r] = NoReplica
    BY DEF HoldInv
  <2>2. [held EXCEPT ![r] = NoReplica] = held
    BY <2>1 DEF Flat
  <2>3. \A p2 \in Pools : Q[p2].free = pool[p2].free
    BY <1>2, <1>4
  <2> QED BY <2>2, <2>3 DEF Account
<1> QED BY <1>5, <1>6, <1>7 DEF p, Q

\* What a step establishes besides the types of the variables other than pool.
Kept == Queues(pool) /\ WaitInv /\ HoldInv /\ Account(held, pool)

\* A request that leaves, whatever it did to the pools before.
LEMMA LeavePools ==
    ASSUME PoolInv, NEW r \in Requests, NEW P, NEW leaves, Queues(P),
           \A p \in Pools : Members(P[p]) \subseteq Members(pool[p]) \ {r},
           Account([held EXCEPT ![r] = NoReplica], P),
           Leave(r, P, leaves)
    PROVE  Kept'
<1>1. /\ pool' = P /\ held' = [held EXCEPT ![r] = NoReplica]
      /\ pc' = [pc EXCEPT ![r] = "done"] /\ stage' = [stage EXCEPT ![r] = "none"]
  BY DEF Leave
<1>2. Queues(pool)' /\ Account(held, pool)'
  BY <1>1
<1>3. WaitInv'
  BY <1>1 DEF WaitInv, PoolInv, Flat
<1>4. HoldInv'
  BY <1>1 DEF HoldInv, PoolInv, Flat
<1> QED BY <1>2, <1>3, <1>4 DEF Kept

\* A request that asks for a replica, whatever it did to the pools before.
LEMMA AcquirePools ==
    ASSUME PoolInv, NEW r \in Requests, NEW P, NEW st \in {"predict", "identify"}, Queues(P),
           \A p \in Pools : Members(P[p]) \subseteq Members(pool[p]) \ {r},
           Account([held EXCEPT ![r] = NoReplica], P),
           Acquire(r, st, P)
    PROVE  Kept'
<1> DEFINE p == PoolOf(st)
           k == [held EXCEPT ![r] = NoReplica]
<1>1. p \in Pools /\ P[p] \in Queue(p) /\ Wakeful(P[p])
  BY DEF PoolOf, Pools, Queues
<1>2. k[r] = NoReplica /\ \A s \in Requests \ {r} : k[s] = held[s]
  BY DEF PoolInv, Flat
<1>5. Account(k, P)
  OBVIOUS
<1>3. CASE P[p].free # {}
  <2>1. PICK x \in P[p].free :
           pool' = [P EXCEPT ![p].free = @ \ {x}] /\ RunStage(r, st, x)
    BY <1>3 DEF Acquire
  <2> DEFINE b == [P[p] EXCEPT !.free = @ \ {x}]
  <2>2. /\ DOMAIN pool' = Pools /\ pool'[p] = b
        /\ \A p2 \in Pools \ {p} : pool'[p2] = P[p2]
    BY <1>1, <2>1 DEF Queues
  <2>3. /\ b \in Queue(p) /\ b.free = P[p].free \ {x} /\ Members(b) = Members(P[p])
        /\ Wakeful(b)
    BY <1>1, TakeQueue
  <2> HIDE DEF b
  <2>4. Queues(pool)'
    <3>1. \A p2 \in Pools : pool'[p2] \in Queue(p2) /\ Wakeful(pool'[p2])
      BY <2>2, <2>3 DEF Queues
    <3> QED BY <2>2, <3>1 DEF Queues
  <2>5. x \in Estimators(p)
    BY <1>1 DEF Queue, PoolType
  <2>6. /\ held' = [held EXCEPT ![r] = x] /\ pc' = [pc EXCEPT ![r] = "call"]
        /\ stage' = [stage EXCEPT ![r] = st]
    BY <2>1 DEF RunStage
  <2>7. WaitInv'
    <3>1. \A p2 \in Pools : Members(pool'[p2]) \subseteq Members(pool[p2]) \ {r}
      BY <2>2, <2>3
    <3> QED BY <2>6, <3>1 DEF WaitInv, PoolInv, Flat
  <2>8. HoldInv'
    BY <2>5, <2>6 DEF HoldInv, PoolInv, Flat
  <2>9. Account(held, pool)'
    <3>1. held'[r] = x /\ \A s \in Requests \ {r} : held'[s] = k[s]
      BY <1>2, <2>6 DEF PoolInv, Flat
    <3>2. Account(k, P)
      BY <1>5
    <3>3. pool'[p].free = P[p].free \ {x} /\ \A p2 \in Pools \ {p} : pool'[p2].free = P[p2].free
      BY <2>2, <2>3
    <3> HIDE DEF k, p
    <3> QED BY <1>1, <1>2, <2>5, <3>1, <3>2, <3>3, AccountTake
  <2> QED BY <2>4, <2>7, <2>8, <2>9 DEF Kept
<1>4. CASE P[p].free = {}
  <2>1. /\ pool' = [P EXCEPT ![p].asking = @ \cup {r}]
        /\ pc' = [pc EXCEPT ![r] = "wait"] /\ stage' = [stage EXCEPT ![r] = st]
        /\ held' = k
    BY <1>4 DEF Acquire
  <2> DEFINE b == [P[p] EXCEPT !.asking = @ \cup {r}]
  <2>2. /\ DOMAIN pool' = Pools /\ pool'[p] = b
        /\ \A p2 \in Pools \ {p} : pool'[p2] = P[p2]
    BY <1>1, <2>1 DEF Queues
  <2>3. r \notin Members(P[p])
    BY <1>1
  <2>4. /\ b \in Queue(p) /\ b.free = P[p].free /\ Members(b) = Members(P[p]) \cup {r}
        /\ Wakeful(b)
    BY <1>1, <1>4, <2>3, AskQueue
  <2> HIDE DEF b
  <2>5. Queues(pool)'
    <3>1. \A p2 \in Pools : pool'[p2] \in Queue(p2) /\ Wakeful(pool'[p2])
      BY <2>2, <2>4 DEF Queues
    <3> QED BY <2>2, <3>1 DEF Queues
  <2>6. WaitInv'
    <3>1. \A p2 \in Pools \ {p} : Members(pool'[p2]) \subseteq Members(pool[p2]) \ {r}
      BY <2>2
    <3>2. Members(pool'[p]) \subseteq (Members(pool[p]) \ {r}) \cup {r}
      BY <1>1, <2>2, <2>4
    <3>3. pc'[r] = "wait" /\ stage'[r] = st
      BY <2>1 DEF PoolInv, Flat
    <3>4. \A s \in Requests \ {r} : pc'[s] = pc[s] /\ stage'[s] = stage[s]
      BY <2>1 DEF PoolInv, Flat
    <3>5. \A p2 \in Pools : \A s \in Members(pool[p2]) : s \in Requests
      BY DEF PoolInv, Queues, Queue, PoolType, Members, Queued
    <3> QED BY <3>1, <3>2, <3>3, <3>4, <3>5 DEF WaitInv, PoolInv
  <2>7. HoldInv'
    BY <2>1 DEF HoldInv, PoolInv, Flat
  <2>8. Account(held, pool)'
    <3>1. \A p2 \in Pools : pool'[p2].free = P[p2].free
      BY <2>2, <2>4
    <3>2. Account(k, P)
      BY <1>5
    <3>3. held' = k
      BY <2>1
    <3> HIDE DEF k
    <3> DEFINE h == held'
    <3>4. \A p2 \in Pools : \A y \in Estimators(p2) :
             y \in pool'[p2].free <=> \A s \in Requests : h[s] # y
      BY <3>1, <3>2, <3>3, Zenon DEF Account
    <3>5. \A r1, r2 \in Requests : h[r1] = h[r2] /\ h[r1] # NoReplica => r1 = r2
      BY <3>2, <3>3, Zenon DEF Account
    <3> QED BY <3>4, <3>5, Zenon DEF Account
  <2> QED BY <2>5, <2>6, <2>7, <2>8 DEF Kept
<1> QED BY <1>3, <1>4

\* A waiter that runs.
LEMMA PollPools ==
    ASSUME PoolInv, NEW r \in Requests, Poll(r)
    PROVE  Kept'
<1> DEFINE p == PoolOf(stage[r])
           q == pool[p]
           s == [q EXCEPT !.asking = @ \ {r}, !.woken = @ \ {r}]
<1>1. p \in Pools /\ q \in Queue(p) /\ Wakeful(q) /\ r \in q.asking \cup q.woken
  BY DEF PoolOf, Pools, Queues, PoolInv, Poll
<1>2. pc[r] = "wait" /\ stage' = stage
  BY DEF Poll
<1>3. held[r] = NoReplica /\ stage[r] \in {"predict", "identify"}
  BY <1>2 DEF PoolInv, HoldInv
<1>4. \A p2 \in Pools \ {p} : r \notin Members(pool[p2])
  BY DEF PoolInv, WaitInv
<1>5. \A p2 \in Pools : Members(pool[p2]) \subseteq Requests
  BY DEF PoolInv, Queues, Queue, PoolType, Members, Queued
<1>6. CASE /\ s.free = {}
           /\ pool' = [pool EXCEPT ![p] = [s EXCEPT !.getters = Append(@, r)]]
           /\ UNCHANGED <<pc, held>>
  <2> DEFINE b == [s EXCEPT !.getters = Append(@, r)]
  <2>1. /\ DOMAIN pool' = Pools /\ pool'[p] = b
        /\ \A p2 \in Pools \ {p} : pool'[p2] = pool[p2]
    BY <1>1, <1>6 DEF Queues, PoolInv
  <2>2. b \in Queue(p) /\ b.free = q.free /\ Members(b) = Members(q) /\ Wakeful(b)
    BY <1>1, <1>6, PollQueue
  <2> HIDE DEF b, s
  <2>3. Queues(pool)'
    <3>1. \A p2 \in Pools : pool'[p2] \in Queue(p2) /\ Wakeful(pool'[p2])
      BY <2>1, <2>2 DEF Queues, PoolInv
    <3> QED BY <2>1, <3>1 DEF Queues
  <2>4. WaitInv' /\ HoldInv'
    <3>1. \A p2 \in Pools : Members(pool'[p2]) = Members(pool[p2])
      BY <2>1, <2>2
    <3> QED BY <1>2, <1>6, <3>1 DEF WaitInv, HoldInv, PoolInv
  <2>5. Account(held, pool)'
    <3>1. \A p2 \in Pools : pool'[p2].free = pool[p2].free
      BY <2>1, <2>2
    <3> QED BY <1>6, <3>1 DEF Account, PoolInv
  <2> QED BY <2>3, <2>4, <2>5 DEF Kept
<1>7. ASSUME NEW x \in s.free,
             pool' = [pool EXCEPT ![p] = [s EXCEPT !.free = @ \ {x}]],
             held' = [held EXCEPT ![r] = x], pc' = [pc EXCEPT ![r] = "granted"]
      PROVE  Kept'
  <2> DEFINE c == [s EXCEPT !.free = @ \ {x}]
  <2>1. /\ DOMAIN pool' = Pools /\ pool'[p] = c
        /\ \A p2 \in Pools \ {p} : pool'[p2] = pool[p2]
    BY <1>1, <1>7 DEF Queues, PoolInv
  <2>2. /\ c \in Queue(p) /\ c.free = q.free \ {x} /\ Members(c) = Members(q) \ {r}
        /\ Wakeful(c) /\ x \in q.free
    <3>1. s.free = q.free
      BY <1>1, PollQueue
    <3>2. p \in Pools /\ q \in Queue(p) /\ r \in q.asking \cup q.woken /\ x \in q.free
      BY <1>1, <1>7, <3>1
    <3>3. c = [free |-> q.free \ {x}, getters |-> q.getters,
               woken |-> q.woken \ {r}, asking |-> q.asking \ {r}]
      <4> HIDE DEF p, q
      <4> DEFINE y == [q EXCEPT !.asking = @ \ {r}]
      <4>1. q = [free |-> q.free, getters |-> q.getters, woken |-> q.woken,
                 asking |-> q.asking]
        <5>1. q \in PoolType(p)
          BY <3>2 DEF Queue
        <5> QED BY <5>1 DEF PoolType
      <4>2. y = [free |-> q.free, getters |-> q.getters, woken |-> q.woken,
                 asking |-> q.asking \ {r}]
        BY <4>1
      <4>3. s = [y EXCEPT !.woken = q.woken \ {r}]
        OBVIOUS
      <4> HIDE DEF y, s
      <4>4. s = [free |-> q.free, getters |-> q.getters, woken |-> q.woken \ {r},
                 asking |-> q.asking \ {r}]
        BY <4>2, <4>3
      <4> QED BY <4>4
    <3> HIDE DEF c, s, p, q
    <3>4. c \in Queue(p) /\ Members(c) = Members(q) \ {r} /\ (Wakeful(q) => Wakeful(c))
      BY <3>2, <3>3, GrantQueue
    <3> QED BY <1>1, <3>2, <3>3, <3>4
  <2> HIDE DEF c, s
  <2>3. x \in Estimators(p)
    BY <1>1, <2>2 DEF Queue, PoolType
  <2>4. Queues(pool)'
    <3>1. \A p2 \in Pools : pool'[p2] \in Queue(p2) /\ Wakeful(pool'[p2])
      BY <2>1, <2>2 DEF Queues, PoolInv
    <3> QED BY <2>1, <3>1 DEF Queues
  <2>5. WaitInv'
    <3>1. \A p2 \in Pools : Members(pool'[p2]) \subseteq Members(pool[p2]) \ {r}
      BY <1>4, <2>1, <2>2
    <3>2. \A z \in Requests \ {r} : pc'[z] = pc[z]
      BY <1>7 DEF PoolInv, Flat
    <3> QED BY <1>2, <1>5, <3>1, <3>2 DEF WaitInv, PoolInv
  <2>6. HoldInv'
    BY <1>2, <1>3, <1>7, <2>3 DEF HoldInv, PoolInv, Flat
  <2>7. Account(held, pool)'
    <3>1. held'[r] = x /\ \A z \in Requests \ {r} : held'[z] = held[z]
      BY <1>7 DEF PoolInv, Flat
    <3>2. Account(held, pool)
      BY DEF PoolInv
    <3>3. /\ pool'[p].free = pool[p].free \ {x} /\ x \in pool[p].free
          /\ \A p2 \in Pools \ {p} : pool'[p2].free = pool[p2].free
      BY <2>1, <2>2
    <3> HIDE DEF p
    <3> QED BY <1>1, <1>3, <2>3, <3>1, <3>2, <3>3, AccountTake
  <2> QED BY <2>4, <2>5, <2>6, <2>7 DEF Kept
<1> QED BY <1>6, <1>7 DEF Poll

-------------------------------------------------------------------------------
\* The initial state.
LEMMA PoolInvInit == Init => PoolInv
<1> SUFFICES ASSUME Init PROVE PoolInv
  OBVIOUS
<1>1. Flat
  BY PoolAssumption DEF Init, Flat
<1>2. Queues(pool)
  <2>1. DOMAIN pool = Pools
    BY DEF Init
  <2>2. ASSUME NEW p \in Pools PROVE pool[p] \in Queue(p) /\ Wakeful(pool[p])
    <3>1. pool[p] = [free |-> Estimators(p), getters |-> <<>>, woken |-> {}, asking |-> {}]
      BY DEF Init
    <3>2. pool[p] \in PoolType(p)
      BY <3>1 DEF PoolType
    <3>3. /\ pool[p].free = Estimators(p) /\ pool[p].getters = <<>>
          /\ pool[p].woken = {} /\ pool[p].asking = {}
      BY <3>1
    <3>4. QueueOK(pool[p])
      BY <3>3, PoolsApart, FS_EmptySet DEF QueueOK
    <3> QED BY <3>2, <3>3, <3>4 DEF Queue, Wakeful
  <2> QED BY <2>1, <2>2 DEF Queues
<1>3. WaitInv
  <2>1. ASSUME NEW p \in Pools PROVE Members(pool[p]) = {}
    <3>1. pool[p] = [free |-> Estimators(p), getters |-> <<>>, woken |-> {}, asking |-> {}]
      BY DEF Init
    <3>2. Len(<<>>) = 0
      OBVIOUS
    <3> QED BY <3>1, <3>2 DEF Members, Queued
  <2> QED BY <2>1 DEF WaitInv
<1>4. HoldInv
  BY DEF Init, HoldInv
<1>5. Account(held, pool)
  <2>1. \A p \in Pools : pool[p].free = Estimators(p)
    BY DEF Init
  <2>2. \A r \in Requests : held[r] = NoReplica
    BY DEF Init
  <2> QED BY <2>1, <2>2, PoolsApart DEF Account
<1> QED BY <1>1, <1>2, <1>3, <1>4, <1>5 DEF PoolInv

\* The variables other than pool keep their types.
LEMMA FlatNext == PoolInv /\ [Next]_vars => Flat'
<1> SUFFICES ASSUME PoolInv, [Next]_vars PROVE Flat'
  OBVIOUS
<1>1. Flat /\ HoldInv /\ Queues(pool)
  BY DEF PoolInv
<1>2. \A p \in Pools : Estimators(p) \subseteq Replicas
  BY PoolsApart
<1>3. ASSUME NEW r \in Requests, NEW st \in Stages, NEW x \in Replicas \cup {NoReplica},
             RunStage(r, st, x), UNCHANGED <<ready, audio, cancels>>,
             cancelled' \in [Requests -> BOOLEAN]
      PROVE  Flat'
  BY <1>1, <1>3 DEF RunStage, Flat
<1>4. ASSUME NEW r \in Requests, NEW P, NEW leaves \in SUBSET {"decoded", "enhanced"},
             Leave(r, P, leaves), UNCHANGED <<ready, cancels>>,
             cancelled' \in [Requests -> BOOLEAN]
      PROVE  Flat'
  BY <1>1, <1>4 DEF Leave, Flat
<1>5. ASSUME NEW r \in Requests, NEW P, Queues(P), NEW st \in {"predict", "identify"},
             Acquire(r, st, P), UNCHANGED <<ready, audio, cancelled, cancels>>
      PROVE  Flat'
  <2>1. cancelled' \in [Requests -> BOOLEAN]
    BY <1>1, <1>5 DEF Flat
  <2>2. st \in Stages /\ PoolOf(st) \in Pools
    BY DEF Stages, PoolOf, Pools
  <2>3. P[PoolOf(st)].free \subseteq Replicas
    BY <1>2, <1>5, <2>2 DEF Queues, Queue, PoolType
  <2>4. CASE \E x \in P[PoolOf(st)].free : RunStage(r, st, x)
    BY <1>3, <1>5, <2>1, <2>2, <2>3, <2>4
  <2>5. CASE /\ pc' = [pc EXCEPT ![r] = "wait"] /\ stage' = [stage EXCEPT ![r] = st]
             /\ held' = [held EXCEPT ![r] = NoReplica] /\ UNCHANGED <<worker, uses, reply>>
    BY <1>1, <1>5, <2>1, <2>2, <2>5 DEF Flat
  <2> QED BY <1>5, <2>4, <2>5 DEF Acquire
<1>6. \A r \in Requests : Unknown(r) \in SUBSET {"decoded", "enhanced"}
  BY <1>1 DEF Unknown, Flat
<1>7. Stages \subseteq Stages \cup {"none"} /\ {"decode", "quality", "enhance"} \subseteq Stages
  BY DEF Stages
<1>8. ASSUME NEW r \in Requests, Begin(r) PROVE Flat'
  <2>1. cancelled' \in [Requests -> BOOLEAN]
    BY <1>1, <1>8 DEF Begin, Flat
  <2> QED BY <1>3, <1>4, <1>7, <1>8, <2>1 DEF Begin
<1>9. ASSUME NEW r \in Requests, Proceed(r) PROVE Flat'
  <2>1. cancelled' \in [Requests -> BOOLEAN] /\ UNCHANGED <<ready, cancelled, cancels>>
    BY <1>1, <1>9 DEF Proceed, Flat
  <2>2. Queues(GiveBack(r))
    BY <1>9, GiveBackPools DEF Proceed
  <2>3. CASE RunStage(r, "quality", NoReplica) /\ UNCHANGED audio
    BY <1>3, <1>7, <2>1, <2>3
  <2>4. CASE RunStage(r, "enhance", NoReplica) /\ UNCHANGED audio
    BY <1>3, <1>7, <2>1, <2>4
  <2>5. CASE Leave(r, pool, {}) \/ Leave(r, GiveBack(r), {})
    BY <1>4, <2>1, <2>5
  <2>6. CASE Acquire(r, "predict", pool) /\ UNCHANGED audio
    BY <1>1, <1>5, <2>1, <2>6
  <2>7. CASE Acquire(r, "identify", GiveBack(r)) /\ UNCHANGED audio
    BY <1>5, <2>1, <2>2, <2>7
  <2> QED BY <1>9, <2>3, <2>4, <2>5, <2>6, <2>7 DEF Proceed
<1>10. ASSUME NEW r \in Requests, Raise(r) \/ Joined(r) \/ Desert(r) PROVE Flat'
  <2>1. cancelled' \in [Requests -> BOOLEAN] /\ UNCHANGED <<ready, cancels>>
    BY <1>1, <1>10 DEF Raise, Joined, Desert, Flat
  <2>2. Unknown(r) \ {"decoded"} \in SUBSET {"decoded", "enhanced"}
    BY <1>6
  <2>3. \/ Leave(r, GiveBack(r), Unknown(r)) \/ Leave(r, GiveBack(r), Unknown(r) \ {"decoded"})
    BY <1>10 DEF Raise, Joined, Desert
  <2> QED BY <1>4, <1>6, <2>1, <2>2, <2>3
<1>11. ASSUME NEW r \in Requests, Timeout(r) \/ CancelWait(r) PROVE Flat'
  <2>1. cancelled' \in [Requests -> BOOLEAN] /\ UNCHANGED <<ready, cancels>>
    BY <1>1, <1>11 DEF Timeout, CancelWait, Flat
  <2>2. Leave(r, [pool EXCEPT ![PoolOf(stage[r])] = Withdraw(@, r)], {})
    BY <1>11 DEF Timeout, CancelWait
  <2> QED BY <1>4, <2>1, <2>2
<1>12. ASSUME NEW r \in Requests, Join(r) PROVE Flat'
  BY <1>1, <1>12 DEF Join, Flat, threads
<1>13. ASSUME NEW r \in Requests, Poll(r) PROVE Flat'
  <2>1. PoolOf(stage[r]) \in Pools
    BY DEF PoolOf, Pools
  <2>2. pool[PoolOf(stage[r])] \in Queue(PoolOf(stage[r]))
    BY <1>1, <2>1 DEF Queues
  <2>3. pool[PoolOf(stage[r])].free \subseteq Replicas
    BY <1>2, <2>1, <2>2 DEF Queue, PoolType
  <2>4. r \in pool[PoolOf(stage[r])].asking \cup pool[PoolOf(stage[r])].woken
    BY <1>13 DEF Poll
  <2>5. [pool[PoolOf(stage[r])] EXCEPT !.asking = @ \ {r}, !.woken = @ \ {r}].free
          = pool[PoolOf(stage[r])].free
    BY <2>1, <2>2, <2>4, PollQueue
  <2>6. /\ UNCHANGED <<ready, stage, audio, cancelled, worker, uses, reply, cancels>>
        /\ \/ UNCHANGED <<pc, held>>
           \/ \E x \in pool[PoolOf(stage[r])].free :
                 held' = [held EXCEPT ![r] = x] /\ pc' = [pc EXCEPT ![r] = "granted"]
    BY <1>13, <2>5 DEF Poll, threads
  <2> QED BY <1>1, <2>3, <2>6 DEF Flat
<1>14. ASSUME NEW r \in Requests, Granted(r) PROVE Flat'
  <2>1. stage[r] \in Stages
    BY <1>1, <1>14 DEF HoldInv, Granted, Stages
  <2>2. held[r] \in Replicas \cup {NoReplica} /\ cancelled' \in [Requests -> BOOLEAN]
    BY <1>1, <1>14 DEF Granted, Flat
  <2>3. RunStage(r, stage[r], held[r]) /\ UNCHANGED <<ready, audio, cancels>>
    BY <1>14 DEF Granted
  <2> QED BY <1>3, <2>1, <2>2, <2>3
<1>15. ASSUME NEW r \in Requests, ThreadEnds(r) PROVE Flat'
  BY <1>1, <1>15 DEF ThreadEnds, Result, Flat
<1>16. ASSUME NEW r \in Requests, Cancel(r) PROVE Flat'
  BY <1>1, <1>16, PoolAssumption DEF Cancel, Flat, threads
<1>17. CASE Stop
  BY <1>1, <1>17 DEF Stop, Flat, threads, request
<1>18. CASE UNCHANGED vars
  BY <1>1, <1>18 DEF vars, Flat, threads, request
<1> QED BY <1>8, <1>9, <1>10, <1>11, <1>12, <1>13, <1>14, <1>15, <1>16, <1>17, <1>18
        DEF Next, RequestStep

\* Every step keeps the invariant of the pools.
LEMMA PoolInvNext == PoolInv /\ [Next]_vars => PoolInv'
<1> SUFFICES ASSUME PoolInv, [Next]_vars PROVE Kept'
  BY FlatNext DEF PoolInv, Kept
<1>1. Flat /\ Kept
  BY DEF PoolInv, Kept
\* Steps that leave the pools and the replicas alone, and move no waiter.
<1>2. ASSUME NEW r \in Requests, pc[r] \notin {"wait"}, UNCHANGED <<pool, held>>,
             \A s \in Requests \ {r} : pc'[s] = pc[s] /\ stage'[s] = stage[s],
             pc'[r] \in {"call", "join"},
             held[r] # NoReplica => stage'[r] = stage[r]
      PROVE  Kept'
  <2>1. Queues(pool)' /\ Account(held, pool)'
    BY <1>1, <1>2 DEF Kept
  <2>2. WaitInv'
    <3>1. \A p \in Pools : Members(pool[p]) \subseteq Requests \ {r}
      BY <1>1, <1>2 DEF Kept, WaitInv, Queues, Queue, PoolType, Members, Queued
    <3> QED BY <1>1, <1>2, <3>1 DEF Kept, WaitInv
  <2>3. HoldInv'
    BY <1>1, <1>2 DEF Kept, HoldInv
  <2> QED BY <2>1, <2>2, <2>3 DEF Kept
<1>3. ASSUME UNCHANGED <<pool, held, pc, stage>> PROVE Kept'
  BY <1>1, <1>3 DEF Kept, WaitInv, HoldInv, Queues
<1>4. ASSUME NEW r \in Requests, Begin(r) PROVE Kept'
  <2>1. pc[r] = "idle" /\ held[r] = NoReplica
    BY <1>1, <1>4 DEF Begin, Kept, HoldInv
  <2>2. CASE RunStage(r, "decode", NoReplica) /\ UNCHANGED pool
    <3>1. held' = held
      BY <1>1, <2>1, <2>2 DEF RunStage, Flat
    <3>2. pc'[r] = "call" /\ \A s \in Requests \ {r} : pc'[s] = pc[s] /\ stage'[s] = stage[s]
      BY <1>1, <2>2 DEF RunStage, Flat
    <3> QED BY <1>2, <2>1, <2>2, <3>1, <3>2
  <2>3. CASE Leave(r, pool, {})
    <3>1. [held EXCEPT ![r] = NoReplica] = held
      BY <1>1, <2>1 DEF Flat
    <3>2. \A p \in Pools : Members(pool[p]) \subseteq Members(pool[p]) \ {r}
      BY <1>1, <2>1 DEF Kept, WaitInv
    <3>3. Queues(pool) /\ Account([held EXCEPT ![r] = NoReplica], pool)
      BY <1>1, <3>1 DEF Kept
    <3> QED BY <2>3, <3>2, <3>3, LeavePools
  <2> QED BY <1>4, <2>2, <2>3 DEF Begin
<1>5. ASSUME NEW r \in Requests, pc[r] # "wait", NEW leaves, Leave(r, GiveBack(r), leaves)
      PROVE  Kept'
  BY <1>5, GiveBackPools, LeavePools
<1>6. ASSUME NEW r \in Requests, Proceed(r) PROVE Kept'
  <2>1. pc[r] = "call"
    BY <1>6 DEF Proceed
  <2>2. ASSUME NEW st \in {"quality", "enhance"}, RunStage(r, st, NoReplica), UNCHANGED pool,
               stage[r] \in {"decode", "quality"}
        PROVE  Kept'
    <3>1. held[r] = NoReplica
      BY <1>1, <2>2 DEF Kept, HoldInv
    <3>2. held' = held
      BY <1>1, <2>2, <3>1 DEF RunStage, Flat
    <3>3. pc'[r] = "call" /\ \A s \in Requests \ {r} : pc'[s] = pc[s] /\ stage'[s] = stage[s]
      BY <1>1, <2>2 DEF RunStage, Flat
    <3> QED BY <1>2, <2>1, <2>2, <3>1, <3>2, <3>3
  <2>3. CASE stage[r] \in {"quality", "enhance"}
    <3>1. held[r] = NoReplica
      BY <1>1, <2>3 DEF Kept, HoldInv
    <3>2. [held EXCEPT ![r] = NoReplica] = held
      BY <1>1, <3>1 DEF Flat
    <3>3. /\ Queues(pool) /\ Account([held EXCEPT ![r] = NoReplica], pool)
          /\ \A p \in Pools : Members(pool[p]) \subseteq Members(pool[p]) \ {r}
      BY <1>1, <2>1, <3>2 DEF Kept, WaitInv
    <3>4. Leave(r, pool, {}) => Kept'
      BY <3>3, LeavePools
    <3>5. Acquire(r, "predict", pool) => Kept'
      BY <3>3, AcquirePools
    <3> QED BY <1>6, <2>2, <2>3, <3>4, <3>5 DEF Proceed
  <2>4. Acquire(r, "identify", GiveBack(r)) => Kept'
    BY <2>1, GiveBackPools, AcquirePools
  <2>5. Leave(r, GiveBack(r), {}) => Kept'
    BY <1>5, <2>1
  <2> QED BY <1>6, <2>2, <2>3, <2>4, <2>5 DEF Proceed
<1>7. ASSUME NEW r \in Requests, Raise(r) \/ Joined(r) \/ Desert(r) PROVE Kept'
  BY <1>5, <1>7 DEF Raise, Joined, Desert
<1>8. ASSUME NEW r \in Requests, Timeout(r) \/ CancelWait(r) PROVE Kept'
  <2>1. /\ pc[r] = "wait"
        /\ Leave(r, [pool EXCEPT ![PoolOf(stage[r])] = Withdraw(@, r)], {})
    BY <1>8 DEF Timeout, CancelWait
  <2> QED BY <2>1, WithdrawPools, LeavePools
<1>9. ASSUME NEW r \in Requests, Join(r) PROVE Kept'
  <2>1. /\ pc[r] = "call" /\ UNCHANGED <<pool, held, stage>>
        /\ pc' = [pc EXCEPT ![r] = "join"]
    BY <1>9 DEF Join
  <2> QED BY <1>1, <1>2, <2>1 DEF Flat
<1>10. ASSUME NEW r \in Requests, Poll(r) PROVE Kept'
  BY <1>10, PollPools
<1>11. ASSUME NEW r \in Requests, Granted(r) PROVE Kept'
  <2>1. /\ pc[r] = "granted" /\ pool' = pool /\ pc' = [pc EXCEPT ![r] = "call"]
        /\ stage' = [stage EXCEPT ![r] = stage[r]] /\ held' = [held EXCEPT ![r] = held[r]]
    BY <1>11 DEF Granted, RunStage
  <2>2. stage' = stage /\ held' = held
    BY <1>1, <2>1 DEF Flat
  <2> QED BY <1>1, <1>2, <2>1, <2>2 DEF Flat
<1>12. ASSUME NEW r \in Requests, ThreadEnds(r) \/ Cancel(r) PROVE Kept'
  BY <1>3, <1>12 DEF ThreadEnds, Cancel
<1>13. CASE Stop \/ UNCHANGED vars
  BY <1>3, <1>13 DEF Stop, vars, request
<1> QED BY <1>4, <1>6, <1>7, <1>8, <1>9, <1>10, <1>11, <1>12, <1>13
        DEF Next, RequestStep

\* Spec keeps the invariant of the pools.
LEMMA PoolInvariant == Spec => []PoolInv
<1>1. Init => PoolInv
  BY PoolInvInit
<1>2. PoolInv /\ [Next]_vars => PoolInv'
  BY PoolInvNext
<1> QED BY <1>1, <1>2, PTL DEF Spec

\* Every variable keeps its type, and every replica goes back to the pool it came from
\* (pool.py 176-268).
THEOREM TypeCorrect == Spec => []TypeOK
<1>1. PoolInv => TypeOK
  BY DEF PoolInv, Flat, Queues, Queue, TypeOK
<1> QED BY <1>1, PoolInvariant, PTL

\* Whatever times out, fails or is cancelled, each replica is free or held by one request.
THEOREM ReplicasAreAccounted == Spec => []EveryReplicaAccounted
<1>1. PoolInv => EveryReplicaAccounted
  <2> SUFFICES ASSUME PoolInv, NEW p \in Pools, NEW x \in Estimators(p)
               PROVE  \/ x \in pool[p].free /\ Holders(p, x) = {}
                      \/ x \notin pool[p].free /\ \E r \in Requests : Holders(p, x) = {r}
    BY DEF EveryReplicaAccounted
  <2>1. x # NoReplica
    BY PoolsApart
  <2>2. ASSUME NEW r \in Requests, held[r] = x PROVE PoolOf(stage[r]) = p
    <3>1. held[r] \in Estimators(PoolOf(stage[r])) /\ PoolOf(stage[r]) \in Pools
      BY <2>1, <2>2 DEF PoolInv, HoldInv, PoolOf, Pools
    <3> QED BY <2>2, <3>1, PoolsApart
  <2>3. Holders(p, x) = {r \in Requests : held[r] = x}
    BY <2>2 DEF Holders
  <2>4. CASE x \in pool[p].free
    BY <2>3, <2>4 DEF PoolInv, Account
  <2>5. CASE x \notin pool[p].free
    <3>1. PICK r \in Requests : held[r] = x
      BY <2>5 DEF PoolInv, Account
    <3>2. Holders(p, x) = {r}
      BY <2>1, <2>3, <3>1 DEF PoolInv, Account
    <3> QED BY <2>5, <3>2
  <2> QED BY <2>4, <2>5
<1> QED BY <1>1, PoolInvariant, PTL

\* While requests queue, there is a woken waiter for every free replica: a release, a
\* timeout and a cancellation lose no wake-up.
THEOREM NoWakeupIsLost == Spec => []NoLostWakeup
<1>1. PoolInv => NoLostWakeup
  BY DEF PoolInv, Queues, Wakeful, NoLostWakeup
<1> QED BY <1>1, PoolInvariant, PTL

-------------------------------------------------------------------------------
(***************************************************************************)
(* Threads.  Up to the first cancellation a thread runs the stage its      *)
(* request is in, on the replica the request holds; a join is under way    *)
(* only after that cancellation was delivered, and no other can follow.    *)
(***************************************************************************)
ThreadOf(r) ==
        /\ worker[r] # "none" =>
              pc[r] \in {"call", "join"} /\ worker[r] = stage[r] /\ uses[r] = held[r]
        /\ worker[r] = "none" => uses[r] = NoReplica
        /\ cancelled[r] => cancels >= 1
        /\ pc[r] = "join" => cancels >= 1 /\ ~cancelled[r]
        /\ pc[r] = "idle" => audio[r] = {}
        /\ "decoded" \in audio[r] /\ stage[r] = "decode" =>
              worker[r] = "none" /\ reply[r] = "value"
        /\ pc[r] = "done" => "decoded" \notin audio[r]

ThreadInv == cancels <= 1 => \A r \in Requests : ThreadOf(r)

(* The threads' invariant holds at first. *)
LEMMA ThreadInvInit == Init => ThreadInv
  BY DEF Init, ThreadInv, ThreadOf

\* Every step keeps it.
LEMMA ThreadInvNext == PoolInv /\ ThreadInv /\ [Next]_vars => ThreadInv'
<1> SUFFICES ASSUME PoolInv, ThreadInv, [Next]_vars, cancels' <= 1
             PROVE  \A s \in Requests : ThreadOf(s)'
  BY DEF ThreadInv
<1>1. Flat /\ HoldInv
  BY DEF PoolInv
<1>2. cancels \in Nat /\ cancels <= 1
  <2>1. cancels \in Nat
    BY <1>1, PoolAssumption DEF Flat
  <2>2. cancels' \in {cancels, cancels + 1}
    <3>1. ASSUME NEW r \in Requests, Begin(r) \/ RequestStep(r) \/ Timeout(r) \/ ThreadEnds(r)
          PROVE  cancels' = cancels
      BY <3>1, Zenon DEF RequestStep, Begin, Proceed, Raise, Join, Joined, Desert, Poll,
         Granted, Timeout, CancelWait, ThreadEnds
    <3>2. ASSUME NEW r \in Requests, Cancel(r) PROVE cancels' = cancels + 1
      BY <3>2 DEF Cancel
    <3>3. CASE Stop \/ UNCHANGED vars
      BY <3>3 DEF Stop, vars
    <3> QED BY <3>1, <3>2, <3>3 DEF Next
  <2> QED BY <2>1, <2>2
<1>3. \A s \in Requests : ThreadOf(s)
  BY <1>2 DEF ThreadInv
\* A request that a step of another one leaves alone.
<1>4. ASSUME NEW r \in Requests, cancels' >= cancels, NEW s \in Requests, s # r,
             pc'[s] = pc[s], stage'[s] = stage[s], held'[s] = held[s],
             worker'[s] = worker[s], uses'[s] = uses[s], reply'[s] = reply[s],
             audio'[s] = audio[s], cancelled'[s] = cancelled[s], cancels' \in Nat
      PROVE  ThreadOf(s)'
  BY <1>2, <1>3, <1>4 DEF ThreadOf
<1>5. ASSUME NEW r \in Requests, NEW st \in Stages, NEW x, RunStage(r, st, x),
             UNCHANGED <<audio, cancels>>, cancelled' \in [Requests -> BOOLEAN],
             \A s \in Requests \ {r} : cancelled'[s] = cancelled[s],
             cancelled'[r] => cancelled[r],
             st = "decode" => audio[r] = {}
      PROVE  \A s \in Requests : ThreadOf(s)'
  <2>1. \A s \in Requests \ {r} : ThreadOf(s)'
    BY <1>1, <1>2, <1>4, <1>5 DEF RunStage, Flat
  <2>2. /\ pc'[r] = "call" /\ stage'[r] = st /\ held'[r] = x /\ worker'[r] = st
        /\ uses'[r] = x /\ reply'[r] = "none" /\ audio'[r] = audio[r] /\ cancels' = cancels
    BY <1>1, <1>5 DEF RunStage, Flat
  <2>3. st # "none"
    BY DEF Stages
  <2>4. ThreadOf(r)'
    BY <1>3, <1>5, <2>2, <2>3 DEF ThreadOf
  <2> QED BY <2>1, <2>4
<1>6. ASSUME NEW r \in Requests, NEW P, NEW leaves, Leave(r, P, leaves),
             "decoded" \notin leaves, worker[r] = "none", UNCHANGED cancels,
             cancelled' \in [Requests -> BOOLEAN],
             \A s \in Requests \ {r} : cancelled'[s] = cancelled[s],
             cancelled'[r] => cancelled[r]
      PROVE  \A s \in Requests : ThreadOf(s)'
  <2>1. \A s \in Requests \ {r} : ThreadOf(s)'
    BY <1>1, <1>2, <1>4, <1>6 DEF Leave, Flat
  <2>2. /\ pc'[r] = "done" /\ stage'[r] = "none" /\ worker'[r] = "none"
        /\ uses'[r] = uses[r] /\ audio'[r] = leaves /\ cancels' = cancels
    BY <1>1, <1>6 DEF Leave, Flat
  <2>3. ThreadOf(r)'
    BY <1>3, <1>6, <2>2 DEF ThreadOf
  <2> QED BY <2>1, <2>3
<1>7. ASSUME NEW r \in Requests, NEW P, NEW st \in {"predict", "identify"}, Acquire(r, st, P),
             worker[r] = "none", UNCHANGED <<audio, cancelled, cancels>>
      PROVE  \A s \in Requests : ThreadOf(s)'
  <2>1. CASE \E x : RunStage(r, st, x)
    <3>1. st \in Stages /\ st # "decode"
      BY DEF Stages
    <3>2. cancelled' \in [Requests -> BOOLEAN]
      BY <1>1, <1>7 DEF Flat
    <3> QED BY <1>5, <1>7, <2>1, <3>1, <3>2
  <2>2. CASE /\ pc' = [pc EXCEPT ![r] = "wait"] /\ stage' = [stage EXCEPT ![r] = st]
             /\ held' = [held EXCEPT ![r] = NoReplica] /\ UNCHANGED <<worker, uses, reply>>
    <3>1. \A s \in Requests \ {r} : ThreadOf(s)'
      BY <1>1, <1>2, <1>4, <1>7, <2>2 DEF Flat
    <3>2. /\ pc'[r] = "wait" /\ stage'[r] = st /\ worker'[r] = "none"
          /\ uses'[r] = uses[r] /\ audio'[r] = audio[r] /\ cancels' = cancels
          /\ cancelled'[r] = cancelled[r]
      BY <1>1, <1>7, <2>2 DEF Flat
    <3>3. ThreadOf(r)'
      BY <1>3, <1>7, <3>2 DEF ThreadOf
    <3> QED BY <3>1, <3>3
  <2> QED BY <1>7, <2>1, <2>2 DEF Acquire
<1>8. ASSUME NEW r \in Requests, Begin(r) PROVE \A s \in Requests : ThreadOf(s)'
  <2>1. worker[r] = "none" /\ audio[r] = {} /\ UNCHANGED <<cancelled, cancels>>
    BY <1>3, <1>8 DEF Begin, ThreadOf
  <2>2. cancelled' \in [Requests -> BOOLEAN]
    BY <1>1, <2>1 DEF Flat
  <2>3. "decode" \in Stages
    BY DEF Stages
  <2> QED BY <1>5, <1>6, <1>8, <2>1, <2>2, <2>3 DEF Begin
<1>9. ASSUME NEW r \in Requests, Proceed(r) PROVE \A s \in Requests : ThreadOf(s)'
  <2>1. worker[r] = "none" /\ UNCHANGED <<cancelled, cancels>>
    BY <1>9 DEF Proceed
  <2>2. cancelled' \in [Requests -> BOOLEAN]
    BY <1>1, <2>1 DEF Flat
  <2>3. {"quality", "enhance"} \subseteq Stages
    BY DEF Stages
  <2>4. CASE /\ RunStage(r, "quality", NoReplica) \/ RunStage(r, "enhance", NoReplica)
             /\ UNCHANGED audio
    BY <1>5, <2>1, <2>2, <2>3, <2>4
  <2>5. CASE Leave(r, pool, {}) \/ Leave(r, GiveBack(r), {})
    BY <1>6, <2>1, <2>2, <2>5
  <2>6. CASE /\ Acquire(r, "predict", pool) \/ Acquire(r, "identify", GiveBack(r))
             /\ UNCHANGED audio
    BY <1>7, <2>1, <2>6
  <2> QED BY <1>9, <2>4, <2>5, <2>6 DEF Proceed
<1>10. ASSUME NEW r \in Requests, Raise(r) PROVE \A s \in Requests : ThreadOf(s)'
  <2>1. worker[r] = "none" /\ reply[r] = "error" /\ UNCHANGED <<cancelled, cancels>>
    BY <1>10 DEF Raise
  <2>2. cancelled' \in [Requests -> BOOLEAN]
    BY <1>1, <2>1 DEF Flat
  <2>3. "decoded" \notin Unknown(r)
    BY <1>3, <2>1 DEF ThreadOf, Unknown, Result
  <2> QED BY <1>6, <1>10, <2>1, <2>2, <2>3 DEF Raise
<1>11. ASSUME NEW r \in Requests, Join(r) PROVE \A s \in Requests : ThreadOf(s)'
  <2>1. /\ pc[r] = "call" /\ cancelled[r] /\ pc' = [pc EXCEPT ![r] = "join"]
        /\ cancelled' = [cancelled EXCEPT ![r] = FALSE]
        /\ UNCHANGED <<stage, held, audio, worker, uses, reply, cancels>>
    BY <1>11 DEF Join, threads
  <2>2. \A s \in Requests \ {r} : ThreadOf(s)'
    <3>1. \A s \in Requests \ {r} : pc'[s] = pc[s] /\ cancelled'[s] = cancelled[s]
      BY <1>1, <2>1 DEF Flat
    <3>2. cancels' >= cancels /\ cancels' \in Nat
      BY <1>2, <2>1
    <3> QED BY <1>4, <2>1, <3>1, <3>2
  <2>3. pc'[r] = "join" /\ ~cancelled'[r]
    BY <1>1, <2>1 DEF Flat
  <2>4. ThreadOf(r)'
    BY <1>3, <2>1, <2>3 DEF ThreadOf
  <2> QED BY <2>2, <2>4
<1>12. ASSUME NEW r \in Requests, Joined(r) PROVE \A s \in Requests : ThreadOf(s)'
  <2>1. worker[r] = "none" /\ UNCHANGED <<cancelled, cancels>>
    BY <1>12 DEF Joined
  <2>2. cancelled' \in [Requests -> BOOLEAN]
    BY <1>1, <2>1 DEF Flat
  <2> QED BY <1>6, <1>12, <2>1, <2>2 DEF Joined
<1>13. ASSUME NEW r \in Requests, Desert(r) PROVE FALSE
  BY <1>3, <1>13 DEF Desert, ThreadOf
<1>14. ASSUME NEW r \in Requests, Poll(r) PROVE \A s \in Requests : ThreadOf(s)'
  <2>1. pc[r] = "wait" /\ UNCHANGED <<stage, audio, cancelled, worker, uses, reply, cancels>>
    BY <1>14 DEF Poll, threads
  <2>2. worker[r] = "none"
    BY <1>3, <2>1 DEF ThreadOf
  <2>3. /\ pc'[r] \in {"wait", "granted"}
        /\ \A s \in Requests \ {r} : pc'[s] = pc[s] /\ held'[s] = held[s]
    BY <1>1, <1>14 DEF Poll, Flat
  <2>4. \A s \in Requests \ {r} : ThreadOf(s)'
    BY <1>2, <1>4, <2>1, <2>3
  <2>5. ThreadOf(r)'
    BY <1>3, <2>1, <2>2, <2>3 DEF ThreadOf
  <2> QED BY <2>4, <2>5
<1>15. ASSUME NEW r \in Requests, Granted(r) PROVE \A s \in Requests : ThreadOf(s)'
  <2>1. /\ RunStage(r, stage[r], held[r]) /\ UNCHANGED <<audio, cancels>>
        /\ cancelled' = [cancelled EXCEPT ![r] = FALSE]
    BY <1>15 DEF Granted
  <2>2. stage[r] \in {"predict", "identify"}
    BY <1>1, <1>15 DEF HoldInv, Granted
  <2>3. stage[r] \in Stages /\ stage[r] # "decode"
    BY <2>2 DEF Stages
  <2>4. /\ cancelled' \in [Requests -> BOOLEAN] /\ ~cancelled'[r]
        /\ \A s \in Requests \ {r} : cancelled'[s] = cancelled[s]
    BY <1>1, <2>1 DEF Flat
  <2> QED BY <1>5, <2>1, <2>3, <2>4
<1>16. ASSUME NEW r \in Requests, Timeout(r) \/ CancelWait(r)
       PROVE  \A s \in Requests : ThreadOf(s)'
  <2>1. /\ pc[r] = "wait" /\ cancels' = cancels
        /\ cancelled' = cancelled \/ cancelled' = [cancelled EXCEPT ![r] = FALSE]
        /\ Leave(r, [pool EXCEPT ![PoolOf(stage[r])] = Withdraw(@, r)], {})
    BY <1>16 DEF Timeout, CancelWait
  <2>2. worker[r] = "none"
    BY <1>3, <2>1 DEF ThreadOf
  <2>3. /\ cancelled' \in [Requests -> BOOLEAN] /\ (cancelled'[r] => cancelled[r])
        /\ \A s \in Requests \ {r} : cancelled'[s] = cancelled[s]
    BY <1>1, <2>1 DEF Flat
  <2> QED BY <1>6, <2>1, <2>2, <2>3
<1>17. ASSUME NEW r \in Requests, ThreadEnds(r) PROVE \A s \in Requests : ThreadOf(s)'
  <2>1. /\ worker[r] # "none" /\ worker' = [worker EXCEPT ![r] = "none"]
        /\ uses' = [uses EXCEPT ![r] = NoReplica]
        /\ UNCHANGED <<pc, stage, held, cancelled, cancels>>
    BY <1>17 DEF ThreadEnds
  <2>2. PICK result \in {"value", "error"} :
           /\ reply' = [reply EXCEPT ![r] = result]
           /\ audio' = IF result = "error" THEN audio
                       ELSE [audio EXCEPT ![r] = @ \cup Result(worker[r])]
    BY <1>17 DEF ThreadEnds
  <2>3. /\ worker'[r] = "none" /\ uses'[r] = NoReplica /\ reply'[r] = result
        /\ result = "error" => audio'[r] = audio[r]
    BY <1>1, <2>1, <2>2 DEF Flat
  <2>4. \A s \in Requests \ {r} :
           /\ worker'[s] = worker[s] /\ uses'[s] = uses[s] /\ reply'[s] = reply[s]
           /\ audio'[s] = audio[s]
    BY <1>1, <2>1, <2>2 DEF Flat
  <2>5. \A s \in Requests \ {r} : ThreadOf(s)'
    BY <1>2, <1>4, <2>1, <2>4
  <2>6. ThreadOf(r)'
    <3>1. pc[r] \in {"call", "join"} /\ worker[r] = stage[r]
      BY <1>3, <2>1 DEF ThreadOf
    <3>2. "decoded" \in audio'[r] /\ stage[r] = "decode" => reply'[r] = "value"
      BY <1>3, <2>1, <2>2, <2>3 DEF ThreadOf
    <3> QED BY <1>3, <2>1, <2>3, <3>1, <3>2 DEF ThreadOf
  <2> QED BY <2>5, <2>6
<1>18. ASSUME NEW r \in Requests, Cancel(r) PROVE \A s \in Requests : ThreadOf(s)'
  <2>1. /\ pc[r] \in {"call", "join", "wait", "granted"} /\ cancels' = cancels + 1
        /\ cancelled' = [cancelled EXCEPT ![r] = TRUE]
        /\ UNCHANGED <<pc, stage, held, audio, worker, uses, reply>>
    BY <1>18 DEF Cancel, threads
  <2>2. \A s \in Requests \ {r} : ThreadOf(s)'
    <3>1. \A s \in Requests \ {r} : cancelled'[s] = cancelled[s]
      BY <1>1, <2>1 DEF Flat
    <3>2. cancels' >= cancels /\ cancels' \in Nat
      BY <1>2, <2>1
    <3> QED BY <1>4, <2>1, <3>1, <3>2
  <2>3. pc[r] # "join"
    BY <1>2, <1>3, <2>1 DEF ThreadOf
  <2>4. ThreadOf(r)'
    BY <1>2, <1>3, <2>1, <2>3 DEF ThreadOf
  <2> QED BY <2>2, <2>4
<1>19. CASE Stop \/ UNCHANGED vars
  <2>1. UNCHANGED <<pc, stage, held, audio, cancelled, worker, uses, reply, cancels>>
    BY <1>19 DEF Stop, vars, threads, request
  <2> QED BY <1>3, <2>1 DEF ThreadOf
<1> QED BY <1>8, <1>9, <1>10, <1>11, <1>12, <1>13, <1>14, <1>15, <1>16, <1>17, <1>18, <1>19
        DEF Next, RequestStep

\* Spec keeps the invariant of the threads.
LEMMA ThreadInvariant == Spec => [](PoolInv /\ ThreadInv)
<1>1. Init => PoolInv /\ ThreadInv
  BY PoolInvInit, ThreadInvInit
<1>2. PoolInv /\ ThreadInv /\ [Next]_vars => (PoolInv /\ ThreadInv)'
  BY PoolInvNext, ThreadInvNext
<1> QED BY <1>1, <1>2, PTL DEF Spec

\* A single cancellation leaves no thread behind, and no two threads run on one replica:
\* _thread_call joins before release and before the audio is wiped (service.py 33-57).
THEOREM ThreadsAreJoinedOnce == Spec => []WorkersAreJoined
<1>1. PoolInv /\ ThreadInv => WorkersAreJoined
  <2> SUFFICES ASSUME PoolInv, \A r \in Requests : ThreadOf(r)
               PROVE  /\ ThreadsAreJoined
                      /\ \A r1, r2 \in Requests :
                            r1 # r2 /\ uses[r1] = uses[r2] => uses[r1] = NoReplica
    BY DEF ThreadInv, WorkersAreJoined
  <2>1. ThreadsAreJoined
    BY DEF ThreadsAreJoined, ThreadOf
  <2>2. ASSUME NEW r1 \in Requests, NEW r2 \in Requests, r1 # r2, uses[r1] = uses[r2]
        PROVE  uses[r1] = NoReplica
    <3>1. \A r \in Requests : uses[r] \in {held[r], NoReplica}
      BY DEF ThreadOf
    <3> QED BY <2>2, <3>1 DEF PoolInv, Account
  <2> QED BY <2>1, <2>2
<1> QED BY <1>1, ThreadInvariant, PTL

\* Decoded samples are wiped also when the request is cancelled while they are decoded
\* (the on_cancel of _thread_call).
THEOREM DecodedIsWiped == Spec => []DecodedAudioWiped
<1>1. ThreadInv => DecodedAudioWiped
  BY DEF ThreadInv, ThreadOf, DecodedAudioWiped
<1> QED BY <1>1, ThreadInvariant, PTL

===============================================================================
