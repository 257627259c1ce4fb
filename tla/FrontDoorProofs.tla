---------------------------- MODULE FrontDoorProofs ----------------------------
(***************************************************************************)
(* Theorems about what every POST /analyze passes and what every answer    *)
(* says: the rate limiter, the reading of one body, the rules that turn    *)
(* scores into an answer, and the configurations the service accepts.      *)
(* They hold for any values of the constants: any clients, burst, rate,    *)
(* table size and clock resolution; any pieces of a body and any limits;   *)
(* any scores, thresholds and configuration.                               *)
(***************************************************************************)
EXTENDS MCFrontDoor, FiniteSetTheorems, TLAPS

-------------------------------------------------------------------------------
(* The rate limiter. *)

(* The limiter's bounds are numbers. *)
LEMMA Constants ==
    /\ TokenParts \in Nat \ {0} /\ Capacity \in Nat \ {0} /\ Refill \in Nat \ {0}
    /\ TicksPerSecond \in Nat \ {0} /\ MaxClients \in Nat \ {0} /\ MaxTime \in Nat
    /\ Nobody \notin Clients /\ Patient \subseteq Clients
BY LimiterAssumption DEF LimiterAssumption

(* A full bucket holds at least one token. *)
LEMMA FullIsAToken == Full \in Nat /\ TokenParts <= Full
<1>1. \A c, p \in Nat \ {0} : c * p \in Nat /\ p <= c * p
  OBVIOUS
<1> QED BY <1>1, Constants DEF Full

(* A tick's refill is the same whenever it comes. *)
LEMMA Products ==
    ASSUME NEW a \in Nat, NEW b \in Nat, NEW r \in Nat
    PROVE  a * r \in Nat /\ (a + b) * r = a * r + b * r /\ (b >= 1 => b * r >= r)
<1>1. a * r \in Nat /\ (a + b) * r = a * r + b * r
  OBVIOUS
<1>2. b >= 1 => b * r >= r
  OBVIOUS
<1> QED BY <1>1, <1>2

(* A refill never makes a bucket more than full, nor gives more than the time is worth. *)
LEMMA RefilledType ==
    ASSUME LimiterTypeOK, NEW c \in Clients
    PROVE  /\ Refilled(c) \in 0..Full
           /\ (now - seen[c]) * Refill \in Nat
           /\ Refilled(c) <= tokens[c] + (now - seen[c]) * Refill
<1>1. tokens[c] \in 0..Full /\ seen[c] \in 0..now /\ now \in Nat
  BY DEF LimiterTypeOK
<1>2. now - seen[c] \in Nat
  BY <1>1
<1>3. (now - seen[c]) * Refill \in Nat
  BY <1>2, Constants, Products
<1> QED BY <1>1, <1>3, FullIsAToken DEF Refilled, Least

-----------------------------------------------------------------------------
(* The numbers of Retry-After. *)

(* Retry-After is a positive number of seconds. *)
LEMMA RetryAfterType ==
    ASSUME NEW missing \in Nat
    PROVE  RetryAfter(missing) \in Nat /\ RetryAfter(missing) >= 1
<1>1. \A r, t \in Nat \ {0} : 2 * r * t \in Nat \ {0} /\ r * t \in Nat
  OBVIOUS
<1>2. (2 * missing + Refill * TicksPerSecond) \div (2 * Refill * TicksPerSecond) \in Nat
  BY <1>1, Constants
<1> QED BY <1>2 DEF RetryAfter, Most

(* Waiting as long as Retry-After says refills what is missing up to half a second. *)
LEMMA RetryAfterRounds ==
    ASSUME NEW missing \in Nat
    PROVE  2 * (TicksPerSecond * RetryAfter(missing) * Refill) + Refill * TicksPerSecond >= 2 * missing
<1> DEFINE step == Refill * TicksPerSecond
           wait == RetryAfter(missing)
           x == 2 * missing + step
           q == x \div (2 * step)
<1>1. step \in Nat \ {0}
  <2>1. \A r, t \in Nat \ {0} : r * t \in Nat \ {0}
    OBVIOUS
  <2> QED BY <2>1, Constants
<1>2. wait \in Nat
  BY RetryAfterType
<1>3. 2 * Refill * TicksPerSecond = 2 * step
  BY Constants
<1>4. TicksPerSecond * wait * Refill = wait * step
  <2> HIDE DEF wait
  <2> QED BY <1>2, Constants
<1>5. q \in Int /\ wait >= q
  <2>1. wait = Most(1, q)
    BY <1>3 DEF RetryAfter
  <2>2. q \in Int
    <3> HIDE DEF step
    <3> QED BY <1>1
  <2> HIDE DEF q, wait
  <2> QED BY <2>1, <2>2 DEF Most
<1>6. x < q * (2 * step) + 2 * step
  <2>1. x \in Nat
    <3> HIDE DEF step
    <3> QED BY <1>1
  <2>2. \A m \in Nat, d \in Nat \ {0} : m < (m \div d) * d + d
    OBVIOUS
  <2>3. 2 * step \in Nat \ {0}
    <3> HIDE DEF step
    <3> QED BY <1>1
  <2> HIDE DEF x, step
  <2> QED BY <2>1, <2>2, <2>3
<1>7. q * (2 * step) <= 2 * (wait * step)
  <2> HIDE DEF q, wait, step
  <2>1. \A a, b \in Int, d \in Nat : a <= b => a * (2 * d) <= 2 * (b * d)
    OBVIOUS
  <2> QED BY <1>1, <1>2, <1>5, <2>1
<1>8. q * (2 * step) \in Int /\ wait * step \in Int
  <2> HIDE DEF q, wait, step
  <2> QED BY <1>1, <1>2, <1>5
<1>9. 2 * (wait * step) + step >= 2 * missing
  <2>1. x = 2 * missing + step
    OBVIOUS
  <2> HIDE DEF q, wait, step, x
  <2> QED BY <1>1, <1>6, <1>7, <1>8, <2>1
<1> QED BY <1>4, <1>9 DEF step, wait

-----------------------------------------------------------------------------
TableInv == LimiterTypeOK /\ IsFiniteSet(tracked)

(* _evict_if_full makes room for the newcomer. *)
LEMMA EvictionMakesRoom ==
    ASSUME TableInv, NEW c \in Clients, NEW gone \in Evicted
    PROVE  /\ gone \subseteq tracked
           /\ IsFiniteSet((tracked \ gone) \cup {c})
           /\ Cardinality((tracked \ gone) \cup {c}) <= MaxClients
<1>1. IsFiniteSet(tracked) /\ Cardinality(tracked) \in Nat /\ Cardinality(tracked) <= MaxClients
  BY FS_CardinalityType DEF TableInv, LimiterTypeOK
<1>2. gone \subseteq tracked
  BY DEF Evicted
<1>3. IsFiniteSet(tracked \ gone) /\ Cardinality(tracked \ gone) <= Cardinality(tracked)
  BY <1>1, FS_Subset
<1>4. Cardinality(tracked \ gone) \in Nat
  BY <1>3, FS_CardinalityType
<1>5. Cardinality(tracked \ gone) < MaxClients
  <2>1. CASE Cardinality(tracked) < MaxClients
    BY <1>1, <1>3, <1>4, <2>1, Constants
  <2>2. CASE ~(Cardinality(tracked) < MaxClients)
    <3>1. Cardinality(gone) = Most(1, MaxClients \div 10)
      BY <2>2 DEF Evicted
    <3>2. Cardinality(gone) >= 1
      <4>1. MaxClients \div 10 \in Int
        BY Constants
      <4> QED BY <3>1, <4>1 DEF Most
    <3>3. gone # {}
      BY <3>2, FS_EmptySet
    <3>4. tracked \ gone # tracked
      BY <1>2, <3>3
    <3>5. Cardinality(tracked \ gone) # Cardinality(tracked)
      BY <1>1, <3>4, FS_Subset
    <3> QED BY <1>1, <1>3, <1>4, <3>5, Constants
  <2> QED BY <2>1, <2>2
<1>6. /\ IsFiniteSet((tracked \ gone) \cup {c})
      /\ Cardinality((tracked \ gone) \cup {c}) <= Cardinality(tracked \ gone) + 1
  <2> DEFINE S == tracked \ gone
  <2>1. /\ IsFiniteSet(S \cup {c})
        /\ Cardinality(S \cup {c}) = IF c \in S THEN Cardinality(S) ELSE Cardinality(S) + 1
    BY <1>3, FS_AddElement
  <2> HIDE DEF S
  <2>2. Cardinality(S) \in Nat
    BY <1>4 DEF S
  <2>3. Cardinality(S \cup {c}) <= Cardinality(S) + 1
    BY <2>1, <2>2
  <2> QED BY <2>1, <2>3 DEF S
<1>7. Cardinality((tracked \ gone) \cup {c}) \in Nat
  BY <1>6, FS_CardinalityType
<1> QED BY <1>2, <1>4, <1>5, <1>6, <1>7, Constants

(* The table's invariant holds at first. *)
LEMMA TableInit == LimiterInit => TableInv
BY FS_EmptySet, Constants, FullIsAToken DEF LimiterInit, TableInv, LimiterTypeOK

(* Every check keeps it. *)
LEMMA TableStep ==
    ASSUME TableInv, [LimiterNext]_limiterVars
    PROVE  TableInv'
<1> USE DEF TableInv
<1>1. now \in Nat /\ Full \in Nat /\ TokenParts \in Nat /\ TokenParts <= Full
  BY Constants, FullIsAToken DEF LimiterTypeOK
<1>2. ASSUME NEW c \in Clients, AdmitNew(c) PROVE TableInv'
  <2>1. PICK gone \in Evicted :
          /\ tracked' = (tracked \ gone) \cup {c}
          /\ tokens' = [Without(tokens, gone) EXCEPT ![c] = Full - TokenParts]
          /\ seen' = [Without(seen, gone) EXCEPT ![c] = now]
          /\ IF watched \in gone
             THEN watched' = Nobody /\ since' = 0 /\ admitted' = 0
             ELSE UNCHANGED watch
    BY <1>2 DEF AdmitNew
  <2>2. /\ tracked' \subseteq Clients /\ IsFiniteSet(tracked')
        /\ Cardinality(tracked') <= MaxClients
    BY <2>1, EvictionMakesRoom DEF LimiterTypeOK
  <2>3. tokens' \in [Clients -> 0..Full] /\ seen' \in [Clients -> 0..now]
    BY <1>1, <2>1 DEF Without, LimiterTypeOK
  <2>4. watched' \in tracked' \cup {Nobody} /\ since' \in 0..now /\ admitted' \in Nat
    <3>1. CASE watched \in gone
      BY <1>1, <2>1, <3>1
    <3>2. CASE watched \notin gone
      BY <2>1, <3>2 DEF watch, LimiterTypeOK
    <3> QED BY <3>1, <3>2
  <2>5. /\ now' = now
        /\ due' = [due EXCEPT ![c] = now] /\ refusals' = [refusals EXCEPT ![c] = 0]
    BY <1>2 DEF AdmitNew
  <2>6. due' \in [Clients -> Nat] /\ refusals' \in [Clients -> Nat]
    BY <1>1, <2>5 DEF LimiterTypeOK
  <2> QED BY <1>1, <2>2, <2>3, <2>4, <2>5, <2>6 DEF LimiterTypeOK
<1>3. ASSUME NEW c \in Clients, Admit(c) PROVE TableInv'
  <2>1. Refilled(c) \in 0..Full /\ Refilled(c) >= TokenParts
    BY <1>3, RefilledType DEF Admit
  <2>2. Refilled(c) - TokenParts \in 0..Full
    BY <1>1, <2>1
  <2>3. now \in 0..now
    BY <1>1
  <2> QED BY <1>1, <1>3, <2>2, <2>3 DEF Admit, LimiterTypeOK
<1>4. ASSUME NEW c \in Clients, Refuse(c) PROVE TableInv'
  <2>1. Refilled(c) \in 0..Full /\ Refilled(c) < TokenParts
    BY <1>4, RefilledType DEF Refuse
  <2>2. TokenParts - Refilled(c) \in Nat
    BY <1>1, <2>1
  <2>3. now + TicksPerSecond * RetryAfter(TokenParts - Refilled(c)) \in Nat
    BY <1>1, <2>2, RetryAfterType, Constants
  <2>4. now \in 0..now
    BY <1>1
  <2> QED BY <1>1, <1>4, <2>1, <2>3, <2>4 DEF Refuse, LimiterTypeOK, watch
<1>5. CASE Elapse
  BY <1>1, <1>5 DEF Elapse, LimiterTypeOK, buckets, advice, watch
<1>6. ASSUME NEW c \in Clients, Watch(c) PROVE TableInv'
  BY <1>1, <1>6 DEF Watch, LimiterTypeOK, buckets, advice
<1>7. CASE UNCHANGED limiterVars
  BY <1>7 DEF limiterVars, LimiterTypeOK, buckets, advice, watch
<1> QED BY <1>2, <1>3, <1>4, <1>5, <1>6, <1>7 DEF LimiterNext

(* LimiterTypeCorrect: every variable stays in its type, no bucket is overdrawn or above the *)
(* burst, and no more clients are tracked than the table may hold.                    *)
THEOREM LimiterTypeCorrect == LimiterSpec => []LimiterTypeOK
<1>1. TableInv => LimiterTypeOK
  BY DEF TableInv
<1> QED BY <1>1, TableInit, TableStep, PTL DEF LimiterSpec

-----------------------------------------------------------------------------
(* What a client has used and has left, and what it may have used by now. *)
Spent == admitted * TokenParts + Refilled(watched)
Allowed == Full + (now - since) * Refill

(* The bucket of the observed client is the one there was when that began. *)
LEMMA StepKeepsLimit ==
    ASSUME LimiterTypeOK, LimitHolds, [LimiterNext]_limiterVars
    PROVE  LimitHolds'
<1> SUFFICES ASSUME watched' # Nobody PROVE (Spent <= Allowed)'
  BY DEF LimitHolds, Spent, Allowed
<1>1. /\ now \in Nat /\ Full \in Nat /\ TokenParts \in Nat \ {0} /\ TokenParts <= Full
      /\ Refill \in Nat \ {0} /\ admitted \in Nat /\ since \in 0..now
  BY Constants, FullIsAToken DEF LimiterTypeOK
<1>2. /\ admitted * TokenParts \in Nat
      /\ (admitted + 1) * TokenParts = admitted * TokenParts + TokenParts
      /\ 0 * TokenParts = 0 /\ 0 * Refill = 0
  BY <1>1
<1>3. /\ (now - since) * Refill \in Nat
      /\ (now + 1 - since) * Refill = (now - since) * Refill + Refill
  <2>1. \A a \in Nat, r \in Nat : a * r \in Nat /\ (a + 1) * r = a * r + r
    OBVIOUS
  <2>2. now - since \in Nat /\ now + 1 - since = (now - since) + 1
    BY <1>1
  <2> QED BY <1>1, <2>1, <2>2
<1>4. ASSUME watched # Nobody
      PROVE  watched \in Clients /\ watched \in tracked /\ Refilled(watched) \in 0..Full /\ Spent <= Allowed
  BY <1>4, RefilledType DEF LimiterTypeOK, LimitHolds, Spent, Allowed
<1>5. ASSUME UNCHANGED <<now, tokens[watched], seen[watched], watched, since, admitted>>
      PROVE  (Spent <= Allowed)'
  <2>1. Refilled(watched)' = Refilled(watched)
    BY <1>5 DEF Refilled
  <2> QED BY <1>4, <1>5, <2>1 DEF Spent, Allowed
<1>6. ASSUME NEW c \in Clients, c = watched', now' = now, seen'[c] = now, tokens'[c] \in 0..Full
      PROVE  Refilled(watched)' = tokens'[c]
  <2>1. (now - now) * Refill = 0
    BY <1>1
  <2>2. Refilled(watched)' = Least(Full, tokens'[c] + (now - now) * Refill)
    BY <1>6 DEF Refilled
  <2> QED BY <1>1, <1>6, <2>1, <2>2 DEF Least
<1>7. ASSUME NEW c \in Clients, AdmitNew(c) PROVE (Spent <= Allowed)'
  <2>1. PICK gone \in Evicted :
          /\ tokens' = [Without(tokens, gone) EXCEPT ![c] = Full - TokenParts]
          /\ seen' = [Without(seen, gone) EXCEPT ![c] = now]
          /\ IF watched \in gone THEN watched' = Nobody ELSE UNCHANGED watch
    BY <1>7 DEF AdmitNew
  <2>2. watched \notin gone /\ UNCHANGED watch
    BY <2>1
  <2>3. watched \in Clients /\ watched # c
    BY <1>4, <1>7, <2>2 DEF AdmitNew, watch
  <2>4. tokens'[watched] = tokens[watched] /\ seen'[watched] = seen[watched]
    BY <2>1, <2>2, <2>3 DEF Without
  <2>5. now' = now
    BY <1>7 DEF AdmitNew
  <2> QED BY <1>5, <2>2, <2>4, <2>5 DEF watch
<1>8. ASSUME NEW c \in Clients, Admit(c) PROVE (Spent <= Allowed)'
  <2>1. /\ now' = now /\ watched' = watched /\ since' = since
        /\ tokens' = [tokens EXCEPT ![c] = Refilled(c) - TokenParts]
        /\ seen' = [seen EXCEPT ![c] = now]
        /\ admitted' = IF c = watched THEN admitted + 1 ELSE admitted
        /\ Refilled(c) >= TokenParts
    BY <1>8 DEF Admit
  <2>2. CASE c = watched
    <3>1. Refilled(c) \in 0..Full /\ Spent <= Allowed
      BY <1>4, <2>1, <2>2
    <3>2. tokens'[c] = Refilled(c) - TokenParts /\ seen'[c] = now
      BY <2>1 DEF LimiterTypeOK
    <3>3. Refilled(watched)' = Refilled(c) - TokenParts
      BY <1>1, <1>6, <2>1, <2>2, <3>1, <3>2
    <3> QED BY <1>1, <1>2, <1>3, <2>1, <2>2, <3>1, <3>3 DEF Spent, Allowed
  <2>3. CASE c # watched
    BY <1>5, <2>1, <2>3
  <2> QED BY <2>2, <2>3
<1>9. ASSUME NEW c \in Clients, Refuse(c) PROVE (Spent <= Allowed)'
  <2>1. /\ now' = now /\ UNCHANGED watch
        /\ tokens' = [tokens EXCEPT ![c] = Refilled(c)]
        /\ seen' = [seen EXCEPT ![c] = now]
    BY <1>9 DEF Refuse
  <2>2. CASE c = watched
    <3>1. Refilled(c) \in 0..Full
      BY <1>4, <2>1, <2>2 DEF watch
    <3>2. tokens'[c] = Refilled(c) /\ seen'[c] = now
      BY <2>1 DEF LimiterTypeOK
    <3>3. Refilled(watched)' = Refilled(c)
      BY <1>6, <2>1, <2>2, <3>1, <3>2 DEF watch
    <3> QED BY <1>4, <2>1, <2>2, <3>3 DEF Spent, Allowed, watch
  <2>3. CASE c # watched
    BY <1>5, <2>1, <2>3 DEF watch
  <2> QED BY <2>2, <2>3
<1>10. CASE Elapse
  <2>1. now' = now + 1 /\ UNCHANGED <<tokens, seen, watched, since, admitted>>
    BY <1>10 DEF Elapse, buckets, watch
  <2>2. watched \in Clients /\ Refilled(watched) \in 0..Full /\ Spent <= Allowed
    BY <1>4, <2>1
  <2>3. Refilled(watched)' <= Refilled(watched) + Refill /\ Refilled(watched)' \in Int
    <3>1. tokens[watched] \in Nat /\ seen[watched] \in 0..now
      BY <2>2 DEF LimiterTypeOK
    <3>2. /\ (now - seen[watched]) * Refill \in Nat
          /\ (now + 1 - seen[watched]) * Refill = (now - seen[watched]) * Refill + Refill
      <4>1. \A a \in Nat, r \in Nat : a * r \in Nat /\ (a + 1) * r = a * r + r
        OBVIOUS
      <4>2. now - seen[watched] \in Nat /\ now + 1 - seen[watched] = (now - seen[watched]) + 1
        BY <1>1, <3>1
      <4> QED BY <1>1, <4>1, <4>2
    <3>3. Refilled(watched)' = Least(Full, tokens'[watched'] + (now' - seen'[watched']) * Refill)
      BY DEF Refilled
    <3>4. /\ tokens'[watched'] = tokens[watched]
          /\ now' - seen'[watched'] = now + 1 - seen[watched]
      BY <1>1, <2>1, <3>1
    <3>5. (now' - seen'[watched']) * Refill = (now - seen[watched]) * Refill + Refill
      <4>1. \A x, y, z : x = y /\ y * Refill = z => x * Refill = z
        OBVIOUS
      <4> QED BY <3>2, <3>4, <4>1, Zenon
    <3>6. Refilled(watched) = Least(Full, tokens[watched] + (now - seen[watched]) * Refill)
      BY DEF Refilled
    <3> QED BY <1>1, <3>1, <3>2, <3>3, <3>4, <3>5, <3>6 DEF Least
  <2> QED BY <1>1, <1>2, <1>3, <2>1, <2>2, <2>3 DEF Spent, Allowed
<1>11. ASSUME NEW c \in Clients, Watch(c) PROVE (Spent <= Allowed)'
  <2>1. /\ watched' = c /\ since' = now /\ admitted' = 0
        /\ UNCHANGED <<now, tokens, seen>>
    BY <1>11 DEF Watch, buckets
  <2>2. Refilled(watched)' = Refilled(c) /\ Refilled(c) \in 0..Full
    BY <2>1, RefilledType DEF Refilled
  <2>3. (now - now) * Refill = 0
    BY <1>1
  <2> QED BY <1>1, <1>2, <2>1, <2>2, <2>3 DEF Spent, Allowed
<1>12. CASE UNCHANGED limiterVars
  BY <1>5, <1>12 DEF limiterVars, buckets, watch
<1> QED BY <1>7, <1>8, <1>9, <1>10, <1>11, <1>12 DEF LimiterNext

(* TheRateIsKept (ratelimit.py check): from any moment on a tracked client is admitted *)
(* no more often than its burst and the sustained rate allow, for any burst, rate and  *)
(* spacing of its calls.                                                               *)
THEOREM TheRateIsKept == LimiterSpec => []LimitHolds
<1>1. LimiterInit => LimitHolds
  BY DEF LimiterInit, LimitHolds
<1>2. LimiterTypeOK /\ LimitHolds /\ [LimiterNext]_limiterVars => LimitHolds'
  BY StepKeepsLimit
<1> QED BY <1>1, <1>2, LimiterTypeCorrect, PTL DEF LimiterSpec

-----------------------------------------------------------------------------
(* What a refused client's bucket will have when it is due, and a second's refill. *)
Promised(c) == tokens[c] + (due[c] - seen[c]) * Refill
Second == Refill * TicksPerSecond

(* The first refusal's advice is short by half a second at most, the second's by nothing. *)
AdviceIsGood(c) ==
    /\ refusals[c] <= 2
    /\ c \in tracked =>
         /\ seen[c] <= due[c]
         /\ refusals[c] = 1 => 2 * Promised(c) + Second >= 2 * TokenParts
         /\ refusals[c] = 2 => Promised(c) >= TokenParts

PatienceInv == \A c \in Patient : AdviceIsGood(c)

(* A patient client that is refused comes when it is due or later. *)
LEMMA AdviceIsFollowed ==
    ASSUME LimiterTypeOK, NEW c \in Clients, c \in tracked, AdviceIsGood(c), now >= due[c]
    PROVE  /\ refusals[c] = 1 => 2 * Refilled(c) + Second >= 2 * TokenParts
           /\ refusals[c] = 2 => Refilled(c) >= TokenParts
<1>1. /\ now \in Nat /\ due[c] \in Nat /\ seen[c] \in 0..now /\ tokens[c] \in 0..Full
      /\ Full \in Nat /\ TokenParts \in Nat /\ TokenParts <= Full
      /\ Refill \in Nat /\ TicksPerSecond \in Nat
  BY Constants, FullIsAToken DEF LimiterTypeOK
<1>2. Second \in Nat
  BY <1>1 DEF Second
<1>3. seen[c] <= due[c]
  BY DEF AdviceIsGood
<1> DEFINE early == due[c] - seen[c]
           late == now - seen[c]
<1>4. early \in Nat /\ late \in Nat /\ early <= late
  BY <1>1, <1>3
<1>5. early * Refill \in Nat /\ late * Refill \in Nat /\ early * Refill <= late * Refill
  <2>1. \A a, b, r \in Nat : a <= b => a * r \in Nat /\ b * r \in Nat /\ a * r <= b * r
    OBVIOUS
  <2> HIDE DEF early, late
  <2> QED BY <1>1, <1>4, <2>1
<1>6. Refilled(c) = Least(Full, tokens[c] + late * Refill)
  BY DEF Refilled
<1>7. Promised(c) = tokens[c] + early * Refill
  BY DEF Promised
<1> HIDE DEF early, late
<1>8. Refilled(c) = Full \/ Refilled(c) >= Promised(c)
  BY <1>1, <1>5, <1>6, <1>7 DEF Least
<1>9. Refilled(c) \in Nat /\ Promised(c) \in Nat
  BY <1>1, <1>5, <1>6, <1>7 DEF Least
<1> QED BY <1>1, <1>2, <1>8, <1>9 DEF AdviceIsGood

(* The advice of a refusal. *)
LEMMA AdviceIsGiven ==
    ASSUME LimiterTypeOK, NEW c \in Patient, AdviceIsGood(c), Refuse(c)
    PROVE  AdviceIsGood(c)'
<1>1. c \in Clients /\ c \in tracked /\ now >= due[c] /\ Refilled(c) < TokenParts
  BY Constants DEF Refuse, Comes
<1>2. Refilled(c) \in 0..Full /\ TokenParts \in Nat /\ now \in Nat /\ TicksPerSecond \in Nat \ {0}
  BY <1>1, RefilledType, Constants DEF LimiterTypeOK
<1> DEFINE missing == TokenParts - Refilled(c)
           wait == TicksPerSecond * RetryAfter(missing)
<1>3. missing \in Nat
  BY <1>1, <1>2
<1>4. /\ tokens'[c] = Refilled(c) /\ seen'[c] = now /\ due'[c] = now + wait
      /\ refusals'[c] = refusals[c] + 1
  BY <1>1 DEF Refuse, LimiterTypeOK
<1>5. wait \in Nat /\ wait >= TicksPerSecond
  <2>1. RetryAfter(missing) \in Nat /\ RetryAfter(missing) >= 1
    BY <1>3, RetryAfterType
  <2>2. \A a, b \in Nat : b >= 1 => a * b \in Nat /\ a * b >= a
    OBVIOUS
  <2> HIDE DEF missing
  <2> QED BY <1>2, <2>1, <2>2
<1>6. 2 * (wait * Refill) + Second >= 2 * missing
  BY <1>3, RetryAfterRounds DEF Second
<1>7. wait * Refill \in Nat /\ wait * Refill >= Second /\ Second \in Nat
  <2>1. \A a, b, r \in Nat : a >= b => a * r \in Nat /\ a * r >= r * b /\ r * b \in Nat
    OBVIOUS
  <2> HIDE DEF wait
  <2> QED BY <1>2, <1>5, <2>1, Constants DEF Second
<1>8. Promised(c)' = Refilled(c) + wait * Refill
  <2>1. Promised(c)' = tokens'[c] + (due'[c] - seen'[c]) * Refill
    BY DEF Promised
  <2>2. due'[c] - seen'[c] = wait
    <3> HIDE DEF wait
    <3> QED BY <1>2, <1>4, <1>5
  <2> HIDE DEF wait
  <2> QED BY <1>4, <2>1, <2>2
<1>9. Second' = Second
  BY DEF Second
<1>10. refusals[c] \in 0..1
  <2>1. refusals[c] \in Nat /\ refusals[c] <= 2
    BY <1>1 DEF LimiterTypeOK, AdviceIsGood
  <2>2. refusals[c] # 2
    BY <1>1, <1>2, AdviceIsFollowed
  <2> QED BY <2>1, <2>2
<1>11. refusals[c] = 1 => 2 * Refilled(c) + Second >= 2 * TokenParts
  BY <1>1, AdviceIsFollowed
<1> HIDE DEF wait
<1>12. 2 * (Refilled(c) + wait * Refill) + Second >= 2 * TokenParts
  BY <1>2, <1>6, <1>7 DEF missing
<1>13. refusals[c] = 1 => Refilled(c) + wait * Refill >= TokenParts
  BY <1>2, <1>7, <1>11
<1>14. seen'[c] <= due'[c]
  BY <1>2, <1>4, <1>5
<1> QED BY <1>4, <1>8, <1>9, <1>10, <1>12, <1>13, <1>14 DEF AdviceIsGood

(* RetryAfterSuffices (main.py request_observability): a client that obeys Retry-After *)
(* is refused at most twice in a row, though the header is rounded to the nearest      *)
(* second, for any rate, burst and clock resolution.                                   *)
THEOREM RetryAfterSuffices == LimiterSpec => []PatienceIsRewarded
<1>1. LimiterInit => PatienceInv
  BY Constants DEF LimiterInit, PatienceInv, AdviceIsGood
<1>2. LimiterTypeOK /\ PatienceInv /\ [LimiterNext]_limiterVars => PatienceInv'
  <2> SUFFICES ASSUME LimiterTypeOK, PatienceInv, [LimiterNext]_limiterVars,
                      NEW c \in Patient
               PROVE  AdviceIsGood(c)'
    BY DEF PatienceInv
  <2>1. c \in Clients /\ AdviceIsGood(c) /\ now \in Nat
    BY Constants DEF PatienceInv, LimiterTypeOK
  <2>2. ASSUME refusals'[c] = refusals[c],
               c \in tracked' => /\ c \in tracked
                                 /\ UNCHANGED <<tokens[c], seen[c], due[c]>>
        PROVE  AdviceIsGood(c)'
    <3>1. c \in tracked' => Promised(c)' = Promised(c)
      BY <2>2 DEF Promised
    <3>2. Second' = Second
      BY DEF Second
    <3> QED BY <2>1, <2>2, <3>1, <3>2 DEF AdviceIsGood
  <2>3. ASSUME refusals'[c] = 0, seen'[c] = now, due'[c] = now
        PROVE  AdviceIsGood(c)'
    BY <2>1, <2>3 DEF AdviceIsGood
  <2>4. ASSUME NEW d \in Clients, AdmitNew(d) PROVE AdviceIsGood(c)'
    <3>1. PICK gone \in Evicted :
            /\ tracked' = (tracked \ gone) \cup {d}
            /\ tokens' = [Without(tokens, gone) EXCEPT ![d] = Full - TokenParts]
            /\ seen' = [Without(seen, gone) EXCEPT ![d] = now]
      BY <2>4 DEF AdmitNew
    <3>2. /\ due' = [due EXCEPT ![d] = now]
          /\ refusals' = [refusals EXCEPT ![d] = 0]
      BY <2>4 DEF AdmitNew
    <3>3. CASE d = c
      BY <2>1, <2>3, <3>1, <3>2, <3>3 DEF Without, LimiterTypeOK
    <3>4. CASE d # c
      <4>1. refusals'[c] = refusals[c] /\ due'[c] = due[c]
        BY <2>1, <3>2, <3>4 DEF LimiterTypeOK
      <4>2. c \in tracked' => c \in tracked /\ c \notin gone
        BY <3>1, <3>4
      <4>3. c \notin gone => tokens'[c] = tokens[c] /\ seen'[c] = seen[c]
        BY <2>1, <3>1, <3>4 DEF Without
      <4> QED BY <2>2, <4>1, <4>2, <4>3
    <3> QED BY <3>3, <3>4
  <2>5. ASSUME NEW d \in Clients, Admit(d) PROVE AdviceIsGood(c)'
    <3>1. CASE d = c
      BY <2>1, <2>3, <2>5, <3>1 DEF Admit, LimiterTypeOK
    <3>2. CASE d # c
      BY <2>1, <2>2, <2>5, <3>2 DEF Admit, LimiterTypeOK
    <3> QED BY <3>1, <3>2
  <2>6. ASSUME NEW d \in Clients, Refuse(d) PROVE AdviceIsGood(c)'
    <3>1. CASE d = c
      BY <2>1, <2>6, <3>1, AdviceIsGiven
    <3>2. CASE d # c
      BY <2>1, <2>2, <2>6, <3>2 DEF Refuse, LimiterTypeOK
    <3> QED BY <3>1, <3>2
  <2>7. CASE Elapse
    BY <2>2, <2>7 DEF Elapse, buckets, advice
  <2>8. ASSUME NEW d \in Clients, Watch(d) PROVE AdviceIsGood(c)'
    BY <2>2, <2>8 DEF Watch, buckets, advice
  <2>9. CASE UNCHANGED limiterVars
    BY <2>2, <2>9 DEF limiterVars, buckets, advice
  <2> QED BY <2>4, <2>5, <2>6, <2>7, <2>8, <2>9 DEF LimiterNext
<1>3. PatienceInv => PatienceIsRewarded
  BY DEF PatienceInv, AdviceIsGood, PatienceIsRewarded
<1> QED BY <1>1, <1>2, <1>3, LimiterTypeCorrect, PTL DEF LimiterSpec

-------------------------------------------------------------------------------
(* The reading of one body. *)

(* Where a request may be after its policy was settled, and before. *)
Unsettled == {"arrived", "reading", "rejected", "cancelled", "read"}
AfterSettling == {"decode", "ffmpeg", "check", "analyze", "over"}

FieldText == AudioModes \cup Consents
Headers == [mode : AudioModes \cup {"absent"}, consent : Consents \cup {"absent"}]

(* The upload's limits are numbers. *)
LEMMA UploadConstants ==
    /\ MaxUploadBytes \in Nat \ {0} /\ MaxParts \in Nat \ {0} /\ BodyIdleTimeout \in Nat \ {0}
    /\ MaxSamples \in Nat \ {0} /\ MultipartOverhead \in Nat /\ MaxText \in Nat
    /\ Slack \in Nat /\ FfmpegCut \in Nat /\ FfmpegMost \in Nat
    /\ Slack < FfmpegCut /\ FfmpegCut < FfmpegMost
    /\ "absent" \notin AudioModes /\ "absent" \notin Consents
    /\ \A n \in PieceSizes : n \in Nat /\ n > 0
BY UploadAssumption DEF UploadAssumption

(* The two text fields and what they may say. *)
LEMMA FieldValues ==
    /\ TextFields = {"persistence_mode", "consent_reference"}
    /\ ValuesOf("persistence_mode") = AudioModes /\ ValuesOf("consent_reference") = Consents
    /\ \A f \in TextFields : ValuesOf(f) \subseteq FieldText /\ "absent" \notin ValuesOf(f)
BY UploadConstants DEF TextFields, ValuesOf, FieldText

(* The inductive invariant of the types: the type invariant the runs check, that the   *)
(* fields are functions, and that of a raw body every byte counted is in the buffer.   *)
UploadTypeInv ==
    /\ UploadTypeOK
    /\ headers \in Headers
    /\ fields \in [TextFields -> FieldText \cup {"absent"}]
    /\ said \in [TextFields -> SUBSET FieldText]
    /\ rpc = "arrived" => audio = 0 /\ received = 0
    /\ kind = "raw" /\ rpc = "reading" => audio = received

(* Every step of an upload keeps its types. *)
LEMMA UploadTypeStep ==
    ASSUME UploadTypeInv, [UploadNext]_uploadVars
    PROVE  UploadTypeInv'
<1> USE DEF UploadTypeInv, UploadTypeOK
<1>c. /\ MaxUploadBytes \in Nat /\ MultipartOverhead \in Nat /\ MaxParts \in Nat
      /\ MaxText \in Nat /\ BodyIdleTimeout \in Nat
  BY UploadConstants
<1>0. ASSUME UNCHANGED <<headers, fields, said>>
      PROVE  /\ headers' \in Headers
             /\ fields' \in [TextFields -> FieldText \cup {"absent"}]
             /\ said' \in [TextFields -> SUBSET FieldText]
             /\ \A f \in TextFields : /\ fields'[f] \in ValuesOf(f) \cup {"absent"}
                                      /\ said'[f] \subseteq ValuesOf(f)
  BY <1>0
<1>r. ASSUME Reject PROVE UploadTypeInv'
  BY <1>c, <1>0, <1>r DEF Reject
<1>o. ASSUME Over, UNCHANGED <<kind, headers, silence>>, samples' \in Nat, original' \in Nat
      PROVE  UploadTypeInv'
  BY <1>c, <1>0, <1>o DEF Over
<1>u. ASSUME UNCHANGED <<kind, headers, body, silence>>, rpc' \in Unsettled \cup AfterSettling,
             rpc' \notin {"arrived", "reading", "rejected", "over"},
             rpc' # "cancelled" => audio > 0,
             samples' \in Nat, original' \in Nat
      PROVE  UploadTypeInv'
  BY <1>0, <1>u DEF body, Unsettled, AfterSettling
<1>1. ASSUME NEW k \in {"raw", "multipart"}, Begin(k) PROVE UploadTypeInv'
  BY <1>0, <1>1 DEF Begin, body
<1>2. ASSUME NEW n \in PieceSizes, RawPiece(n) PROVE UploadTypeInv'
  <2>1. n \in Nat
    BY UploadConstants
  <2>2. CASE audio + n > Limit
    BY <1>r, <1>2, <2>2 DEF RawPiece
  <2>3. CASE ~(audio + n > Limit)
    <3>1. /\ audio' = audio + n /\ received' = received + n /\ silence' = 0
          /\ UNCHANGED <<rpc, kind, headers, field, text, fields, parts, audioParts, said,
                         policy, samples, original>>
          /\ rpc = "reading" /\ kind = "raw"
      BY <1>2, <2>3 DEF RawPiece, Reading
    <3>2. audio + n <= MaxUploadBytes
      BY <1>c, <2>1, <2>3, <3>1 DEF Limit
    <3> QED BY <1>c, <1>0, <2>1, <3>1, <3>2
  <2> QED BY <2>2, <2>3
<1>3. ASSUME NEW n \in PieceSizes, PartData(n) PROVE UploadTypeInv'
  <2>1. n \in Nat
    BY UploadConstants
  <2> DEFINE bad == \/ Counted(n) > Limit
                    \/ field = "audio" /\ audio + n > MaxUploadBytes
                    \/ field \in TextFields /\ text + n > MaxText
  <2>2. CASE bad
    BY <1>r, <1>3, <2>2 DEF PartData
  <2>3. CASE ~bad
    <3>1. /\ received' = received + n /\ silence' = 0
          /\ audio' = IF field = "audio" THEN audio + n ELSE audio
          /\ text' = IF field \in TextFields THEN text + n ELSE text
          /\ UNCHANGED <<rpc, kind, headers, field, fields, parts, audioParts, said,
                         policy, samples, original>>
          /\ rpc = "reading" /\ kind = "multipart"
      BY <1>3, <2>3 DEF PartData, Reading, Counted
    <3>2. /\ received + n <= MaxUploadBytes + MultipartOverhead
          /\ field = "audio" => audio + n <= MaxUploadBytes
          /\ field \in TextFields => text + n <= MaxText
      BY <1>c, <2>1, <2>3, <3>1 DEF Limit, Counted
    <3> QED BY <1>c, <1>0, <2>1, <3>1, <3>2
  <2> QED BY <2>2, <2>3
<1>4. ASSUME NEW n \in PieceSizes, NEW f \in TextFields \cup {"audio", "other"}, PartHead(f, n)
      PROVE  UploadTypeInv'
  <2>1. n \in Nat
    BY UploadConstants
  <2> DEFINE bad == \/ Counted(n) > Limit
                    \/ parts + 1 > MaxParts
                    \/ f = "audio" /\ audioParts = 1
  <2>2. CASE bad
    BY <1>r, <1>4, <2>2 DEF PartHead
  <2>3. CASE ~bad
    <3>1. /\ received' = received + n /\ silence' = 0
          /\ field' = f /\ text' = 0
          /\ parts' = parts + 1
          /\ audioParts' = IF f = "audio" THEN audioParts + 1 ELSE audioParts
          /\ UNCHANGED <<rpc, kind, headers, audio, fields, said, policy, samples, original>>
          /\ rpc = "reading" /\ kind = "multipart"
      BY <1>4, <2>3 DEF PartHead, Reading, Counted
    <3>2. /\ received + n <= MaxUploadBytes + MultipartOverhead
          /\ parts + 1 <= MaxParts
          /\ f = "audio" => audioParts = 0
      BY <1>c, <2>1, <2>3, <3>1 DEF Limit, Counted
    <3> QED BY <1>c, <1>0, <2>1, <3>1, <3>2
  <2> QED BY <2>2, <2>3
<1>5. ASSUME NEW v, PartEnd(v) PROVE UploadTypeInv'
  <2> DEFINE bad == field \in TextFields /\ Repeated(field)
  <2>2. CASE bad
    BY <1>r, <1>5, <2>2 DEF PartEnd
  <2>3. CASE ~bad
    <3>1. /\ fields' = IF v # "absent" THEN [fields EXCEPT ![field] = v] ELSE fields
          /\ said' = IF v # "absent" THEN [said EXCEPT ![field] = @ \cup {v}] ELSE said
          /\ field' = "none" /\ text' = 0
          /\ UNCHANGED <<rpc, kind, headers, received, audio, parts, audioParts, silence,
                         policy, samples, original>>
          /\ v # "absent" => field \in TextFields /\ v \in ValuesOf(field)
      BY <1>5, <2>3 DEF PartEnd, Reading
    <3>2. /\ fields' \in [TextFields -> FieldText \cup {"absent"}]
          /\ said' \in [TextFields -> SUBSET FieldText]
          /\ \A f \in TextFields : /\ fields'[f] \in ValuesOf(f) \cup {"absent"}
                                   /\ said'[f] \subseteq ValuesOf(f)
      BY <3>1, FieldValues
    <3> QED BY <1>c, <3>1, <3>2
  <2> QED BY <2>2, <2>3
<1>6. CASE Turned
  BY <1>0, <1>6 DEF Turned, body
<1>7. CASE Broken
  BY <1>r, <1>7 DEF Broken
<1>8. CASE EndBody
  <2>1. CASE audio = 0
    BY <1>r, <1>8, <2>1 DEF EndBody
  <2>2. CASE audio # 0
    BY <1>u, <1>8, <2>2 DEF EndBody, Unsettled
  <2> QED BY <2>1, <2>2
<1>9. CASE CancelReading
  BY <1>u, <1>9 DEF CancelReading, Unsettled
<1>10. CASE Wait
  BY <1>c, <1>0, <1>10 DEF Wait, body
<1>11. CASE BodyTimeout
  BY <1>r, <1>11 DEF BodyTimeout
<1>12. CASE Settle
  <2>1. CASE Conflict \/ Unconsented(Chosen(ModesSaid, "none"))
    BY <1>o, <1>12, <2>1 DEF Settle
  <2>2. CASE ~(Conflict \/ Unconsented(Chosen(ModesSaid, "none")))
    BY <1>u, <1>12, <2>2 DEF Settle, AfterSettling
  <2> QED BY <2>1, <2>2
<1>13. CASE Fails
  BY <1>o, <1>13 DEF Fails
<1>14. ASSUME NEW n \in 0..MaxSamples + FfmpegMost + 1, DecodeDirect(n) \/ DecodeContainer(n)
       PROVE  UploadTypeInv'
  <2>1. n \in Nat
    BY UploadConstants
  <2> QED BY <1>u, <1>14, <2>1 DEF DecodeDirect, DecodeContainer, AfterSettling
<1>15. CASE Ffmpeg
  <2>1. samples' \in Nat
    BY <1>15, UploadConstants DEF Ffmpeg, Cut
  <2>2. CASE samples' = 0 \/ samples' > MaxSamples + FfmpegMost
    BY <1>o, <1>15, <2>1, <2>2 DEF Ffmpeg
  <2>3. CASE ~(samples' = 0 \/ samples' > MaxSamples + FfmpegMost)
    BY <1>u, <1>15, <2>1, <2>3 DEF Ffmpeg, AfterSettling
  <2> QED BY <2>2, <2>3
<1>16. CASE Check
  <2>1. CASE samples > MaxSamples + Slack \/ samples = 0
    BY <1>o, <1>16, <2>1 DEF Check
  <2>2. CASE ~(samples > MaxSamples + Slack \/ samples = 0)
    BY <1>u, <1>16, <2>2 DEF Check, AfterSettling
  <2> QED BY <2>1, <2>2
<1>17. CASE Return
  BY <1>o, <1>17 DEF Return
<1>18. CASE UNCHANGED uploadVars
  BY <1>0, <1>18 DEF uploadVars, body
<1> QED
  BY <1>1, <1>2, <1>3, <1>4, <1>5, <1>6, <1>7, <1>8, <1>9, <1>10, <1>11, <1>12, <1>13, <1>14,
     <1>15, <1>16, <1>17, <1>18 DEF UploadNext, UploadClient, UploadServer

(* They hold at first. *)
LEMMA UploadTypeInit == UploadInit => UploadTypeInv
BY UploadConstants, FieldValues DEF UploadInit, UploadTypeInv, UploadTypeOK, Headers, FieldText

(* UploadTypeCorrect: a body never has more bytes, parts, text or silence than its      *)
(* limits allow, the audio buffer holds no more than the bytes counted, and none is     *)
(* left of a request that was rejected or is over (audio/ingest.py, main.py analyze).   *)
THEOREM UploadTypeCorrect == UploadSpec => []UploadTypeOK
<1>1. UploadTypeInv => UploadTypeOK
  BY DEF UploadTypeInv
<1> QED BY <1>1, UploadTypeInit, UploadTypeStep, PTL DEF UploadSpec

(* What is decoded is the whole audio, or so long that the duration check refuses it. *)
TruncationInv ==
    /\ rpc = "check" => samples = original \/ samples > MaxSamples + Slack
    /\ NoSilentTruncation

(* NoSilentTruncation (audio/decoder.py decode, _decode_with_ffmpeg): what is analysed *)
(* is all the audio that was sent, of any length, whatever the limit and the tolerance *)
(* ffmpeg's cut lies beyond.                                                           *)
THEOREM NothingIsTruncated == UploadSpec => []NoSilentTruncation
<1>1. UploadInit => TruncationInv
  BY DEF UploadInit, TruncationInv, NoSilentTruncation
<1>2. UploadTypeInv /\ TruncationInv /\ [UploadNext]_uploadVars => TruncationInv'
  <2> SUFFICES ASSUME UploadTypeInv, TruncationInv, [UploadNext]_uploadVars
               PROVE  TruncationInv'
    OBVIOUS
  <2>0. samples \in Nat /\ original \in Nat
    BY DEF UploadTypeInv, UploadTypeOK
  <2>q. ASSUME rpc' \notin {"check", "analyze"} PROVE TruncationInv'
    BY <2>q DEF TruncationInv, NoSilentTruncation
  <2>s. ASSUME UNCHANGED <<rpc, samples, original>> PROVE TruncationInv'
    BY <2>s DEF TruncationInv, NoSilentTruncation
  <2>1. CASE UploadClient
    <3>1. ASSUME NEW k \in {"raw", "multipart"}, Begin(k) PROVE TruncationInv'
      BY <2>q, <3>1 DEF Begin
    <3>2. ASSUME NEW n \in PieceSizes, RawPiece(n) PROVE TruncationInv'
      BY <2>q, <2>s, <3>2 DEF RawPiece, Reject
    <3>3. ASSUME NEW n \in PieceSizes, PartData(n) PROVE TruncationInv'
      BY <2>q, <2>s, <3>3 DEF PartData, Reject
    <3>4. ASSUME NEW n \in PieceSizes, NEW f \in TextFields \cup {"audio", "other"}, PartHead(f, n)
          PROVE  TruncationInv'
      BY <2>q, <2>s, <3>4 DEF PartHead, Reject
    <3>5. ASSUME NEW v, PartEnd(v) PROVE TruncationInv'
      BY <2>q, <2>s, <3>5 DEF PartEnd, Reject
    <3>6. CASE Turned \/ Broken \/ EndBody \/ CancelReading
      BY <2>q, <3>6 DEF Turned, Broken, EndBody, CancelReading, Reject
    <3> QED BY <2>1, <3>1, <3>2, <3>3, <3>4, <3>5, <3>6 DEF UploadClient
  <2>2. CASE Wait \/ BodyTimeout \/ Settle \/ Fails \/ Return
    BY <2>q, <2>2 DEF Wait, BodyTimeout, Reject, Settle, Fails, Return, Over
  <2>3. ASSUME NEW n \in 0..MaxSamples + FfmpegMost + 1, DecodeDirect(n) \/ DecodeContainer(n)
        PROVE  TruncationInv'
    BY <2>3 DEF DecodeDirect, DecodeContainer, TruncationInv, NoSilentTruncation
  <2>4. CASE Ffmpeg
    <3>1. /\ samples' = IF original < Cut THEN original ELSE Cut
          /\ original' = original /\ rpc' \in {"over", "check"}
      BY <2>4 DEF Ffmpeg, Over
    <3>2. samples' = original' \/ samples' > MaxSamples + Slack
      BY <2>0, <3>1, UploadConstants DEF Cut
    <3> QED BY <3>1, <3>2 DEF TruncationInv, NoSilentTruncation
  <2>5. CASE Check
    <3>1. /\ UNCHANGED <<samples, original>> /\ rpc = "check" /\ rpc' \in {"over", "analyze"}
          /\ rpc' = "analyze" => ~(samples > MaxSamples + Slack) /\ samples # 0
      BY <2>5 DEF Check, Over
    <3>2. rpc' = "analyze" => samples = original /\ samples \in 1..MaxSamples + Slack
      BY <2>0, <3>1, UploadConstants DEF TruncationInv
    <3> QED BY <3>1, <3>2 DEF TruncationInv, NoSilentTruncation
  <2>6. CASE UNCHANGED uploadVars
    BY <2>s, <2>6 DEF uploadVars
  <2> QED BY <2>1, <2>2, <2>3, <2>4, <2>5, <2>6 DEF UploadNext, UploadServer
<1>3. TruncationInv => NoSilentTruncation
  BY DEF TruncationInv
<1>4. UploadSpec => []UploadTypeInv
  BY UploadTypeInit, UploadTypeStep, PTL DEF UploadSpec
<1> QED BY <1>1, <1>2, <1>3, <1>4, PTL DEF UploadSpec

(* Of two values a client may not give for one setting, a set of one is left. *)
LEMMA OneValue ==
    ASSUME NEW a, NEW b, NEW d, ~(Cardinality(Sources(a, b)) > 1)
    PROVE  /\ a \in {"absent", Chosen(Sources(a, b), d)}
           /\ b \in {"absent", Chosen(Sources(a, b), d)}
           /\ Sources(a, b) = {} => Chosen(Sources(a, b), d) = d
           /\ Sources(a, b) # {} => Chosen(Sources(a, b), d) \in {a, b} \ {"absent"}
<1> DEFINE S == Sources(a, b)
<1>1. S = {a, b} \ {"absent"}
  BY DEF Sources
<1>2. S # {} => Chosen(S, d) \in S
  BY DEF Chosen
<1>3. S = {} => Chosen(S, d) = d
  BY DEF Chosen
<1>4. ASSUME a # "absent", b # "absent", a # b PROVE FALSE
  <2>1. S = {a, b}
    BY <1>1, <1>4
  <2>2. Cardinality({a} \cup {b}) = 2
    <3>1. IsFiniteSet({a}) /\ Cardinality({a}) = 1
      BY FS_Singleton
    <3>2. Cardinality({a} \cup {b}) = IF b \in {a} THEN Cardinality({a}) ELSE Cardinality({a}) + 1
      BY <3>1, FS_AddElement
    <3> QED BY <1>4, <3>1, <3>2
  <2>3. {a} \cup {b} = S
    BY <2>1
  <2>4. Cardinality(S) = 2
    BY <2>2, <2>3
  <2> QED BY <2>4
<1> HIDE DEF S
<1>5. S = {} => a = "absent" /\ b = "absent"
  BY <1>1
<1>6. S # {} => a \in {"absent", Chosen(S, d)} /\ b \in {"absent", Chosen(S, d)}
  BY <1>1, <1>2, <1>4
<1> QED BY <1>1, <1>2, <1>3, <1>5, <1>6 DEF S

(* A field says one thing at most, its history says what it says, and the policy is    *)
(* settled once, when the body has been read.                                          *)
RetentionInv ==
    /\ \A f \in TextFields : said[f] = {fields[f]} \ {"absent"}
    /\ rpc \in Unsettled => policy = NoPolicy
    /\ rpc \in Unsettled \cup AfterSettling
    /\ RetainsOnlyAsAsked

(* RetainsOnlyAsAsked (main.py _request_retention_policy, audio/ingest.py): whatever   *)
(* pieces and parts a body comes in, the retention that is settled is the one every    *)
(* header and field that states it states, and audio is only retained with a consent   *)
(* reference of the client's.                                                          *)
THEOREM RetentionAsAsked == UploadSpec => []RetainsOnlyAsAsked
<1>1. UploadInit => RetentionInv
  BY DEF UploadInit, RetentionInv, RetainsOnlyAsAsked, TextFields, Unsettled
<1>2. UploadTypeInv /\ RetentionInv /\ [UploadNext]_uploadVars => RetentionInv'
  <2> SUFFICES ASSUME UploadTypeInv, RetentionInv, [UploadNext]_uploadVars
               PROVE  RetentionInv'
    OBVIOUS
  <2>k. ASSUME UNCHANGED <<headers, fields, said, policy>>,
               rpc' \in Unsettled \cup AfterSettling,
               rpc' \in Unsettled => rpc \in Unsettled
        PROVE  RetentionInv'
    BY <2>k DEF RetentionInv, RetainsOnlyAsAsked
  <2>r. ASSUME Reject, rpc = "reading" PROVE RetentionInv'
    BY <2>k, <2>r DEF Reject, Unsettled
  <2>u. /\ Unsettled = {"arrived", "reading", "rejected", "cancelled", "read"}
        /\ AfterSettling = {"decode", "ffmpeg", "check", "analyze", "over"}
    BY DEF Unsettled, AfterSettling
  <2>1. ASSUME NEW k \in {"raw", "multipart"}, Begin(k) PROVE RetentionInv'
    BY <2>k, <2>u, <2>1 DEF Begin, body
  <2>2. ASSUME NEW n \in PieceSizes, RawPiece(n) \/ PartData(n) PROVE RetentionInv'
    BY <2>k, <2>r, <2>u, <2>2 DEF RawPiece, PartData, Reading
  <2>3. ASSUME NEW n \in PieceSizes, NEW f \in TextFields \cup {"audio", "other"}, PartHead(f, n)
        PROVE  RetentionInv'
    BY <2>k, <2>r, <2>u, <2>3 DEF PartHead, Reading
  <2>4. ASSUME NEW v, PartEnd(v) PROVE RetentionInv'
    <3>1. CASE field \in TextFields /\ Repeated(field)
      BY <2>r, <2>4, <3>1 DEF PartEnd, Reading
    <3>2. CASE ~(field \in TextFields /\ Repeated(field))
      <4>1. /\ fields' = IF v # "absent" THEN [fields EXCEPT ![field] = v] ELSE fields
            /\ said' = IF v # "absent" THEN [said EXCEPT ![field] = @ \cup {v}] ELSE said
            /\ UNCHANGED <<rpc, headers, policy>> /\ rpc = "reading"
            /\ v # "absent" => field \in TextFields
        BY <2>4, <3>2 DEF PartEnd, Reading
      <4>2. ASSUME NEW f \in TextFields PROVE said'[f] = {fields'[f]} \ {"absent"}
        <5>1. said[f] = {fields[f]} \ {"absent"}
          BY DEF RetentionInv
        <5>2. CASE v # "absent" /\ f = field
          <6>1. fields[f] = "absent"
            BY <3>2, <4>1, <5>2 DEF Repeated
          <6>2. fields'[f] = v /\ said'[f] = said[f] \cup {v}
            BY <4>1, <5>2 DEF UploadTypeInv
          <6> QED BY <5>1, <5>2, <6>1, <6>2
        <5>3. CASE ~(v # "absent" /\ f = field)
          <6>1. fields'[f] = fields[f] /\ said'[f] = said[f]
            BY <4>1, <5>3 DEF UploadTypeInv
          <6> QED BY <5>1, <6>1
        <5> QED BY <5>2, <5>3
      <4>3. policy' = NoPolicy
        BY <2>u, <4>1 DEF RetentionInv
      <4> QED BY <2>u, <4>1, <4>2, <4>3 DEF RetentionInv, RetainsOnlyAsAsked, NoPolicy
    <3> QED BY <3>1, <3>2
  <2>5. CASE Turned \/ EndBody \/ CancelReading \/ Wait
    BY <2>k, <2>r, <2>u, <2>5 DEF Turned, EndBody, CancelReading, Wait, body
  <2>6. CASE Broken \/ BodyTimeout
    BY <2>r, <2>6 DEF Broken, BodyTimeout
  <2>7. CASE Settle
    <3> DEFINE mode == Chosen(ModesSaid, "none")
               consent == Chosen(ConsentsSaid, "absent")
    <3>1. CASE Conflict \/ Unconsented(mode)
      BY <2>k, <2>u, <2>7, <3>1 DEF Settle, Over
    <3>2. CASE ~(Conflict \/ Unconsented(mode))
      <4>1. /\ policy' = [mode |-> mode, consent |-> consent]
            /\ rpc' = "decode" /\ UNCHANGED <<headers, fields, said>>
        BY <2>7, <3>2 DEF Settle, body
      <4>2. /\ headers.mode \in {"absent", mode}
            /\ fields["persistence_mode"] \in {"absent", mode}
            /\ mode \in {headers.mode, fields["persistence_mode"]} \ {"absent"} \/ mode = "none"
        BY <3>2, OneValue DEF Conflict, ModesSaid
      <4>3. /\ headers.consent \in {"absent", consent}
            /\ fields["consent_reference"] \in {"absent", consent}
            /\ ConsentsSaid # {} => consent # "absent"
        BY <3>2, OneValue DEF Conflict, ConsentsSaid
      <4>4. mode = "result_and_audio" => consent # "absent"
        BY <3>2, <4>3 DEF Unconsented
      <4>5. /\ said["persistence_mode"] = {fields["persistence_mode"]} \ {"absent"}
            /\ said["consent_reference"] = {fields["consent_reference"]} \ {"absent"}
        BY DEF RetentionInv, TextFields
      <4> HIDE DEF mode, consent
      <4>6. RetainsOnlyAsAsked'
        BY <4>1, <4>2, <4>3, <4>4, <4>5 DEF RetainsOnlyAsAsked
      <4> QED BY <2>u, <4>1, <4>6 DEF RetentionInv
    <3> QED BY <3>1, <3>2
  <2>8. CASE Fails \/ Ffmpeg \/ Check \/ Return
    BY <2>k, <2>u, <2>8 DEF Fails, Ffmpeg, Check, Return, Over, body
  <2>9. ASSUME NEW n \in 0..MaxSamples + FfmpegMost + 1, DecodeDirect(n) \/ DecodeContainer(n)
        PROVE  RetentionInv'
    BY <2>k, <2>u, <2>9 DEF DecodeDirect, DecodeContainer, body
  <2>10. CASE UNCHANGED uploadVars
    BY <2>k, <2>10 DEF uploadVars, body, RetentionInv
  <2> QED
    BY <2>1, <2>2, <2>3, <2>4, <2>5, <2>6, <2>7, <2>8, <2>9, <2>10
       DEF UploadNext, UploadClient, UploadServer
<1>3. RetentionInv => RetainsOnlyAsAsked
  BY DEF RetentionInv
<1>4. UploadSpec => []UploadTypeInv
  BY UploadTypeInit, UploadTypeStep, PTL DEF UploadSpec
<1> QED BY <1>1, <1>2, <1>3, <1>4, PTL DEF UploadSpec

-------------------------------------------------------------------------------
(* Both, as they are composed. *)

(* A step of the two is a step or a stutter of each. *)
LEMMA FrontSteps ==
    ASSUME [FrontNext]_frontVars
    PROVE  [LimiterNext]_limiterVars /\ [UploadNext]_uploadVars
BY DEF FrontNext, Limiting, Sending, Serving, UploadNext, frontVars

(* TypeOK of the two as they are composed for TLC. *)
THEOREM FrontTypeCorrect == FrontSpec => []TypeOK
<1>1. FrontInit => TableInv /\ UploadTypeInv
  BY TableInit, UploadTypeInit DEF FrontInit
<1>2. TableInv /\ UploadTypeInv /\ [FrontNext]_frontVars => (TableInv /\ UploadTypeInv)'
  BY FrontSteps, TableStep, UploadTypeStep
<1>3. TableInv /\ UploadTypeInv => TypeOK
  BY DEF TableInv, UploadTypeInv, TypeOK
<1> QED BY <1>1, <1>2, <1>3, PTL DEF FrontSpec

-------------------------------------------------------------------------------
(***************************************************************************)
(* What holds of every answer, whatever the models scored and whatever     *)
(* thresholds an accepted configuration has.                               *)
(***************************************************************************)

(* What a backend may score: any numbers at all, and a mass that is a probability. *)
Scored(raw) ==
    /\ raw.female \in Int /\ raw.male \in Int /\ raw.homogeneity \in Int
    /\ raw.age \in Int /\ raw.mass \in 0 .. Unit
    /\ raw.brackets = NoBrackets \/ raw.brackets \in [1 .. 4 -> Int]

Labels == {"good", "degraded", "insufficient"}

(* Multiplying an inequality by a natural number keeps it. *)
LEMMA Scaled ==
    ASSUME NEW x \in Int, NEW y \in Int, x <= y, NEW n \in Nat
    PROVE  x * n <= y * n
<1>1. (y - x) * n >= 0
  OBVIOUS
<1>2. (y - x) * n = y * n - x * n
  OBVIOUS
<1> QED BY <1>1, <1>2

(* A label that clears a threshold clears every lower one, with the same numbers. *)
LEMMA LowerBarSaysTheSame ==
    ASSUME NEW label, NEW part \in Nat, NEW whole \in Nat,
           NEW lo \in Nat, NEW hi \in Nat, lo <= hi,
           Said(label, part, whole, hi).prediction # Unknown
    PROVE  Said(label, part, whole, lo) = Said(label, part, whole, hi)
<1>1. lo * whole <= hi * whole
  BY Scaled
<1>2. part * Unit \in Nat
  BY UnitAssumption
<1>3. ~(IF whole = 0 THEN 0 < hi ELSE part * Unit < hi * whole)
  BY DEF Said, Silent
<1>4. ~(IF whole = 0 THEN 0 < lo ELSE part * Unit < lo * whole)
  BY <1>1, <1>2, <1>3
<1> QED BY <1>3, <1>4 DEF Said

(* Among four scores one is first. *)
LEMMA SomeoneLeads ==
    ASSUME NEW scores \in [1 .. 4 -> Nat]
    PROVE  \E i \in 1 .. 4 : Leads(scores, i)
<1> DEFINE First(i, among) == \A j \in among : scores[j] < scores[i] \/ (scores[j] = scores[i] /\ i <= j)
<1>1. \E i \in {1, 2} : First(i, {1, 2})
  OBVIOUS
<1>2. \E i \in {1, 2, 3} : First(i, {1, 2, 3})
  BY <1>1
<1>3. \E i \in {1, 2, 3, 4} : First(i, {1, 2, 3, 4})
  BY <1>2
<1>4. 1 .. 4 = {1, 2, 3, 4}
  OBVIOUS
<1> QED BY <1>3, <1>4 DEF Leads

(* The pieces of DirectAge are numbers. *)
LEMMA BracketScores ==
    ASSUME NEW brackets \in [1 .. 4 -> Int]
    PROVE  LET scores == [i \in 1 .. 4 |-> ValidScore(brackets[i])]
               best == CHOOSE i \in 1 .. 4 : Leads(scores, i)
           IN /\ scores \in [1 .. 4 -> Nat]
              /\ best \in 1 .. 4 /\ Leads(scores, best)
<1> DEFINE scores == [i \in 1 .. 4 |-> ValidScore(brackets[i])]
<1>1. scores \in [1 .. 4 -> Nat]
  BY DEF ValidScore
<1>2. \E i \in 1 .. 4 : Leads(scores, i)
  <2> HIDE DEF scores
  <2> QED BY <1>1, SomeoneLeads
<1> HIDE DEF scores
<1>3. LET best == CHOOSE i \in 1 .. 4 : Leads(scores, i)
      IN best \in 1 .. 4 /\ Leads(scores, best)
  BY <1>2
<1> QED BY <1>1, <1>3 DEF scores

-----------------------------------------------------------------------------
(* What one answer's part and whole are, and that a said label cleared its bar. *)
Cleared(answer, threshold) ==
    answer.prediction # Unknown =>
        /\ answer.part \in Nat /\ answer.whole \in Nat
        /\ answer.whole > 0 => answer.part * Unit >= threshold * answer.whole
        /\ answer.whole = 0 => threshold = 0

(* A label that is said cleared the bar it was given. *)
LEMMA SaidIsCleared ==
    ASSUME NEW label, NEW part \in Nat, NEW whole \in Nat, NEW threshold \in Nat
    PROVE  Cleared(Said(label, part, whole, threshold), threshold)
<1>1. part * Unit \in Nat /\ threshold * whole \in Nat
  BY UnitAssumption
<1> DEFINE withheld == IF whole = 0 THEN 0 < threshold ELSE part * Unit < threshold * whole
<1>2. CASE withheld
  BY <1>2 DEF Said, Silent, Cleared
<1>3. CASE ~withheld
  <2>1. Said(label, part, whole, threshold) = [prediction |-> label, part |-> part, whole |-> whole]
    BY <1>3 DEF Said
  <2>2. whole > 0 => part * Unit >= threshold * whole
    BY <1>1, <1>3
  <2>3. whole = 0 => threshold = 0
    BY <1>3
  <2> QED BY <2>1, <2>2, <2>3 DEF Cleared
<1> QED BY <1>2, <1>3

(* So does a gender ... *)
LEMMA GenderCleared ==
    ASSUME NEW raw, Scored(raw), NEW threshold \in Nat
    PROVE  Cleared(Gender(raw, threshold), threshold)
<1>1. ValidScore(raw.female) \in Nat /\ ValidScore(raw.male) \in Nat
  BY DEF Scored, ValidScore
<1>2. ValidScore(raw.female) + ValidScore(raw.male) \in Nat
  BY <1>1
<1> QED BY <1>1, <1>2, SaidIsCleared DEF Gender

(* The age an answer gives for a threshold, from either kind of backend. *)
Age(raw, threshold) ==
    IF raw.brackets # NoBrackets THEN DirectAge(raw.brackets, threshold)
                                 ELSE RegressionAge(raw, threshold)

(* ... and an age, from either kind of backend. *)
LEMMA AgeCleared ==
    ASSUME NEW raw, Scored(raw), NEW threshold \in Nat
    PROVE  Cleared(Age(raw, threshold), threshold)
<1>1. CASE raw.brackets # NoBrackets
  <2> DEFINE scores == [i \in 1 .. 4 |-> ValidScore(raw.brackets[i])]
             whole == scores[1] + scores[2] + scores[3] + scores[4]
             best == CHOOSE i \in 1 .. 4 : Leads(scores, i)
  <2>1. scores \in [1 .. 4 -> Nat] /\ best \in 1 .. 4
    BY <1>1, BracketScores DEF Scored
  <2>2. whole \in Nat /\ scores[best] \in Nat
    <3> HIDE DEF scores, best
    <3> QED BY <2>1
  <2>3. DirectAge(raw.brackets, threshold) =
            IF whole = 0 THEN Silent ELSE Said(Brackets[best], scores[best], whole, threshold)
    BY DEF DirectAge
  <2>4. Cleared(Silent, threshold)
    BY DEF Silent, Cleared
  <2>5. Cleared(Said(Brackets[best], scores[best], whole, threshold), threshold)
    <3> HIDE DEF scores, best, whole
    <3> QED BY <2>2, SaidIsCleared
  <2> QED BY <1>1, <2>3, <2>4, <2>5 DEF Age
<1>2. CASE raw.brackets = NoBrackets
  <2>1. raw.mass \in Nat /\ Unit \in Nat
    BY UnitAssumption DEF Scored
  <2>2. Cleared(Silent, threshold)
    BY DEF Silent, Cleared
  <2> QED BY <1>2, <2>1, <2>2, SaidIsCleared DEF Age, RegressionAge
<1> QED BY <1>1, <1>2

-----------------------------------------------------------------------------
(* DegradedIsNoEasier (config.py, validate: "degraded audio must never be easier    *)
(* to pass than good audio"): whatever label degraded audio gets, the same scores   *)
(* on good audio get too, with the same confidence; and audio labelled insufficient *)
(* gets no label at all.                                                            *)
THEOREM DegradedIsNoEasier ==
    ASSUME NEW s, ThresholdsAccepted(s), NEW raw, Scored(raw)
    PROVE  LET good == Answer(s, "good", raw)
               degraded == Answer(s, "degraded", raw)
               insufficient == Answer(s, "insufficient", raw)
           IN /\ degraded.gender.prediction # Unknown => degraded.gender = good.gender
              /\ degraded.age.prediction # Unknown => degraded.age = good.age
              /\ insufficient.gender = Silent /\ insufficient.age = Silent
<1> DEFINE quality == EffectiveQuality(s, "good", raw)
           loT == Thresholds(s, quality)
           hiT == Thresholds(s, "degraded")
<1>1. /\ loT.gender \in Nat /\ hiT.gender \in Nat /\ loT.gender <= hiT.gender
      /\ loT.age \in Nat /\ hiT.age \in Nat /\ loT.age <= hiT.age
  BY UnitAssumption DEF ThresholdsAccepted, Thresholds
<1>2. /\ Answer(s, "good", raw) = [gender |-> Gender(raw, loT.gender),
                                   age |-> Age(raw, loT.age), quality |-> quality]
      /\ Answer(s, "degraded", raw) = [gender |-> Gender(raw, hiT.gender),
                                       age |-> Age(raw, hiT.age), quality |-> "degraded"]
      /\ Answer(s, "insufficient", raw).gender = Silent
      /\ Answer(s, "insufficient", raw).age = Silent
  BY DEF Answer, Age, EffectiveQuality
<1> HIDE DEF quality, loT, hiT
<1>3. Gender(raw, hiT.gender).prediction # Unknown => Gender(raw, hiT.gender) = Gender(raw, loT.gender)
  <2> DEFINE f == ValidScore(raw.female)
             m == ValidScore(raw.male)
  <2>1. f \in Nat /\ m \in Nat /\ f + m \in Nat
    BY DEF Scored, ValidScore
  <2>2. \A t : Gender(raw, t) = IF f >= m THEN Said("female", f, f + m, t) ELSE Said("male", m, f + m, t)
    BY DEF Gender
  <2> HIDE DEF f, m
  <2>3. \A label : \A part \in Nat : Said(label, part, f + m, hiT.gender).prediction # Unknown
            => Said(label, part, f + m, hiT.gender) = Said(label, part, f + m, loT.gender)
    BY <1>1, <2>1, LowerBarSaysTheSame
  <2> QED BY <2>1, <2>2, <2>3
<1>4. Age(raw, hiT.age).prediction # Unknown => Age(raw, hiT.age) = Age(raw, loT.age)
  <2>1. CASE raw.brackets # NoBrackets
    <3> DEFINE scores == [i \in 1 .. 4 |-> ValidScore(raw.brackets[i])]
               whole == scores[1] + scores[2] + scores[3] + scores[4]
               best == CHOOSE i \in 1 .. 4 : Leads(scores, i)
    <3>1. scores \in [1 .. 4 -> Nat] /\ best \in 1 .. 4
      BY <2>1, BracketScores DEF Scored
    <3>2. \A t : DirectAge(raw.brackets, t) =
              IF whole = 0 THEN Silent ELSE Said(Brackets[best], scores[best], whole, t)
      BY DEF DirectAge
    <3>3. whole \in Nat /\ scores[best] \in Nat
      <4> HIDE DEF scores, best
      <4> QED BY <3>1
    <3> HIDE DEF scores, best, whole
    <3>4. Said(Brackets[best], scores[best], whole, hiT.age).prediction # Unknown
            => Said(Brackets[best], scores[best], whole, hiT.age)
                 = Said(Brackets[best], scores[best], whole, loT.age)
      BY <1>1, <3>3, LowerBarSaysTheSame
    <3> QED BY <2>1, <3>2, <3>4 DEF Age
  <2>2. CASE raw.brackets = NoBrackets
    <3>1. raw.mass \in Nat /\ Unit \in Nat
      BY UnitAssumption DEF Scored
    <3>2. \A label : Said(label, raw.mass, Unit, hiT.age).prediction # Unknown
            => Said(label, raw.mass, Unit, hiT.age) = Said(label, raw.mass, Unit, loT.age)
      BY <1>1, <3>1, LowerBarSaysTheSame
    <3> QED BY <2>2, <3>2 DEF Age, RegressionAge
  <2> QED BY <2>1, <2>2
<1> QED BY <1>2, <1>3, <1>4

(* DamageIsTold (main.py _transport_degraded, types.py is_quality_limited and      *)
(* postprocess.py): audio that the transport rebuilt over too many gaps, of unknown *)
(* origin, of a narrow band or with more than one apparent speaker is never         *)
(* answered as good, and what is said of it has cleared the stricter bars.          *)
THEOREM DamageIsTold ==
    ASSUME NEW s, ThresholdsAccepted(s), NEW raw, Scored(raw), NEW q, NEW source,
           NEW framed \in BOOLEAN, NEW arrived, NEW lost, NEW known \in BOOLEAN,
           source.forced = Forced(known, TransportDegraded(framed, arrived, lost, s)),
           \/ TransportDegraded(framed, arrived, lost, s)
           \/ ~known \/ Narrowband(source) \/ SpeakerIsDoubtful(s, raw)
    PROVE  LET answer == Answer(s, QualityLabel(s, q, source), raw)
           IN /\ answer.quality # "good"
              /\ Cleared(answer.gender, s.genderDegraded)
              /\ Cleared(answer.age, s.ageDegraded)
<1> DEFINE label == QualityLabel(s, q, source)
           quality == EffectiveQuality(s, label, raw)
<1>1. label \in Labels /\ (label = "good" => ~QualityLimited(source))
  BY DEF QualityLabel, Labels
<1>2. QualityLimited(source) \/ SpeakerIsDoubtful(s, raw)
  BY DEF QualityLimited, Forced
<1> HIDE DEF label
<1>3. CASE label = "insufficient"
  BY <1>3 DEF Answer, Cleared, Silent, label
<1>4. CASE label # "insufficient"
  <2>1. quality = "degraded"
    BY <1>1, <1>2, <1>4 DEF EffectiveQuality, Labels
  <2>2. Answer(s, label, raw) = [gender |-> Gender(raw, s.genderDegraded),
                                 age |-> Age(raw, s.ageDegraded), quality |-> "degraded"]
    BY <1>4, <2>1 DEF Answer, Age, Thresholds
  <2>3. s.genderDegraded \in Nat /\ s.ageDegraded \in Nat
    BY UnitAssumption DEF ThresholdsAccepted
  <2> QED BY <2>2, <2>3, GenderCleared, AgeCleared DEF label
<1> QED BY <1>3, <1>4

(* NoGuessIsReported (postprocess.py): with a gender threshold above one half, as   *)
(* every shipped one is, the label that is reported has more than half of the       *)
(* evidence: a tie, for which the code would say "female", is withheld, and so is   *)
(* an answer no evidence supports.                                                  *)
THEOREM NoGuessIsReported ==
    ASSUME NEW s, ThresholdsAccepted(s), 2 * s.gender > Unit,
           NEW raw, Scored(raw), NEW label \in Labels
    PROVE  LET gender == Answer(s, label, raw).gender
           IN gender.prediction # Unknown =>
                /\ gender.whole = ValidScore(raw.female) + ValidScore(raw.male)
                /\ 2 * gender.part > gender.whole
                /\ gender.prediction = "female" => raw.female > raw.male
                /\ gender.prediction = "male" => raw.male > raw.female
<1> DEFINE t == Thresholds(s, EffectiveQuality(s, label, raw)).gender
           f == ValidScore(raw.female)
           m == ValidScore(raw.male)
           g == Gender(raw, t)
<1>1. t \in Nat /\ s.gender <= t /\ 2 * t > Unit /\ s.gender \in Nat
  BY UnitAssumption DEF ThresholdsAccepted, Thresholds
<1>2. f \in Nat /\ m \in Nat /\ f + m \in Nat
  BY DEF Scored, ValidScore
<1>3. /\ f > m => raw.female > raw.male
      /\ m > f => raw.male > raw.female
  BY DEF Scored, ValidScore
<1>4. Cleared(g, t)
  BY <1>1, GenderCleared
<1>5. g = IF f >= m THEN Said("female", f, f + m, t) ELSE Said("male", m, f + m, t)
  BY DEF Gender
<1> HIDE DEF t, f, m, g
<1>6. g.prediction # Unknown =>
        /\ g.whole = f + m
        /\ \/ g.prediction = "female" /\ g.part = f
           \/ g.prediction = "male" /\ g.part = m
  BY <1>5 DEF Said, Silent
<1>7. ASSUME g.prediction # Unknown PROVE 2 * g.part > g.whole
  <2> DEFINE p == g.part
             w == g.whole
  <2>1. p \in Nat /\ w \in Nat
    BY <1>4, <1>7 DEF Cleared
  <2>2. w # 0 /\ p * Unit >= t * w
    BY <1>1, <1>4, <1>7, <2>1, UnitAssumption DEF Cleared
  <2> HIDE DEF p, w
  <2>3. (2 * t - Unit) * w > 0
    <3>1. 2 * t - Unit \in Nat \ {0} /\ w \in Nat \ {0}
      BY <1>1, <2>1, <2>2, UnitAssumption
    <3> QED BY <3>1
  <2>4. (2 * t - Unit) * w = 2 * (t * w) - Unit * w
    BY <1>1, <2>1, UnitAssumption
  <2>5. 2 * (p * Unit) > Unit * w
    BY <1>1, <2>1, <2>2, <2>3, <2>4, UnitAssumption
  <2>6. (2 * p - w) * Unit = 2 * (p * Unit) - Unit * w
    BY <2>1, UnitAssumption
  <2>7. 2 * p - w > 0
    <3>1. SUFFICES ASSUME 2 * p - w <= 0 PROVE FALSE
      BY <2>1
    <3>2. (2 * p - w) * Unit <= 0 * Unit
      BY <2>1, <3>1, Scaled, UnitAssumption
    <3> QED BY <2>1, <2>5, <2>6, <3>2, UnitAssumption
  <2> QED BY <2>1, <2>7 DEF p, w
<1>8. Answer(s, label, raw).gender \in {g, Silent}
  BY DEF Answer, g, t
<1> QED BY <1>2, <1>3, <1>6, <1>7, <1>8 DEF Silent, f, m

-----------------------------------------------------------------------------
(* No superseded code comes out of the parser. *)
LEMMA CodesAreCurrent ==
    ASSUME NEW label
    PROVE  ParseCode(label) \notin DOMAIN LegacyCodes
<1>1. DOMAIN LegacyCodes = {"iw", "jw", "in", "ji"}
  BY DEF LegacyCodes
<1>2. ASSUME label \in DOMAIN LegacyCodes PROVE LegacyCodes[label] \in {"he", "jv", "id", "yi"}
  BY <1>1, <1>2 DEF LegacyCodes
<1>3. Unknown \notin DOMAIN LegacyCodes
  BY <1>1 DEF Unknown
<1> QED BY <1>1, <1>2, <1>3 DEF ParseCode

(* LanguageIsServedAndClear (language.py decide_language): a language that is       *)
(* reported is one the deployment serves, under its current tag; its raw posterior  *)
(* is what is reported as the confidence, leads every other language that is served *)
(* by the configured margin, and with a margin above one is no tie that the order   *)
(* of the labels broke; without a list of languages it reached the threshold alone. *)
THEOREM LanguageIsServedAndClear ==
    ASSUME NEW s, LanguageAccepted(s), s.margin \in Nat,
           NEW p \in Seq(Nat), NEW labels \in Seq(STRING),
           DecideLanguage(s, p, labels).prediction # Unknown
    PROVE  \E i \in Candidates(labels, s.allowed) :
             LET decision == DecideLanguage(s, p, labels)
             IN /\ decision.prediction = ParseCode(labels[i]) /\ decision.part = p[i]
                /\ decision.prediction \notin DOMAIN LegacyCodes
                /\ s.allowed # {} => decision.prediction \in s.allowed
                /\ s.allowed = {} => p[i] >= s.languageThreshold
                /\ \A j \in Candidates(labels, s.allowed) \ {i} :
                      /\ p[i] * Unit >= s.margin * p[j]
                      /\ s.margin > Unit /\ p[i] > 0 => p[i] > p[j]
<1> DEFINE among == Candidates(labels, s.allowed)
           winners == Winners(s, p, labels)
           best == CHOOSE i \in winners : TRUE
           decision == DecideLanguage(s, p, labels)
<1>1. winners # {} /\ Len(p) = Len(labels)
      /\ decision = [prediction |-> ParseCode(labels[best]), part |-> p[best], whole |-> Unit]
  BY DEF DecideLanguage, Silent
<1>2. best \in winners
  BY <1>1
<1> HIDE DEF decision, best
<1>3. /\ best \in among
      /\ EnoughEvidence(s, p, among, best)
      /\ \A j \in among \ {best} : p[best] * Unit >= s.margin * p[j]
  BY <1>2 DEF Winners
<1>4. \A j \in among : p[j] \in Nat
  BY <1>1 DEF Candidates
<1>5. s.allowed # {} => ParseCode(labels[best]) \in s.allowed
  BY <1>3 DEF Candidates
<1>6. s.allowed = {} => p[best] >= s.languageThreshold
  BY <1>3, <1>4, UnitAssumption DEF EnoughEvidence, LanguageAccepted
<1>7. ASSUME NEW j \in among \ {best}, s.margin > Unit, p[best] > 0
      PROVE  p[best] > p[j]
  <2> DEFINE x == p[best]
             y == p[j]
  <2>1. x \in Nat /\ y \in Nat /\ x > 0 /\ x * Unit >= s.margin * y
    BY <1>3, <1>4, <1>7
  <2> HIDE DEF x, y
  <2>2. SUFFICES ASSUME x <= y PROVE FALSE
    BY <2>1 DEF x, y
  <2>3. (s.margin - Unit) * y > 0
    <3>1. s.margin - Unit \in Nat \ {0} /\ y \in Nat \ {0}
      BY <1>7, <2>1, <2>2, UnitAssumption
    <3> QED BY <3>1
  <2>4. (s.margin - Unit) * y = s.margin * y - y * Unit
    BY <2>1, UnitAssumption
  <2>5. x * Unit <= y * Unit
    BY <2>1, <2>2, Scaled, UnitAssumption
  <2>6. s.margin * y \in Int /\ x * Unit \in Int /\ y * Unit \in Int
    BY <2>1, UnitAssumption
  <2> HIDE DEF among, winners
  <2> QED BY <2>1, <2>3, <2>4, <2>5, <2>6
<1>8. ParseCode(labels[best]) \notin DOMAIN LegacyCodes
  BY CodesAreCurrent
<1> HIDE DEF among
<1>9. /\ decision.prediction = ParseCode(labels[best]) /\ decision.part = p[best]
      /\ decision.prediction \notin DOMAIN LegacyCodes
      /\ s.allowed # {} => decision.prediction \in s.allowed
      /\ s.allowed = {} => p[best] >= s.languageThreshold
      /\ \A j \in among \ {best} :
            /\ p[best] * Unit >= s.margin * p[j]
            /\ s.margin > Unit /\ p[best] > 0 => p[best] > p[j]
  BY <1>1, <1>3, <1>5, <1>6, <1>7, <1>8
<1> QED BY <1>3, <1>9 DEF among, decision

-------------------------------------------------------------------------------
(***************************************************************************)
(* What every accepted configuration guarantees the parts that run under   *)
(* it.                                                                     *)
(***************************************************************************)

(* StartupNeedsFourMore (main.py _build_persistence and the two validate methods):  *)
(* PersistenceSettings accepts what is derived from an accepted configuration when, *)
(* and only when, four values that Settings.validate bounds on one side stay below  *)
(* or within the bounds of their own; with any other accepted configuration the     *)
(* service does not start.                                                          *)
THEOREM StartupNeedsFourMore ==
    ASSUME NEW s, Accepted(s),
           s.retentionHours \in Int, s.resultDays \in Int
    PROVE  PersistenceAccepted(Persistence(s)) <=>
             /\ s.retentionHours <= 24 * 365 /\ s.resultDays <= 365
             /\ SegmentAccepted(s.segmentSeconds)
             /\ TimeoutAccepted(s.operationTimeout)
<1> DEFINE p == Persistence(s)
<1>1. StorageAccepted(s)
  BY DEF Accepted
<1>2. /\ p.mode # "none" => p.databaseNamed
      /\ p.mode = "result_and_audio" => p.bucketNamed
  <2>1. CASE s.persistenceEnabled
    BY <1>1, <2>1, Zenon DEF Persistence, StorageAccepted
  <2>2. CASE ~s.persistenceEnabled
    <3>1. p.mode = "none"
      BY <2>2 DEF Persistence
    <3> QED BY <3>1
  <2> QED BY <2>1, <2>2
<1>3. /\ RetentionAccepted(p.retention) <=> s.retentionHours <= 24 * 365
      /\ RetentionAccepted(p.resultRetention) <=> s.resultDays <= 365
  BY <1>1 DEF Persistence, StorageAccepted, RetentionAccepted, One
<1>4. CleanupAccepted(p) /\ PoolsAccepted(p) /\ p.prefixValid
  BY <1>1 DEF Persistence, StorageAccepted, CleanupAccepted, PoolsAccepted, Within, One
<1>5. /\ SegmentAccepted(p.segmentSeconds) <=> SegmentAccepted(s.segmentSeconds)
      /\ TimeoutAccepted(p.commandTimeout) <=> TimeoutAccepted(s.operationTimeout)
      /\ TimeoutAccepted(p.operationTimeout) <=> TimeoutAccepted(s.operationTimeout)
  BY DEF Persistence
<1>6. s.retentionHours <= 24 * 365 => LifecycleAccepted(p)
  BY <1>1 DEF Persistence, StorageAccepted, LifecycleAccepted, LifecycleDays
<1> HIDE DEF p
<1>7. PersistenceAccepted(p) <=>
             /\ s.retentionHours <= 24 * 365 /\ s.resultDays <= 365
             /\ SegmentAccepted(s.segmentSeconds)
             /\ TimeoutAccepted(s.operationTimeout)
  BY <1>2, <1>3, <1>4, <1>5, <1>6, Zenon DEF PersistenceAccepted
<1> QED BY <1>7 DEF p

(* BucketOutlivesRetention (main.py _build_persistence): the bucket expires an      *)
(* object at least a day after the last hour its session is retained for, which is  *)
(* the time the cleanup worker has to remove it and say so, and within two days.    *)
THEOREM BucketOutlivesRetention ==
    ASSUME NEW hours \in Nat \ {0}
    PROVE  /\ 24 * LifecycleDays(hours) >= hours + 24
           /\ 24 * LifecycleDays(hours) < hours + 48
BY DEF LifecycleDays

-----------------------------------------------------------------------------
(* A frame of an accepted stream has one of four sizes. *)
LEMMA FrameSizes ==
    ASSUME NEW start, StartAccepted(start)
    PROVE  FrameBytes(start) \in {1, 2, 4, 8}
<1>1. BytesPerSample(start.encoding) \in {1, 2, 4}
  BY DEF BytesPerSample
<1>2. start.channels \in 1 .. 2
  BY Zenon DEF StartAccepted
<1>3. \A b \in {1, 2, 4}, c \in 1 .. 2 : b * c \in {1, 2, 4, 8}
  OBVIOUS
<1> QED BY <1>1, <1>2, <1>3, Zenon DEF FrameBytes

(* SegmentsAreWholeFrames (persistence/service.py _segment_target_bytes): for every *)
(* accepted stream and every configured length a stored segment holds a positive,   *)
(* whole number of sample frames, so that no sample is split over two objects.      *)
THEOREM SegmentsAreWholeFrames ==
    ASSUME NEW start, StartAccepted(start), NEW seconds \in Nat
    PROVE  LET target == SegmentTarget(start, seconds)
           IN target \in Nat \ {0} /\ target % FrameBytes(start) = 0
<1> DEFINE frame == FrameBytes(start)
           n == start.rate * frame * seconds
           target == Round(n, One)
<1>1. frame \in {1, 2, 4, 8}
  BY FrameSizes
<1>2. n \in Nat
  <2>1. start.rate \in Nat
    BY Zenon DEF StartAccepted
  <2>2. \A r \in Nat, f \in {1, 2, 4, 8} : r * f * seconds \in Nat
    OBVIOUS
  <2> HIDE DEF frame
  <2> QED BY <1>1, <2>1, <2>2, Zenon
<1>3. target \in Nat
  <2> HIDE DEF n
  <2> QED BY <1>2 DEF Round, One
<1>4. SegmentTarget(start, seconds) =
        IF target - (target % frame) < frame THEN frame ELSE target - (target % frame)
  BY DEF SegmentTarget
<1> HIDE DEF target, frame, n
<1>5. ASSUME NEW f \in {1, 2, 4, 8}, NEW t \in Nat
      PROVE  LET cut == IF t - (t % f) < f THEN f ELSE t - (t % f)
             IN cut \in Nat \ {0} /\ cut % f = 0
  <2>1. CASE f = 1 BY <2>1
  <2>2. CASE f = 2 BY <2>2
  <2>3. CASE f = 4 BY <2>3
  <2>4. CASE f = 8 BY <2>4
  <2> QED BY <2>1, <2>2, <2>3, <2>4
<1> QED BY <1>1, <1>3, <1>4, <1>5 DEF frame

-----------------------------------------------------------------------------
(* A longer time holds no fewer samples. *)
LEMMA LongerHoldsMore ==
    ASSUME NEW a \in Nat, NEW b \in Nat, a <= b, NEW rate \in Nat
    PROVE  /\ SamplesIn(a, rate) \in Nat /\ SamplesIn(b, rate) \in Nat
           /\ SamplesIn(a, rate) <= SamplesIn(b, rate)
           /\ SamplesIn(a, rate) * One <= b * rate
<1> DEFINE x == a * rate
           y == b * rate
<1>1. x \in Nat /\ y \in Nat
  OBVIOUS
<1>2. (b - a) * rate \in Nat /\ (b - a) * rate = y - x
  OBVIOUS
<1>3. x <= y
  <2> HIDE DEF x, y
  <2>1. y - x \in Nat
    BY <1>2
  <2> QED BY <1>1, <2>1
<1>4. SamplesIn(a, rate) = x \div One /\ SamplesIn(b, rate) = y \div One
  BY DEF SamplesIn
<1> HIDE DEF x, y
<1>5. x \div One \in Nat /\ y \div One \in Nat /\ x \div One <= y \div One
      /\ (x \div One) * One <= y
  BY <1>1, <1>3 DEF One
<1> QED BY <1>4, <1>5 DEF y

(* UpdatesAreWholeAndBounded (main.py _analysis_offset and _progressive_payload):   *)
(* of a buffer of whole frames an update analyses the last ones, whole, all of them *)
(* or exactly the window's worth, and never more than max_audio_seconds, which the  *)
(* decoder refuses.                                                                 *)
THEOREM UpdatesAreWholeAndBounded ==
    ASSUME NEW s, AudioAccepted(s), StreamAccepted(s),
           s.analysisWindow \in Nat, s.maxAudio \in Nat,
           NEW start, StartAccepted(start),
           NEW n \in Nat, n % FrameBytes(start) = 0
    PROVE  LET limit == AnalysisLimit(s, start)
               payload == ProgressivePayload(s, n, start)
           IN /\ payload = IF n <= limit THEN n ELSE limit
              /\ payload % FrameBytes(start) = 0
              /\ limit * One <= s.maxAudio * start.rate * FrameBytes(start)
<1> DEFINE frame == FrameBytes(start)
           inWindow == SamplesIn(s.analysisWindow, start.rate)
           limit == inWindow * frame
           rate == start.rate
<1>1. frame \in {1, 2, 4, 8}
  BY FrameSizes
<1>2. start.rate \in Nat
  BY Zenon DEF StartAccepted
<1>3. s.analysisWindow <= s.maxAudio
  BY DEF StreamAccepted
<1>4. inWindow \in Nat /\ inWindow * One <= s.maxAudio * rate
  BY <1>2, <1>3, LongerHoldsMore
<1>5. AnalysisLimit(s, start) = limit
  BY DEF AnalysisLimit
<1>6. ProgressivePayload(s, n, start) =
        n - (IF n <= limit THEN 0 ELSE (n - limit) - ((n - limit) % frame))
  BY <1>5 DEF ProgressivePayload, AnalysisOffset
<1> HIDE DEF inWindow, frame, rate
<1>7. limit \in Nat /\ limit % frame = 0 /\ (n > limit => (n - limit) % frame = 0)
  <2>1. n % frame = 0
    BY DEF frame
  <2> QED BY <1>1, <1>4, <2>1
<1>8. limit * One <= s.maxAudio * rate * frame
  <2> DEFINE most == s.maxAudio * rate
  <2>1. most \in Nat
    BY <1>2 DEF rate
  <2> HIDE DEF most
  <2>2. inWindow * One <= most
    BY <1>4 DEF most
  <2>3. limit * One <= most * frame
    BY <1>1, <1>4, <2>1, <2>2 DEF One
  <2> QED BY <2>3 DEF most
<1> HIDE DEF limit
<1>9. ProgressivePayload(s, n, start) = IF n <= limit THEN n ELSE limit
  BY <1>6, <1>7, <1>1
<1>10. n % frame = 0
  BY DEF frame
<1> QED BY <1>5, <1>7, <1>8, <1>9, <1>10 DEF frame, rate

(* TheTailIsEnough (inference/service.py _language_window and _identify_language):  *)
(* the window that is cut for the language model is never too short for it because  *)
(* it was cut: with enough decoded audio it is asked, and it sees at least          *)
(* language_min_seconds and at most language_window_seconds.                        *)
THEOREM TheTailIsEnough ==
    ASSUME NEW s, LanguageSettingsAccepted(s),
           s.languageMin \in Int, s.languageWindow \in Int, s.targetRate \in Nat,
           NEW n \in Nat
    PROVE  LET least == SamplesIn(s.languageMin, s.targetRate)
               most == SamplesIn(s.languageWindow, s.targetRate)
           IN /\ n >= least => LanguageSamples(s, n) = LanguageWindow(s, n)
              /\ n >= least => LanguageSamples(s, n) >= least
              /\ LanguageSamples(s, n) <= most
              /\ LanguageSamples(s, n) <= n
<1> DEFINE least == SamplesIn(s.languageMin, s.targetRate)
           most == SamplesIn(s.languageWindow, s.targetRate)
<1>1. /\ s.languageMin \in Nat /\ s.languageWindow \in Nat
      /\ s.languageMin <= s.languageWindow
  BY DEF LanguageSettingsAccepted
<1>2. least \in Nat /\ most \in Nat /\ least <= most
  BY <1>1, LongerHoldsMore
<1>3. LanguageWindow(s, n) = IF n <= most THEN n ELSE most
  BY DEF LanguageWindow
<1>4. LanguageSamples(s, n) = IF LanguageWindow(s, n) < least THEN 0 ELSE LanguageWindow(s, n)
  BY DEF LanguageSamples
<1> HIDE DEF least, most
<1>5. /\ n >= least => LanguageSamples(s, n) = LanguageWindow(s, n)
      /\ n >= least => LanguageSamples(s, n) >= least
      /\ LanguageSamples(s, n) <= most /\ LanguageSamples(s, n) <= n
  BY <1>2, <1>3, <1>4
<1> QED BY <1>5 DEF least, most
================================================================================
