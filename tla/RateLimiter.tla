----------------------------- MODULE RateLimiter -----------------------------
(***************************************************************************)
(* The token buckets that every request and WebSocket handshake passes     *)
(* (backend/app/ratelimit.py and its callers in main.py).                  *)
(*                                                                         *)
(* check is synchronous, so a call is one step.  Time is counted in ticks  *)
(* and tokens in parts, TokenParts to a token, so that a tick's refill is  *)
(* a whole number of parts.  A patient client comes back when Retry-After  *)
(* told it to, and not before; the others call whenever they like.         *)
(***************************************************************************)
EXTENDS Integers, FiniteSets

CONSTANTS Clients,         \* client_key of the callers
          Nobody,
          Patient,         \* the clients that obey Retry-After
          TokenParts,
          Capacity,        \* rate_limit_burst, in tokens
          Refill,          \* refill_per_second, in parts per tick
          TicksPerSecond,
          MaxClients,      \* rate_limit_max_tracked_clients
          MaxTime          \* bound: ticks

ASSUME LimiterAssumption ==
    /\ Patient \subseteq Clients /\ Nobody \notin Clients
    /\ {TokenParts, Capacity, Refill, TicksPerSecond, MaxClients} \subseteq Nat \ {0}
    /\ MaxTime \in Nat

VARIABLES
    now,        \* time.monotonic()
    tracked,    \* the keys of _buckets
    tokens,     \* the parts in each tracked client's bucket
    seen,       \* its last_seen
    due,        \* when Retry-After last told the client to come back
    refusals,   \* how often it was refused since it was last admitted
    watched,    \* history: a client observed since some moment, or Nobody,
    since,      \* that moment,
    admitted    \* and how often it was admitted since

buckets == <<tracked, tokens, seen>>
advice == <<due, refusals>>
watch == <<watched, since, admitted>>
limiterVars == <<now, buckets, advice, watch>>

Full == Capacity * TokenParts
Least(a, b) == IF a < b THEN a ELSE b
Most(a, b) == IF a < b THEN b ELSE a

LimiterInit ==
    /\ now = 0
    /\ tracked = {}
    /\ tokens = [c \in Clients |-> 0] /\ seen = [c \in Clients |-> 0]
    /\ due = [c \in Clients |-> 0] /\ refusals = [c \in Clients |-> 0]
    /\ watched = Nobody /\ since = 0 /\ admitted = 0

\* Mutant of Refilled: the bucket overflows.
Refilled_Unbounded(c) == tokens[c] + (now - seen[c]) * Refill

\* What the bucket holds when its client is seen again.
Refilled(c) == Least(Full, tokens[c] + (now - seen[c]) * Refill)

Without(f, gone) == [c \in Clients |-> IF c \in gone THEN 0 ELSE f[c]]

Comes(c) == c \in Patient => now >= due[c]

\* Mutant of Evicted: no one ever goes.
Evicted_Never == {{}}

\* _evict_if_full: the stalest tenth goes, at least one.
Evicted ==
    IF Cardinality(tracked) < MaxClients THEN {{}}
    ELSE {gone \in SUBSET tracked :
            /\ Cardinality(gone) = Most(1, MaxClients \div 10)
            /\ \A c \in gone, d \in tracked \ gone : seen[c] <= seen[d]}

\* A client without a bucket gets a full one.
AdmitNew(c) ==
    /\ Comes(c) /\ c \notin tracked
    /\ \E gone \in Evicted :
         /\ tracked' = (tracked \ gone) \cup {c}
         /\ tokens' = [Without(tokens, gone) EXCEPT ![c] = Full - TokenParts]
         /\ seen' = [Without(seen, gone) EXCEPT ![c] = now]
         /\ IF watched \in gone
            THEN watched' = Nobody /\ since' = 0 /\ admitted' = 0
            ELSE UNCHANGED watch
    /\ due' = [due EXCEPT ![c] = now] /\ refusals' = [refusals EXCEPT ![c] = 0]
    /\ UNCHANGED now

Admit(c) ==
    /\ Comes(c) /\ c \in tracked
    /\ Refilled(c) >= TokenParts
    /\ tokens' = [tokens EXCEPT ![c] = Refilled(c) - TokenParts]
    /\ seen' = [seen EXCEPT ![c] = now]
    /\ admitted' = IF c = watched THEN admitted + 1 ELSE admitted
    /\ due' = [due EXCEPT ![c] = now] /\ refusals' = [refusals EXCEPT ![c] = 0]
    /\ UNCHANGED <<now, tracked, watched, since>>

\* Mutant of RetryAfter: rounded down.
RetryAfter_Truncated(missing) == missing \div (Refill * TicksPerSecond)

\* The Retry-After header, in seconds: max(1, int(retry_after + 0.5)).
RetryAfter(missing) ==
    Most(1, (2 * missing + Refill * TicksPerSecond) \div (2 * Refill * TicksPerSecond))

\* A refused call is seen as well, and keeps what was refilled.
Refuse(c) ==
    /\ Comes(c) /\ c \in tracked
    /\ Refilled(c) < TokenParts
    /\ tokens' = [tokens EXCEPT ![c] = Refilled(c)]
    /\ seen' = [seen EXCEPT ![c] = now]
    /\ due' = [due EXCEPT ![c] = now + TicksPerSecond * RetryAfter(TokenParts - Refilled(c))]
    /\ refusals' = [refusals EXCEPT ![c] = IF c \in Patient THEN @ + 1 ELSE @]
    /\ UNCHANGED <<now, tracked, watch>>

Elapse ==
    /\ now < MaxTime
    /\ now' = now + 1
    /\ UNCHANGED <<buckets, advice, watch>>

\* The observation of a tracked client begins.
Watch(c) ==
    /\ watched = Nobody /\ c \in tracked
    /\ watched' = c /\ since' = now /\ admitted' = 0
    /\ UNCHANGED <<now, buckets, advice>>

LimiterNext ==
    \/ \E c \in Clients : AdmitNew(c) \/ Admit(c) \/ Refuse(c) \/ Watch(c)
    \/ Elapse

LimiterSpec == LimiterInit /\ [][LimiterNext]_limiterVars

-------------------------------------------------------------------------------
LimiterTypeOK ==
    /\ now \in Nat
    /\ tracked \subseteq Clients /\ Cardinality(tracked) <= MaxClients
    /\ tokens \in [Clients -> 0..Full]
    /\ seen \in [Clients -> 0..now]
    /\ due \in [Clients -> Nat] /\ refusals \in [Clients -> Nat]
    /\ watched \in tracked \cup {Nobody} /\ since \in 0..now /\ admitted \in Nat

\* The limit: from any moment on, a client that stays tracked is admitted no more often
\* than its burst and the sustained rate since that moment allow, however its calls
\* are spaced and however many of them are refused; what is in its bucket is counted
\* with it.
LimitHolds ==
    watched # Nobody =>
        admitted * TokenParts + Refilled(watched) <= Full + (now - since) * Refill

\* A client that obeys Retry-After is refused at most twice before it gets through:
\* rounding to the nearest second can send it back too early once, not twice.
PatienceIsRewarded == \A c \in Patient : refusals[c] <= 2
==============================================================================
