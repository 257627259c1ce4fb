---------------------------- MODULE InferencePool ----------------------------
(***************************************************************************)
(* How analyses share the model replicas (backend/app/models/pool.py) and  *)
(* hand their audio to worker threads (backend/app/inference/service.py).  *)
(*                                                                         *)
(* analyze runs its stages one after another, each in a thread of its own: *)
(* decode, quality, enhance, then predict on a replica of the model pool   *)
(* and, in some requests, identify on one of the language pool.  The       *)
(* request is a coroutine, so between two awaits it runs alone; the thread *)
(* runs beside it and cannot be stopped.  _thread_call shields the thread  *)
(* from the request's cancellation and joins it once.                      *)
(*                                                                         *)
(* A pool is an asyncio.LifoQueue, used through asyncio.wait_for: a waiter *)
(* is a task of its own that is scheduled, takes a replica or queues up,   *)
(* and is scheduled again when release wakes it.  Which of the free        *)
(* replicas is handed out makes no difference and is left open.            *)
(***************************************************************************)
EXTENDS Integers, Sequences, FiniteSets, SequencesExt

CONSTANTS Requests,          \* analyses, over REST or of a stream
          ModelReplicas,     \* EstimatorPool._estimators of the model pool
          LanguageReplicas,  \* and of the language pool; none if it is not configured
          NoReplica,
          Watched,           \* the requests AnalysesEnd is about
          MaxCancels         \* bound: cancellations, of all requests

Replicas == ModelReplicas \cup LanguageReplicas

ASSUME PoolAssumption ==
    /\ ModelReplicas # {} /\ IsFiniteSet(Replicas)
    /\ ModelReplicas \cap LanguageReplicas = {}
    /\ NoReplica \notin Replicas
    /\ MaxCancels \in Nat

VARIABLES
    ready,      \* AnalysisService.ready
    pool,       \* the two pools; see PoolType
    pc,         \* where the request is
    stage,      \* the stage of analyze it is in
    held,       \* the replica it has to release
    worker,     \* the stage its thread runs, or "none"
    uses,       \* the replica that thread runs on
    reply,      \* how its last thread ended
    audio,      \* its sample arrays that are not wiped yet
    cancelled,  \* a cancellation that is not delivered yet
    cancels     \* how many there have been

request == <<pc, stage, held, audio, cancelled>>
threads == <<worker, uses, reply>>
vars == <<ready, pool, request, threads, cancels>>

Stages == {"decode", "quality", "enhance", "predict", "identify"}
Pools == {"model", "language"}
PoolOf(st) == IF st = "predict" THEN "model" ELSE "language"
Estimators(p) == IF p = "model" THEN ModelReplicas ELSE LanguageReplicas

\* The new sample array a stage returns; enhance at least with the gain control on.
Result(st) ==
    IF st = "decode" THEN {"decoded"} ELSE IF st = "enhance" THEN {"enhanced"} ELSE {}

Init ==
    /\ ready = TRUE
    /\ pool = [p \in Pools |->
                 [free |-> Estimators(p), getters |-> <<>>, woken |-> {}, asking |-> {}]]
    /\ pc = [r \in Requests |-> "idle"]
    /\ stage = [r \in Requests |-> "none"]
    /\ held = [r \in Requests |-> NoReplica]
    /\ worker = [r \in Requests |-> "none"]
    /\ uses = [r \in Requests |-> NoReplica]
    /\ reply = [r \in Requests |-> "none"]
    /\ audio = [r \in Requests |-> {}]
    /\ cancelled = [r \in Requests |-> FALSE]
    /\ cancels = 0

-------------------------------------------------------------------------------
(***************************************************************************)
(* The queue of one pool q.  Waiters that are not running hold a future in *)
(* getters; put wakes the first of them, which then tries again.           *)
(***************************************************************************)
WakeNext(q) ==
    IF q.getters = <<>> THEN q
    ELSE [q EXCEPT !.getters = Tail(@), !.woken = @ \cup {Head(q.getters)}]

\* Mutant of Put: the replica is put back behind the queue's back.
Put_NoWake(q, replica) == [q EXCEPT !.free = @ \cup {replica}]

Put(q, replica) == WakeNext([q EXCEPT !.free = @ \cup {replica}])

\* A waiter that is cancelled passes on a wake-up it can no longer use.
Withdraw(q, r) ==
    LET gone == [free |-> q.free, getters |-> RemoveFirst(q.getters, r),
                 woken |-> q.woken \ {r}, asking |-> q.asking \ {r}]
    IN  IF r \in q.woken /\ q.free # {} THEN WakeNext(gone) ELSE gone

\* Mutant of GiveBack: every replica goes back to the model pool.
GiveBack_OnePool(r) ==
    IF held[r] = NoReplica THEN pool
    ELSE [pool EXCEPT !["model"] = Put(@, held[r])]

\* The finally clause around a stage that runs on a replica.
GiveBack(r) ==
    IF held[r] = NoReplica THEN pool
    ELSE [pool EXCEPT ![PoolOf(stage[r])] = Put(@, held[r])]

-------------------------------------------------------------------------------
(***************************************************************************)
(* The steps of analyze.                                                   *)
(***************************************************************************)
RunStage(r, st, replica) ==
    /\ pc' = [pc EXCEPT ![r] = "call"]
    /\ stage' = [stage EXCEPT ![r] = st]
    /\ held' = [held EXCEPT ![r] = replica]
    /\ worker' = [worker EXCEPT ![r] = st]
    /\ uses' = [uses EXCEPT ![r] = replica]
    /\ reply' = [reply EXCEPT ![r] = "none"]

\* acquire takes a free replica at once, whoever else is waiting.
Acquire(r, st, pools) ==
    LET p == PoolOf(st) IN
    \/ /\ pools[p].free # {}
       /\ \E replica \in pools[p].free :
             pool' = [pools EXCEPT ![p].free = @ \ {replica}] /\ RunStage(r, st, replica)
    \/ /\ pools[p].free = {}
       /\ pool' = [pools EXCEPT ![p].asking = @ \cup {r}]
       /\ pc' = [pc EXCEPT ![r] = "wait"]
       /\ stage' = [stage EXCEPT ![r] = st]
       /\ held' = [held EXCEPT ![r] = NoReplica]
       /\ UNCHANGED <<worker, uses, reply>>

\* analyze returns or raises: its finally clauses release the replica and wipe the
\* arrays but those it leaves, and the handler wipes the payload.
Leave(r, pools, leaves) ==
    /\ pool' = pools
    /\ pc' = [pc EXCEPT ![r] = "done"]
    /\ stage' = [stage EXCEPT ![r] = "none"]
    /\ held' = [held EXCEPT ![r] = NoReplica]
    /\ audio' = [audio EXCEPT ![r] = leaves]
    /\ reply' = [reply EXCEPT ![r] = "none"]
    /\ UNCHANGED <<worker, uses>>

\* The finally clause knows the arrays that were returned to analyze: not the one of the
\* stage it was interrupted in.
Unknown(r) == audio[r] \cap Result(stage[r])

Begin(r) ==
    /\ pc[r] = "idle"
    /\ \/ ready /\ RunStage(r, "decode", NoReplica) /\ UNCHANGED <<pool, audio>>
       \/ ~ready /\ Leave(r, pool, {})
    /\ UNCHANGED <<ready, cancelled, cancels>>

\* The thread's stage returned a value; the next one starts.  Quality may end the
\* analysis; the language is not identified for short audio, for one that is settled,
\* or without a language pool.
Proceed(r) ==
    /\ pc[r] = "call" /\ ~cancelled[r]
    /\ worker[r] = "none" /\ reply[r] = "value"
    /\ \/ /\ stage[r] = "decode"
          /\ RunStage(r, "quality", NoReplica) /\ UNCHANGED <<pool, audio>>
       \/ /\ stage[r] = "quality"
          /\ RunStage(r, "enhance", NoReplica) /\ UNCHANGED <<pool, audio>>
       \/ stage[r] = "quality" /\ Leave(r, pool, {})
       \/ stage[r] = "enhance" /\ Acquire(r, "predict", pool) /\ UNCHANGED audio
       \/ /\ stage[r] = "predict" /\ LanguageReplicas # {}
          /\ Acquire(r, "identify", GiveBack(r)) /\ UNCHANGED audio
       \/ stage[r] \in {"predict", "identify"} /\ Leave(r, GiveBack(r), {})
    /\ UNCHANGED <<ready, cancelled, cancels>>

\* Mutant of Raise: release is not in a finally clause.
Raise_KeepsReplica(r) ==
    /\ pc[r] = "call" /\ ~cancelled[r]
    /\ worker[r] = "none" /\ reply[r] = "error"
    /\ Leave(r, pool, Unknown(r))
    /\ UNCHANGED <<ready, cancelled, cancels>>

\* The thread's stage raised.
Raise(r) ==
    /\ pc[r] = "call" /\ ~cancelled[r]
    /\ worker[r] = "none" /\ reply[r] = "error"
    /\ Leave(r, GiveBack(r), Unknown(r))
    /\ UNCHANGED <<ready, cancelled, cancels>>

\* Mutant of Join: a cancelled request does not wait for its thread.
Join_Not(r) ==
    /\ pc[r] = "call" /\ cancelled[r]
    /\ cancelled' = [cancelled EXCEPT ![r] = FALSE]
    /\ Leave(r, GiveBack(r), Unknown(r))
    /\ UNCHANGED <<ready, cancels>>

\* The first cancellation of a stage: _thread_call goes on to join the thread.
Join(r) ==
    /\ pc[r] = "call" /\ cancelled[r]
    /\ pc' = [pc EXCEPT ![r] = "join"]
    /\ cancelled' = [cancelled EXCEPT ![r] = FALSE]
    /\ UNCHANGED <<ready, pool, stage, held, audio, threads, cancels>>

\* Mutant of Joined: samples decoded for nobody are not wiped.
Joined_NoOnCancel(r) ==
    /\ pc[r] = "join" /\ ~cancelled[r] /\ worker[r] = "none"
    /\ Leave(r, GiveBack(r), Unknown(r))
    /\ UNCHANGED <<ready, cancelled, cancels>>

\* The thread has ended: on_cancel wipes what it decoded.
Joined(r) ==
    /\ pc[r] = "join" /\ ~cancelled[r] /\ worker[r] = "none"
    /\ Leave(r, GiveBack(r), Unknown(r) \ {"decoded"})
    /\ UNCHANGED <<ready, cancelled, cancels>>

\* A second cancellation during the join: CancelledError is no Exception, so the join
\* is given up, and on_cancel is not called.
Desert(r) ==
    /\ pc[r] = "join" /\ cancelled[r]
    /\ cancelled' = [cancelled EXCEPT ![r] = FALSE]
    /\ Leave(r, GiveBack(r), Unknown(r))
    /\ UNCHANGED <<ready, cancels>>

(***************************************************************************)
(* Waiting for a replica.                                                  *)
(***************************************************************************)
\* The waiter's task runs: it takes a replica or queues up, at the end.
Poll(r) ==
    LET p == PoolOf(stage[r])
        q == [pool[p] EXCEPT !.asking = @ \ {r}, !.woken = @ \ {r}]
    IN
    /\ pc[r] = "wait"
    /\ r \in pool[p].asking \cup pool[p].woken
    /\ \/ /\ q.free = {}
          /\ pool' = [pool EXCEPT ![p] = [q EXCEPT !.getters = Append(@, r)]]
          /\ UNCHANGED <<pc, held>>
       \/ \E replica \in q.free :
             /\ pool' = [pool EXCEPT ![p] = [q EXCEPT !.free = @ \ {replica}]]
             /\ held' = [held EXCEPT ![r] = replica]
             /\ pc' = [pc EXCEPT ![r] = "granted"]
    /\ UNCHANGED <<ready, stage, audio, cancelled, threads, cancels>>

\* wait_for returns what its task has got, even to a caller cancelled meanwhile.
Granted(r) ==
    /\ pc[r] = "granted"
    /\ RunStage(r, stage[r], held[r])
    /\ cancelled' = [cancelled EXCEPT ![r] = FALSE]
    /\ UNCHANGED <<ready, pool, audio, cancels>>

\* The queue timeout: predict is refused, identify is done without.
Timeout(r) ==
    LET p == PoolOf(stage[r]) IN
    /\ pc[r] = "wait" /\ ~cancelled[r]
    /\ Leave(r, [pool EXCEPT ![p] = Withdraw(@, r)], {})
    /\ UNCHANGED <<ready, cancelled, cancels>>

CancelWait(r) ==
    LET p == PoolOf(stage[r]) IN
    /\ pc[r] = "wait" /\ cancelled[r]
    /\ cancelled' = [cancelled EXCEPT ![r] = FALSE]
    /\ Leave(r, [pool EXCEPT ![p] = Withdraw(@, r)], {})
    /\ UNCHANGED <<ready, cancels>>

(***************************************************************************)
(* What happens beside the request.                                        *)
(***************************************************************************)
\* A thread ends, also one its request no longer waits for.
ThreadEnds(r) ==
    /\ worker[r] # "none"
    /\ worker' = [worker EXCEPT ![r] = "none"]
    /\ uses' = [uses EXCEPT ![r] = NoReplica]
    /\ \E result \in {"value", "error"} :
          /\ reply' = [reply EXCEPT ![r] = result]
          /\ audio' = IF result = "error" THEN audio
                      ELSE [audio EXCEPT ![r] = @ \cup Result(worker[r])]
    /\ UNCHANGED <<ready, pool, pc, stage, held, cancelled, cancels>>

Cancel(r) ==
    /\ pc[r] \in {"call", "join", "wait", "granted"}
    /\ ~cancelled[r] /\ cancels < MaxCancels
    /\ cancelled' = [cancelled EXCEPT ![r] = TRUE]
    /\ cancels' = cancels + 1
    /\ UNCHANGED <<ready, pool, pc, stage, held, audio, threads>>

\* The application is shutting down.
Stop ==
    /\ ready
    /\ ready' = FALSE
    /\ UNCHANGED <<pool, request, threads, cancels>>

RequestStep(r) ==
    \/ Proceed(r) \/ Raise(r) \/ Join(r) \/ Joined(r) \/ Desert(r)
    \/ Poll(r) \/ Granted(r) \/ CancelWait(r)

Next ==
    \/ \E r \in Requests :
          Begin(r) \/ RequestStep(r) \/ Timeout(r) \/ ThreadEnds(r) \/ Cancel(r)
    \/ Stop

Spec == Init /\ [][Next]_vars

\* Runnable coroutines run and threads end.  No timeout has to fire.
FairSpec ==
    /\ Spec
    /\ \A r \in Requests : WF_vars(RequestStep(r)) /\ WF_vars(ThreadEnds(r))

-------------------------------------------------------------------------------
PoolType(p) ==
    [free : SUBSET Estimators(p), getters : Seq(Requests),
     woken : SUBSET Requests, asking : SUBSET Requests]

\* Every variable stays in its type; a replica goes back to the pool it came from.
TypeOK ==
    /\ ready \in BOOLEAN
    /\ DOMAIN pool = Pools /\ \A p \in Pools : pool[p] \in PoolType(p)
    /\ pc \in [Requests -> {"idle", "call", "join", "wait", "granted", "done"}]
    /\ stage \in [Requests -> Stages \cup {"none"}]
    /\ held \in [Requests -> Replicas \cup {NoReplica}]
    /\ worker \in [Requests -> Stages \cup {"none"}]
    /\ uses \in [Requests -> Replicas \cup {NoReplica}]
    /\ reply \in [Requests -> {"none", "value", "error"}]
    /\ audio \in [Requests -> SUBSET {"decoded", "enhanced"}]
    /\ cancelled \in [Requests -> BOOLEAN]
    /\ cancels \in 0 .. MaxCancels

Holders(p, replica) == {r \in Requests : held[r] = replica /\ PoolOf(stage[r]) = p}

\* No replica is lost or given out twice: each is free in its pool, or is held by
\* exactly one request, whatever times out, fails or is cancelled.
EveryReplicaAccounted ==
    \A p \in Pools : \A replica \in Estimators(p) :
        \/ replica \in pool[p].free /\ Holders(p, replica) = {}
        \/ replica \notin pool[p].free /\ \E r \in Requests : Holders(p, replica) = {r}

\* No wake-up is lost: while requests queue, every free replica has a waiter that was
\* woken for it and is about to run.
NoLostWakeup ==
    \A p \in Pools : pool[p].getters # <<>> =>
        Cardinality(pool[p].free) <= Cardinality(pool[p].woken)

\* Every thread is joined before cleanup: no thread reads the audio of a request that
\* is over, and has wiped it.  A second cancellation breaks this.
ThreadsAreJoined == \A r \in Requests : pc[r] = "done" => worker[r] = "none"

\* A single cancellation never leaves a thread behind: none reads wiped audio, and no
\* two run on one replica (_thread_call, service.py 33-57).
WorkersAreJoined ==
    cancels <= 1 =>
        /\ ThreadsAreJoined
        /\ \A r1, r2 \in Requests : r1 # r2 /\ uses[r1] = uses[r2] => uses[r1] = NoReplica

\* The decoded audio is wiped also when the request is cancelled while it is decoded.
DecodedAudioWiped ==
    cancels <= 1 => \A r \in Requests : pc[r] = "done" => "decoded" \notin audio[r]

\* An analysis that was started ends, and no deadline has to end it: threads end, and
\* every release serves a waiter.
AnalysesEnd == \A r \in Watched : pc[r] # "idle" ~> pc[r] = "done"
==============================================================================
