-------------------------- MODULE RetentionCleanup ---------------------------
(***************************************************************************)
(* How retained analyses leave by themselves, and how they are listed      *)
(* meanwhile: expires_at as _start sets it, the _cleanup_loop of every     *)
(* container with purge_expired and its batches (persistence/service.py),  *)
(* the bucket's lifecycle rule (main.py, persistence/stores.py) and        *)
(* GET /analyses, read page by page.                                       *)
(*                                                                         *)
(* Many sessions and the clock are what matters here.  PersistenceService  *)
(* is about the deletion of one: a deletion is one step of this module,    *)
(* which removes the audio and the row, or fails with the row in place and *)
(* part of the audio perhaps gone.                                         *)
(***************************************************************************)
EXTENDS Integers, FiniteSets

CONSTANTS Sessions,      \* their ids, ordered as PostgreSQL orders them
          Workers,       \* the containers, each with its _cleanup_loop
          Modes,         \* of {"result", "result_and_audio"}
          AudioHours, ResultHours,  \* retention_hours, result_retention_hours
          Day,           \* hours of a day
          Interval,      \* cleanup_interval_seconds, in hours
          BatchSize,     \* cleanup_batch_size
          PageSize,      \* limit of GET /analyses
          LastStart,     \* bound: no session starts later
          MaxTime,       \* bound: where the clock stops to be counted,
          MaxFaults      \* bound: calls that fail for a passing reason

ASSUME CleanupAssumption ==
    /\ Sessions \subseteq Nat /\ IsFiniteSet(Sessions)
    /\ Modes \subseteq {"result", "result_and_audio"}
    /\ {AudioHours, ResultHours, Day, Interval, BatchSize, PageSize} \subseteq Nat \ {0}
    /\ LastStart \in Nat /\ MaxTime \in Nat /\ MaxFaults \in Nat

VARIABLES
    now,
    row,         \* [Sessions -> {"none", "live", "gone"}]
    mode, created, expires,     \* columns of the row
    audio,       \* sessions some of whose objects are in the bucket
    refused,     \* sessions whose objects the bucket will not delete on request
    ownsBucket,  \* s3_create_bucket: the bucket has the lifecycle rule
    batch,       \* [Workers -> what purge_expired still has to delete]
    sleep,       \* [Workers -> what is left of the wait_for of _cleanup_loop]
    faults,      \* passing failures so far
    page,        \* the client that reads the list, if there is one: [at, before, listed]
    asked,       \* history: sessions a client deleted
    owed         \* history: sessions there since the reader began

rows == <<row, mode, created, expires, audio>>
deployment == <<refused, ownsBucket>>
workers == <<batch, sleep, faults>>
reader == <<page, owed>>
vars == <<now, rows, deployment, workers, reader, asked>>

NoCursor == MaxTime + 1

Init ==
    /\ now = 0
    /\ row = [s \in Sessions |-> "none"]
    /\ mode \in [Sessions -> Modes]
    /\ created = [s \in Sessions |-> 0] /\ expires = [s \in Sessions |-> 0]
    /\ audio = {}
    /\ refused \in SUBSET {s \in Sessions : mode[s] = "result_and_audio"}
    /\ ownsBucket \in BOOLEAN
    /\ batch = [w \in Workers |-> {}] /\ sleep = [w \in Workers |-> Interval]
    /\ faults = 0
    /\ page \in [at : {"idle", "closed"}, before : {NoCursor}, listed : {{}}]
    /\ asked = {} /\ owed = {}

Live == {s \in Sessions : row[s] = "live"}

-------------------------------------------------------------------------------
\* _start and, for audio, the PUTs; what a handler fails to finish it deletes itself.
Retain(s) ==
    /\ row[s] = "none" /\ now <= LastStart
    /\ row' = [row EXCEPT ![s] = "live"]
    /\ created' = [created EXCEPT ![s] = now]
    /\ expires' = [expires EXCEPT
         ![s] = now + (IF mode[s] = "result" THEN ResultHours ELSE AudioHours)]
    /\ audio' = IF mode[s] = "result" THEN audio ELSE audio \cup {s}
    /\ UNCHANGED <<now, mode, deployment, workers, reader, asked>>

\* delete of a session that can be deleted, or is not there any more.
Gone(s) ==
    /\ row' = [row EXCEPT ![s] = IF @ = "live" THEN "gone" ELSE @]
    /\ audio' = audio \ {s}
    /\ owed' = owed \ {s}
    /\ UNCHANGED <<mode, created, expires, page>>

\* delete that raises: the metadata stays, and the audio the bucket did not give up.
Stays(s) ==
    /\ row[s] = "live"
    /\ \/ s \in audio /\ s \in refused /\ UNCHANGED faults
       \/ faults < MaxFaults /\ faults' = faults + 1
    /\ UNCHANGED <<rows, reader>>

Deletable(s) == ~(s \in audio /\ s \in refused)

\* DELETE /analyses/{id}.
ClientDelete(s) ==
    /\ row[s] = "live" /\ Deletable(s)
    /\ Gone(s)
    /\ asked' = asked \cup {s}
    /\ UNCHANGED <<now, deployment, workers>>

-------------------------------------------------------------------------------
(* _cleanup_loop. *)

Expired == {s \in Live : expires[s] <= now}

ExpiresBefore(s, t) == expires[s] < expires[t] \/ (expires[s] = expires[t] /\ s < t)

\* Mutant of Oldest: without LIMIT.
Oldest_All == Expired

\* list_expired: those with fewer than a batch before them.
Oldest ==
    {s \in Expired : Cardinality({t \in Expired : ExpiresBefore(t, s)}) < BatchSize}

Sleep(w) == sleep' = [sleep EXCEPT ![w] = Interval]

\* The wait ends and purge_expired lists its batch.
Wake(w) ==
    /\ batch[w] = {} /\ sleep[w] = 0
    /\ batch' = [batch EXCEPT ![w] = Oldest]
    /\ IF Oldest = {} THEN Sleep(w) ELSE UNCHANGED sleep
    /\ UNCHANGED <<now, rows, deployment, faults, reader, asked>>

\* list_expired raises: the loop logs it and waits again.
WakeFails(w) ==
    /\ batch[w] = {} /\ sleep[w] = 0
    /\ faults < MaxFaults
    /\ faults' = faults + 1
    /\ Sleep(w)
    /\ UNCHANGED <<now, rows, deployment, batch, reader, asked>>

\* Mutant of Rest: the first session that cannot be deleted ends the batch.
Rest_NoneOnFailure(w, s, deleted) == IF deleted THEN batch[w] \ {s} ELSE {}

\* A failure goes to the log, and the loop to the next session.
Rest(w, s, deleted) == batch[w] \ {s}

Purge(w) ==
    /\ \E s \in batch[w], deleted \in BOOLEAN :
         /\ \A t \in batch[w] \ {s} : ExpiresBefore(s, t)
         /\ IF deleted
            THEN Deletable(s) /\ Gone(s) /\ UNCHANGED faults
            ELSE Stays(s)
         /\ batch' = [batch EXCEPT ![w] = Rest(w, s, deleted)]
         /\ IF Rest(w, s, deleted) = {} THEN Sleep(w) ELSE UNCHANGED sleep
    /\ UNCHANGED <<now, deployment, asked>>

-------------------------------------------------------------------------------
\* Mutant of LifecycleDays: the retention in whole days.
LifecycleDays_Whole == AudioHours \div Day

\* s3_orphan_lifecycle_days.
LifecycleDays == (AudioHours + Day - 1) \div Day + 1

\* The bucket removes the objects of a session by its rule.
Lifecycle(s) ==
    /\ ownsBucket /\ s \in audio
    /\ now >= created[s] + LifecycleDays * Day
    /\ audio' = audio \ {s}
    /\ UNCHANGED <<now, row, mode, created, expires, deployment, workers, reader, asked>>

\* Time goes on, though it is no longer counted.
Tick ==
    /\ now' = IF now < MaxTime THEN now + 1 ELSE now
    /\ sleep' = [w \in Workers |-> IF batch[w] = {} /\ sleep[w] > 0 THEN sleep[w] - 1 ELSE sleep[w]]
    /\ UNCHANGED <<rows, deployment, batch, faults, reader, asked>>

-------------------------------------------------------------------------------
(* GET /analyses, a client that reads all pages. *)

CreatedAfter(s, t) == created[s] > created[t] \/ (created[s] = created[t] /\ s > t)

\* What the cursor leaves.
Older == {s \in Live : created[s] < page.before}

\* Mutant of Page: the oldest come first.
Page_OldestFirst ==
    {s \in Older : Cardinality({t \in Older : CreatedAfter(s, t)}) < PageSize}

\* list_sessions: those with less than a page before them.
Page == {s \in Older : Cardinality({t \in Older : CreatedAfter(t, s)}) < PageSize}

\* The reader goes on with the creation time of the last one, until what is left does
\* not fill a page.
ReadPage ==
    /\ page.at \in {"idle", "reading"}
    /\ owed' = IF page.at = "idle" THEN Live ELSE owed
    /\ \E before \in 0..NoCursor :
         /\ IF Page = {} THEN before = page.before
            ELSE /\ before \in {created[s] : s \in Page}
                 /\ \A s \in Page : before <= created[s]
         /\ page' = [at     |-> IF Cardinality(Older) < PageSize THEN "read" ELSE "reading",
                     before |-> before,
                     listed |-> page.listed \cup Page]
    /\ UNCHANGED <<now, rows, deployment, workers, asked>>

\* The client is done with what it read.
CloseList ==
    /\ page.at = "read"
    /\ page' = [at |-> "closed", before |-> NoCursor, listed |-> {}]
    /\ owed' = {}
    /\ UNCHANGED <<now, rows, deployment, workers, asked>>

Next ==
    \/ \E s \in Sessions : Retain(s) \/ ClientDelete(s) \/ Lifecycle(s)
    \/ \E w \in Workers : Wake(w) \/ WakeFails(w) \/ Purge(w)
    \/ Tick \/ ReadPage \/ CloseList

Spec == Init /\ [][Next]_vars

\* Time passes, each container's loop runs and the calls it makes return; the bucket
\* applies its rule.
Fairness ==
    /\ WF_vars(Tick)
    /\ \A w \in Workers : WF_vars(Wake(w) \/ WakeFails(w) \/ Purge(w))
    /\ \A s \in Sessions : WF_vars(Lifecycle(s))

FairSpec == Spec /\ Fairness

-------------------------------------------------------------------------------
TypeOK ==
    /\ now \in 0..MaxTime
    /\ row \in [Sessions -> {"none", "live", "gone"}]
    /\ mode \in [Sessions -> Modes]
    /\ created \in [Sessions -> 0..MaxTime] /\ expires \in [Sessions -> Nat]
    /\ audio \subseteq Live
    /\ refused \subseteq Sessions /\ ownsBucket \in BOOLEAN
    /\ batch \in [Workers -> SUBSET Sessions]
    /\ \A w \in Workers : Cardinality(batch[w]) <= BatchSize
    /\ sleep \in [Workers -> 0..Interval]
    /\ faults \in 0..MaxFaults
    /\ page.at \in {"idle", "reading", "read", "closed"} /\ page.before \in 0..NoCursor
    /\ page.listed \subseteq Sessions
    /\ asked \subseteq Sessions /\ owed \subseteq Live

\* Nothing but its own client ends the retention of an analysis early: neither the
\* expiry workers nor the bucket's rule, whose days are counted apart from
\* expires_at, touch the row or the audio before the retention is over.
RetainedUntilExpiry ==
    \A s \in Sessions :
        row[s] # "none" /\ s \notin asked /\ now < expires[s] =>
            row[s] = "live" /\ (mode[s] = "result_and_audio" => s \in audio)

\* Every analysis goes in the end.  Sessions whose objects cannot be deleted stay at
\* the head of the batch every time; as long as they are fewer than a batch they
\* hold up no other, and where the bucket has its rule they go as well, however
\* many they are.
ExpiryHappens ==
    \A s \in Sessions :
        /\ row[s] = "live"
        /\ ownsBucket \/ (s \notin refused /\ Cardinality(refused) < BatchSize)
        ~> row[s] = "gone"

\* A client that follows `before` to the last page has seen every analysis that was
\* there all the time, whatever was created or deleted meanwhile; only one created
\* at the very instant of another may be missed at a page's end.
PagesMissNothing ==
    page.at = "read" =>
        \A s \in owed : \/ s \in page.listed
                        \/ \E t \in page.listed : t # s /\ created[t] = created[s]
==============================================================================
