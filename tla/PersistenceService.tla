-------------------------- MODULE PersistenceService --------------------------
(***************************************************************************)
(* Opt-in retention of analyses (backend/app/persistence/service.py), as   *)
(* the REST and WebSocket handlers of backend/app/main.py drive it, over a *)
(* PostgreSQL manifest and an S3 bucket that may fail at any call.         *)
(*                                                                         *)
(* One handler per session creates the row, stores audio segments (object  *)
(* first, manifest row second), and completes; when it does not complete,  *)
(* it deletes what it stored.  DELETE requests and the expiry worker run   *)
(* the same delete on any session whose id is known.  All of them are      *)
(* coroutines of one event loop: a step of a coroutine runs from one await *)
(* to the next, so every store call is a step that applies the call's      *)
(* effect and fixes its reply, and a later step that resumes the caller.   *)
(* Between the two any other coroutine may run, the caller may be          *)
(* cancelled, the service may be closed and the process may be killed.     *)
(*                                                                         *)
(* A store call succeeds, fails with no effect, or fails after it took     *)
(* effect (a timeout or a lost reply).  These failures, closing and        *)
(* killing the process are the mishaps, bounded by MaxMishaps.             *)
(***************************************************************************)
EXTENDS Integers

CONSTANTS Sessions,     \* session ids; one request handler each
          Deleters,     \* DELETE requests and expiry deletions
          Remote,       \* those of them that run in another API container
          MaxSegments,  \* bound: physical segments in one session
          MaxMishaps    \* bound: failed store calls, closes and kills

ASSUME PersistenceAssumption ==
    /\ Sessions \cap Deleters = {}
    /\ Remote \subseteq Deleters
    /\ MaxSegments \in Nat
    /\ MaxMishaps \in Nat

VARIABLES
    row,         \* the row of persistence_sessions: "none", "pending", "completed" or "deleted"
    segs,        \* segment numbers with a row in persistence_audio_segments
    objects,     \* segment numbers whose object is in the bucket
    ready,       \* PersistenceService._ready
    registered,  \* the keys of PersistenceService._runtimes
    closed,      \* _SessionRuntime.closed
    lockGen,     \* which lock object _operation_locks would hand out: 0 is runtime.lock
    hpc,         \* where the session's handler is
    op,          \* the service call the handler is in: "store" or "complete"
    cancelled,   \* the handler's task was cancelled
    taken,       \* segments taken from the accumulator: _StreamAccumulator.next_sequence
    told,        \* what the caller was told about storage
    epc,         \* where each deletion is; a handler's own cleanup is the actor named by its session
    target,      \* the session each deletion is about
    elock,       \* the lock object a deletion took from the index
    ekeys,       \* the object keys a deletion read from the manifest
    eresult,     \* what a deletion returned
    mishaps,     \* how many mishaps there have been
    erasing,     \* history: the sessions a deletion has gone past reading the manifest of
    leaked       \* history: objects whose compensation was lost, by session

Actors == Sessions \cup Deleters
Segments == 0 .. (MaxSegments - 1)

stores   == <<row, segs, objects>>
service  == <<ready, registered, closed, lockGen>>
handlers == <<hpc, op, cancelled, taken, told>>
erasers  == <<epc, target, elock, ekeys, eresult>>
vars == <<stores, service, handlers, erasers, mishaps, erasing, leaked>>

Local(a) == a \notin Remote

(***************************************************************************)
(* The per-session lock.  A handler inside store_rest, store_chunk or the  *)
(* locked part of complete holds lock 0; a deletion between acquiring and  *)
(* releasing holds the one it took from the index.                         *)
(***************************************************************************)
LockedPcs == {"put", "put_ok", "put_failed", "add", "add_ok", "add_failed", "undo",
              "commit", "committed", "commit_failed"}
ErasePcs == {"get", "objects", "row"}

HandlerHolds(s) == hpc[s] \in LockedPcs
Erases(a, s) == target[a] = s /\ epc[a] \in ErasePcs

Free(s, g) ==
    /\ ~(g = 0 /\ HandlerHolds(s))
    /\ \A a \in Actors : Local(a) /\ Erases(a, s) => elock[a] # g

(***************************************************************************)
(* Store calls.  A call by a service that is closed fails on its own.      *)
(***************************************************************************)
Mishap == mishaps < MaxMishaps /\ mishaps' = mishaps + 1
NoMishap == UNCHANGED mishaps
CallFails(a) == IF Local(a) /\ ~ready THEN NoMishap ELSE Mishap

Goto(s, pc) == hpc' = [hpc EXCEPT ![s] = pc]
Last(s) == taken[s] - 1

Init ==
    /\ row = [s \in Sessions |-> "none"]
    /\ segs = [s \in Sessions |-> {}]
    /\ objects = [s \in Sessions |-> {}]
    /\ ready = TRUE
    /\ registered = {}
    /\ closed = [s \in Sessions |-> FALSE]
    /\ lockGen = [s \in Sessions |-> 0]
    /\ hpc = [s \in Sessions |-> "idle"]
    /\ op = [s \in Sessions |-> "store"]
    /\ cancelled = [s \in Sessions |-> FALSE]
    /\ taken = [s \in Sessions |-> 0]
    /\ told = [s \in Sessions |-> "nothing"]
    /\ epc = [a \in Actors |-> "off"]
    /\ target \in {t \in [Actors -> Sessions] : \A s \in Sessions : t[s] = s}
    /\ elock = [a \in Actors |-> 0]
    /\ ekeys = [a \in Actors |-> {}]
    /\ eresult = [a \in Actors |-> "none"]
    /\ mishaps = 0
    /\ erasing = {}
    /\ leaked = [s \in Sessions |-> {}]

-------------------------------------------------------------------------------
(***************************************************************************)
(* _start: the runtime and its lock are registered, then the row is        *)
(* inserted.                                                               *)
(***************************************************************************)
Start(s) ==
    /\ hpc[s] = "idle"
    /\ ready
    /\ registered' = registered \cup {s}
    /\ Goto(s, "create")
    /\ UNCHANGED <<stores, ready, closed, lockGen, op, cancelled, taken, told, erasers,
                   mishaps, erasing, leaked>>

ServeCreate(s) ==
    /\ hpc[s] = "create"
    /\ \/ /\ NoMishap
          /\ row' = [row EXCEPT ![s] = "pending"]
          /\ Goto(s, "created")
       \/ /\ CallFails(s)
          /\ row' \in {row, [row EXCEPT ![s] = "pending"]}
          /\ Goto(s, "create_failed")
    /\ UNCHANGED <<segs, objects, service, op, cancelled, taken, told, erasers, erasing, leaked>>

\* A cancelled _start leaves through neither branch: the except clause does not
\* catch CancelledError and the handler has no handle to clean up with.
ResumeCreate(s) ==
    /\ hpc[s] \in {"created", "create_failed"}
    /\ \/ /\ cancelled[s]
          /\ Goto(s, "done")
          /\ UNCHANGED <<registered, lockGen, told>>
       \/ /\ ~cancelled[s] /\ hpc[s] = "created"
          /\ Goto(s, "open")
          /\ UNCHANGED <<registered, lockGen, told>>
       \/ /\ ~cancelled[s] /\ hpc[s] = "create_failed"
          /\ registered' = registered \ {s}
          /\ lockGen' = [lockGen EXCEPT ![s] = @ + 1]
          /\ told' = [told EXCEPT ![s] = "error"]
          /\ Goto(s, "done")
    /\ UNCHANGED <<stores, ready, closed, op, cancelled, taken, erasers,
                   mishaps, erasing, leaked>>

(***************************************************************************)
(* store_rest, store_chunk and complete.  Open(s) is _runtime and          *)
(* _ensure_open under the lock.  A chunk that fills no segment changes     *)
(* nothing here; one that does goes on to _persist_segment.                *)
(***************************************************************************)
Open(s) == s \in registered /\ ~closed[s]

\* Mutant of TakeSegment: the bound is off by one.
TakeSegment_PastTheEnd(s, call) ==
    /\ taken[s] <= MaxSegments
    /\ taken' = [taken EXCEPT ![s] = @ + 1]
    /\ op' = [op EXCEPT ![s] = call]
    /\ Goto(s, IF ready THEN "put" ELSE "failing")

TakeSegment(s, call) ==
    /\ taken[s] < MaxSegments
    /\ taken' = [taken EXCEPT ![s] = @ + 1]
    /\ op' = [op EXCEPT ![s] = call]
    /\ Goto(s, IF ready THEN "put" ELSE "failing")

Store(s) ==
    /\ hpc[s] = "open" /\ ~cancelled[s]
    /\ Open(s) /\ Free(s, 0)
    /\ TakeSegment(s, "store")
    /\ UNCHANGED <<stores, service, cancelled, told, erasers, mishaps, erasing, leaked>>

Complete(s) ==
    /\ hpc[s] = "open" /\ ~cancelled[s]
    /\ Open(s) /\ Free(s, 0)
    /\ \/ TakeSegment(s, "complete")
       \/ Goto(s, IF ready THEN "commit" ELSE "failing") /\ UNCHANGED <<op, taken>>
    /\ UNCHANGED <<stores, service, cancelled, told, erasers, mishaps, erasing, leaked>>

\* The handler fails between two storage calls, or the service refuses one.
Fail(s) ==
    /\ hpc[s] = "open"
    /\ Goto(s, "failing")
    /\ UNCHANGED <<stores, service, op, cancelled, taken, told, erasers,
                   mishaps, erasing, leaked>>

(***************************************************************************)
(* _persist_segment: PUT the object, then insert its manifest row.         *)
(***************************************************************************)
ServePut(s) ==
    /\ hpc[s] = "put"
    /\ \/ /\ NoMishap
          /\ objects' = [objects EXCEPT ![s] = @ \cup {Last(s)}]
          /\ Goto(s, "put_ok")
          /\ UNCHANGED leaked
       \/ /\ CallFails(s)
          /\ Goto(s, "put_failed")
          /\ \/ UNCHANGED <<objects, leaked>>
             \/ /\ objects' = [objects EXCEPT ![s] = @ \cup {Last(s)}]
                /\ leaked' = [leaked EXCEPT ![s] = @ \cup {Last(s)}]
    /\ UNCHANGED <<row, segs, service, op, cancelled, taken, told, erasers, erasing>>

\* Mutant of ResumePut: a cancelled caller leaves the object it uploaded.
ResumePut_NoUndo(s) ==
    /\ \/ /\ hpc[s] = "put_failed" \/ (hpc[s] = "put_ok" /\ cancelled[s])
          /\ Goto(s, "failing") /\ UNCHANGED leaked
       \/ /\ hpc[s] = "put_ok" /\ ~cancelled[s] /\ ready
          /\ Goto(s, "add") /\ UNCHANGED leaked
    /\ UNCHANGED <<stores, service, op, cancelled, taken, told, erasers, mishaps, erasing>>

\* A failed PUT is not compensated.  A cancelled caller deletes the object it
\* uploaded.  The readiness check before the insert raises outside the try.
ResumePut(s) ==
    /\ \/ /\ hpc[s] = "put_failed"
          /\ Goto(s, "failing") /\ UNCHANGED leaked
       \/ /\ hpc[s] = "put_ok" /\ cancelled[s]
          /\ Goto(s, "undo") /\ UNCHANGED leaked
       \/ /\ hpc[s] = "put_ok" /\ ~cancelled[s] /\ ready
          /\ Goto(s, "add") /\ UNCHANGED leaked
       \/ /\ hpc[s] = "put_ok" /\ ~cancelled[s] /\ ~ready
          /\ Goto(s, "failing")
          /\ leaked' = [leaked EXCEPT ![s] = @ \cup {Last(s)}]
    /\ UNCHANGED <<stores, service, op, cancelled, taken, told, erasers, mishaps, erasing>>

\* The insert and the counters are one transaction, refused unless the session
\* is still pending.
ServeAdd(s) ==
    /\ hpc[s] = "add"
    /\ \/ /\ row[s] = "pending" /\ NoMishap
          /\ segs' = [segs EXCEPT ![s] = @ \cup {Last(s)}]
          /\ Goto(s, "add_ok")
       \/ /\ row[s] # "pending" /\ NoMishap
          /\ Goto(s, "add_failed") /\ UNCHANGED segs
       \/ /\ CallFails(s)
          /\ Goto(s, "add_failed")
          /\ \/ UNCHANGED segs
             \/ row[s] = "pending" /\ segs' = [segs EXCEPT ![s] = @ \cup {Last(s)}]
    /\ UNCHANGED <<row, objects, service, op, cancelled, taken, told, erasers, erasing, leaked>>

ResumeAdd(s) ==
    /\ \/ /\ hpc[s] = "add_failed"
          /\ Goto(s, "undo") /\ UNCHANGED <<op, taken>>
       \/ /\ hpc[s] = "add_ok" /\ cancelled[s]
          /\ Goto(s, "failing") /\ UNCHANGED <<op, taken>>
       \/ /\ hpc[s] = "add_ok" /\ ~cancelled[s] /\ op[s] = "store"
          /\ \/ TakeSegment(s, "store")
             \/ Goto(s, "open") /\ UNCHANGED <<op, taken>>
       \/ /\ hpc[s] = "add_ok" /\ ~cancelled[s] /\ op[s] = "complete"
          /\ Goto(s, IF ready THEN "commit" ELSE "failing") /\ UNCHANGED <<op, taken>>
    /\ UNCHANGED <<stores, service, cancelled, told, erasers, mishaps, erasing, leaked>>

\* Mutant of ServeUndo: after a failed insert the handler goes on without the segment.
ServeUndo_GoesOn(s) ==
    /\ hpc[s] = "undo"
    /\ Goto(s, "open")
    /\ NoMishap
    /\ objects' = [objects EXCEPT ![s] = @ \ {Last(s)}]
    /\ UNCHANGED <<row, segs, service, op, cancelled, taken, told, erasers, erasing, leaked>>

\* _delete_object_quietly: whatever happens, the original error goes on.
ServeUndo(s) ==
    /\ hpc[s] = "undo"
    /\ Goto(s, "failing")
    /\ \/ /\ NoMishap
          /\ objects' = [objects EXCEPT ![s] = @ \ {Last(s)}]
          /\ UNCHANGED leaked
       \/ /\ CallFails(s)
          /\ \/ objects' = [objects EXCEPT ![s] = @ \ {Last(s)}] /\ UNCHANGED leaked
             \/ /\ leaked' = [leaked EXCEPT ![s] = @ \cup ({Last(s)} \ segs[s])]
                /\ UNCHANGED objects
    /\ UNCHANGED <<row, segs, service, op, cancelled, taken, told, erasers, erasing>>

(***************************************************************************)
(* The rest of complete: flip the pending row, close the runtime, leave    *)
(* the lock, and read the manifest back for the receipt.                   *)
(***************************************************************************)
ServeCommit(s) ==
    /\ hpc[s] = "commit"
    /\ \/ /\ row[s] = "pending" /\ NoMishap
          /\ row' = [row EXCEPT ![s] = "completed"]
          /\ Goto(s, "committed")
       \/ /\ row[s] # "pending" /\ NoMishap
          /\ Goto(s, "commit_failed") /\ UNCHANGED row
       \/ /\ CallFails(s)
          /\ Goto(s, "commit_failed")
          /\ \/ UNCHANGED row
             \/ row[s] = "pending" /\ row' = [row EXCEPT ![s] = "completed"]
    /\ UNCHANGED <<segs, objects, service, op, cancelled, taken, told, erasers, erasing, leaked>>

\* Mutant of ResumeCommit: an UPDATE that changed no row counts as a commit.
ResumeCommit_IgnoresCount(s) ==
    /\ hpc[s] \in {"committed", "commit_failed"}
    /\ closed' = [closed EXCEPT ![s] = TRUE]
    /\ registered' = registered \ {s}
    /\ Goto(s, IF ready /\ ~cancelled[s] THEN "read" ELSE "failing")
    /\ UNCHANGED <<stores, ready, lockGen, op, cancelled, taken, told, erasers,
                   mishaps, erasing, leaked>>

ResumeCommit(s) ==
    /\ \/ /\ hpc[s] = "commit_failed" \/ (hpc[s] = "committed" /\ cancelled[s])
          /\ Goto(s, "failing") /\ UNCHANGED <<registered, closed>>
       \/ /\ hpc[s] = "committed" /\ ~cancelled[s]
          /\ closed' = [closed EXCEPT ![s] = TRUE]
          /\ registered' = registered \ {s}
          /\ Goto(s, IF ready THEN "read" ELSE "failing")
    /\ UNCHANGED <<stores, ready, lockGen, op, cancelled, taken, told, erasers,
                   mishaps, erasing, leaked>>

ServeRead(s) ==
    /\ hpc[s] = "read"
    /\ \/ NoMishap /\ Goto(s, IF row[s] = "deleted" THEN "read_none" ELSE "read_ok")
       \/ CallFails(s) /\ Goto(s, "read_failed")
    /\ UNCHANGED <<stores, service, op, cancelled, taken, told, erasers, erasing, leaked>>

\* A manifest that is gone by now is not an error: the REST handler answers without a
\* receipt and cleans up, the WebSocket handler counts the session as completed.
ResumeRead(s) ==
    /\ \/ /\ hpc[s] = "read_failed" \/ (hpc[s] \in {"read_ok", "read_none"} /\ cancelled[s])
          /\ Goto(s, "failing") /\ UNCHANGED told
       \/ /\ hpc[s] = "read_ok" /\ ~cancelled[s]
          /\ told' = [told EXCEPT ![s] = "stored"]
          /\ Goto(s, "done")
       \/ /\ hpc[s] = "read_none" /\ ~cancelled[s]
          /\ told' = [told EXCEPT ![s] = "unstored"]
          /\ \/ Goto(s, "failing")
             \/ Goto(s, "done")
    /\ UNCHANGED <<stores, service, op, cancelled, taken, erasers, mishaps, erasing, leaked>>

(***************************************************************************)
(* The handler's finally clause: _delete_incomplete_session runs the       *)
(* deletion as a task of its own and joins it, however often the handler   *)
(* is cancelled.  An error of the deletion is logged and swallowed.        *)
(***************************************************************************)
Cleanup(s) ==
    /\ hpc[s] = "failing"
    /\ \/ /\ ready
          /\ Goto(s, "cleanup")
          /\ epc' = [epc EXCEPT ![s] = "wait"]
          /\ elock' = [elock EXCEPT ![s] = lockGen[s]]
          /\ UNCHANGED <<eresult, told>>
       \/ /\ ~ready
          /\ Goto(s, "done")
          /\ eresult' = [eresult EXCEPT ![s] = "error"]
          /\ told' = [told EXCEPT ![s] = IF @ = "nothing" THEN "error" ELSE @]
          /\ UNCHANGED <<epc, elock>>
    /\ UNCHANGED <<stores, service, op, cancelled, taken, target, ekeys,
                   mishaps, erasing, leaked>>

\* Mutant of FinishCleanup: a cancellation ends the deletion with the handler.
FinishCleanup_Unshielded(s) ==
    /\ hpc[s] = "cleanup"
    /\ \/ epc[s] = "done" /\ UNCHANGED epc
       \/ epc[s] # "done" /\ cancelled[s] /\ epc' = [epc EXCEPT ![s] = "dead"]
    /\ Goto(s, "done")
    /\ UNCHANGED <<stores, service, op, cancelled, taken, told, target, elock, ekeys, eresult,
                   mishaps, erasing, leaked>>

FinishCleanup(s) ==
    /\ hpc[s] = "cleanup" /\ epc[s] = "done"
    /\ Goto(s, "done")
    /\ told' = [told EXCEPT ![s] = IF @ = "nothing" THEN "error" ELSE @]
    /\ UNCHANGED <<stores, service, op, cancelled, taken, erasers, mishaps, erasing, leaked>>

-------------------------------------------------------------------------------
(***************************************************************************)
(* delete.  A local deletion takes the lock the index hands out now (the   *)
(* runtime's own, or a new one once that entry was dropped); one in        *)
(* another container shares no lock and no runtime with the handlers.      *)
(***************************************************************************)
\* Mutant of BeginErase: every deletion makes a lock of its own.
BeginErase_OwnLock(d) ==
    /\ epc[d] = "off"
    /\ row[target[d]] # "none"
    /\ Local(d) => ready
    /\ epc' = [epc EXCEPT ![d] = "wait"]
    /\ elock' = [elock EXCEPT ![d] = lockGen[target[d]] + 1]
    /\ UNCHANGED <<stores, service, handlers, target, ekeys, eresult, mishaps, erasing, leaked>>

BeginErase(d) ==
    /\ epc[d] = "off"
    /\ row[target[d]] # "none"
    /\ Local(d) => ready
    /\ epc' = [epc EXCEPT ![d] = "wait"]
    /\ elock' = [elock EXCEPT ![d] = lockGen[target[d]]]
    /\ UNCHANGED <<stores, service, handlers, target, ekeys, eresult, mishaps, erasing, leaked>>

Finish(a, result) ==
    /\ epc' = [epc EXCEPT ![a] = "done"]
    /\ eresult' = [eresult EXCEPT ![a] = result]

AcquireErase(a) ==
    /\ epc[a] = "wait"
    /\ Local(a) => Free(target[a], elock[a])
    /\ IF Local(a) /\ ~ready
       THEN Finish(a, "error")
       ELSE epc' = [epc EXCEPT ![a] = "get"] /\ UNCHANGED eresult
    /\ UNCHANGED <<stores, service, handlers, target, elock, ekeys, mishaps, erasing, leaked>>

\* Mutant of ServeManifest: the metadata is deleted first.
ServeManifest_RowFirst(a) ==
    LET s == target[a] IN
    /\ epc[a] = "get"
    /\ NoMishap
    /\ IF row[s] = "deleted"
       THEN Finish(a, "missing") /\ UNCHANGED <<closed, ekeys, erasing>>
       ELSE /\ closed' = [closed EXCEPT ![s] = TRUE]
            /\ epc' = [epc EXCEPT ![a] = "row"]
            /\ ekeys' = [ekeys EXCEPT ![a] = segs[s]]
            /\ erasing' = erasing \cup {s}
            /\ UNCHANGED eresult
    /\ UNCHANGED <<stores, ready, registered, lockGen, handlers, target, elock, leaked>>

\* Reads the manifest, closes a runtime of this process, and goes on to the
\* objects it lists, or straight to the row when it lists none.
ServeManifest(a) ==
    LET s == target[a] IN
    /\ epc[a] = "get"
    /\ \/ /\ NoMishap
          /\ row[s] = "deleted"
          /\ Finish(a, "missing")
          /\ UNCHANGED <<closed, ekeys, erasing>>
       \/ /\ CallFails(a)
          /\ Finish(a, "error")
          /\ UNCHANGED <<closed, ekeys, erasing>>
       \/ /\ NoMishap
          /\ row[s] # "deleted"
          /\ closed' = IF Local(a) /\ s \in registered THEN [closed EXCEPT ![s] = TRUE] ELSE closed
          /\ IF Local(a) /\ ~ready
             THEN Finish(a, "error") /\ UNCHANGED <<ekeys, erasing>>
             ELSE /\ epc' = [epc EXCEPT ![a] = IF segs[s] = {} THEN "row" ELSE "objects"]
                  /\ ekeys' = [ekeys EXCEPT ![a] = segs[s]]
                  /\ erasing' = erasing \cup {s}
                  /\ UNCHANGED eresult
    /\ UNCHANGED <<stores, ready, registered, lockGen, handlers, target, elock, leaked>>

\* Mutant of ServeObjects: a failed bulk delete does not keep the metadata.
ServeObjects_IgnoresErrors(a) ==
    LET s == target[a] IN
    /\ epc[a] = "objects"
    /\ \/ NoMishap /\ objects' = [objects EXCEPT ![s] = @ \ ekeys[a]]
       \/ CallFails(a) /\ UNCHANGED objects
    /\ epc' = [epc EXCEPT ![a] = "row"]
    /\ UNCHANGED <<row, segs, service, handlers, target, elock, ekeys, eresult, erasing, leaked>>

\* A failed bulk delete may have removed any of the keys; the metadata stays.
ServeObjects(a) ==
    LET s == target[a] IN
    /\ epc[a] = "objects"
    /\ \/ /\ NoMishap
          /\ objects' = [objects EXCEPT ![s] = @ \ ekeys[a]]
          /\ IF Local(a) /\ ~ready
             THEN Finish(a, "error")
             ELSE epc' = [epc EXCEPT ![a] = "row"] /\ UNCHANGED eresult
       \/ /\ CallFails(a)
          /\ \E gone \in SUBSET ekeys[a] : objects' = [objects EXCEPT ![s] = @ \ gone]
          /\ Finish(a, "error")
    /\ UNCHANGED <<row, segs, service, handlers, target, elock, ekeys, erasing, leaked>>

\* DELETE of the row cascades to its segment rows.  Only a deletion that is told
\* it removed the row drops the runtime and the lock from the indexes.
ServeRow(a) ==
    LET s == target[a] IN
    /\ epc[a] = "row"
    /\ \/ /\ NoMishap
          /\ row[s] # "deleted"
          /\ row' = [row EXCEPT ![s] = "deleted"]
          /\ segs' = [segs EXCEPT ![s] = {}]
          /\ Finish(a, "deleted")
          /\ IF Local(a)
             THEN /\ registered' = registered \ {s}
                  /\ lockGen' = [lockGen EXCEPT ![s] = @ + 1]
             ELSE UNCHANGED <<registered, lockGen>>
       \/ /\ NoMishap
          /\ row[s] = "deleted"
          /\ Finish(a, "missing")
          /\ UNCHANGED <<row, segs, registered, lockGen>>
       \/ /\ CallFails(a)
          /\ Finish(a, "error")
          /\ \/ UNCHANGED <<row, segs>>
             \/ /\ row' = [row EXCEPT ![s] = "deleted"]
                /\ segs' = [segs EXCEPT ![s] = {}]
          /\ UNCHANGED <<registered, lockGen>>
    /\ UNCHANGED <<objects, ready, closed, handlers, target, elock, ekeys, erasing, leaked>>

-------------------------------------------------------------------------------
(***************************************************************************)
(* What happens to the process.                                            *)
(***************************************************************************)
Over == {"idle", "done", "dead"}
HandlerPcs == LockedPcs \cup Over \cup
    {"create", "created", "create_failed", "open", "read", "read_ok", "read_none",
     "read_failed", "failing", "cleanup"}

\* The client disconnects or the server cancels the request, wherever its handler is.
\* What is cancelled again during the cleanup only goes on waiting for the deletion.
Cancel(s) ==
    /\ hpc[s] \notin Over
    /\ ~cancelled[s]
    /\ cancelled' = [cancelled EXCEPT ![s] = TRUE]
    /\ UNCHANGED <<stores, service, hpc, op, taken, told, erasers, mishaps, erasing, leaked>>

\* close takes no session lock.
Close ==
    /\ ready /\ Mishap
    /\ ready' = FALSE
    /\ closed' = [s \in Sessions |-> closed[s] \/ s \in registered]
    /\ registered' = {}
    /\ lockGen' = [s \in Sessions |-> IF hpc[s] = "idle" THEN lockGen[s] ELSE lockGen[s] + 1]
    /\ UNCHANGED <<stores, handlers, erasers, erasing, leaked>>

\* The process is replaced, after a close or by a kill, and connects anew.  What
\* its coroutines were doing stops where it was.
Restart ==
    /\ IF ready THEN Mishap ELSE NoMishap
    /\ ready' = TRUE
    /\ registered' = {}
    /\ hpc' = [s \in Sessions |-> IF hpc[s] \in Over THEN hpc[s] ELSE "dead"]
    /\ epc' = [a \in Actors |->
                 IF Local(a) /\ epc[a] \notin {"off", "done"} THEN "dead" ELSE epc[a]]
    /\ leaked' = [s \in Sessions |->
                    IF hpc[s] \in Over THEN leaked[s] ELSE leaked[s] \cup (objects[s] \ segs[s])]
    /\ UNCHANGED <<stores, closed, lockGen, op, cancelled, taken, told,
                   target, elock, ekeys, eresult, erasing>>

-------------------------------------------------------------------------------
HandlerStep(s) ==
    \/ ServeCreate(s) \/ ResumeCreate(s)
    \/ Store(s) \/ Complete(s) \/ Fail(s)
    \/ ServePut(s) \/ ResumePut(s)
    \/ ServeAdd(s) \/ ResumeAdd(s)
    \/ ServeUndo(s)
    \/ ServeCommit(s) \/ ResumeCommit(s)
    \/ ServeRead(s) \/ ResumeRead(s)
    \/ Cleanup(s) \/ FinishCleanup(s)

EraseStep(a) ==
    \/ AcquireErase(a) \/ ServeManifest(a) \/ ServeObjects(a) \/ ServeRow(a)

Next ==
    \/ \E s \in Sessions : Start(s) \/ Cancel(s) \/ HandlerStep(s)
    \/ \E d \in Deleters : BeginErase(d)
    \/ \E a \in Actors : EraseStep(a)
    \/ Close
    \/ Restart

Spec == Init /\ [][Next]_vars

(***************************************************************************)
(* Every store call ends: asyncpg has a command timeout and boto3 connect  *)
(* and read timeouts.  A handler between calls is under the session, idle  *)
(* and inference deadlines.  Runnable coroutines run.  Nothing makes a     *)
(* client start, cancel or delete, or the process close or restart.        *)
(***************************************************************************)
Fairness ==
    /\ \A s \in Sessions : WF_vars(HandlerStep(s))
    /\ \A a \in Actors : WF_vars(EraseStep(a))

FairSpec == Spec /\ Fairness

-------------------------------------------------------------------------------
(***************************************************************************)
(* Properties.                                                             *)
(***************************************************************************)
\* Every variable stays in its type.
TypeOK ==
    /\ row \in [Sessions -> {"none", "pending", "completed", "deleted"}]
    /\ segs \in [Sessions -> SUBSET Segments]
    /\ objects \in [Sessions -> SUBSET Segments]
    /\ ready \in BOOLEAN
    /\ registered \in SUBSET Sessions
    /\ closed \in [Sessions -> BOOLEAN]
    /\ lockGen \in [Sessions -> Nat]
    /\ hpc \in [Sessions -> HandlerPcs]
    /\ op \in [Sessions -> {"store", "complete"}]
    /\ cancelled \in [Sessions -> BOOLEAN]
    /\ taken \in [Sessions -> 0 .. MaxSegments]
    /\ told \in [Sessions -> {"nothing", "stored", "unstored", "error"}]
    /\ epc \in [Actors -> ErasePcs \cup {"off", "wait", "done", "dead"}]
    /\ target \in [Actors -> Sessions]
    /\ elock \in [Actors -> Nat]
    /\ ekeys \in [Actors -> SUBSET Segments]
    /\ eresult \in [Actors -> {"none", "deleted", "missing", "error"}]
    /\ mishaps \in 0 .. MaxMishaps
    /\ erasing \in SUBSET Sessions
    /\ leaked \in [Sessions -> SUBSET Segments]

\* The object the session's handler is about to record or to delete again.
InFlight(s) == IF hpc[s] \in {"put_ok", "add", "add_failed", "undo"} THEN {Last(s)} ELSE {}

\* No stranded audio: every object in the bucket is listed by a manifest row, or is
\* in the hands of its handler, or was lost to a PUT whose reply was lost, a failed
\* compensation, a close or a kill (_persist_segment, service.py 671-755).
EveryObjectOwned ==
    \A s \in Sessions : objects[s] \subseteq segs[s] \cup InFlight(s) \cup leaked[s]

\* A retained analysis is complete and readable: once the row is completed and until
\* a deletion reads its manifest, the manifest lists every segment that was taken,
\* without a hole, and the bucket holds each of them.
RetainedIntact ==
    \A s \in Sessions :
        row[s] = "completed" /\ s \notin erasing =>
            /\ segs[s] = 0 .. (taken[s] - 1)
            /\ segs[s] \subseteq objects[s]

\* A deletion that succeeded, and a failed handler's cleanup that had nothing left to
\* delete, leave neither the row nor an object, except those already lost.
ErasedMeansGone ==
    \A a \in Actors :
        eresult[a] \in {"deleted", "missing"} =>
            /\ row[target[a]] = "deleted"
            /\ objects[target[a]] \subseteq leaked[target[a]]

\* A handler storing or completing and a deletion of the same session exclude each
\* other, although the lock index is weak and drops entries (service.py 582-617).
HandlerExcludesErase ==
    \A s \in Sessions, a \in Actors : HandlerHolds(s) => ~(Local(a) /\ Erases(a, s))

\* An erasure is final and leaves nothing.  No step brings back the row of a deleted
\* analysis or writes audio of it, and the row goes only when the bucket holds no object
\* it lists: a manifest that still exists is what a retry needs to find the audio.
ErasureIsFinal ==
    [][\A s \in Sessions :
          IF row[s] = "deleted"
          THEN row'[s] = "deleted" /\ objects'[s] \subseteq objects[s]
          ELSE row'[s] = "deleted" => segs[s] \cap objects[s] = {}]_vars

\* With working stores a handler that fails always gets its session deleted, whoever
\* else deletes it and however often it is cancelled.
CleanupHappens ==
    \A s \in Sessions : hpc[s] = "failing" ~> row[s] = "deleted" \/ mishaps > 0

\* The abstract state a reader of the contract sees.
Phase(s) ==
    CASE row[s] = "none"      -> "absent"
      [] row[s] = "deleted"   -> "erased"
      [] row[s] \in {"pending", "completed"} /\ s \in erasing -> "erasing"
      [] row[s] = "pending" /\ s \notin erasing               -> "recording"
      [] row[s] = "completed" /\ s \notin erasing             -> "retained"

retentionPhase == [s \in Sessions |-> Phase(s)]
retainedManifest == [s \in Sessions |-> IF row[s] = "completed" THEN segs[s] ELSE {}]
playableAudio == [s \in Sessions |-> IF row[s] = "completed" THEN segs[s] \cap objects[s] ELSE {}]
toldStored == {s \in Sessions : told[s] = "stored"}

Contract == INSTANCE RetentionContract WITH Sessions <- Sessions, Segments <- Segments,
    phase <- retentionPhase, manifest <- retainedManifest, playable <- playableAudio,
    acknowledged <- toldStored

\* The service implements the contract of opt-in retention, with every mishap.
ImplementsContract == Contract!Spec

==============================================================================
