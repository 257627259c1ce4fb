# A verification development for diaflow

diaflow is a voice-attribute service: a FastAPI backend (`backend/app`) that
takes an audio upload (REST) or an audio stream (WebSocket), estimates a few
attributes, and keeps the result and the audio only if the caller opted in; and
a React client (`frontend/src`) that records or streams a microphone to it.

The modules here are TLA+ translations of the parts of it that are protocols,
what several coroutines, clients, stores and processes do to shared state, and of
the decisions and limits those protocols rely on. They are model-checked with TLC
on small instances and, where that is possible, proved with TLAPS for every value
of the constants.

## 1. Inventory

| Component | State it keeps | Operations | Hard behaviour | What makes it correct |
| --- | --- | --- | --- | --- |
| Persistence service (`persistence/service.py`) | `_ready`, `_runtimes`, weak `_operation_locks`; per session `lock`, `closed`, accumulator | `start_*`, `store_rest`, `store_chunk`, `complete`, `fail`, `get`, `list`, `delete`, `purge_expired`, `connect`, `close` | coroutines interleave at every store call; calls fail, also after taking effect; cancellation; close and kill at any point; locks are per process | audio is never without a record that leads to it; a completed analysis is whole; deletion is complete, final and ordered |
| Stores (`persistence/stores.py`, migration) | rows of `persistence_sessions` and `persistence_audio_segments`; objects of a bucket | inserts, conditional updates, cascade delete; PUT, bulk delete | no transaction spans the two stores; bulk deletes fail in part | the conditional updates are what makes the service's steps safe |
| Stream accumulator (`_StreamAccumulator`) | buffer, slices, cursors, next sequence | `append`, `flush`, `wipe` | chunks that span segments, exact boundaries | segments and slices tile the stream |
| REST handler (`main.py` 595-667) | `handle`, `retention_completed` | ingest, start, store, analyze, complete, cleanup | errors and cancellation at any await; cleanup under repeated cancellation | what does not complete is deleted; nothing is retained that was not asked for |
| WebSocket handler (`main.py` 903-1254) | buffer, reorder buffer, emit schedule, language, chunk counters | start frame, binary frames, ping, end | limits, three timeouts over one loop, late frames, the flush at `end` | what is stored, analysed and reported is the same audio; the session ends |
| Retention endpoints, expiry worker, bucket rule | none; the cleanup task | GET, LIST, DELETE, `purge_expired`, lifecycle | a batch that fails in part, whole days against hours, a cursor over a moving list | nothing goes early, everything goes in the end, no page misses a session |
| Reorder buffer (`audio/jitter.py`) | held frames, `_next`, last payload, repeats, counters | `push`, `flush`, `integrity` | late, duplicated, missing frames; window and repeat limits | every frame in its slot, every gap counted once |
| Inference (`inference/service.py`, `models/pool.py`) | free replicas, waiters, threads, request buffers | `acquire`, `release`, `_thread_call`, `analyze` | timeout against release, cancellation while a thread reads a buffer | a replica has one user and is never lost; no buffer is wiped in use |
| Rate limiter (`ratelimit.py`) | client buckets | `check`, eviction | full table, refused calls, rounding of Retry-After | bound per client, admission of whoever obeys |
| Ingest (`audio/ingest.py`) | multipart sink | raw and multipart reads | four limits at four callbacks, fields that repeat or contradict headers | every body ends; the settled policy is what was said |
| Decoding (`audio/decoder.py`) | local to a call | `decode`, ffmpeg | two cuts and a check at nearly the same length | too long is refused, never cut silently |
| Answer decisions (`quality.py`, `postprocess.py`, `models/language.py`) | none | labels and thresholds | bars of degraded audio, ties, empty evidence, subsets of languages | bad audio is no easier to answer for; no guess is reported |
| Configuration (`config.py`, `persistence/models.py`) | constants | two `validate`, derived settings | bounds that differ between the two, lengths derived by rounding | derived lengths are whole frames within the limits |
| Browser live session (`api/streamAnalysis.js`, worklet, `App.jsx`) | phase, flags, pending samples, socket, capture | `start`, `finish`, `fail`, `cancel`, socket and worklet events | every await races with events | one outcome per session; microphone always released |
| Signal arithmetic, model backends | local to a call | numeric functions | none concurrent | numeric |
| Schemas, errors, observability | counters | formatting | none | - |
| Browser recorder, upload client, history UI | view state | requests | one-shot | - |

How they interact: every request passes the rate limiter; a handler reads its
body or its frames and calls the persistence service and the inference service on
one event loop; the persistence service calls the two stores; DELETE requests,
the expiry worker and the handlers' own cleanups meet in
`PersistenceService.delete`; the WebSocket handler feeds frames through the
reorder buffer into the analysed buffer and, chunk by chunk, into the
accumulator; the browser's session is the other end of the WebSocket. Several
containers share the stores and nothing else.

`PROJECT.json` lists the components with their status and the hazards of this
code line by line with the property that covers each.

## 2. Modules

| Module | What it is |
| --- | --- |
| `RetentionContract` | abstract specification: what opted-in retention promises about one analysis, without any storage protocol |
| `PersistenceService` | the persistence service, its stores, and what the handlers do to them; its properties; the refinement to `RetentionContract` |
| `MCPersistenceService` | three statements of the documentation that the code does not keep |
| `PersistenceServiceProofs`, `PersistenceErasureProofs` | theorems about `PersistenceService` |
| `StreamSession`, `MCStreamSession`, `StreamSessionProofs` | one WebSocket session with its accumulator, its instance, its theorems |
| `ReorderBuffer`, `MCReorderBuffer`, `ReorderBufferProofs` | the reorder buffer, its instance, its theorems |
| `InferencePool`, `MCInferencePool`, `InferencePoolProofs` | `analyze` and its worker threads over the two replica pools, its instance, its theorems |
| `RetentionCleanup`, `MCRetentionCleanup`, `CleanupProofs` | expiry of many sessions, the bucket's rule, the paged list; instance; theorems |
| `RateLimiter` | the token buckets |
| `RestUpload` | one POST from its first byte to the samples the model sees |
| `MCFrontDoor`, `FrontDoorProofs` | `RateLimiter` and `RestUpload` for TLC; theorems about them and about the two pure modules below |
| `LiveSession`, `MCLiveSession`, `LiveSessionProofs` | the browser's live session, its instance, its theorems |
| `AnswerPolicy` | what an answer may say |
| `Deployment` | accepted settings, derived settings and lengths |
| `PolicyExamples` | bounded checks of the last two pure modules, evaluated before the run `front` |

How they compose: a deletion is many steps of `PersistenceService` and one of
`RetentionCleanup`; storing a segment is many steps of `PersistenceService` and one
of `StreamSession`; what `push` and `flush` do over many steps of `ReorderBuffer`
is one step of `Frame` or `End`; the lengths that `StreamSession`,
`RateLimiter` and `RetentionCleanup` take as constants are computed and bounded in
`Deployment`; `InferencePool` shows that an analysis ends, which `StreamSession` and
`RestUpload` take as one step.

### PersistenceService

A coroutine runs undisturbed from one `await` to the next, so each store call is
two steps: `Serve...` applies the effect of the call and fixes its reply,
`Resume...` continues the caller with the code up to its next await. Anything may
happen between the two.

| In the model | In the code |
| --- | --- |
| `row`, `segs` | the row of `persistence_sessions`, the rows of `persistence_audio_segments` (numbers stand for rows) |
| `objects` | the objects of the bucket |
| `registered`, `closed`, `ready` | `_runtimes`, `_SessionRuntime.closed`, `_ready` |
| `lockGen`, `elock` | `_operation_locks`: which lock object the weak index hands out now, which one a deletion took. Lock 0 is `runtime.lock`. A dropped entry means that the next caller gets another lock |
| `hpc`, `op`, `taken`, `cancelled`, `told` | where the handler is, in which call, how many segments it took from the accumulator, whether its task was cancelled, what it told the caller |
| `epc`, `target`, `ekeys`, `eresult` | the deletions: DELETE requests, expiry deletions (`Deleters`) and the handler's own cleanup (named by its session) |
| `Start`, `ServeCreate`, `ResumeCreate` | `_start`, `create_session` |
| `Store`, `Complete` | `store_rest`, `store_chunk`, `complete` up to their first store call; `TakeSegment` is a segment that is full, or the last one at `complete` |
| `ServePut`, `ResumePut`, `ServeAdd`, `ResumeAdd`, `ServeUndo` | `_persist_segment` with its two `except` ladders and `_delete_object_quietly` |
| `ServeCommit`, `ResumeCommit`, `ServeRead`, `ResumeRead` | the rest of `complete`, and what the handler makes of its result |
| `Cleanup`, `FinishCleanup` | the handlers' `finally` with `_delete_incomplete_session` |
| `BeginErase` ... `ServeRow` | `delete` |
| `Cancel`, `Close`, `Restart` | a client that goes away, `close`, a new process and `connect` |

A store call succeeds, fails without effect, or fails after its effect. The last
is what a timeout or a lost reply looks like to the caller. Abstractions: a chunk
that fills no segment changes nothing in this module; ids are fresh (`uuid4`), so
a session is started once; `get_session`'s two SELECTs are one step (the second
could only see fewer or more segments of a session that nobody excludes, which
happens in another container only); a late effect of a call whose caller has
given up is applied at the time of the reply; the sessions of mode `result` are
those that never take a segment.

### ReorderBuffer

`push` and `flush` are synchronous loops; a step is one iteration. `pc` says
which loop is running, and no call starts before it has returned. A payload is
its length. `accepted` and `released` are histories: what was taken and what was
put out for each slot.

### InferencePool

Requests are coroutines of one event loop; each has at most one thread, which runs
beside it and cannot be stopped.

| In the model | In the code |
| --- | --- |
| `pool[p].free` | the items of the pool's `LifoQueue` (as a set: which replica is handed out makes no difference) |
| `pool[p].asking`, `getters`, `woken` | the task `wait_for` makes of `queue.get()`: not run yet, parked in `Queue._getters`, woken and not run yet |
| `pc`: `call`, `join` | in the first and in the second `await shield(task)` of `_thread_call` |
| `pc`: `wait`, `granted` | in `wait_for`; its task has a replica and the caller has not run |
| `worker`, `uses`, `reply` | the stage the thread runs, on which replica, and how it ended |
| `audio` | the arrays that exist and are not zeroed: the decoded samples, the enhanced window |
| `Begin`, `Proceed`, `Raise` | `analyze` from one `await` to the next; its `finally` clauses are in `GiveBack`, `Leave` and `Unknown` |
| `Join`, `Joined`, `Desert` | the `except CancelledError` of `_thread_call`: it waits, ends with `on_cancel`, or is cancelled again |
| `Acquire`, `Put`, `Poll`, `Granted`, `Timeout`, `CancelWait` | `acquire` and `release` over asyncio's queue and `wait_for` as in Python 3.11, the version of the image |

The queue and `wait_for` are library code, modelled from how `pool.py` uses them:
`wait_for` returns what its task has got even if the caller was cancelled meanwhile,
and a waiter that is cancelled after it was woken passes the wake-up on. Abstractions:
the selected window (made and wiped between two awaits of `analyze`) and the payload are
not arrays of the model; enhance always returns a new array, as it does when the gain
control changes the level; why `identify` is skipped is left open, and so is what an analysis answers.


### StreamSession

The handler is one coroutine; a step is what it does between two awaits, or one
iteration of a loop. Audio is counted in one unit, in which bytes and seconds
agree: where the code converts between the two, only whole frames are stored or cut
(`SegmentsAreWholeFrames`, `UpdatesAreWholeAndBounded`).

| In the model | In the code |
| --- | --- |
| `pc` | where `_handle_websocket` is: before accept, in `_receive_start`, in `start_ws`, in the receive loop, over the released chunks, in `append`, storing, analysing, concluding, in `complete`, sending, in its `except` and `finally` clauses |
| `age`, `timer` | time since `started_at`; what is left of the `wait_for` it is in |
| `waiting`, `ordered` | what the reorder buffer holds, what the last `push` released |
| `buffered`, `lastEmitted`, `interval`, `labels`, `language`, `checkedAt`, `sequence` | the handler's locals of the emit schedule and of the language carried over |
| `stream`, `offset`, `pending` | `_StreamAccumulator`, the cursor of its `append`, the segments it took |
| `segments`, `record`, `sizes`, `report` | what is stored, the row, `chunk_sizes`, the last storage message |
| `completed`, `verdict` | the handler's flag, what the client was told |
| `cleanup` | a history: whether the `finally` clause deleted the session, and whether that succeeded |
| `Start` ... `OpenCancelled`, `RawFrame`, `Frame`, `Ping`, `BadMessage`, `End` | the messages, and what each does up to the next await |
| `TakeChunk` ... `Stored` | the body of the loop over released chunks with `store_chunk` and `append` |
| `ChunksDone`, `Update`, `Conclude`, `Complete`, `Answer` | the schedule, a progressive update, the rest of `end` |
| `OpenFails`, `StoreFails`, `CompleteFails` | a call of the persistence service that raises, with what it may have committed before |
| `OpenCancelled`, `StoreCancelled`, `CompleteCancelled`, `Cancelled` | the server cancels the handler: inside one of those calls, or at any other await |
| `TimesOut`, `Disconnect`, `TellError` | the other ways out |
| `Finally`, `CleanUp` | the `finally` clause with `_delete_incomplete_session`, whose failure is logged and no more |

`Frame` is what any number of `ReorderBuffer` steps may do: drop a frame, or put it in
its slot and release a prefix, behind a filler where slots were given up. Several
fillers in a row are one: their length is what the session can tell apart. Storing
a segment succeeds whole, or breaks off with or without its row committed; what is behind
that is in `PersistenceService`. A session that `start_ws` gives no handle for goes on as one
of mode `none`, whatever it left in the store. Deletions by others (a DELETE, the expiry worker)
are in `PersistenceService` and not here.

### RestUpload and RateLimiter

| In the model | In the code |
| --- | --- |
| `rpc`, `kind`, `headers` | where the request is, the kind of its body, what its headers say of retention |
| `received`, `audio`, `field`, `text`, `fields`, `parts`, `audioParts`, `silence` | `total`, the audio buffer, and the state of `_MultipartSink`; time since the last piece |
| `RawPiece`, `PartHead`, `PartData`, `PartEnd`, `EndBody`, `Broken` | `_read_raw`, the sink's callbacks, `finalize`, whatever raises in between |
| `Settle` | `_request_retention_policy` with `_retention_policy` |
| `DecodeDirect`, `DecodeContainer`, `Cut`, `Ffmpeg`, `Check` | the two decoding paths with their limits |
| `said`, `original` | histories: every value given for a field, how long the audio was |
| `tracked`, `tokens`, `seen` | `_buckets` |
| `AdmitNew`, `Admit`, `Refuse`, `Evicted`, `RetryAfter` | `check`, `_evict_if_full`, the header the middleware sends |
| `due`, `refusals` | of a client that obeys Retry-After: when it comes back, how often it was refused in a row |

python_multipart's parser is library code, modelled by the callbacks it makes: it may
end a body inside a part without complaint. Its pieces are one callback each; a piece
of the body with many callbacks is many steps, which only lets the limits be
looked at more often than they are, and the code looks at them after each piece.
Time is counted in ticks and tokens in parts of a token, so that the refill
of a tick is a whole number.

### RetentionCleanup

| In the model | In the code |
| --- | --- |
| `row`, `mode`, `created`, `expires`, `audio` | the rows, whether objects of a session are in the bucket |
| `refused`, `ownsBucket` | sessions whose objects the bucket will not delete on request; `s3_create_bucket`, which sets the lifecycle rule |
| `batch`, `sleep` | per container, what `purge_expired` has still to delete and what is left of the wait of `_cleanup_loop` |
| `Retain`, `ClientDelete` | `_start` with the PUTs; DELETE |
| `Wake`, `WakeFails`, `Purge`, `Oldest` | `purge_expired`, `list_expired` with its order and limit |
| `Lifecycle`, `LifecycleDays` | the bucket's rule and `s3_orphan_lifecycle_days` |
| `ReadPage`, `Page`, `CloseList` | `list_sessions` page by page, by a client that passes the creation time of the last entry as `before` |

A query's `ORDER BY ... LIMIT n` is the set of rows with fewer than `n` before them.

### LiveSession

JavaScript runs a task with the continuations it settles to their end, so a step
is one event and the code up to the awaits it leads to.

| In the model | In the code |
| --- | --- |
| `starting`, `finishing`, `stops` | the awaits in which `start`, `finish` and every caller of `capture.stop()` are |
| `phase`, `cancelled`, `failed`, `finalReceived`, `pending` | the fields of `LiveAnalysisSession` |
| `tracks`, `stream`, `context`, `worklet`, `asked`, `port` | the microphone, `PcmMicrophoneCapture` and the worklet with the two directions of its port |
| `socket`, `backlog`, `sent`, `ends` | `readyState`, `bufferedAmount`, samples and `end` messages sent |
| `held`, `screen` | `liveSessionRef` and `livePhase` of `App.jsx` |
| `Start` ... `NotStarted` | `prepare` and `start` |
| `Hear`, `Answer`, `Wipe`, `Keep`, `SendChunk`, `Overflow` | `process` of the worklet, `acceptSamples`, `sendPending` |
| `Finish` ... `NoEnd` | `finish` |
| `Cancel`, `ServerError`, `FinalResult`, `SocketClose` and the `...Stopped` | `cancel`, `handleMessage`, the socket's events, and what follows each one's `capture.stop()` |

WebSocket and AudioContext are the browser's, modelled from how the code uses them: a
socket that closes says so, `close()` of a context resolves for its first caller and
fails for later ones, a context may be suspended at any time.

### AnswerPolicy and Deployment

Both hold operators only. Numbers are whole multiples of a unit, so a comparison of
quotients is a comparison of products. `Said` is the one place where a label is
withheld; a confidence is the pair it is the quotient of. The probability mass of
an age bracket (an error function) and the scores of the models are inputs.
`Accepted` and `PersistenceAccepted` are the two `validate` methods, `Persistence`
the settings `_build_persistence` derives, and the rest the lengths the handlers
compute. `PolicyExamples` compares the choice of a language with a second definition
that sorts as the code does, and checks that what the theorems assume can be met.

## 3. Runs

| Run | Instance | Shows |
| --- | --- | --- |
| `persistence` | 1 session, 2 deletions, 2 segments, 2 mishaps; 340 000 states | the properties of `PersistenceService` |
| `cancelled_create` | 1 session, no mishap | violated: a request cancelled during `create_session` leaves its pending row |
| `lost_put` | 1 session, 1 mishap | violated: a PUT that failed after its effect strands the object |
| `replicas` | the deletion in another container, no mishap | violated: a DELETE that reported success leaves an object |
| `reorder` | window 2, 1 repeat, numbers 0..6, empty and non-empty payloads, 5 frames; 99 000 states | the properties of `ReorderBuffer` |
| `pool` | 3 requests, 1 model and 1 language replica, 2 cancellations; 274 000 states | the properties of `InferencePool` |
| `double_cancel` | 2 requests, 2 cancellations | violated: a request ends while its thread still reads its audio |
| `stream` | raw and sequenced, with and without retention; chunks of 0, 1 and 3, segments of 2, at most 5 units; 953 000 states | the properties of `StreamSession` |
| `stream_flush` | the same | violated: what `flush` releases at `end` is analysed and not stored |
| `front` | 3 clients and a table of 2; bodies of at most 2 units of audio and 3 parts; 913 000 states | the properties of `RateLimiter` and `RestUpload`, and `PolicyExamples` |
| `cleanup` | 3 sessions, 1 container, batches of 2, pages of 1; 441 000 states | the properties of `RetentionCleanup` |
| `live` | blocks of 2, chunks of 3, at most 7 samples; 294 000 states | the properties of `LiveSession` |

Properties of `PersistenceService`:

- `EveryObjectOwned`: an object is listed by a manifest row, in the hands of its
  handler, or was lost in one of the ways the code cannot prevent: a PUT whose
  reply was lost, a failed compensation, a close or a kill. Nothing else strands audio.
- `RetainedIntact`: from completion until a deletion has read the manifest, the
  manifest lists every segment taken and the bucket holds each.
- `ErasedMeansGone`: a deletion that answered leaves neither row nor object
  (except those already lost), whatever ran at the same time.
- `HandlerExcludesErase`: the per-session lock excludes, although the index drops entries.
- `ErasureIsFinal`: a deleted analysis stays deleted and gets no new audio; the
  record goes only after the audio it lists.
- `CleanupHappens`: with working stores, a failed handler always gets its session deleted, also
  when it is cancelled again while it waits for the deletion.
- `ImplementsContract`: the service implements `RetentionContract` under the mapping
  `retentionPhase`, `retainedManifest`, `playableAudio`, `toldStored`.

Properties of `ReorderBuffer`:

- `EveryFrameInItsSlot`: an accepted frame is put out in its own slot or still held.
- `WindowIsKept`: nothing that could go out is held back, and before the end a slot is
  given up exactly when more than a window of later frames waits behind it.
- `LossIsConcealed`: each slot is counted once, received or lost, and a lost one is filled
  by a short repeat of the last frame or by silence.
- `LoopsEnd`: `push` and `flush` return. How much one push may put out is bounded only by
  the 32-bit sequence number.

Properties of `InferencePool`:

- `EveryReplicaAccounted`: each replica is free or held by one request, whatever times
  out, raises or is cancelled, however often.
- `NoLostWakeup`: while requests queue, every free replica has a woken waiter, also when
  a newcomer overtakes or a woken waiter gives up.
- `WorkersAreJoined`, `DecodedAudioWiped`: with one cancellation, no thread outlives its
  request, two never run on one replica, and decoded samples are wiped. The enhanced
  copy of a request cancelled while `enhance_window` runs is not: that call has
  no `on_cancel` (service.py 196), unlike what PRIVACY.md line 47 suggests.
- `AnalysesEnd`: a request that started ends without any queue timeout firing: no
  deadlock over the two pools, no starved waiter.

Properties of `StreamSession`:

- `SegmentsTile`: stored segments lie end to end, all but the last full, and the slices in
  them say which bytes of which chunk they hold, however chunks and segments cut each other.
- `ReportIsTrue`: a storage message counts as stored exactly the chunks all of whose bytes
  are in stored segments.
- `RecordHoldsTheAudio`: when a raw session is answered, the record holds all the audio
  that was analysed, and the limits held all along. `AnalysedAudioIsRetained`, the same of
  every framing, is violated.
- `UpdatesKeepPace`: however the interval backs off, no update is later than
  the largest interval or earlier than the smallest, and the language model is asked again
  within the refresh interval and one update. The language that is reported may be older:
  an answer of "unknown" keeps the last confident one (`_carry_language`).
- `VerdictMatchesRecord`: a session that was answered is completed, is never cleaned up and
  holds every byte of the chunks that were released before `end` (not of those that `flush`
  releases then, see `stream_flush`). One that was not answered, wherever its handler
  failed or was cancelled, is cleaned up; nothing of it is left then, unless the deletion
  failed. Where `start_ws` gave the handler no handle, an empty row may be left (run
  `cancelled_create`).
- `SessionEnds`: pings and empty frames do not hold a session open.

Properties of `RateLimiter` and `RestUpload`:

- `LimitHolds`: from any moment on, a client that stays tracked is admitted no more often
  than burst and rate since then allow. An evicted one starts anew with a full burst.
- `PatienceIsRewarded`: whoever obeys Retry-After is refused at most twice in a row. Once
  would be too few: the header is rounded to the nearest second.
- `RetainsOnlyAsAsked`: the settled retention is what every header and field says, and
  audio needs a consent reference.
- `NoSilentTruncation`: what is analysed is all that was sent.
- `UploadEnds`: a body that trickles, or fills parts nobody reads, ends.

Properties of `RetentionCleanup`:

- `RetainedUntilExpiry`: neither a worker nor the bucket touches a session whose retention
  is not over.
- `PagesMissNothing`: who reads to the last page has seen every session that was there all
  along, but for one created at the same instant as another.
- `ExpiryHappens`: every session goes, as long as fewer than a batch of them cannot be deleted,
  or the bucket has its rule. With a whole batch of them at its head, `list_expired` answers
  the same rows every time and nothing behind them is ever deleted.

Properties of `LiveSession`:

- `OneOutcome`: a session never both fails and completes, completes only after its
  `end`, and leaves its outcome on the screen. `start` may call a failed session
  streaming again, because it looks only for a cancellation; App has let go of it by then.
- `EndClosesTheStream`: `end` is sent once, after everything heard before the flush was answered,
  and nothing after it.
- `SessionSettles`: whatever is being awaited, a session that is over or finished by the
  user gets to its outcome and its microphone is off for good.

Bounds. `MaxMishaps`, `MaxCancels`, `MaxFaults`, `MaxPushes`, `MaxTime`, `LastStart` and
`MaxHeard` limit what the environment does; every other constant is a setting of the
code. In `persistence`, sessions share only the process (`ready`) and the mishap budget, so
one session shows every interleaving of its own actors; two deletions beside the
handler's own cleanup are enough for two of them to hold different locks while a third
starts; two segments let one be listed while the other is in flight; two mishaps are
a failure inside the handling of another one, or around a close or restart. In `reorder`
the numbers reach further than the window and the repeats together, so that a gap
contains a repeat and silence, and five frames overfill the window of two and add
duplicates and late ones. In `pool` the third request is the newcomer that overtakes two
waiters, and two cancellations hit one request twice or two requests. In `stream` a chunk
of 3 spans two segments of 2 and a chunk of 1 shares one; the two limits (6 and 5)
differ; the interval can back off once, from 1 to 2, which is cut from 3; a
session is longer than two idle timeouts would allow to see. In `front` the table is
smaller than the number of clients, a token takes 4 ticks and a second is 3, so that
Retry-After rounds down; a body can exceed each of its limits alone. In `cleanup` three
sessions are one more than a batch and three pages; the audio's retention is no
multiple of the day of two hours; the reader and audio that cannot be deleted are not
in one behaviour, since neither reads what the other writes. In `live` a block is
less than a chunk, and the backlog and the capture limit are reached within
the 7 samples.

Fairness. Nobody outside has to act: no client starts, speaks, stops, cancels or deletes
by fairness.

- `PersistenceService`: each handler's and each deletion's steps. Store calls end because
  `asyncpg` has a command timeout and boto3 connect and read timeouts; a handler
  between calls is under the idle, session and queue deadlines; a runnable coroutine is run.
- `ReorderBuffer`: the loops are synchronous code; once entered they run.
- `InferencePool`: a runnable coroutine runs and a thread ends (decoding has a deadline, the
  numeric stages are finite); no timeout is assumed to fire.
- `StreamSession`: the handler's steps and the clock. An analysis ends by `AnalysesEnd`.
- `RestUpload`: the server's steps, of which waiting is one: each step of silence counts.
- `RetentionCleanup`: the clock, each container's worker, the bucket's rule.
- `LiveSession`: the page's tasks and timers; a context being closed closes; a socket that
  closes says so; the server answers an `end` or closes, by `SessionEnds`.

`CHECK_DEADLOCK` is off because the systems stop when the clients do.

### What the code does not do as documented

1. `cancelled_create` - `_start` (service.py 372-383) catches `Exception`, which
   `CancelledError` is not, and the handler has no handle yet. ADR-003 line 25 says an
   analysis that does not complete deletes its metadata. The row stays until it expires.
2. `lost_put` - after a failed PUT `_persist_segment` (731-734) does not delete the
   key, and the cleanup only knows keys with a manifest row. ADR-003 line 25 says an
   error never strands retained audio. The bucket's lifecycle rule
   (`_configure_orphan_lifecycle`) removes it a day after the retention time.
3. `replicas` - the lock of `delete` is in one process, while README line 260 scales
   with more containers. A segment inserted between another container's reading of the
   manifest and its DELETE of the row loses its record by cascade and keeps its object,
   although API.md line 300 promises that DELETE removes the audio.
4. `double_cancel` - the join in `_thread_call` (service.py 48-56) is itself cancellable. A
   second cancellation wipes the arrays and releases the replica under the running thread,
   although the docstring (41-43) says that joining prevents it. Retained requests already
   reckon with repeated cancellation (`_delete_incomplete_session`).
5. `stream_flush` - frames that `flush` releases at `end` (main.py 1171) join the analysed
   buffer and are not stored, nor held to the limits, while the session is told that its audio
   was retained; ADR-003 line 25 says the UI never claims that when it was not.

Smaller things met on the way, which no violated run is about: a failed deletion of an
incomplete session is logged and no more (main.py 661-666, 1230-1235), and what it was about
stays until it expires, although API.md line 290 and PRIVACY.md line 51 say without exception
that a session without a final result is deleted; `VerdictMatchesRecord` has the
exception. `Settings.validate` accepts values that `PersistenceSettings.validate`
refuses, so that they fail at startup and not with the other settings (theorem
`StartupNeedsFourMore`). An allowlist entry that is a legacy code ("iw") matches
nothing, since labels are renewed before they are compared, and two equal entries pass
the test that there be two. The analysis window may be shorter than what the language
model asks for, and then no update ever determines a language. README line 155 says that
confidence is discounted, line 191 that it is never scaled; the code does the latter. A
body whose reading is cancelled is not wiped: ingest.py 79 catches `Exception`. Nor is
the buffer of a handler that is cancelled during its cleanup: it raises again before
`wipe_buffer` (main.py 663-664 and 1232-1233).

## 4. Theorems

Everything below is checked by `tlapm`, from the named assumptions of each module and
nothing else. They say that sessions and deletions, clients and `Nobody`, and the two pools'
replicas are disjoint, and that bounds and settings are naturals (positive where `validate`
asks for it); finite are only the replicas and, for the rank of a row in a query, the
sessions of `RetentionCleanup`.

`PersistenceServiceProofs`, wherever the deletions run:

- `TypeCorrect`. `TypeOK` is not inductive: `Last(s)` is a segment only because a
  handler at work on a segment has taken one (`Numbered`).
- `Exclusion`. The weak index can hand two deletions different locks, so "one lock
  per session" is false. What holds (`ExclusionInv`) is that as long as a handler
  can enter or is inside its lock, lock 0 is the only one a deletion of this process
  can have taken (`FirstLock`, `HolderAlone`): an entry is only dropped together with
  the runtime, and a handler enters only through a registered runtime.
- `RetentionIsIntact`. `IntactInv` follows the handler: between two segments the
  manifest lists all that were taken, during one all but the last.

`PersistenceErasureProofs`, assuming `Remote = {}` (one API container; the run
`replicas` shows that the assumption is needed):

- `NoStrandedAudio`, `ErasureIsComplete`, `DeletionIsFinal`, from `EraseInv`. Its core
  is `ManifestKnown`: exclusion makes the keys a deletion has read the last word on its
  session until it is done with the row.
- `Refinement`: `Spec => ImplementsContract`, from `RefineInv`. One lemma per
  action says which step of the contract it is or that it is a stutter.

`ReorderBufferProofs`, for any window, repeat limit, sequence numbers and payloads:
`TypeCorrect`, `FramesInTheirSlots`, `WindowIsExact` and `ConcealmentIsHonest`, the last
two from `LossIsAccounted`, `WindowIsBound`, `NoFrameGivenUpEarly` and `ConcealmentIsShort`;
and `LoopsAreBounded`: an iteration of `push` or `flush` fills one of the slots up to the
highest sequence number seen, so that a loop which goes on (`LoopsEnd` is checked for that)
has an end.

`InferencePoolProofs`, for any requests, replicas and number of cancellations:

- `TypeCorrect`, `ReplicasAreAccounted` and `NoWakeupIsLost` from `PoolInv`. Its core is that
  no waiter is in a queue twice and none is both queued and woken (`QueueOK`), so that
  `RemoveFirst` takes a withdrawn waiter out altogether (`RemoveFirstShifts`) and each
  wake-up counts; and that a replica is held only by a stage that runs on one of its
  pool (`HoldInv`).
- `ThreadsAreJoinedOnce` and `DecodedIsWiped` from `ThreadInv`, which holds up to the first
  cancellation: then a thread runs the stage its request is in, and a request that joins
  has nothing else to be interrupted by. The run `double_cancel` shows why it stops there.

`CleanupProofs`, for any retention times, batch and page sizes and number of containers:

- `TypeCorrect`. That a batch is no larger than its limit is a fact about ranks in a
  strict order (`LimitHoldsTheRows`), proved by the pigeonhole principle: the ranks of
  distinct rows are distinct numbers below the limit.
- `RetentionIsKept`, from `DueInv`: whatever is in a batch has expired, and `LifecycleIsLater`:
  the bucket's days, rounded up and one more, are past the retention.
- `PagesAreComplete`, from `ListInv`: what the reader is owed is listed, lies
  behind the cursor, or was created with an entry at the cursor (`LimitTakesTheFirst`).

`FrontDoorProofs`, for any burst, rate, table and number of clients:

- `LimiterTypeCorrect`, with the table never above its limit because eviction makes room.
- `TheRateIsKept`: `LimitHolds` is inductive once what the bucket holds is counted with what
  it gave out.
- `RetryAfterSuffices`, from `PatienceInv` and `AdviceIsGood`. The advice is rounded to
  whole seconds (`RetryAfterRounds`), so the first refusal can leave at most half a
  second's refill missing and the second none;

for any pieces of a body, headers, fields and limits of which ffmpeg's cut lies beyond the
tolerance:

- `UploadTypeCorrect`, from `UploadTypeInv`: of a raw body all that was counted is in the buffer.
  No audio is left over in a request that was rejected or answered; one whose reading is
  cancelled keeps it.
- `NothingIsTruncated`, from `TruncationInv`: what comes out of the decoder is all of the
  audio or longer than the duration check lets through.
- `RetentionAsAsked`, from `RetentionInv`: while a body is read no policy is settled yet, and a
  field that was stated holds the one value that was ever stated for it.
- `FrontTypeCorrect`: the same two type invariants of the two as the run `front` composes them;

for any scores and any accepted settings:

- `DegradedIsNoEasier`, `DamageIsTold`, `NoGuessIsReported` (which needs the gender threshold
  above one half, as the defaults have it: at one half a tie is reported),
  `LanguageIsServedAndClear`.
- `StartupNeedsFourMore`, `BucketOutlivesRetention`, `SegmentsAreWholeFrames`,
  `UpdatesAreWholeAndBounded`, `TheTailIsEnough`. The rounding of the lengths is integer
  division, reasoned about by quotient and remainder.

`StreamSessionProofs`, for any chunk sizes, segment target, window, limits and intervals:

- `StreamTypeCorrect`, from `BaseInv`: the type invariant, and that nothing of a session is
  there before its audio. Each slice that the accumulator takes of a chunk is a step, and
  `FillTypes` says what it leaves: at most a segment's bytes.
- `StoredSegmentsTile`, from `StorageInv`. The stored segments lie end to end (`EndToEnd`), the
  full ones that wait to be stored follow, then the accumulator's bytes, up to the byte of
  the chunk the handler is at. Each step of the accumulator moves bytes from one to the next.
- `ReportsAreTrue`, from `ReportInv`. The code counts a chunk as stored when the bytes its slices
  cover in stored segments add up to its size. That this is so exactly when the chunk ends
  before the last stored byte (`MeasuredChunk`) needs that each segment covers an interval of the
  stream, and a sum over segments is what is covered by their union.
- `RecordIsComplete`, from `RawInv`: a raw session accumulates exactly what it analyses.
- `VerdictIsKept`, from `OutcomeInv`: the flag is set in the step that completes the record,
  and the cleanup looks at nothing else. That a completed record holds every byte of the chunks released before `end` is `StorageInv`
  with the accumulator emptied; it has to allow for a session whose last segment is committed and
  not counted, from where only the cleanup follows (`StorageStops`).
- `PaceIsKept`, from `PaceInv`: the handler never listens while an update is due.

`LiveSessionProofs`, for any block, chunk, limits and length of the recording:

- `TheOutcomeIsOne`, from `LifeInv`, which says which awaits of `start` and `finish` go together
  with each other, with the phase and with a worklet that listens, and `ViewInv`: App holds a
  session until the outcome it shows. A session that failed while `start` was waiting calls
  itself streaming again, and `ViewInv` is what keeps that from the page.
- `LiveTypeCorrect` and `TheEndIsTheEnd`, from `FlowInv`: the samples sent, pending, in the port
  and in the worklet are no more than were heard, and those that were captured are among them,
  before the mark of the flush when it is on its way. The samples in the port are a sum
  over a queue: `FlowInv` says that some function counts them, and each message that
  is posted or delivered gives the next one.

Each inductive invariant also holds of the instance of its module's run, by TLC (`FlowInv`
with the function it asks for written out). The folds that add up sizes are recursive functions on sets. The prover
instantiates no induction rule; what these proofs need of a sum they get from the
well-foundedness of numbers and of the subsets of a finite set, by looking at a least
counterexample (`NumberInduction`, `SubsetInduction`).

Model-checked only:

- every liveness property (`CleanupHappens`, `LoopsEnd`, `AnalysesEnd`, `SessionEnds`,
  `UploadEnds`, `ExpiryHappens`, `SessionSettles`): the prover reaches neither fairness nor `ENABLED`;
- the comparisons of `PolicyExamples`, which evaluate the pure rules on bounded inputs;
- the violations, which are about what the code does not keep.

Every invariant and every action property of a passing run is a theorem.

## 5. Plan

Done: the persistence service and its contract, the reorder buffer, the pools and threads,
the streaming session, the upload, the rate limiter, expiry and listing, the browser's
live session, the pure rules of answers and settings; their runs; the theorems above.

Next, in this order:

1. What bounds the other loops as `LoopsAreBounded` does those of the reorder buffer: the
   reading of a body, the stages of an analysis, the batches of a purge.
2. `StreamSession` over the contract of `PersistenceService`, as one composed run: what the
   client was told about its chunks against what a later reader finds.

Not modelled, and why:

- `PersistenceService.fail` and the public `flush` have no caller in the program.
- The arithmetic of resampling, filters, quality measures, enhancement and of the model
  heads is numeric over real-valued arrays; the models take its verdicts as open choices.
- The network and cloud clients (S3, DynamoDB, asyncio, the browser's WebSocket and
  AudioContext) are modelled from how the code uses them, never on their own.
- Reading settings from the environment, schemas, error texts, logging and metrics
  format values and keep no state that a property is about.
- The recorder, the upload client and the history view of the browser: one request at a
  time, no state shared with the session.
- Scripts, tests, infrastructure files.
