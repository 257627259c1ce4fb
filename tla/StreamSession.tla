---------------------------- MODULE StreamSession ----------------------------
(***************************************************************************)
(* One WebSocket session, from the handshake to the finally clause of      *)
(* _handle_websocket (backend/app/main.py), with the accumulator that cuts *)
(* its audio into segments (_StreamAccumulator in persistence/service.py). *)
(*                                                                         *)
(* The handler is one coroutine; a step is what it does between two        *)
(* awaits, or one iteration of a loop.  Audio is counted in one unit, in   *)
(* which bytes and seconds agree.  The stores, the analysis and the        *)
(* reorder buffer, which have modules of their own, appear here by what    *)
(* they can do to the session: a stored segment is written whole or not at *)
(* all, an analysis answers or fails, and frames are held or put out in    *)
(* the order of their slots, a filler before them where slots were given   *)
(* up.                                                                     *)
(***************************************************************************)
EXTENDS Integers, Sequences, FiniteSets, SequencesExt

CONSTANTS Framings,        \* what start.framing may ask for, of {"raw", "seq32"}
          Modes,           \* of {"none", "result", "result_and_audio"}
          ChunkSizes,      \* the payload lengths a frame may have
          Window,          \* ws_reorder_window_frames
          MaxUpload,       \* max_upload_bytes
          MaxAudio,        \* max_audio_seconds
          MinAudio,        \* min_audio_seconds
          SegmentTarget,   \* _segment_target_bytes of the session
          EmitInterval, MaxEmitInterval, EmitBackoff,  \* ws_emit_...
          Labels,          \* the (gender, age bracket) answers of the model
          Languages,       \* the confident answers of the language model
          LanguageRefresh, \* language_refresh_seconds
          StartTimeout, IdleTimeout, MaxSession   \* ws_..._seconds

ASSUME StreamAssumption ==
    /\ Framings \subseteq {"raw", "seq32"}
    /\ Modes \subseteq {"none", "result", "result_and_audio"}
    /\ ChunkSizes \subseteq Nat
    /\ {Window, MaxUpload, MaxAudio, MinAudio, LanguageRefresh} \subseteq Nat
    /\ {SegmentTarget, EmitInterval, EmitBackoff} \subseteq Nat \ {0}
    /\ MaxEmitInterval \in Nat /\ EmitInterval <= MaxEmitInterval
    /\ {StartTimeout, IdleTimeout, MaxSession} \subseteq Nat \ {0}
    /\ "none" \notin Labels \cup Languages /\ "unknown" \notin Languages

VARIABLES
    pc,           \* where the handler is
    framing, mode,
    age,          \* time since started_at, up to MaxSession
    timer,        \* what is left of the wait_for it is in
    waiting,      \* the frames the reorder buffer holds, in the order of their slots
    ordered,      \* the chunks the frame released that are not handled yet
    buffered,     \* len(buffer)
    lastEmitted, interval, labels,      \* last_emitted_at, emit_interval, last_labels
    language, checkedAt,                \* current_language, language_checked_at
    sequence,     \* predictions sent
    stream,       \* the _StreamAccumulator; see StreamType
    offset,       \* chunk_offset of its append
    pending,      \* segments it took that are not stored yet
    segments,     \* the segments of the session's record
    sizes,        \* chunk_sizes
    report,       \* the last storage message: logical chunks received and stored
    record,       \* the session's row
    completed,    \* the handler's flag
    verdict,      \* what the client was told at the end
    cleanup       \* history: how the deletion of the incomplete session ended

clock == <<age, timer>>
frames == <<waiting, ordered>>
updates == <<buffered, lastEmitted, interval, labels, language, checkedAt, sequence>>
storage == <<stream, offset, pending, segments, sizes, report>>
outcome == <<record, completed, verdict, cleanup>>
vars == <<pc, framing, mode, clock, frames, updates, storage, outcome>>

Smaller(a, b) == IF a < b THEN a ELSE b
Enabled == mode # "none"
KeepsAudio == mode = "result_and_audio"

NewStream == [filled |-> 0, slices |-> <<>>, cursor |-> 0, start |-> 0, chunks |-> 0]

Init ==
    /\ pc = "connecting"
    /\ framing = "raw" /\ mode = "none"
    /\ age = 0 /\ timer = 0
    /\ waiting = <<>> /\ ordered = <<>>
    /\ buffered = 0 /\ lastEmitted = 0 /\ interval = EmitInterval
    /\ labels = "none" /\ language = "none" /\ checkedAt = 0 /\ sequence = 0
    /\ stream = NewStream
    /\ offset = 0 /\ pending = <<>> /\ segments = <<>> /\ sizes = <<>>
    /\ report = [received |-> 0, stored |-> 0]
    /\ record = "none" /\ completed = FALSE /\ verdict = "none" /\ cleanup = "none"

-------------------------------------------------------------------------------
\* The handler's exits: an exception, which it answers, and a disconnect.
Fail == pc' = "failing"
Leave == pc' = "leaving"

\* Mutant of Listen: only the idle timeout bounds the wait.
Listen_IdleOnly(now) == pc' = "receive" /\ timer' = IdleTimeout

\* The head of the receive loop.
Listen(now) ==
    IF now >= MaxSession
    THEN Fail /\ UNCHANGED timer
    ELSE pc' = "receive" /\ timer' = Smaller(IdleTimeout, MaxSession - now)

\* The rate limiter's verdict and the origin check, before accept.
Refuse ==
    /\ pc = "connecting"
    /\ pc' = "closed"
    /\ UNCHANGED <<framing, mode, clock, frames, updates, storage, outcome>>

Accept ==
    /\ pc = "connecting"
    /\ pc' = "starting" /\ timer' = StartTimeout
    /\ UNCHANGED <<framing, mode, age, frames, updates, storage, outcome>>

\* _receive_start.
Start(f, m) ==
    /\ pc = "starting"
    /\ framing' = f /\ mode' = m
    /\ pc' = "opening"
    /\ UNCHANGED <<clock, frames, updates, storage, outcome>>

\* start_ws returns the handle, or raises.
Open ==
    /\ pc = "opening"
    /\ record' = IF Enabled THEN "pending" ELSE "none"
    /\ Listen(age)
    /\ UNCHANGED <<framing, mode, age, frames, updates, storage, completed, verdict, cleanup>>

\* The handler's handle stays None, whether create_session took effect or not.
NoHandle ==
    /\ pc = "opening" /\ Enabled
    /\ mode' = "none" /\ record' \in {"none", "pending"}
    /\ UNCHANGED <<framing, clock, frames, updates, storage, completed, verdict, cleanup>>

OpenFails == NoHandle /\ Fail

\* The server cancels the handler in start_ws.
OpenCancelled == NoHandle /\ Leave

-------------------------------------------------------------------------------
(* The receive loop. *)

\* A raw frame is one chunk.
RawFrame(n) ==
    /\ pc = "receive" /\ framing = "raw"
    /\ ordered' = <<n>>
    /\ pc' = "chunks"
    /\ UNCHANGED <<framing, mode, clock, waiting, updates, storage, outcome>>

\* push of a sequenced frame: dropped, or put in its slot behind the first i of
\* the held ones, of which the first k are released, behind the filler of a slot
\* given up if more than the window would be held.
Frame(n) ==
    /\ pc = "receive" /\ framing = "seq32"
    /\ \/ waiting' = waiting /\ ordered' = <<>>
       \/ \E i \in 0..Len(waiting) :
            LET line == SubSeq(waiting, 1, i) \o <<n>> \o SubSeq(waiting, i + 1, Len(waiting))
            IN  \E k \in 0..Len(line) :
                  \E fill \in IF Len(line) > Window
                              THEN {<<c>> : c \in ChunkSizes} ELSE {<<>>} :
                    /\ Len(line) - k <= Window
                    /\ waiting' = SubSeq(line, k + 1, Len(line))
                    /\ ordered' = fill \o SubSeq(line, 1, k)
    /\ pc' = "chunks"
    /\ UNCHANGED <<framing, mode, clock, updates, storage, outcome>>

\* The loop over the ordered chunks, up to the storing of one.
SkipEmpty ==
    /\ pc = "chunks" /\ ordered # <<>> /\ Head(ordered) = 0
    /\ ordered' = Tail(ordered)
    /\ UNCHANGED <<pc, framing, mode, clock, waiting, updates, storage, outcome>>

\* Mutant of Exceeds: the check leaves out the chunk it is about.
Exceeds_WithoutChunk(limit) == buffered > limit

Exceeds(limit) == buffered + Head(ordered) > limit

TooMuch ==
    /\ pc = "chunks" /\ ordered # <<>> /\ Head(ordered) # 0
    /\ \/ Exceeds(MaxUpload)                                 \* RequestTooLargeError
       \/ ~Exceeds(MaxUpload) /\ Exceeds(MaxAudio)           \* AUDIO_TOO_LONG
    /\ Fail
    /\ UNCHANGED <<framing, mode, clock, frames, updates, storage, outcome>>

TakeChunk ==
    /\ pc = "chunks" /\ ordered # <<>> /\ Head(ordered) # 0
    /\ ~Exceeds(MaxUpload) /\ ~Exceeds(MaxAudio)
    /\ IF KeepsAudio
       THEN /\ pc' = "append"
            /\ offset' = 0
            /\ sizes' = Append(sizes, Head(ordered))
            /\ UNCHANGED <<ordered, buffered>>
       ELSE /\ buffered' = buffered + Head(ordered)
            /\ ordered' = Tail(ordered)
            /\ UNCHANGED <<pc, offset, sizes>>
    /\ UNCHANGED <<framing, mode, clock, waiting, lastEmitted, interval, labels,
                   language, checkedAt, sequence, stream, pending, segments, report, outcome>>

-------------------------------------------------------------------------------
(* store_chunk: append one chunk, then store the segments it completed. *)

Slice(chunk, from, segFrom, n) ==
    [chunk |-> chunk, from |-> from, to |-> from + n, segFrom |-> segFrom, segTo |-> segFrom + n]

\* Mutant of TakeSegment: the next segment starts a target further on.
TakeSegment_FullSize(s) ==
    [start |-> s.start, end |-> s.start + SegmentTarget, slices |-> s.slices]

TakeSegment(s) == [start |-> s.start, end |-> s.start + s.filled, slices |-> s.slices]

\* What is left of the accumulator when a segment is taken.
Emptied(s) == [s EXCEPT !.start = s.start + s.filled, !.filled = 0, !.slices = <<>>]

\* Mutant of Room: a chunk fills a new segment as if it were empty.
Room_Whole == SegmentTarget

Room == SegmentTarget - stream.filled

\* One iteration of append.
Fill ==
    /\ pc = "append" /\ offset < Head(ordered)
    /\ LET take == Smaller(Room, Head(ordered) - offset)
           filled == [stream EXCEPT !.filled = @ + take,
                        !.slices = Append(@, Slice(stream.chunks, stream.cursor + offset,
                                                   stream.filled, take))]
       IN  /\ offset' = offset + take
           /\ IF filled.filled = SegmentTarget
              THEN stream' = Emptied(filled) /\ pending' = Append(pending, TakeSegment(filled))
              ELSE stream' = filled /\ UNCHANGED pending
    /\ UNCHANGED <<pc, framing, mode, clock, frames, updates, segments, sizes, report, outcome>>

Filled ==
    /\ pc = "append" /\ offset = Head(ordered)
    /\ stream' = [stream EXCEPT !.cursor = @ + Head(ordered), !.chunks = @ + 1]
    /\ pc' = "store"
    /\ UNCHANGED <<framing, mode, clock, frames, updates, offset, pending, segments,
                   sizes, report, outcome>>

\* _persist_segment of the next one.
StoreSegment ==
    /\ pc = "store" /\ pending # <<>>
    /\ segments' = Append(segments, Head(pending))
    /\ pending' = Tail(pending)
    /\ UNCHANGED <<pc, framing, mode, clock, frames, updates, stream, offset, sizes,
                   report, outcome>>

\* store_chunk is left before append (waiting for the session's lock, or because the
\* session or the service was closed), or at a segment, whose row may have been committed
\* all the same.
StoreBreaks ==
    /\ \/ pc = "append" /\ offset = 0 /\ UNCHANGED segments
       \/ /\ pc = "store" /\ pending # <<>>
          /\ segments' \in {segments, Append(segments, Head(pending))}
    /\ UNCHANGED <<framing, mode, clock, frames, updates, stream, offset, pending, sizes,
                   report, outcome>>

StoreFails == StoreBreaks /\ Fail

StoreCancelled == StoreBreaks /\ Leave

\* The bytes of chunk i that the stored segments say they hold: stored_chunk_bytes.
StoredBytes(i) ==
    LET held == {s \in UNION {Range(segments[k].slices) : k \in DOMAIN segments} : s.chunk = i - 1}
    IN  FoldSet(LAMBDA s, n : n + s.to - s.from, 0, held)

\* Mutant of CountsAsStored: part of a chunk is enough.
CountsAsStored_Partly(i) == StoredBytes(i) > 0

CountsAsStored(i) == StoredBytes(i) >= sizes[i]

\* store_chunk returned: the storage message, then the chunk joins the buffer.
Stored ==
    /\ pc = "store" /\ pending = <<>>
    /\ report' = [received |-> Len(sizes),
                  stored |-> Cardinality({i \in DOMAIN sizes : CountsAsStored(i)})]
    /\ buffered' = buffered + Head(ordered)
    /\ ordered' = Tail(ordered)
    /\ pc' = "chunks"
    /\ UNCHANGED <<framing, mode, clock, waiting, lastEmitted, interval, labels,
                   language, checkedAt, sequence, stream, offset, pending, segments, sizes, outcome>>

-------------------------------------------------------------------------------
(* Progressive updates. *)

Due == /\ buffered > 0
       /\ buffered >= MinAudio
       /\ buffered - lastEmitted >= interval

ChunksDone ==
    /\ pc = "chunks" /\ ordered = <<>>
    /\ IF Due THEN pc' = "analyze" /\ UNCHANGED timer ELSE Listen(age)
    /\ UNCHANGED <<framing, mode, age, frames, updates, storage, outcome>>

\* Mutant of Recheck: the first language is never questioned.
Recheck_Once == language = "none"

Recheck == language = "none" \/ buffered - checkedAt >= LanguageRefresh

\* The language an update's analysis may answer: the settled one it was given or
\* what the language model says of its window; "none" is a deployment without one.
Identified == IF Languages = {} THEN {"none"} ELSE Languages \cup {"unknown"}
Heard == IF Recheck THEN Identified ELSE {language}

\* _carry_language: current_language after a window's answer.
Carried(answer) == IF answer \in {"none", "unknown"} THEN language ELSE answer

Backoff(l) ==
    IF labels = l THEN Smaller(MaxEmitInterval, interval * EmitBackoff) ELSE EmitInterval

Update(l, answer) ==
    /\ pc = "analyze"
    /\ language' = Carried(answer)
    /\ checkedAt' = IF Recheck THEN buffered ELSE checkedAt
    /\ sequence' = sequence + 1
    /\ lastEmitted' = buffered
    /\ interval' = Backoff(l)
    /\ labels' = l
    /\ Listen(age)
    /\ UNCHANGED <<framing, mode, age, frames, buffered, storage, outcome>>

AnalysisFails ==
    /\ pc \in {"analyze", "conclude"}
    /\ Fail
    /\ UNCHANGED <<framing, mode, clock, frames, updates, storage, outcome>>

-------------------------------------------------------------------------------
(* Control messages, silence and departure. *)

Ping ==
    /\ pc = "receive"
    /\ Listen(age)
    /\ UNCHANGED <<framing, mode, age, frames, updates, storage, outcome>>

\* Malformed start, frame or control message.
BadMessage ==
    /\ pc \in {"starting", "receive"}
    /\ Fail
    /\ UNCHANGED <<framing, mode, clock, frames, updates, storage, outcome>>

\* Total length of frames; flush puts out those held, and fillers for the slots between.
Total(chunks) == FoldSeq(LAMBDA n, sum : n + sum, 0, chunks)

Flushed == IF waiting = <<>> THEN {0} ELSE {Total(waiting) + c : c \in ChunkSizes \cup {0}}

\* `end`: what the reorder buffer still holds joins the buffer, and only that.
End ==
    /\ pc = "receive"
    /\ waiting' = <<>>
    /\ \E rest \in Flushed :
         /\ buffered' = buffered + rest
         /\ IF buffered + rest = 0 THEN Fail ELSE pc' = "conclude"
    /\ UNCHANGED <<framing, mode, clock, ordered, lastEmitted, interval, labels,
                   language, checkedAt, sequence, storage, outcome>>

\* The final analysis, which always asks the language model.
Conclude(answer) ==
    /\ pc = "conclude"
    /\ language' = Carried(answer)
    /\ pc' = "complete"
    /\ UNCHANGED <<framing, mode, clock, frames, buffered, lastEmitted, interval, labels,
                   checkedAt, sequence, storage, outcome>>

\* flush of the accumulator.
Trailing == IF stream.filled = 0 THEN <<>> ELSE <<TakeSegment(stream)>>

\* storage.complete: the trailing segment, the row, and the manifest read back.
Complete ==
    /\ pc = "complete"
    /\ IF Enabled
       THEN /\ segments' = segments \o Trailing
            /\ stream' = Emptied(stream)
            /\ record' = "stored"
       ELSE UNCHANGED <<segments, stream, record>>
    /\ pc' = "answer" /\ completed' = TRUE
    /\ sequence' = sequence + 1
    /\ UNCHANGED <<framing, mode, clock, frames, buffered, lastEmitted, interval, labels,
                   language, checkedAt, offset, pending, sizes, report, verdict, cleanup>>

\* It is left before the trailing segment is stored, before the row is committed, or
\* when it reads the manifest.
CompleteBreaks ==
    /\ pc = "complete" /\ Enabled
    /\ \/ stream' \in {stream, Emptied(stream)} /\ UNCHANGED <<segments, record>>
       \/ /\ segments' = segments \o Trailing
          /\ stream' = Emptied(stream)
          /\ record' \in {record, "stored"}
    /\ UNCHANGED <<framing, mode, clock, frames, updates, offset, pending, sizes, report,
                   verdict, cleanup>>

\* Mutant of CompleteFails: the flag is set before the call returns.
CompleteFails_FlagFirst == CompleteBreaks /\ Fail /\ completed' = TRUE

CompleteFails == CompleteBreaks /\ Fail /\ UNCHANGED completed

CompleteCancelled == CompleteBreaks /\ Leave /\ UNCHANGED completed

\* The final prediction; a client that left does not get it.
Answer ==
    /\ pc = "answer"
    /\ verdict' \in {"final", "none"}
    /\ pc' = "leaving"
    /\ UNCHANGED <<framing, mode, clock, frames, updates, storage, record, completed, cleanup>>

Tick ==
    /\ pc \notin {"connecting", "closed"}
    /\ pc \in {"starting", "receive"} => timer > 0
    /\ age' = Smaller(age + 1, MaxSession)
    /\ timer' = IF pc \in {"starting", "receive"} THEN timer - 1 ELSE timer
    /\ UNCHANGED <<pc, framing, mode, frames, updates, storage, outcome>>

\* wait_for gives up: the start, idle or session timeout.
TimesOut ==
    /\ pc \in {"starting", "receive"} /\ timer = 0
    /\ Fail
    /\ UNCHANGED <<framing, mode, clock, frames, updates, storage, outcome>>

\* The client has left: receive says so, or a send raises it.  One that left while
\* the handler was busy is noticed here and not before.
Disconnect ==
    /\ pc \in {"starting", "receive", "store", "analyze"}
    /\ pc = "store" => pending = <<>>
    /\ Leave
    /\ UNCHANGED <<framing, mode, clock, frames, updates, storage, outcome>>

\* The server cancels the handler at any other await, as at shutdown.
Cancelled ==
    /\ pc \in {"starting", "receive", "store", "analyze", "conclude", "answer"}
    /\ pc = "store" => pending = <<>>
    /\ Leave
    /\ UNCHANGED <<framing, mode, clock, frames, updates, storage, outcome>>

\* _send_ws_error; a client that left does not get it.
TellError ==
    /\ pc = "failing"
    /\ verdict' \in {"error", "none"}
    /\ Leave
    /\ UNCHANGED <<framing, mode, clock, frames, updates, storage, record, completed, cleanup>>

Erased == record' = "deleted" /\ segments' = <<>>

\* _delete_incomplete_session, which a cancellation does not stop.  A failure, at worst
\* the lost reply of the last call, is logged and that is all.
CleanUp ==
    \/ Erased /\ cleanup' = "done"
    \/ (Erased \/ UNCHANGED <<record, segments>>) /\ cleanup' = "failed"

\* The finally clause and the end of the handler's locals, except that sizes stays to
\* say what was streamed.
Finally ==
    /\ pc = "leaving"
    /\ pc' = "closed"
    /\ IF Enabled /\ ~completed THEN CleanUp ELSE UNCHANGED <<record, segments, cleanup>>
    /\ waiting' = <<>> /\ ordered' = <<>> /\ buffered' = 0
    /\ lastEmitted' = 0 /\ interval' = EmitInterval /\ labels' = "none"
    /\ language' = "none" /\ checkedAt' = 0 /\ sequence' = 0
    /\ stream' = NewStream /\ offset' = 0 /\ pending' = <<>>
    /\ report' = [received |-> 0, stored |-> 0]
    /\ UNCHANGED <<framing, mode, clock, sizes, completed, verdict>>

-------------------------------------------------------------------------------
\* What the client, or nobody in particular, decides.
Client ==
    \/ \E f \in Framings, m \in Modes : Start(f, m)
    \/ \E n \in ChunkSizes : RawFrame(n) \/ Frame(n)
    \/ Ping \/ BadMessage \/ End \/ Disconnect
    \/ OpenCancelled \/ StoreCancelled \/ CompleteCancelled \/ Cancelled

Handler ==
    \/ Refuse \/ Accept \/ Open \/ OpenFails
    \/ SkipEmpty \/ TooMuch \/ TakeChunk
    \/ Fill \/ Filled \/ StoreSegment \/ StoreFails \/ Stored
    \/ ChunksDone
    \/ \E l \in Labels, answer \in Heard : Update(l, answer)
    \/ AnalysisFails
    \/ \E answer \in Identified : Conclude(answer)
    \/ Complete \/ CompleteFails \/ Answer
    \/ TimesOut \/ TellError \/ Finally

Next == Client \/ Handler \/ Tick

Spec == Init /\ [][Next]_vars

\* The event loop runs the handler, the calls it awaits return, and time passes;
\* the client owes nothing.
FairSpec == Spec /\ WF_vars(Handler) /\ WF_vars(Tick)

-------------------------------------------------------------------------------
SegmentType == [start : Nat, end : Nat, slices : Seq([chunk : Nat, from : Nat, to : Nat,
                                                      segFrom : Nat, segTo : Nat])]

TypeOK ==
    /\ pc \in {"connecting", "starting", "opening", "receive", "chunks", "append", "store",
               "analyze", "conclude", "complete", "answer", "failing", "leaving", "closed"}
    /\ framing \in Framings \cup {"raw"} /\ mode \in Modes \cup {"none"}
    /\ age \in 0..MaxSession /\ timer \in Nat
    /\ waiting \in Seq(ChunkSizes) /\ Len(waiting) <= Window
    /\ ordered \in Seq(ChunkSizes)
    /\ buffered \in Nat /\ lastEmitted \in Nat /\ checkedAt \in Nat /\ sequence \in Nat
    /\ interval \in EmitInterval..MaxEmitInterval
    /\ labels \in Labels \cup {"none"} /\ language \in Languages \cup {"none"}
    /\ stream.filled \in 0..SegmentTarget
    /\ offset \in Nat
    /\ pending \in Seq(SegmentType) /\ segments \in Seq(SegmentType)
    /\ sizes \in Seq(ChunkSizes \ {0})
    /\ report.stored \in 0..report.received
    /\ record \in {"none", "pending", "stored", "deleted"}
    /\ completed \in BOOLEAN /\ verdict \in {"none", "final", "error"}
    /\ cleanup \in {"none", "done", "failed"}

\* Where chunk i of the stored stream begins and ends.
ChunkStart(i) == Total(SubSeq(sizes, 1, i - 1))
ChunkEnd(i) == Total(SubSeq(sizes, 1, i))
StoredEnd == IF segments = <<>> THEN 0 ELSE segments[Len(segments)].end

\* The stored segments lie end to end from byte 0, all but the last of full size; in
\* each, the slices lie end to end and every slice says which bytes of which chunk
\* it holds: a reader can rebuild each chunk from them, however chunks and segments
\* cut each other.
SegmentsTile ==
    \A k \in DOMAIN segments :
        LET seg == segments[k]
        IN  /\ seg.start = (IF k = 1 THEN 0 ELSE segments[k - 1].end)
            /\ seg.end - seg.start <= SegmentTarget
            /\ k < Len(segments) => seg.end - seg.start = SegmentTarget
            /\ seg.slices # <<>>
            /\ seg.slices[Len(seg.slices)].segTo = seg.end - seg.start
            /\ \A j \in DOMAIN seg.slices :
                 LET sl == seg.slices[j]
                 IN  /\ sl.segFrom = (IF j = 1 THEN 0 ELSE seg.slices[j - 1].segTo)
                     /\ sl.segFrom < sl.segTo
                     /\ sl.from = seg.start + sl.segFrom /\ sl.to = seg.start + sl.segTo
                     /\ sl.chunk + 1 \in DOMAIN sizes
                     /\ ChunkStart(sl.chunk + 1) <= sl.from /\ sl.to <= ChunkEnd(sl.chunk + 1)

\* A storage message counts as stored exactly the chunks all of whose bytes are in
\* stored segments, however a chunk was spread over them.
ReportIsTrue ==
    /\ pc # "closed" =>
         report.stored <= Cardinality({i \in DOMAIN sizes : ChunkEnd(i) <= StoredEnd})
    /\ pc = "receive" /\ KeepsAudio =>
         /\ report.received = Len(sizes)
         /\ report.stored = Cardinality({i \in DOMAIN sizes : ChunkEnd(i) <= StoredEnd})

\* When a raw session that retains its audio is answered, the record holds all the
\* audio the answer is about, the part that fills no segment included, and the
\* audio is within max_audio_seconds and max_upload_bytes all along.
RecordHoldsTheAudio ==
    framing = "raw" =>
        /\ buffered <= Smaller(MaxUpload, MaxAudio)
        /\ pc = "answer" /\ KeepsAudio => StoredEnd = buffered

\* The same of every framing: the final receipt says "stored" and "the UI never
\* claims data was retained when it was not" (ADR-003).  Frames that flush releases
\* at `end` are analysed and not stored.
AnalysedAudioIsRetained == pc = "answer" /\ KeepsAudio => StoredEnd = buffered

\* Progressive updates keep pace with the audio: whenever the handler listens, the
\* last one is less than ws_max_emit_interval_seconds old, however often the answer
\* stayed the same, and there were never more of them than one per
\* ws_emit_interval_seconds.  While a language is reported, the language model was asked
\* less than the refresh interval and one update ago, even when the updates have backed
\* off: a caller who switches language is listened to again.  The language itself may be
\* older: an answer of "unknown" keeps the last confident one (_carry_language).
UpdatesKeepPace ==
    /\ pc = "receive" /\ buffered > 0 /\ buffered >= MinAudio =>
          buffered - lastEmitted < MaxEmitInterval
    /\ ~completed => sequence * EmitInterval <= lastEmitted
    /\ pc = "receive" /\ language # "none" =>
          buffered - checkedAt < LanguageRefresh + MaxEmitInterval

\* What is left of a session agrees with what its client was told.  One that was
\* answered is never cleaned up: its record is completed and its segments hold every
\* byte of every chunk that was released before `end`, the trailing segment's included
\* (what flush releases at `end` is another matter: see AnalysedAudioIsRetained).  One
\* that was not, whether it failed, timed out, was left or was cancelled at whatever
\* await, is cleaned up if the handler has its handle, and then nothing of it is left
\* unless the deletion failed; without a handle there is at most an empty row.  API.md
\* (line 290) says that nothing is left of it, without those two exceptions.
VerdictMatchesRecord ==
    pc = "closed" =>
        /\ verdict # "none" => (verdict = "final" <=> completed)
        /\ Enabled => (completed <=> cleanup = "none")
        /\ completed /\ Enabled => record = "stored"
        /\ completed /\ KeepsAudio => StoredEnd = Total(sizes)
        /\ cleanup = "done" => record = "deleted" /\ segments = <<>>
        /\ ~Enabled => record \in {"none", "pending"} /\ segments = <<>>

\* Every session ends, though the client may ping or send empty frames forever, go
\* silent, or leave at any moment.
SessionEnds == <>(pc = "closed")
=============================================================================
