----------------------------- MODULE RestUpload ------------------------------
(***************************************************************************)
(* One POST /analyze, from the first byte of its body to the samples the   *)
(* model sees: ingest_request and the multipart sink                       *)
(* (backend/app/audio/ingest.py), the retention policy and the finally     *)
(* clause of the handler (main.py), and AudioDecoder.decode                *)
(* (audio/decoder.py).                                                     *)
(*                                                                         *)
(* The body comes in pieces whose sizes the client chooses.  A multipart   *)
(* piece is one thing the parser calls back for: a part's header block,    *)
(* some of its data, its end.  Text is its length and, at the end of the   *)
(* part, its value.  Retention itself and the replicas are the subject of  *)
(* PersistenceService and InferencePool: here the analysis is one step.    *)
(***************************************************************************)
EXTENDS Integers, FiniteSets

CONSTANTS PieceSizes,      \* lengths a piece of the body may have
          MaxUploadBytes,  \* max_upload_bytes
          MultipartOverhead, \* multipart_overhead_bytes
          MaxParts,        \* 8 in on_part_begin
          MaxText,         \* 256 in on_part_data
          AudioModes,      \* the retention modes, of {"none", "result", "result_and_audio"}
          Consents,        \* consent references
          BodyIdleTimeout, \* request_idle_timeout_seconds
          MaxSamples,      \* max_audio_seconds, in the decoder's unit of length
          Slack,           \* the 0.05 s decode allows beyond it,
          FfmpegCut,       \* the 0.1 s ffmpeg's -t allows,
          FfmpegMost       \* and the 0.2 s its output may have
ASSUME UploadAssumption ==
    /\ PieceSizes \subseteq Nat \ {0}
    /\ {MaxUploadBytes, MaxParts, BodyIdleTimeout, MaxSamples} \subseteq Nat \ {0}
    /\ {MultipartOverhead, MaxText} \subseteq Nat
    /\ Slack \in Nat /\ FfmpegCut \in Nat /\ FfmpegMost \in Nat
    /\ Slack < FfmpegCut /\ FfmpegCut < FfmpegMost
    /\ "absent" \notin AudioModes \cup Consents

VARIABLES
    rpc,          \* where the request is
    kind,         \* "raw" or "multipart"
    headers,      \* what the request's headers say: [mode, consent]
    received,     \* bytes of the body so far
    audio,        \* len of the audio buffer
    field,        \* current_field: "audio", a text field, "other", or "none" between parts
    text,         \* len(current_text)
    fields,       \* the text fields: a value, or "absent"
    parts, audioParts,   \* part_count, audio_parts
    silence,      \* time since the last piece
    policy,       \* the retention that was settled: [mode, consent]
    samples,      \* the decoded length
    said,         \* history: every value the client gave for a text field
    original      \* history: how long the audio in the body was

body == <<received, audio, field, text, fields, parts, audioParts, said>>
uploadVars == <<rpc, kind, headers, body, silence, policy, samples, original>>

TextFields == {"persistence_mode", "consent_reference"}
ValuesOf(f) == IF f = "persistence_mode" THEN AudioModes ELSE Consents
NoPolicy == [mode |-> "absent", consent |-> "absent"]

UploadInit ==
    /\ rpc = "arrived" /\ kind = "raw"
    /\ headers \in [mode : AudioModes \cup {"absent"}, consent : Consents \cup {"absent"}]
    /\ received = 0 /\ audio = 0 /\ field = "none" /\ text = 0
    /\ fields = [f \in TextFields |-> "absent"]
    /\ parts = 0 /\ audioParts = 0 /\ silence = 0
    /\ said = [f \in TextFields |-> {}]
    /\ policy = NoPolicy
    /\ samples = 0 /\ original = 0

-------------------------------------------------------------------------------
\* An exception in the body loop, whose except clause wipes what was read.
Reject ==
    /\ rpc' = "rejected" /\ audio' = 0
    /\ UNCHANGED <<kind, headers, received, field, text, fields, parts, audioParts, said,
                   silence, policy, samples, original>>

\* The media type, the Content-Length header and the boundary, before a byte is read.
Turned ==
    /\ rpc = "arrived"
    /\ rpc' = "rejected"
    /\ UNCHANGED <<kind, headers, body, silence, policy, samples, original>>

Begin(k) ==
    /\ rpc = "arrived"
    /\ rpc' = "reading" /\ kind' = k
    /\ UNCHANGED <<headers, body, silence, policy, samples, original>>

Reading(k) == rpc = "reading" /\ kind = k

Limit == IF kind = "raw" THEN MaxUploadBytes ELSE MaxUploadBytes + MultipartOverhead

RawPiece(n) ==
    /\ Reading("raw")
    /\ IF audio + n > Limit THEN Reject
       ELSE /\ audio' = audio + n /\ received' = received + n /\ silence' = 0
            /\ UNCHANGED <<rpc, kind, headers, field, text, fields, parts, audioParts, said,
                           policy, samples, original>>

\* Mutant of Counted: only what lands in the audio buffer counts.
Counted_AudioOnly(n) == IF field = "audio" THEN received + n ELSE received

\* The whole body counts, whatever part it belongs to.
Counted(n) == received + n

\* on_part_begin to on_headers_finished of a part for field f, in n bytes.
PartHead(f, n) ==
    /\ Reading("multipart") /\ field = "none"
    /\ IF \/ Counted(n) > Limit
          \/ parts + 1 > MaxParts                                  \* TOO_MANY_PARTS
          \/ f = "audio" /\ audioParts = 1                         \* MULTIPLE_AUDIO_PARTS
       THEN Reject
       ELSE /\ received' = Counted(n) /\ silence' = 0
            /\ field' = f /\ text' = 0
            /\ parts' = parts + 1
            /\ audioParts' = IF f = "audio" THEN audioParts + 1 ELSE audioParts
            /\ UNCHANGED <<rpc, kind, headers, audio, fields, said, policy, samples, original>>

\* on_part_data; the data of an unknown field is skipped.
PartData(n) ==
    /\ Reading("multipart") /\ field # "none"
    /\ IF \/ Counted(n) > Limit
          \/ field = "audio" /\ audio + n > MaxUploadBytes
          \/ field \in TextFields /\ text + n > MaxText            \* INVALID_FORM_FIELD
       THEN Reject
       ELSE /\ received' = Counted(n) /\ silence' = 0
            /\ audio' = IF field = "audio" THEN audio + n ELSE audio
            /\ text' = IF field \in TextFields THEN text + n ELSE text
            /\ UNCHANGED <<rpc, kind, headers, field, fields, parts, audioParts, said,
                           policy, samples, original>>

\* Mutant of Repeated: a second value replaces the first.
Repeated_LastWins(f) == FALSE

\* Only a field that got a value counts as provided.
Repeated(f) == fields[f] # "absent"

\* on_part_end; v is what a text part says, "absent" if that is blank.
PartEnd(v) ==
    /\ Reading("multipart") /\ field # "none"
    /\ field \in TextFields => v \in ValuesOf(field) \cup {"absent"} /\ (text = 0 => v = "absent")
    /\ field \notin TextFields => v = "absent"
    /\ IF field \in TextFields /\ Repeated(field) THEN Reject      \* DUPLICATE_FORM_FIELD
       ELSE /\ fields' = IF v # "absent" THEN [fields EXCEPT ![field] = v] ELSE fields
            /\ said' = IF v # "absent" THEN [said EXCEPT ![field] = @ \cup {v}] ELSE said
            /\ field' = "none" /\ text' = 0
            /\ UNCHANGED <<rpc, kind, headers, received, audio, parts, audioParts, silence,
                           policy, samples, original>>

\* A malformed header block, a value that is not UTF-8, or the client's departure.
Broken == rpc = "reading" /\ Reject

\* The body ends.  finalize of python-multipart accepts one that ends inside a part.
EndBody ==
    /\ rpc = "reading"
    /\ IF audio = 0
       THEN Reject                                                 \* MISSING_AUDIO
       ELSE /\ rpc' = "read"
            /\ UNCHANGED <<kind, headers, body, silence, policy, samples, original>>

Wait ==
    /\ rpc = "reading" /\ silence < BodyIdleTimeout
    /\ silence' = silence + 1
    /\ UNCHANGED <<rpc, kind, headers, body, policy, samples, original>>

\* REQUEST_BODY_TIMEOUT.
BodyTimeout == rpc = "reading" /\ silence = BodyIdleTimeout /\ Reject

\* The server cancels the request: `except Exception` does not see that.
CancelReading ==
    /\ rpc = "reading"
    /\ rpc' = "cancelled"
    /\ UNCHANGED <<kind, headers, body, silence, policy, samples, original>>

-------------------------------------------------------------------------------
(* The handler: everything from here on is inside its try. *)

\* Its finally clause wipes the payload.
Over ==
    /\ rpc' = "over" /\ audio' = 0
    /\ UNCHANGED <<received, field, text, fields, parts, audioParts, said>>

\* What the two places a client may state a setting in say.
Sources(h, f) == {h, f} \ {"absent"}

ModesSaid == Sources(headers.mode, fields["persistence_mode"])
ConsentsSaid == Sources(headers.consent, fields["consent_reference"])
Chosen(values, default) == IF values = {} THEN default ELSE CHOOSE v \in values : TRUE

\* _request_retention_policy.
Conflict == Cardinality(ModesSaid) > 1 \/ Cardinality(ConsentsSaid) > 1

Unconsented(mode) == mode = "result_and_audio" /\ ConsentsSaid = {}

Settle ==
    /\ rpc = "read"
    /\ IF Conflict \/ Unconsented(Chosen(ModesSaid, "none"))
       THEN Over /\ UNCHANGED policy
       ELSE /\ policy' = [mode |-> Chosen(ModesSaid, "none"), consent |-> Chosen(ConsentsSaid, "absent")]
            /\ rpc' = "decode" /\ UNCHANGED body
    /\ UNCHANGED <<kind, headers, silence, samples, original>>

\* resolve_contact_id or source_spec_from_values raises, the storage call or the
\* analysis fails, or the request is cancelled.
Fails ==
    /\ rpc \in {"read", "decode", "ffmpeg", "check"}
    /\ Over
    /\ UNCHANGED <<kind, headers, silence, policy, samples, original>>

\* decode of a WAV, PCM or G.711 payload that holds n samples.
DecodeDirect(n) ==
    /\ rpc = "decode"
    /\ original' = n /\ samples' = n
    /\ rpc' = "check"
    /\ UNCHANGED <<kind, headers, body, silence, policy>>

\* A container, or a WAV that _decode_wav cannot parse.
DecodeContainer(n) ==
    /\ rpc = "decode"
    /\ original' = n
    /\ rpc' = "ffmpeg"
    /\ UNCHANGED <<kind, headers, body, silence, policy, samples>>

\* Mutant of Cut: ffmpeg stops at the limit itself.
Cut_AtLimit == MaxSamples

\* Where ffmpeg's -t stops it: past what the check lets through.
Cut == MaxSamples + FfmpegCut

\* _decode_with_ffmpeg: cut short, and refused if empty or longer than the most there may be.
Ffmpeg ==
    /\ rpc = "ffmpeg"
    /\ samples' = IF original < Cut THEN original ELSE Cut
    /\ IF samples' = 0 \/ samples' > MaxSamples + FfmpegMost
       THEN Over
       ELSE rpc' = "check" /\ UNCHANGED body
    /\ UNCHANGED <<kind, headers, silence, policy, original>>

\* The limits of decode, then the analysis of what passes them.
Check ==
    /\ rpc = "check"
    /\ IF samples > MaxSamples + Slack \/ samples = 0
       THEN Over
       ELSE rpc' = "analyze" /\ UNCHANGED body
    /\ UNCHANGED <<kind, headers, silence, policy, samples, original>>

Return ==
    /\ rpc = "analyze"
    /\ Over
    /\ UNCHANGED <<kind, headers, silence, policy, samples, original>>

UploadClient ==
    \/ \E k \in {"raw", "multipart"} : Begin(k)
    \/ \E n \in PieceSizes :
         \/ RawPiece(n) \/ PartData(n)
         \/ \E f \in TextFields \cup {"audio", "other"} : PartHead(f, n)
    \/ \E v \in AudioModes \cup Consents \cup {"absent"} : PartEnd(v)
    \/ Turned \/ Broken \/ EndBody \/ CancelReading

UploadServer ==
    \/ Wait \/ BodyTimeout
    \/ Settle \/ Fails
    \/ \E n \in 0..MaxSamples + FfmpegMost + 1 : DecodeDirect(n) \/ DecodeContainer(n)
    \/ Ffmpeg \/ Check \/ Return

UploadNext == UploadClient \/ UploadServer

\* The event loop runs the handler, time passes, and decode and the analysis end:
\* decode has its timeout, and InferencePool is about the rest.
UploadSpec == UploadInit /\ [][UploadNext]_uploadVars /\ WF_uploadVars(UploadServer)

-------------------------------------------------------------------------------
UploadTypeOK ==
    /\ rpc \in {"arrived", "reading", "rejected", "cancelled", "read", "decode", "ffmpeg", "check",
                "analyze", "over"}
    /\ kind \in {"raw", "multipart"}
    /\ received \in 0..MaxUploadBytes + MultipartOverhead
    /\ audio \in 0..MaxUploadBytes /\ audio <= received
    /\ field \in TextFields \cup {"audio", "other", "none"}
    /\ text \in 0..MaxText /\ parts \in 0..MaxParts /\ audioParts \in 0..1
    /\ \A f \in TextFields : fields[f] \in ValuesOf(f) \cup {"absent"} /\ said[f] \subseteq ValuesOf(f)
    /\ silence \in 0..BodyIdleTimeout
    /\ samples \in Nat /\ original \in Nat
    /\ rpc \in {"rejected", "over"} => audio = 0
    /\ rpc \in {"read", "decode", "ffmpeg", "check", "analyze"} => audio > 0

\* The retention a request gets is the one every place that states it states, headers
\* and every part of the body alike, and audio is retained only with a consent
\* reference the client gave.
RetainsOnlyAsAsked ==
    policy # NoPolicy =>
        /\ {headers.mode} \cup said["persistence_mode"] \subseteq {"absent", policy.mode}
        /\ {headers.consent} \cup said["consent_reference"] \subseteq {"absent", policy.consent}
        /\ policy.mode = "result_and_audio" => policy.consent # "absent"
        /\ policy.mode \notin {headers.mode, "none"} => policy.mode \in said["persistence_mode"]

\* What is analysed is all the audio that was sent: ffmpeg's own cut lies beyond what
\* the duration check lets through, so a recording that is too long is refused and
\* never analysed as if its beginning were all of it.
NoSilentTruncation ==
    rpc = "analyze" => samples = original /\ samples \in 1..MaxSamples + Slack

\* Every request whose body is being read ends, though the client may send it in any
\* pieces, into parts nobody reads, or stop sending: each piece counts against the
\* limit and silence against the idle timeout.
UploadEnds == rpc = "reading" ~> rpc \in {"rejected", "cancelled", "over"}
==============================================================================
