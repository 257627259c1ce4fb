-------------------------- MODULE RetentionContract --------------------------
(***************************************************************************)
(* What opted-in retention promises about one analysis, with no storage    *)
(* protocol in sight (backend/docs/ADR-003-opt-in-persistence.md, section  *)
(* "Failure, deletion, and retention").                                    *)
(*                                                                         *)
(* An analysis is absent, then recording; it is either retained in one     *)
(* step, with a manifest whose audio is all playable, or erased.  Once it  *)
(* is retained nothing but an erasure touches its audio, an erasure        *)
(* removes the audio before the record, an analysis under erasure can no   *)
(* longer become retained, and an erased analysis never comes back.  A     *)
(* caller is told "stored" only about an analysis that was retained.       *)
(* PersistenceService implements this module; see Contract there.          *)
(***************************************************************************)
CONSTANTS Sessions,     \* the analyses, by session id
          Segments      \* the physical audio segments one analysis may have

VARIABLES phase,        \* [Sessions -> {"absent", "recording", "retained", "erasing", "erased"}]
          manifest,     \* the segments a retained record lists
          playable,     \* those of them whose audio can be read
          acknowledged  \* the sessions whose caller was told "stored"

vars == <<phase, manifest, playable, acknowledged>>

Init ==
    /\ phase = [s \in Sessions |-> "absent"]
    /\ manifest = [s \in Sessions |-> {}]
    /\ playable = [s \in Sessions |-> {}]
    /\ acknowledged = {}

Open(s) ==
    /\ phase[s] = "absent"
    /\ phase' = [phase EXCEPT ![s] = "recording"]
    /\ UNCHANGED <<manifest, playable, acknowledged>>

Retain(s) ==
    /\ phase[s] = "recording"
    /\ phase' = [phase EXCEPT ![s] = "retained"]
    /\ \E m \in SUBSET Segments :
          /\ manifest' = [manifest EXCEPT ![s] = m]
          /\ playable' = [playable EXCEPT ![s] = m]
    /\ UNCHANGED acknowledged

Acknowledge(s) ==
    /\ phase[s] \in {"retained", "erasing", "erased"}
    /\ acknowledged' = acknowledged \cup {s}
    /\ UNCHANGED <<phase, manifest, playable>>

StartErase(s) ==
    /\ phase[s] \in {"recording", "retained"}
    /\ phase' = [phase EXCEPT ![s] = "erasing"]
    /\ UNCHANGED <<manifest, playable, acknowledged>>

RemoveAudio(s) ==
    /\ phase[s] = "erasing"
    /\ \E kept \in SUBSET playable[s] : playable' = [playable EXCEPT ![s] = kept]
    /\ UNCHANGED <<phase, manifest, acknowledged>>

RemoveRecord(s) ==
    /\ phase[s] = "erasing"
    /\ playable[s] = {}
    /\ phase' = [phase EXCEPT ![s] = "erased"]
    /\ manifest' = [manifest EXCEPT ![s] = {}]
    /\ UNCHANGED <<playable, acknowledged>>

Next ==
    \E s \in Sessions :
        \/ Open(s) \/ Retain(s) \/ Acknowledge(s)
        \/ StartErase(s) \/ RemoveAudio(s) \/ RemoveRecord(s)

Spec == Init /\ [][Next]_vars
==============================================================================
