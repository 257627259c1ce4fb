---------------------------- MODULE MCLiveSession -----------------------------
(* LiveSession for TLC: a few samples; a block of the worklet is less than a chunk. *)
EXTENDS LiveSession
==============================================================================
