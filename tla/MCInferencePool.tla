--------------------------- MODULE MCInferencePool ---------------------------
(***************************************************************************)
(* InferencePool for TLC: three requests compete for the one replica of    *)
(* each pool, so two of them can wait for the third.                       *)
(***************************************************************************)
EXTENDS InferencePool
==============================================================================
