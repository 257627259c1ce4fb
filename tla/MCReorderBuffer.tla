--------------------------- MODULE MCReorderBuffer ---------------------------
(***************************************************************************)
(* ReorderBuffer for TLC: gaps longer than the repeats and the window,     *)
(* duplicates, late frames and empty payloads all fit in these bounds.     *)
(***************************************************************************)
EXTENDS ReorderBuffer

MCSequenceNumbers == 0 .. 6
==============================================================================
