------------------------- MODULE MCRetentionCleanup --------------------------
(***************************************************************************)
(* RetentionCleanup for TLC: three sessions, a day of two hours.  Reading  *)
(* the list and audio that cannot be deleted have nothing to do with each  *)
(* other, so a behaviour has at most one of them.                          *)
(***************************************************************************)
EXTENDS RetentionCleanup

MCInit ==
    /\ Init
    /\ page.at = "idle" =>
          ~ownsBucket /\ \A s \in Sessions : mode[s] = "result"

MCSpec == MCInit /\ [][Next]_vars /\ Fairness
==============================================================================
