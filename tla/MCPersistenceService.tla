------------------------ MODULE MCPersistenceService ------------------------
(***************************************************************************)
(* PersistenceService for TLC: one session has every interleaving that     *)
(* matters, since sessions share only the process and the mishap budget.   *)
(* The .cfg files give the constants.                                      *)
(***************************************************************************)
EXTENDS PersistenceService

-------------------------------------------------------------------------------
(***************************************************************************)
(* What the documentation says and the code does not do.                   *)
(***************************************************************************)
\* ADR-003 line 25: "Any REST or WebSocket analysis that does not complete deletes its
\* partial objects and metadata".  Here: when no store call failed and the process was
\* neither closed nor killed.
UnfinishedLeavesNothing ==
    \A s \in Sessions :
        hpc[s] = "done" /\ told[s] \in {"nothing", "error"} /\ mishaps = 0 =>
            row[s] \in {"none", "deleted"} /\ objects[s] = {}

\* ADR-003 line 25: "so an error never strands retained audio without a returned
\* analysis ID".  Here: when the failed handler's cleanup succeeded.
ErrorStrandsNoAudio ==
    \A s \in Sessions :
        hpc[s] = "done" /\ eresult[s] \in {"deleted", "missing"} => objects[s] = {}

\* API.md line 300: DELETE "immediately removes audio objects first and then metadata".
\* Here: a DELETE that answered "deleted", in any container, leaves no object behind.
DeletedMeansErased ==
    \A d \in Deleters :
        eresult[d] = "deleted" /\ hpc[target[d]] = "done" => objects[target[d]] = {}
==============================================================================
