---------------------------- MODULE MCFrontDoor -----------------------------
(***************************************************************************)
(* The two things every POST /analyze passes, for TLC: the rate limiter,   *)
(* over several clients, and the reading of one admitted body.  They share *)
(* no state, so a behaviour follows one of them and the other stands       *)
(* still; their product would hold nothing new.                            *)
(***************************************************************************)
EXTENDS RateLimiter, RestUpload, PolicyExamples

VARIABLE subject   \* which of the two this behaviour follows

frontVars == <<subject, limiterVars, uploadVars>>

FrontInit ==
    /\ LimiterInit /\ UploadInit
    /\ subject \in {"limiter", "upload"}
    /\ subject = "limiter" => headers = NoPolicy

Limiting == subject = "limiter" /\ LimiterNext /\ UNCHANGED <<subject, uploadVars>>
Sending == subject = "upload" /\ UploadClient /\ UNCHANGED <<subject, limiterVars>>
Serving == subject = "upload" /\ UploadServer /\ UNCHANGED <<subject, limiterVars>>

FrontNext == Limiting \/ Sending \/ Serving

FrontSpec == FrontInit /\ [][FrontNext]_frontVars /\ WF_frontVars(Serving)

TypeOK == LimiterTypeOK /\ UploadTypeOK
==============================================================================
