---------------------------- MODULE PolicyExamples ----------------------------
(***************************************************************************)
(* Bounded checks of the pure operators, which TLC evaluates before a run: *)
(* that the assumptions of the theorems about them can be met, and that a  *)
(* definition agrees with a second one written another way.                *)
(***************************************************************************)
EXTENDS AnswerPolicy, Deployment
LOCAL INSTANCE TLC

(* The shipped settings are accepted, and so is what is derived from them. *)
ASSUME ShippedSettingsStart ==
    \A enabled \in BOOLEAN :
      LET s == [Defaults EXCEPT !.persistenceEnabled = enabled]
      IN Accepted(s) /\ PersistenceAccepted(Persistence(s))

(* Accepted settings can be refused later: a year and a day, or a segment of 20 s. *)
ASSUME SomeAcceptedSettingsDoNotStart ==
    \A s \in {[Defaults EXCEPT !.retentionHours = 24 * 366],
              [Defaults EXCEPT !.segmentSeconds = 20 * One]} :
      Accepted(s) /\ ~PersistenceAccepted(Persistence(s))

(* One hour, one day and one hour more; G.711 at 8 kHz and stereo float at 44.1 kHz. *)
ASSUME SomeLengths ==
    /\ <<LifecycleDays(1), LifecycleDays(24), LifecycleDays(25)>> = <<2, 2, 3>>
    /\ SegmentTarget([encoding |-> "mulaw", rate |-> 8000, channels |-> 1], One) = 8000
    /\ SegmentTarget([encoding |-> "pcm_f32le", rate |-> 44100, channels |-> 2], 333) = 117480

(* decide_language with its list of candidates sorted, as the code has it. *)
BySorting(s, p, labels) ==
    LET candidates == SelectSeq([i \in 1 .. Len(labels) |-> i],
                                LAMBDA i : i \in Candidates(labels, s.allowed))
        ranked == SortSeq(candidates, LAMBDA i, j : p[i] > p[j] \/ (p[i] = p[j] /\ i < j))
        evidence == IF s.allowed = {} THEN p[ranked[1]]
                    ELSE MapThenSumSet(LAMBDA i : p[i], {candidates[i] : i \in DOMAIN candidates})
    IN IF \/ Len(candidates) < 2
          \/ ParseCode(labels[ranked[1]]) = Unknown
          \/ evidence < s.languageThreshold
          \/ p[ranked[1]] * Unit < s.margin * p[ranked[2]]
       THEN Silent
       ELSE [prediction |-> ParseCode(labels[ranked[1]]), part |-> p[ranked[1]], whole |-> Unit]

ASSUME ChoiceIsRanking ==
    \A p \in [1 .. 3 -> 0 .. 3], third \in {"la", "??"},
       allowed \in {{}, {"en", "he"}, {"en", "la"}}, threshold \in {0, 2, 4}, margin \in {4, 8} :
      LET s == [allowed |-> allowed, languageThreshold |-> threshold, margin |-> margin]
          labels == <<"iw", "en", third>>
      IN DecideLanguage(s, p, labels) = BySorting(s, p, labels)

(* The shipped thresholds are ones that the theorems speak of. *)
ASSUME ShippedThresholds ==
    /\ DegradedAccepted(Defaults) /\ ScoresAccepted(Defaults)
    /\ 2 * Defaults.gender > One
===============================================================================
