---------------------------- MODULE AnswerPolicy -----------------------------
(***************************************************************************)
(* What an analysis may say, given what the models scored: the quality     *)
(* label (backend/app/audio/quality.py), the thresholds and labels of      *)
(* postprocess.py and the choice of a language (models/language.py).       *)
(*                                                                         *)
(* All of it is pure, so the module holds operators only.  Numbers are     *)
(* whole multiples of 1/Unit: a threshold of 1.0 is Unit, one year of age  *)
(* is Unit.  A score that is negative, zero or no number is one <= 0.  A   *)
(* confidence is kept as the pair it is the quotient of, part and whole.   *)
(***************************************************************************)
EXTENDS Integers, Sequences, FiniteSets, FiniteSetsExt

CONSTANTS Unit,   \* what 1.0 is
          Tags    \* the labels of the language model that name a language
ASSUME UnitAssumption == Unit \in Nat \ {0}

Unknown == "unknown"

-----------------------------------------------------------------------------
(* The quality of the audio. *)

NarrowbandEncodings == {"alaw", "amr_nb", "g723_1", "gsm", "gsm_ms",
                        "mulaw", "pcm_alaw", "pcm_mulaw"}

Narrowband(source) == source.rate <= 8000 \/ source.encoding \in NarrowbandEncodings
QualityLimited(source) == Narrowband(source) \/ source.forced

(* The call's own share: audio of unknown origin, or rebuilt over too many gaps. *)
Forced(known, transportDegraded) == ~known \/ transportDegraded
TransportDegraded(framed, received, lost, s) ==
    framed /\ lost * Unit > s.maxLoss * (received + lost)

(* Hundredths(x, n): x, a multiple of 1/Unit, is n hundredths or more. *)
Hundredths(x, n) == 100 * x >= n * Unit

QualityLabel(s, q, source) ==
    IF \/ q.duration < s.minAudio \/ q.voiced < s.minVoiced
       \/ ~Hundredths(q.speech, 8) \/ q.rms < -48 * Unit
    THEN "insufficient"
    ELSE IF \/ q.duration < 2 * Unit \/ ~Hundredths(q.speech, 22)
            \/ q.snr < 8 * Unit \/ 100 * q.clipping > 2 * Unit
            \/ 100 * q.low > 55 * Unit \/ QualityLimited(source)
         THEN "degraded" ELSE "good"

(* Sub-windows that disagree about the speaker; Unit where there was one only. *)
SpeakerIsDoubtful(s, raw) == raw.homogeneity < s.minHomogeneity

EffectiveQuality(s, label, raw) ==
    IF label = "good" /\ SpeakerIsDoubtful(s, raw) THEN "degraded" ELSE label

-----------------------------------------------------------------------------
(* Gender and age. *)

Thresholds(s, quality) ==
    IF quality = "degraded" THEN [gender |-> s.genderDegraded, age |-> s.ageDegraded]
                            ELSE [gender |-> s.gender, age |-> s.age]

(* What Settings.validate accepts of them. *)
ThresholdsAccepted(s) ==
    /\ {s.gender, s.genderDegraded, s.age, s.ageDegraded, s.minHomogeneity} \subseteq 0 .. Unit
    /\ s.gender <= s.genderDegraded
    /\ s.age <= s.ageDegraded

ValidScore(v) == IF v > 0 THEN v ELSE 0

Silent == [prediction |-> Unknown, part |-> 0, whole |-> Unit]

(* part / whole < threshold withholds the label; an empty whole has confidence 0. *)
Said(label, part, whole, threshold) ==
    IF (IF whole = 0 THEN 0 < threshold ELSE part * Unit < threshold * whole)
    THEN Silent
    ELSE [prediction |-> label, part |-> part, whole |-> whole]

Gender(raw, threshold) ==
    LET female == ValidScore(raw.female)
        male == ValidScore(raw.male)
    IN IF female >= male THEN Said("female", female, female + male, threshold)
                         ELSE Said("male", male, female + male, threshold)

Brackets == <<"18-30", "31-45", "46-60", "60+">>
From == <<18, 31, 46, 60>>
MaxPlausibleAge == 120

AgeToBracket(age) ==
    IF age < 18 * Unit \/ age > MaxPlausibleAge * Unit THEN Unknown
    ELSE Brackets[Max({i \in 1 .. 4 : From[i] * Unit <= age})]

(* The first bracket whose score none exceeds. *)
Leads(scores, i) ==
    \A j \in 1 .. 4 : scores[j] < scores[i] \/ (scores[j] = scores[i] /\ i <= j)

DirectAge(brackets, threshold) ==
    LET scores == [i \in 1 .. 4 |-> ValidScore(brackets[i])]
        whole == scores[1] + scores[2] + scores[3] + scores[4]
        best == CHOOSE i \in 1 .. 4 : Leads(scores, i)
    IN IF whole = 0 THEN Silent ELSE Said(Brackets[best], scores[best], whole, threshold)

(* raw.mass is the probability age_bracket_confidence gives the bracket. *)
RegressionAge(raw, threshold) ==
    LET label == AgeToBracket(raw.age)
    IN IF label = Unknown THEN Silent ELSE Said(label, raw.mass, Unit, threshold)

NoBrackets == <<>>

Answer(s, label, raw) ==
    IF label = "insufficient"
    THEN [gender |-> Silent, age |-> Silent, quality |-> label]
    ELSE LET quality == EffectiveQuality(s, label, raw)
             threshold == Thresholds(s, quality)
         IN [gender |-> Gender(raw, threshold.gender),
             age |-> IF raw.brackets # NoBrackets
                     THEN DirectAge(raw.brackets, threshold.age)
                     ELSE RegressionAge(raw, threshold.age),
             quality |-> quality]

-----------------------------------------------------------------------------
(* Language. *)

LegacyCodes == [iw |-> "he", jw |-> "jv", in |-> "id", ji |-> "yi"]

ParseCode(label) ==
    IF label \notin Tags THEN Unknown
    ELSE IF label \in DOMAIN LegacyCodes THEN LegacyCodes[label] ELSE label

Candidates(labels, allowed) ==
    {i \in 1 .. Len(labels) : allowed = {} \/ ParseCode(labels[i]) \in allowed}

(* sorted(..., reverse=True) keeps the order of equals. *)
RanksFirst(p, among, i) ==
    /\ i \in among
    /\ \A j \in among : p[j] < p[i] \/ (p[j] = p[i] /\ i <= j)

(* Enough of the posterior for what is asked of it. *)
EnoughEvidence(s, p, among, i) ==
    s.languageThreshold <=
        (IF s.allowed = {} THEN p[i] ELSE MapThenSumSet(LAMBDA j : p[j], among))

(* The winners: the first-ranked candidate, when nothing speaks against it.  It   *)
(* leads the runner-up by the margin when it leads every other one by the margin. *)
Winners(s, p, labels) ==
    LET among == Candidates(labels, s.allowed)
    IN {i \in among :
          /\ RanksFirst(p, among, i)
          /\ ParseCode(labels[i]) # Unknown
          /\ EnoughEvidence(s, p, among, i)
          /\ \A j \in among \ {i} : p[i] * Unit >= s.margin * p[j]}

DecideLanguage(s, p, labels) ==
    IF \/ Len(p) < 2 \/ Len(p) # Len(labels)
       \/ Cardinality(Candidates(labels, s.allowed)) < 2
       \/ Winners(s, p, labels) = {}
    THEN Silent
    ELSE LET best == CHOOSE i \in Winners(s, p, labels) : TRUE
         IN [prediction |-> ParseCode(labels[best]), part |-> p[best], whole |-> Unit]

(* What Settings.validate accepts. *)
LanguageAccepted(s) == s.languageThreshold \in 0 .. Unit /\ s.margin >= Unit
==============================================================================
