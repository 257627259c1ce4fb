------------------------------ MODULE Deployment ------------------------------
(***************************************************************************)
(* What a deployment may configure: the limits Settings.validate           *)
(* (backend/app/config.py) and PersistenceSettings.validate                *)
(* (persistence/models.py) accept, the settings main.py derives the second *)
(* from the first with, and the lengths that the handlers compute from     *)
(* them.  StreamSession, RateLimiter and RetentionCleanup take such values *)
(* as their constants.                                                     *)
(*                                                                         *)
(* A number is a whole multiple of 1/One; a comparison refuses a NaN and   *)
(* an infinity as the code does, so none is in the model.  A name, URL or  *)
(* code stands for what validate asks of it: its length, or whether it is  *)
(* well formed.                                                            *)
(***************************************************************************)
EXTENDS Integers, Sequences

One == 1000

(* lo.0 <= x <= hi.0 *)
Within(x, lo, hi) == lo * One <= x /\ x <= hi * One

-----------------------------------------------------------------------------
(* Settings.validate, in its order. *)

ModelAccepted(s) ==
    /\ s.modelBackend \in {"ecapa", "wavlm_onnx"}
    /\ s.targetRate = 16000
    /\ s.onnxThreads > 0
    /\ s.revisionLength \in 1 .. 80

AudioAccepted(s) ==
    /\ s.maxUpload > 0 /\ s.multipartOverhead >= 0
    /\ Within(s.maxAudio, 1, 300)
    /\ One <= s.inferenceWindow /\ s.inferenceWindow <= s.maxAudio
    /\ \A least \in {s.minAudio, s.minVoiced} : One <= 10 * least /\ least <= s.maxAudio

ScoresAccepted(s) ==
    \A threshold \in {s.gender, s.genderDegraded, s.age, s.ageDegraded,
                      s.minHomogeneity, s.languageThreshold} : Within(threshold, 0, 1)

EnhancementAccepted(s) ==
    /\ s.languageBackend \in {"none", "voxlingua_ecapa"}
    /\ s.denoiseBackend \in {"none", "spectral_gate"}
    /\ Within(s.agcTarget, -60, 0) /\ Within(s.agcGain, 0, 60) /\ Within(s.agcMin, -90, 0)
    /\ Within(s.overSubtraction, 1, 4) /\ Within(s.denoiseFloor, -60, 0)
    /\ Within(s.noisePercentile, 1, 50)

ReorderAccepted(s) == s.reorderWindow \in 1 .. 256 /\ Within(s.maxLoss, 0, 1)

LanguageSettingsAccepted(s) ==
    /\ Len(s.allowlist) # 1
    /\ \A i \in DOMAIN s.allowlist :
         s.allowlist[i].alphabetic /\ s.allowlist[i].length \in 2 .. 8
    /\ 0 <= s.languageMin /\ s.languageMin <= s.languageWindow
    /\ s.languageWindow <= s.maxAudio
    /\ s.languageMargin >= One
    /\ s.languageRefresh >= 0

DegradedAccepted(s) == s.gender <= s.genderDegraded /\ s.age <= s.ageDegraded

AgeAccepted(s) ==
    /\ s.residualSigma > 0
    /\ 18 * One <= s.reliableMin /\ s.reliableMin < s.reliableMax
    /\ s.reliableMax <= 120 * One
    /\ s.extrapolationSigma >= 0
    /\ s.ensembleWindows \in 1 .. 8
    /\ One <= 2 * s.ensembleMin /\ s.ensembleMin <= s.inferenceWindow

ReplicasAccepted(s) == s.inferenceConcurrency \in 1 .. 16 /\ s.torchThreads > 0

StreamAccepted(s) ==
    /\ s.emitBackoff >= One
    /\ s.emitInterval <= s.maxEmitInterval
    /\ s.inferenceWindow <= s.analysisWindow /\ s.analysisWindow <= s.maxAudio

TimesAccepted(s) ==
    \A time \in {s.decodeTimeout, s.queueTimeout, s.emitInterval, s.maxEmitInterval,
                 s.startTimeout, s.requestIdle, s.wsIdle, s.maxSession} : time > 0

AdmissionAccepted(s) ==
    /\ s.originsWellFormed
    /\ s.requestsPerMinute > 0
    /\ 1 <= s.burst /\ s.burst <= 10000
    /\ 1 <= s.trackedClients /\ s.trackedClients <= 1000000
    /\ s.proxyHops \in 0 .. 8
    /\ 0 <= s.hstsAge /\ s.hstsAge <= 63072000

StorageAccepted(s) ==
    /\ s.retentionHours > 0 /\ s.resultDays > 0
    /\ s.storageThreads \in 1 .. 64
    /\ s.segmentSeconds > 0 /\ s.operationTimeout > 0
    /\ s.persistenceEnabled =>
         s.databaseWellFormed /\ s.endpointWellFormed /\ s.bucketNamed /\ s.credentialsNamed

Accepted(s) ==
    /\ ModelAccepted(s) /\ AudioAccepted(s) /\ ScoresAccepted(s) /\ EnhancementAccepted(s)
    /\ ReorderAccepted(s) /\ LanguageSettingsAccepted(s) /\ DegradedAccepted(s)
    /\ AgeAccepted(s) /\ ReplicasAccepted(s) /\ StreamAccepted(s) /\ TimesAccepted(s)
    /\ AdmissionAccepted(s) /\ StorageAccepted(s)

(* What a deployment that sets nothing runs with. *)
Defaults ==
    [modelBackend |-> "ecapa", targetRate |-> 16000, onnxThreads |-> 2, torchThreads |-> 2,
     revisionLength |-> 12,
     maxUpload |-> 12 * 1024 * 1024, multipartOverhead |-> 256 * 1024,
     maxAudio |-> 30 * One, inferenceWindow |-> 5 * One, decodeTimeout |-> 8 * One,
     minAudio |-> 1250, minVoiced |-> 650,
     agcTarget |-> -20 * One, agcGain |-> 20 * One, agcMin |-> -45 * One,
     denoiseBackend |-> "none", overSubtraction |-> 1500, denoiseFloor |-> -18 * One,
     noisePercentile |-> 10 * One,
     reorderWindow |-> 8, maxLoss |-> 150,
     gender |-> 600, genderDegraded |-> 750, age |-> 350, ageDegraded |-> 450,
     residualSigma |-> 10 * One, reliableMin |-> 20 * One, reliableMax |-> 70 * One,
     extrapolationSigma |-> 150,
     ensembleWindows |-> 3, ensembleMin |-> 2 * One, minHomogeneity |-> 300,
     languageBackend |-> "none", languageMin |-> 5 * One, languageWindow |-> 10 * One,
     allowlist |-> <<>>, languageThreshold |-> 500, languageMargin |-> 2 * One,
     languageRefresh |-> 3 * One,
     inferenceConcurrency |-> 1, queueTimeout |-> One,
     emitInterval |-> One, maxEmitInterval |-> 4 * One, emitBackoff |-> 1500,
     analysisWindow |-> 10 * One, startTimeout |-> 10 * One, requestIdle |-> 10 * One,
     wsIdle |-> 30 * One, maxSession |-> 120 * One, originsWellFormed |-> TRUE,
     requestsPerMinute |-> 60 * One, burst |-> 10, trackedClients |-> 10000,
     proxyHops |-> 0, hstsAge |-> 0,
     persistenceEnabled |-> FALSE, databaseWellFormed |-> TRUE, endpointWellFormed |-> TRUE,
     bucketNamed |-> TRUE, credentialsNamed |-> TRUE, createBucket |-> TRUE,
     retentionHours |-> 24, resultDays |-> 30, segmentSeconds |-> One,
     operationTimeout |-> 5 * One, storageThreads |-> 4]

-----------------------------------------------------------------------------
(* The retention settings. *)

NoLifecycle == -1

(* Whole days that cover the retention, and one more. *)
LifecycleDays(hours) == (hours + 23) \div 24 + 1

(* _build_persistence.  What it does not set keeps its default; hours are in One. *)
Persistence(s) ==
    [mode |-> IF s.persistenceEnabled THEN "result_and_audio" ELSE "none",
     databaseNamed |-> s.databaseWellFormed,
     bucketNamed |-> s.bucketNamed,
     retention |-> s.retentionHours * One,
     resultRetention |-> s.resultDays * 24 * One,
     segmentSeconds |-> s.segmentSeconds,
     commandTimeout |-> s.operationTimeout,
     operationTimeout |-> s.operationTimeout,
     workers |-> s.storageThreads,
     lifecycleDays |-> IF s.createBucket THEN LifecycleDays(s.retentionHours) ELSE NoLifecycle,
     cleanupInterval |-> 300 * One, cleanupBatch |-> 100,
     poolMin |-> 1, poolMax |-> 10,
     prefixValid |-> TRUE]

(* One minute (0.016 hours, 2 / 125) to one year. *)
RetentionAccepted(hours) == 2 * One <= 125 * hours /\ hours <= 24 * 365 * One

TimeoutAccepted(time) == One <= 10 * time /\ time <= 300 * One

CleanupAccepted(p) ==
    Within(p.cleanupInterval, 1, 86400) /\ 1 <= p.cleanupBatch /\ p.cleanupBatch <= 10000

PoolsAccepted(p) ==
    /\ 1 <= p.poolMin /\ p.poolMin <= p.poolMax /\ p.poolMax <= 100
    /\ p.workers \in 1 .. 64

LifecycleAccepted(p) ==
    p.lifecycleDays = NoLifecycle \/ (1 <= p.lifecycleDays /\ p.lifecycleDays <= 3650)

SegmentAccepted(seconds) == One <= 10 * seconds /\ seconds <= 10 * One

PersistenceAccepted(p) ==
    /\ p.mode # "none" => p.databaseNamed
    /\ p.mode = "result_and_audio" => p.bucketNamed
    /\ RetentionAccepted(p.retention) /\ RetentionAccepted(p.resultRetention)
    /\ CleanupAccepted(p) /\ SegmentAccepted(p.segmentSeconds) /\ PoolsAccepted(p)
    /\ TimeoutAccepted(p.commandTimeout) /\ TimeoutAccepted(p.operationTimeout)
    /\ LifecycleAccepted(p) /\ p.prefixValid

-----------------------------------------------------------------------------
(* Lengths.  start is a WebSocket start message that was accepted. *)

MinRate == 8000
MaxRate == 96000

StartAccepted(start) ==
    /\ start.encoding \in {"pcm_s16le", "pcm_s16be", "pcm_f32le", "mulaw", "alaw"}
    /\ start.rate \in Nat /\ MinRate <= start.rate /\ start.rate <= MaxRate
    /\ start.channels \in 1 .. 2

BytesPerSample(encoding) ==
    IF encoding = "pcm_f32le" THEN 4 ELSE IF encoding \in {"mulaw", "alaw"} THEN 1 ELSE 2

FrameBytes(start) == BytesPerSample(start.encoding) * start.channels

(* round(n / d), ties to the even neighbour. *)
Round(n, d) ==
    LET down == n \div d
    IN IF 2 * (n % d) < d \/ (2 * (n % d) = d /\ down % 2 = 0) THEN down ELSE down + 1

SegmentTarget(start, seconds) ==
    LET frame == FrameBytes(start)
        target == Round(start.rate * frame * seconds, One)
        whole == target - (target % frame)
    IN IF whole < frame THEN frame ELSE whole

(* int(seconds * rate) *)
SamplesIn(seconds, rate) == (seconds * rate) \div One

AnalysisLimit(s, start) == SamplesIn(s.analysisWindow, start.rate) * FrameBytes(start)

AnalysisOffset(n, start, limit) ==
    IF n <= limit THEN 0 ELSE (n - limit) - ((n - limit) % FrameBytes(start))

(* The bytes of the buffer a progressive update analyses. *)
ProgressivePayload(s, n, start) == n - AnalysisOffset(n, start, AnalysisLimit(s, start))

(* The samples the language model sees, of n decoded ones; 0: it is not asked. *)
LanguageWindow(s, n) ==
    LET limit == SamplesIn(s.languageWindow, s.targetRate) IN IF n <= limit THEN n ELSE limit

LanguageSamples(s, n) ==
    LET window == LanguageWindow(s, n)
    IN IF window < SamplesIn(s.languageMin, s.targetRate) THEN 0 ELSE window
==============================================================================
