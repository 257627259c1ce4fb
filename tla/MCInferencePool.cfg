SPECIFICATION FairSpec
CONSTANTS
    Requests = {r1, r2, r3}
    ModelReplicas = {m1}
    LanguageReplicas = {l1}
    NoReplica = NoReplica
    Watched = {r1}
    MaxCancels = 2
INVARIANTS TypeOK EveryReplicaAccounted NoLostWakeup WorkersAreJoined DecodedAudioWiped
PROPERTY AnalysesEnd
CHECK_DEADLOCK FALSE
