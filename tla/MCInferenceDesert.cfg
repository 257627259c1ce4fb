SPECIFICATION Spec
CONSTANTS
    Requests = {r1, r2}
    ModelReplicas = {m1}
    LanguageReplicas = {l1}
    NoReplica = NoReplica
    Watched = {r1}
    MaxCancels = 2
INVARIANT ThreadsAreJoined
CHECK_DEADLOCK FALSE

