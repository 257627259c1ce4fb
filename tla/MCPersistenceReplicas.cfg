SPECIFICATION Spec
CONSTANTS
    Sessions = {s1}
    Deleters = {d1}
    Remote = {d1}
    MaxSegments = 2
    MaxMishaps = 0
INVARIANT DeletedMeansErased
CHECK_DEADLOCK FALSE
