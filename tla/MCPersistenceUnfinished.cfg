SPECIFICATION Spec
CONSTANTS
    Sessions = {s1}
    Deleters = {d1}
    Remote = {}
    MaxSegments = 2
    MaxMishaps = 0
INVARIANT UnfinishedLeavesNothing
CHECK_DEADLOCK FALSE
