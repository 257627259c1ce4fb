SPECIFICATION Spec
CONSTANTS
    Sessions = {s1}
    Deleters = {d1}
    Remote = {}
    MaxSegments = 2
    MaxMishaps = 1
INVARIANT ErrorStrandsNoAudio
CHECK_DEADLOCK FALSE
