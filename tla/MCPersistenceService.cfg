SPECIFICATION FairSpec
CONSTANTS
    Sessions = {s1}
    Deleters = {d1, d2}
    Remote = {}
    MaxSegments = 2
    MaxMishaps = 2
INVARIANTS TypeOK EveryObjectOwned RetainedIntact ErasedMeansGone HandlerExcludesErase
PROPERTIES ErasureIsFinal CleanupHappens ImplementsContract
CHECK_DEADLOCK FALSE
