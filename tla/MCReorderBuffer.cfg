SPECIFICATION FairSpec
CONSTANTS
    Window = 2
    MaxRepeatFrames = 1
    SequenceNumbers <- MCSequenceNumbers
    PayloadSizes = {0, 2}
    MaxPushes = 5
INVARIANTS TypeOK EveryFrameInItsSlot WindowIsKept LossIsConcealed
PROPERTY LoopsEnd
CHECK_DEADLOCK FALSE
