SPECIFICATION FairSpec
CONSTANTS
    Block = 2
    Chunk = 3
    MaxCapture = 4
    MaxBacklog = 5
    MaxHeard = 7
INVARIANTS TypeOK OneOutcome
PROPERTIES EndClosesTheStream SessionSettles
CHECK_DEADLOCK FALSE
