SPECIFICATION MCSpec
CONSTANTS
    Sessions = {1, 2, 3}
    Workers = {w1}
    Modes = {"result", "result_and_audio"}
    AudioHours = 1
    ResultHours = 2
    Day = 2
    Interval = 1
    BatchSize = 2
    PageSize = 1
    LastStart = 1
    MaxTime = 5
    MaxFaults = 1
INVARIANTS TypeOK RetainedUntilExpiry PagesMissNothing
PROPERTY ExpiryHappens
CHECK_DEADLOCK FALSE
