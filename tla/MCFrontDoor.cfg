SPECIFICATION FrontSpec
CONSTANTS
    Clients = {p, a, b}
    Nobody = Nobody
    Patient = {p}
    TokenParts = 4
    Capacity = 1
    Refill = 1
    TicksPerSecond = 3
    MaxClients = 2
    MaxTime = 7
    PieceSizes = {1, 2}
    MaxUploadBytes = 2
    MultipartOverhead = 4
    MaxParts = 3
    MaxText = 1
    AudioModes = {"none", "result_and_audio"}
    Consents = {"c1", "c2"}
    BodyIdleTimeout = 1
    MaxSamples = 2
    Slack = 1
    FfmpegCut = 2
    FfmpegMost = 4
    Unit = 4
    Tags = {"iw", "en", "he", "la"}
INVARIANTS TypeOK LimitHolds PatienceIsRewarded RetainsOnlyAsAsked NoSilentTruncation
PROPERTY UploadEnds
CHECK_DEADLOCK FALSE
