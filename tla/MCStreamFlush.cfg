SPECIFICATION Spec
CONSTANTS
    Framings = {"raw", "seq32"}
    Modes = {"none", "result_and_audio"}
    ChunkSizes = {0, 1, 3}
    Window = 1
    MaxUpload = 6
    MaxAudio = 5
    MinAudio = 1
    SegmentTarget = 2
    EmitInterval = 1
    MaxEmitInterval = 2
    EmitBackoff = 3
    Labels = {"a", "b"}
    Languages = {"en"}
    LanguageRefresh = 2
    StartTimeout = 1
    IdleTimeout = 1
    MaxSession = 2
CHECK_DEADLOCK FALSE
INVARIANT AnalysedAudioIsRetained
