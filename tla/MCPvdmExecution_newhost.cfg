CONSTANTS
    s0 = s0
    s1 = s1
    None = None
    Invocations = {i1, i2, i3, i4, i5, i6}
    Sources = {s1}
    Inputs = {s1}
    MaxChunks = 2
    ChunkCount <- MCChunkCount
    Malformed = {}
    Overlap = FALSE
    MayCrashAt <- BeforePublish
    HostMayBeReplaced = TRUE
    SaveMayFail = FALSE
    MaxResumeAttempts = 3
    MaxRetries = 1
SPECIFICATION ExecSpec
INVARIANTS
    SuccessIsPublished
CHECK_DEADLOCK FALSE
