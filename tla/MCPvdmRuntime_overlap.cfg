CONSTANTS
    s1 = s1
    s2 = s2
    filtered = filtered
    malformed = malformed
    None = None
    Invocations = {i1, i2, i3}
    Sources = {s1}
    MaxChunks = 2
    ChunkCount <- MCChunkCount
    Malformed = {}
    Overlap = TRUE
    MayCrashAt <- AnyPoint
    HostMayBeReplaced = FALSE
    SaveMayFail = FALSE
SPECIFICATION Spec
SYMMETRY Symmetry
INVARIANTS
    NonceBurnedOnce
    PublishedIsComplete
    ResumeSkipsOnlyVerified
PROPERTIES
    RefinesGate
CHECK_DEADLOCK FALSE
