CONSTANTS
    s1 = s1
    s2 = s2
    filtered = filtered
    malformed = malformed
    None = None
    Invocations = {i1, i2}
    Sources = {s1}
    MaxChunks = 2
    ChunkCount <- MCChunkCount
    Malformed = {}
    Overlap = TRUE
    MayCrashAt = {}
    HostMayBeReplaced = FALSE
    SaveMayFail = FALSE
SPECIFICATION Spec
SYMMETRY Symmetry
PROPERTIES
    PublishedBytesAreVerified
CHECK_DEADLOCK FALSE
