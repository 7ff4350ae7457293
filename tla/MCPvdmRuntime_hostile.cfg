CONSTANTS
    s1 = s1
    s2 = s2
    filtered = filtered
    malformed = malformed
    None = None
    Invocations = {i1, i2}
    Sources = {s1, s2, filtered, malformed}
    MaxChunks = 2
    ChunkCount <- MCChunkCount
    Malformed = {malformed}
    Overlap = TRUE
    MayCrashAt <- AnyPoint
    HostMayBeReplaced = TRUE
    SaveMayFail = TRUE
SPECIFICATION Spec
SYMMETRY Symmetry
INVARIANTS
    TypeOK
    PublishedIsVerified
    BurnedOnlyAfterPublish
    CommittedNamesASnapshot
PROPERTIES
    RefinesGate
CHECK_DEADLOCK FALSE
