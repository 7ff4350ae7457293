CONSTANTS
    Requests = {r1, r2, r3}
    Partitions = {p1, p2}
    Keys = {k1, k2}
    MaxEpoch = 3
    None = None
    Concurrent = TRUE
SPECIFICATION Spec
INVARIANTS
    TypeOK
    NoEpochBeginsEarly
    EpochIsOfACommittedJob
    OneOutputPerKey
CHECK_DEADLOCK FALSE
