SPECIFICATION Spec
CONSTANTS
    Byte = {a, b}
    Zero = Zero
    SegSize = 2
    RingCap = 2
    Origins = {0, 3}
    MaxLsn = 4
    MaxRun = 3
    MaxCrashes = 2
    PowerLosses = TRUE
    Faults = {"write", "fsync", "meta"}
    MaxFaults = 1
    Recycling = TRUE
SYMMETRY ByteSymmetry
INVARIANTS
    TypeOK
    SegmentsHoldLog
    ReadsReturnLog
PROPERTIES
    ExactRecovery
    ImplementsDurableLog
CHECK_DEADLOCK FALSE
