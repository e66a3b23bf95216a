SPECIFICATION CrashFreeSpec
CONSTANTS
    Node = {n1, n2, n3}
    Candidate = {n1, n2}
    None = None
    MaxTerm = 2
    MaxRestarts = 0
SYMMETRY NodeSymmetry
INVARIANTS
    TypeOK
    OneVotePerTerm
    ElectionSafety
    ElectedByQuorum
PROPERTY
    StableWithinTerm
CHECK_DEADLOCK FALSE
