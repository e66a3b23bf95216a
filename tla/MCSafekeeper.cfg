SPECIFICATION SkSpec
CONSTANTS
    Node = {n1, n2, n3}
    Candidate = {}
    None = None
    MaxTerm = 0
    MaxRestarts = 1
    Ingest = {n1}
    MaxLsn = 3
    MaxAppends = 2
    Lossy = TRUE
SYMMETRY MemberSymmetry
INVARIANTS
    SkTypeOK
    CommitFlushedByQuorum
    CommitWithinStore
    LogsAgree
    ServedOnce
CHECK_DEADLOCK FALSE
