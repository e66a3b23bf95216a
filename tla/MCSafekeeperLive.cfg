SPECIFICATION FairSkSpec
CONSTANTS
    Node = {n1, n2}
    Candidate = {n1, n2}
    None = None
    MaxTerm = 1
    MaxRestarts = 0
    Ingest = {n1, n2}
    MaxLsn = 2
    MaxAppends = 2
    Lossy = FALSE
PROPERTIES
    EveryAppendReturns
    EveryElectionReturns
CHECK_DEADLOCK FALSE
