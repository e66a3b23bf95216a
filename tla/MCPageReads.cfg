SPECIFICATION PrSpec
CONSTANTS
    Timeline = {"main", "dev", "feature"}
    Roots = {"main"}
    Branches <- Chain
    None = None
    Reattached = FALSE
    Read = {"feature"}
    MaxBlock = 0
    MaxLsn = 3
    MaxRecords = 3
    MaxGcs = 1
    MaxBlocks = 1
    FreezeThreshold = 1
INVARIANTS PrTypeOK BranchPointsPinned ReadsExact
