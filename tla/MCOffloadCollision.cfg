SPECIFICATION OfSpec
CONSTANTS
    Timeline = {"main", "dev"}
    Roots = {"main"}
    Branches <- OneBranch
    None = None
    Reattached = FALSE
    MaxBlock = 0
    MaxLsn = 2
    MaxRecords = 2
    MaxGcs = 0
    MaxBlocks = 1
    FreezeThreshold = 1
    MaxFailures = 0
INVARIANTS UploadedIsStored
