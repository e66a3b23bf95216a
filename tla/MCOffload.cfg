SPECIFICATION FairOfSpec
CONSTANTS
    Timeline = {"main"}
    Roots = {"main"}
    Branches <- NoBranches
    None = None
    Reattached = TRUE
    MaxBlock = 1
    MaxLsn = 2
    MaxRecords = 2
    MaxGcs = 1
    MaxBlocks = 2
    FreezeThreshold = 2
    MaxFailures = 1
INVARIANTS OfTypeOK HistoryKept SizesCoverPages UploadedIsStored
PROPERTIES EveryLayerOffloaded

