SPECIFICATION CpSpec
CONSTANTS
    Zero = "zero"
    Tenant = {"zero", "db"}
    Root = "root"
    Timeline = {"root", "b1", "b2"}
    Lsn = {1}
    Line = {"line"}
    Http = {"console", "http"}
    Waits = {"console"}
    console = "console"
    Database = {"db"}
    Point = {"b1"}
    Casts = {{"line"}, {"http"}}
    Asked <- MCAsked
    MaxRequests = 2
    MaxOps = 2
    MaxArc = 6
    MaxFaults = 1
INVARIANTS
    
    RestoreExact
    PromisesKept
    
PROPERTY EveryOperationReturns
CHECK_DEADLOCK FALSE
