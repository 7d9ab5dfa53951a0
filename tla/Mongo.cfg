SPECIFICATION FairSpec
CONSTANTS
    Budget = 2
    MaxDocs = 2
    BatchSize = 2
    MaxMatch = 3
    MaxCalls = 2
    None = None
INVARIANTS
    ReadComplete
    ReportedApplied
PROPERTIES
    CallReturned
