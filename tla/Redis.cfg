SPECIFICATION Spec
CONSTANTS
    MaxCalls = 4
    MaxInt = 2
    None = None
INVARIANTS
    RepliesMatched
    TtlNeverLost
