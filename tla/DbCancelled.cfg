SPECIFICATION Spec
CONSTANTS
    Budget = 1
    ConnectTimeout = 1
    MaxClock = 3
    MaxCalls = 2
    None = None
INVARIANTS
    TimedOutCancelled
