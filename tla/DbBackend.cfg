SPECIFICATION FairSpec
CONSTANTS
    Budget = 1
    ConnectTimeout = 1
    MaxClock = 2
    MaxCalls = 4
    None = None
INVARIANTS
    AssuredDurable
    DiscardedNeverDurable
    CallTimeBounded
PROPERTIES
    CallReturned
    NoTransactionLeft
    ConnectSettles
