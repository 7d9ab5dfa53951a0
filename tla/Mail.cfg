SPECIFICATION Spec
CONSTANTS
    MaxRecipients = 2
    MaxSends = 1
    MaxPer = 1
    MaxCalls = 2
    None = None
INVARIANTS
    RelayedAllowed
    SendsCapped
    OkRelayedToAll
    RefusedNotRelayed
