SPECIFICATION AmqSpec
CONSTANTS
    MaxBatch = 3
    MaxMessages = 4
    MaxAmqCalls = 2
INVARIANTS
    PublishedWereSent
    RefusedUnsent
