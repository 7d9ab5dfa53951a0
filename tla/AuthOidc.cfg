SPECIFICATION Spec
CONSTANTS
    MaxDocs = 3
    MaxCalls = 4
    None = None
INVARIANTS
    VerdictFromEndpoint
    OneDocument
