SPECIFICATION Spec
CONSTANTS
    Tokens = {secret, stale, wrong, EmptyToken}
    EmptyToken = EmptyToken
    NoToken = NoToken
    None = None
    orders = orders
    ledger = ledger
    relay = relay
    events = events
    acme = acme
    globex = globex
    pg = pg
    smtp = smtp
    secret = secret
    stale = stale
    wrong = wrong
    Names = {orders, ledger, relay, events}
    Tenants = {acme, globex}
    Targets = {pg, smtp}
    Table <- MCTable
    Ceiling = 5
    Sessions = {s1}
    QuicSessions = {}
    AuthMode = "none"
    StaticToken = NoToken
    PreviousToken = NoToken
    Threshold = 2
    Inits <- SoloInits
    Calls <- SoloCalls
    MaxSends = 1
    BlockingThreads = 1
    PanicUnwinds = TRUE
    MaxFrames = 5
INVARIANTS
    DrainCoversReplies
