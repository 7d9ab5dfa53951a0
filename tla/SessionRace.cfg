SPECIFICATION FairSpec
CONSTANTS
    Tokens = {secret, stale, wrong, EmptyToken}
    EmptyToken = EmptyToken
    NoToken = NoToken
    None = None
    orders = orders
    ledger = ledger
    relay = relay
    events = events
    acme = acme
    globex = globex
    pg = pg
    smtp = smtp
    secret = secret
    stale = stale
    wrong = wrong
    Names = {orders, ledger, relay, events}
    Tenants = {acme, globex}
    Targets = {pg, smtp}
    Table <- MCTable
    Ceiling = 5
    Sessions = {s1, s2}
    QuicSessions = {s1, s2}
    AuthMode = "static"
    StaticToken = secret
    PreviousToken = stale
    Threshold = 1
    Inits <- RaceInits
    Calls <- RaceCalls
    MaxSends = 0
    BlockingThreads = 2
    PanicUnwinds = FALSE
    MaxFrames = 3
INVARIANTS
    TypeOK
    TenantIsolation
    AuthenticatedFirst
    ConnectOnce
    ProbeAccounted
PROPERTIES
    TripHonoured
    ImplementsContract
    ConnectedCallsAnswered
