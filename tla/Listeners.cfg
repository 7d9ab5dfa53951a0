SPECIFICATION FairSpec
CONSTANTS
    c1 = c1
    c2 = c2
    s1 = s1
    s2 = s2
    Uds = Uds
    Conns = {c1, c2}
    Sessions = {s1, s2}
    Via <- MCVia
    BlockingThreads = 2
    MaxConnections = 1
    MaxBoots = 2
INVARIANTS
    PermitsBalanced
    NoDeafDaemon
    StopsForCause
PROPERTIES
    WaitingAdmitted
    DetachedSessionsEnd
    ShutdownCompletes
    Restarts
