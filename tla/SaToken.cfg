SPECIFICATION SaFairSpec
CONSTANTS
    k1 = k1
    k2 = k2
    K1 = K1
    K2 = K2
    Kids = {k1, k2}
    Keys = {K1, K2}
    NoKid = NoKid
    Garbled = Garbled
    Unusable = Unusable
    NotLoaded = NotLoaded
    Sessions = {s1}
    DiscoverUrl = TRUE
    MaxRotations = 3
    MaxFailures = 2
    KeySets <- MCKeySets
    Tokens <- MCTokens
INVARIANTS
    VerdictFromOneFetch
PROPERTIES
    RotationLearned
