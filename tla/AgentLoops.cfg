SPECIFICATION FairSpec
CONSTANTS
    Servers = {1, 2, 3}
    CacheSize = 2
    Setups <- AllSetups
    Conversations = {1, 2, 3}
    ResponseLength = 3
    EnvTokens = 2
    Responses = {1, 2}
    PartialLength = 2
    ModelLen = 3
    MaxEvents = 2
INVARIANTS
    MaskSelectsModel
    TokensKept
    ContinuationExact
    VersionsBracket
PROPERTIES
    StickySessions
    EveryLoopEnds
