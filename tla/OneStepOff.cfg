SPECIFICATION FairSpec
CONSTANTS
    Setups <- AllSetups
    MaxErrors = 1
    MaxCrashes = 2
INVARIANTS
    AtMostOneUpdateBehind
    ScoresOfOwnRows
    BatchesInOrder
    ValidationRecent
PROPERTIES
    EveryRunEnds
