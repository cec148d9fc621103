SPECIFICATION FairSpec
CONSTANTS
    Setups <- AllSetups
    Groups = 2
    Forwards = 2
    MaxCrashes = 2
INVARIANTS
    WeightsFollowSchedule
    PaceSeesEachStepOnce
    ScoredByCurrentWeights
    RanksInStep
PROPERTIES
    EveryJobEnds
