SPECIFICATION FairSpec
CONSTANTS
    World = 2
    RowsPerRank = 3
    NumExperts = 2
    MaxPrompt = 5
    Response = 2
    Budget = 8
    Layouts <- MixedBatches
    ExpertChunk = 3
    ScoreDynamic = TRUE
    MicroSize = 1
    ScoreCap = 7
    MiniSize = 2
    UpdateDynamic = FALSE
    UpdateMicro = 1
    UpdateCap = 7
    SkipEmpty = TRUE
    Deltas <- SmallDeltas
    Exp <- PowersOfTwo
    One = 16
    Priors <- FairPriors
    Clamp = 64
INVARIANTS
    OwnScores TrainedOnEnabledExperts OverflowNeverTrained EvenRanksMeet FusedOverEnabled
PROPERTIES EveryStepEnds
CHECK_DEADLOCK FALSE
