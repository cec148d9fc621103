SPECIFICATION Spec
CONSTANTS
    World = 2
    RowsPerRank = 2
    NumExperts = 2
    MaxPrompt = 5
    Response = 2
    Budget = 8
    Layouts <- PlainBatch
    ExpertChunk = 0
    ScoreDynamic = FALSE
    MicroSize = 1
    ScoreCap = 9
    MiniSize = 2
    UpdateDynamic = FALSE
    UpdateMicro = 1
    UpdateCap = 9
    SkipEmpty = TRUE
    Deltas <- SmallDeltas
    Exp <- PowersOfTwo
    One = 16
    Priors <- FairPriors
    Clamp = 64
INVARIANTS
    ExpertsScoreTheResponse
CHECK_DEADLOCK FALSE
