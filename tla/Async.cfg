SPECIFICATION FairSpec
CONSTANT Configs <- AllConfigs
INVARIANTS EverySampleOnce OnPolicy AllSamplesUsed
PROPERTIES IsBoundedStaleness TrainingEnds
