SPECIFICATION FairSpec
CONSTANT Configs <- StuckConfigs
PROPERTY PartialTrainingEnds
CHECK_DEADLOCK FALSE
