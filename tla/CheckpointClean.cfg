SPECIFICATION FairSpec
CONSTANTS
  r1 = r1
  r2 = r2
  Ranks <- TwoRanks
  Loop = "fit"
  Batches = 2
  Epochs = 2
  Total = 3
  SaveFreq = 2
  Metrics <- NoMetric
  CrashInSave = FALSE
  MaxCrashes = 2
  MaxStep = 7
  Absent = Absent
  Torn = Torn
  None = None
CHECK_DEADLOCK FALSE
INVARIANTS TrackerNamesComplete LastStepSaved
PROPERTIES ResumeLosesOneInterval TrainsToTheEnd
