SPECIFICATION Spec
CONSTANTS
  r1 = r1
  r2 = r2
  Ranks <- TwoRanks
  Loop = "mpopd"
  Batches = 4
  Epochs = 1
  Total = 4
  SaveFreq = 2
  Metrics <- NoMetric
  CrashInSave = FALSE
  MaxCrashes = 2
  MaxStep = 7
  Absent = Absent
  Torn = Torn
  None = None
CHECK_DEADLOCK FALSE
INVARIANT LastStepSaved
