SPECIFICATION Spec
CONSTANTS
  r1 = r1
  r2 = r2
  Ranks <- TwoRanks
  Loop = "fit"
  Batches = 2
  Epochs = 1
  Total = 2
  SaveFreq = 1
  Metrics <- TwoMetrics
  CrashInSave = TRUE
  MaxCrashes = 1
  MaxStep = 3
  Absent = Absent
  Torn = Torn
  None = None
CHECK_DEADLOCK FALSE
INVARIANTS FilesOfOneSave LastIsNewest BestMatchesDisk
PROPERTIES RestoredTogether BestOnlyImproves
SYMMETRY Symmetry
