------------------------ MODULE MCTrainerCheckpoint ------------------------
(* TrainerCheckpoint on small instances; the values are in the .cfg files. *)
EXTENDS TrainerCheckpoint, TLC

CONSTANTS r1, r2

TwoRanks == {r1, r2}
Symmetry == Permutations(TwoRanks)

NoMetric   == {}
TwoMetrics == {1, 2}
=============================================================================
