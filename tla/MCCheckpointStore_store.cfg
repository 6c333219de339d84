SPECIFICATION Spec
CONSTANTS
  Writers = {w1}
  Steps = {0, 1, 2}
  Overlap = FALSE
  MaxSaves = 4
  MaxKills = 3
INVARIANTS CheckpointsWhole TmpIsThisSave StaysRecoverable
PROPERTY RegisterSpec
CHECK_DEADLOCK FALSE
