SPECIFICATION Spec
CONSTANTS
  Writers = {w1}
  Steps = {0, 1}
  Overlap = FALSE
  MaxSaves = 2
  MaxKills = 1
INVARIANT StaysResumable
CHECK_DEADLOCK FALSE
