SPECIFICATION FairSpec
CONSTANTS
  Matrix <- TwoSeeds
  MaxStops = 3
INVARIANTS OneVerdictPerCell MatrixHonest
PROPERTY SweepCompletes
CHECK_DEADLOCK FALSE
