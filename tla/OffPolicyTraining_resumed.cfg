SPECIFICATION Spec
CONSTANTS
  BufferSize = 3
  LearningStarts = 5
  UpdateEvery = 2
  GlobalSteps = 9
  SaveInterval = 2
  Updates = 2
  PolicyFrequency = 2
  TargetNetworkFrequency = 3
  Clients = 2
  MaxRestarts = 2
  MaxLost = 2
INVARIANT LearnsFromFrames
CHECK_DEADLOCK FALSE
