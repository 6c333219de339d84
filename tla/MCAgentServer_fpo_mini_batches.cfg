SPECIFICATION Spec
CONSTANTS
  Conns = {c1, c2, c3, c4}
  Envs = {1}
  Batches <- OneEnv
  BufferSize = 2
  SaveInterval = 5
  StepBudget = TRUE
  TrainItrs = 0
  GlobalSteps = 3
  MiniInferBatchSize = 1
  IdleTimeout = FALSE
  MaxConnects = 4
  Disturbances = {}
SYMMETRY ConnSymmetry
INVARIANT StopMeansTrained
CHECK_DEADLOCK FALSE
