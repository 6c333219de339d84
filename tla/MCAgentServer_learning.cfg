SPECIFICATION Spec
CONSTANTS
  Conns = {c1, c2}
  Envs = {1, 2}
  Batches <- TwoEnvs
  BufferSize = 3
  SaveInterval = 1
  StepBudget = FALSE
  TrainItrs = 2
  GlobalSteps = 0
  MiniInferBatchSize = 2
  IdleTimeout = TRUE
  MaxConnects = 2
  Disturbances = {"drop"}
SYMMETRY ConnSymmetry
INVARIANTS OnPolicyBuffer ChainsFollowSteps
CHECK_DEADLOCK FALSE
