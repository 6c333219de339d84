SPECIFICATION FairSpec
CONSTANTS
  Conns = {c1, c2}
  Envs = {1}
  Batches <- OneEnv
  BufferSize = 2
  SaveInterval = 2
  StepBudget = TRUE
  TrainItrs = 0
  GlobalSteps = 3
  MiniInferBatchSize = 0
  IdleTimeout = FALSE
  MaxConnects = 3
  Disturbances = {"drop", "resync", "silence"}
INVARIANTS StepsAccounted StopMeansTrained
PROPERTIES TrainingCompletes RequestsAnswered
CHECK_DEADLOCK FALSE
