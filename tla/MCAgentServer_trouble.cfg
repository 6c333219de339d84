SPECIFICATION ServerSpec
CONSTANTS
  Conns = {c1, c2}
  Envs = {1}
  Batches <- OneEnv
  BufferSize = 2
  SaveInterval = 1
  StepBudget = FALSE
  TrainItrs = 2
  GlobalSteps = 0
  MiniInferBatchSize = 0
  IdleTimeout = FALSE
  MaxConnects = 2
  Disturbances = {"drop", "resync", "silence", "fault", "signal", "giveup"}
INVARIANTS TypeOK RequestsAccounted ConnectionsCounted
  OnPolicyBuffer StopMeansSaved ShutdownLosesNoLearning OneWriter LockDiscipline
PROPERTY ShutdownTerminates
CHECK_DEADLOCK FALSE
