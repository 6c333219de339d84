SPECIFICATION Spec
CONSTANTS
  Algos = {"ppo", "dppo", "fpo"}
  BufferSize = 2
  Minibatches = 4
  Epochs = 2
  GradAccum = 3
  WarmupItrs = 2
  TrainItrs = 5
  GlobalSteps = 7
  SaveInterval = 2
  MaxRestarts = 3
INVARIANTS
  TypeOK StepsAreMeans EveryMinibatchCountsOnce WarmupKeepsActor
  CountersDescribeWeights StepsLostOnlyOnRestart
  KillCostsAtMostAnInterval
CHECK_DEADLOCK FALSE
