SPECIFICATION Spec
SYMMETRY EnvSymmetry
CONSTANTS
  Envs = {e1, e2}
  BufferSize = 3
  Stale = Stale
  None = None
  Kinds = {"ppo", "dppo", "fpo"}
  MaxFillings = 2
  MaxLost = 1
INVARIANTS TypeOK AdvantagesPerEpisode RunningReturns ChainsSound
PROPERTY StatisticsSeeTheFilling
CHECK_DEADLOCK FALSE
