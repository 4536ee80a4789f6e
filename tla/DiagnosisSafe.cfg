SPECIFICATION FairSpec
CONSTANTS
  W = 3
  Nil = Nil
  Instances <- MCInstances
INVARIANTS
    RunnerSound
    VerdictsEarned
    CoverageAgrees
PROPERTIES
    RunEnds
CHECK_DEADLOCK FALSE
