SPECIFICATION Spec
CONSTANTS
  N = 2
  Configs <- MCConfigs
  MaxRequests = 2
  BackoffMax = 1
  StackWords = {0, 1}
  None = None
  MaxTime = 6
  Stalls = {1, 4}
  MaxStalls = 1
INVARIANTS
  WakesInTime
  LagIsLostTime
PROPERTIES
  BackoffHolds
  BaselinesOutlivePolls
