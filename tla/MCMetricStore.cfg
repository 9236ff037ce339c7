SPECIFICATION Spec
CONSTANTS
  Inputs <- MCInputs
  Steps <- MCLater
  MaxPush = 4
  MaxAge = 3
  IntLimit = 4
  ClockLimit = 64
  RateScale = 6
INVARIANTS
  WellFormed
  BaselineIsLast
  ValuesConserved
