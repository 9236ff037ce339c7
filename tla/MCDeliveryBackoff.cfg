SPECIFICATION Spec
CONSTANTS
  MaxMetric = 3
  Requests = {r1}
  Size <- MCSize
  MaxSend = 2
  MaxCache = 3
  BackoffMax = 2
  StackWords = {0, 1}
PROPERTIES
  NoBackoffOnFirstFailure
