SPECIFICATION Spec
CONSTANTS
  MaxMetric = 4
  Requests = {r1, r2}
  Size <- MCSize
  MaxSend = 2
  MaxCache = 2
  BackoffMax = 2
  StackWords = {0}
PROPERTIES
  OldestEvictedFirst
