SPECIFICATION FairSpec
CONSTANTS
  MaxMetric = 4
  Requests = {r1, r2}
  Size <- MCSize
  MaxSend = 2
  MaxCache = 3
  BackoffMax = 2
  StackWords = {0, 2}
INVARIANTS
  TypeOK
  SingleCustody
  PushOrder
  Bounded
  BackoffCountsRejections
PROPERTIES
  LossHasCause
  EventuallyAttempted
  ImplementsCustody
