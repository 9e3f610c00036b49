\* Every workload ends: the model stops when all results are in.
SPECIFICATION FairSpec
CHECK_DEADLOCK FALSE
CONSTANTS
  c1 = c1
  c2 = c2
  v1 = v1
  v2 = v2
  Null = Null
  Clients = {c1}
  Values = {v1, v2}
  MaxPings = 3
INVARIANTS
  TypeOK
  AnswersMatch
  RetryPending
PROPERTIES
  EveryPingAnswered
