\* Every workload ends: the model stops when all results are in.
SPECIFICATION WrappedFairSpec
CHECK_DEADLOCK FALSE
CONSTANTS
  c1 = c1
  c2 = c2
  k = k
  a = a
  b = b
  Clients = {c1, c2}
  MaxCommands = 2
  NewState <- MCNewState
  Apply <- MCApply
INVARIANTS
  TypeOK
  ExecutedInOrder
  RetryPending
  AnswersByLog
PROPERTIES
  ImplementsExactlyOnce
  EveryCommandAnswered
