\* The bound on the length of a key ends the model.
SPECIFICATION KeySpec
CHECK_DEADLOCK FALSE
CONSTANTS
  HashCodes <- MCHashCodes
  Digits = {0, 4, 9}
  MaxDigits = 10
  MaxShards = 7
INVARIANTS
  ShardInRange
  ShardByNumber
