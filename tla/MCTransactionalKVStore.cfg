\* The bound on the log ends the model, not the program.
SPECIFICATION Spec
CHECK_DEADLOCK FALSE
SYMMETRY Symmetry
CONSTANTS
  k1 = k1
  k2 = k2
  k3 = k3
  a = a
  b = b
  Key = {k1, k2, k3}
  Letter = {a, b}
  Input <- MCInput
  KEY_NOT_FOUND <- MCNotFound
  MaxLog = 3
INVARIANTS
  TypeOK
  HeldByHistory
  AnswersByHistory
  RunIsLocal
