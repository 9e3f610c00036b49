\* The bounds on views, commands and lists end the model, not the program.
SPECIFICATION Spec
CHECK_DEADLOCK FALSE
SYMMETRY Symmetry
CONSTANTS
  s1 = s1
  s2 = s2
  s3 = s3
  c1 = c1
  c2 = c2
  Null = Null
  Servers = {s1, s2}
  Clients = {c1, c2}
  Accurate = TRUE
  MaxCrashes = 0
  MaxView = 2
  MaxCommands = 2
  MaxList = 3
INVARIANTS
  SameOrder
