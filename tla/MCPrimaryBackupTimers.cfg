\* The bounds on views, commands, lists and timers end the model, not the program.
SPECIFICATION MCSpec
CHECK_DEADLOCK FALSE
CONSTANTS
  s1 = s1
  s2 = s2
  c1 = c1
  Null = Null
  Servers = {s1, s2}
  Clients = {c1}
  Accurate = FALSE
  MaxCrashes = 1
  MaxView = 3
  MaxCommands = 2
  MaxList = 2
  MaxTimers = 2
  MaxAsks = 1
INVARIANTS
  TimersTypeOK
  ExecutedOnce
PROPERTIES
  RetriedUnlessRefused
  AskingEnds
  ClientFindsPrimary
