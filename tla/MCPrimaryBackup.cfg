\* The bounds on views, commands and lists end the model, not the program.
SPECIFICATION ScopedSpec
CHECK_DEADLOCK FALSE
SYMMETRY Symmetry
CONSTANTS
  s1 = s1
  s2 = s2
  s3 = s3
  c1 = c1
  c2 = c2
  Null = Null
  Servers = {s1, s2, s3}
  Clients = {c1, c2}
  Accurate = FALSE
  MaxCrashes = 0
  MaxView = 4
  MaxCommands = 1
  MaxList = 2
INVARIANTS
  TypeOK
  ViewChangeOnlyInBackup
  ListHoldsLog
  ConfirmedIsHeld
  OnePrimaryActive
  AnswersAreOwn
  LinearizableUntilTakeover
PROPERTIES
  ImplementsService
  BackupFollows
