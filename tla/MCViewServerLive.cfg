\* The bound on views is a guard of the handlers, so the model (not the
\* program) may stop once it is reached.
SPECIFICATION FairSpec
CHECK_DEADLOCK FALSE
CONSTANTS
  s1 = s1
  s2 = s2
  s3 = s3
  Null = Null
  Servers = {s1, s2}
  FirstOf <- MCFirstOf
  KeyOrders <- MCKeyOrders
  MayCrash = {s1, s2}
  MaxView = 5
  MaxLate = 1
PROPERTIES
  DeadPrimaryReplaced
  DeadBackupReplaced
  VacancyFilled
