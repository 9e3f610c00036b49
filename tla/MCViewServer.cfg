SPECIFICATION Spec
CONSTANTS
  s1 = s1
  s2 = s2
  s3 = s3
  Null = Null
  Servers <- MCServers
  FirstOf <- MCFirstOf
  KeyOrders <- MCKeyOrders
  MaxView = 3
  MayCrash = {}
  MaxLate = 0
INVARIANTS
  TypeOK
  NoNullUnboxing
  PendingIsLegal
  AcksAreReal
  SweepIsLoop
PROPERTIES
  PromotedIsLive
  ImplementsService
