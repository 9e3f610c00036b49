SPECIFICATION Spec
CONSTANTS
  s1 = s1
  s2 = s2
  s3 = s3
  Null = Null
  Servers <- MCServers
  FirstOf <- MCFirstOf
  KeyOrders <- MCKeyOrders
  MayCrash = {}
  MaxView = 3
  MaxLate = 0
PROPERTIES
  DeadIdleNotMadeBackup
