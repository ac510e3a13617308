CONSTANTS
  Users <- MCUsers
  Connections <- MCConnections
  NewCategories <- MCNewCategories
  MaxCategories = 2
  MaxKills = 3
SPECIFICATION Spec
INVARIANTS LaterLaunchReads
