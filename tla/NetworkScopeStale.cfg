CONSTANTS
  Null = Null
  None = None
  g1 = g1
  g2 = g2
  SomeTables <- Towns
  NewLinks <- Bridge
  Near <- LinksNear
  At <- LinksAt
  Distances <- Distance
  Zones <- OneZone
  Seeds <- SomeSeeds
  MaxNetworks = 2
  MaxOps = 4
SPECIFICATION Spec
INVARIANTS
  ConnectedMeansConnected
CHECK_DEADLOCK FALSE
