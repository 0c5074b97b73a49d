SPECIFICATION HTTPSpec
CONSTANTS
  k1 = k1
  k2 = k2
  k3 = k3
  t1 = t1
  Key <- MCKey
  Tag <- MCTag
  Size <- MCSize
  Asked <- MCAsked
  Prefix <- MCPrefix
  Capacity = 2
  MaxSize = 3
  DefaultTTL = 1
  MaxSets = 3
INVARIANTS
  Accounting
  NotifiedOnce
PROPERTIES
  EvictsLeastRecent
  ImplementsMap
  SetReturns
  ExpiredRemoved
  StaleResponseLeaves
