SPECIFICATION Spec
CONSTANTS
  w1 = w1
  w2 = w2
  n1 = n1
  a1 = a1
  NoThread = NoThread
  MaxPlayers = 2
  Web = {w1}
  Native = {n1}
  Apps = {}
  Owners = {w1, n1}
  Contents <- MCOne
INVARIANTS
  TypeOK
  WebCount
  EveryEntryIsVisited
PROPERTIES
  
  SlotKeepsOwner
