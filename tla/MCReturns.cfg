SPECIFICATION FairSpec
CONSTANTS
  w1 = w1
  w2 = w2
  n1 = n1
  a1 = a1
  NoThread = NoThread
  MaxPlayers = 1
  Web = {}
  Native = {n1}
  Apps = {a1}
  Owners = {n1}
  Contents <- MCOne
PROPERTIES
  DeliveryEnds
  CallsReturn
