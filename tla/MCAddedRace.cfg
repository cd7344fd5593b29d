SPECIFICATION AppSpec
CONSTANTS
  w1 = w1
  w2 = w2
  n1 = n1
  a1 = a1
  NoThread = NoThread
  MaxPlayers = 2
  Web = {w1, w2}
  Native = {}
  Apps = {}
  Owners = {w1, w2}
  Contents <- MCOne
INVARIANT AddedIsAnnounced
