SPECIFICATION AppSpec
CONSTANTS
  w1 = w1
  w2 = w2
  n1 = n1
  a1 = a1
  NoThread = NoThread
  MaxPlayers = 2
  Web = {}
  Native = {n1}
  Apps = {}
  Owners = {n1}
  Contents <- MCThree
INVARIANTS
  MirrorAgrees
  ActiveIsFresh

  
