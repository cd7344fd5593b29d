SPECIFICATION WebSpec
CONSTANTS
  k1 = k1
  k2 = k2
  s1 = s1
  p1 = p1
  p2 = p2
  x = x
  y = y
  ServerThread = ServerThread
  Stopper = Stopper
  NoConn = NoConn
  Nothing = Nothing
  MAX_CLIENTS = 2
  Conns = {k1, k2}
  Senders = {s1}
  MaxPlayers = 2
  MAX_COVER_BUFFERS = 1
  Ports = {p1, p2}
  Texts = {x, y}
  CoverPath = {TRUE}
SYMMETRY Symmetry
CONSTRAINT Running
CHECK_DEADLOCK FALSE
INVARIANTS
  WebTypeOK
  SendsExclusive
  NothingOutlives
  
  CoverIsOwn
  RequestReachesOwner
