SPECIFICATION FairWebSpec
CONSTANTS
  k1 = k1
  k2 = k2
  s1 = s1
  p1 = p1
  p2 = p2
  x = x
  y = y
  ServerThread = ServerThread
  Stopper = Stopper
  NoConn = NoConn
  Nothing = Nothing
  MAX_CLIENTS = 1
  Conns = {k1}
  Senders = {s1}
  MaxPlayers = 1
  MAX_COVER_BUFFERS = 1
  Ports = {p1, p2}
  Texts = {x}
  CoverPath = {TRUE, FALSE}
CHECK_DEADLOCK FALSE
PROPERTIES
  ClosingEnds
  ServerEnds
