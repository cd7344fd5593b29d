SPECIFICATION Spec
CONSTANTS
  k1 = k1
  k2 = k2
  s1 = s1
  ServerThread = ServerThread
  Stopper = Stopper
  NoConn = NoConn
  MAX_CLIENTS = 1
  Conns = {k1, k2}
  Senders = {s1}
SYMMETRY Symmetry
CHECK_DEADLOCK FALSE
INVARIANTS
  TypeOK
  NoDescriptorLeaks
  OwnConnection
