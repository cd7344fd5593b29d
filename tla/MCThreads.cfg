SPECIFICATION MCSpec
CONSTANTS
  MaxPlayers = 2
  Sessions = {s1, s2}
  Apps = {"a", "b"}
  Texts = {"x", "y"}
  NoText = NoText
  Servers = {v1, v2}
  Clients = {k1}
  MaxInits = 2
INVARIANTS
  TypesOK
  
  
PROPERTIES
  Converges
  
