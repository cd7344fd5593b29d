SPECIFICATION MCSpec
CONSTANTS
  MaxPlayers = 2
  Texts = {x, y}
  NoText = NoText
  Names = {n1, n2}
  NoName = NoName
  MaxSignals = 3
  DarwinPlayers = 3
  Calls = {c1, c2}
SYMMETRY Symmetry
INVARIANTS
  TypesOK
  OneSubscriptionEach
  
  
PROPERTY OthersUntouched
