SPECIFICATION MCSpec
CONSTANTS
  MaxPlayers = 4
  Owners <- MCOwners
  Rows <- MCRows
  Inputs <- MCInputs
  Characters <- MCCharacters
  Shares <- MCShares
  MaxFrames = 4
  MaxMessage = 5
  MaxLength = 3
  OutputLens = {0, 2, 6}
  Unsigned = 16
  Durations = {0, 5, 7}
  Seconds = {3, 6, 15}
INVARIANTS
  TypesOK
  
  MessagesAreWhole
  TextIsChecked
  Converts
  ControlsAgree
