SPECIFICATION UsedSpec
CONSTANTS
  Accounts = {a}
  Nobody = Nobody
  NoPhoto = NoPhoto
  Values = {default, revealed}
  Default = default
  Revealed = revealed
  Changeable = {"unlock"}
INVARIANTS
  ResetHolds
  MemoryMatchesFlash
  ResetKeepsScreen
PROPERTIES
  ResetTruth
  ResetAnswered
