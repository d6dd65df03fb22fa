SPECIFICATION AloneSpec
CONSTANTS
  Keys = {k}
  Mine = {k}
  Targets = {t}
  NoTarget = NoTarget
  Texts = {a}
  NoText = NoText
  NoKey = NoKey
  Corrupt = Corrupt
  Calls = {c1, c2}
SYMMETRY Symmetry
INVARIANTS LetGo ReceiptKept OwnAnswer
PROPERTY ServesBadge
