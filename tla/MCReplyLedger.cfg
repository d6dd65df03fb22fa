SPECIFICATION Spec
CONSTANTS
  Keys = {k1, k2, k3}
  Targets = {t}
  NoTarget = NoTarget
  Texts = {a, b}
  NoText = NoText
  NoKey = NoKey
  Calls = {c1, c2}
SYMMETRY Symmetry
INVARIANT AnswerHolds
PROPERTY Promise
