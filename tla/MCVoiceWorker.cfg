SPECIFICATION FairSpec
CONSTANTS
  Keys = {k}
  Targets = {t}
  NoTarget = NoTarget
  NoKey = NoKey
  Corrupt = Corrupt
PROPERTIES WorkerFreed
