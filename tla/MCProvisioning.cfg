SPECIFICATION BothSpec
CONSTANTS
  Callers = {c1, c2}
  Times = {t1, t2}
  Offsets = {zero, east}
  Zero = zero
  Bad = bad
  NoOffset = noOffset
  Nobody = nobody
  Usb = usb
  Orphan = orphan
  Badges = {b}
  NoBadge = noBadge
  NoImage = noImage
INVARIANTS
  SetIsDurable
  WaiterIsPending
PROPERTIES
  AnswerTruth
  RequestServed
  NothingLost
  PageTruth
  OneFormatPerConsent
