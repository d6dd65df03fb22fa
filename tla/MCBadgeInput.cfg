SPECIFICATION Spec
CONSTANTS
  PageCount = 3
  Yellow = Yellow
  Blue = Blue
  InputCapacity = 32
  MaxHold = 3
  OffRetry = 2
  Capacity = 2
  MaxDuration = 3
  MaxTime = 4
  MaxContacts = 3
INVARIANTS
  ModalsExclude
  PressesAnswered
  WholeWordUnlocks
  MotorBounded
  RingIsTail
PROPERTY ContactTruth
CHECK_DEADLOCK FALSE
