SPECIFICATION Spec
CONSTANTS
  Tasks = {main, service}
  MainTask = main
  NoTask = NoTask
  Profiles = {empty, alice}
  Empty = empty
  Photos = {photo}
  NoPhoto = NoPhoto
  NoFile = NoFile
  Damaged = Damaged
  MaxRevision = 3
INVARIANTS RamFollowsFlash SaveBuildsOnCurrent
PROPERTIES SaveAllOrNothing RevisionMarksChange Implements
