\* Hot reload liveness when the editor saves by renaming a new file over the old one.
CONSTANTS
  f1 = f1
  f2 = f2
  o1 = o1
  d1 = d1
  Files <- MCFiles
  Siblings <- MCSiblings
  Dir = d1
  EditKinds = {"write", "replace"}
  MaxEdits = 2
SPECIFICATION Spec
PROPERTY EditEventuallyReloaded
CHECK_DEADLOCK FALSE
