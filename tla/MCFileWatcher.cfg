\* Safety of the debounce protocol under every edit kind, Start failure and Stop: no change is stranded, and the watcher implements the abstract Watcher.
CONSTANTS
  f1 = f1
  f2 = f2
  o1 = o1
  d1 = d1
  Files <- MCFiles
  Siblings <- MCSiblings
  Dir = d1
  EditKinds = {"write", "create", "replace"}
  MaxEdits = 3
SPECIFICATION Spec
INVARIANT PendingHasLiveTimer
PROPERTY WatcherRefined
CHECK_DEADLOCK FALSE
