SPECIFICATION MCSpec
CONSTANTS
  empty = empty
  small = small
  large = large
  Gone = Gone
  Documents <- PackDocuments
  ProfileIds = {1, 2}
  Sources = {1, 2, 3}
  Disks <- PackDisks
  Contents = {empty, small, large}
  Length <- OverlayLength
  MaxOverlays = 3
  MaxOverlayBytes = 2
  MaxOutputBytes = 5
  MaxEdits = 1
  Starts <- LockStarts
  Packs <- LockPacks
  Profiles <- LockProfiles
  LockedContents <- LockContents
  Slots = {"a", "b"}
  PathBytes <- LockPathBytes
  MaxLockBytes = 3
  MaxMoves = 3
CHECK_DEADLOCK FALSE
INVARIANTS ReadsAsWritten PacksExactly ComposesExactly LocksAreTrue ComparesExactly
