SPECIFICATION Spec
CONSTANTS
  Procs = {p1, p2, p3}
  Pids = {k1, k2, k3}
  Inodes = {i1, i2, i3, i4}
  None = None
  Target = Target
  Old = Old
  Special = Special
  MayForce = TRUE
  MaxCrashes = 1
  MaxFaults = 1
  MaxAppears = 1
SYMMETRY Symmetry
CHECK_DEADLOCK FALSE
INVARIANTS TargetWhole NoLitter ErrorsAreRaces
PROPERTIES OnlyForceReplaces ImplementsOutputSlot
