SPECIFICATION MCSpec
CONSTANTS
  Procs = {p1, p2}
  StartTrees <- MCStartTrees
  MaxKills = 1
  k1 = k1
  k2 = k2
  i1 = i1
  i2 = i2
  i3 = i3
  None = None
  Target = Target
  Old = Old
  Special = Special
CHECK_DEADLOCK FALSE
INVARIANTS PrivateAndDurable
PROPERTIES RefusedForCause OpensInTheEnd EndsAndClears
