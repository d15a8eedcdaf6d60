SPECIFICATION Spec
CONSTANTS
  Procs = {p1, p2}
  Subjects = {s1}
  Reserved = {}
  Publishers = {unsigned, alice}
  Unsigned = unsigned
  Nobody = Nobody
  NoEvidence = NoEvidence
  NumFiles = 2
  MaxAttempts = 2
  LiveLockRemoval = FALSE
  MaxRequests = 2
  MaxCrashes = 1
  MaxFaults = 1
  MaxLosses = 1
SYMMETRY Symmetry
CHECK_DEADLOCK FALSE
INVARIANTS PublishedComplete LocksExclude AnswersAreTrue LeftoversAreFaults
