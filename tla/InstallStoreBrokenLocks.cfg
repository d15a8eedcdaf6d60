SPECIFICATION Spec
CONSTANTS
  Procs = {p1, p2, p3}
  Subjects = {s1}
  Reserved = {}
  Publishers = {unsigned, alice}
  Unsigned = unsigned
  Nobody = Nobody
  NoEvidence = NoEvidence
  NumFiles = 1
  MaxAttempts = 2
  LiveLockRemoval = TRUE
  MaxRequests = 1
  MaxCrashes = 0
  MaxFaults = 1
  MaxLosses = 1
SYMMETRY Symmetry
CHECK_DEADLOCK FALSE
INVARIANTS AnswersAreTrue FreshReceiptLasts
PROPERTIES Immutable ImplementsContentStore
