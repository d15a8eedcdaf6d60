SPECIFICATION FairSpec
CONSTANTS
  Procs = {p1, p2}
  Subjects = {s1, r1}
  Reserved = {r1}
  Publishers = {unsigned, alice}
  Unsigned = unsigned
  Nobody = Nobody
  NoEvidence = NoEvidence
  NumFiles = 1
  MaxAttempts = 2
  LiveLockRemoval = FALSE
  MaxRequests = 2
  MaxCrashes = 1
  MaxFaults = 1
  MaxLosses = 0
CHECK_DEADLOCK FALSE
PROPERTIES Terminates InstallsOnceQuiet
