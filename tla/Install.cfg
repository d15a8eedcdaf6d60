SPECIFICATION Spec
CONSTANTS
  s1 = s1
  s2 = s2
  k1 = k1
  k2 = k2
  Invocations = {p1, p2}
  Subjects = {s1, s2}
  Keys = {k1, k2}
  WeakKeys = {k2}
  Signatures <- MCSignatures
  Unsigned = Unsigned
  Unreadable = Unreadable
  Malformed = Malformed
  NoEvidence = NoEvidence
  Requests <- MCRequests
  Start <- MCStart
  MaxRewrites = 2
CHECK_DEADLOCK FALSE
INVARIANTS StoredIsVerified EvidenceIsAuthorized OutcomeIsTrue LoadsAfterAuthorization
