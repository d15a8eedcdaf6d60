SPECIFICATION MCSpec
CONSTANTS
  Contents = {"short", "other", "long"}
  ByteLength <- BytesLength
  Manifests <- RecordLists
  Candidates <- CandidateLists
  MaxFiles = 3
  MaxExpanded = 5
  Policies <- TrustPolicies
  Assertions <- TrustAssertions
  Subjects = {"a"}
  BadName = "no name"
  BadValue = "no value"
  BadMechanism = "no mechanism"
  MaxAttributes = 2
  MaxRules = 2
CHECK_DEADLOCK FALSE
INVARIANTS ParsesExactly VerifiesExactly ReadsExactly TrustIsExact
