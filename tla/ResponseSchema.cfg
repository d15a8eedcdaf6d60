SPECIFICATION MCSpec
CONSTANTS
  PackFiles <- MCPackFiles
  LockFiles <- MCLockFiles
  Requests <- MCRequests
  MaxId = 2
  MaxEdits = 1
  Raw = Raw
  Absent = Absent
CHECK_DEADLOCK FALSE
INVARIANT ResponseIdFitsSchema
