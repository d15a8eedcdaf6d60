SPECIFICATION MCSpec
CONSTANTS
  root = root
  d1 = d1
  d2 = d2
  d3 = d3
  file = file
  other = other
  link = link
  outside = outside
  None = None
  Dirs <- MCDirs
  Root = root
  Names <- MCNames
  Lower <- MCLower
  Manifests <- MCManifests
  AllowedFiles <- MCAllowedFiles
  InitialTrees <- MCInitialTrees
  Changes <- MCChanges
  MaxDepth = 2
  MaxEntries = 4
  MaxChanges = 2
  Inodes <- MCInodes
  Elsewhere = outside
  InitialDisk <- MCInitialDisk
  Limit = 2
CHECK_DEADLOCK FALSE
INVARIANTS ReadsAreSound StrangersAreSeen QuietIsExact
PROPERTIES WalkIsSteady LoadsEnd
