CONSTANTS
  MaxPages = 2
  MaxRows = 2
  MaxColumns = 2
  MaxLines = 4
  MaxItems = 4
  Files <- MCFiles
SPECIFICATION Spec
INVARIANTS
  ContentShown
  OrderKept
  TablesWhole
  IdsUnique
  MetadataAgrees
  TotalCounted
  PassIsMostlyText
CHECK_DEADLOCK FALSE
