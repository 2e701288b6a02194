SPECIFICATION MCSpec
CONSTANTS
  MaxElements = 4
  Sizes <- MCSizes
  Levels = {0, 1, 2, 3}
  MaxLength = 5
INVARIANTS
  NothingLost
  OnlyParagraphsMerge
  NothingLeftToMerge
  HeadingsOnlyRise
  ListsCountFromOne
  NothingSensitiveLeft
  MergedCellsInPlace
CHECK_DEADLOCK FALSE
