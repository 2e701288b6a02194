SPECIFICATION Spec
CONSTANTS
  pdf = pdf
  note = note
  exe = exe
  Tasks = {pdf}
  File <- MCFile
  EntryTopics = {"ELEMENT_TABLE", "RETRY"}
  Bodies = {"valid"}
  Views <- AllViews
  MaxRetries = 1
  MaxPoll = 2
  MaxPublish = 2
  MaxStarts = 2
  MaxRaised = 1
  MaxSwallowed = 1
  MaxCommitFaults = 1
INVARIANTS
  OrderedPerRun
  RetryBudget
  DeadOnlyWhenExhausted
  DlqTrailsTopic
PROPERTIES
  CommitMonotone
CHECK_DEADLOCK FALSE
