SPECIFICATION Spec
CONSTANTS
  pdf = pdf
  note = note
  exe = exe
  Tasks = {pdf}
  File <- MCFile
  EntryTopics = {"RETRY"}
  Bodies = {"valid"}
  Views <- AllViews
  MaxRetries = 1
  MaxPoll = 2
  MaxPublish = 1
  MaxStarts = 1
  MaxRaised = 0
  MaxSwallowed = 0
  MaxCommitFaults = 0
INVARIANTS
  RetryReroutes
CHECK_DEADLOCK FALSE
