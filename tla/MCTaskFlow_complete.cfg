SPECIFICATION FairSpec
CONSTANTS
  pdf = pdf
  note = note
  exe = exe
  Tasks = {pdf, note}
  File <- MCFile
  EntryTopics = {"TASK_SUBMIT"}
  Bodies = {"valid"}
  Views <- AllViews
  MaxRetries = 1
  MaxPoll = 2
  MaxPublish = 1
  MaxStarts = 1
  MaxRaised = 0
  MaxSwallowed = 0
  MaxCommitFaults = 0
PROPERTIES
  SubmissionsComplete
CHECK_DEADLOCK FALSE
