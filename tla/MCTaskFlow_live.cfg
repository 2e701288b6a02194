SPECIFICATION FairSpec
CONSTANTS
  pdf = pdf
  note = note
  exe = exe
  Tasks = {pdf, note, exe}
  File <- MCFile
  EntryTopics = {"TASK_SUBMIT", "RETRY"}
  Bodies = {"valid", "undecodable"}
  Views <- SomeViews
  MaxRetries = 1
  MaxPoll = 2
  MaxPublish = 2
  MaxStarts = 1
  MaxRaised = 1
  MaxSwallowed = 0
  MaxCommitFaults = 1
PROPERTIES
  EveryRecordHandled
  SubmissionsEnd
CHECK_DEADLOCK FALSE
