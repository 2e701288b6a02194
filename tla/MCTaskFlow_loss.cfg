SPECIFICATION Spec
CONSTANTS
  pdf = pdf
  note = note
  exe = exe
  Tasks = {pdf, exe}
  File <- MCFile
  EntryTopics = {"TASK_SUBMIT"}
  Bodies = {"valid", "malformed"}
  Views <- AllViews
  MaxRetries = 1
  MaxPoll = 2
  MaxPublish = 2
  MaxStarts = 2
  MaxRaised = 2
  MaxSwallowed = 1
  MaxCommitFaults = 1
INVARIANTS
  TypeOK
  NoLossWithoutFault
  LossBudget
  SubmitLossNeedsTwoFaults
  ForwardedOrDead
PROPERTIES
  ImplementsAtLeastOnce
CHECK_DEADLOCK FALSE
