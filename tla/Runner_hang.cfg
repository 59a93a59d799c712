\* one task, one worker, nothing fails but the task
SPECIFICATION FairSpec
CONSTANTS
  a = a
  b = b
  w1 = w1
  w2 = w2
  NoTask = NoTask
  Tasks = {a}
  Deps <- Single
  Workers = {w1}
  KeyChoices <- Valid
  StoreFaults = FALSE
  MayCancel = FALSE
  Resumable = {}
  MaxWaiting = 2
PROPERTY ReturnsEventually
CHECK_DEADLOCK FALSE
