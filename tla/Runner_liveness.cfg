\* two tasks in a chain, one worker, nothing fails: what must eventually happen
SPECIFICATION FairSpec
CONSTANTS
  a = a
  b = b
  w1 = w1
  w2 = w2
  NoTask = NoTask
  Tasks = {a, b}
  Deps <- Chain
  Workers = {w1}
  KeyChoices <- Valid
  StoreFaults = FALSE
  MayCancel = FALSE
  Resumable = {}
  MaxWaiting = 2
PROPERTIES
  NoStarvation
  
  CompletionNoticed
CHECK_DEADLOCK FALSE
