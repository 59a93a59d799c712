\* two commands, one after the other or overlapping; store failures and crashes
SPECIFICATION FairRestartSpec
CONSTANTS
  m1 = m1
  m2 = m2
  r1 = r1
  r2 = r2
  Machines = {m1, m2}
  States <- AllStates
  InitialState = "RegionAActive"
  External <- FromUser
  Internal <- FromSystem
  Target <- Table
  HasTasks <- SomeTasks
  TaskCount <- SomeCount
  Restarts = {r1}
  Commands <- Asked
  NoState = NoState
  NoEvent = NoEvent
  StoreFaults = TRUE
  MayCrash = TRUE
  OverlapChoices <- Anything
INVARIANTS
  RestartTypeOK
  TasksAfterPersist
  OneExecutionPerCommand
PROPERTIES
  FollowsTable
  OutcomeTakesEffect
  ImplementsLifecycle
CHECK_DEADLOCK FALSE
