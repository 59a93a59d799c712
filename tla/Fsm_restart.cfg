\* a single command and its restarts, without any failure of etcd
SPECIFICATION RestartSpec
CONSTANTS
  m1 = m1
  m2 = m2
  r1 = r1
  r2 = r2
  Machines = {m1}
  States <- AllStates
  InitialState = "RegionAActive"
  External <- FromUser
  Internal <- FromSystem
  Target <- Table
  HasTasks <- SomeTasks
  TaskCount <- SomeCount
  Restarts = {r1, r2}
  Commands <- Asked
  NoState = NoState
  NoEvent = NoEvent
  StoreFaults = FALSE
  MayCrash = FALSE
  OverlapChoices <- Alone
CHECK_DEADLOCK FALSE
INVARIANT CompletedMeansRun
