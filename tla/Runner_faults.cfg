\* two tasks in a chain, two racing workers: store failures, a bad key, cancellation
SPECIFICATION Spec
CONSTANTS
  a = a
  b = b
  w1 = w1
  w2 = w2
  NoTask = NoTask
  Tasks = {a, b}
  Deps <- Chain
  Workers = {w1, w2}
  KeyChoices <- Anything
  StoreFaults = TRUE
  MayCancel = TRUE
  Resumable <- LateRestart
  MaxWaiting = 1
SYMMETRY Symmetry
INVARIANTS
  TypeOK
  DependenciesRespected
  RecordsAreHonest
  
  PanicOnlyOnCancel
PROPERTIES
  ImplementsTaskGraph
  NoRepeat
CHECK_DEADLOCK FALSE
