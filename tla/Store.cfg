\* a runner and a restart, each with a store of its own, and failing etcd
SPECIFICATION Spec
CONSTANTS
  t1 = t1
  t2 = t2
  s1 = s1
  s2 = s2
  Tasks = {t1, t2}
  Deps <- Independent
  Stores = {s1, s2}
  Details <- OfWorkers
  StoreFaults = TRUE
SYMMETRY Same
INVARIANT TypeOK
PROPERTY OwnWorkIsKept
