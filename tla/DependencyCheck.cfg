\* all 4096 dependency relations of three tasks and one undefined ID
SPECIFICATION FairSpec
CONSTANTS
  t1 = t1
  t2 = t2
  t3 = t3
  u = u
  Tasks = {t1, t2, t3}
  Undefined = {u}
INVARIANTS
  TypeOK
  AcceptedCanRun
  VerdictIsExact
PROPERTY Decides
CHECK_DEADLOCK FALSE
