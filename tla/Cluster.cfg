\* three nodes, two or all of which have formed the cluster; two faults
SPECIFICATION FairSpec
CONSTANTS
  n1 = n1
  n2 = n2
  n3 = n3
  Nodes = {n1, n2, n3}
  NoLeader = NoLeader
  MaxFaults = 2
INVARIANTS
  TypeOK
  AlarmsAreReal
PROPERTIES
  ImplementsLives
  
  LossNoticed
CHECK_DEADLOCK FALSE
