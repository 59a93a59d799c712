\* three calls, two mapped tables and the excluded one; two faults
SPECIFICATION Spec
CONSTANTS
  c1 = c1
  c2 = c2
  c3 = c3
  a = a
  b = b
  chunks = chunks
  NoTable = NoTable
  Calls = {c1, c2, c3}
  Tables = {a, b, chunks}
  Mirrored = {a, b, chunks}
  Excluded = {chunks}
  MaxFaults = 2
SYMMETRY Symmetry
INVARIANTS
  TypeOK
  SuspensionIsReported
PROPERTIES
  ImplementsReplication
  NoReplicaEmptied
  AnswersHold
CHECK_DEADLOCK FALSE
