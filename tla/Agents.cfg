\* one request; three tool calls per agent, three faults
SPECIFICATION Spec
CONSTANTS
  r1 = r1
  Requests = {r1}
  MaxCalls = 3
  MaxFaults = 3
INVARIANTS
  TypeOK
  ConfirmedLasts
  ChainIsCurrent

  
CHECK_DEADLOCK FALSE
