\* two calls with the retries of the plugin; every request may fail
SPECIFICATION FairSpec
CONSTANTS
  c1 = c1
  c2 = c2
  c3 = c3
  Calls = {c1, c2}
  maxLoginRetries = 2
  maxOperationRetries = 1
INVARIANTS
  TypeOK
  AppliedOnce
  RetryUsesAnotherToken
 
CHECK_DEADLOCK FALSE
