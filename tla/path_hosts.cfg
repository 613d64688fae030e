CONSTANTS
  h1 = h1  h2 = h2
  s1 = s1  s2 = s2
  Hosts = {h1, h2}
  Allowed = {h1, h2}
  NsIp = h1
  Reporters = {"ckl"}
  Settings = {s1, s2}
  Factory <- FactoryBodies
  Calls <- PathCalls
  AckCount <- TwoFields
  TidModulus = 4
  MaxCalls = 2
  MaxClock = 0
  MaxLosses = 1

SPECIFICATION Spec
CHECK_DEADLOCK FALSE
INVARIANT TypeOK
INVARIANT RelayAgrees
INVARIANT AnswersStayHome
INVARIANT OnlyRefusedWait
INVARIANT NothingLeft
