CONSTANTS
  h1 = h1  h2 = h2
  s1 = s1  s2 = s2
  Hosts = {h1}
  Allowed = {h1}
  NsIp = h1
  Reporters = {}
  Settings = {s1, s2}
  Factory <- FactoryBodies
  Calls <- LateCalls
  AckCount <- ThreeFields
  TidModulus = 2
  MaxCalls = 3
  MaxClock = 1
  MaxLosses = 1

SPECIFICATION Spec
CHECK_DEADLOCK FALSE
INVARIANT QueryCurrent
INVARIANT FragmentsCurrent
INVARIANT AckedMeansTaken
