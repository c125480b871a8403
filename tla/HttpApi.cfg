SPECIFICATION Spec
CONSTANTS
  Servers = {s1, s2}
  Options <- MCOptions
  Ports = {"p1", "p2"}
  AnyPort = AnyPort
  Former = former
  MaxFaults = 1
  None = None
  Requests = {r1}
  Calls <- MCCalls
  DefaultTimeout = 2
  DefaultBudget = 1
INVARIANT DescriptorInv
INVARIANT MiddlewareOrder
INVARIANT AnsweredUnlessServerEnds
PROPERTY EverythingEnds
CHECK_DEADLOCK FALSE
