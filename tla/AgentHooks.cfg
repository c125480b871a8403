SPECIFICATION Spec
CONSTANTS
  Runs = {r1, r2}
  Cases <- MCCases
  Specs = {"a", "b"}
  Machines <- MCMachines
  MaxFaults = 1
  None = None
INVARIANT DeliveryInv
INVARIANT FailClosed
INVARIANT MessageIsTrue
INVARIANT CopyIsBounded
INVARIANT OneCodexHookActs
