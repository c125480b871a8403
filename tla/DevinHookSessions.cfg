SPECIFICATION Spec
CONSTANTS
  s1 = s1
  s2 = s2
  Sessions = {s1, s2}
  Identified = {s1}
  Cwd <- OneDir
  Texts = {"pe fix"}
  Manual = {"pe fix"}
  Chain <- OneHook
  NoPrompt = noprompt
  NoConclusion = none
  HostTimeout = 2
  Margin = 2
  DeliverMax = 1
  Window = 1
  TTL = 1
  MaxFiles = 0
  Faults = {"open", "record", "reset", "touch"}
  MaxTime = 3
INVARIANT NoForeignPrompt
INVARIANT FailClosed
CHECK_DEADLOCK FALSE
