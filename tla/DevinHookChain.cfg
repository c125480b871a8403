SPECIFICATION FairSpec
CONSTANTS
  s1 = s1
  s2 = s2
  Sessions = {s1}
  Identified = {s1}
  Cwd <- OneDir
  Texts = {"pe fix", "hello"}
  Manual = {"pe fix"}
  Chain <- AutoLast
  NoPrompt = noprompt
  NoConclusion = none
  HostTimeout = 4
  Margin = 2
  DeliverMax = 1
  Window = 1
  TTL = 8
  MaxFiles = 0
  Faults = {"reset"}
  MaxTime = 14
INVARIANT SubmissionInv
INVARIANT LastReasonShowsPrompt
INVARIANT NoForeignPrompt
INVARIANT FailClosed
INVARIANT NeverKilledByHost
PROPERTY EverySubmissionDecided
CHECK_DEADLOCK FALSE
