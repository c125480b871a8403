SPECIFICATION FairSpec
CONSTANTS
  Txns = {t1, t2}
  Payloads = {p1, p2}
  MaxVersion = 0
  None = None
CHECK_DEADLOCK FALSE
PROPERTY RecoveryCompletes
PROPERTY ImplementsAtomicPatch
