SPECIFICATION Spec
CONSTANTS
  Txns = {t1, t2, t3}
  Payloads = {p1, p2}
  MaxVersion = 2
  None = None
SYMMETRY Symmetry
CHECK_DEADLOCK FALSE
INVARIANT RecoveryUnambiguous
INVARIANT TornPairIsFlagged
INVARIANT InjectedIsUninstallable
PROPERTY NoDowngrade
