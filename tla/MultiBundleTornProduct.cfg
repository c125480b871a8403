SPECIFICATION Spec
CONSTANTS
  Txns = {t1}
  workbench = workbench
  main = main
  product = product
  Artifacts <- ThreeFiles
  Rank <- InstallOrder
  Unique <- DifferentFiles
  Product = product
  Shells = {s1}
  None = None
INVARIANT CrashIsRecoverable
