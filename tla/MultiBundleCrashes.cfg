SPECIFICATION Spec
CONSTANTS
  Txns = {t1, t2}
  workbench = workbench
  main = main
  product = product
  Artifacts <- ThreeFiles
  Rank <- InstallOrder
  Unique <- DifferentFiles
  Product = product
  Shells = {s1, s2}
  None = None
SYMMETRY Symmetry
INVARIANT MixedIsReported
INVARIANT CrashIsRecognised
PROPERTY CommitsWholeSet
PROPERTY TerminalIsFinal
PROPERTY InstallationIsKept
