SPECIFICATION Spec
CONSTANTS
  Installers = {i1, i2}
  Options <- MCOptions
  Paths <- MCPaths
  Links <- MCLinks
  Layouts <- MCLayouts
  MaxDuration = 200000
  MaxHostWrites = 2
  MaxFaults = 1
  Missing = Missing
  Broken = Broken
  None = None
INVARIANT FilesInv
INVARIANT SuccessStands
INVARIANT GivesUpOnlyWhenSpoiled
PROPERTY InstallEnds
