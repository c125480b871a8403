SPECIFICATION Spec
CONSTANTS
  MaxInt = 31
  CharsPerToken = 4
  SystemLength = 3
  FramingLength = 1
  HeaderLength = 2
  MaxTurn = 4
  DirectiveLength = 2
  Cases <- MCCases
  Texts <- MCTexts
  RetryAfters = {0, 1, 9}
  BaseDelay = 1
  MaxDelay = 3
  Jitter = 2
  None = None
INVARIANT RequestInv
INVARIANT ReportsAreTrue
INVARIANT TaskReachesProvider
INVARIANT LanguageKeptOrReported
