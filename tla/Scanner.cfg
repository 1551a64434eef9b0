SPECIFICATION ScannerSpec
CONSTANTS
  BUFSIZE = 2
  Files <- MCFiles
  Keywords <- MCKeywords
  JunkTexts <- MCJunk
  Alphabet = {"a", "1", ".", "=", "+", "&", "#", "lf", "cr", "space", "255", "@"}
  ShortLength = 3
  LongLength = 6
INVARIANTS
  ScannerTypeOK
  TextFits
  LinesCounted
PROPERTIES
  ImplementsTokens
  CallsReturn
CHECK_DEADLOCK FALSE
