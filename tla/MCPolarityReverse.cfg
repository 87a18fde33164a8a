SPECIFICATION PolSpec
CONSTANTS
  WinSize = 5
  WordBits = 8
PROPERTY HighBecomesReverse
