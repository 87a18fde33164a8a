SPECIFICATION StrokeSpec
CONSTANTS
  RecoverMs = 5
  WindowMs = 1
  BlockMs = 1
  DirInvert = FALSE
  RodEnd = 2
  WaitTicks = 2
  HoldTurns = 4
INVARIANT StrokeRemembered
CHECK_DEADLOCK FALSE
