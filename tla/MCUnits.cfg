SPECIFICATION UnitSpec
CONSTANTS
  RecoverMs = 5
  WindowMs = 2
  BlockMs = 2
  DirInvert = TRUE
  WinSize = 5
  WordBits = 8
  ConfirmCnt = 2
  StopTurns = 1
  StallTurns = 2
  HallInvert = FALSE
  PerTurn = 2
  MaxJump = 3
  Task = {"canary", "rod", "act"}
  Periodic = {"canary", "rod"}
  Stronger = {"canary"}
  BeatSlots = 2
  BeatTimeout = 2
  BeatEvery = 1
  CheckEvery = 2
  TickWord = 6
  Wrap = 8
  Scale = 3
  Freq = 2
  Word = 12
  Caller = {1, 2}
  MaxCounts = 11
  MaxUpdates = 3
  RodEnd = 2
  WaitTicks = 2
  HoldTurns = 4
  WinLen = 3
  RawValue = {0, 2, 5}
  Neutral = 4
  DutyMin = 1
  DutyMax = 7
  RunDuty = 2
  RampSlow = 1
  RampFast = 2
INVARIANTS
  PowerTypeOK
  NormalNeedsCalm
  OverCurrentNeedsTime
  HighCurrentReported
  PulsesAreTrue
  
  RestoredIsTrue
  KnownIsKept
  MeanIsSound
  
PROPERTIES
  PolarityIsSource
  VerdictNeedsWindow
  LowBecomesForward
  NamedIsStale
  StarvedIsNamed
  
  
CHECK_DEADLOCK FALSE
