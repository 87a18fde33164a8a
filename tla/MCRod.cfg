SPECIFICATION RodSpec
CONSTANTS
  Axis = {0}
  Device = {"pos", "neg", "estop", "rodfwd", "rodrev"}
  PowerPos = "pos"
  PowerNeg = "neg"
  Emergency = "estop"
  NoDevice = "none"
  PrioPower = 5
  MaxQueue = 2
  MqDepth = 2
  Command = {}
  RecoverMs = 1
  WindowMs = 1
  BlockMs = 1
  DirInvert = FALSE
  MainAxis = 0
  RunDuty = 98
  Volts = {3}
  Currents = {TRUE, FALSE}
  Shell <- NoShell
  MaxShell = 0
  Stroke = 3
  WinA = 0
  WinB = 0
  WinC = 3
  WinD = 3
  StopMargin = 0
  RodLimitFwd = "rodfwd"
  RodLimitRev = "rodrev"
  PrioLimit = 1
  Obstacles = TRUE
  Prompt = FALSE
INVARIANTS
  BlockMatchesLimit
