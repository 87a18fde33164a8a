SPECIFICATION SysSpec
CONSTANTS
  Axis <- MCAxis
  Device = {"pos", "neg", "estop"}
  PowerPos = "pos"
  PowerNeg = "neg"
  Emergency = "estop"
  NoDevice = "none"
  PrioPower = 5
  MaxQueue = 2
  MqDepth = 2
  Command = {}
  RecoverMs = 1
  WindowMs = 1
  BlockMs = 1
  DirInvert = FALSE
  MainAxis = 0
  RunDuty = 98
  Volts = {1, 3}
  Currents = {TRUE, FALSE}
  Shell <- NoShell
  MaxShell = 0
INVARIANTS
  SysTypeOK
  StateIsObeyed
  FaultBitsExplainState
  VoltFaultHolds
  DriveMatchesPolarity
  ReversalForgives
