SPECIFICATION SysFairSpec
CONSTANTS
  Axis = {0}
  Device = {"pos", "neg", "estop"}
  PowerPos = "pos"
  PowerNeg = "neg"
  Emergency = "estop"
  NoDevice = "none"
  PrioPower = 5
  MaxQueue = 2
  MqDepth = 2
  Command = {}
  RecoverMs = 1
  WindowMs = 1
  BlockMs = 0
  DirInvert = TRUE
  MainAxis = 0
  RunDuty = 98
  Volts = {1, 3}
  Currents = {FALSE}
  Shell <- ShellBits
  MaxShell = 1
INVARIANTS
  StateIsObeyed
PROPERTIES
  BadVoltageStops
  
