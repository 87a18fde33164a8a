SPECIFICATION ArbSpec
CONSTANTS
  Axis = {0}
  Device = {"pos", "neg", "can", "limit"}
  PowerPos = "pos"
  PowerNeg = "neg"
  NoDevice = "none"
  PrioPower = 5
  MaxQueue = 2
  MqDepth = 2
  Command <- MCCommand
INVARIANTS
  ArbTypeOK
  QueuesWellFormed
  NeverDriveBlocked
  ActiveIsJustified
  PowerNeverConflicts
PROPERTY DisabledStaysStopped
