SPECIFICATION StoreSpec
CONSTANTS
  SecStart = 1
  SecEnd = 0
  Slots = 2
  MaxLife = 2
  MaxRetry = 3
  Data = {1, 2}
  Default = 0
  MaxFaults = 1
  MaxSeq = 6
INVARIANTS
  StoreTypeOK
  SuccessIsOnFlash
  SavedSurvives
  RestoredIsReal
  AppendIsSafe
