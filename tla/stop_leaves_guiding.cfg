SPECIFICATION Spec
CONSTANTS
  AutoFindAttempts = 1
  WaitSelectedFrames = 1
  SettleFrames = 2
  MaxPulses = 1
  MaxHangs = 1
  AutoExposure = FALSE
  InitialDecMode = "north"
  InitialSticky = FALSE
  Requests <- StopGuideRequests
INVARIANTS StopTogether
CHECK_DEADLOCK FALSE
