SPECIFICATION Spec
CONSTANTS
  AutoFindAttempts = 2
  WaitSelectedFrames = 1
  SettleFrames = 1
  MaxPulses = 1
  MaxHangs = 0
  AutoExposure = FALSE
  InitialDecMode = "auto"
  InitialSticky = FALSE
  Requests <- FaultRequests
INVARIANTS CountdownsLast StopTogether StarWhenSelected
PROPERTIES CalibrationRuns GuidesCalibrated
