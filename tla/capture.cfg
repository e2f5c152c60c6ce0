SPECIFICATION DaemonFairSpec
CONSTANTS
  AutoFindAttempts = 1
  WaitSelectedFrames = 1
  SettleFrames = 2
  MaxPulses = 1
  MaxHangs = 2
  AutoExposure = FALSE
  InitialDecMode = "north"
  InitialSticky = FALSE
  Exposures = 2
  FrameCount = 2
  CameraReturns = {FALSE}
  Requests <- CaptureRequests
INVARIANTS CaptureGoesOn SingleAlone CameraAlone
PROPERTIES ImplementsSession BuildEnds
