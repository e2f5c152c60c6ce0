SPECIFICATION FairSpec
CONSTANTS
  AutoFindAttempts = 1
  WaitSelectedFrames = 1
  SettleFrames = 2
  MaxPulses = 1
  MaxHangs = 1
  AutoExposure = TRUE
  InitialDecMode = "north"
  InitialSticky = FALSE
  Requests <- GuideRequests
INVARIANTS ExposureAccounted PendingWhileActive MovesAccounted MoveBeforeFrame GuidingStoppedOwed GuidingTold SettleWhileGuiding DecModeRestored
PROPERTIES StopEnds OwedDelivered SettleEnds
