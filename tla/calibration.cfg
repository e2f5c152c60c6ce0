SPECIFICATION FairSpec
CONSTANTS
  CalibrationDuration = 2
  CalibrationDistance = 13
  MaxCalibrationSteps = 3
  MaxClearingPulses = 4
  MaxNudges = 3
  MaxMovePixels = 10
  MaxAxisDuration = 3
  FastRecenter = TRUE
  Speed = 3
  Play = 3
INVARIANTS RatesTrue
PROPERTIES RaReturned NudgesApproach ImplementsLegs CalibrationEnds
