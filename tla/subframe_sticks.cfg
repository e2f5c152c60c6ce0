SPECIFICATION Spec
CONSTANTS
  Exposure = 2
  CaptureTimeout = 3
  AbortWait = 1
  Pulse = 2
  MovingWait = 1
  PulseGrace = 1
  Delays <- MCDelays
  CanAbort = TRUE
  CanCheckPulse = TRUE
  Binnings = {1}
  Subframes = {TRUE, FALSE}
  ReconnectTime = 1
  ReconnectWindow = 22
  MaxAttempts = 3
INVARIANT FrameSizeIsActual
