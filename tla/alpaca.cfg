SPECIFICATION FairSpec
CONSTANTS
  Exposure = 2
  CaptureTimeout = 3
  AbortWait = 1
  Pulse = 2
  MovingWait = 1
  PulseGrace = 1
  Delays <- MCDelays
  CanAbort = TRUE
  CanCheckPulse = TRUE
  Binnings = {2}
  Subframes = {FALSE}
  ReconnectTime = 1
  ReconnectWindow = 15
  MaxAttempts = 2
INVARIANTS FreshImage StopInTime HangsAreBounded PulseIsMade
PROPERTIES PulsesApart JobEnds
