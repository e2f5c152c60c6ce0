----------------------------- MODULE MCCapture -----------------------------
(***************************************************************************)
(* Instances of the capture loop for TLC: which requests clients make.     *)
(***************************************************************************)
EXTENDS CaptureRefinement

GuideRequests ==
  {"guide", "loop", "stop", "single", "dither", "pauseGuiding", "resume",
   "find", "connectCamera"}
FaultRequests ==
  {"guide", "recalibrate", "decMode", "clearCalibration", "deselect",
   "pulse", "connectMount"}

\* what the runs that refute a claim need
StopGuideRequests == {"guide", "stop"}
PauseStopRequests == {"loop", "stop", "pauseFull", "resume"}
=============================================================================
