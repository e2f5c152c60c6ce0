---------------------------- MODULE MCDarkBuild ----------------------------
(***************************************************************************)
(* Instances of the capture loop beside builds and sessions for TLC.       *)
(***************************************************************************)
EXTENDS DarkBuild

CaptureRequests ==
  {"guide", "loop", "stop", "single", "pauseFull", "resume", "pulse",
   "connectCamera"}

\* what the runs that refute a claim need
LoopRequests == {"loop", "stop"}
OnlyGuideRequests == {"guide"}
=============================================================================
