------------------------------- MODULE MyFrame -------------------------------
(***************************************************************************)
(* MyFrame's capture loop (myframe.cpp, myframe_events.cpp): starting,     *)
(* pausing and stopping captures, and what the completion of a move does.  *)
(* m_continueCapturing is the intent; CaptureActive follows it when an     *)
(* exposure completes.                                                     *)
(***************************************************************************)
EXTENDS Guider

\* SingleExposure::Activate succeeded / SingleExposure::Complete
ActivateSingle(s) == [s EXCEPT !.single = TRUE]
CompleteSingle(s) == [s EXCEPT !.single = FALSE]

\* Mutant: a stop leaves the single exposure as it is.
FinishLoopOnly(s) == AbortController(s)

FinishStop(s) ==
  AbortController(CompleteSingle(
    Assert_(s, "capture inactive at stop", ~s.active)))

StartCapturing(s) ==
  LET t == [s EXCEPT !.active = TRUE, !.continue = @ \/ ~s.single]
  IN CASE s.active -> s
       [] ~s.active /\ ~s.pending -> ScheduleExposure(t)
       [] OTHER -> t

\* Mutants: a resume starts an exposure for a capture that is being
\* stopped too; a resume starts none.
ResumeAlways(s, pause) ==
  LET t == [s EXCEPT !.paused = pause]
  IN IF pause = "none" /\ IsPaused(s) /\ ~s.pending THEN ScheduleExposure(t) ELSE t
ResumeOnly(s, pause) == [s EXCEPT !.paused = pause]

\* A pause stays what it first was until it is resumed.
SetPaused(s, pause) ==
  LET resumed == [s EXCEPT !.paused = "none"]
  IN CASE pause # "none" /\ ~IsPaused(s) -> [s EXCEPT !.paused = pause]
       [] pause = "none" /\ IsPaused(s) ->
            IF s.continue /\ ~s.pending THEN ScheduleExposure(resumed) ELSE resumed
       [] OTHER -> s

StopIfGuiding(s) == IF CalibratingOrGuiding(s) THEN StopGuiding(s) ELSE s

\* Mutant: capture is inactive at once, with the exposure still under way.
StopAtOnce(s) ==
  LET t == IF IsPaused(s) THEN SetPaused([s EXCEPT !.continue = FALSE], "none") ELSE s
      stopped == [t EXCEPT !.continue = FALSE, !.active = FALSE]
  IN CASE s.pending -> RequestStop(stopped)
       [] s.continue /\ ~s.pending -> FinishStop(StopIfGuiding(stopped))
       [] OTHER -> t

\* continue is cleared first, so that resuming schedules nothing
StopCapturing(s) ==
  LET t == IF IsPaused(s) THEN SetPaused([s EXCEPT !.continue = FALSE], "none") ELSE s
      stopped == [t EXCEPT !.continue = FALSE]
  IN CASE s.pending -> RequestStop(stopped)
       [] s.continue /\ ~s.pending ->
            FinishStop(StopIfGuiding([stopped EXCEPT !.active = FALSE]))
       [] OTHER -> t

\* Only an active capture is guarded against looping and guiding already; a
\* guider left guiding by a stop goes on with the frames to come.  The camera
\* is connected in each caller's guard.
StartLooping(s) ==
  CASE s.active /\ CalibratingOrGuiding(s) -> StartCapturing(StopGuiding(s))
    [] s.active /\ ~CalibratingOrGuiding(s) -> s
    [] ~s.active -> StartCapturing(s)

CanStartGuiding(s) == s.mountOn /\ s.camera /\ s.guider # "selecting"

\* MyFrame::StartGuiding, once its condition holds
StartGuiding(s) == StartCapturing(StartGuider(s))

-----------------------------------------------------------------------------
(* The failed exposure, as OnExposeComplete and DoTryReconnect handle it *)

\* Mutant: the error path ends the capture by itself, without StopCapturing,
\* and leaves the controller waiting.
ExposeFailedOnly(s) ==
  SetUninitialized(CompleteSingle(StopIfGuiding(
    [s EXCEPT !.continue = FALSE, !.active = FALSE])))

ExposeFailed(s) ==
  LET t == SetUninitialized(CompleteSingle(StopIfGuiding(StopCapturing(s))))
  IN AbortController([t EXCEPT !.active = t.continue])

\* Mutants: an error return before the request count is decremented; no
\* late notification; a late notification for a guider at work again.
MoveCompleteOrError(s, e) ==
  IF e = "moveSlewing" THEN StopGuiding(s) ELSE [s EXCEPT !.reqs = 0]
MoveCompleteSilent(s, e) ==
  LET d == [s EXCEPT !.reqs = 0] IN IF e = "moveSlewing" THEN StopGuiding(d) ELSE d
MoveCompleteNotifies(s, e) == NotifyGuidingStopped([s EXCEPT !.reqs = 0])

\* OnMoveComplete, with the move's result: the late notification, unless the
\* guider is at work again, which voids what was owed for the run before
MoveComplete(s, e) ==
  LET d == [Assert_(s, "mount busy at completion", IsBusy(s))
              EXCEPT !.reqs = @ - 1]
      n == IF ~CalibratingOrGuiding(d) /\ ~IsBusy(d) THEN NotifyGuidingStopped(d)
           ELSE [d EXCEPT !.owed = @ /\ IsBusy(d)]
  IN IF e = "moveSlewing" THEN StopGuiding(n) ELSE n
=============================================================================
