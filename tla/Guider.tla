------------------------------- MODULE Guider -------------------------------
(***************************************************************************)
(* The guider's state machine (guider.cpp, guider_multistar.cpp), the      *)
(* calibration of the mount it drives (mount.cpp, scope.cpp), and the      *)
(* notifications that end a guiding run, which reach into the controller.  *)
(* Positions, distances and pulse lengths are abstracted: what the image   *)
(* shows and what calibration makes of it come in with f.                  *)
(***************************************************************************)
EXTENDS WorkerThread

\* What one frame, and the requests handled with it, may turn out to be.
\*   star    Star::Find on the new image
\*   sel     AutoSelect: no star found, the second Find failed, or a star
\*   cal     a calibration leg goes on, ends, or fails
\*   moves   an ordinary guide step, or a measurement frame without a move
\*   settle  out of range, in range long enough, or past the timeout
Outcome ==
  [star : {"found", "lost"}, sel : {"none", "bad", "ok"},
   cal : {"step", "done", "fail"}, moves : BOOLEAN,
   settle : {"far", "settled", "timeout"}]

-----------------------------------------------------------------------------
(* Scope: calibration *)

\* Mutant: the switch on the Dec mode comes before Mount::IsCalibrated.
IsCalibratedByMode(s) == s.cal = "full" \/ s.decMode = "none"

\* Scope::IsCalibrated: with Dec guiding off the RA rates are enough
IsCalibrated(s) == s.cal = "full" \/ (s.cal = "ra" /\ s.decMode = "none")

ClearCalibration(s) == [s EXCEPT !.cal = "none", !.calRun = "cleared"]

\* A leg goes on with one more pulse; the end of the RA leg either stops
\* there, Dec guiding being off, or starts Dec with the first clearing
\* pulse.  A run whose RA leg ended with Dec off stores RA rates only, on
\* the next frame.  In a completed run each frame stores the result again.
UpdateCalibrationState(s, f) ==
  CASE s.calRun = "cleared" -> Assert_(s, "calibration running", FALSE)
    [] s.calRun \in {"ra", "dec"} /\ f.cal = "fail" -> ClearCalibration(s)
    [] s.calRun \in {"ra", "dec"} /\ f.cal = "step" -> ScheduleMove(s)
    [] s.calRun = "ra" /\ f.cal = "done" ->
         IF s.decMode = "none" THEN [s EXCEPT !.calRun = "raDone"]
         ELSE ScheduleMove([s EXCEPT !.calRun = "dec"])
    [] s.calRun = "raDone" -> [s EXCEPT !.cal = "ra"]
    [] OTHER -> [s EXCEPT !.cal = "full", !.calRun = "complete"]

CalibrationFails(s, f) == s.calRun \in {"ra", "dec"} /\ f.cal = "fail"

-----------------------------------------------------------------------------
(* PhdController: FINISH, and the abort that every stop leads to *)

\* STATE_FINISH: the Dec guide mode comes back, SettleDone is sent
Finish(s) ==
  [s EXCEPT !.ctrl = "idle", !.override = FALSE,
            !.decMode = IF s.override THEN s.saveDec ELSE @]

\* Mutant: an abort goes to idle past STATE_FINISH.
AbortUnfinished(s) == [s EXCEPT !.ctrl = "idle"]

\* do_fail followed by the loop's STATE_FINISH
AbortController(s) == IF s.ctrl = "idle" THEN s ELSE Finish(s)

\* Mutant: the controller is not told that guiding has stopped.
NotifyGuidingStoppedOnly(s) == [s EXCEPT !.toldGuiding = FALSE, !.owed = FALSE]

\* MyFrame::NotifyGuidingStopped
NotifyGuidingStopped(s) ==
  AbortController(
    [Assert_(s, "mount idle at stop", ~IsBusy(s))
       EXCEPT !.toldGuiding = FALSE, !.owed = FALSE])

\* MyFrame::NotifyGuidingStarted
NotifyGuidingStarted(s) == [s EXCEPT !.toldGuiding = TRUE]

-----------------------------------------------------------------------------
(* Guider: state changes *)

\* InvalidateCurrentPosition(false) keeps the star's coordinates
InvalidateCurrentPosition(s, full) ==
  [s EXCEPT !.star = IF full \/ @ = "none" THEN "none" ELSE "stale"]

\* SetState(STATE_UNINITIALIZED), which goes on to STATE_SELECTING
SetUninitialized(s) ==
  [InvalidateCurrentPosition(s, FALSE) EXCEPT !.guider = "selecting"]

\* Mutant: the old calibration is cleared last.
BeginThenClear(s) == [ClearCalibration(s) EXCEPT !.guider = "calibrating"]

\* Scope::BeginCalibration
BeginCalibration(s) ==
  [ClearCalibration(s) EXCEPT !.calRun = "ra", !.guider = "calibrating"]

\* SetState(STATE_CALIBRATING_PRIMARY), refused before STATE_SELECTED
StartGuider(s) ==
  CASE s.guider = "selecting" -> s
    [] s.guider # "selecting" /\ IsCalibrated(s) ->
         [s EXCEPT !.guider = "calibrated"]
    [] s.guider # "selecting" /\ ~IsCalibrated(s) ->
         IF s.mountOn /\ s.star = "valid" THEN BeginCalibration(s)
         ELSE SetUninitialized(s)

\* SetState(STATE_STOP)
SetStop(s) ==
  CASE s.guider = "calibrating" -> SetUninitialized(s)
    [] s.guider \in {"calibrated", "guiding"} -> [s EXCEPT !.guider = "selected"]
    [] OTHER -> s

\* Guider::StopGuiding: with a move outstanding the GuidingStopped
\* notification is left to the completion of that move
StopGuiding(s) ==
  SetStop(CASE CalibratingOrGuiding(s) /\ ~IsBusy(s) -> NotifyGuidingStopped(s)
            [] CalibratingOrGuiding(s) /\ IsBusy(s) -> [s EXCEPT !.owed = TRUE]
            [] OTHER -> s)

\* Mutant: the position is invalidated, the state is kept.
ResetPosition(s, full) == InvalidateCurrentPosition(s, full)

\* Guider::Reset
Reset(s, full) ==
  IF full THEN InvalidateCurrentPosition(SetUninitialized(s), TRUE)
  ELSE SetUninitialized(s)

-----------------------------------------------------------------------------
(* Guider::UpdateGuideState *)

\* The case STATE_CALIBRATED, which the calibration states fall into
BeginGuiding(s) == NotifyGuidingStarted([s EXCEPT !.guider = "guiding"])

CalibrationFrame(s, f) ==
  LET u == IF IsCalibrated(s) THEN s ELSE UpdateCalibrationState(s, f)
  IN CASE ~IsCalibrated(s) /\ CalibrationFails(s, f) -> SetUninitialized(u)
       [] IsCalibrated(u) -> BeginGuiding(u)
       [] OTHER -> u

\* UpdateCurrentPosition failed.  During calibration the frame is dropped;
\* while guiding, the algorithms get a zero offset to reckon from.
StarMissed(s) ==
  CASE s.guider = "selected" -> SetUninitialized(s)
    [] s.guider = "guiding" -> ScheduleMove(s)
    [] OTHER -> s

StarSeen(s, f) ==
  CASE s.guider = "selecting" /\ ~IsPaused(s) -> [s EXCEPT !.guider = "selected"]
    [] s.guider = "calibrating" /\ ~IsPaused(s) -> CalibrationFrame(s, f)
    [] s.guider = "calibrated" /\ ~IsPaused(s) -> BeginGuiding(s)
    [] s.guider = "guiding" /\ (IsPaused(s) \/ f.moves) -> ScheduleMove(s)
    [] OTHER -> s

FindStar(s, f) ==
  IF s.star # "none" /\ f.star = "found"
  THEN StarSeen([s EXCEPT !.star = "valid"], f)
  ELSE StarMissed(s)

UpdateGuideState(s, f, stopping) ==
  IF stopping THEN StopGuiding(s)
  ELSE FindStar(Assert_(s, "mount idle at frame", ~IsBusy(s)), f)

\* GuiderMultiStar::AutoSelect, which measures the current image, if there
\* is one: a star it found advances the guider at once if it is selecting.
AutoSelects(s, f) == s.image /\ f.sel = "ok"

AutoSelect(s, f) ==
  LET t == IF ~s.image \/ f.sel = "none" THEN s ELSE [s EXCEPT !.star = "valid"]
  IN IF AutoSelects(s, f) /\ t.guider = "selecting"
     THEN UpdateGuideState(t, [f EXCEPT !.star = "found"], FALSE)
     ELSE t
=============================================================================
