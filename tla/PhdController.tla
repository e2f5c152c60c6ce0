---------------------------- MODULE PhdController ----------------------------
(***************************************************************************)
(* The controller behind the guide and dither requests (phdcontrol.cpp).   *)
(* UpdateControllerState loops over a switch; each operator below is one   *)
(* case, and where the source goes round the loop again it is the operator *)
(* of the next case that is applied.                                       *)
(***************************************************************************)
EXTENDS MyFrame

To(s, state) == [s EXCEPT !.ctrl = state]

\* STATE_SETTLE_BEGIN
SettleBegin(s) ==
  [s EXCEPT !.ctrl = "settleWait", !.settled = 0,
            !.decMode = IF s.override THEN "auto" ELSE @]

\* Mutant: frames are not counted, nor the time.
SettleUncounted(s, f) ==
  IF s.star = "valid" /\ f.star = "found" /\ f.settle = "settled" THEN Finish(s) ELSE s

\* STATE_SETTLE_WAIT: the frame limit, then the range, then the timeout
SettleWait(s, f) ==
  LET locked == s.star = "valid" /\ f.star = "found"
      done == \/ s.settled + 1 >= SettleFrames
              \/ locked /\ f.settle = "settled"
              \/ f.settle = "timeout"
      t == [s EXCEPT !.settled = @ + 1]
  IN IF done THEN Finish(t) ELSE t

\* STATE_GUIDE
Guide(s) == IF CanStartGuiding(s) THEN To(StartGuiding(s), "settleBegin") ELSE Finish(s)

\* The lock position is made sticky for the calibration.
StickForCalibration(s) ==
  [s EXCEPT !.saveSticky = s.sticky, !.haveSave = TRUE, !.sticky = TRUE]

RestoreSticky(s) == IF s.haveSave THEN [s EXCEPT !.sticky = s.saveSticky] ELSE s

\* STATE_CALIBRATE
Calibrate(s) ==
  LET t == IF s.force THEN ClearCalibration(s) ELSE s
      u == StickForCalibration(t)
  IN CASE IsCalibrated(t) -> Guide(t)
       [] ~IsCalibrated(t) /\ CanStartGuiding(t) -> To(StartGuiding(u), "calibrationWait")
       [] OTHER -> Finish(RestoreSticky(u))

\* STATE_CALIBRATION_WAIT
CalibrationWait(s) == IF IsCalibrated(s) THEN SettleBegin(RestoreSticky(s)) ELSE s

\* Mutant: the wait for the star goes on with what the last one left.
SelectStarOnly(s, f) ==
  LET refused == CalibratingOrGuiding(s)
      found == ~refused /\ AutoSelects(s, f)
      t == IF refused THEN s ELSE AutoSelect(s, f)
      less == [t EXCEPT !.finds = @ - 1]
  IN CASE found -> To(t, "waitSelected")
       [] ~found /\ less.finds = 0 -> Finish(less)
       [] OTHER -> To(Reset(less, TRUE), "attemptStart")

\* STATE_SELECT_STAR; AutoSelectStar refuses while calibrating or guiding
SelectStar(s, f) ==
  LET refused == CalibratingOrGuiding(s)
      found == ~refused /\ AutoSelects(s, f)
      t == IF refused THEN s ELSE AutoSelect(s, f)
      less == [t EXCEPT !.finds = @ - 1]
  IN CASE found ->
            [To(t, "waitSelected") EXCEPT !.waits = WaitSelectedFrames]
       [] ~found /\ less.finds = 0 -> Finish(less)
       [] OTHER -> To(Reset(less, TRUE), "attemptStart")

\* STATE_WAIT_SELECTED
WaitSelected(s) ==
  LET less == [s EXCEPT !.waits = @ - 1]
  IN CASE s.guider = "selected" -> Calibrate(s)
       [] s.guider # "selected" /\ less.waits = 0 -> To(less, "attemptStart")
       [] OTHER -> less

CanGuide(s) == s.camera /\ s.mountOn

\* STATE_ATTEMPT_START
AttemptStart(s, f) ==
  CASE ~CanGuide(s) -> Finish(s)
    [] CanGuide(s) /\ CalibratingOrGuiding(s) ->
         (CASE s.force -> Calibrate(s)
            [] ~s.force /\ s.guider \in {"calibrated", "guiding"} -> SettleBegin(s)
            [] OTHER -> To(s, "calibrationWait"))
    [] CanGuide(s) /\ ~CalibratingOrGuiding(s) /\ ~s.active ->
         To(StartCapturing(Reset(s, TRUE)), "selectStar")
    [] OTHER ->
         (CASE s.guider = "selected" -> Calibrate(s)
            [] s.guider # "selected" /\ AutoExposure -> To(s, "selectStar")
            [] OTHER -> SelectStar(s, f))

\* STATE_SETUP
Setup(s, f) ==
  AttemptStart([s EXCEPT !.haveSave = FALSE, !.finds = AutoFindAttempts,
                         !.override = FALSE], f)

UpdateControllerState(s, f) ==
  CASE s.ctrl = "attemptStart" -> AttemptStart(s, f)
    [] s.ctrl = "selectStar" -> SelectStar(s, f)
    [] s.ctrl = "waitSelected" -> WaitSelected(s)
    [] s.ctrl = "calibrationWait" -> CalibrationWait(s)
    [] s.ctrl = "settleBegin" -> SettleBegin(s)
    [] s.ctrl = "settleWait" -> SettleWait(s, f)
    [] OTHER -> s

\* PhdController::Guide; the guide request always asks for a sticky lock
StartGuideOp(s, recalibrate, f) == Setup([s EXCEPT !.force = recalibrate], f)

\* PhdController::Dither.  A one-sided Dec mode is overridden for a settle
\* with a settling time, and every other one but auto dithers RA only.
StartDither(s, raOnly, timed) ==
  SettleBegin([s EXCEPT !.override = ~raOnly /\ timed /\ s.decMode = "north",
                        !.saveDec = IF raOnly THEN "none" ELSE s.decMode])
=============================================================================
