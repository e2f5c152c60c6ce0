--------------------------- MODULE CaptureProofs ---------------------------
(***************************************************************************)
(* Proofs, for every value of the constants and every set of requests,     *)
(* that the fields keep their types and that exposures are accounted for.  *)
(*                                                                         *)
(* Of the operators from record to record, those of Scope, Guider and the  *)
(* notifications leave the capture loop's own fields alone (Keeps); those  *)
(* of the controller may also start a capture (Carries); those that stop   *)
(* one leave no exposure behind that was not there (Stops).  One lemma per *)
(* operator says which, and the steps of the three actors follow.          *)
(***************************************************************************)
EXTENDS CaptureProperties, FiniteSetTheorems, TLAPS

-----------------------------------------------------------------------------
(* Operators that leave the capture loop's fields alone *)

\* t has the type of a state, and the fields of s that exposures depend on
Spares(s, t) ==
  /\ t \in AppRecord
  /\ t.low = s.low
  /\ t.pending = s.pending
  /\ t.active = s.active
  /\ t.continue = s.continue

\* the controller states that count down
Searching == {"attemptStart", "selectStar", "waitSelected"}

\* ... and its countdowns, which at most come to rest
Keeps(s, t) ==
  /\ Spares(s, t)
  /\ t.finds = s.finds
  /\ t.waits = s.waits
  /\ t.ctrl = s.ctrl \/ t.ctrl \notin Searching

\* Every operator below is shown to keep what its argument has kept of some
\* earlier state r, so that compositions need no transitivity.
LEMMA KeepsItself == ASSUME NEW s \in AppRecord PROVE Keeps(s, s)
BY DEF Keeps, Spares

\* A failed assertion is remembered, and nothing else changes.
LEMMA AssertKeeps ==
  ASSUME NEW r, NEW s, Keeps(r, s), NEW n \in Assertions, NEW b \in BOOLEAN
  PROVE Keeps(r, Assert_(s, n, b))
BY DEF Assert_, AppRecord, Keeps, Spares

\* Mount::IncrementRequestCount counts one more.
LEMMA IncrementKeeps ==
  ASSUME NEW r, NEW s, Keeps(r, s)
  PROVE Keeps(r, IncrementRequestCount(s))
<1> DEFINE n == s.reqs + 1
           i == [s EXCEPT !.reqs = n]
<1>1. n \in Int BY DEF AppRecord, Keeps, Spares
<1>2. Keeps(r, i)
  <2> HIDE DEF n
  <2> QED BY <1>1 DEF AppRecord, Keeps, Spares
<1>3. (n <= 2) \in BOOLEAN BY <1>1
<1> HIDE DEF i
<1>4. Keeps(r, Assert_(i, "request count", n <= 2))
  <2> DEFINE b == n <= 2
  <2>1. b \in BOOLEAN BY <1>3
  <2> HIDE DEF b
  <2>2. Keeps(r, Assert_(i, "request count", b))
    BY <1>2, <2>1, AssertKeeps DEF Assertions
  <2> QED BY <2>2 DEF b
<1> QED BY <1>4 DEF i, IncrementRequestCount

\* A move is queued for the worker (MyFrame::SchedulePrimaryMove).
LEMMA ScheduleMoveKeeps ==
  ASSUME NEW r, NEW s, Keeps(r, s)
  PROVE Keeps(r, ScheduleMove(s))
<1> DEFINE t == IncrementRequestCount(s)
           h == Append(t.high, "move")
<1>1. Keeps(r, t) BY IncrementKeeps
<1> HIDE DEF t
<1>2. h \in Seq(MoveRequests) BY <1>1 DEF AppRecord, MoveRequests, Keeps, Spares
<1>3. Keeps(r, [t EXCEPT !.high = h, !.intStop = FALSE])
  <2> HIDE DEF h
  <2> QED BY ZenonT(60), <1>1, <1>2 DEF AppRecord, Keeps, Spares
<1> QED BY <1>3 DEF t, ScheduleMove

\* So is a manual pulse (MyFrame::ScheduleManualMove).
LEMMA ScheduleManualMoveKeeps ==
  ASSUME NEW r, NEW s, Keeps(r, s)
  PROVE Keeps(r, ScheduleManualMove(s))
<1> DEFINE h == Append(s.high, "pulse")
<1>1. h \in Seq(MoveRequests) BY DEF AppRecord, MoveRequests, Keeps, Spares
<1>2. Keeps(r, [s EXCEPT !.high = h, !.intStop = FALSE])
  <2> HIDE DEF h
  <2> QED BY <1>1 DEF AppRecord, Keeps, Spares
<1> QED BY <1>2 DEF ScheduleManualMove

\* Scope: a calibration is cleared, or goes on by one frame.
LEMMA ClearCalibrationKeeps ==
  ASSUME NEW r, NEW s, Keeps(r, s)
  PROVE Keeps(r, ClearCalibration(s))
BY DEF ClearCalibration, AppRecord, Keeps, Spares, CalibrationStates, Calibrations

LEMMA UpdateCalibrationKeeps ==
  ASSUME NEW r, NEW s, Keeps(r, s), NEW f
  PROVE Keeps(r, UpdateCalibrationState(s, f))
<1>1. Keeps(r, Assert_(s, "calibration running", FALSE))
  BY AssertKeeps DEF Assertions
<1>2. Keeps(r, ScheduleMove(s)) BY ScheduleMoveKeeps
<1>3. Keeps(r, ClearCalibration(s)) BY ClearCalibrationKeeps
<1>4. /\ Keeps(r, [s EXCEPT !.calRun = "dec"])
      /\ Keeps(r, [s EXCEPT !.calRun = "raDone"])
      /\ Keeps(r, [s EXCEPT !.cal = "ra"])
      /\ Keeps(r, [s EXCEPT !.cal = "full", !.calRun = "complete"])
  BY ZenonT(60) DEF AppRecord, Keeps, Spares, CalibrationStates, Calibrations
<1>5. Keeps(r, ScheduleMove([s EXCEPT !.calRun = "dec"]))
  BY <1>4, ScheduleMoveKeeps
<1> QED BY <1>1, <1>2, <1>3, <1>4, <1>5
        DEF UpdateCalibrationState

\* The controller's FINISH, its abort, and the end of guiding that calls it
LEMMA FinishKeeps ==
  ASSUME NEW r, NEW s, Keeps(r, s)
  PROVE Keeps(r, Finish(s))
<1> DEFINE d == IF s.override THEN s.saveDec ELSE s.decMode
<1>1. d \in DecModes BY DEF AppRecord, Keeps, Spares
<1>2. Keeps(r, [s EXCEPT !.ctrl = "idle", !.override = FALSE, !.decMode = d])
  <2> HIDE DEF d
  <2> DEFINE t == [s EXCEPT !.ctrl = "idle", !.override = FALSE, !.decMode = d]
  <2>1. Spares(r, t)
    BY ZenonT(60), <1>1 DEF AppRecord, Keeps, Spares, ControllerStates
  <2>2. t.ctrl = "idle" /\ t.finds = r.finds /\ t.waits = r.waits
    BY DEF AppRecord, Keeps, Spares
  <2> QED BY <2>1, <2>2 DEF Keeps, Searching
<1> QED BY <1>2 DEF Finish

LEMMA AbortControllerKeeps ==
  ASSUME NEW r, NEW s, Keeps(r, s)
  PROVE Keeps(r, AbortController(s))
BY FinishKeeps DEF AbortController

LEMMA NotifyGuidingStoppedKeeps ==
  ASSUME NEW r, NEW s, Keeps(r, s)
  PROVE Keeps(r, NotifyGuidingStopped(s))
<1> DEFINE b == ~IsBusy(s)
           t == Assert_(s, "mount idle at stop", b)
           u == [t EXCEPT !.toldGuiding = FALSE, !.owed = FALSE]
<1>1. b \in BOOLEAN BY DEF IsBusy, AppRecord, Keeps, Spares
<1>2. Keeps(r, t)
  <2> HIDE DEF b
  <2> QED BY <1>1, AssertKeeps DEF Assertions
<1>3. Keeps(r, u)
  <2> HIDE DEF t
  <2> QED BY ZenonT(60), <1>2 DEF AppRecord, Keeps, Spares
<1>4. Keeps(r, AbortController(u))
  <2> HIDE DEF u
  <2> QED BY <1>3, AbortControllerKeeps
<1> QED BY <1>4 DEF NotifyGuidingStopped

\* The guider's own steps (Guider::SetState, StartGuiding, StopGuiding)
LEMMA SetUninitializedKeeps ==
  ASSUME NEW r, NEW s, Keeps(r, s)
  PROVE Keeps(r, SetUninitialized(s))
BY ZenonT(60) DEF SetUninitialized, InvalidateCurrentPosition, AppRecord, Keeps, Spares,
       StarStates, GuiderStates

LEMMA InvalidateKeeps ==
  ASSUME NEW r, NEW s, Keeps(r, s), NEW full
  PROVE Keeps(r, InvalidateCurrentPosition(s, full))
BY DEF InvalidateCurrentPosition, AppRecord, Keeps, Spares, StarStates

LEMMA ResetKeeps ==
  ASSUME NEW r, NEW s, Keeps(r, s), NEW full
  PROVE Keeps(r, Reset(s, full))
<1>1. Keeps(r, SetUninitialized(s)) BY SetUninitializedKeeps
<1>2. Keeps(r, InvalidateCurrentPosition(SetUninitialized(s), TRUE))
  BY <1>1, InvalidateKeeps
<1> QED BY <1>1, <1>2 DEF Reset

LEMMA BeginCalibrationKeeps ==
  ASSUME NEW r, NEW s, Keeps(r, s)
  PROVE Keeps(r, BeginCalibration(s))
<1> DEFINE t == ClearCalibration(s)
<1>1. Keeps(r, t) BY ClearCalibrationKeeps
<1>2. Keeps(r, [t EXCEPT !.calRun = "ra", !.guider = "calibrating"])
  <2> HIDE DEF t
  <2> QED BY <1>1 DEF AppRecord, Keeps, Spares, CalibrationStates, GuiderStates
<1> QED BY <1>2 DEF BeginCalibration

LEMMA StartGuiderKeeps ==
  ASSUME NEW r, NEW s, Keeps(r, s)
  PROVE Keeps(r, StartGuider(s))
<1>1. Keeps(r, BeginCalibration(s)) BY BeginCalibrationKeeps
<1>2. Keeps(r, SetUninitialized(s)) BY SetUninitializedKeeps
<1>3. Keeps(r, [s EXCEPT !.guider = "calibrated"])
  BY DEF AppRecord, Keeps, Spares, GuiderStates
<1> QED BY <1>1, <1>2, <1>3 DEF StartGuider

LEMMA SetStopKeeps ==
  ASSUME NEW r, NEW s, Keeps(r, s)
  PROVE Keeps(r, SetStop(s))
<1>1. Keeps(r, SetUninitialized(s)) BY SetUninitializedKeeps
<1>2. Keeps(r, [s EXCEPT !.guider = "selected"])
  BY DEF AppRecord, Keeps, Spares, GuiderStates
<1> QED BY <1>1, <1>2 DEF SetStop

LEMMA StopGuidingKeeps ==
  ASSUME NEW r, NEW s, Keeps(r, s)
  PROVE Keeps(r, StopGuiding(s))
<1>1. Keeps(r, NotifyGuidingStopped(s)) BY NotifyGuidingStoppedKeeps
<1>2. Keeps(r, [s EXCEPT !.owed = TRUE]) BY DEF AppRecord, Keeps, Spares
<1>3. Keeps(r, SetStop(NotifyGuidingStopped(s))) BY <1>1, SetStopKeeps
<1>4. Keeps(r, SetStop([s EXCEPT !.owed = TRUE])) BY <1>2, SetStopKeeps
<1>5. Keeps(r, SetStop(s)) BY SetStopKeeps
<1> QED BY <1>3, <1>4, <1>5 DEF StopGuiding

LEMMA StopIfGuidingKeeps ==
  ASSUME NEW r, NEW s, Keeps(r, s)
  PROVE Keeps(r, StopIfGuiding(s))
BY StopGuidingKeeps DEF StopIfGuiding

\* Guider::UpdateGuideState
LEMMA BeginGuidingKeeps ==
  ASSUME NEW r, NEW s, Keeps(r, s)
  PROVE Keeps(r, BeginGuiding(s))
BY DEF BeginGuiding, NotifyGuidingStarted, AppRecord, Keeps, Spares, GuiderStates

LEMMA CalibrationFrameKeeps ==
  ASSUME NEW r, NEW s, Keeps(r, s), NEW f
  PROVE Keeps(r, CalibrationFrame(s, f))
<1> DEFINE u == IF IsCalibrated(s) THEN s ELSE UpdateCalibrationState(s, f)
<1>1. Keeps(r, u) BY UpdateCalibrationKeeps
<1> HIDE DEF u
<1>2. Keeps(r, SetUninitialized(u)) BY <1>1, SetUninitializedKeeps
<1>3. Keeps(r, BeginGuiding(u)) BY <1>1, BeginGuidingKeeps
<1>4. CalibrationFrame(s, f) =
        CASE ~IsCalibrated(s) /\ CalibrationFails(s, f) -> SetUninitialized(u)
          [] IsCalibrated(u) -> BeginGuiding(u)
          [] OTHER -> u
  BY DEF u, CalibrationFrame
<1> QED BY <1>1, <1>2, <1>3, <1>4

LEMMA StarMissedKeeps ==
  ASSUME NEW r, NEW s, Keeps(r, s)
  PROVE Keeps(r, StarMissed(s))
BY SetUninitializedKeeps, ScheduleMoveKeeps DEF StarMissed

LEMMA StarSeenKeeps ==
  ASSUME NEW r, NEW s, Keeps(r, s), NEW f
  PROVE Keeps(r, StarSeen(s, f))
<1>1. Keeps(r, [s EXCEPT !.guider = "selected"])
  BY DEF AppRecord, Keeps, Spares, GuiderStates
<1>2. Keeps(r, CalibrationFrame(s, f)) BY CalibrationFrameKeeps
<1>3. Keeps(r, BeginGuiding(s)) BY BeginGuidingKeeps
<1>4. Keeps(r, ScheduleMove(s)) BY ScheduleMoveKeeps
<1> QED BY <1>1, <1>2, <1>3, <1>4 DEF StarSeen

LEMMA UpdateGuideStateKeeps ==
  ASSUME NEW r, NEW s, Keeps(r, s), NEW f, NEW stopping \in BOOLEAN
  PROVE Keeps(r, UpdateGuideState(s, f, stopping))
<1> DEFINE b == ~IsBusy(s)
           t == Assert_(s, "mount idle at frame", b)
           v == [t EXCEPT !.star = "valid"]
<1>1. b \in BOOLEAN BY DEF IsBusy, AppRecord, Keeps, Spares
<1>2. Keeps(r, t)
  <2> HIDE DEF b
  <2> QED BY <1>1, AssertKeeps DEF Assertions
<1> HIDE DEF t
<1>3. Keeps(r, v) BY <1>2 DEF AppRecord, Keeps, Spares, StarStates
<1> HIDE DEF v
<1>4. Keeps(r, StarSeen(v, f)) BY <1>3, StarSeenKeeps
<1>5. Keeps(r, StarMissed(t)) BY <1>2, StarMissedKeeps
<1>6. Keeps(r, FindStar(t, f)) BY <1>4, <1>5 DEF FindStar, v
<1>7. Keeps(r, StopGuiding(s)) BY StopGuidingKeeps
<1> QED BY <1>6, <1>7 DEF UpdateGuideState, t

LEMMA AutoSelectKeeps ==
  ASSUME NEW r, NEW s, Keeps(r, s), NEW f
  PROVE Keeps(r, AutoSelect(s, f))
<1> DEFINE t == IF ~s.image \/ f.sel = "none" THEN s ELSE [s EXCEPT !.star = "valid"]
           g == [f EXCEPT !.star = "found"]
<1>1. Keeps(r, t) BY DEF AppRecord, Keeps, Spares, StarStates
<1>2. Keeps(r, UpdateGuideState(t, g, FALSE))
  <2> HIDE DEF t, g
  <2> QED BY <1>1, UpdateGuideStateKeeps
<1> QED BY <1>1, <1>2 DEF AutoSelect

\* MyFrame::FinishStop, and SingleExposure
LEMMA SingleKeeps ==
  ASSUME NEW r, NEW s, Keeps(r, s)
  PROVE Keeps(r, ActivateSingle(s)) /\ Keeps(r, CompleteSingle(s))
BY ZenonT(60) DEF ActivateSingle, CompleteSingle, AppRecord, Keeps, Spares

LEMMA FinishStopKeeps ==
  ASSUME NEW r, NEW s, Keeps(r, s)
  PROVE Keeps(r, FinishStop(s))
<1> DEFINE b == ~s.active
           t == Assert_(s, "capture inactive at stop", b)
<1>1. b \in BOOLEAN BY DEF AppRecord, Keeps, Spares
<1>2. Keeps(r, t)
  <2> HIDE DEF b
  <2> QED BY <1>1, AssertKeeps DEF Assertions
<1> HIDE DEF t
<1>3. Keeps(r, CompleteSingle(t)) BY <1>2, SingleKeeps
<1>4. Keeps(r, AbortController(CompleteSingle(t))) BY <1>3, AbortControllerKeeps
<1> QED BY <1>4 DEF FinishStop, t

\* MyFrame::OnMoveComplete
LEMMA MoveCompleteKeeps ==
  ASSUME NEW r, NEW s, Keeps(r, s), NEW e
  PROVE Keeps(r, MoveComplete(s, e))
<1> DEFINE b == IsBusy(s)
           t == Assert_(s, "mount busy at completion", b)
           n == t.reqs - 1
           d == [t EXCEPT !.reqs = n]
           o == d.owed /\ IsBusy(d)
           v == [d EXCEPT !.owed = o]
           m == IF ~CalibratingOrGuiding(d) /\ ~IsBusy(d)
                THEN NotifyGuidingStopped(d) ELSE v
<1>1. b \in BOOLEAN BY DEF IsBusy, AppRecord, Keeps, Spares
<1>2. Keeps(r, t)
  <2> HIDE DEF b
  <2> QED BY <1>1, AssertKeeps DEF Assertions
<1>3. n \in Int
  <2> HIDE DEF t
  <2> QED BY <1>2 DEF AppRecord, Keeps, Spares
<1>4. Keeps(r, d)
  <2> HIDE DEF t, n
  <2> QED BY <1>2, <1>3 DEF AppRecord, Keeps, Spares
<1>5. Keeps(r, m)
  <2> HIDE DEF d
  <2>1. o \in BOOLEAN BY <1>4 DEF IsBusy, AppRecord, Keeps, Spares
  <2>2. Keeps(r, v)
    <3> HIDE DEF o
    <3> QED BY <1>4, <2>1 DEF AppRecord, Keeps, Spares
  <2> HIDE DEF v
  <2> QED BY <1>4, <2>2, NotifyGuidingStoppedKeeps
<1>6. MoveComplete(s, e) = IF e = "moveSlewing" THEN StopGuiding(m) ELSE m
  BY DEF MoveComplete
<1> HIDE DEF m
<1> QED BY <1>5, <1>6, StopGuidingKeeps

-----------------------------------------------------------------------------
(* Operators that may start a capture *)

\* With n exposures out in the worker and on their way back, each pending
\* exposure is in one place and belongs to an active capture.
Accounted(s, n) ==
  /\ s.low + n = IF s.pending THEN 1 ELSE 0
  /\ s.pending => s.active
  /\ s.continue => s.active

\* s follows from r without a second exposure, and without any change to
\* the capture loop's fields when capture was active.
Carries(r, s) ==
  /\ s \in AppRecord
  /\ r.active => Spares(r, s)
  /\ \A n \in Nat : Accounted(r, n) => Accounted(s, n)

LEMMA CarriesItself == ASSUME NEW s \in AppRecord PROVE Carries(s, s)
BY DEF Carries, Keeps, Spares

LEMMA SparesCarries ==
  ASSUME NEW r, NEW s, NEW t, Carries(r, s), Spares(s, t)
  PROVE Carries(r, t)
BY DEF Carries, Spares, Accounted

LEMMA KeepsCarries ==
  ASSUME NEW r, NEW s, NEW t, Carries(r, s), Keeps(s, t)
  PROVE Carries(r, t)
BY SparesCarries DEF Keeps

\* MyFrame::ScheduleExposure queues one exposure and marks it pending.
LEMMA ScheduleExposureQueues ==
  ASSUME NEW s \in AppRecord
  PROVE LET t == ScheduleExposure(s)
        IN /\ t \in AppRecord
           /\ t.low = s.low + 1
           /\ t.pending = TRUE
           /\ t.active = s.active
           /\ t.continue = s.continue
<1> DEFINE b == ~s.pending
           t == Assert_(s, "exposure not pending", b)
           n == t.low + 1
           u == [t EXCEPT !.pending = TRUE, !.low = n, !.intStop = FALSE]
<1>1. b \in BOOLEAN BY DEF AppRecord
<1>2. Keeps(s, t)
  <2> HIDE DEF b
  <2> QED BY <1>1, KeepsItself, AssertKeeps DEF Assertions
<1>3. n = s.low + 1 /\ n \in Nat
  <2> HIDE DEF t
  <2> QED BY <1>2 DEF AppRecord, Keeps, Spares
<1>4. /\ u \in AppRecord
      /\ u.low = n /\ u.pending = TRUE
      /\ u.active = s.active /\ u.continue = s.continue
  <2> HIDE DEF t, n
  <2> QED BY ZenonT(60), <1>2, <1>3 DEF AppRecord, Keeps, Spares
<1>5. ScheduleExposure(s) = u BY DEF ScheduleExposure
<1> HIDE DEF u, n
<1> QED BY <1>3, <1>4, <1>5

\* MyFrame::StartCapturing starts an exposure just when none is under way.
LEMMA StartCapturingCarries ==
  ASSUME NEW r, NEW s, Carries(r, s)
  PROVE Carries(r, StartCapturing(s))
<1> DEFINE c == s.continue \/ ~s.single
           t == [s EXCEPT !.active = TRUE, !.continue = c]
           u == ScheduleExposure(t)
<1>1. s \in AppRecord BY DEF Carries
<1>2. CASE s.active
  BY <1>2 DEF StartCapturing
<1>3. CASE ~s.active /\ ~s.pending
  <2>1. /\ t \in AppRecord
        /\ t.low = s.low /\ t.pending = s.pending /\ t.active = TRUE
    <3>1. c \in BOOLEAN BY <1>1 DEF AppRecord
    <3> HIDE DEF c
    <3> QED BY ZenonT(60), <1>1, <3>1 DEF AppRecord
  <2>2. StartCapturing(s) = u BY <1>3 DEF StartCapturing
  <2> HIDE DEF t
  <2>3. u \in AppRecord /\ u.low = s.low + 1 /\ u.pending = TRUE /\ u.active = TRUE
    BY <2>1, ScheduleExposureQueues
  <2>4. ~r.active BY <1>3 DEF Carries, Keeps, Spares
  <2>5. ASSUME NEW n \in Nat, Accounted(s, n) PROVE Accounted(u, n)
    <3>1. s.low \in Nat BY <1>1 DEF AppRecord
    <3> HIDE DEF u
    <3> QED BY <1>3, <2>3, <2>5, <3>1 DEF Accounted
  <2> HIDE DEF u
  <2> QED BY <2>2, <2>3, <2>4, <2>5 DEF Carries
<1>4. CASE ~s.active /\ s.pending
  <2>1. t \in AppRecord
    <3>1. c \in BOOLEAN BY <1>1 DEF AppRecord
    <3> HIDE DEF c
    <3> QED BY <1>1, <3>1 DEF AppRecord
  <2>2. StartCapturing(s) = t BY <1>4 DEF StartCapturing
  <2>3. ~r.active BY <1>4 DEF Carries, Keeps, Spares
  <2>4. ASSUME NEW n \in Nat PROVE ~Accounted(s, n)
    BY <1>4 DEF Accounted
  <2> HIDE DEF t
  <2> QED BY <2>1, <2>2, <2>3, <2>4 DEF Carries
<1>5. s.active \in BOOLEAN /\ s.pending \in BOOLEAN BY <1>1 DEF AppRecord
<1> QED BY <1>2, <1>3, <1>4, <1>5

\* MyFrame::StartLooping and StartGuiding, and the requests that reset first
LEMMA StartCarries ==
  ASSUME NEW r, NEW s, Carries(r, s)
  PROVE /\ Carries(r, StartLooping(s))
        /\ Carries(r, StartGuiding(s))
        /\ Carries(r, StartCapturing(Reset(s, TRUE)))
        /\ Carries(r, StartCapturing(ActivateSingle(s)))
<1>0. s \in AppRecord BY DEF Carries
<1>1. Carries(r, StopGuiding(s))
  BY <1>0, KeepsItself, StopGuidingKeeps, KeepsCarries
<1>2. Carries(r, StartGuider(s))
  BY <1>0, KeepsItself, StartGuiderKeeps, KeepsCarries
<1>3. Carries(r, Reset(s, TRUE))
  BY <1>0, KeepsItself, ResetKeeps, KeepsCarries
<1>4. Carries(r, ActivateSingle(s))
  BY <1>0, KeepsItself, SingleKeeps, KeepsCarries
<1>5. Carries(r, StartLooping(s))
  BY <1>1, StartCapturingCarries DEF StartLooping
<1> QED BY <1>2, <1>3, <1>4, <1>5, StartCapturingCarries DEF StartGuiding

-----------------------------------------------------------------------------
(* The controller: PhdController::UpdateControllerState, case by case *)

LEMMA FinishCarries ==
  ASSUME NEW r, NEW s, Carries(r, s)
  PROVE Carries(r, Finish(s))
BY KeepsItself, FinishKeeps, KeepsCarries DEF Carries

\* Fields of the controller are set, to values of their types.
LEMMA ToSpares ==
  ASSUME NEW s \in AppRecord, NEW state \in ControllerStates
  PROVE Spares(s, To(s, state))
BY DEF To, AppRecord, Spares

LEMMA CountdownSpares ==
  ASSUME NEW s \in AppRecord, NEW n \in Int
  PROVE Spares(s, [s EXCEPT !.waits = n]) /\ Spares(s, [s EXCEPT !.finds = n])
BY DEF AppRecord, Spares

LEMMA ToCarries ==
  ASSUME NEW r, NEW s, Carries(r, s), NEW state \in ControllerStates
  PROVE Carries(r, To(s, state))
BY ToSpares, SparesCarries DEF Carries

LEMMA CountdownCarries ==
  ASSUME NEW r, NEW s, Carries(r, s), NEW n \in Int
  PROVE Carries(r, [s EXCEPT !.waits = n]) /\ Carries(r, [s EXCEPT !.finds = n])
BY CountdownSpares, SparesCarries DEF Carries

LEMMA SettleBeginKeeps ==
  ASSUME NEW r, NEW s, Keeps(r, s)
  PROVE Keeps(r, SettleBegin(s))
<1> DEFINE d == IF s.override THEN "auto" ELSE s.decMode
<1>1. d \in DecModes BY DEF AppRecord, Keeps, Spares, DecModes
<1>2. Keeps(r, [s EXCEPT !.ctrl = "settleWait", !.settled = 0, !.decMode = d])
  <2> HIDE DEF d
  <2> DEFINE t == [s EXCEPT !.ctrl = "settleWait", !.settled = 0, !.decMode = d]
  <2>1. Spares(r, t) BY <1>1 DEF AppRecord, Keeps, Spares, ControllerStates
  <2>2. t.ctrl = "settleWait" /\ t.finds = r.finds /\ t.waits = r.waits
    BY DEF AppRecord, Keeps, Spares
  <2> QED BY <2>1, <2>2 DEF Keeps, Searching
<1> QED BY <1>2 DEF SettleBegin

LEMMA SettleBeginCarries ==
  ASSUME NEW r, NEW s, Carries(r, s)
  PROVE Carries(r, SettleBegin(s))
BY KeepsItself, SettleBeginKeeps, KeepsCarries DEF Carries

LEMMA SettleWaitCarries ==
  ASSUME NEW r, NEW s, Carries(r, s), NEW f
  PROVE Carries(r, SettleWait(s, f))
<1> DEFINE n == s.settled + 1
           t == [s EXCEPT !.settled = n]
<1>1. s \in AppRecord /\ n \in Nat BY DEF Carries, AppRecord
<1>2. Keeps(s, t)
  <2> HIDE DEF n
  <2> QED BY <1>1 DEF Keeps, Spares, AppRecord
<1>3. SettleWait(s, f) \in {t, Finish(t)} BY DEF SettleWait
<1> HIDE DEF t
<1>4. Carries(r, t) BY <1>2, KeepsCarries
<1> QED BY <1>3, <1>4, FinishCarries

LEMMA GuideCarries ==
  ASSUME NEW r, NEW s, Carries(r, s)
  PROVE Carries(r, Guide(s))
<1>1. Carries(r, StartGuiding(s)) BY StartCarries
<1>2. Carries(r, To(StartGuiding(s), "settleBegin"))
  BY <1>1, ToCarries DEF ControllerStates
<1> QED BY <1>2, FinishCarries DEF Guide

LEMMA StickyKeeps ==
  ASSUME NEW r, NEW s, Keeps(r, s)
  PROVE Keeps(r, StickForCalibration(s)) /\ Keeps(r, RestoreSticky(s))
<1>1. Keeps(r, StickForCalibration(s))
  <2>1. s.sticky \in BOOLEAN BY DEF AppRecord, Keeps, Spares
  <2> QED BY <2>1 DEF StickForCalibration, AppRecord, Keeps, Spares
<1>2. Keeps(r, RestoreSticky(s))
  <2>1. s.saveSticky \in BOOLEAN BY DEF AppRecord, Keeps, Spares
  <2>2. Keeps(r, [s EXCEPT !.sticky = s.saveSticky])
    BY <2>1 DEF AppRecord, Keeps, Spares
  <2> QED BY <2>2 DEF RestoreSticky
<1> QED BY <1>1, <1>2

LEMMA StickyCarries ==
  ASSUME NEW r, NEW s, Carries(r, s)
  PROVE Carries(r, StickForCalibration(s)) /\ Carries(r, RestoreSticky(s))
BY KeepsItself, StickyKeeps, KeepsCarries DEF Carries

LEMMA CalibrateCarries ==
  ASSUME NEW r, NEW s, Carries(r, s)
  PROVE Carries(r, Calibrate(s))
<1> DEFINE t == IF s.force THEN ClearCalibration(s) ELSE s
           u == StickForCalibration(t)
<1>1. Carries(r, t)
  BY KeepsItself, ClearCalibrationKeeps, KeepsCarries DEF Carries
<1>2. Calibrate(s) \in {Guide(t), To(StartGuiding(u), "calibrationWait"),
                        Finish(RestoreSticky(u))}
  BY DEF Calibrate
<1> HIDE DEF t
<1>3. Carries(r, u) BY <1>1, StickyCarries
<1> HIDE DEF u
<1>4. Carries(r, Guide(t)) BY <1>1, GuideCarries
<1>5. Carries(r, To(StartGuiding(u), "calibrationWait"))
  BY <1>3, StartCarries, ToCarries DEF ControllerStates
<1>6. Carries(r, Finish(RestoreSticky(u)))
  BY <1>3, StickyCarries, FinishCarries
<1> QED BY <1>2, <1>4, <1>5, <1>6

LEMMA CalibrationWaitCarries ==
  ASSUME NEW r, NEW s, Carries(r, s)
  PROVE Carries(r, CalibrationWait(s))
BY StickyCarries, SettleBeginCarries DEF CalibrationWait

LEMMA SelectStarCarries ==
  ASSUME NEW r, NEW s, Carries(r, s), NEW f
  PROVE Carries(r, SelectStar(s, f))
<1> DEFINE t == IF CalibratingOrGuiding(s) THEN s ELSE AutoSelect(s, f)
           n == t.finds - 1
           less == [t EXCEPT !.finds = n]
           w == [To(t, "waitSelected") EXCEPT !.waits = WaitSelectedFrames]
<1>1. Carries(r, t)
  BY KeepsItself, AutoSelectKeeps, KeepsCarries DEF Carries
<1>2. SelectStar(s, f) \in {w, Finish(less), To(Reset(less, TRUE), "attemptStart")}
  BY DEF SelectStar
<1> HIDE DEF t
<1>3. Carries(r, w)
  <2>1. Carries(r, To(t, "waitSelected")) BY <1>1, ToCarries DEF ControllerStates
  <2>2. WaitSelectedFrames \in Int BY BoundsAssumption
  <2> QED BY <2>1, <2>2, CountdownCarries
<1>4. n \in Int BY <1>1 DEF Carries, AppRecord
<1>5. Carries(r, less)
  <2> HIDE DEF n
  <2> QED BY <1>1, <1>4, CountdownCarries
<1> HIDE DEF less, w
<1>6. Carries(r, Reset(less, TRUE))
  BY <1>5, KeepsItself, ResetKeeps, KeepsCarries DEF Carries
<1>7. Carries(r, To(Reset(less, TRUE), "attemptStart"))
  BY <1>6, ToCarries DEF ControllerStates
<1> QED BY <1>2, <1>3, <1>5, <1>7, FinishCarries

LEMMA WaitSelectedCarries ==
  ASSUME NEW r, NEW s, Carries(r, s)
  PROVE Carries(r, WaitSelected(s))
<1> DEFINE n == s.waits - 1
           less == [s EXCEPT !.waits = n]
<1>1. n \in Int BY DEF Carries, AppRecord
<1>2. Carries(r, less)
  <2> HIDE DEF n
  <2> QED BY <1>1, CountdownCarries
<1>3. WaitSelected(s) \in {Calibrate(s), To(less, "attemptStart"), less}
  BY DEF WaitSelected
<1> HIDE DEF less
<1>4. Carries(r, To(less, "attemptStart"))
  BY <1>2, ToCarries DEF ControllerStates
<1> QED BY <1>2, <1>3, <1>4, CalibrateCarries

LEMMA AttemptStartCarries ==
  ASSUME NEW r, NEW s, Carries(r, s), NEW f
  PROVE Carries(r, AttemptStart(s, f))
<1>1. Carries(r, To(s, "calibrationWait")) /\ Carries(r, To(s, "selectStar"))
  BY ToCarries DEF ControllerStates
<1>2. Carries(r, To(StartCapturing(Reset(s, TRUE)), "selectStar"))
  BY StartCarries, ToCarries DEF ControllerStates
<1>3. Carries(r, Finish(s)) /\ Carries(r, Calibrate(s)) /\ Carries(r, SettleBegin(s))
  BY FinishCarries, CalibrateCarries, SettleBeginCarries
<1>4. Carries(r, SelectStar(s, f)) BY SelectStarCarries
<1>5. AttemptStart(s, f) \in
        {To(s, "calibrationWait"), To(s, "selectStar"), Finish(s), Calibrate(s),
         SettleBegin(s), SelectStar(s, f),
         To(StartCapturing(Reset(s, TRUE)), "selectStar")}
  BY DEF AttemptStart
<1> QED BY <1>1, <1>2, <1>3, <1>4, <1>5

LEMMA StartGuideOpCarries ==
  ASSUME NEW r, NEW s, Carries(r, s), NEW recalibrate \in BOOLEAN, NEW f
  PROVE Carries(r, StartGuideOp(s, recalibrate, f))
<1> DEFINE t == [s EXCEPT !.force = recalibrate]
           u == [t EXCEPT !.haveSave = FALSE, !.finds = AutoFindAttempts,
                          !.override = FALSE]
<1>1. Spares(s, t) BY DEF Carries, Spares, AppRecord
<1>2. Spares(s, u)
  <2> HIDE DEF t
  <2>1. AutoFindAttempts \in Int BY BoundsAssumption
  <2> QED BY ZenonT(60), <1>1, <2>1 DEF Spares, AppRecord
<1>3. Carries(r, u)
  <2> HIDE DEF u
  <2> QED BY <1>2, SparesCarries
<1>4. StartGuideOp(s, recalibrate, f) = AttemptStart(u, f)
  BY DEF StartGuideOp, Setup
<1> HIDE DEF u
<1> QED BY <1>3, <1>4, AttemptStartCarries

LEMMA StartDitherCarries ==
  ASSUME NEW r, NEW s, Carries(r, s), NEW raOnly \in BOOLEAN, NEW timed \in BOOLEAN
  PROVE Carries(r, StartDither(s, raOnly, timed))
<1> DEFINE b == ~raOnly /\ timed /\ s.decMode = "north"
           d == IF raOnly THEN "none" ELSE s.decMode
           t == [s EXCEPT !.override = b, !.saveDec = d]
<1>1. s \in AppRecord BY DEF Carries
<1>2. b \in BOOLEAN /\ d \in DecModes BY <1>1 DEF AppRecord, DecModes
<1>3. Keeps(s, t)
  <2> HIDE DEF b, d
  <2> QED BY ZenonT(60), <1>1, <1>2 DEF Keeps, Spares, AppRecord
<1>4. StartDither(s, raOnly, timed) = SettleBegin(t) BY DEF StartDither
<1> HIDE DEF t
<1> QED BY <1>3, <1>4, KeepsCarries, SettleBeginCarries

\* A frame whose capture is active leaves the capture loop's fields alone.
LEMMA UpdateControllerStateCarries ==
  ASSUME NEW r, NEW s, Carries(r, s), NEW f
  PROVE Carries(r, UpdateControllerState(s, f))
<1>1. UpdateControllerState(s, f) \in
        {AttemptStart(s, f), SelectStar(s, f), WaitSelected(s), CalibrationWait(s),
         SettleBegin(s), SettleWait(s, f), s}
  BY DEF UpdateControllerState
<1> QED BY <1>1, AttemptStartCarries, SelectStarCarries, WaitSelectedCarries,
           CalibrationWaitCarries, SettleBeginCarries, SettleWaitCarries

-----------------------------------------------------------------------------
(* Pausing, stopping and failing *)

\* A resume queues an exposure only for a capture that goes on without one.
LEMMA SetPausedTypes ==
  ASSUME NEW s \in AppRecord, NEW pause \in PauseTypes
  PROVE /\ SetPaused(s, pause) \in AppRecord
        /\ ~s.continue => Keeps(s, SetPaused(s, pause))
        /\ \A n \in Nat : Accounted(s, n) => Accounted(SetPaused(s, pause), n)
<1> DEFINE p == [s EXCEPT !.paused = pause]
           t == [s EXCEPT !.paused = "none"]
           u == ScheduleExposure(t)
<1>1. Keeps(s, p) /\ Keeps(s, t) /\ Keeps(s, s)
  BY DEF Keeps, Spares, AppRecord, PauseTypes
<1>2. SetPaused(s, pause) =
        CASE pause # "none" /\ ~IsPaused(s) -> p
          [] pause = "none" /\ IsPaused(s) ->
               IF s.continue /\ ~s.pending THEN u ELSE t
          [] OTHER -> s
  BY DEF SetPaused
<1> HIDE DEF p, t
<1>3. /\ u \in AppRecord
      /\ u.low = s.low + 1 /\ u.pending = TRUE
      /\ u.active = s.active /\ u.continue = s.continue
  BY <1>1, ScheduleExposureQueues DEF Keeps, Spares
<1>4. \/ SetPaused(s, pause) \in {p, t, s}
      \/ s.continue /\ ~s.pending /\ SetPaused(s, pause) = u
  <2> HIDE DEF u
  <2> QED BY <1>2
<1> HIDE DEF u
<1>5. CASE SetPaused(s, pause) \in {p, t, s}
  BY <1>1, <1>5 DEF Keeps, Spares, Accounted
<1>6. CASE s.continue /\ ~s.pending /\ SetPaused(s, pause) = u
  <2>1. s.low \in Nat BY DEF AppRecord
  <2>2. ASSUME NEW n \in Nat, Accounted(s, n) PROVE Accounted(u, n)
    BY <1>3, <1>6, <2>1, <2>2 DEF Accounted
  <2> QED BY <1>3, <1>6, <2>2
<1> QED BY <1>4, <1>5, <1>6

\* t follows from s, capture not to go on, active at most if it was, and
\* until the pending exposure has completed.
Stops(s, t) ==
  /\ t \in AppRecord
  /\ t.low = s.low
  /\ t.pending = s.pending
  /\ t.continue = FALSE
  /\ s.pending => t.active = s.active

LEMMA StopCapturingStops ==
  ASSUME NEW s \in AppRecord
  PROVE Stops(s, StopCapturing(s))
<1> DEFINE c == [s EXCEPT !.continue = FALSE]
           t == IF IsPaused(s) THEN SetPaused(c, "none") ELSE s
           v == [t EXCEPT !.continue = FALSE]
           w == RequestStop(v)
           x == [v EXCEPT !.active = FALSE]
           y == FinishStop(StopIfGuiding(x))
<1>1. Stops(s, c) BY DEF Stops, AppRecord
<1>2. Keeps(c, SetPaused(c, "none"))
  <2>1. c \in AppRecord /\ c.continue = FALSE BY <1>1 DEF Stops
  <2> HIDE DEF c
  <2> QED BY <2>1, SetPausedTypes DEF PauseTypes
<1>3. /\ t \in AppRecord /\ t.low = s.low /\ t.pending = s.pending
      /\ t.active = s.active /\ t.continue = (s.continue /\ ~IsPaused(s))
  <2>1. s.continue \in BOOLEAN BY DEF AppRecord
  <2>2. c.active = s.active BY DEF AppRecord
  <2> HIDE DEF c
  <2> QED BY <1>1, <1>2, <2>1, <2>2 DEF Stops, Keeps, Spares
<1>4. StopCapturing(s) = CASE s.pending -> w
                           [] s.continue /\ ~s.pending -> y
                           [] OTHER -> t
  BY DEF StopCapturing
<1> HIDE DEF t
<1>5. Stops(s, v) /\ v.active = s.active BY <1>3 DEF Stops, AppRecord
<1> HIDE DEF v
<1>6. Stops(s, w) BY <1>5 DEF Stops, AppRecord, RequestStop
<1>7. CASE s.continue /\ ~s.pending
  <2>1. Stops(s, x) BY <1>5, <1>7 DEF Stops, AppRecord
  <2> HIDE DEF x
  <2>2. Keeps(x, x) BY <2>1, KeepsItself DEF Stops
  <2>3. Keeps(x, StopIfGuiding(x)) BY <2>2, StopIfGuidingKeeps
  <2>4. Keeps(x, y) BY <2>3, FinishStopKeeps
  <2> HIDE DEF y
  <2> QED BY <1>4, <1>7, <2>1, <2>4 DEF Stops, Keeps, Spares
<1> HIDE DEF w, y
<1>8. s.continue \in BOOLEAN /\ s.pending \in BOOLEAN BY DEF AppRecord
<1>9. CASE ~s.continue /\ ~s.pending
  <2>1. StopCapturing(s) = t BY <1>4, <1>9
  <2> QED BY <1>3, <1>9, <2>1 DEF Stops
<1>10. CASE s.pending BY <1>4, <1>6, <1>10
<1> QED BY <1>7, <1>8, <1>9, <1>10

\* The failed exposure stops capture: nothing is pending, nothing goes on.
LEMMA ExposeFailedStops ==
  ASSUME NEW s \in AppRecord, s.pending = FALSE
  PROVE LET t == ExposeFailed(s)
        IN Stops(s, t) /\ t.active = FALSE
<1> DEFINE q == StopCapturing(s)
           t == SetUninitialized(CompleteSingle(StopIfGuiding(q)))
           a == t.continue
           u == [t EXCEPT !.active = a]
<1>1. Stops(s, q) BY StopCapturingStops
<1> HIDE DEF q
<1>2. Keeps(q, q) BY <1>1, KeepsItself DEF Stops
<1>3. Keeps(q, StopIfGuiding(q)) BY <1>2, StopIfGuidingKeeps
<1>4. Keeps(q, CompleteSingle(StopIfGuiding(q))) BY <1>3, SingleKeeps
<1>5. Keeps(q, t) BY <1>4, SetUninitializedKeeps
<1> HIDE DEF t
<1>6. Stops(s, u) /\ u.active = FALSE
  <2>1. a = FALSE BY <1>1, <1>5 DEF Stops, Keeps, Spares
  <2> HIDE DEF a
  <2> QED BY ZenonT(60), <1>1, <1>5, <2>1 DEF Stops, Keeps, Spares, AppRecord
<1> HIDE DEF u
<1>7. Keeps(u, u) BY <1>6, KeepsItself DEF Stops
<1>8. Keeps(u, AbortController(u)) BY <1>7, AbortControllerKeeps
<1>9. ExposeFailed(s) = AbortController(u) BY DEF ExposeFailed, u, t, q
<1> QED BY <1>6, <1>8, <1>9 DEF Stops, Keeps, Spares

\* The completion of an exposure, the last one under way: in error ...
LEMMA ExposureEndsCompletes ==
  ASSUME NEW s \in AppRecord, Accounted(s, 1)
  PROVE ExposureEnds(s) \in AppRecord /\ Accounted(ExposureEnds(s), 0)
<1> DEFINE t == [s EXCEPT !.pending = FALSE]
<1>1. s.low = 0 /\ s.pending = TRUE
  <2>1. s.low \in Nat /\ s.pending \in BOOLEAN BY DEF AppRecord
  <2> QED BY <2>1 DEF Accounted
<1>2. /\ t \in AppRecord /\ t.low = 0 /\ t.pending = FALSE
      /\ t.active = s.active /\ t.continue = s.continue
  BY ZenonT(60), <1>1 DEF AppRecord
<1>3. ExposureEnds(s) = IF s.paused = "full" THEN t ELSE ExposeFailed(t)
  BY DEF ExposureEnds
<1> HIDE DEF t
<1>4. Accounted(t, 0) BY <1>2 DEF Accounted
<1> DEFINE u == ExposeFailed(t)
<1>5. Stops(t, u) /\ u.active = FALSE BY <1>2, ExposeFailedStops
<1> HIDE DEF u
<1>6. u \in AppRecord /\ u.low = 0 /\ u.pending = FALSE /\ u.continue = FALSE
  BY <1>2, <1>5 DEF Stops
<1>7. Accounted(u, 0) BY <1>6 DEF Accounted
<1> QED BY <1>2, <1>3, <1>4, <1>6, <1>7 DEF u

\* ... or with a frame, after which the next one is queued or none is.
LEMMA FrameTakenCompletes ==
  ASSUME NEW s \in AppRecord, Accounted(s, 1), NEW f
  PROVE FrameTaken(s, f) \in AppRecord /\ Accounted(FrameTaken(s, f), 0)
<1> DEFINE t == [s EXCEPT !.pending = FALSE, !.image = TRUE]
           b == ~s.continue
           g == UpdateGuideState(t, f, b)
           c == UpdateControllerState(g, f)
           a == c.continue
           n == [c EXCEPT !.active = a]
<1>1. s.low = 0 /\ s.active = TRUE
  <2>1. s.low \in Nat /\ s.pending \in BOOLEAN /\ s.active \in BOOLEAN
    BY DEF AppRecord
  <2> QED BY <2>1 DEF Accounted
<1>2. t \in AppRecord /\ t.low = 0 /\ t.pending = FALSE /\ t.active = TRUE
  BY <1>1 DEF AppRecord
<1>3. b \in BOOLEAN BY DEF AppRecord
<1>4. FrameTaken(s, f) = IF n.active THEN ScheduleExposure(n) ELSE FinishStop(n)
  BY DEF FrameTaken
<1> HIDE DEF t, b
<1>5. Keeps(t, g) BY <1>2, <1>3, KeepsItself, UpdateGuideStateKeeps
<1> HIDE DEF g
<1>6. g \in AppRecord /\ g.active = TRUE BY <1>2, <1>5 DEF Keeps, Spares
<1>7. Carries(g, c) BY <1>6, CarriesItself, UpdateControllerStateCarries
<1> HIDE DEF c
<1>8. c \in AppRecord /\ c.low = 0 /\ c.pending = FALSE
  BY <1>2, <1>5, <1>6, <1>7 DEF Carries, Keeps, Spares
<1>9. n \in AppRecord /\ n.low = 0 /\ n.pending = FALSE /\ n.active = n.continue
  <2>1. a \in BOOLEAN BY <1>8 DEF AppRecord
  <2>2. n.continue = a BY <1>8 DEF AppRecord
  <2> HIDE DEF a
  <2> QED BY ZenonT(60), <1>8, <2>1, <2>2 DEF AppRecord
<1> HIDE DEF n
<1>10. CASE n.active
  <2> DEFINE u == ScheduleExposure(n)
  <2>1. /\ u \in AppRecord /\ u.low = n.low + 1 /\ u.pending = TRUE
        /\ u.active = n.active
    BY <1>9, ScheduleExposureQueues
  <2> HIDE DEF u
  <2>2. Accounted(u, 0) BY <1>9, <1>10, <2>1 DEF Accounted
  <2> QED BY <1>4, <1>10, <2>1, <2>2 DEF u
<1>11. CASE ~n.active
  <2>1. Keeps(n, FinishStop(n)) BY <1>9, KeepsItself, FinishStopKeeps
  <2> QED BY <1>4, <1>9, <1>11, <2>1 DEF Keeps, Spares, Accounted
<1> QED BY <1>10, <1>11

-----------------------------------------------------------------------------
(* Counting events in the queue *)

LEMMA CountFinite ==
  ASSUME NEW S, NEW q \in Seq(S), NEW K
  PROVE /\ IsFiniteSet({i \in DOMAIN q : q[i] \in K})
        /\ CountOf(q, K) \in Nat
<1>1. IsFiniteSet(1 .. Len(q)) BY FS_Interval
<1>2. IsFiniteSet({i \in DOMAIN q : q[i] \in K}) BY <1>1, FS_Subset
<1> QED BY <1>2, FS_CardinalityType DEF CountOf

\* An event posted at the end counts if it is of the kind counted.
LEMMA CountAppend ==
  ASSUME NEW S, NEW q \in Seq(S), NEW e \in S, NEW K
  PROVE CountOf(Append(q, e), K) = CountOf(q, K) + (IF e \in K THEN 1 ELSE 0)
<1> DEFINE A == {i \in DOMAIN q : q[i] \in K}
           p == Append(q, e)
           B == {i \in DOMAIN p : p[i] \in K}
           l == Len(q) + 1
<1>1. IsFiniteSet(A) /\ Cardinality(A) \in Nat BY CountFinite DEF CountOf
<1>2. DOMAIN q = 1 .. Len(q) /\ DOMAIN p = 1 .. l /\ Len(q) \in Nat
  OBVIOUS
<1>3. p[l] = e /\ \A i \in 1 .. Len(q) : p[i] = q[i] OBVIOUS
<1>4. l \notin A BY <1>2
<1>5. B = IF e \in K THEN A \cup {l} ELSE A
  <2> HIDE DEF p
  <2> QED BY <1>2, <1>3
<1>6. Cardinality(A \cup {l}) = Cardinality(A) + 1
  <2> HIDE DEF A, l
  <2> QED BY <1>1, <1>4, FS_AddElement
<1> HIDE DEF A, B, l
<1>7. Cardinality(B) = Cardinality(A) + (IF e \in K THEN 1 ELSE 0)
  BY <1>1, <1>5, <1>6
<1> QED BY <1>7 DEF A, B, CountOf

\* An event taken from the front counted if it was of that kind.
LEMMA CountTail ==
  ASSUME NEW S, NEW q \in Seq(S), q # <<>>, NEW K
  PROVE CountOf(q, K) = CountOf(Tail(q), K) + (IF Head(q) \in K THEN 1 ELSE 0)
<1> DEFINE p == Tail(q)
           A == {i \in DOMAIN p : p[i] \in K}
           C == {i \in DOMAIN q : i > 1 /\ q[i] \in K}
           B == {i \in DOMAIN q : q[i] \in K}
           f == [i \in A |-> i + 1]
<1>1. /\ p \in Seq(S) /\ Len(q) \in Nat /\ Len(q) >= 1
      /\ DOMAIN q = 1 .. Len(q) /\ DOMAIN p = 1 .. (Len(q) - 1)
  OBVIOUS
<1>2. \A i \in 1 .. (Len(q) - 1) : p[i] = q[i + 1] OBVIOUS
<1>3. IsFiniteSet(A) /\ Cardinality(A) \in Nat
  BY <1>1, CountFinite DEF CountOf
<1>4. f \in Bijection(A, C)
  <2> HIDE DEF p
  <2>1. \A i \in A : i + 1 \in C BY <1>1, <1>2
  <2>2. \A j \in C : j - 1 \in A /\ f[j - 1] = j BY <1>1, <1>2
  <2>3. \A i, j \in A : f[i] = f[j] => i = j BY <1>1
  <2>4. f \in [A -> C] BY <2>1
  <2> HIDE DEF A, C, f
  <2> QED BY <2>2, <2>3, <2>4 DEF Bijection, Injection, Surjection, IsInjective
<1>5. IsFiniteSet(C) /\ Cardinality(C) = Cardinality(A)
  <2> HIDE DEF A, C, f
  <2> QED BY <1>3, <1>4, FS_Bijection DEF ExistsBijection
<1>6. B = IF Head(q) \in K THEN C \cup {1} ELSE C
  <2>1. Head(q) = q[1] OBVIOUS
  <2> QED BY <1>1, <2>1
<1>7. 1 \notin C BY <1>1
<1>8. Cardinality(C \cup {1}) = Cardinality(C) + 1
  <2> HIDE DEF C
  <2> QED BY <1>5, <1>7, FS_AddElement
<1> HIDE DEF A, B, C
<1>9. Cardinality(B) = Cardinality(A) + (IF Head(q) \in K THEN 1 ELSE 0)
  BY <1>3, <1>5, <1>6, <1>8
<1> QED BY <1>9 DEF A, B, p, CountOf

-----------------------------------------------------------------------------
(* The inductive invariant *)

\* The completion to be skipped is that of the capture being made.
SkipInCapture == worker.skip => worker.job = "capture"

\* Neither the count nor PendingWhileActive is inductive alone: that no
\* second exposure is started rests on both, and that a completion is not
\* skipped by mistake on the worker's flag.
IInv ==
  /\ TypeOK
  /\ SkipInCapture
  /\ Accounted(app, ExposuresOut)

\* What the two ends of the event queue do to the count
LEMMA Posting ==
  ASSUME TypeOK, NEW e \in Events, Post(e)
  PROVE /\ events' \in Seq(Events)
        /\ CountOf(events, ExposureEvents) \in Nat
        /\ CountOf(events', ExposureEvents) =
             CountOf(events, ExposureEvents) + (IF e \in ExposureEvents THEN 1 ELSE 0)
<1>1. events \in Seq(Events) /\ events' = Append(events, e)
  BY DEF TypeOK, Post
<1>2. events' \in Seq(Events) BY <1>1
<1>3. CountOf(events, ExposureEvents) \in Nat BY <1>1, CountFinite
<1>4. CountOf(Append(events, e), ExposureEvents) =
        CountOf(events, ExposureEvents) + (IF e \in ExposureEvents THEN 1 ELSE 0)
  BY <1>1, CountAppend
<1> QED BY <1>1, <1>2, <1>3, <1>4

LEMMA Receiving ==
  ASSUME TypeOK, NEW e, Receive(e)
  PROVE /\ events' \in Seq(Events)
        /\ CountOf(events', ExposureEvents) \in Nat
        /\ CountOf(events, ExposureEvents) =
             CountOf(events', ExposureEvents) + (IF e \in ExposureEvents THEN 1 ELSE 0)
<1>1. /\ events \in Seq(Events) /\ events # <<>>
      /\ Head(events) = e /\ events' = Tail(events)
  BY DEF TypeOK, Receive
<1>2. events' \in Seq(Events) BY <1>1
<1>3. CountOf(events', ExposureEvents) \in Nat BY <1>2, CountFinite
<1>4. CountOf(events, ExposureEvents) =
        CountOf(Tail(events), ExposureEvents)
          + (IF Head(events) \in ExposureEvents THEN 1 ELSE 0)
  BY <1>1, CountTail
<1> QED BY <1>1, <1>2, <1>3, <1>4

\* A step that keeps the capture loop's fields and the number of exposures
\* out, whatever else it does, keeps the invariant.
LEMMA KeepingStep ==
  ASSUME IInv, Keeps(app, app'), worker' \in WorkerRecord,
         events' \in Seq(Events), SkipInCapture', ExposuresOut' = ExposuresOut
  PROVE IInv'
<1>1. Accounted(app', ExposuresOut') BY DEF IInv, Keeps, Spares, Accounted
<1>2. TypeOK' BY DEF TypeOK, Keeps, Spares
<1> QED BY <1>1, <1>2 DEF IInv

\* So does one by a client that starts a capture at most.
LEMMA CarryingStep ==
  ASSUME IInv, Carries(app, app'), UNCHANGED <<worker, events>>
  PROVE IInv'
<1>1. ExposuresOut' = ExposuresOut
  BY DEF ExposuresOut, ExposureInHand, CountOf
<1>2. ExposuresOut \in Nat
  <2>1. CountOf(events, ExposureEvents) \in Nat BY CountFinite DEF IInv, TypeOK
  <2> QED BY <2>1 DEF ExposuresOut
<1>3. Accounted(app', ExposuresOut) BY <1>2 DEF IInv, Carries
<1>4. SkipInCapture' BY DEF IInv, SkipInCapture
<1> QED BY <1>1, <1>3, <1>4 DEF IInv, TypeOK, Carries, Accounted

-----------------------------------------------------------------------------
(* The worker thread's steps *)

LEMMA TakeMoveStep == ASSUME IInv, TakeMove PROVE IInv'
<1> DEFINE h == Tail(app.high)
<1>1. app \in AppRecord /\ worker \in WorkerRecord BY DEF IInv, TypeOK
<1>2. Head(app.high) \in MoveRequests /\ h \in Seq(MoveRequests)
  BY <1>1 DEF TakeMove, AppRecord
<1>3. Keeps(app, app')
  <2>1. app' = [app EXCEPT !.high = h] BY DEF TakeMove
  <2> HIDE DEF h
  <2> QED BY ZenonT(60), <1>1, <1>2, <2>1 DEF AppRecord, Keeps, Spares
<1>4. /\ worker' \in WorkerRecord /\ worker'.job = Head(app.high)
      /\ worker.job = "none" /\ worker'.skip = worker.skip
  BY <1>1, <1>2 DEF TakeMove, WorkerRecord, Jobs, MoveRequests
<1>5. worker.skip = FALSE /\ SkipInCapture'
  BY <1>1, <1>4 DEF IInv, SkipInCapture, WorkerRecord
<1>6. ExposuresOut' = ExposuresOut /\ events' = events
  BY <1>2, <1>4 DEF TakeMove, ExposuresOut, ExposureInHand, CountOf, MoveRequests
<1> QED BY <1>3, <1>4, <1>5, <1>6, KeepingStep DEF IInv, TypeOK

LEMMA TakeExposureStep == ASSUME IInv, TakeExposure PROVE IInv'
<1> DEFINE n == app.low - 1
<1>1. app \in AppRecord /\ worker \in WorkerRecord BY DEF IInv, TypeOK
<1>2. n \in Nat /\ app.low \in Nat BY <1>1 DEF TakeExposure, AppRecord
<1>3. /\ app' \in AppRecord /\ app'.low = n /\ app'.pending = app.pending
      /\ app'.active = app.active /\ app'.continue = app.continue
  <2>1. app' = [app EXCEPT !.low = n] BY DEF TakeExposure
  <2> HIDE DEF n
  <2> QED BY SMTT(30), <1>1, <1>2, <2>1 DEF AppRecord
<1>4. /\ worker' \in WorkerRecord /\ worker'.job = "delay"
      /\ worker.job = "none" /\ worker'.skip = worker.skip
  BY <1>1 DEF TakeExposure, WorkerRecord, Jobs
<1>5. worker.skip = FALSE /\ SkipInCapture'
  BY <1>1, <1>4 DEF IInv, SkipInCapture, WorkerRecord
<1>6. events' = events BY DEF TakeExposure
<1>7. CountOf(events, ExposureEvents) \in Nat BY CountFinite DEF IInv, TypeOK
<1>8. ExposuresOut' = ExposuresOut + 1 /\ ExposuresOut \in Nat
  BY <1>4, <1>5, <1>6, <1>7 DEF ExposuresOut, ExposureInHand, CountOf
<1>9. Accounted(app', ExposuresOut')
  BY <1>2, <1>3, <1>8 DEF IInv, Accounted
<1> QED BY <1>3, <1>4, <1>5, <1>6, <1>9 DEF IInv, TypeOK

LEMMA FinishMoveStep == ASSUME IInv, FinishMove \/ FinishPulse PROVE IInv'
<1>1. app \in AppRecord /\ worker \in WorkerRecord BY DEF IInv, TypeOK
<1>2. /\ worker' \in WorkerRecord /\ worker'.job = "none"
      /\ worker.job \in {"move", "pulse"} /\ worker'.skip = worker.skip
      /\ app' = app
  BY <1>1 DEF FinishMove, FinishPulse, WorkerRecord, Jobs
<1>3. PICK e \in MoveEvents \cup {"pulseDone"} : Post(e)
  BY DEF FinishMove, FinishPulse
<1>4. e \in Events /\ e \notin ExposureEvents
  BY DEF Events, MoveEvents, ExposureEvents
<1>5. /\ events' \in Seq(Events)
      /\ CountOf(events', ExposureEvents) = CountOf(events, ExposureEvents)
  BY <1>3, <1>4, Posting DEF IInv
<1>6. worker.skip = FALSE /\ SkipInCapture'
  BY <1>1, <1>2 DEF IInv, SkipInCapture, WorkerRecord
<1>7. ExposuresOut' = ExposuresOut
  BY <1>2, <1>5 DEF ExposuresOut, ExposureInHand
<1>8. Keeps(app, app') BY <1>1, <1>2, KeepsItself
<1> QED BY <1>2, <1>5, <1>6, <1>7, <1>8, KeepingStep

LEMMA StartCaptureStep == ASSUME IInv, StartCapture PROVE IInv'
<1>1. app \in AppRecord /\ worker \in WorkerRecord BY DEF IInv, TypeOK
<1>2. /\ worker' \in WorkerRecord /\ worker'.job = "capture"
      /\ worker.job = "delay" /\ worker'.skip = worker.skip
      /\ app' = app /\ events' = events
  BY <1>1 DEF StartCapture, WorkerRecord, Jobs
<1>3. ExposuresOut' = ExposuresOut
  BY <1>2 DEF ExposuresOut, ExposureInHand, CountOf
<1>4. Keeps(app, app') BY <1>1, <1>2, KeepsItself
<1>5. SkipInCapture' BY <1>2 DEF SkipInCapture
<1> QED BY <1>2, <1>3, <1>4, <1>5, KeepingStep DEF IInv, TypeOK

\* The end of an exposure: its completion is posted just when it was the
\* worker's to post.
LEMMA SendExposeCompleteStep ==
  ASSUME IInv, NEW e \in ExposureEvents, SendExposeComplete(e),
         worker.job \in {"delay", "capture"}
  PROVE IInv'
<1>1. app \in AppRecord /\ worker \in WorkerRecord BY DEF IInv, TypeOK
<1>2. /\ worker' \in WorkerRecord /\ worker'.job = "none"
      /\ worker'.skip = FALSE /\ app' = app
  BY <1>1 DEF SendExposeComplete, WorkerRecord, Jobs
<1>3. Keeps(app, app') BY <1>1, <1>2, KeepsItself
<1>4. SkipInCapture' BY <1>2 DEF SkipInCapture
<1>5. CASE worker.skip
  <2>1. events' = events BY <1>5 DEF SendExposeComplete
  <2>2. ExposuresOut' = ExposuresOut
    BY <1>2, <1>5, <2>1 DEF ExposuresOut, ExposureInHand, CountOf
  <2> QED BY <1>2, <1>3, <1>4, <2>1, <2>2, KeepingStep DEF IInv, TypeOK
<1>6. CASE ~worker.skip
  <2>1. Post(e) /\ e \in Events BY <1>6 DEF SendExposeComplete, Events
  <2>2. /\ events' \in Seq(Events) /\ CountOf(events, ExposureEvents) \in Nat
        /\ CountOf(events', ExposureEvents) = CountOf(events, ExposureEvents) + 1
    BY <2>1, Posting DEF IInv
  <2>3. ExposuresOut' = ExposuresOut
    BY <1>2, <1>6, <2>2 DEF ExposuresOut, ExposureInHand
  <2> QED BY <1>2, <1>3, <1>4, <2>2, <2>3, KeepingStep
<1> QED BY <1>5, <1>6

\* The watchdog hands the exposure over to the reconnect it posts.
LEMMA CameraHangStep == ASSUME IInv, CameraHang PROVE IInv'
<1>1. app \in AppRecord /\ worker \in WorkerRecord BY DEF IInv, TypeOK
<1>2. Keeps(app, app') BY ZenonT(60), <1>1 DEF CameraHang, AppRecord, Keeps, Spares
<1>3. /\ worker' \in WorkerRecord /\ worker'.job = "capture"
      /\ worker'.skip = TRUE /\ worker.job = "capture" /\ ~worker.skip
  <2> DEFINE h == worker.hangs + 1
  <2>1. h \in Nat /\ worker' = [worker EXCEPT !.skip = TRUE, !.hangs = h]
    BY <1>1 DEF CameraHang, WorkerRecord
  <2>2. worker.job = "capture" /\ ~worker.skip BY DEF CameraHang
  <2> HIDE DEF h
  <2> QED BY <1>1, <2>1, <2>2 DEF WorkerRecord
<1>4. Post("reconnect") /\ "reconnect" \in Events /\ "reconnect" \in ExposureEvents
  BY DEF CameraHang, Events, ExposureEvents
<1>5. /\ events' \in Seq(Events) /\ CountOf(events, ExposureEvents) \in Nat
      /\ CountOf(events', ExposureEvents) = CountOf(events, ExposureEvents) + 1
  BY <1>4, Posting DEF IInv
<1>6. ExposuresOut' = ExposuresOut
  BY <1>3, <1>5 DEF ExposuresOut, ExposureInHand
<1>7. SkipInCapture' BY <1>3 DEF SkipInCapture
<1> QED BY <1>2, <1>3, <1>5, <1>6, <1>7, KeepingStep

LEMMA WorkerStepInv == ASSUME IInv, WorkerStep PROVE IInv'
<1>1. CASE TakeMove BY <1>1, TakeMoveStep
<1>2. CASE TakeExposure BY <1>2, TakeExposureStep
<1>3. CASE FinishMove BY <1>3, FinishMoveStep
<1>4. CASE FinishPulse BY <1>4, FinishMoveStep
<1>5. CASE StartCapture BY <1>5, StartCaptureStep
<1>6. CASE InterruptDelay
  BY <1>6, SendExposeCompleteStep DEF InterruptDelay, ExposureEvents
<1>7. CASE CaptureFrame
  BY <1>7, SendExposeCompleteStep DEF CaptureFrame, ExposureEvents
<1>8. CASE CaptureError
  BY <1>8, SendExposeCompleteStep DEF CaptureError, ExposureEvents
<1>9. CASE CameraHang BY <1>9, CameraHangStep
<1> QED BY <1>1, <1>2, <1>3, <1>4, <1>5, <1>6, <1>7, <1>8, <1>9 DEF WorkerStep

-----------------------------------------------------------------------------
(* The main thread's steps on what the worker posted *)

\* The one exposure under way is the event being handled.
LEMMA ReceivingExposure ==
  ASSUME IInv, NEW e \in ExposureEvents, Receive(e), UNCHANGED worker
  PROVE /\ app \in AppRecord /\ Accounted(app, 1)
        /\ events' \in Seq(Events) /\ ExposuresOut' = 0
<1>1. app \in AppRecord /\ app.low \in Nat BY DEF IInv, TypeOK, AppRecord
<1>2. /\ events' \in Seq(Events) /\ CountOf(events', ExposureEvents) \in Nat
      /\ CountOf(events, ExposureEvents) = CountOf(events', ExposureEvents) + 1
  BY Receiving DEF IInv
<1>3. PICK k \in Nat : ExposuresOut' = k /\ ExposuresOut = k + 1
  BY <1>2 DEF ExposuresOut, ExposureInHand
<1>4. Accounted(app, k + 1) BY <1>3 DEF IInv
<1>5. k = 0 BY <1>1, <1>4 DEF Accounted
<1> QED BY <1>1, <1>2, <1>3, <1>4, <1>5

LEMMA CompletingStep ==
  ASSUME IInv, NEW e \in ExposureEvents, Receive(e), UNCHANGED worker,
         app' \in AppRecord, Accounted(app', 0)
  PROVE IInv'
<1>1. events' \in Seq(Events) /\ ExposuresOut' = 0 BY ReceivingExposure
<1>2. TypeOK' /\ SkipInCapture' BY <1>1 DEF IInv, TypeOK, SkipInCapture
<1> QED BY <1>1, <1>2 DEF IInv

LEMMA OnExposedStep == ASSUME IInv, OnExposed PROVE IInv'
<1>1. Receive("exposed") /\ UNCHANGED worker /\ "exposed" \in ExposureEvents
  BY DEF OnExposed, ExposureEvents
<1>2. app \in AppRecord /\ Accounted(app, 1) BY <1>1, ReceivingExposure
<1>3. CASE app' = [app EXCEPT !.pending = FALSE]
  <2>1. app.low = 0
    <3>1. app.low \in Nat BY <1>2 DEF AppRecord
    <3> QED BY <1>2, <3>1 DEF Accounted
  <2>2. /\ app' \in AppRecord /\ app'.low = 0 /\ app'.pending = FALSE
        /\ app'.active = app.active /\ app'.continue = app.continue
    BY ZenonT(60), <1>2, <1>3, <2>1 DEF AppRecord
  <2>3. Accounted(app', 0) BY <1>2, <2>2 DEF Accounted
  <2> QED BY <1>1, <2>2, <2>3, CompletingStep
<1>4. ASSUME NEW f, app' = FrameTaken(app, f) PROVE IInv'
  <2>1. app' \in AppRecord /\ Accounted(app', 0)
    BY <1>2, <1>4, FrameTakenCompletes
  <2> QED BY <1>1, <2>1, CompletingStep
<1> QED BY <1>3, <1>4 DEF OnExposed

LEMMA ExposureEndsStep ==
  ASSUME IInv, OnExposeError \/ OnReconnectFailed PROVE IInv'
<1>1. PICK e \in ExposureEvents : Receive(e)
  BY DEF OnExposeError, OnReconnectFailed, ExposureEvents
<1>2. UNCHANGED worker /\ app' = ExposureEnds(app)
  BY DEF OnExposeError, OnReconnectFailed
<1>3. app \in AppRecord /\ Accounted(app, 1) BY <1>1, <1>2, ReceivingExposure
<1>4. app' \in AppRecord /\ Accounted(app', 0)
  BY <1>2, <1>3, ExposureEndsCompletes
<1> QED BY <1>1, <1>2, <1>4, CompletingStep

LEMMA OnReconnectedStep == ASSUME IInv, OnReconnected PROVE IInv'
<1> DEFINE t == [app EXCEPT !.camera = TRUE, !.pending = FALSE]
           u == ScheduleExposure(t)
<1>1. /\ Receive("reconnect") /\ UNCHANGED worker /\ "reconnect" \in ExposureEvents
      /\ app' = u
  BY DEF OnReconnected, ExposureEvents
<1>2. app \in AppRecord /\ Accounted(app, 1) BY <1>1, ReceivingExposure
<1>3. app.low = 0 /\ app.active = TRUE
  <2>1. app.low \in Nat /\ app.pending \in BOOLEAN /\ app.active \in BOOLEAN
    BY <1>2 DEF AppRecord
  <2> QED BY <1>2, <2>1 DEF Accounted
<1>4. t \in AppRecord /\ t.low = 0 /\ t.active = TRUE
  BY <1>2, <1>3 DEF AppRecord
<1> HIDE DEF t
<1>5. u \in AppRecord /\ u.low = t.low + 1 /\ u.pending = TRUE /\ u.active = t.active
  BY <1>4, ScheduleExposureQueues
<1> HIDE DEF u
<1>6. Accounted(u, 0) BY <1>4, <1>5 DEF Accounted
<1> QED BY <1>1, <1>5, <1>6, CompletingStep

LEMMA OnMoveCompleteStep ==
  ASSUME IInv, OnMoveComplete \/ OnPulseComplete PROVE IInv'
<1>1. PICK e \in MoveEvents \cup {"pulseDone"} :
        Receive(e) /\ app' \in {app, MoveComplete(app, e)}
  BY DEF OnMoveComplete, OnPulseComplete
<1>2. UNCHANGED worker BY DEF OnMoveComplete, OnPulseComplete
<1>3. e \notin ExposureEvents BY DEF MoveEvents, ExposureEvents
<1>4. /\ events' \in Seq(Events) /\ CountOf(events', ExposureEvents) \in Nat
      /\ CountOf(events, ExposureEvents) = CountOf(events', ExposureEvents)
  BY <1>1, <1>3, Receiving DEF IInv
<1>5. ExposuresOut' = ExposuresOut
  BY <1>2, <1>4 DEF ExposuresOut, ExposureInHand
<1>6. Keeps(app, app')
  <2>1. Keeps(app, app) BY KeepsItself DEF IInv, TypeOK
  <2>2. Keeps(app, MoveComplete(app, e)) BY <2>1, MoveCompleteKeeps
  <2> QED BY <1>1, <2>1, <2>2
<1>7. worker' \in WorkerRecord /\ SkipInCapture'
  BY <1>2 DEF IInv, TypeOK, SkipInCapture
<1> QED BY <1>4, <1>5, <1>6, <1>7, KeepingStep

LEMMA MainStepInv == ASSUME IInv, MainStep PROVE IInv'
BY OnExposedStep, ExposureEndsStep, OnReconnectedStep, OnMoveCompleteStep DEF MainStep

-----------------------------------------------------------------------------
(* Clients' requests *)

\* Those that set a field exposures do not depend on
LEMMA SettingKeeps ==
  ASSUME NEW s \in AppRecord, NEW m \in DecModes
  PROVE /\ Keeps(s, [s EXCEPT !.decMode = m, !.wantDec = m])
        /\ Keeps(s, [s EXCEPT !.camera = ~@])
        /\ Keeps(s, [s EXCEPT !.mountOn = ~@])
<1>1. Keeps(s, [s EXCEPT !.decMode = m, !.wantDec = m]) BY DEF Keeps, Spares, AppRecord
<1>2. Keeps(s, [s EXCEPT !.camera = ~@]) BY ZenonT(60) DEF Keeps, Spares, AppRecord
<1>3. Keeps(s, [s EXCEPT !.mountOn = ~@]) BY ZenonT(60) DEF Keeps, Spares, AppRecord
<1> QED BY <1>1, <1>2, <1>3

\* Stop, Pause and Resume change the intent, and at most queue the one
\* exposure the capture goes on with.
LEMMA IntentStep ==
  ASSUME IInv, UNCHANGED <<worker, events>>, app' \in AppRecord,
         \A n \in Nat : Accounted(app, n) => Accounted(app', n)
  PROVE IInv'
<1>1. ExposuresOut' = ExposuresOut
  BY DEF ExposuresOut, ExposureInHand, CountOf
<1>2. ExposuresOut \in Nat
  <2>1. CountOf(events, ExposureEvents) \in Nat BY CountFinite DEF IInv, TypeOK
  <2> QED BY <2>1 DEF ExposuresOut
<1>3. Accounted(app', ExposuresOut') BY <1>1, <1>2 DEF IInv
<1>4. TypeOK' /\ SkipInCapture' BY DEF IInv, TypeOK, SkipInCapture
<1> QED BY <1>3, <1>4 DEF IInv

LEMMA StopStep == ASSUME IInv, Stop PROVE IInv'
<1>1. app \in AppRecord /\ app' = StopCapturing(app) /\ UNCHANGED <<worker, events>>
  BY DEF IInv, TypeOK, Stop, Client
<1>2. Stops(app, app') BY <1>1, StopCapturingStops
<1>3. \A n \in Nat : Accounted(app, n) => Accounted(app', n)
  BY <1>2 DEF Stops, Accounted
<1>4. app' \in AppRecord BY <1>2 DEF Stops
<1> QED BY <1>1, <1>3, <1>4, IntentStep

LEMMA PauseStep ==
  ASSUME IInv, NEW r, NEW pause \in PauseTypes, Pause(r, pause) \/ Resume
  PROVE IInv'
<1>1. app \in AppRecord /\ UNCHANGED <<worker, events>>
  BY DEF IInv, TypeOK, Pause, Resume, Client
<1>2. PICK p \in PauseTypes : app' = SetPaused(app, p)
  BY DEF Pause, Resume, PauseTypes
<1> QED BY <1>1, <1>2, SetPausedTypes, IntentStep

LEMMA ClientStepInv == ASSUME IInv, ClientStep PROVE IInv'
<1>1. app \in AppRecord /\ Carries(app, app) /\ Keeps(app, app)
  BY CarriesItself, KeepsItself DEF IInv, TypeOK
<1>2. CASE Loop
  BY <1>1, <1>2, StartCarries, CarryingStep DEF Loop, Client
<1>3. CASE Stop BY <1>3, StopStep
<1>4. CASE CaptureSingleFrame
  BY <1>1, <1>4, StartCarries, CarryingStep DEF CaptureSingleFrame, Client
<1>5. ASSUME NEW r, GuideRequest(r) PROVE IInv'
  <2> DEFINE b == (r = "recalibrate")
  <2>1. PICK f : app' = StartGuideOp(app, b, f) BY <1>5 DEF GuideRequest
  <2>2. b \in BOOLEAN OBVIOUS
  <2> HIDE DEF b
  <2>3. Carries(app, app') BY <1>1, <2>1, <2>2, StartGuideOpCarries
  <2> QED BY <1>5, <2>3, CarryingStep DEF GuideRequest, Client
<1>6. CASE Dither
  BY <1>1, <1>6, StartDitherCarries, CarryingStep DEF Dither, Client
<1>7. CASE Pause("pauseGuiding", "guiding")
  BY <1>7, PauseStep DEF PauseTypes
<1>8. CASE Pause("pauseFull", "full")
  BY <1>8, PauseStep DEF PauseTypes
<1>9. CASE Resume
  BY <1>9, PauseStep DEF PauseTypes
<1>10. CASE FindStarRequest
  BY <1>1, <1>10, AutoSelectKeeps, KeepsCarries, CarryingStep
     DEF FindStarRequest, Client
<1>11. CASE DeselectStar
  BY <1>1, <1>11, ResetKeeps, KeepsCarries, CarryingStep DEF DeselectStar, Client
<1>12. CASE GuidePulse
  BY <1>1, <1>12, ScheduleManualMoveKeeps, KeepsCarries, CarryingStep
     DEF GuidePulse, Client
<1>13. CASE SetDecGuideMode
  BY ZenonT(60), <1>1, <1>13, SettingKeeps, KeepsCarries, CarryingStep
     DEF SetDecGuideMode, Client
<1>14. CASE ClearCalibrationRequest
  BY <1>1, <1>14, ClearCalibrationKeeps, KeepsCarries, CarryingStep
     DEF ClearCalibrationRequest, Client
<1>15. CASE ConnectCamera \/ ConnectMount
  <2>1. "auto" \in DecModes BY DEF DecModes
  <2>2. Keeps(app, app')
    BY <1>1, <1>15, <2>1, SettingKeeps DEF ConnectCamera, ConnectMount
  <2> QED BY <1>1, <1>15, <2>2, KeepsCarries, CarryingStep
          DEF ConnectCamera, ConnectMount, Client
<1> QED BY <1>2, <1>3, <1>4, <1>5, <1>6, <1>7, <1>8, <1>9, <1>10, <1>11,
           <1>12, <1>13, <1>14, <1>15 DEF ClientStep

-----------------------------------------------------------------------------
(* The invariant, and what follows from it *)

LEMMA InitInv == Init => IInv
<1> SUFFICES ASSUME Init PROVE IInv OBVIOUS
<1>1. app = AppInit /\ worker = WorkerInit /\ events = <<>> BY DEF Init
<1>2. app \in AppRecord
  BY <1>1, BoundsAssumption
     DEF AppInit, AppRecord, PauseTypes, GuiderStates, StarStates,
         CalibrationStates, Calibrations, ControllerStates
<1>3. worker \in WorkerRecord /\ SkipInCapture
  BY <1>1 DEF WorkerInit, WorkerRecord, Jobs, SkipInCapture
<1>4. events \in Seq(Events) BY <1>1
<1>5. ExposuresOut = 0
  <2>1. {i \in DOMAIN events : events[i] \in ExposureEvents} = {} BY <1>1
  <2>2. CountOf(events, ExposureEvents) = 0 BY <2>1, FS_EmptySet DEF CountOf
  <2> QED BY <1>1, <2>2 DEF ExposuresOut, ExposureInHand, WorkerInit
<1>6. Accounted(app, ExposuresOut) BY <1>1, <1>5 DEF Accounted, AppInit
<1> QED BY <1>2, <1>3, <1>4, <1>6 DEF IInv, TypeOK

LEMMA NextInv == IInv /\ [Next]_vars => IInv'
<1> SUFFICES ASSUME IInv, [Next]_vars PROVE IInv' OBVIOUS
<1>1. CASE WorkerStep BY <1>1, WorkerStepInv
<1>2. CASE MainStep BY <1>2, MainStepInv
<1>3. CASE ClientStep BY <1>3, ClientStepInv
<1>4. CASE UNCHANGED vars
  BY <1>4 DEF vars, IInv, TypeOK, SkipInCapture, ExposuresOut, ExposureInHand,
              CountOf, Accounted
<1> QED BY <1>1, <1>2, <1>3, <1>4 DEF Next

\* The invariant holds in every reachable state, for all values of the
\* constants and all requests of the clients.
THEOREM Invariance == Spec => []IInv
BY InitInv, NextInv, PTL DEF Spec

\* Every field of MyFrame, Guider, Scope, PhdController and the worker thread
\* keeps its type: its states, Booleans, queues and integers.  That the counts
\* do not go below zero is CountdownsHold here and MovesAccounted elsewhere.
THEOREM TypeCorrect == Spec => []TypeOK
<1>1. IInv => TypeOK BY DEF IInv
<1> QED BY <1>1, Invariance, PTL

\* m_exposurePending tells of exactly one exposure in the low priority
\* queue, the worker or the event queue: none is lost and none doubled.
THEOREM ExposuresAreAccounted == Spec => []ExposureAccounted
<1>1. IInv => ExposureAccounted
  BY DEF IInv, Accounted, ExposureAccounted
<1> QED BY <1>1, Invariance, PTL

\* An exposure is under way, and capture is meant to go on, only while
\* CaptureActive is set.
THEOREM ExposuresAreActive == Spec => []PendingWhileActive
<1>1. IInv => PendingWhileActive
  BY DEF IInv, Accounted, PendingWhileActive
<1> QED BY <1>1, Invariance, PTL
-----------------------------------------------------------------------------
(* The controller's countdowns, which the source decrements without a look *)
(* at zero: each search starts them afresh and leaves before they run out. *)

CountsLeft(s) ==
  /\ s \in AppRecord
  /\ s.finds \in Nat /\ s.waits \in Nat
  /\ s.ctrl \in Searching => s.finds > 0
  /\ s.ctrl = "waitSelected" => s.waits > 0

LEMMA SameCounts ==
  ASSUME NEW s, NEW t \in AppRecord, CountsLeft(s), t.finds = s.finds,
         t.waits = s.waits, t.ctrl = s.ctrl \/ t.ctrl \notin Searching
  PROVE CountsLeft(t)
BY DEF CountsLeft, Searching

LEMMA KeepsCounts ==
  ASSUME NEW s, NEW t, CountsLeft(s), Keeps(s, t) PROVE CountsLeft(t)
BY SameCounts DEF Keeps, Spares

\* Starting, pausing, stopping and failing leave them alone.
LEMMA ScheduleExposureCounts ==
  ASSUME NEW s, CountsLeft(s)
  PROVE CountsLeft(ScheduleExposure(s)) /\ ScheduleExposure(s).finds = s.finds
<1> DEFINE b == ~s.pending
           a == Assert_(s, "exposure not pending", b)
           n == a.low + 1
           t == [a EXCEPT !.pending = TRUE, !.low = n, !.intStop = FALSE]
<1>1. s \in AppRecord /\ b \in BOOLEAN BY DEF CountsLeft, AppRecord
<1>2. Keeps(s, a)
  <2> HIDE DEF b
  <2> QED BY <1>1, KeepsItself, AssertKeeps DEF Assertions
<1>3. ScheduleExposure(s) = t BY DEF ScheduleExposure
<1> HIDE DEF a
<1>4. CountsLeft(a) /\ a \in AppRecord /\ a.finds = s.finds
  BY <1>2, KeepsCounts DEF CountsLeft, Keeps
<1>5. t.finds = a.finds /\ t.waits = a.waits /\ t.ctrl = a.ctrl
  <2> HIDE DEF n
  <2> QED BY <1>4 DEF AppRecord
<1>6. t \in AppRecord BY <1>1, <1>3, ScheduleExposureQueues
<1> HIDE DEF t
<1> QED BY <1>3, <1>4, <1>5, <1>6, SameCounts

LEMMA StartCapturingCounts ==
  ASSUME NEW s, CountsLeft(s)
  PROVE CountsLeft(StartCapturing(s)) /\ StartCapturing(s).finds = s.finds
<1> DEFINE c == s.continue \/ ~s.single
           t == [s EXCEPT !.active = TRUE, !.continue = c]
<1>1. s \in AppRecord BY DEF CountsLeft
<1>2. StartCapturing(s) \in {s, ScheduleExposure(t), t}
  <2>1. s.active \in BOOLEAN /\ s.pending \in BOOLEAN BY <1>1 DEF AppRecord
  <2> QED BY <2>1 DEF StartCapturing
<1>3. /\ t \in AppRecord /\ t.finds = s.finds /\ t.waits = s.waits
      /\ t.ctrl = s.ctrl
  <2>1. c \in BOOLEAN BY <1>1 DEF AppRecord
  <2> HIDE DEF c
  <2> QED BY ZenonT(60), <1>1, <2>1 DEF AppRecord
<1> HIDE DEF t
<1>4. CountsLeft(t) BY <1>3, SameCounts
<1> QED BY <1>2, <1>3, <1>4, ScheduleExposureCounts

LEMMA StartCounts ==
  ASSUME NEW s, CountsLeft(s)
  PROVE /\ CountsLeft(StartLooping(s)) /\ CountsLeft(StartGuiding(s))
        /\ CountsLeft(StartCapturing(ActivateSingle(s)))
<1>1. s \in AppRecord /\ Keeps(s, s) BY KeepsItself DEF CountsLeft
<1>2. CountsLeft(StopGuiding(s)) /\ CountsLeft(StartGuider(s)) /\ CountsLeft(ActivateSingle(s))
  BY <1>1, StopGuidingKeeps, StartGuiderKeeps, SingleKeeps, KeepsCounts
<1>3. CountsLeft(StartLooping(s))
  <2>1. StartLooping(s) \in {s, StartCapturing(s), StartCapturing(StopGuiding(s))}
    BY DEF StartLooping
  <2> QED BY <1>2, <2>1, StartCapturingCounts
<1> QED BY <1>2, <1>3, StartCapturingCounts DEF StartGuiding

LEMMA SetPausedCounts ==
  ASSUME NEW s, CountsLeft(s), NEW pause \in PauseTypes PROVE CountsLeft(SetPaused(s, pause))
<1> DEFINE p == [s EXCEPT !.paused = pause]
           t == [s EXCEPT !.paused = "none"]
<1>1. s \in AppRecord BY DEF CountsLeft
<1>2. Keeps(s, p) /\ Keeps(s, t) BY <1>1 DEF Keeps, Spares, AppRecord, PauseTypes
<1>3. SetPaused(s, pause) \in {p, ScheduleExposure(t), t, s} BY DEF SetPaused
<1> HIDE DEF p, t
<1> QED BY <1>2, <1>3, KeepsCounts, ScheduleExposureCounts

LEMMA StopCapturingCounts ==
  ASSUME NEW s, CountsLeft(s) PROVE CountsLeft(StopCapturing(s))
<1> DEFINE c == [s EXCEPT !.continue = FALSE]
           t == IF IsPaused(s) THEN SetPaused(c, "none") ELSE s
           v == [t EXCEPT !.continue = FALSE]
           w == RequestStop(v)
           x == [v EXCEPT !.active = FALSE]
           y == FinishStop(StopIfGuiding(x))
<1>1. s \in AppRecord BY DEF CountsLeft
<1>2. StopCapturing(s) \in {w, y, t} BY DEF StopCapturing
<1>3. c \in AppRecord /\ c.finds = s.finds /\ c.waits = s.waits /\ c.ctrl = s.ctrl
  BY <1>1 DEF AppRecord
<1> HIDE DEF c
<1>4. CountsLeft(t) BY <1>3, SameCounts, SetPausedCounts DEF PauseTypes
<1> HIDE DEF t
<1>5. v \in AppRecord /\ v.finds = t.finds /\ v.waits = t.waits /\ v.ctrl = t.ctrl
  BY <1>4 DEF CountsLeft, AppRecord
<1> HIDE DEF v
<1>6. CountsLeft(v) BY <1>4, <1>5, SameCounts
<1>7. w \in AppRecord /\ w.finds = v.finds /\ w.waits = v.waits /\ w.ctrl = v.ctrl
  BY <1>5 DEF RequestStop, AppRecord
<1>8. x \in AppRecord /\ x.finds = v.finds /\ x.waits = v.waits /\ x.ctrl = v.ctrl
  BY <1>5 DEF AppRecord
<1> HIDE DEF w, x
<1>9. CountsLeft(w) /\ CountsLeft(x) BY <1>6, <1>7, <1>8, SameCounts
<1>10. Keeps(x, y) BY <1>8, KeepsItself, StopIfGuidingKeeps, FinishStopKeeps
<1> HIDE DEF y
<1> QED BY <1>2, <1>4, <1>9, <1>10, KeepsCounts

LEMMA ExposureEndsCounts ==
  ASSUME NEW s, CountsLeft(s) PROVE CountsLeft(ExposureEnds(s))
<1> DEFINE p == [s EXCEPT !.pending = FALSE]
           q == StopCapturing(p)
           t == SetUninitialized(CompleteSingle(StopIfGuiding(q)))
           a == t.continue
           u == [t EXCEPT !.active = a]
<1>1. s \in AppRecord BY DEF CountsLeft
<1>2. p \in AppRecord /\ p.finds = s.finds /\ p.waits = s.waits /\ p.ctrl = s.ctrl
  BY <1>1 DEF AppRecord
<1>3. ExposureEnds(s) \in {p, AbortController(u)} BY DEF ExposureEnds, ExposeFailed
<1> HIDE DEF p
<1>4. CountsLeft(p) /\ CountsLeft(q) BY <1>2, SameCounts, StopCapturingCounts
<1> HIDE DEF q
<1>5. Keeps(q, t)
  <2>1. Keeps(q, q) BY <1>4, KeepsItself DEF CountsLeft
  <2> QED BY <2>1, StopIfGuidingKeeps, SingleKeeps, SetUninitializedKeeps
<1> HIDE DEF t
<1>6. CountsLeft(t) BY <1>4, <1>5, KeepsCounts
<1>7. u \in AppRecord /\ u.finds = t.finds /\ u.waits = t.waits /\ u.ctrl = t.ctrl
  <2>1. t \in AppRecord /\ a \in BOOLEAN BY <1>6 DEF CountsLeft, AppRecord
  <2> HIDE DEF a
  <2> QED BY <2>1 DEF AppRecord
<1> HIDE DEF u
<1>8. CountsLeft(u) BY <1>6, <1>7, SameCounts
<1>9. Keeps(u, AbortController(u)) BY <1>7, KeepsItself, AbortControllerKeeps
<1> QED BY <1>3, <1>4, <1>8, <1>9, KeepsCounts

\* The controller goes elsewhere, or goes on with its search.
LEMMA ToCounts ==
  ASSUME NEW s, CountsLeft(s), NEW state \in ControllerStates,
         state \in Searching => s.finds > 0, state = "waitSelected" => s.waits > 0
  PROVE CountsLeft(To(s, state))
<1> DEFINE t == To(s, state)
<1>1. s \in AppRecord BY DEF CountsLeft
<1>2. t \in AppRecord BY <1>1, ToSpares DEF Spares
<1>3. t.ctrl = state /\ t.finds = s.finds /\ t.waits = s.waits
  BY <1>1 DEF To, AppRecord
<1> HIDE DEF t
<1>4. CountsLeft(t) BY <1>2, <1>3 DEF CountsLeft
<1> QED BY <1>4 DEF t

LEMMA GuideCounts == ASSUME NEW s, CountsLeft(s) PROVE CountsLeft(Guide(s))
<1>1. CountsLeft(To(StartGuiding(s), "settleBegin"))
  BY StartCounts, ToCounts DEF ControllerStates, Searching
<1>2. CountsLeft(Finish(s))
  BY KeepsItself, FinishKeeps, KeepsCounts DEF CountsLeft
<1> QED BY <1>1, <1>2 DEF Guide

LEMMA CalibrateCounts == ASSUME NEW s, CountsLeft(s) PROVE CountsLeft(Calibrate(s))
<1> DEFINE t == IF s.force THEN ClearCalibration(s) ELSE s
           u == StickForCalibration(t)
           v == RestoreSticky(u)
<1>1. Calibrate(s) \in {Guide(t), To(StartGuiding(u), "calibrationWait"), Finish(v)}
  BY DEF Calibrate
<1>2. CountsLeft(t)
  BY KeepsItself, ClearCalibrationKeeps, KeepsCounts DEF CountsLeft
<1> HIDE DEF t
<1>3. Keeps(t, u) /\ Keeps(t, v) BY <1>2, KeepsItself, StickyKeeps DEF CountsLeft
<1> HIDE DEF u, v
<1>4. CountsLeft(u) /\ CountsLeft(v) BY <1>2, <1>3, KeepsCounts
<1>5. CountsLeft(To(StartGuiding(u), "calibrationWait"))
  BY <1>4, StartCounts, ToCounts DEF ControllerStates, Searching
<1>6. CountsLeft(Finish(v))
  BY <1>4, KeepsItself, FinishKeeps, KeepsCounts DEF CountsLeft
<1> QED BY <1>1, <1>2, <1>5, <1>6, GuideCounts

\* One attempt less: the search is over with the last.
LEMMA SelectStarCounts ==
  ASSUME NEW s, CountsLeft(s), s.finds > 0, NEW f PROVE CountsLeft(SelectStar(s, f))
<1> DEFINE found == ~CalibratingOrGuiding(s) /\ AutoSelects(s, f)
           t == IF CalibratingOrGuiding(s) THEN s ELSE AutoSelect(s, f)
           n == t.finds - 1
           less == [t EXCEPT !.finds = n]
           x == To(t, "waitSelected")
           w == [x EXCEPT !.waits = WaitSelectedFrames]
           y == Reset(less, TRUE)
<1>1. s \in AppRecord BY DEF CountsLeft
<1>2. \/ SelectStar(s, f) = w
      \/ less.finds = 0 /\ SelectStar(s, f) = Finish(less)
      \/ less.finds # 0 /\ SelectStar(s, f) = To(y, "attemptStart")
  BY DEF SelectStar
<1>3. Keeps(s, t) BY <1>1, KeepsItself, AutoSelectKeeps
<1> HIDE DEF t
<1>4. CountsLeft(t) /\ t \in AppRecord /\ t.finds > 0
  BY <1>3, KeepsCounts DEF Keeps, Spares
<1>5. WaitSelectedFrames \in Int /\ WaitSelectedFrames \in Nat /\ WaitSelectedFrames > 0
  BY BoundsAssumption
<1>6. CountsLeft(w)
  <2>1. x \in AppRecord BY <1>4, ToSpares DEF Spares, ControllerStates
  <2>2. x.finds = t.finds /\ x.ctrl = "waitSelected" BY <1>4 DEF To, AppRecord
  <2> HIDE DEF x
  <2>3. w \in AppRecord BY <1>5, <2>1, CountdownSpares DEF Spares
  <2>4. w.finds = t.finds /\ w.waits = WaitSelectedFrames
    BY <2>1, <2>2 DEF AppRecord
  <2> HIDE DEF w
  <2> QED BY <1>4, <1>5, <2>3, <2>4 DEF CountsLeft
<1> HIDE DEF w
<1>7. n \in Int /\ n \in Nat BY <1>4 DEF CountsLeft
<1>8. /\ less \in AppRecord /\ less.finds = n /\ less.waits = t.waits
      /\ less.ctrl = t.ctrl
  <2> HIDE DEF n
  <2>1. less \in AppRecord BY <1>4, <1>7, CountdownSpares DEF Spares
  <2> QED BY <1>4, <2>1 DEF AppRecord
<1> HIDE DEF less, n
<1>9. CASE less.finds = 0 /\ SelectStar(s, f) = Finish(less)
  <2> DEFINE z == Finish(less)
  <2>1. Keeps(less, z) BY <1>8, KeepsItself, FinishKeeps
  <2>2. z.ctrl = "idle" BY <1>8 DEF Finish, AppRecord
  <2> HIDE DEF z
  <2>3. CountsLeft(z)
    BY <1>4, <1>7, <1>8, <2>1, <2>2 DEF CountsLeft, Keeps, Spares, Searching
  <2> QED BY <1>9, <2>3 DEF z
<1>10. CASE less.finds # 0 /\ SelectStar(s, f) = To(y, "attemptStart")
  <2>1. less.finds > 0 BY <1>7, <1>8, <1>10
  <2>2. CountsLeft(less) BY <1>4, <1>7, <1>8, <2>1 DEF CountsLeft
  <2>3. Keeps(less, y) BY <1>8, KeepsItself, ResetKeeps
  <2> HIDE DEF y
  <2>4. CountsLeft(y) /\ y.finds > 0 BY <2>1, <2>2, <2>3, KeepsCounts DEF Keeps
  <2> QED BY <1>10, <2>4, ToCounts DEF ControllerStates
<1> QED BY <1>2, <1>6, <1>9, <1>10

\* One frame less: the search begins again with the last.
LEMMA WaitSelectedCounts ==
  ASSUME NEW s, CountsLeft(s), s.ctrl = "waitSelected" PROVE CountsLeft(WaitSelected(s))
<1> DEFINE n == s.waits - 1
           less == [s EXCEPT !.waits = n]
<1>1. s \in AppRecord /\ s.finds > 0 /\ n \in Int /\ n \in Nat
  BY DEF CountsLeft, Searching
<1>2. \/ WaitSelected(s) = Calibrate(s)
      \/ less.waits = 0 /\ WaitSelected(s) = To(less, "attemptStart")
      \/ less.waits # 0 /\ WaitSelected(s) = less
  BY DEF WaitSelected
<1>3. /\ less \in AppRecord /\ less.waits = n /\ less.finds = s.finds
      /\ less.ctrl = "waitSelected"
  <2> HIDE DEF n
  <2>1. less \in AppRecord BY <1>1, CountdownSpares DEF Spares
  <2> QED BY <1>1, <2>1 DEF AppRecord
<1> HIDE DEF less, n
<1>4. CASE less.waits = 0 /\ WaitSelected(s) = To(less, "attemptStart")
  <2> DEFINE t == To(less, "attemptStart")
  <2>1. t \in AppRecord BY <1>3, ToSpares DEF Spares, ControllerStates
  <2>2. t.ctrl = "attemptStart" /\ t.finds = less.finds /\ t.waits = less.waits
    BY <1>3 DEF To, AppRecord
  <2> HIDE DEF t
  <2>3. CountsLeft(t) BY <1>1, <1>3, <2>1, <2>2 DEF CountsLeft
  <2> QED BY <1>4, <2>3 DEF t
<1>5. CASE less.waits # 0 /\ WaitSelected(s) = less
  BY <1>1, <1>3, <1>5 DEF CountsLeft
<1> QED BY <1>2, <1>4, <1>5, CalibrateCounts

LEMMA SettleCounts ==
  ASSUME NEW s, CountsLeft(s), NEW f
  PROVE /\ CountsLeft(SettleBegin(s)) /\ CountsLeft(SettleWait(s, f))
        /\ CountsLeft(CalibrationWait(s))
<1>1. s \in AppRecord /\ Keeps(s, s) BY KeepsItself DEF CountsLeft
<1>2. Keeps(s, SettleBegin(s)) BY <1>1, SettleBeginKeeps
<1>3. Keeps(s, CalibrationWait(s))
  BY <1>1, StickyKeeps, SettleBeginKeeps DEF CalibrationWait
<1>4. Keeps(s, SettleWait(s, f))
  <2> DEFINE n == s.settled + 1
             t == [s EXCEPT !.settled = n]
  <2>1. n \in Nat BY <1>1 DEF AppRecord
  <2>2. Keeps(s, t)
    <3> HIDE DEF n
    <3> QED BY <1>1, <2>1 DEF Keeps, Spares, AppRecord
  <2>3. SettleWait(s, f) \in {t, Finish(t)} BY DEF SettleWait
  <2> HIDE DEF t
  <2> QED BY <2>2, <2>3, FinishKeeps
<1> QED BY <1>2, <1>3, <1>4, KeepsCounts

LEMMA AttemptStartCounts ==
  ASSUME NEW s, CountsLeft(s), s.finds > 0, NEW f PROVE CountsLeft(AttemptStart(s, f))
<1> DEFINE y == Reset(s, TRUE)
           z == StartCapturing(y)
<1>1. s \in AppRecord BY DEF CountsLeft
<1>2. AttemptStart(s, f) \in
        {To(s, "calibrationWait"), To(s, "selectStar"), Finish(s), Calibrate(s),
         SettleBegin(s), SelectStar(s, f), To(z, "selectStar")}
  BY DEF AttemptStart
<1>3. CountsLeft(To(s, "calibrationWait")) /\ CountsLeft(To(s, "selectStar"))
  BY ToCounts DEF ControllerStates, Searching
<1>4. CountsLeft(Finish(s)) BY <1>1, KeepsItself, FinishKeeps, KeepsCounts
<1>5. CountsLeft(To(z, "selectStar"))
  <2>1. Keeps(s, y) BY <1>1, KeepsItself, ResetKeeps
  <2> HIDE DEF y
  <2>2. CountsLeft(y) /\ y \in AppRecord /\ y.finds > 0
    BY <2>1, KeepsCounts DEF Keeps, Spares
  <2>3. CountsLeft(z) /\ z.finds = y.finds BY <2>2, StartCapturingCounts
  <2> HIDE DEF z
  <2> QED BY <2>2, <2>3, ToCounts DEF ControllerStates, Searching
<1> HIDE DEF z
<1> QED BY <1>2, <1>3, <1>4, <1>5, CalibrateCounts, SettleCounts, SelectStarCounts

\* A guide request starts the search afresh (STATE_SETUP).
LEMMA StartGuideOpCounts ==
  ASSUME NEW s, CountsLeft(s), NEW recalibrate \in BOOLEAN, NEW f
  PROVE CountsLeft(StartGuideOp(s, recalibrate, f))
<1> DEFINE t == [s EXCEPT !.force = recalibrate]
           u == [t EXCEPT !.haveSave = FALSE, !.finds = AutoFindAttempts,
                          !.override = FALSE]
<1>1. s \in AppRecord BY DEF CountsLeft
<1>2. t \in AppRecord /\ t.waits = s.waits /\ t.ctrl = s.ctrl BY <1>1 DEF AppRecord
<1>3. AutoFindAttempts \in Int /\ AutoFindAttempts \in Nat /\ AutoFindAttempts > 0
  BY BoundsAssumption
<1>4. StartGuideOp(s, recalibrate, f) = AttemptStart(u, f)
  BY DEF StartGuideOp, Setup
<1> HIDE DEF t
<1>5. /\ u \in AppRecord /\ u.waits = t.waits /\ u.ctrl = t.ctrl
      /\ u.finds = AutoFindAttempts
  BY ZenonT(60), <1>2, <1>3 DEF AppRecord
<1> HIDE DEF u
<1>6. CountsLeft(u) BY <1>2, <1>3, <1>5 DEF CountsLeft
<1> QED BY <1>3, <1>4, <1>5, <1>6, AttemptStartCounts

LEMMA StartDitherCounts ==
  ASSUME NEW s, CountsLeft(s), NEW raOnly \in BOOLEAN, NEW timed \in BOOLEAN
  PROVE CountsLeft(StartDither(s, raOnly, timed))
<1> DEFINE b == ~raOnly /\ timed /\ s.decMode = "north"
           d == IF raOnly THEN "none" ELSE s.decMode
           t == [s EXCEPT !.override = b, !.saveDec = d]
<1>1. s \in AppRecord BY DEF CountsLeft
<1>2. b \in BOOLEAN /\ d \in DecModes BY <1>1 DEF AppRecord, DecModes
<1>3. StartDither(s, raOnly, timed) = SettleBegin(t) BY DEF StartDither
<1>4. Keeps(s, t)
  <2> HIDE DEF b, d
  <2> QED BY ZenonT(60), <1>1, <1>2 DEF Keeps, Spares, AppRecord
<1> HIDE DEF t
<1> QED BY <1>3, <1>4, KeepsCounts, SettleCounts

LEMMA UpdateControllerStateCounts ==
  ASSUME NEW s, CountsLeft(s), NEW f PROVE CountsLeft(UpdateControllerState(s, f))
<1>1. CASE s.ctrl \in {"attemptStart", "selectStar"}
  <2>1. s.finds > 0 BY <1>1 DEF CountsLeft, Searching
  <2>2. UpdateControllerState(s, f) \in {AttemptStart(s, f), SelectStar(s, f)}
    BY <1>1 DEF UpdateControllerState
  <2> QED BY <2>1, <2>2, AttemptStartCounts, SelectStarCounts
<1>2. CASE s.ctrl = "waitSelected"
  BY <1>2, WaitSelectedCounts DEF UpdateControllerState
<1>3. CASE s.ctrl \notin Searching
  <2>1. UpdateControllerState(s, f) \in
          {CalibrationWait(s), SettleBegin(s), SettleWait(s, f), s}
    BY <1>3 DEF UpdateControllerState, Searching
  <2> QED BY <2>1, SettleCounts
<1> QED BY <1>1, <1>2, <1>3 DEF Searching

LEMMA FrameTakenCounts ==
  ASSUME NEW s, CountsLeft(s), NEW f PROVE CountsLeft(FrameTaken(s, f))
<1> DEFINE t == [s EXCEPT !.pending = FALSE, !.image = TRUE]
           b == ~s.continue
           g == UpdateGuideState(t, f, b)
           c == UpdateControllerState(g, f)
           a == c.continue
           n == [c EXCEPT !.active = a]
<1>1. s \in AppRecord /\ b \in BOOLEAN BY DEF CountsLeft, AppRecord
<1>2. Keeps(t, t) /\ CountsLeft(t)
  <2>1. /\ t \in AppRecord /\ t.finds = s.finds /\ t.waits = s.waits
        /\ t.ctrl = s.ctrl
    BY <1>1 DEF AppRecord
  <2> QED BY <2>1, KeepsItself, SameCounts
<1>3. FrameTaken(s, f) \in {ScheduleExposure(n), FinishStop(n)} BY DEF FrameTaken
<1> HIDE DEF t, b
<1>4. CountsLeft(g) BY <1>1, <1>2, UpdateGuideStateKeeps, KeepsCounts
<1> HIDE DEF g
<1>5. CountsLeft(c) BY <1>4, UpdateControllerStateCounts
<1> HIDE DEF c
<1>6. n \in AppRecord /\ n.finds = c.finds /\ n.waits = c.waits /\ n.ctrl = c.ctrl
  <2>1. c \in AppRecord /\ a \in BOOLEAN BY <1>5 DEF CountsLeft, AppRecord
  <2> HIDE DEF a
  <2> QED BY ZenonT(60), <2>1 DEF AppRecord
<1> HIDE DEF n
<1>7. CountsLeft(n) BY <1>5, <1>6, SameCounts
<1>8. Keeps(n, FinishStop(n)) BY <1>6, KeepsItself, FinishStopKeeps
<1> QED BY <1>3, <1>7, <1>8, KeepsCounts, ScheduleExposureCounts

LEMMA WorkerStepCounts ==
  ASSUME CountsLeft(app), app' \in AppRecord, WorkerStep PROVE CountsLeft(app')
<1>1. app \in AppRecord BY DEF CountsLeft
<1>2. app'.finds = app.finds /\ app'.waits = app.waits /\ app'.ctrl = app.ctrl
  <2>1. CASE TakeMove BY <1>1, <2>1 DEF TakeMove, AppRecord
  <2>2. CASE TakeExposure BY <1>1, <2>2 DEF TakeExposure, AppRecord
  <2>3. CASE CameraHang BY <1>1, <2>3 DEF CameraHang, AppRecord
  <2>4. CASE FinishMove \/ FinishPulse \/ StartCapture \/ InterruptDelay
             \/ CaptureFrame \/ CaptureError
    BY <2>4 DEF FinishMove, FinishPulse, StartCapture, InterruptDelay, CaptureFrame,
       CaptureError, SendExposeComplete
  <2> QED BY <2>1, <2>2, <2>3, <2>4 DEF WorkerStep
<1> QED BY <1>2, SameCounts

LEMMA MainStepCounts == ASSUME CountsLeft(app), MainStep PROVE CountsLeft(app')
<1>1. app \in AppRecord /\ Keeps(app, app) BY KeepsItself DEF CountsLeft
<1>2. CASE OnExposed
  <2>1. CASE app' = [app EXCEPT !.pending = FALSE]
    <3>1. /\ app' \in AppRecord /\ app'.finds = app.finds /\ app'.waits = app.waits
          /\ app'.ctrl = app.ctrl
      BY <1>1, <2>1 DEF AppRecord
    <3> QED BY <3>1, SameCounts
  <2> QED BY <1>2, <2>1, FrameTakenCounts DEF OnExposed
<1>3. CASE OnExposeError \/ OnReconnectFailed
  BY <1>3, ExposureEndsCounts DEF OnExposeError, OnReconnectFailed
<1>4. CASE OnReconnected
  <2> DEFINE t == [app EXCEPT !.camera = TRUE, !.pending = FALSE]
  <2>1. /\ t \in AppRecord /\ t.finds = app.finds /\ t.waits = app.waits
        /\ t.ctrl = app.ctrl
    BY ZenonT(60), <1>1 DEF AppRecord
  <2>2. app' = ScheduleExposure(t) BY <1>4 DEF OnReconnected
  <2> HIDE DEF t
  <2> QED BY <2>1, <2>2, SameCounts, ScheduleExposureCounts
<1>5. CASE OnMoveComplete
  BY <1>1, <1>5, MoveCompleteKeeps, KeepsCounts DEF OnMoveComplete
<1>6. CASE OnPulseComplete BY <1>6 DEF OnPulseComplete
<1> QED BY <1>2, <1>3, <1>4, <1>5, <1>6 DEF MainStep

LEMMA ClientStepCounts == ASSUME CountsLeft(app), ClientStep PROVE CountsLeft(app')
<1>1. app \in AppRecord /\ Keeps(app, app) BY KeepsItself DEF CountsLeft
<1>2. CASE Loop \/ CaptureSingleFrame
  BY <1>2, StartCounts DEF Loop, CaptureSingleFrame
<1>3. CASE Stop BY <1>3, StopCapturingCounts DEF Stop
<1>4. ASSUME NEW r, GuideRequest(r) PROVE CountsLeft(app')
  <2> DEFINE b == (r = "recalibrate")
  <2>1. PICK f : app' = StartGuideOp(app, b, f) BY <1>4 DEF GuideRequest
  <2>2. b \in BOOLEAN OBVIOUS
  <2> HIDE DEF b
  <2> QED BY <2>1, <2>2, StartGuideOpCounts
<1>5. CASE Dither BY <1>5, StartDitherCounts DEF Dither
<1>6. CASE Pause("pauseGuiding", "guiding") \/ Pause("pauseFull", "full") \/ Resume
  BY <1>6, SetPausedCounts DEF Pause, Resume, PauseTypes
<1>7. CASE FindStarRequest \/ DeselectStar \/ GuidePulse \/ ClearCalibrationRequest
  BY <1>1, <1>7, AutoSelectKeeps, ResetKeeps, ScheduleManualMoveKeeps,
     ClearCalibrationKeeps, KeepsCounts
     DEF FindStarRequest, DeselectStar, GuidePulse, ClearCalibrationRequest
<1>8. CASE SetDecGuideMode
  <2>1. PICK m \in DecModes : app' = [app EXCEPT !.decMode = m, !.wantDec = m]
    BY <1>8 DEF SetDecGuideMode
  <2>2. Keeps(app, [app EXCEPT !.decMode = m, !.wantDec = m])
    BY <1>1, SettingKeeps
  <2> QED BY <2>1, <2>2, KeepsCounts
<1>9. CASE ConnectCamera \/ ConnectMount
  <2>1. "auto" \in DecModes BY DEF DecModes
  <2> QED BY <1>1, <1>9, <2>1, SettingKeeps, KeepsCounts DEF ConnectCamera, ConnectMount
<1> QED BY <1>2, <1>3, <1>4, <1>5, <1>6, <1>7, <1>8, <1>9 DEF ClientStep

\* The attempts to find a star and the frames to wait for it are counted down
\* without a look at zero (phdcontrol.cpp:401, :430), and yet neither is ever
\* taken past it: whatever requests, stops, errors and reconnects come between
\* two frames, the controller counts only what it has left.
THEOREM CountdownsHold == Spec => []CountdownsLast
<1>1. Init => IInv /\ CountsLeft(app)
  <2> SUFFICES ASSUME Init PROVE IInv /\ CountsLeft(app) OBVIOUS
  <2>1. IInv BY InitInv
  <2>2. app.finds = 0 /\ app.waits = 0 /\ app.ctrl = "idle" BY DEF Init, AppInit
  <2> QED BY <2>1, <2>2 DEF IInv, TypeOK, CountsLeft, Searching
<1>2. IInv /\ CountsLeft(app) /\ [Next]_vars => (IInv /\ CountsLeft(app))'
  <2> SUFFICES ASSUME IInv, CountsLeft(app), [Next]_vars PROVE (IInv /\ CountsLeft(app))'
    OBVIOUS
  <2>1. IInv' BY NextInv
  <2>2. app' \in AppRecord BY <2>1 DEF IInv, TypeOK
  <2>3. CountsLeft(app')
    <3>1. CASE UNCHANGED vars BY <3>1 DEF vars
    <3> QED BY <2>2, <3>1, WorkerStepCounts, MainStepCounts, ClientStepCounts DEF Next
  <2>4. CountsLeft(app)' BY <2>3 DEF CountsLeft, Searching
  <2> QED BY <2>1, <2>4
<1>3. CountsLeft(app) => CountdownsLast BY DEF CountsLeft, Searching, CountdownsLast
<1> QED BY <1>1, <1>2, <1>3, PTL DEF Spec
=============================================================================
