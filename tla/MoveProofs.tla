----------------------------- MODULE MoveProofs -----------------------------
(***************************************************************************)
(* Proofs, for every value of the constants and every set of requests,     *)
(* about the moves between the main thread and the worker, about what      *)
(* keeps a capture going, and about the guider's star; and that the        *)
(* capture loop implements the capture session.                            *)
(*                                                                         *)
(* Most operators follow their argument (Follows): moves, pauses and the   *)
(* single exposure are left alone, and the rest stays as it has to be.     *)
(* Only a frame pushes a move, and one at most (Pushes).                   *)
(***************************************************************************)
EXTENDS CaptureProofs, CaptureRefinement

-----------------------------------------------------------------------------
(* What is kept by operators that schedule no move *)

\* StarWhenSelected and GuidingTold, of a record
Sighted(s) ==
  /\ s.guider # "selecting" => s.star = "valid"
  /\ s.guider = "guiding" => s.toldGuiding

\* CaptureGoesOn and SingleAlone, of a record
Going(s) ==
  /\ s.continue => s.active
  /\ s.active /\ s.continue /\ s.paused # "full" => s.pending
  /\ s.single => s.active /\ ~s.continue

Quiet(r, s) ==
  /\ s \in AppRecord
  /\ s.high = r.high
  /\ s.reqs = r.reqs
  /\ Sighted(s)

\* A capture that is active is left alone, and one that is not may be
\* started, with its first exposure.
Follows(r, s) ==
  /\ Quiet(r, s)
  /\ s.paused = r.paused
  /\ s.single = r.single
  /\ r.active => Spares(r, s)
  /\ Going(r) => Going(s) /\ (s.active => r.active \/ (s.continue /\ s.pending))

LEMMA FollowsItself ==
  ASSUME NEW s \in AppRecord, Sighted(s) PROVE Follows(s, s)
BY DEF Follows, Quiet, Spares

LEMMA FollowsOn ==
  ASSUME NEW r, NEW s, NEW t, Follows(r, s), Follows(s, t)
  PROVE Follows(r, t)
<1>1. Quiet(r, t) /\ t.paused = r.paused /\ t.single = r.single
  BY DEF Follows, Quiet
<1>2. r.active => Spares(r, t) BY DEF Follows, Spares
<1>3. ASSUME Going(r), t.active, ~r.active PROVE t.continue /\ t.pending
  <2>1. CASE s.active
    <3>1. s.continue /\ s.pending BY <1>3, <2>1 DEF Follows
    <3>2. Spares(s, t) BY <2>1 DEF Follows
    <3> QED BY <3>1, <3>2 DEF Spares
  <2>2. CASE ~s.active BY <1>3, <2>2 DEF Follows
  <2> QED BY <2>1, <2>2
<1>4. Going(r) => Going(t) BY DEF Follows
<1> QED BY <1>1, <1>2, <1>3, <1>4 DEF Follows

\* Fields that moves and captures may depend on, besides those of Keeps
SameCapture(s, t) ==
  t.high = s.high /\ t.reqs = s.reqs /\ t.paused = s.paused /\ t.single = s.single
SameSight(s, t) ==
  t.guider = s.guider /\ t.star = s.star /\ t.toldGuiding = s.toldGuiding

LEMMA Following ==
  ASSUME NEW r, NEW s, NEW t, Follows(r, s), Keeps(s, t) \/ Spares(s, t),
         SameCapture(s, t), SameSight(s, t) \/ Sighted(t)
  PROVE Follows(r, t)
<1>0. Spares(s, t) BY DEF Keeps
<1>1. Sighted(t) BY DEF Follows, Quiet, Sighted, SameSight
<1>2. Going(s) => Going(t) BY <1>0 DEF Going, Spares, SameCapture
<1>3. r.active => Spares(r, t) BY <1>0 DEF Follows, Spares
<1> QED BY <1>0, <1>1, <1>2, <1>3 DEF Follows, Quiet, Spares, SameCapture

\* A failed assertion is remembered, and nothing else changes.
LEMMA AssertSame ==
  ASSUME NEW s \in AppRecord, NEW n \in Assertions, NEW b \in BOOLEAN
  PROVE LET t == Assert_(s, n, b)
        IN Keeps(s, t) /\ SameCapture(s, t) /\ SameSight(s, t) /\ t.owed = s.owed
<1>1. Keeps(s, Assert_(s, n, b)) BY KeepsItself, AssertKeeps
<1> QED BY <1>1 DEF Assert_, AppRecord, SameCapture, SameSight

LEMMA FollowsTyped ==
  ASSUME NEW r, NEW s, Follows(r, s)
  PROVE s \in AppRecord /\ Keeps(s, s) /\ Carries(s, s) /\ Sighted(s)
BY KeepsItself, CarriesItself DEF Follows, Quiet

LEMMA ClearCalibrationFollows ==
  ASSUME NEW r, NEW s, Follows(r, s)
  PROVE Follows(r, ClearCalibration(s))
<1>1. s \in AppRecord /\ Keeps(s, ClearCalibration(s))
  BY FollowsTyped, ClearCalibrationKeeps
<1>2. SameCapture(s, ClearCalibration(s)) /\ SameSight(s, ClearCalibration(s))
  BY <1>1 DEF ClearCalibration, AppRecord, SameCapture, SameSight
<1> QED BY <1>1, <1>2, Following

LEMMA FinishFollows ==
  ASSUME NEW r, NEW s, Follows(r, s)
  PROVE Follows(r, Finish(s)) /\ Follows(r, AbortController(s))
<1>1. s \in AppRecord /\ Keeps(s, Finish(s)) BY FollowsTyped, FinishKeeps
<1>2. SameCapture(s, Finish(s)) /\ SameSight(s, Finish(s))
  BY <1>1 DEF Finish, AppRecord, SameCapture, SameSight
<1>3. Follows(r, Finish(s)) BY <1>1, <1>2, Following
<1> QED BY <1>3 DEF AbortController

LEMMA SetUninitializedFollows ==
  ASSUME NEW r, NEW s, Follows(r, s)
  PROVE Follows(r, SetUninitialized(s))
<1> DEFINE t == SetUninitialized(s)
<1>1. s \in AppRecord /\ Keeps(s, t) BY FollowsTyped, SetUninitializedKeeps
<1>2. SameCapture(s, t) /\ t.guider = "selecting"
  BY <1>1 DEF SetUninitialized, InvalidateCurrentPosition, AppRecord, SameCapture
<1>3. Sighted(t)
  <2> HIDE DEF t
  <2> QED BY <1>2 DEF Sighted
<1> HIDE DEF t
<1>4. Follows(r, t) BY <1>1, <1>2, <1>3, Following
<1> QED BY <1>4 DEF t

\* InvalidateCurrentPosition is called in STATE_SELECTING only.
LEMMA ResetFollows ==
  ASSUME NEW r, NEW s, Follows(r, s), NEW full
  PROVE Follows(r, Reset(s, full))
<1> DEFINE u == SetUninitialized(s)
           t == InvalidateCurrentPosition(u, TRUE)
<1>1. Follows(r, u) BY SetUninitializedFollows
<1>2. s \in AppRecord BY FollowsTyped
<1>3. u.guider = "selecting"
  BY <1>2 DEF SetUninitialized, InvalidateCurrentPosition, AppRecord
<1>4. Reset(s, full) \in {t, u} BY DEF Reset
<1> HIDE DEF u
<1>5. u \in AppRecord /\ Keeps(u, t) BY <1>1, FollowsTyped, InvalidateKeeps
<1>6. SameCapture(u, t) /\ t.guider = u.guider
  BY <1>5 DEF InvalidateCurrentPosition, AppRecord, SameCapture
<1> HIDE DEF t
<1>7. Sighted(t) BY <1>3, <1>6 DEF Sighted
<1>8. Follows(r, t) BY <1>1, <1>5, <1>6, <1>7, Following
<1> QED BY <1>1, <1>4, <1>8

\* Scope::BeginCalibration is called with a valid star.
LEMMA BeginCalibrationFollows ==
  ASSUME NEW r, NEW s, Follows(r, s), s.star = "valid"
  PROVE Follows(r, BeginCalibration(s))
<1> DEFINE t == BeginCalibration(s)
<1>1. s \in AppRecord /\ Keeps(s, t) BY FollowsTyped, BeginCalibrationKeeps
<1>2. SameCapture(s, t) /\ t.guider = "calibrating" /\ t.star = s.star
  BY <1>1 DEF BeginCalibration, ClearCalibration, AppRecord, SameCapture
<1>3. Sighted(t)
  <2> HIDE DEF t
  <2> QED BY <1>2 DEF Sighted
<1> HIDE DEF t
<1>4. Follows(r, t) BY <1>1, <1>2, <1>3, Following
<1> QED BY <1>4 DEF t

\* The guider, its star at hand, is put in a state before STATE_GUIDING.
LEMMA GuiderFollows ==
  ASSUME NEW r, NEW s, Follows(r, s), s.guider # "selecting",
         NEW g \in {"selected", "calibrated"}
  PROVE Follows(r, [s EXCEPT !.guider = g])
<1> DEFINE t == [s EXCEPT !.guider = g]
<1>1. s \in AppRecord /\ Sighted(s) BY FollowsTyped
<1>2. Keeps(s, t) BY <1>1 DEF AppRecord, Keeps, Spares, GuiderStates
<1>3. SameCapture(s, t) /\ t.guider = g /\ t.star = s.star
  BY <1>1 DEF AppRecord, SameCapture
<1> HIDE DEF t
<1>4. Sighted(t) BY <1>1, <1>3 DEF Sighted
<1>5. Follows(r, t) BY <1>2, <1>3, <1>4, Following
<1> QED BY <1>5 DEF t

LEMMA StartGuiderFollows ==
  ASSUME NEW r, NEW s, Follows(r, s)
  PROVE Follows(r, StartGuider(s))
<1>1. CASE s.guider = "selecting" BY <1>1 DEF StartGuider
<1>2. CASE s.guider # "selecting" /\ IsCalibrated(s)
  BY <1>2, GuiderFollows DEF StartGuider
<1>3. CASE s.guider # "selecting" /\ ~IsCalibrated(s)
  <2>1. StartGuider(s) = IF s.mountOn /\ s.star = "valid" THEN BeginCalibration(s)
                         ELSE SetUninitialized(s)
    BY <1>3 DEF StartGuider
  <2> QED BY <2>1, BeginCalibrationFollows, SetUninitializedFollows
<1> QED BY <1>1, <1>2, <1>3

LEMMA SetStopFollows ==
  ASSUME NEW r, NEW s, Follows(r, s)
  PROVE Follows(r, SetStop(s))
BY GuiderFollows, SetUninitializedFollows DEF SetStop

\* MyFrame::NotifyGuidingStopped leaves a guider that may still be guiding.
LEMMA NotifyGuidingStoppedSame ==
  ASSUME NEW s \in AppRecord
  PROVE LET t == NotifyGuidingStopped(s)
        IN /\ Keeps(s, t) /\ SameCapture(s, t)
           /\ t.guider = s.guider /\ t.star = s.star /\ t.toldGuiding = FALSE
<1> DEFINE b == ~IsBusy(s)
           a == Assert_(s, "mount idle at stop", b)
           n == [a EXCEPT !.toldGuiding = FALSE, !.owed = FALSE]
           t == IF n.ctrl = "idle" THEN n ELSE Finish(n)
<1>1. b \in BOOLEAN BY DEF IsBusy, AppRecord
<1>2. Keeps(s, a) /\ SameCapture(s, a) /\ SameSight(s, a)
  <2> HIDE DEF b
  <2> QED BY <1>1, AssertSame DEF Assertions
<1>3. NotifyGuidingStopped(s) = t /\ Keeps(s, NotifyGuidingStopped(s))
  BY KeepsItself, NotifyGuidingStoppedKeeps DEF NotifyGuidingStopped, AbortController
<1> HIDE DEF a
<1>4. /\ n \in AppRecord /\ SameCapture(s, n)
      /\ n.guider = s.guider /\ n.star = s.star /\ n.toldGuiding = FALSE
  BY ZenonT(60), <1>2 DEF AppRecord, Keeps, Spares, SameCapture, SameSight
<1> HIDE DEF n
<1>5. SameCapture(n, t) /\ SameSight(n, t)
  BY <1>4 DEF Finish, AppRecord, SameCapture, SameSight
<1> HIDE DEF t
<1> QED BY <1>3, <1>4, <1>5 DEF SameCapture, SameSight

\* Guider::StopGuiding: whoever was guiding is told, or owed, and the
\* guider leaves STATE_GUIDING in the same call.
LEMMA StopGuidingFollows ==
  ASSUME NEW r, NEW s, Follows(r, s)
  PROVE Follows(r, StopGuiding(s)) /\ Follows(r, StopIfGuiding(s))
<1> DEFINE n == NotifyGuidingStopped(s)
           o == [s EXCEPT !.owed = TRUE]
           st == SetStop(n)
<1>1. s \in AppRecord /\ Keeps(s, s) /\ Sighted(s) BY FollowsTyped
<1>2. Follows(r, SetStop(o))
  <2>1. Keeps(s, o) /\ SameCapture(s, o) /\ SameSight(s, o)
    BY <1>1 DEF Keeps, Spares, AppRecord, SameCapture, SameSight
  <2> HIDE DEF o
  <2> QED BY <2>1, Following, SetStopFollows
<1>3. Follows(r, SetStop(s)) BY SetStopFollows
<1>4. ASSUME CalibratingOrGuiding(s) PROVE Follows(r, st)
  <2>1. /\ Keeps(s, n) /\ SameCapture(s, n)
        /\ n.guider = s.guider /\ n.star = s.star
    BY <1>1, NotifyGuidingStoppedSame
  <2> HIDE DEF n
  <2>2. n.guider \in {"calibrating", "calibrated", "guiding"} /\ n.star = "valid"
    BY <1>1, <1>4, <2>1 DEF CalibratingOrGuiding, Sighted
  <2>3. n \in AppRecord /\ Keeps(n, n) BY <2>1, KeepsItself DEF Keeps, Spares
  <2>4. Keeps(n, st) BY <2>3, SetStopKeeps
  <2>5. /\ SameCapture(n, st)
        /\ \/ st.guider = "selecting"
           \/ st.guider = "selected" /\ st.star = "valid"
    <3>1. CASE n.guider = "calibrating"
      <4>1. st = SetUninitialized(n) BY <3>1 DEF SetStop
      <4> QED BY <2>3, <4>1 DEF SetUninitialized, InvalidateCurrentPosition,
                                AppRecord, SameCapture
    <3>2. CASE n.guider \in {"calibrated", "guiding"}
      <4>1. st = [n EXCEPT !.guider = "selected"] BY <3>2 DEF SetStop
      <4> QED BY <2>2, <2>3, <4>1 DEF AppRecord, SameCapture
    <3> QED BY <2>2, <3>1, <3>2
  <2> HIDE DEF st
  <2>6. Sighted(st) BY <2>5 DEF Sighted
  <2>7. Keeps(s, st) /\ SameCapture(s, st) BY <2>1, <2>4, <2>5 DEF Keeps, Spares, SameCapture
  <2> QED BY <2>6, <2>7, Following
<1>5. Follows(r, StopGuiding(s))
  <2>1. StopGuiding(s) = SetStop(CASE CalibratingOrGuiding(s) /\ ~IsBusy(s) -> n
            [] CalibratingOrGuiding(s) /\ IsBusy(s) -> o
            [] OTHER -> s)
    BY DEF StopGuiding
  <2> HIDE DEF n, o
  <2>2. \/ CalibratingOrGuiding(s) /\ StopGuiding(s) = st
        \/ StopGuiding(s) \in {SetStop(o), SetStop(s)}
    BY <2>1
  <2> HIDE DEF st
  <2> QED BY <2>2, <1>2, <1>3, <1>4
<1> QED BY <1>5 DEF StopIfGuiding

-----------------------------------------------------------------------------
(* Starting a capture *)

LEMMA ScheduleExposureSame ==
  ASSUME NEW s \in AppRecord
  PROVE LET t == ScheduleExposure(s)
        IN /\ t \in AppRecord /\ SameCapture(s, t) /\ SameSight(s, t)
           /\ t.pending = TRUE /\ t.active = s.active /\ t.continue = s.continue
<1> DEFINE b == ~s.pending
           a == Assert_(s, "exposure not pending", b)
           n == a.low + 1
           t == [a EXCEPT !.pending = TRUE, !.low = n, !.intStop = FALSE]
<1>1. b \in BOOLEAN BY DEF AppRecord
<1>2. a \in AppRecord /\ SameCapture(s, a) /\ SameSight(s, a)
  <2> HIDE DEF b
  <2> QED BY <1>1, AssertSame DEF Assertions, Keeps, Spares
<1>3. ScheduleExposure(s) = t BY DEF ScheduleExposure
<1> HIDE DEF a
<1>4. SameCapture(a, t) /\ SameSight(a, t)
  <2> HIDE DEF n
  <2> QED BY <1>2 DEF AppRecord, SameCapture, SameSight
<1> HIDE DEF t
<1> QED BY <1>2, <1>3, <1>4, ScheduleExposureQueues DEF SameCapture, SameSight

\* MyFrame::StartCapturing: an inactive capture gets an exposure, now or as
\* the pending one completes.
LEMMA StartCapturingSame ==
  ASSUME NEW s \in AppRecord
  PROVE LET t == StartCapturing(s)
        IN /\ t \in AppRecord /\ SameCapture(s, t) /\ SameSight(s, t)
           /\ s.active => t = s
           /\ ~s.active => /\ t.active = TRUE /\ t.pending = TRUE
                           /\ t.continue = (s.continue \/ ~s.single)
<1> DEFINE c == s.continue \/ ~s.single
           i == [s EXCEPT !.active = TRUE, !.continue = c]
<1>1. c \in BOOLEAN BY DEF AppRecord
<1>2. /\ i \in AppRecord /\ SameCapture(s, i) /\ SameSight(s, i)
      /\ i.active = TRUE /\ i.continue = c /\ i.pending = s.pending
  <2> HIDE DEF c
  <2> QED BY ZenonT(60), <1>1 DEF AppRecord, SameCapture, SameSight
<1>3. StartCapturing(s) = CASE s.active -> s
                            [] ~s.active /\ ~s.pending -> ScheduleExposure(i)
                            [] OTHER -> i
  BY DEF StartCapturing
<1> HIDE DEF i
<1> DEFINE u == ScheduleExposure(i)
<1>4. /\ u \in AppRecord /\ SameCapture(i, u) /\ SameSight(i, u)
      /\ u.pending = TRUE /\ u.active = TRUE /\ u.continue = c
  BY <1>2, ScheduleExposureSame
<1> HIDE DEF u
<1>5. s.active \in BOOLEAN /\ s.pending \in BOOLEAN BY DEF AppRecord
<1>6. CASE s.active
  BY <1>3, <1>6 DEF SameCapture, SameSight
<1>7. CASE ~s.active /\ ~s.pending
  <2>1. StartCapturing(s) = u BY <1>3, <1>7 DEF u
  <2> QED BY <1>2, <1>4, <1>7, <2>1 DEF SameCapture, SameSight
<1>8. CASE ~s.active /\ s.pending
  <2>1. StartCapturing(s) = i BY <1>3, <1>8
  <2> QED BY <1>2, <1>5, <1>8, <2>1
<1> QED BY <1>5, <1>6, <1>7, <1>8

LEMMA StartCapturingFollows ==
  ASSUME NEW r, NEW s, Follows(r, s)
  PROVE Follows(r, StartCapturing(s))
<1> DEFINE t == StartCapturing(s)
<1>1. s \in AppRecord /\ Sighted(s) BY FollowsTyped
<1>2. /\ t \in AppRecord /\ SameCapture(s, t) /\ SameSight(s, t)
      /\ s.active => t = s
      /\ ~s.active => /\ t.active = TRUE /\ t.pending = TRUE
                      /\ t.continue = (s.continue \/ ~s.single)
  BY <1>1, StartCapturingSame
<1> HIDE DEF t
<1>3. Going(s) => Going(t)
  <2>1. s.active \in BOOLEAN /\ s.single \in BOOLEAN /\ s.continue \in BOOLEAN
    BY <1>1 DEF AppRecord
  <2> QED BY <1>2, <2>1 DEF Going, SameCapture
<1>4. Sighted(t) BY <1>1, <1>2 DEF Sighted, SameSight
<1>5. Follows(s, t)
  <2>1. s.active => Spares(s, t) BY <1>1, <1>2 DEF Spares
  <2>2. ASSUME Going(s), ~s.active PROVE t.continue /\ t.pending
    <3>1. s.active \in BOOLEAN /\ s.single \in BOOLEAN BY <1>1 DEF AppRecord
    <3> QED BY <1>2, <2>2, <3>1 DEF Going
  <2> QED BY <1>2, <1>3, <1>4, <2>1, <2>2 DEF Follows, Quiet, SameCapture
<1>6. Follows(r, t) BY <1>5, FollowsOn
<1> QED BY <1>6 DEF t

LEMMA StartFollows ==
  ASSUME NEW r, NEW s, Follows(r, s)
  PROVE Follows(r, StartLooping(s)) /\ Follows(r, StartGuiding(s))
<1>1. Follows(r, StartLooping(s))
  <2>1. s.active \in BOOLEAN BY FollowsTyped DEF AppRecord
  <2> QED BY <2>1, StopGuidingFollows, StartCapturingFollows DEF StartLooping
<1>2. Follows(r, StartGuiding(s))
  BY StartGuiderFollows, StartCapturingFollows DEF StartGuiding
<1> QED BY <1>1, <1>2

-----------------------------------------------------------------------------
(* A move is pushed, by one frame at a time *)

\* One more move may have been scheduled in s.
Pushed(r, s) ==
  \/ s.high = r.high /\ s.reqs = r.reqs
  \/ s.high = Append(r.high, "move") /\ s.reqs = r.reqs + 1

Pushes(r, s) ==
  /\ s \in AppRecord
  /\ s.paused = r.paused
  /\ s.single = r.single
  /\ Sighted(s)
  /\ Pushed(r, s)

LEMMA FollowsPushes ==
  ASSUME NEW r, NEW s, Follows(r, s) PROVE Pushes(r, s)
BY DEF Follows, Quiet, Pushes, Pushed

LEMMA PushesOn ==
  ASSUME NEW r, NEW s, NEW t,
         \/ Follows(r, s) /\ Pushes(s, t)
         \/ Pushes(r, s) /\ Follows(s, t)
  PROVE Pushes(r, t)
BY DEF Follows, Quiet, Pushes, Pushed

LEMMA ScheduleMovePushes ==
  ASSUME NEW s \in AppRecord, Sighted(s)
  PROVE Pushes(s, ScheduleMove(s)) /\ ScheduleMove(s).guider = s.guider
<1> DEFINE m == s.reqs + 1
           i == [s EXCEPT !.reqs = m]
           b == m <= 2
           a == Assert_(i, "request count", b)
           h == Append(a.high, "move")
           t == [a EXCEPT !.high = h, !.intStop = FALSE]
<1>1. m \in Int /\ b \in BOOLEAN BY DEF AppRecord
<1>2. /\ i \in AppRecord /\ SameSight(s, i) /\ i.reqs = m
      /\ i.high = s.high /\ i.paused = s.paused /\ i.single = s.single
  <2> HIDE DEF m
  <2> QED BY <1>1 DEF AppRecord, SameSight
<1>3. ScheduleMove(s) = t BY DEF ScheduleMove, IncrementRequestCount
<1>4. ScheduleMove(s) \in AppRecord
  BY KeepsItself, ScheduleMoveKeeps DEF Keeps, Spares
<1> HIDE DEF i
<1>5. a \in AppRecord /\ SameCapture(i, a) /\ SameSight(i, a)
  <2> HIDE DEF b
  <2> QED BY <1>1, <1>2, AssertSame DEF Assertions, Keeps, Spares
<1> HIDE DEF a
<1>6. /\ t.high = h /\ t.reqs = a.reqs /\ t.paused = a.paused
      /\ t.single = a.single /\ SameSight(a, t)
  <2> HIDE DEF h
  <2> QED BY <1>5 DEF AppRecord, SameSight
<1> HIDE DEF t
<1>7. /\ t.high = Append(s.high, "move") /\ t.reqs = s.reqs + 1
      /\ t.paused = s.paused /\ t.single = s.single /\ SameSight(s, t)
  BY <1>2, <1>5, <1>6 DEF SameCapture, SameSight
<1> QED BY <1>3, <1>4, <1>7 DEF Pushes, Pushed, Sighted, SameSight

\* A field of the calibration is set; the guider does not see it.
LEMMA CalibrationSame ==
  ASSUME NEW s \in AppRecord, Sighted(s), NEW run \in CalibrationStates,
         NEW c \in Calibrations
  PROVE LET t == [s EXCEPT !.cal = c, !.calRun = run]
            u == [s EXCEPT !.calRun = run]
            v == [s EXCEPT !.cal = c]
        IN /\ Follows(s, t) /\ t.guider = s.guider
           /\ Follows(s, u) /\ u.guider = s.guider
           /\ Follows(s, v) /\ v.guider = s.guider
<1> DEFINE t == [s EXCEPT !.cal = c, !.calRun = run]
           u == [s EXCEPT !.calRun = run]
           v == [s EXCEPT !.cal = c]
<1>1. Keeps(s, t) /\ SameCapture(s, t) /\ SameSight(s, t)
  BY ZenonT(60) DEF AppRecord, Keeps, Spares, SameCapture, SameSight
<1>2. Keeps(s, u) /\ SameCapture(s, u) /\ SameSight(s, u)
  BY ZenonT(60) DEF AppRecord, Keeps, Spares, SameCapture, SameSight
<1>3. Keeps(s, v) /\ SameCapture(s, v) /\ SameSight(s, v)
  BY ZenonT(60) DEF AppRecord, Keeps, Spares, SameCapture, SameSight
<1> HIDE DEF t, u, v
<1>4. Follows(s, s) BY FollowsItself
<1>5. Follows(s, t) /\ Follows(s, u) /\ Follows(s, v)
  BY <1>1, <1>2, <1>3, <1>4, Following
<1> QED BY <1>1, <1>2, <1>3, <1>5 DEF t, u, v, SameSight

\* Scope::UpdateCalibrationState
LEMMA UpdateCalibrationPushes ==
  ASSUME NEW s \in AppRecord, Sighted(s), NEW f
  PROVE LET u == UpdateCalibrationState(s, f)
        IN Pushes(s, u) /\ u.guider = s.guider
<1> DEFINE P(u) == Pushes(s, u) /\ u.guider = s.guider
           d == [s EXCEPT !.calRun = "dec"]
           ad == [s EXCEPT !.calRun = "raDone"]
           ar == [s EXCEPT !.cal = "ra"]
           full == [s EXCEPT !.cal = "full", !.calRun = "complete"]
           a == Assert_(s, "calibration running", FALSE)
<1>1. Follows(s, s) BY FollowsItself
<1>2. P(a)
  <2>1. Keeps(s, a) /\ SameCapture(s, a) /\ SameSight(s, a)
    BY AssertSame DEF Assertions
  <2> HIDE DEF a
  <2>2. Follows(s, a) BY <1>1, <2>1, Following
  <2> QED BY <2>1, <2>2, FollowsPushes DEF SameSight
<1>3. P(ScheduleMove(s)) BY ScheduleMovePushes
<1>4. P(ClearCalibration(s))
  <2>1. Follows(s, ClearCalibration(s)) BY <1>1, ClearCalibrationFollows
  <2>2. ClearCalibration(s).guider = s.guider BY DEF ClearCalibration, AppRecord
  <2> QED BY <2>1, <2>2, FollowsPushes
<1>5. /\ Follows(s, d) /\ d.guider = s.guider
      /\ Follows(s, ad) /\ ad.guider = s.guider
      /\ Follows(s, ar) /\ ar.guider = s.guider
      /\ Follows(s, full) /\ full.guider = s.guider
  BY ZenonT(40), CalibrationSame DEF CalibrationStates, Calibrations
<1>6. UpdateCalibrationState(s, f) \in
        {a, ClearCalibration(s), ScheduleMove(s), ad, ScheduleMove(d), ar, full}
  BY DEF UpdateCalibrationState
<1> HIDE DEF a, d, ad, ar, full
<1>7. P(ScheduleMove(d))
  <2>1. d \in AppRecord /\ Sighted(d) BY <1>5, FollowsTyped
  <2>2. Pushes(d, ScheduleMove(d)) /\ ScheduleMove(d).guider = d.guider
    BY <2>1, ScheduleMovePushes
  <2> QED BY <1>5, <2>2, PushesOn
<1>8. P(ad) /\ P(ar) /\ P(full) BY <1>5, FollowsPushes
<1> QED BY <1>2, <1>3, <1>4, <1>6, <1>7, <1>8

-----------------------------------------------------------------------------
(* Guider::UpdateGuideState *)

LEMMA BeginGuidingFollows ==
  ASSUME NEW s \in AppRecord, Sighted(s), s.guider # "selecting"
  PROVE Follows(s, BeginGuiding(s))
<1> DEFINE t == BeginGuiding(s)
<1>1. Keeps(s, t) BY KeepsItself, BeginGuidingKeeps
<1>2. SameCapture(s, t) /\ t.star = s.star /\ t.toldGuiding = TRUE
  BY DEF BeginGuiding, NotifyGuidingStarted, AppRecord, SameCapture
<1> HIDE DEF t
<1>3. Sighted(t) BY <1>2 DEF Sighted
<1>4. Follows(s, t) BY <1>1, <1>2, <1>3, FollowsItself, Following
<1> QED BY <1>4 DEF t

LEMMA CalibrationFramePushes ==
  ASSUME NEW s \in AppRecord, Sighted(s), s.guider = "calibrating", NEW f
  PROVE Pushes(s, CalibrationFrame(s, f))
<1> DEFINE u == IF IsCalibrated(s) THEN s ELSE UpdateCalibrationState(s, f)
<1>1. Follows(s, s) BY FollowsItself
<1>2. Pushes(s, u) /\ u.guider = "calibrating"
  <2>1. Pushes(s, s) BY <1>1, FollowsPushes
  <2>2. /\ Pushes(s, UpdateCalibrationState(s, f))
        /\ UpdateCalibrationState(s, f).guider = s.guider
    BY UpdateCalibrationPushes
  <2> QED BY <2>1, <2>2
<1>3. CalibrationFrame(s, f) \in {SetUninitialized(u), BeginGuiding(u), u}
  BY DEF CalibrationFrame
<1> HIDE DEF u
<1>4. u \in AppRecord /\ Sighted(u) /\ u.guider # "selecting"
  BY <1>2 DEF Pushes
<1>5. Follows(u, SetUninitialized(u)) /\ Follows(u, BeginGuiding(u))
  BY <1>4, FollowsItself, SetUninitializedFollows, BeginGuidingFollows
<1> QED BY <1>2, <1>3, <1>5, PushesOn

LEMMA StarSeenPushes ==
  ASSUME NEW s \in AppRecord, Sighted(s), s.star = "valid", NEW f
  PROVE /\ Pushes(s, StarSeen(s, f))
        /\ s.guider = "selecting" => Follows(s, StarSeen(s, f))
<1>1. Follows(s, s) BY FollowsItself
<1> DEFINE t == [s EXCEPT !.guider = "selected"]
<1>2. Follows(s, t)
  <2>1. Keeps(s, t) BY DEF AppRecord, Keeps, Spares, GuiderStates
  <2>2. SameCapture(s, t) /\ t.guider = "selected" /\ t.star = s.star
    BY DEF AppRecord, SameCapture
  <2> HIDE DEF t
  <2>3. Sighted(t) BY <2>2 DEF Sighted
  <2> QED BY <1>1, <2>1, <2>2, <2>3, Following
<1>3. CASE s.guider = "selecting"
  <2>1. StarSeen(s, f) \in {s, t} BY <1>3 DEF StarSeen
  <2> QED BY <1>1, <1>2, <2>1, FollowsPushes
<1>4. CASE s.guider # "selecting"
  <2>1. s.guider = "calibrating" => Pushes(s, CalibrationFrame(s, f))
    BY CalibrationFramePushes
  <2>2. Pushes(s, BeginGuiding(s)) BY <1>4, BeginGuidingFollows, FollowsPushes
  <2>3. Pushes(s, ScheduleMove(s)) BY ScheduleMovePushes
  <2>4. Pushes(s, s) BY <1>1, FollowsPushes
  <2> QED BY <1>4, <2>1, <2>2, <2>3, <2>4 DEF StarSeen
<1> QED BY <1>3, <1>4

LEMMA StarMissedPushes ==
  ASSUME NEW s \in AppRecord, Sighted(s)
  PROVE Pushes(s, StarMissed(s))
BY FollowsItself, SetUninitializedFollows, FollowsPushes, ScheduleMovePushes
   DEF StarMissed

LEMMA FindStarPushes ==
  ASSUME NEW s \in AppRecord, Sighted(s), NEW f
  PROVE /\ Pushes(s, FindStar(s, f))
        /\ s.guider = "selecting" /\ s.star # "none" /\ f.star = "found"
             => Follows(s, FindStar(s, f))
<1> DEFINE v == [s EXCEPT !.star = "valid"]
<1>1. Follows(s, v) /\ v.guider = s.guider /\ v.star = "valid"
  <2>1. Keeps(s, v) BY DEF AppRecord, Keeps, Spares, StarStates
  <2>2. /\ SameCapture(s, v) /\ v.guider = s.guider /\ v.star = "valid"
        /\ v.toldGuiding = s.toldGuiding
    BY DEF AppRecord, SameCapture
  <2> HIDE DEF v
  <2>3. Sighted(v) BY <2>2 DEF Sighted
  <2> QED BY <2>1, <2>2, <2>3, FollowsItself, Following
<1>2. FindStar(s, f) = IF s.star # "none" /\ f.star = "found"
                       THEN StarSeen(v, f) ELSE StarMissed(s)
  BY DEF FindStar
<1> HIDE DEF v
<1>3. v \in AppRecord /\ Sighted(v) BY <1>1, FollowsTyped
<1>4. /\ Pushes(v, StarSeen(v, f))
      /\ v.guider = "selecting" => Follows(v, StarSeen(v, f))
  BY <1>1, <1>3, StarSeenPushes
<1>5. Pushes(s, StarSeen(v, f)) BY <1>1, <1>4, PushesOn
<1>6. s.guider = "selecting" => Follows(s, StarSeen(v, f))
  BY <1>1, <1>4, FollowsOn
<1> QED BY <1>2, <1>5, <1>6, StarMissedPushes

LEMMA UpdateGuideStatePushes ==
  ASSUME NEW s \in AppRecord, Sighted(s), NEW f, NEW stopping \in BOOLEAN
  PROVE /\ Pushes(s, UpdateGuideState(s, f, stopping))
        /\ ~stopping /\ s.guider = "selecting" /\ s.star = "valid" /\ f.star = "found"
             => Follows(s, UpdateGuideState(s, f, stopping))
<1> DEFINE b == ~IsBusy(s)
           a == Assert_(s, "mount idle at frame", b)
<1>1. Follows(s, s) BY FollowsItself
<1>2. Pushes(s, StopGuiding(s)) BY <1>1, StopGuidingFollows, FollowsPushes
<1>3. b \in BOOLEAN BY DEF IsBusy, AppRecord
<1>4. Keeps(s, a) /\ SameCapture(s, a) /\ SameSight(s, a)
  <2> HIDE DEF b
  <2> QED BY <1>3, AssertSame DEF Assertions
<1>5. UpdateGuideState(s, f, stopping) =
        IF stopping THEN StopGuiding(s) ELSE FindStar(a, f)
  BY DEF UpdateGuideState
<1> HIDE DEF a
<1>6. Follows(s, a) BY <1>1, <1>4, Following
<1>7. a \in AppRecord /\ Sighted(a) BY <1>6, FollowsTyped
<1>8. /\ Pushes(a, FindStar(a, f))
      /\ a.guider = "selecting" /\ a.star # "none" /\ f.star = "found"
           => Follows(a, FindStar(a, f))
  BY <1>7, FindStarPushes
<1>9. Pushes(s, FindStar(a, f)) BY <1>6, <1>8, PushesOn
<1>10. s.guider = "selecting" /\ s.star = "valid" /\ f.star = "found"
         => Follows(s, FindStar(a, f))
  BY <1>4, <1>6, <1>8, FollowsOn DEF SameSight
<1> QED BY <1>2, <1>5, <1>9, <1>10

\* GuiderMultiStar::AutoSelect advances the guider no further than
\* STATE_SELECTED, and so makes no move.
LEMMA AutoSelectFollows ==
  ASSUME NEW r, NEW s, Follows(r, s), NEW f \in Outcome
  PROVE Follows(r, AutoSelect(s, f))
<1> DEFINE v == [s EXCEPT !.star = "valid"]
           t == IF ~s.image \/ f.sel = "none" THEN s ELSE v
           g == [f EXCEPT !.star = "found"]
           u == UpdateGuideState(t, g, FALSE)
<1>1. s \in AppRecord /\ Keeps(s, s) /\ Sighted(s) BY FollowsTyped
<1>2. Follows(r, v) /\ v.star = "valid"
  <2>1. Keeps(s, v) BY <1>1 DEF AppRecord, Keeps, Spares, StarStates
  <2>2. /\ SameCapture(s, v) /\ v.guider = s.guider /\ v.star = "valid"
        /\ v.toldGuiding = s.toldGuiding
    BY <1>1 DEF AppRecord, SameCapture
  <2> HIDE DEF v
  <2>3. Sighted(v) BY <1>1, <2>2 DEF Sighted
  <2> QED BY <2>1, <2>2, <2>3, Following
<1>3. g.star = "found" BY DEF Outcome
<1>4. AutoSelect(s, f) =
        IF AutoSelects(s, f) /\ t.guider = "selecting" THEN u ELSE t
  BY DEF AutoSelect
<1>5. Follows(r, t) /\ (AutoSelects(s, f) => t.star = "valid")
  <2> HIDE DEF v
  <2> QED BY <1>2 DEF AutoSelects
<1> HIDE DEF t, g
<1>6. ASSUME AutoSelects(s, f), t.guider = "selecting" PROVE Follows(r, u)
  <2>1. t \in AppRecord /\ Sighted(t) BY <1>5, FollowsTyped
  <2>2. Follows(t, u) BY <1>3, <1>5, <1>6, <2>1, UpdateGuideStatePushes
  <2> HIDE DEF u
  <2> QED BY <1>5, <2>2, FollowsOn
<1> HIDE DEF u
<1> QED BY <1>4, <1>5, <1>6

-----------------------------------------------------------------------------
(* The controller: no case of it makes a move *)

LEMMA ToFollows ==
  ASSUME NEW r, NEW s, Follows(r, s), NEW state \in ControllerStates
  PROVE Follows(r, To(s, state))
<1>1. s \in AppRecord /\ Keeps(s, s) BY FollowsTyped
<1> DEFINE c == To(s, state)
<1>2. Spares(s, c) BY <1>1, ToSpares
<1>3. SameCapture(s, c) /\ SameSight(s, c)
  BY <1>1 DEF To, AppRecord, SameCapture, SameSight
<1> HIDE DEF c
<1>4. Follows(r, c) BY <1>2, <1>3, Following
<1> QED BY <1>4 DEF c

LEMMA CountdownFollows ==
  ASSUME NEW r, NEW s, Follows(r, s), NEW n \in Int
  PROVE Follows(r, [s EXCEPT !.waits = n]) /\ Follows(r, [s EXCEPT !.finds = n])
<1>1. s \in AppRecord /\ Keeps(s, s) BY FollowsTyped
<1> DEFINE w == [s EXCEPT !.waits = n]
           d == [s EXCEPT !.finds = n]
<1>2. Spares(s, w) /\ Spares(s, d) BY <1>1, CountdownSpares
<1>3. SameCapture(s, w) /\ SameSight(s, w)
  BY <1>1 DEF AppRecord, SameCapture, SameSight
<1>4. SameCapture(s, d) /\ SameSight(s, d)
  BY <1>1 DEF AppRecord, SameCapture, SameSight
<1> HIDE DEF w, d
<1>5. Follows(r, w) /\ Follows(r, d) BY <1>2, <1>3, <1>4, Following
<1> QED BY <1>5 DEF w, d

LEMMA SettledFollows ==
  ASSUME NEW r, NEW s, Follows(r, s), NEW n \in Nat
  PROVE Follows(r, [s EXCEPT !.settled = n])
<1>1. s \in AppRecord /\ Keeps(s, s) BY FollowsTyped
<1> DEFINE e == [s EXCEPT !.settled = n]
<1>2. Keeps(s, e) BY <1>1 DEF AppRecord, Keeps, Spares
<1>3. SameCapture(s, e) /\ SameSight(s, e)
  BY <1>1 DEF AppRecord, SameCapture, SameSight
<1> HIDE DEF e
<1>4. Follows(r, e) BY <1>2, <1>3, Following
<1> QED BY <1>4 DEF e

LEMMA SettleBeginFollows ==
  ASSUME NEW r, NEW s, Follows(r, s)
  PROVE Follows(r, SettleBegin(s))
<1>1. s \in AppRecord /\ Keeps(s, SettleBegin(s))
  BY FollowsTyped, SettleBeginKeeps
<1>2. SameCapture(s, SettleBegin(s)) /\ SameSight(s, SettleBegin(s))
  BY <1>1 DEF SettleBegin, AppRecord, SameCapture, SameSight
<1> QED BY <1>1, <1>2, Following

LEMMA SettleWaitFollows ==
  ASSUME NEW r, NEW s, Follows(r, s), NEW f
  PROVE Follows(r, SettleWait(s, f))
<1> DEFINE n == s.settled + 1
           t == [s EXCEPT !.settled = n]
<1>1. n \in Nat BY FollowsTyped DEF AppRecord
<1>2. SettleWait(s, f) \in {t, Finish(t)} BY DEF SettleWait
<1>3. Follows(r, t)
  <2> HIDE DEF n
  <2> QED BY <1>1, SettledFollows
<1> HIDE DEF t
<1> QED BY <1>2, <1>3, FinishFollows

LEMMA GuideFollows ==
  ASSUME NEW r, NEW s, Follows(r, s)
  PROVE Follows(r, Guide(s))
<1>1. Follows(r, StartGuiding(s)) BY StartFollows
<1>2. Follows(r, To(StartGuiding(s), "settleBegin"))
  BY <1>1, ToFollows DEF ControllerStates
<1> QED BY <1>2, FinishFollows DEF Guide

LEMMA StickyFollows ==
  ASSUME NEW r, NEW s, Follows(r, s)
  PROVE Follows(r, StickForCalibration(s)) /\ Follows(r, RestoreSticky(s))
<1>1. s \in AppRecord /\ Keeps(s, s) BY FollowsTyped
<1>2. Keeps(s, StickForCalibration(s)) /\ Keeps(s, RestoreSticky(s))
  BY <1>1, StickyKeeps
<1>3. SameCapture(s, StickForCalibration(s)) /\ SameSight(s, StickForCalibration(s))
  BY <1>1 DEF StickForCalibration, AppRecord, SameCapture, SameSight
<1>4. SameCapture(s, RestoreSticky(s)) /\ SameSight(s, RestoreSticky(s))
  BY <1>1 DEF RestoreSticky, AppRecord, SameCapture, SameSight
<1> QED BY <1>2, <1>3, <1>4, Following

LEMMA CalibrateFollows ==
  ASSUME NEW r, NEW s, Follows(r, s)
  PROVE Follows(r, Calibrate(s))
<1> DEFINE t == IF s.force THEN ClearCalibration(s) ELSE s
           u == StickForCalibration(t)
<1>1. Follows(r, t) BY ClearCalibrationFollows
<1>2. Calibrate(s) \in {Guide(t), To(StartGuiding(u), "calibrationWait"),
                        Finish(RestoreSticky(u))}
  BY DEF Calibrate
<1> HIDE DEF t
<1>3. Follows(r, u) BY <1>1, StickyFollows
<1> HIDE DEF u
<1>4. Follows(r, Guide(t)) BY <1>1, GuideFollows
<1>5. Follows(r, To(StartGuiding(u), "calibrationWait"))
  BY <1>3, StartFollows, ToFollows DEF ControllerStates
<1>6. Follows(r, Finish(RestoreSticky(u)))
  BY <1>3, StickyFollows, FinishFollows
<1> QED BY <1>2, <1>4, <1>5, <1>6

LEMMA SelectStarFollows ==
  ASSUME NEW r, NEW s, Follows(r, s), NEW f \in Outcome
  PROVE Follows(r, SelectStar(s, f))
<1> DEFINE t == IF CalibratingOrGuiding(s) THEN s ELSE AutoSelect(s, f)
           n == t.finds - 1
           less == [t EXCEPT !.finds = n]
           w == [To(t, "waitSelected") EXCEPT !.waits = WaitSelectedFrames]
<1>1. Follows(r, t) BY AutoSelectFollows
<1>2. SelectStar(s, f) \in {w, Finish(less), To(Reset(less, TRUE), "attemptStart")}
  BY DEF SelectStar
<1> HIDE DEF t
<1>3. Follows(r, w)
  <2>1. Follows(r, To(t, "waitSelected")) BY <1>1, ToFollows DEF ControllerStates
  <2>2. WaitSelectedFrames \in Int BY BoundsAssumption
  <2> QED BY <2>1, <2>2, CountdownFollows
<1>4. n \in Int BY <1>1, FollowsTyped DEF AppRecord
<1>5. Follows(r, less)
  <2> HIDE DEF n
  <2> QED BY <1>1, <1>4, CountdownFollows
<1> HIDE DEF less, w
<1>6. Follows(r, To(Reset(less, TRUE), "attemptStart"))
  BY <1>5, ResetFollows, ToFollows DEF ControllerStates
<1> QED BY <1>2, <1>3, <1>5, <1>6, FinishFollows

LEMMA WaitSelectedFollows ==
  ASSUME NEW r, NEW s, Follows(r, s)
  PROVE Follows(r, WaitSelected(s))
<1> DEFINE n == s.waits - 1
           less == [s EXCEPT !.waits = n]
<1>1. n \in Int BY FollowsTyped DEF AppRecord
<1>2. Follows(r, less)
  <2> HIDE DEF n
  <2> QED BY <1>1, CountdownFollows
<1>3. WaitSelected(s) \in {Calibrate(s), To(less, "attemptStart"), less}
  BY DEF WaitSelected
<1> HIDE DEF less
<1>4. Follows(r, To(less, "attemptStart"))
  BY <1>2, ToFollows DEF ControllerStates
<1> QED BY <1>2, <1>3, <1>4, CalibrateFollows

LEMMA AttemptStartFollows ==
  ASSUME NEW r, NEW s, Follows(r, s), NEW f \in Outcome
  PROVE Follows(r, AttemptStart(s, f))
<1>1. Follows(r, To(s, "calibrationWait")) /\ Follows(r, To(s, "selectStar"))
  BY ToFollows DEF ControllerStates
<1>2. Follows(r, StartCapturing(Reset(s, TRUE)))
  BY ResetFollows, StartCapturingFollows
<1>3. Follows(r, To(StartCapturing(Reset(s, TRUE)), "selectStar"))
  BY <1>2, ToFollows DEF ControllerStates
<1>4. Follows(r, Finish(s)) /\ Follows(r, Calibrate(s)) /\ Follows(r, SettleBegin(s))
  BY FinishFollows, CalibrateFollows, SettleBeginFollows
<1>5. Follows(r, SelectStar(s, f)) BY SelectStarFollows
<1>6. AttemptStart(s, f) \in
        {To(s, "calibrationWait"), To(s, "selectStar"), Finish(s), Calibrate(s),
         SettleBegin(s), SelectStar(s, f),
         To(StartCapturing(Reset(s, TRUE)), "selectStar")}
  BY DEF AttemptStart
<1> QED BY <1>1, <1>3, <1>4, <1>5, <1>6

\* A request's fields are set before the controller starts on it.
LEMMA StartGuideOpFollows ==
  ASSUME NEW s \in AppRecord, Sighted(s), NEW recalibrate \in BOOLEAN, NEW f \in Outcome
  PROVE Follows(s, StartGuideOp(s, recalibrate, f))
<1> DEFINE t == [s EXCEPT !.force = recalibrate]
           u == [t EXCEPT !.haveSave = FALSE, !.finds = AutoFindAttempts,
                          !.override = FALSE]
<1>1. Spares(s, t) /\ SameCapture(s, t) /\ SameSight(s, t)
  BY DEF Spares, AppRecord, SameCapture, SameSight
<1>2. Spares(s, u) /\ SameCapture(s, u) /\ SameSight(s, u)
  <2> HIDE DEF t
  <2>1. AutoFindAttempts \in Int BY BoundsAssumption
  <2> QED BY ZenonT(60), <1>1, <2>1 DEF Spares, AppRecord, SameCapture, SameSight
<1>3. StartGuideOp(s, recalibrate, f) = AttemptStart(u, f)
  BY DEF StartGuideOp, Setup
<1> HIDE DEF u
<1>4. Follows(s, u) BY <1>2, FollowsItself, Following
<1> QED BY <1>3, <1>4, AttemptStartFollows

LEMMA StartDitherFollows ==
  ASSUME NEW s \in AppRecord, Sighted(s), NEW raOnly \in BOOLEAN, NEW timed \in BOOLEAN
  PROVE Follows(s, StartDither(s, raOnly, timed))
<1> DEFINE b == ~raOnly /\ timed /\ s.decMode = "north"
           d == IF raOnly THEN "none" ELSE s.decMode
           t == [s EXCEPT !.override = b, !.saveDec = d]
<1>1. b \in BOOLEAN /\ d \in DecModes BY DEF AppRecord, DecModes
<1>2. Keeps(s, t) /\ SameCapture(s, t) /\ SameSight(s, t)
  <2> HIDE DEF b, d
  <2> QED BY ZenonT(60), <1>1 DEF Keeps, Spares, AppRecord, SameCapture, SameSight
<1>3. StartDither(s, raOnly, timed) = SettleBegin(t) BY DEF StartDither
<1> HIDE DEF t
<1>4. Follows(s, t) BY <1>2, FollowsItself, Following
<1> QED BY <1>3, <1>4, SettleBeginFollows

LEMMA UpdateControllerStateFollows ==
  ASSUME NEW r, NEW s, Follows(r, s), NEW f \in Outcome
  PROVE Follows(r, UpdateControllerState(s, f))
<1>1. UpdateControllerState(s, f) \in
        {AttemptStart(s, f), SelectStar(s, f), WaitSelected(s), CalibrationWait(s),
         SettleBegin(s), SettleWait(s, f), s}
  BY DEF UpdateControllerState
<1>2. Follows(r, CalibrationWait(s))
  BY StickyFollows, SettleBeginFollows DEF CalibrationWait
<1> QED BY <1>1, <1>2, AttemptStartFollows, SelectStarFollows, WaitSelectedFollows,
           SettleBeginFollows, SettleWaitFollows

-----------------------------------------------------------------------------
(* Pausing, stopping and failing *)

LEMMA QuietOn ==
  ASSUME NEW r, NEW s, NEW t, Quiet(r, s), Quiet(s, t) \/ Follows(s, t)
  PROVE Quiet(r, t)
BY DEF Quiet, Follows

LEMMA QuietTyped ==
  ASSUME NEW r, NEW s, Quiet(r, s)
  PROVE s \in AppRecord /\ Sighted(s) /\ Keeps(s, s) /\ Follows(s, s)
BY KeepsItself, FollowsItself DEF Quiet

LEMMA SetPausedGoes ==
  ASSUME NEW s \in AppRecord, Sighted(s), NEW pause \in PauseTypes
  PROVE Quiet(s, SetPaused(s, pause)) /\ (Going(s) => Going(SetPaused(s, pause)))
<1> DEFINE p == [s EXCEPT !.paused = pause]
           t == [s EXCEPT !.paused = "none"]
           u == ScheduleExposure(t)
<1>1. /\ Keeps(s, p) /\ SameSight(s, p)
      /\ p.high = s.high /\ p.reqs = s.reqs /\ p.single = s.single /\ p.paused = pause
  BY DEF Keeps, Spares, AppRecord, SameSight
<1>2. /\ Keeps(s, t) /\ SameSight(s, t)
      /\ t.high = s.high /\ t.reqs = s.reqs /\ t.single = s.single /\ t.paused = "none"
  BY DEF Keeps, Spares, AppRecord, SameSight, PauseTypes
<1>3. SetPaused(s, pause) =
        CASE pause # "none" /\ ~IsPaused(s) -> p
          [] pause = "none" /\ IsPaused(s) ->
               IF s.continue /\ ~s.pending THEN u ELSE t
          [] OTHER -> s
  BY DEF SetPaused
<1> HIDE DEF p, t
<1>4. t \in AppRecord BY <1>2 DEF Keeps, Spares
<1>5. /\ u \in AppRecord /\ SameCapture(t, u) /\ SameSight(t, u)
      /\ u.pending = TRUE /\ u.active = t.active /\ u.continue = t.continue
  BY <1>4, ScheduleExposureSame
<1> HIDE DEF u
<1>6. \/ SetPaused(s, pause) = p /\ ~IsPaused(s)
      \/ SetPaused(s, pause) = u /\ s.continue /\ ~s.pending
      \/ SetPaused(s, pause) = t /\ ~(s.continue /\ ~s.pending)
      \/ SetPaused(s, pause) = s
  BY <1>3
<1>7. Quiet(s, p) /\ Quiet(s, t) /\ Quiet(s, u) /\ Quiet(s, s)
  BY <1>1, <1>2, <1>5 DEF Quiet, Keeps, Spares, Sighted, SameSight, SameCapture
<1>8. s.pending \in BOOLEAN /\ s.continue \in BOOLEAN /\ s.active \in BOOLEAN
  BY DEF AppRecord
<1>9. Going(s) /\ ~IsPaused(s) => Going(p)
  BY <1>1 DEF Going, Keeps, Spares, IsPaused
<1>10. Going(s) => Going(u)
  BY <1>2, <1>5 DEF Going, Keeps, Spares, SameCapture
<1>11. Going(s) /\ ~(s.continue /\ ~s.pending) => Going(t)
  BY <1>2, <1>8 DEF Going, Keeps, Spares
<1> QED BY <1>6, <1>7, <1>9, <1>10, <1>11

\* SingleExposure::Complete, and MyFrame::FinishStop, which calls it
LEMMA CompleteSingleQuiet ==
  ASSUME NEW s \in AppRecord, Sighted(s)
  PROVE LET t == CompleteSingle(s)
        IN Quiet(s, t) /\ t.single = FALSE /\ t.paused = s.paused
<1> DEFINE t == CompleteSingle(s)
<1>1. t \in AppRecord BY KeepsItself, SingleKeeps DEF Keeps, Spares
<1>2. /\ t.high = s.high /\ t.reqs = s.reqs /\ SameSight(s, t)
      /\ t.single = FALSE /\ t.paused = s.paused
  BY DEF CompleteSingle, AppRecord, SameSight
<1> HIDE DEF t
<1>3. Quiet(s, t) BY <1>1, <1>2 DEF Quiet, Sighted, SameSight
<1> QED BY <1>2, <1>3 DEF t

LEMMA FinishStopQuiet ==
  ASSUME NEW s \in AppRecord, Sighted(s)
  PROVE LET t == FinishStop(s)
        IN Quiet(s, t) /\ t.single = FALSE /\ t.paused = s.paused
<1> DEFINE b == ~s.active
           a == Assert_(s, "capture inactive at stop", b)
           c == CompleteSingle(a)
           t == AbortController(c)
<1>1. b \in BOOLEAN BY DEF AppRecord
<1>2. Keeps(s, a) /\ SameCapture(s, a) /\ SameSight(s, a)
  <2> HIDE DEF b
  <2> QED BY <1>1, AssertSame DEF Assertions
<1>3. FinishStop(s) = t BY DEF FinishStop
<1> HIDE DEF a
<1>4. Follows(s, a) BY <1>2, FollowsItself, Following
<1>5. Quiet(s, a) /\ a.paused = s.paused BY <1>4 DEF Follows
<1>6. Quiet(a, c) /\ c.single = FALSE /\ c.paused = a.paused
  BY <1>5, QuietTyped, CompleteSingleQuiet
<1> HIDE DEF c
<1>7. Follows(c, t) BY <1>6, QuietTyped, FinishFollows
<1> HIDE DEF t
<1> QED BY <1>3, <1>5, <1>6, <1>7, QuietOn DEF Follows

\* MyFrame::StopCapturing
LEMMA StopCapturingGoes ==
  ASSUME NEW s \in AppRecord, Sighted(s)
  PROVE LET z == StopCapturing(s)
        IN /\ Quiet(s, z) /\ (Going(s) => Going(z)) /\ z.paused = "none"
           /\ IF s.continue /\ ~s.pending THEN z.active = FALSE
              ELSE z.active = s.active /\ z.single = s.single
<1> DEFINE c == [s EXCEPT !.continue = FALSE]
           t == IF IsPaused(s) THEN SetPaused(c, "none") ELSE s
           v == [t EXCEPT !.continue = FALSE]
           w == RequestStop(v)
           x == [v EXCEPT !.active = FALSE]
           y == FinishStop(StopIfGuiding(x))
           z == StopCapturing(s)
<1>1. z \in AppRecord /\ z.continue = FALSE BY StopCapturingStops DEF Stops
<1>2. /\ Quiet(s, t) /\ t.single = s.single /\ t.active = s.active
      /\ t.paused = "none"
  <2>1. CASE ~IsPaused(s) BY <2>1 DEF Quiet, IsPaused
  <2>2. CASE IsPaused(s)
    <3>1. c \in AppRecord /\ SameCapture(s, c) /\ SameSight(s, c)
          /\ c.continue = FALSE /\ c.active = s.active
      BY DEF AppRecord, SameCapture, SameSight
    <3> DEFINE p == [c EXCEPT !.paused = "none"]
    <3>2. t = p BY <2>2, <3>1 DEF SetPaused, IsPaused, SameCapture
    <3> HIDE DEF c, t
    <3>3. /\ p \in AppRecord /\ p.high = c.high /\ p.reqs = c.reqs
          /\ p.single = c.single /\ p.active = c.active /\ SameSight(c, p)
          /\ p.paused = "none"
      BY <3>1 DEF AppRecord, PauseTypes, SameSight
    <3> HIDE DEF p
    <3> QED BY <3>1, <3>2, <3>3 DEF Quiet, Sighted, SameSight, SameCapture
  <2> QED BY <2>1, <2>2
<1>3. StopCapturing(s) = CASE s.pending -> w
                           [] s.continue /\ ~s.pending -> y
                           [] OTHER -> t
  BY DEF StopCapturing
<1> HIDE DEF t
<1>4. t \in AppRecord BY <1>2 DEF Quiet
<1>5. /\ w \in AppRecord /\ SameCapture(t, w) /\ SameSight(t, w)
      /\ w.active = t.active
  BY ZenonT(60), <1>4 DEF RequestStop, AppRecord, SameCapture, SameSight
<1>6. /\ x \in AppRecord /\ SameCapture(t, x) /\ SameSight(t, x)
      /\ x.active = FALSE
  BY ZenonT(60), <1>4 DEF AppRecord, SameCapture, SameSight
<1> HIDE DEF w, x
<1>7. /\ Quiet(s, w) /\ w.single = s.single /\ w.active = s.active
      /\ w.paused = "none"
  BY <1>2, <1>5 DEF Quiet, Sighted, SameSight, SameCapture
<1>8. Quiet(s, x) BY <1>2, <1>6 DEF Quiet, Sighted, SameSight, SameCapture
<1>9. Quiet(s, y) /\ y.single = FALSE /\ y.active = FALSE /\ y.paused = "none"
  <2> DEFINE g == StopIfGuiding(x)
  <2>1. Follows(x, g) /\ Keeps(x, g)
    BY <1>8, QuietTyped, StopGuidingFollows, StopIfGuidingKeeps
  <2> HIDE DEF g
  <2>2. Quiet(s, g) /\ g.paused = "none" /\ g.active = FALSE
    BY <1>2, <1>6, <1>8, <2>1, QuietOn DEF Follows, Keeps, Spares, SameCapture
  <2>3. /\ Quiet(g, FinishStop(g)) /\ FinishStop(g).single = FALSE
        /\ FinishStop(g).paused = g.paused /\ Keeps(g, FinishStop(g))
    BY <2>2, QuietTyped, FinishStopQuiet, FinishStopKeeps
  <2>4. y = FinishStop(g) BY DEF g
  <2> HIDE DEF y
  <2> QED BY <2>2, <2>3, <2>4, QuietOn DEF Keeps, Spares
<1> HIDE DEF w, y, z
<1>10. /\ Quiet(s, z) /\ z.paused = "none"
       /\ IF s.continue /\ ~s.pending THEN z.active = FALSE /\ z.single = FALSE
          ELSE z.active = s.active /\ z.single = s.single
  <2>1. s.pending \in BOOLEAN /\ s.continue \in BOOLEAN BY DEF AppRecord
  <2>2. \/ s.continue /\ ~s.pending /\ z = y
        \/ ~(s.continue /\ ~s.pending) /\ z \in {w, t}
    BY <1>3, <2>1 DEF z
  <2> QED BY <1>2, <1>7, <1>9, <2>2
<1>11. Going(s) => Going(z) BY <1>1, <1>10 DEF Going
<1> QED BY <1>10, <1>11 DEF z

\* A failed exposure leaves capture, single exposure and intent at rest.
LEMMA ExposeFailedGoes ==
  ASSUME NEW s \in AppRecord, Sighted(s), s.pending = FALSE
  PROVE /\ Quiet(s, ExposeFailed(s)) /\ Going(ExposeFailed(s))
        /\ ExposeFailed(s).paused = "none"
<1> DEFINE q == StopCapturing(s)
           g == StopIfGuiding(q)
           c == CompleteSingle(g)
           t == SetUninitialized(c)
           a == t.continue
           u == [t EXCEPT !.active = a]
           z == AbortController(u)
<1>1. Quiet(s, q) /\ q.paused = "none" BY StopCapturingGoes
<1> HIDE DEF q
<1>2. Follows(q, g) BY <1>1, QuietTyped, StopGuidingFollows
<1> HIDE DEF g
<1>3. Quiet(s, g) /\ g.paused = "none" BY <1>1, <1>2, QuietOn DEF Follows
<1>4. Quiet(g, c) /\ c.single = FALSE /\ c.paused = "none"
  BY <1>3, QuietTyped, CompleteSingleQuiet
<1> HIDE DEF c
<1>5. Follows(c, t) BY <1>4, QuietTyped, SetUninitializedFollows
<1> HIDE DEF t
<1>6. Quiet(s, t) /\ t.single = FALSE /\ t.paused = "none"
  BY <1>3, <1>4, <1>5, QuietOn DEF Follows
<1>7. Quiet(s, u) /\ u.single = FALSE /\ u.paused = "none"
  <2>1. t \in AppRecord BY <1>6 DEF Quiet
  <2>2. a \in BOOLEAN BY <2>1 DEF AppRecord
  <2> HIDE DEF a
  <2>3. u \in AppRecord /\ SameCapture(t, u) /\ SameSight(t, u)
    BY ZenonT(60), <2>1, <2>2 DEF AppRecord, SameCapture, SameSight
  <2> HIDE DEF u
  <2> QED BY <1>6, <2>3 DEF Quiet, Sighted, SameCapture, SameSight
<1> HIDE DEF u
<1>8. Follows(u, z) BY <1>7, QuietTyped, FinishFollows
<1> HIDE DEF z
<1>9. Quiet(s, z) /\ z.single = FALSE /\ z.paused = "none"
  BY <1>7, <1>8, QuietOn DEF Follows
<1>10. ExposeFailed(s) = z BY DEF ExposeFailed, z, u, t, c, g, q
<1>11. z.continue = FALSE BY <1>10, ExposeFailedStops DEF Stops
<1> QED BY <1>9, <1>10, <1>11 DEF Going

-----------------------------------------------------------------------------
(* A move completes, a frame is taken *)

LEMMA MoveCompleteGoes ==
  ASSUME NEW s \in AppRecord, Sighted(s), s.reqs > 0, NEW e
  PROVE LET t == MoveComplete(s, e)
        IN /\ t \in AppRecord /\ Sighted(t) /\ (Going(s) => Going(t))
           /\ t.high = s.high /\ t.reqs = s.reqs - 1
           /\ t.paused = s.paused /\ t.single = s.single
<1> DEFINE b == IsBusy(s)
           a == Assert_(s, "mount busy at completion", b)
           n == a.reqs - 1
           d == [a EXCEPT !.reqs = n]
           o == d.owed /\ IsBusy(d)
           v == [d EXCEPT !.owed = o]
           m == IF ~CalibratingOrGuiding(d) /\ ~IsBusy(d)
                THEN NotifyGuidingStopped(d) ELSE v
           t == IF e = "moveSlewing" THEN StopGuiding(m) ELSE m
<1>1. b \in BOOLEAN BY DEF IsBusy, AppRecord
<1>2. Keeps(s, a) /\ SameCapture(s, a) /\ SameSight(s, a)
  <2> HIDE DEF b
  <2> QED BY <1>1, AssertSame DEF Assertions
<1>3. MoveComplete(s, e) = t BY DEF MoveComplete
<1> HIDE DEF a
<1>4. n = s.reqs - 1 /\ n \in Int BY <1>2 DEF AppRecord, SameCapture
<1>5. /\ Keeps(a, d) /\ SameSight(a, d) /\ d.reqs = n
      /\ d.high = a.high /\ d.paused = a.paused /\ d.single = a.single
  <2> HIDE DEF n
  <2> QED BY <1>2, <1>4 DEF Keeps, Spares, AppRecord, SameSight
<1> HIDE DEF n, d
<1>6. d \in AppRecord /\ Sighted(d) /\ (Going(s) => Going(d))
  BY <1>2, <1>5 DEF Keeps, Spares, Sighted, SameSight, SameCapture, Going
<1>7. Follows(d, m)
  <2> DEFINE k == NotifyGuidingStopped(d)
  <2>1. /\ Keeps(d, k) /\ SameCapture(d, k)
        /\ k.guider = d.guider /\ k.star = d.star
    BY <1>6, NotifyGuidingStoppedSame
  <2>2. o \in BOOLEAN BY <1>6 DEF IsBusy, AppRecord
  <2>3. Follows(d, v)
    <3>1. Keeps(d, v) /\ SameCapture(d, v) /\ SameSight(d, v)
      <4> HIDE DEF o
      <4> QED BY <1>6, <2>2 DEF Keeps, Spares, AppRecord, SameCapture, SameSight
    <3> HIDE DEF v
    <3> QED BY <1>6, <3>1, FollowsItself, Following
  <2>4. m \in {v, k} /\ (m = k => ~CalibratingOrGuiding(d) \/ k = v) OBVIOUS
  <2> HIDE DEF k, m, v
  <2>5. CASE m = v BY <2>3, <2>5
  <2>6. CASE m = k /\ ~CalibratingOrGuiding(d)
    <3>1. Sighted(k) BY <1>6, <2>1, <2>6 DEF CalibratingOrGuiding, Sighted
    <3>2. Follows(d, d) BY <1>6, FollowsItself
    <3> QED BY <2>1, <2>6, <3>1, <3>2, Following
  <2> QED BY <2>4, <2>5, <2>6
<1> HIDE DEF m
<1>8. Follows(d, t) BY <1>7, StopGuidingFollows
<1> HIDE DEF t
<1>9. /\ t.high = s.high /\ t.reqs = s.reqs - 1
      /\ t.paused = s.paused /\ t.single = s.single
  BY <1>2, <1>4, <1>5, <1>8 DEF Follows, Quiet, SameCapture
<1>10. t \in AppRecord /\ Sighted(t) /\ (Going(s) => Going(t))
  BY <1>6, <1>8 DEF Follows, Quiet
<1> QED BY <1>3, <1>9, <1>10

\* OnExposeComplete: the guider may push one move, the controller none, and
\* capture is inactive or has its next exposure.
LEMMA FrameTakenPushes ==
  ASSUME NEW s \in AppRecord, Sighted(s), Going(s), s.active = TRUE,
         NEW f \in Outcome
  PROVE LET z == FrameTaken(s, f)
        IN /\ z \in AppRecord /\ Sighted(z) /\ Pushed(s, z) /\ Going(z)
           /\ z.paused = s.paused
           /\ z.active = s.continue /\ z.continue = s.continue
<1> DEFINE t == [s EXCEPT !.pending = FALSE, !.image = TRUE]
           b == ~s.continue
           g == UpdateGuideState(t, f, b)
           c == UpdateControllerState(g, f)
           a == c.continue
           n == [c EXCEPT !.active = a]
           z == FrameTaken(s, f)
<1>1. /\ t \in AppRecord /\ t.active = TRUE /\ t.continue = s.continue
      /\ SameCapture(s, t) /\ SameSight(s, t)
  BY DEF AppRecord, SameCapture, SameSight
<1>2. b \in BOOLEAN BY DEF AppRecord
<1>3. z = IF n.active THEN ScheduleExposure(n) ELSE FinishStop(n)
  BY DEF FrameTaken
<1> HIDE DEF t, b
<1>4. Sighted(t) BY <1>1 DEF Sighted, SameSight
<1>5. Keeps(t, g) BY <1>1, <1>2, KeepsItself, UpdateGuideStateKeeps
<1>6. Pushes(t, g) BY <1>1, <1>2, <1>4, UpdateGuideStatePushes
<1> HIDE DEF g
<1>7. g \in AppRecord /\ Sighted(g) /\ g.active = TRUE
  BY <1>1, <1>5, <1>6 DEF Keeps, Spares, Pushes
<1>8. Carries(g, c) BY <1>7, CarriesItself, UpdateControllerStateCarries
<1>9. Follows(g, c) BY <1>7, FollowsItself, UpdateControllerStateFollows
<1> HIDE DEF c
<1>10. Pushes(t, c) BY <1>6, <1>9, PushesOn
<1>11. c.continue = s.continue
  BY <1>1, <1>5, <1>7, <1>8 DEF Carries, Keeps, Spares
<1>12. c \in AppRecord /\ Sighted(c) BY <1>10 DEF Pushes
<1>13. /\ n \in AppRecord /\ SameCapture(c, n) /\ SameSight(c, n)
       /\ n.active = s.continue /\ n.continue = s.continue
  <2>1. a = s.continue /\ a \in BOOLEAN BY <1>11, <1>12 DEF AppRecord
  <2>2. c.continue = a OBVIOUS
  <2> HIDE DEF a
  <2>3. /\ n \in AppRecord /\ SameCapture(c, n) /\ SameSight(c, n)
        /\ n.active = a /\ n.continue = a
    BY ZenonT(60), <1>12, <2>1, <2>2 DEF AppRecord, SameCapture, SameSight
  <2> QED BY <2>1, <2>3
<1> HIDE DEF n
<1>14. /\ Sighted(n) /\ Pushed(s, n)
       /\ n.single = s.single /\ n.paused = s.paused
  BY <1>1, <1>10, <1>13 DEF Pushes, Pushed, Sighted, SameCapture, SameSight
<1> HIDE DEF z
<1>15. CASE n.active
  <2> DEFINE u == ScheduleExposure(n)
  <2>1. /\ u \in AppRecord /\ SameCapture(n, u) /\ SameSight(n, u)
        /\ u.pending = TRUE /\ u.active = n.active /\ u.continue = n.continue
    BY <1>13, ScheduleExposureSame
  <2>2. z = u BY <1>3, <1>15
  <2> HIDE DEF u
  <2>3. Sighted(u) /\ Pushed(s, u)
    BY <1>14, <2>1 DEF Sighted, Pushed, SameSight, SameCapture
  <2>4. Going(u) BY <1>13, <1>14, <1>15, <2>1 DEF Going, SameCapture
  <2> QED BY <1>13, <1>14, <2>1, <2>2, <2>3, <2>4 DEF z, SameCapture
<1>16. CASE ~n.active
  <2> DEFINE u == FinishStop(n)
  <2>1. Quiet(n, u) /\ u.single = FALSE /\ u.paused = n.paused
    BY <1>13, <1>14, FinishStopQuiet
  <2>2. Keeps(n, u) BY <1>13, KeepsItself, FinishStopKeeps
  <2>3. z = u BY <1>3, <1>16
  <2> HIDE DEF u
  <2>4. u \in AppRecord /\ Sighted(u) /\ Pushed(s, u)
    BY <1>14, <2>1 DEF Quiet, Pushed
  <2>5. Going(u) BY <1>13, <1>16, <2>1, <2>2 DEF Going, Keeps, Spares
  <2> QED BY <1>13, <1>14, <2>1, <2>2, <2>3, <2>4, <2>5 DEF z, Keeps, Spares
<1> QED BY <1>15, <1>16

-----------------------------------------------------------------------------
(* The inductive invariant: behind an exposure there is no move *)

\* In the event queue, completions of moves come before those of exposures.
MovesFirst(q) ==
  \A i, j \in DOMAIN q : i < j /\ q[i] \in ExposureEvents => q[j] \notin MoveEvents

MovesOut ==
  CountOf(app.high, {"move"}) + (IF worker.job = "move" THEN 1 ELSE 0)
  + CountOf(events, MoveEvents)

\* MoveBeforeFrame is the end of a longer order: an exposure leaves its
\* queue when the moves have left theirs, and all later places keep it.
MoveInv ==
  /\ app.reqs = MovesOut
  /\ app.reqs <= 1
  /\ ExposuresOut > 0 => CountOf(app.high, {"move"}) = 0
  /\ CountOf(events, ExposureEvents) > 0 => worker.job # "move"
  /\ MovesFirst(events)

MInv == IInv /\ MoveInv /\ Sighted(app) /\ Going(app)

LEMMA Counts ==
  ASSUME TypeOK
  PROVE /\ app \in AppRecord /\ app.reqs \in Int
        /\ app.high \in Seq(MoveRequests) /\ events \in Seq(Events)
        /\ CountOf(app.high, {"move"}) \in Nat
        /\ CountOf(events, MoveEvents) \in Nat
        /\ CountOf(events, ExposureEvents) \in Nat
        /\ ExposuresOut \in Nat /\ MovesOut \in Nat
<1>1. /\ app \in AppRecord /\ app.reqs \in Int
      /\ app.high \in Seq(MoveRequests) /\ events \in Seq(Events)
  BY DEF TypeOK, AppRecord
<1>2. /\ CountOf(app.high, {"move"}) \in Nat
      /\ CountOf(events, MoveEvents) \in Nat
      /\ CountOf(events, ExposureEvents) \in Nat
  BY <1>1, CountFinite
<1> QED BY <1>1, <1>2 DEF ExposuresOut, MovesOut

LEMMA CountNone ==
  ASSUME NEW S, NEW q \in Seq(S), NEW K
  PROVE CountOf(q, K) = 0 <=> \A i \in DOMAIN q : q[i] \notin K
<1> DEFINE A == {i \in DOMAIN q : q[i] \in K}
<1>1. IsFiniteSet(A) BY CountFinite
<1>2. Cardinality(A) = 0 <=> A = {} BY <1>1, FS_EmptySet
<1> QED BY <1>2 DEF CountOf

\* An event at the end is in order if it is no move or follows no exposure.
LEMMA MovesFirstAppend ==
  ASSUME NEW q \in Seq(Events), NEW e \in Events, MovesFirst(q),
         e \notin MoveEvents \/ CountOf(q, ExposureEvents) = 0
  PROVE MovesFirst(Append(q, e))
<1> DEFINE p == Append(q, e)
           l == Len(q) + 1
<1>1. DOMAIN q = 1 .. Len(q) /\ DOMAIN p = 1 .. l /\ Len(q) \in Nat
  OBVIOUS
<1>2. p[l] = e /\ \A i \in 1 .. Len(q) : p[i] = q[i] OBVIOUS
<1> HIDE DEF p
<1>3. \/ e \notin MoveEvents
      \/ \A i \in DOMAIN q : q[i] \notin ExposureEvents
  BY CountNone
<1>4. ASSUME NEW i \in DOMAIN p, NEW j \in DOMAIN p, i < j, p[i] \in ExposureEvents
      PROVE p[j] \notin MoveEvents
  <2>1. i \in DOMAIN q /\ p[i] = q[i] BY <1>1, <1>2, <1>4
  <2>2. CASE j = l BY <1>2, <1>3, <1>4, <2>1, <2>2
  <2>3. CASE j # l
    <3>1. j \in DOMAIN q /\ p[j] = q[j] BY <1>1, <1>2, <2>3
    <3> QED BY <1>4, <2>1, <3>1 DEF MovesFirst
  <2> QED BY <2>2, <2>3
<1>5. MovesFirst(p) BY <1>4 DEF MovesFirst
<1> QED BY <1>5 DEF p

LEMMA MovesFirstTail ==
  ASSUME NEW q \in Seq(Events), q # <<>>, MovesFirst(q)
  PROVE /\ MovesFirst(Tail(q))
        /\ Head(q) \in ExposureEvents => CountOf(q, MoveEvents) = 0
<1> DEFINE p == Tail(q)
<1>1. /\ Len(q) \in Nat /\ Len(q) >= 1 /\ Head(q) = q[1]
      /\ DOMAIN q = 1 .. Len(q) /\ DOMAIN p = 1 .. (Len(q) - 1)
  OBVIOUS
<1>2. \A i \in 1 .. (Len(q) - 1) : p[i] = q[i + 1] OBVIOUS
<1> HIDE DEF p
<1>3. ASSUME NEW i \in DOMAIN p, NEW j \in DOMAIN p, i < j, p[i] \in ExposureEvents
      PROVE p[j] \notin MoveEvents
  <2>1. /\ i + 1 \in DOMAIN q /\ j + 1 \in DOMAIN q /\ i + 1 < j + 1
        /\ p[i] = q[i + 1] /\ p[j] = q[j + 1]
    BY <1>1, <1>2, <1>3
  <2> QED BY <1>3, <2>1 DEF MovesFirst
<1>4. MovesFirst(p) BY <1>3 DEF MovesFirst
<1>5. ASSUME Head(q) \in ExposureEvents PROVE CountOf(q, MoveEvents) = 0
  <2>1. ASSUME NEW j \in DOMAIN q PROVE q[j] \notin MoveEvents
    <3>1. CASE j = 1 BY <1>1, <1>5, <3>1 DEF MoveEvents, ExposureEvents
    <3>2. CASE j # 1
      <4>1. 1 \in DOMAIN q /\ 1 < j BY <1>1, <3>2
      <4> QED BY <1>1, <1>5, <4>1 DEF MovesFirst
    <3> QED BY <3>1, <3>2
  <2> QED BY <2>1, CountNone
<1> QED BY <1>4, <1>5 DEF p

-----------------------------------------------------------------------------
(* The worker thread's steps *)

\* A step that changes neither the moves nor the exposures, wherever they are
LEMMA SteadyStep ==
  ASSUME MInv, IInv', Sighted(app'), Going(app'), app'.reqs = app.reqs,
         CountOf(app'.high, {"move"}) = CountOf(app.high, {"move"}),
         UNCHANGED <<worker, events>>
  PROVE MInv'
<1>1. MovesOut' = MovesOut /\ ExposuresOut' = ExposuresOut
  BY DEF MovesOut, ExposuresOut, ExposureInHand, CountOf
<1>2. CountOf(events, ExposureEvents)' = CountOf(events, ExposureEvents)
  BY DEF CountOf
<1>3. MovesFirst(events)' BY DEF MInv, MoveInv, MovesFirst
<1> QED BY <1>1, <1>2, <1>3 DEF MInv, MoveInv

LEMMA TakeMoveMoves == ASSUME MInv, TakeMove PROVE MInv'
<1> DEFINE h == Tail(app.high)
<1>1. IInv' BY WorkerStepInv DEF MInv, WorkerStep
<1>2. /\ TypeOK /\ worker \in WorkerRecord /\ app \in AppRecord
  BY DEF MInv, IInv, TypeOK
<1>3. /\ app.high \in Seq(MoveRequests) /\ app.high # <<>>
      /\ Head(app.high) \in MoveRequests
  BY <1>2, Counts DEF TakeMove
<1>4. /\ worker.job = "none" /\ worker'.job = Head(app.high)
      /\ worker'.skip = worker.skip /\ events' = events
      /\ app' = [app EXCEPT !.high = h]
  BY <1>2 DEF TakeMove, WorkerRecord
<1>5. CountOf(app.high, {"move"}) =
        CountOf(h, {"move"}) + (IF Head(app.high) = "move" THEN 1 ELSE 0)
  BY <1>3, CountTail
<1>6. CountOf(h, {"move"}) \in Nat
  <2>1. h \in Seq(MoveRequests) BY <1>3
  <2> QED BY <2>1, CountFinite
<1> HIDE DEF h
<1>7. /\ app'.high = h /\ app'.reqs = app.reqs /\ SameSight(app, app')
      /\ Going(app) => Going(app')
  BY <1>2, <1>4 DEF AppRecord, SameSight, Going
<1>8. ExposuresOut' = ExposuresOut
  BY <1>3, <1>4 DEF ExposuresOut, ExposureInHand, CountOf, MoveRequests
<1>9. MovesOut' = MovesOut
  <2>1. CountOf(events, MoveEvents)' = CountOf(events, MoveEvents)
    BY <1>4 DEF CountOf
  <2>2. /\ CountOf(events, MoveEvents) \in Nat
        /\ CountOf(app.high, {"move"}) \in Nat
    BY <1>2, Counts
  <2> QED BY <1>4, <1>5, <1>6, <1>7, <2>1, <2>2 DEF MovesOut
<1>10. CountOf(events, ExposureEvents)' = CountOf(events, ExposureEvents)
  BY <1>4 DEF CountOf
<1>11. CountOf(events, ExposureEvents) > 0 => ExposuresOut > 0
  BY <1>2, Counts DEF ExposuresOut
<1>12. MoveInv'
  <2>1. ExposuresOut > 0 => CountOf(h, {"move"}) = 0 /\ Head(app.high) # "move"
    BY <1>5, <1>6 DEF MInv, MoveInv
  <2> QED BY <1>4, <1>7, <1>8, <1>9, <1>10, <1>11, <2>1
          DEF MInv, MoveInv, MovesFirst
<1> QED BY <1>1, <1>7, <1>12 DEF MInv, Sighted, SameSight

LEMMA TakeExposureMoves == ASSUME MInv, TakeExposure PROVE MInv'
<1> DEFINE n == app.low - 1
<1>1. IInv' BY WorkerStepInv DEF MInv, WorkerStep
<1>2. /\ TypeOK /\ worker \in WorkerRecord /\ app \in AppRecord
  BY DEF MInv, IInv, TypeOK
<1>3. /\ worker.job = "none" /\ worker'.job = "delay"
      /\ events' = events /\ app.high = <<>>
      /\ app' = [app EXCEPT !.low = n]
  BY <1>2 DEF TakeExposure, WorkerRecord
<1>4. /\ app'.high = <<>> /\ app'.reqs = app.reqs /\ SameSight(app, app')
      /\ Going(app) => Going(app')
  <2> HIDE DEF n
  <2> QED BY <1>2, <1>3 DEF AppRecord, SameSight, Going
<1>5. CountOf(<<>>, {"move"}) = 0
  <2>1. {i \in DOMAIN <<>> : <<>>[i] \in {"move"}} = {} OBVIOUS
  <2> QED BY <2>1, FS_EmptySet DEF CountOf
<1>6. MovesOut' = MovesOut
  BY <1>3, <1>4 DEF MovesOut, CountOf
<1>7. MoveInv'
  BY <1>3, <1>4, <1>5, <1>6 DEF MInv, MoveInv, MovesFirst
<1> QED BY <1>1, <1>4, <1>7 DEF MInv, Sighted, SameSight

\* A move's completion follows no exposure: the worker takes one request at
\* a time.
LEMMA FinishMoveMoves == ASSUME MInv, FinishMove \/ FinishPulse PROVE MInv'
<1>1. IInv' BY WorkerStepInv DEF MInv, WorkerStep
<1>2. TypeOK /\ worker \in WorkerRecord /\ app' = app
  BY DEF MInv, IInv, TypeOK, FinishMove, FinishPulse
<1>3. /\ worker'.job = "none" /\ worker'.skip = worker.skip
      /\ worker.job \in {"move", "pulse"}
  BY <1>2 DEF FinishMove, FinishPulse, WorkerRecord
<1>4. PICK e \in MoveEvents \cup {"pulseDone"} :
        Post(e) /\ (e \in MoveEvents <=> worker.job = "move")
  BY DEF FinishMove, FinishPulse, MoveEvents
<1>5. e \in Events /\ e \notin ExposureEvents
  BY DEF Events, MoveEvents, ExposureEvents
<1>6. /\ events \in Seq(Events) /\ events' = Append(events, e)
      /\ CountOf(events, MoveEvents) \in Nat
      /\ CountOf(events, ExposureEvents) \in Nat
      /\ CountOf(app.high, {"move"}) \in Nat
  BY <1>2, <1>4, Counts DEF Post
<1>7. /\ CountOf(events', MoveEvents) =
           CountOf(events, MoveEvents) + (IF e \in MoveEvents THEN 1 ELSE 0)
      /\ CountOf(events', ExposureEvents) = CountOf(events, ExposureEvents)
  BY <1>5, <1>6, CountAppend
<1>8. MovesOut' = MovesOut /\ ExposuresOut' = ExposuresOut
  BY <1>2, <1>3, <1>4, <1>6, <1>7 DEF MovesOut, ExposuresOut, ExposureInHand
<1>9. MovesFirst(events')
  <2>1. e \notin MoveEvents \/ CountOf(events, ExposureEvents) = 0
    BY <1>4, <1>6 DEF MInv, MoveInv
  <2> QED BY <1>5, <1>6, <2>1, MovesFirstAppend DEF MInv, MoveInv
<1>10. MoveInv' BY <1>2, <1>3, <1>8, <1>9 DEF MInv, MoveInv
<1> QED BY <1>1, <1>2, <1>10 DEF MInv

\* The completion of an exposure is posted when no move is left behind it.
LEMMA SendExposeCompleteMoves ==
  ASSUME MInv, IInv', NEW e \in ExposureEvents, SendExposeComplete(e),
         worker.job \in {"delay", "capture"}
  PROVE MInv'
<1>1. TypeOK /\ worker \in WorkerRecord /\ app' = app
  BY DEF MInv, IInv, TypeOK, SendExposeComplete
<1>2. /\ worker'.job = "none" /\ worker'.skip = FALSE
      /\ worker.skip \in BOOLEAN
  BY <1>1 DEF SendExposeComplete, WorkerRecord
<1>3. e \in Events /\ e \notin MoveEvents
  BY DEF Events, MoveEvents, ExposureEvents
<1>4. /\ events \in Seq(Events)
      /\ CountOf(events, MoveEvents) \in Nat
      /\ CountOf(events, ExposureEvents) \in Nat
      /\ CountOf(app.high, {"move"}) \in Nat
  BY <1>1, Counts
<1>5. IF worker.skip THEN events' = events ELSE events' = Append(events, e)
  BY DEF SendExposeComplete, Post
<1>6. /\ CountOf(events', MoveEvents) = CountOf(events, MoveEvents)
      /\ CountOf(events', ExposureEvents) =
           CountOf(events, ExposureEvents) + (IF worker.skip THEN 0 ELSE 1)
  <2>1. CASE worker.skip
    <3>1. events' = events BY <1>5, <2>1
    <3> QED BY <1>4, <2>1, <3>1
  <2>2. CASE ~worker.skip
    <3>1. events' = Append(events, e) BY <1>5, <2>2
    <3>2. /\ CountOf(Append(events, e), MoveEvents) = CountOf(events, MoveEvents)
          /\ CountOf(Append(events, e), ExposureEvents) =
               CountOf(events, ExposureEvents) + 1
      BY <1>3, <1>4, CountAppend
    <3> QED BY <2>2, <3>1, <3>2
  <2> QED BY <2>1, <2>2
<1>7. MovesOut' = MovesOut /\ ExposuresOut' = ExposuresOut
  BY <1>1, <1>2, <1>4, <1>6 DEF MovesOut, ExposuresOut, ExposureInHand
<1>8. MovesFirst(events')
  BY <1>3, <1>4, <1>5, MovesFirstAppend DEF MInv, MoveInv
<1>9. MoveInv' BY <1>1, <1>2, <1>7, <1>8 DEF MInv, MoveInv
<1> QED BY <1>1, <1>9 DEF MInv

LEMMA CameraHangMoves == ASSUME MInv, CameraHang PROVE MInv'
<1>1. IInv' BY WorkerStepInv DEF MInv, WorkerStep
<1>2. TypeOK /\ worker \in WorkerRecord /\ app \in AppRecord
  BY DEF MInv, IInv, TypeOK
<1>3. /\ worker'.job = "capture" /\ worker'.skip = TRUE
      /\ worker.job = "capture" /\ ~worker.skip
  BY <1>2 DEF CameraHang, WorkerRecord
<1>4. /\ app'.high = app.high /\ app'.reqs = app.reqs /\ SameSight(app, app')
      /\ Going(app) => Going(app')
  BY <1>2 DEF CameraHang, AppRecord, SameSight, Going
<1>5. /\ "reconnect" \in Events /\ "reconnect" \in ExposureEvents
      /\ "reconnect" \notin MoveEvents /\ events' = Append(events, "reconnect")
  BY DEF CameraHang, Post, Events, ExposureEvents, MoveEvents
<1>6. /\ events \in Seq(Events)
      /\ CountOf(events, MoveEvents) \in Nat
      /\ CountOf(events, ExposureEvents) \in Nat
      /\ CountOf(app.high, {"move"}) \in Nat
  BY <1>2, Counts
<1>7. /\ CountOf(events', MoveEvents) = CountOf(events, MoveEvents)
      /\ CountOf(events', ExposureEvents) = CountOf(events, ExposureEvents) + 1
  BY <1>5, <1>6, CountAppend
<1>8. MovesOut' = MovesOut /\ ExposuresOut' = ExposuresOut
  BY <1>3, <1>4, <1>6, <1>7 DEF MovesOut, ExposuresOut, ExposureInHand
<1>9. MovesFirst(events') BY <1>5, <1>6, MovesFirstAppend DEF MInv, MoveInv
<1>10. MoveInv' BY <1>3, <1>4, <1>8, <1>9 DEF MInv, MoveInv
<1> QED BY <1>1, <1>4, <1>10 DEF MInv, Sighted, SameSight

LEMMA WorkerStepMoves == ASSUME MInv, WorkerStep PROVE MInv'
<1>1. IInv' BY WorkerStepInv DEF MInv
<1>2. CASE TakeMove BY <1>2, TakeMoveMoves
<1>3. CASE TakeExposure BY <1>3, TakeExposureMoves
<1>4. CASE FinishMove \/ FinishPulse BY <1>4, FinishMoveMoves
<1>5. CASE StartCapture
  <2>1. worker \in WorkerRecord BY DEF MInv, IInv, TypeOK
  <2>2. /\ worker.job = "delay" /\ worker'.job = "capture"
        /\ worker'.skip = worker.skip /\ app' = app /\ events' = events
    BY <1>5, <2>1 DEF StartCapture, WorkerRecord
  <2>3. MovesOut' = MovesOut /\ ExposuresOut' = ExposuresOut
    BY <2>2 DEF MovesOut, ExposuresOut, ExposureInHand, CountOf
  <2>4. MoveInv' BY <2>2, <2>3 DEF MInv, MoveInv, MovesFirst
  <2> QED BY <1>1, <2>2, <2>4 DEF MInv
<1>6. CASE InterruptDelay
  BY <1>1, <1>6, SendExposeCompleteMoves DEF InterruptDelay, ExposureEvents
<1>7. CASE CaptureFrame
  BY <1>1, <1>7, SendExposeCompleteMoves DEF CaptureFrame, ExposureEvents
<1>8. CASE CaptureError
  BY <1>1, <1>8, SendExposeCompleteMoves DEF CaptureError, ExposureEvents
<1>9. CASE CameraHang BY <1>9, CameraHangMoves
<1> QED BY <1>2, <1>3, <1>4, <1>5, <1>6, <1>7, <1>8, <1>9 DEF WorkerStep

-----------------------------------------------------------------------------
(* The main thread's steps on what the worker posted *)

\* When an exposure's completion is handled no move is left anywhere.
LEMMA NoMoveBefore ==
  ASSUME MInv, NEW e \in ExposureEvents, events # <<>>, Head(events) = e
  PROVE /\ app.reqs = 0 /\ CountOf(app.high, {"move"}) = 0
        /\ worker.job # "move" /\ CountOf(events, MoveEvents) = 0
<1>1. TypeOK /\ MoveInv BY DEF MInv, IInv
<1>2. /\ events \in Seq(Events) /\ ExposuresOut \in Nat
      /\ CountOf(events, ExposureEvents) \in Nat
  BY <1>1, Counts
<1>3. CountOf(events, MoveEvents) = 0
  BY <1>1, <1>2, MovesFirstTail DEF MoveInv
<1>4. CountOf(events, ExposureEvents) > 0
  <2>1. Tail(events) \in Seq(Events) BY <1>2
  <2>2. CountOf(Tail(events), ExposureEvents) \in Nat BY <2>1, CountFinite
  <2>3. CountOf(events, ExposureEvents) = CountOf(Tail(events), ExposureEvents) + 1
    BY <1>2, CountTail
  <2> QED BY <2>2, <2>3
<1>5. ExposuresOut > 0 BY <1>2, <1>4 DEF ExposuresOut
<1>6. CountOf(app.high, {"move"}) = 0 /\ worker.job # "move"
  BY <1>1, <1>4, <1>5 DEF MoveInv
<1>7. app.reqs = 0 BY <1>1, <1>3, <1>6 DEF MoveInv, MovesOut
<1> QED BY <1>3, <1>6, <1>7

\* So the move a frame makes is the only one, and ahead of any exposure.
LEMMA CompletingMoves ==
  ASSUME MInv, IInv', NEW e \in ExposureEvents, Receive(e), UNCHANGED worker,
         Sighted(app'), Going(app'), Pushed(app, app')
  PROVE MInv'
<1>1. events # <<>> /\ Head(events) = e /\ events' = Tail(events)
  BY DEF Receive
<1>2. /\ app.reqs = 0 /\ CountOf(app.high, {"move"}) = 0
      /\ worker.job # "move" /\ CountOf(events, MoveEvents) = 0
  BY <1>1, NoMoveBefore
<1>3. TypeOK /\ MoveInv /\ IInv BY DEF MInv, IInv
<1>4. /\ events \in Seq(Events) /\ app.high \in Seq(MoveRequests)
      /\ "move" \in MoveRequests
  BY <1>3, Counts DEF MoveRequests
<1>5. events' \in Seq(Events) /\ ExposuresOut' = 0
  BY <1>3, ReceivingExposure
<1>6. CountOf(events', MoveEvents) = 0
  <2>1. CountOf(events', MoveEvents) \in Nat BY <1>5, CountFinite
  <2>2. CountOf(events, MoveEvents) =
          CountOf(Tail(events), MoveEvents) + (IF Head(events) \in MoveEvents THEN 1 ELSE 0)
    BY <1>1, <1>4, CountTail
  <2> QED BY <1>1, <1>2, <2>1, <2>2
<1>7. CountOf(app'.high, {"move"}) = app'.reqs /\ app'.reqs <= 1
  <2>1. CASE app'.high = app.high /\ app'.reqs = app.reqs
    BY <1>2, <2>1
  <2>2. CASE app'.high = Append(app.high, "move") /\ app'.reqs = app.reqs + 1
    <3>1. CountOf(Append(app.high, "move"), {"move"}) = 0 + 1
      BY <1>2, <1>4, CountAppend
    <3> QED BY <1>2, <2>2, <3>1
  <2> QED BY <2>1, <2>2 DEF Pushed
<1>8. app'.reqs \in Int BY DEF IInv, TypeOK, AppRecord
<1>9. MovesOut' = app'.reqs BY <1>2, <1>6, <1>7, <1>8 DEF MovesOut
<1>10. MovesFirst(events') BY <1>1, <1>3, <1>4, MovesFirstTail DEF MoveInv
<1>11. MoveInv' BY <1>2, <1>5, <1>7, <1>9, <1>10 DEF MoveInv
<1> QED BY <1>11 DEF MInv

LEMMA OnExposedMoves == ASSUME MInv, OnExposed PROVE MInv'
<1>1. IInv' BY MainStepInv DEF MInv, MainStep
<1>2. Receive("exposed") /\ UNCHANGED worker /\ "exposed" \in ExposureEvents
  BY DEF OnExposed, ExposureEvents
<1>3. /\ app \in AppRecord /\ Sighted(app) /\ Going(app)
      /\ IInv /\ Accounted(app, 1)
  BY <1>2, ReceivingExposure DEF MInv
<1>4. app.active = TRUE
  <2>1. app.low \in Nat /\ app.pending \in BOOLEAN /\ app.active \in BOOLEAN
    BY <1>3 DEF AppRecord
  <2> QED BY <1>3, <2>1 DEF Accounted
<1>5. CASE app.paused = "full" /\ app' = [app EXCEPT !.pending = FALSE]
  <2>1. /\ SameCapture(app, app') /\ SameSight(app, app')
        /\ app'.active = app.active /\ app'.continue = app.continue
    BY <1>3, <1>5 DEF AppRecord, SameCapture, SameSight
  <2>2. Sighted(app') /\ Going(app') /\ Pushed(app, app')
    BY <1>3, <1>5, <2>1 DEF Sighted, Going, Pushed, SameCapture, SameSight
  <2> QED BY <1>1, <1>2, <2>2, CompletingMoves
<1>6. ASSUME NEW f \in FrameOutcomes(app), app' = FrameTaken(app, f) PROVE MInv'
  <2>1. f \in Outcome BY DEF FrameOutcomes, Outcomes
  <2>2. Sighted(app') /\ Going(app') /\ Pushed(app, app')
    BY <1>3, <1>4, <1>6, <2>1, FrameTakenPushes
  <2> QED BY <1>1, <1>2, <2>2, CompletingMoves
<1> QED BY <1>5, <1>6 DEF OnExposed

LEMMA ExposureEndsMoves ==
  ASSUME MInv, OnExposeError \/ OnReconnectFailed PROVE MInv'
<1> DEFINE t == [app EXCEPT !.pending = FALSE]
           z == ExposeFailed(t)
<1>1. IInv' BY MainStepInv DEF MInv, MainStep
<1>2. PICK e \in ExposureEvents : Receive(e)
  BY DEF OnExposeError, OnReconnectFailed, ExposureEvents
<1>3. UNCHANGED worker /\ app' = IF app.paused = "full" THEN t ELSE z
  BY DEF OnExposeError, OnReconnectFailed, ExposureEnds
<1>4. app \in AppRecord /\ Sighted(app) /\ Going(app)
  BY DEF MInv, IInv, TypeOK
<1>5. /\ t \in AppRecord /\ SameCapture(app, t) /\ SameSight(app, t)
      /\ t.pending = FALSE /\ t.active = app.active /\ t.continue = app.continue
  BY <1>4 DEF AppRecord, SameCapture, SameSight
<1> HIDE DEF t
<1>6. Sighted(t) BY <1>4, <1>5 DEF Sighted, SameSight
<1>7. Quiet(t, z) /\ Going(z) BY <1>5, <1>6, ExposeFailedGoes
<1> HIDE DEF z
<1>8. CASE app.paused = "full"
  <2>1. Going(t) /\ Pushed(app, t)
    BY <1>4, <1>5, <1>8 DEF Going, Pushed, SameCapture
  <2> QED BY <1>1, <1>2, <1>3, <1>6, <1>8, <2>1, CompletingMoves
<1>9. CASE app.paused # "full"
  <2>1. Sighted(z) /\ Pushed(app, z)
    BY <1>5, <1>7 DEF Quiet, Pushed, SameCapture
  <2> QED BY <1>1, <1>2, <1>3, <1>7, <1>9, <2>1, CompletingMoves
<1> QED BY <1>8, <1>9

LEMMA OnReconnectedMoves == ASSUME MInv, OnReconnected PROVE MInv'
<1> DEFINE t == [app EXCEPT !.camera = TRUE, !.pending = FALSE]
           u == ScheduleExposure(t)
<1>1. IInv' BY MainStepInv DEF MInv, MainStep
<1>2. /\ Receive("reconnect") /\ UNCHANGED worker /\ "reconnect" \in ExposureEvents
      /\ app' = u
  BY DEF OnReconnected, ExposureEvents
<1>3. app \in AppRecord /\ Sighted(app) /\ Going(app)
  BY DEF MInv, IInv, TypeOK
<1>4. /\ t \in AppRecord /\ SameCapture(app, t) /\ SameSight(app, t)
      /\ t.active = app.active /\ t.continue = app.continue
  BY <1>3 DEF AppRecord, SameCapture, SameSight
<1> HIDE DEF t
<1>5. /\ SameCapture(t, u) /\ SameSight(t, u)
      /\ u.pending = TRUE /\ u.active = t.active /\ u.continue = t.continue
  BY <1>4, ScheduleExposureSame
<1> HIDE DEF u
<1>6. Sighted(u) /\ Going(u) /\ Pushed(app, u)
  BY <1>3, <1>4, <1>5 DEF Sighted, Going, Pushed, SameCapture, SameSight
<1> QED BY <1>1, <1>2, <1>6, CompletingMoves

LEMMA OnMoveCompleteMoves ==
  ASSUME MInv, OnMoveComplete \/ OnPulseComplete PROVE MInv'
<1>1. IInv' BY MainStepInv DEF MInv, MainStep
<1>2. PICK e \in MoveEvents \cup {"pulseDone"} :
        /\ Receive(e)
        /\ \/ e \in MoveEvents /\ app' = MoveComplete(app, e)
           \/ e \notin MoveEvents /\ app' = app
  BY DEF OnMoveComplete, OnPulseComplete, MoveEvents
<1>3. UNCHANGED worker BY DEF OnMoveComplete, OnPulseComplete
<1>4. /\ TypeOK /\ MoveInv /\ app \in AppRecord /\ Sighted(app) /\ Going(app)
  BY DEF MInv, IInv, TypeOK
<1>5. /\ events # <<>> /\ Head(events) = e /\ events' = Tail(events)
      /\ e \notin ExposureEvents
  BY <1>2 DEF Receive, MoveEvents, ExposureEvents
<1>6. /\ events \in Seq(Events) /\ app.reqs \in Int
      /\ CountOf(app.high, {"move"}) \in Nat
  BY <1>4, Counts
<1>7. events' \in Seq(Events) BY <1>5, <1>6
<1>8. /\ CountOf(events', MoveEvents) \in Nat
      /\ CountOf(events, MoveEvents) =
           CountOf(events', MoveEvents) + (IF e \in MoveEvents THEN 1 ELSE 0)
      /\ CountOf(events, ExposureEvents) = CountOf(events', ExposureEvents)
  <2>1. CountOf(events', MoveEvents) \in Nat /\ CountOf(events', ExposureEvents) \in Nat
    BY <1>7, CountFinite
  <2>2. CountOf(events, MoveEvents) =
          CountOf(events', MoveEvents) + (IF Head(events) \in MoveEvents THEN 1 ELSE 0)
    BY <1>5, <1>6, CountTail
  <2>3. CountOf(events, ExposureEvents) =
          CountOf(events', ExposureEvents)
          + (IF Head(events) \in ExposureEvents THEN 1 ELSE 0)
    BY <1>5, <1>6, CountTail
  <2> QED BY <1>5, <2>1, <2>2, <2>3
<1>9. ExposuresOut' = ExposuresOut BY <1>3, <1>8 DEF ExposuresOut, ExposureInHand
<1>10. MovesFirst(events') BY <1>4, <1>5, <1>6, MovesFirstTail DEF MoveInv
<1>11. /\ Sighted(app') /\ Going(app') /\ app'.high = app.high
       /\ app'.reqs = app.reqs - (IF e \in MoveEvents THEN 1 ELSE 0)
  <2>1. CASE e \in MoveEvents /\ app' = MoveComplete(app, e)
    <3>1. app.reqs > 0 BY <1>4, <1>6, <1>8, <2>1 DEF MoveInv, MovesOut
    <3> QED BY <1>4, <2>1, <3>1, MoveCompleteGoes
  <2>2. CASE e \notin MoveEvents /\ app' = app
    BY <1>4, <1>6, <2>2
  <2> QED BY <1>2, <2>1, <2>2
<1>12. app'.reqs = MovesOut' /\ app'.reqs <= 1
  BY <1>3, <1>4, <1>6, <1>8, <1>11 DEF MoveInv, MovesOut
<1>13. MoveInv' BY <1>3, <1>4, <1>8, <1>9, <1>10, <1>11, <1>12 DEF MoveInv
<1> QED BY <1>1, <1>11, <1>13 DEF MInv

LEMMA MainStepMoves == ASSUME MInv, MainStep PROVE MInv'
BY OnExposedMoves, ExposureEndsMoves, OnReconnectedMoves, OnMoveCompleteMoves
   DEF MainStep

-----------------------------------------------------------------------------
(* Clients' requests *)

LEMMA QuietStep ==
  ASSUME MInv, IInv', UNCHANGED <<worker, events>>,
         \/ Quiet(app, app') /\ Going(app')
         \/ Follows(app, app')
  PROVE MInv'
BY SteadyStep DEF Quiet, Follows, MInv

\* A single frame is asked for while capture is inactive.
LEMMA SingleFrameMoves == ASSUME MInv, CaptureSingleFrame PROVE MInv'
<1> DEFINE s == ActivateSingle(app)
           t == StartCapturing(s)
<1>1. IInv' BY ClientStepInv DEF MInv, ClientStep
<1>2. /\ ~app.active /\ app' = t /\ UNCHANGED <<worker, events>>
      /\ app \in AppRecord /\ Sighted(app) /\ Going(app)
  BY DEF CaptureSingleFrame, Client, MInv, IInv, TypeOK
<1>3. Keeps(app, s) BY <1>2, KeepsItself, SingleKeeps
<1>4. /\ s.high = app.high /\ s.reqs = app.reqs /\ s.paused = app.paused
      /\ s.single = TRUE /\ SameSight(app, s)
  BY <1>2 DEF ActivateSingle, AppRecord, SameSight
<1> HIDE DEF s
<1>5. /\ SameCapture(s, t) /\ SameSight(s, t)
      /\ t \in AppRecord /\ t.active = TRUE /\ t.pending = TRUE
      /\ t.continue = (s.continue \/ ~s.single)
  BY <1>2, <1>3, StartCapturingSame DEF Keeps, Spares
<1> HIDE DEF t
<1>6. t.continue = FALSE
  <2>1. s.continue \in BOOLEAN /\ s.continue = app.continue
    BY <1>3 DEF Keeps, Spares, AppRecord
  <2> QED BY <1>2, <1>4, <1>5, <2>1 DEF Going
<1>7. Quiet(app, t) /\ Going(t)
  BY <1>2, <1>4, <1>5, <1>6 DEF Quiet, Going, Sighted, SameSight, SameCapture
<1> QED BY <1>1, <1>2, <1>7, QuietStep

\* A manual pulse is not counted.
LEMMA GuidePulseMoves == ASSUME MInv, GuidePulse PROVE MInv'
<1> DEFINE h == Append(app.high, "pulse")
<1>1. IInv' BY ClientStepInv DEF MInv, ClientStep
<1>2. /\ app' = [app EXCEPT !.high = h, !.intStop = FALSE]
      /\ UNCHANGED <<worker, events>>
      /\ TypeOK /\ app \in AppRecord /\ Sighted(app) /\ Going(app)
  BY DEF GuidePulse, Client, ScheduleManualMove, MInv, IInv, TypeOK
<1>3. app.high \in Seq(MoveRequests) /\ CountOf(app.high, {"move"}) \in Nat
  BY <1>2, Counts
<1>4. CountOf(h, {"move"}) = CountOf(app.high, {"move"})
  <2>1. "pulse" \in MoveRequests /\ "pulse" \notin {"move"} BY DEF MoveRequests
  <2> QED BY <1>3, <2>1, CountAppend
<1> HIDE DEF h
<1>5. /\ app'.high = h /\ app'.reqs = app.reqs /\ SameSight(app, app')
      /\ Going(app) => Going(app')
  BY <1>2 DEF AppRecord, SameSight, Going
<1>6. Sighted(app') BY <1>2, <1>5 DEF Sighted, SameSight
<1> QED BY <1>1, <1>2, <1>4, <1>5, <1>6, SteadyStep

\* Requests that set a field moves and captures do not depend on
LEMMA SettingFollows ==
  ASSUME NEW s \in AppRecord, Sighted(s), NEW m \in DecModes
  PROVE /\ Follows(s, [s EXCEPT !.decMode = m, !.wantDec = m])
        /\ Follows(s, [s EXCEPT !.camera = ~@])
        /\ Follows(s, [s EXCEPT !.mountOn = ~@])
<1> DEFINE d == [s EXCEPT !.decMode = m, !.wantDec = m]
           c == [s EXCEPT !.camera = ~@]
           o == [s EXCEPT !.mountOn = ~@]
<1>1. Keeps(s, d) /\ Keeps(s, c) /\ Keeps(s, o) BY SettingKeeps
<1>2. SameCapture(s, d) /\ SameSight(s, d) BY DEF AppRecord, SameCapture, SameSight
<1>3. SameCapture(s, c) /\ SameSight(s, c) BY DEF AppRecord, SameCapture, SameSight
<1>4. SameCapture(s, o) /\ SameSight(s, o) BY DEF AppRecord, SameCapture, SameSight
<1> HIDE DEF d, c, o
<1>5. Follows(s, d) /\ Follows(s, c) /\ Follows(s, o)
  BY <1>1, <1>2, <1>3, <1>4, FollowsItself, Following
<1> QED BY <1>5 DEF d, c, o

LEMMA ClientStepMoves == ASSUME MInv, ClientStep PROVE MInv'
<1>1. /\ IInv' /\ UNCHANGED <<worker, events>>
      /\ app \in AppRecord /\ Sighted(app) /\ Going(app) /\ Follows(app, app)
  <2>1. IInv' BY ClientStepInv DEF MInv
  <2>2. UNCHANGED <<worker, events>>
    BY DEF ClientStep, Client, Loop, Stop, CaptureSingleFrame, GuideRequest, Dither,
           Pause, Resume, FindStarRequest, DeselectStar, GuidePulse, SetDecGuideMode,
           ClearCalibrationRequest, ConnectCamera, ConnectMount
  <2> QED BY <2>1, <2>2, FollowsItself DEF MInv, IInv, TypeOK
<1>2. CASE Loop
  BY <1>1, <1>2, StartFollows, QuietStep DEF Loop
<1>3. CASE Stop
  BY <1>1, <1>3, StopCapturingGoes, QuietStep DEF Stop
<1>4. CASE CaptureSingleFrame BY <1>4, SingleFrameMoves
<1>5. ASSUME NEW r, GuideRequest(r) PROVE MInv'
  <2> DEFINE b == (r = "recalibrate")
  <2>1. PICK f \in RequestOutcomes(app) : app' = StartGuideOp(app, b, f)
    BY <1>5 DEF GuideRequest
  <2>2. b \in BOOLEAN /\ f \in Outcome BY DEF RequestOutcomes, Outcomes
  <2> HIDE DEF b
  <2>3. Follows(app, app') BY <1>1, <2>1, <2>2, StartGuideOpFollows
  <2> QED BY <1>1, <2>3, QuietStep
<1>6. CASE Dither
  BY <1>1, <1>6, StartDitherFollows, QuietStep DEF Dither
<1>7. CASE Pause("pauseGuiding", "guiding") \/ Pause("pauseFull", "full") \/ Resume
  <2>1. PICK p \in PauseTypes : app' = SetPaused(app, p)
    BY <1>7 DEF Pause, Resume, PauseTypes
  <2> QED BY <1>1, <2>1, SetPausedGoes, QuietStep
<1>8. CASE FindStarRequest
  <2>1. PICK f \in RequestOutcomes(app) : app' = AutoSelect(app, f)
    BY <1>8 DEF FindStarRequest
  <2>2. f \in Outcome BY DEF RequestOutcomes, Outcomes
  <2> QED BY <1>1, <2>1, <2>2, AutoSelectFollows, QuietStep
<1>9. CASE DeselectStar
  BY <1>1, <1>9, ResetFollows, QuietStep DEF DeselectStar
<1>10. CASE GuidePulse BY <1>10, GuidePulseMoves
<1>11. CASE SetDecGuideMode
  BY <1>1, <1>11, SettingFollows, QuietStep DEF SetDecGuideMode
<1>12. CASE ClearCalibrationRequest
  BY <1>1, <1>12, ClearCalibrationFollows, QuietStep DEF ClearCalibrationRequest
<1>13. CASE ConnectCamera \/ ConnectMount
  <2>1. "auto" \in DecModes BY DEF DecModes
  <2> QED BY <1>1, <1>13, <2>1, SettingFollows, QuietStep
          DEF ConnectCamera, ConnectMount
<1> QED BY <1>2, <1>3, <1>4, <1>5, <1>6, <1>7, <1>8, <1>9, <1>10, <1>11,
           <1>12, <1>13 DEF ClientStep

-----------------------------------------------------------------------------
(* The invariant, and what follows from it *)

LEMMA InitMoves == Init => MInv
<1> SUFFICES ASSUME Init PROVE MInv OBVIOUS
<1>1. IInv BY InitInv
<1>2. app = AppInit /\ worker = WorkerInit /\ events = <<>> BY DEF Init
<1>3. /\ app.reqs = 0 /\ app.high = <<>> /\ worker.job = "none"
      /\ Sighted(app) /\ Going(app)
  BY <1>2 DEF AppInit, WorkerInit, Sighted, Going
<1>4. \A K : CountOf(<<>>, K) = 0
  <2>1. \A K : {i \in DOMAIN <<>> : <<>>[i] \in K} = {} OBVIOUS
  <2> QED BY <2>1, FS_EmptySet DEF CountOf
<1>5. MovesOut = 0 BY <1>2, <1>3, <1>4 DEF MovesOut
<1>6. MovesFirst(events) BY <1>2 DEF MovesFirst
<1>7. MoveInv BY <1>2, <1>3, <1>4, <1>5, <1>6 DEF MoveInv
<1> QED BY <1>1, <1>3, <1>7 DEF MInv

LEMMA NextMoves == MInv /\ [Next]_vars => MInv'
<1> SUFFICES ASSUME MInv, [Next]_vars PROVE MInv' OBVIOUS
<1>1. CASE WorkerStep BY <1>1, WorkerStepMoves
<1>2. CASE MainStep BY <1>2, MainStepMoves
<1>3. CASE ClientStep BY <1>3, ClientStepMoves
<1>4. CASE UNCHANGED vars
  <2>1. IInv' BY <1>4, NextInv DEF MInv
  <2> QED BY <1>4, <2>1, SteadyStep DEF vars, MInv
<1> QED BY <1>1, <1>2, <1>3, <1>4 DEF Next

LEMMA MovesInvariant == Spec => []MInv
BY InitMoves, NextMoves, PTL DEF Spec

\* Mount::m_requestCount is the number of moves queued, being made or
\* completed but not handled, and never more than one (OnExposeComplete
\* asserts it, and the completion of a move decrements it).
THEOREM MovesAreAccounted == Spec => []MovesAccounted
<1>1. MInv => MovesAccounted BY DEF MInv, MoveInv, MovesOut, MovesAccounted
<1> QED BY <1>1, MovesInvariant, PTL

\* When a frame is handled the mount is idle: the correction made before it
\* has been completed (the assertion of Guider::UpdateGuideState).
THEOREM MovesPrecedeFrames == Spec => []MoveBeforeFrame
<1>1. MInv => MoveBeforeFrame BY NoMoveBefore DEF MoveBeforeFrame
<1> QED BY <1>1, MovesInvariant, PTL

\* A capture that clients want, and that is not fully paused, has an
\* exposure under way, through stops, pauses, errors and reconnects.
THEOREM CaptureContinues == Spec => []CaptureGoesOn
<1>1. MInv => CaptureGoesOn BY DEF MInv, Going, CaptureGoesOn
<1> QED BY <1>1, MovesInvariant, PTL

\* A single frame capture is never mixed up with looping.
THEOREM SingleStaysAlone == Spec => []SingleAlone
<1>1. MInv => SingleAlone BY DEF MInv, Going, SingleAlone
<1> QED BY <1>1, MovesInvariant, PTL

\* GuidingStopped, which a move's completion may send late, is never sent
\* for guiding that has been started since.
THEOREM GuidingIsTold == Spec => []GuidingTold
<1>1. MInv => GuidingTold BY DEF MInv, Sighted, GuidingTold
<1> QED BY <1>1, MovesInvariant, PTL

\* Every state after STATE_SELECTING has a star with a current position.
THEOREM StarIsAtHand == Spec => []StarWhenSelected
<1>1. MInv => StarWhenSelected BY DEF MInv, Sighted, StarWhenSelected
<1> QED BY <1>1, MovesInvariant, PTL

-----------------------------------------------------------------------------
(* The capture loop implements the capture session: under the refinement   *)
(* mapping of CaptureRefinement, every step of the daemon is a step of the *)
(* session or leaves it as it is.                                          *)

SessionStep == [Abstract!SessionNext]_Abstract!sessionVars

\* The fields the session is made of are left alone.
Still(r, s) ==
  /\ s.active = r.active /\ s.continue = r.continue /\ s.pending = r.pending
  /\ s.paused = r.paused /\ s.single = r.single

LEMMA StillStep == ASSUME Still(app, app') PROVE SessionStep
<1>1. SessionOf(app)' = SessionOf(app) BY DEF Still, SessionOf
<1> QED BY <1>1 DEF Still, SessionStep, Abstract!sessionVars

LEMMA KeptStep ==
  ASSUME Keeps(app, app') \/ Spares(app, app'),
         app'.paused = app.paused, app'.single = app.single
  PROVE SessionStep
<1>1. Still(app, app') BY DEF Keeps, Spares, Still
<1> QED BY <1>1, StillStep

\* What the invariant says of the session's fields
LEMMA SessionFields ==
  ASSUME MInv
  PROVE /\ app \in AppRecord /\ Sighted(app) /\ Going(app)
        /\ app.active \in BOOLEAN /\ app.continue \in BOOLEAN
        /\ app.pending \in BOOLEAN /\ app.single \in BOOLEAN
        /\ app.pending => app.active
        /\ app.continue => app.active
BY DEF MInv, IInv, TypeOK, AppRecord, Accounted

LEMMA SessionFieldsNext ==
  ASSUME MInv'
  PROVE /\ app'.active \in BOOLEAN /\ app'.continue \in BOOLEAN
        /\ app'.pending \in BOOLEAN /\ app'.single \in BOOLEAN
        /\ app'.pending => app'.active
        /\ Going(app')
BY DEF MInv, IInv, TypeOK, AppRecord, Accounted

-----------------------------------------------------------------------------
(* The worker thread's steps are none of the session's. *)

LEMMA WorkerStepSession == ASSUME MInv, WorkerStep PROVE SessionStep
<1>1. app \in AppRecord BY SessionFields
<1>2. CASE app' = app
  <2>1. Still(app, app') BY <1>2 DEF Still
  <2> QED BY <2>1, StillStep
<1>3. CASE TakeMove
  <2> DEFINE h == Tail(app.high)
  <2>1. app' = [app EXCEPT !.high = h] BY <1>3 DEF TakeMove
  <2> HIDE DEF h
  <2> QED BY <1>1, <2>1, StillStep DEF Still, AppRecord
<1>4. CASE TakeExposure
  <2> DEFINE n == app.low - 1
  <2>1. app' = [app EXCEPT !.low = n] BY <1>4 DEF TakeExposure
  <2> HIDE DEF n
  <2> QED BY <1>1, <2>1, StillStep DEF Still, AppRecord
<1>5. CASE CameraHang
  <2>1. app' = [app EXCEPT !.camera = FALSE] BY <1>5 DEF CameraHang
  <2> QED BY <1>1, <2>1, StillStep DEF Still, AppRecord
<1>6. TakeMove \/ TakeExposure \/ CameraHang \/ app' = app
  BY DEF WorkerStep, FinishMove, FinishPulse, StartCapture, InterruptDelay,
         CaptureFrame, CaptureError, SendExposeComplete
<1> QED BY <1>2, <1>3, <1>4, <1>5, <1>6

-----------------------------------------------------------------------------
(* The completion of an exposure *)

\* One that ends the session
LEMMA EndingStep ==
  ASSUME MInv, MInv', app.pending, app.paused # "full", app'.paused # "full",
         ~app'.active
  PROVE SessionStep
<1>1. app.active = TRUE /\ app.pending = TRUE BY SessionFields
<1>2. app'.active = FALSE /\ app'.pending = FALSE BY SessionFieldsNext
<1>3. SessionOf(app) # "idle" /\ SessionOf(app)' = "idle"
  BY <1>1, <1>2 DEF SessionOf
<1>4. Abstract!Complete BY <1>1, <1>2, <1>3 DEF Abstract!Complete
<1> QED BY <1>4 DEF SessionStep, Abstract!SessionNext

\* One that is dropped, since the session is held
LEMMA DroppingStep ==
  ASSUME MInv, app.pending, app.paused = "full",
         app' = [app EXCEPT !.pending = FALSE]
  PROVE SessionStep
<1>1. /\ app'.pending = FALSE /\ app'.active = app.active /\ app'.paused = app.paused
      /\ app'.continue = app.continue /\ app'.single = app.single
  BY SessionFields DEF AppRecord
<1>2. SessionOf(app)' = SessionOf(app) BY <1>1 DEF SessionOf
<1>3. Abstract!Drop BY <1>1, <1>2 DEF Abstract!Drop
<1> QED BY <1>3 DEF SessionStep, Abstract!SessionNext

\* The exposure whose completion is handled is the one that is pending.
LEMMA PendingExposure ==
  ASSUME MInv, NEW e \in ExposureEvents, Receive(e), UNCHANGED worker
  PROVE app.pending = TRUE /\ app.active = TRUE
<1>1. Accounted(app, 1) /\ app \in AppRecord
  BY ReceivingExposure DEF MInv
<1>2. app.low \in Nat /\ app.pending \in BOOLEAN /\ app.active \in BOOLEAN
  BY <1>1 DEF AppRecord
<1> QED BY <1>1, <1>2 DEF Accounted

LEMMA OnExposedSession == ASSUME MInv, MInv', OnExposed PROVE SessionStep
<1>1. app.pending = TRUE /\ app.active = TRUE
  BY PendingExposure DEF OnExposed, ExposureEvents
<1>2. CASE app.paused = "full" /\ app' = [app EXCEPT !.pending = FALSE]
  BY <1>1, <1>2, DroppingStep
<1>3. ASSUME app.paused # "full",
             NEW f \in FrameOutcomes(app), app' = FrameTaken(app, f)
      PROVE SessionStep
  <2>1. f \in Outcome BY DEF FrameOutcomes, Outcomes
  <2>2. /\ app'.paused = app.paused
        /\ app'.active = app.continue /\ app'.continue = app.continue
    BY <1>1, <1>3, <2>1, SessionFields, FrameTakenPushes
  <2>3. CASE app.continue = TRUE
    <3>1. app'.pending = TRUE
      BY <1>3, <2>2, <2>3, SessionFieldsNext DEF Going
    <3>2. SessionOf(app)' = "looping" /\ SessionOf(app) = "looping"
      BY <1>1, <2>2, <2>3 DEF SessionOf
    <3> QED BY <1>1, <2>2, <3>1, <3>2 DEF SessionStep, Abstract!sessionVars
  <2>4. CASE app.continue = FALSE
    BY <1>1, <1>3, <2>2, <2>4, EndingStep
  <2> QED BY <2>3, <2>4, SessionFields
<1> QED BY <1>2, <1>3 DEF OnExposed

LEMMA ExposureEndsSession ==
  ASSUME MInv, MInv', OnExposeError \/ OnReconnectFailed PROVE SessionStep
<1> DEFINE t == [app EXCEPT !.pending = FALSE]
<1>1. PICK e \in ExposureEvents : Receive(e)
  BY DEF OnExposeError, OnReconnectFailed, ExposureEvents
<1>2. /\ UNCHANGED worker
      /\ app' = IF app.paused = "full" THEN t ELSE ExposeFailed(t)
  BY DEF OnExposeError, OnReconnectFailed, ExposureEnds
<1>3. app.pending = TRUE BY <1>1, <1>2, PendingExposure
<1>4. CASE app.paused = "full" BY <1>2, <1>3, <1>4, DroppingStep
<1>5. CASE app.paused # "full"
  <2>1. t \in AppRecord /\ SameSight(app, t) /\ t.pending = FALSE
    BY SessionFields DEF AppRecord, SameSight
  <2>2. Sighted(t) BY <2>1, SessionFields DEF Sighted, SameSight
  <2> HIDE DEF t
  <2>3. app'.active = FALSE BY <1>2, <1>5, <2>1, ExposeFailedStops
  <2>4. app'.paused = "none" BY <1>2, <1>5, <2>1, <2>2, ExposeFailedGoes
  <2> QED BY <1>3, <1>5, <2>3, <2>4, EndingStep
<1> QED BY <1>4, <1>5

\* After a reconnect the exposure is pending again.
LEMMA OnReconnectedSession == ASSUME MInv, OnReconnected PROVE SessionStep
<1> DEFINE t == [app EXCEPT !.camera = TRUE, !.pending = FALSE]
<1>1. app.pending = TRUE BY PendingExposure DEF OnReconnected, ExposureEvents
<1>2. /\ t \in AppRecord /\ t.active = app.active /\ t.continue = app.continue
      /\ t.paused = app.paused /\ t.single = app.single
  BY SessionFields DEF AppRecord
<1>3. app' = ScheduleExposure(t) BY DEF OnReconnected
<1> HIDE DEF t
<1>4. Still(app, app')
  BY <1>1, <1>2, <1>3, ScheduleExposureSame DEF Still, SameCapture
<1> QED BY <1>4, StillStep

LEMMA OnMoveCompleteSession ==
  ASSUME MInv, OnMoveComplete \/ OnPulseComplete PROVE SessionStep
<1>1. CASE OnPulseComplete BY <1>1, StillStep DEF OnPulseComplete, Still
<1>2. ASSUME NEW e \in MoveEvents, Receive(e), app' = MoveComplete(app, e)
      PROVE SessionStep
  <2>1. events # <<>> /\ Head(events) = e BY <1>2 DEF Receive
  <2>2. TypeOK /\ MoveInv BY DEF MInv, IInv
  <2>3. /\ events \in Seq(Events) /\ CountOf(events, MoveEvents) \in Nat
        /\ CountOf(app.high, {"move"}) \in Nat
    BY <2>2, Counts
  <2>4. CountOf(events, MoveEvents) > 0
    <3>1. Tail(events) \in Seq(Events) BY <2>1, <2>3
    <3>2. CountOf(Tail(events), MoveEvents) \in Nat BY <3>1, CountFinite
    <3>3. CountOf(events, MoveEvents) = CountOf(Tail(events), MoveEvents) + 1
      BY <2>1, <2>3, CountTail
    <3> QED BY <3>2, <3>3
  <2>5. app.reqs > 0 BY <2>2, <2>3, <2>4 DEF MoveInv, MovesOut
  <2>6. app'.paused = app.paused /\ app'.single = app.single
    BY <1>2, <2>5, SessionFields, MoveCompleteGoes
  <2>7. Keeps(app, app')
    BY <1>2, SessionFields, KeepsItself, MoveCompleteKeeps
  <2> QED BY <2>6, <2>7, KeptStep
<1> QED BY <1>1, <1>2 DEF OnMoveComplete

LEMMA MainStepSession == ASSUME MInv, MInv', MainStep PROVE SessionStep
BY OnExposedSession, ExposureEndsSession, OnReconnectedSession,
   OnMoveCompleteSession DEF MainStep

-----------------------------------------------------------------------------
(* Clients' requests *)

\* A session begins, with its first exposure.
LEMMA StartingStep ==
  ASSUME MInv, MInv', ~app.active, app'.active, app'.pending,
         app'.paused = app.paused, app'.continue \/ app'.single
  PROVE SessionStep
<1>1. app.active = FALSE /\ app'.active = TRUE /\ app'.pending = TRUE
  BY SessionFields, SessionFieldsNext
<1>2. SessionOf(app) = "idle" /\ SessionOf(app)' \in {"looping", "single"}
  BY <1>1, SessionFieldsNext DEF SessionOf
<1>3. Abstract!Start BY <1>1, <1>2 DEF Abstract!Start
<1> QED BY <1>3 DEF SessionStep, Abstract!SessionNext

\* A request that leaves an active capture alone starts a loop at most.
LEMMA FollowingStep ==
  ASSUME MInv, MInv', Follows(app, app') PROVE SessionStep
<1>1. app'.paused = app.paused /\ app'.single = app.single BY DEF Follows
<1>2. CASE app.active BY <1>1, <1>2, KeptStep DEF Follows
<1>3. CASE ~app.active /\ app'.active
  <2>1. app'.continue /\ app'.pending BY <1>3, SessionFields DEF Follows
  <2> QED BY <1>1, <1>3, <2>1, StartingStep
<1>4. CASE ~app.active /\ ~app'.active
  <2>1. app.active = FALSE /\ app.pending = FALSE BY <1>4, SessionFields
  <2>2. app'.active = FALSE /\ app'.pending = FALSE BY <1>4, SessionFieldsNext
  <2>3. SessionOf(app)' = SessionOf(app) BY <2>1, <2>2 DEF SessionOf
  <2> QED BY <1>1, <2>1, <2>2, <2>3 DEF SessionStep, Abstract!sessionVars
<1> QED BY <1>2, <1>3, <1>4

LEMMA StopSession == ASSUME MInv, MInv', Stop PROVE SessionStep
<1>1. /\ Stops(app, app') /\ app'.paused = "none"
      /\ IF app.continue /\ ~app.pending THEN app'.active = FALSE
         ELSE app'.active = app.active /\ app'.single = app.single
  BY SessionFields, StopCapturingStops, StopCapturingGoes DEF Stop
<1>2. app'.pending = app.pending /\ app'.continue = FALSE BY <1>1 DEF Stops
<1>3. CASE app.continue = TRUE
  <2>1. /\ app.active = TRUE /\ app.single = FALSE
    BY <1>3, SessionFields DEF Going
  <2>2. SessionOf(app) = "looping" BY <1>3, <2>1 DEF SessionOf
  <2>3. CASE app.pending = TRUE
    <3>1. SessionOf(app)' = "stopping"
      BY <1>1, <1>2, <2>1, <2>3 DEF SessionOf
    <3>2. Abstract!StopLooping
      BY <1>1, <1>2, <2>2, <2>3, <3>1 DEF Abstract!StopLooping
    <3> QED BY <3>2 DEF SessionStep, Abstract!SessionNext
  <2>4. CASE app.pending = FALSE
    <3>1. SessionOf(app)' = "idle" BY <1>1, <1>3, <2>4 DEF SessionOf
    <3>2. Abstract!StopLooping
      BY <1>1, <1>2, <2>2, <2>4, <3>1 DEF Abstract!StopLooping
    <3> QED BY <3>2 DEF SessionStep, Abstract!SessionNext
  <2> QED BY <2>3, <2>4, SessionFields
<1>4. CASE app.continue = FALSE
  <2>1. SessionOf(app)' = SessionOf(app) /\ SessionOf(app) # "looping"
    BY <1>1, <1>2, <1>4 DEF SessionOf
  <2>2. CASE app.paused = "full"
    <3>1. Abstract!Release BY <1>1, <1>2, <2>1, <2>2, SessionFields DEF Abstract!Release
    <3> QED BY <3>1 DEF SessionStep, Abstract!SessionNext
  <2>3. CASE app.paused # "full"
    BY <1>1, <1>2, <2>1, <2>3 DEF SessionStep, Abstract!sessionVars
  <2> QED BY <2>2, <2>3
<1> QED BY <1>3, <1>4, SessionFields

LEMMA PauseSession ==
  ASSUME MInv, NEW pause \in {"guiding", "full"}, ~IsPaused(app),
         app' = SetPaused(app, pause)
  PROVE SessionStep
<1>1. app' = [app EXCEPT !.paused = pause] BY DEF SetPaused
<1>2. /\ app'.paused = pause /\ app'.pending = app.pending
      /\ app'.active = app.active /\ app'.continue = app.continue
      /\ app'.single = app.single
  BY <1>1, SessionFields DEF AppRecord
<1>3. SessionOf(app)' = SessionOf(app) /\ app.paused # "full"
  BY <1>2 DEF SessionOf, IsPaused
<1>4. CASE pause = "full"
  <2>1. Abstract!Hold BY <1>2, <1>3, <1>4 DEF Abstract!Hold
  <2> QED BY <2>1 DEF SessionStep, Abstract!SessionNext
<1>5. CASE pause = "guiding"
  BY <1>2, <1>3, <1>5 DEF SessionStep, Abstract!sessionVars
<1> QED BY <1>4, <1>5

\* A loop that was held without an exposure takes the next one.  A loop that
\* is not held always has one, so its resume changes nothing.
LEMMA ResumeSession == ASSUME MInv, MInv', Resume PROVE SessionStep
<1> DEFINE t == [app EXCEPT !.paused = "none"]
<1>1. /\ t \in AppRecord /\ t.paused = "none" /\ t.pending = app.pending
      /\ t.active = app.active /\ t.continue = app.continue
      /\ t.single = app.single
  BY SessionFields DEF AppRecord, PauseTypes
<1>2. app' = IF app.continue /\ ~app.pending THEN ScheduleExposure(t) ELSE t
  BY DEF Resume, SetPaused
<1> HIDE DEF t
<1>3. /\ app'.paused = "none" /\ app'.single = app.single
      /\ app'.active = app.active /\ app'.continue = app.continue
      /\ app'.pending = IF app.continue /\ ~app.pending THEN TRUE ELSE app.pending
  BY <1>1, <1>2, ScheduleExposureSame DEF SameCapture
<1>4. SessionOf(app)' = SessionOf(app) BY <1>3 DEF SessionOf
<1>5. app.continue <=> SessionOf(app) = "looping"
  BY SessionFields DEF SessionOf
<1>6. app'.pending = (app.pending \/ SessionOf(app) = "looping")
  BY <1>3, <1>5, SessionFields
<1>7. CASE app.paused = "full"
  <2>1. Abstract!Release BY <1>3, <1>4, <1>6, <1>7 DEF Abstract!Release
  <2> QED BY <2>1 DEF SessionStep, Abstract!SessionNext
<1>8. CASE app.paused # "full"
  <2>1. app.continue => app.pending BY <1>8, SessionFields DEF Going
  <2>2. app'.pending = app.pending BY <1>3, <2>1
  <2> QED BY <1>3, <1>4, <1>8, <2>2 DEF SessionStep, Abstract!sessionVars
<1> QED BY <1>7, <1>8

LEMMA SingleFrameSession ==
  ASSUME MInv, MInv', CaptureSingleFrame PROVE SessionStep
<1> DEFINE s == ActivateSingle(app)
<1>1. ~app.active /\ app' = StartCapturing(s) BY DEF CaptureSingleFrame
<1>2. Keeps(app, s) BY SessionFields, KeepsItself, SingleKeeps
<1>3. s.single = TRUE /\ s.paused = app.paused
  BY SessionFields DEF ActivateSingle, AppRecord
<1> HIDE DEF s
<1>4. s \in AppRecord /\ ~s.active BY <1>1, <1>2 DEF Keeps, Spares
<1>5. /\ app'.active = TRUE /\ app'.pending = TRUE
      /\ app'.paused = app.paused /\ app'.single = TRUE
  BY <1>1, <1>3, <1>4, StartCapturingSame DEF SameCapture
<1> QED BY <1>1, <1>5, StartingStep

LEMMA ClientStepSession == ASSUME MInv, MInv', ClientStep PROVE SessionStep
<1>1. app \in AppRecord /\ Sighted(app) /\ Follows(app, app)
  BY SessionFields, FollowsItself
<1>2. CASE Loop
  BY <1>1, <1>2, StartFollows, FollowingStep DEF Loop
<1>3. CASE Stop BY <1>3, StopSession
<1>4. CASE CaptureSingleFrame BY <1>4, SingleFrameSession
<1>5. ASSUME NEW r, GuideRequest(r) PROVE SessionStep
  <2> DEFINE b == (r = "recalibrate")
  <2>1. PICK f \in RequestOutcomes(app) : app' = StartGuideOp(app, b, f)
    BY <1>5 DEF GuideRequest
  <2>2. b \in BOOLEAN /\ f \in Outcome BY DEF RequestOutcomes, Outcomes
  <2> HIDE DEF b
  <2> QED BY <1>1, <2>1, <2>2, StartGuideOpFollows, FollowingStep
<1>6. CASE Dither
  BY <1>1, <1>6, StartDitherFollows, FollowingStep DEF Dither
<1>7. CASE Pause("pauseGuiding", "guiding") \/ Pause("pauseFull", "full")
  BY <1>7, PauseSession DEF Pause
<1>8. CASE Resume BY <1>8, ResumeSession
<1>9. CASE FindStarRequest
  <2>1. PICK f \in RequestOutcomes(app) : app' = AutoSelect(app, f)
    BY <1>9 DEF FindStarRequest
  <2>2. f \in Outcome BY DEF RequestOutcomes, Outcomes
  <2> QED BY <1>1, <2>1, <2>2, AutoSelectFollows, FollowingStep
<1>10. CASE DeselectStar
  BY <1>1, <1>10, ResetFollows, FollowingStep DEF DeselectStar
<1>11. CASE GuidePulse
  <2> DEFINE h == Append(app.high, "pulse")
  <2>1. app' = [app EXCEPT !.high = h, !.intStop = FALSE]
    BY <1>11 DEF GuidePulse, ScheduleManualMove
  <2> HIDE DEF h
  <2> QED BY <1>1, <2>1, StillStep DEF Still, AppRecord
<1>12. CASE SetDecGuideMode
  BY <1>1, <1>12, SettingFollows, FollowingStep DEF SetDecGuideMode
<1>13. CASE ClearCalibrationRequest
  BY <1>1, <1>13, ClearCalibrationFollows, FollowingStep DEF ClearCalibrationRequest
<1>14. CASE ConnectCamera \/ ConnectMount
  <2>1. "auto" \in DecModes BY DEF DecModes
  <2> QED BY <1>1, <1>14, <2>1, SettingFollows, FollowingStep
          DEF ConnectCamera, ConnectMount
<1> QED BY <1>2, <1>3, <1>4, <1>5, <1>6, <1>7, <1>8, <1>9, <1>10, <1>11,
           <1>12, <1>13, <1>14 DEF ClientStep

-----------------------------------------------------------------------------
(* The refinement *)

LEMMA InitSession == Init => Abstract!SessionInit
BY DEF Init, AppInit, SessionOf, Abstract!SessionInit

LEMMA NextSession == MInv /\ MInv' /\ [Next]_vars => SessionStep
<1> SUFFICES ASSUME MInv, MInv', [Next]_vars PROVE SessionStep OBVIOUS
<1>1. CASE WorkerStep BY <1>1, WorkerStepSession
<1>2. CASE MainStep BY <1>2, MainStepSession
<1>3. CASE ClientStep BY <1>3, ClientStepSession
<1>4. CASE UNCHANGED vars BY <1>4, StillStep DEF vars, Still
<1> QED BY <1>1, <1>2, <1>3, <1>4 DEF Next

\* Whatever clients, worker and camera do, StartCapturing, StopCapturing,
\* SetPaused and OnExposeComplete move the flags as one capture session
\* moves: every behaviour of the daemon is one of CaptureSession.
THEOREM SessionIsImplemented == Spec => ImplementsSession
<1>1. Init => Abstract!SessionInit BY InitSession
<1>2. MInv /\ MInv' /\ [Next]_vars => [Abstract!SessionNext]_Abstract!sessionVars
  BY NextSession DEF SessionStep
<1> QED BY <1>1, <1>2, MovesInvariant, PTL
        DEF Spec, ImplementsSession, Abstract!SessionSpec
=============================================================================
