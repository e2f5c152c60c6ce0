---------------------------- MODULE GuidingProofs ----------------------------
(***************************************************************************)
(* Proofs, for every value of the constants, about the calibration that    *)
(* guiding rests on, about the Dec guide mode that a dither overrides,     *)
(* about what capture, guider and controller leave behind when they stop,  *)
(* about what clients are told of guiding, and about what a settling waits *)
(* for.                                                                    *)
(*                                                                         *)
(* An operator is Sound when it neither makes the guider guide without a   *)
(* calibration or calibrate with nothing running, nor loses the user's Dec *)
(* mode, unless its argument was so already.  The controller's cases are   *)
(* Guides only: they may leave STATE_SETTLE_WAIT, and are entered from     *)
(* elsewhere.                                                              *)
(***************************************************************************)
EXTENDS MoveProofs

-----------------------------------------------------------------------------
(* What is shown of every operator *)

\* past calibration, without its rates
Blind(s) == s.guider \in {"calibrated", "guiding"} /\ s.cal = "none"

\* waiting for a calibration that does not run
Stuck(s) == s.guider = "calibrating" /\ s.calRun = "cleared"

\* The Dec mode is the user's, or will be again when the settling ends.
Usual(s) == ~s.override /\ s.decMode = s.wantDec
Restorable(s) ==
  \/ Usual(s)
  \/ s.override /\ s.ctrl = "settleWait" /\ s.saveDec = s.wantDec

Guides(r, s) ==
  /\ s \in AppRecord
  /\ Blind(s) => Blind(r)
  /\ Stuck(s) => Stuck(r)
  /\ Usual(r) => Usual(s)

Sound(r, s) == Guides(r, s) /\ (Restorable(r) => Restorable(s))

LEMMA SoundItself == ASSUME NEW s \in AppRecord PROVE Sound(s, s)
BY DEF Sound, Guides

LEMMA SoundOn ==
  ASSUME NEW r, NEW s, NEW t, Sound(r, s), Sound(s, t) PROVE Sound(r, t)
BY DEF Sound, Guides

LEMMA GuidesOn ==
  ASSUME NEW r, NEW s, NEW t,
         Guides(r, s) \/ Sound(r, s), Guides(s, t) \/ Sound(s, t)
  PROVE Guides(r, t)
BY DEF Sound, Guides

SameDec(s, t) ==
  /\ t.override = s.override /\ t.decMode = s.decMode /\ t.wantDec = s.wantDec
  /\ t.saveDec = s.saveDec /\ t.ctrl = s.ctrl

SameGuide(s, t) ==
  t.guider = s.guider /\ t.cal = s.cal /\ t.calRun = s.calRun /\ SameDec(s, t)

LEMMA SameIsSound ==
  ASSUME NEW s, NEW t \in AppRecord, SameDec(s, t),
         Blind(t) => Blind(s), Stuck(t) => Stuck(s)
  PROVE Sound(s, t)
BY DEF Sound, Guides, SameDec, Usual, Restorable

LEMMA SameGuideIsSound ==
  ASSUME NEW s, NEW t \in AppRecord, SameGuide(s, t) PROVE Sound(s, t)
BY SameIsSound DEF SameGuide, Blind, Stuck

\* A guider that is selecting or has selected a star is neither.
LEMMA BeforeCalibrating ==
  ASSUME NEW s, s.guider \in {"selecting", "selected"} PROVE ~Blind(s) /\ ~Stuck(s)
BY DEF Blind, Stuck

-----------------------------------------------------------------------------
(* Operators that touch none of this *)

LEMMA AssertSameGuide ==
  ASSUME NEW s \in AppRecord, NEW n \in Assertions, NEW b \in BOOLEAN
  PROVE Assert_(s, n, b) \in AppRecord /\ SameGuide(s, Assert_(s, n, b))
<1>1. Keeps(s, Assert_(s, n, b)) BY KeepsItself, AssertKeeps
<1> QED BY <1>1 DEF Keeps, Spares, Assert_, AppRecord, SameGuide, SameDec

LEMMA ScheduleExposureSound ==
  ASSUME NEW s \in AppRecord PROVE SameGuide(s, ScheduleExposure(s))
<1> DEFINE b == ~s.pending
           a == Assert_(s, "exposure not pending", b)
           n == a.low + 1
           t == [a EXCEPT !.pending = TRUE, !.low = n, !.intStop = FALSE]
<1>1. a \in AppRecord /\ SameGuide(s, a)
  <2>1. b \in BOOLEAN BY DEF AppRecord
  <2> HIDE DEF b
  <2> QED BY <2>1, AssertSameGuide DEF Assertions
<1>2. ScheduleExposure(s) = t BY DEF ScheduleExposure
<1> HIDE DEF a
<1>3. SameGuide(a, t)
  <2> HIDE DEF n
  <2> QED BY <1>1 DEF AppRecord, SameGuide, SameDec
<1> HIDE DEF t
<1> QED BY <1>1, <1>2, <1>3 DEF SameGuide, SameDec

LEMMA ScheduleMoveSound ==
  ASSUME NEW s \in AppRecord
  PROVE ScheduleMove(s) \in AppRecord /\ SameGuide(s, ScheduleMove(s))
<1> DEFINE m == s.reqs + 1
           i == [s EXCEPT !.reqs = m]
           b == m <= 2
           a == Assert_(i, "request count", b)
           h == Append(a.high, "move")
           t == [a EXCEPT !.high = h, !.intStop = FALSE]
<1>1. m \in Int /\ b \in BOOLEAN BY DEF AppRecord
<1>2. i \in AppRecord /\ SameGuide(s, i)
  <2> HIDE DEF m
  <2> QED BY <1>1 DEF AppRecord, SameGuide, SameDec
<1>3. ScheduleMove(s) = t BY DEF ScheduleMove, IncrementRequestCount
<1> HIDE DEF i
<1>4. a \in AppRecord /\ SameGuide(i, a)
  <2> HIDE DEF b
  <2> QED BY <1>1, <1>2, AssertSameGuide DEF Assertions
<1> HIDE DEF a
<1>5. SameGuide(a, t)
  <2> HIDE DEF h
  <2> QED BY <1>4 DEF AppRecord, SameGuide, SameDec
<1> HIDE DEF t
<1>6. ScheduleMove(s) \in AppRecord BY KeepsItself, ScheduleMoveKeeps DEF Keeps, Spares
<1> QED BY <1>2, <1>3, <1>4, <1>5, <1>6 DEF SameGuide, SameDec

\* MyFrame::StartCapturing
LEMMA StartCapturingSound ==
  ASSUME NEW s \in AppRecord
  PROVE StartCapturing(s) \in AppRecord /\ SameGuide(s, StartCapturing(s))
<1> DEFINE c == s.continue \/ ~s.single
           i == [s EXCEPT !.active = TRUE, !.continue = c]
           t == StartCapturing(s)
<1>1. i \in AppRecord /\ SameGuide(s, i)
  <2>1. c \in BOOLEAN BY DEF AppRecord
  <2> HIDE DEF c
  <2> QED BY ZenonT(60), <2>1 DEF AppRecord, SameGuide, SameDec
<1>2. t \in {s, ScheduleExposure(i), i} BY DEF StartCapturing
<1>3. t \in AppRecord BY StartCapturingSame
<1> HIDE DEF i, t
<1>4. SameGuide(i, ScheduleExposure(i)) BY <1>1, ScheduleExposureSound
<1>5. SameGuide(s, t) BY <1>1, <1>2, <1>4 DEF SameGuide, SameDec
<1> QED BY <1>3, <1>5 DEF t

-----------------------------------------------------------------------------
(* The end of a settling, and of guiding *)

\* STATE_FINISH gives the Dec mode back.
LEMMA FinishSound ==
  ASSUME NEW s \in AppRecord
  PROVE Sound(s, Finish(s)) /\ Sound(s, AbortController(s))
<1> DEFINE t == Finish(s)
           d == IF s.override THEN s.saveDec ELSE s.decMode
<1>1. t \in AppRecord BY KeepsItself, FinishKeeps DEF Keeps, Spares
<1>2. /\ t.guider = s.guider /\ t.cal = s.cal /\ t.calRun = s.calRun
      /\ t.override = FALSE /\ t.decMode = d /\ t.wantDec = s.wantDec
  <2>1. t = [s EXCEPT !.ctrl = "idle", !.override = FALSE, !.decMode = d]
    BY DEF Finish
  <2> HIDE DEF d, t
  <2> QED BY <2>1 DEF AppRecord
<1> HIDE DEF t
<1>3. Sound(s, t)
  BY <1>1, <1>2 DEF Sound, Guides, Blind, Stuck, Usual, Restorable
<1> QED BY <1>3, SoundItself DEF AbortController, t

LEMMA SetUninitializedSound ==
  ASSUME NEW s \in AppRecord
  PROVE Sound(s, SetUninitialized(s)) /\ SetUninitialized(s).guider = "selecting"
<1> DEFINE t == SetUninitialized(s)
<1>1. t \in AppRecord BY KeepsItself, SetUninitializedKeeps DEF Keeps, Spares
<1>2. t.guider = "selecting" /\ SameDec(s, t)
  BY DEF SetUninitialized, InvalidateCurrentPosition, AppRecord, SameDec
<1> HIDE DEF t
<1>3. Sound(s, t) BY <1>1, <1>2, BeforeCalibrating, SameIsSound
<1> QED BY <1>2, <1>3 DEF t

LEMMA ResetSound ==
  ASSUME NEW s \in AppRecord, NEW full
  PROVE Sound(s, Reset(s, full)) /\ Reset(s, full).guider = "selecting"
<1> DEFINE u == SetUninitialized(s)
           t == InvalidateCurrentPosition(u, TRUE)
<1>1. Sound(s, u) /\ u.guider = "selecting" BY SetUninitializedSound
<1>2. Reset(s, full) \in {t, u} BY DEF Reset
<1> HIDE DEF u
<1>3. u \in AppRecord BY <1>1 DEF Sound, Guides
<1>4. t \in AppRecord BY <1>3, KeepsItself, InvalidateKeeps DEF Keeps, Spares
<1>5. SameGuide(u, t)
  BY <1>3 DEF InvalidateCurrentPosition, AppRecord, SameGuide, SameDec
<1> HIDE DEF t
<1>6. Sound(s, t) BY <1>1, <1>4, <1>5, SameGuideIsSound, SoundOn
<1> QED BY <1>1, <1>2, <1>5, <1>6 DEF SameGuide

\* Scope::BeginCalibration, which has its first leg running
LEMMA BeginCalibrationSound ==
  ASSUME NEW s \in AppRecord
  PROVE /\ BeginCalibration(s) \in AppRecord /\ SameDec(s, BeginCalibration(s))
        /\ ~Blind(BeginCalibration(s)) /\ ~Stuck(BeginCalibration(s))
<1> DEFINE t == BeginCalibration(s)
<1>1. t \in AppRecord BY KeepsItself, BeginCalibrationKeeps DEF Keeps, Spares
<1>2. t.guider = "calibrating" /\ t.calRun = "ra" /\ SameDec(s, t)
  BY DEF BeginCalibration, ClearCalibration, AppRecord, SameDec
<1> HIDE DEF t
<1>3. ~Blind(t) /\ ~Stuck(t) BY <1>2 DEF Blind, Stuck
<1> QED BY <1>1, <1>2, <1>3 DEF t

\* STATE_CALIBRATED is entered with rates only, and calibration begins with
\* a run, whatever the guider did before.
LEMMA StartGuiderSound ==
  ASSUME NEW s \in AppRecord
  PROVE LET t == StartGuider(s)
        IN t \in AppRecord /\ SameDec(s, t) /\ ~Blind(t) /\ ~Stuck(t)
<1> DEFINE t == StartGuider(s)
           c == [s EXCEPT !.guider = "calibrated"]
<1>1. t \in AppRecord BY KeepsItself, StartGuiderKeeps DEF Keeps, Spares
<1>2. CASE s.guider = "selecting"
  <2>1. t = s BY <1>2 DEF StartGuider
  <2> QED BY <1>1, <1>2, <2>1 DEF SameDec, Blind, Stuck
<1>3. CASE s.guider # "selecting" /\ IsCalibrated(s)
  <2>1. t = c BY <1>3 DEF StartGuider
  <2>2. SameDec(s, c) /\ c.guider = "calibrated" /\ c.cal = s.cal
    BY DEF AppRecord, SameDec
  <2>3. s.cal # "none" BY <1>3 DEF IsCalibrated
  <2> HIDE DEF c, t
  <2>4. ~Blind(c) /\ ~Stuck(c) BY <2>2, <2>3 DEF Blind, Stuck
  <2> QED BY <1>1, <2>1, <2>2, <2>4 DEF t
<1>4. CASE s.guider # "selecting" /\ ~IsCalibrated(s)
  <2>1. t \in {BeginCalibration(s), SetUninitialized(s)} BY <1>4 DEF StartGuider
  <2>2. SetUninitialized(s).guider = "selecting" BY SetUninitializedSound
  <2>3. SameDec(s, SetUninitialized(s))
    BY DEF SetUninitialized, InvalidateCurrentPosition, AppRecord, SameDec
  <2> HIDE DEF t
  <2> QED BY <1>1, <2>1, <2>2, <2>3, BeforeCalibrating, BeginCalibrationSound DEF t
<1> QED BY <1>2, <1>3, <1>4

LEMMA SetStopSound == ASSUME NEW s \in AppRecord PROVE Sound(s, SetStop(s))
<1> DEFINE t == [s EXCEPT !.guider = "selected"]
<1>1. t \in AppRecord /\ t.guider = "selected" /\ SameDec(s, t)
  BY DEF AppRecord, GuiderStates, SameDec
<1>2. SetStop(s) \in {SetUninitialized(s), t, s} BY DEF SetStop
<1> HIDE DEF t
<1>3. Sound(s, t) BY <1>1, BeforeCalibrating, SameIsSound
<1> QED BY <1>2, <1>3, SetUninitializedSound, SoundItself

LEMMA NotifyGuidingStoppedSound ==
  ASSUME NEW s \in AppRecord PROVE Sound(s, NotifyGuidingStopped(s))
<1> DEFINE b == ~IsBusy(s)
           a == Assert_(s, "mount idle at stop", b)
           n == [a EXCEPT !.toldGuiding = FALSE, !.owed = FALSE]
<1>1. a \in AppRecord /\ SameGuide(s, a)
  <2>1. b \in BOOLEAN BY DEF IsBusy, AppRecord
  <2> HIDE DEF b
  <2> QED BY <2>1, AssertSameGuide DEF Assertions
<1>2. NotifyGuidingStopped(s) = AbortController(n) BY DEF NotifyGuidingStopped
<1> HIDE DEF a
<1>3. n \in AppRecord /\ SameGuide(a, n)
  BY ZenonT(60), <1>1 DEF AppRecord, SameGuide, SameDec
<1> HIDE DEF n
<1>4. Sound(s, a) /\ Sound(a, n) /\ Sound(n, AbortController(n))
  BY <1>1, <1>3, SameGuideIsSound, FinishSound
<1> QED BY <1>2, <1>4, SoundOn

LEMMA StopGuidingSound ==
  ASSUME NEW s \in AppRecord
  PROVE Sound(s, StopGuiding(s)) /\ Sound(s, StopIfGuiding(s))
<1> DEFINE n == NotifyGuidingStopped(s)
           o == [s EXCEPT !.owed = TRUE]
<1>1. Sound(s, n) BY NotifyGuidingStoppedSound
<1>2. o \in AppRecord /\ SameGuide(s, o) BY DEF AppRecord, SameGuide, SameDec
<1>3. StopGuiding(s) \in {SetStop(n), SetStop(o), SetStop(s)} BY DEF StopGuiding
<1> HIDE DEF n, o
<1>4. n \in AppRecord BY <1>1 DEF Sound, Guides
<1>5. Sound(s, o) BY <1>2, SameGuideIsSound
<1>6. Sound(s, SetStop(n)) /\ Sound(s, SetStop(o)) /\ Sound(s, SetStop(s))
  BY <1>1, <1>2, <1>4, <1>5, SetStopSound, SoundOn
<1> QED BY <1>3, <1>6, SoundItself DEF StopIfGuiding

-----------------------------------------------------------------------------
(* Guider::UpdateGuideState *)

LEMMA ClearCalibrationSame ==
  ASSUME NEW s \in AppRecord
  PROVE LET t == ClearCalibration(s)
        IN /\ t \in AppRecord /\ SameDec(s, t)
           /\ t.guider = s.guider /\ t.cal = "none"
           /\ t.mountOn = s.mountOn /\ t.camera = s.camera
<1>1. ClearCalibration(s) \in AppRecord
  BY KeepsItself, ClearCalibrationKeeps DEF Keeps, Spares
<1> QED BY <1>1 DEF ClearCalibration, AppRecord, SameDec

LEMMA CalibrationFieldsSame ==
  ASSUME NEW s \in AppRecord, NEW run \in CalibrationStates, NEW c \in Calibrations
  PROVE LET u == [s EXCEPT !.calRun = run]
            v == [s EXCEPT !.cal = c]
        IN /\ u \in AppRecord /\ SameDec(s, u) /\ u.guider = s.guider /\ u.calRun = run
           /\ v \in AppRecord /\ SameDec(s, v) /\ v.guider = s.guider
           /\ v.calRun = s.calRun
BY ZenonT(60) DEF AppRecord, SameDec

\* Scope::UpdateCalibrationState: a run that goes on is not cleared.
LEMMA UpdateCalibrationSame ==
  ASSUME NEW s \in AppRecord, NEW f
  PROVE LET u == UpdateCalibrationState(s, f)
        IN /\ u \in AppRecord /\ SameDec(s, u) /\ u.guider = s.guider
           /\ u.calRun = "cleared" => s.calRun = "cleared" \/ CalibrationFails(s, f)
<1> DEFINE P(u) == /\ u \in AppRecord /\ SameDec(s, u) /\ u.guider = s.guider
                   /\ u.calRun = "cleared" => s.calRun = "cleared"
           d == [s EXCEPT !.calRun = "dec"]
           ad == [s EXCEPT !.calRun = "raDone"]
           ar == [s EXCEPT !.cal = "ra"]
           full == [s EXCEPT !.cal = "full", !.calRun = "complete"]
           a == Assert_(s, "calibration running", FALSE)
           u == UpdateCalibrationState(s, f)
<1>1. P(a)
  <2>1. a \in AppRecord /\ SameGuide(s, a) BY AssertSameGuide DEF Assertions
  <2> HIDE DEF a
  <2> QED BY <2>1 DEF SameGuide
<1>2. P(ad) /\ P(ar) /\ P(full) /\ P(d)
  <2>0. /\ "dec" \in CalibrationStates /\ "raDone" \in CalibrationStates
        /\ "complete" \in CalibrationStates
        /\ "ra" \in Calibrations /\ "full" \in Calibrations
    BY DEF CalibrationStates, Calibrations
  <2>1. /\ d \in AppRecord /\ SameDec(s, d) /\ d.guider = s.guider /\ d.calRun = "dec"
    BY <2>0, CalibrationFieldsSame
  <2>2. /\ ad \in AppRecord /\ SameDec(s, ad) /\ ad.guider = s.guider
        /\ ad.calRun = "raDone"
    BY <2>0, CalibrationFieldsSame
  <2>3. /\ ar \in AppRecord /\ SameDec(s, ar) /\ ar.guider = s.guider
        /\ ar.calRun = s.calRun
    BY <2>0, CalibrationFieldsSame
  <2>4. /\ full \in AppRecord /\ SameDec(s, full) /\ full.guider = s.guider
        /\ full.calRun = "complete"
    <3>1. full \in AppRecord BY ZenonT(60), <2>0 DEF AppRecord
    <3>2. SameDec(s, full) /\ full.guider = s.guider /\ full.calRun = "complete"
      BY DEF AppRecord, SameDec
    <3> QED BY <3>1, <3>2
  <2> HIDE DEF d, ad, ar, full
  <2> QED BY <2>1, <2>2, <2>3, <2>4
<1>3. \/ u = ClearCalibration(s) /\ CalibrationFails(s, f)
      \/ u \in {a, ScheduleMove(s), ad, ScheduleMove(d), ar, full}
  BY DEF UpdateCalibrationState, CalibrationFails
<1> HIDE DEF a, d, ad, ar, full, u
<1>4. ASSUME NEW v, P(v) PROVE P(ScheduleMove(v))
  <2>1. ScheduleMove(v) \in AppRecord /\ SameGuide(v, ScheduleMove(v))
    BY <1>4, ScheduleMoveSound
  <2> QED BY <1>4, <2>1 DEF SameGuide, SameDec
<1>5. P(s) BY DEF SameDec
<1>6. P(ScheduleMove(s)) BY <1>4, <1>5
<1>7. P(ScheduleMove(d)) BY <1>2, <1>4
<1>8. CASE u = ClearCalibration(s) /\ CalibrationFails(s, f)
  BY <1>8, ClearCalibrationSame DEF u
<1>9. CASE u \in {a, ScheduleMove(s), ad, ScheduleMove(d), ar, full}
  BY <1>1, <1>2, <1>6, <1>7, <1>9 DEF u
<1> QED BY <1>3, <1>8, <1>9

LEMMA BeginGuidingSame ==
  ASSUME NEW s \in AppRecord
  PROVE LET t == BeginGuiding(s)
        IN /\ t \in AppRecord /\ SameDec(s, t)
           /\ t.guider = "guiding" /\ t.cal = s.cal
<1>1. BeginGuiding(s) \in AppRecord BY KeepsItself, BeginGuidingKeeps DEF Keeps, Spares
<1> QED BY <1>1 DEF BeginGuiding, NotifyGuidingStarted, AppRecord, SameDec

\* A calibration that fails leaves STATE_CALIBRATING with the run, and one
\* that is complete goes on to guide with the rates it stored.
LEMMA CalibrationFrameSound ==
  ASSUME NEW s \in AppRecord, s.guider = "calibrating", NEW f
  PROVE Sound(s, CalibrationFrame(s, f))
<1> DEFINE u == IF IsCalibrated(s) THEN s ELSE UpdateCalibrationState(s, f)
           fails == ~IsCalibrated(s) /\ CalibrationFails(s, f)
           z == CalibrationFrame(s, f)
<1>1. /\ u \in AppRecord /\ SameDec(s, u) /\ u.guider = s.guider
      /\ u.calRun = "cleared" => s.calRun = "cleared" \/ fails
  BY UpdateCalibrationSame DEF SameDec
<1>2. \/ fails /\ z = SetUninitialized(u)
      \/ ~fails /\ IsCalibrated(u) /\ z = BeginGuiding(u)
      \/ ~fails /\ z = u
  <2>1. z = CASE fails -> SetUninitialized(u)
              [] IsCalibrated(u) -> BeginGuiding(u)
              [] OTHER -> u
    BY DEF CalibrationFrame
  <2>2. ASSUME fails PROVE ~IsCalibrated(u)
    <3>1. u = ClearCalibration(s) BY <2>2 DEF UpdateCalibrationState, CalibrationFails
    <3> HIDE DEF u
    <3> QED BY <3>1 DEF ClearCalibration, IsCalibrated, AppRecord
  <2> HIDE DEF u, fails, z
  <2>3. CASE fails BY <2>1, <2>2, <2>3
  <2>4. CASE ~fails /\ IsCalibrated(u) BY <2>1, <2>4
  <2>5. CASE ~fails /\ ~IsCalibrated(u) BY <2>1, <2>5
  <2> QED BY <2>3, <2>4, <2>5
<1> HIDE DEF u, fails, z
<1>3. CASE z = SetUninitialized(u)
  <2>1. z \in AppRecord /\ z.guider = "selecting"
    BY <1>1, <1>3, SetUninitializedSound DEF Sound, Guides
  <2>2. SameDec(u, z)
    BY <1>1, <1>3 DEF SetUninitialized, InvalidateCurrentPosition, AppRecord, SameDec
  <2>3. SameDec(s, z) BY <1>1, <2>2 DEF SameDec
  <2> QED BY <2>1, <2>3, BeforeCalibrating, SameIsSound DEF z
<1>4. CASE IsCalibrated(u) /\ z = BeginGuiding(u)
  <2>1. z \in AppRecord /\ SameDec(u, z) /\ z.guider = "guiding" /\ z.cal = u.cal
    BY <1>1, <1>4, BeginGuidingSame
  <2>2. u.cal # "none" BY <1>4 DEF IsCalibrated
  <2>3. ~Blind(z) /\ ~Stuck(z) BY <2>1, <2>2 DEF Blind, Stuck
  <2>4. SameDec(s, z) BY <1>1, <2>1 DEF SameDec
  <2> QED BY <2>1, <2>3, <2>4, SameIsSound DEF z
<1>5. CASE ~fails /\ z = u
  <2>1. ~Blind(z) /\ (Stuck(z) => Stuck(s)) BY <1>1, <1>5 DEF Blind, Stuck
  <2> QED BY <1>1, <1>5, <2>1, SameIsSound DEF z
<1> QED BY <1>2, <1>3, <1>4, <1>5

LEMMA StarSeenSound ==
  ASSUME NEW s \in AppRecord, NEW f PROVE Sound(s, StarSeen(s, f))
<1> DEFINE t == [s EXCEPT !.guider = "selected"]
<1>1. Sound(s, t)
  <2>1. t \in AppRecord /\ t.guider = "selected" /\ SameDec(s, t)
    BY DEF AppRecord, GuiderStates, SameDec
  <2> HIDE DEF t
  <2> QED BY <2>1, BeforeCalibrating, SameIsSound
<1>2. \/ s.guider = "calibrating" /\ StarSeen(s, f) = CalibrationFrame(s, f)
      \/ s.guider = "calibrated" /\ StarSeen(s, f) = BeginGuiding(s)
      \/ StarSeen(s, f) \in {t, ScheduleMove(s), s}
  <2>1. CASE s.guider = "calibrating" BY <2>1 DEF StarSeen
  <2>2. CASE s.guider = "calibrated" BY <2>2 DEF StarSeen
  <2>3. CASE s.guider # "calibrating" /\ s.guider # "calibrated"
    BY <2>3 DEF StarSeen
  <2> QED BY <2>1, <2>2, <2>3
<1> HIDE DEF t
<1>3. CASE s.guider = "calibrated"
  <2>1. /\ BeginGuiding(s) \in AppRecord /\ SameDec(s, BeginGuiding(s))
        /\ BeginGuiding(s).guider = "guiding" /\ BeginGuiding(s).cal = s.cal
    BY BeginGuidingSame
  <2>2. (Blind(BeginGuiding(s)) => Blind(s)) /\ ~Stuck(BeginGuiding(s))
    BY <1>3, <2>1 DEF Blind, Stuck
  <2>3. Sound(s, BeginGuiding(s)) BY <2>1, <2>2, SameIsSound
  <2> QED BY <1>1, <1>2, <1>3, <2>3, ScheduleMoveSound, SameGuideIsSound, SoundItself
<1>4. CASE s.guider # "calibrated"
  BY <1>1, <1>2, <1>4, CalibrationFrameSound, ScheduleMoveSound, SameGuideIsSound,
     SoundItself
<1> QED BY <1>3, <1>4

LEMMA StarMissedSound ==
  ASSUME NEW s \in AppRecord PROVE Sound(s, StarMissed(s))
<1>1. StarMissed(s) \in {SetUninitialized(s), ScheduleMove(s), s} BY DEF StarMissed
<1> QED BY <1>1, SetUninitializedSound, ScheduleMoveSound, SameGuideIsSound, SoundItself

LEMMA UpdateGuideStateSound ==
  ASSUME NEW s \in AppRecord, NEW f, NEW stopping
  PROVE Sound(s, UpdateGuideState(s, f, stopping))
<1> DEFINE b == ~IsBusy(s)
           a == Assert_(s, "mount idle at frame", b)
           v == [a EXCEPT !.star = "valid"]
<1>1. a \in AppRecord /\ SameGuide(s, a)
  <2>1. b \in BOOLEAN BY DEF IsBusy, AppRecord
  <2> HIDE DEF b
  <2> QED BY <2>1, AssertSameGuide DEF Assertions
<1>2. UpdateGuideState(s, f, stopping) \in {StopGuiding(s), StarSeen(v, f), StarMissed(a)}
  BY DEF UpdateGuideState, FindStar
<1> HIDE DEF a
<1>3. v \in AppRecord /\ SameGuide(a, v)
  BY <1>1 DEF AppRecord, StarStates, SameGuide, SameDec
<1> HIDE DEF v
<1>4. Sound(s, a) /\ Sound(a, v) BY <1>1, <1>3, SameGuideIsSound
<1>5. Sound(s, StarSeen(v, f)) /\ Sound(s, StarMissed(a))
  BY <1>1, <1>3, <1>4, StarSeenSound, StarMissedSound, SoundOn
<1> QED BY <1>2, <1>5, StopGuidingSound

LEMMA AutoSelectSound ==
  ASSUME NEW s \in AppRecord, NEW f PROVE Sound(s, AutoSelect(s, f))
<1> DEFINE v == [s EXCEPT !.star = "valid"]
           t == IF ~s.image \/ f.sel = "none" THEN s ELSE v
           u == UpdateGuideState(t, [f EXCEPT !.star = "found"], FALSE)
<1>1. v \in AppRecord /\ SameGuide(s, v)
  BY DEF AppRecord, StarStates, SameGuide, SameDec
<1>2. AutoSelect(s, f) \in {t, u} BY DEF AutoSelect
<1>3. t \in {s, v} OBVIOUS
<1> HIDE DEF v, t
<1>4. Sound(s, t) /\ t \in AppRecord BY <1>1, <1>3, SameGuideIsSound, SoundItself
<1>5. Sound(t, u) BY <1>4, UpdateGuideStateSound
<1> HIDE DEF u
<1> QED BY <1>2, <1>4, <1>5, SoundOn

-----------------------------------------------------------------------------
(* Starting, pausing, stopping and failing *)

LEMMA StartSound ==
  ASSUME NEW s \in AppRecord
  PROVE /\ Sound(s, StartLooping(s))
        /\ LET t == StartGuiding(s)
           IN t \in AppRecord /\ SameDec(s, t) /\ ~Blind(t) /\ ~Stuck(t)
<1>1. Sound(s, StartLooping(s))
  <2> DEFINE g == StopGuiding(s)
  <2>1. Sound(s, g) BY StopGuidingSound
  <2>2. StartLooping(s) \in {s, StartCapturing(s), StartCapturing(g)}
    BY DEF StartLooping
  <2> HIDE DEF g
  <2>3. g \in AppRecord BY <2>1 DEF Sound, Guides
  <2>4. Sound(g, StartCapturing(g)) BY <2>3, StartCapturingSound, SameGuideIsSound
  <2>5. Sound(s, StartCapturing(s)) BY StartCapturingSound, SameGuideIsSound
  <2> QED BY <2>1, <2>2, <2>4, <2>5, SoundOn, SoundItself
<1>2. LET t == StartGuiding(s)
      IN t \in AppRecord /\ SameDec(s, t) /\ ~Blind(t) /\ ~Stuck(t)
  <2> DEFINE g == StartGuider(s)
             t == StartCapturing(g)
  <2>1. g \in AppRecord /\ SameDec(s, g) /\ ~Blind(g) /\ ~Stuck(g)
    BY StartGuiderSound
  <2>2. StartGuiding(s) = t BY DEF StartGuiding
  <2> HIDE DEF g
  <2>3. t \in AppRecord /\ SameGuide(g, t) BY <2>1, StartCapturingSound
  <2> HIDE DEF t
  <2> QED BY <2>1, <2>2, <2>3 DEF SameGuide, SameDec, Blind, Stuck
<1> QED BY <1>1, <1>2

LEMMA SetPausedSound ==
  ASSUME NEW s \in AppRecord, NEW pause \in PauseTypes
  PROVE SetPaused(s, pause) \in AppRecord /\ SameGuide(s, SetPaused(s, pause))
<1> DEFINE p == [s EXCEPT !.paused = pause]
           t == [s EXCEPT !.paused = "none"]
           z == SetPaused(s, pause)
<1>1. p \in AppRecord /\ SameGuide(s, p) BY DEF AppRecord, SameGuide, SameDec
<1>2. t \in AppRecord /\ SameGuide(s, t)
  BY DEF AppRecord, PauseTypes, SameGuide, SameDec
<1>3. z \in {p, t, ScheduleExposure(t), s} BY DEF SetPaused
<1>4. z \in AppRecord BY SetPausedTypes
<1> HIDE DEF p, t, z
<1>5. SameGuide(t, ScheduleExposure(t)) BY <1>2, ScheduleExposureSound
<1> QED BY <1>1, <1>2, <1>3, <1>4, <1>5 DEF SameGuide, SameDec, z

LEMMA FinishStopSound ==
  ASSUME NEW s \in AppRecord
  PROVE Sound(s, FinishStop(s)) /\ SameGuide(s, CompleteSingle(s))
<1> DEFINE b == ~s.active
           a == Assert_(s, "capture inactive at stop", b)
           c == CompleteSingle(a)
<1>1. a \in AppRecord /\ SameGuide(s, a)
  <2>1. b \in BOOLEAN BY DEF AppRecord
  <2> HIDE DEF b
  <2> QED BY <2>1, AssertSameGuide DEF Assertions
<1>2. FinishStop(s) = AbortController(c) BY DEF FinishStop
<1> HIDE DEF a
<1>3. c \in AppRecord BY <1>1, KeepsItself, SingleKeeps DEF Keeps, Spares
<1>4. SameGuide(a, c) BY <1>1 DEF CompleteSingle, AppRecord, SameGuide, SameDec
<1> HIDE DEF c
<1>5. Sound(s, a) /\ Sound(a, c) /\ Sound(c, AbortController(c))
  BY <1>1, <1>3, <1>4, SameGuideIsSound, FinishSound
<1>6. SameGuide(s, CompleteSingle(s))
  BY DEF CompleteSingle, AppRecord, SameGuide, SameDec
<1> QED BY <1>2, <1>5, <1>6, SoundOn

LEMMA StopCapturingSound ==
  ASSUME NEW s \in AppRecord PROVE Sound(s, StopCapturing(s))
<1> DEFINE c == [s EXCEPT !.continue = FALSE]
           t == IF IsPaused(s) THEN SetPaused(c, "none") ELSE s
           v == [t EXCEPT !.continue = FALSE]
           w == RequestStop(v)
           x == [v EXCEPT !.active = FALSE]
           g == StopIfGuiding(x)
<1>1. c \in AppRecord /\ SameGuide(s, c) BY DEF AppRecord, SameGuide, SameDec
<1>2. StopCapturing(s) \in {w, FinishStop(g), t} BY DEF StopCapturing
<1>3. t \in {s, SetPaused(c, "none")} OBVIOUS
<1> HIDE DEF c, t
<1>4. SetPaused(c, "none") \in AppRecord /\ SameGuide(c, SetPaused(c, "none"))
  BY <1>1, SetPausedSound DEF PauseTypes
<1>5. t \in AppRecord /\ SameGuide(s, t)
  BY <1>1, <1>3, <1>4 DEF SameGuide, SameDec
<1>6. w \in AppRecord /\ SameGuide(t, w)
  BY ZenonT(60), <1>5 DEF RequestStop, AppRecord, SameGuide, SameDec
<1>7. x \in AppRecord /\ SameGuide(t, x)
  BY ZenonT(60), <1>5 DEF AppRecord, SameGuide, SameDec
<1> HIDE DEF w, x
<1>8. Sound(s, t) /\ Sound(t, w) /\ Sound(t, x)
  BY <1>5, <1>6, <1>7, SameGuideIsSound
<1>9. Sound(x, g) BY <1>7, StopGuidingSound
<1> HIDE DEF g
<1>10. Sound(g, FinishStop(g)) BY <1>9, FinishStopSound DEF Sound, Guides
<1> QED BY <1>2, <1>8, <1>9, <1>10, SoundOn

LEMMA ExposeFailedSound ==
  ASSUME NEW s \in AppRecord
  PROVE /\ Sound(s, ExposeFailed(s))
        /\ ExposeFailed(s).guider = "selecting" /\ ExposeFailed(s).ctrl = "idle"
<1> DEFINE q == StopCapturing(s)
           g == StopIfGuiding(q)
           c == CompleteSingle(g)
           t == SetUninitialized(c)
           a == t.continue
           u == [t EXCEPT !.active = a]
           z == AbortController(u)
<1>1. Sound(s, q) BY StopCapturingSound
<1> HIDE DEF q
<1>2. q \in AppRecord BY <1>1 DEF Sound, Guides
<1>3. Sound(q, g) BY <1>2, StopGuidingSound
<1> HIDE DEF g
<1>4. g \in AppRecord BY <1>3 DEF Sound, Guides
<1>5. c \in AppRecord /\ SameGuide(g, c)
  BY <1>4, KeepsItself, SingleKeeps, FinishStopSound DEF Keeps, Spares
<1> HIDE DEF c
<1>6. Sound(g, c) BY <1>5, SameGuideIsSound
<1>7. Sound(c, t) /\ t.guider = "selecting" BY <1>5, SetUninitializedSound
<1> HIDE DEF t
<1>8. t \in AppRecord BY <1>7 DEF Sound, Guides
<1>9. u \in AppRecord /\ SameGuide(t, u)
  <2>1. a \in BOOLEAN BY <1>8 DEF AppRecord
  <2> HIDE DEF a
  <2> QED BY ZenonT(60), <1>8, <2>1 DEF AppRecord, SameGuide, SameDec
<1> HIDE DEF u
<1>10. Sound(t, u) BY <1>9, SameGuideIsSound
<1>11. Sound(u, z) BY <1>9, FinishSound
<1>12. z.guider = u.guider /\ z.ctrl = "idle"
  BY <1>9 DEF AbortController, Finish, AppRecord
<1>13. ExposeFailed(s) = z BY DEF ExposeFailed, z, u, t, c, g, q
<1> HIDE DEF z
<1> QED BY <1>1, <1>3, <1>6, <1>7, <1>9, <1>10, <1>11, <1>12, <1>13, SoundOn
        DEF SameGuide

LEMMA MoveCompleteSound ==
  ASSUME NEW s \in AppRecord, NEW e PROVE Sound(s, MoveComplete(s, e))
<1> DEFINE b == IsBusy(s)
           a == Assert_(s, "mount busy at completion", b)
           n == a.reqs - 1
           d == [a EXCEPT !.reqs = n]
           o == d.owed /\ IsBusy(d)
           v == [d EXCEPT !.owed = o]
           m == IF ~CalibratingOrGuiding(d) /\ ~IsBusy(d)
                THEN NotifyGuidingStopped(d) ELSE v
<1>1. a \in AppRecord /\ SameGuide(s, a)
  <2>1. b \in BOOLEAN BY DEF IsBusy, AppRecord
  <2> HIDE DEF b
  <2> QED BY <2>1, AssertSameGuide DEF Assertions
<1>2. MoveComplete(s, e) \in {StopGuiding(m), m} BY DEF MoveComplete
<1> HIDE DEF a
<1>3. d \in AppRecord /\ SameGuide(a, d)
  <2>1. n \in Int BY <1>1 DEF AppRecord
  <2> HIDE DEF n
  <2> QED BY <1>1, <2>1 DEF AppRecord, SameGuide, SameDec
<1>4. m \in {NotifyGuidingStopped(d), v} OBVIOUS
<1> HIDE DEF d, m
<1>v. v \in AppRecord /\ SameGuide(d, v)
  <2>1. o \in BOOLEAN BY <1>3 DEF IsBusy, AppRecord
  <2> HIDE DEF o
  <2> QED BY <1>3, <2>1 DEF AppRecord, SameGuide, SameDec
<1> HIDE DEF v
<1>5. Sound(s, a) /\ Sound(a, d) BY <1>1, <1>3, SameGuideIsSound
<1>6. Sound(d, m)
  BY <1>3, <1>4, <1>v, NotifyGuidingStoppedSound, SameGuideIsSound
<1>7. m \in AppRecord BY <1>6 DEF Sound, Guides
<1>8. Sound(m, StopGuiding(m)) BY <1>7, StopGuidingSound
<1> QED BY <1>2, <1>5, <1>6, <1>8, SoundOn

-----------------------------------------------------------------------------
(* The controller's cases *)

LEMMA ToGuides ==
  ASSUME NEW s \in AppRecord, NEW state \in ControllerStates
  PROVE Guides(s, To(s, state))
<1> DEFINE t == To(s, state)
<1>1. t \in AppRecord BY CarriesItself, ToCarries DEF Carries
<1>2. /\ t.guider = s.guider /\ t.cal = s.cal /\ t.calRun = s.calRun
      /\ t.override = s.override /\ t.decMode = s.decMode /\ t.wantDec = s.wantDec
  BY DEF To, AppRecord
<1> HIDE DEF t
<1>3. Guides(s, t) BY <1>1, <1>2 DEF Guides, Blind, Stuck, Usual
<1> QED BY <1>3 DEF t

LEMMA CountdownGuides ==
  ASSUME NEW s \in AppRecord, NEW n \in Int
  PROVE Guides(s, [s EXCEPT !.waits = n]) /\ Guides(s, [s EXCEPT !.finds = n])
<1>1. ASSUME NEW t \in {[s EXCEPT !.waits = n], [s EXCEPT !.finds = n]}
      PROVE Guides(s, t)
  <2>1. t \in AppRecord BY CarriesItself, CountdownCarries DEF Carries
  <2>2. /\ t.guider = s.guider /\ t.cal = s.cal /\ t.calRun = s.calRun
        /\ t.override = s.override /\ t.decMode = s.decMode /\ t.wantDec = s.wantDec
    BY DEF AppRecord
  <2> QED BY <2>1, <2>2 DEF Guides, Blind, Stuck, Usual
<1> QED BY <1>1

LEMMA SettleBeginGuides ==
  ASSUME NEW s \in AppRecord PROVE Guides(s, SettleBegin(s))
<1> DEFINE t == SettleBegin(s)
<1>1. t \in AppRecord BY CarriesItself, SettleBeginCarries DEF Carries
<1>2. /\ t.guider = s.guider /\ t.cal = s.cal /\ t.calRun = s.calRun
      /\ t.override = s.override /\ t.wantDec = s.wantDec
      /\ ~s.override => t.decMode = s.decMode
  BY DEF SettleBegin, AppRecord
<1> HIDE DEF t
<1>3. Guides(s, t) BY <1>1, <1>2 DEF Guides, Blind, Stuck, Usual
<1> QED BY <1>3 DEF t

LEMMA SettleWaitSound ==
  ASSUME NEW s \in AppRecord, NEW f PROVE Sound(s, SettleWait(s, f))
<1> DEFINE n == s.settled + 1
           t == [s EXCEPT !.settled = n]
<1>1. t \in AppRecord /\ SameGuide(s, t)
  <2>1. n \in Nat BY DEF AppRecord
  <2> HIDE DEF n
  <2> QED BY <2>1 DEF AppRecord, SameGuide, SameDec
<1>2. SettleWait(s, f) \in {t, Finish(t)} BY DEF SettleWait
<1> HIDE DEF t
<1> QED BY <1>1, <1>2, SameGuideIsSound, FinishSound, SoundOn

LEMMA StickySame ==
  ASSUME NEW s \in AppRecord
  PROVE LET t == StickForCalibration(s)
            u == RestoreSticky(s)
        IN /\ t \in AppRecord /\ SameGuide(s, t)
           /\ u \in AppRecord /\ SameGuide(s, u)
<1>1. StickForCalibration(s) \in AppRecord /\ RestoreSticky(s) \in AppRecord
  BY KeepsItself, StickyKeeps DEF Keeps, Spares
<1>2. SameGuide(s, StickForCalibration(s))
  BY DEF StickForCalibration, AppRecord, SameGuide, SameDec
<1>3. SameGuide(s, RestoreSticky(s))
  BY DEF RestoreSticky, AppRecord, SameGuide, SameDec
<1> QED BY <1>1, <1>2, <1>3

\* Starting to guide leaves neither defect, whatever was there before.
LEMMA StartGuidingThen ==
  ASSUME NEW r, NEW s \in AppRecord, SameDec(r, s), NEW state \in ControllerStates
  PROVE Guides(r, To(StartGuiding(s), state))
<1> DEFINE t == StartGuiding(s)
           u == To(t, state)
<1>1. t \in AppRecord /\ SameDec(s, t) /\ ~Blind(t) /\ ~Stuck(t) BY StartSound
<1> HIDE DEF t
<1>2. Guides(t, u) BY <1>1, ToGuides
<1> HIDE DEF u
<1>3. Guides(r, u) BY <1>1, <1>2 DEF Guides, SameDec, Usual
<1> QED BY <1>3 DEF u, t

LEMMA GuideGuides ==
  ASSUME NEW s \in AppRecord PROVE Guides(s, Guide(s))
<1>1. SameDec(s, s) BY DEF SameDec
<1>2. Guides(s, To(StartGuiding(s), "settleBegin"))
  BY <1>1, StartGuidingThen DEF ControllerStates
<1>3. Guides(s, Finish(s)) BY FinishSound DEF Sound
<1> QED BY <1>2, <1>3 DEF Guide

\* A calibration that is cleared to be run again is begun at once: the
\* guider is able to start, or has gone back to STATE_SELECTED.
LEMMA CalibrateGuides ==
  ASSUME NEW s \in AppRecord, s.force => s.guider = "selected" \/ CanStartGuiding(s)
  PROVE Guides(s, Calibrate(s))
<1> DEFINE t == IF s.force THEN ClearCalibration(s) ELSE s
           u == StickForCalibration(t)
           v == RestoreSticky(u)
           c == CanStartGuiding(t)
<1>1. /\ t \in AppRecord /\ SameDec(s, t)
      /\ t = s \/ (s.force /\ ~IsCalibrated(t) /\ t.guider = s.guider)
      /\ c = CanStartGuiding(s)
  <2>1. CASE s.force
    <3>1. ClearCalibration(s) \in AppRecord BY KeepsItself, ClearCalibrationKeeps DEF Keeps, Spares
    <3>2. LET w == ClearCalibration(s)
          IN /\ SameDec(s, w) /\ ~IsCalibrated(w) /\ w.guider = s.guider
             /\ w.mountOn = s.mountOn /\ w.camera = s.camera
      BY DEF ClearCalibration, AppRecord, SameDec, IsCalibrated
    <3> QED BY <2>1, <3>1, <3>2 DEF CanStartGuiding
  <2>2. CASE ~s.force BY <2>2 DEF SameDec
  <2> QED BY <2>1, <2>2
<1>2. \/ IsCalibrated(t) /\ Calibrate(s) = Guide(t)
      \/ Calibrate(s) = To(StartGuiding(u), "calibrationWait")
      \/ ~c /\ Calibrate(s) = Finish(v)
  BY DEF Calibrate
<1> HIDE DEF t, c
<1>3. u \in AppRecord /\ SameGuide(t, u) BY <1>1, StickySame
<1> HIDE DEF u
<1>4. v \in AppRecord /\ SameGuide(u, v) BY <1>3, StickySame
<1> HIDE DEF v
<1>5. CASE IsCalibrated(t) /\ Calibrate(s) = Guide(t)
  BY <1>1, <1>5, GuideGuides
<1>6. CASE Calibrate(s) = To(StartGuiding(u), "calibrationWait")
  <2>1. SameDec(s, u) BY <1>1, <1>3 DEF SameGuide, SameDec
  <2> QED BY <1>3, <1>6, <2>1, StartGuidingThen DEF ControllerStates
<1>7. CASE ~c /\ Calibrate(s) = Finish(v)
  <2>1. Sound(v, Finish(v)) BY <1>4, FinishSound
  <2>2. Guides(s, v)
    <3>1. CASE t = s
      <4>1. SameGuide(s, v) BY <1>3, <1>4, <3>1 DEF SameGuide, SameDec
      <4> QED BY <1>4, <4>1, SameGuideIsSound DEF Sound
    <3>2. CASE t # s
      <4>1. s.guider = "selected" BY <1>1, <1>7, <3>2
      <4>2. v.guider = "selected" /\ SameDec(s, v)
        BY <1>1, <1>3, <1>4, <3>2, <4>1 DEF SameGuide, SameDec
      <4> QED BY <1>4, <4>2, BeforeCalibrating, SameIsSound DEF Sound
    <3> QED BY <3>1, <3>2
  <2> QED BY <1>7, <2>1, <2>2, GuidesOn
<1> QED BY <1>2, <1>5, <1>6, <1>7

LEMMA SelectStarGuides ==
  ASSUME NEW s \in AppRecord, NEW f PROVE Guides(s, SelectStar(s, f))
<1> DEFINE t == IF CalibratingOrGuiding(s) THEN s ELSE AutoSelect(s, f)
           n == t.finds - 1
           less == [t EXCEPT !.finds = n]
           x == To(t, "waitSelected")
           w == [x EXCEPT !.waits = WaitSelectedFrames]
           y == Reset(less, TRUE)
<1>1. Sound(s, t) /\ t \in AppRecord
  BY AutoSelectSound, SoundItself DEF Sound, Guides
<1>2. SelectStar(s, f) \in {w, Finish(less), To(y, "attemptStart")}
  BY DEF SelectStar
<1> HIDE DEF t
<1>3. Guides(t, x) /\ x \in AppRecord
  BY <1>1, ToGuides DEF ControllerStates, Guides
<1> HIDE DEF x
<1>4. Guides(x, w)
  <2>1. WaitSelectedFrames \in Int BY BoundsAssumption
  <2> QED BY <1>3, <2>1, CountdownGuides
<1>5. Guides(t, less) /\ less \in AppRecord
  <2>1. n \in Int BY <1>1 DEF AppRecord
  <2> HIDE DEF n
  <2> QED BY <1>1, <2>1, CountdownGuides DEF Guides
<1> HIDE DEF w, less
<1>6. Guides(s, w) /\ Guides(s, less) BY <1>1, <1>3, <1>4, <1>5, GuidesOn
<1>7. Sound(less, Finish(less)) BY <1>5, FinishSound
<1>8. Sound(less, y) /\ y \in AppRecord BY <1>5, ResetSound DEF Sound, Guides
<1> HIDE DEF y
<1>9. Guides(y, To(y, "attemptStart")) BY <1>8, ToGuides DEF ControllerStates
<1>10. Guides(s, To(y, "attemptStart")) BY <1>6, <1>8, <1>9, GuidesOn
<1> QED BY <1>2, <1>6, <1>7, <1>10, GuidesOn

LEMMA WaitSelectedGuides ==
  ASSUME NEW s \in AppRecord PROVE Guides(s, WaitSelected(s))
<1> DEFINE n == s.waits - 1
           less == [s EXCEPT !.waits = n]
<1>1. Guides(s, less) /\ less \in AppRecord
  <2>1. n \in Int BY DEF AppRecord
  <2> HIDE DEF n
  <2> QED BY <2>1, CountdownGuides DEF Guides
<1>2. \/ s.guider = "selected" /\ WaitSelected(s) = Calibrate(s)
      \/ WaitSelected(s) \in {To(less, "attemptStart"), less}
  BY DEF WaitSelected
<1> HIDE DEF less
<1>3. Guides(less, To(less, "attemptStart"))
  BY <1>1, ToGuides DEF ControllerStates
<1> QED BY <1>1, <1>2, <1>3, CalibrateGuides, GuidesOn

LEMMA AttemptStartGuides ==
  ASSUME NEW s \in AppRecord, NEW f PROVE Guides(s, AttemptStart(s, f))
<1> DEFINE y == Reset(s, TRUE)
           z == StartCapturing(y)
<1>1. Guides(s, To(s, "calibrationWait")) /\ Guides(s, To(s, "selectStar"))
  BY ToGuides DEF ControllerStates
<1>2. Sound(s, y) /\ y \in AppRecord BY ResetSound DEF Sound, Guides
<1> HIDE DEF y
<1>3. Sound(y, z) /\ z \in AppRecord BY <1>2, StartCapturingSound, SameGuideIsSound
<1>4. Guides(z, To(z, "selectStar")) BY <1>3, ToGuides DEF ControllerStates
<1>5. Guides(s, To(z, "selectStar")) BY <1>2, <1>3, <1>4, SoundOn, GuidesOn
<1>6. \/ /\ s.guider = "selected" \/ (CanGuide(s) /\ CalibratingOrGuiding(s))
         /\ AttemptStart(s, f) = Calibrate(s)
      \/ AttemptStart(s, f) \in
           {To(s, "calibrationWait"), To(s, "selectStar"), Finish(s),
            SettleBegin(s), SelectStar(s, f), To(z, "selectStar")}
  <2>1. CASE CanGuide(s) /\ CalibratingOrGuiding(s) BY <2>1 DEF AttemptStart
  <2>2. CASE ~(CanGuide(s) /\ CalibratingOrGuiding(s)) BY <2>2 DEF AttemptStart, z, y
  <2> QED BY <2>1, <2>2
<1> HIDE DEF z
<1>7. ASSUME s.guider = "selected" \/ (CanGuide(s) /\ CalibratingOrGuiding(s))
      PROVE Guides(s, Calibrate(s))
  <2>1. s.guider = "selected" \/ CanStartGuiding(s)
    BY <1>7 DEF CanGuide, CanStartGuiding, CalibratingOrGuiding
  <2> QED BY <2>1, CalibrateGuides
<1>8. Guides(s, Finish(s)) BY FinishSound DEF Sound
<1>9. CASE AttemptStart(s, f) \in
             {To(s, "calibrationWait"), To(s, "selectStar"), Finish(s),
              SettleBegin(s), SelectStar(s, f), To(z, "selectStar")}
  BY <1>1, <1>5, <1>8, <1>9, SettleBeginGuides, SelectStarGuides
<1> QED BY <1>6, <1>7, <1>9

LEMMA StartGuideOpGuides ==
  ASSUME NEW s \in AppRecord, NEW recalibrate \in BOOLEAN, NEW f
  PROVE Guides(s, StartGuideOp(s, recalibrate, f))
<1> DEFINE t == [s EXCEPT !.force = recalibrate]
           u == [t EXCEPT !.haveSave = FALSE, !.finds = AutoFindAttempts,
                          !.override = FALSE]
<1>1. t \in AppRecord /\ SameGuide(s, t) BY DEF AppRecord, SameGuide, SameDec
<1>2. StartGuideOp(s, recalibrate, f) = AttemptStart(u, f)
  BY DEF StartGuideOp, Setup
<1> HIDE DEF t
<1>a. AutoFindAttempts \in Int BY BoundsAssumption
<1>3. u \in AppRecord BY ZenonT(60), <1>1, <1>a DEF AppRecord
<1>4. /\ u.guider = t.guider /\ u.cal = t.cal /\ u.calRun = t.calRun
      /\ u.override = FALSE /\ u.decMode = t.decMode /\ u.wantDec = t.wantDec
  BY <1>1 DEF AppRecord
<1> HIDE DEF u
<1>5. Guides(s, u)
  BY <1>1, <1>3, <1>4 DEF Guides, Blind, Stuck, Usual, SameGuide, SameDec
<1>6. Guides(u, AttemptStart(u, f)) BY <1>3, AttemptStartGuides
<1> QED BY <1>2, <1>5, <1>6, GuidesOn

\* A dither saves the mode it overrides.
LEMMA StartDitherGuides ==
  ASSUME NEW s \in AppRecord, NEW raOnly \in BOOLEAN, NEW timed \in BOOLEAN
  PROVE LET z == StartDither(s, raOnly, timed)
        IN /\ z \in AppRecord /\ (Blind(z) => Blind(s)) /\ (Stuck(z) => Stuck(s))
           /\ s.decMode = s.wantDec => Restorable(z)
<1> DEFINE b == ~raOnly /\ timed /\ s.decMode = "north"
           d == IF raOnly THEN "none" ELSE s.decMode
           t == [s EXCEPT !.override = b, !.saveDec = d]
           z == SettleBegin(t)
<1>1. b \in BOOLEAN /\ d \in DecModes BY DEF AppRecord, DecModes
<1>2. b => d = s.decMode OBVIOUS
<1>3. StartDither(s, raOnly, timed) = z BY DEF StartDither
<1> HIDE DEF b, d
<1>4. t \in AppRecord BY ZenonT(60), <1>1 DEF AppRecord
<1>5. /\ t.guider = s.guider /\ t.cal = s.cal /\ t.calRun = s.calRun
      /\ t.override = b /\ t.saveDec = d /\ t.decMode = s.decMode
      /\ t.wantDec = s.wantDec
  BY DEF AppRecord
<1> HIDE DEF t
<1>6. Guides(t, z) BY <1>4, SettleBeginGuides
<1>7. z.override = t.override /\ z.saveDec = t.saveDec /\ z.wantDec = t.wantDec
      /\ z.ctrl = "settleWait"
  BY <1>4 DEF SettleBegin, AppRecord
<1> HIDE DEF z
<1>8. (Blind(z) => Blind(s)) /\ (Stuck(z) => Stuck(s))
  BY <1>5, <1>6 DEF Guides, Blind, Stuck
<1>9. ASSUME s.decMode = s.wantDec PROVE Restorable(z)
  <2>1. CASE b BY <1>2, <1>5, <1>7, <1>9, <2>1 DEF Restorable
  <2>2. CASE ~b
    <3>1. Usual(t) BY <1>1, <1>5, <1>9, <2>2 DEF Usual
    <3> QED BY <1>6, <3>1 DEF Guides, Restorable
  <2> QED BY <2>1, <2>2
<1>10. z \in AppRecord BY <1>6 DEF Guides
<1> QED BY <1>3, <1>8, <1>9, <1>10

\* A frame that is not one of a settling finds the user's Dec mode.
LEMMA UpdateControllerStateSound ==
  ASSUME NEW s \in AppRecord, NEW f PROVE Sound(s, UpdateControllerState(s, f))
<1> DEFINE z == UpdateControllerState(s, f)
<1>1. Guides(s, CalibrationWait(s))
  <2> DEFINE u == RestoreSticky(s)
  <2>1. u \in AppRecord /\ SameGuide(s, u) BY StickySame
  <2>2. CalibrationWait(s) \in {SettleBegin(u), s} BY DEF CalibrationWait
  <2> HIDE DEF u
  <2>3. Sound(s, u) BY <2>1, SameGuideIsSound
  <2>4. Guides(u, SettleBegin(u)) BY <2>1, SettleBeginGuides
  <2>5. Guides(s, s) BY SoundItself DEF Sound
  <2> QED BY <2>2, <2>3, <2>4, <2>5, GuidesOn
<1>2. CASE s.ctrl = "settleWait"
  BY <1>2, SettleWaitSound DEF UpdateControllerState
<1>3. CASE s.ctrl # "settleWait"
  <2>1. z \in {AttemptStart(s, f), SelectStar(s, f), WaitSelected(s),
               CalibrationWait(s), SettleBegin(s), s}
    BY <1>3 DEF UpdateControllerState
  <2> HIDE DEF z
  <2>2. Guides(s, s) BY SoundItself DEF Sound
  <2>3. Guides(s, z)
    BY <1>1, <2>1, <2>2, AttemptStartGuides, SelectStarGuides, WaitSelectedGuides,
       SettleBeginGuides
  <2>4. Restorable(s) => Restorable(z)
    BY <1>3, <2>3 DEF Guides, Restorable
  <2> QED BY <2>3, <2>4 DEF Sound, z
<1> QED BY <1>2, <1>3

LEMMA FrameTakenSound ==
  ASSUME NEW s \in AppRecord, NEW f PROVE Sound(s, FrameTaken(s, f))
<1> DEFINE t == [s EXCEPT !.pending = FALSE, !.image = TRUE]
           g == UpdateGuideState(t, f, ~s.continue)
           c == UpdateControllerState(g, f)
           a == c.continue
           n == [c EXCEPT !.active = a]
<1>1. t \in AppRecord /\ SameGuide(s, t) BY DEF AppRecord, SameGuide, SameDec
<1>2. FrameTaken(s, f) \in {ScheduleExposure(n), FinishStop(n)} BY DEF FrameTaken
<1> HIDE DEF t
<1>3. Sound(t, g) /\ g \in AppRecord BY <1>1, UpdateGuideStateSound DEF Sound, Guides
<1> HIDE DEF g
<1>4. Sound(g, c) /\ c \in AppRecord
  BY <1>3, UpdateControllerStateSound DEF Sound, Guides
<1> HIDE DEF c
<1>5. n \in AppRecord /\ SameGuide(c, n)
  <2>1. a \in BOOLEAN BY <1>4 DEF AppRecord
  <2> HIDE DEF a
  <2> QED BY ZenonT(60), <1>4, <2>1 DEF AppRecord, SameGuide, SameDec
<1> HIDE DEF n
<1>6. Sound(s, t) /\ Sound(c, n) BY <1>1, <1>5, SameGuideIsSound
<1>7. Sound(n, ScheduleExposure(n))
  BY <1>5, ScheduleExposureSound, ScheduleExposureQueues, SameGuideIsSound
<1>8. Sound(n, FinishStop(n)) BY <1>5, FinishStopSound
<1> QED BY <1>2, <1>3, <1>4, <1>6, <1>7, <1>8, SoundOn

-----------------------------------------------------------------------------
(* Every step *)

\* What a step may do to each of the three, by itself
Unharmed ==
  /\ Blind(app') => Blind(app) \/ ClearCalibrationRequest
  /\ Stuck(app') => Stuck(app) \/ ClearCalibrationRequest
  /\ Restorable(app) => Restorable(app') \/ SetDecGuideMode

LEMMA SoundStep == ASSUME Sound(app, app') PROVE Unharmed
BY DEF Sound, Guides, Unharmed

\* The worker moves requests from queue to queue and may lose the camera.
LEMMA WorkerStepGuides == ASSUME IInv, WorkerStep PROVE SameGuide(app, app')
<1>1. app \in AppRecord BY DEF IInv, TypeOK
<1>2. CASE TakeMove BY <1>1, <1>2 DEF TakeMove, AppRecord, SameGuide, SameDec
<1>3. CASE TakeExposure BY <1>1, <1>3 DEF TakeExposure, AppRecord, SameGuide, SameDec
<1>4. CASE CameraHang BY <1>1, <1>4 DEF CameraHang, AppRecord, SameGuide, SameDec
<1>5. CASE FinishMove \/ FinishPulse \/ StartCapture \/ InterruptDelay
           \/ CaptureFrame \/ CaptureError
  <2>1. app' = app
    BY <1>5 DEF FinishMove, FinishPulse, StartCapture, InterruptDelay, CaptureFrame,
       CaptureError, SendExposeComplete
  <2> QED BY <2>1 DEF SameGuide, SameDec
<1> QED BY <1>2, <1>3, <1>4, <1>5 DEF WorkerStep

LEMMA ExposureEndsSound ==
  ASSUME NEW s \in AppRecord PROVE Sound(s, ExposureEnds(s))
<1> DEFINE t == [s EXCEPT !.pending = FALSE]
<1>1. t \in AppRecord /\ SameGuide(s, t) BY DEF AppRecord, SameGuide, SameDec
<1>2. ExposureEnds(s) \in {t, ExposeFailed(t)} BY DEF ExposureEnds
<1> HIDE DEF t
<1>3. Sound(s, t) /\ Sound(t, ExposeFailed(t))
  BY <1>1, SameGuideIsSound, ExposeFailedSound
<1> QED BY <1>2, <1>3, SoundOn

LEMMA MainStepSound == ASSUME IInv, MainStep PROVE Sound(app, app')
<1>1. app \in AppRecord BY DEF IInv, TypeOK
<1>2. CASE OnExposed
  <2>1. CASE app' = [app EXCEPT !.pending = FALSE]
    <3>1. app' \in AppRecord /\ SameGuide(app, app')
      BY ZenonT(60), <1>1, <2>1 DEF AppRecord, SameGuide, SameDec
    <3> QED BY <1>1, <3>1, SameGuideIsSound
  <2>2. CASE \E f \in FrameOutcomes(app) : app' = FrameTaken(app, f)
    BY <1>1, <2>2, FrameTakenSound
  <2> QED BY <1>2, <2>1, <2>2 DEF OnExposed
<1>3. CASE OnExposeError \/ OnReconnectFailed
  BY <1>1, <1>3, ExposureEndsSound DEF OnExposeError, OnReconnectFailed
<1>4. CASE OnReconnected
  <2> DEFINE t == [app EXCEPT !.camera = TRUE, !.pending = FALSE]
  <2>1. t \in AppRecord /\ SameGuide(app, t)
    BY ZenonT(60), <1>1 DEF AppRecord, SameGuide, SameDec
  <2>2. app' = ScheduleExposure(t) BY <1>4 DEF OnReconnected
  <2> HIDE DEF t
  <2>3. app' \in AppRecord /\ SameGuide(t, app')
    BY <2>1, <2>2, ScheduleExposureSound, ScheduleExposureQueues
  <2> QED BY <2>1, <2>3, SameGuideIsSound, SoundOn
<1>5. CASE OnMoveComplete BY <1>1, <1>5, MoveCompleteSound DEF OnMoveComplete
<1>6. CASE OnPulseComplete BY <1>1, <1>6, SoundItself DEF OnPulseComplete
<1> QED BY <1>2, <1>3, <1>4, <1>5, <1>6 DEF MainStep

LEMMA IdleUsual ==
  ASSUME Restorable(app), app.ctrl = "idle" PROVE Usual(app)
BY DEF Restorable

LEMMA GuideRequestUnharmed ==
  ASSUME IInv, NEW r, GuideRequest(r) PROVE Unharmed
<1> DEFINE b == (r = "recalibrate")
<1>1. app \in AppRecord /\ app.ctrl = "idle" BY DEF IInv, TypeOK, GuideRequest
<1>2. PICK f : app' = StartGuideOp(app, b, f) BY DEF GuideRequest
<1>3. b \in BOOLEAN OBVIOUS
<1> HIDE DEF b
<1>4. Guides(app, app') BY <1>1, <1>2, <1>3, StartGuideOpGuides
<1>5. Restorable(app) => Restorable(app')
  BY <1>1, <1>4, IdleUsual DEF Guides, Restorable
<1> QED BY <1>4, <1>5 DEF Guides, Unharmed

LEMMA DitherUnharmed == ASSUME IInv, Dither PROVE Unharmed
<1>1. app \in AppRecord /\ app.ctrl = "idle" BY DEF IInv, TypeOK, Dither
<1>2. PICK raOnly, timed \in BOOLEAN : app' = StartDither(app, raOnly, timed)
  BY DEF Dither
<1>3. Restorable(app) => app.decMode = app.wantDec BY <1>1, IdleUsual DEF Usual
<1>4. /\ Blind(app') => Blind(app)
      /\ Stuck(app') => Stuck(app)
      /\ app.decMode = app.wantDec => Restorable(app')
  BY <1>1, <1>2, StartDitherGuides
<1> QED BY <1>3, <1>4 DEF Unharmed

LEMMA ClientStepUnharmed == ASSUME IInv, ClientStep PROVE Unharmed
<1>1. app \in AppRecord /\ app' \in AppRecord
  BY ClientStepInv DEF IInv, TypeOK
<1>2. CASE Loop BY <1>1, <1>2, StartSound, SoundStep DEF Loop
<1>3. CASE Stop BY <1>1, <1>3, StopCapturingSound, SoundStep DEF Stop
<1>4. CASE CaptureSingleFrame
  <2> DEFINE t == ActivateSingle(app)
  <2>1. t \in AppRecord /\ SameGuide(app, t)
    BY <1>1 DEF ActivateSingle, AppRecord, SameGuide, SameDec
  <2>2. app' = StartCapturing(t) BY <1>4 DEF CaptureSingleFrame
  <2> HIDE DEF t
  <2>3. Sound(app, t) /\ Sound(t, app')
    BY <1>1, <2>1, <2>2, StartCapturingSound, SameGuideIsSound
  <2> QED BY <2>3, SoundOn, SoundStep
<1>5. ASSUME NEW r, GuideRequest(r) PROVE Unharmed BY <1>5, GuideRequestUnharmed
<1>6. CASE Dither BY <1>6, DitherUnharmed
<1>7. CASE Pause("pauseGuiding", "guiding") \/ Pause("pauseFull", "full") \/ Resume
  <2>1. PICK p \in PauseTypes : app' = SetPaused(app, p)
    BY <1>7 DEF Pause, Resume, PauseTypes
  <2> QED BY <1>1, <2>1, SetPausedSound, SameGuideIsSound, SoundStep
<1>8. CASE FindStarRequest
  BY <1>1, <1>8, AutoSelectSound, SoundStep DEF FindStarRequest
<1>9. CASE DeselectStar BY <1>1, <1>9, ResetSound, SoundStep DEF DeselectStar
<1>10. CASE SetDecGuideMode
  <2>1. PICK m \in DecModes : app' = [app EXCEPT !.decMode = m, !.wantDec = m]
    BY <1>10 DEF SetDecGuideMode
  <2>2. app'.guider = app.guider /\ app'.cal = app.cal /\ app'.calRun = app.calRun
    BY <1>1, <2>1 DEF AppRecord
  <2> QED BY <1>10, <2>2 DEF Unharmed, Blind, Stuck
<1>11. CASE ClearCalibrationRequest
  <2>1. SameDec(app, app')
    BY <1>1, <1>11 DEF ClearCalibrationRequest, ClearCalibration, AppRecord, SameDec
  <2> QED BY <1>11, <2>1 DEF Unharmed, SameDec, Restorable, Usual
<1>12. CASE GuidePulse \/ ConnectCamera \/ ConnectMount
  <2>1. SameGuide(app, app')
    BY ZenonT(60), <1>1, <1>12 DEF GuidePulse, ScheduleManualMove, ConnectCamera,
       ConnectMount, AppRecord, SameGuide, SameDec
  <2> QED BY <1>1, <2>1, SameGuideIsSound, SoundStep
<1> QED BY <1>2, <1>3, <1>4, <1>5, <1>6, <1>7, <1>8, <1>9, <1>10, <1>11, <1>12
        DEF ClientStep

LEMMA NextUnharmed == IInv /\ [Next]_vars => Unharmed
<1> SUFFICES ASSUME IInv, [Next]_vars PROVE Unharmed OBVIOUS
<1>1. app \in AppRecord /\ app' \in AppRecord BY NextInv DEF IInv, TypeOK
<1>2. CASE WorkerStep BY <1>1, <1>2, WorkerStepGuides, SameGuideIsSound, SoundStep
<1>3. CASE MainStep BY <1>3, MainStepSound, SoundStep
<1>4. CASE ClientStep BY <1>4, ClientStepUnharmed
<1>5. CASE UNCHANGED vars
  <2>1. app' = app BY <1>5 DEF vars
  <2> QED BY <2>1 DEF Unharmed
<1> QED BY <1>2, <1>3, <1>4, <1>5 DEF Next

-----------------------------------------------------------------------------
(* What clients rely on *)

\* Guiding never begins without the rates of a calibration (Mount::MoveOffset
\* divides by them), whatever is recalibrated, cleared, lost or stopped.
THEOREM GuidingIsCalibrated == Spec => GuidesCalibrated
<1> DEFINE A ==
      /\ app'.guider \in {"calibrated", "guiding"}
      /\ app.guider \notin {"calibrated", "guiding"}
      => app'.cal # "none"
<1>1. IInv /\ [Next]_vars => [A]_vars
  <2> SUFFICES ASSUME IInv, [Next]_vars, ~A PROVE FALSE OBVIOUS
  <2>1. Blind(app') /\ ~Blind(app) BY DEF Blind
  <2>2. ClearCalibrationRequest BY <2>1, NextUnharmed DEF Unharmed
  <2>3. app'.guider = app.guider
    BY <2>2 DEF ClearCalibrationRequest, ClearCalibration, IInv, TypeOK, AppRecord
  <2> QED BY <2>3
<1> QED BY <1>1, Invariance, PTL DEF Spec, GuidesCalibrated

\* A guider that calibrates finds Scope's state machine of the calibration
\* running, unless a client has cleared it (Scope::UpdateCalibrationState).
THEOREM CalibrationKeepsRunning == Spec => CalibrationRuns
<1> DEFINE A ==
      /\ app'.guider = "calibrating"
      /\ app.guider # "calibrating" \/ app'.calRun # app.calRun
      => app'.calRun # "cleared" \/ ClearCalibrationRequest
<1>1. IInv /\ [Next]_vars => [A]_vars
  <2> SUFFICES ASSUME IInv, [Next]_vars, ~A PROVE FALSE OBVIOUS
  <2>1. Stuck(app') /\ ~ClearCalibrationRequest /\ ~Stuck(app) BY DEF Stuck
  <2> QED BY <2>1, NextUnharmed DEF Unharmed
<1> QED BY <1>1, Invariance, PTL DEF Spec, CalibrationRuns

\* While nobody sets the Dec guide mode by hand, it is the user's except
\* within the settling of the dither that overrode it, and then the
\* controller holds the user's (ctrl.saveDecGuideMode).
THEOREM DecModeComesBack ==
  ASSUME "decMode" \notin Requests PROVE Spec => []DecModeRestored
<1>1. Init => Restorable(app)
  BY DEF Init, AppInit, Restorable, Usual
<1>2. IInv /\ Restorable(app) /\ [Next]_vars => Restorable(app)'
  <2> SUFFICES ASSUME IInv, Restorable(app), [Next]_vars PROVE Restorable(app')
    BY DEF Restorable, Usual
  <2>1. ~SetDecGuideMode BY DEF SetDecGuideMode, Client
  <2> QED BY <2>1, NextUnharmed DEF Unharmed
<1>3. Restorable(app) => DecModeRestored BY DEF Restorable, Usual, DecModeRestored
<1> QED BY <1>1, <1>2, <1>3, Invariance, PTL DEF Spec

-----------------------------------------------------------------------------
(* Without stops, capture, guider and controller come to rest together *)

AtRest(s) == s.guider \in {"selecting", "selected"} /\ s.ctrl = "idle"

\* Without stops and single frames, capture is active just while it is meant
\* to go on, so no frame finds the guider stopped and the controller not.
Together(s) ==
  /\ s.active => s.continue
  /\ ~s.active => AtRest(s)

LEMMA SetStopAtRest ==
  ASSUME NEW s, AtRest(s) PROVE StopGuiding(s) = s
BY DEF AtRest, StopGuiding, SetStop, CalibratingOrGuiding

LEMMA MoveCompleteAtRest ==
  ASSUME NEW s \in AppRecord, AtRest(s), NEW e PROVE AtRest(MoveComplete(s, e))
<1> DEFINE b == IsBusy(s)
           a == Assert_(s, "mount busy at completion", b)
           n == a.reqs - 1
           d == [a EXCEPT !.reqs = n]
           o == d.owed /\ IsBusy(d)
           v == [d EXCEPT !.owed = o]
           m == IF ~CalibratingOrGuiding(d) /\ ~IsBusy(d)
                THEN NotifyGuidingStopped(d) ELSE v
<1>1. a \in AppRecord /\ SameGuide(s, a)
  <2>1. b \in BOOLEAN BY DEF IsBusy, AppRecord
  <2> HIDE DEF b
  <2> QED BY <2>1, AssertSameGuide DEF Assertions
<1>2. MoveComplete(s, e) \in {StopGuiding(m), m} BY DEF MoveComplete
<1> HIDE DEF a
<1>3. d \in AppRecord /\ SameGuide(a, d)
  <2>1. n \in Int BY <1>1 DEF AppRecord
  <2> HIDE DEF n
  <2> QED BY <1>1, <2>1 DEF AppRecord, SameGuide, SameDec
<1>4. m \in {NotifyGuidingStopped(d), v} OBVIOUS
<1> HIDE DEF d, m
<1>5. AtRest(d) /\ AtRest(v) BY <1>1, <1>3 DEF AtRest, SameGuide, SameDec, AppRecord
<1> HIDE DEF v
<1>6. NotifyGuidingStopped(d).ctrl = "idle"
  <2> DEFINE c == ~IsBusy(d)
             w == Assert_(d, "mount idle at stop", c)
             q == [w EXCEPT !.toldGuiding = FALSE, !.owed = FALSE]
  <2>1. NotifyGuidingStopped(d) = AbortController(q) BY DEF NotifyGuidingStopped
  <2>2. w \in AppRecord /\ SameGuide(d, w)
    <3>1. c \in BOOLEAN BY <1>3 DEF IsBusy, AppRecord
    <3> HIDE DEF c
    <3> QED BY <1>3, <3>1, AssertSameGuide DEF Assertions
  <2> HIDE DEF w
  <2>3. q.ctrl = "idle"
    BY <1>5, <2>2 DEF AtRest, SameGuide, SameDec, AppRecord
  <2> HIDE DEF q
  <2> QED BY <2>1, <2>3 DEF AbortController
<1>7. NotifyGuidingStopped(d).guider = d.guider BY <1>3, NotifyGuidingStoppedSame
<1>8. AtRest(m) BY <1>4, <1>5, <1>6, <1>7 DEF AtRest
<1> QED BY <1>2, <1>8, SetStopAtRest

LEMMA AutoSelectAtRest ==
  ASSUME NEW s \in AppRecord, AtRest(s), NEW f PROVE AtRest(AutoSelect(s, f))
<1> DEFINE v == [s EXCEPT !.star = "valid"]
           t == IF ~s.image \/ f.sel = "none" THEN s ELSE v
           h == [f EXCEPT !.star = "found"]
           b == ~IsBusy(t)
           a == Assert_(t, "mount idle at frame", b)
           w == [a EXCEPT !.star = "valid"]
           x == [w EXCEPT !.guider = "selected"]
<1>1. v \in AppRecord /\ SameGuide(s, v)
  BY DEF AppRecord, StarStates, SameGuide, SameDec
<1>2. t \in {s, v} OBVIOUS
<1> HIDE DEF v
<1>3. t \in AppRecord /\ AtRest(t) BY <1>1, <1>2 DEF AtRest, SameGuide, SameDec
<1>4. \/ AutoSelect(s, f) = t
      \/ t.guider = "selecting" /\ AutoSelect(s, f) = FindStar(a, h)
  <2>1. \/ AutoSelect(s, f) = t
        \/ t.guider = "selecting" /\ AutoSelect(s, f) = UpdateGuideState(t, h, FALSE)
    BY DEF AutoSelect, v
  <2> HIDE DEF t, h
  <2>2. UpdateGuideState(t, h, FALSE) = FindStar(a, h) BY DEF UpdateGuideState
  <2> QED BY <2>1, <2>2
<1> HIDE DEF t, h
<1>5. a \in AppRecord /\ SameGuide(t, a)
  <2>1. b \in BOOLEAN BY <1>3 DEF IsBusy, AppRecord
  <2> HIDE DEF b
  <2> QED BY <1>3, <2>1, AssertSameGuide DEF Assertions
<1> HIDE DEF a
<1>6. w \in AppRecord /\ SameGuide(a, w)
  BY <1>5 DEF AppRecord, StarStates, SameGuide, SameDec
<1>7. ASSUME t.guider = "selecting" PROVE FindStar(a, h) \in {a, w, x}
  <2>1. a.guider = "selecting" /\ w.guider = "selecting"
    BY <1>5, <1>6, <1>7 DEF SameGuide
  <2>2. FindStar(a, h) \in {StarSeen(w, h), StarMissed(a)} BY DEF FindStar
  <2> HIDE DEF w
  <2>3. StarSeen(w, h) \in {w, x} BY <2>1 DEF StarSeen
  <2>4. StarMissed(a) = a BY <2>1 DEF StarMissed
  <2> QED BY <2>2, <2>3, <2>4
<1> HIDE DEF w
<1>8. AtRest(a) /\ AtRest(w) BY <1>3, <1>5, <1>6 DEF AtRest, SameGuide, SameDec
<1>9. AtRest(x) BY <1>6, <1>8 DEF AtRest, AppRecord
<1> QED BY <1>3, <1>4, <1>7, <1>8, <1>9

\* A guide request by a client that finds nothing at work starts capture.
LEMMA StartGuideOpActive ==
  ASSUME NEW s \in AppRecord, CanGuide(s), AtRest(s), ~s.active,
         NEW recalibrate \in BOOLEAN, NEW f
  PROVE StartGuideOp(s, recalibrate, f).active = TRUE
<1> DEFINE t == [s EXCEPT !.force = recalibrate]
           u == [t EXCEPT !.haveSave = FALSE, !.finds = AutoFindAttempts,
                          !.override = FALSE]
           y == Reset(u, TRUE)
           z == StartCapturing(y)
<1>1. t \in AppRecord BY DEF AppRecord
<1>2. /\ t.guider = s.guider /\ t.camera = s.camera /\ t.mountOn = s.mountOn
      /\ t.active = s.active
  BY DEF AppRecord
<1>3. StartGuideOp(s, recalibrate, f) = AttemptStart(u, f)
  BY DEF StartGuideOp, Setup
<1> HIDE DEF t
<1>a. AutoFindAttempts \in Int BY BoundsAssumption
<1>4. u \in AppRecord BY ZenonT(60), <1>1, <1>a DEF AppRecord
<1>5. /\ u.guider = t.guider /\ u.camera = t.camera /\ u.mountOn = t.mountOn
      /\ u.active = t.active
  BY <1>1 DEF AppRecord
<1> HIDE DEF u
<1>6. CanGuide(u) /\ ~CalibratingOrGuiding(u) /\ ~u.active
  BY <1>2, <1>5 DEF CanGuide, CalibratingOrGuiding, AtRest
<1>7. AttemptStart(u, f) = To(z, "selectStar") BY <1>6 DEF AttemptStart
<1>8. Keeps(u, y) BY <1>4, KeepsItself, ResetKeeps
<1> HIDE DEF y
<1>9. z \in AppRecord /\ z.active = TRUE
  BY <1>6, <1>8, StartCapturingSame DEF Keeps, Spares
<1> HIDE DEF z
<1> QED BY <1>3, <1>7, <1>9 DEF To, AppRecord

\* A step that starts capture at most, and rests if it does not
LEMMA TogetherStep ==
  ASSUME MInv, Together(app), Follows(app, app') \/ Spares(app, app'),
         ~app.active /\ AtRest(app) => app'.active \/ AtRest(app')
  PROVE Together(app')
<1>1. app \in AppRecord /\ Going(app) BY DEF MInv, IInv, TypeOK
<1>2. app.active \in BOOLEAN BY <1>1 DEF AppRecord
<1>3. CASE app.active
  <2>1. Spares(app, app') BY <1>3 DEF Follows
  <2> QED BY <1>3, <2>1 DEF Together, Spares
<1>4. CASE ~app.active
  <2>1. app'.active => app'.continue BY <1>1, <1>4 DEF Follows, Spares
  <2> QED BY <1>4, <2>1 DEF Together
<1> QED BY <1>2, <1>3, <1>4

LEMMA SameRest == ASSUME NEW s, NEW t, SameGuide(s, t), AtRest(s) PROVE AtRest(t)
BY DEF SameGuide, SameDec, AtRest

LEMMA WorkerStepTogether == ASSUME MInv, Together(app), WorkerStep PROVE Together(app')
<1>1. app \in AppRecord BY DEF MInv, IInv, TypeOK
<1>2. SameGuide(app, app') BY WorkerStepGuides DEF MInv
<1>3. app'.active = app.active /\ app'.continue = app.continue
  <2>1. CASE TakeMove BY <1>1, <2>1 DEF TakeMove, AppRecord
  <2>2. CASE TakeExposure BY <1>1, <2>2 DEF TakeExposure, AppRecord
  <2>3. CASE CameraHang BY <1>1, <2>3 DEF CameraHang, AppRecord
  <2>4. CASE FinishMove \/ FinishPulse \/ StartCapture \/ InterruptDelay
             \/ CaptureFrame \/ CaptureError
    BY <2>4 DEF FinishMove, FinishPulse, StartCapture, InterruptDelay, CaptureFrame,
       CaptureError, SendExposeComplete
  <2> QED BY <2>1, <2>2, <2>3, <2>4 DEF WorkerStep
<1> QED BY <1>2, <1>3, SameRest DEF Together

LEMMA OnExposedTogether == ASSUME MInv, Together(app), OnExposed PROVE Together(app')
<1>1. Receive("exposed") /\ UNCHANGED worker /\ "exposed" \in ExposureEvents
  BY DEF OnExposed, ExposureEvents
<1>2. /\ app \in AppRecord /\ Sighted(app) /\ Going(app) /\ Accounted(app, 1)
  BY <1>1, ReceivingExposure DEF MInv
<1>3. app.active = TRUE
  <2>1. app.low \in Nat /\ app.pending \in BOOLEAN /\ app.active \in BOOLEAN
    BY <1>2 DEF AppRecord
  <2> QED BY <1>2, <2>1 DEF Accounted
<1>4. CASE app' = [app EXCEPT !.pending = FALSE]
  <2>1. app'.active = app.active /\ app'.continue = app.continue
    BY <1>2, <1>4 DEF AppRecord
  <2> QED BY <1>3, <2>1 DEF Together
<1>5. ASSUME NEW f \in FrameOutcomes(app), app' = FrameTaken(app, f)
      PROVE Together(app')
  <2>1. f \in Outcome BY DEF FrameOutcomes, Outcomes
  <2>2. app'.active = app.continue /\ app'.continue = app.continue
    BY <1>2, <1>3, <1>5, <2>1, FrameTakenPushes
  <2> QED BY <1>3, <2>2 DEF Together
<1> QED BY <1>4, <1>5 DEF OnExposed

LEMMA ExposureEndsTogether ==
  ASSUME MInv, Together(app), OnExposeError \/ OnReconnectFailed
  PROVE Together(app')
<1> DEFINE t == [app EXCEPT !.pending = FALSE]
           z == ExposeFailed(t)
<1>1. app' \in {t, z} BY DEF OnExposeError, OnReconnectFailed, ExposureEnds
<1>2. app \in AppRecord BY DEF MInv, IInv, TypeOK
<1>3. /\ t \in AppRecord /\ SameGuide(app, t) /\ t.pending = FALSE
      /\ t.active = app.active /\ t.continue = app.continue
  BY <1>2 DEF AppRecord, SameGuide, SameDec
<1> HIDE DEF t
<1>4. Together(t) BY <1>3, SameRest DEF Together
<1>5. Together(z) BY <1>3, ExposeFailedStops, ExposeFailedSound DEF Together, AtRest
<1> QED BY <1>1, <1>4, <1>5

LEMMA MainStepTogether == ASSUME MInv, Together(app), MainStep PROVE Together(app')
<1>1. app \in AppRecord BY DEF MInv, IInv, TypeOK
<1>2. CASE OnReconnected
  <2> DEFINE t == [app EXCEPT !.camera = TRUE, !.pending = FALSE]
  <2>1. /\ t \in AppRecord /\ SameGuide(app, t)
        /\ t.active = app.active /\ t.continue = app.continue
    BY ZenonT(60), <1>1 DEF AppRecord, SameGuide, SameDec
  <2>2. app' = ScheduleExposure(t) BY <1>2 DEF OnReconnected
  <2> HIDE DEF t
  <2>3. /\ SameGuide(t, app') /\ app'.active = t.active /\ app'.continue = t.continue
    BY <2>1, <2>2, ScheduleExposureSound, ScheduleExposureQueues
  <2> QED BY <2>1, <2>3, SameRest DEF Together
<1>3. CASE OnMoveComplete
  <2>1. PICK e : app' = MoveComplete(app, e) BY <1>3 DEF OnMoveComplete
  <2>2. Keeps(app, app') BY <1>1, <2>1, KeepsItself, MoveCompleteKeeps
  <2>3. AtRest(app) => AtRest(app') BY <1>1, <2>1, MoveCompleteAtRest
  <2> QED BY <2>2, <2>3, TogetherStep DEF Keeps
<1>4. CASE OnPulseComplete BY <1>4 DEF OnPulseComplete
<1> QED BY <1>2, <1>3, <1>4, OnExposedTogether, ExposureEndsTogether DEF MainStep

LEMMA GuideRequestTogether ==
  ASSUME MInv, Together(app), NEW r, GuideRequest(r) PROVE Together(app')
<1> DEFINE b == (r = "recalibrate")
<1>1. app \in AppRecord /\ Sighted(app) /\ Follows(app, app) /\ CanGuide(app)
  BY FollowsItself DEF MInv, IInv, TypeOK, GuideRequest
<1>2. PICK f \in RequestOutcomes(app) : app' = StartGuideOp(app, b, f)
  BY DEF GuideRequest
<1>3. b \in BOOLEAN /\ f \in Outcome BY DEF RequestOutcomes, Outcomes
<1> HIDE DEF b
<1>4. Follows(app, app') BY <1>1, <1>2, <1>3, StartGuideOpFollows
<1>5. ~app.active /\ AtRest(app) => app'.active
  BY <1>1, <1>2, <1>3, StartGuideOpActive
<1> QED BY <1>4, <1>5, TogetherStep

LEMMA ClientStepTogether ==
  ASSUME "stop" \notin Requests, "single" \notin Requests,
         MInv, Together(app), ClientStep
  PROVE Together(app')
<1>1. app \in AppRecord /\ Sighted(app) /\ Follows(app, app) /\ Keeps(app, app)
  BY FollowsItself, KeepsItself DEF MInv, IInv, TypeOK
<1>2. CASE Loop
  <2>1. app' = StartLooping(app) BY <1>2 DEF Loop
  <2>2. Follows(app, app') BY <1>1, <2>1, StartFollows
  <2>3. ASSUME ~app.active, AtRest(app) PROVE app'.active
    <3>1. app' = StartCapturing(app)
      BY <2>1, <2>3 DEF StartLooping
    <3> QED BY <1>1, <2>3, <3>1, StartCapturingSame
  <2> QED BY <2>2, <2>3, TogetherStep
<1>3. CASE Stop \/ CaptureSingleFrame
  BY <1>3 DEF Stop, CaptureSingleFrame, Client
<1>4. ASSUME NEW r, GuideRequest(r) PROVE Together(app') BY <1>4, GuideRequestTogether
<1>5. CASE Dither
  <2>1. Follows(app, app') BY <1>1, <1>5, StartDitherFollows DEF Dither
  <2>2. ~AtRest(app) BY <1>5 DEF Dither, AtRest
  <2> QED BY <2>1, <2>2, TogetherStep
<1>6. CASE Pause("pauseGuiding", "guiding") \/ Pause("pauseFull", "full") \/ Resume
  <2>1. PICK p \in PauseTypes : app' = SetPaused(app, p)
    BY <1>6 DEF Pause, Resume, PauseTypes
  <2> DEFINE q == [app EXCEPT !.paused = p]
             t == [app EXCEPT !.paused = "none"]
  <2>2. app' \in {q, t, ScheduleExposure(t), app} BY <2>1 DEF SetPaused
  <2>3. /\ t \in AppRecord /\ t.active = app.active /\ t.continue = app.continue
        /\ q.active = app.active /\ q.continue = app.continue
    BY <1>1 DEF AppRecord, PauseTypes
  <2> HIDE DEF q, t
  <2>4. app'.active = app.active /\ app'.continue = app.continue
    BY <2>2, <2>3, ScheduleExposureQueues
  <2>5. SameGuide(app, app') BY <1>1, <2>1, SetPausedSound
  <2> QED BY <2>4, <2>5, SameRest DEF Together
<1>7. CASE FindStarRequest
  <2>1. PICK f : app' = AutoSelect(app, f) BY <1>7 DEF FindStarRequest
  <2>2. Keeps(app, app') BY <1>1, <2>1, AutoSelectKeeps
  <2>3. AtRest(app) => AtRest(app') BY <1>1, <2>1, AutoSelectAtRest
  <2> QED BY <2>2, <2>3, TogetherStep DEF Keeps
<1>8. CASE DeselectStar
  <2>1. Keeps(app, app') BY <1>1, <1>8, ResetKeeps DEF DeselectStar
  <2>2. app'.guider = "selecting" BY <1>1, <1>8, ResetSound DEF DeselectStar
  <2>3. app'.ctrl = app.ctrl
    BY <1>1, <1>8 DEF DeselectStar, Reset, SetUninitialized, InvalidateCurrentPosition,
       AppRecord
  <2> QED BY <2>1, <2>2, <2>3, TogetherStep DEF Keeps, AtRest
<1>9. CASE GuidePulse \/ SetDecGuideMode \/ ClearCalibrationRequest
           \/ ConnectCamera \/ ConnectMount
  <2>1. /\ app'.active = app.active /\ app'.continue = app.continue
        /\ app'.guider = app.guider /\ app'.ctrl = app.ctrl
    BY ZenonT(60), <1>1, <1>9 DEF GuidePulse, ScheduleManualMove, SetDecGuideMode,
       ClearCalibrationRequest, ClearCalibration, ConnectCamera, ConnectMount, AppRecord
  <2> QED BY <2>1 DEF Together, AtRest
<1> QED BY <1>2, <1>3, <1>4, <1>5, <1>6, <1>7, <1>8, <1>9 DEF ClientStep

\* While nobody stops capture or takes single frames, capture, guider and
\* controller come to rest together, after every failed exposure, reconnect
\* and late move ("put ourselves into a good state to restart looping",
\* guider.cpp:939).  A stop that meets the last frame is what breaks it.
THEOREM FailuresStopTogether ==
  ASSUME "stop" \notin Requests, "single" \notin Requests
  PROVE Spec => []StopTogether
<1>1. Init => Together(app) BY DEF Init, AppInit, Together, AtRest
<1>2. MInv /\ Together(app) /\ [Next]_vars => Together(app)'
  <2> SUFFICES ASSUME MInv, Together(app), [Next]_vars PROVE Together(app')
    BY DEF Together, AtRest
  <2>1. CASE UNCHANGED vars BY <2>1 DEF vars
  <2> QED BY <2>1, WorkerStepTogether, MainStepTogether, ClientStepTogether DEF Next
<1>3. Together(app) => StopTogether
  BY DEF Together, AtRest, StopTogether, CalibratingOrGuiding
<1> QED BY <1>1, <1>2, <1>3, MovesInvariant, PTL DEF Spec

-----------------------------------------------------------------------------
(* What clients are told of guiding.  Where nobody recalibrates, sets the  *)
(* Dec mode, clears the calibration or deselects the star, every operator  *)
(* keeps Minded.                                                           *)

\* STATE_CALIBRATED and beyond
PastCalibration(s) == s.guider \in {"calibrated", "guiding"}

\* The guider is past calibration with a calibration only, and calibrates
\* without one only; what suspends the Dec mode keeps the calibration good.
Known(s) ==
  /\ ~s.force
  /\ s.override => s.decMode # "none" /\ s.saveDec # "none"
  /\ s.toldGuiding \/ PastCalibration(s) => IsCalibrated(s)
  /\ s.guider = "calibrating" => ~IsCalibrated(s)

\* GuidingStoppedOwed, of a record
Owing(s) == s.toldGuiding /\ ~CalibratingOrGuiding(s) => s.owed /\ IsBusy(s)

\* The controller looks for a star while the guider is at rest only.
Choosing(s) ==
  s.ctrl \in {"attemptStart", "selectStar", "waitSelected"} => ~CalibratingOrGuiding(s)

Minded(s) ==
  s \in AppRecord /\ Known(s) /\ Owing(s) /\ Choosing(s)

\* The fields it is about; a move may be added.
SameMind(s, t) ==
  /\ t.guider = s.guider /\ t.cal = s.cal /\ t.decMode = s.decMode
  /\ t.override = s.override /\ t.saveDec = s.saveDec /\ t.ctrl = s.ctrl
  /\ t.force = s.force /\ t.toldGuiding = s.toldGuiding /\ t.owed = s.owed
  /\ IsBusy(s) => IsBusy(t)

LEMMA SameMinded ==
  ASSUME NEW s, Minded(s), NEW t \in AppRecord, SameMind(s, t) PROVE Minded(t)
BY DEF Minded, SameMind, Known, Owing, Choosing, PastCalibration,
       IsCalibrated, CalibratingOrGuiding

LEMMA SameMindOn ==
  ASSUME NEW r, NEW s, NEW t, SameMind(r, s), SameMind(s, t) PROVE SameMind(r, t)
BY DEF SameMind

\* The remaining fields, by those that are the same already
SameTold(s, t) ==
  t.force = s.force /\ t.toldGuiding = s.toldGuiding /\ t.owed = s.owed /\ t.reqs = s.reqs

LEMMA ToldMind ==
  ASSUME NEW s, NEW t, SameGuide(s, t), SameTold(s, t) PROVE SameMind(s, t)
BY DEF SameGuide, SameDec, SameTold, SameMind, IsBusy

LEMMA AssertMind ==
  ASSUME NEW s \in AppRecord, NEW n \in Assertions, NEW b \in BOOLEAN
  PROVE Assert_(s, n, b) \in AppRecord /\ SameMind(s, Assert_(s, n, b))
<1>1. SameTold(s, Assert_(s, n, b)) BY DEF Assert_, AppRecord, SameTold
<1> QED BY <1>1, AssertSameGuide, ToldMind

LEMMA ScheduleExposureMind ==
  ASSUME NEW s \in AppRecord
  PROVE ScheduleExposure(s) \in AppRecord /\ SameMind(s, ScheduleExposure(s))
<1> DEFINE b == ~s.pending
           a == Assert_(s, "exposure not pending", b)
           n == a.low + 1
           t == [a EXCEPT !.pending = TRUE, !.low = n, !.intStop = FALSE]
<1>1. a \in AppRecord /\ SameMind(s, a)
  <2>1. b \in BOOLEAN BY DEF AppRecord
  <2> HIDE DEF b
  <2> QED BY <2>1, AssertMind DEF Assertions
<1>2. ScheduleExposure(s) = t BY DEF ScheduleExposure
<1> HIDE DEF a
<1>3. SameMind(a, t)
  <2> HIDE DEF n
  <2> QED BY <1>1 DEF AppRecord, SameMind, IsBusy
<1> HIDE DEF t
<1> QED BY <1>1, <1>2, <1>3, ScheduleExposureQueues, SameMindOn

LEMMA ScheduleMoveMind ==
  ASSUME NEW s \in AppRecord
  PROVE ScheduleMove(s) \in AppRecord /\ SameMind(s, ScheduleMove(s))
<1> DEFINE m == s.reqs + 1
           i == [s EXCEPT !.reqs = m]
           b == m <= 2
           a == Assert_(i, "request count", b)
           h == Append(a.high, "move")
           t == [a EXCEPT !.high = h, !.intStop = FALSE]
<1>1. m \in Int /\ (s.reqs > 0 => m > 0) /\ b \in BOOLEAN BY DEF AppRecord
<1>2. i \in AppRecord /\ SameMind(s, i)
  <2> HIDE DEF m
  <2> QED BY <1>1 DEF AppRecord, SameMind, IsBusy
<1>3. ScheduleMove(s) = t BY DEF ScheduleMove, IncrementRequestCount
<1> HIDE DEF i
<1>4. a \in AppRecord /\ SameMind(i, a)
  <2> HIDE DEF b
  <2> QED BY <1>1, <1>2, AssertMind DEF Assertions
<1> HIDE DEF a
<1>5. SameMind(a, t)
  <2> HIDE DEF h
  <2> QED BY <1>4 DEF AppRecord, SameMind, IsBusy
<1> HIDE DEF t
<1> QED BY <1>2, <1>3, <1>4, <1>5, ScheduleMoveSound, SameMindOn

LEMMA StartCapturingMind ==
  ASSUME NEW s \in AppRecord
  PROVE StartCapturing(s) \in AppRecord /\ SameMind(s, StartCapturing(s))
<1> DEFINE c == s.continue \/ ~s.single
           i == [s EXCEPT !.active = TRUE, !.continue = c]
           t == StartCapturing(s)
<1>1. i \in AppRecord /\ SameMind(s, i)
  <2>1. c \in BOOLEAN BY DEF AppRecord
  <2> HIDE DEF c
  <2> QED BY ZenonT(60), <2>1 DEF AppRecord, SameMind, IsBusy
<1>2. t \in {s, ScheduleExposure(i), i} BY DEF StartCapturing
<1>3. SameMind(s, s) BY DEF SameMind
<1> HIDE DEF i, t
<1>4. SameMind(s, t) BY <1>1, <1>2, <1>3, ScheduleExposureMind, SameMindOn
<1> QED BY <1>4, StartCapturingSound DEF t

LEMMA SetPausedMind ==
  ASSUME NEW s \in AppRecord, NEW pause \in PauseTypes
  PROVE SetPaused(s, pause) \in AppRecord /\ SameMind(s, SetPaused(s, pause))
<1> DEFINE p == [s EXCEPT !.paused = pause]
           t == [s EXCEPT !.paused = "none"]
           z == SetPaused(s, pause)
<1>1. SameMind(s, p) /\ SameMind(s, s) BY DEF AppRecord, SameMind, IsBusy
<1>2. t \in AppRecord /\ SameMind(s, t)
  BY DEF AppRecord, PauseTypes, SameMind, IsBusy
<1>3. z \in {p, t, ScheduleExposure(t), s} BY DEF SetPaused
<1> HIDE DEF p, t, z
<1>4. SameMind(s, z) BY <1>1, <1>2, <1>3, ScheduleExposureMind, SameMindOn
<1> QED BY <1>4, SetPausedSound DEF z

LEMMA CompleteSingleMind ==
  ASSUME NEW s \in AppRecord
  PROVE CompleteSingle(s) \in AppRecord /\ SameMind(s, CompleteSingle(s))
<1>1. CompleteSingle(s) \in AppRecord BY KeepsItself, SingleKeeps DEF Keeps, Spares
<1>2. SameTold(s, CompleteSingle(s)) BY DEF CompleteSingle, AppRecord, SameTold
<1> QED BY <1>1, <1>2, FinishStopSound, ToldMind

-----------------------------------------------------------------------------
(* The end of a settling, and of guiding *)

\* STATE_FINISH puts back a Dec mode with which the calibration is good.
LEMMA FinishMinds ==
  ASSUME NEW s \in AppRecord, Known(s), Owing(s)
  PROVE /\ Minded(Finish(s)) /\ Minded(AbortController(s))
        /\ AbortController(s).guider = s.guider
        /\ AbortController(s).toldGuiding = s.toldGuiding
        /\ AbortController(s).ctrl = "idle"
<1> DEFINE t == Finish(s)
           d == IF s.override THEN s.saveDec ELSE s.decMode
<1>1. t \in AppRecord BY FinishSound DEF Sound, Guides
<1>2. /\ t.guider = s.guider /\ t.cal = s.cal /\ t.decMode = d /\ ~t.override
      /\ t.ctrl = "idle" /\ t.force = s.force /\ t.toldGuiding = s.toldGuiding
      /\ t.owed = s.owed /\ t.reqs = s.reqs
  <2>1. t = [s EXCEPT !.ctrl = "idle", !.override = FALSE, !.decMode = d]
    BY DEF Finish
  <2> HIDE DEF d, t
  <2> QED BY <2>1 DEF AppRecord
<1> HIDE DEF t
<1>3. IsCalibrated(t) <=> IsCalibrated(s) BY <1>2 DEF Known, IsCalibrated
<1>4. Known(t) /\ Owing(t)
  BY <1>2, <1>3 DEF Known, PastCalibration, Owing, CalibratingOrGuiding, IsBusy
<1>5. Minded(t) BY <1>1, <1>2, <1>4 DEF Minded, Choosing
<1>6. s.ctrl = "idle" => Minded(s) BY DEF Minded, Choosing
<1> QED BY <1>2, <1>5, <1>6 DEF AbortController, t

\* MyFrame::NotifyGuidingStopped, which has the controller abort
LEMMA NotifyGuidingStoppedMinds ==
  ASSUME NEW s \in AppRecord, Known(s)
  PROVE /\ Minded(NotifyGuidingStopped(s))
        /\ NotifyGuidingStopped(s).guider = s.guider
        /\ ~NotifyGuidingStopped(s).toldGuiding
        /\ NotifyGuidingStopped(s).ctrl = "idle"
<1> DEFINE b == ~IsBusy(s)
           a == Assert_(s, "mount idle at stop", b)
           n == [a EXCEPT !.toldGuiding = FALSE, !.owed = FALSE]
<1>1. a \in AppRecord /\ SameMind(s, a)
  <2>1. b \in BOOLEAN BY DEF IsBusy, AppRecord
  <2> HIDE DEF b
  <2> QED BY <2>1, AssertMind DEF Assertions
<1>2. NotifyGuidingStopped(s) = AbortController(n) BY DEF NotifyGuidingStopped
<1> HIDE DEF a
<1>3. /\ n \in AppRecord /\ ~n.toldGuiding /\ n.guider = a.guider /\ n.cal = a.cal
      /\ n.decMode = a.decMode /\ n.override = a.override /\ n.saveDec = a.saveDec
      /\ n.force = a.force
  BY ZenonT(60), <1>1 DEF AppRecord
<1> HIDE DEF n
<1>4. Known(n) /\ Owing(n)
  BY <1>1, <1>3 DEF SameMind, Known, PastCalibration, IsCalibrated, Owing
<1> QED BY <1>1, <1>2, <1>3, <1>4, FinishMinds DEF SameMind

\* STATE_UNINITIALIZED may follow on any state before the guider is past
\* calibration.
LEMMA SetUninitializedMinds ==
  ASSUME NEW s, Minded(s), ~PastCalibration(s), NEW full
  PROVE /\ Minded(SetUninitialized(s)) /\ SetUninitialized(s).guider = "selecting"
        /\ Minded(Reset(s, full)) /\ Reset(s, full).guider = "selecting"
<1> DEFINE u == SetUninitialized(s)
           t == InvalidateCurrentPosition(u, TRUE)
<1>1. s \in AppRecord BY DEF Minded
<1>2. u \in AppRecord /\ u.guider = "selecting"
  BY <1>1, SetUninitializedSound DEF Sound, Guides
<1>3. /\ u.cal = s.cal /\ u.decMode = s.decMode /\ u.override = s.override
      /\ u.saveDec = s.saveDec /\ u.ctrl = s.ctrl /\ u.force = s.force
      /\ u.toldGuiding = s.toldGuiding /\ u.owed = s.owed /\ u.reqs = s.reqs
  BY <1>1 DEF SetUninitialized, InvalidateCurrentPosition, AppRecord
<1>4. Reset(s, full) \in {t, u} BY DEF Reset
<1> HIDE DEF u
<1>5. IsCalibrated(u) <=> IsCalibrated(s) BY <1>3 DEF IsCalibrated
<1>6. Known(u) BY <1>2, <1>3, <1>5 DEF Minded, Known, PastCalibration
<1>7. Owing(u)
  BY <1>2, <1>3 DEF Minded, Known, Owing, PastCalibration, CalibratingOrGuiding, IsBusy
<1>8. Choosing(u)
  BY <1>2, <1>3, <1>5 DEF Minded, Choosing, PastCalibration,
     CalibratingOrGuiding
<1>9. Minded(u) BY <1>2, <1>6, <1>7, <1>8 DEF Minded
<1>10. t \in AppRecord BY <1>2, KeepsItself, InvalidateKeeps DEF Keeps, Spares
<1>11. SameMind(u, t)
  BY <1>2 DEF InvalidateCurrentPosition, AppRecord, SameMind, IsBusy
<1> HIDE DEF t
<1> QED BY <1>2, <1>4, <1>9, <1>10, <1>11, SameMinded DEF SameMind, u

\* STATE_STOP comes after clients were told of the end of guiding, with the
\* controller idle, or while they are owed it.
LEMMA SetStopMinds ==
  ASSUME NEW s, Minded(s),
         PastCalibration(s) => \/ ~s.toldGuiding /\ s.ctrl = "idle"
                               \/ s.owed /\ IsBusy(s)
  PROVE Minded(SetStop(s)) /\ ~CalibratingOrGuiding(SetStop(s))
<1> DEFINE t == [s EXCEPT !.guider = "selected"]
<1>1. s \in AppRecord BY DEF Minded
<1>2. CASE s.guider = "calibrating"
  <2>1. SetStop(s) = SetUninitialized(s) BY <1>2 DEF SetStop
  <2> QED BY <1>2, <2>1, SetUninitializedMinds
          DEF PastCalibration, CalibratingOrGuiding
<1>3. CASE PastCalibration(s)
  <2>1. SetStop(s) = t BY <1>3 DEF SetStop, PastCalibration
  <2>2. /\ t \in AppRecord /\ t.guider = "selected"
        /\ t.cal = s.cal /\ t.decMode = s.decMode /\ t.override = s.override
        /\ t.saveDec = s.saveDec /\ t.ctrl = s.ctrl /\ t.force = s.force
        /\ t.toldGuiding = s.toldGuiding /\ t.owed = s.owed /\ t.reqs = s.reqs
    BY <1>1 DEF AppRecord, GuiderStates
  <2> HIDE DEF t
  <2>3. IsCalibrated(t) <=> IsCalibrated(s) BY <2>2 DEF IsCalibrated
  <2>4. Known(t) BY <2>2, <2>3 DEF Minded, Known, PastCalibration
  <2>5. Owing(t) BY <1>3, <2>2 DEF Owing, IsBusy
  <2>6. Choosing(t) BY <2>2 DEF Choosing, CalibratingOrGuiding
  <2> QED BY <2>1, <2>2, <2>4, <2>5, <2>6 DEF Minded, CalibratingOrGuiding
<1>4. CASE s.guider # "calibrating" /\ ~PastCalibration(s)
  BY <1>4 DEF SetStop, PastCalibration, CalibratingOrGuiding
<1> QED BY <1>2, <1>3, <1>4

\* Guider::StopGuiding tells the clients, or owes it to them.
LEMMA StopGuidingMinds ==
  ASSUME NEW s, Minded(s)
  PROVE /\ Minded(StopGuiding(s)) /\ ~CalibratingOrGuiding(StopGuiding(s))
        /\ Minded(StopIfGuiding(s)) /\ ~CalibratingOrGuiding(StopIfGuiding(s))
<1> DEFINE n == NotifyGuidingStopped(s)
           o == [s EXCEPT !.owed = TRUE]
           z == StopGuiding(s)
<1>1. s \in AppRecord /\ Known(s) BY DEF Minded
<1>2. /\ Minded(n) /\ ~n.toldGuiding /\ n.ctrl = "idle"
  BY <1>1, NotifyGuidingStoppedMinds
<1>3. \/ CalibratingOrGuiding(s) /\ ~IsBusy(s) /\ z = SetStop(n)
      \/ CalibratingOrGuiding(s) /\ IsBusy(s) /\ z = SetStop(o)
      \/ ~CalibratingOrGuiding(s) /\ z = SetStop(s)
  BY DEF StopGuiding
<1>4. /\ o \in AppRecord /\ o.owed = TRUE /\ o.guider = s.guider /\ o.cal = s.cal
      /\ o.decMode = s.decMode /\ o.override = s.override /\ o.saveDec = s.saveDec
      /\ o.ctrl = s.ctrl /\ o.force = s.force /\ o.toldGuiding = s.toldGuiding
      /\ o.reqs = s.reqs
  BY <1>1 DEF AppRecord
<1> HIDE DEF n, o, z
<1>5. Minded(o)
  <2>1. Known(o) /\ Owing(o) /\ Choosing(o)
    BY <1>4 DEF Minded, Known, PastCalibration, IsCalibrated, Owing, Choosing,
       CalibratingOrGuiding, IsBusy
  <2> QED BY <1>4, <2>1 DEF Minded
<1>6. CASE CalibratingOrGuiding(s) /\ ~IsBusy(s) /\ z = SetStop(n)
  BY <1>2, <1>6, SetStopMinds DEF StopIfGuiding, z
<1>7. CASE CalibratingOrGuiding(s) /\ IsBusy(s) /\ z = SetStop(o)
  <2>1. IsBusy(o) BY <1>4, <1>7 DEF IsBusy
  <2> QED BY <1>4, <1>5, <1>7, <2>1, SetStopMinds DEF StopIfGuiding, z
<1>8. CASE ~CalibratingOrGuiding(s) /\ z = SetStop(s)
  <2>1. ~PastCalibration(s) BY <1>8 DEF PastCalibration, CalibratingOrGuiding
  <2> QED BY <1>8, <2>1, SetStopMinds DEF StopIfGuiding, z
<1> QED BY <1>3, <1>6, <1>7, <1>8

-----------------------------------------------------------------------------
(* Guider::UpdateGuideState *)

\* Scope::UpdateCalibrationState may store rates; the guider is still
\* calibrating then, until CalibrationFrame goes on.
LEMMA UpdateCalibrationMind ==
  ASSUME NEW s \in AppRecord, NEW f
  PROVE LET u == UpdateCalibrationState(s, f)
        IN /\ u.force = s.force /\ u.toldGuiding = s.toldGuiding /\ u.owed = s.owed
           /\ IsBusy(s) => IsBusy(u)
           /\ CalibrationFails(s, f) => u.cal = "none"
<1> DEFINE P(u) == /\ u \in AppRecord /\ u.force = s.force /\ u.owed = s.owed
                   /\ u.toldGuiding = s.toldGuiding /\ (IsBusy(s) => IsBusy(u))
           d == [s EXCEPT !.calRun = "dec"]
           ad == [s EXCEPT !.calRun = "raDone"]
           ar == [s EXCEPT !.cal = "ra"]
           full == [s EXCEPT !.cal = "full", !.calRun = "complete"]
           a == Assert_(s, "calibration running", FALSE)
           u == UpdateCalibrationState(s, f)
<1>1. P(a)
  <2>1. a \in AppRecord /\ SameMind(s, a) BY AssertMind DEF Assertions
  <2> HIDE DEF a
  <2> QED BY <2>1 DEF SameMind
<1>2. P(ad) /\ P(ar) /\ P(full) /\ P(d)
  <2>1. d \in AppRecord /\ ad \in AppRecord /\ ar \in AppRecord
    BY CalibrationFieldsSame DEF CalibrationStates, Calibrations
  <2>2. full \in AppRecord
    <3>1. "complete" \in CalibrationStates /\ "full" \in Calibrations
      BY DEF CalibrationStates, Calibrations
    <3> QED BY ZenonT(60), <3>1 DEF AppRecord
  <2>3. ASSUME NEW v \in {d, ad, ar, full}
        PROVE /\ v.force = s.force /\ v.owed = s.owed /\ v.toldGuiding = s.toldGuiding
              /\ v.reqs = s.reqs
    BY DEF AppRecord
  <2> HIDE DEF d, ad, ar, full
  <2> QED BY <2>1, <2>2, <2>3 DEF IsBusy
<1>3. \/ CalibrationFails(s, f) /\ u = ClearCalibration(s)
      \/ ~CalibrationFails(s, f) /\ u \in {a, ScheduleMove(s), ad, ScheduleMove(d), ar, full}
  <2>1. CASE CalibrationFails(s, f)
    BY <2>1 DEF UpdateCalibrationState, CalibrationFails
  <2>2. CASE ~CalibrationFails(s, f)
    BY <2>2 DEF UpdateCalibrationState, CalibrationFails
  <2> QED BY <2>1, <2>2
<1> HIDE DEF a, d, ad, ar, full, u
<1>4. ASSUME NEW v, P(v) PROVE P(ScheduleMove(v))
  <2>1. ScheduleMove(v) \in AppRecord /\ SameMind(v, ScheduleMove(v))
    BY <1>4, ScheduleMoveMind
  <2> QED BY <1>4, <2>1 DEF SameMind
<1>5. P(ScheduleMove(s)) BY <1>4
<1>6. P(ScheduleMove(d)) BY <1>2, <1>4
<1>7. CASE CalibrationFails(s, f) /\ u = ClearCalibration(s)
  <2>1. LET c == ClearCalibration(s)
        IN /\ c.force = s.force /\ c.owed = s.owed /\ c.toldGuiding = s.toldGuiding
           /\ c.reqs = s.reqs /\ c.cal = "none"
    BY DEF ClearCalibration, AppRecord
  <2> QED BY <1>7, <2>1 DEF IsBusy, u
<1>8. CASE /\ ~CalibrationFails(s, f)
           /\ u \in {a, ScheduleMove(s), ad, ScheduleMove(d), ar, full}
  BY <1>1, <1>2, <1>5, <1>6, <1>8 DEF u
<1> QED BY <1>3, <1>7, <1>8

\* Guiding begins with a calibration, with the clients told.
LEMMA BeginGuidingMinds ==
  ASSUME NEW s \in AppRecord, NEW r, Minded(r), CalibratingOrGuiding(r),
         s.guider \in {"calibrating", "calibrated"}, IsCalibrated(s),
         s.ctrl = r.ctrl, s.force = r.force, s.override = r.override,
         s.decMode = r.decMode, s.saveDec = r.saveDec
  PROVE Minded(BeginGuiding(s))
<1> DEFINE t == BeginGuiding(s)
<1>1. t \in AppRecord /\ SameDec(s, t) /\ t.guider = "guiding" /\ t.cal = s.cal
  BY BeginGuidingSame
<1>2. t.force = s.force
  BY DEF BeginGuiding, NotifyGuidingStarted, AppRecord
<1> HIDE DEF t
<1>3. IsCalibrated(t) BY <1>1 DEF IsCalibrated, SameDec
<1>4. Known(t) BY <1>1, <1>2, <1>3 DEF Minded, Known, SameDec
<1>5. Choosing(t)
  BY <1>1 DEF Minded, Choosing, SameDec, CalibratingOrGuiding
<1> QED BY <1>1, <1>4, <1>5
        DEF t, Minded, Owing, PastCalibration, CalibratingOrGuiding

LEMMA CalibrationFrameMinds ==
  ASSUME NEW s, Minded(s), s.guider = "calibrating", NEW f
  PROVE Minded(CalibrationFrame(s, f))
<1> DEFINE u == UpdateCalibrationState(s, f)
           fails == CalibrationFails(s, f)
           z == CalibrationFrame(s, f)
<1>1. s \in AppRecord /\ ~IsCalibrated(s) /\ ~s.toldGuiding /\ ~s.force
  BY DEF Minded, Known
<1>2. /\ u \in AppRecord /\ SameDec(s, u) /\ u.guider = s.guider
      /\ u.force = s.force /\ u.toldGuiding = s.toldGuiding /\ u.owed = s.owed
      /\ fails => ~IsCalibrated(u)
  BY <1>1, UpdateCalibrationSame, UpdateCalibrationMind DEF IsCalibrated
<1>3. \/ fails /\ z = SetUninitialized(u)
      \/ ~fails /\ IsCalibrated(u) /\ z = BeginGuiding(u)
      \/ ~fails /\ ~IsCalibrated(u) /\ z = u
  <2>1. z = CASE fails -> SetUninitialized(u)
              [] IsCalibrated(u) -> BeginGuiding(u)
              [] OTHER -> u
    BY <1>1 DEF CalibrationFrame
  <2> HIDE DEF u, fails, z
  <2>2. CASE fails BY <1>2, <2>1, <2>2
  <2>3. CASE ~fails /\ IsCalibrated(u) BY <2>1, <2>3
  <2>4. CASE ~fails /\ ~IsCalibrated(u) BY <2>1, <2>4
  <2> QED BY <2>2, <2>3, <2>4
<1> HIDE DEF u, fails, z
<1>4. ASSUME ~IsCalibrated(u) PROVE Minded(u)
  <2>1. Known(u)
    BY <1>1, <1>2, <1>4 DEF Minded, Known, SameDec, PastCalibration
  <2>2. Owing(u) BY <1>1, <1>2 DEF Owing
  <2>3. Choosing(u) BY <1>2 DEF Minded, Choosing, SameDec, CalibratingOrGuiding
  <2> QED BY <1>2, <2>1, <2>2, <2>3 DEF Minded
<1>5. CASE fails /\ z = SetUninitialized(u)
  <2>1. ~PastCalibration(u) BY <1>2 DEF PastCalibration
  <2> QED BY <1>2, <1>4, <1>5, <2>1, SetUninitializedMinds DEF z
<1>6. CASE IsCalibrated(u) /\ z = BeginGuiding(u)
  <2>1. CalibratingOrGuiding(s) BY DEF CalibratingOrGuiding
  <2> QED BY <1>2, <1>6, <2>1, BeginGuidingMinds DEF SameDec, z
<1>7. CASE ~IsCalibrated(u) /\ z = u BY <1>4, <1>7 DEF z
<1> QED BY <1>3, <1>5, <1>6, <1>7

LEMMA StarSeenMinds ==
  ASSUME NEW s, Minded(s), NEW f
  PROVE /\ Minded(StarSeen(s, f))
        /\ ~CalibratingOrGuiding(s) => ~CalibratingOrGuiding(StarSeen(s, f))
<1> DEFINE t == [s EXCEPT !.guider = "selected"]
<1>1. s \in AppRecord BY DEF Minded
<1>2. CASE s.guider \in {"selecting", "selected"}
  <2>1. StarSeen(s, f) \in {t, s} BY <1>2 DEF StarSeen
  <2>2. /\ t \in AppRecord /\ t.guider = "selected"
        /\ t.cal = s.cal /\ t.decMode = s.decMode /\ t.override = s.override
        /\ t.saveDec = s.saveDec /\ t.ctrl = s.ctrl /\ t.force = s.force
        /\ t.toldGuiding = s.toldGuiding /\ t.owed = s.owed /\ t.reqs = s.reqs
    BY <1>1 DEF AppRecord, GuiderStates
  <2> HIDE DEF t
  <2>3. IsCalibrated(t) <=> IsCalibrated(s) BY <2>2 DEF IsCalibrated
  <2>4. Known(t) /\ Owing(t)
    BY <1>2, <2>2, <2>3 DEF Minded, Known, PastCalibration, Owing,
       CalibratingOrGuiding, IsBusy
  <2>5. Choosing(t)
    BY <1>2, <2>2, <2>3 DEF Minded, Choosing, PastCalibration,
       CalibratingOrGuiding
  <2>6. Minded(t) /\ ~CalibratingOrGuiding(t)
    BY <2>2, <2>4, <2>5 DEF Minded, CalibratingOrGuiding
  <2> QED BY <2>1, <2>6
<1>3. CASE s.guider = "calibrating"
  <2>1. StarSeen(s, f) \in {CalibrationFrame(s, f), s} BY <1>3 DEF StarSeen
  <2> QED BY <1>3, <2>1, CalibrationFrameMinds DEF CalibratingOrGuiding
<1>4. CASE s.guider = "calibrated"
  <2>1. StarSeen(s, f) \in {BeginGuiding(s), s} BY <1>4 DEF StarSeen
  <2>2. CalibratingOrGuiding(s) /\ IsCalibrated(s)
    BY <1>4 DEF CalibratingOrGuiding, Minded, Known, PastCalibration
  <2> QED BY <1>1, <1>4, <2>1, <2>2, BeginGuidingMinds
<1>5. CASE s.guider = "guiding"
  <2>1. StarSeen(s, f) \in {ScheduleMove(s), s} BY <1>5 DEF StarSeen
  <2>2. Minded(ScheduleMove(s)) BY <1>1, ScheduleMoveMind, SameMinded
  <2> QED BY <1>5, <2>1, <2>2 DEF CalibratingOrGuiding
<1> QED BY <1>1, <1>2, <1>3, <1>4, <1>5 DEF AppRecord, GuiderStates

LEMMA StarMissedMinds ==
  ASSUME NEW s, Minded(s)
  PROVE /\ Minded(StarMissed(s))
        /\ ~CalibratingOrGuiding(s) => ~CalibratingOrGuiding(StarMissed(s))
<1>1. s \in AppRecord BY DEF Minded
<1>2. CASE s.guider = "selected"
  <2>1. StarMissed(s) = SetUninitialized(s) BY <1>2 DEF StarMissed
  <2>2. ~PastCalibration(s) BY <1>2 DEF PastCalibration
  <2> QED BY <2>1, <2>2, SetUninitializedMinds DEF CalibratingOrGuiding
<1>3. CASE s.guider = "guiding"
  <2>1. StarMissed(s) = ScheduleMove(s) BY <1>3 DEF StarMissed
  <2>2. Minded(ScheduleMove(s)) BY <1>1, ScheduleMoveMind, SameMinded
  <2> QED BY <1>3, <2>1, <2>2 DEF CalibratingOrGuiding
<1>4. CASE s.guider # "selected" /\ s.guider # "guiding"
  BY <1>4 DEF StarMissed
<1> QED BY <1>2, <1>3, <1>4

LEMMA UpdateGuideStateMinds ==
  ASSUME NEW s, Minded(s), NEW f, NEW stopping
  PROVE LET t == UpdateGuideState(s, f, stopping)
        IN Minded(t) /\ (~CalibratingOrGuiding(s) => ~CalibratingOrGuiding(t))
<1> DEFINE b == ~IsBusy(s)
           a == Assert_(s, "mount idle at frame", b)
           v == [a EXCEPT !.star = "valid"]
           z == UpdateGuideState(s, f, stopping)
<1>1. s \in AppRecord BY DEF Minded
<1>2. a \in AppRecord /\ SameMind(s, a)
  <2>1. b \in BOOLEAN BY <1>1 DEF IsBusy, AppRecord
  <2> HIDE DEF b
  <2> QED BY <1>1, <2>1, AssertMind DEF Assertions
<1>3. z \in {StopGuiding(s), StarSeen(v, f), StarMissed(a)}
  BY DEF UpdateGuideState, FindStar
<1> HIDE DEF a, z
<1>4. v \in AppRecord /\ SameMind(a, v)
  BY <1>2 DEF AppRecord, StarStates, SameMind, IsBusy
<1> HIDE DEF v
<1>5. Minded(a) /\ Minded(v) BY <1>2, <1>4, SameMinded
<1>6. a.guider = s.guider /\ v.guider = s.guider BY <1>2, <1>4 DEF SameMind
<1> QED BY <1>3, <1>5, <1>6, StopGuidingMinds, StarSeenMinds, StarMissedMinds
        DEF CalibratingOrGuiding, z

LEMMA AutoSelectMinds ==
  ASSUME NEW s, Minded(s), NEW f
  PROVE LET t == AutoSelect(s, f)
        IN Minded(t) /\ (~CalibratingOrGuiding(s) => ~CalibratingOrGuiding(t))
<1> DEFINE v == [s EXCEPT !.star = "valid"]
           t == IF ~s.image \/ f.sel = "none" THEN s ELSE v
           h == [f EXCEPT !.star = "found"]
           z == AutoSelect(s, f)
<1>1. s \in AppRecord BY DEF Minded
<1>2. z \in {t, UpdateGuideState(t, h, FALSE)} BY DEF AutoSelect
<1>3. t \in {s, v} OBVIOUS
<1>4. v \in AppRecord /\ SameMind(s, v)
  BY <1>1 DEF AppRecord, StarStates, SameMind, IsBusy
<1> HIDE DEF v, t, h, z
<1>5. Minded(t) /\ t.guider = s.guider BY <1>3, <1>4, SameMinded DEF SameMind
<1> QED BY <1>2, <1>5, UpdateGuideStateMinds DEF CalibratingOrGuiding, z

-----------------------------------------------------------------------------
(* Starting, stopping and failing *)

LEMMA StartLoopingMinds ==
  ASSUME NEW s, Minded(s) PROVE Minded(StartLooping(s))
<1> DEFINE g == StopGuiding(s)
<1>1. StartLooping(s) \in {s, StartCapturing(s), StartCapturing(g)}
  BY DEF StartLooping
<1>2. Minded(g) /\ g \in AppRecord /\ s \in AppRecord BY StopGuidingMinds DEF Minded
<1> HIDE DEF g
<1> QED BY <1>1, <1>2, StartCapturingMind, SameMinded

\* MyFrame::StartGuiding of a guider with a star: it is past calibration, or
\* calibrates, and the controller goes on to wait for just that.
LEMMA StartGuidingMinds ==
  ASSUME NEW s, Minded(s), s.guider # "selecting"
  PROVE /\ IsCalibrated(s) => Minded(To(StartGuiding(s), "settleBegin"))
        /\ ~IsCalibrated(s) => Minded(To(StartGuiding(s), "calibrationWait"))
<1> DEFINE g == StartGuider(s)
           t == StartCapturing(g)
           b == To(t, "settleBegin")
           w == To(t, "calibrationWait")
<1>1. s \in AppRecord BY DEF Minded
<1>2. g \in AppRecord /\ SameDec(s, g) BY <1>1, StartGuiderSound
<1>3. /\ IsCalibrated(s) => g.guider = "calibrated" /\ g.cal = s.cal
      /\ ~IsCalibrated(s) => g.guider \in {"calibrating", "selecting"} /\ ~IsCalibrated(g)
      /\ g.force = s.force /\ g.toldGuiding = s.toldGuiding /\ g.owed = s.owed
      /\ g.reqs = s.reqs
  <2>1. CASE IsCalibrated(s)
    <3>1. g = [s EXCEPT !.guider = "calibrated"] BY <2>1 DEF StartGuider
    <3> HIDE DEF g
    <3> QED BY <1>1, <2>1, <3>1 DEF AppRecord
  <2>2. CASE ~IsCalibrated(s)
    <3>1. g \in {BeginCalibration(s), SetUninitialized(s)} BY <2>2 DEF StartGuider
    <3>2. /\ BeginCalibration(s).guider = "calibrating"
          /\ BeginCalibration(s).cal = "none"
          /\ BeginCalibration(s).force = s.force
          /\ BeginCalibration(s).toldGuiding = s.toldGuiding
          /\ BeginCalibration(s).owed = s.owed /\ BeginCalibration(s).reqs = s.reqs
      BY <1>1 DEF BeginCalibration, ClearCalibration, AppRecord
    <3>3. LET v == SetUninitialized(s)
          IN /\ v.guider = "selecting" /\ v.cal = s.cal /\ v.decMode = s.decMode
             /\ v.force = s.force /\ v.toldGuiding = s.toldGuiding
             /\ v.owed = s.owed /\ v.reqs = s.reqs
      BY <1>1 DEF SetUninitialized, InvalidateCurrentPosition, AppRecord
    <3> HIDE DEF g
    <3> QED BY <2>2, <3>1, <3>2, <3>3 DEF IsCalibrated
  <2> QED BY <2>1, <2>2
<1> HIDE DEF g
<1>4. t \in AppRecord /\ SameMind(g, t) BY <1>2, StartCapturingMind
<1> HIDE DEF t
<1>5. ASSUME NEW u \in {b, w}
      PROVE /\ u.guider = g.guider /\ u.cal = g.cal /\ u.decMode = g.decMode
            /\ u.override = g.override /\ u.saveDec = g.saveDec /\ u.force = g.force
            /\ u.toldGuiding = g.toldGuiding /\ u.owed = g.owed
            /\ IsBusy(g) => IsBusy(u)
  BY <1>4 DEF To, AppRecord, SameMind, IsBusy
<1>6. b \in AppRecord /\ w \in AppRecord
  BY <1>4, ToGuides DEF ControllerStates, Guides
<1>7. b.ctrl = "settleBegin" /\ w.ctrl = "calibrationWait" BY <1>4 DEF To, AppRecord
<1> HIDE DEF b, w
<1>8. ASSUME NEW u \in {b, w} PROVE IsCalibrated(u) <=> IsCalibrated(g)
  BY <1>5 DEF IsCalibrated
<1>9. IsCalibrated(s) => IsCalibrated(g) BY <1>2, <1>3 DEF IsCalibrated, SameDec
<1>10. ASSUME IsCalibrated(s) PROVE Minded(b)
  <2>1. b.guider = "calibrated" BY <1>3, <1>5, <1>10
  <2>2. Known(b)
    BY <1>2, <1>3, <1>5, <1>8, <1>9, <1>10, <2>1
       DEF Minded, Known, PastCalibration, SameDec
  <2>3. Owing(b) /\ Choosing(b)
    BY <1>7, <2>1 DEF Owing, Choosing, CalibratingOrGuiding, PastCalibration
  <2> QED BY <1>6, <2>2, <2>3 DEF Minded
<1>11. ASSUME ~IsCalibrated(s) PROVE Minded(w)
  <2>1. w.guider \in {"calibrating", "selecting"} /\ ~IsCalibrated(w) /\ ~w.toldGuiding
    BY <1>3, <1>5, <1>8, <1>11 DEF Minded, Known
  <2>2. Known(w)
    BY <1>2, <1>3, <1>5, <2>1 DEF Minded, Known, PastCalibration, SameDec
  <2>3. Owing(w) /\ Choosing(w)
    BY <1>7, <2>1 DEF Owing, Choosing
  <2> QED BY <1>6, <2>2, <2>3 DEF Minded
<1>12. StartGuiding(s) = t BY DEF StartGuiding, t, g
<1> QED BY <1>10, <1>11, <1>12 DEF b, w

LEMMA FinishStopMinds ==
  ASSUME NEW s, Minded(s) PROVE Minded(FinishStop(s))
<1> DEFINE b == ~s.active
           a == Assert_(s, "capture inactive at stop", b)
           c == CompleteSingle(a)
<1>1. s \in AppRecord BY DEF Minded
<1>2. a \in AppRecord /\ SameMind(s, a)
  <2>1. b \in BOOLEAN BY <1>1 DEF AppRecord
  <2> HIDE DEF b
  <2> QED BY <1>1, <2>1, AssertMind DEF Assertions
<1>3. FinishStop(s) = AbortController(c) BY DEF FinishStop
<1> HIDE DEF a
<1>4. c \in AppRecord /\ SameMind(a, c) BY <1>2, CompleteSingleMind
<1> HIDE DEF c
<1>5. Minded(c) BY <1>2, <1>4, SameMinded
<1> QED BY <1>3, <1>5, FinishMinds DEF Minded

LEMMA StopCapturingMinds ==
  ASSUME NEW s, Minded(s) PROVE Minded(StopCapturing(s))
<1> DEFINE c == [s EXCEPT !.continue = FALSE]
           t == IF IsPaused(s) THEN SetPaused(c, "none") ELSE s
           v == [t EXCEPT !.continue = FALSE]
           w == RequestStop(v)
           x == [v EXCEPT !.active = FALSE]
           g == StopIfGuiding(x)
<1>1. s \in AppRecord BY DEF Minded
<1>2. c \in AppRecord /\ SameMind(s, c) BY <1>1 DEF AppRecord, SameMind, IsBusy
<1>3. StopCapturing(s) \in {w, FinishStop(g), t} BY DEF StopCapturing
<1>4. t \in {s, SetPaused(c, "none")} OBVIOUS
<1> HIDE DEF c, t
<1>5. Minded(t) /\ t \in AppRecord
  BY <1>2, <1>4, SameMinded, SetPausedMind DEF PauseTypes, Minded
<1>6. w \in AppRecord /\ SameMind(t, w)
  BY ZenonT(60), <1>5 DEF RequestStop, AppRecord, SameMind, IsBusy
<1>7. x \in AppRecord /\ SameMind(t, x)
  BY ZenonT(60), <1>5 DEF AppRecord, SameMind, IsBusy
<1> HIDE DEF w, x
<1>8. Minded(w) /\ Minded(g) BY <1>5, <1>6, <1>7, SameMinded, StopGuidingMinds
<1> HIDE DEF g
<1> QED BY <1>3, <1>5, <1>8, FinishStopMinds

LEMMA ExposeFailedMinds ==
  ASSUME NEW s, Minded(s) PROVE Minded(ExposeFailed(s))
<1> DEFINE q == StopCapturing(s)
           g == StopIfGuiding(q)
           c == CompleteSingle(g)
           t == SetUninitialized(c)
           a == t.continue
           u == [t EXCEPT !.active = a]
<1>1. Minded(g) /\ ~CalibratingOrGuiding(g) /\ g \in AppRecord
  BY StopCapturingMinds, StopGuidingMinds DEF Minded
<1> HIDE DEF g
<1>2. c \in AppRecord /\ SameMind(g, c) BY <1>1, CompleteSingleMind
<1> HIDE DEF c
<1>3. Minded(c) /\ ~PastCalibration(c)
  BY <1>1, <1>2, SameMinded DEF SameMind, CalibratingOrGuiding, PastCalibration
<1>4. Minded(t) /\ t \in AppRecord BY <1>3, SetUninitializedMinds DEF Minded
<1> HIDE DEF t
<1>5. u \in AppRecord /\ SameMind(t, u)
  <2>1. a \in BOOLEAN BY <1>4 DEF AppRecord
  <2> HIDE DEF a
  <2> QED BY ZenonT(60), <1>4, <2>1 DEF AppRecord, SameMind, IsBusy
<1> HIDE DEF u
<1>6. Minded(AbortController(u)) BY <1>4, <1>5, SameMinded, FinishMinds DEF Minded
<1> QED BY <1>6 DEF ExposeFailed, u, t, c, g

\* OnMoveComplete: the end of guiding that is owed is told with the last
\* move, and only a guider at rest is told of.
LEMMA MoveCompleteMinds ==
  ASSUME NEW s, Minded(s), NEW e PROVE Minded(MoveComplete(s, e))
<1> DEFINE b == IsBusy(s)
           a == Assert_(s, "mount busy at completion", b)
           n == a.reqs - 1
           d == [a EXCEPT !.reqs = n]
           o == d.owed /\ IsBusy(d)
           v == [d EXCEPT !.owed = o]
           m == IF ~CalibratingOrGuiding(d) /\ ~IsBusy(d)
                THEN NotifyGuidingStopped(d) ELSE v
<1>1. s \in AppRecord BY DEF Minded
<1>2. a \in AppRecord /\ SameMind(s, a)
  <2>1. b \in BOOLEAN BY <1>1 DEF IsBusy, AppRecord
  <2> HIDE DEF b
  <2> QED BY <1>1, <2>1, AssertMind DEF Assertions
<1>3. MoveComplete(s, e) \in {StopGuiding(m), m} BY DEF MoveComplete
<1> HIDE DEF a
<1>4. /\ d \in AppRecord /\ d.guider = a.guider /\ d.cal = a.cal
      /\ d.decMode = a.decMode /\ d.override = a.override /\ d.saveDec = a.saveDec
      /\ d.ctrl = a.ctrl /\ d.force = a.force /\ d.toldGuiding = a.toldGuiding
      /\ d.owed = a.owed
  <2>1. n \in Int BY <1>2 DEF AppRecord
  <2> HIDE DEF n
  <2> QED BY <1>2, <2>1 DEF AppRecord
<1>5. \/ ~CalibratingOrGuiding(d) /\ ~IsBusy(d) /\ m = NotifyGuidingStopped(d)
      \/ (CalibratingOrGuiding(d) \/ IsBusy(d)) /\ m = v
  OBVIOUS
<1> HIDE DEF d, m
<1>6. Minded(a) BY <1>2, SameMinded
<1>7. IsCalibrated(d) <=> IsCalibrated(a) BY <1>4 DEF IsCalibrated
<1>8. Known(d) /\ Choosing(d)
  BY <1>4, <1>6, <1>7 DEF Minded, Known, Choosing, PastCalibration,
     CalibratingOrGuiding
<1>9. ASSUME CalibratingOrGuiding(d) \/ IsBusy(d) PROVE Minded(v)
  <2>1. o \in BOOLEAN BY <1>4 DEF IsBusy, AppRecord
  <2>2. /\ v.guider = d.guider /\ v.cal = d.cal /\ v.decMode = d.decMode
        /\ v.override = d.override /\ v.saveDec = d.saveDec /\ v.ctrl = d.ctrl
        /\ v.force = d.force /\ v.toldGuiding = d.toldGuiding /\ v.reqs = d.reqs
        /\ v.owed = o /\ v \in AppRecord
    <3> HIDE DEF o
    <3> QED BY <1>4, <2>1 DEF AppRecord
  <2>a. o <=> d.owed /\ IsBusy(d) OBVIOUS
  <2> HIDE DEF v, o
  <2>3. IsCalibrated(v) <=> IsCalibrated(d) BY <2>2 DEF IsCalibrated
  <2>4. Known(v) /\ Choosing(v)
    BY <1>8, <2>2, <2>3 DEF Known, Choosing, PastCalibration, CalibratingOrGuiding
  <2>5. Owing(v)
    BY <1>4, <1>6, <1>9, <2>2, <2>a DEF Minded, Owing, CalibratingOrGuiding, IsBusy
  <2> QED BY <2>2, <2>4, <2>5 DEF Minded
<1>10. Minded(m)
  BY <1>4, <1>5, <1>8, <1>9, NotifyGuidingStoppedMinds DEF Minded
<1> QED BY <1>3, <1>10, StopGuidingMinds

-----------------------------------------------------------------------------
(* The controller's cases *)

\* A state of the controller that does not wait for the guider
LEMMA ToMinds ==
  ASSUME NEW s, Minded(s), ~CalibratingOrGuiding(s),
         NEW state \in {"attemptStart", "selectStar", "waitSelected"}
  PROVE Minded(To(s, state)) /\ ~CalibratingOrGuiding(To(s, state))
<1> DEFINE t == To(s, state)
<1>1. t \in AppRecord
  BY ToGuides DEF Minded, ControllerStates, Guides
<1>2. /\ t.guider = s.guider /\ t.cal = s.cal /\ t.decMode = s.decMode
      /\ t.override = s.override /\ t.saveDec = s.saveDec /\ t.force = s.force
      /\ t.toldGuiding = s.toldGuiding /\ t.owed = s.owed /\ t.reqs = s.reqs
      /\ t.ctrl = state
  BY DEF To, Minded, AppRecord
<1> HIDE DEF t
<1>3. IsCalibrated(t) <=> IsCalibrated(s) BY <1>2 DEF IsCalibrated
<1>4. Known(t) /\ Owing(t)
  BY <1>2, <1>3 DEF Minded, Known, PastCalibration, Owing, CalibratingOrGuiding, IsBusy
<1>5. ~CalibratingOrGuiding(t) BY <1>2 DEF CalibratingOrGuiding
<1>6. Choosing(t) BY <1>2, <1>5 DEF Choosing
<1> QED BY <1>1, <1>4, <1>5, <1>6 DEF Minded, t

LEMMA CountingMinds ==
  ASSUME NEW s, Minded(s), NEW n \in Int
  PROVE LET w == [s EXCEPT !.waits = n]
            d == [s EXCEPT !.finds = n]
        IN /\ Minded(w) /\ w.guider = s.guider /\ Minded(d) /\ d.guider = s.guider
<1>1. ASSUME NEW t \in {[s EXCEPT !.waits = n], [s EXCEPT !.finds = n]}
      PROVE Minded(t) /\ t.guider = s.guider
  <2>1. t \in AppRecord
    <3>1. s \in AppRecord BY DEF Minded
    <3>2. /\ Guides(s, [s EXCEPT !.waits = n])
          /\ Guides(s, [s EXCEPT !.finds = n])
      BY <3>1, CountdownGuides
    <3> QED BY <3>2 DEF Guides
  <2>2. SameMind(s, t) BY DEF Minded, AppRecord, SameMind, IsBusy
  <2> QED BY <2>1, <2>2, SameMinded DEF SameMind
<1> QED BY <1>1

\* A settling keeps the rates good: the mode it suspends guides in Dec.
LEMMA SettleBeginMinds ==
  ASSUME NEW s, Minded(s) PROVE Minded(SettleBegin(s))
<1> DEFINE t == SettleBegin(s)
           d == IF s.override THEN "auto" ELSE s.decMode
<1>1. t \in AppRecord
  BY CarriesItself, SettleBeginCarries DEF Minded, Carries
<1>2. /\ t.guider = s.guider /\ t.cal = s.cal /\ t.decMode = d
      /\ t.override = s.override /\ t.saveDec = s.saveDec /\ t.force = s.force
      /\ t.toldGuiding = s.toldGuiding /\ t.owed = s.owed /\ t.reqs = s.reqs
      /\ t.ctrl = "settleWait"
  <2>1. t = [s EXCEPT !.ctrl = "settleWait", !.settled = 0, !.decMode = d]
    BY DEF SettleBegin
  <2> HIDE DEF d, t
  <2> QED BY <2>1 DEF Minded, AppRecord
<1>3. d # "none" \/ d = s.decMode OBVIOUS
<1>4. ~s.override => d = s.decMode OBVIOUS
<1>5. s.override => d # "none" OBVIOUS
<1> HIDE DEF d, t
<1>6. IsCalibrated(t) <=> IsCalibrated(s)
  BY <1>2, <1>4, <1>5 DEF Minded, Known, IsCalibrated
<1>7. Known(t)
  BY <1>2, <1>4, <1>5, <1>6 DEF Minded, Known, PastCalibration
<1>8. Owing(t) BY <1>2 DEF Minded, Owing, CalibratingOrGuiding, IsBusy
<1>9. Choosing(t) BY <1>2 DEF Choosing, PastCalibration
<1> QED BY <1>1, <1>7, <1>8, <1>9 DEF Minded, t

LEMMA SettleWaitMinds ==
  ASSUME NEW s, Minded(s), NEW f PROVE Minded(SettleWait(s, f))
<1> DEFINE n == s.settled + 1
           t == [s EXCEPT !.settled = n]
<1>1. t \in AppRecord /\ SameMind(s, t)
  <2>1. n \in Nat BY DEF Minded, AppRecord
  <2> HIDE DEF n
  <2> QED BY <2>1 DEF Minded, AppRecord, SameMind, IsBusy
<1>2. SettleWait(s, f) \in {t, Finish(t)} BY DEF SettleWait
<1> HIDE DEF t
<1>3. Minded(t) BY <1>1, SameMinded
<1> QED BY <1>2, <1>3, FinishMinds DEF Minded

LEMMA StickyMinds ==
  ASSUME NEW s, Minded(s)
  PROVE LET t == StickForCalibration(s)
            u == RestoreSticky(s)
        IN Minded(t) /\ SameMind(s, t) /\ Minded(u) /\ SameMind(s, u)
<1> DEFINE t == StickForCalibration(s)
           u == RestoreSticky(s)
<1>1. t \in AppRecord /\ SameGuide(s, t) /\ u \in AppRecord /\ SameGuide(s, u)
  BY StickySame DEF Minded
<1>2. SameTold(s, t) BY DEF StickForCalibration, Minded, AppRecord, SameTold
<1>3. SameTold(s, u) BY DEF RestoreSticky, Minded, AppRecord, SameTold
<1> HIDE DEF t, u
<1>4. SameMind(s, t) /\ SameMind(s, u) BY <1>1, <1>2, <1>3, ToldMind
<1>5. Minded(t) /\ Minded(u) BY <1>1, <1>4, SameMinded
<1> QED BY <1>4, <1>5 DEF t, u

\* STATE_CALIBRATE with a guider that has a star: it guides if the
\* calibration is good, or calibrates; nothing forces a calibration.
LEMMA CalibrateMinds ==
  ASSUME NEW s, Minded(s) PROVE Minded(Calibrate(s))
<1> DEFINE u == StickForCalibration(s)
           v == RestoreSticky(u)
<1>1. ~s.force BY DEF Minded, Known
<1>2. Minded(u) /\ SameMind(s, u) BY StickyMinds
<1>3. Calibrate(s) =
        CASE IsCalibrated(s) -> Guide(s)
          [] ~IsCalibrated(s) /\ CanStartGuiding(s) ->
               To(StartGuiding(u), "calibrationWait")
          [] OTHER -> Finish(v)
  BY <1>1 DEF Calibrate
<1> HIDE DEF u
<1>4. Minded(v) BY <1>2, StickyMinds
<1> HIDE DEF v
<1>5. CASE IsCalibrated(s)
  <2>1. Calibrate(s) = Guide(s) BY <1>3, <1>5
  <2>2. Guide(s) = IF CanStartGuiding(s) THEN To(StartGuiding(s), "settleBegin")
                   ELSE Finish(s)
    BY DEF Guide
  <2>3. CanStartGuiding(s) => s.guider # "selecting" BY DEF CanStartGuiding
  <2> QED BY <1>5, <2>1, <2>2, <2>3, StartGuidingMinds, FinishMinds DEF Minded
<1>6. CASE ~IsCalibrated(s) /\ CanStartGuiding(s)
  <2>1. Calibrate(s) = To(StartGuiding(u), "calibrationWait") BY <1>3, <1>6
  <2>2. u.guider # "selecting" /\ ~IsCalibrated(u)
    BY <1>2, <1>6 DEF SameMind, IsCalibrated, CanStartGuiding
  <2> QED BY <1>2, <2>1, <2>2, StartGuidingMinds
<1>7. CASE ~IsCalibrated(s) /\ ~CanStartGuiding(s)
  <2>1. Calibrate(s) = Finish(v) BY <1>3, <1>7
  <2> QED BY <1>4, <2>1, FinishMinds DEF Minded
<1> QED BY <1>5, <1>6, <1>7

LEMMA SelectStarMinds ==
  ASSUME NEW s, Minded(s), ~CalibratingOrGuiding(s), NEW f
  PROVE Minded(SelectStar(s, f))
<1> DEFINE t == AutoSelect(s, f)
           n == t.finds - 1
           less == [t EXCEPT !.finds = n]
           x == To(t, "waitSelected")
           w == [x EXCEPT !.waits = WaitSelectedFrames]
           y == Reset(less, TRUE)
<1>1. Minded(t) /\ ~CalibratingOrGuiding(t) BY AutoSelectMinds
<1>2. SelectStar(s, f) \in {w, Finish(less), To(y, "attemptStart")}
  BY DEF SelectStar
<1> HIDE DEF t
<1>3. Minded(x) BY <1>1, ToMinds
<1> HIDE DEF x
<1>a. WaitSelectedFrames \in Int BY BoundsAssumption
<1>4. Minded(w) BY <1>3, <1>a, CountingMinds
<1>5. n \in Int BY <1>1 DEF Minded, AppRecord
<1> HIDE DEF w, n
<1>6. Minded(less) /\ less.guider = t.guider BY <1>1, <1>5, CountingMinds
<1> HIDE DEF less
<1>7. ~PastCalibration(less)
  BY <1>1, <1>6 DEF CalibratingOrGuiding, PastCalibration
<1>8. Minded(y) /\ ~CalibratingOrGuiding(y)
  BY <1>6, <1>7, SetUninitializedMinds DEF CalibratingOrGuiding
<1> HIDE DEF y
<1>9. Minded(To(y, "attemptStart")) BY <1>8, ToMinds
<1> QED BY <1>2, <1>4, <1>6, <1>9, FinishMinds DEF Minded

LEMMA WaitSelectedMinds ==
  ASSUME NEW s, Minded(s), ~CalibratingOrGuiding(s) PROVE Minded(WaitSelected(s))
<1> DEFINE n == s.waits - 1
           less == [s EXCEPT !.waits = n]
<1>1. n \in Int BY DEF Minded, AppRecord
<1>2. WaitSelected(s) \in {Calibrate(s), To(less, "attemptStart"), less}
  BY DEF WaitSelected
<1> HIDE DEF n
<1>3. Minded(less) /\ less.guider = s.guider BY <1>1, CountingMinds
<1> HIDE DEF less
<1>4. ~CalibratingOrGuiding(less) BY <1>3 DEF CalibratingOrGuiding
<1> QED BY <1>2, <1>3, <1>4, CalibrateMinds, ToMinds

LEMMA AttemptStartMinds ==
  ASSUME NEW s, Minded(s), NEW f PROVE Minded(AttemptStart(s, f))
<1> DEFINE y == Reset(s, TRUE)
           z == StartCapturing(y)
<1>1. s \in AppRecord /\ ~s.force BY DEF Minded, Known
<1>2. CASE ~CanGuide(s)
  <2>1. AttemptStart(s, f) = Finish(s) BY <1>2 DEF AttemptStart
  <2> QED BY <2>1, FinishMinds DEF Minded
<1>3. CASE CanGuide(s) /\ CalibratingOrGuiding(s)
  <2>1. CASE PastCalibration(s)
    <3>1. AttemptStart(s, f) = SettleBegin(s)
      BY <1>1, <1>3, <2>1 DEF AttemptStart, PastCalibration
    <3> QED BY <2>1, <3>1, SettleBeginMinds
  <2>2. CASE ~PastCalibration(s)
    <3> DEFINE t == To(s, "calibrationWait")
    <3>1. AttemptStart(s, f) = t
      BY <1>1, <1>3, <2>2 DEF AttemptStart, PastCalibration
    <3>2. s.guider = "calibrating"
      BY <1>3, <2>2 DEF CalibratingOrGuiding, PastCalibration
    <3>3. ~IsCalibrated(s) /\ ~s.toldGuiding BY <3>2 DEF Minded, Known
    <3>4. t \in AppRecord BY <1>1, ToGuides DEF ControllerStates, Guides
    <3>5. /\ t.guider = s.guider /\ t.cal = s.cal /\ t.decMode = s.decMode
          /\ t.override = s.override /\ t.saveDec = s.saveDec /\ t.force = s.force
          /\ t.toldGuiding = s.toldGuiding /\ t.ctrl = "calibrationWait"
      BY <1>1 DEF To, AppRecord
    <3> HIDE DEF t
    <3>6. ~IsCalibrated(t) BY <3>3, <3>5 DEF IsCalibrated
    <3>7. Known(t) BY <3>2, <3>3, <3>5, <3>6 DEF Minded, Known, PastCalibration
    <3>8. Owing(t) /\ Choosing(t)
      BY <3>3, <3>5, <3>6 DEF Owing, Choosing
    <3> QED BY <3>1, <3>4, <3>7, <3>8 DEF Minded
  <2> QED BY <2>1, <2>2
<1>4. CASE CanGuide(s) /\ ~CalibratingOrGuiding(s)
  <2>1. AttemptStart(s, f) \in
          {To(z, "selectStar"), Calibrate(s), To(s, "selectStar"), SelectStar(s, f)}
    BY <1>4 DEF AttemptStart
  <2>2. ~PastCalibration(s) BY <1>4 DEF CalibratingOrGuiding, PastCalibration
  <2>3. Minded(y) /\ y \in AppRecord /\ y.guider = "selecting"
    BY <2>2, SetUninitializedMinds DEF Minded
  <2> HIDE DEF y
  <2>4. Minded(z) /\ ~CalibratingOrGuiding(z)
    BY <2>3, StartCapturingMind, SameMinded DEF SameMind, CalibratingOrGuiding
  <2> HIDE DEF z
  <2>5. Minded(To(z, "selectStar")) /\ Minded(To(s, "selectStar"))
    BY <1>4, <2>4, ToMinds
  <2> QED BY <1>4, <2>1, <2>5, CalibrateMinds, SelectStarMinds
<1> QED BY <1>2, <1>3, <1>4

LEMMA StartGuideOpMinds ==
  ASSUME NEW s, Minded(s), NEW f PROVE Minded(StartGuideOp(s, FALSE, f))
<1> DEFINE t == [s EXCEPT !.force = FALSE]
           u == [t EXCEPT !.haveSave = FALSE, !.finds = AutoFindAttempts,
                          !.override = FALSE]
<1>1. s \in AppRecord /\ ~s.force BY DEF Minded, Known
<1>2. t \in AppRecord BY <1>1 DEF AppRecord
<1>3. StartGuideOp(s, FALSE, f) = AttemptStart(u, f)
  BY DEF StartGuideOp, Setup
<1>4. /\ t.guider = s.guider /\ t.cal = s.cal /\ t.decMode = s.decMode
      /\ t.saveDec = s.saveDec /\ t.ctrl = s.ctrl /\ ~t.force
      /\ t.toldGuiding = s.toldGuiding /\ t.owed = s.owed /\ t.reqs = s.reqs
  BY <1>1 DEF AppRecord
<1> HIDE DEF t
<1>a. AutoFindAttempts \in Int BY BoundsAssumption
<1>5. u \in AppRecord BY ZenonT(60), <1>2, <1>a DEF AppRecord
<1>6. /\ u.guider = t.guider /\ u.cal = t.cal /\ u.decMode = t.decMode
      /\ u.saveDec = t.saveDec /\ u.ctrl = t.ctrl /\ u.force = t.force /\ ~u.override
      /\ u.toldGuiding = t.toldGuiding /\ u.owed = t.owed /\ u.reqs = t.reqs
  BY <1>2 DEF AppRecord
<1> HIDE DEF u
<1>7. IsCalibrated(u) <=> IsCalibrated(s) BY <1>4, <1>6 DEF IsCalibrated
<1>8. Known(u) BY <1>4, <1>6, <1>7 DEF Minded, Known, PastCalibration
<1>9. Owing(u) /\ Choosing(u)
  BY <1>4, <1>6 DEF Minded, Owing, Choosing, CalibratingOrGuiding, IsBusy
<1> QED BY <1>3, <1>5, <1>8, <1>9, AttemptStartMinds DEF Minded

\* A dither overrides the Dec mode north, with itself to come back to.
LEMMA StartDitherMinds ==
  ASSUME NEW s, Minded(s), s.guider = "guiding",
         NEW raOnly \in BOOLEAN, NEW timed \in BOOLEAN
  PROVE Minded(StartDither(s, raOnly, timed))
<1> DEFINE b == ~raOnly /\ timed /\ s.decMode = "north"
           d == IF raOnly THEN "none" ELSE s.decMode
           t == [s EXCEPT !.override = b, !.saveDec = d]
<1>1. s \in AppRecord BY DEF Minded
<1>2. b \in BOOLEAN /\ d \in DecModes BY <1>1 DEF AppRecord, DecModes
<1>3. b => d = "north" /\ s.decMode = "north" OBVIOUS
<1>4. StartDither(s, raOnly, timed) = SettleBegin(t) BY DEF StartDither
<1> HIDE DEF b, d
<1>5. t \in AppRecord BY ZenonT(60), <1>1, <1>2 DEF AppRecord
<1>6. /\ t.guider = s.guider /\ t.cal = s.cal /\ t.decMode = s.decMode
      /\ t.saveDec = d /\ t.override = b /\ t.ctrl = s.ctrl /\ t.force = s.force
      /\ t.toldGuiding = s.toldGuiding /\ t.owed = s.owed /\ t.reqs = s.reqs
  BY <1>1 DEF AppRecord
<1> HIDE DEF t
<1>7. IsCalibrated(t) <=> IsCalibrated(s) BY <1>6 DEF IsCalibrated
<1>8. Known(t) BY <1>3, <1>6, <1>7 DEF Minded, Known, PastCalibration
<1>9. Owing(t) /\ Choosing(t)
  BY <1>6 DEF Minded, Owing, Choosing, CalibratingOrGuiding, IsBusy
<1> QED BY <1>4, <1>5, <1>8, <1>9, SettleBeginMinds DEF Minded

LEMMA UpdateControllerStateMinds ==
  ASSUME NEW s, Minded(s), NEW f PROVE Minded(UpdateControllerState(s, f))
<1> DEFINE z == UpdateControllerState(s, f)
<1>1. CASE s.ctrl \in {"selectStar", "waitSelected"}
  <2>1. ~CalibratingOrGuiding(s) BY <1>1 DEF Minded, Choosing
  <2>2. z \in {SelectStar(s, f), WaitSelected(s)} BY <1>1 DEF UpdateControllerState
  <2> QED BY <2>1, <2>2, SelectStarMinds, WaitSelectedMinds
<1>2. CASE s.ctrl = "calibrationWait"
  <2> DEFINE u == RestoreSticky(s)
  <2>1. \/ IsCalibrated(s) /\ z = SettleBegin(u)
        \/ ~IsCalibrated(s) /\ z = s
    BY <1>2 DEF UpdateControllerState, CalibrationWait
  <2>2. Minded(u) /\ SameMind(s, u) BY StickyMinds
  <2> HIDE DEF u, z
  <2>3. Minded(SettleBegin(u)) BY <2>2, SettleBeginMinds
  <2> QED BY <2>1, <2>3 DEF z
<1>3. CASE s.ctrl = "settleBegin"
  BY <1>3, SettleBeginMinds DEF UpdateControllerState
<1>4. CASE s.ctrl \notin {"selectStar", "waitSelected", "calibrationWait", "settleBegin"}
  <2>1. z \in {AttemptStart(s, f), SettleWait(s, f), s}
    BY <1>4 DEF UpdateControllerState
  <2> QED BY <2>1, AttemptStartMinds, SettleWaitMinds
<1> QED BY <1>1, <1>2, <1>3, <1>4

LEMMA FrameTakenMinds ==
  ASSUME NEW s, Minded(s), NEW f PROVE Minded(FrameTaken(s, f))
<1> DEFINE t == [s EXCEPT !.pending = FALSE, !.image = TRUE]
           g == UpdateGuideState(t, f, ~s.continue)
           c == UpdateControllerState(g, f)
           a == c.continue
           n == [c EXCEPT !.active = a]
<1>1. t \in AppRecord /\ SameMind(s, t) BY DEF Minded, AppRecord, SameMind, IsBusy
<1>2. FrameTaken(s, f) \in {ScheduleExposure(n), FinishStop(n)} BY DEF FrameTaken
<1> HIDE DEF t
<1>3. Minded(g) BY <1>1, SameMinded, UpdateGuideStateMinds
<1> HIDE DEF g
<1>4. Minded(c) /\ c \in AppRecord BY <1>3, UpdateControllerStateMinds DEF Minded
<1> HIDE DEF c
<1>5. n \in AppRecord /\ SameMind(c, n)
  <2>1. a \in BOOLEAN BY <1>4 DEF AppRecord
  <2> HIDE DEF a
  <2> QED BY ZenonT(60), <1>4, <2>1 DEF AppRecord, SameMind, IsBusy
<1> HIDE DEF n
<1>6. Minded(n) BY <1>4, <1>5, SameMinded
<1>7. Minded(ScheduleExposure(n)) BY <1>5, <1>6, ScheduleExposureMind, SameMinded
<1> QED BY <1>2, <1>6, <1>7, FinishStopMinds

-----------------------------------------------------------------------------
(* Every step *)

LEMMA WorkerStepTold == ASSUME MInv, WorkerStep PROVE SameTold(app, app')
<1>1. app \in AppRecord BY DEF MInv, IInv, TypeOK
<1>2. CASE TakeMove BY <1>1, <1>2 DEF TakeMove, AppRecord, SameTold
<1>3. CASE TakeExposure BY <1>1, <1>3 DEF TakeExposure, AppRecord, SameTold
<1>4. CASE CameraHang BY <1>1, <1>4 DEF CameraHang, AppRecord, SameTold
<1>5. CASE FinishMove \/ FinishPulse \/ StartCapture \/ InterruptDelay
           \/ CaptureFrame \/ CaptureError
  BY <1>5 DEF FinishMove, FinishPulse, StartCapture, InterruptDelay, CaptureFrame,
     CaptureError, SendExposeComplete, SameTold
<1> QED BY <1>2, <1>3, <1>4, <1>5 DEF WorkerStep

LEMMA WorkerStepMinds == ASSUME MInv, Minded(app), WorkerStep PROVE Minded(app')
<1>1. app' \in AppRecord BY NextInv DEF MInv, IInv, TypeOK, Next
<1>2. SameGuide(app, app') /\ SameTold(app, app')
  BY WorkerStepGuides, WorkerStepTold DEF MInv
<1> QED BY <1>1, <1>2, ToldMind, SameMinded

LEMMA MainStepMinds == ASSUME Minded(app), MainStep PROVE Minded(app')
<1> DEFINE p == [app EXCEPT !.pending = FALSE]
           t == [app EXCEPT !.camera = TRUE, !.pending = FALSE]
<1>1. p \in AppRecord /\ SameMind(app, p)
  BY ZenonT(60) DEF Minded, AppRecord, SameMind, IsBusy
<1>2. t \in AppRecord /\ SameMind(app, t)
  BY ZenonT(60) DEF Minded, AppRecord, SameMind, IsBusy
<1>3. OnExposed => app' = p \/ \E f : app' = FrameTaken(app, f) BY DEF OnExposed
<1>4. OnExposeError \/ OnReconnectFailed => app' \in {p, ExposeFailed(p)}
  BY DEF OnExposeError, OnReconnectFailed, ExposureEnds
<1>5. OnReconnected => app' = ScheduleExposure(t) BY DEF OnReconnected
<1> HIDE DEF p, t
<1>6. Minded(p) /\ Minded(t) BY <1>1, <1>2, SameMinded
<1>7. CASE OnExposed BY <1>3, <1>6, <1>7, FrameTakenMinds
<1>8. CASE OnExposeError \/ OnReconnectFailed BY <1>4, <1>6, <1>8, ExposeFailedMinds
<1>9. CASE OnReconnected BY <1>2, <1>5, <1>6, <1>9, ScheduleExposureMind, SameMinded
<1>10. CASE OnMoveComplete BY <1>10, MoveCompleteMinds DEF OnMoveComplete
<1>11. CASE OnPulseComplete BY <1>11 DEF OnPulseComplete
<1> QED BY <1>7, <1>8, <1>9, <1>10, <1>11 DEF MainStep

\* The requests that a client would have to leave out
CalmRequests ==
  Requests \cap {"recalibrate", "decMode", "clearCalibration", "deselect"} = {}

LEMMA ClientStepMinds ==
  ASSUME CalmRequests, MInv, Minded(app), ClientStep PROVE Minded(app')
<1>1. app \in AppRecord /\ app' \in AppRecord
  BY NextInv DEF MInv, IInv, TypeOK, Next
<1>2. CASE Loop BY <1>2, StartLoopingMinds DEF Loop
<1>3. CASE Stop BY <1>3, StopCapturingMinds DEF Stop
<1>4. CASE CaptureSingleFrame
  <2> DEFINE t == ActivateSingle(app)
  <2>1. t \in AppRecord /\ SameMind(app, t)
    BY <1>1 DEF ActivateSingle, AppRecord, SameMind, IsBusy
  <2>2. app' = StartCapturing(t) BY <1>4 DEF CaptureSingleFrame
  <2> HIDE DEF t
  <2>3. Minded(t) BY <2>1, SameMinded
  <2> QED BY <2>1, <2>2, <2>3, StartCapturingMind, SameMinded
<1>5. ASSUME NEW r \in {"guide", "recalibrate"}, GuideRequest(r) PROVE Minded(app')
  <2>1. r = "guide" BY <1>5 DEF GuideRequest, Client, CalmRequests
  <2>2. \E f : app' = StartGuideOp(app, FALSE, f) BY <1>5, <2>1 DEF GuideRequest
  <2> QED BY <2>2, StartGuideOpMinds
<1>6. CASE Dither BY <1>6, StartDitherMinds DEF Dither
<1>7. CASE Pause("pauseGuiding", "guiding") \/ Pause("pauseFull", "full") \/ Resume
  <2>1. PICK p \in PauseTypes : app' = SetPaused(app, p)
    BY <1>7 DEF Pause, Resume, PauseTypes
  <2> QED BY <1>1, <2>1, SetPausedMind, SameMinded
<1>8. CASE FindStarRequest BY <1>8, AutoSelectMinds DEF FindStarRequest
<1>9. CASE DeselectStar \/ SetDecGuideMode \/ ClearCalibrationRequest
  BY <1>9 DEF DeselectStar, SetDecGuideMode, ClearCalibrationRequest, Client,
     CalmRequests
<1>10. CASE GuidePulse \/ ConnectCamera \/ ConnectMount
  <2>1. SameMind(app, app')
    BY ZenonT(60), <1>1, <1>10 DEF GuidePulse, ScheduleManualMove, ConnectCamera,
       ConnectMount, AppRecord, SameMind, IsBusy
  <2> QED BY <1>1, <2>1, SameMinded
<1> QED BY <1>2, <1>3, <1>4, <1>5, <1>6, <1>7, <1>8, <1>9, <1>10 DEF ClientStep

LEMMA MindedInvariant == ASSUME CalmRequests PROVE Spec => []Minded(app)
<1>1. Init => Minded(app)
  <2> SUFFICES ASSUME Init PROVE Minded(app) OBVIOUS
  <2>1. app \in AppRecord BY InitMoves DEF MInv, IInv, TypeOK
  <2>2. /\ app.guider = "selecting" /\ app.ctrl = "idle" /\ ~app.force
        /\ ~app.override /\ ~app.toldGuiding
    BY DEF Init, AppInit
  <2> QED BY <2>1, <2>2
          DEF Minded, Known, Owing, Choosing, PastCalibration,
              CalibratingOrGuiding
<1>2. MInv /\ Minded(app) /\ [Next]_vars => Minded(app)'
  <2> SUFFICES ASSUME MInv, Minded(app), [Next]_vars PROVE Minded(app')
    BY DEF Minded, Known, Owing, Choosing, PastCalibration,
       CalibratingOrGuiding, IsCalibrated, IsBusy
  <2>1. CASE UNCHANGED vars BY <2>1 DEF vars
  <2> QED BY <2>1, WorkerStepMinds, MainStepMinds, ClientStepMinds DEF Next
<1> QED BY <1>1, <1>2, MovesInvariant, PTL DEF Spec

\* Once clients were told of guiding (NotifyGuidingStarted) and guiding is
\* over, they have been told so too, or a move is out whose completion will
\* tell them (OnMoveComplete).  Each of the four requests left out takes the
\* guider out of guiding, or its calibration away, without telling.
THEOREM GuidingEndsTold ==
  ASSUME CalmRequests PROVE Spec => []GuidingStoppedOwed
<1>1. Minded(app) => GuidingStoppedOwed BY DEF Minded, Owing, GuidingStoppedOwed
<1> QED BY <1>1, MindedInvariant, PTL

-----------------------------------------------------------------------------
(* What the controller waits for and settles *)

InLeg(s) == s.calRun \in {"ra", "dec"}

\* what there is to settle: the guider is past calibration, or about to go
\* past it with the rates it has, or the end of guiding is still to be told
Settles(s) ==
  \/ PastCalibration(s)
  \/ s.guider = "calibrating" /\ ~InLeg(s)
  \/ s.owed /\ ~CalibratingOrGuiding(s)

\* A controller that settles has something to; one that waits for a
\* calibration has it running, or will not get its rates.
Attends(s) ==
  /\ s \in AppRecord
  /\ InLeg(s) => s.cal = "none"
  /\ s.ctrl \in {"settleBegin", "settleWait"} => Settles(s)
  /\ s.ctrl = "calibrationWait" =>
       CalibratingOrGuiding(s) \/ s.owed \/ s.cal = "none"

\* what it is about
SameWait(s, t) ==
  /\ t.guider = s.guider /\ t.cal = s.cal /\ t.calRun = s.calRun
  /\ t.ctrl = s.ctrl /\ t.owed = s.owed

LEMMA SameAttends ==
  ASSUME NEW s, Attends(s), NEW t \in AppRecord, SameWait(s, t) PROVE Attends(t)
BY DEF Attends, Settles, SameWait, InLeg, PastCalibration, CalibratingOrGuiding

LEMMA SameWaiting ==
  ASSUME NEW s, NEW t, SameGuide(s, t), SameMind(s, t) PROVE SameWait(s, t)
BY DEF SameGuide, SameDec, SameMind, SameWait

\* A controller at the end of its work waits for nothing.
LEMMA FinishAttends ==
  ASSUME NEW s \in AppRecord, InLeg(s) => s.cal = "none"
  PROVE /\ Attends(Finish(s)) /\ Attends(AbortController(s))
        /\ AbortController(s).ctrl = "idle"
<1> DEFINE t == Finish(s)
           d == IF s.override THEN s.saveDec ELSE s.decMode
<1>1. t \in AppRecord BY FinishSound DEF Sound, Guides
<1>2. t.ctrl = "idle" /\ t.cal = s.cal /\ t.calRun = s.calRun
  <2>1. t = [s EXCEPT !.ctrl = "idle", !.override = FALSE, !.decMode = d]
    BY DEF Finish
  <2> HIDE DEF d, t
  <2> QED BY <2>1 DEF AppRecord
<1> HIDE DEF t
<1>3. Attends(t) BY <1>1, <1>2 DEF Attends, Settles, InLeg
<1>4. s.ctrl = "idle" => Attends(s) BY DEF Attends
<1> QED BY <1>2, <1>3, <1>4 DEF AbortController, t

LEMMA NotifyGuidingStoppedAttends ==
  ASSUME NEW s \in AppRecord, InLeg(s) => s.cal = "none"
  PROVE Attends(NotifyGuidingStopped(s)) /\ NotifyGuidingStopped(s).ctrl = "idle"
<1> DEFINE b == ~IsBusy(s)
           a == Assert_(s, "mount idle at stop", b)
           n == [a EXCEPT !.toldGuiding = FALSE, !.owed = FALSE]
<1>1. a \in AppRecord /\ SameGuide(s, a)
  <2>1. b \in BOOLEAN BY DEF IsBusy, AppRecord
  <2> HIDE DEF b
  <2> QED BY <2>1, AssertSameGuide DEF Assertions
<1>2. NotifyGuidingStopped(s) = AbortController(n) BY DEF NotifyGuidingStopped
<1> HIDE DEF a
<1>3. n \in AppRecord /\ n.cal = a.cal /\ n.calRun = a.calRun
  BY ZenonT(60), <1>1 DEF AppRecord
<1> HIDE DEF n
<1>4. InLeg(n) => n.cal = "none" BY <1>1, <1>3 DEF SameGuide, InLeg
<1> QED BY <1>2, <1>3, <1>4, FinishAttends

\* STATE_UNINITIALIZED, with the rest as it was
LEMMA UninitializedSame ==
  ASSUME NEW s \in AppRecord, NEW full,
         NEW t \in {SetUninitialized(s), Reset(s, full)}
  PROVE /\ t \in AppRecord /\ t.guider = "selecting" /\ t.cal = s.cal
        /\ t.calRun = s.calRun /\ t.ctrl = s.ctrl /\ t.owed = s.owed
<1> DEFINE u == SetUninitialized(s)
           v == InvalidateCurrentPosition(u, TRUE)
<1>1. u \in AppRecord /\ u.guider = "selecting"
  BY SetUninitializedSound DEF Sound, Guides
<1>2. /\ u.cal = s.cal /\ u.calRun = s.calRun /\ u.ctrl = s.ctrl
      /\ u.owed = s.owed
  BY DEF SetUninitialized, InvalidateCurrentPosition, AppRecord
<1>3. t \in {u, v}
  <2>1. Reset(s, full) \in {u, v} BY DEF Reset
  <2> HIDE DEF v
  <2> QED BY <2>1
<1> HIDE DEF u
<1>4. v \in AppRecord BY <1>1, KeepsItself, InvalidateKeeps DEF Keeps, Spares
<1>5. SameWait(u, v) BY <1>1 DEF InvalidateCurrentPosition, AppRecord, SameWait
<1> HIDE DEF v
<1>6. CASE t = u BY <1>1, <1>2, <1>6
<1>7. CASE t = v BY <1>1, <1>2, <1>4, <1>5, <1>7 DEF SameWait
<1> QED BY <1>3, <1>6, <1>7

LEMMA UninitializedAttends ==
  ASSUME NEW s, Attends(s), ~CalibratingOrGuiding(s), NEW full
  PROVE /\ Attends(SetUninitialized(s)) /\ Attends(Reset(s, full))
        /\ ~CalibratingOrGuiding(SetUninitialized(s))
        /\ ~CalibratingOrGuiding(Reset(s, full))
<1>1. ASSUME NEW t \in {SetUninitialized(s), Reset(s, full)}
      PROVE Attends(t) /\ ~CalibratingOrGuiding(t)
  <2>0. s \in AppRecord BY DEF Attends
  <2>1. /\ t \in AppRecord /\ t.guider = "selecting" /\ t.cal = s.cal
        /\ t.calRun = s.calRun /\ t.ctrl = s.ctrl /\ t.owed = s.owed
    BY <1>1, <2>0, UninitializedSame
  <2> QED BY <2>1
          DEF Attends, Settles, InLeg, PastCalibration, CalibratingOrGuiding
<1> QED BY <1>1

\* Guider::StopGuiding aborts the controller, or owes the end of guiding.
LEMMA StopGuidingAttends ==
  ASSUME NEW s, Attends(s)
  PROVE /\ Attends(StopGuiding(s)) /\ ~CalibratingOrGuiding(StopGuiding(s))
        /\ Attends(StopIfGuiding(s)) /\ ~CalibratingOrGuiding(StopIfGuiding(s))
<1> DEFINE n == NotifyGuidingStopped(s)
           o == [s EXCEPT !.owed = TRUE]
           z == StopGuiding(s)
<1>1. s \in AppRecord /\ (InLeg(s) => s.cal = "none") BY DEF Attends
<1>2. Attends(n) /\ n.ctrl = "idle" BY <1>1, NotifyGuidingStoppedAttends
<1>3. \/ z \in {SetStop(n), SetStop(o)}
      \/ ~CalibratingOrGuiding(s) /\ z = SetStop(s)
  BY DEF StopGuiding
<1>4. /\ o \in AppRecord /\ o.owed = TRUE /\ o.cal = s.cal /\ o.calRun = s.calRun
      /\ o.ctrl = s.ctrl /\ o.guider = s.guider
  BY <1>1 DEF AppRecord
<1> HIDE DEF n, o, z
<1>5. Attends(o)
  BY <1>1, <1>4 DEF Attends, Settles, InLeg, PastCalibration, CalibratingOrGuiding
<1>6. ASSUME NEW u, Attends(u), u.ctrl = "idle" \/ u.owed = TRUE
      PROVE Attends(SetStop(u)) /\ ~CalibratingOrGuiding(SetStop(u))
  <2> DEFINE t == [u EXCEPT !.guider = "selected"]
             v == SetUninitialized(u)
  <2>1. u \in AppRecord BY <1>6 DEF Attends
  <2>2. /\ t \in AppRecord /\ t.guider = "selected" /\ t.cal = u.cal
        /\ t.calRun = u.calRun /\ t.ctrl = u.ctrl /\ t.owed = u.owed
    BY <2>1 DEF AppRecord, GuiderStates
  <2>3. /\ v \in AppRecord /\ v.guider = "selecting" /\ v.cal = u.cal
        /\ v.calRun = u.calRun /\ v.ctrl = u.ctrl /\ v.owed = u.owed
    BY <2>1, UninitializedSame
  <2>4. \/ SetStop(u) \in {t, v}
        \/ SetStop(u) = u /\ ~CalibratingOrGuiding(u)
    BY DEF SetStop, CalibratingOrGuiding
  <2> HIDE DEF t, v
  <2>5. ASSUME NEW w \in {t, v} PROVE Attends(w) /\ ~CalibratingOrGuiding(w)
    BY <1>6, <2>2, <2>3 DEF Attends, Settles, InLeg, CalibratingOrGuiding
  <2> QED BY <1>6, <2>4, <2>5
<1>7. CASE z \in {SetStop(n), SetStop(o)}
  BY <1>2, <1>4, <1>5, <1>6, <1>7 DEF z, StopIfGuiding
<1>8. CASE ~CalibratingOrGuiding(s) /\ z = SetStop(s)
  <2>1. SetStop(s) = s BY <1>8 DEF SetStop, CalibratingOrGuiding
  <2> QED BY <1>8, <2>1 DEF z, StopIfGuiding
<1> QED BY <1>3, <1>7, <1>8

\* Scope::UpdateCalibrationState stores rates at the end of the legs only.
LEMMA UpdateCalibrationAttends ==
  ASSUME NEW s, Attends(s), s.guider = "calibrating", NEW f
  PROVE LET u == UpdateCalibrationState(s, f)
        IN /\ Attends(u) /\ u.guider = s.guider /\ u.ctrl = s.ctrl /\ u.owed = s.owed
           /\ CalibrationFails(s, f) => InLeg(s) /\ u.cal = "none"
<1> DEFINE d == [s EXCEPT !.calRun = "dec"]
           ad == [s EXCEPT !.calRun = "raDone"]
           ar == [s EXCEPT !.cal = "ra"]
           full == [s EXCEPT !.cal = "full", !.calRun = "complete"]
           c == ClearCalibration(s)
           a == Assert_(s, "calibration running", FALSE)
           u == UpdateCalibrationState(s, f)
<1>1. s \in AppRecord /\ (InLeg(s) => s.cal = "none") BY DEF Attends
<1>2. /\ u \in AppRecord /\ u.guider = s.guider /\ u.ctrl = s.ctrl
      /\ u.owed = s.owed /\ (CalibrationFails(s, f) => u.cal = "none")
  BY <1>1, UpdateCalibrationSame, UpdateCalibrationMind DEF SameDec
<1>3. CalibrationFails(s, f) => InLeg(s) BY DEF CalibrationFails, InLeg
<1>4. \/ u = c
      \/ u \in {a, ScheduleMove(s)}
      \/ InLeg(s) /\ u \in {ad, ScheduleMove(d)}
      \/ ~InLeg(s) /\ u = ar
      \/ u = full
  <2> DEFINE w == s.calRun
  <2>1. w \in CalibrationStates BY <1>1 DEF AppRecord
  <2>2. CASE w = "cleared" BY <2>2 DEF UpdateCalibrationState
  <2>3. CASE w \in {"ra", "dec"}
    BY <2>3 DEF UpdateCalibrationState, InLeg
  <2>4. CASE w = "raDone" BY <2>4 DEF UpdateCalibrationState, InLeg
  <2>5. CASE w = "complete" BY <2>5 DEF UpdateCalibrationState, InLeg
  <2> QED BY <2>1, <2>2, <2>3, <2>4, <2>5 DEF CalibrationStates
<1>5. d \in AppRecord /\ d.cal = s.cal /\ d.calRun = "dec"
  BY <1>1, CalibrationFieldsSame DEF CalibrationStates, AppRecord
<1>6. /\ ad.calRun = "raDone" /\ ar.calRun = s.calRun /\ full.calRun = "complete"
      /\ c.cal = "none" /\ c.calRun = "cleared"
  BY <1>1 DEF ClearCalibration, AppRecord
<1> HIDE DEF d, ad, ar, full, c
<1>7. /\ SameGuide(s, a) /\ SameGuide(s, ScheduleMove(s))
      /\ SameGuide(d, ScheduleMove(d))
  BY <1>1, <1>5, AssertSameGuide, ScheduleMoveSound DEF Assertions
<1> HIDE DEF a, u
<1>8. (InLeg(u) => u.cal = "none") /\ (InLeg(u) => InLeg(s))
  <2>1. CASE u = c BY <1>6, <2>1 DEF InLeg
  <2>2. CASE u \in {a, ScheduleMove(s)}
    BY <1>1, <1>7, <2>2 DEF SameGuide, InLeg
  <2>3. CASE InLeg(s) /\ u = ad BY <1>6, <2>3 DEF InLeg
  <2>4. CASE InLeg(s) /\ u = ScheduleMove(d)
    BY <1>1, <1>5, <1>7, <2>4 DEF SameGuide, InLeg
  <2>5. CASE ~InLeg(s) /\ u = ar BY <1>6, <2>5 DEF InLeg
  <2>6. CASE u = full BY <1>6, <2>6 DEF InLeg
  <2> QED BY <1>4, <2>1, <2>2, <2>3, <2>4, <2>5, <2>6
<1>9. Attends(u)
  BY <1>2, <1>8 DEF Attends, Settles, PastCalibration, CalibratingOrGuiding
<1> QED BY <1>2, <1>3, <1>9 DEF u

LEMMA BeginGuidingAttends ==
  ASSUME NEW s, Attends(s) PROVE Attends(BeginGuiding(s))
<1> DEFINE t == BeginGuiding(s)
<1>1. t \in AppRecord /\ t.guider = "guiding" /\ t.cal = s.cal
  BY BeginGuidingSame DEF Attends
<1>2. t.calRun = s.calRun
  BY DEF BeginGuiding, NotifyGuidingStarted, Attends, AppRecord
<1> HIDE DEF t
<1> QED BY <1>1, <1>2
        DEF t, Attends, Settles, InLeg, PastCalibration, CalibratingOrGuiding

\* A calibration fails in a leg, when nothing is being settled.
LEMMA CalibrationFrameAttends ==
  ASSUME NEW s, Attends(s), s.guider = "calibrating", NEW f
  PROVE Attends(CalibrationFrame(s, f))
<1> DEFINE v == UpdateCalibrationState(s, f)
           u == IF IsCalibrated(s) THEN s ELSE v
           fails == ~IsCalibrated(s) /\ CalibrationFails(s, f)
           z == CalibrationFrame(s, f)
<1>1. /\ Attends(v) /\ v.guider = s.guider /\ v.ctrl = s.ctrl /\ v.owed = s.owed
      /\ CalibrationFails(s, f) => InLeg(s) /\ v.cal = "none"
  BY UpdateCalibrationAttends
<1>2. Attends(u) /\ (fails => u = v) BY <1>1
<1>3. z \in {BeginGuiding(u), u} \/ (fails /\ z = SetUninitialized(u))
  BY DEF CalibrationFrame
<1> HIDE DEF u, v, z
<1>4. CASE z \in {BeginGuiding(u), u}
  BY <1>2, <1>4, BeginGuidingAttends DEF z
<1>5. CASE fails /\ z = SetUninitialized(u)
  <2>1. /\ v \in AppRecord /\ v.cal = "none" /\ InLeg(s)
        /\ v.ctrl = s.ctrl /\ v.owed = s.owed
    BY <1>1, <1>5 DEF Attends
  <2>2. s.ctrl \notin {"settleBegin", "settleWait"}
    BY <2>1 DEF Attends, Settles, PastCalibration, CalibratingOrGuiding
  <2> DEFINE w == SetUninitialized(v)
  <2>3. /\ w \in AppRecord /\ w.cal = "none" /\ w.ctrl = s.ctrl
        /\ w.owed = s.owed
    BY <2>1, UninitializedSame
  <2>4. z = w BY <1>2, <1>5
  <2> HIDE DEF w
  <2>5. Attends(w) BY <2>2, <2>3 DEF Attends
  <2> QED BY <2>4, <2>5 DEF z
<1> QED BY <1>3, <1>4, <1>5

LEMMA StarSeenAttends ==
  ASSUME NEW s, Attends(s), NEW f
  PROVE /\ Attends(StarSeen(s, f))
        /\ ~CalibratingOrGuiding(s) => ~CalibratingOrGuiding(StarSeen(s, f))
<1> DEFINE t == [s EXCEPT !.guider = "selected"]
<1>1. s \in AppRecord BY DEF Attends
<1>2. CASE s.guider \in {"selecting", "selected"}
  <2>1. StarSeen(s, f) \in {t, s} BY <1>2 DEF StarSeen
  <2>2. /\ t \in AppRecord /\ t.guider = "selected" /\ t.cal = s.cal
        /\ t.calRun = s.calRun /\ t.ctrl = s.ctrl /\ t.owed = s.owed
    BY <1>1 DEF AppRecord, GuiderStates
  <2> HIDE DEF t
  <2>3. Attends(t) /\ ~CalibratingOrGuiding(t)
    BY <1>2, <2>2 DEF Attends, Settles, InLeg, PastCalibration, CalibratingOrGuiding
  <2> QED BY <2>1, <2>3
<1>3. CASE s.guider = "calibrating"
  <2>1. StarSeen(s, f) \in {CalibrationFrame(s, f), s} BY <1>3 DEF StarSeen
  <2> QED BY <1>3, <2>1, CalibrationFrameAttends DEF CalibratingOrGuiding
<1>4. CASE s.guider \in {"calibrated", "guiding"}
  <2>1. StarSeen(s, f) \in {BeginGuiding(s), ScheduleMove(s), s}
    BY <1>4 DEF StarSeen
  <2>2. Attends(ScheduleMove(s))
    BY <1>1, ScheduleMoveSound, ScheduleMoveMind, SameWaiting, SameAttends
  <2> QED BY <1>4, <2>1, <2>2, BeginGuidingAttends DEF CalibratingOrGuiding
<1> QED BY <1>1, <1>2, <1>3, <1>4 DEF AppRecord, GuiderStates

LEMMA StarMissedAttends ==
  ASSUME NEW s, Attends(s)
  PROVE /\ Attends(StarMissed(s))
        /\ ~CalibratingOrGuiding(s) => ~CalibratingOrGuiding(StarMissed(s))
<1>1. CASE s.guider = "selected"
  <2>1. StarMissed(s) = SetUninitialized(s) BY <1>1 DEF StarMissed
  <2>2. ~CalibratingOrGuiding(s) BY <1>1 DEF CalibratingOrGuiding
  <2> QED BY <2>1, <2>2, UninitializedAttends
<1>2. CASE s.guider = "guiding"
  <2>1. StarMissed(s) = ScheduleMove(s) BY <1>2 DEF StarMissed
  <2>2. Attends(ScheduleMove(s))
    BY ScheduleMoveSound, ScheduleMoveMind, SameWaiting, SameAttends DEF Attends
  <2> QED BY <1>2, <2>1, <2>2 DEF CalibratingOrGuiding
<1>3. CASE s.guider \notin {"selected", "guiding"}
  BY <1>3 DEF StarMissed
<1> QED BY <1>1, <1>2, <1>3

LEMMA UpdateGuideStateAttends ==
  ASSUME NEW s, Attends(s), NEW f, NEW stopping
  PROVE LET t == UpdateGuideState(s, f, stopping)
        IN Attends(t) /\ (~CalibratingOrGuiding(s) => ~CalibratingOrGuiding(t))
<1> DEFINE b == ~IsBusy(s)
           a == Assert_(s, "mount idle at frame", b)
           v == [a EXCEPT !.star = "valid"]
           z == UpdateGuideState(s, f, stopping)
<1>1. a \in AppRecord /\ SameWait(s, a)
  <2>1. b \in BOOLEAN /\ s \in AppRecord BY DEF Attends, IsBusy, AppRecord
  <2> HIDE DEF b
  <2> QED BY <2>1, AssertSameGuide, AssertMind, SameWaiting DEF Assertions
<1>2. z \in {StopGuiding(s), StarSeen(v, f), StarMissed(a)}
  BY DEF UpdateGuideState, FindStar
<1> HIDE DEF a, z
<1>3. v \in AppRecord /\ SameWait(a, v)
  BY <1>1 DEF AppRecord, StarStates, SameWait
<1> HIDE DEF v
<1>4. Attends(a) /\ Attends(v) BY <1>1, <1>3, SameAttends
<1>5. a.guider = s.guider /\ v.guider = s.guider BY <1>1, <1>3 DEF SameWait
<1> QED BY <1>2, <1>4, <1>5, StopGuidingAttends, StarSeenAttends, StarMissedAttends
        DEF CalibratingOrGuiding, z

LEMMA AutoSelectAttends ==
  ASSUME NEW s, Attends(s), NEW f
  PROVE LET t == AutoSelect(s, f)
        IN Attends(t) /\ (~CalibratingOrGuiding(s) => ~CalibratingOrGuiding(t))
<1> DEFINE v == [s EXCEPT !.star = "valid"]
           t == IF ~s.image \/ f.sel = "none" THEN s ELSE v
           h == [f EXCEPT !.star = "found"]
           z == AutoSelect(s, f)
<1>1. z \in {t, UpdateGuideState(t, h, FALSE)} BY DEF AutoSelect
<1>2. t \in {s, v} OBVIOUS
<1>3. v \in AppRecord /\ SameWait(s, v)
  BY DEF Attends, AppRecord, StarStates, SameWait
<1> HIDE DEF v, t, h, z
<1>4. Attends(t) /\ t.guider = s.guider BY <1>2, <1>3, SameAttends DEF SameWait
<1> QED BY <1>1, <1>4, UpdateGuideStateAttends DEF CalibratingOrGuiding, z

LEMMA StartLoopingAttends ==
  ASSUME NEW s, Attends(s) PROVE Attends(StartLooping(s))
<1> DEFINE g == StopGuiding(s)
<1>1. StartLooping(s) \in {s, StartCapturing(s), StartCapturing(g)}
  BY DEF StartLooping
<1>2. Attends(g) BY StopGuidingAttends
<1> HIDE DEF g
<1>3. ASSUME NEW t, Attends(t) PROVE Attends(StartCapturing(t))
  BY <1>3, StartCapturingSound, StartCapturingMind, SameWaiting, SameAttends DEF Attends
<1> QED BY <1>1, <1>2, <1>3

LEMMA FinishStopAttends ==
  ASSUME NEW s, Attends(s) PROVE Attends(FinishStop(s))
<1> DEFINE b == ~s.active
           a == Assert_(s, "capture inactive at stop", b)
           c == CompleteSingle(a)
<1>1. a \in AppRecord /\ SameWait(s, a)
  <2>1. b \in BOOLEAN /\ s \in AppRecord BY DEF Attends, AppRecord
  <2> HIDE DEF b
  <2> QED BY <2>1, AssertSameGuide, AssertMind, SameWaiting DEF Assertions
<1>2. FinishStop(s) = AbortController(c) BY DEF FinishStop
<1> HIDE DEF a
<1>3. c \in AppRecord /\ SameWait(a, c)
  BY <1>1, CompleteSingleMind, FinishStopSound, SameWaiting
<1> HIDE DEF c
<1>4. Attends(c) BY <1>1, <1>3, SameAttends
<1> QED BY <1>2, <1>4, FinishAttends DEF Attends

LEMMA StopCapturingAttends ==
  ASSUME NEW s, Attends(s) PROVE Attends(StopCapturing(s))
<1> DEFINE c == [s EXCEPT !.continue = FALSE]
           t == IF IsPaused(s) THEN SetPaused(c, "none") ELSE s
           v == [t EXCEPT !.continue = FALSE]
           w == RequestStop(v)
           x == [v EXCEPT !.active = FALSE]
           g == StopIfGuiding(x)
<1>1. s \in AppRecord BY DEF Attends
<1>2. c \in AppRecord /\ SameWait(s, c) BY <1>1 DEF AppRecord, SameWait
<1>3. StopCapturing(s) \in {w, FinishStop(g), t} BY DEF StopCapturing
<1>4. t \in {s, SetPaused(c, "none")} OBVIOUS
<1> HIDE DEF c, t
<1>5. SetPaused(c, "none") \in AppRecord /\ SameWait(c, SetPaused(c, "none"))
  BY <1>2, SetPausedSound, SetPausedMind, SameWaiting DEF PauseTypes
<1>6. Attends(t) /\ t \in AppRecord BY <1>2, <1>4, <1>5, SameAttends DEF Attends
<1>7. w \in AppRecord /\ SameWait(t, w)
  BY ZenonT(60), <1>6 DEF RequestStop, AppRecord, SameWait
<1>8. x \in AppRecord /\ SameWait(t, x)
  BY ZenonT(60), <1>6 DEF AppRecord, SameWait
<1> HIDE DEF w, x
<1>9. Attends(w) /\ Attends(g) BY <1>6, <1>7, <1>8, SameAttends, StopGuidingAttends
<1> HIDE DEF g
<1> QED BY <1>3, <1>6, <1>9, FinishStopAttends

LEMMA ExposeFailedAttends ==
  ASSUME NEW s, Attends(s) PROVE Attends(ExposeFailed(s))
<1> DEFINE q == StopCapturing(s)
           g == StopIfGuiding(q)
           c == CompleteSingle(g)
           t == SetUninitialized(c)
           a == t.continue
           u == [t EXCEPT !.active = a]
<1>1. Attends(g) /\ ~CalibratingOrGuiding(g) /\ g \in AppRecord
  BY StopCapturingAttends, StopGuidingAttends DEF Attends
<1> HIDE DEF g
<1>2. c \in AppRecord /\ SameWait(g, c)
  BY <1>1, CompleteSingleMind, FinishStopSound, SameWaiting
<1> HIDE DEF c
<1>3. Attends(c) /\ ~CalibratingOrGuiding(c)
  BY <1>1, <1>2, SameAttends DEF SameWait, CalibratingOrGuiding
<1>4. Attends(t) /\ t \in AppRecord BY <1>3, UninitializedAttends DEF Attends
<1> HIDE DEF t
<1>5. u \in AppRecord /\ SameWait(t, u)
  <2>1. a \in BOOLEAN BY <1>4 DEF AppRecord
  <2> HIDE DEF a
  <2> QED BY ZenonT(60), <1>4, <2>1 DEF AppRecord, SameWait
<1> HIDE DEF u
<1>6. Attends(AbortController(u)) BY <1>4, <1>5, SameAttends, FinishAttends DEF Attends
<1> QED BY <1>6 DEF ExposeFailed, u, t, c, g

LEMMA MoveCompleteAttends ==
  ASSUME NEW s, Attends(s), NEW e PROVE Attends(MoveComplete(s, e))
<1> DEFINE b == IsBusy(s)
           a == Assert_(s, "mount busy at completion", b)
           n == a.reqs - 1
           d == [a EXCEPT !.reqs = n]
           o == d.owed /\ IsBusy(d)
           v == [d EXCEPT !.owed = o]
           m == IF ~CalibratingOrGuiding(d) /\ ~IsBusy(d)
                THEN NotifyGuidingStopped(d) ELSE v
<1>1. a \in AppRecord /\ SameWait(s, a)
  <2>1. b \in BOOLEAN /\ s \in AppRecord BY DEF Attends, IsBusy, AppRecord
  <2> HIDE DEF b
  <2> QED BY <2>1, AssertSameGuide, AssertMind, SameWaiting DEF Assertions
<1>2. MoveComplete(s, e) \in {StopGuiding(m), m} BY DEF MoveComplete
<1> HIDE DEF a
<1>3. d \in AppRecord /\ SameWait(a, d)
  <2>1. n \in Int BY <1>1 DEF AppRecord
  <2> HIDE DEF n
  <2> QED BY <1>1, <2>1 DEF AppRecord, SameWait
<1>4. m = NotifyGuidingStopped(d) \/ (m = v /\ (CalibratingOrGuiding(d) \/ IsBusy(d)))
  OBVIOUS
<1> HIDE DEF d, m
<1>5. Attends(d) BY <1>1, <1>3, SameAttends
<1>v. ASSUME CalibratingOrGuiding(d) \/ IsBusy(d) PROVE Attends(v)
  <2>1. o \in BOOLEAN BY <1>3 DEF IsBusy, AppRecord
  <2>2. /\ v \in AppRecord /\ v.guider = d.guider /\ v.cal = d.cal
        /\ v.calRun = d.calRun /\ v.ctrl = d.ctrl /\ v.owed = o
    <3> HIDE DEF o
    <3> QED BY <1>3, <2>1 DEF AppRecord
  <2> HIDE DEF v
  <2> QED BY <1>v, <1>5, <2>2
          DEF Attends, Settles, InLeg, PastCalibration, CalibratingOrGuiding
<1>6. Attends(m) BY <1>4, <1>5, <1>v, NotifyGuidingStoppedAttends DEF Attends
<1> QED BY <1>2, <1>6, StopGuidingAttends

\* A controller that goes elsewhere, or counts
LEMMA ToAttends ==
  ASSUME NEW s, Attends(s),
         NEW state \in {"attemptStart", "selectStar", "waitSelected"}
  PROVE Attends(To(s, state))
<1> DEFINE t == To(s, state)
<1>1. s \in AppRecord BY DEF Attends
<1>2. t \in AppRecord BY <1>1, ToGuides DEF ControllerStates, Guides
<1>3. t.cal = s.cal /\ t.calRun = s.calRun /\ t.ctrl = state
  BY <1>1 DEF To, AppRecord
<1> HIDE DEF t
<1>4. Attends(t) BY <1>2, <1>3 DEF Attends, Settles, InLeg
<1> QED BY <1>4 DEF t

LEMMA CountingAttends ==
  ASSUME NEW s, Attends(s), NEW n \in Int
  PROVE Attends([s EXCEPT !.finds = n]) /\ Attends([s EXCEPT !.waits = n])
<1> DEFINE d == [s EXCEPT !.finds = n]
           w == [s EXCEPT !.waits = n]
<1>1. s \in AppRecord BY DEF Attends
<1>2. d \in AppRecord /\ w \in AppRecord BY <1>1, CountdownGuides DEF Guides
<1>3. SameWait(s, d) /\ SameWait(s, w) BY <1>1 DEF AppRecord, SameWait
<1> HIDE DEF d, w
<1>4. Attends(d) /\ Attends(w) BY <1>2, <1>3, SameAttends
<1> QED BY <1>4 DEF d, w

LEMMA SettleBeginAttends ==
  ASSUME NEW s, Attends(s), Settles(s) PROVE Attends(SettleBegin(s))
<1> DEFINE t == SettleBegin(s)
           d == IF s.override THEN "auto" ELSE s.decMode
<1>1. t \in AppRecord BY SettleBeginGuides DEF Attends, Guides
<1>2. /\ t.guider = s.guider /\ t.cal = s.cal /\ t.calRun = s.calRun
      /\ t.owed = s.owed /\ t.ctrl = "settleWait"
  <2>1. t = [s EXCEPT !.ctrl = "settleWait", !.settled = 0, !.decMode = d]
    BY DEF SettleBegin
  <2> HIDE DEF d, t
  <2> QED BY <2>1 DEF Attends, AppRecord
<1> HIDE DEF t
<1> QED BY <1>1, <1>2 
        DEF t, Attends, Settles, InLeg, PastCalibration, CalibratingOrGuiding

LEMMA SettleWaitAttends ==
  ASSUME NEW s, Attends(s), NEW f PROVE Attends(SettleWait(s, f))
<1> DEFINE n == s.settled + 1
           t == [s EXCEPT !.settled = n]
<1>1. t \in AppRecord /\ SameWait(s, t)
  <2>1. n \in Nat BY DEF Attends, AppRecord
  <2> HIDE DEF n
  <2> QED BY <2>1 DEF Attends, AppRecord, SameWait
<1>2. SettleWait(s, f) \in {t, Finish(t)} BY DEF SettleWait
<1> HIDE DEF t
<1>3. Attends(t) BY <1>1, SameAttends
<1> QED BY <1>2, <1>3, FinishAttends DEF Attends

LEMMA StickyAttends ==
  ASSUME NEW s, Attends(s)
  PROVE LET t == StickForCalibration(s)
            u == RestoreSticky(s)
        IN Attends(t) /\ SameWait(s, t) /\ Attends(u) /\ SameWait(s, u)
<1> DEFINE t == StickForCalibration(s)
           u == RestoreSticky(s)
<1>1. t \in AppRecord /\ SameGuide(s, t) /\ u \in AppRecord /\ SameGuide(s, u)
  BY StickySame DEF Attends
<1>2. t.owed = s.owed BY DEF StickForCalibration, Attends, AppRecord
<1>3. u.owed = s.owed BY DEF RestoreSticky, Attends, AppRecord
<1> HIDE DEF t, u
<1>4. SameWait(s, t) /\ SameWait(s, u)
  BY <1>1, <1>2, <1>3 DEF SameGuide, SameDec, SameWait
<1> QED BY <1>1, <1>4, SameAttends DEF t, u

\* MyFrame::StartGuiding of a guider that has its star, or no rates: it is
\* past calibration, calibrates, or will not get any.
LEMMA StartGuidingAttends ==
  ASSUME NEW s, Attends(s), s.guider # "selecting"
  PROVE /\ IsCalibrated(s) => Attends(To(StartGuiding(s), "settleBegin"))
        /\ ~IsCalibrated(s) /\ (s.cal = "none" \/ (s.mountOn /\ s.star = "valid")) =>
             Attends(To(StartGuiding(s), "calibrationWait"))
<1> DEFINE g == StartGuider(s)
           t == StartCapturing(g)
           x == BeginCalibration(s)
           y == [s EXCEPT !.guider = "calibrated"]
           z == SetUninitialized(s)
<1>1. s \in AppRecord BY DEF Attends
<1>2. g \in AppRecord BY <1>1, StartGuiderSound
<1>3. StartGuiding(s) = t BY DEF StartGuiding
<1>4. /\ y.guider = "calibrated" /\ y.cal = s.cal /\ y.calRun = s.calRun
      /\ x.guider = "calibrating" /\ x.cal = "none"
  BY <1>1 DEF BeginCalibration, ClearCalibration, AppRecord
<1>5. z.guider = "selecting" /\ z.cal = s.cal /\ z.calRun = s.calRun
  BY <1>1, UninitializedSame
<1>6. IsCalibrated(s) => g = y BY DEF StartGuider
<1>7. ~IsCalibrated(s) => \/ s.mountOn /\ s.star = "valid" /\ g = x
                          \/ ~(s.mountOn /\ s.star = "valid") /\ g = z
  BY DEF StartGuider
<1> HIDE DEF g, x, y, z
<1>8. ASSUME NEW state \in {"settleBegin", "calibrationWait"}
      PROVE LET u == To(t, state)
            IN /\ u \in AppRecord /\ u.guider = g.guider /\ u.cal = g.cal
               /\ u.calRun = g.calRun /\ u.ctrl = state
  <2>1. t \in AppRecord /\ SameGuide(g, t) BY <1>2, StartCapturingSound
  <2> HIDE DEF t
  <2>2. To(t, state) \in AppRecord
    BY <1>8, <2>1, ToGuides DEF ControllerStates, Guides
  <2>3. /\ To(t, state).guider = t.guider /\ To(t, state).cal = t.cal
        /\ To(t, state).calRun = t.calRun /\ To(t, state).ctrl = state
    BY <1>8, <2>1 DEF To, AppRecord
  <2> QED BY <2>1, <2>2, <2>3 DEF SameGuide
<1> DEFINE b == To(t, "settleBegin")
           w == To(t, "calibrationWait")
<1>9. /\ b \in AppRecord /\ b.guider = g.guider /\ b.cal = g.cal
      /\ b.calRun = g.calRun /\ b.ctrl = "settleBegin"
      /\ w \in AppRecord /\ w.guider = g.guider /\ w.cal = g.cal
      /\ w.calRun = g.calRun /\ w.ctrl = "calibrationWait"
  BY <1>8
<1> HIDE DEF b, w
<1>10. ASSUME IsCalibrated(s) PROVE Attends(b)
  BY <1>4, <1>6, <1>9, <1>10 DEF Attends, Settles, InLeg, PastCalibration
<1>11. ASSUME ~IsCalibrated(s), s.cal = "none" \/ (s.mountOn /\ s.star = "valid")
       PROVE Attends(w)
  <2>1. w.cal = "none"
    BY <1>4, <1>5, <1>7, <1>9, <1>11
  <2> QED BY <1>9, <2>1 DEF Attends
<1> QED BY <1>3, <1>10, <1>11 DEF b, w

\* STATE_CALIBRATE
LEMMA CalibrateAttends ==
  ASSUME NEW s, Attends(s), Sighted(s) PROVE Attends(Calibrate(s))
<1> DEFINE c == ClearCalibration(s)
           t == IF s.force THEN c ELSE s
           u == StickForCalibration(t)
           v == RestoreSticky(u)
<1>1. s \in AppRecord BY DEF Attends
<1>2. /\ c \in AppRecord /\ c.guider = s.guider /\ c.ctrl = s.ctrl /\ c.cal = "none"
      /\ c.star = s.star
  BY <1>1, ClearCalibrationSame DEF SameDec, ClearCalibration, AppRecord
<1>3. c.calRun = "cleared" /\ c.owed = s.owed
  BY <1>1 DEF ClearCalibration, AppRecord
<1>4. Calibrate(s) =
        CASE IsCalibrated(t) -> Guide(t)
          [] ~IsCalibrated(t) /\ CanStartGuiding(t) ->
               To(StartGuiding(u), "calibrationWait")
          [] OTHER -> Finish(v)
  BY DEF Calibrate
<1> HIDE DEF c
<1>5. Attends(c) BY <1>2, <1>3 DEF Attends, Settles, InLeg, PastCalibration, CalibratingOrGuiding
<1>6. Attends(t) /\ t.guider = s.guider /\ t.star = s.star BY <1>2, <1>5
<1> HIDE DEF t
<1>7. Attends(u) /\ SameWait(t, u) BY <1>6, StickyAttends
<1>8. u.star = t.star /\ u.mountOn = t.mountOn /\ u.decMode = t.decMode
  BY <1>6 DEF StickForCalibration, Attends, AppRecord
<1> HIDE DEF u
<1>9. Attends(v) BY <1>7, StickyAttends
<1> HIDE DEF v
<1>10. CASE IsCalibrated(t)
  <2>1. Calibrate(s) = Guide(t) BY <1>4, <1>10
  <2>2. Guide(t) = IF CanStartGuiding(t) THEN To(StartGuiding(t), "settleBegin")
                   ELSE Finish(t)
    BY DEF Guide
  <2>3. CanStartGuiding(t) => t.guider # "selecting" BY DEF CanStartGuiding
  <2> QED BY <1>6, <1>10, <2>1, <2>2, <2>3, StartGuidingAttends, FinishAttends
          DEF Attends
<1>11. CASE ~IsCalibrated(t) /\ CanStartGuiding(t)
  <2>1. Calibrate(s) = To(StartGuiding(u), "calibrationWait") BY <1>4, <1>11
  <2>2. u.guider # "selecting" /\ ~IsCalibrated(u) /\ u.mountOn
    BY <1>7, <1>8, <1>11 DEF SameWait, IsCalibrated, CanStartGuiding
  <2>3. u.star = "valid"
    BY <1>6, <1>7, <1>8, <2>2 DEF Sighted, SameWait
  <2> QED BY <1>7, <2>1, <2>2, <2>3, StartGuidingAttends
<1>12. CASE ~IsCalibrated(t) /\ ~CanStartGuiding(t)
  <2>1. Calibrate(s) = Finish(v) BY <1>4, <1>12
  <2> QED BY <1>9, <2>1, FinishAttends DEF Attends
<1> QED BY <1>10, <1>11, <1>12

LEMMA SelectStarAttends ==
  ASSUME NEW s, Attends(s), NEW f PROVE Attends(SelectStar(s, f))
<1> DEFINE t == IF CalibratingOrGuiding(s) THEN s ELSE AutoSelect(s, f)
           n == t.finds - 1
           less == [t EXCEPT !.finds = n]
           x == To(t, "waitSelected")
           w == [x EXCEPT !.waits = WaitSelectedFrames]
           y == Reset(less, TRUE)
           e == To(y, "attemptStart")
<1>1. Attends(t) BY AutoSelectAttends
<1>2. SelectStar(s, f) \in {w, Finish(less), e} BY DEF SelectStar
<1> HIDE DEF t
<1>3. n \in Int /\ WaitSelectedFrames \in Int
  BY <1>1, BoundsAssumption DEF Attends, AppRecord
<1> HIDE DEF n
<1>4. Attends(x) /\ Attends(less) BY <1>1, <1>3, ToAttends, CountingAttends
<1> HIDE DEF x, less
<1>5. Attends(w) BY <1>3, <1>4, CountingAttends
<1>6. Attends(Finish(less)) BY <1>4, FinishAttends DEF Attends
<1>7. /\ y \in AppRecord /\ y.cal = less.cal /\ y.calRun = less.calRun
  <2>1. less \in AppRecord BY <1>4 DEF Attends
  <2> QED BY <2>1, UninitializedSame
<1> HIDE DEF w, y
<1>8. /\ e \in AppRecord /\ e.cal = y.cal /\ e.calRun = y.calRun
      /\ e.ctrl = "attemptStart"
  <2>1. e \in AppRecord BY <1>7, ToGuides DEF ControllerStates, Guides
  <2> QED BY <1>7, <2>1 DEF To, AppRecord
<1> HIDE DEF e
<1>9. Attends(e) BY <1>4, <1>7, <1>8 DEF Attends, Settles, InLeg
<1> QED BY <1>2, <1>5, <1>6, <1>9

LEMMA WaitSelectedAttends ==
  ASSUME NEW s, Attends(s), Sighted(s) PROVE Attends(WaitSelected(s))
<1> DEFINE n == s.waits - 1
           less == [s EXCEPT !.waits = n]
<1>1. n \in Int BY DEF Attends, AppRecord
<1>2. WaitSelected(s) \in {Calibrate(s), To(less, "attemptStart"), less}
  BY DEF WaitSelected
<1> HIDE DEF n
<1>3. Attends(less) BY <1>1, CountingAttends
<1> HIDE DEF less
<1>4. Attends(To(less, "attemptStart")) BY <1>3, ToAttends
<1> QED BY <1>2, <1>3, <1>4, CalibrateAttends

LEMMA AttemptStartAttends ==
  ASSUME NEW s, Attends(s), Sighted(s), NEW f PROVE Attends(AttemptStart(s, f))
<1> DEFINE y == Reset(s, TRUE)
           z == StartCapturing(y)
           w == To(s, "calibrationWait")
<1>1. s \in AppRecord BY DEF Attends
<1>2. CASE ~CanGuide(s)
  <2>1. AttemptStart(s, f) = Finish(s) BY <1>2 DEF AttemptStart
  <2> QED BY <2>1, FinishAttends DEF Attends
<1>3. CASE CanGuide(s) /\ CalibratingOrGuiding(s)
  <2>1. \/ AttemptStart(s, f) \in {Calibrate(s), w}
        \/ PastCalibration(s) /\ AttemptStart(s, f) = SettleBegin(s)
    BY <1>3 DEF AttemptStart, PastCalibration
  <2>2. /\ w \in AppRecord /\ w.guider = s.guider /\ w.cal = s.cal
        /\ w.calRun = s.calRun /\ w.ctrl = "calibrationWait"
    <3>1. w \in AppRecord BY <1>1, ToGuides DEF ControllerStates, Guides
    <3> QED BY <1>1, <3>1 DEF To, AppRecord
  <2> HIDE DEF w
  <2>3. Attends(w) BY <1>3, <2>2 DEF Attends, Settles, InLeg, CalibratingOrGuiding
  <2> QED BY <2>1, <2>3, CalibrateAttends, SettleBeginAttends DEF Settles
<1>4. CASE CanGuide(s) /\ ~CalibratingOrGuiding(s)
  <2>1. AttemptStart(s, f) \in
          {To(z, "selectStar"), Calibrate(s), To(s, "selectStar"), SelectStar(s, f)}
    BY <1>4 DEF AttemptStart
  <2>2. Attends(y) /\ y \in AppRecord BY <1>4, UninitializedAttends DEF Attends
  <2> HIDE DEF y
  <2>3. Attends(z)
    BY <2>2, StartCapturingSound, StartCapturingMind, SameWaiting, SameAttends
  <2> HIDE DEF z
  <2>4. Attends(To(z, "selectStar")) /\ Attends(To(s, "selectStar"))
    BY <2>3, ToAttends
  <2> QED BY <2>1, <2>4, CalibrateAttends, SelectStarAttends
<1> QED BY <1>2, <1>3, <1>4

LEMMA StartGuideOpAttends ==
  ASSUME NEW s, Attends(s), Sighted(s), NEW recalibrate \in BOOLEAN, NEW f
  PROVE Attends(StartGuideOp(s, recalibrate, f))
<1> DEFINE t == [s EXCEPT !.force = recalibrate]
           u == [t EXCEPT !.haveSave = FALSE, !.finds = AutoFindAttempts,
                          !.override = FALSE]
<1>1. t \in AppRecord /\ SameWait(s, t) /\ SameSight(s, t)
  BY DEF Attends, AppRecord, SameWait, SameSight
<1>2. StartGuideOp(s, recalibrate, f) = AttemptStart(u, f)
  BY DEF StartGuideOp, Setup
<1> HIDE DEF t
<1>a. AutoFindAttempts \in Int BY BoundsAssumption
<1>3. u \in AppRecord /\ SameWait(t, u) /\ SameSight(t, u)
  BY ZenonT(60), <1>1, <1>a DEF AppRecord, SameWait, SameSight
<1> HIDE DEF u
<1>4. Attends(u) /\ Sighted(u)
  BY <1>1, <1>3, SameAttends DEF Sighted, SameSight
<1> QED BY <1>2, <1>4, AttemptStartAttends

LEMMA StartDitherAttends ==
  ASSUME NEW s, Attends(s), s.guider = "guiding",
         NEW raOnly \in BOOLEAN, NEW timed \in BOOLEAN
  PROVE Attends(StartDither(s, raOnly, timed))
<1> DEFINE b == ~raOnly /\ timed /\ s.decMode = "north"
           d == IF raOnly THEN "none" ELSE s.decMode
           t == [s EXCEPT !.override = b, !.saveDec = d]
<1>1. s \in AppRecord BY DEF Attends
<1>2. b \in BOOLEAN /\ d \in DecModes BY <1>1 DEF AppRecord, DecModes
<1>3. StartDither(s, raOnly, timed) = SettleBegin(t) BY DEF StartDither
<1> HIDE DEF b, d
<1>4. t \in AppRecord /\ SameWait(s, t)
  BY ZenonT(60), <1>1, <1>2 DEF AppRecord, SameWait
<1> HIDE DEF t
<1>5. Attends(t) /\ Settles(t)
  BY <1>4, SameAttends DEF SameWait, Settles, PastCalibration
<1> QED BY <1>3, <1>5, SettleBeginAttends

LEMMA UpdateControllerStateAttends ==
  ASSUME NEW s, Attends(s), Sighted(s), NEW f
  PROVE Attends(UpdateControllerState(s, f))
<1> DEFINE z == UpdateControllerState(s, f)
<1>1. CASE s.ctrl = "calibrationWait"
  <2> DEFINE u == RestoreSticky(s)
  <2>1. \/ IsCalibrated(s) /\ z = SettleBegin(u)
        \/ ~IsCalibrated(s) /\ z = s
    BY <1>1 DEF UpdateControllerState, CalibrationWait
  <2>2. Attends(u) /\ SameWait(s, u) BY StickyAttends
  <2> HIDE DEF u, z
  <2>3. ASSUME IsCalibrated(s) PROVE Attends(SettleBegin(u))
    <3>1. s.cal # "none" /\ ~InLeg(s) BY <2>3 DEF Attends, IsCalibrated
    <3>2. CalibratingOrGuiding(s) \/ s.owed BY <1>1, <3>1 DEF Attends
    <3>3. Settles(s)
      BY <3>1, <3>2 DEF Settles, CalibratingOrGuiding, PastCalibration
    <3>4. Settles(u)
      BY <2>2, <3>3
         DEF SameWait, Settles, PastCalibration, InLeg, CalibratingOrGuiding
    <3> QED BY <2>2, <3>4, SettleBeginAttends
  <2> QED BY <2>1, <2>3 DEF z
<1>2. CASE s.ctrl = "settleBegin"
  <2>1. Settles(s) BY <1>2 DEF Attends, Settles
  <2> QED BY <1>2, <2>1, SettleBeginAttends DEF UpdateControllerState
<1>3. CASE s.ctrl \notin {"calibrationWait", "settleBegin"}
  <2>1. z \in {AttemptStart(s, f), SelectStar(s, f), WaitSelected(s),
               SettleWait(s, f), s}
    BY <1>3 DEF UpdateControllerState
  <2> QED BY <2>1, AttemptStartAttends, SelectStarAttends, WaitSelectedAttends,
             SettleWaitAttends
<1> QED BY <1>1, <1>2, <1>3

LEMMA FrameTakenAttends ==
  ASSUME NEW s, Attends(s), Sighted(s), NEW f PROVE Attends(FrameTaken(s, f))
<1> DEFINE t == [s EXCEPT !.pending = FALSE, !.image = TRUE]
           b == ~s.continue
           g == UpdateGuideState(t, f, b)
           c == UpdateControllerState(g, f)
           a == c.continue
           n == [c EXCEPT !.active = a]
<1>1. t \in AppRecord /\ SameWait(s, t) /\ SameSight(s, t)
  BY DEF Attends, AppRecord, SameWait, SameSight
<1>2. b \in BOOLEAN BY DEF Attends, AppRecord
<1>3. FrameTaken(s, f) \in {ScheduleExposure(n), FinishStop(n)} BY DEF FrameTaken
<1> HIDE DEF t, b
<1>4. Attends(t) /\ Sighted(t) BY <1>1, SameAttends DEF Sighted, SameSight
<1>5. Attends(g) /\ Sighted(g)
  BY <1>1, <1>2, <1>4, UpdateGuideStateAttends, UpdateGuideStatePushes DEF Pushes
<1> HIDE DEF g
<1>6. Attends(c) /\ c \in AppRecord BY <1>5, UpdateControllerStateAttends DEF Attends
<1> HIDE DEF c
<1>7. n \in AppRecord /\ SameWait(c, n)
  <2>1. a \in BOOLEAN BY <1>6 DEF AppRecord
  <2> HIDE DEF a
  <2> QED BY ZenonT(60), <1>6, <2>1 DEF AppRecord, SameWait
<1> HIDE DEF n
<1>8. Attends(n) BY <1>6, <1>7, SameAttends
<1>9. Attends(ScheduleExposure(n))
  BY <1>7, <1>8, ScheduleExposureSound, ScheduleExposureMind, SameWaiting, SameAttends
<1> QED BY <1>3, <1>8, <1>9, FinishStopAttends

LEMMA MainStepAttends == ASSUME MInv, Attends(app), MainStep PROVE Attends(app')
<1> DEFINE p == [app EXCEPT !.pending = FALSE]
           t == [app EXCEPT !.camera = TRUE, !.pending = FALSE]
<1>1. p \in AppRecord /\ SameWait(app, p)
  BY ZenonT(60) DEF Attends, AppRecord, SameWait
<1>2. t \in AppRecord /\ SameWait(app, t)
  BY ZenonT(60) DEF Attends, AppRecord, SameWait
<1>3. OnExposed => app' = p \/ \E f : app' = FrameTaken(app, f) BY DEF OnExposed
<1>4. OnExposeError \/ OnReconnectFailed => app' \in {p, ExposeFailed(p)}
  BY DEF OnExposeError, OnReconnectFailed, ExposureEnds
<1>5. OnReconnected => app' = ScheduleExposure(t) BY DEF OnReconnected
<1> HIDE DEF p, t
<1>6. Attends(p) /\ Attends(t) BY <1>1, <1>2, SameAttends
<1>7. CASE OnExposed BY <1>3, <1>6, <1>7, FrameTakenAttends DEF MInv
<1>8. CASE OnExposeError \/ OnReconnectFailed
  BY <1>4, <1>6, <1>8, ExposeFailedAttends
<1>9. CASE OnReconnected
  BY <1>2, <1>5, <1>6, <1>9, ScheduleExposureSound, ScheduleExposureMind, SameWaiting,
     SameAttends
<1>10. CASE OnMoveComplete BY <1>10, MoveCompleteAttends DEF OnMoveComplete
<1>11. CASE OnPulseComplete BY <1>11 DEF OnPulseComplete
<1> QED BY <1>7, <1>8, <1>9, <1>10, <1>11 DEF MainStep

LEMMA ClientStepAttends ==
  ASSUME "deselect" \notin Requests, MInv, Attends(app), ClientStep
  PROVE Attends(app')
<1>1. app \in AppRecord /\ app' \in AppRecord /\ Sighted(app)
  BY NextInv DEF MInv, IInv, TypeOK, Next
<1>2. CASE Loop BY <1>2, StartLoopingAttends DEF Loop
<1>3. CASE Stop BY <1>3, StopCapturingAttends DEF Stop
<1>4. CASE CaptureSingleFrame
  <2> DEFINE t == ActivateSingle(app)
  <2>1. t \in AppRecord /\ SameWait(app, t)
    BY <1>1 DEF ActivateSingle, AppRecord, SameWait
  <2>2. app' = StartCapturing(t) BY <1>4 DEF CaptureSingleFrame
  <2> HIDE DEF t
  <2>3. Attends(t) BY <2>1, SameAttends
  <2> QED BY <2>1, <2>2, <2>3, StartCapturingSound, StartCapturingMind, SameWaiting,
             SameAttends
<1>5. ASSUME NEW r \in {"guide", "recalibrate"}, GuideRequest(r) PROVE Attends(app')
  <2> DEFINE b == r = "recalibrate"
  <2>1. \E f : app' = StartGuideOp(app, b, f) BY <1>5 DEF GuideRequest
  <2>2. b \in BOOLEAN OBVIOUS
  <2> HIDE DEF b
  <2> QED BY <1>1, <2>1, <2>2, StartGuideOpAttends
<1>6. CASE Dither BY <1>6, StartDitherAttends DEF Dither
<1>7. CASE Pause("pauseGuiding", "guiding") \/ Pause("pauseFull", "full") \/ Resume
  <2>1. PICK p \in PauseTypes : app' = SetPaused(app, p)
    BY <1>7 DEF Pause, Resume, PauseTypes
  <2> QED BY <1>1, <2>1, SetPausedSound, SetPausedMind, SameWaiting, SameAttends
<1>8. CASE FindStarRequest BY <1>8, AutoSelectAttends DEF FindStarRequest
<1>9. CASE DeselectStar BY <1>9 DEF DeselectStar, Client
<1>10. CASE ClearCalibrationRequest
  <2>1. app' = ClearCalibration(app) BY <1>10 DEF ClearCalibrationRequest
  <2>2. /\ app'.guider = app.guider /\ app'.cal = "none" /\ app'.calRun = "cleared"
        /\ app'.ctrl = app.ctrl /\ app'.owed = app.owed
    BY <1>1, <2>1 DEF ClearCalibration, AppRecord
  <2> QED BY <1>1, <2>2
          DEF Attends, Settles, InLeg, PastCalibration, CalibratingOrGuiding
<1>11. CASE SetDecGuideMode \/ GuidePulse \/ ConnectCamera \/ ConnectMount
  <2>1. SameWait(app, app')
    BY ZenonT(60), <1>1, <1>11 DEF SetDecGuideMode, GuidePulse, ScheduleManualMove,
       ConnectCamera, ConnectMount, AppRecord, SameWait
  <2> QED BY <1>1, <2>1, SameAttends
<1> QED BY <1>2, <1>3, <1>4, <1>5, <1>6, <1>7, <1>8, <1>9, <1>10, <1>11
        DEF ClientStep

\* The controller settles (STATE_SETTLE_WAIT) only what is calibrating or
\* guiding, or about to be told that guiding is over, which aborts it
\* (Guider::StopGuiding, MyFrame::NotifyGuidingStopped).  deselect_star is the
\* one request that takes the guider away from under it.
THEOREM SettlesWhatGuides ==
  ASSUME "deselect" \notin Requests PROVE Spec => []SettleWhileGuiding
<1>1. Init => Attends(app)
  <2> SUFFICES ASSUME Init PROVE Attends(app) OBVIOUS
  <2>1. app \in AppRecord BY InitMoves DEF MInv, IInv, TypeOK
  <2>2. app.ctrl = "idle" /\ app.cal = "none" BY DEF Init, AppInit
  <2> QED BY <2>1, <2>2 DEF Attends
<1>2. MInv /\ Attends(app) /\ [Next]_vars => Attends(app)'
  <2> SUFFICES ASSUME MInv, Attends(app), [Next]_vars PROVE Attends(app')
    BY DEF Attends, Settles, InLeg, PastCalibration, CalibratingOrGuiding
  <2>1. CASE UNCHANGED vars BY <2>1 DEF vars
  <2>2. CASE WorkerStep
    <3>1. app' \in AppRecord BY <2>2, NextInv DEF MInv, IInv, TypeOK, Next
    <3>2. SameGuide(app, app') /\ SameTold(app, app')
      BY <2>2, WorkerStepGuides, WorkerStepTold DEF MInv
    <3>3. SameWait(app, app') BY <3>2 DEF SameGuide, SameDec, SameTold, SameWait
    <3> QED BY <3>1, <3>3, SameAttends
  <2> QED BY <2>1, <2>2, MainStepAttends, ClientStepAttends DEF Next
<1>3. Attends(app) => SettleWhileGuiding
  BY DEF Attends, Settles, PastCalibration, CalibratingOrGuiding, SettleWhileGuiding
<1> QED BY <1>1, <1>2, <1>3, MovesInvariant, PTL DEF Spec

=============================================================================
