--------------------------- MODULE DarkBuildProofs ---------------------------
(***************************************************************************)
(* Proof, for every value of the other constants, that the camera has one  *)
(* user at a time, given that a camera that hangs in a build of darks does *)
(* not come back (CameraReturns; the run exposure_after_build shows that   *)
(* this cannot be left out), and that builds and sessions leave to the     *)
(* capture loop what is shown of it alone.                                 *)
(*                                                                         *)
(* The builds are in one of three phases, and outside the first the slot   *)
(* keeps capture inactive: with no exposure accounted for (IInv of         *)
(* CaptureProofs) no frame can be on its way to the main thread, and what  *)
(* a client may still ask for starts none.                                 *)
(***************************************************************************)
EXTENDS DarkBuild, MoveProofs

CameraStaysAway == CameraReturns \subseteq {FALSE}

Free == slot = FALSE /\ deferred = <<>> /\ calls = <<>> /\ shutter = FALSE

Reserved ==
  /\ slot = TRUE /\ calls = <<>> /\ shutter = FALSE
  /\ \E n \in Nat : deferred = <<n>>

\* The shutter was open when the one build began.
Call == [left : Nat, frame : Nat, exposing : BOOLEAN, hadShutterClosed : {FALSE}]

Building ==
  /\ slot = TRUE /\ deferred = <<>> /\ shutter = TRUE
  /\ \E c \in Call : calls = <<c>>

\* One build at most, accepted or under way, and capture inactive with it
OneBuild == Free \/ (app.active = FALSE /\ (Reserved \/ Building))

DaemonInv == IInv /\ OneBuild

-----------------------------------------------------------------------------
(* While a build has the slot, nothing makes capture active *)

\* No exposure is pending, in the worker or on its way.
LEMMA NothingOut ==
  ASSUME IInv, app.active = FALSE
  PROVE /\ app \in AppRecord /\ app.low = 0
        /\ app.pending = FALSE /\ app.continue = FALSE
        /\ ExposuresOut = 0 /\ ~ExposureInHand
<1>1. app \in AppRecord BY DEF IInv, TypeOK
<1>2. app.low \in Nat /\ app.pending \in BOOLEAN /\ app.continue \in BOOLEAN
  BY <1>1 DEF AppRecord
<1>3. app.pending = FALSE /\ app.continue = FALSE
  BY <1>2 DEF IInv, Accounted
<1>4. CountOf(events, ExposureEvents) \in Nat BY CountFinite DEF IInv, TypeOK
<1>5. app.low + ExposuresOut = 0 BY <1>3 DEF IInv, Accounted
<1>6. CASE ExposureInHand
  <2>1. ExposuresOut = 1 + CountOf(events, ExposureEvents)
    BY <1>6 DEF ExposuresOut
  <2> QED BY <1>2, <1>4, <1>5, <2>1
<1>7. CASE ~ExposureInHand
  <2>1. ExposuresOut = 0 + CountOf(events, ExposureEvents)
    BY <1>7 DEF ExposuresOut
  <2>2. app.low = 0 /\ ExposuresOut = 0 BY <1>2, <1>4, <1>5, <2>1
  <2> QED BY <1>1, <1>3, <1>7, <2>2
<1> QED BY <1>6, <1>7

LEMMA WorkerStaysInactive ==
  ASSUME app \in AppRecord, app.active = FALSE, WorkerStep
  PROVE app'.active = FALSE
<1>1. CASE TakeMove BY <1>1 DEF TakeMove, AppRecord
<1>2. CASE TakeExposure BY <1>2 DEF TakeExposure, AppRecord
<1>3. CASE CameraHang BY <1>3 DEF CameraHang, AppRecord
<1>4. CASE UNCHANGED app BY <1>4
<1> QED BY <1>1, <1>2, <1>3, <1>4
        DEF WorkerStep, FinishMove, FinishPulse, StartCapture, InterruptDelay,
            CaptureFrame, CaptureError, SendExposeComplete

\* The main thread can only be told of moves.
LEMMA MainStaysInactive ==
  ASSUME IInv, app.active = FALSE, MainStep
  PROVE app'.active = FALSE
<1>1. ASSUME NEW e \in ExposureEvents, Receive(e), UNCHANGED worker PROVE FALSE
  <2>1. app \in AppRecord /\ Accounted(app, 1) BY <1>1, ReceivingExposure
  <2>2. app.low \in Nat /\ app.pending \in BOOLEAN BY <2>1 DEF AppRecord
  <2>3. app.pending = FALSE BY NothingOut
  <2> QED BY <2>1, <2>2, <2>3 DEF Accounted
<1>2. ~(OnExposed \/ OnExposeError \/ OnReconnected \/ OnReconnectFailed)
  BY <1>1 DEF OnExposed, OnExposeError, OnReconnected, OnReconnectFailed,
              ExposureEvents
<1>3. CASE OnPulseComplete BY <1>3 DEF OnPulseComplete
<1>4. CASE OnMoveComplete
  <2>1. PICK e \in MoveEvents : app' = MoveComplete(app, e)
    BY <1>4 DEF OnMoveComplete
  <2>2. Keeps(app, app) BY KeepsItself, NothingOut
  <2>3. Keeps(app, app') BY <2>1, <2>2, MoveCompleteKeeps
  <2> QED BY <2>3 DEF Keeps, Spares
<1> QED BY <1>2, <1>3, <1>4 DEF MainStep

\* A stop, or a resume, of an inactive capture starts nothing.
LEMMA IntentStaysInactive ==
  ASSUME NEW s \in AppRecord, s.active = FALSE, s.pending = FALSE,
         s.continue = FALSE
  PROVE /\ StopCapturing(s).active = FALSE
        /\ \A pause \in PauseTypes : SetPaused(s, pause).active = FALSE
<1>1. ASSUME NEW pause \in PauseTypes PROVE SetPaused(s, pause).active = FALSE
  <2>1. Keeps(s, SetPaused(s, pause)) BY SetPausedTypes
  <2> QED BY <2>1 DEF Keeps, Spares
<1>2. [s EXCEPT !.continue = FALSE] = s BY DEF AppRecord
<1>3. StopCapturing(s) = IF IsPaused(s) THEN SetPaused(s, "none") ELSE s
  BY <1>2 DEF StopCapturing
<1>4. "none" \in PauseTypes BY DEF PauseTypes
<1> QED BY <1>1, <1>3, <1>4

LEMMA RequestStaysInactive ==
  ASSUME IInv, app.active = FALSE, OtherRequest
  PROVE app'.active = FALSE
<1>1. /\ app \in AppRecord /\ app.pending = FALSE /\ app.continue = FALSE
      /\ Keeps(app, app)
  BY NothingOut, KeepsItself
<1>2. CASE Stop BY <1>1, <1>2, IntentStaysInactive DEF Stop
<1>3. ASSUME NEW r, NEW p, Pause(r, p), p \in PauseTypes PROVE app'.active = FALSE
  BY <1>1, <1>3, IntentStaysInactive DEF Pause
<1>4. CASE Resume BY <1>1, <1>4, IntentStaysInactive DEF Resume, PauseTypes
<1>5. CASE FindStarRequest
  <2>1. PICK f : app' = AutoSelect(app, f) BY <1>5 DEF FindStarRequest
  <2>2. Keeps(app, app') BY <1>1, <2>1, AutoSelectKeeps
  <2> QED BY <2>2 DEF Keeps, Spares
<1>6. CASE DeselectStar
  <2>1. Keeps(app, app') BY <1>1, <1>6, ResetKeeps DEF DeselectStar
  <2> QED BY <2>1 DEF Keeps, Spares
<1>7. CASE SetDecGuideMode
  <2>1. PICK m \in DecModes : app' = [app EXCEPT !.decMode = m, !.wantDec = m]
    BY <1>7 DEF SetDecGuideMode
  <2>2. Keeps(app, app') BY <1>1, <2>1, SettingKeeps
  <2> QED BY <2>2 DEF Keeps, Spares
<1>8. CASE ClearCalibrationRequest
  <2>1. Keeps(app, app')
    BY <1>1, <1>8, ClearCalibrationKeeps DEF ClearCalibrationRequest
  <2> QED BY <2>1 DEF Keeps, Spares
<1>9. "guiding" \in PauseTypes /\ "full" \in PauseTypes BY DEF PauseTypes
<1> QED BY <1>2, <1>3, <1>4, <1>5, <1>6, <1>7, <1>8, <1>9 DEF OtherRequest

-----------------------------------------------------------------------------
(* The steps *)

LEMMA LoopStepInv == ASSUME DaemonInv, LoopStep PROVE DaemonInv'
<1>1. WorkerStep \/ MainStep \/ ClientStep
  BY DEF LoopStep, ExclusiveRequest, SingleFrameRequest, OtherRequest, ClientStep
<1>2. IInv'
  BY <1>1, WorkerStepInv, MainStepInv, ClientStepInv DEF DaemonInv
<1>3. UNCHANGED buildVars BY DEF LoopStep
<1>4. CASE Free BY <1>2, <1>3, <1>4 DEF DaemonInv, OneBuild, Free, buildVars
<1>5. CASE app.active = FALSE /\ (Reserved \/ Building)
  <2>1. slot = TRUE BY <1>5 DEF Reserved, Building
  <2>2. WorkerStep \/ MainStep \/ OtherRequest
    BY <2>1 DEF LoopStep, ExclusiveRequest, SingleFrameRequest
  <2>3. app \in AppRecord BY DEF DaemonInv, IInv, TypeOK
  <2>4. app'.active = FALSE
    BY <1>5, <2>2, <2>3, WorkerStaysInactive, MainStaysInactive,
       RequestStaysInactive DEF DaemonInv
  <2> QED BY <1>2, <1>3, <1>5, <2>4
          DEF DaemonInv, OneBuild, Reserved, Building, buildVars
<1> QED BY <1>4, <1>5 DEF DaemonInv, OneBuild

LEMMA UnchangedInv == ASSUME IInv, UNCHANGED vars PROVE IInv'
BY DEF vars, IInv, TypeOK, SkipInCapture, ExposuresOut, ExposureInHand,
       CountOf, Accounted

\* A build begins when there is none, and capture is inactive.
LEMMA RunBuildBegins ==
  ASSUME NEW n \in Nat, RunBuild(n), calls = <<>>, shutter = FALSE, deferred' = <<>>,
         UNCHANGED app, app \in AppRecord
  PROVE OneBuild'
<1>1. CASE app.camera /\ ~app.active
  <2> DEFINE c == [left |-> n, frame |-> 1, exposing |-> TRUE,
                   hadShutterClosed |-> shutter]
  <2>1. slot' = TRUE /\ calls' = Append(calls, c) /\ shutter' = TRUE
    BY <1>1 DEF RunBuild
  <2>2. c \in Call BY DEF Call
  <2> HIDE DEF c
  <2>3. calls' = <<c>> BY <2>1
  <2>4. app'.active = FALSE BY <1>1 DEF AppRecord
  <2> QED BY <2>1, <2>2, <2>3, <2>4 DEF OneBuild, Building
<1>2. CASE ~(app.camera /\ ~app.active)
  BY <1>2 DEF RunBuild, OneBuild, Free
<1> QED BY <1>1, <1>2

LEMMA RequestBuildInv == ASSUME DaemonInv, RequestBuild PROVE DaemonInv'
<1>1. IInv' BY UnchangedInv DEF DaemonInv, RequestBuild
<1>2. Free /\ app \in AppRecord /\ app' = app /\ app.active = FALSE
  <2>1. app \in AppRecord BY DEF DaemonInv, IInv, TypeOK
  <2> QED BY <2>1 DEF DaemonInv, OneBuild, Reserved, Building, RequestBuild,
                      vars, AppRecord
<1>3. PICK n \in Nat :
        \/ slot' = TRUE /\ deferred' = Append(deferred, n) /\ UNCHANGED <<calls, shutter>>
        \/ RunBuild(n) /\ UNCHANGED deferred
  BY BuildAssumption DEF RequestBuild
<1>4. CASE slot' = TRUE /\ deferred' = Append(deferred, n)
           /\ UNCHANGED <<calls, shutter>>
  <2>1. deferred' = <<n>> BY <1>2, <1>4 DEF Free
  <2> QED BY <1>1, <1>2, <1>4, <2>1 DEF DaemonInv, OneBuild, Reserved, Free
<1>5. CASE RunBuild(n) /\ UNCHANGED deferred
  BY <1>1, <1>2, <1>5, RunBuildBegins DEF DaemonInv, Free
<1> QED BY <1>3, <1>4, <1>5

LEMMA RunDeferredInv == ASSUME DaemonInv, RunDeferred PROVE DaemonInv'
<1>1. IInv' BY UnchangedInv DEF DaemonInv, RunDeferred
<1>2. Reserved /\ app \in AppRecord /\ app' = app
  <2>1. app \in AppRecord BY DEF DaemonInv, IInv, TypeOK
  <2> QED BY <2>1 DEF DaemonInv, OneBuild, Free, Building, RunDeferred, vars
<1>3. deferred' = <<>> BY <1>2 DEF Reserved, RunDeferred
<1>4. PICK n \in Nat : deferred = <<n>> BY <1>2 DEF Reserved
<1>5. Head(deferred) = n BY <1>4
<1>6. RunBuild(n) BY <1>5 DEF RunDeferred
<1>7. OneBuild' BY <1>2, <1>3, <1>6, RunBuildBegins DEF Reserved
<1> QED BY <1>1, <1>7 DEF DaemonInv

\* The build ends, and what it found is what it leaves.
LEMMA EndBuildFrees ==
  ASSUME Building, EndBuild, UNCHANGED deferred PROVE OneBuild'
<1>1. PICK c \in Call : calls = <<c>> BY DEF Building
<1>2. Last(calls).hadShutterClosed = FALSE BY <1>1 DEF Last, Call
<1>3. Front(calls) = <<>> BY <1>1 DEF Front
<1> QED BY <1>1, <1>2, <1>3 DEF Building, EndBuild, OneBuild, Free

\* The build goes on with the frame, or from it.
LEMMA ResumedBuilds ==
  ASSUME Building, NEW c \in Call, Resumed(c), UNCHANGED <<slot, deferred, shutter>>
  PROVE Building'
<1>1. calls' = <<c>> BY DEF Building, Resumed
<1> QED BY <1>1 DEF Building

\* A camera that hung in a build and stays away: the exposure that is ended
\* was never begun.
LEMMA DarkFrameHangsInv ==
  ASSUME DaemonInv, Building, app.active = FALSE, DarkFrameHangs, CameraStaysAway
  PROVE DaemonInv'
<1> DEFINE c == [app EXCEPT !.camera = FALSE]
           t == [c EXCEPT !.pending = FALSE]
<1>1. /\ app \in AppRecord /\ app.low = 0 /\ app.pending = FALSE
      /\ ExposuresOut = 0
  BY NothingOut DEF DaemonInv
<1>2. app' = ExposureEnds(c)
  BY DEF DarkFrameHangs, CameraStaysAway
<1>3. /\ t \in AppRecord /\ t.low = 0 /\ t.pending = FALSE
      /\ t.active = FALSE /\ t.continue = app.continue
  BY ZenonT(60), <1>1 DEF AppRecord
<1>4. app' = t \/ app' = ExposeFailed(t) BY <1>2 DEF ExposureEnds
<1> HIDE DEF t
<1>5. /\ app' \in AppRecord /\ app'.low = 0 /\ app'.pending = FALSE
      /\ app'.active = FALSE /\ app'.continue = FALSE
  <2>1. app.continue = FALSE BY NothingOut DEF DaemonInv
  <2>2. Stops(t, ExposeFailed(t)) /\ ExposeFailed(t).active = FALSE
    BY <1>3, ExposeFailedStops
  <2> QED BY <1>3, <1>4, <2>1, <2>2 DEF Stops
<1>6. /\ worker' \in WorkerRecord /\ worker'.job = worker.job
      /\ worker'.skip = worker.skip
  <2> DEFINE h == worker.hangs + 1
  <2>1. h \in Nat /\ worker \in WorkerRecord
        /\ worker' = [worker EXCEPT !.hangs = h]
    BY DEF DarkFrameHangs, DaemonInv, IInv, TypeOK, WorkerRecord
  <2> HIDE DEF h
  <2> QED BY <2>1 DEF WorkerRecord
<1>7. events' = events BY DEF DarkFrameHangs
<1>8. ExposuresOut' = 0
  BY <1>1, <1>6, <1>7 DEF ExposuresOut, ExposureInHand, CountOf
<1>9. IInv'
  BY <1>5, <1>6, <1>7, <1>8 DEF DaemonInv, IInv, TypeOK, SkipInCapture, Accounted
<1>10. OneBuild' BY EndBuildFrees DEF DarkFrameHangs
<1> QED BY <1>9, <1>10 DEF DaemonInv

LEMMA BuildStepInv ==
  ASSUME DaemonInv, BuildStep, CameraStaysAway PROVE DaemonInv'
<1>1. calls # <<>>
  BY DEF BuildStep, DarkFrame, DarkFrameFails, DarkFrameHangs, ContinueBuild
<1>2. app.active = FALSE /\ Building
  BY <1>1 DEF DaemonInv, OneBuild, Free, Reserved
<1>3. PICK call \in Call : calls = <<call>> BY <1>2 DEF Building
<1>4. Last(calls) = call BY <1>3 DEF Last
<1>5. ASSUME UNCHANGED vars, UNCHANGED deferred, EndBuild PROVE DaemonInv'
  BY <1>2, <1>5, UnchangedInv, EndBuildFrees DEF DaemonInv
<1>6. ASSUME UNCHANGED vars, UNCHANGED <<slot, deferred, shutter>>,
             NEW c \in Call, Resumed(c)
      PROVE DaemonInv'
  <2>1. Building' BY <1>2, <1>6, ResumedBuilds
  <2> QED BY <1>2, <1>6, <2>1, UnchangedInv DEF DaemonInv, OneBuild, vars
<1>7. CASE DarkFrame
  <2>1. [call EXCEPT !.exposing = FALSE] \in Call BY DEF Call
  <2> QED BY <1>4, <1>6, <1>7, <2>1 DEF DarkFrame
<1>8. CASE DarkFrameFails BY <1>5, <1>8 DEF DarkFrameFails
<1>9. CASE DarkFrameHangs BY <1>2, <1>9, DarkFrameHangsInv
<1>10. CASE ContinueBuild
  <2> DEFINE n == call.frame + 1
             m == call.left - 1
             nextFrame == [call EXCEPT !.exposing = TRUE, !.frame = n]
             first == [call EXCEPT !.exposing = TRUE, !.frame = 1, !.left = m]
  <2>1. nextFrame \in Call
    <3>1. n \in Nat BY DEF Call
    <3> HIDE DEF n
    <3> QED BY <3>1 DEF Call
  <2>2. call.left > 1 => first \in Call
    <3>1. call.left > 1 => m \in Nat BY DEF Call
    <3> HIDE DEF m
    <3> QED BY <3>1 DEF Call
  <2>3. UNCHANGED vars /\ UNCHANGED deferred BY <1>10 DEF ContinueBuild
  <2>4. \/ Resumed(nextFrame) /\ UNCHANGED <<slot, shutter>>
        \/ call.left > 1 /\ Resumed(first) /\ UNCHANGED <<slot, shutter>>
        \/ EndBuild
    <3>1. /\ [[call EXCEPT !.exposing = TRUE] EXCEPT !.frame = @ + 1] = nextFrame
          /\ [[call EXCEPT !.exposing = TRUE] EXCEPT !.frame = 1, !.left = @ - 1] = first
      BY DEF Call
    <3> HIDE DEF nextFrame, first
    <3> QED BY <1>4, <1>10, <3>1 DEF ContinueBuild
  <2> HIDE DEF nextFrame, first
  <2> QED BY <1>5, <1>6, <2>1, <2>2, <2>3, <2>4
<1> QED BY <1>7, <1>8, <1>9, <1>10 DEF BuildStep

-----------------------------------------------------------------------------
(* The invariant, and what follows from it *)

LEMMA DaemonInitInv == DaemonInit => DaemonInv
BY InitInv DEF DaemonInit, DaemonInv, OneBuild, Free

LEMMA DaemonNextInv ==
  ASSUME CameraStaysAway PROVE DaemonInv /\ [DaemonNext]_daemonVars => DaemonInv'
<1> SUFFICES ASSUME DaemonInv, [DaemonNext]_daemonVars PROVE DaemonInv' OBVIOUS
<1>1. CASE LoopStep BY <1>1, LoopStepInv
<1>2. CASE RequestBuild BY <1>2, RequestBuildInv
<1>3. CASE RunDeferred BY <1>3, RunDeferredInv
<1>4. CASE BuildStep BY <1>4, BuildStepInv
<1>5. CASE UNCHANGED <<vars, buildVars>>
  <2>1. IInv' BY <1>5, UnchangedInv DEF DaemonInv
  <2> QED BY <1>5, <2>1
          DEF DaemonInv, OneBuild, Free, Reserved, Building, buildVars, vars
<1> QED BY <1>1, <1>2, <1>3, <1>4, <1>5
        DEF DaemonNext, SetPaSession, PaSessionEnds, daemonVars

LEMMA AloneFollows == ASSUME DaemonInv PROVE CameraAlone
<1>1. slot => app.active = FALSE
  BY DEF DaemonInv, OneBuild, Free
<1>2. Len(deferred) + Len(calls) <= 1
  <2>1. CASE Free BY <2>1 DEF Free
  <2>2. CASE Reserved
    <3>1. PICK n \in Nat : deferred = <<n>> BY <2>2 DEF Reserved
    <3>2. Len(deferred) = 1 /\ Len(calls) = 0 BY <2>2, <3>1 DEF Reserved
    <3> QED BY <3>2
  <2>3. CASE Building
    <3>1. PICK c \in Call : calls = <<c>> BY <2>3 DEF Building
    <3>2. Len(deferred) = 0 /\ Len(calls) = 1 BY <2>3, <3>1 DEF Building
    <3> QED BY <3>2
  <2> QED BY <2>1, <2>2, <2>3 DEF DaemonInv, OneBuild
<1>3. ASSUME worker.job = "capture", ~worker.skip PROVE ~shutter /\ MainFree
  <2>1. ~Building
    BY <1>3, NothingOut DEF DaemonInv, OneBuild, ExposureInHand, Building, Free
  <2> QED BY <2>1 DEF DaemonInv, OneBuild, Free, Reserved, MainFree
<1> QED BY <1>1, <1>2, <1>3 DEF CameraAlone

\* The camera has one user at a time: the builds of darks, asked for at once
\* or by CallAfter, never meet another build or an active capture, and no
\* frame is taken for guiding with the shutter closed.
THEOREM CameraIsAlone ==
  ASSUME CameraStaysAway PROVE DaemonSpec => []CameraAlone
<1>1. DaemonInit => DaemonInv BY DaemonInitInv
<1>2. DaemonInv /\ [DaemonNext]_daemonVars => DaemonInv' BY DaemonNextInv
<1>3. DaemonInv => CameraAlone BY AloneFollows
<1> QED BY <1>1, <1>2, <1>3, PTL DEF DaemonSpec

\* Nor does a build lose or double an exposure of the capture loop, or start
\* one for nobody: the exposures are accounted for beside the builds too.
THEOREM ExposuresBesideBuilds ==
  ASSUME CameraStaysAway
  PROVE DaemonSpec => [](ExposureAccounted /\ PendingWhileActive)
<1>1. DaemonInit => DaemonInv BY DaemonInitInv
<1>2. DaemonInv /\ [DaemonNext]_daemonVars => DaemonInv' BY DaemonNextInv
<1>3. DaemonInv => ExposureAccounted /\ PendingWhileActive
  BY DEF DaemonInv, IInv, Accounted, ExposureAccounted, PendingWhileActive
<1> QED BY <1>1, <1>2, <1>3, PTL DEF DaemonSpec

-----------------------------------------------------------------------------
(* Moves, captures and the session beside the builds.  A step of the       *)
(* capture loop keeps MInv as it does alone; a build's frame that hangs is *)
(* the one step of a build that touches the record, and finds nothing out. *)

BesideInv == DaemonInv /\ MInv

LEMMA UnchangedMoves == ASSUME MInv, UNCHANGED vars PROVE MInv'
BY NextMoves

\* The capture loop's record after a build's frame hung: what was idle stays
\* so, and a full pause is held as before.
LEMMA DarkFrameHangsQuiet ==
  ASSUME BesideInv, DarkFrameHangs, app.active = FALSE, CameraStaysAway
  PROVE /\ Quiet(app, app') /\ Going(app')
        /\ app'.active = FALSE /\ app'.pending = FALSE
        /\ app'.paused = "full" <=> app.paused = "full"
<1> DEFINE c == [app EXCEPT !.camera = FALSE]
           t == [c EXCEPT !.pending = FALSE]
<1>1. /\ app \in AppRecord /\ app.pending = FALSE /\ app.continue = FALSE
      /\ Sighted(app) /\ Going(app)
  BY NothingOut DEF BesideInv, DaemonInv, MInv
<1>2. app' = ExposureEnds(c)
  BY DEF DarkFrameHangs, CameraStaysAway
<1>3. c.paused = app.paused BY <1>1 DEF AppRecord
<1>4. /\ t \in AppRecord /\ SameCapture(app, t) /\ SameSight(app, t)
      /\ t.pending = FALSE /\ t.active = FALSE /\ t.continue = FALSE
  BY ZenonT(60), <1>1 DEF AppRecord, SameCapture, SameSight
<1>5. app' = IF app.paused = "full" THEN t ELSE ExposeFailed(t)
  BY <1>2, <1>3 DEF ExposureEnds
<1> HIDE DEF t
<1>6. Sighted(t) /\ Going(t) /\ Quiet(app, t)
  BY <1>1, <1>4 DEF Sighted, SameSight, Going, SameCapture, Quiet
<1>7. CASE app.paused = "full" BY <1>4, <1>5, <1>6, <1>7 DEF SameCapture
<1>8. CASE app.paused # "full"
  <2> DEFINE z == ExposeFailed(t)
  <2>1. Quiet(t, z) /\ Going(z) /\ z.paused = "none"
    BY <1>4, <1>6, ExposeFailedGoes
  <2>2. Stops(t, z) /\ z.active = FALSE BY <1>4, ExposeFailedStops
  <2>3. app' = z BY <1>5, <1>8
  <2> HIDE DEF z
  <2>4. z.pending = FALSE BY <1>4, <2>2 DEF Stops
  <2> QED BY <1>6, <1>8, <2>1, <2>2, <2>3, <2>4, QuietOn
<1> QED BY <1>7, <1>8

LEMMA DarkFrameHangsMoves ==
  ASSUME BesideInv, DaemonInv', DarkFrameHangs, app.active = FALSE, CameraStaysAway
  PROVE MInv'
<1>1. Quiet(app, app') /\ Going(app') BY DarkFrameHangsQuiet
<1>2. worker'.job = worker.job /\ worker'.skip = worker.skip
  BY DEF DarkFrameHangs, BesideInv, MInv, IInv, TypeOK, WorkerRecord
<1>3. events' = events BY DEF DarkFrameHangs
<1>4. MovesOut' = MovesOut /\ ExposuresOut' = ExposuresOut
  BY <1>1, <1>2, <1>3 DEF Quiet, MovesOut, ExposuresOut, ExposureInHand, CountOf
<1>5. MoveInv /\ app'.high = app.high /\ app'.reqs = app.reqs
  BY <1>1 DEF BesideInv, MInv, Quiet
<1>6. MoveInv' BY <1>2, <1>3, <1>4, <1>5 DEF MoveInv, MovesFirst, CountOf
<1> QED BY <1>1, <1>6 DEF MInv, DaemonInv, Quiet

\* What each step of the daemon is to the capture loop
LEMMA DaemonStep ==
  ASSUME BesideInv, CameraStaysAway, [DaemonNext]_daemonVars
  PROVE [Next]_vars \/ (DarkFrameHangs /\ app.active = FALSE)
<1>1. CASE LoopStep
  BY <1>1 DEF LoopStep, ExclusiveRequest, SingleFrameRequest, OtherRequest,
              ClientStep, Next
<1>2. CASE DarkFrameHangs
  BY <1>2 DEF DarkFrameHangs, BesideInv, DaemonInv, OneBuild, Free, Reserved
<1>3. LoopStep \/ DarkFrameHangs \/ UNCHANGED vars
  BY DEF DaemonNext, RequestBuild, RunDeferred, SetPaSession, BuildStep, DarkFrame,
         DarkFrameFails, ContinueBuild, PaSessionEnds, daemonVars
<1> QED BY <1>1, <1>2, <1>3

LEMMA BesideInit == DaemonInit => BesideInv
BY DaemonInitInv, InitMoves DEF DaemonInit, BesideInv

LEMMA BesideNext ==
  ASSUME CameraStaysAway PROVE BesideInv /\ [DaemonNext]_daemonVars => BesideInv'
<1> SUFFICES ASSUME BesideInv, [DaemonNext]_daemonVars PROVE BesideInv' OBVIOUS
<1>1. DaemonInv' BY DaemonNextInv DEF BesideInv
<1>2. CASE [Next]_vars BY <1>1, <1>2, NextMoves DEF BesideInv
<1>3. CASE DarkFrameHangs /\ app.active = FALSE
  BY <1>1, <1>3, DarkFrameHangsMoves DEF BesideInv
<1> QED BY <1>2, <1>3, DaemonStep

LEMMA BesideInvariant == ASSUME CameraStaysAway PROVE DaemonSpec => []BesideInv
<1>1. BesideInv /\ [DaemonNext]_daemonVars => BesideInv' BY BesideNext
<1> QED BY <1>1, BesideInit, PTL DEF DaemonSpec

\* A build's frame that hangs is no step of the session.
LEMMA DarkFrameHangsSession ==
  ASSUME BesideInv, DarkFrameHangs, app.active = FALSE, CameraStaysAway
  PROVE SessionStep
<1>1. app'.active = FALSE /\ app'.pending = FALSE
      /\ (app'.paused = "full" <=> app.paused = "full")
  BY DarkFrameHangsQuiet
<1>2. app.pending = FALSE BY NothingOut DEF BesideInv, DaemonInv
<1>3. SessionOf(app) = "idle" /\ SessionOf(app)' = "idle" BY <1>1 DEF SessionOf
<1> QED BY <1>1, <1>2, <1>3 DEF SessionStep, Abstract!sessionVars

\* Builds and sessions of a polar alignment take nothing from what the
\* capture loop promises alone: moves are counted and made before the frame
\* they correct, a capture that clients want goes on, a single frame stays
\* alone (OnExposeComplete, and DoTryReconnect called from a build).
THEOREM CaptureBesideBuilds ==
  ASSUME CameraStaysAway
  PROVE DaemonSpec => [](/\ MovesAccounted /\ MoveBeforeFrame
                         /\ CaptureGoesOn /\ SingleAlone)
<1>1. BesideInv => MovesAccounted
  BY DEF BesideInv, MInv, MoveInv, MovesOut, MovesAccounted
<1>2. BesideInv => MoveBeforeFrame BY NoMoveBefore DEF BesideInv, MoveBeforeFrame
<1>3. BesideInv => CaptureGoesOn /\ SingleAlone
  BY DEF BesideInv, MInv, Going, CaptureGoesOn, SingleAlone
<1> QED BY <1>1, <1>2, <1>3, BesideInvariant, PTL

\* Every behaviour of the daemon with its builds and sessions, too, is one of
\* the capture session.
THEOREM SessionBesideBuilds ==
  ASSUME CameraStaysAway PROVE DaemonSpec => ImplementsSession
<1>1. DaemonInit => Abstract!SessionInit BY InitSession DEF DaemonInit
<1>2. ASSUME BesideInv, BesideInv', [DaemonNext]_daemonVars PROVE SessionStep
  <2>1. CASE [Next]_vars BY <1>2, <2>1, NextSession DEF BesideInv
  <2>2. CASE DarkFrameHangs /\ app.active = FALSE
    BY <1>2, <2>2, DarkFrameHangsSession
  <2> QED BY <1>2, <2>1, <2>2, DaemonStep
<1>3. BesideInv /\ BesideInv' /\ [DaemonNext]_daemonVars
        => [Abstract!SessionNext]_Abstract!sessionVars
  BY <1>2 DEF SessionStep
<1> QED BY <1>1, <1>3, BesideInvariant, PTL
        DEF DaemonSpec, ImplementsSession, Abstract!SessionSpec
=============================================================================
