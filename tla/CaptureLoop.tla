---------------------------- MODULE CaptureLoop ----------------------------
(***************************************************************************)
(* The daemon at work: clients' requests (event_server.cpp) and the events *)
(* of the worker thread are handled one at a time on the wx main thread,   *)
(* while the worker thread moves the mount and takes exposures.            *)
(***************************************************************************)
EXTENDS PhdController

CONSTANT Requests \* the requests clients make in this instance

RequestNames ==
  {"loop", "stop", "single", "guide", "recalibrate", "dither", "pauseGuiding",
   "pauseFull", "resume", "find", "deselect", "pulse", "decMode",
   "clearCalibration", "connectCamera", "connectMount"}

ASSUME RequestsAssumption == Requests \subseteq RequestNames

-----------------------------------------------------------------------------
(* What the frame at hand may show, chosen only where it matters *)

Outcomes(s, mayFind) ==
  {f \in Outcome :
     /\ s.star = "none" => f.star = "found"
     /\ ~mayFind => f.sel = "none"
     /\ s.guider # "calibrating" => f.cal = "step"
     /\ s.guider # "guiding" => f.moves
     /\ s.ctrl # "settleWait" => f.settle = "far"}

FrameOutcomes(s) == Outcomes(s, s.ctrl \in {"attemptStart", "selectStar"})
RequestOutcomes(s) == Outcomes(s, TRUE)

-----------------------------------------------------------------------------
(* Events posted by the worker thread *)

Receive(e) == events # <<>> /\ Head(events) = e /\ events' = Tail(events)

\* Mutant: CaptureActive is left as it is.
FrameTakenOn(s, f) ==
  ScheduleExposure(UpdateControllerState(
    UpdateGuideState([s EXCEPT !.pending = FALSE, !.image = TRUE], f, ~s.continue), f))

FrameTaken(s, f) ==
  LET g == UpdateGuideState([s EXCEPT !.pending = FALSE, !.image = TRUE], f, ~s.continue)
      c == UpdateControllerState(g, f)
      n == [c EXCEPT !.active = c.continue]
  IN IF n.active THEN ScheduleExposure(n) ELSE FinishStop(n)

\* OnExposeComplete: under a full pause the frame is dropped, and nothing
\* else happens
OnExposed ==
  /\ Receive("exposed")
  /\ \/ app.paused = "full" /\ app' = [app EXCEPT !.pending = FALSE]
     \/ /\ app.paused # "full"
        /\ \E f \in FrameOutcomes(app) : app' = FrameTaken(app, f)
  /\ UNCHANGED worker

ExposureEnds(s) ==
  LET t == [s EXCEPT !.pending = FALSE]
  IN IF s.paused = "full" THEN t ELSE ExposeFailed(t)

OnExposeError ==
  /\ Receive("exposeError")
  /\ app' = ExposureEnds(app)
  /\ UNCHANGED worker

\* DoTryReconnect: the camera is back and the exposure is repeated ...
OnReconnected ==
  /\ Receive("reconnect")
  /\ app' = ScheduleExposure([app EXCEPT !.camera = TRUE, !.pending = FALSE])
  /\ UNCHANGED worker

\* ... or it is not, or the throttle on the attempts gives up
OnReconnectFailed ==
  /\ Receive("reconnect")
  /\ app' = ExposureEnds(app)
  /\ UNCHANGED worker

OnMoveComplete ==
  /\ \E e \in MoveEvents : Receive(e) /\ app' = MoveComplete(app, e)
  /\ UNCHANGED worker

OnPulseComplete == Receive("pulseDone") /\ UNCHANGED <<app, worker>>

MainStep ==
  \/ OnExposed \/ OnExposeError \/ OnReconnected \/ OnReconnectFailed
  \/ OnMoveComplete \/ OnPulseComplete

-----------------------------------------------------------------------------
(* Clients' requests; one that is refused changes nothing and is no action *)

Client(r) == r \in Requests /\ UNCHANGED <<worker, events>>

Loop == Client("loop") /\ app.camera /\ app' = StartLooping(app)

Stop == Client("stop") /\ app' = StopCapturing(app)

CaptureSingleFrame ==
  /\ Client("single")
  /\ ~app.active /\ app.camera
  /\ app' = StartCapturing(ActivateSingle(app))

GuideRequest(r) ==
  /\ Client(r)
  /\ CanGuide(app) /\ app.ctrl = "idle"
  /\ \E f \in RequestOutcomes(app) : app' = StartGuideOp(app, r = "recalibrate", f)

\* MyFrame::Dither moves the lock position of a guider that is guiding
Dither ==
  /\ Client("dither")
  /\ app.ctrl = "idle" /\ app.guider = "guiding" /\ IsCalibrated(app)
  /\ \E raOnly, timed \in BOOLEAN : app' = StartDither(app, raOnly, timed)

Pause(r, pause) ==
  Client(r) /\ ~IsPaused(app) /\ app' = SetPaused(app, pause)

Resume == Client("resume") /\ IsPaused(app) /\ app' = SetPaused(app, "none")

FindStarRequest ==
  /\ Client("find")
  /\ ~CalibratingOrGuiding(app)
  /\ \E f \in RequestOutcomes(app) : app' = AutoSelect(app, f)

DeselectStar == Client("deselect") /\ app' = Reset(app, TRUE)

\* the manual pulses under way, bounded by MaxPulses
Pulses ==
  Cardinality({i \in DOMAIN app.high : app.high[i] = "pulse"})
  + (IF worker.job = "pulse" THEN 1 ELSE 0)
  + Cardinality({i \in DOMAIN events : events[i] = "pulseDone"})

GuidePulse ==
  /\ Client("pulse")
  /\ app.mountOn /\ ~CalibratingOrGuiding(app) /\ ~IsBusy(app)
  /\ Pulses < MaxPulses
  /\ app' = ScheduleManualMove(app)

SetDecGuideMode ==
  /\ Client("decMode")
  /\ \E m \in DecModes : app' = [app EXCEPT !.decMode = m, !.wantDec = m]

ClearCalibrationRequest ==
  Client("clearCalibration") /\ app' = ClearCalibration(app)

\* set_connected: ConnectRefusal keeps the camera while capture is active,
\* and the mount while calibrating or guiding
ConnectCamera ==
  /\ Client("connectCamera") /\ ~app.active
  /\ app' = [app EXCEPT !.camera = ~@]

ConnectMount ==
  /\ Client("connectMount") /\ ~CalibratingOrGuiding(app)
  /\ app' = [app EXCEPT !.mountOn = ~@]

ClientStep ==
  \/ Loop \/ Stop \/ CaptureSingleFrame
  \/ \E r \in {"guide", "recalibrate"} : GuideRequest(r)
  \/ Dither
  \/ Pause("pauseGuiding", "guiding") \/ Pause("pauseFull", "full") \/ Resume
  \/ FindStarRequest \/ DeselectStar \/ GuidePulse \/ SetDecGuideMode
  \/ ClearCalibrationRequest \/ ConnectCamera \/ ConnectMount

-----------------------------------------------------------------------------
Init == app = AppInit /\ worker = WorkerInit /\ events = <<>>

Next == WorkerStep \/ MainStep \/ ClientStep

Spec == Init /\ [][Next]_vars

\* The worker thread runs, a capture ends (in a frame, an error, or the
\* watchdog's error), and the event loop handles what is posted to it.
\* Nothing is assumed of clients, of the camera hanging, or of what a frame
\* shows.
Fairness ==
  /\ WF_vars(TakeMove \/ TakeExposure \/ FinishMove \/ FinishPulse
             \/ StartCapture \/ InterruptDelay \/ CaptureFrame \/ CaptureError)
  /\ WF_vars(MainStep)

FairSpec == Spec /\ Fairness

=============================================================================
