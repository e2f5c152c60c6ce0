------------------------- MODULE CaptureProperties -------------------------
(***************************************************************************)
(* What must be true of the daemon at work.                                *)
(***************************************************************************)
EXTENDS CaptureLoop

\* Every field keeps its type: no state machine leaves its states (types of
\* myframe.h, guider.h, phdcontrol.cpp).
TypeOK ==
  /\ app \in AppRecord
  /\ worker \in WorkerRecord
  /\ events \in Seq(Events)

-----------------------------------------------------------------------------
(* Exposures.  m_exposurePending is one flag for a request that travels    *)
(* through the low priority queue, the worker, perhaps a reconnect of the  *)
(* camera, and the event queue; each hop must pass it on exactly once.     *)

CountOf(q, kinds) == Cardinality({i \in DOMAIN q : q[i] \in kinds})

\* the worker's exposure, unless a reconnect has taken over its completion
ExposureInHand == worker.job \in {"delay", "capture"} /\ ~worker.skip

\* the worker's and the event queue's part of the exposures under way
ExposuresOut == (IF ExposureInHand THEN 1 ELSE 0) + CountOf(events, ExposureEvents)

\* m_exposurePending is set just when one exposure is queued, in the worker
\* or on its way back, and there is never a second one: neither a lost
\* completion (capture hangs for ever) nor a doubled one, whatever the
\* order of stops, pauses, errors and reconnects.
ExposureAccounted == app.low + ExposuresOut = IF app.pending THEN 1 ELSE 0

\* An exposure under way belongs to an active capture: no frame arrives
\* after FinishStop told the clients that looping has stopped, and none is
\* begun for clients that did not ask (CaptureActive, m_continueCapturing).
PendingWhileActive ==
  /\ app.pending => app.active
  /\ app.continue => app.active

\* While clients want frames and nothing is fully paused, one is on its way:
\* the resume after a full pause, an error or a reconnect restarts the loop.
CaptureGoesOn == app.active /\ app.continue /\ app.paused # "full" => app.pending

\* A single frame capture is never mixed up with looping, and is over once
\* capture is (SingleExposure::Activate and Complete).
SingleAlone == app.single => app.active /\ ~app.continue

\* "CaptureActive is cleared on exposure completion" (myframe.cpp:1826):
\* an active capture which is not to go on has its last exposure under way.
ClearedOnCompletion == app.active /\ ~app.continue => app.pending

-----------------------------------------------------------------------------
(* Moves *)

\* Mount::m_requestCount counts the moves that are queued, being made, or
\* whose completion the main thread has not handled, and there is never a
\* second one: each frame waits for the correction made from the last.
MovesAccounted ==
  /\ app.reqs = CountOf(app.high, {"move"}) + (IF worker.job = "move" THEN 1 ELSE 0)
                + CountOf(events, MoveEvents)
  /\ app.reqs <= 1

\* When a frame's turn comes on the main thread the move that was scheduled
\* before it has been completed there too, so that the frame shows its
\* effect (the assertion of Guider::UpdateGuideState).
MoveBeforeFrame ==
  events # <<>> /\ Head(events) \in ExposureEvents => app.reqs = 0

-----------------------------------------------------------------------------
(* Guiding, and what clients are told of it *)

\* Once StartGuiding was sent and guiding is over, GuidingStopped was sent
\* or a move is outstanding whose completion will send it.
GuidingStoppedOwed ==
  app.toldGuiding /\ ~CalibratingOrGuiding(app) => app.owed /\ IsBusy(app)

\* A late GuidingStopped, from the completion of a move, is never sent for a
\* run that has been started since.
GuidingTold == app.guider = "guiding" => app.toldGuiding

\* The controller settles only what is still being guided, or is about to be
\* told that it is not.
SettleWhileGuiding ==
  app.ctrl = "settleWait" => CalibratingOrGuiding(app) \/ app.owed

\* The Dec guide mode differs from the user's only within the settling of
\* the dither that overrode it, and the controller holds the user's.
DecModeRestored ==
  app.decMode # app.wantDec =>
    app.override /\ app.ctrl = "settleWait" /\ app.saveDec = app.wantDec

\* The state machine of the calibration runs while the guider calibrates,
\* through every recalibration, change of the Dec mode and failure; only a
\* client's clear_calibration takes it away.
CalibrationRuns ==
  [][/\ app'.guider = "calibrating"
     /\ app.guider # "calibrating" \/ app'.calRun # app.calRun
     => app'.calRun # "cleared" \/ ClearCalibrationRequest]_vars

\* Guiding never begins without the rates of a calibration
\* (Mount::MoveOffset), whatever is recalibrated or cleared meanwhile.
GuidesCalibrated ==
  [][/\ app'.guider \in {"calibrated", "guiding"}
     /\ app.guider \notin {"calibrated", "guiding"}
     => app'.cal # "none"]_vars

\* A star with a current position is at hand in every state that needs one:
\* BeginCalibration and the first lock position use CurrentPosition().
StarWhenSelected == app.guider # "selecting" => app.star = "valid"

\* Capture, guider and controller stop together: nothing is left calibrating
\* or guiding, nor a request waiting for frames, with capture inactive
\* ("put ourselves into a good state to restart looping", guider.cpp:939).
StopTogether ==
  ~app.active => ~CalibratingOrGuiding(app) /\ app.ctrl = "idle"

\* While the controller looks for a star it has attempts left, and while it
\* waits for the star it has frames left to wait: each countdown is started
\* afresh on every way in, is left when it comes to zero, and so is never
\* taken past zero, where `--n == 0` would not be met again ("attempts
\* remaining", phdcontrol.cpp:400 and :429).
CountdownsLast ==
  /\ app.ctrl \in {"attemptStart", "selectStar", "waitSelected"} => app.finds > 0
  /\ app.ctrl = "waitSelected" => app.waits > 0
  /\ {app.finds, app.waits} \subseteq Nat

-----------------------------------------------------------------------------
(* Liveness *)

\* A stopped capture, and a single frame, comes to its end.
StopEnds == app.active /\ ~app.continue ~> ~app.active

\* An outstanding GuidingStopped is delivered, if guiding is not restarted.
OwedDelivered ==
  app.owed /\ ~CalibratingOrGuiding(app) ~> ~app.owed \/ CalibratingOrGuiding(app)

\* Every settling ends, in success, timeout or abort, unless capture was
\* over before it began (StopTogether, stop_leaves_guiding).
SettleEnds ==
  app.ctrl = "settleWait" /\ app.active ~> app.ctrl # "settleWait" \/ ~app.active
=============================================================================
