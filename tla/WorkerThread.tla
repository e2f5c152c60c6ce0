---------------------------- MODULE WorkerThread ----------------------------
(***************************************************************************)
(* The primary worker thread (worker_thread.cpp) and the MyFrame methods   *)
(* that enqueue its requests.  Moves go to the high priority queue,        *)
(* exposures to the low priority one; the thread takes from the high       *)
(* priority queue whenever that is not empty.  While a request is          *)
(* serviced the main thread goes on.                                       *)
(***************************************************************************)
EXTENDS AppState

-----------------------------------------------------------------------------
(* Requests, called on the main thread *)

\* Mount::IncrementRequestCount, with its assertion
IncrementRequestCount(s) ==
  Assert_([s EXCEPT !.reqs = @ + 1], "request count", s.reqs + 1 <= 2)

\* MyFrame::ScheduleExposure; every Enqueue... clears INT_STOP
ScheduleExposure(s) ==
  [Assert_(s, "exposure not pending", ~s.pending)
     EXCEPT !.pending = TRUE, !.low = @ + 1, !.intStop = FALSE]

\* MyFrame::SchedulePrimaryMove and ScheduleAxisMove, for a counted move
ScheduleMove(s) ==
  [IncrementRequestCount(s) EXCEPT !.high = Append(@, "move"), !.intStop = FALSE]

\* MyFrame::ScheduleManualMove: MOVEOPT_MANUAL leaves the request count alone
ScheduleManualMove(s) ==
  [s EXCEPT !.high = Append(@, "pulse"), !.intStop = FALSE]

\* WorkerThread::RequestStop
RequestStop(s) == [s EXCEPT !.intStop = TRUE]

-----------------------------------------------------------------------------
(* The thread: one action per point at which the other threads are seen *)

WorkerInit == [job |-> "none", skip |-> FALSE, hangs |-> 0]

Post(e) == events' = Append(events, e)

\* Entry(): a counted or manual move is taken before any exposure.
TakeMove ==
  /\ worker.job = "none"
  /\ app.high # <<>>
  /\ worker' = [worker EXCEPT !.job = Head(app.high)]
  /\ app' = [app EXCEPT !.high = Tail(@)]
  /\ UNCHANGED events

\* Mutant: the low priority queue does not wait for the high priority one.
TakeExposureFirst ==
  /\ worker.job = "none"
  /\ app.low > 0
  /\ worker' = [worker EXCEPT !.job = "delay"]
  /\ app' = [app EXCEPT !.low = @ - 1]
  /\ UNCHANGED events

TakeExposure ==
  /\ worker.job = "none"
  /\ app.high = <<>>
  /\ app.low > 0
  /\ worker' = [worker EXCEPT !.job = "delay"]
  /\ app' = [app EXCEPT !.low = @ - 1]
  /\ UNCHANGED events

\* HandleMove and SendWorkerThreadMoveComplete
FinishMove ==
  /\ worker.job = "move"
  /\ worker' = [worker EXCEPT !.job = "none"]
  /\ \E e \in MoveEvents : Post(e)
  /\ UNCHANGED app

FinishPulse ==
  /\ worker.job = "pulse"
  /\ worker' = [worker EXCEPT !.job = "none"]
  /\ Post("pulseDone")
  /\ UNCHANGED app

\* HandleExpose: the time lapse sleep ends, uninterrupted
StartCapture ==
  /\ worker.job = "delay"
  /\ ~app.intStop
  /\ worker' = [worker EXCEPT !.job = "capture"]
  /\ UNCHANGED <<app, events>>

\* Mutant: the completion is sent whether or not it is to be skipped.
SendExposeCompleteAlways(e) ==
  worker' = [worker EXCEPT !.job = "none", !.skip = FALSE] /\ Post(e) /\ UNCHANGED app

\* The end of REQUEST_EXPOSE: the completion is sent, unless the camera
\* asked to have it skipped; the flag is cleared either way.
SendExposeComplete(e) ==
  /\ worker' = [worker EXCEPT !.job = "none", !.skip = FALSE]
  /\ IF worker.skip THEN UNCHANGED events ELSE Post(e)
  /\ UNCHANGED app

\* MilliSleep sees INT_STOP: "Time lapse interrupted"
InterruptDelay ==
  /\ worker.job = "delay"
  /\ app.intStop
  /\ SendExposeComplete("exposeError")

\* GuideCamera::Capture returns a frame
CaptureFrame ==
  /\ worker.job = "capture"
  /\ ~worker.skip
  /\ SendExposeComplete("exposed")

\* GuideCamera::Capture fails, is interrupted, or has disconnected below
CaptureError ==
  /\ worker.job = "capture"
  /\ SendExposeComplete("exposeError")

\* The watchdog of the capture expires: DisconnectWithAlert disconnects the
\* camera and, through InitiateReconnect, sets the skip flag and queues the
\* reconnect event; Capture then returns an error.
CameraHang ==
  /\ worker.job = "capture"
  /\ ~worker.skip
  /\ worker.hangs < MaxHangs
  /\ app' = [app EXCEPT !.camera = FALSE]
  /\ worker' = [worker EXCEPT !.skip = TRUE, !.hangs = @ + 1]
  /\ Post("reconnect")

WorkerStep ==
  \/ TakeMove \/ TakeExposure \/ FinishMove \/ FinishPulse
  \/ StartCapture \/ InterruptDelay \/ CaptureFrame \/ CaptureError
  \/ CameraHang
=============================================================================
