---------------------------- MODULE AlpacaWorker ----------------------------
(***************************************************************************)
(* The worker thread with an Alpaca camera and an Alpaca mount: captures   *)
(* and pulses one after another, interrupted by the main thread.           *)
(***************************************************************************)
EXTENDS AlpacaMount

\* WorkerThread::RequestStop; every enqueued request takes it back.
RequestStop ==
  /\ flags' = flags \cup {"stop"}
  /\ UNCHANGED <<job, camera, server, mount, attempts>>
EnqueueRequest ==
  /\ flags' = flags \ {"stop"}
  /\ UNCHANGED <<job, camera, server, mount, attempts>>
\* EnqueueWorkerThreadTerminateRequest
RequestTerminate ==
  /\ flags' = {"stop", "terminate"}
  /\ UNCHANGED <<job, camera, server, mount, attempts>>

Init ==
  /\ job = Idle("none")
  /\ flags = {}
  /\ camera = CameraInit(1)
  /\ server = ServerInit(1)
  /\ mount = MountInit
  /\ attempts = {}

MainStep ==
  \/ Rest \/ RequestStop \/ EnqueueRequest \/ RequestTerminate
  \/ \E bin \in Binnings : SetBinning(bin)
  \/ \E sub \in Subframes : ProgramCamera(sub)
  \/ BeginPulse

ReconnectStep == DoTryReconnect \/ ReconnectCamera

Next == MainStep \/ CameraStep \/ MountStep \/ ReconnectTakesTime \/ ReconnectStep

Spec == Init /\ [][Next]_vars

\* The worker goes on with what it has begun, the main thread handles the
\* reconnection.
FairSpec ==
  Spec /\ WF_vars(CameraStep) /\ WF_vars(MountStep) /\ WF_vars(ReconnectStep)

-----------------------------------------------------------------------------
(* What must be true of it *)

\* The image downloaded is of the exposure that this capture started, never
\* one left over from a capture that failed, was aborted or timed out while
\* the server went on.
FreshImage == job.step = "download" => server.owner = "this"

\* The frame size that subframes and full frames are computed from is that of
\* the whole frame at the binning in force ("we know the actual frame size").
FrameSizeIsActual ==
  camera.frameSize \in {Nothing, <<"full", <<camera.hwBin, camera.hwBin>>>>}

\* A stop is obeyed well before the watchdog: at once where the abort fails,
\* and AbortWait after an abort that was acknowledged, or that a camera has
\* none of, whether or not there is ever an image.
StopInTime == job.step \in {"wait", "poll"} => job.stopFor <= AbortWait + 2

\* A camera that hangs at each exposure is given up, however long its
\* reconnections take up to ReconnectTime: no more hangs follow one another
\* than the throttle has attempts, and one.
HangsAreBounded == job.hangs <= MaxAttempts + 1

\* The mount is asked to move only when it is known not to be moving, or
\* nothing is known of it.
PulsesApart == [][mount'.overlapped /\ ~mount.overlapped => job.blind]_vars

\* A pulse reported as made is over, unless the mount could not be asked.
PulseIsMade == job.pulsed => mount.left = 0

\* Every capture and every pulse comes to its end.
JobEnds == job.step # "idle" ~> job.step = "idle"
=============================================================================
