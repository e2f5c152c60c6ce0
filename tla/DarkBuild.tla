----------------------------- MODULE DarkBuild -----------------------------
(***************************************************************************)
(* The capture loop beside the two other users of its camera: the builds   *)
(* of dark libraries and defect maps (build_dark_library and               *)
(* build_defect_map_darks of event_server.cpp), which take their frames on *)
(* the main thread and run its event loop between them, and the session    *)
(* of a polar alignment (set_pa_session), a lease that keeps others off.   *)
(* Images and files do not appear: an exposure of a build is a number of   *)
(* frames, a defect map is a build of one exposure.                        *)
(***************************************************************************)
EXTENDS CaptureRefinement, SequencesExt

CONSTANTS
  Exposures,    \* exposures of a dark library
  FrameCount,   \* frame_count, the frames of each
  CameraReturns \* {TRUE, FALSE}: whether a camera that hung in a build is reconnected

ASSUME BuildAssumption ==
  Exposures \in Nat \ {0} /\ FrameCount \in Nat \ {0} /\ CameraReturns \subseteq BOOLEAN

VARIABLES
  slot,     \* s_darkBuild.active
  deferred, \* the builds CallAfter is to run, each the number of its exposures
  calls,    \* the builds on the main thread's stack, the innermost last
  shutter,  \* pCamera->ShutterClosed
  session   \* pa_session_active()

buildVars == <<slot, deferred, calls, shutter>>
daemonVars == <<vars, buildVars, session>>

DaemonInit ==
  /\ Init
  /\ slot = FALSE /\ deferred = <<>> /\ calls = <<>> /\ shutter = FALSE
  /\ session = FALSE

\* The main thread handles events and requests but while it captures.
MainFree == calls # <<>> => ~Last(calls).exposing

-----------------------------------------------------------------------------
(* The builds *)

\* Mutant: a build that ends keeps the slot.
EndBuildReserved ==
  /\ calls' = Front(calls)
  /\ shutter' = Last(calls).hadShutterClosed
  /\ UNCHANGED slot

\* DarkBuildScope frees the slot whichever way a build ends.
EndBuild ==
  /\ slot' = FALSE
  /\ calls' = Front(calls)
  /\ shutter' = Last(calls).hadShutterClosed

\* run_dark_library_build, up to its first frame: BuildFailed at once if the
\* camera has gone or capture begun since the request
RunBuild(n) ==
  IF app.camera /\ ~app.active
  THEN /\ slot' = TRUE
       /\ calls' = Append(calls, [left |-> n, frame |-> 1, exposing |-> TRUE,
                                  hadShutterClosed |-> shutter])
       /\ shutter' = TRUE
  ELSE slot' = FALSE /\ UNCHANGED <<calls, shutter>>

\* Mutant: the slot is not reserved for an asynchronous build.
RequestBuildLater ==
  /\ ~session /\ ~slot /\ app.camera /\ ~app.active
  /\ \E n \in {Exposures, 1} :
       \/ deferred' = Append(deferred, n) /\ UNCHANGED <<slot, calls, shutter>>
       \/ RunBuild(n) /\ UNCHANGED deferred
  /\ UNCHANGED <<vars, session>>

\* The request: an asynchronous build reserves the slot and runs from the
\* event queue, a synchronous one runs within the request.
RequestBuild ==
  /\ ~session /\ ~slot /\ app.camera /\ ~app.active
  /\ \E n \in {Exposures, 1} :
       \/ slot' = TRUE /\ deferred' = Append(deferred, n) /\ UNCHANGED <<calls, shutter>>
       \/ RunBuild(n) /\ UNCHANGED deferred
  /\ UNCHANGED <<vars, session>>

RunDeferred ==
  /\ deferred # <<>>
  /\ deferred' = Tail(deferred)
  /\ RunBuild(Head(deferred))
  /\ UNCHANGED <<vars, session>>

Resumed(call) == calls' = [calls EXCEPT ![Len(calls)] = call]

\* GuideCamera::Capture returns the frame; the event loop runs (wxYield).
DarkFrame ==
  /\ calls # <<>> /\ Last(calls).exposing
  /\ Resumed([Last(calls) EXCEPT !.exposing = FALSE])
  /\ UNCHANGED <<vars, slot, deferred, shutter, session>>

\* The capture fails, and the build with it.
DarkFrameFails ==
  /\ calls # <<>> /\ Last(calls).exposing
  /\ EndBuild
  /\ UNCHANGED <<vars, deferred, session>>

\* The capture times out: DisconnectWithAlert on the main thread calls
\* DoTryReconnect at once, which repeats or ends an exposure as if the
\* capture loop's had hung.
DarkFrameHangs ==
  /\ calls # <<>> /\ Last(calls).exposing
  /\ worker.hangs < MaxHangs
  /\ worker' = [worker EXCEPT !.hangs = @ + 1]
  /\ \E returns \in CameraReturns :
       app' = IF returns THEN ScheduleExposure([app EXCEPT !.pending = FALSE])
              ELSE ExposureEnds([app EXCEPT !.camera = FALSE])
  /\ EndBuild
  /\ UNCHANGED <<events, deferred, session>>

\* After the event loop: the next frame, or the next exposure if the camera
\* is still there and free, or the end of the build.
ContinueBuild ==
  /\ calls # <<>> /\ ~Last(calls).exposing
  /\ LET call == Last(calls)
         again == [call EXCEPT !.exposing = TRUE]
     IN CASE call.frame < FrameCount ->
               Resumed([again EXCEPT !.frame = @ + 1]) /\ UNCHANGED <<slot, shutter>>
          [] call.frame = FrameCount /\ call.left > 1 /\ app.camera /\ ~app.active ->
               /\ Resumed([again EXCEPT !.frame = 1, !.left = @ - 1])
               /\ UNCHANGED <<slot, shutter>>
          [] OTHER -> EndBuild
  /\ UNCHANGED <<vars, deferred, session>>

BuildStep == DarkFrame \/ DarkFrameFails \/ DarkFrameHangs \/ ContinueBuild

-----------------------------------------------------------------------------
(* The session of a polar alignment *)

SetPaSession == ~CalibratingOrGuiding(app) /\ session' = TRUE /\ UNCHANGED <<vars, buildVars>>

\* it is ended, or its lease runs out
PaSessionEnds == session /\ session' = FALSE /\ UNCHANGED <<vars, buildVars>>

-----------------------------------------------------------------------------
\* VERIFY_NO_PA_SESSION and VERIFY_NO_DARK_BUILD
ExclusiveRequest ==
  /\ ~session /\ ~slot
  /\ \/ Loop \/ Dither \/ GuidePulse \/ ConnectCamera \/ ConnectMount
     \/ \E r \in {"guide", "recalibrate"} : GuideRequest(r)

\* the orchestrator of a session takes its frames with capture_single_frame
SingleFrameRequest == ~slot /\ CaptureSingleFrame

OtherRequest ==
  \/ Stop \/ Pause("pauseGuiding", "guiding") \/ Pause("pauseFull", "full") \/ Resume
  \/ FindStarRequest \/ DeselectStar \/ SetDecGuideMode \/ ClearCalibrationRequest

LoopStep ==
  /\ \/ WorkerStep
     \/ /\ MainFree
        /\ MainStep \/ ExclusiveRequest \/ SingleFrameRequest \/ OtherRequest
  /\ UNCHANGED <<buildVars, session>>

DaemonNext ==
  \/ LoopStep
  \/ MainFree /\ (RequestBuild \/ RunDeferred \/ SetPaSession)
  \/ BuildStep \/ PaSessionEnds

DaemonSpec == DaemonInit /\ [][DaemonNext]_daemonVars

\* The main thread runs what is posted to it, and a build's captures end.
DaemonFairSpec ==
  DaemonSpec /\ WF_daemonVars(BuildStep) /\ WF_daemonVars(MainFree /\ RunDeferred)

-----------------------------------------------------------------------------
\* The camera has one user at a time: while a build is accepted or under way
\* capture is inactive and there is no second build, no two threads are in a
\* capture at once, and no frame for guiding is taken with the shutter closed.
\* (A capture that hung has disconnected the camera and has only to return.)
CameraAlone ==
  /\ slot => ~app.active
  /\ Len(deferred) + Len(calls) <= 1
  /\ worker.job = "capture" /\ ~worker.skip => ~shutter /\ MainFree

\* An accepted build comes to an end, and the slot is free for the next.
BuildEnds == slot ~> ~slot

\* A session is not given while calibrating or guiding, and a request that
\* would move the mount is rejected in it: nothing calibrates or guides.
SessionIsQuiet == session => ~CalibratingOrGuiding(app)
=============================================================================
