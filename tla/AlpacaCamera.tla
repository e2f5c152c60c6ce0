---------------------------- MODULE AlpacaCamera ----------------------------
(***************************************************************************)
(* CameraAlpaca::Capture in the worker thread: programming the camera,     *)
(* starting the exposure, polling for the image with a watchdog and an     *)
(* abort, downloading it; and the reconnection after a hang.               *)
(***************************************************************************)
EXTENDS AlpacaDevices, FiniteSets

Nothing == <<"none", <<0, 0>>>>  \* UNDEFINED_FRAME_SIZE, an empty rectangle

CameraInit(bin) ==
  [connected |-> TRUE, hwBin |-> bin, curBin |-> bin, roi |-> Nothing,
   frameSize |-> Nothing, sub |-> FALSE]
ServerInit(bin) ==
  [bins |-> <<bin, bin>>, area |-> "full", state |-> "idle", left |-> 0,
   owner |-> "none"]
Idle(result) ==
  [step |-> "idle", t |-> 0, aborted |-> FALSE, abortT |-> 0, stopFor |-> 0,
   result |-> result, hangs |-> 0, blind |-> FALSE,
   pulsed |-> FALSE]

\* What a capture returns; only a hang keeps the count of hangs.
Fails == job' = Idle("error")
Succeeds == job' = Idle("ok")

\* Time between one job of the worker and the next; hangs that follow a
\* pause are not counted with those before it.
Rest ==
  /\ job.step = "idle"
  /\ Elapse
  /\ job' = [job EXCEPT !.hangs = 0, !.t = 0]
  /\ UNCHANGED <<flags, camera>>

-----------------------------------------------------------------------------
(* Programming the camera.  No time passes and the main thread takes no    *)
(* part in it, so that each of the two requests' series is one action.     *)

\* GuideCamera::SetBinning, by a single exposure while none is under way
SetBinning(bin) ==
  /\ job.step = "idle"
  /\ camera' = [camera EXCEPT !.hwBin = bin]
  /\ UNCHANGED <<job, flags, server, mount, attempts>>

BinningChanged == camera.hwBin # camera.curBin

\* what is known of the frame's size once the binning is set
KnownSize ==
  IF ~BinningChanged THEN camera.frameSize
  ELSE IF camera.hwBin = 1 THEN <<"full", <<1, 1>>>> ELSE Nothing

TakesSubframe(sub) == sub /\ ~BinningChanged /\ camera.frameSize # Nothing

\* The frame to ask for: a subframe, or what the frame's size is known or
\* assumed to be; the size of a frame that was not whole is a corner of it.
WantedArea(sub) ==
  CASE TakesSubframe(sub) -> "sub"
    [] /\ ~TakesSubframe(sub)
       /\ KnownSize \in {Nothing, <<"full", <<camera.hwBin, camera.hwBin>>>>} -> "full"
    [] OTHER -> "corner"

\* StartX, StartY, NumX and NumY, unless the rectangle is as before or the
\* full frame; failures are passed over and the rectangle counts as set.
AreasSet(sub) ==
  IF <<WantedArea(sub), camera.hwBin>> = camera.roi \/ WantedArea(sub) = "full"
  THEN {server.area}
  ELSE {WantedArea(sub), "mixed", server.area}

BinsKept == {[bins |-> server.bins, ok |-> TRUE]}
\* BinX and, when that is answered, BinY
BinsPut ==
  {[bins |-> <<IF Executed(x) THEN camera.hwBin ELSE server.bins[1],
               IF Told(x) /\ Executed(y) THEN camera.hwBin ELSE server.bins[2]>>,
    ok |-> Told(x) /\ Told(y)] : x, y \in PutAnswers}
BinsSet == IF ~BinningChanged THEN BinsKept ELSE BinsPut

ProgramCamera(sub) ==
  /\ job.step = "idle" /\ camera.connected
  /\ \E set \in BinsSet, area \in AreasSet(sub) :
       IF set.ok
       THEN /\ server' = [server EXCEPT !.bins = set.bins, !.area = area,
                                        !.owner = IF @ = "this" THEN "other" ELSE @]
            /\ camera' = [camera EXCEPT !.curBin = camera.hwBin,
                            !.frameSize = KnownSize, !.sub = TakesSubframe(sub),
                            !.roi = <<WantedArea(sub), camera.hwBin>>]
            /\ job' = [Idle("none") EXCEPT !.step = "start", !.t = job.t,
                                           !.hangs = job.hangs]
       ELSE /\ server' = [server EXCEPT !.bins = set.bins]
            /\ camera' = [camera EXCEPT !.frameSize = KnownSize]
            /\ Fails
  /\ UNCHANGED <<flags, mount, attempts>>

\* The server refuses an exposure while it has one.
Accepts(answer) == Executed(answer) => server.state # "exposing"

Exposing(late) ==
  [server EXCEPT !.state = "exposing", !.owner = "this",
                 !.left = IF late = Never THEN Never ELSE Exposure + late]

Started ==
  job' = [job EXCEPT !.step = IF Exposure > 1 THEN "wait" ELSE "poll", !.t = 0]

\* Mutant: an exposure that could not be started is waited for.
StartExposureAnyhow ==
  /\ job.step = "start"
  /\ \E answer \in PutAnswers, late \in Delays :
       /\ Accepts(answer)
       /\ server' = IF Executed(answer) THEN Exposing(late) ELSE server
  /\ Started
  /\ UNCHANGED <<flags, camera, mount, attempts>>

\* StartExposure, once: an exposure whose answer is lost goes on unattended.
StartExposure ==
  /\ job.step = "start"
  /\ \E answer \in PutAnswers, late \in Delays :
       /\ Accepts(answer)
       /\ server' = IF Executed(answer) THEN Exposing(late) ELSE server
       /\ IF Told(answer) THEN Started ELSE Fails
  /\ UNCHANGED <<flags, camera, mount, attempts>>

-----------------------------------------------------------------------------
(* Waiting for the image *)

AbortAnswers == IF CanAbort THEN PutAnswers ELSE {"unsent"}

\* The server may go on exposing, drop the image ("ack abort but never flip
\* imageready") or have ready what there is of it.
Aborted(s, answer) ==
  IF Executed(answer) /\ s.state = "exposing"
  THEN {s} \cup {[s EXCEPT !.state = next, !.left = 0] : next \in {"idle", "ready"}}
  ELSE {s}

\* AbortExposure's result: a camera that cannot abort is no error.
AbortFails(answer) == CanAbort /\ ~Told(answer)

\* how long an interrupt has been requested, as the loops see it
Interrupted(j) == [j EXCEPT !.stopFor = IF flags = {} THEN 0 ELSE @ + 1]

\* CameraAlpaca::AbortExposure, then the wait for an image after all, unless
\* it failed
AbortExposure(j) ==
  \E answer \in AbortAnswers :
    /\ server' \in Aborted(ServerAfter(server), answer)
    /\ IF AbortFails(answer) THEN Fails
       ELSE job' = [Interrupted(j) EXCEPT !.step = "poll", !.aborted = TRUE, !.abortT = 0]

\* The sleep until near the end of the exposure, WorkerThread::MilliSleep:
\* a tick, then a look at the interrupts
WaitForExposure ==
  /\ job.step = "wait"
  /\ mount' = MountAfter(mount) /\ attempts' = AttemptsAfter
  /\ LET j == [job EXCEPT !.t = @ + 1]
     IN CASE flags = {} ->
               /\ job' = [Interrupted(j) EXCEPT
                            !.step = IF j.t < Exposure - 1 THEN "wait" ELSE "poll"]
               /\ server' = ServerAfter(server)
          [] "terminate" \in flags -> Fails /\ server' = ServerAfter(server)
          [] flags = {"stop"} -> AbortExposure(j)
  /\ UNCHANGED <<flags, camera>>

\* GuideCamera::DisconnectWithAlert and CameraAlpaca::Disconnect: the size
\* and the rectangle are forgotten, the reconnection is the main thread's.
\* The server may drop its exposure when it is told to disconnect.
Disconnect(s) ==
  /\ server' \in {s, [s EXCEPT !.state = "idle", !.left = 0]}
  /\ camera' = [camera EXCEPT !.connected = FALSE, !.frameSize = Nothing,
                              !.roi = Nothing, !.curBin = 1]
  /\ job' = [Idle("none") EXCEPT !.step = "hung", !.hangs = job.hangs + 1]

Expired(j) == j.t > Exposure + CaptureTimeout

\* Mutant: the wait after an acknowledged abort has no limit of its own.
GivesUpNever(j) == FALSE
GivesUp(j) == j.aborted /\ j.abortT > AbortWait

\* the first look that finds a stop requested: an abort, then the watchdog
AbortOrWatch(s, j) ==
  \E answer \in AbortAnswers : \E t \in Aborted(s, answer) :
    CASE AbortFails(answer) -> Fails /\ server' = t /\ UNCHANGED camera
      [] ~AbortFails(answer) /\ Expired(j) -> Disconnect(t)
      [] OTHER -> /\ job' = [j EXCEPT !.aborted = TRUE, !.abortT = 0]
                  /\ server' = t /\ UNCHANGED camera

\* One round of the polling loop: a sleep, ImageReady, the interrupts, the
\* watchdog, in this order
PollImage ==
  /\ job.step = "poll"
  /\ mount' = MountAfter(mount) /\ attempts' = AttemptsAfter
  /\ LET j == Interrupted([job EXCEPT !.t = IF Expired(job) THEN @ ELSE @ + 1,
                             !.abortT = IF job.aborted THEN @ + 1 ELSE @])
         s == ServerAfter(server)
         Watch(t) == IF Expired(j) THEN Disconnect(t)
                     ELSE job' = j /\ server' = t /\ UNCHANGED camera
         GoesOn(next) == job' = next /\ server' = s /\ UNCHANGED camera
     IN \/ Fails /\ server' = s /\ UNCHANGED camera         \* no answer
        \/ s.state = "ready" /\ GoesOn([j EXCEPT !.step = "download"])
        \/ /\ s.state # "ready"
           /\ CASE flags = {} -> Watch(s)
                [] "terminate" \in flags -> GoesOn(Idle("error"))
                [] flags = {"stop"} /\ job.aborted ->
                     IF GivesUp(j) THEN GoesOn(Idle("error")) ELSE Watch(s)
                [] OTHER -> AbortOrWatch(s, j)
  /\ UNCHANGED flags

\* ImageArray: the size of a frame that is not a subframe is learnt from it.
Download ==
  /\ job.step = "download"
  /\ \/ Fails /\ UNCHANGED camera
     \/ /\ Succeeds
        /\ camera' = IF camera.sub THEN camera
                     ELSE [camera EXCEPT !.frameSize = <<server.area, server.bins>>]
  /\ UNCHANGED <<flags, server, mount, attempts>>

-----------------------------------------------------------------------------
(* MyFrame::DoTryReconnect, on the main thread *)

\* Time between a hang and the next exposure: the event's way to the main
\* thread, the connection, the requests that program and start the camera.
ReconnectTakesTime ==
  /\ job.step \in {"hung", "reconnect", "idle", "start"}
  /\ job.hangs > 0 /\ job.t < ReconnectTime
  /\ Elapse
  /\ job' = [job EXCEPT !.t = @ + 1]
  /\ UNCHANGED <<flags, camera>>

\* Mutant: attempts are not remembered.
RememberNone == attempts' = {}
RememberAttempt == attempts' = attempts \cup {0}

\* Mutant: the throttle returns without completing the exposure.
DoTryReconnectSilently ==
  /\ job.step = "hung"
  /\ Cardinality(attempts) + 1 <= MaxAttempts
  /\ RememberAttempt
  /\ job' = [job EXCEPT !.step = "reconnect"]
  /\ UNCHANGED <<flags, camera, server, mount>>

\* up to the attempt, which is remembered from its start
DoTryReconnect ==
  /\ job.step = "hung"
  /\ IF Cardinality(attempts) + 1 > MaxAttempts
     THEN Fails /\ UNCHANGED attempts
     ELSE RememberAttempt /\ job' = [job EXCEPT !.step = "reconnect"]
  /\ UNCHANGED <<flags, camera, server, mount>>

\* GearDialog::ReconnectCamera and CameraAlpaca::Connect: the binning is
\* programmed unless it is 1; a failure completes the exposure with an error.
ReconnectCamera ==
  /\ job.step = "reconnect"
  /\ \E set \in (IF camera.hwBin = 1 THEN BinsKept ELSE BinsPut), reached \in BOOLEAN :
       /\ server' = IF reached THEN [server EXCEPT !.bins = set.bins] ELSE server
       /\ IF reached /\ set.ok
          THEN /\ camera' = [camera EXCEPT !.connected = TRUE, !.curBin = camera.hwBin]
               /\ job' = [job EXCEPT !.step = "idle"]
          ELSE Fails /\ UNCHANGED camera
  /\ UNCHANGED <<flags, mount, attempts>>

CameraStep == StartExposure \/ WaitForExposure \/ PollImage \/ Download
=============================================================================
