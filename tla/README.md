# TLA+ models of the OpenAstro Guider

This directory specifies the control core of the guider daemon (`src/`): how it
captures frames, calibrates a mount, guides on a star, dithers, settles and builds dark
libraries while clients send requests, a worker thread talks to the equipment, and
cameras hang; and, in models of their own, a calibration pulse by pulse, the worker's
conversation with an Alpaca camera and mount, the clients' connections, and the thread
that watches the imaging gear.
`PROJECT.json` lists components, runs, mutants, the map from definitions to source
lines, findings, hazards and theorems.

## 1. The system

The daemon is one process. The **wx main thread** owns nearly all state. It handles,
one at a time and to completion, the requests of JSON-RPC clients (`event_server.cpp`)
and the events that the **primary worker thread** (`worker_thread.cpp`) posts when a
move or an exposure is done. The worker takes *moves* from a high-priority queue and
*exposures* from a low-priority one. A frame drives everything: `OnExposeComplete`
passes it to the guider, then to the controller, then schedules the next exposure.

```
 clients ──requests──▶ MyFrame / Guider / PhdController (main thread) ──notifications──▶ clients
                          │ ScheduleExposure, Schedule*Move      ▲ OnExposeComplete
                          ▼                                      │ OnMoveComplete
                 low / high priority queue ──▶ worker thread ────┘ DoTryReconnect
                                                │ Capture / MoveOffset / MoveAxis
                                                ▼
                                           camera, mount (mostly over Alpaca HTTP)
```

### Inventory

| component | state it keeps | operations | hard behaviours | what makes it correct |
|---|---|---|---|---|
| worker thread (`worker_thread.cpp`) | two queues, interrupt flags, `m_skipSendExposeComplete` | take, move, expose, interruptible sleep, post completion, terminate | runs beside the main thread; INT_STOP cleared by every enqueue | each request is completed once; moves before frames |
| capture loop (`myframe.cpp`, `myframe_events.cpp`) | `m_continueCapturing`, `CaptureActive`, `m_exposurePending`, `m_singleExposure` | StartCapturing, StopCapturing, SetPaused, StartLooping, OnExposeComplete, OnMoveComplete, DoTryReconnect | intent and activity differ while an exposure is out; pauses drop frames; errors and reconnects | exactly one exposure under way; capture goes on while wanted and ends when stopped |
| guider (`guider.cpp`, `guider_multistar.cpp`) | `m_state`, `m_paused`, the primary star, lock position, sticky setting | SetState, UpdateGuideState, StartGuiding, StopGuiding, Reset, AutoSelect | driven by frames and by requests between frames; the end of guiding is reported late when a move is out | clients hear of each end of guiding after its last step; states that need a star have one |
| mount, scope (`mount.cpp`, `scope.cpp`) | `m_requestCount`, calibration and its state machine, Dec guide mode, limits | BeginCalibration, UpdateCalibrationState, ClearCalibration, MoveOffset | calibration spans many frames and may be changed by requests; the Dec mode decides if it suffices | moves counted; no correction without rates |
| controller (`phdcontrol.cpp`) | `ctrl`: state, attempts, saved Dec mode and sticky setting, settle counters | Guide, Dither, UpdateControllerState, AbortController | one pass may go through several states; aborted from stop, error and the end of guiding | ends every settling; gives back what it overrode; idle when capture is |
| camera base class (`camera.cpp`), Alpaca camera (`cam_alpaca.cpp`) | connection, exposure, binning, download and watchdog state | Capture, abort, disconnect with alert, reconnect | polling loop against watchdog, abort and late image | a capture ends, and asks for at most one reconnect |
| reconnect (`myframe.cpp` DoTryReconnect) | times of recent attempts | connect again, repeat the exposure, or give up | throttle of 3 attempts in 60 s | the pending exposure is repeated or ended |
| requests (`event_server.cpp`, `connect_request.cpp`) | none of their own for capture | guide, dither, loop, stop_capture, set_paused, ... | arrive between any two events | a request is refused or has its documented outcome |
| builds of darks (`event_server.cpp`) | `s_darkBuild`, `ShutterClosed`, builds posted by CallAfter | build_dark_library, build_defect_map_darks, the frames on the main thread | the event loop runs between two frames, with the build on the stack | one user of the camera at a time; the slot is freed at last |
| polar alignment lease (`event_server.cpp`) | `s_paSessionExpiresMs` | set_pa_session, expiry | given by what the guider does at that moment | nothing calibrates or guides in a session |
| clients' sockets (`event_server.cpp`) | client sets, per-client read buffer, `sendbuf`, references, write lock | accept, read, handle, respond, notify, drain, lose | partial writes, slow readers, requests nested in the event loop of others, notifications from the worker | bytes in order, none lost; no data used after it is deleted; queues drain |
| Alpaca client and mount (`alpaca_client.cpp`, `scope_alpaca.cpp`) | attempts, whether the mount can be asked if it moves | GET with retries, PUT once, Guide | lost answers | a pulse is made once, and not over another |
| imaging gear (`imaging_gear_poller.cpp`) | context, snapshot, queued lines, intervals | SetContext, PollOnce, Publish | a thread of its own; copies under a lock | no snapshot of another server's gear after a change |
| guiding assistant, backlash compensation, guide algorithms, statistics | measurement phases, pulse histories, windows | per-frame updates | numeric edges, changes of direction | bounded pulses; sums equal to their definitions |
| background calls (`runinbg.cpp`) | helper thread, cancel and done flags | run, cancel, wait | cancel races completion | never joined twice, never leaked |
| configuration, JSON parser, discovery, capture-file cleanup, star finding, polar-alignment tools, GUI, simulators, step guider | – | – | – | not modelled, see section 8 |

Requests enter through `event_server.cpp` and call `MyFrame`, `Guider` and
`PhdController` directly. The controller calls back into `MyFrame::StartGuiding`;
`Guider::StopGuiding` reaches, through `MyFrame::NotifyGuidingStopped`, back into the
controller's abort; `DoTryReconnect` calls `OnExposeComplete`. These call cycles,
between objects that each keep a state machine, are where the hazards are.

## 2. The modules

| module | models | notes |
|---|---|---|
| `AppState` | the state: one record `app` for all that the main thread owns and the two queues, one record `worker`, the FIFO `events` of wx events posted to the main thread | constants and their assumption, types, `AppInit` |
| `WorkerThread` | `MyFrame::Schedule*`, `RequestStop`, and the thread's steps | one action per point at which the main thread may act in between |
| `Guider` | `Guider`, `GuiderMultiStar`, the calibration of `Scope` in two legs, the notifications of guiding, the controller's abort | operators from state to state |
| `MyFrame` | the capture loop's methods and the completion of a move | |
| `PhdController` | `UpdateControllerState`, one operator per case of the switch; Guide and Dither | |
| `CaptureLoop` | the composition: handlers of events, requests of clients, `Init`, `Next`, `Spec`, fairness | |
| `CaptureProperties` | what must be true | |
| `CaptureSession` | capture as a client may understand it: idle, looping, single, stopping, held by a full pause | abstract, without flags or queues |
| `CaptureRefinement` | the refinement mapping from `CaptureLoop` to `CaptureSession` | |
| `DarkBuild` | the builds of darks and the lease of a polar alignment, composed with the whole of `CaptureLoop` | the main thread's stack, CallAfter, and the requests' two guards |
| `CalibrationRun` | `UpdateCalibrationState` in full, on a mount with backlash | the world in whole pixels |
| `CalibrationRefinement` | `CalibrationRun` implements the two legs of `Guider` | the detail and the abstraction that `CaptureLoop` uses |
| `AlpacaDevices`, `AlpacaCamera`, `AlpacaMount`, `AlpacaWorker` | the worker thread inside a capture or a pulse over Alpaca: requests, clocks, watchdog, abort, reconnect | a closer look at what `WorkerThread` calls CaptureFrame, CaptureError, CameraHang and FinishMove |
| `EventClients` | the sockets, the clients' data and its lifetime, `sendbuf`, notifications from two threads | |
| `GearPoller` | the imaging gear's thread and the context the main thread sets | |
| `CaptureProofs`, `MoveProofs`, `GuidingProofs` | the theorems about the capture loop and their proofs | in this order, each on the ones before; `DarkBuildProofs` is on the first two |
| `DarkBuildProofs`, `CalibrationProofs`, `AlpacaProofs`, `EventClientsProofs`, `GearPollerProofs` | the theorems about these modules | `CalibrationProofs` has the refinement of the two legs too |
| `MCCapture`, `MCDarkBuild`, `MCAlpaca` | sets of requests and of delays for TLC | |

**State-passing style.** In the capture loop a handler on the main thread is atomic with
respect to everything but the worker, and is a sequence of nested calls. Each method is
therefore an operator from the `app` record before the call to the record after it, and a
handler is their composition in the code's order:
`FrameTaken` is `UpdateGuideState`, then `UpdateControllerState`, then
`CaptureActive = m_continueCapturing`, then `ScheduleExposure` or `FinishStop`,
as in `OnExposeComplete` (`myframe_events.cpp:532`). A loop of the controller's switch
that goes round again is the application of the next case's operator; none of these is
recursive, since the cases only lead forward within one frame. `CalibrationRun` is
written the same way: a fall-through of the switch is the next state's operator.

The queues are inside `app` because the main thread fills them; the worker's steps
`TakeMove` and `TakeExposure` empty them. This makes an enqueue atomic with the rest of
the handler. That is sound for the properties stated: between the enqueue and the end
of the handler the worker could at most take the request and post an event, and the
main thread looks at neither before the handler returns. What the worker does see is
INT_STOP, which `ScheduleExposure` clears and `RequestStop` sets.

**What a frame shows** is data: the record `Outcome` says whether the star is found,
what an automatic selection finds, whether a calibration leg goes on, ends or fails,
whether the algorithms ask for a move, and whether the offset is in range or time is
up. `FrameOutcomes` keeps one value of each field that the handler would not look at;
this only removes duplicates of the same step.

**Asserts.** A debug build stops at a failing `assert()`; release builds are compiled
without. The model records the failure in `app.failed` and goes on as a release build
does, so that properties can be stated about either.

**History fields.** `toldGuiding`, `owed` and `wantDec` (capture loop) say what clients
were told and asked for; `world.failed` (calibration) that the mount missed a pulse;
`owner`, `pulsed`, `blind`, `overlapped`, `hangs` and `stopFor` (Alpaca) whose the image
is and what has been promised of a pulse; `settled` (poller) where the wheel last stood;
`touched` (clients) that deleted data was used, after which nothing more happens. Nothing
in the modelled code reads them. What is `owed` is a GuidingStopped that waits for the
completion of a move; if the guider is at work again when that move completes, the code
sends none (`myframe_events.cpp:645`) and nothing is owed any more.

**Counters.** `ctrl.autoFindAttemptsRemaining`, `ctrl.waitSelectedRemaining` and
`m_requestCount` are integers that the code decrements without a look at zero
(`phdcontrol.cpp:401`, `:430`, `mount.cpp:1405`), and so does the model. That they stay
natural numbers is what `CountdownsLast` and `MovesAccounted` say.

**Loop with capture inactive.** `StartLooping` stops a guider only while `CaptureActive` is
set. A guider that a stop left guiding or calibrating (`stop_leaves_guiding`) goes on with
the frames of a later loop; no GuidingStopped is sent, as none is in the code.

**Dark builds.** A build occupies the main thread: while a frame of it is exposed
(`~MainFree`) no handler runs, and in its `wxYield` between two frames any of them may,
with the build below it on the stack `calls`. A synchronous build starts within its
request; an asynchronous one reserves `slot` and starts later from the event queue
(`deferred`), where it may find the camera gone. `DarkFrameHangs` is the path through
`DisconnectWithAlert`, which on the main thread runs `DoTryReconnect` at once. A build is
its number of exposures and of frames each; a defect map is a build of one exposure.

**Alpaca.** Time is counted in ticks and passes only in the worker's own sleeps, as the
code counts it; the exposure and the pulse go on at the server meanwhile. A PUT is made
once: `PutAnswers` has *done*, *refused*, *lost* (executed, the answer lost) and *unsent*.
A GET, after its retries, has an answer or none. The server may be late by a tick or never
get ready (`Delays`).

A stop makes the capture abort the exposure. `CameraAlpaca::AbortExposure` returns an error
when the abort was refused or not answered, and the capture ends at once with it. An abort
that is acknowledged, or that the camera cannot do, is no error: the capture polls on for
up to `AbortWait` (`kPostAbortTimeoutMs`), and downloads what becomes ready meanwhile. What
a server does with an abort it executes is open (`Aborted`): it may go on exposing, drop the
image, or have one. A stop that is taken back by the next request during that wait leaves
only the watchdog to end it.

A reconnect is two steps of the main thread: `DoTryReconnect` up to the attempt, which it
stamps with its time, and `ReconnectCamera`, which connects, programs the binning unless it
is 1, and forgets what the driver knew of the camera. Up to `ReconnectTime` ticks pass from
a hang to the start of the next exposure (`ReconnectTakesTime`), which stand for the event's
way to the main thread, the connection, and the requests. Apart from that the duration of a
request is not modelled: a request takes no time against the clocks of its own loop. The
corrections of frames do not come between a hang and the end of its reconnect; a pulse that
a client asks for could, and is left out there.

**Clients.** A byte sent to a client is known by its place in all that is sent to it,
which is what `Lossless` needs: the concatenation of what the socket took and what is
queued is 1, 2, 3, ... A request that runs the event loop is on `stack` until it responds,
and socket events are handled meanwhile, up to `MaxNesting` deep. Deleted data can be used
in two ways, and `touched` says so in both. The worker walks the client set one client at a
time (`WorkerSend`), and the client it stands at may be gone. And `OnHttpServerClientEvent`
looks into the client's data after the handler has given up its reference
(`event_server.cpp:8227-8240`): if the HTTP client was lost while its request ran the event
loop, or a second request of the same client within it has closed the connection, that
reference was the last (`RespondHttp`). The server's own reference can even be given up
twice then, so that the outer request runs without data. After either the program's
behaviour is undefined and the model stops (`Defined`). `Lossless` and `DataIsHeld` are
claimed of every state up to and including that one; the liveness of the queues and of the
HTTP connections is claimed only of behaviours without it. Event clients have no such
path: `DataIsHeld` says that their data lasts exactly as long as it is needed.

**Poller.** One action per stretch between two acquisitions of the lock: copy the context,
poll, publish, wait. The filter wheel stands for the devices with a position.

## 3. Hazards

`PROJECT.json` lists them with their lines. The ones the core is about:
one flag (`m_exposurePending`) for an exposure that passes through two queues, two
threads and perhaps a reconnect; a stop that arrives while the last frame is in the
event queue; a GuidingStopped that has to wait for a move; pauses that drop completions;
an error path with five things to put back; a calibration that fails, is cleared or
loses its Dec mode under a controller that waits for it; settings overridden for a
while and restored on some ways out; settling that depends on frames that may stop; a
build of darks on the main thread with the event loop running below it. Around the core:
what was remembered of a camera whose last request failed; a watchdog, an abort and an
image that race; a pulse whose answer is lost; backlash that the calibration must not
measure; short writes; client data used in the event loop of a request; a context that
changes in the middle of a poll.

## 4. The runs

Seven runs pass. Each property of each has a mutant in `PROJECT.json`: a plausible bug in
a mapped definition (a dropped guard, a reset left out, an order swapped) with which it
fails.

| run | module | checks | shows |
|---|---|---|---|
| `capture` | `MCDarkBuild` | CaptureGoesOn, SingleAlone, CameraAlone, ImplementsSession, BuildEnds | loop, guide, single frames, stops, full pauses, pulses, hangs and reconnections beside builds and sessions: one user of the camera at a time, every build ends, and the loop implements `CaptureSession` whatever a build does in between |
| `guiding` | `MCCapture` | ExposureAccounted, PendingWhileActive, MovesAccounted, MoveBeforeFrame, GuidingStoppedOwed, GuidingTold, SettleWhileGuiding, DecModeRestored, StopEnds, OwedDelivered, SettleEnds | guide, dither, loop, stop, single, pause of guiding, find, a hang: no exposure is lost or doubled, a frame is handled after the move before it, each end of guiding is told or owed and at last sent, a dither's Dec mode is given back, stops and settling end |
| `faults` | `MCCapture` | CountdownsLast, StopTogether, StarWhenSelected, CalibrationRuns, GuidesCalibrated | recalibration, Dec mode changes, cleared calibrations, deselection, pulses, a mount connected and disconnected, capture errors: capture, guider and controller end together, nothing is corrected without rates, the controller never counts past zero |
| `calibration` | `CalibrationRefinement` | RatesTrue, RaReturned, NudgesApproach, ImplementsLegs, CalibrationEnds | a whole calibration with pulses that fail, Dec mode changes, stops, restarts: the rates stored are the mount's, the axes are brought back, it ends, and it is one of the two-leg calibrations that the other runs use |
| `alpaca` | `MCAlpaca` | FreshImage, StopInTime, HangsAreBounded, PulseIsMade, PulsesApart, JobEnds | every answer of the server at every request, with a binning that changes, stops whose abort fails or is acknowledged, termination, reconnects that take time: an image is never of an earlier exposure, a stop is obeyed in time, hangs are given up, pulses are made once and apart, every job ends |
| `clients` | `EventClients` | Lossless, DataIsHeld, QueuesDrain, HttpCloses | a slow event client and an HTTP client that come, ask, and go at any moment, nested requests, two notifying threads: bytes in order, references exact, queues drained; what it does not show is that deleted data is never used, which is false |
| `poller` | `GearPoller` | ShownIsOfContext, LastKnownKept, FilterLinesAreMoves, ContextTaken | two servers, two choices of device, reads that fail, a context changed at every step |

`ImplementsSession` relates the flags to the session: `CaptureActive` clear is idle; with
it set, `m_continueCapturing` is looping, `m_singleExposure.enabled` a single frame, and
neither a stop that waits for its last exposure. The session starts only from idle and
goes back to looping only through idle, so that a `loop` in the wake of a stop is lost,
as `StartLooping`'s early return has it.

Requests come at any time, in any order, any number of times; the runs over the capture
loop differ in which ones (`MCCapture`, `MCDarkBuild`):

* `capture`: guide, loop, stop, single, pauseFull, resume, pulse, connectCamera, the two
  builds and the session. `CameraReturns` is `{FALSE}`: a reconnect that succeeds
  after a hang in a build is the run `exposure_after_build`.
* `guiding`: guide, loop, stop, single, dither, pauseGuiding, resume, find,
  connectCamera. Not in it, because
  of what section 7 tells: `deselect` ends guiding without StopGuiding
  (`event_server.cpp:754`), which refutes GuidingStoppedOwed; `decMode` during a dither's
  settling is overwritten at its end (`phdcontrol.cpp:570`), which refutes
  DecModeRestored; `pauseFull` drops the completion that StopEnds waits for; and pulses a client asks for
  without end keep the worker from the exposure behind them, which StopEnds waits for too.
* `faults`: guide, recalibrate, decMode, clearCalibration, deselect, pulse,
  connectMount, and no hang: to the capture loop a capture that fails and a reconnect
  that fails are one error path. `stop` is not in it (`stop_leaves_guiding`).

Deadlock is checked but for `clients`, where every peer may have said all it has to say,
and `poller`, where the thread ends. The five violation runs end at the first violation,
ask for few requests, and check one property each; four of them have no deadlock check,
since nothing is concluded from them but the violation.

### Bounds

| constant | values | in the code | why enough |
|---|---|---|---|
| `AutoFindAttempts` | 1; 2 in `faults` | 3 (`phdcontrol.cpp`) | with 2 an attempt fails, is repeated and is the last |
| `WaitSelectedFrames` | 1 | 3 | a frame that is waited for and one that is not |
| `SettleFrames` | 2; 1 in `faults` | `settle.frames` of the request; for a guide request a very large number, so that time ends it | settling by frames, by range and by time are all possible in each |
| `MaxPulses` | 1 | none | pulses are not counted by the mount and only delay what is behind them in the queue |
| `MaxHangs` | 1 in `guiding`, 2 in `capture`, 0 in `faults` | throttle of 3 in 60 s (`alpaca` has it) | a hang after a hang needs the first to be over, the state after which is an ordinary one; the theorems are for any number |
| `AutoExposure` | TRUE in `guiding` | profile setting | |
| `InitialDecMode` | north; auto in `faults` | profile setting | north is what a dither overrides; south is treated alike |
| `InitialSticky` | FALSE | profile setting | the value a leak is visible with |
| `Exposures`, `FrameCount` | 2, 2 | up to 50 frames, all exposures of the list | a first, a next and a last of each |
| calibration: duration 2, distance 13, at most 3 + 1 steps, 4 clearing pulses, 3 nudges, moves of 10 pixels, axis limit 3, speed 3, play 0–3 | | 60 steps, 25 pixels and more | a leg of several pulses, a return that does not divide evenly, play up to half a pulse, nudges that are cut by each of their limits, and legs that fail for too many steps |
| Alpaca: exposure 2, watchdog 3, abort wait 1, pulse 2, moving wait 1, grace 1, delays 0, 1, never | ticks | seconds | each clock runs out in some behaviour, and image, abort and watchdog come in every order; a pulse a tick late ends within its grace, one that never ends outlasts it |
| `Binnings` {2}; the camera begins at 1 | binning | 1 to 4 | a changed binning is programmed, partly programmed, and programmed again by a reconnect |
| `ReconnectTime` 1, `ReconnectWindow` 15, `MaxAttempts` 2; 1, 22 and 3 in `subframe_sticks` | ticks, attempts | open, 60 s, 3 | two hangs and their reconnects fit into the window: `2 * (Exposure + CaptureTimeout + 1 + ReconnectTime) + ReconnectTime = 15`. With cycles longer than about a third of the window the throttle never bites, in the code as in the model |
| clients: one event and one HTTP client, lines of 2 bytes, room for 1, 2 parts to a request, 3 parts of input, 4 bytes of notifications, nesting 2 | | | no line fits at once; clients do not share state but the set, and the set is walked with a member gone |
| poller: 2 hosts, 2 positions, 3 failures | 3 in the code | | another server, another device of the same server, and back |

The queues and `events` need no bound: `ExposureAccounted` and `MovesAccounted` say that
they hold one of each.

### Fairness

* Capture loop: weak fairness of the worker's steps as a whole, without `CameraHang`,
  and of the main thread's handling of a posted event. The first is the thread scheduler
  and the fact that moves and captures end: pulses have a length, and a capture has a
  watchdog that ends it in an error (`alpaca` shows it: JobEnds). The second is the wx
  event loop, which dispatches queued events. Clients are never assumed to ask for
  anything, the camera never to hang or not to hang, frames never to show a star.
* Builds: a capture of a build ends and the build goes on after the event loop
  (`wxYield` returns once what is queued is handled); CallAfter's event is dispatched.
* Calibration: pulses complete and frames go on; a Dec mode change is never needed.
* Alpaca: the worker's own steps, and the main thread's reconnect.
* Clients: a request's handler ends, wx delivers output events to a socket with room, and
  a peer that stays goes on reading. Nothing is assumed of a peer that leaves.
* Poller: the thread is scheduled, and a read answers or fails.

## 5. What is proved

Eight modules hold proofs. Each theorem is for every value of the constants that
satisfies the named assumptions of its model, where the runs have small ones.

| theorem | statement |
|---|---|
| `CaptureProofs!CountdownsHold` | `Spec => []CountdownsLast` |
| `CaptureProofs!ExposuresAreAccounted` | `Spec => []ExposureAccounted` |
| `CaptureProofs!ExposuresAreActive` | `Spec => []PendingWhileActive` |
| `CaptureProofs!Invariance` | `Spec => []IInv`, from which the two before follow, and `TypeCorrect`, `Spec => []TypeOK` |
| `DarkBuildProofs!CameraIsAlone` | `CameraStaysAway` implies `DaemonSpec => []CameraAlone` |
| `DarkBuildProofs!ExposuresBesideBuilds` | `CameraStaysAway` implies `DaemonSpec => [](ExposureAccounted /\ PendingWhileActive)` |
| `DarkBuildProofs!CaptureBesideBuilds` | `CameraStaysAway` implies `DaemonSpec => [](MovesAccounted /\ MoveBeforeFrame /\ CaptureGoesOn /\ SingleAlone)` |
| `DarkBuildProofs!SessionBesideBuilds` | `CameraStaysAway` implies `DaemonSpec => ImplementsSession` |
| `MoveProofs!MovesAreAccounted`, `MovesPrecedeFrames` | `Spec => []MovesAccounted`, `Spec => []MoveBeforeFrame` |
| `MoveProofs!CaptureContinues`, `SingleStaysAlone` | `Spec => []CaptureGoesOn`, `Spec => []SingleAlone` |
| `MoveProofs!GuidingIsTold`, `StarIsAtHand` | `Spec => []GuidingTold`, `Spec => []StarWhenSelected` |
| `MoveProofs!SessionIsImplemented` | `Spec => ImplementsSession` |
| `GuidingProofs!GuidingIsCalibrated`, `CalibrationKeepsRunning` | `Spec => GuidesCalibrated`, `Spec => CalibrationRuns` |
| `GuidingProofs!DecModeComesBack` | without `decMode` requests, `Spec => []DecModeRestored` |
| `GuidingProofs!FailuresStopTogether` | without `stop` and `single` requests, `Spec => []StopTogether` |
| `GuidingProofs!GuidingEndsTold` | without `recalibrate`, `decMode`, `clearCalibration` and `deselect` requests, `Spec => []GuidingStoppedOwed` |
| `GuidingProofs!SettlesWhatGuides` | without `deselect` requests, `Spec => []SettleWhileGuiding` |
| `CalibrationProofs!CalibrationInvariance`, `RatesAreTrue` | `Spec => []IInv`, `Spec => []RatesTrue` |
| `CalibrationProofs!RaIsReturned`, `NudgesComeNearer` | `Spec => RaReturned`, `Spec => NudgesApproach` |
| `CalibrationProofs!LegsAreImplemented` | `Spec => ImplementsLegs` |
| `CalibrationProofs!RunsAdvance` | each frame of a run ends it or leaves less of it |
| `AlpacaProofs!WorkerInvariance`, `ImagesAreFresh`, `StopsAreInTime` | `Spec => []IInv`, `Spec => []FreshImage`, `Spec => []StopInTime` |
| `AlpacaProofs!PulsesAreMade`, `PulsesAreApart` | `Spec => []PulseIsMade`, `Spec => PulsesApart` |
| `AlpacaProofs!HangsAreGivenUp` | `WindowHolds` implies `Spec => []HangsAreBounded` |
| `EventClientsProofs!NothingIsLost`, `ReferencesAreExact` | `Spec => []Lossless`, `Spec => []DataIsHeld` |
| `GearPollerProofs!ShownIsCurrent` | `Spec => []ShownIsOfContext` |
| `GearPollerProofs!GearIsKept`, `FilterLines` | `Spec => LastKnownKept`, `Spec => FilterLinesAreMoves` |

**The capture loop** (`BoundsAssumption`: naturals, positive where they count attempts or
frames; Booleans; a Dec mode. `RequestsAssumption`: the requests are among those
modelled). `ExposureAccounted` alone is not inductive. A camera hang posts the reconnect
event while the worker still holds the capture, and the capture's own completion is
dropped later by the skip flag. `IInv` therefore adds `SkipInCapture` (the flag is set
only during a capture) and the types. It states the two exposure invariants as
`Accounted(app, ExposuresOut)`, with the number outside `app` as a parameter, which lets
the proofs about operators on the record alone be lemmas of their own. Most operators
leave `low`, `pending`, `active` and `continue` alone (`Keeps`), some carry the invariant
from one record to another whatever `ExposuresOut` is (`Carries`), and those that stop
capture end with `continue` false (`Stops`). There is one lemma per operator, in the order
of the calls; counting lemmas about `Append` and `Tail` of the event queue; and one lemma
per action, which combines them. The temporal step is by PTL.

**Countdowns.** The types leave the countdowns any integer. `CountsLeft` says that while the
controller looks for a star it has attempts left, and frames while it waits for one, and
that neither is negative otherwise; each case of the switch starts them afresh or leaves the
state when they come to zero, and everything else that touches the controller, aborts from
requests and errors included, puts it to rest without touching them.

**Moves and captures** (the same assumptions). `MoveBeforeFrame` speaks of the head of
the event queue, and is the end of a longer order. `MoveInv` says it at every place: while
an exposure is out, in the worker or among the events, no move is queued; while one's
completion is among the events the worker makes no move; and among the events the
completions of moves come first. It is inductive because the worker takes moves before
exposures, and because only a frame pushes a counted move, one at most, when no move is
left anywhere (`NoMoveBefore`). Operators that push none *follow* their argument
(`Follows`): they leave the moves, the pause and the single exposure alone, keep the
guider's star and what the clients were told (`Sighted`), and start a capture only with
its first exposure (`Going`, which is `CaptureGoesOn` and `SingleAlone` of a record).
`MInv` is `IInv` with these three.

**The session.** `Init` maps to `SessionInit`; under `MInv` and `MInv'` each step maps
to a step of `CaptureSession` or to a stutter. Steps of the worker and completions of
moves leave the session's fields alone; the completion of an exposure is `Complete`,
`Drop` or, when the loop goes on, a stutter; a request that *follows* is `Start` or a
stutter; the rest are `StopLooping`, `Hold` and `Release`.

**Calibration and the Dec mode.** `GuidesCalibrated` and `CalibrationRuns` speak of steps.
Each operator is shown `Sound`: it does not bring the guider past calibration without
rates (`Blind`), nor to calibrate with nothing running (`Stuck`), and it keeps the user's
Dec mode `Restorable`, unless its argument was otherwise already. Of the controller's
cases only `Guides` is shown, which has no claim on an overridden mode: they are reached
outside settling only, where the mode is the user's, and `UpdateControllerStateSound` and
the two requests that need an idle controller make the connection. `Calibrate` is the one
that clears the rates: it begins the new run in the same call, or leaves the guider in
STATE_SELECTED. A client that clears the calibration while guiding makes the guider
`Blind`, which no other request does; the property is about entering those states, and
that request leaves the guider's state alone.

**Coming to rest.** Without stops and single frames, `Together` is inductive with `MInv`:
capture is active just while it is to go on, and when it is not the guider is selecting
or has a star selected and the controller is idle. The only way out of an active capture
is then `ExposeFailed`, which ends with both. With a stop, `continue` is cleared while
the last frame is still to be handled, and the theorem's conclusion is false.

**Being told.** `GuidingStoppedOwed` needs to know which ends of guiding have a move out.
`Minded` says of the record, besides the property (`Owing`): the guider is past
calibration, or has been announced, only with rates, and calibrates only without
(`Known`); and the controller looks for a star only while the guider is at rest
(`Choosing`). By `Known` a guider that was announced is never
sent back to calibrate, and a dither's override never takes the rates away, since its
modes are not `none`. By `Choosing` the controller's selection of a star, which resets the
guider, never takes one from a guider at work. The
four requests left out do just these things without telling: a recalibration and a cleared
calibration take the rates from a guider that was announced, a Dec mode of `none` makes a
calibration without Dec rates count or a good one not, a deselection resets the guider.
TLC refutes the property with each of the four alone, so the hypothesis is no stronger
than it must be; the run `guiding` asks for none of them.

**Settling.** `SettleWhileGuiding` is proved for all requests but `deselect`, which
refutes it. The invariant is `Attends`: during a leg of a calibration there are no rates;
while the controller settles, the guider is past calibration, or the end of guiding is
still owed (the completion that pays it aborts the controller), or it calibrates outside a
leg, so that the next frame of it completes; and a controller that waits for a calibration
has one running, is owed the end, or will not see rates (and then does not go on to settle).
The last is the case of a calibration cleared underneath the controller, which
waits until capture stops: a hazard of its own in `PROJECT.json`.

**Builds** (`BuildAssumption`, and `CameraStaysAway`: a camera that hung in a build is not
brought back). The second cannot be left out: `exposure_after_build` is the counterexample
without it. `DaemonInv` is `IInv` and `OneBuild`: the slot, the deferred build, the stack
and the shutter are together in one of three phases, `Free`, `Reserved` (accepted, still
to be dispatched) and `Building`, and in the last two capture is inactive. The argument
is that inactivity then maintains itself: by `IInv` an inactive capture has no exposure
pending, queued, in the worker or on its way, so no event that could continue capture can
be received, and the requests that would start one ask for the slot first. The moves, the
session and the rest of `MInv` carry over (`BesideInv`): every step of `DaemonNext` is a
step of `Next` or leaves the capture loop alone, but for `DarkFrameHangs`, whose call of
the error path finds nothing pending and leaves an idle session idle.

**The calibration** (`CalibrationAssumption`). `RatesTrue` speaks of the
end of a run only; `IInv` says of each phase where the star is. It has two parts. `Running`
holds whatever the mount does: a leg pulses its own way only, so that the star stands still
on the other axis, and a leg that ended because the star was far enough has moved on its
own, so that no rate is a zero and what is divided by it is a number. `Faithful` holds as
long as no pulse of the run has failed: in each phase the star's position, with the pulse
that is out, is the start and what the counted pulses make; and the play is taken up
by the time the backlash is cleared (`Cleared`: a move is accepted only when the star moved,
which it does not before). `RatesAreTrue`, `RaIsReturned` and `NudgesComeNearer` follow
from these equations, with lemmas about quotients and remainders of natural numbers. The
operators are in state-passing style; one lemma per phase says what a frame returns, and
the fall-throughs compose them. The same lemmas say which of `step`, `done` and `fail` the
frame is to the two legs of `Guider` (`LegsAreImplemented`): the theorems about the capture
loop hold over the calibration in full. `RunsAdvance` is what TLC's `CalibrationEnds` rests
on: each frame ends the run, reaches a later phase, or leaves less of the phase (`Rank`,
`Left`), for every limit; the step from there to "a run ends once frames come" needs
fairness and induction over the measure, and stays with TLC.

**Alpaca** (`AlpacaAssumption`). The invariant of the worker is `OwnExposure` (what a
capture waits for is the exposure it started: a start that was refused or not answered
ends the capture), `ClocksRun` (the clocks of the abort and of the stop run only while an
image is waited for; a capture that polls on after a stop has had its abort acknowledged or
has none, and the stop has not been pending for longer than the abort's clock has run)
and `MountAtRest`
(a pulse is sent or reported to a mount that said it does not move, and nothing moved it
since). `PulsesAreApart` allows, as the code does, a pulse sent blindly when the mount
cannot be asked. `HangsAreBounded` needs `Throttled`: at the n-th hang in a row, n - 1
attempts are remembered that are no older than the n - 1 cycles took, each the time of an
exposure and the watchdog (`HangTime`) and of the reconnection before it (`ReconnectTime`).
Its hypothesis `WindowHolds`, `MaxAttempts * Cycle + ReconnectTime <= ReconnectWindow`, is a
fact about settings: with 3 attempts in 60 s, a watchdog of 15 s and exposures of 1 s it
holds for reconnections within 3 s. With longer exposures or slower reconnections attempts
are forgotten between two hangs and the throttle never bites; in the run
`alpaca` a window of 14, one tick less, refutes the property, so that the hypothesis is no
stronger than it must be there. A capture that hangs after its abort was acknowledged
counts as a hang too, one that gives up after the wait does not.

**Clients** (`ClientsAssumption`). `Lossless` speaks of the bytes the peer has read;
`WireInv` of the whole wire: what the socket took, followed by what is queued, is
1, 2, ..., sent. A write that takes part of a line moves a boundary within that
sequence, a line put behind a backlog extends it, and a drain moves the boundary again.
Each is an equation about concatenation and subsequences of sequences; elementwise
lemmas (`Associative`, `WrittenSplits`, `NextLineSeq`) give them without induction.
`DataIsHeld` follows from `RefInv`, for members: their references are one of the set's and
one for each of their requests on the stack, so the last request to end never finds the
data deleted while the client is in the set, nor does a close within a nested event loop
delete it under the outer request; and from `Held`, for event clients that left the set:
only their requests are left, and the end of the last deletes the data. An HTTP client that
left the set is not covered: its reference may be given up twice, as section 2 tells.

**The imaging gear** (`PollerAssumption`). What is gathered is of the reader's server
(`WorkOfReader`); the thread's copy of the context is the context that is set, or the
changed flag says that it is not (`CopyIsCurrent`); what is shown is what was gathered,
once published (`ShownIsGathered`); and the wheel last reported stands where it was last
read to have settled (`ReportedIsSettled`).

Every invariant and every action property that a passing run checks is stated by a
theorem. What is left to TLC is liveness under fairness, which the prover cannot do:
StopEnds, OwedDelivered, SettleEnds, BuildEnds, CalibrationEnds, JobEnds, QueuesDrain,
HttpCloses, ContextTaken. No operator in these modules is recursive, and there is no
induction over data.

## 6. Reading a definition against the code

`map` in `PROJECT.json` names the lines. Some conventions:

* A guard of a request is the conjunction of the refusals before the handler acts. A
  request that is refused changes nothing and has no action.
* `Reset`, `SetStop`, `SetUninitialized` and `StartGuider` are the cases of
  `Guider::SetState` that the callers reach, together with the transitions that
  `SetState` makes on its own (`STATE_UNINITIALIZED` goes on to `STATE_SELECTING`).
* `Finish` is `STATE_FINISH` and `AbortController` is `do_fail` followed by the loop
  that reaches it.
* In the capture loop the RA leg and the Dec leg of the calibration are one state each,
  with a first and any number of further pulses; `CalibrationRun` has the detail.
* DEC_SOUTH behaves as DEC_NORTH in all code modelled.
* In the capture loop `DoTryReconnect` succeeds or fails nondeterministically, the
  throttle being one of the reasons to fail; `AlpacaCamera` models the throttle.

## 7. Where the code and its own words disagree

Each of these is a run that TLC refutes, with the lines and quotations in `PROJECT.json`.

| run | what happens |
|---|---|
| `stop_leaves_guiding` | a stop handled between the posting and the handling of the last frame: the guider is told to stop, then the controller, on the same frame, starts calibrating or guiding; capture is over and the guider stays there |
| `pause_wedges_stop` | stop, then a full pause before the last exposure completes: `CaptureActive` stays set, and stop, loop and resume all do nothing |
| `subframe_sticks` | the exposure after a subframe does not ask for the full frame; the camera goes on sending the subframe |
| `exposure_after_build` | a dark frame of a build times out and the reconnect "repeats" it as an exposure of the capture loop, which is not active |
| `guiding_in_session` | a guide request still selecting its star calibrates and guides in a polar-alignment session that is opened meanwhile |

Others were met while modelling. They have no run of their own; a property that one of
them would refute is checked with the requests that lead there left out, as section 4 says.

* A calibration that fails leaves the controller in CALIBRATION_WAIT until capture stops;
  no SettleDone is sent (`phdcontrol.cpp:476`).
* `find_star` with a move outstanding fails the assertion at `guider.cpp:1294`.
* An abort during calibration leaves the lock position sticky (`phdcontrol.cpp:452`).
* `clear_calibration` takes a running calibration to a state that `scope.cpp:1140` asserts
  it is never in.
* `loop` in the wake of a stop, the last exposure still out, is answered with 0
  (`doc/jsonrpc_api.md:704`: toward Looping), and capture stops all the same
  (`myframe.cpp:1928`). `ImplementsSession` has it as the code does.
* loop and guide again before the outstanding move completes: the GuidingStopped of the
  first run is never sent (`myframe_events.cpp:645`).
* A star found and lost again and again keeps the controller waiting without using up its
  attempts (`phdcontrol.cpp:421`).
* Four nudges are made where three are meant (`scope.cpp:1597`, `<= MAX_NUDGES`).
* A PUT of a rectangle that failed is remembered as sent (`cam_alpaca.cpp:785`), as is a
  BinX whose BinY failed; a reconnect at HwBinning 1 leaves the camera's binning as it was.
* A second HTTP request is handled though the answer to the first still waits to be
  sent (`event_server.cpp:8012`).
* The event server's notifications walk the client set without a lock, from the worker
  too, and can come to a client that was deleted (`event_server.cpp:595`). `EventClients`
  has the step; nothing is claimed of what follows it.
* `OnHttpServerClientEvent` uses the client's data after the guard of its request has
  released it, which deletes it when the client was lost, or closed by a request within
  this one (`event_server.cpp:8227`). `EventClients` has this too.
* The grace after an acknowledged abort is counted only while the stop is asked for: the
  next request takes the stop back, and the watchdog alone ends the wait (`cam_alpaca.cpp:887`).
* `sendbuf` grows without limit for a client that does not read (`event_server.cpp:556`).
* The "end" line of an exposure may be logged for the camera of another server than its
  "begin" (`imaging_gear_poller.cpp:371`).
* `driftalign_drift` starts looping within a build (`drift_tool.cpp:441`), and
  `set_dark_library_enabled` drops what a running build has gathered; the result of
  saving the library is not looked at (`event_server.cpp:4469`).

## 8. Not modelled

* Shutdown: OnClose, the worker's termination and kill, background calls (`runinbg.cpp`).
* Of the capture loop: the controller's DitherCompat; lock-position shift, the fast
  recentering after a dither, `m_ignoreLostStarLooping` and measurement mode; secondary
  stars; persistence of settings in the profile. None writes the modelled state except as
  listed here: measurement mode is the frame without a move (`f.moves`).
* Of the camera: gain, cooler, image download as data. Of the mount: connection, slews,
  tracking and parking.
* Of the event server: the routing of HTTP requests, the JSON text, the requests that only
  read or set a profile value.
* Of the imaging gear: rotator, focuser and switch, which are read as the filter wheel is; device
  names, temperatures and the wording of lines.
* The secondary mount and step guider: left from the parent program, none can be selected.
* Guiding assistant, backlash compensation, guide algorithms, statistics, star finding,
  darks and defect maps as numerics: only their outcomes matter to the control that is
  modelled.
* Polar alignment and drift tools, GUI, logging, web assets, the JSON parser, discovery,
  configuration files and simulators: interactive tools, wording or pure I/O.

## 9. Plan

Done: the capture loop and its composition with builds and sessions, the calibration in
full and its refinement of the two legs, the Alpaca camera and mount, the clients'
connections, the imaging gear's poller; the proofs of section 5.

Next, in this order:

1. `Shutdown`: OnClose, StopWorkerThread's wait and kill, `runinbg` cancellation.
2. The guiding assistant's phases and the backlash measurement: a protocol over frames,
   with pulses and the settings it overrides.
3. Backlash compensation, with its history of pulses and its adjustment.
4. Pure algorithms against references: the dither spiral, ResistSwitch's change of
   direction, windowed statistics.

Theorems to add: the guiding properties of `GuidingProofs` beside builds and sessions;
theorems of the modules above as they come.
