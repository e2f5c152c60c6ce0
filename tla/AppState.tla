------------------------------ MODULE AppState ------------------------------
(***************************************************************************)
(* The state the guider daemon keeps while it captures and guides: one     *)
(* record for everything the wx main thread owns, one for the primary      *)
(* worker thread, and the FIFO of wx events the worker posts to the main   *)
(* thread.  A method of MyFrame, Guider, Scope or PhdController is, in     *)
(* the modules that extend this one, an operator from the record before    *)
(* the call to the record after it, so that a handler is the composition   *)
(* of the calls it makes, in the order it makes them.                      *)
(***************************************************************************)
EXTENDS Integers, Sequences, FiniteSets

CONSTANTS
  AutoFindAttempts,   \* phdcontrol.cpp: attempts of the guide star auto-find (3)
  WaitSelectedFrames, \* phdcontrol.cpp: frames to wait for the star (3)
  SettleFrames,       \* settle.frames, the frame limit of a settle request
  MaxPulses,          \* bound: manual pulses queued at one time
  MaxHangs,           \* bound: camera hangs in a behaviour
  AutoExposure,       \* GetAutoExposureCfg().enabled
  InitialDecMode,     \* the profile's Dec guide mode
  InitialSticky       \* the profile's sticky lock position setting

\* DEC_SOUTH is treated like DEC_NORTH everywhere in the modelled code
DecModes == {"auto", "north", "none"}

ASSUME BoundsAssumption ==
  /\ AutoFindAttempts \in Nat \ {0}
  /\ WaitSelectedFrames \in Nat \ {0}
  /\ SettleFrames \in Nat \ {0}
  /\ MaxPulses \in Nat
  /\ MaxHangs \in Nat
  /\ AutoExposure \in BOOLEAN
  /\ InitialDecMode \in DecModes
  /\ InitialSticky \in BOOLEAN

VARIABLES app, worker, events
vars == <<app, worker, events>>

PauseTypes == {"none", "guiding", "full"}

\* STATE_UNINITIALIZED is left again inside SetState, STATE_STOP is only
\* ever an argument, and there is no secondary mount to calibrate.
GuiderStates == {"selecting", "selected", "calibrating", "calibrated", "guiding"}

\* The primary star: no coordinates, coordinates kept after Invalidate(),
\* or a valid current position.
StarStates == {"none", "stale", "valid"}

\* Scope::m_calibrationState, its RA and Dec legs each taken as one
CalibrationStates == {"cleared", "ra", "raDone", "dec", "complete"}
\* what SetCalibration stored: nothing, RA rates only, or both axes
Calibrations == {"none", "ra", "full"}

ControllerStates ==
  {"idle", "setup", "attemptStart", "selectStar", "waitSelected", "calibrate",
   "calibrationWait", "guide", "settleBegin", "settleWait", "finish"}

\* The assert()s of the source whose failure the model records.
Assertions ==
  {"exposure not pending", "mount idle at frame", "mount busy at completion",
   "mount idle at stop", "capture inactive at stop", "calibration running",
   "position valid", "request count"}

MoveRequests == {"move", "pulse"}

\* The three counters that are counted down without a look at zero are
\* integers here.
AppRecord ==
  [continue     : BOOLEAN,          \* MyFrame::m_continueCapturing
   active       : BOOLEAN,          \* MyFrame::CaptureActive
   pending      : BOOLEAN,          \* MyFrame::m_exposurePending
   single       : BOOLEAN,          \* MyFrame::m_singleExposure.enabled
   camera       : BOOLEAN,          \* pCamera->Connected
   mountOn      : BOOLEAN,          \* pMount->IsConnected()
   paused       : PauseTypes,       \* Guider::m_paused
   guider       : GuiderStates,     \* Guider::m_state
   star         : StarStates,       \* GuiderMultiStar::m_primaryStar
   image        : BOOLEAN,          \* a frame is in Guider::m_pCurrentImage
   sticky       : BOOLEAN,          \* Guider::m_lockPosIsSticky
   calRun       : CalibrationStates,
   cal          : Calibrations,
   decMode      : DecModes,         \* Scope::m_decGuideMode
   reqs         : Int,              \* Mount::m_requestCount
   high         : Seq(MoveRequests),\* WorkerThread::m_highPriorityQueue
   low          : Nat,              \* length of m_lowPriorityQueue
   intStop      : BOOLEAN,          \* INT_STOP of m_interruptRequested
   ctrl         : ControllerStates, \* ctrl.state
   force        : BOOLEAN,          \* ctrl.forceCalibration
   haveSave     : BOOLEAN,          \* ctrl.haveSaveSticky
   saveSticky   : BOOLEAN,          \* ctrl.saveSticky
   finds        : Int,              \* ctrl.autoFindAttemptsRemaining
   waits        : Int,              \* ctrl.waitSelectedRemaining
   override     : BOOLEAN,          \* ctrl.overrideDecGuideMode
   saveDec      : DecModes,         \* ctrl.saveDecGuideMode
   settled      : Nat,              \* ctrl.settleFrameCount
   \* history of what the clients asked for and were told
   toldGuiding  : BOOLEAN,          \* StartGuiding sent, GuidingStopped not yet
   owed         : BOOLEAN,          \* StopGuiding left GuidingStopped to OnMoveComplete
   wantDec      : DecModes,         \* the Dec mode the user last chose
   failed       : SUBSET Assertions]

Jobs == {"none", "delay", "capture", "move", "pulse"}

WorkerRecord ==
  [job   : Jobs,                    \* the request being serviced
   skip  : BOOLEAN,                 \* m_skipSendExposeComplete
   hangs : Nat]                     \* bound: camera hangs so far

MoveEvents == {"moveOk", "moveError", "moveSlewing"}
ExposureEvents == {"exposed", "exposeError", "reconnect"}
Events == MoveEvents \cup ExposureEvents \cup {"pulseDone"}

AppInit ==
  [continue |-> FALSE, active |-> FALSE, pending |-> FALSE, single |-> FALSE,
   camera |-> TRUE, mountOn |-> TRUE, paused |-> "none",
   guider |-> "selecting", star |-> "none", image |-> FALSE, sticky |-> InitialSticky,
   calRun |-> "cleared", cal |-> "none", decMode |-> InitialDecMode,
   reqs |-> 0, high |-> <<>>, low |-> 0, intStop |-> FALSE,
   ctrl |-> "idle", force |-> FALSE, haveSave |-> FALSE,
   saveSticky |-> FALSE, finds |-> 0, waits |-> 0, override |-> FALSE,
   saveDec |-> InitialDecMode, settled |-> 0,
   toldGuiding |-> FALSE, owed |-> FALSE, wantDec |-> InitialDecMode,
   failed |-> {}]

\* An assert() of the source: a debug build stops here, a release build
\* goes on; the model remembers that it failed and goes on.
Assert_(s, name, holds) ==
  IF holds THEN s ELSE [s EXCEPT !.failed = @ \cup {name}]

CalibratingOrGuiding(s) == s.guider \in {"calibrating", "calibrated", "guiding"}
IsPaused(s) == s.paused # "none"
IsBusy(s) == s.reqs > 0
=============================================================================
