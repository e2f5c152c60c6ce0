----------------------------- MODULE GearPoller -----------------------------
(***************************************************************************)
(* The poll thread of the imaging gear (imaging_gear_poller.cpp): it takes *)
(* a copy of the context, polls an Alpaca server without the lock, shows a *)
(* snapshot, and logs what changed.  Meanwhile the main thread sets other  *)
(* contexts and stops it.  Any read may fail; a filter wheel stands for    *)
(* everything with a position (rotator and focuser are read alike).        *)
(***************************************************************************)
EXTENDS Integers

CONSTANTS
  Hosts,                  \* Alpaca servers
  Positions,              \* of a filter wheel
  MAX_FAILED_DISCOVERIES

None == "none"            \* std::nullopt; also a wheel's position in a move
NoDevice == 0             \* std::nullopt for a device's number
Off == "off"              \* the host of a context that is not Alpaca

ASSUME PollerAssumption ==
  /\ MAX_FAILED_DISCOVERIES \in Nat \ {0}
  /\ {None, Off, "failed"} \cap (Hosts \cup Positions) = {}

\* The guide camera and the overrides choose the imaging camera and the wheel:
\* 1 or 2 stands for them all.
Choices == {1, 2}
Contexts == [host : Hosts, choice : Choices] \cup [host : {Off}, choice : {1}]
NoWheel == [device |-> NoDevice, position |-> None]
Empty == [source |-> "not_alpaca", host |-> None, wheel |-> NoWheel]
Unavailable == [Empty EXCEPT !.source = "unavailable"]

VARIABLES
  context,   \* m_context and m_contextChanged
  stop,      \* m_stop
  thread,    \* where the poll thread is, its copy of the context
  poller,    \* the poll thread's own state
  latest,    \* m_latest
  lines,     \* the lines of the last poll, for the log
  settled    \* the position the followed wheel was last read at, to judge lines by

vars == <<context, stop, thread, poller, latest, lines, settled>>

Init ==
  /\ context = [value |-> [host |-> Off, choice |-> 1], changed |-> FALSE]
  /\ stop = FALSE
  /\ thread = [step |-> "copy", ctx |-> [host |-> Off, choice |-> 1]]
  /\ poller = [reader |-> FALSE, readerCtx |-> [host |-> None, choice |-> 1],
               work |-> Empty, reported |-> NoWheel, camera |-> NoDevice,
               exposing |-> FALSE, needFull |-> TRUE, failed |-> 0]
  /\ latest = Empty
  /\ lines = {}
  /\ settled = None

-----------------------------------------------------------------------------
(* The main thread *)

\* Poller::SetContext
SetContext(ctx) ==
  /\ ctx # context.value
  /\ context' = [value |-> ctx, changed |-> TRUE]
  /\ UNCHANGED <<stop, thread, poller, latest, lines, settled>>

\* the destructor, which then joins the thread
Stop ==
  /\ ~stop /\ stop' = TRUE
  /\ UNCHANGED <<context, thread, poller, latest, lines, settled>>

-----------------------------------------------------------------------------
(* Poller::PollOnce *)

\* Mutant: the context is copied when it changed only, which the wait forgot.
CopyContextIfChanged ==
  /\ thread.step = "copy"
  /\ thread' = [step |-> IF stop THEN "done" ELSE "poll",
                ctx |-> IF context.changed THEN context.value ELSE thread.ctx]
  /\ UNCHANGED <<context, stop, poller, latest, lines, settled>>

CopyContext ==
  /\ thread.step = "copy"
  /\ thread' = [step |-> IF stop THEN "done" ELSE "poll", ctx |-> context.value]
  /\ UNCHANGED <<context, stop, poller, latest, lines, settled>>

\* Mutant: another server's gear is kept as the last known.
OpenedKeeping(p, ctx) ==
  IF p.reader /\ ctx = p.readerCtx THEN p
  ELSE [p EXCEPT !.reader = TRUE, !.readerCtx = ctx, !.needFull = TRUE]

\* A reader for the context; another server's gear is forgotten.
Opened(p, ctx) ==
  IF p.reader /\ ctx = p.readerCtx THEN p
  ELSE LET q == [p EXCEPT !.reader = TRUE, !.readerCtx = ctx, !.needFull = TRUE]
       IN IF ctx.host = p.readerCtx.host THEN q
          ELSE [q EXCEPT !.work = Empty, !.reported = NoWheel, !.failed = 0]

\* ReadFilterPosition: a failed read keeps the last position, a move has none.
Read(position, answer) == IF answer = "failed" THEN position ELSE answer
Answers == Positions \cup {None, "failed"}

\* ReadFilterWheel, the last position only of the same device
WheelRead(p, device, answer) ==
  [device |-> device,
   position |-> Read(IF p.work.wheel.device = device
                     THEN p.work.wheel.position ELSE None, answer)]

\* Mutant: the settled position is forgotten while the wheel moves.
KeepSettledNot(reported, wheel) == wheel

KeepSettled(reported, wheel) ==
  IF reported.device = wheel.device /\ wheel.position = None
  THEN [wheel EXCEPT !.position = reported.position] ELSE wheel

\* EquipmentChangeLines: the same wheel at another position
WheelLines(reported, wheel, host) ==
  IF /\ wheel.device # NoDevice /\ wheel.device = reported.device
     /\ wheel.position # None /\ wheel.position # reported.position
  THEN {<<"filter", host, wheel.device, wheel.position>>} ELSE {}

\* CameraState: the beginning and the end of an exposure
ExposureLines(p, state) ==
  IF p.camera = NoDevice \/ state = "failed" \/ (state = "exposing") = p.exposing THEN {}
  ELSE {<<IF p.exposing THEN "end" ELSE "start", p.readerCtx.host, p.camera>>}
ExposingAfter(p, state) ==
  IF p.camera = NoDevice THEN FALSE
  ELSE IF state = "failed" THEN p.exposing ELSE state = "exposing"

\* what the wheel was last read at, while the same one is followed
SettledAfter(p, answer) ==
  IF p.work.wheel.device = NoDevice THEN None
  ELSE IF answer \in Positions THEN answer
  ELSE IF p.reported.device = p.work.wheel.device THEN settled ELSE None

\* the rest of a poll after its reads: the lines, the camera's state
Concluded(p, answer) ==
  \E state \in {"exposing", "idle", "failed"} :
    /\ poller' = [p EXCEPT !.reported = KeepSettled(p.reported, p.work.wheel),
                           !.exposing = ExposingAfter(p, state)]
    /\ lines' = WheelLines(p.reported, p.work.wheel, p.readerCtx.host)
                  \cup ExposureLines(p, state)
    /\ settled' = SettledAfter(p, answer)
    /\ thread' = [thread EXCEPT !.step = "publish"]

PollNothing ==
  /\ thread.step = "poll" /\ thread.ctx.host = Off
  /\ poller' = [poller EXCEPT !.reader = FALSE, !.work = Empty, !.reported = NoWheel,
                              !.exposing = FALSE, !.needFull = TRUE]
  /\ thread' = [thread EXCEPT !.step = "publish"]
  /\ lines' = {} /\ settled' = None
  /\ UNCHANGED <<context, stop, latest>>

\* Mutant: the first failure hides the gear.
KeptNever(p) == FALSE
Kept(p) == p.failed + 1 < MAX_FAILED_DISCOVERIES /\ p.work.source = "alpaca"

\* Without an answer to the discovery the last known gear is kept for a while.
DiscoveryFails ==
  /\ thread.step = "poll" /\ thread.ctx.host # Off
  /\ LET p == Opened(poller, thread.ctx)
         q == [p EXCEPT !.needFull = TRUE,
                        !.failed = IF @ < MAX_FAILED_DISCOVERIES THEN @ + 1 ELSE @]
     IN IF Kept(p)
        THEN /\ poller' = q
             /\ thread' = [thread EXCEPT !.step = "wait"]
             /\ settled' = IF p.reported.device = NoDevice THEN None ELSE settled
        ELSE /\ poller' = [q EXCEPT !.work = Unavailable, !.reported = NoWheel,
                                    !.exposing = FALSE]
             /\ settled' = None
             /\ thread' = [thread EXCEPT !.step = "publish"]
  /\ lines' = {}
  /\ UNCHANGED <<context, stop, latest>>

\* Discovery and a full read: the imaging camera is one that does not guide,
\* when there is one and only one to choose.
PollAll ==
  /\ thread.step = "poll" /\ thread.ctx.host # Off
  /\ \E camera \in {3 - thread.ctx.choice, NoDevice},
       wheel \in {thread.ctx.choice, NoDevice}, answer \in Answers :
       LET p == Opened(poller, thread.ctx)
           w == IF wheel = NoDevice THEN NoWheel ELSE WheelRead(p, wheel, answer)
       IN Concluded([p EXCEPT !.camera = camera, !.failed = 0, !.needFull = FALSE,
                              !.exposing = @ /\ camera = p.camera,
                              !.work = [source |-> "alpaca", host |-> thread.ctx.host,
                                        wheel |-> w]], answer)
  /\ UNCHANGED <<context, stop, latest>>

\* the positions only, between two full reads
PollPositions ==
  /\ thread.step = "poll" /\ thread.ctx.host # Off
  /\ LET p == Opened(poller, thread.ctx)
     IN /\ ~p.needFull
        /\ \E answer \in Answers :
             Concluded(IF p.work.wheel.device = NoDevice THEN p
                       ELSE [p EXCEPT !.work.wheel.position = Read(@, answer)], answer)
  /\ UNCHANGED <<context, stop, latest>>

Publish ==
  /\ thread.step = "publish"
  /\ latest' = poller.work /\ lines' = {}
  /\ thread' = [thread EXCEPT !.step = "wait"]
  /\ UNCHANGED <<context, stop, poller, settled>>

\* Poller::Run: until a stop, another context, or the next poll's time
Wait ==
  /\ thread.step = "wait"
  /\ context' = [context EXCEPT !.changed = FALSE]
  /\ thread' = [thread EXCEPT !.step = "copy"]
  /\ UNCHANGED <<stop, poller, latest, lines, settled>>

Poll == PollNothing \/ DiscoveryFails \/ PollAll \/ PollPositions
ThreadStep == CopyContext \/ Poll \/ Publish \/ Wait
Next == (\E ctx \in Contexts : SetContext(ctx)) \/ Stop \/ ThreadStep

Spec == Init /\ [][Next]_vars
\* the thread runs; a read is answered or fails
FairSpec == Spec /\ WF_vars(ThreadStep)

-----------------------------------------------------------------------------
(* What must be true of it *)

\* While the thread waits for its next turn with no change to take up, the
\* gear shown is the present server's, never what another was seen with.
ShownIsOfContext ==
  thread.step = "wait" /\ ~context.changed =>
    /\ latest.source = "alpaca" => latest.host = context.value.host
    /\ context.value.host = Off => latest = Empty

\* Gear that is shown goes unavailable only after MAX_FAILED_DISCOVERIES
\* failures in a row with the same server, or with another server.
LastKnownKept ==
  [][latest.source = "alpaca" /\ latest'.source = "unavailable"
       => poller.failed = MAX_FAILED_DISCOVERIES \/ latest.host # thread.ctx.host]_vars

\* A filter is logged only when the wheel settled at another position than the
\* one it was last read at: neither a move nor a failed read is a change.
FilterLinesAreMoves ==
  [][\A h \in Hosts, d \in Choices, p \in Positions :
       <<"filter", h, d, p>> \in lines' \ lines => settled # p]_vars

\* A context that stays is taken up, whatever the thread was doing when it came.
ContextTaken ==
  \A ctx \in Contexts : []<>(thread.ctx = ctx \/ context.value # ctx \/ stop)
=============================================================================
