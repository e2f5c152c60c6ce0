-------------------------- MODULE GearPollerProofs --------------------------
(***************************************************************************)
(* Proofs about the imaging gear's poll thread, for any servers, positions *)
(* and number of failures: the gear shown is of the present context, known *)
(* gear is given up only after the failures that are allowed, and a line   *)
(* about the filter tells of a move.                                       *)
(*                                                                         *)
(* Three facts carry the argument.  What the thread has gathered is of its *)
(* reader's server (WorkOfReader), hence of the context it copied once a   *)
(* poll has opened a reader for it; a context set since is remembered by   *)
(* the changed flag (CopyIsCurrent); and the wheel last reported stands    *)
(* where it was last read to have settled (ReportedIsSettled).             *)
(***************************************************************************)
EXTENDS GearPoller, TLAPS

Wheel == [device : Choices \cup {NoDevice}, position : Positions \cup {None}]
Work == [source : {"not_alpaca", "unavailable", "alpaca"},
         host : Hosts \cup {None}, wheel : Wheel]
ReaderContexts == [host : Hosts \cup {None}, choice : Choices]
PollerRecord ==
  [reader : BOOLEAN, readerCtx : ReaderContexts, work : Work, reported : Wheel,
   camera : Choices \cup {NoDevice}, exposing : BOOLEAN, needFull : BOOLEAN,
   failed : 0 .. MAX_FAILED_DISCOVERIES]

TypeOK ==
  /\ context \in [value : Contexts, changed : BOOLEAN]
  /\ thread \in [step : {"copy", "poll", "publish", "wait", "done"}, ctx : Contexts]
  /\ poller \in PollerRecord
  /\ latest \in Work

\* The copy is the context that is set, or the flag tells that it is not.
CopyIsCurrent ==
  thread.step \in {"poll", "publish", "wait"} /\ ~context.changed
    => thread.ctx = context.value

\* of the server the reader was opened for
WorkOfReader(p) == p.work.source = "alpaca" => p.work.host = p.readerCtx.host

\* of the context ctx
WorkOf(w, ctx) ==
  /\ w.source = "alpaca" => w.host = ctx.host
  /\ ctx.host = Off => w = Empty

\* Nothing but what is gathered is shown, and it is shown before the thread waits.
ShownIsGathered ==
  /\ thread.step # "publish" => latest = poller.work
  /\ thread.step \in {"publish", "wait"} => WorkOf(poller.work, thread.ctx)

\* Gear about to become unavailable has failed for long enough, or is another's.
GivenUp ==
  thread.step = "publish" /\ poller.work.source = "unavailable" /\ latest.source = "alpaca"
    => poller.failed = MAX_FAILED_DISCOVERIES \/ latest.host # thread.ctx.host

\* The wheel of the lines is where it was last read to be, and a position
\* that is known is reported.
ReportedIsSettled(p, at) ==
  /\ p.reported.device # NoDevice => p.reported.position = at
  /\ p.work.wheel.device # NoDevice /\ p.work.wheel.position # None
       => p.reported = p.work.wheel

IInv ==
  /\ TypeOK
  /\ CopyIsCurrent
  /\ WorkOfReader(poller)
  /\ ShownIsGathered
  /\ GivenUp
  /\ ReportedIsSettled(poller, settled)

USE PollerAssumption

-----------------------------------------------------------------------------
(* The reader of a context *)

LEMMA EmptyWork == Empty \in Work /\ Unavailable \in Work /\ NoWheel \in Wheel
  BY DEF Empty, Unavailable, Work, NoWheel, Wheel

LEMMA HostOfContext ==
  ASSUME NEW ctx \in Contexts, ctx.host # Off
  PROVE  ctx \in ReaderContexts /\ ctx.host \in Hosts
  BY DEF Contexts, ReaderContexts, Choices

\* What a reader knows on opening is of its context, and is what was known
\* before unless that was another server's.
LEMMA OpenedReader ==
  ASSUME NEW ctx \in Contexts, ctx.host # Off,
         NEW p \in PollerRecord, WorkOfReader(p), NEW at, ReportedIsSettled(p, at)
  PROVE  LET q == Opened(p, ctx)
         IN /\ q \in PollerRecord /\ q.readerCtx = ctx
            /\ WorkOfReader(q) /\ ReportedIsSettled(q, at)
            /\ ~q.needFull => q = p
            /\ \/ /\ q.work = p.work /\ q.reported = p.reported
                  /\ q.failed = p.failed
               \/ /\ q.work = Empty /\ q.reported = NoWheel
                  /\ p.readerCtx.host # ctx.host
<1> DEFINE q == [p EXCEPT !.reader = TRUE, !.readerCtx = ctx, !.needFull = TRUE]
           r == [q EXCEPT !.work = Empty, !.reported = NoWheel, !.failed = 0]
<1>1. ctx \in ReaderContexts BY HostOfContext
<1>2. CASE p.reader /\ ctx = p.readerCtx
  BY <1>2 DEF Opened
<1>3. CASE ~(p.reader /\ ctx = p.readerCtx) /\ ctx.host = p.readerCtx.host
  <2>1. Opened(p, ctx) = q BY <1>3 DEF Opened
  <2>2. /\ q \in PollerRecord /\ q.readerCtx = ctx /\ q.needFull = TRUE
        /\ q.work = p.work /\ q.reported = p.reported /\ q.failed = p.failed
    BY <1>1 DEF PollerRecord
  <2> HIDE DEF q
  <2> QED BY <1>3, <2>1, <2>2 DEF WorkOfReader, ReportedIsSettled
<1>4. CASE ~(p.reader /\ ctx = p.readerCtx) /\ ctx.host # p.readerCtx.host
  <2>1. Opened(p, ctx) = r BY <1>4 DEF Opened
  <2>2. 0 \in 0 .. MAX_FAILED_DISCOVERIES OBVIOUS
  <2>3. /\ r \in PollerRecord /\ r.readerCtx = ctx /\ r.needFull = TRUE
        /\ r.work = Empty /\ r.reported = NoWheel
    BY <1>1, <2>2, EmptyWork DEF PollerRecord
  <2> HIDE DEF q, r
  <2>4. Empty.source # "alpaca" /\ Empty.wheel = NoWheel /\ NoWheel.device = NoDevice
    BY DEF Empty, NoWheel
  <2> QED BY <1>4, <2>1, <2>3, <2>4 DEF WorkOfReader, ReportedIsSettled
<1> QED BY <1>2, <1>3, <1>4

-----------------------------------------------------------------------------
(* What a poll concludes with *)

\* A poll's reads leave a position that is new only when it was answered.
PositionRead(p, q, answer) ==
  LET wheel == q.work.wheel
  IN wheel.device # NoDevice /\ wheel.position # None =>
       answer = wheel.position \/ (answer \notin Positions /\ p.reported = wheel)

\* The poller's state after the lines of a poll are made
Told(q, exposing) ==
  [q EXCEPT !.reported = KeepSettled(q.reported, q.work.wheel), !.exposing = exposing]

\* What is reported next is where the wheel was last read.
LEMMA SettledIsReported ==
  ASSUME NEW p \in PollerRecord, ReportedIsSettled(p, settled),
         NEW q \in PollerRecord, q.reported = p.reported,
         NEW answer \in Answers, PositionRead(p, q, answer),
         answer \in Positions /\ q.work.wheel.device # NoDevice
           => q.work.wheel.position = answer,
         NEW exposing \in BOOLEAN
  PROVE  /\ Told(q, exposing) \in PollerRecord
         /\ Told(q, exposing).work = q.work
         /\ Told(q, exposing).readerCtx = q.readerCtx
         /\ ReportedIsSettled(Told(q, exposing), SettledAfter(q, answer))
<1> DEFINE wheel == q.work.wheel
           k == KeepSettled(q.reported, wheel)
           r == [q EXCEPT !.reported = k, !.exposing = exposing]
           at == SettledAfter(q, answer)
<1>1. /\ wheel \in Wheel /\ q.reported \in Wheel /\ p.reported \in Wheel
  BY DEF PollerRecord, Work
<1>2. k \in Wheel
  <2>1. CASE q.reported.device = wheel.device /\ wheel.position = None
    <3>1. k = [wheel EXCEPT !.position = q.reported.position]
      BY <2>1 DEF KeepSettled
    <3> QED BY <1>1, <3>1 DEF Wheel
  <2>2. CASE ~(q.reported.device = wheel.device /\ wheel.position = None)
    BY <1>1, <2>2 DEF KeepSettled
  <2> QED BY <2>1, <2>2
<1>3. /\ r \in PollerRecord /\ r.work = q.work /\ r.readerCtx = q.readerCtx
      /\ r.reported = k
  BY <1>2 DEF PollerRecord
<1>4. k.device = wheel.device
  BY <1>1 DEF KeepSettled, Wheel
<1>5. wheel.position # None => k = wheel
  BY DEF KeepSettled
<1>6. ASSUME wheel.device # NoDevice PROVE k.position = at
  <2>1. CASE wheel.position # None
    <3>1. CASE answer = wheel.position
      <4>1. answer \in Positions BY <1>1, <2>1, <3>1 DEF Wheel
      <4> QED BY <1>5, <1>6, <2>1, <3>1, <4>1 DEF SettledAfter
    <3>2. CASE answer \notin Positions /\ p.reported = wheel
      <4>1. at = settled BY <1>6, <3>2 DEF SettledAfter
      <4>2. settled = wheel.position
        BY <1>6, <3>2 DEF ReportedIsSettled
      <4> QED BY <1>5, <2>1, <4>1, <4>2
    <3> QED BY <1>6, <2>1, <3>1, <3>2 DEF PositionRead
  <2>2. CASE wheel.position = None
    <3>1. answer \notin Positions BY <1>6, <2>2
    <3>2. CASE q.reported.device = wheel.device
      <4>1. at = settled BY <1>6, <3>1, <3>2 DEF SettledAfter
      <4>2. k = [wheel EXCEPT !.position = q.reported.position]
        BY <2>2, <3>2 DEF KeepSettled
      <4>3. k.position = q.reported.position BY <1>1, <4>2 DEF Wheel
      <4>4. q.reported.position = settled
        BY <1>6, <3>2 DEF ReportedIsSettled
      <4> QED BY <4>1, <4>3, <4>4
    <3>3. CASE q.reported.device # wheel.device
      <4>1. at = None BY <1>6, <3>1, <3>3 DEF SettledAfter
      <4>2. k = wheel BY <3>3 DEF KeepSettled
      <4> QED BY <2>2, <4>1, <4>2
    <3> QED BY <3>2, <3>3
  <2> QED BY <2>1, <2>2
<1>7. ReportedIsSettled(r, at)
  <2> HIDE DEF r, k, at
  <2> QED BY <1>3, <1>4, <1>5, <1>6 DEF ReportedIsSettled
<1>8. Told(q, exposing) = r BY DEF Told
<1> HIDE DEF r
<1> QED BY <1>3, <1>7, <1>8

\* CameraState's flag stays a Boolean.
LEMMA ExposingIsBoolean ==
  ASSUME NEW p \in PollerRecord, NEW state
  PROVE  ExposingAfter(p, state) \in BOOLEAN
  BY DEF ExposingAfter, PollerRecord

\* Publish shows what was gathered; until then what is shown stays.
Gathered(p, ctx) ==
  /\ p \in PollerRecord
  /\ WorkOfReader(p) /\ WorkOf(p.work, ctx)
  /\ p.work.source = "unavailable" /\ latest.source = "alpaca"
       => p.failed = MAX_FAILED_DISCOVERIES \/ latest.host # ctx.host

LEMMA PublishNext ==
  ASSUME IInv, thread.step = "poll",
         thread' = [thread EXCEPT !.step = "publish"],
         Gathered(poller', thread.ctx), ReportedIsSettled(poller', settled'),
         UNCHANGED <<context, stop, latest>>
  PROVE  IInv'
<1>1. /\ thread'.step = "publish" /\ thread'.ctx = thread.ctx
      /\ thread' \in [step : {"copy", "poll", "publish", "wait", "done"},
                      ctx : Contexts]
  BY DEF IInv, TypeOK
<1>2. TypeOK' BY <1>1 DEF IInv, TypeOK, Gathered
<1>3. CopyIsCurrent' BY <1>1 DEF IInv, CopyIsCurrent
<1>4. ShownIsGathered' BY <1>1 DEF ShownIsGathered, Gathered
<1>5. GivenUp' BY <1>1 DEF GivenUp, Gathered
<1>6. WorkOfReader(poller)' BY DEF WorkOfReader, Gathered
<1>7. ReportedIsSettled(poller, settled)' BY DEF ReportedIsSettled
<1> QED BY <1>2, <1>3, <1>4, <1>5, <1>6, <1>7 DEF IInv

-----------------------------------------------------------------------------
(* The steps *)

LEMMA PollNothingInv == ASSUME IInv, PollNothing PROVE IInv'
<1> DEFINE p == [poller EXCEPT !.reader = FALSE, !.work = Empty,
                               !.reported = NoWheel, !.exposing = FALSE,
                               !.needFull = TRUE]
<1>1. /\ p \in PollerRecord /\ p.work = Empty /\ p.reported = NoWheel
  BY EmptyWork DEF IInv, TypeOK, PollerRecord
<1>2. poller' = p BY DEF PollNothing
<1>3. Empty.source = "not_alpaca" /\ Empty.wheel.device = NoDevice /\ NoWheel.device = NoDevice
  BY DEF Empty, NoWheel
<1> HIDE DEF p
<1>4. Gathered(poller', thread.ctx)
  BY <1>1, <1>2, <1>3 DEF Gathered, WorkOfReader, WorkOf
<1>5. ReportedIsSettled(poller', settled')
  BY <1>1, <1>2, <1>3 DEF ReportedIsSettled
<1> QED BY <1>4, <1>5, PublishNext DEF PollNothing

LEMMA DiscoveryFailsInv == ASSUME IInv, DiscoveryFails PROVE IInv'
<1> DEFINE p == Opened(poller, thread.ctx)
           q == [p EXCEPT !.needFull = TRUE,
                          !.failed = IF @ < MAX_FAILED_DISCOVERIES THEN @ + 1 ELSE @]
           u == [q EXCEPT !.work = Unavailable, !.reported = NoWheel,
                          !.exposing = FALSE]
<1>1. /\ thread.ctx \in Contexts /\ thread.ctx.host # Off
      /\ poller \in PollerRecord /\ latest = poller.work
      /\ thread.step = "poll"
  BY DEF IInv, TypeOK, DiscoveryFails, ShownIsGathered
<1>2. /\ p \in PollerRecord /\ p.readerCtx = thread.ctx
      /\ WorkOfReader(p) /\ ReportedIsSettled(p, settled)
      /\ \/ /\ p.work = poller.work /\ p.reported = poller.reported
            /\ p.failed = poller.failed
         \/ /\ p.work = Empty /\ p.reported = NoWheel
            /\ poller.readerCtx.host # thread.ctx.host
  BY <1>1, OpenedReader DEF IInv
<1>3. Empty.source = "not_alpaca" /\ Unavailable.source = "unavailable"
      /\ Unavailable.wheel.device = NoDevice /\ NoWheel.device = NoDevice
  BY DEF Empty, Unavailable, NoWheel
<1> HIDE DEF p
<1>4. /\ q \in PollerRecord /\ q.work = p.work /\ q.reported = p.reported
      /\ q.readerCtx = p.readerCtx
      /\ p.failed + 1 >= MAX_FAILED_DISCOVERIES => q.failed = MAX_FAILED_DISCOVERIES
  <2>1. p.failed \in 0 .. MAX_FAILED_DISCOVERIES BY <1>2 DEF PollerRecord
  <2> DEFINE n == IF p.failed < MAX_FAILED_DISCOVERIES THEN p.failed + 1 ELSE p.failed
  <2>2. /\ n \in 0 .. MAX_FAILED_DISCOVERIES
        /\ p.failed + 1 >= MAX_FAILED_DISCOVERIES => n = MAX_FAILED_DISCOVERIES
    BY <2>1
  <2>3. q = [p EXCEPT !.needFull = TRUE, !.failed = n] BY DEF q, n
  <2> HIDE DEF n, q
  <2> QED BY <1>2, <2>2, <2>3 DEF PollerRecord
<1>5. /\ u \in PollerRecord /\ u.work = Unavailable /\ u.reported = NoWheel
      /\ u.failed = q.failed
  BY <1>4, EmptyWork DEF PollerRecord
<1> HIDE DEF q, u
<1>6. CASE Kept(p)
  <2>1. /\ poller' = q /\ thread' = [thread EXCEPT !.step = "wait"]
        /\ settled' = IF p.reported.device = NoDevice THEN None ELSE settled
        /\ UNCHANGED <<context, stop, latest>>
    BY <1>6 DEF DiscoveryFails, p, q
  <2>2. /\ thread'.step = "wait" /\ thread'.ctx = thread.ctx
        /\ thread' \in [step : {"copy", "poll", "publish", "wait", "done"},
                        ctx : Contexts]
    BY <2>1 DEF IInv, TypeOK
  <2>3. p.work.source = "alpaca" BY <1>6 DEF Kept
  <2>4. p.work = poller.work /\ p.work.host = thread.ctx.host
    BY <1>2, <1>3, <2>3 DEF WorkOfReader
  <2>5. WorkOfReader(q) BY <1>2, <1>4 DEF WorkOfReader
  <2>6. ReportedIsSettled(q, settled')
    BY <1>2, <1>4, <2>1 DEF ReportedIsSettled
  <2>7. TypeOK' BY <1>4, <2>1, <2>2 DEF IInv, TypeOK
  <2>8. CopyIsCurrent' BY <1>1, <2>1, <2>2 DEF IInv, CopyIsCurrent
  <2>9. ShownIsGathered'
    BY <1>1, <1>4, <2>1, <2>2, <2>4 DEF ShownIsGathered, WorkOf
  <2>10. GivenUp' BY <2>2 DEF GivenUp
  <2> QED BY <2>1, <2>5, <2>6, <2>7, <2>8, <2>9, <2>10
          DEF IInv, WorkOfReader, ReportedIsSettled
<1>7. CASE ~Kept(p)
  <2>1. /\ poller' = u /\ thread' = [thread EXCEPT !.step = "publish"]
        /\ UNCHANGED <<context, stop, latest>>
    BY <1>7 DEF DiscoveryFails, p, q, u
  <2>2. latest.source = "alpaca"
          => q.failed = MAX_FAILED_DISCOVERIES \/ latest.host # thread.ctx.host
    <3>1. CASE p.failed + 1 >= MAX_FAILED_DISCOVERIES BY <1>4, <3>1
    <3>2. CASE p.work.source # "alpaca"
      BY <1>1, <1>2, <3>2 DEF IInv, WorkOfReader
    <3>3. p.failed \in Nat BY <1>2 DEF PollerRecord
    <3> QED BY <1>7, <3>1, <3>2, <3>3 DEF Kept
  <2>3. Gathered(u, thread.ctx)
    BY <1>1, <1>3, <1>5, <2>2 DEF Gathered, WorkOfReader, WorkOf
  <2>4. ReportedIsSettled(u, settled')
    BY <1>3, <1>5 DEF ReportedIsSettled
  <2> QED BY <1>1, <2>1, <2>3, <2>4, PublishNext
<1> QED BY <1>6, <1>7

LEMMA PollAllInv == ASSUME IInv, PollAll PROVE IInv'
<1> DEFINE p == Opened(poller, thread.ctx)
<1>1. /\ thread.ctx \in Contexts /\ thread.ctx.host # Off
      /\ poller \in PollerRecord /\ thread.step = "poll"
      /\ UNCHANGED <<context, stop, latest>>
  BY DEF IInv, TypeOK, PollAll
<1>2. /\ p \in PollerRecord /\ p.readerCtx = thread.ctx
      /\ ReportedIsSettled(p, settled)
  BY <1>1, OpenedReader DEF IInv
<1>3. PICK camera \in {3 - thread.ctx.choice, NoDevice},
           device \in {thread.ctx.choice, NoDevice}, answer \in Answers :
        LET w == IF device = NoDevice THEN NoWheel ELSE WheelRead(p, device, answer)
        IN Concluded([p EXCEPT !.camera = camera, !.failed = 0, !.needFull = FALSE,
                               !.exposing = @ /\ camera = p.camera,
                               !.work = [source |-> "alpaca", host |-> thread.ctx.host,
                                         wheel |-> w]], answer)
  BY DEF PollAll
<1> DEFINE w == IF device = NoDevice THEN NoWheel ELSE WheelRead(p, device, answer)
           work == [source |-> "alpaca", host |-> thread.ctx.host, wheel |-> w]
           q == [p EXCEPT !.camera = camera, !.failed = 0, !.needFull = FALSE,
                          !.exposing = @ /\ camera = p.camera, !.work = work]
<1> HIDE DEF p
<1>4. /\ camera \in Choices \cup {NoDevice} /\ device \in Choices \cup {NoDevice}
      /\ thread.ctx.host \in Hosts
  BY <1>1 DEF Contexts, Choices, NoDevice
<1>5. /\ w \in Wheel /\ w.device = device
      /\ device # NoDevice => w.position =
           Read(IF p.work.wheel.device = device THEN p.work.wheel.position ELSE None,
                answer)
  <2>1. p.work.wheel \in Wheel BY <1>2 DEF PollerRecord, Work
  <2>2. CASE device = NoDevice BY <2>2, EmptyWork DEF NoWheel
  <2>3. CASE device # NoDevice
    <3>1. w = WheelRead(p, device, answer) BY <2>3
    <3> QED BY <1>4, <2>1, <3>1 DEF WheelRead, Read, Answers, Wheel
  <2> QED BY <2>2, <2>3
<1> HIDE DEF w
<1>6. work \in Work /\ work.source = "alpaca" /\ work.host = thread.ctx.host /\ work.wheel = w
  BY <1>4, <1>5 DEF Work
<1> HIDE DEF work
<1>7. /\ q \in PollerRecord /\ q.work = work /\ q.readerCtx = thread.ctx
      /\ q.reported = p.reported
  <2>1. 0 \in 0 .. MAX_FAILED_DISCOVERIES OBVIOUS
  <2> QED BY <1>2, <1>4, <1>6, <2>1 DEF PollerRecord
<1> HIDE DEF q
<1>8. PositionRead(p, q, answer)
  <2> SUFFICES ASSUME w.device # NoDevice, w.position # None
               PROVE  answer = w.position
                      \/ (answer \notin Positions /\ p.reported = w)
    BY <1>6, <1>7 DEF PositionRead
  <2>1. CASE answer = "failed"
    <3>1. /\ answer \notin Positions
          /\ p.work.wheel.device = device /\ w.position = p.work.wheel.position
      BY <1>5, <2>1 DEF Read
    <3>2. p.work.wheel \in Wheel BY <1>2 DEF PollerRecord, Work
    <3>3. p.work.wheel = w BY <1>5, <3>1, <3>2 DEF Wheel
    <3> QED BY <1>2, <3>1, <3>3 DEF ReportedIsSettled
  <2>2. CASE answer # "failed" BY <1>5, <2>2 DEF Read
  <2> QED BY <2>1, <2>2
<1>9. answer \in Positions /\ q.work.wheel.device # NoDevice => q.work.wheel.position = answer
  BY <1>5, <1>6, <1>7 DEF Read
<1>10. PICK state \in {"exposing", "idle", "failed"} :
         /\ poller' = [q EXCEPT !.reported = KeepSettled(q.reported, q.work.wheel),
                                !.exposing = ExposingAfter(q, state)]
         /\ settled' = SettledAfter(q, answer)
         /\ thread' = [thread EXCEPT !.step = "publish"]
  BY <1>3 DEF Concluded, q, work, w, p
<1>11. ExposingAfter(q, state) \in BOOLEAN BY <1>7, ExposingIsBoolean
<1>12. /\ poller' \in PollerRecord /\ poller'.work = q.work
       /\ poller'.readerCtx = q.readerCtx /\ ReportedIsSettled(poller', settled')
  <2> DEFINE exposing == ExposingAfter(q, state)
  <2> HIDE DEF exposing
  <2>1. exposing \in BOOLEAN BY <1>11 DEF exposing
  <2>2. poller' = Told(q, exposing) BY <1>10 DEF Told, exposing
  <2> QED BY <1>2, <1>7, <1>8, <1>9, <1>10, <2>1, <2>2, SettledIsReported
<1>13. Gathered(poller', thread.ctx)
  BY <1>1, <1>6, <1>7, <1>12 DEF Gathered, WorkOfReader, WorkOf
<1> QED BY <1>1, <1>10, <1>12, <1>13, PublishNext

LEMMA PollPositionsInv == ASSUME IInv, PollPositions PROVE IInv'
<1> DEFINE p == Opened(poller, thread.ctx)
<1>1. /\ thread.ctx \in Contexts /\ thread.ctx.host # Off
      /\ poller \in PollerRecord /\ thread.step = "poll" /\ latest = poller.work
      /\ UNCHANGED <<context, stop, latest>>
  BY DEF IInv, TypeOK, PollPositions, ShownIsGathered
<1>2. /\ ~p.needFull
      /\ \E answer \in Answers :
           Concluded(IF p.work.wheel.device = NoDevice THEN p
                     ELSE [p EXCEPT !.work.wheel.position = Read(@, answer)], answer)
  BY DEF PollPositions
<1>3. /\ p = poller /\ p \in PollerRecord /\ p.readerCtx = thread.ctx
      /\ WorkOfReader(p) /\ ReportedIsSettled(p, settled)
  BY <1>1, <1>2, OpenedReader DEF IInv
<1> HIDE DEF p
<1>4. PICK answer \in Answers :
        Concluded(IF p.work.wheel.device = NoDevice THEN p
                  ELSE [p EXCEPT !.work.wheel.position = Read(@, answer)], answer)
  BY <1>2
<1> DEFINE q == IF p.work.wheel.device = NoDevice THEN p
                ELSE [p EXCEPT !.work.wheel.position = Read(@, answer)]
<1>5. /\ q \in PollerRecord /\ q.readerCtx = p.readerCtx /\ q.reported = p.reported
      /\ q.work.source = p.work.source /\ q.work.host = p.work.host
      /\ q.work.wheel.device = p.work.wheel.device
      /\ p.work.wheel.device # NoDevice
           => q.work.wheel.position = Read(p.work.wheel.position, answer)
  <2>1. /\ p.work \in Work /\ p.work.wheel \in Wheel
        /\ p.work.wheel.position \in Positions \cup {None}
    BY <1>3 DEF PollerRecord, Work, Wheel
  <2> DEFINE pos == Read(p.work.wheel.position, answer)
             wh == [p.work.wheel EXCEPT !.position = pos]
             wo == [p.work EXCEPT !.wheel = wh]
             pp == [p EXCEPT !.work = wo]
  <2>2. pos \in Positions \cup {None} BY <2>1 DEF Read, Answers
  <2>3. CASE p.work.wheel.device = NoDevice BY <1>3, <2>3
  <2>4. CASE p.work.wheel.device # NoDevice
    <3>1. q = pp BY <2>4
    <3> HIDE DEF pos, q
    <3>2. wh \in Wheel /\ wh.device = p.work.wheel.device /\ wh.position = pos
      BY <2>1, <2>2 DEF Wheel
    <3> HIDE DEF wh
    <3>3. wo \in Work /\ wo.source = p.work.source /\ wo.host = p.work.host /\ wo.wheel = wh
      BY <2>1, <3>2 DEF Work
    <3> HIDE DEF wo
    <3>4. /\ pp \in PollerRecord /\ pp.work = wo /\ pp.readerCtx = p.readerCtx
          /\ pp.reported = p.reported
      BY <1>3, <3>3 DEF PollerRecord
    <3> HIDE DEF pp
    <3> QED BY <3>1, <3>2, <3>3, <3>4 DEF pos
  <2> QED BY <2>3, <2>4
<1>6. Concluded(q, answer) BY <1>4
<1> HIDE DEF q
<1>7. PositionRead(p, q, answer)
  <2>1. q.work.wheel.device # NoDevice /\ q.work.wheel.position # None
          /\ answer \notin Positions => p.reported = q.work.wheel
    <3>1. p.work.wheel \in Wheel /\ q.work.wheel \in Wheel
      BY <1>3, <1>5 DEF PollerRecord, Work
    <3>2. ASSUME q.work.wheel.device # NoDevice, q.work.wheel.position # None,
                 answer \notin Positions
          PROVE  p.reported = q.work.wheel
      <4>1. q.work.wheel.position = p.work.wheel.position
        BY <1>5, <3>2 DEF Read, Answers
      <4>2. q.work.wheel = p.work.wheel BY <1>5, <3>1, <4>1 DEF Wheel
      <4> QED BY <1>3, <3>2, <4>2 DEF ReportedIsSettled
    <3> QED BY <3>2
  <2> QED BY <1>5, <2>1 DEF PositionRead, Read
<1>8. answer \in Positions /\ q.work.wheel.device # NoDevice => q.work.wheel.position = answer
  BY <1>5 DEF Read
<1>9. PICK state \in {"exposing", "idle", "failed"} :
        /\ poller' = [q EXCEPT !.reported = KeepSettled(q.reported, q.work.wheel),
                               !.exposing = ExposingAfter(q, state)]
        /\ settled' = SettledAfter(q, answer)
        /\ thread' = [thread EXCEPT !.step = "publish"]
  BY <1>6 DEF Concluded
<1>10. ExposingAfter(q, state) \in BOOLEAN BY <1>5, ExposingIsBoolean
<1>11. /\ poller' \in PollerRecord /\ poller'.work = q.work
       /\ poller'.readerCtx = q.readerCtx /\ ReportedIsSettled(poller', settled')
  <2> DEFINE exposing == ExposingAfter(q, state)
  <2> HIDE DEF exposing
  <2>1. exposing \in BOOLEAN BY <1>10 DEF exposing
  <2>2. poller' = Told(q, exposing) BY <1>9 DEF Told, exposing
  <2> QED BY <1>3, <1>5, <1>7, <1>8, <1>9, <2>1, <2>2, SettledIsReported
<1>12. Gathered(poller', thread.ctx)
  <2>1. WorkOfReader(poller') BY <1>3, <1>5, <1>11 DEF WorkOfReader
  <2>2. WorkOf(poller'.work, thread.ctx)
    BY <1>1, <1>3, <1>5, <1>11 DEF WorkOfReader, WorkOf
  <2> QED BY <1>1, <1>3, <1>5, <1>11, <2>1, <2>2 DEF Gathered
<1> QED BY <1>1, <1>9, <1>11, <1>12, PublishNext

\* The steps that gather nothing
LEMMA OtherStepInv ==
  ASSUME IInv,
         \/ \E ctx \in Contexts : SetContext(ctx)
         \/ Stop \/ CopyContext \/ Publish \/ Wait
  PROVE  IInv'
<1>1. ASSUME NEW ctx \in Contexts, SetContext(ctx) PROVE IInv'
  <2>1. context' \in [value : Contexts, changed : BOOLEAN] /\ context'.changed = TRUE
    BY <1>1 DEF SetContext
  <2>2. UNCHANGED <<thread, poller, latest, settled>> BY <1>1 DEF SetContext
  <2> QED BY <2>1, <2>2
          DEF IInv, TypeOK, CopyIsCurrent, WorkOfReader, ShownIsGathered, GivenUp,
              ReportedIsSettled
<1>2. CASE Stop
  BY <1>2 DEF Stop, IInv, TypeOK, CopyIsCurrent, WorkOfReader, ShownIsGathered,
              GivenUp, ReportedIsSettled
<1>3. CASE CopyContext
  <2>1. /\ thread' \in [step : {"poll", "done"}, ctx : Contexts]
        /\ thread'.ctx = context.value
    BY <1>3 DEF CopyContext, IInv, TypeOK
  <2>2. thread.step = "copy" /\ UNCHANGED <<context, poller, latest, settled>>
    BY <1>3 DEF CopyContext
  <2> QED BY <2>1, <2>2
          DEF IInv, TypeOK, CopyIsCurrent, WorkOfReader, ShownIsGathered, GivenUp,
              ReportedIsSettled
<1>4. CASE Publish
  <2>1. /\ thread' \in [step : {"wait"}, ctx : Contexts]
        /\ thread'.ctx = thread.ctx
    BY <1>4 DEF Publish, IInv, TypeOK
  <2>2. /\ thread.step = "publish" /\ latest' = poller.work
        /\ UNCHANGED <<context, poller, settled>>
    BY <1>4 DEF Publish
  <2>3. poller.work \in Work BY DEF IInv, TypeOK, PollerRecord
  <2> QED BY <2>1, <2>2, <2>3
          DEF IInv, TypeOK, CopyIsCurrent, WorkOfReader, ShownIsGathered, WorkOf,
              GivenUp, ReportedIsSettled
<1>5. CASE Wait
  <2>1. /\ thread' \in [step : {"copy"}, ctx : Contexts]
        /\ context' \in [value : Contexts, changed : BOOLEAN]
    BY <1>5 DEF Wait, IInv, TypeOK
  <2>2. thread.step = "wait" /\ UNCHANGED <<poller, latest, settled>>
    BY <1>5 DEF Wait
  <2> QED BY <2>1, <2>2
          DEF IInv, TypeOK, CopyIsCurrent, WorkOfReader, ShownIsGathered, GivenUp,
              ReportedIsSettled
<1> QED BY <1>1, <1>2, <1>3, <1>4, <1>5

LEMMA InitInv == ASSUME Init PROVE IInv
<1> DEFINE off == [host |-> Off, choice |-> 1]
<1>1. off \in Contexts BY DEF Contexts
<1>2. [host |-> None, choice |-> 1] \in ReaderContexts BY DEF ReaderContexts, Choices
<1>3. 0 \in 0 .. MAX_FAILED_DISCOVERIES OBVIOUS
<1>4. /\ poller \in PollerRecord /\ poller.work = Empty /\ poller.reported = NoWheel
  BY <1>2, <1>3, EmptyWork DEF Init, PollerRecord
<1>5. /\ thread \in [step : {"copy"}, ctx : Contexts]
      /\ context \in [value : Contexts, changed : BOOLEAN]
      /\ latest = Empty
  BY <1>1 DEF Init
<1>6. Empty.source = "not_alpaca" /\ Empty.wheel.device = NoDevice /\ NoWheel.device = NoDevice
  BY DEF Empty, NoWheel
<1> QED BY <1>4, <1>5, <1>6, EmptyWork
        DEF IInv, TypeOK, CopyIsCurrent, WorkOfReader, ShownIsGathered, GivenUp,
            ReportedIsSettled

LEMMA NextInv == ASSUME IInv, [Next]_vars PROVE IInv'
<1>1. CASE UNCHANGED vars
  BY <1>1 DEF vars, IInv, TypeOK, CopyIsCurrent, WorkOfReader, ShownIsGathered,
              GivenUp, ReportedIsSettled
<1>2. CASE Next
  BY <1>2, PollNothingInv, DiscoveryFailsInv, PollAllInv, PollPositionsInv, OtherStepInv
  DEF Next, ThreadStep, Poll
<1> QED BY <1>1, <1>2

LEMMA Invariance == Spec => []IInv
<1>1. Init => IInv BY InitInv
<1>2. IInv /\ [Next]_vars => IInv' BY NextInv
<1> QED BY <1>1, <1>2, PTL DEF Spec

-----------------------------------------------------------------------------
(* The theorems *)

\* While the thread waits with no change to take up, the gear shown is the
\* present server's, whatever was set while it polled another.
THEOREM ShownIsCurrent == Spec => []ShownIsOfContext
<1>1. IInv => ShownIsOfContext
  <2> SUFFICES ASSUME IInv, thread.step = "wait", ~context.changed
               PROVE  /\ latest.source = "alpaca" => latest.host = context.value.host
                      /\ context.value.host = Off => latest = Empty
    BY DEF ShownIsOfContext
  <2>1. thread.ctx = context.value BY DEF IInv, CopyIsCurrent
  <2>2. latest = poller.work /\ WorkOf(poller.work, thread.ctx)
    BY DEF IInv, ShownIsGathered
  <2> QED BY <2>1, <2>2 DEF WorkOf
<1> QED BY <1>1, Invariance, PTL

\* Gear that is shown becomes unavailable only after the failures allowed.
THEOREM GearIsKept == Spec => LastKnownKept
<1>1. IInv /\ [Next]_vars =>
        [latest.source = "alpaca" /\ latest'.source = "unavailable"
           => poller.failed = MAX_FAILED_DISCOVERIES
              \/ latest.host # thread.ctx.host]_vars
  <2> SUFFICES ASSUME IInv, Next,
                      latest.source = "alpaca", latest'.source = "unavailable"
               PROVE  poller.failed = MAX_FAILED_DISCOVERIES
                      \/ latest.host # thread.ctx.host
    OBVIOUS
  <2>1. latest' # latest OBVIOUS
  <2>2. Publish
    BY <2>1 DEF Next, ThreadStep, Poll, SetContext, Stop, CopyContext, Wait,
                PollNothing, DiscoveryFails, PollAll, PollPositions
  <2> QED BY <2>2 DEF Publish, IInv, GivenUp
<1> QED BY <1>1, Invariance, PTL DEF Spec, LastKnownKept

\* A line about the filter is of a position the wheel was not last read at.
THEOREM FilterLines == Spec => FilterLinesAreMoves
<1> DEFINE Moves == \A h \in Hosts, d \in Choices, p \in Positions :
                     <<"filter", h, d, p>> \in lines' \ lines => settled # p
<1>1. IInv /\ [Next]_vars => [Moves]_vars
  <2> SUFFICES ASSUME IInv, Next,
                      NEW h \in Hosts, NEW d \in Choices, NEW pos \in Positions,
                      <<"filter", h, d, pos>> \in lines',
                      <<"filter", h, d, pos>> \notin lines
               PROVE  settled # pos
    OBVIOUS
  <2> DEFINE line == <<"filter", h, d, pos>>
             p == Opened(poller, thread.ctx)
  <2>1. lines' # lines /\ lines' # {} OBVIOUS
  <2>2. PollAll \/ PollPositions
    BY <2>1 DEF Next, ThreadStep, Poll, SetContext, Stop, CopyContext, Wait,
                PollNothing, DiscoveryFails, Publish
  <2>3. \E q, answer : q.reported = p.reported /\ Concluded(q, answer)
    <3>1. thread.ctx \in Contexts /\ thread.ctx.host # Off
      BY <2>2 DEF IInv, TypeOK, PollAll, PollPositions
    <3>2. p \in PollerRecord BY <3>1, OpenedReader DEF IInv, TypeOK
    <3> HIDE DEF p
    <3>3. CASE PollAll
      <4>1. PICK camera \in {3 - thread.ctx.choice, NoDevice},
                 device \in {thread.ctx.choice, NoDevice}, answer \in Answers :
              LET w == IF device = NoDevice THEN NoWheel ELSE WheelRead(p, device, answer)
              IN Concluded([p EXCEPT !.camera = camera, !.failed = 0,
                                     !.needFull = FALSE,
                                     !.exposing = @ /\ camera = p.camera,
                                     !.work = [source |-> "alpaca",
                                               host |-> thread.ctx.host,
                                               wheel |-> w]], answer)
        BY <3>3 DEF PollAll, p
      <4> DEFINE w == IF device = NoDevice THEN NoWheel ELSE WheelRead(p, device, answer)
                 q == [p EXCEPT !.camera = camera, !.failed = 0, !.needFull = FALSE,
                                !.exposing = @ /\ camera = p.camera,
                                !.work = [source |-> "alpaca", host |-> thread.ctx.host,
                                          wheel |-> w]]
      <4>2. q.reported = p.reported BY <3>2 DEF PollerRecord
      <4>3. Concluded(q, answer) BY <4>1
      <4> QED BY <4>2, <4>3
    <3>4. CASE PollPositions
      <4>1. PICK answer \in Answers :
              Concluded(IF p.work.wheel.device = NoDevice THEN p
                        ELSE [p EXCEPT !.work.wheel.position = Read(@, answer)], answer)
        BY <3>4 DEF PollPositions, p
      <4> DEFINE q == IF p.work.wheel.device = NoDevice THEN p
                      ELSE [p EXCEPT !.work.wheel.position = Read(@, answer)]
      <4>2. q.reported = p.reported BY <3>2 DEF PollerRecord
      <4>3. Concluded(q, answer) BY <4>1
      <4> QED BY <4>2, <4>3
    <3> QED BY <2>2, <3>3, <3>4
  <2>4. PICK q, answer : q.reported = p.reported /\ Concluded(q, answer) BY <2>3
  <2>5. PICK state \in {"exposing", "idle", "failed"} :
          lines' = WheelLines(q.reported, q.work.wheel, q.readerCtx.host)
                     \cup ExposureLines(q, state)
    BY <2>4 DEF Concluded
  <2>6. line \notin ExposureLines(q, state)
    BY DEF ExposureLines
  <2>7. line \in WheelLines(q.reported, q.work.wheel, q.readerCtx.host)
    BY <2>5, <2>6
  <2>8. /\ q.work.wheel.device # NoDevice /\ q.work.wheel.device = q.reported.device
        /\ q.work.wheel.position # q.reported.position
        /\ line = <<"filter", q.readerCtx.host, q.work.wheel.device,
                    q.work.wheel.position>>
    BY <2>7 DEF WheelLines
  <2>9. pos = q.work.wheel.position BY <2>8
  <2>10. ReportedIsSettled(p, settled)
    <3>1. thread.ctx \in Contexts /\ thread.ctx.host # Off
      BY <2>2 DEF IInv, TypeOK, PollAll, PollPositions
    <3> QED BY <3>1, OpenedReader DEF IInv, TypeOK
  <2> HIDE DEF p
  <2>11. q.reported.position = settled BY <2>4, <2>8, <2>10 DEF ReportedIsSettled
  <2> QED BY <2>8, <2>9, <2>11
<1> QED BY <1>1, Invariance, PTL DEF Spec, FilterLinesAreMoves
=============================================================================
