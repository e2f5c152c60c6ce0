---------------------------- MODULE AlpacaProofs ----------------------------
(***************************************************************************)
(* Proofs, for every length of exposures, pulses, waits and windows and    *)
(* whatever the devices answer, of what AlpacaWorker promises: the image   *)
(* is this capture's, a stop is obeyed in time, pulses are made and keep   *)
(* apart, and a camera that goes on hanging is given up.                   *)
(***************************************************************************)
EXTENDS AlpacaWorker, FiniteSetTheorems, TLAPS

-----------------------------------------------------------------------------
(* Types *)

Steps ==
  {"idle", "start", "wait", "poll", "download", "hung", "reconnect",
   "before", "send", "moving", "after"}

JobRecord ==
  [step : Steps, t : Nat, aborted : BOOLEAN, abortT : Nat, stopFor : Nat,
   result : {"none", "ok", "error"}, hangs : Nat, blind : BOOLEAN,
   pulsed : BOOLEAN]

Areas == {"full", "sub", "corner", "mixed"}
Bins == Nat \X Nat

CameraRecord ==
  [connected : BOOLEAN, hwBin : Nat, curBin : Nat,
   roi : {Nothing} \cup (Areas \X Nat),
   frameSize : {Nothing} \cup (Areas \X Bins), sub : BOOLEAN]

ServerRecord ==
  [bins : Bins, area : Areas,
   state : {"idle", "exposing", "ready"}, left : Int,
   owner : {"none", "this", "other"}]

Ages == 0 .. ReconnectWindow

MountRecord == [left : Int, overlapped : BOOLEAN]

Types ==
  /\ job \in JobRecord
  /\ flags \in SUBSET {"stop", "terminate"}
  /\ camera \in CameraRecord
  /\ server \in ServerRecord
  /\ mount \in MountRecord
  /\ attempts \in SUBSET Ages

-----------------------------------------------------------------------------
(* The inductive invariant *)

\* An exposure that is waited for is one that the server said it has begun.
OwnExposure == job.step \in {"wait", "poll", "download"} => server.owner = "this"

\* The clocks of a capture run only while it waits for its image: a stop has
\* been pending for no longer than its abort, which is given up in time.
ClocksRun ==
  /\ job.step \notin {"poll", "download"} => ~job.aborted
  /\ job.step \notin {"poll", "download"} => job.stopFor = 0
  /\ job.step = "poll" /\ ~job.aborted => job.stopFor = 0
  /\ job.step = "poll" /\ job.aborted =>
       /\ job.stopFor <= job.abortT + 1
       /\ job.stopFor > 0 => job.abortT <= AbortWait

\* A pulse is sent, and reported as made, to a mount that has said that it
\* is not moving, and nothing has moved it since.
MountAtRest ==
  /\ job.pulsed => job.step = "idle" /\ mount.left = 0
  /\ job.step = "send" /\ ~job.blind => mount.left = 0

IInv == Types /\ OwnExposure /\ ClocksRun /\ MountAtRest

-----------------------------------------------------------------------------
(* Lemmas on the operators of the devices *)

LEMMA ConstantsTypes ==
  /\ Exposure \in Nat /\ CaptureTimeout \in Nat /\ AbortWait \in Nat
  /\ Pulse \in Nat /\ MovingWait \in Nat /\ PulseGrace \in Nat
  /\ ReconnectTime \in Nat /\ ReconnectWindow \in Nat /\ MaxAttempts \in Nat
  /\ \A late \in Delays : late \in Int
  /\ Binnings \in SUBSET Nat /\ Subframes \in SUBSET BOOLEAN
BY AlpacaAssumption DEF Never

LEMMA IdleType ==
  ASSUME NEW r \in {"none", "ok", "error"}
  PROVE  /\ Idle(r) \in JobRecord
         /\ Idle(r).step = "idle" /\ Idle(r).t = 0 /\ Idle(r).hangs = 0
         /\ ~Idle(r).aborted /\ Idle(r).stopFor = 0 /\ ~Idle(r).pulsed
BY DEF Idle, JobRecord, Steps

LEMMA AfterType ==
  ASSUME NEW left \in Int
  PROVE  After(left) \in Int /\ (left = 0 => After(left) = 0)
BY DEF After

LEMMA ServerAfterType ==
  ASSUME NEW s \in ServerRecord
  PROVE  ServerAfter(s) \in ServerRecord /\ ServerAfter(s).owner = s.owner
<1>1. After(s.left) \in Int BY AfterType DEF ServerRecord
<1>. QED BY <1>1 DEF ServerAfter, ServerRecord

LEMMA AbortedType ==
  ASSUME NEW s \in ServerRecord, NEW answer, NEW t \in Aborted(s, answer)
  PROVE  t \in ServerRecord /\ t.owner = s.owner
<1> DEFINE z == 0
<1>1. t = s \/ \E next \in {"idle", "ready"} : t = [s EXCEPT !.state = next, !.left = z]
  BY DEF Aborted
<1>2. z \in Int OBVIOUS
<1> HIDE DEF z
<1>. QED BY <1>1, <1>2 DEF ServerRecord

LEMMA MountAfterType ==
  ASSUME NEW m \in MountRecord
  PROVE  /\ MountAfter(m) \in MountRecord
         /\ m.left = 0 => MountAfter(m).left = 0
         /\ MountAfter(m).overlapped = m.overlapped
<1>1. After(m.left) \in Int /\ (m.left = 0 => After(m.left) = 0)
  BY AfterType DEF MountRecord
<1>. QED BY <1>1 DEF MountAfter, MountRecord

LEMMA AttemptsType ==
  ASSUME attempts \in SUBSET Ages
  PROVE  AttemptsAfter \in SUBSET Ages /\ 0 \notin AttemptsAfter
BY ConstantsTypes DEF AttemptsAfter, Ages

LEMMA ElapseType ==
  ASSUME Types, Elapse
  PROVE  /\ server' \in ServerRecord /\ server'.owner = server.owner
         /\ mount' \in MountRecord /\ (mount.left = 0 => mount'.left = 0)
         /\ attempts' \in SUBSET Ages
BY ServerAfterType, MountAfterType, AttemptsType DEF Types, Elapse

-----------------------------------------------------------------------------
(* The steps preserve the invariant *)

\* what the other variables are, whatever happens to the job
OthersTyped ==
  /\ flags' \in SUBSET {"stop", "terminate"}
  /\ camera' \in CameraRecord
  /\ server' \in ServerRecord
  /\ mount' \in MountRecord
  /\ attempts' \in SUBSET Ages

\* A job that ends without a pulse made leaves nothing to show.
LEMMA JobOver ==
  ASSUME NEW r \in {"none", "ok", "error"}, job' = Idle(r), OthersTyped
  PROVE  IInv'
BY IdleType DEF IInv, Types, OthersTyped, OwnExposure, ClocksRun, MountAtRest

\* Only the job's step and the clocks of its mount's wait change.
LEMMA StepChanges ==
  ASSUME IInv, OthersTyped, job' \in JobRecord, ~job'.pulsed, ~job'.aborted,
         job'.stopFor = 0,
         job'.step \in {"wait", "poll", "download"} => server'.owner = "this",
         job'.step = "send" /\ ~job'.blind => mount'.left = 0
  PROVE  IInv'
BY DEF IInv, Types, OthersTyped, OwnExposure, ClocksRun, MountAtRest

LEMMA RestStep == ASSUME IInv, Rest PROVE IInv'
<1> DEFINE j == [job EXCEPT !.hangs = 0, !.t = 0]
<1>1. /\ j \in JobRecord /\ j.step = "idle" /\ j.aborted = job.aborted
      /\ j.stopFor = job.stopFor /\ j.pulsed = job.pulsed
  BY DEF IInv, Types, JobRecord, Rest
<1>2. job' = j /\ UNCHANGED <<flags, camera>> BY DEF Rest
<1>3. /\ server' \in ServerRecord /\ mount' \in MountRecord
      /\ attempts' \in SUBSET Ages /\ (mount.left = 0 => mount'.left = 0)
  BY ElapseType DEF IInv, Rest
<1> HIDE DEF j
<1>. QED
  BY <1>1, <1>2, <1>3
  DEF IInv, Types, OwnExposure, ClocksRun, MountAtRest, Rest

LEMMA RequestSteps ==
  ASSUME IInv, RequestStop \/ EnqueueRequest \/ RequestTerminate
  PROVE  IInv'
<1>1. flags' \in SUBSET {"stop", "terminate"}
      /\ UNCHANGED <<job, camera, server, mount, attempts>>
  BY DEF IInv, Types, RequestStop, EnqueueRequest, RequestTerminate
<1>. QED BY <1>1 DEF IInv, Types, OwnExposure, ClocksRun, MountAtRest

LEMMA SetBinningStep ==
  ASSUME IInv, NEW bin \in Binnings, SetBinning(bin)
  PROVE  IInv'
<1>1. bin \in Nat BY ConstantsTypes
<1>2. camera' \in CameraRecord /\ UNCHANGED <<job, flags, server, mount, attempts>>
  BY <1>1 DEF SetBinning, IInv, Types, CameraRecord
<1>. QED BY <1>2 DEF IInv, Types, OwnExposure, ClocksRun, MountAtRest

LEMMA BinsType ==
  ASSUME IInv, NEW set \in BinsKept \cup BinsPut
  PROVE  set.bins \in Bins /\ set.ok \in BOOLEAN
<1>1. server.bins \in Bins /\ camera.hwBin \in Nat
  BY DEF IInv, Types, ServerRecord, CameraRecord
<1>2. CASE set \in BinsKept
  <2>1. set = [bins |-> server.bins, ok |-> TRUE] BY <1>2 DEF BinsKept
  <2>. QED BY <1>1, <2>1
<1>3. CASE set \in BinsPut
  <2>1. PICK x, y \in PutAnswers :
          set = [bins |-> <<IF Executed(x) THEN camera.hwBin ELSE server.bins[1],
                            IF Told(x) /\ Executed(y) THEN camera.hwBin
                            ELSE server.bins[2]>>,
                 ok |-> Told(x) /\ Told(y)]
    BY <1>3 DEF BinsPut
  <2> DEFINE a == IF Executed(x) THEN camera.hwBin ELSE server.bins[1]
             b == IF Told(x) /\ Executed(y) THEN camera.hwBin ELSE server.bins[2]
             o == Told(x) /\ Told(y)
  <2>2. a \in Nat /\ b \in Nat BY <1>1 DEF Bins
  <2>3. set = [bins |-> <<a, b>>, ok |-> o] BY <2>1
  <2>4. o \in BOOLEAN BY DEF Told
  <2> HIDE DEF a, b, o
  <2>. QED BY <2>2, <2>3, <2>4 DEF Bins
<1>. QED BY <1>2, <1>3

LEMMA AreaType ==
  ASSUME IInv, NEW sub \in BOOLEAN
  PROVE  /\ WantedArea(sub) \in Areas /\ TakesSubframe(sub) \in BOOLEAN
         /\ AreasSet(sub) \subseteq Areas
         /\ KnownSize \in {Nothing} \cup (Areas \X Bins)
<1>1. WantedArea(sub) \in Areas BY DEF WantedArea, Areas
<1>2. server.area \in Areas /\ camera.frameSize \in {Nothing} \cup (Areas \X Bins)
  BY DEF IInv, Types, ServerRecord, CameraRecord
<1>3. <<"full", <<1, 1>>>> \in Areas \X Bins BY DEF Areas, Bins
<1>4. KnownSize \in {Nothing} \cup (Areas \X Bins)
  BY <1>2, <1>3 DEF KnownSize
<1>5. AreasSet(sub) \subseteq Areas
  BY <1>1, <1>2 DEF AreasSet, Areas
<1>. QED BY <1>1, <1>4, <1>5 DEF TakesSubframe

LEMMA ProgramCameraStep ==
  ASSUME IInv, NEW sub \in Subframes, ProgramCamera(sub)
  PROVE  IInv'
<1>1. PICK set \in BinsSet, area \in AreasSet(sub) :
        IF set.ok
        THEN /\ server' = [server EXCEPT !.bins = set.bins, !.area = area,
                                         !.owner = IF @ = "this" THEN "other" ELSE @]
             /\ camera' = [camera EXCEPT !.curBin = camera.hwBin,
                             !.frameSize = KnownSize, !.sub = TakesSubframe(sub),
                             !.roi = <<WantedArea(sub), camera.hwBin>>]
             /\ job' = [Idle("none") EXCEPT !.step = "start", !.t = job.t,
                                            !.hangs = job.hangs]
        ELSE /\ server' = [server EXCEPT !.bins = set.bins]
             /\ camera' = [camera EXCEPT !.frameSize = KnownSize]
             /\ Fails
  BY DEF ProgramCamera
<1>2. sub \in BOOLEAN /\ UNCHANGED <<flags, mount, attempts>>
  BY ConstantsTypes DEF ProgramCamera
<1>3. /\ set.bins \in Bins /\ area \in Areas
      /\ WantedArea(sub) \in Areas /\ TakesSubframe(sub) \in BOOLEAN
      /\ KnownSize \in {Nothing} \cup (Areas \X Bins)
  BY <1>2, BinsType, AreaType DEF BinsSet
<1>4. server' \in ServerRecord
  <2>1. server \in ServerRecord BY DEF IInv, Types
  <2> DEFINE o == IF server.owner = "this" THEN "other" ELSE server.owner
  <2>2. o \in {"none", "this", "other"} BY <2>1 DEF ServerRecord
  <2>3. \/ server' = [server EXCEPT !.bins = set.bins, !.area = area, !.owner = o]
        \/ server' = [server EXCEPT !.bins = set.bins]
    BY <1>1
  <2> HIDE DEF o
  <2>. QED BY <1>3, <2>1, <2>2, <2>3 DEF ServerRecord
<1>5. camera' \in CameraRecord
  <2>1. camera \in CameraRecord BY DEF IInv, Types
  <2> DEFINE k == KnownSize
             w == <<WantedArea(sub), camera.hwBin>>
             b == TakesSubframe(sub)
  <2>2. w \in Areas \X Nat BY <1>3, <2>1 DEF CameraRecord
  <2>3. \/ camera' = [camera EXCEPT !.curBin = camera.hwBin, !.frameSize = k,
                                    !.sub = b, !.roi = w]
        \/ camera' = [camera EXCEPT !.frameSize = k]
    BY <1>1
  <2> HIDE DEF k, w, b
  <2>4. k \in {Nothing} \cup (Areas \X Bins) /\ b \in BOOLEAN BY <1>3 DEF k, b
  <2>. QED BY <2>1, <2>2, <2>3, <2>4 DEF CameraRecord
<1>6. OthersTyped BY <1>2, <1>4, <1>5 DEF OthersTyped, IInv, Types
<1>7. CASE set.ok
  <2>1. job' = [Idle("none") EXCEPT !.step = "start", !.t = job.t,
                                            !.hangs = job.hangs]
    BY <1>1, <1>7
  <2>2. job.hangs \in Nat /\ job.t \in Nat BY DEF IInv, Types, JobRecord
  <2>3. /\ job' \in JobRecord /\ ~job'.pulsed /\ ~job'.aborted
        /\ job'.stopFor = 0 /\ job'.step = "start"
    BY <2>1, <2>2, IdleType DEF JobRecord, Steps
  <2>. QED BY <1>6, <2>3, StepChanges
<1>8. CASE ~set.ok BY <1>1, <1>6, <1>8, JobOver DEF Fails
<1>. QED BY <1>7, <1>8

LEMMA StartExposureStep == ASSUME IInv, StartExposure PROVE IInv'
<1>1. PICK answer \in PutAnswers, late \in Delays :
        /\ server' = IF Executed(answer) THEN Exposing(late) ELSE server
        /\ IF Told(answer) THEN Started ELSE Fails
  BY DEF StartExposure
<1>2. UNCHANGED <<flags, camera, mount, attempts>> BY DEF StartExposure
<1>3. Exposing(late) \in ServerRecord /\ Exposing(late).owner = "this"
  <2> DEFINE l == IF late = Never THEN Never ELSE Exposure + late
  <2>1. l \in Int BY ConstantsTypes DEF Never
  <2>2. server \in ServerRecord BY DEF IInv, Types
  <2>3. Exposing(late) = [server EXCEPT !.state = "exposing", !.owner = "this",
                                        !.left = l]
    BY DEF Exposing
  <2> HIDE DEF l
  <2>. QED BY <2>1, <2>2, <2>3 DEF ServerRecord
<1>4. server' \in ServerRecord BY <1>1, <1>3 DEF IInv, Types
<1>5. OthersTyped BY <1>2, <1>4 DEF OthersTyped, IInv, Types
<1>6. CASE Told(answer)
  <2>1. server'.owner = "this" BY <1>1, <1>3, <1>6 DEF Told, Executed
  <2> DEFINE next == IF Exposure > 1 THEN "wait" ELSE "poll"
  <2> DEFINE z == 0
  <2>2. job' = [job EXCEPT !.step = next, !.t = z] BY <1>1, <1>6 DEF Started
  <2>3. next \in {"wait", "poll"} /\ z \in Nat OBVIOUS
  <2> HIDE DEF next, z
  <2>4. job \in JobRecord /\ job.step = "start" BY DEF IInv, Types, StartExposure
  <2>5. /\ job' \in JobRecord /\ job'.pulsed = job.pulsed
        /\ job'.aborted = job.aborted /\ job'.stopFor = job.stopFor
        /\ job'.step = next
    BY <2>2, <2>3, <2>4 DEF JobRecord, Steps
  <2>6. ~job.pulsed /\ ~job.aborted /\ job.stopFor = 0
    BY <2>4 DEF IInv, ClocksRun, MountAtRest
  <2>. QED BY <1>5, <2>1, <2>3, <2>5, <2>6, StepChanges
<1>7. CASE ~Told(answer) BY <1>1, <1>5, <1>7, JobOver DEF Fails
<1>. QED BY <1>6, <1>7

LEMMA DownloadStep == ASSUME IInv, Download PROVE IInv'
<1>1. UNCHANGED <<flags, server, mount, attempts>> BY DEF Download
<1>2. camera' \in CameraRecord
  <2>1. <<server.area, server.bins>> \in Areas \X Bins /\ camera \in CameraRecord
    BY DEF IInv, Types, ServerRecord
  <2> DEFINE z == <<server.area, server.bins>>
  <2>2. camera' \in {camera, [camera EXCEPT !.frameSize = z]} BY DEF Download
  <2> HIDE DEF z
  <2>3. z \in Areas \X Bins BY <2>1 DEF z
  <2>. QED BY <2>1, <2>2, <2>3 DEF CameraRecord
<1>3. OthersTyped BY <1>1, <1>2 DEF OthersTyped, IInv, Types
<1>. QED BY <1>3, JobOver DEF Download, Fails, Succeeds

-----------------------------------------------------------------------------
(* Waiting for the image *)

\* The round's look at the interrupts and the clocks, for a job that waits
LEMMA InterruptedType ==
  ASSUME NEW j \in JobRecord
  PROVE  LET i == Interrupted(j)
         IN /\ i \in JobRecord /\ i.step = j.step /\ i.t = j.t
            /\ i.aborted = j.aborted /\ i.abortT = j.abortT
            /\ i.hangs = j.hangs /\ i.pulsed = j.pulsed
            /\ i.stopFor = IF flags = {} THEN 0 ELSE j.stopFor + 1
<1> DEFINE n == IF flags = {} THEN 0 ELSE j.stopFor + 1
<1>1. n \in Nat BY DEF JobRecord
<1>2. Interrupted(j) = [j EXCEPT !.stopFor = n] BY DEF Interrupted
<1> HIDE DEF n
<1>3. /\ Interrupted(j) \in JobRecord /\ Interrupted(j).step = j.step
      /\ Interrupted(j).t = j.t /\ Interrupted(j).aborted = j.aborted
      /\ Interrupted(j).abortT = j.abortT /\ Interrupted(j).hangs = j.hangs
      /\ Interrupted(j).pulsed = j.pulsed /\ Interrupted(j).stopFor = n
  BY <1>1, <1>2 DEF JobRecord
<1>. QED BY <1>3 DEF n

\* A job that goes on waiting, with its clocks in order
LEMMA GoesOnWaiting ==
  ASSUME IInv, OthersTyped, job' \in JobRecord, ~job'.pulsed,
         job'.step \in {"wait", "poll"}, server'.owner = "this",
         ~job'.aborted => job'.stopFor = 0,
         job'.aborted =>
           /\ job'.step = "poll"
           /\ job'.stopFor <= job'.abortT + 1
           /\ job'.stopFor > 0 => job'.abortT <= AbortWait
  PROVE  IInv'
BY DEF IInv, Types, OthersTyped, OwnExposure, ClocksRun, MountAtRest

\* What passes with the time of the camera's loops
LEMMA TimePasses ==
  ASSUME IInv, mount' = MountAfter(mount), attempts' = AttemptsAfter
  PROVE  mount' \in MountRecord /\ attempts' \in SUBSET Ages
BY MountAfterType, AttemptsType DEF IInv, Types

\* A tick of the wait ends the capture, or goes on towards the polling.
Waits ==
  /\ job' \in JobRecord /\ job'.step \in {"wait", "poll"} /\ ~job'.pulsed
  /\ server'.owner = "this"
  /\ job'.hangs = job.hangs /\ job'.t = job.t + 1
  /\ job'.step = "wait" => job'.t < Exposure - 1
  /\ ~job'.aborted => job'.stopFor = 0
  /\ job'.aborted =>
       /\ job'.step = "poll" /\ job'.stopFor <= job'.abortT + 1
       /\ job'.stopFor > 0 => job'.abortT <= AbortWait

LEMMA WaitForExposureEffect ==
  ASSUME IInv, WaitForExposure
  PROVE  OthersTyped /\ (job' = Idle("error") \/ Waits)
<1> DEFINE m == job.t + 1
           j == [job EXCEPT !.t = m]
           s == ServerAfter(server)
<1>1. /\ job \in JobRecord /\ job.step = "wait" /\ ~job.pulsed /\ ~job.aborted
      /\ job.stopFor = 0 /\ server \in ServerRecord /\ server.owner = "this"
      /\ flags \in SUBSET {"stop", "terminate"} /\ camera \in CameraRecord
  BY DEF IInv, Types, OwnExposure, ClocksRun, MountAtRest, WaitForExposure
<1>2. /\ j \in JobRecord /\ j.step = "wait" /\ ~j.pulsed /\ ~j.aborted
      /\ j.stopFor = 0 /\ j.t = job.t + 1 /\ j.hangs = job.hangs
  <2>1. m \in Nat /\ m = job.t + 1 BY <1>1 DEF JobRecord
  <2> HIDE DEF m
  <2>2. j \in JobRecord BY <1>1, <2>1 DEF JobRecord
  <2>. QED BY <1>1, <2>1, <2>2 DEF JobRecord
<1>3. /\ CASE flags = {} ->
                /\ job' = [Interrupted(j) EXCEPT
                             !.step = IF j.t < Exposure - 1 THEN "wait" ELSE "poll"]
                /\ server' = s
           [] "terminate" \in flags -> Fails /\ server' = s
           [] flags = {"stop"} -> AbortExposure(j)
      /\ UNCHANGED <<flags, camera>>
  BY DEF WaitForExposure
<1>4. mount' \in MountRecord /\ attempts' \in SUBSET Ages
  BY TimePasses DEF WaitForExposure
<1>5. s \in ServerRecord /\ s.owner = "this" BY <1>1, ServerAfterType
<1> HIDE DEF j, s
<1>6. CASE flags = {}
  <2> DEFINE next == IF j.t < Exposure - 1 THEN "wait" ELSE "poll"
  <2>1. job' = [Interrupted(j) EXCEPT !.step = next] /\ server' = s
    BY <1>3, <1>6
  <2>2. next \in {"wait", "poll"} /\ (next = "wait" => j.t < Exposure - 1)
    OBVIOUS
  <2> HIDE DEF next
  <2>3. /\ job' \in JobRecord /\ job'.step = next /\ ~job'.pulsed
        /\ ~job'.aborted /\ job'.stopFor = 0
        /\ job'.t = job.t + 1 /\ job'.hangs = job.hangs
    BY <1>2, <1>6, <2>1, <2>2, InterruptedType DEF JobRecord, Steps
  <2>4. OthersTyped BY <1>1, <1>3, <1>4, <1>5, <2>1 DEF OthersTyped
  <2>. QED BY <1>2, <1>5, <2>1, <2>2, <2>3, <2>4 DEF Waits
<1>7. CASE "terminate" \in flags
  <2>0. flags # {} /\ flags # {"stop"} BY <1>7
  <2>1. job' = Idle("error") /\ server' = s BY <1>3, <1>7, <2>0 DEF Fails
  <2>2. OthersTyped BY <1>1, <1>3, <1>4, <1>5, <2>1 DEF OthersTyped
  <2>. QED BY <2>1, <2>2
<1>8. CASE flags = {"stop"}
  <2>1. AbortExposure(j) BY <1>3, <1>8
  <2>2. PICK answer \in AbortAnswers :
          /\ server' \in Aborted(s, answer)
          /\ IF AbortFails(answer) THEN Fails
             ELSE job' = [Interrupted(j) EXCEPT !.step = "poll", !.aborted = TRUE,
                                                !.abortT = 0]
    BY <2>1 DEF AbortExposure, s
  <2>3. server' \in ServerRecord /\ server'.owner = "this"
    BY <1>5, <2>2, AbortedType
  <2>4. OthersTyped BY <1>1, <1>3, <1>4, <2>3 DEF OthersTyped
  <2>5. CASE AbortFails(answer) BY <2>2, <2>4, <2>5 DEF Fails
  <2>6. CASE ~AbortFails(answer)
    <3> DEFINE z == 0
    <3>1. z \in Nat /\ z = 0 OBVIOUS
    <3>2. job' = [Interrupted(j) EXCEPT !.step = "poll", !.aborted = TRUE, !.abortT = z]
      BY <2>2, <2>6
    <3> HIDE DEF z
    <3> DEFINE i == Interrupted(j)
    <3>4. /\ i \in JobRecord /\ ~i.pulsed /\ i.stopFor = 1
          /\ i.t = job.t + 1 /\ i.hangs = job.hangs
      BY <1>2, <1>8, InterruptedType
    <3> HIDE DEF i
    <3>5. job' = [i EXCEPT !.step = "poll", !.aborted = TRUE, !.abortT = z]
      BY <3>2 DEF i
    <3>3. /\ job' \in JobRecord /\ job'.step = "poll" /\ ~job'.pulsed
          /\ job'.aborted /\ job'.stopFor = 1 /\ job'.abortT = z
          /\ job'.t = job.t + 1 /\ job'.hangs = job.hangs
      BY <3>1, <3>4, <3>5 DEF JobRecord, Steps
    <3>. QED BY <2>3, <2>4, <3>1, <3>3, ConstantsTypes DEF Waits
  <2>. QED BY <2>5, <2>6
<1>. QED BY <1>1, <1>6, <1>7, <1>8

LEMMA WaitForExposureStep == ASSUME IInv, WaitForExposure PROVE IInv'
BY WaitForExposureEffect, GoesOnWaiting, JobOver DEF Waits

\* CameraAlpaca::Disconnect, from a round of the polling loop
LEMMA DisconnectEffect ==
  ASSUME IInv, NEW s \in ServerRecord, Disconnect(s)
  PROVE  /\ server' \in ServerRecord /\ camera' \in CameraRecord
         /\ job' \in JobRecord /\ job'.step = "hung" /\ ~job'.pulsed
         /\ ~job'.aborted /\ job'.stopFor = 0 /\ job'.t = 0
         /\ job'.hangs = job.hangs + 1
<1> DEFINE z == 0
           e == [s EXCEPT !.state = "idle", !.left = z]
           h == job.hangs + 1
           one == 1
<1>1. e \in ServerRecord
  <2>1. z \in Int OBVIOUS
  <2> HIDE DEF z
  <2>. QED BY <2>1 DEF ServerRecord
<1>2. server' \in {s, e} BY DEF Disconnect
<1> HIDE DEF e
<1>3. server' \in ServerRecord BY <1>1, <1>2
<1>4. camera' \in CameraRecord
  <2>1. camera \in CameraRecord BY DEF IInv, Types
  <2>2. camera' = [camera EXCEPT !.connected = FALSE, !.frameSize = Nothing,
                                 !.roi = Nothing, !.curBin = one]
    BY DEF Disconnect
  <2>3. one \in Nat OBVIOUS
  <2> HIDE DEF one
  <2>. QED BY <2>1, <2>2, <2>3 DEF CameraRecord
<1>5. h \in Nat BY DEF IInv, Types, JobRecord
<1>6. job' = [Idle("none") EXCEPT !.step = "hung", !.hangs = h] BY DEF Disconnect
<1> HIDE DEF h
<1>7. /\ job' \in JobRecord /\ job'.step = "hung" /\ ~job'.pulsed
      /\ ~job'.aborted /\ job'.stopFor = 0 /\ job'.t = 0 /\ job'.hangs = h
  BY <1>5, <1>6, IdleType DEF JobRecord, Steps
<1>. QED BY <1>3, <1>4, <1>7 DEF h

\* A round of the polling loop ends the capture, finds the image, goes on
\* polling before the watchdog has expired, or finds the camera hung.
Polls ==
  /\ job' \in JobRecord /\ job'.step = "poll" /\ ~job'.pulsed
  /\ server'.owner = "this"
  /\ job'.hangs = job.hangs
  /\ job'.t = IF Expired(job) THEN job.t ELSE job.t + 1
  /\ job'.t <= Exposure + CaptureTimeout
  /\ ~job'.aborted => job'.stopFor = 0
  /\ job'.aborted =>
       job'.stopFor <= job'.abortT + 1 /\ (job'.stopFor > 0 => job'.abortT <= AbortWait)

Downloads ==
  /\ job' \in JobRecord /\ job'.step = "download" /\ ~job'.pulsed
  /\ server'.owner = "this" /\ job'.hangs = job.hangs

Hangs ==
  /\ job' \in JobRecord /\ job'.step = "hung" /\ ~job'.pulsed
  /\ ~job'.aborted /\ job'.stopFor = 0 /\ job'.t = 0
  /\ job'.hangs = job.hangs + 1

LEMMA PollImageEffect ==
  ASSUME IInv, PollImage
  PROVE  /\ OthersTyped
         /\ job' = Idle("error") \/ Polls \/ Downloads \/ Hangs
<1> DEFINE m == IF Expired(job) THEN job.t ELSE job.t + 1
           n == IF job.aborted THEN job.abortT + 1 ELSE job.abortT
           k == [job EXCEPT !.t = m, !.abortT = n]
           j == Interrupted(k)
           s == ServerAfter(server)
<1>1. /\ job \in JobRecord /\ job.step = "poll" /\ ~job.pulsed
      /\ server \in ServerRecord /\ server.owner = "this"
      /\ flags \in SUBSET {"stop", "terminate"} /\ camera \in CameraRecord
      /\ ~job.aborted => job.stopFor = 0
      /\ job.aborted => /\ job.stopFor <= job.abortT + 1
                        /\ job.stopFor > 0 => job.abortT <= AbortWait
  BY DEF IInv, Types, OwnExposure, ClocksRun, MountAtRest, PollImage
<1>2. /\ m \in Nat /\ m = (IF Expired(job) THEN job.t ELSE job.t + 1) /\ n \in Nat
      /\ n = IF job.aborted THEN job.abortT + 1 ELSE job.abortT
  BY <1>1 DEF JobRecord
<1> HIDE DEF m, n
<1>3. /\ k \in JobRecord /\ k.step = "poll" /\ ~k.pulsed /\ k.t = m
      /\ k.abortT = n /\ k.aborted = job.aborted /\ k.stopFor = job.stopFor
      /\ k.hangs = job.hangs
  BY <1>1, <1>2 DEF JobRecord
<1> HIDE DEF k
<1>4. /\ j \in JobRecord /\ j.step = "poll" /\ ~j.pulsed /\ j.hangs = job.hangs
      /\ j.t = m /\ j.abortT = n /\ j.aborted = job.aborted
      /\ j.stopFor = IF flags = {} THEN 0 ELSE job.stopFor + 1
  BY <1>3, InterruptedType
<1>5. s \in ServerRecord /\ s.owner = "this" BY <1>1, ServerAfterType
<1>6. mount' \in MountRecord /\ attempts' \in SUBSET Ages /\ flags' = flags
  BY TimePasses DEF PollImage
<1> HIDE DEF j, s
<1> DEFINE Watch(t) == IF Expired(j) THEN Disconnect(t)
                       ELSE job' = j /\ server' = t /\ UNCHANGED camera
           GoesOn(next) == job' = next /\ server' = s /\ UNCHANGED camera
<1>7. \/ Fails /\ server' = s /\ UNCHANGED camera
      \/ s.state = "ready" /\ GoesOn([j EXCEPT !.step = "download"])
      \/ /\ s.state # "ready"
         /\ CASE flags = {} -> Watch(s)
              [] "terminate" \in flags -> GoesOn(Idle("error"))
              [] flags = {"stop"} /\ job.aborted ->
                   IF GivesUp(j) THEN GoesOn(Idle("error")) ELSE Watch(s)
              [] OTHER -> AbortOrWatch(s, j)
  BY DEF PollImage, j, k, s, m, n
<1>8. ASSUME NEW t \in ServerRecord, Disconnect(t)
      PROVE  OthersTyped /\ Hangs
  <2>1. server' \in ServerRecord /\ camera' \in CameraRecord /\ Hangs
    BY <1>8, DisconnectEffect DEF Hangs
  <2>. QED BY <1>1, <1>6, <2>1 DEF OthersTyped
<1>9. ASSUME NEW t \in ServerRecord, server' = t, UNCHANGED camera
      PROVE  OthersTyped
  BY <1>1, <1>6, <1>9 DEF OthersTyped
<1>10. CASE Fails /\ server' = s /\ UNCHANGED camera
  BY <1>5, <1>9, <1>10 DEF Fails
<1>11. CASE s.state = "ready" /\ GoesOn([j EXCEPT !.step = "download"])
  <2>1. job' = [j EXCEPT !.step = "download"] /\ server' = s /\ UNCHANGED camera
    BY <1>11
  <2>2. Downloads BY <1>4, <1>5, <2>1 DEF Downloads, JobRecord, Steps
  <2>. QED BY <1>5, <1>9, <2>1, <2>2
\* The watchdog, with the clocks in order
<1>12. ASSUME Watch(s), j.aborted => (flags # {} => j.abortT <= AbortWait),
              ~j.aborted => flags = {}
       PROVE  OthersTyped /\ (Polls \/ Hangs)
  <2>1. CASE Expired(j) BY <1>5, <1>8, <1>12, <2>1
  <2>2. CASE ~Expired(j)
    <3>1. job' = j /\ server' = s /\ UNCHANGED camera BY <1>12, <2>2
    <3>2. j.t <= Exposure + CaptureTimeout
      BY <1>4, <2>2, ConstantsTypes DEF Expired, JobRecord
    <3>3. ~j.aborted => j.stopFor = 0 BY <1>4, <1>12
    <3>4. j.aborted => j.stopFor <= j.abortT + 1 /\ (j.stopFor > 0 => j.abortT <= AbortWait)
      BY <1>1, <1>2, <1>4, <1>12 DEF JobRecord
    <3>5. Polls BY <1>2, <1>4, <1>5, <3>1, <3>2, <3>3, <3>4 DEF Polls
    <3>. QED BY <1>5, <1>9, <3>1, <3>5
  <2>. QED BY <2>1, <2>2
<1>13. CASE s.state # "ready" /\ flags = {}
  <2>1. (Fails /\ server' = s /\ UNCHANGED camera) \/ Watch(s) BY <1>7, <1>13
  <2>2. CASE Watch(s) BY <1>12, <1>13, <2>2
  <2>. QED BY <1>10, <2>1, <2>2
<1>14. CASE s.state # "ready" /\ "terminate" \in flags
  <2>0. flags # {} /\ flags # {"stop"} BY <1>14
  <2>1. \/ Fails /\ server' = s /\ UNCHANGED camera
        \/ GoesOn(Idle("error"))
    BY <1>7, <1>14, <2>0
  <2>. QED BY <1>5, <1>9, <1>10, <2>1
<1>15. CASE s.state # "ready" /\ flags = {"stop"} /\ job.aborted
  <2>0. flags # {} /\ "terminate" \notin flags BY <1>15
  <2>1. \/ Fails /\ server' = s /\ UNCHANGED camera
        \/ GoesOn(Idle("error"))
        \/ ~GivesUp(j) /\ Watch(s)
    BY <1>7, <1>15, <2>0
  <2>2. CASE GoesOn(Idle("error")) BY <1>5, <1>9, <2>2
  <2>3. CASE ~GivesUp(j) /\ Watch(s)
    <3>1. j.aborted /\ j.abortT <= AbortWait
      BY <1>4, <1>15, <2>3, ConstantsTypes DEF GivesUp, JobRecord
    <3>. QED BY <1>12, <2>3, <3>1
  <2>. QED BY <1>10, <2>1, <2>2, <2>3
<1>16. CASE s.state # "ready" /\ flags = {"stop"} /\ ~job.aborted
  <2>0. flags # {} /\ "terminate" \notin flags BY <1>16
  <2>1. (Fails /\ server' = s /\ UNCHANGED camera) \/ AbortOrWatch(s, j)
    BY <1>7, <1>16, <2>0
  <2> SUFFICES ASSUME AbortOrWatch(s, j)
               PROVE  OthersTyped /\ (job' = Idle("error") \/ Polls \/ Downloads \/ Hangs)
    BY <1>10, <2>1
  <2>0a. PICK answer \in AbortAnswers :
           \E t \in Aborted(s, answer) :
             CASE AbortFails(answer) -> Fails /\ server' = t /\ UNCHANGED camera
               [] ~AbortFails(answer) /\ Expired(j) -> Disconnect(t)
               [] OTHER -> /\ job' = [j EXCEPT !.aborted = TRUE, !.abortT = 0]
                           /\ server' = t /\ UNCHANGED camera
    BY DEF AbortOrWatch
  <2>2. PICK t \in Aborted(s, answer) :
          CASE AbortFails(answer) -> Fails /\ server' = t /\ UNCHANGED camera
            [] ~AbortFails(answer) /\ Expired(j) -> Disconnect(t)
            [] OTHER -> /\ job' = [j EXCEPT !.aborted = TRUE, !.abortT = 0]
                        /\ server' = t /\ UNCHANGED camera
    BY <2>0a
  <2>3. t \in ServerRecord /\ t.owner = "this" BY <1>5, AbortedType
  <2>4. CASE AbortFails(answer) BY <1>9, <2>2, <2>3, <2>4 DEF Fails
  <2>5. CASE ~AbortFails(answer) /\ Expired(j) BY <1>8, <2>2, <2>3, <2>5
  <2>6. CASE ~AbortFails(answer) /\ ~Expired(j)
    <3> DEFINE z == 0
    <3>1. job' = [j EXCEPT !.aborted = TRUE, !.abortT = z]
      BY <2>2, <2>6
    <3>2. server' = t /\ UNCHANGED camera
      BY <2>2, <2>6
    <3>3. z \in Nat /\ z = 0 OBVIOUS
    <3> HIDE DEF z
    <3>4. j.stopFor = 1 /\ j.t <= Exposure + CaptureTimeout
      BY <1>1, <1>4, <1>16, <2>6, ConstantsTypes DEF Expired, JobRecord
    <3>5. /\ job' \in JobRecord /\ job'.step = "poll" /\ ~job'.pulsed
          /\ job'.hangs = job.hangs /\ job'.t = j.t
          /\ job'.aborted /\ job'.stopFor = 1 /\ job'.abortT = z
      BY <1>4, <3>1, <3>3, <3>4 DEF JobRecord
    <3>6. Polls BY <1>2, <1>4, <2>3, <3>2, <3>3, <3>4, <3>5, ConstantsTypes DEF Polls
    <3>. QED BY <1>9, <2>3, <3>2, <3>6
  <2>. QED BY <2>4, <2>5, <2>6
<1>17. flags = {} \/ "terminate" \in flags \/ flags = {"stop"} BY <1>1
<1>. QED BY <1>7, <1>10, <1>11, <1>13, <1>14, <1>15, <1>16, <1>17

LEMMA PollImageStep == ASSUME IInv, PollImage PROVE IInv'
<1>1. OthersTyped /\ (job' = Idle("error") \/ Polls \/ Downloads \/ Hangs)
  BY PollImageEffect
<1>2. CASE Polls BY <1>1, <1>2, GoesOnWaiting DEF Polls
<1>3. CASE Downloads
  BY <1>1, <1>3 DEF Downloads, IInv, Types, OthersTyped, OwnExposure, ClocksRun, MountAtRest
<1>4. CASE Hangs BY <1>1, <1>4, StepChanges DEF Hangs
<1>. QED BY <1>1, <1>2, <1>3, <1>4, JobOver

-----------------------------------------------------------------------------
(* The reconnection *)

LEMMA ReconnectTakesTimeStep == ASSUME IInv, ReconnectTakesTime PROVE IInv'
<1> DEFINE n == job.t + 1
<1>1. /\ job \in JobRecord /\ n \in Nat
      /\ job.step \in {"hung", "reconnect", "idle", "start"}
  BY DEF IInv, Types, JobRecord, ReconnectTakesTime
<1>2. job' = [job EXCEPT !.t = n] BY DEF ReconnectTakesTime
<1> HIDE DEF n
<1>3. /\ job' \in JobRecord /\ job'.step = job.step /\ job'.pulsed = job.pulsed
      /\ job'.aborted = job.aborted /\ job'.stopFor = job.stopFor
  BY <1>1, <1>2 DEF JobRecord
<1>4. /\ server' \in ServerRecord /\ mount' \in MountRecord
      /\ attempts' \in SUBSET Ages /\ (mount.left = 0 => mount'.left = 0)
      /\ UNCHANGED <<flags, camera>>
  BY ElapseType DEF IInv, ReconnectTakesTime
<1>. QED
  BY <1>1, <1>3, <1>4
  DEF IInv, Types, OwnExposure, ClocksRun, MountAtRest

\* It ends the exposure, or begins an attempt, if one is left.
LEMMA DoTryReconnectEffect ==
  ASSUME IInv, DoTryReconnect
  PROVE  /\ OthersTyped
         /\ \/ job' = Idle("error")
            \/ job' = [job EXCEPT !.step = "reconnect"] /\ attempts' = attempts \cup {0}
               /\ Cardinality(attempts) + 1 <= MaxAttempts
<1>1. /\ job.step = "hung" /\ UNCHANGED <<flags, camera, server, mount>>
      /\ IF Cardinality(attempts) + 1 > MaxAttempts
         THEN job' = Idle("error") /\ UNCHANGED attempts
         ELSE attempts' = attempts \cup {0} /\ job' = [job EXCEPT !.step = "reconnect"]
  BY DEF DoTryReconnect, RememberAttempt, Fails
<1>2. Types /\ attempts \in SUBSET Ages BY DEF IInv, Types
<1>3. OthersTyped
  <2>1. attempts' \in SUBSET Ages BY <1>1, <1>2, ConstantsTypes DEF Ages
  <2>. QED BY <1>1, <1>2, <2>1 DEF OthersTyped, Types
<1>4. Cardinality(attempts) \in Nat
  <2>1. IsFiniteSet(Ages) BY ConstantsTypes, FS_Interval DEF Ages
  <2>. QED BY <1>2, <2>1, FS_Subset, FS_CardinalityType
<1>. QED BY <1>1, <1>3, <1>4, ConstantsTypes

\* It ends the exposure, or leaves the worker free to try it again.
LEMMA ReconnectCameraEffect ==
  ASSUME IInv, ReconnectCamera
  PROVE  /\ OthersTyped /\ attempts' = attempts
         /\ job' = Idle("error") \/ job' = [job EXCEPT !.step = "idle"]
<1>1. PICK set \in BinsKept \cup BinsPut, reached \in BOOLEAN :
        /\ server' = IF reached THEN [server EXCEPT !.bins = set.bins] ELSE server
        /\ IF reached /\ set.ok
           THEN /\ camera' = [camera EXCEPT !.connected = TRUE, !.curBin = camera.hwBin]
                /\ job' = [job EXCEPT !.step = "idle"]
           ELSE Fails /\ UNCHANGED camera
  BY DEF ReconnectCamera
<1>2. Types /\ camera \in CameraRecord /\ server \in ServerRecord
      /\ UNCHANGED <<flags, mount, attempts>>
  BY DEF IInv, Types, ReconnectCamera
<1>3. set.bins \in Bins BY BinsType
<1>4. server' \in ServerRecord BY <1>1, <1>2, <1>3 DEF ServerRecord
<1>5. camera' \in CameraRecord
  <2> DEFINE w == camera.hwBin
  <2>1. \/ camera' = [camera EXCEPT !.connected = TRUE, !.curBin = w]
        \/ camera' = camera
    BY <1>1
  <2>2. w \in Nat BY <1>2 DEF CameraRecord
  <2> HIDE DEF w
  <2>. QED BY <1>2, <2>1, <2>2 DEF CameraRecord
<1>6. OthersTyped BY <1>2, <1>4, <1>5 DEF OthersTyped, Types
<1>. QED BY <1>1, <1>2, <1>6 DEF Fails

LEMMA ReconnectStepInv == ASSUME IInv, ReconnectStep PROVE IInv'
<1>1. /\ OthersTyped
      /\ job' = Idle("error") \/ \E next \in {"reconnect", "idle"} :
                                   job' = [job EXCEPT !.step = next]
  BY DoTryReconnectEffect, ReconnectCameraEffect DEF ReconnectStep
<1>2. ASSUME NEW next \in {"reconnect", "idle"}, job' = [job EXCEPT !.step = next]
      PROVE  IInv'
  <2>1. job \in JobRecord /\ job.step \in {"hung", "reconnect"} /\ ~job.pulsed
        /\ ~job.aborted /\ job.stopFor = 0
    BY DEF IInv, Types, ClocksRun, MountAtRest, ReconnectStep, DoTryReconnect,
           ReconnectCamera
  <2>2. job' \in JobRecord /\ ~job'.pulsed /\ ~job'.aborted /\ job'.stopFor = 0
        /\ job'.step = next
    BY <1>2, <2>1 DEF JobRecord, Steps
  <2>. QED BY <1>1, <2>2, StepChanges
<1>. QED BY <1>1, <1>2, JobOver

-----------------------------------------------------------------------------
(* The mount's pulses *)

LEMMA BlindType ==
  ASSUME NEW j \in JobRecord, NEW answer
  PROVE  LET b == Blind(j, answer)
         IN /\ b \in JobRecord /\ b.step = j.step /\ b.t = j.t
            /\ b.aborted = j.aborted /\ b.stopFor = j.stopFor
            /\ b.pulsed = j.pulsed /\ b.hangs = j.hangs
            /\ ~b.blind => CanCheckPulse /\ answer # "none"
<1> DEFINE o == j.blind \/ ~CanCheckPulse \/ answer = "none"
<1>1. o \in BOOLEAN BY DEF JobRecord
<1>2. Blind(j, answer) = [j EXCEPT !.blind = o] BY DEF Blind
<1> HIDE DEF o
<1>3. /\ Blind(j, answer) \in JobRecord /\ Blind(j, answer).step = j.step
      /\ Blind(j, answer).t = j.t /\ Blind(j, answer).aborted = j.aborted
      /\ Blind(j, answer).stopFor = j.stopFor /\ Blind(j, answer).pulsed = j.pulsed
      /\ Blind(j, answer).hangs = j.hangs /\ Blind(j, answer).blind = o
  BY <1>1, <1>2 DEF JobRecord
<1>. QED BY <1>3 DEF o

\* A mount that was asked and does not move is at rest.
LEMMA NotMoving ==
  ASSUME NEW j \in JobRecord, NEW answer \in GetAnswers,
         ~SeesMoving(answer, mount), ~Blind(j, answer).blind
  PROVE  mount.left = 0
BY BlindType DEF SeesMoving, GetAnswers

\* Time or none passes, and the job alone changes, in a pulse's waits.
LEMMA WaitsType ==
  ASSUME IInv, UNCHANGED <<flags, camera>>,
         Elapse \/ UNCHANGED <<server, mount, attempts>>
  PROVE  OthersTyped /\ (mount.left = 0 => mount'.left = 0)
BY ElapseType DEF IInv, Types, OthersTyped

\* what holds of a job that makes a pulse
Pulsing(j) ==
  j \in JobRecord /\ ~j.pulsed /\ ~j.aborted /\ j.stopFor = 0

LEMMA PulsingNow ==
  ASSUME IInv, job.step \in {"before", "send", "moving", "after"}
  PROVE  Pulsing(job)
BY DEF IInv, Types, ClocksRun, MountAtRest, Pulsing

LEMMA BeginPulseStep == ASSUME IInv, BeginPulse PROVE IInv'
<1>1. job' = [Idle("none") EXCEPT !.step = "before"] /\ OthersTyped
  BY DEF BeginPulse, IInv, Types, OthersTyped
<1>2. /\ job' \in JobRecord /\ ~job'.pulsed /\ ~job'.aborted
      /\ job'.stopFor = 0 /\ job'.step = "before"
  BY <1>1, IdleType DEF JobRecord, Steps
<1>. QED BY <1>1, <1>2, StepChanges

LEMMA AwaitEarlierPulseStep == ASSUME IInv, AwaitEarlierPulse PROVE IInv'
<1>1. Pulsing(job) BY PulsingNow DEF AwaitEarlierPulse
<1>2. PICK answer \in GetAnswers :
        LET j == Blind(job, answer)
        IN \/ Slews /\ UNCHANGED <<server, mount, attempts>>
           \/ /\ ~SeesMoving(answer, mount)
              /\ job' = [j EXCEPT !.step = "send", !.t = 0]
              /\ UNCHANGED <<server, mount, attempts>>
           \/ /\ SeesMoving(answer, mount)
              /\ IF job.t < MovingWait
                 THEN job' = [j EXCEPT !.t = @ + 1] /\ Elapse
                 ELSE Fails /\ UNCHANGED <<server, mount, attempts>>
  BY DEF AwaitEarlierPulse
<1> DEFINE j == Blind(job, answer)
           z == 0
           n == j.t + 1
<1>3. OthersTyped /\ (mount.left = 0 => mount'.left = 0)
  BY <1>2, WaitsType DEF AwaitEarlierPulse
<1>4. /\ Pulsing(j) /\ j.step = "before"
      /\ ~j.blind /\ ~SeesMoving(answer, mount) => mount.left = 0
  BY <1>1, BlindType, NotMoving DEF Pulsing, AwaitEarlierPulse
<1>5. z \in Nat /\ n \in Nat BY <1>4 DEF Pulsing, JobRecord
<1>6. \/ job' = Idle("error")
      \/ /\ ~SeesMoving(answer, mount) /\ job' = [j EXCEPT !.step = "send", !.t = z]
      \/ job' = [j EXCEPT !.t = n]
  BY <1>2 DEF Slews, Fails
<1> HIDE DEF j, z, n
<1>7. CASE ~SeesMoving(answer, mount) /\ job' = [j EXCEPT !.step = "send", !.t = z]
  <2>1. Pulsing(job)' /\ job'.step = "send" /\ job'.blind = j.blind
    BY <1>4, <1>5, <1>7 DEF Pulsing, JobRecord, Steps
  <2>. QED BY <1>3, <1>4, <1>7, <2>1, StepChanges DEF Pulsing
<1>8. CASE job' = [j EXCEPT !.t = n]
  <2>1. Pulsing(job)' /\ job'.step = "before"
    BY <1>4, <1>5, <1>8 DEF Pulsing, JobRecord
  <2>. QED BY <1>3, <2>1, StepChanges DEF Pulsing
<1>. QED BY <1>3, <1>6, <1>7, <1>8, JobOver

LEMMA SendPulseStep == ASSUME IInv, SendPulse PROVE IInv'
<1>1. Pulsing(job) BY PulsingNow DEF SendPulse
<1>2. PICK answer \in PutAnswers, late \in Delays :
        /\ mount' = IF ~Executed(answer) THEN mount
                    ELSE [left |-> IF late = Never THEN Never ELSE Pulse + late,
                          overlapped |-> mount.left # 0]
        /\ IF Told(answer) THEN job' = [job EXCEPT !.step = "moving"] ELSE Fails
  BY DEF SendPulse
<1>3. mount' \in MountRecord
  <2> DEFINE l == IF late = Never THEN Never ELSE Pulse + late
             o == mount.left # 0
  <2>1. l \in Int /\ o \in BOOLEAN BY ConstantsTypes DEF Never
  <2>2. mount' \in {mount, [left |-> l, overlapped |-> o]} BY <1>2
  <2> HIDE DEF l, o
  <2>. QED BY <2>1, <2>2 DEF MountRecord, IInv, Types
<1>4. OthersTyped BY <1>3 DEF OthersTyped, IInv, Types, SendPulse
<1>5. CASE job' = [job EXCEPT !.step = "moving"]
  <2>1. Pulsing(job)' /\ job'.step = "moving"
    BY <1>1, <1>5 DEF Pulsing, JobRecord, Steps
  <2>. QED BY <1>4, <2>1, StepChanges DEF Pulsing
<1>. QED BY <1>2, <1>4, <1>5, JobOver DEF Fails

LEMMA SleepPulseStep == ASSUME IInv, SleepPulse PROVE IInv'
<1> DEFINE n == job.t + 1
<1>1. Pulsing(job) /\ n \in Nat /\ job.step = "moving"
  BY PulsingNow DEF SleepPulse, Pulsing, JobRecord
<1>2. OthersTyped BY WaitsType DEF SleepPulse
<1>3. \/ job' = Idle("error") \/ job' = [job EXCEPT !.t = n]
      \/ job' = [job EXCEPT !.step = "after", !.t = n]
  BY DEF SleepPulse, Fails
<1> HIDE DEF n
<1>4. CASE \/ job' = [job EXCEPT !.t = n]
           \/ job' = [job EXCEPT !.step = "after", !.t = n]
  <2>1. Pulsing(job)' /\ job'.step \in {"moving", "after"}
    BY <1>1, <1>4 DEF Pulsing, JobRecord, Steps
  <2>. QED BY <1>2, <2>1, StepChanges DEF Pulsing
<1>. QED BY <1>2, <1>3, <1>4, JobOver

\* A round of the wait for the pulse: it is over, or has failed, or goes on.
LEMMA AwaitPulseEffect ==
  ASSUME IInv, AwaitPulse
  PROVE  \E answer \in GetAnswers :
           LET j == Blind(job, answer)
           IN \/ /\ ~SeesMoving(answer, mount)
                 /\ job' = [Idle("ok") EXCEPT !.pulsed = ~j.blind]
                 /\ UNCHANGED <<server, mount, attempts>>
              \/ /\ job' = Idle("error") \/ job' = [j EXCEPT !.t = @ + 1]
                 /\ Elapse \/ UNCHANGED <<server, mount, attempts>>
<1>1. PICK answer \in GetAnswers :
        LET j == Blind(job, answer)
        IN IF ~SeesMoving(answer, mount)
           THEN PulseIsOver(j) /\ UNCHANGED <<server, mount, attempts>>
           ELSE CASE job.t > Pulse + PulseGrace ->
                       PulseTimesOut(j) /\ UNCHANGED <<server, mount, attempts>>
                  [] job.t <= Pulse + PulseGrace /\ flags # {} -> Fails /\ Elapse
                  [] job.t <= Pulse + PulseGrace /\ flags = {} ->
                       (Slews \/ job' = [j EXCEPT !.t = @ + 1]) /\ Elapse
  BY DEF AwaitPulse
<1>2. job.t \in Nat /\ Pulse + PulseGrace \in Nat
  BY ConstantsTypes DEF IInv, Types, JobRecord
<1> DEFINE j == Blind(job, answer)
<1>3. \/ /\ ~SeesMoving(answer, mount)
         /\ job' = [Idle("ok") EXCEPT !.pulsed = ~j.blind]
         /\ UNCHANGED <<server, mount, attempts>>
      \/ /\ job' = Idle("error") \/ job' = [j EXCEPT !.t = @ + 1]
         /\ Elapse \/ UNCHANGED <<server, mount, attempts>>
  <2>1. CASE ~SeesMoving(answer, mount) BY <1>1, <2>1 DEF PulseIsOver
  <2>2. CASE SeesMoving(answer, mount)
    <3>1. CASE job.t > Pulse + PulseGrace
      <4>1. ~(job.t <= Pulse + PulseGrace) BY <1>2, <3>1
      <4>. QED BY <1>1, <2>2, <3>1, <4>1 DEF PulseTimesOut, Fails
    <3>2. CASE job.t <= Pulse + PulseGrace
      <4>1. ~(job.t > Pulse + PulseGrace) BY <1>2, <3>2
      <4>. QED BY <1>1, <2>2, <3>2, <4>1 DEF Slews, Fails
    <3>. QED BY <1>2, <3>1, <3>2
  <2>. QED BY <2>1, <2>2
<1>. QED BY <1>3

\* A pulse is reported as made by a mount that was asked and is at rest.
LEMMA AwaitPulseStep == ASSUME IInv, AwaitPulse PROVE IInv'
<1>1. Pulsing(job) /\ job.step = "after" BY PulsingNow DEF AwaitPulse
<1>2. PICK answer \in GetAnswers :
        LET j == Blind(job, answer)
        IN \/ /\ ~SeesMoving(answer, mount)
              /\ job' = [Idle("ok") EXCEPT !.pulsed = ~j.blind]
              /\ UNCHANGED <<server, mount, attempts>>
           \/ /\ job' = Idle("error") \/ job' = [j EXCEPT !.t = @ + 1]
              /\ Elapse \/ UNCHANGED <<server, mount, attempts>>
  BY AwaitPulseEffect
<1> DEFINE j == Blind(job, answer)
           n == j.t + 1
           o == ~j.blind
           over == [Idle("ok") EXCEPT !.pulsed = o]
<1>4. /\ Pulsing(j) /\ j.step = "after"
      /\ ~j.blind /\ ~SeesMoving(answer, mount) => mount.left = 0
  BY <1>1, BlindType, NotMoving DEF Pulsing
<1>5. n \in Nat /\ o \in BOOLEAN BY <1>4 DEF Pulsing, JobRecord
<1>6. \/ /\ ~SeesMoving(answer, mount) /\ job' = over
         /\ UNCHANGED <<server, mount, attempts>>
      \/ /\ job' = Idle("error") \/ job' = [j EXCEPT !.t = n]
         /\ Elapse \/ UNCHANGED <<server, mount, attempts>>
  BY <1>2
<1>7. OthersTyped BY <1>6, WaitsType DEF AwaitPulse
<1> HIDE DEF j, n
<1>8. CASE /\ ~SeesMoving(answer, mount) /\ job' = over
           /\ UNCHANGED <<server, mount, attempts>>
  <2>1. o => mount'.left = 0 BY <1>4, <1>8
  <2> HIDE DEF o
  <2>2. /\ job' \in JobRecord /\ job'.step = "idle" /\ ~job'.aborted
        /\ job'.stopFor = 0 /\ job'.pulsed = o
    BY <1>5, <1>8, IdleType DEF JobRecord
  <2>. QED
    BY <1>7, <2>1, <2>2
    DEF IInv, Types, OthersTyped, OwnExposure, ClocksRun, MountAtRest
<1>9. CASE job' = [j EXCEPT !.t = n]
  <2>1. Pulsing(job)' /\ job'.step = "after" BY <1>4, <1>5, <1>9 DEF Pulsing, JobRecord
  <2>. QED BY <1>7, <2>1, StepChanges DEF Pulsing
<1>. QED BY <1>6, <1>7, <1>8, <1>9, JobOver

-----------------------------------------------------------------------------
LEMMA InitInv == Init => IInv
<1> SUFFICES ASSUME Init PROVE IInv OBVIOUS
<1>1. job \in JobRecord /\ job.step = "idle" /\ ~job.aborted /\ job.stopFor = 0
      /\ ~job.pulsed
  BY IdleType DEF Init
<1>2. flags \in SUBSET {"stop", "terminate"} /\ attempts \in SUBSET Ages
  BY DEF Init
<1>3. mount \in MountRecord
  <2> DEFINE z == 0
  <2>1. mount = [left |-> z, overlapped |-> FALSE] BY DEF Init, MountInit
  <2>2. z \in Int OBVIOUS
  <2> HIDE DEF z
  <2>. QED BY <2>1, <2>2 DEF MountRecord
<1>4. camera \in CameraRecord
  <2> DEFINE one == 1
  <2>1. camera = [connected |-> TRUE, hwBin |-> one, curBin |-> one, roi |-> Nothing,
                  frameSize |-> Nothing, sub |-> FALSE]
    BY DEF Init, CameraInit
  <2>2. one \in Nat OBVIOUS
  <2> HIDE DEF one
  <2>. QED BY <2>1, <2>2 DEF CameraRecord
<1>5. server \in ServerRecord
  <2> DEFINE b == <<1, 1>>
             z == 0
  <2>1. server = [bins |-> b, area |-> "full", state |-> "idle", left |-> z,
                  owner |-> "none"]
    BY DEF Init, ServerInit
  <2>2. b \in Bins /\ z \in Int BY DEF Bins
  <2> HIDE DEF b, z
  <2>. QED BY <2>1, <2>2 DEF ServerRecord, Areas
<1>. QED
  BY <1>1, <1>2, <1>3, <1>4, <1>5
  DEF IInv, Types, OwnExposure, ClocksRun, MountAtRest

LEMMA NextInv == ASSUME IInv, [Next]_vars PROVE IInv'
<1>1. CASE MainStep
  BY <1>1, RestStep, RequestSteps, SetBinningStep, ProgramCameraStep, BeginPulseStep
  DEF MainStep
<1>2. CASE CameraStep
  BY <1>2, StartExposureStep, WaitForExposureStep, PollImageStep, DownloadStep
  DEF CameraStep
<1>3. CASE MountStep
  BY <1>3, AwaitEarlierPulseStep, SendPulseStep, SleepPulseStep, AwaitPulseStep
  DEF MountStep
<1>4. CASE ReconnectTakesTime \/ ReconnectStep
  BY <1>4, ReconnectTakesTimeStep, ReconnectStepInv
<1>5. CASE UNCHANGED vars
  BY <1>5 DEF vars, IInv, Types, OwnExposure, ClocksRun, MountAtRest
<1>. QED BY <1>1, <1>2, <1>3, <1>4, <1>5 DEF Next

\* The inductive invariant of the worker with an Alpaca camera and mount
\* (CameraAlpaca::Capture, ScopeAlpaca::Guide).
THEOREM WorkerInvariance == Spec => []IInv
<1>1. IInv /\ [Next]_vars => IInv' BY NextInv
<1>. QED BY <1>1, InitInv, PTL DEF Spec

\* An image that is downloaded is of the exposure that this capture started,
\* whatever the server still exposes for an earlier one.
THEOREM ImagesAreFresh == Spec => []FreshImage
<1>1. IInv => FreshImage BY DEF IInv, OwnExposure, FreshImage
<1>. QED BY <1>1, WorkerInvariance, PTL

\* A capture that is asked to stop ends at once where its abort fails, and
\* within AbortWait where it is acknowledged or the camera has none, whether
\* or not the server ever has an image (kPostAbortTimeoutMs).
THEOREM StopsAreInTime == Spec => []StopInTime
<1>1. IInv => StopInTime
  BY ConstantsTypes DEF IInv, Types, ClocksRun, StopInTime, JobRecord
<1>. QED BY <1>1, WorkerInvariance, PTL

\* A pulse reported as made is over, for every delay of the mount.
THEOREM PulsesAreMade == Spec => []PulseIsMade
<1>1. IInv => PulseIsMade BY DEF IInv, MountAtRest, PulseIsMade
<1>. QED BY <1>1, WorkerInvariance, PTL

LEMMA MountMoves ==
  ASSUME IInv, [Next]_vars
  PROVE  SendPulse \/ mount' \in {mount, MountAfter(mount)}
<1>1. CASE MainStep
  BY <1>1 DEF MainStep, Rest, Elapse, RequestStop, EnqueueRequest, RequestTerminate,
              SetBinning, ProgramCamera, BeginPulse
<1>2. CASE CameraStep
  BY <1>2 DEF CameraStep, StartExposure, WaitForExposure, PollImage, Download
<1>3. CASE MountStep
  <2>1. CASE AwaitEarlierPulse BY <2>1 DEF AwaitEarlierPulse, Elapse
  <2>2. CASE SleepPulse BY <2>2 DEF SleepPulse, Elapse
  <2>3. CASE AwaitPulse BY <2>3, AwaitPulseEffect DEF Elapse
  <2>. QED BY <1>3, <2>1, <2>2, <2>3 DEF MountStep
<1>4. CASE ReconnectTakesTime \/ ReconnectStep
  BY <1>4 DEF ReconnectTakesTime, Elapse, ReconnectStep, DoTryReconnect, ReconnectCamera
<1>5. CASE UNCHANGED vars BY <1>5 DEF vars
<1>. QED BY <1>1, <1>2, <1>3, <1>4, <1>5 DEF Next

\* No pulse is sent to a mount that is known to be moving.
THEOREM PulsesAreApart == Spec => PulsesApart
<1> DEFINE A == mount'.overlapped /\ ~mount.overlapped => job.blind
<1>1. ASSUME IInv, [Next]_vars PROVE A
  <2> SUFFICES ASSUME mount'.overlapped, ~mount.overlapped PROVE job.blind
    OBVIOUS
  <2>1. mount \in MountRecord BY <1>1 DEF IInv, Types
  <2>2. mount' # mount /\ mount' # MountAfter(mount) BY <2>1, MountAfterType
  <2>3. SendPulse BY <1>1, <2>2, MountMoves
  <2>4. PICK answer \in PutAnswers, late \in Delays :
          mount' = IF ~Executed(answer) THEN mount
                   ELSE [left |-> IF late = Never THEN Never ELSE Pulse + late,
                         overlapped |-> mount.left # 0]
    BY <2>3 DEF SendPulse
  <2> DEFINE l == IF late = Never THEN Never ELSE Pulse + late
             o == mount.left # 0
  <2>5. mount.left # 0 /\ job.step = "send"
    <3>1. mount' = [left |-> l, overlapped |-> o] BY <2>2, <2>4
    <3> HIDE DEF l, o
    <3>2. mount'.overlapped = o BY <3>1
    <3>3. o BY <1>1, <3>2
    <3>. QED BY <2>3, <3>3 DEF SendPulse, o
  <2>6. job.blind \in BOOLEAN BY <1>1 DEF IInv, Types, JobRecord
  <2>. QED BY <1>1, <2>5, <2>6 DEF IInv, MountAtRest
<1>2. IInv /\ [Next]_vars => [A]_vars BY <1>1
<1>. QED BY <1>2, WorkerInvariance, PTL DEF Spec, PulsesApart

-----------------------------------------------------------------------------
(* The throttle on the reconnections.  A camera that hangs again after each *)
(* reconnection does so once in the time of the reconnection, an exposure   *)
(* and the watchdog's grace; where the window holds as many of these times  *)
(* as there are attempts, and one reconnection, none is forgotten before    *)
(* the throttle gives up.  It is the case for 3 attempts in 60 s, 15 s of   *)
(* grace, exposures of 1 s and reconnections within 3 s.                    *)

HangTime == Exposure + CaptureTimeout + 1
Cycle == HangTime + ReconnectTime

Recent(set, age) == {a \in set : a <= age}

\* time since the first of the hangs that follow one another, of which h came
\* before the last
Since(h) ==
  h * Cycle + job.t + IF job.step \in {"wait", "poll"} THEN ReconnectTime ELSE 0

\* the attempts that brought the camera back between the hangs so far
HungSoFar ==
  /\ job.hangs \in 1 .. MaxAttempts + 1
  /\ 0 \notin attempts
  /\ job.hangs - 1 <= Cardinality(Recent(attempts, Since(job.hangs - 1)))

RetriedSoFar ==
  /\ job.step \in {"reconnect", "idle", "start", "wait", "poll", "download"}
  /\ job.hangs \in 1 .. MaxAttempts
  /\ job.step # "download" =>
       job.hangs <= Cardinality(Recent(attempts, Since(job.hangs - 1)))

Throttled ==
  /\ job.step \in {"hung", "reconnect", "idle", "start"} => job.t <= ReconnectTime
  /\ job.step = "wait" => job.t < Exposure
  /\ job.step = "poll" => job.t < HangTime
  /\ job.step = "hung" => HungSoFar
  /\ job.step # "hung" /\ job.hangs # 0 => RetriedSoFar

\* as many hangs and reconnections fit into the window as there are attempts,
\* with the time up to the attempt that is refused
WindowHolds == MaxAttempts * Cycle + ReconnectTime <= ReconnectWindow

LEMMA HangTimeType ==
  /\ HangTime \in Nat /\ HangTime = Exposure + CaptureTimeout + 1
  /\ Cycle \in Nat /\ Cycle = HangTime + ReconnectTime /\ ReconnectTime \in Nat
  /\ Exposure >= 1 /\ MaxAttempts >= 1 /\ Exposure < HangTime
BY AlpacaAssumption, ConstantsTypes DEF HangTime, Cycle

\* h hangs take h times as long, and fit into the window.
LEMMA HangsFit ==
  ASSUME WindowHolds, NEW h \in Nat, h <= MaxAttempts
  PROVE  /\ h * Cycle \in Nat
         /\ h * Cycle + ReconnectTime <= ReconnectWindow
         /\ (h + 1) * Cycle = h * Cycle + Cycle
<1> DEFINE T == Cycle
<1>1. T \in Nat /\ MaxAttempts \in Nat /\ ReconnectTime \in Nat
      /\ ReconnectWindow \in Nat /\ MaxAttempts * T + ReconnectTime <= ReconnectWindow
  BY HangTimeType, ConstantsTypes DEF WindowHolds
<1> HIDE DEF T
<1>2. PICK k \in Nat : MaxAttempts = h + k
  <2>1. MaxAttempts - h \in Nat /\ MaxAttempts = h + (MaxAttempts - h) BY <1>1
  <2>. QED BY <2>1
<1>3. h * T \in Nat /\ k * T \in Nat BY <1>1
<1>4. MaxAttempts * T = h * T + k * T BY <1>1, <1>2
<1>5. h * T + ReconnectTime <= ReconnectWindow BY <1>1, <1>3, <1>4
<1>6. (h + 1) * T = h * T + T BY <1>1
<1>. QED BY <1>3, <1>5, <1>6 DEF T

\* The same, for the hangs before the last
LEMMA SinceFits ==
  ASSUME WindowHolds, IInv, job.hangs \in 1 .. MaxAttempts + 1
  PROVE  \E h, b \in Nat :
           /\ h = job.hangs - 1 /\ h <= MaxAttempts /\ b = h * Cycle
           /\ b + ReconnectTime <= ReconnectWindow
           /\ (job.hangs \in 1 .. MaxAttempts => b + Cycle + ReconnectTime <= ReconnectWindow)
           /\ job.hangs * Cycle = b + Cycle
           /\ Since(job.hangs - 1) =
                b + job.t + IF job.step \in {"wait", "poll"} THEN ReconnectTime ELSE 0
           /\ Since(job.hangs - 1) \in Nat
<1> DEFINE h == job.hangs - 1
           b == h * Cycle
<1>1. h \in Nat /\ h <= MaxAttempts /\ h + 1 = job.hangs
  BY ConstantsTypes
<1> HIDE DEF h
<1>2. /\ b \in Nat /\ b + ReconnectTime <= ReconnectWindow
      /\ (h + 1) * Cycle = b + Cycle
  BY <1>1, HangsFit
<1>3. ASSUME job.hangs \in 1 .. MaxAttempts
      PROVE  b + Cycle + ReconnectTime <= ReconnectWindow
  <2>1. h + 1 \in Nat /\ h + 1 <= MaxAttempts BY <1>1, <1>3, ConstantsTypes
  <2>2. (h + 1) * Cycle + ReconnectTime <= ReconnectWindow BY <2>1, HangsFit
  <2>. QED BY <1>2, <2>2
<1>4. Since(h) = b + job.t + IF job.step \in {"wait", "poll"} THEN ReconnectTime ELSE 0
  BY DEF Since
<1> HIDE DEF b
<1>5. Since(h) \in Nat
  BY <1>2, <1>4, ConstantsTypes DEF IInv, Types, JobRecord
<1>6. h = job.hangs - 1 BY DEF h
<1>7. b = h * Cycle BY DEF b
<1>. QED BY <1>1, <1>2, <1>3, <1>4, <1>5, <1>6, <1>7

LEMMA RecentFinite ==
  ASSUME IInv, NEW age
  PROVE  /\ IsFiniteSet(attempts) /\ IsFiniteSet(Recent(attempts, age))
         /\ Cardinality(attempts) \in Nat /\ Cardinality(Recent(attempts, age)) \in Nat
         /\ Cardinality(Recent(attempts, age)) <= Cardinality(attempts)
<1>1. IsFiniteSet(Ages) BY ConstantsTypes, FS_Interval DEF Ages
<1>2. IsFiniteSet(attempts) BY <1>1, FS_Subset DEF IInv, Types
<1>3. Recent(attempts, age) \in SUBSET attempts BY DEF Recent
<1>4. /\ IsFiniteSet(Recent(attempts, age))
      /\ Cardinality(Recent(attempts, age)) <= Cardinality(attempts)
  BY <1>2, <1>3, FS_Subset
<1>. QED BY <1>2, <1>4, FS_CardinalityType

\* A tick makes each attempt older by one, and forgets none within the window.
LEMMA RecentAges ==
  ASSUME IInv, NEW age \in Nat, age + 1 <= ReconnectWindow,
         attempts' = AttemptsAfter
  PROVE  Cardinality(Recent(attempts, age)) <= Cardinality(Recent(attempts', age + 1))
<1> DEFINE S == Recent(attempts, age)
           T == Recent(attempts', age + 1)
           f == [a \in S |-> a + 1]
<1>1. T = {a \in AttemptsAfter : a <= age + 1} BY DEF Recent
<1>2. attempts \in SUBSET Ages /\ ReconnectWindow \in Nat
  BY ConstantsTypes DEF IInv, Types
<1>3. S \in SUBSET Nat
  <2>1. \A a \in Ages : a \in Nat BY <1>2 DEF Ages
  <2>. QED BY <1>2, <2>1 DEF Recent
<1>4. IsFiniteSet(T)
  <2>1. IsFiniteSet(Ages) BY ConstantsTypes, FS_Interval DEF Ages
  <2>2. T \in SUBSET Ages BY <1>1, <1>2, AttemptsType
  <2>. QED BY <2>1, <2>2, FS_Subset
<1>5. \A a \in S : a + 1 \in T
  <2> SUFFICES ASSUME NEW a \in S PROVE a + 1 \in T OBVIOUS
  <2>1. a \in attempts /\ a <= age /\ a \in Nat BY <1>3 DEF Recent
  <2>2. a + 1 \in AttemptsAfter BY <1>2, <2>1 DEF AttemptsAfter
  <2>. QED BY <1>1, <2>1, <2>2
<1> HIDE DEF S, T
<1>6. f \in [S -> T] BY <1>5
<1>7. \A a, b \in S : f[a] = f[b] => a = b BY <1>3
<1> HIDE DEF f
<1>8. f \in Injection(S, T) BY <1>6, <1>7 DEF Injection, IsInjective
<1>. QED BY <1>4, <1>8, FS_Injection DEF S, T

\* An attempt now is one more, since a hang took time.
LEMMA RecentNow ==
  ASSUME IInv, NEW age \in Nat, 0 \notin attempts, attempts' = attempts \cup {0}
  PROVE  Cardinality(Recent(attempts', age)) = Cardinality(Recent(attempts, age)) + 1
<1>1. Recent(attempts', age) = Recent(attempts, age) \cup {0} BY DEF Recent
<1>2. 0 \notin Recent(attempts, age) BY DEF Recent
<1>3. IsFiniteSet(Recent(attempts, age)) BY RecentFinite
<1>. QED BY <1>1, <1>2, <1>3, FS_AddElement

\* No attempt is forgotten in a tick within the window.
LEMMA RecentTicks ==
  ASSUME IInv, NEW n \in Nat, NEW age \in Nat, age + 1 <= ReconnectWindow,
         n <= Cardinality(Recent(attempts, age)), attempts' = AttemptsAfter
  PROVE  n <= Cardinality(Recent(attempts', age + 1))
<1>1. Cardinality(Recent(attempts, age)) <= Cardinality(Recent(attempts', age + 1))
  BY RecentAges
<1>2. Cardinality(Recent(attempts, age)) \in Nat BY RecentFinite
<1>3. Cardinality(Recent(attempts', age + 1)) \in Nat
  <2>1. IsFiniteSet(Ages) BY ConstantsTypes, FS_Interval DEF Ages
  <2>2. attempts' \in SUBSET Ages BY AttemptsType DEF IInv, Types
  <2>3. Recent(attempts', age + 1) \in SUBSET Ages BY <2>2 DEF Recent
  <2>. QED BY <2>1, <2>3, FS_Subset, FS_CardinalityType
<1>. QED BY <1>1, <1>2, <1>3

LEMMA RecentGrows ==
  ASSUME NEW S \in SUBSET Ages, NEW n \in Nat, NEW a \in Nat, NEW b \in Nat, a <= b,
         n <= Cardinality(Recent(S, a))
  PROVE  n <= Cardinality(Recent(S, b))
<1>1. IsFiniteSet(Ages) /\ \A e \in Ages : e \in Nat
  BY ConstantsTypes, FS_Interval DEF Ages
<1>2. Recent(S, a) \in SUBSET Recent(S, b) BY <1>1 DEF Recent
<1>3. Recent(S, b) \in SUBSET Ages BY DEF Recent
<1>4. IsFiniteSet(Recent(S, b)) BY <1>1, <1>3, FS_Subset
<1>5. /\ IsFiniteSet(Recent(S, a))
      /\ Cardinality(Recent(S, a)) <= Cardinality(Recent(S, b))
  BY <1>2, <1>4, FS_Subset
<1>6. Cardinality(Recent(S, a)) \in Nat /\ Cardinality(Recent(S, b)) \in Nat
  BY <1>4, <1>5, FS_CardinalityType
<1>. QED BY <1>5, <1>6

LEMMA JobOverThrottled ==
  ASSUME NEW r \in {"none", "ok", "error"}, job' = Idle(r) PROVE Throttled'
BY IdleType, ConstantsTypes DEF Throttled

\* What is neither a capture's nor a reconnection's keeps the times.
LEMMA PulseThrottled ==
  ASSUME job'.hangs = 0, job'.step \in {"before", "send", "moving", "after"}
  PROVE  Throttled'
BY DEF Throttled

\* A tick between a hang and the next exposure, or of a wait for an image:
\* the attempts stay in the window.
LEMMA TickThrottled ==
  ASSUME IInv, WindowHolds, Throttled,
         job'.step = "hung" <=> job.step = "hung",
         job'.step \in {"wait", "poll"} <=> job.step \in {"wait", "poll"},
         job.step \in {"hung", "reconnect", "idle", "start", "wait", "poll"},
         job'.step \in {"hung", "reconnect", "idle", "start", "wait", "poll"},
         job'.hangs = job.hangs, job'.t = job.t + 1,
         job.step \in {"wait", "poll"} => job.t < HangTime /\ job'.t < HangTime,
         job'.step = "wait" => job'.t < Exposure,
         job.step \notin {"wait", "poll"} => job.t < ReconnectTime,
         attempts' = AttemptsAfter
  PROVE  Throttled'
<1>1. job.hangs \in Nat /\ job.t \in Nat BY DEF IInv, Types, JobRecord
<1>2. ASSUME job.hangs \in 1 .. MaxAttempts + 1, NEW n \in Nat,
             job.hangs \in 1 .. MaxAttempts \/ job.step = "hung",
             n <= Cardinality(Recent(attempts, Since(job.hangs - 1)))
      PROVE  n <= Cardinality(Recent(attempts', Since(job.hangs - 1)'))
  <2>1. PICK h \in Nat, b \in Nat :
          /\ h = job.hangs - 1 /\ b = h * Cycle
          /\ b + ReconnectTime <= ReconnectWindow
          /\ (job.hangs \in 1 .. MaxAttempts => b + Cycle + ReconnectTime <= ReconnectWindow)
          /\ Since(job.hangs - 1) =
               b + job.t + IF job.step \in {"wait", "poll"} THEN ReconnectTime ELSE 0
          /\ Since(job.hangs - 1) \in Nat
    BY <1>2, SinceFits
  <2>2. Since(job.hangs - 1) + 1 <= ReconnectWindow
    BY <1>1, <1>2, <2>1, HangTimeType, ConstantsTypes
  <2>3. Since(job.hangs - 1)' = Since(job.hangs - 1) + 1
    <3>1. job'.hangs - 1 = h BY <2>1
    <3>2. Since(job.hangs - 1)' =
            b + job'.t + IF job'.step \in {"wait", "poll"} THEN ReconnectTime ELSE 0
      BY <2>1, <3>1 DEF Since
    <3>. QED BY <1>1, <2>1, <3>2, HangTimeType
  <2>. QED BY <1>2, <2>1, <2>2, <2>3, RecentTicks
<1>3. CASE job.step = "hung"
  <2>1. /\ job.hangs \in 1 .. MaxAttempts + 1
        /\ job.hangs - 1 <= Cardinality(Recent(attempts, Since(job.hangs - 1)))
    BY <1>3 DEF Throttled, HungSoFar
  <2>2. job.hangs - 1 \in Nat BY <2>1
  <2>3. job.hangs - 1 <= Cardinality(Recent(attempts', Since(job.hangs - 1)'))
    BY <1>2, <1>3, <2>1, <2>2
  <2>4. 0 \notin attempts' BY AttemptsType DEF IInv, Types
  <2>5. HungSoFar' BY <2>1, <2>3, <2>4 DEF HungSoFar
  <2>. QED BY <1>1, <1>3, <2>5, HangTimeType DEF Throttled
<1>4. CASE job.step # "hung"
  <2>1. ASSUME job.hangs # 0 PROVE RetriedSoFar'
    <3>1. /\ job.hangs \in 1 .. MaxAttempts
          /\ job.hangs <= Cardinality(Recent(attempts, Since(job.hangs - 1)))
      BY <1>4, <2>1 DEF Throttled, RetriedSoFar
    <3>2. job.hangs \in 1 .. MaxAttempts + 1 BY <3>1, ConstantsTypes
    <3>3. job.hangs <= Cardinality(Recent(attempts', Since(job.hangs - 1)'))
      BY <1>1, <1>2, <3>1, <3>2
    <3>. QED BY <1>4, <3>1, <3>3 DEF RetriedSoFar
  <2>. QED BY <1>1, <1>4, <2>1, HangTimeType DEF Throttled
<1>. QED BY <1>3, <1>4

\* The exposure begins, within ReconnectTime of a hang if there was one.
LEMMA StartThrottled ==
  ASSUME IInv, WindowHolds, Throttled, job.step = "start",
         job'.step \in {"wait", "poll"}, job'.hangs = job.hangs, job'.t = 0,
         attempts' = attempts
  PROVE  Throttled'
<1>1. ASSUME job.hangs # 0 PROVE RetriedSoFar'
  <2>1. /\ job.hangs \in 1 .. MaxAttempts /\ job.t <= ReconnectTime
        /\ job.hangs <= Cardinality(Recent(attempts, Since(job.hangs - 1)))
    BY <1>1 DEF Throttled, RetriedSoFar
  <2>2. job.hangs \in 1 .. MaxAttempts + 1 BY <2>1, ConstantsTypes
  <2>3. PICK h \in Nat, b \in Nat :
          /\ h = job.hangs - 1 /\ b = h * Cycle
          /\ Since(job.hangs - 1) =
               b + job.t + IF job.step \in {"wait", "poll"} THEN ReconnectTime ELSE 0
          /\ Since(job.hangs - 1) \in Nat
    BY <2>2, SinceFits
  <2>4. Since(job.hangs - 1)' = b + ReconnectTime
    <3>1. job'.hangs - 1 = h BY <2>3
    <3>2. Since(job.hangs - 1)' =
            b + job'.t + IF job'.step \in {"wait", "poll"} THEN ReconnectTime ELSE 0
      BY <2>3, <3>1 DEF Since
    <3>. QED BY <2>3, <3>2, HangTimeType
  <2>5. Since(job.hangs - 1) <= b + ReconnectTime /\ b + ReconnectTime \in Nat
        /\ job.hangs \in Nat
    BY <2>1, <2>3, HangTimeType DEF IInv, Types, JobRecord
  <2>6. attempts \in SUBSET Ages BY DEF IInv, Types
  <2>7. job.hangs <= Cardinality(Recent(attempts, b + ReconnectTime))
    BY <2>1, <2>3, <2>5, <2>6, RecentGrows
  <2>. QED BY <2>1, <2>4, <2>7 DEF RetriedSoFar
<1>2. 0 < Exposure /\ 0 < HangTime BY HangTimeType, ConstantsTypes
<1>. QED BY <1>1, <1>2 DEF Throttled

LEMMA HangThrottled ==
  ASSUME IInv, WindowHolds, Throttled, job.step = "poll", Hangs,
         attempts' = AttemptsAfter
  PROVE  Throttled'
<1>1. job.hangs \in Nat /\ job.t \in Nat /\ job.t < HangTime
      /\ job'.hangs = job.hangs + 1 /\ job'.step = "hung" /\ job'.t = 0
  BY DEF IInv, Types, JobRecord, Throttled, Hangs
<1>2. 0 \notin attempts' /\ attempts' \in SUBSET Ages
  BY AttemptsType DEF IInv, Types
<1>3. Since(job.hangs - 1)' = job.hangs * Cycle
  <2>1. job'.hangs - 1 = job.hangs BY <1>1
  <2>2. Since(job.hangs - 1)' = job.hangs * Cycle + 0 + 0 BY <1>1, <2>1 DEF Since
  <2>3. job.hangs * Cycle \in Nat BY <1>1, HangTimeType
  <2>. QED BY <2>2, <2>3
<1>4. CASE job.hangs = 0
  <2>1. job'.hangs = 1 /\ job'.hangs \in 1 .. MaxAttempts + 1 /\ job'.hangs - 1 = 0
    BY <1>1, <1>4, HangTimeType, ConstantsTypes
  <2>2. Cardinality(Recent(attempts', Since(job.hangs - 1)')) \in Nat
    <3>1. IsFiniteSet(Ages) BY ConstantsTypes, FS_Interval DEF Ages
    <3>2. Recent(attempts', Since(job.hangs - 1)') \in SUBSET Ages BY <1>2 DEF Recent
    <3>. QED BY <3>1, <3>2, FS_Subset, FS_CardinalityType
  <2>3. HungSoFar' BY <1>2, <2>1, <2>2 DEF HungSoFar
  <2>. QED BY <1>1, <2>3, HangTimeType DEF Throttled
<1>5. CASE job.hangs # 0
  <2>1. /\ job.hangs \in 1 .. MaxAttempts
        /\ job.hangs <= Cardinality(Recent(attempts, Since(job.hangs - 1)))
    BY <1>5 DEF Throttled, RetriedSoFar
  <2>2. job.hangs \in 1 .. MaxAttempts + 1 BY <2>1, ConstantsTypes
  <2>3. PICK h \in Nat, b \in Nat :
          /\ b + Cycle + ReconnectTime <= ReconnectWindow
          /\ job.hangs * Cycle = b + Cycle
          /\ Since(job.hangs - 1) =
               b + job.t + IF job.step \in {"wait", "poll"} THEN ReconnectTime ELSE 0
          /\ Since(job.hangs - 1) \in Nat
    BY <2>1, <2>2, SinceFits
  <2>4. /\ Since(job.hangs - 1) + 1 <= b + Cycle /\ b + Cycle \in Nat
        /\ Since(job.hangs - 1) + 1 <= ReconnectWindow
        /\ Since(job.hangs - 1) + 1 \in Nat
    BY <1>1, <2>3, HangTimeType, ConstantsTypes
  <2>5. job.hangs <= Cardinality(Recent(attempts', Since(job.hangs - 1) + 1))
    BY <1>1, <2>1, <2>3, <2>4, RecentTicks
  <2>6. job.hangs <= Cardinality(Recent(attempts', b + Cycle))
    BY <1>1, <1>2, <2>4, <2>5, RecentGrows
  <2>7. job'.hangs \in 1 .. MaxAttempts + 1 /\ job'.hangs - 1 = job.hangs
    BY <1>1, <2>1, ConstantsTypes
  <2>8. HungSoFar' BY <1>2, <1>3, <2>3, <2>6, <2>7 DEF HungSoFar
  <2>. QED BY <1>1, <2>8, HangTimeType DEF Throttled
<1>. QED BY <1>4, <1>5

\* There was an attempt left, and it is remembered.
LEMMA DoTryReconnectThrottled ==
  ASSUME IInv, WindowHolds, Throttled, DoTryReconnect
  PROVE  Throttled'
<1>1. \/ job' = Idle("error")
      \/ /\ job' = [job EXCEPT !.step = "reconnect"] /\ attempts' = attempts \cup {0}
         /\ Cardinality(attempts) + 1 <= MaxAttempts
  BY DoTryReconnectEffect
<1>2. CASE /\ job' = [job EXCEPT !.step = "reconnect"] /\ attempts' = attempts \cup {0}
           /\ Cardinality(attempts) + 1 <= MaxAttempts
  <2>1. job \in JobRecord /\ job.hangs \in Nat /\ job.step = "hung" /\ job.t \in Nat
    BY DEF IInv, Types, JobRecord, DoTryReconnect
  <2>2. /\ job.hangs \in 1 .. MaxAttempts + 1 /\ 0 \notin attempts
        /\ job.t <= ReconnectTime
        /\ job.hangs - 1 <= Cardinality(Recent(attempts, Since(job.hangs - 1)))
    BY <2>1 DEF Throttled, HungSoFar
  <2>3. /\ Cardinality(Recent(attempts, Since(job.hangs - 1))) <= Cardinality(attempts)
        /\ Cardinality(Recent(attempts, Since(job.hangs - 1))) \in Nat
        /\ Cardinality(attempts) \in Nat
    BY RecentFinite
  <2>4. job.hangs \in 1 .. MaxAttempts
    BY <1>2, <2>1, <2>2, <2>3, ConstantsTypes
  <2>5. job'.hangs = job.hangs /\ job'.t = job.t /\ job'.step = "reconnect"
    BY <1>2, <2>1 DEF JobRecord
  <2>6. Since(job.hangs - 1)' = Since(job.hangs - 1)
    BY <2>1, <2>5 DEF Since
  <2>7. Since(job.hangs - 1) \in Nat BY <2>2, SinceFits
  <2>8. Cardinality(Recent(attempts', Since(job.hangs - 1)))
          = Cardinality(Recent(attempts, Since(job.hangs - 1))) + 1
    BY <1>2, <2>2, <2>7, RecentNow
  <2>9. job'.hangs <= Cardinality(Recent(attempts', Since(job.hangs - 1)'))
    BY <2>1, <2>2, <2>3, <2>5, <2>6, <2>8
  <2>10. RetriedSoFar' BY <2>4, <2>5, <2>9 DEF RetriedSoFar
  <2>. QED BY <2>2, <2>5, <2>10 DEF Throttled
<1>. QED BY <1>1, <1>2, JobOverThrottled

\* The camera is back, or the exposure ends.
LEMMA ReconnectCameraThrottled ==
  ASSUME IInv, Throttled, ReconnectCamera PROVE Throttled'
<1>1. /\ job' = Idle("error") \/ job' = [job EXCEPT !.step = "idle"]
      /\ attempts' = attempts
  BY ReconnectCameraEffect
<1>2. CASE job' = [job EXCEPT !.step = "idle"]
  <2>1. job \in JobRecord /\ job.step = "reconnect"
    BY DEF IInv, Types, ReconnectCamera
  <2>2. job'.step = "idle" /\ job'.hangs = job.hangs /\ job'.t = job.t
    BY <1>2, <2>1 DEF JobRecord
  <2>. QED BY <1>1, <2>1, <2>2 DEF Throttled, RetriedSoFar, Since
<1>. QED BY <1>1, <1>2, JobOverThrottled

LEMMA TakesTimeThrottled ==
  ASSUME IInv, WindowHolds, Throttled, ReconnectTakesTime PROVE Throttled'
<1> DEFINE n == job.t + 1
<1>1. /\ job \in JobRecord /\ n \in Nat /\ n = job.t + 1 /\ job.t < ReconnectTime
      /\ job.step \in {"hung", "reconnect", "idle", "start"}
      /\ attempts' = AttemptsAfter
  BY DEF IInv, Types, JobRecord, ReconnectTakesTime, Elapse
<1>2. job' = [job EXCEPT !.t = n] BY DEF ReconnectTakesTime
<1> HIDE DEF n
<1>3. job'.step = job.step /\ job'.hangs = job.hangs /\ job'.t = job.t + 1
  BY <1>1, <1>2 DEF JobRecord
<1>. QED BY <1>1, <1>3, TickThrottled

\* Neither the job nor the attempts change.
LEMMA NothingThrottled ==
  ASSUME Throttled, UNCHANGED <<job, attempts>> PROVE Throttled'
BY DEF Throttled, HungSoFar, RetriedSoFar, Since

LEMMA MainThrottled ==
  ASSUME IInv, Throttled, MainStep PROVE Throttled'
<1>1. job \in JobRecord BY DEF IInv, Types
<1>2. CASE Rest
  <2> DEFINE z == 0
  <2>1. /\ job' = [job EXCEPT !.hangs = z, !.t = z] /\ job.step = "idle"
        /\ z \in Nat /\ z = 0
    BY <1>2 DEF Rest
  <2> HIDE DEF z
  <2>2. job'.hangs = 0 /\ job'.step = "idle" /\ job'.t = 0
    BY <1>1, <2>1 DEF JobRecord
  <2>. QED BY <2>1, <2>2, HangTimeType DEF Throttled
<1>3. CASE RequestStop \/ EnqueueRequest \/ RequestTerminate
           \/ \E bin \in Binnings : SetBinning(bin)
  BY <1>3, NothingThrottled
  DEF RequestStop, EnqueueRequest, RequestTerminate, SetBinning
<1>4. ASSUME NEW sub \in Subframes, ProgramCamera(sub) PROVE Throttled'
  <2>1. /\ \/ job' = [Idle("none") EXCEPT !.step = "start", !.t = job.t,
                                           !.hangs = job.hangs]
           \/ job' = Idle("error")
        /\ job.step = "idle" /\ attempts' = attempts
    BY <1>4 DEF ProgramCamera, Fails
  <2>2. CASE job' = [Idle("none") EXCEPT !.step = "start", !.t = job.t,
                                            !.hangs = job.hangs]
    <3>1. job'.step = "start" /\ job'.hangs = job.hangs /\ job'.t = job.t
      BY <2>2, IdleType DEF JobRecord
    <3>. QED BY <2>1, <3>1 DEF Throttled, RetriedSoFar, Since
  <2>. QED BY <2>1, <2>2, JobOverThrottled
<1>5. CASE BeginPulse
  <2>1. job' = [Idle("none") EXCEPT !.step = "before"] BY <1>5 DEF BeginPulse
  <2>2. job'.hangs = 0 /\ job'.step = "before" BY <2>1, IdleType DEF JobRecord
  <2>. QED BY <2>2, PulseThrottled
<1>. QED BY <1>2, <1>3, <1>4, <1>5 DEF MainStep

LEMMA CameraThrottled ==
  ASSUME IInv, WindowHolds, Throttled, CameraStep PROVE Throttled'
<1>1. job \in JobRecord BY DEF IInv, Types
<1>2. CASE StartExposure
  <2> DEFINE next == IF Exposure > 1 THEN "wait" ELSE "poll"
             z == 0
  <2>1. /\ job' = [job EXCEPT !.step = next, !.t = z] \/ job' = Idle("error")
        /\ job.step = "start" /\ attempts' = attempts
    BY <1>2 DEF StartExposure, Started, Fails
  <2>2. next \in {"wait", "poll"} /\ z = 0 OBVIOUS
  <2> HIDE DEF next, z
  <2>3. CASE job' = [job EXCEPT !.step = next, !.t = z]
    <3>1. job'.step = next /\ job'.hangs = job.hangs /\ job'.t = 0
      BY <1>1, <2>2, <2>3 DEF JobRecord
    <3>. QED BY <2>1, <2>2, <3>1, StartThrottled
  <2>. QED BY <2>1, <2>3, JobOverThrottled
<1>3. CASE WaitForExposure
  <2>1. job' = Idle("error") \/ Waits BY <1>3, WaitForExposureEffect
  <2>2. CASE Waits
    <3>1. /\ job.step = "wait" /\ job.t < Exposure /\ job.t \in Nat
          /\ attempts' = AttemptsAfter
      BY <1>1, <1>3 DEF WaitForExposure, Throttled, JobRecord
    <3>2. job'.t < HangTime /\ job.t < HangTime /\ (job'.step = "wait" => job'.t < Exposure)
      BY <2>2, <3>1, HangTimeType, ConstantsTypes DEF Waits
    <3>. QED BY <2>2, <3>1, <3>2, TickThrottled DEF Waits
  <2>. QED BY <2>1, <2>2, JobOverThrottled
<1>4. CASE PollImage
  <2>1. job' = Idle("error") \/ Polls \/ Downloads \/ Hangs
    BY <1>4, PollImageEffect
  <2>2. /\ job.step = "poll" /\ job.t < HangTime /\ job.t \in Nat
        /\ attempts' = AttemptsAfter
    BY <1>1, <1>4 DEF PollImage, Throttled, JobRecord
  <2>3. CASE Polls
    <3>1. ~Expired(job)
      BY <2>2, HangTimeType, ConstantsTypes DEF Expired
    <3>2. job'.t = job.t + 1 /\ job'.t < HangTime /\ job'.step = "poll"
      BY <2>2, <2>3, <3>1, HangTimeType, ConstantsTypes DEF Polls
    <3>. QED BY <2>2, <2>3, <3>2, TickThrottled DEF Polls
  <2>4. CASE Downloads
    <3>1. job'.step = "download" /\ job'.hangs = job.hangs BY <2>4 DEF Downloads
    <3>2. job.hangs # 0 => job.hangs \in 1 .. MaxAttempts
      BY <2>2 DEF Throttled, RetriedSoFar
    <3>. QED BY <3>1, <3>2 DEF Throttled, RetriedSoFar
  <2>5. CASE Hangs BY <2>2, <2>5, HangThrottled
  <2>. QED BY <2>1, <2>3, <2>4, <2>5, JobOverThrottled
<1>5. CASE Download
  BY <1>5, JobOverThrottled DEF Download, Fails, Succeeds
<1>. QED BY <1>2, <1>3, <1>4, <1>5 DEF CameraStep

\* With a pulse a series of hangs ends.
LEMMA MountThrottled ==
  ASSUME IInv, Throttled, MountStep PROVE Throttled'
<1>1. job.step \in {"before", "send", "moving", "after"} /\ job \in JobRecord
  BY DEF MountStep, AwaitEarlierPulse, SendPulse, SleepPulse, AwaitPulse, IInv, Types
<1>2. job.hangs = 0 BY <1>1 DEF Throttled, RetriedSoFar
<1>3. ASSUME NEW j \in JobRecord, j.step = job.step, j.hangs = 0, NEW n \in Nat,
             job' = [j EXCEPT !.t = n]
      PROVE  Throttled'
  <2>1. job'.hangs = 0 /\ job'.step = job.step BY <1>3 DEF JobRecord
  <2>. QED BY <1>1, <2>1, PulseThrottled
<1>4. ASSUME NEW j \in JobRecord, j.hangs = 0, NEW n \in Nat,
             NEW next \in {"send", "moving", "after"},
             job' = [j EXCEPT !.step = next, !.t = n]
      PROVE  Throttled'
  <2>1. job'.hangs = 0 /\ job'.step = next BY <1>4 DEF JobRecord
  <2>. QED BY <2>1, PulseThrottled
<1>5. \A answer : /\ Blind(job, answer) \in JobRecord
                  /\ Blind(job, answer).step = job.step
                  /\ Blind(job, answer).hangs = 0
  BY <1>1, <1>2, BlindType
<1>6. \A j \in JobRecord : j.t \in Nat /\ j.t + 1 \in Nat BY DEF JobRecord
<1>7. CASE AwaitEarlierPulse
  <2>1. PICK answer \in GetAnswers :
          LET j == Blind(job, answer)
          IN \/ job' = Idle("error")
             \/ job' = [j EXCEPT !.step = "send", !.t = 0]
             \/ job' = [j EXCEPT !.t = j.t + 1]
    BY <1>7 DEF AwaitEarlierPulse, Slews, Fails
  <2> DEFINE j == Blind(job, answer)
             n == j.t + 1
             z == 0
  <2>2. \/ job' = Idle("error") \/ job' = [j EXCEPT !.step = "send", !.t = z]
        \/ job' = [j EXCEPT !.t = n]
    BY <2>1
  <2>3. j \in JobRecord /\ j.step = job.step /\ j.hangs = 0 /\ n \in Nat /\ z \in Nat
    BY <1>5, <1>6
  <2> HIDE DEF j, n, z
  <2>. QED BY <1>3, <1>4, <2>2, <2>3, JobOverThrottled
<1>8. CASE SendPulse
  <2>1. job' = [job EXCEPT !.step = "moving"] \/ job' = Idle("error")
    BY <1>8 DEF SendPulse, Fails
  <2>2. CASE job' = [job EXCEPT !.step = "moving"]
    <3>1. job'.hangs = 0 /\ job'.step = "moving" BY <1>1, <1>2, <2>2 DEF JobRecord
    <3>. QED BY <3>1, PulseThrottled
  <2>. QED BY <2>1, <2>2, JobOverThrottled
<1>9. CASE SleepPulse
  <2> DEFINE n == job.t + 1
  <2>1. \/ job' = Idle("error") \/ job' = [job EXCEPT !.t = n]
        \/ job' = [job EXCEPT !.step = "after", !.t = n]
    BY <1>9 DEF SleepPulse, Fails
  <2>2. n \in Nat BY <1>1, <1>6
  <2> HIDE DEF n
  <2>. QED BY <1>1, <1>2, <1>3, <1>4, <2>1, <2>2, JobOverThrottled
<1>10. CASE AwaitPulse
  <2>1. PICK answer \in GetAnswers :
          LET j == Blind(job, answer)
          IN \/ job' = [Idle("ok") EXCEPT !.pulsed = ~j.blind]
             \/ job' = Idle("error")
             \/ job' = [j EXCEPT !.t = j.t + 1]
    BY <1>10, AwaitPulseEffect
  <2> DEFINE j == Blind(job, answer)
             n == j.t + 1
             o == ~j.blind
  <2>2. \/ job' = [Idle("ok") EXCEPT !.pulsed = o] \/ job' = Idle("error")
        \/ job' = [j EXCEPT !.t = n]
    BY <2>1
  <2>3. j \in JobRecord /\ j.step = job.step /\ j.hangs = 0 /\ n \in Nat
    BY <1>5, <1>6
  <2> HIDE DEF j, n, o
  <2>4. CASE job' = [Idle("ok") EXCEPT !.pulsed = o]
    <3>1. job'.step = "idle" /\ job'.hangs = 0 /\ job'.t = 0
      BY <2>4, IdleType DEF JobRecord
    <3>. QED BY <3>1, HangTimeType DEF Throttled
  <2>. QED BY <1>3, <2>2, <2>3, <2>4, JobOverThrottled
<1>. QED BY <1>7, <1>8, <1>9, <1>10 DEF MountStep

LEMMA NextThrottled ==
  ASSUME IInv, WindowHolds, Throttled, [Next]_vars PROVE Throttled'
<1>1. CASE UNCHANGED vars BY <1>1, NothingThrottled DEF vars
<1>. QED
  BY <1>1, MainThrottled, CameraThrottled, MountThrottled, TakesTimeThrottled,
     DoTryReconnectThrottled, ReconnectCameraThrottled
  DEF Next, ReconnectStep

\* Where the attempts allowed, with the reconnections, the exposures and the
\* watchdog's grace between them, take no longer than the window in which they
\* are counted, a camera that hangs at each exposure is given up
\* (MyFrame::DoTryReconnect's throttle).  Hangs with a rest, a pulse, an image
\* or a failure between them do not count as one after another.
THEOREM HangsAreGivenUp ==
  ASSUME WindowHolds PROVE Spec => []HangsAreBounded
<1>1. Init => Throttled BY IdleType, HangTimeType DEF Init, Throttled
<1>2. IInv /\ Throttled /\ [Next]_vars => Throttled' BY NextThrottled
<1>3. IInv /\ Throttled => HangsAreBounded
  BY ConstantsTypes
  DEF IInv, Types, JobRecord, Throttled, HungSoFar, RetriedSoFar, HangsAreBounded
<1>. QED BY <1>1, <1>2, <1>3, WorkerInvariance, PTL DEF Spec

=============================================================================
