---------------------------- MODULE AlpacaMount ----------------------------
(***************************************************************************)
(* ScopeAlpaca::Guide in the worker thread: the wait for an earlier pulse, *)
(* the request, and the wait for this one, which the mount makes by itself.*)
(***************************************************************************)
EXTENDS AlpacaCamera

MountInit == [left |-> 0, overlapped |-> FALSE]

\* IsPulseGuiding: no answer, or no such property, counts as not moving.
SeesMoving(answer, m) == CanCheckPulse /\ answer = "answer" /\ m.left # 0
Blind(j, answer) ==
  [j EXCEPT !.blind = @ \/ ~CanCheckPulse \/ answer = "none"]

\* Slewing, asked before and during the pulse; it ends the pulse in an error.
Slews == Fails

\* The correction that a frame calls for, or a client's pulse
BeginPulse ==
  /\ job.step = "idle"
  /\ job' = [Idle("none") EXCEPT !.step = "before"]
  /\ UNCHANGED <<flags, camera, server, mount, attempts>>

\* Mutant: a pulse is sent while the mount still makes the one before.
SendAtOnce ==
  /\ job.step = "before"
  /\ job' = [job EXCEPT !.step = "send"]
  /\ UNCHANGED <<flags, camera, server, mount, attempts>>

\* up to MovingWait rounds until an earlier pulse is over
AwaitEarlierPulse ==
  /\ job.step = "before"
  /\ \E answer \in GetAnswers :
       LET j == Blind(job, answer)
       IN \/ Slews /\ UNCHANGED <<server, mount, attempts>>
          \/ /\ ~SeesMoving(answer, mount)
             /\ job' = [j EXCEPT !.step = "send", !.t = 0]
             /\ UNCHANGED <<server, mount, attempts>>
          \/ /\ SeesMoving(answer, mount)
             /\ IF job.t < MovingWait
                THEN job' = [j EXCEPT !.t = @ + 1] /\ Elapse
                ELSE Fails /\ UNCHANGED <<server, mount, attempts>>
  /\ UNCHANGED <<flags, camera>>

\* PulseGuide, once: a pulse whose answer is lost is made all the same.
SendPulse ==
  /\ job.step = "send"
  /\ \E answer \in PutAnswers, late \in Delays :
       /\ mount' = IF ~Executed(answer) THEN mount
                   ELSE [left |-> IF late = Never THEN Never ELSE Pulse + late,
                         overlapped |-> mount.left # 0]
       /\ IF Told(answer) THEN job' = [job EXCEPT !.step = "moving"] ELSE Fails
  /\ UNCHANGED <<flags, camera, server, attempts>>

\* the sleep for the pulse's length, which only termination interrupts
SleepPulse ==
  /\ job.step = "moving"
  /\ Elapse
  /\ CASE "terminate" \in flags -> Fails
       [] "terminate" \notin flags /\ job.t + 1 < Pulse -> job' = [job EXCEPT !.t = @ + 1]
       [] OTHER -> job' = [job EXCEPT !.step = "after", !.t = @ + 1]
  /\ UNCHANGED <<flags, camera>>

PulseIsOver(j) == job' = [Idle("ok") EXCEPT !.pulsed = ~j.blind]

\* Mutant: a pulse that does not end in time is taken for over.
PulseTimesOutOk(j) == PulseIsOver(j)
PulseTimesOut(j) == Fails

\* rounds until the mount says that it has stopped, up to PulseGrace
AwaitPulse ==
  /\ job.step = "after"
  /\ \E answer \in GetAnswers :
       LET j == Blind(job, answer)
       IN IF ~SeesMoving(answer, mount)
          THEN PulseIsOver(j) /\ UNCHANGED <<server, mount, attempts>>
          ELSE CASE job.t > Pulse + PulseGrace ->
                      PulseTimesOut(j) /\ UNCHANGED <<server, mount, attempts>>
                 [] job.t <= Pulse + PulseGrace /\ flags # {} -> Fails /\ Elapse
                 [] job.t <= Pulse + PulseGrace /\ flags = {} ->
                      (Slews \/ job' = [j EXCEPT !.t = @ + 1]) /\ Elapse
  /\ UNCHANGED <<flags, camera>>

MountStep == AwaitEarlierPulse \/ SendPulse \/ SleepPulse \/ AwaitPulse
=============================================================================
