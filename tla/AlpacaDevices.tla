--------------------------- MODULE AlpacaDevices ---------------------------
(***************************************************************************)
(* What the worker thread's conversations with an Alpaca camera and an     *)
(* Alpaca mount share: the interrupt flags, time, and requests over HTTP   *)
(* that may fail or lose their answers (alpaca_client.cpp).  Time passes   *)
(* in ticks, and only in the sleeps of the worker's own loops; whatever    *)
(* the devices do goes on meanwhile.                                       *)
(***************************************************************************)
EXTENDS Integers

CONSTANTS
  Exposure,        \* ticks of an exposure
  CaptureTimeout,  \* GuideCamera::GetTimeoutMs, the watchdog's grace
  AbortWait,       \* kPostAbortTimeoutMs
  Pulse,           \* ticks of a guide pulse
  MovingWait,      \* ticks a pulse waits for the one before (20 * 50 ms)
  PulseGrace,      \* TIMEOUT_MS: how long a pulse may take beyond its length
  Delays,          \* how much longer than asked a device may take
  CanAbort,        \* CanAbortExposure or CanStopExposure
  CanCheckPulse,   \* m_canCheckPulseGuiding
  Binnings,        \* the binnings a single exposure may ask for
  Subframes,       \* whether the guider asks for subframes
  ReconnectTime,   \* the most ticks from a hang to the next exposure
  ReconnectWindow, \* TIME_WINDOW, in ticks
  MaxAttempts      \* MAX_ATTEMPTS of reconnection in the window

Never == -1        \* the remaining time of what will not come to its end

ASSUME AlpacaAssumption ==
  /\ {Exposure, CaptureTimeout, AbortWait, Pulse, MovingWait, PulseGrace,
      ReconnectWindow, MaxAttempts} \subseteq Nat \ {0}
  /\ ReconnectTime \in Nat
  /\ Delays \subseteq Nat \cup {Never}
  /\ Binnings \subseteq Nat \ {0}
  /\ {CanAbort, CanCheckPulse} \cup Subframes \subseteq BOOLEAN

VARIABLES
  job,      \* where in its code the worker is (in a capture: setup, start, wait,
            \* poll, download, hung, reconnect; in a pulse: before, send,
            \* moving, after;
            \* or idle), its clocks, and its result
  flags,    \* WorkerThread::m_interruptRequested
  camera,   \* CameraAlpaca, and what the main thread set for it
  server,   \* the camera behind the Alpaca server
  mount,    \* ScopeAlpaca, and the mount behind its server
  attempts  \* MyFrame::m_cameraReconnectAttempts, by age

vars == <<job, flags, camera, server, mount, attempts>>

\* AlpacaClient::Get: any number of closed connections up to m_getAttempts
\* is retried, which changes nothing at the server; in the end there is an
\* answer or none.
GetAnswers == {"answer", "none"}

\* AlpacaClient::Put, once only: done and told so; refused by the server;
\* done with the answer lost; or never received
PutAnswers == {"done", "refused", "lost", "unsent"}
Executed(answer) == answer \in {"done", "lost"}
Told(answer) == answer = "done"

\* the rest of a device's time after a tick
After(left) == IF left > 0 THEN left - 1 ELSE left

ServerAfter(s) ==
  LET left == After(s.left)
  IN [s EXCEPT !.left = left,
               !.state = IF @ = "exposing" /\ left = 0 THEN "ready" ELSE @]
MountAfter(m) == [m EXCEPT !.left = After(@)]

\* Attempts are forgotten once they are older than the window.
AttemptsAfter == {a + 1 : a \in attempts} \ {ReconnectWindow + 1}

\* A tick of the worker's sleep
Elapse ==
  /\ server' = ServerAfter(server)
  /\ mount' = MountAfter(mount)
  /\ attempts' = AttemptsAfter
=============================================================================
