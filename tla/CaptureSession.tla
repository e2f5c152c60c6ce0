--------------------------- MODULE CaptureSession ---------------------------
(***************************************************************************)
(* Capture as a client may understand it: a session is started, delivers   *)
(* frames, is held by a full pause, and comes to its end.  The flags, the  *)
(* queues and the threads behind it (CaptureActive, m_continueCapturing,   *)
(* m_exposurePending, m_singleExposure of myframe.h) do not appear.        *)
(***************************************************************************)

VARIABLES
  session,  \* what capture is doing, and is meant to do next
  exposing, \* an exposure is under way
  held      \* by a full pause

sessionVars == <<session, exposing, held>>

Sessions == {"idle", "looping", "single", "stopping"}

SessionInit == session = "idle" /\ exposing = FALSE /\ held = FALSE

\* A session begins only from idle, with its first exposure.
Start ==
  /\ session = "idle"
  /\ session' \in {"looping", "single"}
  /\ exposing' = TRUE
  /\ UNCHANGED held

\* The last exposure of a session ends it: the only one of a single, the
\* one that a stop waits for, or one that failed.
Complete ==
  /\ session # "idle" /\ exposing /\ ~held
  /\ session' = "idle"
  /\ exposing' = FALSE
  /\ UNCHANGED held

\* Looping stops at once if it is held between exposures, and otherwise
\* waits for the exposure under way; there is no way back to looping but
\* through idle.
StopLooping ==
  /\ session = "looping"
  /\ session' = IF exposing THEN "stopping" ELSE "idle"
  /\ held' = FALSE
  /\ UNCHANGED exposing

Hold == ~held /\ held' = TRUE /\ UNCHANGED <<session, exposing>>

\* A session that is held loses the exposure under way ...
Drop == held /\ exposing /\ exposing' = FALSE /\ UNCHANGED <<session, held>>

\* ... and if it is looping takes the next when it is resumed.
Release ==
  /\ held
  /\ held' = FALSE
  /\ exposing' = (exposing \/ session = "looping")
  /\ UNCHANGED session

SessionNext == Start \/ Complete \/ StopLooping \/ Hold \/ Drop \/ Release

SessionSpec == SessionInit /\ [][SessionNext]_sessionVars
=============================================================================
