------------------------- MODULE CaptureRefinement -------------------------
(***************************************************************************)
(* The capture loop implements the capture session.                        *)
(***************************************************************************)
EXTENDS CaptureProperties

SessionOf(s) ==
  CASE ~s.active -> "idle"
    [] s.active /\ s.continue -> "looping"
    [] s.active /\ ~s.continue /\ s.single -> "single"
    [] OTHER -> "stopping"

Abstract == INSTANCE CaptureSession WITH
  session <- SessionOf(app), exposing <- app.pending, held <- app.paused = "full"

\* Whatever clients, worker and camera do, the flags move as one session
\* does: a loop or a single frame starts from idle only, a stop waits for
\* just the exposure under way, looping goes on through every reconnect and
\* resume, and nothing but a last exposure or a stop ends a session.
ImplementsSession == Abstract!SessionSpec
=============================================================================
