----------------------- MODULE CalibrationRefinement -----------------------
(***************************************************************************)
(* The calibration in pulses implements the calibration in two legs that   *)
(* the capture loop is modelled with (Guider!UpdateCalibrationState).      *)
(***************************************************************************)
EXTENDS CalibrationRun, Sequences

LegOf(s) ==
  CASE s.phase = "cleared" -> "cleared"
    [] s.phase \in {"west", "east"} -> "ra"
    [] s.phase \in {"backlash", "north", "south", "nudge"} -> "dec"
    [] s.phase = "complete" -> IF s.yRate = NoRate THEN "raDone" ELSE "complete"

\* the fields of MyFrame's and Scope's state that the two legs touch
AppOf(s, m, p) ==
  [calRun |-> LegOf(s), cal |-> s.stored, decMode |-> m, failed |-> {},
   intStop |-> FALSE, reqs |-> IF p = NoMove THEN 0 ELSE 1,
   high |-> IF p = NoMove THEN <<>> ELSE <<"move">>]

Legs == INSTANCE Guider WITH
  app <- AppOf(scope, mode, move), worker <- {}, events <- <<>>,
  AutoFindAttempts <- 1, WaitSelectedFrames <- 1, SettleFrames <- 1,
  MaxPulses <- 1, MaxHangs <- 1, AutoExposure <- FALSE,
  InitialDecMode <- "auto", InitialSticky <- FALSE

\* Each frame of a calibration is a step of the two legs with one of their
\* three outcomes: it goes on with one more pulse, the leg is done, or it has
\* failed; neither leg is skipped, and the result is stored when Dec is done.
ImplementsLegs ==
  [][CalibrationFrame =>
       \E outcome \in {"step", "done", "fail"} :
         Legs!UpdateCalibrationState(AppOf(scope, mode, move), [cal |-> outcome])
           = AppOf(scope', mode', move')]_vars
=============================================================================
