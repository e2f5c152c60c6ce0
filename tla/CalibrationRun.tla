--------------------------- MODULE CalibrationRun ---------------------------
(***************************************************************************)
(* The calibration of a mount, pulse by pulse (Scope::BeginCalibration and *)
(* Scope::UpdateCalibrationState, scope.cpp), in a world of whole pixels:  *)
(* right ascension moves the star along the first coordinate, declination  *)
(* along the second, and the declination gear has play.  A state of the    *)
(* switch is an operator from the scope's record, at the star's position,  *)
(* to the record after the frame; a fall-through is the application of the *)
(* next state's operator.  Distances are compared by their squares, rates  *)
(* kept as a distance over a time.                                         *)
(***************************************************************************)
EXTENDS Integers

CONSTANTS
  CalibrationDuration,   \* length of a pulse
  CalibrationDistance,   \* how far the star has to move on either axis
  MaxCalibrationSteps,   \* MAX_CALIBRATION_STEPS
  MaxClearingPulses,     \* max(8, BL_MAX_CLEARING_TIME / duration)
  MaxNudges,             \* MAX_NUDGES
  MaxMovePixels,         \* Guider::GetMaxMovePixels
  MaxAxisDuration,       \* m_maxRaDuration, m_maxDecDuration
  FastRecenter,          \* Guider::IsFastRecenterEnabled
  Speed,                 \* pixels that a unit of pulse moves the star
  Play                   \* the most play of the declination gear

ASSUME CalibrationAssumption ==
  /\ {CalibrationDuration, CalibrationDistance, MaxCalibrationSteps,
      MaxClearingPulses, MaxMovePixels, MaxAxisDuration, Speed}
       \subseteq Nat \ {0}
  /\ {MaxNudges, Play} \subseteq Nat
  /\ FastRecenter \in BOOLEAN

VARIABLES
  scope,     \* Scope: its calibration state machine (a phase is cleared, west,
             \* east, backlash, north, south, nudge or complete) and result
  mode,      \* Scope::m_decGuideMode
  guider,    \* what Guider makes of it: idle, calibrating or calibrated
  move,      \* the pulse that is scheduled and not yet completed
  seen,      \* the star's position in the last frame
  world      \* its position now, the play left to the north, and whether
             \* the mount failed to make a pulse of this run

vars == <<scope, mode, guider, move, seen, world>>

Point == Int \X Int
NoPoint == <<>>
NoMove == [dir |-> "none", ms |-> 0]
MoveTo(dir, ms) == [dir |-> dir, ms |-> ms]

Square(n) == n * n
Distance2(p, q) == Square(p[1] - q[1]) + Square(p[2] - q[2])
Dot(p, q) == p[1] * q[1] + p[2] * q[2]
Minus(p, q) == <<p[1] - q[1], p[2] - q[2]>>
Least(m, n) == IF m <= n THEN m ELSE n
Greatest(m, n) == IF m >= n THEN m ELSE n
Abs(n) == Greatest(n, -n)

\* The distance on an axis over the time of the pulses that made it
Rate(dist, time) == [dist |-> dist, time |-> time]
NoRate == Rate(0, 0)          \* CALIBRATION_RATE_UNCALIBRATED
\* how long a pulse moves the star so far at that rate, rounded down
TimeFor(dist, rate) == (dist * rate.time) \div rate.dist

ScopeInit ==
  [phase |-> "cleared", steps |-> 0, initial |-> <<0, 0>>, start |-> NoPoint,
   southStart |-> <<0, 0>>, marker |-> <<0, 0>>, last |-> <<0, 0>>,
   remaining |-> 0, recenter |-> 0, expected |-> NoRate, accepted |-> 0,
   lastCum2 |-> 0, blMoved2 |-> 0,
   xRate |-> NoRate, yRate |-> NoRate, stored |-> "none"]

-----------------------------------------------------------------------------
(* Scope.  Each operator returns the scope's record and a pulse, or none. *)

\* Scope::ClearCalibration
ClearCalibration(s) == [s EXCEPT !.phase = "cleared", !.stored = "none"]

\* Scope::IsCalibrated
IsCalibrated(s, m) == s.stored = "full" \/ (s.stored = "ra" /\ m = "none")

\* Scope::BeginCalibration, with a star at the position last seen.  It leaves
\* the other fields as they were; each is written before it is next read.
BeginCalibration(at) ==
  [ScopeInit EXCEPT !.phase = "west", !.steps = 0,
                    !.initial = at, !.start = NoPoint, !.stored = "none"]

Result(s, pulse) == [scope |-> s, pulse |-> pulse, failed |-> FALSE]
Fail(s) == [scope |-> ClearCalibration(s), pulse |-> NoMove, failed |-> TRUE]

\* CALIBRATION_STATE_COMPLETE: the result is stored and announced
Complete(s) ==
  Result([s EXCEPT !.phase = "complete",
                   !.stored = IF s.yRate = NoRate THEN "ra" ELSE "full"],
         NoMove)

\* The way back to where the calibration began is roughly opposite to the
\* way north: the angle between them is within 40 degrees of 180, its cosine
\* below -0.766, whose square is 71/121.  At the very point there is no angle.
RightDirection(s, at) ==
  LET back == Minus(s.initial, at)
      north == Minus(s.southStart, s.initial)
  IN /\ Dot(back, north) < 0
     /\ 121 * Square(Dot(back, north)) > 71 * Dot(back, back) * Dot(north, north)

\* sqrt(d2) < crit + sqrt(m2)
WithinReach(d2, m2) ==
  LET rest == d2 - Square(CalibrationDistance) - m2
  IN rest < 0 \/ Square(rest) < 4 * Square(CalibrationDistance) * m2

\* Mutant: nudges are as long as the calibration's pulses.
NudgeWhole(s, at) == CalibrationDuration

NudgePulse(s, at) ==
  LET amount == Least(Abs(at[2] - s.initial[2]), MaxMovePixels)
  IN Least(TimeFor(amount, s.yRate), CalibrationDuration)

NudgeIsDue(s, at) ==
  /\ RightDirection(s, at)
  /\ s.steps <= MaxNudges
  /\ Distance2(at, s.initial) > 4         \* NUDGE_TOLERANCE is 2
  /\ WithinReach(Distance2(at, s.initial), s.blMoved2)
  /\ (at[2] - s.initial[2]) * (s.southStart[2] - s.last[2]) > 0

\* Mutant: nudges are not counted.
NudgeUncounted(s, at) ==
  IF NudgeIsDue(s, at)
  THEN Result(s, MoveTo("south", NudgePulse(s, at))) ELSE Complete(s)

\* CALIBRATION_STATE_NUDGE_SOUTH
NudgeSouth(s, at) ==
  IF NudgeIsDue(s, at)
  THEN Result([s EXCEPT !.steps = @ + 1], MoveTo("south", NudgePulse(s, at)))
  ELSE Complete(s)

\* the next pulse of the way back, never longer than what is left of it
Recenter(s, dir) ==
  LET ms == Least(s.recenter, s.remaining)
  IN Result([s EXCEPT !.remaining = @ - ms, !.steps = @ - 1], MoveTo(dir, ms))

\* CALIBRATION_STATE_GO_SOUTH
GoSouth(s, at) ==
  IF s.remaining > 0 THEN Recenter(s, "south")
  ELSE NudgeSouth([s EXCEPT !.phase = "nudge", !.steps = 0, !.last = at], at)

\* As much at a time as keeps the star: the pulse for the largest move, or so
\* many tenths of it, within the axis' limit, and no shorter than the
\* calibration's own
RecenterDuration(tenths, rate) ==
  LET keeps == (tenths * MaxMovePixels * rate.time) \div (10 * rate.dist)
  IN IF FastRecenter
     THEN Greatest(Least(keeps, MaxAxisDuration), CalibrationDuration)
     ELSE CalibrationDuration

DivRoundUp(m, n) == (m + n - 1) \div n

\* Mutant: the last pulse is forgotten.
BeginRecenterShort(s, phase, duration) ==
  LET total == (s.steps - 1) * CalibrationDuration
  IN [s EXCEPT !.phase = phase, !.remaining = total, !.recenter = duration,
               !.steps = DivRoundUp(total, duration)]

\* the end of a leg: the way back is the total duration of its pulses
BeginRecenter(s, phase, duration) ==
  LET total == s.steps * CalibrationDuration
  IN [s EXCEPT !.phase = phase, !.remaining = total, !.recenter = duration,
               !.steps = DivRoundUp(total, duration)]

FarEnough(s, at) == Distance2(s.start, at) >= Square(CalibrationDistance)

\* another pulse of a leg whose star has not moved far enough; the count is
\* compared before it is increased
LegStep(s, dir) ==
  IF s.steps > MaxCalibrationSteps THEN Fail(s)
  ELSE Result([s EXCEPT !.steps = @ + 1], MoveTo(dir, CalibrationDuration))

\* CALIBRATION_STATE_GO_NORTH
GoNorth(s, at) ==
  IF ~FarEnough(s, at) THEN LegStep(s, "north")
  ELSE LET rate == Rate(Abs(at[2] - s.start[2]), s.steps * CalibrationDuration)
           t == [s EXCEPT !.yRate = rate, !.southStart = at]
       IN GoSouth(BeginRecenter(t, "south",
                    RecenterDuration(8, rate)), at)

\* a clearing move of at least 0.6 of a westward pulse's
BigMove(s, at) ==
  100 * Distance2(s.marker, at) * Square(s.expected.time)
    >= 36 * Square(s.expected.dist * CalibrationDuration)

\* Moves without a reversal of direction add up; a small one forward neither
\* counts nor resets
Accepted(s, at) ==
  LET cum == Distance2(s.start, at)
  IN CASE BigMove(s, at) /\ (s.accepted = 0 \/ cum > s.lastCum2) -> s.accepted + 1
       [] BigMove(s, at) /\ ~(s.accepted = 0 \/ cum > s.lastCum2) -> 0
       [] ~BigMove(s, at) -> IF cum < s.lastCum2 THEN 0 ELSE s.accepted

\* Mutant: all clearing moves count as one.
CountAllMoves(s) == [s EXCEPT !.steps = 1]

\* the last move was big enough: it counts as the first one north
CountLastMove(s) == [s EXCEPT !.steps = 1, !.start = s.marker]
\* BL_MIN_CLEARING_DISTANCE is 3
ClearedAnyhow(s, at) == Distance2(s.start, at) >= 9

ToNorth(s, at) ==
  GoNorth([s EXCEPT !.phase = "north", !.blMoved2 = Distance2(s.marker, s.initial)], at)

\* CALIBRATION_STATE_CLEAR_BACKLASH: BL_BACKLASH_MIN_COUNT is 3
ClearBacklash(s, at) ==
  IF s.steps = 0
  THEN Result([s EXCEPT !.steps = 1], MoveTo("north", CalibrationDuration))
  ELSE
    LET t == [s EXCEPT !.accepted = Accepted(s, at)]
        more == s.steps < MaxClearingPulses /\ ~FarEnough(s, at)
    IN CASE t.accepted >= 3 -> ToNorth(CountLastMove(t), at)
         [] t.accepted < 3 /\ more ->
              Result([t EXCEPT !.steps = @ + 1, !.marker = at,
                               !.lastCum2 = Distance2(s.start, at)],
                     MoveTo("north", CalibrationDuration))
         [] t.accepted < 3 /\ ~more /\ ClearedAnyhow(s, at) ->
              ToNorth([t EXCEPT !.steps = 0, !.start = at], at)
         [] OTHER -> Fail(t)

\* Mutant: the Dec mode is not asked.
GoEastOnly(s, at, m) ==
  IF s.remaining > 0 THEN Recenter(s, "east")
  ELSE Result([s EXCEPT !.phase = "complete", !.yRate = NoRate], NoMove)

\* CALIBRATION_STATE_GO_EAST.  With Dec guiding off the run is complete as
\* far as it goes, and stored by the next frame.
GoEast(s, at, m) ==
  LET t == [s EXCEPT !.steps = 0, !.start = at]
  IN CASE s.remaining > 0 -> Recenter(s, "east")
       [] s.remaining <= 0 /\ m = "none" ->
            Result([t EXCEPT !.phase = "complete", !.yRate = NoRate], NoMove)
       [] OTHER ->
            ClearBacklash([t EXCEPT !.phase = "backlash", !.marker = at,
                                    !.expected = s.xRate, !.lastCum2 = 0,
                                    !.accepted = 0], at)

\* CALIBRATION_STATE_GO_WEST
GoWest(s, at, m) ==
  IF ~FarEnough(s, at) THEN LegStep(s, "west")
  ELSE LET rate == Rate(Abs(at[1] - s.start[1]), s.steps * CalibrationDuration)
       IN GoEast(BeginRecenter([s EXCEPT !.xRate = rate], "east",
                   RecenterDuration(10, rate)), at, m)

\* Scope::UpdateCalibrationState
UpdateCalibrationState(s, at, m) ==
  LET t == IF s.start = NoPoint THEN [s EXCEPT !.start = at] ELSE s
  IN CASE t.phase = "cleared"  -> Result(t, NoMove)
       [] t.phase = "west"     -> GoWest(t, at, m)
       [] t.phase = "east"     -> GoEast(t, at, m)
       [] t.phase = "backlash" -> ClearBacklash(t, at)
       [] t.phase = "north"    -> GoNorth(t, at)
       [] t.phase = "south"    -> GoSouth(t, at)
       [] t.phase = "nudge"    -> NudgeSouth(t, at)
       [] t.phase = "complete" -> Complete(t)

-----------------------------------------------------------------------------
(* The mount and the star *)

\* A pulse north first takes up the play, one south gives it back.
Moved(w, m) ==
  LET north == Greatest(0, m.ms - w.play)
      south == Greatest(0, m.ms - (Play - w.play))
      Put(dx, dy, play) ==
        [w EXCEPT !.at = <<@[1] + Speed * dx, @[2] + Speed * dy>>, !.play = play]
  IN CASE m.dir = "west"  -> Put(-m.ms, 0, w.play)
       [] m.dir = "east"  -> Put(m.ms, 0, w.play)
       [] m.dir = "north" -> Put(0, north, Greatest(0, w.play - m.ms))
       [] m.dir = "south" -> Put(0, -south, Least(Play, w.play + m.ms))

\* Scope::Guide fails, or guiding is disabled (Scope::MoveAxis): the move
\* completes without a motion and the calibration is not told.
PulseFails == world' = [world EXCEPT !.failed = TRUE]
PulseMade == world' = Moved(world, move)

PulseCompletes ==
  /\ move # NoMove
  /\ PulseMade \/ PulseFails
  /\ move' = NoMove
  /\ UNCHANGED <<scope, mode, guider, seen>>

-----------------------------------------------------------------------------
(* Guider and clients *)

\* UpdateGuideState in STATE_CALIBRATING_PRIMARY: frames wait for the pulse
CalibrationFrame ==
  /\ guider = "calibrating" /\ move = NoMove
  /\ LET r == UpdateCalibrationState(scope, world.at, mode)
     IN /\ scope' = r.scope
        /\ move' = r.pulse
        /\ guider' = CASE r.failed -> "idle"
                       [] IsCalibrated(r.scope, mode) -> "calibrated"
                       [] OTHER -> "calibrating"
  /\ seen' = world.at
  /\ UNCHANGED <<mode, world>>

OtherFrame ==
  /\ guider # "calibrating" /\ move = NoMove
  /\ seen' = world.at
  /\ UNCHANGED <<scope, mode, guider, move, world>>

\* A guide request with recalibrate, perhaps before a frame has shown where
\* the last pulse of an earlier run took the star.  Positions are counted
\* from the one last seen.
Begin ==
  /\ guider # "calibrating"
  /\ guider' = "calibrating"
  /\ scope' = BeginCalibration(<<0, 0>>)
  /\ seen' = <<0, 0>>
  /\ world' = [world EXCEPT !.at = Minus(@, seen), !.failed = FALSE]
  /\ UNCHANGED <<mode, move>>

\* loop or stop_capture in the middle of a run
Stop ==
  /\ guider = "calibrating"
  /\ guider' = "idle"
  /\ UNCHANGED <<scope, mode, move, seen, world>>

SetDecGuideMode ==
  /\ mode' \in {"auto", "none"} \ {mode}
  /\ UNCHANGED <<scope, guider, move, seen, world>>

Init ==
  /\ scope = ScopeInit
  /\ mode \in {"auto", "none"}
  /\ guider = "idle"
  /\ move = NoMove
  /\ seen = <<0, 0>>
  /\ world \in [at : {<<0, 0>>}, play : 0 .. Play, failed : {FALSE}]

Next ==
  PulseCompletes \/ CalibrationFrame \/ OtherFrame \/ Begin \/ Stop \/ SetDecGuideMode

Spec == Init /\ [][Next]_vars

\* The worker completes pulses, frames go on.
FairSpec == Spec /\ WF_vars(PulseCompletes) /\ WF_vars(CalibrationFrame)

-----------------------------------------------------------------------------
(* What must be true of it *)

\* When the leg back east is over the star is where the leg west began, to
\* the pixel, however the total was cut into pulses: m_recenterRemaining
\* counts all of them and the last is cut to what is left.
RaReturned ==
  [][(/\ scope.phase = "east" /\ scope'.phase \in {"backlash", "complete"}
      /\ ~world.failed)
     => world.at[1] = scope.start[1]]_vars

\* The rates stored are the mount's, whatever play the gear begins with: the
\* backlash clearing leaves no slack in the moves that are counted.
RatesTrue ==
  guider = "calibrated" /\ ~world.failed =>
    /\ scope.xRate.dist = Speed * scope.xRate.time
    /\ scope.yRate # NoRate => scope.yRate.dist = Speed * scope.yRate.time

\* A nudge brings the star nearer to where the calibration began and never
\* takes it past that point: it is cut to the distance, the largest move and
\* the calibration's own duration.
NudgesApproach ==
  [][(/\ scope.phase = "nudge" /\ guider = "calibrating"
      /\ ~world.failed /\ world'.at # world.at)
     => Abs(world'.at[2]) < Abs(world.at[2]) /\ world'.at[2] * world.at[2] >= 0]_vars

\* Every run comes to its end, complete or failed, or is stopped: no leg can
\* go on for ever, whatever the mount fails to do and the Dec mode becomes.
CalibrationEnds ==
  guider = "calibrating" ~> guider # "calibrating" \/ scope.phase = "complete"
=============================================================================
