------------------------- MODULE CalibrationProofs -------------------------
(***************************************************************************)
(* What is proved of the calibration in pulses, for every length of a      *)
(* pulse, every distance, every limit and every play of the gear: the way  *)
(* back east is exact, the rates that are stored are the mount's, a nudge  *)
(* never overshoots, and a frame is a step of the calibration in two legs. *)
(*                                                                         *)
(* The inductive invariant says of each phase where the star is.  What     *)
(* holds whatever the mount does (Running) keeps the rates above zero, so  *)
(* that a division by one is a number; what holds as long as no pulse of   *)
(* the run has failed (Faithful) relates the star's position to the pulses *)
(* that were counted, and the play of the gear to the moves accepted.      *)
(***************************************************************************)
EXTENDS CalibrationRefinement, TLAPS

-----------------------------------------------------------------------------
(* The inductive invariant *)

Dirs == {"west", "east", "north", "south"}
Moves == [dir : Dirs, ms : Nat] \cup {NoMove}
Rates == [dist : Nat, time : Nat]
Phases ==
  {"cleared", "west", "east", "backlash", "north", "south", "nudge", "complete"}
Scopes ==
  [phase : Phases, steps : Int, initial : Point, start : {NoPoint} \cup Point,
   southStart : Point, marker : Point, last : Point, remaining : Nat,
   recenter : Nat, expected : Rates, accepted : Nat, lastCum2 : Nat,
   blMoved2 : Nat, xRate : Rates, yRate : Rates, stored : {"none", "ra", "full"}]
Worlds == [at : Point, play : 0 .. Play, failed : BOOLEAN]

TypeInv ==
  /\ mode \in {"auto", "none"}
  /\ guider \in {"idle", "calibrating", "calibrated"}
  /\ move \in Moves
  /\ seen \in Point
  /\ world \in Worlds
  /\ scope \in Scopes

\* Whatever the mount did.  A leg pulses its own way only, so that the other
\* coordinate stands still and a star that is far enough has moved on its
\* axis: no rate is a zero.
OnTheLegs(s, p, w) ==
  /\ s.phase = "west" =>
       /\ p \in {NoMove, MoveTo("west", CalibrationDuration)}
       /\ w.at[2] = s.start[2] /\ s.steps >= 0 /\ s.yRate = NoRate
  /\ s.phase = "east" =>
       /\ p.dir \in {"none", "east"}
       /\ s.xRate.dist > 0 /\ s.recenter > 0 /\ s.yRate = NoRate
  /\ s.phase = "backlash" =>
       /\ p \in {NoMove, MoveTo("north", CalibrationDuration)}
       /\ w.at[1] = s.start[1] /\ s.marker[1] = s.start[1]
       /\ s.xRate.dist > 0 /\ s.expected = s.xRate /\ s.steps >= 1
  /\ s.phase = "north" =>
       /\ p \in {NoMove, MoveTo("north", CalibrationDuration)}
       /\ w.at[1] = s.start[1] /\ s.steps >= 0

OnTheWayBack(s, p, w) ==
  /\ s.phase = "south" =>
       /\ p.dir \in {"none", "south"} /\ s.yRate.dist > 0 /\ s.recenter > 0
       /\ w.at[2] <= s.southStart[2]
  /\ s.phase = "nudge" =>
       /\ p.dir \in {"none", "south"} /\ s.yRate.dist > 0
       /\ s.last[2] <= s.southStart[2]
  /\ s.phase = "complete" => p = NoMove

Running(s, p, w) ==
  /\ s.phase # "cleared" /\ s.initial = <<0, 0>> /\ s.start \in Point
  /\ s.stored # "none" => s.phase = "complete"
  /\ OnTheLegs(s, p, w)
  /\ OnTheWayBack(s, p, w)

\* The run has begun and waits for its first frame
Starting(s) ==
  /\ s.phase = "west" /\ s.start = NoPoint /\ s.steps = 0
  /\ s.initial = <<0, 0>> /\ s.stored = "none" /\ s.yRate = NoRate

\* the rates known so far are the mount's
XTrue(s) == s.xRate.dist = Speed * s.xRate.time
YTrue(s) == s.yRate # NoRate => s.yRate.dist = Speed * s.yRate.time

\* The clearing moves: the star never goes back, and has moved, or a move has
\* been accepted, only once the play is taken up
Cleared(s, p, w) ==
  /\ p # NoMove => w.at[2] = s.marker[2]
  /\ s.start[2] <= s.marker[2] /\ s.marker[2] <= w.at[2]
  /\ w.at[2] > s.start[2] => w.play = 0
  /\ s.accepted > 0 => w.play = 0
  /\ p = NoMove /\ s.accepted > 0
       => w.at[2] = s.marker[2] + Speed * CalibrationDuration

\* As long as the mount made every pulse: where the star will be when the
\* pulse is over is what the pulses counted make it
Faithful(s, p, w) ==
  /\ s.phase # "west" => XTrue(s)
  /\ YTrue(s)
  /\ s.phase = "west" =>
       w.at[1] - Speed * p.ms = s.start[1] - Speed * (s.steps * CalibrationDuration)
  /\ s.phase = "east" => w.at[1] + Speed * p.ms = s.start[1] - Speed * s.remaining
  /\ s.phase = "backlash" => Cleared(s, p, w)
  /\ s.phase = "north" =>
       /\ w.play = 0
       /\ w.at[2] + Speed * p.ms = s.start[2] + Speed * (s.steps * CalibrationDuration)
  /\ s.phase = "nudge" /\ p # NoMove => Speed * p.ms <= w.at[2]

Sound(s, p, w) == Running(s, p, w) /\ (~w.failed => Faithful(s, p, w))

IInv ==
  /\ TypeInv
  /\ guider = "calibrating" => Starting(scope) \/ Sound(scope, move, world)
  /\ RatesTrue

\* What a frame's operator returns, with the star where the world has it
Outcome(r, w) ==
  /\ r.scope \in Scopes
  /\ r.pulse \in Moves
  /\ r.failed \in BOOLEAN
  /\ ~r.failed => Sound(r.scope, r.pulse, w)
  /\ r.failed => r.scope.stored = "none"

\* What becomes of the run, as the calibration in two legs tells it: it goes
\* on with one more pulse, is dropped, or is complete as far as it goes
Pulsed(r, phases) ==
  r.scope.phase \in phases /\ r.scope.stored = "none" /\ r.pulse # NoMove
Dropped(r) ==
  r.scope.phase = "cleared" /\ r.scope.stored = "none" /\ r.pulse = NoMove
Stored(r, result) ==
  /\ r.scope.phase = "complete" /\ r.scope.stored = result /\ r.pulse = NoMove
  /\ r.scope.yRate = NoRate <=> result # "full"

RaPhases == {"west", "east"}
DecPhases == {"backlash", "north", "south", "nudge"}
DecAdvances(r) == Pulsed(r, DecPhases) \/ Dropped(r) \/ Stored(r, "full")
RaAdvances(r, m) ==
  \/ Pulsed(r, RaPhases) \/ Dropped(r)
  \/ IF m = "none" THEN Stored(r, "none") ELSE Pulsed(r, DecPhases)

\* How far a run is, and how many more frames its phase can take
Rank(s) ==
  CASE s.phase = "west" -> 0 [] s.phase = "east" -> 1 [] s.phase = "backlash" -> 2
    [] s.phase = "north" -> 3 [] s.phase = "south" -> 4 [] s.phase = "nudge" -> 5
    [] OTHER -> 6
Left(s) ==
  CASE s.phase \in {"west", "north"} -> MaxCalibrationSteps + 1 - s.steps
    [] s.phase \in {"east", "south"} -> s.remaining
    [] s.phase = "backlash" -> MaxClearingPulses - s.steps
    [] OTHER -> MaxNudges + 1 - s.steps
Later(s, t) ==
  \/ t.phase = "cleared"
  \/ Rank(t) > Rank(s)
  \/ t.phase = s.phase /\ 0 <= Left(t) /\ Left(t) < Left(s)

Advances(s, r, m) ==
  /\ s.phase \in RaPhases => RaAdvances(r, m)
  /\ s.phase \in DecPhases => DecAdvances(r)
  /\ s.phase = "complete" =>
       Stored(r, IF s.yRate = NoRate THEN "ra" ELSE "full")
  /\ s.phase # "complete" => Later(s, r.scope)

-----------------------------------------------------------------------------
(* Arithmetic of distances, rates and pulses *)

LEMMA NotANumber == NoPoint \notin Point
  BY DEF NoPoint, Point

\* A record of pulses is never the absence of one.
LEMMA PulseIsMove ==
  ASSUME NEW dir \in Dirs, NEW ms \in Nat
  PROVE  /\ MoveTo(dir, ms) \in Moves /\ MoveTo(dir, ms) # NoMove
         /\ MoveTo(dir, ms).dir = dir /\ MoveTo(dir, ms).ms = ms
  BY DEF Dirs, Moves, MoveTo, NoMove

LEMMA NoMoveTyped ==
  NoMove \in Moves /\ NoMove.ms = 0 /\ NoMove.dir = "none"
  BY DEF Moves, NoMove

LEMMA SquarePositive ==
  ASSUME NEW n \in Int
  PROVE  /\ Square(n) \in Nat
         /\ n # 0 => Square(n) > 0
  BY DEF Square

LEMMA DistanceTyped ==
  ASSUME NEW p \in Point, NEW q \in Point
  PROVE  /\ Distance2(p, q) \in Nat
         /\ Distance2(p, q) > 0 => p[1] # q[1] \/ p[2] # q[2]
<1>1. /\ p[1] \in Int /\ p[2] \in Int /\ q[1] \in Int /\ q[2] \in Int
  BY DEF Point
<1>2. p[1] - q[1] \in Int /\ p[2] - q[2] \in Int
  BY <1>1
<1>3. Square(p[1] - q[1]) \in Nat /\ Square(p[2] - q[2]) \in Nat
  BY <1>2, SquarePositive
<1>4. p[1] = q[1] /\ p[2] = q[2] => Square(p[1] - q[1]) = 0 /\ Square(p[2] - q[2]) = 0
  BY <1>1 DEF Square
<1> QED BY <1>3, <1>4 DEF Distance2

\* A star that has moved far enough has moved.
LEMMA FarIsAway ==
  ASSUME NEW p \in Point, NEW q \in Point,
         Distance2(p, q) >= Square(CalibrationDistance)
  PROVE  p[1] # q[1] \/ p[2] # q[2]
<1>1. CalibrationDistance \in Int /\ CalibrationDistance # 0
  BY CalibrationAssumption
<1>2. Square(CalibrationDistance) \in Nat /\ Square(CalibrationDistance) > 0
  BY <1>1, SquarePositive
<1> QED BY <1>2, DistanceTyped

LEMMA AbsPositive ==
  ASSUME NEW n \in Int
  PROVE  /\ Abs(n) \in Nat
         /\ n # 0 => Abs(n) > 0
         /\ n >= 0 => Abs(n) = n
         /\ n <= 0 => Abs(n) = -n
  BY DEF Abs, Greatest

\* A quotient by a number above zero is a natural number, and what it stands
\* for is not more than what was divided.
LEMMA Quotient ==
  ASSUME NEW m \in Nat, NEW n \in Nat \ {0}
  PROVE  /\ m \div n \in Nat
         /\ n * (m \div n) <= m
  BY SMT

\* The pulse for a distance moves the star no further when the rate is the
\* mount's.
LEMMA TimeIsEnough ==
  ASSUME NEW dist \in Nat, NEW rate \in Rates, rate.dist > 0
  PROVE  /\ TimeFor(dist, rate) \in Nat
         /\ rate.dist = Speed * rate.time => Speed * TimeFor(dist, rate) <= dist
<1> DEFINE t == rate.time
           d == rate.dist
           q == TimeFor(dist, rate)
<1>1. t \in Nat /\ d \in Nat \ {0} /\ Speed \in Nat \ {0}
  BY CalibrationAssumption DEF Rates
<1>2. dist * t \in Nat
  BY <1>1
<1>3. q = (dist * t) \div d
  BY DEF TimeFor
<1>4. q \in Nat /\ d * q <= dist * t
  BY <1>1, <1>2, <1>3, Quotient
<1>5. ASSUME d = Speed * t PROVE Speed * q <= dist
  <2> HIDE DEF q, t, d
  <2>1. t > 0
    BY <1>1, <1>5
  <2>2. d * q = t * (Speed * q)
    BY <1>1, <1>4, <1>5
  <2>3. dist * t = t * dist
    BY <1>1
  <2>4. t * (Speed * q) <= t * dist
    BY <2>2, <2>3, <1>4
  <2> DEFINE a == Speed * q
  <2>5. a \in Nat
    BY <1>1, <1>4
  <2> HIDE DEF a
  <2>6. SUFFICES ASSUME a > dist PROVE FALSE
    BY <2>5 DEF a
  <2>7. a - dist \in Nat \ {0} /\ t \in Nat \ {0}
    BY <2>5, <2>6, <2>1, <1>1
  <2>8. t * (a - dist) > 0
    BY <2>7
  <2>9. t * (a - dist) = t * a - t * dist
    BY <2>5, <1>1
  <2> QED BY <2>4, <2>8, <2>9, <2>5, <1>1 DEF a
<1> QED BY <1>4, <1>5

-----------------------------------------------------------------------------
(* The frames of a run, one lemma for each of the switch's states *)

\* What every frame knows of the mount it looks at
LEMMA WorldTyped ==
  ASSUME NEW w \in Worlds
  PROVE  /\ w.at \in Point /\ w.at[1] \in Int /\ w.at[2] \in Int
         /\ w.play \in Nat /\ w.failed \in BOOLEAN
  BY CalibrationAssumption DEF Worlds, Point

LEMMA ScopeTyped ==
  ASSUME NEW s \in Scopes
  PROVE  /\ s.steps \in Int /\ s.remaining \in Nat /\ s.recenter \in Nat
         /\ s.accepted \in Nat /\ s.lastCum2 \in Nat /\ s.blMoved2 \in Nat
         /\ s.xRate \in Rates /\ s.yRate \in Rates /\ s.expected \in Rates
         /\ s.southStart[2] \in Int /\ s.last[2] \in Int
         /\ s.marker \in Point /\ s.marker[1] \in Int /\ s.marker[2] \in Int
         /\ s.start \in Point => s.start[1] \in Int /\ s.start[2] \in Int
         /\ s.initial \in Point
  BY DEF Scopes, Point

\* A record of a later phase, and whatever is later than one of those
LEMMA LaterPhase ==
  ASSUME NEW s, NEW t, NEW u
  PROVE  /\ Rank(s) \in Nat
         /\ Rank(t) > Rank(s) => Later(s, t)
         /\ Rank(t) > Rank(s) /\ Later(t, u) => Later(s, u)
<1>1. Rank(s) \in Nat /\ Rank(t) \in Nat /\ Rank(u) \in Nat
  BY DEF Rank
<1>2. u.phase = t.phase => Rank(u) = Rank(t)
  BY DEF Rank
<1> QED BY <1>1, <1>2 DEF Later

LEMMA LimitsTyped ==
  /\ MaxCalibrationSteps \in Nat /\ MaxClearingPulses \in Nat /\ MaxNudges \in Nat
  BY CalibrationAssumption

LEMMA ScopeInitTyped == ScopeInit \in Scopes
<1>1. NoRate \in Rates /\ <<0, 0>> \in Point
  BY DEF NoRate, Rate, Rates, Point
<1> QED BY <1>1 DEF ScopeInit, Scopes, Phases

\* A leg that has taken too many pulses ends the run.
LEMMA FailEnds ==
  ASSUME NEW s \in Scopes, NEW w \in Worlds
  PROVE  Outcome(Fail(s), w) /\ Dropped(Fail(s))
<1>1. ClearCalibration(s) \in Scopes /\ ClearCalibration(s).stored = "none"
      /\ ClearCalibration(s).phase = "cleared"
  BY DEF ClearCalibration, Scopes, Phases
<1> QED BY <1>1, NoMoveTyped DEF Outcome, Fail, Dropped

\* Whatever the pulse did, the result that is stored is what was measured.
LEMMA CompleteSound ==
  ASSUME NEW s \in Scopes, NEW w \in Worlds,
         s.initial = <<0, 0>>, s.start \in Point,
         ~w.failed => XTrue(s) /\ YTrue(s)
  PROVE  /\ Outcome(Complete(s), w)
         /\ Stored(Complete(s), IF s.yRate = NoRate THEN "ra" ELSE "full")
<1> DEFINE result == IF s.yRate = NoRate THEN "ra" ELSE "full"
           t == [s EXCEPT !.phase = "complete", !.stored = result]
<1>1. /\ result \in {"none", "ra", "full"}
      /\ result = IF s.yRate = NoRate THEN "ra" ELSE "full"
      /\ s.yRate = NoRate <=> result # "full"
  OBVIOUS
<1> HIDE DEF result
<1>2. t \in Scopes
  BY <1>1 DEF Scopes, Phases
<1>3. /\ t.phase = "complete" /\ t.initial = s.initial /\ t.start = s.start
      /\ t.xRate = s.xRate /\ t.yRate = s.yRate /\ t.stored = result
  BY <1>1 DEF Scopes
<1> HIDE DEF t
<1>4. Running(t, NoMove, w)
  BY <1>3 DEF Running, OnTheLegs, OnTheWayBack
<1>5. ~w.failed => Faithful(t, NoMove, w)
  BY <1>3 DEF Faithful, XTrue, YTrue
<1>6. Complete(s) = Result(t, NoMove)
  BY DEF Complete, t, result
<1> QED BY <1>1, <1>2, <1>3, <1>4, <1>5, <1>6, NoMoveTyped
       DEF Outcome, Result, Sound, Stored

\* A nudge is due only with the star still north of where the run began.
LEMMA DueIsNorth ==
  ASSUME NEW s \in Scopes, NEW w \in Worlds,
         s.initial = <<0, 0>>, s.last[2] <= s.southStart[2], NudgeIsDue(s, w.at)
  PROVE  w.at[2] > 0
<1>1. /\ w.at[2] \in Int /\ s.southStart[2] \in Int /\ s.last[2] \in Int
  BY WorldTyped, ScopeTyped
<1>2. w.at[2] * (s.southStart[2] - s.last[2]) > 0
  BY <1>1 DEF NudgeIsDue
<1> DEFINE a == w.at[2]
           b == s.southStart[2] - s.last[2]
<1>3. a \in Int /\ b \in Nat /\ a * b > 0
  BY <1>1, <1>2
<1> HIDE DEF a, b
<1>4. a > 0
  <2>1. SUFFICES ASSUME a <= 0 PROVE FALSE
    BY <1>3
  <2>2. (-a) * b >= 0
    BY <2>1, <1>3
  <2>3. (-a) * b = -(a * b)
    BY <1>3
  <2> QED BY <2>2, <2>3, <1>3
<1> QED BY <1>4 DEF a

\* A nudge is cut to the distance that is left.
LEMMA NudgeIsShort ==
  ASSUME NEW s \in Scopes, NEW w \in Worlds,
         s.initial = <<0, 0>>, s.yRate.dist > 0, w.at[2] > 0
  PROVE  /\ NudgePulse(s, w.at) \in Nat
         /\ YTrue(s) => Speed * NudgePulse(s, w.at) <= w.at[2]
<1>1. /\ w.at[2] \in Int /\ s.yRate \in Rates
      /\ CalibrationDuration \in Nat /\ MaxMovePixels \in Nat /\ Speed \in Nat
  BY WorldTyped, ScopeTyped, CalibrationAssumption
<1> DEFINE amount == Least(Abs(w.at[2] - s.initial[2]), MaxMovePixels)
           time == TimeFor(amount, s.yRate)
           ms == Least(time, CalibrationDuration)
<1>2. amount \in Nat /\ amount <= w.at[2]
  BY <1>1 DEF Least, Abs, Greatest
<1> HIDE DEF amount
<1>3. time \in Nat /\ (s.yRate.dist = Speed * s.yRate.time => Speed * time <= amount)
  BY <1>1, <1>2, TimeIsEnough
<1>4. s.yRate # NoRate
  BY DEF NoRate, Rate
<1> HIDE DEF time
<1>5. ms \in Nat /\ ms <= time
  BY <1>1, <1>3 DEF Least
<1> HIDE DEF ms
<1>6. Speed * ms <= Speed * time
  <2>1. time - ms \in Nat
    BY <1>3, <1>5
  <2>2. Speed * (time - ms) \in Nat
    BY <2>1, <1>1
  <2>3. Speed * (time - ms) = Speed * time - Speed * ms
    BY <1>1, <1>3, <1>5
  <2> QED BY <2>2, <2>3, <1>1, <1>3, <1>5
<1>7. NudgePulse(s, w.at) = ms
  BY DEF NudgePulse, ms, time, amount
<1>8. Speed * ms \in Nat /\ Speed * time \in Nat
  BY <1>1, <1>3, <1>5
<1>9. ASSUME YTrue(s) PROVE Speed * ms <= w.at[2]
  BY <1>1, <1>2, <1>3, <1>4, <1>6, <1>8, <1>9 DEF YTrue
<1> QED BY <1>5, <1>7, <1>9

\* CALIBRATION_STATE_NUDGE_SOUTH
LEMMA NudgeSouthSound ==
  ASSUME NEW s \in Scopes, NEW w \in Worlds,
         s.phase = "nudge", s.stored = "none",
         s.initial = <<0, 0>>, s.start \in Point, s.yRate.dist > 0,
         s.last[2] <= s.southStart[2],
         ~w.failed => XTrue(s) /\ YTrue(s)
  PROVE  LET r == NudgeSouth(s, w.at)
         IN Outcome(r, w) /\ DecAdvances(r) /\ Later(s, r.scope)
<1>1. CASE ~NudgeIsDue(s, w.at)
  <2>1. NudgeSouth(s, w.at) = Complete(s)
    BY <1>1 DEF NudgeSouth
  <2>2. s.yRate # NoRate
    BY DEF NoRate, Rate
  <2>3. Outcome(Complete(s), w) /\ Stored(Complete(s), "full")
    BY <2>2, CompleteSound
  <2>4. Later(s, Complete(s).scope)
    BY <2>3 DEF Stored, Later, Rank
  <2> QED BY <2>1, <2>3, <2>4 DEF DecAdvances
<1>2. CASE NudgeIsDue(s, w.at)
  <2> DEFINE n == s.steps + 1
             t == [s EXCEPT !.steps = n]
             ms == NudgePulse(s, w.at)
             pulse == MoveTo("south", ms)
  <2>1. NudgeSouth(s, w.at) = Result(t, pulse)
    BY <1>2 DEF NudgeSouth
  <2>2. ms \in Nat /\ (YTrue(s) => Speed * ms <= w.at[2])
    BY <1>2, DueIsNorth, NudgeIsShort
  <2> HIDE DEF ms
  <2>3. pulse \in Moves /\ pulse.dir = "south" /\ pulse.ms = ms
        /\ pulse # NoMove
    BY <2>2, "south" \in Dirs, PulseIsMove DEF Dirs
  <2>4. n \in Int /\ n = s.steps + 1 /\ s.steps \in Int /\ s.steps <= MaxNudges
    BY <1>2, ScopeTyped DEF NudgeIsDue
  <2> HIDE DEF n, pulse
  <2>5. t \in Scopes
    BY <2>4 DEF Scopes
  <2>6. /\ t.phase = "nudge" /\ t.stored = "none" /\ t.initial = s.initial
        /\ t.start = s.start /\ t.yRate = s.yRate /\ t.xRate = s.xRate
        /\ t.last = s.last /\ t.southStart = s.southStart /\ t.steps = n
    BY <2>4 DEF Scopes
  <2> HIDE DEF t
  <2>7. Running(t, pulse, w)
    BY <2>3, <2>6 DEF Running, OnTheLegs, OnTheWayBack
  <2>8. ~w.failed => Faithful(t, pulse, w)
    BY <2>2, <2>3, <2>6 DEF Faithful, XTrue, YTrue
  <2>9. Pulsed(Result(t, pulse), DecPhases)
    BY <2>3, <2>6 DEF Pulsed, Result, DecPhases
  <2>10. Later(s, t)
    BY <2>4, <2>6, LimitsTyped DEF Later, Left
  <2> QED BY <2>1, <2>3, <2>5, <2>7, <2>8, <2>9, <2>10
          DEF Outcome, Result, Sound, DecAdvances
<1> QED BY <1>1, <1>2

\* The next pulse of the way back is no longer than what is left of it.
LEMMA RecenterTyped ==
  ASSUME NEW s \in Scopes, NEW dir \in Dirs, s.remaining > 0, s.recenter > 0
  PROVE  LET r == Recenter(s, dir)
         IN /\ r.scope \in Scopes /\ r.pulse \in Moves /\ r.pulse # NoMove
            /\ r.pulse.dir = dir /\ r.failed = FALSE
            /\ r.pulse.ms \in Nat /\ r.pulse.ms > 0
            /\ r.scope.remaining = s.remaining - r.pulse.ms
            /\ r.scope = [s EXCEPT !.remaining = r.scope.remaining,
                                   !.steps = r.scope.steps]
<1> DEFINE ms == Least(s.recenter, s.remaining)
           left == s.remaining - ms
           n == s.steps - 1
           pulse == MoveTo(dir, ms)
<1>1. ms \in Nat /\ ms > 0 /\ left \in Nat /\ n \in Int
  BY ScopeTyped DEF Least
<1>2. Recenter(s, dir) = Result([s EXCEPT !.remaining = left, !.steps = n], pulse)
  BY DEF Recenter
<1>3. pulse \in Moves /\ pulse # NoMove /\ pulse.dir = dir /\ pulse.ms = ms
  BY <1>1, PulseIsMove
<1> HIDE DEF pulse, n
<1>4. left = s.remaining - ms
  OBVIOUS
<1> HIDE DEF left
<1> DEFINE t == [s EXCEPT !.remaining = left, !.steps = n]
<1>5. t \in Scopes
  BY <1>1 DEF Scopes
<1>6. t.remaining = left /\ t.steps = n
  BY DEF Scopes
<1>7. t = [s EXCEPT !.remaining = t.remaining, !.steps = t.steps]
  BY <1>6
<1> HIDE DEF t
<1> HIDE DEF ms
<1>8. /\ Recenter(s, dir).scope = t /\ Recenter(s, dir).pulse = pulse
      /\ Recenter(s, dir).failed = FALSE
  BY <1>2 DEF Result, t
<1> QED BY <1>1, <1>3, <1>4, <1>5, <1>6, <1>7, <1>8

\* CALIBRATION_STATE_GO_SOUTH
LEMMA GoSouthSound ==
  ASSUME NEW s \in Scopes, NEW w \in Worlds,
         s.phase = "south", s.stored = "none",
         s.initial = <<0, 0>>, s.start \in Point, s.yRate.dist > 0,
         s.recenter > 0, w.at[2] <= s.southStart[2],
         ~w.failed => XTrue(s) /\ YTrue(s)
  PROVE  LET r == GoSouth(s, w.at)
         IN Outcome(r, w) /\ DecAdvances(r) /\ Later(s, r.scope)
<1>1. CASE s.remaining > 0
  <2> DEFINE r == Recenter(s, "south")
             t == r.scope
             left == t.remaining
             n == t.steps
  <2>1. GoSouth(s, w.at) = r
    BY <1>1 DEF GoSouth
  <2>2. /\ t \in Scopes /\ r.pulse \in Moves /\ r.failed = FALSE
        /\ r.pulse.dir = "south" /\ r.pulse # NoMove
        /\ r.pulse.ms \in Nat /\ r.pulse.ms > 0
        /\ left = s.remaining - r.pulse.ms /\ t.remaining = left
        /\ t = [s EXCEPT !.remaining = left, !.steps = n]
    BY <1>1, "south" \in Dirs, RecenterTyped, Zenon DEF Dirs
  <2> HIDE DEF r, left, n, t
  <2>3. /\ t.phase = "south" /\ t.stored = "none" /\ t.initial = s.initial
        /\ t.start = s.start /\ t.yRate = s.yRate /\ t.xRate = s.xRate
        /\ t.recenter = s.recenter /\ t.southStart = s.southStart
    BY <2>2 DEF Scopes
  <2>4. Running(t, r.pulse, w)
    BY <2>2, <2>3 DEF Running, OnTheLegs, OnTheWayBack
  <2>5. ~w.failed => Faithful(t, r.pulse, w)
    BY <2>3 DEF Faithful, XTrue, YTrue
  <2>6. r.scope = t
    BY DEF t
  <2>7. Pulsed(r, DecPhases)
    BY <2>2, <2>3, <2>6 DEF Pulsed, DecPhases
  <2>8. Later(s, t)
    <3>1. t.remaining \in Nat /\ s.remaining \in Nat
      BY <2>2, ScopeTyped
    <3> QED BY <2>2, <2>3, <3>1 DEF Later, Left
  <2> QED BY <2>1, <2>2, <2>4, <2>5, <2>6, <2>7, <2>8
          DEF Outcome, Sound, DecAdvances
<1>2. CASE ~(s.remaining > 0)
  <2> DEFINE a == w.at
             none == 0
             t == [s EXCEPT !.phase = "nudge", !.steps = none, !.last = a]
  <2>1. GoSouth(s, w.at) = NudgeSouth(t, w.at)
    BY <1>2 DEF GoSouth
  <2>2. a \in Point /\ none \in Int
    BY WorldTyped
  <2>3. w.at = a
    OBVIOUS
  <2> HIDE DEF a, none
  <2>4. t \in Scopes
    BY <2>2 DEF Scopes, Phases
  <2>5. /\ t.phase = "nudge" /\ t.stored = "none" /\ t.initial = s.initial
        /\ t.start = s.start /\ t.yRate = s.yRate /\ t.xRate = s.xRate
        /\ t.last = a /\ t.southStart = s.southStart
    BY DEF Scopes
  <2> HIDE DEF t
  <2>6. (~w.failed => XTrue(t) /\ YTrue(t)) /\ t.last[2] <= t.southStart[2]
    BY <2>3, <2>5 DEF XTrue, YTrue
  <2>7. /\ Outcome(NudgeSouth(t, w.at), w) /\ DecAdvances(NudgeSouth(t, w.at))
        /\ Later(t, NudgeSouth(t, w.at).scope)
    BY <2>4, <2>5, <2>6, NudgeSouthSound
  <2>8. Rank(t) > Rank(s)
    BY <2>5 DEF Rank
  <2> QED BY <2>1, <2>7, <2>8, LaterPhase
<1> QED BY <1>1, <1>2

\* The pulses of the way back are at least as long as the calibration's.
LEMMA RecenterDurationTyped ==
  ASSUME NEW rate \in Rates, rate.dist > 0, NEW tenths \in Nat
  PROVE  /\ RecenterDuration(tenths, rate) \in Nat
         /\ RecenterDuration(tenths, rate) > 0
<1>1. /\ CalibrationDuration \in Nat \ {0} /\ MaxAxisDuration \in Nat
      /\ MaxMovePixels \in Nat /\ rate.dist \in Nat /\ rate.time \in Nat
  BY CalibrationAssumption DEF Rates
<1> DEFINE m == tenths * MaxMovePixels * rate.time
           n == 10 * rate.dist
           keeps == m \div n
<1>2. m \in Nat /\ n \in Nat \ {0}
  BY <1>1
<1> HIDE DEF m, n
<1>3. keeps \in Nat
  BY <1>2, Quotient
<1> HIDE DEF keeps
<1> DEFINE least == Least(keeps, MaxAxisDuration)
<1>4. least \in Nat
  BY <1>1, <1>3 DEF Least
<1> HIDE DEF least
<1>5. Greatest(least, CalibrationDuration) \in Nat /\ Greatest(least, CalibrationDuration) > 0
  BY <1>1, <1>4 DEF Greatest
<1>6. RecenterDuration(tenths, rate)
        \in {Greatest(least, CalibrationDuration), CalibrationDuration}
  BY DEF RecenterDuration, least, keeps, m, n
<1> QED BY <1>1, <1>5, <1>6

\* All the pulses of a leg are taken back.
LEMMA BeginRecenterTyped ==
  ASSUME NEW s \in Scopes, NEW phase \in Phases, NEW duration \in Nat,
         duration > 0, s.steps >= 0
  PROVE  LET t == BeginRecenter(s, phase, duration)
         IN /\ t \in Scopes
            /\ t.remaining = s.steps * CalibrationDuration
            /\ t.remaining \in Nat
            /\ t.recenter = duration
            /\ t.phase = phase /\ t.initial = s.initial /\ t.start = s.start
            /\ t.southStart = s.southStart /\ t.stored = s.stored
            /\ t.xRate = s.xRate /\ t.yRate = s.yRate
<1> DEFINE total == s.steps * CalibrationDuration
           n == DivRoundUp(total, duration)
           t == [s EXCEPT !.phase = phase, !.remaining = total,
                          !.recenter = duration, !.steps = n]
<1>1. s.steps \in Nat /\ CalibrationDuration \in Nat
  BY ScopeTyped, CalibrationAssumption
<1>2. total \in Nat
  BY <1>1
<1>3. BeginRecenter(s, phase, duration) = t
  BY DEF BeginRecenter
<1>4. total = s.steps * CalibrationDuration
  OBVIOUS
<1> HIDE DEF total
<1>5. total + duration - 1 \in Int
  BY <1>2
<1>6. n \in Int
  BY <1>5 DEF DivRoundUp
<1> HIDE DEF n
<1>7. t \in Scopes
  BY <1>2, <1>6 DEF Scopes
<1>8. /\ t.remaining = total /\ t.recenter = duration
      /\ t.phase = phase /\ t.initial = s.initial /\ t.start = s.start
      /\ t.southStart = s.southStart /\ t.stored = s.stored
      /\ t.xRate = s.xRate /\ t.yRate = s.yRate
  BY DEF Scopes
<1> HIDE DEF t
<1> QED BY <1>2, <1>3, <1>4, <1>7, <1>8

\* Another pulse of a leg
LEMMA LegStepTyped ==
  ASSUME NEW s \in Scopes, NEW dir \in Dirs, ~(s.steps > MaxCalibrationSteps)
  PROVE  LET r == LegStep(s, dir)
         IN /\ r.scope \in Scopes /\ r.failed = FALSE
            /\ r.pulse = MoveTo(dir, CalibrationDuration)
            /\ r.scope.steps = s.steps + 1
            /\ r.scope = [s EXCEPT !.steps = r.scope.steps]
<1> DEFINE n == s.steps + 1
           t == [s EXCEPT !.steps = n]
           pulse == MoveTo(dir, CalibrationDuration)
<1>1. LegStep(s, dir) = Result(t, pulse)
  BY DEF LegStep
<1>2. n \in Int /\ n = s.steps + 1
  BY ScopeTyped
<1> HIDE DEF n
<1>3. t \in Scopes /\ t.steps = n
  BY <1>2 DEF Scopes
<1>4. t = [s EXCEPT !.steps = t.steps]
  BY <1>3
<1> HIDE DEF t
<1>5. pulse = MoveTo(dir, CalibrationDuration)
  OBVIOUS
<1> HIDE DEF pulse
<1> QED BY <1>1, <1>2, <1>3, <1>4, <1>5 DEF Result

\* One more pulse of a leg takes the star that much further.
LEMMA OneMorePulse ==
  ASSUME NEW n \in Int
  PROVE  /\ n * CalibrationDuration \in Int
         /\ Speed * (n * CalibrationDuration) \in Int
         /\ Speed * CalibrationDuration \in Int
         /\ Speed * ((n + 1) * CalibrationDuration)
              = Speed * (n * CalibrationDuration) + Speed * CalibrationDuration
         /\ n >= 0 => /\ n * CalibrationDuration \in Nat
                      /\ Speed * (n * CalibrationDuration) \in Nat
<1>1. Speed \in Nat /\ CalibrationDuration \in Nat
  BY CalibrationAssumption
<1> QED BY <1>1

\* CALIBRATION_STATE_GO_NORTH
LEMMA GoNorthSound ==
  ASSUME NEW s \in Scopes, NEW w \in Worlds,
         s.phase = "north", s.stored = "none",
         s.initial = <<0, 0>>, s.start \in Point, s.steps >= 0,
         w.at[1] = s.start[1],
         ~w.failed =>
           /\ XTrue(s) /\ YTrue(s) /\ w.play = 0
           /\ w.at[2] = s.start[2] + Speed * (s.steps * CalibrationDuration)
  PROVE  LET r == GoNorth(s, w.at)
         IN Outcome(r, w) /\ DecAdvances(r) /\ Later(s, r.scope)
<1> DEFINE D == CalibrationDuration
<1>1. /\ D \in Nat /\ Speed \in Nat /\ s.steps \in Int
      /\ w.at \in Point /\ w.at[2] \in Int /\ s.start[2] \in Int
  BY WorldTyped, ScopeTyped, CalibrationAssumption
<1>2. CASE ~FarEnough(s, w.at) /\ s.steps > MaxCalibrationSteps
  <2>1. GoNorth(s, w.at) = Fail(s)
    BY <1>2 DEF GoNorth, LegStep
  <2> QED BY <2>1, FailEnds DEF DecAdvances, Dropped, Later
<1>3. CASE ~FarEnough(s, w.at) /\ ~(s.steps > MaxCalibrationSteps)
  <2> DEFINE r == LegStep(s, "north")
             t == r.scope
             n == t.steps
             pulse == r.pulse
  <2>1. GoNorth(s, w.at) = r
    BY <1>3 DEF GoNorth
  <2>2. /\ t \in Scopes /\ r.failed = FALSE
        /\ pulse = MoveTo("north", D)
        /\ n = s.steps + 1 /\ t = [s EXCEPT !.steps = n]
    BY <1>3, "north" \in Dirs, LegStepTyped DEF Dirs
  <2>3. r.scope = t /\ r.pulse = pulse /\ t.steps = n
    OBVIOUS
  <2>4. pulse \in Moves /\ pulse.ms = D /\ pulse # NoMove
    BY <2>2, <1>1, "north" \in Dirs, PulseIsMove DEF Dirs
  <2> HIDE DEF r, t, n, pulse
  <2>5. /\ t.phase = "north" /\ t.stored = "none" /\ t.initial = s.initial
        /\ t.start = s.start /\ t.yRate = s.yRate /\ t.xRate = s.xRate
    BY <2>2 DEF Scopes
  <2>6. Running(t, pulse, w)
    BY <2>2, <2>3, <2>5, <1>1 DEF Running, OnTheLegs, OnTheWayBack
  <2>7. /\ Speed * (n * D) = Speed * (s.steps * D) + Speed * D
        /\ Speed * (s.steps * D) \in Int /\ Speed * D \in Int
    BY <1>1, <2>2, OneMorePulse
  <2>8. ~w.failed => Faithful(t, pulse, w)
    BY <1>1, <2>3, <2>4, <2>5, <2>7 DEF Faithful, XTrue, YTrue
  <2>9. Pulsed(r, DecPhases)
    BY <2>3, <2>4, <2>5 DEF Pulsed, DecPhases
  <2>10. Later(s, t)
    BY <1>1, <1>3, <2>2, <2>3, <2>5, LimitsTyped DEF Later, Left
  <2> QED BY <2>1, <2>2, <2>3, <2>4, <2>6, <2>8, <2>9, <2>10
          DEF Outcome, Sound, DecAdvances
<1>4. CASE FarEnough(s, w.at)
  <2> DEFINE a == w.at
             total == s.steps * D
             dist == Abs(w.at[2] - s.start[2])
             rate == Rate(dist, total)
             u == [s EXCEPT !.yRate = rate, !.southStart = a]
             duration == RecenterDuration(8, rate)
             t == BeginRecenter(u, "south", duration)
  <2>1. GoNorth(s, w.at) = GoSouth(t, w.at)
    BY <1>4 DEF GoNorth
  <2>2. a \in Point /\ w.at = a
    BY <1>1
  <2>3. total \in Nat /\ dist \in Nat /\ dist > 0
    <3>1. total \in Nat
      BY <1>1, OneMorePulse
    <3>2. w.at[2] # s.start[2]
      BY <1>1, <1>4, FarIsAway DEF FarEnough
    <3>3. w.at[2] - s.start[2] \in Int /\ w.at[2] - s.start[2] # 0
      BY <1>1, <3>2
    <3>4. dist \in Nat /\ dist > 0
      BY <3>3, AbsPositive
    <3> QED BY <3>1, <3>4
  <2>4. ~w.failed => dist = Speed * total
    <3>1. Speed * total \in Nat
      BY <1>1, OneMorePulse
    <3> QED BY <1>1, <3>1, AbsPositive
  <2> HIDE DEF total, dist
  <2>5. rate \in Rates /\ rate.dist = dist /\ rate.time = total
    BY <2>3 DEF Rate, Rates
  <2> HIDE DEF rate, a
  <2>6. u \in Scopes
    BY <2>2, <2>5 DEF Scopes
  <2>7. /\ u.stored = "none" /\ u.initial = s.initial /\ u.start = s.start
        /\ u.xRate = s.xRate /\ u.yRate = rate /\ u.southStart = a
        /\ u.steps = s.steps
    BY DEF Scopes
  <2> HIDE DEF u
  <2>8. duration \in Nat /\ duration > 0
    BY <2>3, <2>5, RecenterDurationTyped
  <2> HIDE DEF duration
  <2>9. /\ t \in Scopes /\ t.phase = "south" /\ t.recenter = duration
        /\ t.initial = s.initial /\ t.start = s.start /\ t.stored = "none"
        /\ t.southStart = a /\ t.xRate = s.xRate /\ t.yRate = rate
    BY <2>6, <2>7, <2>8, "south" \in Phases, BeginRecenterTyped DEF Phases
  <2> HIDE DEF t
  <2>10. ~w.failed => XTrue(t) /\ YTrue(t)
    BY <2>4, <2>5, <2>9 DEF XTrue, YTrue
  <2>11. w.at[2] <= t.southStart[2] /\ t.yRate.dist > 0 /\ t.recenter > 0
    BY <1>1, <2>2, <2>3, <2>5, <2>8, <2>9
  <2>12. /\ Outcome(GoSouth(t, w.at), w) /\ DecAdvances(GoSouth(t, w.at))
         /\ Later(t, GoSouth(t, w.at).scope)
    BY <2>9, <2>10, <2>11, GoSouthSound
  <2>13. Rank(t) > Rank(s)
    BY <2>9 DEF Rank
  <2> QED BY <2>1, <2>12, <2>13, LaterPhase
<1> QED BY <1>2, <1>3, <1>4

\* The leg north begins with the moves that count already.
LEMMA ToNorthSound ==
  ASSUME NEW s \in Scopes, NEW w \in Worlds, s.stored = "none",
         s.initial = <<0, 0>>, s.start \in Point, s.steps >= 0,
         w.at[1] = s.start[1],
         ~w.failed =>
           /\ XTrue(s) /\ YTrue(s) /\ w.play = 0
           /\ w.at[2] = s.start[2] + Speed * (s.steps * CalibrationDuration)
  PROVE  LET r == ToNorth(s, w.at)
         IN /\ Outcome(r, w) /\ DecAdvances(r)
            /\ r.scope.phase = "cleared" \/ Rank(r.scope) >= 3
<1> DEFINE d2 == Distance2(s.marker, s.initial)
           t == [s EXCEPT !.phase = "north", !.blMoved2 = d2]
<1>1. ToNorth(s, w.at) = GoNorth(t, w.at)
  BY DEF ToNorth
<1>2. d2 \in Nat
  BY ScopeTyped, DistanceTyped
<1> HIDE DEF d2
<1>3. t \in Scopes
  BY <1>2 DEF Scopes, Phases
<1>4. /\ t.phase = "north" /\ t.stored = "none" /\ t.initial = s.initial
      /\ t.start = s.start /\ t.steps = s.steps
      /\ t.yRate = s.yRate /\ t.xRate = s.xRate
  BY DEF Scopes
<1> HIDE DEF t
<1>5. (XTrue(s) => XTrue(t)) /\ (YTrue(s) => YTrue(t))
  BY <1>4 DEF XTrue, YTrue
<1>6. /\ Outcome(GoNorth(t, w.at), w) /\ DecAdvances(GoNorth(t, w.at))
      /\ Later(t, GoNorth(t, w.at).scope)
  BY <1>3, <1>4, <1>5, GoNorthSound
<1>7. LET u == GoNorth(t, w.at).scope
      IN u.phase = "cleared" \/ Rank(u) >= 3
  BY <1>4, <1>6 DEF Later, Rank
<1> QED BY <1>1, <1>6, <1>7

\* A move that is big enough has moved the star: it is measured against a
\* distance that the leg west found.
LEMMA BigMoveIsAway ==
  ASSUME NEW s \in Scopes, NEW w \in Worlds, s.expected.dist > 0,
         BigMove(s, w.at)
  PROVE  s.marker[1] # w.at[1] \/ s.marker[2] # w.at[2]
<1> DEFINE d2 == Distance2(s.marker, w.at)
           t2 == Square(s.expected.time)
           m == s.expected.dist * CalibrationDuration
<1>1. /\ CalibrationDuration \in Nat \ {0} /\ s.marker \in Point /\ w.at \in Point
      /\ s.expected.dist \in Nat \ {0} /\ s.expected.time \in Nat
  BY ScopeTyped, WorldTyped, CalibrationAssumption DEF Rates
<1>2. m \in Int /\ m # 0
  BY <1>1
<1> HIDE DEF m
<1>3. Square(m) \in Nat /\ Square(m) > 0
  BY <1>2, SquarePositive
<1>4. t2 \in Nat /\ d2 \in Nat
  BY <1>1, SquarePositive, DistanceTyped
<1>5. 100 * d2 * t2 >= 36 * Square(m)
  BY DEF BigMove, m
<1> HIDE DEF t2
<1>6. d2 > 0
  <2>1. d2 = 0 => 100 * d2 * t2 = 0
    BY <1>4
  <2> HIDE DEF d2
  <2> QED BY <1>3, <1>4, <1>5, <2>1
<1> QED BY <1>1, <1>6, DistanceTyped

LEMMA AcceptedTyped ==
  ASSUME NEW s \in Scopes, NEW w \in Worlds
  PROVE  /\ Accepted(s, w.at) \in Nat
         /\ Accepted(s, w.at) <= s.accepted + 1
         /\ Accepted(s, w.at) > 0 => s.accepted > 0 \/ BigMove(s, w.at)
<1> DEFINE cum == Distance2(s.start, w.at)
           fresh == s.accepted = 0 \/ cum > s.lastCum2
<1>1. s.accepted \in Nat
  BY ScopeTyped
<1>2. CASE BigMove(s, w.at) /\ fresh
  <2>1. Accepted(s, w.at) = s.accepted + 1
    BY <1>2 DEF Accepted
  <2> QED BY <2>1, <1>1, <1>2
<1>3. CASE BigMove(s, w.at) /\ ~fresh
  <2>1. Accepted(s, w.at) = 0
    BY <1>3 DEF Accepted
  <2> QED BY <2>1, <1>1, <1>3
<1>4. CASE ~BigMove(s, w.at)
  <2>1. Accepted(s, w.at) \in {0, s.accepted}
    BY <1>4 DEF Accepted
  <2> QED BY <2>1, <1>1, <1>4
<1> QED BY <1>2, <1>3, <1>4

\* One more clearing move, with the star north of where it was
LEMMA ClearingSound ==
  ASSUME NEW t \in Scopes, NEW w \in Worlds,
         t.phase = "backlash", t.stored = "none", t.initial = <<0, 0>>,
         t.start \in Point, t.steps >= 1, t.marker = w.at,
         w.at[1] = t.start[1], t.xRate.dist > 0, t.expected = t.xRate,
         ~w.failed =>
           /\ XTrue(t) /\ YTrue(t)
           /\ t.start[2] <= w.at[2]
           /\ w.at[2] > t.start[2] => w.play = 0
           /\ t.accepted > 0 => w.play = 0
  PROVE  LET r == Result(t, MoveTo("north", CalibrationDuration))
         IN Outcome(r, w) /\ Pulsed(r, DecPhases)
<1> DEFINE pulse == MoveTo("north", CalibrationDuration)
<1>1. pulse \in Moves /\ pulse # NoMove
  BY "north" \in Dirs, PulseIsMove, CalibrationAssumption DEF Dirs
<1>2. w.at[2] \in Int
  BY WorldTyped
<1>3. Running(t, pulse, w)
  BY <1>1 DEF Running, OnTheLegs, OnTheWayBack
<1>4. ~w.failed => Cleared(t, pulse, w)
  BY <1>1, <1>2 DEF Cleared
<1>5. ~w.failed => Faithful(t, pulse, w)
  BY <1>4 DEF Faithful
<1> QED BY <1>1, <1>3, <1>5 DEF Outcome, Result, Sound, Pulsed, DecPhases

\* CALIBRATION_STATE_CLEAR_BACKLASH, with the star where the leg east left it
LEMMA ClearBacklashBegins ==
  ASSUME NEW s \in Scopes, NEW w \in Worlds,
         s.phase = "backlash", s.stored = "none", s.initial = <<0, 0>>,
         s.start = w.at, s.marker = w.at, s.steps = 0, s.accepted = 0,
         s.xRate.dist > 0, s.expected = s.xRate,
         ~w.failed => XTrue(s) /\ YTrue(s)
  PROVE  /\ Outcome(ClearBacklash(s, w.at), w)
         /\ Pulsed(ClearBacklash(s, w.at), DecPhases)
<1> DEFINE n == 1
           t == [s EXCEPT !.steps = n]
<1>1. ClearBacklash(s, w.at) = Result(t, MoveTo("north", CalibrationDuration))
  BY DEF ClearBacklash
<1>2. n \in Int /\ n >= 1 /\ w.at \in Point /\ w.at[2] \in Int
  BY WorldTyped
<1> HIDE DEF n
<1>3. t \in Scopes
  BY <1>2 DEF Scopes
<1>4. /\ t.phase = "backlash" /\ t.stored = "none" /\ t.initial = s.initial
      /\ t.start = s.start /\ t.marker = s.marker /\ t.steps = n
      /\ t.accepted = 0 /\ t.xRate = s.xRate /\ t.yRate = s.yRate
      /\ t.expected = s.expected
  BY DEF Scopes
<1> HIDE DEF t
<1>5. (XTrue(s) => XTrue(t)) /\ (YTrue(s) => YTrue(t))
  BY <1>4 DEF XTrue, YTrue
<1> QED BY <1>1, <1>2, <1>3, <1>4, <1>5, ClearingSound

\* CALIBRATION_STATE_CLEAR_BACKLASH, after a clearing move.  A third accepted
\* move in a row was made without play, so that it took the star as far as a
\* pulse can; a star that has moved at all has no play behind it.
LEMMA ClearBacklashSound ==
  ASSUME NEW s \in Scopes, NEW w \in Worlds,
         s.phase = "backlash", s.stored = "none", s.initial = <<0, 0>>,
         s.start \in Point, s.steps >= 1,
         w.at[1] = s.start[1], s.marker[1] = s.start[1],
         s.xRate.dist > 0, s.expected = s.xRate,
         ~w.failed => XTrue(s) /\ YTrue(s) /\ Cleared(s, NoMove, w)
  PROVE  /\ Outcome(ClearBacklash(s, w.at), w)
         /\ DecAdvances(ClearBacklash(s, w.at))
         /\ Later(s, ClearBacklash(s, w.at).scope)
<1> DEFINE D == CalibrationDuration
           c == Accepted(s, w.at)
           t == [s EXCEPT !.accepted = c]
           more == s.steps < MaxClearingPulses /\ ~FarEnough(s, w.at)
<1>1. /\ D \in Nat /\ Speed \in Nat /\ s.steps \in Int /\ s.accepted \in Nat
      /\ w.at \in Point /\ w.at[1] \in Int /\ w.at[2] \in Int
      /\ s.marker \in Point /\ s.marker[2] \in Int
      /\ s.start[1] \in Int /\ s.start[2] \in Int /\ Speed * D \in Int
  BY WorldTyped, ScopeTyped, CalibrationAssumption, OneMorePulse, 1 \in Int
<1>2. /\ c \in Nat /\ c <= s.accepted + 1
      /\ c > 0 => s.accepted > 0 \/ BigMove(s, w.at)
  BY AcceptedTyped
<1> HIDE DEF c
<1>3. t \in Scopes /\ t.accepted = c
  BY <1>2 DEF Scopes
<1>4. /\ t.phase = "backlash" /\ t.stored = "none" /\ t.initial = s.initial
      /\ t.start = s.start /\ t.marker = s.marker /\ t.steps = s.steps
      /\ t.xRate = s.xRate /\ t.yRate = s.yRate /\ t.expected = s.expected
  BY DEF Scopes
<1>5. t = [s EXCEPT !.accepted = Accepted(s, w.at)]
  BY DEF c
<1> HIDE DEF t
<1>6. (XTrue(s) => XTrue(t)) /\ (YTrue(s) => YTrue(t))
  BY <1>4 DEF XTrue, YTrue
<1>7. c > 0 /\ ~w.failed => w.play = 0
  <2>1. CASE s.accepted > 0
    BY <2>1 DEF Cleared
  <2>2. CASE BigMove(s, w.at)
    <3>1. s.marker[2] # w.at[2]
      BY <1>1, <2>2, BigMoveIsAway
    <3> QED BY <1>1, <3>1 DEF Cleared
  <2> QED BY <1>2, <2>1, <2>2
<1>12. ASSUME NEW v, v.phase = "cleared" \/ Rank(v) >= 3
       PROVE  Later(s, v)
  <2>1. Rank(s) = 2 /\ Rank(v) \in Nat
    BY LaterPhase DEF Rank
  <2> QED BY <1>12, <2>1 DEF Later
<1>8. CASE c >= 3
  <2> DEFINE n == 1
             m == t.marker
             u == [t EXCEPT !.steps = n, !.start = m]
  <2> HIDE DEF u
  <2>1. ClearBacklash(s, w.at) = ToNorth(CountLastMove(t), w.at)
    BY <1>1, <1>2, <1>3, <1>5, <1>8 DEF ClearBacklash
  <2>12. CountLastMove(t) = u
    BY DEF CountLastMove, u
  <2>2. m \in Point /\ m = s.marker /\ n \in Int /\ n >= 0
    BY <1>1, <1>4
  <2>3. n = 1
    OBVIOUS
  <2> HIDE DEF m, n
  <2>4. u \in Scopes
    BY <1>3, <2>2 DEF Scopes, u
  <2>5. /\ u.stored = "none" /\ u.initial = s.initial /\ u.start = m
        /\ u.steps = n /\ u.xRate = s.xRate /\ u.yRate = s.yRate
    BY <1>3, <1>4 DEF Scopes, u
  <2>6. (XTrue(s) => XTrue(u)) /\ (YTrue(s) => YTrue(u))
    BY <2>5 DEF XTrue, YTrue
  <2>7. s.accepted > 0
    BY <1>1, <1>2, <1>8
  <2>8. ~w.failed => w.at[2] = s.marker[2] + Speed * D
    BY <2>7 DEF Cleared
  <2>9. 1 * D = D
    BY <1>1
  <2>10. ~w.failed => w.at[2] = u.start[2] + Speed * (u.steps * D)
    BY <2>2, <2>3, <2>5, <2>8, <2>9
  <2>11. ~w.failed => w.play = 0
    BY <1>2, <1>7, <1>8
  <2>13. /\ Outcome(ToNorth(u, w.at), w) /\ DecAdvances(ToNorth(u, w.at))
         /\ LET v == ToNorth(u, w.at).scope
            IN v.phase = "cleared" \/ Rank(v) >= 3
    BY <1>1, <2>2, <2>4, <2>5, <2>6, <2>10, <2>11, ToNorthSound
  <2> QED BY <1>12, <2>1, <2>12, <2>13
<1>9. CASE c < 3 /\ more
  <2> DEFINE n == s.steps + 1
             a == w.at
             cum == Distance2(s.start, w.at)
             u == [t EXCEPT !.steps = n, !.marker = a, !.lastCum2 = cum]
  <2>1. ClearBacklash(s, w.at)
          = Result([t EXCEPT !.steps = @ + 1, !.marker = w.at,
                             !.lastCum2 = Distance2(s.start, w.at)],
                   MoveTo("north", D))
    BY <1>1, <1>2, <1>3, <1>5, <1>9 DEF ClearBacklash
  <2>2. [t EXCEPT !.steps = @ + 1, !.marker = w.at,
                  !.lastCum2 = Distance2(s.start, w.at)] = u
    BY <1>4
  <2>3. n \in Int /\ n >= 1 /\ n = s.steps + 1 /\ a \in Point /\ a = w.at /\ cum \in Nat
    BY <1>1, DistanceTyped
  <2> HIDE DEF n, a, cum
  <2>4. u \in Scopes
    BY <1>3, <2>3 DEF Scopes
  <2>5. /\ u.phase = "backlash" /\ u.stored = "none" /\ u.initial = s.initial
        /\ u.start = s.start /\ u.marker = a /\ u.steps = n
        /\ u.accepted = c /\ u.xRate = s.xRate /\ u.yRate = s.yRate
        /\ u.expected = s.expected
    BY <1>3, <1>4 DEF Scopes
  <2> HIDE DEF u
  <2>6. (XTrue(s) => XTrue(u)) /\ (YTrue(s) => YTrue(u))
    BY <2>5 DEF XTrue, YTrue
  <2>7. ~w.failed => /\ u.start[2] <= w.at[2]
                     /\ w.at[2] > u.start[2] => w.play = 0
                     /\ u.accepted > 0 => w.play = 0
    BY <1>1, <1>7, <2>5 DEF Cleared
  <2> DEFINE r == Result(u, MoveTo("north", D))
  <2>8. Outcome(r, w) /\ Pulsed(r, DecPhases)
    BY <2>3, <2>4, <2>5, <2>6, <2>7, ClearingSound
  <2>9. Later(s, u)
    BY <1>1, <1>9, <2>3, <2>5, LimitsTyped DEF Later, Left
  <2>10. r.scope = u
    BY DEF Result
  <2> QED BY <2>1, <2>2, <2>8, <2>9, <2>10 DEF DecAdvances
<1>10. CASE c < 3 /\ ~more /\ ClearedAnyhow(s, w.at)
  <2> DEFINE n == 0
             a == w.at
             u == [t EXCEPT !.steps = n, !.start = a]
  <2> HIDE DEF u
  <2>1. ClearBacklash(s, w.at) = ToNorth([t EXCEPT !.steps = 0, !.start = w.at], w.at)
    BY <1>1, <1>2, <1>3, <1>5, <1>10 DEF ClearBacklash
  <2>12. [t EXCEPT !.steps = 0, !.start = w.at] = u
    BY DEF u
  <2>2. a \in Point /\ a = w.at /\ n \in Int /\ n = 0
    BY <1>1
  <2> HIDE DEF a, n
  <2>3. u \in Scopes
    BY <1>3, <2>2 DEF Scopes, u
  <2>4. /\ u.stored = "none" /\ u.initial = s.initial /\ u.start = a
        /\ u.steps = n /\ u.xRate = s.xRate /\ u.yRate = s.yRate
    BY <1>3, <1>4 DEF Scopes, u
  <2>5. (XTrue(s) => XTrue(u)) /\ (YTrue(s) => YTrue(u))
    BY <2>4 DEF XTrue, YTrue
  <2>6. Distance2(s.start, w.at) > 0
    <3>1. Distance2(s.start, w.at) >= 9
      BY <1>10 DEF ClearedAnyhow
    <3>2. Distance2(s.start, w.at) \in Nat
      BY <1>1, DistanceTyped
    <3> QED BY <3>1, <3>2
  <2>7. s.start[2] # w.at[2]
    BY <1>1, <2>6, DistanceTyped
  <2>8. ~w.failed => w.play = 0
    BY <1>1, <2>7 DEF Cleared
  <2>9. n * D = 0 /\ Speed * 0 = 0
    BY <1>1, <2>2
  <2>10. w.at[2] = u.start[2] + Speed * (u.steps * D)
    BY <1>1, <2>2, <2>4, <2>9
  <2>11. w.at[1] = u.start[1] /\ u.start \in Point /\ u.steps >= 0
    BY <2>2, <2>4
  <2>13. /\ Outcome(ToNorth(u, w.at), w) /\ DecAdvances(ToNorth(u, w.at))
         /\ LET v == ToNorth(u, w.at).scope
            IN v.phase = "cleared" \/ Rank(v) >= 3
    BY <2>3, <2>4, <2>5, <2>8, <2>10, <2>11, ToNorthSound
  <2> QED BY <1>12, <2>1, <2>12, <2>13
<1>11. CASE c < 3 /\ ~more /\ ~ClearedAnyhow(s, w.at)
  <2>1. ClearBacklash(s, w.at) = Fail(t)
    BY <1>1, <1>2, <1>3, <1>5, <1>11 DEF ClearBacklash
  <2> QED BY <1>3, <2>1, FailEnds DEF DecAdvances, Dropped, Later
<1> QED BY <1>2, <1>8, <1>9, <1>10, <1>11

\* CALIBRATION_STATE_GO_EAST.  With nothing left of the way back the star is
\* where the leg west began.
LEMMA GoEastSound ==
  ASSUME NEW s \in Scopes, NEW w \in Worlds, NEW m \in {"auto", "none"},
         s.phase = "east", s.stored = "none", s.initial = <<0, 0>>,
         s.start \in Point, s.xRate.dist > 0, s.recenter > 0, s.yRate = NoRate,
         ~w.failed => /\ XTrue(s)
                      /\ w.at[1] = s.start[1] - Speed * s.remaining
  PROVE  LET r == GoEast(s, w.at, m)
         IN Outcome(r, w) /\ RaAdvances(r, m) /\ Later(s, r.scope)
<1>1. /\ s.remaining \in Nat /\ Speed \in Nat /\ w.at \in Point
      /\ w.at[1] \in Int /\ s.start[1] \in Int /\ s.xRate \in Rates
  BY WorldTyped, ScopeTyped, CalibrationAssumption
<1>2. CASE s.remaining > 0
  <2> DEFINE r == Recenter(s, "east")
             t == r.scope
             pulse == r.pulse
             left == t.remaining
             n == t.steps
  <2>1. GoEast(s, w.at, m) = r
    BY <1>1, <1>2 DEF GoEast
  <2>2. /\ t \in Scopes /\ pulse \in Moves /\ r.failed = FALSE
        /\ pulse.dir = "east" /\ pulse.ms \in Nat /\ pulse.ms > 0 /\ pulse # NoMove
        /\ left = s.remaining - pulse.ms
        /\ t = [s EXCEPT !.remaining = left, !.steps = n]
    BY <1>2, "east" \in Dirs, RecenterTyped, Zenon DEF Dirs
  <2>3. r.scope = t /\ r.pulse = pulse /\ t.remaining = left
    OBVIOUS
  <2> HIDE DEF r, t, pulse, left, n
  <2>4. /\ t.phase = "east" /\ t.stored = "none" /\ t.initial = s.initial
        /\ t.start = s.start /\ t.yRate = s.yRate /\ t.xRate = s.xRate
        /\ t.recenter = s.recenter
    BY <2>2 DEF Scopes
  <2>5. Running(t, pulse, w)
    BY <2>2, <2>4 DEF Running, OnTheLegs, OnTheWayBack
  <2>6. /\ Speed * left = Speed * s.remaining - Speed * pulse.ms
        /\ Speed * s.remaining \in Int /\ Speed * pulse.ms \in Int
    BY <1>1, <2>2
  <2>7. ~w.failed => Faithful(t, pulse, w)
    BY <1>1, <2>3, <2>4, <2>6 DEF Faithful, XTrue, YTrue
  <2>8. Pulsed(r, RaPhases)
    BY <2>2, <2>3, <2>4 DEF Pulsed, RaPhases
  <2>9. Later(s, t)
    <3>1. t.remaining \in Nat /\ s.remaining \in Nat
      BY <2>2, ScopeTyped
    <3> QED BY <2>2, <2>3, <2>4, <3>1 DEF Later, Left
  <2> QED BY <2>1, <2>2, <2>3, <2>5, <2>7, <2>8, <2>9
          DEF Outcome, Sound, RaAdvances
<1>3. CASE ~(s.remaining > 0) /\ m = "none"
  <2> DEFINE a == w.at
             n == 0
             t == [s EXCEPT !.steps = n, !.start = a, !.phase = "complete",
                            !.yRate = NoRate]
  <2> HIDE DEF t
  <2>1. GoEast(s, w.at, m)
          = Result([[s EXCEPT !.steps = 0, !.start = w.at]
                      EXCEPT !.phase = "complete", !.yRate = NoRate], NoMove)
    BY <1>1, <1>3 DEF GoEast
  <2>2. [[s EXCEPT !.steps = 0, !.start = w.at]
           EXCEPT !.phase = "complete", !.yRate = NoRate] = t
    BY DEF t
  <2>3. a \in Point /\ n \in Int /\ NoRate \in Rates
    BY <1>1 DEF NoRate, Rate, Rates
  <2> HIDE DEF a, n
  <2>4. t \in Scopes
    BY <2>3 DEF t, Scopes, Phases
  <2>5. /\ t.phase = "complete" /\ t.stored = "none" /\ t.initial = s.initial
        /\ t.start = a /\ t.xRate = s.xRate /\ t.yRate = NoRate
    BY DEF t, Scopes
  <2>6. Running(t, NoMove, w)
    BY <2>3, <2>5 DEF Running, OnTheLegs, OnTheWayBack
  <2>7. ~w.failed => Faithful(t, NoMove, w)
    BY <2>5 DEF Faithful, XTrue, YTrue
  <2>8. Stored(Result(t, NoMove), "none")
    BY <2>5 DEF Stored, Result
  <2>9. RaAdvances(Result(t, NoMove), m)
    BY <1>3, <2>8 DEF RaAdvances
  <2>10. Outcome(Result(t, NoMove), w)
    BY <2>4, <2>6, <2>7, NoMoveTyped DEF Outcome, Result, Sound
  <2>11. Later(s, Result(t, NoMove).scope)
    BY <2>5 DEF Later, Rank, Result
  <2> QED BY <2>1, <2>2, <2>9, <2>10, <2>11
<1>4. CASE ~(s.remaining > 0) /\ m # "none"
  <2> DEFINE a == w.at
             n == 0
             x == s.xRate
             t == [s EXCEPT !.steps = n, !.start = a, !.phase = "backlash",
                            !.marker = a, !.expected = x, !.lastCum2 = n,
                            !.accepted = n]
  <2> HIDE DEF t
  <2>1. GoEast(s, w.at, m)
          = ClearBacklash([[s EXCEPT !.steps = 0, !.start = w.at]
               EXCEPT !.phase = "backlash", !.marker = w.at,
                      !.expected = s.xRate, !.lastCum2 = 0, !.accepted = 0], w.at)
    BY <1>1, <1>4 DEF GoEast
  <2>2. [[s EXCEPT !.steps = 0, !.start = w.at]
           EXCEPT !.phase = "backlash", !.marker = w.at, !.expected = s.xRate,
                  !.lastCum2 = 0, !.accepted = 0] = t
    BY DEF t
  <2>3. a \in Point /\ n \in Int /\ n \in Nat /\ x \in Rates /\ a = w.at /\ n = 0
    BY <1>1
  <2>4. x = s.xRate
    OBVIOUS
  <2> HIDE DEF a, n, x
  <2>5. t \in Scopes
    BY <2>3 DEF t, Scopes, Phases
  <2>6. /\ t.phase = "backlash" /\ t.stored = "none" /\ t.initial = s.initial
        /\ t.start = a /\ t.marker = a /\ t.steps = n /\ t.accepted = n
        /\ t.xRate = s.xRate /\ t.yRate = s.yRate /\ t.expected = x
    BY DEF t, Scopes
  <2>7. ~w.failed => XTrue(t) /\ YTrue(t)
    BY <2>6 DEF XTrue, YTrue
  <2>8. Outcome(ClearBacklash(t, w.at), w) /\ Pulsed(ClearBacklash(t, w.at), DecPhases)
    BY <2>3, <2>4, <2>5, <2>6, <2>7, ClearBacklashBegins
  <2>9. Later(s, ClearBacklash(t, w.at).scope)
    BY <2>8 DEF Pulsed, DecPhases, Later, Rank
  <2> QED BY <1>4, <2>1, <2>2, <2>8, <2>9 DEF RaAdvances
<1> QED BY <1>2, <1>3, <1>4

\* CALIBRATION_STATE_GO_WEST
LEMMA GoWestSound ==
  ASSUME NEW s \in Scopes, NEW w \in Worlds, NEW m \in {"auto", "none"},
         s.phase = "west", s.stored = "none",
         s.initial = <<0, 0>>, s.start \in Point, s.steps >= 0,
         w.at[2] = s.start[2], s.yRate = NoRate,
         ~w.failed =>
           w.at[1] = s.start[1] - Speed * (s.steps * CalibrationDuration)
  PROVE  LET r == GoWest(s, w.at, m)
         IN Outcome(r, w) /\ RaAdvances(r, m) /\ Later(s, r.scope)
<1> DEFINE D == CalibrationDuration
<1>1. /\ D \in Nat /\ Speed \in Nat /\ s.steps \in Int
      /\ w.at \in Point /\ w.at[1] \in Int /\ s.start[1] \in Int
  BY WorldTyped, ScopeTyped, CalibrationAssumption
<1>2. CASE ~FarEnough(s, w.at) /\ s.steps > MaxCalibrationSteps
  <2>1. GoWest(s, w.at, m) = Fail(s)
    BY <1>2 DEF GoWest, LegStep
  <2> QED BY <2>1, FailEnds DEF RaAdvances, Dropped, Later
<1>3. CASE ~FarEnough(s, w.at) /\ ~(s.steps > MaxCalibrationSteps)
  <2> DEFINE r == LegStep(s, "west")
             t == r.scope
             n == t.steps
             pulse == r.pulse
  <2>1. GoWest(s, w.at, m) = r
    BY <1>3 DEF GoWest
  <2>2. /\ t \in Scopes /\ r.failed = FALSE
        /\ pulse = MoveTo("west", D)
        /\ n = s.steps + 1 /\ t = [s EXCEPT !.steps = n]
    BY <1>3, "west" \in Dirs, LegStepTyped DEF Dirs
  <2>3. r.scope = t /\ r.pulse = pulse /\ t.steps = n
    OBVIOUS
  <2>4. pulse \in Moves /\ pulse.ms = D /\ pulse # NoMove
    BY <2>2, <1>1, "west" \in Dirs, PulseIsMove DEF Dirs
  <2> HIDE DEF r, t, n, pulse
  <2>5. /\ t.phase = "west" /\ t.stored = "none" /\ t.initial = s.initial
        /\ t.start = s.start /\ t.yRate = s.yRate
    BY <2>2 DEF Scopes
  <2>6. Running(t, pulse, w)
    BY <2>2, <2>3, <2>5, <1>1 DEF Running, OnTheLegs, OnTheWayBack
  <2>7. /\ Speed * (n * D) = Speed * (s.steps * D) + Speed * D
        /\ Speed * (s.steps * D) \in Int /\ Speed * D \in Int
    BY <1>1, <2>2, OneMorePulse
  <2>8. ~w.failed => Faithful(t, pulse, w)
    BY <1>1, <2>3, <2>4, <2>5, <2>7 DEF Faithful, XTrue, YTrue
  <2>9. Pulsed(r, RaPhases)
    BY <2>3, <2>4, <2>5 DEF Pulsed, RaPhases
  <2>10. Later(s, t)
    BY <1>1, <1>3, <2>2, <2>3, <2>5, LimitsTyped DEF Later, Left
  <2> QED BY <2>1, <2>2, <2>3, <2>4, <2>6, <2>8, <2>9, <2>10
          DEF Outcome, Sound, RaAdvances
<1>4. CASE FarEnough(s, w.at)
  <2> DEFINE total == s.steps * D
             dist == Abs(w.at[1] - s.start[1])
             rate == Rate(dist, total)
             u == [s EXCEPT !.xRate = rate]
             duration == RecenterDuration(10, rate)
             t == BeginRecenter(u, "east", duration)
  <2>1. GoWest(s, w.at, m) = GoEast(t, w.at, m)
    BY <1>4 DEF GoWest
  <2>2. total \in Nat /\ dist \in Nat /\ dist > 0
    <3>1. total \in Nat
      BY <1>1, OneMorePulse
    <3>2. w.at[1] # s.start[1]
      BY <1>1, <1>4, FarIsAway DEF FarEnough
    <3>3. w.at[1] - s.start[1] \in Int /\ w.at[1] - s.start[1] # 0
      BY <1>1, <3>2
    <3>4. dist \in Nat /\ dist > 0
      BY <3>3, AbsPositive
    <3> QED BY <3>1, <3>4
  <2>3. ~w.failed => dist = Speed * total
    <3>1. Speed * total \in Nat
      BY <1>1, OneMorePulse
    <3> QED BY <1>1, <3>1, AbsPositive
  <2>4. total = s.steps * D
    OBVIOUS
  <2> HIDE DEF total, dist
  <2>5. rate \in Rates /\ rate.dist = dist /\ rate.time = total
    BY <2>2 DEF Rate, Rates
  <2> HIDE DEF rate
  <2>6. u \in Scopes
    BY <2>5 DEF Scopes
  <2>7. /\ u.stored = "none" /\ u.initial = s.initial /\ u.start = s.start
        /\ u.xRate = rate /\ u.yRate = s.yRate /\ u.steps = s.steps
    BY <2>5 DEF Scopes
  <2> HIDE DEF u
  <2>8. duration \in Nat /\ duration > 0
    BY <2>2, <2>5, RecenterDurationTyped
  <2> HIDE DEF duration
  <2>9. /\ t \in Scopes /\ t.phase = "east" /\ t.recenter = duration
        /\ t.initial = s.initial /\ t.start = s.start /\ t.stored = "none"
        /\ t.xRate = rate /\ t.yRate = s.yRate /\ t.remaining = total
    BY <2>4, <2>6, <2>7, <2>8, "east" \in Phases, BeginRecenterTyped DEF Phases
  <2> HIDE DEF t
  <2>10. ~w.failed => XTrue(t) /\ w.at[1] = t.start[1] - Speed * t.remaining
    BY <2>3, <2>4, <2>5, <2>9 DEF XTrue
  <2>11. t.xRate.dist > 0 /\ t.recenter > 0
    BY <2>2, <2>5, <2>8, <2>9
  <2>12. /\ Outcome(GoEast(t, w.at, m), w) /\ RaAdvances(GoEast(t, w.at, m), m)
         /\ Later(t, GoEast(t, w.at, m).scope)
    BY <2>9, <2>10, <2>11, GoEastSound
  <2>13. Rank(t) > Rank(s)
    BY <2>9 DEF Rank
  <2> QED BY <2>1, <2>12, <2>13, LaterPhase
<1> QED BY <1>2, <1>3, <1>4

\* A frame of a run, whichever phase it finds, leaves the star where the
\* record says it is.
LEMMA FrameSound ==
  ASSUME NEW s \in Scopes, NEW w \in Worlds, NEW m \in {"auto", "none"},
         Starting(s) \/ Sound(s, NoMove, w)
  PROVE  LET r == UpdateCalibrationState(s, w.at, m)
         IN Outcome(r, w) /\ Advances(s, r, m)
<1>1. /\ w.at \in Point /\ w.at[1] \in Int /\ w.at[2] \in Int /\ s.phase \in Phases
      /\ s.accepted \in Nat
  BY WorldTyped DEF Scopes
<1>2. CASE Starting(s)
  <2> DEFINE a == w.at
             t == [s EXCEPT !.start = a]
  <2> HIDE DEF t
  <2>1. a \in Point /\ a = w.at
    BY <1>1
  <2> HIDE DEF a
  <2>2. t \in Scopes
    BY <2>1 DEF t, Scopes
  <2>3. /\ t.phase = "west" /\ t.stored = "none" /\ t.initial = <<0, 0>>
        /\ t.start = a /\ t.steps = 0 /\ t.yRate = NoRate
    BY <1>2 DEF t, Scopes, Starting
  <2>4. UpdateCalibrationState(s, w.at, m) = GoWest(t, w.at, m)
    BY <1>2, <2>1, <2>3 DEF UpdateCalibrationState, Starting, t
  <2>5. 0 * CalibrationDuration = 0 /\ Speed * 0 = 0
    BY CalibrationAssumption
  <2>6. w.at[1] = t.start[1] - Speed * (t.steps * CalibrationDuration)
    BY <1>1, <2>1, <2>3, <2>5
  <2>7. w.at[2] = t.start[2] /\ t.start \in Point /\ t.steps >= 0
    BY <2>1, <2>3
  <2>8. /\ Outcome(GoWest(t, w.at, m), w) /\ RaAdvances(GoWest(t, w.at, m), m)
        /\ Later(t, GoWest(t, w.at, m).scope)
    BY <2>2, <2>3, <2>6, <2>7, GoWestSound
  <2>9. t.phase = s.phase /\ t.steps = s.steps
    BY <1>2, <2>3 DEF Starting
  <2>10. Later(s, GoWest(t, w.at, m).scope)
    BY <1>2, <2>8, <2>9 DEF Later, Rank, Left, Starting
  <2> QED BY <1>2, <2>4, <2>8, <2>10 DEF Starting, Advances, RaPhases, DecPhases
<1>3. CASE Sound(s, NoMove, w)
  <2>1. /\ s.phase # "cleared" /\ s.initial = <<0, 0>> /\ s.start \in Point
        /\ s.stored # "none" => s.phase = "complete"
        /\ s.stored \in {"none", "ra", "full"}
    BY <1>3 DEF Sound, Running, Scopes
  <2>2. s.start # NoPoint
    BY <2>1, NotANumber
  <2>3. /\ OnTheLegs(s, NoMove, w) /\ OnTheWayBack(s, NoMove, w)
        /\ ~w.failed => Faithful(s, NoMove, w)
    BY <1>3 DEF Sound, Running
  <2>4. ~w.failed /\ s.phase # "west" => XTrue(s) /\ YTrue(s)
    BY <2>3 DEF Faithful
  <2> DEFINE r == UpdateCalibrationState(s, w.at, m)
  <2>5. CASE s.phase = "west"
    <3>1. r = GoWest(s, w.at, m)
      BY <2>2, <2>5 DEF UpdateCalibrationState
    <3>2. w.at[2] = s.start[2] /\ s.steps >= 0 /\ s.yRate = NoRate
      BY <2>3, <2>5 DEF OnTheLegs
    <3>3. ~w.failed =>
            w.at[1] - Speed * 0 = s.start[1] - Speed * (s.steps * CalibrationDuration)
      BY <2>3, <2>5, NoMoveTyped DEF Faithful
    <3>4. Speed * 0 = 0
      BY CalibrationAssumption
    <3>5. ~w.failed =>
            w.at[1] = s.start[1] - Speed * (s.steps * CalibrationDuration)
      BY <1>1, <3>3, <3>4
    <3> QED BY <2>1, <2>5, <3>1, <3>2, <3>5, GoWestSound
            DEF Advances, RaPhases, DecPhases
  <2>6. CASE s.phase = "east"
    <3>1. r = GoEast(s, w.at, m)
      BY <2>2, <2>6 DEF UpdateCalibrationState
    <3>2. s.xRate.dist > 0 /\ s.recenter > 0 /\ s.yRate = NoRate
      BY <2>3, <2>6 DEF OnTheLegs
    <3>3. ~w.failed => w.at[1] + Speed * 0 = s.start[1] - Speed * s.remaining
      BY <2>3, <2>6, NoMoveTyped DEF Faithful
    <3>4. Speed * 0 = 0
      BY CalibrationAssumption
    <3>5. ~w.failed => w.at[1] = s.start[1] - Speed * s.remaining
      BY <1>1, <3>3, <3>4
    <3> QED BY <2>1, <2>4, <2>6, <3>1, <3>2, <3>5, GoEastSound
            DEF Advances, RaPhases, DecPhases
  <2>7. CASE s.phase = "backlash"
    <3>1. r = ClearBacklash(s, w.at)
      BY <2>2, <2>7 DEF UpdateCalibrationState
    <3>2. /\ w.at[1] = s.start[1] /\ s.marker[1] = s.start[1] /\ s.xRate.dist > 0
          /\ s.expected = s.xRate /\ s.steps >= 1
      BY <2>3, <2>7 DEF OnTheLegs
    <3>3. ~w.failed => Cleared(s, NoMove, w)
      BY <2>3, <2>7 DEF Faithful
    <3> QED BY <2>1, <2>4, <2>7, <3>1, <3>2, <3>3, ClearBacklashSound
            DEF Advances, RaPhases, DecPhases
  <2>8. CASE s.phase = "north"
    <3>1. r = GoNorth(s, w.at)
      BY <2>2, <2>8 DEF UpdateCalibrationState
    <3>2. w.at[1] = s.start[1] /\ s.steps >= 0
      BY <2>3, <2>8 DEF OnTheLegs
    <3>3. ~w.failed =>
            /\ w.play = 0
            /\ w.at[2] + Speed * 0
                 = s.start[2] + Speed * (s.steps * CalibrationDuration)
      BY <2>3, <2>8, NoMoveTyped DEF Faithful
    <3>4. Speed * 0 = 0
      BY CalibrationAssumption
    <3>5. ~w.failed =>
            w.at[2] = s.start[2] + Speed * (s.steps * CalibrationDuration)
      BY <1>1, <3>3, <3>4
    <3> QED BY <2>1, <2>4, <2>8, <3>1, <3>2, <3>3, <3>5, GoNorthSound
            DEF Advances, RaPhases, DecPhases
  <2>9. CASE s.phase = "south"
    <3>1. r = GoSouth(s, w.at)
      BY <2>2, <2>9 DEF UpdateCalibrationState
    <3>2. s.yRate.dist > 0 /\ s.recenter > 0 /\ w.at[2] <= s.southStart[2]
      BY <2>3, <2>9 DEF OnTheWayBack
    <3> QED BY <2>1, <2>4, <2>9, <3>1, <3>2, GoSouthSound
            DEF Advances, RaPhases, DecPhases
  <2>10. CASE s.phase = "nudge"
    <3>1. r = NudgeSouth(s, w.at)
      BY <2>2, <2>10 DEF UpdateCalibrationState
    <3>2. s.yRate.dist > 0 /\ s.last[2] <= s.southStart[2]
      BY <2>3, <2>10 DEF OnTheWayBack
    <3> QED BY <2>1, <2>4, <2>10, <3>1, <3>2, NudgeSouthSound
            DEF Advances, RaPhases, DecPhases
  <2>11. CASE s.phase = "complete"
    <3>1. r = Complete(s)
      BY <2>2, <2>11 DEF UpdateCalibrationState
    <3> QED BY <2>1, <2>4, <2>11, <3>1, CompleteSound
            DEF Advances, RaPhases, DecPhases
  <2> QED BY <1>1, <2>1, <2>5, <2>6, <2>7, <2>8, <2>9, <2>10, <2>11 DEF Phases
<1> QED BY <1>2, <1>3

-----------------------------------------------------------------------------
(* The pulses *)

LEMMA MovedTyped ==
  ASSUME NEW w \in Worlds, NEW p \in Moves, p # NoMove
  PROVE  LET v == Moved(w, p)
         IN /\ v \in Worlds /\ v.failed = w.failed
            /\ p.dir = "west" =>
                 v.at[1] = w.at[1] - Speed * p.ms /\ v.at[2] = w.at[2]
                 /\ v.play = w.play
            /\ p.dir = "east" =>
                 v.at[1] = w.at[1] + Speed * p.ms /\ v.at[2] = w.at[2]
                 /\ v.play = w.play
            /\ p.dir = "north" =>
                 /\ v.at[1] = w.at[1]
                 /\ v.at[2] = w.at[2] + Speed * Greatest(0, p.ms - w.play)
                 /\ v.play = Greatest(0, w.play - p.ms)
            /\ p.dir = "south" =>
                 /\ v.at[1] = w.at[1]
                 /\ v.at[2] = w.at[2] - Speed * Greatest(0, p.ms - (Play - w.play))
<1>1. /\ p.ms \in Nat /\ p.dir \in Dirs /\ Speed \in Nat /\ Play \in Nat
      /\ w.at[1] \in Int /\ w.at[2] \in Int /\ w.play \in 0 .. Play
      /\ w.failed \in BOOLEAN /\ w.at = <<w.at[1], w.at[2]>>
  BY CalibrationAssumption DEF Moves, Worlds, Point
<1> DEFINE north == Greatest(0, p.ms - w.play)
           south == Greatest(0, p.ms - (Play - w.play))
           up == Greatest(0, w.play - p.ms)
           down == Least(Play, w.play + p.ms)
<1>2. north \in Nat /\ south \in Nat /\ up \in 0 .. Play /\ down \in 0 .. Play
  BY <1>1 DEF Greatest, Least
<1>5. north = Greatest(0, p.ms - w.play) /\ up = Greatest(0, w.play - p.ms)
      /\ south = Greatest(0, p.ms - (Play - w.play))
  OBVIOUS
<1> HIDE DEF north, south, up, down
<1>6. /\ Speed * p.ms \in Int /\ Speed * north \in Int /\ Speed * south \in Int
      /\ Speed * (-p.ms) = -(Speed * p.ms) /\ Speed * (-south) = -(Speed * south)
      /\ Speed * 0 = 0
  BY <1>1, <1>2
<1>7. CASE p.dir = "west"
  <2> DEFINE x == w.at[1] - Speed * p.ms
             y == w.at[2]
             v == [w EXCEPT !.at = <<x, y>>, !.play = w.play]
  <2>1. x \in Int /\ y \in Int
    BY <1>1, <1>2, <1>6
  <2>2. x = w.at[1] + Speed * (-p.ms) /\ y = w.at[2] + Speed * 0
    BY <1>1, <1>2, <1>6
  <2>3. x = w.at[1] - Speed * p.ms /\ y = w.at[2]
    OBVIOUS
  <2> HIDE DEF x, y
  <2>4. Moved(w, p) = v
    BY <1>7, <2>2 DEF Moved
  <2>5. /\ v \in Worlds /\ v.at[1] = x /\ v.at[2] = y
        /\ v.play = w.play /\ v.failed = w.failed
    BY <1>1, <1>2, <2>1 DEF Worlds, Point
  <2> HIDE DEF v
  <2> QED BY <1>5, <1>7, <2>3, <2>4, <2>5
<1>8. CASE p.dir = "east"
  <2> DEFINE x == w.at[1] + Speed * p.ms
             y == w.at[2]
             v == [w EXCEPT !.at = <<x, y>>, !.play = w.play]
  <2>1. x \in Int /\ y \in Int
    BY <1>1, <1>2, <1>6
  <2>2. x = w.at[1] + Speed * p.ms /\ y = w.at[2] + Speed * 0
    BY <1>1, <1>2, <1>6
  <2>3. x = w.at[1] + Speed * p.ms /\ y = w.at[2]
    OBVIOUS
  <2> HIDE DEF x, y
  <2>4. Moved(w, p) = v
    BY <1>8, <2>2 DEF Moved
  <2>5. /\ v \in Worlds /\ v.at[1] = x /\ v.at[2] = y
        /\ v.play = w.play /\ v.failed = w.failed
    BY <1>1, <1>2, <2>1 DEF Worlds, Point
  <2> HIDE DEF v
  <2> QED BY <1>5, <1>8, <2>3, <2>4, <2>5
<1>9. CASE p.dir = "north"
  <2> DEFINE x == w.at[1]
             y == w.at[2] + Speed * north
             v == [w EXCEPT !.at = <<x, y>>, !.play = up]
  <2>1. x \in Int /\ y \in Int
    BY <1>1, <1>2, <1>6
  <2>2. x = w.at[1] + Speed * 0 /\ y = w.at[2] + Speed * north
    BY <1>1, <1>2, <1>6
  <2>3. x = w.at[1] /\ y = w.at[2] + Speed * north
    OBVIOUS
  <2> HIDE DEF x, y
  <2>4. Moved(w, p) = v
    BY <1>9, <2>2 DEF Moved, north, up
  <2>5. /\ v \in Worlds /\ v.at[1] = x /\ v.at[2] = y
        /\ v.play = up /\ v.failed = w.failed
    BY <1>1, <1>2, <2>1 DEF Worlds, Point
  <2> HIDE DEF v
  <2> QED BY <1>5, <1>9, <2>3, <2>4, <2>5
<1>10. CASE p.dir = "south"
  <2> DEFINE x == w.at[1]
             y == w.at[2] - Speed * south
             v == [w EXCEPT !.at = <<x, y>>, !.play = down]
  <2>1. x \in Int /\ y \in Int
    BY <1>1, <1>2, <1>6
  <2>2. x = w.at[1] + Speed * 0 /\ y = w.at[2] + Speed * (-south)
    BY <1>1, <1>2, <1>6
  <2>3. x = w.at[1] /\ y = w.at[2] - Speed * south
    OBVIOUS
  <2> HIDE DEF x, y
  <2>4. Moved(w, p) = v
    BY <1>10, <2>2 DEF Moved, south, down
  <2>5. /\ v \in Worlds /\ v.at[1] = x /\ v.at[2] = y
        /\ v.play = down /\ v.failed = w.failed
    BY <1>1, <1>2, <2>1 DEF Worlds, Point
  <2> HIDE DEF v
  <2> QED BY <1>5, <1>10, <2>3, <2>4, <2>5
<1> QED BY <1>1, <1>7, <1>8, <1>9, <1>10 DEF Dirs

\* A pulse that the mount made leaves the star where it was to be: for the
\* clearing moves that is the one place where the play matters.
LEMMA PulseSound ==
  ASSUME NEW s \in Scopes, NEW w \in Worlds, NEW p \in Moves, p # NoMove,
         Sound(s, p, w)
  PROVE  Sound(s, NoMove, Moved(w, p))
<1> DEFINE D == CalibrationDuration
           v == Moved(w, p)
<1>1. /\ D \in Nat \ {0} /\ Speed \in Nat \ {0} /\ p.ms \in Nat /\ p.dir \in Dirs
      /\ p.dir # "none" /\ s.phase \in Phases
      /\ w.play \in Nat /\ Play \in Nat /\ w.play <= Play
      /\ w.at[1] \in Int /\ w.at[2] \in Int
  BY WorldTyped, CalibrationAssumption DEF Moves, Dirs, Worlds, Scopes
<1>2. /\ v \in Worlds /\ v.failed = w.failed
      /\ v.at[1] \in Int /\ v.at[2] \in Int
  BY MovedTyped, WorldTyped
<1>3. /\ p.dir = "west" =>
           v.at[1] = w.at[1] - Speed * p.ms /\ v.at[2] = w.at[2]
      /\ p.dir = "east" =>
           v.at[1] = w.at[1] + Speed * p.ms /\ v.at[2] = w.at[2]
      /\ p.dir = "north" =>
           /\ v.at[1] = w.at[1]
           /\ v.at[2] = w.at[2] + Speed * Greatest(0, p.ms - w.play)
           /\ v.play = Greatest(0, w.play - p.ms)
      /\ p.dir = "south" =>
           /\ v.at[1] = w.at[1]
           /\ v.at[2] = w.at[2] - Speed * Greatest(0, p.ms - (Play - w.play))
  BY MovedTyped
<1> HIDE DEF v
<1>4. /\ s.phase # "cleared" /\ s.initial = <<0, 0>> /\ s.start \in Point
      /\ s.stored # "none" => s.phase = "complete"
      /\ OnTheLegs(s, p, w) /\ OnTheWayBack(s, p, w)
      /\ ~w.failed => Faithful(s, p, w)
  BY DEF Sound, Running
<1>5. /\ s.start[1] \in Int /\ s.start[2] \in Int /\ s.steps \in Int
      /\ s.remaining \in Nat /\ s.marker[2] \in Int /\ s.southStart[2] \in Int
  BY <1>4, ScopeTyped
<1>6. ~w.failed => (s.phase # "west" => XTrue(s)) /\ YTrue(s)
  BY <1>4 DEF Faithful
<1>7. Speed * 0 = 0 /\ NoMove.ms = 0 /\ NoMove.dir = "none"
  BY <1>1, NoMoveTyped
<1>8. s.phase # "complete"
  BY <1>4 DEF OnTheWayBack
<1>9. CASE s.phase = "west"
  <2>1. /\ p = MoveTo("west", D) /\ w.at[2] = s.start[2] /\ s.steps >= 0
        /\ s.yRate = NoRate
    BY <1>4, <1>9 DEF OnTheLegs
  <2>2. p.dir = "west"
    BY <2>1 DEF MoveTo
  <2>3. Running(s, NoMove, v)
    BY <1>3, <1>4, <1>9, <2>1, <2>2 DEF Running, OnTheLegs, OnTheWayBack
  <2>4. ~w.failed =>
          w.at[1] - Speed * p.ms
            = s.start[1] - Speed * (s.steps * CalibrationDuration)
    BY <1>4, <1>9 DEF Faithful
  <2>5. ~w.failed =>
          v.at[1] - Speed * NoMove.ms
            = s.start[1] - Speed * (s.steps * CalibrationDuration)
    BY <1>2, <1>3, <1>7, <2>2, <2>4
  <2>6. ~v.failed => Faithful(s, NoMove, v)
    BY <1>2, <1>6, <1>9, <2>5 DEF Faithful
  <2> QED BY <2>3, <2>6 DEF Sound, v
<1>10. CASE s.phase = "east"
  <2>1. /\ p.dir = "east" /\ s.xRate.dist > 0 /\ s.recenter > 0 /\ s.yRate = NoRate
    BY <1>1, <1>4, <1>10 DEF OnTheLegs
  <2>2. Running(s, NoMove, v)
    BY <1>4, <1>7, <1>10, <2>1 DEF Running, OnTheLegs, OnTheWayBack
  <2>3. ~w.failed => w.at[1] + Speed * p.ms = s.start[1] - Speed * s.remaining
    BY <1>4, <1>10 DEF Faithful
  <2>4. ~w.failed =>
          v.at[1] + Speed * NoMove.ms = s.start[1] - Speed * s.remaining
    BY <1>2, <1>3, <1>7, <2>1, <2>3
  <2>5. ~v.failed => Faithful(s, NoMove, v)
    BY <1>2, <1>6, <1>10, <2>4 DEF Faithful
  <2> QED BY <2>2, <2>5 DEF Sound, v
<1>11. CASE s.phase = "backlash"
  <2>1. /\ p = MoveTo("north", D) /\ w.at[1] = s.start[1]
        /\ s.marker[1] = s.start[1] /\ s.xRate.dist > 0 /\ s.expected = s.xRate
        /\ s.steps >= 1
    BY <1>4, <1>11 DEF OnTheLegs
  <2>2. p.dir = "north" /\ p.ms = D
    BY <2>1 DEF MoveTo
  <2>3. Running(s, NoMove, v)
    BY <1>3, <1>4, <1>11, <2>1, <2>2 DEF Running, OnTheLegs, OnTheWayBack
  <2>4. ASSUME ~w.failed PROVE Cleared(s, NoMove, v)
    <3> DEFINE north == Greatest(0, D - w.play)
    <3>1. Cleared(s, p, w)
      BY <1>4, <1>11, <2>4 DEF Faithful
    <3>2. /\ w.at[2] = s.marker[2] /\ s.start[2] <= s.marker[2]
          /\ w.at[2] > s.start[2] => w.play = 0
          /\ s.accepted > 0 => w.play = 0
      BY <3>1 DEF Cleared
    <3>3. /\ north \in Nat
          /\ w.play = 0 => north = D
          /\ north > 0 => Greatest(0, w.play - D) = 0
          /\ w.play = 0 => Greatest(0, w.play - D) = 0
      BY <1>1 DEF Greatest
    <3>4. v.at[2] = w.at[2] + Speed * north /\ v.play = Greatest(0, w.play - D)
      BY <1>3, <2>2
    <3> HIDE DEF north
    <3>5. Speed * north \in Nat /\ (north = 0 => Speed * north = 0)
      BY <1>1, <3>3
    <3>6. s.start[2] <= s.marker[2] /\ s.marker[2] <= v.at[2]
      BY <1>1, <1>2, <1>5, <3>2, <3>4, <3>5
    <3>7. v.at[2] > s.start[2] => v.play = 0
      BY <1>1, <1>2, <1>5, <3>2, <3>3, <3>4, <3>5
    <3>8. s.accepted > 0 =>
            v.play = 0 /\ v.at[2] = s.marker[2] + Speed * CalibrationDuration
      BY <3>2, <3>3, <3>4
    <3> QED BY <3>6, <3>7, <3>8 DEF Cleared
  <2>5. ~v.failed => Faithful(s, NoMove, v)
    BY <1>2, <1>6, <1>11, <2>4 DEF Faithful
  <2> QED BY <2>3, <2>5 DEF Sound, v
<1>12. CASE s.phase = "north"
  <2>1. p = MoveTo("north", D) /\ w.at[1] = s.start[1] /\ s.steps >= 0
    BY <1>4, <1>12 DEF OnTheLegs
  <2>2. p.dir = "north" /\ p.ms = D
    BY <2>1 DEF MoveTo
  <2>3. Running(s, NoMove, v)
    BY <1>3, <1>4, <1>12, <2>1, <2>2 DEF Running, OnTheLegs, OnTheWayBack
  <2>4. ~w.failed =>
          /\ w.play = 0
          /\ w.at[2] + Speed * p.ms
               = s.start[2] + Speed * (s.steps * CalibrationDuration)
    BY <1>4, <1>12 DEF Faithful
  <2>5. w.play = 0 => Greatest(0, p.ms - w.play) = p.ms /\ Greatest(0, w.play - p.ms) = 0
    BY <1>1 DEF Greatest
  <2>6. ~w.failed =>
          /\ v.play = 0
          /\ v.at[2] + Speed * NoMove.ms
               = s.start[2] + Speed * (s.steps * CalibrationDuration)
    BY <1>2, <1>3, <1>7, <2>2, <2>4, <2>5
  <2>7. ~v.failed => Faithful(s, NoMove, v)
    BY <1>2, <1>6, <1>12, <2>6 DEF Faithful
  <2> QED BY <2>3, <2>7 DEF Sound, v
<1>13. CASE s.phase \in {"south", "nudge"}
  <2>1. p.dir = "south" /\ s.yRate.dist > 0
    BY <1>1, <1>4, <1>13 DEF OnTheWayBack
  <2> DEFINE south == Greatest(0, p.ms - (Play - w.play))
  <2>2. south \in Nat
    BY <1>1 DEF Greatest
  <2> HIDE DEF south
  <2>3. Speed * south \in Nat
    BY <1>1, <2>2
  <2>4. v.at[2] <= w.at[2]
    BY <1>1, <1>2, <1>3, <2>1, <2>3 DEF south
  <2>5. Running(s, NoMove, v)
    BY <1>1, <1>2, <1>4, <1>5, <1>7, <1>13, <2>1, <2>4
       DEF Running, OnTheLegs, OnTheWayBack
  <2>6. ~v.failed => Faithful(s, NoMove, v)
    BY <1>2, <1>6, <1>13 DEF Faithful
  <2> QED BY <2>5, <2>6 DEF Sound, v
<1> QED BY <1>1, <1>4, <1>8, <1>9, <1>10, <1>11, <1>12, <1>13 DEF Phases

\* A pulse that failed leaves the star where it was and is remembered.
LEMMA FailedPulseSound ==
  ASSUME NEW s \in Scopes, NEW w \in Worlds, NEW p \in Moves, p # NoMove,
         Sound(s, p, w)
  PROVE  Sound(s, NoMove, [w EXCEPT !.failed = TRUE])
<1> DEFINE v == [w EXCEPT !.failed = TRUE]
<1>1. v.at = w.at /\ v.failed = TRUE
  BY DEF Worlds
<1> HIDE DEF v
<1>2. Running(s, p, w)
  BY DEF Sound
<1>3. s.phase # "complete"
  BY <1>2 DEF Running, OnTheWayBack
<1>4. Running(s, NoMove, v)
  BY <1>1, <1>2, <1>3, NoMoveTyped DEF Running, OnTheLegs, OnTheWayBack
<1>5. Sound(s, NoMove, v)
  BY <1>1, <1>4 DEF Sound
<1> QED BY <1>5 DEF v

-----------------------------------------------------------------------------
(* The invariant *)

LEMMA InitInvariant == Init => IInv
<1> SUFFICES ASSUME Init PROVE IInv
  OBVIOUS
<1>1. /\ scope \in Scopes /\ move \in Moves /\ mode \in {"auto", "none"}
      /\ guider = "idle" /\ seen \in Point
  BY ScopeInitTyped, NoMoveTyped DEF Init, Point
<1>2. world \in Worlds
  <2> DEFINE Origins == {<<0, 0>>}
             Plays == 0 .. Play
             Failures == {FALSE}
  <2>1. Origins \subseteq Point /\ Failures \subseteq BOOLEAN
    BY DEF Point
  <2>2. world \in [at : Origins, play : Plays, failed : Failures]
    BY DEF Init
  <2> HIDE DEF Origins, Failures
  <2> SUFFICES world \in [at : Point, play : Plays, failed : BOOLEAN]
    BY DEF Worlds
  <2> HIDE DEF Plays
  <2> QED BY <2>1, <2>2
<1> QED BY <1>1, <1>2 DEF IInv, TypeInv, RatesTrue

LEMMA PulseKeeps ==
  ASSUME IInv, PulseCompletes
  PROVE  IInv'
<1>1. /\ TypeInv /\ RatesTrue /\ move # NoMove /\ move \in Moves
      /\ world \in Worlds /\ scope \in Scopes
      /\ UNCHANGED <<scope, mode, guider, seen>> /\ move' = NoMove
  BY DEF IInv, TypeInv, PulseCompletes
<1>2. CASE PulseMade
  <2>1. world' \in Worlds /\ world'.failed = world.failed
    BY <1>1, <1>2, MovedTyped DEF PulseMade
  <2>2. Sound(scope, move, world) => Sound(scope, NoMove, world')
    BY <1>1, <1>2, PulseSound DEF PulseMade
  <2>3. TypeInv'
    BY <1>1, <2>1, NoMoveTyped DEF TypeInv
  <2>4. RatesTrue'
    BY <1>1, <2>1 DEF RatesTrue
  <2> QED BY <1>1, <2>2, <2>3, <2>4 DEF IInv, Starting
<1>3. CASE PulseFails
  <2>1. world' \in Worlds /\ world'.failed = TRUE
    BY <1>1, <1>3 DEF PulseFails, Worlds
  <2>2. Sound(scope, move, world) => Sound(scope, NoMove, world')
    BY <1>1, <1>3, FailedPulseSound DEF PulseFails
  <2>3. TypeInv'
    BY <1>1, <2>1, NoMoveTyped DEF TypeInv
  <2>4. RatesTrue'
    BY <1>1, <2>1 DEF RatesTrue
  <2> QED BY <1>1, <2>2, <2>3, <2>4 DEF IInv, Starting
<1> QED BY <1>2, <1>3 DEF PulseCompletes

\* The result is stored by the frame that finds the run complete.
LEMMA CalibratedIsComplete ==
  ASSUME NEW s \in Scopes, NEW p, NEW w \in Worlds, NEW m \in {"auto", "none"},
         Sound(s, p, w), IsCalibrated(s, m), ~w.failed
  PROVE  XTrue(s) /\ YTrue(s)
<1>1. s.phase = "complete"
  BY DEF Sound, Running, IsCalibrated
<1> QED BY <1>1 DEF Sound, Faithful

LEMMA FrameKeeps ==
  ASSUME IInv, CalibrationFrame
  PROVE  IInv'
<1> DEFINE r == UpdateCalibrationState(scope, world.at, mode)
<1>1. /\ TypeInv /\ guider = "calibrating" /\ move = NoMove
      /\ world \in Worlds /\ scope \in Scopes /\ mode \in {"auto", "none"}
      /\ seen' = world.at /\ UNCHANGED <<mode, world>>
      /\ Starting(scope) \/ Sound(scope, move, world)
  BY DEF IInv, TypeInv, CalibrationFrame
<1>2. /\ scope' = r.scope /\ move' = r.pulse
      /\ guider' = CASE r.failed -> "idle"
                     [] IsCalibrated(r.scope, mode) -> "calibrated"
                     [] OTHER -> "calibrating"
  BY DEF CalibrationFrame
<1>3. Outcome(r, world)
  BY <1>1, FrameSound
<1> HIDE DEF r
<1>4. /\ scope' \in Scopes /\ move' \in Moves /\ r.failed \in BOOLEAN
      /\ ~r.failed => Sound(scope', move', world')
  BY <1>1, <1>2, <1>3 DEF Outcome
<1>5. world' \in Worlds /\ seen' \in Point
  BY <1>1, WorldTyped
<1>6. CASE r.failed
  <2>1. ~IsCalibrated(r.scope, mode)
    BY <1>3, <1>6 DEF Outcome, IsCalibrated
  <2>2. guider' = "idle"
    BY <1>2, <1>6, <2>1
  <2> QED BY <1>1, <1>4, <1>5, <2>2 DEF IInv, TypeInv, RatesTrue
<1>7. CASE ~r.failed /\ IsCalibrated(r.scope, mode)
  <2>1. guider' = "calibrated"
    BY <1>2, <1>7
  <2>2. ~world'.failed => XTrue(scope') /\ YTrue(scope')
    BY <1>1, <1>2, <1>4, <1>5, <1>7, CalibratedIsComplete
  <2> QED BY <1>1, <1>4, <1>5, <2>1, <2>2 DEF IInv, TypeInv, RatesTrue, XTrue, YTrue
<1>8. CASE ~r.failed /\ ~IsCalibrated(r.scope, mode)
  <2>1. guider' = "calibrating"
    BY <1>2, <1>8
  <2> QED BY <1>1, <1>4, <1>5, <1>8, <2>1 DEF IInv, TypeInv, RatesTrue
<1> QED BY <1>4, <1>6, <1>7, <1>8

\* Between the runs nothing touches the rates.
LEMMA OtherFrameKeeps ==
  ASSUME IInv, OtherFrame
  PROVE  IInv'
<1>1. seen' \in Point
  BY WorldTyped DEF IInv, TypeInv, OtherFrame
<1> QED BY <1>1 DEF IInv, TypeInv, OtherFrame, RatesTrue

\* A run begins at the star's position, whatever the one before it left.
LEMMA BeginKeeps ==
  ASSUME IInv, Begin
  PROVE  IInv'
<1> DEFINE origin == <<0, 0>>
           none == 0
           s == [ScopeInit EXCEPT !.phase = "west", !.steps = none,
                                  !.initial = origin, !.start = NoPoint,
                                  !.stored = "none"]
           a == Minus(world.at, seen)
<1>1. /\ TypeInv /\ guider' = "calibrating" /\ scope' = s
      /\ seen' = origin /\ UNCHANGED <<mode, move>>
      /\ world \in Worlds /\ seen \in Point
      /\ world' = [world EXCEPT !.at = a, !.failed = FALSE]
  BY DEF IInv, TypeInv, Begin, BeginCalibration
<1>2. a \in Point
  BY <1>1, WorldTyped DEF Minus, Point
<1> HIDE DEF a
<1>3. world' \in Worlds
  BY <1>1, <1>2 DEF Worlds
<1>4. origin \in Point /\ none \in Int /\ origin = <<0, 0>> /\ none = 0
  BY DEF Point
<1> HIDE DEF origin, none
<1>5. s \in Scopes
  BY <1>4, ScopeInitTyped DEF Scopes, Phases
<1>6. /\ s.phase = "west" /\ s.start = NoPoint /\ s.steps = none
      /\ s.initial = origin /\ s.stored = "none" /\ s.yRate = NoRate
  BY ScopeInitTyped DEF Scopes, ScopeInit
<1> HIDE DEF s
<1>7. Starting(scope')
  BY <1>1, <1>4, <1>6 DEF Starting
<1> QED BY <1>1, <1>3, <1>4, <1>5, <1>7 DEF IInv, TypeInv, RatesTrue

LEMMA InvariantKept == IInv /\ [Next]_vars => IInv'
<1> SUFFICES ASSUME IInv, [Next]_vars PROVE IInv'
  OBVIOUS
<1>1. CASE PulseCompletes
  BY <1>1, PulseKeeps
<1>2. CASE CalibrationFrame
  BY <1>2, FrameKeeps
<1>3. CASE OtherFrame
  BY <1>3, OtherFrameKeeps
<1>4. CASE Begin
  BY <1>4, BeginKeeps
<1>5. CASE Stop
  BY <1>5 DEF IInv, TypeInv, Stop, RatesTrue
<1>6. CASE SetDecGuideMode
  BY <1>6 DEF IInv, TypeInv, SetDecGuideMode, RatesTrue
<1>7. CASE UNCHANGED vars
  BY <1>7 DEF IInv, TypeInv, vars, RatesTrue
<1> QED BY <1>1, <1>2, <1>3, <1>4, <1>5, <1>6, <1>7 DEF Next

\* In every state the star is where the phase and the counts of the run say
\* it is, as long as the mount made the pulses, and no rate is a zero.
THEOREM CalibrationInvariance == Spec => []IInv
<1>1. Init => IInv
  BY InitInvariant
<1>2. IInv /\ [Next]_vars => IInv'
  BY InvariantKept
<1> QED BY <1>1, <1>2, PTL DEF Spec

\* The rates that a completed run stores are the mount's, whatever play the
\* gear begins with and however the legs are cut into pulses
\* (Scope::UpdateCalibrationState).
THEOREM RatesAreTrue == Spec => []RatesTrue
<1>1. IInv => RatesTrue
  BY DEF IInv
<1> QED BY <1>1, CalibrationInvariance, PTL

-----------------------------------------------------------------------------
(* What a step of a run may never do *)

LEMMA EastEndsAtStart ==
  ASSUME IInv, CalibrationFrame, scope.phase = "east", scope'.phase # "east",
         ~world.failed
  PROVE  world.at[1] = scope.start[1]
<1>1. /\ scope \in Scopes /\ world \in Worlds /\ move = NoMove
      /\ Sound(scope, NoMove, world)
      /\ scope' = UpdateCalibrationState(scope, world.at, mode).scope
  BY DEF IInv, TypeInv, CalibrationFrame, Starting
<1>2. scope.start \in Point /\ scope.start # NoPoint
  BY <1>1, NotANumber DEF Sound, Running
<1>3. UpdateCalibrationState(scope, world.at, mode) = GoEast(scope, world.at, mode)
  BY <1>2 DEF UpdateCalibrationState
<1>4. /\ scope.remaining \in Nat /\ scope.start[1] \in Int /\ world.at[1] \in Int
      /\ Speed \in Nat
  BY <1>1, <1>2, ScopeTyped, WorldTyped, CalibrationAssumption
<1>5. scope.remaining = 0
  <2>1. SUFFICES ASSUME scope.remaining > 0 PROVE FALSE
    BY <1>4
  <2>2. GoEast(scope, world.at, mode) = Recenter(scope, "east")
    BY <1>4, <2>1 DEF GoEast
  <2> DEFINE t == Recenter(scope, "east").scope
  <2>3. scope' = t
    BY <1>1, <1>3, <2>2, Zenon
  <2>4. t = [scope EXCEPT !.remaining = t.remaining, !.steps = t.steps]
    <3>1. scope.recenter > 0
      BY <1>1 DEF Sound, Running, OnTheLegs
    <3> QED BY <1>1, <2>1, <3>1, "east" \in Dirs, RecenterTyped, Zenon DEF Dirs
  <2> HIDE DEF t
  <2>5. t.phase = "east"
    BY <1>1, <2>4 DEF Scopes
  <2> QED BY <2>3, <2>5
<1>6. world.at[1] + Speed * 0 = scope.start[1] - Speed * 0
  BY <1>1, <1>5, NoMoveTyped DEF Sound, Faithful
<1>7. Speed * 0 = 0
  BY <1>4
<1> QED BY <1>4, <1>6, <1>7

\* The way back east ends where the leg west began, to the pixel, however
\* the total was cut into pulses (m_recenterRemaining).
THEOREM RaIsReturned == Spec => RaReturned
<1> DEFINE Step == (/\ scope.phase = "east"
                    /\ scope'.phase \in {"backlash", "complete"}
                    /\ ~world.failed)
                   => world.at[1] = scope.start[1]
<1>1. IInv /\ [Next]_vars => [Step]_vars
  <2> SUFFICES ASSUME IInv, Next, scope.phase = "east", ~world.failed,
                      scope'.phase \in {"backlash", "complete"}
               PROVE  world.at[1] = scope.start[1]
    OBVIOUS
  <2>1. CASE CalibrationFrame
    BY <2>1, EastEndsAtStart
  <2>2. CASE Begin
    <3>1. scope'.phase = "west"
      BY <2>2, ScopeInitTyped DEF Begin, BeginCalibration, Scopes
    <3> QED BY <3>1
  <2>3. CASE PulseCompletes \/ OtherFrame \/ Stop \/ SetDecGuideMode
    <3>1. scope' = scope
      BY <2>3 DEF PulseCompletes, OtherFrame, Stop, SetDecGuideMode
    <3> QED BY <3>1
  <2> QED BY <2>1, <2>2, <2>3 DEF Next
<1> QED BY <1>1, CalibrationInvariance, PTL DEF Spec, RaReturned

LEMMA NudgeComesNearer ==
  ASSUME IInv, PulseCompletes, scope.phase = "nudge", guider = "calibrating",
         ~world.failed, world'.at # world.at
  PROVE  Abs(world'.at[2]) < Abs(world.at[2]) /\ world'.at[2] * world.at[2] >= 0
<1> DEFINE v == Moved(world, move)
           y == world.at[2]
<1>1. /\ scope \in Scopes /\ world \in Worlds /\ move \in Moves /\ move # NoMove
      /\ Sound(scope, move, world)
  BY DEF IInv, TypeInv, PulseCompletes, Starting
<1>2. world' = v
  <2>1. [world EXCEPT !.failed = TRUE].at = world.at
    BY <1>1 DEF Worlds
  <2> QED BY <2>1 DEF PulseCompletes, PulseMade, PulseFails
<1>3. /\ move.ms \in Nat /\ move.dir = "south" /\ Speed \in Nat
      /\ world.play \in Nat /\ Play \in Nat /\ world.play <= Play /\ y \in Int
  BY <1>1, WorldTyped, CalibrationAssumption
     DEF Sound, Running, OnTheWayBack, Moves, NoMove, Worlds, Dirs
<1> DEFINE south == Greatest(0, move.ms - (Play - world.play))
<1>4. /\ v \in Worlds /\ v.at[1] = world.at[1]
      /\ v.at[2] = y - Speed * south
  BY <1>1, <1>3, MovedTyped
<1>5. south \in Nat /\ south <= move.ms
  BY <1>3 DEF Greatest
<1>6. Speed * move.ms <= y
  BY <1>1 DEF Sound, Faithful
<1> HIDE DEF south
<1>7. Speed * south \in Nat /\ Speed * south <= Speed * move.ms /\ Speed * move.ms \in Nat
  <2>1. move.ms - south \in Nat
    BY <1>3, <1>5
  <2>2. Speed * (move.ms - south) \in Nat
    BY <1>3, <2>1
  <2>3. Speed * (move.ms - south) = Speed * move.ms - Speed * south
    BY <1>3, <1>5
  <2> QED BY <1>3, <1>5, <2>2, <2>3
<1>8. v.at \in Point /\ world.at \in Point
  BY <1>1, <1>4, WorldTyped
<1>9. v.at[2] # y
  <2>1. v.at = <<v.at[1], v.at[2]>> /\ world.at = <<world.at[1], world.at[2]>>
    BY <1>8 DEF Point
  <2> QED BY <1>2, <1>4, <2>1
<1> DEFINE z == v.at[2]
<1>10. z \in Nat /\ y \in Nat /\ z < y
  BY <1>3, <1>4, <1>6, <1>7, <1>9
<1> HIDE DEF y, z
<1>11. Abs(z) = z /\ Abs(y) = y /\ z * y >= 0
  BY <1>10, AbsPositive
<1> QED BY <1>2, <1>10, <1>11 DEF y, z

\* A nudge brings the star nearer to where the run began and never past it
\* (CALIBRATION_STATE_NUDGE_SOUTH).
THEOREM NudgesComeNearer == Spec => NudgesApproach
<1> DEFINE Step == (/\ scope.phase = "nudge" /\ guider = "calibrating"
                    /\ ~world.failed /\ world'.at # world.at)
                   => /\ Abs(world'.at[2]) < Abs(world.at[2])
                      /\ world'.at[2] * world.at[2] >= 0
<1>1. IInv /\ [Next]_vars => [Step]_vars
  <2> SUFFICES ASSUME IInv, Next, scope.phase = "nudge", guider = "calibrating",
                      ~world.failed, world'.at # world.at
               PROVE  /\ Abs(world'.at[2]) < Abs(world.at[2])
                      /\ world'.at[2] * world.at[2] >= 0
    OBVIOUS
  <2>1. PulseCompletes
    BY DEF Next, CalibrationFrame, OtherFrame, Begin, Stop, SetDecGuideMode
  <2> QED BY <2>1, NudgeComesNearer
<1> QED BY <1>1, CalibrationInvariance, PTL DEF Spec, NudgesApproach

-----------------------------------------------------------------------------
(* A frame is a step of the calibration in two legs *)

\* What the two legs see of a run, between its pulses and during one
LegState(leg, stored, m, failed, stop, n, queue) ==
  [calRun |-> leg, cal |-> stored, decMode |-> m, failed |-> failed,
   intStop |-> stop, reqs |-> n, high |-> queue]
Idle(leg, stored, m) == LegState(leg, stored, m, {}, FALSE, 0, <<>>)
Moving(leg, stored, m) == LegState(leg, stored, m, {}, FALSE, 1, <<"move">>)

LEMMA AppOfRun ==
  ASSUME NEW s, NEW p, NEW m
  PROVE  /\ p = NoMove => AppOf(s, m, p) = Idle(LegOf(s), s.stored, m)
         /\ p # NoMove => AppOf(s, m, p) = Moving(LegOf(s), s.stored, m)
  BY DEF AppOf, Idle, Moving, LegState

\* MyFrame::ScheduleAxisMove with the mount idle: one move, one request
LEMMA ScheduleOnce ==
  ASSUME NEW leg, NEW stored, NEW m
  PROVE  Legs!ScheduleMove(Idle(leg, stored, m)) = Moving(leg, stored, m)
<1> DEFINE failed == {}
           stop == FALSE
           zero == 0
           one == 1
           empty == <<>>
           queue == <<"move">>
           s == LegState(leg, stored, m, failed, stop, zero, empty)
           i == LegState(leg, stored, m, failed, stop, one, empty)
<1>1. /\ Idle(leg, stored, m) = s
      /\ Moving(leg, stored, m) = LegState(leg, stored, m, failed, stop, one, queue)
  BY DEF Idle, Moving
<1>2. Append(empty, "move") = queue
  OBVIOUS
<1>3. zero + 1 = one /\ zero + 1 <= 2 /\ stop = FALSE
  OBVIOUS
<1> HIDE DEF failed, stop, zero, one, empty, queue
<1>4. /\ s.reqs = zero /\ [s EXCEPT !.reqs = one] = i /\ i.high = empty
      /\ [i EXCEPT !.high = queue, !.intStop = stop]
           = LegState(leg, stored, m, failed, stop, one, queue)
  <2>1. s.reqs = zero
    BY DEF LegState
  <2>2. [s EXCEPT !.reqs = one] = i
    BY DEF LegState
  <2>3. i.high = empty
    BY DEF LegState
  <2>4. [i EXCEPT !.high = queue, !.intStop = stop]
           = LegState(leg, stored, m, failed, stop, one, queue)
    <3> DEFINE h == [i EXCEPT !.high = queue]
    <3>1. h = LegState(leg, stored, m, failed, stop, one, queue)
      BY DEF LegState
    <3>2. [i EXCEPT !.high = queue, !.intStop = stop] = [h EXCEPT !.intStop = stop]
      OBVIOUS
    <3> HIDE DEF h, i
    <3>3. [h EXCEPT !.intStop = stop] = LegState(leg, stored, m, failed, stop, one, queue)
      BY <3>1 DEF LegState
    <3> QED BY <3>2, <3>3
  <2> QED BY <2>1, <2>2, <2>3, <2>4
<1> HIDE DEF s, i
<1>5. Legs!IncrementRequestCount(s) = i
  BY <1>3, <1>4 DEF Legs!IncrementRequestCount, Legs!Assert_
<1>6. Legs!ScheduleMove(s) = [i EXCEPT !.high = queue, !.intStop = stop]
  BY <1>2, <1>3, <1>4, <1>5 DEF Legs!ScheduleMove
<1> QED BY <1>1, <1>4, <1>6

\* One frame of the two legs, for each outcome that a leg may have
LEMMA LegFrame ==
  ASSUME NEW leg \in {"ra", "dec", "raDone", "complete"}, NEW stored, NEW m,
         NEW outcome \in {"step", "done", "fail"}
  PROVE  LET after == Legs!UpdateCalibrationState(Idle(leg, stored, m), [cal |-> outcome])
         IN CASE leg \in {"ra", "dec"} /\ outcome = "step" -> after = Moving(leg, stored, m)
              [] leg \in {"ra", "dec"} /\ outcome = "fail" ->
                   after = Idle("cleared", "none", m)
              [] leg = "ra" /\ outcome = "done" ->
                   after = IF m = "none" THEN Idle("raDone", stored, m)
                           ELSE Moving("dec", stored, m)
              [] leg = "dec" /\ outcome = "done" -> after = Idle("complete", "full", m)
              [] leg = "raDone" -> after = Idle("raDone", "ra", m)
              [] leg = "complete" -> after = Idle("complete", "full", m)
<1> DEFINE s == Idle(leg, stored, m)
           f == [cal |-> outcome]
           raDone == "raDone"
           dec == "dec"
           cleared == "cleared"
           complete == "complete"
           none == "none"
           ra == "ra"
           full == "full"
<1>1. f.cal = outcome
  OBVIOUS
<1>2. /\ raDone = "raDone" /\ dec = "dec" /\ cleared = "cleared"
      /\ complete = "complete" /\ none = "none" /\ ra = "ra" /\ full = "full"
  OBVIOUS
<1> HIDE DEF f, raDone, dec, cleared, complete, none, ra, full
<1>3. /\ s.calRun = leg /\ s.decMode = m
      /\ [s EXCEPT !.calRun = raDone] = Idle(raDone, stored, m)
      /\ [s EXCEPT !.calRun = dec] = Idle(dec, stored, m)
      /\ [s EXCEPT !.cal = none, !.calRun = cleared] = Idle(cleared, none, m)
      /\ [s EXCEPT !.cal = ra] = Idle(leg, ra, m)
      /\ [s EXCEPT !.cal = full, !.calRun = complete] = Idle(complete, full, m)
  <2> DEFINE failed == {}
             stop == FALSE
             zero == 0
             empty == <<>>
             Quiet(l, r) == LegState(l, r, m, failed, stop, zero, empty)
  <2>1. \A l, r : Idle(l, r, m) = Quiet(l, r)
    BY DEF Idle
  <2> HIDE DEF failed, stop, zero, empty
  <2>2. s = Quiet(leg, stored)
    BY <2>1
  <2> DEFINE h == [s EXCEPT !.cal = none]
             g == [s EXCEPT !.cal = full]
  <2>3. /\ [s EXCEPT !.cal = none, !.calRun = cleared] = [h EXCEPT !.calRun = cleared]
        /\ [s EXCEPT !.cal = full, !.calRun = complete] = [g EXCEPT !.calRun = complete]
    OBVIOUS
  <2> HIDE DEF s
  <2>4. s.calRun = leg /\ s.decMode = m
    BY <2>2 DEF LegState
  <2>5. [s EXCEPT !.calRun = raDone] = Quiet(raDone, stored)
    BY <2>2 DEF LegState
  <2>6. [s EXCEPT !.calRun = dec] = Quiet(dec, stored)
    BY <2>2 DEF LegState
  <2>7. [s EXCEPT !.cal = ra] = Quiet(leg, ra)
    BY <2>2 DEF LegState
  <2>8. h = Quiet(leg, none)
    BY <2>2 DEF LegState
  <2>9. g = Quiet(leg, full)
    BY <2>2 DEF LegState
  <2> HIDE DEF h, g
  <2>10. [h EXCEPT !.calRun = cleared] = Quiet(cleared, none)
    BY <2>8 DEF LegState
  <2>11. [g EXCEPT !.calRun = complete] = Quiet(complete, full)
    BY <2>9 DEF LegState
  <2> HIDE DEF Quiet
  <2> QED BY <2>1, <2>3, <2>4, <2>5, <2>6, <2>7, <2>10, <2>11
<1>4. /\ Legs!ScheduleMove(s) = Moving(leg, stored, m)
      /\ Legs!ScheduleMove(Idle(dec, stored, m)) = Moving(dec, stored, m)
  BY ScheduleOnce
<1> HIDE DEF s
<1> DEFINE after == Legs!UpdateCalibrationState(s, f)
<1>5. CASE leg \in {"ra", "dec"} /\ outcome = "step"
  <2>1. after = Legs!ScheduleMove(s)
    BY <1>1, <1>3, <1>5 DEF Legs!UpdateCalibrationState
  <2> QED BY <1>4, <1>5, <2>1 DEF s, f
<1>6. CASE leg \in {"ra", "dec"} /\ outcome = "fail"
  <2>1. after = Legs!ClearCalibration(s)
    BY <1>1, <1>3, <1>6 DEF Legs!UpdateCalibrationState
  <2>2. Legs!ClearCalibration(s) = [s EXCEPT !.cal = none, !.calRun = cleared]
    BY <1>2 DEF Legs!ClearCalibration
  <2> QED BY <1>2, <1>3, <1>6, <2>1, <2>2 DEF s, f
<1>7. CASE leg = "ra" /\ outcome = "done"
  <2>1. after = IF m = "none" THEN [s EXCEPT !.calRun = raDone]
                ELSE Legs!ScheduleMove([s EXCEPT !.calRun = dec])
    BY <1>1, <1>2, <1>3, <1>7 DEF Legs!UpdateCalibrationState
  <2> QED BY <1>2, <1>3, <1>4, <1>7, <2>1 DEF s, f
<1>8. CASE leg = "raDone"
  <2>1. after = [s EXCEPT !.cal = ra]
    BY <1>1, <1>2, <1>3, <1>8 DEF Legs!UpdateCalibrationState
  <2> QED BY <1>2, <1>3, <1>8, <2>1 DEF s, f
<1>9. CASE leg = "complete" \/ (leg = "dec" /\ outcome = "done")
  <2>1. after = [s EXCEPT !.cal = full, !.calRun = complete]
    BY <1>1, <1>2, <1>3, <1>9, Zenon DEF Legs!UpdateCalibrationState
  <2> QED BY <1>2, <1>3, <1>9, <2>1 DEF s, f
<1> QED BY <1>5, <1>6, <1>7, <1>8, <1>9

LEMMA LegOfRun ==
  ASSUME NEW s
  PROVE  /\ s.phase = "cleared" => LegOf(s) = "cleared"
         /\ s.phase \in RaPhases => LegOf(s) = "ra"
         /\ s.phase \in DecPhases => LegOf(s) = "dec"
         /\ s.phase = "complete" =>
              LegOf(s) = IF s.yRate = NoRate THEN "raDone" ELSE "complete"
  BY DEF LegOf, RaPhases, DecPhases

LEMMA FrameIsLegFrame ==
  ASSUME IInv, CalibrationFrame
  PROVE  \E outcome \in {"step", "done", "fail"} :
           Legs!UpdateCalibrationState(AppOf(scope, mode, move), [cal |-> outcome])
             = AppOf(scope', mode', move')
<1> DEFINE r == UpdateCalibrationState(scope, world.at, mode)
           leg == LegOf(scope)
           After(o) == Legs!UpdateCalibrationState(Idle(leg, scope.stored, mode),
                                                   [cal |-> o])
           t == r.scope
           p == r.pulse
<1>1. /\ scope \in Scopes /\ world \in Worlds /\ mode \in {"auto", "none"}
      /\ move = NoMove /\ mode' = mode
      /\ Starting(scope) \/ Sound(scope, NoMove, world)
  BY DEF IInv, TypeInv, CalibrationFrame
<1>2. scope' = t /\ move' = p
  BY DEF CalibrationFrame
<1>3. Advances(scope, r, mode)
  BY <1>1, FrameSound
<1>4. /\ t = r.scope /\ p = r.pulse
      /\ scope.phase \in RaPhases \cup DecPhases \cup {"complete"}
      /\ scope.phase # "complete" => scope.stored = "none"
  BY <1>1 DEF Starting, Sound, Running, RaPhases, DecPhases, Scopes, Phases
<1> HIDE DEF r, t, p
<1>5. AppOf(scope, mode, move) = Idle(leg, scope.stored, mode)
  BY <1>1, AppOfRun
<1>6. AppOf(scope', mode', move')
        = IF p = NoMove THEN Idle(LegOf(t), t.stored, mode)
          ELSE Moving(LegOf(t), t.stored, mode)
  BY <1>1, <1>2, AppOfRun
<1>7. /\ t.phase = "cleared" => LegOf(t) = "cleared"
      /\ t.phase \in RaPhases => LegOf(t) = "ra"
      /\ t.phase \in DecPhases => LegOf(t) = "dec"
      /\ t.phase = "complete" =>
           LegOf(t) = IF t.yRate = NoRate THEN "raDone" ELSE "complete"
  BY LegOfRun
<1>8. /\ scope.phase \in RaPhases => leg = "ra"
      /\ scope.phase \in DecPhases => leg = "dec"
      /\ scope.phase = "complete" =>
           leg = IF scope.yRate = NoRate THEN "raDone" ELSE "complete"
  BY LegOfRun
<1>9. leg \in {"ra", "dec", "raDone", "complete"}
  BY <1>4, <1>8
<1> HIDE DEF leg
<1>10. /\ leg \in {"ra", "dec"} => After("step") = Moving(leg, scope.stored, mode)
       /\ leg \in {"ra", "dec"} => After("fail") = Idle("cleared", "none", mode)
       /\ leg = "ra" =>
            After("done") = IF mode = "none" THEN Idle("raDone", scope.stored, mode)
                            ELSE Moving("dec", scope.stored, mode)
       /\ leg = "dec" => After("done") = Idle("complete", "full", mode)
       /\ leg = "raDone" => After("done") = Idle("raDone", "ra", mode)
       /\ leg = "complete" => After("done") = Idle("complete", "full", mode)
  <2>1. ASSUME leg \in {"ra", "dec"}
        PROVE  /\ After("step") = Moving(leg, scope.stored, mode)
               /\ After("fail") = Idle("cleared", "none", mode)
    BY <2>1, <1>9, LegFrame
  <2>2. ASSUME leg = "ra"
        PROVE  After("done") = IF mode = "none" THEN Idle("raDone", scope.stored, mode)
                               ELSE Moving("dec", scope.stored, mode)
    BY <2>2, <1>9, LegFrame
  <2>3. ASSUME leg = "dec" PROVE After("done") = Idle("complete", "full", mode)
    BY <2>3, <1>9, LegFrame
  <2>4. ASSUME leg = "raDone" PROVE After("done") = Idle("raDone", "ra", mode)
    BY <2>4, <1>9, LegFrame
  <2>5. ASSUME leg = "complete" PROVE After("done") = Idle("complete", "full", mode)
    BY <2>5, <1>9, LegFrame
  <2> QED BY <2>1, <2>2, <2>3, <2>4, <2>5
<1> DEFINE b == AppOf(scope', mode', move')
<1>11. SUFFICES After("step") = b \/ After("done") = b \/ After("fail") = b
  BY <1>5
<1> HIDE DEF After
<1>12. Dropped(r) => b = Idle("cleared", "none", mode)
  BY <1>4, <1>6, <1>7 DEF Dropped
<1>13. CASE scope.phase \in RaPhases
  <2>1. leg = "ra" /\ scope.stored = "none" /\ RaAdvances(r, mode)
    BY <1>3, <1>4, <1>8, <1>13 DEF Advances, RaPhases
  <2>2. CASE Dropped(r)
    BY <1>10, <1>12, <2>1, <2>2
  <2>3. CASE Pulsed(r, RaPhases)
    <3>1. b = Moving("ra", "none", mode)
      BY <1>4, <1>6, <1>7, <2>3 DEF Pulsed
    <3> QED BY <1>10, <2>1, <3>1
  <2>4. CASE mode = "none" /\ Stored(r, "none")
    <3>1. b = Idle("raDone", "none", mode)
      BY <1>4, <1>6, <1>7, <2>4 DEF Stored
    <3> QED BY <1>10, <2>1, <2>4, <3>1
  <2>5. CASE mode # "none" /\ Pulsed(r, DecPhases)
    <3>1. b = Moving("dec", "none", mode)
      BY <1>4, <1>6, <1>7, <2>5 DEF Pulsed
    <3> QED BY <1>10, <2>1, <2>5, <3>1
  <2> QED BY <2>1, <2>2, <2>3, <2>4, <2>5 DEF RaAdvances
<1>14. CASE scope.phase \in DecPhases
  <2>1. leg = "dec" /\ scope.stored = "none" /\ DecAdvances(r)
    BY <1>3, <1>4, <1>8, <1>14 DEF Advances, DecPhases
  <2>2. CASE Dropped(r)
    BY <1>10, <1>12, <2>1, <2>2
  <2>3. CASE Pulsed(r, DecPhases)
    <3>1. b = Moving("dec", "none", mode)
      BY <1>4, <1>6, <1>7, <2>3 DEF Pulsed
    <3> QED BY <1>10, <2>1, <3>1
  <2>4. CASE Stored(r, "full")
    <3>1. b = Idle("complete", "full", mode)
      BY <1>4, <1>6, <1>7, <2>4 DEF Stored
    <3> QED BY <1>10, <2>1, <3>1
  <2> QED BY <2>1, <2>2, <2>3, <2>4 DEF DecAdvances
<1>15. CASE scope.phase = "complete"
  <2>1. CASE scope.yRate = NoRate
    <3>1. Stored(r, "ra")
      BY <1>3, <1>15, <2>1 DEF Advances
    <3>2. b = Idle("raDone", "ra", mode)
      BY <1>4, <1>6, <1>7, <3>1 DEF Stored
    <3> QED BY <1>8, <1>10, <1>15, <2>1, <3>2
  <2>2. CASE scope.yRate # NoRate
    <3>1. Stored(r, "full")
      BY <1>3, <1>15, <2>2 DEF Advances
    <3>2. b = Idle("complete", "full", mode)
      BY <1>4, <1>6, <1>7, <3>1 DEF Stored
    <3> QED BY <1>8, <1>10, <1>15, <2>2, <3>2
  <2> QED BY <2>1, <2>2
<1> QED BY <1>4, <1>13, <1>14, <1>15

\* Every frame of a calibration in pulses is a frame of the calibration in
\* two legs with one of their three outcomes (Scope::UpdateCalibrationState),
\* which is all that the capture loop's model knows of a calibration.
THEOREM LegsAreImplemented == Spec => ImplementsLegs
<1>1. IInv /\ [Next]_vars =>
        [CalibrationFrame =>
           \E outcome \in {"step", "done", "fail"} :
             Legs!UpdateCalibrationState(AppOf(scope, mode, move), [cal |-> outcome])
               = AppOf(scope', mode', move')]_vars
  BY FrameIsLegFrame
<1> QED BY <1>1, CalibrationInvariance, PTL DEF Spec, ImplementsLegs

\* No run of a calibration goes round (Scope::UpdateCalibrationState): every
\* frame of it ends it, takes it to a later phase, or takes one from what is
\* left of the phase, whatever the mount does. With the phases numbered and
\* what is left a natural number, this is why a run must end once frames come.
THEOREM RunsAdvance ==
  Spec => [][CalibrationFrame /\ scope.phase # "complete" => Later(scope, scope')]_vars
<1>1. IInv /\ [Next]_vars =>
        [CalibrationFrame /\ scope.phase # "complete" => Later(scope, scope')]_vars
  <2>1. SUFFICES ASSUME IInv, CalibrationFrame, scope.phase # "complete"
                 PROVE  Later(scope, scope')
    OBVIOUS
  <2> DEFINE r == UpdateCalibrationState(scope, world.at, mode)
  <2>2. /\ scope \in Scopes /\ world \in Worlds /\ mode \in {"auto", "none"}
        /\ Starting(scope) \/ Sound(scope, NoMove, world)
    BY <2>1 DEF IInv, TypeInv, CalibrationFrame
  <2>3. scope' = r.scope
    BY <2>1 DEF CalibrationFrame
  <2>4. Advances(scope, r, mode)
    BY <2>2, FrameSound
  <2> QED BY <2>1, <2>3, <2>4 DEF Advances
<1> QED BY <1>1, CalibrationInvariance, PTL DEF Spec
=============================================================================
