------------------------------- MODULE LowPass -------------------------------
(***************************************************************************)
(* LowPass.smooth and HUDOverlayView.smoothCompass, which is the same with *)
(* its numbers written in: a gauge follows the value read, slowly, and     *)
(* around the end of its scale where that is the shorter way.              *)
(*                                                                         *)
(* The floats are numbers of a grid, and a step is rounded to its nearest  *)
(* number. So the last few grid units before a value are never made up:    *)
(* smoothFactor times them rounds to nothing.                              *)
(***************************************************************************)
EXTENDS Integers

CONSTANTS
  smoothScale,       \* where the scale begins again
  smoothThreshold,   \* how far apart two values are taken to be close
  Slowness           \* one over smoothFactor

ASSUME LowPassAssumption ==
  /\ smoothScale \in Nat \ {0} /\ Slowness \in Nat \ {0}
  /\ smoothThreshold \in Nat /\ 2 * smoothThreshold <= smoothScale

Abs(d) == IF d < 0 THEN -d ELSE d

\* smoothFactor * d, rounded to the nearest number of the grid.
Nearest(d) == (2 * d + Slowness) \div (2 * Slowness)
\* Plausible slip: integers, cut.
Truncated(d) == IF d < 0 THEN -((-d) \div Slowness) ELSE d \div Slowness
Fraction(d)  == IF d < 0 THEN -Nearest(-d) ELSE Nearest(d)

\* The % of Java, which has the sign of its left side.
Rem(x, m) == IF x < 0 THEN -((-x) % m) ELSE x % m

Close(old, new) == Abs(new - old) < smoothThreshold
Far(old, new)   == smoothScale - Abs(new - old) > smoothThreshold

Approached(old, new) == old + Fraction(new - old)

\* Past the end of the scale, upwards or downwards.
\* Plausible slip: the directions swapped.
TheOtherWay(old, new) ==
  IF old < new
    THEN Rem(old + Fraction(Rem(smoothScale + new - old, smoothScale)) + smoothScale, smoothScale)
    ELSE Rem(old - Fraction(Rem(smoothScale - new + old, smoothScale)) + smoothScale, smoothScale)
Around(old, new) ==
  IF old > new
    THEN Rem(old + Fraction(Rem(smoothScale + new - old, smoothScale)) + smoothScale, smoothScale)
    ELSE Rem(old - Fraction(Rem(smoothScale - new + old, smoothScale)) + smoothScale, smoothScale)

smooth(old, new) ==
  CASE Close(old, new)                     -> Approached(old, new)
    [] ~Close(old, new) /\ Far(old, new)   -> new
    [] ~Close(old, new) /\ ~Far(old, new)  -> Around(old, new)

-----------------------------------------------------------------------------
\* How far apart two values are on a scale without an end.
Distance(a, b) ==
  LET d == Abs(a - b) % smoothScale IN IF 2 * d <= smoothScale THEN d ELSE smoothScale - d
=============================================================================
