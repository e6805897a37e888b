---------------------------- MODULE GripperUnits ----------------------------
(***************************************************************************)
(* robotiq.py: opening widths and the gripper's native positions, 0 open    *)
(* and Top (255) closed.  Widths are integers of some unit, Full of them    *)
(* the fully open width (max_width_m); the width of a position, seldom an   *)
(* integer, is given in parts of 1/Top.                                     *)
(***************************************************************************)
EXTENDS Integers

CONSTANTS Top, Full

ASSUME UnitsAssumption == Top \in Nat \ {0} /\ Full \in Nat \ {0}

Position == 0..Top

\* Python's round(n / d): to the nearest integer, halves to the even one.
Round(n, d) ==
    LET q == n \div d
        r == 2 * (n % d)
    IN  IF r < d \/ (r = d /\ q % 2 = 0) THEN q ELSE q + 1

\* min(max(width, 0), max_width)
Clamp(width) == IF width < 0 THEN 0 ELSE IF width > Full THEN Full ELSE width

\* Mutation: int() without round().
PositionBelow(parts) == (Top * Full - parts) \div Full

\* int(round((1 - width / max_width) * 255)), from a width in parts of 1/Top.
PositionAt(parts) == Round(Top * Full - parts, Full)

\* Mutation: a width outside the range is not clamped.
WidthToPositionUnclamped(width) == PositionAt(Top * width)

WidthToPosition(width) == PositionAt(Top * Clamp(width))

\* (1 - position / 255) * max_width, in parts of 1/Top.
PositionToParts(position) == (Top - position) * Full

Distance(a, b) == IF a < b THEN b - a ELSE a - b

\* Is the position's width within half a step of the width asked for?
Nearest(position, width) ==
    2 * Distance(PositionToParts(position), Top * Clamp(width)) <= Full
=============================================================================
