----------------------------- MODULE QuietHours -----------------------------
(***************************************************************************)
(* The command quiet hours of src/src/threshold/core/quiet_hours.py.  A    *)
(* time of day is a minute in 0 .. Day - 1 (Day is 1440 in the code); a    *)
(* policy value or a clock that cannot be read as one is Invalid.          *)
(***************************************************************************)
EXTENDS Integers

CONSTANTS Day, Invalid

ASSUME DayAssumption == Day \in Nat \ {0}
ASSUME InvalidAssumption == Invalid \notin Int

Minutes == 0 .. Day - 1

\* A faulty variant: equal ends are an interval like any other, an empty one.
QuietNeverOnEqualEnds(start, end, minute) ==
  IF start <= end THEN start <= minute /\ minute < end
  ELSE start <= minute \/ minute < end

\* Start-inclusive, end-exclusive, over midnight if it ends before it starts;
\* equal ends mean all day.
Quiet(start, end, minute) ==
  \/ start = end
  \/ start < end /\ start <= minute /\ minute < end
  \/ end < start /\ (start <= minute \/ minute < end)

HoursDecision(start, end, minute) ==
  IF Invalid \in {start, end} THEN "quiet_hours_invalid"
  ELSE IF minute = Invalid THEN "quiet_hours_clock_invalid"
  ELSE IF Quiet(start, end, minute) THEN "quiet_hours_active"
  ELSE "outside_quiet_hours"
=============================================================================
