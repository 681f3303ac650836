------------------------------- MODULE Calendar -------------------------------
(***************************************************************************)
(* PostgreSQL's date_trunc and generate_series in a session that speaks UTC, *)
(* over hours counted from 1 January 2019, a Tuesday.                        *)
(***************************************************************************)
EXTENDS Integers, Sequences, SequencesExt, FiniteSetsExt

\* The days of a year before each of its months.
DaysBefore == <<0, 31, 59, 90, 120, 151, 181, 212, 243, 273, 304, 334>>

\* The first hour of the month k months after January 2019.  2020 has 366 days.
MonthStart(k) ==
  LET year  == k \div 12
      month == (k % 12) + 1
      leapDays == (year + 2) \div 4 + (IF year % 4 = 1 /\ month > 2 THEN 1 ELSE 0)
  IN  24 * (365 * year + leapDays + DaysBefore[month])

\* The months of ten years, in order.
MonthStarts == [k \in 1..120 |-> MonthStart(k - 1)]

\* The month an hour lies in, the last one if it comes after them all.
MonthOf(t) == CHOOSE k \in 1..120 : MonthStarts[k] <= t /\ (k = 120 \/ t < MonthStarts[k + 1])

date_trunc(unit, t) ==
  CASE unit = "hour"  -> t
    [] unit = "day"   -> t - (t % 24)
    [] unit = "week"  -> t - ((t + 24) % (7 * 24))
    [] unit = "month" -> MonthStarts[MonthOf(t)]

\* Every unit from one to another, in order; both are first hours of a unit.
generate_series(first, last, unit) ==
  IF unit = "month" THEN SubSeq(MonthStarts, MonthOf(first), MonthOf(last))
  ELSE LET step == IF unit = "hour" THEN 1 ELSE IF unit = "day" THEN 24 ELSE 7 * 24
       IN  [k \in 1..((last - first) \div step + 1) |-> first + step * (k - 1)]
=============================================================================
