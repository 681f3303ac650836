----------------------------- MODULE Resolution -----------------------------
(***************************************************************************)
(* What one step of the slider covers (packages/web/src/lib/resolution.ts), *)
(* and the ranges the API admits (packages/api/src/lib/period.ts).  An       *)
(* instant is a number of hours since the dataset began, EARLIEST_PERIOD.    *)
(***************************************************************************)
EXTENDS Integers, FiniteSetsExt

RESOLUTIONS == {"hour", "day", "week", "month"}
STATISTICS  == {"mean", "peak"}

EARLIEST_PERIOD == 0

spanHours == [r \in RESOLUTIONS |->
  CASE r = "hour" -> 7 * 24 [] r = "day" -> 730 * 24 [] r = "week" -> 260 * 7 * 24
    [] r = "month" -> 119 * 30 * 24]

page == [r \in RESOLUTIONS |->
  CASE r = "hour" -> 24 [] r = "day" -> 7 [] r = "week" -> 4 [] r = "month" -> 12]

\* The range to ask for during hour now: it ends at the last complete hour.
rangeFor(resolution, now) ==
  LET end == now - 1
  IN  [from |-> Max({end - (spanHours[resolution] - 1), EARLIEST_PERIOD}), to |-> end]

-----------------------------------------------------------------------------
(* The API's side. *)

MAX_PERIODS == [r \in RESOLUTIONS |->
  CASE r = "hour" -> 7 * 24 [] r = "day" -> 732 [] r = "week" -> 261 [] r = "month" -> 120]

APPROXIMATE_HOURS == [r \in RESOLUTIONS |->
  CASE r = "hour" -> 1 [] r = "day" -> 24 [] r = "week" -> 7 * 24 [] r = "month" -> 30 * 24]

\* parseWindow: the range is not empty and covers no more periods than the cap.
AdmitsWindow(window, resolution) ==
  LET hours   == window.to - window.from + 1
      periods == (hours + APPROXIMATE_HOURS[resolution] - 1) \div APPROXIMATE_HOURS[resolution]
  IN  window.from <= window.to /\ periods <= MAX_PERIODS[resolution]

\* parseStatistic: an hour has a measurement, not a summary.
AdmitsStatistic(statistic, resolution) == resolution = "hour" => statistic = "mean"

hoursBetween(from, to) == [k \in 1..(to - from + 1) |-> from + k - 1]
=============================================================================
