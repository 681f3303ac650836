------------------------------ MODULE ZoneSeries ------------------------------
(***************************************************************************)
(* The document behind the zone panel, packages/api/src/routes/             *)
(* zone-detail.ts: which range a window is, what one of its points covers,   *)
(* and what the readings of a bucket become.  Power is an integer, a mean    *)
(* and a share (a percentage) are rounded down.                              *)
(***************************************************************************)
EXTENDS Calendar

CONSTANTS Null

WINDOWS == [w \in {"24h", "72h", "168h", "30d", "90d", "1y", "all"} |->
  CASE w = "24h" -> [hours |-> 24, bucket |-> "hour"]       [] w = "72h" -> [hours |-> 72, bucket |-> "hour"]
    [] w = "168h" -> [hours |-> 168, bucket |-> "hour"]     [] w = "30d" -> [hours |-> 24 * 30, bucket |-> "day"]
    [] w = "90d" -> [hours |-> 24 * 90, bucket |-> "day"]   [] w = "1y" -> [hours |-> 24 * 365, bucket |-> "day"]
    [] w = "all" -> [hours |-> Null, bucket |-> "month"]]

EARLIEST_PERIOD        == 0
FORECAST_HORIZON_HOURS == 24

Cacheable(window) == WINDOWS[window].bucket # "hour"

\* The first hour of a window that ends with the zone's newest.
From(window, latest) ==
  IF WINDOWS[window].hours = Null THEN EARLIEST_PERIOD ELSE latest - (WINDOWS[window].hours - 1)

\* Variant: the axis begins with the first hour, not with the bucket it lies in.
AxisFromHour(window, latest) == generate_series(From(window, latest), latest, WINDOWS[window].bucket)

\* The axis: every bucket of the range, whether or not anybody reported in it.
Axis(window, latest) ==
  LET bucket == WINDOWS[window].bucket
  IN  generate_series(date_trunc(bucket, From(window, latest)), date_trunc(bucket, latest), bucket)

-----------------------------------------------------------------------------
(* SQL's aggregates of a column: a function from rows to numbers or Null. *)

Reported(column) == {r \in DOMAIN column : column[r] # Null}
SumOf(column)    == SumFunctionOnSet(column, Reported(column))
Mean(column) ==
  IF Reported(column) = {} THEN Null
  ELSE SumOf(column) \div Cardinality(Reported(column))

\* columnsFor: what the modes of a list generated in an hour, consumption counted as nothing.
columnsFor(modes, hour) ==
  SumFunction([mode \in {mode \in modes : hour[mode] # Null} |-> Max({hour[mode], 0})])

RENEWABLE_SUM(config, hour)  == columnsFor(ToSet(config.renewable), hour)
LOW_CARBON_SUM(config, hour) == columnsFor(ToSet(config.low_carbon), hour)
COUNTED_SUM(config, hour) ==
  columnsFor(ToSet(config.canonical_modes) \ ToSet(config.excluded_from_mix_percent), hour)

\* The hours of one bucket that the query reads.
InBucket(rows, window, latest, period) ==
  {t \in DOMAIN rows : From(window, latest) <= t /\ t <= latest
                       /\ date_trunc(WINDOWS[window].bucket, t) = period}

\* A share of a bucket, derived from the sums: Null where nothing counted was generated.
Share(part, counted) ==
  IF SumOf(counted) = 0 THEN Null ELSE (100 * SumOf(part)) \div SumOf(counted)

\* The vintage of a target hour: the freshest issued a day ahead of it.
Chosen(issues, target) ==
  LET ahead == {f \in issues : f.target = target /\ f.issue <= target - FORECAST_HORIZON_HOURS}
  IN  {f \in ahead : \A g \in ahead : g.issue <= f.issue}

\* The five queries and their join on the axis.
Series(config, region, mix, issues, window, latest) ==
  LET axis == Axis(window, latest)
      Hours(rows, i) == InBucket(rows, window, latest, axis[i])
      targets    == [t \in {f.target : f \in issues} |-> Chosen(issues, t)]
      Vintages(i) == UNION {targets[t] : t \in Hours(targets, i)}
      Counted(i)  == [t \in Hours(mix, i) |-> COUNTED_SUM(config, mix[t])]
  IN  [period     |-> axis,
       demand     |-> [i \in DOMAIN axis |-> Mean([t \in Hours(region, i) |-> region[t]])],
       forecast   |-> [i \in DOMAIN axis |-> Mean([f \in Vintages(i) |-> f.value])],
       horizon    |-> [i \in DOMAIN axis |->
                         IF Vintages(i) = {} THEN Null ELSE Min({f.target - f.issue : f \in Vintages(i)})],
       renewable  |-> [i \in DOMAIN axis |->
                         Share([t \in Hours(mix, i) |-> RENEWABLE_SUM(config, mix[t])], Counted(i))],
       low_carbon |-> [i \in DOMAIN axis |->
                         Share([t \in Hours(mix, i) |-> LOW_CARBON_SUM(config, mix[t])], Counted(i))],
       mix        |-> [m \in ToSet(config.canonical_modes) |->
                         [i \in DOMAIN axis |-> Mean([t \in Hours(mix, i) |-> mix[t][m]])]]]
=============================================================================
