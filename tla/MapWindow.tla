------------------------------ MODULE MapWindow ------------------------------
(***************************************************************************)
(* GET /map/window, packages/api/src/routes/map.ts: what the API makes of    *)
(* the stored documents.  tables.hour is map_snapshot: period -> zone ->     *)
(* values; tables.day (week, month) is map_snapshot_agg, where a zone has    *)
(* values for each statistic.  Values stand in the order of METRICS.         *)
(***************************************************************************)
EXTENDS Resolution, Calendar, Ascending

CONSTANTS Null

METRICS == <<"demand_mw", "net_generation_mw", "net_interchange_mw",
             "renewable_share", "low_carbon_share">>

\* Hours are generated: one that was not ingested is an empty step.
hourlyWindow(rows, window) ==
  [periods  |-> hoursBetween(window.from, window.to),
   byPeriod |-> [p \in DOMAIN rows \cap (window.from..window.to) |-> rows[p]]]

\* Coarse periods are the stored ones, from the one that covers the first hour.
coarseWindow(rows, window, resolution, statistic) ==
  LET stored == DOMAIN rows \cap (date_trunc(resolution, window.from)..window.to)
  IN  [periods  |-> Ascending(stored),
       byPeriod |-> [p \in stored |-> [z \in DOMAIN rows[p] |-> rows[p][z][statistic]]]]

\* The handler: a zone of any period is in all of them.
windowOf(tables, request) ==
  LET hourly == request.resolution = "hour"
      rows   == tables[request.resolution]
      w      == IF hourly THEN hourlyWindow(rows, request.window)
                ELSE coarseWindow(rows, request.window, request.resolution, request.statistic)
      keys   == UNION {DOMAIN w.byPeriod[p] : p \in DOMAIN w.byPeriod}
      ValuesOf(z, p) == IF p \in DOMAIN w.byPeriod /\ z \in DOMAIN w.byPeriod[p]
                        THEN w.byPeriod[p][z] ELSE [k \in DOMAIN METRICS |-> Null]
  IN  [periods |-> w.periods, resolution |-> request.resolution,
       statistic |-> IF hourly THEN Null ELSE request.statistic,
       zones |-> [z \in keys |-> [i \in DOMAIN w.periods |-> ValuesOf(z, w.periods[i])]]]
=============================================================================
