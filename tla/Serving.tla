-------------------------------- MODULE Serving --------------------------------
(***************************************************************************)
(* The API as one process (packages/api/src/app.ts): buildApp reads the      *)
(* configuration and refuses to start on one it does not accept; then the    *)
(* routes answer.  No two routes write the same table, so an instance lets   *)
(* one kind of traffic run: zone details, page views, or the making of a     *)
(* chart's numbers.                                                          *)
(***************************************************************************)
EXTENDS ZoneDetail, Analytics

CONSTANTS
  Configs,    \* configurations somebody may have written
  Deployed,   \* and the one the zones and page views are served on
  Cases       \* a configuration, and rows of one zone under it: <<config, [region, mix,
              \* issues, window, latest]>>

C == INSTANCE Config

\* A column of a zone's hours: what was reported of each, or nothing.
IsColumn(rows) ==
  /\ IsFiniteSet(DOMAIN rows) /\ DOMAIN rows \subseteq Nat
  /\ \A t \in DOMAIN rows : rows[t] \in Int \cup {Null}

\* What the tables hold, whatever the configuration says of the modes.
ASSUME ServingAssumption ==
  /\ Null \notin Int
  /\ \A case \in Cases :
       LET modes == Range(case[1].modes.canonical_modes)
           rows  == case[2]
       IN  /\ IsFiniteSet(modes)
           /\ rows.window \in DOMAIN Z!WINDOWS /\ rows.latest \in Nat
           /\ IsColumn(rows.region)
           /\ IsFiniteSet(DOMAIN rows.mix) /\ DOMAIN rows.mix \subseteq Nat
           /\ \A t \in DOMAIN rows.mix, m \in modes : rows.mix[t][m] \in Int \cup {Null}
           /\ IsFiniteSet(rows.issues)
           /\ \A f \in rows.issues : f.target \in Int /\ f.issue \in Int /\ f.value \in Int

VARIABLES
  app,        \* "starting", "up", or "refused"
  traffic, config,
  reading     \* what a chart was asked of, or Null
vars == <<app, traffic, config, reading, faults, detailVars, analyticsVars>>

Init ==
  /\ app = "starting"
  /\ traffic \in {"zones", "hits", "charts"}
  /\ config \in IF traffic = "charts" THEN Configs ELSE {Deployed}
  /\ reading = Null /\ faults = 0
  /\ DetailInit /\ AnalyticsInit

BuildApp ==
  /\ app = "starting"
  /\ app' = IF C!AcceptsConfig(config) THEN "up" ELSE "refused"
  /\ UNCHANGED <<traffic, config, reading, faults, detailVars, analyticsVars>>

Serves(kind) == app = "up" /\ traffic = kind /\ UNCHANGED <<app, traffic, config>>

ServeZones  == Serves("zones") /\ DetailNext /\ UNCHANGED <<reading, analyticsVars>>
ServeHits   == Serves("hits") /\ AnalyticsNext /\ UNCHANGED <<reading, detailVars>>
ServeCharts ==
  /\ Serves("charts") /\ reading = Null
  /\ \E case \in Cases : case[1] = config /\ reading' = case[2]
  /\ UNCHANGED <<faults, detailVars, analyticsVars>>

Next == BuildApp \/ ServeZones \/ ServeHits \/ ServeCharts

Spec == Init /\ [][Next]_vars

\* Every statement of a handler ends: PostgreSQL answers it or cuts it off.
LiveSpec ==
  /\ Spec
  /\ \A r \in Requests : WF_vars(ServeZones /\ Handle(r))
  /\ \A h \in Views : WF_vars(ServeHits /\ HandleHit(h))

-----------------------------------------------------------------------------
(* Properties. *)

\* Every request is answered, also when the cache cannot be read or written, and every page
\* view that was sent (zone-detail.ts:206).
EveryRequestIsAnswered ==
  /\ \A r \in Requests : ~At(r, "done") ~> At(r, "done")
  /\ \A h \in Views : hit[h].pc # "unsent" ~> hit[h].pc = "answered"

Chart == Z!Series(config.modes, reading.region, reading.mix, reading.issues,
                  reading.window, reading.latest)

\* Whatever configuration the API starts with, a code is one zone or none at all, nothing drawn
\* contains what is drawn beside it, and no renewable share is below zero, above the low-carbon
\* share, or above one, whatever was consumed or left out (schemas.ts:177).
OnlySoundConfigServes ==
  app = "up" =>
    /\ \A i, j \in DOMAIN config.zones :
         config.zones[i].eia_respondent = config.zones[j].eia_respondent => i = j
    /\ \A i \in DOMAIN config.zones :
         /\ config.zones[i].in_map => config.zones[i].type = "balancing_authority"
         /\ \A k \in DOMAIN config.excludedRespondents :
              config.zones[i].eia_respondent # config.excludedRespondents[k].code
    /\ reading # Null =>
         LET chart == Chart
         IN  \A i \in DOMAIN chart.period :
               /\ (chart.renewable[i] = Null) = (chart.low_carbon[i] = Null)
               /\ chart.renewable[i] # Null =>
                    0 <= chart.renewable[i] /\ chart.renewable[i] <= 100
                    /\ chart.renewable[i] <= chart.low_carbon[i]

\* A chart is its readings: each hour of the window is in exactly one point, a point has a value
\* exactly if one of its hours was reported, between the least and the greatest of them, and a
\* forecast was issued a day ahead (zone-detail.ts:248, :294).
SeriesAreTheReadings ==
  reading # Null =>
    LET chart == Chart
        bucket == Z!WINDOWS[reading.window].bucket
        Of(i) == {t \in DOMAIN reading.region :
                    /\ Z!From(reading.window, reading.latest) <= t /\ t <= reading.latest
                    /\ reading.region[t] # Null
                    /\ chart.period[i] <= t
                    /\ i < Len(chart.period) => t < chart.period[i + 1]}
    IN  /\ chart.period[1] <= Z!From(reading.window, reading.latest)
        /\ \A i \in DOMAIN chart.period :
             /\ i > 1 => chart.period[i - 1] < chart.period[i]
             /\ (chart.demand[i] = Null) = (Of(i) = {})
             /\ chart.demand[i] # Null =>
                  /\ \E t \in Of(i) : reading.region[t] <= chart.demand[i]
                  /\ \E t \in Of(i) : reading.region[t] >= chart.demand[i]
             /\ chart.horizon[i] # Null => chart.horizon[i] >= Z!FORECAST_HORIZON_HOURS
=============================================================================
