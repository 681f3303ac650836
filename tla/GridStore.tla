------------------------------ MODULE GridStore ------------------------------
(***************************************************************************)
(* The client's state, packages/web/src/store/useGridStore.ts: the store is *)
(* one record, and every setter a function from a store to the next one.    *)
(* A window payload has the fields periods, resolution, statistic and zones;*)
(* zones[z][i + 1] is the sequence of zone z's values in period i.          *)
(***************************************************************************)
EXTENDS Integers, Sequences, FiniteSetsExt

CONSTANTS Null

InitStore ==
  [metric |-> "demand_mw", selectedZone |-> Null, hoveredZone |-> Null, cursor |-> 0,
   playing |-> FALSE, window |-> Null, detailWindow |-> "168h", resolution |-> "hour",
   statistic |-> "mean"]

clampCursor(index, length) ==
  IF length = 0 THEN 0 ELSE Min({Max({index, 0}), length - 1})

Length(s) == IF s.window = Null THEN 0 ELSE Len(s.window.periods)

\* The period the slider is on, if a window is loaded.
PeriodAtCursor(s) == IF s.cursor + 1 \in 1..Length(s) THEN s.window.periods[s.cursor + 1] ELSE Null

\* The newest period in which any zone reported anything, else the last one.
newestHourWithData(payload) ==
  LET last     == Len(payload.periods) - 1
      reported == {hour \in 0..last : \E z \in DOMAIN payload.zones :
                     \E m \in DOMAIN payload.zones[z][hour + 1] :
                        payload.zones[z][hour + 1][m] # Null}
  IN  IF reported = {} THEN Max({last, 0}) ELSE Max(reported)

setMetric(s, metric)       == [s EXCEPT !.metric = metric]
selectZone(s, key)         == [s EXCEPT !.selectedZone = key]
hoverZone(s, key)          == [s EXCEPT !.hoveredZone = key]
setCursor(s, index)        == [s EXCEPT !.cursor = clampCursor(index, Length(s))]
setPlaying(s, playing)     == [s EXCEPT !.playing = playing]
togglePlaying(s)           == [s EXCEPT !.playing = ~s.playing]
\* Variant: the cursor stays where it was.
setWindowAlone(s, payload) == [s EXCEPT !.window = payload]

setWindow(s, payload)      == [s EXCEPT !.window = payload, !.cursor = newestHourWithData(payload)]
setDetailWindow(s, window) == [s EXCEPT !.detailWindow = window]

\* Variants: the old window stays on screen; a press on the pressed button clears it too.
setResolutionAlone(s, resolution) == [s EXCEPT !.resolution = resolution, !.cursor = 0, !.playing = FALSE]
setResolutionAlways(s, resolution) ==
  [s EXCEPT !.resolution = resolution, !.window = Null, !.cursor = 0, !.playing = FALSE]

setResolution(s, resolution) ==
  IF s.resolution = resolution THEN s
  ELSE [s EXCEPT !.resolution = resolution, !.window = Null, !.cursor = 0, !.playing = FALSE]

setStatistic(s, statistic) ==
  IF s.statistic = statistic THEN s ELSE [s EXCEPT !.statistic = statistic, !.window = Null]

\* Every value of one metric in the window, which the colour domain spans.
valuesAcrossWindow(payload, metricPosition) ==
  IF payload = Null THEN {}
  ELSE UNION {{payload.zones[z][i][metricPosition] : i \in DOMAIN payload.periods} : z \in DOMAIN payload.zones}

\* The value of each zone of the window in the cursor's period.
valuesAtCursor(payload, cursor, metricPosition) ==
  [z \in IF payload = Null THEN {} ELSE DOMAIN payload.zones |->
     IF cursor + 1 \in DOMAIN payload.zones[z] THEN payload.zones[z][cursor + 1][metricPosition] ELSE Null]
=============================================================================
