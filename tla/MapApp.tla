------------------------------- MODULE MapApp -------------------------------
(***************************************************************************)
(* The map page of the web client: the store, the window query App keeps,   *)
(* the slider, the buttons, and the map painted through feature state.       *)
(*                                                                         *)
(* A step is one event: a click, a key, a pointer move, an animation frame,  *)
(* an answer.  React renders and runs the effects whose dependencies changed *)
(* before the next event (Commit).  The query library is external: it keeps  *)
(* one answer per key, asks again once when a request fails, and drops the   *)
(* request of a key App no longer observes.                                  *)
(***************************************************************************)
EXTENDS GridStore, Resolution

CONSTANTS Zones, Metrics_, Resolutions, Statistics, KeysPressed,
          Tables,       \* what the API's tables may hold when a request reads them
          Readings,     \* the numbers in them
          MaxSpan,      \* bound: hours of a range that are asked for, from its end
          Hours,        \* the hours of the clock
          Pointed,      \* bound: the zones the reader points at or selects
          MaxSwitches   \* bound: how often the resolution or the statistic is changed

S == INSTANCE Series WITH MIX_ORDER <- <<>>, STORAGE_MODES <- {}
M == INSTANCE Metrics
A == INSTANCE MapWindow

\* What is stored for a zone and a period: one entry for each metric, a number or null.
IsEntry(values) == values \in [DOMAIN A!METRICS -> Readings \cup {Null}]

ASSUME MapAppConstants ==
  /\ "hour" \in Resolutions /\ Resolutions \subseteq RESOLUTIONS
  /\ "mean" \in Statistics
  /\ Metrics_ \subseteq DOMAIN M!METRICS
  /\ KeysPressed \subseteq S!SliderKeys
  /\ Hours \subseteq Nat \ {0} /\ Hours # {}
  /\ MaxSpan \in [Resolutions -> Nat]
  /\ Readings \subseteq Int /\ IsFiniteSet(Readings)
  /\ \A tables \in Tables : \A r \in Resolutions :
       /\ DOMAIN tables[r] \subseteq Int /\ IsFiniteSet(DOMAIN tables[r])
       /\ \A p \in DOMAIN tables[r] : \A z \in DOMAIN tables[r][p] :
            IF r = "hour" THEN IsEntry(tables[r][p][z])
            ELSE \A statistic \in Statistics : IsEntry(tables[r][p][z][statistic])

VARIABLES
  store,     \* useGridStore
  now,       \* the current hour
  query,     \* App's window query: the key of the last render, its data and its state
  answers,   \* the query library's cache: key -> payload
  view,      \* the map: its readiness, feature state and paint
  dragging,  \* the slider's pointer is down
  switches
vars == <<store, now, query, answers, view, dragging, switches>>

Keys == Resolutions \X Statistics \X Hours

KeyAt(s, t) == <<s.resolution, s.statistic, t>>

\* Variant: the statistic is always sent.
RequestWithStatistic(key) ==
  [window |-> rangeFor(key[1], key[3]), resolution |-> key[1], statistic |-> key[2]]

\* fetchWindow: the request a key stands for.  An hour is asked for without statistic.
RequestOf(key) ==
  [window |-> rangeFor(key[1], key[3]), resolution |-> key[1],
   statistic |-> IF key[1] = "hour" THEN "mean" ELSE key[2]]

\* The answers the API may give for a key.
Server(key) ==
  LET r == RequestOf(key)
      short == [r EXCEPT !.window.from = Max({@, r.window.to - MaxSpan[r.resolution] + 1})]
  IN  {A!windowOf(tables, short) : tables \in Tables}

-----------------------------------------------------------------------------
(* The map. *)

Position(s) == M!metricIndex(s.metric)

InitView ==
  [ready |-> FALSE, painted |-> {}, value |-> [z \in Zones |-> Null], selected |-> {},
   hovered |-> {}, fill |-> Null]

\* Variant: the painting does not wait for the map to load, and is not repeated then.
PaintDepsUnready(s, v) == <<s.metric, s.cursor, s.window>>

PaintDeps(s, v)  == <<s.metric, s.cursor, s.window, v.ready>>
SelectDeps(s, v) == <<s.selectedZone, v.ready>>

\* Painting: the value of every zone of the window, and the colours of the whole window.
Painted(s, v) ==
  IF ~v.ready \/ s.window = Null THEN v
  ELSE LET values == valuesAtCursor(s.window, s.cursor, Position(s))
       IN  [v EXCEPT !.painted = @ \cup DOMAIN values,
                     !.value   = [z \in Zones |-> IF z \in DOMAIN values THEN values[z] ELSE @[z]],
                     !.fill    = M!fillColourExpression(s.metric, valuesAcrossWindow(s.window, Position(s)))]

\* Selection: every zone painted so far learns whether it is the selected one.
Outlined(s, v) ==
  IF ~v.ready THEN v
  ELSE [v EXCEPT !.selected = (@ \ v.painted) \cup (v.painted \cap {s.selectedZone})]

\* The effects of a render, in the order they are declared, if their dependencies changed.
Effects(s, v) ==
  \E painted \in {IF PaintDeps(s, v) # PaintDeps(store, view) THEN Painted(s, v) ELSE v} :
    view' = IF SelectDeps(s, painted) # SelectDeps(store, view) THEN Outlined(s, painted) ELSE painted

-----------------------------------------------------------------------------
(* Rendering. *)

\* What App reads of the store: a change of anything else does not render it.
Subscribed(s) == <<s.window, s.selectedZone, s.resolution, s.statistic>>

\* What a render observes: the key of this moment, its data and the state of its request.
Observed(q, c, s, stale) ==
  LET key == KeyAt(s, now)
  IN  [key    |-> key,
       data   |-> IF key \in DOMAIN c THEN <<key, c[key]>> ELSE Null,
       status |-> IF key = q.key THEN q.status
                  ELSE IF key \in DOMAIN c /\ ~stale THEN "idle" ELSE "fetching"]

\* App renders.  Data that is not the data of the last render becomes the window.
Render(q, c, s, v) ==
  \E stale \in BOOLEAN : \E seen \in {Observed(q, c, s, stale)} :
    \E next \in {IF seen.data # Null /\ seen.data # query.data
                 THEN setWindow(s, seen.data[2]) ELSE s} :
      query' = seen /\ store' = next /\ Effects(next, v)

\* The step's effect on the page: the store becomes s, the map v.
Commit(s, v) ==
  IF Subscribed(s) = Subscribed(store)
  THEN store' = s /\ Effects(s, v) /\ UNCHANGED query
  ELSE Render(query, answers, s, v)

Init ==
  /\ store = InitStore
  /\ now = Min(Hours)
  /\ query = [key |-> KeyAt(InitStore, Min(Hours)), data |-> Null, status |-> "fetching"]
  /\ answers = [k \in {} |-> Null]
  /\ view = InitView
  /\ dragging = FALSE
  /\ switches = 0

-----------------------------------------------------------------------------
(* The query. *)

\* An answer is kept under the key that was asked; App renders, and reads the clock again.
Answer ==
  /\ query.status \in {"fetching", "retrying"}
  /\ \E payload \in Server(query.key) :
       \E c \in {[k \in DOMAIN answers \cup {query.key} |-> IF k = query.key THEN payload ELSE answers[k]]} :
         answers' = c /\ Render([query EXCEPT !.status = "idle"], c, store, view)
  /\ UNCHANGED <<now, dragging, switches>>

\* A failed request is made once more, and then the error is shown.
Fail ==
  /\ \/ query.status = "fetching" /\ query' = [query EXCEPT !.status = "retrying"] /\ UNCHANGED <<store, view>>
     \/ query.status = "retrying" /\ Render([query EXCEPT !.status = "error"], answers, store, view)
  /\ UNCHANGED <<now, answers, dragging, switches>>

\* The button beside the error, refetch.
Retry ==
  /\ query.status = "error"
  /\ Render([query EXCEPT !.status = "fetching"], answers, store, view)
  /\ UNCHANGED <<now, answers, dragging, switches>>

\* The registry's answer renders App too.
ZonesAnswer == Render(query, answers, store, view) /\ UNCHANGED <<now, answers, dragging, switches>>

\* Nothing renders when the hour turns: the next render reads the clock.
Tick ==
  /\ now + 1 \in Hours
  /\ now' = now + 1
  /\ UNCHANGED <<store, query, answers, view, dragging, switches>>

-----------------------------------------------------------------------------
(* The controls. *)

UserSets(s) == Commit(s, view) /\ UNCHANGED <<now, answers>>

SetMetric == \E m \in Metrics_ : UserSets(setMetric(store, m)) /\ UNCHANGED <<dragging, switches>>

SetResolution ==
  /\ switches < MaxSwitches
  /\ \E r \in Resolutions : UserSets(setResolution(store, r))
  /\ switches' = switches + 1
  /\ UNCHANGED dragging

\* The statistic's buttons are shown above hourly only.
SetStatistic ==
  /\ switches < MaxSwitches
  /\ store.resolution # "hour"
  /\ \E stat \in Statistics : UserSets(setStatistic(store, stat))
  /\ switches' = switches + 1
  /\ UNCHANGED dragging

\* The list of zones, or a click on the map once it is there.
SelectZone == \E z \in Pointed : UserSets(selectZone(store, z)) /\ UNCHANGED <<dragging, switches>>

\* The panel's button, or a click beside every zone.
CloseZone == UserSets(selectZone(store, Null)) /\ UNCHANGED <<dragging, switches>>

-----------------------------------------------------------------------------
(* The slider: nothing of it is on screen without a period. *)

SliderShown == Length(store) > 0

MoveCursor(i) == UserSets(setCursor(store, i)) /\ UNCHANGED switches

\* Some eight times a second, while playing.
PlaybackStep ==
  /\ store.playing /\ SliderShown
  /\ MoveCursor(S!nextPlaybackIndex(store.cursor, Length(store)))
  /\ UNCHANGED dragging

TogglePlaying == SliderShown /\ UserSets(togglePlaying(store)) /\ UNCHANGED <<dragging, switches>>

HideTab == UserSets(setPlaying(store, FALSE)) /\ UNCHANGED <<dragging, switches>>

KeyDown ==
  /\ SliderShown
  /\ \E key \in KeysPressed :
       MoveCursor(S!indexForKey(key, store.cursor, Length(store), page[store.resolution]))
  /\ UNCHANGED dragging

PointerDown ==
  /\ SliderShown
  /\ \E i \in 0..(Length(store) - 1) :
       UserSets(setCursor(setPlaying(store, FALSE), S!clampIndex(i, Length(store))))
  /\ dragging' = TRUE
  /\ UNCHANGED switches

PointerMove ==
  /\ SliderShown /\ dragging
  /\ \E i \in 0..(Length(store) - 1) : MoveCursor(S!clampIndex(i, Length(store)))
  /\ UNCHANGED dragging

EndDrag == SliderShown /\ dragging' = FALSE /\ UNCHANGED <<store, now, query, answers, view, switches>>

-----------------------------------------------------------------------------
(* The map's own events. *)

Load ==
  /\ ~view.ready
  /\ Commit(store, [view EXCEPT !.ready = TRUE])
  /\ UNCHANGED <<now, answers, dragging, switches>>

\* The zone under the pointer, or none: the one left is told first.
Hover ==
  /\ view.ready
  /\ \E z \in Pointed \cup {Null} :
       Commit(hoverZone(store, z), [view EXCEPT !.hovered = {z} \ {Null}])
  /\ UNCHANGED <<now, answers, dragging, switches>>

Next ==
  \/ Answer \/ Fail \/ Retry \/ ZonesAnswer \/ Tick
  \/ SetMetric \/ SetResolution \/ SetStatistic \/ SelectZone \/ CloseZone
  \/ PlaybackStep \/ TogglePlaying \/ HideTab \/ KeyDown
  \/ PointerDown \/ PointerMove \/ EndDrag
  \/ Load \/ Hover

Spec == Init /\ [][Next]_vars

\* A request is answered or fails in the end.
LiveSpec == Spec /\ WF_vars(Fail \/ Answer)

-----------------------------------------------------------------------------
(* What else is on the page. *)

\* TimeSlider: the period named beside the slider, and how far behind the newest it is.
SliderReadout ==
  LET periods == store.window.periods
  IN  [period |-> IF store.cursor + 1 \in DOMAIN periods THEN periods[store.cursor + 1]
                  ELSE periods[Len(periods)],
       behind |-> S!hoursBehind(store.cursor, Len(periods)),
       step   |-> store.resolution]

\* Legend: the ramp of the window, dimmed when no zone reported this period.
Legend ==
  IF store.window = Null THEN Null
  ELSE [stops   |-> M!rampStops(M!computeDomain(M!METRICS[store.metric],
                                                valuesAcrossWindow(store.window, Position(store)))),
        anyData |-> \E z \in DOMAIN store.window.zones :
                       valuesAtCursor(store.window, store.cursor, Position(store))[z] # Null]

\* ZoneList: the number beside each zone, which stands for what its colour says.
Listed(z) ==
  LET values == valuesAtCursor(store.window, store.cursor, Position(store))
  IN  IF z \in DOMAIN values THEN values[z] ELSE Null

-----------------------------------------------------------------------------
(* Properties. *)

\* The window on screen is the one the buttons say: of this resolution and statistic,
\* whatever answers arrived after the reader had moved on (useGridStore.ts:81).
WindowIsOfControls ==
  store.window # Null =>
    /\ store.window.resolution = store.resolution
    /\ store.resolution # "hour" => store.window.statistic = store.statistic

\* The slider names the period the map is painted with, whichever window replaced which: its
\* fallback for a cursor outside the window is never needed (TimeSlider.tsx:164).
ReadoutIsOfCursor ==
  SliderShown =>
    /\ SliderReadout.period = PeriodAtCursor(store)
    /\ SliderReadout.behind + store.cursor = Length(store) - 1

\* A number the tables held for a zone, in some period, statistic and metric.
WasStored(z, value) ==
  \E tables \in Tables, r \in Resolutions : \E p \in DOMAIN tables[r] :
    /\ z \in DOMAIN tables[r][p]
    /\ LET row == tables[r][p][z]
       IN  \E statistic \in Statistics, k \in DOMAIN A!METRICS :
             value = IF r = "hour" THEN row[k] ELSE row[statistic][k]

\* Once it has loaded the map shows what the slider is on: for every zone the window names the
\* value the tables hold for that period, statistic and metric, in the colours the legend
\* explains, which are a scale, whichever windows, metrics and cursors came before.  A zone the
\* window does not name has nothing stored then, and the list says so; the map keeps what it
\* painted last, grey or a number that was stored for the zone (map.ts:163, MapView.tsx:80, :255).
MapShowsWhatIsStored ==
  view.ready /\ store.window # Null =>
    /\ view.fill = [metric |-> store.metric, stops |-> Legend.stops]
    /\ \A k \in 2..M!RampLength : Legend.stops[k - 1] < Legend.stops[k]
    /\ Length(store) = 0 \/ \E tables \in Tables :
         LET rows == tables[store.resolution]
             Stored(z) ==
               IF PeriodAtCursor(store) \notin DOMAIN rows THEN Null
               ELSE LET row == rows[PeriodAtCursor(store)]
                    IN  IF z \notin DOMAIN row THEN Null
                        ELSE LET values == IF store.resolution = "hour" THEN row[z] ELSE row[z][store.statistic]
                             IN  values[CHOOSE k \in DOMAIN A!METRICS : A!METRICS[k] = store.metric]
         IN  \A z \in Zones :
               /\ z \in DOMAIN store.window.zones => view.value[z] = Stored(z) /\ Listed(z) = Stored(z)
               /\ z \notin DOMAIN store.window.zones =>
                    /\ Stored(z) = Null /\ Listed(z) = Null
                    /\ view.value[z] = Null \/ WasStored(z, view.value[z])

\* Every request of the page is one the API accepts: a range within the cap of its
\* resolution, no statistic for hours (resolution.ts:8, period.ts:109).
RequestIsAdmitted ==
  LET r == RequestOf(query.key)
  IN  AdmitsWindow(r.window, r.resolution) /\ AdmitsStatistic(r.statistic, r.resolution)

\* A page without a window gets one, or shows an error: no order of clicks and answers
\* clears the window for good (useGridStore.ts:86).
EmptyPageIsFilled == (store.window = Null) ~> (store.window # Null \/ query.status = "error")
=============================================================================
