-------------------------------- MODULE Panel --------------------------------
(***************************************************************************)
(* The zone panel of the web client beside the map's slider: ZonePanel's    *)
(* query, the two charts with their own readings, and the store's cursor     *)
(* that both sides move.  The map's window is loaded and stays.              *)
(***************************************************************************)
EXTENDS GridStore, Functions

CONSTANTS Zones, DetailWindows,
          Docs,         \* Docs[z][w]: the document the API answers for a zone and a window
          MapWindows,   \* what the map may have loaded: windows, or Null
          MIX_ORDER, STORAGE_MODES

S == INSTANCE Series

VARIABLES
  store,    \* useGridStore
  detail,   \* ZonePanel's query: its key (Null while no zone is open) and its state
  answers,  \* the query library's cache: key -> document
  hovered,  \* each chart's own reading: an index, or Null
  plot,     \* the mix chart's uPlot: the colours of its series, each named by its mode, or Null
  touch     \* a finger or the mouse on a chart: the chart, and whether it scrubs
vars == <<store, detail, answers, hovered, plot, touch>>

Charts == {"demand", "mix"}
Idle   == [c \in Charts |-> Null]

-----------------------------------------------------------------------------
(* ZonePanel. *)

\* Variant: the key does not name the window.
KeyOfZone(s) == IF s.selectedZone = Null THEN Null ELSE <<s.selectedZone, InitStore.detailWindow>>

KeyOf(s) == IF s.selectedZone = Null THEN Null ELSE <<s.selectedZone, s.detailWindow>>

\* The document the panel shows for a key, if it is there.
Data(key, c) == IF key # Null /\ key \in DOMAIN c THEN c[key] ELSE Null

\* The charts are there once the zone has published something.
ChartsShown(doc) == doc # Null /\ doc.latest # Null

Mix(doc) == S!buildMixData(doc.series)

\* What the panel calls one point of a window.
PANEL_RESOLUTION == [w \in {"24h", "72h", "168h", "30d", "90d", "1y", "all"} |->
  CASE w \in {"24h", "72h", "168h"} -> "hour" [] w \in {"30d", "90d", "1y"} -> "day" [] w = "all" -> "month"]

\* The periods of a document or a window: instants, oldest first.
ArePeriods(periods) ==
  periods \in Seq(Int) /\ \A i, j \in DOMAIN periods : i < j => periods[i] < periods[j]

\* A mode's readings: one for each period, or nothing.
AreReadings(values, periods) == values \in Seq(Int \cup {Null}) /\ Len(values) = Len(periods)

\* What the API's answers say of themselves, and what tells a key or an instant from none.
ASSUME PanelConstants ==
  /\ InitStore.detailWindow \in DetailWindows
  /\ Null \notin Zones /\ Null \notin Zones \X DetailWindows /\ Null \notin Int
  /\ \A z \in Zones, w \in DetailWindows :
       /\ Docs[z][w] # Null /\ Docs[z][w].zone = z
       /\ Docs[z][w].window = w /\ Docs[z][w].bucket = PANEL_RESOLUTION[w]
       /\ ArePeriods(Docs[z][w].series.period)
       /\ \A mode \in DOMAIN Docs[z][w].series.mix :
            AreReadings(Docs[z][w].series.mix[mode], Docs[z][w].series.period)
  /\ \A w \in MapWindows \ {Null} : ArePeriods(w.periods)
  /\ MIX_ORDER \in Seq(STRING) /\ STORAGE_MODES \subseteq Range(MIX_ORDER)
  /\ \A i, j \in DOMAIN MIX_ORDER : MIX_ORDER[i] = MIX_ORDER[j] => i = j

-----------------------------------------------------------------------------
(* Chart: uPlot is rebuilt when the number of series changed, else given the new data. *)

Rebuilt(doc) ==
  LET colours == Mix(doc).seriesColours
  IN  IF colours = <<>> THEN Null
      ELSE IF plot # Null /\ Len(plot) = Len(colours) THEN plot ELSE colours

\* The panel after its document became doc.  Charts that leave the page take their readings
\* along.  uPlot may move its cursor when it is given data, which the mix chart is told.
Shows(doc, old) ==
  IF ~ChartsShown(doc)
  THEN hovered' = Idle /\ plot' = Null /\ touch' = Null
  ELSE IF doc = old THEN UNCHANGED <<hovered, plot, touch>>
  ELSE /\ plot' = Rebuilt(doc)
       /\ touch' = IF plot' = Null /\ touch # Null /\ touch.chart = "mix" THEN Null ELSE touch
       /\ \E i \in {hovered["mix"], Null} \cup 0..(Len(doc.series.period) - 1) :
            hovered' = [hovered EXCEPT !["mix"] =
                          IF plot # Null /\ plot' = plot THEN i ELSE @]

\* The panel renders for the store s: another key drops the request of the last one.
Renders(s) ==
  LET key == KeyOf(s)
      old == Data(detail.key, answers)
  IN  /\ store' = s
      /\ IF key = detail.key THEN UNCHANGED detail
         ELSE \E stale \in BOOLEAN :
                detail' = [key |-> key, status |-> IF key = Null \/ (key \in DOMAIN answers /\ ~stale)
                                                   THEN "idle" ELSE "fetching"]
      /\ Shows(Data(key, answers), old)
      /\ UNCHANGED answers

Init ==
  /\ \E w \in MapWindows :
       store = IF w = Null THEN InitStore
               ELSE setWindow([InitStore EXCEPT !.resolution = w.resolution], w)
  /\ detail = [key |-> Null, status |-> "idle"]
  /\ answers = [k \in {} |-> Null]
  /\ hovered = Idle
  /\ plot = Null
  /\ touch = Null

SelectZone      == \E z \in Zones : Renders(selectZone(store, z))
CloseZone       == store.selectedZone # Null /\ Renders(selectZone(store, Null))
SetDetailWindow == store.selectedZone # Null /\ \E w \in DetailWindows : Renders(setDetailWindow(store, w))

Answer ==
  /\ detail.status \in {"fetching", "retrying"}
  /\ LET key == detail.key
         doc == Docs[key[1]][key[2]]
     IN  /\ answers' = [k \in DOMAIN answers \cup {key} |-> IF k = key THEN doc ELSE answers[k]]
         /\ Shows(doc, Data(key, answers))
  /\ detail' = [detail EXCEPT !.status = "idle"]
  /\ UNCHANGED store

Fail ==
  /\ detail.status \in {"fetching", "retrying"}
  /\ detail' = [detail EXCEPT !.status = IF @ = "fetching" THEN "retrying" ELSE "error"]
  /\ UNCHANGED <<store, answers, hovered, plot, touch>>

\* The map's slider.
MoveSlider ==
  /\ \E i \in 0..(Length(store) - 1) : store' = setCursor(store, i)
  /\ UNCHANGED <<detail, answers, hovered, plot, touch>>

-----------------------------------------------------------------------------
(* Reading a chart. *)

Doc     == Data(detail.key, answers)
Periods == Doc.series.period

\* Charts with something drawn on them.
Drawn == IF ~ChartsShown(Doc) THEN {} ELSE {"demand"} \cup {c \in {"mix"} : plot # Null}

MapPeriods == IF store.window = Null THEN <<>> ELSE store.window.periods

\* scrubTo: the chart reads index i, and the map follows where it has that period.
ScrubTo(chart, i) ==
  LET at == S!indexForPeriod(MapPeriods, Periods[i + 1])
  IN  /\ hovered' = [hovered EXCEPT ![chart] = i]
      /\ store' = IF at = Null THEN store ELSE setCursor(store, at)

Reads(chart, i) == ScrubTo(chart, i) /\ UNCHANGED <<detail, answers, plot>>

\* A mouse scrubs from the press; a finger has yet to move sideways.
MousePress ==
  /\ touch = Null
  /\ \E chart \in Drawn : \E i \in 0..(Len(Periods) - 1) :
       Reads(chart, i) /\ touch' = [chart |-> chart, scrubbing |-> TRUE]

FingerPress ==
  /\ touch = Null
  /\ \E chart \in Drawn : touch' = [chart |-> chart, scrubbing |-> FALSE]
  /\ UNCHANGED <<store, detail, answers, hovered, plot>>

\* Sideways by the threshold, and more sideways than up; a scrub goes on either way.
PointerMove ==
  /\ touch # Null
  /\ \E sideways \in BOOLEAN :
       /\ touch.scrubbing \/ sideways
       /\ \E i \in 0..(Len(Periods) - 1) : Reads(touch.chart, i)
  /\ touch' = [touch EXCEPT !.scrubbing = TRUE]

\* The finger lifts: neither chart is given an onScrubEnd.
Release ==
  /\ touch # Null
  /\ touch' = Null
  /\ UNCHANGED <<store, detail, answers, hovered, plot>>

\* uPlot's cursor follows a mouse over the mix chart, and leaves with it.
MouseOver ==
  /\ "mix" \in Drawn
  /\ \E i \in 0..(Len(Periods) - 1) \cup {Null} : hovered' = [hovered EXCEPT !["mix"] = i]
  /\ UNCHANGED <<store, detail, answers, plot, touch>>

Next ==
  \/ SelectZone \/ CloseZone \/ SetDetailWindow \/ Answer \/ Fail \/ MoveSlider
  \/ MousePress \/ FingerPress \/ PointerMove \/ Release \/ MouseOver

Spec == Init /\ [][Next]_vars

-----------------------------------------------------------------------------
(* The readouts. *)

\* The newest index that holds a reading of the chart.
Newest(chart) ==
  LET n == Len(Periods)
  IN  IF chart = "demand" THEN S!newestWith({Doc.series.demand}, n)
      ELSE S!newestWith({Mix(Doc).raw[k] : k \in DOMAIN Mix(Doc).raw}, n)

\* ZonePanel around the charts.
PanelView ==
  [title   |-> IF Doc # Null THEN Doc.zone ELSE store.selectedZone,
   pressed |-> store.detailWindow,
   point   |-> PANEL_RESOLUTION[store.detailWindow],
   pending |-> Doc = Null /\ detail.status # "error",
   error   |-> detail.status = "error",
   empty   |-> Doc # Null /\ ~ChartsShown(Doc),
   missing |-> IF Doc = Null THEN 0 ELSE S!missingHours(Doc.series.demand)]

\* The index a chart's readout describes: its own, else the slider's, else the newest.
Shown(chart) ==
  LET followed == S!indexForPeriod(Periods, PeriodAtCursor(store))
  IN  IF hovered[chart] # Null THEN hovered[chart]
      ELSE IF followed # Null THEN followed ELSE Newest(chart)

\* MixChart's readout: the period, each mode's own value, and storage.
MixReadout ==
  [period  |-> S!At(Periods, Shown("mix")),
   values  |-> [k \in DOMAIN Mix(Doc).modes |-> S!At(Mix(Doc).raw[k], Shown("mix"))],
   storage |-> S!netStorage(Doc.series, Shown("mix"))]

\* DemandChart's readout.
DemandReadout ==
  [period   |-> S!At(Periods, Shown("demand")),
   demand   |-> S!At(Doc.series.demand, Shown("demand")),
   forecast |-> S!At(Doc.series.forecast, Shown("demand"))]

Readout(chart) == IF chart = "mix" THEN MixReadout ELSE DemandReadout

-----------------------------------------------------------------------------
(* Properties. *)

\* While a zone is open the panel is about it and about the window whose button is pressed,
\* however late an answer was: what it calls a point is what the API made of it, and it says
\* "loading" only as long as somebody will answer (ZonePanel.tsx:56).
PanelIsOfSelection ==
  store.selectedZone # Null =>
    /\ PanelView.title = store.selectedZone
    /\ PanelView.pending => detail.status \in {"fetching", "retrying"}
    /\ Doc # Null => Doc.window = PanelView.pressed /\ Doc.bucket = PanelView.point

\* Reading one chart takes the rest of the page along: the map goes to the newest of its periods
\* that is not after the one touched, which need not be the touched one, and where it is, a chart
\* with no reading of its own shows the period the map then shows, whatever the two charts and
\* the map cover.  A chart keeps its reading when the finger lifts (DemandChart.tsx:96, :103).
ScrubMovesBoth ==
  [][(MousePress \/ PointerMove) =>
       LET touched == S!At(Periods, hovered'[touch'.chart])
           reached == {p \in Range(MapPeriods) : p <= touched}
       IN  /\ touched # Null
           /\ reached # {} => PeriodAtCursor(store') = Max(reached)
           /\ touched \in reached =>
                \A c \in Charts : hovered'[c] = Null => Readout(c).period' = touched]_vars

\* The bands of the mix chart are the readings beside it: in every period each band is what its
\* mode and those before it add up to, so that one whose mode did not report lies on the band
\* before, and is a gap only if none of them reported; and what the readout calls storage is what
\* its storage modes add up to (series.ts:127, :211).
StackIsTheReadings ==
  ChartsShown(Doc) /\ plot # Null =>
    LET mix == Mix(Doc)
        Total(values, ks) ==
          LET reported == {k \in ks : values[k] # Null}
          IN  IF reported = {} THEN Null ELSE SumFunctionOnSet(values, reported)
        readout == MixReadout
        modes   == DOMAIN mix.modes
    IN  /\ \A i \in DOMAIN Periods, k \in modes :
             mix.data[Len(mix.modes) + 2 - k][i] = Total([j \in modes |-> mix.raw[j][i]], 1..k)
        /\ readout.storage = Total(readout.values, {k \in modes : mix.modes[k] \in STORAGE_MODES})

\* What MixChart.tsx:98 says of the bands: each source keeps its own colour, the one the legend
\* beside the chart gives it.
BandsWearTheirColours == ChartsShown(Doc) /\ plot # Null => plot = Mix(Doc).seriesColours
=============================================================================
