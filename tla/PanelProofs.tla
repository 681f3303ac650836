----------------------------- MODULE PanelProofs -----------------------------
(***************************************************************************)
(* The panel is of the zone and the window that are selected, for any zones,*)
(* windows and documents, and any order of clicks and answers.               *)
(* Reading a chart takes the map along, and the bands of the mix add up to   *)
(* what its modes reported.                                                  *)
(***************************************************************************)
EXTENDS Panel, DataProofs

StoreFields == {"metric", "selectedZone", "hoveredZone", "cursor", "playing", "window",
                "detailWindow", "resolution", "statistic"}

StoreInv(s) ==
  /\ DOMAIN s = StoreFields
  /\ s.selectedZone \in Zones \cup {Null} /\ s.detailWindow \in DetailWindows

DetailInv(d, c) ==
  /\ d.status \in {"idle", "fetching", "retrying", "error"}
  /\ d.status = "idle" => d.key = Null \/ d.key \in DOMAIN c
  /\ d.status \in {"fetching", "retrying"} => d.key # Null

AnswersInv(c) == \A k \in DOMAIN c : k \in Zones \X DetailWindows /\ c[k] = Docs[k[1]][k[2]]

\* The inductive invariant.
PInv ==
  /\ StoreInv(store) /\ AnswersInv(answers)
  /\ DOMAIN detail = {"key", "status"} /\ DetailInv(detail, answers)
  /\ detail.key = KeyOf(store)

-----------------------------------------------------------------------------
(* The store. *)

LEMMA SettersKeep ==
  ASSUME NEW s, StoreInv(s), NEW x
  PROVE  /\ x \in Zones \cup {Null} => StoreInv(selectZone(s, x))
         /\ x \in DetailWindows => StoreInv(setDetailWindow(s, x))
         /\ StoreInv(setCursor(s, x)) /\ KeyOf(setCursor(s, x)) = KeyOf(s)
  BY DEF StoreInv, StoreFields, selectZone, setDetailWindow, setCursor, KeyOf

\* A key is one of a zone and a window, or none.
LEMMA KeysAreKeys ==
  ASSUME NEW s, StoreInv(s)
  PROVE  KeyOf(s) \in (Zones \X DetailWindows) \cup {Null}
  BY DEF StoreInv, KeyOf

LEMMA PanelStarts == Init => PInv
<1> SUFFICES ASSUME Init PROVE PInv
  OBVIOUS
<1>1. /\ DOMAIN store = StoreFields /\ store.selectedZone = Null
      /\ store.detailWindow = InitStore.detailWindow
  <2>1. CASE store = InitStore
    BY <2>1 DEF InitStore, StoreFields
  <2>2. ASSUME NEW w, store = setWindow([InitStore EXCEPT !.resolution = w.resolution], w)
        PROVE  /\ DOMAIN store = StoreFields /\ store.selectedZone = Null
               /\ store.detailWindow = InitStore.detailWindow
    BY <2>2 DEF InitStore, StoreFields, setWindow
  <2> QED BY <2>1, <2>2 DEF Init
<1> QED BY <1>1, PanelConstants DEF Init, PInv, StoreInv, AnswersInv, DetailInv, KeyOf

-----------------------------------------------------------------------------
(* The steps. *)

\* The panel renders: another key has a request of its own, unless its document is there.
LEMMA RendersKeeps ==
  ASSUME PInv, NEW s, StoreInv(s), Renders(s)
  PROVE  PInv'
<1>1. store' = s /\ answers' = answers
  BY DEF Renders
<1>2. CASE KeyOf(s) = detail.key
  BY <1>1, <1>2 DEF Renders, PInv, KeyOf
<1>3. CASE KeyOf(s) # detail.key
  <2>1. PICK stale \in BOOLEAN :
          detail' = [key |-> KeyOf(s),
                     status |-> IF KeyOf(s) = Null \/ (KeyOf(s) \in DOMAIN answers /\ ~stale)
                                THEN "idle" ELSE "fetching"]
    BY <1>3 DEF Renders
  <2>2. detail'.key = KeyOf(s) /\ DOMAIN detail' = {"key", "status"} /\ DetailInv(detail', answers)
    BY <2>1 DEF DetailInv
  <2> QED BY <1>1, <2>2 DEF PInv, KeyOf
<1> QED BY <1>2, <1>3

\* A step that at most moves the slider.
LEMMA SliderKeeps ==
  ASSUME PInv, NEW i, store' = store \/ store' = setCursor(store, i), UNCHANGED <<detail, answers>>
  PROVE  PInv'
<1>1. StoreInv(store') /\ KeyOf(store)' = KeyOf(store)
  BY SettersKeep DEF PInv, KeyOf
<1> QED BY <1>1 DEF PInv

LEMMA AnswerKeeps ==
  ASSUME PInv, Answer
  PROVE  PInv'
<1> DEFINE key == detail.key
           doc == Docs[key[1]][key[2]]
<1>1. /\ answers' = [k \in DOMAIN answers \cup {key} |-> IF k = key THEN doc ELSE answers[k]]
      /\ detail' = [detail EXCEPT !.status = "idle"] /\ UNCHANGED store
  BY DEF Answer
<1>2. key \in Zones \X DetailWindows
  BY KeysAreKeys DEF PInv, DetailInv, Answer
<1>3. AnswersInv(answers')
  BY <1>1, <1>2 DEF PInv, AnswersInv
<1>4. detail'.key = key /\ detail'.status = "idle" /\ DOMAIN detail' = {"key", "status"}
  BY <1>1 DEF PInv
<1>5. DetailInv(detail', answers')
  BY <1>1, <1>4 DEF DetailInv
<1> QED BY <1>1, <1>3, <1>4, <1>5 DEF PInv, KeyOf

LEMMA FailKeeps ==
  ASSUME PInv, Fail
  PROVE  PInv'
<1>1. /\ detail' = [detail EXCEPT !.status = IF @ = "fetching" THEN "retrying" ELSE "error"]
      /\ UNCHANGED <<store, answers>> /\ detail.status \in {"fetching", "retrying"}
  BY DEF Fail
<1>2. /\ detail'.key = detail.key /\ detail'.status \in {"retrying", "error"}
      /\ DOMAIN detail' = {"key", "status"}
  BY <1>1 DEF PInv
<1> QED BY <1>1, <1>2 DEF PInv, DetailInv, KeyOf

LEMMA PanelStep == PInv /\ [Next]_vars => PInv'
<1> SUFFICES ASSUME PInv, [Next]_vars PROVE PInv'
  OBVIOUS
<1>1. CASE SelectZone \/ CloseZone \/ SetDetailWindow
  BY <1>1, SettersKeep, RendersKeeps DEF SelectZone, CloseZone, SetDetailWindow, PInv
<1>2. CASE MoveSlider
  BY <1>2, SliderKeeps DEF MoveSlider
<1>3. ASSUME NEW chart, NEW i, Reads(chart, i) PROVE PInv'
  <2> DEFINE at == S!indexForPeriod(MapPeriods, Periods[i + 1])
  <2>1. (store' = store \/ store' = setCursor(store, at)) /\ UNCHANGED <<detail, answers>>
    BY <1>3 DEF Reads, ScrubTo
  <2> QED BY <2>1, SliderKeeps
<1>4. CASE FingerPress \/ Release \/ MouseOver \/ UNCHANGED vars
  <2>1. UNCHANGED <<store, detail, answers>>
    BY <1>4 DEF FingerPress, Release, MouseOver, vars
  <2> QED BY <2>1 DEF PInv, KeyOf
<1> QED BY <1>1, <1>2, <1>3, <1>4, AnswerKeeps, FailKeeps DEF Next, MousePress, PointerMove

\* While a zone is open the panel is about it and about the window whose button is pressed,
\* calls a point what the API made of it, and says "loading" only as long as a request is under
\* way, however late, repeated or dropped the answers were (ZonePanel.tsx:56).
THEOREM PanelIsTheSelection == Spec => []PanelIsOfSelection
<1>1. PInv => PanelIsOfSelection
  <2> SUFFICES ASSUME PInv, store.selectedZone # Null PROVE
        /\ PanelView.title = store.selectedZone
        /\ PanelView.pending => detail.status \in {"fetching", "retrying"}
        /\ Doc # Null => Doc.window = PanelView.pressed /\ Doc.bucket = PanelView.point
    BY DEF PanelIsOfSelection
  <2>1. /\ PanelView.title = IF Doc # Null THEN Doc.zone ELSE store.selectedZone
        /\ PanelView.pressed = store.detailWindow
        /\ PanelView.point = PANEL_RESOLUTION[store.detailWindow]
        /\ PanelView.pending => Doc = Null /\ detail.status # "error"
    BY DEF PanelView
  <2>2. /\ store.selectedZone \in Zones /\ store.detailWindow \in DetailWindows
        /\ detail.key = <<store.selectedZone, store.detailWindow>> /\ detail.key # Null
    BY PanelConstants DEF PInv, StoreInv, KeyOf
  <2>3. Doc = IF detail.key \in DOMAIN answers THEN answers[detail.key] ELSE Null
    BY <2>2 DEF Doc, Data
  <2>4. detail.key \in DOMAIN answers => Doc = Docs[store.selectedZone][store.detailWindow]
    BY <2>2, <2>3 DEF PInv, AnswersInv
  <2>5. Doc # Null => /\ Doc.zone = store.selectedZone /\ Doc.window = store.detailWindow
                      /\ Doc.bucket = PANEL_RESOLUTION[store.detailWindow]
    BY <2>2, <2>3, <2>4, PanelConstants
  <2>6. Doc = Null /\ detail.status # "error" => detail.status \in {"fetching", "retrying"}
    BY <2>2, <2>4, PanelConstants DEF PInv, DetailInv
  <2> QED BY <2>1, <2>5, <2>6
<1>2. Init => PInv
  BY PanelStarts
<1> QED BY <1>1, <1>2, PanelStep, PTL DEF Spec

-----------------------------------------------------------------------------
(* Reading a chart. *)

\* The slider's index of an instant is that of the newest period not after it; of a period, its own.
LEMMA IndexIsLast ==
  ASSUME NEW periods, ArePeriods(periods), NEW target \in Int
  PROVE  LET at      == S!indexForPeriod(periods, target)
             reached == {p \in Range(periods) : p <= target}
         IN  /\ at \in Int \cup {Null}
             /\ reached # {} => at \in 0..(Len(periods) - 1) /\ periods[at + 1] = Max(reached)
             /\ \A k \in DOMAIN periods : periods[k] = target => at = k - 1 /\ Max(reached) = target
<1> DEFINE n       == Len(periods)
           before  == {i \in DOMAIN periods : periods[i] <= target}
           at      == S!indexForPeriod(periods, target)
           reached == {p \in Range(periods) : p <= target}
<1>1. /\ n \in Nat /\ DOMAIN periods = 1..n /\ target # Null
      /\ \A i \in 1..n : periods[i] \in Int
      /\ \A i, j \in 1..n : i < j => periods[i] < periods[j]
  BY PanelConstants DEF ArePeriods
<1>2. IsFiniteSet(before) /\ before \in SUBSET Int /\ before \in SUBSET (1..n)
  <2>1. before \subseteq 1..n /\ 1..n \subseteq Int
    BY <1>1
  <2>2. IsFiniteSet(1..n)
    BY <1>1, FS_Interval
  <2> QED BY <2>1, <2>2, FS_Subset
<1>3. reached = {periods[i] : i \in before}
  BY DEF Range
<1>4. CASE before = {}
  <2>1. periods = <<>> \/ target < periods[1]
    <3>1. CASE n = 0
      BY <3>1 DEF ArePeriods
    <3>2. CASE n # 0
      <4>1. 1 \in DOMAIN periods /\ periods[1] \in Int
        BY <1>1, <3>2
      <4>2. ~ (periods[1] <= target)
        BY <1>4, <4>1
      <4> QED BY <4>1, <4>2
    <3> QED BY <3>1, <3>2
  <2>2. at = Null
    BY <1>1, <2>1 DEF S!indexForPeriod
  <2>3. reached = {} /\ \A k \in DOMAIN periods : periods[k] # target
    BY <1>1, <1>3, <1>4
  <2> QED BY <2>2, <2>3
<1>5. CASE before # {}
  <2> DEFINE last == Max(before)
  <2>1. last \in before /\ \A i \in before : last >= i
    <3>1. \E x \in before : \A y \in before : x >= y
      BY <1>2, <1>5, FiniteHasEnds
    <3> HIDE DEF before
    <3> QED BY <3>1 DEF Max
  <2>2. last \in 1..n /\ periods[last] <= target /\ periods # <<>> /\ 1 \in 1..n /\ ~ (target < periods[1])
    <3>1. last \in 1..n /\ periods[last] \in Int /\ periods[last] <= target
      BY <1>1, <2>1
    <3>2. 1 \in 1..n /\ periods[1] \in Int /\ periods[1] <= periods[last]
      <4> HIDE DEF last
      <4>1. last = 1 \/ 1 < last
        BY <1>1, <3>1
      <4> QED BY <1>1, <3>1, <4>1
    <3> HIDE DEF last
    <3>3. periods # <<>>
      BY <1>1, <3>1
    <3> QED BY <3>1, <3>2, <3>3
  <2>3. at = last - 1
    <3>1. at = S!Max(before) - 1
      BY <1>1, <2>2 DEF S!indexForPeriod
    <3> QED BY <3>1 DEF S!Max, Max
  <2> HIDE DEF last, before, at
  <2>4. at \in 0..(n - 1) /\ at + 1 = last
    BY <1>1, <2>2, <2>3
  <2>5. ASSUME NEW p \in reached PROVE p <= periods[last]
    <3>1. PICK i \in before : p = periods[i]
      BY <1>3
    <3>2. i \in 1..n /\ i <= last
      BY <1>2, <2>1, <3>1
    <3>3. i = last \/ i < last
      BY <2>2, <3>2
    <3>4. periods[i] \in Int /\ periods[last] \in Int /\ periods[i] <= periods[last]
      BY <1>1, <2>2, <3>2, <3>3
    <3> QED BY <3>1, <3>4
  <2>6. periods[last] = Max(reached)
    <3>1. periods[last] \in reached /\ \A p \in reached : p \in Int
      BY <1>1, <1>2, <1>3, <2>1
    <3> HIDE DEF reached
    <3>2. Max(reached) \in reached /\ \A p \in reached : Max(reached) >= p
      BY <2>5, <3>1 DEF Max
    <3>3. Max(reached) \in Int /\ periods[last] \in Int /\ Max(reached) >= periods[last] /\ Max(reached) <= periods[last]
      BY <2>5, <3>1, <3>2
    <3> QED BY <3>3
  <2>7. ASSUME NEW k \in DOMAIN periods, periods[k] = target PROVE at = k - 1 /\ Max(reached) = target
    <3>1. k \in before /\ k \in 1..n
      BY <1>1, <2>7 DEF before
    <3>2. k <= last /\ periods[last] <= periods[k]
      BY <2>1, <2>2, <2>7, <3>1
    <3>3. k = last
      <4>1. ~ (k < last)
        BY <1>1, <2>2, <3>1, <3>2
      <4> QED BY <2>2, <3>1, <3>2, <4>1
    <3> QED BY <2>3, <2>6, <2>7, <3>3
  <2>8. at \in Int
    BY <1>1, <2>4
  <2>9. periods[at + 1] = Max(reached)
    BY <2>4, <2>6
  <2> QED BY <2>4, <2>7, <2>8, <2>9 DEF at
<1> QED BY <1>4, <1>5

\* What is on the page while it is read.
ReadInv ==
  /\ store.window = Null \/ store.window \in MapWindows
  /\ DOMAIN hovered = Charts
  /\ touch # Null => ChartsShown(Doc) /\ touch.chart \in Charts /\ DOMAIN touch = {"chart", "scrubbing"}

LEMMA ReadStarts == Init => ReadInv
<1> SUFFICES ASSUME Init PROVE ReadInv
  OBVIOUS
<1>1. store.window = Null \/ store.window \in MapWindows
  <2>1. CASE store = InitStore
    BY <2>1 DEF InitStore
  <2>2. ASSUME NEW w \in MapWindows, store = setWindow([InitStore EXCEPT !.resolution = w.resolution], w)
        PROVE  store.window \in MapWindows
    BY <2>2 DEF InitStore, setWindow
  <2> QED BY <2>1, <2>2 DEF Init
<1> QED BY <1>1 DEF Init, ReadInv, Idle

\* The panel after its document became doc: nothing is held on a chart that is not there.
LEMMA ShowsKeeps ==
  ASSUME ReadInv, NEW doc, Shows(doc, Doc)
  PROVE  /\ DOMAIN hovered' = Charts
         /\ touch' # Null => ChartsShown(doc) /\ touch' = touch
<1>1. CASE ~ ChartsShown(doc)
  BY <1>1 DEF Shows, Idle
<1>2. CASE ChartsShown(doc) /\ doc = Doc
  BY <1>2 DEF Shows, ReadInv
<1>3. CASE ChartsShown(doc) /\ doc # Doc
  <2>1. touch' = touch \/ touch' = Null
    BY <1>3 DEF Shows
  <2>2. \E i : hovered' = [hovered EXCEPT !["mix"] = i]
    BY <1>3 DEF Shows
  <2> QED BY <1>3, <2>1, <2>2 DEF ReadInv
<1> QED BY <1>1, <1>2, <1>3

LEMMA ReadStep == PInv /\ ReadInv /\ [Next]_vars => ReadInv'
<1> SUFFICES ASSUME PInv, ReadInv, [Next]_vars PROVE ReadInv'
  OBVIOUS
<1>0. DOMAIN store = StoreFields
  BY DEF PInv, StoreInv
<1>1. ASSUME NEW s, s.window = store.window, Renders(s) PROVE ReadInv'
  <2>1. store' = s /\ answers' = answers /\ Shows(Data(KeyOf(s), answers), Doc)
    BY <1>1 DEF Renders, Doc
  <2>2. detail'.key = KeyOf(s)
    BY <1>1 DEF Renders
  <2>3. Doc' = Data(KeyOf(s), answers)
    BY <2>1, <2>2 DEF Doc, Data
  <2> QED BY <1>1, <2>1, <2>3, ShowsKeeps DEF ReadInv, ChartsShown
<1>2. CASE SelectZone \/ CloseZone \/ SetDetailWindow
  <2>1. PICK s : s.window = store.window /\ Renders(s)
    BY <1>0, <1>2 DEF SelectZone, CloseZone, SetDetailWindow, selectZone, setDetailWindow, StoreFields
  <2> QED BY <1>1, <2>1
<1>3. CASE Answer
  <2> DEFINE doc == Docs[detail.key[1]][detail.key[2]]
  <2>1. /\ answers' = [k \in DOMAIN answers \cup {detail.key} |-> IF k = detail.key THEN doc ELSE answers[k]]
        /\ Shows(doc, Doc) /\ detail' = [detail EXCEPT !.status = "idle"] /\ store' = store
    BY <1>3 DEF Answer, Doc
  <2>2. detail'.key = detail.key /\ detail.key # Null
    BY <1>3, <2>1 DEF PInv, DetailInv, Answer
  <2>3. Doc' = doc
    BY <2>1, <2>2 DEF Doc, Data
  <2> QED BY <2>1, <2>3, ShowsKeeps DEF ReadInv, ChartsShown
<1>4. CASE Fail
  <2>1. detail'.key = detail.key /\ UNCHANGED <<store, answers, hovered, touch>>
    BY <1>4 DEF Fail, PInv
  <2> QED BY <2>1 DEF ReadInv, Doc, Data, ChartsShown
<1>5. CASE MoveSlider
  <2>1. store'.window = store.window /\ UNCHANGED <<detail, answers, hovered, touch>>
    BY <1>0, <1>5 DEF MoveSlider, setCursor, StoreFields
  <2> QED BY <2>1 DEF ReadInv, Doc, Data, ChartsShown
<1>6. ASSUME NEW chart, NEW i, Reads(chart, i)
      PROVE  /\ store'.window = store.window /\ DOMAIN hovered' = Charts
             /\ UNCHANGED <<detail, answers>>
  BY <1>0, <1>6 DEF Reads, ScrubTo, setCursor, StoreFields, ReadInv
<1>7. CASE MousePress
  <2>1. PICK chart \in Drawn : \E i \in 0..(Len(Periods) - 1) :
          Reads(chart, i) /\ touch' = [chart |-> chart, scrubbing |-> TRUE]
    BY <1>7 DEF MousePress
  <2>2. ChartsShown(Doc) /\ chart \in Charts
    BY <2>1 DEF Drawn, Charts
  <2> QED BY <1>6, <2>1, <2>2 DEF ReadInv, Doc, Data, ChartsShown
<1>8. CASE PointerMove
  <2>1. PICK i : Reads(touch.chart, i)
    BY <1>8 DEF PointerMove
  <2>2. touch # Null /\ touch' = [touch EXCEPT !.scrubbing = TRUE]
    BY <1>8 DEF PointerMove
  <2>3. touch'.chart = touch.chart /\ DOMAIN touch' = DOMAIN touch
    BY <2>2 DEF ReadInv
  <2> QED BY <1>6, <2>1, <2>2, <2>3 DEF ReadInv, Doc, Data, ChartsShown
<1>9. CASE FingerPress
  <2>1. PICK chart \in Drawn : touch' = [chart |-> chart, scrubbing |-> FALSE]
    BY <1>9 DEF FingerPress
  <2>2. ChartsShown(Doc) /\ chart \in Charts
    BY <2>1 DEF Drawn, Charts
  <2> QED BY <1>9, <2>1, <2>2 DEF FingerPress, ReadInv, Doc, Data, ChartsShown
<1>10. CASE Release \/ MouseOver \/ UNCHANGED vars
  BY <1>10 DEF Release, MouseOver, vars, ReadInv, Doc, Data, ChartsShown
<1> QED BY <1>2, <1>3, <1>4, <1>5, <1>7, <1>8, <1>9, <1>10 DEF Next

\* A chart is read at one of its periods: the map goes where it can follow, and the other chart
\* with it.
LEMMA ScrubbedTogether ==
  ASSUME PInv, ReadInv, ChartsShown(Doc), NEW chart \in Charts, NEW i \in 0..(Len(Periods) - 1), Reads(chart, i)
  PROVE  LET touched == Periods[i + 1]
             reached == {p \in Range(MapPeriods) : p <= touched}
         IN  /\ S!At(Periods, hovered'[chart]) = touched /\ touched # Null
             /\ reached # {} => PeriodAtCursor(store') = Max(reached)
             /\ touched \in reached =>
                  \A c \in Charts : hovered'[c] = Null => Readout(c).period' = touched
<1> DEFINE touched == Periods[i + 1]
           reached == {p \in Range(MapPeriods) : p <= touched}
           at      == S!indexForPeriod(MapPeriods, touched)
<1>1. ArePeriods(Periods)
  <2>1. detail.key \in DOMAIN answers /\ Doc = answers[detail.key]
    BY DEF ChartsShown, Doc, Data
  <2> QED BY <2>1, PanelConstants DEF PInv, AnswersInv, Periods
<1>2. ArePeriods(MapPeriods)
  <2>1. CASE store.window = Null
    BY <2>1 DEF MapPeriods, ArePeriods
  <2>2. CASE store.window # Null
    BY <2>2, PanelConstants DEF MapPeriods, ReadInv
  <2> QED BY <2>1, <2>2
<1>3. i \in Int /\ i + 1 \in DOMAIN Periods /\ touched \in Int /\ touched # Null /\ i # Null
  BY <1>1, PanelConstants DEF ArePeriods
<1>4. /\ hovered' = [hovered EXCEPT ![chart] = i] /\ UNCHANGED <<detail, answers>>
      /\ store' = IF at = Null THEN store ELSE setCursor(store, at)
  BY DEF Reads, ScrubTo
<1>5. hovered'[chart] = i /\ DOMAIN hovered' = Charts
  BY <1>4 DEF ReadInv
<1>6. S!At(Periods, hovered'[chart]) = touched
  BY <1>3, <1>5 DEF S!At
<1>7. Periods' = Periods /\ DOMAIN store = StoreFields
  BY <1>4 DEF Periods, Doc, Data, PInv, StoreInv
<1> HIDE DEF touched
<1>8. ASSUME reached # {} PROVE PeriodAtCursor(store') = Max(reached)
  <2>1. at \in 0..(Len(MapPeriods) - 1) /\ MapPeriods[at + 1] = Max(reached)
    BY <1>2, <1>3, <1>8, IndexIsLast
  <2>2. Len(MapPeriods) \in Nat
    BY <1>2 DEF ArePeriods
  <2> HIDE DEF at, reached
  <2>3. at \in Int /\ at # Null /\ Len(MapPeriods) > 0 /\ at + 1 \in 1..Len(MapPeriods)
    BY <2>1, <2>2, PanelConstants
  <2>4. store.window # Null /\ MapPeriods = store.window.periods /\ Length(store) = Len(MapPeriods)
    BY <2>3 DEF MapPeriods, Length
  <2>5. clampCursor(at, Length(store)) = at
    <3>1. Max({at, 0}) = at
      <4>1. at >= 0 /\ 0 \in Int
        BY <2>1, <2>3
      <4>2. \A y \in {at, 0} : at >= y
        BY <2>3, <4>1
      <4>3. Max({at, 0}) \in {at, 0} /\ Max({at, 0}) >= at
        BY <4>2 DEF Max
      <4> QED BY <2>3, <4>1, <4>3
    <3>2. Min({at, Length(store) - 1}) = at
      <4>1. at <= Length(store) - 1 /\ Length(store) - 1 \in Int
        BY <2>1, <2>2, <2>3, <2>4
      <4>2. \A y \in {at, Length(store) - 1} : at <= y
        BY <2>3, <4>1
      <4>3. Min({at, Length(store) - 1}) \in {at, Length(store) - 1} /\ Min({at, Length(store) - 1}) <= at
            /\ Min({at, Length(store) - 1}) <= Length(store) - 1
        BY <4>2 DEF Min
      <4> QED BY <2>3, <4>1, <4>3
    <3>3. ~ (Length(store) = 0)
      BY <2>3, <2>4
    <3>4. clampCursor(at, Length(store)) = Min({Max({at, 0}), Length(store) - 1})
      BY <3>3 DEF clampCursor
    <3> QED BY <3>1, <3>2, <3>4
  <2>6. store'.window = store.window /\ store'.cursor = at
    BY <1>4, <1>7, <2>3, <2>5 DEF setCursor, StoreFields
  <2>7. Length(store') = Length(store)
    BY <2>6 DEF Length
  <2> QED BY <2>1, <2>3, <2>4, <2>6, <2>7 DEF PeriodAtCursor
<1>9. ASSUME touched \in reached, NEW c \in Charts, hovered'[c] = Null
      PROVE  Readout(c).period' = touched
  <2>1. Max(reached) = touched
    <3>1. PICK k \in DOMAIN MapPeriods : MapPeriods[k] = touched
      BY <1>9 DEF Range
    <3> QED BY <1>2, <1>3, <3>1, IndexIsLast
  <2>2. PeriodAtCursor(store') = touched
    BY <1>8, <1>9, <2>1
  <2>3. S!indexForPeriod(Periods, touched) = i
    <3>1. Periods[i + 1] = touched
      BY DEF touched
    <3>2. S!indexForPeriod(Periods, touched) = (i + 1) - 1
      BY <1>1, <1>3, <3>1, IndexIsLast
    <3> QED BY <1>3, <3>2
  <2>4. Shown(c)' = i
    BY <1>3, <1>7, <1>9, <2>2, <2>3 DEF Shown
  <2>5. S!At(Periods', Shown(c)') = touched
    BY <1>3, <1>7, <2>4 DEF S!At, touched
  <2>6. c = "mix" \/ c # "mix"
    OBVIOUS
  <2>7. CASE c = "mix"
    BY <2>5, <2>7 DEF Readout, MixReadout
  <2>8. CASE c # "mix"
    <3>1. c = "demand"
      BY <2>8 DEF Charts
    <3> QED BY <2>5, <3>1 DEF Readout, DemandReadout
  <2> QED BY <2>7, <2>8
<1> QED BY <1>3, <1>6, <1>8, <1>9 DEF touched

\* Whoever reads one chart takes the map to the newest of its periods that is not after the one
\* touched, and where that is the one touched a chart without a reading of its own to it,
\* whatever periods the three of them cover (DemandChart.tsx:96, :103).
THEOREM ScrubbingMovesBoth == Spec => ScrubMovesBoth
<1> DEFINE Together ==
      (MousePress \/ PointerMove) =>
         LET touched == S!At(Periods, hovered'[touch'.chart])
             reached == {p \in Range(MapPeriods) : p <= touched}
         IN  /\ touched # Null
             /\ reached # {} => PeriodAtCursor(store') = Max(reached)
             /\ touched \in reached =>
                  \A c \in Charts : hovered'[c] = Null => Readout(c).period' = touched
<1>1. PInv /\ ReadInv /\ [Next]_vars => [Together]_vars
  <2> SUFFICES ASSUME PInv, ReadInv, MousePress \/ PointerMove PROVE Together
    OBVIOUS
  <2>1. PICK chart \in Charts, i \in 0..(Len(Periods) - 1) :
          ChartsShown(Doc) /\ Reads(chart, i) /\ touch'.chart = chart
    <3>1. CASE MousePress
      <4>1. PICK chart \in Drawn, i \in 0..(Len(Periods) - 1) :
              Reads(chart, i) /\ touch' = [chart |-> chart, scrubbing |-> TRUE]
        BY <3>1 DEF MousePress
      <4>2. ChartsShown(Doc) /\ chart \in Charts
        BY <4>1 DEF Drawn, Charts
      <4> QED BY <4>1, <4>2
    <3>2. CASE PointerMove
      <4>1. touch # Null /\ touch' = [touch EXCEPT !.scrubbing = TRUE]
            /\ \E i \in 0..(Len(Periods) - 1) : Reads(touch.chart, i)
        BY <3>2 DEF PointerMove
      <4>2. touch'.chart = touch.chart
        BY <4>1 DEF ReadInv
      <4> QED BY <4>1, <4>2 DEF ReadInv
    <3> QED BY <3>1, <3>2
  <2>2. S!At(Periods, hovered'[touch'.chart]) = Periods[i + 1]
    BY <2>1, ScrubbedTogether
  <2> QED BY <2>1, <2>2, ScrubbedTogether
<1> QED BY <1>1, PanelStarts, PanelStep, ReadStarts, ReadStep, PTL DEF Spec, ScrubMovesBoth

-----------------------------------------------------------------------------
(* The mix chart's sums. *)

\* The panel's sums are sums.
LEMMA PanelSums ==
  ASSUME NEW f
  PROVE  S!SumFunction(f) = SumFunctionOnSet(f, DOMAIN f)
BY DEF S!SumFunction, S!SumFunctionOnSet, SumFunctionOnSet, S!FoldFunctionOnSet, FoldFunctionOnSet,
       S!MapThenFoldSet, MapThenFoldSet

\* A reading, or none.
Numbers == Int \cup {Null}

\* Each running total is the one before it and the next number, if there is one.
LEMMA TotalsGoOn ==
  ASSUME NEW values \in Seq(Numbers), Null \notin Int
  PROVE  LET total == S!RunningTotals(values)
         IN  /\ total[0] = Null
             /\ \A k \in 1..Len(values) :
                  total[k] = IF values[k] = Null THEN total[k - 1]
                             ELSE (IF total[k - 1] = Null THEN 0 ELSE total[k - 1]) + values[k]
<1> DEFINE n == Len(values)
           Goes(v, k) == IF values[k] = Null THEN v ELSE (IF v = Null THEN 0 ELSE v) + values[k]
           step == [p \in Numbers \X (1..n) |-> Goes(p[1], p[2])]
<1>1. n \in Nat /\ \A k \in 1..n : values[k] \in Numbers
  OBVIOUS
<1>2. \A v \in Numbers, k \in 1..n : Goes(v, k) \in Numbers
  BY <1>1 DEF Numbers
<1>3. \A v \in Numbers, k \in 1..n : step[<<v, k>>] = Goes(v, k)
  OBVIOUS
<1>4. Null \in Numbers
  BY DEF Numbers
<1>4a. CanStep(step, Numbers, n)
  BY <1>2, <1>3 DEF CanStep
<1>4b. n \in Nat
  BY <1>1
<1> HIDE DEF step, Goes, n
<1>5. PICK f : StepsThrough(f, Null, step, Numbers, n)
  BY ONLY <1>4, <1>4a, <1>4b, Iterates
<1>5a. f \in [0..n -> Numbers] /\ f[0] = Null /\ \A k \in 1..n : f[k] = step[<<f[k - 1], k>>]
  BY <1>5 DEF StepsThrough
<1>6. \A k \in 0..n : f[k] = IF k = 0 THEN Null ELSE Goes(f[k - 1], k)
  <2>1. \A k \in 0..n : k # 0 => k \in 1..n /\ f[k - 1] \in Numbers
    BY <1>1, <1>5a
  <2> QED BY <1>3, <1>5a, <2>1
<1> DEFINE IsTotal(g) == g = [k \in 0..n |-> IF k = 0 THEN Null
                                          ELSE IF values[k] = Null THEN g[k - 1]
                                          ELSE (IF g[k - 1] = Null THEN 0 ELSE g[k - 1]) + values[k]]
           total == CHOOSE g : IsTotal(g)
<1>7. IsTotal(f)
  <2>0. DOMAIN f = 0..n
    BY <1>5a
  <2>1. \A k \in 0..n : f[k] = IF k = 0 THEN Null
                               ELSE IF values[k] = Null THEN f[k - 1]
                               ELSE (IF f[k - 1] = Null THEN 0 ELSE f[k - 1]) + values[k]
    BY <1>6 DEF Goes
  <2>2. f = [k \in 0..n |-> f[k]]
    BY <1>5a
  <2> QED BY <2>1, <2>2
<1>8. IsTotal(total)
  <2> HIDE DEF IsTotal
  <2> QED BY <1>7
<1>9. S!RunningTotals(values) = total
  BY DEF S!RunningTotals, n
<1> HIDE DEF total
<1>10. \A k \in 0..n : total[k] = IF k = 0 THEN Null
                               ELSE IF values[k] = Null THEN total[k - 1]
                               ELSE (IF total[k - 1] = Null THEN 0 ELSE total[k - 1]) + values[k]
  BY <1>8
<1>11. 0 \in 0..n /\ \A k \in 1..n : k \in 0..n /\ k # 0
  BY <1>1
<1> QED BY <1>9, <1>10, <1>11 DEF n

\* Of some places, those where something was reported; and what it adds up to.
ReportedAt(values, ks) == {k \in ks : values[k] # Null}
TotalOf(values, ks) == IF ReportedAt(values, ks) = {} THEN Null ELSE SumFunctionOnSet(values, ReportedAt(values, ks))

\* A running total is the sum of what was reported so far, and nothing where nothing was.
LEMMA TotalsAreSums ==
  ASSUME NEW values \in Seq(Numbers), Null \notin Int
  PROVE  \A k \in 1..Len(values) : S!RunningTotals(values)[k] = TotalOf(values, 1..k)
<1> DEFINE n == Len(values)
           total == S!RunningTotals(values)
           P == {k \in 0..n : total[k] = TotalOf(values, 1..k)}
<1>1. n \in Nat /\ \A k \in 1..n : values[k] \in Numbers
  OBVIOUS
<1>2. total[0] = Null /\ \A k \in 1..n :
                  total[k] = IF values[k] = Null THEN total[k - 1]
                             ELSE (IF total[k - 1] = Null THEN 0 ELSE total[k - 1]) + values[k]
  BY TotalsGoOn
<1> HIDE DEF total
<1>3. 0 \in P
  <2>1. ReportedAt(values, 1..0) = {}
    BY DEF ReportedAt
  <2> QED BY <1>1, <1>2, <2>1 DEF TotalOf
<1>4. ASSUME NEW k \in 1..n, k - 1 \in P PROVE k \in P
  <2> DEFINE R == ReportedAt(values, 1..(k - 1))
             T == ReportedAt(values, 1..k)
  <2>1. total[k - 1] = TotalOf(values, 1..(k - 1))
    BY <1>4
  <2>2. /\ \A j \in R : j \in 1..n /\ values[j] \in Int
        /\ \A j \in T : j \in 1..n /\ values[j] \in Int
        /\ k \notin R /\ T = IF values[k] = Null THEN R ELSE R \cup {k}
    <3>1. 1..k = 1..(k - 1) \cup {k} /\ k \notin 1..(k - 1) /\ \A j \in 1..k : j \in 1..n
      OBVIOUS
    <3> QED BY <3>1, <1>1 DEF ReportedAt, Numbers
  <2>3. IsFiniteSet(R) /\ IsFiniteSet(T)
    <3>1. IsFiniteSet(1..n)
      BY <1>1, FS_Interval
    <3>2. R \in SUBSET (1..n) /\ T \in SUBSET (1..n)
      BY <2>2
    <3> QED BY <3>1, <3>2, FS_Subset
  <2>4. /\ total[k - 1] = IF R = {} THEN Null ELSE SumFunctionOnSet(values, R)
        /\ TotalOf(values, 1..k) = IF T = {} THEN Null ELSE SumFunctionOnSet(values, T)
    BY <2>1 DEF TotalOf
  <2> HIDE DEF R, T
  <2>5. CASE values[k] = Null
    BY <1>2, <2>2, <2>4, <2>5
  <2>6. CASE values[k] # Null
    <3>1. k \in T /\ T # {} /\ T \ {k} = R /\ values[k] \in Int
      BY <2>2, <2>6
    <3>2. /\ SumFunctionOnSet(values, T) = values[k] + SumFunctionOnSet(values, R)
          /\ SumFunctionOnSet(values, R) \in Int /\ (R = {} => SumFunctionOnSet(values, R) = 0)
      <4>1. \A j \in T : values[j] \in Int
        BY <2>2
      <4>2. \A j \in R : values[j] \in Int
        BY <2>2
      <4>3. \A j \in T : SumFunctionOnSet(values, T) = values[j] + SumFunctionOnSet(values, T \ {j})
        BY <2>3, <4>1, SumStep
      <4>4. /\ SumFunctionOnSet(values, R) \in Int
            /\ R = {} => SumFunctionOnSet(values, R) = 0
        BY <2>3, <4>2, SumStep
      <4> QED BY <3>1, <4>3, <4>4
    <3>3. total[k] = (IF total[k - 1] = Null THEN 0 ELSE total[k - 1]) + values[k]
      BY <1>2, <2>6
    <3>4. (IF total[k - 1] = Null THEN 0 ELSE total[k - 1]) = SumFunctionOnSet(values, R)
      BY <2>4, <3>2
    <3> QED BY <2>4, <3>1, <3>2, <3>3, <3>4
  <2> QED BY <2>5, <2>6
<1>5. \A k \in 0..n : k \in P
  <2> HIDE DEF P
  <2> QED BY <1>1, <1>3, <1>4, PlaceInduction
<1>6. \A k \in 1..n : k \in 0..n
  BY <1>1
<1> QED BY <1>5, <1>6 DEF total

-----------------------------------------------------------------------------
(* The mix chart. *)

\* A document's series: the periods, and what each mode of the mix reported in them.
IsSeries(series) ==
  /\ ArePeriods(series.period)
  /\ \A mode \in DOMAIN series.mix : AreReadings(series.mix[mode], series.period)

\* What a mode reported in a period, if it is one of the periods.
LEMMA ModeAtIs ==
  ASSUME NEW series, IsSeries(series), NEW mode, NEW i \in Int
  PROVE  /\ S!ModeAt(series, mode, i) \in Numbers
         /\ i \notin DOMAIN series.period => S!ModeAt(series, mode, i) = Null
<1>1. i - 1 # Null /\ i - 1 + 1 = i
  BY PanelConstants
<1>2. CASE mode \in DOMAIN series.mix
  <2> DEFINE values == series.mix[mode]
  <2>1. values \in Seq(Numbers) /\ Len(values) = Len(series.period) /\ series.period \in Seq(Int)
    BY <1>2 DEF IsSeries, AreReadings, ArePeriods, Numbers
  <2>2. DOMAIN values = DOMAIN series.period
    BY <2>1
  <2>3. S!ModeAt(series, mode, i) = IF i \in DOMAIN values THEN values[i] ELSE Null
    BY <1>1, <1>2 DEF S!ModeAt, S!At
  <2> HIDE DEF values
  <2>4. i \in DOMAIN values => values[i] \in Numbers
    BY <2>1
  <2> QED BY <2>2, <2>3, <2>4 DEF Numbers
<1>3. CASE mode \notin DOMAIN series.mix
  BY <1>3 DEF S!ModeAt, Numbers
<1> QED BY <1>2, <1>3

HasReported(series, mode) == \E i \in DOMAIN series.period : S!ModeAt(series, mode, i) # Null

\* The chart's modes are those that reported, each of them once.
LEMMA PresentIs ==
  ASSUME NEW series
  PROVE  LET present == S!Present(series)
         IN  /\ present \in Seq(STRING)
             /\ \A i, j \in DOMAIN present : present[i] = present[j] => i = j
             /\ \A mode \in Range(MIX_ORDER) : HasReported(series, mode) => \E k \in DOMAIN present : present[k] = mode
             /\ \A k \in DOMAIN present : HasReported(series, present[k])
<1> DEFINE n == Len(MIX_ORDER)
           Goes(v, k) == IF HasReported(series, MIX_ORDER[k]) THEN Append(v, MIX_ORDER[k]) ELSE v
           step == [p \in Seq(STRING) \X (1..n) |-> Goes(p[1], p[2])]
<1>1. n \in Nat /\ \A k \in 1..n : MIX_ORDER[k] \in STRING
  BY PanelConstants
<1>2. \A v \in Seq(STRING), k \in 1..n : Goes(v, k) \in Seq(STRING)
  <2> SUFFICES ASSUME NEW v \in Seq(STRING), NEW k \in 1..n PROVE Goes(v, k) \in Seq(STRING)
    OBVIOUS
  <2>1. MIX_ORDER[k] \in STRING
    BY <1>1
  <2>2. Append(v, MIX_ORDER[k]) \in Seq(STRING)
    BY <2>1
  <2> QED BY <2>2
<1>3. \A v \in Seq(STRING), k \in 1..n : step[<<v, k>>] = Goes(v, k)
  OBVIOUS
<1>4. <<>> \in Seq(STRING)
  OBVIOUS
<1>4a. CanStep(step, Seq(STRING), n)
  BY <1>2, <1>3 DEF CanStep
<1>4b. n \in Nat
  BY <1>1
<1> HIDE DEF step, Goes, n
<1>5. PICK f : StepsThrough(f, <<>>, step, Seq(STRING), n)
  BY ONLY <1>4, <1>4a, <1>4b, Iterates
<1>5a. f \in [0..n -> Seq(STRING)] /\ f[0] = <<>> /\ \A k \in 1..n : f[k] = step[<<f[k - 1], k>>]
  BY <1>5 DEF StepsThrough
<1>6. \A k \in 0..n : f[k] = IF k = 0 THEN <<>> ELSE Goes(f[k - 1], k)
  <2>1. \A k \in 0..n : k # 0 => k \in 1..n /\ f[k - 1] \in Seq(STRING)
    BY <1>1, <1>5a
  <2> QED BY <1>3, <1>5a, <2>1
<1> DEFINE IsAmong(g) == g = [k \in 0..n |-> IF k = 0 THEN <<>>
                                          ELSE IF HasReported(series, MIX_ORDER[k]) THEN Append(g[k - 1], MIX_ORDER[k])
                                          ELSE g[k - 1]]
           among == CHOOSE g : IsAmong(g)
<1>7. IsAmong(f)
  <2>1. \A k \in 0..n : f[k] = IF k = 0 THEN <<>>
                               ELSE IF HasReported(series, MIX_ORDER[k]) THEN Append(f[k - 1], MIX_ORDER[k])
                               ELSE f[k - 1]
    BY <1>6 DEF Goes
  <2>2. f = [k \in 0..n |-> f[k]]
    BY <1>5a
  <2> QED BY <2>1, <2>2
<1>8. IsAmong(among)
  <2> HIDE DEF IsAmong
  <2> QED BY <1>7
<1>9. S!Present(series) = among[n]
  BY DEF S!Present, n, HasReported
<1> HIDE DEF among
<1>10. \A k \in 0..n : among[k] = IF k = 0 THEN <<>>
                               ELSE IF HasReported(series, MIX_ORDER[k]) THEN Append(among[k - 1], MIX_ORDER[k])
                               ELSE among[k - 1]
  BY <1>8
<1> HIDE DEF IsAmong
<1> DEFINE Holds(v, k) ==
             /\ v \in Seq(STRING)
             /\ \A i, j \in DOMAIN v : v[i] = v[j] => i = j
             /\ \A j \in 1..k : HasReported(series, MIX_ORDER[j]) => \E i \in DOMAIN v : v[i] = MIX_ORDER[j]
             /\ \A i \in DOMAIN v : \E j \in 1..k : v[i] = MIX_ORDER[j] /\ HasReported(series, MIX_ORDER[j])
           P == {k \in 0..n : Holds(among[k], k)}
<1>11. 0 \in P
  <2>1. among[0] = <<>>
    BY <1>1, <1>10
  <2>2. Holds(<<>>, 0)
    OBVIOUS
  <2> HIDE DEF Holds
  <2> QED BY <1>1, <2>1, <2>2
<1>12. ASSUME NEW k \in 1..n, k - 1 \in P PROVE k \in P
  <2> DEFINE v == among[k - 1]
             w == among[k]
  <2>1. Holds(v, k - 1)
    BY <1>12
  <2>2. k \in Int /\ k \in 0..n /\ w = IF HasReported(series, MIX_ORDER[k]) THEN Append(v, MIX_ORDER[k]) ELSE v
    BY <1>10
  <2>3. \A j \in 1..k : j \in 1..(k - 1) \/ j = k
    OBVIOUS
  <2>4. \A j \in 1..(k - 1) : j \in 1..k /\ j # k /\ MIX_ORDER[j] # MIX_ORDER[k]
    BY <1>1, PanelConstants DEF n
  <2> HIDE DEF v, w
  <2>5. CASE ~ HasReported(series, MIX_ORDER[k])
    <3>1. w = v
      BY <2>2, <2>5
    <3>2. Holds(v, k)
      BY <2>1, <2>3, <2>4, <2>5
    <3> QED BY <2>2, <3>1, <3>2 DEF w
  <2>6. CASE HasReported(series, MIX_ORDER[k])
    <3> DEFINE m == Len(v)
    <3>1. /\ w = Append(v, MIX_ORDER[k]) /\ v \in Seq(STRING) /\ MIX_ORDER[k] \in STRING
          /\ m \in Nat /\ DOMAIN v = 1..m
      BY <1>1, <2>1, <2>2, <2>6
    <3>2. w \in Seq(STRING) /\ DOMAIN w = 1..(m + 1)
      BY <3>1
    <3>3. w[m + 1] = MIX_ORDER[k] /\ \A i \in 1..m : w[i] = v[i]
      BY <3>1
    <3>4. \A i \in 1..(m + 1) : i \in 1..m \/ i = m + 1
      BY <3>1
    <3>5. \A i \in 1..m : i \in 1..(m + 1) /\ w[i] # MIX_ORDER[k]
      BY <2>1, <2>4, <3>1, <3>3
    <3>6. \A i, j \in DOMAIN w : w[i] = w[j] => i = j
      <4> SUFFICES ASSUME NEW i \in 1..(m + 1), NEW j \in 1..(m + 1), w[i] = w[j] PROVE i = j
        BY <3>2
      <4> HIDE DEF m
      <4>1. CASE i \in 1..m /\ j \in 1..m
        BY <2>1, <3>1, <3>3, <4>1
      <4>2. CASE i = m + 1 \/ j = m + 1
        BY <3>3, <3>4, <3>5, <4>2
      <4> QED BY <3>4, <4>1, <4>2
    <3>7. \A j \in 1..k : HasReported(series, MIX_ORDER[j]) => \E i \in DOMAIN w : w[i] = MIX_ORDER[j]
      <4> SUFFICES ASSUME NEW j \in 1..k, HasReported(series, MIX_ORDER[j])
                   PROVE  \E i \in DOMAIN w : w[i] = MIX_ORDER[j]
        OBVIOUS
      <4>1. CASE j = k
        <5>1. m + 1 \in 1..(m + 1)
          BY <3>1
        <5> QED BY <3>2, <3>3, <4>1, <5>1
      <4>2. CASE j \in 1..(k - 1)
        <5>1. PICK i \in DOMAIN v : v[i] = MIX_ORDER[j]
          BY <2>1, <4>2
        <5> QED BY <3>1, <3>2, <3>3, <3>5, <5>1
      <4> QED BY <2>3, <4>1, <4>2
    <3>8. \A i \in DOMAIN w : \E j \in 1..k : w[i] = MIX_ORDER[j] /\ HasReported(series, MIX_ORDER[j])
      <4> SUFFICES ASSUME NEW i \in 1..(m + 1)
                   PROVE  \E j \in 1..k : w[i] = MIX_ORDER[j] /\ HasReported(series, MIX_ORDER[j])
        BY <3>2
      <4>0. k \in 1..k
        BY <2>2
      <4>1. CASE i = m + 1
        BY <2>6, <3>3, <4>0, <4>1
      <4>2. CASE i \in 1..m
        <5>1. PICK j \in 1..(k - 1) : v[i] = MIX_ORDER[j] /\ HasReported(series, MIX_ORDER[j])
          BY <2>1, <3>1, <4>2
        <5>2. j \in 1..k
          BY <2>4
        <5> QED BY <3>3, <4>2, <5>1, <5>2
      <4> QED BY <3>4, <4>1, <4>2
    <3>9. Holds(w, k)
      BY <3>2, <3>6, <3>7, <3>8
    <3> QED BY <2>2, <3>9 DEF w
  <2> QED BY <2>5, <2>6
<1>13. Holds(among[n], n)
  <2> HIDE DEF Holds, P
  <2>1. \A k \in 0..n : k \in P
    BY <1>1, <1>11, <1>12, PlaceInduction
  <2>2. n \in P
    BY <1>1, <2>1
  <2> QED BY <2>2 DEF P
<1>14. \A mode \in Range(MIX_ORDER) : \E j \in 1..n : mode = MIX_ORDER[j]
  BY <1>1, PanelConstants DEF Range, n
<1> QED BY <1>9, <1>13, <1>14

\* The bands of the chart, the last mode's in the second row of its data, are the running totals.
LEMMA MixIs ==
  ASSUME NEW series, S!buildMixData(series).seriesColours # <<>>
  PROVE  LET mix     == S!buildMixData(series)
             present == S!Present(series)
             hours   == DOMAIN series.period
             n       == Len(present)
         IN  /\ mix.modes = present
             /\ DOMAIN mix.raw = DOMAIN present
             /\ \A k \in DOMAIN present : mix.raw[k] = [i \in hours |-> S!ModeAt(series, present[k], i)]
             /\ \A i \in hours, k \in DOMAIN present : mix.data[n + 2 - k][i] =
                  S!RunningTotals([j \in DOMAIN present |-> S!ModeAt(series, present[j], i)])[k]
<1> DEFINE mix     == S!buildMixData(series)
           present == S!Present(series)
           hours   == DOMAIN series.period
           n       == Len(present)
           totals  == [i \in hours |-> S!RunningTotals([k \in DOMAIN present |-> S!ModeAt(series, present[k], i)])]
           bands   == [k \in DOMAIN present |-> [i \in hours |-> totals[i][k]]]
<1>1. /\ mix.modes = present /\ mix.seriesColours = S!Reverse(present)
      /\ mix.raw = [k \in DOMAIN present |-> [i \in hours |-> S!ModeAt(series, present[k], i)]]
      /\ mix.data = <<series.period>> \o S!Reverse(bands)
  BY DEF S!buildMixData
<1>2. present \in Seq(STRING)
  BY PresentIs
<1> HIDE DEF mix, present
<1>3. n \in Nat /\ DOMAIN present = 1..n
  BY <1>2
<1>4. n # 0
  <2>1. ASSUME n = 0 PROVE FALSE
    <3>1. present = <<>>
      BY <1>2, <2>1
    <3>2. S!Reverse(present) = <<>>
      BY <3>1 DEF S!Reverse
    <3> QED BY <1>1, <3>2 DEF mix
  <2> QED BY <2>1
<1> HIDE DEF totals
<1>6. Len(bands) = n /\ \A k \in 1..n : bands[k] = [i \in hours |-> totals[i][k]]
  <2>1. bands \in [1..n -> {[i \in hours |-> totals[i][k]] : k \in 1..n}]
    BY <1>3
  <2>2. DOMAIN bands = 1..n
    BY <1>3
  <2> QED BY <1>3, <2>1, <2>2
<1> HIDE DEF bands
<1>7. S!Reverse(bands) = [i \in 1..n |-> bands[(n - i) + 1]]
  BY <1>6 DEF S!Reverse
<1> DEFINE turned == [i \in 1..n |-> bands[(n - i) + 1]]
<1>8. /\ \A k \in 1..n : turned[n + 1 - k] = bands[k]
      /\ Len(turned) = n /\ turned \in Seq({bands[k] : k \in 1..n})
  <2>1. \A k \in 1..n : n + 1 - k \in 1..n /\ (n - (n + 1 - k)) + 1 = k
    BY <1>3
  <2>2. \A i \in 1..n : (n - i) + 1 \in 1..n
    BY <1>3
  <2> QED BY <1>3, <2>1, <2>2
<1> HIDE DEF turned
<1>9. \A k \in 1..n : (<<series.period>> \o turned)[n + 2 - k] = turned[n + 1 - k]
  <2>1. PICK axis, tail, m : axis = series.period /\ tail = turned /\ m = n
    OBVIOUS
  <2>2. tail \in Seq({bands[k] : k \in 1..n}) /\ Len(tail) = m /\ m \in Nat
    BY <2>1, <1>3, <1>8
  <2>3. ASSUME NEW j \in 2..(1 + m) PROVE (<<axis>> \o tail)[j] = tail[j - 1]
    BY ONLY <2>2, <2>3
  <2>4. \A k \in 1..m : m + 2 - k \in 2..(1 + m) /\ (m + 2 - k) - 1 = m + 1 - k
    BY <2>2
  <2> QED BY <2>1, <2>3, <2>4
<1>10. \A k \in 1..n : mix.data[n + 2 - k] = bands[k]
  BY <1>1, <1>7, <1>8, <1>9 DEF turned
<1>11. \A i \in hours, k \in 1..n : mix.data[n + 2 - k][i] = totals[i][k]
  <2> SUFFICES ASSUME NEW i \in hours, NEW k \in 1..n PROVE mix.data[n + 2 - k][i] = totals[i][k]
    OBVIOUS
  <2>1. mix.data[n + 2 - k] = bands[k]
    BY <1>10
  <2>2. bands[k] = [j \in hours |-> totals[j][k]]
    BY <1>6
  <2> QED BY <2>1, <2>2
<1> QED BY <1>1, <1>3, <1>11 DEF totals, mix, present

-----------------------------------------------------------------------------
(* Where the readout reads. *)

\* Charts are drawn of a document that has them, and read at an index.
PlotInv ==
  /\ hovered["mix"] \in Int \cup {Null}
  /\ plot # Null => ChartsShown(Doc) /\ Mix(Doc).seriesColours # <<>>

LEMMA PlotStarts == Init => PlotInv
  BY DEF Init, PlotInv, Idle, Charts

LEMMA ShowsDraws ==
  ASSUME ReadInv, PlotInv, NEW doc, doc # Null => ArePeriods(doc.series.period), Shows(doc, Doc)
  PROVE  /\ hovered'["mix"] \in Int \cup {Null}
         /\ plot' # Null => ChartsShown(doc) /\ Mix(doc).seriesColours # <<>>
<1>1. CASE ~ ChartsShown(doc)
  BY <1>1 DEF Shows, Idle, Charts
<1>2. CASE ChartsShown(doc) /\ doc = Doc
  BY <1>2 DEF Shows, PlotInv
<1>3. CASE ChartsShown(doc) /\ doc # Doc
  <2>1. plot' = Rebuilt(doc)
    BY <1>3 DEF Shows
  <2>2. plot' # Null => Mix(doc).seriesColours # <<>>
    BY <2>1 DEF Rebuilt
  <2>3. PICK i \in {hovered["mix"], Null} \cup 0..(Len(doc.series.period) - 1) :
          hovered' = [hovered EXCEPT !["mix"] = IF plot # Null /\ plot' = plot THEN i ELSE @]
    BY <1>3 DEF Shows
  <2>4. i \in Int \cup {Null}
    BY <1>3, <2>3 DEF PlotInv, ChartsShown, ArePeriods
  <2>5. hovered'["mix"] = i \/ hovered'["mix"] = hovered["mix"]
    BY <2>3 DEF ReadInv, Charts
  <2> QED BY <1>3, <2>2, <2>4, <2>5 DEF PlotInv
<1> QED BY <1>1, <1>2, <1>3

LEMMA DocsHavePeriods ==
  ASSUME PInv, Doc # Null
  PROVE  IsSeries(Doc.series)
<1>1. detail.key \in DOMAIN answers /\ Doc = answers[detail.key]
  BY DEF Doc, Data
<1> QED BY <1>1, PanelConstants DEF PInv, AnswersInv, IsSeries

LEMMA PlotStep == PInv /\ PInv' /\ ReadInv /\ PlotInv /\ [Next]_vars => PlotInv'
<1> SUFFICES ASSUME PInv, PInv', ReadInv, PlotInv, [Next]_vars PROVE PlotInv'
  OBVIOUS
<1>0. Doc' # Null => ArePeriods(Doc'.series.period)
  <2> SUFFICES ASSUME Doc' # Null PROVE ArePeriods(Doc'.series.period)
    OBVIOUS
  <2>1. detail'.key \in DOMAIN answers' /\ Doc' = answers'[detail'.key]
    BY DEF Doc, Data
  <2> QED BY <2>1, PanelConstants DEF PInv, AnswersInv
<1>1. ASSUME Shows(Doc', Doc) PROVE PlotInv'
  BY <1>0, <1>1, ShowsDraws DEF PlotInv, ChartsShown, Mix
<1>2. CASE SelectZone \/ CloseZone \/ SetDetailWindow
  <2>1. PICK s : Renders(s)
    BY <1>2 DEF SelectZone, CloseZone, SetDetailWindow
  <2>2. Doc' = Data(KeyOf(s), answers) /\ Shows(Data(KeyOf(s), answers), Doc)
    BY <2>1 DEF Renders, Doc, Data
  <2> QED BY <1>1, <2>2
<1>3. CASE Answer
  <2> DEFINE doc == Docs[detail.key[1]][detail.key[2]]
  <2>1. /\ answers' = [k \in DOMAIN answers \cup {detail.key} |-> IF k = detail.key THEN doc ELSE answers[k]]
        /\ Shows(doc, Doc) /\ detail' = [detail EXCEPT !.status = "idle"]
    BY <1>3 DEF Answer, Doc
  <2>2. detail'.key = detail.key /\ detail.key # Null
    BY <1>3, <2>1 DEF PInv, DetailInv, Answer
  <2>3. Doc' = doc
    BY <2>1, <2>2 DEF Doc, Data
  <2> QED BY <1>1, <2>1, <2>3
<1>4. CASE UNCHANGED <<detail, answers, hovered, plot>>
  BY <1>4 DEF PlotInv, Doc, Data, ChartsShown, Mix
<1>5. CASE Fail
  <2>1. detail'.key = detail.key /\ UNCHANGED <<answers, hovered, plot>>
    BY <1>5 DEF Fail, PInv
  <2> QED BY <2>1 DEF PlotInv, Doc, Data, ChartsShown, Mix
<1>6. ASSUME NEW chart, NEW i \in Int, Reads(chart, i) PROVE PlotInv'
  <2>1. hovered' = [hovered EXCEPT ![chart] = i] /\ UNCHANGED <<detail, answers, plot>>
    BY <1>6 DEF Reads, ScrubTo
  <2>2. hovered'["mix"] = i \/ hovered'["mix"] = hovered["mix"]
    BY <2>1 DEF ReadInv, Charts
  <2> QED BY <2>1, <2>2 DEF PlotInv, Doc, Data, ChartsShown, Mix
<1>7. ASSUME ChartsShown(Doc) PROVE Len(Periods) \in Nat
  BY <1>7, DocsHavePeriods DEF ChartsShown, IsSeries, ArePeriods, Periods
<1>8. CASE MousePress
  <2>1. PICK chart \in Drawn, i \in 0..(Len(Periods) - 1) : Reads(chart, i)
    BY <1>8 DEF MousePress
  <2>2. i \in Int
    BY <1>7, <2>1 DEF Drawn
  <2> QED BY <1>6, <2>1, <2>2
<1>9. CASE PointerMove
  <2>1. PICK i \in 0..(Len(Periods) - 1) : Reads(touch.chart, i)
    BY <1>9 DEF PointerMove
  <2>2. i \in Int
    BY <1>7, <1>9, <2>1 DEF ReadInv, PointerMove
  <2> QED BY <1>6, <2>1, <2>2
<1>10. CASE MouseOver
  <2>1. PICK i \in 0..(Len(Periods) - 1) \cup {Null} : hovered' = [hovered EXCEPT !["mix"] = i]
    BY <1>10 DEF MouseOver
  <2>2. i \in Int \cup {Null}
    BY <1>7, <1>10, <2>1 DEF Drawn, MouseOver
  <2>3. hovered'["mix"] = i /\ UNCHANGED <<detail, answers, plot>>
    BY <1>10, <2>1 DEF ReadInv, Charts, MouseOver
  <2> QED BY <2>2, <2>3 DEF PlotInv, Doc, Data, ChartsShown, Mix
<1> QED BY <1>2, <1>3, <1>4, <1>5, <1>8, <1>9, <1>10 DEF Next, MoveSlider, FingerPress, Release, vars

\* The readout describes one index, if not always one of the chart's.
LEMMA ShownIsAnIndex ==
  ASSUME PInv, ReadInv, PlotInv, ChartsShown(Doc)
  PROVE  Shown("mix") \in Int
<1> DEFINE followed == S!indexForPeriod(Periods, PeriodAtCursor(store))
<1>1. ArePeriods(Periods) /\ Len(Periods) \in Nat
  BY DocsHavePeriods DEF ChartsShown, IsSeries, Periods, ArePeriods
<1>2. PeriodAtCursor(store) \in Int \cup {Null}
  <2>1. CASE store.window = Null
    BY <2>1 DEF PeriodAtCursor, Length
  <2>2. CASE store.window # Null
    <3>1. store.window.periods \in Seq(Int)
      BY <2>2, PanelConstants DEF ReadInv, ArePeriods
    <3>2. store.cursor + 1 \in 1..Length(store) => store.window.periods[store.cursor + 1] \in Int
      BY <2>2, <3>1 DEF Length
    <3> QED BY <3>2 DEF PeriodAtCursor
  <2> QED BY <2>1, <2>2
<1>3. followed \in Int \cup {Null}
  <2>1. CASE PeriodAtCursor(store) = Null
    BY <2>1 DEF S!indexForPeriod
  <2>2. CASE PeriodAtCursor(store) \in Int
    BY <1>1, <2>2, IndexIsLast
  <2> QED BY <1>2, <2>1, <2>2
<1>4. Newest("mix") \in Int
  <2> DEFINE n        == Len(Periods)
             bands    == {Mix(Doc).raw[k] : k \in DOMAIN Mix(Doc).raw}
             reported == {i \in 1..n : \E s \in bands : S!At(s, i - 1) # Null}
  <2>1. Newest("mix") = IF reported = {} THEN S!Max({n - 1, 0}) ELSE S!Max(reported) - 1
    BY DEF Newest, S!newestWith
  <2>2. \A A : S!Max(A) = Max(A)
    BY DEF S!Max, Max
  <2>3. ASSUME NEW A \in SUBSET Int, IsFiniteSet(A), A # {} PROVE Max(A) \in Int
    <3>1. \E x \in A : \A y \in A : x >= y
      BY <2>3, FiniteHasEnds
    <3> QED BY <3>1 DEF Max
  <2>4. n - 1 \in Int /\ 0 \in Int
    BY <1>1
  <2>5. Max({n - 1, 0}) \in Int
    <3>1. PICK x \in {n - 1, 0} : \A y \in {n - 1, 0} : x >= y
      <4>1. n - 1 >= 0 \/ 0 >= n - 1
        BY <2>4
      <4> QED BY <2>4, <4>1
    <3> QED BY <2>4, <3>1 DEF Max
  <2>6. ASSUME reported # {} PROVE Max(reported) \in Int
    <3>1. IsFiniteSet(1..n) /\ reported \subseteq 1..n /\ reported \in SUBSET Int
      <4>1. 1 \in Int /\ n \in Int
        BY <1>1
      <4> QED BY <4>1, FS_Interval
    <3>2. IsFiniteSet(reported)
      BY <3>1, FS_Subset
    <3> HIDE DEF reported
    <3> QED BY <2>3, <2>6, <3>1, <3>2
  <2> HIDE DEF reported, n
  <2> QED BY <2>1, <2>2, <2>5, <2>6
<1>5. Shown("mix") = IF hovered["mix"] # Null THEN hovered["mix"]
                     ELSE IF followed # Null THEN followed ELSE Newest("mix")
  BY DEF Shown
<1> HIDE DEF followed
<1> QED BY <1>3, <1>4, <1>5 DEF PlotInv

\* What the readout calls storage is what its storage modes add up to.
LEMMA StorageIsTheirSum ==
  ASSUME NEW series, IsSeries(series), NEW index \in Int, NEW values,
         LET present == S!Present(series)
         IN  values = [k \in DOMAIN present |-> S!ModeAt(series, present[k], index + 1)]
  PROVE  S!netStorage(series, index) = TotalOf(values, {k \in DOMAIN S!Present(series) : S!Present(series)[k] \in STORAGE_MODES})
<1> DEFINE present  == S!Present(series)
           storage  == {k \in DOMAIN present : present[k] \in STORAGE_MODES}
           A        == ReportedAt(values, storage)
           reported == {mode \in STORAGE_MODES : S!ModeAt(series, mode, index + 1) # Null}
           f        == [mode \in reported |-> S!ModeAt(series, mode, index + 1)]
<1>1. /\ present \in Seq(STRING)
      /\ \A i, j \in DOMAIN present : present[i] = present[j] => i = j
      /\ \A mode \in Range(MIX_ORDER) : HasReported(series, mode) => \E k \in DOMAIN present : present[k] = mode
  BY PresentIs
<1> HIDE DEF present
<1>2. \A k \in A : /\ k \in DOMAIN present /\ present[k] \in reported
                   /\ values[k] = f[present[k]] /\ values[k] \in Int
  <2> SUFFICES ASSUME NEW k \in A
               PROVE  /\ k \in DOMAIN present /\ present[k] \in reported
                      /\ values[k] = f[present[k]] /\ values[k] \in Int
    OBVIOUS
  <2>1. k \in DOMAIN present /\ present[k] \in STORAGE_MODES /\ values[k] # Null
    BY DEF ReportedAt
  <2>2. values[k] = S!ModeAt(series, present[k], index + 1)
    BY <2>1 DEF present
  <2>3. present[k] \in reported
    BY <2>1, <2>2
  <2>4. index + 1 \in Int
    OBVIOUS
  <2>5. values[k] \in Int
    BY <2>1, <2>2, <2>4, ModeAtIs DEF Numbers
  <2> QED BY <2>1, <2>2, <2>3, <2>5
<1>3. ASSUME NEW mode \in reported PROVE \E k \in A : present[k] = mode
  <2>1. mode \in STORAGE_MODES /\ S!ModeAt(series, mode, index + 1) # Null /\ index + 1 \in Int
    OBVIOUS
  <2>2. index + 1 \in DOMAIN series.period
    BY <2>1, ModeAtIs
  <2>3. HasReported(series, mode) /\ mode \in Range(MIX_ORDER)
    BY <2>1, <2>2, PanelConstants DEF HasReported
  <2>4. PICK k \in DOMAIN present : present[k] = mode
    BY <1>1, <2>3
  <2>5. values[k] = S!ModeAt(series, mode, index + 1)
    BY <2>4 DEF present
  <2>6. k \in A
    BY <2>1, <2>4, <2>5 DEF ReportedAt
  <2> QED BY <2>4, <2>6
<1>4. {present[k] : k \in A} = reported
  BY <1>2, <1>3
<1>5. IsFiniteSet(A)
  <2>1. Len(present) \in Nat /\ DOMAIN present = 1..Len(present)
    BY <1>1
  <2>2. 1 \in Int /\ Len(present) \in Int
    BY <2>1
  <2>3. IsFiniteSet(DOMAIN present)
    BY <2>1, <2>2, FS_Interval
  <2>4. A \in SUBSET DOMAIN present
    BY <1>2
  <2> QED BY <2>3, <2>4, FS_Subset
<1>6. SumFunctionOnSet(values, A) = SumFunctionOnSet(f, {present[k] : k \in A})
  <2>0. PICK B, g, ff : B = A /\ g = present /\ ff = f
    OBVIOUS
  <2>1. IsFiniteSet(B)
    BY <1>5, <2>0
  <2>2. \A x, y \in B : g[x] = g[y] => x = y
    BY <1>1, <1>2, <2>0
  <2>3. \A x \in B : ff[g[x]] \in Int
    <3> HIDE DEF A, f
    <3> QED BY <1>2, <2>0
  <2>4. \A x \in B : values[x] = ff[g[x]]
    <3> HIDE DEF A, f
    <3> QED BY <1>2, <2>0
  <2>5. SumFunctionOnSet(values, B) = SumFunctionOnSet(ff, {g[x] : x \in B})
    BY ONLY <2>1, <2>2, <2>3, <2>4, SumReindexed
  <2> QED BY <2>0, <2>5
<1>7. S!SumFunction(f) = SumFunctionOnSet(f, reported)
  <2>1. S!SumFunction(f) = SumFunctionOnSet(f, DOMAIN f)
    BY PanelSums
  <2> QED BY <2>1
<1>8. S!netStorage(series, index) = IF reported = {} THEN Null ELSE S!SumFunction(f)
  BY DEF S!netStorage
<1>9. reported = {} <=> A = {}
  BY <1>4
<1>10. TotalOf(values, storage) = IF A = {} THEN Null ELSE SumFunctionOnSet(values, A)
  BY DEF TotalOf
<1> HIDE DEF A, f, reported
<1>11. S!netStorage(series, index) = TotalOf(values, storage)
  BY <1>4, <1>6, <1>7, <1>8, <1>9, <1>10
<1> QED BY <1>11 DEF present

\* In every period each band of the mix chart is what its mode and those before it add up to, a gap
\* if none of them reported, and what the readout calls storage is what its storage modes add up
\* to, whatever gaps the modes have and wherever a chart or the slider is read (series.ts:127, :211).
THEOREM StackIsFaithful == Spec => []StackIsTheReadings
<1>1. ASSUME PInv, ReadInv, PlotInv, ChartsShown(Doc), plot # Null PROVE StackIsTheReadings
  <2> DEFINE series  == Doc.series
             mix     == Mix(Doc)
             present == S!Present(series)
             readout == MixReadout
             Total(values, ks) == LET reported == {k \in ks : values[k] # Null}
                                  IN  IF reported = {} THEN Null ELSE SumFunctionOnSet(values, reported)
             Row(i) == [k \in DOMAIN present |-> S!ModeAt(series, present[k], i)]
  <2>1. IsSeries(series) /\ Periods = series.period
    BY <1>1, DocsHavePeriods DEF ChartsShown, Periods
  <2>2. /\ mix.modes = present /\ DOMAIN mix.raw = DOMAIN present
        /\ \A k \in DOMAIN present : mix.raw[k] = [i \in DOMAIN Periods |-> S!ModeAt(series, present[k], i)]
        /\ \A i \in DOMAIN Periods, k \in DOMAIN present :
             mix.data[Len(present) + 2 - k][i] = S!RunningTotals(Row(i))[k]
    <3>1. S!buildMixData(series).seriesColours # <<>>
      BY <1>1 DEF PlotInv, Mix
    <3> QED BY <2>1, <3>1, MixIs DEF Mix
  <2>3. present \in Seq(STRING) /\ Len(present) \in Nat /\ DOMAIN present = 1..Len(present)
    <3>1. present \in Seq(STRING)
      BY PresentIs
    <3> HIDE DEF present
    <3> QED BY <3>1
  <2>4. DOMAIN Periods \subseteq Int
    BY <2>1 DEF IsSeries, ArePeriods
  <2> HIDE DEF mix, present, series
  <2>5. ASSUME NEW i \in DOMAIN Periods, NEW m \in DOMAIN present
        PROVE  mix.data[Len(present) + 2 - m][i] = Total([k \in DOMAIN present |-> mix.raw[k][i]], 1..m)
    <3>1. [k \in DOMAIN present |-> mix.raw[k][i]] = Row(i)
      <4>1. \A k \in DOMAIN present : mix.raw[k][i] = S!ModeAt(series, present[k], i)
        <5> SUFFICES ASSUME NEW k \in DOMAIN present PROVE mix.raw[k][i] = S!ModeAt(series, present[k], i)
          OBVIOUS
        <5>1. mix.raw[k] = [j \in DOMAIN Periods |-> S!ModeAt(series, present[k], j)]
          BY <2>2
        <5> QED BY <5>1
      <4> QED BY <4>1
    <3>2. Row(i) \in Seq(Numbers) /\ Len(Row(i)) = Len(present)
      <4>1. \A k \in 1..Len(present) : S!ModeAt(series, present[k], i) \in Numbers
        BY <2>1, <2>4, ModeAtIs
      <4> QED BY <2>3, <4>1
    <3>3. \A values : Total(values, 1..m) = TotalOf(values, 1..m)
      BY DEF TotalOf, ReportedAt
    <3> HIDE DEF Row, Total
    <3>4. S!RunningTotals(Row(i))[m] = TotalOf(Row(i), 1..m)
      <4>1. Null \notin Int
        BY PanelConstants
      <4> QED BY <2>3, <3>2, <4>1, TotalsAreSums
    <3>5. mix.data[Len(present) + 2 - m][i] = S!RunningTotals(Row(i))[m]
      BY <2>2
    <3> QED BY <3>1, <3>3, <3>4, <3>5
  <2>6. readout.storage = Total(readout.values, {k \in DOMAIN present : mix.modes[k] \in STORAGE_MODES})
    <3> DEFINE at      == Shown("mix")
               storage == {k \in DOMAIN present : present[k] \in STORAGE_MODES}
    <3>1. at \in Int /\ at # Null /\ at + 1 \in Int
      BY <1>1, ShownIsAnIndex, PanelConstants
    <3>2. /\ readout.storage = S!netStorage(series, at)
          /\ readout.values = [k \in DOMAIN present |-> S!At(mix.raw[k], at)]
      BY <2>2 DEF MixReadout, series, mix
    <3> HIDE DEF at, readout
    <3>3. ASSUME NEW k \in DOMAIN present PROVE S!At(mix.raw[k], at) = S!ModeAt(series, present[k], at + 1)
      <4>1. mix.raw[k] = [i \in DOMAIN Periods |-> S!ModeAt(series, present[k], i)]
        BY <2>2
      <4>2. S!At(mix.raw[k], at) = IF at + 1 \in DOMAIN Periods THEN S!ModeAt(series, present[k], at + 1) ELSE Null
        BY <3>1, <4>1 DEF S!At
      <4> QED BY <2>1, <3>1, <4>2, ModeAtIs
    <3>4. readout.values = [k \in DOMAIN present |-> S!ModeAt(series, present[k], at + 1)]
      BY <3>2, <3>3
    <3>5. S!netStorage(series, at) = TotalOf(readout.values, storage)
      BY <2>1, <3>1, <3>4, StorageIsTheirSum DEF present
    <3>6. \A values, ks : Total(values, ks) = TotalOf(values, ks)
      BY DEF TotalOf, ReportedAt
    <3>7. {k \in DOMAIN present : mix.modes[k] \in STORAGE_MODES} = storage
      BY <2>2
    <3> HIDE DEF Total, storage
    <3> QED BY <3>2, <3>5, <3>6, <3>7
  <2>7. DOMAIN mix.modes = DOMAIN present /\ Len(mix.modes) = Len(present)
    BY <2>2
  <2>8. /\ \A i \in DOMAIN Periods, m \in DOMAIN mix.modes :
             mix.data[Len(mix.modes) + 2 - m][i] = Total([k \in DOMAIN mix.modes |-> mix.raw[k][i]], 1..m)
        /\ readout.storage = Total(readout.values, {k \in DOMAIN mix.modes : mix.modes[k] \in STORAGE_MODES})
    <3> HIDE DEF Total, readout
    <3> QED BY <2>5, <2>6, <2>7
  <2> QED BY <2>8 DEF StackIsTheReadings, mix
<1>2. PInv /\ ReadInv /\ PlotInv => StackIsTheReadings
  BY <1>1 DEF StackIsTheReadings
<1> QED BY <1>2, PanelStarts, PanelStep, ReadStarts, ReadStep, PlotStarts, PlotStep, PTL DEF Spec
=============================================================================
