----------------------------- MODULE MapAppProofs -----------------------------
(***************************************************************************)
(* What the map page shows, for any zones, tables, resolutions and hours,   *)
(* and any order of events: the window on screen is the one of the          *)
(* controls, the slider names the period the map is painted with, the map   *)
(* shows what is stored for it of each zone the window names, and every     *)
(* request is one the API accepts.                                          *)
(*                                                                         *)
(* None of these is inductive alone: a render may take a window from the    *)
(* query library's answers, so each of these has to be one the API gives    *)
(* for the key it is kept under; and the map is repainted only by the       *)
(* effects whose dependencies changed, so what is painted has to be that of *)
(* the store's metric, cursor and window between any two of them.           *)
(***************************************************************************)
EXTENDS MapApp, DataProofs

StoreFields == {"metric", "selectedZone", "hoveredZone", "cursor", "playing", "window",
                "detailWindow", "resolution", "statistic"}
ViewFields  == {"ready", "painted", "value", "selected", "hovered", "fill"}

\* A window the API gives for a resolution and a statistic, in some hour.
FromServer(window, resolution, statistic) ==
  \E t \in Hours : window \in Server(<<resolution, statistic, t>>)

StoreInv(s) ==
  /\ DOMAIN s = StoreFields
  /\ s.resolution \in Resolutions /\ s.statistic \in Statistics /\ s.metric \in DOMAIN M!METRICS
  /\ s.cursor \in Nat
  /\ s.window # Null => /\ FromServer(s.window, s.resolution, s.statistic)
                        /\ s.cursor = 0 \/ s.cursor < Len(s.window.periods)

AnswersInv(c) == \A k \in DOMAIN c : k \in Keys /\ c[k] \in Server(k)

QueryInv == DOMAIN query = {"key", "data", "status"} /\ query.key \in Keys

\* The map v is painted for the store s.
ViewInv(s, v) ==
  /\ DOMAIN v = ViewFields /\ DOMAIN v.value = Zones
  /\ v.ready /\ s.window # Null =>
       /\ v.fill = M!fillColourExpression(s.metric, valuesAcrossWindow(s.window, Position(s)))
       /\ \A z \in Zones \cap DOMAIN s.window.zones :
            v.value[z] = valuesAtCursor(s.window, s.cursor, Position(s))[z]
  /\ \A z \in Zones : v.value[z] = Null \/ WasStored(z, v.value[z])

\* The inductive invariant.
PageInv == now \in Hours /\ StoreInv(store) /\ AnswersInv(answers) /\ QueryInv /\ ViewInv(store, view)

-----------------------------------------------------------------------------
(* Least and greatest elements.                                            *)

\* A finite set of numbers has a greatest element, and Max is it.
LEMMA MaxOf ==
  ASSUME NEW T \in SUBSET Int, IsFiniteSet(T), T # {}
  PROVE  Max(T) \in T /\ \A y \in T : Max(T) >= y
BY FiniteHasEnds DEF Max

\* A finite set of numbers has a least element, and Min is it.
LEMMA MinOf ==
  ASSUME NEW T \in SUBSET Int, IsFiniteSet(T), T # {}
  PROVE  Min(T) \in T /\ \A y \in T : Min(T) <= y
BY FiniteHasEnds DEF Min

\* The same of two numbers, which is how the code clamps.
LEMMA MaxOfTwo ==
  ASSUME NEW x \in Int, NEW y \in Int
  PROVE  /\ Max({x, y}) \in {x, y} /\ Max({x, y}) \in Int /\ Max({x, y}) >= x /\ Max({x, y}) >= y
         /\ Min({x, y}) \in {x, y} /\ Min({x, y}) \in Int /\ Min({x, y}) <= x /\ Min({x, y}) <= y
<1>1. (\E a \in {x, y} : \A b \in {x, y} : a >= b) /\ (\E a \in {x, y} : \A b \in {x, y} : a <= b)
  <2>1. x <= y \/ y <= x
    OBVIOUS
  <2>2. x <= x /\ y <= y
    OBVIOUS
  <2> QED BY <2>1, <2>2
<1>2. Max({x, y}) \in {x, y} /\ \A b \in {x, y} : Max({x, y}) >= b
  BY <1>1 DEF Max
<1>3. Min({x, y}) \in {x, y} /\ \A b \in {x, y} : Min({x, y}) <= b
  BY <1>1 DEF Min
<1> QED BY <1>2, <1>3

\* A cursor clamped to a window is in it, or 0.
LEMMA ClampIsInside ==
  ASSUME NEW index \in Int, NEW length \in Nat
  PROVE  LET c == clampCursor(index, length)
         IN  c \in Nat /\ (c = 0 \/ c < length) /\ S!clampIndex(index, length) = c
             /\ (index \in 0..(length - 1) => c = index)
<1> DEFINE high == Max({index, 0})
           c    == clampCursor(index, length)
<1>1. high \in Int /\ high >= 0 /\ high \in {index, 0} /\ high >= index
  <2>1. 0 \in Int
    OBVIOUS
  <2> QED BY <2>1, MaxOfTwo, Zenon
<1>2. CASE length = 0
  BY <1>2 DEF clampCursor, S!clampIndex
<1>3. CASE length # 0
  <2>1. length - 1 \in Int /\ length - 1 >= 0
    BY <1>3
  <2> DEFINE m == Min({high, length - 1})
  <2> HIDE DEF high
  <2>2. m \in {high, length - 1} /\ m <= high /\ m <= length - 1 /\ m \in Int
    BY <1>1, <2>1, MaxOfTwo
  <2>3. c = m /\ S!clampIndex(index, length) = m
    <3>1. S!clampIndex(index, length) = Min({Max({index, 0}), length - 1})
      BY <1>3 DEF S!clampIndex, S!Min, S!Max, Min, Max
    <3> QED BY <3>1, <1>3 DEF clampCursor, high
  <2> HIDE DEF m
  <2>4. m \in Nat /\ m < length
    BY <1>1, <2>1, <2>2
  <2>5. index \in 0..(length - 1) => m = index
    BY <1>1, <2>1, <2>2
  <2> QED BY <2>3, <2>4, <2>5
<1> QED BY <1>2, <1>3

-----------------------------------------------------------------------------
(* What the API answers.                                                   *)

\* A zone has something stored for a period, and what.
IsStored(tables, r, p, z) == p \in DOMAIN tables[r] /\ z \in DOMAIN tables[r][p]
ValuesIn(tables, r, st, p, z) ==
  IF IsStored(tables, r, p, z)
  THEN IF r = "hour" THEN tables[r][p][z] ELSE tables[r][p][z][st]
  ELSE [k \in DOMAIN A!METRICS |-> Null]

\* What is stored is an entry, and so is the one of a zone that did not report.
LEMMA StoredIsEntry ==
  ASSUME NEW tables \in Tables, NEW r \in Resolutions, NEW st \in Statistics, NEW p, NEW z
  PROVE  IsEntry(ValuesIn(tables, r, st, p, z))
<1>1. CASE IsStored(tables, r, p, z)
  <2>1. IF r = "hour" THEN IsEntry(tables[r][p][z])
        ELSE \A statistic \in Statistics : IsEntry(tables[r][p][z][statistic])
    BY <1>1, MapAppConstants DEF IsStored
  <2> QED BY <1>1, <2>1 DEF ValuesIn
<1>2. CASE ~IsStored(tables, r, p, z)
  BY <1>2 DEF ValuesIn, IsEntry
<1> QED BY <1>1, <1>2

\* A window speaks of what some state of the tables holds: its periods are in order, every zone
\* has an entry for each, the stored one, and a zone that is not in it has nothing stored.
WindowOf(w, tables, r, st) ==
  /\ w.resolution = r /\ (r # "hour" => w.statistic = st)
  /\ w.periods \in Seq(Int)
  /\ \A z \in DOMAIN w.zones : /\ DOMAIN w.zones[z] = DOMAIN w.periods
                              /\ \A i \in DOMAIN w.periods :
                                   w.zones[z][i] = ValuesIn(tables, r, st, w.periods[i], z)
  /\ \A i \in DOMAIN w.periods : \A z : IsStored(tables, r, w.periods[i], z) => z \in DOMAIN w.zones

\* The periods and the entries of the two kinds of window.
SpeaksOf(w, tables, r, st) ==
  LET rows == tables[r]
  IN  /\ w.periods \in Seq(Int)
      /\ DOMAIN w.byPeriod \subseteq DOMAIN rows
      /\ \A i \in DOMAIN w.periods : w.periods[i] \in DOMAIN rows => w.periods[i] \in DOMAIN w.byPeriod
      /\ \A p \in DOMAIN w.byPeriod :
           /\ DOMAIN w.byPeriod[p] = DOMAIN rows[p]
           /\ \A z \in DOMAIN rows[p] : w.byPeriod[p][z] = IF r = "hour" THEN rows[p][z] ELSE rows[p][z][st]

\* A generated hour that is not stored is empty; the others are as stored.
LEMMA HourlyWindowSpeaks ==
  ASSUME NEW tables, NEW st, NEW from \in Int, NEW to \in Int, NEW window,
         window.from = from, window.to = to
  PROVE  SpeaksOf(A!hourlyWindow(tables["hour"], window), tables, "hour", st)
<1> DEFINE rows == tables["hour"]
           w    == A!hourlyWindow(rows, window)
           n    == to - from + 1
<1>1. w.periods = [k \in 1..n |-> from + k - 1]
  BY DEF A!hourlyWindow, A!hoursBetween
<1>2. w.periods \in Seq(Int) /\ DOMAIN w.periods = 1..n /\ \A k \in 1..n : w.periods[k] \in from..to
  <2>1. DOMAIN w.periods = 1..n /\ \A k \in 1..n : w.periods[k] \in from..to /\ w.periods[k] \in Int
    BY <1>1
  <2>2. CASE n >= 0
    <3>1. n \in Nat
      BY <2>2
    <3> HIDE DEF n
    <3> QED BY <1>1, <2>1, <3>1
  <2>3. CASE ~ (n >= 0)
    <3>1. n \in Int /\ 1..n = {} /\ 1..0 = {}
      BY <2>3
    <3> HIDE DEF n
    <3>2. w.periods = [k \in 1..0 |-> from + k - 1]
      BY <1>1, <3>1
    <3>3. [k \in 1..0 |-> from + k - 1] \in Seq(Int)
      OBVIOUS
    <3> QED BY <2>1, <3>2, <3>3
  <2> QED BY <2>2, <2>3
<1>3. w.byPeriod = [p \in DOMAIN rows \cap (from..to) |-> rows[p]]
  BY DEF A!hourlyWindow
<1> HIDE DEF w, n
<1> QED BY <1>2, <1>3 DEF SpeaksOf, w

\* The coarse periods are the stored ones, each with the statistic asked for.
LEMMA CoarseWindowSpeaks ==
  ASSUME NEW tables, NEW st, NEW r \in Resolutions, r # "hour", NEW window,
         DOMAIN tables[r] \subseteq Int, IsFiniteSet(DOMAIN tables[r])
  PROVE  SpeaksOf(A!coarseWindow(tables[r], window, r, st), tables, r, st)
<1> DEFINE rows   == tables[r]
           w      == A!coarseWindow(rows, window, r, st)
           stored == DOMAIN rows \cap (A!date_trunc(r, window.from)..window.to)
<1>1. /\ w.periods = A!Ascending(stored)
      /\ w.byPeriod = [p \in stored |-> [z \in DOMAIN rows[p] |-> rows[p][z][st]]]
  BY DEF A!coarseWindow
<1>2. stored \subseteq DOMAIN rows
  OBVIOUS
<1> HIDE DEF stored, w
<1>3. stored \in SUBSET Int /\ IsFiniteSet(stored)
  BY <1>2, FS_Subset
<1>4. A!Ascending(stored) = Ascending(stored)
  BY DEF A!Ascending, Ascending, A!Rank, Rank, A!Cardinality, Cardinality
<1>5. Ascending(stored) \in Seq(stored)
  BY <1>3, AscendingEnumerates DEF Enumerates
<1>6. w.periods \in Seq(stored) /\ w.periods \in Seq(Int)
  BY <1>1, <1>3, <1>4, <1>5
<1>7. \A i \in DOMAIN w.periods : w.periods[i] \in stored
  BY <1>6
<1> QED BY <1>1, <1>2, <1>6, <1>7 DEF SpeaksOf, w

\* The key's request is for hours that are numbers.
LEMMA RangeIsOfNumbers ==
  ASSUME NEW r \in Resolutions, NEW t \in Hours
  PROVE  LET window == rangeFor(r, t)
         IN  /\ window.to = t - 1 /\ window.to \in Int
             /\ window.from \in Int
             /\ \/ window.from = t - spanHours[r] /\ window.from >= 0
                \/ window.from = 0 /\ t <= spanHours[r]
             /\ spanHours[r] \in Nat
<1>1. spanHours[r] \in Nat /\ t \in Int
  <2>1. r \in {"hour", "day", "week", "month"} /\ t \in Int
    BY MapAppConstants DEF RESOLUTIONS
  <2>2. CASE r = "hour"
    BY <2>1, <2>2 DEF spanHours, RESOLUTIONS
  <2>3. CASE r = "day"
    BY <2>1, <2>3 DEF spanHours, RESOLUTIONS
  <2>4. CASE r = "week"
    BY <2>1, <2>4 DEF spanHours, RESOLUTIONS
  <2>5. CASE r = "month"
    BY <2>1, <2>5 DEF spanHours, RESOLUTIONS
  <2> QED BY <2>1, <2>2, <2>3, <2>4, <2>5
<1> DEFINE low == t - spanHours[r]
<1>2. low \in Int /\ 0 \in Int /\ (t - 1) - (spanHours[r] - 1) = low
  BY <1>1
<1> HIDE DEF low
<1>3. Max({low, 0}) \in {low, 0} /\ Max({low, 0}) \in Int /\ Max({low, 0}) >= low /\ Max({low, 0}) >= 0
  BY <1>2, MaxOfTwo
<1>4. rangeFor(r, t) = [from |-> Max({low, 0}), to |-> t - 1]
  BY <1>2 DEF rangeFor, EARLIEST_PERIOD
<1> DEFINE window == rangeFor(r, t)
<1>5. window.to = t - 1 /\ window.to \in Int /\ window.from = Max({low, 0})
  BY <1>1, <1>4
<1> HIDE DEF window
<1>6. CASE Max({low, 0}) = low
  <2>1. window.from = low /\ low >= 0
    BY <1>3, <1>5, <1>6
  <2>2. window.from = t - spanHours[r] /\ window.from >= 0
    BY <2>1 DEF low
  <2> QED BY <1>1, <1>5, <2>1, <2>2 DEF window
<1>7. CASE Max({low, 0}) = 0
  <2>1. window.from = 0 /\ low <= 0
    BY <1>3, <1>5, <1>7
  <2>2. t <= spanHours[r]
    BY <1>1, <2>1 DEF low
  <2> QED BY <1>1, <1>5, <2>1, <2>2 DEF window
<1> QED BY <1>3, <1>6, <1>7

\* An answer to a key speaks of what some state of the tables holds.
LEMMA AnswerSpeaks ==
  ASSUME NEW r \in Resolutions, NEW st \in Statistics, NEW w, FromServer(w, r, st)
  PROVE  \E tables \in Tables : WindowOf(w, tables, r, st)
<1>1. PICK t \in Hours : w \in Server(<<r, st, t>>)
  BY DEF FromServer
<1> DEFINE range == rangeFor(r, t)
           from  == Max({range.from, range.to - MaxSpan[r] + 1})
           stat  == IF r = "hour" THEN "mean" ELSE st
           short == [window |-> [from |-> from, to |-> range.to], resolution |-> r, statistic |-> stat]
<1>2. PICK tables \in Tables : w = A!windowOf(tables, short)
  <2>1. RequestOf(<<r, st, t>>) = [window |-> range, resolution |-> r, statistic |-> stat]
    BY DEF RequestOf
  <2>2. DOMAIN range = {"from", "to"}
    BY DEF rangeFor
  <2>3. [range EXCEPT !.from = from] = [from |-> from, to |-> range.to]
    BY DEF rangeFor
  <2> HIDE DEF range
  <2>4. Server(<<r, st, t>>) = {A!windowOf(tables, short) : tables \in Tables}
    <3> DEFINE q == RequestOf(<<r, st, t>>)
    <3>0. q = [window |-> range, resolution |-> r, statistic |-> stat]
      BY <2>1
    <3> HIDE DEF q
    <3>1. q.window = range /\ q.resolution = r /\ q.statistic = stat
      BY <3>0
    <3>3. Max({q.window.from, q.window.to - MaxSpan[q.resolution] + 1}) = from
      BY <3>1 DEF from
    <3> HIDE DEF from
    <3>4. [q EXCEPT !.window.from = from] = [window |-> [range EXCEPT !.from = from], resolution |-> r, statistic |-> stat]
      BY <3>0
    <3>2. [q EXCEPT !.window.from = Max({@, q.window.to - MaxSpan[q.resolution] + 1})] = short
      BY <2>3, <3>3, <3>4
    <3> USE DEF q
    <3> QED BY <3>2 DEF Server
  <2> QED BY <1>1, <2>4
<1>3. from \in Int /\ range.to \in Int
  <2>1. range.from \in Int /\ range.to \in Int
    BY RangeIsOfNumbers
  <2>2. MaxSpan[r] \in Nat
    BY MapAppConstants
  <2> HIDE DEF range
  <2>3. range.to - MaxSpan[r] + 1 \in Int
    BY <2>1, <2>2
  <2> QED BY <2>1, <2>3, MaxOfTwo
<1> HIDE DEF range, from
<1> DEFINE rows  == tables[r]
           inner == IF short.resolution = "hour" THEN A!hourlyWindow(tables[short.resolution], short.window)
                    ELSE A!coarseWindow(tables[short.resolution], short.window, short.resolution, short.statistic)
<1>0. short.resolution = r /\ short.statistic = stat
  OBVIOUS
<1>4. SpeaksOf(inner, tables, r, st)
  <2>1. CASE r = "hour"
    <3>1. SpeaksOf(A!hourlyWindow(tables["hour"], short.window), tables, "hour", st)
      BY <1>3, HourlyWindowSpeaks
    <3> QED BY <1>0, <2>1, <3>1
  <2>2. CASE r # "hour"
    <3>1. DOMAIN tables[r] \subseteq Int /\ IsFiniteSet(DOMAIN tables[r])
      BY MapAppConstants
    <3>2. SpeaksOf(A!coarseWindow(tables[r], short.window, r, st), tables, r, st)
      BY <2>2, <3>1, CoarseWindowSpeaks
    <3> QED BY <1>0, <2>2, <3>2
  <2> QED BY <2>1, <2>2
<1> DEFINE zones == UNION {DOMAIN inner.byPeriod[p] : p \in DOMAIN inner.byPeriod}
           ValuesOf(z, p) == IF p \in DOMAIN inner.byPeriod /\ z \in DOMAIN inner.byPeriod[p]
                             THEN inner.byPeriod[p][z] ELSE [k \in DOMAIN A!METRICS |-> Null]
<1>5. /\ w.periods = inner.periods /\ w.resolution = r /\ (r # "hour" => w.statistic = st)
      /\ w.zones = [z \in zones |-> [i \in DOMAIN inner.periods |-> ValuesOf(z, inner.periods[i])]]
  <2> HIDE DEF short
  <2>1. w = [periods |-> inner.periods, resolution |-> short.resolution,
             statistic |-> IF short.resolution = "hour" THEN Null ELSE short.statistic,
             zones |-> [z \in zones |-> [i \in DOMAIN inner.periods |-> ValuesOf(z, inner.periods[i])]]]
    BY <1>2 DEF A!windowOf
  <2> HIDE DEF inner, zones, ValuesOf
  <2> QED BY <1>0, <2>1
<1> HIDE DEF inner, short
<1>6. ASSUME NEW i \in DOMAIN inner.periods, NEW z
      PROVE  /\ IsStored(tables, r, inner.periods[i], z)
                  <=> inner.periods[i] \in DOMAIN inner.byPeriod /\ z \in DOMAIN inner.byPeriod[inner.periods[i]]
             /\ ValuesOf(z, inner.periods[i]) = ValuesIn(tables, r, st, inner.periods[i], z)
  BY <1>4 DEF SpeaksOf, IsStored, ValuesIn
<1>7. \A i \in DOMAIN w.periods : \A z : IsStored(tables, r, w.periods[i], z) => z \in DOMAIN w.zones
  BY <1>5, <1>6
<1>8. w.periods \in Seq(Int)
  BY <1>4, <1>5 DEF SpeaksOf
<1>9. ASSUME NEW z \in DOMAIN w.zones
      PROVE  /\ DOMAIN w.zones[z] = DOMAIN w.periods
             /\ \A i \in DOMAIN w.periods : w.zones[z][i] = ValuesIn(tables, r, st, w.periods[i], z)
  <2> HIDE DEF ValuesOf, zones
  <2>1. w.zones[z] = [i \in DOMAIN inner.periods |-> ValuesOf(z, inner.periods[i])]
    BY <1>5
  <2>2. ASSUME NEW i \in DOMAIN w.periods
        PROVE  w.zones[z][i] = ValuesIn(tables, r, st, w.periods[i], z)
    <3>1. i \in DOMAIN inner.periods /\ w.periods[i] = inner.periods[i]
      BY <1>5
    <3>2. ValuesOf(z, inner.periods[i]) = ValuesIn(tables, r, st, inner.periods[i], z)
      BY <3>1, <1>6
    <3> QED BY <2>1, <3>1, <3>2
  <2> QED BY <1>5, <2>1, <2>2
<1> QED BY <1>5, <1>7, <1>8, <1>9 DEF WindowOf

-----------------------------------------------------------------------------
(* The store's setters. *)

LengthOK(s) == Length(s) \in Nat /\ (s.window # Null => s.window.periods \in Seq(Int) /\ Length(s) = Len(s.window.periods))

LEMMA WindowHasLength ==
  ASSUME NEW s, StoreInv(s)
  PROVE  LengthOK(s)
<1>1. CASE s.window = Null
  BY <1>1 DEF LengthOK, Length
<1>2. CASE s.window # Null
  <2>1. s.window.periods \in Seq(Int)
    BY <1>2, AnswerSpeaks DEF StoreInv, WindowOf
  <2> QED BY <1>2, <2>1 DEF LengthOK, Length
<1> QED BY <1>1, <1>2

\* Setters of what the window and the cursor do not depend on.
LEMMA PlainSettersKeep ==
  ASSUME NEW s, StoreInv(s), NEW x
  PROVE  /\ x \in DOMAIN M!METRICS => StoreInv(setMetric(s, x))
         /\ StoreInv(selectZone(s, x)) /\ StoreInv(hoverZone(s, x))
         /\ StoreInv(setPlaying(s, x)) /\ StoreInv(togglePlaying(s))
BY Zenon DEF StoreInv, StoreFields, setMetric, selectZone, hoverZone, setPlaying, togglePlaying

LEMMA CursorKeeps ==
  ASSUME NEW s, StoreInv(s), NEW index \in Int
  PROVE  StoreInv(setCursor(s, index))
<1> DEFINE c == clampCursor(index, Length(s))
           n == setCursor(s, index)
<1>1. LengthOK(s)
  BY WindowHasLength
<1>2. c \in Nat /\ (c = 0 \/ c < Length(s))
  BY <1>1, ClampIsInside DEF LengthOK
<1>3. s.window # Null => (c = 0 \/ c < Len(s.window.periods))
  BY <1>1, <1>2 DEF LengthOK
<1>4. /\ DOMAIN n = StoreFields /\ n.cursor = c /\ n.window = s.window /\ n.metric = s.metric
      /\ n.resolution = s.resolution /\ n.statistic = s.statistic
  BY DEF setCursor, StoreInv, StoreFields
<1> HIDE DEF c, n
<1>5. StoreInv(n)
  BY <1>2, <1>3, <1>4 DEF StoreInv
<1> QED BY <1>5 DEF n

LEMMA SwitchesKeep ==
  ASSUME NEW s, StoreInv(s), NEW x
  PROVE  /\ x \in Resolutions => StoreInv(setResolution(s, x))
         /\ x \in Statistics => StoreInv(setStatistic(s, x))
BY DEF StoreInv, StoreFields, setResolution, setStatistic

\* The cursor of a new window is in it.
LEMMA NewestIsInside ==
  ASSUME NEW payload, payload.periods \in Seq(Int)
  PROVE  LET c == newestHourWithData(payload)
         IN  c \in Nat /\ (c = 0 \/ c < Len(payload.periods))
<1> DEFINE last     == Len(payload.periods) - 1
           reported == {hour \in 0..last : \E z \in DOMAIN payload.zones :
                          \E m \in DOMAIN payload.zones[z][hour + 1] :
                             payload.zones[z][hour + 1][m] # Null}
           c        == newestHourWithData(payload)
<1>1. last \in Int /\ 0 \in Int /\ last < Len(payload.periods) /\ Len(payload.periods) \in Nat
  OBVIOUS
<1>2. c = IF reported = {} THEN Max({last, 0}) ELSE Max(reported)
  BY DEF newestHourWithData
<1>3. reported \subseteq 0..last
  OBVIOUS
<1> HIDE DEF last, reported, c
<1>4. IsFiniteSet(reported) /\ reported \in SUBSET Int
  <2>1. IsFiniteSet(0..last)
    BY <1>1, FS_Interval
  <2>2. IsFiniteSet(reported)
    BY <1>3, <2>1, FS_Subset
  <2>3. 0..last \subseteq Int
    BY <1>1
  <2> QED BY <1>3, <2>2, <2>3
<1>5. CASE reported = {}
  <2>1. c \in {last, 0} /\ c \in Int /\ c >= 0
    BY <1>1, <1>2, <1>5, MaxOfTwo
  <2> QED BY <1>1, <2>1 DEF c
<1>6. CASE reported # {}
  <2>1. c \in reported
    BY <1>2, <1>4, <1>6, MaxOf
  <2>2. c \in 0..last
    BY <1>3, <2>1
  <2> QED BY <1>1, <2>2 DEF c
<1> QED BY <1>5, <1>6

LEMMA WindowKeeps ==
  ASSUME NEW s, StoreInv(s), NEW w, FromServer(w, s.resolution, s.statistic)
  PROVE  StoreInv(setWindow(s, w))
<1> DEFINE c == newestHourWithData(w)
           n == setWindow(s, w)
<1>1. w.periods \in Seq(Int)
  BY AnswerSpeaks DEF StoreInv, WindowOf
<1>2. c \in Nat /\ (c = 0 \/ c < Len(w.periods))
  BY <1>1, NewestIsInside
<1>3. /\ DOMAIN n = StoreFields /\ n.cursor = c /\ n.window = w /\ n.metric = s.metric
      /\ n.resolution = s.resolution /\ n.statistic = s.statistic
  BY DEF setWindow, StoreInv, StoreFields
<1> HIDE DEF c, n
<1>4. StoreInv(n)
  BY <1>2, <1>3 DEF StoreInv
<1> QED BY <1>4 DEF n

-----------------------------------------------------------------------------
(* Rendering. *)

\* The client and the API keep the metrics in the same order.
LEMMA SamePlace ==
  ASSUME NEW metric \in DOMAIN M!METRICS
  PROVE  /\ M!metricIndex(metric) = CHOOSE k \in DOMAIN A!METRICS : A!METRICS[k] = metric
         /\ M!metricIndex(metric) \in DOMAIN A!METRICS
<1>1. M!METRIC_ORDER = A!METRICS
  BY DEF M!METRIC_ORDER, A!METRICS
<1>2. M!metricIndex(metric) = CHOOSE k \in DOMAIN A!METRICS : A!METRICS[k] = metric
  BY <1>1 DEF M!metricIndex
<1>3. \E k \in DOMAIN A!METRICS : A!METRICS[k] = metric
  <2>1. metric \in {A!METRICS[1], A!METRICS[2], A!METRICS[3], A!METRICS[4], A!METRICS[5]}
    BY DEF M!METRICS, A!METRICS
  <2>2. DOMAIN A!METRICS = 1..5
    BY DEF A!METRICS
  <2> QED BY <2>1, <2>2
<1> QED BY <1>2, <1>3

\* What a window gives a zone was stored for it.
LEMMA ShownWasStored ==
  ASSUME NEW s, StoreInv(s), s.window # Null, NEW z \in DOMAIN s.window.zones
  PROVE  LET value == valuesAtCursor(s.window, s.cursor, Position(s))[z]
         IN  value = Null \/ WasStored(z, value)
<1> DEFINE w     == s.window
           r     == s.resolution
           st    == s.statistic
           i     == s.cursor + 1
           place == Position(s)
           value == valuesAtCursor(w, s.cursor, place)[z]
<1>1. r \in Resolutions /\ st \in Statistics /\ s.metric \in DOMAIN M!METRICS
  BY DEF StoreInv
<1>2. PICK tables \in Tables : WindowOf(w, tables, r, st)
  BY <1>1, AnswerSpeaks DEF StoreInv
<1>3. place \in DOMAIN A!METRICS
  BY <1>1, SamePlace DEF Position
<1>4. DOMAIN w.zones[z] = DOMAIN w.periods
  BY <1>2 DEF WindowOf
<1>5. value = IF i \in DOMAIN w.periods THEN w.zones[z][i][place] ELSE Null
  BY <1>4 DEF valuesAtCursor
<1> SUFFICES ASSUME i \in DOMAIN w.periods, value # Null PROVE WasStored(z, value)
  BY <1>5
<1> DEFINE p == w.periods[i]
<1>6. value = ValuesIn(tables, r, st, p, z)[place]
  BY <1>2, <1>5 DEF WindowOf
<1> HIDE DEF value, place, p, i, r, st
<1>7. IsStored(tables, r, p, z)
  BY <1>3, <1>6 DEF ValuesIn
<1>8. value = IF r = "hour" THEN tables[r][p][z][place] ELSE tables[r][p][z][st][place]
  BY <1>6, <1>7 DEF ValuesIn
<1>9. WasStored(z, value)
  BY <1>1, <1>3, <1>7, <1>8 DEF WasStored, IsStored
<1> QED BY <1>9

\* The effects that ran leave the map painted for the store: the ones that did not had nothing
\* to repaint, for what is painted was for the same metric, cursor and window.
LEMMA EffectsKeep ==
  ASSUME ViewInv(store, view), NEW s, StoreInv(s), NEW v,
         DOMAIN v = ViewFields, v.value = view.value, v.fill = view.fill, Effects(s, v)
  PROVE  ViewInv(s, view')
<1> DEFINE painted == IF PaintDeps(s, v) # PaintDeps(store, view) THEN Painted(s, v) ELSE v
<1>1. view' = IF SelectDeps(s, painted) # SelectDeps(store, view) THEN Outlined(s, painted) ELSE painted
  BY DEF Effects
<1>2. ViewInv(s, painted)
  <2>1. CASE PaintDeps(s, v) # PaintDeps(store, view) /\ v.ready /\ s.window # Null
    <3> DEFINE values == valuesAtCursor(s.window, s.cursor, Position(s))
               fill   == M!fillColourExpression(s.metric, valuesAcrossWindow(s.window, Position(s)))
    <3>1. DOMAIN values = DOMAIN s.window.zones
      BY <2>1 DEF valuesAtCursor
    <3>2. painted = [v EXCEPT !.painted = @ \cup DOMAIN values,
                              !.value   = [z \in Zones |-> IF z \in DOMAIN values THEN values[z] ELSE @[z]],
                              !.fill    = fill]
      BY <2>1 DEF Painted
    <3> HIDE DEF values, fill, painted
    <3>3. /\ DOMAIN painted = ViewFields /\ painted.fill = fill
          /\ painted.value = [z \in Zones |-> IF z \in DOMAIN values THEN values[z] ELSE v.value[z]]
      BY <3>2 DEF ViewFields
    <3>4. /\ \A z \in DOMAIN values : values[z] = Null \/ WasStored(z, values[z])
          /\ \A z \in Zones : v.value[z] = Null \/ WasStored(z, v.value[z])
      BY <2>1, <3>1, ShownWasStored DEF ViewInv, values
    <3>5. \A z \in Zones : painted.value[z] = Null \/ WasStored(z, painted.value[z])
      BY <3>3, <3>4
    <3> QED BY <3>1, <3>3, <3>5 DEF ViewInv, values, fill
  <2>2. CASE ~ v.ready \/ s.window = Null
    <3>1. painted = v
      BY <2>2 DEF Painted
    <3> HIDE DEF painted
    <3> QED BY <2>2, <3>1 DEF ViewInv
  <2>3. CASE PaintDeps(s, v) = PaintDeps(store, view)
    <3>1. painted = v
      BY <2>3
    <3>2. s.metric = store.metric /\ s.cursor = store.cursor /\ s.window = store.window /\ v.ready = view.ready
      BY <2>3 DEF PaintDeps
    <3> HIDE DEF painted
    <3> QED BY <3>1, <3>2 DEF ViewInv, Position
  <2> QED BY <2>1, <2>2, <2>3
<1> HIDE DEF painted
<1>3. /\ DOMAIN view' = ViewFields /\ view'.value = painted.value /\ view'.fill = painted.fill
      /\ view'.ready = painted.ready
  <2>1. DOMAIN painted = ViewFields
    BY <1>2 DEF ViewInv
  <2>2. CASE view' = painted
    BY <2>1, <2>2
  <2>3. CASE view' = Outlined(s, painted)
    BY <2>1, <2>3 DEF Outlined, ViewFields
  <2> QED BY <1>1, <2>2, <2>3
<1> QED BY <1>2, <1>3 DEF ViewInv

\* A render shows the answer kept under its own key, or leaves the window.
LEMMA RenderKeeps ==
  ASSUME PageInv, NEW q, NEW c, AnswersInv(c), NEW s, StoreInv(s), NEW v,
         DOMAIN v = ViewFields, v.value = view.value, v.fill = view.fill, Render(q, c, s, v)
  PROVE  StoreInv(store') /\ QueryInv' /\ ViewInv(store', view')
<1>0. PICK stale \in BOOLEAN : \E seen \in {Observed(q, c, s, stale)} :
        \E next \in {IF seen.data # Null /\ seen.data # query.data
                     THEN setWindow(s, seen.data[2]) ELSE s} :
          query' = seen /\ store' = next /\ Effects(next, v)
  BY DEF Render
<1> DEFINE seen == Observed(q, c, s, stale)
           key  == KeyAt(s, now)
<1>1. /\ store' = IF seen.data # Null /\ seen.data # query.data THEN setWindow(s, seen.data[2]) ELSE s
      /\ query' = seen /\ Effects(store', v)
  BY <1>0
<1>2. DOMAIN seen = {"key", "data", "status"} /\ seen.key = key
      /\ seen.data = IF key \in DOMAIN c THEN <<key, c[key]>> ELSE Null
  BY DEF Observed
<1> HIDE DEF seen
<1>3. key = <<s.resolution, s.statistic, now>> /\ key \in Keys
  BY DEF KeyAt, Keys, StoreInv, PageInv
<1> HIDE DEF key
<1>4. QueryInv'
  BY <1>1, <1>2, <1>3 DEF QueryInv, Keys
<1>5. StoreInv(store')
  <2>1. CASE seen.data = Null \/ seen.data = query.data
    BY <1>1, <2>1
  <2>2. CASE seen.data # Null /\ seen.data # query.data
    <3>1. key \in DOMAIN c /\ seen.data[2] = c[key]
      BY <1>2, <2>2
    <3>2. c[key] \in Server(<<s.resolution, s.statistic, now>>)
      BY <1>3, <3>1 DEF AnswersInv
    <3>3. FromServer(c[key], s.resolution, s.statistic)
      BY <3>2 DEF FromServer, PageInv
    <3>4. store' = setWindow(s, c[key])
      BY <1>1, <2>2, <3>1
    <3> QED BY <3>3, <3>4, WindowKeeps
  <2> QED BY <2>1, <2>2
<1>6. ViewInv(store', view')
  BY <1>1, <1>5, EffectsKeep DEF PageInv
<1> QED BY <1>4, <1>5, <1>6

LEMMA CommitKeeps ==
  ASSUME PageInv, NEW s, StoreInv(s), NEW v,
         DOMAIN v = ViewFields, v.value = view.value, v.fill = view.fill, Commit(s, v)
  PROVE  StoreInv(store') /\ QueryInv' /\ ViewInv(store', view')
<1>1. CASE Subscribed(s) = Subscribed(store)
  <2>1. store' = s /\ Effects(s, v) /\ query' = query
    BY <1>1 DEF Commit
  <2>2. ViewInv(s, view')
    BY <2>1, EffectsKeep DEF PageInv
  <2> QED BY <2>1, <2>2 DEF PageInv, QueryInv, Keys
<1>2. CASE Subscribed(s) # Subscribed(store)
  <2>1. Render(query, answers, s, v)
    BY <1>2 DEF Commit
  <2> QED BY <2>1, RenderKeeps DEF PageInv
<1> QED BY <1>1, <1>2

LEMMA UserSetsKeeps ==
  ASSUME PageInv, NEW s, StoreInv(s), UserSets(s)
  PROVE  PageInv'
<1>1. DOMAIN view = ViewFields /\ Commit(s, view)
  BY DEF UserSets, PageInv, ViewInv
<1>2. StoreInv(store') /\ QueryInv' /\ ViewInv(store', view')
  BY <1>1, CommitKeeps
<1>3. now' = now /\ answers' = answers
  BY DEF UserSets
<1> QED BY <1>2, <1>3 DEF PageInv, AnswersInv

-----------------------------------------------------------------------------
(* The steps. *)

LEMMA InitInv == Init => PageInv
<1> SUFFICES ASSUME Init PROVE PageInv
  OBVIOUS
<1>1. Min(Hours) \in Hours
  BY NaturalsHaveLeast, MapAppConstants DEF Min
<1>2. StoreInv(store)
  BY MapAppConstants DEF Init, InitStore, StoreInv, StoreFields, M!METRICS
<1>3. QueryInv
  BY <1>1, MapAppConstants DEF Init, InitStore, QueryInv, Keys, KeyAt
<1>4. ViewInv(store, view)
  BY DEF Init, InitView, ViewInv, ViewFields
<1>5. AnswersInv(answers)
  BY DEF Init, AnswersInv
<1> QED BY <1>1, <1>2, <1>3, <1>4, <1>5 DEF Init, PageInv

LEMMA QueryKeeps ==
  ASSUME PageInv, Answer \/ Fail \/ Retry \/ ZonesAnswer \/ Tick
  PROVE  PageInv'
<1>0. DOMAIN view = ViewFields /\ StoreInv(store) /\ AnswersInv(answers) /\ QueryInv /\ now \in Hours
  BY DEF PageInv, ViewInv
<1>1. ASSUME NEW q, Render(q, answers, store, view), answers' = answers, now' = now
      PROVE  PageInv'
  <2>1. StoreInv(store') /\ QueryInv' /\ ViewInv(store', view')
    BY <1>0, <1>1, RenderKeeps
  <2> QED BY <1>0, <1>1, <2>1 DEF PageInv, AnswersInv
<1>2. CASE Answer
  <2>0. PICK payload \in Server(query.key) :
          \E c \in {[k \in DOMAIN answers \cup {query.key} |->
                     IF k = query.key THEN payload ELSE answers[k]]} :
            answers' = c /\ Render([query EXCEPT !.status = "idle"], c, store, view)
    BY <1>2 DEF Answer
  <2> DEFINE c == [k \in DOMAIN answers \cup {query.key} |->
                    IF k = query.key THEN payload ELSE answers[k]]
  <2>1. answers' = c /\ Render([query EXCEPT !.status = "idle"], c, store, view) /\ now' = now
    BY <1>2, <2>0 DEF Answer
  <2>2. AnswersInv(c)
    BY <1>0 DEF AnswersInv, QueryInv
  <2> HIDE DEF c
  <2>3. StoreInv(store') /\ QueryInv' /\ ViewInv(store', view')
    BY <1>0, <2>1, <2>2, RenderKeeps
  <2>4. AnswersInv(answers')
    BY <2>1, <2>2
  <2> QED BY <1>0, <2>1, <2>3, <2>4 DEF PageInv
<1>3. CASE Fail
  <2>1. CASE query' = [query EXCEPT !.status = "retrying"] /\ UNCHANGED <<store, view>>
    <3>1. now' = now /\ answers' = answers
      BY <1>3 DEF Fail
    <3>2. QueryInv'
      BY <1>0, <2>1 DEF QueryInv, Keys
    <3> QED BY <1>0, <2>1, <3>1, <3>2 DEF PageInv, AnswersInv
  <2>2. CASE Render([query EXCEPT !.status = "error"], answers, store, view)
    BY <1>1, <1>3, <2>2 DEF Fail
  <2> QED BY <1>3, <2>1, <2>2 DEF Fail
<1>4. CASE Retry
  BY <1>1, <1>4 DEF Retry
<1>5. CASE ZonesAnswer
  BY <1>1, <1>5 DEF ZonesAnswer
<1>6. CASE Tick
  BY <1>0, <1>6 DEF Tick, PageInv, AnswersInv, QueryInv
<1> QED BY <1>2, <1>3, <1>4, <1>5, <1>6

LEMMA ControlsKeep ==
  ASSUME PageInv, SetMetric \/ SetResolution \/ SetStatistic \/ SelectZone \/ CloseZone
  PROVE  PageInv'
<1>0. StoreInv(store)
  BY DEF PageInv
<1>1. CASE SetMetric
  BY <1>0, <1>1, MapAppConstants, PlainSettersKeep, UserSetsKeeps DEF SetMetric
<1>2. CASE SetResolution
  BY <1>0, <1>2, SwitchesKeep, UserSetsKeeps DEF SetResolution
<1>3. CASE SetStatistic
  BY <1>0, <1>3, SwitchesKeep, UserSetsKeeps DEF SetStatistic
<1>4. CASE SelectZone \/ CloseZone
  BY <1>0, <1>4, PlainSettersKeep, UserSetsKeeps DEF SelectZone, CloseZone
<1> QED BY <1>1, <1>2, <1>3, <1>4

\* Wherever a key or the animation sends the cursor is a number.
LEMMA StepsAreNumbers ==
  ASSUME NEW current \in Nat, NEW length \in Nat, NEW step \in Nat
  PROVE  /\ length > 0 => S!nextPlaybackIndex(current, length) \in Int
         /\ \A key \in S!SliderKeys : S!indexForKey(key, current, length, step) \in Int
<1>1. ASSUME NEW i \in Int PROVE S!clampIndex(i, length) \in Nat
  <2>1. S!clampIndex(i, length) = clampCursor(i, length) /\ clampCursor(i, length) \in Nat
    BY ClampIsInside
  <2> QED BY <2>1
<1>2. length > 0 => S!nextPlaybackIndex(current, length) \in Int
  <2>1. S!clampIndex(current, length) \in Nat
    BY <1>1
  <2> DEFINE c == S!clampIndex(current, length)
  <2> HIDE DEF c
  <2>2. ASSUME length > 0 PROVE (c + 1) % length \in Int
    BY <2>1, <2>2 DEF c
  <2>3. ASSUME length > 0 PROVE S!nextPlaybackIndex(current, length) = (c + 1) % length
    BY <2>3 DEF S!nextPlaybackIndex, c
  <2> QED BY <2>2, <2>3
<1>3. ASSUME NEW key \in S!SliderKeys PROVE S!indexForKey(key, current, length, step) \in Int
  <2>1. /\ S!clampIndex(current - 1, length) \in Int /\ S!clampIndex(current + 1, length) \in Int
        /\ S!clampIndex(current - step, length) \in Int /\ S!clampIndex(current + step, length) \in Int
        /\ S!clampIndex(length - 1, length) \in Int
    <3>1. current - 1 \in Int /\ current + 1 \in Int /\ current - step \in Int /\ current + step \in Int
          /\ length - 1 \in Int
      OBVIOUS
    <3> QED BY <1>1, <3>1
  <2> QED BY <2>1 DEF S!SliderKeys, S!indexForKey
<1> QED BY <1>2, <1>3

LEMMA SliderKeeps ==
  ASSUME PageInv, PlaybackStep \/ TogglePlaying \/ HideTab \/ KeyDown \/ PointerDown \/ PointerMove \/ EndDrag
  PROVE  PageInv'
<1>0. StoreInv(store) /\ store.cursor \in Nat /\ store.resolution \in Resolutions
  BY DEF PageInv, StoreInv
<1>1. Length(store) \in Nat
  BY <1>0, WindowHasLength DEF LengthOK
<1>2. ASSUME NEW index \in Int, MoveCursor(index) PROVE PageInv'
  BY <1>0, <1>2, CursorKeeps, UserSetsKeeps DEF MoveCursor
<1>3. page[store.resolution] \in Nat
  BY <1>0, MapAppConstants DEF page, RESOLUTIONS
<1>4. CASE PlaybackStep
  <2>1. S!nextPlaybackIndex(store.cursor, Length(store)) \in Int
    BY <1>0, <1>1, <1>3, <1>4, StepsAreNumbers DEF PlaybackStep, SliderShown
  <2> QED BY <1>2, <1>4, <2>1 DEF PlaybackStep
<1>5. CASE KeyDown
  <2>1. \A key \in KeysPressed :
          S!indexForKey(key, store.cursor, Length(store), page[store.resolution]) \in Int
    BY <1>0, <1>1, <1>3, MapAppConstants, StepsAreNumbers
  <2> QED BY <1>2, <1>5, <2>1 DEF KeyDown
<1>6. ASSUME NEW i \in 0..(Length(store) - 1) PROVE S!clampIndex(i, Length(store)) \in Int
  <2>1. i \in Int
    BY <1>1
  <2>2. S!clampIndex(i, Length(store)) = clampCursor(i, Length(store)) /\ clampCursor(i, Length(store)) \in Nat
    BY <1>1, <2>1, ClampIsInside
  <2> QED BY <2>2
<1>7. CASE PointerMove
  BY <1>2, <1>6, <1>7 DEF PointerMove
<1>8. CASE PointerDown
  <2>1. PICK i \in 0..(Length(store) - 1) :
          UserSets(setCursor(setPlaying(store, FALSE), S!clampIndex(i, Length(store))))
    BY <1>8 DEF PointerDown
  <2>2. StoreInv(setPlaying(store, FALSE))
    BY <1>0, PlainSettersKeep
  <2> QED BY <1>6, <2>1, <2>2, CursorKeeps, UserSetsKeeps
<1>9. CASE TogglePlaying \/ HideTab
  BY <1>0, <1>9, PlainSettersKeep, UserSetsKeeps DEF TogglePlaying, HideTab
<1>10. CASE EndDrag
  BY <1>10 DEF EndDrag, PageInv, AnswersInv, QueryInv
<1> QED BY <1>4, <1>5, <1>7, <1>8, <1>9, <1>10

LEMMA MapEventsKeep ==
  ASSUME PageInv, Load \/ Hover
  PROVE  PageInv'
<1>0. DOMAIN view = ViewFields /\ StoreInv(store) /\ AnswersInv(answers) /\ now \in Hours
  BY DEF PageInv, ViewInv
<1>1. ASSUME NEW s, StoreInv(s), NEW v, DOMAIN v = ViewFields, v.value = view.value, v.fill = view.fill,
             Commit(s, v), now' = now, answers' = answers
      PROVE  PageInv'
  <2>1. StoreInv(store') /\ QueryInv' /\ ViewInv(store', view')
    BY <1>1, CommitKeeps
  <2> QED BY <1>0, <1>1, <2>1 DEF PageInv, AnswersInv
<1>2. CASE Load
  <2> DEFINE v == [view EXCEPT !.ready = TRUE]
  <2>1. DOMAIN v = ViewFields /\ v.value = view.value /\ v.fill = view.fill
    BY <1>0 DEF ViewFields
  <2>2. Commit(store, v) /\ now' = now /\ answers' = answers
    BY <1>2 DEF Load
  <2> HIDE DEF v
  <2> QED BY <1>0, <1>1, <2>1, <2>2
<1>3. CASE Hover
  <2>1. PICK z \in Pointed \cup {Null} :
          Commit(hoverZone(store, z), [view EXCEPT !.hovered = {z} \ {Null}])
    BY <1>3 DEF Hover
  <2> DEFINE v == [view EXCEPT !.hovered = {z} \ {Null}]
             s == hoverZone(store, z)
  <2>2. DOMAIN v = ViewFields /\ v.value = view.value /\ v.fill = view.fill
    BY <1>0 DEF ViewFields
  <2>3. StoreInv(s)
    BY <1>0, PlainSettersKeep
  <2>4. Commit(s, v) /\ now' = now /\ answers' = answers
    BY <1>3, <2>1 DEF Hover
  <2> HIDE DEF v, s
  <2> QED BY <1>1, <2>2, <2>3, <2>4
<1> QED BY <1>2, <1>3

LEMMA StepInv == PageInv /\ [Next]_vars => PageInv'
<1> SUFFICES ASSUME PageInv, [Next]_vars PROVE PageInv'
  OBVIOUS
<1>1. CASE UNCHANGED vars
  BY <1>1 DEF vars, PageInv, AnswersInv, QueryInv
<1>2. CASE Next
  BY <1>2, QueryKeeps, ControlsKeep, SliderKeeps, MapEventsKeep DEF Next
<1> QED BY <1>1, <1>2

-----------------------------------------------------------------------------
(* What a reader of the page can rely on. *)

\* The window on screen is of the resolution and statistic whose buttons are pressed, whatever
\* answers come late or are kept from before (useGridStore.ts:81, App.tsx:67).
THEOREM WindowIsTheControls == Spec => []WindowIsOfControls
<1>1. PageInv => WindowIsOfControls
  BY AnswerSpeaks DEF PageInv, StoreInv, WindowOf, WindowIsOfControls
<1> QED BY <1>1, InitInv, StepInv, PTL DEF Spec

\* The slider names the period the map is painted with: its fallback for a cursor outside the
\* window is never needed, whichever window replaced which (TimeSlider.tsx:164).
THEOREM SliderReadsTheCursor == Spec => []ReadoutIsOfCursor
<1>1. ASSUME PageInv PROVE ReadoutIsOfCursor
  <2> SUFFICES ASSUME SliderShown
               PROVE  /\ SliderReadout.period = PeriodAtCursor(store)
                      /\ SliderReadout.behind + store.cursor = Length(store) - 1
    BY DEF ReadoutIsOfCursor
  <2>1. StoreInv(store) /\ LengthOK(store)
    BY <1>1, WindowHasLength DEF PageInv
  <2> DEFINE length == Length(store)
             c      == store.cursor
  <2>2. length \in Nat /\ length > 0 /\ store.window # Null
    BY <2>1 DEF LengthOK, SliderShown, Length
  <2>3. length = Len(store.window.periods) /\ DOMAIN store.window.periods = 1..length
    BY <2>1, <2>2 DEF LengthOK
  <2>4. c \in Nat /\ c < length /\ c + 1 \in 1..length
    <3>1. c \in Nat /\ (c = 0 \/ c < Len(store.window.periods))
      BY <2>1, <2>2 DEF StoreInv
    <3> HIDE DEF c, length
    <3> QED BY <2>2, <2>3, <3>1
  <2>5. SliderReadout.period = PeriodAtCursor(store)
    BY <2>3, <2>4 DEF SliderReadout, PeriodAtCursor
  <2>6. SliderReadout.behind = S!hoursBehind(c, length)
    BY <2>3 DEF SliderReadout
  <2> HIDE DEF c, length
  <2>7. S!clampIndex(c, length) = c
    <3>1. c \in 0..(length - 1) /\ c \in Int
      BY <2>2, <2>4
    <3>2. S!clampIndex(c, length) = clampCursor(c, length) /\ clampCursor(c, length) = c
      BY <2>2, <3>1, ClampIsInside
    <3> QED BY <3>2
  <2>8. S!hoursBehind(c, length) = length - 1 - c
    <3>1. S!hoursBehind(c, length) = Max({length - 1 - c, 0})
      BY <2>7 DEF S!hoursBehind, S!Max, Max
    <3> DEFINE d == length - 1 - c
    <3>2. d \in Int /\ d >= 0 /\ 0 \in Int
      BY <2>2, <2>4
    <3> HIDE DEF d
    <3>3. Max({d, 0}) \in {d, 0} /\ Max({d, 0}) >= d
      BY <3>2, MaxOfTwo
    <3>4. Max({d, 0}) = d
      BY <3>2, <3>3
    <3> QED BY <3>1, <3>4 DEF d
  <2>9. SliderReadout.behind + c = length - 1
    BY <2>2, <2>4, <2>6, <2>8
  <2> QED BY <2>5, <2>9 DEF c, length
<1> QED BY <1>1, InitInv, StepInv, PTL DEF Spec

\* A range is within the cap of its resolution: the whole hours of its periods, rounded up.
LEMMA RangeIsAdmitted ==
  ASSUME NEW r \in Resolutions, NEW t \in Hours
  PROVE  AdmitsWindow(rangeFor(r, t), r)
<1> DEFINE window == rangeFor(r, t)
           hours  == window.to - window.from + 1
           span   == spanHours[r]
           step   == APPROXIMATE_HOURS[r]
<1>1. t \in Nat /\ t >= 1
  BY MapAppConstants
<1>2. /\ window.to = t - 1 /\ window.from \in Int /\ span \in Nat
      /\ \/ window.from = t - span /\ window.from >= 0
         \/ window.from = 0 /\ t <= span
  BY RangeIsOfNumbers
<1>3. r \in {"hour", "day", "week", "month"}
  BY MapAppConstants DEF RESOLUTIONS
<1>4. span >= 1
  BY <1>3 DEF spanHours, RESOLUTIONS
<1> HIDE DEF window, span
<1>5. hours \in Int /\ 1 <= hours /\ hours <= span /\ window.from <= window.to
  BY <1>1, <1>2, <1>4
<1> HIDE DEF hours
<1>6. (hours + step - 1) \div step <= MAX_PERIODS[r]
  <2>1. CASE r = "hour"
    <3>1. span = 168 /\ step = 1 /\ MAX_PERIODS[r] = 168
      BY <2>1 DEF span, spanHours, APPROXIMATE_HOURS, MAX_PERIODS, RESOLUTIONS
    <3> HIDE DEF step
    <3> QED BY <1>5, <3>1
  <2>2. CASE r = "day"
    <3>1. span = 17520 /\ step = 24 /\ MAX_PERIODS[r] = 732
      BY <2>2 DEF span, spanHours, APPROXIMATE_HOURS, MAX_PERIODS, RESOLUTIONS
    <3> HIDE DEF step
    <3> QED BY <1>5, <3>1
  <2>3. CASE r = "week"
    <3>1. span = 43680 /\ step = 168 /\ MAX_PERIODS[r] = 261
      BY <2>3 DEF span, spanHours, APPROXIMATE_HOURS, MAX_PERIODS, RESOLUTIONS
    <3> HIDE DEF step
    <3> QED BY <1>5, <3>1
  <2>4. CASE r = "month"
    <3>1. span = 85680 /\ step = 720 /\ MAX_PERIODS[r] = 120
      BY <2>4 DEF span, spanHours, APPROXIMATE_HOURS, MAX_PERIODS, RESOLUTIONS
    <3> HIDE DEF step
    <3> QED BY <1>5, <3>1
  <2> QED BY <1>3, <2>1, <2>2, <2>3, <2>4
<1> QED BY <1>5, <1>6 DEF AdmitsWindow, hours, window

\* Every request of the page is one the API accepts: never refused for its range, and without
\* a statistic for hours, at any hour of the dataset (resolution.ts:8, period.ts:109).
THEOREM RequestsAreAdmitted == Spec => []RequestIsAdmitted
<1>1. ASSUME PageInv PROVE RequestIsAdmitted
  <2> DEFINE key == query.key
  <2>1. key[1] \in Resolutions /\ key[3] \in Hours
    BY <1>1 DEF PageInv, QueryInv, Keys
  <2>2. AdmitsWindow(rangeFor(key[1], key[3]), key[1])
    BY <2>1, RangeIsAdmitted
  <2>3. /\ RequestOf(key).window = rangeFor(key[1], key[3]) /\ RequestOf(key).resolution = key[1]
        /\ key[1] = "hour" => RequestOf(key).statistic = "mean"
    BY DEF RequestOf
  <2> HIDE DEF key
  <2>4. AdmitsStatistic(RequestOf(key).statistic, key[1])
    BY <2>3 DEF AdmitsStatistic
  <2>5. AdmitsWindow(RequestOf(key).window, RequestOf(key).resolution)
    BY <2>2, <2>3
  <2> QED BY <2>3, <2>4, <2>5 DEF RequestIsAdmitted, key
<1> QED BY <1>1, InitInv, StepInv, PTL DEF Spec

\* The stops between two different ends increase.
LEMMA StopsIncrease ==
  ASSUME NEW low \in Int, NEW high \in Int, low < high
  PROVE  LET stops == M!rampStops(<<low, high>>)
         IN  \A k \in 2..M!RampLength : stops[k - 1] < stops[k]
<1> DEFINE d     == high - low
           stops == M!rampStops(<<low, high>>)
<1>1. d \in Int /\ d > 0
  OBVIOUS
<1>2. stops = [k \in 1..6 |-> low * 5 + d * (k - 1)]
  BY DEF M!rampStops, M!RampLength
<1> HIDE DEF d, stops
<1>3. /\ stops[1] = low * 5 + d * 0 /\ stops[2] = low * 5 + d * 1 /\ stops[3] = low * 5 + d * 2
      /\ stops[4] = low * 5 + d * 3 /\ stops[5] = low * 5 + d * 4 /\ stops[6] = low * 5 + d * 5
  BY <1>2
<1>4. stops[1] < stops[2] /\ stops[2] < stops[3] /\ stops[3] < stops[4] /\ stops[4] < stops[5] /\ stops[5] < stops[6]
  BY <1>1, <1>3
<1>5. ASSUME NEW k \in 2..6 PROVE stops[k - 1] < stops[k]
  <2>1. k = 2 \/ k = 3 \/ k = 4 \/ k = 5 \/ k = 6
    OBVIOUS
  <2> QED BY <1>4, <2>1
<1> QED BY <1>5 DEF stops, M!RampLength

\* Whatever numbers a window holds, the ends of their scale differ.
LEMMA DomainIsScale ==
  ASSUME NEW metric \in DOMAIN M!METRICS, NEW values \in SUBSET (Readings \cup {Null})
  PROVE  \E low, high \in Int : low < high /\ M!computeDomain(M!METRICS[metric], values) = <<low, high>>
<1> DEFINE present == values \ {Null}
           low     == Min(present)
           high    == Max(present)
           extent  == Max({M!Magnitude(low), M!Magnitude(high)})
           kind    == M!METRICS[metric]
           domain  == M!computeDomain(kind, values)
<1>1. domain = IF kind.domain # Null THEN kind.domain
               ELSE IF present = {} THEN <<0, 1>>
               ELSE IF kind.diverging THEN IF extent = 0 THEN <<-1, 1>> ELSE <<-extent, extent>>
               ELSE IF low = high THEN <<low - 1, high + 1>>
               ELSE <<low, high>>
  BY DEF M!computeDomain, M!Min, M!Max, Min, Max
<1>2. kind.domain = <<0, 100>> \/ kind.domain = Null
  BY DEF M!METRICS
<1>3. IsFiniteSet(present) /\ present \in SUBSET Int
  <2>1. present \subseteq Readings
    OBVIOUS
  <2> QED BY <2>1, FS_Subset, MapAppConstants
<1> HIDE DEF kind, present, domain
<1>4. CASE kind.domain # Null
  <2>1. domain = <<0, 100>>
    BY <1>1, <1>2, <1>4
  <2>2. 0 \in Int /\ 100 \in Int /\ 0 < 100
    OBVIOUS
  <2> QED BY <2>1, <2>2 DEF domain, kind
<1>5. CASE kind.domain = Null /\ present = {}
  <2>1. domain = <<0, 1>>
    BY <1>1, <1>5
  <2>2. 0 \in Int /\ 1 \in Int /\ 0 < 1
    OBVIOUS
  <2> QED BY <2>1, <2>2 DEF domain, kind
<1>6. CASE kind.domain = Null /\ present # {}
  <2>1. low \in present /\ high \in present /\ (\A y \in present : low <= y /\ high >= y)
    BY <1>3, <1>6, MaxOf, MinOf
  <2>2. low \in Int /\ high \in Int /\ low <= high
    BY <1>3, <2>1
  <2> HIDE DEF low, high
  <2>3. M!Magnitude(low) \in Int /\ M!Magnitude(high) \in Int /\ M!Magnitude(low) >= 0 /\ M!Magnitude(high) >= 0
    BY <2>2 DEF M!Magnitude
  <2>4. extent \in Int /\ extent >= 0
    BY <2>3, MaxOfTwo
  <2> HIDE DEF extent
  <2>5. CASE kind.diverging /\ extent = 0
    <3>1. domain = <<-1, 1>>
      BY <1>1, <1>6, <2>5
    <3>2. -1 \in Int /\ 1 \in Int /\ -1 < 1
      OBVIOUS
    <3> QED BY <3>1, <3>2 DEF domain, kind
  <2>6. CASE kind.diverging /\ extent # 0
    <3>1. domain = <<-extent, extent>>
      BY <1>1, <1>6, <2>6
    <3>2. -extent \in Int /\ extent \in Int /\ -extent < extent
      BY <2>4, <2>6
    <3> QED BY <3>1, <3>2 DEF domain, kind
  <2>7. CASE ~ kind.diverging /\ low = high
    <3>1. domain = <<low - 1, high + 1>>
      BY <1>1, <1>6, <2>7
    <3>2. low - 1 \in Int /\ high + 1 \in Int /\ low - 1 < high + 1
      BY <2>2
    <3> QED BY <3>1, <3>2 DEF domain, kind
  <2>8. CASE ~ kind.diverging /\ low # high
    <3>1. domain = <<low, high>>
      BY <1>1, <1>6, <2>8
    <3>2. low < high
      BY <2>2, <2>8
    <3> QED BY <2>2, <3>1, <3>2 DEF domain, kind
  <2> QED BY <2>5, <2>6, <2>7, <2>8
<1> QED BY <1>4, <1>5, <1>6

\* A window of the API holds readings and nulls.
LEMMA WindowHoldsReadings ==
  ASSUME NEW tables \in Tables, NEW r \in Resolutions, NEW st \in Statistics, NEW w,
         WindowOf(w, tables, r, st), NEW place \in DOMAIN A!METRICS
  PROVE  valuesAcrossWindow(w, place) \in SUBSET (Readings \cup {Null})
<1>1. ASSUME NEW z \in DOMAIN w.zones, NEW i \in DOMAIN w.periods
      PROVE  w.zones[z][i][place] \in Readings \cup {Null}
  <2>1. w.zones[z][i] = ValuesIn(tables, r, st, w.periods[i], z)
    BY DEF WindowOf
  <2>2. IsEntry(w.zones[z][i])
    BY <2>1, StoredIsEntry
  <2> QED BY <2>2 DEF IsEntry
<1> QED BY <1>1 DEF valuesAcrossWindow

\* Once it has loaded the map shows what the slider is on: for every zone the window names the
\* value that is stored for the period, statistic and metric, in the colours of the legend,
\* whichever windows, metrics and cursors came before; on a zone it does not name, which has
\* nothing stored, what was painted last remains (map.ts:163, MapView.tsx:80, :255).
THEOREM MapIsOfTheTables == Spec => []MapShowsWhatIsStored
<1>1. ASSUME PageInv PROVE MapShowsWhatIsStored
  <2> SUFFICES ASSUME view.ready, store.window # Null PROVE MapShowsWhatIsStored
    BY DEF MapShowsWhatIsStored
  <2> DEFINE w     == store.window
             r     == store.resolution
             st    == store.statistic
             place == Position(store)
             scale == M!computeDomain(M!METRICS[store.metric], valuesAcrossWindow(w, place))
  <2>1. StoreInv(store) /\ ViewInv(store, view) /\ LengthOK(store)
    BY <1>1, WindowHasLength DEF PageInv
  <2>2. r \in Resolutions /\ st \in Statistics /\ store.metric \in DOMAIN M!METRICS
    BY <2>1 DEF StoreInv
  <2>3. PICK tables \in Tables : WindowOf(w, tables, r, st)
    BY <2>1, <2>2, AnswerSpeaks DEF StoreInv
  <2>4. /\ place = CHOOSE k \in DOMAIN A!METRICS : A!METRICS[k] = store.metric
        /\ place \in DOMAIN A!METRICS
    BY <2>2, SamePlace DEF Position
  <2>5. view.fill = [metric |-> store.metric, stops |-> M!rampStops(scale)]
    BY <2>1 DEF ViewInv, M!fillColourExpression
  <2>6. Legend.stops = M!rampStops(scale)
    BY DEF Legend
  <2>7. \A k \in 2..M!RampLength : Legend.stops[k - 1] < Legend.stops[k]
    <3>1. valuesAcrossWindow(w, place) \in SUBSET (Readings \cup {Null})
      BY <2>2, <2>3, <2>4, WindowHoldsReadings
    <3>2. PICK low \in Int, high \in Int : low < high /\ scale = <<low, high>>
      BY <2>2, <3>1, DomainIsScale
    <3> HIDE DEF scale
    <3> QED BY <2>6, <3>2, StopsIncrease
  <2> DEFINE p         == PeriodAtCursor(store)
             rows      == tables[r]
             Stored(z) == IF p \notin DOMAIN rows THEN Null
                          ELSE LET row == rows[p]
                               IN  IF z \notin DOMAIN row THEN Null
                                   ELSE LET values == IF r = "hour" THEN row[z] ELSE row[z][st]
                                        IN  values[CHOOSE k \in DOMAIN A!METRICS : A!METRICS[k] = store.metric]
  <2>8. ASSUME Length(store) # 0, NEW z \in Zones
        PROVE  /\ z \in DOMAIN w.zones => view.value[z] = Stored(z) /\ Listed(z) = Stored(z)
               /\ z \notin DOMAIN w.zones =>
                    /\ Stored(z) = Null /\ Listed(z) = Null
                    /\ view.value[z] = Null \/ WasStored(z, view.value[z])
    <3> DEFINE i == store.cursor + 1
    <3>1. i \in DOMAIN w.periods /\ i \in 1..Length(store)
      <4>1. Length(store) \in Nat /\ w.periods \in Seq(Int) /\ Length(store) = Len(w.periods)
        BY <2>1 DEF LengthOK
      <4>2. store.cursor \in Nat /\ (store.cursor = 0 \/ store.cursor < Len(w.periods))
        BY <2>1 DEF StoreInv
      <4>3. store.cursor < Len(w.periods)
        BY <2>8, <4>1, <4>2
      <4> QED BY <4>1, <4>2, <4>3
    <3>2. p = w.periods[i]
      BY <3>1 DEF PeriodAtCursor
    <3> HIDE DEF i, p, place
    <3>3. Stored(z) = ValuesIn(tables, r, st, p, z)[place]
      <4>1. ValuesIn(tables, r, st, p, z) = IF p \in DOMAIN rows /\ z \in DOMAIN rows[p]
                                             THEN IF r = "hour" THEN rows[p][z] ELSE rows[p][z][st]
                                             ELSE [k \in DOMAIN A!METRICS |-> Null]
        BY DEF ValuesIn, IsStored
      <4> QED BY <2>4, <4>1
    <3> HIDE DEF Stored
    <3>4. CASE z \in DOMAIN w.zones
      <4>1. DOMAIN w.zones[z] = DOMAIN w.periods /\ w.zones[z][i] = ValuesIn(tables, r, st, p, z)
        BY <2>3, <3>1, <3>2, <3>4 DEF WindowOf
      <4>2. valuesAtCursor(w, store.cursor, place)[z] = w.zones[z][i][place]
        BY <3>1, <3>4, <4>1 DEF valuesAtCursor, i
      <4>3. view.value[z] = valuesAtCursor(w, store.cursor, place)[z]
        BY <2>1, <3>4 DEF ViewInv, place
      <4>4. Listed(z) = valuesAtCursor(w, store.cursor, place)[z]
        BY <3>4 DEF Listed, valuesAtCursor, place
      <4> QED BY <3>3, <3>4, <4>1, <4>2, <4>3, <4>4
    <3>5. CASE z \notin DOMAIN w.zones
      <4>1. ~ IsStored(tables, r, p, z)
        BY <2>3, <3>1, <3>2, <3>5 DEF WindowOf
      <4>2. ValuesIn(tables, r, st, p, z)[place] = Null
        BY <2>4, <4>1 DEF ValuesIn
      <4>3. Listed(z) = Null
        BY <3>5 DEF Listed, valuesAtCursor
      <4>4. view.value[z] = Null \/ WasStored(z, view.value[z])
        BY <2>1 DEF ViewInv
      <4> QED BY <3>3, <3>5, <4>2, <4>3, <4>4
    <3> QED BY <3>4, <3>5
  <2> QED BY <2>3, <2>5, <2>6, <2>7, <2>8 DEF MapShowsWhatIsStored
<1> QED BY <1>1, InitInv, StepInv, PTL DEF Spec
=============================================================================
