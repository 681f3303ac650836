------------------------------- MODULE Series -------------------------------
(***************************************************************************)
(* The index arithmetic of the slider and the series a chart is given:      *)
(* packages/web/src/lib/slider.ts, series.ts.  An index counts from 0 as in *)
(* the code; a period is a number of hours, which orders as its ISO text.   *)
(***************************************************************************)
EXTENDS Integers, Sequences, SequencesExt, FiniteSetsExt

CONSTANTS Null, MIX_ORDER, STORAGE_MODES

clampIndex(index, length) ==
  IF length <= 0 THEN 0 ELSE Min({Max({index, 0}), length - 1})

nextPlaybackIndex(index, length) ==
  IF length <= 0 THEN 0 ELSE (clampIndex(index, length) + 1) % length

SliderKeys == {"ArrowLeft", "ArrowRight", "PageUp", "PageDown", "Home", "End"}

indexForKey(key, current, length, page) ==
  CASE key = "ArrowLeft"  -> clampIndex(current - 1, length)
    [] key = "ArrowRight" -> clampIndex(current + 1, length)
    [] key = "PageDown"   -> clampIndex(current - page, length)
    [] key = "PageUp"     -> clampIndex(current + page, length)
    [] key = "Home"       -> 0
    [] key = "End"        -> clampIndex(length - 1, length)

hoursBehind(index, length) == Max({length - 1 - clampIndex(index, length), 0})

\* The element at a zero-based index; nothing where the code reads undefined.
At(sequence, index) ==
  IF index # Null /\ index + 1 \in DOMAIN sequence THEN sequence[index + 1] ELSE Null

\* Variant: the first period at or after the target.
indexFromPeriod(periods, target) ==
  IF target = Null \/ periods = <<>> \/ (target # Null /\ periods # <<>> /\ target > Last(periods))
  THEN Null
  ELSE Min({i \in DOMAIN periods : periods[i] >= target}) - 1

\* The last period at or before the target; nothing before the first one.
indexForPeriod(periods, target) ==
  IF target = Null \/ periods = <<>> \/ (target # Null /\ periods # <<>> /\ target < periods[1])
  THEN Null
  ELSE Max({i \in DOMAIN periods : periods[i] <= target}) - 1

\* The newest index at which one of the sequences holds a value, else the last one.
newestWith(sequences, length) ==
  LET reported == {i \in 1..length : \E s \in sequences : At(s, i - 1) # Null}
  IN  IF reported = {} THEN Max({length - 1, 0}) ELSE Max(reported) - 1

missingHours(values) == Cardinality({i \in DOMAIN values : values[i] = Null})

ModeAt(series, mode, i) ==
  IF mode \in DOMAIN series.mix THEN At(series.mix[mode], i - 1) ELSE Null

buildDemandData(series) ==
  [data        |-> <<series.period, series.demand, series.forecast>>,
   hasForecast |-> \E i \in DOMAIN series.forecast : series.forecast[i] # Null,
   horizons    |-> {series.horizon[i] : i \in DOMAIN series.horizon} \ {Null}]

\* Variant: a mode that did not report ends the running total.
TotalsToTheGap(values) ==
  LET total[k \in 0..Len(values)] ==
        IF k = 0 THEN Null
        ELSE IF values[k] = Null THEN Null
        ELSE (IF total[k - 1] = Null THEN 0 ELSE total[k - 1]) + values[k]
  IN  total

\* What the first k modes of an hour add up to; one that did not report leaves the total as it is.
RunningTotals(values) ==
  LET total[k \in 0..Len(values)] ==
        IF k = 0 THEN Null
        ELSE IF values[k] = Null THEN total[k - 1]
        ELSE (IF total[k - 1] = Null THEN 0 ELSE total[k - 1]) + values[k]
  IN  total

\* The modes that reported at all, in the order of the chart.
Present(series) ==
  LET reported(mode) == \E i \in DOMAIN series.period : ModeAt(series, mode, i) # Null
      among[k \in 0..Len(MIX_ORDER)] ==
        IF k = 0 THEN <<>>
        ELSE IF reported(MIX_ORDER[k]) THEN Append(among[k - 1], MIX_ORDER[k])
        ELSE among[k - 1]
  IN  among[Len(MIX_ORDER)]

\* Running totals, mode after mode; the chart draws the last one first.
buildMixData(series) ==
  LET hours   == DOMAIN series.period
      present == Present(series)
      totals  == [i \in hours |->
                    RunningTotals([k \in DOMAIN present |-> ModeAt(series, present[k], i)])]
      bands   == [k \in DOMAIN present |-> [i \in hours |-> totals[i][k]]]
  IN  [data          |-> <<series.period>> \o Reverse(bands),
       modes         |-> present,
       seriesColours |-> Reverse(present),
       raw           |-> [k \in DOMAIN present |-> [i \in hours |-> ModeAt(series, present[k], i)]]]

netStorage(series, index) ==
  LET reported == {mode \in STORAGE_MODES : ModeAt(series, mode, index + 1) # Null}
  IN  IF reported = {} THEN Null
      ELSE SumFunction([mode \in reported |-> ModeAt(series, mode, index + 1)])
=============================================================================
