------------------------------ MODULE MCMapApp ------------------------------
(***************************************************************************)
(* Two zones, the last two hours or two days of a window, and one turn of  *)
(* the hour.  Zone b has one hour and one day; the newest hour is not        *)
(* ingested yet, and the newest day may not be built yet.                    *)
(***************************************************************************)
EXTENDS MapApp, TLC

CONSTANTS a, b

\* 22 July 2026, 08:00 and 09:00.
MCHours == {66200, 66201}

MCReadings == -1..70

MCMaxSpan == [hour |-> 2, day |-> 30]

Of(demand, interchange) == <<demand, 5, interchange, 60, 70>>
Both(mean, peak) == [mean |-> Of(mean, 1), peak |-> Of(peak, 2)]

HourRows ==
     66198 :> (a :> Of(4, -1) @@ b :> Of(8, Null))
  @@ 66199 :> (a :> Of(7, 2))
DayRows ==
     66168 :> (a :> Both(5, 6) @@ b :> Both(9, 11))
  @@ 66192 :> (a :> Both(4, 4))

MCTables == {[hour |-> HourRows, day |-> DayRows],
             [hour |-> HourRows, day |-> [p \in {66168} |-> DayRows[p]]]}
=============================================================================
