------------------------------ MODULE MCIngest ------------------------------
(***************************************************************************)
(* A small instance: three hours and two days, of which hour 3 starts one.  *)
(***************************************************************************)
EXTENDS Ingest, TLC

CONSTANTS p, b, v, s, g   \* a poll, a backfill, a revise, the two rebuild commands

MCKind == [j \in Jobs |-> CASE j = p -> "poll" [] j = b -> "backfill" [] j = v -> "revise"
                            [] j = s -> "rebuild" [] j = g -> "aggregate"]

\* Rows 1 to 3: region, hours 1 to 3; row 4: the mix of hour 2.  EIA restates row 2
\* once and publishes row 4 late; the other rows are there from the start.
MCDataset     == <<"region", "region", "region", "mix">>
MCHourOf      == <<1, 2, 3, 2>>
MCBucketHours == 4 :> {1, 2} @@ 5 :> {3}
MCResolution  == 4 :> 1 @@ 5 :> 1
MCMaxVersion  == <<1, 2, 1, 1>>

\* poll asks for the two newest hours, revise for all; hour 1 is one day of the
\* backfill and hour 2 another.
MCWindows == [j \in Jobs |-> CASE j = p -> {{2, 3, 4}} [] j = v -> {{1, 2, 3, 4}}
                               [] j = b -> {{1}, {2, 4}} [] OTHER -> {}]
=============================================================================
