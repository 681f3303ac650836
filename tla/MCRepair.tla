------------------------------- MODULE MCRepair -------------------------------
(***************************************************************************)
(* Three hours of the week that the new year of 2020 divides; one renewable   *)
(* mode, one that counts and may consume, and one that is excluded today and  *)
(* was not before.                                                           *)
(***************************************************************************)
EXTENDS Repair, TLC

Mix(wind, unknown, battery) == "wind" :> wind @@ "unknown" :> unknown @@ "battery" :> battery
Answer(interchange, mix) == [interchange |-> interchange, mix |-> mix]

MCConfig == [canonical_modes |-> {"wind", "unknown", "battery"}, renewable |-> {"wind"},
             low_carbon |-> {"wind"}, excluded_from_mix_percent |-> {"battery"}]
MCFormer == [MCConfig EXCEPT !.excluded_from_mix_percent = {}]

\* 31 December, 1 and 2 January.
MCHours == {8736, 8760, 8784}

\* A share halfway between two; a mix that, but for storage, consumes more than it generates; one
\* with storage, in an hour EIA gives no interchange of; and an hour without a mix, which exports as
\* much as others import.
Halfway   == Answer(4, Mix(1, 31, Null))
Outweighs == Answer(4, Mix(6, -9, 5))
Stores    == Answer(Null, Mix(3, 1, 5))
NoMix     == Answer(-4, Null)

MCAnswers == {Stores, NoMix}

\* Two hours were ingested before.
MCHistories == {[h \in {8736, 8760} |-> IF h = 8736 THEN Halfway ELSE Outweighs]}
=============================================================================
