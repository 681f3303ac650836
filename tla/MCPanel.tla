------------------------------- MODULE MCPanel -------------------------------
(***************************************************************************)
(* Two zones and two windows, beside a map of hours or of days.  The hourly *)
(* documents end an hour before the map does; zone b stores and discharges,  *)
(* reports two modes as zone a does (but not the same two), and has no       *)
(* document for the month.                                                   *)
(***************************************************************************)
EXTENDS Panel, TLC

CONSTANTS a, b

MCMixOrder == <<"coal", "gas", "battery_storage">>

Reading(v) == <<v, Null, Null, Null, Null>>

MCMapWindows ==
  {[periods |-> <<23, 24, 25>>, resolution |-> "hour", statistic |-> Null,
    zones |-> a :> <<Reading(4), Reading(5), Reading(Null)>>],
   [periods |-> <<0, 24>>, resolution |-> "day", statistic |-> "mean",
    zones |-> a :> <<Reading(4), Reading(5)>>]}

Z == INSTANCE ZoneSeries

Document(z, w, latest, period, demand, forecast, mix) ==
  [zone |-> z, window |-> w, bucket |-> Z!WINDOWS[w].bucket, latest |-> latest,
   series |-> [period |-> period, demand |-> demand, forecast |-> forecast,
               horizon |-> forecast, mix |-> mix]]

MCDocs ==
     a :> ("168h" :> Document(a, "168h", 24, <<22, 23, 24>>, <<3, 4, Null>>, <<Null, 4, 5>>,
                             "coal" :> <<1, Null, 2>> @@ "gas" :> <<Null, Null, 3>>)
        @@ "30d" :> Document(a, "30d", 24, <<0, 24>>, <<3, 5>>, <<Null, Null>>,
                             "coal" :> <<1, 2>>))
  @@ b :> ("168h" :> Document(b, "168h", 23, <<22, 23>>, <<7, 8>>, <<Null, Null>>,
                             "gas" :> <<4, 4>> @@ "battery_storage" :> <<-2, Null>>)
        @@ "30d" :> Document(b, "30d", Null, <<>>, <<>>, <<>>, [m \in {} |-> <<>>]))
=============================================================================
