------------------------------- MODULE MCServing -------------------------------
(***************************************************************************)
(* One reader and the warming job; two page views of one visitor and one of  *)
(* another, over three days; configurations of three modes and two zones.    *)
(***************************************************************************)
EXTENDS Serving

CONSTANTS a, b, u   \* two zones, and a key nobody registered

Modes == <<"coal", "wind", "store">>

Lists == {SelectSeq(Modes, LAMBDA m : m \in S) : S \in SUBSET {"wind", "store"}}

MCZone(key, respondent, type, parent, in_map) ==
  [key |-> key, eia_respondent |-> respondent, type |-> type, parent |-> parent,
   in_map |-> in_map, interconnection |-> IF type = "region" THEN Null ELSE "eastern"]

GoodZones == <<MCZone(a, "A", "balancing_authority", b, TRUE), MCZone(b, "B", "region", Null, FALSE)>>
GoodModes ==
  [canonical_modes |-> Modes, renewable |-> <<"wind">>, low_carbon |-> <<"wind">>,
   excluded_from_mix_percent |-> <<"store">>, sources |-> "eia" :> ("COL" :> "coal" @@ "WND" :> "wind")]
GoodConfig ==
  [zones |-> GoodZones, excludedRespondents |-> <<[code |-> "X"]>>, modes |-> GoodModes,
   sources |-> <<[id |-> "eia"]>>]

\* Any way to sort two modes beside coal, and one mistake each in the other files.
MCConfigs ==
  {[GoodConfig EXCEPT !.modes = [GoodModes EXCEPT
       !.renewable = r, !.low_carbon = l, !.excluded_from_mix_percent = e]] :
     r \in Lists, l \in Lists, e \in Lists}
  \cup {[GoodConfig EXCEPT !.zones = z] :
          z \in {<<>>,
                 Append(GoodZones, MCZone("c", "A", "balancing_authority", Null, TRUE)),
                 Append(GoodZones, MCZone("c", "C", "region", Null, TRUE)),
                 Append(GoodZones, MCZone("c", "C", "balancing_authority", "d", TRUE))}}
  \cup {[GoodConfig EXCEPT !.excludedRespondents = <<[code |-> "B"]>>],
        [GoodConfig EXCEPT !.sources = <<>>]}

\* The newest hour is 5 March 2019, noon; thirty days before it begin inside a day, and hour 780
\* lies in that day before the window.
Latest == 1524
AllOff == [m \in {"coal", "wind", "store"} |-> Null]
MixOf(generated) == 781 :> generated @@ 1500 :> [AllOff EXCEPT !["coal"] = 5, !["store"] = -9]
Issues == {[target |-> 1500, issue |-> 1476, value |-> 8], [target |-> 1500, issue |-> 1460, value |-> 9],
           [target |-> 1500, issue |-> 1490, value |-> 5], [target |-> 1501, issue |-> 1500, value |-> 7]}

Rows(region, mix, issues, window) ==
  [region |-> region, mix |-> mix, issues |-> issues, window |-> window, latest |-> Latest]

\* Which hours were reported, under the deployed modes; what was generated, under any.
MCCases ==
  {<<GoodConfig, Rows(f, MixOf(AllOff), Issues, w)>> :
     f \in [{780, 805, 1500, Latest} -> {Null, 4, 7}], w \in {"168h", "30d"}}
  \cup {<<c, Rows(805 :> 4 @@ Latest :> 7, MixOf("coal" :> 3 @@ h), Issues, "all")>> :
          c \in MCConfigs, h \in [{"wind", "store"} -> {Null, -4, 6}]}

MCVisitorOf == <<"x", "x", "y">>
=============================================================================
