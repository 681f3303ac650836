------------------------------ MODULE MixShares ------------------------------
(***************************************************************************)
(* The shares of a generation mix as the three places that derive them do:  *)
(* the mapper on write (workers/eia/mappers.py), recompute-shares in SQL     *)
(* (workers/db/shares.py), and the sums of a coarse document (workers/db/    *)
(* aggregates.py).  A mix is a function from modes to megawatts or Null; a   *)
(* configuration has sets of modes.  An hour's share is in ten-thousandths,  *)
(* a document's in thousandths.                                              *)
(***************************************************************************)
EXTENDS Integers, FiniteSetsExt, Functions

CONSTANTS Null

Parts == {"renewable", "low_carbon"}

Counted(config) == config.canonical_modes \ config.excluded_from_mix_percent

Reported(mix) == {m \in DOMAIN mix : mix[m] # Null}
Total(mix, modes) == SumFunctionOnSet(mix, modes \cap Reported(mix))
Generated(mix, modes) == SumFunction([m \in modes \cap Reported(mix) |-> Max({mix[m], 0})])

\* Decimal.quantize: to the nearest, and to the even one of two.
HalfEven(n, d) ==
  LET floor == n \div d
      twice == 2 * (n % d)
  IN  IF twice > d \/ (twice = d /\ floor % 2 = 1) THEN floor + 1 ELSE floor

\* PostgreSQL's round(numeric): to the nearest, and away from zero.
HalfAway(n, d) == (2 * n + d) \div (2 * d)

\* compute_shares, total_generation_mw: what the counted modes add up to, as it was reported.
total_generation(mix, config) ==
  IF Counted(config) \cap Reported(mix) = {} THEN Null ELSE Total(mix, Counted(config))

\* compute_shares, the shares: nothing is known of an hour whose counted modes do not add up to something.
compute_shares(mix, config) ==
  LET counted == Counted(config)
      whole   == Generated(mix, counted)
  IN  [p \in Parts |->
         IF Total(mix, counted) <= 0 THEN Null
         ELSE Min({Max({HalfEven(10000 * Generated(mix, config[p] \cap counted), whole), 0}), 10000})]

\* recompute_shares: the expression of the UPDATE.
recomputed(mix, config) ==
  LET counted == Counted(config)
      whole   == Generated(mix, counted)
  IN  [p \in Parts |->
         IF whole <= 0 THEN Null
         ELSE HalfAway(10000 * Generated(mix, config[p] \cap counted), whole)]

\* Variant: what is excluded from every share is counted here.
SumsOfAllModes(mixes, config) ==
  LET Sum(modes) == SumFunction([h \in DOMAIN mixes |-> Total(mixes[h], modes)])
      whole == Sum(config.canonical_modes)
  IN  [p \in Parts |-> IF DOMAIN mixes = {} \/ whole <= 0 THEN Null
                       ELSE HalfEven(1000 * Sum(config[p]), whole)]

\* _aggregate_query and _share: sums over hours of what was reported, as it was reported.
ShareOfSums(mixes, config) ==
  LET Sum(modes) == SumFunction([h \in DOMAIN mixes |-> Total(mixes[h], modes)])
      whole == Sum(Counted(config))
  IN  [p \in Parts |-> IF DOMAIN mixes = {} \/ whole <= 0 THEN Null
                       ELSE HalfEven(1000 * Sum(config[p]), whole)]
=============================================================================
