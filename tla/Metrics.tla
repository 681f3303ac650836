------------------------------- MODULE Metrics -------------------------------
(***************************************************************************)
(* How a value becomes a colour: packages/web/src/lib/metrics.ts and       *)
(* paint.ts.  Values are integers, a share is a percentage, and a ramp is   *)
(* the number of its colours.                                               *)
(***************************************************************************)
EXTENDS Integers, FiniteSetsExt

CONSTANTS Null          \* JavaScript's null: nothing was reported

METRIC_ORDER == <<"demand_mw", "net_generation_mw", "net_interchange_mw",
                  "renewable_share", "low_carbon_share">>

\* The position of a metric's value in every payload.
metricIndex(metric) == CHOOSE k \in DOMAIN METRIC_ORDER : METRIC_ORDER[k] = metric

RampLength == 6

\* A fixed domain for the shares; a diverging metric is centred on zero.
METRICS == [m \in {"demand_mw", "net_generation_mw", "net_interchange_mw",
                   "renewable_share", "low_carbon_share"} |->
              [domain    |-> IF m \in {"renewable_share", "low_carbon_share"}
                             THEN <<0, 100>> ELSE Null,
               diverging |-> m = "net_interchange_mw"]]

Magnitude(x) == IF x < 0 THEN -x ELSE x

computeDomain(definition, values) ==
  LET present == values \ {Null}
      low     == Min(present)
      high    == Max(present)
      extent  == Max({Magnitude(low), Magnitude(high)})
  IN  IF definition.domain # Null THEN definition.domain
      ELSE IF present = {} THEN <<0, 1>>
      ELSE IF definition.diverging
           THEN IF extent = 0 THEN <<-1, 1>> ELSE <<-extent, extent>>
      ELSE IF low = high THEN <<low - 1, high + 1>>
      ELSE <<low, high>>

\* The stops, multiplied by the number of steps between them to stay integers.
rampStops(domain) ==
  [k \in 1..RampLength |-> domain[1] * (RampLength - 1) + (domain[2] - domain[1]) * (k - 1)]

\* What the layer's fill is set to: one expression for all the zones.
fillColourExpression(metric, values) ==
  [metric |-> metric, stops |-> rampStops(computeDomain(METRICS[metric], values))]
=============================================================================
