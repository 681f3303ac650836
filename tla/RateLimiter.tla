---------------------------- MODULE RateLimiter ----------------------------
(***************************************************************************)
(* workers/eia/ratelimit.py: requests paced to a rate, under an hourly     *)
(* ceiling that raises.  The state of one RateLimiter, which lives as long *)
(* as the process that made it, and the three moments of `acquire` at      *)
(* which it reads the clock; time may pass between any two of them.        *)
(* Sleeping is being unable to go on.                                      *)
(***************************************************************************)
EXTENDS Integers, Sequences

CONSTANTS
    Second,       \* ticks in a second
    Hour,         \* ticks in an hour
    MaxTime       \* bound of the clock

ASSUME RateLimiterConstants ==
    /\ Second \in Nat \ {0} /\ Hour \in Nat /\ MaxTime \in Nat
    /\ Second <= Hour /\ Hour % Second = 0

VARIABLES
    clock,        \* time.monotonic(), in ticks
    per_second,
    per_hour,
    recent,       \* _recent: stamps
    hourly,       \* _hourly
    sent          \* history: every stamp of this limiter's life

limiter == <<per_second, per_hour, recent, hourly, sent>>

\* RateLimiter(per_second=s, per_hour=h)
NewLimiter(s, h) == per_second' = s /\ per_hour' = h /\ recent' = <<>> /\ hourly' = <<>> /\ sent' = <<>>

\* while q and now - q[0] >= span: q.popleft()
Expired(q, span, rest) ==
    \E k \in 0..Len(q) :
        /\ \A i \in 1..k : clock - q[i] >= span
        /\ k < Len(q) => clock - q[k + 1] < span
        /\ rest = SubSeq(q, k + 1, Len(q))

\* Variant: one request too many.
CheckOneTooMany == Expired(hourly, Hour, hourly') /\ Len(hourly') <= per_hour

\* The hourly ceiling: room left, or an exception.
CheckCeiling   == Expired(hourly, Hour, hourly') /\ Len(hourly') < per_hour
CeilingRaises  == Expired(hourly, Hour, hourly') /\ Len(hourly') >= per_hour

\* Variant: one more than the rate.
PaceOneTooMany == Expired(recent, Second, recent') /\ Len(recent') <= per_second

\* The loop that sleeps has found room in the last second.
Pace == Expired(recent, Second, recent') /\ Len(recent') < per_second

\* The request is stamped, with a third reading of the clock.
Stamp == /\ recent' = Append(recent, clock)
         /\ hourly' = Append(hourly, clock)
         /\ sent' = Append(sent, clock)

\* sustainable_rate: the rate that holds all hour, at least one.
FasterRate(h)      == h \div (Hour \div Second) + 1
SustainableRate(h) == IF h \div (Hour \div Second) < 1 THEN 1 ELSE h \div (Hour \div Second)

-----------------------------------------------------------------------------
LimiterTypeOK ==
    /\ clock \in Nat /\ per_second \in Nat \ {0} /\ per_hour \in Nat
    /\ recent \in Seq(Nat) /\ hourly \in Seq(Nat) /\ sent \in Seq(Nat)

\* Any n + 1 consecutive requests span at least that much time.
Spread(n, span) == \A i, j \in 1..Len(sent) : i + n <= j => sent[j] - sent[i] >= span

\* In no hour, wherever it starts, does a client send more requests than its ceiling,
\* although the ceiling is checked before the wait that precedes the request
\* (ratelimit.py, acquire).
HourlyCeiling == Spread(per_hour, Hour)

\* In no second, wherever it starts, does it send more than its rate.
PacePerSecond == Spread(per_second, Second)
=============================================================================
