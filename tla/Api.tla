---------------------------------- MODULE Api ----------------------------------
(***************************************************************************)
(* What the routes of the API share: packages/api/src/app.ts, lib/errors.ts.*)
(***************************************************************************)
EXTENDS Integers, Sequences, FiniteSets, FiniteSetsExt, Functions, TLC

CONSTANTS
  Null,
  MaxFaults   \* bound

VARIABLE faults   \* how many statements have failed

\* ApiError's named constructors.
notFound    == [kind |-> "api", status |-> 404]
badRequest  == [kind |-> "api", status |-> 400]
unavailable == [kind |-> "api", status |-> 503]

\* What else a route throws: a statement cut off by its timeout, or the database's refusal.
timedOut == [kind |-> "57014"]
dbError  == [kind |-> "other"]

\* setErrorHandler: the status a thrown error is answered with.
StatusOf(error) ==
  CASE error.kind = "api"   -> error.status
    [] error.kind = "57014" -> 503
    [] OTHER                -> 500

\* The database refuses one statement, cuts it off, or is not heard of again: `MaxFaults` times.
Faulty == faults < MaxFaults /\ faults' = faults + 1

\* What a handler knows after a statement gave some of its variables their values.
Updated(record, fields) ==
  [x \in DOMAIN record |-> IF x \in DOMAIN fields THEN fields[x] ELSE record[x]]
=============================================================================
