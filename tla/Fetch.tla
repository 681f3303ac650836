------------------------------- MODULE Fetch -------------------------------
(***************************************************************************)
(* A job's conversation with EIA (workers/eia/client.py) and what becomes  *)
(* of the answer: pages by offset over a dataset that grows meanwhile,     *)
(* retries, the limiter, the fold of rows into observations                *)
(* (workers/eia/mappers.py) and their upsert.                              *)
(*                                                                         *)
(* Abstraction.  One query, over one window, asked again and again by      *)
(* processes that come and go.  Its rows are numbered in the order EIA     *)
(* sorts them; each is one series (or fuel) of one zone-hour.  EIA's sort  *)
(* is by period alone: that it breaks ties the same way on every page is   *)
(* assumed of it.  Values are the matter of Ingest; here a row counts.     *)
(***************************************************************************)
EXTENDS RateLimiter, SequencesExt, Ascending

CONSTANTS
    RowIds,            \* 1..n, in EIA's order
    Opening,           \* the sets of rows EIA may hold when the story starts
    ZoneHour,          \* [RowIds -> Nat], the observation a row belongs to
    PageSize,
    MaxAttempts,       \* MAX_ATTEMPTS
    DefaultLimits,     \* <<MAX_REQUESTS_PER_SECOND, MAX_REQUESTS_PER_HOUR>>
    BackfillPerHour,   \* --max-per-hour
    MaxStarts,         \* bound: processes started
    Unknown            \* no total yet

ASSUME FetchConstants ==
    /\ RowIds \subseteq Nat /\ IsFiniteSet(RowIds) /\ Opening \subseteq SUBSET RowIds
    /\ ZoneHour \in [RowIds -> Nat]
    /\ PageSize \in Nat \ {0} /\ MaxAttempts \in Nat \ {0}
    /\ DefaultLimits \in (Nat \ {0}) \X (Nat \ {0})
    /\ BackfillPerHour \in Nat /\ MaxStarts \in Nat /\ Unknown \notin Nat

VARIABLES
    held,        \* rows EIA holds
    stored,      \* how many times each row is in the stored observations, 0: NULL
    starts,
    pc,          \* where the process is in the query
    attempt, offset, total,
    answer,      \* rows yielded so far
    first,       \* history: rows EIA held when it served the first page
    disturbed    \* history: the pages do not belong together

query == <<attempt, offset, total, answer, first, disturbed>>
fetchVars == <<clock, per_second, per_hour, recent, hourly, sent,
               held, stored, starts, pc, attempt, offset, total, answer, first, disturbed>>

InQuery == pc \notin {"ended", "idle"}

-----------------------------------------------------------------------------
FetchInit ==
    /\ clock = 0 /\ per_second = DefaultLimits[1] /\ per_hour = DefaultLimits[2]
    /\ recent = <<>> /\ hourly = <<>> /\ sent = <<>>
    /\ held \in Opening
    /\ stored = [r \in RowIds |-> 0]
    /\ starts = 0
    /\ pc = "ended"
    /\ attempt = 1 /\ offset = 0 /\ total = Unknown /\ answer = <<>>
    /\ first = {} /\ disturbed = FALSE

TimePasses ==
    /\ clock < MaxTime /\ clock' = clock + 1
    /\ UNCHANGED limiter
    /\ UNCHANGED query
    /\ UNCHANGED <<held, stored, starts, pc>>

\* EIA publishes a row.  Behind what it held at the first page it disturbs nothing.
Publish ==
    /\ \E r \in RowIds \ held :
          /\ held' = held \cup {r}
          /\ disturbed' = (disturbed \/ \E s \in first : r < s)
    /\ UNCHANGED limiter
    /\ UNCHANGED <<clock, stored, starts, pc, attempt, offset, total, answer, first>>

\* A job starts: its client has a limiter of its own, the default one, or that of
\* backfill.
StartProcess ==
    /\ pc = "ended"
    /\ starts < MaxStarts
    /\ starts' = starts + 1
    /\ \/ NewLimiter(DefaultLimits[1], DefaultLimits[2])
       \/ NewLimiter(SustainableRate(BackfillPerHour), BackfillPerHour)
    /\ pc' = "idle"
    /\ UNCHANGED <<clock, held, stored>>
    /\ UNCHANGED query

\* The process ends, with its job done or because it is killed.
EndProcess ==
    /\ pc # "ended"
    /\ pc' = "ended"
    /\ answer' = <<>> /\ first' = {} /\ disturbed' = FALSE
    /\ attempt' = 1 /\ offset' = 0 /\ total' = Unknown
    /\ UNCHANGED limiter
    /\ UNCHANGED <<clock, held, stored, starts>>

\* iter_rows
StartQuery ==
    /\ pc = "idle"
    /\ pc' = "check"
    /\ attempt' = 1 /\ offset' = 0 /\ total' = Unknown /\ answer' = <<>>
    /\ first' = {} /\ disturbed' = FALSE
    /\ UNCHANGED limiter
    /\ UNCHANGED <<clock, held, stored, starts>>

\* acquire, in its three moments; an exception ends the job.
Check == /\ pc = "check"
         /\ CheckCeiling
         /\ pc' = "pace"
         /\ UNCHANGED <<clock, per_second, per_hour, recent, sent, held, stored, starts>>
         /\ UNCHANGED query
Raise == /\ pc = "check"
         /\ CeilingRaises
         /\ pc' = "ended"
         /\ UNCHANGED <<clock, per_second, per_hour, recent, sent, held, stored, starts>>
         /\ UNCHANGED query
Wait ==  /\ pc = "pace"
         /\ Pace
         /\ pc' = "stamp"
         /\ UNCHANGED <<clock, per_second, per_hour, hourly, sent, held, stored, starts>>
         /\ UNCHANGED query
Send ==  /\ pc = "stamp"
         /\ Stamp
         /\ pc' = "sent"
         /\ UNCHANGED <<clock, per_second, per_hour, held, stored, starts>>
         /\ UNCHANGED query

\* The page EIA serves at an offset.
PageAt(o) == LET s == Ascending(held)
             IN  SubSeq(s, o + 1, IF o + PageSize < Len(s) THEN o + PageSize ELSE Len(s))

\* Variant: the next page starts one row early.
PageOverlapping(page, count) ==
    /\ pc = "sent"
    /\ total' = IF total = Unknown THEN count ELSE total
    /\ first' = IF total = Unknown THEN held ELSE first
    /\ answer' = answer \o page
    /\ attempt' = 1
    /\ IF page = <<>> \/ Len(answer') >= total'
       THEN pc' = "write" /\ UNCHANGED offset
       ELSE pc' = "check" /\ offset' = offset + PageSize - 1

\* HTTP 200: the rows are yielded, and the first page's total says when to stop.
Page(page, count) ==
    /\ pc = "sent"
    /\ total' = IF total = Unknown THEN count ELSE total
    /\ first' = IF total = Unknown THEN held ELSE first
    /\ answer' = answer \o page
    /\ attempt' = 1
    /\ IF page = <<>> \/ Len(answer') >= total'
       THEN pc' = "write" /\ UNCHANGED offset
       ELSE pc' = "check" /\ offset' = offset + PageSize

\* EIA answers with the page; with an empty one, rows outstanding or not; or without
\* a total, which is taken for 0.
Reply ==
    /\ \/ Page(PageAt(offset), Cardinality(held)) /\ UNCHANGED disturbed
       \/ Page(<<>>, Cardinality(held)) /\ disturbed' = (disturbed \/ PageAt(offset) # <<>>)
       \/ total = Unknown /\ Page(PageAt(offset), 0) /\ disturbed' = TRUE
    /\ UNCHANGED limiter
    /\ UNCHANGED <<clock, held, stored, starts>>

\* A timeout, a transport error, 429 or 5xx: the request is sent again.
Retry ==
    /\ pc = "sent" /\ attempt < MaxAttempts
    /\ attempt' = attempt + 1
    /\ pc' = "check"
    /\ UNCHANGED limiter
    /\ UNCHANGED <<clock, held, stored, starts, offset, total, answer, first, disturbed>>

\* Variant: what came before the error is kept.
GiveUpKeepingPages ==
    /\ pc = "sent"
    /\ pc' = "write"
    /\ UNCHANGED limiter
    /\ UNCHANGED query
    /\ UNCHANGED <<clock, held, stored, starts>>

\* The third such failure, a rejection on the merits, or an answer that is none.
GiveUp ==
    /\ pc = "sent"
    /\ pc' = "ended"
    /\ UNCHANGED limiter
    /\ UNCHANGED query
    /\ UNCHANGED <<clock, held, stored, starts>>

\* map_region_rows, map_fuel_rows and the writers: every observation the answer speaks
\* of replaces the stored one, series the answer lacks included (and is committed:
\* Ingest takes the transaction apart).
Folded == {ZoneHour[r] : r \in ToSet(answer)}
Times(r) == Cardinality({i \in 1..Len(answer) : answer[i] = r})
Write ==
    /\ pc = "write"
    /\ stored' = [r \in RowIds |-> IF ZoneHour[r] \in Folded THEN Times(r) ELSE stored[r]]
    /\ pc' = "idle"
    /\ UNCHANGED limiter
    /\ UNCHANGED query
    /\ UNCHANGED <<clock, held, starts>>

FetchNext == \/ TimePasses \/ Publish \/ StartProcess \/ EndProcess \/ StartQuery
             \/ Check \/ Raise \/ Wait \/ Send \/ Reply \/ Retry \/ GiveUp \/ Write

FetchSpec == FetchInit /\ [][FetchNext]_fetchVars
-----------------------------------------------------------------------------
\* However many pages, retries and rows published meanwhile: an answer whose pages
\* belong together holds every row EIA had at the first page once, and no row twice
\* (client.py, "Every row for a query"; a row that came twice would be added twice by
\* map_fuel_rows).
AnswerIsComplete ==
    pc = "write" /\ ~disturbed =>
        /\ first \subseteq ToSet(answer)
        /\ IsInjective(answer)

\* A number once stored is not lost to an answer that stopped early: neither a failing
\* query nor a retried one puts NULL in its place, unless the pages do not belong
\* together.
NumbersAreKept ==
    [][\A r \in RowIds : stored[r] = 1 /\ ~disturbed => stored'[r] = 1]_fetchVars

\* The hourly ceiling stops a job that has just sent that many requests in an hour and
\* no other one; and not the backfill's client, whose long run "never reaches the
\* ceiling" (sustainable_rate), where the ceiling is above one request a second and its
\* rounding leaves the rate room to spare.
RoomToSpare == LET seconds == Hour \div Second
               IN  BackfillPerHour > seconds /\ BackfillPerHour % seconds # 0
CeilingStopsOnlyTheHasty ==
    [][Raise => /\ Cardinality({i \in 1..Len(sent) : clock - sent[i] < Hour}) >= per_hour
                /\ RoomToSpare => <<per_second, per_hour>> = DefaultLimits]_fetchVars
=============================================================================
