------------------------------ MODULE ZoneDetail ------------------------------
(***************************************************************************)
(* GET /zones/:key as it runs: the cache in front of it, its queries each in *)
(* a transaction of its own, and the warming job that asks for it hourly     *)
(* (zone-detail.ts, lib/db.ts, workers/eia/warm.py).                         *)
(*                                                                         *)
(* One zone of the registry.  Its rows are what n commits of the ingest jobs *)
(* left, of which each brought a newer hour: a query is the number of commits*)
(* it sees.  The clock counts hours, and a request ends within its hour: the *)
(* pools cut statements off after 5 and 20 seconds (STATEMENT_TIMEOUT_MS,    *)
(* BUILD_STATEMENT_TIMEOUT_MS).                                              *)
(***************************************************************************)
EXTENDS Api

CONSTANTS
  Zone, Keys,            \* the zone, and the keys somebody asks for
  Windows,               \* the windows asked for
  Queries,               \* the queries that run side by side; they differ in name only
  Heavy,                 \* those a reader's pool may not get done in time
  Readers, Warmer,       \* concurrent requests of readers, and the warming job's
  CACHE_MAX_AGE_HOURS,
  MaxHour, MaxCommits   \* bounds

Z == INSTANCE ZoneSeries

Requests == Readers \cup {Warmer}
Cached   == {w \in Windows : Z!Cacheable(w)}

\* One pass of the warming job: the places in its list, of the windows there are here.
BUCKETED_WINDOWS == <<"30d", "90d", "1y", "all">>
Pass == {i \in 1..4 : BUCKETED_WINDOWS[i] \in Windows}

ASSUME DetailAssumption ==
  /\ Zone \in Keys /\ Windows \subseteq DOMAIN Z!WINDOWS /\ Warmer \notin Readers
  /\ CACHE_MAX_AGE_HOURS \in Nat \ {0} /\ MaxHour \in Nat /\ MaxCommits \in Nat

VARIABLES
  hour,       \* the clock
  commits,    \* commits that brought rows of the zone
  history,    \* history[h]: the commits there were when hour h began
  cache,      \* zone_detail_cache: window -> Null or an entry
  request,    \* request[r]: its parameters, where its handler is, and its answer
  warming     \* the places the job has yet to come to in this pass
detailVars == <<hour, commits, history, cache, request, warming>>

NoRequest == [pc |-> "done", answer |-> Null]

DetailInit ==
  /\ hour = 0
  /\ commits = 0
  /\ history = <<>>
  /\ cache = [w \in Cached |-> Null]
  /\ request = [r \in Requests |-> NoRequest]
  /\ warming = Pass

Goes(r, fields) == request' = [request EXCEPT ![r] = Updated(request[r], fields)]

Answers(r, status, document) ==
  Goes(r, [pc |-> "done", answer |-> [status |-> status, document |-> document]])

Throws(r, error) == Answers(r, StatusOf(error), Null)

\* A statement fails: it is cut off, or refused, and the error ends the handler.
Fails(r) == Faulty /\ \E error \in {timedOut, dbError} : Throws(r, error)

-----------------------------------------------------------------------------
(* The world around the handler. *)

Publish ==
  /\ commits < MaxCommits
  /\ commits' = commits + 1
  /\ UNCHANGED <<hour, history, cache, request, warming, faults>>

\* An hour begins; at :25 the scheduler starts the job, unless its last run is still on.  One
\* that was killed leaves the rest of its pass.
Tick ==
  /\ hour < MaxHour
  /\ \A r \in Requests : request[r].pc = "done"
  /\ hour' = hour + 1
  /\ history' = Append(history, commits)
  /\ warming' \in IF warming = {} THEN {Pass} ELSE {warming, Pass}
  /\ request' = [r \in Requests |-> NoRequest]
  /\ UNCHANGED <<commits, cache, faults>>

Asks(r, key, window, build) ==
  /\ request[r].pc = "done"
  /\ request' = [request EXCEPT ![r] =
        [key |-> key, window |-> window, build |-> build /\ Z!Cacheable(window), asked |-> commits,
         pc |-> IF Z!Cacheable(window) THEN "cache" ELSE "zone",
         latest |-> Null, seen |-> [q \in {} |-> Null], answer |-> Null]]
  /\ UNCHANGED <<hour, commits, history, cache, faults>>

\* A reader.  nginx removes the header that would make its request a build.
Ask(r) ==
  /\ r \in Readers /\ request[r] = NoRequest
  /\ \E key \in Keys, window \in Windows : Asks(r, key, window, FALSE)
  /\ UNCHANGED warming

\* warm_zone_detail: one window after the other, whatever came of the last.
Warm(r) ==
  /\ r = Warmer
  /\ \E i \in warming :
       /\ \A j \in warming : i <= j
       /\ Asks(r, Zone, BUCKETED_WINDOWS[i], TRUE)
       /\ warming' = warming \ {i}

-----------------------------------------------------------------------------
(* The handler. *)

At(r, pc) == request[r].pc = pc

\* Variants: any entry is the answer; a read that fails ends the handler without one.
ReadCacheOfAnyAge(r) ==
  /\ At(r, "cache")
  /\ LET entry == IF request[r].key = Zone THEN cache[request[r].window] ELSE Null
     IN  \/ entry # Null /\ Answers(r, 200, entry.payload)
         \/ entry = Null /\ Goes(r, [pc |-> "zone"])
  /\ UNCHANGED <<hour, commits, history, cache, warming, faults>>
ReadCacheOrStop(r) ==
  /\ At(r, "cache")
  /\ \/ Goes(r, [pc |-> "zone"]) /\ UNCHANGED faults
     \/ Faulty /\ Goes(r, [pc |-> "stopped"])
  /\ UNCHANGED <<hour, commits, history, cache, warming>>

\* An entry young enough is the answer; one that cannot be read is passed over.
ReadCache(r) ==
  /\ At(r, "cache")
  /\ LET entry == IF request[r].key = Zone THEN cache[request[r].window] ELSE Null
         Young == entry # Null /\ entry.built_at > hour - CACHE_MAX_AGE_HOURS
     IN  \/ Young  /\ Answers(r, 200, entry.payload) /\ UNCHANGED faults
         \/ ~Young /\ Goes(r, [pc |-> "zone"]) /\ UNCHANGED faults
         \/ Faulty /\ Goes(r, [pc |-> "zone"])
  /\ UNCHANGED <<hour, commits, history, cache, warming>>

ReadZone(r) ==
  /\ At(r, "zone")
  /\ \/ request[r].key = Zone /\ Goes(r, [pc |-> "bounds"]) /\ UNCHANGED faults
     \/ request[r].key # Zone /\ Throws(r, notFound) /\ UNCHANGED faults
     \/ Fails(r)
  /\ UNCHANGED <<hour, commits, history, cache, warming>>

Document(latest, seen) == [latest |-> latest, seen |-> seen, built |-> hour]

\* A zone without rows has an empty document, which is not stored.
ReadBounds(r) ==
  /\ At(r, "bounds")
  /\ \/ commits = 0 /\ Answers(r, 200, Document(0, [q \in {} |-> Null])) /\ UNCHANGED faults
     \/ commits > 0 /\ Goes(r, [pc |-> "queries", latest |-> commits]) /\ UNCHANGED faults
     \/ Fails(r)
  /\ UNCHANGED <<hour, commits, history, cache, warming>>

\* Promise.all: the queries run side by side, each seeing what is committed then.
ReadPart(r) ==
  /\ At(r, "queries")
  /\ \E q \in Queries \ DOMAIN request[r].seen :
       LET old  == request[r].seen
           seen == [x \in DOMAIN old \cup {q} |-> IF x = q THEN commits ELSE old[x]]
       IN  Goes(r, [seen |-> seen,
                    pc |-> IF DOMAIN seen = Queries THEN "assembled" ELSE "queries"])
  /\ UNCHANGED <<hour, commits, history, cache, warming, faults>>

\* The first query that fails answers for all: a reader's may take too long.
PartFails(r) ==
  /\ At(r, "queries")
  /\ \/ request[r].window \in Heavy /\ ~request[r].build /\ Throws(r, timedOut) /\ UNCHANGED faults
     \/ Fails(r)
  /\ UNCHANGED <<hour, commits, history, cache, warming>>

\* Variant: the newest hour is looked up after the queries.
StoreWithNewest(r) ==
  /\ At(r, "assembled")
  /\ Answers(r, 200, Document(commits, request[r].seen))
  /\ UNCHANGED <<hour, commits, history, cache, warming, faults>>

\* Stored as sent, if the window is cached; then sent, also if the upsert failed, or was not heard
\* of again.
Store(r) ==
  /\ At(r, "assembled")
  /\ LET document == Document(request[r].latest, request[r].seen)
         window   == request[r].window
         stored   == [cache EXCEPT ![window] = [payload |-> document, built_at |-> hour]]
     IN  /\ Answers(r, 200, document)
         /\ \/ window \in Cached /\ cache' = stored /\ UNCHANGED faults
            \/ window \in Cached /\ cache' \in {stored, cache} /\ Faulty
            \/ window \notin Cached /\ UNCHANGED <<cache, faults>>
  /\ UNCHANGED <<hour, commits, history, warming>>

Handle(r) ==
  ReadCache(r) \/ ReadZone(r) \/ ReadBounds(r) \/ ReadPart(r) \/ PartFails(r) \/ Store(r)

DetailNext ==
  \/ Publish \/ Tick
  \/ \E r \in Requests : Ask(r) \/ Warm(r) \/ Handle(r)

-----------------------------------------------------------------------------
(* Properties. *)

Answered(r) == At(r, "done") /\ request[r].answer # Null /\ request[r].answer.status = 200

\* The hour an answer calls the newest is in every one of its parts, although the jobs commit
\* between the queries (zone-detail.ts:252).
NewestHourIsThere ==
  \A r \in Requests : Answered(r) =>
    LET document == request[r].answer.document
    IN  \A q \in DOMAIN document.seen : document.seen[q] >= document.latest

\* An answer is not older than it may be: an hourly one knows every commit before the question,
\* a stored one those CACHE_MAX_AGE_HOURS before, and once the zone has published, no answer
\* is empty (zone-detail.ts:45).
AnswersAreRecent ==
  \A r \in Requests : Answered(r) =>
    LET since == hour - CACHE_MAX_AGE_HOURS + 1
        known == IF ~Z!Cacheable(request[r].window) THEN request[r].asked
                 ELSE IF since <= 0 THEN 0 ELSE history[since]
    IN  request[r].answer.document.latest >= Max({known, Min({request[r].asked, 1})})
=============================================================================
