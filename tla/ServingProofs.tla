---------------------------- MODULE ServingProofs ----------------------------
(***************************************************************************)
(* A zone's detail, for any windows, queries, readers, commits and faults,  *)
(* beside the warming job and through the cache: the hour an answer calls    *)
(* the newest is in all of its parts, and an answer is not older than it     *)
(* may be.  The invariant says of a stored document what the age of an entry *)
(* promises, and of a handler what it has read in this hour.                 *)
(* Then page views, a visitor of which counts once a day, and the charts,    *)
(* whose every point is what was read in its bucket.                         *)
(***************************************************************************)
EXTENDS Serving, DataProofs

Fields == {"key", "window", "build", "asked", "pc", "latest", "seen", "answer"}

\* The commits there were when hour h began.
Before(h) == IF h = 0 THEN 0 ELSE history[h]

HistoryInv ==
  /\ hour \in Nat /\ commits \in Nat /\ history \in Seq(Nat) /\ Len(history) = hour
  /\ \A i, j \in 1..hour : i <= j => history[i] <= history[j]
  /\ \A i \in 1..hour : history[i] <= commits

\* A document's parts hold the hour it calls the newest.
Whole(document) ==
  /\ document.latest \in Nat
  /\ \A q \in DOMAIN document.seen : document.seen[q] >= document.latest

\* What an answer to a question for a window, asked at a commit, knows at least.
Known(window, asked) ==
  LET since == hour - CACHE_MAX_AGE_HOURS + 1
  IN  IF ~Z!Cacheable(window) THEN asked ELSE IF since <= 0 THEN 0 ELSE history[since]

Good(document, window, asked) ==
  /\ Whole(document)
  /\ document.latest >= Known(window, asked)
  /\ asked > 0 => document.latest >= 1

EntryInv(entry) ==
  /\ entry.built_at \in 0..hour
  /\ Whole(entry.payload)
  /\ entry.payload.latest >= 1 /\ entry.payload.latest >= Before(entry.built_at)

CacheInv == DOMAIN cache = Cached /\ \A w \in Cached : cache[w] # Null => EntryInv(cache[w])

\* A handler whose queries run has read the newest hour in this one.
Reading(q) ==
  /\ q.latest \in 1..commits /\ q.latest >= q.asked /\ q.latest >= Before(hour)
  /\ \A x \in DOMAIN q.seen : q.seen[x] \in Nat /\ q.seen[x] >= q.latest

RequestInv(q) ==
  \/ q = NoRequest
  \/ /\ DOMAIN q = Fields
     /\ q.window \in Windows /\ q.asked \in 0..commits
     /\ q.pc = "cache" => Z!Cacheable(q.window)
     /\ q.pc \in {"cache", "zone", "bounds"} => DOMAIN q.seen = {}
     /\ q.pc \in {"queries", "assembled"} => Reading(q)
     /\ q.pc = "done" /\ q.answer # Null /\ q.answer.status = 200 =>
          Good(q.answer.document, q.window, q.asked)

RequestsInv == DOMAIN request = Requests /\ \A r \in Requests : RequestInv(request[r])

\* The inductive invariant.
DetailInv == HistoryInv /\ CacheInv /\ RequestsInv /\ warming \subseteq Pass

-----------------------------------------------------------------------------
(* The handler's local state. *)

LEMMA Moved ==
  ASSUME NEW q, DOMAIN q = Fields, NEW v
  PROVE  LET x == Updated(q, [pc |-> v])
         IN  /\ DOMAIN x = Fields /\ x.pc = v
             /\ x.window = q.window /\ x.asked = q.asked /\ x.latest = q.latest
             /\ x.seen = q.seen /\ x.answer = q.answer
  BY DEF Fields, Updated

LEMMA MovedLatest ==
  ASSUME NEW q, DOMAIN q = Fields, NEW v, NEW l
  PROVE  LET x == Updated(q, [pc |-> v, latest |-> l])
         IN  /\ DOMAIN x = Fields /\ x.pc = v /\ x.latest = l
             /\ x.window = q.window /\ x.asked = q.asked /\ x.seen = q.seen /\ x.answer = q.answer
  BY DEF Fields, Updated

LEMMA MovedSeen ==
  ASSUME NEW q, DOMAIN q = Fields, NEW v, NEW s
  PROVE  LET x == Updated(q, [seen |-> s, pc |-> v])
         IN  /\ DOMAIN x = Fields /\ x.pc = v /\ x.seen = s
             /\ x.window = q.window /\ x.asked = q.asked /\ x.latest = q.latest /\ x.answer = q.answer
  BY DEF Fields, Updated

LEMMA MovedAnswer ==
  ASSUME NEW q, DOMAIN q = Fields, NEW a
  PROVE  LET x == Updated(q, [pc |-> "done", answer |-> a])
         IN  /\ DOMAIN x = Fields /\ x.pc = "done" /\ x.answer = a
             /\ x.window = q.window /\ x.asked = q.asked
  BY DEF Fields, Updated

\* A step of one handler that neither the clock nor a commit interferes with.
LEMMA OneRequest ==
  ASSUME DetailInv, NEW r \in Requests, NEW x, RequestInv(x),
         request' = [request EXCEPT ![r] = x], UNCHANGED <<hour, commits, history>>,
         warming' \subseteq warming, CacheInv'
  PROVE  DetailInv'
<1>1. HistoryInv'
  BY DEF DetailInv, HistoryInv
<1>2. DOMAIN request' = Requests /\ \A p \in Requests : request'[p] = IF p = r THEN x ELSE request[p]
  BY DEF DetailInv, RequestsInv
<1>3. ASSUME NEW q, RequestInv(q) PROVE RequestInv(q)'
  BY <1>3 DEF RequestInv, Reading, Good, Known, Before
<1>4. \A p \in Requests : RequestInv(request'[p])
  BY <1>2 DEF DetailInv, RequestsInv
<1>5. \A p \in Requests : RequestInv(request[p])'
  BY <1>4 DEF RequestInv, Reading, Good, Known, Before
<1> QED BY <1>1, <1>2, <1>5 DEF DetailInv, RequestsInv

LEMMA CacheStays ==
  ASSUME DetailInv, UNCHANGED <<hour, history, cache>>
  PROVE  CacheInv'
  BY DEF DetailInv, CacheInv, EntryInv, Before
-----------------------------------------------------------------------------
(* The handler, statement by statement. *)

\* A request with a handler has all its fields.
LEMMA Handled ==
  ASSUME DetailInv, NEW r \in Requests, ~At(r, "done")
  PROVE  /\ DOMAIN request[r] = Fields
         /\ request[r].window \in Windows /\ request[r].asked \in 0..commits
         /\ RequestInv(request[r])
  BY DEF DetailInv, RequestsInv, RequestInv, NoRequest, At

\* A handler that goes on without having read anything that counts.
LEMMA GoesOn ==
  ASSUME DetailInv, NEW r \in Requests, At(r, "cache") \/ At(r, "zone"), NEW v \in {"zone", "bounds"},
         Goes(r, [pc |-> v]), UNCHANGED <<hour, commits, history, cache, warming>>
  PROVE  DetailInv'
<1> DEFINE x == Updated(request[r], [pc |-> v])
<1>1. request[r].pc \in {"cache", "zone"} /\ DOMAIN request[r] = Fields /\ ~At(r, "done")
  BY Handled DEF At
<1>2. /\ DOMAIN x = Fields /\ x.pc = v /\ x.seen = request[r].seen
      /\ x.window = request[r].window /\ x.asked = request[r].asked
  BY <1>1, Moved
<1>3. DOMAIN request[r].seen = {}
  BY <1>1, Handled DEF RequestInv, NoRequest
<1> HIDE DEF x
<1>4. RequestInv(x)
  BY <1>1, <1>2, <1>3, Handled DEF RequestInv
<1> QED BY <1>4, OneRequest, CacheStays DEF Goes, x

\* An answer that is an error, or is good.
LEMMA AnswersWell ==
  ASSUME DetailInv, NEW r \in Requests, ~At(r, "done"), NEW status, NEW document,
         Answers(r, status, document), UNCHANGED <<hour, commits, history, warming>>, CacheInv',
         status = 200 => Good(document, request[r].window, request[r].asked)
  PROVE  DetailInv'
<1> DEFINE a == [status |-> status, document |-> document]
           x == Updated(request[r], [pc |-> "done", answer |-> a])
<1>1. RequestInv(x)
  BY Handled, MovedAnswer DEF RequestInv
<1> QED BY <1>1, OneRequest DEF Answers, Goes

LEMMA ThrowsWell ==
  ASSUME DetailInv, NEW r \in Requests, ~At(r, "done"),
         NEW error \in {notFound, timedOut, dbError},
         Throws(r, error), UNCHANGED <<hour, commits, history, cache, warming>>
  PROVE  DetailInv'
<1>1. StatusOf(error) # 200
  BY DEF StatusOf, notFound, timedOut, dbError
<1> QED BY <1>1, AnswersWell, CacheStays DEF Throws

\* What was known when this hour began is known to whoever reads in it.
LEMMA KnownBefore ==
  ASSUME DetailInv, NEW window, NEW asked \in 0..commits, NEW n \in Nat,
         n >= asked, n >= Before(hour)
  PROVE  n >= Known(window, asked)
  BY DetailAssumption DEF DetailInv, HistoryInv, Known, Before

\* An entry that is young enough is a good answer to any question of this hour.
LEMMA YoungIsGood ==
  ASSUME DetailInv, NEW entry, EntryInv(entry), entry.built_at > hour - CACHE_MAX_AGE_HOURS,
         NEW window, Z!Cacheable(window), NEW asked \in 0..commits
  PROVE  Good(entry.payload, window, asked)
<1> DEFINE since == hour - CACHE_MAX_AGE_HOURS + 1
<1>1. since > 0 => entry.payload.latest >= history[since]
  <2> SUFFICES ASSUME since > 0 PROVE entry.payload.latest >= history[since]
    OBVIOUS
  <2>1. since \in 1..hour /\ entry.built_at \in 1..hour /\ since <= entry.built_at
    BY DetailAssumption DEF DetailInv, HistoryInv, EntryInv
  <2>2. history[since] <= history[entry.built_at] /\ history[since] \in Nat /\ history[entry.built_at] \in Nat
    BY <2>1 DEF DetailInv, HistoryInv
  <2> QED BY <2>1, <2>2 DEF EntryInv, Before, Whole
<1>2. entry.payload.latest \in Nat /\ entry.payload.latest >= 1 /\ Whole(entry.payload)
  BY DEF EntryInv, Whole
<1>3. Known(window, asked) = IF since <= 0 THEN 0 ELSE history[since]
  BY DEF Known
<1>4. since \in Int
  BY DetailAssumption DEF DetailInv, HistoryInv
<1> HIDE DEF since
<1>5. entry.payload.latest >= Known(window, asked)
  BY <1>1, <1>2, <1>3, <1>4
<1> QED BY <1>2, <1>5 DEF Good

\* A statement that fails ends the handler with an error.
LEMMA FailsWell ==
  ASSUME DetailInv, NEW r \in Requests, ~At(r, "done"), Fails(r),
         UNCHANGED <<hour, commits, history, cache, warming>>
  PROVE  DetailInv'
<1>1. PICK error \in {timedOut, dbError} : Throws(r, error)
  BY DEF Fails
<1> QED BY <1>1, ThrowsWell

LEMMA ReadCacheKeeps ==
  ASSUME DetailInv, NEW r \in Requests, ReadCache(r)
  PROVE  DetailInv'
<1> DEFINE entry == IF request[r].key = Zone THEN cache[request[r].window] ELSE Null
<1>1. At(r, "cache") /\ ~At(r, "done") /\ UNCHANGED <<hour, commits, history, cache, warming>>
  BY DEF ReadCache, At
<1>2. CASE Goes(r, [pc |-> "zone"])
  BY <1>1, <1>2, GoesOn
<1>3. CASE /\ entry # Null /\ entry.built_at > hour - CACHE_MAX_AGE_HOURS
           /\ Answers(r, 200, entry.payload)
  <2>1. Z!Cacheable(request[r].window) /\ request[r].window \in Cached
    BY <1>1, Handled DEF RequestInv, NoRequest, ReadCache, At, Cached
  <2>2. EntryInv(entry)
    BY <1>3, <2>1 DEF DetailInv, CacheInv
  <2>3. Good(entry.payload, request[r].window, request[r].asked)
    BY <1>1, <1>3, <2>1, <2>2, YoungIsGood, Handled
  <2> QED BY <1>1, <1>3, <2>3, AnswersWell, CacheStays
<1> QED BY <1>2, <1>3 DEF ReadCache

LEMMA ReadZoneKeeps ==
  ASSUME DetailInv, NEW r \in Requests, ReadZone(r)
  PROVE  DetailInv'
<1>1. At(r, "zone") /\ ~At(r, "done") /\ UNCHANGED <<hour, commits, history, cache, warming>>
  BY DEF ReadZone, At
<1> QED BY <1>1, GoesOn, ThrowsWell, FailsWell DEF ReadZone

LEMMA ReadBoundsKeeps ==
  ASSUME DetailInv, NEW r \in Requests, ReadBounds(r)
  PROVE  DetailInv'
<1>1. ~At(r, "done") /\ UNCHANGED <<hour, commits, history, cache, warming>>
  BY DEF ReadBounds, At
<1>2. CASE commits = 0 /\ Answers(r, 200, Document(0, [q \in {} |-> Null]))
  <2> DEFINE document == Document(0, [q \in {} |-> Null])
  <2>1. request[r].asked = 0
    BY <1>1, <1>2, Handled
  <2>2. document.latest = 0 /\ Whole(document)
    BY DEF Document, Whole
  <2>3. 0 >= Before(hour)
    BY <1>2 DEF DetailInv, HistoryInv, Before
  <2>4. Good(document, request[r].window, request[r].asked)
    BY <1>1, <2>1, <2>2, <2>3, KnownBefore, Handled DEF Good
  <2> QED BY <1>1, <1>2, <2>4, AnswersWell, CacheStays
<1>3. CASE commits > 0 /\ Goes(r, [pc |-> "queries", latest |-> commits])
  <2> DEFINE x == Updated(request[r], [pc |-> "queries", latest |-> commits])
  <2>1. Before(hour) <= commits
    BY DEF DetailInv, HistoryInv, Before
  <2>2. DOMAIN request[r].seen = {}
    BY <1>1, Handled DEF RequestInv, NoRequest, ReadBounds, At
  <2>3. /\ DOMAIN x = Fields /\ x.pc = "queries" /\ x.latest = commits
        /\ x.window = request[r].window /\ x.asked = request[r].asked /\ x.seen = request[r].seen
    BY <1>1, Handled, MovedLatest
  <2>4. Reading(x)
    BY <1>1, <1>3, <2>1, <2>2, <2>3, Handled DEF Reading, DetailInv, HistoryInv
  <2>5. RequestInv(x)
    BY <1>1, <2>3, <2>4, Handled DEF RequestInv
  <2> QED BY <1>1, <1>3, <2>5, OneRequest, CacheStays DEF Goes
<1>4. CASE Fails(r)
  BY <1>1, <1>4, FailsWell
<1> QED BY <1>2, <1>3, <1>4 DEF ReadBounds

LEMMA ReadPartKeeps ==
  ASSUME DetailInv, NEW r \in Requests, ReadPart(r)
  PROVE  DetailInv'
<1>1. ~At(r, "done") /\ UNCHANGED <<hour, commits, history, cache, warming>>
  BY DEF ReadPart, At
<1> DEFINE old     == request[r].seen
           Seen(q) == [x \in DOMAIN old \cup {q} |-> IF x = q THEN commits ELSE old[x]]
           Pc(q)   == IF DOMAIN Seen(q) = Queries THEN "assembled" ELSE "queries"
           Next_(q) == Updated(request[r], [seen |-> Seen(q), pc |-> Pc(q)])
<1>2. PICK q \in Queries : request' = [request EXCEPT ![r] = Next_(q)]
  BY DEF ReadPart, Goes
<1>3. Reading(request[r])
  BY <1>1, Handled DEF RequestInv, NoRequest, ReadPart, At
<1>4. \A x \in DOMAIN Seen(q) : Seen(q)[x] \in Nat /\ Seen(q)[x] >= request[r].latest
  BY <1>3 DEF Reading, DetailInv, HistoryInv
<1> HIDE DEF Seen
<1>5. /\ DOMAIN Next_(q) = Fields /\ Next_(q).pc = Pc(q) /\ Next_(q).seen = Seen(q)
      /\ Next_(q).window = request[r].window /\ Next_(q).asked = request[r].asked
      /\ Next_(q).latest = request[r].latest
  BY <1>1, Handled, MovedSeen
<1> HIDE DEF Next_
<1>6. Reading(Next_(q))
  BY <1>3, <1>4, <1>5 DEF Reading
<1>7. Next_(q).pc \in {"queries", "assembled"}
  BY <1>5
<1>8. RequestInv(Next_(q))
  BY <1>1, <1>5, <1>6, <1>7, Handled DEF RequestInv
<1> QED BY <1>1, <1>2, <1>8, OneRequest, CacheStays

LEMMA PartFailsKeeps ==
  ASSUME DetailInv, NEW r \in Requests, PartFails(r)
  PROVE  DetailInv'
<1>1. ~At(r, "done") /\ UNCHANGED <<hour, commits, history, cache, warming>>
  BY DEF PartFails, At
<1> QED BY <1>1, ThrowsWell, FailsWell DEF PartFails

LEMMA StoreKeeps ==
  ASSUME DetailInv, NEW r \in Requests, Store(r)
  PROVE  DetailInv'
<1> DEFINE document == Document(request[r].latest, request[r].seen)
           entry    == [payload |-> document, built_at |-> hour]
<1>1. ~At(r, "done") /\ UNCHANGED <<hour, commits, history, warming>>
  BY DEF Store, At
<1>2. Reading(request[r])
  BY <1>1, Handled DEF RequestInv, NoRequest, Store, At
<1>3. document.latest = request[r].latest /\ document.seen = request[r].seen
  BY DEF Document
<1>4. Whole(document) /\ document.latest >= 1 /\ document.latest >= Before(hour)
  BY <1>2, <1>3 DEF Reading, Whole, DetailInv, HistoryInv
<1>5. Good(document, request[r].window, request[r].asked)
  BY <1>1, <1>2, <1>3, <1>4, KnownBefore, Handled DEF Good, Reading, Whole
<1>6. EntryInv(entry)
  BY <1>4 DEF EntryInv, DetailInv, HistoryInv
<1>7. CacheInv'
  <2>1. UNCHANGED cache \/ cache' = [cache EXCEPT ![request[r].window] = entry]
    BY DEF Store
  <2>2. CASE cache' = [cache EXCEPT ![request[r].window] = entry]
    <3>1. \A w \in Cached : cache'[w] # Null => EntryInv(cache'[w])
      BY <1>6, <2>2 DEF DetailInv, CacheInv
    <3>2. \A w \in Cached : cache'[w] # Null => EntryInv(cache[w])'
      BY <1>1, <3>1 DEF EntryInv, Before
    <3> QED BY <2>2, <3>2 DEF DetailInv, CacheInv
  <2> QED BY <1>1, <2>1, <2>2, CacheStays
<1>8. Answers(r, 200, document)
  BY DEF Store
<1> QED BY <1>1, <1>5, <1>7, <1>8, AnswersWell

-----------------------------------------------------------------------------
(* The world around the handler. *)

\* A record that is asked of now.
LEMMA AsksWell ==
  ASSUME DetailInv, NEW r \in Requests, NEW key, NEW window \in Windows, NEW build,
         Asks(r, key, window, build), warming' \subseteq warming
  PROVE  DetailInv'
<1> DEFINE x == [key |-> key, window |-> window, build |-> build /\ Z!Cacheable(window),
                 asked |-> commits, pc |-> IF Z!Cacheable(window) THEN "cache" ELSE "zone",
                 latest |-> Null, seen |-> [q \in {} |-> Null], answer |-> Null]
<1>1. /\ request' = [request EXCEPT ![r] = x]
      /\ UNCHANGED <<hour, commits, history, cache>>
  BY DEF Asks
<1>2. /\ DOMAIN x = Fields /\ x.window = window /\ x.asked = commits /\ DOMAIN x.seen = {}
      /\ x.pc = IF Z!Cacheable(window) THEN "cache" ELSE "zone"
  BY DEF Fields
<1> HIDE DEF x
<1>3. RequestInv(x)
  BY <1>2 DEF RequestInv, DetailInv, HistoryInv
<1> QED BY <1>1, <1>3, OneRequest, CacheStays

LEMMA AskKeeps ==
  ASSUME DetailInv, NEW r \in Requests, Ask(r)
  PROVE  DetailInv'
BY AsksWell DEF Ask, DetailInv

LEMMA WarmKeeps ==
  ASSUME DetailInv, NEW r \in Requests, Warm(r)
  PROVE  DetailInv'
<1>1. PICK i \in warming : Asks(r, Zone, BUCKETED_WINDOWS[i], TRUE) /\ warming' = warming \ {i}
  BY DEF Warm
<1>2. BUCKETED_WINDOWS[i] \in Windows
  BY <1>1 DEF DetailInv, Pass
<1> QED BY <1>1, <1>2, AsksWell

LEMMA PublishKeeps ==
  ASSUME DetailInv, Publish
  PROVE  DetailInv'
<1>1. commits' = commits + 1 /\ UNCHANGED <<hour, history, cache, request, warming>>
  BY DEF Publish
<1>2. HistoryInv'
  BY <1>1 DEF DetailInv, HistoryInv
<1>3. CacheInv'
  BY <1>1, CacheStays
<1>4. ASSUME NEW q, RequestInv(q) PROVE RequestInv(q)'
  BY <1>1, <1>4 DEF RequestInv, Reading, Good, Known, Before, DetailInv, HistoryInv
<1> QED BY <1>1, <1>2, <1>3, <1>4 DEF DetailInv, RequestsInv

\* The clock: what was known when an earlier hour began stays what it was.
LEMMA TickKeeps ==
  ASSUME DetailInv, Tick
  PROVE  DetailInv'
<1>1. /\ hour' = hour + 1 /\ history' = Append(history, commits)
      /\ request' = [r \in Requests |-> NoRequest] /\ UNCHANGED <<commits, cache>>
      /\ warming' \subseteq Pass
  BY DEF Tick, DetailInv
<1>2. /\ Len(history') = hour' /\ history' \in Seq(Nat) /\ history'[hour'] = commits
      /\ \A i \in 1..hour : history'[i] = history[i]
  BY <1>1 DEF DetailInv, HistoryInv
<1>3. HistoryInv'
  BY <1>1, <1>2 DEF DetailInv, HistoryInv
<1>4. ASSUME NEW entry, EntryInv(entry) PROVE EntryInv(entry)'
  BY <1>1, <1>2, <1>4 DEF EntryInv, Before, DetailInv, HistoryInv
<1>5. CacheInv'
  BY <1>1, <1>4 DEF DetailInv, CacheInv
<1>6. RequestsInv'
  BY <1>1 DEF RequestsInv, RequestInv
<1> QED BY <1>1, <1>3, <1>5, <1>6 DEF DetailInv

-----------------------------------------------------------------------------
(* The API. *)

LEMMA DetailStarts == DetailInit => DetailInv
BY DEF DetailInit, DetailInv, HistoryInv, CacheInv, RequestsInv, RequestInv

LEMMA DetailKeeps == DetailInv /\ DetailNext => DetailInv'
<1> SUFFICES ASSUME DetailInv, DetailNext PROVE DetailInv'
  OBVIOUS
<1>1. CASE Publish
  BY <1>1, PublishKeeps
<1>2. CASE Tick
  BY <1>2, TickKeeps
<1>3. ASSUME NEW r \in Requests, Ask(r) PROVE DetailInv'
  BY <1>3, AskKeeps
<1>4. ASSUME NEW r \in Requests, Warm(r) PROVE DetailInv'
  BY <1>4, WarmKeeps
<1>5. ASSUME NEW r \in Requests, Handle(r) PROVE DetailInv'
  BY <1>5, ReadCacheKeeps, ReadZoneKeeps, ReadBoundsKeeps, ReadPartKeeps, PartFailsKeeps, StoreKeeps
     DEF Handle
<1> QED BY <1>1, <1>2, <1>3, <1>4, <1>5 DEF DetailNext

LEMMA DetailUnchanged == DetailInv /\ UNCHANGED detailVars => DetailInv'
<1> SUFFICES ASSUME DetailInv, UNCHANGED detailVars PROVE DetailInv'
  OBVIOUS
<1>1. UNCHANGED <<hour, commits, history, cache, request, warming>>
  BY DEF detailVars
<1>2. HistoryInv' /\ CacheInv'
  BY <1>1, CacheStays DEF DetailInv, HistoryInv
<1>3. ASSUME NEW q, RequestInv(q) PROVE RequestInv(q)'
  BY <1>1, <1>3 DEF RequestInv, Reading, Good, Known, Before
<1> QED BY <1>1, <1>2, <1>3 DEF DetailInv, RequestsInv

THEOREM DetailIsKept == Spec => []DetailInv
<1>1. Init => DetailInv
  BY DetailStarts DEF Init
<1>2. DetailInv /\ [Next]_vars => DetailInv'
  BY DetailKeeps, DetailUnchanged
     DEF Next, vars, BuildApp, ServeZones, ServeHits, ServeCharts
<1> QED BY <1>1, <1>2, PTL DEF Spec

\* The hour an answer calls the newest is in every one of its parts, although the jobs commit
\* between its queries, and whichever of them run in which order, on whatever was kept before.
THEOREM PartsAgree == Spec => []NewestHourIsThere
<1>1. DetailInv => NewestHourIsThere
  BY DEF DetailInv, RequestsInv, RequestInv, NoRequest, NewestHourIsThere, Answered, At, Good, Whole
<1> QED BY <1>1, DetailIsKept, PTL

LEMMA MaxOfTwo ==
  ASSUME NEW x \in Int, NEW y \in Int
  PROVE  Max({x, y}) = IF x >= y THEN x ELSE y
<1> DEFINE m == IF x >= y THEN x ELSE y
<1>1. m \in {x, y} /\ \A z \in {x, y} : m >= z
  OBVIOUS
<1>2. \A z \in {x, y} : (\A w \in {x, y} : z >= w) => z = m
  OBVIOUS
<1> QED BY <1>1, <1>2 DEF Max

LEMMA MinOfTwo ==
  ASSUME NEW x \in Int, NEW y \in Int
  PROVE  Min({x, y}) = IF x <= y THEN x ELSE y
<1> DEFINE m == IF x <= y THEN x ELSE y
<1>1. m \in {x, y} /\ \A z \in {x, y} : m <= z
  OBVIOUS
<1>2. \A z \in {x, y} : (\A w \in {x, y} : z <= w) => z = m
  OBVIOUS
<1> QED BY <1>1, <1>2 DEF Min

\* An answer is not older than its window allows, for any age limit, and never empty once the
\* zone has published, whether it was built for the question or comes from the cache.
THEOREM AnswersKeepUp == Spec => []AnswersAreRecent
<1>1. DetailInv => AnswersAreRecent
  <2> SUFFICES ASSUME DetailInv, NEW r \in Requests, Answered(r)
               PROVE  LET known == Known(request[r].window, request[r].asked)
                      IN  request[r].answer.document.latest
                            >= Max({known, Min({request[r].asked, 1})})
    BY DEF AnswersAreRecent, Known
  <2> DEFINE q == request[r]
             known == Known(q.window, q.asked)
  <2>1. q.window \in Windows /\ q.asked \in 0..commits /\ Good(q.answer.document, q.window, q.asked)
    BY DEF DetailInv, RequestsInv, RequestInv, NoRequest, Answered, At
  <2>2. q.asked \in Nat /\ known \in Nat
    BY <2>1, DetailAssumption DEF Known, DetailInv, HistoryInv
  <2>3. /\ q.answer.document.latest \in Int /\ q.answer.document.latest >= known
        /\ q.asked > 0 => q.answer.document.latest >= 1
    BY <2>1 DEF Good, Whole
  <2> HIDE DEF known
  <2> DEFINE least == Min({q.asked, 1})
  <2>4. least \in Int /\ least <= q.answer.document.latest
    BY <2>2, <2>3, MinOfTwo
  <2> HIDE DEF least
  <2>5. Max({known, least}) = IF known >= least THEN known ELSE least
    BY <2>2, <2>4, MaxOfTwo
  <2>6. Max({known, least}) <= q.answer.document.latest
    BY <2>2, <2>3, <2>4, <2>5
  <2> QED BY <2>3, <2>6 DEF known, least
<1> QED BY <1>1, DetailIsKept, PTL

-----------------------------------------------------------------------------
(* Page views. *)

InFlight == {"salt", "offer", "settle", "insert"}

\* A salt is of one day: that of the view whose request drew it.
SaltIsOf(salt, day) == salt \in Views /\ hit[salt].pc # "unsent" /\ hit[salt].day = day

\* A request still under way is of today or yesterday, whose salt no poll prunes; the one it
\* inserts with is the day's.
ViewInv(h) ==
  /\ DOMAIN hit[h] = {"pc", "day", "salt", "status"}
  /\ hit[h].pc \in {"unsent", "answered"} \cup InFlight
  /\ hit[h].pc # "unsent" => hit[h].day \in 0..today
  /\ hit[h].pc \in InFlight => hit[h].day >= today - 1
  /\ hit[h].pc \in {"settle", "insert"} => hit[h].day \in DOMAIN visitor_salt
  /\ hit[h].pc = "insert" => hit[h].salt = visitor_salt[hit[h].day]
  /\ hit[h].pc = "answered" /\ hit[h].status = 204 => \E row \in page_hit : row.view = h

RowInv(row) ==
  /\ row.view \in Views /\ hit[row.view].pc = "answered" /\ hit[row.view].day = row.day
  /\ row = [view |-> row.view, day |-> row.day, visitor |-> <<row.visitor[1], VisitorOf[row.view]>>]
  /\ SaltIsOf(row.visitor[1], row.day)
  /\ row.day >= today - 1 => row.day \in DOMAIN visitor_salt /\ row.visitor[1] = visitor_salt[row.day]

SaltsInv == \A d \in DOMAIN visitor_salt : d \in Nat /\ SaltIsOf(visitor_salt[d], d)

\* The inductive invariant of the page views: the rows of a day have one salt.
HitInv ==
  /\ today \in 0..MaxDay /\ DOMAIN hit = Views
  /\ \A h \in Views : ViewInv(h)
  /\ SaltsInv
  /\ \A row \in page_hit : RowInv(row)
  /\ \A r1, r2 \in page_hit : r1.day = r2.day => r1.visitor[1] = r2.visitor[1]
  /\ IsFiniteSet(page_hit)

\* What one statement of a handler leaves of the invariant: its own view, its salts and its row
\* are what the statement must see to.
LEMMA OneView ==
  ASSUME HitInv, NEW h \in Views, NEW fields,
         HitGoes(h, fields), today' = today,
         hit'[h].pc # "unsent", hit[h].pc # "unsent" => hit'[h].day = hit[h].day,
         hit[h].pc # "answered",
         \A d \in DOMAIN visitor_salt : d \in DOMAIN visitor_salt' /\ visitor_salt'[d] = visitor_salt[d],
         page_hit \subseteq page_hit'
  PROVE  /\ DOMAIN hit' = Views /\ \A g \in Views : g # h => hit'[g] = hit[g]
         /\ \A s \in Views : hit[s].pc # "unsent" => hit'[s].pc # "unsent" /\ hit'[s].day = hit[s].day
         /\ \A g \in Views : g # h => ViewInv(g)'
         /\ \A row \in page_hit : RowInv(row)'
<1>1. DOMAIN hit' = Views /\ \A g \in Views : g # h => hit'[g] = hit[g]
  BY DEF HitInv, HitGoes
<1>2. \A s \in Views : hit[s].pc # "unsent" => hit'[s].pc # "unsent" /\ hit'[s].day = hit[s].day
  BY <1>1
<1>3. \A g \in Views : g # h => ViewInv(g)'
  <2> SUFFICES ASSUME NEW g \in Views, g # h PROVE ViewInv(g)'
    OBVIOUS
  <2>1. hit'[g] = hit[g] /\ ViewInv(g)
    BY <1>1 DEF HitInv
  <2> QED BY <2>1 DEF ViewInv, InFlight
<1>4. \A row \in page_hit : RowInv(row)'
  <2> SUFFICES ASSUME NEW row \in page_hit PROVE RowInv(row)'
    OBVIOUS
  <2>1. RowInv(row)
    BY DEF HitInv
  <2>2. row.view # h /\ hit'[row.view] = hit[row.view]
    BY <1>1, <2>1 DEF RowInv
  <2> QED BY <1>2, <2>1, <2>2 DEF RowInv, SaltIsOf
<1> QED BY <1>1, <1>2, <1>3, <1>4

\* A statement that only moves its handler on.
LEMMA ViewMoves ==
  ASSUME HitInv, NEW h \in Views, NEW fields,
         HitGoes(h, fields), UNCHANGED <<today, visitor_salt, page_hit>>,
         hit'[h].pc # "unsent", hit[h].pc # "unsent" => hit'[h].day = hit[h].day,
         hit[h].pc # "answered", ViewInv(h)'
  PROVE  HitInv'
<1>1. /\ DOMAIN hit' = Views /\ \A g \in Views : ViewInv(g)'
      /\ \A s \in Views : hit[s].pc # "unsent" => hit'[s].pc # "unsent" /\ hit'[s].day = hit[s].day
      /\ \A row \in page_hit : RowInv(row)'
  BY OneView
<1>2. SaltsInv'
  BY <1>1 DEF HitInv, SaltsInv, SaltIsOf
<1> QED BY <1>1, <1>2 DEF HitInv

\* What is known of a view.
LEMMA ViewKnown ==
  ASSUME HitInv, NEW h \in Views, NEW fields, DOMAIN fields \subseteq {"pc", "day", "salt", "status"},
         HitGoes(h, fields)
  PROVE  /\ ViewInv(h) /\ today \in 0..MaxDay /\ DOMAIN hit'[h] = {"pc", "day", "salt", "status"}
         /\ \A x \in {"pc", "day", "salt", "status"} :
              hit'[h][x] = IF x \in DOMAIN fields THEN fields[x] ELSE hit[h][x]
<1>1. ViewInv(h) /\ today \in 0..MaxDay /\ DOMAIN hit = Views
  BY DEF HitInv
<1>2. hit'[h] = Updated(hit[h], fields)
  BY <1>1 DEF HitGoes
<1>3. DOMAIN hit[h] = {"pc", "day", "salt", "status"}
  BY <1>1 DEF ViewInv
<1> QED BY <1>1, <1>2, <1>3 DEF Updated

LEMMA HitStarts == AnalyticsInit => HitInv
BY AnalyticsAssumption, FS_EmptySet DEF AnalyticsInit, HitInv, ViewInv, SaltsInv, InFlight

LEMMA HitKeeps ==
  ASSUME HitInv, NEW h \in Views, Hit(h)
  PROVE  HitInv'
<1> DEFINE fields == [pc |-> "salt", day |-> today]
<1>1. \A body \in Bodies : pathFromBody(body) \in KNOWN_PATHS
  BY DEF Bodies, pathFromBody, KNOWN_PATHS
<1>2. /\ HitGoes(h, fields) /\ hit[h].pc = "unsent"
      /\ UNCHANGED <<today, visitor_salt, page_hit>>
  BY <1>1 DEF Hit
<1>3. DOMAIN fields = {"pc", "day"} /\ fields["pc"] = "salt" /\ fields["day"] = today
  OBVIOUS
<1> HIDE DEF fields
<1>4. DOMAIN hit'[h] = {"pc", "day", "salt", "status"} /\ hit'[h].pc = "salt" /\ hit'[h].day = today /\ today \in 0..MaxDay
  BY <1>2, <1>3, ViewKnown
<1>5. ViewInv(h)'
  BY <1>2, <1>4, AnalyticsAssumption DEF ViewInv, InFlight
<1> QED BY <1>2, <1>4, <1>5, ViewMoves

LEMMA SelectSaltKeeps ==
  ASSUME HitInv, NEW h \in Views, SelectSalt(h)
  PROVE  HitInv'
<1> DEFINE salt == SaltOf(hit[h].day)
<1>0. hit[h].pc = "salt" /\ UNCHANGED <<today, visitor_salt, page_hit>> /\ ViewInv(h) /\ today \in 0..MaxDay
  BY DEF SelectSalt, HitInv
<1>1. CASE salt # Null
  <2> DEFINE fields == [pc |-> "insert", salt |-> salt]
  <2>1. HitGoes(h, fields)
    BY <1>1 DEF SelectSalt
  <2>2. DOMAIN fields = {"pc", "salt"} /\ fields["pc"] = "insert" /\ fields["salt"] = salt
    OBVIOUS
  <2>3. hit[h].day \in DOMAIN visitor_salt /\ salt = visitor_salt[hit[h].day]
    BY <1>1 DEF SaltOf
  <2> HIDE DEF fields, salt
  <2>4. /\ DOMAIN hit'[h] = {"pc", "day", "salt", "status"}
        /\ hit'[h].pc = "insert" /\ hit'[h].day = hit[h].day /\ hit'[h].salt = salt
    BY <2>1, <2>2, ViewKnown
  <2>5. ViewInv(h)'
    BY <1>0, <2>3, <2>4 DEF ViewInv, InFlight
  <2> QED BY <1>0, <2>1, <2>4, <2>5, ViewMoves
<1>2. CASE salt = Null
  <2> DEFINE fields == [pc |-> "offer"]
  <2>1. HitGoes(h, fields)
    BY <1>2 DEF SelectSalt
  <2>2. DOMAIN fields = {"pc"} /\ fields["pc"] = "offer"
    OBVIOUS
  <2> HIDE DEF fields, salt
  <2>3. DOMAIN hit'[h] = {"pc", "day", "salt", "status"} /\ hit'[h].pc = "offer" /\ hit'[h].day = hit[h].day
    BY <2>1, <2>2, ViewKnown
  <2>4. ViewInv(h)'
    BY <1>0, <2>3 DEF ViewInv, InFlight
  <2> QED BY <1>0, <2>1, <2>3, <2>4, ViewMoves
<1> QED BY <1>1, <1>2

LEMMA SettleSaltKeeps ==
  ASSUME HitInv, NEW h \in Views, SettleSalt(h)
  PROVE  HitInv'
<1> DEFINE salt == SaltOf(hit[h].day)
           fields == [pc |-> "insert", salt |-> salt]
<1>0. hit[h].pc = "settle" /\ UNCHANGED <<today, visitor_salt, page_hit>> /\ ViewInv(h) /\ today \in 0..MaxDay
  BY DEF SettleSalt, HitInv
<1>1. hit[h].day \in DOMAIN visitor_salt /\ salt = visitor_salt[hit[h].day]
  BY <1>0 DEF SaltOf, ViewInv
<1>2. salt # Null
  BY <1>1, AnalyticsAssumption DEF HitInv, SaltsInv, SaltIsOf
<1>3. HitGoes(h, fields)
  BY <1>2 DEF SettleSalt
<1>4. DOMAIN fields = {"pc", "salt"} /\ fields["pc"] = "insert" /\ fields["salt"] = salt
  OBVIOUS
<1> HIDE DEF fields, salt
<1>5. /\ DOMAIN hit'[h] = {"pc", "day", "salt", "status"}
      /\ hit'[h].pc = "insert" /\ hit'[h].day = hit[h].day /\ hit'[h].salt = salt
  BY <1>3, <1>4, ViewKnown
<1>6. ViewInv(h)'
  BY <1>0, <1>1, <1>5 DEF ViewInv, InFlight
<1> QED BY <1>0, <1>3, <1>5, <1>6, ViewMoves

\* A salt that is offered is the day's, also where its handler never hears of it.
LEMMA OffersWell ==
  ASSUME HitInv, NEW h \in Views, hit[h].pc = "offer", visitor_salt' = Offered(h),
         UNCHANGED <<today, page_hit>>,
         NEW fields, DOMAIN fields \subseteq {"pc", "status"}, "pc" \in DOMAIN fields, HitGoes(h, fields),
         \/ fields["pc"] = "settle"
         \/ fields["pc"] = "answered" /\ "status" \in DOMAIN fields /\ fields["status"] # 204
  PROVE  HitInv'
<1> DEFINE day == hit[h].day
<1>0. /\ ViewInv(h) /\ today \in 0..MaxDay
      /\ visitor_salt' = [d \in DOMAIN visitor_salt \cup {day} |->
                            IF d \in DOMAIN visitor_salt THEN visitor_salt[d] ELSE h]
  BY DEF Offered, HitInv
<1>2. /\ DOMAIN hit'[h] = {"pc", "day", "salt", "status"} /\ hit'[h].pc = fields["pc"] /\ hit'[h].day = day
      /\ fields["pc"] = "answered" => hit'[h].status # 204
      /\ fields["pc"] \in {"settle", "answered"}
  <2>1. "day" \notin DOMAIN fields /\ DOMAIN fields \subseteq {"pc", "day", "salt", "status"}
    OBVIOUS
  <2> QED BY <2>1, ViewKnown
<1>3. /\ \A d \in DOMAIN visitor_salt : d \in DOMAIN visitor_salt' /\ visitor_salt'[d] = visitor_salt[d]
      /\ DOMAIN visitor_salt' = DOMAIN visitor_salt \cup {day}
      /\ day \notin DOMAIN visitor_salt => visitor_salt'[day] = h
  BY <1>0
<1>4. /\ DOMAIN hit' = Views /\ \A g \in Views : g # h => ViewInv(g)'
      /\ \A s \in Views : hit[s].pc # "unsent" => hit'[s].pc # "unsent" /\ hit'[s].day = hit[s].day
      /\ \A row \in page_hit : RowInv(row)'
  BY <1>0, <1>2, <1>3, OneView
<1>5. ViewInv(h)' /\ day \in 0..today
  BY <1>0, <1>2, <1>3 DEF ViewInv, InFlight
<1>6. SaltsInv'
  <2>1. \A d \in DOMAIN visitor_salt : /\ d \in Nat /\ visitor_salt'[d] \in Views
                                       /\ hit'[visitor_salt'[d]].pc # "unsent" /\ hit'[visitor_salt'[d]].day = d
    BY <1>3, <1>4 DEF HitInv, SaltsInv, SaltIsOf
  <2>2. day \in Nat
    BY <1>0, <1>5, AnalyticsAssumption
  <2>3. \A d \in DOMAIN visitor_salt' : /\ d \in Nat /\ visitor_salt'[d] \in Views
                                        /\ hit'[visitor_salt'[d]].pc # "unsent" /\ hit'[visitor_salt'[d]].day = d
    BY <2>1, <2>2, <1>2, <1>3
  <2> QED BY <2>3 DEF SaltsInv, SaltIsOf
<1> QED BY <1>0, <1>4, <1>5, <1>6 DEF HitInv

LEMMA OfferSaltKeeps ==
  ASSUME HitInv, NEW h \in Views, OfferSalt(h)
  PROVE  HitInv'
<1> DEFINE fields == [pc |-> "settle"]
<1>1. DOMAIN fields = {"pc"} /\ fields["pc"] = "settle"
  OBVIOUS
<1>2. /\ hit[h].pc = "offer" /\ visitor_salt' = Offered(h) /\ UNCHANGED <<today, page_hit>>
      /\ HitGoes(h, fields)
  BY DEF OfferSalt
<1> HIDE DEF fields
<1> QED BY <1>1, <1>2, OffersWell

\* A row that is inserted is its view's, whatever the view is answered with.
LEMMA InsertsWell ==
  ASSUME HitInv, NEW h \in Views, hit[h].pc = "insert", page_hit' = Inserted(h),
         UNCHANGED <<today, visitor_salt>>,
         NEW status, HitGoes(h, [pc |-> "answered", status |-> status])
  PROVE  HitInv'
<1> DEFINE fields == [pc |-> "answered", status |-> status]
           day == hit[h].day
           salt == hit[h].salt
<1> PICK row : row = [view |-> h, day |-> day, visitor |-> <<salt, VisitorOf[h]>>]
  OBVIOUS
<1>0. /\ hit[h].pc = "insert" /\ UNCHANGED <<today, visitor_salt>> /\ HitGoes(h, fields)
      /\ ViewInv(h) /\ today \in 0..MaxDay
      /\ page_hit' = page_hit \cup {row}
  BY DEF Inserted, HitInv, visitorHash
<1>1. DOMAIN fields = {"pc", "status"} /\ fields["pc"] = "answered" /\ fields["status"] = status
  OBVIOUS
<1> HIDE DEF fields
<1>2. /\ DOMAIN hit'[h] = {"pc", "day", "salt", "status"}
      /\ hit'[h].pc = "answered" /\ hit'[h].day = day /\ hit'[h].status = status
  BY <1>0, <1>1, ViewKnown
<1>3. day \in DOMAIN visitor_salt /\ salt = visitor_salt[day] /\ SaltIsOf(salt, day) /\ day \in 0..today /\ day >= today - 1
  BY <1>0 DEF ViewInv, HitInv, SaltsInv, InFlight
<1>4. /\ DOMAIN hit' = Views /\ \A g \in Views : g # h => ViewInv(g)'
      /\ \A s \in Views : hit[s].pc # "unsent" => hit'[s].pc # "unsent" /\ hit'[s].day = hit[s].day
      /\ \A r \in page_hit : RowInv(r)'
  BY <1>0, <1>2, OneView
<1>5. row.view = h /\ row.day = day /\ row.visitor = <<salt, VisitorOf[h]>> /\ row.visitor[1] = salt
  OBVIOUS
<1>6. ViewInv(h)'
  BY <1>0, <1>2, <1>3, <1>5 DEF ViewInv, InFlight
<1>7. RowInv(row)'
  <2>1. row = [view |-> row.view, day |-> row.day, visitor |-> <<row.visitor[1], VisitorOf[row.view]>>]
    BY <1>5
  <2>2. salt \in Views /\ hit'[salt].pc # "unsent" /\ hit'[salt].day = day
    BY <1>3, <1>4 DEF SaltIsOf
  <2> QED BY <2>1, <2>2, <1>0, <1>2, <1>3, <1>5 DEF RowInv, SaltIsOf
<1>8. \A r \in page_hit : r.day = day => r.visitor[1] = salt
  BY <1>3 DEF HitInv, RowInv
<1>9. \A r1, r2 \in page_hit' : r1.day = r2.day => r1.visitor[1] = r2.visitor[1]
  <2> SUFFICES ASSUME NEW r1 \in page_hit', NEW r2 \in page_hit', r1.day = r2.day
               PROVE  r1.visitor[1] = r2.visitor[1]
    OBVIOUS
  <2>1. (r1 \in page_hit \/ r1 = row) /\ (r2 \in page_hit \/ r2 = row)
    BY <1>0
  <2> QED BY <2>1, <1>5, <1>8 DEF HitInv
<1>10. IsFiniteSet(page_hit')
  BY <1>0, FS_AddElement DEF HitInv
<1>11. SaltsInv'
  BY <1>0, <1>4 DEF HitInv, SaltsInv, SaltIsOf
<1> QED BY <1>0, <1>4, <1>6, <1>7, <1>9, <1>10, <1>11 DEF HitInv

LEMMA InsertHitKeeps ==
  ASSUME HitInv, NEW h \in Views, InsertHit(h)
  PROVE  HitInv'
BY InsertsWell DEF InsertHit

\* The errors of the database are not 204.
LEMMA ErrorsAre ==
  ASSUME NEW error \in {timedOut, dbError}
  PROVE  StatusOf(error) # 204
BY DEF StatusOf, timedOut, dbError

\* A statement that fails leaves what it may have written, and its view answered.
LEMMA HitFailsKeeps ==
  ASSUME HitInv, NEW h \in Views, HitFails(h)
  PROVE  HitInv'
<1>1. ASSUME hit[h].pc \in {"salt", "offer", "settle", "insert"}, NEW error \in {timedOut, dbError},
             HitThrows(h, error), UNCHANGED <<today, visitor_salt, page_hit>>
      PROVE  HitInv'
  <2> DEFINE status == StatusOf(error)
             fields == [pc |-> "answered", status |-> status]
  <2>1. HitGoes(h, fields) /\ status # 204 /\ ViewInv(h)
    BY <1>1, ErrorsAre DEF HitThrows, HitInv
  <2>2. DOMAIN fields = {"pc", "status"} /\ fields["pc"] = "answered" /\ fields["status"] = status
    OBVIOUS
  <2> HIDE DEF fields, status
  <2>3. /\ DOMAIN hit'[h] = {"pc", "day", "salt", "status"}
        /\ hit'[h].pc = "answered" /\ hit'[h].day = hit[h].day /\ hit'[h].status = status
    BY <2>1, <2>2, ViewKnown
  <2>4. ViewInv(h)'
    BY <1>1, <2>1, <2>3 DEF ViewInv, InFlight
  <2> QED BY <1>1, <2>1, <2>3, <2>4, ViewMoves
<1>2. ASSUME hit[h].pc = "offer", HitThrows(h, dbError), visitor_salt' = Offered(h),
             UNCHANGED <<today, page_hit>>
      PROVE  HitInv'
  <2> DEFINE fields == [pc |-> "answered", status |-> StatusOf(dbError)]
  <2>1. HitGoes(h, fields) /\ StatusOf(dbError) # 204
    BY <1>2, ErrorsAre DEF HitThrows
  <2>2. DOMAIN fields = {"pc", "status"} /\ fields["pc"] = "answered" /\ fields["status"] # 204
    BY <2>1
  <2> HIDE DEF fields
  <2> QED BY <1>2, <2>1, <2>2, OffersWell
<1>3. ASSUME hit[h].pc = "insert", HitThrows(h, dbError), page_hit' = Inserted(h),
             UNCHANGED <<today, visitor_salt>>
      PROVE  HitInv'
  BY <1>3, InsertsWell DEF HitThrows
<1> QED BY <1>1, <1>2, <1>3 DEF HitFails

LEMMA MidnightKeeps ==
  ASSUME HitInv, Midnight
  PROVE  HitInv'
<1>1. /\ today < MaxDay /\ today' = today + 1 /\ UNCHANGED <<visitor_salt, page_hit, hit>>
      /\ today \in 0..MaxDay /\ MaxDay \in Nat
      /\ \A h \in Views : hit[h].pc \in InFlight => hit[h].day = today
  BY AnalyticsAssumption DEF Midnight, HitInv, InFlight
<1>2. \A h \in Views : ViewInv(h)'
  <2> SUFFICES ASSUME NEW h \in Views PROVE ViewInv(h)'
    OBVIOUS
  <2>1. ViewInv(h)
    BY DEF HitInv
  <2> QED BY <1>1, <2>1 DEF ViewInv
<1>3. \A row \in page_hit : RowInv(row)'
  <2> SUFFICES ASSUME NEW row \in page_hit PROVE RowInv(row)'
    OBVIOUS
  <2>1. RowInv(row)
    BY DEF HitInv
  <2>2. row.day \in 0..today
    BY <2>1 DEF RowInv, HitInv, ViewInv
  <2>3. row.day >= today' - 1 => row.day >= today - 1
    BY <1>1, <2>2
  <2> QED BY <1>1, <2>1, <2>3 DEF RowInv, SaltIsOf
<1>4. today' \in 0..MaxDay
  BY <1>1
<1>5. SaltsInv'
  BY <1>1 DEF HitInv, SaltsInv, SaltIsOf
<1> QED BY <1>1, <1>2, <1>3, <1>4, <1>5 DEF HitInv

LEMMA PruneKeeps ==
  ASSUME HitInv, Prune
  PROVE  HitInv'
<1>1. /\ UNCHANGED <<today, page_hit, hit>> /\ today \in 0..MaxDay /\ MaxDay \in Nat
      /\ SALT_RETENTION_DAYS \in Nat \ {0}
      /\ DOMAIN visitor_salt' = {d \in DOMAIN visitor_salt : d >= today - SALT_RETENTION_DAYS}
      /\ \A d \in DOMAIN visitor_salt' : visitor_salt'[d] = visitor_salt[d]
  BY AnalyticsAssumption DEF Prune, HitInv
<1>2. \A d \in DOMAIN visitor_salt : d \in Nat
  BY DEF HitInv, SaltsInv
<1>3. \A d \in DOMAIN visitor_salt : d >= today - 1 => d \in DOMAIN visitor_salt'
  <2> SUFFICES ASSUME NEW d \in DOMAIN visitor_salt, d >= today - 1 PROVE d >= today - SALT_RETENTION_DAYS
    BY <1>1
  <2> QED BY <1>1, <1>2
<1>4. \A h \in Views : ViewInv(h)'
  <2> SUFFICES ASSUME NEW h \in Views PROVE ViewInv(h)'
    OBVIOUS
  <2>1. ViewInv(h)
    BY DEF HitInv
  <2>2. hit[h].pc \in InFlight => hit[h].day >= today - 1
    BY <2>1 DEF ViewInv
  <2>3. "settle" \in InFlight /\ "insert" \in InFlight
    BY DEF InFlight
  <2>4. hit[h].pc \in {"settle", "insert"} => hit[h].day \in DOMAIN visitor_salt'
    BY <2>1, <2>2, <2>3, <1>3 DEF ViewInv
  <2> QED BY <1>1, <2>1, <2>4 DEF ViewInv
<1>5. \A row \in page_hit : RowInv(row)'
  BY <1>1, <1>3 DEF HitInv, RowInv, SaltIsOf
<1>6. SaltsInv'
  BY <1>1, <1>2 DEF HitInv, SaltsInv, SaltIsOf
<1> QED BY <1>1, <1>4, <1>5, <1>6 DEF HitInv

LEMMA AnalyticsKeeps == HitInv /\ AnalyticsNext => HitInv'
<1> SUFFICES ASSUME HitInv, AnalyticsNext PROVE HitInv'
  OBVIOUS
<1>1. ASSUME NEW h \in Views, HandleHit(h) PROVE HitInv'
  BY <1>1, HitKeeps, SelectSaltKeeps, OfferSaltKeeps, SettleSaltKeeps, InsertHitKeeps,
     HitFailsKeeps DEF HandleHit
<1> QED BY <1>1, MidnightKeeps, PruneKeeps DEF AnalyticsNext

LEMMA AnalyticsUnchanged == HitInv /\ UNCHANGED analyticsVars => HitInv'
BY DEF analyticsVars, HitInv, ViewInv, RowInv, SaltsInv, SaltIsOf

\* The rows of a day, and the views that have a row.
RowsOn(d)    == {row \in page_hit : row.day = d}
Counted      == {row.view : row \in page_hit}
CountedOn(d) == {h \in Counted : hit[h].day = d}

\* There is one row for each view that has one.
LEMMA RowsAreViews ==
  ASSUME HitInv
  PROVE  IsFiniteSet(Counted) /\ Cardinality(Counted) = Cardinality(page_hit)
<1> DEFINE T == Counted
           f == [row \in page_hit |-> row.view]
<1>1. IsFiniteSet(page_hit)
  BY DEF HitInv
<1>2. \A row \in page_hit : f[row] = row.view /\ f[row] \in T
  BY DEF Counted
<1>3. ASSUME NEW r1 \in page_hit, NEW r2 \in page_hit, f[r1] = f[r2] PROVE r1 = r2
  <2>1. r1.view = r2.view /\ RowInv(r1) /\ RowInv(r2)
    BY <1>2, <1>3 DEF HitInv
  <2>2. r1.day = r2.day
    BY <2>1 DEF RowInv
  <2>3. r1.visitor[1] = r2.visitor[1]
    BY <2>2 DEF HitInv
  <2> QED BY <2>1, <2>2, <2>3 DEF RowInv
<1>4. \A h \in T : \E row \in page_hit : f[row] = h
  BY DEF Counted
<1> HIDE DEF f, T
<1>5. IsFiniteSet(T) /\ Cardinality(T) = Cardinality(page_hit)
  BY <1>1, <1>2, <1>3, <1>4, MatchedIsAsMany
<1> QED BY <1>5 DEF T

\* On a day there are as many hashes as visitors.
LEMMA HashesAreVisitors ==
  ASSUME HitInv, NEW d
  PROVE  Cardinality({row.visitor : row \in RowsOn(d)}) = Cardinality({VisitorOf[h] : h \in CountedOn(d)})
<1> DEFINE S == {row.visitor : row \in RowsOn(d)}
           T == {VisitorOf[h] : h \in CountedOn(d)}
           f == [v \in S |-> v[2]]
<1>1. \A row \in RowsOn(d) : /\ row \in page_hit /\ row.day = d /\ row.view \in CountedOn(d)
                             /\ row.visitor = <<row.visitor[1], VisitorOf[row.view]>>
  <2> SUFFICES ASSUME NEW row \in page_hit, row.day = d
               PROVE  row.view \in CountedOn(d) /\ row.visitor = <<row.visitor[1], VisitorOf[row.view]>>
    BY DEF RowsOn
  <2>1. /\ hit[row.view].day = row.day
        /\ row = [view |-> row.view, day |-> row.day, visitor |-> <<row.visitor[1], VisitorOf[row.view]>>]
    BY DEF HitInv, RowInv
  <2> QED BY <2>1 DEF CountedOn, Counted
<1>2. IsFiniteSet(S)
  <2> DEFINE g == [row \in RowsOn(d) |-> row.visitor]
  <2>1. g \in Surjection(RowsOn(d), S)
    BY DEF Surjection
  <2>2. IsFiniteSet(RowsOn(d))
    BY FS_Subset DEF HitInv, RowsOn
  <2> HIDE DEF g, S
  <2> QED BY <2>1, <2>2, FS_Surjection
<1>3. \A row \in RowsOn(d) : f[row.visitor] = VisitorOf[row.view] /\ VisitorOf[row.view] \in T
  BY <1>1
<1>4. \A v \in S : f[v] \in T
  BY <1>3
<1>5. ASSUME NEW v \in S, NEW w \in S, f[v] = f[w] PROVE v = w
  <2>1. PICK r1 \in RowsOn(d) : v = r1.visitor
    OBVIOUS
  <2>2. PICK r2 \in RowsOn(d) : w = r2.visitor
    OBVIOUS
  <2>3. r1.visitor[1] = r2.visitor[1]
    BY <1>1 DEF HitInv
  <2>4. VisitorOf[r1.view] = VisitorOf[r2.view]
    BY <2>1, <2>2, <1>3, <1>5
  <2> QED BY <2>1, <2>2, <2>3, <2>4, <1>1
<1>6. ASSUME NEW t \in T PROVE \E v \in S : f[v] = t
  <2>1. PICK h \in CountedOn(d) : t = VisitorOf[h]
    OBVIOUS
  <2>2. PICK row \in page_hit : row.view = h
    BY <2>1 DEF CountedOn, Counted
  <2>3. row \in RowsOn(d)
    BY <2>1, <2>2 DEF CountedOn, RowsOn, HitInv, RowInv
  <2> QED BY <2>1, <2>2, <2>3, <1>3
<1> HIDE DEF f, S, T
<1>7. Cardinality(T) = Cardinality(S)
  BY <1>2, <1>4, <1>5, <1>6, MatchedIsAsMany
<1> QED BY <1>7 DEF S, T

\* What the sums over days are sums of.
LEMMA DailyRowsAre ==
  ASSUME HitInv
  PROVE  /\ DOMAIN DailyRows = {row.day : row \in page_hit}
         /\ DOMAIN DailyRows \subseteq 0..today
         /\ \A d \in DOMAIN DailyRows :
              /\ DailyRows[d]["views"] = Cardinality(RowsOn(d))
              /\ DailyRows[d]["visitors"] = Cardinality({VisitorOf[h] : h \in CountedOn(d)})
         /\ \A d \in Int \ DOMAIN DailyRows : CountedOn(d) = {}
<1>1. DOMAIN DailyRows = {row.day : row \in page_hit}
  BY DEF DailyRows
<1>2. \A row \in page_hit : row.day \in 0..today
  BY DEF HitInv, RowInv, ViewInv
<1>3. \A d \in DOMAIN DailyRows :
        /\ DailyRows[d]["views"] = Cardinality(RowsOn(d))
        /\ DailyRows[d]["visitors"] = Cardinality({row.visitor : row \in RowsOn(d)})
  BY DEF DailyRows, RowsOn
<1>4. ASSUME NEW d, d \notin DOMAIN DailyRows PROVE CountedOn(d) = {}
  <2> SUFFICES ASSUME NEW h \in CountedOn(d) PROVE FALSE
    OBVIOUS
  <2>1. h \in Counted /\ hit[h].day = d
    BY DEF CountedOn
  <2>2. PICK row \in page_hit : row.view = h
    BY <2>1 DEF Counted
  <2>3. row.day = d
    BY <2>1, <2>2 DEF HitInv, RowInv
  <2> QED BY <1>1, <1>4, <2>3
<1> QED BY <1>1, <1>2, <1>3, <1>4, HashesAreVisitors

\* The numbers of the page of statistics.
LEMMA StatsAre ==
  ASSUME HitInv
  PROVE  /\ Stats.views.all = Cardinality(page_hit)
         /\ Stats.visitors.all = SumFunction([d \in Days |-> Cardinality({VisitorOf[h] : h \in CountedOn(d)})])
         /\ Stats.visitors.today = Cardinality({VisitorOf[h] : h \in CountedOn(today)})
<1> DEFINE K == DOMAIN DailyRows
           V(d) == Cardinality({VisitorOf[h] : h \in CountedOn(d)})
           views == [d \in Days \cap K |-> DailyRows[d]["views"]]
           visitors == [d \in Days \cap K |-> DailyRows[d]["visitors"]]
           onToday == [d \in {today} \cap K |-> DailyRows[d]["visitors"]]
           all == [d \in Days |-> V(d)]
<1>1. /\ Stats.views.all = SumFunction(views) /\ Stats.visitors.all = SumFunction(visitors)
      /\ Stats.visitors.today = SumFunction(onToday)
  BY DEF Stats
<1>2. /\ today \in 0..MaxDay /\ today \in Nat /\ MaxDay \in Nat /\ IsFiniteSet(page_hit)
      /\ IsFiniteSet(Days) /\ K \subseteq Days /\ Days \subseteq Int /\ today \in Days
  <2>1. today \in 0..MaxDay /\ MaxDay \in Nat /\ IsFiniteSet(page_hit)
    BY AnalyticsAssumption DEF HitInv
  <2>2. K \subseteq 0..today
    BY DailyRowsAre
  <2>3. \A d \in 0..today : d \in Days /\ d \in Int
    BY <2>1 DEF Days
  <2> HIDE DEF K
  <2> QED BY <2>1, <2>2, <2>3, FS_Interval DEF Days
<1>3. /\ \A row \in page_hit : row.day \in K
      /\ \A d \in K : /\ DailyRows[d]["views"] = Cardinality(RowsOn(d))
                      /\ DailyRows[d]["visitors"] = V(d)
      /\ \A d \in Int \ K : CountedOn(d) = {}
  BY DailyRowsAre
<1>4. IsFiniteSet(K) /\ Days \cap K = K
  BY <1>2, FS_Subset
<1> HIDE DEF K
<1>5. SumFunction(views) = Cardinality(page_hit)
  <2> DEFINE part == [d \in K |-> RowsOn(d)]
  <2>1. \A d \in K : part[d] = RowsOn(d) /\ views[d] = Cardinality(part[d])
    BY <1>3, <1>4
  <2>2. SumFunction(views) = SumFunctionOnSet(views, K)
    BY <1>4 DEF SumFunction
  <2> HIDE DEF part, views
  <2>3. /\ \A d \in K : part[d] \subseteq page_hit
        /\ \A row \in page_hit : \E d \in K : row \in part[d]
        /\ \A c, d \in K : c # d => part[c] \cap part[d] = {}
    BY <1>3, <2>1 DEF RowsOn
  <2>4. \A d \in K : views[d] = Cardinality(part[d])
    BY <2>1
  <2>5. PICK rows, days, shares, counts :
          rows = page_hit /\ days = K /\ shares = part /\ counts = views
    OBVIOUS
  <2>6. IsFiniteSet(rows)
    BY <1>2, <2>5
  <2>7. IsFiniteSet(days)
    BY <1>4, <2>5
  <2>8. \A d \in days : shares[d] \subseteq rows
    BY <2>3, <2>5
  <2>9. \A row \in rows : \E d \in days : row \in shares[d]
    BY <2>3, <2>5
  <2>10. \A c, d \in days : c # d => shares[c] \cap shares[d] = {}
    BY <2>3, <2>5
  <2>11. \A d \in days : counts[d] = Cardinality(shares[d])
    BY <2>4, <2>5
  <2>12. SumFunctionOnSet(counts, days) = Cardinality(rows)
    BY ONLY <2>6, <2>7, <2>8, <2>9, <2>10, <2>11, CountByParts
  <2>13. SumFunctionOnSet(views, K) = Cardinality(page_hit)
    BY <2>5, <2>12
  <2> QED BY <2>2, <2>13
<1>6. \A d \in Days : V(d) \in Nat
  <2> SUFFICES ASSUME NEW d \in Days PROVE V(d) \in Nat
    OBVIOUS
  <2> DEFINE T == {VisitorOf[h] : h \in CountedOn(d)}
             g == [h \in CountedOn(d) |-> VisitorOf[h]]
  <2>1. g \in Surjection(CountedOn(d), T)
    BY DEF Surjection
  <2>2. IsFiniteSet(CountedOn(d))
    <3>1. CountedOn(d) \in SUBSET Counted
      BY DEF CountedOn
    <3> QED BY <3>1, RowsAreViews, FS_Subset
  <2> HIDE DEF g, T
  <2>3. IsFiniteSet(T)
    BY <2>1, <2>2, FS_Surjection
  <2> QED BY <2>3, FS_CardinalityType DEF T
<1>7. \A d \in Days \ K : V(d) = 0
  <2> SUFFICES ASSUME NEW d \in Days \ K PROVE V(d) = 0
    OBVIOUS
  <2>1. CountedOn(d) = {}
    BY <1>2, <1>3
  <2>2. {VisitorOf[h] : h \in CountedOn(d)} = {}
    BY <2>1
  <2> QED BY <2>2, FS_EmptySet
<1> HIDE DEF V
<1>8. SumFunction(visitors) = SumFunction(all)
  <2>1. SumFunction(visitors) = SumFunctionOnSet(visitors, K) /\ SumFunction(all) = SumFunctionOnSet(all, Days)
    BY <1>4 DEF SumFunction
  <2>2. \A d \in K : visitors[d] \in Int /\ visitors[d] = all[d]
    BY <1>2, <1>3, <1>4, <1>6
  <2>3. /\ \A d \in Days : all[d] \in Int
        /\ \A d \in Days \ K : all[d] = 0 /\ all[d] >= 0
    BY <1>6, <1>7
  <2> HIDE DEF visitors, all
  <2>4. SumFunctionOnSet(visitors, K) = SumFunctionOnSet(all, K)
    BY <1>4, <2>2, SumsAgree
  <2>5. SumFunctionOnSet(all, K) = SumFunctionOnSet(all, Days)
    <3>1. K \in SUBSET Days
      BY <1>2
    <3> QED BY <1>2, <2>3, <3>1, SumOfSome
  <2> QED BY <2>1, <2>4, <2>5
<1>9. SumFunction(onToday) = V(today)
  <2>1. CASE today \in K
    <3>1. SumFunction(onToday) = SumFunctionOnSet(onToday, {today}) /\ onToday[today] = V(today)
      BY <2>1, <1>3 DEF SumFunction
    <3>2. V(today) \in Int
      BY <1>2, <1>6
    <3> HIDE DEF onToday
    <3>3. SumFunctionOnSet(onToday, {today}) = onToday[today] * Cardinality({today})
      BY <3>1, <3>2, FS_Singleton, SumOfConstant
    <3>4. onToday[today] \in Int /\ Cardinality({today}) = 1
      BY <3>1, <3>2, FS_Singleton
    <3>5. SumFunctionOnSet(onToday, {today}) = onToday[today]
      BY <3>3, <3>4
    <3> QED BY <3>1, <3>5
  <2>2. CASE today \notin K
    <3>1. SumFunction(onToday) = SumFunctionOnSet(onToday, {})
      BY <2>2 DEF SumFunction
    <3>2. SumFunctionOnSet(onToday, {}) = 0
      BY FS_EmptySet, SumStep
    <3> QED BY <3>1, <3>2, <2>2, <1>2, <1>7
  <2> QED BY <2>1, <2>2
<1> HIDE DEF views, visitors, onToday, all
<1>10. /\ Stats.views.all = Cardinality(page_hit) /\ Stats.visitors.all = SumFunction(all)
       /\ Stats.visitors.today = V(today)
  BY <1>1, <1>5, <1>8, <1>9
<1> QED BY <1>10 DEF all, V

-----------------------------------------------------------------------------
(* The views that were not accepted: each cost a failure of the database. *)

Refused == {h \in Views : hit[h].pc = "answered" /\ hit[h].status # 204}

RefusedInv == faults \in Nat /\ IsFiniteSet(Refused) /\ Cardinality(Refused) <= faults

\* No more were refused, or one more for one more failure.
LEMMA NoMoreRefused ==
  ASSUME RefusedInv, faults' \in {faults, faults + 1}, Refused' \subseteq Refused
  PROVE  RefusedInv'
<1>1. faults \in Nat /\ IsFiniteSet(Refused) /\ Cardinality(Refused) <= faults
  BY DEF RefusedInv
<1>2. PICK old, new : old = Refused /\ new = Refused'
  OBVIOUS
<1>3. IsFiniteSet(new) /\ Cardinality(new) <= Cardinality(old) /\ Cardinality(old) \in Nat /\ Cardinality(new) \in Nat
  <2>1. new \in SUBSET old /\ IsFiniteSet(old)
    BY <1>1, <1>2
  <2>2. IsFiniteSet(new) /\ Cardinality(new) <= Cardinality(old)
    BY <2>1, FS_Subset
  <2> QED BY <2>1, <2>2, FS_CardinalityType
<1>4. faults' \in Nat /\ Cardinality(new) <= faults'
  BY <1>1, <1>2, <1>3
<1> QED BY <1>2, <1>3, <1>4 DEF RefusedInv

LEMMA OneMoreRefused ==
  ASSUME RefusedInv, NEW h, faults' = faults + 1, Refused' \subseteq Refused \cup {h}
  PROVE  RefusedInv'
<1>1. faults \in Nat /\ IsFiniteSet(Refused) /\ Cardinality(Refused) <= faults
  BY DEF RefusedInv
<1>2. PICK old, new : old = Refused /\ new = Refused'
  OBVIOUS
<1>3. /\ IsFiniteSet(old \cup {h}) /\ Cardinality(old \cup {h}) <= Cardinality(old) + 1
      /\ Cardinality(old) \in Nat /\ Cardinality(old \cup {h}) \in Nat
  <2>1. IsFiniteSet(old)
    BY <1>1, <1>2
  <2>2. /\ IsFiniteSet(old \cup {h})
        /\ Cardinality(old \cup {h}) = IF h \in old THEN Cardinality(old) ELSE Cardinality(old) + 1
    BY <2>1, FS_AddElement
  <2>3. Cardinality(old) \in Nat
    BY <2>1, FS_CardinalityType
  <2> QED BY <2>2, <2>3
<1>4. IsFiniteSet(new) /\ Cardinality(new) <= Cardinality(old \cup {h}) /\ Cardinality(new) \in Nat
  <2>1. new \in SUBSET (old \cup {h})
    BY <1>2
  <2>2. IsFiniteSet(new) /\ Cardinality(new) <= Cardinality(old \cup {h})
    BY <2>1, <1>3, FS_Subset
  <2> QED BY <2>2, FS_CardinalityType
<1>5. faults' \in Nat /\ Cardinality(new) <= faults'
  BY <1>1, <1>2, <1>3, <1>4
<1> QED BY <1>2, <1>4, <1>5 DEF RefusedInv

\* A step of one view refuses at most that view, and not where it goes on or is accepted.
LEMMA OneRefused ==
  ASSUME HitInv, NEW h \in Views, NEW fields, HitGoes(h, fields)
  PROVE  /\ Refused' \subseteq Refused \cup {h}
         /\ hit'[h].pc # "answered" \/ hit'[h].status = 204 => Refused' \subseteq Refused
<1>1. \A g \in Views : g # h => hit'[g] = hit[g]
  BY DEF HitInv, HitGoes
<1> QED BY <1>1 DEF Refused

\* A handler that goes on, or accepts its view, refuses none.
LEMMA GoingOnRefusesNone ==
  ASSUME HitInv, RefusedInv, NEW h \in Views, NEW fields, HitGoes(h, fields),
         DOMAIN fields \subseteq {"pc", "day", "salt", "status"}, "pc" \in DOMAIN fields,
         \/ fields["pc"] # "answered"
         \/ "status" \in DOMAIN fields /\ fields["status"] = 204,
         faults' = faults
  PROVE  RefusedInv'
<1>1. hit'[h].pc # "answered" \/ hit'[h].status = 204
  BY ViewKnown
<1> QED BY <1>1, OneRefused, NoMoreRefused

LEMMA RefusedKeeps == HitInv /\ RefusedInv /\ AnalyticsNext => RefusedInv'
<1> SUFFICES ASSUME HitInv, RefusedInv, AnalyticsNext PROVE RefusedInv'
  OBVIOUS
<1>1. ASSUME Midnight \/ Prune PROVE RefusedInv'
  <2>1. UNCHANGED <<hit, faults>>
    BY <1>1 DEF Midnight, Prune
  <2> QED BY <2>1 DEF RefusedInv, Refused
<1>2. ASSUME NEW h \in Views, HandleHit(h) PROVE RefusedInv'
  <2>1. CASE Hit(h)
    <3> DEFINE fields == [pc |-> "salt", day |-> today]
    <3>1. \A body \in Bodies : pathFromBody(body) \in KNOWN_PATHS
      BY DEF Bodies, pathFromBody, KNOWN_PATHS
    <3>2. HitGoes(h, fields) /\ faults' = faults
      BY <2>1, <3>1 DEF Hit
    <3>3. DOMAIN fields = {"pc", "day"} /\ fields["pc"] = "salt"
      OBVIOUS
    <3> HIDE DEF fields
    <3> QED BY <3>2, <3>3, GoingOnRefusesNone
  <2>2. CASE SelectSalt(h)
    <3>1. PICK fields : /\ HitGoes(h, fields) /\ DOMAIN fields \subseteq {"pc", "day", "salt", "status"}
                        /\ "pc" \in DOMAIN fields /\ fields["pc"] # "answered"
      <4>1. CASE SaltOf(hit[h].day) # Null
        <5> DEFINE f == [pc |-> "insert", salt |-> SaltOf(hit[h].day)]
        <5>1. HitGoes(h, f) /\ DOMAIN f = {"pc", "salt"} /\ f["pc"] = "insert"
          BY <2>2, <4>1 DEF SelectSalt
        <5> HIDE DEF f
        <5> QED BY <5>1
      <4>2. CASE SaltOf(hit[h].day) = Null
        <5> DEFINE f == [pc |-> "offer"]
        <5>1. HitGoes(h, f) /\ DOMAIN f = {"pc"} /\ f["pc"] = "offer"
          BY <2>2, <4>2 DEF SelectSalt
        <5> HIDE DEF f
        <5> QED BY <5>1
      <4> QED BY <4>1, <4>2
    <3>2. faults' = faults
      BY <2>2 DEF SelectSalt
    <3> QED BY <3>1, <3>2, GoingOnRefusesNone
  <2>3. CASE OfferSalt(h)
    <3> DEFINE fields == [pc |-> "settle"]
    <3>1. HitGoes(h, fields) /\ faults' = faults /\ DOMAIN fields = {"pc"} /\ fields["pc"] = "settle"
      BY <2>3 DEF OfferSalt
    <3> HIDE DEF fields
    <3> QED BY <3>1, GoingOnRefusesNone
  <2>4. CASE SettleSalt(h)
    <3> DEFINE salt == SaltOf(hit[h].day)
               fields == [pc |-> "insert", salt |-> salt]
    <3>1. hit[h].day \in DOMAIN visitor_salt /\ salt = visitor_salt[hit[h].day]
      BY <2>4 DEF SettleSalt, SaltOf, HitInv, ViewInv
    <3>2. salt # Null
      BY <3>1, AnalyticsAssumption DEF HitInv, SaltsInv, SaltIsOf
    <3>3. HitGoes(h, fields) /\ faults' = faults /\ DOMAIN fields = {"pc", "salt"} /\ fields["pc"] = "insert"
      BY <2>4, <3>2 DEF SettleSalt
    <3> HIDE DEF fields
    <3> QED BY <3>3, GoingOnRefusesNone
  <2>5. CASE InsertHit(h)
    <3> DEFINE fields == [pc |-> "answered", status |-> 204]
    <3>1. HitGoes(h, fields) /\ faults' = faults
          /\ DOMAIN fields = {"pc", "status"} /\ fields["status"] = 204
      BY <2>5 DEF InsertHit
    <3> HIDE DEF fields
    <3> QED BY <3>1, GoingOnRefusesNone
  <2>6. CASE HitFails(h)
    <3>1. PICK error : HitThrows(h, error)
      BY <2>6 DEF HitFails
    <3>2. faults' = faults + 1 /\ Refused' \subseteq Refused \cup {h}
      BY <3>1, OneRefused DEF HitThrows, Faulty
    <3> QED BY <3>2, OneMoreRefused
  <2> QED BY <1>2, <2>1, <2>2, <2>3, <2>4, <2>5, <2>6 DEF HandleHit
<1> QED BY <1>1, <1>2 DEF AnalyticsNext

\* The zone details share the database's failures, and refuse no page view.
LEMMA DetailFaults == DetailNext => faults' \in {faults, faults + 1}
BY DEF DetailNext, Publish, Tick, Ask, Warm, Asks, Handle, ReadCache, ReadZone, ReadBounds, ReadPart,
       PartFails, Store, Fails, Faulty

LEMMA RefusedAreFew == HitInv /\ RefusedInv /\ [Next]_vars => RefusedInv'
<1> SUFFICES ASSUME HitInv, RefusedInv, [Next]_vars PROVE RefusedInv'
  OBVIOUS
<1>1. CASE ServeHits
  BY <1>1, RefusedKeeps DEF ServeHits
<1>2. CASE ServeZones
  <2>1. hit' = hit /\ faults' \in {faults, faults + 1}
    BY <1>2, DetailFaults DEF ServeZones, analyticsVars
  <2>2. Refused' = Refused
    BY <2>1 DEF Refused
  <2> QED BY <2>1, <2>2, NoMoreRefused
<1>3. CASE BuildApp \/ ServeCharts \/ UNCHANGED vars
  <2>1. UNCHANGED <<hit, faults>>
    BY <1>3 DEF BuildApp, ServeCharts, vars, analyticsVars
  <2> QED BY <2>1 DEF RefusedInv, Refused
<1> QED BY <1>1, <1>2, <1>3 DEF Next

LEMMA RefusedStarts == Init => RefusedInv
<1> SUFFICES ASSUME Init PROVE RefusedInv
  OBVIOUS
<1>1. Refused = {} /\ faults = 0
  BY DEF Init, AnalyticsInit, Refused
<1> QED BY <1>1, FS_EmptySet DEF RefusedInv

LEMMA CountedOnce == HitInv /\ RefusedInv => VisitorsAreCountedOnce
<1> SUFFICES ASSUME HitInv, RefusedInv PROVE VisitorsAreCountedOnce
  OBVIOUS
<1> DEFINE answered == {h \in Views : hit[h].pc = "answered"}
           accepted == {h \in answered : hit[h].status = 204}
           counted  == {row.view : row \in page_hit}
           VisitorsOn(d) == {VisitorOf[h] : h \in {h \in counted : hit[h].day = d}}
<1>1. accepted \subseteq counted /\ counted \subseteq answered
  BY DEF HitInv, ViewInv, RowInv
<1>2. Cardinality(answered \ accepted) <= faults
  <2>1. answered \ accepted = Refused
    BY DEF Refused
  <2> QED BY <2>1 DEF RefusedInv
<1>3. counted = Counted /\ \A d : VisitorsOn(d) = {VisitorOf[h] : h \in CountedOn(d)}
  BY DEF Counted, CountedOn
<1>4. Stats.views.all = Cardinality(counted)
  BY <1>3, RowsAreViews, StatsAre
<1>5. Stats.visitors.today = Cardinality(VisitorsOn(today))
  BY <1>3, StatsAre
<1>6. Stats.visitors.all = SumFunction([d \in Days |-> Cardinality(VisitorsOn(d))])
  BY <1>3, StatsAre
<1>7. ASSUME NEW r1 \in page_hit, NEW r2 \in page_hit, r1.day # r2.day PROVE r1.visitor # r2.visitor
  BY <1>7 DEF HitInv, RowInv, SaltIsOf
<1> HIDE DEF VisitorsOn, counted, accepted, answered
<1> QED BY <1>1, <1>2, <1>4, <1>5, <1>6, <1>7
        DEF VisitorsAreCountedOnce, VisitorsOn, counted, accepted, answered

\* A view that is accepted counts once, and its visitor once a day, for any views of any visitors,
\* however their requests, the poll's pruning and midnight fall together and whichever statements
\* fail; no more views are refused than statements failed.
THEOREM VisitorsCounted == Spec => []VisitorsAreCountedOnce
<1>1. Init => HitInv /\ RefusedInv
  BY HitStarts, RefusedStarts DEF Init
<1>2. HitInv /\ [Next]_vars => HitInv'
  BY AnalyticsKeeps, AnalyticsUnchanged
     DEF Next, vars, BuildApp, ServeZones, ServeHits, ServeCharts
<1> QED BY <1>1, <1>2, RefusedAreFew, CountedOnce, PTL DEF Spec

-----------------------------------------------------------------------------
(* A chart of a zone's rows: sums over modes and hours, under a configuration. *)

\* The sums inside the document are sums.
LEMMA ZoneSums ==
  ASSUME NEW f, NEW S
  PROVE  Z!SumFunctionOnSet(f, S) = SumFunctionOnSet(f, S)
BY DEF Z!SumFunctionOnSet, SumFunctionOnSet, Z!FoldFunctionOnSet, FoldFunctionOnSet,
       Z!MapThenFoldSet, MapThenFoldSet

\* And so are its counts.
LEMMA ZoneCounts == ASSUME NEW S PROVE Z!Cardinality(S) = Cardinality(S)
BY DEF Z!Cardinality, Cardinality

\* A sum of columns that are all there is a sum over the rows.
LEMMA SumOfColumn ==
  ASSUME NEW f, \A r \in DOMAIN f : f[r] # Null
  PROVE  Z!SumOf(f) = SumFunctionOnSet(f, DOMAIN f)
<1>1. Z!Reported(f) = DOMAIN f
  BY DEF Z!Reported
<1> QED BY <1>1, ZoneSums DEF Z!SumOf

\* Consumption counts as nothing.
LEMMA ZoneMax == ASSUME NEW x \in Int PROVE Z!Max({x, 0}) = IF x >= 0 THEN x ELSE 0
<1> DEFINE m == IF x >= 0 THEN x ELSE 0
<1>1. m \in {x, 0} /\ \A z \in {x, 0} : m >= z
  OBVIOUS
<1>2. \A z \in {x, 0} : (\A w \in {x, 0} : z >= w) => z = m
  OBVIOUS
<1> QED BY <1>1, <1>2 DEF Z!Max

\* What some modes generated is not negative, and not more than what more modes did.
LEMMA MoreModesMore ==
  ASSUME NEW reported, NEW all, IsFiniteSet(all), \A m \in all : reported[m] \in Int \cup {Null},
         NEW B \in SUBSET all, NEW A \in SUBSET B, Null \notin Int
  PROVE  /\ Z!columnsFor(A, reported) \in Nat /\ Z!columnsFor(B, reported) \in Nat
         /\ Z!columnsFor(A, reported) <= Z!columnsFor(B, reported)
<1> DEFINE On(L) == {mode \in L : reported[mode] # Null}
           g(L)  == [mode \in On(L) |-> Z!Max({reported[mode], 0})]
<1>1. \A L \in SUBSET all : \A m \in On(L) : /\ g(L)[m] = Z!Max({reported[m], 0})
                                             /\ g(L)[m] \in Int /\ g(L)[m] >= 0
  BY ZoneMax
<1>2. \A L \in SUBSET all : Z!columnsFor(L, reported) = SumFunctionOnSet(g(L), On(L))
  BY ZoneSums DEF Z!columnsFor, Z!SumFunction
<1>3. \A L \in SUBSET all : IsFiniteSet(On(L))
  BY FS_Subset
<1>4. A \in SUBSET all /\ B \in SUBSET all /\ On(A) \in SUBSET On(B)
  OBVIOUS
<1> DEFINE a == g(A)
           b == g(B)
<1>5. /\ IsFiniteSet(On(A)) /\ IsFiniteSet(On(B))
      /\ \A m \in On(A) : a[m] \in Int /\ a[m] >= 0 /\ a[m] = b[m]
      /\ \A m \in On(B) : b[m] \in Int /\ b[m] >= 0
  BY <1>1, <1>3, <1>4
<1>6. Z!columnsFor(A, reported) = SumFunctionOnSet(a, On(A)) /\ Z!columnsFor(B, reported) = SumFunctionOnSet(b, On(B))
  BY <1>2, <1>4
<1> HIDE DEF a, b, g, On
<1>7. SumFunctionOnSet(a, On(A)) = SumFunctionOnSet(b, On(A))
  BY <1>5, SumsAgree
<1>8. SumFunctionOnSet(b, On(A)) <= SumFunctionOnSet(b, On(B))
  BY <1>4, <1>5, SumOfSome
<1>9. SumFunctionOnSet(b, {}) <= SumFunctionOnSet(b, On(A)) /\ SumFunctionOnSet(b, {}) = 0
  <2>1. \A m \in On(A) : b[m] \in Int /\ b[m] >= 0
    BY <1>4, <1>5
  <2> QED BY <1>5, <2>1, SumOfSome, SumStep, FS_EmptySet
<1>10. SumFunctionOnSet(b, On(A)) \in Int /\ SumFunctionOnSet(b, On(B)) \in Int
  BY <1>4, <1>5, SumStep
<1> QED BY <1>6, <1>7, <1>8, <1>9, <1>10

\* Shares of one whole: none where there is no whole, else in order and between none and all.
LEMMA SharesCompare ==
  ASSUME NEW H, IsFiniteSet(H), NEW r, NEW l, NEW c, Null \notin Int,
         DOMAIN r = H, DOMAIN l = H, DOMAIN c = H,
         \A t \in H : r[t] \in Nat /\ l[t] \in Nat /\ c[t] \in Nat /\ r[t] <= l[t] /\ r[t] <= c[t]
  PROVE  /\ (Z!Share(r, c) = Null) = (Z!Share(l, c) = Null)
         /\ Z!Share(r, c) # Null =>
              0 <= Z!Share(r, c) /\ Z!Share(r, c) <= 100 /\ Z!Share(r, c) <= Z!Share(l, c)
<1>1. /\ Z!SumOf(r) = SumFunctionOnSet(r, H) /\ Z!SumOf(l) = SumFunctionOnSet(l, H)
      /\ Z!SumOf(c) = SumFunctionOnSet(c, H)
  <2>1. \A t \in H : r[t] # Null /\ l[t] # Null /\ c[t] # Null
    OBVIOUS
  <2> QED BY <2>1, SumOfColumn
<1> DEFINE R == SumFunctionOnSet(r, H)
           L == SumFunctionOnSet(l, H)
           W == SumFunctionOnSet(c, H)
           none == [t \in H |-> 0]
<1>2. R \in Int /\ L \in Int /\ W \in Int
  BY SumStep
<1>3. R <= L
  BY SumsCompare
<1>4. R <= W
  BY SumsCompare
<1>5. 0 <= R
  <2>1. SumFunctionOnSet(none, H) = 0 * Cardinality(H)
    BY SumOfConstant
  <2>2. SumFunctionOnSet(none, H) = 0
    BY <2>1, FS_CardinalityType
  <2>3. \A t \in H : none[t] \in Int /\ r[t] \in Int /\ none[t] <= r[t]
    OBVIOUS
  <2> HIDE DEF none
  <2>4. SumFunctionOnSet(none, H) <= SumFunctionOnSet(r, H)
    BY <2>3, SumsCompare
  <2> QED BY <2>2, <2>4
<1> HIDE DEF R, L, W
<1>6. /\ Z!Share(r, c) = IF W = 0 THEN Null ELSE (100 * R) \div W
      /\ Z!Share(l, c) = IF W = 0 THEN Null ELSE (100 * L) \div W
  BY <1>1 DEF Z!Share, R, L, W
<1>7. ASSUME W # 0
      PROVE  /\ (100 * R) \div W \in Int /\ (100 * L) \div W \in Int
             /\ 0 <= (100 * R) \div W /\ (100 * R) \div W <= 100
             /\ (100 * R) \div W <= (100 * L) \div W
  <2>1. W \in Nat \ {0} /\ 100 * R \in Int /\ 100 * L \in Int /\ 100 * W \in Int /\ 0 \in Int
    BY <1>2, <1>4, <1>5, <1>7
  <2>2. 0 <= 100 * R /\ 100 * R <= 100 * L /\ 100 * R <= 100 * W
    BY <1>2, <1>3, <1>4, <1>5
  <2>3. 0 \div W <= (100 * R) \div W
    BY <2>1, <2>2, QuotientsCompare
  <2>4. (100 * R) \div W <= (100 * L) \div W
    BY <2>1, <2>2, QuotientsCompare
  <2>5. (100 * R) \div W <= (100 * W) \div W
    BY <2>1, <2>2, QuotientsCompare
  <2>6. 0 \div W = 0 /\ (100 * W) \div W = 100
    BY <2>1
  <2>7. (100 * R) \div W \in Int /\ (100 * L) \div W \in Int
    BY <2>1, QuotientIs
  <2> QED BY <2>3, <2>4, <2>5, <2>6, <2>7
<1> QED BY <1>6, <1>7

\* The process has read a configuration it accepts, and a chart is of rows that exist under it.
ChartInv ==
  /\ app = "up" => C!AcceptsConfig(config)
  /\ reading # Null => \E case \in Cases : case[1] = config /\ case[2] = reading

LEMMA ChartIsKept ==
  /\ Init => ChartInv
  /\ ChartInv /\ [Next]_vars => ChartInv'
<1>1. Init => ChartInv
  BY DEF Init, ChartInv
<1>2. ASSUME ChartInv, [Next]_vars PROVE ChartInv'
  <2>1. CASE BuildApp
    BY <1>2, <2>1 DEF BuildApp, ChartInv
  <2>2. CASE ServeCharts
    BY <1>2, <2>2 DEF ServeCharts, Serves, ChartInv
  <2>3. CASE UNCHANGED <<app, config, reading>>
    BY <1>2, <2>3 DEF ChartInv
  <2> QED BY <1>2, <2>1, <2>2, <2>3 DEF Next, vars, ServeZones, ServeHits, Serves
<1> QED BY <1>1, <1>2

\* What the rules say of the lists of modes.
LEMMA AcceptedModes ==
  ASSUME C!AcceptsConfig(config)
  PROVE  LET all       == Range(config.modes.canonical_modes)
             renewable == Z!ToSet(config.modes.renewable)
             counted   == Z!ToSet(config.modes.canonical_modes)
                            \ Z!ToSet(config.modes.excluded_from_mix_percent)
         IN  /\ renewable \in SUBSET Z!ToSet(config.modes.low_carbon)
             /\ renewable \in SUBSET counted
             /\ Z!ToSet(config.modes.low_carbon) \in SUBSET all /\ counted \in SUBSET all
<1> DEFINE S(field) == C!ToSet(config.modes[field])
<1>1. /\ S("renewable") \subseteq S("canonical_modes") /\ S("low_carbon") \subseteq S("canonical_modes")
      /\ S("renewable") \cap S("excluded_from_mix_percent") = {}
      /\ S("renewable") \subseteq S("low_carbon")
  BY DEF C!AcceptsConfig, C!AcceptsModes
<1>2. \A s : C!ToSet(s) = Z!ToSet(s) /\ C!ToSet(s) = Range(s)
  BY DEF C!ToSet, Z!ToSet, Range
<1> HIDE DEF S
<1>3. /\ S("renewable") = Z!ToSet(config.modes.renewable)
      /\ S("low_carbon") = Z!ToSet(config.modes.low_carbon)
      /\ S("excluded_from_mix_percent") = Z!ToSet(config.modes.excluded_from_mix_percent)
      /\ S("canonical_modes") = Z!ToSet(config.modes.canonical_modes)
      /\ S("canonical_modes") = Range(config.modes.canonical_modes)
  BY <1>2 DEF S
<1> QED BY <1>1, <1>3

\* A respondent has one place in an accepted registry, and only authorities are drawn.
LEMMA AcceptedZones ==
  ASSUME C!AcceptsConfig(config)
  PROVE  /\ \A i, j \in DOMAIN config.zones :
              config.zones[i].eia_respondent = config.zones[j].eia_respondent => i = j
         /\ \A i \in DOMAIN config.zones :
              /\ config.zones[i].in_map => config.zones[i].type = "balancing_authority"
              /\ \A k \in DOMAIN config.excludedRespondents :
                   config.zones[i].eia_respondent # config.excludedRespondents[k].code
<1>1. \A i, j \in DOMAIN config.zones :
        config.zones[i].eia_respondent = config.zones[j].eia_respondent => i = j
  BY DEF C!AcceptsConfig, C!AcceptsZones, C!NoDuplicates, C!Column
<1>2. \A i \in DOMAIN config.zones : config.zones[i].in_map => config.zones[i].type = "balancing_authority"
  BY DEF C!AcceptsConfig, C!AcceptsZones, C!AcceptsZone
<1>3. ASSUME NEW i \in DOMAIN config.zones, NEW k \in DOMAIN config.excludedRespondents
      PROVE  config.zones[i].eia_respondent # config.excludedRespondents[k].code
  <2>1. /\ config.zones[i].eia_respondent \in C!ToSet(C!Column(config.zones, "eia_respondent"))
        /\ config.excludedRespondents[k].code \in C!ToSet(C!Column(config.excludedRespondents, "code"))
    BY DEF C!ToSet, C!Column
  <2> QED BY <2>1 DEF C!AcceptsConfig
<1> QED BY <1>1, <1>2, <1>3

\* The shares in one point of a chart.
LEMMA ChartShares ==
  ASSUME C!AcceptsConfig(config), ChartInv, reading # Null, NEW i \in DOMAIN Chart.period
  PROVE  /\ (Chart.renewable[i] = Null) = (Chart.low_carbon[i] = Null)
         /\ Chart.renewable[i] # Null =>
              0 <= Chart.renewable[i] /\ Chart.renewable[i] <= 100
              /\ Chart.renewable[i] <= Chart.low_carbon[i]
<1> DEFINE axis == Z!Axis(reading.window, reading.latest)
           H == Z!InBucket(reading.mix, reading.window, reading.latest, axis[i])
           r == [t \in H |-> Z!RENEWABLE_SUM(config.modes, reading.mix[t])]
           l == [t \in H |-> Z!LOW_CARBON_SUM(config.modes, reading.mix[t])]
           c == [t \in H |-> Z!COUNTED_SUM(config.modes, reading.mix[t])]
<1>1. Chart.renewable[i] = Z!Share(r, c) /\ Chart.low_carbon[i] = Z!Share(l, c)
  BY DEF Chart, Z!Series
<1>2. PICK case \in Cases : case[1] = config /\ case[2] = reading
  BY DEF ChartInv
<1>3. /\ IsFiniteSet(Range(config.modes.canonical_modes)) /\ Null \notin Int
      /\ IsFiniteSet(DOMAIN reading.mix)
      /\ \A t \in DOMAIN reading.mix, m \in Range(config.modes.canonical_modes) :
           reading.mix[t][m] \in Int \cup {Null}
  BY <1>2, ServingAssumption
<1>4. IsFiniteSet(H) /\ H \subseteq DOMAIN reading.mix
  <2>1. H \in SUBSET DOMAIN reading.mix
    BY DEF Z!InBucket
  <2> QED BY <1>3, <2>1, FS_Subset
<1> HIDE DEF H
<1>5. ASSUME NEW t \in H
      PROVE  r[t] \in Nat /\ l[t] \in Nat /\ c[t] \in Nat /\ r[t] <= l[t] /\ r[t] <= c[t]
  <2> DEFINE all == Range(config.modes.canonical_modes)
             renewable == Z!ToSet(config.modes.renewable)
             carbonless == Z!ToSet(config.modes.low_carbon)
             counted == Z!ToSet(config.modes.canonical_modes)
                          \ Z!ToSet(config.modes.excluded_from_mix_percent)
             reported == reading.mix[t]
  <2>1. /\ renewable \in SUBSET carbonless /\ renewable \in SUBSET counted
        /\ carbonless \in SUBSET all /\ counted \in SUBSET all
    BY AcceptedModes
  <2>2. /\ r[t] = Z!columnsFor(renewable, reported) /\ l[t] = Z!columnsFor(carbonless, reported)
        /\ c[t] = Z!columnsFor(counted, reported)
    BY DEF Z!RENEWABLE_SUM, Z!LOW_CARBON_SUM, Z!COUNTED_SUM
  <2>3. IsFiniteSet(all) /\ Null \notin Int /\ \A m \in all : reported[m] \in Int \cup {Null}
    BY <1>3, <1>4
  <2> HIDE DEF all, renewable, carbonless, counted, reported, r, l, c
  <2>4. /\ Z!columnsFor(renewable, reported) \in Nat /\ Z!columnsFor(carbonless, reported) \in Nat
        /\ Z!columnsFor(renewable, reported) <= Z!columnsFor(carbonless, reported)
    BY <2>1, <2>3, MoreModesMore
  <2>5. /\ Z!columnsFor(counted, reported) \in Nat
        /\ Z!columnsFor(renewable, reported) <= Z!columnsFor(counted, reported)
    BY <2>1, <2>3, MoreModesMore
  <2> QED BY <2>2, <2>4, <2>5
<1>6. DOMAIN r = H /\ DOMAIN l = H /\ DOMAIN c = H
  OBVIOUS
<1> HIDE DEF r, l, c
<1>7. /\ (Z!Share(r, c) = Null) = (Z!Share(l, c) = Null)
      /\ Z!Share(r, c) # Null =>
           0 <= Z!Share(r, c) /\ Z!Share(r, c) <= 100 /\ Z!Share(r, c) <= Z!Share(l, c)
  BY <1>3, <1>4, <1>5, <1>6, SharesCompare
<1> QED BY <1>1, <1>7

\* Whatever configuration the API starts with: its registry is sound, and the shares of every
\* chart of every zone's rows lie in order between nothing and the whole.
THEOREM ConfigIsSound == Spec => []OnlySoundConfigServes
<1>1. ChartInv => OnlySoundConfigServes
  <2> SUFFICES ASSUME ChartInv, app = "up" PROVE OnlySoundConfigServes
    BY DEF OnlySoundConfigServes
  <2>1. C!AcceptsConfig(config)
    BY DEF ChartInv
  <2> QED BY <2>1, AcceptedZones, ChartShares DEF OnlySoundConfigServes
<1> QED BY <1>1, ChartIsKept, PTL DEF Spec

-----------------------------------------------------------------------------
(* The axis of a chart, and the readings in its points. *)

\* A month starts before the next one does.
LEMMA MonthsFollow ==
  ASSUME NEW k \in Nat
  PROVE  /\ Z!MonthStart(k) \in Nat /\ Z!MonthStart(k) < Z!MonthStart(k + 1)
         /\ Z!MonthStart(0) = 0
<1> DEFINE y == k \div 12
           m == k % 12
<1>1. y \in Nat /\ m \in 0..11 /\ k = 12 * y + m
  OBVIOUS
<1>2. CASE m < 11
  <2>1. (k + 1) \div 12 = y /\ (k + 1) % 12 = m + 1
    BY <1>1, <1>2
  <2> HIDE DEF y, m
  <2> DEFINE leap == (y + 2) \div 4
             l1 == IF y % 4 = 1 /\ m + 1 > 2 THEN 1 ELSE 0
             l2 == IF y % 4 = 1 /\ m + 2 > 2 THEN 1 ELSE 0
  <2>2. leap \in Nat /\ l1 \in Nat /\ l2 \in Nat /\ l1 <= l2
    BY <1>1
  <2>3. Z!DaysBefore[m + 1] \in Nat /\ Z!DaysBefore[m + 2] \in Nat
        /\ Z!DaysBefore[m + 1] < Z!DaysBefore[m + 2]
    <3>1. m \in 0..10
      BY <1>1, <1>2
    <3> QED BY <3>1 DEF Z!DaysBefore
  <2>4. Z!MonthStart(k) = 24 * (365 * y + (leap + l1) + Z!DaysBefore[m + 1])
    BY DEF Z!MonthStart, y, m
  <2>5. Z!MonthStart(k + 1) = 24 * (365 * y + (leap + l2) + Z!DaysBefore[m + 2])
    BY <2>1, <1>1 DEF Z!MonthStart
  <2>6. Z!MonthStart(0) = 0
    BY DEF Z!MonthStart, Z!DaysBefore
  <2> HIDE DEF leap, l1, l2
  <2> QED BY <1>1, <2>2, <2>3, <2>4, <2>5, <2>6
<1>3. CASE m = 11
  <2>1. (k + 1) \div 12 = y + 1 /\ (k + 1) % 12 = 0
    BY <1>1, <1>3
  <2> HIDE DEF y, m
  <2> DEFINE leap == (y + 2) \div 4
             next == (y + 3) \div 4
             l1 == IF y % 4 = 1 THEN 1 ELSE 0
  <2>2. leap \in Nat /\ next \in Nat /\ l1 \in {0, 1} /\ leap <= next
    BY <1>1
  <2>3. Z!DaysBefore[12] = 334 /\ Z!DaysBefore[1] = 0
    BY DEF Z!DaysBefore
  <2>4. Z!MonthStart(k) = 24 * (365 * y + (leap + l1) + 334)
    BY <1>3, <2>3 DEF Z!MonthStart, y, m
  <2>5. Z!MonthStart(k + 1) = 24 * (365 * (y + 1) + next)
    BY <2>1, <2>3, <1>1 DEF Z!MonthStart
  <2>6. Z!MonthStart(0) = 0
    BY DEF Z!MonthStart, Z!DaysBefore
  <2> HIDE DEF leap, l1, next
  <2> QED BY <1>1, <2>2, <2>4, <2>5, <2>6
<1> QED BY <1>1, <1>2, <1>3

\* The months are in order, from the first hour of all on.
LEMMA MonthsAscend ==
  /\ DOMAIN Z!MonthStarts = 1..120 /\ Z!MonthStarts[1] = 0
  /\ \A i \in 1..120 : Z!MonthStarts[i] \in Nat
  /\ \A i, j \in 1..120 : i < j => Z!MonthStarts[i] < Z!MonthStarts[j]
<1> DEFINE f == Z!MonthStarts
<1>1. DOMAIN f = 1..120 /\ \A i \in 1..120 : f[i] = Z!MonthStart(i - 1)
  BY DEF Z!MonthStarts
<1>2. f[1] = 0
  BY <1>1, MonthsFollow
<1>3. ASSUME NEW i \in 1..120 PROVE f[i] \in Nat /\ (i < 120 => f[i] < f[i + 1])
  <2>1. i - 1 \in Nat /\ (i - 1) + 1 = i /\ i + 1 - 1 = i
    OBVIOUS
  <2>2. Z!MonthStart(i - 1) \in Nat /\ Z!MonthStart(i - 1) < Z!MonthStart(i)
    BY <2>1, MonthsFollow
  <2>3. i < 120 => i + 1 \in 1..120
    OBVIOUS
  <2> QED BY <1>1, <2>1, <2>2, <2>3
<1> HIDE DEF f
<1>4. \A i, j \in 1..120 : i < j => f[i] < f[j]
  BY <1>3, GrowsFromPlaceToPlace
<1> QED BY <1>1, <1>2, <1>3, <1>4 DEF f

\* An hour lies in the month whose start is the last one before it.
LEMMA MonthIsTheLastBefore ==
  ASSUME NEW t \in Nat
  PROVE  /\ Z!MonthOf(t) \in 1..120 /\ Z!MonthStarts[Z!MonthOf(t)] <= t
         /\ \A k \in 1..120 : Z!MonthStarts[k] <= t => k <= Z!MonthOf(t)
<1> DEFINE months == 120
           K == {k \in 1..months : Z!MonthStarts[k] <= t}
<1>1. K \in SUBSET Int /\ IsFiniteSet(K) /\ 1 \in K
  <2>1. 1 \in Int /\ months \in Int
    OBVIOUS
  <2>2. 1 \in K
    <3>1. Z!MonthStarts[1] <= t /\ 1 \in 1..120
      <4>1. Z!MonthStarts[1] = 0
        BY MonthsAscend
      <4> QED BY <4>1
    <3> QED BY <3>1
  <2> HIDE DEF months
  <2>3. IsFiniteSet(1..months)
    BY <2>1, FS_Interval
  <2>4. K \in SUBSET (1..months) /\ K \in SUBSET Int
    BY <2>1
  <2> HIDE DEF K
  <2> QED BY <2>2, <2>3, <2>4, FS_Subset
<1>2. PICK last \in K : \A k \in K : last >= k
  BY <1>1, FiniteHasEnds
<1>3. \A k \in 1..120 : Z!MonthStarts[k] \in Nat
  BY MonthsAscend
<1>4. /\ last \in 1..120 /\ Z!MonthStarts[last] <= t
      /\ \A k \in 1..120 : Z!MonthStarts[k] <= t => last >= k
  BY <1>2
<1>5. last = 120 \/ t < Z!MonthStarts[last + 1]
  <2>1. last # 120 => last + 1 \in 1..120 /\ ~(last >= last + 1)
    BY <1>4
  <2> QED BY <2>1, <1>3, <1>4
<1>6. PICK n \in 1..120 : /\ n = Z!MonthOf(t) /\ Z!MonthStarts[n] <= t
                          /\ n = 120 \/ t < Z!MonthStarts[n + 1]
  BY <1>4, <1>5 DEF Z!MonthOf
<1>7. ASSUME NEW k \in 1..120, Z!MonthStarts[k] <= t PROVE k <= n
  <2> SUFFICES ASSUME n < k PROVE FALSE
    OBVIOUS
  <2>1. n # 120 /\ n + 1 \in 1..120 /\ (n + 1 < k \/ n + 1 = k)
    OBVIOUS
  <2>2. n + 1 < k => Z!MonthStarts[n + 1] < Z!MonthStarts[k]
    BY <2>1, MonthsAscend
  <2> QED BY <1>3, <1>6, <1>7, <2>1, <2>2
<1> QED BY <1>6, <1>7

\* The points of an axis: in order, the first one not after the range, and each hour of the range
\* in the last point that does not begin after it.
ArePoints(axis, unit, from, last) ==
  /\ Len(axis) \in Nat \ {0} /\ DOMAIN axis = 1..Len(axis) /\ axis[1] <= from
  /\ \A i \in 1..Len(axis) : axis[i] \in Int /\ (i > 1 => axis[i - 1] < axis[i])
  /\ \A i \in 1..Len(axis), t \in from..last :
       (Z!date_trunc(unit, t) = axis[i]) <=> (axis[i] <= t /\ (i < Len(axis) => t < axis[i + 1]))

PointsOf(unit, from, last) ==
  Z!generate_series(Z!date_trunc(unit, from), Z!date_trunc(unit, last), unit)

LEMMA HourPoints ==
  ASSUME NEW from \in Int, NEW last \in Int, from <= last
  PROVE  ArePoints(PointsOf("hour", from, last), "hour", from, last)
<1> DEFINE axis == PointsOf("hour", from, last)
           n == last - from + 1
<1>1. axis = [k \in 1..n |-> from + (k - 1)]
  <2>1. (last - from) \div 1 + 1 = n /\ \A k \in 1..n : from + 1 * (k - 1) = from + (k - 1)
    OBVIOUS
  <2>2. axis = [k \in 1..((last - from) \div 1 + 1) |-> from + 1 * (k - 1)]
    BY DEF PointsOf, Z!generate_series, Z!date_trunc
  <2> HIDE DEF axis, n
  <2> QED BY <2>1, <2>2
<1>2. n \in Nat \ {0}
  OBVIOUS
<1> HIDE DEF axis
<1>3. Len(axis) = n /\ DOMAIN axis = 1..n /\ \A k \in 1..n : axis[k] = from + (k - 1)
  BY <1>1, <1>2
<1>4. axis[1] <= from
  BY <1>2, <1>3
<1>5. \A i \in 1..n : axis[i] \in Int /\ (i > 1 => axis[i - 1] < axis[i])
  BY <1>2, <1>3
<1>6. ASSUME NEW i \in 1..n, NEW t \in from..last
      PROVE  (Z!date_trunc("hour", t) = axis[i]) <=> (axis[i] <= t /\ (i < n => t < axis[i + 1]))
  <2>1. Z!date_trunc("hour", t) = t
    BY DEF Z!date_trunc
  <2>2. axis[i] = from + (i - 1) /\ (i < n => axis[i + 1] = from + i)
    BY <1>2, <1>3
  <2> QED BY <2>1, <2>2
<1> QED BY <1>2, <1>3, <1>4, <1>5, <1>6 DEF ArePoints, axis

LEMMA DayPoints ==
  ASSUME NEW from \in Int, NEW last \in Int, from <= last
  PROVE  ArePoints(PointsOf("day", from, last), "day", from, last)
<1> DEFINE axis == PointsOf("day", from, last)
           a == from \div 24
           b == last \div 24
           n == b - a + 1
<1>1. ASSUME NEW t \in Int PROVE Z!date_trunc("day", t) = 24 * (t \div 24) /\ t \div 24 \in Int
                                 /\ 24 * (t \div 24) <= t /\ t < 24 * (t \div 24) + 24
  BY DEF Z!date_trunc
<1>2. a \in Int /\ b \in Int /\ n \in Nat \ {0} /\ last < 24 * b + 24 /\ 24 * a <= from
  OBVIOUS
<1>3. axis = [k \in 1..((24 * b - 24 * a) \div 24 + 1) |-> 24 * a + 24 * (k - 1)]
  BY <1>1 DEF PointsOf, Z!generate_series
<1> HIDE DEF axis, a, b
<1>4. (24 * b - 24 * a) \div 24 + 1 = n
  BY <1>2
<1>5. Len(axis) = n /\ DOMAIN axis = 1..n /\ \A k \in 1..n : axis[k] = 24 * (a + (k - 1))
  BY <1>2, <1>3, <1>4
<1> HIDE DEF n
<1>6. axis[1] <= from
  BY <1>2, <1>5
<1>7. \A i \in 1..n : axis[i] \in Int /\ (i > 1 => axis[i - 1] < axis[i])
  BY <1>2, <1>5
<1>8. ASSUME NEW i \in 1..n, NEW t \in from..last
      PROVE  (Z!date_trunc("day", t) = axis[i]) <=> (axis[i] <= t /\ (i < n => t < axis[i + 1]))
  <2>1. axis[i] = 24 * (a + (i - 1)) /\ (i < n => axis[i + 1] = 24 * (a + i))
    BY <1>2, <1>5
  <2>2. i = n => 24 * (a + i) = 24 * b + 24
    BY <1>2 DEF n
  <2>3. t \in Int /\ t < 24 * b + 24
    BY <1>2
  <2>4. PICK d \in Int : Z!date_trunc("day", t) = 24 * d /\ 24 * d <= t /\ t < 24 * d + 24
    BY <1>1, <2>3
  <2> QED BY <1>2, <2>1, <2>2, <2>3, <2>4
<1> QED BY <1>2, <1>5, <1>6, <1>7, <1>8 DEF ArePoints, axis

LEMMA MonthPoints ==
  ASSUME NEW from \in Nat, NEW last \in Nat, from <= last
  PROVE  ArePoints(PointsOf("month", from, last), "month", from, last)
<1> DEFINE axis == PointsOf("month", from, last)
           start(k) == Z!MonthStarts[k]
           p == Z!MonthOf(from)
           q == Z!MonthOf(last)
           n == q - p + 1
<1>1. ASSUME NEW t \in Nat
      PROVE  /\ Z!MonthOf(t) \in 1..120 /\ start(Z!MonthOf(t)) <= t
             /\ \A k \in 1..120 : start(k) <= t => k <= Z!MonthOf(t)
  BY MonthIsTheLastBefore
<1>2. /\ \A i \in 1..120 : start(i) \in Nat
      /\ \A i, j \in 1..120 : i < j => start(i) < start(j)
  BY MonthsAscend
<1>3. ASSUME NEW t \in Nat PROVE Z!date_trunc("month", t) = start(Z!MonthOf(t))
  BY DEF Z!date_trunc
<1> HIDE DEF start
<1>4. ASSUME NEW k \in 1..120 PROVE Z!MonthOf(start(k)) = k
  <2>1. start(k) \in Nat
    BY <1>2
  <2>2. Z!MonthOf(start(k)) \in 1..120 /\ start(Z!MonthOf(start(k))) <= start(k)
        /\ k <= Z!MonthOf(start(k))
    BY <2>1, <1>1
  <2>3. ~(k < Z!MonthOf(start(k)))
    BY <2>2, <1>2
  <2> QED BY <2>2, <2>3
<1>5. /\ p \in 1..120 /\ q \in 1..120 /\ start(p) <= from
      /\ p <= q /\ \A k \in 1..120 : start(k) <= last => k <= q
  BY <1>1, <1>2
<1>6. axis = SubSeq(Z!MonthStarts, p, q)
  <2>1. axis = SubSeq(Z!MonthStarts, Z!MonthOf(start(p)), Z!MonthOf(start(q)))
    BY <1>3 DEF PointsOf, Z!generate_series
  <2> QED BY <2>1, <1>4, <1>5
<1> HIDE DEF axis, p, q
<1>7. n \in Nat \ {0} /\ DOMAIN axis = 1..n /\ Len(axis) = n
      /\ \A k \in 1..n : p + k - 1 \in 1..120 /\ axis[k] = start(p + k - 1)
  <2>1. n \in Nat \ {0} /\ \A k \in 1..n : p + k - 1 \in 1..120
    BY <1>5
  <2>2. axis = [k \in 1..n |-> Z!MonthStarts[p + k - 1]]
    BY <1>5, <1>6
  <2> QED BY <2>1, <2>2 DEF start
<1> HIDE DEF n
<1>8. axis[1] <= from
  <2>1. 1 \in 1..n /\ p + 1 - 1 = p
    BY <1>5, <1>7
  <2> QED BY <2>1, <1>5, <1>7
<1>9. ASSUME NEW i \in 1..n PROVE axis[i] \in Int /\ (i > 1 => axis[i - 1] < axis[i])
  <2>1. axis[i] = start(p + i - 1) /\ p + i - 1 \in 1..120
    BY <1>7
  <2>2. ASSUME i > 1 PROVE axis[i - 1] = start(p + (i - 1) - 1) /\ p + (i - 1) - 1 \in 1..120
                           /\ p + (i - 1) - 1 < p + i - 1
    <3>1. i - 1 \in 1..n
      BY <1>7, <2>2
    <3>2. axis[i - 1] = start(p + (i - 1) - 1) /\ p + (i - 1) - 1 \in 1..120
      BY <3>1, <1>7
    <3>3. p \in Int /\ i \in Int
      BY <1>5, <1>7
    <3>4. p + (i - 1) - 1 < p + i - 1
      BY <3>3
    <3> QED BY <3>2, <3>4
  <2> QED BY <2>1, <2>2, <1>2
<1>10. ASSUME NEW i \in 1..n, NEW t \in from..last
       PROVE  (Z!date_trunc("month", t) = axis[i]) <=> (axis[i] <= t /\ (i < n => t < axis[i + 1]))
  <2> DEFINE m == Z!MonthOf(t)
             k == p + i - 1
  <2>1. /\ t \in Nat /\ m \in 1..120 /\ start(m) <= t /\ Z!date_trunc("month", t) = start(m)
        /\ \A j \in 1..120 : start(j) <= t => j <= m
    BY <1>1, <1>3
  <2>2. k \in 1..120 /\ axis[i] = start(k) /\ (i < n => k + 1 \in 1..120 /\ axis[i + 1] = start(k + 1))
    <3>1. i < n => i + 1 \in 1..n /\ p + (i + 1) - 1 = k + 1
      BY <1>5, <1>7
    <3> QED BY <3>1, <1>7
  <2>3. m <= q
    BY <2>1, <1>2, <1>5
  <2>4. i = n => k = q
    BY <1>5 DEF n
  <2>4a. i < n \/ i = n
    BY <1>7
  <2>5. start(m) = start(k) <=> m = k
    BY <2>1, <2>2, <1>2
  <2> HIDE DEF m, k
  <2>6. m = k => start(k) <= t /\ (i < n => t < start(k + 1))
    <3>1. i < n /\ start(k + 1) <= t => k + 1 <= m
      BY <2>1, <2>2
    <3>2. i < n => start(k + 1) \in Nat
      BY <2>2, <1>2
    <3> QED BY <3>1, <3>2, <2>1, <2>2
  <2>7. ASSUME start(k) <= t, i < n => t < start(k + 1) PROVE m = k
    <3>1. k <= m
      BY <2>1, <2>2, <2>7
    <3>2. CASE i = n
      BY <3>1, <3>2, <2>1, <2>2, <2>3, <2>4
    <3>3. CASE i < n
      <4>1. start(m) < start(k + 1)
        BY <3>3, <2>7, <2>1, <2>2, <1>2
      <4>2. ~(k + 1 < m) /\ m # k + 1
        BY <4>1, <3>3, <2>1, <2>2, <1>2
      <4> QED BY <4>2, <3>1, <2>1, <2>2
    <3> QED BY <3>2, <3>3, <2>4a
  <2> QED BY <2>1, <2>2, <2>5, <2>6, <2>7
<1> QED BY <1>7, <1>8, <1>9, <1>10 DEF ArePoints, axis

\* A mean lies between the numbers it is the mean of, and is nothing only of nothing.
LEMMA MeanIsBetween ==
  ASSUME NEW col, NEW H, DOMAIN col = H, IsFiniteSet(H), Null \notin Int,
         \A t \in H : col[t] \in Int \cup {Null}
  PROVE  /\ (Z!Mean(col) = Null) = ({t \in H : col[t] # Null} = {})
         /\ Z!Mean(col) # Null =>
              /\ \E t \in H : col[t] # Null /\ col[t] <= Z!Mean(col)
              /\ \E t \in H : col[t] # Null /\ col[t] >= Z!Mean(col)
<1> DEFINE R == {t \in H : col[t] # Null}
           S == SumFunctionOnSet(col, R)
           n == Cardinality(R)
           q == S \div n
           same(x) == [t \in R |-> x]
<1>1. Z!Mean(col) = IF R = {} THEN Null ELSE q
  <2>1. Z!Reported(col) = R
    BY DEF Z!Reported
  <2>2. Z!SumOf(col) = S
    BY <2>1, ZoneSums DEF Z!SumOf
  <2> QED BY <2>1, <2>2, ZoneCounts DEF Z!Mean
<1>2. IsFiniteSet(R) /\ \A t \in R : col[t] \in Int
  <2>1. R \in SUBSET H
    OBVIOUS
  <2> QED BY <2>1, FS_Subset
<1> SUFFICES ASSUME R # {}
             PROVE  /\ q # Null
                    /\ \E t \in R : col[t] <= q
                    /\ \E t \in R : col[t] >= q
  BY <1>1
<1> HIDE DEF R
<1>3. n \in Nat \ {0}
  BY <1>2, FS_CardinalityType, FS_EmptySet
<1>4. S \in Int
  BY <1>2, SumStep
<1> HIDE DEF S, n
<1>5. q \in Int /\ n * q <= S /\ S < n * q + n
  BY <1>3, <1>4, QuotientIs
<1> HIDE DEF q
<1>6. ASSUME NEW x \in Int PROVE SumFunctionOnSet(same(x), R) = x * n
  <2>1. \A t \in R : same(x)[t] = x
    OBVIOUS
  <2> HIDE DEF same
  <2> QED BY <2>1, <1>2, SumOfConstant DEF n
<1>7. ASSUME \A t \in R : ~(col[t] <= q) PROVE FALSE
  <2> DEFINE least == same(q + 1)
  <2>1. \A t \in R : least[t] \in Int /\ col[t] \in Int /\ least[t] <= col[t]
    BY <1>2, <1>5, <1>7
  <2>2. SumFunctionOnSet(least, R) = (q + 1) * n
    <3>1. q + 1 \in Int
      BY <1>5
    <3> HIDE DEF same
    <3> QED BY <3>1, <1>6
  <2> HIDE DEF least
  <2>3. SumFunctionOnSet(least, R) <= S
    BY <2>1, <1>2, SumsCompare DEF S
  <2>4. (q + 1) * n = n * q + n /\ n * q \in Int /\ n * q + n \in Int
    BY <1>3, <1>5
  <2>5. n * q + n <= S
    BY <2>2, <2>3, <2>4
  <2> QED BY <2>4, <2>5, <1>4, <1>5
<1>8. ASSUME \A t \in R : ~(col[t] >= q) PROVE FALSE
  <2> DEFINE most == same(q - 1)
  <2>1. \A t \in R : most[t] \in Int /\ col[t] \in Int /\ col[t] <= most[t]
    BY <1>2, <1>5, <1>8
  <2>2. SumFunctionOnSet(most, R) = (q - 1) * n
    <3>1. q - 1 \in Int
      BY <1>5
    <3> HIDE DEF same
    <3> QED BY <3>1, <1>6
  <2> HIDE DEF most
  <2>3. S <= SumFunctionOnSet(most, R)
    BY <2>1, <1>2, SumsCompare DEF S
  <2>4. (q - 1) * n = n * q - n /\ n * q \in Int
    BY <1>3, <1>5
  <2> QED BY <2>2, <2>3, <2>4, <1>3, <1>4, <1>5
<1> QED BY <1>5, <1>7, <1>8

\* What there is of the rows a chart is made of.
LEMMA RowsAre ==
  ASSUME ChartInv, reading # Null
  PROVE  /\ Null \notin Int
         /\ reading.window \in DOMAIN Z!WINDOWS /\ reading.latest \in Nat
         /\ IsFiniteSet(DOMAIN reading.region) /\ DOMAIN reading.region \subseteq Nat
         /\ \A t \in DOMAIN reading.region : reading.region[t] \in Int \cup {Null}
         /\ \A f \in reading.issues : f.target \in Int /\ f.issue \in Int /\ f.value \in Int
<1>1. PICK case \in Cases : case[1] = config /\ case[2] = reading
  BY DEF ChartInv
<1> QED BY <1>1, ServingAssumption DEF IsColumn

\* The axis of a chart.
LEMMA AxisIs ==
  ASSUME NEW window \in DOMAIN Z!WINDOWS, NEW latest \in Nat, Null \notin Int
  PROVE  /\ Z!From(window, latest) \in Int /\ Z!From(window, latest) <= latest
         /\ ArePoints(Z!Axis(window, latest), Z!WINDOWS[window].bucket, Z!From(window, latest), latest)
<1> DEFINE bucket == Z!WINDOWS[window].bucket
           hours == Z!WINDOWS[window].hours
           from == Z!From(window, latest)
<1>1. /\ bucket \in {"hour", "day", "month"}
      /\ hours \in Nat \ {0} \/ (hours = Null /\ bucket = "month")
      /\ bucket = "month" => hours = Null
  <2>1. window \in {"24h", "72h", "168h", "30d", "90d", "1y", "all"}
    BY DEF Z!WINDOWS
  <2>2. CASE window \in {"24h", "72h", "168h"}
    <3>1. bucket = "hour" /\ hours \in {24, 72, 168}
      BY <2>2 DEF Z!WINDOWS
    <3> QED BY <3>1
  <2>3. CASE window \in {"30d", "90d", "1y"}
    <3>1. bucket = "day" /\ hours \in {24 * 30, 24 * 90, 24 * 365}
      BY <2>3 DEF Z!WINDOWS
    <3> QED BY <3>1
  <2>4. CASE window = "all"
    BY <2>4 DEF Z!WINDOWS
  <2> HIDE DEF bucket, hours
  <2> QED BY <2>1, <2>2, <2>3, <2>4
<1>2. from = IF hours = Null THEN 0 ELSE latest - (hours - 1)
  BY DEF Z!From, Z!EARLIEST_PERIOD
<1>3. Z!Axis(window, latest) = PointsOf(bucket, from, latest)
  BY DEF Z!Axis, PointsOf
<1> HIDE DEF bucket, hours, from
<1>4. from \in Int /\ from <= latest /\ (bucket = "month" => from \in Nat)
  BY <1>1, <1>2
<1>5. ArePoints(PointsOf(bucket, from, latest), bucket, from, latest)
  <2>1. CASE bucket = "hour"
    BY <2>1, <1>4, HourPoints
  <2>2. CASE bucket = "day"
    BY <2>2, <1>4, DayPoints
  <2>3. CASE bucket = "month"
    BY <2>3, <1>4, MonthPoints
  <2> QED BY <1>1, <2>1, <2>2, <2>3
<1> QED BY <1>3, <1>4, <1>5 DEF bucket, from

\* The shortest notice of the forecasts in a point.
LEMMA NoticeIsADay ==
  ASSUME NEW V, Null \notin Int,
         \A f \in V : f.target \in Int /\ f.issue \in Int /\ f.target - f.issue >= 24, V # {}
  PROVE  Z!Min({f.target - f.issue : f \in V}) >= 24
<1> DEFINE N == {f.target - f.issue : f \in V}
<1>1. N \in SUBSET Nat /\ N # {} /\ \A n \in N : n >= 24
  OBVIOUS
<1> HIDE DEF N
<1>2. \E x \in N : \A y \in N : x <= y
  BY <1>1, NaturalsHaveLeast
<1>3. Z!Min(N) \in N
  BY <1>2 DEF Z!Min
<1> QED BY <1>1, <1>3 DEF N

\* A chart is of the readings, whatever was read: its points share out the hours of the window,
\* a point lies between the readings in it, and a forecast was issued a day ahead.
LEMMA ChartIsOfReadings == ChartInv => SeriesAreTheReadings
<1> SUFFICES ASSUME ChartInv, reading # Null PROVE SeriesAreTheReadings
  BY DEF SeriesAreTheReadings
<1> DEFINE window == reading.window
           latest == reading.latest
           from == Z!From(window, latest)
           axis == Z!Axis(window, latest)
           bucket == Z!WINDOWS[window].bucket
           Of(i) == {t \in DOMAIN reading.region :
                       /\ from <= t /\ t <= latest /\ reading.region[t] # Null
                       /\ axis[i] <= t /\ (i < Len(axis) => t < axis[i + 1])}
<1>1. /\ from \in Int /\ from <= latest /\ latest \in Nat
      /\ ArePoints(axis, bucket, from, latest)
  BY RowsAre, AxisIs
<1>2. Chart.period = axis
  BY DEF Chart, Z!Series
<1>3. ASSUME NEW i \in DOMAIN axis
      PROVE  /\ (Chart.demand[i] = Null) = (Of(i) = {})
             /\ Chart.demand[i] # Null =>
                  /\ \E t \in Of(i) : reading.region[t] <= Chart.demand[i]
                  /\ \E t \in Of(i) : reading.region[t] >= Chart.demand[i]
  <2> DEFINE H == Z!InBucket(reading.region, window, latest, axis[i])
             col == [t \in H |-> reading.region[t]]
  <2>1. Chart.demand[i] = Z!Mean(col)
    BY DEF Chart, Z!Series
  <2>2. H = {t \in DOMAIN reading.region :
               from <= t /\ t <= latest /\ Z!date_trunc(bucket, t) = axis[i]}
    BY DEF Z!InBucket
  <2>3. H \in SUBSET DOMAIN reading.region
    BY <2>2
  <2>4. IsFiniteSet(H) /\ \A t \in H : col[t] \in Int \cup {Null}
    BY <2>3, RowsAre, FS_Subset
  <2>5. \A t \in DOMAIN reading.region : from <= t /\ t <= latest =>
          ((Z!date_trunc(bucket, t) = axis[i]) <=> (axis[i] <= t /\ (i < Len(axis) => t < axis[i + 1])))
    <3>1. \A t \in DOMAIN reading.region : from <= t /\ t <= latest => t \in from..latest
      BY <1>1, RowsAre
    <3> HIDE DEF axis, from, latest, bucket
    <3> QED BY <3>1, <1>1 DEF ArePoints
  <2>6. {t \in H : col[t] # Null} = Of(i)
    <3> HIDE DEF axis, from, latest, bucket, H
    <3> QED BY <2>2, <2>5
  <2>7. DOMAIN col = H /\ Null \notin Int /\ \A t \in H : col[t] = reading.region[t]
    BY RowsAre
  <2> HIDE DEF col, H, Of
  <2>8. /\ (Z!Mean(col) = Null) = ({t \in H : col[t] # Null} = {})
        /\ Z!Mean(col) # Null =>
             /\ \E t \in H : col[t] # Null /\ col[t] <= Z!Mean(col)
             /\ \E t \in H : col[t] # Null /\ col[t] >= Z!Mean(col)
    BY <2>4, <2>7, MeanIsBetween
  <2> QED BY <2>1, <2>6, <2>7, <2>8
<1>4. ASSUME NEW i \in DOMAIN axis, Chart.horizon[i] # Null
      PROVE  Chart.horizon[i] >= Z!FORECAST_HORIZON_HOURS
  <2> DEFINE targets == [t \in {f.target : f \in reading.issues} |-> Z!Chosen(reading.issues, t)]
             V == UNION {targets[t] : t \in Z!InBucket(targets, window, latest, axis[i])}
  <2>1. Chart.horizon[i] = IF V = {} THEN Null ELSE Z!Min({f.target - f.issue : f \in V})
    BY DEF Chart, Z!Series
  <2>2. \A t \in DOMAIN targets : \A f \in targets[t] : f \in reading.issues /\ f.issue <= f.target - 24
    BY DEF Z!Chosen, Z!FORECAST_HORIZON_HOURS
  <2>3. \A t \in Z!InBucket(targets, window, latest, axis[i]) : t \in DOMAIN targets
    BY DEF Z!InBucket
  <2> HIDE DEF targets
  <2>4. \A f \in V : f.target \in Int /\ f.issue \in Int /\ f.target - f.issue >= 24
    <3> SUFFICES ASSUME NEW f \in V PROVE f.target \in Int /\ f.issue \in Int /\ f.target - f.issue >= 24
      OBVIOUS
    <3>1. f \in reading.issues /\ f.issue <= f.target - 24
      BY <2>2, <2>3
    <3>2. f.target \in Int /\ f.issue \in Int
      BY <3>1, RowsAre
    <3> QED BY <3>1, <3>2
  <2> HIDE DEF V
  <2>5. V # {}
    BY <1>4, <2>1
  <2>6. Z!Min({f.target - f.issue : f \in V}) >= 24
    BY <2>4, <2>5, RowsAre, NoticeIsADay
  <2> QED BY <2>1, <2>5, <2>6 DEF Z!FORECAST_HORIZON_HOURS
<1>5. /\ axis[1] <= from
      /\ \A i \in DOMAIN axis : i > 1 => axis[i - 1] < axis[i]
  BY <1>1 DEF ArePoints
<1> HIDE DEF axis, from, latest
<1>6. /\ Chart.period[1] <= from
      /\ \A i \in DOMAIN Chart.period : i > 1 => Chart.period[i - 1] < Chart.period[i]
      /\ \A i \in DOMAIN Chart.period :
           Of(i) = {t \in DOMAIN reading.region :
                      /\ from <= t /\ t <= latest /\ reading.region[t] # Null
                      /\ Chart.period[i] <= t
                      /\ i < Len(Chart.period) => t < Chart.period[i + 1]}
  BY <1>2, <1>5
<1> HIDE DEF Of
<1> QED BY <1>2, <1>3, <1>4, <1>6 DEF SeriesAreTheReadings, from, latest, window

\* What a reader is shown of a zone's hours is what the hours were.
THEOREM SeriesAreFaithful == Spec => []SeriesAreTheReadings
BY ChartIsOfReadings, ChartIsKept, PTL DEF Spec
=============================================================================
