# Grid Authority in TLA+

Grid Authority mirrors the U.S. Energy Information Administration's hourly grid
data (EIA API v2) into PostgreSQL, derives one map document per hour and one per
day, week and month, and serves them to a web map. This directory holds TLA+
models of the parts where that can go wrong in ways a unit test hardly reaches,
the TLC configurations that check them, and TLAPS proofs of what matters most.
Paths below are relative to the repository.

## 1. The system

| Component | Code | State it keeps | Operations |
|---|---|---|---|
| Ingest jobs | `workers/eia/{poll,revise,backfill}.py` | none of their own: one database connection each, one transaction at a time | `run_poll`, `run_revise`, `run_backfill` |
| Observation writers | `workers/db/observations.py` | `obs_region_hourly`, `obs_mix_hourly`, `obs_interchange_hourly`, `source_status` | `write_region`, `write_mix`, `write_interchange`, `record_status` |
| Derived documents | `workers/db/{snapshots,aggregates}.py` | `map_snapshot`, `map_snapshot_agg` | `build_snapshot`/`store_snapshot`, `build_aggregates`/`store_aggregates`, `refresh_buckets_for`, `hours_needing_snapshots` |
| Repair commands | `workers/eia/cli.py`, `workers/db/shares.py` | none | `rebuild-snapshots`, `rebuild-aggregates`, `recompute-shares` |
| EIA client | `workers/eia/{client,ratelimit}.py` | the limiter's two windows | `_get`, `iter_rows`, `route_metadata`, `validate_facets`, `acquire` |
| Mappers | `workers/eia/mappers.py` | none (pure) | `map_*_rows`, `compute_shares` |
| Scheduler | `packages/scheduler/src` | the set `running`; one child process per job | `executeJob`, `runJob`, shutdown |
| Status and health | `packages/api/src/{routes/health.ts,lib/meta.ts}`, `workers/eia/probe.py` | reads `source_status` | `/health`, `buildMeta`, `run_probe` |
| Map API | `packages/api/src/routes/map.ts`, `lib/period.ts`, `app.ts` | none | `GET /map/window`: a window of documents, one entry per period |
| Zone detail | `packages/api/src/routes/zone-detail.ts`, `workers/eia/warm.py` | `zone_detail_cache` | `GET /zones/:key`: cached, else built and stored; `warm_zone_detail` |
| Analytics | `packages/api/src/routes/analytics.ts`, `workers/db/analytics.py`, `packages/web/src/lib/beacon.ts` | `visitor_salt`, `page_hit` | `POST /hit`, `GET /stats`, `prune_visitor_salts` |
| Configuration | `packages/api/src/config`, `workers/config` | none (read once) | `loadConfig` |
| Migrations, registry | `workers/db/{migrate,zones}.py` | `schema_migration`, `zone` | `migrate`, `sync_zones` |
| Web client | `packages/web/src/store/useGridStore.ts`, `App.tsx`, `lib/{resolution,slider}.ts` | the store: resolution, window, cursor, zone, metric | its setters; the window query |
| Web rendering | `packages/web/src/components`, `lib/{paint,metrics,series}.ts` | the map's feature state, each chart's reading, uPlot | the effects of the map, the panel, its charts, the legend |

How they interact. The scheduler starts each job as a child process on its cron
expression (`poll` at minutes 10 and 40, `revise` and the others daily); an
operator starts `backfill` and the repair commands by hand. All of them meet in
PostgreSQL only: there is no message between them, no advisory lock, no `SELECT
... FOR UPDATE`, and the isolation level is the default READ COMMITTED. Each
ingest job asks EIA for a window of hours, upserts what came back, rebuilds the
documents those hours belong to *in the same transaction*, and commits. The API
reads committed documents (the map) or rows (a zone's panel) and writes only its
own tables, the cache and the page views. The warming job is a client of the API.
In the browser one store joins the map, the slider, the panel and its charts;
answers reach it through react-query, one per key.

What is hard about it:

* **Interleaving.** Several writers upsert the same rows and derive documents
  from them by a read followed by a write. What keeps a document from being
  derived from rows that are out of date is nowhere stated; it is the row locks
  of the overlapping windows (section 5).
* **Crashes and restarts.** A job may fail or be killed at any statement.
  Backfill commits a day at a time and is restarted over the same window, with
  another clock.
* **Ordering.** EIA restates past hours; an answer asked for earlier may be
  written later.
* **Deadlocks.** Loops of upserts whose row locks are held to the commit.
* **Answers out of order.** A reader switches resolution, statistic or zone while
  answers are under way or already cached; effects run only when their
  dependencies change, and imperative libraries (MapLibre, uPlot) keep what they
  were last told.
* **Stale judgments.** "This day is done", "this hour has a snapshot", "this
  cached document is fresh" are recorded facts that the world moves away from.
* **Windows and limits.** Pages by offset over a changing dataset, hourly
  request ceilings, timeouts and `SIGTERM`.

What makes each component correct:

* *Jobs, writers, documents*: in every committed state a map document renders
  the committed rows, or a known job owes it a rebuild; a failed transaction
  leaves nothing; jobs do not wait in a circle; `revised_at` is honest; the data
  settle on what EIA says.
* *Backfill*: a reported success covers its window; interrupted and restarted, it
  reaches the state of a run that was never interrupted; no day is skipped for
  ever, none is fetched for ever.
* *Client and mappers*: what is stored is what EIA holds, or an error is raised;
  a partial answer never replaces stored numbers; the ceiling is never exceeded.
* *Scheduler, status*: at most one process of a job; its name is released once;
  a job that has stopped becomes visible.
* *API, cache*: every period of a window once, in order; what a document calls its
  newest hour is in all of it; a cache entry has a bounded age; every request is
  answered.
* *Analytics*: a visitor counts once a day, and cannot be recognised on another.
* *Configuration*: what is accepted gives every code one meaning and every share a
  value between nought and one.
* *Client, rendering*: what is on screen is what the tables hold for the period and
  the controls on screen; the map, the panel and the charts agree on the period.

`PROJECT.json` lists the components with what is modelled of each, and the
hazards with the line where each bites and the properties that cover it.

## 2. The modules

```
MapDocs    rows, documents, how one renders the other
  |-- MapStore   what the ingest jobs promise the map (abstract)
  |-- Ingest     the jobs' transactions, side by side
        |-- MCIngest       a small instance for TLC
        |-- IngestProofs   theorems for every instance
Backfill   the day loop of `eia backfill` over its life
  |-- MCBackfill
  |-- BackfillProofs
Ascending    rows in the order of their keys (ORDER BY)
RateLimiter  the limiter of one client
  |-- Fetch      a job's conversation with EIA  (also uses Ascending)
        |-- MCFetch
Scheduler    cron, child processes, source_status, /health
  |-- MCScheduler
JobProofs    theorems about Fetch and about Scheduler, which share no variable

Calendar     date_trunc and generate_series
  |-- MapWindow      GET /map/window       (also uses Resolution, Ascending)
  |-- ZoneSeries     the numbers of GET /zones/:key
  |-- Repair         recompute-shares, rebuild-aggregates and what they go over
        |-- MixShares      total and shares of a mix, where the workers derive them
        |-- MCRepair
        |-- RepairProofs
Api          what a thrown error is answered with
  |-- ZoneDetail     GET /zones/:key as it runs, its cache, the warming job
  |-- Analytics      page views and their salts
Config       what a configuration must be to be accepted
Serving      the API: ZoneDetail, Analytics, ZoneSeries and Config
  |-- MCServing
  |-- ServingProofs

GridStore    the client's store        Resolution   the slider's steps and ranges
Series       slider and chart data     Metrics      values to colours
  |-- MapApp         the map page: GridStore, Resolution, Series, Metrics, MapWindow
  |     |-- MCMapApp
  |     |-- MapAppProofs
  |-- Panel          the zone panel: GridStore, Series
        |-- MCPanel  (with the windows of ZoneSeries)
        |-- PanelProofs

DataProofs   lemmas about order, sums and repetition that the proofs of Fetch, MapApp,
             Panel, Repair and Serving use
```

### MapDocs

A *row* is one zone, hour and table; its value is the number of the version EIA
published (0: no row). A *document* is an hour's snapshot or a bucket's (day,
week, month) aggregate; `Render` says it is a function of the region and mix
rows of the hours it covers, and the model keeps which version of which row a
document shows instead of the numbers. An hour is stored whatever it holds; a
bucket in which nobody reported is absent (`Built`), as in the two builders.
Rows are numbered in the order the writers upsert them: the mappers sort each
table, and every job writes the tables in the same order.

### Ingest

The database at the granularity PostgreSQL gives it. A job goes

`idle -> region -> mix -> interchange -> write -> build -> idle`

| Model | Code |
|---|---|
| `StartIngest` | the window: last twelve hours (`poll`), seven days (`revise`), the next day not recorded as fetched (`backfill`) |
| `Fetch` | one dataset's request, three in a row, EIA possibly restating in between |
| `WriteRow` | one row of the upsert loops; the row is locked until the transaction ends *also where `WHERE ... IS DISTINCT FROM` leaves it alone*; another transaction that holds it is waited for; `rev` is what `RETURNING` says of it |
| `EndWrites`, `Touched` | what each job rebuilds: `poll` the hours of all three datasets, the two newest hours of the table and all their buckets; `backfill` the hours only; `revise` the fetched hours of the tables in which some row was revised |
| `BuildDocs`, `StoreDoc` | the `SELECT` that builds a document and the upsert that stores it: two statements |
| `Commit` | rows, documents, the day's marker and the status row become visible together |
| `Fail`, `Rollback` | an exception or a kill at any point; failure recorded in a transaction of its own, or not at all |
| `BreakDeadlock` | two transactions waiting for each other: PostgreSQL fails one |
| `StartRebuild` | `rebuild-snapshots` (all hours, or those without one) and one resolution of `rebuild-aggregates`, which start with no fetch and hold no row |
| `Publish` | EIA publishes an hour late, or restates it |

The private state of a transaction (`got`, `written`, `rev`, `todo`, `draft`,
`mine`) is what PostgreSQL and the process hold between `BEGIN` and `COMMIT`;
`View` is READ COMMITTED as a statement sees it. `owed` is a history variable:
the documents whose rows a commit changed without rebuilding them.

Each constant `Windows[j]` holds the sets of rows one transaction of `j` may ask
for. `WindowsOverlap` is the one assumption about them: two ingest transactions
that may touch the same hours share a row that EIA had published before either
began (a poll asks for twelve hours, a day of the backfill for twenty-four), or
else they share no hour, and then a poll's window has two newer hours of its own.

### MapStore

The abstract specification: rows take published values and, in the same step,
the documents they concern are rebuilt from the rows as they now are. `Ingest`
implements it for the hourly map (`HourlyMap == INSTANCE MapStore WITH ...`):
readers cannot tell that transactions overlap. Buckets are not part of that
promise: only polls refresh them, and a poll does not see the uncommitted days
of a backfill. They are covered by `EventuallyCurrent`.

### Backfill

The life of `eia backfill` over many runs: the clock moves, EIA publishes out of
order, polls write the newest hours, an operator truncates the observation
tables, a run fails, is killed, is restarted. An hour stands for its rows; a
day's transaction is one step, since `Ingest` takes it apart. The run reads the
clock and `endPeriod` once, skips the days `day_is_complete` accepts, and marks
each fetched day with the number of rows its write changed. `reading` is the
table lock a skipped day's `SELECT` keeps until the next commit.

### RateLimiter and Fetch

`RateLimiter` has the two deques, and the three moments of `acquire` at which it
reads the clock: the check of the ceiling, the wait, the stamp. Time is in ticks;
it may pass between any two steps. `sent` is the history of the limiter's life:
a limiter lives as long as its process, so a job that is started again has an
empty one.

`Fetch` puts a query around it: `StartQuery` (`iter_rows`), `Check`/`Raise`,
`Wait`, `Send` (`_get`, before the answer), then `Reply` (HTTP 200, the next page
or the end), `Retry` (timeout, transport error, 429, 5xx) or `GiveUp` (any other
status, or the last attempt), and `Write`: the fold of rows into observations and
their upsert, which replaces every column of the observations it speaks of.
`stored` counts how often a row went into the stored observation: 0 is NULL, 2 a
fuel added twice. EIA inserts rows at any time, anywhere in its order, serves an
empty page too early, or leaves out `total`.

The pages of one answer belong together when EIA inserts nothing before a row it
held at the first page, and serves no page short; `disturbed` records that they
do not. The code cannot see it: then a row comes twice, and if the shift fills
the last page the newest row is missing, without an error. EIA's sort is by
period alone; that it breaks ties alike on every page is assumed.

### Scheduler

Time goes in slots, the distance of two ticks of the most frequent job. At the
beginning of a slot the ticks that fall in it are `due`; each is a run that
`Starts`, a command that cannot be spawned, a tick that is skipped because the
name is in `running`, or one nobody hears because no scheduler is up. A slot ends
when every timer in it has fired: ten minutes and five seconds are less than
thirty minutes.

| Model | Code |
|---|---|
| `proc[p]` | a child as `runJob` and the system know it: the outcome of the job's transaction, the exit code, how far the timer has gone, whether SIGTERM was sent |
| `Succeeds`, `Fails`, `Exits` | the worker commits with its row in `source_status`; or rolls back and records the failure, or cannot; the exit code follows |
| `Timeout`, `Kill`, `Dies` | SIGTERM, which `uv run` passes on and no worker handles; SIGKILL five seconds later, which only `uv` receives, so that the worker may linger and hold the streams |
| `HasClosed`, `Close` | the `close` event: `finish`, the log line, the name given back |
| `Stops`, `Restarts` | PM2 stops the scheduler (its `shutdown` exits at once, and PM2 signals everything below it), or it crashes and its children live on as orphans that no timer ends |
| `RecordSuccess`, `RecordFailure` | the two sides of `record_status`: a failure keeps `last_success_at` |
| `TooStale`, `Health` | `/health` |

`ticks` is a history variable: the ticks of a job since its last success.
`Health` is what is answered while the database is up; without it the answer is
always `degraded`. A job of which no run ever got as far as a row in
`source_status` is not judged, as in the code: a worker killed at its timeout
leaves none, although `runner.ts:86` sends SIGTERM "so the worker can record its
own failure".

### MixShares, Repair

`MixShares` has the total and the shares of a generation mix as the three places that
derive them do: `compute_shares` on write (the total as reported, the parts clamped
mode by mode, rounded half to even), the expression of the `UPDATE` in `shares.py`
(PostgreSQL rounds half away from zero), and the sums of a coarse document in
`aggregates.py` (not clamped). Half to even and half away from zero differ in the
last place at most.

`Repair` is about the two commands that go over all of history. Each commits a year
(or a resolution's batch) before the next, and the jobs write between any two of their
statements. A step is a statement where a document is read by one and stored by
another, which is where a commit in between is lost; the year of a recompute is a
single `UPDATE`, and a day of the backfill touches no bucket.

| Model | Code |
|---|---|
| `Upserted` | the upserts of an hour: an answer without a mix keeps the stored one, and a mix whose modes and total are as stored keeps its shares, too (the `WHERE` of `write_mix`) |
| `Backfill` | a day's transaction, which refreshes no bucket; it waits for the rows an open poll has upserted |
| `StartPoll`, `RefreshBucket`, `CommitPoll`, `PollFails` | a poll's transaction over one of the newest hours: its rows, which it alone sees; the bucket of each resolution, read and stored in turn (`refresh_buckets_for`); the commit, or the rollback |
| `years_of`, `RecomputeYear` | `recompute_shares`: one `UPDATE` per year, from the year of the oldest row to that of the newest, as they were when it began |
| `batch_ranges` | `rebuild_aggregates_command`: years, each snapped to the buckets in which its first days lie |
| `ReadBatch`, `StoreBatch` | one batch: the `SELECT` of `build_aggregates`; then the upserts of `store_aggregates`, which wait for a document an open poll has stored, and the commit |
| `DocumentOf`, `Furthest` | `build_aggregates`: hours, the interchange furthest from zero (of an import and an export equally far PostgreSQL may return either, so a document is taken with both), mean and peak shares |
| `Interrupt` | the command is stopped, or fails, after any commit |

The rows may have been written under another `modes.yaml` (`Former`), which is what
`recompute-shares` is for. `owed` is a history variable, as in `Ingest`, and so is
`missed`, of an open poll and of the command: the documents it has read, and not yet
committed, of which some row has changed since. Such a document replaces whatever is
stored and is owed from then on (`Owing`).

### Calendar, MapWindow, Resolution

Pure operators. An instant is a number of hours since 1 January 2019
(`EARLIEST_PERIOD`). `Calendar` has the months of ten years, 2019 to 2028, in closed
form: days before a month, and a leap day after February of every fourth year.
`Ascending` is `ORDER BY` over a set of keys. `windowOf` is the handler of `GET
/map/window`: hours are generated, so that one nobody ingested is an empty step; coarse
periods are the stored ones, from the one that covers the first hour; a zone of any
period is in all of them, and values stand in the order of `METRICS`. `Resolution` has
both sides of a range: `rangeFor` of the client, and `AdmitsWindow` and
`AdmitsStatistic` of the API.

### GridStore, Metrics, MapApp

`GridStore` translates `useGridStore.ts`: the store is a record, each setter a
function. In `MapApp` a step is one event of the page (a click, a key, a pointer
move, a frame of playback, an answer, the map's `load`), and whatever React does
before the next event is part of it:

| Model | Code |
|---|---|
| `Commit`, `Subscribed` | a step that changes what `App` reads of the store renders it; any other only reaches the components below |
| `Render`, `Observed` | a render reads the clock, so the query's key may be another one; the answer to that key, if it is there, is the query's data; data other than the last render's become the window (`App.tsx:67`) |
| `Answer`, `Fail`, `Retry` | the request under way is answered with one of the answers the API's tables allow, or fails, once more, and shows the error |
| `Effects`, `Painted`, `Outlined` | the two effects of `MapView` with their dependency lists, and what they leave in feature state and in the fill |
| `SetMetric` ... `EndDrag` | the controls and the slider |
| `Load`, `Hover` | the map's own events |
| `SliderReadout`, `Legend`, `Listed` | the components that only show |

The answers come from `MapWindow` over `Tables`, the contents the API may meet; so
`MapShowsWhatIsStored` goes from the tables through the API, the query, the
store, the effects and the feature state to what is painted. That holds for the zones
the window names. The effect writes no feature state for any other, so one that
a former window named keeps its last paint, and of it the property only says that the
tables held that number for the zone once (section 5). react-query, React
and zustand are external: one answer per key, a failed request repeated once
(`main.tsx`), the request of a key nobody observes dropped, a cached answer shown
at once and asked for again if it is stale, which may be any time.

### Series, Panel

`Series` has the index arithmetic of `slider.ts` and the data of the charts of
`series.ts`. `Panel` is the zone panel beside a map whose window stays: the query
of `ZonePanel` (`SelectZone`, `SetDetailWindow`, `Answer`, `Fail`), uPlot as `Chart`
keeps it (`plot`: the colours it was built with), a chart's own reading
(`hovered`), and a finger or a mouse on it (`FingerPress` has yet to move
sideways before it scrubs). `ScrubTo` is what joins the two sides: the map goes to
its newest period not after the one touched, also where that is an earlier one. No
chart is given an `onScrubEnd`, so a reading by finger stays when the finger lifts.

### ZoneSeries, ZoneDetail, Analytics, Config, Serving

`ZoneSeries` is a document as a function of rows: the axis from `generate_series`,
the buckets joined to it, sums clamped mode by mode, shares derived from sums, the
freshest forecast issued a day ahead.

`ZoneDetail` is the same handler as a process: the cache, the zone, the bounds,
the queries of `Promise.all` in any order with commits in between, the
write-through, and the error each may end in. A query's answer is the number of
commits it saw. Of the queries two are kept: they only differ in what they
select. The warming job asks for one window after the other, and an hour ends
when its requests have ended.

`Analytics` has one process per page view: the day at arrival, then `SELECT`,
`INSERT ... ON CONFLICT DO NOTHING`, `SELECT`, and the row; midnight and a poll's
pruning come between any two. Each of the four statements may be cut off by its
timeout, be refused, or be committed by a database that is not heard of again
(`HitFails`), and the view is then answered 503 or 500. `Api` counts these faults
(`Faulty`), for page views and zone details alike.

`Config` has the rules of `schemas.ts` and `index.ts` that relate one entry to
another. `Serving` puts them together: `BuildApp` refuses to start on a
configuration that is not accepted, then the routes answer. No two of them
write the same table, so a behaviour runs the traffic of one.

## 3. What is checked

| Run | Question | Result |
|---|---|---|
| `ingest_backfill` | a poll and a backfill, overlapping and apart, one failure anywhere | types; no stale snapshot (`StaleHourIsOwed`, `OnlyReviseOwesHours`); a marked day has its snapshots; a single order of locks; `revised_at` honest; a successful poll repairs what it touches; implements `MapStore` |
| `ingest_revise` | a poll and a revision of the same rows, EIA restating | rows, hours and buckets a poll asks for settle on EIA's last word |
| `ingest_commands` | a poll beside both rebuild commands | every transaction ends though the lock orders disagree |
| `backfill_resume` | failure, kill, restart, truncation, polls, clock | success covers the window; restarts complete the history; no day is fetched for ever |
| `fetch_pages` | pages over a growing dataset, retries, failures, kills, the limiter | no hour and no second holds a request too many; the ceiling stops only a job that has just sent that many, and never the paced client of backfill; an undisturbed answer is complete, without repeats; no stored number is lost to one |
| `scheduler_jobs` | workers that succeed, fail, hang, linger or are orphaned | one run per name; every name is given back; "finished" means committed; a job that comes to nothing shows on `/health`, and not before its budget is spent |
| `ingest_race_rebuild` | `rebuild-snapshots` beside a poll | **violated**: an older document replaces the newer one |
| `web_map` | the map page in every order of events, over the API's windows | the window is the controls'; the slider names the period painted; the map shows what the tables hold for each zone the window names, on a scale the legend explains; no request the API refuses; an empty page is filled or shows an error |
| `web_panel` | the panel beside the map, readings by finger and mouse | the document shown is the selected one; reading a chart takes the map to its newest period not after the one read, and the other chart along; every band adds up |
| `serving` | zone details with cache, warming, commits and faults; page views around midnight, with the same faults; charts under any configuration | the newest hour is in every part; answers are recent; an accepted view counts once, its visitor once a day, and only a fault refuses one; only sound configurations serve; a chart is its readings; every request is answered |
| `repair_commands` | `recompute-shares` and `rebuild-aggregates` over two years, interrupted and started again beside a poll and a backfill | every coarse document is of the whole of its period, unless a transaction changed its rows that did not rebuild it, or committed them between the reading of the document and the storing; mean shares lie between those of the hours; a recompute that ended leaves no share of an older rule in any row |
| `web_panel_colours` | do the bands of a chart wear the colours of its legend? | **violated**: uPlot is kept with its old colours when the number of modes is the same |

The two violated properties are sentences of the repository that the code does
not keep; `findings` in `PROJECT.json` quotes them.

**Bounds.** `MCIngest`: three hours in two buckets, four rows in two tables, of which
one is restated once and one published late; two or three jobs; one failed transaction.
Two jobs are enough for every conflict of pairs (a lock, a stale read), three for the
two rebuild commands beside a poll; the windows make both cases of `WindowsOverlap`
occur (the backfill's second day shares row 2 with the poll, its first day shares
nothing); row 4 has no anchor, so a row inserted by whoever comes first is reached; two
versions distinguish insert, revision, and an older answer written after a newer one.
`MCBackfill`: three days of two hours, one of them seeded by migration 0006, the clock
starting in the middle of the second; one failure and one truncation. A day that is
past, one in progress and one to come are what the rules of completeness tell apart.
`MCFetch`: four rows of two zone-hours in pages of two, so that a zone-hour spans two
pages and the last page may be full or half full; two attempts; an hour of three seconds
of two ticks, nine moments of time, long enough for a window to slide over its own end;
limits of two a second and three an hour, and a backfill ceiling of four, which its rate
of one a second does not reach. `MCScheduler`: half-hour slots with poll's own budget of
six, a second job without a row in `source_status` every other slot, and three
processes, so that an orphan may live beside a child of each job. Ages stop one beyond
the budget and ticks where the budget no longer covers them, where nothing tells them
apart; `Pid` bounds the orphans. `MCMapApp`: two zones, of which one lacks the newest
period in either resolution and one metric; hours and days, both statistics, the tables
before and after the newest day is built, one turn of the hour, three switches
(`MaxSwitches`: day, peak, and back to hours is where a statistic is left over) and
three of the slider's six keys; the reader points at and selects one zone (`Pointed`).
`MaxSpan` cuts a range, after it was admitted, to its last two periods, so that the
cursor's two ends are neighbours. `MCPanel`: a map of three hours and a map of two days,
beside documents of hours and of days, which end before the map or lie between its
periods; two zones with as many modes but not the same ones; one document that is empty.
`MCServing`: an age limit of two hours and hours 0 to 2 (`MaxHour`), so that an entry is
young, at the limit and beyond it; two commits, one fault, a reader and the job; three
page views of two visitors over four days, salts kept for one; every way to sort two
modes beside a third into the lists, and one mistake in each of the other files;
readings at the edges of a window that begins inside a day. One fault is enough for a
view: it is answered with the first. `MCRepair`: three hours in the week that the new
year of 2020 divides, one of the old year and two of the new, the newest of which a poll
may write; two of them ingested before, under a `modes.yaml` that counted storage, one
with a share halfway between two and one with a counted mode that consumes more than the
others generate, so that the mapper has no share of it and `shares.py` has; a poll or a
backfill that then brings storage, or an interchange as far from zero the other way. One
write is committed beside the commands, with a poll open meanwhile, because what a
second one may do to a document the first may do as well; that is also the poll that
commits between a batch's `SELECT` and its upserts, and the backfill that commits while
a poll has its buckets half refreshed. `MaxVersion`, `MaxFailures`, `MaxTruncates`,
`MaxTime`, `MaxStarts`, `MaxSwitches`, `MaxHour`, `MaxCommits`, `MaxFaults`, `MaxDay`
and `MaxWrites` are the only caps on counters.

**Fairness.** `Ingest`: a started job runs on and PostgreSQL serves lock waiters
in a queue, so a job whose next statement is possible again and again performs
it (strong fairness of `Advance`); a deadlock is detected after
`deadlock_timeout` (weak fairness of `BreakDeadlock`); cron starts `poll` for
ever (weak fairness of its `StartIngest`). Nothing is assumed of EIA, of
`revise`, `backfill` or the commands. `Backfill`: a started run goes on; and
"an interrupted run can be restarted" is taken as "is restarted, over the whole
window" (strong fairness of `Restart`): somebody starts it whenever none runs.
`Scheduler`: Node's timers and events are served, cron ticks, time goes on, and a
process that got SIGTERM ends; no worker need end by itself, and no stopped
scheduler be started again (PM2 gives up after `max_restarts`).
`MapApp`: a request is answered or fails in the end (weak fairness of `Fail \/
Answer`); the reader need do nothing. `Serving`: each handler goes on, because a
statement is answered or cut off by its pool's timeout (weak fairness of each
handler); nobody need ask, and neither time nor commits go on.

## 4. What is proved

`JobProofs` proves of `Fetch`, for every rate, ceiling, length of an hour, size of a page,
set of rows and publication meanwhile:

| Theorem | Statement |
|---|---|
| `CeilingHolds` | `FetchSpec => []HourlyCeiling` |
| `PaceHolds` | `FetchSpec => []PacePerSecond` |
| `CeilingStopsTheHasty` | `FetchSpec => CeilingStopsOnlyTheHasty` |
| `AnswersAreComplete` | `FetchSpec => []AnswerIsComplete` |
| `NumbersStay` | `FetchSpec => NumbersAreKept` |

from `RateLimiterConstants` (an hour is a whole number of seconds) and
`FetchConstants` (EIA's rows are finitely many). The invariant `LimiterInv` says
that a deque is the end of the history and that what it has dropped is a span
ago (`Recalls`); a deque with room for one more then means that the request
before the last *n* is a span ago, now and at any later time, so that the wait
between check and stamp does no harm. `CeilingInv` adds how many requests any span of
seconds holds (`RateHolds`): a full hour at the rate of backfill is less than the
ceiling, so that only a client which does not keep that pace is stopped. `AnswerInv`
is about the pages: while nothing has disturbed the answer, the pages that have come
are the first ones of the sequence EIA held when the query began, with nothing but
later rows behind them (`PagesBelong`); page after page, by the length of what is held,
the last one ends the sequence. `StoredWasHeld` says that what is stored of a
zone-hour EIA held, at the first page too once there was one; hence a complete answer
has it again.

Of `Scheduler` it proves `NameHeld` (`Spec => []OneRunPerName`), `FinishedCommitted`,
`BudgetIsMisses` (`Spec => []BudgetCoversMisses`) and type correctness for any
jobs, periods and budgets, from `SchedulerConstants`. `ChildInv`: the name of a
child, alive or not yet closed, is taken, and no two children share one; `Close`
gives a name back together with the last of its child. `AgeInv`: the age of a
success is at most a period for each tick since then, the slots since the last
tick, and one period more while a tick is due.

`IngestProofs` proves, for any jobs, rows, hours, documents and windows:

| Theorem | Statement |
|---|---|
| `TypeCorrect` | `Spec => []TypeOK` |
| `Invariance` | `Spec => []IInv` |
| `NoStaleSnapshot` | `NoRebuild => (Spec => []StaleHourIsOwed)` |
| `OnlyReviseOwes` | `Spec => []OnlyReviseOwesHours` |
| `HourlyMapRefines` | `NoRebuild => (Spec => ImplementsMapStore)` |

from `MapDocsConstants`, `IngestConstants` and `WindowsOverlap`.
`NoRebuild` says no `rebuild-snapshots` runs beside the jobs; with it, the
run `ingest_race_rebuild` shows the theorem false.

The argument. A document built and not yet stored could go stale if another
transaction committed rows it shows. Both transactions ask for a row EIA had
published before either began, so both upsert it, whether or not it changed; its
lock lets one of them reach `build` only after the other has ended. The
invariant `IInv` says this in parts:

* `Discipline`: what a job has at each point of its transaction; in `build` it has
  upserted every row it was given, its anchors among them;
* `LockExclusion`: no row is upserted by two open transactions;
* `Reach`: an hour a job is rebuilding is one that no transaction which does not
  meet this one at a lock can write (for the hours of `recent_complete_hours`
  this needs that a poll's own rows include two newer ones);
* `Faithful`: what is built and stored renders what the job sees *now*;
* `Covering`: poll and backfill rebuild every hour they were given rows for.

`StaleHourIsOwed` alone is not inductive: a commit makes documents visible whose
correctness was decided when they were built. One lemma per action shows that it
keeps `IInv`; the refinement follows step by step, a commit mapping to
`MapStore!Ingest` and every other step to `Publish` or a stutter.

It goes on from `IInv`:

| Theorem | Statement |
|---|---|
| `MarkedDays` | `Spec => []MarkedDayHasSnapshots` |
| `HonestRevisions` | `Spec => RevisedAtIsHonest` |
| `PollLeavesNothingStale` | `NoRebuild => (Spec => PollRepairs)` |
| `LocksAreOrdered` | `OnePoll => (Spec => []HolderIsAhead)` |

Where no revision runs, whatever is observed has its snapshot (`ObservedInv`), a
marked day included. `rev` is at every moment of a transaction the rows it has
upserted whose number differs from the committed one (`RevInv`): the lock keeps
the committed one from moving, so what `RETURNING` said still holds at the commit.
What a poll has upserted is what it fetched, and `Faithful` says that what it built
renders it. Rows are locked in the order of their numbers, hours after rows and in
their own order (`OrderInv`), so whoever holds what another waits for can only wait
for something later. Buckets of one resolution are stored in no particular order;
only polls store them beside hours, and `OnePoll` says that two polls do not
overlap, which the scheduler sees to (`NameHeld`) as long as no orphan lives and
nobody starts one by hand. `rebuild-aggregates`, which takes its locks in another
order, is outside the property; `EveryTransactionEnds` covers it.

`BackfillProofs` proves `SuccessCovers` (`Spec => []RunCoversItsWindow`, stated of
each report) from `BackfillConstants`. `RunInv`: the days before the current one
are the fetched and the skipped ones; each hour known to the run that lies in a
fetched day has its snapshot, and its rows unless the day was emptied since.

`PanelProofs` proves, for any zones, windows and documents as `PanelConstants` has them
(each names its zone and window, its axis ascends, its readings are integers or gaps):

| Theorem | Statement |
|---|---|
| `PanelIsTheSelection` | `Spec => []PanelIsOfSelection` |
| `ScrubbingMovesBoth` | `Spec => ScrubMovesBoth` |
| `StackIsFaithful` | `Spec => []StackIsTheReadings` |

`PInv`: the query's key is the selection's, and what is kept under a key is the document
of that key. `ReadInv`: the map's window is one the map may have, and a finger is on a
chart only while it is shown. `PlotInv`: a plot is there only where the document has
charts, with a colour at least. For the stack: `RunningTotals`
goes on past a gap with what it had (`TotalsGoOn`), so that band *k* is the sum of
what the first *k* modes reported in that period (`TotalsAreSums`, by induction over
their places); the modes present are those of `MIX_ORDER` that reported somewhere,
each once (`PresentIs`); the chart draws the bands from the last to the first (`MixIs`), so
each is the sum over its mode and those before it.

`ServingProofs` proves, from `ServingAssumption`, `DetailAssumption` and
`AnalyticsAssumption`:

| Theorem | Statement |
|---|---|
| `PartsAgree` | `Spec => []NewestHourIsThere` |
| `AnswersKeepUp` | `Spec => []AnswersAreRecent` |
| `VisitorsCounted` | `Spec => []VisitorsAreCountedOnce` |
| `ConfigIsSound` | `Spec => []OnlySoundConfigServes` |
| `SeriesAreFaithful` | `Spec => []SeriesAreTheReadings` |

The first two are for any windows, queries, readers, age limit, commits and faults.
An entry of the cache does
not say whom it will answer; so `DetailInv` says what its age promises (`EntryInv`:
it knows every commit before the hour it was built in) and what a handler has read
in this hour (`Reading`: its newest hour is one of the commits before its queries,
at least what was there when it was asked and when the hour began). An entry young
enough was built in an hour not before the one the question is due, and the
commits before an hour only grow (`HistoryInv`).

`VisitorsCounted` is for any views, visitors, retention and faults. `HitInv`: a salt is
of one day, the rows of a day were hashed with one salt, and a request under way is of
today or yesterday, whose salt no poll prunes, so that the one it inserts with is the
day's. A day's rows then differ where their visitors do, so that the numbers of `/stats`
are those of the visitors, and no two days share a hash. `RefusedInv` counts: each step
refuses one view more only if it counts one fault more (`RefusedAreFew`), because a
request that offered a salt finds one. A view that was refused may yet be counted, where
its row was committed and the answer lost. `ConfigIsSound` is for any configuration that
is accepted and readings of any numbers: the renewable modes are among the low-carbon
ones and both among the counted ones, so that their sums over the clamped readings are
in this order (`SumsCompare`), and so are the shares. `SeriesAreFaithful` is for every
window, reading and axis of hours, days or months: the axis ascends, its first point is
that of the first hour and its last that of the newest, and the hours of a bucket are
those between its point and the next (`HourPoints`, `DayPoints`, `MonthPoints`); so each
reading falls into one bucket, and what is shown there is made of these readings and no
others.

`MapAppProofs` proves, for any zones, tables, resolutions and hours of `MapAppConstants`:

| Theorem | Statement |
|---|---|
| `WindowIsTheControls` | `Spec => []WindowIsOfControls` |
| `SliderReadsTheCursor` | `Spec => []ReadoutIsOfCursor` |
| `RequestsAreAdmitted` | `Spec => []RequestIsAdmitted` |
| `MapIsOfTheTables` | `Spec => []MapShowsWhatIsStored` |

`PageInv` has a part for each thing the page keeps. `AnswersInv`: what is kept under a
key is an answer the API gives to it in the hour of that key. `StoreInv`: the window is one
the API gives for the controls' resolution and statistic, and the cursor is inside it
(a switch clears it, an answer sets it). `ViewInv`: each zone's feature state and the
fill are what the effects write for the metric, window and cursor of the store; the
effects run only when one of their dependencies changes, so this has to hold between
any two of them; and whatever feature state a zone has was a number of the tables
(`ShownWasStored`). `MapIsOfTheTables` then goes through `windowOf`: its periods ascend and
each zone has a value for each metric in each of them, the stored one or a gap.

`RepairProofs` proves, for any hours, answers, configurations, histories and beginnings:

| Theorem | Statement |
|---|---|
| `BucketsStayWhole` | `Spec => []BucketsAreWhole` |
| `RecomputeReaches` | `Spec => []RecomputeReachesEveryRow` |
| `CoarseShareLiesBetween` | `SharesAreOfCounted => (Spec => []CoarseShareIsBetween)` |

from `RepairConstants`, which keeps the hours within nine years of the ten of `Calendar`,
so that every period has a next one. The calendar comes first: months, years and weeks
are in order, so the periods of a resolution are (`TruncsAreInOrder`), and the hours of a
period are those from its beginning to the next one's (`NextBucketIs`). A boundary of a batch,
snapped to the period it lies in, divides none (`Cut`), so that what is built of a batch is
built of whole periods (`BuildIs`); and the batches of the three resolutions cover every hour
from the day a rebuild was told on (`BatchesCover`). `BucketsAreWhole` is not inductive:
`DocsInv` says of every period of a calendar, written to or not, that its document shows its
rows unless it is owed; `OpenInv` says the same of what an open poll has stored and of its
own view of the rows, and `BatchInv` of what a rebuild has read, unless it was overtaken; and
`RebuildInv` that a rebuild with nothing written beside it has a
batch yet to do for each period it was told of that is still owed. `SharesInv` says the same of a
recompute and the rows whose shares are not settled: the mapper's to a unit, or, where the
mapper has none, unknown or what `shares.py` makes of the mix; the years it goes over cover the rows
there were when it began (`YearsCover`), and what is written meanwhile is written by the
rule of today or keeps a mix and its shares. Half to even and half away from zero are both to
a nearest integer (`Nearest`), so they are at most one apart (`NearestDiffer`). For the third,
an hour's share times what it generated is what its part generated, to half a unit; sums
keep that (`QuotientOfSums`), and dividing by the sum of the whole gives the bounds. Its
hypothesis, that every mode a share is made of counts, holds for `config/modes.yaml`;
`models.py:207` demands it of the renewable modes only (section 5).

`DataProofs` has what these need of data: that `Ascending` enumerates a finite set of
integers; induction, in the form of a family of subsets that holds the empty one and
with each of its members every larger one by an element (`SubsetInduction`), or of a set
of places (`PlaceInduction`); sums over finite sets; quotients; and that what a step
keeps is kept by its repetition (`Iterates`). The induction principles take a *set*, not
an operator, as their parameter, which is what makes them usable with these provers.

## 5. What is only model-checked, and what is not modelled

*Only model-checked.* Liveness (`EventuallyCurrent`, `EveryTransactionEnds`,
`ResumedRunCompletes`, `NoDayIsFetchedForEver`, `NameIsGivenBack`,
`SilenceIsSeen`, `EmptyPageIsFilled`, `EveryRequestIsAnswered`): out of the
prover's reach.

*Noted, and not the subject of a run.* Reading the code showed where it differs
from what it or its documents say, or leaves something to chance:

* `revise` rebuilds the hours of a table in which any row was revised, not those
  that moved (`revise.py:124`, `DECISIONS.md:217`);
* backfill marks the current day as fetched although it is not over
  (`backfill.py:278`, against the docstring at `:97`), and after a `TRUNCATE` a day
  whose marker counts no rows, or of which a poll put an hour back, is skipped
  (`backfill.py:140`, against `DECISIONS.md:673`);
* the budget of `revise` is thirty hours and its period twenty-four, so that one
  failed run is an outage on `/health` (`health.ts:41`, against `:27`);
* a scheduled job of which every run is killed at its timeout has no row in
  `source_status` and is not judged (`health.ts:83`); `meta.stale` compares the
  clock with the newest period of *any* job (`meta.ts:41`);
* a zone that is selected before it was first painted (from the list, while the
  window is on its way) gets no outline when it is (`MapView.tsx:290`: the effect
  depends on the selection, not on what was painted);
* a zone that a new window does not name keeps its last paint (`MapView.tsx:255` writes
  feature state for the zones it names and clears none), in the colours of a period that is not on
  screen, against "The colour for a zone with no value for the active metric"
  (`paint.ts:11`) and the legend's "this zone published nothing for this" step
  (`Legend.tsx:136`); it is grey only if it was never painted. `MapShowsWhatIsStored` says so;
* a mode that did not report in an hour has a band there all the same, which lies on the one
  before it (`series.ts:135`, `running[index]`), against "the band carries null there, leaving
  a gap" (`series.ts:117`); a gap is left only where none of the modes up to it
  reported. `StackIsTheReadings` is stated of what the code does;
* touching a chart moves the map to its newest period not after the one touched
  (`indexForPeriod`), against "the map is only moved when the touched period exists in its
  window" (`MixChart.tsx:70`); only a period before all of the map's leaves it where it is. And a
  chart keeps the reading of a finger that has lifted, so it does not follow the map or
  the other chart afterwards (`Chart.tsx:181`: nobody passes `onScrubEnd`).
  `ScrubMovesBoth` is stated of both as they are;
* `rebuild-aggregates` reads a batch in one statement and stores it in later ones
  (`cli.py:369`), and a poll that commits in between has its newer documents replaced by
  the older ones, which nobody knows to be owed, against "Safe at any time"
  (`RUNBOOK.md:810`). Likewise a poll that refreshes a bucket (`aggregates.py:319`)
  while a backfill commits older hours of it. The next poll in that period repairs it; a
  period that is over stays as it is until the next `rebuild-aggregates`.
  `BucketsAreWhole` has both as owed; the hourly counterpart is the finding of
  `ingest_race_rebuild`;
* the Retry button refetches the window, also where the error shown is that of the
  zones (`App.tsx:71`, `:120`);
* the demand chart keeps the index last touched on it, also for another window or
  zone, where it is another period or none (`DemandChart.tsx:99`);
* a mode may be low-carbon and excluded from the total, and the low-carbon share
  then exceeds one (`schemas.ts:177` and `models.py:207` rule this out for the renewable ones only);
* the sums of a coarse document are taken as reported, and the quotient is not clamped
  (`aggregates.py:64`, `:143`): where a counted mode consumes (6 MW of wind beside 4 MW
  of consumption), the mean share of the period exceeds one, against "A share in [0, 1],
  or None where the answer is unknown" (`:136`), although the share stored with the
  hour does not; `CoarseShareIsBetween` is therefore stated of periods in which nothing
  that counts was negative. `DECISIONS.md:1156` fixed the same in the panel;
* where the counted modes add up to nothing or less, `compute_shares` stores no share
  (`mappers.py:325`), but `recompute-shares` asks only whether the clamped sum is
  positive (`shares.py:61`): 6 MW of wind beside 9 MW of consumption becomes a share of
  one, against "It mirrors that function exactly" (`shares.py:9`);
  `RecomputeReachesEveryRow` admits either there, and nothing else;
* after a change of `modes.yaml` that moves an hour's total, the next poll or revision
  of that hour marks it as revised although EIA restated nothing
  (`observations.py`, the `WHERE` of `write_mix`);
* the warming job's own request is answered from the entry it should renew until that
  is a day old (`zone-detail.ts:192`), so entries are renewed about once a day, not
  "refreshed hourly" (`RUNBOOK.md:682`) or "built within the hour" (`:690`);
* an entry of the cache keeps the `meta` it was built with; when it has expired, a
  window too heavy for a reader's timeout answers 503 until the job's next pass.

*Not modelled within the modelled components.* Forecast vintages (appended, never
updated) as the jobs write them; pruning of salts is in `Analytics`, not in the
poll's transaction; discovery and validation of facets (they stop a job before it
starts); durations, counts and warnings in run summaries; the means and
peaks of demand and generation in a coarse document, and the values of an hourly one,
copied from its rows; the pacing of the warming job and the API's rate limit; the
decoding of parameters and YAML; animation, geometry of pointers and resizing.

*Not modelled at all.* Migrations and the registry's sync (run by hand, each in
transactions of its own, before anything else runs), fixture seeding (development
only), map geometry, drawing, the pages of text, deployment scripts.

## 6. Plan

The modules of section 2 are in place. What is left, in order of importance:

1. **Registry**: the migration ledger under failure, and two runs at once.

The numbers of a ceiling that is a multiple of 3600 (`ratelimit.py:47`), where the paced
client *is* stopped by its own limiter if EIA answers promptly for an hour, are left out by
the premise of `CeilingStopsOnlyTheHasty`.
