------------------------------- MODULE Ingest -------------------------------
(***************************************************************************)
(* The jobs that write the database, run side by side.                     *)
(*                                                                         *)
(* Each job (workers/eia/{poll,revise,backfill,cli}.py) holds one database *)
(* connection and works in one transaction at a time, at READ COMMITTED:   *)
(* a statement sees what was committed before it started plus the job's    *)
(* own writes, an upsert locks its row until the transaction ends (also    *)
(* when its WHERE leaves the row alone), and a second job that upserts the *)
(* same row waits.  The map documents (map_snapshot, map_snapshot_agg) are *)
(* derived from the observation rows inside the same transaction, by a     *)
(* SELECT followed by an upsert.                                           *)
(*                                                                         *)
(* Abstraction.  Rows and documents are those of MapDocs; the writers      *)
(* upsert in the sorted order of the mappers and one table after the       *)
(* other, which is the order of the row numbers.  Windows are fixed: time  *)
(* does not advance, an hour that ends is a row published late.            *)
(***************************************************************************)
EXTENDS MapDocs

CONSTANTS
    Jobs,          \* the processes: cron-started jobs and commands run by hand
    Kind,          \* [Jobs -> Kinds]
    Windows,       \* [Jobs -> SUBSET SUBSET Rows], what one transaction may request
    Anchors,       \* rows EIA had already published when the system started
    MaxVersion,    \* bound: [Rows -> Nat], the versions EIA publishes of each row
    MaxFailures    \* bound: failed or killed transactions

IngestKinds == {"poll", "revise", "backfill"}
Kinds       == IngestKinds \cup {"rebuild", "aggregate"}

ASSUME IngestConstants ==
    /\ Kind \in [Jobs -> Kinds]
    /\ Windows \in [Jobs -> SUBSET SUBSET Rows]
    /\ Anchors \subseteq Rows
    /\ MaxVersion \in [Rows -> Nat]
    /\ MaxFailures \in Nat

HoursIn(R)  == {HourOf[r] : r \in R}
Of(R, t)    == {r \in R : Dataset[r] = t}

\* Two transactions that may touch the same hours ask for a row EIA published long
\* ago, and so meet at its lock (a poll asks for twelve hours, a day of the backfill
\* for twenty-four, revise for a week).  A backfill of an older day may share nothing
\* with a poll: then the poll's own rows include two newer hours.
Meet(V, W) == V \cap W \cap Anchors # {}
Apart(V, W) == HoursIn(V) \cap HoursIn(W) = {}
NewerThan(V, W) == \E q, r \in Of(V \cap Anchors, "region") :
                      HourOf[q] < HourOf[r] /\ \A w \in W : HourOf[w] < HourOf[q]

ASSUME WindowsOverlap ==
    \A j, k \in Jobs : j # k /\ {Kind[j], Kind[k]} \subseteq IngestKinds =>
        \A V \in Windows[j], W \in Windows[k] :
            \/ Meet(V, W)
            \/ Apart(V, W) /\ (Kind[j] = "poll" => NewerThan(V, W))

VARIABLES
    published,   \* EIA's current version of each row
    obs,         \* obs_*_hourly, as committed
    revised_at,  \* whether the committed row carries a revised_at
    docs,        \* map_snapshot and map_snapshot_agg, as committed
    marked,      \* backfill_day: the day windows recorded as fetched
    status,      \* source_status: the last outcome of each job
    failures,    \* how many transactions failed or were killed
    owed,        \* history: documents whose rows were committed without a rebuild
    phase,       \* where a job is in its transaction
    window,      \* the rows it asks for
    got,         \* what EIA answered, mapped; 0 where it had nothing
    written,     \* rows it has upserted: locked until the transaction ends
    rev,         \* those among them whose RETURNING said "revised"
    todo,        \* documents it has yet to build
    draft,       \* documents built and not yet stored
    mine         \* documents it has upserted: locked, visible to itself only

base == <<published, obs, revised_at, docs, marked, status, failures, owed>>
txn  == <<phase, window, got, written, rev, todo, draft, mine>>
vars == <<published, obs, revised_at, docs, marked, status, failures, owed,
          phase, window, got, written, rev, todo, draft, mine>>

NoRows == [r \in Rows |-> 0]
NoDocs == [d \in Docs |-> NoDoc]

-----------------------------------------------------------------------------
(* What a job reads and decides.                                           *)

\* What a statement of j's sees: committed rows under the job's own writes.
View(j) == [r \in Rows |-> IF r \in written[j] THEN got[j][r] ELSE obs[r]]

Support(j)  == {r \in Rows : got[j][r] # 0}

\* recent_complete_hours: the two newest hours of obs_region_hourly.
Recent(o) == LET H == HoursIn({r \in Rows : Dataset[r] = "region" /\ o[r] # 0})
             IN  {h \in H : ~ \E a, b \in H : h < a /\ a < b}

\* Variant: the bucket after the one the hours fall in.
NextBucketsOf(H) == {b + 1 : b \in {b \in Buckets : BucketHours[b] \cap H # {}}}

\* refresh_buckets_for: every day, week and month the hours fall in.
BucketsOf(H) == {b \in Buckets : BucketHours[b] \cap H # {}}

\* Variants: only tables with a revised row count, whatever the job; and the shape
\* backfill had before, its snapshots left to the end of the run.
TouchedIfRevised(j) ==
    UNION {HoursIn(Of(Support(j), t)) :
             t \in {t \in {"region", "mix"} : Of(rev[j], t) # {}}}
TouchedAtTheEnd(j) == IF Kind[j] = "backfill" THEN {} ELSE HoursIn(Support(j))

\* The documents an ingest job rebuilds once its rows are written.
Touched(j) ==
    CASE Kind[j] = "poll" ->
            LET H == HoursIn(Support(j)) \cup Recent(View(j))
            IN  H \cup BucketsOf(H)
      [] Kind[j] = "revise" ->
            UNION {HoursIn(Of(Support(j), t)) :
                     t \in {t \in {"region", "mix"} : Of(rev[j], t) # {}}}
      [] OTHER -> HoursIn(Support(j))

-----------------------------------------------------------------------------
Init ==
    /\ published = [r \in Rows |-> IF r \in Anchors THEN 1 ELSE 0]
    /\ obs = NoRows
    /\ revised_at = [r \in Rows |-> FALSE]
    /\ docs = NoDocs
    /\ marked = {}
    /\ status = [j \in Jobs |-> "never"]
    /\ failures = 0
    /\ owed = {}
    /\ phase = [j \in Jobs |-> "idle"]
    /\ window = [j \in Jobs |-> {}]
    /\ got = [j \in Jobs |-> NoRows]
    /\ written = [j \in Jobs |-> {}]
    /\ rev = [j \in Jobs |-> {}]
    /\ todo = [j \in Jobs |-> {}]
    /\ draft = [j \in Jobs |-> NoDocs]
    /\ mine = [j \in Jobs |-> NoDocs]

\* EIA publishes an hour's value for the first time, or restates it.
Publish(r) ==
    /\ published[r] < MaxVersion[r]
    /\ published' = [published EXCEPT ![r] = @ + 1]
    /\ UNCHANGED <<obs, revised_at, docs, marked, status, failures, owed>>
    /\ UNCHANGED txn

\* run_poll, run_revise and the day loop of run_backfill: choose the window.
\* A day already recorded as fetched is skipped (day_is_complete).
StartIngest(j) ==
    /\ Kind[j] \in IngestKinds
    /\ phase[j] = "idle"
    /\ \E W \in Windows[j] :
          /\ Kind[j] = "backfill" => W \notin marked
          /\ window' = [window EXCEPT ![j] = W]
    /\ phase' = [phase EXCEPT ![j] = "region"]
    /\ UNCHANGED base
    /\ UNCHANGED <<got, written, rev, todo, draft, mine>>

AfterFetch(t) == CASE t = "region" -> "mix" [] t = "mix" -> "interchange" [] OTHER -> "write"

\* One dataset's request: region_data, then fuel_type_data, then interchange_data.
Fetch(j) ==
    /\ phase[j] \in Datasets
    /\ got' = [got EXCEPT ![j] =
                 [r \in Rows |-> IF r \in window[j] /\ Dataset[r] = phase[j]
                                 THEN published[r] ELSE got[j][r]]]
    /\ phase' = [phase EXCEPT ![j] = AfterFetch(phase[j])]
    /\ UNCHANGED base
    /\ UNCHANGED <<window, written, rev, todo, draft, mine>>

Unwritten(j) == Support(j) \ written[j]

\* Variants: nobody waits for a row; rows in no particular order; no WHERE ... IS
\* DISTINCT FROM, so that the same value again counts as a revision.
WriteRowUnlocked(j) ==
    /\ phase[j] = "write"
    /\ \E r \in Unwritten(j) :
          /\ \A s \in Unwritten(j) : r <= s
          /\ written' = [written EXCEPT ![j] = @ \cup {r}]
    /\ UNCHANGED base
    /\ UNCHANGED <<phase, window, got, rev, todo, draft, mine>>
WriteRowUnsorted(j) ==
    /\ phase[j] = "write"
    /\ \E r \in Unwritten(j) :
          /\ \A k \in Jobs \ {j} : r \notin written[k]
          /\ written' = [written EXCEPT ![j] = @ \cup {r}]
    /\ UNCHANGED base
    /\ UNCHANGED <<phase, window, got, rev, todo, draft, mine>>
WriteRowAlwaysRevised(j) ==
    /\ phase[j] = "write"
    /\ \E r \in Unwritten(j) :
          /\ \A s \in Unwritten(j) : r <= s
          /\ \A k \in Jobs \ {j} : r \notin written[k]
          /\ written' = [written EXCEPT ![j] = @ \cup {r}]
          /\ rev' = [rev EXCEPT ![j] = IF obs[r] # 0 THEN @ \cup {r} ELSE @]
    /\ UNCHANGED base
    /\ UNCHANGED <<phase, window, got, todo, draft, mine>>

\* write_region, write_mix, write_interchange: upsert the next row.  The row is
\* locked even where nothing changes; another transaction holding it is waited for.
WriteRow(j) ==
    /\ phase[j] = "write"
    /\ \E r \in Unwritten(j) :
          /\ \A s \in Unwritten(j) : r <= s
          /\ \A k \in Jobs \ {j} : r \notin written[k]
          /\ written' = [written EXCEPT ![j] = @ \cup {r}]
          /\ rev' = [rev EXCEPT ![j] = IF obs[r] # 0 /\ obs[r] # got[j][r]
                                       THEN @ \cup {r} ELSE @]
    /\ UNCHANGED base
    /\ UNCHANGED <<phase, window, got, todo, draft, mine>>

\* The last row is in: which documents are rebuilt follows.
EndWrites(j) ==
    /\ phase[j] = "write"
    /\ Unwritten(j) = {}
    /\ todo' = [todo EXCEPT ![j] = Touched(j)]
    /\ phase' = [phase EXCEPT ![j] = "build"]
    /\ UNCHANGED base
    /\ UNCHANGED <<window, got, written, rev, draft, mine>>

\* hours_needing_snapshots: observed hours, by default those with no snapshot.
NeedingSnapshots(missingOnly) ==
    {h \in HoursIn({r \in Rows : obs[r] # 0}) : missingOnly => docs[h] = NoDoc}

\* `eia rebuild-snapshots` and `eia rebuild-aggregates` start with no fetch.  The
\* latter commits each resolution (and year) before the next.
StartRebuild(j) ==
    /\ phase[j] = "idle"
    /\ \/ /\ Kind[j] = "rebuild"
          /\ \E missingOnly \in BOOLEAN :
                todo' = [todo EXCEPT ![j] = NeedingSnapshots(missingOnly)]
       \/ /\ Kind[j] = "aggregate"
          /\ \E u \in 1..3 : todo' = [todo EXCEPT ![j] = {b \in Buckets : Resolution[b] = u}]
    /\ phase' = [phase EXCEPT ![j] = "build"]
    /\ UNCHANGED base
    /\ UNCHANGED <<window, got, written, rev, draft, mine>>

\* The documents one SELECT builds: one hour, oldest first; every bucket of a batch
\* of rebuild-aggregates; or one bucket, resolution by resolution, those of one
\* resolution in whatever order an unsorted SELECT DISTINCT gives.
Batches(j) ==
    IF todo[j] \cap Hours # {}
    THEN {{h} : h \in {h \in todo[j] \cap Hours : \A g \in todo[j] \cap Hours : h <= g}}
    ELSE IF Kind[j] = "aggregate" THEN {todo[j]}
    ELSE {{b} : b \in {b \in todo[j] : \A c \in todo[j] : Resolution[b] <= Resolution[c]}}

NothingToStore(j) == \A d \in Docs : draft[j][d] = NoDoc

\* Variant: the documents are built outside the job's own transaction.
BuildDocsFromCommitted(j) ==
    /\ phase[j] = "build"
    /\ NothingToStore(j)
    /\ todo[j] # {}
    /\ \E D \in Batches(j) :
          /\ draft' = [draft EXCEPT ![j] =
                         [d \in Docs |-> IF d \in D THEN Built(obs, d) ELSE NoDoc]]
          /\ todo' = [todo EXCEPT ![j] = @ \ D]
    /\ UNCHANGED base
    /\ UNCHANGED <<phase, window, got, written, rev, mine>>

\* build_snapshot, build_aggregates: read the rows.
BuildDocs(j) ==
    /\ phase[j] = "build"
    /\ NothingToStore(j)
    /\ todo[j] # {}
    /\ \E D \in Batches(j) :
          /\ draft' = [draft EXCEPT ![j] =
                         [d \in Docs |-> IF d \in D THEN Built(View(j), d) ELSE NoDoc]]
          /\ todo' = [todo EXCEPT ![j] = @ \ D]
    /\ UNCHANGED base
    /\ UNCHANGED <<phase, window, got, written, rev, mine>>

\* store_snapshot, store_aggregates: upsert what was read, oldest first.
StoreDoc(j) ==
    /\ phase[j] = "build"
    /\ \E d \in Docs :
          /\ draft[j][d] # NoDoc
          /\ \A e \in Docs : draft[j][e] # NoDoc => d <= e
          /\ \A k \in Jobs \ {j} : mine[k][d] = NoDoc
          /\ mine' = [mine EXCEPT ![j][d] = draft[j][d]]
          /\ draft' = [draft EXCEPT ![j][d] = NoDoc]
    /\ UNCHANGED base
    /\ UNCHANGED <<phase, window, got, written, rev, todo>>

\* Variant: the transaction is left open.
ReleaseKeepsLocks(j) ==
    /\ phase' = [phase EXCEPT ![j] = "idle"]
    /\ UNCHANGED <<window, got, written, rev, todo, draft, mine>>

\* The transaction is over: its locks and its private state are gone.
Release(j) ==
    /\ phase' = [phase EXCEPT ![j] = "idle"]
    /\ window' = [window EXCEPT ![j] = {}]
    /\ got' = [got EXCEPT ![j] = NoRows]
    /\ written' = [written EXCEPT ![j] = {}]
    /\ rev' = [rev EXCEPT ![j] = {}]
    /\ todo' = [todo EXCEPT ![j] = {}]
    /\ draft' = [draft EXCEPT ![j] = NoDocs]
    /\ mine' = [mine EXCEPT ![j] = NoDocs]

Stored(j) == {d \in Docs : mine[j][d] # NoDoc}

\* connection.commit(): rows, documents, the day's marker and (for poll and revise)
\* the status row appear together.
Commit(j) ==
    /\ phase[j] = "build"
    /\ todo[j] = {} /\ NothingToStore(j)
    /\ obs' = View(j)
    /\ revised_at' = [r \in Rows |-> revised_at[r] \/ r \in rev[j]]
    /\ docs' = [d \in Docs |-> IF mine[j][d] # NoDoc THEN mine[j][d] ELSE docs[d]]
    /\ owed' = (owed \cup Concerned(obs, View(j))) \ Stored(j)
    /\ marked' = IF Kind[j] = "backfill" THEN marked \cup {window[j]} ELSE marked
    /\ status' = IF Kind[j] \in {"poll", "revise"}
                 THEN [status EXCEPT ![j] = "ok"] ELSE status
    /\ UNCHANGED <<published, failures>>
    /\ Release(j)

\* Every day of the window is done: run_backfill records its success.
FinishBackfill(j) ==
    /\ Kind[j] = "backfill"
    /\ phase[j] = "idle"
    /\ Windows[j] \subseteq marked
    /\ status[j] # "ok"
    /\ status' = [status EXCEPT ![j] = "ok"]
    /\ UNCHANGED <<published, obs, revised_at, docs, marked, failures, owed>>
    /\ UNCHANGED txn

\* The lock a job is about to ask for: an observation row, or a document.
Wants(j, n) ==
    \/ phase[j] = "write" /\ n \in Unwritten(j) /\ \A s \in Unwritten(j) : n <= s
    \/ n - NumRows \in Docs /\ draft[j][n - NumRows] # NoDoc
       /\ \A e \in Docs : draft[j][e] # NoDoc => n - NumRows <= e
Holds(k, n) == n \in written[k] \/ (n - NumRows \in Docs /\ mine[k][n - NumRows] # NoDoc)
Locks == 1..(NumRows + NumDocs)
Blocks(k, j) == \E n \in Locks : Wants(j, n) /\ Holds(k, n)

\* Variant: no rollback before the failure is recorded and committed.
RollbackThatCommits(j) ==
    /\ status' = [status EXCEPT ![j] = "failed"]
    /\ obs' = View(j)
    /\ UNCHANGED <<published, revised_at, docs, marked, owed>>
    /\ Release(j)

\* Rollback, then (ingest jobs) the failure is recorded and that is committed; or
\* the process dies, and nothing is recorded.
Rollback(j) ==
    /\ \/ /\ Kind[j] \in IngestKinds
          /\ status' = [status EXCEPT ![j] = "failed"]
       \/ UNCHANGED status
    /\ UNCHANGED <<published, obs, revised_at, docs, marked, owed>>
    /\ Release(j)

\* An exception or a kill, anywhere.
Fail(j) ==
    /\ phase[j] # "idle"
    /\ failures < MaxFailures
    /\ failures' = failures + 1
    /\ Rollback(j)

\* Two transactions wait for each other: Postgres makes one of them fail.
BreakDeadlock(j) ==
    /\ \E k \in Jobs \ {j} : Blocks(k, j) /\ Blocks(j, k)
    /\ UNCHANGED failures
    /\ Rollback(j)

-----------------------------------------------------------------------------
\* What a job does once it has started, and what the scheduler starts.
Advance(j) == \/ Fetch(j) \/ WriteRow(j) \/ EndWrites(j) \/ BuildDocs(j)
              \/ StoreDoc(j) \/ Commit(j) \/ FinishBackfill(j)

Step(j) == StartIngest(j) \/ StartRebuild(j) \/ Advance(j) \/ Fail(j) \/ BreakDeadlock(j)

Next == \/ \E r \in Rows : Publish(r)
        \/ \E j \in Jobs : Step(j)

Spec == Init /\ [][Next]_vars

\* A started job runs on, and Postgres queues those who wait for a lock, so that none
\* is passed over for ever.  The scheduler starts `poll` twice an hour.  Nobody promises that EIA
\* publishes, or that a command is run by hand.
Fairness == /\ \A j \in Jobs : SF_vars(Advance(j)) /\ WF_vars(BreakDeadlock(j))
            /\ \A j \in Jobs : Kind[j] = "poll" => WF_vars(StartIngest(j))

LiveSpec == Spec /\ Fairness
-----------------------------------------------------------------------------
TypeOK ==
    /\ published \in [Rows -> Version]
    /\ obs \in [Rows -> Version]
    /\ revised_at \in [Rows -> BOOLEAN]
    /\ docs \in [Docs -> Doc \cup {NoDoc}]
    /\ marked \subseteq SUBSET Rows
    /\ status \in [Jobs -> {"never", "ok", "failed"}]
    /\ failures \in Nat
    /\ owed \subseteq Docs
    /\ phase \in [Jobs -> Datasets \cup {"idle", "write", "build"}]
    /\ window \in [Jobs -> SUBSET Rows]
    /\ got \in [Jobs -> [Rows -> Version]]
    /\ written \in [Jobs -> SUBSET Rows]
    /\ rev \in [Jobs -> SUBSET Rows]
    /\ todo \in [Jobs -> SUBSET Docs]
    /\ draft \in [Jobs -> [Docs -> Doc \cup {NoDoc}]]
    /\ mine \in [Jobs -> [Docs -> Doc \cup {NoDoc}]]

Fresh(d) == Agrees(docs, obs, d)

\* In every committed state, an hour whose snapshot disagrees with the observations
\* is one whose rows some job committed without rebuilding it; jobs that overlap
\* never leave one behind (poll.py, "a snapshot is never left stale").
StaleHourIsOwed == \A h \in Hours : Fresh(h) \/ h \in owed

\* Poll and backfill owe no hourly snapshot, only revise does: it rebuilds nothing
\* for a table in which it inserted rows and revised none.
OnlyReviseOwesHours == (\A j \in Jobs : Kind[j] # "revise") => owed \cap Hours = {}

\* An hour of a day recorded as fetched never waits for its snapshot, whatever
\* failed or was killed in between (DECISIONS, "Snapshots are built per day"), unless
\* revisions run, which may bring an hour its first row and rebuild nothing.
MarkedDayHasSnapshots == (\A j \in Jobs : Kind[j] # "revise") =>
    \A W \in marked : \A r \in W : obs[r] # 0 => docs[HourOf[r]] # NoDoc

\* But for `rebuild-aggregates`, locks are asked for in one order: the holder of a
\* lock somebody waits for can itself only wait further on, so that no set of these
\* jobs waits in a circle.
HolderIsAhead ==
    \A j, k \in Jobs : j # k /\ "aggregate" \notin {Kind[j], Kind[k]} =>
        \A n, m \in Locks : Wants(j, n) /\ Holds(k, n) /\ Wants(k, m) => n < m

\* revised_at is set by a commit that replaces one published value by another,
\* and by nothing else: not by a first sighting, not by the same number again
\* (observations.py, "Honest about revision").
RevisedAtIsHonest ==
    [][\A r \in Rows : /\ revised_at[r] => revised_at'[r]
                       /\ (revised_at'[r] # revised_at[r] => obs[r] # 0 /\ obs'[r] # obs[r])
                       /\ (obs[r] # 0 /\ obs'[r] # obs[r] => revised_at'[r])]_vars

\* After a poll that reports success, whatever it fetched is stored, and every
\* hour those rows fall in agrees with the rows: also those other jobs left stale.
PollRepairs ==
    [][\A j \in Jobs : Kind[j] = "poll" /\ Commit(j)
          => /\ \A r \in Support(j) : obs'[r] = got[j][r]
             /\ \A h \in HoursIn(Support(j)) : Fresh(h)']_vars

\* What a reader of the hourly map sees is what a store would show in which every
\* commit rebuilds the documents it concerns from the rows it leaves: the overlap of
\* transactions is invisible.  Revise alone may leave an hour it concerns alone.
HourlyMap == INSTANCE MapStore WITH
    Shown <- Hours,
    docs <- [h \in Hours |-> docs[h]],
    MayOwe <- IF \E j \in Jobs : Kind[j] = "revise" THEN Hours ELSE {}

ImplementsMapStore == HourlyMap!Spec

\* No transaction waits for ever: the one it waits for ends, or Postgres breaks the
\* circle by failing one of them.
EveryTransactionEnds == \A j \in Jobs : phase[j] # "idle" ~> phase[j] = "idle"

\* Once EIA has said its last word, the rows a poll asks for and their snapshots
\* settle on it, whatever overlapped, failed or wrote back an older answer before.
Polled == UNION {UNION Windows[j] : j \in {j \in Jobs : Kind[j] = "poll"}}
EventuallyCurrent ==
    <>[](\A r \in Polled : obs[r] = published[r] /\ Fresh(HourOf[r])
                           /\ \A b \in Buckets : HourOf[r] \in BucketHours[b] => Fresh(b))
=============================================================================
