-------------------------------- MODULE Repair --------------------------------
(***************************************************************************)
(* Coarse documents and the two commands that go over all of history in      *)
(* years, `eia recompute-shares` and `eia rebuild-aggregates` (workers/eia/  *)
(* cli.py, workers/db/shares.py and aggregates.py), with a poll and the      *)
(* backfills and revisions that write beside them.  Each year is committed   *)
(* by itself, and a command may be interrupted at any time.  A statement     *)
(* sees what is committed when it begins, so a document that was read and    *)
(* not yet stored may be overtaken.  An instant is an hour since 1 January   *)
(* 2019; there is one zone.                                                  *)
(***************************************************************************)
EXTENDS Calendar, MixShares, Functions

CONSTANTS
  Hours,        \* the hours EIA has
  Answers,      \* what it may say of one: [interchange, mix], either of them Null
  Now,          \* the hour after the newest
  Config,       \* modes.yaml: canonical_modes, renewable, low_carbon, excluded_from_mix_percent
  Histories,    \* what was ingested before: functions from some hours to answers,
  Former,       \* under this modes.yaml
  Sinces,       \* where rebuild-aggregates may be told to begin
  MaxWrites     \* how often the jobs write

VARIABLES
  rows,         \* the hours observed: their interchange, mix, and stored total and shares
  docs,         \* map_snapshot_agg: for each resolution, documents by period
  poll,         \* the poll whose transaction is open, or Null: the hour it wrote and the answer, the
                \* resolutions it has yet to refresh, the documents it stored; (history) those of
                \* them that were overtaken: their rows changed after they were read
  command,      \* the command that runs: its name, the ranges it has yet to do, and what it built of
                \* the first, or Null; where it was told to begin; (history) how often the jobs had
                \* written by then, and the documents that were overtaken
  writes,
  owed          \* history: documents that do not have a committed change of their rows
vars == <<rows, docs, poll, command, writes, owed>>

Units == {"day", "week", "month"}
None  == [name |-> "none", todo |-> <<>>, built |-> Null, since |-> 0, writes |-> 0, missed |-> {}]

NextBucket(unit, bucket) ==
  CASE unit = "day"   -> bucket + 24
    [] unit = "week"  -> bucket + 7 * 24
    [] unit = "month" -> Min({m \in ToSet(MonthStarts) : m > bucket})

NewYear(k) == MonthStarts[12 * k + 1]
YearOf(t)  == Max({k \in 0..9 : NewYear(k) <= t})

IsMix(mix) == IsFiniteSet(DOMAIN mix) /\ \A m \in DOMAIN mix : mix[m] \in Int \cup {Null}
IsAnswer(answer) == answer.interchange \in Int \cup {Null} /\ (answer.mix # Null => IsMix(answer.mix))

\* The calendar goes on beyond the week in which the commands run.
ASSUME RepairConstants ==
  /\ Null \notin Int
  /\ Hours \subseteq Nat /\ \A h \in Hours : h < Now
  /\ Now \in Nat /\ Now + 7 * 24 <= NewYear(9)
  /\ Sinces \subseteq Nat
  /\ \A answer \in Answers : IsAnswer(answer)
  /\ \A history \in Histories : /\ DOMAIN history \subseteq Hours
                                /\ \A h \in DOMAIN history : IsAnswer(history[h])

\* Variant: batches are cut at the new year.
batches_by_year(unit, start, end) ==
  LET years == {k \in YearOf(start)..9 : NewYear(k) < end}
  IN  [i \in 1..Cardinality(years) |->
         [unit |-> unit, from |-> NewYear(YearOf(start) + i - 1),
          to |-> Min({NewYear(YearOf(start) + i), end})]]

\* batch_ranges: years, snapped to the buckets that their first days lie in.
batch_ranges(unit, start, end) ==
  LET Edge(k) == date_trunc(unit, NewYear(k))
      years   == {k \in YearOf(start)..9 : Edge(k) < end}
  IN  [i \in 1..Cardinality(years) |->
         [unit |-> unit, from |-> Edge(YearOf(start) + i - 1),
          to |-> Min({Edge(YearOf(start) + i), end})]]

\* Variant: the year of the newest hour is left out.
years_before_last(first, last) ==
  [i \in 1..(YearOf(last) - YearOf(first)) |->
     [from |-> NewYear(YearOf(first) + i - 1), to |-> NewYear(YearOf(first) + i)]]

\* recompute_shares: whole years, from that of the oldest row to that of the newest.
years_of(first, last) ==
  [i \in 1..(YearOf(last) - YearOf(first) + 1) |->
     [from |-> NewYear(YearOf(first) + i - 1), to |-> NewYear(YearOf(first) + i)]]

-----------------------------------------------------------------------------
(* Documents. *)

\* What ON CONFLICT DO UPDATE leaves of a table.
Over(new, old) ==
  [k \in DOMAIN new \cup DOMAIN old |-> IF k \in DOMAIN new THEN new[k] ELSE old[k]]

Mixed(table) == {h \in DOMAIN table : table[h].mix # Null}

\* The hour furthest from zero, with its sign; of an import and an export equally far it may be
\* either, so a document is taken with all that it may say.
Furthest(values) == {v \in values : \A w \in values : Max({w, -w}) <= Max({v, -v})}

\* One period's document, of the rows of it that were read.
DocumentOf(table) ==
  [hours       |-> Cardinality(DOMAIN table),
   interchange |-> Furthest({table[h].interchange : h \in DOMAIN table} \ {Null}),
   mean        |-> ShareOfSums([h \in Mixed(table) |-> table[h].mix], Config),
   peak        |-> [p \in Parts |->
                      LET shares == {table[h].share[p] : h \in Mixed(table)} \ {Null}
                      IN  IF shares = {} THEN Null ELSE HalfEven(Max(shares), 10)]]

\* build_aggregates: the rows of a range, by period; a period nobody reported in is absent.
build_aggregates(table, unit, from, to) ==
  LET read == {h \in DOMAIN table : from <= h /\ h < to}
  IN  [bucket \in {date_trunc(unit, h) : h \in read} |->
         DocumentOf(Restrict(table, {h \in read : date_trunc(unit, h) = bucket}))]

BucketsOf(h) == {<<unit, date_trunc(unit, h)>> : unit \in Units}

-----------------------------------------------------------------------------
(* The jobs. *)

Row(answer, config) ==
  IF answer.mix = Null
  THEN [interchange |-> answer.interchange, mix |-> Null, total |-> Null, share |-> [p \in Parts |-> Null]]
  ELSE [interchange |-> answer.interchange, mix |-> answer.mix,
        total |-> total_generation(answer.mix, config), share |-> compute_shares(answer.mix, config)]

\* The upserts of an hour: a table EIA says nothing of keeps what it has, and so does a mix of
\* which neither the modes nor the total are distinct, its shares included.
Upserted(table, h, answer) ==
  LET new  == Row(answer, Config)
      old  == table[h]
      flow == IF new.interchange = Null THEN old.interchange ELSE new.interchange
  IN  IF h \notin DOMAIN table THEN new
      ELSE IF new.mix = Null \/ (new.mix = old.mix /\ new.total = old.total)
           THEN [old EXCEPT !.interchange = flow]
           ELSE [new EXCEPT !.interchange = flow]

Written(table, h, answer) == Over([g \in {h} |-> Upserted(table, g, answer)], table)

\* The rows an open poll holds locked: those of the tables EIA spoke of.
HoldsFlow(h) == poll # Null /\ poll.hour = h /\ poll.answer.interchange # Null
HoldsMix(h)  == poll # Null /\ poll.hour = h /\ poll.answer.mix # Null

\* History: what is read and not committed, when a transaction changes the rows of some documents.
PollMissing(changed) ==
  IF poll = Null THEN Null ELSE [poll EXCEPT !.missed = @ \cup {b \in changed : b[1] \in DOMAIN poll.built}]
CommandMissing(changed) ==
  IF command.built = Null THEN command ELSE [command EXCEPT !.missed = @ \cup changed]

Changed(table, h) == IF table = rows THEN {} ELSE BucketsOf(h)

\* What is owed once some documents are stored: those of them that were overtaken.
Owing(stored, missed) == (owed \ stored) \cup (stored \cap missed)

\* A day's transaction of the backfill, or a revision: rows and snapshots, no buckets.
Backfill ==
  \E h \in Hours, answer \in Answers :
    LET table == Written(rows, h, answer)
    IN  /\ writes < MaxWrites /\ writes' = writes + 1
        /\ answer.interchange # Null => ~HoldsFlow(h)
        /\ answer.mix # Null => ~HoldsMix(h)
        /\ rows' = table
        /\ poll' = PollMissing(Changed(table, h)) /\ command' = CommandMissing(Changed(table, h))
        /\ owed' = owed \cup Changed(table, h)
        /\ UNCHANGED docs

\* A poll's transaction begins with the rows of the last hours, which it alone sees.
StartPoll ==
  /\ poll = Null /\ writes < MaxWrites
  /\ \E h \in {h \in Hours : h >= Now - 12}, answer \in Answers :
       poll' = [hour |-> h, answer |-> answer, todo |-> <<"day", "week", "month">>,
                built |-> <<>>, missed |-> {}]
  /\ UNCHANGED <<rows, docs, command, writes, owed>>

\* refresh_buckets_for, one resolution: the bucket is read and stored, and its document locked.
RefreshBucket ==
  /\ poll # Null /\ poll.todo # <<>>
  /\ LET unit   == Head(poll.todo)
         bucket == date_trunc(unit, poll.hour)
         new    == build_aggregates(Written(rows, poll.hour, poll.answer), unit, bucket, NextBucket(unit, bucket))
     IN  poll' = [poll EXCEPT !.todo = Tail(@), !.built = Over([u \in {unit} |-> new], @)]
  /\ UNCHANGED <<rows, docs, command, writes, owed>>

CommitPoll ==
  /\ poll # Null /\ poll.todo = <<>>
  /\ LET table == Written(rows, poll.hour, poll.answer)
     IN  rows' = table /\ command' = CommandMissing(Changed(table, poll.hour))
  /\ docs' = [unit \in Units |-> Over(poll.built[unit], docs[unit])]
  /\ owed' = Owing(BucketsOf(poll.hour), poll.missed)
  /\ poll' = Null /\ writes' = writes + 1

\* A statement fails, or the job is killed: PostgreSQL rolls back.
PollFails == poll # Null /\ poll' = Null /\ UNCHANGED <<rows, docs, command, writes, owed>>

-----------------------------------------------------------------------------
(* The commands. *)

StartRecompute ==
  LET mixed == Mixed(rows)
  IN  /\ command = None /\ mixed # {}
      /\ command' = [None EXCEPT !.name = "recompute-shares", !.writes = writes,
                                 !.todo = years_of(Min(mixed), Max(mixed))]
      /\ UNCHANGED <<rows, docs, poll, writes, owed>>

StartRebuild ==
  /\ command = None
  /\ \E since \in Sinces :
       command' = [None EXCEPT !.name = "rebuild-aggregates", !.since = since, !.writes = writes,
                               !.todo = batch_ranges("day", since, Now) \o batch_ranges("week", since, Now)
                                          \o batch_ranges("month", since, Now)]
  /\ UNCHANGED <<rows, docs, poll, writes, owed>>

\* One year's UPDATE and its commit; it waits for a row that an open poll has locked.
RecomputeYear ==
  /\ command.name = "recompute-shares" /\ command.todo # <<>>
  /\ command' = [command EXCEPT !.todo = Tail(@)]
  /\ LET year  == Head(command.todo)
         In(h) == year.from <= h /\ h < year.to /\ rows[h].mix # Null
         New(h) == IF In(h) THEN recomputed(rows[h].mix, Config) ELSE rows[h].share
         changed == UNION {BucketsOf(h) : h \in {h \in DOMAIN rows : New(h) # rows[h].share}}
     IN  /\ \A h \in DOMAIN rows : In(h) => ~HoldsMix(h)
         /\ rows' = [h \in DOMAIN rows |-> [rows[h] EXCEPT !.share = New(h)]]
         /\ poll' = PollMissing(changed)
         /\ owed' = owed \cup changed
  /\ UNCHANGED <<docs, writes>>

\* One batch of one resolution: the SELECT.
ReadBatch ==
  /\ command.name = "rebuild-aggregates" /\ command.todo # <<>> /\ command.built = Null
  /\ LET batch == Head(command.todo)
     IN  command' = [command EXCEPT !.built = build_aggregates(rows, batch.unit, batch.from, batch.to)]
  /\ UNCHANGED <<rows, docs, poll, writes, owed>>

\* The upserts and the commit; they wait for a document that an open poll has stored.
StoreBatch ==
  /\ command.built # Null
  /\ LET unit   == Head(command.todo).unit
         stored == {<<unit, bucket>> : bucket \in DOMAIN command.built}
     IN  /\ poll # Null /\ unit \in DOMAIN poll.built => <<unit, date_trunc(unit, poll.hour)>> \notin stored
         /\ docs' = [docs EXCEPT ![unit] = Over(command.built, @)]
         /\ owed' = Owing(stored, command.missed)
  /\ command' = [command EXCEPT !.todo = Tail(@), !.built = Null, !.missed = {}]
  /\ UNCHANGED <<rows, poll, writes>>

Done(name) == command.name = name /\ command.todo = <<>>

\* It reports and exits; or is interrupted, and PostgreSQL keeps the years it has committed.
Finish    == Done(command.name) /\ command # None /\ command' = None /\ UNCHANGED <<rows, docs, poll, writes, owed>>
Interrupt == command.todo # <<>> /\ command' = None /\ UNCHANGED <<rows, docs, poll, writes, owed>>

Init ==
  /\ \E history \in Histories :
       /\ rows = [h \in DOMAIN history |-> Row(history[h], Former)]
       /\ owed = UNION {BucketsOf(h) : h \in DOMAIN history}
  /\ docs = [unit \in Units |-> <<>>]
  /\ command = None /\ poll = Null /\ writes = 0

Next == \/ Backfill \/ StartPoll \/ RefreshBucket \/ CommitPoll \/ PollFails
        \/ StartRecompute \/ RecomputeYear \/ StartRebuild \/ ReadBatch \/ StoreBatch \/ Finish \/ Interrupt

Spec == Init /\ [][Next]_vars

-----------------------------------------------------------------------------
(* Properties. *)

\* A document is of all the hours of its period, a week across the new year included, in the
\* middle of a rebuild and after an interrupted one too, unless a transaction changed rows of it
\* that did not rebuild it, or committed them after it was read and before it was stored; and a
\* rebuild that has done its batches leaves nothing unbuilt from the day it was told, if no job
\* committed meanwhile (aggregates.py:267; RUNBOOK.md:810 has it safe at any time).
BucketsAreWhole ==
  /\ \A unit \in Units, h \in Hours :
       LET bucket == date_trunc(unit, h)
           whole  == Restrict(rows, {g \in DOMAIN rows : date_trunc(unit, g) = bucket})
       IN  <<unit, bucket>> \notin owed =>
             IF DOMAIN whole = {} THEN bucket \notin DOMAIN docs[unit]
             ELSE bucket \in DOMAIN docs[unit] /\ docs[unit][bucket] = DocumentOf(whole)
  /\ Done("rebuild-aggregates") /\ writes = command.writes =>
       \A h \in DOMAIN rows : h >= command.since => BucketsOf(h) \cap owed = {}

\* The mean share of a period lies between the least and the greatest share the mapper gives its
\* hours, to a unit of its last place, wherever nothing that counts was negative
\* (aggregates.py:14).
CoarseShareIsBetween ==
  \A unit \in Units, h \in Mixed(rows), p \in Parts :
    LET H == {g \in Mixed(rows) : date_trunc(unit, g) = date_trunc(unit, h)}
        mean   == DocumentOf(Restrict(rows, H)).mean[p]
        shares == {compute_shares(rows[g].mix, Config)[p] : g \in H} \ {Null}
    IN  (\A g \in H, m \in Counted(Config) : rows[g].mix[m] # Null => rows[g].mix[m] >= 0) =>
          IF shares = {} THEN mean = Null
          ELSE Min(shares) - 10 <= 10 * mean /\ 10 * mean <= Max(shares) + 10

\* A recompute that was not interrupted leaves every share as the mapper would write it today, to
\* a unit of the last place (the two round halves apart), whichever rule it was written by and
\* whatever was written beside it.  Of an hour in which the mapper knows nothing, shares.py:61
\* may know more: its share is unknown, or the generation's, and not one of an older rule.
RecomputeReachesEveryRow ==
  Done("recompute-shares") =>
    \A h \in Mixed(rows), p \in Parts :
      LET today == compute_shares(rows[h].mix, Config)[p]
      IN  rows[h].share[p] \in IF today # Null THEN (today - 1)..(today + 1)
                               ELSE {Null, recomputed(rows[h].mix, Config)[p]}
=============================================================================
