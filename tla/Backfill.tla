------------------------------ MODULE Backfill ------------------------------
(***************************************************************************)
(* `eia backfill` over its life (workers/eia/backfill.py): runs that walk  *)
(* a trailing window a day at a time, skip the days backfill_day records   *)
(* as fetched, commit each day, die in the middle and are run again, while *)
(* the clock moves, EIA publishes, polls write the newest hours and an     *)
(* operator may TRUNCATE the observation tables.                           *)
(*                                                                         *)
(* Abstraction.  An hour stands for its rows in the three tables; there is *)
(* or there is no row (revisions are the matter of Ingest).  A day's       *)
(* transaction (write, rebuild, mark, commit) is one step here; Ingest     *)
(* takes it apart.                                                         *)
(***************************************************************************)
EXTENDS Integers, FiniteSetsExt

CONSTANTS
    NumDays,
    HoursPerDay,
    PollHours,       \* LOOKBACK_HOURS of poll
    Seeded,          \* days migration 0006 marked, their hours being in the database
    InitialHour,     \* the hour in progress when the story starts
    MaxFailures,     \* bound: failed or killed runs
    MaxTruncates,    \* bound
    NotFetched       \* no row in backfill_day

Days       == 1..NumDays
Hours      == 1..(NumDays * HoursPerDay)
DayOf(h)   == (h - 1) \div HoursPerDay + 1
HoursOf(d) == {h \in Hours : DayOf(h) = d}    \* day_bounds

ASSUME BackfillConstants ==
    /\ NumDays \in Nat \ {0} /\ HoursPerDay \in Nat \ {0} /\ PollHours \in Nat
    /\ InitialHour \in Hours
    /\ Seeded \subseteq {d \in Days : d < DayOf(InitialHour)}
    /\ MaxFailures \in Nat /\ MaxTruncates \in Nat
    /\ NotFetched \notin Nat

VARIABLES
    now,         \* the hour in progress
    published,   \* hours EIA holds
    obs,         \* hours with observations, as committed
    snapshot,    \* hours with a map snapshot, as committed
    marker,      \* backfill_day: rows_written of each day, or NotFetched
    status,      \* source_status of backfill
    failures,
    truncates,
    phase,       \* "idle", "day" (about to consider one) or "write" (its rows are here)
    force,       \* --force
    moment,      \* the run's clock, read once
    latest,      \* endPeriod, read once
    first,       \* the run's first day
    day,         \* the day it considers next
    answer,      \* complete hours EIA answered for it
    reading,     \* whether its transaction holds a lock on the observation tables
    fetched,     \* summary.days_fetched, those committed
    skipped,     \* summary.days_skipped
    known,       \* history: complete hours EIA held when the run started
    emptied      \* history: marked days whose rows a TRUNCATE took, until fetched again

world == <<now, published, obs, snapshot, marker, status, failures, truncates, emptied>>
run   == <<phase, force, moment, latest, first, day, answer, reading, fetched, skipped, known>>
vars  == <<now, published, obs, snapshot, marker, status, failures, truncates, emptied,
           phase, force, moment, latest, first, day, answer, reading, fetched, skipped, known>>

\* is_complete_hour: the hour in progress is never written.
Complete(t) == {h \in Hours : h < t}
Newest(H)   == IF H = {} THEN 0 ELSE Max(H)
Window      == first..DayOf(moment)

-----------------------------------------------------------------------------
Init ==
    /\ now = InitialHour
    /\ published = Complete(InitialHour)
    /\ obs = UNION {HoursOf(d) : d \in Seeded}
    /\ snapshot = obs
    /\ marker = [d \in Days |-> IF d \in Seeded THEN 0 ELSE NotFetched]
    /\ status = "never" /\ failures = 0 /\ truncates = 0 /\ emptied = {}
    /\ phase = "idle" /\ force = FALSE /\ moment = InitialHour /\ latest = 0
    /\ first = 1 /\ day = 1 /\ answer = {} /\ reading = FALSE
    /\ fetched = {} /\ skipped = {} /\ known = {}

Tick == /\ now + 1 \in Hours
        /\ now' = now + 1
        /\ UNCHANGED <<published, obs, snapshot, marker, status, failures, truncates, emptied>>
        /\ UNCHANGED run

\* EIA publishes an hour, in any order, perhaps one still in progress.
Publish == /\ \E h \in 1..now : h \notin published /\ published' = published \cup {h}
           /\ UNCHANGED <<now, obs, snapshot, marker, status, failures, truncates, emptied>>
           /\ UNCHANGED run

\* A poll commits the newest hours and their snapshots (run_poll).
Poll == LET H == {h \in published \cap Complete(now) : h >= Newest(published) - PollHours}
        IN  /\ obs' = obs \cup H
            /\ snapshot' = snapshot \cup H
            /\ UNCHANGED <<now, published, marker, status, failures, truncates, emptied>>
            /\ UNCHANGED run

\* An operator empties the observation tables.  It waits for a transaction that has
\* read or written them.
Truncate ==
    /\ ~reading
    /\ truncates < MaxTruncates
    /\ truncates' = truncates + 1
    /\ obs' = {}
    /\ emptied' = emptied \cup {d \in Days : marker[d] # NotFetched /\ HoursOf(d) \cap obs # {}}
    /\ UNCHANGED <<now, published, snapshot, marker, status, failures>>
    /\ UNCHANGED run

\* run_backfill: facets and metadata, the clock, then the trailing window.
StartRun ==
    /\ phase = "idle"
    /\ phase' = "day"
    /\ force' \in BOOLEAN
    /\ moment' = now
    /\ latest' = Newest(published)
    /\ first' \in 1..DayOf(now)
    /\ day' = first'
    /\ fetched' = {} /\ skipped' = {}
    /\ known' = published \cap Complete(now)
    /\ UNCHANGED <<answer, reading>>
    /\ UNCHANGED world

\* Variant: completeness judged from the data, as it was before backfill_day.
AnyRowsIsComplete(d) == HoursOf(d) \cap obs # {}

\* day_is_complete: recorded as fetched, and rows behind the record if it counted any.
DayIsComplete(d) ==
    /\ marker[d] # NotFetched
    /\ marker[d] = 0 \/ HoursOf(d) \cap obs # {}

\* Its SELECT keeps a lock until the next commit.
SkipDay ==
    /\ phase = "day" /\ day \in Window
    /\ ~force /\ DayIsComplete(day)
    /\ skipped' = skipped \cup {day}
    /\ day' = day + 1
    /\ reading' = TRUE
    /\ UNCHANGED <<phase, force, moment, latest, first, answer, fetched, known>>
    /\ UNCHANGED world

\* Variant: the day is marked, and that committed, before its rows are written.
FetchAfterMarking ==
    /\ phase = "day" /\ day \in Window
    /\ force \/ ~DayIsComplete(day)
    /\ answer' = {h \in HoursOf(day) \cap published \cap Complete(moment) : h <= latest}
    /\ marker' = [marker EXCEPT ![day] = 0]
    /\ phase' = "write"
    /\ reading' = (reading \/ ~force)
    /\ UNCHANGED <<force, moment, latest, first, day, fetched, skipped, known>>
    /\ UNCHANGED <<now, published, obs, snapshot, status, failures, truncates, emptied>>

\* Ask for the day up to its end, endPeriod or the hour in progress, and map.
FetchDay ==
    /\ phase = "day" /\ day \in Window
    /\ force \/ ~DayIsComplete(day)
    /\ answer' = {h \in HoursOf(day) \cap published \cap Complete(moment) : h <= latest}
    /\ phase' = "write"
    /\ reading' = (reading \/ ~force)
    /\ UNCHANGED <<force, moment, latest, first, day, fetched, skipped, known>>
    /\ UNCHANGED world

\* Variant: the snapshots are left to the end of the run.
CommitDayWithoutSnapshots ==
    /\ phase = "write"
    /\ obs' = obs \cup answer
    /\ marker' = [marker EXCEPT ![day] = Cardinality(answer \ obs)]
    /\ emptied' = emptied \ {day}
    /\ fetched' = fetched \cup {day}
    /\ day' = day + 1 /\ answer' = {} /\ reading' = FALSE /\ phase' = "day"
    /\ UNCHANGED <<now, published, snapshot, status, failures, truncates>>
    /\ UNCHANGED <<force, moment, latest, first, skipped, known>>

\* Write the rows, rebuild the hours they fall in, record the fetch, commit.
CommitDay ==
    /\ phase = "write"
    /\ obs' = obs \cup answer
    /\ snapshot' = snapshot \cup answer
    /\ marker' = [marker EXCEPT ![day] = Cardinality(answer \ obs)]
    /\ emptied' = emptied \ {day}
    /\ fetched' = fetched \cup {day}
    /\ day' = day + 1 /\ answer' = {} /\ reading' = FALSE /\ phase' = "day"
    /\ UNCHANGED <<now, published, status, failures, truncates>>
    /\ UNCHANGED <<force, moment, latest, first, skipped, known>>

\* The process ends; its connection is closed.
Ended ==
    /\ phase' = "idle" /\ force' = FALSE /\ moment' = InitialHour /\ latest' = 0
    /\ first' = 1 /\ day' = 1 /\ answer' = {} /\ reading' = FALSE
    /\ fetched' = {} /\ skipped' = {} /\ known' = {}

\* The window is done: the success is recorded.
Finish ==
    /\ phase = "day" /\ day \notin Window
    /\ status' = "ok"
    /\ UNCHANGED <<now, published, obs, snapshot, marker, failures, truncates, emptied>>
    /\ Ended

\* An exception, which is rolled back and recorded; or a kill, which is not recorded.
Fail ==
    /\ phase # "idle"
    /\ failures < MaxFailures
    /\ failures' = failures + 1
    /\ status' \in {"failed", status}
    /\ UNCHANGED <<now, published, obs, snapshot, marker, truncates, emptied>>
    /\ Ended

Advance == SkipDay \/ FetchDay \/ CommitDay \/ Finish

Next == \/ Tick \/ Publish \/ Poll \/ Truncate
        \/ StartRun \/ Advance \/ Fail

Spec == Init /\ [][Next]_vars

\* A started run goes on; an interrupted one is restarted over the whole window.
Restart == StartRun /\ first' = 1
LiveSpec == Spec /\ WF_vars(Advance) /\ SF_vars(Restart)
-----------------------------------------------------------------------------
\* A run that reports success has dealt with every day of its window once, and holds
\* every hour EIA had of the days it fetched, with a snapshot, unless somebody emptied
\* the tables since.
RunCoversItsWindow ==
    [][Finish => /\ fetched \cup skipped = Window
                 /\ fetched \cap skipped = {} /\ (force => skipped = {})
                 /\ \A h \in known : DayOf(h) \in fetched =>
                        h \in snapshot /\ (h \in obs \/ DayOf(h) \in emptied)]_vars

\* "An interrupted run can be restarted and reaches the same state as one that was
\* never interrupted": wherever runs fail or are killed, the history that was there
\* to begin with is in the end all stored, with its snapshots.
ResumedRunCompletes ==
    <>(Complete(InitialHour) \subseteq obs \cap snapshot) \/ <>(truncates > 0)

\* No day is fetched on every run for ever, unless --force asks for it: what EIA does
\* not have is not asked for again (DECISIONS, "re-fetched on every run, for ever").
NoDayIsFetchedForEver == <>[][FetchDay => force]_vars
=============================================================================
