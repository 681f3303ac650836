----------------------------- MODULE Scheduler -----------------------------
(***************************************************************************)
(* packages/scheduler: a cron that spawns a worker per job, skips a tick   *)
(* whose name still runs, and kills a worker at its timeout; what a worker *)
(* leaves in source_status; and what /health makes of those rows.          *)
(*                                                                         *)
(* Time is counted in slots, the distance of two ticks of the most         *)
(* frequent job: a timeout always falls inside the slot of its tick (ten   *)
(* minutes in thirty).  A child is `uv` and the Python process it waits    *)
(* for: `uv` passes SIGTERM on and cannot pass SIGKILL on, and the child's *)
(* streams close when both are gone.                                       *)
(***************************************************************************)
EXTENDS Naturals, FiniteSets

CONSTANTS
    Jobs,         \* JOBS, by name
    Recorded,     \* those with a row in source_status; /health judges them
    Period,       \* slots between two ticks of a job
    Budget,       \* JOB_BUDGET_MINUTES, in slots
    MaxTicks,     \* ticks counted: more than the budget covers
    Pid           \* processes at once: a bound on orphans

ASSUME SchedulerConstants ==
    /\ Recorded \subseteq Jobs
    /\ Period \in [Jobs -> Nat \ {0}]
    /\ Budget \in [Recorded -> Nat] /\ MaxTicks \in [Recorded -> Nat]
    /\ \A j \in Recorded : Budget[j] < (MaxTicks[j] + 1) * Period[j]
    /\ IsFiniteSet(Pid) /\ IsFiniteSet(Jobs)
    /\ Cardinality(Jobs) < Cardinality(Pid)

VARIABLES
    up,           \* PM2 has a scheduler
    running,      \* its Set of names
    due,          \* the ticks of this slot still to come
    since,        \* slots since a job's last tick
    proc,         \* the processes, and what runJob keeps about each
    row,          \* source_status: no row, last_success_at null, or set
    age,          \* slots since last_success_at
    ticks         \* history: its ticks since then; many, before any success

schedule == <<up, running, due, since>>
status   == <<row, age, ticks>>
vars     == <<up, running, due, since, proc, row, age, ticks>>

\* own: it belongs to the scheduler that is up; outcome: of the job's
\* transaction; term: SIGTERM was sent.
Process == [job : Jobs, own : BOOLEAN, outcome : {"none", "success", "failure"},
            exit : {"none", "zero", "other"},
            timer : {"armed", "termed", "killed", "none"}, term : BOOLEAN]
None == [job |-> "none"]

\* runJob: a child with its timer armed.
Spawned(j) == [job |-> j, own |-> TRUE, outcome |-> "none", exit |-> "none",
               timer |-> "armed", term |-> FALSE]

Alive(r) == r # None /\ r.exit = "none"
\* A process of the scheduler that is up.
Child(p) == proc[p] # None /\ proc[p].own

Least(a, b) == IF a <= b THEN a ELSE b
\* Ages beyond the budget are one.
Beyond(j) == Budget[j] + 1

\* A new host, its status table empty, where PM2 will start the scheduler.
Init == /\ up = FALSE /\ running = {} /\ due = {}
        /\ since = [j \in Jobs |-> 0]
        /\ proc = [p \in Pid |-> None]
        /\ row = [j \in Recorded |-> "none"]
        /\ age = [j \in Recorded |-> 0]
        /\ ticks = MaxTicks

----------------------------------------------------------------------------
(* source_status *)

\* record_status(succeeded=True)
RecordSuccess(j) ==
    IF j \notin Recorded THEN UNCHANGED status
    ELSE /\ row' = [row EXCEPT ![j] = "set"]
         /\ age' = [age EXCEPT ![j] = 0]
         /\ ticks' = [ticks EXCEPT ![j] = 0]

\* Variants: a failure clears the last success; it is stamped as one.
FailureClears(j) == row' = [i \in Recorded |-> IF i = j THEN "null" ELSE row[i]] /\ UNCHANGED <<age, ticks>>
FailureStamps(j) == /\ row' = [i \in Recorded |-> IF i = j THEN "set" ELSE row[i]]
                    /\ age' = [i \in Recorded |-> IF i = j THEN 0 ELSE age[i]]
                    /\ UNCHANGED ticks

\* record_status(succeeded=False) keeps last_success_at.
RecordFailure(j) ==
    /\ row' = [i \in Recorded |-> IF i = j /\ row[j] = "none" THEN "null" ELSE row[i]]
    /\ UNCHANGED <<age, ticks>>

----------------------------------------------------------------------------
(* executeJob, at a tick *)

Starts(j) ==
    /\ up /\ j \notin running
    /\ running' = running \cup {j}
    /\ \E p \in Pid : proc[p] = None
    /\ proc' = [proc EXCEPT ![CHOOSE p \in Pid : proc[p] = None] = Spawned(j)]
    /\ UNCHANGED up

\* The child's `error` event: there is no such command, and no child.
SpawnFails(j) ==
    /\ up /\ j \notin running
    /\ UNCHANGED <<up, running, proc>>

\* `previous run still in progress; skipping this tick`
Skips(j) == /\ up /\ j \in running
            /\ UNCHANGED <<up, running, proc>>

\* Nobody runs the cron.
NobodyTicks(j) == ~up /\ UNCHANGED <<up, running, proc>>

Tick(j) == /\ j \in due /\ due' = due \ {j}
           /\ ticks' = [i \in Recorded |-> IF i = j THEN Least(ticks[i] + 1, MaxTicks[i]) ELSE ticks[i]]
           /\ UNCHANGED <<since, row, age>>
           /\ (Starts(j) \/ SpawnFails(j) \/ Skips(j) \/ NobodyTicks(j))

----------------------------------------------------------------------------
(* The worker *)

Becomes(p, r) == proc' = [proc EXCEPT ![p] = r]
\* A process nobody waits for can do no more once its transaction is over.
Unawaited(r) == IF Alive(r) /\ r.outcome = "none" THEN r ELSE None
Kept(r) == IF r.own THEN r ELSE Unawaited(r)

\* The job's transaction commits, with its row in source_status.
Succeeds(p) == /\ Alive(proc[p]) /\ proc[p].outcome = "none"
               /\ Becomes(p, Kept([proc[p] EXCEPT !.outcome = "success"]))
               /\ RecordSuccess(proc[p].job)
               /\ UNCHANGED schedule

\* It raises, rolls back and records the failure; or it cannot even do that
\* (no configuration, no key, no database).
Fails(p) == /\ Alive(proc[p]) /\ proc[p].outcome = "none"
            /\ Becomes(p, Kept([proc[p] EXCEPT !.outcome = "failure"]))
            /\ (RecordFailure(proc[p].job) \/ UNCHANGED status)
            /\ UNCHANGED schedule

\* Variant: the command swallows the exception.
ExitsZero(p) == "zero"

\* The command's exit code.
ExitCode(p) == IF proc[p].outcome = "success" THEN "zero" ELSE "other"

Ended(p, code) == Becomes(p, Kept([proc[p] EXCEPT !.exit = code]))

Exits(p) == /\ Alive(proc[p]) /\ proc[p].outcome # "none"
            /\ Ended(p, ExitCode(p))
            /\ UNCHANGED <<schedule, status>>

\* No worker handles SIGTERM: it ends where it is.
Dies(p) == /\ Alive(proc[p]) /\ proc[p].term
           /\ Ended(p, "other")
           /\ UNCHANGED <<schedule, status>>

----------------------------------------------------------------------------
(* runJob, after the spawn *)

\* Variant: the timer only notes that it fired.
TimeoutNotes(p) == /\ Child(p) /\ proc[p].timer = "armed"
                   /\ Becomes(p, [proc[p] EXCEPT !.timer = "termed"])
                   /\ UNCHANGED <<schedule, status>>

\* setTimeout: timedOut, SIGTERM
Timeout(p) == /\ Child(p) /\ proc[p].timer = "armed"
              /\ Becomes(p, [proc[p] EXCEPT !.timer = "termed", !.term = TRUE])
              /\ UNCHANGED <<schedule, status>>

\* Five seconds later SIGKILL, which only `uv` receives.
Kill(p) == /\ Child(p) /\ proc[p].timer = "termed"
           /\ Becomes(p, [proc[p] EXCEPT !.timer = "killed"])
           /\ UNCHANGED <<schedule, status>>

\* Variant: `exit` in place of `close`: `uv` is gone.
HasExited(r) == ~Alive(r) \/ r.timer = "killed"

\* The `close` event: nobody holds the child's streams.
HasClosed(r) == ~Alive(r)

\* How the run is logged.
Outcome(r) == IF r.timer # "armed" THEN "killed"
              ELSE IF r.exit = "zero" THEN "finished" ELSE "failed"

\* finish, and the `finally` of executeJob.
Close(p) == /\ Child(p) /\ HasClosed(proc[p]) /\ proc[p].job \in running
            /\ running' = running \ {proc[p].job}
            /\ Becomes(p, Unawaited(proc[p]))
            /\ UNCHANGED <<up, due, since, status>>

----------------------------------------------------------------------------
(* The scheduler's own end, and time *)

\* Children that outlive their scheduler; `sig` says whether they got SIGTERM.
Orphaned(sig) ==
    [p \in Pid |-> IF Child(p)
                   THEN Unawaited([proc[p] EXCEPT !.own = FALSE, !.timer = "none", !.term = @ \/ sig])
                   ELSE proc[p]]

\* `sig`: stopped by PM2, which signals the process and all below it; else it
\* crashes.  The bound: the next scheduler must find a process for every job.
Stops(sig) == /\ up /\ up' = FALSE
              /\ Cardinality(Jobs) <= Cardinality({p \in Pid : Orphaned(sig)[p] = None})
              /\ running' = {}
              /\ proc' = Orphaned(sig)
              /\ UNCHANGED <<due, since, status>>

\* PM2 starts it, the first time and again.
Restarts == ~up /\ up' = TRUE /\ UNCHANGED <<running, due, since, proc, status>>

Falls(j) == since[j] + 1 = Period[j]
NextSlot == /\ due = {}
            /\ \A p \in Pid : Child(p) => proc[p].timer = "killed"
            /\ since' = [j \in Jobs |-> IF Falls(j) THEN 0 ELSE since[j] + 1]
            /\ due' = {j \in Jobs : Falls(j)}
            /\ age' = [j \in Recorded |-> IF row[j] = "set" THEN Least(age[j] + 1, Beyond(j)) ELSE 0]
            /\ UNCHANGED <<up, running, proc, row, ticks>>

ProcessStep(p) == Succeeds(p) \/ Fails(p) \/ Exits(p) \/ Dies(p)
ChildStep(p)   == Timeout(p) \/ Kill(p) \/ Close(p)
Next == \/ \E j \in Jobs : Tick(j)
        \/ \E p \in Pid : ProcessStep(p) \/ ChildStep(p)
        \/ \E sig \in BOOLEAN : Stops(sig)
        \/ Restarts
        \/ NextSlot

\* Timers fire, events are handled, a signalled process ends, and time goes
\* on.  No worker need ever end by itself, and no scheduler be started again.
Fairness == /\ \A j \in Jobs : WF_vars(Tick(j))
            /\ \A p \in Pid : WF_vars(Dies(p)) /\ WF_vars(ChildStep(p))
            /\ WF_vars(NextSlot)

Spec == Init /\ [][Next]_vars /\ Fairness

----------------------------------------------------------------------------
(* /health, while the database answers *)

TooStale(j) == row[j] = "null" \/ (row[j] = "set" /\ age[j] > Budget[j])
Health == IF \E j \in Recorded : TooStale(j) THEN "degraded"
          ELSE IF \A j \in Recorded : row[j] = "none" THEN "starting" ELSE "ok"

----------------------------------------------------------------------------
(* Properties *)

TypeOK ==
    /\ up \in BOOLEAN /\ running \subseteq Jobs /\ due \subseteq Jobs
    /\ since \in [Jobs -> Nat] /\ \A j \in Jobs : since[j] < Period[j]
    /\ proc \in [Pid -> {None} \cup Process]
    /\ row \in [Recorded -> {"none", "null", "set"}]
    /\ age \in [Recorded -> Nat] /\ ticks \in [Recorded -> Nat]

\* A scheduler never runs a job twice at once: as long as anything of a run is
\* alive, its name is taken and no other child has it.  What `running` is for,
\* through timeouts, kills that reach only `uv`, and restarts.
OneRunPerName ==
    \A p \in Pid : Child(p) /\ Alive(proc[p]) =>
        /\ proc[p].job \in running
        /\ \A q \in Pid \ {p} : Child(q) => proc[q].job # proc[p].job

\* A job reported as finished has committed: a failure, a hang or a kill is
\* never mistaken for a success.
FinishedHasCommitted ==
    \A p \in Pid : Child(p) /\ HasClosed(proc[p]) /\ Outcome(proc[p]) = "finished"
        => proc[p].outcome = "success"

\* A name is given back, though the worker may hang for ever: a poll that
\* never returns does not block every later one.
NameIsGivenBack == \A j \in Jobs : j \in running ~> j \notin running

\* A job is not called stale before it has missed as many ticks as its budget
\* covers, whatever was skipped, killed or orphaned, and whoever was down.
Covered(j) == (ticks[j] + 1) * Period[j] <= Budget[j]
BudgetCoversMisses == \A j \in Recorded : row[j] # "none" /\ Covered(j) => ~TooStale(j)

\* A job that has reported and then comes to nothing, tick after tick, is seen:
\* it succeeds again or /health is degraded.  A row, not silence.
SilenceIsSeen ==
    \A j \in Recorded : row[j] # "none" /\ ticks[j] > 0 ~> ticks[j] = 0 \/ Health = "degraded"
=============================================================================
