------------------------------ MODULE JobProofs ------------------------------
(***************************************************************************)
(* Proofs about the jobs: the scheduler that runs them, for any jobs,       *)
(* periods and budgets; and the client they fetch with, for every rate,     *)
(* ceiling, length of an hour, page size and number of rows.  The two       *)
(* specifications share no variable.                                        *)
(***************************************************************************)
EXTENDS Scheduler, Fetch, DataProofs, SequenceTheorems

-----------------------------------------------------------------------------
(* Scheduler. *)

\* A child's name is taken, and no other child has it; an exit code of zero
\* follows a commit.
ChildInv ==
    /\ \A p \in Pid : Child(p) => proc[p].job \in running
    /\ \A p, q \in Pid : Child(p) /\ Child(q) /\ p # q => proc[p].job # proc[q].job
    /\ \A p \in Pid : proc[p] # None /\ proc[p].exit = "zero" => proc[p].outcome = "success"

\* How far the ticks since the last success account for its age.
Accounted(j) == age[j] <= ticks[j] * Period[j] + since[j] + (IF j \in due THEN Period[j] ELSE 0)
AgeInv ==
    /\ \A j \in due : since[j] = 0
    /\ \A j \in Recorded :
          ticks[j] = MaxTicks[j] \/ (row[j] = "set" /\ ticks[j] < MaxTicks[j] /\ Accounted(j))

\* None is not taken for a process.
LEMMA NoneIsNone == None \notin Process
<1>1. \A r \in Process : r.own \in BOOLEAN /\ DOMAIN r = {"job", "own", "outcome", "exit", "timer", "term"}
  BY DEF Process
<1>2. DOMAIN None = {"job"}
  BY DEF None
<1>. QED BY <1>1, <1>2

\* Every step keeps the types.
LEMMA TypeStep == TypeOK /\ [Next]_vars => TypeOK'
<1>. SUFFICES ASSUME TypeOK, [Next]_vars PROVE TypeOK'
  OBVIOUS
<1>. USE SchedulerConstants DEF TypeOK
<1>1. ASSUME NEW j \in Jobs, Tick(j) PROVE TypeOK'
  <2>1. ticks' \in [Recorded -> Nat]
    BY <1>1 DEF Tick, Least
  <2>2. due' \subseteq Jobs /\ since' = since /\ row' = row /\ age' = age
    BY <1>1 DEF Tick
  <2>3. running' \subseteq Jobs /\ up' = up /\ proc' \in [Pid -> {None} \cup Process]
    <3>1. CASE Starts(j)
      <4>1. Spawned(j) \in Process
        BY DEF Spawned, Process
      <4>. QED BY <3>1, <4>1 DEF Starts, Process
    <3>2. CASE SpawnFails(j) \/ Skips(j) \/ NobodyTicks(j)
      BY <3>2 DEF SpawnFails, Skips, NobodyTicks, Process
    <3>. QED BY <1>1, <3>1, <3>2 DEF Tick
  <2>. QED BY <2>1, <2>2, <2>3 DEF Process
<1>2. ASSUME NEW p \in Pid, ProcessStep(p) \/ ChildStep(p) PROVE TypeOK'
  <2>1. proc[p] \in Process
    BY <1>2 DEF ProcessStep, ChildStep, Succeeds, Fails, Exits, Dies, Timeout, Kill, Close, Alive, Child, Process
  <2>2. up' = up /\ due' = due /\ since' = since /\ running' \subseteq Jobs
    BY <1>2 DEF ProcessStep, ChildStep, Succeeds, Fails, Exits, Dies, Timeout, Kill, Close, schedule
  <2>3. proc' \in [Pid -> {None} \cup Process]
    <3>1. \E r \in {None} \cup Process : proc' = [proc EXCEPT ![p] = r]
      BY <1>2, <2>1 DEF ProcessStep, ChildStep, Succeeds, Fails, Exits, Dies, Timeout, Kill, Close,
                        Becomes, Ended, Kept, Unawaited, ExitCode, Process
    <3>. QED BY <3>1 DEF Process
  <2>4. row' \in [Recorded -> {"none", "null", "set"}] /\ age' \in [Recorded -> Nat] /\ ticks' \in [Recorded -> Nat]
    BY <1>2 DEF ProcessStep, ChildStep, Succeeds, Fails, Exits, Dies, Timeout, Kill, Close,
                RecordSuccess, RecordFailure, status
  <2>. QED BY <2>2, <2>3, <2>4 DEF Process
<1>3. ASSUME NEW sig \in BOOLEAN, Stops(sig) PROVE TypeOK'
  <2>1. proc' \in [Pid -> {None} \cup Process]
    <3>1. ASSUME NEW p \in Pid, Child(p)
          PROVE  Unawaited([proc[p] EXCEPT !.own = FALSE, !.timer = "none", !.term = @ \/ sig]) \in {None} \cup Process
      <4>1. proc[p] \in Process
        BY <3>1 DEF Child, Process
      <4>2. [proc[p] EXCEPT !.own = FALSE, !.timer = "none", !.term = @ \/ sig] \in Process
        BY <4>1 DEF Process
      <4>. QED BY <4>2 DEF Unawaited
    <3>. QED BY <1>3, <3>1 DEF Stops, Orphaned, Process
  <2>. QED BY <1>3, <2>1 DEF Stops, status, Process
<1>4. CASE Restarts
  BY <1>4 DEF Restarts, status
<1>5. CASE NextSlot
  <2>1. age' \in [Recorded -> Nat]
    BY <1>5 DEF NextSlot, Least, Beyond
  <2>2. since' \in [Jobs -> Nat] /\ \A j \in Jobs : since'[j] < Period[j]
    <3>1. since' = [j \in Jobs |-> IF since[j] + 1 = Period[j] THEN 0 ELSE since[j] + 1]
      BY <1>5 DEF NextSlot, Falls
    <3>2. \A j \in Jobs : since[j] \in Nat /\ Period[j] \in Nat \ {0} /\ since[j] < Period[j]
      OBVIOUS
    <3>3. ASSUME NEW j \in Jobs PROVE since'[j] \in Nat /\ since'[j] < Period[j]
      <4>1. CASE since[j] + 1 = Period[j]
        BY <3>1, <3>2, <4>1
      <4>2. CASE since[j] + 1 # Period[j]
        <5>1. since'[j] = since[j] + 1
          BY <3>1, <4>2
        <5>2. \A a, b \in Nat : a < b /\ a + 1 # b => a + 1 \in Nat /\ a + 1 < b
          OBVIOUS
        <5>. QED BY <3>2, <4>2, <5>1, <5>2
      <4>. QED BY <4>1, <4>2
    <3>. QED BY <3>1, <3>3
  <2>. QED BY <1>5, <2>1, <2>2 DEF NextSlot
<1>6. CASE UNCHANGED vars
  BY <1>6 DEF vars
<1>. QED BY <1>1, <1>2, <1>3, <1>4, <1>5, <1>6 DEF Next

\* The initial state has the types.
LEMMA TypeInit == Init => TypeOK
<1>. SUFFICES ASSUME Init PROVE TypeOK
  OBVIOUS
<1>. USE SchedulerConstants DEF Init
<1>1. since \in [Jobs -> Nat] /\ \A j \in Jobs : since[j] < Period[j]
  OBVIOUS
<1>2. proc \in [Pid -> {None} \cup Process]
  OBVIOUS
<1>3. row \in [Recorded -> {"none", "null", "set"}] /\ age \in [Recorded -> Nat]
  OBVIOUS
<1>4. ticks \in [Recorded -> Nat]
  OBVIOUS
<1>5. up \in BOOLEAN /\ running \subseteq Jobs /\ due \subseteq Jobs
  OBVIOUS
<1>. QED BY <1>1, <1>2, <1>3, <1>4, <1>5 DEF TypeOK

\* The scheduler's state keeps its types.
THEOREM SchedulerTypeCorrect == Spec => []TypeOK
BY TypeInit, TypeStep, PTL DEF Spec

----------------------------------------------------------------------------

\* No step gives a child's name away, or to two children.
LEMMA ChildStepInv == TypeOK /\ ChildInv /\ [Next]_vars => ChildInv'
<1>. SUFFICES ASSUME TypeOK, ChildInv, [Next]_vars PROVE ChildInv'
  OBVIOUS
<1>. USE DEF TypeOK, ChildInv, Child
<1>1. ASSUME NEW j \in Jobs, Tick(j) PROVE ChildInv'
  <2>1. CASE Starts(j)
    <3>1. PICK p \in Pid : proc[p] = None /\ proc' = [proc EXCEPT ![p] = Spawned(j)]
      BY <2>1 DEF Starts
    <3>2. Spawned(j).job = j /\ Spawned(j).exit = "none"
      BY DEF Spawned
    <3>3. \A q \in Pid : Child(q)' => q = p \/ (Child(q) /\ proc'[q] = proc[q])
      BY <3>1
    <3>4. \A q \in Pid : Child(q) => proc[q].job # j
      BY <2>1 DEF Starts
    <3>5. \A q \in Pid : Child(q)' => proc'[q].job \in running'
      BY <2>1, <3>1, <3>2, <3>3 DEF Starts
    <3>6. \A q, s \in Pid : Child(q)' /\ Child(s)' /\ q # s => proc'[q].job # proc'[s].job
      BY <3>1, <3>2, <3>3, <3>4
    <3>7. \A q \in Pid : proc'[q] # None /\ proc'[q].exit = "zero" => proc'[q].outcome = "success"
      BY <3>1, <3>2
    <3>. QED BY <3>5, <3>6, <3>7
  <2>2. CASE SpawnFails(j) \/ Skips(j) \/ NobodyTicks(j)
    BY <2>2 DEF SpawnFails, Skips, NobodyTicks
  <2>. QED BY <1>1, <2>1, <2>2 DEF Tick
<1>2. ASSUME NEW p \in Pid, ProcessStep(p) \/ Timeout(p) \/ Kill(p) PROVE ChildInv'
  <2>1. proc[p] \in Process /\ running' = running
    BY <1>2 DEF ProcessStep, Succeeds, Fails, Exits, Dies, Timeout, Kill, Alive, schedule
  <2>2. PICK r \in {None} \cup Process :
          /\ proc' = [proc EXCEPT ![p] = r]
          /\ r # None => r.job = proc[p].job /\ r.own = proc[p].own
          /\ r # None /\ r.exit = "zero" => r.outcome = "success"
    <3>1. CASE Succeeds(p) \/ Fails(p)
      BY <3>1, <2>1 DEF Succeeds, Fails, Becomes, Kept, Unawaited, Alive, Process
    <3>2. CASE Exits(p) \/ Dies(p)
      BY <3>2, <2>1 DEF Exits, Dies, Ended, ExitCode, Becomes, Kept, Unawaited, Alive, Process
    <3>3. CASE Timeout(p)
      <4>. DEFINE r == [proc[p] EXCEPT !.timer = "termed", !.term = TRUE]
      <4>1. r \in Process /\ r.job = proc[p].job /\ r.own = proc[p].own
            /\ r.exit = proc[p].exit /\ r.outcome = proc[p].outcome
        BY <2>1 DEF Process
      <4>2. proc' = [proc EXCEPT ![p] = r] /\ proc[p] # None
        BY <3>3 DEF Timeout, Becomes
      <4>. HIDE DEF r
      <4>. QED BY <4>1, <4>2
    <3>4. CASE Kill(p)
      <4>. DEFINE r == [proc[p] EXCEPT !.timer = "killed"]
      <4>1. r \in Process /\ r.job = proc[p].job /\ r.own = proc[p].own
            /\ r.exit = proc[p].exit /\ r.outcome = proc[p].outcome
        BY <2>1 DEF Process
      <4>2. proc' = [proc EXCEPT ![p] = r] /\ proc[p] # None
        BY <3>4 DEF Kill, Becomes
      <4>. HIDE DEF r
      <4>. QED BY <4>1, <4>2
    <3>. QED BY <1>2, <3>1, <3>2, <3>3, <3>4 DEF ProcessStep
  <2>3. \A q \in Pid : Child(q)' => Child(q) /\ proc'[q].job = proc[q].job
    BY <2>1, <2>2, NoneIsNone
  <2>. QED BY <2>1, <2>2, <2>3
<1>3. ASSUME NEW p \in Pid, Close(p) PROVE ChildInv'
  <2>1. proc' = [proc EXCEPT ![p] = None] /\ running' = running \ {proc[p].job}
    BY <1>3 DEF Close, HasClosed, Unawaited, Becomes
  <2>. QED BY <1>3, <2>1 DEF Close
<1>4. ASSUME NEW sig \in BOOLEAN, Stops(sig) PROVE ChildInv'
  <2>1. \A p \in Pid : ~ Child(p)'
    <3>. SUFFICES ASSUME NEW p \in Pid PROVE ~ Child(p)'
      OBVIOUS
    <3>1. CASE Child(p)
      <4>1. proc[p] \in Process
        BY <3>1
      <4>2. ([proc[p] EXCEPT !.own = FALSE, !.timer = "none", !.term = @ \/ sig]).own = FALSE
        BY <4>1 DEF Process
      <4>. QED BY <1>4, <3>1, <4>2 DEF Stops, Orphaned, Unawaited
    <3>2. CASE ~ Child(p)
      BY <1>4, <3>2 DEF Stops, Orphaned
    <3>. QED BY <3>1, <3>2
  <2>2. \A p \in Pid : proc'[p] # None /\ proc'[p].exit = "zero" => proc'[p].outcome = "success"
    <3>. SUFFICES ASSUME NEW p \in Pid, proc'[p] # None, proc'[p].exit = "zero" PROVE proc'[p].outcome = "success"
      OBVIOUS
    <3>1. CASE Child(p)
      BY <1>4, <3>1 DEF Stops, Orphaned, Unawaited, Alive
    <3>2. CASE ~ Child(p)
      BY <1>4, <3>2 DEF Stops, Orphaned
    <3>. QED BY <3>1, <3>2
  <2>. QED BY <2>1, <2>2
<1>5. CASE Restarts \/ NextSlot \/ UNCHANGED vars
  BY <1>5 DEF Restarts, NextSlot, vars
<1>. QED BY <1>1, <1>2, <1>3, <1>4, <1>5 DEF Next, ChildStep

\* However ticks, timeouts, kills and restarts fall, a scheduler has no two
\* live processes of one job, and the name of each is taken.
THEOREM NameHeld == Spec => []OneRunPerName
<1>1. Init => ChildInv
  BY DEF Init, ChildInv, Child
<1>2. ChildInv => OneRunPerName
  BY DEF ChildInv, OneRunPerName
<1>. QED BY <1>1, <1>2, TypeInit, TypeStep, ChildStepInv, PTL DEF Spec

\* A run reported as finished has committed.
THEOREM FinishedCommitted == Spec => []FinishedHasCommitted
<1>1. Init => ChildInv
  BY DEF Init, ChildInv, Child
<1>2. ChildInv => FinishedHasCommitted
  BY DEF ChildInv, FinishedHasCommitted, Outcome, Child
<1>. QED BY <1>1, <1>2, TypeInit, TypeStep, ChildStepInv, PTL DEF Spec

----------------------------------------------------------------------------

\* One more tick accounts for one more period.
LEMMA OneMorePeriod == \A t, p \in Nat : (t + 1) * p = t * p + p /\ t * p \in Nat
  OBVIOUS

\* Every step keeps the account of a job's age.
LEMMA AgeStepInv == TypeOK /\ AgeInv /\ [Next]_vars => AgeInv'
<1>. SUFFICES ASSUME TypeOK, AgeInv, [Next]_vars PROVE AgeInv'
  OBVIOUS
<1>. USE SchedulerConstants DEF TypeOK
<1>1. ASSUME NEW i \in Jobs, Tick(i) PROVE AgeInv'
  <2>1. \A j \in due' : since'[j] = 0
    BY <1>1 DEF Tick, AgeInv
  <2>2. ASSUME NEW j \in Recorded, ticks'[j] # MaxTicks[j]
        PROVE  row'[j] = "set" /\ ticks'[j] < MaxTicks[j] /\ Accounted(j)'
    <3>1. CASE j = i
      <4>1. ticks[j] \in Nat /\ MaxTicks[j] \in Nat /\ ticks'[j] = Least(ticks[j] + 1, MaxTicks[j])
        BY <1>1, <3>1 DEF Tick
      <4>2. (ticks[j] # MaxTicks[j] => ticks[j] < MaxTicks[j]) /\ ticks[j] # MaxTicks[j]
        BY <4>1, <2>2 DEF AgeInv, Least
      <4>3. ticks'[j] = ticks[j] + 1 /\ ticks'[j] < MaxTicks[j]
        BY <4>1, <4>2, <2>2 DEF Least
      <4>4. j \in due /\ since[j] = 0 /\ j \notin due' /\ since'[j] = since[j] /\ age'[j] = age[j] /\ row'[j] = row[j]
        BY <1>1, <3>1 DEF Tick, AgeInv
      <4>5. row[j] = "set" /\ age[j] <= ticks[j] * Period[j] + Period[j]
        <5>1. row[j] = "set" /\ Accounted(j)
          BY <4>2 DEF AgeInv
        <5>2. ticks[j] * Period[j] \in Nat /\ Period[j] \in Nat
          BY <4>1, OneMorePeriod
        <5>. QED BY <5>1, <5>2, <4>4 DEF Accounted
      <4>6. ticks'[j] * Period[j] = ticks[j] * Period[j] + Period[j] /\ ticks'[j] * Period[j] \in Nat
        <5>1. Period[j] \in Nat
          OBVIOUS
        <5>2. (ticks[j] + 1) * Period[j] = ticks[j] * Period[j] + Period[j] /\ ticks[j] * Period[j] \in Nat
          BY <4>1, <5>1, OneMorePeriod
        <5>3. ticks'[j] * Period[j] = ticks[j] * Period[j] + Period[j]
          BY <4>3, <5>2
        <5>. QED BY <5>1, <5>2, <5>3
      <4>7. age'[j] <= ticks'[j] * Period[j]
        <5>1. age'[j] = age[j]
          BY <4>4
        <5>. QED BY <4>5, <4>6, <5>1
      <4>8. ticks'[j] * Period[j] + since'[j] + (IF j \in due' THEN Period[j] ELSE 0) = ticks'[j] * Period[j]
        <5>1. (IF j \in due' THEN Period[j] ELSE 0) = 0 /\ since'[j] = 0
          BY <4>4
        <5>2. \A n \in Nat : n + 0 + 0 = n
          OBVIOUS
        <5>. QED BY <4>6, <5>1, <5>2
      <4>9. Accounted(j)'
        BY <4>7, <4>8 DEF Accounted
      <4>. QED BY <4>3, <4>4, <4>5, <4>9
    <3>2. CASE j # i
      <4>1. ticks'[j] = ticks[j] /\ age'[j] = age[j] /\ row'[j] = row[j] /\ since' = since /\ (j \in due' <=> j \in due)
        BY <1>1, <3>2 DEF Tick
      <4>. QED BY <4>1, <2>2 DEF AgeInv, Accounted
    <3>. QED BY <3>1, <3>2
  <2>. QED BY <2>1, <2>2 DEF AgeInv
<1>2. ASSUME due' = due, since' = since, UNCHANGED status PROVE AgeInv'
  BY <1>2 DEF AgeInv, Accounted, status
<1>3. ASSUME NEW p \in Pid, ProcessStep(p) \/ ChildStep(p) PROVE AgeInv'
  <2>1. proc[p].job \in Jobs /\ due' = due /\ since' = since
    BY <1>3 DEF ProcessStep, ChildStep, Succeeds, Fails, Exits, Dies, Timeout, Kill, Close, Alive, Child, Process, schedule
  <2>2. CASE UNCHANGED status
    BY <1>2, <2>1, <2>2
  <2>3. CASE Succeeds(p) /\ proc[p].job \in Recorded
    <3>. DEFINE i == proc[p].job
    <3>1. /\ row' = [row EXCEPT ![i] = "set"] /\ age' = [age EXCEPT ![i] = 0]
          /\ ticks' = [ticks EXCEPT ![i] = 0]
      BY <2>3 DEF Succeeds, RecordSuccess
    <3>. HIDE DEF i
    <3>2. ASSUME NEW j \in Recorded, ticks'[j] # MaxTicks[j]
          PROVE  row'[j] = "set" /\ ticks'[j] < MaxTicks[j] /\ Accounted(j)'
      <4>1. CASE j = i
        <5>1. row'[j] = "set" /\ age'[j] = 0 /\ ticks'[j] = 0
          BY <3>1, <4>1
        <5>2. MaxTicks[j] \in Nat /\ since[j] \in Nat /\ Period[j] \in Nat /\ 0 * Period[j] = 0
          OBVIOUS
        <5>. QED BY <5>1, <5>2, <2>1, <3>2 DEF Accounted
      <4>2. CASE j # i
        <5>1. row'[j] = row[j] /\ age'[j] = age[j] /\ ticks'[j] = ticks[j]
          BY <3>1, <4>2
        <5>. QED BY <5>1, <2>1, <3>2 DEF AgeInv, Accounted
      <4>. QED BY <4>1, <4>2
    <3>. QED BY <3>2, <2>1 DEF AgeInv
  <2>4. CASE Fails(p) /\ RecordFailure(proc[p].job)
    <3>1. /\ age' = age /\ ticks' = ticks
          /\ \A j \in Recorded : row[j] = "set" => row'[j] = "set"
      BY <2>4 DEF RecordFailure
    <3>. QED BY <3>1, <2>1 DEF AgeInv, Accounted
  <2>. QED BY <1>3, <2>2, <2>3, <2>4 DEF ProcessStep, ChildStep, Succeeds, Fails, Exits, Dies, Timeout, Kill, Close,
                                   RecordSuccess
<1>4. CASE NextSlot
  <2>1. /\ since' = [j \in Jobs |-> IF since[j] + 1 = Period[j] THEN 0 ELSE since[j] + 1]
        /\ due' = {j \in Jobs : since[j] + 1 = Period[j]}
    BY <1>4 DEF NextSlot, Falls
  <2>2. ASSUME NEW j \in Recorded, ticks'[j] # MaxTicks[j]
        PROVE  row'[j] = "set" /\ ticks'[j] < MaxTicks[j] /\ Accounted(j)'
    <3>1. ticks'[j] = ticks[j] /\ row'[j] = row[j] /\ j \notin due
      BY <1>4 DEF NextSlot
    <3>2. row[j] = "set" /\ ticks[j] < MaxTicks[j] /\ age[j] <= ticks[j] * Period[j] + since[j]
      <4>1. row[j] = "set" /\ ticks[j] < MaxTicks[j] /\ Accounted(j)
        BY <3>1, <2>2 DEF AgeInv
      <4>2. ticks[j] * Period[j] \in Nat /\ since[j] \in Nat
        BY OneMorePeriod
      <4>. QED BY <3>1, <4>1, <4>2 DEF Accounted
    <3>3. age'[j] <= age[j] + 1 /\ age'[j] \in Nat /\ age[j] \in Nat
      BY <1>4, <3>2 DEF NextSlot, Least, Beyond
    <3>4. since'[j] + (IF j \in due' THEN Period[j] ELSE 0) = since[j] + 1
      <4>1. since[j] \in Nat /\ Period[j] \in Nat
        OBVIOUS
      <4>. QED BY <2>1, <4>1
    <3>5. ticks[j] * Period[j] \in Nat /\ since[j] \in Nat /\ since'[j] \in Nat /\ Period[j] \in Nat
      BY <2>1, OneMorePeriod
    <3>6. age'[j] <= ticks[j] * Period[j] + (since'[j] + (IF j \in due' THEN Period[j] ELSE 0))
      BY <3>2, <3>3, <3>4, <3>5
    <3>7. Accounted(j)'
      BY <3>1, <3>5, <3>6 DEF Accounted
    <3>. QED BY <3>1, <3>2, <3>7
  <2>. QED BY <2>1, <2>2 DEF AgeInv
<1>5. ASSUME NEW sig \in BOOLEAN, Stops(sig) PROVE AgeInv'
  BY <1>2, <1>5 DEF Stops
<1>6. CASE Restarts \/ UNCHANGED vars
  BY <1>2, <1>6 DEF Restarts, vars, status
<1>. QED BY <1>1, <1>3, <1>4, <1>5, <1>6 DEF Next

\* What the account is for.
LEMMA AccountCovers == TypeOK /\ AgeInv => BudgetCoversMisses
<1>. SUFFICES ASSUME TypeOK, AgeInv, NEW j \in Recorded, row[j] # "none", Covered(j)
              PROVE  ~ TooStale(j)
  BY DEF BudgetCoversMisses
<1>. USE SchedulerConstants DEF TypeOK
<1>1. /\ ticks[j] \in Nat /\ Period[j] \in Nat /\ Budget[j] \in Nat /\ MaxTicks[j] \in Nat
      /\ age[j] \in Nat /\ since[j] \in Nat /\ since[j] < Period[j]
  OBVIOUS
<1>2. (ticks[j] + 1) * Period[j] = ticks[j] * Period[j] + Period[j] /\ ticks[j] * Period[j] \in Nat
  BY <1>1, OneMorePeriod
<1>3. ticks[j] # MaxTicks[j]
  BY <1>1 DEF Covered
<1>4. row[j] = "set" /\ Accounted(j) /\ (j \in due => since[j] = 0)
  BY <1>3 DEF AgeInv
<1>5. age[j] <= ticks[j] * Period[j] + Period[j]
  BY <1>1, <1>2, <1>4 DEF Accounted
<1>. QED BY <1>1, <1>2, <1>4, <1>5 DEF TooStale, Covered

\* For any periods and budgets: /health calls no job stale that has not missed
\* as many ticks as its budget covers.
THEOREM BudgetIsMisses == Spec => []BudgetCoversMisses
<1>1. Init => AgeInv
  BY DEF Init, AgeInv
<1>. QED BY <1>1, AccountCovers, TypeInit, TypeStep, AgeStepInv, PTL DEF Spec

-----------------------------------------------------------------------------
(* The limiter keeps its promises whatever the client that uses it does; and an answer whose
   pages belong together is complete, so that numbers once stored are kept. *)

\* Requests are stamped in the order of time.
InOrder == /\ \A i, j \in 1..Len(sent) : i <= j => sent[i] <= sent[j]
           /\ \A i \in 1..Len(sent) : sent[i] <= clock

\* A deque q holds the newest of the stamps s, and whatever it has dropped is, at
\* time t, a span ago.
Remembers(q, s, t, span) ==
    /\ q \in Seq(Nat) /\ Len(q) <= Len(s)
    /\ \A i \in 1..Len(q) : q[i] = s[Len(s) - Len(q) + i]
    /\ \A i \in 1..(Len(s) - Len(q)) : t - s[i] >= span

Recalls(q, span) == Remembers(q, sent, clock, span)

LimiterInv ==
    /\ LimiterTypeOK
    /\ InOrder
    /\ Recalls(hourly, Hour) /\ Recalls(recent, Second)
    /\ pc \in {"pace", "stamp"} => Len(hourly) < per_hour
    /\ pc = "stamp" => Len(recent) < per_second
    /\ HourlyCeiling /\ PacePerSecond

-----------------------------------------------------------------------------
(* The deques.                                                             *)

\* What is left of a deque is its end, from the first stamp that is not too old.
LEMMA ExpiredIsTail ==
    ASSUME NEW q \in Seq(Nat), NEW span \in Nat, NEW rest, Expired(q, span, rest)
    PROVE  \E k \in 0..Len(q) :
             /\ \A i \in 1..k : clock - q[i] >= span
             /\ rest \in Seq(Nat) /\ Len(rest) = Len(q) - k
             /\ \A i \in 1..Len(rest) : rest[i] = q[k + i]
             /\ Len(rest) > 0 => clock - rest[1] < span
<1>1. PICK k \in 0..Len(q) : /\ \A i \in 1..k : clock - q[i] >= span
                             /\ k < Len(q) => clock - q[k + 1] < span
                             /\ rest = SubSeq(q, k + 1, Len(q))
    BY DEF Expired
<1>2. Len(q) \in Nat /\ k \in Nat
    OBVIOUS
<1>3. rest \in Seq(Nat) /\ Len(rest) = Len(q) - k /\ \A i \in 1..Len(rest) : rest[i] = q[k + i]
    <2>1. \A i \in (k + 1)..Len(q) : q[i] \in Nat
        BY <1>2
    <2>2. Len(q) - (k + 1) + 1 = Len(q) - k /\ (k + 1 <= Len(q) <=> k # Len(q))
        BY <1>2
    <2>3. /\ rest \in Seq(Nat)
          /\ Len(rest) = IF k + 1 <= Len(q) THEN Len(q) - (k + 1) + 1 ELSE 0
          /\ \A i \in 1..(Len(q) - (k + 1) + 1) : rest[i] = q[(k + 1) + i - 1]
        BY <1>1, <1>2, <2>1, SubSeqProperties
    <2>4. Len(rest) = Len(q) - k
        <3>1. CASE k + 1 <= Len(q)
            BY <3>1, <2>2, <2>3
        <3>2. CASE ~ (k + 1 <= Len(q))
            <4>1. k = Len(q) /\ Len(rest) = 0
                BY <3>2, <2>2, <2>3
            <4> QED BY <4>1, <1>2
        <3> QED BY <3>1, <3>2
    <2>5. \A i \in 1..Len(rest) : (k + 1) + i - 1 = k + i
        OBVIOUS
    <2> QED BY <2>2, <2>3, <2>4, <2>5
<1>4. Len(rest) > 0 => clock - rest[1] < span
    <2> SUFFICES ASSUME Len(rest) > 0 PROVE clock - rest[1] < span
        OBVIOUS
    <2>1. 1 \in 1..Len(rest) /\ k < Len(q)
        BY <1>2, <1>3
    <2>2. rest[1] = q[k + 1] /\ clock - q[k + 1] < span
        BY <2>1, <1>1, <1>3
    <2> QED BY <2>2
<1> QED BY <1>1, <1>3, <1>4

\* Dropping what is too old loses nothing a deque is there for.
LEMMA ExpiredRecalls ==
    ASSUME LimiterTypeOK, NEW q, NEW span \in Nat, NEW rest,
           Recalls(q, span), Expired(q, span, rest)
    PROVE  Recalls(rest, span)
<1>2. q \in Seq(Nat) /\ sent \in Seq(Nat) /\ Len(q) \in Nat /\ Len(sent) \in Nat /\ Len(q) <= Len(sent)
    BY DEF Recalls, Remembers, LimiterTypeOK
<1>1. PICK k \in 0..Len(q) :
        /\ \A i \in 1..k : clock - q[i] >= span
        /\ rest \in Seq(Nat) /\ Len(rest) = Len(q) - k
        /\ \A i \in 1..Len(rest) : rest[i] = q[k + i]
        /\ Len(rest) > 0 => clock - rest[1] < span
    BY <1>2, ExpiredIsTail, Zenon
<1>3. rest \in Seq(Nat) /\ Len(rest) = Len(q) - k /\ \A i \in 1..Len(rest) : rest[i] = q[k + i]
    BY <1>1
<1>4. \A i \in 1..Len(rest) : rest[i] = sent[Len(sent) - Len(rest) + i]
    <2> SUFFICES ASSUME NEW i \in 1..Len(rest) PROVE rest[i] = sent[Len(sent) - Len(rest) + i]
        OBVIOUS
    <2>1. k + i \in 1..Len(q) /\ Len(sent) - Len(q) + (k + i) = Len(sent) - Len(rest) + i
        BY <1>2, <1>3
    <2> QED BY <2>1, <1>3 DEF Recalls, Remembers
<1>5. \A i \in 1..(Len(sent) - Len(rest)) : clock - sent[i] >= span
    <2> SUFFICES ASSUME NEW i \in 1..(Len(sent) - Len(rest)) PROVE clock - sent[i] >= span
        OBVIOUS
    <2>1. CASE i <= Len(sent) - Len(q)
        BY <2>1, <1>2 DEF Recalls, Remembers
    <2>2. CASE i > Len(sent) - Len(q)
        <3> DEFINE m == i - (Len(sent) - Len(q))
        <3>1. m \in 1..k /\ m \in 1..Len(q) /\ Len(sent) - Len(q) + m = i
            BY <2>2, <1>2, <1>3
        <3>2. q[m] = sent[i]
            BY <3>1 DEF Recalls, Remembers
        <3> QED BY <3>1, <3>2, <1>1
    <2> QED BY <2>1, <2>2, <1>2, <1>3
<1> QED BY <1>2, <1>3, <1>4, <1>5 DEF Recalls, Remembers

\* A deque with room for one more is a promise that the request before the last n is
\* a span ago: the request can be stamped now, whatever the time is by now.
LEMMA RoomSpreads ==
    ASSUME LimiterTypeOK, NEW q, NEW span \in Nat, NEW n \in Nat,
           Recalls(q, span), Len(q) < n, Spread(n, span), sent' = Append(sent, clock)
    PROVE  Spread(n, span)'
<1>1. sent \in Seq(Nat) /\ clock \in Nat /\ Len(sent) \in Nat /\ q \in Seq(Nat) /\ Len(q) \in Nat
    BY DEF LimiterTypeOK, Recalls, Remembers
<1>2. /\ Len(sent') = Len(sent) + 1
      /\ sent'[Len(sent) + 1] = clock
      /\ \A i \in 1..Len(sent) : sent'[i] = sent[i]
    BY <1>1
<1> SUFFICES ASSUME NEW i \in 1..Len(sent'), NEW j \in 1..Len(sent'), i + n <= j
             PROVE  sent'[j] - sent'[i] >= span
    BY DEF Spread
<1>3. CASE j <= Len(sent)
    <2>1. i \in 1..Len(sent) /\ j \in 1..Len(sent)
        BY <1>1, <1>2, <1>3
    <2> QED BY <2>1, <1>2 DEF Spread
<1>4. CASE j = Len(sent) + 1
    <2>1. i \in 1..(Len(sent) - Len(q)) /\ i \in 1..Len(sent)
        BY <1>1, <1>2, <1>4
    <2>2. clock - sent[i] >= span
        BY <2>1 DEF Recalls, Remembers
    <2> QED BY <2>1, <2>2, <1>2, <1>4
<1>5. j <= Len(sent) \/ j = Len(sent) + 1
    <2>1. Len(sent) \in Nat /\ Len(sent') = Len(sent) + 1
        BY <1>1, <1>2
    <2>2. j \in 1..(Len(sent) + 1)
        BY <2>1
    <2> QED BY <2>1, <2>2
<1> QED BY <1>3, <1>4, <1>5

\* A stamp goes into both deques and the history.
LEMMA StampRemembers ==
    ASSUME NEW s \in Seq(Nat), NEW t \in Nat, NEW span \in Nat, NEW q \in Seq(Nat),
           Remembers(q, s, t, span)
    PROVE  Remembers(Append(q, t), Append(s, t), t, span)
<1> DEFINE p == Append(q, t)
           z == Append(s, t)
<1>1. /\ Len(z) = Len(s) + 1 /\ z[Len(s) + 1] = t
      /\ \A i \in 1..Len(s) : z[i] = s[i]
    OBVIOUS
<1>2. /\ p \in Seq(Nat) /\ Len(p) = Len(q) + 1 /\ p[Len(q) + 1] = t
      /\ \A i \in 1..Len(q) : p[i] = q[i]
    OBVIOUS
<1>3. Len(q) \in Nat /\ Len(s) \in Nat /\ Len(q) <= Len(s)
    BY DEF Remembers
<1> HIDE DEF p, z
<1>4. ASSUME NEW i \in 1..Len(p) PROVE p[i] = z[Len(z) - Len(p) + i]
    <2>1. Len(z) - Len(p) + i = Len(s) - Len(q) + i
        BY <1>1, <1>2, <1>3
    <2>2. CASE i <= Len(q)
        <3>1. i \in 1..Len(q) /\ Len(s) - Len(q) + i \in 1..Len(s)
            BY <2>2, <1>2, <1>3
        <3> QED BY <3>1, <2>1, <1>1, <1>2 DEF Remembers
    <2>3. CASE i = Len(q) + 1
        <3>1. Len(s) - Len(q) + i = Len(s) + 1
            BY <2>3, <1>3
        <3> QED BY <3>1, <2>1, <2>3, <1>1, <1>2
    <2>4. i <= Len(q) \/ i = Len(q) + 1
        BY <1>2, <1>3
    <2> QED BY <2>2, <2>3, <2>4
<1>5. ASSUME NEW i \in 1..(Len(z) - Len(p)) PROVE t - z[i] >= span
    <2>1. i \in 1..(Len(s) - Len(q)) /\ i \in 1..Len(s)
        BY <1>1, <1>2, <1>3
    <2> QED BY <2>1, <1>1 DEF Remembers
<1>6. Len(p) <= Len(z)
    BY <1>1, <1>2, <1>3
<1>7. Remembers(p, z, t, span)
    BY <1>2, <1>4, <1>5, <1>6 DEF Remembers
<1> QED BY <1>7 DEF p, z

\* Time only makes the forgotten stamps older.
LEMMA LaterRemembers ==
    ASSUME NEW s \in Seq(Nat), NEW t \in Nat, NEW t2 \in Nat, t <= t2,
           NEW span \in Nat, NEW q, Remembers(q, s, t, span)
    PROVE  Remembers(q, s, t2, span)
<1> SUFFICES ASSUME NEW i \in 1..(Len(s) - Len(q)) PROVE t2 - s[i] >= span
    BY DEF Remembers
<1>1. t - s[i] >= span
    BY DEF Remembers
<1>2. Len(q) \in Nat /\ Len(s) \in Nat
    BY DEF Remembers
<1>3. s[i] \in Nat
    BY <1>2
<1> QED BY <1>1, <1>3

-----------------------------------------------------------------------------
(* The limiter's part of a step.                                           *)

\* Between two requests only time passes, and the deques drop what is too old.
LEMMA QuietStep ==
    ASSUME LimiterInv, sent' = sent, clock' \in Nat, clock <= clock',
           Recalls(hourly', Hour), Recalls(recent', Second),
           per_second' = per_second, per_hour' = per_hour,
           pc' \in {"pace", "stamp"} => Len(hourly') < per_hour,
           pc' = "stamp" => Len(recent') < per_second
    PROVE  LimiterInv'
<1>1. sent \in Seq(Nat) /\ clock \in Nat
    BY DEF LimiterInv, LimiterTypeOK
<1>2. LimiterTypeOK'
    BY DEF LimiterInv, LimiterTypeOK, Recalls, Remembers
<1>3. \A i \in 1..Len(sent) : sent[i] \in Nat
    BY <1>1
<1>4. InOrder'
    <2>1. \A i \in 1..Len(sent) : sent[i] <= clock'
        BY <1>1, <1>3 DEF LimiterInv, InOrder
    <2> QED BY <2>1 DEF LimiterInv, InOrder
<1>6. Recalls(hourly, Hour)' /\ Recalls(recent, Second)'
    BY <1>1, LaterRemembers, RateLimiterConstants DEF Recalls
<1>7. HourlyCeiling' /\ PacePerSecond'
    BY DEF LimiterInv, HourlyCeiling, PacePerSecond, Spread
<1> QED BY <1>2, <1>4, <1>6, <1>7 DEF LimiterInv

\* A request is stamped: both deques had room.
LEMMA SendKeeps ==
    ASSUME LimiterInv, Send
    PROVE  LimiterInv'
<1>1. /\ pc = "stamp" /\ pc' = "sent"
      /\ sent' = Append(sent, clock)
      /\ hourly' = Append(hourly, clock) /\ recent' = Append(recent, clock)
      /\ clock' = clock /\ per_second' = per_second /\ per_hour' = per_hour
    BY DEF Send, Stamp
<1>2. /\ LimiterTypeOK /\ InOrder /\ HourlyCeiling /\ PacePerSecond
      /\ Recalls(hourly, Hour) /\ Recalls(recent, Second)
      /\ Len(hourly) < per_hour /\ Len(recent) < per_second
    BY <1>1 DEF LimiterInv
<1>3. /\ sent \in Seq(Nat) /\ hourly \in Seq(Nat) /\ recent \in Seq(Nat) /\ clock \in Nat
      /\ per_second \in Nat \ {0} /\ per_hour \in Nat
    BY <1>2 DEF LimiterTypeOK
<1>4. LimiterTypeOK'
    BY <1>1, <1>3 DEF LimiterTypeOK
<1>5. InOrder'
    <2>1. /\ Len(sent') = Len(sent) + 1 /\ Len(sent) \in Nat
          /\ sent'[Len(sent) + 1] = clock
          /\ \A i \in 1..Len(sent) : sent'[i] = sent[i] /\ sent[i] <= clock
        BY <1>1, <1>2, <1>3 DEF InOrder
    <2>2. \A i \in 1..Len(sent') : i \in 1..Len(sent) \/ i = Len(sent) + 1
        BY <2>1
    <2>3. \A i \in 1..Len(sent') : sent'[i] <= clock'
        BY <2>1, <2>2, <1>1, <1>3
    <2>4. ASSUME NEW i \in 1..Len(sent'), NEW j \in 1..Len(sent'), i <= j
          PROVE  sent'[i] <= sent'[j]
        <3>1. CASE j \in 1..Len(sent)
            <4>1. i \in 1..Len(sent)
                BY <3>1, <2>1, <2>4
            <4> QED BY <4>1, <3>1, <2>1, <2>4, <1>2 DEF InOrder
        <3>2. CASE j = Len(sent) + 1
            BY <3>2, <2>1, <2>3, <1>1
        <3> QED BY <3>1, <3>2, <2>2
    <2> QED BY <2>3, <2>4 DEF InOrder
<1>6. Recalls(hourly, Hour)' /\ Recalls(recent, Second)'
    BY <1>1, <1>2, <1>3, StampRemembers, RateLimiterConstants DEF Recalls
<1>7. HourlyCeiling' /\ PacePerSecond'
    <2>1. Spread(per_hour, Hour) /\ Spread(per_second, Second)
        BY <1>2 DEF HourlyCeiling, PacePerSecond
    <2>2. Spread(per_hour, Hour)' /\ Spread(per_second, Second)'
        BY <2>1, <1>1, <1>2, <1>3, RoomSpreads, RateLimiterConstants
    <2> QED BY <2>2, <1>1 DEF HourlyCeiling, PacePerSecond
<1> QED BY <1>1, <1>4, <1>5, <1>6, <1>7 DEF LimiterInv
\* A limiter that has sent nothing.
LEMMA LimiterInvInit == FetchInit => LimiterInv
<1> SUFFICES ASSUME FetchInit PROVE LimiterInv
    OBVIOUS
<1>1. clock = 0 /\ sent = <<>> /\ hourly = <<>> /\ recent = <<>> /\ pc = "ended"
    BY DEF FetchInit
<1>2. LimiterTypeOK
    BY <1>1, FetchConstants DEF FetchInit, LimiterTypeOK
<1>3. Recalls(hourly, Hour) /\ Recalls(recent, Second)
    BY <1>1 DEF Recalls, Remembers
<1> QED BY <1>1, <1>2, <1>3 DEF LimiterInv, InOrder, HourlyCeiling, PacePerSecond, Spread

\* A new process has a limiter that remembers nothing.
LEMMA StartProcessKeeps ==
    ASSUME LimiterInv, StartProcess
    PROVE  LimiterInv'
<1>1. clock' = clock /\ sent' = <<>> /\ hourly' = <<>> /\ recent' = <<>> /\ pc' = "idle"
    BY DEF StartProcess, NewLimiter
<1>2. per_second' \in Nat \ {0} /\ per_hour' \in Nat
    <2>1. BackfillPerHour \in Nat /\ Hour \div Second \in Nat /\ Hour \div Second # 0
        BY FetchConstants, RateLimiterConstants
    <2>2. SustainableRate(BackfillPerHour) \in Nat \ {0}
        <3> DEFINE w == Hour \div Second
                   r == BackfillPerHour \div w
        <3>1. r \in Nat
            BY <2>1
        <3> HIDE DEF r
        <3>2. (IF r < 1 THEN 1 ELSE r) \in Nat \ {0}
            BY <3>1
        <3> QED BY <3>2 DEF SustainableRate, r
    <2> QED BY <2>1, <2>2, FetchConstants DEF StartProcess, NewLimiter
<1>3. LimiterTypeOK'
    BY <1>1, <1>2 DEF LimiterTypeOK, LimiterInv
<1>4. Recalls(hourly, Hour)' /\ Recalls(recent, Second)'
    BY <1>1 DEF Recalls, Remembers
<1> QED BY <1>1, <1>3, <1>4 DEF LimiterInv, InOrder, HourlyCeiling, PacePerSecond, Spread

\* Every step of the client keeps the limiter's invariant.
LEMMA LimiterInvStep == LimiterInv /\ [FetchNext]_fetchVars => LimiterInv'
<1> SUFFICES ASSUME LimiterInv, [FetchNext]_fetchVars PROVE LimiterInv'
    OBVIOUS
<1>1. /\ LimiterTypeOK /\ clock \in Nat
      /\ Recalls(hourly, Hour) /\ Recalls(recent, Second)
    BY DEF LimiterInv, LimiterTypeOK
<1>2. CASE TimePasses
    <2>1. clock' \in Nat /\ clock <= clock' /\ UNCHANGED <<limiter, pc>>
        BY <1>1, <1>2 DEF TimePasses
    <2> QED BY <2>1, <1>1, QuietStep DEF limiter, LimiterInv
<1>3. CASE StartProcess
    BY <1>3, StartProcessKeeps
<1>4. CASE Check
    <2>1. Recalls(hourly', Hour)
        BY <1>1, <1>4, ExpiredRecalls, RateLimiterConstants DEF Check, CheckCeiling
    <2> QED BY <2>1, <1>1, <1>4, QuietStep DEF Check, CheckCeiling
<1>5. CASE Raise
    <2>1. Recalls(hourly', Hour)
        BY <1>1, <1>5, ExpiredRecalls, RateLimiterConstants DEF Raise, CeilingRaises
    <2> QED BY <2>1, <1>1, <1>5, QuietStep DEF Raise
<1>6. CASE Wait
    <2>1. Recalls(recent', Second)
        BY <1>1, <1>6, ExpiredRecalls, RateLimiterConstants DEF Wait, Pace
    <2> QED BY <2>1, <1>1, <1>6, QuietStep DEF Wait, Pace, LimiterInv
<1>7. CASE Send
    BY <1>7, SendKeeps
<1>8. CASE EndProcess \/ StartQuery \/ Reply \/ Retry \/ GiveUp \/ Write
    <2>1. UNCHANGED limiter /\ clock' = clock /\ pc' \notin {"pace", "stamp"}
        BY <1>8 DEF EndProcess, StartQuery, Reply, Page, Retry, GiveUp, Write
    <2> QED BY <2>1, <1>1, QuietStep DEF limiter
<1>9. CASE Publish \/ UNCHANGED fetchVars
    <2>1. UNCHANGED <<limiter, clock, pc>>
        BY <1>9 DEF Publish, fetchVars, limiter
    <2> QED BY <2>1, <1>1, QuietStep DEF limiter, LimiterInv
<1> QED BY <1>2, <1>3, <1>4, <1>5, <1>6, <1>7, <1>8, <1>9 DEF FetchNext

-----------------------------------------------------------------------------

(* What the ceiling and the rate are worth to a long run.                  *)

\* A client is the default one or the backfill's.
Limits == \/ <<per_second, per_hour>> = DefaultLimits
          \/ per_second = SustainableRate(BackfillPerHour) /\ per_hour = BackfillPerHour

\* The rate is held over any number of seconds, not one only.
RateHolds == \A i \in 1..Len(sent), m \in Nat :
                i + per_second * m <= Len(sent) => sent[i + per_second * m] - sent[i] >= m * Second

\* A request n seconds' worth of requests after another: n - 1 by what was sent before, and
\* one by the pause before it.
LEMMA StampRateHolds ==
    ASSUME NEW s \in Seq(Nat), NEW t \in Nat, NEW r \in Nat \ {0}, NEW span \in Nat,
           NEW z, z = Append(s, t),
           \A i \in 1..Len(s), m \in Nat : i + r * m <= Len(s) => s[i + r * m] - s[i] >= m * span,
           \A i, j \in 1..Len(z) : i + r <= j => z[j] - z[i] >= span,
           NEW i \in 1..Len(z), NEW m \in Nat, i + r * m <= Len(z)
    PROVE  z[i + r * m] - z[i] >= m * span
<1>1. /\ Len(z) = Len(s) + 1 /\ Len(s) \in Nat
      /\ \A k \in 1..Len(s) : z[k] = s[k] /\ z[k] \in Nat
      /\ z[Len(s) + 1] = t
    OBVIOUS
<1>2. i \in Nat /\ r * m \in Nat /\ i + r * m \in 1..(Len(s) + 1)
    BY <1>1
<1>3. CASE m = 0
    <2>1. r * m = 0 /\ m * span = 0 /\ i + r * m = i
        BY <1>3
    <2>2. z[i] \in Nat
        BY <1>1
    <2> QED BY <2>1, <2>2
<1>4. CASE m # 0 /\ i + r * m <= Len(s)
    <2>1. i \in 1..Len(s) /\ i + r * m \in 1..Len(s)
        BY <1>1, <1>2, <1>4
    <2> QED BY <2>1, <1>1, <1>4
<1>5. CASE m # 0 /\ i + r * m = Len(s) + 1
    <2>1. PICK n \in Nat : m = n + 1
        BY <1>5
    <2>2. r * m = r * n + r /\ m * span = n * span + span /\ r * n \in Nat /\ n * span \in Nat
        BY <2>1
    <2>3. PICK g, k : g \in Nat /\ g = r * n /\ k = i + g
        BY <2>2
    <2>4. k + r = Len(s) + 1 /\ k \in 1..Len(s) /\ i \in 1..Len(s) /\ k \in 1..Len(z)
        <3>1. i + (g + r) = Len(s) + 1
            BY <2>2, <2>3, <1>5
        <3> QED BY <3>1, <2>3, <1>1, <1>2
    <2>5. s[k] - s[i] >= n * span
        BY <2>3, <2>4
    <2>6. Len(s) + 1 \in 1..Len(z) /\ k + r <= Len(s) + 1
        BY <2>4, <1>1
    <2>7. z[Len(s) + 1] - z[k] >= span
        BY <2>4, <2>6
    <2>8. z[i + r * m] = t /\ z[k] = s[k] /\ z[i] = s[i] /\ s[k] \in Nat /\ s[i] \in Nat
        BY <2>4, <1>1, <1>5
    <2>9. PICK d \in Nat : d = n * span /\ m * span = d + span
        BY <2>2
    <2>10. t - s[i] >= d + span
        <3>1. s[k] - s[i] >= d
            BY ONLY <2>5, <2>9
        <3>2. t - s[k] >= span
            BY ONLY <2>7, <2>8, <1>1
        <3>3. PICK a \in Nat, b \in Nat : a = s[i] /\ b = s[k]
            BY ONLY <2>8
        <3>4. t \in Nat /\ span \in Nat /\ d \in Nat
            OBVIOUS
        <3>5. b - a >= d /\ t - b >= span
            BY ONLY <3>1, <3>2, <3>3
        <3>6. t - a >= d + span
            BY ONLY <3>3, <3>4, <3>5
        <3> QED BY ONLY <3>3, <3>6
    <2>11. z[i + r * m] - z[i] = t - s[i]
        BY ONLY <2>8
    <2>12. d + span = m * span
        BY ONLY <2>9
    <2> QED BY ONLY <2>10, <2>11, <2>12
<1> QED BY <1>1, <1>2, <1>3, <1>4, <1>5

\* The inductive invariant of the ceiling.
CeilingInv == LimiterInv /\ Limits /\ RateHolds

LEMMA CeilingInvInit == FetchInit => CeilingInv
<1> SUFFICES ASSUME FetchInit PROVE CeilingInv
    OBVIOUS
<1>1. RateHolds
    BY DEF FetchInit, RateHolds
<1>2. Limits
    BY FetchConstants DEF FetchInit, Limits
<1> QED BY <1>1, <1>2, LimiterInvInit DEF CeilingInv

LEMMA CeilingInvStep == CeilingInv /\ [FetchNext]_fetchVars => CeilingInv'
<1> SUFFICES ASSUME CeilingInv, [FetchNext]_fetchVars PROVE CeilingInv'
    OBVIOUS
<1>1. LimiterInv /\ LimiterInv'
    BY LimiterInvStep DEF CeilingInv
<1>2. CASE StartProcess
    <2>1. Limits'
        <3>1. \/ per_second' = DefaultLimits[1] /\ per_hour' = DefaultLimits[2]
              \/ per_second' = SustainableRate(BackfillPerHour) /\ per_hour' = BackfillPerHour
            BY <1>2 DEF StartProcess, NewLimiter
        <3> QED BY <3>1, FetchConstants DEF Limits
    <2>2. RateHolds'
        BY <1>2 DEF StartProcess, NewLimiter, RateHolds
    <2> QED BY <1>1, <2>1, <2>2 DEF CeilingInv
<1>3. CASE Send
    <2>1. sent' = Append(sent, clock) /\ UNCHANGED <<per_second, per_hour>>
        BY <1>3 DEF Send, Stamp
    <2>2. sent \in Seq(Nat) /\ clock \in Nat /\ per_second \in Nat \ {0} /\ Second \in Nat
        BY <1>1, RateLimiterConstants DEF LimiterInv, LimiterTypeOK
    <2>3. \A i, j \in 1..Len(sent') : i + per_second <= j => sent'[j] - sent'[i] >= Second
        BY <1>1, <2>1 DEF LimiterInv, PacePerSecond, Spread
    <2>4. RateHolds'
        <3>1. \A i \in 1..Len(sent'), m \in Nat :
                i + per_second * m <= Len(sent') => sent'[i + per_second * m] - sent'[i] >= m * Second
            BY <2>1, <2>2, <2>3, StampRateHolds DEF CeilingInv, RateHolds
        <3> QED BY <3>1, <2>1 DEF RateHolds
    <2> QED BY <1>1, <2>1, <2>4 DEF CeilingInv, Limits
<1>4. CASE UNCHANGED <<sent, per_second, per_hour>>
    BY <1>1, <1>4 DEF CeilingInv, Limits, RateHolds
<1> QED BY <1>2, <1>3, <1>4 DEF FetchNext, fetchVars, limiter, TimePasses, Publish, EndProcess, StartQuery, Check,
                               Raise, Wait, Reply, Retry, GiveUp, Write

\* When the ceiling raises, the last requests, as many as it allows, are of the last hour.
LEMMA RaiseLooksBack ==
    ASSUME LimiterInv, Raise
    PROVE  \E n \in Nat : /\ n >= per_hour /\ n <= Len(sent)
                          /\ \A i \in (Len(sent) - n + 1)..Len(sent) : clock - sent[i] < Hour
<1>1. /\ sent \in Seq(Nat) /\ hourly \in Seq(Nat) /\ clock \in Nat /\ per_hour \in Nat
      /\ LimiterTypeOK /\ InOrder /\ Recalls(hourly, Hour) /\ Hour \in Nat
    BY RateLimiterConstants DEF LimiterInv, LimiterTypeOK
<1>2. Expired(hourly, Hour, hourly') /\ Len(hourly') >= per_hour
    BY DEF Raise, CeilingRaises
<1>3. Recalls(hourly', Hour)
    BY <1>1, <1>2, ExpiredRecalls
<1>4. Len(hourly') > 0 => clock - hourly'[1] < Hour
    BY <1>1, <1>2, ExpiredIsTail
<1>5. /\ Len(hourly') \in Nat /\ Len(hourly') <= Len(sent) /\ Len(sent) \in Nat
      /\ \A i \in 1..Len(hourly') : hourly'[i] = sent[Len(sent) - Len(hourly') + i]
    BY <1>1, <1>3 DEF Recalls, Remembers
<1> DEFINE n == Len(hourly')
           b == Len(sent) - n + 1
<1>7. \A i \in 1..Len(sent) : sent[i] \in Nat
    BY <1>1
<1>6. ASSUME NEW i \in b..Len(sent) PROVE clock - sent[i] < Hour
    <2>1. /\ i \in 1..Len(sent) /\ b \in 1..Len(sent) /\ b <= i /\ n > 0 /\ 1 \in 1..n
          /\ b = Len(sent) - n + 1
        BY <1>5
    <2>2. hourly'[1] = sent[b] /\ clock - sent[b] < Hour
        BY <2>1, <1>4, <1>5
    <2> HIDE DEF n, b
    <2>3. sent[b] <= sent[i] /\ sent[b] \in Nat /\ sent[i] \in Nat
        BY <2>1, <1>1, <1>7 DEF InOrder
    <2> QED BY <2>2, <2>3, <1>1
<1> QED BY <1>2, <1>5, <1>6

\* As many requests as the ceiling, in the hour before it raises.
LEMMA RaiseIsEarned ==
    ASSUME LimiterInv, Raise
    PROVE  Cardinality({i \in 1..Len(sent) : clock - sent[i] < Hour}) >= per_hour
<1>1. sent \in Seq(Nat) /\ Len(sent) \in Nat /\ per_hour \in Nat
    BY DEF LimiterInv, LimiterTypeOK
<1>2. PICK n \in Nat : /\ n >= per_hour /\ n <= Len(sent)
                       /\ \A i \in (Len(sent) - n + 1)..Len(sent) : clock - sent[i] < Hour
    BY RaiseLooksBack
<1> DEFINE T == (Len(sent) - n + 1)..Len(sent)
           H == {i \in 1..Len(sent) : clock - sent[i] < Hour}
<1>3. IsFiniteSet(T) /\ Cardinality(T) = n
    BY <1>1, <1>2, FS_Interval
<1>4. IsFiniteSet(H)
    <2>1. IsFiniteSet(1..Len(sent))
        BY <1>1, FS_Interval
    <2>2. H \in SUBSET (1..Len(sent))
        OBVIOUS
    <2> HIDE DEF H
    <2> QED BY <2>1, <2>2, FS_Subset
<1>5. T \subseteq H
    BY <1>1, <1>2
<1>6. Cardinality(H) \in Nat /\ n <= Cardinality(H)
    BY <1>3, <1>4, <1>5, FS_Subset, FS_CardinalityType
<1> QED BY <1>1, <1>2, <1>6

\* The backfill's rate cannot fill an hour that leaves it room.
LEMMA SustainableRateHolds ==
    ASSUME CeilingInv, Raise, RoomToSpare
    PROVE  <<per_second, per_hour>> = DefaultLimits
<1> SUFFICES ASSUME per_second = SustainableRate(BackfillPerHour), per_hour = BackfillPerHour
             PROVE  FALSE
    BY DEF CeilingInv, Limits
<1> DEFINE w == Hour \div Second
           r == BackfillPerHour \div w
<1>1. /\ Second \in Nat \ {0} /\ Hour \in Nat /\ BackfillPerHour \in Nat
      /\ sent \in Seq(Nat) /\ Len(sent) \in Nat /\ clock \in Nat
      /\ LimiterInv /\ RateHolds
    BY FetchConstants, RateLimiterConstants DEF CeilingInv, LimiterInv, LimiterTypeOK
<1>2. w \in Nat \ {0} /\ w * Second = Hour
    BY <1>1, RateLimiterConstants
<1>3. BackfillPerHour > w /\ BackfillPerHour % w # 0
    BY DEF RoomToSpare
<1>4. r \in Nat \ {0} /\ r * w < BackfillPerHour
    BY <1>1, <1>2, <1>3
<1>5. per_second = r
    BY <1>4 DEF SustainableRate
<1>6. PICK n \in Nat : /\ n >= BackfillPerHour /\ n <= Len(sent)
                       /\ \A i \in (Len(sent) - n + 1)..Len(sent) : clock - sent[i] < Hour
    BY <1>1, RaiseLooksBack
<1> DEFINE b == Len(sent) - n + 1
           e == b + per_second * w
<1> HIDE DEF w, r
<1>7. e <= Len(sent) /\ b \in 1..Len(sent) /\ e \in 1..Len(sent)
    <2>1. per_second * w \in Nat /\ per_second * w < BackfillPerHour
        BY <1>2, <1>4, <1>5
    <2> QED BY <2>1, <1>1, <1>6
<1>8. sent[e] - sent[b] >= Hour
    <2> HIDE DEF b
    <2> QED BY <1>1, <1>2, <1>7 DEF RateHolds
<1>9. clock - sent[b] < Hour
    BY <1>1, <1>6, <1>7
<1>10. sent[e] <= clock /\ sent[e] \in Nat /\ sent[b] \in Nat
    BY <1>1, <1>7 DEF LimiterInv, InOrder
<1> QED BY <1>1, <1>8, <1>9, <1>10

-----------------------------------------------------------------------------
(* What an answer holds.                                                   *)

\* What is stored was once in an answer, and what an answer repeats was there when its query
\* began.
StoredWasHeld ==
    \A r \in RowIds : stored[r] # 0 => r \in held /\ (InQuery /\ total # Unknown => r \in first)

\* While the pages belong together, the answer is the first rows of those EIA held at the
\* first page, and when the query is over all of them, with a few that came later.
PagesBelong ==
    InQuery /\ ~disturbed =>
        IF total = Unknown
        THEN answer = <<>> /\ offset = 0 /\ first = {}
        ELSE /\ total = Cardinality(first)
             /\ \A r \in held \ first, s \in first : s < r
             /\ pc # "write" => /\ Len(answer) = offset /\ offset < total
                               /\ \A i \in 1..offset : answer[i] = Ascending(first)[i]
             /\ pc = "write" => first \subseteq ToSet(answer) /\ IsInjective(answer)

AnswerTypeOK ==
    /\ held \subseteq RowIds /\ first \subseteq held
    /\ stored \in [RowIds -> Nat]
    /\ offset \in Nat /\ total \in Nat \cup {Unknown} /\ disturbed \in BOOLEAN
    /\ answer \in Seq(Nat) /\ \A i \in 1..Len(answer) : answer[i] \in held
    /\ pc = "write" => total # Unknown

AnswerInv == AnswerTypeOK /\ StoredWasHeld /\ PagesBelong

\* The page at an offset: the rows behind it, at most a page of them.
LEMMA PageIsNext ==
    ASSUME held \subseteq RowIds, NEW o \in Nat
    PROVE  LET s == Ascending(held)
               n == Cardinality(held)
               m == IF o + PageSize < n THEN o + PageSize ELSE n
           IN  /\ n \in Nat /\ Enumerates(s, held)
               /\ PageAt(o) \in Seq(Nat)
               /\ Len(PageAt(o)) = IF o < n THEN m - o ELSE 0
               /\ \A i \in 1..Len(PageAt(o)) : PageAt(o)[i] = s[o + i] /\ o + i \in 1..n /\ s[o + i] \in held
<1> DEFINE s == Ascending(held)
           n == Cardinality(held)
           m == IF o + PageSize < n THEN o + PageSize ELSE n
<1>1. held \in SUBSET Nat /\ IsFiniteSet(held) /\ PageSize \in Nat \ {0}
    BY FetchConstants, FS_Subset
<1>2. n \in Nat /\ Enumerates(s, held)
    BY <1>1, FS_CardinalityType, AscendingEnumerates
<1>3. s \in Seq(held) /\ Len(s) = n
    BY <1>2 DEF Enumerates
<1> HIDE DEF s, n
<1>4. m \in Nat /\ m <= n /\ (o < n => o < m) /\ (~ (o < n) => m <= o)
    BY <1>1, <1>2
<1>5. PageAt(o) = SubSeq(s, o + 1, m)
    BY <1>3 DEF PageAt, s
<1> HIDE DEF m
<1>6. \A i \in (o + 1)..m : i \in 1..n /\ s[i] \in held /\ s[i] \in Nat
    <2>1. \A i \in (o + 1)..m : i \in 1..n
        BY <1>2, <1>4
    <2>2. \A i \in 1..n : s[i] \in held
        BY <1>3
    <2>3. \A r \in held : r \in Nat
        BY <1>1
    <2> QED BY <2>1, <2>2, <2>3
<1>7. /\ PageAt(o) \in Seq(Nat)
      /\ Len(PageAt(o)) = IF o + 1 <= m THEN m - (o + 1) + 1 ELSE 0
      /\ \A i \in 1..(m - (o + 1) + 1) : PageAt(o)[i] = s[(o + 1) + i - 1]
    BY <1>4, <1>5, <1>6, SubSeqProperties
<1>8. Len(PageAt(o)) = IF o < n THEN m - o ELSE 0
    BY <1>2, <1>4, <1>7
<1>9. ASSUME NEW i \in 1..Len(PageAt(o))
      PROVE  PageAt(o)[i] = s[o + i] /\ o + i \in 1..n /\ s[o + i] \in held
    <2>1. i \in 1..(m - o) /\ o < n
        BY <1>2, <1>4, <1>8
    <2>2. /\ i \in 1..(m - (o + 1) + 1) /\ (o + 1) + i - 1 = o + i
          /\ o + i \in (o + 1)..m
        BY <2>1, <1>4
    <2> QED BY <2>2, <1>6, <1>7
<1>10. PageAt(o) \in Seq(Nat)
    BY <1>7
<1> QED BY <1>2, <1>8, <1>9, <1>10 DEF m, s, n

\* A page joined to the rows before it.
LEMMA PageJoins ==
    ASSUME held \subseteq RowIds, NEW o \in Nat,
           NEW rows \in Seq(Nat), Len(rows) = o, o <= Cardinality(held),
           \A i \in 1..o : rows[i] = Ascending(held)[i],
           NEW joined, joined = rows \o PageAt(o)
    PROVE  LET n == Cardinality(held)
           IN  /\ n \in Nat
               /\ Len(joined) = IF o + PageSize < n THEN o + PageSize ELSE n
               /\ \A i \in 1..Len(joined) : joined[i] = Ascending(held)[i]
               /\ PageAt(o) = <<>> => o = n
<1> DEFINE s == Ascending(held)
           n == Cardinality(held)
           m == IF o + PageSize < n THEN o + PageSize ELSE n
           page == PageAt(o)
<1>1. /\ n \in Nat /\ page \in Seq(Nat)
      /\ Len(page) = IF o < n THEN m - o ELSE 0
      /\ \A i \in 1..Len(page) : page[i] = s[o + i]
    BY PageIsNext
<1>2. PageSize \in Nat \ {0}
    BY FetchConstants
<1> HIDE DEF s, n, page
<1>3. m \in Nat /\ o <= m /\ Len(page) = m - o /\ (o < n => o < m) /\ o <= n
    BY <1>1, <1>2 DEF n
<1> HIDE DEF m
<1>4. /\ Len(joined) = Len(rows) + Len(page)
      /\ \A i \in 1..(Len(rows) + Len(page)) : joined[i] = IF i <= Len(rows) THEN rows[i] ELSE page[i - Len(rows)]
    BY <1>1, ConcatProperties DEF page
<1>5. Len(joined) = m
    BY <1>3, <1>4
<1>6. ASSUME NEW i \in 1..m PROVE joined[i] = s[i]
    <2>0. joined[i] = IF i <= o THEN rows[i] ELSE page[i - o]
        BY <1>3, <1>4
    <2>1. CASE i <= o
        <3>1. i \in 1..o
            BY <2>1, <1>3
        <3> QED BY <3>1, <2>0 DEF s
    <2>2. CASE ~ (i <= o)
        <3>1. i - o \in 1..Len(page) /\ o + (i - o) = i
            BY <2>2, <1>3
        <3>2. page[i - o] = s[i]
            BY <3>1, <1>1
        <3> QED BY <2>0, <2>2, <3>2
    <2> QED BY <2>1, <2>2
<1>7. page = <<>> => o = n
    <2> SUFFICES ASSUME page = <<>> PROVE o = n
        OBVIOUS
    <2>1. Len(page) = 0
        OBVIOUS
    <2> QED BY <2>1, <1>1, <1>3
<1> QED BY <1>1, <1>5, <1>6, <1>7 DEF m, s, n, page

\* The rows at the front of what EIA holds are those it held at the first page, if nothing was
\* published among them.
LEMMA FrontIsFirst ==
    ASSUME held \subseteq RowIds, NEW f \in SUBSET held, \A r \in held \ f, s \in f : s < r
    PROVE  /\ Cardinality(f) \in Nat /\ Cardinality(held) \in Nat /\ Cardinality(f) <= Cardinality(held)
           /\ \A i \in 1..Cardinality(f) : Ascending(held)[i] = Ascending(f)[i]
<1>1. held \in SUBSET Nat /\ IsFiniteSet(held) /\ IsFiniteSet(f)
    BY FetchConstants, FS_Subset
<1> QED BY <1>1, JoinedAbove, FS_CardinalityType

\* As many rows as the total says, from the front: all of those of the first page, once each.
LEMMA FullAnswer ==
    ASSUME held \subseteq RowIds, NEW f \in SUBSET held, \A r \in held \ f, s \in f : s < r,
           NEW rows \in Seq(Nat), Len(rows) <= Cardinality(held), Cardinality(f) <= Len(rows),
           \A i \in 1..Len(rows) : rows[i] = Ascending(held)[i]
    PROVE  f \subseteq ToSet(rows) /\ IsInjective(rows)
<1>1. held \in SUBSET Nat /\ IsFiniteSet(held) /\ IsFiniteSet(f) /\ f \in SUBSET Nat
    BY FetchConstants, FS_Subset
<1>2. /\ Cardinality(f) \in Nat /\ Cardinality(held) \in Nat /\ Len(rows) \in Nat
      /\ \A i \in 1..Cardinality(f) : Ascending(held)[i] = Ascending(f)[i]
    BY FrontIsFirst
<1>3. Enumerates(Ascending(held), held) /\ Enumerates(Ascending(f), f)
    <2>1. held \in SUBSET Int /\ f \in SUBSET Int
        BY <1>1
    <2> QED BY ONLY <1>1, <2>1, AscendingEnumerates
<1>4. DOMAIN rows = 1..Len(rows)
    OBVIOUS
<1>5. ASSUME NEW x \in f PROVE x \in ToSet(rows)
    <2>1. PICK i \in 1..Cardinality(f) : Ascending(f)[i] = x
        BY <1>3 DEF Enumerates
    <2>2. i \in 1..Len(rows)
        BY <1>2
    <2>3. rows[i] = x
        BY <2>1, <2>2, <1>2
    <2> QED BY <2>2, <2>3, <1>4 DEF ToSet
<1>6. ASSUME NEW i \in DOMAIN rows, NEW j \in DOMAIN rows, rows[i] = rows[j] PROVE i = j
    <2>1. i \in 1..Cardinality(held) /\ j \in 1..Cardinality(held) /\ i \in Nat /\ j \in Nat
        BY <1>2, <1>4
    <2>2. Ascending(held)[i] = Ascending(held)[j] /\ Ascending(held)[i] \in Nat
        BY <1>4, <1>6
    <2>3. /\ Len(Ascending(held)) = Cardinality(held)
          /\ \A a, b \in 1..Cardinality(held) : a < b => Ascending(held)[a] < Ascending(held)[b]
        BY <1>3 DEF Enumerates
    <2>4. ~ (i < j) /\ ~ (j < i)
        BY <2>1, <2>2, <2>3
    <2> QED BY <2>1, <2>4
<1> QED BY <1>5, <1>6 DEF IsInjective

LEMMA AnswerInvInit == FetchInit => AnswerInv
<1> SUFFICES ASSUME FetchInit PROVE AnswerInv
    OBVIOUS
<1>1. /\ held \subseteq RowIds /\ stored = [r \in RowIds |-> 0] /\ pc = "ended"
      /\ first = {} /\ offset = 0 /\ total = Unknown /\ answer = <<>> /\ disturbed = FALSE
    BY FetchConstants DEF FetchInit
<1>2. AnswerTypeOK
    <2>1. answer \in Seq(Nat) /\ Len(answer) = 0
        BY <1>1
    <2>2. stored \in [RowIds -> Nat]
        BY <1>1
    <2>3. disturbed \in BOOLEAN
        BY <1>1, Zenon
    <2>4. held \subseteq RowIds /\ first \subseteq held /\ offset \in Nat /\ total = Unknown /\ pc # "write"
        BY <1>1
    <2> QED BY <2>1, <2>2, <2>3, <2>4 DEF AnswerTypeOK
<1>3. StoredWasHeld /\ PagesBelong
    BY <1>1 DEF StoredWasHeld, PagesBelong, InQuery
<1> QED BY <1>2, <1>3 DEF AnswerInv

\* The types survive every answer: the rows of a page are rows EIA holds.
LEMMA ReplyTypes ==
    ASSUME AnswerInv, Reply
    PROVE  AnswerTypeOK' /\ StoredWasHeld'
<1>1. /\ held \subseteq RowIds /\ held' = held /\ stored' = stored /\ pc = "sent" /\ InQuery
      /\ offset \in Nat /\ total \in Nat \cup {Unknown} /\ disturbed \in BOOLEAN
      /\ answer \in Seq(Nat) /\ PageSize \in Nat
      /\ \A i \in 1..Len(answer) : answer[i] \in held
    BY FetchConstants DEF AnswerInv, AnswerTypeOK, Reply, Page, InQuery
<1>2. /\ Cardinality(held) \in Nat /\ PageAt(offset) \in Seq(Nat)
      /\ \A i \in 1..Len(PageAt(offset)) : PageAt(offset)[i] \in held
    BY <1>1, PageIsNext
<1>3. PICK page \in {PageAt(offset), <<>>}, count \in {Cardinality(held), 0} : Page(page, count)
    BY DEF Reply
<1>4. page \in Seq(Nat) /\ \A i \in 1..Len(page) : page[i] \in held
    <2>1. CASE page = PageAt(offset)
        BY <2>1, <1>2
    <2>2. CASE page = <<>>
        BY <2>2
    <2> QED BY <2>1, <2>2
<1>5. answer' = answer \o page /\ total' \in Nat /\ offset' \in Nat /\ disturbed' \in BOOLEAN
    <2>1. count \in Nat
        BY <1>2
    <2>2. answer' = answer \o page /\ total' = IF total = Unknown THEN count ELSE total
        BY <1>3 DEF Page
    <2>3. offset' = offset \/ offset' = offset + PageSize
        BY <1>3 DEF Page
    <2>4. disturbed' \in BOOLEAN
        BY <1>1 DEF Reply
    <2> QED BY <2>1, <2>2, <2>3, <2>4, <1>1
<1>6. first' = IF total = Unknown THEN held ELSE first
    BY <1>3 DEF Page
<1>7. answer' \in Seq(Nat) /\ \A i \in 1..Len(answer') : answer'[i] \in held
    <2>1. /\ answer' \in Seq(Nat) /\ Len(answer') = Len(answer) + Len(page)
          /\ Len(answer) \in Nat /\ Len(page) \in Nat
          /\ \A i \in 1..(Len(answer) + Len(page)) :
                answer'[i] = IF i <= Len(answer) THEN answer[i] ELSE page[i - Len(answer)]
        BY <1>1, <1>4, <1>5, ConcatProperties
    <2>2. ASSUME NEW i \in 1..Len(answer') PROVE answer'[i] \in held
        <3>1. i <= Len(answer) => i \in 1..Len(answer)
            BY <2>1
        <3>2. ~ (i <= Len(answer)) => i - Len(answer) \in 1..Len(page)
            BY <2>1
        <3> QED BY <2>1, <3>1, <3>2, <1>1, <1>4
    <2> QED BY <2>1, <2>2
<1>8. AnswerTypeOK'
    <2>1. first' \subseteq held'
        BY <1>1, <1>6 DEF AnswerInv, AnswerTypeOK
    <2>2. total' # Unknown
        BY <1>5, FetchConstants
    <2>3. stored' \in [RowIds -> Nat]
        BY <1>1 DEF AnswerInv, AnswerTypeOK
    <2> QED BY <2>1, <2>2, <2>3, <1>1, <1>5, <1>7 DEF AnswerTypeOK
<1>9. StoredWasHeld'
    BY <1>1, <1>6 DEF AnswerInv, StoredWasHeld
<1> QED BY <1>8, <1>9

\* An answer by which the pages still belong together is the next page.
LEMMA ReplyBelongs ==
    ASSUME AnswerInv, Reply, ~disturbed'
    PROVE  PagesBelong'
<1>1. /\ held \subseteq RowIds /\ held' = held /\ pc = "sent" /\ InQuery /\ ~disturbed
      /\ first \subseteq held /\ offset \in Nat /\ total \in Nat \cup {Unknown} /\ answer \in Seq(Nat)
    BY DEF AnswerInv, AnswerTypeOK, Reply, Page, InQuery
<1>2. Page(PageAt(offset), Cardinality(held))
    BY <1>1 DEF Reply
<1> DEFINE f == first'
           t == total'
<1>3. /\ f = IF total = Unknown THEN held ELSE first
      /\ t = IF total = Unknown THEN Cardinality(held) ELSE total
      /\ answer' = answer \o PageAt(offset)
    BY <1>2 DEF Page
<1>4. /\ f \in SUBSET held /\ t = Cardinality(f) /\ \A r \in held \ f, s \in f : s < r
      /\ Len(answer) = offset /\ (offset < t \/ offset = 0)
      /\ \A i \in 1..offset : answer[i] = Ascending(f)[i] /\ i <= t
    <2>1. CASE total = Unknown
        BY <2>1, <1>1, <1>3 DEF AnswerInv, PagesBelong
    <2>2. CASE total # Unknown
        <3>1. /\ total = Cardinality(first) /\ \A r \in held \ first, s \in first : s < r
              /\ Len(answer) = offset /\ offset < total
              /\ \A i \in 1..offset : answer[i] = Ascending(first)[i]
            BY <2>2, <1>1 DEF AnswerInv, PagesBelong
        <3>2. \A i \in 1..offset : i <= total
            BY <3>1, <2>2, <1>1
        <3> QED BY <2>2, <3>1, <3>2, <1>1, <1>3
    <2> QED BY <2>1, <2>2
<1> DEFINE n == Cardinality(held)
<1>5. /\ t \in Nat /\ n \in Nat /\ t <= n
      /\ \A i \in 1..t : Ascending(held)[i] = Ascending(f)[i]
    BY <1>1, <1>4, FrontIsFirst
<1> HIDE DEF f, t
<1>6. /\ offset <= n
      /\ \A i \in 1..offset : answer[i] = Ascending(held)[i]
    BY <1>1, <1>4, <1>5
<1>7. /\ Len(answer') = IF offset + PageSize < n THEN offset + PageSize ELSE n
      /\ \A i \in 1..Len(answer') : answer'[i] = Ascending(held)[i]
      /\ PageAt(offset) = <<>> => offset = n
    <2>1. /\ held \subseteq RowIds /\ offset \in Nat /\ answer \in Seq(Nat)
          /\ Len(answer) = offset /\ offset <= Cardinality(held)
          /\ \A i \in 1..offset : answer[i] = Ascending(held)[i]
          /\ answer' = answer \o PageAt(offset)
        BY <1>1, <1>3, <1>4, <1>6
    <2> QED BY <2>1, PageJoins
<1>8. answer' \in Seq(Nat) /\ Len(answer') \in Nat /\ Len(answer') <= n /\ t # Unknown
      /\ PageSize \in Nat \ {0}
    BY <1>5, <1>7, ReplyTypes, FetchConstants DEF AnswerTypeOK
<1>9. CASE PageAt(offset) = <<>> \/ Len(answer') >= t
    <2>1. pc' = "write"
        BY <1>2, <1>9 DEF Page, t
    <2>2. t <= Len(answer')
        BY <1>1, <1>4, <1>5, <1>7, <1>8, <1>9
    <2>3. f \subseteq ToSet(answer') /\ IsInjective(answer')
        BY <1>1, <1>4, <1>7, <1>8, <2>2, FullAnswer
    <2> QED BY <2>1, <2>3, <1>1, <1>4, <1>8 DEF PagesBelong, f, t
<1>10. CASE ~ (PageAt(offset) = <<>> \/ Len(answer') >= t)
    <2>1. pc' = "check" /\ offset' = offset + PageSize
        BY <1>2, <1>10 DEF Page, t
    <2>2. Len(answer') = offset' /\ offset' < t
        BY <2>1, <1>1, <1>5, <1>7, <1>8, <1>10
    <2>3. \A i \in 1..offset' : answer'[i] = Ascending(f)[i]
        <3> SUFFICES ASSUME NEW i \in 1..offset' PROVE answer'[i] = Ascending(f)[i]
            OBVIOUS
        <3>1. i \in 1..Len(answer') /\ i \in 1..t
            BY <2>2, <1>5, <1>8
        <3> QED BY <3>1, <1>5, <1>7
    <2> QED BY <2>1, <2>2, <2>3, <1>1, <1>4, <1>8 DEF PagesBelong, f, t
<1> QED BY <1>9, <1>10

\* A row published meanwhile: behind the first page's rows, or the pages no longer belong
\* together.
LEMMA PublishKeeps ==
    ASSUME AnswerInv, Publish
    PROVE  AnswerInv'
<1>1. PICK r \in RowIds \ held : held' = held \cup {r} /\ disturbed' = (disturbed \/ \E s \in first : r < s)
    BY DEF Publish
<1>2. UNCHANGED <<stored, pc, offset, total, answer, first>>
    BY DEF Publish
<1>3. AnswerTypeOK' /\ StoredWasHeld'
    <2>1. AnswerTypeOK'
        BY <1>1, <1>2 DEF AnswerInv, AnswerTypeOK
    <2>2. StoredWasHeld'
        BY <1>1, <1>2 DEF AnswerInv, StoredWasHeld, InQuery
    <2> QED BY <2>1, <2>2
<1>4. PagesBelong'
    <2>1. ASSUME ~disturbed', NEW x \in held' \ first, NEW s \in first,
                 \A y \in held \ first, z \in first : z < y
          PROVE  s < x
        <3>1. CASE x \in held
            BY <3>1, <2>1
        <3>2. CASE x = r
            <4>1. ~ (r < s) /\ s \in held /\ r \notin held
                BY <2>1, <1>1 DEF AnswerInv, AnswerTypeOK
            <4>2. r \in Nat /\ s \in Nat /\ r # s
                BY <4>1, FetchConstants DEF AnswerInv, AnswerTypeOK
            <4> QED BY <3>2, <4>1, <4>2
        <3> QED BY <3>1, <3>2, <1>1
    <2>2. ~disturbed' => ~disturbed
        BY <1>1
    <2> QED BY <2>1, <2>2, <1>2 DEF AnswerInv, PagesBelong, InQuery
<1> QED BY <1>3, <1>4 DEF AnswerInv

\* How often a row is in an answer: not at all if it is not in it, and once if no row is in it
\* twice.
LEMMA TimesCounts ==
    ASSUME answer \in Seq(Nat), NEW r
    PROVE  /\ Times(r) \in Nat
           /\ r \notin ToSet(answer) => Times(r) = 0
           /\ r \in ToSet(answer) /\ IsInjective(answer) => Times(r) = 1
<1> DEFINE I == {i \in 1..Len(answer) : answer[i] = r}
<1>1. Len(answer) \in Nat /\ DOMAIN answer = 1..Len(answer)
    OBVIOUS
<1>2. IsFiniteSet(1..Len(answer)) /\ I \in SUBSET (1..Len(answer))
    BY <1>1, FS_Interval
<1>3. r \notin ToSet(answer) => I = {}
    BY <1>1 DEF ToSet
<1>4. ASSUME r \in ToSet(answer), IsInjective(answer) PROVE \E i : I = {i}
    <2>1. PICK i \in 1..Len(answer) : answer[i] = r
        BY <1>1, <1>4 DEF ToSet
    <2>2. I = {i}
        BY <2>1, <1>1, <1>4 DEF IsInjective
    <2> QED BY <2>2
<1>5. Times(r) = Cardinality(I)
    BY DEF Times
<1> HIDE DEF I
<1>6. IsFiniteSet(I)
    BY <1>2, FS_Subset
<1> QED BY <1>3, <1>4, <1>5, <1>6, FS_CardinalityType, FS_EmptySet, FS_Singleton

\* What a write stores are rows of the answer.
LEMMA WriteKeeps ==
    ASSUME AnswerInv, Write
    PROVE  AnswerInv'
<1>1. /\ pc' = "idle" /\ UNCHANGED <<held, offset, total, answer, first, disturbed>>
      /\ stored' = [r \in RowIds |-> IF ZoneHour[r] \in Folded THEN Times(r) ELSE stored[r]]
    BY DEF Write, query
<1>2. AnswerTypeOK /\ StoredWasHeld /\ answer \in Seq(Nat)
    BY DEF AnswerInv, AnswerTypeOK
<1>3. stored' \in [RowIds -> Nat]
    BY <1>1, <1>2, TimesCounts DEF AnswerTypeOK
<1>4. ASSUME NEW r \in RowIds, stored'[r] # 0 PROVE r \in held
    <2>1. stored'[r] = Times(r) \/ stored'[r] = stored[r]
        BY <1>1
    <2>2. Times(r) # 0 => r \in ToSet(answer)
        BY <1>2, TimesCounts
    <2>3. r \in ToSet(answer) => r \in held
        BY <1>2 DEF AnswerTypeOK, ToSet
    <2> QED BY <2>1, <2>2, <2>3, <1>2, <1>4 DEF StoredWasHeld
<1>5. AnswerTypeOK'
    BY <1>1, <1>2, <1>3 DEF AnswerTypeOK
<1> QED BY <1>1, <1>4, <1>5 DEF AnswerInv, StoredWasHeld, PagesBelong, InQuery

LEMMA AnswerInvStep == AnswerInv /\ [FetchNext]_fetchVars => AnswerInv'
<1> SUFFICES ASSUME AnswerInv, [FetchNext]_fetchVars PROVE AnswerInv'
    OBVIOUS
<1>1. AnswerTypeOK /\ StoredWasHeld /\ PagesBelong
    BY DEF AnswerInv
<1>2. CASE Publish
    BY <1>2, PublishKeeps
<1>3. CASE Reply
    <2>1. disturbed' => PagesBelong'
        BY DEF PagesBelong
    <2> QED BY <2>1, <1>3, ReplyTypes, ReplyBelongs DEF AnswerInv
<1>4. CASE Write
    BY <1>4, WriteKeeps
<1>5. CASE StartQuery \/ EndProcess
    <2>1. /\ UNCHANGED <<held, stored>>
          /\ answer' = <<>> /\ first' = {} /\ disturbed' = FALSE /\ offset' = 0 /\ total' = Unknown
          /\ pc' # "write"
        BY <1>5 DEF StartQuery, EndProcess
    <2>2. AnswerTypeOK'
        <3>1. answer' \in Seq(Nat) /\ Len(answer') = 0
            BY <2>1
        <3>2. disturbed' \in BOOLEAN
            BY <2>1, Zenon
        <3>3. UNCHANGED <<held, stored>> /\ first' \subseteq held /\ offset' \in Nat /\ total' = Unknown /\ pc' # "write"
            BY <2>1
        <3> QED BY <3>1, <3>2, <3>3, <1>1 DEF AnswerTypeOK
    <2>3. StoredWasHeld'
        BY <2>1, <1>1 DEF StoredWasHeld
    <2>4. PagesBelong'
        BY <2>1 DEF PagesBelong
    <2> QED BY <2>2, <2>3, <2>4 DEF AnswerInv
<1>6. CASE TimePasses \/ StartProcess \/ Check \/ Raise \/ Wait \/ Send \/ Retry \/ GiveUp \/ UNCHANGED fetchVars
    <2>1. /\ UNCHANGED <<held, stored, answer, first, disturbed, offset, total>>
          /\ pc' = pc \/ pc' \in {"ended", "idle"} \/ (InQuery /\ pc # "write" /\ pc' # "write")
        BY <1>6 DEF TimePasses, StartProcess, Check, Raise, Wait, Send, Retry, GiveUp, fetchVars, query, InQuery
    <2>2. AnswerTypeOK'
        BY <2>1, <1>1 DEF AnswerTypeOK
    <2>3. StoredWasHeld' /\ PagesBelong'
        BY <2>1, <1>1 DEF StoredWasHeld, PagesBelong, InQuery
    <2> QED BY <2>2, <2>3 DEF AnswerInv
<1> QED BY <1>2, <1>3, <1>4, <1>5, <1>6 DEF FetchNext

\* An answer whose pages belong together replaces a stored number by itself.
LEMMA StepKeepsNumbers ==
    ASSUME AnswerInv, FetchNext, NEW r \in RowIds, stored[r] = 1, ~disturbed
    PROVE  stored'[r] = 1
<1>1. CASE ~Write
    BY <1>1 DEF FetchNext, TimePasses, Publish, StartProcess, EndProcess, StartQuery, Check, Raise, Wait, Send,
                Reply, Retry, GiveUp
<1>2. CASE Write
    <2>1. pc = "write" /\ InQuery /\ total # Unknown /\ answer \in Seq(Nat)
        BY <1>2 DEF Write, InQuery, AnswerInv, AnswerTypeOK
    <2>2. r \in first /\ first \subseteq ToSet(answer) /\ IsInjective(answer)
        BY <2>1 DEF AnswerInv, StoredWasHeld, PagesBelong
    <2>3. Times(r) = 1
        BY <2>1, <2>2, TimesCounts
    <2> QED BY <1>2, <2>3 DEF Write
<1> QED BY <1>1, <1>2

-----------------------------------------------------------------------------

\* In no hour, wherever it starts, does one client send more requests than its
\* ceiling (ratelimit.py, acquire), for every ceiling and every hour.
THEOREM CeilingHolds == FetchSpec => []HourlyCeiling
<1>1. LimiterInv => HourlyCeiling
    BY DEF LimiterInv
<1> QED BY <1>1, LimiterInvInit, LimiterInvStep, PTL DEF FetchSpec

\* In no second, wherever it starts, does one client send more than its rate.
THEOREM PaceHolds == FetchSpec => []PacePerSecond
<1>1. LimiterInv => PacePerSecond
    BY DEF LimiterInv
<1> QED BY <1>1, LimiterInvInit, LimiterInvStep, PTL DEF FetchSpec

\* The hourly ceiling stops only a client that has sent that many requests in the last hour,
\* and never the backfill's where its rate leaves room, for every rate and ceiling, however
\* long it runs (ratelimit.py, acquire and sustainable_rate).
THEOREM CeilingStopsTheHasty == FetchSpec => CeilingStopsOnlyTheHasty
<1>1. CeilingInv /\ [FetchNext]_fetchVars =>
        [Raise => /\ Cardinality({i \in 1..Len(sent) : clock - sent[i] < Hour}) >= per_hour
                  /\ RoomToSpare => <<per_second, per_hour>> = DefaultLimits]_fetchVars
    BY RaiseIsEarned, SustainableRateHolds DEF CeilingInv
<1> QED BY <1>1, CeilingInvInit, CeilingInvStep, PTL DEF FetchSpec, CeilingStopsOnlyTheHasty

\* An answer whose pages belong together holds every row EIA had at the first page, and no row
\* twice, for any rows, page size, retries and rows published meanwhile (client.py, iter_rows).
THEOREM AnswersAreComplete == FetchSpec => []AnswerIsComplete
<1>1. AnswerInv => AnswerIsComplete
    BY DEF AnswerInv, AnswerTypeOK, PagesBelong, InQuery, AnswerIsComplete
<1> QED BY <1>1, AnswerInvInit, AnswerInvStep, PTL DEF FetchSpec

\* A number once stored stays, whatever queries fail, end early or are asked again, unless the
\* pages of the answer do not belong together (mappers.py, map_fuel_rows).
THEOREM NumbersStay == FetchSpec => NumbersAreKept
<1>1. AnswerInv /\ [FetchNext]_fetchVars =>
        [\A r \in RowIds : stored[r] = 1 /\ ~disturbed => stored'[r] = 1]_fetchVars
    BY StepKeepsNumbers
<1> QED BY <1>1, AnswerInvInit, AnswerInvStep, PTL DEF FetchSpec, NumbersAreKept
=============================================================================
