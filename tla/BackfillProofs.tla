--------------------------- MODULE BackfillProofs ---------------------------
(***************************************************************************)
(* A run of the backfill that reports success has covered its window, for  *)
(* any number of days and hours, wherever runs failed, were killed or were *)
(* overtaken by polls and truncations.                                     *)
(***************************************************************************)
EXTENDS Backfill, FiniteSetTheorems, TLAPS

\* What the run under way has done and knows.
RunInv ==
    /\ moment \in Hours /\ first \in Nat \ {0} /\ day \in first..(DayOf(moment) + 1)
    /\ phase = "write" => day \in Window
    /\ fetched \cup skipped = first..(day - 1) /\ fetched \cap skipped = {}
    /\ force => skipped = {}
    /\ \A h \in known : h \in published /\ h < moment /\ h <= latest
    /\ phase = "write" => answer \subseteq Hours /\ known \cap HoursOf(day) \subseteq answer
    /\ \A d \in fetched : d \in Days /\ marker[d] # NotFetched
    /\ \A h \in known : DayOf(h) \in fetched => h \in snapshot /\ (h \in obs \/ DayOf(h) \in emptied)

\* The inductive invariant.
BackfillInv ==
    /\ now \in Hours /\ published \subseteq Hours
    /\ marker \in [Days -> Nat \cup {NotFetched}]
    /\ phase \in {"idle", "day", "write"}
    /\ phase # "idle" => RunInv

-----------------------------------------------------------------------------
(* Days and hours.                                                         *)

\* An hour lies in a day.
LEMMA DayOfHour ==
    ASSUME NEW h \in Hours
    PROVE  DayOf(h) \in Days
<1>1. NumDays \in Nat \ {0} /\ HoursPerDay \in Nat \ {0} /\ h \in Nat /\ h >= 1
      /\ h <= NumDays * HoursPerDay
    BY BackfillConstants DEF Hours
<1> DEFINE q == (h - 1) \div HoursPerDay
           r == (h - 1) % HoursPerDay
<1>2. q \in Int /\ r \in Int /\ 0 <= r /\ h - 1 = HoursPerDay * q + r /\ r < HoursPerDay
    BY <1>1
<1> HIDE DEF q, r
<1>3. q >= 0
    <2> SUFFICES ASSUME q <= -1 PROVE FALSE
        BY <1>2
    <2>1. HoursPerDay * q <= -HoursPerDay
        BY <1>1, <1>2
    <2> QED BY <1>1, <1>2, <2>1
<1>4. q <= NumDays - 1
    <2> SUFFICES ASSUME q >= NumDays PROVE FALSE
        BY <1>1, <1>2
    <2>1. HoursPerDay * q >= HoursPerDay * NumDays
        BY <1>1, <1>2
    <2> QED BY <1>1, <1>2, <2>1
<1> QED BY <1>1, <1>2, <1>3, <1>4 DEF DayOf, Days, q

\* The newest of a set of hours is the newest.
LEMMA NewestIsNewest ==
    ASSUME NEW H \in SUBSET Hours, NEW h \in H
    PROVE  Newest(H) \in Int /\ h <= Newest(H)
<1> DEFINE n == NumDays * HoursPerDay
           Before == {ss \in Nat \X Nat : ss[1] < ss[2]}
           T == {n - g : g \in H}
<1>1. n \in Nat
    BY BackfillConstants
<1>2. \A g \in H : g \in Nat /\ g <= n
    BY <1>1 DEF Hours
<1>3. T \subseteq Nat /\ T # {}
    BY <1>1, <1>2
<1>4. OpToRel(<, Nat) = Before
    BY DEF OpToRel
<1>5. IsWellFoundedOn(Before, Nat)
    BY <1>4, NatLessThanWellFounded
<1>6. PICK x \in T : \A y \in T : ~ (<<y, x>> \in Before)
    BY <1>3, <1>5, WFMin
<1>7. PICK m \in H : x = n - m
    BY <1>6
<1>8. \A g \in H : m >= g
    <2> SUFFICES ASSUME NEW g \in H PROVE m >= g
        OBVIOUS
    <2>1. n - g \in T /\ n - g \in Nat /\ x \in Nat
        BY <1>3, <1>6
    <2>2. ~ (n - g < x)
        BY <1>6, <2>1
    <2> QED BY <1>1, <1>2, <1>7, <2>2
<1>9. Max(H) \in H /\ \A g \in H : Max(H) >= g
    BY <1>8 DEF Max
<1> QED BY <1>2, <1>9 DEF Newest

\* The number of rows a day's transaction counts is no missing marker.
LEMMA RowsAreCounted ==
    ASSUME NEW H \in SUBSET Hours
    PROVE  Cardinality(H) \in Nat /\ Cardinality(H) # NotFetched
<1>1. 1 \in Int /\ NumDays * HoursPerDay \in Int
    BY BackfillConstants
<1>2. IsFiniteSet(H)
    BY <1>1, FS_Interval, FS_Subset DEF Hours
<1> QED BY <1>2, FS_CardinalityType, BackfillConstants

-----------------------------------------------------------------------------
(* The steps.                                                              *)

LEMMA BackfillInit == Init => BackfillInv
BY BackfillConstants DEF Init, BackfillInv, Complete, Hours, Days

\* The world may move: hours are published and stored, and what is emptied is known.
LEMMA WorldMoves ==
    ASSUME BackfillInv, UNCHANGED <<marker, phase, force, moment, latest, first, day, answer,
                                    fetched, skipped, known>>,
           now' \in Hours, published' \subseteq Hours, published \subseteq published',
           snapshot \subseteq snapshot', emptied \subseteq emptied',
           \A h \in Hours : phase # "idle" /\ DayOf(h) \in fetched /\ h \in obs
                              => h \in obs' \/ DayOf(h) \in emptied'
    PROVE  BackfillInv'
<1>1. phase # "idle" => RunInv'
    <2> SUFFICES ASSUME phase # "idle" PROVE RunInv'
        OBVIOUS
    <2>1. RunInv
        BY DEF BackfillInv
    <2>2. known \subseteq Hours
        BY <2>1 DEF RunInv, BackfillInv
    <2> QED BY <2>1, <2>2 DEF RunInv, Window
<1> QED BY <1>1 DEF BackfillInv

LEMMA WorldKeeps ==
    ASSUME BackfillInv, Tick \/ Publish \/ Poll \/ Truncate
    PROVE  BackfillInv'
<1>1. CASE Tick
    BY <1>1, WorldMoves DEF Tick, run, BackfillInv
<1>2. CASE Publish
    <2>1. PICK h \in 1..now : published' = published \cup {h}
        BY <1>2 DEF Publish
    <2>2. h \in Hours
        BY <2>1, BackfillConstants DEF BackfillInv, Hours
    <2> QED BY <1>2, <2>1, <2>2, WorldMoves DEF Publish, run, BackfillInv
<1>3. CASE Poll
    BY <1>3, WorldMoves DEF Poll, run, BackfillInv
<1>4. CASE Truncate
    <2>1. ASSUME NEW h \in Hours, phase # "idle", DayOf(h) \in fetched, h \in obs
          PROVE  DayOf(h) \in emptied'
        <3>1. h \in HoursOf(DayOf(h)) \cap obs
            BY <2>1 DEF HoursOf
        <3>2. DayOf(h) \in Days /\ marker[DayOf(h)] # NotFetched
            BY <2>1 DEF BackfillInv, RunInv
        <3> QED BY <1>4, <3>1, <3>2 DEF Truncate
    <2> QED BY <1>4, <2>1, WorldMoves DEF Truncate, run, BackfillInv
<1> QED BY <1>1, <1>2, <1>3, <1>4

\* A run starts with an empty record, and reads the clock and endPeriod once.
LEMMA StartKeeps ==
    ASSUME BackfillInv, StartRun
    PROVE  BackfillInv'
<1>1. /\ phase' = "day" /\ moment' = now /\ latest' = Newest(published) /\ first' \in 1..DayOf(now)
      /\ day' = first' /\ fetched' = {} /\ skipped' = {} /\ known' = published \cap Complete(now)
      /\ UNCHANGED <<now, published, marker>>
    BY DEF StartRun, world
<1>2. DayOf(now) \in Int
    BY DayOfHour DEF BackfillInv, Days
<1>3. \A h \in published : h <= Newest(published)
    BY NewestIsNewest DEF BackfillInv
<1>4. PICK d \in 1..DayOf(now) : first' = d /\ day' = d
    BY <1>1
<1>5. /\ d \in Nat \ {0} /\ d \in d..(DayOf(now) + 1) /\ d..(d - 1) = {}
    BY <1>2
<1>6. /\ first' \in Nat \ {0} /\ day' \in first'..(DayOf(moment') + 1)
      /\ first'..(day' - 1) = {}
    BY <1>1, <1>4, <1>5
<1>7. RunInv'
    BY <1>1, <1>3, <1>6 DEF RunInv, BackfillInv, Complete
<1> QED BY <1>1, <1>7 DEF BackfillInv

LEMMA SkipKeeps ==
    ASSUME BackfillInv, SkipDay
    PROVE  BackfillInv'
<1>1. /\ phase = "day" /\ phase' = "day" /\ RunInv /\ day \in Window /\ ~force /\ marker[day] # NotFetched
      /\ skipped' = skipped \cup {day} /\ day' = day + 1
      /\ UNCHANGED <<force, moment, latest, first, answer, fetched, known>>
      /\ UNCHANGED <<now, published, obs, snapshot, marker, emptied>>
    BY DEF SkipDay, DayIsComplete, BackfillInv, world
<1>2. DayOf(moment) \in Int /\ first \in Int /\ day \in Int
    BY <1>1, DayOfHour DEF RunInv, Days
<1>3. day' \in first'..(DayOf(moment') + 1)
    BY <1>1, <1>2 DEF Window
<1>4. fetched' \cup skipped' = first'..(day' - 1) /\ fetched' \cap skipped' = {}
    <2>1. first..(day' - 1) = (first..(day - 1)) \cup {day}
        BY <1>1, <1>2 DEF Window
    <2>2. day \notin first..(day - 1)
        BY <1>2
    <2> QED BY <1>1, <2>1, <2>2 DEF RunInv
<1>5. RunInv'
    BY <1>1, <1>3, <1>4 DEF RunInv
<1> QED BY <1>1, <1>5 DEF BackfillInv

\* What EIA held of the day when the run started is in the answer.
LEMMA FetchKeeps ==
    ASSUME BackfillInv, FetchDay
    PROVE  BackfillInv'
<1>1. /\ phase = "day" /\ phase' = "write" /\ RunInv /\ day \in Window
      /\ answer' = {h \in HoursOf(day) \cap published \cap Complete(moment) : h <= latest}
      /\ UNCHANGED <<force, moment, latest, first, day, fetched, skipped, known>>
      /\ UNCHANGED <<now, published, obs, snapshot, marker, emptied>>
    BY DEF FetchDay, BackfillInv, world
<1>2. answer' \subseteq Hours /\ known \cap HoursOf(day) \subseteq answer'
    BY <1>1 DEF RunInv, HoursOf, Complete
<1>3. RunInv'
    BY <1>1, <1>2 DEF RunInv, Window
<1> QED BY <1>1, <1>3 DEF BackfillInv

LEMMA CommitKeeps ==
    ASSUME BackfillInv, CommitDay
    PROVE  BackfillInv'
<1>1. /\ phase = "write" /\ phase' = "day" /\ RunInv /\ day \in Window
      /\ obs' = obs \cup answer /\ snapshot' = snapshot \cup answer
      /\ marker' = [marker EXCEPT ![day] = Cardinality(answer \ obs)]
      /\ emptied' = emptied \ {day} /\ fetched' = fetched \cup {day} /\ day' = day + 1
      /\ UNCHANGED <<now, published, force, moment, latest, first, skipped, known>>
    BY DEF CommitDay, BackfillInv, RunInv
<1>2. DayOf(moment) \in Days /\ first \in Nat \ {0} /\ day \in Int
    BY <1>1, DayOfHour DEF RunInv, Window
<1>3. day \in Days
    BY <1>1, <1>2, BackfillConstants DEF Window, Days
<1>4. day' \in first'..(DayOf(moment') + 1)
    BY <1>1, <1>2 DEF Window, Days
<1>5. fetched' \cup skipped' = first'..(day' - 1) /\ fetched' \cap skipped' = {}
    <2>1. first..(day' - 1) = (first..(day - 1)) \cup {day}
        BY <1>1, <1>2 DEF Window
    <2>2. day \notin first..(day - 1)
        BY <1>2
    <2> QED BY <1>1, <2>1, <2>2 DEF RunInv
<1>6. Cardinality(answer \ obs) \in Nat /\ Cardinality(answer \ obs) # NotFetched
    <2>1. answer \ obs \in SUBSET Hours
        BY <1>1 DEF RunInv
    <2> QED BY <2>1, RowsAreCounted
<1>7. marker' \in [Days -> Nat \cup {NotFetched}]
    BY <1>1, <1>6 DEF BackfillInv
<1>8. \A d \in fetched' : d \in Days /\ marker'[d] # NotFetched
    BY <1>1, <1>3, <1>6 DEF RunInv, BackfillInv
<1>9. ASSUME NEW h \in known, DayOf(h) \in fetched'
      PROVE  h \in snapshot' /\ (h \in obs' \/ DayOf(h) \in emptied')
    <2>1. CASE DayOf(h) = day
        <3>1. h \in HoursOf(day)
            BY <1>1, <2>1 DEF RunInv, BackfillInv, HoursOf
        <3> QED BY <1>1, <3>1 DEF RunInv
    <2>2. CASE DayOf(h) # day
        BY <1>1, <1>9, <2>2 DEF RunInv
    <2> QED BY <2>1, <2>2
<1>10. RunInv'
    BY <1>1, <1>4, <1>5, <1>8, <1>9 DEF RunInv
<1> QED BY <1>1, <1>7, <1>10 DEF BackfillInv

LEMMA EndKeeps ==
    ASSUME BackfillInv, Finish \/ Fail
    PROVE  BackfillInv'
BY DEF Finish, Fail, Ended, BackfillInv

LEMMA BackfillStep == BackfillInv /\ [Next]_vars => BackfillInv'
<1> SUFFICES ASSUME BackfillInv, [Next]_vars PROVE BackfillInv'
    OBVIOUS
<1>1. CASE UNCHANGED vars
    BY <1>1 DEF vars, BackfillInv, RunInv, Window
<1> QED BY <1>1, WorldKeeps, StartKeeps, SkipKeeps, FetchKeeps, CommitKeeps, EndKeeps
        DEF Next, Advance

\* A run that reports success has dealt with every day of its window once, and every hour
\* EIA held of the days it fetched is stored with its snapshot, or was emptied since; for
\* any window, clock and history of failures (backfill.py, the day loop).
THEOREM SuccessCovers == Spec => RunCoversItsWindow
<1>1. BackfillInv /\ Finish =>
         /\ fetched \cup skipped = Window
         /\ fetched \cap skipped = {} /\ (force => skipped = {})
         /\ \A h \in known : DayOf(h) \in fetched =>
               h \in snapshot /\ (h \in obs \/ DayOf(h) \in emptied)
    <2> SUFFICES ASSUME BackfillInv, Finish
                 PROVE  /\ fetched \cup skipped = Window
                        /\ fetched \cap skipped = {} /\ (force => skipped = {})
                        /\ \A h \in known : DayOf(h) \in fetched =>
                              h \in snapshot /\ (h \in obs \/ DayOf(h) \in emptied)
        OBVIOUS
    <2>1. RunInv /\ day \notin Window
        BY DEF Finish, BackfillInv
    <2>2. DayOf(moment) \in Int /\ first \in Int /\ day \in Int
        BY <2>1, DayOfHour DEF RunInv, Days
    <2>3. first..(day - 1) = Window
        BY <2>1, <2>2 DEF RunInv, Window
    <2> QED BY <2>1, <2>3 DEF RunInv
<1>2. Spec => []BackfillInv
    BY BackfillInit, BackfillStep, PTL DEF Spec
<1>3. BackfillInv /\ [Next]_vars =>
        [Finish => /\ fetched \cup skipped = Window
                   /\ fetched \cap skipped = {} /\ (force => skipped = {})
                   /\ \A h \in known : DayOf(h) \in fetched =>
                         h \in snapshot /\ (h \in obs \/ DayOf(h) \in emptied)]_vars
    BY <1>1
<1> QED BY <1>2, <1>3, PTL DEF Spec, RunCoversItsWindow
=============================================================================
