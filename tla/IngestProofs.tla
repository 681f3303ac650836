---------------------------- MODULE IngestProofs ----------------------------
(***************************************************************************)
(* What holds of the ingest jobs for every number of jobs, rows, hours and *)
(* documents.                                                              *)
(***************************************************************************)
EXTENDS Ingest, TLAPS

-----------------------------------------------------------------------------
(* The operators the model is built from.                                  *)

\* Hours are documents, and what a document renders is a document.
LEMMA HoursAreDocs == Hours \subseteq Docs
BY MapDocsConstants DEF Hours, Docs

\* A rendering is a document; what is built may be no document.
LEMMA RenderType ==
    ASSUME NEW o \in [Rows -> Version], NEW d \in Docs
    PROVE  Render(o, d) \in Doc /\ Built(o, d) \in Doc \cup {NoDoc}
<1>1. Render(o, d) \in Doc
    BY DEF Render, Doc, Version
<1> QED BY <1>1 DEF Built

\* A document depends on its own rows only.
LEMMA BuiltFromItsRows ==
    ASSUME NEW d \in Docs, NEW o \in [Rows -> Version], NEW o2 \in [Rows -> Version],
           \A r \in DocRows(d) : o2[r] = o[r]
    PROVE  Built(o2, d) = Built(o, d)
<1>1. Render(o2, d) = Render(o, d)
    BY DEF Render
<1>2. (\A r \in DocRows(d) : o2[r] = 0) <=> (\A r \in DocRows(d) : o[r] = 0)
    OBVIOUS
<1> QED BY <1>1, <1>2 DEF Built

\* An hour is built whatever it holds.
LEMMA HourIsBuilt ==
    ASSUME NEW h \in Hours, NEW o \in [Rows -> Version]
    PROVE  Built(o, h) = Render(o, h) /\ Built(o, h) # NoDoc
<1>1. h \in Docs /\ h \notin Buckets
    BY HoursAreDocs DEF Buckets
<1>2. Built(o, h) = Render(o, h)
    BY <1>1 DEF Built
<1>3. Render(o, h) \in Doc
    BY <1>1, RenderType
<1> QED BY <1>2, <1>3, MapDocsConstants

\* What a job sees is a row function, and it rebuilds documents only.
LEMMA ViewType ==
    ASSUME TypeOK, NEW j \in Jobs
    PROVE  View(j) \in [Rows -> Version]
BY DEF View, TypeOK

\* Rows lie in hours.
LEMMA HoursInType ==
    ASSUME NEW R \in SUBSET Rows
    PROVE  HoursIn(R) \subseteq Hours
BY MapDocsConstants DEF HoursIn

\* An ingest job rebuilds documents, hours or buckets.
LEMMA TouchedType ==
    ASSUME TypeOK, NEW j \in Jobs
    PROVE  Touched(j) \subseteq Docs
<1>1. Support(j) \subseteq Rows
    BY DEF Support
<1>2. HoursIn(Support(j)) \subseteq Docs
    BY <1>1, HoursInType, HoursAreDocs
<1>3. Recent(View(j)) \subseteq Docs
    <2>1. HoursIn({r \in Rows : Dataset[r] = "region" /\ View(j)[r] # 0}) \subseteq Hours
        BY HoursInType
    <2> QED BY <2>1, HoursAreDocs DEF Recent
<1>4. \A H : BucketsOf(H) \subseteq Docs
    BY DEF BucketsOf, Buckets
<1>5. \A t : HoursIn(Of(Support(j), t)) \subseteq Docs
    <2> SUFFICES ASSUME NEW t PROVE HoursIn(Of(Support(j), t)) \subseteq Docs
        OBVIOUS
    <2>1. Of(Support(j), t) \in SUBSET Rows
        BY <1>1 DEF Of
    <2> QED BY <2>1, HoursInType, HoursAreDocs
<1> QED BY <1>2, <1>3, <1>4, <1>5 DEF Touched

\* One SELECT builds documents that are still to be built.
LEMMA BatchesType ==
    ASSUME TypeOK, NEW j \in Jobs, NEW D \in Batches(j)
    PROVE  D \subseteq todo[j]
BY DEF Batches

\* The end of a transaction keeps the types of what it resets.
LEMMA ReleaseType ==
    ASSUME TypeOK, NEW j \in Jobs, Release(j)
    PROVE  /\ phase' \in [Jobs -> Datasets \cup {"idle", "write", "build"}]
           /\ window' \in [Jobs -> SUBSET Rows]
           /\ got' \in [Jobs -> [Rows -> Version]]
           /\ written' \in [Jobs -> SUBSET Rows]
           /\ rev' \in [Jobs -> SUBSET Rows]
           /\ todo' \in [Jobs -> SUBSET Docs]
           /\ draft' \in [Jobs -> [Docs -> Doc \cup {NoDoc}]]
           /\ mine' \in [Jobs -> [Docs -> Doc \cup {NoDoc}]]
<1>1. NoRows \in [Rows -> Version] /\ NoDocs \in [Docs -> Doc \cup {NoDoc}]
    BY DEF NoRows, NoDocs, Version
<1> QED BY <1>1 DEF TypeOK, Release

-----------------------------------------------------------------------------
(* Type correctness.                                                       *)

\* The initial state has the types.
LEMMA TypeInit == Init => TypeOK
<1> SUFFICES ASSUME Init PROVE TypeOK
    OBVIOUS
<1>1. NoRows \in [Rows -> Version] /\ NoDocs \in [Docs -> Doc \cup {NoDoc}]
    BY DEF NoRows, NoDocs, Version
<1> QED BY <1>1 DEF Init, TypeOK, Version

\* Every step keeps them.
LEMMA TypeStep == TypeOK /\ [Next]_vars => TypeOK'
<1> SUFFICES ASSUME TypeOK, [Next]_vars PROVE TypeOK'
    OBVIOUS
<1>1. ASSUME NEW r \in Rows, Publish(r) PROVE TypeOK'
    BY <1>1 DEF TypeOK, Publish, txn, Version
<1>2. ASSUME NEW j \in Jobs, StartIngest(j) PROVE TypeOK'
    <2>1. window' \in [Jobs -> SUBSET Rows]
        <3>1. PICK W \in Windows[j] : window' = [window EXCEPT ![j] = W]
            BY <1>2 DEF StartIngest
        <3>2. W \in SUBSET Rows
            BY IngestConstants
        <3> QED BY <3>1, <3>2 DEF TypeOK
    <2>2. phase' \in [Jobs -> Datasets \cup {"idle", "write", "build"}]
        BY <1>2 DEF TypeOK, StartIngest, Datasets
    <2> QED BY <1>2, <2>1, <2>2 DEF TypeOK, StartIngest, base
<1>3. ASSUME NEW j \in Jobs, Fetch(j) PROVE TypeOK'
    <2>1. got' \in [Jobs -> [Rows -> Version]]
        BY <1>3 DEF TypeOK, Fetch, base
    <2>2. phase' \in [Jobs -> Datasets \cup {"idle", "write", "build"}]
        BY <1>3 DEF TypeOK, Fetch, AfterFetch, Datasets
    <2> QED BY <1>3, <2>1, <2>2 DEF TypeOK, Fetch, base
<1>4. ASSUME NEW j \in Jobs, WriteRow(j) PROVE TypeOK'
    BY <1>4 DEF TypeOK, WriteRow, Unwritten, Support, base
<1>5. ASSUME NEW j \in Jobs, EndWrites(j) PROVE TypeOK'
    BY <1>5, TouchedType DEF TypeOK, EndWrites, base
<1>6. ASSUME NEW j \in Jobs, StartRebuild(j) PROVE TypeOK'
    <2>1. \A m \in BOOLEAN : NeedingSnapshots(m) \subseteq Docs
        BY HoursInType, HoursAreDocs DEF NeedingSnapshots
    <2>2. \A u : {b \in Buckets : Resolution[b] = u} \subseteq Docs
        BY DEF Buckets
    <2>3. \E T \in SUBSET Docs : todo' = [todo EXCEPT ![j] = T]
        BY <1>6, <2>1, <2>2 DEF StartRebuild
    <2>4. todo' \in [Jobs -> SUBSET Docs]
        BY <2>3 DEF TypeOK
    <2>5. phase' \in [Jobs -> Datasets \cup {"idle", "write", "build"}]
        BY <1>6 DEF TypeOK, StartRebuild
    <2> QED BY <1>6, <2>4, <2>5 DEF TypeOK, StartRebuild, base
<1>7. ASSUME NEW j \in Jobs, BuildDocs(j) PROVE TypeOK'
    <2>1. \A d \in Docs : Built(View(j), d) \in Doc \cup {NoDoc}
        BY ViewType, RenderType
    <2>2. draft' \in [Jobs -> [Docs -> Doc \cup {NoDoc}]]
        BY <1>7, <2>1 DEF TypeOK, BuildDocs
    <2>3. todo' \in [Jobs -> SUBSET Docs]
        BY <1>7 DEF TypeOK, BuildDocs
    <2> QED BY <1>7, <2>2, <2>3 DEF TypeOK, BuildDocs, base
<1>8. ASSUME NEW j \in Jobs, StoreDoc(j) PROVE TypeOK'
    BY <1>8 DEF TypeOK, StoreDoc, base
<1>9. ASSUME NEW j \in Jobs, Commit(j) PROVE TypeOK'
    <2>1. /\ obs' \in [Rows -> Version]
          /\ revised_at' \in [Rows -> BOOLEAN]
          /\ docs' \in [Docs -> Doc \cup {NoDoc}]
        BY <1>9, ViewType DEF TypeOK, Commit
    <2>2. owed' \subseteq Docs
        BY <1>9 DEF TypeOK, Commit, Concerned
    <2>3. status' \in [Jobs -> {"never", "ok", "failed"}]
        BY <1>9 DEF TypeOK, Commit
    <2>4. marked' \in SUBSET SUBSET Rows
        BY <1>9 DEF TypeOK, Commit
    <2>5. Release(j) /\ published' = published /\ failures' = failures
        BY <1>9 DEF Commit
    <2> QED BY <2>1, <2>2, <2>3, <2>4, <2>5, ReleaseType DEF TypeOK
<1>10. ASSUME NEW j \in Jobs, FinishBackfill(j) PROVE TypeOK'
    BY <1>10 DEF TypeOK, FinishBackfill, txn
<1>11. ASSUME NEW j \in Jobs, Rollback(j), failures' \in Nat PROVE TypeOK'
    <2>1. status' \in [Jobs -> {"never", "ok", "failed"}]
        BY <1>11 DEF TypeOK, Rollback
    <2>2. Release(j) /\ UNCHANGED <<published, obs, revised_at, docs, marked, owed>>
        BY <1>11 DEF Rollback
    <2> QED BY <1>11, <2>1, <2>2, ReleaseType DEF TypeOK
<1>12. ASSUME NEW j \in Jobs, Fail(j) PROVE TypeOK'
    BY <1>12, <1>11 DEF Fail, TypeOK
<1>13. ASSUME NEW j \in Jobs, BreakDeadlock(j) PROVE TypeOK'
    BY <1>13, <1>11 DEF BreakDeadlock, TypeOK
<1>14. CASE UNCHANGED vars
    BY <1>14 DEF vars, TypeOK
<1> QED BY <1>1, <1>2, <1>3, <1>4, <1>5, <1>6, <1>7, <1>8, <1>9, <1>10, <1>12, <1>13, <1>14
        DEF Next, Step, Advance

\* The state keeps its types, for every instance.
THEOREM TypeCorrect == Spec => []TypeOK
BY TypeInit, TypeStep, PTL DEF Spec

-----------------------------------------------------------------------------
(* Freshness.  Two transactions that touch an hour both ask for a row EIA  *)
(* had published before either began, so both upsert it, and its lock lets *)
(* one of them build documents only after the other has ended.  Hence a    *)
(* document built and not yet committed still renders what its job sees.   *)

Ingesting(j) == Kind[j] \in IngestKinds

\* What a job has at each point of its transaction.
Asked(ph) == CASE ph = "mix" -> {"region"}
               [] ph = "interchange" -> {"region", "mix"}
               [] ph \in {"write", "build"} -> Datasets
               [] OTHER -> {}

Discipline(j) ==
    /\ phase[j] \notin {"write", "build"} => written[j] = {}
    /\ phase[j] # "build" =>
          todo[j] = {} /\ \A d \in Docs : draft[j][d] = NoDoc /\ mine[j][d] = NoDoc
    /\ Ingesting(j) /\ phase[j] # "idle" => window[j] \in Windows[j]
    /\ ~Ingesting(j) => /\ phase[j] \in {"idle", "build"} /\ window[j] = {}
                        /\ \A r \in Rows : got[j][r] = 0
    /\ \A r \in Rows : got[j][r] # 0 => r \in window[j] /\ phase[j] # "idle"
    /\ \A r \in Rows : got[j][r] <= published[r]
    /\ \A r \in window[j] \cap Anchors : Dataset[r] \in Asked(phase[j]) => got[j][r] # 0
    /\ written[j] \subseteq Support(j)
    /\ phase[j] = "build" => written[j] = Support(j)

AnchorsPublished == \A r \in Anchors : published[r] # 0
LockExclusion == \A j, k \in Jobs : j # k => written[j] \cap written[k] = {}

\* The hours a job is rebuilding or has rebuilt in this transaction.
InHand(j) == {h \in Hours : h \in todo[j] \/ draft[j][h] # NoDoc \/ mine[j][h] # NoDoc}

\* They are hours no transaction writes that does not meet this one at a lock.
Reach(j) ==
    \A h \in InHand(j) :
        Kind[j] # "rebuild" =>
            /\ Ingesting(j)
            /\ \A k \in Jobs \ {j} : Ingesting(k) =>
                  \A W \in Windows[k] : Meet(window[j], W) \/ h \notin HoursIn(W)

\* What is built and stored renders what the job sees.
Faithful(j) ==
    \A h \in Hours : /\ draft[j][h] # NoDoc => draft[j][h] = Built(View(j), h)
                     /\ mine[j][h] # NoDoc => mine[j][h] = Built(View(j), h)

\* Poll and backfill rebuild every hour they fetched.
Covering(j) ==
    phase[j] = "build" /\ Kind[j] \in {"poll", "backfill"} =>
        HoursIn(Support(j)) \subseteq InHand(j)

NoRebuild == \A j \in Jobs : Kind[j] # "rebuild"

IInv == /\ TypeOK
        /\ AnchorsPublished
        /\ LockExclusion
        /\ \A j \in Jobs : Discipline(j) /\ Reach(j) /\ Covering(j)
        /\ NoRebuild => /\ \A j \in Jobs : Faithful(j)
                        /\ StaleHourIsOwed
        /\ OnlyReviseOwesHours

-----------------------------------------------------------------------------
(* What a step of one job leaves of another's transaction.                 *)

SameTxn(k) ==
    /\ phase'[k] = phase[k] /\ window'[k] = window[k] /\ got'[k] = got[k]
    /\ written'[k] = written[k] /\ rev'[k] = rev[k] /\ todo'[k] = todo[k]
    /\ draft'[k] = draft[k] /\ mine'[k] = mine[k]

PublishedGrows == \A r \in Rows : published'[r] \in Nat /\ published[r] <= published'[r]

\* A job whose transaction another job's step leaves alone keeps its progress.
LEMMA SameTxnKeeps ==
    ASSUME TypeOK, NEW k \in Jobs, SameTxn(k), PublishedGrows,
           Discipline(k), Reach(k), Covering(k)
    PROVE  Discipline(k)' /\ Reach(k)' /\ Covering(k)'
<1>1. Support(k)' = Support(k) /\ InHand(k)' = InHand(k)
    BY DEF SameTxn, Support, InHand
<1>2. \A r \in Rows : got'[k][r] <= published'[r]
    <2> SUFFICES ASSUME NEW r \in Rows PROVE got'[k][r] <= published'[r]
        OBVIOUS
    <2>1. got[k][r] \in Nat /\ published[r] \in Nat /\ got[k][r] <= published[r]
        BY DEF TypeOK, Version, Discipline
    <2>2. published'[r] \in Nat /\ published[r] <= published'[r] /\ got'[k][r] = got[k][r]
        BY DEF PublishedGrows, SameTxn
    <2> QED BY <2>1, <2>2
<1>3. Discipline(k)'
    BY <1>1, <1>2 DEF SameTxn, Discipline, Ingesting
<1>4. Reach(k)'
    BY <1>1 DEF SameTxn, Reach, Ingesting
<1>5. Covering(k)'
    BY <1>1 DEF SameTxn, Covering
<1> QED BY <1>3, <1>4, <1>5

\* A step of job j that leaves EIA and the committed state alone keeps the invariant
\* if it keeps j's own part of it and takes no lock another job holds.
LEMMA PrivateStep ==
    ASSUME IInv, TypeOK', NEW j \in Jobs,
           UNCHANGED <<published, obs, docs, owed>>,
           \A k \in Jobs \ {j} : SameTxn(k) /\ written'[j] \cap written[k] = {},
           Discipline(j)', Reach(j)', Covering(j)',
           NoRebuild => Faithful(j)'
    PROVE  IInv'
<1>1. PublishedGrows
    BY DEF PublishedGrows, IInv, TypeOK, Version
<1>2. ASSUME NEW k \in Jobs PROVE Discipline(k)' /\ Reach(k)' /\ Covering(k)'
    BY <1>1, SameTxnKeeps DEF IInv
<1>3. LockExclusion'
    BY DEF IInv, LockExclusion, SameTxn
<1>4. ASSUME NoRebuild, NEW k \in Jobs PROVE Faithful(k)'
    <2>1. CASE k = j
        BY <1>4, <2>1
    <2>2. CASE k # j
        <3>1. View(k)' = View(k)
            BY <2>2 DEF View, SameTxn
        <3>2. \A h \in Hours : Built(View(k)', h) = Built(View(k), h)
            BY <3>1
        <3> QED BY <1>4, <2>2, <3>2 DEF Faithful, SameTxn, IInv
    <2> QED BY <2>1, <2>2
<1>5. StaleHourIsOwed => StaleHourIsOwed'
    BY DEF StaleHourIsOwed, Fresh, Agrees
<1>6. OnlyReviseOwesHours'
    BY DEF IInv, OnlyReviseOwesHours
<1>7. AnchorsPublished'
    BY DEF IInv, AnchorsPublished
<1> QED BY <1>2, <1>3, <1>4, <1>5, <1>6, <1>7 DEF IInv, NoRebuild

-----------------------------------------------------------------------------
(* The steps inside a transaction.                                         *)

\* A job that starts has only chosen a window.
LEMMA StartIngestKeeps ==
    ASSUME IInv, TypeOK', NEW j \in Jobs, StartIngest(j)
    PROVE  IInv'
<1>1. TypeOK /\ Discipline(j) /\ Ingesting(j) /\ phase[j] = "idle"
    BY DEF IInv, StartIngest, Ingesting
<1>2. phase'[j] = "region" /\ window'[j] \in Windows[j]
    BY <1>1 DEF StartIngest, TypeOK
<1>3. /\ UNCHANGED <<published, obs, docs, owed, got, written, rev, todo, draft, mine>>
      /\ \A k \in Jobs \ {j} : SameTxn(k)
    BY <1>1 DEF StartIngest, base, SameTxn, TypeOK
<1>4. written[j] = {} /\ \A r \in Rows : got[j][r] = 0
    BY <1>1 DEF Discipline
<1>5. Discipline(j)'
    BY <1>1, <1>2, <1>3, <1>4 DEF Discipline, Ingesting, Asked, Support
<1>6. InHand(j)' = {}
    BY <1>1, <1>3, HoursAreDocs DEF Discipline, InHand
<1>7. Reach(j)' /\ Covering(j)'
    BY <1>2, <1>6 DEF Reach, Covering
<1>8. Faithful(j)'
    BY <1>1, <1>3, HoursAreDocs DEF Discipline, Faithful
<1> QED BY <1>3, <1>4, <1>5, <1>7, <1>8, PrivateStep

\* An answer holds published values of the rows asked for, the anchors among them.
LEMMA FetchKeeps ==
    ASSUME IInv, TypeOK', NEW j \in Jobs, Fetch(j)
    PROVE  IInv'
<1>1. TypeOK /\ Discipline(j) /\ phase[j] \in Datasets
    BY DEF IInv, Fetch
<1>2. /\ UNCHANGED <<published, obs, docs, owed, window, written, rev, todo, draft, mine>>
      /\ \A k \in Jobs \ {j} : SameTxn(k)
    BY <1>1 DEF Fetch, base, SameTxn, TypeOK
<1>3. phase'[j] = AfterFetch(phase[j])
    BY <1>1 DEF Fetch, TypeOK
<1>4. \A r \in Rows : got'[j][r] = IF r \in window[j] /\ Dataset[r] = phase[j]
                                  THEN published[r] ELSE got[j][r]
    BY <1>1 DEF Fetch, TypeOK
<1>5. written[j] = {} /\ Ingesting(j)
    BY <1>1 DEF Discipline, Datasets
<1>6. \A r \in Rows : got'[j][r] <= published'[r]
    <2> SUFFICES ASSUME NEW r \in Rows PROVE got'[j][r] <= published'[r]
        OBVIOUS
    <2>1. published[r] \in Nat /\ got[j][r] <= published[r] /\ published'[r] = published[r]
        BY <1>1, <1>2 DEF Discipline, TypeOK, Version
    <2>2. got'[j][r] = published[r] \/ got'[j][r] = got[j][r]
        BY <1>4
    <2> QED BY <2>1, <2>2
<1>7. \A r \in window[j] \cap Anchors : Dataset[r] \in Asked(phase'[j]) => got'[j][r] # 0
    <2> SUFFICES ASSUME NEW r \in window[j] \cap Anchors, Dataset[r] \in Asked(phase'[j])
                 PROVE  got'[j][r] # 0
        OBVIOUS
    <2>1. r \in Rows /\ Dataset[r] \in Datasets
        BY IngestConstants, MapDocsConstants
    <2>2. published[r] # 0
        BY DEF IInv, AnchorsPublished
    <2>3. Dataset[r] = phase[j] \/ Dataset[r] \in Asked(phase[j])
        BY <1>1, <1>3, <2>1 DEF Asked, AfterFetch, Datasets
    <2> QED BY <1>1, <1>4, <2>1, <2>2, <2>3 DEF Discipline
<1>8. \A r \in Rows : got'[j][r] # 0 => r \in window[j]
    BY <1>1, <1>4 DEF Discipline
<1>9. phase'[j] \in {"mix", "interchange", "write"}
    BY <1>1, <1>3 DEF AfterFetch, Datasets
<1>10. window[j] \in Windows[j]
    BY <1>1, <1>5 DEF Discipline, Datasets
<1>11. Discipline(j)'
    BY <1>1, <1>2, <1>5, <1>6, <1>7, <1>8, <1>9, <1>10
       DEF Discipline, Ingesting, Datasets, Support
<1>12. InHand(j)' = {}
    BY <1>1, <1>2, HoursAreDocs DEF Discipline, InHand, Datasets
<1>13. Reach(j)' /\ Covering(j)'
    BY <1>9, <1>12 DEF Reach, Covering
<1>14. Faithful(j)'
    BY <1>1, <1>2, HoursAreDocs DEF Discipline, Faithful, Datasets
<1> QED BY <1>2, <1>5, <1>11, <1>13, <1>14, PrivateStep

\* The next row is taken only where no other transaction holds it.
LEMMA WriteRowKeeps ==
    ASSUME IInv, TypeOK', NEW j \in Jobs, WriteRow(j)
    PROVE  IInv'
<1>1. TypeOK /\ Discipline(j) /\ phase[j] = "write"
    BY DEF IInv, WriteRow
<1>2. PICK r \in Unwritten(j) :
          /\ \A k \in Jobs \ {j} : r \notin written[k]
          /\ written' = [written EXCEPT ![j] = @ \cup {r}]
    BY DEF WriteRow
<1>3. /\ UNCHANGED <<published, obs, docs, owed, phase, window, got, todo, draft, mine>>
      /\ \A k \in Jobs \ {j} : SameTxn(k)
    BY <1>1 DEF WriteRow, base, SameTxn, TypeOK
<1>4. written'[j] = written[j] \cup {r}
    BY <1>1, <1>2 DEF TypeOK
<1>5. \A k \in Jobs \ {j} : written'[j] \cap written[k] = {}
    BY <1>2, <1>4 DEF IInv, LockExclusion
<1>6. Discipline(j)'
    BY <1>1, <1>2, <1>3, <1>4 DEF Discipline, Ingesting, Unwritten, Support, Asked
<1>7. InHand(j)' = {}
    BY <1>1, <1>3, HoursAreDocs DEF Discipline, InHand
<1>8. Reach(j)' /\ Covering(j)'
    BY <1>1, <1>3, <1>7 DEF Reach, Covering
<1>9. Faithful(j)'
    BY <1>1, <1>3, HoursAreDocs DEF Discipline, Faithful
<1> QED BY <1>3, <1>5, <1>6, <1>8, <1>9, PrivateStep

\* A poll's two newest region hours are as new as any two region rows it wrote.
LEMMA RecentIsNew ==
    ASSUME NEW o, NEW q \in Rows, NEW r \in Rows, NEW h \in Recent(o),
           Dataset[q] = "region", Dataset[r] = "region", o[q] # 0, o[r] # 0,
           HourOf[q] < HourOf[r]
    PROVE  ~(h < HourOf[q])
BY DEF Recent, HoursIn

\* The hours to rebuild are hours no transaction writes that does not meet this one.
LEMMA EndWritesKeeps ==
    ASSUME IInv, TypeOK', NEW j \in Jobs, EndWrites(j)
    PROVE  IInv'
<1>1. TypeOK /\ Discipline(j) /\ phase[j] = "write" /\ Unwritten(j) = {}
    BY DEF IInv, EndWrites
<1>2. /\ UNCHANGED <<published, obs, docs, owed, window, got, written, draft, mine>>
      /\ \A k \in Jobs \ {j} : SameTxn(k)
      /\ phase'[j] = "build" /\ todo'[j] = Touched(j)
    BY <1>1 DEF EndWrites, base, SameTxn, TypeOK
<1>3. Ingesting(j) /\ window[j] \in Windows[j] /\ written[j] = Support(j)
    BY <1>1 DEF Discipline, Unwritten
<1>4. \A h \in Hours : draft[j][h] = NoDoc /\ mine[j][h] = NoDoc
    BY <1>1, HoursAreDocs DEF Discipline
<1>5. InHand(j)' = Touched(j) \cap Hours
    BY <1>2, <1>4 DEF InHand
<1>6. Support(j)' = Support(j) /\ Support(j) \subseteq window[j]
    BY <1>1, <1>2 DEF Support, Discipline
<1>7. Discipline(j)'
    BY <1>1, <1>2, <1>3, <1>6 DEF Discipline, Ingesting, Asked
<1>8. HoursIn(Support(j)) \subseteq Hours
    BY HoursInType DEF Support
<1>9. Covering(j)'
    BY <1>2, <1>5, <1>6, <1>8 DEF Covering, Touched, Ingesting, IngestKinds
<1>10. ASSUME NEW k \in Jobs \ {j}, Ingesting(k), NEW W \in Windows[k],
              ~Meet(window[j], W), NEW h \in Touched(j) \cap Hours, h \in HoursIn(W)
       PROVE  FALSE
    <2>1. Apart(window[j], W) /\ (Kind[j] = "poll" => NewerThan(window[j], W))
        BY <1>3, <1>10, WindowsOverlap DEF Ingesting
    <2>2. h \notin HoursIn(Support(j))
        BY <1>6, <1>10, <2>1 DEF Apart, HoursIn
    <2>3. Kind[j] = "poll" /\ h \in Recent(View(j))
        <3>1. \A t : HoursIn(Of(Support(j), t)) \subseteq HoursIn(Support(j))
            BY DEF HoursIn, Of
        <3>2. \A H : BucketsOf(H) \cap Hours = {}
            BY DEF BucketsOf, Buckets
        <3> QED BY <1>10, <2>2, <3>1, <3>2 DEF Touched
    <2>4. PICK q, r \in Of(window[j] \cap Anchors, "region") :
              HourOf[q] < HourOf[r] /\ \A w \in W : HourOf[w] < HourOf[q]
        BY <2>1, <2>3 DEF NewerThan
    <2>5. /\ q \in Rows /\ r \in Rows /\ q \in written[j] /\ r \in written[j]
          /\ got[j][q] # 0 /\ got[j][r] # 0
          /\ Dataset[q] = "region" /\ Dataset[r] = "region"
        BY <1>1, <1>3, <2>4, IngestConstants DEF Of, Discipline, Asked, Support, Datasets
    <2>6. View(j)[q] # 0 /\ View(j)[r] # 0
        BY <2>5 DEF View
    <2>7. ~(h < HourOf[q])
        BY <2>3, <2>4, <2>5, <2>6, RecentIsNew
    <2> QED BY <1>10, <2>4, <2>7 DEF HoursIn
<1>11. Reach(j)'
    BY <1>2, <1>3, <1>5, <1>10 DEF Reach, Ingesting
<1>12. Faithful(j)'
    BY <1>2, <1>4 DEF Faithful
<1>13. \A k \in Jobs \ {j} : written'[j] \cap written[k] = {}
    BY <1>2 DEF IInv, LockExclusion
<1> QED BY <1>2, <1>7, <1>9, <1>11, <1>12, <1>13, PrivateStep

\* A command has no rows; only rebuild-snapshots rebuilds hours.
LEMMA StartRebuildKeeps ==
    ASSUME IInv, TypeOK', NEW j \in Jobs, StartRebuild(j)
    PROVE  IInv'
<1>1. TypeOK /\ Discipline(j) /\ phase[j] = "idle" /\ ~Ingesting(j)
    BY DEF IInv, StartRebuild, Ingesting, IngestKinds
<1>2. /\ UNCHANGED <<published, obs, docs, owed, window, got, written, draft, mine>>
      /\ \A k \in Jobs \ {j} : SameTxn(k)
      /\ phase'[j] = "build"
    BY <1>1 DEF StartRebuild, base, SameTxn, TypeOK
<1>3. Kind[j] # "rebuild" => todo'[j] \cap Hours = {}
    <2>1. SUFFICES ASSUME Kind[j] # "rebuild" PROVE todo'[j] \cap Hours = {}
        OBVIOUS
    <2>2. PICK u \in 1..3 : todo' = [todo EXCEPT ![j] = {b \in Buckets : Resolution[b] = u}]
        BY <2>1 DEF StartRebuild
    <2>3. todo'[j] \subseteq Buckets
        BY <1>1, <2>2 DEF TypeOK
    <2> QED BY <2>3 DEF Buckets
<1>4. \A h \in Hours : draft[j][h] = NoDoc /\ mine[j][h] = NoDoc
    BY <1>1, HoursAreDocs DEF Discipline
<1>5. written[j] = {} /\ \A r \in Rows : got[j][r] = 0
    BY <1>1 DEF Discipline
<1>6. Discipline(j)'
    BY <1>1, <1>2, <1>5 DEF Discipline, Ingesting, Support
<1>7. Covering(j)'
    BY <1>1 DEF Covering, Ingesting, IngestKinds
<1>8. Reach(j)'
    BY <1>2, <1>3, <1>4 DEF Reach, InHand
<1>9. Faithful(j)'
    BY <1>2, <1>4 DEF Faithful
<1> QED BY <1>2, <1>5, <1>6, <1>7, <1>8, <1>9, PrivateStep

\* What is built renders what the job sees.
LEMMA BuildDocsKeeps ==
    ASSUME IInv, TypeOK', NEW j \in Jobs, BuildDocs(j)
    PROVE  IInv'
<1>1. TypeOK /\ Discipline(j) /\ Reach(j) /\ Covering(j) /\ phase[j] = "build"
    BY DEF IInv, BuildDocs
<1>2. PICK D \in Batches(j) :
          /\ draft' = [draft EXCEPT ![j] =
                         [d \in Docs |-> IF d \in D THEN Built(View(j), d) ELSE NoDoc]]
          /\ todo' = [todo EXCEPT ![j] = @ \ D]
    BY DEF BuildDocs
<1>3. /\ UNCHANGED <<published, obs, docs, owed, phase, window, got, written, mine>>
      /\ \A k \in Jobs \ {j} : SameTxn(k)
    BY <1>1, <1>2 DEF BuildDocs, base, SameTxn, TypeOK
<1>4. D \subseteq todo[j]
    BY <1>1, BatchesType
<1>5. \A d \in Docs : draft[j][d] = NoDoc
    BY DEF BuildDocs, NothingToStore
<1>6. todo'[j] = todo[j] \ D
    BY <1>1, <1>2 DEF TypeOK
<1>7. \A h \in Hours : draft'[j][h] = IF h \in D THEN Built(View(j), h) ELSE NoDoc
    BY <1>1, <1>2, HoursAreDocs DEF TypeOK
<1>8. \A h \in Hours : Built(View(j), h) # NoDoc
    BY <1>1, HourIsBuilt, ViewType
<1>9. View(j)' = View(j) /\ Support(j)' = Support(j)
    BY <1>3 DEF View, Support
<1>10. InHand(j)' = InHand(j)
    <2> SUFFICES ASSUME NEW h \in Hours
                 PROVE  (h \in todo'[j] \/ draft'[j][h] # NoDoc \/ mine'[j][h] # NoDoc)
                          <=> (h \in todo[j] \/ draft[j][h] # NoDoc \/ mine[j][h] # NoDoc)
        BY DEF InHand
    <2>1. draft[j][h] = NoDoc /\ mine'[j][h] = mine[j][h]
        BY <1>3, <1>5, HoursAreDocs
    <2> QED BY <1>4, <1>6, <1>7, <1>8, <2>1
<1>11. Discipline(j)'
    BY <1>1, <1>3, <1>9 DEF Discipline, Ingesting
<1>12. Reach(j)' /\ Covering(j)'
    BY <1>1, <1>3, <1>9, <1>10 DEF Reach, Covering, Ingesting
<1>13. NoRebuild => Faithful(j)'
    <2> SUFFICES ASSUME NoRebuild, Faithful(j), NEW h \in Hours
                 PROVE  /\ draft'[j][h] # NoDoc => draft'[j][h] = Built(View(j), h)
                        /\ mine'[j][h] # NoDoc => mine'[j][h] = Built(View(j), h)
        BY <1>9 DEF Faithful, IInv
    <2> QED BY <1>3, <1>7 DEF Faithful
<1>14. \A k \in Jobs \ {j} : written'[j] \cap written[k] = {}
    BY <1>3 DEF IInv, LockExclusion
<1> QED BY <1>3, <1>11, <1>12, <1>13, <1>14, PrivateStep

\* What is stored is what was built.
LEMMA StoreDocKeeps ==
    ASSUME IInv, TypeOK', NEW j \in Jobs, StoreDoc(j)
    PROVE  IInv'
<1>1. TypeOK /\ Discipline(j) /\ Reach(j) /\ Covering(j) /\ phase[j] = "build"
    BY DEF IInv, StoreDoc
<1>2. PICK d \in Docs :
          /\ draft[j][d] # NoDoc
          /\ mine' = [mine EXCEPT ![j][d] = draft[j][d]]
          /\ draft' = [draft EXCEPT ![j][d] = NoDoc]
    BY DEF StoreDoc
<1>3. /\ UNCHANGED <<published, obs, docs, owed, phase, window, got, written, todo>>
      /\ \A k \in Jobs \ {j} : SameTxn(k)
    BY <1>1, <1>2 DEF StoreDoc, base, SameTxn, TypeOK
<1>4. \A h \in Hours : /\ mine'[j][h] = IF h = d THEN draft[j][h] ELSE mine[j][h]
                      /\ draft'[j][h] = IF h = d THEN NoDoc ELSE draft[j][h]
    BY <1>1, <1>2, HoursAreDocs DEF TypeOK
<1>5. View(j)' = View(j) /\ Support(j)' = Support(j)
    BY <1>3 DEF View, Support
<1>6. InHand(j)' = InHand(j)
    BY <1>2, <1>3, <1>4 DEF InHand
<1>7. Discipline(j)'
    BY <1>1, <1>3, <1>5 DEF Discipline, Ingesting
<1>8. Reach(j)' /\ Covering(j)'
    BY <1>1, <1>3, <1>5, <1>6 DEF Reach, Covering, Ingesting
<1>9. NoRebuild => Faithful(j)'
    <2> SUFFICES ASSUME NoRebuild, Faithful(j), NEW h \in Hours
                 PROVE  /\ draft'[j][h] # NoDoc => draft'[j][h] = Built(View(j), h)
                        /\ mine'[j][h] # NoDoc => mine'[j][h] = Built(View(j), h)
        BY <1>5 DEF Faithful, IInv
    <2> QED BY <1>4 DEF Faithful
<1>10. \A k \in Jobs \ {j} : written'[j] \cap written[k] = {}
    BY <1>3 DEF IInv, LockExclusion
<1> QED BY <1>3, <1>7, <1>8, <1>9, <1>10, PrivateStep

-----------------------------------------------------------------------------
(* The end of a transaction.                                               *)

\* A job that has released everything holds its part of the invariant trivially.
LEMMA ReleasedIsClean ==
    ASSUME TypeOK, TypeOK', NEW j \in Jobs, Release(j)
    PROVE  /\ Discipline(j)' /\ Reach(j)' /\ Covering(j)' /\ Faithful(j)'
           /\ written'[j] = {}
           /\ \A k \in Jobs \ {j} : SameTxn(k)
<1>1. /\ phase'[j] = "idle" /\ window'[j] = {} /\ got'[j] = NoRows /\ written'[j] = {}
      /\ todo'[j] = {} /\ draft'[j] = NoDocs /\ mine'[j] = NoDocs
      /\ \A k \in Jobs \ {j} : SameTxn(k)
    BY DEF Release, TypeOK, SameTxn
<1>2. \A r \in Rows : got'[j][r] = 0
    BY <1>1 DEF NoRows
<1>3. \A d \in Docs : draft'[j][d] = NoDoc /\ mine'[j][d] = NoDoc
    BY <1>1 DEF NoDocs
<1>4. \A r \in Rows : got'[j][r] <= published'[r]
    <2> SUFFICES ASSUME NEW r \in Rows PROVE got'[j][r] <= published'[r]
        OBVIOUS
    <2>1. published'[r] \in Nat /\ got'[j][r] = 0
        BY <1>2 DEF TypeOK, Version
    <2> QED BY <2>1
<1>5. Discipline(j)'
    BY <1>1, <1>2, <1>3, <1>4 DEF Discipline, Support
<1>6. InHand(j)' = {}
    BY <1>1, <1>3, HoursAreDocs DEF InHand
<1> QED BY <1>1, <1>3, <1>5, <1>6, HoursAreDocs DEF Reach, Covering, Faithful

\* A transaction that ends without a trace disturbs nobody.
LEMMA RollbackKeeps ==
    ASSUME IInv, TypeOK', NEW j \in Jobs, Rollback(j)
    PROVE  IInv'
<1>1. Release(j) /\ UNCHANGED <<published, obs, docs, owed>>
    BY DEF Rollback
<1>2. TypeOK
    BY DEF IInv
<1> QED BY <1>1, <1>2, ReleasedIsClean, PrivateStep

\* No other job's documents in hand render a row that a commit changes: the two
\* would have met at an anchor's lock.
LEMMA CommitDisturbsNobody ==
    ASSUME IInv, NEW j \in Jobs, NEW k \in Jobs \ {j}, phase[j] = "build",
           Kind[k] # "rebuild", NEW h \in InHand(k), NEW r \in Rows,
           HourOf[r] = h, r \notin written[k]
    PROVE  View(j)[r] = obs[r]
<1>1. SUFFICES ASSUME r \in written[j] PROVE FALSE
    BY DEF View
<1>2. Discipline(j) /\ Discipline(k) /\ Reach(k) /\ TypeOK
    BY DEF IInv
<1>3. got[j][r] # 0 /\ r \in window[j] /\ Ingesting(j)
    BY <1>1, <1>2 DEF Discipline, Support
<1>4. window[j] \in Windows[j]
    BY <1>2, <1>3 DEF Discipline
<1>5. h \in HoursIn(window[j])
    BY <1>3 DEF HoursIn
<1>6. Ingesting(k) /\ Meet(window[k], window[j])
    BY <1>2, <1>3, <1>4, <1>5 DEF Reach
<1>7. PICK a \in Anchors : a \in window[k] /\ a \in window[j]
    BY <1>6 DEF Meet
<1>8. a \in Rows /\ Dataset[a] \in Datasets
    BY IngestConstants, MapDocsConstants
<1>9. phase[k] = "build"
    <2>1. h \in Docs /\ (h \in todo[k] \/ draft[k][h] # NoDoc \/ mine[k][h] # NoDoc)
        BY HoursAreDocs DEF InHand
    <2> QED BY <1>2, <2>1 DEF Discipline
<1>10. a \in written[j] /\ a \in written[k]
    BY <1>2, <1>7, <1>8, <1>9 DEF Discipline, Asked, Support
<1> QED BY <1>10 DEF IInv, LockExclusion

\* A commit keeps the invariant: its own part is reset, the others' is not disturbed.
LEMMA CommitKeeps ==
    ASSUME IInv, TypeOK', NEW j \in Jobs, Commit(j)
    PROVE  IInv'
<1>1. /\ TypeOK /\ Discipline(j) /\ Covering(j) /\ phase[j] = "build" /\ todo[j] = {}
      /\ Release(j) /\ published' = published /\ obs' = View(j)
      /\ \A d \in Docs : draft[j][d] = NoDoc
    BY DEF IInv, Commit, NothingToStore
<1>2. /\ Discipline(j)' /\ Reach(j)' /\ Covering(j)' /\ Faithful(j)' /\ written'[j] = {}
      /\ \A k \in Jobs \ {j} : SameTxn(k)
    BY <1>1, ReleasedIsClean
<1>3. PublishedGrows
    BY <1>1 DEF PublishedGrows, TypeOK, Version
<1>4. ASSUME NEW k \in Jobs PROVE Discipline(k)' /\ Reach(k)' /\ Covering(k)'
    BY <1>1, <1>2, <1>3, SameTxnKeeps DEF IInv
<1>5. LockExclusion'
    BY <1>2 DEF IInv, LockExclusion, SameTxn
<1>6. AnchorsPublished'
    BY <1>1 DEF IInv, AnchorsPublished
<1>7. View(j) \in [Rows -> Version] /\ obs \in [Rows -> Version]
    BY <1>1, ViewType DEF TypeOK
<1>8. \A d \in Docs : docs'[d] = IF mine[j][d] # NoDoc THEN mine[j][d] ELSE docs[d]
    BY DEF Commit
<1>9. owed' = (owed \cup Concerned(obs, View(j))) \ Stored(j)
    BY DEF Commit
<1>10. ASSUME NoRebuild, NEW k \in Jobs PROVE Faithful(k)'
    <2>1. CASE k = j
        BY <1>2, <2>1
    <2>2. CASE k # j
        <3>1. SUFFICES ASSUME NEW h \in InHand(k)
                       PROVE  Built(View(k)', h) = Built(View(k), h)
            BY <1>2, <1>10, <2>2 DEF Faithful, SameTxn, InHand, IInv
        <3>2. \A r \in DocRows(h) : View(k)'[r] = View(k)[r]
            <4> SUFFICES ASSUME NEW r \in Rows, HourOf[r] = h PROVE View(k)'[r] = View(k)[r]
                BY DEF DocRows, Covers, InHand
            <4>1. CASE r \in written[k]
                BY <1>2, <2>2, <4>1 DEF View, SameTxn
            <4>2. CASE r \notin written[k]
                <5>1. View(j)[r] = obs[r]
                    BY <1>1, <1>10, <2>2, <4>2, CommitDisturbsNobody DEF NoRebuild
                <5> QED BY <1>1, <1>2, <2>2, <4>2, <5>1 DEF View, SameTxn
            <4> QED BY <4>1, <4>2
        <3>3. View(k) \in [Rows -> Version] /\ View(k)' \in [Rows -> Version]
            <4>1. View(k) \in [Rows -> Version]
                BY <1>1, ViewType
            <4>2. View(k)' \in [Rows -> Version]
                BY DEF View, TypeOK
            <4> QED BY <4>1, <4>2
        <3>4. h \in Docs
            BY HoursAreDocs DEF InHand
        <3> QED BY <3>2, <3>3, <3>4, BuiltFromItsRows
    <2> QED BY <2>1, <2>2
<1>11. ASSUME NoRebuild PROVE StaleHourIsOwed'
    <2> SUFFICES ASSUME NEW h \in Hours PROVE Fresh(h)' \/ h \in owed'
        BY DEF StaleHourIsOwed
    <2>1. h \in Docs
        BY HoursAreDocs
    <2>2. CASE mine[j][h] # NoDoc
        <3>1. docs'[h] = Built(View(j), h)
            BY <1>8, <1>11, <2>1, <2>2 DEF IInv, Faithful
        <3> QED BY <1>1, <3>1 DEF Fresh, Agrees
    <2>3. CASE mine[j][h] = NoDoc /\ h \in Concerned(obs, View(j))
        BY <1>9, <2>3 DEF Stored
    <2>4. CASE mine[j][h] = NoDoc /\ h \notin Concerned(obs, View(j))
        <3>1. docs'[h] = docs[h]
            BY <1>8, <2>1, <2>4
        <3>2. \A r \in DocRows(h) : View(j)[r] = obs[r]
            BY <2>1, <2>4 DEF Concerned
        <3>3. Built(View(j), h) = Built(obs, h)
            BY <1>7, <2>1, <3>2, BuiltFromItsRows
        <3>4. Fresh(h) \/ h \in owed
            BY <1>11 DEF IInv, StaleHourIsOwed
        <3>5. h \in owed => h \in owed'
            BY <1>9, <2>4 DEF Stored
        <3> QED BY <1>1, <3>1, <3>2, <3>3, <3>4, <3>5 DEF Fresh, Agrees
    <2> QED BY <2>2, <2>3, <2>4
<1>12. OnlyReviseOwesHours'
    <2> SUFFICES ASSUME \A k \in Jobs : Kind[k] # "revise", NEW h \in Hours, h \in owed'
                 PROVE  FALSE
        BY DEF OnlyReviseOwesHours
    <2>1. h \notin owed
        BY DEF IInv, OnlyReviseOwesHours
    <2>2. mine[j][h] = NoDoc /\ h \in Concerned(obs, View(j)) /\ h \in Docs
        BY <1>9, <2>1, HoursAreDocs DEF Stored
    <2>3. PICK r \in Rows : HourOf[r] = h /\ View(j)[r] # obs[r]
        BY <2>2 DEF Concerned, DocRows, Covers
    <2>4. r \in Support(j) /\ Ingesting(j)
        BY <1>1, <2>3 DEF View, Discipline, Support
    <2>5. Kind[j] \in {"poll", "backfill"}
        BY <2>4 DEF Ingesting, IngestKinds
    <2>6. h \in InHand(j)
        BY <1>1, <2>3, <2>4, <2>5 DEF Covering, HoursIn
    <2> QED BY <1>1, <2>2, <2>6 DEF InHand
<1> QED BY <1>4, <1>5, <1>6, <1>10, <1>11, <1>12 DEF IInv, NoRebuild

-----------------------------------------------------------------------------
(* The steps outside every transaction, and the theorems.                  *)

\* EIA publishes, a backfill reports the end of its window, or nothing happens.
LEMMA QuietStep ==
    ASSUME IInv, TypeOK', PublishedGrows, UNCHANGED <<obs, docs, owed>>, UNCHANGED txn
    PROVE  IInv'
<1>1. TypeOK /\ \A k \in Jobs : SameTxn(k)
    BY DEF IInv, txn, SameTxn
<1>2. ASSUME NEW k \in Jobs PROVE Discipline(k)' /\ Reach(k)' /\ Covering(k)'
    BY <1>1, SameTxnKeeps DEF IInv
<1>3. LockExclusion'
    BY DEF IInv, LockExclusion, txn
<1>4. ASSUME NoRebuild, NEW k \in Jobs PROVE Faithful(k)'
    <2>1. View(k)' = View(k)
        BY DEF View, txn
    <2>2. \A h \in Hours : Built(View(k)', h) = Built(View(k), h)
        BY <2>1
    <2> QED BY <1>4, <2>2 DEF IInv, Faithful, txn
<1>5. StaleHourIsOwed => StaleHourIsOwed'
    BY DEF StaleHourIsOwed, Fresh, Agrees
<1>6. OnlyReviseOwesHours'
    BY DEF IInv, OnlyReviseOwesHours
<1>7. AnchorsPublished'
    <2> SUFFICES ASSUME NEW r \in Anchors PROVE published'[r] # 0
        BY DEF AnchorsPublished
    <2>1. r \in Rows /\ published[r] # 0 /\ published[r] \in Nat
        BY <1>1, IngestConstants DEF IInv, AnchorsPublished, TypeOK, Version
    <2>2. published'[r] \in Nat /\ published[r] <= published'[r]
        BY <2>1 DEF PublishedGrows
    <2> QED BY <2>1, <2>2
<1> QED BY <1>2, <1>3, <1>4, <1>5, <1>6, <1>7 DEF IInv, NoRebuild

\* EIA only ever publishes more.
LEMMA PublishKeeps ==
    ASSUME IInv, TypeOK', NEW r \in Rows, Publish(r)
    PROVE  IInv'
<1>1. TypeOK /\ UNCHANGED <<obs, docs, owed>> /\ UNCHANGED txn
    BY DEF IInv, Publish
<1>2. PublishedGrows
    <2> SUFFICES ASSUME NEW q \in Rows
                 PROVE  published'[q] \in Nat /\ published[q] <= published'[q]
        BY DEF PublishedGrows
    <2>1. published[q] \in Nat /\ published'[q] \in {published[q], published[q] + 1}
        BY <1>1 DEF TypeOK, Version, Publish
    <2> QED BY <2>1
<1> QED BY <1>1, <1>2, QuietStep

\* Recording a success touches no transaction.
LEMMA FinishBackfillKeeps ==
    ASSUME IInv, TypeOK', NEW j \in Jobs, FinishBackfill(j)
    PROVE  IInv'
<1>1. TypeOK /\ UNCHANGED <<published, obs, docs, owed>> /\ UNCHANGED txn
    BY DEF IInv, FinishBackfill
<1>2. PublishedGrows
    BY <1>1 DEF PublishedGrows, TypeOK, Version
<1> QED BY <1>1, <1>2, QuietStep

\* The initial state satisfies the invariant.
LEMMA IInvInit == Init => IInv
<1> SUFFICES ASSUME Init PROVE IInv
    OBVIOUS
<1>1. TypeOK
    BY TypeInit
<1>2. AnchorsPublished
    BY IngestConstants DEF Init, AnchorsPublished
<1>3. LockExclusion
    BY DEF Init, LockExclusion
<1>4. ASSUME NEW j \in Jobs
      PROVE  Discipline(j) /\ Reach(j) /\ Covering(j) /\ Faithful(j)
    <2>1. /\ phase[j] = "idle" /\ window[j] = {} /\ written[j] = {} /\ todo[j] = {}
          /\ \A r \in Rows : got[j][r] = 0
          /\ \A d \in Docs : draft[j][d] = NoDoc /\ mine[j][d] = NoDoc
        BY DEF Init, NoRows, NoDocs
    <2>2. \A r \in Rows : got[j][r] <= published[r]
        BY <1>1, <2>1 DEF Init
    <2>3. Discipline(j)
        BY <2>1, <2>2 DEF Discipline, Support
    <2>4. InHand(j) = {}
        BY <2>1, HoursAreDocs DEF InHand
    <2> QED BY <2>1, <2>3, <2>4, HoursAreDocs DEF Reach, Covering, Faithful
<1>5. StaleHourIsOwed
    <2> SUFFICES ASSUME NEW h \in Hours PROVE Fresh(h)
        BY DEF StaleHourIsOwed
    <2> QED BY HoursAreDocs DEF Init, Fresh, Agrees, NoRows, NoDocs, DocRows
<1>6. OnlyReviseOwesHours
    BY DEF Init, OnlyReviseOwesHours
<1> QED BY <1>1, <1>2, <1>3, <1>4, <1>5, <1>6 DEF IInv

\* Every step keeps it.
LEMMA IInvStep == IInv /\ [Next]_vars => IInv'
<1> SUFFICES ASSUME IInv, [Next]_vars PROVE IInv'
    OBVIOUS
<1>1. TypeOK /\ TypeOK'
    BY TypeStep DEF IInv
<1>2. ASSUME NEW r \in Rows, Publish(r) PROVE IInv'
    BY <1>1, <1>2, PublishKeeps
<1>3. ASSUME NEW j \in Jobs, Step(j) PROVE IInv'
    <2>1. CASE StartIngest(j)
        BY <1>1, <2>1, StartIngestKeeps
    <2>2. CASE StartRebuild(j)
        BY <1>1, <2>2, StartRebuildKeeps
    <2>3. CASE Fetch(j)
        BY <1>1, <2>3, FetchKeeps
    <2>4. CASE WriteRow(j)
        BY <1>1, <2>4, WriteRowKeeps
    <2>5. CASE EndWrites(j)
        BY <1>1, <2>5, EndWritesKeeps
    <2>6. CASE BuildDocs(j)
        BY <1>1, <2>6, BuildDocsKeeps
    <2>7. CASE StoreDoc(j)
        BY <1>1, <2>7, StoreDocKeeps
    <2>8. CASE Commit(j)
        BY <1>1, <2>8, CommitKeeps
    <2>9. CASE FinishBackfill(j)
        BY <1>1, <2>9, FinishBackfillKeeps
    <2>10. CASE Fail(j) \/ BreakDeadlock(j)
        BY <1>1, <2>10, RollbackKeeps DEF Fail, BreakDeadlock
    <2> QED BY <1>3, <2>1, <2>2, <2>3, <2>4, <2>5, <2>6, <2>7, <2>8, <2>9, <2>10
            DEF Step, Advance
<1>4. CASE UNCHANGED vars
    <2>1. PublishedGrows
        BY <1>1, <1>4 DEF PublishedGrows, TypeOK, Version, vars
    <2> QED BY <1>1, <1>4, <2>1, QuietStep DEF vars, txn
<1> QED BY <1>2, <1>3, <1>4 DEF Next

\* The inductive invariant: the lock discipline of the jobs, and what it protects.
THEOREM Invariance == Spec => []IInv
BY IInvInit, IInvStep, PTL DEF Spec

\* However many polls, revisions and backfills overlap, fail or are killed, an hour's
\* committed snapshot renders its committed rows, or some job owes it a rebuild: as
\* long as nobody runs `eia rebuild-snapshots` beside them.
THEOREM NoStaleSnapshot == NoRebuild => (Spec => []StaleHourIsOwed)
<1> SUFFICES ASSUME NoRebuild PROVE Spec => []StaleHourIsOwed
    OBVIOUS
<1>1. IInv => StaleHourIsOwed
    BY DEF IInv
<1> QED BY <1>1, Invariance, PTL

\* Poll and backfill never owe an hourly snapshot.
THEOREM OnlyReviseOwes == Spec => []OnlyReviseOwesHours
<1>1. IInv => OnlyReviseOwesHours
    BY DEF IInv
<1> QED BY <1>1, Invariance, PTL

-----------------------------------------------------------------------------
(* The hourly map implements MapStore.                                     *)

\* A commit stores published values, and each hour it concerns is rebuilt from the
\* rows it leaves: or it is a revision, which may leave one alone.
LEMMA CommitIngests ==
    ASSUME IInv, NoRebuild, NEW j \in Jobs, Commit(j)
    PROVE  /\ \A r \in Rows : obs'[r] # obs[r] => obs'[r] \in 1..published[r]
           /\ \A h \in Hours : docs'[h] = IF h \in Stored(j) THEN Built(obs', h) ELSE docs[h]
           /\ Kind[j] # "revise" => Concerned(obs, obs') \cap Hours \subseteq Stored(j)
<1>1. /\ TypeOK /\ Discipline(j) /\ Covering(j) /\ Faithful(j)
      /\ phase[j] = "build" /\ todo[j] = {} /\ obs' = View(j)
      /\ \A d \in Docs : draft[j][d] = NoDoc
    BY DEF IInv, Commit, NothingToStore
<1>2. ASSUME NEW r \in Rows, obs'[r] # obs[r]
      PROVE  r \in Support(j) /\ obs'[r] = got[j][r] /\ got[j][r] \in 1..published[r]
    <2>1. r \in written[j] /\ obs'[r] = got[j][r]
        BY <1>1, <1>2 DEF View
    <2>2. got[j][r] \in Nat /\ published[r] \in Nat /\ got[j][r] <= published[r]
        BY <1>1 DEF TypeOK, Version, Discipline
    <2>3. r \in Support(j) /\ got[j][r] # 0
        BY <1>1, <2>1 DEF Discipline, Support
    <2> QED BY <2>1, <2>2, <2>3
<1>3. ASSUME NEW h \in Hours
      PROVE  docs'[h] = IF h \in Stored(j) THEN Built(obs', h) ELSE docs[h]
    <2>1. h \in Docs
        BY HoursAreDocs
    <2>2. docs'[h] = IF mine[j][h] # NoDoc THEN mine[j][h] ELSE docs[h]
        BY <2>1 DEF Commit
    <2> QED BY <1>1, <2>1, <2>2 DEF Faithful, Stored
<1>4. ASSUME Kind[j] # "revise", NEW h \in Hours, h \in Concerned(obs, obs')
      PROVE  h \in Stored(j)
    <2>1. PICK r \in Rows : HourOf[r] = h /\ obs'[r] # obs[r]
        BY <1>4 DEF Concerned, DocRows, Covers
    <2>2. r \in Support(j) /\ Ingesting(j)
        BY <1>1, <1>2, <2>1 DEF Discipline, Support
    <2>3. h \in InHand(j)
        BY <1>1, <1>4, <2>1, <2>2 DEF Covering, Ingesting, IngestKinds, HoursIn
    <2> QED BY <1>1, <2>3, HoursAreDocs DEF InHand, Stored
<1> QED BY <1>2, <1>3, <1>4

\* MapStore's operators, as HourlyMap names them.
LEMMA SameOperators ==
    /\ HourlyMap!Rows = Rows
    /\ \A o, o2 : HourlyMap!Concerned(o, o2) = Concerned(o, o2)
    /\ \A o, d : HourlyMap!Built(o, d) = Built(o, d)
BY DEF HourlyMap!Rows, Rows, HourlyMap!Concerned, Concerned, HourlyMap!Built, Built,
       HourlyMap!DocRows, DocRows, HourlyMap!Covers, Covers, HourlyMap!Render, Render,
       HourlyMap!Hours, Hours, HourlyMap!Docs, Docs, HourlyMap!Buckets, Buckets

\* The initial states map to initial states of MapStore.
LEMMA InitMaps == Init => HourlyMap!Init
<1> SUFFICES ASSUME Init PROVE HourlyMap!Init
    OBVIOUS
<1>1. published \in [Rows -> 0..1]
    BY DEF Init
<1>2. obs = [r \in Rows |-> 0]
    BY DEF Init, NoRows
<1>3. [h \in Hours |-> docs[h]] = [h \in Hours |-> NoDoc]
    BY HoursAreDocs DEF Init, NoDocs
<1> QED BY <1>1, <1>2, <1>3, SameOperators DEF HourlyMap!Init

\* Every step is a step of MapStore or leaves what a reader sees alone.
LEMMA StepMaps ==
    ASSUME IInv, NoRebuild, [Next]_vars
    PROVE  [HourlyMap!Next]_HourlyMap!storeVars
<1>1. CASE \E r \in Rows : Publish(r)
    <2>1. PICK r \in Rows : Publish(r)
        BY <1>1
    <2>2. HourlyMap!Publish
        BY <2>1, SameOperators DEF Publish, HourlyMap!Publish
    <2> QED BY <2>2 DEF HourlyMap!Next
<1>2. CASE \E j \in Jobs : Commit(j)
    <2>1. PICK j \in Jobs : Commit(j)
        BY <1>2
    <2> DEFINE D == Stored(j) \cap Hours
               Owing == IF \E k \in Jobs : Kind[k] = "revise" THEN Hours ELSE {}
    <2>2. Concerned(obs, obs') \cap Hours \subseteq D \cup Owing
        BY <2>1, CommitIngests
    <2>3. [h \in Hours |-> docs'[h]]
            = [h \in Hours |-> IF h \in D THEN Built(obs', h)
                               ELSE [g \in Hours |-> docs[g]][h]]
        BY <2>1, CommitIngests
    <2>4. \A r \in Rows : obs'[r] # obs[r] => obs'[r] \in 1..published[r]
        BY <2>1, CommitIngests
    <2>5. published' = published
        BY <2>1 DEF Commit
    <2>6. HourlyMap!Ingest
        BY <2>2, <2>3, <2>4, <2>5, SameOperators DEF HourlyMap!Ingest
    <2> QED BY <2>6 DEF HourlyMap!Next
<1>3. CASE UNCHANGED <<published, obs, docs>>
    BY <1>3 DEF HourlyMap!storeVars
<1>4. ASSUME NEW j \in Jobs, Step(j), ~Commit(j) PROVE UNCHANGED <<published, obs, docs>>
    BY <1>4 DEF Step, Advance, StartIngest, StartRebuild, Fetch, WriteRow, EndWrites,
                BuildDocs, StoreDoc, FinishBackfill, Fail, BreakDeadlock, Rollback, base
<1> QED BY <1>1, <1>2, <1>3, <1>4 DEF Next, vars

\* A reader of the hourly map cannot tell the overlapping transactions of the jobs from
\* a store that rebuilds, in the step that changes rows, every hour those rows concern.
THEOREM HourlyMapRefines == NoRebuild => (Spec => ImplementsMapStore)
<1> SUFFICES ASSUME NoRebuild PROVE Spec => ImplementsMapStore
    OBVIOUS
<1>1. IInv /\ [Next]_vars => [HourlyMap!Next]_HourlyMap!storeVars
    BY StepMaps
<1> QED BY <1>1, InitMaps, Invariance, PTL DEF Spec, ImplementsMapStore, HourlyMap!Spec

-----------------------------------------------------------------------------
(* What the order of statements in the jobs is worth: locks are asked for  *)
(* in one order, revised_at is honest, a day recorded as fetched has its   *)
(* snapshots, and a poll repairs what it touches.  Each needs the jobs'    *)
(* discipline and the exclusion of locks, which IInv holds.                *)

\* The parts of IInv that hold whatever runs beside.
LEMMA Parts ==
    ASSUME IInv, NEW j \in Jobs
    PROVE  /\ TypeOK /\ LockExclusion /\ Discipline(j) /\ Covering(j)
           /\ NoRebuild => Faithful(j)
BY DEF IInv

\* Of a job, every step but its own leaves everything alone.
LEMMA OneJobSteps ==
    ASSUME TypeOK, NEW j \in Jobs, Step(j), NEW k \in Jobs \ {j}
    PROVE  SameTxn(k)
<1>1. CASE StartIngest(j)
    BY <1>1 DEF StartIngest, SameTxn, TypeOK
<1>2. CASE StartRebuild(j)
    BY <1>2 DEF StartRebuild, SameTxn, TypeOK
<1>3. CASE Fetch(j)
    BY <1>3 DEF Fetch, SameTxn, TypeOK
<1>4. CASE WriteRow(j)
    BY <1>4 DEF WriteRow, SameTxn, TypeOK
<1>5. CASE EndWrites(j)
    BY <1>5 DEF EndWrites, SameTxn, TypeOK
<1>6. CASE BuildDocs(j)
    BY <1>6 DEF BuildDocs, SameTxn, TypeOK
<1>7. CASE StoreDoc(j)
    BY <1>7 DEF StoreDoc, SameTxn, TypeOK
<1>8. CASE FinishBackfill(j)
    BY <1>8 DEF FinishBackfill, SameTxn, txn
<1>9. CASE Commit(j) \/ Fail(j) \/ BreakDeadlock(j)
    <2>1. Release(j)
        BY <1>9 DEF Commit, Fail, BreakDeadlock, Rollback
    <2> QED BY <2>1 DEF Release, SameTxn, TypeOK
<1> QED BY <1>1, <1>2, <1>3, <1>4, <1>5, <1>6, <1>7, <1>8, <1>9 DEF Step, Advance

\* Rows and documents are committed by Commit alone.
LEMMA OnlyCommitCommits ==
    ASSUME NEW j \in Jobs, Step(j), ~Commit(j)
    PROVE  UNCHANGED <<obs, revised_at, docs, marked>>
BY DEF Step, Advance, StartIngest, StartRebuild, Fetch, WriteRow, EndWrites, BuildDocs, StoreDoc,
       FinishBackfill, Fail, BreakDeadlock, Rollback, base

-----------------------------------------------------------------------------
(* A day recorded as fetched.                                              *)

NoRevise == \A j \in Jobs : Kind[j] # "revise"

\* Whatever is observed has its snapshot.
ObservedInv == NoRevise => \A r \in Rows : obs[r] # 0 => docs[HourOf[r]] # NoDoc

\* Only a commit could break it, and it stores what it covers.
LEMMA ObservedStep == IInv /\ ObservedInv /\ [Next]_vars => ObservedInv'
<1> SUFFICES ASSUME IInv, ObservedInv, [Next]_vars, NoRevise, NEW r \in Rows, obs'[r] # 0
             PROVE  docs'[HourOf[r]] # NoDoc
    BY DEF ObservedInv, NoRevise
<1>1. CASE UNCHANGED <<obs, docs>>
    BY <1>1 DEF ObservedInv
<1>2. ASSUME NEW j \in Jobs, Commit(j) PROVE docs'[HourOf[r]] # NoDoc
    <2>1. HourOf[r] \in Hours /\ HourOf[r] \in Docs
        BY HoursAreDocs, MapDocsConstants
    <2>2. docs'[HourOf[r]] = IF mine[j][HourOf[r]] # NoDoc THEN mine[j][HourOf[r]] ELSE docs[HourOf[r]]
        BY <1>2, <2>1 DEF Commit
    <2>3. CASE obs[r] # 0
        BY <2>2, <2>3 DEF ObservedInv
    <2>4. CASE obs[r] = 0
        <3>1. obs'[r] = View(j)[r] /\ phase[j] = "build"
            BY <1>2 DEF Commit
        <3>2. r \in written[j]
            BY <2>4, <3>1 DEF View
        <3>3. r \in Support(j) /\ Ingesting(j)
            BY <3>2, Parts DEF Discipline, Support
        <3>4. HourOf[r] \in InHand(j)
            BY <3>1, <3>3, Parts DEF Covering, Ingesting, IngestKinds, NoRevise, HoursIn
        <3>5. mine[j][HourOf[r]] # NoDoc
            BY <1>2, <2>1, <3>4 DEF InHand, Commit, NothingToStore
        <3> QED BY <2>2, <3>5
    <2> QED BY <2>3, <2>4
<1>3. ASSUME NEW q \in Rows, Publish(q) PROVE UNCHANGED <<obs, docs>>
    BY <1>3 DEF Publish
<1> QED BY <1>1, <1>2, <1>3, OnlyCommitCommits DEF Next, vars

\* An hour of a day recorded as fetched has its snapshot, whichever jobs failed or were
\* killed, on any calendar of days and hours (backfill.py builds them day by day).
THEOREM MarkedDays == Spec => []MarkedDayHasSnapshots
<1>1. Init => ObservedInv
    BY DEF Init, ObservedInv, NoRows
<1>2. TypeOK /\ ObservedInv => MarkedDayHasSnapshots
    BY DEF TypeOK, ObservedInv, NoRevise, MarkedDayHasSnapshots
<1>3. IInv => TypeOK
    BY DEF IInv
<1> QED BY <1>1, <1>2, <1>3, ObservedStep, Invariance, PTL DEF Spec

-----------------------------------------------------------------------------
(* revised_at.                                                             *)

\* What RETURNING said of an upserted row still holds: its lock keeps others away.
RevInv == \A j \in Jobs :
    rev[j] = {r \in written[j] : obs[r] # 0 /\ obs[r] # got[j][r]}

\* A commit changes no row another job has upserted.
LEMMA CommitKeepsLocked ==
    ASSUME IInv, NEW j \in Jobs, Commit(j), NEW k \in Jobs \ {j}, NEW r \in written[k]
    PROVE  obs'[r] = obs[r]
<1>1. r \in Rows /\ r \notin written[j]
    BY Parts DEF LockExclusion, TypeOK
<1> QED BY <1>1 DEF Commit, View

\* Every step keeps it.
LEMMA RevStep == IInv /\ RevInv /\ [Next]_vars => RevInv'
<1> SUFFICES ASSUME IInv, RevInv, [Next]_vars, NEW k \in Jobs
             PROVE  rev'[k] = {r \in written'[k] : obs'[r] # 0 /\ obs'[r] # got'[k][r]}
    BY DEF RevInv
<1>1. TypeOK /\ Discipline(k)
    BY Parts
<1>2. CASE UNCHANGED <<obs, rev, written, got>>
    BY <1>2 DEF RevInv
<1>3. ASSUME NEW j \in Jobs, Step(j)
      PROVE  rev'[k] = {r \in written'[k] : obs'[r] # 0 /\ obs'[r] # got'[k][r]}
    <2>1. CASE j # k
        <3>1. SameTxn(k)
            BY <1>1, <1>3, <2>1, OneJobSteps
        <3>2. \A r \in written[k] : obs'[r] = obs[r]
            BY <1>3, <2>1, CommitKeepsLocked, OnlyCommitCommits
        <3> QED BY <3>1, <3>2 DEF SameTxn, RevInv
    <2>2. CASE j = k /\ (Commit(k) \/ Fail(k) \/ BreakDeadlock(k))
        <3>1. Release(k)
            BY <2>2 DEF Commit, Fail, BreakDeadlock, Rollback
        <3> QED BY <1>1, <3>1 DEF Release, TypeOK
    <2>3. CASE j = k /\ WriteRow(k)
        <3>1. PICK r \in Rows :
                 /\ r \notin written[k]
                 /\ written' = [written EXCEPT ![k] = @ \cup {r}]
                 /\ rev' = [rev EXCEPT ![k] = IF obs[r] # 0 /\ obs[r] # got[k][r]
                                              THEN @ \cup {r} ELSE @]
            BY <2>3 DEF WriteRow, Unwritten, Support
        <3>2. UNCHANGED <<obs, got>>
            BY <2>3 DEF WriteRow, base
        <3>3. written'[k] = written[k] \cup {r}
            BY <1>1, <3>1 DEF TypeOK
        <3>4. rev'[k] = IF obs[r] # 0 /\ obs[r] # got[k][r] THEN rev[k] \cup {r} ELSE rev[k]
            BY <1>1, <3>1 DEF TypeOK
        <3> QED BY <3>2, <3>3, <3>4 DEF RevInv
    <2>4. CASE j = k /\ Fetch(k)
        <3>1. written[k] = {} /\ UNCHANGED <<written, rev>>
            BY <1>1, <2>4 DEF Discipline, Fetch, Datasets
        <3> QED BY <3>1 DEF RevInv
    <2>5. CASE j = k /\ (StartIngest(k) \/ StartRebuild(k) \/ EndWrites(k) \/ BuildDocs(k)
                         \/ StoreDoc(k) \/ FinishBackfill(k))
        <3>1. UNCHANGED <<obs, rev, written, got>>
            BY <2>5 DEF StartIngest, StartRebuild, EndWrites, BuildDocs, StoreDoc, FinishBackfill,
                        base, txn
        <3> QED BY <3>1, <1>2
    <2> QED BY <1>3, <2>1, <2>2, <2>3, <2>4, <2>5 DEF Step, Advance
<1>4. ASSUME NEW q \in Rows, Publish(q) PROVE UNCHANGED <<obs, rev, written, got>>
    BY <1>4 DEF Publish, txn
<1> QED BY <1>2, <1>3, <1>4 DEF Next, vars

\* What RevisedAtIsHonest says of one step.
HonestStep ==
    \A r \in Rows : /\ revised_at[r] => revised_at'[r]
                    /\ (revised_at'[r] # revised_at[r] => obs[r] # 0 /\ obs'[r] # obs[r])
                    /\ (obs[r] # 0 /\ obs'[r] # obs[r] => revised_at'[r])

LEMMA StepIsHonest == IInv /\ RevInv /\ [Next]_vars => [HonestStep]_vars
<1> SUFFICES ASSUME IInv, RevInv, Next PROVE HonestStep
    OBVIOUS
<1>1. CASE UNCHANGED <<obs, revised_at>>
    BY <1>1 DEF HonestStep
<1>2. ASSUME NEW j \in Jobs, Commit(j), NEW r \in Rows
      PROVE  /\ revised_at'[r] = (revised_at[r] \/ r \in rev[j])
             /\ r \in rev[j] <=> obs[r] # 0 /\ obs'[r] # obs[r]
    <2>1. obs'[r] = IF r \in written[j] THEN got[j][r] ELSE obs[r]
        BY <1>2 DEF Commit, View
    <2>2. revised_at'[r] = (revised_at[r] \/ r \in rev[j])
        BY <1>2 DEF Commit
    <2> QED BY <2>1, <2>2 DEF RevInv
<1>3. ASSUME NEW q \in Rows, Publish(q) PROVE UNCHANGED <<obs, revised_at>>
    BY <1>3 DEF Publish
<1>4. TypeOK
    BY DEF IInv
<1>5. \A r \in Rows : revised_at[r] \in BOOLEAN
    BY <1>4 DEF TypeOK
<1>6. ASSUME NEW j \in Jobs, Commit(j) PROVE HonestStep
    BY <1>2, <1>5, <1>6 DEF HonestStep
<1> QED BY <1>1, <1>3, <1>6, OnlyCommitCommits DEF Next

\* A row is marked as revised by exactly the commits that replace a published number by
\* another, although the statement that decided it ran long before the commit, beside
\* other jobs (observations.py, "Honest about revision").
THEOREM HonestRevisions == Spec => RevisedAtIsHonest
<1>1. Init => RevInv
    BY DEF Init, RevInv
<1>2. IInv /\ RevInv /\ [Next]_vars =>
        [\A r \in Rows : /\ revised_at[r] => revised_at'[r]
                         /\ (revised_at'[r] # revised_at[r] => obs[r] # 0 /\ obs'[r] # obs[r])
                         /\ (obs[r] # 0 /\ obs'[r] # obs[r] => revised_at'[r])]_vars
    BY StepIsHonest DEF HonestStep
<1> QED BY <1>1, <1>2, RevStep, Invariance, PTL DEF Spec, RevisedAtIsHonest

-----------------------------------------------------------------------------
(* A poll repairs what it touches.                                         *)

LEMMA PollCommit ==
    ASSUME NoRebuild, IInv, NEW j \in Jobs, Kind[j] = "poll", Commit(j)
    PROVE  /\ \A r \in Support(j) : obs'[r] = got[j][r]
           /\ \A h \in HoursIn(Support(j)) : Fresh(h)'
<1>1. /\ TypeOK /\ Discipline(j) /\ Covering(j)
      /\ phase[j] = "build" /\ todo[j] = {} /\ obs' = View(j)
      /\ \A d \in Docs : draft[j][d] = NoDoc
    BY Parts DEF Commit, NothingToStore
<1>2. \A r \in Support(j) : obs'[r] = got[j][r]
    BY <1>1 DEF Discipline, Support, View
<1>3. ASSUME NEW h \in HoursIn(Support(j)) PROVE Fresh(h)'
    <2>1. h \in InHand(j) /\ h \in Hours /\ h \in Docs
        BY <1>1, HoursAreDocs DEF Covering, InHand
    <2>2. h \in Stored(j)
        BY <1>1, <2>1 DEF InHand, Stored
    <2>3. docs'[h] = Built(obs', h)
        BY <2>1, <2>2, CommitIngests
    <2> QED BY <2>3 DEF Fresh, Agrees
<1> QED BY <1>2, <1>3

\* After any poll that reports success, what it fetched is stored and the hours those rows
\* fall in agree with their rows, whatever other jobs committed in between and before: as
\* long as nobody runs `eia rebuild-snapshots` beside them.
THEOREM PollLeavesNothingStale == NoRebuild => (Spec => PollRepairs)
<1> SUFFICES ASSUME NoRebuild PROVE Spec => PollRepairs
    OBVIOUS
<1>1. IInv /\ [Next]_vars =>
        [\A j \in Jobs : Kind[j] = "poll" /\ Commit(j)
            => /\ \A r \in Support(j) : obs'[r] = got[j][r]
               /\ \A h \in HoursIn(Support(j)) : Fresh(h)']_vars
    BY PollCommit
<1> QED BY <1>1, Invariance, PTL DEF Spec, PollRepairs

-----------------------------------------------------------------------------
(* The order of locks.                                                     *)

\* A scheduler starts one poll at a time, the one job that stores several buckets: those of a
\* resolution come in no particular order.
OnePoll == \A j, k \in Jobs : Kind[j] = "poll" /\ Kind[k] = "poll" => j = k

\* Rows are upserted in order.
RowOrder(j) == \A r \in written[j] : \A s \in Unwritten(j) : r < s

\* Hours are built and stored in order.
HourOrder(j) ==
    \A h \in Hours :
        /\ mine[j][h] # NoDoc => \A g \in Hours : g \in todo[j] \/ draft[j][g] # NoDoc => h < g
        /\ draft[j][h] # NoDoc => \A g \in Hours : g \in todo[j] => h < g

\* Poll alone rebuilds buckets, but for `rebuild-aggregates`.
HoursOnly(j) ==
    \A b \in Buckets : b \notin todo[j] /\ draft[j][b] = NoDoc /\ mine[j][b] = NoDoc

OrderInv == \A j \in Jobs :
    /\ RowOrder(j)
    /\ Kind[j] # "aggregate" => HourOrder(j)
    /\ Kind[j] \notin {"poll", "aggregate"} => HoursOnly(j)

\* A job whose documents are still to come.
LEMMA NothingInHand ==
    ASSUME NEW j \in Jobs, \A d \in Docs : draft[j][d] = NoDoc /\ mine[j][d] = NoDoc
    PROVE  HourOrder(j)
BY HoursAreDocs DEF HourOrder

LEMMA BucketsAreDocs == Buckets \subseteq Docs /\ Buckets \cap Hours = {}
BY DEF Buckets

\* The order of rows.
LEMMA RowOrderStep ==
    ASSUME IInv, NEW j \in Jobs, Step(j), RowOrder(j)
    PROVE  RowOrder(j)'
<1>1. TypeOK /\ Discipline(j)
    BY Parts
<1>2. CASE WriteRow(j)
    <2>1. PICK r \in Unwritten(j) :
             /\ \A s \in Unwritten(j) : r <= s
             /\ written' = [written EXCEPT ![j] = @ \cup {r}]
        BY <1>2 DEF WriteRow
    <2>2. written'[j] = written[j] \cup {r} /\ got' = got
        BY <1>1, <1>2, <2>1 DEF TypeOK, WriteRow
    <2>3. Unwritten(j)' = Unwritten(j) \ {r}
        BY <2>2 DEF Unwritten, Support
    <2>4. Unwritten(j) \subseteq Int
        BY DEF Unwritten, Support, Rows
    <2> QED BY <2>1, <2>2, <2>3, <2>4 DEF RowOrder
<1>3. CASE Fetch(j)
    <2>1. written'[j] = {}
        BY <1>1, <1>3 DEF Discipline, Fetch, Datasets
    <2> QED BY <2>1 DEF RowOrder
<1>4. CASE Commit(j) \/ Fail(j) \/ BreakDeadlock(j)
    <2>1. written'[j] = {}
        BY <1>1, <1>4 DEF Commit, Fail, BreakDeadlock, Rollback, Release, TypeOK
    <2> QED BY <2>1 DEF RowOrder
<1>5. CASE StartIngest(j) \/ StartRebuild(j) \/ EndWrites(j) \/ BuildDocs(j) \/ StoreDoc(j)
           \/ FinishBackfill(j)
    <2>1. UNCHANGED <<got, written>>
        BY <1>5 DEF StartIngest, StartRebuild, EndWrites, BuildDocs, StoreDoc, FinishBackfill, txn
    <2> QED BY <2>1 DEF RowOrder, Unwritten, Support
<1> QED BY <1>2, <1>3, <1>4, <1>5 DEF Step, Advance

\* Revisions and the backfill rebuild hours, and so does `rebuild-snapshots`.
LEMMA TouchedHours ==
    ASSUME TypeOK, NEW j \in Jobs, Kind[j] # "poll"
    PROVE  Touched(j) \subseteq Hours
<1>1. Support(j) \in SUBSET Rows
    BY DEF Support
<1>2. \A t : HoursIn(Of(Support(j), t)) \subseteq Hours
    <2> SUFFICES ASSUME NEW t PROVE HoursIn(Of(Support(j), t)) \subseteq Hours
        OBVIOUS
    <2>1. Of(Support(j), t) \in SUBSET Rows
        BY <1>1 DEF Of
    <2> QED BY <2>1, HoursInType
<1>3. HoursIn(Support(j)) \subseteq Hours
    BY <1>1, HoursInType
<1> QED BY <1>2, <1>3 DEF Touched

\* One hour at a time, or buckets once the hours are through.
LEMMA BatchInOrder ==
    ASSUME TypeOK, NEW j \in Jobs, Kind[j] # "aggregate", NEW D \in Batches(j)
    PROVE  \/ \E h \in todo[j] \cap Hours : D = {h} /\ \A g \in todo[j] \cap Hours : h <= g
           \/ D \cap Hours = {} /\ todo[j] \cap Hours = {}
BY DEF Batches

\* The order of documents.
LEMMA HourOrderStep ==
    ASSUME IInv, NEW j \in Jobs, Step(j), Kind[j] # "aggregate", HourOrder(j)
    PROVE  HourOrder(j)'
<1>1. TypeOK /\ Discipline(j) /\ Hours \subseteq Int /\ Hours \subseteq Docs
    BY Parts, HoursAreDocs DEF Hours
<1>2. CASE EndWrites(j) \/ StartRebuild(j)
    <2>1. phase[j] # "build" /\ UNCHANGED <<draft, mine>>
        BY <1>2 DEF EndWrites, StartRebuild
    <2>2. \A d \in Docs : draft'[j][d] = NoDoc /\ mine'[j][d] = NoDoc
        BY <1>1, <2>1 DEF Discipline
    <2> QED BY <1>1, <2>2 DEF HourOrder
<1>3. CASE Commit(j) \/ Fail(j) \/ BreakDeadlock(j)
    <2>1. Release(j)
        BY <1>3 DEF Commit, Fail, BreakDeadlock, Rollback
    <2>2. \A d \in Docs : draft'[j][d] = NoDoc /\ mine'[j][d] = NoDoc
        BY <1>1, <2>1 DEF Release, TypeOK, NoDocs
    <2> QED BY <1>1, <2>2 DEF HourOrder
<1>4. CASE StartIngest(j) \/ Fetch(j) \/ WriteRow(j) \/ FinishBackfill(j)
    <2>1. UNCHANGED <<todo, draft, mine>>
        BY <1>4 DEF StartIngest, Fetch, WriteRow, FinishBackfill, txn
    <2> QED BY <2>1 DEF HourOrder
<1>5. CASE BuildDocs(j)
    <2>1. PICK D \in Batches(j) :
             /\ draft' = [draft EXCEPT ![j] =
                            [d \in Docs |-> IF d \in D THEN Built(View(j), d) ELSE NoDoc]]
             /\ todo' = [todo EXCEPT ![j] = @ \ D]
        BY <1>5 DEF BuildDocs
    <2>2. todo'[j] = todo[j] \ D /\ mine' = mine
        BY <1>1, <1>5, <2>1 DEF TypeOK, BuildDocs
    <2>3. \A h \in Hours : draft'[j][h] # NoDoc => h \in D
        BY <1>1, <2>1 DEF TypeOK
    <2>4. D \subseteq todo[j]
        BY <1>1, BatchesType
    <2>5. \A h \in Hours : draft'[j][h] # NoDoc => \A g \in Hours : g \in todo'[j] => h < g
        <3>1. CASE \E h \in todo[j] \cap Hours : D = {h} /\ \A g \in todo[j] \cap Hours : h <= g
            <4>1. PICK h \in todo[j] \cap Hours : D = {h} /\ \A g \in todo[j] \cap Hours : h <= g
                BY <3>1
            <4>2. \A g \in Hours : g \in todo'[j] => h < g
                <5> SUFFICES ASSUME NEW g \in Hours, g \in todo'[j] PROVE h < g
                    OBVIOUS
                <5>1. h \in Int /\ g \in Int /\ g # h /\ h <= g
                    BY <1>1, <2>2, <4>1
                <5> QED BY <5>1
            <4> QED BY <2>3, <4>1, <4>2
        <3>2. CASE D \cap Hours = {}
            BY <2>3, <3>2
        <3> QED BY <1>1, <3>1, <3>2, BatchInOrder
    <2>6. \A h \in Hours : mine'[j][h] # NoDoc =>
             \A g \in Hours : g \in todo'[j] \/ draft'[j][g] # NoDoc => h < g
        BY <2>2, <2>3, <2>4 DEF HourOrder
    <2> QED BY <2>5, <2>6 DEF HourOrder
<1>6. CASE StoreDoc(j)
    <2>1. PICK d \in Docs :
             /\ draft[j][d] # NoDoc /\ \A e \in Docs : draft[j][e] # NoDoc => d <= e
             /\ mine' = [mine EXCEPT ![j][d] = draft[j][d]]
             /\ draft' = [draft EXCEPT ![j][d] = NoDoc]
        BY <1>6 DEF StoreDoc
    <2>2. /\ todo' = todo
          /\ \A h \in Hours : /\ mine'[j][h] # NoDoc => mine[j][h] # NoDoc \/ h = d
                              /\ draft'[j][h] # NoDoc => draft[j][h] # NoDoc /\ h # d
        BY <1>1, <1>6, <2>1 DEF TypeOK, StoreDoc
    <2>3. \A h \in Hours : h = d =>
             \A g \in Hours : g \in todo'[j] \/ draft'[j][g] # NoDoc => h < g
        BY <1>1, <2>1, <2>2 DEF HourOrder
    <2> QED BY <2>2, <2>3 DEF HourOrder
<1> QED BY <1>2, <1>3, <1>4, <1>5, <1>6 DEF Step, Advance

\* The jobs that rebuild hours only.
LEMMA HoursOnlyStep ==
    ASSUME IInv, NEW j \in Jobs, Step(j), Kind[j] \notin {"poll", "aggregate"}, HoursOnly(j)
    PROVE  HoursOnly(j)'
<1>1. TypeOK /\ Discipline(j) /\ Buckets \subseteq Docs /\ Buckets \cap Hours = {}
    BY Parts, BucketsAreDocs
<1>2. CASE EndWrites(j) \/ StartRebuild(j)
    <2>1. UNCHANGED <<draft, mine>>
        BY <1>2 DEF EndWrites, StartRebuild
    <2>2. \A m \in BOOLEAN : NeedingSnapshots(m) \subseteq Hours
        BY HoursInType DEF NeedingSnapshots
    <2>3. \E T \in SUBSET Hours : todo' = [todo EXCEPT ![j] = T]
        BY <1>1, <1>2, <2>2, TouchedHours DEF EndWrites, StartRebuild
    <2>4. todo'[j] \subseteq Hours
        BY <1>1, <2>3 DEF TypeOK
    <2> QED BY <1>1, <2>1, <2>4 DEF HoursOnly
<1>3. CASE Commit(j) \/ Fail(j) \/ BreakDeadlock(j)
    <2>1. Release(j)
        BY <1>3 DEF Commit, Fail, BreakDeadlock, Rollback
    <2>2. todo'[j] = {} /\ \A d \in Docs : draft'[j][d] = NoDoc /\ mine'[j][d] = NoDoc
        BY <1>1, <2>1 DEF Release, TypeOK, NoDocs
    <2> QED BY <1>1, <2>2 DEF HoursOnly
<1>4. CASE StartIngest(j) \/ Fetch(j) \/ WriteRow(j) \/ FinishBackfill(j)
    <2>1. UNCHANGED <<todo, draft, mine>>
        BY <1>4 DEF StartIngest, Fetch, WriteRow, FinishBackfill, txn
    <2> QED BY <2>1 DEF HoursOnly
<1>5. CASE BuildDocs(j)
    <2>1. PICK D \in Batches(j) :
             /\ draft' = [draft EXCEPT ![j] =
                            [d \in Docs |-> IF d \in D THEN Built(View(j), d) ELSE NoDoc]]
             /\ todo' = [todo EXCEPT ![j] = @ \ D]
        BY <1>5 DEF BuildDocs
    <2>2. todo'[j] = todo[j] \ D /\ mine' = mine /\ D \subseteq todo[j]
        BY <1>1, <1>5, <2>1, BatchesType DEF TypeOK, BuildDocs
    <2>3. \A b \in Buckets : draft'[j][b] # NoDoc => b \in D
        BY <1>1, <2>1 DEF TypeOK
    <2> QED BY <2>2, <2>3 DEF HoursOnly
<1>6. CASE StoreDoc(j)
    <2>1. PICK d \in Docs :
             /\ draft[j][d] # NoDoc
             /\ mine' = [mine EXCEPT ![j][d] = draft[j][d]]
             /\ draft' = [draft EXCEPT ![j][d] = NoDoc]
        BY <1>6 DEF StoreDoc
    <2>2. d \notin Buckets
        BY <2>1 DEF HoursOnly
    <2>3. \A b \in Buckets : mine'[j][b] = mine[j][b] /\ draft'[j][b] = draft[j][b]
        BY <1>1, <2>1, <2>2 DEF TypeOK
    <2> QED BY <1>6, <2>3 DEF HoursOnly, StoreDoc
<1> QED BY <1>2, <1>3, <1>4, <1>5, <1>6 DEF Step, Advance

\* Every step keeps the order.
LEMMA OrderStep == IInv /\ OrderInv /\ [Next]_vars => OrderInv'
<1> SUFFICES ASSUME IInv, OrderInv, [Next]_vars, NEW k \in Jobs
             PROVE  (/\ RowOrder(k)
                     /\ Kind[k] # "aggregate" => HourOrder(k)
                     /\ Kind[k] \notin {"poll", "aggregate"} => HoursOnly(k))'
    BY DEF OrderInv
<1>1. CASE SameTxn(k)
    BY <1>1 DEF SameTxn, OrderInv, RowOrder, HourOrder, HoursOnly, Unwritten, Support
<1>2. ASSUME NEW j \in Jobs, Step(j), j # k PROVE SameTxn(k)
    BY <1>2, Parts, OneJobSteps
<1>3. CASE Step(k)
    BY <1>3, RowOrderStep, HourOrderStep, HoursOnlyStep DEF OrderInv
<1>4. ASSUME NEW q \in Rows, Publish(q) PROVE SameTxn(k)
    BY <1>4 DEF Publish, txn, SameTxn
<1>5. CASE UNCHANGED vars
    BY <1>1, <1>5 DEF vars, SameTxn
<1> QED BY <1>1, <1>2, <1>3, <1>4, <1>5 DEF Next

\* Where locks are asked for in order, their holders are ahead.
LEMMA OrderSuffices ==
    ASSUME OnePoll, IInv, OrderInv
    PROVE  HolderIsAhead
<1> SUFFICES ASSUME NEW j \in Jobs, NEW k \in Jobs, j # k, Kind[j] # "aggregate",
                    Kind[k] # "aggregate", NEW n \in Locks, NEW m \in Locks,
                    Wants(j, n), Holds(k, n), Wants(k, m)
             PROVE  n < m
    BY DEF HolderIsAhead
<1>1. TypeOK /\ Discipline(j) /\ Discipline(k)
    BY Parts
<1>2. /\ NumRows \in Nat /\ NumDocs \in Nat /\ NumHours \in Nat /\ n \in Int /\ m \in Int
      /\ Docs = 1..NumDocs /\ Hours = 1..NumHours /\ Buckets = Docs \ Hours
    BY MapDocsConstants DEF Locks, Docs, Hours, Buckets
<1>3. CASE n \in written[k]
    <2>1. n \in 1..NumRows
        BY <1>1, <1>3 DEF TypeOK, Rows
    <2>2. CASE m \in Unwritten(k)
        BY <1>3, <2>2 DEF OrderInv, RowOrder
    <2>3. CASE m - NumRows \in Docs
        BY <1>2, <2>1, <2>3
    <2> QED BY <2>2, <2>3 DEF Wants
<1>4. CASE n - NumRows \in Docs /\ mine[k][n - NumRows] # NoDoc
    <2>1. phase[k] = "build" /\ n > NumRows
        BY <1>1, <1>2, <1>4 DEF Discipline
    <2>2. n - NumRows \in Docs /\ draft[j][n - NumRows] # NoDoc
        <3>1. n \notin Unwritten(j)
            BY <1>2, <2>1 DEF Unwritten, Support, Rows
        <3> QED BY <3>1 DEF Wants
    <2>3. n - NumRows \in Hours
        <3> SUFFICES ASSUME n - NumRows \in Buckets PROVE FALSE
            BY <1>2, <2>2
        <3>1. Kind[j] = "poll"
            BY <2>2 DEF OrderInv, HoursOnly
        <3>2. Kind[k] = "poll"
            BY <1>4 DEF OrderInv, HoursOnly
        <3> QED BY <3>1, <3>2 DEF OnePoll
    <2>4. m - NumRows \in Docs /\ draft[k][m - NumRows] # NoDoc
        BY <2>1 DEF Wants
    <2>5. CASE m - NumRows \in Hours
        <3>1. n - NumRows < m - NumRows
            BY <1>4, <2>3, <2>4, <2>5 DEF OrderInv, HourOrder
        <3> QED BY <1>2, <3>1
    <2>6. CASE m - NumRows \in Buckets
        BY <1>2, <2>3, <2>6
    <2> QED BY <1>2, <2>4, <2>5, <2>6
<1> QED BY <1>3, <1>4 DEF Holds

\* Whoever holds a lock that another job waits for can itself only wait for a later one, so
\* that no circle of jobs waits, however many revisions, backfills and `rebuild-snapshots`
\* run beside the one poll.
THEOREM LocksAreOrdered == OnePoll => (Spec => []HolderIsAhead)
<1> SUFFICES ASSUME OnePoll PROVE Spec => []HolderIsAhead
    OBVIOUS
<1>1. Init => OrderInv
    <2> SUFFICES ASSUME Init, NEW j \in Jobs
                 PROVE  RowOrder(j) /\ HourOrder(j) /\ HoursOnly(j)
        BY DEF OrderInv
    <2>1. written[j] = {} /\ todo[j] = {} /\ draft[j] = NoDocs /\ mine[j] = NoDocs
        BY DEF Init
    <2> QED BY <2>1, HoursAreDocs, BucketsAreDocs DEF RowOrder, HourOrder, HoursOnly, NoDocs
<1>2. IInv /\ OrderInv => HolderIsAhead
    BY OrderSuffices
<1> QED BY <1>1, <1>2, OrderStep, Invariance, PTL DEF Spec
=============================================================================
