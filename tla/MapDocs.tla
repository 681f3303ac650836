------------------------------ MODULE MapDocs ------------------------------
(***************************************************************************)
(* Observation rows and the map documents derived from them: one snapshot  *)
(* per hour (workers/db/snapshots.py) and one aggregate per day, week and  *)
(* month (workers/db/aggregates.py).                                       *)
(*                                                                         *)
(* A row stands for one zone, hour and table.  Its value is the number of  *)
(* the version EIA published, 0 for "no row": documents are compared by    *)
(* which version of which row they render, not by the numbers in them.     *)
(* Rows are numbered in the order the writers upsert them; documents are   *)
(* numbered too, the hours oldest first, then the buckets.                 *)
(***************************************************************************)
EXTENDS Integers

CONSTANTS
    NumRows,       \* observation rows, numbered in write order
    NumHours,
    NumDocs,       \* documents 1..NumHours are hours, the rest are buckets
    Dataset,       \* [Rows -> Datasets], the table of each row
    HourOf,        \* [Rows -> Hours]
    BucketHours,   \* [Buckets -> SUBSET Hours]
    Resolution,    \* [Buckets -> {1, 2, 3}]: day, week, month, the order of RESOLUTIONS
    NoDoc          \* no document stored

Rows     == 1..NumRows
Hours    == 1..NumHours
Docs     == 1..NumDocs
Buckets  == Docs \ Hours
Datasets == {"region", "mix", "interchange"}
Version  == Nat
Doc      == [Rows -> Version]

ASSUME MapDocsConstants ==
    /\ NumRows \in Nat /\ NumHours \in Nat /\ NumDocs \in Nat
    /\ NumHours <= NumDocs
    /\ Dataset \in [Rows -> Datasets]
    /\ HourOf \in [Rows -> Hours]
    /\ BucketHours \in [Buckets -> SUBSET Hours]
    /\ Resolution \in [Buckets -> 1..3]
    /\ NoDoc \notin Doc

Covers(d) == IF d \in Hours THEN {d} ELSE BucketHours[d]

\* SNAPSHOT_QUERY and _aggregate_query read the region and mix tables only.
DocRows(d) == {r \in Rows : Dataset[r] \in {"region", "mix"} /\ HourOf[r] \in Covers(d)}

\* build_snapshot / build_aggregates: the document is a function of its rows.
Render(o, d) == [r \in Rows |-> IF r \in DocRows(d) THEN o[r] ELSE 0]

\* An hour is stored whatever it holds; a bucket nobody reported in is absent.
Built(o, d) == IF d \in Buckets /\ \A r \in DocRows(d) : o[r] = 0
               THEN NoDoc ELSE Render(o, d)

\* Document d, given the documents m and the rows o: it renders its rows, or
\* there is none and nothing to show.
Agrees(m, o, d) == m[d] = Built(o, d) \/ (m[d] = NoDoc /\ \A r \in DocRows(d) : o[r] = 0)

\* The documents a change of rows from o to o2 concerns.
Concerned(o, o2) == {d \in Docs : \E r \in DocRows(d) : o2[r] # o[r]}
=============================================================================
