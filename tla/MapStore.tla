------------------------------ MODULE MapStore ------------------------------
(***************************************************************************)
(* What the ingest jobs promise the map, with no transaction in sight: the *)
(* rows take published values, and in the same step the documents they     *)
(* concern are rebuilt from the rows as they now are.  Nothing is ever     *)
(* rebuilt from rows that are out of date.                                 *)
(***************************************************************************)
EXTENDS MapDocs

CONSTANTS
    Shown,    \* the documents this store speaks of
    MayOwe    \* those among them a job may leave for another one to rebuild

VARIABLES published, obs, docs

storeVars == <<published, obs, docs>>

Init == /\ published \in [Rows -> 0..1]
        /\ obs = [r \in Rows |-> 0]
        /\ docs = [d \in Shown |-> NoDoc]

Publish == /\ \E r \in Rows : published' = [published EXCEPT ![r] = @ + 1]
           /\ UNCHANGED <<obs, docs>>

Ingest == /\ \A r \in Rows : obs'[r] # obs[r] => obs'[r] \in 1..published[r]
          /\ \E D \in SUBSET Shown :
                /\ Concerned(obs, obs') \cap Shown \subseteq D \cup MayOwe
                /\ docs' = [d \in Shown |-> IF d \in D THEN Built(obs', d) ELSE docs[d]]
          /\ UNCHANGED published

Next == Publish \/ Ingest

Spec == Init /\ [][Next]_storeVars
=============================================================================
