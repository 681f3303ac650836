----------------------------- MODULE MCBackfill -----------------------------
(***************************************************************************)
(* Three days of two hours.  The story starts in the second hour of the    *)
(* second day; migration 0006 has marked the first.                        *)
(***************************************************************************)
EXTENDS Backfill

CONSTANT none

MCSeeded == {1}
=============================================================================
