------------------------------ MODULE MCFetch ------------------------------
(***************************************************************************)
(* Four rows of two zone-hours, pages of two.  EIA holds three of the rows *)
(* to begin with, or the first two.                                        *)
(***************************************************************************)
EXTENDS Fetch

CONSTANT none

MCOpening  == {{1, 2}, {1, 2, 3}, {2, 3, 4}}
MCZoneHour == <<1, 1, 2, 2>>
MCLimits   == <<2, 3>>
=============================================================================
