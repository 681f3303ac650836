---------------------------- MODULE MCScheduler ----------------------------
(***************************************************************************)
(* Slots of half an hour with poll's own budget; and slots of an hour with *)
(* revise's.                                                               *)
(***************************************************************************)
EXTENDS Scheduler

HalfHours == [poll |-> 1, warm |-> 2]
PollSix   == [poll |-> 6]

Daily  == [revise |-> 24]
Thirty == [revise |-> 30]
Two    == [revise |-> 2]
=============================================================================
