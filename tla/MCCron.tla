------------------------------- MODULE MCCron -------------------------------
(***************************************************************************)
(* Instances of CronService for TLC.                                       *)
(***************************************************************************)
EXTENDS CronService

(* A one-shot job at time 1 and a job that runs at every tick. *)
MCSchedules == {[kind |-> "at", at |-> 1, every |-> 0, anchor |-> 0],
                [kind |-> "every", at |-> 0, every |-> 1, anchor |-> 0]}
=============================================================================
