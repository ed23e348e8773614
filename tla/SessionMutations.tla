-------------------------- MODULE SessionMutations --------------------------
(***************************************************************************)
(* The per-session mutation coordinator of                                 *)
(* crates/service-traits/src/session_mutations.rs, for one session key.    *)
(*                                                                         *)
(*   turn   the one-permit semaphore: the chat turn or the mutation that   *)
(*          owns the session, or None                                      *)
(*   gate   the acquisition gate's writer: the mutation that reserved the  *)
(*          session, or None.  Its readers hold it only inside             *)
(*          try_acquire_turn, which never waits.                           *)
(***************************************************************************)
EXTENDS SessionCalls

VARIABLES turn, gate

mutationVars == <<turn, gate>>

InitMutations ==
  /\ turn = None
  /\ gate = None

(* try_acquire_turn answers ReservedMutation, ActiveTurn or the permit. *)
ReservedMutation == gate /= None

ActiveTurn == gate = None /\ turn /= None

(* Mutant: a second permit. *)
TryAcquireTurnTwice(c) ==
  /\ gate = None
  /\ turn' = c
  /\ UNCHANGED gate

TryAcquireTurn(c) ==
  /\ gate = None
  /\ turn = None
  /\ turn' = c
  /\ UNCHANGED gate

(* Mutant: the permit goes back whoever holds it. *)
DropTurnOfAny(o) ==
  /\ turn' = None
  /\ UNCHANGED gate

(* Dropping a SessionTurnPermit returns the semaphore permit. *)
DropTurn(o) ==
  /\ turn' = IF turn = o THEN None ELSE turn
  /\ UNCHANGED gate

(* reserve_mutation takes the write side of the gate, when it is free. *)
ReserveMutation(m) ==
  /\ gate = None
  /\ gate' = m
  /\ UNCHANGED turn

(* SessionMutationReservation::acquire waits for the semaphore. *)
AcquireMutation(m) ==
  /\ gate = m
  /\ turn = None
  /\ turn' = m
  /\ UNCHANGED gate

(* A dropped reservation, and the first half of a dropped mutation permit: *)
(* the fields are dropped in declaration order, the gate first.            *)
DropGate(m) ==
  /\ gate' = IF gate = m THEN None ELSE gate
  /\ UNCHANGED turn

(* The locks are in memory only. *)
RestartMutations ==
  /\ turn' = None
  /\ gate' = None

(* Every step of the coordinator. *)
MutationNext ==
  \/ \E c \in Sends : TryAcquireTurn(c)
  \/ \E o \in Sends \cup Mutators : DropTurn(o)
  \/ \E m \in Mutators : ReserveMutation(m) \/ AcquireMutation(m) \/ DropGate(m)
  \/ RestartMutations

TypeOKMutations ==
  /\ turn \in Sends \cup Mutators \cup {None}
  /\ gate \in Mutators \cup {None}
=============================================================================
