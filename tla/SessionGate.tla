----------------------------- MODULE SessionGate -----------------------------
(***************************************************************************)
(* crates/chat/src/service/session_gate.rs, for one session: the terminal  *)
(* kind of the last finished turn, and the watch channel that wakes the    *)
(* calls waiting for the session's final gate.  A waiter's `bumped' says   *)
(* that the version moved since the waiter last looked at it.              *)
(***************************************************************************)
EXTENDS SessionCalls

VARIABLES terminal, bumped

sessionGateVars == <<terminal, bumped>>

Terminals == {"Completed", "Failed", "Cancelled"}

InitSessionGate ==
  /\ terminal = "none"
  /\ bumped = [w \in Waiters |-> FALSE]

Notify ==
  /\ bumped' = [w \in Waiters |-> TRUE]
  /\ UNCHANGED terminal

(* Mutant: the terminal is set and nobody is told. *)
FinishTurnSilently(t) ==
  /\ terminal' = t
  /\ UNCHANGED bumped

FinishTurn(t) ==
  /\ terminal' = t
  /\ bumped' = [w \in Waiters |-> TRUE]

(* begin_turn forgets the last terminal and wakes nobody. *)
BeginTurn ==
  /\ terminal' = "none"
  /\ UNCHANGED bumped

(* Subscribing, and returning from changed(), mark the version as seen. *)
SeeVersion(w) ==
  /\ bumped' = [bumped EXCEPT ![w] = FALSE]
  /\ UNCHANGED terminal

RestartSessionGate ==
  /\ terminal' = "none"
  /\ bumped' = [w \in Waiters |-> FALSE]

(* Every step of the registry. *)
SessionGateNext ==
  \/ Notify
  \/ \E t \in Terminals : FinishTurn(t)
  \/ BeginTurn
  \/ \E w \in Waiters : SeeVersion(w)
  \/ RestartSessionGate

TypeOKSessionGate ==
  /\ terminal \in Terminals \cup {"none"}
  /\ bumped \in [Waiters -> BOOLEAN]
=============================================================================
