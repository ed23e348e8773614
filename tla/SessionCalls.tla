---------------------------- MODULE SessionCalls ----------------------------
(***************************************************************************)
(* The calls made for one chat session, the failures they may meet and the *)
(* bounds of an instance.                                                  *)
(***************************************************************************)
EXTENDS Naturals, Sequences, FiniteSets

CONSTANTS Sends,       \* chat.send calls
          Syncs,       \* chat.send_sync calls
          Stops,       \* chat.abort calls that name the session
          Mutators,    \* session mutations
          Truncators,  \* the mutations that stop the session and cut history
          Waiters,     \* wait_for_session_gate calls
          Faults,      \* the kinds of failure that may happen
          UserOps,     \* one-step operations a user may ask for
          MaxCrashes,  \* bound on restarts of the process
          None

Chats == Sends \cup Syncs
Stoppers == Stops \cup Truncators
FaultKinds == {"store", "hook", "panic", "dropped"}

ASSUME ChatTurnsAssumption ==
  /\ IsFiniteSet(Sends) /\ IsFiniteSet(Syncs)
  /\ IsFiniteSet(Stops) /\ IsFiniteSet(Mutators)
  /\ Truncators \subseteq Mutators
  /\ Sends \cap Syncs = {}
  /\ Stops \cap Mutators = {}
  /\ Chats \cap (Stops \cup Mutators) = {}
  /\ None \notin Chats \cup Stops \cup Mutators
  /\ Faults \subseteq FaultKinds
  /\ UserOps \subseteq {"remove", "clear", "stopRun"}
  /\ MaxCrashes \in Nat
=============================================================================
