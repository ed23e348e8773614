---------------------------- MODULE MCChatTurns ----------------------------
(***************************************************************************)
(* Instances of ChatTurns for TLC.                                         *)
(***************************************************************************)
EXTENDS ChatTurnsLedger, TLC

(* Calls of one kind are interchangeable; for runs without liveness. *)
CallSymmetry ==
  Permutations(Sends) \cup Permutations(Syncs) \cup Permutations(Stops)
    \cup Permutations(Waiters)
=============================================================================
