---------------------------- MODULE MCAgentLoop ----------------------------
(***************************************************************************)
(* Instances of AgentLoop for TLC.                                         *)
(***************************************************************************)
EXTENDS AgentLoop, TLC

(* The calls are interchangeable; for runs without liveness. *)
ToolCallSymmetry == Permutations(Calls)
=============================================================================
