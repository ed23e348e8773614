------------------------------ MODULE RunCalls ------------------------------
(***************************************************************************)
(* The tool calls of one agent run, the limits the code gives it, the      *)
(* failures it may meet and the bounds of an instance.                     *)
(***************************************************************************)
EXTENDS Naturals, Sequences, FiniteSets

CONSTANTS Calls,             \* tool calls the provider may announce
          MaxTools,          \* max_tools_threshold of a loop segment
          ServerRetries,     \* SERVER_MAX_RETRIES
          UnknownRetries,    \* UNKNOWN_MAX_RETRIES
          RateRetries,       \* RATE_LIMIT_MAX_RETRIES
          MaxAutoContinues,  \* agent_max_auto_continues
          Timeout,           \* agent timeout, in clock ticks
          MaxClock,          \* bound on the clock
          MaxUpdates,        \* bound on provider item updates
          MaxCompactions,    \* bound on automatic compactions
          Faults             \* the kinds of failure that may happen

FaultKinds == {"store", "provider", "hook", "rival"}

ASSUME RunAssumption ==
  /\ IsFiniteSet(Calls) /\ "none" \notin Calls
  /\ {MaxTools, ServerRetries, UnknownRetries, RateRetries, MaxAutoContinues,
      Timeout, MaxClock, MaxUpdates, MaxCompactions} \subseteq Nat
  /\ Faults \subseteq FaultKinds
=============================================================================
