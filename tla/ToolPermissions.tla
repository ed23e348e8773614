--------------------------- MODULE ToolPermissions ---------------------------
(***************************************************************************)
(* crates/chat/src/tool_permission.rs: the in-memory permission waits of   *)
(* one session and the clock that keeps them out of the run's timeout.     *)
(*                                                                         *)
(* A slot of the pending map is keyed by call and phase (the session is    *)
(* fixed).  A call waits in one gate at a time, so the oneshot channel of  *)
(* its wait is a function of the call: "open" while the receiver waits,    *)
(* then the decision sent through it, or "closed" once the sender was      *)
(* dropped with its slot.                                                  *)
(***************************************************************************)
EXTENDS RunCalls

VARIABLES pending,       \* ToolPermissionManager.pending
          reply,         \* the oneshot of a call's wait
          now,           \* ticks since the run started
          pausedCount, pausedTotal, pauseStarted,   \* AgentTimeoutClock
          worked         \* history: ticks that passed with no wait open

permissionVars == <<pending, reply>>
clockVars == <<now, pausedCount, pausedTotal, pauseStarted, worked>>

Before == "BeforeExecution"
After == "AfterResult"
Decisions == {"Approve", "Skip", "Deny"}
NotPaused == MaxClock + 1

InitPermissions ==
  /\ pending = {}
  /\ reply = [c \in Calls |-> "none"]
  /\ now = 0
  /\ pausedCount = 0
  /\ pausedTotal = 0
  /\ pauseStarted = NotPaused
  /\ worked = 0

-----------------------------------------------------------------------------
(* AgentTimeoutClock: the first pause starts the stopwatch, the last resume *)
(* adds it to the total.                                                    *)
Pause ==
  /\ pausedCount' = pausedCount + 1
  /\ pauseStarted' = IF pausedCount = 0 THEN now ELSE pauseStarted
  /\ UNCHANGED <<now, pausedTotal, worked>>

(* Mutant: any resume stops the stopwatch. *)
ResumeFirst ==
  /\ pausedCount' = pausedCount - 1
  /\ pauseStarted' = NotPaused
  /\ pausedTotal' = IF pauseStarted # NotPaused
                      THEN pausedTotal + (now - pauseStarted) ELSE pausedTotal
  /\ UNCHANGED <<now, worked>>

(* Mutant: every resume adds the whole pause. *)
ResumeEach ==
  /\ pausedCount' = pausedCount - 1
  /\ pauseStarted' = IF pausedCount = 1 THEN NotPaused ELSE pauseStarted
  /\ pausedTotal' = pausedTotal + (now - pauseStarted)
  /\ UNCHANGED <<now, worked>>

Resume ==
  /\ pausedCount' = pausedCount - 1
  /\ IF pausedCount = 1
       THEN /\ pauseStarted' = NotPaused
            /\ pausedTotal' = pausedTotal + (now - pauseStarted)
       ELSE UNCHANGED <<pauseStarted, pausedTotal>>
  /\ UNCHANGED <<now, worked>>

PausedDuration ==
  pausedTotal + (IF pauseStarted = NotPaused THEN 0 ELSE now - pauseStarted)

Unpaused == now - PausedDuration

Tick ==
  /\ now < MaxClock
  /\ now' = now + 1
  /\ worked' = IF \E c \in Calls : reply[c] # "none" THEN worked ELSE worked + 1
  /\ UNCHANGED <<pausedCount, pausedTotal, pauseStarted, permissionVars>>

-----------------------------------------------------------------------------
(* gate_permission of a moderated session: the guard pauses the clock, the *)
(* slot enters the map, and the call waits on the channel.                 *)
Register(c, ph) ==
  /\ pending' = pending \cup {<<c, ph>>}
  /\ reply' = [reply EXCEPT ![c] = "open"]
  /\ Pause

(* The wait is over, answered or its future dropped: the guard resumes the *)
(* clock; a slot still in the map stays there.                             *)
Leave(c) ==
  /\ reply' = [reply EXCEPT ![c] = "none"]
  /\ Resume
  /\ UNCHANGED pending

(* tool.permission.resolve: the operator's decision for a pending slot is  *)
(* acknowledged whether or not a receiver is left.                         *)
Resolve(c, ph, d) ==
  /\ <<c, ph>> \in pending
  /\ pending' = pending \ {<<c, ph>>}
  /\ reply' = IF reply[c] = "open" THEN [reply EXCEPT ![c] = d] ELSE reply

(* The wait sees the cancellation itself, and takes with it every slot of  *)
(* the session, whichever call or run registered it.                       *)
LeaveDropping(c) ==
  /\ pending' = {}
  /\ reply' = [d \in Calls |-> IF d = c THEN "none"
                                ELSE IF reply[d] = "open" THEN "closed"
                                ELSE reply[d]]
  /\ Resume

(* The end of a run does the same. *)
DropSession ==
  /\ pending' = {}
  /\ reply' = [c \in Calls |-> IF reply[c] = "open" THEN "closed" ELSE reply[c]]

TypeOKPermissions ==
  /\ pending \subseteq Calls \X {Before, After}
  /\ reply \in [Calls -> {"none", "open", "closed"} \cup Decisions]
  /\ now \in 0 .. MaxClock
  /\ pausedCount \in 0 .. Cardinality(Calls)
  /\ pausedTotal \in 0 .. MaxClock
  /\ pauseStarted \in 0 .. NotPaused
  /\ worked \in 0 .. MaxClock
=============================================================================
