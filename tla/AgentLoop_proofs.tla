-------------------------- MODULE AgentLoop_proofs --------------------------
(***************************************************************************)
(* One agent run, for any tool calls, limits and faults: its types, the    *)
(* clock of its timeout, what the operator's decisions allow, and the end  *)
(* of its tool lifecycles.                                                 *)
(***************************************************************************)
EXTENDS AgentLoop, FiniteSetTheorems, SequenceTheorems, TLAPS

(* What the loop does while no tool of the batch runs; it leaves the calls, *)
(* the waits and the environment alone.                                     *)
LoopActions ==
  \/ BeforeAgentStart \/ TopCancelled \/ NextIteration \/ StreamCancelled
  \/ LoopEmitFails \/ CancelledStarted \/ RetryDelay \/ ReserveBatch
  \/ AfterCallCancelled \/ Answer \/ Barrier \/ CompactionCancelled
  \/ TakeForwarder \/ ProviderItemUpdate \/ StreamDone \/ MalformedRetry
  \/ AutoContinue \/ AfterCallBlocked \/ Compacted \/ CompactionFails
  \/ \E k \in RetryKinds : StreamFailed(k)
  \/ \E c \in Calls : \/ CancelNext(c) \/ InputReady(c)
                      \/ ToolCallStart(c) \/ ToolCallArgumentsDelta(c)

(* A step of the future of one call. *)
CallActions(c) == ToolSteps(c) \/ ToolReturned(c) \/ ToolBlocked(c) \/ ToolFails(c)

(* The other run of the session. *)
RivalActions == RivalStarts \/ RivalDropsWaits \/ RivalEnds

Decides ==
  \E c \in Calls, ph \in {Before, After}, d \in Decisions : OperatorDecides(c, ph, d)

(* Every step of a run, by what it touches. *)
LEMMA RunSteps ==
  ASSUME [Next]_vars
  PROVE  \/ LoopActions \/ ItemRejected \/ StartTools \/ JoinTools \/ Cleanup
         \/ \E c \in Calls : CallActions(c)
         \/ ForwardEvent \/ ForwardFails \/ ForwarderEnds
         \/ Cancel \/ Watchdog \/ Time \/ Decides \/ RivalActions
         \/ UNCHANGED vars
BY DEF Next, LoopSteps, ForwarderSteps, Provider, Environment, LoopActions,
       CallActions, RivalActions, Decides

LEMMA LoopLeavesRest ==
  ASSUME LoopActions
  PROVE  /\ UNCHANGED <<permissionVars, clockVars, callVars, envVars>>
         /\ pc # "tools"
BY DEF LoopActions, KeepRest, Streaming, BeforeAgentStart, TopCancelled,
       NextIteration, StreamCancelled, LoopEmitFails, CancelledStarted,
       RetryDelay, ReserveBatch, AfterCallCancelled, Answer, Barrier,
       CompactionCancelled, TakeForwarder, ProviderItemUpdate, StreamDone,
       MalformedRetry, AutoContinue, AfterCallBlocked, Compacted,
       CompactionFails, StreamFailed, CancelNext, InputReady, ToolCallStart,
       ToolCallArgumentsDelta

-----------------------------------------------------------------------------
(* The queue from the loop to the forwarder. *)

Plain == {"iteration", "update", "close"}

(* The operations of the queue. *)
EventNext ==
  \/ \E c \in Calls, s \in Stages \ {"none"} : Emit(c, s)
  \/ \E n \in Plain : Publish(n)
  \/ Forward(InBatch) \/ ForwarderFails \/ ForwarderFinishes
  \/ draft' \in BOOLEAN /\ UNCHANGED <<queue, backlog, stage, receipt, journal,
                                       pendingInputs, framed, forwarder>>

(* Each step of a run is one operation of the queue at most. *)
LEMMA LoopEvents == ASSUME LoopActions PROVE [EventNext]_eventVars
<1>1. ASSUME BeforeAgentStart \/ TopCancelled \/ StreamCancelled
             \/ LoopEmitFails \/ RetryDelay \/ ReserveBatch
             \/ AfterCallCancelled \/ Answer \/ Barrier
             \/ CompactionCancelled \/ TakeForwarder \/ MalformedRetry
             \/ AutoContinue \/ AfterCallBlocked \/ Compacted
             \/ CompactionFails \/ (\E k \in RetryKinds : StreamFailed(k))
      PROVE  UNCHANGED eventVars
  BY <1>1 DEF BeforeAgentStart, TopCancelled, StreamCancelled, LoopEmitFails,
         RetryDelay, ReserveBatch, AfterCallCancelled, Answer, Barrier,
         CompactionCancelled, TakeForwarder, MalformedRetry, AutoContinue,
         AfterCallBlocked, Compacted, CompactionFails, StreamFailed
<1>2. ASSUME NextIteration \/ CancelledStarted \/ ProviderItemUpdate \/ StreamDone
      PROVE  [EventNext]_eventVars
  BY <1>2 DEF NextIteration, CancelledStarted, ProviderItemUpdate, StreamDone,
         EventNext, Plain
<1>3. ASSUME NEW c \in Calls,
             CancelNext(c) \/ InputReady(c) \/ ToolCallStart(c)
             \/ ToolCallArgumentsDelta(c)
      PROVE  \E s \in Stages \ {"none"} : Emit(c, s)
  BY <1>3 DEF CancelNext, InputReady, ToolCallStart, ToolCallArgumentsDelta,
         Stages, Terminal
<1> QED
  BY <1>1, <1>2, <1>3 DEF LoopActions, EventNext

LEMMA CallEvents ==
  ASSUME NEW c \in Calls, CallActions(c)
  PROVE  (\E s \in Stages \ {"none"} : Emit(c, s)) \/ UNCHANGED eventVars
<1>1. ASSUME NEW l \in Gates,
             ToolGate(c, l) \/ ToolAnswered(c, l) \/ ToolGateCancelled(c, l)
      PROVE  (\E s \in Stages \ {"none"} : Emit(c, s)) \/ UNCHANGED eventVars
  BY <1>1 DEF ToolGate, ToolAnswered, ToolGateCancelled, Proceed, Decline,
         EndCancelled, Stages, Terminal
<1>2. ASSUME ToolBegin(c) \/ ToolRejected(c) \/ ToolExecuting(c)
             \/ ToolProgress(c) \/ ToolCancelled(c) \/ ToolResult(c)
      PROVE  \E s \in Stages \ {"none"} : Emit(c, s)
  BY <1>2 DEF ToolBegin, ToolRejected, ToolExecuting, ToolProgress,
         ToolCancelled, ToolResult, EndCancelled, Stages, Terminal
<1>3. ASSUME ToolExecute(c) \/ ToolEnds(c) \/ ToolEmitFails(c)
             \/ ToolReturned(c) \/ ToolBlocked(c) \/ ToolFails(c)
      PROVE  UNCHANGED eventVars
  BY <1>3 DEF ToolExecute, ToolEnds, ToolEmitFails, ToolReturned, ToolBlocked,
         ToolFails
<1> QED
  BY <1>1, <1>2, <1>3 DEF CallActions, ToolSteps

LEMMA EventSteps == ASSUME [Next]_vars PROVE [EventNext]_eventVars
<1>1. ASSUME ItemRejected \/ StartTools \/ JoinTools \/ Cancel \/ Watchdog
             \/ Time \/ Decides \/ UNCHANGED vars
      PROVE  UNCHANGED eventVars
  BY <1>1 DEF ItemRejected, StartTools, JoinTools, Cancel, Watchdog, Time,
         Decides, OperatorDecides, vars
<1>2. ASSUME Cleanup \/ RivalActions PROVE [EventNext]_eventVars
  BY <1>2 DEF Cleanup, RivalActions, RivalStarts, RivalDropsWaits, RivalEnds,
         EventNext
<1>3. ASSUME ForwardEvent \/ ForwardFails \/ ForwarderEnds
      PROVE  EventNext
  BY <1>3 DEF ForwardEvent, ForwardFails, ForwarderEnds, EventNext
<1>4. ASSUME NEW c \in Calls, CallActions(c) PROVE [EventNext]_eventVars
  BY <1>4, CallEvents DEF EventNext
<1> QED
  BY <1>1, <1>2, <1>3, <1>4, LoopEvents, RunSteps

(* The barrier's counters differ by the events in the queue, as long as the *)
(* forwarder runs; afterwards the queue is gone.                            *)
Backlogged ==
  /\ forwarder = "running" => backlog = Len(queue)
  /\ forwarder # "running" => queue = <<>>

LEMMA EventTypes ==
  ASSUME TypeOKEvents, Backlogged, batch \in Seq(Calls), [EventNext]_eventVars
  PROVE  TypeOKEvents' /\ Backlogged'
<1> USE DEF TypeOKEvents, Backlogged
<1>1. ASSUME NEW c \in Calls, NEW s \in Stages \ {"none"}, Emit(c, s)
      PROVE  TypeOKEvents' /\ Backlogged'
  <2>1. [call |-> c, stage |-> s] \in Events
    BY DEF Events
  <2>2. UNCHANGED <<journal, pendingInputs, framed, forwarder, draft>>
    BY <1>1 DEF Emit
  <2>3. receipt' \in [Calls -> {"none", "wait", "ok", "err"}]
    <3>1. CASE forwarder = "running"
      <4>1. receipt' = [receipt EXCEPT ![c] =
                          IF s = "input_streaming" THEN "ok" ELSE "wait"]
        BY <1>1, <3>1 DEF Emit
      <4> QED
        BY <4>1
    <3>2. CASE forwarder # "running"
      BY <1>1, <3>2 DEF Emit
    <3> QED
      BY <3>1, <3>2
  <2>4. stage' \in [Calls -> Stages]
    BY <1>1 DEF Emit
  <2>5. /\ queue' \in Seq(Events) /\ backlog' \in Nat
        /\ forwarder = "running" => backlog' = Len(queue')
        /\ forwarder # "running" => queue' = <<>>
    <3>1. CASE forwarder = "running"
      <4>1. queue' = Append(queue, [call |-> c, stage |-> s])
            /\ backlog' = backlog + 1
        BY <1>1, <3>1 DEF Emit
      <4>2. queue' \in Seq(Events) /\ Len(queue') = Len(queue) + 1
        BY <2>1, <4>1, AppendProperties
      <4> QED
        BY <3>1, <4>1, <4>2
    <3>2. CASE forwarder # "running"
      BY <1>1, <3>2 DEF Emit
    <3> QED
      BY <3>1, <3>2
  <2> QED
    BY <2>2, <2>3, <2>4, <2>5
<1>2. ASSUME NEW n \in Plain, Publish(n) PROVE TypeOKEvents' /\ Backlogged'
  <2>1. [call |-> "none", stage |-> n] \in Events
    BY DEF Events, Plain
  <2>2. CASE forwarder = "running"
    <3>1. queue' \in Seq(Events) /\ Len(queue') = Len(queue) + 1
      BY <1>2, <2>1, <2>2, AppendProperties DEF Publish
    <3> QED
      BY <1>2, <2>2, <3>1 DEF Publish
  <2>3. CASE forwarder # "running"
    BY <1>2, <2>3 DEF Publish
  <2> QED
    BY <2>2, <2>3
<1>3. ASSUME Forward(InBatch) PROVE TypeOKEvents' /\ Backlogged'
  <2> DEFINE e == Head(queue)
  <2>1. /\ e \in Events /\ Tail(queue) \in Seq(Events)
        /\ Len(Tail(queue)) = Len(queue) - 1 /\ Len(queue) \in Nat \ {0}
    BY <1>3, HeadTailProperties, EmptySeq DEF Forward
  <2>2. /\ e.stage = "input_streaming" => e.call \in Calls
        /\ e.call \in Calls => e.stage \in Stages
    BY <2>1, RunAssumption DEF Events
  <2>3. InBatch \subseteq Calls
    BY DEF InBatch
  <2>4. receipt' \in [Calls -> {"none", "wait", "ok", "err"}]
    BY <1>3 DEF Forward, Answered
  <2>5. journal' \in [Calls -> Stages]
    BY <1>3, <2>2 DEF Forward
  <2>6. pendingInputs' \subseteq Calls /\ framed' \subseteq Calls
    BY <1>3, <2>2, <2>3 DEF Forward
  <2>7. /\ queue' = Tail(queue) /\ backlog' = backlog - 1
        /\ forwarder = "running"
        /\ UNCHANGED <<stage, forwarder, draft>>
    BY <1>3 DEF Forward
  <2> QED
    BY <2>1, <2>4, <2>5, <2>6, <2>7
<1>4. ASSUME ForwarderFails PROVE TypeOKEvents' /\ Backlogged'
  <2>1. Len(queue) \in Nat \ {0}
    BY <1>4, EmptySeq DEF ForwarderFails
  <2> QED
    BY <1>4, <2>1 DEF ForwarderFails
<1>5. ASSUME ForwarderFinishes PROVE TypeOKEvents' /\ Backlogged'
  BY <1>5 DEF ForwarderFinishes
<1>6. ASSUME draft' \in BOOLEAN,
             UNCHANGED <<queue, backlog, stage, receipt, journal, pendingInputs,
                         framed, forwarder>>
      PROVE  TypeOKEvents' /\ Backlogged'
  BY <1>6
<1>7. CASE UNCHANGED eventVars
  BY <1>7 DEF eventVars
<1> QED
  BY <1>1, <1>2, <1>3, <1>4, <1>5, <1>6, <1>7 DEF EventNext

-----------------------------------------------------------------------------
(* Types, and where the calls are. *)

(* A call is under way only while the loop waits for the batch it is in. *)
CallsPlaced ==
  \A c \in Calls : at[c] \notin {"off", "done"} => pc = "tools" /\ c \in InBatch

(* A compaction under way is within the bound. *)
CompactionDue == pc \in {"barrier", "compacting"} => compactions < MaxCompactions

RunTypes ==
  /\ TypeOKEvents /\ TypeOKLoop /\ TypeOKCalls /\ TypeOKEnv
  /\ Backlogged /\ CompactionDue /\ CallsPlaced

LEMMA BatchCalls == ASSUME batch \in Seq(Calls) PROVE InBatch \subseteq Calls
BY DEF InBatch

(* Retries taken and restored, nudges counted. *)
LEMMA RetryTypes ==
  ASSUME retries \in [{"server", "unknown", "rate"} -> Nat]
  PROVE  /\ \A k \in {"server", "unknown", "rate"} : retries[k] > 0 =>
              [retries EXCEPT ![k] = @ - 1] \in [{"server", "unknown", "rate"} -> Nat]
         /\ [retries EXCEPT !.server = ServerRetries, !.unknown = UnknownRetries]
              \in [{"server", "unknown", "rate"} -> Nat]
<1>1. ASSUME NEW k \in {"server", "unknown", "rate"}, retries[k] > 0
      PROVE  [retries EXCEPT ![k] = @ - 1] \in [{"server", "unknown", "rate"} -> Nat]
  BY <1>1
<1>2. /\ ServerRetries \in Nat /\ UnknownRetries \in Nat
      /\ [retries EXCEPT !.server = ServerRetries]
           \in [{"server", "unknown", "rate"} -> Nat]
  BY RunAssumption
<1> QED
  BY <1>1, <1>2

LEMMA NudgeTypes ==
  ASSUME nudges \in [auto : 0 .. MaxAutoContinues, emptyName : BOOLEAN,
                     malformed : BOOLEAN],
         nudges.auto < MaxAutoContinues
  PROVE  [nudges EXCEPT !.auto = @ + 1]
           \in [auto : 0 .. MaxAutoContinues, emptyName : BOOLEAN,
                malformed : BOOLEAN]
<1>1. MaxAutoContinues \in Nat /\ nudges.auto \in 0 .. MaxAutoContinues
  BY RunAssumption
<1>2. nudges.auto + 1 \in 0 .. MaxAutoContinues
  BY <1>1
<1> QED
  BY <1>2

LEMMA LoopTypes ==
  ASSUME TypeOKLoop, CompactionDue, LoopActions
  PROVE  TypeOKLoop' /\ CompactionDue'
<1> USE RunAssumption
    DEF TypeOKLoop, CompactionDue, LoopPlaces, Outcomes, Return, Stay, KeepLoop,
        CancelStarted
<1>1. ASSUME BeforeAgentStart \/ TopCancelled \/ LoopEmitFails \/ RetryDelay
             \/ Answer \/ Barrier \/ CompactionCancelled \/ TakeForwarder
             \/ CompactionFails
      PROVE  TypeOKLoop' /\ CompactionDue'
  <2>1. /\ pc' \in LoopPlaces /\ outcome' \in Outcomes
        /\ pc' \in {"barrier", "compacting"} => pc = "barrier"
    BY <1>1 DEF BeforeAgentStart, TopCancelled, LoopEmitFails, RetryDelay,
           Answer, Barrier, CompactionCancelled, TakeForwarder, CompactionFails
  <2>2. KeepLoop
    BY <1>1 DEF BeforeAgentStart, TopCancelled, LoopEmitFails, RetryDelay,
           Answer, Barrier, CompactionCancelled, TakeForwarder, CompactionFails
  <2> QED
    BY <2>1, <2>2
<1>2. ASSUME StreamCancelled \/ AfterCallCancelled \/ AfterCallBlocked
      PROVE  TypeOKLoop' /\ CompactionDue'
  BY <1>2 DEF StreamCancelled, AfterCallCancelled, AfterCallBlocked
<1>3. ASSUME CancelledStarted PROVE TypeOKLoop' /\ CompactionDue'
  <2>1. pc' \in LoopPlaces \ {"barrier", "compacting"} /\ outcome' \in Outcomes
    BY <1>3 DEF CancelledStarted
  <2> QED
    BY <1>3, <2>1 DEF CancelledStarted
<1>4. ASSUME ReserveBatch PROVE TypeOKLoop' /\ CompactionDue'
  <2>1. Len(batch) \in Nat
    BY LenProperties
  <2>2. nudges' \in [auto : 0 .. MaxAutoContinues, emptyName : BOOLEAN,
                     malformed : BOOLEAN]
    BY <1>4 DEF ReserveBatch
  <2>3. used' \in 0 .. MaxTools
    BY <1>4, <2>1 DEF ReserveBatch
  <2>4. /\ pc' \in {"cancelling", "afterCall"} /\ outcome' = outcome
        /\ andThen' \in Outcomes \cup {"retry", "again"}
        /\ UNCHANGED <<batch, retries, segment, updates, compactions>>
    BY <1>4 DEF ReserveBatch
  <2> QED
    BY <2>2, <2>3, <2>4
<1>5. ASSUME ProviderItemUpdate PROVE TypeOKLoop' /\ CompactionDue'
  BY <1>5 DEF ProviderItemUpdate, Streaming
<1>6. ASSUME StreamDone PROVE TypeOKLoop' /\ CompactionDue'
  <2>1. batch' \in Seq(Calls)
    <3>1. batch' = batch \/ \E c \in Calls : batch' = <<c>>
      BY <1>6, Zenon DEF StreamDone
    <3>2. ASSUME NEW c \in Calls, batch' = <<c>> PROVE batch' \in Seq(Calls)
      BY <3>2
    <3> QED
      BY <3>1, <3>2
  <2>2. retries' \in [{"server", "unknown", "rate"} -> Nat]
    BY <1>6, RetryTypes, Zenon DEF StreamDone
  <2>3. /\ pc' = "response" /\ segment' = FALSE
        /\ UNCHANGED <<andThen, used, nudges, updates, compactions, outcome>>
    BY <1>6 DEF StreamDone
  <2> QED
    BY <2>1, <2>2, <2>3
<1>7. ASSUME MalformedRetry \/ AutoContinue PROVE TypeOKLoop' /\ CompactionDue'
  <2>1. nudges' \in [auto : 0 .. MaxAutoContinues, emptyName : BOOLEAN,
                     malformed : BOOLEAN]
    <3>1. CASE MalformedRetry
      BY <3>1 DEF MalformedRetry
    <3>2. CASE AutoContinue
      BY <3>2, NudgeTypes, Zenon DEF AutoContinue
    <3> QED
      BY <1>7, <3>1, <3>2
  <2>2. /\ pc' = "top"
        /\ UNCHANGED <<batch, andThen, used, retries, segment, updates,
                       compactions, outcome>>
    BY <1>7 DEF MalformedRetry, AutoContinue
  <2> QED
    BY <2>1, <2>2
<1>8. ASSUME Compacted PROVE TypeOKLoop' /\ CompactionDue'
  <2>1. FullRetries \in [{"server", "unknown", "rate"} -> Nat]
    BY DEF FullRetries
  <2>2. NoNudges \in [auto : 0 .. MaxAutoContinues, emptyName : BOOLEAN,
                      malformed : BOOLEAN]
    BY DEF NoNudges
  <2>3. compactions' \in 0 .. MaxCompactions
    BY <1>8 DEF Compacted
  <2> QED
    BY <1>8, <2>1, <2>2, <2>3 DEF Compacted
<1>9. ASSUME NEW k \in RetryKinds, StreamFailed(k) PROVE TypeOKLoop' /\ CompactionDue'
  <2>1. retries' \in [{"server", "unknown", "rate"} -> Nat]
    <3>1. CASE k # "terminal" /\ retries[k] > 0
      <4>1. k \in {"server", "unknown", "rate"}
        BY <3>1 DEF RetryKinds
      <4> QED
        BY <1>9, <3>1, <4>1, RetryTypes, Zenon DEF StreamFailed
    <3>2. CASE ~(k # "terminal" /\ retries[k] > 0)
      BY <1>9, <3>2 DEF StreamFailed
    <3> QED
      BY <3>1, <3>2
  <2>2. /\ pc' = "cancelling" /\ outcome' = outcome /\ andThen' \in {"retry", "error"}
        /\ UNCHANGED <<batch, used, nudges, segment, updates, compactions>>
    BY <1>9 DEF StreamFailed
  <2> QED
    BY <2>1, <2>2
<1>10. ASSUME NEW c \in Calls, ToolCallStart(c) PROVE TypeOKLoop' /\ CompactionDue'
  BY <1>10 DEF ToolCallStart, Streaming
<1>11. ASSUME NEW c \in Calls,
              CancelNext(c) \/ InputReady(c) \/ ToolCallArgumentsDelta(c)
       PROVE  TypeOKLoop' /\ CompactionDue'
  <2>1. UNCHANGED loopVars
    BY <1>11 DEF CancelNext, InputReady, ToolCallArgumentsDelta
  <2> QED
    BY <2>1 DEF loopVars
<1>12. ASSUME NextIteration PROVE TypeOKLoop' /\ CompactionDue'
  <2>1. batch' \in Seq(Calls)
    BY <1>12 DEF NextIteration
  <2>2. /\ pc' \in {"streaming", "barrier", "closing"} /\ outcome' \in Outcomes
        /\ pc' = "barrier" => compactions < MaxCompactions
        /\ UNCHANGED <<andThen, used, retries, nudges, segment, updates, compactions>>
    BY <1>12 DEF NextIteration
  <2> QED
    BY <2>1, <2>2
<1> QED
  BY <1>1, <1>2, <1>3, <1>4, <1>5, <1>6, <1>7, <1>8, <1>9, <1>10, <1>11, <1>12
  DEF LoopActions

(* A step of one call's future: the loop stays where it is, and nothing but *)
(* this call moves.                                                         *)
LEMMA CallMoves ==
  ASSUME TypeOKCalls, NEW c \in Calls, CallActions(c)
  PROVE  /\ pc = "tools" /\ at[c] \notin {"off", "done"}
         /\ UNCHANGED loopVars
         /\ UNCHANGED <<token, timedOut, verdict, rival>>
         /\ at' \in [Calls -> CallLabels]
         /\ at'[c] \notin {"off", "begin"}
         /\ \A d \in Calls \ {c} : at'[d] = at[d] /\ ret'[d] = ret[d]
         /\ ret' \in [Calls -> {"none", "ok", "cancelled", "error"}]
         /\ executed \subseteq executed' /\ executed' \subseteq executed \cup {c}
         /\ broken' \in {broken, TRUE}
<1> USE DEF TypeOKCalls, CallLabels, Move, Ready
<1>1. ASSUME NEW l \in Gates,
             ToolGate(c, l) \/ ToolAnswered(c, l) \/ ToolGateCancelled(c, l)
      PROVE  /\ pc = "tools" /\ at[c] \notin {"off", "done"}
             /\ UNCHANGED <<loopVars, ret, envVars, executed>>
             /\ \E m \in CallLabels \ {"off", "begin"} : at' = [at EXCEPT ![c] = m]
  BY <1>1 DEF ToolGate, ToolAnswered, ToolGateCancelled, Gates, WaitOf, PhaseOf,
         Proceed, Decline, EndCancelled, KeepCall
<1>2. ASSUME ToolBegin(c) \/ ToolRejected(c) \/ ToolExecuting(c)
             \/ ToolProgress(c) \/ ToolCancelled(c) \/ ToolResult(c)
             \/ ToolReturned(c) \/ ToolBlocked(c)
      PROVE  /\ pc = "tools" /\ at[c] \notin {"off", "done"}
             /\ UNCHANGED <<loopVars, ret, envVars, executed>>
             /\ \E m \in CallLabels \ {"off", "begin"} : at' = [at EXCEPT ![c] = m]
  BY <1>2 DEF ToolBegin, ToolRejected, ToolExecuting, ToolProgress,
         ToolCancelled, ToolResult, ToolReturned, ToolBlocked, EndCancelled,
         KeepCall
<1>3. ASSUME ToolExecute(c)
      PROVE  /\ pc = "tools" /\ at[c] \notin {"off", "done"}
             /\ UNCHANGED <<loopVars, ret, envVars>>
             /\ executed' = executed \cup {c}
             /\ at' = [at EXCEPT ![c] = "tool"]
  BY <1>3 DEF ToolExecute, KeepCall
<1>4. ASSUME ToolEnds(c) \/ ToolEmitFails(c) \/ ToolFails(c)
      PROVE  /\ pc = "tools" /\ at[c] \notin {"off", "done"}
             /\ UNCHANGED <<loopVars, token, timedOut, verdict, rival, executed>>
             /\ broken' \in {broken, TRUE}
             /\ at' = [at EXCEPT ![c] = "done"]
             /\ \E r \in {"ok", "cancelled", "error"} : ret' = [ret EXCEPT ![c] = r]
  BY <1>4 DEF ToolEnds, ToolEmitFails, ToolFails, Gates, envVars
<1>5. CASE ToolExecute(c)
  BY <1>3, <1>5 DEF envVars
<1>6. CASE ToolEnds(c) \/ ToolEmitFails(c) \/ ToolFails(c)
  BY <1>4, <1>6
<1>7. CASE /\ pc = "tools" /\ at[c] \notin {"off", "done"}
           /\ UNCHANGED <<loopVars, ret, envVars, executed>>
           /\ \E m \in CallLabels \ {"off", "begin"} : at' = [at EXCEPT ![c] = m]
  BY <1>7 DEF envVars
<1> QED
  BY <1>1, <1>2, <1>5, <1>6, <1>7 DEF CallActions, ToolSteps

(* The steps beside the run's own task. *)
SideActions ==
  \/ ForwardEvent \/ ForwardFails \/ ForwarderEnds
  \/ Cancel \/ Watchdog \/ Time \/ Decides \/ RivalActions

LEMMA SideLeavesRun ==
  ASSUME SideActions \/ UNCHANGED vars
  PROVE  UNCHANGED <<loopVars, callVars>>
BY DEF SideActions, ForwardEvent, ForwardFails, ForwarderEnds, Cancel, Watchdog,
       Time, Decides, OperatorDecides, RivalActions, RivalStarts,
       RivalDropsWaits, RivalEnds, vars

LEMMA EnvTypes ==
  ASSUME TypeOKEnv, [Next]_vars
  PROVE  TypeOKEnv'
<1> USE DEF TypeOKEnv
<1>1. CASE LoopActions
  BY <1>1, LoopLeavesRest DEF envVars
<1>2. CASE ItemRejected \/ StartTools \/ JoinTools \/ Cleanup
  BY <1>2 DEF ItemRejected, StartTools, JoinTools, Cleanup, KeepRest, envVars
<1>3. ASSUME NEW c \in Calls, CallActions(c) PROVE TypeOKEnv'
  <2>1. CASE UNCHANGED envVars
    BY <2>1 DEF envVars
  <2>2. CASE ToolFails(c)
    BY <2>2 DEF ToolFails
  <2> QED
    BY <1>3, <2>1, <2>2 DEF CallActions, ToolSteps, ToolBegin, ToolRejected,
       ToolExecuting, ToolProgress, ToolExecute, ToolCancelled, ToolResult,
       ToolEnds, ToolEmitFails, ToolGate, ToolAnswered, ToolGateCancelled,
       ToolReturned, ToolBlocked, KeepCall
<1>4. CASE ForwardEvent \/ ForwardFails \/ ForwarderEnds \/ Time
  BY <1>4 DEF ForwardEvent, ForwardFails, ForwarderEnds, Time, envVars
<1>5. CASE Cancel \/ Watchdog \/ RivalActions
  BY <1>5 DEF Cancel, Watchdog, RivalActions, RivalStarts, RivalDropsWaits,
         RivalEnds, envVars
<1>6. CASE Decides
  <2>1. PICK c \in Calls, ph \in {Before, After}, d \in Decisions :
          OperatorDecides(c, ph, d)
    BY <1>6 DEF Decides
  <2>2. verdict' \in [Calls -> {"none"} \cup Decisions]
    BY <2>1 DEF OperatorDecides
  <2> QED
    BY <2>1, <2>2 DEF OperatorDecides
<1>7. CASE UNCHANGED vars
  BY <1>7 DEF vars, envVars
<1> QED
  BY <1>1, <1>2, <1>3, <1>4, <1>5, <1>6, <1>7, RunSteps

LEMMA RunTypesStep ==
  ASSUME RunTypes, [Next]_vars
  PROVE  RunTypes'
<1> USE DEF RunTypes
<1>1. TypeOKEvents' /\ Backlogged'
  <2>1. batch \in Seq(Calls)
    BY DEF TypeOKLoop
  <2> QED
    BY <2>1, EventSteps, EventTypes
<1>2. TypeOKEnv'
  BY EnvTypes
<1>3. ASSUME LoopActions PROVE RunTypes'
  <2>1. UNCHANGED callVars /\ pc # "tools"
    BY <1>3, LoopLeavesRest
  <2>2. TypeOKCalls' /\ CallsPlaced'
    BY <2>1 DEF TypeOKCalls, CallsPlaced, callVars
  <2> QED
    BY <1>1, <1>2, <1>3, <2>2, LoopTypes
<1>4. ASSUME ItemRejected \/ Cleanup PROVE RunTypes'
  <2>1. /\ pc \in {"streaming", "framed"} /\ pc' \in LoopPlaces \ {"barrier", "compacting"}
        /\ outcome' \in Outcomes
        /\ UNCHANGED <<batch, andThen, used, retries, nudges, segment, updates,
                       compactions, callVars>>
    BY <1>4 DEF ItemRejected, Cleanup, Streaming, Return, KeepLoop, Stay,
           TypeOKLoop, LoopPlaces, Outcomes
  <2>2. TypeOKLoop' /\ CompactionDue'
    BY <2>1 DEF TypeOKLoop, CompactionDue
  <2>3. TypeOKCalls' /\ CallsPlaced'
    BY <2>1 DEF TypeOKCalls, CallsPlaced, callVars
  <2> QED
    BY <1>1, <1>2, <2>2, <2>3
<1>5. ASSUME StartTools PROVE RunTypes'
  <2>1. /\ pc = "inputs" /\ pc' = "tools"
        /\ UNCHANGED <<batch, andThen, used, retries, nudges, segment, updates,
                       compactions, outcome, ret, executed>>
        /\ at' = [c \in Calls |-> IF c \in InBatch THEN "begin" ELSE at[c]]
    BY <1>5 DEF StartTools, KeepLoop, Stay
  <2>2. TypeOKLoop' /\ CompactionDue'
    BY <2>1 DEF TypeOKLoop, CompactionDue, LoopPlaces
  <2>3. TypeOKCalls'
    BY <2>1 DEF TypeOKCalls, CallLabels
  <2>4. CallsPlaced'
    BY <2>1 DEF CallsPlaced, InBatch
  <2> QED
    BY <1>1, <1>2, <2>2, <2>3, <2>4
<1>6. ASSUME JoinTools PROVE RunTypes'
  <2>1. /\ pc = "tools" /\ \A c \in InBatch : at[c] = "done"
        /\ pc' \in {"top", "closing"}
        /\ UNCHANGED <<batch, andThen, used, retries, nudges, segment, updates,
                       compactions, callVars>>
    BY <1>6 DEF JoinTools, KeepLoop, KeepRest, Return
  <2>2. outcome' \in Outcomes
    <3>1. CASE outcome' = outcome
      BY <3>1 DEF TypeOKLoop
    <3>2. ASSUME NEW i \in DOMAIN batch, ret[batch[i]] # "ok", Return(ret[batch[i]])
          PROVE  outcome' \in Outcomes
      <4>1. batch[i] \in Calls
        BY DEF TypeOKLoop
      <4>2. ret[batch[i]] \in Outcomes
        BY <3>2, <4>1 DEF TypeOKCalls, Outcomes
      <4> QED
        BY <3>2, <4>2 DEF Return, Outcomes
    <3> QED
      BY <1>6, <3>1, <3>2 DEF JoinTools, Stay
  <2>3. TypeOKLoop' /\ CompactionDue'
    BY <2>1, <2>2 DEF TypeOKLoop, CompactionDue, LoopPlaces
  <2>4. TypeOKCalls' /\ CallsPlaced'
    BY <2>1 DEF TypeOKCalls, CallsPlaced, callVars, CallLabels
  <2> QED
    BY <1>1, <1>2, <2>3, <2>4
<1>7. ASSUME NEW c \in Calls, CallActions(c) PROVE RunTypes'
  <2>1. /\ pc = "tools" /\ at[c] \notin {"off", "done"}
        /\ UNCHANGED loopVars
        /\ TypeOKCalls'
        /\ \A d \in Calls \ {c} : at'[d] = at[d]
    BY <1>7, CallMoves DEF TypeOKCalls
  <2>2. TypeOKLoop' /\ CompactionDue'
    BY <2>1 DEF TypeOKLoop, CompactionDue, loopVars
  <2>3. CallsPlaced'
    BY <2>1 DEF CallsPlaced, loopVars, InBatch
  <2> QED
    BY <1>1, <1>2, <2>1, <2>2, <2>3
<1>8. ASSUME UNCHANGED <<loopVars, callVars>> PROVE RunTypes'
  <2>1. TypeOKLoop' /\ CompactionDue'
    BY <1>8 DEF TypeOKLoop, CompactionDue, loopVars
  <2>2. TypeOKCalls' /\ CallsPlaced'
    BY <1>8 DEF TypeOKCalls, CallsPlaced, callVars, loopVars, InBatch
  <2> QED
    BY <1>1, <1>2, <2>1, <2>2
<1> QED
  BY <1>3, <1>4, <1>5, <1>6, <1>7, <1>8, RunSteps, SideLeavesRun DEF SideActions

LEMMA RunTypesInit == ASSUME Init PROVE RunTypes
<1> USE RunAssumption DEF Init, InitEvents
<1>1. TypeOKEvents /\ Backlogged
  BY DEF TypeOKEvents, Backlogged, Stages, Terminal
<1>2. TypeOKLoop /\ CompactionDue
  <2>1. FullRetries \in [{"server", "unknown", "rate"} -> Nat]
    BY DEF FullRetries
  <2>2. NoNudges \in [auto : 0 .. MaxAutoContinues, emptyName : BOOLEAN,
                      malformed : BOOLEAN]
    BY DEF NoNudges
  <2>3. {MaxTools, MaxUpdates, MaxCompactions} \subseteq Nat
    OBVIOUS
  <2>4. /\ 0 \in 0 .. MaxTools /\ 0 \in 0 .. MaxUpdates
        /\ 0 \in 0 .. MaxCompactions /\ <<>> \in Seq(Calls)
    BY <2>3
  <2> QED
    BY <2>1, <2>2, <2>4, Zenon DEF TypeOKLoop, CompactionDue, LoopPlaces, Outcomes
<1>3. TypeOKCalls /\ CallsPlaced
  BY DEF TypeOKCalls, CallsPlaced, CallLabels
<1>4. TypeOKEnv
  BY DEF TypeOKEnv
<1> QED
  BY <1>1, <1>2, <1>3, <1>4 DEF RunTypes

LEMMA RunTypesInvariant == Spec => []RunTypes
BY RunTypesInit, RunTypesStep, PTL DEF Spec

-----------------------------------------------------------------------------
(* The clock of the timeout. *)

Asked == {"askedBefore", "askedAfter"}

(* A call waits for the operator exactly where its future is in a gate, and *)
(* it got there after its last update had its receipt.                      *)
WaitsMatch ==
  \A c \in Calls : /\ reply[c] # "none" <=> at[c] \in Asked
                   /\ at[c] \in Asked => receipt[c] = "ok"

Waiting == {c \in Calls : reply[c] # "none"}

(* Every tick is either work or belongs to a pause, and no tick to two. *)
ClockExact ==
  /\ pausedCount = Cardinality(Waiting)
  /\ pausedCount = 0 <=> pauseStarted = NotPaused
  /\ pauseStarted # NotPaused => pauseStarted <= now
  /\ worked + PausedDuration = now

ClockInv == TypeOKPermissions /\ WaitsMatch /\ ClockExact

LEMMA CallSets ==
  ASSUME NEW W \in SUBSET Calls
  PROVE  IsFiniteSet(W) /\ Cardinality(W) \in 0 .. Cardinality(Calls)
<1>1. IsFiniteSet(Calls)
  BY RunAssumption
<1>2. IsFiniteSet(W) /\ Cardinality(W) <= Cardinality(Calls)
  BY <1>1, FS_Subset
<1> QED
  BY <1>1, <1>2, FS_CardinalityType

(* Updates are emitted by the loop before the tools run, or by the future *)
(* that waits for its receipt; so a waiting call keeps its receipt.       *)
LEMMA ReceiptKept ==
  ASSUME RunTypes, [Next]_vars, NEW c \in Calls, receipt[c] = "ok",
         at[c] \in Asked, ~CallActions(c)
  PROVE  receipt'[c] = "ok"
<1>1. pc = "tools"
  BY DEF RunTypes, CallsPlaced, Asked
<1>2. ASSUME NEW d \in Calls, CallActions(d) PROVE receipt'[c] = "ok"
  <2>1. d # c
    BY <1>2
  <2>2. CASE UNCHANGED eventVars
    BY <2>2 DEF eventVars
  <2>3. ASSUME NEW s \in Stages \ {"none"}, Emit(d, s) PROVE receipt'[c] = "ok"
    BY <2>1, <2>3 DEF Emit, RunTypes, TypeOKEvents
  <2> QED
    BY <1>2, <2>2, <2>3, CallEvents
<1>3. ASSUME UNCHANGED eventVars PROVE receipt'[c] = "ok"
  BY <1>3 DEF eventVars
<1>4. ASSUME Cleanup \/ RivalActions PROVE receipt'[c] = "ok"
  BY <1>4 DEF Cleanup, RivalActions, RivalStarts, RivalDropsWaits, RivalEnds,
         eventVars
<1>5. ASSUME ForwardEvent \/ ForwardFails \/ ForwarderEnds
      PROVE  receipt'[c] = "ok"
  BY <1>5 DEF ForwardEvent, ForwardFails, ForwarderEnds, Forward, Answered,
         ForwarderFails, ForwarderFinishes
<1>6. ASSUME ItemRejected \/ StartTools \/ JoinTools \/ Cancel \/ Watchdog
             \/ Time \/ Decides \/ UNCHANGED vars
      PROVE  UNCHANGED eventVars
  BY <1>6 DEF ItemRejected, StartTools, JoinTools, Cancel, Watchdog, Time,
         Decides, OperatorDecides, vars
<1> QED
  BY <1>1, <1>2, <1>3, <1>4, <1>5, <1>6, RunSteps, LoopLeavesRest

ClockTypes ==
  /\ now \in 0 .. MaxClock
  /\ pausedCount \in 0 .. Cardinality(Calls)
  /\ pausedTotal \in 0 .. MaxClock
  /\ pauseStarted \in 0 .. NotPaused
  /\ worked \in 0 .. MaxClock

LEMMA ClockPauses ==
  ASSUME ClockTypes, ClockExact, Pause, NEW c \in Calls,
         c \notin Waiting, Waiting' = Waiting \cup {c}
  PROVE  ClockTypes' /\ ClockExact'
<1>1. IsFiniteSet(Waiting) /\ Cardinality(Waiting) \in Nat
  BY CallSets DEF Waiting
<1>2. Cardinality(Waiting') = Cardinality(Waiting) + 1
  BY <1>1, FS_AddElement
<1>3. Cardinality(Waiting') \in 0 .. Cardinality(Calls)
  BY CallSets DEF Waiting
<1>4. MaxClock \in Nat
  BY RunAssumption
<1>5. /\ pausedCount' = Cardinality(Waiting') /\ pausedCount' # 0
      /\ now' = now /\ pausedTotal' = pausedTotal /\ worked' = worked
      /\ pauseStarted' = IF pausedCount = 0 THEN now ELSE pauseStarted
  BY <1>1, <1>2 DEF ClockExact, Pause
<1>6. ClockTypes'
  BY <1>3, <1>4, <1>5 DEF ClockTypes, NotPaused
<1>7. pauseStarted' # NotPaused /\ pauseStarted' <= now'
  BY <1>4, <1>5 DEF ClockTypes, ClockExact, NotPaused
<1>8. PausedDuration' = PausedDuration
  BY <1>4, <1>5, <1>7 DEF ClockTypes, ClockExact, PausedDuration, NotPaused
<1> QED
  BY <1>5, <1>6, <1>7, <1>8 DEF ClockExact, NotPaused

LEMMA ClockResumes ==
  ASSUME ClockTypes, ClockExact, Resume, NEW c \in Calls,
         c \in Waiting, Waiting' = Waiting \ {c}
  PROVE  ClockTypes' /\ ClockExact'
<1>1. IsFiniteSet(Waiting) /\ Cardinality(Waiting) \in Nat
  BY CallSets DEF Waiting
<1>2. Cardinality(Waiting') = Cardinality(Waiting) - 1 /\ Cardinality(Waiting) # 0
  BY <1>1, FS_RemoveElement, FS_EmptySet
<1>3. Cardinality(Waiting') \in 0 .. Cardinality(Calls)
  BY CallSets DEF Waiting
<1>4. MaxClock \in Nat
  BY RunAssumption
<1>5. /\ pausedCount' = Cardinality(Waiting') /\ pausedCount \in Nat \ {0}
      /\ pausedCount' = pausedCount - 1
      /\ now' = now /\ worked' = worked
      /\ pauseStarted # NotPaused /\ pauseStarted <= now
  BY <1>1, <1>2 DEF ClockExact, Resume
<1>6. CASE pausedCount = 1
  <2>1. /\ pauseStarted' = NotPaused
        /\ pausedTotal' = pausedTotal + (now - pauseStarted)
    BY <1>6 DEF Resume
  <2>2. PausedDuration = pausedTotal + (now - pauseStarted) /\ PausedDuration' = pausedTotal'
    BY <1>5, <2>1 DEF PausedDuration, NotPaused
  <2>3. pausedTotal' \in 0 .. MaxClock
    BY <1>4, <1>5, <2>1, <2>2 DEF ClockTypes, ClockExact, NotPaused
  <2>4. ClockTypes'
    BY <1>3, <1>4, <1>5, <2>1, <2>3 DEF ClockTypes, NotPaused
  <2> QED
    BY <1>5, <1>6, <2>1, <2>2, <2>4 DEF ClockExact, NotPaused
<1>7. CASE pausedCount # 1
  <2>1. pauseStarted' = pauseStarted /\ pausedTotal' = pausedTotal
    BY <1>7 DEF Resume
  <2>2. ClockTypes'
    BY <1>3, <1>5, <2>1 DEF ClockTypes, NotPaused
  <2>3. PausedDuration' = PausedDuration
    BY <1>5, <2>1 DEF PausedDuration, NotPaused
  <2> QED
    BY <1>5, <1>7, <2>1, <2>2, <2>3 DEF ClockExact, NotPaused
<1> QED
  BY <1>6, <1>7

LEMMA ClockTicks ==
  ASSUME ClockTypes, ClockExact, Tick
  PROVE  ClockTypes' /\ ClockExact'
<1>1. IsFiniteSet(Waiting) /\ Cardinality(Waiting) \in Nat
  BY CallSets DEF Waiting
<1>2. (Cardinality(Waiting) = 0) <=> (Waiting = {})
  BY <1>1, FS_EmptySet
<1>3. MaxClock \in Nat
  BY RunAssumption
<1>4. /\ now' = now + 1 /\ now < MaxClock
      /\ pausedCount' = pausedCount /\ pausedTotal' = pausedTotal
      /\ pauseStarted' = pauseStarted /\ Waiting' = Waiting
      /\ worked' = IF pausedCount # 0 THEN worked ELSE worked + 1
  BY <1>2 DEF Tick, ClockExact, Waiting, permissionVars
<1>5. PausedDuration' = IF pausedCount = 0 THEN PausedDuration ELSE PausedDuration + 1
  BY <1>3, <1>4 DEF PausedDuration, ClockTypes, ClockExact, NotPaused
<1>6. PausedDuration \in Nat
  BY <1>3 DEF PausedDuration, ClockTypes, ClockExact, NotPaused
<1>7. worked' + PausedDuration' = now'
  BY <1>4, <1>5, <1>6 DEF ClockTypes, ClockExact
<1>8. PausedDuration' \in Nat
  BY <1>5, <1>6
<1>9. ClockTypes'
  <2>1. now \in 0 .. MaxClock /\ worked \in 0 .. MaxClock
    BY DEF ClockTypes
  <2>2. now' \in 0 .. MaxClock /\ worked' \in Nat
    BY <1>3, <1>4, <2>1
  <2>3. worked' <= now'
    <3>1. \A w, p, n \in Nat : w + p = n => w <= n
      OBVIOUS
    <3>2. now' \in Nat
      BY <1>3, <2>2
    <3> QED
      BY <1>7, <1>8, <2>2, <3>1, <3>2
  <2>4. worked' \in 0 .. MaxClock
    BY <1>3, <2>2, <2>3
  <2> QED
    BY <1>4, <2>2, <2>4 DEF ClockTypes
<1> QED
  BY <1>4, <1>7, <1>9 DEF ClockTypes, ClockExact, NotPaused

(* What a step does to the permission waits and the clock. *)
LEMMA PermissionSteps ==
  ASSUME [Next]_vars
  PROVE  \/ UNCHANGED <<permissionVars, clockVars>>
         \/ \E c \in Calls : \/ \E l \in Gates : /\ ToolGate(c, l)
                                                 /\ Register(c, PhaseOf(l))
                                                 /\ Move(c, WaitOf(l))
                                                 /\ UNCHANGED eventVars
                             \/ \E l \in Gates : ToolAnswered(c, l)
                             \/ \E l \in Gates : /\ ToolGateCancelled(c, l)
                                                 /\ at[c] = WaitOf(l)
                                                 /\ Leave(c) \/ LeaveDropping(c)
         \/ Time \/ Decides
         \/ /\ DropSession /\ UNCHANGED <<clockVars, callVars>>
            /\ Cleanup \/ RivalActions
<1>1. CASE LoopActions
  BY <1>1, LoopLeavesRest
<1>2. CASE ItemRejected \/ StartTools \/ JoinTools
  BY <1>2 DEF ItemRejected, StartTools, JoinTools, KeepRest
<1>3. CASE Cleanup \/ RivalActions
  BY <1>3 DEF Cleanup, RivalActions, RivalStarts, RivalDropsWaits, RivalEnds
<1>4. ASSUME NEW c \in Calls, NEW l \in Gates,
             ToolGate(c, l) \/ ToolGateCancelled(c, l)
      PROVE  \/ UNCHANGED <<permissionVars, clockVars>>
             \/ /\ ToolGate(c, l) /\ Register(c, PhaseOf(l)) /\ Move(c, WaitOf(l))
                /\ UNCHANGED eventVars
             \/ /\ ToolGateCancelled(c, l) /\ at[c] = WaitOf(l)
                /\ Leave(c) \/ LeaveDropping(c)
  BY <1>4 DEF ToolGate, ToolGateCancelled
<1>5. ASSUME NEW c \in Calls,
             ToolBegin(c) \/ ToolRejected(c) \/ ToolExecuting(c)
             \/ ToolProgress(c) \/ ToolCancelled(c) \/ ToolResult(c)
             \/ ToolExecute(c) \/ ToolEnds(c) \/ ToolEmitFails(c)
             \/ ToolReturned(c) \/ ToolBlocked(c) \/ ToolFails(c)
      PROVE  UNCHANGED <<permissionVars, clockVars>>
  BY <1>5 DEF ToolBegin, ToolRejected, ToolExecuting, ToolProgress,
         ToolCancelled, ToolResult, ToolExecute, ToolEnds, ToolEmitFails,
         ToolReturned, ToolBlocked, ToolFails
<1>6. CASE ForwardEvent \/ ForwardFails \/ ForwarderEnds \/ Cancel \/ Watchdog
           \/ UNCHANGED vars
  BY <1>6 DEF ForwardEvent, ForwardFails, ForwarderEnds, Cancel, Watchdog, vars
<1> QED
  BY <1>1, <1>2, <1>3, <1>4, <1>5, <1>6, RunSteps DEF CallActions, ToolSteps

(* A call whose step leaves the waits alone is in no gate. *)
LEMMA QuietCalls ==
  ASSUME RunTypes, WaitsMatch, TypeOKPermissions, NEW c \in Calls, CallActions(c),
         UNCHANGED <<permissionVars, clockVars>>
  PROVE  at[c] \notin Asked /\ at'[c] \notin Asked
<1> USE DEF Asked, Ready, Move, permissionVars
<1>1. at \in [Calls -> CallLabels] /\ reply \in [Calls -> {"none", "open", "closed"} \cup Decisions]
  BY DEF RunTypes, TypeOKCalls, TypeOKPermissions
<1>2. ASSUME NEW l \in Gates,
             ToolGate(c, l) \/ ToolAnswered(c, l) \/ ToolGateCancelled(c, l)
      PROVE  at[c] \notin Asked /\ at'[c] \notin Asked
  <2>1. CASE ToolGate(c, l)
    <3>1. at[c] = l /\ reply[c] = "none"
      BY <1>1, <2>1 DEF ToolGate, WaitsMatch, Gates
    <3>2. ~Register(c, PhaseOf(l))
      BY <1>1, <3>1 DEF Register
    <3>3. Proceed(c, PhaseOf(l))
      BY <2>1, <3>2 DEF ToolGate
    <3> QED
      BY <1>1, <3>1, <3>3 DEF Proceed, Gates
  <2>2. CASE ToolAnswered(c, l)
    BY <1>1, <2>2 DEF ToolAnswered, Leave, Decisions
  <2>3. CASE ToolGateCancelled(c, l)
    <3>1. at'[c] = "endCancelled"
      BY <1>1, <2>3 DEF ToolGateCancelled, EndCancelled
    <3>2. ASSUME at[c] \in Asked PROVE FALSE
      <4>1. reply[c] # "none"
        BY <3>2 DEF WaitsMatch
      <4>2. reply'[c] = "none"
        BY <1>1, <2>3, <3>2 DEF ToolGateCancelled, Gates, Leave, LeaveDropping
      <4> QED
        BY <4>1, <4>2
    <3> QED
      BY <3>1, <3>2
  <2> QED
    BY <1>2, <2>1, <2>2, <2>3
<1>3. ASSUME ToolBegin(c) \/ ToolRejected(c) \/ ToolExecuting(c)
             \/ ToolProgress(c) \/ ToolCancelled(c) \/ ToolResult(c)
             \/ ToolExecute(c) \/ ToolReturned(c) \/ ToolBlocked(c)
      PROVE  at[c] \notin Asked /\ at'[c] \notin Asked
  BY <1>1, <1>3 DEF ToolBegin, ToolRejected, ToolExecuting, ToolProgress,
         ToolCancelled, ToolResult, ToolExecute, ToolReturned, ToolBlocked,
         EndCancelled
<1>4. ASSUME ToolEnds(c) \/ ToolEmitFails(c) \/ ToolFails(c)
      PROVE  at[c] \notin Asked /\ at'[c] \notin Asked
  BY <1>1, <1>4 DEF ToolEnds, ToolEmitFails, ToolFails, Gates, WaitsMatch
<1> QED
  BY <1>2, <1>3, <1>4 DEF CallActions, ToolSteps

LEMMA ClockStep ==
  ASSUME RunTypes, RunTypes', ClockInv, [Next]_vars
  PROVE  ClockInv'
<1> DEFINE Replies == {"none", "open", "closed"} \cup Decisions
<1> DEFINE Slots == Calls \X {Before, After}
<1>1. /\ ClockTypes /\ ClockExact /\ WaitsMatch
      /\ pending \subseteq Slots /\ reply \in [Calls -> Replies]
      /\ at \in [Calls -> CallLabels] /\ at' \in [Calls -> CallLabels]
  BY DEF ClockInv, TypeOKPermissions, ClockTypes, RunTypes, TypeOKCalls
<1>2. SUFFICES /\ ClockTypes' /\ ClockExact' /\ WaitsMatch'
               /\ pending' \subseteq Slots /\ reply' \in [Calls -> Replies]
  BY DEF ClockInv, TypeOKPermissions, ClockTypes
(* A call that is in a gate and does not move stays as it is. *)
<1>3. ASSUME NEW c \in Calls, ~CallActions(c)
      PROVE  /\ (at'[c] \in Asked) <=> (at[c] \in Asked)
             /\ at[c] \in Asked => receipt'[c] = "ok"
  <2>1. CASE UNCHANGED at
    BY <1>1, <1>3, <2>1, ReceiptKept DEF WaitsMatch
  <2>2. ASSUME NEW d \in Calls, CallActions(d)
        PROVE  (at'[c] \in Asked) <=> (at[c] \in Asked)
    BY <1>3, <2>2, CallMoves DEF RunTypes
  <2>3. CASE StartTools
    <3>1. pc = "inputs"
      BY <2>3 DEF StartTools
    <3>2. at[c] \in {"off", "done"}
      BY <3>1 DEF RunTypes, CallsPlaced
    <3> QED
      BY <2>3, <3>2 DEF StartTools, Asked
  <2>4. UNCHANGED at \/ StartTools \/ \E d \in Calls : CallActions(d)
    BY RunSteps, SideLeavesRun, LoopLeavesRest
       DEF SideActions, callVars, ItemRejected, JoinTools, Cleanup, KeepRest
  <2>5. at[c] \in Asked => receipt'[c] = "ok"
    BY <1>1, <1>3, ReceiptKept DEF WaitsMatch
  <2> QED
    BY <2>1, <2>2, <2>3, <2>4, <2>5
<1>4. ASSUME NEW c \in Calls, CallActions(c),
             ClockTypes', ClockExact',
             (at'[c] \in Asked) <=> (reply'[c] # "none"),
             at'[c] \in Asked => receipt'[c] = "ok",
             \A d \in Calls \ {c} : (reply'[d] # "none") <=> (reply[d] # "none"),
             pending' \subseteq Slots, reply' \in [Calls -> Replies]
      PROVE  /\ ClockTypes' /\ ClockExact' /\ WaitsMatch'
             /\ pending' \subseteq Slots /\ reply' \in [Calls -> Replies]
  <2>1. ASSUME NEW d \in Calls \ {c}
        PROVE  /\ (at'[d] \in Asked) <=> (reply'[d] # "none")
               /\ at'[d] \in Asked => receipt'[d] = "ok"
    <3>1. at'[d] = at[d]
      BY <1>4, CallMoves DEF RunTypes
    <3>2. receipt'[d] = receipt[d]
      <4>1. CASE UNCHANGED eventVars
        BY <4>1 DEF eventVars
      <4>2. ASSUME NEW s \in Stages \ {"none"}, Emit(c, s)
            PROVE  receipt'[d] = receipt[d]
        BY <4>2 DEF Emit, RunTypes, TypeOKEvents
      <4> QED
        BY <1>4, <4>1, <4>2, CallEvents
    <3> QED
      BY <1>1, <1>4, <3>1, <3>2 DEF WaitsMatch
  <2> QED
    BY <1>4, <2>1 DEF WaitsMatch
<1>5. ASSUME UNCHANGED <<permissionVars, clockVars>>
      PROVE  /\ ClockTypes' /\ ClockExact' /\ WaitsMatch'
             /\ pending' \subseteq Slots /\ reply' \in [Calls -> Replies]
  <2>1. ClockTypes' /\ ClockExact'
    BY <1>1, <1>5 DEF ClockTypes, ClockExact, Waiting, PausedDuration, clockVars,
       permissionVars
  <2>2. ASSUME NEW c \in Calls
        PROVE  /\ (reply'[c] # "none") <=> (at'[c] \in Asked)
               /\ at'[c] \in Asked => receipt'[c] = "ok"
    <3>1. CASE CallActions(c)
      BY <1>1, <1>5, <3>1, QuietCalls DEF ClockInv, WaitsMatch, permissionVars
    <3>2. CASE ~CallActions(c)
      BY <1>1, <1>3, <1>5, <3>2 DEF WaitsMatch, permissionVars
    <3> QED
      BY <3>1, <3>2
  <2> QED
    BY <1>1, <1>5, <2>1, <2>2 DEF WaitsMatch, permissionVars
<1>6. ASSUME NEW c \in Calls, NEW l \in Gates, ToolGate(c, l),
             Register(c, PhaseOf(l)), Move(c, WaitOf(l)), UNCHANGED eventVars
      PROVE  /\ ClockTypes' /\ ClockExact' /\ WaitsMatch'
             /\ pending' \subseteq Slots /\ reply' \in [Calls -> Replies]
  <2>1. CallActions(c)
    BY <1>6 DEF CallActions, ToolSteps
  <2>2. at[c] \in Gates /\ receipt[c] = "ok" /\ reply[c] = "none"
    BY <1>1, <1>6 DEF ToolGate, Ready, WaitsMatch, Gates, Asked
  <2>3. reply' = [reply EXCEPT ![c] = "open"] /\ Pause
    BY <1>6 DEF Register
  <2>4. c \notin Waiting /\ Waiting' = Waiting \cup {c}
    BY <1>1, <2>2, <2>3 DEF Waiting
  <2>5. ClockTypes' /\ ClockExact'
    BY <1>1, <2>3, <2>4, ClockPauses
  <2>6. pending' \subseteq Slots /\ reply' \in [Calls -> Replies]
    BY <1>1, <1>6, <2>3 DEF Register, PhaseOf
  <2>7. at'[c] \in Asked /\ receipt'[c] = "ok"
    BY <1>1, <1>6, <2>2 DEF Move, WaitOf, Asked, eventVars
  <2>8. reply'[c] = "open" /\ \A d \in Calls \ {c} : reply'[d] = reply[d]
    BY <1>1, <2>3
  <2> QED
    BY <1>4, <2>1, <2>5, <2>6, <2>7, <2>8
<1>7. ASSUME NEW c \in Calls, CallActions(c), at[c] \in Asked, at'[c] \notin Asked,
             Leave(c) \/ LeaveDropping(c)
      PROVE  /\ ClockTypes' /\ ClockExact' /\ WaitsMatch'
             /\ pending' \subseteq Slots /\ reply' \in [Calls -> Replies]
  <2>1. /\ Resume /\ reply'[c] = "none" /\ reply[c] # "none"
        /\ pending' \subseteq pending
        /\ reply' \in [Calls -> Replies]
        /\ \A d \in Calls \ {c} : (reply'[d] # "none") <=> (reply[d] # "none")
    BY <1>1, <1>7 DEF Leave, LeaveDropping, WaitsMatch
  <2>2. c \in Waiting /\ Waiting' = Waiting \ {c}
    BY <2>1 DEF Waiting
  <2>3. ClockTypes' /\ ClockExact'
    BY <1>1, <2>1, <2>2, ClockResumes
  <2> QED
    BY <1>1, <1>4, <1>7, <2>1, <2>3
<1>8. ASSUME NEW c \in Calls, NEW l \in Gates,
             \/ ToolAnswered(c, l)
             \/ /\ ToolGateCancelled(c, l) /\ at[c] = WaitOf(l)
                /\ Leave(c) \/ LeaveDropping(c)
      PROVE  /\ CallActions(c) /\ at[c] \in Asked /\ at'[c] \notin Asked
             /\ Leave(c) \/ LeaveDropping(c)
  BY <1>1, <1>8 DEF CallActions, ToolSteps, ToolAnswered, ToolGateCancelled,
     WaitOf, Asked, Proceed, Decline, EndCancelled, Move, PhaseOf
(* What happens beside the gates moves no call. *)
<1>9. ASSUME UNCHANGED <<at, receipt>>, ClockTypes', ClockExact',
             pending' \subseteq Slots, reply' \in [Calls -> Replies],
             \A c \in Calls : (reply'[c] # "none") <=> (reply[c] # "none")
      PROVE  /\ ClockTypes' /\ ClockExact' /\ WaitsMatch'
             /\ pending' \subseteq Slots /\ reply' \in [Calls -> Replies]
  BY <1>1, <1>9 DEF WaitsMatch
<1>10. ASSUME Time
       PROVE  /\ ClockTypes' /\ ClockExact' /\ WaitsMatch'
              /\ pending' \subseteq Slots /\ reply' \in [Calls -> Replies]
  <2>1. Tick /\ UNCHANGED <<at, receipt, pending, reply>>
    BY <1>10 DEF Time, Tick, callVars, eventVars, permissionVars
  <2> QED
    BY <1>1, <1>9, <2>1, ClockTicks
<1>11. ASSUME UNCHANGED <<at, receipt, clockVars>>, pending' \subseteq Slots,
              reply' \in [Calls -> Replies],
              \A c \in Calls : (reply'[c] # "none") <=> (reply[c] # "none")
       PROVE  /\ ClockTypes' /\ ClockExact' /\ WaitsMatch'
              /\ pending' \subseteq Slots /\ reply' \in [Calls -> Replies]
  <2>1. Waiting' = Waiting
    BY <1>11 DEF Waiting
  <2>2. ClockTypes' /\ ClockExact'
    BY <1>1, <1>11, <2>1 DEF ClockTypes, ClockExact, PausedDuration, clockVars
  <2> QED
    BY <1>9, <1>11, <2>2
<1>12. ASSUME Decides
       PROVE  /\ ClockTypes' /\ ClockExact' /\ WaitsMatch'
              /\ pending' \subseteq Slots /\ reply' \in [Calls -> Replies]
  <2>1. PICK c \in Calls, ph \in {Before, After}, d \in Decisions :
          OperatorDecides(c, ph, d)
    BY <1>12 DEF Decides
  <2>2. /\ pending' \subseteq pending
        /\ reply' = IF reply[c] = "open" THEN [reply EXCEPT ![c] = d] ELSE reply
        /\ UNCHANGED <<at, receipt, clockVars>>
    BY <2>1 DEF OperatorDecides, Resolve, callVars, eventVars
  <2>3. d \in Replies /\ d # "none"
    BY DEF Decisions
  <2>4. /\ reply' \in [Calls -> Replies]
        /\ \A b \in Calls : (reply'[b] # "none") <=> (reply[b] # "none")
    BY <1>1, <2>2, <2>3
  <2> QED
    BY <1>1, <1>11, <2>2, <2>4
<1>13. ASSUME DropSession, UNCHANGED <<clockVars, callVars>>, Cleanup \/ RivalActions
       PROVE  /\ ClockTypes' /\ ClockExact' /\ WaitsMatch'
              /\ pending' \subseteq Slots /\ reply' \in [Calls -> Replies]
  <2>1. UNCHANGED <<at, receipt>>
    BY <1>13 DEF Cleanup, RivalActions, RivalStarts, RivalDropsWaits, RivalEnds,
       callVars, eventVars
  <2>2. /\ pending' = {} /\ reply' \in [Calls -> Replies]
        /\ \A b \in Calls : (reply'[b] # "none") <=> (reply[b] # "none")
    BY <1>1, <1>13 DEF DropSession
  <2> QED
    BY <1>11, <1>13, <2>1, <2>2
<1> QED
  BY <1>5, <1>6, <1>7, <1>8, <1>10, <1>12, <1>13, PermissionSteps

LEMMA ClockInit == ASSUME Init PROVE ClockInv
<1> USE DEF Init, InitPermissions, InitEvents
<1>1. TypeOKPermissions /\ WaitsMatch
  <2>1. MaxClock \in Nat /\ 0 \in 0 .. Cardinality(Calls)
    BY RunAssumption, FS_CardinalityType
  <2> QED
    BY <2>1 DEF TypeOKPermissions, WaitsMatch, Asked, NotPaused
<1>2. Waiting = {}
  BY DEF Waiting
<1>3. ClockExact
  BY <1>2, FS_EmptySet, RunAssumption DEF ClockExact, PausedDuration, NotPaused
<1> QED
  BY <1>1, <1>3 DEF ClockInv

LEMMA ClockInvariant == Spec => []ClockInv
BY ClockInit, ClockStep, RunTypesInvariant, PTL DEF Spec

(* At every moment of a run, whatever happens to it, its state has its types: *)
(* a pause is never resumed twice, a barrier never counts below nothing, and  *)
(* the limits of retries, tools and nudges hold.                              *)
THEOREM RunStateIsTyped == Spec => []TypeOK
<1>1. RunTypes /\ ClockInv => TypeOK
  BY DEF RunTypes, ClockInv, TypeOK
<1> QED
  BY <1>1, RunTypesInvariant, ClockInvariant, PTL

LEMMA WorkGrows ==
  ASSUME ClockInv, [Next]_vars
  PROVE  worked' >= worked
<1>1. worked \in Nat
  BY RunAssumption DEF ClockInv, TypeOKPermissions
<1>2. ASSUME UNCHANGED worked \/ worked' = worked + 1 PROVE worked' >= worked
  BY <1>1, <1>2
<1>3. CASE Time
  BY <1>2, <1>3 DEF Time, Tick
<1>4. CASE UNCHANGED clockVars
  BY <1>2, <1>4 DEF clockVars
<1>5. ASSUME NEW c \in Calls, NEW l \in Gates,
             \/ Register(c, PhaseOf(l))
             \/ ToolAnswered(c, l) \/ Leave(c) \/ LeaveDropping(c)
      PROVE  UNCHANGED worked
  BY <1>5 DEF Register, Pause, ToolAnswered, Leave, LeaveDropping, Resume
<1>6. CASE Decides
  BY <1>4, <1>6 DEF Decides, OperatorDecides
<1> QED
  BY <1>2, <1>3, <1>4, <1>5, <1>6, PermissionSteps

(* The watchdog of a run fires only after the timeout's worth of ticks in   *)
(* which no call waited for the operator, however the waits of its calls    *)
(* overlap and however they end.                                            *)
THEOREM TimeoutsCountWork == Spec => []TimeoutCountsWork
<1>1. Init => TimeoutCountsWork
  BY DEF Init, TimeoutCountsWork
<1>2. ASSUME TimeoutCountsWork, RunTypes, ClockInv, [Next]_vars
      PROVE  TimeoutCountsWork'
  <2>1. /\ worked' >= worked /\ worked \in Nat /\ worked' \in Int
        /\ Timeout \in Nat
    <3>1. worked \in Nat /\ Timeout \in Nat
      BY <1>2, RunAssumption DEF ClockInv, TypeOKPermissions
    <3>2. ClockInv'
      BY <1>2, ClockStep, RunTypesStep
    <3>3. worked' \in Nat
      BY <3>2, RunAssumption DEF ClockInv, TypeOKPermissions
    <3> QED
      BY <1>2, <3>1, <3>3, WorkGrows
  <2>2. CASE UNCHANGED timedOut
    BY <1>2, <2>1, <2>2 DEF TimeoutCountsWork
  <2>3. CASE Watchdog
    <3>1. Unpaused >= Timeout /\ worked' = worked
      BY <2>3 DEF Watchdog, clockVars
    <3>2. PausedDuration \in Nat /\ now \in Nat
      <4>1. MaxClock \in Nat
        BY RunAssumption
      <4> QED
        BY <1>2, <4>1
        DEF ClockInv, TypeOKPermissions, ClockExact, PausedDuration, NotPaused
    <3>3. Unpaused = worked
      BY <1>2, <2>1, <3>2 DEF Unpaused, ClockInv, ClockExact
    <3> QED
      BY <2>1, <3>1, <3>3 DEF TimeoutCountsWork
  <2>4. UNCHANGED timedOut \/ Watchdog
    <3>1. CASE LoopActions
      BY <3>1, LoopLeavesRest DEF envVars
    <3>2. ASSUME NEW c \in Calls, CallActions(c) PROVE UNCHANGED timedOut
      BY <1>2, <3>2, CallMoves DEF RunTypes
    <3>3. CASE ItemRejected \/ StartTools \/ JoinTools \/ Cleanup
      BY <3>3 DEF ItemRejected, StartTools, JoinTools, Cleanup, KeepRest, envVars
    <3>4. CASE ForwardEvent \/ ForwardFails \/ ForwarderEnds \/ Time
      BY <3>4 DEF ForwardEvent, ForwardFails, ForwarderEnds, Time, envVars
    <3>5. CASE Cancel \/ RivalActions \/ Decides \/ UNCHANGED vars
      BY <3>5 DEF Cancel, RivalActions, RivalStarts, RivalDropsWaits,
         RivalEnds, Decides, OperatorDecides, envVars, vars
    <3> QED
      BY <1>2, <3>1, <3>2, <3>3, <3>4, <3>5, RunSteps
  <2> QED
    BY <2>2, <2>3, <2>4
<1> QED
  BY <1>1, <1>2, RunTypesInvariant, ClockInvariant, PTL DEF Spec

-----------------------------------------------------------------------------
(* The end of a run. *)

(* Only the cleanup ends a run, and nothing follows it. *)
LEMMA RunEndsOnce ==
  ASSUME RunTypes, [Next]_vars
  PROVE  /\ pc' = "done" <=> pc = "done" \/ Cleanup
         /\ pc' = "framed" => pc = "framed" \/ TakeForwarder
         /\ pc' = "compacting" => pc = "compacting" \/ Barrier
         /\ pc = "done" => UNCHANGED loopVars
<1>1. CASE LoopActions
  <2> USE DEF Return, Stay, CancelStarted
  <2>1. CASE TakeForwarder \/ Barrier
    BY <2>1 DEF TakeForwarder, Barrier, Cleanup
  <2>2. ASSUME ~TakeForwarder, ~Barrier
        PROVE  /\ pc' \notin {"framed", "compacting", "done"}
               /\ pc # "done" /\ ~Cleanup
    <3>1. pc # "done" /\ pc # "framed"
      BY <1>1, <2>2 DEF LoopActions, Streaming, BeforeAgentStart, TopCancelled,
         NextIteration, StreamCancelled, LoopEmitFails, CancelledStarted,
         RetryDelay, ReserveBatch, AfterCallCancelled, Answer,
         CompactionCancelled, ProviderItemUpdate, StreamDone,
         MalformedRetry, AutoContinue, AfterCallBlocked, Compacted,
         CompactionFails, StreamFailed, CancelNext, InputReady, ToolCallStart,
         ToolCallArgumentsDelta
    <3>2. CASE CancelledStarted
      BY <3>2 DEF CancelledStarted, Cleanup
    <3>3. CASE ~CancelledStarted
      BY <1>1, <2>2, <3>1, <3>3 DEF LoopActions, Streaming, BeforeAgentStart,
         TopCancelled, NextIteration, StreamCancelled, LoopEmitFails,
         RetryDelay, ReserveBatch, AfterCallCancelled, Answer,
         CompactionCancelled, ProviderItemUpdate, StreamDone,
         MalformedRetry, AutoContinue, AfterCallBlocked, Compacted,
         CompactionFails, StreamFailed, CancelNext, InputReady, ToolCallStart,
         ToolCallArgumentsDelta, loopVars, Cleanup
    <3> QED
      BY <3>2, <3>3, <3>1 DEF Cleanup
  <2> QED
    BY <2>1, <2>2
<1>2. CASE ItemRejected \/ StartTools \/ JoinTools \/ Cleanup
  BY <1>2 DEF ItemRejected, StartTools, JoinTools, Cleanup, Streaming, Return
<1>3. ASSUME NEW c \in Calls, CallActions(c)
      PROVE  UNCHANGED loopVars /\ pc = "tools"
  BY <1>3, CallMoves DEF RunTypes
<1>4. CASE UNCHANGED loopVars
  BY <1>4 DEF loopVars, Cleanup
<1> QED
  BY <1>1, <1>2, <1>3, <1>4, RunSteps, SideLeavesRun DEF SideActions

(* No permission request of an ended run is left on the operator's list: *)
(* only a call of a running batch asks, and the cleanup drops the rest.  *)
THEOREM NoSlotIsOrphaned == Spec => []NoOrphanSlot
<1>1. Init => NoOrphanSlot
  BY DEF Init, NoOrphanSlot
<1>2. ASSUME NoOrphanSlot, RunTypes, [Next]_vars PROVE NoOrphanSlot'
  <2>1. CASE Cleanup
    BY <2>1 DEF Cleanup, DropSession, NoOrphanSlot
  <2>2. CASE pc # "done" /\ ~Cleanup
    BY <1>2, <2>2, RunEndsOnce DEF NoOrphanSlot
  <2>3. CASE pc = "done"
    <3>1. ~\E c \in Calls : CallActions(c)
      BY <1>2, <2>3, CallMoves DEF RunTypes
    <3>2. pending' \subseteq pending
      BY <1>2, <3>1, PermissionSteps DEF CallActions, ToolSteps, permissionVars,
         Time, Tick, Decides, OperatorDecides, Resolve, DropSession
    <3> QED
      BY <1>2, <2>3, <3>2 DEF NoOrphanSlot
  <2> QED
    BY <2>1, <2>2, <2>3
<1> QED
  BY <1>1, <1>2, RunTypesInvariant, PTL DEF Spec

(* A forwarder never starts again. *)
LEMMA ForwarderStops ==
  ASSUME [Next]_vars, forwarder # "running"
  PROVE  forwarder' = forwarder
<1>1. CASE UNCHANGED eventVars
  BY <1>1 DEF eventVars
<1>2. CASE EventNext
  BY <1>2 DEF EventNext, Emit, Publish, Forward, ForwarderFails, ForwarderFinishes
<1> QED
  BY <1>1, <1>2, EventSteps

(* The checkpoint of a compaction is taken, and a run is framed as ended,   *)
(* only when every event the loop sent before is processed, or can no more  *)
(* be.                                                                      *)
THEOREM FramesComeLast == Spec => []FramesFollowEvents
<1> DEFINE FrameInv == /\ pc = "compacting" => queue = <<>>
                       /\ Ended => forwarder # "running"
<1>1. Init => FrameInv
  BY DEF Init, InitEvents, Ended
<1>2. ASSUME FrameInv, RunTypes, [Next]_vars PROVE FrameInv'
  <2>1. Ended' => forwarder' # "running"
    <3>1. CASE Ended
      BY <1>2, <3>1, ForwarderStops
    <3>2. CASE ~Ended
      <4>1. Ended' => TakeForwarder
        BY <1>2, <3>2, RunEndsOnce DEF Ended, Cleanup
      <4> QED
        BY <4>1 DEF TakeForwarder, eventVars
    <3> QED
      BY <3>1, <3>2
  <2>2. ASSUME pc' = "compacting" PROVE queue' = <<>>
    <3>1. CASE Barrier
      <4>1. backlog = 0 /\ queue' = queue
        BY <2>2, <3>1 DEF Barrier, Return, eventVars
      <4>2. queue \in Seq(Events)
        BY <1>2 DEF RunTypes, TypeOKEvents
      <4> QED
        BY <1>2, <4>1, <4>2, EmptySeq DEF RunTypes, Backlogged
    <3>2. CASE pc = "compacting"
      <4>1. queue = <<>> /\ ~\E c \in Calls : CallActions(c)
        BY <1>2, <3>2, CallMoves DEF RunTypes
      <4>2. CASE LoopActions
        BY <2>2, <3>2, <4>1, <4>2 DEF LoopActions, Streaming, BeforeAgentStart, TopCancelled,
           NextIteration, StreamCancelled, LoopEmitFails, CancelledStarted,
           RetryDelay, ReserveBatch, AfterCallCancelled, Answer, Barrier,
           CompactionCancelled, TakeForwarder, ProviderItemUpdate, StreamDone,
           MalformedRetry, AutoContinue, AfterCallBlocked, Compacted,
           CompactionFails, StreamFailed, CancelNext, InputReady,
           ToolCallStart, ToolCallArgumentsDelta, eventVars
      <4>3. CASE ForwardEvent \/ ForwardFails \/ ForwarderEnds
        BY <4>1, <4>3 DEF ForwardEvent, ForwardFails, ForwarderEnds, Forward,
           ForwarderFinishes
      <4>4. CASE ItemRejected \/ StartTools \/ JoinTools \/ Cleanup \/ RivalActions
        BY <4>1, <4>4 DEF ItemRejected, StartTools, JoinTools, Cleanup,
           RivalActions, RivalStarts, RivalDropsWaits, RivalEnds, eventVars
      <4>5. CASE Cancel \/ Watchdog \/ Time \/ Decides \/ UNCHANGED vars
        BY <4>1, <4>5 DEF Cancel, Watchdog, Time, Decides, OperatorDecides,
           vars, eventVars
      <4> QED
        BY <1>2, <4>1, <4>2, <4>3, <4>4, <4>5, RunSteps
    <3> QED
      BY <1>2, <2>2, <3>1, <3>2, RunEndsOnce
  <2> QED
    BY <2>1, <2>2
<1>3. FrameInv /\ RunTypes => FramesFollowEvents
  BY DEF FramesFollowEvents, RunTypes, Backlogged
<1> QED
  BY <1>1, <1>2, <1>3, RunTypesInvariant, PTL DEF Spec

-----------------------------------------------------------------------------
(* Cancellation. *)

(* The run was cancelled, or another run of the session is or was there. *)
Dropped == token \/ rival # "none"

CancelInv ==
  /\ outcome = "cancelled" => Dropped
  /\ andThen = "cancelled" => token
  /\ \A c \in Calls :
       at[c] = "endCancelled" \/ ret[c] = "cancelled" \/ reply[c] = "closed" => Dropped

LEMMA DroppedStays ==
  ASSUME RunTypes, [Next]_vars
  PROVE  (token => token') /\ (Dropped => Dropped')
<1>1. CASE LoopActions
  BY <1>1, LoopLeavesRest DEF envVars, Dropped
<1>2. ASSUME NEW c \in Calls, CallActions(c) PROVE UNCHANGED <<token, rival>>
  BY <1>2, CallMoves DEF RunTypes
<1>3. CASE ItemRejected \/ StartTools \/ JoinTools \/ Cleanup
  BY <1>3 DEF ItemRejected, StartTools, JoinTools, Cleanup, KeepRest, envVars, Dropped
<1>4. CASE ForwardEvent \/ ForwardFails \/ ForwarderEnds \/ Time
  BY <1>4 DEF ForwardEvent, ForwardFails, ForwarderEnds, Time, envVars, Dropped
<1>5. CASE Cancel \/ Watchdog \/ RivalActions \/ Decides \/ UNCHANGED vars
  BY <1>5 DEF Cancel, Watchdog, RivalActions, RivalStarts, RivalDropsWaits,
     RivalEnds, Decides, OperatorDecides, envVars, vars, Dropped
<1> QED
  BY <1>1, <1>2, <1>3, <1>4, <1>5, RunSteps DEF Dropped

(* How the loop comes to report a cancellation, or to be about to. *)
LEMMA LoopCancels ==
  ASSUME LoopActions
  PROVE  /\ outcome' = "cancelled" =>
              outcome = "cancelled" \/ token \/ andThen = "cancelled"
         /\ andThen' = "cancelled" => andThen = "cancelled" \/ token
<1> USE DEF Return, Stay, CancelStarted, KeepLoop
<1>1. CASE CancelledStarted
  BY <1>1 DEF CancelledStarted
<1>2. CASE BeforeAgentStart \/ TopCancelled \/ NextIteration \/ StreamCancelled
           \/ LoopEmitFails \/ RetryDelay \/ ReserveBatch \/ AfterCallCancelled
           \/ Answer \/ Barrier \/ CompactionCancelled \/ TakeForwarder
  BY <1>2 DEF BeforeAgentStart, TopCancelled, NextIteration, StreamCancelled,
     LoopEmitFails, RetryDelay, ReserveBatch, AfterCallCancelled, Answer,
     Barrier, CompactionCancelled, TakeForwarder
<1>3. CASE ProviderItemUpdate \/ StreamDone \/ MalformedRetry \/ AutoContinue
           \/ AfterCallBlocked \/ Compacted \/ CompactionFails
           \/ \E k \in RetryKinds : StreamFailed(k)
  BY <1>3 DEF ProviderItemUpdate, StreamDone, MalformedRetry, AutoContinue,
     AfterCallBlocked, Compacted, CompactionFails, StreamFailed
<1>4. ASSUME NEW c \in Calls,
             CancelNext(c) \/ InputReady(c) \/ ToolCallStart(c)
             \/ ToolCallArgumentsDelta(c)
      PROVE  UNCHANGED <<outcome, andThen>>
  BY <1>4 DEF CancelNext, InputReady, ToolCallStart, ToolCallArgumentsDelta, loopVars
<1> QED
  BY <1>1, <1>2, <1>3, <1>4 DEF LoopActions

(* How a call comes to end as cancelled. *)
LEMMA CallCancels ==
  ASSUME RunTypes, ClockInv, CancelInv, NEW c \in Calls, CallActions(c)
  PROVE  /\ at'[c] = "endCancelled" => Dropped
         /\ ret'[c] = "cancelled" => Dropped
         /\ \A d \in Calls : reply'[d] = "closed" => Dropped
<1> USE DEF Move, Ready
<1>1. /\ at \in [Calls -> CallLabels]
      /\ reply \in [Calls -> {"none", "open", "closed"} \cup Decisions]
      /\ ret \in [Calls -> {"none", "ok", "cancelled", "error"}]
  BY DEF RunTypes, TypeOKCalls, ClockInv, TypeOKPermissions
<1>2. \A d \in Calls : reply[d] = "closed" => Dropped
  BY DEF CancelInv
<1>3. at[c] = "endCancelled" \/ ret[c] = "cancelled" => Dropped
  BY DEF CancelInv
<1>4. ASSUME NEW l \in Gates, ToolGate(c, l) \/ ToolAnswered(c, l)
      PROVE  /\ at'[c] # "endCancelled" /\ ret' = ret
             /\ \A d \in Calls : reply'[d] = "closed" => reply[d] = "closed"
  BY <1>1, <1>4 DEF ToolGate, ToolAnswered, Proceed, Decline, WaitOf,
     Register, Leave, KeepCall, permissionVars
<1>5. ASSUME NEW l \in Gates, ToolGateCancelled(c, l)
      PROVE  Dropped /\ ret' = ret
  BY <1>2, <1>5 DEF ToolGateCancelled, KeepCall, Dropped
<1>6. ASSUME ToolBegin(c) \/ ToolCancelled(c)
      PROVE  /\ at'[c] = "endCancelled" => token
             /\ ret' = ret /\ reply' = reply
  BY <1>1, <1>6 DEF ToolBegin, ToolCancelled, EndCancelled, KeepCall, permissionVars
<1>7. ASSUME ToolRejected(c) \/ ToolExecuting(c) \/ ToolProgress(c)
             \/ ToolResult(c) \/ ToolExecute(c) \/ ToolReturned(c) \/ ToolBlocked(c)
      PROVE  /\ at'[c] # "endCancelled" /\ ret' = ret /\ reply' = reply
  BY <1>1, <1>7 DEF ToolRejected, ToolExecuting, ToolProgress, ToolResult,
     ToolExecute, ToolReturned, ToolBlocked, KeepCall, permissionVars
<1>8. ASSUME ToolEnds(c) \/ ToolEmitFails(c) \/ ToolFails(c)
      PROVE  /\ at'[c] = "done" /\ reply' = reply
             /\ ret'[c] = "cancelled" => at[c] = "endCancelled"
  BY <1>1, <1>8 DEF ToolEnds, ToolEmitFails, ToolFails, permissionVars
<1> QED
  BY <1>2, <1>3, <1>4, <1>5, <1>6, <1>7, <1>8 DEF CallActions, ToolSteps, Dropped

LEMMA CancelStep ==
  ASSUME RunTypes, ClockInv, CancelInv, [Next]_vars
  PROVE  CancelInv'
<1>1. (token => token') /\ (Dropped => Dropped')
  BY DroppedStays
<1>2. CASE LoopActions
  <2>1. UNCHANGED <<at, ret, reply, token, rival>>
    BY <1>2, LoopLeavesRest DEF callVars, permissionVars, envVars
  <2> QED
    BY <1>1, <1>2, <2>1, LoopCancels DEF CancelInv, Dropped
<1>3. CASE JoinTools
  <2>1. UNCHANGED <<at, ret, reply, token, rival, andThen>>
    BY <1>3 DEF JoinTools, KeepRest, KeepLoop, callVars, permissionVars, envVars
  <2>2. outcome' = "cancelled" => Dropped
    <3>1. \A i \in DOMAIN batch : batch[i] \in Calls
      BY DEF RunTypes, TypeOKLoop
    <3> QED
      BY <1>3, <3>1 DEF JoinTools, Stay, Return, CancelInv
  <2> QED
    BY <1>1, <2>1, <2>2 DEF CancelInv
<1>4. CASE ItemRejected
  <2>1. /\ UNCHANGED <<at, ret, reply, andThen>>
        /\ outcome' # "cancelled"
    BY <1>4 DEF ItemRejected, Return, KeepLoop, callVars, permissionVars
  <2> QED
    BY <1>1, <2>1 DEF CancelInv
<1>5. CASE StartTools
  <2>1. /\ UNCHANGED <<ret, reply, andThen, outcome>>
        /\ at' = [c \in Calls |-> IF c \in InBatch THEN "begin" ELSE at[c]]
    BY <1>5 DEF StartTools, KeepLoop, Stay, permissionVars
  <2> QED
    BY <1>1, <2>1 DEF CancelInv
<1>6. ASSUME NEW c \in Calls, CallActions(c) PROVE CancelInv'
  <2>1. /\ UNCHANGED <<outcome, andThen>>
        /\ \A d \in Calls \ {c} : at'[d] = at[d] /\ ret'[d] = ret[d]
    BY <1>6, CallMoves DEF RunTypes, loopVars
  <2>2. \A d \in Calls :
          at'[d] = "endCancelled" \/ ret'[d] = "cancelled" \/ reply'[d] = "closed" => Dropped
    BY <1>6, <2>1, CallCancels DEF CancelInv
  <2> QED
    BY <1>1, <2>1, <2>2 DEF CancelInv
<1>7. CASE Cleanup
  <2>1. \A c \in Calls : reply[c] = "none"
    BY <1>7 DEF Cleanup, RunTypes, CallsPlaced, ClockInv, WaitsMatch, Asked
  <2>2. \A c \in Calls : reply'[c] = "none"
    BY <1>7, <2>1 DEF Cleanup, DropSession
  <2>3. UNCHANGED <<at, ret, andThen, outcome>>
    BY <1>7 DEF Cleanup, KeepLoop, Stay, callVars
  <2> QED
    BY <1>1, <2>2, <2>3 DEF CancelInv
<1>8. CASE RivalActions
  <2>1. UNCHANGED <<at, ret, andThen, outcome>>
    BY <1>8, SideLeavesRun DEF SideActions, callVars, loopVars
  <2>2. Dropped' \/ UNCHANGED reply
    BY <1>8 DEF RivalActions, RivalStarts, RivalDropsWaits, RivalEnds, Dropped,
       envVars, permissionVars
  <2> QED
    BY <1>1, <2>1, <2>2 DEF CancelInv
<1>9. CASE Decides
  <2>1. PICK c \in Calls, ph \in {Before, After}, d \in Decisions :
          OperatorDecides(c, ph, d)
    BY <1>9 DEF Decides
  <2>2. \A b \in Calls : reply'[b] = "closed" => reply[b] = "closed"
    BY <2>1 DEF OperatorDecides, Resolve, Decisions, ClockInv, TypeOKPermissions
  <2>3. UNCHANGED <<at, ret, andThen, outcome>>
    BY <1>9, SideLeavesRun DEF SideActions, callVars, loopVars
  <2> QED
    BY <1>1, <2>2, <2>3 DEF CancelInv
<1>10. CASE \/ ForwardEvent \/ ForwardFails \/ ForwarderEnds
            \/ Cancel \/ Watchdog \/ Time \/ UNCHANGED vars
  <2>1. UNCHANGED <<at, ret, andThen, outcome>>
    BY <1>10, SideLeavesRun DEF SideActions, callVars, loopVars
  <2>2. UNCHANGED reply
    BY <1>10 DEF ForwardEvent, ForwardFails, ForwarderEnds, Cancel, Watchdog,
       Time, Tick, vars, permissionVars
  <2> QED
    BY <1>1, <2>1, <2>2 DEF CancelInv
<1> QED
  BY <1>2, <1>3, <1>4, <1>5, <1>6, <1>7, <1>8, <1>9, <1>10, RunSteps

LEMMA CancelInvariant == Spec => []CancelInv
<1>1. Init => CancelInv
  BY DEF Init, InitPermissions, CancelInv
<1> QED
  BY <1>1, CancelStep, RunTypesInvariant, ClockInvariant, PTL DEF Spec

(* A run says that it was cancelled only if it was, or if another run of    *)
(* the session dropped the waits of its calls: a failed call, a refused     *)
(* update or a failed compaction is never reported as a cancellation.       *)
THEOREM CancelledRunsWereAsked == Spec => []CancelledWhenAsked
<1>1. CancelInv => CancelledWhenAsked
  BY DEF CancelInv, CancelledWhenAsked, Dropped
<1> QED
  BY <1>1, CancelInvariant, PTL

-----------------------------------------------------------------------------
(* The stages of a call. *)

(* The places in which the loop has a batch whose tools do not run yet. *)
BatchPlaces == {"streaming", "cancelling", "response", "afterCall", "inputs"}

Announced == {"none", "created", "input_streaming", "input_ready"}

(* A batch is made of new calls: none of it ran, and before a cancellation *)
(* it is at most announced.                                                *)
BatchFresh ==
  /\ \A c \in Calls : at[c] # "off" => stage[c] # "none"
  /\ \A c \in InBatch : pc \in BatchPlaces => at[c] = "off"
  /\ \A c \in InBatch : pc \in BatchPlaces \ {"cancelling"} => stage[c] \in Announced

(* The loop's own updates. *)
LoopUpdates(c) ==
  CancelNext(c) \/ InputReady(c) \/ ToolCallStart(c) \/ ToolCallArgumentsDelta(c)

LEMMA EmitStage ==
  ASSUME TypeOKEvents, NEW c \in Calls, NEW s \in Stages, Emit(c, s)
  PROVE  /\ stage'[c] \in {stage[c], s}
         /\ forwarder = "running" => stage'[c] = s
         /\ \A d \in Calls \ {c} : stage'[d] = stage[d]
BY DEF Emit, TypeOKEvents

LEMMA StageSteps ==
  ASSUME [Next]_vars
  PROVE  \/ UNCHANGED stage
         \/ \E c \in Calls : LoopUpdates(c) \/ CallActions(c)
<1>1. CASE LoopActions /\ ~\E c \in Calls : LoopUpdates(c)
  BY <1>1 DEF LoopActions, LoopUpdates, BeforeAgentStart, TopCancelled,
     NextIteration, StreamCancelled, LoopEmitFails, CancelledStarted, RetryDelay,
     ReserveBatch, AfterCallCancelled, Answer, Barrier, CompactionCancelled,
     TakeForwarder, ProviderItemUpdate, StreamDone, MalformedRetry, AutoContinue,
     AfterCallBlocked, Compacted, CompactionFails, StreamFailed, Publish, eventVars
<1>2. CASE ItemRejected \/ StartTools \/ JoinTools \/ Cleanup
  BY <1>2 DEF ItemRejected, StartTools, JoinTools, Cleanup, eventVars
<1>3. CASE SideActions \/ UNCHANGED vars
  BY <1>3 DEF SideActions, ForwardEvent, ForwardFails, ForwarderEnds, Forward,
     ForwarderFails, ForwarderFinishes, Cancel, Watchdog, Time, Decides,
     OperatorDecides, RivalActions, RivalStarts, RivalDropsWaits, RivalEnds,
     vars, eventVars
<1> QED
  BY <1>1, <1>2, <1>3, RunSteps DEF SideActions

LEMMA LoopUpdateStage ==
  ASSUME RunTypes, BatchFresh, NEW c \in Calls, LoopUpdates(c)
  PROVE  /\ pc \in BatchPlaces /\ pc' = pc
         /\ stage[c] \notin Terminal
         /\ \A d \in Calls \ {c} : stage'[d] = stage[d]
         /\ stage'[c] # "none" \/ stage'[c] = stage[c]
         /\ pc # "cancelling" => stage'[c] \in Announced
         /\ \/ batch' = batch
            \/ /\ batch' = Append(batch, c) /\ stage[c] = "none"
         /\ c \in {batch'[i] : i \in DOMAIN batch'}
<1> USE DEF Stages, Terminal, Announced, BatchPlaces, Streaming, loopVars
<1>1. TypeOKEvents /\ stage \in [Calls -> Stages] /\ batch \in Seq(Calls)
  BY DEF RunTypes, TypeOKEvents, TypeOKLoop
<1>2. CASE CancelNext(c)
  <2>1. /\ pc = "cancelling" /\ UNCHANGED loopVars /\ Emit(c, "cancelled")
        /\ Unclosed(c) /\ c \in InBatch
    BY <1>2 DEF CancelNext, FirstUnclosed, InBatch
  <2>2. stage[c] \notin Terminal
    BY <2>1 DEF Unclosed
  <2> QED
    BY <1>1, <2>1, <2>2, EmitStage DEF InBatch
<1>3. CASE InputReady(c)
  <2>1. /\ pc = "inputs" /\ UNCHANGED loopVars /\ c \in InBatch
        /\ Emit(c, "created") \/ Emit(c, "input_ready")
    BY <1>3 DEF InputReady, InBatch
  <2>2. stage[c] \in {"none", "created", "input_streaming", "input_ready"}
    BY <2>1 DEF BatchFresh
  <2>3. /\ stage'[c] \in {stage[c], "created", "input_ready"}
        /\ \A d \in Calls \ {c} : stage'[d] = stage[d]
    BY <1>1, <2>1, EmitStage
  <2> QED
    BY <2>1, <2>2, <2>3 DEF InBatch
<1>4. CASE ToolCallStart(c)
  <2>1. /\ pc = "streaming" /\ pc' = pc /\ stage[c] = "none" /\ Emit(c, "created")
        /\ batch' = Append(batch, c)
    BY <1>4 DEF ToolCallStart
  <2>2. Len(batch') \in DOMAIN batch' /\ batch'[Len(batch')] = c
    BY <1>1, <2>1, AppendProperties
  <2>3. /\ stage'[c] \in {stage[c], "created"}
        /\ \A d \in Calls \ {c} : stage'[d] = stage[d]
    BY <1>1, <2>1, EmitStage
  <2> QED
    BY <2>1, <2>2, <2>3
<1>5. CASE ToolCallArgumentsDelta(c)
  <2>1. /\ pc = "streaming" /\ UNCHANGED loopVars /\ c \in InBatch
        /\ stage[c] = "created" /\ Emit(c, "input_streaming")
    BY <1>5 DEF ToolCallArgumentsDelta
  <2> QED
    BY <1>1, <2>1, EmitStage DEF InBatch
<1> QED
  BY <1>2, <1>3, <1>4, <1>5 DEF LoopUpdates

(* How the loop goes on otherwise. *)
LEMMA LoopMoves ==
  ASSUME RunTypes, LoopActions, ~\E c \in Calls : LoopUpdates(c)
  PROVE  /\ UNCHANGED stage
         /\ \/ batch' = batch
            \/ NextIteration
            \/ \E c \in Calls : /\ batch = <<>> /\ stage[c] = "none"
                                /\ batch' = <<c>> /\ pc' = "response"
         /\ pc' \in BatchPlaces => NextIteration \/ pc \in BatchPlaces
         /\ pc' \in BatchPlaces \ {"cancelling"} =>
              NextIteration \/ pc \in BatchPlaces \ {"cancelling"}
<1> USE DEF BatchPlaces, Return, Stay, CancelStarted, KeepLoop, Streaming
<1>1. UNCHANGED stage
  BY StageSteps, LoopLeavesRest, CallMoves DEF LoopActions, LoopUpdates, RunTypes, BeforeAgentStart, TopCancelled,
     NextIteration, StreamCancelled, LoopEmitFails, CancelledStarted, RetryDelay,
     ReserveBatch, AfterCallCancelled, Answer, Barrier, CompactionCancelled,
     TakeForwarder, ProviderItemUpdate, StreamDone, MalformedRetry, AutoContinue,
     AfterCallBlocked, Compacted, CompactionFails, StreamFailed, Publish, eventVars
<1>2. CASE StreamDone
  <2>1. /\ pc = "streaming" /\ pc' = "response"
        /\ \/ batch' = batch
           \/ \E c \in Calls : batch = <<>> /\ stage[c] = "none" /\ batch' = <<c>>
    BY <1>2, Zenon DEF StreamDone
  <2> QED
    BY <1>1, <2>1
<1>3. CASE CancelledStarted
  <2>1. pc' \in {"sleeping", "top", "closing"} /\ batch' = batch
    BY <1>3 DEF CancelledStarted
  <2> QED
    BY <1>1, <2>1
<1>4. CASE NextIteration
  BY <1>1, <1>4 DEF NextIteration
<1>5. CASE ~StreamDone /\ ~CancelledStarted /\ ~NextIteration
  <2>1. batch' = batch
    BY <1>5 DEF LoopActions, LoopUpdates, BeforeAgentStart, TopCancelled,
       StreamCancelled, LoopEmitFails, RetryDelay, ReserveBatch,
       AfterCallCancelled, Answer, Barrier, CompactionCancelled, TakeForwarder,
       ProviderItemUpdate, MalformedRetry, AutoContinue, AfterCallBlocked,
       Compacted, CompactionFails, StreamFailed
  <2>2. /\ pc' \in BatchPlaces => pc \in BatchPlaces
        /\ pc' \in BatchPlaces \ {"cancelling"} => pc \in BatchPlaces \ {"cancelling"}
    BY <1>5 DEF LoopActions, LoopUpdates, BeforeAgentStart, TopCancelled,
       StreamCancelled, LoopEmitFails, RetryDelay, ReserveBatch,
       AfterCallCancelled, Answer, Barrier, CompactionCancelled, TakeForwarder,
       ProviderItemUpdate, MalformedRetry, AutoContinue, AfterCallBlocked,
       Compacted, CompactionFails, StreamFailed
  <2> QED
    BY <1>1, <2>1, <2>2
<1> QED
  BY <1>2, <1>3, <1>4, <1>5

Ends == {"endOk", "endCancelled", "done"}

(* A call that has not come to its end is not closed. *)
StageInv ==
  \A c \in Calls : at[c] \notin Ends \cup {"off"} => stage[c] \notin Terminal

(* What the future of a call does to its stage. *)
LEMMA CallStages ==
  ASSUME RunTypes, StageInv, NEW c \in Calls, CallActions(c)
  PROVE  /\ \A d \in Calls \ {c} : stage'[d] = stage[d]
         /\ stage[c] \in Terminal => stage'[c] = stage[c]
         /\ stage[c] # "none" => stage'[c] # "none"
         /\ at'[c] \notin Ends => stage'[c] \notin Terminal
         /\ at'[c] \in Ends /\ at[c] \notin Ends /\ forwarder = "running" =>
              \/ stage'[c] \in Terminal
              \/ receipt[c] = "err" \/ broken'
<1> USE DEF Stages, Terminal, Move, Ready, Ends
<1>1. TypeOKEvents /\ stage \in [Calls -> Stages] /\ at \in [Calls -> CallLabels]
  BY DEF RunTypes, TypeOKEvents, TypeOKCalls
<1>2. at[c] \notin Ends \cup {"off"} => stage[c] \notin Terminal
  BY DEF StageInv
(* An update that leaves the call open, and one that closes it. *)
<1>3. ASSUME NEW s \in Stages \ ({"none"} \cup Terminal), Emit(c, s),
             at[c] \notin Ends \cup {"off"}, at'[c] \notin Ends
      PROVE  /\ \A d \in Calls \ {c} : stage'[d] = stage[d]
             /\ stage[c] \notin Terminal /\ stage'[c] \notin Terminal
             /\ stage[c] # "none" => stage'[c] # "none"
  BY <1>1, <1>2, <1>3, EmitStage
<1>4. ASSUME NEW s \in Terminal, Emit(c, s), at[c] \notin Ends \cup {"off"},
             at'[c] \in Ends
      PROVE  /\ \A d \in Calls \ {c} : stage'[d] = stage[d]
             /\ stage[c] \notin Terminal
             /\ stage[c] # "none" => stage'[c] # "none"
             /\ forwarder = "running" => stage'[c] \in Terminal
  BY <1>1, <1>2, <1>4, EmitStage
<1>5. ASSUME UNCHANGED eventVars, at[c] \notin Ends \cup {"off"}, at'[c] \notin Ends
      PROVE  UNCHANGED stage /\ stage[c] \notin Terminal
  BY <1>2, <1>5 DEF eventVars
<1>6. ASSUME NEW l \in Gates,
             ToolGate(c, l) \/ ToolAnswered(c, l)
      PROVE  \/ UNCHANGED eventVars /\ at[c] \notin Ends \cup {"off"} /\ at'[c] \notin Ends
             \/ Emit(c, "completed") /\ at[c] \notin Ends \cup {"off"} /\ at'[c] \in Ends
  BY <1>1, <1>6 DEF ToolGate, ToolAnswered, Gates, WaitOf, PhaseOf, Proceed, Decline
<1>7. ASSUME NEW l \in Gates, ToolGateCancelled(c, l)
      PROVE  Emit(c, "cancelled") /\ at[c] \notin Ends \cup {"off"} /\ at'[c] \in Ends
  BY <1>1, <1>7 DEF ToolGateCancelled, Gates, WaitOf, EndCancelled
<1>8. ASSUME ToolBegin(c) \/ ToolRejected(c) \/ ToolCancelled(c) \/ ToolResult(c)
             \/ ToolExecuting(c) \/ ToolProgress(c)
      PROVE  \/ \E s \in Stages \ ({"none"} \cup Terminal) :
                   Emit(c, s) /\ at[c] \notin Ends \cup {"off"} /\ at'[c] \notin Ends
             \/ \E s \in Terminal :
                   Emit(c, s) /\ at[c] \notin Ends \cup {"off"} /\ at'[c] \in Ends
  BY <1>1, <1>8 DEF ToolBegin, ToolRejected, ToolCancelled, ToolResult,
     ToolExecuting, ToolProgress, EndCancelled
<1>9. ASSUME ToolExecute(c) \/ ToolReturned(c) \/ ToolBlocked(c)
      PROVE  UNCHANGED eventVars /\ at[c] \notin Ends \cup {"off"} /\ at'[c] \notin Ends
  BY <1>1, <1>9 DEF ToolExecute, ToolReturned, ToolBlocked
<1>10. ASSUME ToolEnds(c) \/ ToolEmitFails(c) \/ ToolFails(c)
       PROVE  /\ UNCHANGED stage /\ at'[c] \in Ends
              /\ at[c] \in Ends \/ receipt[c] = "err" \/ broken'
  BY <1>1, <1>10 DEF ToolEnds, ToolEmitFails, ToolFails, eventVars
<1> QED
  BY <1>3, <1>4, <1>5, <1>6, <1>7, <1>8, <1>9, <1>10 DEF CallActions, ToolSteps

LEMMA BatchFreshStep ==
  ASSUME RunTypes, RunTypes', StageInv, BatchFresh, [Next]_vars
  PROVE  BatchFresh' /\ StageInv'
<1>1. CASE \E c \in Calls : LoopUpdates(c)
  <2>1. PICK c \in Calls : LoopUpdates(c)
    BY <1>1
  <2>2. UNCHANGED at /\ pc # "tools"
    BY <2>1, LoopLeavesRest DEF LoopActions, LoopUpdates, callVars
  <2>3. /\ pc' = pc
        /\ \A d \in Calls \ {c} : stage'[d] = stage[d]
        /\ stage'[c] # "none" \/ stage'[c] = stage[c]
        /\ pc # "cancelling" => stage'[c] \in Announced
        /\ \/ batch' = batch
           \/ batch' = Append(batch, c) /\ stage[c] = "none"
    BY <2>1, LoopUpdateStage
  <2>4. InBatch' \subseteq InBatch \cup {c}
    <3>1. CASE batch' = batch
      BY <3>1 DEF InBatch
    <3>2. CASE batch' = Append(batch, c)
      <4>1. batch \in Seq(Calls)
        BY DEF RunTypes, TypeOKLoop
      <4>2. ASSUME NEW i \in DOMAIN batch' PROVE batch'[i] \in InBatch \cup {c}
        BY <3>2, <4>1, <4>2, AppendProperties DEF InBatch
      <4> QED
        BY <4>2 DEF InBatch
    <3> QED
      BY <2>3, <3>1, <3>2
  <2>5. c \in InBatch \/ (at[c] = "off" /\ c \in Calls)
    <3>1. CASE batch' = batch
      BY <2>1, <3>1, LoopUpdateStage DEF InBatch
    <3>2. CASE stage[c] = "none"
      BY <3>2 DEF BatchFresh
    <3> QED
      BY <2>3, <3>1, <3>2
  <2>6. BatchFresh'
    <3>1. \A d \in Calls : at'[d] # "off" => stage'[d] # "none"
      BY <2>2, <2>3 DEF BatchFresh
    <3>2. ASSUME NEW d \in InBatch', pc' \in BatchPlaces PROVE at'[d] = "off"
      BY <2>2, <2>3, <2>4, <2>5, <3>2 DEF BatchFresh
    <3>3. ASSUME NEW d \in InBatch', pc' \in BatchPlaces \ {"cancelling"}
          PROVE  stage'[d] \in Announced
      <4>1. InBatch \subseteq Calls
        BY BatchCalls DEF RunTypes, TypeOKLoop
      <4> QED
        BY <2>3, <2>4, <3>3, <4>1 DEF BatchFresh
    <3> QED
      BY <3>1, <3>2, <3>3 DEF BatchFresh
  <2>7. StageInv'
    BY <2>2 DEF StageInv, RunTypes, CallsPlaced, Ends
  <2> QED
    BY <2>6, <2>7
<1>2. CASE LoopActions /\ ~\E c \in Calls : LoopUpdates(c)
  <2>1. UNCHANGED <<at, stage>>
    BY <1>2, LoopLeavesRest, LoopMoves DEF callVars
  <2>2. StageInv'
    BY <2>1 DEF StageInv
  <2>3. ASSUME batch' = batch, ~NextIteration PROVE BatchFresh'
    <3>1. InBatch' = InBatch
      BY <2>3 DEF InBatch
    <3>2. /\ pc' \in BatchPlaces => pc \in BatchPlaces
          /\ pc' \in BatchPlaces \ {"cancelling"} => pc \in BatchPlaces \ {"cancelling"}
      BY <1>2, <2>3, LoopMoves
    <3> QED
      BY <2>1, <3>1, <3>2 DEF BatchFresh
  <2>4. ASSUME NextIteration PROVE BatchFresh'
    <3>1. InBatch' = {}
      BY <2>4 DEF NextIteration, InBatch
    <3> QED
      BY <2>1, <3>1 DEF BatchFresh
  <2>5. ASSUME NEW c \in Calls, stage[c] = "none", batch' = <<c>>
        PROVE  BatchFresh'
    <3>1. InBatch' = {c}
      BY <2>5 DEF InBatch
    <3> QED
      BY <2>1, <2>5, <3>1 DEF BatchFresh, Announced
  <2> QED
    BY <1>2, <2>2, <2>3, <2>4, <2>5, LoopMoves
<1>3. CASE ItemRejected \/ JoinTools \/ Cleanup
  <2>1. UNCHANGED <<at, stage, batch>> /\ pc' \notin BatchPlaces
    BY <1>3 DEF ItemRejected, JoinTools, Cleanup, Return, KeepLoop, KeepRest,
       callVars, eventVars, BatchPlaces
  <2> QED
    BY <2>1 DEF BatchFresh, StageInv
<1>4. CASE StartTools
  <2>1. /\ pc' = "tools" /\ UNCHANGED <<stage, batch>>
        /\ \A c \in InBatch : stage[c] = "input_ready"
        /\ at' = [c \in Calls |-> IF c \in InBatch THEN "begin" ELSE at[c]]
    BY <1>4 DEF StartTools, KeepLoop, eventVars
  <2> QED
    BY <2>1 DEF BatchFresh, StageInv, BatchPlaces, Terminal
<1>5. ASSUME NEW c \in Calls, CallActions(c) PROVE BatchFresh' /\ StageInv'
  <2>1. /\ pc' = "tools" /\ at[c] # "off"
        /\ \A d \in Calls \ {c} : at'[d] = at[d]
    BY <1>5, CallMoves DEF RunTypes, loopVars
  <2>2. BatchFresh'
    BY <1>5, <2>1, CallStages DEF BatchFresh, BatchPlaces
  <2>3. StageInv'
    BY <1>5, <2>1, CallStages DEF StageInv, Ends
  <2> QED
    BY <2>2, <2>3
<1>6. CASE UNCHANGED <<stage, loopVars, callVars>>
  BY <1>6 DEF BatchFresh, StageInv, InBatch, loopVars, callVars
<1>7. SideActions \/ UNCHANGED vars => UNCHANGED <<stage, loopVars, callVars>>
  <2>1. SideActions \/ UNCHANGED vars => UNCHANGED stage
    BY DEF SideActions, ForwardEvent, ForwardFails, ForwarderEnds, Forward,
       ForwarderFails, ForwarderFinishes, Cancel, Watchdog, Time, Decides,
       OperatorDecides, RivalActions, RivalStarts, RivalDropsWaits, RivalEnds,
       vars, eventVars
  <2> QED
    BY <2>1, SideLeavesRun
<1> QED
  BY <1>1, <1>2, <1>3, <1>4, <1>5, <1>6, <1>7, RunSteps DEF SideActions

LEMMA BatchFreshInvariant == Spec => [](BatchFresh /\ StageInv)
<1>1. Init => BatchFresh /\ StageInv
  BY DEF Init, InitEvents, BatchFresh, StageInv, InBatch
<1> QED
  BY <1>1, BatchFreshStep, RunTypesInvariant, PTL DEF Spec

(* Once a call is closed, no later cancellation, retry, answer or failure *)
(* emits another update for it.                                           *)
THEOREM TerminalUpdatesAreLast == Spec => TerminalIsLast
<1>1. ASSUME RunTypes, BatchFresh, StageInv, [Next]_vars, NEW c \in Calls,
             stage[c] \in Terminal
      PROVE  stage'[c] = stage[c]
  BY <1>1, StageSteps, LoopUpdateStage, CallStages
<1>2. RunTypes /\ BatchFresh /\ StageInv /\ [Next]_vars =>
        [\A c \in Calls : stage[c] \in Terminal => stage'[c] = stage[c]]_vars
  BY <1>1
<1> QED
  BY <1>2, RunTypesInvariant, BatchFreshInvariant, PTL DEF Spec, TerminalIsLast

-----------------------------------------------------------------------------
(* The operator's decisions. *)

(* Where a call has not run, and will not before another decision. *)
Unrun == {"off", "begin", "waiting", "askedBefore", "go", "executing", "progress",
          "declined"}

Refusals == {"Skip", "Deny"}

(* A refusal is acknowledged only for a slot that is listed; a slot outlives *)
(* its wait only when the call was cancelled or failed in it, so a call that *)
(* went on has no slot of the first gate left.                               *)
VerdictOf(c) ==
  /\ c \in executed => at[c] \notin Unrun /\ verdict[c] \notin Refusals
  /\ at[c] \in {"off", "begin", "waiting"} => verdict[c] = "none"
  /\ at[c] \in {"go", "executing", "progress"} => verdict[c] \notin Refusals
  /\ at[c] = "askedBefore" /\ reply[c] \in Decisions => verdict[c] = reply[c]
  /\ <<c, Before>> \in pending =>
       c \notin executed /\ at[c] \in {"askedBefore", "endCancelled", "done"}
  /\ <<c, After>> \in pending => at[c] \in {"askedAfter", "endCancelled", "done"}
  /\ \A ph \in {Before, After} :
       <<c, ph>> \in pending /\ at[c] \in Asked => reply[c] = "open"

VerdictInv == \A c \in Calls : VerdictOf(c)

(* What leaves a call where it is and adds no slot. *)
LEMMA VerdictKept ==
  ASSUME NEW c \in Calls, VerdictOf(c),
         at'[c] = at[c], verdict'[c] = verdict[c],
         c \in executed' <=> c \in executed,
         \A ph \in {Before, After} : <<c, ph>> \in pending' => <<c, ph>> \in pending,
         \/ reply'[c] = reply[c]
         \/ pending' = {} /\ reply'[c] \notin Decisions
  PROVE  VerdictOf(c)'
BY DEF VerdictOf

(* A call that moves, and was in no gate, adds no slot. *)
LEMMA VerdictMoved ==
  ASSUME NEW c \in Calls, VerdictOf(c), verdict'[c] = verdict[c],
         pending' \subseteq pending,
         at[c] \notin {"off", "done", "endOk", "endCancelled"},
         at'[c] \in {"endCancelled", "done"} \/ ~\E ph \in {Before, After} : <<c, ph>> \in pending,
         at'[c] \notin Asked,
         executed' = executed \/ (c \in executed' /\ at[c] = "progress"),
         at'[c] \in {"off", "begin", "waiting"} => at[c] = "begin",
         at'[c] \in {"go", "executing", "progress"} => verdict[c] \notin Refusals,
         at'[c] \in Unrun => executed' = executed /\ at[c] \in Unrun
  PROVE  VerdictOf(c)'
BY DEF VerdictOf, Asked, Unrun

LEMMA VerdictMoves ==
  ASSUME RunTypes, ClockInv, NEW c \in Calls, VerdictOf(c), CallActions(c)
  PROVE  VerdictOf(c)'
<1> USE DEF Move, Ready
<1>1. /\ at \in [Calls -> CallLabels]
      /\ reply \in [Calls -> {"none", "open", "closed"} \cup Decisions]
  BY DEF RunTypes, TypeOKCalls, ClockInv, TypeOKPermissions
<1>2. verdict' = verdict
  BY CallMoves DEF RunTypes
<1>3. at[c] \notin {"endCancelled", "done"} \cup Asked =>
        ~\E ph \in {Before, After} : <<c, ph>> \in pending
  BY DEF VerdictOf, Asked
<1>4. ASSUME ToolBegin(c) \/ ToolRejected(c) \/ ToolExecuting(c)
             \/ ToolProgress(c) \/ ToolCancelled(c) \/ ToolResult(c)
             \/ ToolReturned(c) \/ ToolBlocked(c)
      PROVE  VerdictOf(c)'
  <2>1. /\ UNCHANGED <<executed, pending>>
        /\ at[c] \notin {"off", "done", "endOk", "endCancelled"} \cup Asked
        /\ at'[c] \notin Asked
        /\ at'[c] \in {"off", "begin", "waiting"} => at[c] = "begin"
        /\ at'[c] \in {"go", "executing", "progress"} => at[c] \in {"go", "executing"}
        /\ at'[c] \in Unrun => at[c] \in Unrun
    BY <1>1, <1>4 DEF ToolBegin, ToolRejected, ToolExecuting, ToolProgress,
       ToolCancelled, ToolResult, ToolReturned, ToolBlocked, EndCancelled,
       permissionVars, Asked, Unrun
  <2>2. at'[c] \in {"go", "executing", "progress"} => verdict[c] \notin Refusals
    BY <2>1 DEF VerdictOf
  <2> QED
    BY <1>2, <1>3, <2>1, <2>2, VerdictMoved
<1>5. ASSUME ToolExecute(c) PROVE VerdictOf(c)'
  <2>1. /\ pending' = pending /\ executed' = executed \cup {c}
        /\ at[c] = "progress" /\ at'[c] = "tool"
    BY <1>1, <1>5 DEF ToolExecute, permissionVars
  <2> QED
    BY <1>2, <1>3, <2>1 DEF VerdictOf, Asked, Unrun
<1>6. ASSUME ToolEnds(c) \/ ToolEmitFails(c) \/ ToolFails(c) PROVE VerdictOf(c)'
  <2>1. /\ UNCHANGED <<executed, pending>> /\ at'[c] = "done"
    BY <1>1, <1>6 DEF ToolEnds, ToolEmitFails, ToolFails, permissionVars
  <2>2. at[c] = "endOk" => ~\E ph \in {Before, After} : <<c, ph>> \in pending
    BY DEF VerdictOf
  <2> QED
    BY <1>2, <2>1, <2>2 DEF VerdictOf, Asked, Unrun
<1>7. ASSUME NEW l \in Gates, ToolGateCancelled(c, l) PROVE VerdictOf(c)'
  <2>1. /\ executed' = executed /\ at'[c] = "endCancelled"
        /\ pending' \subseteq pending
    BY <1>1, <1>7 DEF ToolGateCancelled, EndCancelled, Leave, LeaveDropping,
       permissionVars
  <2> QED
    BY <1>2, <2>1 DEF VerdictOf, Asked, Unrun
<1>8. ASSUME NEW l \in Gates, ToolAnswered(c, l) PROVE VerdictOf(c)'
  <2>1. /\ executed' = executed /\ pending' = pending
        /\ at[c] = WaitOf(l) /\ reply[c] \in Decisions
    BY <1>8 DEF ToolAnswered, Leave
  <2>2. ~\E ph \in {Before, After} : <<c, ph>> \in pending
    BY <2>1 DEF VerdictOf, Asked, WaitOf, Decisions
  <2>3. CASE l = "waiting"
    <3>1. at[c] = "askedBefore" /\ verdict[c] = reply[c] /\ c \notin executed
      BY <2>1, <2>3 DEF WaitOf, VerdictOf, Unrun
    <3>2. CASE reply[c] = "Approve"
      <4>1. at'[c] = "go"
        BY <1>1, <1>8, <2>3, <3>2 DEF ToolAnswered, Proceed, PhaseOf
      <4> QED
        BY <1>2, <2>1, <2>2, <3>1, <3>2, <4>1 DEF VerdictOf, Refusals, Asked
    <3>3. CASE reply[c] # "Approve"
      <4>1. at'[c] = "declined"
        BY <1>1, <1>8, <2>3, <3>3 DEF ToolAnswered, Decline, PhaseOf
      <4> QED
        BY <1>2, <2>1, <2>2, <3>1, <4>1 DEF VerdictOf, Asked
    <3> QED
      BY <3>2, <3>3
  <2>4. CASE l # "waiting"
    <3>1. at[c] = "askedAfter" /\ at'[c] \in {"endOk", "declinedShown"}
      BY <1>1, <1>8, <2>1, <2>4 DEF ToolAnswered, Proceed, Decline, PhaseOf,
         WaitOf, Before, After
    <3> QED
      BY <1>2, <2>1, <2>2, <3>1 DEF VerdictOf, Asked, Unrun
  <2> QED
    BY <2>3, <2>4
<1>9. ASSUME NEW l \in Gates, ToolGate(c, l) PROVE VerdictOf(c)'
  <2>1. executed' = executed /\ at[c] = l
    BY <1>9 DEF ToolGate
  <2>2. ~\E ph \in {Before, After} : <<c, ph>> \in pending
    BY <1>3, <2>1 DEF Gates, Asked
  <2>3. CASE Proceed(c, PhaseOf(l)) /\ UNCHANGED <<permissionVars, clockVars>>
    <3>1. pending' = pending /\ at'[c] = IF l = "waiting" THEN "go" ELSE "endOk"
      BY <1>1, <2>3 DEF Proceed, PhaseOf, permissionVars, Before, After
    <3> QED
      BY <1>2, <2>1, <2>2, <3>1 DEF VerdictOf, Asked, Unrun, Gates, Refusals
  <2>4. CASE Register(c, PhaseOf(l)) /\ Move(c, WaitOf(l))
    <3>1. /\ pending' = pending \cup {<<c, PhaseOf(l)>>} /\ reply'[c] = "open"
          /\ at'[c] = WaitOf(l)
      BY <1>1, <2>4 DEF Register
    <3>2. <<c, Before>> \in pending' => l = "waiting"
      BY <2>2, <3>1 DEF PhaseOf, Before, After
    <3>3. <<c, After>> \in pending' => l # "waiting"
      BY <2>2, <3>1 DEF PhaseOf, Before, After
    <3> QED
      BY <1>2, <2>1, <3>1, <3>2, <3>3
      DEF VerdictOf, Asked, Unrun, Gates, WaitOf, Decisions
  <2> QED
    BY <1>9, <2>3, <2>4 DEF ToolGate
<1> QED
  BY <1>4, <1>5, <1>6, <1>7, <1>8, <1>9 DEF CallActions, ToolSteps

LEMMA VerdictStep ==
  ASSUME RunTypes, ClockInv, BatchFresh, VerdictInv, [Next]_vars
  PROVE  VerdictInv'
<1>1. /\ reply \in [Calls -> {"none", "open", "closed"} \cup Decisions]
      /\ verdict \in [Calls -> {"none"} \cup Decisions]
  BY DEF RunTypes, TypeOKEnv, ClockInv, TypeOKPermissions
<1>2. ASSUME UNCHANGED <<at, executed, verdict>>, UNCHANGED permissionVars \/ DropSession
      PROVE  VerdictInv'
  <2>1. ASSUME NEW c \in Calls PROVE VerdictOf(c)'
    <3>1. /\ pending' \subseteq pending
          /\ reply'[c] = reply[c] \/ (pending' = {} /\ reply'[c] \notin Decisions)
      BY <1>2 DEF DropSession, permissionVars, Decisions
    <3> QED
      BY <1>2, <3>1, VerdictKept DEF VerdictInv
  <2> QED
    BY <2>1 DEF VerdictInv
<1>3. CASE LoopActions \/ ItemRejected \/ JoinTools \/ Cleanup \/ RivalActions
           \/ ForwardEvent \/ ForwardFails \/ ForwarderEnds
           \/ Cancel \/ Watchdog \/ Time \/ UNCHANGED vars
  <2>1. CASE LoopActions
    BY <1>2, <2>1, LoopLeavesRest DEF callVars, envVars
  <2>2. CASE ItemRejected \/ JoinTools \/ Cleanup
    BY <1>2, <2>2 DEF ItemRejected, JoinTools, Cleanup, KeepRest, callVars, envVars
  <2>3. CASE RivalActions
    BY <1>2, <2>3 DEF RivalActions, RivalStarts, RivalDropsWaits, RivalEnds,
       callVars, envVars
  <2>4. CASE \/ ForwardEvent \/ ForwardFails \/ ForwarderEnds
             \/ Cancel \/ Watchdog \/ Time \/ UNCHANGED vars
    BY <1>2, <2>4 DEF ForwardEvent, ForwardFails, ForwarderEnds, Cancel,
       Watchdog, Time, Tick, vars, callVars, envVars
  <2> QED
    BY <1>3, <2>1, <2>2, <2>3, <2>4
<1>4. CASE StartTools
  <2>1. /\ pc = "inputs" /\ UNCHANGED <<executed, verdict, permissionVars>>
        /\ at' = [c \in Calls |-> IF c \in InBatch THEN "begin" ELSE at[c]]
    BY <1>4 DEF StartTools, envVars
  <2>2. \A c \in InBatch : at[c] = "off"
    BY <2>1 DEF BatchFresh, BatchPlaces
  <2>3. ASSUME NEW c \in Calls PROVE VerdictOf(c)'
    <3>1. CASE c \in InBatch
      BY <2>1, <2>2, <3>1 DEF VerdictInv, VerdictOf, Unrun, Asked, permissionVars
    <3>2. CASE c \notin InBatch
      BY <2>1, <3>2, VerdictKept DEF VerdictInv, permissionVars
    <3> QED
      BY <3>1, <3>2
  <2> QED
    BY <2>3 DEF VerdictInv
<1>5. ASSUME NEW c \in Calls, CallActions(c) PROVE VerdictInv'
  <2>1. VerdictOf(c)'
    BY <1>5, VerdictMoves DEF VerdictInv
  <2>2. ASSUME NEW d \in Calls \ {c} PROVE VerdictOf(d)'
    <3>1. /\ at'[d] = at[d] /\ verdict' = verdict
          /\ d \in executed' <=> d \in executed
      BY <1>5, CallMoves DEF RunTypes
    <3>2. ASSUME NEW l \in Gates,
                 ToolGate(c, l) \/ ToolAnswered(c, l) \/ ToolGateCancelled(c, l)
          PROVE  /\ \A ph \in {Before, After} :
                      <<d, ph>> \in pending' => <<d, ph>> \in pending
                 /\ \/ reply'[d] = reply[d]
                    \/ pending' = {} /\ reply'[d] \notin Decisions
      BY <1>1, <3>2 DEF ToolGate, ToolAnswered, ToolGateCancelled, Register,
         Leave, LeaveDropping, permissionVars, Decisions
    <3>3. ASSUME UNCHANGED permissionVars
          PROVE  /\ \A ph \in {Before, After} :
                      <<d, ph>> \in pending' => <<d, ph>> \in pending
                 /\ reply'[d] = reply[d]
      BY <3>3 DEF permissionVars
    <3>4. \/ UNCHANGED permissionVars
          \/ \E l \in Gates : ToolGate(c, l) \/ ToolAnswered(c, l) \/ ToolGateCancelled(c, l)
      BY <1>5 DEF CallActions, ToolSteps, ToolBegin, ToolRejected, ToolExecuting,
         ToolProgress, ToolCancelled, ToolResult, ToolExecute, ToolEnds,
         ToolEmitFails, ToolReturned, ToolBlocked, ToolFails
    <3> QED
      BY <3>1, <3>2, <3>3, <3>4, VerdictKept DEF VerdictInv
  <2> QED
    BY <2>1, <2>2 DEF VerdictInv
<1>6. CASE Decides
  <2>1. PICK c \in Calls, ph \in {Before, After}, d \in Decisions :
          OperatorDecides(c, ph, d)
    BY <1>6 DEF Decides
  <2>2. /\ <<c, ph>> \in pending /\ pending' = pending \ {<<c, ph>>}
        /\ UNCHANGED <<at, executed>>
        /\ reply' = IF reply[c] = "open" THEN [reply EXCEPT ![c] = d] ELSE reply
        /\ verdict' = IF ph = Before THEN [verdict EXCEPT ![c] = d] ELSE verdict
    BY <2>1 DEF OperatorDecides, Resolve, callVars
  <2>3. ASSUME NEW b \in Calls \ {c} PROVE VerdictOf(b)'
    <3>1. verdict'[b] = verdict[b] /\ reply'[b] = reply[b]
      BY <1>1, <2>2
    <3> QED
      BY <2>2, <3>1, VerdictKept DEF VerdictInv
  <2>4. VerdictOf(c)
    BY DEF VerdictInv
  <2>5. /\ reply[c] = "open" => reply'[c] = d /\ at[c] \in Asked
        /\ reply[c] # "open" => reply'[c] = reply[c]
    BY <1>1, <2>2 DEF ClockInv, WaitsMatch
  <2>6. ASSUME ph = Before PROVE VerdictOf(c)'
    <3>1. c \notin executed /\ at[c] \in {"askedBefore", "endCancelled", "done"}
      BY <2>2, <2>4, <2>6 DEF VerdictOf
    <3>2. at[c] = "askedBefore" => reply[c] = "open"
      BY <2>2, <2>4 DEF VerdictOf, Asked
    <3>3. verdict'[c] = d /\ <<c, Before>> \notin pending'
      BY <1>1, <2>2, <2>6
    <3>4. <<c, After>> \in pending' => at[c] \in {"endCancelled", "done"}
      BY <2>2, <2>4, <3>1 DEF VerdictOf
    <3>5. /\ at'[c] = at[c] /\ c \notin executed' /\ d # "none"
          /\ <<c, Before>> \notin pending'
          /\ at[c] = "askedBefore" => reply'[c] = d
      BY <2>2, <2>5, <3>1, <3>2, <3>3 DEF Decisions
    <3>6. CASE at[c] = "askedBefore"
      BY <3>3, <3>4, <3>5, <3>6 DEF VerdictOf
    <3>7. CASE at[c] \in {"endCancelled", "done"}
      BY <3>5, <3>7 DEF VerdictOf, Asked
    <3> QED
      BY <3>1, <3>6, <3>7
  <2>7. ASSUME ph # Before PROVE VerdictOf(c)'
    <3>1. at[c] \in {"askedAfter", "endCancelled", "done"} /\ ph = After
      BY <2>2, <2>4, <2>7 DEF VerdictOf
    <3>2. verdict' = verdict /\ <<c, After>> \notin pending'
      BY <2>2, <2>7, <3>1
    <3>3. <<c, Before>> \in pending' => at[c] \in {"endCancelled", "done"} /\ c \notin executed
      BY <2>2, <2>4, <3>1 DEF VerdictOf
    <3>4. at'[c] = at[c] /\ executed' = executed
      BY <2>2
    <3>5. CASE at[c] = "askedAfter"
      <4>1. ~\E q \in {Before, After} : <<c, q>> \in pending'
        BY <3>2, <3>3, <3>5
      <4> QED
        BY <2>4, <3>2, <3>4, <3>5, <4>1 DEF VerdictOf, Unrun
    <3>6. CASE at[c] \in {"endCancelled", "done"}
      BY <2>4, <3>2, <3>3, <3>4, <3>6 DEF VerdictOf, Asked, Unrun
    <3> QED
      BY <3>1, <3>5, <3>6
  <2> QED
    BY <2>3, <2>6, <2>7 DEF VerdictInv
<1> QED
  BY <1>3, <1>4, <1>5, <1>6, RunSteps

LEMMA VerdictInvariant == Spec => []VerdictInv
<1>1. Init => VerdictInv
  BY DEF Init, InitPermissions, VerdictInv, VerdictOf, Asked, Unrun
<1> QED
  BY <1>1, VerdictStep, RunTypesInvariant, ClockInvariant, BatchFreshInvariant, PTL
  DEF Spec

(* A call whose execution the operator refused never ran, and never will:  *)
(* a refusal is acknowledged only while the call waits for it, or once its *)
(* future is past running.                                                 *)
THEOREM RefusedCallsNeverRun == Spec => []DeclinedNeverRuns
<1>1. RunTypes /\ VerdictInv => DeclinedNeverRuns
  BY DEF RunTypes, TypeOKCalls, VerdictInv, VerdictOf, Refusals, DeclinedNeverRuns
<1> QED
  BY <1>1, RunTypesInvariant, VerdictInvariant, PTL

-----------------------------------------------------------------------------
(* The end of the lifecycles. *)

(* The last update of a call is the last of its events in the queue, or is *)
(* journalled when none is left.                                           *)
JournalledCall(c) ==
  /\ \A i \in DOMAIN queue :
       queue[i].call = c /\ (\A j \in DOMAIN queue : j > i => queue[j].call # c)
         => queue[i].stage = stage[c]
  /\ (\A i \in DOMAIN queue : queue[i].call # c) => journal[c] = stage[c]

Journalled == \A c \in Calls : JournalledCall(c)

LEMMA JournalAppended ==
  ASSUME TypeOKEvents, NEW c \in Calls, JournalledCall(c), NEW e \in Events,
         queue' = Append(queue, e),
         stage'[c] = IF e.call = c THEN e.stage ELSE stage[c],
         journal'[c] = journal[c]
  PROVE  JournalledCall(c)'
<1> DEFINE n == Len(queue)
<1>1. /\ queue \in Seq(Events) /\ n \in Nat /\ DOMAIN queue = 1 .. n
      /\ queue' \in Seq(Events) /\ DOMAIN queue' = 1 .. n + 1
      /\ queue'[n + 1] = e
      /\ \A i \in 1 .. n : queue'[i] = queue[i]
  BY AppendProperties DEF TypeOKEvents
<1> HIDE DEF n
<1>2. ASSUME NEW i \in DOMAIN queue', queue'[i].call = c,
             \A j \in DOMAIN queue' : j > i => queue'[j].call # c
      PROVE  queue'[i].stage = stage'[c]
  <2>1. CASE e.call = c
    <3>1. i = n + 1
      BY <1>1, <1>2, <2>1
    <3> QED
      BY <1>1, <2>1, <3>1
  <2>2. CASE e.call # c
    <3>1. i \in 1 .. n
      BY <1>1, <1>2, <2>2
    <3>2. ASSUME NEW j \in DOMAIN queue, j > i PROVE queue[j].call # c
      BY <1>1, <1>2, <3>1, <3>2
    <3> QED
      BY <1>1, <1>2, <2>2, <3>1, <3>2 DEF JournalledCall
  <2> QED
    BY <2>1, <2>2
<1>3. ASSUME \A i \in DOMAIN queue' : queue'[i].call # c
      PROVE  journal'[c] = stage'[c]
  <2>1. e.call # c
    BY <1>1, <1>3
  <2>2. \A i \in DOMAIN queue : queue[i].call # c
    BY <1>1, <1>3
  <2> QED
    BY <2>1, <2>2 DEF JournalledCall
<1> QED
  BY <1>2, <1>3 DEF JournalledCall

LEMMA JournalForwarded ==
  ASSUME TypeOKEvents, NEW c \in Calls, JournalledCall(c),
         queue # <<>>, queue' = Tail(queue), stage'[c] = stage[c],
         journal'[c] = IF c = Head(queue).call THEN Head(queue).stage ELSE journal[c]
  PROVE  JournalledCall(c)'
<1> DEFINE n == Len(queue)
<1>1. /\ queue \in Seq(Events) /\ n \in Nat \ {0} /\ DOMAIN queue = 1 .. n
      /\ DOMAIN queue' = 1 .. n - 1
      /\ \A i \in 1 .. n - 1 : queue'[i] = queue[i + 1]
      /\ Head(queue) = queue[1]
  <2>1. queue \in Seq(Events) /\ Len(queue) \in Nat \ {0}
    BY EmptySeq DEF TypeOKEvents
  <2>2. /\ Tail(queue) \in Seq(Events) /\ Len(Tail(queue)) = Len(queue) - 1
        /\ \A i \in 1 .. Len(queue) - 1 : Tail(queue)[i] = queue[i + 1]
        /\ Head(queue) = queue[1]
    BY <2>1, HeadTailProperties
  <2> QED
    BY <2>1, <2>2
<1> HIDE DEF n
<1>2. ASSUME NEW i \in DOMAIN queue', queue'[i].call = c,
             \A j \in DOMAIN queue' : j > i => queue'[j].call # c
      PROVE  queue'[i].stage = stage'[c]
  <2>1. i + 1 \in DOMAIN queue /\ queue'[i] = queue[i + 1]
    BY <1>1
  <2>2. ASSUME NEW j \in DOMAIN queue, j > i + 1 PROVE queue[j].call # c
    <3>1. j - 1 \in DOMAIN queue' /\ j - 1 > i /\ queue'[j - 1] = queue[j]
      BY <1>1, <2>2
    <3> QED
      BY <1>2, <3>1
  <2> QED
    BY <1>2, <2>1, <2>2 DEF JournalledCall
<1>3. ASSUME \A i \in DOMAIN queue' : queue'[i].call # c
      PROVE  journal'[c] = stage'[c]
  <2>1. ASSUME NEW j \in DOMAIN queue, j > 1 PROVE queue[j].call # c
    <3>1. j - 1 \in DOMAIN queue' /\ queue'[j - 1] = queue[j]
      BY <1>1, <2>1
    <3> QED
      BY <1>3, <3>1
  <2>2. CASE Head(queue).call = c
    <3>1. 1 \in DOMAIN queue /\ queue[1].call = c
      BY <1>1, <2>2
    <3> QED
      BY <1>1, <2>1, <2>2, <3>1 DEF JournalledCall
  <2>3. CASE Head(queue).call # c
    <3>1. \A j \in DOMAIN queue : queue[j].call # c
      BY <1>1, <2>1, <2>3
    <3> QED
      BY <2>3, <3>1 DEF JournalledCall
  <2> QED
    BY <2>2, <2>3
<1> QED
  BY <1>2, <1>3 DEF JournalledCall

LEMMA JournalStep ==
  ASSUME TypeOKEvents, Journalled, [EventNext]_eventVars, ~ForwarderFails
  PROVE  Journalled'
<1>1. ASSUME NEW c \in Calls, NEW s \in Stages \ {"none"}, Emit(c, s), NEW d \in Calls
      PROVE  JournalledCall(d)'
  <2>1. CASE forwarder = "running"
    <3> DEFINE e == [call |-> c, stage |-> s]
    <3>1. /\ e \in Events /\ queue' = Append(queue, e) /\ journal' = journal
          /\ e.call = c /\ e.stage = s
      BY <1>1, <2>1 DEF Emit, Events
    <3>2. stage'[d] = IF e.call = d THEN e.stage ELSE stage[d]
      BY <1>1, <2>1 DEF Emit, TypeOKEvents
    <3> HIDE DEF e
    <3> QED
      BY <3>1, <3>2, JournalAppended DEF Journalled
  <2>2. CASE forwarder # "running"
    BY <1>1, <2>2 DEF Emit, Journalled, JournalledCall
  <2> QED
    BY <2>1, <2>2
<1>2. ASSUME NEW n \in Plain, Publish(n), NEW d \in Calls
      PROVE  JournalledCall(d)'
  <2>1. CASE forwarder = "running"
    <3> DEFINE e == [call |-> "none", stage |-> n]
    <3>1. /\ e \in Events /\ queue' = Append(queue, e)
          /\ journal' = journal /\ stage' = stage /\ e.call # d
      BY <1>2, <2>1, RunAssumption DEF Publish, Events, Plain
    <3> HIDE DEF e
    <3> QED
      BY <3>1, JournalAppended DEF Journalled
  <2>2. CASE forwarder # "running"
    BY <1>2, <2>2 DEF Publish, Journalled, JournalledCall
  <2> QED
    BY <2>1, <2>2
<1>3. ASSUME Forward(InBatch), NEW d \in Calls PROVE JournalledCall(d)'
  <2>1. /\ queue # <<>> /\ queue' = Tail(queue) /\ stage' = stage
        /\ journal'[d] = IF d = Head(queue).call THEN Head(queue).stage ELSE journal[d]
    BY <1>3 DEF Forward
  <2> QED
    BY <2>1, JournalForwarded DEF Journalled
<1>4. ASSUME UNCHANGED <<queue, stage, journal>>, NEW d \in Calls
      PROVE  JournalledCall(d)'
  BY <1>4 DEF Journalled, JournalledCall
<1> QED
  BY <1>1, <1>2, <1>3, <1>4 DEF EventNext, ForwarderFinishes, eventVars, Journalled

(* The places in which the loop may have calls that are not closed. *)
OpenPlaces == {"streaming", "cancelling", "response", "afterCall", "inputs", "tools"}

Closing == {"closing", "framed", "done"}

(* Outside the batch that the loop works on every call is closed, and so is *)
(* each call whose future came to its end; only a lost update, which the    *)
(* history notes, breaks this.                                              *)
AllClosed ==
  /\ pc \notin Closing => forwarder = "running"
  /\ Journalled
  /\ \A c \in Calls : pc \notin OpenPlaces \/ c \notin InBatch => ~Unclosed(c)
  /\ \A c \in Calls : at[c] \in Ends => stage[c] \in Terminal

CloseInv ==
  /\ \A c \in Calls : receipt[c] = "err" => broken
  /\ ~broken => AllClosed

LEMMA BrokenStays ==
  ASSUME RunTypes, [Next]_vars, broken
  PROVE  broken'
<1>1. CASE LoopActions
  BY <1>1, LoopLeavesRest DEF envVars
<1>2. ASSUME NEW c \in Calls, CallActions(c) PROVE broken'
  BY <1>2, CallMoves DEF RunTypes
<1>3. CASE ItemRejected \/ StartTools \/ JoinTools \/ Cleanup
  BY <1>3 DEF ItemRejected, StartTools, JoinTools, Cleanup, KeepRest, envVars
<1>4. CASE SideActions \/ UNCHANGED vars
  BY <1>4 DEF SideActions, ForwardEvent, ForwardFails, ForwarderEnds, Cancel,
     Watchdog, Time, Decides, OperatorDecides, RivalActions, RivalStarts,
     RivalDropsWaits, RivalEnds, envVars, vars
<1> QED
  BY <1>1, <1>2, <1>3, <1>4, RunSteps DEF SideActions

LEMMA ClosingStays ==
  ASSUME RunTypes, [Next]_vars, pc \in Closing
  PROVE  pc' \in Closing /\ ~\E c \in Calls : LoopUpdates(c) \/ CallActions(c)
<1> USE DEF Closing
<1>1. ~\E c \in Calls : LoopUpdates(c) \/ CallActions(c)
  BY CallMoves DEF RunTypes, LoopUpdates, CancelNext, InputReady, ToolCallStart,
     ToolCallArgumentsDelta, Streaming
<1>2. CASE LoopActions
  BY <1>1, <1>2 DEF LoopActions, LoopUpdates, Streaming, BeforeAgentStart,
     TopCancelled, NextIteration, StreamCancelled, LoopEmitFails,
     CancelledStarted, RetryDelay, ReserveBatch, AfterCallCancelled, Answer,
     Barrier, CompactionCancelled, TakeForwarder, ProviderItemUpdate,
     StreamDone, MalformedRetry, AutoContinue, AfterCallBlocked, Compacted,
     CompactionFails, StreamFailed
<1>3. CASE ItemRejected \/ StartTools \/ JoinTools \/ Cleanup
  BY <1>1, <1>3 DEF ItemRejected, StartTools, JoinTools, Cleanup, Streaming
<1>4. CASE UNCHANGED loopVars
  BY <1>1, <1>4 DEF loopVars
<1> QED
  BY <1>1, <1>2, <1>3, <1>4, RunSteps, SideLeavesRun DEF SideActions

(* An update meets a forwarder that is gone only in a broken run. *)
LEMMA RefusedUpdates ==
  ASSUME RunTypes, CloseInv, [Next]_vars, NEW c \in Calls, receipt'[c] = "err"
  PROVE  broken'
<1>1. CASE receipt[c] = "err"
  BY <1>1, BrokenStays DEF CloseInv
<1>2. CASE forwarder # "running" /\ pc \notin Closing
  BY <1>2, BrokenStays DEF CloseInv, AllClosed
<1>3. CASE ForwardFails
  BY <1>3 DEF ForwardFails
<1>4. ASSUME receipt[c] # "err", ~ForwardFails PROVE forwarder # "running" /\ pc \notin Closing
  <2>1. ASSUME NEW d \in Calls, NEW s \in Stages \ {"none"}, Emit(d, s)
        PROVE  forwarder # "running"
    BY <1>4, <2>1 DEF Emit, RunTypes, TypeOKEvents
  <2>2. ASSUME ~\E d \in Calls : LoopUpdates(d) \/ CallActions(d) PROVE FALSE
    <3>1. CASE LoopActions
      BY <1>4, <2>2, <3>1 DEF LoopActions, LoopUpdates, BeforeAgentStart,
         TopCancelled, NextIteration, StreamCancelled, LoopEmitFails,
         CancelledStarted, RetryDelay, ReserveBatch, AfterCallCancelled, Answer,
         Barrier, CompactionCancelled, TakeForwarder, ProviderItemUpdate,
         StreamDone, MalformedRetry, AutoContinue, AfterCallBlocked, Compacted,
         CompactionFails, StreamFailed, Publish, eventVars
    <3>2. CASE ItemRejected \/ StartTools \/ JoinTools \/ Cleanup
      BY <1>4, <3>2 DEF ItemRejected, StartTools, JoinTools, Cleanup, eventVars
    <3>3. CASE ForwardEvent \/ ForwarderEnds
      BY <1>4, <3>3 DEF ForwardEvent, ForwarderEnds, Forward, Answered,
         ForwarderFinishes
    <3>4. CASE Cancel \/ Watchdog \/ Time \/ Decides \/ RivalActions \/ UNCHANGED vars
      BY <1>4, <3>4 DEF Cancel, Watchdog, Time, Decides, OperatorDecides,
         RivalActions, RivalStarts, RivalDropsWaits, RivalEnds, vars, eventVars
    <3> QED
      BY <1>4, <2>2, <3>1, <3>2, <3>3, <3>4, RunSteps
  <2>3. ASSUME NEW d \in Calls, LoopUpdates(d)
        PROVE  \E s \in Stages \ {"none"} : Emit(d, s)
    BY <2>3 DEF LoopUpdates, CancelNext, InputReady, ToolCallStart,
       ToolCallArgumentsDelta, Stages, Terminal
  <2>4. ASSUME UNCHANGED eventVars PROVE FALSE
    BY <1>4, <2>4 DEF eventVars
  <2> QED
    BY <2>1, <2>2, <2>3, <2>4, CallEvents, ClosingStays
<1> QED
  BY <1>1, <1>2, <1>3, <1>4

(* What the loop does to the calls of its batch: it goes on with an open    *)
(* batch only where it may, and leaves one only when it is closed.          *)
LEMMA LoopCloses ==
  ASSUME RunTypes, BatchFresh, CloseInv, ~broken, LoopActions
  PROVE  \A c \in Calls :
           pc' \notin OpenPlaces \/ c \notin InBatch' => stage'[c] \in Terminal \cup {"none"}
<1> DEFINE Goal == \A c \in Calls : pc' \notin OpenPlaces \/ c \notin InBatch' =>
                                    stage'[c] \in Terminal \cup {"none"}
<1>1. \A c \in Calls : pc \notin OpenPlaces \/ c \notin InBatch =>
                         stage[c] \in Terminal \cup {"none"}
  BY DEF CloseInv, AllClosed, Unclosed
<1>2. ASSUME NEW c \in Calls, LoopUpdates(c) PROVE Goal
  <2>1. /\ pc' = pc /\ pc \in OpenPlaces
        /\ \A d \in Calls \ {c} : stage'[d] = stage[d]
        /\ c \in InBatch'
    BY <1>2, LoopUpdateStage DEF BatchPlaces, OpenPlaces, InBatch
  <2>2. InBatch \subseteq InBatch'
    <3>1. CASE batch' = batch
      BY <3>1 DEF InBatch
    <3>2. CASE batch' = Append(batch, c)
      <4>1. batch \in Seq(Calls)
        BY DEF RunTypes, TypeOKLoop
      <4>2. ASSUME NEW i \in DOMAIN batch PROVE batch[i] \in InBatch'
        BY <3>2, <4>1, <4>2, AppendProperties DEF InBatch
      <4> QED
        BY <4>2 DEF InBatch
    <3> QED
      BY <1>2, <3>1, <3>2, LoopUpdateStage
  <2> QED
    BY <1>1, <2>1, <2>2
<1>3. ASSUME ~\E c \in Calls : LoopUpdates(c) PROVE Goal
  <2>1. stage' = stage
    BY <1>3, LoopMoves
  <2>2. CASE pc \notin OpenPlaces
    BY <1>1, <2>1, <2>2
  <2>3. CASE batch = <<>>
    <3>1. InBatch = {}
      BY <2>3 DEF InBatch
    <3> QED
      BY <1>1, <2>1, <3>1
  <2>4. CASE CancelledStarted
    <3>1. \A c \in InBatch : stage[c] \in Terminal \cup {"none"}
      BY <2>4 DEF CancelledStarted, Unclosed
    <3> QED
      BY <1>1, <2>1, <3>1
  <2>5. CASE LoopEmitFails
    <3>1. InBatch \subseteq Calls
      BY BatchCalls DEF RunTypes, TypeOKLoop
    <3> QED
      BY <2>5, <3>1 DEF LoopEmitFails, EmitFailed, CloseInv
  <2>6. ASSUME batch' = batch, pc' \in OpenPlaces, pc \in OpenPlaces PROVE Goal
    <3>1. InBatch' = InBatch
      BY <2>6 DEF InBatch
    <3> QED
      BY <1>1, <2>1, <2>6, <3>1
  <2>7. CASE NextIteration
    BY <1>1, <2>1, <2>7 DEF NextIteration, OpenPlaces
  <2>8. ASSUME pc \in OpenPlaces, batch # <<>>, ~CancelledStarted, ~LoopEmitFails,
               ~NextIteration
        PROVE  pc' \in OpenPlaces /\ batch' = batch
    <3>1. batch' = batch
      BY <1>3, <2>8, LoopMoves
    <3>2. CASE StreamDone
      BY <3>1, <3>2 DEF StreamDone, OpenPlaces
    <3>3. CASE ~StreamDone
      BY <1>3, <2>8, <3>1, <3>3 DEF LoopActions, LoopUpdates, BeforeAgentStart,
         TopCancelled, StreamCancelled, RetryDelay, ReserveBatch,
         AfterCallCancelled, Answer, Barrier, CompactionCancelled,
         TakeForwarder, ProviderItemUpdate, MalformedRetry, AutoContinue,
         AfterCallBlocked, Compacted, CompactionFails, StreamFailed,
         OpenPlaces, Return, Stay, CancelStarted, Streaming
    <3> QED
      BY <3>2, <3>3
  <2> QED
    BY <2>2, <2>3, <2>4, <2>5, <2>6, <2>7, <2>8
<1> QED
  BY <1>2, <1>3

(* Only the forwarder's own steps change what it does. *)
LEMMA ForwarderMoves ==
  ASSUME [Next]_vars
  PROVE  UNCHANGED forwarder \/ ForwardFails \/ ForwarderEnds
<1>1. ASSUME NEW c \in Calls, LoopUpdates(c) \/ CallActions(c)
      PROVE  UNCHANGED forwarder
  <2>1. ASSUME NEW s \in Stages \ {"none"}, Emit(c, s) PROVE UNCHANGED forwarder
    BY <2>1 DEF Emit
  <2>2. CASE LoopUpdates(c)
    BY <2>2 DEF LoopUpdates, CancelNext, InputReady, ToolCallStart,
       ToolCallArgumentsDelta, Emit
  <2>3. CASE CallActions(c)
    BY <2>1, <2>3, CallEvents DEF eventVars
  <2> QED
    BY <1>1, <2>2, <2>3
<1>2. CASE LoopActions /\ ~\E c \in Calls : LoopUpdates(c)
  BY <1>2 DEF LoopActions, LoopUpdates, BeforeAgentStart, TopCancelled,
     NextIteration, StreamCancelled, LoopEmitFails, CancelledStarted, RetryDelay,
     ReserveBatch, AfterCallCancelled, Answer, Barrier, CompactionCancelled,
     TakeForwarder, ProviderItemUpdate, StreamDone, MalformedRetry, AutoContinue,
     AfterCallBlocked, Compacted, CompactionFails, StreamFailed, Publish, eventVars
<1>3. CASE ItemRejected \/ StartTools \/ JoinTools \/ Cleanup
  BY <1>3 DEF ItemRejected, StartTools, JoinTools, Cleanup, eventVars
<1>4. CASE ForwardEvent \/ Cancel \/ Watchdog \/ Time \/ Decides
           \/ RivalActions \/ UNCHANGED vars
  BY <1>4 DEF ForwardEvent, Forward, Cancel, Watchdog, Time, Decides,
     OperatorDecides, RivalActions, RivalStarts, RivalDropsWaits, RivalEnds,
     vars, eventVars
<1> QED
  BY <1>1, <1>2, <1>3, <1>4, RunSteps

LEMMA CloseStep ==
  ASSUME RunTypes, StageInv, BatchFresh, CloseInv, [Next]_vars
  PROVE  CloseInv'
<1>1. \A c \in Calls : receipt'[c] = "err" => broken'
  BY RefusedUpdates
<1>2. SUFFICES ASSUME ~broken' PROVE AllClosed'
  BY <1>1 DEF CloseInv
<1>3. ~broken /\ AllClosed
  BY <1>2, BrokenStays DEF CloseInv
<1>4. Journalled'
  <2>1. ASSUME ForwarderFails PROVE FALSE
    <3>1. forwarder = "running" /\ forwarder' = "failed" /\ queue # <<>>
      BY <2>1 DEF ForwarderFails
    <3>2. ~ForwarderEnds
      BY <3>1 DEF ForwarderEnds, ForwarderFinishes
    <3>3. ~ForwardFails
      BY <1>2 DEF ForwardFails
    <3> QED
      BY <3>1, <3>2, <3>3, ForwarderMoves
  <2> QED
    BY <1>3, <2>1, EventSteps, JournalStep DEF RunTypes, AllClosed
<1>5. pc' \notin Closing => forwarder' = "running"
  <2>1. ASSUME pc' \notin Closing PROVE pc \notin Closing
    BY <2>1, ClosingStays
  <2>2. ASSUME pc \notin Closing PROVE UNCHANGED forwarder
    BY <1>2, <2>2, ForwarderMoves DEF ForwardFails, ForwarderEnds, Closing
  <2> QED
    BY <1>3, <2>1, <2>2 DEF AllClosed
<1>6. ASSUME NEW c \in Calls, at'[c] \in Ends PROVE stage'[c] \in Terminal
  <2>1. CASE at[c] \in Ends
    <3>1. stage[c] \in Terminal
      BY <1>3, <2>1 DEF AllClosed
    <3> QED
      BY <3>1, StageSteps, LoopUpdateStage, CallStages
  <2>2. CASE at[c] \notin Ends
    <3>1. CallActions(c)
      <4>1. at'[c] # at[c]
        BY <1>6, <2>2
      <4>2. CASE StartTools
        BY <1>6, <2>2, <4>2 DEF StartTools, Ends
      <4>3. CASE LoopActions \/ ItemRejected \/ JoinTools \/ Cleanup
        BY <4>1, <4>3, LoopLeavesRest DEF ItemRejected, JoinTools, Cleanup,
           KeepRest, callVars
      <4>4. ASSUME NEW d \in Calls \ {c}, CallActions(d) PROVE FALSE
        BY <4>1, <4>4, CallMoves DEF RunTypes
      <4>5. CASE UNCHANGED callVars
        BY <4>1, <4>5 DEF callVars
      <4> QED
        BY <4>2, <4>3, <4>4, <4>5, RunSteps, SideLeavesRun DEF SideActions
    <3>2. forwarder = "running"
      BY <1>3, <3>1, CallMoves DEF AllClosed, RunTypes, Closing
    <3>3. receipt[c] # "err"
      BY <1>3 DEF CloseInv
    <3> QED
      BY <1>2, <1>6, <2>2, <3>1, <3>2, <3>3, CallStages
  <2> QED
    BY <2>1, <2>2
<1>7. ASSUME NEW c \in Calls, pc' \notin OpenPlaces \/ c \notin InBatch'
      PROVE  stage'[c] \in Terminal \cup {"none"}
  <2>1. pc \notin OpenPlaces \/ c \notin InBatch => stage[c] \in Terminal \cup {"none"}
    BY <1>3 DEF AllClosed, Unclosed
  <2>2. CASE LoopActions
    BY <1>3, <1>7, <2>2, LoopCloses
  <2>3. CASE ItemRejected
    BY <1>2, <2>3 DEF ItemRejected
  <2>4. CASE StartTools
    <3>1. pc \in OpenPlaces /\ pc' \in OpenPlaces /\ stage' = stage /\ InBatch' = InBatch
      BY <2>4 DEF StartTools, OpenPlaces, KeepLoop, InBatch, eventVars
    <3> QED
      BY <1>7, <2>1, <3>1
  <2>5. CASE JoinTools
    <3>1. stage' = stage /\ \A d \in InBatch : at[d] = "done"
      BY <2>5 DEF JoinTools, eventVars
    <3>2. c \in InBatch => stage[c] \in Terminal
      BY <1>3, <3>1 DEF AllClosed, Ends
    <3> QED
      BY <2>1, <3>1, <3>2
  <2>6. CASE Cleanup
    <3>1. pc = "framed" /\ stage' = stage
      BY <2>6 DEF Cleanup
    <3> QED
      BY <2>1, <3>1 DEF OpenPlaces
  <2>7. ASSUME NEW d \in Calls, CallActions(d)
        PROVE  stage'[c] \in Terminal \cup {"none"}
    <3>1. /\ pc = "tools" /\ at[d] \notin {"off", "done"} /\ UNCHANGED loopVars
      BY <2>7, CallMoves DEF RunTypes
    <3>2. pc' \in OpenPlaces /\ InBatch' = InBatch /\ d \in InBatch
      BY <3>1 DEF OpenPlaces, InBatch, loopVars, RunTypes, CallsPlaced
    <3>3. c # d /\ c \notin InBatch
      BY <1>7, <3>2
    <3> QED
      BY <2>1, <2>7, <3>3, CallStages
  <2>8. CASE UNCHANGED <<stage, loopVars>>
    BY <1>7, <2>1, <2>8 DEF loopVars, InBatch
  <2>9. ASSUME SideActions \/ UNCHANGED vars PROVE UNCHANGED <<stage, loopVars>>
    <3>1. UNCHANGED stage
      BY <2>9 DEF SideActions, ForwardEvent, ForwardFails, ForwarderEnds, Forward,
         ForwarderFails, ForwarderFinishes, Cancel, Watchdog, Time, Decides,
         OperatorDecides, RivalActions, RivalStarts, RivalDropsWaits, RivalEnds,
         vars, eventVars
    <3> QED
      BY <2>9, <3>1, SideLeavesRun
  <2> QED
    BY <2>2, <2>3, <2>4, <2>5, <2>6, <2>7, <2>8, <2>9, RunSteps DEF SideActions
<1> QED
  BY <1>4, <1>5, <1>6, <1>7 DEF AllClosed, Unclosed

LEMMA CloseInvariant == Spec => []CloseInv
<1>1. Init => CloseInv
  BY DEF Init, InitEvents, CloseInv, AllClosed, Journalled, JournalledCall,
     Unclosed, InBatch, Ends
<1> QED
  BY <1>1, CloseStep, RunTypesInvariant, BatchFreshInvariant, PTL DEF Spec

(* However a run ends and wherever it was cancelled, every call it announced *)
(* has its terminal update, and the journal has it, unless an update was     *)
(* lost to one of the faults the history notes.                              *)
THEOREM LifecyclesAreClosed == Spec => []LifecyclesClose
<1>1. ASSUME RunTypes, CloseInv, FramesFollowEvents PROVE LifecyclesClose
  <2>1. SUFFICES ASSUME Ended, ~broken, NEW c \in Calls
                 PROVE  stage[c] \in Terminal \cup {"none"} /\ journal[c] = stage[c]
    BY DEF LifecyclesClose
  <2>2. pc \notin OpenPlaces /\ queue = <<>>
    BY <1>1, <2>1 DEF Ended, OpenPlaces, FramesFollowEvents
  <2>3. ~Unclosed(c) /\ JournalledCall(c)
    BY <1>1, <2>1, <2>2 DEF CloseInv, AllClosed, Journalled
  <2> QED
    BY <2>2, <2>3 DEF Unclosed, JournalledCall
<1> QED
  BY <1>1, RunTypesInvariant, CloseInvariant, FramesComeLast, PTL
=============================================================================
