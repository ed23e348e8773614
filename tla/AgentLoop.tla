------------------------------ MODULE AgentLoop ------------------------------
(***************************************************************************)
(* One agent run: the streaming loop of crates/agents/src/runner, its tool *)
(* executor, the permission waits and the timeout of the run, the event    *)
(* forwarder that journals it, automatic compaction, and the cleanup at    *)
(* the end of the run.                                                     *)
(*                                                                         *)
(* The loop, the watchdog and the tool futures of a batch are polled by    *)
(* one task: a step is what one of them does between two awaits.  A second *)
(* run of the same session (chat.send_sync takes no permit) is `rival'; it *)
(* meets this run only in the maps that are keyed by session.              *)
(***************************************************************************)
EXTENDS ToolPermissions, RunEvents

VARIABLES pc,             \* where the loop is
          batch,          \* tool_calls of the current response
          andThen,        \* what follows the cancellation of started calls
          token,          \* the run's cancellation token
          timedOut,       \* the watchdog fired
          used,           \* ToolCallBudget.used
          retries,        \* retries left, by kind of provider error
          nudges,         \* auto-continues and one-time retries taken
          segment,        \* a provider segment is open
          updates, compactions,   \* counts, for the bounds
          at,             \* where the future of a tool call is
          ret,            \* what it returned
          executed,       \* calls whose implementation was started
          verdict,        \* the operator's acknowledged decision on execution
          outcome,        \* result of the run
          rival,          \* the other run of the session
          broken          \* history: an update was lost to a fault

loopVars == <<pc, batch, andThen, used, retries, nudges, segment, updates,
              compactions, outcome>>
callVars == <<at, ret, executed>>
envVars == <<token, timedOut, verdict, rival, broken>>
vars == <<permissionVars, clockVars, eventVars, loopVars, callVars, envVars>>

InBatch == {batch[i] : i \in DOMAIN batch}

FullRetries == [server |-> ServerRetries, unknown |-> UnknownRetries,
                rate |-> RateRetries]
NoNudges == [auto |-> 0, emptyName |-> FALSE, malformed |-> FALSE]

Init ==
  /\ InitPermissions
  /\ InitEvents
  /\ pc = "start"
  /\ batch = <<>>
  /\ andThen = "none"
  /\ token = FALSE
  /\ timedOut = FALSE
  /\ used = 0
  /\ retries = FullRetries
  /\ nudges = NoNudges
  /\ segment = FALSE
  /\ updates = 0
  /\ compactions = 0
  /\ at = [c \in Calls |-> "off"]
  /\ ret = [c \in Calls |-> "none"]
  /\ executed = {}
  /\ verdict = [c \in Calls |-> "none"]
  /\ outcome = "none"
  /\ rival \in IF "rival" \in Faults THEN {"none", "running"} ELSE {"none"}
  /\ broken = FALSE

-----------------------------------------------------------------------------
(* Control of the loop. *)

(* The loop returns: its senders are dropped and the forwarder is awaited. *)
Return(o) ==
  /\ pc' = "closing"
  /\ outcome' = IF timedOut THEN "error" ELSE o

Stay == UNCHANGED outcome
KeepLoop == UNCHANGED <<batch, andThen, used, retries, nudges, segment, updates,
                        compactions>>
KeepRest == UNCHANGED <<permissionVars, clockVars, callVars, envVars>>

(* Dispatched at the start of every loop segment. *)
BeforeAgentStart ==
  /\ pc = "start"
  /\ \/ token /\ Return("cancelled")
     \/ ~token /\ pc' = "top" /\ Stay
     \/ "hook" \in Faults /\ ~token /\ Return("error")
  /\ KeepLoop /\ KeepRest /\ UNCHANGED eventVars

(* The top of the loop up to the provider call: the schemas could not be   *)
(* read or a hook blocked the call, the context is due for a checkpoint,   *)
(* or a stream is opened.                                                  *)
TopCancelled ==
  /\ pc = "top" /\ token
  /\ Return("cancelled")
  /\ KeepLoop /\ KeepRest /\ UNCHANGED eventVars

NextIteration ==
  /\ pc = "top" /\ ~token
  /\ Publish("iteration")
  /\ \/ pc' = "streaming" /\ Stay
     \/ compactions < MaxCompactions /\ pc' = "barrier" /\ Stay
     \/ "hook" \in Faults /\ Return("error")
  /\ batch' = <<>>
  /\ UNCHANGED <<andThen, used, retries, nudges, segment, updates, compactions>>
  /\ KeepRest

-----------------------------------------------------------------------------
(* The provider stream.  The select is biased: no event is taken once the  *)
(* token is cancelled.  A lifecycle update is awaited inside the loop.     *)

Settled == \A c \in InBatch : receipt[c] \in {"none", "ok"}

EmitFailed == \E c \in InBatch : receipt[c] = "err"

Streaming == pc = "streaming" /\ Settled

ToolCallStart(c) ==
  /\ Streaming /\ ~token
  /\ stage[c] = "none"
  /\ Emit(c, "created")
  /\ batch' = Append(batch, c)
  /\ UNCHANGED <<pc, andThen, used, retries, nudges, segment, updates,
                 compactions, outcome>>
  /\ KeepRest

ToolCallArgumentsDelta(c) ==
  /\ Streaming /\ ~token
  /\ c \in InBatch /\ stage[c] = "created"
  /\ Emit(c, "input_streaming")
  /\ UNCHANGED loopVars /\ KeepRest

(* SegmentStart with the first update of the segment, then more updates. *)
ProviderItemUpdate ==
  /\ Streaming /\ ~token
  /\ updates < MaxUpdates
  /\ Publish("update")
  /\ segment' = TRUE
  /\ updates' = updates + 1
  /\ UNCHANGED <<pc, batch, andThen, used, retries, nudges, compactions, outcome>>
  /\ KeepRest

(* The materializer rejects an update or a close: the started calls are    *)
(* left as they are.                                                       *)
ItemRejected ==
  /\ Streaming /\ ~token
  /\ "provider" \in Faults
  /\ Return("error")
  /\ broken' = TRUE
  /\ KeepLoop
  /\ UNCHANGED <<permissionVars, clockVars, eventVars, callVars, token,
                 timedOut, verdict, rival>>

(* cancel_stream_tool_lifecycles, then what its caller does. *)
CancelStarted(next) ==
  /\ pc' = "cancelling"
  /\ andThen' = next
  /\ Stay

StreamCancelled ==
  /\ Streaming /\ token
  /\ CancelStarted("cancelled")
  /\ UNCHANGED <<batch, used, retries, nudges, segment, updates, compactions,
                 eventVars>>
  /\ KeepRest

(* next_retry_delay_ms: the retries a kind of error has left.  A billing   *)
(* or terminal error has none.                                             *)
RetryKinds == {"server", "rate", "unknown", "terminal"}

(* Mutant: a rate-limit error never runs out of retries. *)
StreamFailedEndlessly(k) ==
  /\ Streaming /\ ~token
  /\ IF k # "terminal" /\ (retries[k] > 0 \/ k = "rate")
       THEN /\ CancelStarted("retry")
            /\ retries' = IF k = "rate" THEN retries
                                        ELSE [retries EXCEPT ![k] = @ - 1]
       ELSE /\ CancelStarted("error")
            /\ UNCHANGED retries
  /\ UNCHANGED <<batch, used, nudges, segment, updates, compactions, eventVars>>
  /\ KeepRest

(* An Error event, a stream that ended without Done, or an empty first     *)
(* response (an error of unknown kind).                                    *)
StreamFailed(k) ==
  /\ Streaming /\ ~token
  /\ IF k # "terminal" /\ retries[k] > 0
       THEN /\ CancelStarted("retry")
            /\ retries' = [retries EXCEPT ![k] = @ - 1]
       ELSE /\ CancelStarted("error")
            /\ UNCHANGED retries
  /\ UNCHANGED <<batch, used, nudges, segment, updates, compactions, eventVars>>
  /\ KeepRest

(* Done: the segment is closed and the transient retries are restored.  In *)
(* text mode the calls are parsed from the text and were not announced.    *)
StreamDone ==
  /\ Streaming /\ ~token
  /\ pc' = "response"
  /\ retries' = [retries EXCEPT !.server = ServerRetries,
                                !.unknown = UnknownRetries]
  /\ segment' = FALSE
  /\ IF segment THEN Publish("close") ELSE UNCHANGED eventVars
  /\ \/ batch' = batch
     \/ \E c \in Calls : batch = <<>> /\ stage[c] = "none" /\ batch' = <<c>>
  /\ UNCHANGED <<andThen, used, nudges, updates, compactions, outcome>>
  /\ KeepRest

(* A lifecycle update of the loop itself was refused or lost. *)
LoopEmitFails ==
  /\ pc \in {"streaming", "cancelling", "inputs"}
  /\ EmitFailed
  /\ Return("error")
  /\ KeepLoop /\ KeepRest /\ UNCHANGED eventVars

-----------------------------------------------------------------------------
(* cancel_stream_tool_lifecycles: one Cancelled update after the other for *)
(* the calls that were announced.                                          *)

Unclosed(c) == stage[c] \notin Terminal \cup {"none"}

(* The first call of the batch that satisfies P, if c is it. *)
FirstUnclosed(c) ==
  \E i \in DOMAIN batch :
    /\ batch[i] = c /\ Unclosed(c)
    /\ \A j \in 1 .. i - 1 : ~Unclosed(batch[j])

CancelNext(c) ==
  /\ pc = "cancelling" /\ Settled
  /\ FirstUnclosed(c)
  /\ Emit(c, "cancelled")
  /\ UNCHANGED loopVars /\ KeepRest

(* Mutant: another attempt forgets the calls of the one before. *)
CancelledStartedEarly ==
  /\ pc = "cancelling" /\ Settled
  /\ andThen \in {"retry", "again"} \/ \A c \in InBatch : ~Unclosed(c)
  /\ IF segment THEN Publish("close") ELSE UNCHANGED eventVars
  /\ segment' = FALSE
  /\ CASE andThen = "retry" -> pc' = "sleeping" /\ Stay
       [] andThen = "again" -> pc' = "top" /\ Stay
       [] OTHER -> Return(andThen)
  /\ UNCHANGED <<batch, andThen, used, retries, nudges, updates, compactions>>
  /\ KeepRest

CancelledStarted ==
  /\ pc = "cancelling" /\ Settled
  /\ \A c \in InBatch : ~Unclosed(c)
  /\ IF segment THEN Publish("close") ELSE UNCHANGED eventVars
  /\ segment' = FALSE
  /\ CASE andThen = "retry" -> pc' = "sleeping" /\ Stay
       [] andThen = "again" -> pc' = "top" /\ Stay
       [] OTHER -> Return(andThen)
  /\ UNCHANGED <<batch, andThen, used, retries, nudges, updates, compactions>>
  /\ KeepRest

RetryDelay ==
  /\ pc = "sleeping"
  /\ IF token THEN Return("cancelled") ELSE pc' = "top" /\ Stay
  /\ KeepLoop /\ KeepRest /\ UNCHANGED eventVars

-----------------------------------------------------------------------------
(* A complete response. *)

(* Text that looks like a failed tool call is sent back once. *)
MalformedRetry ==
  /\ pc = "response"
  /\ batch = <<>> /\ ~nudges.malformed
  /\ nudges' = [nudges EXCEPT !.malformed = TRUE]
  /\ pc' = "top"
  /\ UNCHANGED <<batch, andThen, used, retries, segment, updates, compactions,
                 outcome, eventVars>>
  /\ KeepRest

(* ToolCallBudget::reserve_batch takes the whole batch or fails the run.   *)
(* A batch whose calls all have an empty name is asked for again once.     *)
ReserveBatch ==
  /\ pc = "response"
  /\ IF used + Len(batch) > MaxTools
       THEN CancelStarted("error") /\ UNCHANGED <<used, nudges>>
       ELSE /\ used' = used + Len(batch)
            /\ \/ pc' = "afterCall" /\ UNCHANGED <<andThen, nudges, outcome>>
               \/ /\ batch # <<>> /\ ~nudges.emptyName
                  /\ nudges' = [nudges EXCEPT !.emptyName = TRUE]
                  /\ CancelStarted("again")
  /\ UNCHANGED <<batch, retries, segment, updates, compactions, eventVars>>
  /\ KeepRest

(* The AfterLLMCall hook, then the tools, another round or the answer. *)
AfterCallCancelled ==
  /\ pc = "afterCall" /\ token
  /\ CancelStarted("cancelled")
  /\ UNCHANGED <<batch, used, retries, nudges, segment, updates, compactions,
                 eventVars>>
  /\ KeepRest

AfterCallBlocked ==
  /\ pc = "afterCall" /\ ~token /\ "hook" \in Faults
  /\ CancelStarted("error")
  /\ UNCHANGED <<batch, used, retries, nudges, segment, updates, compactions,
                 eventVars>>
  /\ KeepRest

AutoContinue ==
  /\ pc = "afterCall" /\ ~token
  /\ batch = <<>> /\ used > 0 /\ nudges.auto < MaxAutoContinues
  /\ nudges' = [nudges EXCEPT !.auto = @ + 1]
  /\ pc' = "top"
  /\ UNCHANGED <<batch, andThen, used, retries, segment, updates, compactions,
                 outcome, eventVars>>
  /\ KeepRest

Answer ==
  /\ pc = "afterCall" /\ ~token
  /\ IF batch = <<>> THEN Return("completed") ELSE pc' = "inputs" /\ Stay
  /\ KeepLoop /\ KeepRest /\ UNCHANGED eventVars

(* InputReady for one call after the other; a call parsed from text is     *)
(* announced first.                                                        *)
InputReady(c) ==
  /\ pc = "inputs" /\ Settled
  /\ \E i \in DOMAIN batch :
       /\ batch[i] = c
       /\ \A j \in 1 .. i - 1 : stage[batch[j]] = "input_ready"
       /\ stage[c] # "input_ready"
  /\ Emit(c, IF stage[c] = "none" THEN "created" ELSE "input_ready")
  /\ UNCHANGED loopVars /\ KeepRest

StartTools ==
  /\ pc = "inputs" /\ Settled
  /\ \A c \in InBatch : stage[c] = "input_ready"
  /\ pc' = "tools"
  /\ at' = [c \in Calls |-> IF c \in InBatch THEN "begin" ELSE at[c]]
  /\ KeepLoop /\ Stay
  /\ UNCHANGED <<permissionVars, clockVars, eventVars, ret, executed, envVars>>

-----------------------------------------------------------------------------
(* The executor's future of one call (tool_execution.rs).  A future goes   *)
(* on only when the update it emitted last has its receipt.                *)

Move(c, l) == at' = [at EXCEPT ![c] = l]

Ready(c, l) == pc = "tools" /\ at[c] = l /\ receipt[c] = "ok"

KeepCall == UNCHANGED <<loopVars, ret, envVars>>

(* The call ends with a Cancelled update. *)
EndCancelled(c) ==
  /\ Emit(c, "cancelled")
  /\ Move(c, "endCancelled")

ToolBegin(c) ==
  /\ Ready(c, "begin")
  /\ IF token THEN EndCancelled(c)
              ELSE Emit(c, "waiting") /\ Move(c, "waiting")
  /\ KeepCall /\ UNCHANGED <<permissionVars, clockVars, executed>>

(* The gates: after the waiting update, and after the result was shown. *)
Gates == {"waiting", "shown"}
PhaseOf(l) == IF l = "waiting" THEN Before ELSE After
WaitOf(l) == IF l = "waiting" THEN "askedBefore" ELSE "askedAfter"

(* Approved: the call goes on to its validation, or it is completed. *)
Proceed(c, ph) ==
  IF ph = Before THEN Move(c, "go") /\ UNCHANGED eventVars
                 ELSE Emit(c, "completed") /\ Move(c, "endOk")

(* Skipped or denied: a failed result is prepared. *)
Decline(c, ph) ==
  /\ Move(c, IF ph = Before THEN "declined" ELSE "declinedShown")
  /\ UNCHANGED eventVars

(* An automatic session approves; a moderated one asks; a session whose    *)
(* metadata cannot be read fails the call without a terminal update.       *)
ToolGate(c, l) ==
  /\ Ready(c, l)
  /\ ~token
  /\ \/ Proceed(c, PhaseOf(l)) /\ UNCHANGED <<permissionVars, clockVars>>
     \/ Register(c, PhaseOf(l)) /\ Move(c, WaitOf(l)) /\ UNCHANGED eventVars
  /\ KeepCall /\ UNCHANGED executed

(* Mutant: a skip is taken for an approval. *)
ToolAnsweredSkipRuns(c, l) ==
  /\ pc = "tools" /\ at[c] = WaitOf(l)
  /\ reply[c] \in Decisions
  /\ Leave(c)
  /\ IF reply[c] = "Deny" THEN Decline(c, PhaseOf(l))
                          ELSE Proceed(c, PhaseOf(l))
  /\ KeepCall /\ UNCHANGED executed

ToolAnswered(c, l) ==
  /\ pc = "tools" /\ at[c] = WaitOf(l)
  /\ reply[c] \in Decisions
  /\ Leave(c)
  /\ IF reply[c] = "Approve" THEN Proceed(c, PhaseOf(l))
                             ELSE Decline(c, PhaseOf(l))
  /\ KeepCall /\ UNCHANGED executed

(* Cancelled before the gate or in it, or the slot was dropped.  Both the  *)
(* gate and the executor watch the token: the gate is polled first and     *)
(* drops the session's waits, unless it is suspended at a lock or a        *)
(* broadcast, where the executor drops it.                                 *)
ToolGateCancelled(c, l) ==
  /\ \/ Ready(c, l) /\ token /\ UNCHANGED <<permissionVars, clockVars>>
     \/ /\ pc = "tools" /\ at[c] = WaitOf(l)
        /\ \/ (token \/ reply[c] = "closed") /\ Leave(c)
           \/ token /\ reply[c] = "open" /\ LeaveDropping(c)
  /\ EndCancelled(c)
  /\ KeepCall /\ UNCHANGED executed

(* Validation refused the call. *)
ToolRejected(c) ==
  /\ Ready(c, "go")
  /\ Emit(c, "rejected") /\ Move(c, "endOk")
  /\ KeepCall /\ UNCHANGED <<permissionVars, clockVars, executed>>

(* run_before_hook_and_execute: a hook blocks the call or there is no such *)
(* tool, or the Executing and the first progress update precede the        *)
(* implementation.                                                         *)
ToolBlocked(c) ==
  /\ Ready(c, "go") /\ ~token
  /\ Move(c, "result")
  /\ KeepCall /\ UNCHANGED <<permissionVars, clockVars, eventVars, executed>>

ToolExecuting(c) ==
  /\ Ready(c, "go") /\ ~token
  /\ Emit(c, "executing") /\ Move(c, "executing")
  /\ KeepCall /\ UNCHANGED <<permissionVars, clockVars, executed>>

ToolProgress(c) ==
  /\ Ready(c, "executing") /\ ~token
  /\ Emit(c, "execution_progress") /\ Move(c, "progress")
  /\ KeepCall /\ UNCHANGED <<permissionVars, clockVars, executed>>

ToolExecute(c) ==
  /\ Ready(c, "progress") /\ ~token
  /\ executed' = executed \cup {c}
  /\ Move(c, "tool")
  /\ KeepCall /\ UNCHANGED <<permissionVars, clockVars, eventVars>>

(* The implementation returned, with a value or an error. *)
ToolReturned(c) ==
  /\ Ready(c, "tool") /\ ~token
  /\ Move(c, "result")
  /\ KeepCall /\ UNCHANGED <<permissionVars, clockVars, eventVars, executed>>

(* Mutant: the cancellation also interrupts the terminal update. *)
ToolCancelledLate(c) ==
  /\ pc = "tools" /\ token
  /\ at[c] \in {"go", "executing", "progress", "tool", "endOk"}
  /\ EndCancelled(c)
  /\ KeepCall /\ UNCHANGED <<permissionVars, clockVars, executed>>

(* run_until_cancelled drops the execution wherever it is, an update that  *)
(* still waits for its receipt included.                                   *)
ToolCancelled(c) ==
  /\ pc = "tools" /\ token
  /\ at[c] \in {"go", "executing", "progress", "tool"}
  /\ EndCancelled(c)
  /\ KeepCall /\ UNCHANGED <<permissionVars, clockVars, executed>>

(* The prepared result is shown; a declined call is completed right after. *)
ToolResult(c) ==
  /\ \/ Ready(c, "result") /\ Emit(c, "result_ready") /\ Move(c, "shown")
     \/ /\ Ready(c, "declined")
        /\ Emit(c, "result_ready") /\ Move(c, "declinedShown")
     \/ Ready(c, "declinedShown") /\ Emit(c, "completed") /\ Move(c, "endOk")
  /\ KeepCall /\ UNCHANGED <<permissionVars, clockVars, executed>>

ToolEnds(c) ==
  /\ \E l \in {"endOk", "endCancelled"} :
       /\ Ready(c, l)
       /\ ret' = [ret EXCEPT ![c] = IF l = "endOk" THEN "ok" ELSE "cancelled"]
  /\ Move(c, "done")
  /\ UNCHANGED <<permissionVars, clockVars, eventVars, loopVars, executed, envVars>>

(* An update was refused or its receipt lost. *)
ToolEmitFails(c) ==
  /\ pc = "tools" /\ at[c] \notin {"off", "done"} /\ receipt[c] = "err"
  /\ ret' = [ret EXCEPT ![c] = "error"]
  /\ Move(c, "done")
  /\ UNCHANGED <<permissionVars, clockVars, eventVars, loopVars, executed, envVars>>

(* The session's metadata, the result store or the configuration fails:    *)
(* the future returns its error with no terminal update.                   *)
ToolFails(c) ==
  /\ "store" \in Faults
  /\ \E l \in Gates \cup {"go", "result", "declined", "declinedShown"} :
       Ready(c, l) /\ (l \in Gates => ~token)
  /\ ret' = [ret EXCEPT ![c] = "error"]
  /\ Move(c, "done")
  /\ broken' = TRUE
  /\ UNCHANGED <<permissionVars, clockVars, eventVars, loopVars, executed,
                 token, timedOut, verdict, rival>>

(* Mutant: a failed call is reported as a cancellation. *)
JoinToolsCancelled ==
  /\ pc = "tools"
  /\ \A c \in InBatch : at[c] = "done"
  /\ IF \A c \in InBatch : ret[c] = "ok" THEN pc' = "top" /\ Stay
                                         ELSE Return("cancelled")
  /\ KeepLoop /\ KeepRest /\ UNCHANGED eventVars

(* join_all: the first error of the batch ends the run. *)
JoinTools ==
  /\ pc = "tools"
  /\ \A c \in InBatch : at[c] = "done"
  /\ \/ /\ \A c \in InBatch : ret[c] = "ok"
        /\ pc' = "top" /\ Stay
     \/ \E i \in DOMAIN batch :
          /\ ret[batch[i]] # "ok"
          /\ \A j \in 1 .. i - 1 : ret[batch[j]] = "ok"
          /\ Return(ret[batch[i]])
  /\ KeepLoop /\ KeepRest /\ UNCHANGED eventVars

-----------------------------------------------------------------------------
(* Automatic compaction (run_with_tools.rs): the checkpoint waits until    *)
(* every event sent so far is processed, and the loop starts afresh.       *)

(* Mutant: the checkpoint does not wait for the forwarder. *)
BarrierSkipped ==
  /\ pc = "barrier"
  /\ IF token THEN Return("cancelled")
              ELSE pc' = "compacting" /\ Stay
  /\ KeepLoop /\ KeepRest /\ UNCHANGED eventVars

(* Mutant: the wait for the forwarder cannot be cancelled. *)
BarrierUncancellable ==
  /\ pc = "barrier" /\ backlog = 0
  /\ IF token THEN Return("cancelled")
              ELSE pc' = "compacting" /\ Stay
  /\ KeepLoop /\ KeepRest /\ UNCHANGED eventVars

Barrier ==
  /\ pc = "barrier"
  /\ IF token THEN Return("cancelled")
              ELSE backlog = 0 /\ pc' = "compacting" /\ Stay
  /\ KeepLoop /\ KeepRest /\ UNCHANGED eventVars

Compacted ==
  /\ pc = "compacting" /\ ~token
  /\ pc' = "start"
  /\ compactions' = compactions + 1
  /\ used' = 0
  /\ retries' = FullRetries
  /\ nudges' = NoNudges
  /\ UNCHANGED <<batch, andThen, segment, updates, outcome, eventVars>>
  /\ KeepRest

CompactionFails ==
  /\ pc = "compacting" /\ ~token
  /\ Return("error")
  /\ KeepLoop /\ KeepRest /\ UNCHANGED eventVars

CompactionCancelled ==
  /\ pc = "compacting" /\ token
  /\ Return("cancelled")
  /\ KeepLoop /\ KeepRest /\ UNCHANGED eventVars

-----------------------------------------------------------------------------
(* The end of the run. *)

(* wait_for_event_forwarder: the handle is this run's own, chat.send_sync  *)
(* keeps its in a map of its own and two sends never run together.         *)
TakeForwarder ==
  /\ pc = "closing"
  /\ forwarder \in {"failed", "finished"}
  /\ outcome' = IF forwarder = "failed" THEN "error" ELSE outcome
  /\ pc' = "framed"
  /\ KeepLoop /\ KeepRest /\ UNCHANGED eventVars

(* Mutant: the waits are not dropped at the end. *)
CleanupKeepsSlots ==
  /\ pc = "framed"
  /\ pc' = "done"
  /\ draft' = FALSE
  /\ UNCHANGED <<queue, backlog, stage, receipt, journal, pendingInputs,
                 framed, forwarder, clockVars, permissionVars, callVars,
                 envVars>>
  /\ KeepLoop /\ Stay

(* After the terminal frame: the entries of the session's maps are removed. *)
Cleanup ==
  /\ pc = "framed"
  /\ pc' = "done"
  /\ DropSession
  /\ draft' = FALSE
  /\ UNCHANGED <<queue, backlog, stage, receipt, journal, pendingInputs,
                 framed, forwarder, clockVars, callVars, envVars>>
  /\ KeepLoop /\ Stay

-----------------------------------------------------------------------------
(* The forwarder's task. *)

ForwardEvent ==
  /\ Forward(InBatch)
  /\ UNCHANGED <<permissionVars, clockVars, loopVars, callVars, envVars>>

(* A store failure, or an update the journal refuses. *)
ForwardFails ==
  /\ queue # <<>>
  /\ "store" \in Faults \/ Refused(Head(queue))
  /\ ForwarderFails
  /\ broken' = TRUE
  /\ UNCHANGED <<permissionVars, clockVars, loopVars, callVars, token, timedOut,
                 verdict, rival>>

ForwarderEnds ==
  /\ pc \in {"closing", "framed", "done"}
  /\ ForwarderFinishes
  /\ UNCHANGED <<permissionVars, clockVars, loopVars, callVars, envVars>>

-----------------------------------------------------------------------------
(* The environment. *)

(* chat.abort, or the monitor of the UI history's health. *)
Cancel ==
  /\ ~token /\ pc # "done"
  /\ token' = TRUE
  /\ UNCHANGED <<permissionVars, clockVars, eventVars, loopVars, callVars,
                 timedOut, verdict, rival, broken>>

(* The watchdog runs beside the loop, not beside compaction. *)
Watchdog ==
  /\ pc \notin {"barrier", "compacting", "closing", "framed",
                "done"}
  /\ ~timedOut
  /\ Unpaused >= Timeout
  /\ timedOut' = TRUE
  /\ token' = TRUE
  /\ UNCHANGED <<permissionVars, clockVars, eventVars, loopVars, callVars,
                 verdict, rival, broken>>

Time ==
  /\ Tick
  /\ pc # "done"
  /\ UNCHANGED <<eventVars, loopVars, callVars, envVars>>

OperatorDecides(c, ph, d) ==
  /\ Resolve(c, ph, d)
  /\ verdict' = IF ph = Before THEN [verdict EXCEPT ![c] = d] ELSE verdict
  /\ UNCHANGED <<clockVars, eventVars, loopVars, callVars, token, timedOut,
                 rival, broken>>

(* The other run puts its own draft into the session's entry, and removes  *)
(* whatever draft is there, and every permission wait, when it ends.       *)
RivalStarts ==
  /\ "rival" \in Faults /\ rival = "none" /\ pc # "done"
  /\ rival' = "running"
  /\ draft' = TRUE
  /\ UNCHANGED <<queue, backlog, stage, receipt, journal, pendingInputs,
                 framed, forwarder, permissionVars, clockVars, loopVars,
                 callVars, token, timedOut, verdict, broken>>

(* A cancelled wait of the other run drops this run's waits with its own. *)
RivalDropsWaits ==
  /\ rival = "running" /\ pending # {}
  /\ DropSession
  /\ UNCHANGED <<eventVars, clockVars, loopVars, callVars, envVars>>

RivalEnds ==
  /\ rival = "running"
  /\ rival' = "ended"
  /\ DropSession
  /\ draft' = FALSE
  /\ UNCHANGED <<queue, backlog, stage, receipt, journal, pendingInputs,
                 framed, forwarder, clockVars, loopVars, callVars, token,
                 timedOut, verdict, broken>>


-----------------------------------------------------------------------------
(* What the run does by itself, by task. *)

LoopSteps ==
  \/ BeforeAgentStart \/ TopCancelled \/ NextIteration \/ StreamCancelled
  \/ LoopEmitFails \/ CancelledStarted \/ RetryDelay \/ ReserveBatch
  \/ AfterCallCancelled \/ Answer \/ StartTools \/ JoinTools \/ Barrier
  \/ CompactionCancelled \/ TakeForwarder \/ Cleanup
  \/ \E c \in Calls : CancelNext(c) \/ InputReady(c)

ToolSteps(c) ==
  \/ ToolBegin(c) \/ ToolRejected(c) \/ ToolExecuting(c)
  \/ ToolProgress(c) \/ ToolExecute(c) \/ ToolCancelled(c) \/ ToolResult(c)
  \/ ToolEnds(c) \/ ToolEmitFails(c)
  \/ \E l \in Gates : ToolGate(c, l) \/ ToolAnswered(c, l)
                          \/ ToolGateCancelled(c, l)

ForwarderSteps == ForwardEvent \/ ForwardFails \/ ForwarderEnds

(* What the provider, the tools and the operator decide. *)
Provider ==
  \/ ProviderItemUpdate \/ StreamDone
  \/ MalformedRetry \/ AutoContinue
  \/ \E k \in RetryKinds : StreamFailed(k)
  \/ \E c \in Calls : ToolCallStart(c) \/ ToolCallArgumentsDelta(c)

Environment ==
  \/ Provider \/ ItemRejected \/ AfterCallBlocked \/ Compacted \/ CompactionFails
  \/ \E c \in Calls : ToolReturned(c) \/ ToolBlocked(c) \/ ToolFails(c)
  \/ \E c \in Calls, ph \in {Before, After}, d \in Decisions :
       OperatorDecides(c, ph, d)
  \/ Cancel \/ Watchdog \/ Time
  \/ RivalStarts \/ RivalDropsWaits \/ RivalEnds

Next == LoopSteps \/ (\E c \in Calls : ToolSteps(c)) \/ ForwarderSteps \/ Environment

(* The run's task and the forwarder's task keep being polled. *)
Fairness ==
  /\ WF_vars(LoopSteps)
  /\ \A c \in Calls : WF_vars(ToolSteps(c))
  /\ WF_vars(ForwarderSteps)

Spec == Init /\ [][Next]_vars /\ Fairness

-----------------------------------------------------------------------------
(* Properties. *)

CallLabels == {"off", "begin", "waiting", "askedBefore", "go", "executing",
               "progress", "tool", "result", "shown", "askedAfter", "declined",
               "declinedShown", "endOk", "endCancelled", "done"}

LoopPlaces ==
  {"start", "top", "streaming", "cancelling", "sleeping", "response",
   "afterCall", "inputs", "tools", "barrier", "compacting", "closing",
   "framed", "done"}

Outcomes == {"none", "completed", "cancelled", "error"}

TypeOKLoop ==
  /\ pc \in LoopPlaces
  /\ batch \in Seq(Calls)
  /\ andThen \in Outcomes \cup {"retry", "again"}
  /\ used \in 0 .. MaxTools
  /\ retries \in [{"server", "unknown", "rate"} -> Nat]
  /\ nudges \in [auto : 0 .. MaxAutoContinues, emptyName : BOOLEAN,
                 malformed : BOOLEAN]
  /\ segment \in BOOLEAN
  /\ updates \in 0 .. MaxUpdates
  /\ compactions \in 0 .. MaxCompactions
  /\ outcome \in Outcomes

TypeOKCalls ==
  /\ at \in [Calls -> CallLabels]
  /\ ret \in [Calls -> {"none", "ok", "cancelled", "error"}]
  /\ executed \subseteq Calls

TypeOKEnv ==
  /\ token \in BOOLEAN
  /\ timedOut \in BOOLEAN
  /\ verdict \in [Calls -> {"none"} \cup Decisions]
  /\ rival \in {"none", "running", "ended"}
  /\ broken \in BOOLEAN

(* The run's state has its types: in particular the pauses of the clock and *)
(* the forwarder's backlog are never less than nothing.                     *)
TypeOK ==
  /\ TypeOKPermissions
  /\ TypeOKEvents
  /\ TypeOKLoop
  /\ TypeOKCalls
  /\ TypeOKEnv

Ended == pc \in {"framed", "done"}

(* When a run ends, however it ends and wherever it was cancelled, every   *)
(* tool call it announced has a terminal update and the journal has it,    *)
(* unless a malformed provider stream, a store failure, or another run of  *)
(* the session that removed the draft lost the update.                     *)
LifecyclesClose ==
  Ended /\ ~broken =>
    \A c \in Calls : /\ stage[c] \in Terminal \cup {"none"}
                     /\ journal[c] = stage[c]

(* A terminal update is the last one of its call: no later cancellation,   *)
(* retry or permission answer emits another.                               *)
TerminalIsLast ==
  [][\A c \in Calls : stage[c] \in Terminal => stage'[c] = stage[c]]_vars

(* A call the operator skipped or denied before its execution never runs,  *)
(* whatever is cancelled, dropped or answered beside it.                   *)
DeclinedNeverRuns ==
  \A c \in executed : verdict[c] \notin {"Skip", "Deny"}

(* The timeout counts only the time in which no permission wait was open,  *)
(* also when the waits of several calls overlap.                           *)
TimeoutCountsWork == timedOut => worked >= Timeout

(* No permission request of an ended run stays on the operator's list. *)
NoOrphanSlot == pc = "done" => pending = {}

(* A run reports "cancelled" only if it was cancelled, or another run of   *)
(* the session was cancelled or ended beside it and dropped its waits.     *)
CancelledWhenAsked == outcome = "cancelled" => token \/ rival # "none"

(* The checkpoint of a compaction follows every event the loop sent before *)
(* it, and so does the terminal frame of the run.                          *)
FramesFollowEvents ==
  /\ pc = "compacting" => queue = <<>>
  /\ Ended => queue = <<>>

(* A cancelled run ends whatever the provider, the tools, the operator and *)
(* another run of the session do.                                          *)
CancelledRunEnds == token ~> pc = "done"

(* With a provider, tools and an operator that answer, every run           *)
(* ends: retries, nudges and the tool budget are finite.  The one      *)
(* exception: the checkpoint of a compaction waits for events that a       *)
(* failed forwarder dropped, which only a cancellation ends.               *)
Answers ==
  /\ WF_vars(Provider)
  /\ WF_vars(Compacted \/ CompactionFails)
  /\ \A c \in Calls :
       /\ WF_vars(ToolReturned(c))
       /\ WF_vars(\E ph \in {Before, After}, d \in Decisions :
                    OperatorDecides(c, ph, d))
StuckAtBarrier == pc = "barrier" /\ forwarder = "failed" /\ backlog > 0
RunEnds == Answers => <>(pc = "done" \/ StuckAtBarrier)
=============================================================================
