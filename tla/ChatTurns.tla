------------------------------ MODULE ChatTurns ------------------------------
(***************************************************************************)
(* The turns of one chat session: chat.send, the run it starts, the drain  *)
(* of the durable queue after the run, chat.send_sync, chat.abort for the  *)
(* session or for one run, the session mutations of the gateway, the calls *)
(* that wait for the session's final gate, and a restart of the process.   *)
(*                                                                         *)
(* Each call is a task with a program counter; a step is what the task     *)
(* does between two points where another task may run (a mutex released,   *)
(* an await).  A chat call's prompt is the call itself.                    *)
(***************************************************************************)
EXTENDS SessionMutations, PromptQueue, StopGate, SessionGate

VARIABLES activeRun,           \* active_runs_by_session
          history,             \* the canonical journal of the session
          pc,                  \* where a chat call is
          batch,               \* the prompts of its turn
          view,                \* the history its turn was built from
          finaliser,           \* the task a dropped run leaves behind
          spc,                 \* where a stop is
          expected, seen, snapEpoch, waitFor,   \* locals of a stop
          mpc,                 \* where a mutation is
          wpc, saw,            \* where a waiter is, and the terminal it read
          accepted,            \* the queued prompts in the order of their rows
          crashes

chatVars == <<activeRun, history, pc, batch, view, finaliser, accepted>>
stopVars == <<spc, expected, seen, snapEpoch, waitFor>>
waitVars == <<wpc, saw>>
vars == <<mutationVars, queue, gateVars, sessionGateVars, chatVars, stopVars,
          mpc, waitVars, crashes>>

(* What no step of a chat call touches. *)
others == <<stopVars, mpc, waitVars, crashes>>

(* The run of the turn a call carries is named by the batch's last prompt. *)
Run(c) == batch[c][Len(batch[c])]

(* A record of the journal: a user prompt, or output of a run. *)
User(p) == [role |-> "user", of |-> p]
Output(r) == [role |-> "assistant", of |-> r]
Records == [role : {"user", "assistant"}, of : Chats]

UserRecords(b) == [i \in DOMAIN b |-> User(b[i])]

Goto(c, l) == pc' = [pc EXCEPT ![c] = l]

(* Where a call goes when its turn ends early: a send's SessionTurnOwner is *)
(* dropped, a send_sync has only its guard to drop.                         *)
Exit(c) == IF c \in Sends THEN "dropTurn" ELSE "dropGuard"

Init ==
  /\ InitMutations
  /\ InitQueue
  /\ InitGate
  /\ InitSessionGate
  /\ activeRun = None
  /\ history = <<>>
  /\ pc = [c \in Chats |-> "new"]
  /\ batch = [c \in Chats |-> <<c>>]
  /\ view = [c \in Chats |-> <<>>]
  /\ finaliser = [c \in Chats |-> "none"]
  /\ spc = [s \in Stoppers |-> "new"]
  /\ expected = [s \in Stoppers |-> None]
  /\ seen = [s \in Stoppers |-> 0]
  /\ snapEpoch = [s \in Stoppers |-> 0]
  /\ waitFor = [s \in Stoppers |-> None]
  /\ mpc = [m \in Mutators |-> "new"]
  /\ wpc = [w \in Waiters |-> "new"]
  /\ saw = [w \in Waiters |-> "none"]
  /\ accepted = <<>>
  /\ crashes = 0

-----------------------------------------------------------------------------
(* chat.send and chat.send_sync up to the start of a turn.  begin_send comes *)
(* first in both; a send_sync takes no session permit.                       *)

SendBegin(c) ==
  /\ pc[c] = "new"
  /\ BeginSend(c)
  /\ Goto(c, IF c \in Sends THEN "acquiring" ELSE "loading")
  /\ UNCHANGED <<mutationVars, queue, sessionGateVars, activeRun, history,
                 batch, view, finaliser, accepted, others>>

SendRefused(c) ==
  /\ pc[c] = "new"
  /\ Stopping
  /\ Goto(c, "done")
  /\ UNCHANGED <<mutationVars, queue, gateVars, sessionGateVars, activeRun,
                 history, batch, view, finaliser, accepted, others>>

AcquireTurn(c) ==
  /\ pc[c] = "acquiring"
  /\ \/ TryAcquireTurn(c) /\ Goto(c, "attaching")
     \/ ReservedMutation /\ Goto(c, "dropGuard") /\ UNCHANGED mutationVars
     \/ ActiveTurn /\ Goto(c, "busy") /\ UNCHANGED mutationVars
  /\ UNCHANGED <<queue, gateVars, sessionGateVars, activeRun, history, batch,
                 view, finaliser, accepted, others>>

(* The guard of a refused enqueue is out of the map before it is dropped;  *)
(* the drop would only wake the stops a second time.                       *)
EnqueueBegin(c) ==
  /\ pc[c] = "busy"
  /\ \/ BeginEnqueue(c) /\ Goto(c, "enqueueing")
     \/ RefuseCancelled(c) /\ Goto(c, "done")
  /\ UNCHANGED <<mutationVars, queue, sessionGateVars, activeRun, history,
                 batch, view, finaliser, accepted, others>>

EnqueueCommit(c) ==
  /\ pc[c] = "enqueueing"
  /\ Enqueue(c)
  /\ accepted' = Append(accepted, c)
  /\ Goto(c, "enqueued")
  /\ UNCHANGED <<mutationVars, gateVars, sessionGateVars, activeRun, history,
                 batch, view, finaliser, others>>

(* Saving the turn settings or the row failed; or the row is in and reading *)
(* the status back, or broadcasting it, failed.                             *)
EnqueueFails(c) ==
  /\ "store" \in Faults
  /\ pc[c] \in {"enqueueing", "enqueued"}
  /\ Goto(c, "dropGuard")
  /\ UNCHANGED <<mutationVars, queue, gateVars, sessionGateVars, activeRun,
                 history, batch, view, finaliser, accepted, others>>

FinishEnqueue(c) ==
  /\ pc[c] = "enqueued"
  /\ Abandon(c)
  /\ Goto(c, "done")
  /\ UNCHANGED <<mutationVars, queue, sessionGateVars, activeRun, history,
                 batch, view, finaliser, accepted, others>>

Attach(c) ==
  /\ pc[c] = "attaching"
  /\ \/ AttachPermit(c) /\ Goto(c, "loading")
     \/ RefuseCancelled(c) /\ Goto(c, "unattached")
  /\ UNCHANGED <<mutationVars, queue, sessionGateVars, activeRun, history,
                 batch, view, finaliser, accepted, others>>

(* The permit a refused attach handed back is dropped. *)
DropUnattached(c) ==
  /\ pc[c] = "unattached"
  /\ DropTurn(c)
  /\ Goto(c, "done")
  /\ UNCHANGED <<queue, gateVars, sessionGateVars, activeRun, history, batch,
                 view, finaliser, accepted, others>>

-----------------------------------------------------------------------------
(* start_turn_impl, for the first prompt of a send, for a drained batch and, *)
(* with the same steps, for a send_sync.                                     *)

LoadHistory(c) ==
  /\ pc[c] = "loading"
  /\ view' = [view EXCEPT ![c] = history]
  /\ Goto(c, "appending")
  /\ UNCHANGED <<mutationVars, queue, gateVars, sessionGateVars, activeRun,
                 history, batch, finaliser, accepted, others>>

(* Any of the reads before the append fails, or the MessageReceived hook    *)
(* blocks the prompt; a drained batch is not shown to the hook.             *)
StartFails(c) ==
  /\ \/ "store" \in Faults /\ pc[c] \in {"loading", "appending"}
     \/ "hook" \in Faults /\ pc[c] = "appending" /\ c \in Sends
                          /\ batch[c] = <<c>>
  /\ Goto(c, Exit(c))
  /\ UNCHANGED <<mutationVars, queue, gateVars, sessionGateVars, activeRun,
                 history, batch, view, finaliser, accepted, others>>

(* Mutant: the tail of the journal is not compared. *)
AppendTurnAnywhere(c) ==
  /\ pc[c] = "appending"
  /\ history' = history \o UserRecords(batch[c])
  /\ Goto(c, "confirming")
  /\ UNCHANGED <<mutationVars, queue, gateVars, sessionGateVars, activeRun,
                 batch, view, finaliser, accepted, others>>

(* append_batch_at_index: all of the batch, at the tail the history was     *)
(* loaded with, or nothing.                                                 *)
AppendTurn(c) ==
  /\ pc[c] = "appending"
  /\ IF Len(history) = Len(view[c])
       THEN /\ history' = history \o UserRecords(batch[c])
            /\ Goto(c, "confirming")
       ELSE /\ UNCHANGED history
            /\ Goto(c, Exit(c))
  /\ UNCHANGED <<mutationVars, queue, gateVars, sessionGateVars, activeRun,
                 batch, view, finaliser, accepted, others>>

(* Preview, runtime limits or context fail after the prompt is stored. *)
PrepareFails(c) ==
  /\ "store" \in Faults
  /\ pc[c] = "confirming"
  /\ BeginTurn
  /\ Goto(c, Exit(c))
  /\ UNCHANGED <<mutationVars, queue, gateVars, activeRun, history, batch,
                 view, finaliser, accepted, others>>

Confirm(c) ==
  /\ pc[c] = "confirming"
  /\ \/ ConfirmStart(c) /\ Goto(c, "activating")
     \/ RefuseCancelled(c) /\ Goto(c, Exit(c))
  /\ UNCHANGED <<mutationVars, queue, sessionGateVars, activeRun, history,
                 batch, view, finaliser, accepted, others>>

(* activate_session_turn, under the write lock of active_runs_by_session. *)
Activate(c) ==
  /\ pc[c] = "activating"
  /\ BeginTurn
  /\ activeRun' = Run(c)
  /\ Goto(c, "publishing")
  /\ UNCHANGED <<mutationVars, queue, gateVars, history, batch, view,
                 finaliser, accepted, others>>

Publish(c) ==
  /\ pc[c] = "publishing"
  /\ PublishRun(c, Run(c))
  /\ Goto(c, "running")
  /\ UNCHANGED <<mutationVars, queue, sessionGateVars, activeRun, history,
                 batch, view, finaliser, accepted, others>>
-----------------------------------------------------------------------------
(* The run, its end and the drain after it. *)

(* A run writes to the journal without an expected index; one record stands *)
(* for all it writes.                                                       *)
RunAppends(c) ==
  /\ pc[c] = "running"
  /\ \A i \in DOMAIN history : history[i] /= Output(Run(c))
  /\ history' = Append(history, Output(Run(c)))
  /\ UNCHANGED <<mutationVars, queue, gateVars, sessionGateVars, activeRun, pc,
                 batch, view, finaliser, accepted, others>>

(* Mutant: a run ends its turn only while the session names it. *)
RunEndsIfCurrent(c, t) ==
  /\ pc[c] = "running"
  /\ activeRun = Run(c)
  /\ t = "Cancelled" => Run(c) \in token
  /\ FinishTurn(t)
  /\ Goto(c, IF t = "Failed" THEN "finishErr" ELSE "finishOk")
  /\ UNCHANGED <<mutationVars, queue, gateVars, activeRun, history, batch, view,
                 finaliser, accepted, others>>

(* The run completes, fails (a timeout counts) or observes its token. *)
RunEnds(c, t) ==
  /\ pc[c] = "running"
  /\ t = "Cancelled" => Run(c) \in token
  /\ FinishTurn(t)
  /\ Goto(c, IF t = "Failed" THEN "finishErr" ELSE "finishOk")
  /\ UNCHANGED <<mutationVars, queue, gateVars, activeRun, history, batch, view,
                 finaliser, accepted, others>>

Finish(c) ==
  /\ pc[c] \in {"finishOk", "finishErr"}
  /\ FinishRun(Run(c), IF pc[c] = "finishErr" THEN "err" ELSE "ok")
  /\ Goto(c, "unsetting")
  /\ UNCHANGED <<mutationVars, queue, sessionGateVars, activeRun, history,
                 batch, view, finaliser, accepted, others>>

UnsetActive(c) ==
  /\ pc[c] = "unsetting"
  /\ activeRun' = IF activeRun = Run(c) THEN None ELSE activeRun
  /\ Notify
  /\ Goto(c, IF c \in Sends THEN "finalGate" ELSE "done")
  /\ UNCHANGED <<mutationVars, queue, gateVars, history, batch, view, finaliser,
                 accepted, others>>

(* is_suppressed, before the drain and again after it.  The second time the *)
(* drained batch is dropped.                                                *)
CheckSuppressed(c) ==
  /\ pc[c] \in {"finalGate", "drained"}
  /\ Goto(c, IF suppressed THEN "dropTurn"
             ELSE IF pc[c] = "finalGate" THEN "draining" ELSE "arming")
  /\ UNCHANGED <<mutationVars, queue, gateVars, sessionGateVars, activeRun,
                 history, batch, view, finaliser, accepted, others>>

DrainQueue(c) ==
  /\ pc[c] = "draining"
  /\ IF queue = <<>>
       THEN UNCHANGED <<queue, batch>> /\ Goto(c, "dropTurn")
       ELSE /\ batch' = [batch EXCEPT ![c] = queue]
            /\ Drain(queue)
            /\ Goto(c, "drained")
  /\ UNCHANGED <<mutationVars, gateVars, sessionGateVars, activeRun, history,
                 view, finaliser, accepted, others>>

(* The drain fails and the rows stay, or the status after it cannot be      *)
(* broadcast and the batch is dropped.                                      *)
DrainFails(c) ==
  /\ "store" \in Faults
  /\ pc[c] \in {"draining", "drained"}
  /\ Goto(c, "dropTurn")
  /\ UNCHANGED <<mutationVars, queue, gateVars, sessionGateVars, activeRun,
                 history, batch, view, finaliser, accepted, others>>

(* start_queued_batch: a new guard under the permit the turn still holds. *)
StartQueuedBatch(c) ==
  /\ pc[c] = "arming"
  /\ \/ ArmNextBatch(c) /\ Goto(c, "loading")
     \/ (Stopping \/ suppressed) /\ Goto(c, "dropTurn") /\ UNCHANGED gateVars
  /\ UNCHANGED <<mutationVars, queue, sessionGateVars, activeRun, history,
                 batch, view, finaliser, accepted, others>>

(* SessionTurnOwner is dropped: the semaphore permit, the holder count, and *)
(* the guard if it was neither refused nor published.                       *)
OwnerDropsTurn(c) ==
  /\ pc[c] = "dropTurn"
  /\ DropTurn(c)
  /\ Goto(c, "dropHolder")
  /\ UNCHANGED <<queue, gateVars, sessionGateVars, activeRun, history, batch,
                 view, finaliser, accepted, others>>

OwnerDropsHolder(c) ==
  /\ pc[c] = "dropHolder"
  /\ DropHolder
  /\ Goto(c, "dropGuard")
  /\ UNCHANGED <<mutationVars, queue, sessionGateVars, activeRun, history,
                 batch, view, finaliser, accepted, others>>

DropGuard(c) ==
  /\ pc[c] = "dropGuard"
  /\ IF phase[c] \in {"none", "Running"} THEN UNCHANGED gateVars ELSE Abandon(c)
  /\ Goto(c, "done")
  /\ UNCHANGED <<mutationVars, queue, sessionGateVars, activeRun, history,
                 batch, view, finaliser, accepted, others>>

-----------------------------------------------------------------------------
(* The caller of chat.send or chat.send_sync, a tool of another session for *)
(* example, drops the future before its run is published.  The owner or the *)
(* guard is dropped; active_runs_by_session keeps the run if the turn was   *)
(* activated.  A drained batch is started by the run task, which nobody     *)
(* drops.                                                                   *)
CallDropped(c) ==
  /\ "dropped" \in Faults
  /\ \/ /\ pc[c] \in {"loading", "appending", "confirming", "activating",
                       "publishing"}
        /\ batch[c] = <<c>>
        /\ Goto(c, Exit(c))
     \/ /\ c \in Sends
        /\ pc[c] \in {"acquiring", "enqueueing", "enqueued"}
        /\ Goto(c, "dropGuard")
  /\ UNCHANGED <<mutationVars, queue, gateVars, sessionGateVars, activeRun,
                 history, batch, view, finaliser, accepted, others>>

(* The run task panics, or the future of a send_sync is dropped before its  *)
(* RunFinishGuard is disarmed: the guard leaves finalize_dropped_run        *)
(* behind, which runs beside the drop of the owner.                         *)
RunDies(c) ==
  /\ \/ "panic" \in Faults /\ pc[c] = "running"
     \/ /\ "dropped" \in Faults
        /\ c \in Syncs
        /\ pc[c] \in {"running", "finishOk", "finishErr", "unsetting"}
  /\ finaliser' = [finaliser EXCEPT ![c] = "finish"]
  /\ Goto(c, Exit(c))
  /\ UNCHANGED <<mutationVars, queue, gateVars, sessionGateVars, activeRun,
                 history, batch, view, accepted, others>>

FinaliseRun(c) ==
  /\ finaliser[c] = "finish"
  /\ FinishRun(Run(c), "err")
  /\ finaliser' = [finaliser EXCEPT ![c] = "unset"]
  /\ UNCHANGED <<mutationVars, queue, sessionGateVars, activeRun, history, pc,
                 batch, view, accepted, others>>

(* Mutant: a dropped run stays in active_runs_by_session. *)
FinaliseActiveKeeps(c) ==
  /\ finaliser[c] = "unset"
  /\ FinishTurn("Cancelled")
  /\ finaliser' = [finaliser EXCEPT ![c] = "none"]
  /\ UNCHANGED <<mutationVars, queue, gateVars, activeRun, history, pc, batch,
                 view, accepted, others>>

FinaliseActive(c) ==
  /\ finaliser[c] = "unset"
  /\ IF activeRun = Run(c)
       THEN activeRun' = None /\ FinishTurn("Cancelled")
       ELSE UNCHANGED activeRun /\ Notify
  /\ finaliser' = [finaliser EXCEPT ![c] = "none"]
  /\ UNCHANGED <<mutationVars, queue, gateVars, history, pc, batch, view,
                 accepted, others>>

-----------------------------------------------------------------------------
(* stop_current_session, for chat.abort and for a truncation that has       *)
(* reserved the session.                                                    *)

untouchedByStops == <<mutationVars, sessionGateVars, chatVars, mpc, waitVars,
                      crashes>>

SGoto(s, l) == spc' = [spc EXCEPT ![s] = l]

StopChoose(s, e) ==
  /\ spc[s] = "new"
  /\ s \in Truncators => mpc[s] = "reserved" /\ e = None
  /\ ChooseStop(e)
  /\ expected' = [expected EXCEPT ![s] = e]
  /\ SGoto(s, "looking")
  /\ UNCHANGED <<untouchedByStops, queue, seen, snapEpoch, waitFor>>

(* The expected run is not the session's current run: nothing is stopped. *)
StopMismatch(s, e) ==
  /\ spc[s] = "new"
  /\ s \notin Truncators
  /\ ~StopMatches(e)
  /\ SGoto(s, "mismatch")
  /\ UNCHANGED <<untouchedByStops, queue, gateVars, expected, seen, snapEpoch,
                 waitFor>>

(* current_run: the run that active_runs_by_session names, if it is the      *)
(* expected one.                                                            *)
StopLook(s) ==
  /\ spc[s] = "looking"
  /\ Watch(s)
  /\ IF activeRun /= None /\ expected[s] \in {None, activeRun}
       THEN /\ waitFor' = [waitFor EXCEPT ![s] = activeRun]
            /\ SGoto(s, "capturing")
       ELSE /\ UNCHANGED waitFor
            /\ SGoto(s, "snapshot")
  /\ UNCHANGED <<untouchedByStops, queue, expected, seen, snapEpoch>>

(* capture_run: if that run is published it is cancelled and awaited. *)
StopCapture(s) ==
  /\ spc[s] = "capturing"
  /\ IF waitFor[s] \in runs
       THEN CancelRun(waitFor[s]) /\ SGoto(s, "awaiting")
       ELSE UNCHANGED gateVars /\ SGoto(s, "snapshot")
  /\ UNCHANGED <<untouchedByStops, queue, expected, seen, snapEpoch, waitFor>>

(* wait_run_done; a failed run fails the stop. *)
StopAwait(s) ==
  /\ spc[s] = "awaiting"
  /\ result[waitFor[s]] /= "none"
  /\ SGoto(s, IF result[waitFor[s]] = "err" THEN "failing" ELSE "snapshot")
  /\ UNCHANGED <<untouchedByStops, queue, gateVars, expected, seen, snapEpoch,
                 waitFor>>

(* Mutant: the last result counts as unseen. *)
StopSnapshotOffByOne(s) ==
  /\ spc[s] = "snapshot"
  /\ seen' = [seen EXCEPT ![s] = Len(finishedDuringStop) - 1]
  /\ snapEpoch' = [snapEpoch EXCEPT ![s] = epoch]
  /\ SGoto(s, IF FreshError(seen[s]) THEN "failing"
              ELSE IF GateIdle THEN "clearing" ELSE "sleeping")
  /\ UNCHANGED <<untouchedByStops, queue, gateVars, expected, waitFor>>

StopSnapshot(s) ==
  /\ spc[s] = "snapshot"
  /\ seen' = [seen EXCEPT ![s] = Len(finishedDuringStop)]
  /\ snapEpoch' = [snapEpoch EXCEPT ![s] = epoch]
  /\ SGoto(s, IF FreshError(seen[s]) THEN "failing"
              ELSE IF GateIdle THEN "clearing" ELSE "sleeping")
  /\ UNCHANGED <<untouchedByStops, queue, gateVars, expected, waitFor>>

StopWake(s) ==
  /\ spc[s] = "sleeping"
  /\ woken[s]
  /\ SGoto(s, "looking")
  /\ UNCHANGED <<untouchedByStops, queue, gateVars, expected, seen, snapEpoch,
                 waitFor>>

StopClear(s) ==
  /\ spc[s] = "clearing"
  /\ \/ Clear /\ SGoto(s, "rechecking")
     \/ "store" \in Faults /\ UNCHANGED queue /\ SGoto(s, "failing")
  /\ UNCHANGED <<untouchedByStops, gateVars, expected, seen, snapEpoch,
                 waitFor>>

StopRecheck(s) ==
  /\ spc[s] = "rechecking"
  /\ seen' = [seen EXCEPT ![s] = Len(finishedDuringStop)]
  /\ SGoto(s, IF FreshError(seen[s]) THEN "failing"
              ELSE IF GateIdle /\ epoch = snapEpoch[s] THEN "ending"
              ELSE "looking")
  /\ UNCHANGED <<untouchedByStops, queue, gateVars, expected, snapEpoch,
                 waitFor>>

(* The depth is taken back after success, and by StopDepthGuard otherwise. *)
StopEnd(s) ==
  /\ spc[s] \in {"ending", "failing"}
  /\ EndStop
  /\ SGoto(s, IF spc[s] = "ending" THEN "stopped" ELSE "failed")
  /\ UNCHANGED <<untouchedByStops, queue, expected, seen, snapEpoch, waitFor>>

(* The caller drops the future of the stop at one of its awaits. *)
StopDropped(s) ==
  /\ "dropped" \in Faults
  /\ spc[s] \in {"looking", "capturing", "awaiting", "clearing", "rechecking",
                 "sleeping"}
  /\ SGoto(s, "failing")
  /\ UNCHANGED <<untouchedByStops, queue, gateVars, expected, seen, snapEpoch,
                 waitFor>>

(* stop_run: chat.abort with a run id only.  What follows it is a wait. *)
StopRun(r) ==
  /\ "stopRun" \in UserOps
  /\ r \in runs
  /\ r \notin token
  /\ CancelRun(r)
  /\ UNCHANGED <<untouchedByStops, queue, stopVars>>

-----------------------------------------------------------------------------
(* Session mutations.  sessions.truncate_tail reserves, stops the session,  *)
(* acquires and cuts the journal; fork, voice and patch reserve and acquire.*)

untouchedByMutations == <<queue, gateVars, sessionGateVars, activeRun, pc,
                          batch, view, finaliser, accepted, stopVars, waitVars,
                          crashes>>

MGoto(m, l) == mpc' = [mpc EXCEPT ![m] = l]

Reserve(m) ==
  /\ mpc[m] = "new"
  /\ ReserveMutation(m)
  /\ MGoto(m, IF m \in Truncators THEN "reserved" ELSE "acquiring")
  /\ UNCHANGED <<untouchedByMutations, history>>

(* The stop of a truncation returned. *)
MutationStopped(m) ==
  /\ mpc[m] = "reserved"
  /\ spc[m] \in {"stopped", "failed"}
  /\ MGoto(m, IF spc[m] = "stopped" THEN "acquiring" ELSE "dropGate")
  /\ UNCHANGED <<untouchedByMutations, history, mutationVars>>

Acquire(m) ==
  /\ mpc[m] = "acquiring"
  /\ AcquireMutation(m)
  /\ MGoto(m, "mutating")
  /\ UNCHANGED <<untouchedByMutations, history>>

Mutate(m) ==
  /\ mpc[m] = "mutating"
  /\ IF m \in Truncators
       THEN \E n \in 0..Len(history) : history' = SubSeq(history, 1, n)
       ELSE UNCHANGED history
  /\ MGoto(m, "dropGate")
  /\ UNCHANGED <<untouchedByMutations, mutationVars>>

MutationDropsGate(m) ==
  /\ mpc[m] = "dropGate"
  /\ DropGate(m)
  /\ MGoto(m, "dropTurn")
  /\ UNCHANGED <<untouchedByMutations, history>>

MutationDropsTurn(m) ==
  /\ mpc[m] = "dropTurn"
  /\ DropTurn(m)
  /\ MGoto(m, "done")
  /\ UNCHANGED <<untouchedByMutations, history>>

-----------------------------------------------------------------------------
(* wait_for_gate: the terminal is read first, then active_runs_by_session. *)

untouchedByWaits == <<mutationVars, queue, gateVars, chatVars, stopVars, mpc,
                      crashes>>

WGoto(w, l) == wpc' = [wpc EXCEPT ![w] = l]

WaitSubscribe(w) ==
  /\ wpc[w] = "new"
  /\ SeeVersion(w)
  /\ WGoto(w, "terminal")
  /\ UNCHANGED <<untouchedByWaits, saw>>

WaitReadTerminal(w) ==
  /\ wpc[w] = "terminal"
  /\ saw' = [saw EXCEPT ![w] = terminal]
  /\ WGoto(w, IF terminal = "none" THEN "active" ELSE "returned")
  /\ UNCHANGED <<untouchedByWaits, sessionGateVars>>

WaitReadActive(w) ==
  /\ wpc[w] = "active"
  /\ WGoto(w, IF activeRun = None THEN "returned" ELSE "sleeping")
  /\ UNCHANGED <<untouchedByWaits, sessionGateVars, saw>>

WaitChanged(w) ==
  /\ wpc[w] = "sleeping"
  /\ bumped[w]
  /\ SeeVersion(w)
  /\ WGoto(w, "terminal")
  /\ UNCHANGED <<untouchedByWaits, saw>>

-----------------------------------------------------------------------------
(* Operations that are one step and belong to no task. *)

(* chat.queued_prompts.remove *)
RemoveQueued(p) ==
  /\ "remove" \in UserOps
  /\ Remove(p)
  /\ UNCHANGED <<mutationVars, gateVars, sessionGateVars, chatVars, others>>

(* chat.clear takes neither the session permit nor a reservation. *)
ClearChat ==
  /\ "clear" \in UserOps
  /\ history' = <<>>
  /\ BeginTurn
  /\ UNCHANGED <<mutationVars, queue, gateVars, activeRun, pc, batch, view,
                 finaliser, accepted, others>>

(* The process stops and starts again.  The queue and the journal are in    *)
(* SQLite; everything else is new, calls in progress are gone, and nothing  *)
(* drains the queue at start.                                               *)
Crash ==
  /\ crashes < MaxCrashes
  /\ crashes' = crashes + 1
  /\ RestartMutations
  /\ RestartGate
  /\ RestartSessionGate
  /\ activeRun' = None
  /\ pc' = [c \in Chats |-> IF pc[c] = "new" THEN "new" ELSE "done"]
  /\ finaliser' = [c \in Chats |-> "none"]
  /\ spc' = [s \in Stoppers |-> IF spc[s] = "new" THEN "new" ELSE "failed"]
  /\ mpc' = [m \in Mutators |-> IF mpc[m] = "new" THEN "new" ELSE "done"]
  /\ wpc' = [w \in Waiters |-> IF wpc[w] = "new" THEN "new" ELSE "returned"]
  /\ UNCHANGED <<queue, history, accepted, batch, view, expected, seen,
                 snapEpoch, waitFor, saw>>

-----------------------------------------------------------------------------
(* The calls arrive when they like; so do a user's operations and failures. *)
(* A step of a call that has begun is taken by the runtime, unless its      *)
(* caller drops it first.                                                   *)

SendStep(c) ==
  \/ AcquireTurn(c) \/ EnqueueBegin(c) \/ EnqueueCommit(c) \/ FinishEnqueue(c)
  \/ Attach(c) \/ DropUnattached(c)
  \/ CheckSuppressed(c) \/ DrainQueue(c) \/ StartQueuedBatch(c)
  \/ OwnerDropsTurn(c) \/ OwnerDropsHolder(c)

TurnStep(c) ==
  \/ LoadHistory(c) \/ AppendTurn(c) \/ Confirm(c) \/ Activate(c) \/ Publish(c)
  \/ Finish(c) \/ UnsetActive(c) \/ DropGuard(c)

ChatStep(c) == TurnStep(c) \/ (c \in Sends /\ SendStep(c))

FinaliserStep(c) == FinaliseRun(c) \/ FinaliseActive(c)

(* A run whose token is cancelled ends: the streaming loop and the tool     *)
(* loop select on the token.                                                *)
CancelledRunEnds(c) == Run(c) \in token /\ \E t \in Terminals : RunEnds(c, t)

SendFails(c) == EnqueueFails(c) \/ DrainFails(c)

TurnFails(c) ==
  StartFails(c) \/ PrepareFails(c) \/ CallDropped(c) \/ RunDies(c)

StopStep(s) ==
  \/ StopLook(s) \/ StopCapture(s) \/ StopAwait(s) \/ StopSnapshot(s)
  \/ StopWake(s) \/ StopClear(s) \/ StopRecheck(s) \/ StopEnd(s)

MutationStep(m) ==
  \/ MutationStopped(m) \/ Acquire(m) \/ Mutate(m)
  \/ MutationDropsGate(m) \/ MutationDropsTurn(m)

WaitStep(w) == WaitReadTerminal(w) \/ WaitReadActive(w) \/ WaitChanged(w)

(* Every call has returned; any other state without a step is a deadlock. *)
AllReturned ==
  /\ \A c \in Chats : pc[c] = "done" /\ finaliser[c] = "none"
  /\ \A s \in Stops : spc[s] \in {"stopped", "failed", "mismatch"}
  /\ \A m \in Mutators : mpc[m] = "done"
  /\ \A w \in Waiters : wpc[w] = "returned"
  /\ UNCHANGED vars

Next ==
  \/ \E c \in Chats :
       \/ SendBegin(c) \/ SendRefused(c)
       \/ TurnStep(c) \/ TurnFails(c) \/ FinaliserStep(c)
       \/ RunAppends(c)
       \/ \E t \in Terminals : RunEnds(c, t)
       \/ StopRun(c)
  \/ \E c \in Sends : SendStep(c) \/ SendFails(c) \/ RemoveQueued(c)
  \/ \E s \in Stoppers :
       \/ \E e \in Chats \cup {None} : StopChoose(s, e) \/ StopMismatch(s, e)
       \/ StopStep(s) \/ StopDropped(s)
  \/ \E m \in Mutators : Reserve(m) \/ MutationStep(m)
  \/ \E w \in Waiters : WaitSubscribe(w) \/ WaitStep(w)
  \/ ClearChat
  \/ Crash
  \/ AllReturned

Spec == Init /\ [][Next]_vars

(* A truncation starts its own stop once it has reserved the session. *)
Fairness ==
  /\ \A c \in Chats : /\ WF_vars(ChatStep(c))
                      /\ WF_vars(FinaliserStep(c))
                      /\ WF_vars(CancelledRunEnds(c))
  /\ \A s \in Stoppers : WF_vars(StopStep(s))
  /\ \A m \in Truncators : WF_vars(StopChoose(m, None))
  /\ \A m \in Mutators : WF_vars(MutationStep(m))
  /\ \A w \in Waiters : WF_vars(WaitStep(w))

FairSpec == Spec /\ Fairness

(* As FairSpec, for runs that come to an end by themselves. *)
EndingSpec ==
  /\ FairSpec
  /\ \A c \in Chats : WF_vars(\E t \in Terminals : RunEnds(c, t))

-----------------------------------------------------------------------------
(* Sets of places. *)

ChatPlaces ==
  {"new", "acquiring", "busy", "enqueueing", "enqueued", "attaching",
   "unattached", "loading", "appending", "confirming", "activating",
   "publishing", "running", "finishOk", "finishErr", "unsetting", "finalGate",
   "drained", "draining", "arming", "dropTurn", "dropHolder", "dropGuard",
   "done"}

(* A turn that is being started or runs, for any chat call. *)
TurnPlaces ==
  {"loading", "appending", "confirming", "activating", "publishing", "running",
   "finishOk", "finishErr"}

(* Where a send holds a PermitRelease, and where it holds the semaphore. *)
HolderPlaces ==
  TurnPlaces \cup {"unsetting", "finalGate", "draining", "drained", "arming",
                   "dropTurn", "dropHolder"}

PermitPlaces ==
  (HolderPlaces \ {"dropHolder"}) \cup {"attaching", "unattached"}

(* Where a stop has raised the depth and not yet taken it back. *)
StopPlaces ==
  {"looking", "capturing", "awaiting", "snapshot", "sleeping", "clearing",
   "rechecking", "ending", "failing"}

Holders == {c \in Sends : pc[c] \in HolderPlaces}
ActiveStops == {s \in Stoppers : spc[s] \in StopPlaces}

TypeOKChats ==
  /\ activeRun \in Chats \cup {None}
  /\ history \in Seq(Records)
  /\ pc \in [Chats -> ChatPlaces]
  /\ batch \in [Chats -> Seq(Chats) \ {<<>>}]
  /\ view \in [Chats -> Seq(Records)]
  /\ finaliser \in [Chats -> {"none", "finish", "unset"}]
  /\ accepted \in Seq(Sends)

TypeOKStops ==
  /\ spc \in [Stoppers -> StopPlaces \cup {"new", "stopped", "failed", "mismatch"}]
  /\ expected \in [Stoppers -> Chats \cup {None}]
  /\ seen \in [Stoppers -> Nat]
  /\ snapEpoch \in [Stoppers -> Nat]
  /\ waitFor \in [Stoppers -> Chats \cup {None}]

TypeOKTasks ==
  /\ mpc \in [Mutators -> {"new", "reserved", "acquiring", "mutating",
                           "dropGate", "dropTurn", "done"}]
  /\ wpc \in [Waiters -> {"new", "terminal", "active", "sleeping", "returned"}]
  /\ saw \in [Waiters -> Terminals \cup {"none"}]
  /\ crashes \in Nat

(* The program counters and the shared state have their types. *)
TypeOK ==
  /\ TypeOKMutations
  /\ TypeOKQueue
  /\ TypeOKGate
  /\ TypeOKSessionGate
  /\ TypeOKChats
  /\ TypeOKStops
  /\ TypeOKTasks

-----------------------------------------------------------------------------
(* Safety. *)

(* The turn semaphore is held by exactly the send or the mutation that the  *)
(* code believes holds it, so two of them are never in a turn or a mutation *)
(* at once; the gate likewise.                                              *)
PermitExclusion ==
  /\ \A c \in Sends : (turn = c) <=> (pc[c] \in PermitPlaces)
  /\ \A m \in Mutators :
       /\ mpc[m] = "mutating" => turn = m
       /\ turn = m => mpc[m] \in {"mutating", "dropGate", "dropTurn"}
       /\ (gate = m) <=>
            (mpc[m] \in {"reserved", "acquiring", "mutating", "dropGate"})

(* permit_holders counts the sends that own a PermitRelease, although the   *)
(* count moves only after the semaphore permit is back, and stop_depth the  *)
(* stops in progress, although they overlap; the session is suppressed      *)
(* exactly while there is one.                                              *)
CountersExact ==
  /\ permitHolders = Cardinality(Holders)
  /\ stopDepth = Cardinality(ActiveStops)
  /\ suppressed <=> ActiveStops /= {}

(* Once a stop has seen the gate idle, and until its depth is taken back,   *)
(* no turn of a send is in flight, none of a send_sync is, no run is        *)
(* published, no call can still add to the queue, and after the clear the   *)
(* queue stays empty: a stop that returns leaves nothing to start.          *)
StopQuiesces ==
  \A s \in Stoppers : spc[s] \in {"clearing", "rechecking", "ending"} =>
    /\ GateIdle
    /\ runs = {}
    /\ \A c \in Chats : pc[c] \notin TurnPlaces \cup {"enqueueing", "enqueued",
                                                      "draining", "arming"}
    /\ spc[s] /= "clearing" => queue = <<>>

(* A stop asleep with no wakeup under way has something to wait for: a      *)
(* guard or a permit holder whose end will notify it, and every run still   *)
(* executing has been cancelled.  With send_sync calls beside sends the     *)
(* second part does not hold (see OverlappingStopReturns).                  *)
StopNeverOversleeps ==
  \A s \in Stoppers : spc[s] = "sleeping" /\ ~woken[s] =>
    /\ ~GateIdle
    /\ \A c \in Chats : pc[c] = "running" => Run(c) \in token

(* The call that carries a drained batch or its own prompt to the journal. *)
Carriers == {c \in Chats : pc[c] \in {"drained", "arming", "loading", "appending"}}

InHistory(p) == \E i \in DOMAIN history : history[i] = User(p)
InBatch(c, p) == \E i \in DOMAIN batch[c] : batch[c][i] = p

(* A prompt is in one place at most: once in the journal, or once in the    *)
(* queue, or in the batch of one call.  No drain, conflict, failure,        *)
(* truncation or restart makes it run twice.                                *)
AtMostOnce ==
  /\ \A i, j \in DOMAIN history :
       history[i] = history[j] /\ history[i].role = "user" => i = j
  /\ \A i, j \in DOMAIN queue : queue[i] = queue[j] => i = j
  /\ \A p \in Chats :
       /\ Queued(p) => ~InHistory(p)
       /\ \A c \in Carriers : InBatch(c, p) =>
            /\ ~Queued(p)
            /\ ~InHistory(p)
            /\ \A d \in Carriers : InBatch(d, p) => d = c

(* Position of p in sequence s, which holds it. *)
Before(s, p, q) == \E i, j \in DOMAIN s : i < j /\ s[i] = p /\ s[j] = q

(* Queued prompts reach the journal in the order of their rows: while an    *)
(* earlier one waits or is carried, no later one is ahead of it.            *)
FifoOrder ==
  \A p, q \in Sends : Before(accepted, p, q) =>
    /\ ~Before(history, User(q), User(p))
    /\ ~Before(queue, q, p)
    /\ InHistory(q) => ~Queued(p) /\ \A c \in Carriers : ~InBatch(c, p)
    /\ \A c \in Carriers : InBatch(c, q) => ~Queued(p) /\ ~Before(batch[c], q, p)

StartsWith(s, t) == Len(t) <= Len(s) /\ SubSeq(s, 1, Len(t)) = t

(* While a turn is between its append and the end of its run, the journal   *)
(* starts with the history the turn was built from, then its own prompts:   *)
(* the model answers the conversation that is stored.                       *)
TurnSeesItsHistory ==
  \A c \in Chats :
    pc[c] \in {"confirming", "activating", "publishing", "running"} =>
      StartsWith(history, view[c] \o UserRecords(batch[c]))

(* A run that was published, whether or not it has ended. *)
Published(r) == r \in runs \/ result[r] /= "none"

(* A call dropped between activate_session_turn and the publication of its  *)
(* run, before RunFinishGuard is armed: nobody takes the run out.           *)
Orphaned(c) ==
  /\ "dropped" \in Faults
  /\ pc[c] \in {"dropTurn", "dropHolder", "dropGuard", "done"}
  /\ ~Published(Run(c))

(* active_runs_by_session names a published run only while some task is     *)
(* still bound to take it out, whatever fails, panics or is dropped: the    *)
(* session does not look busy for good.  The exception is a run that never  *)
(* came to be, whose call was dropped after it was activated.               *)
NoGhostActive ==
  activeRun /= None =>
    \E c \in Chats :
      /\ Run(c) = activeRun
      /\ \/ pc[c] \in {"publishing", "running", "finishOk", "finishErr",
                       "unsetting"}
         \/ finaliser[c] /= "none"
         \/ Orphaned(c)

(* A waiter asleep with no version change to see is waiting for a turn that *)
(* is active and has no terminal yet: no final gate is slept through.       *)
WaiterNotStranded ==
  \A w \in Waiters : wpc[w] = "sleeping" /\ ~bumped[w] =>
    activeRun /= None /\ terminal = "none"

-----------------------------------------------------------------------------
(* Liveness. *)

(* A stop that began returns, although nothing makes an uncancelled run end.*)
StopReturns ==
  \A s \in Stoppers : spc[s] = "looking" ~> spc[s] \in {"stopped", "failed"}

(* The same, where send_sync calls run beside sends. *)
OverlappingStopReturns ==
  \A s \in Stops : spc[s] = "looking" ~> spc[s] \in {"stopped", "failed"}

(* A truncation that reserved the session returns. *)
TruncationReturns ==
  \A m \in Truncators : mpc[m] = "reserved" ~> mpc[m] = "done"

(* A call that waits for the session's final gate returns. *)
WaitReturns == \A w \in Waiters : wpc[w] /= "new" ~> wpc[w] = "returned"

(* Every call that is made returns, and a send gives the session up, when   *)
(* runs end; so does every mutation and every wait for the final gate.      *)
CallsReturn ==
  /\ \A c \in Chats : pc[c] /= "new" ~> pc[c] = "done"
  /\ \A m \in Mutators : mpc[m] /= "new" ~> mpc[m] = "done"
  /\ WaitReturns

(* A queued prompt does not stay in the queue for ever. *)
QueuedIsSubmitted == \A p \in Sends : Queued(p) ~> ~Queued(p)
=============================================================================
