------------------------------ MODULE RunEvents ------------------------------
(***************************************************************************)
(* crates/chat/src/agent_loop.rs and the event forwarder of                *)
(* run_with_tools.rs: the ordered queue from the agent loop of one run to  *)
(* the task that journals its events, and the receipts of tool lifecycle   *)
(* updates.                                                                *)
(*                                                                         *)
(* A queued event is a lifecycle update [call, stage] or a plain event     *)
(* [call |-> "none", stage |-> name].  The barrier's two counters occur    *)
(* only in the difference of sent and processed events, `backlog'.         *)
(***************************************************************************)
EXTENDS RunCalls

VARIABLES queue,          \* mpsc channel of OrderedRunnerEvent
          backlog,        \* RunnerEventBarrier: sent - processed
          stage,          \* last lifecycle stage queued for a call
          receipt,        \* the receipt the emitter of a call waits for
          journal,        \* last lifecycle stage journalled for a call
          pendingInputs,  \* calls with accumulated input not yet journalled
          framed,         \* calls whose assistant tool frame is persisted
          forwarder,      \* the task: "running", "failed" or "finished"
          draft           \* active_partial_assistant has the session

eventVars == <<queue, backlog, stage, receipt, journal, pendingInputs, framed,
               forwarder, draft>>

Terminal == {"completed", "rejected", "cancelled"}
Stages == {"none", "created", "input_streaming", "input_ready", "waiting",
           "executing", "execution_progress", "result_ready"} \cup Terminal

InitEvents ==
  /\ queue = <<>>
  /\ backlog = 0
  /\ stage = [c \in Calls |-> "none"]
  /\ receipt = [c \in Calls |-> "none"]
  /\ journal = [c \in Calls |-> "none"]
  /\ pendingInputs = {}
  /\ framed = {}
  /\ forwarder = "running"
  /\ draft = TRUE

-----------------------------------------------------------------------------
(* on_tool_lifecycle: every stage but input streaming awaits its receipt.  *)
(* A closed channel refuses the update.                                    *)
Emit(c, s) ==
  /\ IF forwarder = "running"
       THEN /\ queue' = Append(queue, [call |-> c, stage |-> s])
            /\ backlog' = backlog + 1
            /\ stage' = [stage EXCEPT ![c] = s]
            /\ receipt' = [receipt EXCEPT ![c] =
                             IF s = "input_streaming" THEN "ok" ELSE "wait"]
       ELSE /\ receipt' = [receipt EXCEPT ![c] = "err"]
            /\ UNCHANGED <<queue, backlog, stage>>
  /\ UNCHANGED <<journal, pendingInputs, framed, forwarder, draft>>

(* on_event: a plain event; a closed channel drops it silently. *)
Publish(name) ==
  /\ IF forwarder = "running"
       THEN /\ queue' = Append(queue, [call |-> "none", stage |-> name])
            /\ backlog' = backlog + 1
       ELSE UNCHANGED <<queue, backlog>>
  /\ UNCHANGED <<stage, receipt, journal, pendingInputs, framed, forwarder,
                 draft>>

-----------------------------------------------------------------------------
(* The forwarder. *)

(* persist_tool_segment finds no draft for the session, or a terminal      *)
(* update has no assistant frame.                                          *)
Refused(e) ==
  \/ e.stage = "input_ready" /\ e.call \notin framed /\ ~draft
  \/ e.stage \in {"completed", "rejected"} /\ e.call \notin framed

(* The receipt goes to the emitter if it still waits for this update. *)
Answered(e) ==
  [c \in Calls |-> IF c = e.call /\ receipt[c] = "wait" /\ stage[c] = e.stage
                     THEN "ok" ELSE receipt[c]]

(* One event is processed; `calls' is the batch an input-ready update      *)
(* carries, persisted as one assistant frame.                              *)
Forward(calls) ==
  /\ forwarder = "running" /\ queue # <<>>
  /\ LET e == Head(queue)
     IN  /\ ~Refused(e)
         /\ receipt' = Answered(e)
         /\ framed' = IF e.stage = "input_ready" THEN framed \cup calls
                                                 ELSE framed
         /\ pendingInputs' = IF e.stage = "input_streaming"
                               THEN pendingInputs \cup {e.call}
                               ELSE pendingInputs \ {e.call}
         /\ journal' = [c \in Calls |-> IF c = e.call
                                          THEN e.stage ELSE journal[c]]
  /\ queue' = Tail(queue)
  /\ backlog' = backlog - 1
  /\ UNCHANGED <<stage, forwarder, draft>>

(* Processing the head failed: the loop breaks, the channel is dropped     *)
(* with the events still in it, and so are the receipts they carry.  The   *)
(* guard counts the failed event as processed, the dropped ones never are. *)
ForwarderFails ==
  /\ forwarder = "running" /\ queue # <<>>
  /\ forwarder' = "failed"
  /\ queue' = <<>>
  /\ backlog' = backlog - 1
  /\ receipt' = [c \in Calls |-> IF receipt[c] = "wait" THEN "err"
                                                        ELSE receipt[c]]
  /\ UNCHANGED <<stage, journal, pendingInputs, framed, draft>>

(* The senders are gone and the queue is drained. *)
ForwarderFinishes ==
  /\ forwarder = "running" /\ queue = <<>>
  /\ forwarder' = IF pendingInputs = {} THEN "finished" ELSE "failed"
  /\ UNCHANGED <<queue, backlog, stage, receipt, journal, pendingInputs,
                 framed, draft>>

(* An event in the queue. *)
Events ==
  [call : Calls, stage : Stages \ {"none"}]
    \cup [call : {"none"}, stage : {"iteration", "update", "close"}]

TypeOKEvents ==
  /\ queue \in Seq(Events)
  /\ backlog \in Nat
  /\ stage \in [Calls -> Stages]
  /\ receipt \in [Calls -> {"none", "wait", "ok", "err"}]
  /\ journal \in [Calls -> Stages]
  /\ pendingInputs \subseteq Calls
  /\ framed \subseteq Calls
  /\ forwarder \in {"running", "failed", "finished"}
  /\ draft \in BOOLEAN
=============================================================================
