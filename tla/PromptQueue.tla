----------------------------- MODULE PromptQueue -----------------------------
(***************************************************************************)
(* The durable queue of crates/sessions/src/prompt_queue.rs, for one       *)
(* session key: the rows of session_prompt_queue in ascending id order.    *)
(* One receiver executes the commands one after the other, so each command *)
(* is one step.  A prompt's content is the identity of the chat.send call  *)
(* that brought it.                                                        *)
(***************************************************************************)
EXTENDS SessionCalls

VARIABLE queue

Queued(p) == \E i \in DOMAIN queue : queue[i] = p

InitQueue == queue = <<>>

(* Mutant: the newest row comes first. *)
EnqueueFirst(p) == queue' = <<p>> \o queue

Enqueue(p) == queue' = Append(queue, p)

(* Deletes exactly one row; an unknown id is an error. *)
Remove(p) ==
  \E i \in DOMAIN queue :
    /\ queue[i] = p
    /\ queue' = SubSeq(queue, 1, i - 1) \o SubSeq(queue, i + 1, Len(queue))

(* Mutant: the batch is read and stays. *)
DrainKeeps(batch) ==
  /\ queue = batch
  /\ UNCHANGED queue

(* Reads the ordered batch and deletes it in one transaction. *)
Drain(batch) ==
  /\ queue = batch
  /\ queue' = <<>>

Clear == queue' = <<>>

(* Every step of the service. *)
QueueNext ==
  \/ \E p \in Sends : Enqueue(p) \/ Remove(p)
  \/ Drain(queue)
  \/ Clear

TypeOKQueue == queue \in Seq(Sends)
=============================================================================
