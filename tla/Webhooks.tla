------------------------------ MODULE Webhooks ------------------------------
(***************************************************************************)
(* Webhook deliveries: the ingress of crates/httpd/src/server/gateway.rs,  *)
(* the delivery table and the worker of crates/webhooks/src.               *)
(*                                                                         *)
(* One webhook, whose removal deletes its deliveries.  A request inserts   *)
(* at most one delivery, which has its name.  What is answered before the  *)
(* delivery is stored (authentication, filter, size, rate limit) is one    *)
(* step with any of its answers.                                           *)
(***************************************************************************)
EXTENDS Naturals, Sequences, FiniteSets

CONSTANTS Requests,     \* HTTP requests
          Keys,         \* delivery keys
          Capacity,     \* capacity of the worker's channel
          MaxRestarts,  \* bound on crashes
          HookFaults    \* "store": an operation of the table may fail;
                        \* "dropped": a client may disconnect

NoKey == "no key"

ASSUME WebhookAssumption ==
  /\ IsFiniteSet(Requests)
  /\ {Capacity, MaxRestarts} \subseteq Nat /\ Capacity > 0
  /\ NoKey \notin Keys
  /\ HookFaults \subseteq {"store", "dropped"}

VARIABLES keyOf,       \* the key the source profile parses from a request
          http,        \* where a request is, or its answer
          delivery,    \* status of the row of a request
          hook,        \* the webhook exists
          channel,     \* mpsc channel of delivery ids
          worker,      \* where the worker is
          current,     \* the delivery it processes
          backlogIds,  \* unfinished deliveries it found at its start
          restarts,
          runs,        \* history: agent runs of a delivery
          interrupted, \* history: crashes and failures while a delivery was run
          raced,       \* history: listed at the start while its request ran
          lost         \* history: stored deliveries that this process has given up

ingressVars == <<http, delivery, hook, channel>>
workerVars == <<worker, current, backlogIds, restarts>>
auditVars == <<runs, interrupted, raced, lost>>
hookVars == <<keyOf, ingressVars, workerVars, auditVars>>

None == "none"
Answers == {"refused", "deduplicated", "500", "202", "broken", "dropped"}
Unfinished == {"queued", "processing"}

InitWebhooks ==
  /\ keyOf \in [Requests -> Keys \cup {NoKey}]
  /\ http = [r \in Requests |-> "new"]
  /\ delivery = [r \in Requests |-> None]
  /\ hook = TRUE
  /\ channel = <<>>
  /\ worker = "off"
  /\ current = None
  /\ backlogIds = <<>>
  /\ restarts = 0
  /\ runs = [r \in Requests |-> 0]
  /\ interrupted = [r \in Requests |-> 0]
  /\ raced = {}
  /\ lost = {}

-----------------------------------------------------------------------------
(* The ingress.  A request is handled by its own task while the process    *)
(* is up.                                                                  *)
Up == worker # "off"
At(r, l) == Up /\ http[r] = l
Step(r, l) == http' = [http EXCEPT ![r] = l]
KeepWorker == UNCHANGED <<keyOf, workerVars, auditVars>>

(* Lookup, secrets, allowlist, size, authentication, event filter and rate *)
(* limit, in this order and before the dedup check.                        *)
Admit(r) ==
  /\ At(r, "new")
  /\ \/ Step(r, "refused")
     \/ hook /\ Step(r, "dedup")
  /\ UNCHANGED <<delivery, hook, channel>> /\ KeepWorker

SameKey(r, q) == keyOf[q] = keyOf[r] /\ keyOf[r] # NoKey
KeyTaken(r) == \E q \in Requests : SameKey(r, q) /\ delivery[q] # None

(* check_duplicate; a failed check is ignored. *)
CheckDuplicate(r) ==
  /\ At(r, "dedup")
  /\ \/ KeyTaken(r) /\ Step(r, "deduplicated")
     \/ ~KeyTaken(r) /\ Step(r, "insert")
     \/ "store" \in HookFaults /\ Step(r, "insert")
  /\ UNCHANGED <<delivery, hook, channel>> /\ KeepWorker

(* Mutant: the table has no unique index on the key. *)
InsertDeliveryTwice(r) ==
  /\ At(r, "insert")
  /\ IF hook THEN Step(r, "send") /\ delivery' = [delivery EXCEPT ![r] = "queued"]
             ELSE Step(r, "500") /\ UNCHANGED delivery
  /\ UNCHANGED <<hook, channel>> /\ KeepWorker

(* insert_delivery: the unique index refuses a second row with the key,    *)
(* the foreign key one without its webhook.                                *)
InsertDelivery(r) ==
  /\ At(r, "insert")
  /\ \/ /\ hook /\ ~KeyTaken(r)
        /\ Step(r, "send") /\ delivery' = [delivery EXCEPT ![r] = "queued"]
     \/ /\ ~hook \/ KeyTaken(r) \/ "store" \in HookFaults
        /\ Step(r, "500") /\ UNCHANGED delivery
  /\ UNCHANGED <<hook, channel>> /\ KeepWorker

(* The delivery is counted, tx.send waits for room in the channel, and the *)
(* request is accepted, unless it is dropped meanwhile.                    *)
Enqueue(r) ==
  /\ At(r, "send")
  /\ Len(channel) < Capacity
  /\ channel' = Append(channel, r)
  /\ Step(r, "202")
  /\ UNCHANGED <<delivery, hook>> /\ KeepWorker

(* The server drops the handler of a client that disconnects, at an await: *)
(* of the duplicate check, of the insertion (which the table may still     *)
(* complete), of the count or of tx.send.  A row that is in is then sent   *)
(* to nobody, and waits for the next start of a worker that has not listed *)
(* it.  A request dropped before is one that is refused.                   *)
RequestDropped(r) ==
  /\ "dropped" \in HookFaults
  /\ Step(r, "dropped")
  /\ \/ At(r, "dedup") /\ UNCHANGED <<delivery, lost>>
     \/ At(r, "insert") /\ UNCHANGED <<delivery, lost>>
     \/ /\ At(r, "insert") /\ hook /\ ~KeyTaken(r)
        /\ delivery' = [delivery EXCEPT ![r] = "queued"]
        /\ lost' = IF worker = "starting" THEN lost ELSE lost \cup {r}
     \/ /\ At(r, "send") /\ UNCHANGED delivery
        /\ lost' = IF worker = "starting" \/ r \in raced THEN lost ELSE lost \cup {r}
  /\ UNCHANGED <<keyOf, hook, channel, workerVars, runs, interrupted, raced>>

(* delete_webhook: one transaction. *)
DeleteWebhook ==
  /\ Up /\ hook
  /\ hook' = FALSE
  /\ delivery' = [r \in Requests |-> None]
  /\ UNCHANGED <<http, channel>> /\ KeepWorker

-----------------------------------------------------------------------------
(* The worker. *)
KeepIngress == UNCHANGED <<keyOf, http, hook>>

(* The process starts: it serves requests, and its worker has yet to run. *)
Boot ==
  /\ worker = "off"
  /\ worker' = "starting"
  /\ UNCHANGED <<delivery, channel, current, backlogIds, restarts, auditVars>>
  /\ KeepIngress

Orders(ids) == {s \in [1 .. Cardinality(ids) -> ids] :
                  \A i, j \in DOMAIN s : s[i] = s[j] => i = j}

(* Mutant: a delivery that was being processed is not taken up again. *)
ListUnprocessedQueued ==
  /\ worker = "starting"
  /\ worker' = "next"
  /\ LET ids == {r \in Requests : delivery[r] = "queued"}
     IN  /\ backlogIds' \in Orders(ids)
         /\ raced' = raced \cup {r \in ids : http[r] \in {"send", "202"}}
  /\ UNCHANGED <<delivery, channel, current, restarts, runs, interrupted, lost>>
  /\ KeepIngress

(* Mutant: every delivery but the failed ones is taken up again. *)
ListUnprocessedCompleted ==
  /\ worker = "starting"
  /\ worker' = "next"
  /\ LET ids == {r \in Requests : delivery[r] \in Unfinished \cup {"completed"}}
         queued == {channel[i] : i \in DOMAIN channel}
     IN  /\ backlogIds' \in Orders(ids)
         /\ raced' = raced \cup {r \in ids : http[r] = "send" \/ r \in queued}
  /\ UNCHANGED <<delivery, channel, current, restarts, runs, interrupted, lost>>
  /\ KeepIngress

(* list_unprocessed_deliveries, in the order they were received (any order *)
(* here); a failed list is skipped.  A request of this process that has    *)
(* its row is listed too, and comes again through the channel.             *)
ListUnprocessed ==
  /\ worker = "starting"
  /\ worker' = "next"
  /\ LET ids == {r \in Requests : delivery[r] \in Unfinished}
         queued == {channel[i] : i \in DOMAIN channel}
     IN  \/ /\ backlogIds' \in Orders(ids)
            /\ raced' = raced \cup {r \in ids : http[r] = "send" \/ r \in queued}
            /\ UNCHANGED lost
         \/ /\ "store" \in HookFaults
            /\ backlogIds' = <<>>
            /\ lost' = lost \cup ids
            /\ UNCHANGED raced
  /\ UNCHANGED <<delivery, channel, current, restarts, runs, interrupted>>
  /\ KeepIngress

(* What the worker found at its start comes before the channel. *)
TakeNext ==
  /\ worker = "next"
  /\ worker' = "marking"
  /\ \/ /\ backlogIds # <<>>
        /\ current' = Head(backlogIds) /\ backlogIds' = Tail(backlogIds)
        /\ UNCHANGED channel
     \/ /\ backlogIds = <<>> /\ channel # <<>>
        /\ current' = Head(channel) /\ channel' = Tail(channel)
        /\ UNCHANGED backlogIds
  /\ UNCHANGED <<delivery, restarts, auditVars>> /\ KeepIngress

SetStatus(st) ==
  delivery' = [delivery EXCEPT ![current] = IF @ = None THEN None ELSE st]

(* process_delivery: marked as processing, loaded, run by the agent (or    *)
(* delivered to a channel), and its result stored.  An update of a deleted *)
(* row changes nothing; a deleted row or webhook cannot be loaded.         *)
MarkProcessing ==
  /\ worker = "marking"
  /\ worker' = "loading"
  /\ SetStatus("processing")
  /\ UNCHANGED <<channel, current, backlogIds, restarts, auditVars>> /\ KeepIngress

Load ==
  /\ worker = "loading"
  /\ IF delivery[current] = None
       THEN worker' = "next" /\ current' = None /\ UNCHANGED runs
       ELSE /\ worker' = "running" /\ UNCHANGED current
            /\ runs' = [runs EXCEPT ![current] = @ + 1]
  /\ UNCHANGED <<delivery, channel, backlogIds, restarts, interrupted, raced, lost>>
  /\ KeepIngress

Finish(st) ==
  /\ worker = "running"
  /\ worker' = "next"
  /\ SetStatus(st)
  /\ current' = None
  /\ UNCHANGED <<channel, backlogIds, restarts, auditVars>> /\ KeepIngress

(* An operation on the table fails: the delivery stays as it is. *)
ProcessingFails ==
  /\ "store" \in HookFaults
  /\ worker \in {"marking", "loading", "running"}
  /\ worker' = "next"
  /\ lost' = lost \cup {current}
  /\ interrupted' = IF worker = "running"
                      THEN [interrupted EXCEPT ![current] = @ + 1] ELSE interrupted
  /\ current' = None
  /\ UNCHANGED <<delivery, channel, backlogIds, restarts, runs, raced>>
  /\ KeepIngress

(* The process stops: the channel and the requests are gone. *)
CrashWebhooks ==
  /\ Up /\ restarts < MaxRestarts
  /\ restarts' = restarts + 1
  /\ worker' = "off"
  /\ http' = [r \in Requests |-> IF http[r] \in Answers \cup {"new"}
                                   THEN http[r] ELSE "broken"]
  /\ channel' = <<>>
  /\ backlogIds' = <<>>
  /\ interrupted' = IF worker = "running"
                      THEN [interrupted EXCEPT ![current] = @ + 1] ELSE interrupted
  /\ current' = None
  /\ lost' = {}
  /\ UNCHANGED <<keyOf, delivery, hook, runs, raced>>

-----------------------------------------------------------------------------
RequestSteps(r) == Admit(r) \/ CheckDuplicate(r) \/ InsertDelivery(r) \/ Enqueue(r)

WorkerSteps ==
  \/ ListUnprocessed \/ TakeNext \/ MarkProcessing \/ Load
  \/ \E st \in {"completed", "failed"} : Finish(st)

NextWebhooks ==
  \/ \E r \in Requests : RequestSteps(r) \/ RequestDropped(r)
  \/ WorkerSteps \/ Boot \/ DeleteWebhook \/ ProcessingFails
  \/ CrashWebhooks

(* A request is polled as long as its client stays: one that is dropped    *)
(* has no steps left to be fair to, and nothing says whether it will be    *)
(* dropped.  The worker is a task, an agent run ends, and a process that   *)
(* stopped is started again.                                               *)
WebhookFairness ==
  /\ \A r \in Requests : WF_hookVars(RequestSteps(r))
  /\ WF_hookVars(WorkerSteps)
  /\ WF_hookVars(Boot)

WebhookSpec == InitWebhooks /\ [][NextWebhooks]_hookVars /\ WebhookFairness

-----------------------------------------------------------------------------
(* Properties. *)

WebhookTypeOK ==
  /\ http \in [Requests -> Answers \cup {"new", "dedup", "insert", "send"}]
  /\ delivery \in [Requests -> {None, "queued", "processing", "completed", "failed"}]
  /\ worker \in {"off", "starting", "next", "marking", "loading", "running"}
  /\ current \in Requests \cup {None}
  /\ Len(channel) <= Capacity
  /\ \A r \in Requests : runs[r] \in Nat

(* Of the requests with one key at most one is accepted and run, also when *)
(* they arrive together.                                                   *)
OneDeliveryPerKey ==
  \A r, q \in Requests :
    SameKey(r, q) /\ runs[r] > 0 /\ runs[q] > 0 => r = q

(* A delivery is run once, and once more for every crash or failed update  *)
(* that kept its result from the table.  The one other repetition: the     *)
(* worker lists it at its start while its request is still served, and it  *)
(* comes again through the channel.                                        *)
RunOnce ==
  \A r \in Requests :
    runs[r] <= 1 + interrupted[r] + (IF r \in raced THEN 1 ELSE 0)

(* A stored delivery comes to its end, unless its webhook is deleted or    *)
(* this process gave it up: an operation of the table failed, or the       *)
(* request was dropped before tx.send had queued it.  A process that       *)
(* starts gives up nothing: it must finish what the last one gave up.      *)
Finishes(r) ==
  delivery[r] = "queued" ~> delivery[r] \in {None, "completed", "failed"} \/ r \in lost
=============================================================================
