-------------------------- MODULE Webhooks_proofs --------------------------
(***************************************************************************)
(* Webhook deliveries, for any number of requests, keys and restarts and   *)
(* any capacity of the channel: a key is delivered once, and a delivery is *)
(* run once but for what interrupts it.                                    *)
(***************************************************************************)
EXTENDS Webhooks, FiniteSetTheorems, TLAPS

Busy == {"marking", "loading", "running"}

HookTypes ==
  /\ keyOf \in [Requests -> Keys \cup {NoKey}]
  /\ http \in [Requests -> Answers \cup {"new", "dedup", "insert", "send"}]
  /\ delivery \in [Requests -> {None, "queued", "processing", "completed", "failed"}]
  /\ hook \in BOOLEAN
  /\ channel \in Seq(Requests)
  /\ Len(channel) <= Capacity
  /\ worker \in {"off", "starting", "next"} \cup Busy
  /\ current \in Requests \cup {None}
  /\ worker \in Busy => current \in Requests
  /\ backlogIds \in Seq(Requests)
  /\ runs \in [Requests -> Nat]
  /\ interrupted \in [Requests -> Nat]

(* What holds of keys: rows with one key are one row, and a run has a row  *)
(* as long as the webhook exists.                                          *)
KeysUnique ==
  \A r, q \in Requests :
    SameKey(r, q) /\ delivery[r] # None /\ delivery[q] # None => r = q
RowsOfHook == \A r \in Requests : ~hook => delivery[r] = None
RunsHaveRows == \A r \in Requests : hook /\ runs[r] > 0 => delivery[r] # None
KeyInv == KeysUnique /\ RowsOfHook /\ RunsHaveRows /\ OneDeliveryPerKey

(* What holds of runs.  A delivery is run again for each of the places     *)
(* from which the worker will take it; `Budget' counts them.               *)
Distinct(s) == \A i, j \in DOMAIN s : s[i] = s[j] => i = j
Occurs(r, s) == \E i \in DOMAIN s : s[i] = r
Early(r) == http[r] \in {"new", "dedup", "insert"}
Coming(r) == Early(r) \/ http[r] = "send" \/ Occurs(r, channel)
Marked(r) == current = r /\ worker \in {"marking", "loading"}
Running(r) == current = r /\ worker = "running"
One(p) == IF p THEN 1 ELSE 0

EarlyIsNew ==
  \A r \in Requests : Early(r) => delivery[r] = None /\ runs[r] = 0 /\ r \notin raced
ComingIsNew ==
  \A r \in Requests : worker \in {"off", "starting"} /\ Coming(r)
                        => runs[r] = 0 /\ r \notin raced
ChannelAccepted == \A r \in Requests : Occurs(r, channel) => http[r] = "202"
Budget ==
  \A r \in Requests :
    runs[r] + One(Occurs(r, backlogIds)) + One(Coming(r)) + One(Marked(r))
      <= 1 + interrupted[r] + One(r \in raced)
Recovers ==
  \A r \in Requests : delivery[r] \in Unfinished =>
    runs[r] <= interrupted[r] + One(r \in raced) + One(Running(r))
RunInv ==
  /\ Distinct(channel) /\ Distinct(backlogIds)
  /\ EarlyIsNew /\ ComingIsNew /\ ChannelAccepted /\ Budget /\ Recovers

-----------------------------------------------------------------------------
(* Sequences without repetition. *)

(* The head of such a sequence is not in its tail, the others are. *)
LEMMA TailFacts ==
  ASSUME NEW S, NEW s \in Seq(S), s # <<>>, Distinct(s)
  PROVE  /\ Head(s) \in S /\ Tail(s) \in Seq(S) /\ Distinct(Tail(s))
         /\ ~Occurs(Head(s), Tail(s)) /\ Occurs(Head(s), s)
         /\ \A r : r # Head(s) => (Occurs(r, Tail(s)) <=> Occurs(r, s))
<1>1. /\ Head(s) \in S /\ Tail(s) \in Seq(S) /\ Len(s) \in Nat \ {0}
      /\ DOMAIN s = 1 .. Len(s) /\ DOMAIN Tail(s) = 1 .. (Len(s) - 1)
      /\ Head(s) = s[1]
      /\ \A i \in 1 .. (Len(s) - 1) : Tail(s)[i] = s[i + 1]
  OBVIOUS
<1>2. Distinct(Tail(s))
  <2> SUFFICES ASSUME NEW i \in 1 .. (Len(s) - 1), NEW j \in 1 .. (Len(s) - 1),
                      Tail(s)[i] = Tail(s)[j]
               PROVE  i = j
    BY <1>1 DEF Distinct
  <2>1. s[i + 1] = s[j + 1] /\ i + 1 \in DOMAIN s /\ j + 1 \in DOMAIN s
    BY <1>1
  <2> QED BY <2>1 DEF Distinct
<1>3. ~Occurs(Head(s), Tail(s))
  <2> SUFFICES ASSUME NEW i \in 1 .. (Len(s) - 1), Tail(s)[i] = s[1] PROVE FALSE
    BY <1>1 DEF Occurs
  <2>1. s[i + 1] = s[1] /\ i + 1 \in DOMAIN s /\ 1 \in DOMAIN s /\ i + 1 # 1
    BY <1>1
  <2> QED BY <2>1 DEF Distinct
<1>4. Occurs(Head(s), s)
  BY <1>1 DEF Occurs
<1>5. ASSUME NEW r, r # Head(s) PROVE Occurs(r, Tail(s)) <=> Occurs(r, s)
  <2>1. ASSUME NEW i \in DOMAIN s, s[i] = r PROVE Occurs(r, Tail(s))
    <3>1. i # 1 /\ i - 1 \in 1 .. (Len(s) - 1) /\ (i - 1) + 1 = i
      BY <1>1, <1>5, <2>1
    <3>2. Tail(s)[i - 1] = r
      BY <1>1, <2>1, <3>1
    <3> QED BY <1>1, <3>1, <3>2 DEF Occurs
  <2>2. ASSUME NEW i \in DOMAIN Tail(s), Tail(s)[i] = r PROVE Occurs(r, s)
    <3>1. i + 1 \in DOMAIN s /\ s[i + 1] = r
      BY <1>1, <2>2
    <3> QED BY <3>1 DEF Occurs
  <2> QED BY <2>1, <2>2 DEF Occurs
<1> QED BY <1>1, <1>2, <1>3, <1>4, <1>5

(* A new element is appended. *)
LEMMA AppendFacts ==
  ASSUME NEW S, NEW s \in Seq(S), Distinct(s), NEW e \in S, ~Occurs(e, s)
  PROVE  /\ Append(s, e) \in Seq(S) /\ Distinct(Append(s, e))
         /\ \A r : Occurs(r, Append(s, e)) <=> r = e \/ Occurs(r, s)
<1> DEFINE t == Append(s, e)
<1>1. /\ t \in Seq(S) /\ Len(s) \in Nat /\ DOMAIN s = 1 .. Len(s)
      /\ DOMAIN t = 1 .. (Len(s) + 1) /\ t[Len(s) + 1] = e
      /\ \A i \in 1 .. Len(s) : t[i] = s[i]
  OBVIOUS
<1>2. \A i \in DOMAIN s : s[i] # e
  BY DEF Occurs
<1> HIDE DEF t
<1>3. Distinct(t)
  <2> SUFFICES ASSUME NEW i \in DOMAIN t, NEW j \in DOMAIN t, t[i] = t[j]
               PROVE  i = j
    BY DEF Distinct
  <2>1. CASE i \in DOMAIN s /\ j \in DOMAIN s
    BY <1>1, <2>1 DEF Distinct
  <2>2. CASE i \notin DOMAIN s \/ j \notin DOMAIN s
    BY <1>1, <1>2, <2>2
  <2> QED BY <2>1, <2>2
<1>4. ASSUME NEW r PROVE Occurs(r, t) <=> r = e \/ Occurs(r, s)
  <2>1. ASSUME Occurs(r, t) PROVE r = e \/ Occurs(r, s)
    <3>1. PICK i \in DOMAIN t : t[i] = r
      BY <2>1 DEF Occurs
    <3>2. CASE i = Len(s) + 1
      BY <1>1, <3>1, <3>2
    <3>3. CASE i \in 1 .. Len(s)
      BY <1>1, <3>1, <3>3 DEF Occurs
    <3> QED BY <1>1, <3>2, <3>3
  <2>2. ASSUME r = e PROVE Occurs(r, t)
    <3>1. Len(s) + 1 \in DOMAIN t
      BY <1>1
    <3> QED BY <1>1, <2>2, <3>1 DEF Occurs
  <2>3. ASSUME Occurs(r, s) PROVE Occurs(r, t)
    BY <1>1, <2>3 DEF Occurs
  <2> QED BY <2>1, <2>2, <2>3
<1> QED BY <1>1, <1>3, <1>4 DEF t

(* The empty sequence. *)
LEMMA EmptyFacts == Distinct(<<>>) /\ \A r : ~Occurs(r, <<>>)
BY DEF Distinct, Occurs

(* A listing has each of the identifiers once. *)
LEMMA OrderFacts ==
  ASSUME NEW ids \in SUBSET Requests, NEW s \in Orders(ids)
  PROVE  s \in Seq(Requests) /\ Distinct(s) /\ \A r : Occurs(r, s) => r \in ids
<1>1. Cardinality(ids) \in Nat
  BY WebhookAssumption, FS_Subset, FS_CardinalityType
<1>2. s \in [1 .. Cardinality(ids) -> ids] /\ DOMAIN s = 1 .. Cardinality(ids)
  BY DEF Orders
<1>3. s \in Seq(Requests)
  BY <1>1, <1>2
<1> QED BY <1>2, <1>3 DEF Orders, Distinct, Occurs

-----------------------------------------------------------------------------
(* The steps. *)

(* What each action of the specification is. *)
LEMMA NextCases ==
  ASSUME [NextWebhooks]_hookVars
  PROVE  \/ \E r \in Requests : Admit(r) \/ CheckDuplicate(r) \/ InsertDelivery(r)
                                \/ Enqueue(r) \/ RequestDropped(r)
         \/ ListUnprocessed \/ TakeNext \/ MarkProcessing \/ Load
         \/ \E st \in {"completed", "failed"} : Finish(st)
         \/ Boot \/ DeleteWebhook \/ ProcessingFails \/ CrashWebhooks
         \/ UNCHANGED hookVars
BY DEF NextWebhooks, RequestSteps, WorkerSteps

LEMMA TypesInit == InitWebhooks => HookTypes
BY WebhookAssumption DEF InitWebhooks, HookTypes, Busy, Answers, None

LEMMA TypesStep == HookTypes /\ RunInv /\ [NextWebhooks]_hookVars => HookTypes'
<1> SUFFICES ASSUME HookTypes, RunInv, [NextWebhooks]_hookVars PROVE HookTypes'
  OBVIOUS
<1> USE WebhookAssumption DEF HookTypes, Busy, Answers, None
<1>1. ASSUME NEW r \in Requests, Admit(r) PROVE HookTypes'
  BY <1>1 DEF Admit, At, Up, Step, KeepWorker, workerVars, auditVars
<1>2. ASSUME NEW r \in Requests, CheckDuplicate(r) PROVE HookTypes'
  BY <1>2 DEF CheckDuplicate, At, Up, Step, KeepWorker, workerVars, auditVars
<1>3. ASSUME NEW r \in Requests, InsertDelivery(r) PROVE HookTypes'
  BY <1>3 DEF InsertDelivery, At, Up, Step, KeepWorker, workerVars, auditVars
<1>4. ASSUME NEW r \in Requests, Enqueue(r) PROVE HookTypes'
  <2>1. channel' \in Seq(Requests) /\ Len(channel') = Len(channel) + 1
        /\ Len(channel) \in Nat
    BY <1>4 DEF Enqueue
  <2> QED BY <1>4, <2>1 DEF Enqueue, At, Up, Step, KeepWorker, workerVars, auditVars
<1>5. ASSUME ListUnprocessed PROVE HookTypes'
  <2>1. backlogIds' \in Seq(Requests)
    <3>1. CASE backlogIds' = <<>>
      BY <3>1
    <3>2. CASE backlogIds' \in Orders({r \in Requests : delivery[r] \in Unfinished})
      BY <3>2, OrderFacts
    <3> QED BY <1>5, <3>1, <3>2 DEF ListUnprocessed
  <2> QED BY <1>5, <2>1 DEF ListUnprocessed, KeepIngress
<1>6. ASSUME TakeNext PROVE HookTypes'
  <2>1. CASE backlogIds # <<>> /\ current' = Head(backlogIds)
             /\ backlogIds' = Tail(backlogIds) /\ UNCHANGED channel
    <3>1. Head(backlogIds) \in Requests /\ Tail(backlogIds) \in Seq(Requests)
      BY <2>1, TailFacts DEF RunInv
    <3> QED BY <1>6, <2>1, <3>1 DEF TakeNext, KeepIngress, auditVars
  <2>2. CASE channel # <<>> /\ current' = Head(channel)
             /\ channel' = Tail(channel) /\ UNCHANGED backlogIds
    <3>1. /\ Head(channel) \in Requests /\ Tail(channel) \in Seq(Requests)
          /\ Len(Tail(channel)) = Len(channel) - 1 /\ Len(channel) \in Nat
      BY <2>2
    <3>2. /\ worker' = "marking"
          /\ UNCHANGED <<keyOf, http, hook, delivery, runs, interrupted>>
      BY <1>6 DEF TakeNext, KeepIngress, auditVars
    <3>3. Len(channel') <= Capacity
      BY <2>2, <3>1
    <3> HIDE WebhookAssumption
    <3> QED BY <2>2, <3>1, <3>2, <3>3
  <2>3. \/ /\ backlogIds # <<>> /\ current' = Head(backlogIds)
           /\ backlogIds' = Tail(backlogIds) /\ UNCHANGED channel
        \/ /\ channel # <<>> /\ current' = Head(channel)
           /\ channel' = Tail(channel) /\ UNCHANGED backlogIds
    BY <1>6 DEF TakeNext
  <2> HIDE DEF HookTypes
  <2> QED BY <2>1, <2>2, <2>3
<1>7. ASSUME MarkProcessing PROVE HookTypes'
  BY <1>7 DEF MarkProcessing, SetStatus, KeepIngress, auditVars
<1>8. ASSUME Load PROVE HookTypes'
  <2>1. /\ worker = "loading" /\ current \in Requests
        /\ UNCHANGED <<keyOf, http, hook, delivery, channel, backlogIds, interrupted>>
    BY <1>8 DEF Load, KeepIngress
  <2>2. CASE worker' = "next" /\ current' = None /\ UNCHANGED runs
    BY <2>1, <2>2
  <2>3. CASE /\ worker' = "running" /\ UNCHANGED current
             /\ runs' = [runs EXCEPT ![current] = @ + 1]
    <3>1. runs' \in [Requests -> Nat]
      BY <2>1, <2>3
    <3> QED BY <2>1, <2>3, <3>1
  <2> HIDE DEF HookTypes
  <2> QED BY <1>8, <2>2, <2>3 DEF Load
<1>9. ASSUME NEW st \in {"completed", "failed"}, Finish(st) PROVE HookTypes'
  BY <1>9 DEF Finish, SetStatus, KeepIngress, auditVars
<1>10. ASSUME Boot PROVE HookTypes'
  BY <1>10 DEF Boot, KeepIngress, auditVars
<1>11. ASSUME DeleteWebhook PROVE HookTypes'
  BY <1>11 DEF DeleteWebhook, KeepWorker, workerVars, auditVars
<1>12. ASSUME ProcessingFails PROVE HookTypes'
  BY <1>12 DEF ProcessingFails, KeepIngress
<1>13. ASSUME CrashWebhooks PROVE HookTypes'
  BY <1>13 DEF CrashWebhooks
<1>14. ASSUME UNCHANGED hookVars PROVE HookTypes'
  BY <1>14 DEF hookVars, ingressVars, workerVars, auditVars
<1>15. ASSUME NEW r \in Requests, RequestDropped(r) PROVE HookTypes'
  BY <1>15 DEF RequestDropped, At, Up, Step, workerVars
<1> QED BY NextCases, <1>1, <1>2, <1>3, <1>4, <1>5, <1>6, <1>7, <1>8, <1>9, <1>10,
           <1>11, <1>12, <1>13, <1>14, <1>15

LEMMA KeysInit == InitWebhooks => KeyInv
BY DEF InitWebhooks, KeyInv, KeysUnique, RowsOfHook, RunsHaveRows, OneDeliveryPerKey,
       None

LEMMA KeysStep == HookTypes /\ KeyInv /\ [NextWebhooks]_hookVars => KeyInv'
<1> SUFFICES ASSUME HookTypes, KeyInv, [NextWebhooks]_hookVars PROVE KeyInv'
  OBVIOUS
<1> USE DEF HookTypes, Busy, KeyInv, KeysUnique, RowsOfHook, RunsHaveRows,
            OneDeliveryPerKey, SameKey
<1>1. ASSUME UNCHANGED <<keyOf, delivery, hook, runs>> PROVE KeyInv'
  BY <1>1
<1>2. ASSUME NEW r \in Requests, InsertDelivery(r) \/ RequestDropped(r) PROVE KeyInv'
  <2>1. UNCHANGED <<keyOf, hook, runs>>
    BY <1>2 DEF InsertDelivery, RequestDropped, KeepWorker, auditVars
  <2>2. CASE UNCHANGED delivery
    BY <1>1, <2>1, <2>2
  <2>3. CASE hook /\ ~KeyTaken(r) /\ delivery' = [delivery EXCEPT ![r] = "queued"]
    <3>1. \A q \in Requests : delivery'[q] = IF q = r THEN "queued" ELSE delivery[q]
      BY <2>3
    <3>2. \A q \in Requests : SameKey(r, q) => delivery[q] = None
      BY <2>3 DEF KeyTaken
    <3>3. KeysUnique'
      BY <2>1, <3>1, <3>2
    <3> QED BY <2>1, <2>3, <3>1, <3>3 DEF None
  <2> QED BY <1>2, <2>2, <2>3 DEF InsertDelivery, RequestDropped
<1>3. ASSUME NEW st, SetStatus(st), current \in Requests, st # None,
             UNCHANGED <<keyOf, hook, runs>>
      PROVE  KeyInv'
  BY <1>3 DEF SetStatus
<1>4. ASSUME Load PROVE KeyInv'
  <2>1. CASE delivery[current] = None
    BY <1>1, <1>4, <2>1 DEF Load, KeepIngress
  <2>2. CASE delivery[current] # None
    <3>1. /\ current \in Requests /\ hook /\ UNCHANGED <<keyOf, delivery, hook>>
          /\ runs' = [runs EXCEPT ![current] = @ + 1]
      BY <1>4, <2>2 DEF Load, KeepIngress
    <3> QED BY <2>2, <3>1
  <2> QED BY <2>1, <2>2
<1>5. ASSUME DeleteWebhook PROVE KeyInv'
  BY <1>5 DEF DeleteWebhook, KeepWorker, auditVars
<1> QED
  <2>1. ASSUME NEW r \in Requests, Admit(r) \/ CheckDuplicate(r) \/ Enqueue(r)
        PROVE  KeyInv'
    BY <1>1, <2>1 DEF Admit, CheckDuplicate, Enqueue, KeepWorker, auditVars
  <2>2. ASSUME ListUnprocessed \/ TakeNext \/ Boot \/ ProcessingFails \/ CrashWebhooks
               \/ UNCHANGED hookVars
        PROVE  KeyInv'
    BY <1>1, <2>2 DEF ListUnprocessed, TakeNext, Boot, ProcessingFails, CrashWebhooks,
                      KeepIngress, auditVars, hookVars, ingressVars
  <2>3. ASSUME MarkProcessing PROVE KeyInv'
    BY <1>3, <2>3 DEF MarkProcessing, KeepIngress, auditVars, None
  <2>4. ASSUME NEW st \in {"completed", "failed"}, Finish(st) PROVE KeyInv'
    BY <1>3, <2>4 DEF Finish, KeepIngress, auditVars, None
  <2> QED BY NextCases, <1>2, <1>4, <1>5, <2>1, <2>2, <2>3, <2>4

(* The budget of one request, with the ranges of its terms. *)
Counts(r) ==
  /\ runs[r] \in Nat /\ interrupted[r] \in Nat
  /\ One(Occurs(r, backlogIds)) \in 0 .. 1 /\ One(Coming(r)) \in 0 .. 1
  /\ One(Marked(r)) \in 0 .. 1 /\ One(Running(r)) \in 0 .. 1
  /\ One(r \in raced) \in 0 .. 1
  /\ runs[r] + One(Occurs(r, backlogIds)) + One(Coming(r)) + One(Marked(r))
       <= 1 + interrupted[r] + One(r \in raced)

LEMMA BudgetOf == HookTypes /\ RunInv => \A r \in Requests : Counts(r)
BY DEF HookTypes, RunInv, Budget, Counts, One

LEMMA RunsInit == InitWebhooks => RunInv
<1> SUFFICES ASSUME InitWebhooks PROVE RunInv
  OBVIOUS
<1>1. /\ Distinct(channel) /\ Distinct(backlogIds)
      /\ \A r : ~Occurs(r, channel) /\ ~Occurs(r, backlogIds)
  BY EmptyFacts DEF InitWebhooks
<1> QED BY <1>1 DEF InitWebhooks, RunInv, EarlyIsNew, ComingIsNew, ChannelAccepted,
                    Budget, Recovers, Early, Coming, Marked, Running, One, None,
                    Unfinished

(* A request goes on: it stays to come, or it is answered. *)
LEMMA RequestRuns ==
  ASSUME HookTypes, RunInv, NEW r \in Requests,
         Admit(r) \/ CheckDuplicate(r) \/ InsertDelivery(r)
  PROVE  RunInv'
<1> USE DEF RunInv, HookTypes
<1>1. /\ Early(r) /\ http[r] # "202"
      /\ \E l \in {"refused", "dedup", "deduplicated", "insert", "send", "500"} :
           http' = [http EXCEPT ![r] = l]
      /\ UNCHANGED <<channel, worker, current, backlogIds, runs, interrupted, raced>>
  BY DEF Admit, CheckDuplicate, InsertDelivery, At, Step, Early, KeepWorker,
         workerVars, auditVars
<1>2. \A q \in Requests : delivery'[q] # delivery[q]
                            => q = r /\ http' = [http EXCEPT ![r] = "send"]
  BY DEF Admit, CheckDuplicate, InsertDelivery, Step
<1>3. \A q \in Requests : q # r => http'[q] = http[q] /\ delivery'[q] = delivery[q]
  BY <1>1, <1>2
<1>4. ~Occurs(r, channel)
  BY <1>1 DEF ChannelAccepted
<1>5. runs[r] = 0 /\ r \notin raced /\ delivery[r] = None
  BY <1>1 DEF EarlyIsNew
<1>6. \A q \in Requests : Coming(q)' => Coming(q)
  BY <1>1, <1>3 DEF Coming, Early
<1>7. \A q \in Requests : Early(q)' => Early(q) /\ delivery'[q] = delivery[q]
  BY <1>1, <1>2, <1>3 DEF Early
<1>8. EarlyIsNew' /\ ComingIsNew'
  BY <1>1, <1>6, <1>7 DEF EarlyIsNew, ComingIsNew
<1>9. ChannelAccepted'
  BY <1>1, <1>3, <1>4 DEF ChannelAccepted
<1>10. Budget'
  BY <1>1, <1>6 DEF Budget, One, Marked
<1>11. Recovers'
  <2> SUFFICES ASSUME NEW q \in Requests, delivery'[q] \in Unfinished
               PROVE  runs[q] <= interrupted[q] + One(q \in raced) + One(Running(q))
    BY <1>1 DEF Recovers, Running
  <2>1. CASE q = r
    BY <1>5, <2>1 DEF One
  <2>2. CASE q # r
    BY <1>3, <2>2 DEF Recovers
  <2> QED BY <2>1, <2>2
<1> QED BY <1>1, <1>8, <1>9, <1>10, <1>11

(* A request is dropped: whether its row is in or not, it does not come. *)
LEMMA DroppedRuns ==
  ASSUME HookTypes, RunInv, NEW r \in Requests, RequestDropped(r)
  PROVE  RunInv'
<1> USE DEF RunInv, HookTypes
<1>1. /\ http[r] \in {"dedup", "insert", "send"}
      /\ http' = [http EXCEPT ![r] = "dropped"]
      /\ UNCHANGED <<channel, worker, current, backlogIds, runs, interrupted, raced>>
      /\ UNCHANGED delivery \/ (http[r] = "insert"
                                 /\ delivery' = [delivery EXCEPT ![r] = "queued"])
  BY DEF RequestDropped, At, Step, workerVars
<1>2. \A q \in Requests : q # r => http'[q] = http[q] /\ delivery'[q] = delivery[q]
  BY <1>1
<1>3. ~Occurs(r, channel)
  BY <1>1 DEF ChannelAccepted
<1>4. \A q \in Requests : /\ Coming(q)' => Coming(q)
                          /\ Early(q)' => Early(q) /\ q # r
  BY <1>1, <1>2, <1>3 DEF Coming, Early
<1>5. EarlyIsNew' /\ ComingIsNew' /\ ChannelAccepted'
  BY <1>1, <1>2, <1>3, <1>4 DEF EarlyIsNew, ComingIsNew, ChannelAccepted
<1>6. Budget'
  BY <1>1, <1>4 DEF Budget, One, Marked
<1>7. Recovers'
  <2> SUFFICES ASSUME NEW q \in Requests, delivery'[q] \in Unfinished
               PROVE  runs[q] <= interrupted[q] + One(q \in raced) + One(Running(q))
    BY <1>1 DEF Recovers, Running
  <2>1. CASE delivery'[q] = delivery[q]
    BY <2>1 DEF Recovers
  <2>2. CASE q = r /\ http[r] = "insert"
    BY <2>2 DEF EarlyIsNew, Early, One
  <2> QED BY <1>1, <1>2, <2>1, <2>2
<1> QED BY <1>1, <1>5, <1>6, <1>7

(* An identifier enters the channel as its request is accepted. *)
LEMMA EnqueueRuns ==
  ASSUME HookTypes, RunInv, NEW r \in Requests, Enqueue(r)
  PROVE  RunInv'
<1> USE DEF RunInv, HookTypes
<1>1. /\ http[r] = "send" /\ http' = [http EXCEPT ![r] = "202"]
      /\ channel' = Append(channel, r)
      /\ UNCHANGED <<delivery, worker, current, backlogIds, runs, interrupted, raced>>
  BY DEF Enqueue, At, Step, KeepWorker, workerVars, auditVars
<1>2. ~Occurs(r, channel)
  BY <1>1 DEF ChannelAccepted
<1>3. Distinct(channel') /\ \A q : Occurs(q, channel') <=> q = r \/ Occurs(q, channel)
  BY <1>1, <1>2, AppendFacts
<1>4. \A q \in Requests : /\ http'[q] = IF q = r THEN "202" ELSE http[q]
                          /\ Early(q)' <=> Early(q)
                          /\ Coming(q)' <=> Coming(q)
  BY <1>1, <1>3 DEF Early, Coming
<1>5. EarlyIsNew' /\ ComingIsNew' /\ ChannelAccepted'
  BY <1>1, <1>3, <1>4 DEF EarlyIsNew, ComingIsNew, ChannelAccepted
<1>6. Budget' /\ Recovers'
  BY <1>1, <1>4 DEF Budget, Recovers, One, Marked, Running
<1> QED BY <1>1, <1>3, <1>5, <1>6

(* The listing at the start: what is listed and still to come is raced. *)
LEMMA ListRuns ==
  ASSUME HookTypes, RunInv, ListUnprocessed
  PROVE  RunInv'
<1>0. \A r \in Requests : Counts(r)
  BY BudgetOf
<1> USE DEF RunInv, HookTypes
<1> DEFINE ids == {r \in Requests : delivery[r] \in Unfinished}
<1>1. /\ worker = "starting" /\ worker' = "next"
      /\ UNCHANGED <<http, delivery, channel, current, runs, interrupted>>
  BY DEF ListUnprocessed, KeepIngress
<1>2. \A r \in Requests : /\ Early(r)' <=> Early(r)
                          /\ Coming(r)' <=> Coming(r)
                          /\ ~Marked(r)' /\ ~Running(r)' /\ ~Running(r)
  BY <1>1 DEF Early, Coming, Marked, Running
<1>3. Distinct(backlogIds') /\ \A r : Occurs(r, backlogIds') => r \in ids
  <2>1. CASE backlogIds' = <<>>
    BY <2>1, EmptyFacts
  <2>2. CASE backlogIds' \in Orders(ids)
    BY <2>2, OrderFacts
  <2> QED BY <2>1, <2>2 DEF ListUnprocessed
<1>4. /\ raced \subseteq raced'
      /\ \A r \in raced' : r \in raced \/ r \in ids
      /\ \A r \in ids : http[r] = "send" \/ Occurs(r, channel)
                          => r \in raced' \/ backlogIds' = <<>>
  BY DEF ListUnprocessed, Occurs
<1>5. \A r \in ids : delivery[r] # None /\ ~Early(r)
  BY DEF Unfinished, None, EarlyIsNew
<1>6. \A r \in Requests : Coming(r) => runs[r] = 0 /\ r \notin raced
  BY <1>1 DEF ComingIsNew
<1>7. EarlyIsNew' /\ ComingIsNew' /\ ChannelAccepted'
  BY <1>1, <1>2, <1>4, <1>5 DEF EarlyIsNew, ComingIsNew, ChannelAccepted
<1>8. Budget'
  <2> SUFFICES ASSUME NEW r \in Requests
               PROVE  runs[r] + One(Occurs(r, backlogIds')) + One(Coming(r))
                        <= 1 + interrupted[r] + One(r \in raced')
    BY <1>1, <1>2 DEF Budget, One
  <2>1. CASE ~Occurs(r, backlogIds')
    <3>1. One(Occurs(r, backlogIds')) = 0
      BY <2>1 DEF One
    <3>2. One(r \in raced) <= One(r \in raced') /\ One(r \in raced') \in Nat
      BY <1>4 DEF One
    <3>3. Counts(r)
      BY <1>0
    <3> QED BY <3>1, <3>2, <3>3 DEF Counts
  <2>2. CASE Occurs(r, backlogIds')
    <3>1. /\ r \in ids /\ backlogIds' # <<>>
          /\ runs[r] <= interrupted[r] + One(r \in raced)
      BY <1>2, <1>3, <2>2, EmptyFacts DEF Recovers, One
    <3>2. CASE Coming(r)
      BY <1>4, <1>5, <1>6, <3>1, <3>2 DEF Coming, One
    <3>3. CASE ~Coming(r)
      BY <1>4, <3>1, <3>3 DEF One
    <3> QED BY <3>2, <3>3
  <2> QED BY <2>1, <2>2
<1>9. Recovers'
  <2> SUFFICES ASSUME NEW r \in Requests, delivery[r] \in Unfinished
               PROVE  runs[r] <= interrupted[r] + One(r \in raced') + One(Running(r)')
    BY <1>1 DEF Recovers
  <2>1. runs[r] <= interrupted[r] + One(r \in raced) + One(Running(r))
    BY DEF Recovers
  <2>2. One(Running(r)') = 0 /\ One(Running(r)) = 0
    BY <1>2 DEF One
  <2> QED BY <1>4, <2>1, <2>2 DEF One
<1> QED BY <1>1, <1>3, <1>7, <1>8, <1>9

(* The worker takes an identifier from one of its two sources. *)
LEMMA TakeRuns ==
  ASSUME HookTypes, RunInv, TakeNext
  PROVE  RunInv'
<1> USE DEF RunInv, HookTypes
<1>1. /\ worker = "next" /\ worker' = "marking"
      /\ UNCHANGED <<http, delivery, runs, interrupted, raced>>
  BY DEF TakeNext, KeepIngress, auditVars
<1>2. \A r \in Requests : /\ Early(r)' <=> Early(r)
                          /\ ~Marked(r) /\ ~Running(r) /\ ~Running(r)'
                          /\ Marked(r)' <=> current' = r
  BY <1>1 DEF Early, Marked, Running
<1>3. ASSUME \A r \in Requests : /\ Occurs(r, channel') => Occurs(r, channel)
                                 /\ Occurs(r, backlogIds') => Occurs(r, backlogIds),
             \A r \in Requests : r = current' =>
                \/ Occurs(r, backlogIds) /\ ~Occurs(r, backlogIds')
                \/ Coming(r) /\ ~Coming(r)'
      PROVE  EarlyIsNew' /\ ComingIsNew' /\ ChannelAccepted' /\ Budget' /\ Recovers'
  <2>1. \A r \in Requests : Coming(r)' => Coming(r)
    BY <1>2, <1>3, <1>1 DEF Coming
  <2>2. EarlyIsNew' /\ ComingIsNew' /\ ChannelAccepted' /\ Recovers'
    BY <1>1, <1>2, <1>3 DEF EarlyIsNew, ComingIsNew, ChannelAccepted, Recovers, One
  <2>3. Budget'
    BY <1>1, <1>2, <1>3, <2>1 DEF Budget, One
  <2> QED BY <2>2, <2>3
<1>4. CASE backlogIds # <<>> /\ current' = Head(backlogIds)
           /\ backlogIds' = Tail(backlogIds) /\ UNCHANGED channel
  <2>1. /\ Distinct(backlogIds')
        /\ ~Occurs(current', backlogIds') /\ Occurs(current', backlogIds)
        /\ \A r \in Requests : Occurs(r, backlogIds') => Occurs(r, backlogIds)
    BY <1>4, TailFacts
  <2> QED BY <1>3, <1>4, <2>1
<1>5. CASE channel # <<>> /\ current' = Head(channel)
           /\ channel' = Tail(channel) /\ UNCHANGED backlogIds
  <2>1. /\ current' \in Requests /\ Distinct(channel')
        /\ ~Occurs(current', channel') /\ Occurs(current', channel)
        /\ \A r \in Requests : Occurs(r, channel') => Occurs(r, channel)
    BY <1>5, TailFacts
  <2>2. \A r \in Requests : r = current' => Coming(r) /\ ~Coming(r)'
    BY <1>1, <2>1 DEF ChannelAccepted, Coming, Early
  <2> QED BY <1>3, <1>5, <2>1, <2>2
<1> QED BY <1>4, <1>5 DEF TakeNext

(* The worker marks, loads, runs and finishes what it has taken. *)
LEMMA WorkRuns ==
  ASSUME HookTypes, RunInv,
         MarkProcessing \/ Load \/ ProcessingFails
         \/ \E st \in {"completed", "failed"} : Finish(st)
  PROVE  RunInv'
<1>0. \A r \in Requests : Counts(r)
  BY BudgetOf
<1> USE DEF RunInv, HookTypes, Busy
<1>1. /\ current \in Requests /\ worker \in Busy
      /\ worker' \in {"next", "loading", "running"}
      /\ UNCHANGED <<http, channel, backlogIds, raced>>
  BY DEF MarkProcessing, Load, ProcessingFails, Finish, KeepIngress, auditVars
<1>2. \A r \in Requests : /\ Early(r)' <=> Early(r)
                          /\ Coming(r)' <=> Coming(r)
                          /\ Early(r) => Coming(r)
  BY <1>1 DEF Early, Coming
<1>3. ComingIsNew' /\ ChannelAccepted' /\ Distinct(channel') /\ Distinct(backlogIds')
  BY <1>1 DEF ComingIsNew, ChannelAccepted
<1>4. CASE MarkProcessing
  <2>1. /\ worker = "marking" /\ worker' = "loading"
        /\ UNCHANGED <<current, runs, interrupted>>
        /\ \A r \in Requests : delivery'[r] =
             IF r = current /\ delivery[r] # None THEN "processing" ELSE delivery[r]
    BY <1>1, <1>4 DEF MarkProcessing, SetStatus, auditVars
  <2>2. \A r \in Requests : /\ Marked(r)' <=> Marked(r)
                            /\ ~Running(r) /\ ~Running(r)'
    BY <2>1 DEF Marked, Running
  <2>3. EarlyIsNew'
    BY <1>1, <1>2, <2>1 DEF EarlyIsNew
  <2>4. Budget'
    BY <1>1, <1>2, <2>1, <2>2 DEF Budget, One
  <2>5. Recovers'
    <3> SUFFICES ASSUME NEW r \in Requests, delivery'[r] \in Unfinished
                 PROVE  runs[r] <= interrupted[r] + One(r \in raced)
      BY <1>1, <2>1, <2>2 DEF Recovers, One
    <3>1. CASE r = current
      <4>1. Marked(r)
        BY <2>1, <3>1 DEF Marked
      <4>2. One(Marked(r)) = 1
        BY <4>1 DEF One
      <4>3. Counts(r)
        BY <1>0
      <4> QED BY <4>2, <4>3 DEF Counts
    <3>2. CASE r # current
      BY <2>1, <2>2, <3>2 DEF Recovers, One
    <3> QED BY <3>1, <3>2
  <2> QED BY <1>3, <2>3, <2>4, <2>5
<1>5. CASE Load
  <2>1. worker = "loading" /\ UNCHANGED <<delivery, interrupted>>
    BY <1>5 DEF Load
  <2>2. \A r \in Requests : /\ ~Running(r) /\ ~Marked(r)'
                            /\ Marked(r) <=> r = current
    BY <1>5, <2>1 DEF Marked, Running, Load
  <2>3. CASE delivery[current] = None
    <3>1. UNCHANGED runs /\ \A r \in Requests : ~Running(r)'
      BY <1>5, <2>3 DEF Load, Running
    <3>2. EarlyIsNew'
      BY <1>1, <1>2, <2>1, <3>1 DEF EarlyIsNew
    <3>3. Budget'
      <4> SUFFICES ASSUME NEW r \in Requests
                   PROVE  runs[r] + One(Occurs(r, backlogIds)) + One(Coming(r))
                            <= 1 + interrupted[r] + One(r \in raced)
        BY <1>1, <1>2, <2>1, <2>2, <3>1 DEF Budget, One
      <4>1. Counts(r)
        BY <1>0
      <4> QED BY <4>1 DEF Counts
    <3>4. Recovers'
      BY <1>1, <2>1, <2>2, <3>1 DEF Recovers, One
    <3> QED BY <1>3, <3>2, <3>3, <3>4
  <2>4. CASE delivery[current] # None
    <3>1. /\ \A r \in Requests : runs'[r] = IF r = current THEN runs[r] + 1 ELSE runs[r]
          /\ \A r \in Requests : Running(r)' <=> r = current
      BY <1>1, <1>5, <2>4 DEF Load, Running
    <3>2. EarlyIsNew'
      BY <1>1, <1>2, <2>1, <2>4, <3>1 DEF EarlyIsNew
    <3>3. Budget'
      <4> SUFFICES ASSUME NEW r \in Requests
                   PROVE  runs'[r] + One(Occurs(r, backlogIds)') + One(Coming(r)')
                            + One(Marked(r)') <= 1 + interrupted'[r] + One(r \in raced')
        BY DEF Budget
      <4>1. One(Marked(r)') = 0 /\ One(Coming(r)') = One(Coming(r))
        BY <1>2, <2>2 DEF One
      <4>2. runs'[r] = runs[r] + One(Marked(r))
        BY <2>2, <3>1 DEF One
      <4>3. Counts(r)
        BY <1>0
      <4> QED BY <1>1, <2>1, <4>1, <4>2, <4>3 DEF Counts
    <3>4. Recovers'
      BY <1>1, <2>1, <2>2, <3>1 DEF Recovers, One
    <3> QED BY <1>3, <3>2, <3>3, <3>4
  <2> QED BY <2>3, <2>4
<1>6. CASE ProcessingFails
  <2>1. /\ worker' = "next" /\ UNCHANGED <<delivery, runs>>
        /\ \A r \in Requests : interrupted'[r] =
             IF r = current /\ worker = "running" THEN interrupted[r] + 1
                                                  ELSE interrupted[r]
    BY <1>1, <1>6 DEF ProcessingFails
  <2>2. \A r \in Requests : /\ ~Marked(r)' /\ ~Running(r)'
                            /\ Running(r) <=> r = current /\ worker = "running"
    BY <2>1 DEF Marked, Running
  <2>3. EarlyIsNew'
    BY <1>1, <1>2, <2>1 DEF EarlyIsNew
  <2>4. Budget'
    <3> SUFFICES ASSUME NEW r \in Requests
                 PROVE  runs[r] + One(Occurs(r, backlogIds)) + One(Coming(r))
                          <= 1 + interrupted'[r] + One(r \in raced)
      BY <1>1, <1>2, <2>1, <2>2 DEF Budget, One
    <3>1. interrupted[r] <= interrupted'[r] /\ interrupted'[r] \in Nat
      BY <2>1
    <3>2. Counts(r)
      BY <1>0
    <3> QED BY <3>1, <3>2 DEF Counts
  <2>5. Recovers'
    BY <1>1, <2>1, <2>2 DEF Recovers, One
  <2> QED BY <1>3, <2>3, <2>4, <2>5
<1>7. ASSUME NEW st \in {"completed", "failed"}, Finish(st) PROVE RunInv'
  <2>1. /\ worker = "running" /\ worker' = "next"
        /\ UNCHANGED <<runs, interrupted>>
        /\ \A r \in Requests : delivery'[r] =
             IF r = current /\ delivery[r] # None THEN st ELSE delivery[r]
    BY <1>1, <1>7 DEF Finish, SetStatus, auditVars
  <2>2. \A r \in Requests : /\ ~Marked(r)' /\ ~Running(r)' /\ ~Marked(r)
                            /\ Running(r) <=> r = current
    BY <2>1 DEF Marked, Running
  <2>3. EarlyIsNew'
    BY <1>1, <1>2, <2>1 DEF EarlyIsNew
  <2>4. Budget'
    BY <1>1, <1>2, <2>1, <2>2 DEF Budget, One
  <2>5. Recovers'
    BY <1>1, <1>7, <2>1, <2>2 DEF Recovers, One, Unfinished, None
  <2> QED BY <1>3, <2>3, <2>4, <2>5
<1> QED BY <1>4, <1>5, <1>6, <1>7

(* The webhook is deleted, or the process starts. *)
LEMMA QuietRuns ==
  ASSUME HookTypes, RunInv, DeleteWebhook \/ Boot \/ UNCHANGED hookVars
  PROVE  RunInv'
<1> USE DEF RunInv, HookTypes
<1>1. /\ UNCHANGED <<http, channel, backlogIds, current, runs, interrupted, raced>>
      /\ worker' = worker \/ (worker = "off" /\ worker' = "starting")
      /\ \A r \in Requests : delivery'[r] = delivery[r] \/ delivery'[r] = None
  BY DEF DeleteWebhook, Boot, KeepWorker, KeepIngress, workerVars, auditVars, hookVars,
         ingressVars
<1>2. \A r \in Requests : /\ Early(r)' <=> Early(r)
                          /\ Coming(r)' <=> Coming(r)
                          /\ Marked(r)' <=> Marked(r)
                          /\ Running(r)' <=> Running(r)
  BY <1>1 DEF Early, Coming, Marked, Running
<1>3. EarlyIsNew' /\ ComingIsNew' /\ ChannelAccepted'
  BY <1>1, <1>2 DEF EarlyIsNew, ComingIsNew, ChannelAccepted
<1>4. Budget'
  BY <1>1, <1>2 DEF Budget, One
<1>5. Recovers'
  BY <1>1, <1>2 DEF Recovers, One, Unfinished, None
<1> QED BY <1>1, <1>3, <1>4, <1>5

(* The process stops: only new requests and unfinished rows are left. *)
LEMMA CrashRuns ==
  ASSUME HookTypes, RunInv, CrashWebhooks
  PROVE  RunInv'
<1>0. \A r \in Requests : Counts(r)
  BY BudgetOf
<1> USE DEF RunInv, HookTypes
<1>1. /\ worker' = "off" /\ channel' = <<>> /\ backlogIds' = <<>>
      /\ UNCHANGED <<delivery, runs, raced>>
      /\ \A r \in Requests : http'[r] = http[r] \/ http'[r] = "broken"
      /\ \A r \in Requests : http'[r] \in Answers \cup {"new"}
  BY DEF CrashWebhooks, Answers
<1>2. \A r \in Requests :
        interrupted'[r] = interrupted[r] + One(Running(r))
  BY DEF CrashWebhooks, Running, One, Busy
<1>3. Distinct(<<>>) /\ \A r : ~Occurs(r, channel') /\ ~Occurs(r, backlogIds')
  BY <1>1, EmptyFacts
<1>4. \A r \in Requests : /\ Coming(r)' => Early(r) /\ Coming(r)
                          /\ Early(r)' => Early(r)
                          /\ ~Marked(r)' /\ ~Running(r)'
  BY <1>1, <1>3 DEF Early, Coming, Marked, Running, Answers
<1>5. EarlyIsNew' /\ ComingIsNew' /\ ChannelAccepted'
  BY <1>1, <1>3, <1>4 DEF EarlyIsNew, ComingIsNew, ChannelAccepted
<1>6. Budget'
  <2> SUFFICES ASSUME NEW r \in Requests
               PROVE  runs'[r] + One(Occurs(r, backlogIds)') + One(Coming(r)')
                        + One(Marked(r)') <= 1 + interrupted'[r] + One(r \in raced')
    BY DEF Budget
  <2>1. One(Occurs(r, backlogIds)') = 0 /\ One(Marked(r)') = 0
    BY <1>3, <1>4 DEF One
  <2>2. One(Coming(r)') <= One(Coming(r)) /\ One(Coming(r)') \in Nat
    BY <1>4 DEF One
  <2>3. Counts(r)
    BY <1>0
  <2>4. /\ runs'[r] = runs[r] /\ raced' = raced
        /\ interrupted'[r] = interrupted[r] + One(Running(r))
    BY <1>1, <1>2
  <2>5. runs[r] + One(Coming(r)') <= 1 + interrupted'[r] + One(r \in raced)
    BY <2>2, <2>3, <2>4 DEF Counts
  <2>6. runs[r] \in Nat /\ One(Coming(r)') \in Nat
    BY <2>2, <2>3 DEF Counts
  <2> HIDE DEF RunInv, HookTypes
  <2>7. runs'[r] + One(Occurs(r, backlogIds)') + One(Coming(r)') + One(Marked(r)')
          = runs[r] + One(Coming(r)')
    BY <2>1, <2>4, <2>6
  <2> QED BY <2>4, <2>5, <2>7
<1>7. Recovers'
  <2> SUFFICES ASSUME NEW r \in Requests, delivery'[r] \in Unfinished
               PROVE  runs'[r] <= interrupted'[r] + One(r \in raced') + One(Running(r)')
    BY DEF Recovers
  <2>1. One(Running(r)') = 0
    BY <1>4 DEF One
  <2>2. runs[r] <= interrupted[r] + One(r \in raced) + One(Running(r))
    BY <1>1 DEF Recovers
  <2>3. Counts(r)
    BY <1>0
  <2> HIDE DEF RunInv, HookTypes
  <2> QED BY <1>1, <1>2, <2>1, <2>2, <2>3 DEF Counts
<1> QED BY <1>1, <1>3, <1>5, <1>6, <1>7

LEMMA RunsStep == HookTypes /\ RunInv /\ [NextWebhooks]_hookVars => RunInv'
BY NextCases, RequestRuns, DroppedRuns, EnqueueRuns, ListRuns, TakeRuns, WorkRuns,
   QuietRuns, CrashRuns

-----------------------------------------------------------------------------
(* The three invariants together are inductive. *)
LEMMA WebhookInvariants == WebhookSpec => [](HookTypes /\ KeyInv /\ RunInv)
<1>1. InitWebhooks => HookTypes /\ KeyInv /\ RunInv
  BY TypesInit, KeysInit, RunsInit
<1>2. HookTypes /\ KeyInv /\ RunInv /\ [NextWebhooks]_hookVars
        => (HookTypes /\ KeyInv /\ RunInv)'
  BY TypesStep, KeysStep, RunsStep
<1> QED BY <1>1, <1>2, PTL DEF WebhookSpec

(* Every variable of the webhooks keeps its type, and the channel its      *)
(* capacity.                                                               *)
THEOREM WebhookTypes == WebhookSpec => []WebhookTypeOK
<1>1. HookTypes => WebhookTypeOK
  BY DEF HookTypes, WebhookTypeOK, Busy
<1> QED BY <1>1, WebhookInvariants, PTL

(* The unique index of insert_delivery (crates/webhooks/src/store.rs) is   *)
(* enough: of all requests with one key at most one is ever run, however   *)
(* they overlap with one another, with failures, restarts and the deletion *)
(* of the webhook.                                                         *)
THEOREM KeyDeliveredOnce == WebhookSpec => []OneDeliveryPerKey
<1>1. KeyInv => OneDeliveryPerKey
  BY DEF KeyInv
<1> QED BY <1>1, WebhookInvariants, PTL

(* The worker (crates/webhooks/src/worker.rs) runs a delivery once, once   *)
(* more for each crash or failed update that interrupted a run of it, and  *)
(* at most once more in all for being listed at a start while its request  *)
(* was still served.                                                       *)
THEOREM DeliveryRunOnce == WebhookSpec => []RunOnce
<1>1. HookTypes /\ RunInv => RunOnce
  <2> SUFFICES ASSUME HookTypes, RunInv, NEW r \in Requests
               PROVE  runs[r] <= 1 + interrupted[r] + One(r \in raced)
    BY DEF RunOnce, One
  <2>1. Counts(r)
    BY BudgetOf
  <2> QED BY <2>1 DEF Counts
<1> QED BY <1>1, WebhookInvariants, PTL
=============================================================================
