------------------------ MODULE ChatTurnsRuns_proofs ------------------------
(***************************************************************************)
(* The way of a prompt, and the run that answers it.                       *)
(*                                                                         *)
(* A prompt goes from its call to the journal, or to the queue and from    *)
(* there, in the batch of a later turn, to the journal.  No prompt is in   *)
(* two places, and queued prompts are not reordered.  Only five kinds of   *)
(* step move a prompt: PromptSteps says so once, and the invariants are    *)
(* proved against these five.                                              *)
(*                                                                         *)
(* The run of a turn is then seen from outside: by the calls that wait for *)
(* the session's final gate, by active_runs_by_session, by the stops that  *)
(* cancel it, and by the journal it was built from.                        *)
(***************************************************************************)
EXTENDS ChatTurnsLedger, ChatTurnsStop_proofs


(* Where a call's own prompt is still with the call. *)
Unstarted ==
  {"new", "acquiring", "busy", "enqueueing", "attaching", "unattached"}

CarryPlaces == {"drained", "arming", "loading", "appending"}

(* The journal is cut or cleared, or takes the output of a run. *)
HistoryMoves ==
  \/ history' = history
  \/ history' = <<>>
  \/ \E n \in 0..Len(history) : history' = SubSeq(history, 1, n)
  \/ \E r \in Chats : history' = Append(history, Output(r))

(* The queue is left alone, emptied, or loses a row. *)
QueueMoves == queue' = queue \/ queue' = <<>> \/ \E p \in Sends : Remove(p)

(* No prompt moves but out of the queue or the journal. *)
Moves ==
  /\ UNCHANGED <<batch, accepted>>
  /\ \A c \in Chats : /\ pc'[c] \in CarryPlaces => pc[c] \in CarryPlaces
                      /\ pc'[c] \in Unstarted => pc[c] \in Unstarted
  /\ QueueMoves
  /\ HistoryMoves

(* A call begins the turn of its own prompt. *)
Starts(c) ==
  /\ pc[c] = "attaching" \/ (c \in Syncs /\ pc[c] = "new")
  /\ Goto(c, "loading")
  /\ UNCHANGED <<queue, history, accepted, batch>>

(* The batch of a turn is stored. *)
Stores(c) ==
  /\ pc[c] = "appending"
  /\ history' = history \o UserRecords(batch[c])
  /\ Goto(c, "confirming")
  /\ UNCHANGED <<queue, accepted, batch>>

Queues(c) == c \in Sends /\ EnqueueCommit(c)

(* The rows become the batch of the turn that drains them. *)
Drains(c) ==
  /\ c \in Sends
  /\ pc[c] = "draining"
  /\ queue' = <<>>
  /\ batch' = [batch EXCEPT ![c] = queue]
  /\ Goto(c, "drained")
  /\ UNCHANGED <<history, accepted>>

(* A chat call that goes on, or gives up, with its prompts. *)
LEMMA CallMoves ==
  ASSUME TypeOK, NEW c \in Chats, NEW l, Goto(c, l),
         l \in CarryPlaces => pc[c] \in CarryPlaces,
         l \in Unstarted => pc[c] \in Unstarted,
         UNCHANGED <<batch, accepted>>, QueueMoves, HistoryMoves
  PROVE  Moves
BY DEF TypeOK, TypeOKChats, Goto, Moves

(* Every step of a session moves prompts in one of the five ways. *)
LEMMA PromptSteps ==
  TypeOK /\ [Next]_vars =>
    Moves \/ \E c \in Chats : Starts(c) \/ Stores(c) \/ Queues(c) \/ Drains(c)
<1> SUFFICES ASSUME TypeOK, [Next]_vars
             PROVE  Moves \/ \E c \in Chats : Starts(c) \/ Stores(c) \/ Queues(c)
                                              \/ Drains(c)
  OBVIOUS
<1> USE DEF Goto
<1>1. ASSUME NEW c \in Chats, SendBegin(c) PROVE Starts(c) \/ Moves
  <2>1. CASE c \in Syncs
    BY <1>1, <2>1, ChatTurnsAssumption DEF SendBegin, Starts
  <2>2. CASE c \in Sends
    BY <1>1, <2>2, CallMoves DEF SendBegin, CarryPlaces, Unstarted, QueueMoves,
           HistoryMoves
  <2> QED
    BY <2>1, <2>2 DEF Chats
<1>2. ASSUME NEW c \in Chats,
             SendRefused(c) \/ LoadHistory(c) \/ Confirm(c) \/ Activate(c)
             \/ Publish(c) \/ Finish(c) \/ DropGuard(c) \/ StartFails(c)
             \/ PrepareFails(c) \/ CallDropped(c) \/ RunDies(c)
             \/ (\E t \in Terminals : RunEnds(c, t))
      PROVE  Moves
  <2>1. PICK l : /\ Goto(c, l)
                 /\ l \in CarryPlaces => pc[c] \in CarryPlaces
                 /\ l \notin Unstarted
    BY <1>2 DEF SendRefused, LoadHistory, Confirm, Activate, Publish, Finish,
           DropGuard, StartFails, PrepareFails, CallDropped, RunDies, RunEnds,
           Exit, CarryPlaces, Unstarted
  <2>2. UNCHANGED <<queue, history, batch, accepted>>
    BY <1>2 DEF SendRefused, LoadHistory, Confirm, Activate, Publish, Finish,
           DropGuard, StartFails, PrepareFails, CallDropped, RunDies, RunEnds
  <2> QED
    BY <2>1, <2>2, CallMoves DEF QueueMoves, HistoryMoves
<1>3. ASSUME NEW c \in Chats, AppendTurn(c) PROVE Stores(c) \/ Moves
  <2>1. CASE Len(history) = Len(view[c])
    BY <1>3, <2>1 DEF AppendTurn, Stores
  <2>2. CASE Len(history) /= Len(view[c])
    BY <1>3, <2>2, CallMoves DEF AppendTurn, Exit, CarryPlaces, Unstarted,
           QueueMoves, HistoryMoves
  <2> QED
    BY <2>1, <2>2
<1>4. ASSUME NEW c \in Chats, UnsetActive(c) PROVE Moves
  BY <1>4, CallMoves DEF UnsetActive, CarryPlaces, Unstarted, QueueMoves,
         HistoryMoves
<1>5. ASSUME NEW c \in Chats, RunAppends(c) PROVE Moves
  BY <1>5, RunType DEF RunAppends, Moves, QueueMoves, HistoryMoves, TypeOK
<1>6. ASSUME NEW c \in Chats,
             FinaliseRun(c) \/ FinaliseActive(c) \/ StopRun(c)
      PROVE  Moves
  BY <1>6 DEF FinaliseRun, FinaliseActive, StopRun, untouchedByStops, chatVars,
         Moves, QueueMoves, HistoryMoves
<1>7. ASSUME NEW c \in Sends,
             AcquireTurn(c) \/ EnqueueBegin(c) \/ EnqueueFails(c)
             \/ FinishEnqueue(c) \/ DropUnattached(c) \/ CheckSuppressed(c)
             \/ DrainFails(c) \/ StartQueuedBatch(c) \/ OwnerDropsTurn(c)
             \/ OwnerDropsHolder(c)
      PROVE  Moves
  <2>1. PICK l : /\ Goto(c, l)
                 /\ l \in CarryPlaces => pc[c] \in CarryPlaces
                 /\ l \in Unstarted => pc[c] \in Unstarted
    BY <1>7 DEF AcquireTurn, EnqueueBegin, EnqueueFails, FinishEnqueue,
           DropUnattached, CheckSuppressed, DrainFails, StartQueuedBatch,
           OwnerDropsTurn, OwnerDropsHolder, CarryPlaces, Unstarted
  <2>2. UNCHANGED <<queue, history, batch, accepted>>
    BY <1>7 DEF AcquireTurn, EnqueueBegin, EnqueueFails, FinishEnqueue,
           DropUnattached, CheckSuppressed, DrainFails, StartQueuedBatch,
           OwnerDropsTurn, OwnerDropsHolder
  <2> QED
    BY <2>1, <2>2, CallMoves DEF QueueMoves, HistoryMoves, Chats
<1>8. ASSUME NEW c \in Sends, Attach(c) PROVE Starts(c) \/ Moves
  <2>1. CASE pc' = [pc EXCEPT ![c] = "loading"]
    BY <1>8, <2>1 DEF Attach, Starts
  <2>2. CASE pc' = [pc EXCEPT ![c] = "unattached"]
    BY <1>8, <2>2, CallMoves DEF Attach, CarryPlaces, Unstarted, QueueMoves,
           HistoryMoves, Chats
  <2> QED
    BY <1>8, <2>1, <2>2 DEF Attach
<1>9. ASSUME NEW c \in Sends, DrainQueue(c) PROVE Drains(c) \/ Moves
  <2>1. CASE queue = <<>>
    BY <1>9, <2>1, CallMoves DEF DrainQueue, CarryPlaces, Unstarted,
           QueueMoves, HistoryMoves, Chats
  <2>2. CASE queue /= <<>>
    BY <1>9, <2>2 DEF DrainQueue, Drain, Drains
  <2> QED
    BY <2>1, <2>2
<1>10. ASSUME NEW p \in Sends, RemoveQueued(p) PROVE Moves
  BY <1>10 DEF RemoveQueued, chatVars, Moves, QueueMoves, HistoryMoves
<1>11. ASSUME NEW s \in Stoppers,
              (\E e \in Chats \cup {None} : StopChoose(s, e))
              \/ (\E e \in Chats \cup {None} : StopMismatch(s, e))
              \/ StopLook(s) \/ StopCapture(s) \/ StopAwait(s)
              \/ StopSnapshot(s) \/ StopWake(s) \/ StopRecheck(s)
              \/ StopEnd(s) \/ StopDropped(s)
       PROVE  Moves
  BY <1>11 DEF StopChoose, StopMismatch, StopLook, StopCapture, StopAwait,
         StopSnapshot, StopWake, StopRecheck, StopEnd, StopDropped,
         untouchedByStops, chatVars, Moves, QueueMoves, HistoryMoves
<1>12. ASSUME NEW s \in Stoppers, StopClear(s) PROVE Moves
  BY <1>12 DEF StopClear, Clear, untouchedByStops, chatVars, Moves, QueueMoves,
         HistoryMoves
<1>13. ASSUME NEW m \in Mutators,
              Reserve(m) \/ MutationStopped(m) \/ Acquire(m) \/ Mutate(m)
              \/ MutationDropsGate(m) \/ MutationDropsTurn(m)
       PROVE  Moves
  BY <1>13 DEF Reserve, MutationStopped, Acquire, Mutate, MutationDropsGate,
         MutationDropsTurn, untouchedByMutations, Moves, QueueMoves, HistoryMoves
<1>14. ASSUME NEW w \in Waiters,
              WaitSubscribe(w) \/ WaitReadTerminal(w) \/ WaitReadActive(w)
              \/ WaitChanged(w)
       PROVE  Moves
  BY <1>14 DEF WaitSubscribe, WaitReadTerminal, WaitReadActive, WaitChanged,
         untouchedByWaits, chatVars, Moves, QueueMoves, HistoryMoves
<1>15. ASSUME ClearChat PROVE Moves
  BY <1>15 DEF ClearChat, Moves, QueueMoves, HistoryMoves
<1>16. ASSUME Crash PROVE Moves
  BY <1>16 DEF Crash, Moves, QueueMoves, HistoryMoves, CarryPlaces, Unstarted
<1>17. CASE UNCHANGED vars
  BY <1>17 DEF vars, chatVars, Moves, QueueMoves, HistoryMoves
<1> QED
  BY <1>1, <1>2, <1>3, <1>4, <1>5, <1>6, <1>7, <1>8, <1>9, <1>10, <1>11,
     <1>12, <1>13, <1>14, <1>15, <1>16, <1>17
     DEF Next, SendStep, TurnStep, SendFails, TurnFails, FinaliserStep, StopStep,
         MutationStep, WaitStep, AllReturned, Queues, Chats

-----------------------------------------------------------------------------
(* What the five kinds of step do to the journal and to the queue. *)

(* What moves in the journal is no prompt: one that is there stays where it *)
(* was or is cut off.                                                       *)
LEMMA HistoryKeeps ==
  ASSUME TypeOK, HistoryMoves, NEW i \in DOMAIN history',
         history'[i].role = "user"
  PROVE  i \in DOMAIN history /\ history'[i] = history[i]
<1>1. history \in Seq(Records) /\ Len(history) \in Nat
      /\ DOMAIN history = 1..Len(history)
  BY DEF TypeOK, TypeOKChats
<1>2. CASE history' = history
  BY <1>2
<1>3. CASE history' = <<>>
  BY <1>3
<1>4. ASSUME NEW n \in 0..Len(history), history' = SubSeq(history, 1, n)
      PROVE  i \in DOMAIN history /\ history'[i] = history[i]
  <2>1. DOMAIN history' = 1..n /\ \A k \in 1..n : history'[k] = history[k]
    BY <1>1, <1>4, SubSeqProperties
  <2> QED
    BY <1>1, <2>1
<1>5. ASSUME NEW r \in Chats, history' = Append(history, Output(r))
      PROVE  i \in DOMAIN history /\ history'[i] = history[i]
  <2>1. Output(r) \in Records /\ Output(r).role /= "user"
    BY DEF Output, Records
  <2>2. /\ DOMAIN history' = 1..(Len(history) + 1)
        /\ \A k \in 1..Len(history) : history'[k] = history[k]
        /\ history'[Len(history) + 1] = Output(r)
    BY <1>1, <1>5, <2>1, AppendProperties
  <2>3. i \in 1..Len(history) \/ i = Len(history) + 1
    BY <1>1, <2>2
  <2> QED
    BY <1>1, <2>1, <2>2, <2>3
<1> QED
  BY <1>2, <1>3, <1>4, <1>5 DEF HistoryMoves

(* Storing a batch puts its prompts behind what the journal holds. *)
LEMMA StoresHistory ==
  ASSUME TypeOK, NEW c \in Chats, Stores(c)
  PROVE  /\ DOMAIN history = 1..Len(history) /\ Len(history) \in Nat
         /\ DOMAIN batch[c] = 1..Len(batch[c]) /\ Len(batch[c]) \in Nat
         /\ DOMAIN history' = 1..(Len(history) + Len(batch[c]))
         /\ \A i \in 1..Len(history) : history'[i] = history[i]
         /\ \A i \in 1..Len(batch[c]) :
              history'[Len(history) + i] = User(batch[c][i])
<1>1. /\ history \in Seq(Records) /\ batch[c] \in Seq(Chats)
      /\ UserRecords(batch[c]) \in Seq(Records)
  BY UserRecordsType DEF TypeOK, TypeOKChats
<1>2. /\ Len(UserRecords(batch[c])) = Len(batch[c])
      /\ \A i \in 1..Len(batch[c]) : UserRecords(batch[c])[i] = User(batch[c][i])
  BY <1>1 DEF UserRecords
<1>3. history' = history \o UserRecords(batch[c])
  BY DEF Stores
<1>4. DOMAIN history' = 1..(Len(history) + Len(batch[c]))
  <2>1. history' \in Seq(Records)
    BY <1>1, <1>3, ConcatProperties
  <2>2. Len(history') = Len(history) + Len(UserRecords(batch[c]))
    BY <1>1, <1>3, ConcatProperties
  <2> QED
    BY <1>2, <2>1, <2>2
<1>5. /\ \A i \in 1..Len(history) : history'[i] = history[i]
      /\ \A i \in 1..Len(batch[c]) :
           history'[Len(history) + i] = User(batch[c][i])
  BY <1>1, <1>2, <1>3, ConcatProperties
<1> QED
  BY <1>1, <1>4, <1>5

(* Rows that stay in the queue keep their order. *)
LEMMA QueueKeeps ==
  ASSUME TypeOK, QueueMoves, NEW i \in DOMAIN queue', NEW j \in DOMAIN queue',
         i < j
  PROVE  \E k, l \in DOMAIN queue :
           k < l /\ queue[k] = queue'[i] /\ queue[l] = queue'[j]
<1>1. queue \in Seq(Sends) /\ Len(queue) \in Nat
      /\ DOMAIN queue = 1..Len(queue)
  BY DEF TypeOK, TypeOKQueue
<1>2. CASE queue' = queue
  BY <1>2
<1>3. CASE queue' = <<>>
  BY <1>3
<1>4. ASSUME NEW p \in Sends, Remove(p)
      PROVE  \E k, l \in DOMAIN queue :
               k < l /\ queue[k] = queue'[i] /\ queue[l] = queue'[j]
  <2>1. PICK n \in DOMAIN queue :
          queue' = SubSeq(queue, 1, n - 1) \o SubSeq(queue, n + 1, Len(queue))
    BY <1>4 DEF Remove
  <2> DEFINE a == SubSeq(queue, 1, n - 1)
             b == SubSeq(queue, n + 1, Len(queue))
             place(m) == IF m < n THEN m ELSE m + 1
  <2>2. n \in 1..Len(queue)
    BY <1>1
  <2>3. /\ a \in Seq(Sends) /\ Len(a) = n - 1
        /\ \A m \in 1..(n - 1) : a[m] = queue[m]
    BY <1>1, <2>2, SubSeqProperties
  <2>4. /\ b \in Seq(Sends) /\ Len(b) = Len(queue) - n
        /\ \A m \in 1..(Len(queue) - n) : b[m] = queue[n + m]
    BY <1>1, <2>2, SubSeqProperties
  <2>5. queue' = a \o b
    BY <2>1
  <2> HIDE DEF a, b
  <2>6. ASSUME NEW m \in DOMAIN queue'
        PROVE  /\ m \in Nat
               /\ place(m) \in DOMAIN queue
               /\ queue[place(m)] = queue'[m]
    <3>1. m \in 1..(Len(queue) - 1)
      BY <1>1, <2>2, <2>3, <2>4, <2>5, ConcatProperties
    <3>2. CASE m < n
      <4>1. m \in 1..(n - 1)
        BY <1>1, <2>2, <3>1, <3>2
      <4>2. queue'[m] = a[m]
        BY <1>1, <2>2, <2>3, <2>4, <2>5, <3>1, <4>1, ConcatProperties
      <4> QED
        BY <1>1, <2>2, <2>3, <3>1, <3>2, <4>1, <4>2
    <3>3. CASE m >= n
      <4>1. m - (n - 1) \in 1..(Len(queue) - n)
        BY <1>1, <2>2, <3>1, <3>3
      <4>2. queue'[m] = b[m - (n - 1)]
        BY <1>1, <2>2, <2>3, <2>4, <2>5, <3>1, <3>3, ConcatProperties
      <4>3. n + (m - (n - 1)) = m + 1
        BY <2>2, <3>1
      <4> QED
        BY <1>1, <2>2, <2>4, <3>1, <3>3, <4>1, <4>2, <4>3
    <3> QED
      BY <1>1, <2>2, <3>1, <3>2, <3>3
  <2>7. place(i) < place(j)
    BY <1>1, <2>2, <2>6
  <2> QED
    BY <2>6, <2>7
<1> QED
  BY <1>2, <1>3, <1>4 DEF QueueMoves

(* No row appears in a queue that moves. *)
LEMMA QueueShrinks ==
  ASSUME TypeOK, QueueMoves, NEW p, Queued(p)'
  PROVE  Queued(p)
<1>1. CASE queue' = queue
  BY <1>1 DEF Queued
<1>2. CASE queue' = <<>>
  BY <1>2 DEF Queued
<1>3. ASSUME NEW q \in Sends, Remove(q) PROVE Queued(p)
  BY <1>3, RemoveShrinks DEF TypeOK
<1> QED
  BY <1>1, <1>2, <1>3 DEF QueueMoves

-----------------------------------------------------------------------------
(* A prompt is in one place at most. *)

(* A call that has not started its turn has its own prompt and no other,    *)
(* and the journal has not seen it; a send_sync never has any other; and a  *)
(* batch holds no prompt twice.                                             *)
OwnPrompts ==
  /\ \A p \in Chats : pc[p] \in Unstarted => batch[p] = <<p>> /\ ~InHistory(p)
  /\ \A c \in Syncs : batch[c] = <<c>>
  /\ \A c \in Carriers :
       \A i, j \in DOMAIN batch[c] : batch[c][i] = batch[c][j] => i = j

OnceInv == BatchesDisjoint /\ OwnPrompts /\ AtMostOnce

(* The batch of one prompt. *)
LEMMA OwnBatch ==
  ASSUME NEW c \in Chats, batch[c] = <<c>>, NEW p
  PROVE  /\ InBatch(c, p) <=> p = c
         /\ \A i, j \in DOMAIN batch[c] : batch[c][i] = batch[c][j] => i = j
         /\ \A q : ~Before(batch[c], q, p)
BY DEF InBatch, Before

(* No prompt that was in the journal before a step that moves none is there *)
(* after it, unless it was already.                                         *)
LEMMA InHistoryKeeps ==
  ASSUME TypeOK, HistoryMoves, NEW p, InHistory(p)'
  PROVE  InHistory(p)
<1>1. PICK i \in DOMAIN history' : history'[i] = User(p)
  BY DEF InHistory
<1>2. history'[i].role = "user"
  BY <1>1 DEF User
<1> QED
  BY <1>1, <1>2, HistoryKeeps DEF InHistory

(* What the journal holds after a batch was stored. *)
LEMMA InHistoryStores ==
  ASSUME TypeOK, NEW c \in Chats, Stores(c), NEW p
  PROVE  InHistory(p)' <=> InHistory(p) \/ InBatch(c, p)
<1>1. \A q, r : User(q) = User(r) <=> q = r
  BY DEF User
<1>2. InHistory(p)' => InHistory(p) \/ InBatch(c, p)
  <2>1. ASSUME NEW i \in DOMAIN history', history'[i] = User(p)
        PROVE  InHistory(p) \/ InBatch(c, p)
    <3>1. CASE i \in 1..Len(history)
      BY <2>1, <3>1, StoresHistory DEF InHistory
    <3>2. CASE i \notin 1..Len(history)
      <4>1. i - Len(history) \in 1..Len(batch[c])
            /\ i = Len(history) + (i - Len(history))
        BY <2>1, <3>2, StoresHistory
      <4>2. history'[i] = User(batch[c][i - Len(history)])
        BY <4>1, StoresHistory
      <4> QED
        BY <1>1, <2>1, <4>1, <4>2, StoresHistory DEF InBatch, User
    <3> QED
      BY <3>1, <3>2
  <2> QED
    BY <2>1 DEF InHistory
<1>3. InHistory(p) => InHistory(p)'
  BY StoresHistory DEF InHistory
<1>4. InBatch(c, p) => InHistory(p)'
  <2>1. ASSUME NEW i \in 1..Len(batch[c]), batch[c][i] = p PROVE InHistory(p)'
    <3>1. Len(history) + i \in DOMAIN history'
      BY StoresHistory
    <3> QED
      BY <2>1, <3>1, StoresHistory DEF InHistory
  <2> QED
    BY <2>1, StoresHistory DEF InBatch
<1> QED
  BY <1>2, <1>3, <1>4

(* Nothing is carried, queued or stored a second time by a step that moves  *)
(* no prompt.                                                               *)
LEMMA OnceMoves ==
  ASSUME TypeOK, TypeOK', OnceInv, Moves PROVE OwnPrompts' /\ AtMostOnce'
<1>1. /\ Carriers' \subseteq Carriers
      /\ \A p \in Chats : pc'[p] \in Unstarted => pc[p] \in Unstarted
  BY DEF Carriers, Moves, CarryPlaces
<1>2. \A c, p : InBatch(c, p)' <=> InBatch(c, p)
  BY DEF InBatch, Moves
<1>3. \A p : /\ InHistory(p)' => InHistory(p)
             /\ Queued(p)' => Queued(p)
  BY InHistoryKeeps, QueueShrinks DEF Moves
<1>4. OwnPrompts'
  BY <1>1, <1>3 DEF OwnPrompts, OnceInv, Moves
<1>5. ASSUME NEW i \in DOMAIN history', NEW j \in DOMAIN history',
             history'[i] = history'[j], history'[i].role = "user"
      PROVE  i = j
  <2>1. /\ i \in DOMAIN history /\ history'[i] = history[i]
        /\ j \in DOMAIN history /\ history'[j] = history[j]
    BY <1>5, HistoryKeeps DEF Moves
  <2> QED
    BY <1>5, <2>1 DEF OnceInv, AtMostOnce
<1>6. ASSUME NEW i \in DOMAIN queue', NEW j \in DOMAIN queue',
             queue'[i] = queue'[j]
      PROVE  i = j
  <2>1. ASSUME NEW m \in DOMAIN queue', NEW n \in DOMAIN queue', m < n
        PROVE  queue'[m] /= queue'[n]
    <3>1. PICK k \in DOMAIN queue, l \in DOMAIN queue :
            k < l /\ queue[k] = queue'[m] /\ queue[l] = queue'[n]
      BY <2>1, QueueKeeps DEF Moves
    <3>2. k /= l
      BY <3>1 DEF TypeOK, TypeOKQueue
    <3> QED
      BY <3>1, <3>2 DEF OnceInv, AtMostOnce
  <2>2. i \in Nat /\ j \in Nat
    BY DEF TypeOK, TypeOKQueue
  <2> QED
    BY <1>6, <2>1, <2>2
<1>7. ASSUME NEW p \in Chats
      PROVE  /\ Queued(p)' => ~InHistory(p)'
             /\ \A c \in Carriers' : InBatch(c, p)' =>
                  /\ ~Queued(p)'
                  /\ ~InHistory(p)'
                  /\ \A d \in Carriers' : InBatch(d, p)' => d = c
  BY <1>1, <1>2, <1>3 DEF OnceInv, AtMostOnce
<1> QED
  BY <1>4, <1>5, <1>6, <1>7 DEF AtMostOnce

LEMMA OnceStarts ==
  ASSUME TypeOK, OnceInv, NEW c \in Chats, Starts(c)
  PROVE  OwnPrompts' /\ AtMostOnce'
<1>1. /\ batch[c] = <<c>> /\ ~InHistory(c) /\ ~Accepted(c)
      /\ c \notin Carriers
  BY DEF Starts, OnceInv, OwnPrompts, BatchesDisjoint, Unstarted, Carriers
<1>2. \A p \in Chats : pc'[p] = IF p = c THEN "loading" ELSE pc[p]
  BY DEF Starts, Goto, TypeOK, TypeOKChats
<1>3. Carriers' = Carriers \cup {c}
  BY <1>2 DEF Carriers
<1>4. /\ \A d, p : InBatch(d, p)' <=> InBatch(d, p)
      /\ \A p : /\ InHistory(p)' <=> InHistory(p)
                /\ Queued(p)' <=> Queued(p)
  BY DEF InBatch, InHistory, Queued, Starts
<1>5. OwnPrompts'
  <2>1. \A p \in Chats : pc'[p] \in Unstarted =>
           batch'[p] = <<p>> /\ ~InHistory(p)'
    BY <1>2, <1>4 DEF OwnPrompts, OnceInv, Starts, Unstarted
  <2>2. \A d \in Syncs : batch'[d] = <<d>>
    BY DEF OwnPrompts, OnceInv, Starts
  <2>3. \A d \in Carriers' : \A i, j \in DOMAIN batch'[d] :
           batch'[d][i] = batch'[d][j] => i = j
    BY <1>1, <1>3, OwnBatch DEF OwnPrompts, OnceInv, Starts
  <2> QED
    BY <2>1, <2>2, <2>3 DEF OwnPrompts
<1>6. \A p : InBatch(c, p) <=> p = c
  BY <1>1, OwnBatch
<1>7. \A d \in Carriers : ~InBatch(d, c)
  BY <1>1 DEF OnceInv, BatchesDisjoint, Carriers
<1>8. ~Queued(c)
  BY <1>1 DEF OnceInv, BatchesDisjoint
<1>9. \A p \in Chats :
        /\ Queued(p)' => ~InHistory(p)'
        /\ \A d \in Carriers' : InBatch(d, p)' =>
             /\ ~Queued(p)'
             /\ ~InHistory(p)'
             /\ \A e \in Carriers' : InBatch(e, p)' => e = d
  BY <1>1, <1>3, <1>4, <1>6, <1>7, <1>8 DEF OnceInv, AtMostOnce
<1> QED
  BY <1>5, <1>9 DEF OnceInv, AtMostOnce, Starts

LEMMA OnceStores ==
  ASSUME TypeOK, OnceInv, NEW c \in Chats, Stores(c)
  PROVE  OwnPrompts' /\ AtMostOnce'
<1>1. c \in Carriers
  BY DEF Stores, Carriers
<1>2. \A p \in Chats : pc'[p] = IF p = c THEN "confirming" ELSE pc[p]
  BY DEF Stores, Goto, TypeOK, TypeOKChats
<1>3. Carriers' = Carriers \ {c}
  BY <1>2 DEF Carriers
<1>4. /\ \A d, p : InBatch(d, p)' <=> InBatch(d, p)
      /\ \A p : /\ InHistory(p)' <=> InHistory(p) \/ InBatch(c, p)
                /\ Queued(p)' <=> Queued(p)
  BY InHistoryStores DEF InBatch, Queued, Stores
<1>5. OwnPrompts'
  <2>1. ASSUME NEW p \in Chats, pc'[p] \in Unstarted
        PROVE  batch'[p] = <<p>> /\ ~InHistory(p)'
    <3>1. p /= c /\ pc[p] \in Unstarted
      BY <1>2, <2>1 DEF Unstarted
    <3>2. ~Accepted(p)
      BY <3>1 DEF OnceInv, BatchesDisjoint, Unstarted
    <3>3. ~InBatch(c, p)
      BY <3>1, <3>2 DEF OnceInv, BatchesDisjoint
    <3> QED
      BY <1>4, <3>1, <3>3 DEF OwnPrompts, OnceInv, Stores
  <2>2. \A d \in Syncs : batch'[d] = <<d>>
    BY DEF OwnPrompts, OnceInv, Stores
  <2>3. \A d \in Carriers' : \A i, j \in DOMAIN batch'[d] :
           batch'[d][i] = batch'[d][j] => i = j
    BY <1>3 DEF OwnPrompts, OnceInv, Stores
  <2> QED
    BY <2>1, <2>2, <2>3 DEF OwnPrompts
<1>6. ASSUME NEW i \in DOMAIN history', NEW j \in DOMAIN history',
             history'[i] = history'[j], history'[i].role = "user"
      PROVE  i = j
  <2> DEFINE n == Len(history)
  <2>1. \A m \in DOMAIN history' :
          \/ m \in DOMAIN history /\ history'[m] = history[m]
          \/ /\ m - n \in DOMAIN batch[c]
             /\ history'[m] = User(batch[c][m - n])
    <3>1. ASSUME NEW m \in DOMAIN history', m \notin DOMAIN history
          PROVE  /\ m - n \in DOMAIN batch[c]
                 /\ history'[m] = User(batch[c][m - n])
      <4>1. m - n \in 1..Len(batch[c]) /\ n + (m - n) = m
        BY <3>1, StoresHistory
      <4> QED
        BY <4>1, StoresHistory
    <3> QED
      BY <3>1, StoresHistory
  <2>2. \A m, k \in DOMAIN history' :
          m \in DOMAIN history /\ k - n \in DOMAIN batch[c]
            => history[m] /= User(batch[c][k - n])
    <3>1. \A k \in DOMAIN batch[c] : ~InHistory(batch[c][k])
      BY <1>1 DEF OnceInv, AtMostOnce, InBatch, TypeOK, TypeOKChats
    <3> QED
      BY <3>1 DEF InHistory
  <2>3. CASE i \in DOMAIN history /\ history'[i] = history[i]
    <3>1. j \in DOMAIN history /\ history'[j] = history[j]
      BY <1>6, <2>1, <2>2, <2>3
    <3> QED
      BY <1>6, <2>3, <3>1 DEF OnceInv, AtMostOnce
  <2>4. CASE i - n \in DOMAIN batch[c] /\ history'[i] = User(batch[c][i - n])
    <3>1. j - n \in DOMAIN batch[c] /\ history'[j] = User(batch[c][j - n])
      BY <1>6, <2>1, <2>2, <2>4
    <3>2. User(batch[c][i - n]) = User(batch[c][j - n])
      BY <1>6, <2>4, <3>1
    <3> HIDE DEF n
    <3>3. batch[c][i - n] = batch[c][j - n]
      BY <3>2 DEF User
    <3>4. i - n = j - n
      BY <1>1, <2>4, <3>1, <3>3 DEF OnceInv, OwnPrompts
    <3> QED
      BY <3>4, StoresHistory DEF n
  <2> QED
    BY <2>1, <2>3, <2>4
<1>7. \A p \in Chats :
        /\ Queued(p)' => ~InHistory(p)'
        /\ \A d \in Carriers' : InBatch(d, p)' =>
             /\ ~Queued(p)'
             /\ ~InHistory(p)'
             /\ \A e \in Carriers' : InBatch(e, p)' => e = d
  BY <1>1, <1>3, <1>4 DEF OnceInv, AtMostOnce
<1> QED
  BY <1>5, <1>6, <1>7 DEF OnceInv, AtMostOnce, Stores

(* A prompt is queued while it is nowhere else. *)
LEMMA OnceQueues ==
  ASSUME TypeOK, OnceInv, NEW c \in Chats, Queues(c)
  PROVE  OwnPrompts' /\ AtMostOnce'
<1>1. /\ c \in Sends /\ pc[c] = "enqueueing" /\ ~InHistory(c) /\ ~Accepted(c)
      /\ c \notin Carriers
  BY DEF Queues, EnqueueCommit, OnceInv, OwnPrompts, BatchesDisjoint, Unstarted,
         Carriers
<1>2. \A p \in Chats : pc'[p] = IF p = c THEN "enqueued" ELSE pc[p]
  BY DEF Queues, EnqueueCommit, Goto, TypeOK, TypeOKChats
<1>3. Carriers' = Carriers
  BY <1>1, <1>2 DEF Carriers
<1>4. /\ UNCHANGED <<history, batch>>
      /\ \A d, p : InBatch(d, p)' <=> InBatch(d, p)
      /\ \A p : InHistory(p)' <=> InHistory(p)
  BY DEF InBatch, InHistory, Queues, EnqueueCommit
<1>5. queue' = Append(queue, c) /\ queue \in Seq(Sends)
  BY DEF Queues, EnqueueCommit, Enqueue, TypeOK, TypeOKQueue
<1>6. \A p : Queued(p)' <=> Queued(p) \/ p = c
  BY <1>1, <1>5, AppendMember DEF Queued
<1>7. OwnPrompts'
  BY <1>2, <1>3, <1>4 DEF OwnPrompts, OnceInv, Unstarted
<1>8. ~Queued(c) /\ \A d \in Carriers : ~InBatch(d, c)
  BY <1>1 DEF OnceInv, BatchesDisjoint, Carriers
<1>9. \A i, j \in DOMAIN queue' : queue'[i] = queue'[j] => i = j
  <2>1. /\ DOMAIN queue' = 1..(Len(queue) + 1) /\ DOMAIN queue = 1..Len(queue)
        /\ Len(queue) \in Nat
        /\ \A i \in 1..Len(queue) : queue'[i] = queue[i]
        /\ queue'[Len(queue) + 1] = c
    BY <1>1, <1>5, AppendProperties
  <2>2. \A i \in 1..Len(queue) : queue'[i] /= c
    BY <1>8, <2>1 DEF Queued
  <2> QED
    BY <2>1, <2>2 DEF OnceInv, AtMostOnce
<1>10. \A p \in Chats :
         /\ Queued(p)' => ~InHistory(p)'
         /\ \A d \in Carriers' : InBatch(d, p)' =>
              /\ ~Queued(p)'
              /\ ~InHistory(p)'
              /\ \A e \in Carriers' : InBatch(e, p)' => e = d
  BY <1>1, <1>3, <1>4, <1>6, <1>8 DEF OnceInv, AtMostOnce
<1> QED
  BY <1>4, <1>7, <1>9, <1>10 DEF OnceInv, AtMostOnce

(* What was queued is carried, by the one turn that drains. *)
LEMMA OnceDrains ==
  ASSUME TypeOK, OnceInv, NEW c \in Chats, Drains(c)
  PROVE  OwnPrompts' /\ AtMostOnce'
<1>1. c \in Sends /\ c \notin Carriers /\ c \notin Syncs
  BY ChatTurnsAssumption DEF Drains, Carriers
<1>2. /\ \A p \in Chats : pc'[p] = IF p = c THEN "drained" ELSE pc[p]
      /\ \A p \in Chats : batch'[p] = IF p = c THEN queue ELSE batch[p]
  BY DEF Drains, Goto, TypeOK, TypeOKChats
<1>3. Carriers' = Carriers \cup {c}
  BY <1>2 DEF Carriers
<1>4. \A p : InHistory(p)' <=> InHistory(p)
  BY DEF InHistory, Drains
<1>5. \A p : ~Queued(p)'
  BY DEF Queued, Drains
<1>6. /\ \A d \in Chats : d /= c => \A p : InBatch(d, p)' <=> InBatch(d, p)
      /\ \A p : InBatch(c, p)' <=> Queued(p)
  BY <1>2 DEF InBatch, Queued
<1>7. OwnPrompts'
  <2>1. \A p \in Chats : pc'[p] \in Unstarted =>
          batch'[p] = <<p>> /\ ~InHistory(p)'
    BY <1>2, <1>4 DEF OwnPrompts, OnceInv, Unstarted
  <2>2. \A d \in Syncs : batch'[d] = <<d>>
    BY <1>1, <1>2 DEF OwnPrompts, OnceInv, Chats
  <2>3. \A d \in Carriers' : \A i, j \in DOMAIN batch'[d] :
          batch'[d][i] = batch'[d][j] => i = j
    BY <1>1, <1>2, <1>3 DEF OwnPrompts, OnceInv, AtMostOnce, Carriers
  <2> QED
    BY <2>1, <2>2, <2>3 DEF OwnPrompts
<1>8. \A d \in Carriers' : \A p \in Chats : InBatch(d, p)' =>
        /\ ~InHistory(p)
        /\ \A e \in Carriers' : InBatch(e, p)' => e = d
  BY <1>1, <1>3, <1>6 DEF OnceInv, AtMostOnce, Carriers
<1> QED
  BY <1>4, <1>5, <1>7, <1>8 DEF OnceInv, AtMostOnce, Drains

LEMMA OnceStep ==
  TypeOK /\ TypeOK' /\ GuardOfPlace /\ OnceInv /\ [Next]_vars => OnceInv'
<1> SUFFICES ASSUME TypeOK, TypeOK', GuardOfPlace, OnceInv, [Next]_vars
             PROVE  OnceInv'
  OBVIOUS
<1>1. BatchesDisjoint'
  BY BatchesStep DEF OnceInv
<1>2. OwnPrompts' /\ AtMostOnce'
  BY PromptSteps, OnceMoves, OnceStarts, OnceStores, OnceQueues, OnceDrains
<1> QED
  BY <1>1, <1>2 DEF OnceInv

LEMMA InitOnce == Init => OnceInv
<1> SUFFICES ASSUME Init PROVE OnceInv
  OBVIOUS
<1>1. /\ \A p \in Chats : batch[p] = <<p>> /\ pc[p] = "new"
      /\ queue = <<>> /\ history = <<>> /\ accepted = <<>>
  BY DEF Init, InitQueue
<1>2. /\ \A p : ~Accepted(p) /\ ~Queued(p) /\ ~InHistory(p)
      /\ \A c, p \in Chats : InBatch(c, p) => p = c
      /\ Carriers = {}
  BY <1>1 DEF Accepted, Queued, InHistory, InBatch, Carriers
<1>3. BatchesDisjoint
  BY <1>1, <1>2 DEF BatchesDisjoint
<1>4. OwnPrompts
  BY <1>1, <1>2 DEF OwnPrompts, Chats
<1> QED
  BY <1>1, <1>2, <1>3, <1>4 DEF OnceInv, AtMostOnce

LEMMA OnceInvariant == Spec => []OnceInv
<1>1. StopInv => TypeOK /\ GuardOfPlace
  BY DEF StopInv
<1> QED
  BY <1>1, InitOnce, OnceStep, StopInvariant, PTL DEF Spec

(* A prompt is in the journal at most once, or in the queue at most once,   *)
(* or in the batch of one call: whatever is removed, drained, refused,      *)
(* lost, cut from the journal or interrupted by a restart, for any number   *)
(* of sends, send_syncs, stops and mutations.                               *)
THEOREM PromptsAtMostOnce == Spec => []AtMostOnce
<1>1. OnceInv => AtMostOnce
  BY DEF OnceInv
<1> QED
  BY <1>1, OnceInvariant, PTL

-----------------------------------------------------------------------------
(* Queued prompts are not reordered. *)

(* What FifoOrder says of two prompts queued in this order. *)
InOrder(p, q) ==
  /\ ~Before(history, User(q), User(p))
  /\ ~Before(queue, q, p)
  /\ InHistory(q) => ~Queued(p) /\ \A c \in Carriers : ~InBatch(c, p)
  /\ \A c \in Carriers : InBatch(c, q) => ~Queued(p) /\ ~Before(batch[c], q, p)

(* Of the sends only the one with the permit carries prompts. *)
LEMMA OneSender ==
  ASSUME PermitExclusion, NEW c \in Carriers, NEW d \in Carriers,
         c \in Sends, d \in Sends
  PROVE  c = d
BY DEF PermitExclusion, Carriers, PermitPlaces, HolderPlaces, TurnPlaces

(* Both prompts of a pair were accepted. *)
LEMMA BeforeAccepted ==
  ASSUME NEW p, NEW q, Before(accepted, p, q)
  PROVE  Accepted(p) /\ Accepted(q)
BY DEF Before, Accepted

LEMMA OrderMoves ==
  ASSUME TypeOK, Moves, NEW p \in Sends, NEW q \in Sends, InOrder(p, q)
  PROVE  InOrder(p, q)'
<1>1. Carriers' \subseteq Carriers /\ UNCHANGED batch
  BY DEF Carriers, Moves, CarryPlaces
<1>2. \A c, r : InBatch(c, r)' <=> InBatch(c, r)
  BY <1>1 DEF InBatch
<1>3. \A r : /\ InHistory(r)' => InHistory(r)
             /\ Queued(r)' => Queued(r)
  BY InHistoryKeeps, QueueShrinks DEF Moves
<1>4. ~Before(history, User(q), User(p))'
  <2>1. \A i \in DOMAIN history' : history'[i] \in {User(p), User(q)} =>
          i \in DOMAIN history /\ history'[i] = history[i]
    BY HistoryKeeps DEF Moves, User
  <2> QED
    BY <2>1 DEF InOrder, Before
<1>5. ~Before(queue, q, p)'
  BY QueueKeeps DEF Moves, InOrder, Before
<1> QED
  BY <1>1, <1>2, <1>3, <1>4, <1>5 DEF InOrder

LEMMA OrderStarts ==
  ASSUME TypeOK, OnceInv, NEW c \in Chats, Starts(c),
         NEW p \in Sends, NEW q \in Sends, Before(accepted, p, q), InOrder(p, q)
  PROVE  InOrder(p, q)'
<1>1. c /= p /\ c /= q
  BY BeforeAccepted DEF Starts, OnceInv, BatchesDisjoint, Chats
<1>2. \A d \in Carriers' : d \in Carriers \/ d = c
  BY DEF Carriers, Starts, Goto, TypeOK, TypeOKChats
<1>3. batch[c] = <<c>>
  BY DEF Starts, OnceInv, OwnPrompts, Unstarted
<1>4. ~InBatch(c, p) /\ ~InBatch(c, q)
  BY <1>1, <1>3, OwnBatch
<1>5. UNCHANGED <<queue, history, batch>>
  BY DEF Starts
<1>6. /\ \A d, r : InBatch(d, r)' <=> InBatch(d, r)
      /\ \A r : /\ InHistory(r)' <=> InHistory(r)
                /\ Queued(r)' <=> Queued(r)
  BY <1>5 DEF InBatch, InHistory, Queued
<1> QED
  BY <1>2, <1>4, <1>5, <1>6 DEF InOrder, Before

LEMMA OrderStores ==
  ASSUME TypeOK, PermitExclusion, OnceInv, NEW c \in Chats, Stores(c),
         NEW p \in Sends, NEW q \in Sends, InOrder(p, q)
  PROVE  InOrder(p, q)'
<1>1. c \in Carriers /\ Carriers' \subseteq Carriers \ {c}
  BY DEF Stores, Carriers, Goto, TypeOK, TypeOKChats
<1>2. UNCHANGED <<queue, batch>>
  BY DEF Stores
<1>3. /\ \A d, r : InBatch(d, r)' <=> InBatch(d, r)
      /\ \A r : /\ InHistory(r)' <=> InHistory(r) \/ InBatch(c, r)
                /\ Queued(r)' <=> Queued(r)
  BY <1>2, InHistoryStores DEF InBatch, Queued
<1>4. ~Before(history, User(q), User(p))'
  <2> DEFINE n == Len(history)
  <2>1. \A m \in DOMAIN history' :
          \/ m \in DOMAIN history /\ m <= n /\ history'[m] = history[m]
          \/ /\ m - n \in DOMAIN batch[c] /\ m > n
             /\ history'[m] = User(batch[c][m - n])
    <3>1. ASSUME NEW m \in DOMAIN history', m > n
          PROVE  /\ m - n \in DOMAIN batch[c]
                 /\ history'[m] = User(batch[c][m - n])
      <4>1. m - n \in 1..Len(batch[c]) /\ n + (m - n) = m
        BY <3>1, StoresHistory
      <4> QED
        BY <4>1, StoresHistory
    <3> QED
      BY <3>1, StoresHistory
  <2>2. ASSUME NEW i \in DOMAIN history', NEW j \in DOMAIN history', i < j,
               history'[i] = User(q), history'[j] = User(p)
        PROVE  FALSE
    <3>1. \A r, s : User(r) = User(s) => r = s
      BY DEF User
    <3>2. i \in Nat /\ j \in Nat /\ n \in Nat
      BY StoresHistory
    <3> HIDE DEF n
    <3>3. CASE j <= n
      BY <2>1, <2>2, <3>2, <3>3 DEF InOrder, Before
    <3>4. CASE i <= n /\ j > n
      <4>1. InHistory(q)
        BY <2>1, <2>2, <3>2, <3>4 DEF InHistory
      <4>2. j - n \in DOMAIN batch[c] /\ batch[c][j - n] = p
        BY <2>1, <2>2, <3>1, <3>2, <3>4
      <4> QED
        BY <1>1, <4>1, <4>2 DEF InOrder, InBatch
    <3>5. CASE i > n
      <4>1. i - n \in DOMAIN batch[c] /\ batch[c][i - n] = q
        BY <2>1, <2>2, <3>1, <3>2, <3>5
      <4>2. j - n \in DOMAIN batch[c] /\ batch[c][j - n] = p
        BY <2>1, <2>2, <3>1, <3>2, <3>5
      <4>3. i - n < j - n
        BY <2>2, <3>2
      <4> QED
        BY <1>1, <4>1, <4>2, <4>3 DEF InOrder, InBatch, Before
    <3> QED
      BY <2>2, <3>2, <3>3, <3>4, <3>5
  <2> QED
    BY <2>2 DEF Before
<1>5. ASSUME InBatch(c, q), NEW d \in Carriers' PROVE ~InBatch(d, p)
  <2>1. \A e \in Chats, r \in Sends : InBatch(e, r) => e \in Sends
    BY OwnBatch, ChatTurnsAssumption DEF OnceInv, OwnPrompts, Chats
  <2>2. c \in Sends
    BY <1>5, <2>1
  <2>3. d \in Carriers /\ d /= c
    BY <1>1
  <2>4. d \notin Sends
    BY <1>1, <2>2, <2>3, OneSender
  <2> QED
    BY <2>1, <2>3, <2>4 DEF Carriers
<1> QED
  BY <1>1, <1>2, <1>3, <1>4, <1>5 DEF InOrder, Before

(* A row is accepted behind all the others. *)
LEMMA OrderQueues ==
  ASSUME TypeOK, OnceInv, FifoOrder, NEW c \in Chats, Queues(c),
         NEW p \in Sends, NEW q \in Sends, Before(accepted, p, q)'
  PROVE  InOrder(p, q)'
<1>1. /\ c \in Sends /\ pc[c] = "enqueueing" /\ ~InHistory(c) /\ ~Accepted(c)
      /\ c \notin Carriers
  BY DEF Queues, EnqueueCommit, OnceInv, OwnPrompts, BatchesDisjoint, Unstarted,
         Carriers
<1>2. ~Queued(c) /\ \A d \in Carriers : ~InBatch(d, c)
  BY <1>1 DEF OnceInv, BatchesDisjoint, Carriers
<1>3. /\ UNCHANGED <<history, batch>> /\ Carriers' = Carriers
      /\ queue' = Append(queue, c) /\ queue \in Seq(Sends)
      /\ accepted' = Append(accepted, c) /\ accepted \in Seq(Sends)
  BY <1>1 DEF Queues, EnqueueCommit, Enqueue, Goto, Carriers, TypeOK,
              TypeOKQueue, TypeOKChats
<1>4. /\ \A d, r : InBatch(d, r)' <=> InBatch(d, r)
      /\ \A r : InHistory(r)' <=> InHistory(r)
      /\ \A r : Queued(r)' <=> Queued(r) \/ r = c
  <2>1. \A r : (\E i \in DOMAIN Append(queue, c) : Append(queue, c)[i] = r)
                <=> (\E i \in DOMAIN queue : queue[i] = r) \/ r = c
    <3>1. ASSUME NEW r
          PROVE (\E i \in DOMAIN Append(queue, c) : Append(queue, c)[i] = r)
                  <=> (\E i \in DOMAIN queue : queue[i] = r) \/ r = c
      <4>1. queue \in Seq(Sends) /\ c \in Sends
        BY <1>1, <1>3
      <4> QED BY <4>1, AppendMember
    <3> QED BY <3>1
  <2>2. \A r : Queued(r)' <=> Queued(r) \/ r = c
    BY <1>3, <2>1, Zenon DEF Queued
  <2> QED
    BY <1>3, <2>2 DEF InBatch, InHistory
<1>5. \/ Before(accepted, p, q) /\ p /= c /\ q /= c
      \/ q = c /\ p /= c
  <2>1. /\ DOMAIN accepted' = 1..(Len(accepted) + 1)
        /\ DOMAIN accepted = 1..Len(accepted) /\ Len(accepted) \in Nat
        /\ \A i \in 1..Len(accepted) : accepted'[i] = accepted[i]
        /\ accepted'[Len(accepted) + 1] = c
    BY <1>1, <1>3, AppendProperties
  <2>2. PICK i \in DOMAIN accepted', j \in DOMAIN accepted' :
          i < j /\ accepted'[i] = p /\ accepted'[j] = q
    BY DEF Before
  <2>3. i \in DOMAIN accepted /\ accepted[i] = p
    BY <2>1, <2>2
  <2>4. p /= c
    BY <1>1, <2>3 DEF Accepted
  <2>5. CASE j \in DOMAIN accepted
    BY <1>1, <2>1, <2>2, <2>3, <2>4, <2>5, BeforeAccepted DEF Before
  <2>6. CASE j \notin DOMAIN accepted
    BY <2>1, <2>2, <2>4, <2>6
  <2> QED
    BY <2>5, <2>6
<1>6. Before(queue, q, p)' => Before(queue, q, p) /\ q /= c
  <2>1. /\ DOMAIN queue' = 1..(Len(queue) + 1)
        /\ DOMAIN queue = 1..Len(queue) /\ Len(queue) \in Nat
        /\ \A i \in 1..Len(queue) : queue'[i] = queue[i]
        /\ queue'[Len(queue) + 1] = c
    BY <1>1, <1>3, AppendProperties
  <2>2. ASSUME NEW i \in DOMAIN queue', NEW j \in DOMAIN queue', i < j,
               queue'[i] = q, queue'[j] = p
        PROVE  Before(queue, q, p) /\ q /= c
    <3>1. j /= Len(queue) + 1
      BY <1>5, <2>1, <2>2
    <3>2. i \in DOMAIN queue /\ j \in DOMAIN queue
      BY <2>1, <2>2, <3>1
    <3> QED
      BY <1>2, <2>1, <2>2, <3>2 DEF Before, Queued
  <2> QED
    BY <2>2 DEF Before
<1>7. CASE Before(accepted, p, q) /\ p /= c /\ q /= c
  <2>1. InOrder(p, q)
    BY <1>7 DEF FifoOrder, InOrder
  <2> QED
    BY <1>3, <1>4, <1>6, <1>7, <2>1 DEF InOrder, Before
<1>8. CASE q = c /\ p /= c
  <2>1. ~Before(history, User(q), User(p))'
    BY <1>1, <1>3, <1>8 DEF Before, InHistory
  <2> QED
    BY <1>1, <1>2, <1>3, <1>4, <1>6, <1>8, <2>1 DEF InOrder
<1> QED
  BY <1>5, <1>7, <1>8

LEMMA OrderDrains ==
  ASSUME TypeOK, NEW c \in Chats, Drains(c),
         NEW p \in Sends, NEW q \in Sends, InOrder(p, q)
  PROVE  InOrder(p, q)'
<1>1. \A d \in Chats : batch'[d] = IF d = c THEN queue ELSE batch[d]
  BY DEF Drains, TypeOK, TypeOKChats
<1>2. \A d \in Carriers' : d \in Chats /\ (d \in Carriers \/ d = c)
  BY DEF Carriers, Drains, Goto, TypeOK, TypeOKChats
<1>3. UNCHANGED history /\ \A r : InHistory(r)' <=> InHistory(r)
  BY DEF InHistory, Drains
<1>4. queue' = <<>> /\ \A r : ~Queued(r)'
  BY DEF Queued, Drains
<1>5. /\ \A d \in Chats : d /= c => \A r : InBatch(d, r)' <=> InBatch(d, r)
      /\ \A r : InBatch(c, r)' <=> Queued(r)
  BY <1>1 DEF InBatch, Queued
<1>6. \A d \in Carriers' : ~Before(batch[d], q, p)' \/ ~InBatch(d, q)'
  BY <1>1, <1>2, <1>5 DEF InOrder, Before
<1> QED
  BY <1>2, <1>3, <1>4, <1>5, <1>6 DEF InOrder, Before

LEMMA OrderStep ==
  TypeOK /\ PermitExclusion /\ OnceInv /\ FifoOrder /\ [Next]_vars => FifoOrder'
<1> SUFFICES ASSUME TypeOK, PermitExclusion, OnceInv, FifoOrder, [Next]_vars,
                    NEW p \in Sends, NEW q \in Sends, Before(accepted, p, q)'
             PROVE  InOrder(p, q)'
  BY DEF FifoOrder, InOrder
<1>1. ASSUME UNCHANGED accepted PROVE Before(accepted, p, q) /\ InOrder(p, q)
  BY <1>1 DEF Before, FifoOrder, InOrder
<1>2. CASE Moves
  BY <1>1, <1>2, OrderMoves DEF Moves
<1>3. ASSUME NEW c \in Chats, Starts(c) PROVE InOrder(p, q)'
  BY <1>1, <1>3, OrderStarts DEF Starts
<1>4. ASSUME NEW c \in Chats, Stores(c) PROVE InOrder(p, q)'
  BY <1>1, <1>4, OrderStores DEF Stores
<1>5. ASSUME NEW c \in Chats, Queues(c) PROVE InOrder(p, q)'
  BY <1>5, OrderQueues
<1>6. ASSUME NEW c \in Chats, Drains(c) PROVE InOrder(p, q)'
  BY <1>1, <1>6, OrderDrains DEF Drains
<1> QED
  BY <1>2, <1>3, <1>4, <1>5, <1>6, PromptSteps

(* Queued prompts reach the journal in the order of their rows, for any     *)
(* number of calls: no removal, drain, failure, cut of the journal or       *)
(* restart lets a later one overtake an earlier one that still waits or is  *)
(* carried.                                                                 *)
THEOREM QueueIsFifo == Spec => []FifoOrder
<1>1. Init => FifoOrder
  BY DEF Init, FifoOrder, Before
<1> QED
  BY <1>1, OrderStep, TypeCorrect, PermitExcludes, OnceInvariant, PTL DEF Spec

-----------------------------------------------------------------------------
(* The waiters. *)

(* A waiter reads the terminal before the active run.  Between the two it   *)
(* relies on what it read, unless the version moved.                        *)
WaitInv ==
  \A w \in Waiters : ~bumped[w] =>
    /\ wpc[w] = "active" => terminal = "none"
    /\ wpc[w] = "sleeping" => activeRun /= None /\ terminal = "none"

(* A new version excuses every waiter. *)
LEMMA AllBumped ==
  ASSUME bumped' = [w \in Waiters |-> TRUE]
  PROVE  WaitInv'
BY DEF WaitInv

(* A turn that begins forgets the terminal and leaves a run active. *)
LEMMA NoTerminal ==
  ASSUME WaitInv, BeginTurn, wpc' = wpc, activeRun /= None => activeRun' /= None
  PROVE  WaitInv'
BY DEF WaitInv, BeginTurn

(* No step leaves a waiter asleep on a turn that is over. *)
LEMMA WaitersStep == TypeOK /\ WaitInv /\ [Next]_vars => WaitInv'
<1> SUFFICES ASSUME TypeOK, WaitInv, [Next]_vars PROVE WaitInv'
  OBVIOUS
<1>1. ASSUME UNCHANGED <<activeRun, sessionGateVars, wpc>> PROVE WaitInv'
  BY <1>1 DEF WaitInv, sessionGateVars
<1>2. ASSUME NEW c \in Chats,
             SendBegin(c) \/ SendRefused(c) \/ LoadHistory(c)
             \/ AppendTurn(c) \/ Confirm(c) \/ Publish(c) \/ Finish(c)
             \/ DropGuard(c) \/ StartFails(c) \/ CallDropped(c)
             \/ RunDies(c) \/ FinaliseRun(c) \/ RunAppends(c)
      PROVE  WaitInv'
  BY <1>1, <1>2 DEF others, waitVars, SendBegin, SendRefused, LoadHistory,
         AppendTurn, Confirm, Publish, Finish, DropGuard, StartFails,
         CallDropped, RunDies, FinaliseRun, RunAppends
<1>3. ASSUME NEW c \in Sends,
             AcquireTurn(c) \/ EnqueueBegin(c) \/ EnqueueCommit(c)
             \/ FinishEnqueue(c) \/ Attach(c) \/ DropUnattached(c)
             \/ CheckSuppressed(c) \/ DrainQueue(c)
             \/ StartQueuedBatch(c) \/ OwnerDropsTurn(c)
             \/ OwnerDropsHolder(c) \/ EnqueueFails(c) \/ DrainFails(c)
             \/ RemoveQueued(c)
      PROVE  WaitInv'
  BY <1>1, <1>3 DEF others, waitVars, chatVars, AcquireTurn, EnqueueBegin,
         EnqueueCommit, FinishEnqueue, Attach, DropUnattached,
         CheckSuppressed, DrainQueue, StartQueuedBatch, OwnerDropsTurn,
         OwnerDropsHolder, EnqueueFails, DrainFails, RemoveQueued
<1>4. ASSUME NEW s \in Stoppers,
             (\E e \in Chats \cup {None} : StopChoose(s, e))
             \/ (\E e \in Chats \cup {None} : StopMismatch(s, e))
             \/ StopLook(s) \/ StopCapture(s) \/ StopAwait(s)
             \/ StopSnapshot(s) \/ StopWake(s) \/ StopClear(s)
             \/ StopRecheck(s) \/ StopEnd(s) \/ StopDropped(s)
      PROVE  WaitInv'
  BY <1>1, <1>4 DEF untouchedByStops, waitVars, chatVars, StopChoose,
         StopMismatch, StopLook, StopCapture, StopAwait, StopSnapshot, StopWake,
         StopClear, StopRecheck, StopEnd, StopDropped
<1>5. ASSUME NEW r \in Chats, StopRun(r) PROVE WaitInv'
  BY <1>1, <1>5 DEF StopRun, untouchedByStops, waitVars, chatVars
<1>6. ASSUME NEW m \in Mutators,
             Reserve(m) \/ MutationStopped(m) \/ Acquire(m)
             \/ Mutate(m) \/ MutationDropsGate(m) \/ MutationDropsTurn(m)
      PROVE  WaitInv'
  BY <1>1, <1>6 DEF untouchedByMutations, waitVars, Reserve, MutationStopped,
         Acquire, Mutate, MutationDropsGate, MutationDropsTurn
<1>7. ASSUME NEW c \in Chats, Activate(c) PROVE WaitInv'
  <2>1. activeRun' /= None
    BY <1>7, RunType, ChatTurnsAssumption DEF Activate, TypeOK, Chats
  <2> QED
    BY <1>7, <2>1, NoTerminal DEF Activate, others, waitVars
<1>8. ASSUME NEW c \in Chats, PrepareFails(c) PROVE WaitInv'
  BY <1>8, NoTerminal DEF PrepareFails, others, waitVars
<1>9. ASSUME ClearChat PROVE WaitInv'
  BY <1>9, NoTerminal DEF ClearChat, others, waitVars
<1>10. ASSUME NEW c \in Chats,
              UnsetActive(c) \/ FinaliseActive(c)
              \/ (\E t \in Terminals : RunEnds(c, t))
       PROVE  WaitInv'
  BY <1>10, AllBumped DEF UnsetActive, FinaliseActive, RunEnds, Notify,
         FinishTurn
<1>11. ASSUME NEW w \in Waiters, WaitSubscribe(w) \/ WaitChanged(w)
       PROVE  WaitInv'
  BY <1>11 DEF WaitSubscribe, WaitChanged, SeeVersion, WGoto, untouchedByWaits,
         chatVars, WaitInv, TypeOK, TypeOKTasks, TypeOKSessionGate
<1>12. ASSUME NEW w \in Waiters, WaitReadTerminal(w) PROVE WaitInv'
  BY <1>12 DEF WaitReadTerminal, WGoto, untouchedByWaits, sessionGateVars,
         chatVars, WaitInv, TypeOK, TypeOKTasks
<1>13. ASSUME NEW w \in Waiters, WaitReadActive(w) PROVE WaitInv'
  BY <1>13 DEF WaitReadActive, WGoto, untouchedByWaits, sessionGateVars,
         chatVars, WaitInv, TypeOK, TypeOKTasks
<1>14. ASSUME Crash PROVE WaitInv'
  BY <1>14 DEF Crash, WaitInv
<1>15. CASE UNCHANGED vars
  BY <1>1, <1>15 DEF vars, chatVars, waitVars
<1> QED
  BY <1>2, <1>3, <1>4, <1>5, <1>6, <1>7, <1>8, <1>9, <1>10, <1>11, <1>12,
     <1>13, <1>14, <1>15
     DEF Next, SendStep, TurnStep, SendFails, TurnFails, FinaliserStep, StopStep,
         MutationStep, WaitStep, AllReturned

(* A call that sleeps until the session's final gate, with no version       *)
(* change left to see, sleeps on a turn that is active and has no terminal  *)
(* yet.  Reading the terminal first and the active run second is safe,      *)
(* because every end of a turn changes the version; so with any calls,      *)
(* chat.clear, panics, dropped futures and restarts.                        *)
THEOREM WaitersNotStranded == Spec => []WaiterNotStranded
<1>1. Init => WaitInv
  BY DEF Init, WaitInv
<1>2. TypeOK /\ WaitInv /\ [Next]_vars => WaitInv'
  BY WaitersStep
<1>3. WaitInv => WaiterNotStranded
  BY DEF WaitInv, WaiterNotStranded
<1> QED
  BY <1>1, <1>2, <1>3, TypeCorrect, PTL DEF Spec

-----------------------------------------------------------------------------
(* active_runs_by_session. *)

BoundPlaces == {"publishing", "running", "finishOk", "finishErr", "unsetting"}

(* A task that is still bound to take its run out. *)
Bound(c) == pc[c] \in BoundPlaces \/ finaliser[c] /= "none"

(* Where a call has given its turn up. *)
OverPlaces == {"dropTurn", "dropHolder", "dropGuard", "done"}

(* Where a call has yet to publish the run of its batch. *)
YoungPlaces ==
  {"new", "acquiring", "busy", "attaching", "drained", "arming", "loading",
   "appending", "confirming", "activating", "publishing"}

(* A call dropped with its own prompt, which nobody else will ever carry. *)
Lost(c) == Orphaned(c) /\ batch[c] = <<c>> /\ ~Accepted(c)

(* A run does not exist before the turn of its prompt publishes it. *)
RunsAreNew ==
  \A c \in Chats : pc[c] \in YoungPlaces /\ batch[c] = <<c>> => ~Published(c)

(* The entry of the session belongs to a task or was left by a dropped call.*)
EntryOwned ==
  activeRun /= None => \E c \in Chats : Run(c) = activeRun /\ (Bound(c) \/ Lost(c))

GhostInv == RunsAreNew /\ EntryOwned

(* How the calls move between these places. *)
PlacesKept ==
  \A c \in Chats :
    /\ pc[c] \in OverPlaces => pc'[c] \in OverPlaces
    /\ pc'[c] \in YoungPlaces => pc[c] \in YoungPlaces \/ Drains(c)

LEMMA PlaceSteps == TypeOK /\ [Next]_vars => PlacesKept
<1> SUFFICES ASSUME TypeOK, [Next]_vars PROVE PlacesKept
  OBVIOUS
<1> DEFINE Ok(d, l) == /\ Goto(d, l)
                       /\ pc[d] \in OverPlaces => l \in OverPlaces
                       /\ l \in YoungPlaces => pc[d] \in YoungPlaces
<1>1. ASSUME NEW d \in Chats, NEW l, Ok(d, l) PROVE PlacesKept
  <2>1. \A c \in Chats : pc'[c] = IF c = d THEN l ELSE pc[c]
    BY <1>1 DEF Goto, TypeOK, TypeOKChats
  <2> QED
    BY <1>1, <2>1 DEF PlacesKept
<1>2. ASSUME pc' = pc PROVE PlacesKept
  BY <1>2 DEF PlacesKept
<1>3. ASSUME NEW d \in Chats,
             SendBegin(d) \/ SendRefused(d) \/ LoadHistory(d) \/ AppendTurn(d)
             \/ Confirm(d) \/ Activate(d) \/ Publish(d) \/ Finish(d)
             \/ UnsetActive(d) \/ DropGuard(d) \/ StartFails(d)
             \/ PrepareFails(d) \/ CallDropped(d) \/ RunDies(d)
             \/ (\E t \in Terminals : RunEnds(d, t))
      PROVE  PlacesKept
  <2>1. PICK l : Ok(d, l)
    BY <1>3 DEF SendBegin, SendRefused, LoadHistory, AppendTurn, Confirm,
           Activate, Publish, Finish, UnsetActive, DropGuard, StartFails,
           PrepareFails, CallDropped, RunDies, RunEnds, Exit, OverPlaces,
           YoungPlaces
  <2> QED
    BY <1>1, <2>1
<1>4. ASSUME NEW d \in Sends,
             AcquireTurn(d) \/ EnqueueBegin(d) \/ EnqueueCommit(d)
             \/ FinishEnqueue(d) \/ Attach(d) \/ DropUnattached(d)
             \/ CheckSuppressed(d) \/ StartQueuedBatch(d) \/ OwnerDropsTurn(d)
             \/ OwnerDropsHolder(d) \/ EnqueueFails(d) \/ DrainFails(d)
      PROVE  PlacesKept
  <2>1. PICK l : Goto(d, l) /\ (pc[d] \in OverPlaces => l \in OverPlaces)
                            /\ (l \in YoungPlaces => pc[d] \in YoungPlaces)
    BY <1>4 DEF AcquireTurn, EnqueueBegin, EnqueueCommit, FinishEnqueue, Attach,
           DropUnattached, CheckSuppressed, StartQueuedBatch, OwnerDropsTurn,
           OwnerDropsHolder, EnqueueFails, DrainFails, OverPlaces, YoungPlaces
  <2> QED
    BY <1>1, <2>1 DEF Chats
<1>5. ASSUME NEW d \in Sends, DrainQueue(d) PROVE PlacesKept
  <2>1. CASE queue = <<>>
    BY <1>1, <1>5, <2>1 DEF DrainQueue, OverPlaces, YoungPlaces, Chats
  <2>2. CASE queue /= <<>>
    <3>1. Drains(d)
      BY <1>5, <2>2 DEF DrainQueue, Drain, Drains
    <3>2. \A c \in Chats : pc'[c] = IF c = d THEN "drained" ELSE pc[c]
      BY <3>1 DEF Drains, Goto, TypeOK, TypeOKChats
    <3> QED
      BY <3>1, <3>2 DEF PlacesKept, Drains, OverPlaces
  <2> QED
    BY <2>1, <2>2
<1>6. ASSUME NEW d \in Chats,
             RunAppends(d) \/ FinaliseRun(d) \/ FinaliseActive(d) \/ StopRun(d)
      PROVE  PlacesKept
  BY <1>2, <1>6 DEF RunAppends, FinaliseRun, FinaliseActive, StopRun,
         untouchedByStops, chatVars
<1>7. ASSUME NEW p \in Sends, RemoveQueued(p) PROVE PlacesKept
  BY <1>2, <1>7 DEF RemoveQueued, chatVars
<1>8. ASSUME NEW s \in Stoppers,
             (\E e \in Chats \cup {None} : StopChoose(s, e))
             \/ (\E e \in Chats \cup {None} : StopMismatch(s, e))
             \/ StopLook(s) \/ StopCapture(s) \/ StopAwait(s)
             \/ StopSnapshot(s) \/ StopWake(s) \/ StopClear(s)
             \/ StopRecheck(s) \/ StopEnd(s) \/ StopDropped(s)
      PROVE  PlacesKept
  BY <1>2, <1>8 DEF untouchedByStops, chatVars, StopChoose, StopMismatch,
         StopLook, StopCapture, StopAwait, StopSnapshot, StopWake, StopClear,
         StopRecheck, StopEnd, StopDropped
<1>9. ASSUME NEW m \in Mutators,
             Reserve(m) \/ MutationStopped(m) \/ Acquire(m) \/ Mutate(m)
             \/ MutationDropsGate(m) \/ MutationDropsTurn(m)
      PROVE  PlacesKept
  BY <1>2, <1>9 DEF untouchedByMutations, Reserve, MutationStopped, Acquire,
         Mutate, MutationDropsGate, MutationDropsTurn
<1>10. ASSUME NEW w \in Waiters,
              WaitSubscribe(w) \/ WaitReadTerminal(w) \/ WaitReadActive(w)
              \/ WaitChanged(w)
       PROVE  PlacesKept
  BY <1>2, <1>10 DEF untouchedByWaits, chatVars, WaitSubscribe,
         WaitReadTerminal, WaitReadActive, WaitChanged
<1>11. ASSUME ClearChat PROVE PlacesKept
  BY <1>2, <1>11 DEF ClearChat
<1>12. ASSUME Crash PROVE PlacesKept
  <2>1. \A c \in Chats : pc'[c] = IF pc[c] = "new" THEN "new" ELSE "done"
    BY <1>12 DEF Crash
  <2> QED
    BY <2>1 DEF PlacesKept, OverPlaces, YoungPlaces
<1>13. CASE UNCHANGED vars
  BY <1>2, <1>13 DEF vars, chatVars
<1> QED
  BY <1>3, <1>4, <1>5, <1>6, <1>7, <1>8, <1>9, <1>10, <1>11, <1>12, <1>13
     DEF Next, SendStep, TurnStep, SendFails, TurnFails, FinaliserStep, StopStep,
         MutationStep, WaitStep, AllReturned

(* No step but Publish adds a run. *)
LEMMA RunsGrow ==
  ASSUME TypeOK, [Next]_vars, NEW r \in runs', r \notin runs
  PROVE  \E c \in Chats : Publish(c) /\ Run(c) = r
<1>1. ASSUME NEW c \in Chats,
             SendBegin(c) \/ SendRefused(c) \/ LoadHistory(c) \/ AppendTurn(c)
             \/ Confirm(c) \/ Activate(c) \/ Finish(c) \/ UnsetActive(c)
             \/ DropGuard(c) \/ StartFails(c) \/ PrepareFails(c)
             \/ CallDropped(c) \/ RunDies(c) \/ FinaliseRun(c)
             \/ FinaliseActive(c) \/ RunAppends(c) \/ StopRun(c)
             \/ (\E t \in Terminals : RunEnds(c, t))
      PROVE  FALSE
  BY <1>1 DEF gateVars, BeginSend, ConfirmStart, RefuseCancelled, Abandon,
         FinishRun, CancelRun, SendBegin, SendRefused, LoadHistory, AppendTurn,
         Confirm, Activate, Finish, UnsetActive, DropGuard, StartFails,
         PrepareFails, CallDropped, RunDies, FinaliseRun, FinaliseActive,
         RunAppends, StopRun, RunEnds
<1>2. ASSUME NEW c \in Sends,
             AcquireTurn(c) \/ EnqueueBegin(c) \/ EnqueueCommit(c)
             \/ FinishEnqueue(c) \/ Attach(c) \/ DropUnattached(c)
             \/ CheckSuppressed(c) \/ DrainQueue(c) \/ StartQueuedBatch(c)
             \/ OwnerDropsTurn(c) \/ OwnerDropsHolder(c) \/ EnqueueFails(c)
             \/ DrainFails(c) \/ RemoveQueued(c)
      PROVE  FALSE
  BY <1>2 DEF gateVars, BeginEnqueue, AttachPermit, ArmNextBatch,
         RefuseCancelled, Abandon, DropHolder, AcquireTurn, EnqueueBegin,
         EnqueueCommit, FinishEnqueue, Attach, DropUnattached, CheckSuppressed,
         DrainQueue, StartQueuedBatch, OwnerDropsTurn, OwnerDropsHolder,
         EnqueueFails, DrainFails, RemoveQueued
<1>3. ASSUME NEW s \in Stoppers,
             (\E e \in Chats \cup {None} : StopChoose(s, e))
             \/ (\E e \in Chats \cup {None} : StopMismatch(s, e))
             \/ StopLook(s) \/ StopCapture(s) \/ StopAwait(s)
             \/ StopSnapshot(s) \/ StopWake(s) \/ StopClear(s)
             \/ StopRecheck(s) \/ StopEnd(s) \/ StopDropped(s)
      PROVE  FALSE
  BY <1>3 DEF gateVars, ChooseStop, Watch, CancelRun, EndStop, StopChoose,
         StopMismatch, StopLook, StopCapture, StopAwait, StopSnapshot, StopWake,
         StopClear, StopRecheck, StopEnd, StopDropped
<1>4. ASSUME NEW m \in Mutators,
             Reserve(m) \/ MutationStopped(m) \/ Acquire(m) \/ Mutate(m)
             \/ MutationDropsGate(m) \/ MutationDropsTurn(m)
      PROVE  FALSE
  BY <1>4 DEF gateVars, untouchedByMutations, Reserve, MutationStopped, Acquire,
         Mutate, MutationDropsGate, MutationDropsTurn
<1>5. ASSUME NEW w \in Waiters,
             WaitSubscribe(w) \/ WaitReadTerminal(w) \/ WaitReadActive(w)
             \/ WaitChanged(w)
      PROVE  FALSE
  BY <1>5 DEF gateVars, untouchedByWaits, WaitSubscribe, WaitReadTerminal,
         WaitReadActive, WaitChanged
<1>6. ASSUME ClearChat \/ Crash PROVE FALSE
  BY <1>6 DEF gateVars, ClearChat, Crash, RestartGate
<1>7. ASSUME NEW c \in Chats, Publish(c) PROVE Run(c) = r
  BY <1>7 DEF Publish, PublishRun
<1>8. CASE UNCHANGED vars
  BY <1>8 DEF vars, gateVars
<1> QED
  BY <1>1, <1>2, <1>3, <1>4, <1>5, <1>6, <1>7, <1>8
     DEF Next, SendStep, TurnStep, SendFails, TurnFails, FinaliserStep, StopStep,
         MutationStep, WaitStep, AllReturned

(* Nor does another step give a run a result that had none and was not      *)
(* published.                                                               *)
LEMMA PublishedSteps ==
  ASSUME TypeOK, [Next]_vars, NEW r \in Chats, ~Published(r), Published(r)'
  PROVE  \E c \in Chats : Publish(c) /\ Run(c) = r
<1>1. CASE r \in runs'
  BY <1>1, RunsGrow DEF Published
<1>2. CASE r \notin runs'
  <2>1. result[r] = "none" /\ result'[r] /= "none" /\ r \notin runs
    BY <1>2 DEF Published
  <2>2. [GateNext]_gateVars
    BY GateSteps
  <2>3. ASSUME NEW x \in Chats, NEW res \in {"ok", "err"}, FinishRun(x, res)
        PROVE  FALSE
    BY <2>1, <2>3 DEF FinishRun, TypeOK, TypeOKGate
  <2>4. ASSUME RestartGate PROVE FALSE
    BY <2>1, <2>4 DEF RestartGate
  <2>5. ASSUME result' = result PROVE FALSE
    BY <2>1, <2>5
  <2> QED
    BY <2>2, <2>3, <2>4, <2>5
       DEF GateNext, gateVars, BeginSend, Abandon, AttachPermit, BeginEnqueue,
           ArmNextBatch, PublishRun, CancelRun, Watch, ChooseStop, DropHolder,
           EndStop
<1> QED
  BY <1>1, <1>2

(* A call that publishes the run of another call's prompt drained it. *)
LEMMA PublishesAccepted ==
  ASSUME TypeOK, BatchesDisjoint, NEW c \in Chats, NEW d \in Chats, c /= d,
         Run(d) = c
  PROVE  Accepted(c)
<1>1. batch[d] \in Seq(Chats) /\ Len(batch[d]) \in DOMAIN batch[d]
  BY DEF TypeOK, TypeOKChats
<1>2. InBatch(d, c)
  BY <1>1 DEF InBatch, Run
<1> QED
  BY <1>2 DEF BatchesDisjoint

(* The batch of a call changes only when it drains the queue. *)
LEMMA BatchesStay ==
  ASSUME TypeOK, [Next]_vars, NEW c \in Chats, ~Drains(c)
  PROVE  batch'[c] = batch[c]
<1>1. ASSUME NEW d \in Chats, Drains(d) PROVE batch'[c] = batch[c]
  BY <1>1 DEF Drains, TypeOK, TypeOKChats
<1> QED
  BY <1>1, PromptSteps DEF Moves, Starts, Stores, Queues, EnqueueCommit

(* Nothing is queued but the prompt of a call that enqueues. *)
LEMMA AcceptedStays ==
  ASSUME TypeOK, [Next]_vars, NEW c \in Chats, ~Accepted(c),
         pc[c] /= "enqueueing"
  PROVE  ~Accepted(c)'
<1>1. ASSUME NEW d \in Chats, Queues(d) PROVE ~Accepted(c)'
  <2>1. c /= d /\ d \in Sends /\ accepted \in Seq(Sends)
        /\ accepted' = Append(accepted, d)
    BY <1>1 DEF Queues, EnqueueCommit, TypeOK, TypeOKChats
  <2> QED
    BY <2>1, AppendMember DEF Accepted
<1>2. ASSUME accepted' = accepted PROVE ~Accepted(c)'
  BY <1>2 DEF Accepted
<1> QED
  BY <1>1, <1>2, PromptSteps DEF Moves, Starts, Stores, Drains

(* A lost call stays lost. *)
LEMMA LostStays ==
  ASSUME TypeOK, BatchesDisjoint, [Next]_vars, NEW c \in Chats, Lost(c)
  PROVE  Lost(c)' /\ batch'[c] = batch[c]
<1>1. pc[c] \in OverPlaces /\ ~Published(c) /\ batch[c] = <<c>> /\ ~Accepted(c)
  BY DEF Lost, Orphaned, OverPlaces, Run
<1>2. pc'[c] \in OverPlaces
  BY <1>1, PlaceSteps DEF PlacesKept
<1>3. batch'[c] = <<c>>
  BY <1>1, BatchesStay DEF Drains, OverPlaces
<1>4. ~Accepted(c)'
  BY <1>1, AcceptedStays DEF OverPlaces
<1>5. ~Published(c)'
  <2>1. ASSUME NEW d \in Chats, Publish(d), Run(d) = c PROVE FALSE
    <3>1. c /= d
      BY <1>1, <2>1 DEF Publish, OverPlaces
    <3> QED
      BY <1>1, <2>1, <3>1, PublishesAccepted
  <2> QED
    BY <1>1, <2>1, PublishedSteps
<1>6. Run(c)' = c
  BY <1>3 DEF Run
<1> QED
  BY <1>1, <1>2, <1>3, <1>4, <1>5, <1>6 DEF Lost, Orphaned, OverPlaces, Published

(* The run of a turn is new until the turn publishes it. *)
LEMMA NewStep ==
  ASSUME TypeOK, BatchesDisjoint, RunsAreNew, [Next]_vars
  PROVE  RunsAreNew'
<1> SUFFICES ASSUME NEW c \in Chats, pc'[c] \in YoungPlaces, batch'[c] = <<c>>,
                    Published(c)'
             PROVE  FALSE
  BY DEF RunsAreNew
<1>1. ~Drains(c)
  <2> SUFFICES ASSUME Drains(c) PROVE FALSE
    OBVIOUS
  <2>1. queue = <<c>> /\ pc[c] = "draining"
    BY DEF Drains, TypeOK, TypeOKChats
  <2>2. Queued(c)
    BY <2>1 DEF Queued
  <2> QED
    BY <2>1, <2>2 DEF BatchesDisjoint
<1>2. pc[c] \in YoungPlaces /\ batch[c] = <<c>>
  BY <1>1, PlaceSteps, BatchesStay DEF PlacesKept
<1>3. ~Published(c)
  BY <1>2 DEF RunsAreNew
<1>4. PICK d \in Chats : Publish(d) /\ Run(d) = c
  BY <1>3, PublishedSteps
<1>5. c /= d
  BY <1>4 DEF Publish, Goto, TypeOK, TypeOKChats, YoungPlaces
<1>6. Accepted(c)
  BY <1>4, <1>5, PublishesAccepted
<1> QED
  BY <1>2, <1>6 DEF BatchesDisjoint, YoungPlaces

(* The tasks that were bound still are, or are lost, with the same runs. *)
LEMMA BoundKept ==
  ASSUME TypeOK, BatchesDisjoint, EntryOwned, [Next]_vars,
         activeRun' = activeRun,
         \A c \in Chats : Bound(c) => /\ Bound(c)' \/ Lost(c)'
                                      /\ batch'[c] = batch[c]
  PROVE  EntryOwned'
<1> SUFFICES ASSUME activeRun' /= None
             PROVE  \E c \in Chats : Run(c)' = activeRun' /\ (Bound(c)' \/ Lost(c)')
  BY DEF EntryOwned
<1>1. PICK c \in Chats : Run(c) = activeRun /\ (Bound(c) \/ Lost(c))
  BY DEF EntryOwned
<1>2. (Bound(c)' \/ Lost(c)') /\ batch'[c] = batch[c]
  BY <1>1, LostStays
<1> QED
  BY <1>1, <1>2 DEF Run

(* A call goes on, and not past the end of its run. *)
LEMMA BoundGoesOn ==
  ASSUME TypeOK, BatchesDisjoint, EntryOwned, [Next]_vars,
         NEW c \in Chats, NEW l, Goto(c, l),
         pc[c] \in BoundPlaces => l \in BoundPlaces,
         UNCHANGED <<activeRun, batch, finaliser>>
  PROVE  EntryOwned'
<1>1. ASSUME NEW d \in Chats, Bound(d) PROVE Bound(d)' /\ batch'[d] = batch[d]
  BY <1>1 DEF Bound, Goto, TypeOK, TypeOKChats
<1> QED
  BY <1>1, BoundKept

(* Steps that are not of a chat call. *)
LEMMA BoundStays ==
  ASSUME TypeOK, BatchesDisjoint, EntryOwned, [Next]_vars,
         UNCHANGED <<activeRun, pc, batch, finaliser>>
  PROVE  EntryOwned'
BY BoundKept DEF Bound

(* A task that is not bound to the run of the session goes on as it likes.  *)
LEMMA BoundRest ==
  ASSUME TypeOK, BatchesDisjoint, EntryOwned, [Next]_vars,
         NEW c \in Chats, activeRun /= Run(c),
         activeRun' = activeRun, batch' = batch,
         \A d \in Chats \ {c} : pc'[d] = pc[d] /\ finaliser'[d] = finaliser[d]
  PROVE  EntryOwned'
<1> SUFFICES ASSUME activeRun /= None
             PROVE  \E d \in Chats : Run(d)' = activeRun /\ (Bound(d)' \/ Lost(d)')
  BY DEF EntryOwned
<1>1. PICK d \in Chats : Run(d) = activeRun /\ (Bound(d) \/ Lost(d))
  BY DEF EntryOwned
<1>2. Bound(d) => Bound(d)'
  BY <1>1 DEF Bound
<1>3. Lost(d) => Lost(d)'
  BY <1>1, LostStays
<1> QED
  BY <1>1, <1>2, <1>3 DEF Run

(* No step leaves a run in active_runs_by_session without a task that takes *)
(* it out, but the drop of a call between the activation of its turn and    *)
(* the publication of its run.                                              *)
LEMMA GhostStep ==
  ASSUME TypeOK, GuardOfPlace, BatchesDisjoint, GhostInv, [Next]_vars
  PROVE  EntryOwned'
<1> USE DEF GhostInv
<1>1. ASSUME NEW c \in Chats,
             SendBegin(c) \/ SendRefused(c) \/ LoadHistory(c)
             \/ AppendTurn(c) \/ Confirm(c) \/ Publish(c) \/ Finish(c)
             \/ DropGuard(c) \/ StartFails(c) \/ PrepareFails(c)
             \/ (\E t \in Terminals : RunEnds(c, t))
      PROVE  EntryOwned'
  <2>1. PICK l : Goto(c, l) /\ (pc[c] \in BoundPlaces => l \in BoundPlaces)
    BY <1>1 DEF SendBegin, SendRefused, LoadHistory, AppendTurn, Confirm,
           Publish, Finish, DropGuard, StartFails, PrepareFails, RunEnds,
           BoundPlaces
  <2>2. UNCHANGED <<activeRun, batch, finaliser>>
    BY <1>1 DEF SendBegin, SendRefused, LoadHistory, AppendTurn, Confirm,
           Publish, Finish, DropGuard, StartFails, PrepareFails, RunEnds
  <2> QED
    BY <2>1, <2>2, BoundGoesOn
<1>2. ASSUME NEW c \in Sends,
             AcquireTurn(c) \/ EnqueueBegin(c) \/ EnqueueCommit(c)
             \/ FinishEnqueue(c) \/ Attach(c) \/ DropUnattached(c)
             \/ CheckSuppressed(c) \/ StartQueuedBatch(c)
             \/ OwnerDropsTurn(c) \/ OwnerDropsHolder(c)
             \/ EnqueueFails(c) \/ DrainFails(c)
      PROVE  EntryOwned'
  <2>1. PICK l : Goto(c, l) /\ pc[c] \notin BoundPlaces
    BY <1>2 DEF AcquireTurn, EnqueueBegin, EnqueueCommit, FinishEnqueue, Attach,
           DropUnattached, CheckSuppressed, StartQueuedBatch, OwnerDropsTurn,
           OwnerDropsHolder, EnqueueFails, DrainFails, BoundPlaces
  <2>2. UNCHANGED <<activeRun, batch, finaliser>>
    BY <1>2 DEF AcquireTurn, EnqueueBegin, EnqueueCommit, FinishEnqueue, Attach,
           DropUnattached, CheckSuppressed, StartQueuedBatch, OwnerDropsTurn,
           OwnerDropsHolder, EnqueueFails, DrainFails
  <2> QED
    BY <2>1, <2>2, BoundGoesOn DEF Chats
<1>3. ASSUME NEW c \in Chats, CallDropped(c) PROVE EntryOwned'
  <2>1. UNCHANGED <<activeRun, batch, finaliser, accepted, runs, result>>
    BY <1>3 DEF CallDropped, gateVars
  <2>2. CASE pc[c] = "publishing"
    <3>1. "dropped" \in Faults /\ batch[c] = <<c>> /\ Goto(c, Exit(c))
      BY <1>3, <2>2 DEF CallDropped
    <3>2. ~Published(c) /\ ~Accepted(c)
      BY <2>2, <3>1 DEF RunsAreNew, YoungPlaces, BatchesDisjoint
    <3>3. \A d \in Chats : pc'[d] = IF d = c THEN Exit(c) ELSE pc[d]
      BY <3>1 DEF Goto, TypeOK, TypeOKChats
    <3>4. Lost(c)'
      BY <2>1, <3>1, <3>2, <3>3
         DEF Lost, Orphaned, Published, Accepted, Run, Exit
    <3>5. ASSUME NEW d \in Chats, Bound(d)
          PROVE  (Bound(d)' \/ Lost(d)') /\ batch'[d] = batch[d]
      BY <2>1, <3>3, <3>4, <3>5 DEF Bound
    <3> QED
      BY <2>1, <3>5, BoundKept
  <2>3. CASE pc[c] /= "publishing"
    <3>1. PICK l : Goto(c, l) /\ pc[c] \notin BoundPlaces
      BY <1>3, <2>3 DEF CallDropped, BoundPlaces
    <3> QED
      BY <2>1, <3>1, BoundGoesOn
  <2> QED
    BY <2>2, <2>3
<1>4. ASSUME NEW c \in Chats, RunAppends(c) \/ StopRun(c) PROVE EntryOwned'
  BY <1>4, BoundStays DEF RunAppends, StopRun, untouchedByStops, chatVars
<1>5. ASSUME NEW c \in Sends, RemoveQueued(c) PROVE EntryOwned'
  BY <1>5, BoundStays DEF RemoveQueued, chatVars
<1>6. ASSUME NEW s \in Stoppers,
             (\E e \in Chats \cup {None} : StopChoose(s, e))
             \/ (\E e \in Chats \cup {None} : StopMismatch(s, e))
             \/ StopLook(s) \/ StopCapture(s) \/ StopAwait(s)
             \/ StopSnapshot(s) \/ StopWake(s) \/ StopClear(s)
             \/ StopRecheck(s) \/ StopEnd(s) \/ StopDropped(s)
      PROVE  EntryOwned'
  BY <1>6, BoundStays DEF untouchedByStops, chatVars, StopChoose, StopMismatch,
         StopLook, StopCapture, StopAwait, StopSnapshot, StopWake, StopClear,
         StopRecheck, StopEnd, StopDropped
<1>7. ASSUME NEW m \in Mutators,
             Reserve(m) \/ MutationStopped(m) \/ Acquire(m)
             \/ Mutate(m) \/ MutationDropsGate(m) \/ MutationDropsTurn(m)
      PROVE  EntryOwned'
  BY <1>7, BoundStays DEF untouchedByMutations, Reserve, MutationStopped,
         Acquire, Mutate, MutationDropsGate, MutationDropsTurn
<1>8. ASSUME NEW w \in Waiters,
             WaitSubscribe(w) \/ WaitReadTerminal(w)
             \/ WaitReadActive(w) \/ WaitChanged(w)
      PROVE  EntryOwned'
  BY <1>8, BoundStays DEF untouchedByWaits, chatVars, WaitSubscribe,
         WaitReadTerminal, WaitReadActive, WaitChanged
<1>9. ASSUME NEW c \in Chats, Activate(c) PROVE EntryOwned'
  <2>1. pc'[c] = "publishing" /\ activeRun' = Run(c)'
    BY <1>9 DEF Activate, Goto, Run, TypeOK, TypeOKChats
  <2> QED
    BY <2>1 DEF EntryOwned, Bound, BoundPlaces
<1>10. ASSUME NEW c \in Chats, UnsetActive(c) PROVE EntryOwned'
  <2>1. CASE activeRun = Run(c)
    BY <1>10, <2>1 DEF UnsetActive, EntryOwned
  <2>2. CASE activeRun /= Run(c)
    <3>1. /\ activeRun' = activeRun /\ batch' = batch /\ finaliser' = finaliser
          /\ \A d \in Chats \ {c} : pc'[d] = pc[d]
      BY <1>10, <2>2 DEF UnsetActive, Goto, TypeOK, TypeOKChats
    <3> QED
      BY <2>2, <3>1, BoundRest
  <2> QED
    BY <2>1, <2>2
<1>11. ASSUME NEW c \in Chats, RunDies(c) PROVE EntryOwned'
  <2>1. ASSUME NEW d \in Chats, Bound(d) PROVE Bound(d)' /\ batch'[d] = batch[d]
    BY <1>11, <2>1 DEF RunDies, Goto, Bound, TypeOK, TypeOKChats
  <2> QED
    BY <1>11, <2>1, BoundKept DEF RunDies
<1>12. ASSUME NEW c \in Chats, FinaliseRun(c) PROVE EntryOwned'
  <2>1. ASSUME NEW d \in Chats, Bound(d) PROVE Bound(d)' /\ batch'[d] = batch[d]
    BY <1>12, <2>1 DEF FinaliseRun, Bound, TypeOK, TypeOKChats
  <2> QED
    BY <1>12, <2>1, BoundKept DEF FinaliseRun
<1>13. ASSUME NEW c \in Chats, FinaliseActive(c) PROVE EntryOwned'
  <2>1. CASE activeRun = Run(c)
    BY <1>13, <2>1 DEF FinaliseActive, EntryOwned
  <2>2. CASE activeRun /= Run(c)
    <3>1. /\ activeRun' = activeRun /\ batch' = batch /\ pc' = pc
          /\ \A d \in Chats \ {c} : finaliser'[d] = finaliser[d]
      BY <1>13, <2>2 DEF FinaliseActive, TypeOK, TypeOKChats
    <3> QED
      BY <2>2, <3>1, BoundRest
  <2> QED
    BY <2>1, <2>2
<1>14. ASSUME NEW c \in Sends, DrainQueue(c) PROVE EntryOwned'
  <2>1. c \in Chats /\ pc[c] = "draining" /\ finaliser[c] = "none"
    BY <1>14 DEF DrainQueue, GuardOfPlace, GuardFits, Chats
  <2>2. \A d \in Chats \ {c} : pc'[d] = pc[d] /\ batch'[d] = batch[d]
    BY <1>14, <2>1 DEF DrainQueue, Goto, TypeOK, TypeOKChats
  <2>3. UNCHANGED <<activeRun, finaliser>>
    BY <1>14 DEF DrainQueue
  <2>4. ASSUME NEW d \in Chats, Bound(d) PROVE Bound(d)' /\ batch'[d] = batch[d]
    BY <2>1, <2>2, <2>3, <2>4 DEF Bound, BoundPlaces
  <2> QED
    BY <2>3, <2>4, BoundKept
<1>15. ASSUME ClearChat PROVE EntryOwned'
  BY <1>15, BoundStays DEF ClearChat
<1>16. ASSUME Crash PROVE EntryOwned'
  BY <1>16 DEF Crash, EntryOwned
<1>17. CASE UNCHANGED vars
  BY <1>17, BoundStays DEF vars, chatVars
<1> QED
  BY <1>1, <1>2, <1>3, <1>4, <1>5, <1>6, <1>7, <1>8, <1>9, <1>10, <1>11,
     <1>12, <1>13, <1>14, <1>15, <1>16, <1>17
     DEF Next, SendStep, TurnStep, SendFails, TurnFails, FinaliserStep, StopStep,
         MutationStep, WaitStep, AllReturned

(* active_runs_by_session names a published run only while a task is bound  *)
(* to take it out, whatever panics, fails, overlaps or is dropped.  What a  *)
(* dropped chat.send or send_sync can leave behind is the entry of a run    *)
(* that was never published: its drop fell between activate_session_turn    *)
(* and the guard that would have cleaned up.                                *)
THEOREM ActiveRunsAreOwned == Spec => []NoGhostActive
<1>1. Init => GhostInv
  BY DEF Init, InitGate, GhostInv, RunsAreNew, EntryOwned, Published
<1>2. StopInv /\ GhostInv /\ [Next]_vars => GhostInv'
  BY NewStep, GhostStep DEF StopInv, GhostInv
<1>3. GhostInv => NoGhostActive
  BY DEF GhostInv, EntryOwned, NoGhostActive, Bound, BoundPlaces, Lost
<1> QED
  BY <1>1, <1>2, <1>3, StopInvariant, PTL DEF Spec

-----------------------------------------------------------------------------
(* The stops and the run they cancel. *)

(* Asleep with no wakeup under way, a stop has a guard or a holder to wait  *)
(* for.                                                                     *)
SleepInv == \A s \in Stoppers : spc[s] = "sleeping" /\ ~woken[s] => ~GateIdle

(* A step of the gate makes it idle only if it wakes the stops. *)
LEMMA IdleWakes ==
  ASSUME TypeOKGate, [GateNext]_gateVars, ~GateIdle, GateIdle'
  PROVE  woken' = [s \in Stoppers |-> TRUE] \/ RestartGate
<1>1. CASE UNCHANGED gateVars
  BY <1>1 DEF gateVars, GateIdle
<1>2. ASSUME NEW c \in Chats,
             BeginSend(c) \/ AttachPermit(c) \/ BeginEnqueue(c) \/ ArmNextBatch(c)
      PROVE  FALSE
  <2>1. phase'[c] /= "none"
    BY <1>2 DEF BeginSend, AttachPermit, BeginEnqueue, ArmNextBatch, NewGuard,
           TypeOKGate
  <2> QED
    BY <2>1 DEF GateIdle
<1>3. ASSUME NEW c \in Chats, NEW r \in Chats, PublishRun(c, r) PROVE FALSE
  BY <1>3 DEF PublishRun, GateIdle, TypeOKGate
<1>4. ASSUME (\E r \in Chats : CancelRun(r)) \/ (\E s \in Stoppers : Watch(s))
             \/ (\E e \in Chats \cup {None} : ChooseStop(e))
      PROVE  FALSE
  BY <1>4 DEF CancelRun, Watch, ChooseStop, GateIdle
<1>5. ASSUME (\E c \in Chats : Abandon(c))
             \/ (\E r \in Chats : FinishRun(r, "ok") \/ FinishRun(r, "err"))
             \/ DropHolder \/ EndStop
      PROVE  woken' = [s \in Stoppers |-> TRUE]
  BY <1>5 DEF Abandon, FinishRun, DropHolder, EndStop, NotifyWaiters
<1> QED
  BY <1>1, <1>2, <1>3, <1>4, <1>5 DEF GateNext

(* A stop that is asleep, with no wakeup under way, already was, or has     *)
(* just seen the gate busy: one that looks again is not asleep.             *)
LEMMA SleepersMove ==
  ASSUME TypeOK, [Next]_vars,
         NEW s \in Stoppers, spc'[s] = "sleeping", ~woken'[s]
  PROVE  \/ spc[s] = "sleeping" /\ ~woken[s]
         \/ ~GateIdle /\ UNCHANGED gateVars
<1> DEFINE Asleep == spc[s] = "sleeping" /\ ~woken[s]
<1>1. ASSUME spc' = spc, woken' = woken \/ woken' = [t \in Stoppers |-> TRUE]
      PROVE  Asleep
  BY <1>1
<1>2. ASSUME NEW c \in Chats,
             SendBegin(c) \/ SendRefused(c) \/ LoadHistory(c)
             \/ AppendTurn(c) \/ Confirm(c) \/ Activate(c) \/ Publish(c)
             \/ Finish(c) \/ UnsetActive(c) \/ DropGuard(c) \/ StartFails(c)
             \/ PrepareFails(c) \/ CallDropped(c) \/ RunDies(c)
             \/ FinaliseRun(c) \/ FinaliseActive(c) \/ RunAppends(c)
             \/ (\E t \in Terminals : RunEnds(c, t)) \/ StopRun(c)
      PROVE  Asleep
  <2>1. spc' = spc
    BY <1>2 DEF others, stopVars, SendBegin, SendRefused, LoadHistory,
           AppendTurn, Confirm, Activate, Publish, Finish, UnsetActive,
           DropGuard, StartFails, PrepareFails, CallDropped, RunDies,
           FinaliseRun, FinaliseActive, RunAppends, RunEnds, StopRun
  <2>2. woken' = woken \/ woken' = [t \in Stoppers |-> TRUE]
    BY <1>2 DEF gateVars, NotifyWaiters, BeginSend, RefuseCancelled, Abandon,
           ConfirmStart, PublishRun, FinishRun, CancelRun, SendBegin,
           SendRefused, LoadHistory, AppendTurn, Confirm, Activate, Publish,
           Finish, UnsetActive, DropGuard, StartFails, PrepareFails,
           CallDropped, RunDies, FinaliseRun, FinaliseActive, RunAppends,
           RunEnds, StopRun
  <2> QED
    BY <1>1, <2>1, <2>2
<1>3. ASSUME NEW c \in Sends,
             AcquireTurn(c) \/ EnqueueBegin(c) \/ EnqueueCommit(c)
             \/ FinishEnqueue(c) \/ Attach(c) \/ DropUnattached(c)
             \/ CheckSuppressed(c) \/ DrainQueue(c)
             \/ StartQueuedBatch(c) \/ OwnerDropsTurn(c)
             \/ OwnerDropsHolder(c) \/ EnqueueFails(c) \/ DrainFails(c)
             \/ RemoveQueued(c)
      PROVE  Asleep
  <2>1. spc' = spc
    BY <1>3 DEF others, stopVars, AcquireTurn, EnqueueBegin, EnqueueCommit,
           FinishEnqueue, Attach, DropUnattached, CheckSuppressed, DrainQueue,
           StartQueuedBatch, OwnerDropsTurn, OwnerDropsHolder, EnqueueFails,
           DrainFails, RemoveQueued
  <2>2. woken' = woken \/ woken' = [t \in Stoppers |-> TRUE]
    BY <1>3 DEF gateVars, NotifyWaiters, RefuseCancelled, Abandon, BeginEnqueue,
           AttachPermit, ArmNextBatch, DropHolder, AcquireTurn, EnqueueBegin,
           EnqueueCommit, FinishEnqueue, Attach, DropUnattached,
           CheckSuppressed, DrainQueue, StartQueuedBatch, OwnerDropsTurn,
           OwnerDropsHolder, EnqueueFails, DrainFails, RemoveQueued
  <2> QED
    BY <1>1, <2>1, <2>2
<1>4. ASSUME NEW m \in Mutators,
             Reserve(m) \/ MutationStopped(m) \/ Acquire(m)
             \/ Mutate(m) \/ MutationDropsGate(m) \/ MutationDropsTurn(m)
      PROVE  Asleep
  BY <1>1, <1>4 DEF untouchedByMutations, stopVars, gateVars, Reserve,
         MutationStopped, Acquire, Mutate, MutationDropsGate, MutationDropsTurn
<1>5. ASSUME NEW w \in Waiters,
             WaitSubscribe(w) \/ WaitReadTerminal(w)
             \/ WaitReadActive(w) \/ WaitChanged(w)
      PROVE  Asleep
  BY <1>1, <1>5 DEF untouchedByWaits, stopVars, gateVars, WaitSubscribe,
         WaitReadTerminal, WaitReadActive, WaitChanged
<1>6. ASSUME ClearChat \/ UNCHANGED vars PROVE Asleep
  BY <1>1, <1>6 DEF ClearChat, others, vars, stopVars, gateVars
<1>7. ASSUME Crash PROVE FALSE
  BY <1>7 DEF Crash
<1>8. ASSUME NEW t \in Stoppers,
             (\E e \in Chats \cup {None} : StopMismatch(t, e))
             \/ StopAwait(t) \/ StopWake(t) \/ StopClear(t) \/ StopRecheck(t)
             \/ StopDropped(t)
      PROVE  Asleep
  <2>1. spc'[s] = spc[s]
    BY <1>8 DEF SGoto, StopMismatch, StopAwait, StopWake, StopClear,
           StopRecheck, StopDropped, TypeOK, TypeOKStops
  <2>2. woken' = woken
    BY <1>8 DEF gateVars, StopMismatch, StopAwait, StopWake, StopClear,
           StopRecheck, StopDropped
  <2> QED
    BY <2>1, <2>2
<1>9. ASSUME NEW t \in Stoppers, NEW e \in Chats \cup {None}, StopChoose(t, e)
      PROVE  Asleep
  BY <1>9 DEF StopChoose, ChooseStop, SGoto, TypeOK, TypeOKStops
<1>10. ASSUME NEW t \in Stoppers, StopLook(t) PROVE Asleep
  <2>1. spc'[s] = spc[s] /\ s /= t
    BY <1>10 DEF StopLook, SGoto, TypeOK, TypeOKStops
  <2> QED
    BY <1>10, <2>1 DEF StopLook, Watch, TypeOK, TypeOKGate
<1>11. ASSUME NEW t \in Stoppers, StopCapture(t) PROVE Asleep
  <2>1. spc'[s] = spc[s]
    BY <1>11 DEF StopCapture, SGoto, TypeOK, TypeOKStops
  <2>2. woken' = woken
    BY <1>11 DEF StopCapture, CancelRun, gateVars
  <2> QED
    BY <2>1, <2>2
<1>12. ASSUME NEW t \in Stoppers, StopEnd(t) PROVE FALSE
  BY <1>12 DEF StopEnd, EndStop, NotifyWaiters
<1>13. ASSUME NEW t \in Stoppers, StopSnapshot(t)
       PROVE  Asleep \/ (~GateIdle /\ UNCHANGED gateVars)
  <2>1. CASE s = t
    BY <1>13, <2>1 DEF StopSnapshot, SGoto, TypeOK, TypeOKStops
  <2>2. CASE s /= t
    BY <1>13, <2>2 DEF StopSnapshot, SGoto, TypeOK, TypeOKStops, gateVars
  <2> QED
    BY <2>1, <2>2
<1> QED
  BY <1>2, <1>3, <1>4, <1>5, <1>6, <1>7, <1>8, <1>9, <1>10, <1>11, <1>12, <1>13
     DEF Next, SendStep, TurnStep, SendFails, TurnFails, FinaliserStep, StopStep,
         MutationStep, WaitStep, AllReturned

(* So a stop never sleeps beside an idle gate. *)
LEMMA SleepersStep ==
  ASSUME TypeOK, StopsCounted', SleepInv, [Next]_vars
  PROVE  SleepInv'
<1> SUFFICES ASSUME NEW s \in Stoppers, spc'[s] = "sleeping", ~woken'[s]
             PROVE  ~GateIdle'
  BY DEF SleepInv
<1>1. CASE ~GateIdle /\ UNCHANGED gateVars
  BY <1>1 DEF gateVars, GateIdle
<1>2. CASE spc[s] = "sleeping" /\ ~woken[s]
  <2>1. ~GateIdle
    BY <1>2 DEF SleepInv
  <2>2. TypeOKGate /\ [GateNext]_gateVars
    BY GateSteps DEF TypeOK
  <2>3. ~RestartGate
    BY DEF StopsCounted, ActiveStops, StopPlaces, RestartGate
  <2> QED
    BY <2>1, <2>2, <2>3, IdleWakes
<1> QED
  BY <1>1, <1>2, SleepersMove

(* The run of a turn that is published is the session's current run and the *)
(* one active_runs_by_session names; and a stop in progress that has not    *)
(* cancelled it is about to look for it, or gives up.                       *)
Named(c) ==
  /\ pc[c] \in {"publishing", "running"} => activeRun = Run(c)
  /\ pc[c] = "running" => currentRun = Run(c) /\ Run(c) \in runs

Chased(c) ==
  pc[c] = "running" /\ Run(c) \notin token =>
    \A s \in ActiveStops :
      /\ expected[s] \in {None, Run(c)}
      /\ spc[s] \in {"looking", "capturing", "failing"}
      /\ spc[s] = "capturing" => waitFor[s] = Run(c)

CancelInv == \A c \in Chats : Named(c) /\ Chased(c)

(* Steps that publish, end, cancel and look for no run. *)
LEMMA CancelFrame ==
  ASSUME CancelInv,
         UNCHANGED <<activeRun, currentRun, runs, token, spc, expected, waitFor>>,
         \A d \in Chats : pc'[d] \in {"publishing", "running"} =>
                            pc'[d] = pc[d] /\ batch'[d] = batch[d]
  PROVE  CancelInv'
BY DEF CancelInv, Named, Chased, Run, ActiveStops

(* The same, of a chat call. *)
LEMMA CallKeepsCancel ==
  ASSUME TypeOK, CancelInv, NEW c \in Chats, NEW l, Goto(c, l),
         l \notin {"publishing", "running"},
         UNCHANGED <<activeRun, currentRun, runs, token, spc, expected, waitFor,
                     batch>>
  PROVE  CancelInv'
<1>1. ASSUME NEW d \in Chats, pc'[d] \in {"publishing", "running"}
      PROVE  pc'[d] = pc[d] /\ batch'[d] = batch[d]
  BY <1>1 DEF Goto, TypeOK, TypeOKChats
<1> QED
  BY <1>1, CancelFrame

(* Without send_syncs, no other turn is published while one holds the permit. *)
LEMMA AloneInTurn ==
  ASSUME Syncs = {}, PermitExclusion, NEW c \in Chats, pc[c] \in PermitPlaces,
         NEW d \in Chats, d /= c
  PROVE  pc[d] \notin {"publishing", "running"}
BY DEF PermitExclusion, PermitPlaces, HolderPlaces, TurnPlaces, Chats

(* A stop that ends or changes place beside a run it has not cancelled. *)
LEMMA StopKeepsCancel ==
  ASSUME TypeOK, CancelInv, NEW s \in Stoppers, NEW l, SGoto(s, l),
         spc[s] \notin {"looking", "capturing", "failing"} \/ l \notin StopPlaces
           \/ l = "failing",
         spc[s] \in StopPlaces,
         UNCHANGED <<pc, batch, activeRun, currentRun, runs, token, expected,
                     waitFor>>
  PROVE  CancelInv'
<1> SUFFICES ASSUME NEW c \in Chats PROVE (Named(c) /\ Chased(c))'
  BY DEF CancelInv
<1>1. Named(c) /\ Chased(c)
  BY DEF CancelInv
<1>2. Named(c)'
  BY <1>1 DEF Named, Run
<1>3. \A t \in Stoppers \ {s} : spc'[t] = spc[t]
  BY DEF SGoto, TypeOK, TypeOKStops
<1>4. spc'[s] = l
  BY DEF SGoto, TypeOK, TypeOKStops
<1>5. ASSUME pc[c] = "running", Run(c) \notin token, NEW t \in ActiveStops'
      PROVE  /\ expected[t] \in {None, Run(c)}
             /\ spc'[t] \in {"looking", "capturing", "failing"}
             /\ spc'[t] = "capturing" => waitFor[t] = Run(c)
  BY <1>1, <1>3, <1>4, <1>5 DEF Chased, ActiveStops
<1>6. Chased(c)'
  BY <1>5 DEF Chased, Run
<1> QED
  BY <1>2, <1>6

(* No step of a session of sends lets a stop look past the run it has to    *)
(* cancel.                                                                  *)
LEMMA CancelStep ==
  ASSUME Syncs = {}, StopInv, PermitExclusion, CancelInv, [Next]_vars
  PROVE  CancelInv'
<1> TypeOK
  BY DEF StopInv
<1>1. ASSUME NEW c \in Chats,
             SendBegin(c) \/ SendRefused(c) \/ LoadHistory(c)
             \/ AppendTurn(c) \/ Confirm(c) \/ DropGuard(c) \/ StartFails(c)
             \/ PrepareFails(c) \/ CallDropped(c) \/ RunDies(c)
             \/ (\E t \in Terminals : RunEnds(c, t))
      PROVE  CancelInv'
  <2>1. PICK l : Goto(c, l) /\ l \notin {"publishing", "running"}
    BY <1>1 DEF SendBegin, SendRefused, LoadHistory, AppendTurn, Confirm,
           DropGuard, StartFails, PrepareFails, CallDropped, RunDies, RunEnds,
           Exit
  <2>2. UNCHANGED <<activeRun, batch, spc, expected, waitFor>>
    BY <1>1 DEF others, stopVars, SendBegin, SendRefused, LoadHistory,
           AppendTurn, Confirm, DropGuard, StartFails, PrepareFails,
           CallDropped, RunDies, RunEnds
  <2>3. UNCHANGED <<currentRun, runs, token>>
    BY <1>1 DEF gateVars, BeginSend, ConfirmStart, RefuseCancelled, Abandon,
           SendBegin, SendRefused, LoadHistory, AppendTurn, Confirm, DropGuard,
           StartFails, PrepareFails, CallDropped, RunDies, RunEnds
  <2> QED
    BY <2>1, <2>2, <2>3, CallKeepsCancel
<1>2. ASSUME NEW c \in Sends,
             AcquireTurn(c) \/ EnqueueBegin(c) \/ EnqueueCommit(c)
             \/ FinishEnqueue(c) \/ Attach(c) \/ DropUnattached(c)
             \/ CheckSuppressed(c) \/ StartQueuedBatch(c)
             \/ OwnerDropsTurn(c) \/ OwnerDropsHolder(c)
             \/ EnqueueFails(c) \/ DrainFails(c)
      PROVE  CancelInv'
  <2>1. PICK l : Goto(c, l) /\ l \notin {"publishing", "running"}
    BY <1>2 DEF AcquireTurn, EnqueueBegin, EnqueueCommit, FinishEnqueue, Attach,
           DropUnattached, CheckSuppressed, StartQueuedBatch, OwnerDropsTurn,
           OwnerDropsHolder, EnqueueFails, DrainFails
  <2>2. UNCHANGED <<activeRun, batch, spc, expected, waitFor>>
    BY <1>2 DEF others, stopVars, AcquireTurn, EnqueueBegin, EnqueueCommit,
           FinishEnqueue, Attach, DropUnattached, CheckSuppressed,
           StartQueuedBatch, OwnerDropsTurn, OwnerDropsHolder, EnqueueFails,
           DrainFails
  <2>3. UNCHANGED <<currentRun, runs, token>>
    BY <1>2 DEF gateVars, RefuseCancelled, Abandon, BeginEnqueue, AttachPermit,
           ArmNextBatch, DropHolder, AcquireTurn, EnqueueBegin, EnqueueCommit,
           FinishEnqueue, Attach, DropUnattached, CheckSuppressed,
           StartQueuedBatch, OwnerDropsTurn, OwnerDropsHolder, EnqueueFails,
           DrainFails
  <2> QED
    BY <2>1, <2>2, <2>3, CallKeepsCancel DEF Chats
<1>3. ASSUME NEW c \in Sends, DrainQueue(c) PROVE CancelInv'
  <2>1. ASSUME NEW d \in Chats, pc'[d] \in {"publishing", "running"}
        PROVE  pc'[d] = pc[d] /\ batch'[d] = batch[d]
    BY <1>3, <2>1 DEF DrainQueue, Goto, TypeOK, TypeOKChats, Chats
  <2> QED
    BY <1>3, <2>1, CancelFrame DEF DrainQueue, others, stopVars, gateVars
<1>4. ASSUME (\E c \in Chats : RunAppends(c)) \/ (\E c \in Sends : RemoveQueued(c))
             \/ ClearChat \/ UNCHANGED vars
      PROVE  CancelInv'
  BY <1>4, CancelFrame DEF RunAppends, RemoveQueued, ClearChat, vars, chatVars,
         others, stopVars, gateVars
<1>5. ASSUME NEW m \in Mutators,
             Reserve(m) \/ MutationStopped(m) \/ Acquire(m)
             \/ Mutate(m) \/ MutationDropsGate(m) \/ MutationDropsTurn(m)
      PROVE  CancelInv'
  BY <1>5, CancelFrame DEF untouchedByMutations, stopVars, gateVars, Reserve,
         MutationStopped, Acquire, Mutate, MutationDropsGate, MutationDropsTurn
<1>6. ASSUME NEW w \in Waiters,
             WaitSubscribe(w) \/ WaitReadTerminal(w)
             \/ WaitReadActive(w) \/ WaitChanged(w)
      PROVE  CancelInv'
  BY <1>6, CancelFrame DEF untouchedByWaits, chatVars, stopVars, gateVars,
         WaitSubscribe, WaitReadTerminal, WaitReadActive, WaitChanged
<1>7. ASSUME Crash PROVE CancelInv'
  BY <1>7 DEF Crash, CancelInv, Named, Chased
<1>8. ASSUME NEW c \in Chats, Activate(c) PROVE CancelInv'
  <2>1. \A d \in Chats \ {c} : pc'[d] = pc[d]
                               /\ pc[d] \notin {"publishing", "running"}
    BY <1>8, AloneInTurn DEF Activate, Goto, TypeOK, TypeOKChats, PermitPlaces,
           HolderPlaces, TurnPlaces
  <2>2. pc'[c] = "publishing" /\ activeRun' = Run(c)'
    BY <1>8 DEF Activate, Goto, Run, TypeOK, TypeOKChats
  <2> QED
    BY <2>1, <2>2 DEF CancelInv, Named, Chased
<1>9. ASSUME NEW c \in Chats, Publish(c) PROVE CancelInv'
  <2>1. \A d \in Chats \ {c} : pc'[d] = pc[d]
                               /\ pc[d] \notin {"publishing", "running"}
    BY <1>9, AloneInTurn DEF Publish, Goto, TypeOK, TypeOKChats, PermitPlaces,
           HolderPlaces, TurnPlaces
  <2>2. activeRun = Run(c)
    BY <1>9 DEF Publish, CancelInv, Named
  <2>3. /\ activeRun' = activeRun /\ Run(c)' = Run(c)
        /\ currentRun' = Run(c) /\ Run(c) \in runs'
    BY <1>9 DEF Publish, PublishRun, Run
  <2>4. Named(c)'
    BY <2>2, <2>3 DEF Named
  <2>5. ASSUME Stopping PROVE Chased(c)'
    BY <1>9, <2>3, <2>5 DEF Publish, PublishRun, Chased
  <2>6. ASSUME ~Stopping PROVE Chased(c)'
    <3>1. stopDepth \in Nat /\ stopDepth = Cardinality(ActiveStops)
      BY DEF StopInv, StopsCounted, TypeOK, TypeOKGate
    <3>2. Cardinality(ActiveStops) = 0
      BY <2>6, <3>1 DEF Stopping
    <3>3. ActiveStops = {}
      BY <3>2, CallSetsFinite, FS_EmptySet
    <3>4. ActiveStops' = ActiveStops
      BY <1>9 DEF Publish, others, stopVars, ActiveStops
    <3> QED
      BY <3>3, <3>4 DEF Chased
  <2> QED
    BY <2>1, <2>4, <2>5, <2>6 DEF CancelInv, Named, Chased
<1>10. ASSUME NEW c \in Chats, Finish(c) \/ UnsetActive(c) PROVE CancelInv'
  <2>1. \A d \in Chats \ {c} : pc'[d] = pc[d]
                               /\ pc[d] \notin {"publishing", "running"}
    BY <1>10, AloneInTurn DEF Finish, UnsetActive, Goto, TypeOK, TypeOKChats,
           PermitPlaces, HolderPlaces, TurnPlaces
  <2>2. pc'[c] \notin {"publishing", "running"}
    BY <1>10 DEF Finish, UnsetActive, Goto, TypeOK, TypeOKChats
  <2> QED
    BY <2>1, <2>2 DEF CancelInv, Named, Chased
<1>11. ASSUME NEW c \in Chats, FinaliseRun(c) \/ FinaliseActive(c)
       PROVE  CancelInv'
  <2>1. ASSUME NEW d \in Chats, pc[d] \in {"publishing", "running"}
        PROVE  Run(c) /= Run(d)
    <3>1. pc[c] \notin {"publishing", "running"} /\ finaliser[c] /= "none"
      BY <1>11 DEF FinaliseRun, FinaliseActive, StopInv, GuardOfPlace, GuardFits
    <3> QED
      BY <2>1, <3>1, RunsDiffer DEF StopInv
  <2>2. UNCHANGED <<pc, batch, token, spc, expected, waitFor>>
    BY <1>11 DEF FinaliseRun, FinaliseActive, FinishRun, others, stopVars,
           gateVars
  <2>3. ASSUME NEW d \in Chats, pc[d] \in {"publishing", "running"}
        PROVE  /\ activeRun = Run(d) => activeRun' = activeRun
               /\ currentRun = Run(d) => currentRun' = currentRun
               /\ Run(d) \in runs => Run(d) \in runs'
    BY <1>11, <2>1, <2>3 DEF FinaliseRun, FinaliseActive, FinishRun, gateVars
  <2>4. ASSUME NEW d \in Chats PROVE Named(d)' /\ Chased(d)'
    <3>1. Named(d) /\ Chased(d) /\ Run(d)' = Run(d)
      BY <2>2 DEF CancelInv, Run
    <3>2. Named(d)'
      BY <2>2, <2>3, <3>1 DEF Named
    <3>3. Chased(d)'
      BY <2>2, <3>1 DEF Chased, ActiveStops
    <3> QED
      BY <3>2, <3>3
  <2> QED
    BY <2>4 DEF CancelInv
<1>12. ASSUME NEW s \in Stoppers,
              StopAwait(s) \/ StopSnapshot(s) \/ StopWake(s) \/ StopClear(s)
              \/ StopRecheck(s) \/ StopEnd(s) \/ StopDropped(s)
       PROVE  CancelInv'
  <2>1. PICK l : /\ SGoto(s, l) /\ spc[s] \in StopPlaces
                 /\ \/ spc[s] \notin {"looking", "capturing", "failing"}
                    \/ l \notin StopPlaces
                    \/ l = "failing"
    BY <1>12 DEF StopAwait, StopSnapshot, StopWake, StopClear, StopRecheck,
           StopEnd, StopDropped, StopPlaces
  <2>2. UNCHANGED <<pc, batch, activeRun, expected, waitFor>>
    BY <1>12 DEF untouchedByStops, chatVars, StopAwait, StopSnapshot, StopWake,
           StopClear, StopRecheck, StopEnd, StopDropped
  <2>3. UNCHANGED <<currentRun, runs, token>>
    BY <1>12 DEF gateVars, EndStop, StopAwait, StopSnapshot, StopWake, StopClear,
           StopRecheck, StopEnd, StopDropped
  <2> QED
    BY <2>1, <2>2, <2>3, StopKeepsCancel
<1>13. ASSUME NEW s \in Stoppers, NEW e \in Chats \cup {None}, StopMismatch(s, e)
       PROVE  CancelInv'
  <2>1. UNCHANGED <<pc, batch, activeRun, currentRun, runs, token, expected, waitFor>>
    BY <1>13 DEF StopMismatch, untouchedByStops, chatVars, gateVars
  <2>2. ActiveStops' = ActiveStops /\ \A t \in ActiveStops : spc'[t] = spc[t]
    BY <1>13 DEF StopMismatch, SGoto, ActiveStops, StopPlaces, TypeOK, TypeOKStops
  <2> QED
    BY <2>1, <2>2 DEF CancelInv, Named, Chased, Run
<1>14. ASSUME NEW s \in Stoppers, NEW e \in Chats \cup {None}, StopChoose(s, e)
       PROVE  CancelInv'
  <2>1. UNCHANGED <<pc, batch, activeRun, currentRun, runs, token, waitFor>>
    BY <1>14 DEF StopChoose, ChooseStop, untouchedByStops, chatVars
  <2>2. /\ spc'[s] = "looking" /\ expected'[s] = e /\ e \in {None, currentRun}
        /\ \A t \in Stoppers \ {s} : spc'[t] = spc[t] /\ expected'[t] = expected[t]
    BY <1>14 DEF StopChoose, ChooseStop, StopMatches, SGoto, TypeOK, TypeOKStops
  <2>3. ASSUME NEW c \in Chats PROVE Named(c)' /\ Chased(c)'
    <3>1. Named(c) /\ Chased(c) /\ Run(c)' = Run(c)
      BY <2>1 DEF CancelInv, Run
    <3>2. Named(c)'
      BY <2>1, <3>1 DEF Named
    <3>3. ASSUME pc[c] = "running", Run(c) \notin token, NEW t \in ActiveStops'
          PROVE  /\ expected'[t] \in {None, Run(c)}
                 /\ spc'[t] \in {"looking", "capturing", "failing"}
                 /\ spc'[t] = "capturing" => waitFor[t] = Run(c)
      <4>1. CASE t = s
        BY <2>2, <3>1, <3>3, <4>1 DEF Named
      <4>2. CASE t /= s
        BY <2>2, <3>1, <3>3, <4>2 DEF Chased, ActiveStops
      <4> QED
        BY <4>1, <4>2
    <3>4. Chased(c)'
      BY <2>1, <3>1, <3>3 DEF Chased
    <3> QED
      BY <3>2, <3>4
  <2> QED
    BY <2>3 DEF CancelInv
<1>15. ASSUME NEW s \in Stoppers, StopLook(s) PROVE CancelInv'
  <2>1. UNCHANGED <<pc, batch, activeRun, currentRun, runs, token, expected>>
    BY <1>15 DEF StopLook, Watch, untouchedByStops, chatVars
  <2>2. \A t \in Stoppers \ {s} : spc'[t] = spc[t] /\ waitFor'[t] = waitFor[t]
    BY <1>15 DEF StopLook, SGoto, TypeOK, TypeOKStops
  <2>3. s \in ActiveStops
    BY <1>15 DEF StopLook, ActiveStops, StopPlaces
  <2>4. ASSUME NEW c \in Chats PROVE Named(c)' /\ Chased(c)'
    <3>1. Named(c) /\ Chased(c) /\ Run(c)' = Run(c)
      BY <2>1 DEF CancelInv, Run
    <3>2. Named(c)'
      BY <2>1, <3>1 DEF Named
    <3>3. ASSUME pc[c] = "running", Run(c) \notin token, NEW t \in ActiveStops'
          PROVE  /\ expected[t] \in {None, Run(c)}
                 /\ spc'[t] \in {"looking", "capturing", "failing"}
                 /\ spc'[t] = "capturing" => waitFor'[t] = Run(c)
      <4>1. CASE t = s
        <5>1. activeRun = Run(c) /\ expected[s] \in {None, activeRun}
          BY <2>3, <3>1, <3>3 DEF Named, Chased
        <5>2. activeRun /= None
          BY <5>1, RunType, ChatTurnsAssumption DEF TypeOK, Chats
        <5>3. spc'[s] = "capturing" /\ waitFor'[s] = activeRun
          BY <1>15, <5>1, <5>2 DEF StopLook, SGoto, TypeOK, TypeOKStops
        <5> QED
          BY <4>1, <5>1, <5>3
      <4>2. CASE t /= s
        BY <2>2, <3>1, <3>3, <4>2 DEF Chased, ActiveStops
      <4> QED
        BY <4>1, <4>2
    <3>4. Chased(c)'
      BY <2>1, <3>1, <3>3 DEF Chased
    <3> QED
      BY <3>2, <3>4
  <2> QED
    BY <2>4 DEF CancelInv
<1>16. ASSUME NEW s \in Stoppers, StopCapture(s) PROVE CancelInv'
  <2>1. /\ UNCHANGED <<pc, batch, activeRun, currentRun, runs, expected, waitFor>>
        /\ token \subseteq token'
    BY <1>16 DEF StopCapture, CancelRun, gateVars, untouchedByStops, chatVars
  <2>2. \A t \in Stoppers \ {s} : spc'[t] = spc[t]
    BY <1>16 DEF StopCapture, SGoto, TypeOK, TypeOKStops
  <2>3. s \in ActiveStops
    BY <1>16 DEF StopCapture, ActiveStops, StopPlaces
  <2>4. ASSUME NEW c \in Chats PROVE Named(c)' /\ Chased(c)'
    <3>1. Named(c) /\ Chased(c) /\ Run(c)' = Run(c)
      BY <2>1 DEF CancelInv, Run
    <3>2. Named(c)'
      BY <2>1, <3>1 DEF Named
    <3>3. ASSUME pc[c] = "running", Run(c) \notin token' PROVE FALSE
      <4>1. waitFor[s] = Run(c) /\ Run(c) \in runs
        BY <1>16, <2>1, <2>3, <3>1, <3>3 DEF StopCapture, Named, Chased
      <4> QED
        BY <1>16, <3>3, <4>1 DEF StopCapture, CancelRun
    <3>4. Chased(c)'
      BY <2>1, <3>1, <3>3 DEF Chased
    <3> QED
      BY <3>2, <3>4
  <2> QED
    BY <2>4 DEF CancelInv
<1>17. ASSUME NEW r \in Chats, StopRun(r) PROVE CancelInv'
  <2>1. /\ UNCHANGED <<pc, batch, activeRun, currentRun, runs, spc, expected,
                       waitFor>>
        /\ token \subseteq token'
    BY <1>17 DEF StopRun, CancelRun, stopVars, untouchedByStops, chatVars
  <2> QED
    BY <2>1 DEF CancelInv, Named, Chased, Run, ActiveStops
<1> QED
  BY <1>1, <1>2, <1>3, <1>4, <1>5, <1>6, <1>7, <1>8, <1>9, <1>10, <1>11,
     <1>12, <1>13, <1>14, <1>15, <1>16, <1>17
     DEF Next, SendStep, TurnStep, SendFails, TurnFails, FinaliserStep, StopStep,
         MutationStep, WaitStep, AllReturned

(* In a session of sends, a stop asleep with no wakeup under way waits for  *)
(* a guard or a holder whose end wakes it, and has cancelled every run that *)
(* still executes: it can only be waiting for work that is ending.  With    *)
(* the send_syncs of the same session this is false, and the run hang shows *)
(* a stop that never returns.                                               *)
THEOREM StopsNeverOversleep ==
  ASSUME Syncs = {}
  PROVE  Spec => []StopNeverOversleeps
<1>1. Init => SleepInv /\ CancelInv
  BY DEF Init, SleepInv, CancelInv, Named, Chased
<1>2. StopInv /\ StopInv' /\ SleepInv /\ [Next]_vars => SleepInv'
  BY SleepersStep DEF StopInv
<1>3. StopInv /\ PermitExclusion /\ CancelInv /\ [Next]_vars => CancelInv'
  BY CancelStep
<1>4. SleepInv /\ CancelInv => StopNeverOversleeps
  BY DEF SleepInv, CancelInv, Chased, ActiveStops, StopPlaces,
         StopNeverOversleeps
<1> QED
  BY <1>1, <1>2, <1>3, <1>4, StopInvariant, PermitExcludes, PTL DEF Spec

-----------------------------------------------------------------------------
(* The history a turn answers. *)

SeenPlaces == {"confirming", "activating", "publishing", "running"}

(* A turn that is about to append has loaded what the journal starts with,  *)
(* so a tail of the same length is the same tail.                           *)
SeesInv ==
  /\ \A c \in Chats : pc[c] = "appending" => StartsWith(history, view[c])
  /\ \A c \in Chats : pc[c] \in SeenPlaces =>
       StartsWith(history, view[c] \o UserRecords(batch[c]))

(* What a journal starts with does not change as it grows. *)
LEMMA GrownStartsWith ==
  ASSUME NEW S, NEW s \in Seq(S), NEW t \in Seq(S), NEW u \in Seq(S),
         StartsWith(s, t)
  PROVE  StartsWith(s \o u, t)
<1>1. Len(t) \in Nat /\ Len(s) \in Nat /\ Len(t) <= Len(s)
  BY DEF StartsWith
<1>2. s \o u \in Seq(S) /\ Len(s \o u) = Len(s) + Len(u) /\ Len(u) \in Nat
  BY ConcatProperties
<1>3. ASSUME NEW i \in 1..Len(t) PROVE (s \o u)[i] = s[i]
  BY <1>1, ConcatProperties
<1>4. SubSeq(s, 1, Len(t)) = [i \in 1..Len(t) |-> s[i]]
  BY <1>1
<1>5. SubSeq(s \o u, 1, Len(t)) = [i \in 1..Len(t) |-> (s \o u)[i]]
  BY <1>1, <1>2
<1>6. SubSeq(s \o u, 1, Len(t)) = t
  BY <1>3, <1>4, <1>5 DEF StartsWith
<1>7. Len(t) <= Len(s \o u)
  BY <1>1, <1>2
<1> QED
  BY <1>6, <1>7 DEF StartsWith

LEMMA StartsWithSelf ==
  ASSUME NEW S, NEW s \in Seq(S), NEW t \in Seq(S)
  PROVE  /\ StartsWith(s, s)
         /\ StartsWith(s, t) /\ Len(s) = Len(t) => s = t
<1>1. SubSeq(s, 1, Len(s)) = s /\ Len(s) \in Nat
  OBVIOUS
<1> QED
  BY <1>1 DEF StartsWith

(* The journal grows, and the turns that have seen it stay where they are   *)
(* or leave.                                                                *)
LEMMA SeesKept ==
  ASSUME TypeOK, SeesInv, NEW u \in Seq(Records), history' = history \o u,
         NEW c \in Chats,
         /\ pc'[c] = "appending" => pc[c] = "appending"
         /\ pc'[c] \in SeenPlaces => pc[c] \in SeenPlaces
         /\ pc'[c] \in SeenPlaces \cup {"appending"} =>
              view'[c] = view[c] /\ batch'[c] = batch[c]
  PROVE  /\ pc'[c] = "appending" => StartsWith(history', view'[c])
         /\ pc'[c] \in SeenPlaces =>
              StartsWith(history', view'[c] \o UserRecords(batch'[c]))
<1>1. /\ history \in Seq(Records) /\ view[c] \in Seq(Records)
      /\ view[c] \o UserRecords(batch[c]) \in Seq(Records)
  BY UserRecordsType, ConcatProperties DEF TypeOK, TypeOKChats
<1>2. CASE pc'[c] = "appending"
  BY <1>1, <1>2, GrownStartsWith DEF SeesInv, SeenPlaces
<1>3. CASE pc'[c] \in SeenPlaces
  BY <1>1, <1>3, GrownStartsWith DEF SeesInv, SeenPlaces
<1> QED
  BY <1>2, <1>3

(* The journal does not change. *)
LEMMA SeesFrame ==
  ASSUME SeesInv, history' = history,
         \A c \in Chats :
           /\ pc'[c] = "appending" => pc[c] = "appending"
           /\ pc'[c] \in SeenPlaces => pc[c] \in SeenPlaces
           /\ pc'[c] \in SeenPlaces \cup {"appending"} =>
                view'[c] = view[c] /\ batch'[c] = batch[c]
  PROVE  SeesInv'
BY DEF SeesInv, UserRecords

(* A chat call that goes on to a place it has a right to. *)
LEMMA CallKeepsSees ==
  ASSUME TypeOK, SeesInv, NEW c \in Chats, NEW l, Goto(c, l),
         l /= "appending", l \in SeenPlaces => pc[c] \in SeenPlaces,
         UNCHANGED <<history, view, batch>>
  PROVE  SeesInv'
<1>1. ASSUME NEW d \in Chats
      PROVE  /\ pc'[d] = "appending" => pc[d] = "appending"
             /\ pc'[d] \in SeenPlaces => pc[d] \in SeenPlaces
  BY DEF Goto, TypeOK, TypeOKChats
<1> QED
  BY <1>1, SeesFrame

(* No step of the session changes what such a turn has seen, unless         *)
(* chat.clear or a truncation beside a send_sync does.                      *)
LEMMA SeesStep ==
  ASSUME "clear" \notin UserOps, Truncators = {} \/ Syncs = {},
         TypeOK, PermitExclusion, SeesInv, [Next]_vars
  PROVE  SeesInv'
<1>1. ASSUME NEW c \in Chats,
             SendBegin(c) \/ SendRefused(c) \/ Confirm(c) \/ Activate(c)
             \/ Publish(c) \/ Finish(c) \/ UnsetActive(c) \/ DropGuard(c)
             \/ StartFails(c) \/ PrepareFails(c) \/ CallDropped(c)
             \/ RunDies(c) \/ (\E t \in Terminals : RunEnds(c, t))
      PROVE  SeesInv'
  <2>1. PICK l : /\ Goto(c, l) /\ l /= "appending"
                 /\ l \in SeenPlaces => pc[c] \in SeenPlaces
    BY <1>1 DEF SendBegin, SendRefused, Confirm, Activate, Publish, Finish,
           UnsetActive, DropGuard, StartFails, PrepareFails, CallDropped,
           RunDies, RunEnds, Exit, SeenPlaces
  <2>2. UNCHANGED <<history, view, batch>>
    BY <1>1 DEF SendBegin, SendRefused, Confirm, Activate, Publish, Finish,
           UnsetActive, DropGuard, StartFails, PrepareFails, CallDropped,
           RunDies, RunEnds
  <2> QED
    BY <2>1, <2>2, CallKeepsSees
<1>2. ASSUME NEW c \in Sends,
             AcquireTurn(c) \/ EnqueueBegin(c) \/ EnqueueCommit(c)
             \/ FinishEnqueue(c) \/ Attach(c) \/ DropUnattached(c)
             \/ CheckSuppressed(c) \/ StartQueuedBatch(c)
             \/ OwnerDropsTurn(c) \/ OwnerDropsHolder(c)
             \/ EnqueueFails(c) \/ DrainFails(c)
      PROVE  SeesInv'
  <2>1. PICK l : Goto(c, l) /\ l \notin SeenPlaces \cup {"appending"}
    BY <1>2 DEF AcquireTurn, EnqueueBegin, EnqueueCommit, FinishEnqueue, Attach,
           DropUnattached, CheckSuppressed, StartQueuedBatch, OwnerDropsTurn,
           OwnerDropsHolder, EnqueueFails, DrainFails, SeenPlaces
  <2>2. UNCHANGED <<history, view, batch>>
    BY <1>2 DEF AcquireTurn, EnqueueBegin, EnqueueCommit, FinishEnqueue, Attach,
           DropUnattached, CheckSuppressed, StartQueuedBatch, OwnerDropsTurn,
           OwnerDropsHolder, EnqueueFails, DrainFails
  <2> QED
    BY <2>1, <2>2, CallKeepsSees DEF Chats
<1>3. ASSUME NEW c \in Sends, DrainQueue(c) PROVE SeesInv'
  <2>1. ASSUME NEW d \in Chats, pc'[d] \in SeenPlaces \cup {"appending"}
        PROVE  pc'[d] = pc[d] /\ view'[d] = view[d] /\ batch'[d] = batch[d]
    BY <1>3, <2>1 DEF DrainQueue, Goto, SeenPlaces, TypeOK, TypeOKChats, Chats
  <2> QED
    BY <1>3, <2>1, SeesFrame DEF DrainQueue, SeenPlaces
<1>4. ASSUME NEW c \in Chats, LoadHistory(c) PROVE SeesInv'
  <2>1. \A d \in Chats \ {c} : pc'[d] = pc[d] /\ view'[d] = view[d]
    BY <1>4 DEF LoadHistory, Goto, TypeOK, TypeOKChats
  <2>2. pc'[c] = "appending" /\ view'[c] = history
    BY <1>4 DEF LoadHistory, Goto, TypeOK, TypeOKChats
  <2>3. UNCHANGED <<history, batch>>
    BY <1>4 DEF LoadHistory
  <2>4. StartsWith(history, history)
    BY StartsWithSelf DEF TypeOK, TypeOKChats
  <2> QED
    BY <2>1, <2>2, <2>3, <2>4 DEF SeesInv, SeenPlaces, UserRecords
<1>5. ASSUME NEW c \in Chats, AppendTurn(c) PROVE SeesInv'
  <2>1. CASE Len(history) /= Len(view[c])
    BY <1>5, <2>1, CallKeepsSees DEF AppendTurn, Exit, SeenPlaces
  <2>2. CASE Len(history) = Len(view[c])
    <3> DEFINE u == UserRecords(batch[c])
    <3>1. /\ pc[c] = "appending" /\ Goto(c, "confirming")
          /\ history' = history \o u /\ UNCHANGED <<view, batch>>
      BY <1>5, <2>2 DEF AppendTurn
    <3>2. /\ u \in Seq(Records) /\ history \in Seq(Records)
          /\ view[c] \in Seq(Records)
      BY UserRecordsType DEF TypeOK, TypeOKChats
    <3>3. history = view[c]
      BY <2>2, <3>1, <3>2, StartsWithSelf DEF SeesInv
    <3>4. StartsWith(history', view'[c] \o UserRecords(batch'[c]))
      BY <3>1, <3>2, <3>3, StartsWithSelf, ConcatProperties
    <3>5. pc'[c] = "confirming"
      BY <3>1 DEF Goto, TypeOK, TypeOKChats
    <3>6. ASSUME NEW d \in Chats, d /= c
          PROVE  /\ pc'[d] = "appending" => StartsWith(history', view'[d])
                 /\ pc'[d] \in SeenPlaces =>
                      StartsWith(history', view'[d] \o UserRecords(batch'[d]))
      <4>1. pc'[d] = pc[d] /\ view'[d] = view[d] /\ batch'[d] = batch[d]
        BY <3>1, <3>6 DEF Goto, TypeOK, TypeOKChats
      <4> HIDE DEF u
      <4> QED
        BY <3>1, <3>2, <4>1, SeesKept
    <3> QED
      BY <3>4, <3>5, <3>6 DEF SeesInv, UserRecords
  <2> QED
    BY <2>1, <2>2
<1>6. ASSUME NEW c \in Chats, RunAppends(c) PROVE SeesInv'
  <2>1. Output(Run(c)) \in Records /\ history \in Seq(Records)
    BY RunType DEF Output, Records, TypeOK, TypeOKChats
  <2>2. PICK u \in Seq(Records) : history' = history \o u
    <3>1. history' = history \o <<Output(Run(c))>>
      BY <1>6, <2>1, AppendIsConcat DEF RunAppends
    <3>2. <<Output(Run(c))>> \in Seq(Records)
      BY <2>1
    <3> QED
      BY <3>1, <3>2
  <2>3. UNCHANGED <<pc, view, batch>>
    BY <1>6 DEF RunAppends
  <2> QED
    BY <2>2, <2>3, SeesKept DEF SeesInv, UserRecords
<1>7. ASSUME NEW c \in Chats, FinaliseRun(c) \/ FinaliseActive(c) \/ StopRun(c)
      PROVE  SeesInv'
  BY <1>7, SeesFrame DEF FinaliseRun, FinaliseActive, StopRun, untouchedByStops,
         chatVars
<1>8. ASSUME NEW c \in Sends, RemoveQueued(c) PROVE SeesInv'
  BY <1>8, SeesFrame DEF RemoveQueued, chatVars
<1>9. ASSUME NEW s \in Stoppers,
             (\E e \in Chats \cup {None} : StopChoose(s, e))
             \/ (\E e \in Chats \cup {None} : StopMismatch(s, e))
             \/ StopLook(s) \/ StopCapture(s) \/ StopAwait(s)
             \/ StopSnapshot(s) \/ StopWake(s) \/ StopClear(s)
             \/ StopRecheck(s) \/ StopEnd(s) \/ StopDropped(s)
      PROVE  SeesInv'
  BY <1>9, SeesFrame DEF untouchedByStops, chatVars, StopChoose, StopMismatch,
         StopLook, StopCapture, StopAwait, StopSnapshot, StopWake, StopClear,
         StopRecheck, StopEnd, StopDropped
<1>10. ASSUME NEW m \in Mutators,
              Reserve(m) \/ MutationStopped(m) \/ Acquire(m)
              \/ MutationDropsGate(m) \/ MutationDropsTurn(m)
       PROVE  SeesInv'
  BY <1>10, SeesFrame DEF untouchedByMutations, Reserve, MutationStopped,
         Acquire, MutationDropsGate, MutationDropsTurn
<1>11. ASSUME NEW m \in Mutators, Mutate(m) PROVE SeesInv'
  <2>1. UNCHANGED <<pc, view, batch>>
    BY <1>11 DEF Mutate, untouchedByMutations
  <2>2. CASE m \notin Truncators
    BY <1>11, <2>1, <2>2, SeesFrame DEF Mutate
  <2>3. CASE m \in Truncators
    <3>1. Chats = Sends /\ turn = m /\ m \notin Sends
      BY <1>11, <2>3, ChatTurnsAssumption DEF Chats, Mutate, PermitExclusion
    <3>2. \A c \in Chats : pc[c] \notin SeenPlaces \cup {"appending"}
      BY <3>1 DEF PermitExclusion, PermitPlaces, HolderPlaces, TurnPlaces,
             SeenPlaces
    <3> QED
      BY <2>1, <3>2 DEF SeesInv
  <2> QED
    BY <2>2, <2>3
<1>12. ASSUME NEW w \in Waiters,
              WaitSubscribe(w) \/ WaitReadTerminal(w)
              \/ WaitReadActive(w) \/ WaitChanged(w)
       PROVE  SeesInv'
  BY <1>12, SeesFrame DEF untouchedByWaits, chatVars, WaitSubscribe,
         WaitReadTerminal, WaitReadActive, WaitChanged
<1>13. ASSUME ClearChat PROVE FALSE
  BY <1>13 DEF ClearChat
<1>14. ASSUME Crash PROVE SeesInv'
  BY <1>14 DEF Crash, SeesInv, SeenPlaces
<1>15. CASE UNCHANGED vars
  BY <1>15, SeesFrame DEF vars, chatVars
<1> QED
  BY <1>1, <1>2, <1>3, <1>4, <1>5, <1>6, <1>7, <1>8, <1>9, <1>10, <1>11,
     <1>12, <1>13, <1>14, <1>15
     DEF Next, SendStep, TurnStep, SendFails, TurnFails, FinaliserStep, StopStep,
         MutationStep, WaitStep, AllReturned

(* From its append to the end of its run, a turn answers the conversation   *)
(* that is stored: the journal starts with the history it was built from,   *)
(* then its own prompts.  append_batch_at_index compares lengths only; that *)
(* is enough because, but for chat.clear and a truncation beside a          *)
(* send_sync, nothing shortens the journal in between.                      *)
THEOREM TurnsAnswerTheJournal ==
  ASSUME "clear" \notin UserOps, Truncators = {} \/ Syncs = {}
  PROVE  Spec => []TurnSeesItsHistory
<1>1. Init => SeesInv
  BY DEF Init, SeesInv, SeenPlaces
<1>2. TypeOK /\ PermitExclusion /\ SeesInv /\ [Next]_vars => SeesInv'
  BY SeesStep
<1>3. SeesInv => TurnSeesItsHistory
  BY DEF SeesInv, SeenPlaces, TurnSeesItsHistory
<1> QED
  BY <1>1, <1>2, <1>3, TypeCorrect, PermitExcludes, PTL DEF Spec

-----------------------------------------------------------------------------
(* A session implements the ledger of its prompts: every step maps to a    *)
(* step of PromptLedger or to none.                                        *)

ExecPlaces == {"confirming", "activating", "publishing", "running"}

(* The places where a send is the turn of the ledger. *)
LedgerPlaces == CarryPlaces \cup ExecPlaces

LedgerStep == [Ledger!NextLedger]_(Ledger!ledgerVars)

LEMMA ChooseOnly ==
  ASSUME NEW C, NEW c \in C, \A d \in C : d = c
  PROVE  TheOne(C) = c
BY DEF TheOne

(* At most one send is in a turn: the one with the permit. *)
LEMMA OneInTurn ==
  ASSUME PermitExclusion, NEW c \in Sends, NEW d \in Sends,
         pc[c] \in LedgerPlaces, pc[d] \in LedgerPlaces
  PROVE  c = d
BY DEF PermitExclusion, LedgerPlaces, CarryPlaces, ExecPlaces, PermitPlaces,
       HolderPlaces, TurnPlaces

(* With the permit elsewhere no send is in a turn. *)
LEMMA NoneInTurn ==
  ASSUME \A d \in Sends : pc[d] \notin LedgerPlaces
  PROVE  Hand = <<>> /\ BatchOf(Executors) = <<>>
BY DEF Hand, BatchOf, Executors, Carriers, LedgerPlaces, CarryPlaces, ExecPlaces

LEMMA HandOfCarrier ==
  ASSUME PermitExclusion, NEW c \in Sends, pc[c] \in CarryPlaces
  PROVE  Hand = batch[c] /\ BatchOf(Executors) = <<>>
<1>1. \A d \in Sends : pc[d] \in LedgerPlaces => d = c
  BY OneInTurn DEF LedgerPlaces
<1>2. c \in Carriers \cap Sends /\ \A d \in Carriers \cap Sends : d = c
  BY <1>1 DEF Carriers, LedgerPlaces, CarryPlaces, Chats
<1>3. Executors = {}
  BY <1>1 DEF Executors, LedgerPlaces, CarryPlaces, ExecPlaces
<1> QED
  BY <1>2, <1>3, ChooseOnly DEF Hand, BatchOf

LEMMA TurnOfExecutor ==
  ASSUME PermitExclusion, NEW c \in Sends, pc[c] \in ExecPlaces
  PROVE  Hand = <<>> /\ BatchOf(Executors) = batch[c]
<1>1. \A d \in Sends : pc[d] \in LedgerPlaces => d = c
  BY OneInTurn DEF LedgerPlaces
<1>2. c \in Executors /\ \A d \in Executors : d = c
  BY <1>1 DEF Executors, LedgerPlaces, ExecPlaces
<1>3. Carriers \cap Sends = {}
  BY <1>1 DEF Carriers, LedgerPlaces, CarryPlaces, ExecPlaces
<1> QED
  BY <1>2, <1>3, ChooseOnly DEF Hand, BatchOf

(* A step that moves no call and no prompt. *)
LEMMA LedgerStutters ==
  ASSUME UNCHANGED <<queue, history, batch, pc>>
  PROVE  LedgerStep
BY DEF LedgerStep, Ledger!ledgerVars, Met, Hand, BatchOf, Executors, Carriers

(* A call that goes on, is refused, or gives its turn up. *)
LEMMA CallGoesOn ==
  ASSUME TypeOK, PermitExclusion, NEW c \in Chats, NEW l, Goto(c, l),
         UNCHANGED <<queue, history, batch>>,
         c \in Sends =>
           /\ l \in UnmetPlaces => pc[c] \in UnmetPlaces
           /\ l \in CarryPlaces => pc[c] \in CarryPlaces
           /\ l \in ExecPlaces => pc[c] \in ExecPlaces
  PROVE  LedgerStep
<1>1. \A d \in Chats : pc'[d] = IF d = c THEN l ELSE pc[d]
  BY DEF Goto, TypeOK, TypeOKChats
<1>2. CASE c \in Syncs
  <2>1. Sends \cap {c} = {}
    BY <1>2, ChatTurnsAssumption
  <2>2. /\ Met' = Met /\ Executors' = Executors
        /\ (Carriers \cap Sends)' = Carriers \cap Sends
    BY <1>1, <2>1 DEF Met, Executors, Carriers, Chats
  <2> QED
    BY <2>2 DEF LedgerStep, Ledger!ledgerVars, Hand, BatchOf
<1>3. CASE c \in Sends /\ (l \in LedgerPlaces <=> pc[c] \in LedgerPlaces)
  <2>1. /\ Executors' = Executors
        /\ (Carriers \cap Sends)' = Carriers \cap Sends
    BY <1>1, <1>3 DEF Executors, Carriers, LedgerPlaces, CarryPlaces, ExecPlaces,
                      Chats
  <2>2. UNCHANGED <<queue, history, Hand, BatchOf(Executors)>>
    BY <2>1 DEF Hand, BatchOf
  <2>3. Met' = Met \/ Met' = Met \cup {c}
    BY <1>1, <1>3 DEF Met, Chats
  <2>4. CASE Met' = Met
    BY <2>2, <2>4 DEF LedgerStep, Ledger!ledgerVars
  <2>5. CASE Met' = Met \cup {c}
    <3>1. Ledger!Refuse(c)
      BY <2>2, <2>5 DEF Ledger!Refuse
    <3> QED
      BY <1>3, <3>1 DEF LedgerStep, Ledger!NextLedger
  <2> QED
    BY <2>3, <2>4, <2>5
<1>4. CASE c \in Sends /\ l \notin LedgerPlaces /\ pc[c] \in LedgerPlaces
  <2>1. \A d \in Sends : pc'[d] \notin LedgerPlaces
    BY <1>1, <1>4, OneInTurn DEF Chats
  <2>2. Hand' = <<>> /\ BatchOf(Executors)' = <<>>
    BY <2>1 DEF Hand, BatchOf, Executors, Carriers, LedgerPlaces, CarryPlaces,
                ExecPlaces
  <2>3. Met' = Met \cup {}
    BY <1>1, <1>4 DEF Met, Chats, UnmetPlaces, LedgerPlaces, CarryPlaces,
                      ExecPlaces
  <2>4. Ledger!End({})
    BY <2>2, <2>3 DEF Ledger!End
  <2> QED
    BY <2>4 DEF LedgerStep, Ledger!NextLedger
<1> QED
  BY <1>2, <1>3, <1>4 DEF Chats, LedgerPlaces

-----------------------------------------------------------------------------
(* The steps that are steps of the ledger. *)

(* A send that attaches its permit takes its prompt into a turn. *)
LEMMA AttachTakes ==
  ASSUME TypeOK, PermitExclusion, OnceInv, NEW c \in Sends, Attach(c)
  PROVE  LedgerStep
<1>1. /\ c \in Chats /\ pc[c] = "attaching" /\ batch[c] = <<c>>
      /\ UNCHANGED <<queue, history, batch>>
  BY DEF Attach, OnceInv, OwnPrompts, Unstarted, Chats
<1>2. CASE Goto(c, "unattached")
  BY <1>1, <1>2, CallGoesOn DEF UnmetPlaces, CarryPlaces, ExecPlaces
<1>3. CASE Goto(c, "loading")
  <2>1. \A d \in Chats : pc'[d] = IF d = c THEN "loading" ELSE pc[d]
    BY <1>3 DEF Goto, TypeOK, TypeOKChats
  <2>2. \A d \in Sends : pc[d] \notin LedgerPlaces
    BY <1>1 DEF PermitExclusion, LedgerPlaces, CarryPlaces, ExecPlaces,
                PermitPlaces, HolderPlaces, TurnPlaces
  <2>3. Hand = <<>> /\ BatchOf(Executors) = <<>>
    BY <2>2, NoneInTurn
  <2>4. (Carriers \cap Sends)' = {c} /\ Executors' = {}
    BY <1>1, <2>1, <2>2 DEF Carriers, Executors, LedgerPlaces, CarryPlaces,
                            ExecPlaces, Chats
  <2>5. TheOne({c}) = c
    BY ChooseOnly
  <2>6. Hand' = <<c>> /\ BatchOf(Executors)' = <<>>
    BY <1>1, <2>4, <2>5 DEF Hand, BatchOf
  <2>7. c \notin Met /\ Met' = Met \cup {c}
    BY <1>1, <2>1 DEF Met, UnmetPlaces, Chats
  <2>8. Ledger!Take(c)
    BY <1>1, <2>3, <2>6, <2>7 DEF Ledger!Take, Ledger!Idle
  <2> QED
    BY <2>8 DEF LedgerStep, Ledger!NextLedger
<1> QED
  BY <1>2, <1>3 DEF Attach

(* A committed row is a prompt that waits. *)
LEMMA EnqueueWaits ==
  ASSUME TypeOK, NEW c \in Sends, EnqueueCommit(c)
  PROVE  LedgerStep
<1>1. /\ c \in Chats /\ pc[c] = "enqueueing"
      /\ queue' = Append(queue, c) /\ UNCHANGED <<history, batch>>
      /\ \A d \in Chats : pc'[d] = IF d = c THEN "enqueued" ELSE pc[d]
  BY DEF EnqueueCommit, Enqueue, Goto, Chats, TypeOK, TypeOKChats
<1>2. (Carriers \cap Sends)' = Carriers \cap Sends /\ Executors' = Executors
  BY <1>1 DEF Carriers, Executors, Chats
<1>3. UNCHANGED <<Hand, BatchOf(Executors)>>
  BY <1>1, <1>2 DEF Hand, BatchOf
<1>4. c \notin Met /\ Met' = Met \cup {c}
  BY <1>1 DEF Met, UnmetPlaces, Chats
<1>5. Ledger!Wait(c)
  BY <1>1, <1>3, <1>4 DEF Ledger!Wait
<1> QED
  BY <1>5 DEF LedgerStep, Ledger!NextLedger

(* A drain takes all that waits. *)
LEMMA DrainTakes ==
  ASSUME TypeOK, PermitExclusion, NEW c \in Sends, DrainQueue(c)
  PROVE  LedgerStep
<1>1. c \in Chats /\ pc[c] = "draining" /\ UNCHANGED history
  BY DEF DrainQueue, Chats
<1>2. CASE queue = <<>>
  <2>1. Goto(c, "dropTurn") /\ UNCHANGED <<queue, history, batch>>
    BY <1>1, <1>2 DEF DrainQueue
  <2> QED
    BY <1>1, <2>1, CallGoesOn DEF UnmetPlaces, CarryPlaces, ExecPlaces
<1>3. CASE queue /= <<>>
  <2>1. /\ \A d \in Chats : pc'[d] = IF d = c THEN "drained" ELSE pc[d]
        /\ batch'[c] = queue /\ queue' = <<>>
    BY <1>1, <1>3 DEF DrainQueue, Drain, Goto, TypeOK, TypeOKChats
  <2>2. \A d \in Sends : pc[d] \notin LedgerPlaces
    BY <1>1 DEF PermitExclusion, LedgerPlaces, CarryPlaces, ExecPlaces,
                PermitPlaces, HolderPlaces, TurnPlaces
  <2>3. Hand = <<>> /\ BatchOf(Executors) = <<>>
    BY <2>2, NoneInTurn
  <2>4. (Carriers \cap Sends)' = {c} /\ Executors' = {}
    BY <1>1, <2>1, <2>2 DEF Carriers, Executors, LedgerPlaces, CarryPlaces,
                            ExecPlaces, Chats
  <2>5. TheOne({c}) = c
    BY ChooseOnly
  <2>6. Hand' = queue /\ BatchOf(Executors)' = <<>>
    BY <2>1, <2>4, <2>5 DEF Hand, BatchOf
  <2>7. Met' = Met
    BY <1>1, <2>1 DEF Met, UnmetPlaces, Chats
  <2>8. Ledger!TakeWaiting
    BY <1>1, <1>3, <2>1, <2>3, <2>6, <2>7 DEF Ledger!TakeWaiting, Ledger!Idle
  <2> QED
    BY <2>8 DEF LedgerStep, Ledger!NextLedger
<1> QED
  BY <1>2, <1>3

(* The batch of a send is stored as the prompts in hand; that of a          *)
(* send_sync is a prompt of the others.                                     *)
LEMMA AppendStores ==
  ASSUME TypeOK, PermitExclusion, OnceInv, NEW c \in Chats, AppendTurn(c)
  PROVE  LedgerStep
<1>1. pc[c] = "appending" /\ UNCHANGED <<queue, batch>>
  BY DEF AppendTurn
<1>2. CASE Len(history) /= Len(view[c])
  <2>1. Goto(c, Exit(c)) /\ UNCHANGED <<queue, history, batch>>
    BY <1>1, <1>2 DEF AppendTurn
  <2> QED
    BY <2>1, CallGoesOn DEF UnmetPlaces, CarryPlaces, ExecPlaces, Exit
<1>3. CASE Len(history) = Len(view[c])
  <2>1. /\ history' = history \o UserRecords(batch[c])
        /\ \A d \in Chats : pc'[d] = IF d = c THEN "confirming" ELSE pc[d]
    BY <1>3 DEF AppendTurn, Goto, TypeOK, TypeOKChats
  <2>2. Met' = Met
    BY <1>1, <2>1 DEF Met, UnmetPlaces, Chats
  <2>3. CASE c \in Sends
    <3>1. Hand = batch[c] /\ BatchOf(Executors) = <<>>
      BY <1>1, <2>3, HandOfCarrier DEF CarryPlaces
    <3>2. \A d \in Sends : pc[d] \in LedgerPlaces => d = c
      BY <1>1, <2>3, OneInTurn DEF LedgerPlaces, CarryPlaces
    <3>3. (Carriers \cap Sends)' = {} /\ Executors' = {c}
      BY <1>1, <2>1, <2>3, <3>2 DEF Carriers, Executors, LedgerPlaces,
                                    CarryPlaces, ExecPlaces, Chats
    <3>4. TheOne({c}) = c
      BY ChooseOnly
    <3>5. Hand' = <<>> /\ BatchOf(Executors)' = batch[c]
      BY <1>1, <3>3, <3>4 DEF Hand, BatchOf
    <3>6. batch[c] /= <<>>
      BY DEF TypeOK, TypeOKChats
    <3>7. UserRecords(batch[c])
            = [i \in DOMAIN batch[c] |-> Ledger!Prompt(batch[c][i])]
      BY DEF UserRecords, User, Ledger!Prompt
    <3>8. Ledger!Store
      BY <1>1, <2>1, <2>2, <3>1, <3>5, <3>6, <3>7 DEF Ledger!Store
    <3> QED
      BY <3>8 DEF LedgerStep, Ledger!NextLedger
  <2>4. CASE c \in Syncs
    <3>1. c \notin Sends
      BY <2>4, ChatTurnsAssumption
    <3>2. (Carriers \cap Sends)' = Carriers \cap Sends /\ Executors' = Executors
      BY <2>1, <3>1 DEF Carriers, Executors, Chats
    <3>3. UNCHANGED <<Hand, BatchOf(Executors)>>
      BY <1>1, <3>2 DEF Hand, BatchOf
    <3>4. batch[c] = <<c>> /\ history \in Seq(Records)
      BY <2>4 DEF OnceInv, OwnPrompts, TypeOK, TypeOKChats
    <3>5. UserRecords(batch[c]) = <<Ledger!Prompt(c)>>
      BY <3>4 DEF UserRecords, User, Ledger!Prompt
    <3>6. Ledger!Prompt(c) \in Records
      BY DEF Ledger!Prompt, Records, Chats
    <3>7. history' = Append(history, Ledger!Prompt(c))
      BY <2>1, <3>4, <3>5, <3>6, AppendIsConcat
    <3>8. Ledger!Overhear(c)
      BY <1>1, <2>2, <3>3, <3>7 DEF Ledger!Overhear
    <3> QED
      BY <2>4, <3>8 DEF LedgerStep, Ledger!NextLedger
  <2> QED
    BY <2>3, <2>4 DEF Chats
<1> QED
  BY <1>2, <1>3

(* A run writes for the turn that executes, or is one of the others'. *)
LEMMA RunSpeaks ==
  ASSUME TypeOK, PermitExclusion, OnceInv, NEW c \in Chats, RunAppends(c)
  PROVE  LedgerStep
<1>1. /\ pc[c] = "running" /\ UNCHANGED <<queue, batch, pc>>
      /\ history' = Append(history, Ledger!Answer(Run(c)))
  BY DEF RunAppends, Output, Ledger!Answer
<1>2. UNCHANGED <<Met, Hand, BatchOf(Executors)>>
  BY <1>1 DEF Met, Hand, BatchOf, Carriers, Executors
<1>3. CASE c \in Sends
  <2>1. BatchOf(Executors) = batch[c] /\ batch[c] /= <<>>
    BY <1>1, <1>3, TurnOfExecutor DEF ExecPlaces, TypeOK, TypeOKChats
  <2>2. Ledger!Speak
    BY <1>1, <1>2, <2>1 DEF Ledger!Speak, Run
  <2> QED
    BY <2>2 DEF LedgerStep, Ledger!NextLedger
<1>4. CASE c \in Syncs
  <2>1. Run(c) = c
    BY <1>4 DEF Run, OnceInv, OwnPrompts
  <2>2. Ledger!Overhear(c)
    BY <1>1, <1>2, <2>1 DEF Ledger!Overhear
  <2> QED
    BY <1>4, <2>2 DEF LedgerStep, Ledger!NextLedger
<1> QED
  BY <1>3, <1>4 DEF Chats

(* The removal of a row withdraws its prompt. *)
LEMMA RemoveWithdraws ==
  ASSUME NEW p \in Sends, RemoveQueued(p) PROVE LedgerStep
<1>1. Remove(p) /\ UNCHANGED <<history, batch, pc>>
  BY DEF RemoveQueued, chatVars
<1>2. UNCHANGED <<Met, Hand, BatchOf(Executors)>>
  BY <1>1 DEF Met, Hand, BatchOf, Carriers, Executors
<1>3. Ledger!Withdraw(p)
  BY <1>1, <1>2 DEF Remove, Ledger!Withdraw
<1> QED
  BY <1>3 DEF LedgerStep, Ledger!NextLedger

(* A stop clears the queue when no turn of a send is under way. *)
LEMMA StopClears ==
  ASSUME StopInv, NEW s \in Stoppers, StopClear(s) PROVE LedgerStep
<1>1. /\ spc[s] = "clearing" /\ UNCHANGED <<history, batch, pc>>
      /\ queue' \in {<<>>, queue}
  BY DEF StopClear, Clear, untouchedByStops, chatVars
<1>2. UNCHANGED <<Met, Hand, BatchOf(Executors)>>
  BY <1>1 DEF Met, Hand, BatchOf, Carriers, Executors
<1>3. CASE queue' = queue
  BY <1>1, <1>3, LedgerStutters
<1>4. CASE queue' = <<>>
  <2>1. permitHolders = 0
    BY <1>1 DEF StopInv, StopIdle, Quiet, GateIdle
  <2>2. Holders = {}
    BY <2>1, CallSetsFinite, FS_EmptySet DEF StopInv, HoldersCounted
  <2>3. \A d \in Sends : pc[d] \notin LedgerPlaces
    BY <2>2 DEF Holders, HolderPlaces, TurnPlaces, LedgerPlaces, CarryPlaces,
                ExecPlaces
  <2>4. Hand = <<>> /\ BatchOf(Executors) = <<>>
    BY <2>3, NoneInTurn
  <2>5. Ledger!ClearWaiting
    BY <1>1, <1>2, <1>4, <2>4 DEF Ledger!ClearWaiting, Ledger!Idle
  <2> QED
    BY <2>5 DEF LedgerStep, Ledger!NextLedger
<1> QED
  BY <1>1, <1>3, <1>4

(* A truncation cuts the journal under the permit. *)
LEMMA MutationCuts ==
  ASSUME TypeOK, PermitExclusion, NEW m \in Mutators, Mutate(m)
  PROVE  LedgerStep
<1>1. mpc[m] = "mutating" /\ UNCHANGED <<queue, batch, pc>>
  BY DEF Mutate, untouchedByMutations
<1>2. UNCHANGED <<Met, Hand, BatchOf(Executors)>>
  BY <1>1 DEF Met, Hand, BatchOf, Carriers, Executors
<1>3. CASE m \notin Truncators
  BY <1>1, <1>3, LedgerStutters DEF Mutate
<1>4. CASE m \in Truncators
  <2>1. turn = m /\ \A d \in Sends : d /= m
    BY <1>1, ChatTurnsAssumption DEF PermitExclusion, Chats
  <2>2. \A d \in Sends : pc[d] \notin LedgerPlaces
    BY <2>1 DEF PermitExclusion, LedgerPlaces, CarryPlaces, ExecPlaces,
                PermitPlaces, HolderPlaces, TurnPlaces
  <2>3. Hand = <<>> /\ BatchOf(Executors) = <<>>
    BY <2>2, NoneInTurn
  <2>4. Ledger!Cut
    BY <1>1, <1>2, <1>4, <2>3 DEF Mutate, Ledger!Cut, Ledger!Idle
  <2> QED
    BY <2>4 DEF LedgerStep, Ledger!NextLedger
<1> QED
  BY <1>3, <1>4

LEMMA ClearForgets ==
  ASSUME ClearChat PROVE LedgerStep
<1>1. history' = <<>> /\ UNCHANGED <<queue, batch, pc>>
  BY DEF ClearChat
<1>2. UNCHANGED <<Met, Hand, BatchOf(Executors)>>
  BY <1>1 DEF Met, Hand, BatchOf, Carriers, Executors
<1>3. Ledger!Forget
  BY <1>1, <1>2 DEF Ledger!Forget
<1> QED
  BY <1>3 DEF LedgerStep, Ledger!NextLedger

(* A restart ends the turn and the calls that have begun. *)
LEMMA CrashEnds ==
  ASSUME TypeOK, Crash PROVE LedgerStep
<1> DEFINE S == {c \in Sends : pc[c] /= "new"}
<1>1. /\ UNCHANGED <<queue, history, batch>>
      /\ \A c \in Chats : pc'[c] = IF pc[c] = "new" THEN "new" ELSE "done"
  BY DEF Crash
<1>2. \A d \in Sends : pc'[d] \notin LedgerPlaces
  BY <1>1 DEF LedgerPlaces, CarryPlaces, ExecPlaces, Chats
<1>3. Hand' = <<>> /\ BatchOf(Executors)' = <<>>
  BY <1>2 DEF Hand, BatchOf, Executors, Carriers, LedgerPlaces, CarryPlaces,
              ExecPlaces
<1>4. Met' = Met \cup S
  BY <1>1 DEF Met, UnmetPlaces, Chats
<1>5. Ledger!End(S)
  BY <1>1, <1>3, <1>4 DEF Ledger!End
<1>6. S \in SUBSET Sends
  OBVIOUS
<1> QED
  BY <1>5, <1>6 DEF LedgerStep, Ledger!NextLedger

-----------------------------------------------------------------------------
(* The refinement. *)

LEMMA LedgerSteps ==
  ASSUME StopInv, PermitExclusion, OnceInv, [Next]_vars PROVE LedgerStep
<1> USE DEF StopInv
<1>1. ASSUME NEW c \in Chats,
             SendBegin(c) \/ SendRefused(c) \/ LoadHistory(c) \/ Confirm(c)
             \/ Activate(c) \/ Publish(c) \/ Finish(c) \/ UnsetActive(c)
             \/ DropGuard(c) \/ StartFails(c) \/ PrepareFails(c)
             \/ CallDropped(c) \/ RunDies(c)
             \/ (\E t \in Terminals : RunEnds(c, t))
      PROVE  LedgerStep
  <2>1. PICK l : /\ Goto(c, l)
                 /\ l \in CarryPlaces => pc[c] \in CarryPlaces \/ c \notin Sends
                 /\ l \in ExecPlaces => pc[c] \in ExecPlaces
                 /\ l \in UnmetPlaces => pc[c] \in UnmetPlaces
    BY <1>1 DEF SendBegin, SendRefused, LoadHistory, Confirm, Activate, Publish,
           Finish, UnsetActive, DropGuard, StartFails, PrepareFails, CallDropped,
           RunDies, RunEnds, Exit, CarryPlaces, ExecPlaces, UnmetPlaces
  <2>2. UNCHANGED <<queue, history, batch>>
    BY <1>1 DEF SendBegin, SendRefused, LoadHistory, Confirm, Activate, Publish,
           Finish, UnsetActive, DropGuard, StartFails, PrepareFails, CallDropped,
           RunDies, RunEnds
  <2> QED
    BY <2>1, <2>2, CallGoesOn
<1>2. ASSUME NEW c \in Sends,
             AcquireTurn(c) \/ EnqueueBegin(c) \/ EnqueueFails(c)
             \/ FinishEnqueue(c) \/ DropUnattached(c) \/ CheckSuppressed(c)
             \/ DrainFails(c) \/ StartQueuedBatch(c) \/ OwnerDropsTurn(c)
             \/ OwnerDropsHolder(c)
      PROVE  LedgerStep
  <2>1. PICK l : /\ Goto(c, l)
                 /\ l \in CarryPlaces => pc[c] \in CarryPlaces
                 /\ l \in ExecPlaces => pc[c] \in ExecPlaces
                 /\ l \in UnmetPlaces => pc[c] \in UnmetPlaces
    BY <1>2 DEF AcquireTurn, EnqueueBegin, EnqueueFails, FinishEnqueue,
           DropUnattached, CheckSuppressed, DrainFails, StartQueuedBatch,
           OwnerDropsTurn, OwnerDropsHolder, CarryPlaces, ExecPlaces, UnmetPlaces
  <2>2. UNCHANGED <<queue, history, batch>>
    BY <1>2 DEF AcquireTurn, EnqueueBegin, EnqueueFails, FinishEnqueue,
           DropUnattached, CheckSuppressed, DrainFails, StartQueuedBatch,
           OwnerDropsTurn, OwnerDropsHolder
  <2> QED
    BY <2>1, <2>2, CallGoesOn DEF Chats
<1>3. ASSUME NEW c \in Chats,
             FinaliseRun(c) \/ FinaliseActive(c) \/ StopRun(c)
      PROVE  LedgerStep
  BY <1>3, LedgerStutters DEF FinaliseRun, FinaliseActive, StopRun,
         untouchedByStops, chatVars
<1>4. ASSUME NEW s \in Stoppers,
             (\E e \in Chats \cup {None} : StopChoose(s, e))
             \/ (\E e \in Chats \cup {None} : StopMismatch(s, e))
             \/ StopLook(s) \/ StopCapture(s) \/ StopAwait(s)
             \/ StopSnapshot(s) \/ StopWake(s) \/ StopRecheck(s)
             \/ StopEnd(s) \/ StopDropped(s)
      PROVE  LedgerStep
  BY <1>4, LedgerStutters DEF StopChoose, StopMismatch, StopLook, StopCapture,
         StopAwait, StopSnapshot, StopWake, StopRecheck, StopEnd, StopDropped,
         untouchedByStops, chatVars
<1>5. ASSUME NEW m \in Mutators,
             Reserve(m) \/ MutationStopped(m) \/ Acquire(m)
             \/ MutationDropsGate(m) \/ MutationDropsTurn(m)
      PROVE  LedgerStep
  BY <1>5, LedgerStutters DEF Reserve, MutationStopped, Acquire,
         MutationDropsGate, MutationDropsTurn, untouchedByMutations
<1>6. ASSUME NEW w \in Waiters,
             WaitSubscribe(w) \/ WaitReadTerminal(w) \/ WaitReadActive(w)
             \/ WaitChanged(w)
      PROVE  LedgerStep
  BY <1>6, LedgerStutters DEF WaitSubscribe, WaitReadTerminal, WaitReadActive,
         WaitChanged, untouchedByWaits, chatVars
<1>7. CASE UNCHANGED vars
  BY <1>7, LedgerStutters DEF vars, chatVars
<1> QED
  BY <1>1, <1>2, <1>3, <1>4, <1>5, <1>6, <1>7, AttachTakes, EnqueueWaits,
     DrainTakes, AppendStores, RunSpeaks, RemoveWithdraws, StopClears,
     MutationCuts, ClearForgets, CrashEnds
     DEF Next, SendStep, TurnStep, SendFails, TurnFails, FinaliserStep, StopStep,
         MutationStep, WaitStep, AllReturned

LEMMA LedgerInit == Init => Ledger!InitLedger
BY DEF Init, InitQueue, Ledger!InitLedger, Met, UnmetPlaces, Hand, BatchOf,
       Carriers, Executors, Chats

(* A session implements the ledger of its prompts, whatever calls are made, *)
(* fail, overlap or are cut off by a restart: the turns of the sends are    *)
(* one at a time, a batch leaves the queue whole, is stored whole and in    *)
(* order or lost whole, and only the turn that executes writes, beside the  *)
(* send_syncs, which the ledger counts among the others.                    *)
THEOREM SessionImplementsLedger == Spec => ImplementsLedger
<1>1. StopInv /\ PermitExclusion /\ OnceInv /\ [Next]_vars
        => [Ledger!NextLedger]_(Ledger!ledgerVars)
  BY LedgerSteps DEF LedgerStep
<1> QED
  BY <1>1, LedgerInit, StopInvariant, PermitExcludes, OnceInvariant, PTL
     DEF Spec, ImplementsLedger, Ledger!LedgerSpec
=============================================================================
