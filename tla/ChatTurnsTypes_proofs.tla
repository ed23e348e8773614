----------------------- MODULE ChatTurnsTypes_proofs ------------------------
(***************************************************************************)
(* ChatTurns keeps its types, for any sets of calls, faults and user       *)
(* operations.  Each step is first shown to be a step of every component,  *)
(* so the types of a component follow from the component alone.  The turn  *)
(* permit of a session belongs to the send or the mutation in a place that *)
(* owns it.                                                                *)
(***************************************************************************)
EXTENDS ChatTurns, FiniteSetTheorems, SequenceTheorems, TLAPS

-----------------------------------------------------------------------------
(* Types. *)

(* A batch is not empty, so its run is named by one of its prompts. *)
LEMMA RunType ==
  ASSUME NEW c \in Chats, TypeOKChats
  PROVE  Run(c) \in Chats
BY DEF TypeOKChats, Run

(* A batch becomes a sequence of journal records. *)
LEMMA UserRecordsType ==
  ASSUME NEW b \in Seq(Chats)
  PROVE  UserRecords(b) \in Seq(Records)
<1>1. DOMAIN b = 1..Len(b) /\ Len(b) \in Nat
  OBVIOUS
<1>2. ASSUME NEW i \in 1..Len(b) PROVE User(b[i]) \in Records
  BY <1>1 DEF User, Records
<1> QED
  BY <1>1, <1>2, SeqDef DEF UserRecords

(* Each step of a session is, for the stop gate, one of the gate's own      *)
(* operations or nothing; so for the other components below.                *)
LEMMA GateSteps == TypeOK /\ [Next]_vars => [GateNext]_gateVars
<1> SUFFICES ASSUME TypeOK, [Next]_vars PROVE [GateNext]_gateVars
  OBVIOUS
<1> USE DEF TypeOK
<1>1. ASSUME NEW c \in Chats,
             SendRefused(c) \/ LoadHistory(c) \/ AppendTurn(c)
             \/ Activate(c) \/ UnsetActive(c) \/ StartFails(c)
             \/ PrepareFails(c) \/ CallDropped(c) \/ RunDies(c)
             \/ FinaliseActive(c) \/ RunAppends(c)
             \/ (\E t \in Terminals : RunEnds(c, t))
      PROVE  [GateNext]_gateVars
  BY <1>1 DEF gateVars, SendRefused, LoadHistory, AppendTurn, Activate,
         UnsetActive, StartFails, PrepareFails, CallDropped, RunDies,
         FinaliseActive, RunAppends, RunEnds
<1>2. ASSUME NEW c \in Sends,
             AcquireTurn(c) \/ EnqueueCommit(c) \/ DropUnattached(c)
             \/ CheckSuppressed(c) \/ DrainQueue(c)
             \/ OwnerDropsTurn(c) \/ EnqueueFails(c) \/ DrainFails(c)
             \/ RemoveQueued(c)
      PROVE  [GateNext]_gateVars
  BY <1>2 DEF gateVars, AcquireTurn, EnqueueCommit, DropUnattached,
         CheckSuppressed, DrainQueue, OwnerDropsTurn, EnqueueFails,
         DrainFails, RemoveQueued
<1>3. ASSUME NEW s \in Stoppers,
             (\E e \in Chats \cup {None} : StopMismatch(s, e))
             \/ StopAwait(s) \/ StopSnapshot(s) \/ StopWake(s)
             \/ StopClear(s) \/ StopRecheck(s) \/ StopDropped(s)
      PROVE  [GateNext]_gateVars
  BY <1>3 DEF gateVars, StopMismatch, StopAwait, StopSnapshot, StopWake,
         StopClear, StopRecheck, StopDropped
<1>4. ASSUME NEW m \in Mutators,
             Reserve(m) \/ MutationStopped(m) \/ Acquire(m)
             \/ Mutate(m) \/ MutationDropsGate(m)
             \/ MutationDropsTurn(m)
      PROVE  [GateNext]_gateVars
  BY <1>4 DEF gateVars, untouchedByMutations, Reserve, MutationStopped,
         Acquire, Mutate, MutationDropsGate, MutationDropsTurn
<1>5. ASSUME NEW w \in Waiters,
             WaitSubscribe(w) \/ WaitReadTerminal(w)
             \/ WaitReadActive(w) \/ WaitChanged(w)
      PROVE  [GateNext]_gateVars
  BY <1>5 DEF gateVars, untouchedByWaits, WaitSubscribe, WaitReadTerminal,
         WaitReadActive, WaitChanged
<1>6. ASSUME ClearChat
      PROVE  [GateNext]_gateVars
  BY <1>6 DEF gateVars, ClearChat
<1>7. ASSUME NEW c \in Chats, SendBegin(c) PROVE [GateNext]_gateVars
  BY <1>7 DEF GateNext, SendBegin
<1>8. ASSUME NEW c \in Chats, Confirm(c) PROVE [GateNext]_gateVars
  BY <1>8 DEF GateNext, ConfirmStart, RefuseCancelled, gateVars, Confirm
<1>9. ASSUME NEW c \in Chats, Publish(c) PROVE [GateNext]_gateVars
  BY <1>9, RunType DEF GateNext, Publish
<1>10. ASSUME NEW c \in Chats, Finish(c) PROVE [GateNext]_gateVars
  BY <1>10, RunType DEF GateNext, Finish
<1>11. ASSUME NEW c \in Chats, DropGuard(c) PROVE [GateNext]_gateVars
  BY <1>11 DEF GateNext, gateVars, DropGuard
<1>12. ASSUME NEW c \in Chats, FinaliseRun(c) PROVE [GateNext]_gateVars
  BY <1>12, RunType DEF GateNext, FinaliseRun
<1>13. ASSUME NEW c \in Chats, StopRun(c) PROVE [GateNext]_gateVars
  BY <1>13 DEF GateNext, StopRun
<1>14. ASSUME NEW c \in Sends, EnqueueBegin(c) PROVE [GateNext]_gateVars
  BY <1>14 DEF GateNext, RefuseCancelled, Chats, EnqueueBegin
<1>15. ASSUME NEW c \in Sends, FinishEnqueue(c) PROVE [GateNext]_gateVars
  BY <1>15 DEF GateNext, Chats, FinishEnqueue
<1>16. ASSUME NEW c \in Sends, Attach(c) PROVE [GateNext]_gateVars
  BY <1>16 DEF GateNext, RefuseCancelled, Chats, Attach
<1>17. ASSUME NEW c \in Sends, StartQueuedBatch(c) PROVE [GateNext]_gateVars
  BY <1>17 DEF GateNext, gateVars, Chats, StartQueuedBatch
<1>18. ASSUME NEW c \in Sends, OwnerDropsHolder(c) PROVE [GateNext]_gateVars
  BY <1>18 DEF GateNext, Chats, OwnerDropsHolder
<1>19. ASSUME NEW s \in Stoppers, NEW e \in Chats \cup {None}, StopChoose(s, e)
       PROVE  [GateNext]_gateVars
  BY <1>19 DEF GateNext, StopChoose
<1>20. ASSUME NEW s \in Stoppers, StopLook(s) PROVE [GateNext]_gateVars
  BY <1>20 DEF GateNext, StopLook
<1>21. ASSUME NEW s \in Stoppers, StopCapture(s) PROVE [GateNext]_gateVars
  BY <1>21 DEF GateNext, TypeOKGate, gateVars, StopCapture
<1>22. ASSUME NEW s \in Stoppers, StopEnd(s) PROVE [GateNext]_gateVars
  BY <1>22 DEF GateNext, StopEnd
<1>23. ASSUME Crash PROVE [GateNext]_gateVars
  BY <1>23 DEF GateNext, Crash
<1>24. CASE UNCHANGED vars
  BY <1>24 DEF vars, gateVars
<1> QED
  BY <1>1, <1>2, <1>3, <1>4, <1>5, <1>6, <1>7, <1>8, <1>9, <1>10, <1>11,
     <1>12, <1>13, <1>14, <1>15, <1>16, <1>17, <1>18, <1>19, <1>20, <1>21,
     <1>22, <1>23, <1>24
     DEF Next, SendStep, TurnStep, SendFails, TurnFails, FinaliserStep, StopStep,
         MutationStep, WaitStep, AllReturned

(* What a step does to the session's locks is a step of the coordinator. *)
LEMMA MutationSteps == TypeOK /\ [Next]_vars => [MutationNext]_mutationVars
<1> SUFFICES ASSUME TypeOK, [Next]_vars PROVE [MutationNext]_mutationVars
  OBVIOUS
<1> USE DEF TypeOK
<1>1. ASSUME NEW c \in Chats,
             SendBegin(c) \/ SendRefused(c) \/ LoadHistory(c)
             \/ AppendTurn(c) \/ Confirm(c) \/ Activate(c)
             \/ Publish(c) \/ Finish(c) \/ UnsetActive(c)
             \/ DropGuard(c) \/ StartFails(c) \/ PrepareFails(c)
             \/ CallDropped(c) \/ RunDies(c) \/ FinaliseRun(c)
             \/ FinaliseActive(c) \/ RunAppends(c)
             \/ (\E t \in Terminals : RunEnds(c, t)) \/ StopRun(c)
      PROVE  [MutationNext]_mutationVars
  BY <1>1 DEF mutationVars, untouchedByStops, SendBegin, SendRefused,
         LoadHistory, AppendTurn, Confirm, Activate, Publish, Finish,
         UnsetActive, DropGuard, StartFails, PrepareFails, CallDropped,
         RunDies, FinaliseRun, FinaliseActive, RunAppends, RunEnds, StopRun
<1>2. ASSUME NEW c \in Sends,
             EnqueueBegin(c) \/ EnqueueCommit(c) \/ FinishEnqueue(c)
             \/ Attach(c) \/ CheckSuppressed(c) \/ DrainQueue(c)
             \/ StartQueuedBatch(c) \/ OwnerDropsHolder(c)
             \/ EnqueueFails(c) \/ DrainFails(c) \/ RemoveQueued(c)
      PROVE  [MutationNext]_mutationVars
  BY <1>2 DEF mutationVars, EnqueueBegin, EnqueueCommit, FinishEnqueue,
         Attach, CheckSuppressed, DrainQueue, StartQueuedBatch,
         OwnerDropsHolder, EnqueueFails, DrainFails, RemoveQueued
<1>3. ASSUME NEW s \in Stoppers,
             (\E e \in Chats \cup {None} : StopChoose(s, e))
             \/ (\E e \in Chats \cup {None} : StopMismatch(s, e))
             \/ StopLook(s) \/ StopCapture(s) \/ StopAwait(s)
             \/ StopSnapshot(s) \/ StopWake(s) \/ StopClear(s)
             \/ StopRecheck(s) \/ StopEnd(s) \/ StopDropped(s)
      PROVE  [MutationNext]_mutationVars
  BY <1>3 DEF mutationVars, untouchedByStops, StopChoose, StopMismatch,
         StopLook, StopCapture, StopAwait, StopSnapshot, StopWake, StopClear,
         StopRecheck, StopEnd, StopDropped
<1>4. ASSUME NEW m \in Mutators,
             MutationStopped(m) \/ Mutate(m)
      PROVE  [MutationNext]_mutationVars
  BY <1>4 DEF mutationVars, MutationStopped, Mutate
<1>5. ASSUME NEW w \in Waiters,
             WaitSubscribe(w) \/ WaitReadTerminal(w)
             \/ WaitReadActive(w) \/ WaitChanged(w)
      PROVE  [MutationNext]_mutationVars
  BY <1>5 DEF mutationVars, untouchedByWaits, WaitSubscribe,
         WaitReadTerminal, WaitReadActive, WaitChanged
<1>6. ASSUME ClearChat
      PROVE  [MutationNext]_mutationVars
  BY <1>6 DEF mutationVars, ClearChat
<1>7. ASSUME NEW c \in Sends, AcquireTurn(c) PROVE [MutationNext]_mutationVars
  BY <1>7 DEF MutationNext, mutationVars, AcquireTurn
<1>8. ASSUME NEW c \in Sends, DropUnattached(c)
      PROVE  [MutationNext]_mutationVars
  BY <1>8 DEF MutationNext, DropUnattached
<1>9. ASSUME NEW c \in Sends, OwnerDropsTurn(c)
      PROVE  [MutationNext]_mutationVars
  BY <1>9 DEF MutationNext, OwnerDropsTurn
<1>10. ASSUME NEW m \in Mutators, Reserve(m) PROVE [MutationNext]_mutationVars
  BY <1>10 DEF MutationNext, Reserve
<1>11. ASSUME NEW m \in Mutators, Acquire(m) PROVE [MutationNext]_mutationVars
  BY <1>11 DEF MutationNext, Acquire
<1>12. ASSUME NEW m \in Mutators, MutationDropsGate(m)
       PROVE  [MutationNext]_mutationVars
  BY <1>12 DEF MutationNext, MutationDropsGate
<1>13. ASSUME NEW m \in Mutators, MutationDropsTurn(m)
       PROVE  [MutationNext]_mutationVars
  BY <1>13 DEF MutationNext, MutationDropsTurn
<1>14. ASSUME Crash PROVE [MutationNext]_mutationVars
  BY <1>14 DEF MutationNext, Crash
<1>15. CASE UNCHANGED vars
  BY <1>15 DEF vars, mutationVars
<1> QED
  BY <1>1, <1>2, <1>3, <1>4, <1>5, <1>6, <1>7, <1>8, <1>9, <1>10, <1>11,
     <1>12, <1>13, <1>14, <1>15
     DEF Next, SendStep, TurnStep, SendFails, TurnFails, FinaliserStep, StopStep,
         MutationStep, WaitStep, AllReturned

(* What a step does to the rows is one command of the queue service. *)
LEMMA QueueSteps == TypeOK /\ [Next]_vars => [QueueNext]_queue
<1> SUFFICES ASSUME TypeOK, [Next]_vars PROVE [QueueNext]_queue
  OBVIOUS
<1> USE DEF TypeOK
<1>1. ASSUME NEW c \in Chats,
             SendBegin(c) \/ SendRefused(c) \/ LoadHistory(c)
             \/ AppendTurn(c) \/ Confirm(c) \/ Activate(c)
             \/ Publish(c) \/ Finish(c) \/ UnsetActive(c)
             \/ DropGuard(c) \/ StartFails(c) \/ PrepareFails(c)
             \/ CallDropped(c) \/ RunDies(c) \/ FinaliseRun(c)
             \/ FinaliseActive(c) \/ RunAppends(c)
             \/ (\E t \in Terminals : RunEnds(c, t)) \/ StopRun(c)
      PROVE  [QueueNext]_queue
  BY <1>1 DEF SendBegin, SendRefused, LoadHistory, AppendTurn, Confirm,
         Activate, Publish, Finish, UnsetActive, DropGuard, StartFails,
         PrepareFails, CallDropped, RunDies, FinaliseRun, FinaliseActive,
         RunAppends, RunEnds, StopRun
<1>2. ASSUME NEW c \in Sends,
             AcquireTurn(c) \/ EnqueueBegin(c) \/ FinishEnqueue(c)
             \/ Attach(c) \/ DropUnattached(c) \/ CheckSuppressed(c)
             \/ StartQueuedBatch(c) \/ OwnerDropsTurn(c)
             \/ OwnerDropsHolder(c) \/ EnqueueFails(c) \/ DrainFails(c)
      PROVE  [QueueNext]_queue
  BY <1>2 DEF AcquireTurn, EnqueueBegin, FinishEnqueue, Attach,
         DropUnattached, CheckSuppressed, StartQueuedBatch, OwnerDropsTurn,
         OwnerDropsHolder, EnqueueFails, DrainFails
<1>3. ASSUME NEW s \in Stoppers,
             (\E e \in Chats \cup {None} : StopChoose(s, e))
             \/ (\E e \in Chats \cup {None} : StopMismatch(s, e))
             \/ StopLook(s) \/ StopCapture(s) \/ StopAwait(s)
             \/ StopSnapshot(s) \/ StopWake(s) \/ StopRecheck(s)
             \/ StopEnd(s) \/ StopDropped(s)
      PROVE  [QueueNext]_queue
  BY <1>3 DEF StopChoose, StopMismatch, StopLook, StopCapture, StopAwait,
         StopSnapshot, StopWake, StopRecheck, StopEnd, StopDropped
<1>4. ASSUME NEW m \in Mutators,
             Reserve(m) \/ MutationStopped(m) \/ Acquire(m)
             \/ Mutate(m) \/ MutationDropsGate(m)
             \/ MutationDropsTurn(m)
      PROVE  [QueueNext]_queue
  BY <1>4 DEF untouchedByMutations, Reserve, MutationStopped, Acquire,
         Mutate, MutationDropsGate, MutationDropsTurn
<1>5. ASSUME NEW w \in Waiters,
             WaitSubscribe(w) \/ WaitReadTerminal(w)
             \/ WaitReadActive(w) \/ WaitChanged(w)
      PROVE  [QueueNext]_queue
  BY <1>5 DEF untouchedByWaits, WaitSubscribe, WaitReadTerminal,
         WaitReadActive, WaitChanged
<1>6. ASSUME ClearChat \/ Crash
      PROVE  [QueueNext]_queue
  BY <1>6 DEF ClearChat, Crash
<1>7. ASSUME NEW c \in Sends, EnqueueCommit(c) PROVE [QueueNext]_queue
  BY <1>7 DEF QueueNext, EnqueueCommit
<1>8. ASSUME NEW c \in Sends, DrainQueue(c) PROVE [QueueNext]_queue
  BY <1>8 DEF QueueNext, DrainQueue
<1>9. ASSUME NEW c \in Sends, RemoveQueued(c) PROVE [QueueNext]_queue
  BY <1>9 DEF QueueNext, RemoveQueued
<1>10. ASSUME NEW s \in Stoppers, StopClear(s) PROVE [QueueNext]_queue
  BY <1>10 DEF QueueNext, StopClear
<1>11. CASE UNCHANGED vars
  BY <1>11 DEF vars
<1> QED
  BY <1>1, <1>2, <1>3, <1>4, <1>5, <1>6, <1>7, <1>8, <1>9, <1>10, <1>11
     DEF Next, SendStep, TurnStep, SendFails, TurnFails, FinaliserStep, StopStep,
         MutationStep, WaitStep, AllReturned

(* What a step does to the terminal is a step of the registry. *)
LEMMA SessionGateSteps == TypeOK /\ [Next]_vars => [SessionGateNext]_sessionGateVars
<1> SUFFICES ASSUME TypeOK, [Next]_vars PROVE [SessionGateNext]_sessionGateVars
  OBVIOUS
<1> USE DEF TypeOK
<1>1. ASSUME NEW c \in Chats,
             SendBegin(c) \/ SendRefused(c) \/ LoadHistory(c)
             \/ AppendTurn(c) \/ Confirm(c) \/ Publish(c) \/ Finish(c)
             \/ DropGuard(c) \/ StartFails(c) \/ CallDropped(c)
             \/ RunDies(c) \/ FinaliseRun(c) \/ RunAppends(c)
             \/ StopRun(c)
      PROVE  [SessionGateNext]_sessionGateVars
  BY <1>1 DEF sessionGateVars, untouchedByStops, SendBegin, SendRefused,
         LoadHistory, AppendTurn, Confirm, Publish, Finish, DropGuard,
         StartFails, CallDropped, RunDies, FinaliseRun, RunAppends, StopRun
<1>2. ASSUME NEW c \in Sends,
             AcquireTurn(c) \/ EnqueueBegin(c) \/ EnqueueCommit(c)
             \/ FinishEnqueue(c) \/ Attach(c) \/ DropUnattached(c)
             \/ CheckSuppressed(c) \/ DrainQueue(c)
             \/ StartQueuedBatch(c) \/ OwnerDropsTurn(c)
             \/ OwnerDropsHolder(c) \/ EnqueueFails(c) \/ DrainFails(c)
             \/ RemoveQueued(c)
      PROVE  [SessionGateNext]_sessionGateVars
  BY <1>2 DEF sessionGateVars, AcquireTurn, EnqueueBegin, EnqueueCommit,
         FinishEnqueue, Attach, DropUnattached, CheckSuppressed, DrainQueue,
         StartQueuedBatch, OwnerDropsTurn, OwnerDropsHolder, EnqueueFails,
         DrainFails, RemoveQueued
<1>3. ASSUME NEW s \in Stoppers,
             (\E e \in Chats \cup {None} : StopChoose(s, e))
             \/ (\E e \in Chats \cup {None} : StopMismatch(s, e))
             \/ StopLook(s) \/ StopCapture(s) \/ StopAwait(s)
             \/ StopSnapshot(s) \/ StopWake(s) \/ StopClear(s)
             \/ StopRecheck(s) \/ StopEnd(s) \/ StopDropped(s)
      PROVE  [SessionGateNext]_sessionGateVars
  BY <1>3 DEF sessionGateVars, untouchedByStops, StopChoose, StopMismatch,
         StopLook, StopCapture, StopAwait, StopSnapshot, StopWake, StopClear,
         StopRecheck, StopEnd, StopDropped
<1>4. ASSUME NEW m \in Mutators,
             Reserve(m) \/ MutationStopped(m) \/ Acquire(m)
             \/ Mutate(m) \/ MutationDropsGate(m)
             \/ MutationDropsTurn(m)
      PROVE  [SessionGateNext]_sessionGateVars
  BY <1>4 DEF sessionGateVars, untouchedByMutations, Reserve,
         MutationStopped, Acquire, Mutate, MutationDropsGate,
         MutationDropsTurn
<1>5. ASSUME NEW w \in Waiters,
             WaitReadTerminal(w) \/ WaitReadActive(w)
      PROVE  [SessionGateNext]_sessionGateVars
  BY <1>5 DEF sessionGateVars, WaitReadTerminal, WaitReadActive
<1>6. ASSUME NEW c \in Chats, Activate(c)
      PROVE  [SessionGateNext]_sessionGateVars
  BY <1>6 DEF SessionGateNext, Activate
<1>7. ASSUME NEW c \in Chats, UnsetActive(c)
      PROVE  [SessionGateNext]_sessionGateVars
  BY <1>7 DEF SessionGateNext, UnsetActive
<1>8. ASSUME NEW c \in Chats, PrepareFails(c)
      PROVE  [SessionGateNext]_sessionGateVars
  BY <1>8 DEF SessionGateNext, PrepareFails
<1>9. ASSUME NEW c \in Chats, FinaliseActive(c)
      PROVE  [SessionGateNext]_sessionGateVars
  BY <1>9 DEF SessionGateNext, Terminals, FinaliseActive
<1>10. ASSUME NEW c \in Chats, NEW t \in Terminals, RunEnds(c, t)
       PROVE  [SessionGateNext]_sessionGateVars
  BY <1>10 DEF SessionGateNext, RunEnds
<1>11. ASSUME NEW w \in Waiters, WaitSubscribe(w)
       PROVE  [SessionGateNext]_sessionGateVars
  BY <1>11 DEF SessionGateNext, WaitSubscribe
<1>12. ASSUME NEW w \in Waiters, WaitChanged(w)
       PROVE  [SessionGateNext]_sessionGateVars
  BY <1>12 DEF SessionGateNext, WaitChanged
<1>13. ASSUME ClearChat PROVE [SessionGateNext]_sessionGateVars
  BY <1>13 DEF SessionGateNext, ClearChat
<1>14. ASSUME Crash PROVE [SessionGateNext]_sessionGateVars
  BY <1>14 DEF SessionGateNext, Crash
<1>15. CASE UNCHANGED vars
  BY <1>15 DEF vars, sessionGateVars
<1> QED
  BY <1>1, <1>2, <1>3, <1>4, <1>5, <1>6, <1>7, <1>8, <1>9, <1>10, <1>11,
     <1>12, <1>13, <1>14, <1>15
     DEF Next, SendStep, TurnStep, SendFails, TurnFails, FinaliserStep, StopStep,
         MutationStep, WaitStep, AllReturned

(* The components keep their types. *)
LEMMA MutationTypes ==
  TypeOKMutations /\ [MutationNext]_mutationVars => TypeOKMutations'
BY DEF TypeOKMutations, MutationNext, mutationVars, TryAcquireTurn, DropTurn,
       ReserveMutation, AcquireMutation, DropGate, RestartMutations

(* The commands of the queue service keep the rows a sequence of sends. *)
LEMMA QueueTypes == TypeOKQueue /\ [QueueNext]_queue => TypeOKQueue'
<1> SUFFICES ASSUME TypeOKQueue, [QueueNext]_queue PROVE TypeOKQueue'
  OBVIOUS
<1>1. ASSUME NEW p \in Sends, Enqueue(p) PROVE TypeOKQueue'
  BY <1>1 DEF TypeOKQueue, Enqueue
<1>2. ASSUME NEW p \in Sends, Remove(p) PROVE TypeOKQueue'
  <2>1. PICK i \in DOMAIN queue :
          queue' = SubSeq(queue, 1, i - 1) \o SubSeq(queue, i + 1, Len(queue))
    BY <1>2 DEF Remove
  <2>2. i \in 1..Len(queue) /\ Len(queue) \in Nat
    BY DEF TypeOKQueue
  <2>3. SubSeq(queue, 1, i - 1) \in Seq(Sends)
    BY <2>2, SubSeqProperties DEF TypeOKQueue
  <2>4. SubSeq(queue, i + 1, Len(queue)) \in Seq(Sends)
    BY <2>2, SubSeqProperties DEF TypeOKQueue
  <2> QED
    BY <2>1, <2>3, <2>4, ConcatProperties DEF TypeOKQueue
<1>3. ASSUME Clear \/ Drain(queue) PROVE TypeOKQueue'
  <2>1. queue' = <<>>
    BY <1>3 DEF Clear, Drain
  <2> QED
    BY <2>1 DEF TypeOKQueue
<1>4. ASSUME UNCHANGED queue PROVE TypeOKQueue'
  BY <1>4 DEF TypeOKQueue
<1> QED
  BY <1>1, <1>2, <1>3, <1>4 DEF QueueNext

(* The steps of the registry keep its types. *)
LEMMA SessionGateTypes ==
  TypeOKSessionGate /\ [SessionGateNext]_sessionGateVars => TypeOKSessionGate'
BY DEF TypeOKSessionGate, SessionGateNext, sessionGateVars, Notify, FinishTurn,
       BeginTurn, SeeVersion, RestartSessionGate

(* The steps of the stop gate keep its types. *)
LEMMA GateTypes == TypeOKGate /\ [GateNext]_gateVars => TypeOKGate'
<1> SUFFICES ASSUME TypeOKGate, [GateNext]_gateVars PROVE TypeOKGate'
  OBVIOUS
<1> USE DEF TypeOKGate, Phases, NotifyWaiters
<1>1. ASSUME NEW c \in Chats, BeginSend(c) \/ ArmNextBatch(c)
      PROVE  TypeOKGate'
  BY <1>1 DEF BeginSend, ArmNextBatch, NewGuard
<1>2. ASSUME NEW c \in Chats, Abandon(c) PROVE TypeOKGate'
  BY <1>2 DEF Abandon
<1>3. ASSUME NEW c \in Chats, BeginEnqueue(c) PROVE TypeOKGate'
  <2>1. epoch' \in Nat
    BY <1>3 DEF BeginEnqueue
  <2> QED
    BY <1>3, <2>1 DEF BeginEnqueue
<1>4. ASSUME NEW c \in Chats, AttachPermit(c) PROVE TypeOKGate'
  <2>1. permitHolders' \in Nat
    BY <1>4 DEF AttachPermit
  <2> QED
    BY <1>4, <2>1 DEF AttachPermit
<1>5. ASSUME NEW c \in Chats, NEW r \in Chats, PublishRun(c, r)
      PROVE  TypeOKGate'
  BY <1>5 DEF PublishRun
<1>6. ASSUME NEW r \in Chats, CancelRun(r) PROVE TypeOKGate'
  BY <1>6 DEF CancelRun
<1>7. ASSUME NEW r \in Chats, NEW res \in {"ok", "err"}, FinishRun(r, res)
      PROVE  TypeOKGate'
  <2>1. finishedDuringStop' \in Seq({"ok", "err"})
    BY <1>7 DEF FinishRun
  <2>2. result' \in [Chats -> {"none", "ok", "err"}]
    BY <1>7 DEF FinishRun
  <2>3. phase' \in [Chats -> Phases]
    BY <1>7 DEF FinishRun
  <2> QED
    BY <1>7, <2>1, <2>2, <2>3 DEF FinishRun
<1>8. ASSUME NEW s \in Stoppers, Watch(s) PROVE TypeOKGate'
  BY <1>8 DEF Watch
<1>9. ASSUME NEW e \in Chats \cup {None}, ChooseStop(e) PROVE TypeOKGate'
  <2>1. stopDepth' \in Nat
    BY <1>9 DEF ChooseStop
  <2>2. suppressed' \in BOOLEAN
    BY <1>9 DEF ChooseStop
  <2>3. guardCancel' \in [Chats -> BOOLEAN]
    BY <1>9 DEF ChooseStop
  <2> QED
    BY <1>9, <2>1, <2>2, <2>3 DEF ChooseStop
<1>10. ASSUME DropHolder PROVE TypeOKGate'
  <2>1. permitHolders' \in Nat
    BY <1>10 DEF DropHolder
  <2> QED
    BY <1>10, <2>1 DEF DropHolder
<1>11. ASSUME EndStop PROVE TypeOKGate'
  <2>1. stopDepth' \in Nat
    BY <1>11 DEF EndStop, Stopping
  <2>2. suppressed' \in BOOLEAN
    BY <1>11 DEF EndStop
  <2>3. finishedDuringStop' \in Seq({"ok", "err"})
    BY <1>11 DEF EndStop
  <2> QED
    BY <1>11, <2>1, <2>2, <2>3 DEF EndStop
<1>12. ASSUME RestartGate PROVE TypeOKGate'
  <2>1. finishedDuringStop' \in Seq({"ok", "err"})
    BY <1>12 DEF RestartGate
  <2>2. phase' \in [Chats -> Phases] /\ result' \in [Chats -> {"none", "ok", "err"}]
    BY <1>12 DEF RestartGate
  <2>3. guardCancel' \in [Chats -> BOOLEAN] /\ guardRun' \in [Chats -> Chats \cup {None}]
        /\ woken' \in [Stoppers -> BOOLEAN]
    BY <1>12 DEF RestartGate
  <2> QED
    BY <1>12, <2>1, <2>2, <2>3 DEF RestartGate
<1>13. CASE UNCHANGED gateVars
  BY <1>13 DEF gateVars
<1> QED
  BY <1>1, <1>2, <1>3, <1>4, <1>5, <1>6, <1>7, <1>8, <1>9, <1>10, <1>11, <1>12,
     <1>13 DEF GateNext

(* Cutting a journal leaves a journal. *)
LEMMA CutType ==
  ASSUME NEW h \in Seq(Records), NEW n \in 0..Len(h)
  PROVE  SubSeq(h, 1, n) \in Seq(Records)
BY SubSeqProperties

(* Every step keeps the types of the chat calls' state. *)
LEMMA ChatTypes == TypeOK /\ [Next]_vars => TypeOKChats'
<1> SUFFICES ASSUME TypeOK, [Next]_vars PROVE TypeOKChats'
  OBVIOUS
<1> USE DEF TypeOK, TypeOKChats
<1>1. ASSUME NEW c \in Chats,
             SendBegin(c) \/ SendRefused(c) \/ Confirm(c) \/ Publish(c)
             \/ Finish(c) \/ DropGuard(c) \/ StartFails(c)
             \/ PrepareFails(c) \/ CallDropped(c) \/ StopRun(c)
      PROVE  TypeOKChats'
  BY <1>1 DEF ChatPlaces, Exit, untouchedByStops, chatVars, SendBegin,
         SendRefused, Confirm, Publish, Finish, DropGuard, StartFails,
         PrepareFails, CallDropped, StopRun, Goto
<1>2. ASSUME NEW c \in Sends,
             AcquireTurn(c) \/ EnqueueBegin(c) \/ FinishEnqueue(c)
             \/ Attach(c) \/ DropUnattached(c) \/ CheckSuppressed(c)
             \/ StartQueuedBatch(c) \/ OwnerDropsTurn(c)
             \/ OwnerDropsHolder(c) \/ EnqueueFails(c) \/ DrainFails(c)
             \/ RemoveQueued(c)
      PROVE  TypeOKChats'
  BY <1>2 DEF ChatPlaces, chatVars, AcquireTurn, EnqueueBegin, FinishEnqueue,
         Attach, DropUnattached, CheckSuppressed, StartQueuedBatch,
         OwnerDropsTurn, OwnerDropsHolder, EnqueueFails, DrainFails,
         RemoveQueued, Goto
<1>3. ASSUME NEW s \in Stoppers,
             (\E e \in Chats \cup {None} : StopChoose(s, e))
             \/ (\E e \in Chats \cup {None} : StopMismatch(s, e))
             \/ StopLook(s) \/ StopCapture(s) \/ StopAwait(s)
             \/ StopSnapshot(s) \/ StopWake(s) \/ StopClear(s)
             \/ StopRecheck(s) \/ StopEnd(s) \/ StopDropped(s)
      PROVE  TypeOKChats'
  BY <1>3 DEF ChatPlaces, untouchedByStops, chatVars, StopChoose,
         StopMismatch, StopLook, StopCapture, StopAwait, StopSnapshot,
         StopWake, StopClear, StopRecheck, StopEnd, StopDropped, SGoto
<1>4. ASSUME NEW m \in Mutators,
             Reserve(m) \/ MutationStopped(m) \/ Acquire(m)
             \/ MutationDropsGate(m) \/ MutationDropsTurn(m)
      PROVE  TypeOKChats'
  BY <1>4 DEF ChatPlaces, untouchedByMutations, Reserve, MutationStopped,
         Acquire, MutationDropsGate, MutationDropsTurn, MGoto
<1>5. ASSUME NEW w \in Waiters,
             WaitSubscribe(w) \/ WaitReadTerminal(w)
             \/ WaitReadActive(w) \/ WaitChanged(w)
      PROVE  TypeOKChats'
  BY <1>5 DEF ChatPlaces, untouchedByWaits, chatVars, WaitSubscribe,
         WaitReadTerminal, WaitReadActive, WaitChanged, WGoto
<1>6. ASSUME NEW c \in Chats, LoadHistory(c) PROVE TypeOKChats'
  BY <1>6 DEF Goto, ChatPlaces, LoadHistory
<1>7. ASSUME NEW c \in Chats, AppendTurn(c) PROVE TypeOKChats'
  <2>1. UserRecords(batch[c]) \in Seq(Records)
    BY UserRecordsType
  <2>2. history' \in Seq(Records)
    <3>1. history \in Seq(Records)
      OBVIOUS
    <3>2. history \o UserRecords(batch[c]) \in Seq(Records)
      BY ONLY <2>1, <3>1, ConcatProperties
    <3>3. history' = history \/ history' = history \o UserRecords(batch[c])
      BY <1>7 DEF AppendTurn
    <3> QED
      BY <3>1, <3>2, <3>3
  <2>3. pc' \in [Chats -> ChatPlaces]
    BY <1>7 DEF AppendTurn, Goto, ChatPlaces, Exit
  <2> QED
    BY <1>7, <2>2, <2>3 DEF AppendTurn
<1>8. ASSUME NEW c \in Chats, Activate(c) PROVE TypeOKChats'
  BY <1>8, RunType DEF Goto, ChatPlaces, Activate
<1>9. ASSUME NEW c \in Chats, UnsetActive(c) PROVE TypeOKChats'
  BY <1>9 DEF Goto, ChatPlaces, UnsetActive
<1>10. ASSUME NEW c \in Chats, RunDies(c) PROVE TypeOKChats'
  BY <1>10 DEF Goto, Exit, ChatPlaces, RunDies
<1>11. ASSUME NEW c \in Chats, FinaliseRun(c) PROVE TypeOKChats'
  BY <1>11 DEF FinaliseRun
<1>12. ASSUME NEW c \in Chats, FinaliseActive(c) PROVE TypeOKChats'
  BY <1>12 DEF FinaliseActive
<1>13. ASSUME NEW c \in Chats, RunAppends(c) PROVE TypeOKChats'
  <2>1. Output(Run(c)) \in Records
    BY RunType DEF Output, Records
  <2>2. history' \in Seq(Records)
    BY <1>13, <2>1, AppendProperties DEF RunAppends
  <2> QED
    BY <1>13, <2>2 DEF RunAppends
<1>14. ASSUME NEW c \in Chats, NEW t \in Terminals, RunEnds(c, t)
       PROVE  TypeOKChats'
  BY <1>14 DEF Goto, ChatPlaces, RunEnds
<1>15. ASSUME NEW c \in Sends, EnqueueCommit(c) PROVE TypeOKChats'
  <2>1. accepted' \in Seq(Sends)
    BY <1>15, AppendProperties DEF EnqueueCommit
  <2> QED
    BY <1>15, <2>1 DEF EnqueueCommit, Goto, ChatPlaces
<1>16. ASSUME NEW c \in Sends, DrainQueue(c) PROVE TypeOKChats'
  <2>1. queue \in Seq(Chats)
    BY DEF TypeOKQueue, Chats
  <2>2. batch' \in [Chats -> Seq(Chats) \ {<<>>}]
    BY <1>16, <2>1 DEF DrainQueue
  <2> QED
    BY <1>16, <2>2 DEF DrainQueue, Goto, ChatPlaces
<1>17. ASSUME NEW m \in Mutators, Mutate(m) PROVE TypeOKChats'
  <2>1. history' \in Seq(Records)
    BY <1>17, CutType DEF Mutate
  <2> QED
    BY <1>17, <2>1 DEF Mutate, untouchedByMutations
<1>18. ASSUME ClearChat PROVE TypeOKChats'
  BY <1>18 DEF others, ClearChat
<1>19. ASSUME Crash PROVE TypeOKChats'
  BY <1>19 DEF ChatPlaces, Crash
<1>20. CASE UNCHANGED vars
  BY <1>20 DEF vars, ChatPlaces, chatVars
<1> QED
  BY <1>1, <1>2, <1>3, <1>4, <1>5, <1>6, <1>7, <1>8, <1>9, <1>10, <1>11,
     <1>12, <1>13, <1>14, <1>15, <1>16, <1>17, <1>18, <1>19, <1>20
     DEF Next, SendStep, TurnStep, SendFails, TurnFails, FinaliserStep, StopStep,
         MutationStep, WaitStep, AllReturned

(* Every step keeps the types of the stops' locals. *)
LEMMA StopTypes == TypeOK /\ [Next]_vars => TypeOKStops'
<1> SUFFICES ASSUME TypeOK, [Next]_vars PROVE TypeOKStops'
  OBVIOUS
<1> USE DEF TypeOK, TypeOKStops
<1>1. ASSUME NEW c \in Chats,
             SendBegin(c) \/ SendRefused(c) \/ LoadHistory(c)
             \/ AppendTurn(c) \/ Confirm(c) \/ Activate(c)
             \/ Publish(c) \/ Finish(c) \/ UnsetActive(c)
             \/ DropGuard(c) \/ StartFails(c) \/ PrepareFails(c)
             \/ CallDropped(c) \/ RunDies(c) \/ FinaliseRun(c)
             \/ FinaliseActive(c) \/ RunAppends(c)
             \/ (\E t \in Terminals : RunEnds(c, t)) \/ StopRun(c)
      PROVE  TypeOKStops'
  BY <1>1 DEF stopVars, others, SendBegin, SendRefused, LoadHistory,
         AppendTurn, Confirm, Activate, Publish, Finish, UnsetActive,
         DropGuard, StartFails, PrepareFails, CallDropped, RunDies,
         FinaliseRun, FinaliseActive, RunAppends, RunEnds, StopRun
<1>2. ASSUME NEW c \in Sends,
             AcquireTurn(c) \/ EnqueueBegin(c) \/ EnqueueCommit(c)
             \/ FinishEnqueue(c) \/ Attach(c) \/ DropUnattached(c)
             \/ CheckSuppressed(c) \/ DrainQueue(c)
             \/ StartQueuedBatch(c) \/ OwnerDropsTurn(c)
             \/ OwnerDropsHolder(c) \/ EnqueueFails(c) \/ DrainFails(c)
             \/ RemoveQueued(c)
      PROVE  TypeOKStops'
  BY <1>2 DEF stopVars, others, AcquireTurn, EnqueueBegin, EnqueueCommit,
         FinishEnqueue, Attach, DropUnattached, CheckSuppressed, DrainQueue,
         StartQueuedBatch, OwnerDropsTurn, OwnerDropsHolder, EnqueueFails,
         DrainFails, RemoveQueued
<1>3. ASSUME NEW m \in Mutators,
             Reserve(m) \/ MutationStopped(m) \/ Acquire(m)
             \/ Mutate(m) \/ MutationDropsGate(m)
             \/ MutationDropsTurn(m)
      PROVE  TypeOKStops'
  BY <1>3 DEF stopVars, untouchedByMutations, Reserve, MutationStopped,
         Acquire, Mutate, MutationDropsGate, MutationDropsTurn
<1>4. ASSUME NEW w \in Waiters,
             WaitSubscribe(w) \/ WaitReadTerminal(w)
             \/ WaitReadActive(w) \/ WaitChanged(w)
      PROVE  TypeOKStops'
  BY <1>4 DEF stopVars, untouchedByWaits, WaitSubscribe, WaitReadTerminal,
         WaitReadActive, WaitChanged
<1>5. ASSUME ClearChat
      PROVE  TypeOKStops'
  BY <1>5 DEF stopVars, others, ClearChat
<1>6. ASSUME NEW s \in Stoppers, NEW e \in Chats \cup {None}, StopChoose(s, e)
      PROVE  TypeOKStops'
  BY <1>6 DEF SGoto, StopPlaces, StopChoose
<1>7. ASSUME NEW s \in Stoppers, NEW e \in Chats \cup {None}, StopMismatch(s, e)
      PROVE  TypeOKStops'
  BY <1>7 DEF SGoto, StopPlaces, StopMismatch
<1>8. ASSUME NEW s \in Stoppers, StopLook(s) PROVE TypeOKStops'
  BY <1>8 DEF SGoto, StopPlaces, TypeOKChats, StopLook
<1>9. ASSUME NEW s \in Stoppers, StopCapture(s) PROVE TypeOKStops'
  BY <1>9 DEF SGoto, StopPlaces, StopCapture
<1>10. ASSUME NEW s \in Stoppers, StopAwait(s) PROVE TypeOKStops'
  BY <1>10 DEF SGoto, StopPlaces, StopAwait
<1>11. ASSUME NEW s \in Stoppers, StopSnapshot(s) PROVE TypeOKStops'
  BY <1>11 DEF SGoto, StopPlaces, TypeOKGate, StopSnapshot
<1>12. ASSUME NEW s \in Stoppers, StopWake(s) PROVE TypeOKStops'
  BY <1>12 DEF SGoto, StopPlaces, StopWake
<1>13. ASSUME NEW s \in Stoppers, StopClear(s) PROVE TypeOKStops'
  BY <1>13 DEF SGoto, StopPlaces, StopClear
<1>14. ASSUME NEW s \in Stoppers, StopRecheck(s) PROVE TypeOKStops'
  BY <1>14 DEF SGoto, StopPlaces, TypeOKGate, StopRecheck
<1>15. ASSUME NEW s \in Stoppers, StopEnd(s) PROVE TypeOKStops'
  BY <1>15 DEF SGoto, StopPlaces, StopEnd
<1>16. ASSUME NEW s \in Stoppers, StopDropped(s) PROVE TypeOKStops'
  BY <1>16 DEF SGoto, StopPlaces, StopDropped
<1>17. ASSUME Crash PROVE TypeOKStops'
  BY <1>17 DEF StopPlaces, Crash
<1>18. CASE UNCHANGED vars
  BY <1>18 DEF vars, stopVars
<1> QED
  BY <1>1, <1>2, <1>3, <1>4, <1>5, <1>6, <1>7, <1>8, <1>9, <1>10, <1>11,
     <1>12, <1>13, <1>14, <1>15, <1>16, <1>17, <1>18
     DEF Next, SendStep, TurnStep, SendFails, TurnFails, FinaliserStep, StopStep,
         MutationStep, WaitStep, AllReturned

(* Every step keeps the types of the mutations' and waiters' places. *)
LEMMA TaskTypes == TypeOK /\ [Next]_vars => TypeOKTasks'
<1> SUFFICES ASSUME TypeOK, [Next]_vars PROVE TypeOKTasks'
  OBVIOUS
<1> USE DEF TypeOK, TypeOKTasks
<1>1. ASSUME NEW c \in Chats,
             SendBegin(c) \/ SendRefused(c) \/ LoadHistory(c)
             \/ AppendTurn(c) \/ Confirm(c) \/ Activate(c)
             \/ Publish(c) \/ Finish(c) \/ UnsetActive(c)
             \/ DropGuard(c) \/ StartFails(c) \/ PrepareFails(c)
             \/ CallDropped(c) \/ RunDies(c) \/ FinaliseRun(c)
             \/ FinaliseActive(c) \/ RunAppends(c)
             \/ (\E t \in Terminals : RunEnds(c, t)) \/ StopRun(c)
      PROVE  TypeOKTasks'
  BY <1>1 DEF waitVars, others, untouchedByStops, SendBegin, SendRefused,
         LoadHistory, AppendTurn, Confirm, Activate, Publish, Finish,
         UnsetActive, DropGuard, StartFails, PrepareFails, CallDropped,
         RunDies, FinaliseRun, FinaliseActive, RunAppends, RunEnds, StopRun
<1>2. ASSUME NEW c \in Sends,
             AcquireTurn(c) \/ EnqueueBegin(c) \/ EnqueueCommit(c)
             \/ FinishEnqueue(c) \/ Attach(c) \/ DropUnattached(c)
             \/ CheckSuppressed(c) \/ DrainQueue(c)
             \/ StartQueuedBatch(c) \/ OwnerDropsTurn(c)
             \/ OwnerDropsHolder(c) \/ EnqueueFails(c) \/ DrainFails(c)
             \/ RemoveQueued(c)
      PROVE  TypeOKTasks'
  BY <1>2 DEF waitVars, others, AcquireTurn, EnqueueBegin, EnqueueCommit,
         FinishEnqueue, Attach, DropUnattached, CheckSuppressed, DrainQueue,
         StartQueuedBatch, OwnerDropsTurn, OwnerDropsHolder, EnqueueFails,
         DrainFails, RemoveQueued
<1>3. ASSUME NEW s \in Stoppers,
             (\E e \in Chats \cup {None} : StopChoose(s, e))
             \/ (\E e \in Chats \cup {None} : StopMismatch(s, e))
             \/ StopLook(s) \/ StopCapture(s) \/ StopAwait(s)
             \/ StopSnapshot(s) \/ StopWake(s) \/ StopClear(s)
             \/ StopRecheck(s) \/ StopEnd(s) \/ StopDropped(s)
      PROVE  TypeOKTasks'
  BY <1>3 DEF waitVars, untouchedByStops, StopChoose, StopMismatch, StopLook,
         StopCapture, StopAwait, StopSnapshot, StopWake, StopClear,
         StopRecheck, StopEnd, StopDropped
<1>4. ASSUME NEW m \in Mutators,
             Reserve(m) \/ MutationStopped(m) \/ Acquire(m)
             \/ Mutate(m) \/ MutationDropsGate(m)
             \/ MutationDropsTurn(m)
      PROVE  TypeOKTasks'
  BY <1>4 DEF waitVars, untouchedByMutations, MGoto, Reserve,
         MutationStopped, Acquire, Mutate, MutationDropsGate,
         MutationDropsTurn
<1>5. ASSUME NEW w \in Waiters,
             WaitSubscribe(w) \/ WaitReadActive(w) \/ WaitChanged(w)
      PROVE  TypeOKTasks'
  BY <1>5 DEF waitVars, untouchedByWaits, WGoto, WaitSubscribe,
         WaitReadActive, WaitChanged
<1>6. ASSUME ClearChat
      PROVE  TypeOKTasks'
  BY <1>6 DEF waitVars, others, ClearChat
<1>7. ASSUME NEW w \in Waiters, WaitReadTerminal(w) PROVE TypeOKTasks'
  BY <1>7 DEF TypeOKSessionGate, WGoto, untouchedByWaits, WaitReadTerminal
<1>8. ASSUME Crash PROVE TypeOKTasks'
  BY <1>8 DEF Crash
<1>9. CASE UNCHANGED vars
  BY <1>9 DEF vars, waitVars
<1> QED
  BY <1>1, <1>2, <1>3, <1>4, <1>5, <1>6, <1>7, <1>8, <1>9
     DEF Next, SendStep, TurnStep, SendFails, TurnFails, FinaliserStep, StopStep,
         MutationStep, WaitStep, AllReturned

(* The initial state has its types. *)
LEMMA InitTypes == Init => TypeOK
<1> SUFFICES ASSUME Init PROVE TypeOK
  OBVIOUS
<1>1. TypeOKMutations /\ TypeOKQueue /\ TypeOKSessionGate
  BY DEF Init, InitMutations, InitQueue, InitSessionGate, TypeOKMutations,
         TypeOKQueue, TypeOKSessionGate
<1>2. TypeOKGate
  <2>1. finishedDuringStop \in Seq({"ok", "err"})
    BY DEF Init, InitGate
  <2>2. /\ phase \in [Chats -> Phases]
        /\ result \in [Chats -> {"none", "ok", "err"}]
    BY DEF Init, InitGate, Phases
  <2>3. /\ guardCancel \in [Chats -> BOOLEAN]
        /\ guardRun \in [Chats -> Chats \cup {None}]
        /\ woken \in [Stoppers -> BOOLEAN]
    BY DEF Init, InitGate
  <2> QED
    BY <2>1, <2>2, <2>3 DEF Init, InitGate, TypeOKGate
<1>3. TypeOKChats
  BY DEF Init, TypeOKChats, ChatPlaces
<1>4. TypeOKStops /\ TypeOKTasks
  BY DEF Init, TypeOKStops, TypeOKTasks
<1> QED
  BY <1>1, <1>2, <1>3, <1>4 DEF TypeOK

(* TypeOK is inductive. *)
LEMMA TypeStep == TypeOK /\ [Next]_vars => TypeOK'
BY GateSteps, MutationSteps, QueueSteps, SessionGateSteps, GateTypes,
   MutationTypes, QueueTypes, SessionGateTypes, ChatTypes, StopTypes, TaskTypes
   DEF TypeOK

(* The variables of every component keep their types: for any calls, faults *)
(* and restarts, no step of ChatTurns leaves the state space.               *)
THEOREM TypeCorrect == Spec => []TypeOK
BY InitTypes, TypeStep, PTL DEF Spec

-----------------------------------------------------------------------------
(* The turn permit. *)

(* A chat call that moves between places that agree on the permit. *)
LEMMA PermitKept ==
  ASSUME TypeOK, PermitExclusion, NEW c \in Chats, NEW l, Goto(c, l),
         UNCHANGED <<turn, gate, mpc>>,
         c \in Sends => ((l \in PermitPlaces) <=> (pc[c] \in PermitPlaces))
  PROVE  PermitExclusion'
BY DEF TypeOK, TypeOKChats, PermitExclusion, Goto, Chats

(* The permit stays with the send or the mutation that holds it. *)
LEMMA PermitStep == TypeOK /\ PermitExclusion /\ [Next]_vars => PermitExclusion'
<1> SUFFICES ASSUME TypeOK, PermitExclusion, [Next]_vars PROVE PermitExclusion'
  OBVIOUS
<1> USE ChatTurnsAssumption DEF TypeOK, TypeOKMutations, TypeOKChats,
           TypeOKTasks, PermitExclusion, Chats
<1>1. ASSUME NEW s \in Stoppers,
             (\E e \in Chats \cup {None} : StopChoose(s, e))
             \/ (\E e \in Chats \cup {None} : StopMismatch(s, e))
             \/ StopLook(s) \/ StopCapture(s) \/ StopAwait(s)
             \/ StopSnapshot(s) \/ StopWake(s) \/ StopClear(s)
             \/ StopRecheck(s) \/ StopEnd(s) \/ StopDropped(s)
      PROVE  PermitExclusion'
  BY <1>1 DEF mutationVars, untouchedByStops, chatVars, StopChoose,
         StopMismatch, StopLook, StopCapture, StopAwait, StopSnapshot,
         StopWake, StopClear, StopRecheck, StopEnd, StopDropped, SGoto
<1>2. ASSUME NEW m \in Mutators,
             MutationStopped(m) \/ Mutate(m)
      PROVE  PermitExclusion'
  BY <1>2 DEF mutationVars, untouchedByMutations, MGoto, MutationStopped,
         Mutate, MGoto
<1>3. ASSUME NEW w \in Waiters,
             WaitSubscribe(w) \/ WaitReadTerminal(w)
             \/ WaitReadActive(w) \/ WaitChanged(w)
      PROVE  PermitExclusion'
  BY <1>3 DEF mutationVars, untouchedByWaits, chatVars, WaitSubscribe,
         WaitReadTerminal, WaitReadActive, WaitChanged, WGoto
<1>4. ASSUME ClearChat
      PROVE  PermitExclusion'
  BY <1>4 DEF mutationVars, others, ClearChat
<1>5. ASSUME NEW c \in Chats, SendBegin(c) PROVE PermitExclusion'
  BY <1>5 DEF mutationVars, others, PermitPlaces, HolderPlaces, TurnPlaces,
         Exit, untouchedByStops, Goto, SendBegin
<1>6. ASSUME NEW c \in Chats, SendRefused(c) PROVE PermitExclusion'
  BY <1>6 DEF mutationVars, others, PermitPlaces, HolderPlaces, TurnPlaces,
         Exit, untouchedByStops, Goto, SendRefused
<1>7. ASSUME NEW c \in Chats, LoadHistory(c) PROVE PermitExclusion'
  BY <1>7 DEF mutationVars, others, PermitPlaces, HolderPlaces, TurnPlaces,
         Exit, untouchedByStops, Goto, LoadHistory
<1>8. ASSUME NEW c \in Chats, AppendTurn(c) PROVE PermitExclusion'
  <2>1. PICK l \in {"confirming", Exit(c)} : Goto(c, l)
    BY <1>8 DEF AppendTurn
  <2>2. c \in Sends => ((l \in PermitPlaces) <=> (pc[c] \in PermitPlaces))
    BY <1>8, <2>1 DEF AppendTurn, PermitPlaces, HolderPlaces, TurnPlaces, Exit
  <2>3. UNCHANGED <<turn, gate, mpc>>
    BY <1>8 DEF AppendTurn, mutationVars, others
  <2> QED
    BY <2>1, <2>2, <2>3, PermitKept DEF Chats
<1>9. ASSUME NEW c \in Chats, Confirm(c) PROVE PermitExclusion'
  <2>1. PICK l \in {"activating", Exit(c)} : Goto(c, l)
    BY <1>9 DEF Confirm
  <2>2. c \in Sends => ((l \in PermitPlaces) <=> (pc[c] \in PermitPlaces))
    BY <1>9, <2>1 DEF Confirm, PermitPlaces, HolderPlaces, TurnPlaces, Exit
  <2>3. UNCHANGED <<turn, gate, mpc>>
    BY <1>9 DEF Confirm, mutationVars, others
  <2> QED
    BY <2>1, <2>2, <2>3, PermitKept DEF Chats
<1>10. ASSUME NEW c \in Chats, Activate(c) PROVE PermitExclusion'
  BY <1>10 DEF mutationVars, others, PermitPlaces, HolderPlaces, TurnPlaces,
         Exit, untouchedByStops, Goto, Activate
<1>11. ASSUME NEW c \in Chats, Publish(c) PROVE PermitExclusion'
  BY <1>11 DEF mutationVars, others, PermitPlaces, HolderPlaces, TurnPlaces,
         Exit, untouchedByStops, Goto, Publish
<1>12. ASSUME NEW c \in Chats, Finish(c) PROVE PermitExclusion'
  BY <1>12 DEF mutationVars, others, PermitPlaces, HolderPlaces, TurnPlaces,
         Exit, untouchedByStops, Goto, Finish
<1>13. ASSUME NEW c \in Chats, UnsetActive(c) PROVE PermitExclusion'
  BY <1>13 DEF mutationVars, others, PermitPlaces, HolderPlaces, TurnPlaces,
         Exit, untouchedByStops, Goto, UnsetActive
<1>14. ASSUME NEW c \in Chats, DropGuard(c) PROVE PermitExclusion'
  BY <1>14 DEF mutationVars, others, PermitPlaces, HolderPlaces, TurnPlaces,
         Exit, untouchedByStops, Goto, DropGuard
<1>15. ASSUME NEW c \in Chats, StartFails(c) PROVE PermitExclusion'
  BY <1>15 DEF mutationVars, others, PermitPlaces, HolderPlaces, TurnPlaces,
         Exit, untouchedByStops, Goto, Exit, StartFails
<1>16. ASSUME NEW c \in Chats, PrepareFails(c) PROVE PermitExclusion'
  BY <1>16 DEF mutationVars, others, PermitPlaces, HolderPlaces, TurnPlaces,
         Exit, untouchedByStops, Goto, Exit, PrepareFails
<1>17. ASSUME NEW c \in Chats, CallDropped(c) PROVE PermitExclusion'
  <2>1. PICK l \in {Exit(c), "dropGuard"} : Goto(c, l)
    BY <1>17 DEF CallDropped
  <2>2. c \in Sends => ((l \in PermitPlaces) <=> (pc[c] \in PermitPlaces))
    BY <1>17, <2>1 DEF CallDropped, Goto, Exit, PermitPlaces, HolderPlaces,
           TurnPlaces, TypeOK, TypeOKChats
  <2>3. UNCHANGED <<turn, gate, mpc>>
    BY <1>17 DEF CallDropped, mutationVars, others
  <2> QED
    BY <2>1, <2>2, <2>3, PermitKept DEF Chats
<1>18. ASSUME NEW c \in Chats, RunDies(c) PROVE PermitExclusion'
  BY <1>18 DEF mutationVars, others, PermitPlaces, HolderPlaces, TurnPlaces,
         Exit, untouchedByStops, Goto, Exit, RunDies
<1>19. ASSUME NEW c \in Chats, FinaliseRun(c) PROVE PermitExclusion'
  BY <1>19 DEF mutationVars, others, PermitPlaces, HolderPlaces, TurnPlaces,
         Exit, untouchedByStops, Goto, FinaliseRun
<1>20. ASSUME NEW c \in Chats, FinaliseActive(c) PROVE PermitExclusion'
  BY <1>20 DEF mutationVars, others, PermitPlaces, HolderPlaces, TurnPlaces,
         Exit, untouchedByStops, Goto, FinaliseActive
<1>21. ASSUME NEW c \in Chats, RunAppends(c) PROVE PermitExclusion'
  BY <1>21 DEF mutationVars, others, PermitPlaces, HolderPlaces, TurnPlaces,
         Exit, untouchedByStops, Goto, RunAppends
<1>22. ASSUME NEW c \in Chats, NEW t \in Terminals, RunEnds(c, t)
       PROVE  PermitExclusion'
  BY <1>22 DEF mutationVars, others, PermitPlaces, HolderPlaces, TurnPlaces,
         Exit, untouchedByStops, Goto, RunEnds
<1>23. ASSUME NEW c \in Chats, StopRun(c) PROVE PermitExclusion'
  BY <1>23 DEF mutationVars, chatVars, untouchedByStops, StopRun
<1>24. ASSUME NEW c \in Sends, AcquireTurn(c) PROVE PermitExclusion'
  <2>1. CASE TryAcquireTurn(c) /\ Goto(c, "attaching")
    BY <1>24, <2>1 DEF AcquireTurn, TryAcquireTurn, Goto, PermitPlaces, HolderPlaces,
                   TurnPlaces, others
  <2>2. CASE UNCHANGED mutationVars
    <3>1. PICK l \in {"attaching", "dropGuard", "busy"} : Goto(c, l)
      BY <1>24 DEF AcquireTurn
    <3>2. l /= "attaching"
      BY <1>24, <2>2, <3>1 DEF AcquireTurn, TryAcquireTurn, mutationVars, Goto
    <3>3. l \notin PermitPlaces /\ pc[c] \notin PermitPlaces
      BY <1>24, <3>1, <3>2 DEF AcquireTurn, PermitPlaces, HolderPlaces, TurnPlaces
    <3> QED
      BY <1>24, <2>2, <3>1, <3>3, PermitKept
         DEF AcquireTurn, Chats, mutationVars, others
  <2> QED
    BY <1>24, <2>1, <2>2 DEF AcquireTurn
<1>25. ASSUME NEW c \in Sends, EnqueueBegin(c) PROVE PermitExclusion'
  <2>1. PICK l \in {"enqueueing", "done"} : Goto(c, l)
    BY <1>25 DEF EnqueueBegin
  <2>2. c \in Sends => ((l \in PermitPlaces) <=> (pc[c] \in PermitPlaces))
    BY <1>25, <2>1 DEF EnqueueBegin, PermitPlaces, HolderPlaces, TurnPlaces
  <2>3. UNCHANGED <<turn, gate, mpc>>
    BY <1>25 DEF EnqueueBegin, mutationVars, others
  <2> QED
    BY <2>1, <2>2, <2>3, PermitKept DEF Chats
<1>26. ASSUME NEW c \in Sends, EnqueueCommit(c) PROVE PermitExclusion'
  BY <1>26 DEF mutationVars, chatVars, others, PermitPlaces, HolderPlaces,
         TurnPlaces, Goto, EnqueueCommit
<1>27. ASSUME NEW c \in Sends, FinishEnqueue(c) PROVE PermitExclusion'
  BY <1>27 DEF mutationVars, chatVars, others, PermitPlaces, HolderPlaces,
         TurnPlaces, Goto, FinishEnqueue
<1>28. ASSUME NEW c \in Sends, Attach(c) PROVE PermitExclusion'
  BY <1>28 DEF mutationVars, chatVars, others, PermitPlaces, HolderPlaces,
         TurnPlaces, Goto, Attach
<1>29. ASSUME NEW c \in Sends, DropUnattached(c) PROVE PermitExclusion'
  BY <1>29 DEF Goto, PermitPlaces, HolderPlaces, TurnPlaces, DropTurn,
         others, DropUnattached
<1>30. ASSUME NEW c \in Sends, CheckSuppressed(c) PROVE PermitExclusion'
  BY <1>30 DEF mutationVars, chatVars, others, PermitPlaces, HolderPlaces,
         TurnPlaces, Goto, CheckSuppressed
<1>31. ASSUME NEW c \in Sends, DrainQueue(c) PROVE PermitExclusion'
  <2>1. PICK l \in {"dropTurn", "drained"} : Goto(c, l)
    BY <1>31 DEF DrainQueue
  <2>2. c \in Sends => ((l \in PermitPlaces) <=> (pc[c] \in PermitPlaces))
    BY <1>31, <2>1 DEF DrainQueue, PermitPlaces, HolderPlaces, TurnPlaces
  <2>3. UNCHANGED <<turn, gate, mpc>>
    BY <1>31 DEF DrainQueue, mutationVars, others
  <2> QED
    BY <2>1, <2>2, <2>3, PermitKept DEF Chats
<1>32. ASSUME NEW c \in Sends, StartQueuedBatch(c) PROVE PermitExclusion'
  <2>1. PICK l \in {"loading", "dropTurn"} : Goto(c, l)
    BY <1>32 DEF StartQueuedBatch
  <2>2. c \in Sends => ((l \in PermitPlaces) <=> (pc[c] \in PermitPlaces))
    BY <1>32, <2>1 DEF StartQueuedBatch, PermitPlaces, HolderPlaces, TurnPlaces
  <2>3. UNCHANGED <<turn, gate, mpc>>
    BY <1>32 DEF StartQueuedBatch, mutationVars, others
  <2> QED
    BY <2>1, <2>2, <2>3, PermitKept DEF Chats
<1>33. ASSUME NEW c \in Sends, OwnerDropsTurn(c) PROVE PermitExclusion'
  BY <1>33 DEF Goto, PermitPlaces, HolderPlaces, TurnPlaces, DropTurn,
         others, OwnerDropsTurn
<1>34. ASSUME NEW c \in Sends, OwnerDropsHolder(c) PROVE PermitExclusion'
  BY <1>34 DEF mutationVars, chatVars, others, PermitPlaces, HolderPlaces,
         TurnPlaces, Goto, OwnerDropsHolder
<1>35. ASSUME NEW c \in Sends, EnqueueFails(c) PROVE PermitExclusion'
  BY <1>35 DEF mutationVars, chatVars, others, PermitPlaces, HolderPlaces,
         TurnPlaces, Goto, EnqueueFails
<1>36. ASSUME NEW c \in Sends, DrainFails(c) PROVE PermitExclusion'
  BY <1>36 DEF mutationVars, chatVars, others, PermitPlaces, HolderPlaces,
         TurnPlaces, Goto, DrainFails
<1>37. ASSUME NEW c \in Sends, RemoveQueued(c) PROVE PermitExclusion'
  BY <1>37 DEF mutationVars, chatVars, others, PermitPlaces, HolderPlaces,
         TurnPlaces, Goto, RemoveQueued
<1>38. ASSUME NEW m \in Mutators, Reserve(m) PROVE PermitExclusion'
  BY <1>38 DEF MGoto, ReserveMutation, untouchedByMutations, Reserve
<1>39. ASSUME NEW m \in Mutators, Acquire(m) PROVE PermitExclusion'
  BY <1>39 DEF MGoto, AcquireMutation, untouchedByMutations, Acquire
<1>40. ASSUME NEW m \in Mutators, MutationDropsGate(m) PROVE PermitExclusion'
  BY <1>40 DEF MGoto, DropGate, untouchedByMutations, MutationDropsGate
<1>41. ASSUME NEW m \in Mutators, MutationDropsTurn(m) PROVE PermitExclusion'
  <2>1. UNCHANGED <<pc, gate>> /\ mpc' = [mpc EXCEPT ![m] = "done"]
    BY <1>41 DEF MutationDropsTurn, DropTurn, MGoto, untouchedByMutations
  <2>2. turn' = IF turn = m THEN None ELSE turn
    BY <1>41 DEF MutationDropsTurn, DropTurn
  <2>3. gate /= m
    BY <1>41 DEF MutationDropsTurn
  <2>4. \A c \in Sends : (turn' = c) <=> (turn = c)
    BY <2>2
  <2>5. \A n \in Mutators : (turn' = n) <=> (turn = n /\ n /= m)
    BY <2>2
  <2>6. \A n \in Mutators : mpc'[n] = IF n = m THEN "done" ELSE mpc[n]
    BY <2>1
  <2> QED
    BY <2>1, <2>3, <2>4, <2>5, <2>6
<1>42. ASSUME Crash PROVE PermitExclusion'
  BY <1>42 DEF PermitPlaces, HolderPlaces, TurnPlaces, RestartMutations,
         Crash
<1>43. CASE UNCHANGED vars
  BY <1>43 DEF vars, mutationVars, chatVars
<1> QED
  BY <1>1, <1>2, <1>3, <1>4, <1>5, <1>6, <1>7, <1>8, <1>9, <1>10, <1>11,
     <1>12, <1>13, <1>14, <1>15, <1>16, <1>17, <1>18, <1>19, <1>20, <1>21,
     <1>22, <1>23, <1>24, <1>25, <1>26, <1>27, <1>28, <1>29, <1>30, <1>31,
     <1>32, <1>33, <1>34, <1>35, <1>36, <1>37, <1>38, <1>39, <1>40, <1>41,
     <1>42, <1>43
     DEF Next, SendStep, TurnStep, SendFails, TurnFails, FinaliserStep, StopStep,
         MutationStep, WaitStep, AllReturned

(* At most one send or mutation holds the turn permit of the session, and   *)
(* the permit is never lost: it is free when no call is in a place that     *)
(* owns it.                                                                 *)
THEOREM PermitExcludes == Spec => []PermitExclusion
<1>1. Init => PermitExclusion
  BY ChatTurnsAssumption
     DEF Init, InitMutations, PermitExclusion, PermitPlaces, HolderPlaces,
         TurnPlaces, Chats
<1>2. TypeOK /\ PermitExclusion /\ [Next]_vars => PermitExclusion'
  BY PermitStep
<1> QED
  BY <1>1, <1>2, TypeCorrect, PTL DEF Spec
=============================================================================
