------------------------ MODULE ChatTurnsStop_proofs ------------------------
(***************************************************************************)
(* The stop gate: its counters are exact, and a stop that has seen the     *)
(* gate idle leaves nothing behind that could start.                       *)
(***************************************************************************)
EXTENDS ChatTurnsTypes_proofs

(* A send_sync never goes where only a send with a permit goes. *)
SyncPlaces ==
  \A c \in Syncs :
    pc[c] \in TurnPlaces \cup {"new", "unsetting", "dropGuard", "done"}

(* The guard a call has, place by place.  Where a turn has been given up    *)
(* any guard is possible: the finaliser of a dropped run may still owe its  *)
(* removal.                                                                 *)
GuardFits(c) ==
  /\ pc[c] \in {"new", "unattached", "unsetting", "finalGate", "draining",
                "drained", "arming"} => phase[c] = "none"
  /\ pc[c] \in {"acquiring", "busy", "attaching"} =>
       phase[c] = "Acquiring" /\ guardRun[c] = None
  /\ pc[c] \in {"enqueueing", "enqueued"} =>
       phase[c] = "Enqueueing" /\ guardRun[c] = None
  /\ pc[c] \in {"loading", "appending", "confirming", "activating",
                "publishing"} =>
       phase[c] \in {"Acquiring", "HoldingPermit"} /\ guardRun[c] = None
  /\ pc[c] \in {"running", "finishOk", "finishErr"} =>
       phase[c] = "Running" /\ guardRun[c] = Run(c)
  /\ finaliser[c] /= "none" =>
       pc[c] \in {"dropTurn", "dropHolder", "dropGuard", "done"}

GuardOfPlace == \A c \in Chats : GuardFits(c)

(* Every published run has the guard it was published with. *)
RunsGuarded ==
  \A r \in runs : \E c \in Chats : phase[c] = "Running" /\ guardRun[c] = r

Accepted(p) == \E i \in DOMAIN accepted : accepted[i] = p

(* A prompt that was queued never starts a turn of its own call, and once   *)
(* drained it is in the batch of one call only.  So the runs of two calls   *)
(* that are in a turn have different names.                                 *)
BatchesDisjoint ==
  /\ \A p \in Chats : Accepted(p) =>
       /\ pc[p] \in {"enqueued", "dropGuard", "done"}
       /\ batch[p] = <<p>>
       /\ finaliser[p] = "none"
  /\ \A p \in Chats :
       pc[p] \in {"new", "acquiring", "busy", "enqueueing"} => batch[p] = <<p>>
  /\ \A p \in Chats : Queued(p) => Accepted(p)
  /\ \A c, p \in Chats : InBatch(c, p) => p = c \/ (Accepted(p) /\ ~Queued(p))
  /\ \A c, d, p \in Chats :
       InBatch(c, p) /\ InBatch(d, p) => c = d \/ p = c \/ p = d

-----------------------------------------------------------------------------
(* The counters of the stop gate. *)

HoldersCounted == permitHolders = Cardinality(Holders)

StopsCounted ==
  /\ stopDepth = Cardinality(ActiveStops)
  /\ suppressed <=> ActiveStops /= {}

(* Only finitely many calls hold a permit or are stopping. *)
LEMMA CallSetsFinite ==
  /\ IsFiniteSet(Sends) /\ IsFiniteSet(Stoppers) /\ IsFiniteSet(Chats)
  /\ IsFiniteSet(Holders) /\ IsFiniteSet(ActiveStops)
<1>1. IsFiniteSet(Sends) /\ IsFiniteSet(Syncs) /\ IsFiniteSet(Stops)
  BY ChatTurnsAssumption
<1>2. IsFiniteSet(Truncators)
  BY ChatTurnsAssumption, FS_Subset
<1>3. IsFiniteSet(Stoppers) /\ IsFiniteSet(Chats)
  BY <1>1, <1>2, FS_Union DEF Stoppers, Chats
<1> QED
  BY <1>1, <1>3, FS_Subset DEF Holders, ActiveStops

(* A chat call that moves between places that agree on the PermitRelease. *)
LEMMA HoldersKept ==
  ASSUME TypeOK, NEW c \in Chats, NEW l, Goto(c, l),
         c \in Sends => ((l \in HolderPlaces) <=> (pc[c] \in HolderPlaces)),
         UNCHANGED permitHolders, HoldersCounted
  PROVE  HoldersCounted'
<1>1. Holders' = Holders
  BY DEF TypeOK, TypeOKChats, Goto, Chats, Holders
<1> QED
  BY <1>1 DEF HoldersCounted

(* permit_holders follows the sends that own a PermitRelease. *)
LEMMA HoldersStep == TypeOK /\ HoldersCounted /\ [Next]_vars => HoldersCounted'
<1> SUFFICES ASSUME TypeOK, HoldersCounted, [Next]_vars PROVE HoldersCounted'
  OBVIOUS
<1> USE DEF HoldersCounted, Holders
<1>1. ASSUME NEW c \in Chats,
             FinaliseRun(c) \/ FinaliseActive(c) \/ RunAppends(c)
             \/ StopRun(c)
      PROVE  HoldersCounted'
  BY <1>1 DEF gateVars, FinishRun, CancelRun, untouchedByStops, chatVars,
         FinaliseRun, FinaliseActive, RunAppends, StopRun
<1>2. ASSUME NEW c \in Sends,
             RemoveQueued(c)
      PROVE  HoldersCounted'
  BY <1>2 DEF gateVars, chatVars, RemoveQueued
<1>3. ASSUME NEW s \in Stoppers,
             (\E e \in Chats \cup {None} : StopChoose(s, e))
             \/ (\E e \in Chats \cup {None} : StopMismatch(s, e))
             \/ StopLook(s) \/ StopCapture(s) \/ StopAwait(s)
             \/ StopSnapshot(s) \/ StopWake(s) \/ StopClear(s)
             \/ StopRecheck(s) \/ StopEnd(s) \/ StopDropped(s)
      PROVE  HoldersCounted'
  BY <1>3 DEF gateVars, ChooseStop, Watch, CancelRun, EndStop,
         untouchedByStops, chatVars, StopChoose, StopMismatch, StopLook,
         StopCapture, StopAwait, StopSnapshot, StopWake, StopClear,
         StopRecheck, StopEnd, StopDropped
<1>4. ASSUME NEW m \in Mutators,
             Reserve(m) \/ MutationStopped(m) \/ Acquire(m)
             \/ Mutate(m) \/ MutationDropsGate(m)
             \/ MutationDropsTurn(m)
      PROVE  HoldersCounted'
  BY <1>4 DEF gateVars, untouchedByMutations, Reserve, MutationStopped,
         Acquire, Mutate, MutationDropsGate, MutationDropsTurn
<1>5. ASSUME NEW w \in Waiters,
             WaitSubscribe(w) \/ WaitReadTerminal(w)
             \/ WaitReadActive(w) \/ WaitChanged(w)
      PROVE  HoldersCounted'
  BY <1>5 DEF gateVars, untouchedByWaits, chatVars, WaitSubscribe,
         WaitReadTerminal, WaitReadActive, WaitChanged
<1>6. ASSUME ClearChat
      PROVE  HoldersCounted'
  BY <1>6 DEF gateVars, others, ClearChat
<1>7. ASSUME NEW c \in Chats, SendBegin(c) PROVE HoldersCounted'
  <2>1. PICK l \in {"acquiring", "loading"} : Goto(c, l)
    BY <1>7 DEF SendBegin
  <2>2. c \in Sends => ((l \in HolderPlaces) <=> (pc[c] \in HolderPlaces))
    BY <1>7, <2>1, ChatTurnsAssumption DEF SendBegin, HolderPlaces, TurnPlaces,
         Goto, TypeOK, TypeOKChats
  <2>3. UNCHANGED permitHolders
    BY <1>7 DEF SendBegin, BeginSend, NewGuard, gateVars
  <2> QED
    BY <2>1, <2>2, <2>3, HoldersKept
<1>8. ASSUME NEW c \in Chats, SendRefused(c) PROVE HoldersCounted'
  <2>1. PICK l \in {"done"} : Goto(c, l)
    BY <1>8 DEF SendRefused
  <2>2. c \in Sends => ((l \in HolderPlaces) <=> (pc[c] \in HolderPlaces))
    BY <1>8, <2>1 DEF SendRefused, HolderPlaces, TurnPlaces
  <2>3. UNCHANGED permitHolders
    BY <1>8 DEF SendRefused, gateVars
  <2> QED
    BY <2>1, <2>2, <2>3, HoldersKept
<1>9. ASSUME NEW c \in Chats, LoadHistory(c) PROVE HoldersCounted'
  <2>1. PICK l \in {"appending"} : Goto(c, l)
    BY <1>9 DEF LoadHistory
  <2>2. c \in Sends => ((l \in HolderPlaces) <=> (pc[c] \in HolderPlaces))
    BY <1>9, <2>1 DEF LoadHistory, HolderPlaces, TurnPlaces
  <2>3. UNCHANGED permitHolders
    BY <1>9 DEF LoadHistory, gateVars
  <2> QED
    BY <2>1, <2>2, <2>3, HoldersKept
<1>10. ASSUME NEW c \in Chats, AppendTurn(c) PROVE HoldersCounted'
  <2>1. PICK l \in {"confirming", Exit(c)} : Goto(c, l)
    BY <1>10 DEF AppendTurn
  <2>2. c \in Sends => ((l \in HolderPlaces) <=> (pc[c] \in HolderPlaces))
    BY <1>10, <2>1 DEF AppendTurn, HolderPlaces, TurnPlaces, Exit
  <2>3. UNCHANGED permitHolders
    BY <1>10 DEF AppendTurn, gateVars
  <2> QED
    BY <2>1, <2>2, <2>3, HoldersKept
<1>11. ASSUME NEW c \in Chats, Confirm(c) PROVE HoldersCounted'
  <2>1. PICK l \in {"activating", Exit(c)} : Goto(c, l)
    BY <1>11 DEF Confirm
  <2>2. c \in Sends => ((l \in HolderPlaces) <=> (pc[c] \in HolderPlaces))
    BY <1>11, <2>1 DEF Confirm, HolderPlaces, TurnPlaces, Exit
  <2>3. UNCHANGED permitHolders
    BY <1>11 DEF Confirm, ConfirmStart, RefuseCancelled, Abandon, gateVars
  <2> QED
    BY <2>1, <2>2, <2>3, HoldersKept
<1>12. ASSUME NEW c \in Chats, Activate(c) PROVE HoldersCounted'
  <2>1. PICK l \in {"publishing"} : Goto(c, l)
    BY <1>12 DEF Activate
  <2>2. c \in Sends => ((l \in HolderPlaces) <=> (pc[c] \in HolderPlaces))
    BY <1>12, <2>1 DEF Activate, HolderPlaces, TurnPlaces
  <2>3. UNCHANGED permitHolders
    BY <1>12 DEF Activate, gateVars
  <2> QED
    BY <2>1, <2>2, <2>3, HoldersKept
<1>13. ASSUME NEW c \in Chats, Publish(c) PROVE HoldersCounted'
  <2>1. PICK l \in {"running"} : Goto(c, l)
    BY <1>13 DEF Publish
  <2>2. c \in Sends => ((l \in HolderPlaces) <=> (pc[c] \in HolderPlaces))
    BY <1>13, <2>1 DEF Publish, HolderPlaces, TurnPlaces
  <2>3. UNCHANGED permitHolders
    BY <1>13 DEF Publish, PublishRun, gateVars
  <2> QED
    BY <2>1, <2>2, <2>3, HoldersKept
<1>14. ASSUME NEW c \in Chats, Finish(c) PROVE HoldersCounted'
  <2>1. PICK l \in {"unsetting"} : Goto(c, l)
    BY <1>14 DEF Finish
  <2>2. c \in Sends => ((l \in HolderPlaces) <=> (pc[c] \in HolderPlaces))
    BY <1>14, <2>1 DEF Finish, HolderPlaces, TurnPlaces
  <2>3. UNCHANGED permitHolders
    BY <1>14 DEF Finish, FinishRun, gateVars
  <2> QED
    BY <2>1, <2>2, <2>3, HoldersKept
<1>15. ASSUME NEW c \in Chats, UnsetActive(c) PROVE HoldersCounted'
  <2>1. PICK l \in {"finalGate", "done"} : Goto(c, l)
    BY <1>15 DEF UnsetActive
  <2>2. c \in Sends => ((l \in HolderPlaces) <=> (pc[c] \in HolderPlaces))
    BY <1>15, <2>1 DEF UnsetActive, HolderPlaces, TurnPlaces, Goto, TypeOK,
         TypeOKChats
  <2>3. UNCHANGED permitHolders
    BY <1>15 DEF UnsetActive, gateVars
  <2> QED
    BY <2>1, <2>2, <2>3, HoldersKept
<1>16. ASSUME NEW c \in Chats, DropGuard(c) PROVE HoldersCounted'
  <2>1. PICK l \in {"done"} : Goto(c, l)
    BY <1>16 DEF DropGuard
  <2>2. c \in Sends => ((l \in HolderPlaces) <=> (pc[c] \in HolderPlaces))
    BY <1>16, <2>1 DEF DropGuard, HolderPlaces, TurnPlaces
  <2>3. UNCHANGED permitHolders
    BY <1>16 DEF DropGuard, Abandon, gateVars
  <2> QED
    BY <2>1, <2>2, <2>3, HoldersKept
<1>17. ASSUME NEW c \in Chats, StartFails(c) PROVE HoldersCounted'
  <2>1. PICK l \in {Exit(c)} : Goto(c, l)
    BY <1>17 DEF StartFails
  <2>2. c \in Sends => ((l \in HolderPlaces) <=> (pc[c] \in HolderPlaces))
    BY <1>17, <2>1 DEF StartFails, HolderPlaces, TurnPlaces, Exit
  <2>3. UNCHANGED permitHolders
    BY <1>17 DEF StartFails, gateVars
  <2> QED
    BY <2>1, <2>2, <2>3, HoldersKept
<1>18. ASSUME NEW c \in Chats, PrepareFails(c) PROVE HoldersCounted'
  <2>1. PICK l \in {Exit(c)} : Goto(c, l)
    BY <1>18 DEF PrepareFails
  <2>2. c \in Sends => ((l \in HolderPlaces) <=> (pc[c] \in HolderPlaces))
    BY <1>18, <2>1 DEF PrepareFails, HolderPlaces, TurnPlaces, Exit
  <2>3. UNCHANGED permitHolders
    BY <1>18 DEF PrepareFails, gateVars
  <2> QED
    BY <2>1, <2>2, <2>3, HoldersKept
<1>19. ASSUME NEW c \in Chats, CallDropped(c) PROVE HoldersCounted'
  <2>1. PICK l \in {Exit(c), "dropGuard"} : Goto(c, l)
    BY <1>19 DEF CallDropped
  <2>2. c \in Sends => ((l \in HolderPlaces) <=> (pc[c] \in HolderPlaces))
    BY <1>19, <2>1 DEF CallDropped, Goto, HolderPlaces, TurnPlaces, Exit,
           TypeOK, TypeOKChats
  <2>3. UNCHANGED permitHolders
    BY <1>19 DEF CallDropped, gateVars
  <2> QED
    BY <2>1, <2>2, <2>3, HoldersKept
<1>20. ASSUME NEW c \in Chats, RunDies(c) PROVE HoldersCounted'
  <2>1. PICK l \in {Exit(c)} : Goto(c, l)
    BY <1>20 DEF RunDies
  <2>2. c \in Sends => ((l \in HolderPlaces) <=> (pc[c] \in HolderPlaces))
    BY <1>20, <2>1 DEF RunDies, HolderPlaces, TurnPlaces, Exit
  <2>3. UNCHANGED permitHolders
    BY <1>20 DEF RunDies, gateVars
  <2> QED
    BY <2>1, <2>2, <2>3, HoldersKept
<1>21. ASSUME NEW c \in Chats, NEW t \in Terminals, RunEnds(c, t)
       PROVE  HoldersCounted'
  <2>1. PICK l \in {"finishErr", "finishOk"} : Goto(c, l)
    BY <1>21 DEF RunEnds
  <2>2. c \in Sends => ((l \in HolderPlaces) <=> (pc[c] \in HolderPlaces))
    BY <1>21, <2>1 DEF RunEnds, HolderPlaces, TurnPlaces
  <2>3. UNCHANGED permitHolders
    BY <1>21 DEF RunEnds, gateVars
  <2> QED
    BY <2>1, <2>2, <2>3, HoldersKept
<1>22. ASSUME NEW c \in Sends, AcquireTurn(c) PROVE HoldersCounted'
  <2>1. PICK l \in {"attaching", "dropGuard", "busy"} : Goto(c, l)
    BY <1>22 DEF AcquireTurn
  <2>2. c \in Sends => ((l \in HolderPlaces) <=> (pc[c] \in HolderPlaces))
    BY <1>22, <2>1 DEF AcquireTurn, HolderPlaces, TurnPlaces
  <2>3. UNCHANGED permitHolders
    BY <1>22 DEF AcquireTurn, gateVars
  <2> QED
    BY <2>1, <2>2, <2>3, HoldersKept DEF Chats
<1>23. ASSUME NEW c \in Sends, EnqueueBegin(c) PROVE HoldersCounted'
  <2>1. PICK l \in {"enqueueing", "done"} : Goto(c, l)
    BY <1>23 DEF EnqueueBegin
  <2>2. c \in Sends => ((l \in HolderPlaces) <=> (pc[c] \in HolderPlaces))
    BY <1>23, <2>1 DEF EnqueueBegin, HolderPlaces, TurnPlaces
  <2>3. UNCHANGED permitHolders
    BY <1>23 DEF EnqueueBegin, BeginEnqueue, RefuseCancelled, Abandon, gateVars
  <2> QED
    BY <2>1, <2>2, <2>3, HoldersKept DEF Chats
<1>24. ASSUME NEW c \in Sends, EnqueueCommit(c) PROVE HoldersCounted'
  <2>1. PICK l \in {"enqueued"} : Goto(c, l)
    BY <1>24 DEF EnqueueCommit
  <2>2. c \in Sends => ((l \in HolderPlaces) <=> (pc[c] \in HolderPlaces))
    BY <1>24, <2>1 DEF EnqueueCommit, HolderPlaces, TurnPlaces
  <2>3. UNCHANGED permitHolders
    BY <1>24 DEF EnqueueCommit, gateVars
  <2> QED
    BY <2>1, <2>2, <2>3, HoldersKept DEF Chats
<1>25. ASSUME NEW c \in Sends, FinishEnqueue(c) PROVE HoldersCounted'
  <2>1. PICK l \in {"done"} : Goto(c, l)
    BY <1>25 DEF FinishEnqueue
  <2>2. c \in Sends => ((l \in HolderPlaces) <=> (pc[c] \in HolderPlaces))
    BY <1>25, <2>1 DEF FinishEnqueue, HolderPlaces, TurnPlaces
  <2>3. UNCHANGED permitHolders
    BY <1>25 DEF FinishEnqueue, Abandon, gateVars
  <2> QED
    BY <2>1, <2>2, <2>3, HoldersKept DEF Chats
<1>26. ASSUME NEW c \in Sends, Attach(c) PROVE HoldersCounted'
  <2>1. CASE AttachPermit(c) /\ Goto(c, "loading")
    <3>1. Holders' = Holders \cup {c} /\ c \notin Holders
      BY <1>26, <2>1 DEF Attach, Goto, Holders, HolderPlaces, TurnPlaces, TypeOK,
                     TypeOKChats, Chats
    <3>2. Cardinality(Holders \cup {c}) = Cardinality(Holders) + 1
      BY <3>1, CallSetsFinite, FS_AddElement
    <3> QED
      BY <2>1, <3>1, <3>2 DEF AttachPermit, HoldersCounted
  <2>2. CASE RefuseCancelled(c) /\ Goto(c, "unattached")
    <3>1. ("unattached" \in HolderPlaces) <=> (pc[c] \in HolderPlaces)
      BY <1>26 DEF Attach, HolderPlaces, TurnPlaces
    <3>2. UNCHANGED permitHolders
      BY <2>2 DEF RefuseCancelled, Abandon
    <3> QED
      BY <2>2, <3>1, <3>2, HoldersKept DEF Chats
  <2> QED
    BY <1>26, <2>1, <2>2 DEF Attach
<1>27. ASSUME NEW c \in Sends, DropUnattached(c) PROVE HoldersCounted'
  <2>1. PICK l \in {"done"} : Goto(c, l)
    BY <1>27 DEF DropUnattached
  <2>2. c \in Sends => ((l \in HolderPlaces) <=> (pc[c] \in HolderPlaces))
    BY <1>27, <2>1 DEF DropUnattached, HolderPlaces, TurnPlaces
  <2>3. UNCHANGED permitHolders
    BY <1>27 DEF DropUnattached, gateVars
  <2> QED
    BY <2>1, <2>2, <2>3, HoldersKept DEF Chats
<1>28. ASSUME NEW c \in Sends, CheckSuppressed(c) PROVE HoldersCounted'
  <2>1. PICK l \in {"dropTurn", "draining", "arming"} : Goto(c, l)
    BY <1>28 DEF CheckSuppressed
  <2>2. c \in Sends => ((l \in HolderPlaces) <=> (pc[c] \in HolderPlaces))
    BY <1>28, <2>1 DEF CheckSuppressed, HolderPlaces, TurnPlaces
  <2>3. UNCHANGED permitHolders
    BY <1>28 DEF CheckSuppressed, gateVars
  <2> QED
    BY <2>1, <2>2, <2>3, HoldersKept DEF Chats
<1>29. ASSUME NEW c \in Sends, DrainQueue(c) PROVE HoldersCounted'
  <2>1. PICK l \in {"dropTurn", "drained"} : Goto(c, l)
    BY <1>29 DEF DrainQueue
  <2>2. c \in Sends => ((l \in HolderPlaces) <=> (pc[c] \in HolderPlaces))
    BY <1>29, <2>1 DEF DrainQueue, HolderPlaces, TurnPlaces
  <2>3. UNCHANGED permitHolders
    BY <1>29 DEF DrainQueue, gateVars
  <2> QED
    BY <2>1, <2>2, <2>3, HoldersKept DEF Chats
<1>30. ASSUME NEW c \in Sends, StartQueuedBatch(c) PROVE HoldersCounted'
  <2>1. PICK l \in {"loading", "dropTurn"} : Goto(c, l)
    BY <1>30 DEF StartQueuedBatch
  <2>2. c \in Sends => ((l \in HolderPlaces) <=> (pc[c] \in HolderPlaces))
    BY <1>30, <2>1 DEF StartQueuedBatch, HolderPlaces, TurnPlaces
  <2>3. UNCHANGED permitHolders
    BY <1>30 DEF StartQueuedBatch, ArmNextBatch, NewGuard, gateVars
  <2> QED
    BY <2>1, <2>2, <2>3, HoldersKept DEF Chats
<1>31. ASSUME NEW c \in Sends, OwnerDropsTurn(c) PROVE HoldersCounted'
  <2>1. PICK l \in {"dropHolder"} : Goto(c, l)
    BY <1>31 DEF OwnerDropsTurn
  <2>2. c \in Sends => ((l \in HolderPlaces) <=> (pc[c] \in HolderPlaces))
    BY <1>31, <2>1 DEF OwnerDropsTurn, HolderPlaces, TurnPlaces
  <2>3. UNCHANGED permitHolders
    BY <1>31 DEF OwnerDropsTurn, gateVars
  <2> QED
    BY <2>1, <2>2, <2>3, HoldersKept DEF Chats
<1>32. ASSUME NEW c \in Sends, OwnerDropsHolder(c) PROVE HoldersCounted'
  <2>1. Holders' = Holders \ {c} /\ c \in Holders
    BY <1>32 DEF OwnerDropsHolder, Goto, Holders, HolderPlaces, TurnPlaces, TypeOK,
             TypeOKChats, Chats
  <2>2. Cardinality(Holders \ {c}) = Cardinality(Holders) - 1
    BY <2>1, CallSetsFinite, FS_RemoveElement
  <2>3. Cardinality(Holders) /= 0
    BY <2>1, CallSetsFinite, FS_EmptySet
  <2> QED
    BY <1>32, <2>1, <2>2, <2>3 DEF OwnerDropsHolder, DropHolder, HoldersCounted
<1>33. ASSUME NEW c \in Sends, EnqueueFails(c) PROVE HoldersCounted'
  <2>1. PICK l \in {"dropGuard"} : Goto(c, l)
    BY <1>33 DEF EnqueueFails
  <2>2. c \in Sends => ((l \in HolderPlaces) <=> (pc[c] \in HolderPlaces))
    BY <1>33, <2>1 DEF EnqueueFails, HolderPlaces, TurnPlaces
  <2>3. UNCHANGED permitHolders
    BY <1>33 DEF EnqueueFails, gateVars
  <2> QED
    BY <2>1, <2>2, <2>3, HoldersKept DEF Chats
<1>34. ASSUME NEW c \in Sends, DrainFails(c) PROVE HoldersCounted'
  <2>1. PICK l \in {"dropTurn"} : Goto(c, l)
    BY <1>34 DEF DrainFails
  <2>2. c \in Sends => ((l \in HolderPlaces) <=> (pc[c] \in HolderPlaces))
    BY <1>34, <2>1 DEF DrainFails, HolderPlaces, TurnPlaces
  <2>3. UNCHANGED permitHolders
    BY <1>34 DEF DrainFails, gateVars
  <2> QED
    BY <2>1, <2>2, <2>3, HoldersKept DEF Chats
<1>35. ASSUME Crash PROVE HoldersCounted'
  <2>1. Holders' = {}
    BY <1>35 DEF Crash, Holders, HolderPlaces, TurnPlaces, Chats
  <2> QED
    BY <1>35, <2>1, FS_EmptySet DEF Crash, RestartGate, HoldersCounted
<1>36. CASE UNCHANGED vars
  BY <1>36 DEF vars, gateVars, chatVars
<1> QED
  BY <1>1, <1>2, <1>3, <1>4, <1>5, <1>6, <1>7, <1>8, <1>9, <1>10, <1>11,
     <1>12, <1>13, <1>14, <1>15, <1>16, <1>17, <1>18, <1>19, <1>20, <1>21,
     <1>22, <1>23, <1>24, <1>25, <1>26, <1>27, <1>28, <1>29, <1>30, <1>31,
     <1>32, <1>33, <1>34, <1>35, <1>36
     DEF Next, SendStep, TurnStep, SendFails, TurnFails, FinaliserStep, StopStep,
         MutationStep, WaitStep, AllReturned

(* A stop that moves within the places that count. *)
LEMMA StopsKept ==
  ASSUME TypeOK, NEW s \in Stoppers, NEW l, SGoto(s, l),
         (l \in StopPlaces) <=> (spc[s] \in StopPlaces),
         UNCHANGED <<stopDepth, suppressed>>, StopsCounted
  PROVE  StopsCounted'
<1>1. ActiveStops' = ActiveStops
  BY DEF TypeOK, TypeOKStops, SGoto, ActiveStops
<1> QED
  BY <1>1 DEF StopsCounted

(* stop_depth follows the stops in progress, and so does the suppression. *)
LEMMA StopsStep == TypeOK /\ StopsCounted /\ [Next]_vars => StopsCounted'
<1> SUFFICES ASSUME TypeOK, StopsCounted, [Next]_vars PROVE StopsCounted'
  OBVIOUS
<1> USE DEF StopsCounted, ActiveStops
<1>1. ASSUME NEW c \in Chats,
             SendBegin(c) \/ SendRefused(c) \/ LoadHistory(c)
             \/ AppendTurn(c) \/ Confirm(c) \/ Activate(c)
             \/ Publish(c) \/ Finish(c) \/ UnsetActive(c)
             \/ DropGuard(c) \/ StartFails(c) \/ PrepareFails(c)
             \/ CallDropped(c) \/ RunDies(c) \/ FinaliseRun(c)
             \/ FinaliseActive(c) \/ RunAppends(c)
             \/ (\E t \in Terminals : RunEnds(c, t)) \/ StopRun(c)
      PROVE  StopsCounted'
  BY <1>1 DEF gateVars, stopVars, BeginSend, NewGuard, ConfirmStart,
         RefuseCancelled, Abandon, PublishRun, FinishRun, CancelRun, others,
         SendBegin, SendRefused, LoadHistory, AppendTurn, Confirm, Activate,
         Publish, Finish, UnsetActive, DropGuard, StartFails, PrepareFails,
         CallDropped, RunDies, FinaliseRun, FinaliseActive, RunAppends,
         RunEnds, StopRun
<1>2. ASSUME NEW c \in Sends,
             AcquireTurn(c) \/ EnqueueBegin(c) \/ EnqueueCommit(c)
             \/ FinishEnqueue(c) \/ Attach(c) \/ DropUnattached(c)
             \/ CheckSuppressed(c) \/ DrainQueue(c)
             \/ StartQueuedBatch(c) \/ OwnerDropsTurn(c)
             \/ OwnerDropsHolder(c) \/ EnqueueFails(c) \/ DrainFails(c)
             \/ RemoveQueued(c)
      PROVE  StopsCounted'
  BY <1>2 DEF gateVars, stopVars, BeginEnqueue, RefuseCancelled, Abandon,
         AttachPermit, ArmNextBatch, NewGuard, DropHolder, others,
         AcquireTurn, EnqueueBegin, EnqueueCommit, FinishEnqueue, Attach,
         DropUnattached, CheckSuppressed, DrainQueue, StartQueuedBatch,
         OwnerDropsTurn, OwnerDropsHolder, EnqueueFails, DrainFails,
         RemoveQueued
<1>3. ASSUME NEW m \in Mutators,
             Reserve(m) \/ MutationStopped(m) \/ Acquire(m)
             \/ Mutate(m) \/ MutationDropsGate(m)
             \/ MutationDropsTurn(m)
      PROVE  StopsCounted'
  BY <1>3 DEF gateVars, stopVars, untouchedByMutations, Reserve,
         MutationStopped, Acquire, Mutate, MutationDropsGate,
         MutationDropsTurn
<1>4. ASSUME NEW w \in Waiters,
             WaitSubscribe(w) \/ WaitReadTerminal(w)
             \/ WaitReadActive(w) \/ WaitChanged(w)
      PROVE  StopsCounted'
  BY <1>4 DEF gateVars, stopVars, untouchedByWaits, WaitSubscribe,
         WaitReadTerminal, WaitReadActive, WaitChanged
<1>5. ASSUME ClearChat
      PROVE  StopsCounted'
  BY <1>5 DEF gateVars, stopVars, others, ClearChat
<1>6. ASSUME NEW s \in Stoppers, NEW e \in Chats \cup {None}, StopChoose(s, e)
      PROVE  StopsCounted'
  <2>1. ActiveStops' = ActiveStops \cup {s} /\ s \notin ActiveStops
    BY <1>6 DEF StopChoose, SGoto, ActiveStops, StopPlaces, TypeOK, TypeOKStops
  <2>2. Cardinality(ActiveStops \cup {s}) = Cardinality(ActiveStops) + 1
    BY <2>1, CallSetsFinite, FS_AddElement
  <2>3. stopDepth' = stopDepth + 1
    BY <1>6 DEF StopChoose, ChooseStop
  <2>4. suppressed'
    <3>1. CASE Stopping
      <4>1. Cardinality(ActiveStops) /= 0
        BY <3>1 DEF Stopping, StopsCounted
      <4>2. suppressed
        BY <4>1, FS_EmptySet DEF StopsCounted
      <4> QED
        BY <1>6, <3>1, <4>2 DEF StopChoose, ChooseStop
    <3>2. CASE ~Stopping
      BY <1>6, <3>2 DEF StopChoose, ChooseStop
    <3> QED
      BY <3>1, <3>2
  <2> QED
    BY <2>1, <2>2, <2>3, <2>4 DEF StopsCounted
<1>7. ASSUME NEW s \in Stoppers, NEW e \in Chats \cup {None}, StopMismatch(s, e)
      PROVE  StopsCounted'
  <2>1. PICK l \in {"mismatch"} : SGoto(s, l)
    BY <1>7 DEF StopMismatch
  <2>2. (l \in StopPlaces) <=> (spc[s] \in StopPlaces)
    BY <1>7, <2>1 DEF StopMismatch, StopPlaces
  <2>3. UNCHANGED <<stopDepth, suppressed>>
    BY <1>7 DEF StopMismatch, gateVars
  <2> QED
    BY <2>1, <2>2, <2>3, StopsKept
<1>8. ASSUME NEW s \in Stoppers, StopLook(s) PROVE StopsCounted'
  <2>1. PICK l \in {"capturing", "snapshot"} : SGoto(s, l)
    BY <1>8 DEF StopLook
  <2>2. (l \in StopPlaces) <=> (spc[s] \in StopPlaces)
    BY <1>8, <2>1 DEF StopLook, StopPlaces
  <2>3. UNCHANGED <<stopDepth, suppressed>>
    BY <1>8 DEF StopLook, Watch, gateVars
  <2> QED
    BY <2>1, <2>2, <2>3, StopsKept
<1>9. ASSUME NEW s \in Stoppers, StopCapture(s) PROVE StopsCounted'
  <2>1. PICK l \in {"awaiting", "snapshot"} : SGoto(s, l)
    BY <1>9 DEF StopCapture
  <2>2. (l \in StopPlaces) <=> (spc[s] \in StopPlaces)
    BY <1>9, <2>1 DEF StopCapture, StopPlaces
  <2>3. UNCHANGED <<stopDepth, suppressed>>
    BY <1>9 DEF StopCapture, CancelRun, gateVars
  <2> QED
    BY <2>1, <2>2, <2>3, StopsKept
<1>10. ASSUME NEW s \in Stoppers, StopAwait(s) PROVE StopsCounted'
  <2>1. PICK l \in {"failing", "snapshot"} : SGoto(s, l)
    BY <1>10 DEF StopAwait
  <2>2. (l \in StopPlaces) <=> (spc[s] \in StopPlaces)
    BY <1>10, <2>1 DEF StopAwait, StopPlaces
  <2>3. UNCHANGED <<stopDepth, suppressed>>
    BY <1>10 DEF StopAwait, gateVars
  <2> QED
    BY <2>1, <2>2, <2>3, StopsKept
<1>11. ASSUME NEW s \in Stoppers, StopSnapshot(s) PROVE StopsCounted'
  <2>1. PICK l \in {"failing", "clearing", "sleeping"} : SGoto(s, l)
    BY <1>11 DEF StopSnapshot
  <2>2. (l \in StopPlaces) <=> (spc[s] \in StopPlaces)
    BY <1>11, <2>1 DEF StopSnapshot, StopPlaces
  <2>3. UNCHANGED <<stopDepth, suppressed>>
    BY <1>11 DEF StopSnapshot, gateVars
  <2> QED
    BY <2>1, <2>2, <2>3, StopsKept
<1>12. ASSUME NEW s \in Stoppers, StopWake(s) PROVE StopsCounted'
  <2>1. PICK l \in {"looking"} : SGoto(s, l)
    BY <1>12 DEF StopWake
  <2>2. (l \in StopPlaces) <=> (spc[s] \in StopPlaces)
    BY <1>12, <2>1 DEF StopWake, StopPlaces
  <2>3. UNCHANGED <<stopDepth, suppressed>>
    BY <1>12 DEF StopWake, gateVars
  <2> QED
    BY <2>1, <2>2, <2>3, StopsKept
<1>13. ASSUME NEW s \in Stoppers, StopClear(s) PROVE StopsCounted'
  <2>1. PICK l \in {"rechecking", "failing"} : SGoto(s, l)
    BY <1>13 DEF StopClear
  <2>2. (l \in StopPlaces) <=> (spc[s] \in StopPlaces)
    BY <1>13, <2>1 DEF StopClear, StopPlaces
  <2>3. UNCHANGED <<stopDepth, suppressed>>
    BY <1>13 DEF StopClear, gateVars
  <2> QED
    BY <2>1, <2>2, <2>3, StopsKept
<1>14. ASSUME NEW s \in Stoppers, StopRecheck(s) PROVE StopsCounted'
  <2>1. PICK l \in {"failing", "ending", "looking"} : SGoto(s, l)
    BY <1>14 DEF StopRecheck
  <2>2. (l \in StopPlaces) <=> (spc[s] \in StopPlaces)
    BY <1>14, <2>1 DEF StopRecheck, StopPlaces
  <2>3. UNCHANGED <<stopDepth, suppressed>>
    BY <1>14 DEF StopRecheck, gateVars
  <2> QED
    BY <2>1, <2>2, <2>3, StopsKept
<1>15. ASSUME NEW s \in Stoppers, StopEnd(s) PROVE StopsCounted'
  <2>1. ActiveStops' = ActiveStops \ {s} /\ s \in ActiveStops
    BY <1>15 DEF StopEnd, SGoto, ActiveStops, StopPlaces, TypeOK, TypeOKStops
  <2>2. /\ Cardinality(ActiveStops \ {s}) = Cardinality(ActiveStops) - 1
        /\ IsFiniteSet(ActiveStops \ {s})
    BY <2>1, CallSetsFinite, FS_RemoveElement
  <2>3. Cardinality(ActiveStops) /= 0 /\ Cardinality(ActiveStops) \in Nat
    BY <2>1, CallSetsFinite, FS_EmptySet, FS_CardinalityType
  <2>4. stopDepth' = stopDepth - 1
    BY <1>15, <2>3 DEF StopEnd, EndStop, Stopping, StopsCounted
  <2>5. (stopDepth <= 1) <=> (ActiveStops \ {s} = {})
    BY <2>2, <2>3, FS_EmptySet DEF StopsCounted
  <2>6. suppressed' = IF stopDepth <= 1 THEN FALSE ELSE suppressed
    BY <1>15 DEF StopEnd, EndStop
  <2>7. suppressed
    BY <2>1 DEF StopsCounted
  <2> QED
    BY <2>1, <2>2, <2>4, <2>5, <2>6, <2>7 DEF StopsCounted
<1>16. ASSUME NEW s \in Stoppers, StopDropped(s) PROVE StopsCounted'
  <2>1. PICK l \in {"failing"} : SGoto(s, l)
    BY <1>16 DEF StopDropped
  <2>2. (l \in StopPlaces) <=> (spc[s] \in StopPlaces)
    BY <1>16, <2>1 DEF StopDropped, StopPlaces
  <2>3. UNCHANGED <<stopDepth, suppressed>>
    BY <1>16 DEF StopDropped, gateVars
  <2> QED
    BY <2>1, <2>2, <2>3, StopsKept
<1>17. ASSUME Crash PROVE StopsCounted'
  <2>1. ActiveStops' = {}
    BY <1>17 DEF Crash, ActiveStops, StopPlaces
  <2> QED
    BY <1>17, <2>1, FS_EmptySet DEF Crash, RestartGate, StopsCounted
<1>18. CASE UNCHANGED vars
  BY <1>18 DEF vars, gateVars, stopVars
<1> QED
  BY <1>1, <1>2, <1>3, <1>4, <1>5, <1>6, <1>7, <1>8, <1>9, <1>10, <1>11,
     <1>12, <1>13, <1>14, <1>15, <1>16, <1>17, <1>18
     DEF Next, SendStep, TurnStep, SendFails, TurnFails, FinaliserStep, StopStep,
         MutationStep, WaitStep, AllReturned

(* The counters start at zero, and nobody is counted. *)
LEMMA InitCounted == Init => HoldersCounted /\ StopsCounted
<1> SUFFICES ASSUME Init PROVE HoldersCounted /\ StopsCounted
  OBVIOUS
<1>1. Holders = {} /\ ActiveStops = {}
  BY DEF Init, Holders, HolderPlaces, TurnPlaces, ActiveStops, StopPlaces, Chats
<1> QED
  BY <1>1, FS_EmptySet DEF Init, InitGate, HoldersCounted, StopsCounted

(* permit_holders is the number of sends that own a PermitRelease and       *)
(* stop_depth the number of stops in progress, whatever order guards,       *)
(* permits and overlapping stops come and go in; batches are suppressed     *)
(* exactly while some stop is in progress.                                  *)
THEOREM CountersCorrect == Spec => []CountersExact
<1>1. HoldersCounted /\ StopsCounted => CountersExact
  BY DEF HoldersCounted, StopsCounted, CountersExact
<1> QED
  BY <1>1, InitCounted, HoldersStep, StopsStep, TypeCorrect, PTL DEF Spec

-----------------------------------------------------------------------------
(* Guards, runs and batches. *)

(* A send_sync has no permit to give back and no batch to drain. *)
LEMMA SyncStep ==
  TypeOK /\ SyncPlaces /\ [Next]_vars => SyncPlaces'
<1> SUFFICES ASSUME TypeOK, SyncPlaces, [Next]_vars PROVE SyncPlaces'
  OBVIOUS
<1> USE ChatTurnsAssumption DEF SyncPlaces
<1>1. ASSUME NEW c \in Chats,
             FinaliseRun(c) \/ FinaliseActive(c) \/ RunAppends(c)
             \/ StopRun(c)
      PROVE  SyncPlaces'
  BY <1>1 DEF TypeOK, untouchedByStops, chatVars, FinaliseRun,
         FinaliseActive, RunAppends, StopRun
<1>2. ASSUME NEW c \in Sends,
             AcquireTurn(c) \/ EnqueueBegin(c) \/ EnqueueCommit(c)
             \/ FinishEnqueue(c) \/ Attach(c) \/ DropUnattached(c)
             \/ CheckSuppressed(c) \/ DrainQueue(c)
             \/ StartQueuedBatch(c) \/ OwnerDropsTurn(c)
             \/ OwnerDropsHolder(c) \/ EnqueueFails(c) \/ DrainFails(c)
             \/ RemoveQueued(c)
      PROVE  SyncPlaces'
  BY <1>2 DEF TypeOK, Goto, TypeOKChats, Chats, chatVars, AcquireTurn,
         EnqueueBegin, EnqueueCommit, FinishEnqueue, Attach, DropUnattached,
         CheckSuppressed, DrainQueue, StartQueuedBatch, OwnerDropsTurn,
         OwnerDropsHolder, EnqueueFails, DrainFails, RemoveQueued
<1>3. ASSUME NEW s \in Stoppers,
             (\E e \in Chats \cup {None} : StopChoose(s, e))
             \/ (\E e \in Chats \cup {None} : StopMismatch(s, e))
             \/ StopLook(s) \/ StopCapture(s) \/ StopAwait(s)
             \/ StopSnapshot(s) \/ StopWake(s) \/ StopClear(s)
             \/ StopRecheck(s) \/ StopEnd(s) \/ StopDropped(s)
      PROVE  SyncPlaces'
  BY <1>3 DEF TypeOK, untouchedByStops, chatVars, StopChoose, StopMismatch,
         StopLook, StopCapture, StopAwait, StopSnapshot, StopWake, StopClear,
         StopRecheck, StopEnd, StopDropped
<1>4. ASSUME NEW m \in Mutators,
             Reserve(m) \/ MutationStopped(m) \/ Acquire(m)
             \/ Mutate(m) \/ MutationDropsGate(m)
             \/ MutationDropsTurn(m)
      PROVE  SyncPlaces'
  BY <1>4 DEF TypeOK, untouchedByMutations, Reserve, MutationStopped,
         Acquire, Mutate, MutationDropsGate, MutationDropsTurn
<1>5. ASSUME NEW w \in Waiters,
             WaitSubscribe(w) \/ WaitReadTerminal(w)
             \/ WaitReadActive(w) \/ WaitChanged(w)
      PROVE  SyncPlaces'
  BY <1>5 DEF TypeOK, untouchedByWaits, chatVars, WaitSubscribe,
         WaitReadTerminal, WaitReadActive, WaitChanged
<1>6. ASSUME ClearChat
      PROVE  SyncPlaces'
  BY <1>6 DEF TypeOK, others, ClearChat
<1>7. ASSUME NEW c \in Chats, SendBegin(c) PROVE SyncPlaces'
  BY <1>7 DEF Goto, TypeOK, TypeOKChats, TurnPlaces, Exit, Chats, SendBegin
<1>8. ASSUME NEW c \in Chats, SendRefused(c) PROVE SyncPlaces'
  BY <1>8 DEF Goto, TypeOK, TypeOKChats, TurnPlaces, Exit, Chats, SendRefused
<1>9. ASSUME NEW c \in Chats, LoadHistory(c) PROVE SyncPlaces'
  BY <1>9 DEF Goto, TypeOK, TypeOKChats, TurnPlaces, Exit, Chats, LoadHistory
<1>10. ASSUME NEW c \in Chats, AppendTurn(c) PROVE SyncPlaces'
  BY <1>10 DEF Goto, TypeOK, TypeOKChats, TurnPlaces, Exit, Chats, AppendTurn
<1>11. ASSUME NEW c \in Chats, Confirm(c) PROVE SyncPlaces'
  BY <1>11 DEF Goto, TypeOK, TypeOKChats, TurnPlaces, Exit, Chats, Confirm
<1>12. ASSUME NEW c \in Chats, Activate(c) PROVE SyncPlaces'
  BY <1>12 DEF Goto, TypeOK, TypeOKChats, TurnPlaces, Exit, Chats, Activate
<1>13. ASSUME NEW c \in Chats, Publish(c) PROVE SyncPlaces'
  BY <1>13 DEF Goto, TypeOK, TypeOKChats, TurnPlaces, Exit, Chats, Publish
<1>14. ASSUME NEW c \in Chats, Finish(c) PROVE SyncPlaces'
  BY <1>14 DEF Goto, TypeOK, TypeOKChats, TurnPlaces, Exit, Chats, Finish
<1>15. ASSUME NEW c \in Chats, UnsetActive(c) PROVE SyncPlaces'
  BY <1>15 DEF Goto, TypeOK, TypeOKChats, TurnPlaces, Exit, Chats,
         UnsetActive
<1>16. ASSUME NEW c \in Chats, DropGuard(c) PROVE SyncPlaces'
  BY <1>16 DEF Goto, TypeOK, TypeOKChats, TurnPlaces, Exit, Chats, DropGuard
<1>17. ASSUME NEW c \in Chats, StartFails(c) PROVE SyncPlaces'
  BY <1>17 DEF Goto, TypeOK, TypeOKChats, TurnPlaces, Exit, Chats, StartFails
<1>18. ASSUME NEW c \in Chats, PrepareFails(c) PROVE SyncPlaces'
  BY <1>18 DEF Goto, TypeOK, TypeOKChats, TurnPlaces, Exit, Chats,
         PrepareFails
<1>19. ASSUME NEW c \in Chats, CallDropped(c) PROVE SyncPlaces'
  BY <1>19 DEF Goto, TypeOK, TypeOKChats, TurnPlaces, Exit, Chats,
         CallDropped
<1>20. ASSUME NEW c \in Chats, RunDies(c) PROVE SyncPlaces'
  BY <1>20 DEF Goto, TypeOK, TypeOKChats, TurnPlaces, Exit, Chats, RunDies
<1>21. ASSUME NEW c \in Chats, NEW t \in Terminals, RunEnds(c, t)
       PROVE  SyncPlaces'
  BY <1>21 DEF Goto, TypeOK, TypeOKChats, TurnPlaces, Exit, Chats, RunEnds
<1>22. ASSUME Crash PROVE SyncPlaces'
  BY <1>22 DEF TurnPlaces, Chats, Crash
<1>23. CASE UNCHANGED vars
  BY <1>23 DEF vars, TypeOK, chatVars
<1> QED
  BY <1>1, <1>2, <1>3, <1>4, <1>5, <1>6, <1>7, <1>8, <1>9, <1>10, <1>11,
     <1>12, <1>13, <1>14, <1>15, <1>16, <1>17, <1>18, <1>19, <1>20, <1>21,
     <1>22, <1>23
     DEF Next, SendStep, TurnStep, SendFails, TurnFails, FinaliserStep, StopStep,
         MutationStep, WaitStep, AllReturned

SameGuard(d) ==
  /\ pc'[d] = pc[d]
  /\ phase'[d] = phase[d]
  /\ guardRun'[d] = guardRun[d]
  /\ batch'[d] = batch[d]
  /\ finaliser'[d] = finaliser[d]

(* A step of one call leaves the guards of the others alone. *)
LEMMA GuardFrame ==
  ASSUME GuardOfPlace, NEW c \in Chats, GuardFits(c)',
         \A d \in Chats \ {c} : SameGuard(d)
  PROVE  GuardOfPlace'
<1> SUFFICES ASSUME NEW d \in Chats, d /= c PROVE GuardFits(d)'
  BY DEF GuardOfPlace
<1>1. GuardFits(d) /\ SameGuard(d)
  BY DEF GuardOfPlace
<1> QED
  BY <1>1 DEF GuardFits, SameGuard, Run

(* Two calls in a turn, or one of them with a finaliser, have runs of       *)
(* different names.                                                         *)
LEMMA RunsDiffer ==
  ASSUME TypeOK, BatchesDisjoint, NEW c \in Chats, NEW d \in Chats, c /= d,
         pc[d] \in {"publishing", "running", "finishOk", "finishErr"},
         \/ pc[c] \in {"running", "finishOk", "finishErr"}
         \/ finaliser[c] /= "none"
  PROVE  Run(c) /= Run(d)
<1>1. ASSUME NEW e \in Chats PROVE Run(e) \in Chats /\ InBatch(e, Run(e))
  <2>1. batch[e] \in Seq(Chats) /\ batch[e] /= <<>>
    BY DEF TypeOK, TypeOKChats
  <2>2. Len(batch[e]) \in DOMAIN batch[e]
    BY <2>1
  <2> QED
    BY <2>1, <2>2 DEF Run, InBatch
<1>2. ~Accepted(c) /\ ~Accepted(d)
  BY DEF BatchesDisjoint
<1> QED
  BY <1>1, <1>2 DEF BatchesDisjoint

(* Every step leaves each call with a guard that fits its place. *)
LEMMA GuardStep ==
  TypeOK /\ BatchesDisjoint /\ GuardOfPlace /\ [Next]_vars => GuardOfPlace'
<1> SUFFICES ASSUME TypeOK, BatchesDisjoint, GuardOfPlace, [Next]_vars PROVE GuardOfPlace'
  OBVIOUS
<1>1. ASSUME NEW c \in Chats,
             RunAppends(c) \/ StopRun(c)
      PROVE  GuardOfPlace'
  BY <1>1 DEF GuardOfPlace, GuardFits, Run, gateVars, untouchedByStops,
         chatVars, CancelRun, RunAppends, StopRun
<1>2. ASSUME NEW c \in Sends,
             RemoveQueued(c)
      PROVE  GuardOfPlace'
  BY <1>2 DEF GuardOfPlace, GuardFits, Run, gateVars, chatVars, RemoveQueued
<1>3. ASSUME NEW s \in Stoppers,
             (\E e \in Chats \cup {None} : StopChoose(s, e))
             \/ (\E e \in Chats \cup {None} : StopMismatch(s, e))
             \/ StopLook(s) \/ StopCapture(s) \/ StopAwait(s)
             \/ StopSnapshot(s) \/ StopWake(s) \/ StopClear(s)
             \/ StopRecheck(s) \/ StopEnd(s) \/ StopDropped(s)
      PROVE  GuardOfPlace'
  BY <1>3 DEF GuardOfPlace, GuardFits, Run, gateVars, untouchedByStops,
         chatVars, ChooseStop, Watch, CancelRun, EndStop, StopChoose,
         StopMismatch, StopLook, StopCapture, StopAwait, StopSnapshot,
         StopWake, StopClear, StopRecheck, StopEnd, StopDropped
<1>4. ASSUME NEW m \in Mutators,
             Reserve(m) \/ MutationStopped(m) \/ Acquire(m)
             \/ Mutate(m) \/ MutationDropsGate(m)
             \/ MutationDropsTurn(m)
      PROVE  GuardOfPlace'
  BY <1>4 DEF GuardOfPlace, GuardFits, Run, gateVars, untouchedByMutations,
         Reserve, MutationStopped, Acquire, Mutate, MutationDropsGate,
         MutationDropsTurn
<1>5. ASSUME NEW w \in Waiters,
             WaitSubscribe(w) \/ WaitReadTerminal(w)
             \/ WaitReadActive(w) \/ WaitChanged(w)
      PROVE  GuardOfPlace'
  BY <1>5 DEF GuardOfPlace, GuardFits, Run, gateVars, untouchedByWaits,
         chatVars, WaitSubscribe, WaitReadTerminal, WaitReadActive,
         WaitChanged
<1>6. ASSUME ClearChat
      PROVE  GuardOfPlace'
  BY <1>6 DEF GuardOfPlace, GuardFits, Run, gateVars, others, ClearChat
<1>7. ASSUME NEW c \in Chats, SendBegin(c) PROVE GuardOfPlace'
  <2>1. \A d \in Chats \ {c} : SameGuard(d)
    BY <1>7 DEF SendBegin, SameGuard, Goto, BeginSend, NewGuard, gateVars,
         TypeOK, TypeOKChats, TypeOKGate
  <2>2. GuardFits(c)'
    BY <1>7 DEF SendBegin, GuardFits, GuardOfPlace, Goto, BeginSend, NewGuard,
         gateVars, Run, TypeOK, TypeOKChats, TypeOKGate
  <2> QED
    BY <2>1, <2>2, GuardFrame
<1>8. ASSUME NEW c \in Chats, SendRefused(c) PROVE GuardOfPlace'
  <2>1. \A d \in Chats \ {c} : SameGuard(d)
    BY <1>8 DEF SendRefused, SameGuard, Goto, gateVars, TypeOK, TypeOKChats,
         TypeOKGate
  <2>2. GuardFits(c)'
    BY <1>8 DEF SendRefused, GuardFits, GuardOfPlace, Goto, gateVars, Run,
         TypeOK, TypeOKChats, TypeOKGate
  <2> QED
    BY <2>1, <2>2, GuardFrame
<1>9. ASSUME NEW c \in Chats, LoadHistory(c) PROVE GuardOfPlace'
  <2>1. \A d \in Chats \ {c} : SameGuard(d)
    BY <1>9 DEF LoadHistory, SameGuard, Goto, gateVars, TypeOK, TypeOKChats,
         TypeOKGate
  <2>2. GuardFits(c)'
    BY <1>9 DEF LoadHistory, GuardFits, GuardOfPlace, Goto, gateVars, Run,
         TypeOK, TypeOKChats, TypeOKGate
  <2> QED
    BY <2>1, <2>2, GuardFrame
<1>10. ASSUME NEW c \in Chats, AppendTurn(c) PROVE GuardOfPlace'
  <2>1. \A d \in Chats \ {c} : SameGuard(d)
    BY <1>10 DEF AppendTurn, SameGuard, Goto, gateVars, TypeOK, TypeOKChats,
         TypeOKGate
  <2>2. GuardFits(c)'
    BY <1>10 DEF AppendTurn, GuardFits, GuardOfPlace, Goto, Exit, gateVars, Run,
         TypeOK, TypeOKChats, TypeOKGate
  <2> QED
    BY <2>1, <2>2, GuardFrame
<1>11. ASSUME NEW c \in Chats, Confirm(c) PROVE GuardOfPlace'
  <2>1. \A d \in Chats \ {c} : SameGuard(d)
    BY <1>11 DEF Confirm, SameGuard, Goto, ConfirmStart, RefuseCancelled,
         Abandon, gateVars, TypeOK, TypeOKChats, TypeOKGate
  <2>2. GuardFits(c)'
    BY <1>11 DEF Confirm, GuardFits, GuardOfPlace, Goto, Exit, ConfirmStart,
         RefuseCancelled, Abandon, gateVars, Run, TypeOK, TypeOKChats,
         TypeOKGate
  <2> QED
    BY <2>1, <2>2, GuardFrame
<1>12. ASSUME NEW c \in Chats, Activate(c) PROVE GuardOfPlace'
  <2>1. \A d \in Chats \ {c} : SameGuard(d)
    BY <1>12 DEF Activate, SameGuard, Goto, gateVars, TypeOK, TypeOKChats,
         TypeOKGate
  <2>2. GuardFits(c)'
    BY <1>12 DEF Activate, GuardFits, GuardOfPlace, Goto, gateVars, Run, TypeOK,
         TypeOKChats, TypeOKGate
  <2> QED
    BY <2>1, <2>2, GuardFrame
<1>13. ASSUME NEW c \in Chats, Publish(c) PROVE GuardOfPlace'
  <2>1. \A d \in Chats \ {c} : SameGuard(d)
    BY <1>13 DEF Publish, SameGuard, Goto, PublishRun, gateVars, TypeOK,
         TypeOKChats, TypeOKGate
  <2>2. GuardFits(c)'
    BY <1>13 DEF Publish, GuardFits, GuardOfPlace, Goto, PublishRun, gateVars,
         Run, TypeOK, TypeOKChats, TypeOKGate
  <2> QED
    BY <2>1, <2>2, GuardFrame
<1>14. ASSUME NEW c \in Chats, Finish(c) PROVE GuardOfPlace'
  <2>1. Run(c) \in Chats
    BY RunType DEF TypeOK
  <2>2. phase' = [d \in Chats |-> IF guardRun[d] = Run(c) THEN "none" ELSE phase[d]]
        /\ UNCHANGED <<guardRun, batch>>
    BY <1>14 DEF Finish, FinishRun
  <2>3. ASSUME NEW d \in Chats, d /= c PROVE GuardFits(d)'
    <3>1. pc'[d] = pc[d] /\ finaliser'[d] = finaliser[d]
      BY <1>14, <2>3 DEF Finish, Goto, TypeOK, TypeOKChats
    <3>2. GuardFits(d) /\ GuardFits(c)
      BY DEF GuardOfPlace
    <3>3. CASE guardRun[d] = Run(c)
      <4>1. pc[d] \notin {"running", "finishOk", "finishErr"}
        BY <1>14, <2>1, <2>3, <3>2, <3>3, RunsDiffer DEF Finish, GuardFits
      <4>2. guardRun[d] /= None
        BY <2>1, <3>3, ChatTurnsAssumption DEF Chats
      <4>3. phase'[d] = "none"
        BY <2>2, <3>3
      <4> QED
        BY <3>1, <3>2, <4>1, <4>2, <4>3, <2>2 DEF GuardFits
    <3>4. CASE guardRun[d] /= Run(c)
      <4>1. SameGuard(d)
        BY <2>2, <3>1, <3>4 DEF SameGuard
      <4> QED
        BY <3>2, <4>1 DEF GuardFits, SameGuard, Run
    <3> QED
      BY <3>3, <3>4
  <2>4. GuardFits(c)'
    BY <1>14, <2>2 DEF Finish, GuardFits, GuardOfPlace, Goto, TypeOK, TypeOKChats
  <2> QED
    BY <2>3, <2>4 DEF GuardOfPlace
<1>15. ASSUME NEW c \in Chats, UnsetActive(c) PROVE GuardOfPlace'
  <2>1. \A d \in Chats \ {c} : SameGuard(d)
    BY <1>15 DEF UnsetActive, SameGuard, Goto, gateVars, TypeOK, TypeOKChats,
         TypeOKGate
  <2>2. GuardFits(c)'
    BY <1>15 DEF UnsetActive, GuardFits, GuardOfPlace, Goto, gateVars, Run,
         TypeOK, TypeOKChats, TypeOKGate
  <2> QED
    BY <2>1, <2>2, GuardFrame
<1>16. ASSUME NEW c \in Chats, DropGuard(c) PROVE GuardOfPlace'
  <2>1. \A d \in Chats \ {c} : SameGuard(d)
    BY <1>16 DEF DropGuard, SameGuard, Goto, Abandon, gateVars, TypeOK,
         TypeOKChats, TypeOKGate
  <2>2. GuardFits(c)'
    BY <1>16 DEF DropGuard, GuardFits, GuardOfPlace, Goto, Abandon, gateVars,
         Run, TypeOK, TypeOKChats, TypeOKGate
  <2> QED
    BY <2>1, <2>2, GuardFrame
<1>17. ASSUME NEW c \in Chats, StartFails(c) PROVE GuardOfPlace'
  <2>1. \A d \in Chats \ {c} : SameGuard(d)
    BY <1>17 DEF StartFails, SameGuard, Goto, gateVars, TypeOK, TypeOKChats,
         TypeOKGate
  <2>2. GuardFits(c)'
    BY <1>17 DEF StartFails, GuardFits, GuardOfPlace, Goto, Exit, gateVars, Run,
         TypeOK, TypeOKChats, TypeOKGate
  <2> QED
    BY <2>1, <2>2, GuardFrame
<1>18. ASSUME NEW c \in Chats, PrepareFails(c) PROVE GuardOfPlace'
  <2>1. \A d \in Chats \ {c} : SameGuard(d)
    BY <1>18 DEF PrepareFails, SameGuard, Goto, gateVars, TypeOK, TypeOKChats,
         TypeOKGate
  <2>2. GuardFits(c)'
    BY <1>18 DEF PrepareFails, GuardFits, GuardOfPlace, Goto, Exit, gateVars,
         Run, TypeOK, TypeOKChats, TypeOKGate
  <2> QED
    BY <2>1, <2>2, GuardFrame
<1>19. ASSUME NEW c \in Chats, CallDropped(c) PROVE GuardOfPlace'
  <2>1. \A d \in Chats \ {c} : SameGuard(d)
    BY <1>19 DEF CallDropped, SameGuard, Goto, gateVars, TypeOK, TypeOKChats,
         TypeOKGate
  <2>2. GuardFits(c)'
    BY <1>19 DEF CallDropped, GuardFits, GuardOfPlace, Goto, Exit, gateVars, Run,
         TypeOK, TypeOKChats, TypeOKGate
  <2> QED
    BY <2>1, <2>2, GuardFrame
<1>20. ASSUME NEW c \in Chats, RunDies(c) PROVE GuardOfPlace'
  <2>1. \A d \in Chats \ {c} : SameGuard(d)
    BY <1>20 DEF RunDies, SameGuard, Goto, gateVars, TypeOK, TypeOKChats,
         TypeOKGate
  <2>2. GuardFits(c)'
    BY <1>20 DEF RunDies, GuardFits, GuardOfPlace, Goto, Exit, gateVars, Run,
         TypeOK, TypeOKChats, TypeOKGate
  <2> QED
    BY <2>1, <2>2, GuardFrame
<1>21. ASSUME NEW c \in Chats, FinaliseRun(c) PROVE GuardOfPlace'
  <2>1. Run(c) \in Chats
    BY RunType DEF TypeOK
  <2>2. phase' = [d \in Chats |-> IF guardRun[d] = Run(c) THEN "none" ELSE phase[d]]
        /\ UNCHANGED <<guardRun, batch>>
    BY <1>21 DEF FinaliseRun, FinishRun
  <2>3. ASSUME NEW d \in Chats, d /= c PROVE GuardFits(d)'
    <3>1. pc'[d] = pc[d] /\ finaliser'[d] = finaliser[d]
      BY <1>21, <2>3 DEF FinaliseRun, Goto, TypeOK, TypeOKChats
    <3>2. GuardFits(d) /\ GuardFits(c)
      BY DEF GuardOfPlace
    <3>3. CASE guardRun[d] = Run(c)
      <4>1. pc[d] \notin {"running", "finishOk", "finishErr"}
        BY <1>21, <2>1, <2>3, <3>2, <3>3, RunsDiffer DEF FinaliseRun, GuardFits
      <4>2. guardRun[d] /= None
        BY <2>1, <3>3, ChatTurnsAssumption DEF Chats
      <4>3. phase'[d] = "none"
        BY <2>2, <3>3
      <4> QED
        BY <3>1, <3>2, <4>1, <4>2, <4>3, <2>2 DEF GuardFits
    <3>4. CASE guardRun[d] /= Run(c)
      <4>1. SameGuard(d)
        BY <2>2, <3>1, <3>4 DEF SameGuard
      <4> QED
        BY <3>2, <4>1 DEF GuardFits, SameGuard, Run
    <3> QED
      BY <3>3, <3>4
  <2>4. GuardFits(c)'
    BY <1>21, <2>2 DEF FinaliseRun, GuardFits, GuardOfPlace, Goto, TypeOK, TypeOKChats
  <2> QED
    BY <2>3, <2>4 DEF GuardOfPlace
<1>22. ASSUME NEW c \in Chats, FinaliseActive(c) PROVE GuardOfPlace'
  <2>1. \A d \in Chats \ {c} : SameGuard(d)
    BY <1>22 DEF FinaliseActive, SameGuard, Goto, gateVars, TypeOK, TypeOKChats,
         TypeOKGate
  <2>2. GuardFits(c)'
    BY <1>22 DEF FinaliseActive, GuardFits, GuardOfPlace, Goto, gateVars, Run,
         TypeOK, TypeOKChats, TypeOKGate
  <2> QED
    BY <2>1, <2>2, GuardFrame
<1>23. ASSUME NEW c \in Chats, NEW t \in Terminals, RunEnds(c, t)
       PROVE  GuardOfPlace'
  <2>1. \A d \in Chats \ {c} : SameGuard(d)
    BY <1>23 DEF RunEnds, SameGuard, Goto, gateVars, TypeOK, TypeOKChats,
         TypeOKGate
  <2>2. GuardFits(c)'
    BY <1>23 DEF RunEnds, GuardFits, GuardOfPlace, Goto, gateVars, Run, TypeOK,
         TypeOKChats, TypeOKGate
  <2> QED
    BY <2>1, <2>2, GuardFrame
<1>24. ASSUME NEW c \in Sends, AcquireTurn(c) PROVE GuardOfPlace'
  <2>1. \A d \in Chats \ {c} : SameGuard(d)
    BY <1>24 DEF AcquireTurn, SameGuard, Goto, gateVars, TypeOK, TypeOKChats,
         TypeOKGate, Chats
  <2>2. GuardFits(c)'
    BY <1>24 DEF AcquireTurn, GuardFits, GuardOfPlace, Goto, gateVars, Run,
         TypeOK, TypeOKChats, TypeOKGate, Chats
  <2> QED
    BY <2>1, <2>2, GuardFrame DEF Chats
<1>25. ASSUME NEW c \in Sends, EnqueueBegin(c) PROVE GuardOfPlace'
  <2>1. \A d \in Chats \ {c} : SameGuard(d)
    BY <1>25 DEF EnqueueBegin, SameGuard, Goto, BeginEnqueue, RefuseCancelled,
         Abandon, gateVars, TypeOK, TypeOKChats, TypeOKGate, Chats
  <2>2. GuardFits(c)'
    BY <1>25 DEF EnqueueBegin, GuardFits, GuardOfPlace, Goto, BeginEnqueue,
         RefuseCancelled, Abandon, gateVars, Run, TypeOK, TypeOKChats,
         TypeOKGate, Chats
  <2> QED
    BY <2>1, <2>2, GuardFrame DEF Chats
<1>26. ASSUME NEW c \in Sends, EnqueueCommit(c) PROVE GuardOfPlace'
  <2>1. \A d \in Chats \ {c} : SameGuard(d)
    BY <1>26 DEF EnqueueCommit, SameGuard, Goto, gateVars, TypeOK, TypeOKChats,
         TypeOKGate, Chats
  <2>2. GuardFits(c)'
    BY <1>26 DEF EnqueueCommit, GuardFits, GuardOfPlace, Goto, gateVars, Run,
         TypeOK, TypeOKChats, TypeOKGate, Chats
  <2> QED
    BY <2>1, <2>2, GuardFrame DEF Chats
<1>27. ASSUME NEW c \in Sends, FinishEnqueue(c) PROVE GuardOfPlace'
  <2>1. \A d \in Chats \ {c} : SameGuard(d)
    BY <1>27 DEF FinishEnqueue, SameGuard, Goto, Abandon, gateVars, TypeOK,
         TypeOKChats, TypeOKGate, Chats
  <2>2. GuardFits(c)'
    BY <1>27 DEF FinishEnqueue, GuardFits, GuardOfPlace, Goto, Abandon, gateVars,
         Run, TypeOK, TypeOKChats, TypeOKGate, Chats
  <2> QED
    BY <2>1, <2>2, GuardFrame DEF Chats
<1>28. ASSUME NEW c \in Sends, Attach(c) PROVE GuardOfPlace'
  <2>1. \A d \in Chats \ {c} : SameGuard(d)
    BY <1>28 DEF Attach, SameGuard, Goto, AttachPermit, RefuseCancelled, Abandon,
         gateVars, TypeOK, TypeOKChats, TypeOKGate, Chats
  <2>2. GuardFits(c)'
    BY <1>28 DEF Attach, GuardFits, GuardOfPlace, Goto, AttachPermit,
         RefuseCancelled, Abandon, gateVars, Run, TypeOK, TypeOKChats,
         TypeOKGate, Chats
  <2> QED
    BY <2>1, <2>2, GuardFrame DEF Chats
<1>29. ASSUME NEW c \in Sends, DropUnattached(c) PROVE GuardOfPlace'
  <2>1. \A d \in Chats \ {c} : SameGuard(d)
    BY <1>29 DEF DropUnattached, SameGuard, Goto, gateVars, TypeOK, TypeOKChats,
         TypeOKGate, Chats
  <2>2. GuardFits(c)'
    BY <1>29 DEF DropUnattached, GuardFits, GuardOfPlace, Goto, gateVars, Run,
         TypeOK, TypeOKChats, TypeOKGate, Chats
  <2> QED
    BY <2>1, <2>2, GuardFrame DEF Chats
<1>30. ASSUME NEW c \in Sends, CheckSuppressed(c) PROVE GuardOfPlace'
  <2>1. \A d \in Chats \ {c} : SameGuard(d)
    BY <1>30 DEF CheckSuppressed, SameGuard, Goto, gateVars, TypeOK, TypeOKChats,
         TypeOKGate, Chats
  <2>2. GuardFits(c)'
    BY <1>30 DEF CheckSuppressed, GuardFits, GuardOfPlace, Goto, gateVars, Run,
         TypeOK, TypeOKChats, TypeOKGate, Chats
  <2> QED
    BY <2>1, <2>2, GuardFrame DEF Chats
<1>31. ASSUME NEW c \in Sends, DrainQueue(c) PROVE GuardOfPlace'
  <2>1. \A d \in Chats \ {c} : SameGuard(d)
    BY <1>31 DEF DrainQueue, SameGuard, Goto, gateVars, TypeOK, TypeOKChats,
         TypeOKGate, Chats
  <2>2. GuardFits(c)'
    BY <1>31 DEF DrainQueue, GuardFits, GuardOfPlace, Goto, gateVars, Run,
         TypeOK, TypeOKChats, TypeOKGate, Chats
  <2> QED
    BY <2>1, <2>2, GuardFrame DEF Chats
<1>32. ASSUME NEW c \in Sends, StartQueuedBatch(c) PROVE GuardOfPlace'
  <2>1. \A d \in Chats \ {c} : SameGuard(d)
    BY <1>32 DEF StartQueuedBatch, SameGuard, Goto, ArmNextBatch, NewGuard,
         gateVars, TypeOK, TypeOKChats, TypeOKGate, Chats
  <2>2. GuardFits(c)'
    BY <1>32 DEF StartQueuedBatch, GuardFits, GuardOfPlace, Goto, ArmNextBatch,
         NewGuard, gateVars, Run, TypeOK, TypeOKChats, TypeOKGate, Chats
  <2> QED
    BY <2>1, <2>2, GuardFrame DEF Chats
<1>33. ASSUME NEW c \in Sends, OwnerDropsTurn(c) PROVE GuardOfPlace'
  <2>1. \A d \in Chats \ {c} : SameGuard(d)
    BY <1>33 DEF OwnerDropsTurn, SameGuard, Goto, gateVars, TypeOK, TypeOKChats,
         TypeOKGate, Chats
  <2>2. GuardFits(c)'
    BY <1>33 DEF OwnerDropsTurn, GuardFits, GuardOfPlace, Goto, gateVars, Run,
         TypeOK, TypeOKChats, TypeOKGate, Chats
  <2> QED
    BY <2>1, <2>2, GuardFrame DEF Chats
<1>34. ASSUME NEW c \in Sends, OwnerDropsHolder(c) PROVE GuardOfPlace'
  <2>1. \A d \in Chats \ {c} : SameGuard(d)
    BY <1>34 DEF OwnerDropsHolder, SameGuard, Goto, DropHolder, gateVars, TypeOK,
         TypeOKChats, TypeOKGate, Chats
  <2>2. GuardFits(c)'
    BY <1>34 DEF OwnerDropsHolder, GuardFits, GuardOfPlace, Goto, DropHolder,
         gateVars, Run, TypeOK, TypeOKChats, TypeOKGate, Chats
  <2> QED
    BY <2>1, <2>2, GuardFrame DEF Chats
<1>35. ASSUME NEW c \in Sends, EnqueueFails(c) PROVE GuardOfPlace'
  <2>1. \A d \in Chats \ {c} : SameGuard(d)
    BY <1>35 DEF EnqueueFails, SameGuard, Goto, gateVars, TypeOK, TypeOKChats,
         TypeOKGate, Chats
  <2>2. GuardFits(c)'
    BY <1>35 DEF EnqueueFails, GuardFits, GuardOfPlace, Goto, gateVars, Run,
         TypeOK, TypeOKChats, TypeOKGate, Chats
  <2> QED
    BY <2>1, <2>2, GuardFrame DEF Chats
<1>36. ASSUME NEW c \in Sends, DrainFails(c) PROVE GuardOfPlace'
  <2>1. \A d \in Chats \ {c} : SameGuard(d)
    BY <1>36 DEF DrainFails, SameGuard, Goto, gateVars, TypeOK, TypeOKChats,
         TypeOKGate, Chats
  <2>2. GuardFits(c)'
    BY <1>36 DEF DrainFails, GuardFits, GuardOfPlace, Goto, gateVars, Run,
         TypeOK, TypeOKChats, TypeOKGate, Chats
  <2> QED
    BY <2>1, <2>2, GuardFrame DEF Chats
<1>37. ASSUME Crash PROVE GuardOfPlace'
  BY <1>37 DEF GuardOfPlace, GuardFits, RestartGate, Crash
<1>38. CASE UNCHANGED vars
  BY <1>38 DEF vars, GuardOfPlace, GuardFits, Run, gateVars, chatVars
<1> QED
  BY <1>1, <1>2, <1>3, <1>4, <1>5, <1>6, <1>7, <1>8, <1>9, <1>10, <1>11,
     <1>12, <1>13, <1>14, <1>15, <1>16, <1>17, <1>18, <1>19, <1>20, <1>21,
     <1>22, <1>23, <1>24, <1>25, <1>26, <1>27, <1>28, <1>29, <1>30, <1>31,
     <1>32, <1>33, <1>34, <1>35, <1>36, <1>37, <1>38
     DEF Next, SendStep, TurnStep, SendFails, TurnFails, FinaliserStep, StopStep,
         MutationStep, WaitStep, AllReturned

(* Where a call whose prompt was queued can be, and where its batch is      *)
(* still its own prompt.                                                    *)
AfterEnqueue == {"enqueued", "dropGuard", "done"}
BeforeTurn == {"new", "acquiring", "busy", "enqueueing"}

(* A call that moves and leaves queue and batches alone. *)
LEMMA BatchesMove ==
  ASSUME TypeOK, BatchesDisjoint, NEW c \in Chats, NEW l, Goto(c, l),
         UNCHANGED <<queue, accepted, batch>>,
         \A d \in Chats : finaliser'[d] = finaliser[d]
                          \/ (d = c /\ pc[c] \notin AfterEnqueue),
         pc[c] \in AfterEnqueue => l \in AfterEnqueue,
         l \in BeforeTurn => pc[c] \in BeforeTurn
  PROVE  BatchesDisjoint'
<1>1. \A d \in Chats : pc'[d] = IF d = c THEN l ELSE pc[d]
  BY DEF TypeOK, TypeOKChats, Goto
<1>2. \A p \in Chats : /\ Accepted(p)' <=> Accepted(p)
                       /\ Queued(p)' <=> Queued(p)
  BY DEF Accepted, Queued
<1>3. \A d, p \in Chats : InBatch(d, p)' <=> InBatch(d, p)
  BY DEF InBatch
<1>4. \A p \in Chats : Accepted(p) =>
        /\ pc'[p] \in AfterEnqueue
        /\ batch'[p] = <<p>>
        /\ finaliser'[p] = "none"
  BY <1>1 DEF BatchesDisjoint, AfterEnqueue
<1>5. \A p \in Chats : pc'[p] \in BeforeTurn => batch'[p] = <<p>>
  BY <1>1 DEF BatchesDisjoint, BeforeTurn
<1> QED
  BY <1>2, <1>3, <1>4, <1>5 DEF BatchesDisjoint, AfterEnqueue, BeforeTurn

(* A step that takes rows out of the queue and does nothing else here. *)
LEMMA BatchesShrink ==
  ASSUME BatchesDisjoint, UNCHANGED <<pc, accepted, batch, finaliser>>,
         \A p \in Chats : Queued(p)' => Queued(p)
  PROVE  BatchesDisjoint'
<1>1. \A p \in Chats : Accepted(p)' <=> Accepted(p)
  BY DEF Accepted
<1>2. \A d, p \in Chats : InBatch(d, p)' <=> InBatch(d, p)
  BY DEF InBatch
<1> QED
  BY <1>1, <1>2 DEF BatchesDisjoint

(* What is in a sequence after an append. *)
LEMMA AppendMember ==
  ASSUME NEW S, NEW q \in Seq(S), NEW x \in S, NEW p
  PROVE  (\E i \in DOMAIN Append(q, x) : Append(q, x)[i] = p)
           <=> (\E i \in DOMAIN q : q[i] = p) \/ p = x
<1>1. /\ Len(Append(q, x)) = Len(q) + 1
      /\ \A i \in 1..Len(q) : Append(q, x)[i] = q[i]
      /\ Append(q, x)[Len(q) + 1] = x
      /\ Len(q) \in Nat
      /\ DOMAIN q = 1..Len(q) /\ DOMAIN Append(q, x) = 1..(Len(q) + 1)
  BY AppendProperties
<1> QED
  BY <1>1

(* Removing a row leaves no row that was not there. *)
LEMMA RemoveShrinks ==
  ASSUME TypeOKQueue, NEW p \in Sends, Remove(p), NEW q, Queued(q)'
  PROVE  Queued(q)
<1>1. PICK i \in DOMAIN queue :
        queue' = SubSeq(queue, 1, i - 1) \o SubSeq(queue, i + 1, Len(queue))
  BY DEF Remove
<1>2. Len(queue) \in Nat /\ i \in 1..Len(queue) /\ DOMAIN queue = 1..Len(queue)
  BY DEF TypeOKQueue
<1> DEFINE a == SubSeq(queue, 1, i - 1)
           b == SubSeq(queue, i + 1, Len(queue))
<1>3. /\ a \in Seq(Sends) /\ Len(a) = i - 1
      /\ \A j \in 1..(i - 1) : a[j] = queue[j]
  BY <1>2, SubSeqProperties DEF TypeOKQueue
<1>4. /\ b \in Seq(Sends) /\ Len(b) = Len(queue) - i
      /\ \A j \in 1..(Len(queue) - i) : b[j] = queue[i + j]
  BY <1>2, SubSeqProperties DEF TypeOKQueue
<1>5. PICK j \in DOMAIN queue' : queue'[j] = q
  BY DEF Queued
<1> HIDE DEF a, b
<1>6. queue' = a \o b
  BY <1>1 DEF a, b
<1>7. j \in 1..(Len(a) + Len(b))
      /\ queue'[j] = IF j <= Len(a) THEN a[j] ELSE b[j - Len(a)]
  BY <1>3, <1>4, <1>5, <1>6, ConcatProperties
<1>8. CASE j <= Len(a)
  <2>1. j \in 1..(i - 1) /\ queue[j] = q
    BY <1>2, <1>3, <1>5, <1>7, <1>8
  <2> QED
    BY <1>2, <2>1 DEF Queued
<1>9. CASE j > Len(a)
  <2>1. j - (i - 1) \in 1..(Len(queue) - i)
    BY <1>2, <1>3, <1>4, <1>7, <1>9
  <2>2. queue[i + (j - (i - 1))] = q
    BY <1>2, <1>3, <1>4, <1>5, <1>7, <1>9, <2>1
  <2>3. i + (j - (i - 1)) \in 1..Len(queue)
    BY <1>2, <2>1
  <2> QED
    BY <1>2, <2>2, <2>3 DEF Queued
<1> QED
  BY <1>3, <1>4, <1>7, <1>8, <1>9

(* A prompt is never in two batches that run. *)
LEMMA BatchesStep ==
  TypeOK /\ GuardOfPlace /\ BatchesDisjoint /\ [Next]_vars => BatchesDisjoint'
<1> SUFFICES ASSUME TypeOK, GuardOfPlace, BatchesDisjoint, [Next]_vars PROVE BatchesDisjoint'
  OBVIOUS
<1>1. ASSUME NEW c \in Chats,
             RunAppends(c) \/ StopRun(c)
      PROVE  BatchesDisjoint'
  BY <1>1 DEF BatchesDisjoint, Accepted, Queued, InBatch, untouchedByStops,
         chatVars, RunAppends, StopRun
<1>2. ASSUME NEW s \in Stoppers,
             (\E e \in Chats \cup {None} : StopChoose(s, e))
             \/ (\E e \in Chats \cup {None} : StopMismatch(s, e))
             \/ StopLook(s) \/ StopCapture(s) \/ StopAwait(s)
             \/ StopSnapshot(s) \/ StopWake(s) \/ StopRecheck(s)
             \/ StopEnd(s) \/ StopDropped(s)
      PROVE  BatchesDisjoint'
  BY <1>2 DEF BatchesDisjoint, Accepted, Queued, InBatch, untouchedByStops,
         chatVars, StopChoose, StopMismatch, StopLook, StopCapture,
         StopAwait, StopSnapshot, StopWake, StopRecheck, StopEnd, StopDropped
<1>3. ASSUME NEW m \in Mutators,
             Reserve(m) \/ MutationStopped(m) \/ Acquire(m)
             \/ Mutate(m) \/ MutationDropsGate(m)
             \/ MutationDropsTurn(m)
      PROVE  BatchesDisjoint'
  BY <1>3 DEF BatchesDisjoint, Accepted, Queued, InBatch,
         untouchedByMutations, Reserve, MutationStopped, Acquire, Mutate,
         MutationDropsGate, MutationDropsTurn
<1>4. ASSUME NEW w \in Waiters,
             WaitSubscribe(w) \/ WaitReadTerminal(w)
             \/ WaitReadActive(w) \/ WaitChanged(w)
      PROVE  BatchesDisjoint'
  BY <1>4 DEF BatchesDisjoint, Accepted, Queued, InBatch, untouchedByWaits,
         chatVars, WaitSubscribe, WaitReadTerminal, WaitReadActive,
         WaitChanged
<1>5. ASSUME ClearChat
      PROVE  BatchesDisjoint'
  BY <1>5 DEF BatchesDisjoint, Accepted, Queued, InBatch, others, ClearChat
<1>6. ASSUME NEW c \in Chats, SendBegin(c) PROVE BatchesDisjoint'
  <2>1. PICK l \in {"acquiring", "loading"} : Goto(c, l)
    BY <1>6 DEF SendBegin
  <2>2. /\ pc[c] \in AfterEnqueue => l \in AfterEnqueue
        /\ l \in BeforeTurn => pc[c] \in BeforeTurn
    BY <1>6, <2>1 DEF SendBegin, AfterEnqueue, BeforeTurn
  <2>3. UNCHANGED <<queue, accepted, batch>>
    BY <1>6 DEF SendBegin
  <2>4. \A d \in Chats : finaliser'[d] = finaliser[d]
                           \/ (d = c /\ pc[c] \notin AfterEnqueue)
    BY <1>6 DEF SendBegin, AfterEnqueue
  <2> QED
    BY <2>1, <2>2, <2>3, <2>4, BatchesMove
<1>7. ASSUME NEW c \in Chats, SendRefused(c) PROVE BatchesDisjoint'
  <2>1. PICK l \in {"done"} : Goto(c, l)
    BY <1>7 DEF SendRefused
  <2>2. /\ pc[c] \in AfterEnqueue => l \in AfterEnqueue
        /\ l \in BeforeTurn => pc[c] \in BeforeTurn
    BY <1>7, <2>1 DEF SendRefused, AfterEnqueue, BeforeTurn
  <2>3. UNCHANGED <<queue, accepted, batch>>
    BY <1>7 DEF SendRefused
  <2>4. \A d \in Chats : finaliser'[d] = finaliser[d]
                           \/ (d = c /\ pc[c] \notin AfterEnqueue)
    BY <1>7 DEF SendRefused, AfterEnqueue
  <2> QED
    BY <2>1, <2>2, <2>3, <2>4, BatchesMove
<1>8. ASSUME NEW c \in Chats, LoadHistory(c) PROVE BatchesDisjoint'
  <2>1. PICK l \in {"appending"} : Goto(c, l)
    BY <1>8 DEF LoadHistory
  <2>2. /\ pc[c] \in AfterEnqueue => l \in AfterEnqueue
        /\ l \in BeforeTurn => pc[c] \in BeforeTurn
    BY <1>8, <2>1 DEF LoadHistory, AfterEnqueue, BeforeTurn
  <2>3. UNCHANGED <<queue, accepted, batch>>
    BY <1>8 DEF LoadHistory
  <2>4. \A d \in Chats : finaliser'[d] = finaliser[d]
                           \/ (d = c /\ pc[c] \notin AfterEnqueue)
    BY <1>8 DEF LoadHistory, AfterEnqueue
  <2> QED
    BY <2>1, <2>2, <2>3, <2>4, BatchesMove
<1>9. ASSUME NEW c \in Chats, AppendTurn(c) PROVE BatchesDisjoint'
  <2>1. PICK l \in {"confirming", Exit(c)} : Goto(c, l)
    BY <1>9 DEF AppendTurn
  <2>2. /\ pc[c] \in AfterEnqueue => l \in AfterEnqueue
        /\ l \in BeforeTurn => pc[c] \in BeforeTurn
    BY <1>9, <2>1 DEF AppendTurn, AfterEnqueue, BeforeTurn, Exit
  <2>3. UNCHANGED <<queue, accepted, batch>>
    BY <1>9 DEF AppendTurn
  <2>4. \A d \in Chats : finaliser'[d] = finaliser[d]
                           \/ (d = c /\ pc[c] \notin AfterEnqueue)
    BY <1>9 DEF AppendTurn, AfterEnqueue
  <2> QED
    BY <2>1, <2>2, <2>3, <2>4, BatchesMove
<1>10. ASSUME NEW c \in Chats, Confirm(c) PROVE BatchesDisjoint'
  <2>1. PICK l \in {"activating", Exit(c)} : Goto(c, l)
    BY <1>10 DEF Confirm
  <2>2. /\ pc[c] \in AfterEnqueue => l \in AfterEnqueue
        /\ l \in BeforeTurn => pc[c] \in BeforeTurn
    BY <1>10, <2>1 DEF Confirm, AfterEnqueue, BeforeTurn, Exit
  <2>3. UNCHANGED <<queue, accepted, batch>>
    BY <1>10 DEF Confirm
  <2>4. \A d \in Chats : finaliser'[d] = finaliser[d]
                           \/ (d = c /\ pc[c] \notin AfterEnqueue)
    BY <1>10 DEF Confirm, AfterEnqueue
  <2> QED
    BY <2>1, <2>2, <2>3, <2>4, BatchesMove
<1>11. ASSUME NEW c \in Chats, Activate(c) PROVE BatchesDisjoint'
  <2>1. PICK l \in {"publishing"} : Goto(c, l)
    BY <1>11 DEF Activate
  <2>2. /\ pc[c] \in AfterEnqueue => l \in AfterEnqueue
        /\ l \in BeforeTurn => pc[c] \in BeforeTurn
    BY <1>11, <2>1 DEF Activate, AfterEnqueue, BeforeTurn
  <2>3. UNCHANGED <<queue, accepted, batch>>
    BY <1>11 DEF Activate
  <2>4. \A d \in Chats : finaliser'[d] = finaliser[d]
                           \/ (d = c /\ pc[c] \notin AfterEnqueue)
    BY <1>11 DEF Activate, AfterEnqueue
  <2> QED
    BY <2>1, <2>2, <2>3, <2>4, BatchesMove
<1>12. ASSUME NEW c \in Chats, Publish(c) PROVE BatchesDisjoint'
  <2>1. PICK l \in {"running"} : Goto(c, l)
    BY <1>12 DEF Publish
  <2>2. /\ pc[c] \in AfterEnqueue => l \in AfterEnqueue
        /\ l \in BeforeTurn => pc[c] \in BeforeTurn
    BY <1>12, <2>1 DEF Publish, AfterEnqueue, BeforeTurn
  <2>3. UNCHANGED <<queue, accepted, batch>>
    BY <1>12 DEF Publish
  <2>4. \A d \in Chats : finaliser'[d] = finaliser[d]
                           \/ (d = c /\ pc[c] \notin AfterEnqueue)
    BY <1>12 DEF Publish, AfterEnqueue
  <2> QED
    BY <2>1, <2>2, <2>3, <2>4, BatchesMove
<1>13. ASSUME NEW c \in Chats, Finish(c) PROVE BatchesDisjoint'
  <2>1. PICK l \in {"unsetting"} : Goto(c, l)
    BY <1>13 DEF Finish
  <2>2. /\ pc[c] \in AfterEnqueue => l \in AfterEnqueue
        /\ l \in BeforeTurn => pc[c] \in BeforeTurn
    BY <1>13, <2>1 DEF Finish, AfterEnqueue, BeforeTurn
  <2>3. UNCHANGED <<queue, accepted, batch>>
    BY <1>13 DEF Finish
  <2>4. \A d \in Chats : finaliser'[d] = finaliser[d]
                           \/ (d = c /\ pc[c] \notin AfterEnqueue)
    BY <1>13 DEF Finish, AfterEnqueue
  <2> QED
    BY <2>1, <2>2, <2>3, <2>4, BatchesMove
<1>14. ASSUME NEW c \in Chats, UnsetActive(c) PROVE BatchesDisjoint'
  <2>1. PICK l \in {"finalGate", "done"} : Goto(c, l)
    BY <1>14 DEF UnsetActive
  <2>2. /\ pc[c] \in AfterEnqueue => l \in AfterEnqueue
        /\ l \in BeforeTurn => pc[c] \in BeforeTurn
    BY <1>14, <2>1 DEF UnsetActive, AfterEnqueue, BeforeTurn
  <2>3. UNCHANGED <<queue, accepted, batch>>
    BY <1>14 DEF UnsetActive
  <2>4. \A d \in Chats : finaliser'[d] = finaliser[d]
                           \/ (d = c /\ pc[c] \notin AfterEnqueue)
    BY <1>14 DEF UnsetActive, AfterEnqueue
  <2> QED
    BY <2>1, <2>2, <2>3, <2>4, BatchesMove
<1>15. ASSUME NEW c \in Chats, DropGuard(c) PROVE BatchesDisjoint'
  <2>1. PICK l \in {"done"} : Goto(c, l)
    BY <1>15 DEF DropGuard
  <2>2. /\ pc[c] \in AfterEnqueue => l \in AfterEnqueue
        /\ l \in BeforeTurn => pc[c] \in BeforeTurn
    BY <1>15, <2>1 DEF DropGuard, AfterEnqueue, BeforeTurn
  <2>3. UNCHANGED <<queue, accepted, batch>>
    BY <1>15 DEF DropGuard
  <2>4. \A d \in Chats : finaliser'[d] = finaliser[d]
                           \/ (d = c /\ pc[c] \notin AfterEnqueue)
    BY <1>15 DEF DropGuard, AfterEnqueue
  <2> QED
    BY <2>1, <2>2, <2>3, <2>4, BatchesMove
<1>16. ASSUME NEW c \in Chats, StartFails(c) PROVE BatchesDisjoint'
  <2>1. PICK l \in {Exit(c)} : Goto(c, l)
    BY <1>16 DEF StartFails
  <2>2. /\ pc[c] \in AfterEnqueue => l \in AfterEnqueue
        /\ l \in BeforeTurn => pc[c] \in BeforeTurn
    BY <1>16, <2>1 DEF StartFails, AfterEnqueue, BeforeTurn, Exit
  <2>3. UNCHANGED <<queue, accepted, batch>>
    BY <1>16 DEF StartFails
  <2>4. \A d \in Chats : finaliser'[d] = finaliser[d]
                           \/ (d = c /\ pc[c] \notin AfterEnqueue)
    BY <1>16 DEF StartFails, AfterEnqueue
  <2> QED
    BY <2>1, <2>2, <2>3, <2>4, BatchesMove
<1>17. ASSUME NEW c \in Chats, PrepareFails(c) PROVE BatchesDisjoint'
  <2>1. PICK l \in {Exit(c)} : Goto(c, l)
    BY <1>17 DEF PrepareFails
  <2>2. /\ pc[c] \in AfterEnqueue => l \in AfterEnqueue
        /\ l \in BeforeTurn => pc[c] \in BeforeTurn
    BY <1>17, <2>1 DEF PrepareFails, AfterEnqueue, BeforeTurn, Exit
  <2>3. UNCHANGED <<queue, accepted, batch>>
    BY <1>17 DEF PrepareFails
  <2>4. \A d \in Chats : finaliser'[d] = finaliser[d]
                           \/ (d = c /\ pc[c] \notin AfterEnqueue)
    BY <1>17 DEF PrepareFails, AfterEnqueue
  <2> QED
    BY <2>1, <2>2, <2>3, <2>4, BatchesMove
<1>18. ASSUME NEW c \in Chats, CallDropped(c) PROVE BatchesDisjoint'
  <2>1. PICK l \in {Exit(c), "dropGuard"} :
          Goto(c, l) /\ (pc[c] \in AfterEnqueue => l = "dropGuard")
    BY <1>18 DEF CallDropped, AfterEnqueue
  <2>2. /\ pc[c] \in AfterEnqueue => l \in AfterEnqueue
        /\ l \in BeforeTurn => pc[c] \in BeforeTurn
    BY <2>1 DEF AfterEnqueue, BeforeTurn, Exit
  <2>3. UNCHANGED <<queue, accepted, batch>>
    BY <1>18 DEF CallDropped
  <2>4. \A d \in Chats : finaliser'[d] = finaliser[d]
                           \/ (d = c /\ pc[c] \notin AfterEnqueue)
    BY <1>18 DEF CallDropped, AfterEnqueue
  <2> QED
    BY <2>1, <2>2, <2>3, <2>4, BatchesMove
<1>19. ASSUME NEW c \in Chats, RunDies(c) PROVE BatchesDisjoint'
  <2>1. PICK l \in {Exit(c)} : Goto(c, l)
    BY <1>19 DEF RunDies
  <2>2. /\ pc[c] \in AfterEnqueue => l \in AfterEnqueue
        /\ l \in BeforeTurn => pc[c] \in BeforeTurn
    BY <1>19, <2>1 DEF RunDies, AfterEnqueue, BeforeTurn, Exit
  <2>3. UNCHANGED <<queue, accepted, batch>>
    BY <1>19 DEF RunDies
  <2>4. \A d \in Chats : finaliser'[d] = finaliser[d]
                           \/ (d = c /\ pc[c] \notin AfterEnqueue)
    BY <1>19 DEF RunDies, AfterEnqueue, TypeOK, TypeOKChats
  <2> QED
    BY <2>1, <2>2, <2>3, <2>4, BatchesMove
<1>20. ASSUME NEW c \in Chats, FinaliseRun(c) PROVE BatchesDisjoint'
  <2>1. ~Accepted(c)
    BY <1>20 DEF FinaliseRun, BatchesDisjoint
  <2>2. UNCHANGED <<pc, queue, accepted, batch>>
    BY <1>20 DEF FinaliseRun
  <2>3. \A p \in Chats : Accepted(p) => finaliser'[p] = finaliser[p]
    BY <1>20, <2>1 DEF FinaliseRun, TypeOK, TypeOKChats
  <2>4. \A d, p \in Chats : /\ InBatch(d, p)' <=> InBatch(d, p)
                            /\ Accepted(p)' <=> Accepted(p)
                            /\ Queued(p)' <=> Queued(p)
    BY <2>2 DEF InBatch, Accepted, Queued
  <2> QED
    BY <2>2, <2>3, <2>4 DEF BatchesDisjoint
<1>21. ASSUME NEW c \in Chats, FinaliseActive(c) PROVE BatchesDisjoint'
  <2>1. ~Accepted(c)
    BY <1>21 DEF FinaliseActive, BatchesDisjoint
  <2>2. UNCHANGED <<pc, queue, accepted, batch>>
    BY <1>21 DEF FinaliseActive
  <2>3. \A p \in Chats : Accepted(p) => finaliser'[p] = finaliser[p]
    BY <1>21, <2>1 DEF FinaliseActive, TypeOK, TypeOKChats
  <2>4. \A d, p \in Chats : /\ InBatch(d, p)' <=> InBatch(d, p)
                            /\ Accepted(p)' <=> Accepted(p)
                            /\ Queued(p)' <=> Queued(p)
    BY <2>2 DEF InBatch, Accepted, Queued
  <2> QED
    BY <2>2, <2>3, <2>4 DEF BatchesDisjoint
<1>22. ASSUME NEW c \in Chats, NEW t \in Terminals, RunEnds(c, t)
       PROVE  BatchesDisjoint'
  <2>1. PICK l \in {"finishErr", "finishOk"} : Goto(c, l)
    BY <1>22 DEF RunEnds
  <2>2. /\ pc[c] \in AfterEnqueue => l \in AfterEnqueue
        /\ l \in BeforeTurn => pc[c] \in BeforeTurn
    BY <1>22, <2>1 DEF RunEnds, AfterEnqueue, BeforeTurn
  <2>3. UNCHANGED <<queue, accepted, batch>>
    BY <1>22 DEF RunEnds
  <2>4. \A d \in Chats : finaliser'[d] = finaliser[d]
                           \/ (d = c /\ pc[c] \notin AfterEnqueue)
    BY <1>22 DEF RunEnds, AfterEnqueue
  <2> QED
    BY <2>1, <2>2, <2>3, <2>4, BatchesMove
<1>23. ASSUME NEW c \in Sends, AcquireTurn(c) PROVE BatchesDisjoint'
  <2>1. PICK l \in {"attaching", "dropGuard", "busy"} : Goto(c, l)
    BY <1>23 DEF AcquireTurn
  <2>2. /\ pc[c] \in AfterEnqueue => l \in AfterEnqueue
        /\ l \in BeforeTurn => pc[c] \in BeforeTurn
    BY <1>23, <2>1 DEF AcquireTurn, AfterEnqueue, BeforeTurn
  <2>3. UNCHANGED <<queue, accepted, batch>>
    BY <1>23 DEF AcquireTurn
  <2>4. \A d \in Chats : finaliser'[d] = finaliser[d]
                           \/ (d = c /\ pc[c] \notin AfterEnqueue)
    BY <1>23 DEF AcquireTurn, AfterEnqueue
  <2> QED
    BY <2>1, <2>2, <2>3, <2>4, BatchesMove DEF Chats
<1>24. ASSUME NEW c \in Sends, EnqueueBegin(c) PROVE BatchesDisjoint'
  <2>1. PICK l \in {"enqueueing", "done"} : Goto(c, l)
    BY <1>24 DEF EnqueueBegin
  <2>2. /\ pc[c] \in AfterEnqueue => l \in AfterEnqueue
        /\ l \in BeforeTurn => pc[c] \in BeforeTurn
    BY <1>24, <2>1 DEF EnqueueBegin, AfterEnqueue, BeforeTurn
  <2>3. UNCHANGED <<queue, accepted, batch>>
    BY <1>24 DEF EnqueueBegin
  <2>4. \A d \in Chats : finaliser'[d] = finaliser[d]
                           \/ (d = c /\ pc[c] \notin AfterEnqueue)
    BY <1>24 DEF EnqueueBegin, AfterEnqueue
  <2> QED
    BY <2>1, <2>2, <2>3, <2>4, BatchesMove DEF Chats
<1>25. ASSUME NEW c \in Sends, EnqueueCommit(c) PROVE BatchesDisjoint'
  <2>1. c \in Chats /\ pc[c] = "enqueueing" /\ UNCHANGED <<batch, finaliser>>
    BY <1>25 DEF EnqueueCommit, Chats
  <2>2. ~Accepted(c) /\ batch[c] = <<c>> /\ finaliser[c] = "none"
    BY <2>1 DEF BatchesDisjoint, GuardOfPlace, GuardFits
  <2>3. \A p : Accepted(p)' <=> Accepted(p) \/ p = c
    <3>1. accepted \in Seq(Sends) /\ accepted' = Append(accepted, c)
      BY <1>25 DEF EnqueueCommit, TypeOK, TypeOKChats
    <3> QED
      BY <3>1, AppendMember DEF Accepted
  <2>4. \A p : Queued(p)' <=> Queued(p) \/ p = c
    BY <1>25, AppendMember DEF EnqueueCommit, Enqueue, Queued, TypeOK, TypeOKQueue
  <2>5. \A d, p \in Chats : InBatch(d, p)' <=> InBatch(d, p)
    BY <2>1 DEF InBatch
  <2>6. \A p \in Chats : pc'[p] = IF p = c THEN "enqueued" ELSE pc[p]
    BY <1>25 DEF EnqueueCommit, Goto, TypeOK, TypeOKChats
  <2> QED
    BY <2>1, <2>2, <2>3, <2>4, <2>5, <2>6 DEF BatchesDisjoint
<1>26. ASSUME NEW c \in Sends, FinishEnqueue(c) PROVE BatchesDisjoint'
  <2>1. PICK l \in {"done"} : Goto(c, l)
    BY <1>26 DEF FinishEnqueue
  <2>2. /\ pc[c] \in AfterEnqueue => l \in AfterEnqueue
        /\ l \in BeforeTurn => pc[c] \in BeforeTurn
    BY <1>26, <2>1 DEF FinishEnqueue, AfterEnqueue, BeforeTurn
  <2>3. UNCHANGED <<queue, accepted, batch>>
    BY <1>26 DEF FinishEnqueue
  <2>4. \A d \in Chats : finaliser'[d] = finaliser[d]
                           \/ (d = c /\ pc[c] \notin AfterEnqueue)
    BY <1>26 DEF FinishEnqueue, AfterEnqueue
  <2> QED
    BY <2>1, <2>2, <2>3, <2>4, BatchesMove DEF Chats
<1>27. ASSUME NEW c \in Sends, Attach(c) PROVE BatchesDisjoint'
  <2>1. PICK l \in {"loading", "unattached"} : Goto(c, l)
    BY <1>27 DEF Attach
  <2>2. /\ pc[c] \in AfterEnqueue => l \in AfterEnqueue
        /\ l \in BeforeTurn => pc[c] \in BeforeTurn
    BY <1>27, <2>1 DEF Attach, AfterEnqueue, BeforeTurn
  <2>3. UNCHANGED <<queue, accepted, batch>>
    BY <1>27 DEF Attach
  <2>4. \A d \in Chats : finaliser'[d] = finaliser[d]
                           \/ (d = c /\ pc[c] \notin AfterEnqueue)
    BY <1>27 DEF Attach, AfterEnqueue
  <2> QED
    BY <2>1, <2>2, <2>3, <2>4, BatchesMove DEF Chats
<1>28. ASSUME NEW c \in Sends, DropUnattached(c) PROVE BatchesDisjoint'
  <2>1. PICK l \in {"done"} : Goto(c, l)
    BY <1>28 DEF DropUnattached
  <2>2. /\ pc[c] \in AfterEnqueue => l \in AfterEnqueue
        /\ l \in BeforeTurn => pc[c] \in BeforeTurn
    BY <1>28, <2>1 DEF DropUnattached, AfterEnqueue, BeforeTurn
  <2>3. UNCHANGED <<queue, accepted, batch>>
    BY <1>28 DEF DropUnattached
  <2>4. \A d \in Chats : finaliser'[d] = finaliser[d]
                           \/ (d = c /\ pc[c] \notin AfterEnqueue)
    BY <1>28 DEF DropUnattached, AfterEnqueue
  <2> QED
    BY <2>1, <2>2, <2>3, <2>4, BatchesMove DEF Chats
<1>29. ASSUME NEW c \in Sends, CheckSuppressed(c) PROVE BatchesDisjoint'
  <2>1. PICK l \in {"dropTurn", "draining", "arming"} : Goto(c, l)
    BY <1>29 DEF CheckSuppressed
  <2>2. /\ pc[c] \in AfterEnqueue => l \in AfterEnqueue
        /\ l \in BeforeTurn => pc[c] \in BeforeTurn
    BY <1>29, <2>1 DEF CheckSuppressed, AfterEnqueue, BeforeTurn
  <2>3. UNCHANGED <<queue, accepted, batch>>
    BY <1>29 DEF CheckSuppressed
  <2>4. \A d \in Chats : finaliser'[d] = finaliser[d]
                           \/ (d = c /\ pc[c] \notin AfterEnqueue)
    BY <1>29 DEF CheckSuppressed, AfterEnqueue
  <2> QED
    BY <2>1, <2>2, <2>3, <2>4, BatchesMove DEF Chats
<1>30. ASSUME NEW c \in Sends, DrainQueue(c) PROVE BatchesDisjoint'
  <2>1. c \in Chats /\ pc[c] = "draining" /\ UNCHANGED <<accepted, finaliser>>
    BY <1>30 DEF DrainQueue, Chats
  <2>2. PICK l \in {"dropTurn", "drained"} : Goto(c, l)
    BY <1>30 DEF DrainQueue
  <2>3. CASE queue = <<>>
    <3>1. UNCHANGED <<queue, batch>>
      BY <1>30, <2>3 DEF DrainQueue
    <3> QED
      BY <2>1, <2>2, <3>1, BatchesMove DEF AfterEnqueue, BeforeTurn
  <2>4. CASE queue /= <<>>
    <3>1. batch' = [batch EXCEPT ![c] = queue] /\ queue' = <<>>
      BY <1>30, <2>4 DEF DrainQueue, Drain
    <3>2. ~Accepted(c)
      BY <2>1 DEF BatchesDisjoint
    <3>3. \A p : Accepted(p)' <=> Accepted(p)
      BY <2>1 DEF Accepted
    <3>4. \A p : ~Queued(p)'
      BY <3>1 DEF Queued
    <3>5. \A p : InBatch(c, p)' <=> Queued(p)
      BY <2>1, <3>1 DEF InBatch, Queued, TypeOK, TypeOKChats
    <3>6. \A d \in Chats \ {c} : \A p : InBatch(d, p)' <=> InBatch(d, p)
      BY <3>1 DEF InBatch, TypeOK, TypeOKChats
    <3>7. \A p \in Chats : p /= c => pc'[p] = pc[p] /\ batch'[p] = batch[p]
      BY <2>1, <2>2, <3>1 DEF Goto, TypeOK, TypeOKChats
    <3>8. pc'[c] \notin BeforeTurn
      BY <2>1, <2>2 DEF Goto, TypeOK, TypeOKChats, BeforeTurn
    <3>9. \A p \in Chats : Accepted(p)' =>
            /\ pc'[p] \in AfterEnqueue
            /\ batch'[p] = <<p>>
            /\ finaliser'[p] = "none"
      BY <2>1, <3>2, <3>3, <3>7 DEF BatchesDisjoint, AfterEnqueue
    <3>10. \A p \in Chats : pc'[p] \in BeforeTurn => batch'[p] = <<p>>
      BY <3>7, <3>8 DEF BatchesDisjoint, BeforeTurn
    <3>11. \A d, p \in Chats : InBatch(d, p)' =>
             p = d \/ (Accepted(p)' /\ ~Queued(p)')
      BY <3>3, <3>4, <3>5, <3>6 DEF BatchesDisjoint
    <3>12. \A d, e, p \in Chats :
             InBatch(d, p)' /\ InBatch(e, p)' => d = e \/ p = d \/ p = e
      BY <3>5, <3>6 DEF BatchesDisjoint
    <3> QED
      BY <3>4, <3>9, <3>10, <3>11, <3>12
         DEF BatchesDisjoint, AfterEnqueue, BeforeTurn
  <2> QED
    BY <2>3, <2>4
<1>31. ASSUME NEW c \in Sends, StartQueuedBatch(c) PROVE BatchesDisjoint'
  <2>1. PICK l \in {"loading", "dropTurn"} : Goto(c, l)
    BY <1>31 DEF StartQueuedBatch
  <2>2. /\ pc[c] \in AfterEnqueue => l \in AfterEnqueue
        /\ l \in BeforeTurn => pc[c] \in BeforeTurn
    BY <1>31, <2>1 DEF StartQueuedBatch, AfterEnqueue, BeforeTurn
  <2>3. UNCHANGED <<queue, accepted, batch>>
    BY <1>31 DEF StartQueuedBatch
  <2>4. \A d \in Chats : finaliser'[d] = finaliser[d]
                           \/ (d = c /\ pc[c] \notin AfterEnqueue)
    BY <1>31 DEF StartQueuedBatch, AfterEnqueue
  <2> QED
    BY <2>1, <2>2, <2>3, <2>4, BatchesMove DEF Chats
<1>32. ASSUME NEW c \in Sends, OwnerDropsTurn(c) PROVE BatchesDisjoint'
  <2>1. PICK l \in {"dropHolder"} : Goto(c, l)
    BY <1>32 DEF OwnerDropsTurn
  <2>2. /\ pc[c] \in AfterEnqueue => l \in AfterEnqueue
        /\ l \in BeforeTurn => pc[c] \in BeforeTurn
    BY <1>32, <2>1 DEF OwnerDropsTurn, AfterEnqueue, BeforeTurn
  <2>3. UNCHANGED <<queue, accepted, batch>>
    BY <1>32 DEF OwnerDropsTurn
  <2>4. \A d \in Chats : finaliser'[d] = finaliser[d]
                           \/ (d = c /\ pc[c] \notin AfterEnqueue)
    BY <1>32 DEF OwnerDropsTurn, AfterEnqueue
  <2> QED
    BY <2>1, <2>2, <2>3, <2>4, BatchesMove DEF Chats
<1>33. ASSUME NEW c \in Sends, OwnerDropsHolder(c) PROVE BatchesDisjoint'
  <2>1. PICK l \in {"dropGuard"} : Goto(c, l)
    BY <1>33 DEF OwnerDropsHolder
  <2>2. /\ pc[c] \in AfterEnqueue => l \in AfterEnqueue
        /\ l \in BeforeTurn => pc[c] \in BeforeTurn
    BY <1>33, <2>1 DEF OwnerDropsHolder, AfterEnqueue, BeforeTurn
  <2>3. UNCHANGED <<queue, accepted, batch>>
    BY <1>33 DEF OwnerDropsHolder
  <2>4. \A d \in Chats : finaliser'[d] = finaliser[d]
                           \/ (d = c /\ pc[c] \notin AfterEnqueue)
    BY <1>33 DEF OwnerDropsHolder, AfterEnqueue
  <2> QED
    BY <2>1, <2>2, <2>3, <2>4, BatchesMove DEF Chats
<1>34. ASSUME NEW c \in Sends, EnqueueFails(c) PROVE BatchesDisjoint'
  <2>1. PICK l \in {"dropGuard"} : Goto(c, l)
    BY <1>34 DEF EnqueueFails
  <2>2. /\ pc[c] \in AfterEnqueue => l \in AfterEnqueue
        /\ l \in BeforeTurn => pc[c] \in BeforeTurn
    BY <1>34, <2>1 DEF EnqueueFails, AfterEnqueue, BeforeTurn
  <2>3. UNCHANGED <<queue, accepted, batch>>
    BY <1>34 DEF EnqueueFails
  <2>4. \A d \in Chats : finaliser'[d] = finaliser[d]
                           \/ (d = c /\ pc[c] \notin AfterEnqueue)
    BY <1>34 DEF EnqueueFails, AfterEnqueue
  <2> QED
    BY <2>1, <2>2, <2>3, <2>4, BatchesMove DEF Chats
<1>35. ASSUME NEW c \in Sends, DrainFails(c) PROVE BatchesDisjoint'
  <2>1. PICK l \in {"dropTurn"} : Goto(c, l)
    BY <1>35 DEF DrainFails
  <2>2. /\ pc[c] \in AfterEnqueue => l \in AfterEnqueue
        /\ l \in BeforeTurn => pc[c] \in BeforeTurn
    BY <1>35, <2>1 DEF DrainFails, AfterEnqueue, BeforeTurn
  <2>3. UNCHANGED <<queue, accepted, batch>>
    BY <1>35 DEF DrainFails
  <2>4. \A d \in Chats : finaliser'[d] = finaliser[d]
                           \/ (d = c /\ pc[c] \notin AfterEnqueue)
    BY <1>35 DEF DrainFails, AfterEnqueue
  <2> QED
    BY <2>1, <2>2, <2>3, <2>4, BatchesMove DEF Chats
<1>36. ASSUME NEW c \in Sends, RemoveQueued(c) PROVE BatchesDisjoint'
  BY <1>36, RemoveShrinks, BatchesShrink DEF TypeOK, chatVars, RemoveQueued
<1>37. ASSUME NEW s \in Stoppers, StopClear(s) PROVE BatchesDisjoint'
  <2>1. UNCHANGED <<pc, accepted, batch, finaliser>>
    BY <1>37 DEF StopClear, untouchedByStops, chatVars
  <2>2. \A p : Queued(p)' => Queued(p)
    BY <1>37 DEF StopClear, Clear, Queued
  <2> QED
    BY <2>1, <2>2, BatchesShrink
<1>38. ASSUME Crash PROVE BatchesDisjoint'
  <2>1. UNCHANGED <<queue, accepted, batch>>
    BY <1>38 DEF Crash
  <2>2. \A d, p \in Chats : /\ InBatch(d, p)' <=> InBatch(d, p)
                            /\ Accepted(p)' <=> Accepted(p)
                            /\ Queued(p)' <=> Queued(p)
    BY <2>1 DEF InBatch, Accepted, Queued
  <2>3. \A p \in Chats : /\ pc'[p] = IF pc[p] = "new" THEN "new" ELSE "done"
                         /\ finaliser'[p] = "none"
    BY <1>38 DEF Crash
  <2> QED
    BY <2>1, <2>2, <2>3 DEF BatchesDisjoint
<1>39. CASE UNCHANGED vars
  BY <1>39 DEF vars, BatchesDisjoint, Accepted, Queued, InBatch, chatVars
<1> QED
  BY <1>1, <1>2, <1>3, <1>4, <1>5, <1>6, <1>7, <1>8, <1>9, <1>10, <1>11,
     <1>12, <1>13, <1>14, <1>15, <1>16, <1>17, <1>18, <1>19, <1>20, <1>21,
     <1>22, <1>23, <1>24, <1>25, <1>26, <1>27, <1>28, <1>29, <1>30, <1>31,
     <1>32, <1>33, <1>34, <1>35, <1>36, <1>37, <1>38, <1>39
     DEF Next, SendStep, TurnStep, SendFails, TurnFails, FinaliserStep, StopStep,
         MutationStep, WaitStep, AllReturned

(* A call whose guard is not Running moves or gives up its guard. *)
LEMMA RunsKept ==
  ASSUME RunsGuarded, NEW c \in Chats, phase[c] /= "Running", UNCHANGED runs,
         \A d \in Chats \ {c} : phase'[d] = phase[d] /\ guardRun'[d] = guardRun[d]
  PROVE  RunsGuarded'
BY DEF RunsGuarded

(* A published run keeps its guard until it is finished. *)
LEMMA RunsStep ==
  TypeOK /\ GuardOfPlace /\ RunsGuarded /\ [Next]_vars => RunsGuarded'
<1> SUFFICES ASSUME TypeOK, GuardOfPlace, RunsGuarded, [Next]_vars PROVE RunsGuarded'
  OBVIOUS
<1>1. ASSUME NEW c \in Chats,
             SendRefused(c) \/ LoadHistory(c) \/ AppendTurn(c)
             \/ Activate(c) \/ UnsetActive(c) \/ StartFails(c)
             \/ PrepareFails(c) \/ CallDropped(c) \/ RunDies(c)
             \/ FinaliseActive(c) \/ RunAppends(c)
             \/ (\E t \in Terminals : RunEnds(c, t)) \/ StopRun(c)
      PROVE  RunsGuarded'
  BY <1>1 DEF RunsGuarded, gateVars, CancelRun, SendRefused, LoadHistory,
         AppendTurn, Activate, UnsetActive, StartFails, PrepareFails,
         CallDropped, RunDies, FinaliseActive, RunAppends, RunEnds, StopRun
<1>2. ASSUME NEW c \in Sends,
             AcquireTurn(c) \/ EnqueueCommit(c) \/ DropUnattached(c)
             \/ CheckSuppressed(c) \/ DrainQueue(c)
             \/ OwnerDropsTurn(c) \/ OwnerDropsHolder(c)
             \/ EnqueueFails(c) \/ DrainFails(c) \/ RemoveQueued(c)
      PROVE  RunsGuarded'
  BY <1>2 DEF RunsGuarded, gateVars, DropHolder, AcquireTurn, EnqueueCommit,
         DropUnattached, CheckSuppressed, DrainQueue, OwnerDropsTurn,
         OwnerDropsHolder, EnqueueFails, DrainFails, RemoveQueued
<1>3. ASSUME NEW s \in Stoppers,
             (\E e \in Chats \cup {None} : StopChoose(s, e))
             \/ (\E e \in Chats \cup {None} : StopMismatch(s, e))
             \/ StopLook(s) \/ StopCapture(s) \/ StopAwait(s)
             \/ StopSnapshot(s) \/ StopWake(s) \/ StopClear(s)
             \/ StopRecheck(s) \/ StopEnd(s) \/ StopDropped(s)
      PROVE  RunsGuarded'
  BY <1>3 DEF RunsGuarded, gateVars, ChooseStop, Watch, CancelRun, EndStop,
         StopChoose, StopMismatch, StopLook, StopCapture, StopAwait,
         StopSnapshot, StopWake, StopClear, StopRecheck, StopEnd, StopDropped
<1>4. ASSUME NEW m \in Mutators,
             Reserve(m) \/ MutationStopped(m) \/ Acquire(m)
             \/ Mutate(m) \/ MutationDropsGate(m)
             \/ MutationDropsTurn(m)
      PROVE  RunsGuarded'
  BY <1>4 DEF RunsGuarded, gateVars, untouchedByMutations, Reserve,
         MutationStopped, Acquire, Mutate, MutationDropsGate,
         MutationDropsTurn
<1>5. ASSUME NEW w \in Waiters,
             WaitSubscribe(w) \/ WaitReadTerminal(w)
             \/ WaitReadActive(w) \/ WaitChanged(w)
      PROVE  RunsGuarded'
  BY <1>5 DEF RunsGuarded, gateVars, untouchedByWaits, WaitSubscribe,
         WaitReadTerminal, WaitReadActive, WaitChanged
<1>6. ASSUME ClearChat
      PROVE  RunsGuarded'
  BY <1>6 DEF RunsGuarded, gateVars, ClearChat
<1>7. ASSUME NEW c \in Chats, SendBegin(c) PROVE RunsGuarded'
  <2>1. phase[c] /= "Running" /\ UNCHANGED runs
    BY <1>7 DEF SendBegin, BeginSend, NewGuard, gateVars, GuardOfPlace,
         GuardFits
  <2>2. \A d \in Chats \ {c} : phase'[d] = phase[d] /\ guardRun'[d] = guardRun[d]
    BY <1>7 DEF SendBegin, BeginSend, NewGuard, gateVars, TypeOK, TypeOKGate
  <2> QED
    BY <2>1, <2>2, RunsKept
<1>8. ASSUME NEW c \in Chats, Confirm(c) PROVE RunsGuarded'
  <2>1. phase[c] /= "Running" /\ UNCHANGED runs
    BY <1>8 DEF Confirm, ConfirmStart, RefuseCancelled, Abandon, gateVars,
         GuardOfPlace, GuardFits
  <2>2. \A d \in Chats \ {c} : phase'[d] = phase[d] /\ guardRun'[d] = guardRun[d]
    BY <1>8 DEF Confirm, ConfirmStart, RefuseCancelled, Abandon, gateVars,
         TypeOK, TypeOKGate
  <2> QED
    BY <2>1, <2>2, RunsKept
<1>9. ASSUME NEW c \in Chats, Publish(c) PROVE RunsGuarded'
  <2>1. phase[c] \in {"Acquiring", "HoldingPermit"}
    BY <1>9 DEF Publish, GuardOfPlace, GuardFits
  <2>2. /\ runs' = runs \cup {Run(c)}
        /\ phase'[c] = "Running" /\ guardRun'[c] = Run(c)
        /\ \A d \in Chats \ {c} : phase'[d] = phase[d] /\ guardRun'[d] = guardRun[d]
    BY <1>9, <2>1 DEF Publish, PublishRun, TypeOK, TypeOKGate
  <2> QED
    BY <2>1, <2>2 DEF RunsGuarded
<1>10. ASSUME NEW c \in Chats, Finish(c) PROVE RunsGuarded'
  BY <1>10 DEF FinishRun, RunsGuarded, Finish
<1>11. ASSUME NEW c \in Chats, DropGuard(c) PROVE RunsGuarded'
  <2>1. CASE phase[c] \in {"none", "Running"}
    BY <1>11, <2>1 DEF DropGuard, gateVars, RunsGuarded
  <2>2. CASE phase[c] \notin {"none", "Running"}
    <3>1. UNCHANGED runs /\ \A d \in Chats \ {c} :
            phase'[d] = phase[d] /\ guardRun'[d] = guardRun[d]
      BY <1>11, <2>2 DEF DropGuard, Abandon, TypeOK, TypeOKGate
    <3> QED
      BY <2>2, <3>1, RunsKept
  <2> QED
    BY <2>1, <2>2
<1>12. ASSUME NEW c \in Chats, FinaliseRun(c) PROVE RunsGuarded'
  BY <1>12 DEF FinishRun, RunsGuarded, FinaliseRun
<1>13. ASSUME NEW c \in Sends, EnqueueBegin(c) PROVE RunsGuarded'
  <2>1. phase[c] /= "Running" /\ UNCHANGED runs
    BY <1>13 DEF EnqueueBegin, BeginEnqueue, RefuseCancelled, Abandon, gateVars,
         GuardOfPlace, GuardFits, Chats
  <2>2. \A d \in Chats \ {c} : phase'[d] = phase[d] /\ guardRun'[d] = guardRun[d]
    BY <1>13 DEF EnqueueBegin, BeginEnqueue, RefuseCancelled, Abandon, gateVars,
         TypeOK, TypeOKGate
  <2> QED
    BY <2>1, <2>2, RunsKept DEF Chats
<1>14. ASSUME NEW c \in Sends, FinishEnqueue(c) PROVE RunsGuarded'
  <2>1. phase[c] /= "Running" /\ UNCHANGED runs
    BY <1>14 DEF FinishEnqueue, Abandon, gateVars, GuardOfPlace, GuardFits, Chats
  <2>2. \A d \in Chats \ {c} : phase'[d] = phase[d] /\ guardRun'[d] = guardRun[d]
    BY <1>14 DEF FinishEnqueue, Abandon, gateVars, TypeOK, TypeOKGate
  <2> QED
    BY <2>1, <2>2, RunsKept DEF Chats
<1>15. ASSUME NEW c \in Sends, Attach(c) PROVE RunsGuarded'
  <2>1. phase[c] /= "Running" /\ UNCHANGED runs
    BY <1>15 DEF Attach, AttachPermit, RefuseCancelled, Abandon, gateVars,
         GuardOfPlace, GuardFits, Chats
  <2>2. \A d \in Chats \ {c} : phase'[d] = phase[d] /\ guardRun'[d] = guardRun[d]
    BY <1>15 DEF Attach, AttachPermit, RefuseCancelled, Abandon, gateVars,
         TypeOK, TypeOKGate
  <2> QED
    BY <2>1, <2>2, RunsKept DEF Chats
<1>16. ASSUME NEW c \in Sends, StartQueuedBatch(c) PROVE RunsGuarded'
  <2>1. phase[c] /= "Running" /\ UNCHANGED runs
    BY <1>16 DEF StartQueuedBatch, ArmNextBatch, NewGuard, gateVars,
         GuardOfPlace, GuardFits, Chats
  <2>2. \A d \in Chats \ {c} : phase'[d] = phase[d] /\ guardRun'[d] = guardRun[d]
    BY <1>16 DEF StartQueuedBatch, ArmNextBatch, NewGuard, gateVars, TypeOK,
         TypeOKGate
  <2> QED
    BY <2>1, <2>2, RunsKept DEF Chats
<1>17. ASSUME Crash PROVE RunsGuarded'
  BY <1>17 DEF RestartGate, RunsGuarded, Crash
<1>18. CASE UNCHANGED vars
  BY <1>18 DEF vars, RunsGuarded, gateVars
<1> QED
  BY <1>1, <1>2, <1>3, <1>4, <1>5, <1>6, <1>7, <1>8, <1>9, <1>10, <1>11,
     <1>12, <1>13, <1>14, <1>15, <1>16, <1>17, <1>18
     DEF Next, SendStep, TurnStep, SendFails, TurnFails, FinaliserStep, StopStep,
         MutationStep, WaitStep, AllReturned

-----------------------------------------------------------------------------
(* Stops. *)

Quiet == {"clearing", "rechecking", "ending"}

(* What a stop relies on from the moment it has seen the gate idle. *)
StopIdle ==
  \A s \in Stoppers : spc[s] \in Quiet =>
    /\ GateIdle
    /\ spc[s] /= "clearing" => queue = <<>>

(* While a stop is in progress no operation of the gate makes a guard or a  *)
(* permit holder: an idle gate stays idle.                                  *)
LEMMA IdleStays ==
  ASSUME TypeOKGate, GateIdle, Stopping, [GateNext]_gateVars
  PROVE  GateIdle'
<1>1. ASSUME NEW c \in Chats,
             BeginSend(c) \/ AttachPermit(c) \/ BeginEnqueue(c) \/ ArmNextBatch(c)
      PROVE  GateIdle'
  BY <1>1 DEF BeginSend, AttachPermit, BeginEnqueue, ArmNextBatch, Cancelled
<1>2. ASSUME NEW c \in Chats, Abandon(c) PROVE GateIdle'
  BY <1>2 DEF Abandon, GateIdle, TypeOKGate
<1>3. ASSUME NEW c \in Chats, NEW r \in Chats, PublishRun(c, r) PROVE GateIdle'
  BY <1>3 DEF PublishRun, GateIdle, TypeOKGate
<1>4. ASSUME NEW r \in Chats, NEW res, FinishRun(r, res) PROVE GateIdle'
  BY <1>4 DEF FinishRun, GateIdle
<1>5. ASSUME NEW r \in Chats, CancelRun(r) PROVE GateIdle'
  BY <1>5 DEF CancelRun, GateIdle
<1>6. ASSUME NEW s \in Stoppers, Watch(s) PROVE GateIdle'
  BY <1>6 DEF Watch, GateIdle
<1>7. ASSUME NEW e \in Chats \cup {None}, ChooseStop(e) PROVE GateIdle'
  BY <1>7 DEF ChooseStop, GateIdle
<1>8. ASSUME DropHolder \/ EndStop PROVE GateIdle'
  BY <1>8 DEF DropHolder, EndStop, GateIdle
<1>9. ASSUME RestartGate PROVE GateIdle'
  BY <1>9 DEF RestartGate, GateIdle
<1>10. CASE UNCHANGED gateVars
  BY <1>10 DEF gateVars, GateIdle
<1> QED
  BY <1>1, <1>2, <1>3, <1>4, <1>5, <1>6, <1>7, <1>8, <1>9, <1>10 DEF GateNext

(* Only a call with a guard adds to the queue. *)
LEMMA QueueStaysEmpty ==
  ASSUME TypeOK, GuardOfPlace, GateIdle, queue = <<>>,
         [Next]_vars
  PROVE  queue' = <<>>
<1>1. ASSUME NEW c \in Chats,
             SendBegin(c) \/ SendRefused(c) \/ LoadHistory(c)
             \/ AppendTurn(c) \/ Confirm(c) \/ Activate(c)
             \/ Publish(c) \/ Finish(c) \/ UnsetActive(c)
             \/ DropGuard(c) \/ StartFails(c) \/ PrepareFails(c)
             \/ CallDropped(c) \/ RunDies(c) \/ FinaliseRun(c)
             \/ FinaliseActive(c) \/ RunAppends(c)
             \/ (\E t \in Terminals : RunEnds(c, t)) \/ StopRun(c)
      PROVE  queue' = <<>>
  BY <1>1 DEF SendBegin, SendRefused, LoadHistory, AppendTurn, Confirm,
         Activate, Publish, Finish, UnsetActive, DropGuard, StartFails,
         PrepareFails, CallDropped, RunDies, FinaliseRun, FinaliseActive,
         RunAppends, RunEnds, StopRun
<1>2. ASSUME NEW c \in Sends,
             AcquireTurn(c) \/ EnqueueBegin(c) \/ FinishEnqueue(c)
             \/ Attach(c) \/ DropUnattached(c) \/ CheckSuppressed(c)
             \/ StartQueuedBatch(c) \/ OwnerDropsTurn(c)
             \/ OwnerDropsHolder(c) \/ EnqueueFails(c) \/ DrainFails(c)
      PROVE  queue' = <<>>
  BY <1>2 DEF AcquireTurn, EnqueueBegin, FinishEnqueue, Attach,
         DropUnattached, CheckSuppressed, StartQueuedBatch, OwnerDropsTurn,
         OwnerDropsHolder, EnqueueFails, DrainFails
<1>3. ASSUME NEW s \in Stoppers,
             (\E e \in Chats \cup {None} : StopChoose(s, e))
             \/ (\E e \in Chats \cup {None} : StopMismatch(s, e))
             \/ StopLook(s) \/ StopCapture(s) \/ StopAwait(s)
             \/ StopSnapshot(s) \/ StopWake(s) \/ StopRecheck(s)
             \/ StopEnd(s) \/ StopDropped(s)
      PROVE  queue' = <<>>
  BY <1>3 DEF StopChoose, StopMismatch, StopLook, StopCapture, StopAwait,
         StopSnapshot, StopWake, StopRecheck, StopEnd, StopDropped
<1>4. ASSUME NEW m \in Mutators,
             Reserve(m) \/ MutationStopped(m) \/ Acquire(m)
             \/ Mutate(m) \/ MutationDropsGate(m)
             \/ MutationDropsTurn(m)
      PROVE  queue' = <<>>
  BY <1>4 DEF untouchedByMutations, Reserve, MutationStopped, Acquire,
         Mutate, MutationDropsGate, MutationDropsTurn
<1>5. ASSUME NEW w \in Waiters,
             WaitSubscribe(w) \/ WaitReadTerminal(w)
             \/ WaitReadActive(w) \/ WaitChanged(w)
      PROVE  queue' = <<>>
  BY <1>5 DEF untouchedByWaits, WaitSubscribe, WaitReadTerminal,
         WaitReadActive, WaitChanged
<1>6. ASSUME ClearChat \/ Crash
      PROVE  queue' = <<>>
  BY <1>6 DEF ClearChat, Crash
<1>7. ASSUME NEW c \in Sends, EnqueueCommit(c) PROVE queue' = <<>>
  BY <1>7 DEF Chats, GuardOfPlace, GuardFits, GateIdle, EnqueueCommit
<1>8. ASSUME NEW c \in Sends, DrainQueue(c) PROVE queue' = <<>>
  BY <1>8 DEF Drain, DrainQueue
<1>9. ASSUME NEW c \in Sends, RemoveQueued(c) PROVE queue' = <<>>
  BY <1>9 DEF Remove, RemoveQueued
<1>10. ASSUME NEW s \in Stoppers, StopClear(s) PROVE queue' = <<>>
  BY <1>10 DEF Clear, StopClear
<1>11. CASE UNCHANGED vars
  BY <1>11 DEF vars
<1> QED
  BY <1>1, <1>2, <1>3, <1>4, <1>5, <1>6, <1>7, <1>8, <1>9, <1>10, <1>11
     DEF Next, SendStep, TurnStep, SendFails, TurnFails, FinaliserStep, StopStep,
         MutationStep, WaitStep, AllReturned

(* How a stop comes to a quiet place. *)
LEMMA QuietEntered ==
  ASSUME TypeOK, NEW s \in Stoppers, spc'[s] \in Quiet, [Next]_vars
  PROVE  spc'[s] = spc[s] \/ StopSnapshot(s) \/ StopClear(s) \/ StopRecheck(s)
<1>1. ASSUME NEW t \in Stoppers,
             \/ \E e \in Chats \cup {None} : StopChoose(t, e) \/ StopMismatch(t, e)
             \/ StopLook(t) \/ StopCapture(t) \/ StopAwait(t) \/ StopWake(t)
             \/ StopEnd(t) \/ StopDropped(t)
      PROVE  spc'[s] = spc[s]
  BY <1>1 DEF StopChoose, StopMismatch, StopLook, StopCapture, StopAwait, StopWake,
              StopEnd, StopDropped, SGoto, Quiet, TypeOK, TypeOKStops
<1>2. ASSUME NEW t \in Stoppers, StopSnapshot(t) \/ StopClear(t) \/ StopRecheck(t)
      PROVE  t = s \/ spc'[s] = spc[s]
  BY <1>2 DEF StopSnapshot, StopClear, StopRecheck, SGoto, TypeOK, TypeOKStops
<1>3. ASSUME NEW c \in Chats,
             SendBegin(c) \/ SendRefused(c) \/ LoadHistory(c)
             \/ AppendTurn(c) \/ Confirm(c) \/ Activate(c)
             \/ Publish(c) \/ Finish(c) \/ UnsetActive(c)
             \/ DropGuard(c) \/ StartFails(c) \/ PrepareFails(c)
             \/ CallDropped(c) \/ RunDies(c) \/ FinaliseRun(c)
             \/ FinaliseActive(c) \/ RunAppends(c)
             \/ (\E t \in Terminals : RunEnds(c, t)) \/ StopRun(c)
      PROVE  spc'[s] = spc[s]
  BY <1>3 DEF stopVars, others, SendBegin, SendRefused, LoadHistory,
         AppendTurn, Confirm, Activate, Publish, Finish, UnsetActive,
         DropGuard, StartFails, PrepareFails, CallDropped, RunDies,
         FinaliseRun, FinaliseActive, RunAppends, RunEnds, StopRun
<1>4. ASSUME NEW c \in Sends,
             AcquireTurn(c) \/ EnqueueBegin(c) \/ EnqueueCommit(c)
             \/ FinishEnqueue(c) \/ Attach(c) \/ DropUnattached(c)
             \/ CheckSuppressed(c) \/ DrainQueue(c)
             \/ StartQueuedBatch(c) \/ OwnerDropsTurn(c)
             \/ OwnerDropsHolder(c) \/ EnqueueFails(c) \/ DrainFails(c)
             \/ RemoveQueued(c)
      PROVE  spc'[s] = spc[s]
  BY <1>4 DEF stopVars, others, AcquireTurn, EnqueueBegin, EnqueueCommit,
         FinishEnqueue, Attach, DropUnattached, CheckSuppressed, DrainQueue,
         StartQueuedBatch, OwnerDropsTurn, OwnerDropsHolder, EnqueueFails,
         DrainFails, RemoveQueued
<1>5. ASSUME NEW m \in Mutators,
             Reserve(m) \/ MutationStopped(m) \/ Acquire(m)
             \/ Mutate(m) \/ MutationDropsGate(m)
             \/ MutationDropsTurn(m)
      PROVE  spc'[s] = spc[s]
  BY <1>5 DEF stopVars, untouchedByMutations, Reserve, MutationStopped,
         Acquire, Mutate, MutationDropsGate, MutationDropsTurn
<1>6. ASSUME NEW w \in Waiters,
             WaitSubscribe(w) \/ WaitReadTerminal(w)
             \/ WaitReadActive(w) \/ WaitChanged(w)
      PROVE  spc'[s] = spc[s]
  BY <1>6 DEF stopVars, untouchedByWaits, WaitSubscribe, WaitReadTerminal,
         WaitReadActive, WaitChanged
<1>7. ASSUME ClearChat
      PROVE  spc'[s] = spc[s]
  BY <1>7 DEF stopVars, others, ClearChat
<1>8. ASSUME UNCHANGED vars PROVE spc'[s] = spc[s]
  BY <1>8 DEF vars, stopVars
<1>9. ASSUME Crash PROVE spc'[s] = spc[s]
  BY <1>9 DEF Crash, Quiet, TypeOK, TypeOKStops
<1> QED
  BY <1>1, <1>2, <1>3, <1>4, <1>5, <1>6, <1>7, <1>8, <1>9
     DEF Next, SendStep, TurnStep, SendFails, TurnFails, FinaliserStep, StopStep,
         MutationStep, WaitStep, AllReturned

(* A quiet stop stays quiet, and a stop becomes quiet on an idle gate. *)
LEMMA IdleStep ==
  TypeOK /\ StopsCounted /\ GuardOfPlace /\ StopIdle /\ [Next]_vars => StopIdle'
<1> SUFFICES ASSUME TypeOK, StopsCounted, GuardOfPlace, StopIdle, [Next]_vars,
                    NEW s \in Stoppers, spc'[s] \in Quiet
             PROVE  GateIdle' /\ (spc'[s] /= "clearing" => queue' = <<>>)
  BY DEF StopIdle
<1>1. ASSUME spc[s] \in Quiet PROVE GateIdle'
  <2>1. GateIdle
    BY <1>1 DEF StopIdle
  <2>2. s \in ActiveStops
    BY <1>1 DEF ActiveStops, StopPlaces, Quiet
  <2>3. Stopping
    <3>1. Cardinality(ActiveStops) \in Nat /\ Cardinality(ActiveStops) /= 0
      BY <2>2, CallSetsFinite, FS_EmptySet, FS_CardinalityType
    <3> QED
      BY <3>1 DEF StopsCounted, Stopping
  <2> QED
    BY <2>1, <2>3, GateSteps, IdleStays DEF TypeOK
<1>2. CASE spc'[s] = spc[s]
  <2>1. GateIdle'
    BY <1>1, <1>2
  <2>2. ASSUME spc'[s] /= "clearing" PROVE queue' = <<>>
    <3>1. GateIdle /\ queue = <<>>
      BY <1>2, <2>2 DEF StopIdle
    <3> QED
      BY <3>1, QueueStaysEmpty
  <2> QED
    BY <2>1, <2>2
<1>3. CASE StopSnapshot(s)
  <2>1. spc' = [spc EXCEPT ![s] = IF FreshError(seen[s]) THEN "failing"
                                  ELSE IF GateIdle THEN "clearing" ELSE "sleeping"]
        /\ UNCHANGED gateVars
    BY <1>3 DEF StopSnapshot, SGoto
  <2>2. GateIdle /\ spc'[s] = "clearing"
    BY <2>1 DEF Quiet, TypeOK, TypeOKStops
  <2> QED
    BY <2>1, <2>2 DEF gateVars, GateIdle
<1>4. CASE StopClear(s)
  <2>1. spc[s] = "clearing" /\ (spc'[s] /= "failing" => queue' = <<>>)
    BY <1>4 DEF StopClear, SGoto, Clear, TypeOK, TypeOKStops
  <2> QED
    BY <1>1, <2>1 DEF Quiet
<1>5. CASE StopRecheck(s)
  <2>1. spc[s] = "rechecking" /\ UNCHANGED queue
    BY <1>5 DEF StopRecheck
  <2> QED
    BY <1>1, <2>1 DEF Quiet, StopIdle
<1> QED
  BY <1>2, <1>3, <1>4, <1>5, QuietEntered

(* On an idle gate no call is in a turn or near the queue, and no run is    *)
(* published.                                                               *)
LEMMA IdleMeansQuiet ==
  ASSUME TypeOK, HoldersCounted, SyncPlaces, GuardOfPlace, RunsGuarded, GateIdle
  PROVE  /\ runs = {}
         /\ \A c \in Chats : pc[c] \notin
              TurnPlaces \cup {"enqueueing", "enqueued", "draining", "arming"}
<1>1. runs = {}
  BY DEF RunsGuarded, GateIdle
<1>2. ASSUME NEW c \in Chats
      PROVE  pc[c] \notin TurnPlaces \cup {"enqueueing", "enqueued"}
  BY DEF GuardOfPlace, GuardFits, GateIdle, TurnPlaces
<1>3. ASSUME NEW c \in Syncs PROVE pc[c] \notin {"draining", "arming"}
  BY DEF SyncPlaces, TurnPlaces
<1>4. ASSUME NEW c \in Sends PROVE pc[c] \notin {"draining", "arming"}
  <2>1. Holders = {}
    BY CallSetsFinite, FS_EmptySet DEF HoldersCounted, GateIdle
  <2> QED
    BY <2>1 DEF Holders, HolderPlaces
<1> QED
  BY <1>1, <1>2, <1>3, <1>4 DEF Chats

(* The inductive invariant behind StopsQuiesce. *)
StopInv ==
  /\ TypeOK
  /\ HoldersCounted
  /\ StopsCounted
  /\ SyncPlaces
  /\ GuardOfPlace
  /\ RunsGuarded
  /\ BatchesDisjoint
  /\ StopIdle

LEMMA StopInvariant == Spec => []StopInv
<1>1. Init => StopInv
  <2> SUFFICES ASSUME Init PROVE StopInv
    OBVIOUS
  <2>1. TypeOK
    BY InitTypes
  <2>2. HoldersCounted /\ StopsCounted
    BY InitCounted
  <2>3. SyncPlaces /\ GuardOfPlace /\ RunsGuarded /\ StopIdle
    BY DEF Init, InitGate, SyncPlaces, GuardOfPlace, GuardFits, RunsGuarded,
           StopIdle, Quiet, Chats
  <2>4. BatchesDisjoint
    <3>1. \A p \in Chats : ~Accepted(p) /\ ~Queued(p)
      BY DEF Init, InitQueue, Accepted, Queued
    <3>2. \A c, p \in Chats : InBatch(c, p) => p = c
      BY DEF Init, InBatch
    <3>3. \A p \in Chats : batch[p] = <<p>>
      BY DEF Init
    <3> QED
      BY <3>1, <3>2, <3>3 DEF BatchesDisjoint
  <2> QED
    BY <2>1, <2>2, <2>3, <2>4 DEF StopInv
<1>2. StopInv /\ [Next]_vars => StopInv'
  BY TypeStep, HoldersStep, StopsStep, SyncStep, GuardStep, RunsStep,
     BatchesStep, IdleStep DEF StopInv
<1> QED
  BY <1>1, <1>2, PTL DEF Spec

(* From the moment a stop has seen the gate idle until it takes its depth   *)
(* back, no turn is in flight, no run is published, nothing can reach the   *)
(* queue and, after the clear, the queue is empty; for any number of sends, *)
(* send_syncs, overlapping stops and truncations, and with every fault.     *)
THEOREM StopsQuiesce == Spec => []StopQuiesces
<1>1. StopInv => StopQuiesces
  BY IdleMeansQuiet DEF StopInv, StopIdle, Quiet, StopQuiesces
<1> QED
  BY <1>1, StopInvariant, PTL
=============================================================================
