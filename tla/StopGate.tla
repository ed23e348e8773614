------------------------------ MODULE StopGate ------------------------------
(***************************************************************************)
(* crates/chat/src/service/stop_gate.rs: the state one LiveChatService     *)
(* keeps, behind one mutex, to coordinate stopping a session with turns    *)
(* that already hold a permit or are about to enqueue.  One session key:   *)
(* every map of GateState is keyed by it.                                  *)
(*                                                                         *)
(* A guard belongs to the chat call that made it and a call has at most    *)
(* one, so the maps from guard ids are functions of the call.  A run is    *)
(* named by the last prompt of its batch: a prompt ends at most one batch, *)
(* so the name is as unique as the code's UUID.  active_runs changes only  *)
(* together with GateState.runs; both are `runs' here.                     *)
(***************************************************************************)
EXTENDS SessionCalls

VARIABLES stopDepth,           \* stops in progress
          suppressed,          \* no queued batch may start
          epoch,               \* enqueues begun
          phase,               \* guard of a call, or "none"
          guardCancel,         \* the guard's cancellation token
          guardRun,            \* the run the guard was published for
          permitHolders,       \* PermitReleases alive
          runs,                \* published runs
          currentRun,          \* the run published last
          token,               \* cancelled run tokens
          result,              \* RunDone.result of a run
          finishedDuringStop,  \* results of runs that ended under a stop
          woken                \* stops whose Notified future is ready

gateVars == <<stopDepth, suppressed, epoch, phase, guardCancel, guardRun,
              permitHolders, runs, currentRun, token, result,
              finishedDuringStop, woken>>

Phases == {"none", "Acquiring", "HoldingPermit", "Enqueueing", "Running"}

Stopping == stopDepth > 0

NotifyWaiters == woken' = [s \in Stoppers |-> TRUE]

InitGate ==
  /\ stopDepth = 0
  /\ suppressed = FALSE
  /\ epoch = 0
  /\ phase = [c \in Chats |-> "none"]
  /\ guardCancel = [c \in Chats |-> FALSE]
  /\ guardRun = [c \in Chats |-> None]
  /\ permitHolders = 0
  /\ runs = {}
  /\ currentRun = None
  /\ token = {}
  /\ result = [r \in Chats |-> "none"]
  /\ finishedDuringStop = <<>>
  /\ woken = [s \in Stoppers |-> FALSE]

(* A guard enters the map with a fresh token and no run. *)
NewGuard(c, ph) ==
  /\ phase' = [phase EXCEPT ![c] = ph]
  /\ guardCancel' = [guardCancel EXCEPT ![c] = FALSE]
  /\ guardRun' = [guardRun EXCEPT ![c] = None]

BeginSend(c) ==
  /\ ~Stopping
  /\ NewGuard(c, "Acquiring")
  /\ UNCHANGED <<stopDepth, suppressed, epoch, permitHolders, runs, currentRun,
                 token, result, finishedDuringStop, woken>>

(* Removes the guard and wakes the stops. *)
Abandon(c) ==
  /\ phase' = [phase EXCEPT ![c] = "none"]
  /\ NotifyWaiters
  /\ UNCHANGED <<stopDepth, suppressed, epoch, guardCancel, guardRun,
                 permitHolders, runs, currentRun, token, result,
                 finishedDuringStop>>

(* A stop reached the guard, or is in progress. *)
Cancelled(c) == guardCancel[c] \/ Stopping

(* Mutant: the holder is not counted. *)
AttachPermitUncounted(c) ==
  /\ ~Cancelled(c)
  /\ phase' = [phase EXCEPT ![c] = "HoldingPermit"]
  /\ UNCHANGED <<stopDepth, suppressed, epoch, guardCancel, guardRun,
                 permitHolders, runs, currentRun, token, result,
                 finishedDuringStop, woken>>

AttachPermit(c) ==
  /\ ~Cancelled(c)
  /\ phase' = [phase EXCEPT ![c] = "HoldingPermit"]
  /\ permitHolders' = permitHolders + 1
  /\ UNCHANGED <<stopDepth, suppressed, epoch, guardCancel, guardRun, runs,
                 currentRun, token, result, finishedDuringStop, woken>>

BeginEnqueue(c) ==
  /\ ~Cancelled(c)
  /\ phase' = [phase EXCEPT ![c] = "Enqueueing"]
  /\ epoch' = epoch + 1
  /\ UNCHANGED <<stopDepth, suppressed, guardCancel, guardRun, permitHolders,
                 runs, currentRun, token, result, finishedDuringStop, woken>>

(* confirm_start changes nothing when it accepts the turn. *)
ConfirmStart(c) ==
  /\ ~Cancelled(c)
  /\ UNCHANGED gateVars

(* What attach_permit, begin_enqueue and confirm_start do when they refuse. *)
RefuseCancelled(c) ==
  /\ Cancelled(c)
  /\ Abandon(c)

(* Mutant: a run published under a stop is not cancelled. *)
PublishRunUncancelled(c, r) ==
  /\ runs' = runs \cup {r}
  /\ currentRun' = r
  /\ phase' = [phase EXCEPT ![c] = IF @ = "none" THEN @ ELSE "Running"]
  /\ guardRun' = [guardRun EXCEPT ![c] = IF phase[c] = "none" THEN @ ELSE r]
  /\ UNCHANGED <<stopDepth, suppressed, epoch, guardCancel, permitHolders, token,
                 result, finishedDuringStop, woken>>

PublishRun(c, r) ==
  /\ token' = IF Stopping THEN token \cup {r} ELSE token
  /\ runs' = runs \cup {r}
  /\ currentRun' = r
  /\ phase' = [phase EXCEPT ![c] = IF @ = "none" THEN @ ELSE "Running"]
  /\ guardRun' = [guardRun EXCEPT ![c] = IF phase[c] = "none" THEN @ ELSE r]
  /\ UNCHANGED <<stopDepth, suppressed, epoch, guardCancel, permitHolders,
                 result, finishedDuringStop, woken>>

(* CancellationToken::cancel on a captured run. *)
CancelRun(r) ==
  /\ token' = token \cup {r}
  /\ UNCHANGED <<stopDepth, suppressed, epoch, phase, guardCancel, guardRun,
                 permitHolders, runs, currentRun, result, finishedDuringStop,
                 woken>>

(* A turn of a stop's loop begins with a new Notified future. *)
Watch(s) ==
  /\ woken' = [woken EXCEPT ![s] = FALSE]
  /\ UNCHANGED <<stopDepth, suppressed, epoch, phase, guardCancel, guardRun,
                 permitHolders, runs, currentRun, token, result,
                 finishedDuringStop>>

(* The session of a finished run is found through its guard, or else *)
(* through current_run.                                              *)
KnownRun(r) ==
  \/ \E c \in Chats : phase[c] /= "none" /\ guardRun[c] = r
  \/ currentRun = r

(* Mutant: the waiters of the run are not told its result. *)
FinishRunUntold(r, res) ==
  /\ finishedDuringStop' = IF Stopping /\ KnownRun(r)
                             THEN Append(finishedDuringStop, res)
                             ELSE finishedDuringStop
  /\ runs' = runs \ {r}
  /\ currentRun' = IF currentRun = r THEN None ELSE currentRun
  /\ phase' = [c \in Chats |-> IF guardRun[c] = r THEN "none" ELSE phase[c]]
  /\ NotifyWaiters
  /\ UNCHANGED <<stopDepth, suppressed, epoch, guardCancel, guardRun,
                 permitHolders, token, result>>

FinishRun(r, res) ==
  /\ result' = IF r \in runs THEN [result EXCEPT ![r] = res] ELSE result
  /\ finishedDuringStop' = IF Stopping /\ KnownRun(r)
                             THEN Append(finishedDuringStop, res)
                             ELSE finishedDuringStop
  /\ runs' = runs \ {r}
  /\ currentRun' = IF currentRun = r THEN None ELSE currentRun
  /\ phase' = [c \in Chats |-> IF guardRun[c] = r THEN "none" ELSE phase[c]]
  /\ NotifyWaiters
  /\ UNCHANGED <<stopDepth, suppressed, epoch, guardCancel, guardRun,
                 permitHolders, token>>

(* Mutant: the stops are not woken. *)
DropHolderSilently ==
  /\ permitHolders' = IF permitHolders = 0 THEN 0 ELSE permitHolders - 1
  /\ UNCHANGED <<stopDepth, suppressed, epoch, phase, guardCancel, guardRun,
                 runs, currentRun, token, result, finishedDuringStop, woken>>

(* PermitRelease::drop after the semaphore permit is gone. *)
DropHolder ==
  /\ permitHolders' = IF permitHolders = 0 THEN 0 ELSE permitHolders - 1
  /\ NotifyWaiters
  /\ UNCHANGED <<stopDepth, suppressed, epoch, phase, guardCancel, guardRun,
                 runs, currentRun, token, result, finishedDuringStop>>

(* A fresh guard for the next batch, for a turn that keeps its permit. *)
ArmNextBatch(c) ==
  /\ ~Stopping
  /\ ~suppressed
  /\ NewGuard(c, "HoldingPermit")
  /\ UNCHANGED <<stopDepth, suppressed, epoch, permitHolders, runs, currentRun,
                 token, result, finishedDuringStop, woken>>

(* choose_stop, for a caller that expects run e, or any when e is None. *)
StopMatches(e) == e = None \/ e = currentRun

ChooseStop(e) ==
  /\ StopMatches(e)
  /\ stopDepth' = stopDepth + 1
  /\ suppressed' = IF Stopping THEN suppressed ELSE TRUE
  /\ guardCancel' = IF Stopping
                      THEN guardCancel
                      ELSE [c \in Chats |-> guardCancel[c] \/ phase[c] /= "none"]
  /\ UNCHANGED <<epoch, phase, guardRun, permitHolders, runs, currentRun, token,
                 result, finishedDuringStop, woken>>

EndStop ==
  /\ stopDepth' = IF Stopping THEN stopDepth - 1 ELSE 0
  /\ suppressed' = IF stopDepth <= 1 THEN FALSE ELSE suppressed
  /\ finishedDuringStop' = IF stopDepth <= 1 THEN <<>> ELSE finishedDuringStop
  /\ NotifyWaiters
  /\ UNCHANGED <<epoch, phase, guardCancel, guardRun, permitHolders, runs,
                 currentRun, token, result>>

(* Mutant: the stop looks at the guards only. *)
GateIdleGuards == \A c \in Chats : phase[c] = "none"

(* snapshot_stop: no guard, no permit holder; and an error among the results *)
(* the caller, who has seen n of them, has not seen yet.                     *)
GateIdle == permitHolders = 0 /\ \A c \in Chats : phase[c] = "none"

FreshError(n) ==
  \E i \in DOMAIN finishedDuringStop : i > n /\ finishedDuringStop[i] = "err"

(* A new process has a new gate. *)
RestartGate ==
  /\ stopDepth' = 0
  /\ suppressed' = FALSE
  /\ epoch' = 0
  /\ phase' = [c \in Chats |-> "none"]
  /\ guardCancel' = [c \in Chats |-> FALSE]
  /\ guardRun' = [c \in Chats |-> None]
  /\ permitHolders' = 0
  /\ runs' = {}
  /\ currentRun' = None
  /\ token' = {}
  /\ result' = [r \in Chats |-> "none"]
  /\ finishedDuringStop' = <<>>
  /\ woken' = [s \in Stoppers |-> FALSE]

(* Every step of the gate. *)
GateNext ==
  \/ \E c \in Chats :
       \/ BeginSend(c) \/ Abandon(c) \/ AttachPermit(c) \/ BeginEnqueue(c)
       \/ ArmNextBatch(c)
       \/ \E r \in Chats : PublishRun(c, r)
  \/ \E r \in Chats : CancelRun(r) \/ FinishRun(r, "ok") \/ FinishRun(r, "err")
  \/ \E s \in Stoppers : Watch(s)
  \/ \E e \in Chats \cup {None} : ChooseStop(e)
  \/ DropHolder
  \/ EndStop
  \/ RestartGate

TypeOKGate ==
  /\ stopDepth \in Nat
  /\ suppressed \in BOOLEAN
  /\ epoch \in Nat
  /\ phase \in [Chats -> Phases]
  /\ guardCancel \in [Chats -> BOOLEAN]
  /\ guardRun \in [Chats -> Chats \cup {None}]
  /\ permitHolders \in Nat
  /\ runs \subseteq Chats
  /\ currentRun \in Chats \cup {None}
  /\ token \subseteq Chats
  /\ result \in [Chats -> {"none", "ok", "err"}]
  /\ finishedDuringStop \in Seq({"ok", "err"})
  /\ woken \in [Stoppers -> BOOLEAN]
=============================================================================
