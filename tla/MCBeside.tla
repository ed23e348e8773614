------------------------------ MODULE MCBeside ------------------------------
(***************************************************************************)
(* Sends with one more call beside them, for TLC: in some behaviours a     *)
(* stop, in the others a send_sync.  The call that a behaviour is not      *)
(* about was made before it and came to nothing.                           *)
(***************************************************************************)
EXTENDS MCChatTurns

Mismatched == \A s \in Stops : spc[s] = "mismatch"

(* Every send_sync was refused, or every stop was for another run. *)
InitBeside ==
  \E y \in {"new", "done"}, s \in {"new", "mismatch"} :
    /\ y = "new" <=> s = "mismatch"
    /\ InitMutations
    /\ InitQueue
    /\ InitGate
    /\ InitSessionGate
    /\ activeRun = None
    /\ history = <<>>
    /\ pc = [c \in Chats |-> IF c \in Syncs THEN y ELSE "new"]
    /\ batch = [c \in Chats |-> <<c>>]
    /\ view = [c \in Chats |-> <<>>]
    /\ finaliser = [c \in Chats |-> "none"]
    /\ spc = [t \in Stoppers |-> s]
    /\ expected = [t \in Stoppers |-> None]
    /\ seen = [t \in Stoppers |-> 0]
    /\ snapEpoch = [t \in Stoppers |-> 0]
    /\ waitFor = [t \in Stoppers |-> None]
    /\ mpc = [m \in Mutators |-> "new"]
    /\ wpc = [w \in Waiters |-> "new"]
    /\ saw = [w \in Waiters |-> "none"]
    /\ accepted = <<>>
    /\ crashes = 0

BesideSpec == InitBeside /\ [][Next]_vars

StoreFails ==
  \E p \in Sends : pc'[p] # pc[p] /\
    \/ EnqueueFails(p)
    \/ PrepareFails(p)
    \/ (pc[p] = "drained" \/ queue # <<>>) /\ DrainFails(p)
    \/ /\ pc[p] = "loading" \/ (Len(history) = Len(view[p]) /\ batch[p] # <<p>>)
       /\ StartFails(p)

(* Bound: beside a send_sync the sends meet a hook, but no failing store,  *)
(* panic or cancellation; the run of a send_sync dies between two of them. *)
BesideSync ==
  /\ \A p \in Sends : finaliser[p] = "none"
  /\ \/ \A y \in Syncs : finaliser[y] = "none"
     \/ \A p \in Sends : pc[p] \in {"new", "done"}

FewFailures == Mismatched => BesideSync' /\ token' = token /\ ~StoreFails
=============================================================================
