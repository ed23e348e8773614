-------------------------- MODULE ChatTurnsLedger --------------------------
(***************************************************************************)
(* The turns of ChatTurns as steps of PromptLedger.  The ledger's prompts  *)
(* are the sends'; a send_sync takes no permit, so its turns are among the *)
(* ledger's others.                                                        *)
(***************************************************************************)
EXTENDS ChatTurns

(* Sends that are still on their way to the permit or to the queue. *)
UnmetPlaces == {"new", "acquiring", "busy", "enqueueing", "attaching"}

Met == {c \in Sends : pc[c] \notin UnmetPlaces}

TheOne(C) == CHOOSE c \in C : TRUE

(* The batch of the one call in C, or none. *)
BatchOf(C) == IF C = {} THEN <<>> ELSE batch[TheOne(C)]

Hand == BatchOf(Carriers \cap Sends)

(* The sends whose turn is stored and has not ended. *)
Executors ==
  {c \in Sends :
     pc[c] \in {"confirming", "activating", "publishing", "running"}}

Ledger == INSTANCE PromptLedger
            WITH Prompts <- Sends, Others <- Syncs, met <- Met, waiting <- queue,
                 hand <- Hand, log <- history, executing <- BatchOf(Executors)

(* Every step of a session is a step of the ledger: a prompt is taken only  *)
(* when no turn of a send is under way, a drained batch is stored whole and *)
(* in order or lost whole, nothing is stored twice, a run writes only while *)
(* its turn is the one that executes, and the journal is cut by a           *)
(* truncation only when there is none.                                      *)
ImplementsLedger == Ledger!LedgerSpec
=============================================================================
