---------------------------- MODULE MCServices ----------------------------
(***************************************************************************)
(* The services beside the chat, for TLC: a behaviour is one of the cron   *)
(* scheduler, of the webhooks or of the terminals.  They share no state; a *)
(* run of all is the three state spaces side by side.                      *)
(***************************************************************************)
EXTENDS MCCron, Webhooks, Terminals

VARIABLE service

vars == <<cronVars, hookVars, terminalVars, service>>

(* One command of two lines and one of a single line. *)
MCLines == [c \in ToolCalls |-> IF c = "call1" THEN 2 ELSE 1]

Init ==
  /\ service \in {"cron", "webhooks", "terminals"}
  /\ InitCron
  /\ InitWebhooks
  /\ InitTerminals
  /\ service # "webhooks" => keyOf = [r \in Requests |-> NoKey]

(* The clients of cron are alike: the same one always calls first. *)
CallsInOrder ==
  LET first == CHOOSE c \in Clients : TRUE
  IN  (\E c \in Clients : task[c] # Idle) => task[first] # Idle

OfCron(A) ==
  service = "cron" /\ A /\ CallsInOrder' /\ UNCHANGED <<hookVars, terminalVars, service>>
OfWebhooks(A) == service = "webhooks" /\ A /\ UNCHANGED <<cronVars, terminalVars, service>>
OfTerminals(A) == service = "terminals" /\ A /\ UNCHANGED <<cronVars, hookVars, service>>

Next == OfCron(NextCron) \/ OfWebhooks(NextWebhooks) \/ OfTerminals(NextTerminals)

Fairness ==
  /\ WF_vars(OfCron(TimerLoop))
  /\ \A t \in Tasks : WF_vars(OfCron(TaskSteps(t)))
  /\ \A r \in Requests : WF_vars(OfWebhooks(RequestSteps(r)))
  /\ WF_vars(OfWebhooks(WorkerSteps))
  /\ WF_vars(OfWebhooks(Boot))

Spec == Init /\ [][Next]_vars /\ Fairness

(* A stored delivery is finished, whatever crashes come between, unless    *)
(* its webhook is deleted, the table failed, or its client was gone before *)
(* tx.send had queued it; what one process gave up, the next must finish.  *)
(* The requests are alike, so it is checked of one.                        *)
StoredIsFinished == Finishes(CHOOSE r \in Requests : TRUE)
=============================================================================
