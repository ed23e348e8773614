---------------------------- MODULE PromptLedger ----------------------------
(***************************************************************************)
(* What a session promises about the prompts it is sent, with no gate,     *)
(* permit, guard or task: a prompt is taken into a turn at once or waits;  *)
(* the waiting ones are taken together, in their order, when no turn is    *)
(* under way; the prompts in hand are stored together or not at all; a     *)
(* turn executes alone, and what it says is stored while it executes.      *)
(* Prompts may be refused, withdrawn or lost, never repeated, reordered or *)
(* invented.                                                               *)
(***************************************************************************)
EXTENDS Naturals, Sequences

CONSTANTS Prompts,
          Others      \* prompts that are answered beside these turns

VARIABLES met,        \* prompts that were taken, queued or refused
          waiting,    \* prompts that wait, in order
          hand,       \* prompts a turn has taken and not stored yet
          log,        \* stored prompts and answers
          executing   \* the prompts of the stored turn that executes

ledgerVars == <<met, waiting, hand, log, executing>>

Prompt(p) == [role |-> "user", of |-> p]
Answer(p) == [role |-> "assistant", of |-> p]

InitLedger ==
  /\ met = {}
  /\ waiting = <<>>
  /\ hand = <<>>
  /\ log = <<>>
  /\ executing = <<>>

Idle == hand = <<>> /\ executing = <<>>

(* A new prompt becomes a turn. *)
Take(p) ==
  /\ Idle /\ p \notin met
  /\ met' = met \cup {p}
  /\ hand' = <<p>>
  /\ UNCHANGED <<waiting, log, executing>>

(* A new prompt waits. *)
Wait(p) ==
  /\ p \notin met
  /\ met' = met \cup {p}
  /\ waiting' = Append(waiting, p)
  /\ UNCHANGED <<hand, log, executing>>

(* All that waits becomes a turn. *)
TakeWaiting ==
  /\ Idle /\ waiting # <<>>
  /\ hand' = waiting
  /\ waiting' = <<>>
  /\ UNCHANGED <<met, log, executing>>

Store ==
  /\ hand # <<>>
  /\ log' = log \o [i \in DOMAIN hand |-> Prompt(hand[i])]
  /\ hand' = <<>>
  /\ executing' = hand
  /\ UNCHANGED <<met, waiting>>

(* The turn that executes answers its last prompt. *)
Speak ==
  /\ executing # <<>>
  /\ log' = Append(log, Answer(executing[Len(executing)]))
  /\ UNCHANGED <<met, waiting, hand, executing>>

(* The turn ends; or the process does, with what is in hand and with the   *)
(* prompts S that were not yet taken or queued.                            *)
End(S) ==
  /\ met' = met \cup S
  /\ hand' = <<>>
  /\ executing' = <<>>
  /\ UNCHANGED <<waiting, log>>

Refuse(p) ==
  /\ met' = met \cup {p}
  /\ UNCHANGED <<waiting, hand, log, executing>>

(* A prompt that waits is withdrawn. *)
Withdraw(p) ==
  /\ \E i \in DOMAIN waiting :
       /\ waiting[i] = p
       /\ waiting' = SubSeq(waiting, 1, i - 1)
                       \o SubSeq(waiting, i + 1, Len(waiting))
  /\ UNCHANGED <<met, hand, log, executing>>

(* A stop empties the queue when no turn is under way. *)
ClearWaiting ==
  /\ Idle
  /\ waiting' = <<>>
  /\ UNCHANGED <<met, hand, log, executing>>

(* The end of the log is cut when no turn is under way. *)
Cut ==
  /\ Idle
  /\ \E n \in 0..Len(log) : log' = SubSeq(log, 1, n)
  /\ UNCHANGED <<met, waiting, hand, executing>>

(* The log is cleared, whatever goes on. *)
Forget ==
  /\ log' = <<>>
  /\ UNCHANGED <<met, waiting, hand, executing>>

(* A prompt that is no turn of this ledger is stored, or answered. *)
Overhear(p) ==
  /\ log' \in {Append(log, Prompt(p)), Append(log, Answer(p))}
  /\ UNCHANGED <<met, waiting, hand, executing>>

NextLedger ==
  \/ \E p \in Prompts : Take(p) \/ Wait(p) \/ Refuse(p) \/ Withdraw(p)
  \/ TakeWaiting \/ Store \/ Speak \/ ClearWaiting \/ Cut \/ Forget
  \/ \E p \in Others : Overhear(p)
  \/ \E S \in SUBSET Prompts : End(S)

LedgerSpec == InitLedger /\ [][NextLedger]_ledgerVars
=============================================================================
