-------------------------- MODULE Terminals_proofs --------------------------
(***************************************************************************)
(* Commands in terminals, for any calls, terminals and keys: nobody sleeps *)
(* through what it waits for, and what the terminal believes of its shell  *)
(* is true as long as the user did not type into a busy shell.             *)
(***************************************************************************)
EXTENDS Terminals, SequenceTheorems, TLAPS

-----------------------------------------------------------------------------
(* The invariants. *)

(* A call sleeps only where it waits, and its feeder belongs to a run.     *)
Sleepers ==
  /\ \A c \in asleep : call[c].pc \in {"ready", "run"}
  /\ \A c \in dozing : feeder[c].pc = "look"
  /\ \A c \in ToolCalls : feeder[c].pc # "off" => call[c].pc \in {"run", "done"}

WakeInv == Sleepers /\ NoLostWakeup

(* What holds of a terminal whoever types.                                 *)
Shape(o) ==
  /\ o.atPrompt <=> o.inputPrompt = "primary"
  /\ o.inputPrompt = "primary" /\ o.run.inputComplete => o.run.completed
  /\ o.error \/ o.run.id = "none" => o.run.completed

Unspawned(t) ==
  /\ t \notin known /\ \A c \in ToolCalls : On(c) # t
  /\ input[t] = <<>> /\ script[t] = <<>>

Plain(t) ==
  /\ Shape(out[t])
  /\ out[t].closed => shell[t].st = "ended" /\ markers[t] = <<>>
  /\ shell[t].st = "ended" => input[t] = <<>>
  /\ shell[t].st \in {"off", "starting"} => out[t] = NewOutput /\ markers[t] = <<>>
  /\ shell[t].st = "off" => Unspawned(t)

(* The active run belongs to a call of the terminal, which feeds it.       *)
Owned(t) ==
  LET r == out[t].run
  IN  r.id # "none" =>
        /\ On(r.id) = t /\ call[r.id].pc \in {"respond", "run", "done"}
        /\ Lines[r.id] = 1 => r.inputComplete
        /\ ~r.completed /\ ~r.inputComplete /\ ~out[t].closed =>
             call[r.id].pc = "respond" \/ feeder[r.id].pc # "off"

PlainInv == \A t \in Terminals : Plain(t) /\ Owned(t)

(* The markers in the pty of a terminal: a line is answered by a start or  *)
(* a continuation, a command by its end and the prompt after it.           *)
Prompts == {"primary", "unexpanded"}
Later(m) == CASE m = "started" -> {"finished"} \cup Prompts
              [] m = "finished" -> Prompts
              [] OTHER -> {}
Fresh(ms) == {i \in 1 .. Len(ms) : ms[i].new}
NoneFresh(ms) == \A i \in 1 .. Len(ms) : ~ms[i].new
Has(ms, m) == \E i \in Fresh(ms) : ms[i].mark = m

WellMarked(ms, pending) ==
  /\ \A i \in 1 .. Len(ms) : ~ms[i].new => ms[i].mark \in {"primary", "continuation"}
  /\ \A i, j \in Fresh(ms) : i < j => ms[j].mark \in Later(ms[i].mark)
  /\ \A i \in Fresh(ms) : ms[i].mark = "finished" =>
       i + 1 \in Fresh(ms) /\ ms[i + 1].mark \in Prompts
  /\ \A i \in Fresh(ms) : ms[i].mark \in Prompts =>
       IF i = 1 THEN pending ELSE ms[i - 1].new /\ ms[i - 1].mark = "finished"
  /\ \A i \in Fresh(ms), j \in 1 .. Len(ms) :
       i < j /\ ms[i].mark \in {"finished"} \cup Prompts => ms[j].mark # "continuation"

(* At most one line is under way: typed, or read and not answered, or      *)
(* answered by markers that are not processed yet.                         *)
Pending(o, ms, st, inp) ==
  /\ o.inputPrompt = "none" /\ inp = <<>> /\ st \in {"reading", "ended"}
  /\ \A i \in 1 .. Len(ms) : ms[i].mark \notin {"started", "finished", "continuation"}
  /\ \/ 1 \in Fresh(ms) /\ ms[1].mark \in Prompts
     \/ o.error /\ NoneFresh(ms)

Prompted(o, ms, st, inp) ==
  /\ inp = <<>> /\ ~o.pending /\ NoneFresh(ms)
  /\ o.inputPrompt = "primary" =>
       /\ st \in {"reading", "ended"}
       /\ \A i \in 1 .. Len(ms) : ms[i].mark = "primary"
  /\ o.inputPrompt = "continuation" => st \in {"continued", "ended"}

Typing(o, ms, st, inp) ==
  /\ Len(inp) = 1 /\ o.inputPrompt = "none" /\ ~o.pending
  /\ NoneFresh(ms) /\ st \in {"reading", "continued"}

InStep(o, ms, st, inp) ==
  /\ WellMarked(ms, o.pending)
  /\ o.pending => Pending(o, ms, st, inp)
  /\ o.inputPrompt # "none" => Prompted(o, ms, st, inp)
  /\ inp # <<>> => Typing(o, ms, st, inp)
  /\ st = "running" =>
       /\ inp = <<>> /\ o.inputPrompt = "none" /\ ~o.pending
       /\ \A i \in Fresh(ms) : ms[i].mark = "started"
  /\ st = "continued" =>
       /\ \A i \in Fresh(ms) : ms[i].mark = "continuation"
       /\ inp = <<>> /\ o.inputPrompt = "none" => Has(ms, "continuation")
  /\ st = "reading" =>
       /\ ~Has(ms, "continuation")
       /\ inp = <<>> /\ o.inputPrompt = "none" => o.pending \/ Has(ms, "finished")

(* A run that is fed to its end ends with the status of its last line, or  *)
(* of a line read later.                                                   *)
LastLine(c) == [by |-> c, n |-> Lines[c]]
ReadLast(c, s) == \E i \in 1 .. Len(s) : s[i] = LastLine(c)
ReadThen(c, line, s) ==
  \E i, j \in 1 .. Len(s) : s[i] = LastLine(c) /\ s[j] = line /\ i <= j

Answered(o, ms, sh, inp, s) ==
  o.run.inputComplete /\ ~o.run.completed =>
    /\ sh.st # "ended" => ReadLast(o.run.id, s) \/ inp = <<LastLine(o.run.id)>>
    /\ sh.st = "running" => ReadThen(o.run.id, sh.line, s)
    /\ \A i \in Fresh(ms) : ms[i].mark = "finished" => ReadThen(o.run.id, ms[i].line, s)
    /\ o.pending => ReadThen(o.run.id, o.run.exit, s)

Ended(o, s) ==
  /\ o.run.id # "none" /\ o.run.completed /\ ~o.error
  /\ ~(o.closed /\ o.run.exit = NoLine)
  => ReadThen(o.run.id, o.run.exit, s)

Told(t) ==
  /\ InStep(out[t], markers[t], shell[t].st, input[t])
  /\ Answered(out[t], markers[t], shell[t], input[t], script[t])
  /\ Ended(out[t], script[t])

ToldInv == \A t \in Terminals \ disturbed : Told(t)

(* The lines of a terminal, read or still in the pty.                      *)
Stream(t) == script[t] \o input[t]

(* What is already typed of a command.                                     *)
Begun(k) == k.pc \notin {"idle", "bind", "ready", "submit"}
Fits(k, f, l) ==
  /\ Begun(k)
  /\ k.pc = "respond" => l.n < 2
  /\ f.pc # "off" => l.n < f.next

Typed1(c) ==
  \A t \in Terminals : \A i \in 1 .. Len(Stream(t)) :
    Stream(t)[i].by = c => Fits(call[c], feeder[c], Stream(t)[i])

Ordered(s) ==
  \A i, j \in 1 .. Len(s) : i < j /\ s[i].by = s[j].by /\ s[i].by # "user" =>
    s[i].n < s[j].n /\ \A k \in i .. j : s[k].by \in {s[i].by, "user"}

(* After a line of the active run come lines of it and of the user.        *)
Followed(s, id) ==
  \A i, j \in 1 .. Len(s) : i < j /\ s[i].by = id => s[j].by \in {id, "user"}

(* The other commands of the lines are read to their last line.            *)
Left(s, id, read) ==
  \A i \in 1 .. Len(s) : s[i].by \notin {"user", id} => ReadLast(s[i].by, read)

Overtakes(s, read) ==
  \A i, j \in 1 .. Len(s) :
    i < j /\ s[i].by # s[j].by /\ "user" \notin {s[i].by, s[j].by} =>
      \E k \in 1 .. Len(read) : k < j /\ read[k] = LastLine(s[i].by)

Streams(t) ==
  /\ Ordered(Stream(t)) /\ Followed(Stream(t), out[t].run.id)
  /\ t \notin disturbed =>
       /\ shell[t].st # "ended" => Left(Stream(t), out[t].run.id, script[t])
       /\ Overtakes(Stream(t), script[t])

TypedInv == \A c \in ToolCalls : Typed1(c)
StreamInv == \A t \in Terminals : Streams(t)

TerminalInv ==
  TerminalTypeOK /\ WakeInv /\ PlainInv /\ ToldInv /\ TypedInv /\ StreamInv

-----------------------------------------------------------------------------
(* Types. *)

LEMMA LineTypes ==
  /\ NoLine \in Line /\ UserLine \in Line
  /\ \A c \in ToolCalls, n \in Nat : n \in 1 .. Lines[c] => [by |-> c, n |-> n] \in Line
  /\ \A c \in ToolCalls : LastLine(c) \in Line /\ Lines[c] \in Nat /\ Lines[c] >= 1
  /\ \A l \in Line : l.n \in Nat /\ l.by \in ToolCalls \cup {"user"}
BY TerminalAssumption DEF Line, LastLine, NoLine, UserLine

LEMMA NewTypes == NewOutput \in Output
BY LineTypes DEF NewOutput, NoRun, Output, RunState

(* The fields of an output after a change of some of them.                 *)
LEMMA ProcessedType ==
  ASSUME NEW o \in Output, NEW m \in Marker
  PROVE  Processed(o, m) \in Output
<1>1. o.run \in RunState /\ m.line \in Line /\ m.new \in BOOLEAN
  BY DEF Output, Marker
<1>2. CommandStarted(o) \in Output
  BY <1>1 DEF Output, RunState, CommandStarted
<1>3. CommandFinished(o, m.line) \in Output
  BY <1>1 DEF Output, RunState, CommandFinished
<1>4. PrimaryPrompt(o) \in Output
  BY <1>1 DEF Output, RunState, PrimaryPrompt
<1>5. ContinuationPrompt(o, m.new) \in Output
  BY <1>1 DEF Output, RunState, ContinuationPrompt
<1>6. WithError(o) \in Output
  BY <1>1 DEF Output, RunState, WithError
<1> QED
  BY <1>2, <1>3, <1>4, <1>5, <1>6 DEF Processed, Marker

LEMMA ChangedTypes ==
  ASSUME NEW o \in Output
  PROVE  /\ WithError(o) \in Output
         /\ Closed(o) \in Output
         /\ \A b \in BOOLEAN : InputTaken(o, b) \in Output
         /\ \A c \in ToolCalls : Submitted(o, c) \in Output
         /\ [o EXCEPT !.atPrompt = FALSE, !.inputPrompt = "none"] \in Output
<1>1. o.run \in RunState
  BY DEF Output
<1>2. WithError(o) \in Output
  BY <1>1 DEF Output, RunState, WithError
<1>3. Closed(o) \in Output
  BY <1>1, LineTypes DEF Output, RunState, Closed
<1>4. ASSUME NEW b \in BOOLEAN PROVE InputTaken(o, b) \in Output
  BY <1>1 DEF Output, RunState, InputTaken
<1>5. ASSUME NEW c \in ToolCalls PROVE Submitted(o, c) \in Output
  <2>1. [id |-> c, inputComplete |-> Lines[c] = 1, started |-> FALSE,
         exit |-> NoLine, completed |-> FALSE] \in RunState
    BY LineTypes DEF RunState
  <2> QED
    BY <2>1 DEF Submitted, Output
<1>6. [o EXCEPT !.atPrompt = FALSE, !.inputPrompt = "none"] \in Output
  BY DEF Output
<1> QED
  BY <1>2, <1>3, <1>4, <1>5, <1>6

(* A field of one record changes.                                          *)
LEMMA PcChanges ==
  ASSUME NEW S, NEW A, NEW B, NEW f \in [S -> [pc : A, term : B]], NEW c \in S, NEW l \in A,
         NEW g, g = [f EXCEPT ![c].pc = l]
  PROVE  /\ g \in [S -> [pc : A, term : B]]
         /\ g[c].pc = l /\ g[c].term = f[c].term /\ \A d \in S : d # c => g[d] = f[d]
         /\ \A d \in S : g[d].term = f[d].term
OBVIOUS

LEMMA FeederPcChanges ==
  ASSUME NEW S, NEW A, NEW B, NEW f \in [S -> [pc : A, next : B]], NEW c \in S, NEW l \in A,
         NEW g, g = [f EXCEPT ![c].pc = l]
  PROVE  /\ g \in [S -> [pc : A, next : B]]
         /\ g[c].pc = l /\ g[c].next = f[c].next /\ \A d \in S : d # c => g[d] = f[d]
OBVIOUS

LEMMA StateChanges ==
  ASSUME TypeOKShells, NEW t \in Terminals,
         NEW l \in {"starting", "reading", "continued", "running"},
         shell' = [shell EXCEPT ![t].st = l]
  PROVE  /\ shell' \in [Terminals -> ShellState]
         /\ shell'[t].st = l /\ shell'[t].line = shell[t].line
         /\ \A u \in Terminals : u # t => shell'[u] = shell[u]
<1>1. shell \in [Terminals -> ShellState]
  BY DEF TypeOKShells
<1>2. [shell[t] EXCEPT !.st = l] \in ShellState
  BY <1>1 DEF ShellState
<1>3. shell' = [shell EXCEPT ![t] = [shell[t] EXCEPT !.st = l]]
  OBVIOUS
<1>4. shell' \in [Terminals -> ShellState] /\ shell'[t] = [shell[t] EXCEPT !.st = l]
      /\ \A u \in Terminals : u # t => shell'[u] = shell[u]
  BY <1>1, <1>2, <1>3
<1>5. shell[t] \in ShellState
  BY <1>1
<1> QED
  BY <1>4, <1>5 DEF ShellState

Waits == {"ready", "submit", "respond", "run", "done"}

(* A call that moves keeps its types and its terminal.                     *)
LEMMA CallOn ==
  ASSUME TypeOKManager, NEW c \in ToolCalls, call[c].pc # "idle"
  PROVE  On(c) \in Terminals
BY DEF TypeOKManager, On, CallState

LEMMA CallTypes ==
  ASSUME TypeOKManager, NEW c \in ToolCalls, call[c].pc # "idle",
         NEW l \in Waits, GoesOn(c, l)
  PROVE  /\ call' \in [ToolCalls -> CallState]
         /\ \A d \in ToolCalls : call'[d].term = "none" <=> call'[d].pc = "idle"
         /\ \A d \in ToolCalls : On(d)' = On(d)
         /\ call'[c].pc = l /\ \A d \in ToolCalls : d # c => call'[d] = call[d]
<1>1. call \in [ToolCalls -> CallState] /\ call' = [call EXCEPT ![c].pc = l]
  BY DEF GoesOn, TypeOKManager
<1>2. l \in {"idle", "bind", "ready", "submit", "respond", "run", "done"}
  BY DEF Waits
<1>3. /\ call' \in [ToolCalls -> CallState]
      /\ call'[c].pc = l /\ call'[c].term = call[c].term
      /\ \A d \in ToolCalls : d # c => call'[d] = call[d]
      /\ \A d \in ToolCalls : call'[d].term = call[d].term
  BY <1>1, <1>2, PcChanges DEF CallState
<1>4. \A d \in ToolCalls : call'[d].term = "none" <=> call'[d].pc = "idle"
  BY <1>3 DEF TypeOKManager, Waits
<1> QED
  BY <1>3, <1>4 DEF On

LEMMA BindTypes ==
  ASSUME TypeOKManager, NEW c \in ToolCalls, NEW t \in Terminals,
         call' = [call EXCEPT ![c] = [pc |-> "bind", term |-> t]]
  PROVE  /\ call' \in [ToolCalls -> CallState]
         /\ \A d \in ToolCalls : call'[d].term = "none" <=> call'[d].pc = "idle"
         /\ call'[c].pc = "bind" /\ call'[c].term = t
         /\ \A d \in ToolCalls : d # c => call'[d] = call[d]
<1>1. [pc |-> "bind", term |-> t] \in CallState
  BY DEF CallState
<1>2. /\ call' \in [ToolCalls -> CallState]
      /\ call'[c].pc = "bind" /\ call'[c].term = t
      /\ \A d \in ToolCalls : d # c => call'[d] = call[d]
  BY <1>1 DEF TypeOKManager
<1> QED
  BY <1>2, TerminalAssumption DEF TypeOKManager

LEMMA OutTypes ==
  ASSUME out \in [Terminals -> Output], NEW t, NEW o, out' = [out EXCEPT ![t] = o],
         t \in Terminals => o \in Output
  PROVE  out' \in [Terminals -> Output]
OBVIOUS

LEMMA FeedTypes ==
  ASSUME TypeOKManager, NEW c \in ToolCalls, Feed(c) \/ UNCHANGED feeder
  PROVE  /\ feeder' \in [ToolCalls -> FeederState]
         /\ \A d \in ToolCalls : feeder'[d].pc # "off" => feeder'[d].next \in 2 .. Lines[d]
<1>1. CASE feeder' = [feeder EXCEPT ![c] = [pc |-> "look", next |-> 2]] /\ Lines[c] > 1
  <2>1. [pc |-> "look", next |-> 2] \in FeederState
    BY DEF FeederState
  <2> QED
    BY <1>1, <2>1, LineTypes DEF TypeOKManager
<1> QED
  BY <1>1 DEF TypeOKManager, Feed

LEMMA TypedTypes ==
  ASSUME TypeOKShells, NEW t \in Terminals, NEW line \in Line, Typed(t, line)
  PROVE  input' \in [Terminals -> Seq(Line)]
BY DEF TypeOKShells, Typed

LEMMA FeederTypes ==
  ASSUME TypeOKManager, NEW c \in ToolCalls, NEW l \in {"off", "look", "write"},
         feeder[c].next \in 2 .. Lines[c], FeederGoes(c, l)
  PROVE  /\ feeder' \in [ToolCalls -> FeederState]
         /\ \A d \in ToolCalls : feeder'[d].pc # "off" => feeder'[d].next \in 2 .. Lines[d]
         /\ feeder'[c].pc = l /\ feeder'[c].next = feeder[c].next
         /\ \A d \in ToolCalls : d # c => feeder'[d] = feeder[d]
<1>1. /\ feeder' \in [ToolCalls -> FeederState]
      /\ feeder'[c].pc = l /\ feeder'[c].next = feeder[c].next
      /\ \A d \in ToolCalls : d # c => feeder'[d] = feeder[d]
  BY FeederPcChanges DEF TypeOKManager, FeederState, FeederGoes
<1> QED
  BY <1>1 DEF TypeOKManager

LEMMA CallStepTypes ==
  ASSUME TerminalTypeOK, NEW c \in ToolCalls,
         \/ ResolveTerminal(c) \/ Bind(c) \/ LookReady(c) \/ LookRun(c)
         \/ SubmitRefused(c) \/ TimesOut(c)
         \/ \E t \in Terminals : SpawnTerminal(c, t)
  PROVE  TerminalTypeOK'
<1> USE DEF TerminalTypeOK
<1>1. CASE ResolveTerminal(c)
  <2>1. PICK t \in Terminals : call' = [call EXCEPT ![c] = [pc |-> "bind", term |-> t]]
    BY <1>1 DEF ResolveTerminal, TypeOKManager
  <2> QED
    BY <1>1, <2>1, BindTypes DEF ResolveTerminal, KeepOutput, shellVars, TypeOKManager,
       TypeOKShells
<1>2. CASE \E t \in Terminals : SpawnTerminal(c, t)
  <2>1. PICK t \in Terminals : SpawnTerminal(c, t)
    BY <1>2
  <2>2. shell' \in [Terminals -> ShellState]
    BY <2>1, StateChanges DEF SpawnTerminal
  <2> QED
    BY <2>1, <2>2, BindTypes DEF SpawnTerminal, TypeOKManager, TypeOKShells
<1>3. CASE Bind(c) \/ LookReady(c)
  <2>1. /\ call[c].pc # "idle" /\ UNCHANGED <<known, out, dozing, feeder, shellVars>>
        /\ \E l \in Waits : GoesOn(c, l)
        /\ asleep' = asleep \/ asleep' = asleep \cup {c}
    BY <1>3 DEF Bind, LookReady, AwaitReady, CallAt, KeepOutput, Waits
  <2> QED
    BY <2>1, CallTypes DEF TypeOKManager, TypeOKShells, shellVars
<1>4. CASE LookRun(c) \/ SubmitRefused(c) \/ TimesOut(c)
  <2>1. /\ call[c].pc # "idle" /\ UNCHANGED <<known, out, dozing, feeder, shellVars>>
        /\ (\E l \in Waits : GoesOn(c, l)) \/ UNCHANGED call
        /\ asleep' \subseteq asleep \cup {c}
    BY <1>4 DEF LookRun, SubmitRefused, TimesOut, CallAt, KeepOutput, Waits
  <2> QED
    BY <2>1, CallTypes DEF TypeOKManager, TypeOKShells, shellVars
<1> QED
  BY <1>1, <1>2, <1>3, <1>4

LEMMA SubmitStepTypes ==
  ASSUME TerminalTypeOK, NEW c \in ToolCalls,
         SubmitFails(c) \/ Respond(c) \/ \E b \in BOOLEAN : Submit(c, b)
  PROVE  TerminalTypeOK'
<1>1. On(c) \in Terminals /\ call[c].pc # "idle" /\ out[On(c)] \in Output
  BY CallOn DEF TerminalTypeOK, SubmitFails, Respond, Submit, CallAt, TypeOKManager
<1>2. /\ Submitted(out[On(c)], c) \in Output
      /\ WithError(Submitted(out[On(c)], c)) \in Output
      /\ WithError(out[On(c)]) \in Output
  BY <1>1, ChangedTypes
<1>3. CASE SubmitFails(c)
  <2>1. out' \in [Terminals -> Output]
    BY <1>2, <1>3, OutTypes DEF SubmitFails, TerminalTypeOK, TypeOKManager
  <2>2. "done" \in Waits /\ GoesOn(c, "done")
    BY <1>3 DEF SubmitFails, Waits
  <2> QED
    BY <1>1, <1>3, <2>1, <2>2, CallTypes DEF SubmitFails, TerminalTypeOK, TypeOKManager,
       TypeOKShells, NotifyWaiters, shellVars
<1>4. CASE Respond(c)
  <2>1. out' \in [Terminals -> Output]
    <3>1. UNCHANGED out \/ out' = [out EXCEPT ![On(c)] = WithError(out[On(c)])]
      BY <1>4 DEF Respond
    <3> QED
      BY <3>1, <1>2, OutTypes DEF TerminalTypeOK, TypeOKManager
  <2>2. /\ Feed(c) \/ UNCHANGED feeder
        /\ "done" \in Waits /\ GoesOn(c, "done")
        /\ asleep' \subseteq asleep /\ dozing' \subseteq dozing
        /\ UNCHANGED <<known, shellVars>>
    BY <1>4 DEF Respond, NotifyWaiters, Waits
  <2> QED
    BY <1>1, <2>1, <2>2, CallTypes, FeedTypes
       DEF TerminalTypeOK, TypeOKManager, TypeOKShells, shellVars
<1>5. CASE \E b \in BOOLEAN : Submit(c, b)
  <2>1. /\ out' = [out EXCEPT ![On(c)] = Submitted(out[On(c)], c)]
        /\ Feed(c) \/ UNCHANGED feeder
        /\ \E l \in Waits : GoesOn(c, l)
        /\ Typed(On(c), [by |-> c, n |-> 1])
        /\ UNCHANGED <<known, asleep, dozing, shell, markers, keys, script, disturbed>>
    BY <1>5 DEF Submit, Waits
  <2>2. out' \in [Terminals -> Output]
    BY <2>1, <1>2, OutTypes DEF TerminalTypeOK, TypeOKManager
  <2>3. input' \in [Terminals -> Seq(Line)]
    <3>1. [by |-> c, n |-> 1] \in Line
      BY LineTypes
    <3> QED
      BY <1>1, <2>1, <3>1, TypedTypes DEF TerminalTypeOK
  <2>4. PICK l \in Waits : GoesOn(c, l)
    BY <2>1
  <2> QED
    BY <1>1, <2>1, <2>2, <2>3, <2>4, CallTypes, FeedTypes
       DEF TerminalTypeOK, TypeOKManager, TypeOKShells
<1> QED
  BY <1>3, <1>4, <1>5

LEMMA FeederStepTypes ==
  ASSUME TerminalTypeOK, Sleepers, NEW c \in ToolCalls, FeederSteps(c)
  PROVE  TerminalTypeOK'
<1>1. On(c) \in Terminals /\ out[On(c)] \in Output /\ feeder[c].next \in 2 .. Lines[c]
  BY CallOn DEF TerminalTypeOK, TypeOKManager, Sleepers, FeederSteps, FeederLooks,
     FeederWrites, FeederFails
<1>2. \A b \in BOOLEAN : /\ InputTaken(out[On(c)], b) \in Output
                         /\ WithError(InputTaken(out[On(c)], b)) \in Output
  BY <1>1, ChangedTypes
<1>3. CASE FeederLooks(c)
  <2>1. /\ dozing' \subseteq dozing \cup {c}
        /\ UNCHANGED feeder \/ FeederGoes(c, "off") \/ FeederGoes(c, "write")
        /\ UNCHANGED <<known, out, call, asleep, shellVars>>
    BY <1>3 DEF FeederLooks
  <2> QED
    BY <1>1, <2>1, FeederTypes DEF TerminalTypeOK, TypeOKManager, TypeOKShells, shellVars
<1>4. CASE FeederWrites(c) /\ MayFeed(c)
  <2> DEFINE last == feeder[c].next = Lines[c]
  <2>1. /\ out' = [out EXCEPT ![On(c)] = InputTaken(out[On(c)], last)]
        /\ Typed(On(c), [by |-> c, n |-> feeder[c].next])
        /\ feeder' = [feeder EXCEPT ![c] =
                         IF last THEN [pc |-> "off", next |-> feeder[c].next]
                                 ELSE [pc |-> "look", next |-> feeder[c].next + 1]]
        /\ UNCHANGED <<known, call, asleep, dozing, shell, markers, keys, script, disturbed>>
    BY <1>4 DEF FeederWrites
  <2>2. out' \in [Terminals -> Output]
    BY <2>1, <1>2, OutTypes DEF TerminalTypeOK, TypeOKManager
  <2>3. input' \in [Terminals -> Seq(Line)]
    BY <2>1, <1>1, LineTypes, TypedTypes DEF TerminalTypeOK
  <2>4. /\ feeder' \in [ToolCalls -> FeederState]
        /\ \A d \in ToolCalls : feeder'[d].pc # "off" => feeder'[d].next \in 2 .. Lines[d]
    <3> DEFINE f == IF last THEN [pc |-> "off", next |-> feeder[c].next]
                    ELSE [pc |-> "look", next |-> feeder[c].next + 1]
    <3>1. f \in FeederState /\ (f.pc # "off" => f.next \in 2 .. Lines[c])
      BY <1>1, LineTypes DEF FeederState
    <3> QED
      BY <2>1, <3>1 DEF TerminalTypeOK, TypeOKManager
  <2> QED
    BY <2>1, <2>2, <2>3, <2>4 DEF TerminalTypeOK, TypeOKManager, TypeOKShells
<1>5. CASE FeederWrites(c) /\ ~MayFeed(c)
  <2>1. FeederGoes(c, "look") /\ UNCHANGED <<known, out, call, asleep, dozing, shellVars>>
    BY <1>5 DEF FeederWrites, shellVars
  <2> QED
    BY <1>1, <2>1, FeederTypes DEF TerminalTypeOK, TypeOKManager, TypeOKShells, shellVars
<1>6. CASE FeederFails(c)
  <2>1. out' \in [Terminals -> Output]
    BY <1>2, <1>6, OutTypes DEF FeederFails, TerminalTypeOK, TypeOKManager
  <2> QED
    BY <2>1, <1>1, <1>6, FeederTypes DEF FeederFails, NotifyWaiters, TerminalTypeOK,
       TypeOKManager, TypeOKShells, shellVars
<1> QED
  BY <1>3, <1>4, <1>5, <1>6 DEF FeederSteps

LEMMA MarkTypes ==
  /\ \A m \in {"started", "finished", "primary", "continuation", "unexpanded"} :
       Mark(m) \in Marker
  /\ \A l \in Line : FinishedBy(l) \in Marker
  /\ \A m \in {"primary", "continuation"} :
       [mark |-> m, line |-> NoLine, new |-> FALSE] \in Marker
BY LineTypes DEF Marker, Mark, FinishedBy

LEMMA SaysTypes ==
  ASSUME TypeOKShells, NEW t \in Terminals, NEW ms \in Seq(Marker), Says(t, ms)
  PROVE  /\ markers' \in [Terminals -> Seq(Marker)]
         /\ markers'[t] = markers[t] \o ms
         /\ \A u \in Terminals : u # t => markers'[u] = markers[u]
<1>1. markers[t] \o ms \in Seq(Marker)
  BY DEF TypeOKShells
<1> QED
  BY <1>1 DEF TypeOKShells, Says

LEMMA ReaderStepTypes ==
  ASSUME TerminalTypeOK, NEW t \in Terminals, ReaderSteps(t) \/ KillTerminal(t)
  PROVE  TerminalTypeOK'
<1>1. out[t] \in Output /\ markers[t] \in Seq(Marker)
  BY DEF TerminalTypeOK, TypeOKManager, TypeOKShells
<1>2. CASE ProcessOutput(t)
  <2>1. Head(markers[t]) \in Marker /\ Tail(markers[t]) \in Seq(Marker)
    BY <1>1, <1>2 DEF ProcessOutput
  <2>2. Processed(out[t], Head(markers[t])) \in Output
    BY <2>1, <1>1, ProcessedType
  <2>3. /\ out' \in [Terminals -> Output] /\ markers' \in [Terminals -> Seq(Marker)]
        /\ asleep' \subseteq asleep /\ dozing' \subseteq dozing
        /\ UNCHANGED <<known, call, feeder, shell, input, keys, script, disturbed>>
    BY <1>2, <2>1, <2>2
       DEF ProcessOutput, NotifyWaiters, TerminalTypeOK, TypeOKManager, TypeOKShells
  <2> QED
    BY <2>3 DEF TerminalTypeOK, TypeOKManager, TypeOKShells
<1>3. CASE CloseTerminalOutput(t)
  <2>1. Closed(out[t]) \in Output
    BY <1>1, ChangedTypes
  <2>2. /\ out' \in [Terminals -> Output]
        /\ asleep' \subseteq asleep /\ dozing' \subseteq dozing
        /\ UNCHANGED <<known, call, feeder, shellVars>>
    BY <1>3, <2>1 DEF CloseTerminalOutput, NotifyWaiters, TerminalTypeOK, TypeOKManager
  <2> QED
    BY <2>2 DEF TerminalTypeOK, TypeOKManager, TypeOKShells, shellVars
<1>4. CASE KillTerminal(t)
  BY <1>4 DEF KillTerminal, TerminalTypeOK, TypeOKManager, TypeOKShells, shellVars
<1> QED
  BY <1>2, <1>3, <1>4 DEF ReaderSteps

(* What a step of the shell or of its user leaves alone.                   *)
LEMMA ShellStepTypes ==
  ASSUME TerminalTypeOK, NEW t \in Terminals,
         ShellSteps(t) \/ CommandReads(t) \/ ShellExits(t)
  PROVE  TerminalTypeOK'
<1> USE DEF TerminalTypeOK
<1>1. SUFFICES TypeOKShells'
  <2>1. UNCHANGED managerVars
    BY DEF ShellSteps, ShellStarts, ShellReads, ShellFinishes, CommandReads, ShellExits
  <2> QED
    BY <2>1 DEF managerVars, TypeOKManager
<1>2. /\ shell[t] \in ShellState /\ input[t] \in Seq(Line) /\ script[t] \in Seq(Line)
      /\ NoLine \in Line /\ shell[t].line \in Line
  BY LineTypes DEF TypeOKShells, ShellState
<1>3. CASE ShellStarts(t)
  <2>1. <<FinishedBy(NoLine), Mark("primary")>> \in Seq(Marker)
    BY <1>2, MarkTypes
  <2> QED
    BY <1>3, <2>1, SaysTypes, StateChanges DEF ShellStarts, ShellIs, TypeOKShells
<1>4. CASE ShellReads(t)
  <2>1. Head(input[t]) \in Line /\ Tail(input[t]) \in Seq(Line)
    BY <1>2, <1>4 DEF ShellReads
  <2>2. Append(script[t], Head(input[t])) \in Seq(Line)
    BY <1>2, <2>1
  <2>3. /\ script' \in [Terminals -> Seq(Line)] /\ input' \in [Terminals -> Seq(Line)]
        /\ UNCHANGED <<keys, disturbed>>
    BY <1>4, <2>1, <2>2 DEF ShellReads, TypeOKShells
  <2>4. <<Mark("started")>> \in Seq(Marker) /\ <<Mark("continuation")>> \in Seq(Marker)
    BY MarkTypes
  <2>5. markers' \in [Terminals -> Seq(Marker)]
    BY <1>4, <2>4, SaysTypes DEF ShellReads
  <2>6. shell' \in [Terminals -> ShellState]
    <3>1. [st |-> "running", line |-> Head(input[t])] \in ShellState
      BY <2>1 DEF ShellState
    <3>2. CASE shell' = [shell EXCEPT ![t] = [st |-> "running", line |-> Head(input[t])]]
      BY <3>1, <3>2 DEF TypeOKShells
    <3>3. CASE ShellIs(t, "continued")
      BY <3>3, StateChanges DEF ShellIs
    <3> QED
      BY <1>4, <3>2, <3>3 DEF ShellReads
  <2> QED
    BY <2>3, <2>5, <2>6 DEF TypeOKShells
<1>5. CASE ShellFinishes(t)
  <2>1. /\ <<FinishedBy(shell[t].line), Mark("primary")>> \in Seq(Marker)
        /\ <<FinishedBy(shell[t].line), Mark("unexpanded")>> \in Seq(Marker)
    BY <1>2, MarkTypes
  <2>2. markers' \in [Terminals -> Seq(Marker)]
    BY <1>5, <2>1, SaysTypes DEF ShellFinishes
  <2>3. [st |-> "reading", line |-> NoLine] \in ShellState
    BY <1>2 DEF ShellState
  <2> QED
    BY <1>5, <2>2, <2>3 DEF ShellFinishes, TypeOKShells
<1>6. CASE CommandReads(t)
  <2>1. Tail(input[t]) \in Seq(Line)
    BY <1>2, <1>6 DEF CommandReads
  <2> QED
    BY <1>6, <2>1 DEF CommandReads, TypeOKShells
<1>7. CASE ShellExits(t)
  <2>1. [st |-> "ended", line |-> NoLine] \in ShellState /\ <<>> \in Seq(Line)
    BY <1>2 DEF ShellState
  <2> QED
    BY <1>7, <2>1 DEF ShellExits, TypeOKShells
<1> QED
  BY <1>3, <1>4, <1>5, <1>6, <1>7 DEF ShellSteps

LEMMA UserStepTypes ==
  ASSUME TerminalTypeOK, NEW t \in Terminals, TypeLine(t) \/ Interrupt(t) \/ Redraw(t)
  PROVE  TerminalTypeOK'
<1> USE DEF TerminalTypeOK
<1>1. keys' \in 0 .. MaxKeys
  BY TerminalAssumption DEF TypeLine, Interrupt, Redraw, Key, TypeOKShells
<1>2. out[t] \in Output
  BY DEF TypeOKManager
<1>3. CASE TypeLine(t)
  <2>1. [out[t] EXCEPT !.atPrompt = FALSE, !.inputPrompt = "none"] \in Output
    BY <1>2, ChangedTypes
  <2>2. out' = [out EXCEPT ![t] = [out[t] EXCEPT !.atPrompt = FALSE, !.inputPrompt = "none"]]
    BY <1>3 DEF TypeLine, TypeOKManager
  <2>3. out' \in [Terminals -> Output]
    BY <2>1, <2>2 DEF TypeOKManager
  <2>4. input' \in [Terminals -> Seq(Line)]
    BY <1>3, LineTypes, TypedTypes DEF TypeLine
  <2> QED
    BY <1>1, <1>3, <2>3, <2>4 DEF TypeLine, TypeOKManager, TypeOKShells
<1>4. CASE Interrupt(t)
  <2>1. <<Mark("started"), FinishedBy(NoLine), Mark("primary")>> \in Seq(Marker)
    BY LineTypes, MarkTypes
  <2>2. markers' \in [Terminals -> Seq(Marker)] /\ shell' \in [Terminals -> ShellState]
    BY <1>4, <2>1, SaysTypes, StateChanges DEF Interrupt, ShellIs, TypeOKShells
  <2>3. <<>> \in Seq(Line)
    OBVIOUS
  <2>4. /\ input' \in [Terminals -> Seq(Line)] /\ disturbed' \subseteq Terminals
        /\ UNCHANGED <<managerVars, script>>
    BY <1>4, <2>3 DEF Interrupt, TypeOKShells
  <2> QED
    BY <1>1, <2>2, <2>4 DEF TypeOKShells, TypeOKManager, managerVars
<1>5. CASE Redraw(t)
  <2>1. \A m \in {"primary", "continuation"} :
          <<[mark |-> m, line |-> NoLine, new |-> FALSE]>> \in Seq(Marker)
    <3>1. TAKE m \in {"primary", "continuation"}
    <3>2. [mark |-> m, line |-> NoLine, new |-> FALSE] \in Marker
      BY MarkTypes
    <3> QED
      BY <3>2
  <2>2. markers' \in [Terminals -> Seq(Marker)]
    BY <1>5, <2>1, SaysTypes DEF Redraw
  <2> QED
    BY <1>1, <1>5, <2>2 DEF Redraw, TypeOKShells, TypeOKManager, managerVars
<1> QED
  BY <1>3, <1>4, <1>5

LEMMA TypesStep ==
  ASSUME TerminalTypeOK, Sleepers, [NextTerminals]_terminalVars
  PROVE  TerminalTypeOK'
<1>1. CASE UNCHANGED terminalVars
  BY <1>1 DEF terminalVars, managerVars, shellVars, TerminalTypeOK, TypeOKManager,
     TypeOKShells
<1>2. CASE NextTerminals
  BY <1>2, CallStepTypes, SubmitStepTypes, FeederStepTypes, ReaderStepTypes,
     ShellStepTypes, UserStepTypes DEF NextTerminals, CallSteps
<1> QED
  BY <1>1, <1>2

-----------------------------------------------------------------------------
(* Wakeups. *)

(* Everyone at the terminal is woken.                                      *)
LEMMA Woken ==
  ASSUME TypeOKManager, WakeInv, NEW t, NotifyWaiters(t),
         \A u \in Terminals : u # t => out'[u] = out[u],
         \A c \in ToolCalls : On(c)' = On(c),
         \A c \in ToolCalls : c \in asleep' => call'[c].pc = call[c].pc,
         \A c \in ToolCalls : c \in dozing' => feeder'[c] = feeder[c],
         \A c \in ToolCalls : feeder'[c].pc # "off" => call'[c].pc \in {"run", "done"}
  PROVE  WakeInv'
<1>1. \A c \in asleep' : c \in asleep /\ On(c) # t /\ call[c].pc # "idle"
  BY DEF NotifyWaiters, On, WakeInv, Sleepers
<1>2. \A c \in dozing' : c \in dozing /\ On(c) # t /\ call[c].pc # "idle"
  BY DEF NotifyWaiters, On, WakeInv, Sleepers, TypeOKManager
<1>3. \A c \in asleep' \cup dozing' : c \in ToolCalls /\ OutOf(c)' = OutOf(c)
  <2>1. SUFFICES ASSUME NEW c \in asleep' \cup dozing'
                 PROVE  c \in ToolCalls /\ OutOf(c)' = OutOf(c)
    OBVIOUS
  <2>2. c \in ToolCalls /\ On(c) # t /\ call[c].pc # "idle"
    BY <1>1, <1>2 DEF TypeOKManager
  <2>3. On(c) \in Terminals /\ On(c)' = On(c)
    BY <2>2, CallOn
  <2> QED
    BY <2>2, <2>3 DEF OutOf, On
<1>4. Sleepers'
  BY <1>1, <1>2, <1>3 DEF Sleepers, WakeInv
<1>5. NoLostWakeup'
  BY <1>1, <1>2, <1>3 DEF NoLostWakeup, WakeInv, AcceptsInput
<1> QED
  BY <1>4, <1>5 DEF WakeInv

(* A step that wakes nobody leaves to the sleeping what they rely on.      *)
LEMMA NotWoken ==
  ASSUME WakeInv, asleep' \subseteq asleep, dozing' \subseteq dozing,
         dozing \subseteq ToolCalls, asleep \subseteq ToolCalls,
         \A c \in asleep' :
           /\ call'[c].pc = call[c].pc
           /\ OutOf(c)'.error = OutOf(c).error /\ OutOf(c)'.closed = OutOf(c).closed
           /\ call[c].pc = "ready" => OutOf(c)'.ready = OutOf(c).ready
           /\ call[c].pc = "run" => OutOf(c)'.run.id = OutOf(c).run.id
                                    /\ OutOf(c)'.run.completed = OutOf(c).run.completed,
         \A c \in dozing' :
           /\ feeder'[c].pc = feeder[c].pc
           /\ OutOf(c)'.error = OutOf(c).error /\ OutOf(c)'.closed = OutOf(c).closed
           /\ OutOf(c)'.run.id = OutOf(c).run.id
           /\ OutOf(c)'.run.completed = OutOf(c).run.completed
           /\ OutOf(c)'.inputPrompt = OutOf(c).inputPrompt,
         \A c \in ToolCalls : feeder'[c].pc # "off" => call'[c].pc \in {"run", "done"}
  PROVE  WakeInv'
BY DEF WakeInv, Sleepers, NoLostWakeup, AcceptsInput

LEMMA WakeCallStep ==
  ASSUME TerminalTypeOK, WakeInv, NEW c \in ToolCalls,
         \/ ResolveTerminal(c) \/ Bind(c) \/ LookReady(c) \/ LookRun(c)
         \/ SubmitRefused(c) \/ TimesOut(c)
         \/ \E t \in Terminals : SpawnTerminal(c, t)
  PROVE  WakeInv'
<1> USE DEF TerminalTypeOK
<1>1. UNCHANGED <<out, dozing, feeder>>
  BY DEF ResolveTerminal, Bind, LookReady, LookRun, SubmitRefused, TimesOut, SpawnTerminal,
     KeepOutput
<1>2. CASE ResolveTerminal(c) \/ \E t \in Terminals : SpawnTerminal(c, t)
  <2>1. PICK t \in Terminals : call' = [call EXCEPT ![c] = [pc |-> "bind", term |-> t]]
    BY <1>2 DEF ResolveTerminal, SpawnTerminal, TypeOKManager
  <2>2. c \notin asleep /\ call[c].pc = "idle" /\ UNCHANGED asleep
    BY <1>2 DEF ResolveTerminal, SpawnTerminal, CallAt
  <2>3. \A d \in ToolCalls : d # c => call'[d] = call[d]
    BY <2>1, BindTypes
  <2>4. feeder[c].pc = "off" /\ c \notin dozing
    BY <2>2 DEF WakeInv, Sleepers, TypeOKManager, FeederState
  <2> QED
    BY <1>1, <2>2, <2>3, <2>4
       DEF WakeInv, Sleepers, NoLostWakeup, AcceptsInput, OutOf, TypeOKManager
<1>3. CASE Bind(c) \/ LookReady(c) \/ LookRun(c) \/ SubmitRefused(c) \/ TimesOut(c)
  <2>1. /\ call[c].pc # "idle"
        /\ (\E l \in Waits : GoesOn(c, l)) \/ UNCHANGED call
    BY <1>3 DEF Bind, LookReady, AwaitReady, LookRun, SubmitRefused, TimesOut, CallAt, Waits
  <2>2. /\ \A d \in ToolCalls : On(d)' = On(d)
        /\ \A d \in ToolCalls : d # c => call'[d] = call[d]
        /\ \A l \in Waits : GoesOn(c, l) => call'[c].pc = l
    <3>1. ASSUME NEW l \in Waits, GoesOn(c, l)
          PROVE  /\ \A d \in ToolCalls : On(d)' = On(d)
                 /\ \A d \in ToolCalls : d # c => call'[d] = call[d]
                 /\ call'[c].pc = l
      BY <2>1, <3>1, CallTypes
    <3> QED
      BY <2>1, <3>1 DEF On
  <2>3. \A d \in ToolCalls : OutOf(d)' = OutOf(d)
    BY <1>1, <2>2 DEF OutOf, On
  <2>4. feeder[c].pc # "off" => call'[c].pc \in {"run", "done"}
    <3>1. SUFFICES ASSUME feeder[c].pc # "off" PROVE call'[c].pc \in {"run", "done"}
      OBVIOUS
    <3>2. call[c].pc \in {"run", "done"}
      BY <3>1 DEF WakeInv, Sleepers
    <3>3. UNCHANGED call \/ GoesOn(c, "done")
      BY <1>3, <3>2 DEF Bind, LookReady, LookRun, SubmitRefused, TimesOut, CallAt
    <3> QED
      BY <2>2, <3>2, <3>3 DEF Waits
  <2>5. Sleepers'
    <3>1. ASSUME NEW d \in asleep' PROVE call'[d].pc \in {"ready", "run"}
      <4>1. CASE d # c
        BY <1>3, <2>2, <3>1, <4>1 DEF WakeInv, Sleepers, TypeOKManager, Bind, LookReady,
           AwaitReady, LookRun, SubmitRefused, TimesOut
      <4>2. CASE d = c
        <5>1. \/ call'[c].pc = "ready"
              \/ (call[c].pc = "run" /\ UNCHANGED call)
              \/ c \notin asleep'
          <6>1. ASSUME CallAt(c, "bind") \/ CallAt(c, "ready"), AwaitReady(c)
                PROVE  call'[c].pc = "ready" \/ c \notin asleep'
            BY <2>2, <6>1 DEF AwaitReady, CallAt, Waits
          <6>2. CASE Bind(c) /\ OutOf(c).closed
            BY <6>2 DEF Bind, CallAt
          <6>4. CASE (Bind(c) /\ ~OutOf(c).closed) \/ LookReady(c)
            <7>1. /\ CallAt(c, "bind") \/ CallAt(c, "ready")
                  /\ AwaitReady(c)
              BY <6>4 DEF Bind, LookReady
            <7> QED
              BY <6>1, <7>1
          <6>3. CASE LookRun(c) \/ SubmitRefused(c) \/ TimesOut(c)
            BY <6>3 DEF LookRun, SubmitRefused, TimesOut, CallAt
          <6> QED
            BY <1>3, <6>2, <6>3, <6>4
        <5> QED
          BY <3>1, <4>2, <5>1
      <4> QED
        BY <4>1, <4>2
    <3> QED
      BY <1>1, <2>2, <2>4, <3>1 DEF Sleepers, WakeInv
  <2>6. ASSUME NEW d \in asleep'
        PROVE  /\ ~OutOf(d)'.error /\ ~OutOf(d)'.closed
               /\ call'[d].pc = "ready" => ~OutOf(d)'.ready
               /\ call'[d].pc = "run" => OutOf(d)'.run.id = d /\ ~OutOf(d)'.run.completed
    <3>1. d \in ToolCalls
      BY <1>3, <2>6 DEF Bind, LookReady, AwaitReady, LookRun, SubmitRefused, TimesOut,
         TypeOKManager
    <3>2. CASE d # c
      BY <1>3, <2>2, <2>3, <2>6, <3>1, <3>2 DEF WakeInv, NoLostWakeup, Bind, LookReady,
         AwaitReady, LookRun, SubmitRefused, TimesOut
    <3>3. CASE d = c
      <4>1. \/ AwaitReady(c) /\ GoesOn(c, "ready")
            \/ (LookRun(c) /\ call[c].pc = "run" /\ UNCHANGED call)
        BY <1>3, <2>6, <3>3 DEF Bind, LookReady, AwaitReady, LookRun, SubmitRefused,
           TimesOut, CallAt
      <4>2. CASE AwaitReady(c) /\ GoesOn(c, "ready")
        <5>1. call'[c].pc = "ready"
          BY <2>2, <4>2 DEF Waits
        <5> QED
          BY <1>1, <2>2, <2>3, <3>3, <4>2, <5>1 DEF AwaitReady, Waits
      <4>3. CASE LookRun(c) /\ call[c].pc = "run" /\ UNCHANGED call
        BY <2>2, <2>3, <2>6, <3>3, <4>3 DEF LookRun, CallAt, Waits
      <4> QED
        BY <4>1, <4>2, <4>3
    <3> QED
      BY <3>2, <3>3
  <2>7. \A d \in dozing' : AcceptsInput(d)' /\ OutOf(d)'.inputPrompt = "none"
    BY <1>1, <2>3 DEF WakeInv, NoLostWakeup, AcceptsInput, TypeOKManager
  <2> QED
    BY <2>5, <2>6, <2>7 DEF WakeInv, NoLostWakeup
<1> QED
  BY <1>2, <1>3

LEMMA WakeSubmitStep ==
  ASSUME TerminalTypeOK, WakeInv, NEW c \in ToolCalls,
         SubmitFails(c) \/ Respond(c) \/ \E b \in BOOLEAN : Submit(c, b)
  PROVE  WakeInv'
<1> USE DEF TerminalTypeOK
<1>1. /\ On(c) \in Terminals /\ call[c].pc \in {"submit", "respond"}
      /\ c \notin asleep /\ c \notin dozing /\ feeder[c].pc = "off"
      /\ feeder \in [ToolCalls -> FeederState] /\ out \in [Terminals -> Output]
  BY CallOn DEF SubmitFails, Respond, Submit, CallAt, WakeInv, Sleepers, TypeOKManager
<1>2. /\ \E l \in Waits : GoesOn(c, l)
      /\ (feeder' # feeder => GoesOn(c, "done") \/ GoesOn(c, "run"))
      /\ Feed(c) \/ UNCHANGED feeder
  BY DEF SubmitFails, Respond, Submit, Waits
<1>3. /\ \A d \in ToolCalls : On(d)' = On(d)
      /\ \A d \in ToolCalls : d # c => call'[d] = call[d]
      /\ \A l \in Waits : GoesOn(c, l) => call'[c].pc = l
  <2>1. ASSUME NEW l \in Waits, GoesOn(c, l)
        PROVE  /\ \A d \in ToolCalls : On(d)' = On(d)
               /\ \A d \in ToolCalls : d # c => call'[d] = call[d]
               /\ call'[c].pc = l
    BY <1>1, <2>1, CallTypes
  <2> QED
    BY <1>2, <2>1
<1>4. \A d \in ToolCalls : d # c => feeder'[d] = feeder[d]
  BY <1>1, <1>2 DEF Feed
<1>5. \A d \in ToolCalls : feeder'[d].pc # "off" => call'[d].pc \in {"run", "done"}
  BY <1>1, <1>2, <1>3, <1>4 DEF WakeInv, Sleepers, Waits
<1>6. CASE SubmitFails(c) \/ (Respond(c) /\ NotifyWaiters(On(c)))
  <2>1. NotifyWaiters(On(c)) /\ \A u \in Terminals : u # On(c) => out'[u] = out[u]
    BY <1>1, <1>6 DEF SubmitFails, Respond
  <2>2. asleep' \subseteq asleep /\ dozing' \subseteq dozing
    BY <2>1 DEF NotifyWaiters
  <2> QED
    BY <1>1, <1>3, <1>4, <1>5, <2>1, <2>2, Woken
<1>7. CASE Respond(c) /\ UNCHANGED <<out, asleep, dozing>>
  <2>1. \A d \in ToolCalls : OutOf(d)' = OutOf(d)
    BY <1>3, <1>7 DEF OutOf, On
  <2> QED
    BY <1>1, <1>3, <1>4, <1>5, <1>7, <2>1, NotWoken DEF TypeOKManager
<1>8. CASE \E b \in BOOLEAN : Submit(c, b)
  <2>1. /\ out' = [out EXCEPT ![On(c)] = Submitted(out[On(c)], c)]
        /\ out[On(c)].run.completed
        /\ UNCHANGED <<asleep, dozing>>
    BY <1>1, <1>8 DEF Submit, MaySubmit, OutOf, On
  <2>2. \A d \in ToolCalls :
          IF On(d) = On(c) THEN OutOf(d)' = Submitted(out[On(c)], c)
                           ELSE OutOf(d)' = OutOf(d)
    BY <1>1, <1>3, <2>1 DEF OutOf, On, TypeOKManager
  <2>3. LET o == out[On(c)]
        IN  /\ Submitted(o, c).error = o.error /\ Submitted(o, c).closed = o.closed
            /\ Submitted(o, c).ready = o.ready
    BY <1>1 DEF Submitted, Output
  <2>4. \A d \in asleep : On(d) = On(c) => call[d].pc # "run"
    BY <2>1 DEF WakeInv, NoLostWakeup, OutOf, On
  <2>5. \A d \in dozing : On(d) # On(c)
    BY <2>1 DEF WakeInv, NoLostWakeup, AcceptsInput, OutOf, On
  <2>6. ASSUME NEW d \in asleep'
        PROVE  /\ call'[d].pc = call[d].pc
               /\ OutOf(d)'.error = OutOf(d).error /\ OutOf(d)'.closed = OutOf(d).closed
               /\ call[d].pc = "ready" => OutOf(d)'.ready = OutOf(d).ready
               /\ call[d].pc = "run" => OutOf(d)'.run.id = OutOf(d).run.id
                                        /\ OutOf(d)'.run.completed = OutOf(d).run.completed
    <3>1. d \in ToolCalls /\ d # c /\ d \in asleep
      BY <1>1, <2>1, <2>6 DEF TypeOKManager
    <3>2. CASE On(d) = On(c)
      BY <1>3, <2>2, <2>3, <2>4, <3>1, <3>2 DEF OutOf, On
    <3>3. CASE On(d) # On(c)
      BY <1>3, <2>2, <3>1, <3>3
    <3> QED
      BY <3>2, <3>3
  <2>7. ASSUME NEW d \in dozing'
        PROVE  feeder'[d].pc = feeder[d].pc /\ OutOf(d)' = OutOf(d)
    BY <1>1, <1>4, <2>1, <2>2, <2>5, <2>7 DEF TypeOKManager
  <2> QED
    BY <1>5, <2>1, <2>6, <2>7, NotWoken DEF TypeOKManager
<1>9. Respond(c) => UNCHANGED <<out, asleep, dozing>> \/ NotifyWaiters(On(c))
  BY DEF Respond
<1> QED
  BY <1>6, <1>7, <1>8, <1>9

LEMMA WakeFeederStep ==
  ASSUME TerminalTypeOK, WakeInv, NEW c \in ToolCalls, FeederSteps(c)
  PROVE  WakeInv'
<1> USE DEF TerminalTypeOK
<1>1. /\ On(c) \in Terminals /\ feeder[c].pc # "off" /\ feeder[c].next \in 2 .. Lines[c]
      /\ feeder \in [ToolCalls -> FeederState] /\ out \in [Terminals -> Output]
      /\ UNCHANGED call /\ c \notin dozing
  BY CallOn DEF FeederSteps, FeederLooks, FeederWrites, FeederFails, WakeInv, Sleepers,
     TypeOKManager
<1>2. \A d \in ToolCalls : d # c => feeder'[d] = feeder[d]
  BY <1>1 DEF FeederSteps, FeederLooks, FeederWrites, FeederFails, FeederGoes
<1>3. \A d \in ToolCalls : feeder'[d].pc # "off" => call'[d].pc \in {"run", "done"}
  BY <1>1, <1>2 DEF WakeInv, Sleepers
<1>4. CASE FeederFails(c)
  <2>1. NotifyWaiters(On(c)) /\ \A u \in Terminals : u # On(c) => out'[u] = out[u]
    BY <1>1, <1>4 DEF FeederFails
  <2>2. asleep' \subseteq asleep /\ dozing' \subseteq dozing
    BY <2>1 DEF NotifyWaiters
  <2> QED
    BY <1>1, <1>2, <1>3, <2>1, <2>2, Woken DEF On
<1>5. CASE FeederLooks(c)
  <2>1. \A d \in ToolCalls : OutOf(d)' = OutOf(d)
    BY <1>5 DEF FeederLooks, OutOf
  <2>2. Sleepers'
    BY <1>1, <1>2, <1>3, <1>5 DEF FeederLooks, WakeInv, Sleepers, TypeOKManager
  <2>3. NoLostWakeup'
    BY <1>1, <1>5, <2>1 DEF FeederLooks, WakeInv, NoLostWakeup, AcceptsInput, TypeOKManager
  <2> QED
    BY <2>2, <2>3 DEF WakeInv
<1>6. CASE FeederWrites(c) /\ MayFeed(c)
  <2> DEFINE o2 == InputTaken(out[On(c)], feeder[c].next = Lines[c])
  <2>1. /\ out' = [out EXCEPT ![On(c)] = o2]
        /\ out[On(c)].inputPrompt # "none"
        /\ UNCHANGED <<asleep, dozing>>
    BY <1>1, <1>6 DEF FeederWrites, MayFeed, OutOf, On
  <2>2. \A d \in ToolCalls :
          IF On(d) = On(c) THEN OutOf(d)' = o2 ELSE OutOf(d)' = OutOf(d)
    BY <1>1, <2>1 DEF OutOf, On, TypeOKManager
  <2>3. LET o == out[On(c)]
        IN  /\ o2.error = o.error /\ o2.closed = o.closed /\ o2.ready = o.ready
            /\ o2.run.id = o.run.id /\ o2.run.completed = o.run.completed
    BY <1>1 DEF InputTaken, Output, RunState
  <2>4. \A d \in dozing : On(d) # On(c)
    BY <2>1 DEF WakeInv, NoLostWakeup, OutOf, On
  <2>5. ASSUME NEW d \in asleep'
        PROVE  /\ OutOf(d)'.error = OutOf(d).error /\ OutOf(d)'.closed = OutOf(d).closed
               /\ OutOf(d)'.ready = OutOf(d).ready /\ OutOf(d)'.run.id = OutOf(d).run.id
               /\ OutOf(d)'.run.completed = OutOf(d).run.completed
    <3>1. d \in ToolCalls
      BY <2>1, <2>5 DEF TypeOKManager
    <3> QED
      BY <2>2, <2>3, <3>1 DEF OutOf, On
  <2>6. ASSUME NEW d \in dozing'
        PROVE  feeder'[d].pc = feeder[d].pc /\ OutOf(d)' = OutOf(d)
    BY <1>1, <1>2, <2>1, <2>2, <2>4, <2>6 DEF TypeOKManager
  <2> QED
    BY <1>1, <1>3, <2>1, <2>5, <2>6, NotWoken DEF TypeOKManager
<1>7. CASE FeederWrites(c) /\ ~MayFeed(c)
  <2>1. \A d \in ToolCalls : OutOf(d)' = OutOf(d)
    BY <1>7 DEF FeederWrites, OutOf
  <2>2. UNCHANGED <<asleep, dozing>>
    BY <1>7 DEF FeederWrites
  <2> QED
    BY <1>1, <1>2, <1>3, <2>1, <2>2, NotWoken DEF TypeOKManager
<1> QED
  BY <1>4, <1>5, <1>6, <1>7 DEF FeederSteps

LEMMA WakeOtherStep ==
  ASSUME TerminalTypeOK, WakeInv, NEW t \in Terminals,
         \/ ReaderSteps(t) \/ ShellSteps(t) \/ CommandReads(t) \/ ShellExits(t)
         \/ TypeLine(t) \/ Interrupt(t) \/ Redraw(t) \/ KillTerminal(t)
  PROVE  WakeInv'
<1> USE DEF TerminalTypeOK
<1>1. UNCHANGED <<call, feeder>>
  BY DEF ReaderSteps, ProcessOutput, CloseTerminalOutput, ShellSteps, ShellStarts, ShellReads,
     ShellFinishes, CommandReads, ShellExits, TypeLine, Interrupt, Redraw, KillTerminal,
     managerVars
<1>2. \A d \in ToolCalls : feeder'[d].pc # "off" => call'[d].pc \in {"run", "done"}
  BY <1>1 DEF WakeInv, Sleepers
<1>3. CASE ReaderSteps(t)
  <2>1. NotifyWaiters(t) /\ \A u \in Terminals : u # t => out'[u] = out[u]
    BY <1>3 DEF ReaderSteps, ProcessOutput, CloseTerminalOutput, TypeOKManager
  <2> QED
    BY <1>1, <1>2, <2>1, Woken DEF On
<1>4. CASE TypeLine(t)
  <2> DEFINE o2 == [out[t] EXCEPT !.atPrompt = FALSE, !.inputPrompt = "none"]
  <2>1. /\ out' = [out EXCEPT ![t] = o2]
        /\ UNCHANGED <<asleep, dozing>> /\ out[t] \in Output
    BY <1>4 DEF TypeLine, TypeOKManager
  <2>2. /\ o2.error = out[t].error /\ o2.closed = out[t].closed /\ o2.ready = out[t].ready
        /\ o2.run = out[t].run /\ o2.inputPrompt = "none"
    BY <2>1 DEF Output
  <2>3. ASSUME NEW d \in asleep' \cup dozing'
        PROVE  /\ OutOf(d)'.error = OutOf(d).error /\ OutOf(d)'.closed = OutOf(d).closed
               /\ OutOf(d)'.ready = OutOf(d).ready /\ OutOf(d)'.run = OutOf(d).run
               /\ d \in dozing' => OutOf(d)'.inputPrompt = OutOf(d).inputPrompt
    <3>1. d \in ToolCalls /\ call[d].pc # "idle" /\ d \in asleep \cup dozing
      BY <2>1, <2>3 DEF WakeInv, Sleepers, TypeOKManager
    <3>2. On(d) \in Terminals /\ On(d)' = On(d)
      BY <1>1, <3>1, CallOn DEF On
    <3>3. CASE On(d) = t
      <4>1. OutOf(d)' = o2 /\ OutOf(d) = out[t]
        BY <2>1, <3>2, <3>3 DEF OutOf, On, TypeOKManager
      <4>2. d \in dozing' => out[t].inputPrompt = "none"
        BY <2>1, <4>1 DEF WakeInv, NoLostWakeup
      <4> QED
        BY <2>2, <4>1, <4>2
    <3>4. CASE On(d) # t
      BY <2>1, <3>2, <3>4 DEF OutOf, On, TypeOKManager
    <3> QED
      BY <3>3, <3>4
  <2> QED
    BY <1>1, <1>2, <2>1, <2>3, NotWoken DEF TypeOKManager
<1>5. CASE ~ReaderSteps(t) /\ ~TypeLine(t)
  <2>1. UNCHANGED <<out, asleep, dozing>>
    BY <1>5 DEF ShellSteps, ShellStarts, ShellReads, ShellFinishes, CommandReads, ShellExits,
       Interrupt, Redraw, KillTerminal, managerVars
  <2>2. \A d \in ToolCalls : OutOf(d)' = OutOf(d)
    BY <1>1, <2>1 DEF OutOf
  <2> QED
    BY <1>1, <1>2, <2>1, <2>2, NotWoken DEF TypeOKManager
<1> QED
  BY <1>3, <1>4, <1>5

LEMMA WakeStep ==
  ASSUME TerminalTypeOK, WakeInv, [NextTerminals]_terminalVars
  PROVE  WakeInv'
<1>1. CASE UNCHANGED terminalVars
  BY <1>1 DEF terminalVars, managerVars, WakeInv, Sleepers, NoLostWakeup, AcceptsInput, OutOf
<1>2. CASE NextTerminals
  BY <1>2, WakeCallStep, WakeSubmitStep, WakeFeederStep, WakeOtherStep
     DEF NextTerminals, CallSteps
<1> QED
  BY <1>1, <1>2

-----------------------------------------------------------------------------
(* The output of a terminal and the call that owns its run. *)

LEMMA ShapeKept ==
  ASSUME NEW o \in Output, Shape(o)
  PROVE  /\ \A m \in Marker : Shape(Processed(o, m))
         /\ Shape(WithError(o)) /\ Shape(Closed(o))
         /\ \A b \in BOOLEAN : Shape(InputTaken(o, b))
         /\ \A c \in ToolCalls : ~o.error => Shape(Submitted(o, c))
         /\ Shape([o EXCEPT !.atPrompt = FALSE, !.inputPrompt = "none"])
<1>1. o.run \in RunState
  BY DEF Output
<1>2. ASSUME NEW m \in Marker PROVE Shape(Processed(o, m))
  <2>1. Shape(CommandStarted(o))
    BY <1>1 DEF Shape, CommandStarted, Output, RunState
  <2>2. Shape(CommandFinished(o, m.line))
    BY <1>1 DEF Shape, CommandFinished, Output, RunState
  <2>3. Shape(PrimaryPrompt(o))
    BY <1>1 DEF Shape, PrimaryPrompt, Output, RunState
  <2>4. Shape(ContinuationPrompt(o, m.new))
    BY <1>1 DEF Shape, ContinuationPrompt, Output, RunState
  <2>5. Shape(WithError(o))
    BY <1>1 DEF Shape, WithError, Output, RunState
  <2> QED
    BY <2>1, <2>2, <2>3, <2>4, <2>5 DEF Processed, Marker
<1>3. Shape(WithError(o)) /\ Shape(Closed(o))
  BY <1>1 DEF Shape, WithError, Closed, Output, RunState
<1>4. \A b \in BOOLEAN : Shape(InputTaken(o, b))
  BY <1>1 DEF Shape, InputTaken, Output, RunState
<1>5. \A c \in ToolCalls : ~o.error => Shape(Submitted(o, c))
  BY <1>1, TerminalAssumption DEF Shape, Submitted, Output, RunState
<1>6. Shape([o EXCEPT !.atPrompt = FALSE, !.inputPrompt = "none"])
  BY <1>1 DEF Shape, Output, RunState
<1> QED
  BY <1>2, <1>3, <1>4, <1>5, <1>6

(* The run of an output goes on, or ends.                                  *)
SameRun(o, q) ==
  /\ q.run.id = o.run.id
  /\ o.run.inputComplete => q.run.inputComplete
  /\ o.run.completed => q.run.completed
  /\ o.closed => q.closed

LEMMA RunKept ==
  ASSUME NEW o \in Output
  PROVE  /\ \A m \in Marker : /\ SameRun(o, Processed(o, m))
                              /\ Processed(o, m).closed = o.closed
         /\ SameRun(o, WithError(o)) /\ WithError(o).closed = o.closed
         /\ SameRun(o, Closed(o)) /\ Closed(o).closed
         /\ LET q == [o EXCEPT !.atPrompt = FALSE, !.inputPrompt = "none"]
            IN  SameRun(o, q) /\ q.closed = o.closed
<1>1. o.run \in RunState
  BY DEF Output
<1>2. ASSUME NEW m \in Marker
      PROVE  SameRun(o, Processed(o, m)) /\ Processed(o, m).closed = o.closed
  <2> DEFINE Kept(q) == SameRun(o, q) /\ q.closed = o.closed
  <2>1. Kept(CommandStarted(o))
    BY <1>1 DEF SameRun, CommandStarted, Output, RunState
  <2>2. Kept(CommandFinished(o, m.line))
    BY <1>1 DEF SameRun, CommandFinished, Output, RunState
  <2>3. Kept(PrimaryPrompt(o))
    BY <1>1 DEF SameRun, PrimaryPrompt, Output, RunState
  <2>4. Kept(ContinuationPrompt(o, m.new))
    BY <1>1 DEF SameRun, ContinuationPrompt, Output, RunState
  <2>5. Kept(WithError(o)) /\ Kept(o)
    BY <1>1 DEF SameRun, WithError, Output, RunState
  <2> HIDE DEF Kept
  <2>6. Kept(Processed(o, m))
    BY <2>1, <2>2, <2>3, <2>4, <2>5 DEF Processed, Marker
  <2> QED
    BY <2>6 DEF Kept
<1>3. SameRun(o, WithError(o)) /\ WithError(o).closed = o.closed
  BY <1>1 DEF SameRun, WithError, Output, RunState
<1>4. SameRun(o, Closed(o)) /\ Closed(o).closed
  BY <1>1 DEF SameRun, Closed, Output, RunState
<1>5. LET q == [o EXCEPT !.atPrompt = FALSE, !.inputPrompt = "none"]
      IN  SameRun(o, q) /\ q.closed = o.closed
  BY <1>1 DEF SameRun, Output, RunState
<1> QED
  BY <1>2, <1>3, <1>4, <1>5

(* A terminal a step does not touch.                                       *)
LEMMA PlainSame ==
  ASSUME NEW t \in Terminals, Plain(t),
         out'[t] = out[t], shell'[t] = shell[t], markers'[t] = markers[t],
         input'[t] = input[t], script'[t] = script[t],
         \/ shell[t].st # "off"
         \/ /\ t \in known' => t \in known
            /\ \A c \in ToolCalls : On(c)' = t => On(c) = t
  PROVE  Plain(t)'
BY DEF Plain, Unspawned

(* A call that owns the run of a terminal does not leave it.               *)
LEMMA OwnedSame ==
  ASSUME NEW t \in Terminals, Owned(t), SameRun(out[t], out'[t]),
         out[t].run.id \in ToolCalls \cup {"none"},
         \A i \in ToolCalls : out[t].run.id = i =>
               /\ On(i)' = On(i) /\ call'[i].pc \in {"respond", "run", "done"}
               /\ call[i].pc = "respond" \/ feeder[i].pc # "off" =>
                    \/ call'[i].pc = "respond" \/ feeder'[i].pc # "off"
                    \/ out'[t].run.completed \/ out'[t].run.inputComplete \/ out'[t].closed
  PROVE  Owned(t)'
BY DEF Owned, SameRun

LEMMA SameRunSelf == \A o : SameRun(o, o)
BY DEF SameRun

(* An owner takes its place at its own terminal only.                      *)
LEMMA OneOwner ==
  ASSUME TypeOKManager, PlainInv, NEW c \in ToolCalls, NEW u \in Terminals,
         out[u].run.id = c
  PROVE  /\ u = On(c) /\ call[c].pc \in {"respond", "run", "done"}
         /\ c # "none" /\ Owned(u)
BY TerminalAssumption DEF PlainInv, Owned

LEMMA PlainCallStep ==
  ASSUME TerminalTypeOK, WakeInv, PlainInv, NEW c \in ToolCalls,
         \/ ResolveTerminal(c) \/ Bind(c) \/ LookReady(c) \/ LookRun(c)
         \/ SubmitRefused(c) \/ TimesOut(c)
         \/ \E t \in Terminals : SpawnTerminal(c, t)
  PROVE  PlainInv'
<1> USE DEF TerminalTypeOK
<1>1. UNCHANGED <<out, feeder, markers, input, script>>
  BY DEF ResolveTerminal, Bind, LookReady, LookRun, SubmitRefused, TimesOut, SpawnTerminal,
     KeepOutput, shellVars
<1>2. CASE ResolveTerminal(c) \/ \E t \in Terminals : SpawnTerminal(c, t)
  <2>1. PICK t \in Terminals :
          /\ call' = [call EXCEPT ![c] = [pc |-> "bind", term |-> t]]
          /\ \/ t \in known /\ UNCHANGED <<known, shell>>
             \/ /\ known' = known \cup {t} /\ shell[t].st = "off"
                /\ shell' = [shell EXCEPT ![t].st = "starting"]
    BY <1>2 DEF ResolveTerminal, SpawnTerminal, KeepOutput, shellVars, TypeOKManager
  <2>2. /\ call[c].pc = "idle"
        /\ call'[c].term = t /\ \A d \in ToolCalls : d # c => call'[d] = call[d]
    BY <1>2, <2>1, BindTypes DEF ResolveTerminal, SpawnTerminal, CallAt
  <2>3. ASSUME NEW u \in Terminals PROVE Owned(u)'
    <3>1. Owned(u) /\ out'[u] = out[u]
      BY <1>1 DEF PlainInv
    <3>2. out[u].run.id \in ToolCalls \cup {"none"} /\ out[u].run.id # c
      BY <2>2, OneOwner DEF TypeOKManager, Output, RunState
    <3> QED
      BY <1>1, <2>2, <3>1, <3>2, OwnedSame, SameRunSelf DEF On, Owned
  <2>4. ASSUME NEW u \in Terminals, u # t \/ t \in known PROVE Plain(u)'
    <3>1. Plain(u) /\ out'[u] = out[u] /\ shell'[u] = shell[u]
      BY <1>1, <2>1, <2>4 DEF PlainInv, TypeOKShells, Plain, Unspawned
    <3>2. CASE u # t
      BY <1>1, <2>1, <2>2, <3>1, <3>2, PlainSame DEF On
    <3>3. CASE t \in known /\ u = t
      BY <1>1, <2>1, <3>1, <3>3, PlainSame DEF Plain, Unspawned
    <3> QED
      BY <2>4, <3>2, <3>3
  <2>5. ASSUME t \notin known PROVE Plain(t)'
    <3>1. /\ Plain(t) /\ shell[t].st = "off" /\ shell'[t].st = "starting"
          /\ Shape(out[t])
      BY <2>1, <2>5 DEF PlainInv, TypeOKShells, ShellState, Plain
    <3>2. out[t].closed = FALSE
      BY <3>1 DEF Plain, NewOutput
    <3> QED
      BY <1>1, <3>1, <3>2 DEF Plain
  <2> QED
    BY <2>3, <2>4, <2>5 DEF PlainInv
<1>3. CASE Bind(c) \/ LookReady(c) \/ LookRun(c) \/ SubmitRefused(c) \/ TimesOut(c)
  <2>1. /\ call[c].pc \in {"bind", "ready", "run", "submit"}
        /\ (\E l \in Waits : GoesOn(c, l)) \/ UNCHANGED call
        /\ call[c].pc = "run" => GoesOn(c, "done") \/ UNCHANGED call
        /\ UNCHANGED <<known, shell>>
    BY <1>3 DEF Bind, LookReady, AwaitReady, LookRun, SubmitRefused, TimesOut, CallAt, Waits,
       KeepOutput, shellVars
  <2>2. /\ \A d \in ToolCalls : On(d)' = On(d)
        /\ \A d \in ToolCalls : d # c => call'[d] = call[d]
        /\ call[c].pc = "run" => call'[c].pc \in {"done", "run"}
    <3>1. ASSUME NEW l \in Waits, GoesOn(c, l)
          PROVE  /\ \A d \in ToolCalls : On(d)' = On(d)
                 /\ \A d \in ToolCalls : d # c => call'[d] = call[d]
                 /\ call'[c].pc = l
      BY <2>1, <3>1, CallTypes
    <3>2. "done" \in Waits
      BY DEF Waits
    <3> QED
      BY <2>1, <3>1, <3>2 DEF On
  <2>3. ASSUME NEW u \in Terminals PROVE Plain(u)' /\ Owned(u)'
    <3>1. Plain(u) /\ Owned(u)
      BY DEF PlainInv
    <3>2. Plain(u)'
      BY <1>1, <2>1, <2>2, <3>1, PlainSame
    <3>4. ASSUME NEW i \in ToolCalls, call[i].pc \in {"respond", "run", "done"}
          PROVE  /\ On(i)' = On(i) /\ call'[i].pc \in {"respond", "run", "done"}
                 /\ call[i].pc = "respond" => call'[i].pc = "respond"
      BY <2>1, <2>2, <3>4
    <3>5. out[u].run.id \in ToolCalls \cup {"none"}
      BY DEF TypeOKManager, Output, RunState
    <3>3. ASSUME NEW i \in ToolCalls, out[u].run.id = i
          PROVE  /\ On(i)' = On(i) /\ call'[i].pc \in {"respond", "run", "done"}
                 /\ call[i].pc = "respond" => call'[i].pc = "respond"
      <4>1. call[i].pc \in {"respond", "run", "done"}
        BY <3>3, OneOwner
      <4> QED
        BY <3>4, <4>1
    <3> QED
      BY <1>1, <3>1, <3>2, <3>3, <3>5, OwnedSame, SameRunSelf
  <2> QED
    BY <2>3 DEF PlainInv
<1> QED
  BY <1>2, <1>3

LEMMA PlainSubmitStep ==
  ASSUME TerminalTypeOK, WakeInv, PlainInv, NEW c \in ToolCalls,
         SubmitFails(c) \/ Respond(c) \/ \E b \in BOOLEAN : Submit(c, b)
  PROVE  PlainInv'
<1> USE DEF TerminalTypeOK
<1>0. PICK t \in Terminals : t = On(c)
  BY CallOn DEF SubmitFails, Respond, Submit, CallAt
<1>1. /\ call[c].pc \in {"submit", "respond"}
      /\ c \notin asleep /\ c \notin dozing /\ feeder[c].pc = "off"
      /\ feeder \in [ToolCalls -> FeederState] /\ out \in [Terminals -> Output]
      /\ UNCHANGED <<known, shell, markers, script>>
  BY DEF SubmitFails, Respond, Submit, CallAt, WakeInv, Sleepers, TypeOKManager,
     shellVars
<1>2. /\ \E l \in Waits : GoesOn(c, l)
      /\ Feed(c) \/ UNCHANGED feeder
  BY DEF SubmitFails, Respond, Submit, Waits
<1>3. /\ \A d \in ToolCalls : On(d)' = On(d)
      /\ \A d \in ToolCalls : d # c => call'[d] = call[d]
      /\ \A l \in Waits : GoesOn(c, l) => call'[c].pc = l
  <2>1. ASSUME NEW l \in Waits, GoesOn(c, l)
        PROVE  /\ \A d \in ToolCalls : On(d)' = On(d)
               /\ \A d \in ToolCalls : d # c => call'[d] = call[d]
               /\ call'[c].pc = l
    BY <1>0, <1>1, <2>1, CallTypes
  <2> QED
    BY <1>2, <2>1
<1>4. \A d \in ToolCalls : d # c => feeder'[d] = feeder[d]
  BY <1>0, <1>1, <1>2 DEF Feed
<1>5. /\ \A u \in Terminals : u # t => out'[u] = out[u] /\ input'[u] = input[u]
      /\ shell[t].st = "ended" => input'[t] = input[t]
  BY <1>0, <1>1 DEF SubmitFails, Respond, Submit, Typed, TypeOKShells, shellVars
<1>6. ASSUME NEW u \in Terminals, u # t PROVE Plain(u)' /\ Owned(u)'
  <2>1. Plain(u) /\ Owned(u) /\ out'[u] = out[u] /\ input'[u] = input[u]
    BY <1>0, <1>5, <1>6 DEF PlainInv
  <2>2. Plain(u)'
    BY <1>0, <1>1, <1>3, <2>1, PlainSame
  <2>3. out[u].run.id # c
    BY <1>0, <1>6, OneOwner
  <2>4. out[u].run.id \in ToolCalls \cup {"none"}
    BY DEF TypeOKManager, Output, RunState
  <2> QED
    BY <1>0, <1>3, <1>4, <2>1, <2>2, <2>3, <2>4, OwnedSame, SameRunSelf DEF Owned
<1>7. Plain(t) /\ Owned(t) /\ out[t] \in Output /\ out[t].run \in RunState
  BY <1>0, <1>1 DEF PlainInv, Output
<1>8. ASSUME MaySubmit(out[t]), out' = [out EXCEPT ![t] = Submitted(out[t], c)] \/
             out' = [out EXCEPT ![t] = WithError(Submitted(out[t], c))]
      PROVE  Plain(t)'
  <2>1. ~out[t].error /\ Submitted(out[t], c) \in Output
    BY <1>0, <1>7, <1>8, ChangedTypes DEF MaySubmit
  <2>2. Shape(Submitted(out[t], c)) /\ Shape(WithError(Submitted(out[t], c)))
    BY <1>0, <1>7, <2>1, ShapeKept DEF Plain
  <2>3. shell[t].st \notin {"off", "starting"}
    BY <1>0, <1>7, <1>8 DEF Plain, MaySubmit, NewOutput
  <2>4. /\ Submitted(out[t], c).closed = out[t].closed
        /\ WithError(Submitted(out[t], c)).closed = out[t].closed
    BY <1>0, <1>7, <2>1 DEF Submitted, WithError, Output, RunState
  <2>5. Shape(out'[t]) /\ out'[t].closed = out[t].closed
    BY <1>0, <1>1, <1>8, <2>2, <2>4
  <2> QED
    BY <1>0, <1>1, <1>5, <1>7, <2>3, <2>5 DEF Plain
<1>9. CASE SubmitFails(c)
  <2>1. /\ MaySubmit(out[t])
        /\ out' = [out EXCEPT ![t] = WithError(Submitted(out[t], c))]
        /\ GoesOn(c, "done")
    BY <1>0, <1>1, <1>9 DEF SubmitFails, OutOf, On
  <2>2. Owned(t)'
    <3>1. LET q == WithError(Submitted(out[t], c))
          IN q.run.id = c /\ q.run.completed /\ q.run.inputComplete = (Lines[c] = 1)
      BY <1>0, <1>7, <2>1 DEF MaySubmit, WithError, Submitted, Output, RunState
    <3>2. out'[t] = WithError(Submitted(out[t], c)) /\ On(c)' = t
          /\ call'[c].pc = "done"
      BY <1>0, <1>1, <1>3, <2>1 DEF Waits
    <3> QED
      BY <3>1, <3>2 DEF Owned
  <2> QED
    BY <1>0, <1>6, <1>8, <2>1, <2>2 DEF PlainInv
<1>10. CASE \E b \in BOOLEAN : Submit(c, b)
  <2>1. /\ MaySubmit(out[t])
        /\ out' = [out EXCEPT ![t] = Submitted(out[t], c)]
        /\ GoesOn(c, "respond") \/ (GoesOn(c, "run") /\ Feed(c))
    BY <1>0, <1>1, <1>10 DEF Submit, OutOf, On
  <2>2. Owned(t)'
    <3>1. LET q == Submitted(out[t], c)
          IN q.run.id = c /\ q.run.inputComplete = (Lines[c] = 1)
      BY <1>0, <1>7 DEF Submitted, Output
    <3>2. out'[t] = Submitted(out[t], c) /\ On(c)' = t
          /\ \/ call'[c].pc = "respond"
             \/ (call'[c].pc = "run" /\ Feed(c))
      BY <1>0, <1>1, <1>3, <2>1 DEF Waits
    <3>3. Feed(c) => Lines[c] = 1 \/ feeder'[c].pc # "off"
      BY <1>0, <1>1, LineTypes DEF Feed
    <3> QED
      BY <3>1, <3>2, <3>3 DEF Owned
  <2> QED
    BY <1>0, <1>6, <1>8, <2>1, <2>2 DEF PlainInv
<1>11. CASE Respond(c)
  <2>1. /\ UNCHANGED input
        /\ GoesOn(c, "done") /\ call'[c].pc = "done"
        /\ \/ (Feed(c) /\ UNCHANGED out)
           \/ out' = [out EXCEPT ![t] = WithError(out[t])]
           \/ (UNCHANGED out /\ out[t].run.id # c)
    BY <1>0, <1>1, <1>3, <1>11 DEF Respond, Waits, OutOf, On, shellVars
  <2>2. /\ out'[t] = out[t] \/ (out'[t] = WithError(out[t]) /\ out[t].run.id = c)
        /\ SameRun(out[t], out'[t]) /\ out'[t].closed = out[t].closed /\ Shape(out'[t])
    <3>1. out'[t] = out[t] \/ (out'[t] = WithError(out[t]) /\ out[t].run.id = c)
      BY <1>0, <1>1, <1>11 DEF Respond, OutOf, On
    <3> QED
      BY <1>0, <1>7, <3>1, RunKept, ShapeKept, SameRunSelf DEF Plain
  <2>3. shell[t].st # "off"
    BY <1>0, <1>7, <1>1 DEF Plain, Unspawned
  <2>4. shell[t].st = "starting" => out'[t] = out[t]
    <3>1. NewOutput.run.id # c
      BY TerminalAssumption DEF NewOutput, NoRun
    <3> QED
      BY <1>0, <1>7, <2>2, <3>1 DEF Plain
  <2>5. Plain(t)'
    BY <1>0, <1>1, <1>7, <2>1, <2>2, <2>3, <2>4 DEF Plain
  <2>6. ASSUME out[t].run.id = c
        PROVE  \/ feeder'[c].pc # "off" \/ out'[t].run.completed
               \/ out'[t].run.inputComplete
    <3>1. CASE Feed(c) /\ UNCHANGED out
      <4>1. Lines[c] = 1 \/ feeder'[c].pc # "off"
        BY <1>0, <1>1, <3>1, LineTypes DEF Feed
      <4>2. Lines[c] = 1 => out[t].run.inputComplete
        BY <2>6, OneOwner, <1>1 DEF Owned
      <4> QED
        BY <3>1, <4>1, <4>2
    <3>2. CASE out' = [out EXCEPT ![t] = WithError(out[t])]
      <4>1. WithError(out[t]).run.completed
        BY <1>0, <1>7 DEF WithError, Plain, Shape, Output, RunState
      <4> QED
        BY <1>0, <1>1, <3>2, <4>1
    <3> QED
      BY <2>1, <2>6, <3>1, <3>2
  <2>7. Owned(t)'
    <3>1. out[t].run.id \in ToolCalls \cup {"none"}
      BY <1>0, <1>7 DEF RunState
    <3>2. CASE out[t].run.id = c
      BY <1>0, <1>3, <1>7, <2>1, <2>2, <2>6, <3>1, <3>2, OwnedSame
    <3>3. CASE out[t].run.id # c
      BY <1>0, <1>3, <1>4, <1>7, <2>2, <3>1, <3>3, OwnedSame DEF Owned
    <3> QED
      BY <3>2, <3>3
  <2> QED
    BY <1>0, <1>6, <2>5, <2>7 DEF PlainInv
<1> QED
  BY <1>9, <1>10, <1>11

LEMMA PlainFeederStep ==
  ASSUME TerminalTypeOK, WakeInv, PlainInv, NEW c \in ToolCalls, FeederSteps(c)
  PROVE  PlainInv'
<1> USE DEF TerminalTypeOK
<1>0. PICK t \in Terminals : t = On(c)
  BY CallOn DEF FeederSteps, FeederLooks, FeederWrites, FeederFails, WakeInv, Sleepers,
     TypeOKManager
<1>1. /\ feeder[c].pc # "off" /\ feeder[c].next \in 2 .. Lines[c] /\ Lines[c] # 1
      /\ feeder \in [ToolCalls -> FeederState] /\ out \in [Terminals -> Output]
      /\ UNCHANGED <<known, call, shell, markers, script>>
      /\ \A d \in ToolCalls : d # c => feeder'[d] = feeder[d]
  BY <1>0, LineTypes DEF FeederSteps, FeederLooks, FeederWrites, FeederFails, FeederGoes,
     shellVars, TypeOKManager
<1>2. /\ \A u \in Terminals : u # t => out'[u] = out[u] /\ input'[u] = input[u]
      /\ shell[t].st = "ended" => input'[t] = input[t]
  BY <1>0, <1>1 DEF FeederSteps, FeederLooks, FeederWrites, FeederFails, Typed, TypeOKShells,
     shellVars
<1>3. \A d \in ToolCalls : On(d)' = On(d)
  BY <1>1 DEF On
<1>4. ASSUME NEW u \in Terminals, u # t PROVE Plain(u)' /\ Owned(u)'
  <2>1. Plain(u) /\ Owned(u) /\ out'[u] = out[u] /\ input'[u] = input[u]
    BY <1>2, <1>4 DEF PlainInv
  <2>2. Plain(u)'
    BY <1>1, <1>3, <2>1, PlainSame
  <2>3. out[u].run.id # c /\ out[u].run.id \in ToolCalls \cup {"none"}
    BY <1>0, <1>4, OneOwner DEF TypeOKManager, Output, RunState
  <2> QED
    BY <1>1, <1>3, <2>1, <2>2, <2>3 DEF Owned
<1>5. /\ Plain(t) /\ Owned(t) /\ out[t] \in Output /\ out[t].run \in RunState
      /\ OutOf(c) = out[t]
  BY <1>0, <1>1 DEF PlainInv, Output, OutOf, On
<1>6. CASE FeederLooks(c) \/ (FeederWrites(c) /\ ~MayFeed(c))
  <2>1. /\ UNCHANGED <<out, input>>
        /\ \/ feeder'[c].pc # "off"
           \/ ~AcceptsInput(c)
    <3>1. UNCHANGED <<out, input>>
      BY <1>6 DEF FeederLooks, FeederWrites, shellVars
    <3>2. \/ UNCHANGED feeder \/ FeederGoes(c, "write") \/ FeederGoes(c, "look")
          \/ ~AcceptsInput(c)
      BY <1>6 DEF FeederLooks, FeederWrites
    <3> QED
      BY <1>1, <3>1, <3>2 DEF FeederGoes, FeederState
  <2>2. Plain(t)'
    BY <1>1, <1>3, <1>5, <2>1, PlainSame
  <2>3. Owned(t)'
    <3>1. out[t].run.id \in ToolCalls \cup {"none"}
      BY <1>5 DEF RunState
    <3>2. AcceptsInput(c) \/ out[t].run.id # c \/ out[t].run.completed \/ out[t].closed
      BY <1>5 DEF AcceptsInput, Plain, Shape
    <3> QED
      BY <1>1, <1>3, <1>5, <2>1, <3>1, <3>2 DEF Owned
  <2> QED
    BY <1>4, <2>2, <2>3 DEF PlainInv
<1>7. CASE FeederFails(c) \/ (FeederWrites(c) /\ MayFeed(c))
  <2> DEFINE q == InputTaken(out[t], feeder[c].next = Lines[c])
  <2>1. /\ MayFeed(c)
        /\ \/ out' = [out EXCEPT ![t] = WithError(q)]
           \/ /\ out' = [out EXCEPT ![t] = q]
              /\ feeder[c].next = Lines[c] \/ feeder'[c].pc # "off"
    BY <1>0, <1>1, <1>7 DEF FeederFails, FeederWrites
  <2>2. /\ out[t].run.id = c /\ ~out[t].error /\ ~out[t].closed
    BY <1>5, <2>1 DEF MayFeed, AcceptsInput
  <2>3. shell[t].st \notin {"off", "starting"}
    <3>1. NewOutput.run.id # c
      BY TerminalAssumption DEF NewOutput, NoRun
    <3> QED
      BY <1>5, <2>2, <3>1 DEF Plain
  <2>4. q \in Output /\ Shape(q)
    BY <1>5, ChangedTypes, ShapeKept DEF Plain
  <2>5. /\ Shape(WithError(q)) /\ WithError(q).run.completed /\ WithError(q).run.id = c
        /\ ~WithError(q).closed
        /\ ~q.closed /\ q.run.id = c /\ q.run.inputComplete = (feeder[c].next = Lines[c])
    <3>1. ~q.error /\ ~q.closed /\ q.run.id = c
          /\ q.run.inputComplete = (feeder[c].next = Lines[c])
      BY <1>5, <2>2 DEF InputTaken, Output, RunState
    <3> HIDE DEF q
    <3>2. WithError(q).run.completed /\ WithError(q).run.id = c /\ ~WithError(q).closed
      BY <2>4, <3>1 DEF WithError, Output, RunState
    <3> QED
      BY <2>4, <3>1, <3>2, ShapeKept
  <2> HIDE DEF q
  <2>6. Plain(t)'
    <3>1. Shape(out'[t]) /\ ~out'[t].closed
      BY <1>1, <2>1, <2>4, <2>5
    <3> QED
      BY <1>1, <1>2, <1>5, <2>3, <3>1 DEF Plain
  <2>7. Owned(t)'
    BY <1>1, <1>3, <1>5, <2>1, <2>2, <2>5 DEF Owned
  <2> QED
    BY <1>4, <2>6, <2>7 DEF PlainInv
<1> QED
  BY <1>6, <1>7 DEF FeederSteps

(* A step of the reader, the shell or the user.                            *)
LEMMA OwnedOther ==
  ASSUME TypeOKManager, PlainInv, UNCHANGED <<call, feeder>>,
         NEW t \in Terminals, SameRun(out[t], out'[t])
  PROVE  Owned(t)'
<1>1. out[t].run.id \in ToolCalls \cup {"none"}
  BY DEF TypeOKManager, Output, RunState
<1>2. Owned(t)
  BY DEF PlainInv
<1> QED
  BY <1>1, <1>2 DEF Owned, SameRun, On

LEMMA PlainOtherStep ==
  ASSUME TerminalTypeOK, WakeInv, PlainInv, NEW t \in Terminals,
         \/ ReaderSteps(t) \/ ShellSteps(t) \/ CommandReads(t) \/ ShellExits(t)
         \/ TypeLine(t) \/ Interrupt(t) \/ Redraw(t) \/ KillTerminal(t)
  PROVE  PlainInv'
<1> USE DEF TerminalTypeOK
<1>1. UNCHANGED <<call, feeder>> /\ known' \subseteq known
  BY DEF ReaderSteps, ProcessOutput, CloseTerminalOutput, ShellSteps, ShellStarts, ShellReads,
     ShellFinishes, CommandReads, ShellExits, TypeLine, Interrupt, Redraw, KillTerminal,
     managerVars
<1>2. \A u \in Terminals : u # t =>
        /\ out'[u] = out[u] /\ shell'[u] = shell[u] /\ markers'[u] = markers[u]
        /\ input'[u] = input[u] /\ script'[u] = script[u]
  BY DEF ReaderSteps, ProcessOutput, CloseTerminalOutput, ShellSteps, ShellStarts, ShellReads,
     ShellFinishes, CommandReads, ShellExits, TypeLine, Interrupt, Redraw, KillTerminal,
     managerVars, shellVars, Says, ShellIs, Typed, TypeOKManager, TypeOKShells
<1>3. /\ Plain(t) /\ out[t] \in Output /\ markers[t] \in Seq(Marker) /\ Shape(out[t])
      /\ shell[t] \in ShellState
  BY DEF PlainInv, Plain, TypeOKManager, TypeOKShells
<1>4. ASSUME NEW u \in Terminals, u # t PROVE Plain(u)' /\ Owned(u)'
  <2>1. Plain(u)'
    BY <1>1, <1>2, <1>4, PlainSame DEF PlainInv, On
  <2> QED
    BY <1>1, <1>2, <1>4, <2>1, OwnedOther, SameRunSelf
<1>5. SameRun(out[t], out'[t])
  <2>1. CASE ProcessOutput(t)
    <3>1. Head(markers[t]) \in Marker /\ out'[t] = Processed(out[t], Head(markers[t]))
      BY <1>3, <2>1 DEF ProcessOutput, TypeOKManager
    <3> QED
      BY <1>3, <3>1, RunKept
  <2>2. CASE CloseTerminalOutput(t)
    BY <1>3, <2>2, RunKept DEF CloseTerminalOutput, TypeOKManager
  <2>3. CASE TypeLine(t)
    <3>1. out'[t] = [out[t] EXCEPT !.atPrompt = FALSE, !.inputPrompt = "none"]
      BY <2>3 DEF TypeLine, TypeOKManager
    <3> QED
      BY <1>3, <3>1, RunKept
  <2>4. CASE ~ReaderSteps(t) /\ ~TypeLine(t)
    <3>1. UNCHANGED out
      BY <2>4 DEF ShellSteps, ShellStarts, ShellReads, ShellFinishes, CommandReads, ShellExits,
         Interrupt, Redraw, KillTerminal, managerVars
    <3> QED
      BY <3>1, SameRunSelf
  <2> QED
    BY <2>1, <2>2, <2>3, <2>4 DEF ReaderSteps
<1>6. Owned(t)'
  BY <1>1, <1>5, OwnedOther
<1>7. SUFFICES Plain(t)'
  BY <1>4, <1>6 DEF PlainInv
<1>8. CASE ProcessOutput(t)
  <2>1. Head(markers[t]) \in Marker /\ markers[t] # <<>>
        /\ out'[t] = Processed(out[t], Head(markers[t]))
    BY <1>3, <1>8 DEF ProcessOutput, TypeOKManager
  <2>2. Shape(out'[t]) /\ out'[t].closed = out[t].closed
    <3>1. Shape(Processed(out[t], Head(markers[t])))
      BY <1>3, <2>1, ShapeKept
    <3>2. Processed(out[t], Head(markers[t])).closed = out[t].closed
      BY <1>3, <2>1, RunKept
    <3> QED
      BY <2>1, <3>1, <3>2
  <2>3. UNCHANGED <<known, shell, input, script>>
    BY <1>8 DEF ProcessOutput
  <2> QED
    BY <1>3, <2>1, <2>2, <2>3 DEF Plain
<1>9. CASE CloseTerminalOutput(t)
  <2>1. /\ UNCHANGED <<shell, markers, input>> /\ AtEnd(t)
        /\ out'[t] = Closed(out[t])
    BY <1>9 DEF CloseTerminalOutput, TypeOKManager, shellVars
  <2>2. Shape(out'[t])
    BY <1>3, <2>1, ShapeKept
  <2> QED
    BY <1>3, <2>1, <2>2 DEF Plain, AtEnd
<1>10. CASE ShellStarts(t)
  <2>1. /\ UNCHANGED <<out, input>> /\ shell[t].st = "starting" /\ shell'[t].st = "reading"
    BY <1>10 DEF ShellStarts, ShellIs, managerVars, TypeOKShells, ShellState
  <2> QED
    BY <1>3, <2>1 DEF Plain, NewOutput
<1>11. CASE ShellReads(t) \/ ShellFinishes(t) \/ CommandReads(t)
  <2>1. /\ UNCHANGED out /\ shell[t].st \in {"reading", "continued", "running"}
        /\ shell'[t].st \in {"reading", "continued", "running"}
    BY <1>11 DEF ShellReads, ShellFinishes, CommandReads, ShellIs, managerVars, Listens,
       TypeOKShells, ShellState
  <2> QED
    BY <1>3, <2>1 DEF Plain
<1>12. CASE ShellExits(t)
  <2>1. /\ UNCHANGED <<out, markers>> /\ shell[t].st # "ended"
        /\ shell'[t].st = "ended" /\ input'[t] = <<>>
    BY <1>12 DEF ShellExits, managerVars, TypeOKShells
  <2> QED
    BY <1>3, <2>1 DEF Plain
<1>13. CASE TypeLine(t)
  <2>1. /\ out'[t] = [out[t] EXCEPT !.atPrompt = FALSE, !.inputPrompt = "none"]
        /\ t \in known /\ UNCHANGED <<shell, markers>>
        /\ shell[t].st = "ended" => UNCHANGED input
    BY <1>13 DEF TypeLine, TypeOKManager, Key, Typed
  <2>2. Shape(out'[t]) /\ out'[t].closed = out[t].closed
    BY <1>3, <2>1, RunKept, ShapeKept
  <2>3. shell[t].st = "starting" => out'[t] = out[t]
    <3>1. NewOutput = [NewOutput EXCEPT !.atPrompt = FALSE, !.inputPrompt = "none"]
      <4> DEFINE q == [NewOutput EXCEPT !.atPrompt = FALSE, !.inputPrompt = "none"]
      <4>1. q \in Output
        BY NewTypes, ChangedTypes
      <4>2. /\ q.ready = FALSE /\ q.atPrompt = FALSE /\ q.inputPrompt = "none"
            /\ q.pending = FALSE /\ q.error = FALSE /\ q.closed = FALSE /\ q.run = NoRun
        BY DEF NewOutput
      <4> HIDE DEF q
      <4>3. q = NewOutput
        BY <4>1, <4>2 DEF NewOutput, Output
      <4> QED
        BY <4>3 DEF q
    <3> QED
      BY <1>3, <2>1, <3>1 DEF Plain
  <2>4. shell[t].st # "off" /\ shell'[t] = shell[t] /\ markers'[t] = markers[t]
    BY <1>3, <2>1 DEF Plain, Unspawned
  <2>5. shell[t].st = "ended" => input'[t] = <<>>
    BY <1>3, <2>1 DEF Plain
  <2> QED
    BY <1>3, <2>2, <2>3, <2>4, <2>5 DEF Plain
<1>14. CASE Interrupt(t) \/ Redraw(t)
  <2>1. /\ UNCHANGED out /\ shell[t].st \in {"reading", "continued", "running"}
        /\ shell'[t].st \in {"reading", "continued", "running"}
    BY <1>14 DEF Interrupt, Redraw, ShellIs, managerVars, Listens, TypeOKShells, ShellState
  <2> QED
    BY <1>3, <2>1 DEF Plain
<1>15. CASE KillTerminal(t)
  <2>1. UNCHANGED <<out, call, shell, markers, input, script>> /\ known' \subseteq known
    BY <1>15 DEF KillTerminal, shellVars
  <2> QED
    BY <1>3, <2>1, PlainSame DEF On
<1> QED
  BY <1>8, <1>9, <1>10, <1>11, <1>12, <1>13, <1>14, <1>15 DEF ReaderSteps, ShellSteps

LEMMA PlainStep ==
  ASSUME TerminalTypeOK, WakeInv, PlainInv, [NextTerminals]_terminalVars
  PROVE  PlainInv'
<1>1. CASE UNCHANGED terminalVars
  BY <1>1 DEF terminalVars, managerVars, shellVars, PlainInv, Plain, Owned, Unspawned, On
<1>2. CASE NextTerminals
  BY <1>2, PlainCallStep, PlainSubmitStep, PlainFeederStep, PlainOtherStep
     DEF NextTerminals, CallSteps
<1> QED
  BY <1>1, <1>2

-----------------------------------------------------------------------------
(* The markers, as they are printed and processed. *)

LEMMA TailOf ==
  ASSUME NEW S, NEW ms \in Seq(S), ms # <<>>
  PROVE  /\ Len(ms) \in Nat /\ Len(ms) >= 1 /\ ms[1] = Head(ms)
         /\ Tail(ms) \in Seq(S) /\ Len(Tail(ms)) = Len(ms) - 1
         /\ \A i \in 1 .. Len(Tail(ms)) : Tail(ms)[i] = ms[i + 1]
OBVIOUS

LEMMA AddedTo ==
  ASSUME NEW S, NEW ms \in Seq(S), NEW m \in S
  PROVE  /\ ms \o <<m>> \in Seq(S) /\ Len(ms \o <<m>>) = Len(ms) + 1 /\ Len(ms) \in Nat
         /\ \A i \in 1 .. Len(ms) : (ms \o <<m>>)[i] = ms[i]
         /\ (ms \o <<m>>)[Len(ms) + 1] = m
OBVIOUS

LEMMA OneElement ==
  ASSUME NEW S, NEW s \in Seq(S), NEW t \in Seq(S), Len(s) = 1, Len(t) = 1, s[1] = t[1]
  PROVE  s = t
<1>1. \A i \in 1 .. Len(s) : s[i] = t[i]
  OBVIOUS
<1> QED
  BY <1>1, SeqEqual

LEMMA MarkerFields ==
  ASSUME NEW ms \in Seq(Marker), NEW i \in 1 .. Len(ms)
  PROVE  /\ ms[i].mark \in {"started", "finished", "primary", "continuation", "unexpanded"}
         /\ ms[i].new \in BOOLEAN /\ ms[i].line \in Line
<1>1. ms[i] \in Marker
  OBVIOUS
<1> QED
  BY <1>1 DEF Marker

(* The rest of the markers, after the first.                               *)
LEMMA RestMarked ==
  ASSUME NEW ms \in Seq(Marker), ms # <<>>, NEW p, NEW q, WellMarked(ms, p),
         ms[1].new /\ ms[1].mark = "finished" => q
  PROVE  WellMarked(Tail(ms), q)
<1>1. /\ Len(ms) \in Nat /\ Len(ms) >= 1
      /\ Tail(ms) \in Seq(Marker) /\ Len(Tail(ms)) = Len(ms) - 1
      /\ \A i \in 1 .. Len(Tail(ms)) : Tail(ms)[i] = ms[i + 1]
  BY TailOf
<1>2. \A i : i \in Fresh(Tail(ms)) <=> i \in 1 .. Len(Tail(ms)) /\ i + 1 \in Fresh(ms)
  BY <1>1 DEF Fresh
<1> DEFINE r == Tail(ms)
<1>3. \A i \in 1 .. Len(r) : ~r[i].new => r[i].mark \in {"primary", "continuation"}
  BY <1>1 DEF WellMarked
<1>4. \A i, j \in Fresh(r) : i < j => r[j].mark \in Later(r[i].mark)
  <2>1. SUFFICES ASSUME NEW i \in Fresh(r), NEW j \in Fresh(r), i < j
                 PROVE  r[j].mark \in Later(r[i].mark)
    OBVIOUS
  <2>2. i + 1 \in Fresh(ms) /\ j + 1 \in Fresh(ms) /\ i + 1 < j + 1
        /\ r[i] = ms[i + 1] /\ r[j] = ms[j + 1]
    BY <1>1, <1>2, <2>1
  <2> QED
    BY <2>2 DEF WellMarked
<1>5. ASSUME NEW i \in Fresh(r), r[i].mark = "finished"
      PROVE  i + 1 \in Fresh(r) /\ r[i + 1].mark \in Prompts
  <2>1. i + 1 \in Fresh(ms) /\ r[i] = ms[i + 1] /\ i \in 1 .. Len(r)
    BY <1>1, <1>2, <1>5
  <2>2. (i + 1) + 1 \in Fresh(ms) /\ ms[(i + 1) + 1].mark \in Prompts
    BY <1>5, <2>1 DEF WellMarked
  <2>3. i + 1 \in 1 .. Len(r)
    BY <1>1, <2>1, <2>2 DEF Fresh
  <2> QED
    BY <1>1, <1>2, <2>2, <2>3
<1>6. ASSUME NEW i \in Fresh(r), r[i].mark \in Prompts
      PROVE  IF i = 1 THEN q ELSE r[i - 1].new /\ r[i - 1].mark = "finished"
  <2>1. i + 1 \in Fresh(ms) /\ r[i] = ms[i + 1] /\ i \in 1 .. Len(r)
    BY <1>1, <1>2, <1>6
  <2>2. ms[(i + 1) - 1].new /\ ms[(i + 1) - 1].mark = "finished"
    BY <1>6, <2>1 DEF WellMarked
  <2>3. CASE i = 1
    BY <2>2, <2>3
  <2>4. CASE i # 1
    <3>1. i - 1 \in 1 .. Len(r)
      BY <1>1, <2>1, <2>4
    <3>2. r[i - 1] = ms[i]
      BY <1>1, <2>1, <3>1
    <3> QED
      BY <2>1, <2>2, <2>4, <3>2
  <2> QED
    BY <2>3, <2>4
<1>7. ASSUME NEW i \in Fresh(r), NEW j \in 1 .. Len(r), i < j,
             r[i].mark \in {"finished"} \cup Prompts
      PROVE  r[j].mark # "continuation"
  <2>1. i + 1 \in Fresh(ms) /\ j + 1 \in 1 .. Len(ms) /\ i + 1 < j + 1
        /\ r[i] = ms[i + 1] /\ r[j] = ms[j + 1]
    BY <1>1, <1>2, <1>7
  <2> QED
    BY <1>7, <2>1 DEF WellMarked
<1> QED
  BY <1>3, <1>4, <1>5, <1>6, <1>7 DEF WellMarked

LEMMA RestHas ==
  ASSUME NEW ms \in Seq(Marker), ms # <<>>, NEW m, Has(ms, m),
         ~(ms[1].new /\ ms[1].mark = m)
  PROVE  Has(Tail(ms), m)
<1>1. PICK i \in Fresh(ms) : ms[i].mark = m
  BY DEF Has
<1>2. i # 1 /\ i \in 1 .. Len(ms) /\ ms[i].new
  BY <1>1 DEF Fresh
<1>3. /\ Len(ms) \in Nat /\ Len(ms) >= 1 /\ Len(Tail(ms)) = Len(ms) - 1
      /\ \A k \in 1 .. Len(Tail(ms)) : Tail(ms)[k] = ms[k + 1]
  BY TailOf
<1>4. i - 1 \in 1 .. Len(Tail(ms)) /\ Tail(ms)[i - 1] = ms[i]
  BY <1>2, <1>3
<1> QED
  BY <1>1, <1>2, <1>4 DEF Has, Fresh

LEMMA RestFresh ==
  ASSUME NEW ms \in Seq(Marker), ms # <<>>
  PROVE  /\ \A i \in Fresh(Tail(ms)) : /\ i \in 1 .. Len(Tail(ms)) /\ i + 1 \in Fresh(ms)
                                       /\ 1 < i + 1 /\ Tail(ms)[i] = ms[i + 1]
         /\ \A i \in 1 .. Len(Tail(ms)) : /\ i + 1 \in 1 .. Len(ms) /\ 1 < i + 1
                                          /\ Tail(ms)[i] = ms[i + 1]
         /\ NoneFresh(ms) => NoneFresh(Tail(ms))
         /\ \A m : Has(Tail(ms), m) => Has(ms, m)
         /\ 1 \in 1 .. Len(ms)
<1>1. /\ Len(ms) \in Nat /\ Len(ms) >= 1 /\ Len(Tail(ms)) = Len(ms) - 1
      /\ \A i \in 1 .. Len(Tail(ms)) : Tail(ms)[i] = ms[i + 1]
  BY TailOf
<1>2. \A i \in 1 .. Len(Tail(ms)) : i + 1 \in 1 .. Len(ms) /\ 1 < i + 1
  BY <1>1
<1>3. \A i \in Fresh(Tail(ms)) : i \in 1 .. Len(Tail(ms)) /\ i + 1 \in Fresh(ms)
  BY <1>1, <1>2 DEF Fresh
<1>4. NoneFresh(ms) => NoneFresh(Tail(ms))
  BY <1>1, <1>2 DEF NoneFresh
<1>5. \A m : Has(Tail(ms), m) => Has(ms, m)
  BY <1>1, <1>3 DEF Has
<1>6. 1 \in 1 .. Len(ms)
  BY <1>1
<1> QED
  BY <1>1, <1>2, <1>3, <1>4, <1>5, <1>6

(* One marker is processed.                                                *)
LEMMA InStepProcess ==
  ASSUME NEW o \in Output, NEW ms \in Seq(Marker), ms # <<>>, NEW st, NEW inp,
         st \in {"reading", "continued", "running", "ended"}, InStep(o, ms, st, inp)
  PROVE  InStep(Processed(o, Head(ms)), Tail(ms), st, inp)
<1> DEFINE m == Head(ms)  r == Tail(ms)
<1>1. m = ms[1] /\ 1 \in 1 .. Len(ms) /\ m \in Marker
  BY TailOf
<1>2. /\ m.mark \in {"started", "finished", "primary", "continuation", "unexpanded"}
      /\ m.new \in BOOLEAN /\ (1 \in Fresh(ms) <=> m.new)
  BY <1>1, MarkerFields DEF Fresh
<1>3. /\ WellMarked(ms, o.pending) /\ o.pending \in BOOLEAN /\ o.error \in BOOLEAN
      /\ o.inputPrompt \in {"none", "primary", "continuation"}
  BY DEF InStep, Output
<1>4. (m.mark = "finished" /\ m.new) \/ \A q : WellMarked(r, q)
  BY <1>1, <1>3, RestMarked
<1>5. m.new => /\ ~NoneFresh(ms) /\ inp = <<>> /\ o.inputPrompt = "none"
  BY <1>1, <1>2 DEF InStep, Typing, Prompted, NoneFresh
<1>6. ~m.new => m.mark \in {"primary", "continuation"}
  BY <1>1, <1>3 DEF WellMarked
<1>7. CASE m.mark = "started"
  <2>1. m.new /\ ~o.pending /\ st \notin {"continued"}
    BY <1>1, <1>2, <1>6, <1>7 DEF InStep, Pending
  <2>2. CommandStarted(o).pending = FALSE /\ CommandStarted(o).inputPrompt = "none"
    BY DEF CommandStarted, Output
  <2>3. st = "running" => \A i \in Fresh(r) : r[i].mark = "started"
    BY RestFresh DEF InStep
  <2>4. st = "reading" => ~Has(r, "continuation") /\ Has(r, "finished")
    BY <1>1, <1>5, <1>7, <2>1, RestFresh, RestHas DEF InStep
  <2>5. InStep(CommandStarted(o), r, st, inp)
    BY <1>4, <1>5, <1>7, <2>1, <2>2, <2>3, <2>4 DEF InStep
  <2> QED
    BY <1>7, <2>5 DEF Processed
<1>8. CASE m.mark = "finished"
  <2>1. m.new /\ 1 \in Fresh(ms) /\ st \in {"reading", "ended"}
    BY <1>1, <1>2, <1>6, <1>8 DEF InStep
  <2>2. /\ CommandFinished(o, m.line).pending = TRUE
        /\ CommandFinished(o, m.line).inputPrompt = "none"
    BY DEF CommandFinished, Output
  <2>3. WellMarked(r, TRUE)
    BY <1>3, RestMarked
  <2>4. 1 \in Fresh(r) /\ r[1].mark \in Prompts
    <3>1. 1 + 1 \in Fresh(ms) /\ ms[1 + 1].mark \in Prompts
      BY <1>1, <1>3, <1>8, <2>1 DEF WellMarked
    <3>2. 1 \in 1 .. Len(r) /\ r[1] = ms[1 + 1]
      BY <3>1, TailOf DEF Fresh
    <3> QED
      BY <3>1, <3>2 DEF Fresh
  <2>5. ASSUME NEW i \in 1 .. Len(r)
        PROVE  r[i].mark \notin {"started", "finished", "continuation"}
    <3>1. i + 1 \in 1 .. Len(ms) /\ 1 < i + 1 /\ r[i] = ms[i + 1]
      BY RestFresh
    <3>2. r[i].mark # "continuation"
      BY <1>1, <1>3, <1>8, <2>1, <3>1 DEF WellMarked
    <3>3. CASE ms[i + 1].new
      <4>1. ms[i + 1].mark \in Later("finished")
        BY <1>1, <1>3, <1>8, <2>1, <3>1, <3>3 DEF WellMarked, Fresh
      <4> QED
        BY <3>1, <4>1 DEF Later, Prompts
    <3>4. CASE ~ms[i + 1].new
      BY <1>3, <3>1, <3>2, <3>4 DEF WellMarked
    <3> QED
      BY <3>3, <3>4
  <2>6. Pending(CommandFinished(o, m.line), r, st, inp)
    BY <1>5, <2>1, <2>2, <2>4, <2>5 DEF Pending
  <2>7. ~Has(ms, "continuation") => ~Has(r, "continuation")
    BY RestFresh
  <2>8. InStep(CommandFinished(o, m.line), r, st, inp)
    BY <1>5, <2>1, <2>2, <2>3, <2>6, <2>7 DEF InStep
  <2> QED
    BY <1>8, <2>8 DEF Processed
<1>9. CASE m.mark = "primary" /\ o.pending
  <2>1. Pending(o, ms, st, inp)
    BY <1>9 DEF InStep
  <2>2. PrimaryPrompt(o).pending = FALSE /\ PrimaryPrompt(o).inputPrompt = "primary"
    BY <1>9 DEF PrimaryPrompt, Output
  <2>3. NoneFresh(r)
    <3>1. CASE m.new
      <4>1. \A i \in Fresh(ms) : 1 < i => ms[i].mark \in Later("primary")
        BY <1>1, <1>2, <1>3, <1>9, <3>1 DEF WellMarked
      <4> QED
        BY <4>1, RestFresh DEF NoneFresh, Fresh, Later
    <3>2. CASE ~m.new
      BY <1>1, <1>2, <2>1, <3>2, RestFresh DEF Pending
    <3> QED
      BY <3>1, <3>2, <1>2
  <2>4. \A i \in 1 .. Len(r) : r[i].mark = "primary"
    <3>1. ASSUME NEW i \in 1 .. Len(r) PROVE r[i].mark = "primary"
      <4>1. i + 1 \in 1 .. Len(ms) /\ r[i] = ms[i + 1] /\ ~r[i].new
        BY <2>3, RestFresh DEF NoneFresh
      <4> QED
        BY <1>3, <2>1, <4>1 DEF WellMarked, Pending
    <3> QED
      BY <3>1
  <2>5. Prompted(PrimaryPrompt(o), r, st, inp)
    BY <2>1, <2>2, <2>3, <2>4 DEF Prompted, Pending
  <2>6. ~Has(r, "continuation")
    BY <2>3 DEF Has, Fresh, NoneFresh
  <2>7. InStep(PrimaryPrompt(o), r, st, inp)
    BY <1>4, <1>9, <2>1, <2>2, <2>5, <2>6 DEF InStep, Pending
  <2> QED
    BY <1>9, <2>7 DEF Processed
<1>10. CASE m.mark \in {"primary", "continuation"} /\ ~m.new /\ ~o.pending
  <2>1. Processed(o, m) = o
    BY <1>10 DEF Processed, PrimaryPrompt, ContinuationPrompt
  <2>2. o.inputPrompt # "none" => Prompted(o, r, st, inp)
    BY RestFresh DEF InStep, Prompted
  <2>3. inp # <<>> => Typing(o, r, st, inp)
    BY RestFresh DEF InStep, Typing
  <2>4. \A k : Has(r, k) <=> Has(ms, k)
    BY <1>1, <1>10, RestFresh, RestHas
  <2>5. \A k : (\A i \in Fresh(ms) : ms[i].mark = k) => (\A i \in Fresh(r) : r[i].mark = k)
    BY RestFresh
  <2>6. InStep(o, r, st, inp)
    BY <1>4, <1>10, <2>2, <2>3, <2>4, <2>5 DEF InStep
  <2> QED
    BY <2>1, <2>6
<1>11. CASE m.mark = "continuation" /\ m.new
  <2>1. ~o.pending /\ st \in {"continued", "ended"}
    BY <1>1, <1>2, <1>11 DEF InStep, Pending, Has
  <2>2. /\ ContinuationPrompt(o, m.new).pending = FALSE
        /\ ContinuationPrompt(o, m.new).inputPrompt = "continuation"
    BY <1>11, <2>1 DEF ContinuationPrompt, Output
  <2>3. NoneFresh(r)
    <3>1. \A i \in Fresh(ms) : 1 < i => ms[i].mark \in Later("continuation")
      BY <1>1, <1>2, <1>3, <1>11 DEF WellMarked
    <3> QED
      BY <3>1, RestFresh DEF NoneFresh, Fresh, Later
  <2>4. Prompted(ContinuationPrompt(o, m.new), r, st, inp)
    BY <1>5, <1>11, <2>1, <2>2, <2>3 DEF Prompted
  <2>5. InStep(ContinuationPrompt(o, m.new), r, st, inp)
    BY <1>4, <1>5, <1>11, <2>1, <2>2, <2>3, <2>4 DEF InStep, NoneFresh, Fresh
  <2> QED
    BY <1>11, <2>5 DEF Processed
<1>12. CASE m.mark = "unexpanded"
  <2>1. m.new /\ 1 \in Fresh(ms) /\ o.pending
    BY <1>1, <1>2, <1>3, <1>6, <1>12 DEF WellMarked, Prompts
  <2>2. Pending(o, ms, st, inp)
    BY <2>1 DEF InStep
  <2>3. WithError(o).pending /\ WithError(o).error /\ WithError(o).inputPrompt = "none"
    BY <2>1, <2>2, <1>3 DEF WithError, Output, Pending
  <2>4. NoneFresh(r)
    <3>1. \A i \in Fresh(ms) : 1 < i => ms[i].mark \in Later("unexpanded")
      BY <1>1, <1>2, <1>3, <1>12, <2>1 DEF WellMarked
    <3> QED
      BY <3>1, RestFresh DEF NoneFresh, Fresh, Later
  <2>5. \A i \in 1 .. Len(r) : r[i].mark \notin {"started", "finished", "continuation"}
    BY <2>2, RestFresh DEF Pending
  <2>6. Pending(WithError(o), r, st, inp)
    BY <2>2, <2>3, <2>4, <2>5 DEF Pending
  <2>7. InStep(WithError(o), r, st, inp)
    BY <1>4, <1>12, <2>2, <2>3, <2>4, <2>6 DEF InStep, Pending, Has, NoneFresh, Fresh
  <2> QED
    BY <1>12, <2>1, <2>7 DEF Processed
<1>13. m.mark = "primary" /\ m.new => o.pending
  BY <1>1, <1>2, <1>3 DEF WellMarked, Prompts
<1>14. m.mark = "continuation" => ~o.pending
  BY <1>1 DEF InStep, Pending
<1> QED
  BY <1>2, <1>3, <1>7, <1>8, <1>9, <1>10, <1>11, <1>12, <1>13, <1>14

(* The fields of an output that matter to its markers.                     *)
LEMMA InStepSame ==
  ASSUME NEW o, NEW q, NEW ms, NEW st, NEW inp, InStep(o, ms, st, inp),
         q.pending = o.pending, q.inputPrompt = o.inputPrompt, o.error => q.error
  PROVE  InStep(q, ms, st, inp)
BY DEF InStep, Pending, Prompted, Typing

(* A line is typed at a prompt.                                            *)
LEMMA InStepTakes ==
  ASSUME NEW o \in Output, NEW q, NEW ms, NEW st, NEW inp, NEW l \in Line,
         InStep(o, ms, st, inp), o.inputPrompt # "none",
         q.pending = o.pending, q.inputPrompt = "none"
  PROVE  InStep(q, ms, st, IF st = "ended" THEN inp ELSE Append(inp, l))
<1>1. Prompted(o, ms, st, inp) /\ o.inputPrompt \in {"primary", "continuation"}
  BY DEF InStep, Output
<1>2. /\ inp = <<>> /\ ~q.pending /\ NoneFresh(ms)
      /\ st \in {"reading", "continued", "ended"}
  BY <1>1 DEF Prompted
<1>3. Len(Append(<<>>, l)) = 1 /\ Append(<<>>, l) # <<>>
  OBVIOUS
<1>4. Fresh(ms) = {} /\ \A m : ~Has(ms, m)
  BY <1>2 DEF Fresh, NoneFresh, Has
<1>5. WellMarked(ms, q.pending)
  BY DEF InStep
<1> QED
  BY <1>2, <1>3, <1>4, <1>5 DEF InStep, Typing

(* New markers of the shell.                                               *)
LEMMA AddedMark ==
  ASSUME NEW ms \in Seq(Marker), NEW m \in Marker, NEW p, WellMarked(ms, p),
         ~m.new => m.mark \in {"primary", "continuation"},
         m.new => \A i \in Fresh(ms) : m.mark \in Later(ms[i].mark),
         m.new => m.mark \notin {"finished"} \cup Prompts,
         m.mark = "continuation" =>
           \A i \in Fresh(ms) : ms[i].mark \notin {"finished"} \cup Prompts
  PROVE  WellMarked(ms \o <<m>>, p)
<1> DEFINE r == ms \o <<m>>  n == Len(ms)
<1>1. /\ Len(r) = n + 1 /\ n \in Nat /\ \A i \in 1 .. n : r[i] = ms[i]
      /\ r[n + 1] = m
  BY AddedTo
<1> HIDE DEF r, n
<1>2. \A i \in 1 .. Len(r) : i = n + 1 \/ (i \in 1 .. n /\ r[i] = ms[i])
  BY <1>1
<1>3. /\ \A i \in Fresh(r) : i = n + 1 \/ (i \in Fresh(ms) /\ r[i] = ms[i])
      /\ \A i \in Fresh(ms) : i \in Fresh(r) /\ r[i] = ms[i] /\ i \in 1 .. n
      /\ n + 1 \in Fresh(r) => m.new
  BY <1>1, <1>2 DEF Fresh, n
<1>4. \A i \in 1 .. Len(r) : ~r[i].new => r[i].mark \in {"primary", "continuation"}
  BY <1>1, <1>2 DEF WellMarked, n
<1>5. ASSUME NEW i \in Fresh(r), NEW j \in Fresh(r), i < j
      PROVE  r[j].mark \in Later(r[i].mark)
  <2>1. i # n + 1
    BY <1>1, <1>3, <1>5 DEF Fresh
  <2> QED
    BY <1>1, <1>3, <1>5, <2>1 DEF WellMarked
<1>6. ASSUME NEW i \in Fresh(r), r[i].mark = "finished"
      PROVE  i + 1 \in Fresh(r) /\ r[i + 1].mark \in Prompts
  <2>1. i \in Fresh(ms) /\ r[i] = ms[i]
    BY <1>1, <1>3, <1>6
  <2>2. i + 1 \in Fresh(ms) /\ ms[i + 1].mark \in Prompts
    BY <1>6, <2>1 DEF WellMarked
  <2> QED
    BY <1>3, <2>2
<1>7. ASSUME NEW i \in Fresh(r), r[i].mark \in Prompts
      PROVE  IF i = 1 THEN p ELSE r[i - 1].new /\ r[i - 1].mark = "finished"
  <2>1. i \in Fresh(ms) /\ r[i] = ms[i] /\ i \in 1 .. n
    BY <1>1, <1>3, <1>7
  <2>2. i # 1 => i - 1 \in 1 .. n
    BY <1>1, <2>1
  <2> QED
    BY <1>1, <1>7, <2>1, <2>2 DEF WellMarked
<1>8. ASSUME NEW i \in Fresh(r), NEW j \in 1 .. Len(r), i < j,
             r[i].mark \in {"finished"} \cup Prompts
      PROVE  r[j].mark # "continuation"
  <2>1. i # n + 1
    BY <1>1, <1>8
  <2>2. i \in Fresh(ms) /\ r[i] = ms[i]
    BY <1>3, <2>1
  <2> QED
    BY <1>1, <1>2, <1>8, <2>2 DEF WellMarked, n
<1>9. WellMarked(r, p)
  BY <1>4, <1>5, <1>6, <1>7, <1>8 DEF WellMarked
<1> QED
  BY <1>9 DEF r

LEMMA AddedFresh ==
  ASSUME NEW ms \in Seq(Marker), NEW m \in Marker
  PROVE  /\ \A i \in Fresh(ms \o <<m>>) :
              (i \in Fresh(ms) /\ (ms \o <<m>>)[i] = ms[i]) \/ (m.new /\ (ms \o <<m>>)[i] = m)
         /\ \A i \in 1 .. Len(ms \o <<m>>) :
              (i \in 1 .. Len(ms) /\ (ms \o <<m>>)[i] = ms[i]) \/ (ms \o <<m>>)[i] = m
         /\ \A i \in Fresh(ms) : i \in Fresh(ms \o <<m>>) /\ (ms \o <<m>>)[i] = ms[i]
         /\ m.new => \E i \in Fresh(ms \o <<m>>) : (ms \o <<m>>)[i] = m
         /\ ~m.new /\ NoneFresh(ms) => NoneFresh(ms \o <<m>>)
<1> DEFINE r == ms \o <<m>>  n == Len(ms)
<1>1. /\ Len(r) = n + 1 /\ n \in Nat /\ \A i \in 1 .. n : r[i] = ms[i]
      /\ r[n + 1] = m
  BY AddedTo
<1> HIDE DEF r, n
<1>2. \A i \in 1 .. Len(r) : (i \in 1 .. n /\ r[i] = ms[i]) \/ (i = n + 1 /\ r[i] = m)
  BY <1>1
<1>3. n + 1 \in 1 .. Len(r) /\ \A i \in 1 .. n : i \in 1 .. Len(r)
  BY <1>1
<1>4. \A i \in Fresh(r) : (i \in Fresh(ms) /\ r[i] = ms[i]) \/ (m.new /\ r[i] = m)
  BY <1>2 DEF Fresh, n
<1>5. \A i \in Fresh(ms) : i \in Fresh(r) /\ r[i] = ms[i]
  BY <1>1, <1>3 DEF Fresh, n
<1>6. m.new => n + 1 \in Fresh(r) /\ r[n + 1] = m
  BY <1>1, <1>3 DEF Fresh
<1>7. ~m.new /\ NoneFresh(ms) => NoneFresh(r)
  BY <1>2 DEF NoneFresh, n
<1>8. \A i \in 1 .. Len(r) : (i \in 1 .. Len(ms) /\ r[i] = ms[i]) \/ r[i] = m
  BY <1>2 DEF n
<1>9. m.new => \E i \in Fresh(r) : r[i] = m
  BY <1>6
<1> QED
  BY <1>4, <1>5, <1>7, <1>8, <1>9 DEF r

LEMMA InStepReads ==
  ASSUME NEW o \in Output, NEW ms \in Seq(Marker), NEW st, NEW inp \in Seq(Line),
         st \in {"reading", "continued"}, inp # <<>>, InStep(o, ms, st, inp)
  PROVE  /\ Tail(inp) = <<>> /\ inp = <<Head(inp)>>
         /\ NoneFresh(ms) /\ ~o.pending
         /\ InStep(o, ms \o <<Mark("started")>>, "running", Tail(inp))
         /\ InStep(o, ms \o <<Mark("continuation")>>, "continued", Tail(inp))
<1>1. Typing(o, ms, st, inp) /\ WellMarked(ms, o.pending)
  BY DEF InStep
<1>2. Tail(inp) = <<>> /\ inp = <<Head(inp)>>
  <2>1. Len(inp) = 1 /\ Head(inp) \in Line /\ Head(inp) = inp[1]
    BY <1>1 DEF Typing
  <2>2. Len(<<Head(inp)>>) = 1 /\ <<Head(inp)>>[1] = Head(inp) /\ <<Head(inp)>> \in Seq(Line)
    BY <2>1
  <2>3. Tail(inp) \in Seq(Line) /\ Len(Tail(inp)) = 0
    BY <2>1
  <2>4. inp = <<Head(inp)>>
    BY <2>1, <2>2, OneElement
  <2>5. Tail(inp) = <<>>
    BY <2>3, EmptySeq
  <2> QED
    BY <2>4, <2>5
<1>3. /\ o.inputPrompt = "none" /\ ~o.pending /\ NoneFresh(ms) /\ Fresh(ms) = {}
  BY <1>1 DEF Typing, Fresh, NoneFresh
<1>4. ASSUME NEW k \in {"started", "continuation"}
      PROVE  /\ WellMarked(ms \o <<Mark(k)>>, o.pending)
             /\ \A i \in Fresh(ms \o <<Mark(k)>>) : (ms \o <<Mark(k)>>)[i].mark = k
             /\ Has(ms \o <<Mark(k)>>, k)
  <2>1. Mark(k) \in Marker /\ Mark(k).new /\ Mark(k).mark = k
    BY MarkTypes DEF Mark
  <2>2. WellMarked(ms \o <<Mark(k)>>, o.pending)
    BY <1>1, <1>3, <2>1, AddedMark DEF Prompts
  <2>3. /\ \A i \in Fresh(ms \o <<Mark(k)>>) : (ms \o <<Mark(k)>>)[i] = Mark(k)
        /\ \E i \in Fresh(ms \o <<Mark(k)>>) : (ms \o <<Mark(k)>>)[i] = Mark(k)
    <3> DEFINE m == Mark(k)
    <3> HIDE DEF m
    <3>1. m \in Marker /\ m.new
      BY <2>1 DEF m
    <3>2. /\ \A i \in Fresh(ms \o <<m>>) : (ms \o <<m>>)[i] = m
          /\ \E i \in Fresh(ms \o <<m>>) : (ms \o <<m>>)[i] = m
      <4>1. \A i \in Fresh(ms \o <<m>>) :
              (i \in Fresh(ms) /\ (ms \o <<m>>)[i] = ms[i])
                \/ (m.new /\ (ms \o <<m>>)[i] = m)
        BY <3>1, AddedFresh
      <4>2. \E i \in Fresh(ms \o <<m>>) : (ms \o <<m>>)[i] = m
        BY <3>1, AddedFresh
      <4> QED
        BY <1>3, <4>1, <4>2
    <3> QED
      BY <3>2 DEF m
  <2> QED
    BY <2>1, <2>2, <2>3 DEF Has
<1>5. InStep(o, ms \o <<Mark("started")>>, "running", Tail(inp))
  BY <1>2, <1>3, <1>4 DEF InStep
<1>6. InStep(o, ms \o <<Mark("continuation")>>, "continued", Tail(inp))
  BY <1>2, <1>3, <1>4 DEF InStep
<1> QED
  BY <1>2, <1>3, <1>5, <1>6

OneEnd(ms, a) == \A i \in Fresh(ms) : ms[i].mark = "finished" => ms[i] = a
FreshIn(r, ms) == \A i \in Fresh(r) : i \in Fresh(ms) /\ r[i] = ms[i]

LEMMA InStepFinishes ==
  ASSUME NEW o \in Output, NEW ms \in Seq(Marker), NEW a \in Marker, NEW b \in Marker,
         WellMarked(ms, o.pending), ~o.pending, o.inputPrompt = "none",
         \A i \in Fresh(ms) : ms[i].mark = "started",
         a.new, a.mark = "finished", b.new, b.mark \in Prompts
  PROVE  InStep(o, ms \o <<a, b>>, "reading", <<>>) /\ OneEnd(ms \o <<a, b>>, a)
<1> DEFINE r == ms \o <<a, b>>  n == Len(ms)
<1>1. /\ Len(r) = n + 2 /\ n \in Nat /\ \A i \in 1 .. n : r[i] = ms[i]
      /\ r[n + 1] = a /\ r[n + 2] = b /\ r \in Seq(Marker)
  OBVIOUS
<1> HIDE DEF r, n
<1>2. \A i \in 1 .. Len(r) : i \in 1 .. n \/ i = n + 1 \/ i = n + 2
  BY <1>1
<1>3. n + 1 \in Fresh(r) /\ n + 2 \in Fresh(r)
  BY <1>1 DEF Fresh
<1>4. \A i \in Fresh(r) : (i \in Fresh(ms) /\ i \in 1 .. n) \/ i = n + 1 \/ i = n + 2
  BY <1>1, <1>2 DEF Fresh, n
<1>5. /\ \A i \in Fresh(ms) : i \in 1 .. n /\ r[i].mark = "started"
      /\ \A i \in Fresh(r) : IF i \in 1 .. n THEN i \in Fresh(ms)
                                              ELSE i = n + 1 \/ i = n + 2
      /\ n + 1 \notin 1 .. n /\ n + 2 \notin 1 .. n
  BY <1>1, <1>4 DEF Fresh, n
<1>6. \A i \in 1 .. Len(r) : ~r[i].new => r[i].mark \in {"primary", "continuation"}
  BY <1>1, <1>2 DEF WellMarked, n
<1>7. ASSUME NEW i \in Fresh(r), NEW j \in Fresh(r), i < j
      PROVE  r[j].mark \in Later(r[i].mark)
  <2>1. Later("started") = {"finished"} \cup Prompts /\ Later("finished") = Prompts
    BY DEF Later
  <2>2. CASE i \in 1 .. n /\ j \in 1 .. n
    BY <1>1, <1>5, <1>7, <2>2 DEF WellMarked
  <2>3. CASE i \in 1 .. n /\ j \notin 1 .. n
    <3>1. r[i].mark = "started" /\ (r[j] = a \/ r[j] = b)
      BY <1>1, <1>5, <2>3
    <3> QED
      BY <2>1, <3>1
  <2>4. CASE i \notin 1 .. n
    <3>1. i = n + 1 /\ j = n + 2
      BY <1>1, <1>4, <1>7, <2>4
    <3> QED
      BY <1>1, <2>1, <3>1
  <2> QED
    BY <2>2, <2>3, <2>4
<1>8. ASSUME NEW i \in Fresh(r), r[i].mark = "finished"
      PROVE  i = n + 1 /\ i + 1 \in Fresh(r) /\ r[i + 1].mark \in Prompts
  <2>1. i = n + 1
    BY <1>1, <1>4, <1>5, <1>8 DEF Prompts
  <2>2. i + 1 = n + 2
    BY <1>1, <2>1
  <2> QED
    BY <1>1, <1>3, <2>1, <2>2
<1>9. ASSUME NEW i \in Fresh(r), r[i].mark \in Prompts
      PROVE  IF i = 1 THEN o.pending ELSE r[i - 1].new /\ r[i - 1].mark = "finished"
  <2>1. i = n + 2
    BY <1>1, <1>4, <1>5, <1>9 DEF Prompts
  <2>2. i - 1 = n + 1 /\ i # 1
    BY <1>1, <2>1
  <2> QED
    BY <1>1, <2>2
<1>10. ASSUME NEW i \in Fresh(r), NEW j \in 1 .. Len(r), i < j,
              r[i].mark \in {"finished"} \cup Prompts
       PROVE  r[j].mark # "continuation"
  <2>1. i = n + 1 \/ i = n + 2
    BY <1>1, <1>4, <1>5, <1>10 DEF Prompts
  <2>2. j = n + 2
    BY <1>1, <1>10, <2>1
  <2> QED
    BY <1>1, <2>2 DEF Prompts
<1>11. WellMarked(r, o.pending)
  BY <1>6, <1>7, <1>8, <1>9, <1>10 DEF WellMarked
<1>12. Has(r, "finished") /\ ~Has(r, "continuation")
  BY <1>1, <1>3, <1>4, <1>5 DEF Has, Prompts
<1>13. InStep(o, r, "reading", <<>>)
  BY <1>11, <1>12 DEF InStep
<1>14. OneEnd(r, a)
  BY <1>1, <1>8 DEF OneEnd
<1> QED
  BY <1>13, <1>14 DEF r

LEMMA InStepExits ==
  ASSUME NEW o, NEW ms, NEW st, NEW inp, InStep(o, ms, st, inp)
  PROVE  InStep(o, ms, "ended", <<>>)
BY DEF InStep, Pending, Prompted

LEMMA InStepRedraw ==
  ASSUME NEW o \in Output, NEW ms \in Seq(Marker), NEW st, NEW inp, NEW m \in Marker,
         InStep(o, ms, st, inp), ~m.new, st \in {"reading", "continued"},
         m.mark = IF st = "reading" THEN "primary" ELSE "continuation"
  PROVE  InStep(o, ms \o <<m>>, st, inp) /\ FreshIn(ms \o <<m>>, ms)
<1> DEFINE r == ms \o <<m>>
<1>1. /\ \A i \in Fresh(r) : i \in Fresh(ms) /\ r[i] = ms[i]
      /\ \A i \in 1 .. Len(r) : (i \in 1 .. Len(ms) /\ r[i] = ms[i]) \/ r[i] = m
      /\ \A i \in Fresh(ms) : i \in Fresh(r) /\ r[i] = ms[i]
      /\ NoneFresh(ms) => NoneFresh(r)
  BY AddedFresh
<1> HIDE DEF r
<1>2. \A k : Has(r, k) <=> Has(ms, k)
  BY <1>1 DEF Has
<1>3. WellMarked(r, o.pending)
  <2>1. m.mark = "continuation" =>
          \A i \in Fresh(ms) : ms[i].mark \notin {"finished"} \cup Prompts
    BY DEF InStep, Prompts
  <2> QED
    BY <2>1, AddedMark DEF InStep, r
<1>4. o.pending => Pending(o, r, st, inp)
  <2>1. SUFFICES ASSUME Pending(o, ms, st, inp) PROVE Pending(o, r, st, inp)
    BY DEF InStep
  <2>2. m.mark = "primary"
    BY <2>1 DEF Pending
  <2>3. \A i \in 1 .. Len(r) : r[i].mark \notin {"started", "finished", "continuation"}
    BY <1>1, <2>1, <2>2 DEF Pending
  <2>4. \/ 1 \in Fresh(r) /\ r[1].mark \in Prompts
        \/ o.error /\ NoneFresh(r)
    BY <1>1, <2>1 DEF Pending
  <2> QED
    BY <2>1, <2>3, <2>4 DEF Pending
<1>5. o.inputPrompt # "none" => Prompted(o, r, st, inp)
  <2>1. SUFFICES ASSUME Prompted(o, ms, st, inp) PROVE Prompted(o, r, st, inp)
    BY DEF InStep
  <2>2. o.inputPrompt = "primary" => \A i \in 1 .. Len(r) : r[i].mark = "primary"
    BY <1>1, <2>1 DEF Prompted
  <2> QED
    BY <1>1, <2>1, <2>2 DEF Prompted
<1>6. inp # <<>> => Typing(o, r, st, inp)
  BY <1>1 DEF InStep, Typing
<1>7. InStep(o, r, st, inp)
  BY <1>1, <1>2, <1>3, <1>4, <1>5, <1>6 DEF InStep
<1>8. FreshIn(r, ms)
  BY <1>1 DEF FreshIn
<1> QED
  BY <1>7, <1>8 DEF r

-----------------------------------------------------------------------------
(* What is told of the run of a terminal. *)

LEMMA AnsweredProcess ==
  ASSUME NEW o \in Output, NEW ms \in Seq(Marker), ms # <<>>, NEW sh \in ShellState,
         NEW inp, NEW s, InStep(o, ms, sh.st, inp), Answered(o, ms, sh, inp, s), Ended(o, s)
  PROVE  /\ Answered(Processed(o, Head(ms)), Tail(ms), sh, inp, s)
         /\ Ended(Processed(o, Head(ms)), s)
<1> DEFINE m == Head(ms)  r == Tail(ms)
<1>1. m = ms[1] /\ 1 \in 1 .. Len(ms) /\ m \in Marker
  BY TailOf
<1>2. /\ m.mark \in {"started", "finished", "primary", "continuation", "unexpanded"}
      /\ m.line \in Line /\ m.new \in BOOLEAN /\ (m.new => 1 \in Fresh(ms))
      /\ ~m.new => m.mark \in {"primary", "continuation"}
  BY <1>1, MarkerFields DEF Fresh, InStep, WellMarked
<1>3. o.run \in RunState /\ o.pending \in BOOLEAN
  BY DEF Output
<1>4. \A l : (\A i \in Fresh(ms) : ms[i].mark = "finished" => ReadThen(l, ms[i].line, s))
             => \A i \in Fresh(r) : r[i].mark = "finished" => ReadThen(l, r[i].line, s)
  BY RestFresh
<1> DEFINE Good(q) == Answered(q, r, sh, inp, s) /\ Ended(q, s)
<1>5. CASE m.mark = "started"
  <2> DEFINE q == CommandStarted(o)
  <2>1. /\ q.pending = FALSE /\ q.error = o.error /\ q.closed = o.closed
        /\ q.run.id = o.run.id /\ q.run.exit = o.run.exit
        /\ q.run.completed = o.run.completed /\ q.run.inputComplete = o.run.inputComplete
    BY <1>3 DEF CommandStarted, Output, RunState
  <2> HIDE DEF q
  <2>2. Good(q)
    BY <1>4, <2>1 DEF Answered, Ended
  <2> QED
    BY <1>5, <2>2 DEF Processed, q
<1>6. CASE m.mark = "finished"
  <2> DEFINE q == CommandFinished(o, m.line)
  <2>1. /\ q.pending = TRUE /\ q.error = o.error /\ q.closed = o.closed
        /\ q.run.id = o.run.id
        /\ q.run.exit = IF o.run.completed THEN o.run.exit ELSE m.line
        /\ q.run.completed = o.run.completed /\ q.run.inputComplete = o.run.inputComplete
    BY <1>3 DEF CommandFinished, Output, RunState
  <2> HIDE DEF q
  <2>2. o.run.inputComplete /\ ~o.run.completed => ReadThen(o.run.id, m.line, s)
    BY <1>1, <1>2, <1>6 DEF Answered
  <2>3. Good(q)
    BY <1>4, <2>1, <2>2 DEF Answered, Ended
  <2> QED
    BY <1>6, <2>3 DEF Processed, q
<1>7. CASE m.mark = "primary"
  <2> DEFINE q == PrimaryPrompt(o)
  <2>1. /\ q.error = o.error /\ q.closed = o.closed
        /\ q.run.id = o.run.id /\ q.run.exit = o.run.exit
        /\ q.run.inputComplete = o.run.inputComplete
        /\ IF o.pending
             THEN /\ q.pending = FALSE
                  /\ q.run.completed = (o.run.completed \/ o.run.inputComplete)
             ELSE q.pending = o.pending /\ q.run.completed = o.run.completed
    BY <1>3 DEF PrimaryPrompt, Output, RunState
  <2> HIDE DEF q
  <2>2. Answered(q, r, sh, inp, s)
    BY <1>3, <1>4, <2>1 DEF Answered, RunState
  <2>3. Ended(q, s)
    BY <1>3, <2>1 DEF Answered, Ended, RunState
  <2> QED
    BY <1>7, <2>2, <2>3 DEF Processed, q
<1>8. CASE m.mark = "continuation"
  <2> DEFINE q == ContinuationPrompt(o, m.new)
  <2>1. /\ q.pending = o.pending /\ q.error = o.error /\ q.closed = o.closed
        /\ q.run = o.run
    BY <1>3 DEF ContinuationPrompt, Output
  <2> HIDE DEF q
  <2>2. Good(q)
    BY <1>4, <2>1 DEF Answered, Ended
  <2> QED
    BY <1>8, <2>2 DEF Processed, q
<1>9. CASE m.mark = "unexpanded"
  <2>1. CASE o.pending /\ ~o.error
    <3>1. WithError(o).error /\ WithError(o).run.completed
      BY <1>3, <2>1 DEF WithError, Output, RunState
    <3>2. Good(WithError(o))
      BY <3>1 DEF Answered, Ended
    <3> QED
      BY <1>9, <2>1, <3>2 DEF Processed
  <2>2. CASE ~o.pending \/ o.error
    <3>1. Processed(o, m) = o
      BY <1>9, <2>2 DEF Processed, WithError
    <3>2. Good(o)
      BY <1>4 DEF Answered
    <3> QED
      BY <3>1, <3>2
  <2> QED
    BY <2>1, <2>2
<1> QED
  BY <1>2, <1>5, <1>6, <1>7, <1>8, <1>9

LEMMA AnsweredTakes ==
  ASSUME NEW o \in Output, Shape(o), NEW q, NEW ms, NEW sh \in ShellState, NEW inp,
         NEW s, NEW l \in Line, InStep(o, ms, sh.st, inp), Answered(o, ms, sh, inp, s),
         o.inputPrompt # "none", q.pending = o.pending, q.inputPrompt = "none",
         q.run.inputComplete /\ ~q.run.completed => l = LastLine(q.run.id) \/ q.run = o.run
  PROVE  Answered(q, ms, sh, IF sh.st = "ended" THEN inp ELSE Append(inp, l), s)
<1>1. Prompted(o, ms, sh.st, inp) /\ o.inputPrompt \in {"primary", "continuation"}
  BY DEF InStep, Output
<1>2. /\ inp = <<>> /\ ~q.pending /\ Fresh(ms) = {} /\ sh.st # "running"
  BY <1>1 DEF Prompted, Fresh, NoneFresh
<1>3. Append(<<>>, l) = <<l>>
  OBVIOUS
<1>4. q.run = o.run /\ q.run.inputComplete /\ ~q.run.completed /\ sh.st # "ended"
        => ReadLast(q.run.id, s)
  <2>1. LastLine(o.run.id) \notin {} /\ <<>> # <<LastLine(o.run.id)>>
    OBVIOUS
  <2> QED
    BY <1>2, <2>1 DEF Answered
<1> QED
  BY <1>2, <1>3, <1>4 DEF Answered

LEMMA ReadMore ==
  ASSUME NEW S, NEW s \in Seq(S), NEW l \in S, NEW c
  PROVE  /\ ReadLast(c, s) => ReadLast(c, Append(s, l))
         /\ \A e : ReadThen(c, e, s) => ReadThen(c, e, Append(s, l)) /\ ReadLast(c, s)
         /\ ReadLast(c, s) \/ l = LastLine(c) => ReadThen(c, l, Append(s, l))
                                                 /\ ReadLast(c, Append(s, l))
<1> DEFINE r == Append(s, l)
<1>1. /\ Len(r) = Len(s) + 1 /\ Len(s) \in Nat /\ r[Len(s) + 1] = l
      /\ \A i \in 1 .. Len(s) : r[i] = s[i]
  OBVIOUS
<1> HIDE DEF r
<1>2. /\ Len(s) + 1 \in 1 .. Len(r)
      /\ \A i \in 1 .. Len(s) : i \in 1 .. Len(r) /\ i <= Len(s) + 1
  BY <1>1
<1>3. ReadLast(c, s) => ReadLast(c, r)
  BY <1>1, <1>2 DEF ReadLast
<1>4. \A e : ReadThen(c, e, s) => ReadThen(c, e, r) /\ ReadLast(c, s)
  BY <1>1, <1>2 DEF ReadLast, ReadThen
<1>5. ReadLast(c, s) \/ l = LastLine(c) => ReadThen(c, l, r)
  <2>1. CASE ReadLast(c, s)
    BY <1>1, <1>2, <2>1 DEF ReadLast, ReadThen
  <2>2. CASE l = LastLine(c)
    <3>1. Len(s) + 1 <= Len(s) + 1
      BY <1>1
    <3> QED
      BY <1>1, <1>2, <2>2, <3>1 DEF ReadThen
  <2> QED
    BY <2>1, <2>2
<1>6. ReadThen(c, l, r) => ReadLast(c, r)
  BY DEF ReadThen, ReadLast
<1> QED
  BY <1>3, <1>4, <1>5, <1>6 DEF r

LEMMA ErrorTold ==
  ASSUME NEW q \in Output, Shape(q), NEW ms, NEW sh, NEW inp, NEW s,
         InStep(q, ms, sh.st, inp)
  PROVE  /\ InStep(WithError(q), ms, sh.st, inp)
         /\ Answered(WithError(q), ms, sh, inp, s) /\ Ended(WithError(q), s)
<1>1. q.run \in RunState
  BY DEF Output
<1>2. /\ WithError(q).error /\ WithError(q).run.completed
      /\ WithError(q).pending = q.pending /\ WithError(q).inputPrompt = q.inputPrompt
  BY <1>1 DEF WithError, Shape, Output, RunState
<1>3. InStep(WithError(q), ms, sh.st, inp)
  BY <1>2, InStepSame
<1> QED
  BY <1>2, <1>3 DEF Answered, Ended

LEMMA ToldSame ==
  ASSUME NEW t \in Terminals, Told(t), out'[t] = out[t], markers'[t] = markers[t],
         shell'[t] = shell[t], input'[t] = input[t], script'[t] = script[t]
  PROVE  Told(t)'
BY DEF Told

(* A line is written to a terminal at a prompt, or cannot be.              *)
LEMMA ToldWrites ==
  ASSUME TerminalTypeOK, PlainInv, NEW t \in Terminals, Told(t),
         NEW l \in Line, NEW q \in Output, Shape(q),
         out[t].inputPrompt # "none", q.pending = out[t].pending, q.inputPrompt = "none",
         q.run.inputComplete /\ ~q.run.completed =>
           l = LastLine(q.run.id) \/ q.run = out[t].run,
         Ended(q, script[t]),
         UNCHANGED <<shell, markers, script>>,
         \/ out'[t] = q /\ Typed(t, l)
         \/ out'[t] = WithError(q) /\ UNCHANGED input /\ shell[t].st = "ended"
  PROVE  Told(t)'
<1>1. /\ out[t] \in Output /\ Shape(out[t]) /\ shell[t] \in ShellState
      /\ input \in [Terminals -> Seq(Line)]
      /\ InStep(out[t], markers[t], shell[t].st, input[t])
      /\ Answered(out[t], markers[t], shell[t], input[t], script[t])
  BY DEF TerminalTypeOK, TypeOKManager, TypeOKShells, PlainInv, Plain, Told
<1> DEFINE inp == IF shell[t].st = "ended" THEN input[t] ELSE Append(input[t], l)
<1>2. /\ InStep(q, markers[t], shell[t].st, inp)
      /\ Answered(q, markers[t], shell[t], inp, script[t])
  BY <1>1, InStepTakes, AnsweredTakes
<1>3. CASE out'[t] = q /\ Typed(t, l)
  <2>1. input'[t] = inp
    BY <1>1, <1>3 DEF Typed
  <2> QED
    BY <1>2, <1>3, <2>1 DEF Told
<1>4. CASE out'[t] = WithError(q) /\ UNCHANGED input /\ shell[t].st = "ended"
  <2>1. inp = input[t]
    BY <1>4
  <2>2. /\ InStep(WithError(q), markers[t], shell[t].st, input[t])
        /\ Answered(WithError(q), markers[t], shell[t], input[t], script[t])
        /\ Ended(WithError(q), script[t])
    BY <1>2, <2>1, ErrorTold
  <2> QED
    BY <1>4, <2>2 DEF Told
<1> QED
  BY <1>3, <1>4

LEMMA ToldCallStep ==
  ASSUME TerminalTypeOK, NEW c \in ToolCalls, NEW t \in Terminals, Told(t),
         \/ ResolveTerminal(c) \/ Bind(c) \/ LookReady(c) \/ LookRun(c)
         \/ SubmitRefused(c) \/ TimesOut(c)
         \/ \E u \in Terminals : SpawnTerminal(c, u) /\ u # t
  PROVE  Told(t)'
<1>1. UNCHANGED <<out, markers, input, script>> /\ shell'[t] = shell[t]
  BY DEF ResolveTerminal, Bind, LookReady, LookRun, SubmitRefused, TimesOut, SpawnTerminal,
     KeepOutput, shellVars, TerminalTypeOK, TypeOKShells
<1> QED
  BY <1>1, ToldSame

LEMMA ToldSubmitStep ==
  ASSUME TerminalTypeOK, PlainInv, NEW c \in ToolCalls, NEW t \in Terminals, Told(t),
         SubmitFails(c) \/ Respond(c) \/ \E b \in BOOLEAN : Submit(c, b)
  PROVE  Told(t)'
<1>1. /\ out \in [Terminals -> Output] /\ input \in [Terminals -> Seq(Line)]
      /\ On(c) \in Terminals
      /\ UNCHANGED <<shell, markers, script>>
  BY CallOn DEF SubmitFails, Respond, Submit, CallAt, TerminalTypeOK, TypeOKManager,
     TypeOKShells, shellVars
<1>2. CASE t # On(c)
  <2>1. out'[t] = out[t] /\ input'[t] = input[t]
    BY <1>1, <1>2 DEF SubmitFails, Respond, Submit, Typed, shellVars
  <2> QED
    BY <1>1, <2>1, ToldSame
<1>3. CASE t = On(c)
  <2>1. /\ Shape(out[t]) /\ out[t] \in Output /\ OutOf(c) = out[t]
        /\ out[t].run \in RunState
    BY <1>1, <1>3 DEF PlainInv, Plain, OutOf, On, Output
  <2>2. CASE Respond(c)
    <3>1. UNCHANGED input /\ (out'[t] = out[t] \/ out'[t] = WithError(out[t]))
      BY <1>1, <1>3, <2>2 DEF Respond, shellVars
    <3>2. /\ InStep(WithError(out[t]), markers[t], shell[t].st, input[t])
          /\ Answered(WithError(out[t]), markers[t], shell[t], input[t], script[t])
          /\ Ended(WithError(out[t]), script[t])
      BY <2>1, ErrorTold DEF Told
    <3> QED
      BY <1>1, <3>1, <3>2, ToldSame DEF Told
  <2>3. CASE SubmitFails(c) \/ \E b \in BOOLEAN : Submit(c, b)
    <3> DEFINE q == Submitted(out[t], c)  l == [by |-> c, n |-> 1]
    <3>1. /\ MaySubmit(out[t])
          /\ \/ out'[t] = q /\ Typed(t, l)
             \/ out'[t] = WithError(q) /\ UNCHANGED input /\ shell[t].st = "ended"
      BY <1>1, <1>3, <2>1, <2>3 DEF SubmitFails, Submit, shellVars
    <3>2. q \in Output /\ Shape(q)
      BY <2>1, <3>1, ChangedTypes, ShapeKept DEF MaySubmit
    <3>3. /\ q.pending = out[t].pending /\ q.inputPrompt = "none"
          /\ q.run.id = c /\ q.run.inputComplete = (Lines[c] = 1) /\ ~q.run.completed
      BY <2>1 DEF Submitted, Output
    <3>4. l \in Line /\ (Lines[c] = 1 => l = LastLine(c))
      BY LineTypes DEF LastLine
    <3>5. Ended(q, script[t])
      BY <3>3 DEF Ended
    <3>6. out[t].inputPrompt # "none"
      BY <2>1, <3>1 DEF MaySubmit, Shape
    <3> HIDE DEF q, l
    <3>7. q.run.inputComplete /\ ~q.run.completed => l = LastLine(q.run.id)
      BY <3>3, <3>4
    <3> QED
      BY <1>1, <3>1, <3>2, <3>3, <3>4, <3>5, <3>6, <3>7, ToldWrites
  <2> QED
    BY <2>2, <2>3
<1> QED
  BY <1>2, <1>3

LEMMA ToldFeederStep ==
  ASSUME TerminalTypeOK, WakeInv, PlainInv, NEW c \in ToolCalls, NEW t \in Terminals,
         Told(t), FeederSteps(c)
  PROVE  Told(t)'
<1>1. /\ out \in [Terminals -> Output] /\ input \in [Terminals -> Seq(Line)]
      /\ On(c) \in Terminals /\ feeder[c].next \in 2 .. Lines[c]
      /\ UNCHANGED <<shell, markers, script>>
  BY CallOn DEF FeederSteps, FeederLooks, FeederWrites, FeederFails, WakeInv, Sleepers,
     TerminalTypeOK, TypeOKManager, TypeOKShells, shellVars
<1>2. CASE t # On(c) \/ FeederLooks(c) \/ (FeederWrites(c) /\ ~MayFeed(c))
  <2>1. out'[t] = out[t] /\ input'[t] = input[t]
    BY <1>1, <1>2 DEF FeederSteps, FeederLooks, FeederWrites, FeederFails, Typed, shellVars
  <2> QED
    BY <1>1, <2>1, ToldSame
<1>3. CASE t = On(c) /\ (FeederFails(c) \/ (FeederWrites(c) /\ MayFeed(c)))
  <2>1. /\ Shape(out[t]) /\ out[t] \in Output /\ OutOf(c) = out[t]
        /\ out[t].run \in RunState
    BY <1>1, <1>3 DEF PlainInv, Plain, OutOf, On, Output
  <2> DEFINE q == InputTaken(out[t], feeder[c].next = Lines[c])
             l == [by |-> c, n |-> feeder[c].next]
  <2>2. /\ MayFeed(c)
        /\ \/ out'[t] = q /\ Typed(t, l)
           \/ out'[t] = WithError(q) /\ UNCHANGED input /\ shell[t].st = "ended"
    BY <1>1, <1>3 DEF FeederFails, FeederWrites, shellVars
  <2>3. q \in Output /\ Shape(q)
    BY <2>1, ChangedTypes, ShapeKept
  <2>4. /\ out[t].run.id = c /\ ~out[t].run.completed /\ out[t].inputPrompt # "none"
    BY <2>1, <2>2 DEF MayFeed, AcceptsInput
  <2>5. /\ q.pending = out[t].pending /\ q.inputPrompt = "none"
        /\ q.run.id = c /\ q.run.inputComplete = (feeder[c].next = Lines[c])
        /\ ~q.run.completed
    BY <2>1, <2>4 DEF InputTaken, Output, RunState
  <2>6. l \in Line /\ (feeder[c].next = Lines[c] => l = LastLine(c))
    BY <1>1, LineTypes DEF LastLine
  <2> HIDE DEF q, l
  <2>7. Ended(q, script[t])
    BY <2>5 DEF Ended
  <2>8. q.run.inputComplete /\ ~q.run.completed => l = LastLine(q.run.id)
    BY <2>5, <2>6
  <2> QED
    BY <1>1, <2>2, <2>3, <2>4, <2>5, <2>6, <2>7, <2>8, ToldWrites
<1> QED
  BY <1>2, <1>3 DEF FeederSteps

(* A terminal that was not spawned, or has not started.                    *)
LEMMA ToldNew ==
  ASSUME NEW sh, sh.st \in {"off", "starting"}
  PROVE  /\ InStep(NewOutput, <<>>, sh.st, <<>>)
         /\ Answered(NewOutput, <<>>, sh, <<>>, <<>>) /\ Ended(NewOutput, <<>>)
<1>1. /\ NewOutput.inputPrompt = "none" /\ ~NewOutput.pending
      /\ NewOutput.run.completed /\ NewOutput.run.id = "none"
  BY DEF NewOutput, NoRun
<1>2. WellMarked(<<>>, FALSE) /\ NewOutput.pending = FALSE
  BY DEF WellMarked, Fresh, NewOutput
<1> QED
  BY <1>1, <1>2 DEF InStep, Answered, Ended

LEMMA ToldSpawn ==
  ASSUME TerminalTypeOK, PlainInv, NEW c \in ToolCalls, NEW t \in Terminals,
         SpawnTerminal(c, t)
  PROVE  Told(t)'
<1>1. /\ shell \in [Terminals -> ShellState] /\ shell[t].st = "off"
      /\ shell'[t].st = "starting" /\ UNCHANGED <<out, markers, input, script>>
  BY DEF SpawnTerminal, TerminalTypeOK, TypeOKShells, ShellState
<1>2. out[t] = NewOutput /\ markers[t] = <<>> /\ input[t] = <<>> /\ script[t] = <<>>
  BY <1>1 DEF PlainInv, Plain, Unspawned
<1>3. /\ InStep(NewOutput, <<>>, shell'[t].st, <<>>)
      /\ Answered(NewOutput, <<>>, shell'[t], <<>>, <<>>) /\ Ended(NewOutput, <<>>)
  BY <1>1, ToldNew
<1> QED
  BY <1>1, <1>2, <1>3 DEF Told

LEMMA ToldReaderStep ==
  ASSUME TerminalTypeOK, PlainInv, NEW t \in Terminals, Told(t), ReaderSteps(t)
  PROVE  Told(t)'
<1>1. /\ out[t] \in Output /\ markers[t] \in Seq(Marker) /\ shell[t] \in ShellState
      /\ out[t].run \in RunState
      /\ shell[t].st \in {"off", "starting"} => markers[t] = <<>>
      /\ out \in [Terminals -> Output] /\ markers \in [Terminals -> Seq(Marker)]
  BY DEF TerminalTypeOK, TypeOKManager, TypeOKShells, PlainInv, Plain, Output
<1>2. CASE ProcessOutput(t)
  <2>1. /\ markers[t] # <<>> /\ UNCHANGED <<shell, input, script>>
        /\ out'[t] = Processed(out[t], Head(markers[t])) /\ markers'[t] = Tail(markers[t])
    BY <1>1, <1>2 DEF ProcessOutput
  <2>2. shell[t].st \in {"reading", "continued", "running", "ended"}
    BY <1>1, <2>1 DEF ShellState
  <2>3. InStep(Processed(out[t], Head(markers[t])), Tail(markers[t]), shell[t].st, input[t])
    BY <1>1, <2>1, <2>2, InStepProcess DEF Told
  <2>4. /\ Answered(Processed(out[t], Head(markers[t])), Tail(markers[t]), shell[t],
                    input[t], script[t])
        /\ Ended(Processed(out[t], Head(markers[t])), script[t])
    BY <1>1, <2>1, AnsweredProcess DEF Told
  <2> QED
    BY <2>1, <2>3, <2>4 DEF Told
<1>3. CASE CloseTerminalOutput(t)
  <2>1. out'[t] = Closed(out[t]) /\ UNCHANGED <<shell, markers, input, script>>
    BY <1>1, <1>3 DEF CloseTerminalOutput, shellVars
  <2> DEFINE o == out[t]  q == Closed(out[t])
  <2>2. /\ q.pending = o.pending /\ q.inputPrompt = o.inputPrompt /\ q.error = o.error
        /\ q.closed /\ q.run.completed /\ q.run.id = o.run.id
        /\ q.run.exit = IF o.run.completed THEN o.run.exit ELSE NoLine
    BY <1>1 DEF Closed, Output, RunState
  <2> HIDE DEF q
  <2>3. InStep(q, markers[t], shell[t].st, input[t])
    BY <2>2, InStepSame DEF Told
  <2>4. Answered(q, markers[t], shell[t], input[t], script[t]) /\ Ended(q, script[t])
    BY <2>2 DEF Answered, Ended, Told
  <2> QED
    BY <2>1, <2>3, <2>4 DEF Told, q
<1> QED
  BY <1>2, <1>3 DEF ReaderSteps

LEMMA ToldShellStep ==
  ASSUME TerminalTypeOK, PlainInv, NEW t \in Terminals, Told(t),
         ShellSteps(t) \/ CommandReads(t) \/ ShellExits(t)
  PROVE  Told(t)'
<1>1. /\ out[t] \in Output /\ markers[t] \in Seq(Marker) /\ shell[t] \in ShellState
      /\ input[t] \in Seq(Line) /\ script[t] \in Seq(Line)
      /\ shell \in [Terminals -> ShellState] /\ input \in [Terminals -> Seq(Line)]
      /\ script \in [Terminals -> Seq(Line)] /\ markers \in [Terminals -> Seq(Marker)]
      /\ UNCHANGED out
      /\ InStep(out[t], markers[t], shell[t].st, input[t])
      /\ Answered(out[t], markers[t], shell[t], input[t], script[t])
      /\ Ended(out[t], script[t])
  BY DEF TerminalTypeOK, TypeOKManager, TypeOKShells, Told, ShellSteps, ShellStarts,
     ShellReads, ShellFinishes, CommandReads, ShellExits, managerVars
<1>2. CASE ShellStarts(t)
  <2>1. /\ shell[t].st = "starting" /\ shell'[t].st = "reading"
        /\ markers'[t] = markers[t] \o <<FinishedBy(NoLine), Mark("primary")>>
        /\ UNCHANGED <<input, script>>
    BY <1>1, <1>2 DEF ShellStarts, ShellIs, Says, ShellState
  <2>2. out[t] = NewOutput
    BY <2>1 DEF PlainInv, Plain
  <2>3. /\ ~out[t].pending /\ out[t].inputPrompt = "none" /\ out[t].run.completed
        /\ out[t].run.id = "none"
    BY <2>2 DEF NewOutput, NoRun
  <2>4. input[t] = <<>> /\ markers[t] = <<>>
    BY <1>1, <2>1 DEF InStep, Typing, PlainInv, Plain
  <2>5. /\ FinishedBy(NoLine) \in Marker /\ FinishedBy(NoLine).new
        /\ FinishedBy(NoLine).mark = "finished"
        /\ Mark("primary") \in Marker /\ Mark("primary").new
        /\ Mark("primary").mark \in Prompts
    BY LineTypes, MarkTypes DEF FinishedBy, Mark, Prompts
  <2>6. Fresh(markers[t]) = {} /\ WellMarked(markers[t], out[t].pending)
    BY <1>1, <2>4 DEF Fresh, InStep
  <2>7. InStep(out[t], markers[t] \o <<FinishedBy(NoLine), Mark("primary")>>, "reading",
               <<>>)
    BY <1>1, <2>3, <2>5, <2>6, InStepFinishes
  <2> QED
    BY <1>1, <2>1, <2>3, <2>4, <2>7 DEF Told, Answered
<1>3. CASE ShellReads(t)
  <2>1. /\ shell[t].st \in {"reading", "continued"} /\ input[t] # <<>>
        /\ input'[t] = Tail(input[t]) /\ script'[t] = Append(script[t], Head(input[t]))
        /\ \/ /\ shell'[t] = [st |-> "running", line |-> Head(input[t])]
              /\ markers'[t] = markers[t] \o <<Mark("started")>>
           \/ /\ shell'[t].st = "continued"
              /\ markers'[t] = markers[t] \o <<Mark("continuation")>>
    BY <1>1, <1>3 DEF ShellReads, Listens, ShellIs, Says, ShellState
  <2> DEFINE l == Head(input[t])
  <2>2. /\ NoneFresh(markers[t]) /\ ~out[t].pending /\ input[t] = <<l>>
        /\ InStep(out[t], markers[t] \o <<Mark("started")>>, "running", Tail(input[t]))
        /\ InStep(out[t], markers[t] \o <<Mark("continuation")>>, "continued",
                  Tail(input[t]))
    BY <1>1, <2>1, InStepReads
  <2>3. l \in Line
    BY <1>1, <2>1
  <2>4. \A k \in {"started", "continuation"} :
          \A i \in Fresh(markers[t] \o <<Mark(k)>>) :
            (markers[t] \o <<Mark(k)>>)[i].mark # "finished"
    <3>1. TAKE k \in {"started", "continuation"}
    <3>2. Mark(k) \in Marker /\ Mark(k).mark = k
      BY MarkTypes DEF Mark
    <3>3. PICK m \in Marker : m = Mark(k)
      BY <3>2
    <3>4. \A i \in Fresh(markers[t] \o <<m>>) : (markers[t] \o <<m>>)[i] = m
      BY <1>1, <2>2, AddedFresh DEF Fresh, NoneFresh
    <3> QED
      BY <3>2, <3>3, <3>4
  <2>5. \A i \in Fresh(markers'[t]) : markers'[t][i].mark # "finished"
    BY <2>1, <2>4
  <2>6. out[t].run.inputComplete /\ ~out[t].run.completed
          => /\ ReadThen(out[t].run.id, l, script'[t])
             /\ ReadLast(out[t].run.id, script'[t])
    <3>1. SUFFICES ASSUME out[t].run.inputComplete /\ ~out[t].run.completed
                   PROVE  /\ ReadThen(out[t].run.id, l, Append(script[t], l))
                          /\ ReadLast(out[t].run.id, Append(script[t], l))
      BY <2>1
    <3>2. ReadLast(out[t].run.id, script[t]) \/ input[t] = <<LastLine(out[t].run.id)>>
      BY <1>1, <2>1, <3>1 DEF Answered
    <3>3. <<l>> = <<LastLine(out[t].run.id)>> => l = LastLine(out[t].run.id)
      OBVIOUS
    <3> QED
      BY <1>1, <2>2, <2>3, <3>2, <3>3, ReadMore
  <2>7. Answered(out[t], markers'[t], shell'[t], input'[t], script'[t])
    BY <2>1, <2>2, <2>5, <2>6 DEF Answered
  <2>8. Ended(out[t], script'[t])
    <3>1. ReadThen(out[t].run.id, out[t].run.exit, script[t])
            => ReadThen(out[t].run.id, out[t].run.exit, Append(script[t], l))
      BY <1>1, <2>3, ReadMore
    <3> QED
      BY <1>1, <2>1, <3>1 DEF Ended
  <2>9. InStep(out[t], markers'[t], shell'[t].st, input'[t])
    <3>1. CASE shell'[t] = [st |-> "running", line |-> l]
               /\ markers'[t] = markers[t] \o <<Mark("started")>>
      <4>1. shell'[t].st = "running"
        BY <3>1
      <4> QED
        BY <2>1, <2>2, <3>1, <4>1
    <3>2. CASE shell'[t].st = "continued"
               /\ markers'[t] = markers[t] \o <<Mark("continuation")>>
      BY <2>1, <2>2, <3>2
    <3> QED
      BY <2>1, <3>1, <3>2
  <2> QED
    BY <1>1, <2>7, <2>8, <2>9 DEF Told
<1>4. CASE ShellFinishes(t)
  <2>1. /\ shell[t].st = "running" /\ shell'[t].st = "reading"
        /\ UNCHANGED <<input, script>>
        /\ \E k \in {"primary", "unexpanded"} :
             markers'[t] = markers[t] \o <<FinishedBy(shell[t].line), Mark(k)>>
    BY <1>1, <1>4 DEF ShellFinishes, Says
  <2>2. PICK k \in {"primary", "unexpanded"} :
          markers'[t] = markers[t] \o <<FinishedBy(shell[t].line), Mark(k)>>
    BY <2>1
  <2>3. PICK a \in Marker : /\ a = FinishedBy(shell[t].line) /\ a.new
                            /\ a.mark = "finished" /\ a.line = shell[t].line
    <3>1. FinishedBy(shell[t].line) \in Marker
      BY <1>1, MarkTypes DEF ShellState
    <3> QED
      BY <3>1 DEF FinishedBy
  <2>4. PICK b \in Marker : b = Mark(k) /\ b.new /\ b.mark \in Prompts
    <3>1. Mark(k) \in Marker
      BY MarkTypes
    <3> QED
      BY <3>1 DEF Mark, Prompts
  <2>5. /\ input[t] = <<>> /\ out[t].inputPrompt = "none" /\ ~out[t].pending
        /\ \A i \in Fresh(markers[t]) : markers[t][i].mark = "started"
        /\ WellMarked(markers[t], out[t].pending)
    BY <1>1, <2>1 DEF InStep
  <2>6. /\ InStep(out[t], markers[t] \o <<a, b>>, "reading", <<>>)
        /\ OneEnd(markers[t] \o <<a, b>>, a)
    BY <1>1, <2>3, <2>4, <2>5, InStepFinishes
  <2>7. out[t].run.inputComplete /\ ~out[t].run.completed
          => /\ ReadThen(out[t].run.id, shell[t].line, script[t])
             /\ ReadLast(out[t].run.id, script[t])
    BY <1>1, <2>1 DEF Answered, ReadThen, ReadLast
  <2>8. Answered(out[t], markers[t] \o <<a, b>>, shell'[t], <<>>, script[t])
    BY <2>1, <2>3, <2>5, <2>6, <2>7 DEF Answered, OneEnd
  <2> QED
    BY <1>1, <2>1, <2>2, <2>3, <2>4, <2>5, <2>6, <2>8 DEF Told
<1>5. CASE CommandReads(t)
  BY <1>1, <1>5 DEF CommandReads, InStep
<1>6. CASE ShellExits(t)
  <2>1. /\ shell'[t].st = "ended" /\ input'[t] = <<>> /\ UNCHANGED <<markers, script>>
    BY <1>1, <1>6 DEF ShellExits
  <2>2. InStep(out[t], markers[t], "ended", <<>>)
    BY <1>1, InStepExits
  <2>3. Answered(out[t], markers[t], shell'[t], <<>>, script[t])
    BY <1>1, <2>1 DEF Answered
  <2> QED
    BY <1>1, <2>1, <2>2, <2>3 DEF Told
<1> QED
  BY <1>2, <1>3, <1>4, <1>5, <1>6 DEF ShellSteps

LEMMA ToldUserStep ==
  ASSUME TerminalTypeOK, PlainInv, NEW t \in Terminals, Told(t), t \notin disturbed',
         TypeLine(t) \/ Interrupt(t) \/ Redraw(t) \/ KillTerminal(t)
  PROVE  Told(t)'
<1>1. /\ out[t] \in Output /\ markers[t] \in Seq(Marker) /\ shell[t] \in ShellState
      /\ input[t] \in Seq(Line) /\ Shape(out[t]) /\ out[t].run \in RunState
      /\ out \in [Terminals -> Output] /\ input \in [Terminals -> Seq(Line)]
      /\ markers \in [Terminals -> Seq(Marker)]
  BY DEF TerminalTypeOK, TypeOKManager, TypeOKShells, PlainInv, Plain, Output
<1>2. CASE TypeLine(t)
  <2> DEFINE q == [out[t] EXCEPT !.atPrompt = FALSE, !.inputPrompt = "none"]
  <2>1. /\ out[t].inputPrompt # "none" /\ out'[t] = q /\ Typed(t, UserLine)
        /\ UNCHANGED <<shell, markers, script>>
    BY <1>1, <1>2 DEF TypeLine
  <2>2. q \in Output /\ Shape(q)
    BY <1>1, ChangedTypes, ShapeKept
  <2>3. /\ q.pending = out[t].pending /\ q.inputPrompt = "none" /\ q.run = out[t].run
        /\ q.error = out[t].error /\ q.closed = out[t].closed
    BY <1>1 DEF Output
  <2> HIDE DEF q
  <2>4. Ended(q, script[t])
    BY <2>3 DEF Told, Ended
  <2> QED
    BY <2>1, <2>2, <2>3, <2>4, LineTypes, ToldWrites
<1>3. CASE Interrupt(t)
  <2>1. input[t] = <<>> /\ UNCHANGED <<out, shell, markers, script>>
        /\ input' = [input EXCEPT ![t] = <<>>]
    BY <1>3 DEF Interrupt, managerVars
  <2>2. input'[t] = input[t]
    BY <1>1, <2>1
  <2> QED
    BY <2>1, <2>2, ToldSame
<1>4. CASE Redraw(t)
  <2>1. PICK k \in {"primary", "continuation"} :
          /\ shell[t].st \in {"reading", "continued"}
          /\ k = IF shell[t].st = "reading" THEN "primary" ELSE "continuation"
          /\ markers'[t] = markers[t] \o <<[mark |-> k, line |-> NoLine, new |-> FALSE]>>
          /\ UNCHANGED <<out, shell, input, script>>
    BY <1>1, <1>4 DEF Redraw, Listens, Says, managerVars
  <2>2. PICK m \in Marker : /\ m = [mark |-> k, line |-> NoLine, new |-> FALSE]
                            /\ m.mark = k /\ ~m.new
    BY MarkTypes
  <2>3. InStep(out[t], markers[t] \o <<m>>, shell[t].st, input[t])
    BY <1>1, <2>1, <2>2, InStepRedraw DEF Told
  <2>4. FreshIn(markers[t] \o <<m>>, markers[t])
    BY <1>1, <2>1, <2>2, InStepRedraw DEF Told
  <2>5. Answered(out[t], markers[t] \o <<m>>, shell[t], input[t], script[t])
    BY <2>4 DEF Answered, Told, FreshIn
  <2> QED
    BY <2>1, <2>2, <2>3, <2>5 DEF Told
<1>5. CASE KillTerminal(t)
  BY <1>5, ToldSame DEF KillTerminal, shellVars
<1> QED
  BY <1>2, <1>3, <1>4, <1>5

LEMMA OthersSame ==
  ASSUME TerminalTypeOK, NEW u \in Terminals, NEW t \in Terminals, u # t,
         \/ ReaderSteps(u) \/ ShellSteps(u) \/ CommandReads(u) \/ ShellExits(u)
         \/ TypeLine(u) \/ Interrupt(u) \/ Redraw(u) \/ KillTerminal(u)
  PROVE  /\ out'[t] = out[t] /\ markers'[t] = markers[t] /\ shell'[t] = shell[t]
         /\ input'[t] = input[t] /\ script'[t] = script[t]
         /\ UNCHANGED <<call, feeder>>
         /\ t \in disturbed' => t \in disturbed
BY DEF ReaderSteps, ProcessOutput, CloseTerminalOutput, ShellSteps, ShellStarts, ShellReads,
   ShellFinishes, CommandReads, ShellExits, TypeLine, Interrupt, Redraw, KillTerminal,
   managerVars, shellVars, Says, ShellIs, Typed, TerminalTypeOK, TypeOKManager, TypeOKShells

LEMMA DisturbedStays ==
  ASSUME [NextTerminals]_terminalVars
  PROVE  disturbed \subseteq disturbed'
BY DEF NextTerminals, CallSteps, FeederSteps, ReaderSteps, ShellSteps, terminalVars, shellVars,
   ResolveTerminal, Bind, LookReady, LookRun, SubmitRefused, Respond, SubmitFails, Submit,
   FeederLooks, FeederWrites, FeederFails, TimesOut, SpawnTerminal, ProcessOutput,
   CloseTerminalOutput, ShellStarts, ShellReads, ShellFinishes, CommandReads, ShellExits,
   TypeLine, Interrupt, Redraw, KillTerminal

LEMMA ToldStep ==
  ASSUME TerminalTypeOK, WakeInv, PlainInv, ToldInv, [NextTerminals]_terminalVars
  PROVE  ToldInv'
<1>1. SUFFICES ASSUME NEW t \in Terminals, t \notin disturbed' PROVE Told(t)'
  BY DEF ToldInv
<1>2. Told(t)
  BY <1>1, DisturbedStays DEF ToldInv
<1>3. CASE UNCHANGED terminalVars
  BY <1>2, <1>3, ToldSame DEF terminalVars, managerVars, shellVars
<1>4. CASE \E c \in ToolCalls : CallSteps(c) \/ FeederSteps(c) \/ TimesOut(c)
  BY <1>2, <1>4, ToldCallStep, ToldSubmitStep, ToldFeederStep DEF CallSteps
<1>5. CASE \E c \in ToolCalls, u \in Terminals : SpawnTerminal(c, u)
  <2>1. PICK c \in ToolCalls, u \in Terminals : SpawnTerminal(c, u)
    BY <1>5
  <2>2. CASE u = t
    BY <2>1, <2>2, ToldSpawn
  <2>3. CASE u # t
    BY <1>2, <2>1, <2>3, ToldCallStep
  <2> QED
    BY <2>2, <2>3
<1>6. CASE \E u \in Terminals :
             \/ ReaderSteps(u) \/ ShellSteps(u) \/ CommandReads(u) \/ ShellExits(u)
             \/ TypeLine(u) \/ Interrupt(u) \/ Redraw(u) \/ KillTerminal(u)
  <2>1. PICK u \in Terminals :
             \/ ReaderSteps(u) \/ ShellSteps(u) \/ CommandReads(u) \/ ShellExits(u)
             \/ TypeLine(u) \/ Interrupt(u) \/ Redraw(u) \/ KillTerminal(u)
    BY <1>6
  <2>2. CASE u = t
    BY <1>1, <1>2, <2>1, <2>2, ToldReaderStep, ToldShellStep, ToldUserStep
  <2>3. CASE u # t
    BY <1>2, <2>1, <2>3, OthersSame, ToldSame
  <2> QED
    BY <2>2, <2>3
<1> QED
  BY <1>3, <1>4, <1>5, <1>6 DEF NextTerminals

-----------------------------------------------------------------------------
(* The lines of a terminal. *)

LEMMA Joined ==
  ASSUME NEW S, NEW s \in Seq(S), NEW r \in Seq(S)
  PROVE  /\ s \o r \in Seq(S) /\ Len(s) \in Nat /\ Len(r) \in Nat
         /\ Len(s \o r) = Len(s) + Len(r)
         /\ \A i \in 1 .. Len(s) : (s \o r)[i] = s[i]
OBVIOUS

LEMMA StreamTypes ==
  ASSUME TypeOKShells, NEW t \in Terminals
  PROVE  /\ Stream(t) \in Seq(Line) /\ script[t] \in Seq(Line) /\ input[t] \in Seq(Line)
         /\ Len(script[t]) \in Nat /\ Len(input[t]) \in Nat
         /\ Len(Stream(t)) = Len(script[t]) + Len(input[t])
         /\ \A i \in 1 .. Len(script[t]) : Stream(t)[i] = script[t][i]
         /\ \A i \in 1 .. Len(Stream(t)) : Stream(t)[i].n \in Nat
<1>1. script[t] \in Seq(Line) /\ input[t] \in Seq(Line)
  BY DEF TypeOKShells
<1>2. /\ Stream(t) \in Seq(Line)
      /\ Len(script[t]) \in Nat /\ Len(input[t]) \in Nat
      /\ Len(Stream(t)) = Len(script[t]) + Len(input[t])
      /\ \A i \in 1 .. Len(script[t]) : Stream(t)[i] = script[t][i]
  BY <1>1, Joined DEF Stream
<1>3. ASSUME NEW i \in 1 .. Len(Stream(t)) PROVE Stream(t)[i].n \in Nat
  <2>1. Stream(t)[i] \in Line
    BY <1>2, ElementOfSeq
  <2> QED
    BY <2>1, LineTypes
<1> QED
  BY <1>1, <1>2, <1>3

(* How a line moves: it is read, typed, or lost.                           *)
LEMMA ReadMoves ==
  ASSUME NEW S, NEW s \in Seq(S), NEW inp \in Seq(S), inp # <<>>
  PROVE  Append(s, Head(inp)) \o Tail(inp) = s \o inp
<1> DEFINE p == Append(s, Head(inp)) \o Tail(inp)  q == s \o inp
<1>1. /\ Head(inp) \in S /\ Head(inp) = inp[1] /\ Tail(inp) \in Seq(S)
      /\ Len(inp) \in Nat /\ Len(inp) >= 1 /\ Len(s) \in Nat
      /\ Len(Tail(inp)) = Len(inp) - 1
      /\ \A i \in 1 .. Len(Tail(inp)) : Tail(inp)[i] = inp[i + 1]
  OBVIOUS
<1>2. /\ p \in Seq(S) /\ Len(p) = (Len(s) + 1) + Len(Tail(inp))
      /\ q \in Seq(S) /\ Len(q) = Len(s) + Len(inp)
  BY <1>1
<1>3. ASSUME NEW i \in 1 .. Len(p) PROVE p[i] = q[i]
  <2>1. CASE i <= Len(s) + 1
    BY <1>1, <1>2, <2>1
  <2>2. CASE i > Len(s) + 1
    <3>1. i - (Len(s) + 1) \in 1 .. Len(Tail(inp)) /\ i - Len(s) \in 1 .. Len(inp)
      BY <1>1, <1>2, <2>2
    <3>2. p[i] = Tail(inp)[i - (Len(s) + 1)]
      BY <1>1, <1>2, <2>2, <3>1
    <3>3. q[i] = inp[i - Len(s)]
      BY <1>1, <1>2, <2>2, <3>1
    <3>4. (i - (Len(s) + 1)) + 1 = i - Len(s)
      BY <1>1, <1>2
    <3> QED
      BY <1>1, <3>1, <3>2, <3>3, <3>4
  <2> QED
    BY <1>1, <1>2, <2>1, <2>2
<1>4. Len(p) = Len(q)
  BY <1>1, <1>2
<1> HIDE DEF p, q
<1>5. p = q
  BY <1>2, <1>3, <1>4, SeqEqual
<1> QED
  BY <1>5 DEF p, q

AddedLast(s, inp, l, r) == r = Append(inp, l) => s \o r = Append(s \o inp, l)

LEMMA TypedLast ==
  ASSUME NEW S, NEW s \in Seq(S), NEW inp \in Seq(S), NEW l \in S, NEW r
  PROVE  AddedLast(s, inp, l, r)
<1> DEFINE p == s \o Append(inp, l)  q == Append(s \o inp, l)
<1>1. /\ p \in Seq(S) /\ q \in Seq(S) /\ Len(p) = Len(q)
      /\ \A i \in 1 .. Len(p) : p[i] = q[i]
  OBVIOUS
<1> HIDE DEF p, q
<1>2. p = q
  BY <1>1, SeqEqual
<1> QED
  BY <1>2 DEF p, q, AddedLast

(* Some of the lines are left.                                             *)
Within(r, s) ==
  \E f \in [1 .. Len(r) -> 1 .. Len(s)] :
    /\ \A i \in 1 .. Len(r) : r[i] = s[f[i]]
    /\ \A i, j \in 1 .. Len(r) : i < j => f[i] < f[j]

LEMMA OneLess ==
  ASSUME NEW S, NEW s \in Seq(S), NEW inp \in Seq(S), inp # <<>>
  PROVE  Within(s \o Tail(inp), s \o inp)
<1> DEFINE r == s \o Tail(inp)  q == s \o inp
           f == [i \in 1 .. Len(r) |-> IF i <= Len(s) THEN i ELSE i + 1]
<1>1. /\ Tail(inp) \in Seq(S)
      /\ Len(inp) \in Nat /\ Len(inp) >= 1 /\ Len(s) \in Nat
      /\ Len(Tail(inp)) = Len(inp) - 1
      /\ \A i \in 1 .. Len(Tail(inp)) : Tail(inp)[i] = inp[i + 1]
  OBVIOUS
<1>2. /\ r \in Seq(S) /\ Len(r) = Len(s) + Len(Tail(inp))
      /\ q \in Seq(S) /\ Len(q) = Len(s) + Len(inp)
  BY <1>1
<1>3. ASSUME NEW i \in 1 .. Len(r) PROVE r[i] = q[f[i]] /\ f[i] \in 1 .. Len(q)
  <2>1. CASE i <= Len(s)
    BY <1>1, <1>2, <2>1
  <2>2. CASE i > Len(s)
    <3>1. i - Len(s) \in 1 .. Len(Tail(inp)) /\ (i + 1) - Len(s) \in 1 .. Len(inp)
      BY <1>1, <1>2, <2>2
    <3>2. r[i] = Tail(inp)[i - Len(s)]
      BY <1>1, <1>2, <2>2, <3>1
    <3>3. q[i + 1] = inp[(i + 1) - Len(s)] /\ i + 1 \in 1 .. Len(q)
      BY <1>1, <1>2, <2>2, <3>1
    <3>4. (i - Len(s)) + 1 = (i + 1) - Len(s) /\ f[i] = i + 1
      BY <1>1, <1>2, <2>2
    <3> QED
      BY <1>1, <3>1, <3>2, <3>3, <3>4
  <2> QED
    BY <1>1, <1>2, <2>1, <2>2
<1>4. \A i, j \in 1 .. Len(r) : i < j => f[i] < f[j]
  BY <1>1, <1>2
<1> HIDE DEF r, q
<1>5. f \in [1 .. Len(r) -> 1 .. Len(q)]
  BY <1>3
<1> HIDE DEF f
<1>6. Within(r, q)
  BY <1>3, <1>4, <1>5 DEF Within
<1> QED
  BY <1>6 DEF r, q

LEMMA NoMore ==
  ASSUME NEW S, NEW s \in Seq(S), NEW inp \in Seq(S)
  PROVE  Within(s \o <<>>, s \o inp) /\ s \o <<>> = s
<1> DEFINE q == s \o inp
           f == [i \in 1 .. Len(s) |-> i]
<1>1. /\ Len(inp) \in Nat /\ Len(s) \in Nat /\ Len(q) = Len(s) + Len(inp)
      /\ \A i \in 1 .. Len(s) : s[i] = q[i]
  OBVIOUS
<1>2. s \o <<>> = s
  BY ConcatEmptySeq
<1> HIDE DEF q
<1>3. f \in [1 .. Len(s) -> 1 .. Len(q)]
  BY <1>1
<1>4. \A i, j \in 1 .. Len(s) : i < j => f[i] < f[j]
  OBVIOUS
<1>5. \A i \in 1 .. Len(s) : s[i] = q[f[i]]
  BY <1>1
<1> HIDE DEF f
<1>6. Within(s, q)
  BY <1>3, <1>4, <1>5 DEF Within
<1> QED
  BY <1>2, <1>6 DEF q

LEMMA WithinItself ==
  ASSUME NEW S, NEW s \in Seq(S), NEW r, r = s
  PROVE  Within(r, s)
<1> DEFINE f == [i \in 1 .. Len(s) |-> i]
<1>1. /\ f \in [1 .. Len(s) -> 1 .. Len(s)]
      /\ \A i \in 1 .. Len(s) : s[i] = s[f[i]]
      /\ \A i, j \in 1 .. Len(s) : i < j => f[i] < f[j]
  OBVIOUS
<1> HIDE DEF f
<1> QED
  BY <1>1 DEF Within

LEMMA WithinKeeps ==
  ASSUME NEW r, Len(r) \in Nat, NEW s, Len(s) \in Nat, NEW id, Within(r, s)
  PROVE  /\ Ordered(s) => Ordered(r)
         /\ Followed(s, id) => Followed(r, id)
         /\ \A i \in 1 .. Len(r) : \E k \in 1 .. Len(s) : r[i] = s[k]
<1>1. PICK f \in [1 .. Len(r) -> 1 .. Len(s)] :
        /\ \A i \in 1 .. Len(r) : r[i] = s[f[i]]
        /\ \A i, j \in 1 .. Len(r) : i < j => f[i] < f[j]
  BY DEF Within
<1>2. ASSUME Ordered(s) PROVE Ordered(r)
  <2>1. SUFFICES ASSUME NEW i \in 1 .. Len(r), NEW j \in 1 .. Len(r), i < j,
                        r[i].by = r[j].by, r[i].by # "user"
                 PROVE  /\ r[i].n < r[j].n
                        /\ \A k \in i .. j : r[k].by \in {r[i].by, "user"}
    BY DEF Ordered
  <2>2. /\ r[i] = s[f[i]] /\ r[j] = s[f[j]] /\ f[i] < f[j]
        /\ f[i] \in 1 .. Len(s) /\ f[j] \in 1 .. Len(s)
    BY <1>1, <2>1
  <2>3. s[f[i]].n < s[f[j]].n /\ \A k \in f[i] .. f[j] : s[k].by \in {s[f[i]].by, "user"}
    BY <1>2, <2>1, <2>2 DEF Ordered
  <2>4. ASSUME NEW k \in i .. j PROVE k \in 1 .. Len(r) /\ f[k] \in f[i] .. f[j]
    <3>1. k \in 1 .. Len(r)
      OBVIOUS
    <3>2. f[k] \in 1 .. Len(s) /\ (k = i \/ f[i] < f[k]) /\ (k = j \/ f[k] < f[j])
      BY <1>1, <3>1
    <3> QED
      BY <2>2, <3>1, <3>2
  <2> QED
    BY <1>1, <2>2, <2>3, <2>4
<1>3. ASSUME Followed(s, id) PROVE Followed(r, id)
  BY <1>1, <1>3 DEF Followed
<1> QED
  BY <1>1, <1>2, <1>3

LEMMA AppendKeeps ==
  ASSUME NEW s \in Seq(Line), NEW l \in Line, NEW id, l.by \in {id, "user"}
  PROVE  /\ Ordered(s) /\ (l.by # "user" => Followed(s, id))
              /\ (l.by # "user" => \A i \in 1 .. Len(s) : s[i].by = l.by => s[i].n < l.n)
            => Ordered(Append(s, l))
         /\ Followed(s, id) => Followed(Append(s, l), id)
         /\ \A read : Left(s, id, read) => Left(Append(s, l), id, read)
         /\ \A read \in Seq(Line) :
              Left(s, id, read) /\ Overtakes(s, read) /\ Len(read) <= Len(s)
                => Overtakes(Append(s, l), read)
<1> DEFINE r == Append(s, l)  n == Len(s)
<1>1. /\ Len(r) = n + 1 /\ n \in Nat /\ r[n + 1] = l
      /\ \A i \in 1 .. n : r[i] = s[i]
  OBVIOUS
<1> HIDE DEF r, n
<1>2. \A i \in 1 .. Len(r) : (i \in 1 .. n /\ r[i] = s[i]) \/ (i = n + 1 /\ r[i] = l)
  BY <1>1
<1>3. \A i, j \in 1 .. Len(r) : i < j => i \in 1 .. n
  BY <1>1
<1>4. ASSUME Ordered(s), l.by # "user" => Followed(s, id),
             l.by # "user" => \A i \in 1 .. n : s[i].by = l.by => s[i].n < l.n
      PROVE  Ordered(r)
  <2>1. SUFFICES ASSUME NEW i \in 1 .. Len(r), NEW j \in 1 .. Len(r), i < j,
                        r[i].by = r[j].by, r[i].by # "user"
                 PROVE  /\ r[i].n < r[j].n
                        /\ \A k \in i .. j : r[k].by \in {r[i].by, "user"}
    BY DEF Ordered
  <2>2. i \in 1 .. n /\ r[i] = s[i]
    BY <1>1, <1>3, <2>1
  <2>3. CASE j \in 1 .. n
    <3>1. s[i].n < s[j].n /\ \A k \in i .. j : s[k].by \in {s[i].by, "user"}
      BY <1>1, <1>4, <2>1, <2>2, <2>3 DEF Ordered, n
    <3>2. \A k \in i .. j : k \in 1 .. n
      BY <1>1, <2>2, <2>3
    <3> QED
      BY <1>1, <2>2, <2>3, <3>1, <3>2
  <2>4. CASE j = n + 1
    <3>1. l.by = s[i].by /\ l.by = id /\ s[i].n < l.n
      BY <1>1, <1>4, <2>1, <2>2, <2>4
    <3>2. ASSUME NEW k \in i .. j PROVE r[k].by \in {r[i].by, "user"}
      <4>1. k = i \/ k = n + 1 \/ (k \in 1 .. n /\ i < k)
        BY <1>1, <2>2, <2>4
      <4>2. k \in 1 .. n /\ i < k => s[k].by \in {id, "user"}
        BY <1>4, <2>1, <2>2, <3>1 DEF Followed, n
      <4> QED
        BY <1>1, <2>2, <3>1, <4>1, <4>2
    <3> QED
      BY <1>1, <2>2, <2>4, <3>1, <3>2
  <2> QED
    BY <1>2, <2>3, <2>4
<1>5. Followed(s, id) => Followed(r, id)
  BY <1>1, <1>2, <1>3 DEF Followed, n
<1>6. \A read : Left(s, id, read) => Left(r, id, read)
  BY <1>2 DEF Left, n
<1>7. ASSUME NEW read \in Seq(Line), Left(s, id, read), Overtakes(s, read), Len(read) <= n
      PROVE  Overtakes(r, read)
  <2>1. SUFFICES ASSUME NEW i \in 1 .. Len(r), NEW j \in 1 .. Len(r), i < j,
                        r[i].by # r[j].by, "user" \notin {r[i].by, r[j].by}
                 PROVE  \E k \in 1 .. Len(read) : k < j /\ read[k] = LastLine(r[i].by)
    BY DEF Overtakes
  <2>2. i \in 1 .. n /\ r[i] = s[i]
    BY <1>1, <1>3, <2>1
  <2>3. CASE j \in 1 .. n
    BY <1>1, <1>7, <2>1, <2>2, <2>3 DEF Overtakes, n
  <2>4. CASE j = n + 1
    <3>1. s[i].by \notin {"user", id}
      BY <1>1, <2>1, <2>2, <2>4
    <3>2. PICK k \in 1 .. Len(read) : read[k] = LastLine(s[i].by)
      BY <1>7, <2>2, <3>1 DEF Left, ReadLast, n
    <3>3. k < j
      BY <1>1, <1>7, <2>4
    <3> QED
      BY <2>2, <3>2, <3>3
  <2> QED
    BY <1>2, <2>3, <2>4
<1> QED
  BY <1>4, <1>5, <1>6, <1>7 DEF r, n

LEMMA ReadGrows ==
  ASSUME NEW s, NEW id, NEW read \in Seq(Line), NEW l \in Line
  PROVE  /\ Left(s, id, read) => Left(s, id, Append(read, l))
         /\ Overtakes(s, read) => Overtakes(s, Append(read, l))
<1> DEFINE r == Append(read, l)
<1>1. \A k \in 1 .. Len(read) : k \in 1 .. Len(r) /\ r[k] = read[k]
  OBVIOUS
<1> HIDE DEF r
<1>2. Left(s, id, read) => Left(s, id, r)
  BY <1>1 DEF Left, ReadLast
<1>3. Overtakes(s, read) => Overtakes(s, r)
  BY <1>1 DEF Overtakes
<1> QED
  BY <1>2, <1>3 DEF r

LEMMA OvertakesPrefix ==
  ASSUME NEW s \in Seq(Line), NEW r \in Seq(Line), Len(r) <= Len(s),
         \A i \in 1 .. Len(r) : s[i] = r[i], NEW read, Overtakes(s, read)
  PROVE  Overtakes(r, read)
<1>1. \A i \in 1 .. Len(r) : i \in 1 .. Len(s)
  OBVIOUS
<1> QED
  BY <1>1 DEF Overtakes

(* A call goes on with what it has typed.                                  *)
Advances(c) ==
  Begun(call[c]) =>
    /\ Begun(call'[c]) /\ (call'[c].pc = "respond" => call[c].pc = "respond")
    /\ feeder'[c].pc # "off" =>
         \/ feeder[c].pc # "off" /\ feeder'[c].next >= feeder[c].next
         \/ call[c].pc = "respond" /\ feeder'[c].next = 2

LEMMA TypedKept ==
  ASSUME TerminalTypeOK, TerminalTypeOK', TypedInv, NEW l \in Line,
         \A c \in ToolCalls : Advances(c) /\ (l.by = c => Fits(call'[c], feeder'[c], l)),
         \A t \in Terminals : \A i \in 1 .. Len(Stream(t)') :
           \/ Stream(t)'[i] = l
           \/ \E k \in 1 .. Len(Stream(t)) : Stream(t)'[i] = Stream(t)[k]
  PROVE  TypedInv'
<1>1. SUFFICES ASSUME NEW c \in ToolCalls, NEW t \in Terminals,
                      NEW i \in 1 .. Len(Stream(t)'), Stream(t)'[i].by = c
               PROVE  Fits(call'[c], feeder'[c], Stream(t)'[i])
  BY DEF TypedInv, Typed1
<1>2. CASE Stream(t)'[i] = l
  BY <1>1, <1>2 DEF Fits, Begun
<1>3. CASE \E k \in 1 .. Len(Stream(t)) : Stream(t)'[i] = Stream(t)[k]
  <2>1. PICK k \in 1 .. Len(Stream(t)) : Stream(t)'[i] = Stream(t)[k]
    BY <1>3
  <2>2. Fits(call[c], feeder[c], Stream(t)[k]) /\ Stream(t)[k].n \in Nat
    BY <1>1, <2>1, StreamTypes DEF TypedInv, Typed1, TerminalTypeOK
  <2>3. feeder[c].next \in Nat /\ feeder'[c].next \in Nat
    BY DEF TerminalTypeOK, TypeOKManager, FeederState
  <2> QED
    BY <1>1, <2>1, <2>2, <2>3 DEF Advances, Fits, Begun
<1> QED
  BY <1>1, <1>2, <1>3

LEMMA StreamsSame ==
  ASSUME TerminalTypeOK, NEW t \in Terminals, Streams(t),
         script'[t] = script[t], input'[t] = input[t],
         out'[t].run.id = out[t].run.id, shell'[t].st # "ended" => shell[t].st # "ended",
         t \notin disturbed' => t \notin disturbed
  PROVE  /\ Streams(t)'
         /\ \A i \in 1 .. Len(Stream(t)') : \E k \in 1 .. Len(Stream(t)) :
              Stream(t)'[i] = Stream(t)[k]
<1>1. Stream(t)' = Stream(t)
  BY DEF Stream
<1> QED
  BY <1>1 DEF Streams

(* A line is written to a terminal, and lost if the shell ended.           *)
LEMMA StreamsWrites ==
  ASSUME TerminalTypeOK, NEW t \in Terminals, Streams(t), NEW l \in Line, Typed(t, l),
         UNCHANGED <<shell, script>>, t \notin disturbed' => t \notin disturbed,
         l.by \in {out'[t].run.id, "user"}, Followed(Stream(t), out'[t].run.id),
         l.by # "user" =>
           \A i \in 1 .. Len(Stream(t)) : Stream(t)[i].by = l.by => Stream(t)[i].n < l.n,
         t \notin disturbed /\ shell[t].st # "ended"
           => Left(Stream(t), out'[t].run.id, script[t])
  PROVE  /\ Streams(t)'
         /\ \A i \in 1 .. Len(Stream(t)') :
              \/ Stream(t)'[i] = l
              \/ \E k \in 1 .. Len(Stream(t)) : Stream(t)'[i] = Stream(t)[k]
<1>1. /\ Stream(t) \in Seq(Line) /\ script[t] \in Seq(Line) /\ input[t] \in Seq(Line)
      /\ Len(script[t]) <= Len(Stream(t)) /\ input \in [Terminals -> Seq(Line)]
  BY StreamTypes DEF TerminalTypeOK, TypeOKShells
<1> DEFINE id == out'[t].run.id
<1>2. CASE shell[t].st = "ended"
  <2>1. Stream(t)' = Stream(t)
    BY <1>2 DEF Stream, Typed
  <2> QED
    BY <1>2, <2>1 DEF Streams
<1>3. CASE shell[t].st # "ended"
  <2>1. Stream(t)' = Append(Stream(t), l)
    <3>1. input'[t] = Append(input[t], l)
      BY <1>1, <1>3 DEF Typed
    <3>2. AddedLast(script[t], input[t], l, input'[t])
      BY <1>1, TypedLast
    <3> QED
      BY <3>1, <3>2 DEF Stream, AddedLast
  <2>2. Ordered(Append(Stream(t), l)) /\ Followed(Append(Stream(t), l), id)
    <3> DEFINE s == Stream(t)
    <3>1. /\ s \in Seq(Line) /\ Ordered(s) /\ Followed(s, id) /\ l.by \in {id, "user"}
          /\ l.by # "user" => \A i \in 1 .. Len(s) : s[i].by = l.by => s[i].n < l.n
      BY <1>1 DEF Streams
    <3> HIDE DEF s, id
    <3>2. Ordered(Append(s, l)) /\ Followed(Append(s, l), id)
      BY <3>1, AppendKeeps
    <3> QED
      BY <3>2 DEF s, id
  <2>3. t \notin disturbed =>
          /\ Left(Append(Stream(t), l), id, script[t])
          /\ Overtakes(Append(Stream(t), l), script[t])
    BY <1>1, <1>3, AppendKeeps DEF Streams
  <2>4. Streams(t)'
    BY <2>1, <2>2, <2>3 DEF Streams
  <2>5. \A i \in 1 .. Len(Append(Stream(t), l)) :
          \/ Append(Stream(t), l)[i] = l
          \/ \E k \in 1 .. Len(Stream(t)) : Append(Stream(t), l)[i] = Stream(t)[k]
    BY <1>1
  <2> QED
    BY <2>1, <2>4, <2>5
<1> QED
  BY <1>2, <1>3

LinesInv == TypedInv /\ StreamInv

(* A step that leaves the lines of every terminal.                         *)
LEMMA LinesKept ==
  ASSUME TerminalTypeOK, TerminalTypeOK', LinesInv,
         \A c \in ToolCalls : Advances(c),
         \A t \in Terminals : Streams(t)',
         \A t \in Terminals : \A i \in 1 .. Len(Stream(t)') :
           \E k \in 1 .. Len(Stream(t)) : Stream(t)'[i] = Stream(t)[k]
  PROVE  LinesInv'
<1>1. UserLine \in Line /\ \A c \in ToolCalls : UserLine.by # c
  BY LineTypes, TerminalAssumption DEF UserLine
<1>2. TypedInv'
  BY <1>1, TypedKept DEF LinesInv
<1> QED
  BY <1>2 DEF LinesInv, StreamInv

LEMMA LinesCallStep ==
  ASSUME TerminalTypeOK, TerminalTypeOK', LinesInv, NEW c \in ToolCalls,
         \/ ResolveTerminal(c) \/ Bind(c) \/ LookReady(c) \/ LookRun(c)
         \/ SubmitRefused(c) \/ TimesOut(c)
         \/ \E u \in Terminals : SpawnTerminal(c, u)
  PROVE  LinesInv'
<1>1. /\ UNCHANGED <<out, feeder, input, script, disturbed>>
      /\ \A t \in Terminals : shell'[t].st # "ended" => shell[t].st # "ended"
  BY DEF ResolveTerminal, Bind, LookReady, LookRun, SubmitRefused, TimesOut, SpawnTerminal,
     KeepOutput, shellVars, TerminalTypeOK, TypeOKShells
<1>2. /\ \A d \in ToolCalls : d # c => call'[d] = call[d]
      /\ UNCHANGED call \/ ~Begun(call[c]) \/ (call[c].pc = "run" /\ call'[c].pc = "done")
  <2>1. CASE ResolveTerminal(c) \/ \E u \in Terminals : SpawnTerminal(c, u)
    <3>1. PICK t \in Terminals : call' = [call EXCEPT ![c] = [pc |-> "bind", term |-> t]]
      BY <2>1 DEF ResolveTerminal, SpawnTerminal, TerminalTypeOK, TypeOKManager
    <3>2. call[c].pc = "idle"
      BY <2>1 DEF ResolveTerminal, SpawnTerminal, CallAt
    <3> QED
      BY <3>1, <3>2, BindTypes DEF Begun, TerminalTypeOK
  <2>2. CASE Bind(c) \/ LookReady(c) \/ LookRun(c) \/ SubmitRefused(c) \/ TimesOut(c)
    <3>1. /\ call[c].pc \in {"bind", "ready", "run", "submit"}
          /\ (\E l \in Waits : GoesOn(c, l)) \/ UNCHANGED call
          /\ call[c].pc = "run" => GoesOn(c, "done") \/ UNCHANGED call
      BY <2>2 DEF Bind, LookReady, AwaitReady, LookRun, SubmitRefused, TimesOut, CallAt, Waits
    <3>2. ASSUME NEW l \in Waits, GoesOn(c, l)
          PROVE  call'[c].pc = l /\ \A d \in ToolCalls : d # c => call'[d] = call[d]
      BY <3>1, <3>2, CallTypes DEF TerminalTypeOK
    <3>3. "done" \in Waits
      BY DEF Waits
    <3> QED
      BY <3>1, <3>2, <3>3 DEF Begun
  <2> QED
    BY <2>1, <2>2
<1>3. \A d \in ToolCalls : Advances(d)
  <2>1. ASSUME NEW d \in ToolCalls PROVE Advances(d)
    <3>1. feeder[d].next \in Nat /\ feeder'[d] = feeder[d]
      BY <1>1 DEF TerminalTypeOK, TypeOKManager, FeederState
    <3> QED
      BY <1>2, <3>1 DEF Advances, Begun
  <2> QED
    BY <2>1
<1>4. ASSUME NEW t \in Terminals
      PROVE  /\ Streams(t)'
             /\ \A i \in 1 .. Len(Stream(t)') : \E k \in 1 .. Len(Stream(t)) :
                  Stream(t)'[i] = Stream(t)[k]
  BY <1>1, StreamsSame DEF LinesInv, StreamInv
<1> QED
  BY <1>3, <1>4, LinesKept

LEMMA LinesSubmitStep ==
  ASSUME TerminalTypeOK, TerminalTypeOK', WakeInv, PlainInv, ToldInv, LinesInv,
         NEW c \in ToolCalls,
         SubmitFails(c) \/ Respond(c) \/ \E b \in BOOLEAN : Submit(c, b)
  PROVE  LinesInv'
<1>0. PICK t \in Terminals : t = On(c)
  BY CallOn DEF SubmitFails, Respond, Submit, CallAt, TerminalTypeOK
<1>1. /\ call[c].pc \in {"submit", "respond"} /\ feeder[c].pc = "off"
      /\ feeder \in [ToolCalls -> FeederState] /\ out \in [Terminals -> Output]
      /\ UNCHANGED <<shell, script, disturbed>>
      /\ input \in [Terminals -> Seq(Line)]
  BY DEF SubmitFails, Respond, Submit, CallAt, WakeInv, Sleepers, TerminalTypeOK,
     TypeOKManager, TypeOKShells, shellVars
<1>2. /\ \E l \in Waits : GoesOn(c, l)
      /\ Feed(c) \/ UNCHANGED feeder
  BY DEF SubmitFails, Respond, Submit, Waits
<1>3. /\ \A d \in ToolCalls : d # c => call'[d] = call[d]
      /\ \A l \in Waits : GoesOn(c, l) => call'[c].pc = l
  <2>1. ASSUME NEW l \in Waits, GoesOn(c, l)
        PROVE  /\ \A d \in ToolCalls : d # c => call'[d] = call[d]
               /\ call'[c].pc = l
    BY <1>0, <1>1, <2>1, CallTypes DEF TerminalTypeOK
  <2> QED
    BY <1>2, <2>1
<1>4. /\ \A d \in ToolCalls : d # c => feeder'[d] = feeder[d]
      /\ feeder'[c].pc # "off" => feeder'[c].next = 2
  BY <1>0, <1>1, <1>2 DEF Feed
<1>5. ASSUME NEW u \in Terminals, u # t
      PROVE  /\ Streams(u)'
             /\ \A i \in 1 .. Len(Stream(u)') : \E k \in 1 .. Len(Stream(u)) :
                  Stream(u)'[i] = Stream(u)[k]
  <2>1. out'[u] = out[u] /\ input'[u] = input[u]
    BY <1>0, <1>1, <1>5 DEF SubmitFails, Respond, Submit, Typed, shellVars
  <2> QED
    BY <1>1, <2>1, StreamsSame DEF LinesInv, StreamInv
<1>6. /\ Streams(t) /\ out[t] \in Output /\ OutOf(c) = out[t] /\ out[t].run \in RunState
      /\ Plain(t)
  BY <1>0, <1>1 DEF LinesInv, StreamInv, OutOf, On, Output, PlainInv
<1>7. CASE Respond(c)
  <2>1. /\ call[c].pc = "respond" /\ call'[c].pc = "done" /\ UNCHANGED input
        /\ out'[t] = out[t] \/ out'[t] = WithError(out[t])
    BY <1>0, <1>1, <1>3, <1>7 DEF Respond, CallAt, Waits, shellVars
  <2>2. out'[t].run.id = out[t].run.id
    BY <1>6, <2>1, RunKept DEF SameRun
  <2>3. \A d \in ToolCalls : Advances(d)
    <3>1. ASSUME NEW d \in ToolCalls, d # c PROVE Advances(d)
      <4>1. feeder[d].next \in Nat /\ feeder'[d] = feeder[d] /\ call'[d] = call[d]
        BY <1>1, <1>3, <1>4, <3>1 DEF FeederState
      <4> QED
        BY <4>1 DEF Advances
    <3>2. Advances(c)
      BY <1>4, <2>1 DEF Advances, Begun
    <3> QED
      BY <3>1, <3>2
  <2>4. /\ Streams(t)'
        /\ \A i \in 1 .. Len(Stream(t)') : \E k \in 1 .. Len(Stream(t)) :
             Stream(t)'[i] = Stream(t)[k]
    BY <1>1, <1>6, <2>1, <2>2, StreamsSame
  <2>5. \A u \in Terminals : u = t \/ u # t
    OBVIOUS
  <2> QED
    BY <1>5, <2>3, <2>4, <2>5, LinesKept
<1>8. CASE SubmitFails(c) \/ \E b \in BOOLEAN : Submit(c, b)
  <2> DEFINE q == Submitted(out[t], c)  l == [by |-> c, n |-> 1]
  <2>1. /\ MaySubmit(out[t]) /\ call[c].pc = "submit"
        /\ \/ out'[t] = q /\ Typed(t, l) /\ call'[c].pc \in {"run", "respond"}
           \/ /\ out'[t] = WithError(q) /\ UNCHANGED input /\ shell[t].st = "ended"
              /\ call'[c].pc = "done"
    BY <1>0, <1>1, <1>3, <1>6, <1>8 DEF SubmitFails, Submit, CallAt, shellVars, Waits
  <2>2. /\ q \in Output /\ q.run.id = c
        /\ out[t].run.completed /\ ~out[t].error
    <3>1. q \in Output
      BY <1>6, ChangedTypes
    <3>2. q.run.id = c
      BY <1>6 DEF Submitted, Output
    <3> QED
      BY <2>1, <3>1, <3>2 DEF MaySubmit
  <2>3. out'[t].run.id = c
    BY <2>1, <2>2, RunKept DEF SameRun
  <2>4. l \in Line /\ l.by = c /\ l.n = 1
    BY LineTypes
  <2> HIDE DEF q, l
  <2>5. \A i \in 1 .. Len(Stream(t)) : Stream(t)[i].by # c
    BY <1>0, <2>1 DEF LinesInv, TypedInv, Typed1, Fits, Begun
  <2>6. t \notin disturbed /\ shell[t].st # "ended" => Left(Stream(t), c, script[t])
    <3>1. SUFFICES ASSUME t \notin disturbed, shell[t].st # "ended",
                          NEW i \in 1 .. Len(Stream(t)), Stream(t)[i].by \notin {"user", c}
                   PROVE  ReadLast(Stream(t)[i].by, script[t])
      BY DEF Left
    <3>2. CASE Stream(t)[i].by = out[t].run.id
      <4>1. ~out[t].closed /\ Ended(out[t], script[t])
        BY <1>6, <3>1 DEF Plain, ToldInv, Told
      <4>2. Stream(t)[i] \in Line
        BY StreamTypes, ElementOfSeq DEF TerminalTypeOK
      <4>3. out[t].run.id # "none"
        BY <3>1, <3>2, <4>2, LineTypes, TerminalAssumption
      <4>4. ReadThen(out[t].run.id, out[t].run.exit, script[t])
        BY <2>2, <4>1, <4>3 DEF Ended
      <4> QED
        BY <3>2, <4>4 DEF ReadThen, ReadLast
    <3>3. CASE Stream(t)[i].by # out[t].run.id
      BY <1>6, <3>1, <3>3 DEF Streams, Left
    <3> QED
      BY <3>2, <3>3
  <2>7. Followed(Stream(t), c)
    BY <2>5 DEF Followed
  <2>8. /\ Streams(t)'
        /\ \A i \in 1 .. Len(Stream(t)') :
             \/ Stream(t)'[i] = l
             \/ \E k \in 1 .. Len(Stream(t)) : Stream(t)'[i] = Stream(t)[k]
    <3>1. Typed(t, l)
      BY <2>1 DEF Typed
    <3> QED
      BY <1>1, <1>6, <2>3, <2>4, <2>5, <2>6, <2>7, <3>1, StreamsWrites
  <2>9. \A d \in ToolCalls : Advances(d) /\ (l.by = d => Fits(call'[d], feeder'[d], l))
    <3>1. ASSUME NEW d \in ToolCalls, d # c PROVE Advances(d) /\ l.by # d
      <4>1. feeder[d].next \in Nat /\ feeder'[d] = feeder[d] /\ call'[d] = call[d]
        BY <1>1, <1>3, <1>4, <3>1 DEF FeederState
      <4> QED
        BY <2>4, <3>1, <4>1 DEF Advances
    <3>2. Advances(c) /\ Fits(call'[c], feeder'[c], l)
      BY <1>4, <2>1, <2>4 DEF Advances, Begun, Fits
    <3> QED
      BY <3>1, <3>2
  <2>10. TypedInv'
    <3>1. \A u \in Terminals : \A i \in 1 .. Len(Stream(u)') :
             \/ Stream(u)'[i] = l
             \/ \E k \in 1 .. Len(Stream(u)) : Stream(u)'[i] = Stream(u)[k]
      BY <1>5, <2>8
    <3> QED
      BY <2>4, <2>9, <3>1, TypedKept DEF LinesInv
  <2> QED
    BY <1>5, <2>8, <2>10 DEF LinesInv, StreamInv
<1> QED
  BY <1>7, <1>8


LEMMA LinesFeederStep ==
  ASSUME TerminalTypeOK, TerminalTypeOK', WakeInv, LinesInv, NEW c \in ToolCalls, FeederSteps(c)
  PROVE  LinesInv'
<1>0. PICK t \in Terminals : t = On(c)
  BY CallOn DEF FeederSteps, FeederLooks, FeederWrites, FeederFails, WakeInv, Sleepers,
     TerminalTypeOK
<1>1. /\ out \in [Terminals -> Output] /\ input \in [Terminals -> Seq(Line)]
      /\ feeder \in [ToolCalls -> FeederState]
      /\ feeder[c].pc # "off" /\ feeder[c].next \in 2 .. Lines[c] /\ Lines[c] \in Nat
      /\ call[c].pc \in {"run", "done"}
      /\ UNCHANGED <<call, shell, script, disturbed>>
  BY LineTypes DEF FeederSteps, FeederLooks, FeederWrites, FeederFails, WakeInv, Sleepers,
     TerminalTypeOK, TypeOKManager, TypeOKShells, shellVars
<1>2. /\ out[t] \in Output /\ out[t].run \in RunState /\ OutOf(c) = out[t] /\ Streams(t)
  BY <1>0, <1>1 DEF OutOf, On, Output, LinesInv, StreamInv
<1>3. ASSUME NEW u \in Terminals,
             u # t \/ FeederLooks(c) \/ (FeederWrites(c) /\ ~MayFeed(c)) \/ FeederFails(c)
      PROVE  /\ Streams(u)'
             /\ \A i \in 1 .. Len(Stream(u)') : \E k \in 1 .. Len(Stream(u)) :
                  Stream(u)'[i] = Stream(u)[k]
  <2>1. input'[u] = input[u]
    BY <1>0, <1>1, <1>3 DEF FeederSteps, FeederLooks, FeederWrites, FeederFails, Typed, shellVars
  <2>2. out'[u].run.id = out[u].run.id
    <3>1. CASE out'[u] = out[u]
      BY <3>1
    <3>2. CASE u = t /\ FeederFails(c)
      <4> DEFINE q == InputTaken(out[t], feeder[c].next = Lines[c])
      <4>1. q \in Output /\ q.run.id = out[t].run.id
        <5>1. q \in Output
          BY <1>2, ChangedTypes
        <5> QED
          BY <1>2, <5>1 DEF InputTaken, Output, RunState
      <4>2. out'[t] = WithError(q)
        BY <1>0, <1>1, <3>2 DEF FeederFails
      <4> HIDE DEF q
      <4>3. SameRun(q, WithError(q))
        BY <4>1, RunKept
      <4> QED
        BY <3>2, <4>1, <4>2, <4>3 DEF SameRun
    <3> QED
      BY <1>0, <1>1, <1>3, <3>1, <3>2
         DEF FeederSteps, FeederLooks, FeederWrites, FeederFails
  <2> QED
    BY <1>1, <2>1, <2>2, StreamsSame DEF LinesInv, StreamInv
<1>4. CASE FeederLooks(c) \/ (FeederWrites(c) /\ ~MayFeed(c)) \/ FeederFails(c)
  <2>1. /\ feeder'[c].next = feeder[c].next
        /\ \A d \in ToolCalls : d # c => feeder'[d] = feeder[d]
    <3>1. CASE UNCHANGED feeder
      BY <3>1
    <3>2. CASE \E l \in {"off", "look", "write"} : FeederGoes(c, l)
      BY <1>1, <3>2, FeederTypes DEF TerminalTypeOK
    <3> QED
      BY <1>4, <3>1, <3>2 DEF FeederLooks, FeederWrites, FeederFails
  <2>2. ASSUME NEW d \in ToolCalls PROVE Advances(d)
    <3>1. feeder[d].next \in Nat /\ call'[d] = call[d]
      BY <1>1 DEF FeederState
    <3> QED
      BY <1>1, <2>1, <3>1 DEF Advances, Begun
  <2> QED
    BY <1>3, <1>4, <2>2, LinesKept
<1>5. CASE FeederWrites(c) /\ MayFeed(c)
  <2> DEFINE l == [by |-> c, n |-> feeder[c].next]
             q == InputTaken(out[t], feeder[c].next = Lines[c])
  <2>1. /\ out'[t] = q /\ Typed(t, l) /\ out[t].run.id = c
        /\ feeder' = [feeder EXCEPT ![c] =
                        IF feeder[c].next = Lines[c]
                          THEN [pc |-> "off", next |-> feeder[c].next]
                          ELSE [pc |-> "look", next |-> feeder[c].next + 1]]
    BY <1>0, <1>1, <1>2, <1>5 DEF FeederWrites, MayFeed, AcceptsInput
  <2>2. q.run.id = c
    BY <1>2, <2>1 DEF InputTaken, Output, RunState
  <2>3. l \in Line /\ l.by = c /\ l.n = feeder[c].next /\ l.by # "user"
    BY <1>1, LineTypes, TerminalAssumption
  <2> HIDE DEF q, l
  <2>4. \A i \in 1 .. Len(Stream(t)) : Stream(t)[i].by = l.by => Stream(t)[i].n < l.n
    BY <1>1, <2>3 DEF LinesInv, TypedInv, Typed1, Fits
  <2>5. /\ Followed(Stream(t), c)
        /\ t \notin disturbed /\ shell[t].st # "ended" => Left(Stream(t), c, script[t])
    BY <1>2, <2>1 DEF Streams
  <2>6. /\ Streams(t)'
        /\ \A i \in 1 .. Len(Stream(t)') :
             \/ Stream(t)'[i] = l
             \/ \E k \in 1 .. Len(Stream(t)) : Stream(t)'[i] = Stream(t)[k]
    BY <1>1, <1>2, <2>1, <2>2, <2>3, <2>4, <2>5, StreamsWrites
  <2>7. /\ feeder'[c].pc # "off" => feeder'[c].next = feeder[c].next + 1
        /\ \A d \in ToolCalls : d # c => feeder'[d] = feeder[d]
    BY <1>1, <2>1
  <2>8. \A d \in ToolCalls : Advances(d) /\ (l.by = d => Fits(call'[d], feeder'[d], l))
    <3>1. ASSUME NEW d \in ToolCalls, d # c PROVE Advances(d) /\ l.by # d
      <4>1. feeder[d].next \in Nat /\ feeder'[d] = feeder[d] /\ call'[d] = call[d]
        BY <1>1, <2>7, <3>1 DEF FeederState
      <4> QED
        BY <2>3, <3>1, <4>1 DEF Advances
    <3>2. Advances(c) /\ Fits(call'[c], feeder'[c], l)
      BY <1>1, <2>3, <2>7 DEF Advances, Begun, Fits
    <3> QED
      BY <3>1, <3>2
  <2>9. TypedInv'
    <3>1. \A u \in Terminals : \A i \in 1 .. Len(Stream(u)') :
             \/ Stream(u)'[i] = l
             \/ \E k \in 1 .. Len(Stream(u)) : Stream(u)'[i] = Stream(u)[k]
      BY <1>3, <2>6
    <3> QED
      BY <2>3, <2>8, <3>1, TypedKept DEF LinesInv
  <2> QED
    BY <1>3, <2>6, <2>9 DEF LinesInv, StreamInv
<1> QED
  BY <1>4, <1>5 DEF FeederSteps

(* Lines are lost: a command read them, or the shell ended.                *)
LEMMA StreamsFewer ==
  ASSUME TerminalTypeOK, TerminalTypeOK', NEW t \in Terminals, Streams(t),
         script'[t] = script[t], out'[t].run.id = out[t].run.id,
         Within(Stream(t)', Stream(t)),
         t \notin disturbed' =>
           /\ t \notin disturbed
           /\ \/ Stream(t)' = Stream(t) /\ shell'[t] = shell[t]
              \/ Stream(t)' = script[t] /\ shell'[t].st = "ended"
  PROVE  /\ Streams(t)'
         /\ \A i \in 1 .. Len(Stream(t)') : \E k \in 1 .. Len(Stream(t)) :
              Stream(t)'[i] = Stream(t)[k]
<1> DEFINE r == Stream(t)'  s == Stream(t)  id == out[t].run.id
<1>1. /\ s \in Seq(Line) /\ Len(s) \in Nat /\ script[t] \in Seq(Line)
      /\ Len(script[t]) <= Len(s) /\ \A i \in 1 .. Len(script[t]) : s[i] = script[t][i]
  <2>1. /\ Stream(t) \in Seq(Line) /\ script[t] \in Seq(Line)
        /\ Len(script[t]) \in Nat /\ Len(input[t]) \in Nat
        /\ Len(Stream(t)) = Len(script[t]) + Len(input[t])
        /\ \A i \in 1 .. Len(script[t]) : Stream(t)[i] = script[t][i]
    BY StreamTypes DEF TerminalTypeOK
  <2>2. \A a, b \in Nat : \A c : c = a + b => c \in Nat /\ a <= c
    OBVIOUS
  <2>3. Len(Stream(t)) \in Nat /\ Len(script[t]) <= Len(Stream(t))
    BY ONLY <2>1, <2>2, Zenon
  <2> QED
    BY <2>1, <2>3
<1>2. r \in Seq(Line) /\ Len(r) \in Nat
  <2>1. script'[t] \in Seq(Line) /\ input'[t] \in Seq(Line)
    BY DEF TerminalTypeOK, TypeOKShells
  <2>2. r = script'[t] \o input'[t]
    BY DEF Stream
  <2> HIDE DEF r
  <2> QED
    BY <2>1, <2>2, Joined
<1>3. Within(r, s)
  OBVIOUS
<1>4. /\ Ordered(s) /\ Followed(s, id)
      /\ t \notin disturbed =>
           /\ shell[t].st # "ended" => Left(s, id, script[t])
           /\ Overtakes(s, script[t])
  BY DEF Streams
<1>5. t \notin disturbed' =>
        /\ t \notin disturbed
        /\ \/ r = s /\ shell'[t] = shell[t]
           \/ r = script[t] /\ shell'[t].st = "ended"
  OBVIOUS
<1>6. ASSUME Ordered(r), Followed(r, id),
             t \notin disturbed' =>
               /\ shell'[t].st # "ended" => Left(r, id, script[t])
               /\ Overtakes(r, script[t])
      PROVE  Streams(t)'
  BY <1>6 DEF Streams
<1> HIDE DEF r, s, id
<1>7. /\ Ordered(r) /\ Followed(r, id)
      /\ \A i \in 1 .. Len(r) : \E k \in 1 .. Len(s) : r[i] = s[k]
  BY <1>1, <1>2, <1>3, <1>4, WithinKeeps
<1>8. Overtakes(s, script[t]) => Overtakes(script[t], script[t])
  BY <1>1, OvertakesPrefix
<1>9. Streams(t)'
  BY <1>4, <1>5, <1>6, <1>7, <1>8
<1> QED
  BY <1>7, <1>9 DEF r, s

LEMMA LinesReaderStep ==
  ASSUME TerminalTypeOK, NEW t \in Terminals, Streams(t), ReaderSteps(t)
  PROVE  /\ Streams(t)'
         /\ \A i \in 1 .. Len(Stream(t)') : \E k \in 1 .. Len(Stream(t)) :
              Stream(t)'[i] = Stream(t)[k]
<1>1. /\ out[t] \in Output /\ markers[t] \in Seq(Marker)
      /\ out \in [Terminals -> Output]
      /\ UNCHANGED <<shell, input, script, disturbed>>
  BY DEF TerminalTypeOK, TypeOKManager, TypeOKShells, ReaderSteps, ProcessOutput,
     CloseTerminalOutput, shellVars
<1>2. out'[t].run.id = out[t].run.id
  <2>1. CASE ProcessOutput(t)
    <3>1. markers[t] # <<>> /\ out'[t] = Processed(out[t], Head(markers[t]))
      BY <1>1, <2>1 DEF ProcessOutput
    <3>2. Head(markers[t]) \in Marker
      BY <1>1, <3>1
    <3> QED
      BY <1>1, <3>1, <3>2, RunKept DEF SameRun
  <2>2. CASE CloseTerminalOutput(t)
    <3>1. out'[t] = Closed(out[t])
      BY <1>1, <2>2 DEF CloseTerminalOutput
    <3> QED
      BY <1>1, <3>1, RunKept DEF SameRun
  <2> QED
    BY <2>1, <2>2 DEF ReaderSteps
<1> QED
  BY <1>1, <1>2, StreamsSame

LEMMA LinesShellStep ==
  ASSUME TerminalTypeOK, TerminalTypeOK', NEW t \in Terminals, Streams(t),
         t \notin disturbed => Told(t),
         ShellSteps(t) \/ CommandReads(t) \/ ShellExits(t)
  PROVE  /\ Streams(t)'
         /\ \A i \in 1 .. Len(Stream(t)') : \E k \in 1 .. Len(Stream(t)) :
              Stream(t)'[i] = Stream(t)[k]
<1>1. /\ input[t] \in Seq(Line) /\ script[t] \in Seq(Line) /\ shell[t] \in ShellState
      /\ shell \in [Terminals -> ShellState] /\ input \in [Terminals -> Seq(Line)]
      /\ script \in [Terminals -> Seq(Line)]
      /\ UNCHANGED <<out, disturbed>>
  BY DEF TerminalTypeOK, TypeOKShells, ShellSteps, ShellStarts, ShellReads, ShellFinishes,
     CommandReads, ShellExits, managerVars
<1>2. CASE ShellStarts(t) \/ ShellFinishes(t)
  <2>1. UNCHANGED <<input, script>> /\ shell[t].st # "ended"
    BY <1>2 DEF ShellStarts, ShellFinishes
  <2> QED
    BY <1>1, <2>1, StreamsSame
<1>3. CASE ShellReads(t)
  <2>1. /\ shell[t].st # "ended" /\ input[t] # <<>>
        /\ input'[t] = Tail(input[t]) /\ script'[t] = Append(script[t], Head(input[t]))
    BY <1>1, <1>3 DEF ShellReads, Listens
  <2>2. Stream(t)' = Stream(t)
    <3>1. Append(script[t], Head(input[t])) \o Tail(input[t]) = script[t] \o input[t]
      BY <1>1, <2>1, ReadMoves
    <3> QED
      BY <2>1, <3>1 DEF Stream
  <2>3. Head(input[t]) \in Line
    BY <1>1, <2>1
  <2>4. t \notin disturbed =>
          /\ Left(Stream(t), out[t].run.id, script'[t]) /\ Overtakes(Stream(t), script'[t])
    BY <1>1, <2>1, <2>3, ReadGrows DEF Streams
  <2>5. Streams(t)'
    BY <1>1, <2>2, <2>4 DEF Streams
  <2> QED
    BY <2>2, <2>5
<1>4. CASE CommandReads(t)
  <2>1. /\ shell[t].st = "running" /\ input[t] # <<>>
        /\ input'[t] = Tail(input[t]) /\ UNCHANGED script
    BY <1>1, <1>4 DEF CommandReads
  <2>2. t \in disturbed
    BY <2>1 DEF Told, InStep
  <2>3. Within(Stream(t)', Stream(t))
    <3>1. Within(script[t] \o Tail(input[t]), script[t] \o input[t])
      BY <1>1, <2>1, OneLess
    <3> QED
      BY <2>1, <3>1 DEF Stream
  <2> QED
    BY <1>1, <2>1, <2>2, <2>3, StreamsFewer
<1>5. CASE ShellExits(t)
  <2>1. input'[t] = <<>> /\ UNCHANGED script /\ shell'[t].st = "ended"
    BY <1>1, <1>5 DEF ShellExits
  <2>2. Within(Stream(t)', Stream(t)) /\ Stream(t)' = script[t]
    <3>1. Within(script[t] \o <<>>, script[t] \o input[t]) /\ script[t] \o <<>> = script[t]
      BY <1>1, NoMore
    <3> QED
      BY <2>1, <3>1 DEF Stream
  <2> QED
    BY <1>1, <2>1, <2>2, StreamsFewer
<1> QED
  BY <1>2, <1>3, <1>4, <1>5 DEF ShellSteps

LEMMA LinesUserStep ==
  ASSUME TerminalTypeOK, TerminalTypeOK', NEW t \in Terminals, Streams(t),
         t \notin disturbed => Told(t),
         TypeLine(t) \/ Interrupt(t) \/ Redraw(t) \/ KillTerminal(t)
  PROVE  /\ Streams(t)'
         /\ \A i \in 1 .. Len(Stream(t)') :
              \/ Stream(t)'[i] = UserLine
              \/ \E k \in 1 .. Len(Stream(t)) : Stream(t)'[i] = Stream(t)[k]
<1>1. /\ input[t] \in Seq(Line) /\ script[t] \in Seq(Line) /\ shell[t] \in ShellState
      /\ shell \in [Terminals -> ShellState] /\ input \in [Terminals -> Seq(Line)]
      /\ out \in [Terminals -> Output] /\ out[t] \in Output /\ UNCHANGED script
      /\ t \notin disturbed' => t \notin disturbed
  BY DEF TerminalTypeOK, TypeOKManager, TypeOKShells, TypeLine, Interrupt, Redraw, KillTerminal,
     shellVars
<1>2. CASE TypeLine(t)
  <2> DEFINE q == [out[t] EXCEPT !.atPrompt = FALSE, !.inputPrompt = "none"]
  <2>1. out'[t] = q /\ Typed(t, UserLine) /\ UNCHANGED <<shell, script>>
    BY <1>1, <1>2 DEF TypeLine
  <2>2. q.run.id = out[t].run.id
    BY <1>1 DEF Output
  <2> HIDE DEF q
  <2>3. UserLine \in Line /\ UserLine.by = "user"
    BY LineTypes DEF UserLine
  <2> QED
    BY <1>1, <2>1, <2>2, <2>3, StreamsWrites DEF Streams
<1>3. CASE Interrupt(t)
  <2>1. /\ input'[t] = <<>> /\ UNCHANGED <<out, script>>
        /\ t \notin disturbed' => input[t] = <<>> /\ UNCHANGED shell
    BY <1>1, <1>3 DEF Interrupt, managerVars
  <2>2. Within(Stream(t)', Stream(t)) /\ (input[t] = <<>> => Stream(t)' = Stream(t))
    <3>1. Within(script[t] \o <<>>, script[t] \o input[t])
      BY <1>1, NoMore
    <3> QED
      BY <2>1, <3>1 DEF Stream
  <2> QED
    BY <1>1, <2>1, <2>2, StreamsFewer
<1>4. CASE Redraw(t) \/ KillTerminal(t)
  <2>1. UNCHANGED <<out, shell, input, script>>
    BY <1>4 DEF Redraw, KillTerminal, managerVars, shellVars
  <2> QED
    BY <1>1, <2>1, StreamsSame
<1> QED
  BY <1>2, <1>3, <1>4

(* The steps beside the calls type no line of a command.                   *)
LEMMA LinesOtherStep ==
  ASSUME TerminalTypeOK, TerminalTypeOK', ToldInv, LinesInv, NEW u \in Terminals,
         \/ ReaderSteps(u) \/ ShellSteps(u) \/ CommandReads(u) \/ ShellExits(u)
         \/ TypeLine(u) \/ Interrupt(u) \/ Redraw(u) \/ KillTerminal(u)
  PROVE  LinesInv'
<1>1. UNCHANGED <<call, feeder>>
  BY DEF ReaderSteps, ProcessOutput, CloseTerminalOutput, ShellSteps, ShellStarts, ShellReads,
     ShellFinishes, CommandReads, ShellExits, TypeLine, Interrupt, Redraw, KillTerminal,
     managerVars, shellVars
<1>2. disturbed \subseteq disturbed'
  BY DEF ReaderSteps, ProcessOutput, CloseTerminalOutput, ShellSteps, ShellStarts, ShellReads,
     ShellFinishes, CommandReads, ShellExits, TypeLine, Interrupt, Redraw, KillTerminal,
     shellVars
<1>3. ASSUME NEW t \in Terminals
      PROVE  /\ Streams(t)'
             /\ \A i \in 1 .. Len(Stream(t)') :
                  \/ Stream(t)'[i] = UserLine
                  \/ \E k \in 1 .. Len(Stream(t)) : Stream(t)'[i] = Stream(t)[k]
  <2>1. Streams(t) /\ (t \notin disturbed => Told(t))
    BY DEF LinesInv, StreamInv, ToldInv
  <2>2. CASE t = u
    BY <2>1, <2>2, LinesReaderStep, LinesShellStep, LinesUserStep
  <2>3. CASE t # u
    <3>1. /\ out'[t] = out[t] /\ shell'[t] = shell[t] /\ input'[t] = input[t]
          /\ script'[t] = script[t] /\ (t \notin disturbed' => t \notin disturbed)
      BY <1>2, <2>3, OthersSame
    <3> QED
      BY <2>1, <3>1, StreamsSame
  <2> QED
    BY <2>2, <2>3
<1>4. UserLine \in Line /\ \A c \in ToolCalls : UserLine.by # c
  BY LineTypes, TerminalAssumption DEF UserLine
<1>5. ASSUME NEW c \in ToolCalls PROVE Advances(c)
  <2>1. feeder[c].next \in Nat
    BY DEF TerminalTypeOK, TypeOKManager, FeederState
  <2> QED
    BY <1>1, <2>1 DEF Advances
<1>6. TypedInv'
  BY <1>3, <1>4, <1>5, TypedKept DEF LinesInv
<1> QED
  BY <1>3, <1>6 DEF LinesInv, StreamInv

LEMMA LinesStep ==
  ASSUME TerminalTypeOK, TerminalTypeOK', WakeInv, PlainInv, ToldInv, LinesInv,
         [NextTerminals]_terminalVars
  PROVE  LinesInv'
<1>1. CASE UNCHANGED terminalVars
  BY <1>1 DEF terminalVars, managerVars, shellVars, LinesInv, TypedInv, Typed1, StreamInv,
     Streams, Stream
<1>2. CASE NextTerminals
  <2>1. CASE \E c \in ToolCalls : CallSteps(c) \/ FeederSteps(c) \/ TimesOut(c)
    BY <2>1, LinesCallStep, LinesSubmitStep, LinesFeederStep DEF CallSteps
  <2>2. CASE \E c \in ToolCalls, t \in Terminals : SpawnTerminal(c, t)
    BY <2>2, LinesCallStep
  <2>3. CASE \E t \in Terminals :
               \/ ReaderSteps(t) \/ ShellSteps(t) \/ CommandReads(t) \/ ShellExits(t)
               \/ TypeLine(t) \/ Interrupt(t) \/ Redraw(t) \/ KillTerminal(t)
    BY <2>3, LinesOtherStep
  <2> QED
    BY <1>2, <2>1, <2>2, <2>3 DEF NextTerminals
<1> QED
  BY <1>1, <1>2

-----------------------------------------------------------------------------
(* The invariant holds. *)

LEMMA TerminalInvInit == InitTerminals => TerminalInv
<1> SUFFICES ASSUME InitTerminals PROVE TerminalInv
  OBVIOUS
<1>1. TerminalTypeOK
  BY NewTypes, LineTypes, TerminalAssumption
     DEF InitTerminals, TerminalTypeOK, TypeOKManager, TypeOKShells, CallState, FeederState,
         ShellState
<1>2. WakeInv
  BY DEF InitTerminals, WakeInv, Sleepers, NoLostWakeup
<1>3. ASSUME NEW t \in Terminals
      PROVE  /\ shell[t].st = "off" /\ out[t] = NewOutput /\ markers[t] = <<>>
             /\ input[t] = <<>> /\ script[t] = <<>> /\ t \notin known
             /\ \A c \in ToolCalls : On(c) # t
  BY TerminalAssumption DEF InitTerminals, On
<1>4. /\ ~NewOutput.atPrompt /\ NewOutput.inputPrompt = "none" /\ ~NewOutput.closed
      /\ NewOutput.run.completed /\ NewOutput.run.id = "none"
  BY DEF NewOutput, NoRun
<1>5. PlainInv
  <2>1. Shape(NewOutput)
    BY <1>4 DEF Shape
  <2>2. ASSUME NEW t \in Terminals PROVE Plain(t) /\ Owned(t)
    BY <1>3, <1>4, <2>1 DEF Plain, Unspawned, Owned
  <2> QED
    BY <2>2 DEF PlainInv
<1>6. ToldInv
  <2>1. ASSUME NEW t \in Terminals PROVE Told(t)
    BY <1>3, ToldNew DEF Told
  <2> QED
    BY <2>1 DEF ToldInv
<1>7. ASSUME NEW t \in Terminals PROVE Stream(t) = <<>> /\ Len(Stream(t)) = 0
  <2>1. <<>> \o <<>> = <<>> /\ Len(<<>>) = 0
    OBVIOUS
  <2> QED
    BY <1>3, <2>1 DEF Stream
<1>8. TypedInv
  BY <1>7 DEF TypedInv, Typed1
<1>9. StreamInv
  <2>1. ASSUME NEW t \in Terminals PROVE Streams(t)
    BY <1>7 DEF Streams, Ordered, Followed, Left, Overtakes
  <2> QED
    BY <2>1 DEF StreamInv
<1> QED
  BY <1>1, <1>2, <1>5, <1>6, <1>8, <1>9 DEF TerminalInv

LEMMA TerminalInvariant == TerminalSpec => []TerminalInv
<1>1. TerminalInv /\ [NextTerminals]_terminalVars => TerminalInv'
  BY TypesStep, WakeStep, PlainStep, ToldStep, LinesStep DEF TerminalInv, WakeInv, LinesInv
<1> QED
  BY TerminalInvInit, <1>1, PTL DEF TerminalSpec

(* Every variable of the calls, of TerminalOutput and of the shells keeps  *)
(* its type, and a feeder stays within the lines of its command.           *)
THEOREM TerminalTypes == TerminalSpec => []TerminalTypeOK
<1>1. TerminalInv => TerminalTypeOK
  BY DEF TerminalInv
<1> QED
  BY <1>1, TerminalInvariant, PTL

(* output_notify loses nobody: however the reader, the calls and the       *)
(* feeders overlap, no call sleeps in wait_for_terminal_ready or           *)
(* wait_for_run, and no feeder in write_command, through what it waits     *)
(* for.                                                                    *)
THEOREM WakeupsAreNotLost == TerminalSpec => []NoLostWakeup
<1>1. TerminalInv => NoLostWakeup
  BY DEF TerminalInv, WakeInv
<1> QED
  BY <1>1, TerminalInvariant, PTL

(* A run that process_output_item completes at a primary prompt was read   *)
(* by the shell to its last line, and its exit status is of that line or   *)
(* of one the user typed after it.                                         *)
THEOREM CompletedRunsRan == TerminalSpec => []CompletedHasRun
<1>1. ASSUME TerminalInv PROVE CompletedHasRun
  <2>1. SUFFICES ASSUME NEW t \in Terminals, out[t].run.id # "none", out[t].run.completed,
                        ~out[t].error, t \notin disturbed,
                        ~(out[t].closed /\ out[t].run.exit = NoLine)
                 PROVE  \E i, j \in DOMAIN script[t] :
                          /\ script[t][i] = [by |-> out[t].run.id, n |-> Lines[out[t].run.id]]
                          /\ script[t][j] = out[t].run.exit /\ i <= j
    BY DEF CompletedHasRun
  <2>2. ReadThen(out[t].run.id, out[t].run.exit, script[t])
    BY <1>1, <2>1 DEF TerminalInv, ToldInv, Told, Ended
  <2>3. script[t] \in Seq(Line)
    BY <1>1 DEF TerminalInv, TerminalTypeOK, TypeOKShells
  <2>4. DOMAIN script[t] = 1 .. Len(script[t])
    BY <2>3
  <2> QED
    BY <2>2, <2>4 DEF ReadThen, LastLine
<1> QED
  BY <1>1, TerminalInvariant, PTL

(* terminal_running: a terminal that is reported idle has nothing left to  *)
(* read, to run or to process but redrawn prompts.                         *)
THEOREM IdleTerminalsAreIdle == TerminalSpec => []IdleIsIdle
<1>1. ASSUME TerminalInv PROVE IdleIsIdle
  <2>1. SUFFICES ASSUME NEW t \in Terminals, ~TerminalRunning(out[t]), ~out[t].closed,
                        t \notin disturbed
                 PROVE  /\ input[t] = <<>> /\ shell[t].st \in {"reading", "ended"}
                        /\ \A i \in DOMAIN markers[t] : markers[t][i].mark = "primary"
    BY DEF IdleIsIdle
  <2>2. out[t].inputPrompt = "primary"
    BY <1>1, <2>1 DEF TerminalInv, TerminalRunning, PlainInv, Plain, Shape
  <2>3. Prompted(out[t], markers[t], shell[t].st, input[t])
    BY <1>1, <2>1, <2>2 DEF TerminalInv, ToldInv, Told, InStep
  <2>4. markers[t] \in Seq(Marker)
    BY <1>1 DEF TerminalInv, TerminalTypeOK, TypeOKShells
  <2>5. DOMAIN markers[t] = 1 .. Len(markers[t])
    BY <2>4
  <2> QED
    BY <2>2, <2>3, <2>5 DEF Prompted
<1> QED
  BY <1>1, TerminalInvariant, PTL

(* write_command and process_output_item: a run is never left to a shell   *)
(* that waits for its next line while nobody has it to write.              *)
THEOREM RunsAreNotStranded == TerminalSpec => []RunNotStranded
<1>1. ASSUME TerminalInv PROVE RunNotStranded
  <2>1. SUFFICES ASSUME NEW t \in Terminals, Quiet(t), ~out[t].error, t \notin disturbed,
                        ~out[t].run.completed
                 PROVE  LeftOpen(t)
    BY DEF RunNotStranded
  <2> DEFINE o == out[t]  c == out[t].run.id
  <2>2. /\ shell[t].st \in {"reading", "continued"} /\ input[t] = <<>> /\ markers[t] = <<>>
        /\ InStep(o, <<>>, shell[t].st, <<>>) /\ Shape(o) /\ ~o.closed /\ Owned(t)
    BY <1>1, <2>1 DEF Quiet, Listens, TerminalInv, ToldInv, Told, PlainInv, Plain
  <2>3. o \in Output /\ o.run \in RunState
    BY <1>1 DEF TerminalInv, TerminalTypeOK, TypeOKManager, Output
  <2>4. c \in ToolCalls /\ On(c) = t /\ OutOf(c) = o
    BY <2>1, <2>2, <2>3 DEF Shape, Owned, RunState, OutOf, On
  <2>5. Fresh(<<>>) = {} /\ ~Has(<<>>, "finished") /\ ~Has(<<>>, "continuation")
    BY DEF Fresh, Has
  <2>6. ~o.pending
    BY <2>1, <2>2, <2>5 DEF InStep, Pending
  <2>7. o.inputPrompt # "none"
    BY <2>2, <2>5, <2>6 DEF InStep
  <2>8. o.run.inputComplete
    <3>1. SUFFICES ASSUME ~o.run.inputComplete PROVE FALSE
      OBVIOUS
    <3>2. call[c].pc = "respond" \/ feeder[c].pc # "off"
      BY <2>1, <2>2, <2>4, <3>1, TerminalAssumption DEF Owned
    <3>3. c \in dozing
      BY <2>1, <2>4, <3>2 DEF Quiet
    <3> QED
      BY <1>1, <2>4, <2>7, <3>3 DEF TerminalInv, WakeInv, NoLostWakeup
  <2>9. shell[t].st # "reading"
    <3>1. SUFFICES ASSUME shell[t].st = "reading" PROVE FALSE
      OBVIOUS
    <3>2. o.inputPrompt = "primary"
      BY <2>2, <2>3, <2>7, <3>1 DEF InStep, Prompted, Output
    <3> QED
      BY <2>1, <2>2, <2>8, <3>2 DEF Shape
  <2> QED
    BY <2>2, <2>8, <2>9 DEF LeftOpen
<1> QED
  BY <1>1, TerminalInvariant, PTL

(* write_command and its feeder: the shell reads the lines of a command in *)
(* order, and a command only after the last line of the one before; lines  *)
(* of a command do not come back once another one was read.                *)
THEOREM LinesAreInOrder == TerminalSpec => []LinesInOrder
<1>1. ASSUME TerminalInv PROVE LinesInOrder
  <2>1. ASSUME NEW t \in Terminals, NEW i \in 1 .. Len(script[t]), NEW j \in 1 .. Len(script[t]),
               i < j, script[t][i].by # "user"
        PROVE  IF script[t][i].by = script[t][j].by
                 THEN /\ script[t][i].n < script[t][j].n
                      /\ \A k \in i .. j : script[t][k].by \in {script[t][i].by, "user"}
                 ELSE script[t][j].by # "user" /\ t \notin disturbed =>
                        \E k \in 1 .. j - 1 : script[t][k] = LastLine(script[t][i].by)
    <3>1. Streams(t) /\ script[t] \in Seq(Line) /\ Len(script[t]) \in Nat
      BY <1>1, StreamTypes DEF TerminalInv, StreamInv, TerminalTypeOK
    <3>2. \A k \in 1 .. Len(script[t]) :
            k \in 1 .. Len(Stream(t)) /\ Stream(t)[k] = script[t][k]
      <4>1. /\ Len(Stream(t)) = Len(script[t]) + Len(input[t]) /\ Len(input[t]) \in Nat
            /\ \A k \in 1 .. Len(script[t]) : Stream(t)[k] = script[t][k]
        BY <1>1, StreamTypes DEF TerminalInv, TerminalTypeOK
      <4>2. \A a, b \in Nat : \A d : d = a + b => \A k \in 1 .. a : k \in 1 .. d
        OBVIOUS
      <4>3. \A k \in 1 .. Len(script[t]) : k \in 1 .. Len(Stream(t))
        BY ONLY <3>1, <4>1, <4>2, Zenon
      <4> QED
        BY <4>1, <4>3
    <3>3. CASE script[t][i].by = script[t][j].by
      <4>1. /\ Stream(t)[i].n < Stream(t)[j].n
            /\ \A k \in i .. j : Stream(t)[k].by \in {Stream(t)[i].by, "user"}
        BY <2>1, <3>1, <3>2, <3>3 DEF Streams, Ordered
      <4>2. \A k \in i .. j : k \in 1 .. Len(script[t])
        BY <3>1
      <4> QED
        BY <3>2, <3>3, <4>1, <4>2
    <3>4. CASE script[t][i].by # script[t][j].by
      <4>1. SUFFICES ASSUME script[t][j].by # "user", t \notin disturbed
                     PROVE  \E k \in 1 .. j - 1 : script[t][k] = LastLine(script[t][i].by)
        BY <3>4
      <4>2. PICK k \in 1 .. Len(script[t]) : k < j /\ script[t][k] = LastLine(Stream(t)[i].by)
        BY <2>1, <3>1, <3>2, <3>4, <4>1 DEF Streams, Overtakes
      <4>3. k \in 1 .. j - 1
        BY <3>1, <4>2
      <4> QED
        BY <3>2, <4>2, <4>3
    <3> QED
      BY <3>3, <3>4
  <2>2. \A t \in Terminals : DOMAIN script[t] = 1 .. Len(script[t])
    BY <1>1 DEF TerminalInv, TerminalTypeOK, TypeOKShells
  <2>3. SUFFICES ASSUME NEW t \in Terminals, NEW i \in DOMAIN script[t],
                        NEW j \in DOMAIN script[t], i < j, script[t][i].by # "user"
                 PROVE  IF script[t][i].by = script[t][j].by
                          THEN /\ script[t][i].n < script[t][j].n
                               /\ \A k \in i .. j : script[t][k].by \in {script[t][i].by, "user"}
                          ELSE script[t][j].by # "user" /\ t \notin disturbed =>
                                 \E k \in 1 .. j - 1 : script[t][k] = LastLine(script[t][i].by)
    BY DEF LinesInOrder, LastLine
  <2> QED
    BY <2>1, <2>2, <2>3
<1> QED
  BY <1>1, TerminalInvariant, PTL
=============================================================================
