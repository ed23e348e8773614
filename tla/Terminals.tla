----------------------------- MODULE Terminals -----------------------------
(***************************************************************************)
(* crates/tools-service/src/terminal.rs: the shells in which the agent's   *)
(* commands run.  execute_command types a command into a shell line by     *)
(* line; the reader thread of the terminal follows the shell through the   *)
(* markers its prompt prints (command started, command finished with its   *)
(* status, primary or continuation prompt), and a person or the agent may  *)
(* type into the same shell.                                               *)
(*                                                                         *)
(* A line is [by, n]: the n-th line of a command, or a line of the user.   *)
(* The exit status of a command is the line it belongs to.  A prompt's     *)
(* three markers (its id, start and finish) are one; of its id only        *)
(* matters whether the prompt is new or drawn again.  Screen contents, the *)
(* environment of a terminal and the streams to the web UI are left out.   *)
(* The shell and its pty are external.                                     *)
(***************************************************************************)
EXTENDS Naturals, Sequences

CONSTANTS ToolCalls,   \* calls of execute_command
          Terminals,   \* shells that may be spawned (a bound)
          Lines,       \* how many lines the command of a call has
          MaxKeys      \* bound on what the user types

ASSUME TerminalAssumption ==
  /\ {"user", "none"} \cap ToolCalls = {} /\ "none" \notin Terminals
  /\ Lines \in [ToolCalls -> Nat \ {0}] /\ MaxKeys \in Nat

VARIABLES known,      \* TerminalManager.terminals
          out,        \* TerminalOutput
          call,       \* [pc, term] of a call
          asleep,     \* calls that wait for output_notify
          feeder,     \* [pc, next] of the task that feeds the later lines
          dozing,     \* feeders that wait for output_notify
          shell,      \* [st, line]: what the shell does
          input,      \* lines in the pty, not read yet
          markers,    \* markers in the pty, not read yet
          keys,       \* count, for the bound
          script,     \* history: the lines the shell has read
          disturbed   \* history: shells typed into while they were busy, or
                      \* interrupted at a prompt

managerVars == <<known, out, call, asleep, feeder, dozing>>
shellVars == <<shell, input, markers, keys, script, disturbed>>
terminalVars == <<managerVars, shellVars>>

NoLine == [by |-> "user", n |-> 0]
UserLine == [by |-> "user", n |-> 1]
NoRun == [id |-> "none", inputComplete |-> TRUE, started |-> FALSE,
          exit |-> NoLine, completed |-> TRUE]
NewOutput == [ready |-> FALSE, atPrompt |-> FALSE, inputPrompt |-> "none",
              pending |-> FALSE, error |-> FALSE, closed |-> FALSE, run |-> NoRun]

InitTerminals ==
  /\ known = {}
  /\ out = [t \in Terminals |-> NewOutput]
  /\ call = [c \in ToolCalls |-> [pc |-> "idle", term |-> "none"]]
  /\ asleep = {}
  /\ feeder = [c \in ToolCalls |-> [pc |-> "off", next |-> 0]]
  /\ dozing = {}
  /\ shell = [t \in Terminals |-> [st |-> "off", line |-> NoLine]]
  /\ input = [t \in Terminals |-> <<>>]
  /\ markers = [t \in Terminals |-> <<>>]
  /\ keys = 0
  /\ script = [t \in Terminals |-> <<>>]
  /\ disturbed = {}

-----------------------------------------------------------------------------
(* output_notify.notify_waiters wakes every call and feeder of a terminal  *)
(* that took its Notified before.                                          *)
NotifyWaiters(t) ==
  /\ asleep' = {c \in asleep : call[c].term # t}
  /\ dozing' = {c \in dozing : call[c].term # t}

(* set_run_error: the error stays, and ends the active run. *)
WithError(o) ==
  IF o.error THEN o ELSE [o EXCEPT !.error = TRUE, !.run.completed = TRUE]

TerminalRunning(o) == ~o.closed /\ (~o.atPrompt \/ ~o.run.completed)

(* process_output_item.  A primary prompt counts only after the end of a   *)
(* command, a continuation prompt only if it is new.                       *)
CommandStarted(o) ==
  [o EXCEPT !.atPrompt = FALSE, !.inputPrompt = "none", !.pending = FALSE,
            !.run.started = IF o.run.completed THEN @ ELSE TRUE]

CommandFinished(o, line) ==
  [o EXCEPT !.atPrompt = FALSE, !.inputPrompt = "none", !.pending = TRUE,
            !.run.exit = IF o.run.completed THEN @ ELSE line]

(* Mutant: a run is complete at the first primary prompt. *)
PrimaryPromptAny(o) ==
  IF o.pending
    THEN [o EXCEPT !.pending = FALSE, !.inputPrompt = "primary",
                   !.atPrompt = TRUE, !.ready = TRUE, !.run.completed = TRUE]
    ELSE o

PrimaryPrompt(o) ==
  IF o.pending
    THEN [o EXCEPT !.pending = FALSE, !.inputPrompt = "primary",
                   !.atPrompt = TRUE, !.ready = TRUE,
                   !.run.completed = @ \/ o.run.inputComplete]
    ELSE o

(* Mutant: only a primary prompt takes input. *)
ContinuationPromptIgnored(o, new) ==
  IF new THEN [o EXCEPT !.inputPrompt = "none", !.atPrompt = FALSE] ELSE o

ContinuationPrompt(o, new) ==
  IF new THEN [o EXCEPT !.inputPrompt = "continuation", !.atPrompt = FALSE] ELSE o

Processed(o, m) ==
  CASE m.mark = "started" -> CommandStarted(o)
    [] m.mark = "finished" -> CommandFinished(o, m.line)
    [] m.mark = "primary" -> PrimaryPrompt(o)
    [] m.mark = "continuation" -> ContinuationPrompt(o, m.new)
    [] m.mark = "unexpanded" -> IF o.pending THEN WithError(o) ELSE o

(* process_output, one marker at a time.  The waiters are told after the   *)
(* lock is released: one that looks in between sees the new output.        *)
ProcessOutput(t) ==
  /\ markers[t] # <<>>
  /\ out' = [out EXCEPT ![t] = Processed(@, Head(markers[t]))]
  /\ markers' = [markers EXCEPT ![t] = Tail(@)]
  /\ NotifyWaiters(t)
  /\ UNCHANGED <<known, call, feeder, shell, input, keys, script, disturbed>>

(* The end of the pty, in what it does to the output. *)
Closed(o) ==
  [o EXCEPT !.closed = TRUE, !.run.completed = TRUE,
            !.run.exit = IF o.run.completed THEN @ ELSE NoLine]

AtEnd(t) == markers[t] = <<>> /\ shell[t].st = "ended" /\ ~out[t].closed

(* Mutant: the end of the pty tells nobody. *)
CloseSilently(t) ==
  /\ AtEnd(t)
  /\ out' = [out EXCEPT ![t] = Closed(@)]
  /\ UNCHANGED <<known, call, asleep, feeder, dozing, shellVars>>

(* close_terminal_output, at the end of the pty. *)
CloseTerminalOutput(t) ==
  /\ AtEnd(t)
  /\ out' = [out EXCEPT ![t] = Closed(@)]
  /\ NotifyWaiters(t)
  /\ UNCHANGED <<known, call, feeder, shellVars>>

-----------------------------------------------------------------------------
(* execute_command. *)
On(c) == call[c].term
OutOf(c) == out[call[c].term]
CallAt(c, l) == call[c].pc = l /\ c \notin asleep
GoesOn(c, l) == call' = [call EXCEPT ![c].pc = l]
KeepOutput == UNCHANGED <<known, out, dozing>>

(* resolve_terminal: the named terminal, or the one that matches the       *)
(* session; a call that finds several is refused at once and left out.     *)
ResolveTerminal(c) ==
  /\ CallAt(c, "idle")
  /\ \E t \in known : call' = [call EXCEPT ![c] = [pc |-> "bind", term |-> t]]
  /\ KeepOutput /\ UNCHANGED <<asleep, feeder, shellVars>>

(* create_for_request and spawn_terminal, on request or because none       *)
(* matches: the shell and its reader start, and the terminal enters the    *)
(* map.                                                                    *)
SpawnTerminal(c, t) ==
  /\ CallAt(c, "idle")
  /\ shell[t].st = "off"
  /\ call' = [call EXCEPT ![c] = [pc |-> "bind", term |-> t]]
  /\ known' = known \cup {t}
  /\ shell' = [shell EXCEPT ![t].st = "starting"]
  /\ UNCHANGED <<out, dozing, asleep, feeder, input, markers, keys, script,
                 disturbed>>

(* bind_tool_call_terminal, ensure_terminal_alive, and the first look of   *)
(* wait_for_terminal_ready; the later looks do not ask whether the shell   *)
(* is alive if it was ready.                                               *)
AwaitReady(c) ==
  LET o == OutOf(c)
  IN  IF o.error THEN GoesOn(c, "done") /\ UNCHANGED asleep
      ELSE IF o.ready THEN GoesOn(c, "submit") /\ UNCHANGED asleep
      ELSE IF o.closed THEN GoesOn(c, "done") /\ UNCHANGED asleep
      ELSE GoesOn(c, "ready") /\ asleep' = asleep \cup {c}

Bind(c) ==
  /\ CallAt(c, "bind")
  /\ IF OutOf(c).closed THEN GoesOn(c, "done") /\ UNCHANGED asleep ELSE AwaitReady(c)
  /\ KeepOutput /\ UNCHANGED <<feeder, shellVars>>

LookReady(c) ==
  /\ CallAt(c, "ready")
  /\ AwaitReady(c)
  /\ KeepOutput /\ UNCHANGED <<feeder, shellVars>>

(* wait_for_run looks at the output and sleeps. *)
LookRun(c) ==
  /\ CallAt(c, "run")
  /\ LET o == OutOf(c)
     IN  IF o.error \/ o.run.id # c \/ o.run.completed \/ o.closed
         THEN GoesOn(c, "done") /\ UNCHANGED asleep
         ELSE asleep' = asleep \cup {c} /\ UNCHANGED call
  /\ KeepOutput /\ UNCHANGED <<feeder, shellVars>>

(* The timeout, or a client that disconnects: the run goes on.  What the  *)
(* call answers is read from the output and changes nothing.               *)
TimesOut(c) ==
  /\ call[c].pc \in {"ready", "run"}
  /\ GoesOn(c, "done")
  /\ asleep' = asleep \ {c}
  /\ KeepOutput /\ UNCHANGED <<feeder, shellVars>>

(* The command is refused unless the shell waits at a prompt and no run is *)
(* active; otherwise it becomes the active run and its first line is       *)
(* written, in one stretch under the writer's lock.                        *)
MaySubmit(o) == ~o.error /\ o.run.completed /\ o.atPrompt

Submitted(o, c) ==
  [o EXCEPT !.atPrompt = FALSE, !.inputPrompt = "none",
            !.run = [id |-> c, inputComplete |-> Lines[c] = 1, started |-> FALSE,
                     exit |-> NoLine, completed |-> FALSE]]

SubmitRefused(c) ==
  /\ CallAt(c, "submit") /\ ~MaySubmit(OutOf(c))
  /\ GoesOn(c, "done")
  /\ KeepOutput /\ UNCHANGED <<asleep, feeder, shellVars>>

(* A line written to a shell that ended is lost. *)
Typed(t, line) ==
  input' = IF shell[t].st = "ended" THEN input
                                    ELSE [input EXCEPT ![t] = Append(@, line)]

Feed(c) ==
  feeder' = IF Lines[c] > 1 THEN [feeder EXCEPT ![c] = [pc |-> "look", next |-> 2]]
                            ELSE feeder

(* Mutant: the prompt alone decides, and the waiters are told. *)
SubmitAtPrompt(c, background) ==
  /\ CallAt(c, "submit") /\ ~OutOf(c).error /\ OutOf(c).atPrompt
  /\ out' = [out EXCEPT ![On(c)] = Submitted(@, c)]
  /\ Typed(On(c), [by |-> c, n |-> 1])
  /\ GoesOn(c, IF background THEN "respond" ELSE "run")
  /\ IF background THEN UNCHANGED feeder ELSE Feed(c)
  /\ NotifyWaiters(On(c))
  /\ UNCHANGED <<known, shell, markers, keys, script, disturbed>>

Submit(c, background) ==
  /\ CallAt(c, "submit") /\ MaySubmit(OutOf(c))
  /\ out' = [out EXCEPT ![On(c)] = Submitted(@, c)]
  /\ Typed(On(c), [by |-> c, n |-> 1])
  /\ GoesOn(c, IF background THEN "respond" ELSE "run")
  /\ IF background THEN UNCHANGED feeder ELSE Feed(c)
  /\ UNCHANGED <<known, asleep, dozing, shell, markers, keys, script,
                 disturbed>>

(* record_run_error: the pty of a shell that ended refuses the line. *)
SubmitFails(c) ==
  /\ CallAt(c, "submit") /\ MaySubmit(OutOf(c))
  /\ shell[On(c)].st = "ended"
  /\ out' = [out EXCEPT ![On(c)] = WithError(Submitted(@, c))]
  /\ NotifyWaiters(On(c))
  /\ GoesOn(c, "done")
  /\ UNCHANGED <<known, feeder, shellVars>>

(* response_for_run: the run must still be the terminal's, and a completed *)
(* one must have been seen to start.                                       *)
Available(c) ==
  /\ ~OutOf(c).error
  /\ OutOf(c).run.id = c
  /\ OutOf(c).run.completed => OutOf(c).run.started

(* A background call answers before the feeder is started. *)
Respond(c) ==
  /\ CallAt(c, "respond")
  /\ IF Available(c)
       THEN /\ GoesOn(c, "done")
            /\ Feed(c)
            /\ UNCHANGED <<out, asleep, dozing>>
       ELSE /\ GoesOn(c, "done")
            /\ out' = IF OutOf(c).run.id = c
                        THEN [out EXCEPT ![On(c)] = WithError(@)] ELSE out
            /\ NotifyWaiters(On(c))
            /\ UNCHANGED feeder
  /\ UNCHANGED <<known, shellVars>>

-----------------------------------------------------------------------------
(* write_command: the feeder waits for a prompt of any kind, and looks     *)
(* again under the writer's lock before it writes the next line.           *)
AcceptsInput(c) ==
  LET o == OutOf(c)
  IN  ~o.closed /\ ~o.error /\ o.run.id = c /\ ~o.run.completed

FeederGoes(c, l) == feeder' = [feeder EXCEPT ![c].pc = l]

FeederLooks(c) ==
  /\ feeder[c].pc = "look" /\ c \notin dozing
  /\ IF ~AcceptsInput(c) THEN FeederGoes(c, "off") /\ UNCHANGED dozing
     ELSE IF OutOf(c).inputPrompt = "none"
       THEN dozing' = dozing \cup {c} /\ UNCHANGED feeder
       ELSE FeederGoes(c, "write") /\ UNCHANGED dozing
  /\ UNCHANGED <<known, out, call, asleep, shellVars>>

InputTaken(o, last) == [o EXCEPT !.inputPrompt = "none", !.atPrompt = FALSE,
                                 !.run.inputComplete = last]

MayFeed(c) == AcceptsInput(c) /\ OutOf(c).inputPrompt # "none"

FeederWrites(c) ==
  /\ feeder[c].pc = "write"
  /\ IF MayFeed(c)
       THEN LET last == feeder[c].next = Lines[c]
            IN  /\ out' = [out EXCEPT ![On(c)] = InputTaken(@, last)]
                /\ Typed(On(c), [by |-> c, n |-> feeder[c].next])
                /\ feeder' = [feeder EXCEPT ![c] =
                                IF last THEN [pc |-> "off", next |-> @.next]
                                        ELSE [pc |-> "look", next |-> @.next + 1]]
       ELSE FeederGoes(c, "look") /\ UNCHANGED <<out, input>>
  /\ UNCHANGED <<known, call, asleep, dozing, shell, markers, keys,
                 script, disturbed>>

FeederFails(c) ==
  /\ feeder[c].pc = "write" /\ MayFeed(c)
  /\ shell[On(c)].st = "ended"
  /\ out' = [out EXCEPT ![On(c)] = WithError(InputTaken(@, feeder[c].next
                                                           = Lines[c]))]
  /\ NotifyWaiters(On(c))
  /\ FeederGoes(c, "off")
  /\ UNCHANGED <<known, call, shellVars>>

-----------------------------------------------------------------------------
(* The shell and its pty (external): what the code relies on.  Every line  *)
(* read at a prompt prints a start marker or asks for its continuation;    *)
(* the end of a command prints its status and a primary prompt.            *)
Says(t, ms) == markers' = [markers EXCEPT ![t] = @ \o ms]
Mark(m) == [mark |-> m, line |-> NoLine, new |-> TRUE]
FinishedBy(line) == [mark |-> "finished", line |-> line, new |-> TRUE]
ShellIs(t, st) == shell' = [shell EXCEPT ![t].st = st]
Listens(t) == shell[t].st \in {"reading", "continued"}

ShellStarts(t) ==
  /\ shell[t].st = "starting"
  /\ ShellIs(t, "reading")
  /\ Says(t, <<FinishedBy(NoLine), Mark("primary")>>)
  /\ UNCHANGED <<managerVars, input, keys, script, disturbed>>

ShellReads(t) ==
  /\ Listens(t) /\ input[t] # <<>>
  /\ script' = [script EXCEPT ![t] = Append(@, Head(input[t]))]
  /\ input' = [input EXCEPT ![t] = Tail(@)]
  /\ \/ /\ shell' = [shell EXCEPT ![t] = [st |-> "running", line |-> Head(input[t])]]
        /\ Says(t, <<Mark("started")>>)
     \/ ShellIs(t, "continued") /\ Says(t, <<Mark("continuation")>>)
  /\ UNCHANGED <<managerVars, keys, disturbed>>

(* A command may have switched promptvars off. *)
ShellFinishes(t) ==
  /\ shell[t].st = "running"
  /\ shell' = [shell EXCEPT ![t] = [st |-> "reading", line |-> NoLine]]
  /\ \/ Says(t, <<FinishedBy(shell[t].line), Mark("primary")>>)
     \/ Says(t, <<FinishedBy(shell[t].line), Mark("unexpanded")>>)
  /\ UNCHANGED <<managerVars, input, keys, script, disturbed>>

(* A command reads a line from the terminal. *)
CommandReads(t) ==
  /\ shell[t].st = "running" /\ input[t] # <<>>
  /\ input' = [input EXCEPT ![t] = Tail(@)]
  /\ UNCHANGED <<managerVars, shell, markers, keys, script, disturbed>>

ShellExits(t) ==
  /\ shell[t].st \notin {"off", "ended"}
  /\ shell' = [shell EXCEPT ![t] = [st |-> "ended", line |-> NoLine]]
  /\ input' = [input EXCEPT ![t] = <<>>]
  /\ UNCHANGED <<managerVars, markers, keys, script, disturbed>>

-----------------------------------------------------------------------------
(* What is typed beside the commands: write_terminal, send_terminal_keys   *)
(* and paste_terminal_text.                                                *)
Key(t) ==
  /\ keys < MaxKeys /\ keys' = keys + 1
  /\ t \in known /\ ~out[t].closed

(* Mutant: a typed line leaves the prompt as it is. *)
TypeLineUnrecorded(t) ==
  /\ Key(t)
  /\ Typed(t, UserLine)
  /\ disturbed' = IF out[t].inputPrompt # "none" THEN disturbed
                                                 ELSE disturbed \cup {t}
  /\ UNCHANGED <<managerVars, shell, markers, script>>

(* record_terminal_input: a line break takes the prompt away. *)
TypeLine(t) ==
  /\ Key(t)
  /\ out' = [out EXCEPT ![t].atPrompt = FALSE, ![t].inputPrompt = "none"]
  /\ Typed(t, UserLine)
  /\ disturbed' = IF out[t].inputPrompt # "none" THEN disturbed
                                                 ELSE disturbed \cup {t}
  /\ UNCHANGED <<known, call, asleep, feeder, dozing, shell, markers,
                 script>>

(* Control-C discards what was typed; a shell at its prompt prints the     *)
(* markers of an empty command.  A running command may end or not.         *)
Interrupt(t) ==
  /\ Key(t)
  /\ Listens(t) \/ shell[t].st = "running"
  /\ input' = [input EXCEPT ![t] = <<>>]
  /\ IF Listens(t)
       THEN /\ Says(t, <<Mark("started"), FinishedBy(NoLine), Mark("primary")>>)
            /\ ShellIs(t, "reading")
            /\ disturbed' = disturbed \cup {t}
       ELSE /\ disturbed' = IF input[t] = <<>> THEN disturbed ELSE disturbed \cup {t}
            /\ UNCHANGED <<shell, markers>>
  /\ UNCHANGED <<managerVars, script>>

(* Control-L draws the prompt again. *)
Redraw(t) ==
  /\ Key(t)
  /\ Listens(t)
  /\ Says(t, <<[mark |-> IF shell[t].st = "reading" THEN "primary" ELSE "continuation",
                line |-> NoLine, new |-> FALSE]>>)
  /\ UNCHANGED <<managerVars, shell, input, script, disturbed>>

(* kill_terminal and shutdown hang up the shell, which ends when it will;  *)
(* its calls go on until the reader sees the end.                          *)
KillTerminal(t) ==
  /\ t \in known
  /\ known' = known \ {t}
  /\ UNCHANGED <<out, call, asleep, feeder, dozing, shellVars>>

-----------------------------------------------------------------------------
CallSteps(c) ==
  \/ ResolveTerminal(c) \/ Bind(c) \/ LookReady(c) \/ LookRun(c)
  \/ SubmitRefused(c) \/ Respond(c)
  \/ SubmitFails(c) \/ \E b \in BOOLEAN : Submit(c, b)
FeederSteps(c) == FeederLooks(c) \/ FeederWrites(c) \/ FeederFails(c)
ReaderSteps(t) == ProcessOutput(t) \/ CloseTerminalOutput(t)
ShellSteps(t) == ShellStarts(t) \/ ShellReads(t) \/ ShellFinishes(t)

NextTerminals ==
  \/ \E c \in ToolCalls : CallSteps(c) \/ FeederSteps(c) \/ TimesOut(c)
  \/ \E c \in ToolCalls, t \in Terminals : SpawnTerminal(c, t)
  \/ \E t \in Terminals :
       \/ ReaderSteps(t) \/ ShellSteps(t) \/ CommandReads(t) \/ ShellExits(t)
       \/ TypeLine(t) \/ Interrupt(t) \/ Redraw(t) \/ KillTerminal(t)

TerminalSpec == InitTerminals /\ [][NextTerminals]_terminalVars

-----------------------------------------------------------------------------
(* Properties. *)

Line == {NoLine, UserLine}
          \cup {l \in [by : ToolCalls, n : Nat] : l.n \in 1 .. Lines[l.by]}
RunState == [id : ToolCalls \cup {"none"}, inputComplete : BOOLEAN,
             started : BOOLEAN, exit : Line, completed : BOOLEAN]
Output == [ready : BOOLEAN, atPrompt : BOOLEAN,
           inputPrompt : {"none", "primary", "continuation"}, pending : BOOLEAN,
           error : BOOLEAN, closed : BOOLEAN, run : RunState]
Marker == [mark : {"started", "finished", "primary", "continuation", "unexpanded"},
           line : Line, new : BOOLEAN]
CallState == [pc : {"idle", "bind", "ready", "submit", "respond", "run", "done"},
              term : Terminals \cup {"none"}]
FeederState == [pc : {"off", "look", "write"}, next : Nat]
ShellState == [st : {"off", "starting", "reading", "continued", "running", "ended"},
               line : Line]

TypeOKManager ==
  /\ known \subseteq Terminals
  /\ out \in [Terminals -> Output]
  /\ call \in [ToolCalls -> CallState]
  /\ \A c \in ToolCalls : call[c].term = "none" <=> call[c].pc = "idle"
  /\ asleep \subseteq ToolCalls
  /\ feeder \in [ToolCalls -> FeederState]
  /\ \A c \in ToolCalls : feeder[c].pc # "off" => feeder[c].next \in 2 .. Lines[c]
  /\ dozing \subseteq ToolCalls

TypeOKShells ==
  /\ shell \in [Terminals -> ShellState]
  /\ input \in [Terminals -> Seq(Line)]
  /\ markers \in [Terminals -> Seq(Marker)]
  /\ keys \in 0 .. MaxKeys
  /\ script \in [Terminals -> Seq(Line)]
  /\ disturbed \subseteq Terminals

TerminalTypeOK == TypeOKManager /\ TypeOKShells

(* A run counts as completed at a prompt only when the shell has read all  *)
(* of its lines, and its exit status is that of its last line or of a line *)
(* the user continued it with.  Exceptions: the shell ended, and lines or  *)
(* interrupts of the user that its markers cannot be told apart from.      *)
CompletedHasRun ==
  \A t \in Terminals :
    LET r == out[t].run
    IN  /\ r.id # "none" /\ r.completed
        /\ ~out[t].error /\ t \notin disturbed
        /\ ~(out[t].closed /\ r.exit = NoLine)
        => \E i, j \in DOMAIN script[t] :
             /\ script[t][i] = [by |-> r.id, n |-> Lines[r.id]]
             /\ script[t][j] = r.exit /\ i <= j

(* The shell reads the lines of a command in order, and commands of one    *)
(* terminal do not overlap: when it reads a line of another command it has *)
(* read the last line of this one, if the user did not interfere; whatever *)
(* the user does, no line of this one follows.                             *)
LinesInOrder ==
  \A t \in Terminals : \A i, j \in DOMAIN script[t] :
    LET p == script[t][i]  q == script[t][j]
        LastRead(c) == \E k \in 1 .. j - 1 : script[t][k] = [by |-> c, n |-> Lines[c]]
    IN  i < j /\ p.by # "user" =>
          IF p.by = q.by
            THEN p.n < q.n /\ \A k \in i .. j : script[t][k].by \in {p.by, "user"}
            ELSE q.by # "user" /\ t \notin disturbed => LastRead(p.by)

(* A terminal that is reported idle is idle: nothing is left to read or    *)
(* to run, if nothing was typed into the busy shell.                       *)
IdleIsIdle ==
  \A t \in Terminals :
    ~TerminalRunning(out[t]) /\ ~out[t].closed /\ t \notin disturbed =>
      /\ input[t] = <<>>
      /\ shell[t].st \in {"reading", "ended"}
      /\ \A i \in DOMAIN markers[t] : markers[t][i].mark = "primary"

(* Nobody sleeps through what it waits for: a call sleeps only while its   *)
(* shell is not ready or its run goes on, a feeder only while there is no  *)
(* prompt, and neither sleeps once the terminal failed or its shell ended. *)
NoLostWakeup ==
  /\ \A c \in asleep :
       /\ ~OutOf(c).error /\ ~OutOf(c).closed
       /\ call[c].pc = "ready" => ~OutOf(c).ready
       /\ call[c].pc = "run" => OutOf(c).run.id = c /\ ~OutOf(c).run.completed
  /\ \A c \in dozing : AcceptsInput(c) /\ OutOf(c).inputPrompt = "none"

(* A command is never stranded.  When the shell waits for input, its       *)
(* markers are processed and no call or feeder has a step left, no run is  *)
(* active: it was fed to its last line and completed, whether its call     *)
(* still waited or not.  Exceptions: the user interfered, or the last line *)
(* left a construct open.                                                  *)
Quiet(t) ==
  /\ Listens(t) /\ input[t] = <<>> /\ markers[t] = <<>>
  /\ \A c \in ToolCalls :
       On(c) = t => /\ call[c].pc \in {"idle", "run", "done"}
                    /\ feeder[c].pc = "off" \/ c \in dozing
LeftOpen(t) == out[t].run.inputComplete /\ shell[t].st = "continued"
RunNotStranded ==
  \A t \in Terminals :
    Quiet(t) /\ ~out[t].error /\ t \notin disturbed =>
      out[t].run.completed \/ LeftOpen(t)
=============================================================================
