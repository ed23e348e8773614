--------------------------- MODULE SessionHistory ---------------------------
(***************************************************************************)
(* The stored history of one session: the canonical journal, the semantic  *)
(* snapshots the browser is shown, and the engine that keeps the two        *)
(* together.  SQLite holds both; a session object in memory runs ahead of   *)
(* the snapshots and a flush writes it back.  A message is shown at the     *)
(* version of its newest record; the text of a version, its presentation    *)
(* and the owner of a tool call are left out.                               *)
(***************************************************************************)
EXTENDS Integers, Sequences

CONSTANTS Messages,          \* message identities
          Runs,              \* agent runs of the session
          Kind,              \* what a message is
          RunOf,             \* the run a message belongs to
          Last,              \* the version of its last record
          Viewers,           \* history subscriptions
          MaxRecords,        \* bound: length of the journal
          MaxGenerations,    \* bound: truncations and clears
          MaxUpdates,        \* bound: updates of one record
          StoreFaults        \* which failures occur

ASSUME HistoryAssumption ==
  /\ Kind \in [Messages -> {"user", "tool", "segment", "error"}]
  /\ RunOf \in [Messages -> Runs]
  /\ Last \in [Messages -> Nat \ {0}]
  /\ \A m \in Messages : /\ Kind[m] \in {"user", "error"} => Last[m] = 1
                         /\ Kind[m] = "segment" => Last[m] > 1
  /\ MaxRecords \in Nat /\ MaxGenerations \in Nat /\ MaxUpdates \in Nat
  /\ StoreFaults \subseteq {"store", "prune", "dropped", "crash"}
  /\ Runs \cap {"nobody", "job", "timer"} = {}

VARIABLES records,      \* session_records, from 1
          row,          \* the session's row of ui_history_sessions
          rows,         \* ui_history_snapshots
          ui,           \* UiState: generation, revision, committed revision...
          entries,      \* UiState.entries
          pending,      \* UiState.pending_appends
          registered,   \* UiState.runs
          tail,         \* the journal tail cached under the journal mutex
          job,          \* who holds the journal mutex
          flushing,     \* who holds the flush mutex
          uiRun,        \* the runs and their history handles
          sent, copied, \* newest version appended, and copied live
          stopped,      \* runs whose forwarder has stopped
          viewer,       \* the subscriptions
          torn          \* the journal was cut, its snapshots were not

disk == <<records, row, rows>>
memory == <<ui, entries, pending, registered, tail>>
actors == <<job, flushing, uiRun, sent, copied, stopped, viewer, torn>>
historyVars == <<disk, memory, actors>>

(* A snapshot: first, last and record are the binding, 0 when unbound.     *)
Snapshots == [ver : Nat, pos : Nat, rev : Nat, committed : BOOLEAN,
              first : Nat, last : Nat, record : Nat]
Absent == [ver |-> 0, pos |-> 0, rev |-> 0, committed |-> FALSE,
           first |-> 0, last |-> 0, record |-> 0]
Nothing == [m \in Messages |-> Absent]
Present(e) == e.ver > 0

Streamed(m) == Kind[m] \in {"tool", "segment"}
Active(m, e) == e.ver < (IF Kind[m] = "segment" THEN Last[m] - 1 ELSE Last[m])

(* What a reader is shown: memory over the stored rows.                    *)
Shown(m) == IF Present(entries[m]) THEN entries[m] ELSE rows[m]

NoJob == [kind |-> "none", pc |-> "idle"]
NoFlush == [by |-> "nobody"]
Closed == [pc |-> "closed", gen |-> 0, rev |-> 0, mark |-> 0,
           read |-> Nothing, shown |-> Nothing]

(* fail: the first failure is kept and announced.                          *)
Failed(u) == IF u.failed THEN u ELSE [u EXCEPT !.failed = TRUE, !.rev = @ + 1]

StopForwarder(m) == IF Streamed(m) THEN stopped \cup {RunOf[m]} ELSE stopped

(* load_session: memory is rebuilt from the row.                           *)
Loaded == [gen |-> row.gen, rev |-> row.rev, committed |-> row.rev,
           next |-> row.next, failed |-> row.failed, timer |-> TRUE]

InitHistory ==
  /\ records = <<>>
  /\ row = [gen |-> 1, rev |-> 0, next |-> 0, failed |-> FALSE]
  /\ rows = Nothing
  /\ ui = Loaded
  /\ entries = Nothing
  /\ pending = [m \in Messages |-> 0]
  /\ registered = {}
  /\ tail = 0
  /\ job = NoJob
  /\ flushing = NoFlush
  /\ uiRun = [r \in Runs |-> [pc |-> "new", gen |-> 0]]
  /\ sent = [m \in Messages |-> 0]
  /\ copied = [m \in Messages |-> 0]
  /\ stopped = {}
  /\ viewer = [v \in Viewers |-> Closed]
  /\ torn = FALSE

-----------------------------------------------------------------------------
(* Runs: live copies of what the runner emits.                             *)

BeginRun(r) ==
  /\ uiRun[r].pc = "new"
  /\ ~ui.failed
  /\ registered' = registered \cup {r}
  /\ uiRun' = [uiRun EXCEPT ![r] = [pc |-> "open", gen |-> ui.gen]]
  /\ UNCHANGED <<disk, ui, entries, pending, tail, job, flushing, sent, copied,
                 stopped, viewer, torn>>

(* ingest and insert_error refuse a failed session and an obsolete run.    *)
Copyable(r) == ~ui.failed /\ uiRun[r].gen = ui.gen /\ r \in registered

(* The snapshot e of m at version v; a new one takes the next position.    *)
Projected(e, v) ==
  IF Present(e)
  THEN [e EXCEPT !.ver = v, !.rev = ui.rev + 1, !.committed = FALSE]
  ELSE [Absent EXCEPT !.ver = v, !.rev = ui.rev + 1, !.pos = ui.next]

Advanced(e) == [ui EXCEPT !.rev = @ + 1, !.next = IF Present(e) THEN @ ELSE @ + 1]

NextCopy(m) ==
  /\ uiRun[RunOf[m]].pc = "open"
  /\ CASE Kind[m] = "segment" -> copied[m] + 1 < Last[m]   \* the assistant is appended
       [] Kind[m] = "user"    -> FALSE
       [] OTHER               -> copied[m] < Last[m]
  /\ copied' = [copied EXCEPT ![m] = @ + 1]

(* ingest of an update, a close or a tool lifecycle; insert_error.         *)
Copy(m) ==
  /\ NextCopy(m)
  /\ Copyable(RunOf[m])
  /\ entries[m].ver <= copied[m]
  /\ entries' = [entries EXCEPT ![m] = Projected(@, copied[m] + 1)]
  /\ ui' = Advanced(entries[m])
  /\ UNCHANGED <<disk, pending, registered, tail, job, flushing, uiRun, sent,
                 stopped, viewer, torn>>

(* A segment event is queued for the journal even if its copy is refused.  *)
CopyRefused(m) ==
  /\ NextCopy(m)
  /\ Kind[m] = "segment"
  /\ ~Copyable(RunOf[m])
  /\ UNCHANGED <<disk, memory, job, flushing, uiRun, sent, stopped, viewer, torn>>

-----------------------------------------------------------------------------
(* append: stage, write, bind, flush, under the journal mutex.             *)

(* What is appended: a user's message at any time, what a forwarder has    *)
(* been handed in order (streamed tool input may be accumulated), and the  *)
(* assistant record of a closed segment.                                   *)
Appendable(m, v) ==
  \/ Kind[m] = "user" /\ v = 1
  \/ /\ Streamed(m)
     /\ uiRun[RunOf[m]].pc = "open"
     /\ sent[m] < v
     /\ \/ /\ RunOf[m] \notin stopped
           /\ v <= copied[m]
           /\ Kind[m] = "segment" => v = sent[m] + 1
        \/ /\ Kind[m] = "segment" /\ v = Last[m] /\ copied[m] + 1 = Last[m]
           /\ RunOf[m] \in stopped \/ sent[m] + 1 = Last[m]

Semantic(m, v) == Kind[m] = "segment" => v = Last[m]
Confirms(m, v, e) ==
  /\ Kind[m] = "segment" => v + 1 >= Last[m]
  /\ Kind[m] = "tool" => v >= e.ver

(* stage_batch of one record: an older or equal one changes nothing.       *)
Stage(m, v) ==
  LET old == Shown(m)
      new == IF old.ver < v THEN Projected(old, v) ELSE old
  IN  /\ job = NoJob
      /\ Appendable(m, v)
      /\ Len(records) < MaxRecords
      /\ ~ui.failed
      /\ Kind[m] = "user" => ~Present(old)
      /\ entries' = [entries EXCEPT ![m] = new]
      /\ ui' = IF old.ver < v THEN Advanced(old) ELSE ui
      /\ pending' = [pending EXCEPT ![m] = @ + 1]
      /\ sent' = [sent EXCEPT ![m] = v]
      /\ job' = [kind |-> "append", pc |-> "staged", msg |-> m, ver |-> v,
                 confirms |-> Confirms(m, v, old), of |-> new.ver,
                 gen |-> ui.gen, index |-> 0]
      /\ UNCHANGED <<disk, registered, tail, flushing, uiRun, copied, stopped,
                     viewer, torn>>

(* A failed session refuses every record, and the forwarder gives up.      *)
StageRefused(m, v) ==
  /\ job = NoJob
  /\ Streamed(m)
  /\ Appendable(m, v)
  /\ ui.failed
  /\ sent' = [sent EXCEPT ![m] = v]
  /\ stopped' = StopForwarder(m)
  /\ UNCHANGED <<disk, memory, job, flushing, uiRun, copied, viewer, torn>>

(* journal::append, where the stored tail must be the cached one.          *)
WriteRecord ==
  /\ job.kind = "append" /\ job.pc = "staged"
  /\ Len(records) = tail
  /\ records' = Append(records, [msg |-> job.msg, ver |-> job.ver])
  /\ job' = [job EXCEPT !.pc = "written", !.index = Len(records) + 1]
  /\ UNCHANGED <<row, rows, memory, flushing, uiRun, sent, copied, stopped,
                 viewer, torn>>

WriteFails ==
  /\ job.kind = "append" /\ job.pc = "staged"
  /\ Len(records) # tail \/ "store" \in StoreFaults
  /\ ui' = Failed(ui)
  /\ job' = NoJob
  /\ stopped' = StopForwarder(job.msg)
  /\ UNCHANGED <<disk, entries, pending, registered, tail, flushing, uiRun, sent,
                 copied, viewer, torn>>

(* Mutant: whatever is shown by now counts as the record that was bound.   *)
BoundAsShown(e) ==
  [e EXCEPT !.first = IF @ = 0 \/ job.index < @ THEN job.index ELSE @,
            !.last = IF job.index > @ THEN job.index ELSE @,
            !.record = IF Semantic(job.msg, job.ver) THEN job.index ELSE @,
            !.committed = @ \/ job.confirms,
            !.rev = ui.rev + 1]

(* The binding of the record; it confirms the version that was staged.     *)
Bound(e) ==
  [e EXCEPT !.first = IF @ = 0 \/ job.index < @ THEN job.index ELSE @,
            !.last = IF job.index > @ THEN job.index ELSE @,
            !.record = IF Semantic(job.msg, job.ver) THEN job.index ELSE @,
            !.committed = @ \/ (job.confirms /\ e.ver = job.of),
            !.rev = ui.rev + 1]

Bindable == ~ui.failed /\ ui.gen = job.gen /\ pending[job.msg] > 0

(* bind the receipt, keep the new tail, then flush_if_idle.                *)
Bind ==
  /\ job.kind = "append" /\ job.pc = "written"
  /\ Bindable
  /\ entries' = [entries EXCEPT ![job.msg] = Bound(@)]
  /\ pending' = [pending EXCEPT ![job.msg] = @ - 1]
  /\ ui' = [ui EXCEPT !.rev = @ + 1]
  /\ tail' = job.index
  /\ job' = IF registered = {} THEN [job EXCEPT !.pc = "flush"] ELSE NoJob
  /\ UNCHANGED <<disk, registered, flushing, uiRun, sent, copied, stopped, viewer,
                 torn>>

BindFails ==
  /\ job.kind = "append" /\ job.pc = "written"
  /\ ~Bindable
  /\ ui' = Failed(ui)
  /\ job' = NoJob
  /\ stopped' = StopForwarder(job.msg)
  /\ UNCHANGED <<disk, entries, pending, registered, tail, flushing, uiRun, sent,
                 copied, viewer, torn>>

-----------------------------------------------------------------------------
(* update_value_at: a confirmed record, of a user or an assistant, is      *)
(* rewritten in the journal and then in its snapshot.                      *)

Later(v, w) == IF v > w THEN v ELSE w

BeginUpdate(m) ==
  LET e == Shown(m)
  IN  /\ job = NoJob
      /\ Kind[m] \in {"user", "segment"}
      /\ ~ui.failed
      /\ e.record \in 1 .. Len(records)
      /\ records[e.record].msg = m
      /\ records[e.record].ver < Last[m] + MaxUpdates
      /\ pending[m] = 0
      /\ e.committed /\ ~Active(m, e)
      /\ job' = [kind |-> "update", pc |-> "rewrite", msg |-> m,
                 ver |-> Later(records[e.record].ver, e.ver) + 1,
                 was |-> e.ver, index |-> e.record]
      /\ UNCHANGED <<disk, memory, flushing, uiRun, sent, copied, stopped, viewer, torn>>

Rewrite ==
  /\ job.pc = "rewrite"
  /\ records' = [records EXCEPT ![job.index].ver = job.ver]
  /\ job' = [job EXCEPT !.pc = "replace"]
  /\ UNCHANGED <<row, rows, memory, flushing, uiRun, sent, copied, stopped, viewer,
                 torn>>

RewriteFails ==
  /\ job.pc = "rewrite"
  /\ "store" \in StoreFaults
  /\ job' = NoJob
  /\ UNCHANGED <<disk, memory, flushing, uiRun, sent, copied, stopped, viewer, torn>>

(* The snapshot must be the one that was prepared.                         *)
Replaceable ==
  LET e == Shown(job.msg)
  IN  ~ui.failed /\ e.record = job.index /\ e.ver = job.was /\ pending[job.msg] = 0

Replace ==
  /\ job.pc = "replace"
  /\ Replaceable
  /\ entries' = [entries EXCEPT ![job.msg] =
                    [Shown(job.msg) EXCEPT !.ver = job.ver, !.rev = ui.rev + 1]]
  /\ ui' = [ui EXCEPT !.rev = @ + 1]
  /\ job' = [job EXCEPT !.pc = "flush"]
  /\ UNCHANGED <<disk, pending, registered, tail, flushing, uiRun, sent, copied,
                 stopped, viewer, torn>>

ReplaceFails ==
  /\ job.pc = "replace"
  /\ ~Replaceable
  /\ ui' = Failed(ui)
  /\ job' = NoJob
  /\ UNCHANGED <<disk, entries, pending, registered, tail, flushing, uiRun, sent,
                 copied, stopped, viewer, torn>>

-----------------------------------------------------------------------------
(* flush: snapshot, write, settle, under the flush mutex.                  *)

FlushFree == flushing = NoFlush /\ job.pc # "erased"

Wants(by) ==
  \/ by = "timer" /\ ui.timer /\ ui.rev # ui.committed
  \/ by = "job" /\ job.pc = "flush"
  \/ by \in Runs /\ uiRun[by].pc \in {"flush", "last"}

(* What the caller does with the answer.  u is the session the flush left. *)
Answer(by, ok, u) ==
  /\ ui' = CASE ok -> u
             [] ~ok /\ by = "timer" -> [Failed(u) EXCEPT !.timer = FALSE]
             [] ~ok /\ by = "job" /\ job.kind \in {"truncate", "clear"} -> u
             [] OTHER -> Failed(u)
  /\ job' = CASE by # "job" -> job
              [] by = "job" /\ job.kind = "truncate" /\ ok -> [job EXCEPT !.pc = "cut"]
              [] OTHER -> NoJob
  /\ stopped' = IF by = "job" /\ job.kind = "append" /\ ~ok
                THEN StopForwarder(job.msg) ELSE stopped
  /\ uiRun' = IF by \in Runs
              THEN [uiRun EXCEPT ![by].pc =
                      IF @ = "flush" /\ ok THEN "check" ELSE "failed"]
              ELSE uiRun

(* Everything is stored: the answer is whether the session has failed.     *)
FlushNothing(by) ==
  /\ FlushFree
  /\ Wants(by)
  /\ ui.rev = ui.committed
  /\ Answer(by, ~ui.failed, ui)
  /\ UNCHANGED <<disk, entries, pending, registered, tail, flushing, sent, copied,
                 viewer, torn>>

FlushTake(by) ==
  /\ FlushFree
  /\ Wants(by)
  /\ ui.rev # ui.committed
  /\ flushing' = [by |-> by, pc |-> "taken", gen |-> ui.gen, rev |-> ui.rev,
                  next |-> ui.next, failed |-> ui.failed,
                  entries |-> [m \in Messages |->
                    IF entries[m].rev > ui.committed THEN entries[m] ELSE Absent]]
  /\ UNCHANGED <<disk, memory, job, uiRun, sent, copied, stopped, viewer, torn>>

(* The row must still be at the generation and revision last stored.       *)
RowMatches == row.gen = flushing.gen /\ row.rev = ui.committed

FlushWrite ==
  /\ flushing.by # "nobody" /\ flushing.pc = "taken"
  /\ RowMatches
  /\ row' = [gen |-> flushing.gen, rev |-> flushing.rev, next |-> flushing.next,
             failed |-> flushing.failed]
  /\ rows' = [m \in Messages |->
                IF Present(flushing.entries[m]) THEN flushing.entries[m] ELSE rows[m]]
  /\ flushing' = [flushing EXCEPT !.pc = "written"]
  /\ UNCHANGED <<records, memory, job, uiRun, sent, copied, stopped, viewer, torn>>

FlushFails ==
  /\ flushing.by # "nobody" /\ flushing.pc = "taken"
  /\ ~RowMatches \/ "store" \in StoreFaults
  /\ flushing' = NoFlush
  /\ Answer(flushing.by, FALSE, ui)
  /\ UNCHANGED <<disk, entries, pending, registered, tail, sent, copied, viewer, torn>>

(* What memory keeps once everything up to the flushed revision is stored. *)
Kept(m) ==
  \/ pending[m] > 0
  \/ entries[m].rev > flushing.rev
  \/ Active(m, entries[m])
  \/ RunOf[m] \in registered

FlushSettle ==
  /\ flushing.by # "nobody" /\ flushing.pc = "written"
  /\ ui.gen = flushing.gen
  /\ entries' = [m \in Messages |-> IF Kept(m) THEN entries[m] ELSE Absent]
  /\ flushing' = NoFlush
  /\ Answer(flushing.by, ~ui.failed, [ui EXCEPT !.committed = flushing.rev])
  /\ UNCHANGED <<disk, pending, registered, tail, sent, copied, viewer, torn>>

-----------------------------------------------------------------------------
(* The end of a run: flush, check what it left, unregister.                *)

Own(r) == {m \in Messages : RunOf[m] = r}

(* The forwarder has journaled all it was handed, or has stopped; input    *)
(* still streaming at the end stays accumulated.                           *)
Drained(r) ==
  \/ r \in stopped
  \/ \A m \in Own(r) : /\ Kind[m] = "segment" => sent[m] >= copied[m]
                       /\ Kind[m] = "tool" => sent[m] = copied[m] \/ copied[m] < Last[m]

EndRun(r) ==
  /\ uiRun[r].pc = "open"
  /\ job.kind = "append" => ~Streamed(job.msg) \/ RunOf[job.msg] # r
  /\ Drained(r)
  /\ uiRun' = [uiRun EXCEPT ![r].pc = "flush"]
  /\ UNCHANGED <<disk, memory, job, flushing, sent, copied, stopped, viewer, torn>>

Obsolete(r) == uiRun[r].gen # ui.gen \/ r \notin registered

(* Mutant: only what is still being appended keeps a run from ending.      *)
UnfinishedPending(m) == Present(entries[m]) /\ pending[m] > 0

(* A snapshot that is not confirmed, or not closed.                        *)
Unfinished(m) ==
  /\ Present(entries[m])
  /\ \/ pending[m] > 0
     \/ Kind[m] # "error" /\ (~entries[m].committed \/ Active(m, entries[m]))

(* finish_registered of a run that may not end: the session fails.         *)
CheckRefuses(r) ==
  /\ uiRun[r].pc = "check"
  /\ Obsolete(r) \/ \E m \in Own(r) : Unfinished(m)
  /\ ui' = IF Obsolete(r) THEN ui ELSE [ui EXCEPT !.failed = TRUE, !.rev = @ + 1]
  /\ uiRun' = [uiRun EXCEPT ![r].pc = "last"]
  /\ UNCHANGED <<disk, entries, pending, registered, tail, job, flushing, sent,
                 copied, stopped, viewer, torn>>

CheckRun(r) ==
  /\ uiRun[r].pc = "check"
  /\ ~Obsolete(r) /\ \A m \in Own(r) : ~Unfinished(m)
  /\ registered' = registered \ {r}
  /\ entries' = [m \in Messages |->
                   IF RunOf[m] = r /\ entries[m].rev <= ui.committed
                   THEN Absent ELSE entries[m]]
  /\ uiRun' = [uiRun EXCEPT ![r].pc = IF ui.failed THEN "last" ELSE "finished"]
  /\ UNCHANGED <<disk, ui, pending, tail, job, flushing, sent, copied, stopped,
                 viewer, torn>>

(* The task of a run is dropped: its registration stays.                   *)
DropRun(r) ==
  /\ "dropped" \in StoreFaults
  /\ uiRun[r].pc \in {"open", "flush", "check", "last"}
  /\ uiRun' = [uiRun EXCEPT ![r].pc = "dropped"]
  /\ flushing' = IF flushing.by = r THEN NoFlush ELSE flushing
  /\ UNCHANGED <<disk, memory, job, sent, copied, stopped, viewer, torn>>

-----------------------------------------------------------------------------
(* truncate_from_user_message and clear, under the journal mutex.          *)

BeginTruncate(b) ==
  /\ job = NoJob
  /\ ui.gen < MaxGenerations
  /\ Kind[records[b + 1].msg] = "user"
  /\ job' = [kind |-> "truncate", pc |-> "flush", keep |-> b]
  /\ UNCHANGED <<disk, memory, flushing, uiRun, sent, copied, stopped, viewer, torn>>

(* The files of the session go first; if they do not, the session fails.   *)
BeginClear ==
  /\ job = NoJob
  /\ ui.gen < MaxGenerations
  /\ \/ job' = [kind |-> "clear", pc |-> "cut", keep |-> 0] /\ UNCHANGED ui
     \/ /\ "prune" \in StoreFaults
        /\ job' = [kind |-> "clear", pc |-> "flush", keep |-> 0]
        /\ ui' = Failed(ui)
  /\ UNCHANGED <<disk, entries, pending, registered, tail, flushing, uiRun, sent,
                 copied, stopped, viewer, torn>>

Crosses(e) == e.first \in 1 .. job.keep /\ e.last > job.keep
Splits == job.kind = "truncate" /\ \E m \in Messages : Crosses(rows[m])

(* validate_canonical_cut, then the journal is cut.                        *)
Cut ==
  /\ job.pc = "cut"
  /\ ~Splits
  /\ records' = SubSeq(records, 1, job.keep)
  /\ job' = [job EXCEPT !.pc = "erase"]
  /\ UNCHANGED <<row, rows, memory, flushing, uiRun, sent, copied, stopped, viewer,
                 torn>>

CutFails ==
  /\ job.pc = "cut"
  /\ Splits \/ "store" \in StoreFaults
  /\ job' = NoJob
  /\ ui' = IF job.kind = "clear" THEN Failed(ui) ELSE ui
  /\ UNCHANGED <<disk, entries, pending, registered, tail, flushing, uiRun, sent,
                 copied, stopped, viewer, torn>>

(* UiHistorySession::truncate: the rows behind the cut, and those shown    *)
(* after the first of them.                                                *)
Erased(m) ==
  \/ job.keep = 0
  \/ rows[m].last > job.keep
  \/ \E n \in Messages : rows[n].first > job.keep /\ rows[m].pos >= rows[n].pos

EraseRows ==
  /\ job.pc = "erase"
  /\ flushing = NoFlush
  /\ row.gen = ui.gen
  /\ rows' = [m \in Messages |-> IF Erased(m) THEN Absent ELSE rows[m]]
  /\ \E next \in 0 .. row.next :
       /\ \A m \in Messages : Present(rows'[m]) => rows'[m].pos < next
       /\ next > 0 => \E m \in Messages : Present(rows'[m]) /\ rows'[m].pos + 1 = next
       /\ row' = [gen |-> row.gen + 1, rev |-> ui.rev + 1, next |-> next,
                  failed |-> FALSE]
  /\ job' = [job EXCEPT !.pc = "erased"]
  /\ torn' = (torn /\ job.keep > 0)
  /\ UNCHANGED <<records, memory, flushing, uiRun, sent, copied, stopped, viewer>>

EraseFails ==
  /\ job.pc = "erase"
  /\ flushing = NoFlush
  /\ row.gen # ui.gen \/ "store" \in StoreFaults
  /\ ui' = Failed(ui)
  /\ job' = NoJob
  /\ torn' = TRUE
  /\ UNCHANGED <<disk, entries, pending, registered, tail, flushing, uiRun, sent,
                 copied, stopped, viewer>>

(* Pruning the media fails: the truncation ends here, and nothing is told. *)
PruneFails ==
  /\ job.pc = "erase" /\ job.kind = "truncate"
  /\ "prune" \in StoreFaults
  /\ job' = NoJob
  /\ torn' = TRUE
  /\ UNCHANGED <<disk, memory, flushing, uiRun, sent, copied, stopped, viewer>>

EraseMemory ==
  /\ job.pc = "erased"
  /\ ui' = [Loaded EXCEPT !.timer = ui.timer]
  /\ entries' = Nothing
  /\ pending' = [m \in Messages |-> 0]
  /\ registered' = {}
  /\ tail' = job.keep
  /\ job' = NoJob
  /\ UNCHANGED <<disk, flushing, uiRun, sent, copied, stopped, viewer, torn>>

(* The future of the call is dropped at an await.                          *)
DropJob ==
  /\ "dropped" \in StoreFaults
  /\ job # NoJob
  /\ job' = NoJob
  /\ flushing' = IF flushing.by = "job" THEN NoFlush ELSE flushing
  /\ stopped' = IF job.kind = "append" THEN StopForwarder(job.msg) ELSE stopped
  /\ torn' = (torn \/ job.pc = "erase")
  /\ UNCHANGED <<disk, memory, uiRun, sent, copied, viewer>>

-----------------------------------------------------------------------------
(* A subscription: a page of the history, then updates since its revision. *)

GotoView(v, w) ==
  /\ viewer' = [viewer EXCEPT ![v] = w]
  /\ UNCHANGED <<disk, memory, job, flushing, uiRun, sent, copied, stopped, torn>>

(* page marks the generation and what is stored, and is to read the rows.  *)
Page == [Closed EXCEPT !.pc = "page", !.gen = ui.gen, !.mark = ui.committed]

(* Mutant: nothing tells that rows were stored while they were read.       *)
UnmovedGeneration(v) == ui.gen = viewer[v].gen

(* Since the mark nothing was stored and nothing cut.                      *)
Unmoved(v) == ui.gen = viewer[v].gen /\ ui.committed = viewer[v].mark

OpenView(v) == viewer[v].pc = "closed" /\ ~ui.failed /\ GotoView(v, Page)

ReadPage(v) ==
  viewer[v].pc = "page" /\ GotoView(v, [viewer[v] EXCEPT !.pc = "pageRead", !.read = rows])

(* Memory is laid over the rows if nothing was stored since the mark.      *)
ShowPage(v) ==
  /\ viewer[v].pc = "pageRead"
  /\ ~ui.failed
  /\ Unmoved(v)
  /\ GotoView(v, [Closed EXCEPT !.pc = "open", !.gen = ui.gen, !.rev = ui.rev,
                            !.shown = [m \in Messages |->
                              IF Present(entries[m]) THEN entries[m] ELSE viewer[v].read[m]]])

RetryPage(v) ==
  viewer[v].pc = "pageRead" /\ ~ui.failed /\ ~Unmoved(v) /\ GotoView(v, Page)

(* A change of the session wakes it: an update, or a page after a cut.     *)
WakeView(v) ==
  /\ viewer[v].pc = "open"
  /\ ~ui.failed
  /\ \/ ui.gen # viewer[v].gen /\ GotoView(v, Page)
     \/ /\ ui.gen = viewer[v].gen /\ ui.rev > viewer[v].rev
        /\ GotoView(v, [viewer[v] EXCEPT !.pc = "update", !.mark = ui.committed])

ReadUpdate(v) ==
  /\ viewer[v].pc = "update"
  /\ GotoView(v, [viewer[v] EXCEPT !.pc = "updateRead",
                               !.read = [m \in Messages |->
                                 IF viewer[v].mark > viewer[v].rev /\ rows[m].rev > viewer[v].rev
                                 THEN rows[m] ELSE Absent]])

(* The batch that is sent, and the reducer of the browser that merges it.  *)
Batch(v, m) == IF entries[m].rev > viewer[v].rev THEN entries[m] ELSE viewer[v].read[m]
Merged(v, m) ==
  IF Batch(v, m).rev > viewer[v].shown[m].rev THEN Batch(v, m) ELSE viewer[v].shown[m]

ShowUpdate(v) ==
  /\ viewer[v].pc = "updateRead"
  /\ ~ui.failed
  /\ Unmoved(v)
  /\ GotoView(v, [viewer[v] EXCEPT !.pc = "open", !.rev = ui.rev, !.mark = 0, !.read = Nothing,
                               !.shown = [m \in Messages |-> Merged(v, m)]])

(* What was stored since moved on; or the batch exceeds the limit.         *)
RetryUpdate(v) ==
  /\ viewer[v].pc = "updateRead"
  /\ ~ui.failed
  /\ \/ /\ ui.gen = viewer[v].gen /\ ui.committed # viewer[v].mark
        /\ GotoView(v, [viewer[v] EXCEPT !.pc = "update", !.mark = ui.committed, !.read = Nothing])
     \/ GotoView(v, Page)

(* A failed session closes its subscriptions; a client may leave.          *)
CloseView(v) == viewer[v].pc # "closed" /\ GotoView(v, Closed)

-----------------------------------------------------------------------------
Holding == {"open", "flush", "check", "last"}
Held == \/ job # NoJob \/ flushing # NoFlush
        \/ \E r \in Runs : uiRun[r].pc \in Holding
        \/ \E v \in Viewers : viewer[v].pc # "closed"

(* The last holder lets go of the session and it is loaded anew; or the    *)
(* process is killed and restarted.                                        *)
Reload ==
  /\ ~Held \/ "crash" \in StoreFaults
  /\ ui' = Loaded
  /\ entries' = Nothing
  /\ pending' = [m \in Messages |-> 0]
  /\ registered' = {}
  /\ tail' = Len(records)
  /\ job' = NoJob
  /\ flushing' = NoFlush
  /\ uiRun' = [r \in Runs |-> IF uiRun[r].pc \in Holding
                              THEN [uiRun[r] EXCEPT !.pc = "dropped"] ELSE uiRun[r]]
  /\ viewer' = [v \in Viewers |-> Closed]
  /\ torn' = (torn \/ job.pc = "erase")
  /\ UNCHANGED <<disk, sent, copied, stopped>>

Appends == \/ \E m \in Messages : \E v \in 1 .. Last[m] : Stage(m, v) \/ StageRefused(m, v)
           \/ \E m \in Messages : BeginUpdate(m)
           \/ Rewrite \/ RewriteFails \/ Replace \/ ReplaceFails
           \/ WriteRecord \/ WriteFails \/ Bind \/ BindFails
Flushes == \/ \E by \in Runs \cup {"job", "timer"} : FlushNothing(by) \/ FlushTake(by)
           \/ FlushWrite \/ FlushFails \/ FlushSettle
RunSteps(r) == BeginRun(r) \/ EndRun(r) \/ CheckRefuses(r) \/ CheckRun(r) \/ DropRun(r)
Copies == \E m \in Messages : Copy(m) \/ CopyRefused(m)
Cuts == \/ \E b \in 0 .. Len(records) - 1 : BeginTruncate(b)
        \/ BeginClear \/ Cut \/ CutFails \/ EraseRows \/ EraseFails \/ PruneFails
        \/ EraseMemory
Views(v) == \/ OpenView(v) \/ ReadPage(v) \/ ShowPage(v) \/ RetryPage(v) \/ WakeView(v)
            \/ ReadUpdate(v) \/ ShowUpdate(v) \/ RetryUpdate(v) \/ CloseView(v)

NextHistory == \/ Copies \/ Appends \/ Flushes \/ Cuts \/ DropJob \/ Reload
               \/ \E r \in Runs : RunSteps(r)
               \/ \E v \in Viewers : Views(v)

HistorySpec == InitHistory /\ [][NextHistory]_historyVars

-----------------------------------------------------------------------------
JournalRecords == [msg : Messages, ver : Nat]
Rows == [gen : Nat, rev : Nat, next : Nat, failed : BOOLEAN]
UiStates == [gen : Nat, rev : Nat, committed : Nat, next : Nat, failed : BOOLEAN,
             timer : BOOLEAN]
JobsOfAppend == [kind : {"append"}, pc : {"staged", "written", "flush"}, msg : Messages,
                 ver : Nat, confirms : BOOLEAN, of : Nat, gen : Nat, index : Nat]
JobsOfUpdate == [kind : {"update"}, pc : {"rewrite", "replace", "flush"}, msg : Messages,
                 ver : Nat, was : Nat, index : Nat]
JobsOfCut == [kind : {"truncate", "clear"}, pc : {"flush", "cut", "erase", "erased"},
              keep : Nat]
FlushesTaken == [by : Runs \cup {"job", "timer"}, pc : {"taken", "written"}, gen : Nat,
                 rev : Nat, next : Nat, failed : BOOLEAN, entries : [Messages -> Snapshots]]
RunStates == [pc : {"new", "finished", "failed", "dropped"} \cup Holding, gen : Nat]
Subscriptions ==
  [pc : {"closed", "page", "pageRead", "open", "update", "updateRead"},
   gen : Nat, rev : Nat, mark : Nat,
   read : [Messages -> Snapshots], shown : [Messages -> Snapshots]]

(* Every variable keeps its type.                                          *)
HistoryTypeOK ==
  /\ records \in Seq(JournalRecords)
  /\ row \in Rows
  /\ rows \in [Messages -> Snapshots]
  /\ ui \in UiStates
  /\ entries \in [Messages -> Snapshots]
  /\ pending \in [Messages -> Nat]
  /\ registered \subseteq Runs
  /\ tail \in Nat
  /\ job \in {NoJob} \cup JobsOfAppend \cup JobsOfUpdate \cup JobsOfCut
  /\ flushing \in {NoFlush} \cup FlushesTaken
  /\ uiRun \in [Runs -> RunStates]
  /\ sent \in [Messages -> Nat]
  /\ copied \in [Messages -> Nat]
  /\ stopped \subseteq Runs
  /\ viewer \in [Viewers -> Subscriptions]
  /\ torn \in BOOLEAN

(* A snapshot is bound to a record of its own message; a confirmed one to  *)
(* the record of the version it shows, or to a later update of it.         *)
Owned(m, e) ==
  /\ e.record \in {0} \cup e.first .. e.last
  /\ e.last <= Len(records)
  /\ e.record > 0 =>
       /\ records[e.record].msg = m
       /\ e.committed => \/ records[e.record].ver = e.ver
                         \/ records[e.record].ver > e.ver /\ e.ver >= Last[m]

(* However appends, flushes, failures and restarts interleave, what the    *)
(* history shows is bound to the journal as it is: a snapshot never points *)
(* past the journal or to another message's record, unless a cut journal   *)
(* still waits for its snapshots, or was left without them.                *)
RecordsAreOwned ==
  ~torn /\ job.pc # "erase" /\ row.gen = ui.gen => \A m \in Messages : Owned(m, Shown(m))

(* A subscriber at revision n of a generation shows every message as it is *)
(* if that last changed at n or before, and no message that is not there:  *)
(* no flush, eviction or append while its rows are read loses an update.   *)
SubscriberIsCurrent ==
  \A v \in Viewers : viewer[v].pc = "open" /\ viewer[v].gen = ui.gen /\ row.gen = ui.gen =>
    \A m \in Messages :
      /\ Shown(m).rev <= viewer[v].rev => viewer[v].shown[m] = Shown(m)
      /\ Present(viewer[v].shown[m]) => Present(Shown(m))

(* A run that ended well is in the database as the user saw it: whatever   *)
(* it streamed is stored, confirmed and closed, until the history is cut.  *)
FinishedRunIsStored ==
  \A m \in Messages :
    /\ Streamed(m) /\ copied[m] + sent[m] > 0
    /\ uiRun[RunOf[m]].pc = "finished" /\ uiRun[RunOf[m]].gen = row.gen
    => rows[m].committed /\ ~Active(m, rows[m]) /\ rows[m].ver >= copied[m]
=============================================================================
