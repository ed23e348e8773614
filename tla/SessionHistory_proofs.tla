----------------------- MODULE SessionHistory_proofs -----------------------
(***************************************************************************)
(* The stored history of a session, for any messages, runs, subscribers    *)
(* and failures: snapshots stay bound to the journal, a run that ended     *)
(* well is stored, and no subscriber misses an update.                     *)
(***************************************************************************)
EXTENDS SessionHistory, SequenceTheorems, TLAPS

-----------------------------------------------------------------------------
(* The invariants. *)

(* A snapshot is absent as a whole; its binding is a range of records.  c  *)
(* versions of its message were copied, s of them appended.                *)
Sound(m, e, c, s) ==
  /\ Present(e) \/ e = Absent
  /\ Present(e) => e.rev > 0
  /\ e.record \in {0} \cup e.first .. e.last
  /\ e.record > 0 => e.first > 0
  /\ Kind[m] # "user" /\ Present(e) => c + s > 0
  /\ Kind[m] \in {"user", "segment"} /\ (e.ver >= Last[m] \/ e.record > 0) => s >= Last[m]
  /\ e.committed => e.ver <= s \/ s >= Last[m]

Flushing == flushing # NoFlush
Attached == row.gen = ui.gen

SnapshotsSound ==
  \A m \in Messages :
    /\ Sound(m, rows[m], copied[m], sent[m]) /\ Sound(m, entries[m], copied[m], sent[m])
    /\ Flushing => Sound(m, flushing.entries[m], copied[m], sent[m])

(* Who was there before: generations only grow.                            *)
Generations ==
  /\ ui.gen <= row.gen
  /\ job.pc = "erased" => ui.gen < row.gen
  /\ \A r \in Runs : uiRun[r].gen <= ui.gen
  /\ \A v \in Viewers : viewer[v].gen <= ui.gen
  /\ \A v \in Viewers : viewer[v].gen = ui.gen =>
       /\ viewer[v].mark <= ui.committed
       /\ viewer[v].rev <= ui.rev

(* Revisions and positions are below the counters they were taken from,    *)
(* and what is being appended is in memory.                                *)
Counted ==
  /\ ui.committed <= ui.rev /\ row.next <= ui.next
  /\ \A m \in Messages : pending[m] > 0 => Present(entries[m])
  /\ \A m \in Messages :
       /\ rows[m].rev <= row.rev /\ rows[m].rev <= ui.rev /\ entries[m].rev <= ui.rev
       /\ Present(rows[m]) => rows[m].pos < row.next
       /\ Present(entries[m]) => entries[m].pos < ui.next
  /\ Attached => ui.committed <= row.rev /\ row.rev <= ui.rev

(* Memory over the rows: what is stored is a version of what is in memory, *)
(* and what memory no longer has is stored as it was.                      *)
InStep ==
  Attached => \A m \in Messages :
    /\ Present(entries[m]) /\ entries[m].rev <= row.rev => rows[m] = entries[m]
    /\ Present(entries[m]) /\ Present(rows[m]) =>
         rows[m].rev <= entries[m].rev /\ rows[m].pos = entries[m].pos
    /\ ~Present(entries[m]) => rows[m].rev <= ui.committed
    /\ Streamed(m) /\ RunOf[m] \in registered /\ Present(rows[m]) => Present(entries[m])

(* The snapshot of a flush under way.                                      *)
FlushSound ==
  Flushing =>
    /\ job.pc # "erased"
    /\ flushing.gen = ui.gen
    /\ ui.committed < flushing.rev /\ flushing.rev <= ui.rev
    /\ row.next <= flushing.next /\ flushing.next <= ui.next
    /\ \A m \in Messages : LET f == flushing.entries[m] IN
         /\ Present(f) => /\ ui.committed < f.rev /\ f.rev <= flushing.rev
                          /\ f.pos < flushing.next
                          /\ Present(entries[m]) /\ entries[m].pos = f.pos
                          /\ entries[m] = f \/ entries[m].rev > flushing.rev
         /\ Attached /\ ~Present(f) => \/ ~Present(entries[m])
                                       \/ entries[m].rev <= ui.committed
                                       \/ entries[m].rev > flushing.rev
    /\ flushing.pc = "written" =>
         /\ Attached
         /\ row.rev = flushing.rev
         /\ \A m \in Messages : Present(flushing.entries[m]) => rows[m] = flushing.entries[m]

StoreInv == Generations /\ Counted /\ InStep /\ FlushSound

-----------------------------------------------------------------------------
(* The journal mutex and the runs.                                         *)
AppendSound ==
  job.kind = "append" =>
    /\ Kind[job.msg] # "error"
    /\ job.ver > 0
    /\ job.ver = sent[job.msg]
    /\ Streamed(job.msg) => uiRun[RunOf[job.msg]].pc \in {"open", "dropped"}
    /\ job.pc \in {"staged", "written"} =>
         /\ ~entries[job.msg].committed
         /\ job.confirms => job.of = job.ver
    /\ job.pc = "written" =>
         /\ job.index = Len(records) /\ job.index > 0
         /\ records[job.index] = [msg |-> job.msg, ver |-> job.ver]
UpdateSound ==
  job.kind = "update" =>
    /\ Kind[job.msg] \in {"user", "segment"}
    /\ job.ver > job.was /\ ~Active(job.msg, [Absent EXCEPT !.ver = job.was])
    /\ job.pc \in {"rewrite", "replace"} =>
         /\ job.index \in 1 .. Len(records)
         /\ records[job.index].msg = job.msg
    /\ job.pc = "rewrite" => records[job.index].ver < job.ver
    /\ job.pc = "replace" => records[job.index].ver = job.ver
CutSound ==
  job.kind \in {"truncate", "clear"} =>
    /\ job.kind = "clear" => job.keep = 0
    /\ job.pc \in {"flush", "cut"} => job.keep <= Len(records)
    /\ job.pc = "erase" => job.keep = Len(records)
JobSound == AppendSound /\ UpdateSound /\ CutSound

RunSound(m) ==
  /\ uiRun[RunOf[m]].pc = "new" =>
       /\ RunOf[m] \notin registered
       /\ Kind[m] # "user" => copied[m] = 0 /\ sent[m] = 0
  /\ Kind[m] = "segment" => copied[m] < Last[m]
  /\ sent[m] <= Last[m]
  /\ Kind[m] = "error" => sent[m] = 0
  /\ Streamed(m) /\ copied[m] + sent[m] > 0 /\ RunOf[m] \in registered
       /\ uiRun[RunOf[m]].gen = ui.gen /\ ~ui.failed
     => Present(entries[m]) /\ entries[m].ver >= copied[m]
RunsSound == \A m \in Messages : RunSound(m)

(* Every snapshot is owned; behind a cut, those that stay.                 *)
OwnedHere(m, e) ==
  \/ job.pc = "erase" /\ e.last > Len(records)
  \/ /\ Owned(m, e)
     /\ e.record > 0 /\ Kind[m] = "segment" => records[e.record].ver >= Last[m]
BoundInv ==
  ~torn => \A m \in Messages :
    /\ OwnedHere(m, rows[m])
    /\ Attached => OwnedHere(m, entries[m])
    /\ Attached /\ Flushing => OwnedHere(m, flushing.entries[m])

-----------------------------------------------------------------------------
(* What a reader holds is what was stored at its mark.                     *)
ReadSound(v) ==
  LET w == viewer[v] IN
  Attached /\ w.gen = ui.gen /\ w.mark = ui.committed =>
    /\ w.pc = "pageRead" =>
         \A m \in Messages : rows[m].rev > ui.committed \/ w.read[m] = rows[m]
    /\ w.pc = "updateRead" =>
         /\ w.mark <= w.rev => w.read = Nothing
         /\ \A m \in Messages :
              \/ rows[m].rev > ui.committed
              \/ w.read[m] = (IF rows[m].rev > w.rev THEN rows[m] ELSE Absent)
ShownSound(v) ==
  LET w == viewer[v] IN
  Attached /\ w.gen = ui.gen /\ w.pc \in {"open", "update", "updateRead"} =>
    \A m \in Messages :
      /\ Shown(m).rev <= w.rev => w.shown[m] = Shown(m)
      /\ Present(w.shown[m]) => Present(Shown(m))
      /\ w.shown[m].rev <= w.rev
ViewInv == \A v \in Viewers : ReadSound(v) /\ ShownSound(v)

-----------------------------------------------------------------------------
Good(m, e) == e.committed /\ ~Active(m, e) /\ e.ver >= copied[m]
Ending(r) == uiRun[r].pc = "check" \/ (uiRun[r].pc = "flush" /\ Flushing /\ flushing.by = r)
Stored(m) ==
  Streamed(m) /\ copied[m] + sent[m] > 0 =>
    LET r == RunOf[m] IN
    /\ Attached /\ Ending(r) /\ Good(m, entries[m]) =>
         /\ Flushing /\ Present(flushing.entries[m]) => Good(m, flushing.entries[m])
         /\ uiRun[r].pc = "check" \/ ~Present(flushing.entries[m]) => Good(m, rows[m])
    /\ uiRun[r].pc = "finished" /\ uiRun[r].gen = row.gen =>
         /\ Good(m, rows[m])
         /\ Attached => /\ Present(entries[m]) => Good(m, entries[m])
                        /\ Flushing /\ Present(flushing.entries[m]) => Good(m, flushing.entries[m])
StoredInv == \A m \in Messages : Stored(m)

DataInv == SnapshotsSound /\ JobSound /\ RunsSound

-----------------------------------------------------------------------------
(* The steps. *)

Flushers == Runs \cup {"job", "timer"}

(* The same session: at most a failure was noted in it.                    *)
Ticks(u, w) == /\ w.gen = u.gen /\ w.committed = u.committed /\ w.next = u.next
               /\ u.rev <= w.rev /\ (u.failed => w.failed)

LEMMA Typed ==
  ASSUME HistoryTypeOK
  PROVE  /\ job.kind = "append" => job \in JobsOfAppend
         /\ job.kind = "update" => job \in JobsOfUpdate
         /\ job.kind \in {"truncate", "clear"} => job \in JobsOfCut
         /\ job.pc \in {"staged", "written"} => job.kind = "append"
         /\ job.pc \in {"rewrite", "replace"} => job.kind = "update"
         /\ job.pc \in {"cut", "erase", "erased"} => job.kind \in {"truncate", "clear"}
         /\ job.pc = "flush" => job.kind \in {"append", "update", "truncate", "clear"}
         /\ flushing.by # "nobody" <=> flushing # NoFlush
         /\ flushing # NoFlush => flushing \in FlushesTaken
         /\ Absent \in Snapshots /\ ~Present(Absent)
         /\ Nothing \in [Messages -> Snapshots]
         /\ \A m \in Messages : Shown(m) \in Snapshots
<1>1. job \in {NoJob} \cup JobsOfAppend \cup JobsOfUpdate \cup JobsOfCut
  BY DEF HistoryTypeOK
<1>2. /\ job \in JobsOfAppend => job.kind = "append" /\ job.pc \in {"staged", "written", "flush"}
      /\ job \in JobsOfUpdate => job.kind = "update" /\ job.pc \in {"rewrite", "replace", "flush"}
      /\ job \in JobsOfCut => /\ job.kind \in {"truncate", "clear"}
                             /\ job.pc \in {"flush", "cut", "erase", "erased"}
      /\ job = NoJob => job.kind = "none" /\ job.pc = "idle"
  BY DEF JobsOfAppend, JobsOfUpdate, JobsOfCut, NoJob
<1>3. flushing \in {NoFlush} \cup FlushesTaken
  BY DEF HistoryTypeOK
<1>4. /\ flushing = NoFlush => flushing.by = "nobody"
      /\ flushing \in FlushesTaken => flushing.by # "nobody"
  BY HistoryAssumption DEF NoFlush, FlushesTaken
<1>5. Absent \in Snapshots /\ ~Present(Absent)
  BY DEF Absent, Snapshots, Present
<1>6. Nothing \in [Messages -> Snapshots] /\ \A m \in Messages : Shown(m) \in Snapshots
  BY <1>5 DEF Nothing, Shown, HistoryTypeOK
<1> QED BY <1>1, <1>2, <1>3, <1>4, <1>5, <1>6

LEMMA FailedTicks ==
  ASSUME NEW u \in UiStates
  PROVE  /\ Failed(u) \in UiStates /\ Ticks(u, Failed(u)) /\ Failed(u).failed
         /\ [Failed(u) EXCEPT !.timer = FALSE] \in UiStates
         /\ Ticks(u, [Failed(u) EXCEPT !.timer = FALSE])
         /\ Ticks(u, u)
         /\ [u EXCEPT !.failed = TRUE, !.rev = @ + 1] \in UiStates
         /\ Ticks(u, [u EXCEPT !.failed = TRUE, !.rev = @ + 1])
<1>1. ASSUME NEW w \in UiStates
      PROVE  /\ [w EXCEPT !.timer = FALSE] \in UiStates
             /\ Ticks(w, [w EXCEPT !.timer = FALSE]) /\ Ticks(w, w)
  <2>1. [w EXCEPT !.timer = FALSE] \in UiStates
    BY DEF UiStates
  <2>2. Ticks(w, w)
    BY DEF Ticks, UiStates
  <2>3. Ticks(w, [w EXCEPT !.timer = FALSE])
    BY <2>1 DEF Ticks, UiStates
  <2> QED BY <2>1, <2>2, <2>3
<1> DEFINE x == [u EXCEPT !.failed = TRUE, !.rev = @ + 1]
<1>2. x \in UiStates /\ Ticks(u, x) /\ x.failed
  <2> DEFINE y == [u EXCEPT !.failed = TRUE]
  <2>1. y \in UiStates /\ y.rev = u.rev
    BY DEF UiStates
  <2>2. \A z \in UiStates : [z EXCEPT !.rev = @ + 1] \in UiStates
    BY DEF UiStates
  <2>3. [y EXCEPT !.rev = @ + 1] \in UiStates
    <3> HIDE DEF y
    <3> QED BY <2>1, <2>2
  <2>4. x.failed /\ Ticks(u, x)
    BY DEF UiStates, Ticks
  <2> QED BY <2>1, <2>3, <2>4
<1>3. Failed(u) \in UiStates /\ Ticks(u, Failed(u)) /\ Failed(u).failed
  <2>1. CASE u.failed
    BY <2>1, <1>1 DEF Failed
  <2>2. CASE ~u.failed
    <3>1. Failed(u) = [u EXCEPT !.failed = TRUE, !.rev = @ + 1]
      BY <2>2, Zenon DEF Failed
    <3> QED BY <3>1, <1>2
  <2> QED BY <2>1, <2>2
<1>4. ASSUME NEW v \in UiStates, NEW w \in UiStates, Ticks(u, v), Ticks(v, w)
      PROVE  Ticks(u, w)
  <2>1. u.rev \in Nat /\ v.rev \in Nat /\ w.rev \in Nat
    BY DEF UiStates
  <2> QED BY <1>4, <2>1 DEF Ticks
<1> QED BY <1>1, <1>2, <1>3, <1>4

LEMMA Stops ==
  ASSUME HistoryTypeOK, NEW m \in Messages
  PROVE  /\ stopped \subseteq StopForwarder(m) /\ StopForwarder(m) \subseteq Runs
         /\ RunOf[m] \in Runs /\ Last[m] \in Nat \ {0}
BY HistoryAssumption DEF HistoryTypeOK, StopForwarder

(* What the answer of a flush does to its caller. *)
LEMMA AnswerFacts ==
  ASSUME HistoryTypeOK, NEW by \in Flushers, NEW ok \in BOOLEAN, NEW u \in UiStates,
         Answer(by, ok, u)
  PROVE  /\ ui' \in UiStates /\ Ticks(u, ui')
         /\ ok => ui' = u
         /\ \/ job' = job /\ by # "job"
            \/ job' = NoJob /\ by = "job"
            \/ /\ job.kind = "truncate" /\ by = "job" /\ ok
               /\ job' = [job EXCEPT !.pc = "cut"]
         /\ stopped \subseteq stopped' /\ stopped' \subseteq Runs
         /\ uiRun' \in [Runs -> RunStates]
         /\ \A r \in Runs : /\ uiRun'[r].gen = uiRun[r].gen
                            /\ by # r => uiRun'[r] = uiRun[r]
                            /\ by = r => uiRun'[r].pc \in {"check", "failed"}
                            /\ by = r /\ uiRun'[r].pc = "check" => ok /\ uiRun[r].pc = "flush"
<1> USE DEF Flushers
<1>1. ui' \in UiStates /\ Ticks(u, ui') /\ (ok => ui' = u)
  <2>1. CASE ok
    BY <2>1, FailedTicks DEF Answer
  <2>2. CASE ~ok
    <3>1. \/ ui' = u \/ ui' = Failed(u) \/ ui' = [Failed(u) EXCEPT !.timer = FALSE]
      BY <2>2, Zenon DEF Answer
    <3> QED BY <2>2, <3>1, FailedTicks
  <2> QED BY <2>1, <2>2
<1>2. \/ job' = job /\ by # "job"
      \/ job' = NoJob /\ by = "job"
      \/ /\ job.kind = "truncate" /\ by = "job" /\ ok
         /\ job' = [job EXCEPT !.pc = "cut"]
  BY Zenon DEF Answer
<1>3. stopped \subseteq stopped' /\ stopped' \subseteq Runs
  <2>1. CASE by = "job" /\ job.kind = "append" /\ ~ok
    <3>1. job.msg \in Messages
      BY <2>1, Typed DEF JobsOfAppend
    <3> QED BY <2>1, <3>1, Stops DEF Answer
  <2>2. CASE ~(by = "job" /\ job.kind = "append" /\ ~ok)
    BY <2>2 DEF Answer, HistoryTypeOK
  <2> QED BY <2>1, <2>2
<1>4. uiRun \in [Runs -> RunStates]
  BY DEF HistoryTypeOK
<1>5. CASE by \in Runs
  <2>1. uiRun' = [uiRun EXCEPT ![by].pc =
                    IF @ = "flush" /\ ok THEN "check" ELSE "failed"]
    BY <1>5 DEF Answer
  <2> QED BY <1>1, <1>2, <1>3, <1>4, <1>5, <2>1 DEF RunStates, Holding
<1>6. CASE by \notin Runs
  <2>1. uiRun' = uiRun
    BY <1>6 DEF Answer
  <2> QED BY <1>1, <1>2, <1>3, <1>4, <1>6, <2>1
<1> QED BY <1>5, <1>6

(* A snapshot that is written again remains one. *)
LEMMA SnapshotEdits ==
  ASSUME NEW e \in Snapshots, NEW v \in Nat, NEW r \in Nat, NEW p \in Nat
  PROVE  /\ [e EXCEPT !.ver = v, !.rev = r, !.committed = FALSE] \in Snapshots
         /\ [e EXCEPT !.ver = v, !.rev = r] \in Snapshots
         /\ [e EXCEPT !.ver = v, !.rev = r, !.pos = p] \in Snapshots
<1>1. [e EXCEPT !.ver = v, !.rev = r, !.committed = FALSE] \in Snapshots
  BY DEF Snapshots
<1>2. [e EXCEPT !.ver = v, !.rev = r] \in Snapshots
  BY DEF Snapshots
<1>3. [e EXCEPT !.ver = v, !.rev = r, !.pos = p] \in Snapshots
  BY DEF Snapshots
<1> QED BY <1>1, <1>2, <1>3

LEMMA AbsentTyped ==
  /\ Absent \in Snapshots /\ ~Present(Absent) /\ Absent.rev = 0
  /\ Nothing \in [Messages -> Snapshots] /\ \A m \in Messages : Nothing[m] = Absent
BY DEF Absent, Snapshots, Present, Nothing

LEMMA UiTyped ==
  ASSUME HistoryTypeOK
  PROVE  /\ ui.gen \in Nat /\ ui.rev \in Nat /\ ui.committed \in Nat /\ ui.next \in Nat
         /\ row.gen \in Nat /\ row.rev \in Nat /\ row.next \in Nat
         /\ ui.rev + 1 \in Nat
BY DEF HistoryTypeOK, UiStates, Rows

LEMMA ProjectedTyped ==
  ASSUME HistoryTypeOK, NEW e \in Snapshots, NEW v \in Nat
  PROVE  /\ Projected(e, v) \in Snapshots
         /\ Advanced(e) \in UiStates
         /\ [ui EXCEPT !.rev = @ + 1] \in UiStates
<1>1. ui \in UiStates
  BY DEF HistoryTypeOK
<1>2. ui.rev \in Nat /\ ui.next \in Nat
  BY UiTyped
<1>3. Projected(e, v) \in Snapshots
  <2> DEFINE r == ui.rev + 1
  <2>1. r \in Nat /\ Absent \in Snapshots
    BY UiTyped, AbsentTyped
  <2> HIDE DEF r
  <2>2. [e EXCEPT !.ver = v, !.rev = r, !.committed = FALSE] \in Snapshots
    BY <2>1, SnapshotEdits
  <2>3. [Absent EXCEPT !.ver = v, !.rev = r, !.pos = ui.next] \in Snapshots
    BY <1>2, <2>1, SnapshotEdits
  <2> QED BY <2>2, <2>3 DEF Projected, r
<1>4. \A u \in UiStates : [u EXCEPT !.rev = @ + 1] \in UiStates
  BY DEF UiStates
<1>5. \A u \in UiStates : [u EXCEPT !.next = @ + 1] \in UiStates
  BY DEF UiStates
<1>6. Advanced(e) \in UiStates
  <2>1. CASE Present(e)
    <3>1. Advanced(e) = [ui EXCEPT !.rev = @ + 1]
      BY <1>1, <2>1 DEF Advanced, UiStates
    <3> QED BY <1>1, <1>4, <3>1
  <2>2. CASE ~Present(e)
    <3>1. Advanced(e) = [ui EXCEPT !.rev = @ + 1, !.next = @ + 1]
      BY <1>1, <2>2 DEF Advanced, UiStates
    <3> DEFINE y == [ui EXCEPT !.rev = @ + 1]
    <3>2. y \in UiStates
      BY <1>1, <1>4
    <3>3. [y EXCEPT !.next = @ + 1] = [ui EXCEPT !.rev = @ + 1, !.next = @ + 1]
      BY <1>1 DEF UiStates
    <3>4. [y EXCEPT !.next = @ + 1] \in UiStates
      <4> HIDE DEF y
      <4> QED BY <3>2, <1>5
    <3> QED BY <3>1, <3>3, <3>4
  <2> QED BY <2>1, <2>2
<1> QED BY <1>1, <1>3, <1>4, <1>6

LEMMA LoadedTyped ==
  ASSUME HistoryTypeOK
  PROVE  Loaded \in UiStates /\ [Loaded EXCEPT !.timer = ui.timer] \in UiStates
BY DEF HistoryTypeOK, Loaded, UiStates, Rows

-----------------------------------------------------------------------------
(* Types.  The bound of a cut is part of them: the journal is cut in it.   *)

HistoryTypes == /\ HistoryTypeOK
                /\ job.pc = "cut" => job.keep <= Len(records)
                /\ job.pc = "flush" /\ job.kind = "truncate" => job.keep <= Len(records)
                /\ job.pc \in {"rewrite", "replace"} => job.index \in 1 .. Len(records)
                /\ flushing.by = "job" => job.pc = "flush"
                /\ \A r \in Runs : flushing.by = r => uiRun[r].pc \in {"flush", "last"}

LEMMA Idle == NoJob.pc = "idle" /\ NoJob.kind = "none"
BY DEF NoJob

(* A job that ends, or goes on at another place.                           *)
LEMMA JobTyped ==
  ASSUME HistoryTypeOK
  PROVE  /\ NoJob.pc = "idle" /\ NoJob.kind = "none"
         /\ job.kind = "append" =>
              [job EXCEPT !.pc = "flush"] \in JobsOfAppend
         /\ job.kind = "append" => \A i \in Nat :
              [job EXCEPT !.pc = "written", !.index = i] \in JobsOfAppend
         /\ job.kind = "update" => \A p \in {"replace", "flush"} :
              [job EXCEPT !.pc = p] \in JobsOfUpdate /\ [job EXCEPT !.pc = p].pc = p
         /\ job.kind \in {"truncate", "clear"} => \A p \in {"cut", "erase", "erased"} :
              [job EXCEPT !.pc = p] \in JobsOfCut
         /\ job.kind \in {"append", "update"} => job.msg \in Messages /\ job.ver \in Nat
         /\ job.kind \in {"truncate", "clear"} => job.keep \in Nat
<1>1. NoJob.pc = "idle" /\ NoJob.kind = "none"
  BY DEF NoJob
<1>2. ASSUME job.kind = "append"
      PROVE  /\ [job EXCEPT !.pc = "flush"] \in JobsOfAppend
             /\ \A i \in Nat : [job EXCEPT !.pc = "written", !.index = i] \in JobsOfAppend
             /\ job.msg \in Messages /\ job.ver \in Nat
  <2>1. job \in JobsOfAppend
    BY <1>2, Typed
  <2>2. ASSUME NEW i \in Nat
        PROVE  [job EXCEPT !.pc = "written", !.index = i] \in JobsOfAppend
    BY <2>1 DEF JobsOfAppend
  <2>3. [job EXCEPT !.pc = "flush"] \in JobsOfAppend /\ job.msg \in Messages /\ job.ver \in Nat
    BY <2>1 DEF JobsOfAppend
  <2> QED BY <2>2, <2>3
<1>3. ASSUME job.kind = "update"
      PROVE  /\ \A p \in {"replace", "flush"} :
                  [job EXCEPT !.pc = p] \in JobsOfUpdate /\ [job EXCEPT !.pc = p].pc = p
             /\ job.msg \in Messages /\ job.ver \in Nat
  <2>1. job \in JobsOfUpdate
    BY <1>3, Typed
  <2> QED BY <2>1 DEF JobsOfUpdate
<1>4. ASSUME job.kind \in {"truncate", "clear"}
      PROVE  /\ \A p \in {"cut", "erase", "erased"} : [job EXCEPT !.pc = p] \in JobsOfCut
             /\ job.keep \in Nat
  <2>1. job \in JobsOfCut
    BY <1>4, Typed
  <2> QED BY <2>1 DEF JobsOfCut
<1> QED BY <1>1, <1>2, <1>3, <1>4

LEMMA TypesOfCopies ==
  ASSUME HistoryTypes, NEW m \in Messages, Copy(m) \/ CopyRefused(m)
  PROVE  HistoryTypes'
<1>1. HistoryTypeOK /\ entries[m] \in Snapshots /\ copied[m] + 1 \in Nat
  BY DEF HistoryTypes, HistoryTypeOK
<1>2. copied' \in [Messages -> Nat]
  BY <1>1 DEF HistoryTypeOK, Copy, CopyRefused, NextCopy
<1>3. CASE Copy(m)
  <2>1. entries' \in [Messages -> Snapshots] /\ ui' \in UiStates
    <3>1. Projected(entries[m], copied[m] + 1) \in Snapshots
      BY <1>1, ProjectedTyped
    <3>2. Advanced(entries[m]) \in UiStates
      BY <1>1, ProjectedTyped
    <3> QED BY <1>1, <1>3, <3>1, <3>2 DEF HistoryTypeOK, Copy
  <2> QED BY <1>2, <1>3, <2>1 DEF HistoryTypes, HistoryTypeOK, Copy, disk
<1>4. CASE CopyRefused(m)
  BY <1>2, <1>4 DEF HistoryTypes, HistoryTypeOK, CopyRefused, disk, memory
<1> QED BY <1>3, <1>4

LEMMA TypesOfAppends ==
  ASSUME HistoryTypes,
         \/ \E m \in Messages : \E v \in 1 .. Last[m] : Stage(m, v) \/ StageRefused(m, v)
         \/ WriteRecord \/ WriteFails \/ Bind \/ BindFails
  PROVE  HistoryTypes'
<1> USE DEF HistoryTypes
<1>1. HistoryTypeOK /\ \A m \in Messages : \A v \in 1 .. Last[m] : v \in Nat
  BY HistoryAssumption
<1>2. ASSUME NEW m \in Messages, NEW v \in 1 .. Last[m], Stage(m, v) PROVE HistoryTypes'
  <2> DEFINE old == Shown(m)
             new == IF old.ver < v THEN Projected(old, v) ELSE old
  <2>1. /\ entries' = [entries EXCEPT ![m] = new]
        /\ ui' = IF old.ver < v THEN Advanced(old) ELSE ui
        /\ job' = [kind |-> "append", pc |-> "staged", msg |-> m, ver |-> v,
                   confirms |-> Confirms(m, v, old), of |-> new.ver,
                   gen |-> ui.gen, index |-> 0]
    BY <1>2 DEF Stage
  <2>2. old \in Snapshots
    BY Typed
  <2> HIDE DEF old
  <2>3. Projected(old, v) \in Snapshots /\ Advanced(old) \in UiStates
    BY <1>1, <2>2, ProjectedTyped
  <2>4. new \in Snapshots
    BY <2>2, <2>3
  <2> HIDE DEF new
  <2>5. Confirms(m, v, old) \in BOOLEAN /\ new.ver \in Nat /\ ui.gen \in Nat
    <3>1. Confirms(m, v, old) \in BOOLEAN
      BY Zenon DEF Confirms
    <3> QED BY <1>1, <2>4, <3>1, UiTyped DEF Snapshots
  <2>6. job' \in JobsOfAppend /\ job'.pc = "staged"
    BY <1>1, <2>1, <2>5 DEF JobsOfAppend
  <2>7. entries' \in [Messages -> Snapshots] /\ ui' \in UiStates
    BY <1>1, <2>1, <2>3, <2>4 DEF HistoryTypeOK
  <2>8. pending' \in [Messages -> Nat] /\ sent' \in [Messages -> Nat]
    BY <1>1, <1>2 DEF HistoryTypeOK, Stage
  <2>9. job = NoJob
    BY <1>2 DEF Stage
  <2> QED BY <1>2, <2>6, <2>7, <2>8, <2>9, JobTyped DEF HistoryTypeOK, Stage, disk
<1>3. ASSUME NEW m \in Messages, NEW v \in 1 .. Last[m], StageRefused(m, v)
      PROVE  HistoryTypes'
  BY <1>1, <1>3, Stops DEF HistoryTypeOK, StageRefused, disk, memory
<1>4. CASE WriteRecord
  <2>1. job' \in JobsOfAppend /\ job'.pc = "written" /\ job.msg \in Messages /\ job.ver \in Nat
    <3>1. /\ job.kind = "append" /\ Len(records) + 1 \in Nat
          /\ job' = [job EXCEPT !.pc = "written", !.index = Len(records) + 1]
      BY <1>1, <1>4 DEF WriteRecord, HistoryTypeOK
    <3>2. job \in JobsOfAppend
      BY <3>1, Typed
    <3>3. job' \in JobsOfAppend /\ job.msg \in Messages /\ job.ver \in Nat
      BY <3>1, JobTyped
    <3>4. job'.pc = "written"
      BY <3>1, <3>2 DEF JobsOfAppend
    <3> QED BY <3>3, <3>4
  <2>2. records' \in Seq(JournalRecords) /\ flushing.by # "job"
    BY <1>1, <1>4, <2>1 DEF WriteRecord, HistoryTypeOK, JournalRecords
  <2> QED BY <1>4, <2>1, <2>2 DEF HistoryTypeOK, WriteRecord, memory
<1>5. CASE WriteFails \/ BindFails
  <2>1. job' = NoJob /\ ui' = Failed(ui) /\ job.msg \in Messages /\ job.pc # "flush"
    BY <1>5, JobTyped DEF WriteFails, BindFails
  <2>2. ui' \in UiStates
    BY <2>1, FailedTicks DEF HistoryTypeOK
  <2>3. stopped' \subseteq Runs
    BY <1>5, <2>1, Stops DEF WriteFails, BindFails
  <2> QED BY <1>5, <2>1, <2>2, <2>3, JobTyped
          DEF HistoryTypeOK, WriteFails, BindFails, disk
<1>6. CASE Bind
  <2>1. job \in JobsOfAppend /\ job.msg \in Messages /\ job.pc # "flush"
    BY <1>1, <1>6, Typed, JobTyped DEF Bind
  <2>2. job' \in JobsOfAppend \cup {NoJob} /\ flushing.by # "job"
        /\ job'.pc \in {"flush", "idle"} /\ job'.kind # "truncate"
    BY <1>1, <1>6, <2>1, JobTyped DEF Bind, JobsOfAppend
  <2>3. job.index \in Nat /\ pending[job.msg] - 1 \in Nat /\ entries[job.msg] \in Snapshots
    BY <1>6, <2>1 DEF Bind, Bindable, JobsOfAppend, HistoryTypeOK
  <2>4. Bound(entries[job.msg]) \in Snapshots
    <3> DEFINE e == entries[job.msg]
               f == IF e.first = 0 \/ job.index < e.first THEN job.index ELSE e.first
               l == IF job.index > e.last THEN job.index ELSE e.last
               k == IF Semantic(job.msg, job.ver) THEN job.index ELSE e.record
               b == e.committed \/ (job.confirms /\ e.ver = job.of)
               n == ui.rev + 1
    <3>1. /\ e \in Snapshots /\ f \in Nat /\ l \in Nat /\ k \in Nat /\ b \in BOOLEAN
          /\ n \in Nat
      BY <2>3, UiTyped DEF Snapshots
    <3>2. Bound(e) = [e EXCEPT !.first = f, !.last = l, !.record = k, !.committed = b,
                               !.rev = n]
      BY <3>1 DEF Bound, Snapshots
    <3> HIDE DEF e, f, l, k, b, n
    <3>3. [e EXCEPT !.first = f, !.last = l, !.record = k, !.committed = b, !.rev = n]
            \in Snapshots
      BY <3>1 DEF Snapshots
    <3> QED BY <3>2, <3>3 DEF e
  <2>5. /\ entries' \in [Messages -> Snapshots] /\ pending' \in [Messages -> Nat]
        /\ tail' \in Nat
    BY <1>6, <2>1, <2>3, <2>4 DEF Bind, HistoryTypeOK
  <2>6. ui' \in UiStates
    BY <1>1, <1>6, AbsentTyped, ProjectedTyped DEF Bind, HistoryTypeOK
  <2> QED BY <1>6, <2>2, <2>5, <2>6, JobTyped DEF HistoryTypeOK, Bind, disk
<1> QED BY <1>2, <1>3, <1>4, <1>5, <1>6

LEMMA TypesOfUpdates ==
  ASSUME HistoryTypes, \/ \E m \in Messages : BeginUpdate(m)
                       \/ Rewrite \/ RewriteFails \/ Replace \/ ReplaceFails
  PROVE  HistoryTypes'
<1> USE DEF HistoryTypes
<1>1. ASSUME NEW m \in Messages, BeginUpdate(m) PROVE HistoryTypes'
  <2> DEFINE e == Shown(m)
             i == e.record
             r == records[e.record]
  <2>1. /\ job = NoJob /\ i \in 1 .. Len(records) /\ e \in Snapshots
        /\ job' = [kind |-> "update", pc |-> "rewrite", msg |-> m,
                   ver |-> Later(r.ver, e.ver) + 1, was |-> e.ver, index |-> i]
        /\ UNCHANGED <<disk, memory, flushing, uiRun, sent, copied, stopped, viewer, torn>>
    BY <1>1, Typed DEF BeginUpdate
  <2>2. r.ver \in Nat /\ e.ver \in Nat /\ i \in Nat
    <3>1. e.ver \in Nat /\ i \in Nat
      BY <2>1 DEF Snapshots
    <3>2. r \in JournalRecords
      BY <2>1 DEF HistoryTypeOK
    <3> QED BY <3>1, <3>2 DEF JournalRecords
  <2>3. Later(r.ver, e.ver) + 1 \in Nat
    BY <2>2 DEF Later
  <2> HIDE DEF e, i, r
  <2>4. job' \in JobsOfUpdate /\ job'.pc = "rewrite" /\ job'.index = i
    BY <2>1, <2>2, <2>3 DEF JobsOfUpdate
  <2> QED BY <2>1, <2>4, JobTyped DEF HistoryTypeOK, disk, memory
<1>2. CASE Rewrite
  <2>1. job \in JobsOfUpdate /\ job.pc = "rewrite" /\ job.kind = "update"
    BY <1>2, Typed DEF Rewrite
  <2>2. job' \in JobsOfUpdate /\ job'.pc = "replace" /\ job'.index = job.index
    BY <1>2, <2>1 DEF Rewrite, JobsOfUpdate
  <2>3. records[job.index] \in JournalRecords /\ job.ver \in Nat /\ job.index \in 1 .. Len(records)
    BY <2>1 DEF HistoryTypeOK, JobsOfUpdate
  <2>4. [records[job.index] EXCEPT !.ver = job.ver] \in JournalRecords
    BY <2>3 DEF JournalRecords
  <2>5. records' \in Seq(JournalRecords) /\ Len(records') = Len(records)
    BY <1>2, <2>3, <2>4 DEF Rewrite, HistoryTypeOK
  <2> QED BY <1>2, <2>1, <2>2, <2>5 DEF HistoryTypeOK, Rewrite, memory
<1>3. CASE RewriteFails
  BY <1>3, JobTyped DEF HistoryTypeOK, RewriteFails, disk, memory
<1>4. CASE Replace
  <2>1. job \in JobsOfUpdate /\ job.pc = "replace" /\ job.kind = "update"
    BY <1>4, Typed DEF Replace
  <2>2. job' \in JobsOfUpdate /\ job'.pc = "flush" /\ job'.kind = "update"
    BY <1>4, <2>1 DEF Replace, JobsOfUpdate
  <2> DEFINE e == Shown(job.msg)
             r == ui.rev + 1
  <2>3. job.msg \in Messages /\ job.ver \in Nat /\ e \in Snapshots /\ r \in Nat
    BY <2>1, Typed, UiTyped DEF JobsOfUpdate
  <2>4. entries' = [entries EXCEPT ![job.msg] = [e EXCEPT !.ver = job.ver, !.rev = r]]
    BY <1>4 DEF Replace
  <2> HIDE DEF e, r
  <2>5. [e EXCEPT !.ver = job.ver, !.rev = r] \in Snapshots
    BY <2>3, SnapshotEdits
  <2>6. entries' \in [Messages -> Snapshots]
    BY <2>3, <2>4, <2>5 DEF HistoryTypeOK
  <2>7. ui' \in UiStates
    BY <1>4, AbsentTyped, ProjectedTyped DEF Replace
  <2> QED BY <1>4, <2>1, <2>2, <2>6, <2>7 DEF HistoryTypeOK, Replace, disk
<1>5. CASE ReplaceFails
  <2>1. ui' \in UiStates
    BY <1>5, FailedTicks DEF HistoryTypeOK, ReplaceFails
  <2> QED BY <1>5, <2>1, JobTyped DEF HistoryTypeOK, ReplaceFails, disk
<1> QED BY <1>1, <1>2, <1>3, <1>4, <1>5

(* Whoever waits for a flush gets the answer. *)
LEMMA TypesOfAnswer ==
  ASSUME HistoryTypes, NEW by \in Flushers, NEW ok \in BOOLEAN, NEW u \in UiStates,
         Answer(by, ok, u), by = "job" => job.pc = "flush", flushing' = NoFlush,
         UNCHANGED <<disk, pending, registered, tail, sent, copied, viewer, torn>>,
         entries' \in [Messages -> Snapshots]
  PROVE  HistoryTypes'
<1> USE DEF HistoryTypes
<1>1. ui' \in UiStates /\ stopped' \subseteq Runs /\ uiRun' \in [Runs -> RunStates]
  BY AnswerFacts
<1>2. \/ job' = job /\ by # "job"
      \/ job' = NoJob
      \/ /\ job.kind = "truncate" /\ by = "job"
         /\ job' = [job EXCEPT !.pc = "cut"]
  BY AnswerFacts
<1>3. flushing'.by = "nobody" /\ "nobody" \notin Runs \cup {"job"}
  BY HistoryAssumption DEF NoFlush
<1>4. CASE job' = job
  BY <1>1, <1>3, <1>4 DEF HistoryTypeOK, disk
<1>5. CASE job' = NoJob
  BY <1>1, <1>3, <1>5, JobTyped DEF HistoryTypeOK, disk
<1>6. CASE job.kind = "truncate" /\ by = "job" /\ job' = [job EXCEPT !.pc = "cut"]
  <2>1. job \in JobsOfCut /\ job' \in JobsOfCut /\ job.keep <= Len(records)
    BY <1>6, Typed, JobTyped
  <2>2. job'.keep = job.keep /\ job'.pc = "cut"
    BY <1>6, <2>1 DEF JobsOfCut
  <2> QED BY <1>1, <1>3, <2>1, <2>2 DEF HistoryTypeOK, disk
<1> QED BY <1>2, <1>4, <1>5, <1>6

LEMMA TypesOfFlushes ==
  ASSUME HistoryTypes, Flushes
  PROVE  HistoryTypes'
<1> USE DEF HistoryTypes
<1>0. ui \in UiStates /\ Absent \in Snapshots
  BY AbsentTyped DEF HistoryTypeOK
<1>1. ASSUME NEW by \in Flushers, FlushNothing(by) PROVE HistoryTypes'
  <2>1. (~ui.failed) \in BOOLEAN /\ (by = "job" => job.pc = "flush")
    <3>1. (~ui.failed) \in BOOLEAN
      BY Zenon
    <3>2. by = "job" => job.pc = "flush"
      BY <1>1, HistoryAssumption DEF FlushNothing, Wants
    <3> QED BY <3>1, <3>2
  <2> QED BY <1>0, <1>1, <2>1, TypesOfAnswer DEF FlushNothing, FlushFree, HistoryTypeOK
<1>2. ASSUME NEW by \in Flushers, FlushTake(by) PROVE HistoryTypes'
  <2> DEFINE f == [m \in Messages |-> IF entries[m].rev > ui.committed THEN entries[m] ELSE Absent]
  <2>1. f \in [Messages -> Snapshots]
    BY <1>0 DEF HistoryTypeOK
  <2>2. flushing' = [by |-> by, pc |-> "taken", gen |-> ui.gen, rev |-> ui.rev,
                     next |-> ui.next, failed |-> ui.failed, entries |-> f]
    BY <1>2 DEF FlushTake
  <2> HIDE DEF f
  <2>3. flushing' \in FlushesTaken /\ flushing'.by = by
    BY <1>0, <2>1, <2>2 DEF FlushesTaken, UiStates, Flushers
  <2>4. /\ by = "job" => job.pc = "flush"
        /\ by \in Runs => uiRun[by].pc \in {"flush", "last"}
    BY <1>2, HistoryAssumption DEF FlushTake, Wants
  <2> QED BY <1>2, <2>3, <2>4 DEF HistoryTypeOK, FlushTake, disk, memory
<1>3. CASE FlushWrite
  <2>1. flushing \in FlushesTaken
    BY <1>3, Typed DEF FlushWrite
  <2>2. row' \in Rows
    BY <1>3, <2>1 DEF FlushWrite, FlushesTaken, Rows
  <2>3. flushing' \in FlushesTaken /\ flushing'.by = flushing.by
    BY <1>3, <2>1 DEF FlushWrite, FlushesTaken
  <2>4. rows' \in [Messages -> Snapshots]
    BY <1>3, <2>1 DEF FlushWrite, FlushesTaken, HistoryTypeOK
  <2> QED BY <1>3, <2>2, <2>3, <2>4 DEF HistoryTypeOK, FlushWrite, memory
<1>4. CASE FlushFails
  <2>1. flushing \in FlushesTaken
    BY <1>4, Typed DEF FlushFails
  <2>2. flushing.by \in Flushers
    BY <2>1 DEF FlushesTaken, Flushers
  <2> QED BY <1>0, <1>4, <2>2, TypesOfAnswer DEF FlushFails, HistoryTypeOK
<1>5. CASE FlushSettle
  <2>1. flushing \in FlushesTaken
    BY <1>5, Typed DEF FlushSettle
  <2>2. flushing.by \in Flushers /\ flushing.rev \in Nat
    BY <2>1 DEF FlushesTaken, Flushers
  <2>3. [ui EXCEPT !.committed = flushing.rev] \in UiStates
    BY <1>0, <2>2 DEF UiStates
  <2>4. entries' \in [Messages -> Snapshots]
    BY <1>0, <1>5 DEF FlushSettle, HistoryTypeOK
  <2>5. (~ui.failed) \in BOOLEAN
    BY Zenon
  <2> QED BY <1>5, <2>2, <2>3, <2>4, <2>5, TypesOfAnswer DEF FlushSettle
<1> QED BY <1>1, <1>2, <1>3, <1>4, <1>5 DEF Flushes, Flushers

LEMMA TypesOfRuns ==
  ASSUME HistoryTypes, NEW r \in Runs,
         BeginRun(r) \/ EndRun(r) \/ CheckRefuses(r) \/ CheckRun(r) \/ DropRun(r)
  PROVE  HistoryTypes'
<1> USE DEF HistoryTypes, Holding
<1>0. ui \in UiStates /\ ui.gen \in Nat /\ Absent \in Snapshots /\ "nobody" \notin Runs
      /\ uiRun[r] \in RunStates
  BY AbsentTyped, HistoryAssumption DEF HistoryTypeOK, UiStates
<1>1. CASE BeginRun(r)
  <2>1. uiRun' \in [Runs -> RunStates]
    BY <1>0, <1>1 DEF BeginRun, HistoryTypeOK, RunStates
  <2>2. flushing.by # r
    BY <1>1 DEF BeginRun
  <2> QED BY <1>1, <2>1, <2>2 DEF HistoryTypeOK, BeginRun, disk
<1>2. CASE EndRun(r)
  <2>1. uiRun' \in [Runs -> RunStates] /\ uiRun'[r].pc = "flush"
    BY <1>0, <1>2 DEF EndRun, HistoryTypeOK, RunStates
  <2> QED BY <1>2, <2>1 DEF HistoryTypeOK, EndRun, disk, memory
<1>3. CASE CheckRefuses(r)
  <2>1. uiRun' \in [Runs -> RunStates] /\ uiRun'[r].pc = "last"
    BY <1>0, <1>3 DEF CheckRefuses, HistoryTypeOK, RunStates
  <2>2. ui' \in UiStates
    BY <1>3, <1>0, FailedTicks DEF CheckRefuses
  <2> QED BY <1>3, <2>1, <2>2 DEF HistoryTypeOK, CheckRefuses, disk
<1>4. CASE CheckRun(r)
  <2>1. uiRun' \in [Runs -> RunStates]
    BY <1>0, <1>4 DEF CheckRun, HistoryTypeOK, RunStates
  <2>2. flushing.by # r
    BY <1>4 DEF CheckRun
  <2>3. entries' \in [Messages -> Snapshots] /\ registered' \subseteq Runs
    BY <1>0, <1>4 DEF CheckRun, HistoryTypeOK
  <2> QED BY <1>4, <2>1, <2>2, <2>3 DEF HistoryTypeOK, CheckRun, disk
<1>5. CASE DropRun(r)
  <2>1. uiRun' \in [Runs -> RunStates]
    BY <1>0, <1>5 DEF DropRun, HistoryTypeOK, RunStates
  <2>2. flushing' \in {NoFlush} \cup FlushesTaken /\ (flushing'.by = "job" => flushing.by = "job")
        /\ flushing'.by # r
    BY <1>0, <1>5 DEF DropRun, HistoryTypeOK, NoFlush
  <2>3. \A q \in Runs : flushing'.by = q => flushing.by = q
    BY <1>0, <1>5 DEF DropRun, NoFlush
  <2> QED BY <1>5, <2>1, <2>2, <2>3 DEF HistoryTypeOK, DropRun, disk, memory
<1> QED BY <1>1, <1>2, <1>3, <1>4, <1>5

LEMMA TypesOfCuts ==
  ASSUME HistoryTypes, Cuts \/ DropJob \/ Reload
  PROVE  HistoryTypes'
<1> USE DEF HistoryTypes
<1>0. ui \in UiStates /\ Failed(ui) \in UiStates
  BY FailedTicks DEF HistoryTypeOK
<1>1. ASSUME NEW b \in 0 .. Len(records) - 1, BeginTruncate(b) PROVE HistoryTypes'
  <2>1. b \in Nat /\ b <= Len(records) /\ job = NoJob
    BY <1>1 DEF BeginTruncate, HistoryTypeOK
  <2>2. job' = [kind |-> "truncate", pc |-> "flush", keep |-> b]
    BY <1>1 DEF BeginTruncate
  <2>3. job' \in JobsOfCut /\ job'.keep = b /\ job'.pc = "flush"
    BY <2>1, <2>2 DEF JobsOfCut
  <2> QED BY <1>1, <2>1, <2>3, JobTyped DEF HistoryTypeOK, BeginTruncate, disk, memory
<1>2. CASE BeginClear
  <2>1. /\ job' \in JobsOfCut /\ job'.kind = "clear" /\ job'.keep = 0
        /\ job'.pc \in {"flush", "cut"} /\ ui' \in UiStates
    BY <1>0, <1>2 DEF BeginClear, JobsOfCut
  <2>2. job = NoJob /\ Len(records) \in Nat
    BY <1>2 DEF BeginClear, HistoryTypeOK
  <2> QED BY <1>2, <2>1, <2>2, Idle DEF HistoryTypeOK, BeginClear, disk
<1>3. CASE Cut
  <2>1. /\ job.kind \in {"truncate", "clear"} /\ job.pc = "cut" /\ job \in JobsOfCut
        /\ job.keep \in Nat /\ job.keep <= Len(records)
    BY <1>3, Typed, JobTyped DEF Cut
  <2>2. job' \in JobsOfCut /\ job'.pc = "erase"
    BY <1>3, <2>1 DEF Cut, JobsOfCut
  <2>3. records' \in Seq(JournalRecords)
    BY <1>3, <2>1 DEF Cut, HistoryTypeOK
  <2>4. flushing.by # "job" /\ UNCHANGED <<row, rows, memory, flushing, uiRun, sent, copied,
                                            stopped, viewer, torn>>
    BY <1>3 DEF Cut
  <2>5. HistoryTypeOK'
    BY <2>2, <2>3, <2>4 DEF HistoryTypeOK, memory
  <2> QED BY <2>2, <2>4, <2>5
<1>4. CASE CutFails
  BY <1>0, <1>4, JobTyped DEF HistoryTypeOK, CutFails, disk
<1>5. CASE EraseRows
  <2>1. /\ job.kind \in {"truncate", "clear"} /\ job.pc = "erase" /\ job \in JobsOfCut
    BY <1>5, Typed DEF EraseRows
  <2>2. job' \in JobsOfCut /\ job'.pc = "erased" /\ job'.keep = job.keep
    BY <1>5, <2>1 DEF EraseRows, JobsOfCut
  <2>3. rows' \in [Messages -> Snapshots]
    BY <1>5, AbsentTyped DEF EraseRows, HistoryTypeOK
  <2>4. row' \in Rows
    <3>1. PICK next \in 0 .. row.next :
            row' = [gen |-> row.gen + 1, rev |-> ui.rev + 1, next |-> next, failed |-> FALSE]
      BY <1>5 DEF EraseRows
    <3> QED BY <3>1, UiTyped DEF Rows
  <2>5. torn' \in BOOLEAN
    BY <1>5, Zenon DEF EraseRows
  <2> QED BY <1>5, <2>1, <2>2, <2>3, <2>4, <2>5 DEF HistoryTypeOK, EraseRows, memory
<1>6. CASE EraseFails
  BY <1>0, <1>6, JobTyped DEF HistoryTypeOK, EraseFails, disk
<1>7. CASE PruneFails
  BY <1>7, JobTyped DEF HistoryTypeOK, PruneFails, disk, memory
<1>8. CASE EraseMemory
  <2>1. job.keep \in Nat /\ [Loaded EXCEPT !.timer = ui.timer] \in UiStates
    BY <1>8, Typed, JobTyped, LoadedTyped DEF EraseMemory
  <2> QED BY <1>8, <2>1, JobTyped, AbsentTyped DEF HistoryTypeOK, EraseMemory, disk
<1>9. CASE DropJob
  <2>1. stopped' \subseteq Runs
    <3>1. CASE job.kind = "append"
      BY <1>9, <3>1, JobTyped, Stops DEF DropJob
    <3>2. CASE job.kind # "append"
      BY <1>9, <3>2 DEF DropJob, HistoryTypeOK
    <3> QED BY <3>1, <3>2
  <2>2. /\ flushing' \in {NoFlush} \cup FlushesTaken /\ flushing'.by # "job"
        /\ \A q \in Runs : flushing'.by = q => flushing.by = q
    BY <1>9, HistoryAssumption DEF DropJob, HistoryTypeOK, NoFlush
  <2>3. torn' \in BOOLEAN
    BY <1>9, Zenon DEF DropJob
  <2> QED BY <1>9, <2>1, <2>2, <2>3, JobTyped DEF HistoryTypeOK, DropJob, disk, memory
<1>10. CASE Reload
  <2>1. uiRun' \in [Runs -> RunStates]
    <3>1. \A r \in Runs : uiRun[r] \in RunStates /\ [uiRun[r] EXCEPT !.pc = "dropped"] \in RunStates
      BY DEF HistoryTypeOK, RunStates
    <3> QED BY <1>10, <3>1 DEF Reload
  <2>2. viewer' \in [Viewers -> Subscriptions]
    BY <1>10, AbsentTyped DEF Reload, Closed, Subscriptions
  <2>3. torn' \in BOOLEAN
    BY <1>10, Zenon DEF Reload
  <2>4. flushing' = NoFlush /\ flushing'.by = "nobody" /\ "nobody" \notin Runs
    BY <1>10, HistoryAssumption DEF Reload, NoFlush
  <2>5. /\ ui' \in UiStates /\ entries' \in [Messages -> Snapshots] /\ job'.pc = "idle"
        /\ job' = NoJob /\ tail' \in Nat
    BY <1>10, Idle, LoadedTyped, AbsentTyped DEF Reload, HistoryTypeOK
  <2>6. UNCHANGED <<disk, sent, copied, stopped>> /\ registered' = {}
        /\ pending' \in [Messages -> Nat]
    BY <1>10 DEF Reload
  <2>7. HistoryTypeOK'
    BY <2>1, <2>2, <2>3, <2>4, <2>5, <2>6 DEF HistoryTypeOK, disk
  <2> QED BY <2>4, <2>5, <2>7
<1> QED BY <1>1, <1>2, <1>3, <1>4, <1>5, <1>6, <1>7, <1>8, <1>9, <1>10
         DEF Cuts

(* The steps of a subscription write only it. *)
LEMMA ViewSteps ==
  ASSUME NEW v \in Viewers, Views(v)
  PROVE  /\ \E w : viewer' = [viewer EXCEPT ![v] = w]
         /\ UNCHANGED <<disk, memory, job, flushing, uiRun, sent, copied, stopped, torn>>
BY DEF Views, OpenView, ReadPage, ShowPage, RetryPage, WakeView, ReadUpdate, ShowUpdate,
       RetryUpdate, CloseView, GotoView

LEMMA TypesOfViews ==
  ASSUME HistoryTypes, NEW v \in Viewers, Views(v)
  PROVE  HistoryTypes'
<1> USE DEF HistoryTypes
<1>0. /\ viewer[v] \in Subscriptions /\ rows \in [Messages -> Snapshots]
      /\ entries \in [Messages -> Snapshots] /\ ui \in UiStates
      /\ Absent \in Snapshots /\ Nothing \in [Messages -> Snapshots]
  BY AbsentTyped DEF HistoryTypeOK
<1>1. UNCHANGED <<disk, memory, job, flushing, uiRun, sent, copied, stopped, torn>>
  BY ViewSteps
<1>2. Page \in Subscriptions /\ Closed \in Subscriptions
  BY <1>0 DEF Page, Closed, Subscriptions, UiStates
<1>3. viewer' \in [Viewers -> Subscriptions]
  <2>1. CASE OpenView(v) \/ RetryPage(v) \/ CloseView(v)
    BY <1>2, <2>1 DEF OpenView, RetryPage, CloseView, GotoView, HistoryTypeOK
  <2>2. CASE ReadPage(v)
    <3>1. [viewer[v] EXCEPT !.pc = "pageRead", !.read = rows] \in Subscriptions
      BY <1>0 DEF Subscriptions
    <3> QED BY <2>2, <3>1 DEF ReadPage, GotoView, HistoryTypeOK
  <2>3. CASE ShowPage(v)
    <3> DEFINE s == [m \in Messages |-> IF Present(entries[m]) THEN entries[m]
                                        ELSE viewer[v].read[m]]
    <3>1. s \in [Messages -> Snapshots]
      BY <1>0 DEF Subscriptions
    <3>2. viewer' = [viewer EXCEPT ![v] = [Closed EXCEPT !.pc = "open", !.gen = ui.gen,
                                                         !.rev = ui.rev, !.shown = s]]
      BY <2>3 DEF ShowPage, GotoView
    <3> HIDE DEF s
    <3>3. [Closed EXCEPT !.pc = "open", !.gen = ui.gen, !.rev = ui.rev, !.shown = s]
            \in Subscriptions
      BY <1>0, <3>1 DEF Subscriptions, Closed, UiStates
    <3> QED BY <3>2, <3>3 DEF HistoryTypeOK
  <2>4. CASE WakeView(v)
    <3>1. [viewer[v] EXCEPT !.pc = "update", !.mark = ui.committed] \in Subscriptions
      BY <1>0 DEF Subscriptions, UiStates
    <3> QED BY <1>2, <2>4, <3>1 DEF WakeView, GotoView, HistoryTypeOK
  <2>5. CASE ReadUpdate(v)
    <3> DEFINE s == [m \in Messages |->
                       IF viewer[v].mark > viewer[v].rev /\ rows[m].rev > viewer[v].rev
                       THEN rows[m] ELSE Absent]
    <3>1. s \in [Messages -> Snapshots]
      BY <1>0
    <3>2. viewer' = [viewer EXCEPT ![v] = [viewer[v] EXCEPT !.pc = "updateRead", !.read = s]]
      BY <2>5 DEF ReadUpdate, GotoView
    <3> HIDE DEF s
    <3>3. [viewer[v] EXCEPT !.pc = "updateRead", !.read = s] \in Subscriptions
      BY <1>0, <3>1 DEF Subscriptions
    <3> QED BY <3>2, <3>3 DEF HistoryTypeOK
  <2>6. CASE ShowUpdate(v)
    <3> DEFINE s == [m \in Messages |-> Merged(v, m)]
    <3>1. s \in [Messages -> Snapshots]
      BY <1>0 DEF Subscriptions, Merged, Batch
    <3>2. viewer' = [viewer EXCEPT ![v] = [viewer[v] EXCEPT !.pc = "open", !.rev = ui.rev,
                                      !.mark = 0, !.read = Nothing, !.shown = s]]
      BY <2>6 DEF ShowUpdate, GotoView
    <3> HIDE DEF s
    <3>3. [viewer[v] EXCEPT !.pc = "open", !.rev = ui.rev, !.mark = 0, !.read = Nothing,
                            !.shown = s] \in Subscriptions
      BY <1>0, <3>1 DEF Subscriptions, UiStates
    <3> QED BY <3>2, <3>3 DEF HistoryTypeOK
  <2>7. CASE RetryUpdate(v)
    <3>1. [viewer[v] EXCEPT !.pc = "update", !.mark = ui.committed, !.read = Nothing]
            \in Subscriptions
      BY <1>0 DEF Subscriptions, UiStates
    <3> QED BY <1>2, <2>7, <3>1 DEF RetryUpdate, GotoView, HistoryTypeOK
  <2> QED BY <2>1, <2>2, <2>3, <2>4, <2>5, <2>6, <2>7 DEF Views
<1> QED BY <1>1, <1>3 DEF HistoryTypeOK, disk, memory

LEMMA TypesStep ==
  ASSUME HistoryTypes, [NextHistory]_historyVars
  PROVE  HistoryTypes'
<1>1. CASE UNCHANGED historyVars
  BY <1>1 DEF HistoryTypes, HistoryTypeOK, historyVars, disk, memory, actors
<1>2. CASE Copies
  BY <1>2, TypesOfCopies DEF Copies
<1>3. CASE Appends
  BY <1>3, TypesOfAppends, TypesOfUpdates DEF Appends
<1>4. CASE Flushes \/ Cuts \/ DropJob \/ Reload
  BY <1>4, TypesOfFlushes, TypesOfCuts
<1>5. ASSUME NEW r \in Runs, RunSteps(r) PROVE HistoryTypes'
  BY <1>5, TypesOfRuns DEF RunSteps
<1>6. ASSUME NEW v \in Viewers, Views(v) PROVE HistoryTypes'
  BY <1>6, TypesOfViews
<1> QED BY <1>1, <1>2, <1>3, <1>4, <1>5, <1>6 DEF NextHistory

-----------------------------------------------------------------------------
(* Memory and the database: what a step does to them.                      *)

Others == /\ UNCHANGED viewer
          /\ \A r \in Runs : uiRun'[r].gen = uiRun[r].gen
          /\ job'.pc = "erased" => job.pc = "erased"

(* Nothing is stored and no snapshot changes.                              *)
Quiet == /\ UNCHANGED <<row, rows, entries, registered>> /\ pending' = pending
         /\ Ticks(ui, ui')
         /\ flushing' \in {flushing, NoFlush}

(* One snapshot gets the next revision.                                    *)
Edited(m) ==
  /\ UNCHANGED <<row, rows, registered, flushing>>
  /\ \A n \in Messages \ {m} : entries'[n] = entries[n] /\ pending'[n] = pending[n]
  /\ Present(entries'[m]) /\ entries'[m].rev = ui.rev + 1
  /\ ui'.gen = ui.gen /\ ui'.committed = ui.committed /\ ui'.rev = ui.rev + 1
  /\ entries'[m].pos < ui'.next /\ ui.next <= ui'.next
  /\ Present(entries[m]) => entries'[m].pos = entries[m].pos
  /\ Attached /\ Present(rows[m]) => entries'[m].pos = rows[m].pos

StoreTypes ==
  /\ HistoryTypeOK
  /\ \A m \in Messages : /\ Present(rows[m]) \/ rows[m] = Absent
                         /\ Present(entries[m]) \/ entries[m] = Absent
                         /\ Flushing => Present(flushing.entries[m]) \/ flushing.entries[m] = Absent

LEMMA SnapshotsTyped ==
  ASSUME HistoryTypeOK, NEW m \in Messages
  PROVE  /\ entries[m] \in Snapshots /\ entries[m].rev \in Nat /\ entries[m].pos \in Nat
         /\ rows[m] \in Snapshots /\ rows[m].rev \in Nat /\ rows[m].pos \in Nat
         /\ Flushing => /\ flushing.entries[m] \in Snapshots
                        /\ flushing.entries[m].rev \in Nat /\ flushing.entries[m].pos \in Nat
<1>1. entries[m] \in Snapshots /\ rows[m] \in Snapshots
  BY DEF HistoryTypeOK
<1>2. Flushing => flushing.entries[m] \in Snapshots
  BY Typed DEF Flushing, FlushesTaken
<1> QED BY <1>1, <1>2 DEF Snapshots

LEMMA FlushTyped ==
  ASSUME HistoryTypeOK, Flushing
  PROVE  /\ flushing.rev \in Nat /\ flushing.next \in Nat /\ flushing.gen \in Nat
         /\ flushing \in FlushesTaken /\ flushing.by # "nobody"
BY Typed DEF Flushing, FlushesTaken

LEMMA ViewerTyped ==
  ASSUME HistoryTypeOK, NEW v \in Viewers
  PROVE  /\ viewer[v] \in Subscriptions
         /\ viewer[v].gen \in Nat /\ viewer[v].rev \in Nat /\ viewer[v].mark \in Nat
BY DEF HistoryTypeOK, Subscriptions

LEMMA QuietStore ==
  ASSUME StoreTypes, HistoryTypeOK', StoreInv, Quiet, Others
  PROVE  StoreInv'
<1> USE DEF StoreTypes
<1>1. /\ ui.gen \in Nat /\ ui.rev \in Nat /\ ui.committed \in Nat /\ ui.next \in Nat
      /\ row.rev \in Nat /\ ui'.rev \in Nat
      /\ ui'.gen = ui.gen /\ ui'.committed = ui.committed /\ ui'.next = ui.next
      /\ ui.rev <= ui'.rev
      /\ UNCHANGED <<row, rows, entries, registered, viewer>> /\ pending' = pending
      /\ \A r \in Runs : uiRun'[r].gen = uiRun[r].gen
      /\ job'.pc = "erased" => job.pc = "erased"
  BY UiTyped DEF Quiet, Others, Ticks, HistoryTypeOK, UiStates
<1>2. Generations'
  BY <1>1, ViewerTyped DEF StoreInv, Generations
<1>3. Counted'
  BY <1>1, SnapshotsTyped DEF StoreInv, Counted, Attached
<1>4. InStep'
  BY <1>1 DEF StoreInv, InStep, Attached
<1>5. FlushSound'
  <2>1. CASE flushing' = NoFlush
    BY <2>1 DEF FlushSound, Flushing
  <2>2. CASE flushing' = flushing
    BY <1>1, <2>2, FlushTyped DEF StoreInv, FlushSound, Flushing, Attached
  <2> QED BY <2>1, <2>2 DEF Quiet
<1> QED BY <1>2, <1>3, <1>4, <1>5 DEF StoreInv

LEMMA EditedStore ==
  ASSUME StoreTypes, HistoryTypeOK', StoreInv, NEW m \in Messages, Edited(m), Others
  PROVE  StoreInv'
<1> USE DEF StoreTypes
<1>1. /\ ui.gen \in Nat /\ ui.rev \in Nat /\ ui.committed \in Nat /\ ui.next \in Nat
      /\ row.rev \in Nat /\ row.next \in Nat /\ ui'.next \in Nat
      /\ ui'.gen = ui.gen /\ ui'.committed = ui.committed /\ ui'.rev = ui.rev + 1
      /\ UNCHANGED <<row, rows, registered, viewer, flushing>>
      /\ \A r \in Runs : uiRun'[r].gen = uiRun[r].gen
      /\ job'.pc = "erased" => job.pc = "erased"
      /\ ui.next <= ui'.next
  BY UiTyped DEF Edited, Others, HistoryTypeOK, UiStates
<1>2. /\ Present(entries'[m]) /\ entries'[m].rev = ui.rev + 1 /\ entries'[m].pos < ui'.next
      /\ Present(entries[m]) => entries'[m].pos = entries[m].pos
      /\ Attached /\ Present(rows[m]) => entries'[m].pos = rows[m].pos
      /\ \A n \in Messages \ {m} : entries'[n] = entries[n] /\ pending'[n] = pending[n]
  BY DEF Edited
<1>3. Generations'
  BY <1>1, ViewerTyped DEF StoreInv, Generations
<1>4. Counted'
  <2>1. ASSUME NEW n \in Messages
        PROVE  /\ entries'[n].rev <= ui'.rev
               /\ Present(entries'[n]) => entries'[n].pos < ui'.next
               /\ pending'[n] > 0 => Present(entries'[n])
    <3>1. CASE n = m
      BY <1>1, <1>2, <3>1
    <3>2. CASE n # m
      BY <1>1, <1>2, <3>2, SnapshotsTyped DEF StoreInv, Counted
    <3> QED BY <3>1, <3>2
  <2>2. \A n \in Messages : rows[n].rev <= ui'.rev
    BY <1>1, SnapshotsTyped DEF StoreInv, Counted
  <2> QED BY <1>1, <2>1, <2>2 DEF StoreInv, Counted, Attached
<1>5. InStep'
  <2> SUFFICES ASSUME Attached, NEW n \in Messages
               PROVE  /\ Present(entries'[n]) /\ entries'[n].rev <= row.rev => rows[n] = entries'[n]
                      /\ Present(entries'[n]) /\ Present(rows[n]) =>
                           rows[n].rev <= entries'[n].rev /\ rows[n].pos = entries'[n].pos
                      /\ ~Present(entries'[n]) => rows[n].rev <= ui.committed
                      /\ Streamed(n) /\ RunOf[n] \in registered /\ Present(rows[n])
                           => Present(entries'[n])
    BY <1>1 DEF InStep, Attached
  <2>1. CASE n = m
    BY <1>1, <1>2, <2>1, SnapshotsTyped DEF StoreInv, Counted
  <2>2. CASE n # m
    BY <1>2, <2>2 DEF StoreInv, InStep
  <2> QED BY <2>1, <2>2
<1>6. FlushSound'
  <2> SUFFICES ASSUME Flushing, Flushing' PROVE FlushSound'
    BY <1>1 DEF FlushSound, Flushing
  <2>1. flushing.rev <= ui.rev /\ flushing.rev \in Nat /\ flushing.next \in Nat
    BY FlushTyped DEF StoreInv, FlushSound
  <2>2. ASSUME NEW n \in Messages
        PROVE  LET f == flushing.entries[n] IN
               /\ Present(f) => /\ Present(entries'[n]) /\ entries'[n].pos = f.pos
                                /\ entries'[n] = f \/ entries'[n].rev > flushing.rev
               /\ Attached /\ ~Present(f) => \/ ~Present(entries'[n])
                                             \/ entries'[n].rev <= ui.committed
                                             \/ entries'[n].rev > flushing.rev
    <3>1. CASE n = m
      BY <1>1, <1>2, <2>1, <3>1 DEF StoreInv, FlushSound
    <3>2. CASE n # m
      BY <1>2, <3>2 DEF StoreInv, FlushSound
    <3> QED BY <3>1, <3>2
  <2> QED BY <1>1, <2>1, <2>2 DEF StoreInv, FlushSound, Flushing, Attached
<1> QED BY <1>3, <1>4, <1>5, <1>6 DEF StoreInv

(* A stored snapshot is back in memory, to be appended again.              *)
Recalled(m) ==
  /\ UNCHANGED <<row, rows, registered, flushing, ui>>
  /\ \A n \in Messages \ {m} : entries'[n] = entries[n] /\ pending'[n] = pending[n]
  /\ entries'[m] = Shown(m) /\ Present(Shown(m))

LEMMA RecalledStore ==
  ASSUME StoreTypes, HistoryTypeOK', StoreInv, NEW m \in Messages, Recalled(m), Others
  PROVE  StoreInv'
<1> USE DEF StoreTypes
<1>1. /\ ui.gen \in Nat /\ ui.rev \in Nat /\ ui.committed \in Nat /\ ui.next \in Nat
      /\ row.rev \in Nat /\ row.next \in Nat
      /\ UNCHANGED <<row, rows, registered, viewer, flushing, ui>>
      /\ \A r \in Runs : uiRun'[r].gen = uiRun[r].gen
      /\ job'.pc = "erased" => job.pc = "erased"
  BY UiTyped DEF Recalled, Others
<1>2. /\ Present(entries'[m])
      /\ \A n \in Messages : \/ entries'[n] = entries[n]
                             \/ n = m /\ ~Present(entries[n]) /\ entries'[n] = rows[n]
      /\ \A n \in Messages \ {m} : pending'[n] = pending[n]
  BY DEF Recalled, Shown
<1> USE DEF StoreInv
<1>3. Generations'
  BY <1>1 DEF Generations
<1>4. Counted'
  <2>1. ASSUME NEW n \in Messages
        PROVE  /\ entries'[n].rev <= ui.rev
               /\ Present(entries'[n]) => entries'[n].pos < ui.next
               /\ pending'[n] > 0 => Present(entries'[n])
    BY <1>1, <1>2, SnapshotsTyped DEF Counted
  <2> QED BY <1>1, <2>1 DEF Counted, Attached
<1>5. InStep'
  BY <1>1, <1>2, SnapshotsTyped DEF InStep, Attached
<1>6. FlushSound'
  <2> SUFFICES ASSUME Flushing PROVE FlushSound'
    BY <1>1 DEF FlushSound, Flushing
  <2>1. ASSUME NEW n \in Messages
        PROVE  LET f == flushing.entries[n] IN
               /\ Present(f) => entries'[n] = entries[n]
               /\ Attached /\ ~Present(f) => \/ ~Present(entries'[n])
                                             \/ entries'[n].rev <= ui.committed
                                             \/ entries'[n].rev > flushing.rev
    BY <1>1, <1>2 DEF FlushSound, InStep
  <2> QED BY <1>1, <2>1 DEF FlushSound, Flushing, Attached
<1> QED BY <1>3, <1>4, <1>5, <1>6

(* A flush, from the snapshot it takes to what memory lets go of.          *)
LEMMA TakenStore ==
  ASSUME StoreTypes, HistoryTypeOK', StoreInv, NEW by \in Flushers, FlushTake(by)
  PROVE  StoreInv'
<1> USE DEF StoreTypes
<1>1. /\ ui.rev \in Nat /\ ui.committed \in Nat /\ ui.committed < ui.rev
      /\ row.next <= ui.next
      /\ flushing'.gen = ui.gen /\ flushing'.rev = ui.rev /\ flushing'.next = ui.next
      /\ flushing'.pc = "taken" /\ job'.pc # "erased"
      /\ UNCHANGED <<disk, memory, job, uiRun, viewer>>
      /\ \A m \in Messages : flushing'.entries[m] =
           (IF entries[m].rev > ui.committed THEN entries[m] ELSE Absent)
  BY UiTyped DEF FlushTake, FlushFree, StoreInv, Counted
<1>2. UNCHANGED <<row, rows, ui, entries, pending, registered>>
  BY <1>1 DEF disk, memory
<1>3. Generations' /\ Counted' /\ InStep'
  BY <1>1, <1>2 DEF StoreInv, Generations, Counted, InStep, Attached
<1>4. FlushSound'
  <2>1. ASSUME NEW m \in Messages
        PROVE  LET f == flushing'.entries[m] IN
               /\ Present(f) => /\ ui.committed < f.rev /\ f.rev <= ui.rev
                                /\ f.pos < ui.next
                                /\ Present(entries[m]) /\ entries[m].pos = f.pos
                                /\ entries[m] = f
               /\ ~Present(f) => \/ ~Present(entries[m])
                                 \/ entries[m].rev <= ui.committed
    BY <1>1, AbsentTyped, SnapshotsTyped DEF StoreInv, Counted
  <2>2. /\ job'.pc # "erased"
        /\ flushing'.gen = ui'.gen
        /\ ui'.committed < flushing'.rev /\ flushing'.rev <= ui'.rev
        /\ row'.next <= flushing'.next /\ flushing'.next <= ui'.next
        /\ flushing'.pc # "written"
    BY <1>1, <1>2, UiTyped
  <2> DEFINE g(m) == flushing'.entries[m]
  <2>3. ASSUME NEW m \in Messages
        PROVE  /\ Present(g(m)) => /\ ui'.committed < g(m).rev /\ g(m).rev <= flushing'.rev
                                   /\ g(m).pos < flushing'.next
                                   /\ Present(entries'[m]) /\ entries'[m].pos = g(m).pos
                                   /\ entries'[m] = g(m) \/ entries'[m].rev > flushing'.rev
               /\ ~Present(g(m)) => \/ ~Present(entries'[m])
                                    \/ entries'[m].rev <= ui'.committed
                                    \/ entries'[m].rev > flushing'.rev
    BY <1>1, <1>2, <2>1
  <2> QED BY <2>2, <2>3 DEF FlushSound
<1> QED BY <1>3, <1>4 DEF StoreInv

LEMMA WrittenStore ==
  ASSUME StoreTypes, HistoryTypeOK', StoreInv, FlushWrite
  PROVE  StoreInv'
<1> USE DEF StoreTypes
<1>0. Flushing
  BY Typed DEF FlushWrite, Flushing
<1>1. /\ flushing \in FlushesTaken /\ flushing.rev \in Nat /\ flushing.next \in Nat
      /\ ui.rev \in Nat /\ ui.committed \in Nat /\ row.next \in Nat
      /\ flushing.gen = ui.gen /\ ui.committed < flushing.rev /\ flushing.rev <= ui.rev
      /\ row.next <= flushing.next /\ flushing.next <= ui.next
      /\ row.gen = ui.gen /\ row.rev = ui.committed
  BY <1>0, FlushTyped, UiTyped DEF FlushWrite, RowMatches, StoreInv, FlushSound
<1>2. /\ row'.gen = row.gen /\ row'.rev = flushing.rev /\ row'.next = flushing.next
      /\ \A m \in Messages : rows'[m] = IF Present(flushing.entries[m])
                                        THEN flushing.entries[m] ELSE rows[m]
      /\ UNCHANGED <<ui, entries, pending, registered, job, uiRun, viewer>>
      /\ flushing' = [flushing EXCEPT !.pc = "written"]
  BY <1>1 DEF FlushWrite, memory
<1>3. /\ flushing'.gen = flushing.gen /\ flushing'.rev = flushing.rev
      /\ flushing'.next = flushing.next /\ flushing'.entries = flushing.entries
  BY <1>1, <1>2 DEF FlushesTaken
<1>4. Generations'
  BY <1>2 DEF StoreInv, Generations
<1> USE DEF StoreInv
<1>5. Counted'
  BY <1>0, <1>1, <1>2, SnapshotsTyped DEF Counted, FlushSound, Attached
<1>6. InStep'
  <2> SUFFICES ASSUME NEW m \in Messages
               PROVE  /\ Present(entries[m]) /\ entries[m].rev <= flushing.rev
                           => rows'[m] = entries[m]
                      /\ Present(entries[m]) /\ Present(rows'[m]) =>
                           rows'[m].rev <= entries[m].rev /\ rows'[m].pos = entries[m].pos
                      /\ ~Present(entries[m]) => rows'[m].rev <= ui.committed
                      /\ Streamed(m) /\ RunOf[m] \in registered /\ Present(rows'[m])
                           => Present(entries[m])
    BY <1>2 DEF InStep, Attached
  <2>1. CASE Present(flushing.entries[m])
    BY <1>0, <1>1, <1>2, <2>1, SnapshotsTyped DEF FlushSound
  <2>2. CASE ~Present(flushing.entries[m])
    BY <1>0, <1>1, <1>2, <2>2, SnapshotsTyped DEF FlushSound, InStep, Attached
  <2> QED BY <2>1, <2>2
<1>7. FlushSound'
  BY <1>0, <1>1, <1>2, <1>3 DEF FlushSound, Flushing, Attached
<1> QED BY <1>4, <1>5, <1>6, <1>7

LEMMA SettledStore ==
  ASSUME StoreTypes, HistoryTypeOK', StoreInv, FlushSettle
  PROVE  StoreInv'
<1> USE DEF StoreTypes
<1> DEFINE u == [ui EXCEPT !.committed = flushing.rev]
<1>0. Flushing
  BY Typed DEF FlushSettle, Flushing
<1>1. /\ flushing.rev \in Nat /\ ui.rev \in Nat /\ ui.committed \in Nat
      /\ ui.committed < flushing.rev /\ flushing.rev <= ui.rev
      /\ row.gen = ui.gen /\ row.rev = flushing.rev
  BY <1>0, FlushTyped, UiTyped DEF FlushSettle, StoreInv, FlushSound, Attached
<1>2. /\ u \in UiStates /\ u.gen = ui.gen /\ u.committed = flushing.rev /\ u.next = ui.next
      /\ u.rev = ui.rev
  BY <1>1 DEF HistoryTypeOK, UiStates
<1> HIDE DEF u
<1>3. flushing.by \in Flushers /\ (~ui.failed) \in BOOLEAN
      /\ Answer(flushing.by, ~ui.failed, u)
  <2>1. flushing.by \in Flushers
    BY <1>0, FlushTyped DEF FlushesTaken, Flushers
  <2>2. (~ui.failed) \in BOOLEAN
    BY Zenon
  <2>3. Answer(flushing.by, ~ui.failed, u)
    BY DEF FlushSettle, u
  <2> QED BY <2>1, <2>2, <2>3
<1>4. /\ Ticks(u, ui')
      /\ \/ job' = job \/ job' = NoJob
         \/ job.kind = "truncate" /\ job' = [job EXCEPT !.pc = "cut"]
      /\ \A r \in Runs : uiRun'[r].gen = uiRun[r].gen
  <2> DEFINE ok == ~ui.failed
             by == flushing.by
  <2>1. ok \in BOOLEAN /\ by \in Flushers /\ Answer(by, ok, u)
    BY <1>3
  <2> HIDE DEF ok, by
  <2> QED BY <1>2, <2>1, AnswerFacts
<1>5. /\ ui'.gen = ui.gen /\ ui'.committed = flushing.rev /\ ui'.next = ui.next
      /\ ui.rev <= ui'.rev /\ ui'.rev \in Nat
  BY <1>2, <1>4 DEF Ticks, HistoryTypeOK, UiStates
<1>6. /\ UNCHANGED <<row, rows, pending, registered, viewer>> /\ flushing' = NoFlush
      /\ \A m \in Messages : \/ entries'[m] = entries[m]
                             \/ ~Kept(m) /\ entries'[m] = Absent
  BY DEF FlushSettle, disk
<1>7. job'.pc # "erased"
  <2>1. CASE job' = job \/ job' = NoJob
    BY <1>0, <2>1, Idle DEF StoreInv, FlushSound
  <2>2. CASE job.kind = "truncate" /\ job' = [job EXCEPT !.pc = "cut"]
    BY <2>2, Typed DEF JobsOfCut
  <2> QED BY <1>4, <2>1, <2>2
<1> USE DEF StoreInv
<1>8. Generations'
  BY <1>1, <1>4, <1>5, <1>6, <1>7, ViewerTyped DEF Generations
<1>9. Counted'
  <2>1. ASSUME NEW m \in Messages
        PROVE  /\ entries'[m].rev <= ui'.rev
               /\ Present(entries'[m]) => entries'[m].pos < ui'.next
               /\ pending[m] > 0 => Present(entries'[m])
    BY <1>1, <1>5, <1>6, AbsentTyped, SnapshotsTyped DEF Counted, Kept
  <2>2. \A m \in Messages : rows[m].rev <= ui'.rev
    BY <1>1, <1>5, SnapshotsTyped DEF Counted
  <2> QED BY <1>1, <1>5, <1>6, <2>1, <2>2 DEF Counted, Attached
<1>10. InStep'
  <2>1. ASSUME NEW m \in Messages
        PROVE  /\ Present(entries'[m]) => entries'[m] = entries[m]
               /\ rows[m].rev <= flushing.rev
               /\ RunOf[m] \in registered => entries'[m] = entries[m]
    BY <1>1, <1>6, AbsentTyped DEF Kept, Counted
  <2> QED BY <1>1, <1>5, <1>6, <2>1 DEF InStep, Attached
<1>11. FlushSound'
  BY <1>6 DEF FlushSound, Flushing
<1> QED BY <1>8, <1>9, <1>10, <1>11

(* A run comes and goes. *)
LEMMA RunStore ==
  ASSUME StoreTypes, HistoryTypeOK', StoreInv, NEW r \in Runs,
         \/ BeginRun(r) /\ \A m \in Messages : Streamed(m) /\ RunOf[m] = r => ~Present(rows[m])
         \/ CheckRun(r)
  PROVE  StoreInv'
<1> USE DEF StoreTypes
<1>1. CASE /\ BeginRun(r)
           /\ \A m \in Messages : Streamed(m) /\ RunOf[m] = r => ~Present(rows[m])
  <2>1. /\ UNCHANGED <<row, rows, ui, entries, pending, job, flushing, viewer>>
        /\ registered' = registered \cup {r} /\ ui.gen \in Nat
        /\ \A q \in Runs : uiRun'[q].gen <= ui.gen
    <3>1. /\ UNCHANGED <<row, rows, ui, entries, pending, job, flushing, viewer>>
          /\ registered' = registered \cup {r} /\ ui.gen \in Nat
          /\ uiRun' = [uiRun EXCEPT ![r] = [pc |-> "open", gen |-> ui.gen]]
      BY <1>1, UiTyped DEF BeginRun, disk
    <3> QED BY <3>1 DEF StoreInv, Generations, HistoryTypeOK
  <2>2. Generations' /\ Counted'
    BY <2>1 DEF StoreInv, Generations, Counted, Attached
  <2>3. InStep'
    BY <1>1, <2>1 DEF StoreInv, InStep, Attached
  <2>4. FlushSound'
    BY <2>1 DEF StoreInv, FlushSound, Flushing, Attached
  <2> QED BY <2>2, <2>3, <2>4 DEF StoreInv
<1>2. CASE CheckRun(r)
  <2>1. /\ UNCHANGED <<row, rows, ui, pending, job, flushing, viewer>>
        /\ registered' = registered \ {r} /\ ui.gen \in Nat /\ ui.committed \in Nat
        /\ row.rev \in Nat
        /\ \A m \in Messages :
             \/ entries'[m] = entries[m]
             \/ /\ RunOf[m] = r /\ entries[m].rev <= ui.committed
                /\ ~Unfinished(m) /\ entries'[m] = Absent
    BY <1>2, UiTyped DEF CheckRun, disk, Own
  <2>2. \A q \in Runs : uiRun'[q].gen = uiRun[q].gen
    BY <1>2 DEF CheckRun, HistoryTypeOK, RunStates
  <2> USE DEF StoreInv
  <2>3. Generations'
    BY <2>1, <2>2 DEF Generations
  <2>4. Counted'
    <3>1. ASSUME NEW m \in Messages
          PROVE  /\ entries'[m].rev <= ui.rev
                 /\ Present(entries'[m]) => entries'[m].pos < ui.next
                 /\ pending[m] > 0 => Present(entries'[m])
      BY <2>1, UiTyped, AbsentTyped DEF Counted, Unfinished
    <3> QED BY <2>1, <3>1 DEF Counted, Attached
  <2>5. InStep'
    <3> SUFFICES ASSUME Attached, NEW m \in Messages
                 PROVE  /\ Present(entries'[m]) => entries'[m] = entries[m]
                        /\ ~Present(entries'[m]) => rows[m].rev <= ui.committed
                        /\ RunOf[m] \in registered' => entries'[m] = entries[m]
      BY <2>1 DEF InStep, Attached
    <3>1. Present(entries'[m]) => entries'[m] = entries[m]
      BY <2>1, AbsentTyped
    <3>2. RunOf[m] \in registered' => entries'[m] = entries[m]
      BY <2>1
    <3>3. ~Present(entries'[m]) => rows[m].rev <= ui.committed
      <4>1. CASE ~Present(entries[m])
        BY <4>1 DEF InStep
      <4>2. CASE Present(entries[m]) /\ entries[m].rev <= ui.committed
        BY <2>1, <4>2, SnapshotsTyped DEF InStep, Counted
      <4> QED BY <2>1, <4>1, <4>2
    <3> QED BY <3>1, <3>2, <3>3
  <2>6. FlushSound'
    <3> SUFFICES ASSUME Flushing, NEW m \in Messages
                 PROVE  LET f == flushing.entries[m] IN
                        /\ Present(f) => entries'[m] = entries[m]
                        /\ ~Present(f) => entries'[m] = entries[m] \/ ~Present(entries'[m])
      BY <2>1 DEF FlushSound, Flushing, Attached
    <3>1. Present(flushing.entries[m]) => ~(entries[m].rev <= ui.committed)
      BY <2>1, FlushTyped, SnapshotsTyped DEF FlushSound
    <3> QED BY <2>1, <3>1, AbsentTyped
  <2> QED BY <2>3, <2>4, <2>5, <2>6
<1> QED BY <1>1, <1>2

(* The rows are cut, and memory is loaded anew. *)
LEMMA CutStore ==
  ASSUME StoreTypes, HistoryTypes, HistoryTypeOK', StoreInv, EraseRows \/ EraseMemory \/ Reload
  PROVE  StoreInv'
<1> USE DEF StoreTypes
<1>1. CASE EraseRows
  <2>1. /\ UNCHANGED <<ui, entries, pending, registered, flushing, uiRun, viewer>>
        /\ flushing = NoFlush /\ row.gen = ui.gen
        /\ \A m \in Messages : rows'[m] = Absent \/ rows'[m] = rows[m]
        /\ row'.gen = row.gen + 1 /\ row'.rev = ui.rev + 1
        /\ row'.next <= row.next /\ row'.next \in Nat
        /\ \A m \in Messages : Present(rows'[m]) => rows'[m].pos < row'.next
    BY <1>1, UiTyped DEF EraseRows, memory
  <2>2. /\ ui.gen \in Nat /\ ui.rev \in Nat /\ row.rev \in Nat /\ row.next \in Nat
        /\ ui.next \in Nat /\ row.rev <= ui.rev
    BY <2>1, UiTyped DEF StoreInv, Counted, Attached
  <2>3. Generations'
    BY <2>1, <2>2 DEF StoreInv, Generations
  <2>4. Counted'
    BY <2>1, <2>2, AbsentTyped, SnapshotsTyped DEF StoreInv, Counted, Attached
  <2>5. InStep' /\ FlushSound'
    BY <2>1, <2>2 DEF InStep, FlushSound, Flushing, Attached
  <2> QED BY <2>3, <2>4, <2>5 DEF StoreInv
<1>2. CASE EraseMemory \/ Reload
  <2>1. /\ UNCHANGED <<row, rows>> /\ flushing' = NoFlush
        /\ ui'.gen = row.gen /\ ui'.rev = row.rev /\ ui'.committed = row.rev
        /\ ui'.next = row.next
        /\ entries' = Nothing /\ registered' = {} /\ \A m \in Messages : pending'[m] = 0
        /\ job' = NoJob
    BY <1>2 DEF EraseMemory, Reload, Loaded, disk, StoreInv, FlushSound, Flushing
  <2>2. \A r \in Runs : uiRun'[r].gen = uiRun[r].gen
    BY <1>2 DEF EraseMemory, Reload, HistoryTypeOK, RunStates
  <2>3. \/ UNCHANGED viewer /\ ui.gen < row.gen
        \/ \A v \in Viewers : viewer'[v] = Closed
    BY <1>2 DEF EraseMemory, Reload, StoreInv, Generations
  <2>4. /\ ui.gen \in Nat /\ row.gen \in Nat /\ row.rev \in Nat /\ row.next \in Nat
        /\ Closed.gen = 0 /\ Closed.rev = 0 /\ Closed.mark = 0
        /\ \A r \in Runs : uiRun[r].gen \in Nat
    BY UiTyped DEF Closed, HistoryTypeOK, RunStates
  <2>5. Generations'
    <3>1. \A v \in Viewers : /\ viewer'[v].gen <= row.gen
                             /\ viewer'[v].gen = row.gen => /\ viewer'[v].mark <= row.rev
                                                            /\ viewer'[v].rev <= row.rev
      BY <2>3, <2>4, ViewerTyped DEF StoreInv, Generations
    <3> QED BY <2>1, <2>2, <2>4, <3>1, Idle DEF StoreInv, Generations
  <2>6. Counted'
    BY <2>1, <2>4, AbsentTyped DEF StoreInv, Counted, Attached
  <2>7. InStep' /\ FlushSound'
    BY <2>1, <2>4, AbsentTyped DEF StoreInv, Counted, InStep, FlushSound, Flushing, Attached
  <2> QED BY <2>5, <2>6, <2>7 DEF StoreInv
<1> QED BY <1>1, <1>2

(* Which steps are which. *)
QuietSteps ==
  \/ \E m \in Messages : CopyRefused(m) \/ BeginUpdate(m)
  \/ \E m \in Messages : \E v \in 1 .. Last[m] : StageRefused(m, v)
  \/ WriteRecord \/ WriteFails \/ BindFails \/ Rewrite \/ RewriteFails \/ ReplaceFails
  \/ \E by \in Flushers : FlushNothing(by)
  \/ FlushFails
  \/ \E r \in Runs : EndRun(r) \/ CheckRefuses(r) \/ DropRun(r)
  \/ \E b \in 0 .. Len(records) - 1 : BeginTruncate(b)
  \/ BeginClear \/ Cut \/ CutFails \/ EraseFails \/ PruneFails \/ DropJob

LEMMA QuietStepsAreQuiet ==
  ASSUME HistoryTypes, QuietSteps
  PROVE  Quiet /\ Others
<1> USE DEF HistoryTypes
<1>0. ui \in UiStates /\ Ticks(ui, ui) /\ Ticks(ui, Failed(ui))
  BY FailedTicks DEF HistoryTypeOK
<1>1. CASE \/ \E m \in Messages : CopyRefused(m)
           \/ \E m \in Messages : \E v \in 1 .. Last[m] : StageRefused(m, v)
  BY <1>0, <1>1 DEF CopyRefused, StageRefused, Quiet, Others, disk, memory
<1>2. CASE WriteRecord \/ Rewrite \/ Cut
  <2>1. job'.pc # "erased"
    <3>1. CASE WriteRecord
      <4>1. job \in JobsOfAppend
        BY <3>1, Typed DEF WriteRecord
      <4> QED BY <3>1, <4>1 DEF WriteRecord, JobsOfAppend
    <3>2. CASE Rewrite
      <4>1. job \in JobsOfUpdate
        BY <3>2, Typed DEF Rewrite
      <4> QED BY <3>2, <4>1 DEF Rewrite, JobsOfUpdate
    <3>3. CASE Cut
      <4>1. job \in JobsOfCut
        BY <3>3, Typed DEF Cut
      <4> QED BY <3>3, <4>1 DEF Cut, JobsOfCut
    <3> QED BY <1>2, <3>1, <3>2, <3>3
  <2> QED BY <1>0, <1>2, <2>1 DEF WriteRecord, Rewrite, Cut, Quiet, Others, memory
<1>3. CASE \/ WriteFails \/ BindFails \/ RewriteFails \/ ReplaceFails
           \/ CutFails \/ EraseFails \/ PruneFails \/ DropJob
  <2>1. job'.pc # "erased"
    BY <1>3, Idle DEF WriteFails, BindFails, RewriteFails, ReplaceFails,
       CutFails, EraseFails, PruneFails, DropJob
  <2>2. UNCHANGED <<row, rows, entries, pending, registered, uiRun, viewer>>
    BY <1>3 DEF WriteFails, BindFails, RewriteFails, ReplaceFails,
       CutFails, EraseFails, PruneFails, DropJob, disk, memory
  <2>3. Ticks(ui, ui') /\ flushing' \in {flushing, NoFlush}
    BY <1>0, <1>3 DEF WriteFails, BindFails, RewriteFails, ReplaceFails,
       CutFails, EraseFails, PruneFails, DropJob, disk, memory
  <2> QED BY <2>1, <2>2, <2>3 DEF Quiet, Others
<1>4. CASE FlushFails \/ \E by \in Flushers : FlushNothing(by)
  <2>1. PICK by \in Flushers, ok \in BOOLEAN : Answer(by, ok, ui)
    <3>1. CASE FlushFails
      <4>1. flushing.by \in Flushers
        BY <3>1, Typed DEF FlushFails, FlushesTaken, Flushers
      <4> QED BY <3>1, <4>1 DEF FlushFails
    <3>2. ASSUME NEW by \in Flushers, FlushNothing(by)
          PROVE  \E ok \in BOOLEAN : Answer(by, ok, ui)
      <4> DEFINE ok == ~ui.failed
      <4>1. ok \in BOOLEAN
        BY Zenon
      <4>2. Answer(by, ok, ui)
        BY <3>2 DEF FlushNothing
      <4> HIDE DEF ok
      <4> QED BY <4>1, <4>2
    <3> QED BY <1>4, <3>1, <3>2
  <2>2. /\ Ticks(ui, ui')
        /\ \/ job' = job \/ job' = NoJob
           \/ job.kind = "truncate" /\ job' = [job EXCEPT !.pc = "cut"]
        /\ \A r \in Runs : uiRun'[r].gen = uiRun[r].gen
    BY <1>0, <2>1, AnswerFacts
  <2>3. job'.pc = "erased" => job.pc = "erased"
    <3>1. CASE job.kind = "truncate" /\ job' = [job EXCEPT !.pc = "cut"]
      BY <3>1, Typed DEF JobsOfCut
    <3> QED BY <2>2, <3>1, Idle
  <2>4. /\ UNCHANGED <<row, rows, entries, pending, registered, viewer>>
        /\ flushing' \in {flushing, NoFlush}
    BY <1>4 DEF FlushFails, FlushNothing, disk
  <2> QED BY <2>2, <2>3, <2>4 DEF Quiet, Others
<1>5. ASSUME NEW r \in Runs, EndRun(r) \/ CheckRefuses(r) \/ DropRun(r)
      PROVE  Quiet /\ Others
  <2>1. \A q \in Runs : uiRun'[q].gen = uiRun[q].gen
    <3>1. uiRun \in [Runs -> RunStates]
      BY DEF HistoryTypeOK
    <3>2. PICK p \in {"flush", "last", "dropped"} : uiRun' = [uiRun EXCEPT ![r].pc = p]
      BY <1>5, Zenon DEF EndRun, CheckRefuses, DropRun
    <3> QED BY <3>1, <3>2 DEF RunStates
  <2>2. Ticks(ui, ui')
    BY <1>0, <1>5, FailedTicks DEF EndRun, CheckRefuses, DropRun, memory
  <2> QED BY <1>5, <2>1, <2>2 DEF EndRun, CheckRefuses, DropRun, Quiet, Others, disk, memory
<1>6. CASE \/ \E m \in Messages : BeginUpdate(m)
           \/ \E b \in 0 .. Len(records) - 1 : BeginTruncate(b)
           \/ BeginClear
  BY <1>0, <1>6 DEF BeginUpdate, BeginTruncate, BeginClear, Quiet, Others, disk, memory
<1> QED BY <1>1, <1>2, <1>3, <1>4, <1>5, <1>6 DEF QuietSteps

(* What a copy, an append, a receipt and an update write. *)
LEMMA CopyEdits ==
  ASSUME StoreTypes, StoreInv, DataInv, NEW m \in Messages, Copy(m)
  PROVE  Edited(m) /\ Others
<1> USE DEF StoreTypes
<1> DEFINE e == entries[m]
           v == copied[m] + 1
<1>1. /\ e \in Snapshots /\ copied[m] \in Nat /\ v \in Nat /\ v > 0
      /\ ui.rev \in Nat /\ ui.next \in Nat
  BY UiTyped DEF HistoryTypeOK
<1>2. /\ entries' = [entries EXCEPT ![m] = Projected(e, v)] /\ ui' = Advanced(e)
      /\ UNCHANGED <<row, rows, pending, registered, flushing, job, uiRun, viewer>>
      /\ NextCopy(m) /\ Copyable(RunOf[m])
  BY DEF Copy, disk
<1>3. Attached /\ ~Present(e) => ~Present(rows[m])
  <2>1. CASE Streamed(m)
    BY <1>2, <2>1 DEF StoreInv, InStep, Copyable
  <2>2. CASE ~Streamed(m)
    <3>1. Kind[m] = "error" /\ copied[m] = 0 /\ sent[m] = 0
      BY <1>1, <1>2, <2>2, HistoryAssumption DEF NextCopy, Streamed, DataInv, RunsSound, RunSound
    <3> QED BY <3>1 DEF DataInv, SnapshotsSound, Sound
  <2> QED BY <2>1, <2>2
<1> DEFINE p == Projected(e, v)
<1>4. p.ver = v /\ p.rev = ui.rev + 1 /\ p.pos = IF Present(e) THEN e.pos ELSE ui.next
  BY <1>1, AbsentTyped DEF Projected, Snapshots, Absent
<1>5. /\ ui'.gen = ui.gen /\ ui'.committed = ui.committed /\ ui'.rev = ui.rev + 1
      /\ ui'.next = IF Present(e) THEN ui.next ELSE ui.next + 1
  BY <1>2 DEF Advanced, HistoryTypeOK, UiStates
<1>6. entries'[m] = p /\ \A n \in Messages \ {m} : entries'[n] = entries[n]
  BY <1>2 DEF HistoryTypeOK
<1>7. Present(e) => e.pos < ui.next /\ e.pos \in Nat
  BY SnapshotsTyped DEF StoreInv, Counted
<1>8. Attached /\ Present(e) /\ Present(rows[m]) => rows[m].pos = e.pos
  BY DEF StoreInv, InStep
<1> HIDE DEF p, v, e
<1>9. Present(p)
  BY <1>1, <1>4 DEF Present
<1>10. p.pos < ui'.next /\ ui.next <= ui'.next
  BY <1>1, <1>4, <1>5, <1>7
<1>11. /\ Present(e) => p.pos = e.pos
       /\ Attached /\ Present(rows[m]) => p.pos = rows[m].pos
  BY <1>3, <1>4, <1>8
<1> QED BY <1>2, <1>4, <1>5, <1>6, <1>9, <1>10, <1>11 DEF Edited, Others, e

LEMMA StageEdits ==
  ASSUME StoreTypes, StoreInv, DataInv, NEW m \in Messages, NEW v \in 1 .. Last[m], Stage(m, v)
  PROVE  (Edited(m) \/ Recalled(m)) /\ Others
<1> USE DEF StoreTypes
<1> DEFINE old == Shown(m)
<1>1. /\ old \in Snapshots /\ old.ver \in Nat /\ v \in Nat /\ v > 0
      /\ ui.rev \in Nat /\ ui.next \in Nat
  BY UiTyped, Typed, HistoryAssumption DEF Snapshots
<1>2. /\ entries' = [entries EXCEPT ![m] = IF old.ver < v THEN Projected(old, v) ELSE old]
      /\ ui' = IF old.ver < v THEN Advanced(old) ELSE ui
      /\ pending' = [pending EXCEPT ![m] = @ + 1]
      /\ UNCHANGED <<row, rows, registered, flushing, uiRun, viewer>>
      /\ job'.pc = "staged"
  BY DEF Stage, disk
<1>3. /\ entries'[m] = IF old.ver < v THEN Projected(old, v) ELSE old
      /\ \A n \in Messages \ {m} : entries'[n] = entries[n] /\ pending'[n] = pending[n]
  BY <1>2 DEF HistoryTypeOK
<1>4. /\ Present(entries[m]) => old = entries[m]
      /\ ~Present(entries[m]) => old = rows[m]
  BY DEF Shown
<1> HIDE DEF old
<1>5. CASE old.ver < v
  <2> DEFINE p == Projected(old, v)
  <2>1. p.ver = v /\ p.rev = ui.rev + 1 /\ p.pos = IF Present(old) THEN old.pos ELSE ui.next
    BY <1>1, AbsentTyped DEF Projected, Snapshots, Absent
  <2>2. /\ ui'.gen = ui.gen /\ ui'.committed = ui.committed /\ ui'.rev = ui.rev + 1
        /\ ui'.next = IF Present(old) THEN ui.next ELSE ui.next + 1
    BY <1>2, <1>5 DEF Advanced, HistoryTypeOK, UiStates
  <2>3. entries'[m] = p
    BY <1>3, <1>5
  <2>4. Present(old) => old.pos < ui.next /\ old.pos \in Nat
    BY <1>4, SnapshotsTyped, UiTyped DEF StoreInv, Counted
  <2>5. Attached /\ Present(rows[m]) => Present(old) /\ rows[m].pos = old.pos
    BY <1>4 DEF StoreInv, InStep
  <2> HIDE DEF p
  <2>6. Present(p)
    BY <1>1, <2>1 DEF Present
  <2>7. p.pos < ui'.next /\ ui.next <= ui'.next
    BY <1>1, <2>1, <2>2, <2>4
  <2> QED BY <1>2, <1>3, <1>4, <2>1, <2>2, <2>3, <2>5, <2>6, <2>7 DEF Edited, Others
<1>6. CASE ~(old.ver < v)
  <2>1. Present(old) /\ entries'[m] = old
    BY <1>1, <1>3, <1>6 DEF Present
  <2> QED BY <1>2, <1>3, <1>6, <2>1 DEF Recalled, Others, old
<1> QED BY <1>5, <1>6

LEMMA BindEdits ==
  ASSUME StoreTypes, StoreInv, DataInv, Bind
  PROVE  job.msg \in Messages /\ Edited(job.msg) /\ Others
<1> USE DEF StoreTypes
<1> DEFINE m == job.msg
           e == entries[m]
<1>1. /\ job \in JobsOfAppend /\ m \in Messages /\ e \in Snapshots /\ ui.rev \in Nat
  BY Typed, UiTyped DEF Bind, JobsOfAppend, HistoryTypeOK
<1>2. Present(e) /\ e.pos < ui.next /\ e.pos \in Nat /\ ui.next \in Nat
  BY <1>1, UiTyped, SnapshotsTyped DEF Bind, Bindable, StoreInv, Counted
<1>3. /\ entries' = [entries EXCEPT ![m] = Bound(e)]
      /\ \A n \in Messages \ {m} : pending'[n] = pending[n]
      /\ ui' = [ui EXCEPT !.rev = @ + 1]
      /\ UNCHANGED <<row, rows, registered, flushing, uiRun, viewer>>
  BY <1>1 DEF Bind, HistoryTypeOK, disk
<1>4. Bound(e).ver = e.ver /\ Bound(e).pos = e.pos /\ Bound(e).rev = ui.rev + 1
  BY <1>1 DEF Bound, Snapshots
<1>5. job'.pc # "erased"
  BY <1>1, Idle DEF Bind, JobsOfAppend
<1>6. ui'.gen = ui.gen /\ ui'.committed = ui.committed /\ ui'.rev = ui.rev + 1 /\ ui'.next = ui.next
  BY <1>3 DEF HistoryTypeOK, UiStates
<1>7. Attached /\ Present(rows[m]) => e.pos = rows[m].pos
  BY <1>1, <1>2 DEF StoreInv, InStep
<1>8. entries'[m] = Bound(e) /\ \A n \in Messages \ {m} : entries'[n] = entries[n]
  BY <1>1, <1>3 DEF HistoryTypeOK
<1>9. Present(Bound(e))
  BY <1>2, <1>4 DEF Present
<1> HIDE DEF m
<1>10. Edited(m)
  BY <1>2, <1>3, <1>4, <1>6, <1>7, <1>8, <1>9 DEF Edited
<1> QED BY <1>1, <1>3, <1>5, <1>10 DEF Others, m

LEMMA ReplaceEdits ==
  ASSUME StoreTypes, HistoryTypes, StoreInv, DataInv, Replace
  PROVE  job.msg \in Messages /\ Edited(job.msg) /\ Others
<1> USE DEF StoreTypes
<1> DEFINE m == job.msg
           e == Shown(m)
           p == [e EXCEPT !.ver = job.ver, !.rev = ui.rev + 1]
<1>1. /\ job \in JobsOfUpdate /\ m \in Messages /\ e \in Snapshots /\ ui.rev \in Nat
      /\ job.index > 0 /\ job.ver > job.was /\ job.was \in Nat /\ job.ver \in Nat
  <2>1. job \in JobsOfUpdate
    BY Typed DEF Replace
  <2>2. /\ m \in Messages /\ job.was \in Nat /\ job.ver \in Nat /\ job.kind = "update"
    BY <2>1 DEF JobsOfUpdate
  <2>3. job.index > 0 /\ job.ver > job.was
    BY <2>2 DEF Replace, HistoryTypes, DataInv, JobSound, UpdateSound
  <2> QED BY <2>1, <2>2, <2>3, UiTyped, Typed
<1>2. Present(e) /\ e.pos < ui.next /\ e.pos \in Nat /\ ui.next \in Nat
  <2>1. e.record = job.index
    BY DEF Replace, Replaceable
  <2>2. Present(e)
    BY <1>1, <2>1 DEF Shown, Absent
  <2> QED BY <1>1, <2>2, UiTyped, SnapshotsTyped DEF Shown, StoreInv, Counted
<1>3. /\ entries' = [entries EXCEPT ![m] = p]
      /\ ui' = [ui EXCEPT !.rev = @ + 1]
      /\ UNCHANGED <<row, rows, pending, registered, flushing, uiRun, viewer>>
  BY DEF Replace, disk
<1>4. p.ver = job.ver /\ p.pos = e.pos /\ p.rev = ui.rev + 1
  BY <1>1 DEF Snapshots
<1>5. job'.pc # "erased"
  BY <1>1 DEF Replace, JobsOfUpdate
<1>6. ui'.gen = ui.gen /\ ui'.committed = ui.committed /\ ui'.rev = ui.rev + 1 /\ ui'.next = ui.next
  BY <1>3 DEF HistoryTypeOK, UiStates
<1>7. /\ Attached /\ Present(rows[m]) => e.pos = rows[m].pos
      /\ Present(entries[m]) => e.pos = entries[m].pos
  BY <1>1, <1>2 DEF StoreInv, InStep, Shown
<1>8. entries'[m] = p /\ \A n \in Messages \ {m} : entries'[n] = entries[n]
  BY <1>1, <1>3 DEF HistoryTypeOK
<1>9. Present(p)
  BY <1>1, <1>4 DEF Present
<1> HIDE DEF m, e, p
<1>10. Edited(m)
  BY <1>2, <1>3, <1>4, <1>6, <1>7, <1>8, <1>9 DEF Edited
<1> QED BY <1>1, <1>3, <1>5, <1>10 DEF Others, m

LEMMA ClosedFields ==
  /\ Closed.gen = 0 /\ Closed.rev = 0 /\ Closed.mark = 0 /\ Closed.pc = "closed"
  /\ Page.gen = ui.gen /\ Page.rev = 0 /\ Page.mark = ui.committed /\ Page.pc = "page"
  /\ Closed.read = Nothing /\ Closed.shown = Nothing
BY DEF Closed, Page

(* What a subscription is after each of its steps.                         *)
LEMMA ViewFields ==
  ASSUME HistoryTypeOK, NEW v \in Viewers, Views(v)
  PROVE  LET w == viewer[v]
             x == viewer'[v]
         IN  \/ x = Page \/ x = Closed
             \/ /\ ReadPage(v)
                /\ x.pc = "pageRead" /\ x.gen = w.gen /\ x.rev = w.rev /\ x.mark = w.mark
                /\ x.read = rows
             \/ /\ ShowPage(v)
                /\ x.pc = "open" /\ x.gen = ui.gen /\ x.rev = ui.rev /\ x.mark = 0
                /\ \A m \in Messages : x.shown[m] = IF Present(entries[m]) THEN entries[m]
                                                   ELSE w.read[m]
             \/ /\ x.pc = "update" /\ x.gen = w.gen /\ x.rev = w.rev /\ x.mark = ui.committed
                /\ x.shown = w.shown /\ w.pc \in {"open", "updateRead"}
             \/ /\ ReadUpdate(v)
                /\ x.pc = "updateRead" /\ x.gen = w.gen /\ x.rev = w.rev /\ x.mark = w.mark
                /\ x.shown = w.shown
                /\ x.read = [m \in Messages |-> IF w.mark > w.rev /\ rows[m].rev > w.rev
                                               THEN rows[m] ELSE Absent]
             \/ /\ ShowUpdate(v)
                /\ x.pc = "open" /\ x.gen = w.gen /\ x.rev = ui.rev /\ x.mark = 0
                /\ \A m \in Messages : x.shown[m] = Merged(v, m)
<1> DEFINE w == viewer[v]
           x == viewer'[v]
<1>1. w \in Subscriptions
  BY ViewerTyped
<1>2. \A y : viewer' = [viewer EXCEPT ![v] = y] => x = y
  BY DEF HistoryTypeOK
<1>3. CASE OpenView(v) \/ RetryPage(v) \/ CloseView(v)
  BY <1>2, <1>3 DEF OpenView, RetryPage, CloseView, GotoView
<1>4. CASE ReadPage(v)
  <2>1. x = [w EXCEPT !.pc = "pageRead", !.read = rows]
    BY <1>2, <1>4 DEF ReadPage, GotoView
  <2> HIDE DEF x, w
  <2>2. /\ x.pc = "pageRead" /\ x.gen = w.gen /\ x.rev = w.rev /\ x.mark = w.mark
        /\ x.read = rows
    BY <1>1, <2>1 DEF Subscriptions
  <2> QED BY <1>4, <2>2 DEF x, w
<1>5. CASE ShowPage(v)
  <2> DEFINE s == [m \in Messages |-> IF Present(entries[m]) THEN entries[m] ELSE w.read[m]]
  <2>1. x = [Closed EXCEPT !.pc = "open", !.gen = ui.gen, !.rev = ui.rev, !.shown = s]
    BY <1>2, <1>5 DEF ShowPage, GotoView
  <2>2. \A m \in Messages : s[m] = IF Present(entries[m]) THEN entries[m] ELSE w.read[m]
    OBVIOUS
  <2> HIDE DEF x, w, s
  <2>3. x.pc = "open" /\ x.gen = ui.gen /\ x.rev = ui.rev /\ x.mark = 0 /\ x.shown = s
    BY <2>1 DEF Closed
  <2> QED BY <1>5, <2>2, <2>3 DEF x, w
<1>6. CASE WakeView(v) \/ RetryUpdate(v)
  <2>1. \/ x = Page
        \/ /\ x = [w EXCEPT !.pc = "update", !.mark = ui.committed] /\ w.pc = "open"
        \/ /\ x = [w EXCEPT !.pc = "update", !.mark = ui.committed, !.read = Nothing]
           /\ w.pc = "updateRead"
    BY <1>2, <1>6 DEF WakeView, RetryUpdate, GotoView
  <2> HIDE DEF x, w
  <2>2. \/ x = Page
        \/ /\ x.pc = "update" /\ x.gen = w.gen /\ x.rev = w.rev /\ x.mark = ui.committed
           /\ x.shown = w.shown /\ w.pc \in {"open", "updateRead"}
    BY <1>1, <2>1 DEF Subscriptions
  <2> QED BY <2>2 DEF x, w
<1>7. CASE ReadUpdate(v)
  <2> DEFINE s == [m \in Messages |-> IF w.mark > w.rev /\ rows[m].rev > w.rev
                                     THEN rows[m] ELSE Absent]
  <2>1. x = [w EXCEPT !.pc = "updateRead", !.read = s]
    BY <1>2, <1>7 DEF ReadUpdate, GotoView
  <2> HIDE DEF x, w, s
  <2>2. /\ x.pc = "updateRead" /\ x.gen = w.gen /\ x.rev = w.rev /\ x.mark = w.mark
        /\ x.shown = w.shown /\ x.read = s
    BY <1>1, <2>1 DEF Subscriptions
  <2> QED BY <1>7, <2>2 DEF x, w, s
<1>8. CASE ShowUpdate(v)
  <2> DEFINE s == [m \in Messages |-> Merged(v, m)]
  <2>1. x = [w EXCEPT !.pc = "open", !.rev = ui.rev, !.mark = 0, !.read = Nothing, !.shown = s]
    BY <1>2, <1>8 DEF ShowUpdate, GotoView
  <2>2. \A m \in Messages : s[m] = Merged(v, m)
    OBVIOUS
  <2> HIDE DEF x, w, s
  <2>3. /\ x.pc = "open" /\ x.gen = w.gen /\ x.rev = ui.rev /\ x.mark = 0 /\ x.shown = s
    BY <1>1, <2>1 DEF Subscriptions
  <2> QED BY <1>8, <2>2, <2>3 DEF x, w
<1> QED BY <1>3, <1>4, <1>5, <1>6, <1>7, <1>8 DEF Views

(* A subscription is at a revision of its generation, and a mark is one of *)
(* what was stored.                                                        *)
LEMMA ViewStore ==
  ASSUME StoreTypes, HistoryTypeOK', StoreInv, NEW v \in Viewers, Views(v)
  PROVE  StoreInv'
<1> USE DEF StoreTypes
<1>1. UNCHANGED <<row, rows, ui, entries, pending, registered, job, flushing, uiRun>>
  BY ViewSteps DEF disk, memory
<1>2. /\ ui.gen \in Nat /\ ui.rev \in Nat /\ ui.committed \in Nat
      /\ viewer[v] \in Subscriptions /\ viewer[v].gen \in Nat
      /\ viewer[v].rev \in Nat /\ viewer[v].mark \in Nat
  BY UiTyped, ViewerTyped
<1>4. PICK w : viewer' = [viewer EXCEPT ![v] = w]
  BY ViewSteps
<1>5. viewer'[v] = w /\ \A x \in Viewers \ {v} : viewer'[x] = viewer[x]
  BY <1>4 DEF HistoryTypeOK
<1>6. \/ w = Page \/ w = Closed
      \/ w.gen = viewer[v].gen /\ w.rev = viewer[v].rev /\ w.mark = viewer[v].mark
      \/ w.gen = viewer[v].gen /\ w.rev = viewer[v].rev /\ w.mark = ui.committed
      \/ w.gen = ui.gen /\ w.rev = ui.rev /\ w.mark = 0
  BY <1>5, ViewFields DEF ShowUpdate, Unmoved
<1>7. /\ w.gen <= ui.gen
      /\ w.gen = ui.gen => w.mark <= ui.committed /\ w.rev <= ui.rev
  BY <1>2, <1>6, ClosedFields DEF StoreInv, Generations
<1>8. Generations'
  BY <1>1, <1>5, <1>7 DEF StoreInv, Generations
<1>9. Counted' /\ InStep' /\ FlushSound'
  BY <1>1 DEF StoreInv, Counted, InStep, FlushSound, Flushing, Attached
<1> QED BY <1>8, <1>9 DEF StoreInv

LEMMA StoreTypesHold == HistoryTypeOK /\ DataInv => StoreTypes
BY DEF DataInv, SnapshotsSound, Sound, StoreTypes

LEMMA HistoryKinds ==
  ASSUME [NextHistory]_historyVars
  PROVE  \/ QuietSteps
         \/ \E m \in Messages : Copy(m)
         \/ \E m \in Messages : \E v \in 1 .. Last[m] : Stage(m, v)
         \/ Bind \/ Replace \/ FlushWrite \/ FlushSettle
         \/ \E by \in Flushers : FlushTake(by)
         \/ \E r \in Runs : BeginRun(r) \/ CheckRun(r)
         \/ EraseRows \/ EraseMemory \/ Reload
         \/ \E v \in Viewers : Views(v)
         \/ UNCHANGED historyVars
BY DEF NextHistory, Copies, Appends, Flushes, Cuts, RunSteps, QuietSteps, Flushers

LEMMA StoreStep ==
  ASSUME HistoryTypes, StoreInv, DataInv, [NextHistory]_historyVars
  PROVE  StoreInv'
<1>1. /\ StoreTypes /\ HistoryTypeOK' /\ HistoryTypeOK
  BY TypesStep, StoreTypesHold DEF HistoryTypes
<1>2. CASE UNCHANGED historyVars
  BY <1>2 DEF StoreInv, Generations, Counted, InStep, FlushSound, Flushing, Attached,
              historyVars, disk, memory, actors
<1>3. CASE QuietSteps
  BY <1>1, <1>3, QuietStepsAreQuiet, QuietStore
<1>4. ASSUME NEW m \in Messages, Copy(m) PROVE StoreInv'
  BY <1>1, <1>4, CopyEdits, EditedStore
<1>5. ASSUME NEW m \in Messages, NEW v \in 1 .. Last[m], Stage(m, v) PROVE StoreInv'
  BY <1>1, <1>5, StageEdits, EditedStore, RecalledStore
<1>6. CASE Bind \/ Replace
  BY <1>1, <1>6, BindEdits, ReplaceEdits, EditedStore
<1>7. ASSUME NEW by \in Flushers, FlushTake(by) PROVE StoreInv'
  BY <1>1, <1>7, TakenStore
<1>8. CASE FlushWrite \/ FlushSettle
  BY <1>1, <1>8, WrittenStore, SettledStore
<1>9. ASSUME NEW r \in Runs, BeginRun(r) \/ CheckRun(r) PROVE StoreInv'
  <2>1. BeginRun(r) => \A m \in Messages : Streamed(m) /\ RunOf[m] = r => ~Present(rows[m])
    <3> SUFFICES ASSUME BeginRun(r), NEW m \in Messages, Streamed(m), RunOf[m] = r
                 PROVE  ~Present(rows[m])
      OBVIOUS
    <3>1. Kind[m] # "user" /\ copied[m] = 0 /\ sent[m] = 0
      BY DEF BeginRun, Streamed, DataInv, RunsSound, RunSound
    <3> QED BY <3>1 DEF DataInv, SnapshotsSound, Sound
  <2> QED BY <1>1, <1>9, <2>1, RunStore
<1>10. CASE EraseRows \/ EraseMemory \/ Reload
  BY <1>1, <1>10, CutStore
<1>11. ASSUME NEW v \in Viewers, Views(v) PROVE StoreInv'
  BY <1>1, <1>11, ViewStore
<1> QED BY <1>2, <1>3, <1>4, <1>5, <1>6, <1>7, <1>8, <1>9, <1>10, <1>11, HistoryKinds

-----------------------------------------------------------------------------
(* Snapshots: where they come from. *)

LEMMA SoundGrows ==
  ASSUME NEW m \in Messages, NEW e \in Snapshots, NEW c \in Nat, NEW d \in Nat,
         NEW s \in Nat, NEW t \in Nat, c <= d, s <= t, Sound(m, e, c, s)
  PROVE  Sound(m, e, d, t)
BY HistoryAssumption DEF Sound, Snapshots

LEMMA SoundAbsent ==
  ASSUME NEW m \in Messages, NEW c \in Nat, NEW s \in Nat
  PROVE  Sound(m, Absent, c, s)
BY HistoryAssumption DEF Sound, Absent, Present

From(m) == {Absent, rows[m], entries[m]}
             \cup (IF Flushing THEN {flushing.entries[m]} ELSE {})

Grow == \A m \in Messages : copied[m] <= copied'[m] /\ sent[m] <= sent'[m]

Moved(m) == /\ rows'[m] \in From(m)
            /\ Flushing' => flushing'.entries[m] \in From(m)

LEMMA SoundStep ==
  ASSUME HistoryTypeOK, HistoryTypeOK', SnapshotsSound, Grow,
         \A m \in Messages :
           /\ Moved(m)
           /\ entries'[m] \in From(m) \/ Sound(m, entries'[m], copied'[m], sent'[m])
  PROVE  SnapshotsSound'
<1> SUFFICES ASSUME NEW m \in Messages
             PROVE  /\ Sound(m, rows'[m], copied'[m], sent'[m])
                    /\ Sound(m, entries'[m], copied'[m], sent'[m])
                    /\ Flushing' => Sound(m, flushing'.entries[m], copied'[m], sent'[m])
  BY DEF SnapshotsSound
<1>1. /\ copied[m] \in Nat /\ copied'[m] \in Nat /\ sent[m] \in Nat /\ sent'[m] \in Nat
      /\ copied[m] <= copied'[m] /\ sent[m] <= sent'[m]
  BY DEF HistoryTypeOK, Grow
<1>2. ASSUME NEW e \in From(m) PROVE Sound(m, e, copied'[m], sent'[m])
  <2>1. e \in Snapshots
    BY SnapshotsTyped, AbsentTyped DEF From
  <2>2. Sound(m, e, copied[m], sent[m])
    BY <1>1, SoundAbsent DEF From, SnapshotsSound
  <2> QED BY <1>1, <2>1, <2>2, SoundGrows
<1> QED BY <1>2 DEF Moved

(* Most steps move snapshots and append or copy nothing.                   *)
LEMMA QuietSound ==
  ASSUME HistoryTypeOK, HistoryTypeOK', SnapshotsSound, Quiet \/ (\E v \in Viewers : Views(v)),
         Grow
  PROVE  SnapshotsSound'
<1>1. UNCHANGED <<rows, entries>> /\ flushing' \in {flushing, NoFlush}
  BY ViewSteps DEF Quiet, disk, memory
<1>2. ASSUME NEW m \in Messages PROVE Moved(m) /\ entries'[m] \in From(m)
  BY <1>1 DEF Moved, From, Flushing
<1> QED BY <1>2, SoundStep

LEMMA FlushSteps ==
  ASSUME HistoryTypeOK, HistoryTypeOK', SnapshotsSound,
         \/ \E by \in Flushers : FlushTake(by)
         \/ FlushWrite \/ FlushSettle \/ EraseRows \/ EraseMemory \/ Reload
         \/ \E r \in Runs : BeginRun(r) \/ CheckRun(r)
  PROVE  SnapshotsSound' /\ Grow
<1>1. UNCHANGED <<sent, copied>>
  BY DEF FlushTake, FlushWrite, FlushSettle, EraseRows, EraseMemory, Reload, BeginRun, CheckRun
<1>2. Grow
  BY <1>1 DEF Grow, HistoryTypeOK
<1> SUFFICES ASSUME NEW m \in Messages PROVE Moved(m) /\ entries'[m] \in From(m)
  BY <1>2, SoundStep
<1>3. ASSUME NEW by \in Flushers, FlushTake(by) PROVE Moved(m) /\ entries'[m] \in From(m)
  BY <1>3 DEF FlushTake, Moved, From, disk, memory
<1>4. CASE FlushWrite
  <2>1. Flushing /\ flushing \in FlushesTaken
    BY <1>4, Typed DEF FlushWrite, Flushing
  <2>2. flushing'.entries = flushing.entries
    BY <1>4, <2>1 DEF FlushWrite, FlushesTaken
  <2> QED BY <1>4, <2>1, <2>2 DEF FlushWrite, Moved, From, memory
<1>5. CASE FlushSettle
  BY <1>5 DEF FlushSettle, Moved, From, disk, Flushing
<1>6. CASE EraseRows
  BY <1>6 DEF EraseRows, Moved, From, memory, Flushing
<1>7. CASE EraseMemory \/ Reload
  BY <1>7, AbsentTyped DEF EraseMemory, Reload, Moved, From, disk, Flushing
<1>8. ASSUME NEW r \in Runs, BeginRun(r) \/ CheckRun(r)
      PROVE  Moved(m) /\ entries'[m] \in From(m)
  BY <1>8 DEF BeginRun, CheckRun, Moved, From, disk, Flushing
<1> QED BY <1>3, <1>4, <1>5, <1>6, <1>7, <1>8

LEMMA ProjectedSound ==
  ASSUME HistoryTypeOK, NEW m \in Messages, NEW e \in Snapshots, NEW v \in Nat, v > 0,
         NEW c \in Nat, NEW d \in Nat, NEW s \in Nat, NEW t \in Nat, c <= d, s <= t,
         Sound(m, e, c, s), d + t > 0,
         Kind[m] \in {"user", "segment"} /\ v >= Last[m] => t >= Last[m]
  PROVE  Sound(m, Projected(e, v), d, t)
<1> DEFINE p == Projected(e, v)
<1>1. Sound(m, e, d, t)
  BY SoundGrows
<1>2. /\ p.ver = v /\ p.rev = ui.rev + 1 /\ p.committed = FALSE
      /\ \/ p.record = e.record /\ p.first = e.first /\ p.last = e.last
         \/ p.record = 0 /\ p.first = 0 /\ p.last = 0
  BY AbsentTyped DEF Projected, Snapshots, Absent
<1>3. ui.rev \in Nat /\ Last[m] \in Nat
  BY UiTyped, HistoryAssumption
<1> HIDE DEF p
<1>4. Sound(m, p, d, t)
  BY <1>1, <1>2, <1>3 DEF Sound, Present
<1> QED BY <1>4 DEF p

(* A receipt widens the binding, and confirms what was appended.           *)
LEMMA BoundSound ==
  ASSUME HistoryTypeOK, DataInv, StoreInv, Bind
  PROVE  LET m == job.msg IN Sound(m, Bound(entries[m]), copied[m], sent[m])
<1> DEFINE m == job.msg
           e == entries[m]
           b == Bound(e)
<1>1. /\ job \in JobsOfAppend /\ m \in Messages /\ e \in Snapshots /\ ui.rev \in Nat
      /\ job.index \in Nat /\ job.index > 0 /\ job.ver = sent[m] /\ job.ver > 0
      /\ Kind[m] # "error" /\ (job.confirms => job.of = job.ver)
      /\ sent[m] \in Nat /\ copied[m] \in Nat /\ job.confirms \in BOOLEAN
  BY Typed, UiTyped DEF Bind, JobsOfAppend, HistoryTypeOK, DataInv, JobSound, AppendSound, UpdateSound
<1>2. Sound(m, e, copied[m], sent[m])
  BY <1>1 DEF DataInv, SnapshotsSound
<1>3. Present(e)
  BY <1>1 DEF Bind, Bindable, StoreInv, Counted
<1>4. /\ e.first \in Nat /\ e.last \in Nat /\ e.record \in Nat /\ e.ver \in Nat
      /\ e.committed \in BOOLEAN
  BY <1>1 DEF Snapshots
<1>5. /\ b.ver = e.ver /\ b.rev = ui.rev + 1
      /\ b.first = (IF e.first = 0 \/ job.index < e.first THEN job.index ELSE e.first)
      /\ b.last = (IF job.index > e.last THEN job.index ELSE e.last)
      /\ b.record = (IF Semantic(m, job.ver) THEN job.index ELSE e.record)
  BY <1>1 DEF Bound, Snapshots
<1>6. b.committed => e.committed \/ e.ver = sent[m]
  <2>1. b.committed = (e.committed \/ (job.confirms /\ e.ver = job.of))
    BY <1>1 DEF Bound, Snapshots
  <2> QED BY <1>1, <2>1, Zenon
<1>7. Last[m] \in Nat \ {0} /\ (Kind[m] = "user" => Last[m] = 1)
  BY <1>1, HistoryAssumption
<1>8. Semantic(m, job.ver) /\ Kind[m] \in {"user", "segment"} => sent[m] >= Last[m]
  BY <1>1, <1>7 DEF Semantic
<1> HIDE DEF m, b, e
<1>9. /\ b.record \in {0} \cup b.first .. b.last
      /\ b.record > 0 => b.first > 0
  <2>1. e.record \in {0} \cup e.first .. e.last /\ (e.record > 0 => e.first > 0)
    BY <1>2 DEF Sound
  <2> QED BY <1>1, <1>4, <1>5, <2>1
<1>10. Kind[m] \in {"user", "segment"} /\ (b.ver >= Last[m] \/ b.record > 0) => sent[m] >= Last[m]
  BY <1>1, <1>2, <1>4, <1>5, <1>8 DEF Sound
<1>11. b.committed => b.ver <= sent[m] \/ sent[m] >= Last[m]
  BY <1>1, <1>2, <1>4, <1>5, <1>6 DEF Sound
<1>12. Present(b) /\ b.rev > 0 /\ copied[m] + sent[m] > 0
  BY <1>1, <1>3, <1>5 DEF Present
<1>13. Sound(m, b, copied[m], sent[m])
  BY <1>9, <1>10, <1>11, <1>12 DEF Sound
<1> QED BY <1>13 DEF m, b, e

(* What was copied or appended only grows.                                 *)
LEMMA GrowStep ==
  ASSUME HistoryTypeOK, RunsSound, [NextHistory]_historyVars
  PROVE  Grow
<1>1. /\ sent \in [Messages -> Nat] /\ copied \in [Messages -> Nat]
      /\ \A m \in Messages : Last[m] \in Nat /\ (Kind[m] = "user" => Last[m] = 1)
  BY HistoryAssumption DEF HistoryTypeOK
<1>2. ASSUME NEW m \in Messages, Copy(m) \/ CopyRefused(m) PROVE Grow
  BY <1>1, <1>2 DEF Copy, CopyRefused, NextCopy, Grow
<1>3. ASSUME NEW m \in Messages, NEW v \in 1 .. Last[m], Stage(m, v) \/ StageRefused(m, v)
      PROVE  Grow
  <2>1. sent[m] <= v /\ v \in Nat
    BY <1>1, <1>3 DEF Stage, StageRefused, Appendable, RunsSound, RunSound
  <2>2. sent' = [sent EXCEPT ![m] = v] /\ copied' = copied
    BY <1>3 DEF Stage, StageRefused
  <2> QED BY <1>1, <2>1, <2>2 DEF Grow
<1>4. UNCHANGED <<sent, copied>> => Grow
  BY <1>1 DEF Grow
<1>5. \/ \E m \in Messages : Copy(m) \/ CopyRefused(m)
      \/ \E m \in Messages : \E v \in 1 .. Last[m] : Stage(m, v) \/ StageRefused(m, v)
      \/ UNCHANGED <<sent, copied>>
  <2>1. CASE \/ Flushes \/ Cuts \/ DropJob \/ Reload
    BY <2>1 DEF Flushes, Cuts, DropJob, Reload, FlushNothing, FlushTake, FlushWrite, FlushFails,
       FlushSettle, BeginTruncate, BeginClear, Cut, CutFails, EraseRows, EraseFails, PruneFails,
       EraseMemory
  <2>2. CASE Appends
    BY <2>2 DEF Appends, BeginUpdate, Rewrite, RewriteFails, Replace, ReplaceFails, WriteRecord,
       WriteFails, Bind, BindFails
  <2>3. ASSUME NEW r \in Runs, RunSteps(r) PROVE UNCHANGED <<sent, copied>>
    BY <2>3 DEF RunSteps, BeginRun, EndRun, CheckRefuses, CheckRun, DropRun
  <2>4. ASSUME NEW v \in Viewers, Views(v) PROVE UNCHANGED <<sent, copied>>
    BY <2>4, ViewSteps
  <2>5. CASE UNCHANGED historyVars
    BY <2>5 DEF historyVars, actors
  <2> QED BY <2>1, <2>2, <2>3, <2>4, <2>5 DEF NextHistory, Copies
<1> QED BY <1>2, <1>3, <1>4, <1>5

LEMMA SnapshotsStep ==
  ASSUME HistoryTypes, StoreInv, DataInv, [NextHistory]_historyVars
  PROVE  SnapshotsSound'
<1>1. /\ HistoryTypeOK /\ HistoryTypeOK' /\ Grow /\ SnapshotsSound /\ RunsSound
  BY TypesStep, GrowStep DEF HistoryTypes, DataInv
<1>2. ASSUME NEW m \in Messages, UNCHANGED <<rows, flushing>>,
             \A n \in Messages \ {m} : entries'[n] = entries[n],
             entries'[m] \in From(m) \/ Sound(m, entries'[m], copied'[m], sent'[m])
      PROVE  SnapshotsSound'
  <2>1. ASSUME NEW n \in Messages
        PROVE  /\ Moved(n)
               /\ entries'[n] \in From(n) \/ Sound(n, entries'[n], copied'[n], sent'[n])
    BY <1>2 DEF Moved, From, Flushing
  <2> QED BY <1>1, <2>1, SoundStep
<1>3. CASE QuietSteps \/ \E v \in Viewers : Views(v)
  BY <1>1, <1>3, QuietStepsAreQuiet, QuietSound
<1>4. ASSUME NEW m \in Messages, Copy(m) PROVE SnapshotsSound'
  <2>1. /\ entries' = [entries EXCEPT ![m] = Projected(entries[m], copied[m] + 1)]
        /\ copied' = [copied EXCEPT ![m] = @ + 1] /\ UNCHANGED <<rows, flushing, sent>>
        /\ copied[m] \in Nat /\ sent[m] \in Nat /\ entries[m] \in Snapshots
        /\ copied'[m] = copied[m] + 1
    BY <1>1, <1>4 DEF Copy, NextCopy, disk, HistoryTypeOK
  <2>2. Kind[m] \in {"user", "segment"} => copied[m] + 1 < Last[m]
    BY <1>4 DEF Copy, NextCopy
  <2>3. Sound(m, entries[m], copied[m], sent[m]) /\ Last[m] \in Nat
    BY <1>1, HistoryAssumption DEF SnapshotsSound
  <2> DEFINE v == copied[m] + 1
  <2>4. v \in Nat /\ v > 0 /\ copied[m] <= v /\ sent[m] <= sent[m] /\ v + sent[m] > 0
        /\ (Kind[m] \in {"user", "segment"} /\ v >= Last[m] => sent[m] >= Last[m])
    BY <2>1, <2>2, <2>3
  <2>5. Sound(m, Projected(entries[m], v), v, sent[m])
    <3> HIDE DEF v
    <3> QED BY <1>1, <2>1, <2>3, <2>4, ProjectedSound
  <2>6. Sound(m, entries'[m], copied'[m], sent'[m])
    BY <1>1, <2>1, <2>5 DEF HistoryTypeOK
  <2> QED BY <1>1, <1>2, <2>1, <2>6 DEF HistoryTypeOK
<1>5. ASSUME NEW m \in Messages, NEW v \in 1 .. Last[m], Stage(m, v) PROVE SnapshotsSound'
  <2> DEFINE old == Shown(m)
  <2>1. /\ entries' = [entries EXCEPT ![m] = IF old.ver < v THEN Projected(old, v) ELSE old]
        /\ sent' = [sent EXCEPT ![m] = v] /\ UNCHANGED <<rows, flushing, copied>>
        /\ copied[m] \in Nat /\ sent[m] \in Nat /\ old \in Snapshots
    BY <1>1, <1>5, Typed DEF Stage, disk, HistoryTypeOK
  <2>2. /\ v \in Nat /\ v > 0 /\ sent'[m] = v /\ sent[m] <= v /\ copied[m] <= copied[m]
        /\ copied[m] + v > 0 /\ Last[m] \in Nat
    <3>1. Last[m] \in Nat /\ v \in Nat /\ v > 0
      BY HistoryAssumption
    <3>2. sent'[m] = v /\ sent[m] <= sent'[m]
      BY <1>1, <2>1 DEF HistoryTypeOK, Grow
    <3> QED BY <2>1, <3>1, <3>2
  <2>3. Sound(m, old, copied[m], sent[m]) /\ old \in From(m)
    BY <1>1 DEF Shown, SnapshotsSound, From
  <2> HIDE DEF old
  <2>4. Sound(m, Projected(old, v), copied[m], v)
    BY <1>1, <2>1, <2>2, <2>3, ProjectedSound
  <2>5. entries'[m] \in From(m) \/ Sound(m, entries'[m], copied'[m], sent'[m])
    BY <1>1, <2>1, <2>2, <2>3, <2>4 DEF HistoryTypeOK
  <2> QED BY <1>1, <1>2, <2>1, <2>5 DEF HistoryTypeOK
<1>6. CASE Bind
  <2>1. /\ job.msg \in Messages /\ UNCHANGED <<rows, flushing, copied, sent>>
        /\ entries' = [entries EXCEPT ![job.msg] = Bound(@)]
    BY <1>6, BindEdits, StoreTypesHold, <1>1 DEF Bind, disk
  <2>2. Sound(job.msg, entries'[job.msg], copied'[job.msg], sent'[job.msg])
    BY <1>1, <1>6, <2>1, BoundSound DEF HistoryTypeOK
  <2> QED BY <1>1, <1>2, <2>1, <2>2 DEF HistoryTypeOK
<1>7. CASE Replace
  <2> DEFINE m == job.msg
             e == Shown(m)
             p == [e EXCEPT !.ver = job.ver, !.rev = ui.rev + 1]
  <2>1. /\ job \in JobsOfUpdate /\ m \in Messages /\ UNCHANGED <<rows, flushing, copied, sent>>
        /\ entries' = [entries EXCEPT ![m] = p] /\ e \in Snapshots /\ ui.rev \in Nat
        /\ e.record = job.index /\ job.index > 0 /\ job.ver > 0 /\ job.ver \in Nat
        /\ Kind[m] \in {"user", "segment"} /\ sent[m] \in Nat /\ copied[m] \in Nat
    <3>1. job \in JobsOfUpdate
      BY <1>1, <1>7, Typed DEF Replace
    <3>2. /\ m \in Messages /\ job.ver \in Nat /\ job.was \in Nat /\ job.kind = "update"
      BY <3>1 DEF JobsOfUpdate
    <3>3. job.index > 0
      BY <1>1, <1>7 DEF Replace, HistoryTypes
    <3>4. job.ver > job.was /\ Kind[m] \in {"user", "segment"}
      BY <3>2 DEF DataInv, JobSound, AppendSound, UpdateSound
    <3>5. e \in Snapshots /\ ui.rev \in Nat
      BY <1>1, <3>2, Typed, UiTyped
    <3> QED BY <1>1, <1>7, <3>1, <3>2, <3>3, <3>4, <3>5
            DEF Replace, Replaceable, disk, HistoryTypeOK
  <2>2. Sound(m, e, copied[m], sent[m])
    BY <1>1, <2>1 DEF Shown, SnapshotsSound
  <2>3. /\ p.ver = job.ver /\ p.rev = ui.rev + 1 /\ p.record = e.record /\ p.first = e.first
        /\ p.last = e.last
    BY <2>1 DEF Snapshots
  <2>4. p.committed = e.committed
    BY <2>1 DEF Snapshots
  <2>5. Last[m] \in Nat \ {0} /\ e.record \in Nat
    BY <2>1, HistoryAssumption DEF Snapshots
  <2>6. Sound(m, p, copied[m], sent[m])
    <3> HIDE DEF m, e, p
    <3>1. sent[m] >= Last[m]
      BY <2>1, <2>2, <2>5 DEF Sound
    <3> QED BY <2>1, <2>2, <2>3, <2>4, <2>5, <3>1 DEF Sound, Present
  <2>7. Sound(m, entries'[m], copied'[m], sent'[m])
    BY <1>1, <2>1, <2>6 DEF HistoryTypeOK
  <2> QED BY <1>1, <1>2, <2>1, <2>7 DEF HistoryTypeOK
<1>8. CASE \/ \E by \in Flushers : FlushTake(by)
           \/ FlushWrite \/ FlushSettle \/ EraseRows \/ EraseMemory \/ Reload
           \/ \E r \in Runs : BeginRun(r) \/ CheckRun(r)
  BY <1>1, <1>8, FlushSteps
<1>9. CASE UNCHANGED historyVars
  BY <1>9, <1>1 DEF SnapshotsSound, Flushing, historyVars, disk, memory, actors
<1> QED BY <1>3, <1>4, <1>5, <1>6, <1>7, <1>8, <1>9, HistoryKinds

-----------------------------------------------------------------------------
(* Runs: what a registered run has copied or appended is in memory. *)

(* The caller of a flush does not open or begin anything.                  *)
LEMMA FlushCalls ==
  ASSUME HistoryTypes,
         FlushFails \/ FlushSettle \/ (\E by \in Flushers : FlushNothing(by))
  PROVE  /\ \/ job' = job
            \/ job' = NoJob
            \/ /\ job.kind = "truncate" /\ job.pc = "flush"
               /\ job' = [job EXCEPT !.pc = "cut"]
         /\ stopped \subseteq stopped'
         /\ ui'.gen = ui.gen /\ (ui.failed => ui'.failed)
         /\ uiRun' \in [Runs -> RunStates]
         /\ \A r \in Runs :
              /\ uiRun'[r].gen = uiRun[r].gen
              /\ \/ uiRun'[r] = uiRun[r]
                 \/ /\ uiRun[r].pc \in {"flush", "last"}
                    /\ uiRun'[r].pc \in {"check", "failed"}
<1> USE DEF HistoryTypes
<1> DEFINE u == IF FlushSettle THEN [ui EXCEPT !.committed = flushing.rev] ELSE ui
<1>1. u \in UiStates /\ u.gen = ui.gen /\ u.failed = ui.failed
  <2>1. ui \in UiStates
    BY DEF HistoryTypeOK
  <2>2. FlushSettle => flushing.rev \in Nat
    BY FlushTyped, Typed DEF FlushSettle, Flushing
  <2> QED BY <2>1, <2>2 DEF UiStates
<1>2. PICK by \in Flushers, ok \in BOOLEAN :
        /\ Answer(by, ok, u)
        /\ by = "job" => job.pc = "flush"
        /\ \A r \in Runs : by = r => uiRun[r].pc \in {"flush", "last"}
  <2>1. CASE FlushFails
    <3>1. flushing.by \in Flushers
      BY <2>1, Typed DEF FlushFails, FlushesTaken, Flushers
    <3>2. ~FlushSettle
      BY <2>1 DEF FlushFails, FlushSettle
    <3> QED BY <2>1, <3>1, <3>2 DEF FlushFails
  <2>2. CASE FlushSettle
    <3>1. flushing.by \in Flushers
      BY <2>2, Typed DEF FlushSettle, FlushesTaken, Flushers
    <3> DEFINE ok == ~ui.failed
    <3>2. ok \in BOOLEAN
      BY Zenon
    <3>3. Answer(flushing.by, ok, u)
      BY <2>2 DEF FlushSettle
    <3> HIDE DEF ok, u
    <3> QED BY <3>1, <3>2, <3>3
  <2>3. ASSUME NEW by \in Flushers, FlushNothing(by)
        PROVE  \E ok \in BOOLEAN :
                 /\ Answer(by, ok, u)
                 /\ by = "job" => job.pc = "flush"
                 /\ \A r \in Runs : by = r => uiRun[r].pc \in {"flush", "last"}
    <3> DEFINE ok == ~ui.failed
    <3>1. ok \in BOOLEAN
      BY Zenon
    <3>2. ~FlushSettle
      BY <2>3, Typed DEF FlushNothing, FlushFree, FlushSettle, NoFlush
    <3>3. Answer(by, ok, u)
      BY <2>3, <3>2 DEF FlushNothing
    <3>4. /\ by = "job" => job.pc = "flush"
          /\ \A r \in Runs : by = r => uiRun[r].pc \in {"flush", "last"}
      BY <2>3, HistoryAssumption DEF FlushNothing, Wants
    <3> HIDE DEF ok, u
    <3> QED BY <3>1, <3>3, <3>4
  <2> QED BY <2>1, <2>2, <2>3
<1> HIDE DEF u
<1>3. /\ ui' \in UiStates /\ Ticks(u, ui')
      /\ \/ job' = job /\ by # "job"
         \/ job' = NoJob /\ by = "job"
         \/ /\ job.kind = "truncate" /\ by = "job" /\ ok
            /\ job' = [job EXCEPT !.pc = "cut"]
      /\ stopped \subseteq stopped' /\ stopped' \subseteq Runs
      /\ uiRun' \in [Runs -> RunStates]
      /\ \A r \in Runs : /\ uiRun'[r].gen = uiRun[r].gen
                         /\ by # r => uiRun'[r] = uiRun[r]
                         /\ by = r => uiRun'[r].pc \in {"check", "failed"}
  BY <1>1, <1>2, AnswerFacts
<1> QED BY <1>1, <1>2, <1>3 DEF Ticks

(* Memory keeps, or improves, what a registered run has in it.             *)
LEMMA RunKept ==
  ASSUME HistoryTypeOK, HistoryTypeOK', NEW m \in Messages, RunSound(m),
         sent'[m] = sent[m], copied'[m] = copied[m],
         uiRun'[RunOf[m]].pc = "new" => /\ uiRun[RunOf[m]].pc = "new"
                                        /\ RunOf[m] \notin registered',
         RunOf[m] \in registered' =>
           /\ RunOf[m] \in registered
           /\ uiRun'[RunOf[m]].gen = uiRun[RunOf[m]].gen
           /\ ui'.gen = ui.gen
           /\ ui.failed => ui'.failed
           /\ \/ entries'[m] = entries[m]
              \/ Present(entries'[m]) /\ entries[m].ver <= entries'[m].ver
  PROVE  RunSound(m)'
<1>1. /\ sent[m] \in Nat /\ copied[m] \in Nat /\ entries[m].ver \in Nat
      /\ entries'[m].ver \in Nat
  BY DEF HistoryTypeOK, Snapshots
<1> QED BY <1>1 DEF RunSound

LEMMA QuietRuns ==
  ASSUME HistoryTypes, HistoryTypes', RunsSound, QuietSteps
  PROVE  RunsSound'
<1> USE DEF HistoryTypes
<1>1. /\ UNCHANGED <<entries, registered>> /\ ui'.gen = ui.gen /\ (ui.failed => ui'.failed)
      /\ \A r \in Runs : uiRun'[r].gen = uiRun[r].gen
  BY QuietStepsAreQuiet DEF Quiet, Others, Ticks
<1>2. \A r \in Runs : uiRun'[r].pc = "new" => uiRun[r].pc = "new"
  <2>1. CASE FlushFails \/ \E by \in Flushers : FlushNothing(by)
    BY <2>1, FlushCalls
  <2>2. ASSUME NEW r \in Runs, EndRun(r) \/ CheckRefuses(r) \/ DropRun(r)
        PROVE  \A q \in Runs : uiRun'[q].pc = "new" => uiRun[q].pc = "new"
    <3>1. PICK p \in {"flush", "last", "dropped"} : uiRun' = [uiRun EXCEPT ![r].pc = p]
      BY <2>2, Zenon DEF EndRun, CheckRefuses, DropRun
    <3> QED BY <3>1 DEF HistoryTypeOK, RunStates
  <2>3. CASE UNCHANGED uiRun
    BY <2>3
  <2>4. \/ FlushFails \/ \E by \in Flushers : FlushNothing(by)
        \/ \E r \in Runs : EndRun(r) \/ CheckRefuses(r) \/ DropRun(r)
        \/ UNCHANGED uiRun
    BY DEF QuietSteps, CopyRefused, BeginUpdate, StageRefused, WriteRecord, WriteFails, BindFails,
       Rewrite, RewriteFails, ReplaceFails, BeginTruncate, BeginClear, Cut, CutFails, EraseFails,
       PruneFails, DropJob
  <2> QED BY <2>1, <2>2, <2>3, <2>4
<1>3. \A m \in Messages : RunOf[m] \in Runs /\ Last[m] \in Nat \ {0}
  BY HistoryAssumption
<1>4. ASSUME NEW m \in Messages, sent'[m] = sent[m], copied'[m] = copied[m]
      PROVE  RunSound(m)'
  <2>1. RunSound(m) /\ RunOf[m] \in Runs
    BY <1>3 DEF RunsSound
  <2>2. uiRun'[RunOf[m]].pc = "new" => /\ uiRun[RunOf[m]].pc = "new"
                                       /\ RunOf[m] \notin registered'
    BY <1>1, <1>2, <2>1 DEF RunSound
  <2> QED BY <1>1, <1>4, <2>1, <2>2, RunKept
<1>5. CASE UNCHANGED <<sent, copied>>
  BY <1>4, <1>5 DEF RunsSound
<1>6. ASSUME NEW n \in Messages, CopyRefused(n) PROVE RunsSound'
  <2>1. /\ copied' = [copied EXCEPT ![n] = @ + 1] /\ UNCHANGED <<sent, uiRun, ui>>
        /\ Kind[n] = "segment" /\ copied[n] + 1 < Last[n] /\ uiRun[RunOf[n]].pc = "open"
        /\ copied[n] \in Nat
        /\ ui.failed \/ uiRun[RunOf[n]].gen # ui.gen \/ RunOf[n] \notin registered
    BY <1>6 DEF CopyRefused, NextCopy, Copyable, memory, HistoryTypeOK
  <2>2. RunSound(n)'
    BY <1>1, <2>1 DEF RunSound, RunsSound, HistoryTypeOK
  <2>3. \A m \in Messages \ {n} : RunSound(m)'
    BY <1>4, <2>1 DEF HistoryTypeOK
  <2> QED BY <2>2, <2>3 DEF RunsSound
<1>7. ASSUME NEW n \in Messages, NEW v \in 1 .. Last[n], StageRefused(n, v) PROVE RunsSound'
  <2>1. /\ sent' = [sent EXCEPT ![n] = v] /\ UNCHANGED <<copied, uiRun, ui>>
        /\ Streamed(n) /\ uiRun[RunOf[n]].pc = "open" /\ ui.failed
    BY <1>7 DEF StageRefused, Appendable, memory, Streamed
  <2>2. RunSound(n)'
    BY <1>1, <1>3, <2>1 DEF RunSound, RunsSound, HistoryTypeOK, Streamed
  <2>3. \A m \in Messages \ {n} : RunSound(m)'
    BY <1>4, <2>1 DEF HistoryTypeOK
  <2> QED BY <2>2, <2>3 DEF RunsSound
<1>8. \/ UNCHANGED <<sent, copied>>
      \/ \E n \in Messages : CopyRefused(n)
      \/ \E n \in Messages : \E v \in 1 .. Last[n] : StageRefused(n, v)
  BY DEF QuietSteps, BeginUpdate, WriteRecord, WriteFails, BindFails,
     Rewrite, RewriteFails, ReplaceFails, BeginTruncate, BeginClear, Cut, CutFails, EraseFails,
     PruneFails, DropJob, FlushFails, FlushNothing, EndRun, CheckRefuses, DropRun
<1> QED BY <1>5, <1>6, <1>7, <1>8

(* A copy, an append or an update leaves a newer version in memory.        *)
LEMMA WritersRuns ==
  ASSUME HistoryTypes, HistoryTypes', StoreInv, DataInv,
         \/ \E m \in Messages : Copy(m)
         \/ \E m \in Messages : \E v \in 1 .. Last[m] : Stage(m, v)
         \/ Bind \/ Replace
  PROVE  RunsSound'
<1> USE DEF HistoryTypes
<1>1. \A m \in Messages : RunOf[m] \in Runs /\ Last[m] \in Nat \ {0} /\ RunSound(m)
  BY HistoryAssumption DEF DataInv, RunsSound
<1>2. ASSUME NEW m \in Messages, UNCHANGED <<uiRun, registered>>,
             ui'.gen = ui.gen, ui.failed => ui'.failed,
             \A n \in Messages \ {m} : /\ entries'[n] = entries[n]
                                       /\ sent'[n] = sent[n] /\ copied'[n] = copied[n],
             RunSound(m)'
      PROVE  RunsSound'
  <2> SUFFICES ASSUME NEW n \in Messages \ {m} PROVE RunSound(n)'
    BY <1>2 DEF RunsSound
  <2>1. uiRun'[RunOf[n]].pc = "new" => /\ uiRun[RunOf[n]].pc = "new"
                                       /\ RunOf[n] \notin registered'
    BY <1>1, <1>2 DEF RunSound
  <2> QED BY <1>1, <1>2, <2>1, RunKept
<1>3. ASSUME NEW m \in Messages, Copy(m) PROVE RunsSound'
  <2> DEFINE v == copied[m] + 1
  <2>1. /\ entries' = [entries EXCEPT ![m] = Projected(entries[m], v)]
        /\ copied' = [copied EXCEPT ![m] = @ + 1] /\ UNCHANGED <<registered, sent, uiRun>>
        /\ ui' = Advanced(entries[m]) /\ uiRun[RunOf[m]].pc = "open"
        /\ Kind[m] = "segment" => copied[m] + 1 < Last[m]
        /\ copied[m] \in Nat /\ v \in Nat /\ v > 0
    BY <1>3 DEF Copy, NextCopy, HistoryTypeOK
  <2>2. ui'.gen = ui.gen /\ ui'.failed = ui.failed
    BY <2>1 DEF Advanced, HistoryTypeOK, UiStates
  <2>3. Projected(entries[m], v).ver = v
    BY <2>1, AbsentTyped DEF Projected, HistoryTypeOK, Snapshots, Absent
  <2>4. entries'[m].ver = v /\ copied'[m] = v
    BY <2>1, <2>3 DEF HistoryTypeOK
  <2> HIDE DEF v
  <2>5. RunSound(m)'
    BY <1>1, <2>1, <2>4 DEF RunSound, Present, v
  <2> QED BY <1>2, <2>1, <2>2, <2>5 DEF HistoryTypeOK
<1>4. ASSUME NEW m \in Messages, NEW v \in 1 .. Last[m], Stage(m, v) PROVE RunsSound'
  <2> DEFINE old == Shown(m)
  <2>1. /\ entries' = [entries EXCEPT ![m] = IF old.ver < v THEN Projected(old, v) ELSE old]
        /\ sent' = [sent EXCEPT ![m] = v] /\ UNCHANGED <<registered, copied, uiRun>>
        /\ ui' = IF old.ver < v THEN Advanced(old) ELSE ui
        /\ Kind[m] # "error" /\ (Kind[m] # "user" => uiRun[RunOf[m]].pc = "open")
    BY <1>4 DEF Stage, Appendable, Streamed
  <2>2. ui'.gen = ui.gen /\ ui'.failed = ui.failed
    BY <2>1 DEF Advanced, HistoryTypeOK, UiStates
  <2>3. /\ v \in Nat /\ v > 0 /\ old.ver \in Nat /\ old \in Snapshots
        /\ copied[m] \in Nat /\ sent[m] \in Nat /\ v <= Last[m]
    <3>1. Last[m] \in Nat /\ old \in Snapshots
      BY <1>1, Typed
    <3> QED BY <3>1 DEF Snapshots, HistoryTypeOK
  <2>4. Projected(old, v).ver = v
    BY <2>3, AbsentTyped DEF Projected, Snapshots, Absent
  <2>5. Present(entries[m]) => old = entries[m]
    BY DEF Shown
  <2> HIDE DEF old
  <2>6. entries'[m].ver \in Nat /\ entries'[m].ver >= v /\ entries'[m].ver >= old.ver
    BY <2>1, <2>3, <2>4 DEF HistoryTypeOK
  <2>7. sent'[m] = v /\ copied'[m] = copied[m]
    BY <2>1 DEF HistoryTypeOK
  <2>8. /\ Streamed(m) /\ RunOf[m] \in registered
        /\ uiRun[RunOf[m]].gen = ui.gen /\ ~ui.failed
        => entries'[m].ver >= copied[m]
    <3>1. CASE copied[m] + sent[m] > 0
      BY <1>1, <2>3, <2>5, <2>6, <3>1 DEF RunSound
    <3>2. CASE ~(copied[m] + sent[m] > 0)
      BY <2>3, <2>6, <3>2
    <3> QED BY <3>1, <3>2
  <2>9. Present(entries'[m])
    BY <2>3, <2>6 DEF Present
  <2>10. RunSound(m)'
    BY <1>1, <2>1, <2>2, <2>3, <2>7, <2>8, <2>9 DEF RunSound, Streamed
  <2> QED BY <1>2, <2>1, <2>2, <2>10 DEF HistoryTypeOK
<1>5. ASSUME NEW m \in Messages, m = job.msg, Bind PROVE RunsSound'
  <2>1. /\ UNCHANGED <<registered, sent, copied, uiRun>>
        /\ entries' = [entries EXCEPT ![m] = Bound(entries[m])]
        /\ ui' = [ui EXCEPT !.rev = @ + 1]
    BY <1>5 DEF Bind
  <2>2. ui'.gen = ui.gen /\ ui'.failed = ui.failed
    BY <2>1 DEF HistoryTypeOK, UiStates
  <2>3. entries'[m].ver = entries[m].ver /\ entries[m].ver \in Nat
    BY <2>1 DEF HistoryTypeOK, Bound, Snapshots
  <2>4. RunSound(m)'
    BY <1>1, <2>1, <2>2, <2>3 DEF RunSound, Present
  <2> QED BY <1>2, <2>1, <2>2, <2>4 DEF HistoryTypeOK
<1>6. ASSUME NEW m \in Messages, m = job.msg, Replace PROVE RunsSound'
  <2> DEFINE p == [Shown(m) EXCEPT !.ver = job.ver, !.rev = ui.rev + 1]
  <2>1. /\ UNCHANGED <<registered, sent, copied, uiRun>>
        /\ entries' = [entries EXCEPT ![m] = p]
        /\ ui' = [ui EXCEPT !.rev = @ + 1] /\ Shown(m).ver = job.was
    BY <1>6 DEF Replace, Replaceable
  <2>2. ui'.gen = ui.gen /\ ui'.failed = ui.failed
    BY <2>1 DEF HistoryTypeOK, UiStates
  <2>3. /\ job.ver > job.was /\ job.was \in Nat /\ job.ver \in Nat /\ Shown(m) \in Snapshots
    <3>1. job \in JobsOfUpdate
      BY <1>6, Typed DEF Replace
    <3>2. Shown(m) \in Snapshots
      BY Typed
    <3> QED BY <3>1, <3>2 DEF JobsOfUpdate, DataInv, JobSound, UpdateSound
  <2>4. entries'[m].ver = job.ver
    BY <2>1, <2>3 DEF HistoryTypeOK, Snapshots
  <2>5. copied[m] \in Nat /\ sent[m] \in Nat
    BY <2>1 DEF HistoryTypeOK
  <2>6. Present(entries[m]) => entries[m].ver = job.was
    BY <2>1 DEF Shown
  <2> HIDE DEF p
  <2>7. /\ Streamed(m) /\ copied[m] + sent[m] > 0 /\ RunOf[m] \in registered
        /\ uiRun[RunOf[m]].gen = ui.gen /\ ~ui.failed
        => entries'[m].ver >= copied[m]
    BY <1>1, <2>3, <2>4, <2>5, <2>6 DEF RunSound
  <2>8. Present(entries'[m])
    BY <2>3, <2>4 DEF Present
  <2>9. RunSound(m)'
    BY <1>1, <2>1, <2>2, <2>7, <2>8 DEF RunSound
  <2> QED BY <1>2, <2>1, <2>2, <2>9 DEF HistoryTypeOK
<1>7. Bind \/ Replace => job.msg \in Messages
  BY BindEdits, ReplaceEdits, StoreTypesHold
<1> QED BY <1>3, <1>4, <1>5, <1>6, <1>7

LEMMA RunsStep ==
  ASSUME HistoryTypes, StoreInv, DataInv, [NextHistory]_historyVars
  PROVE  RunsSound'
<1> USE DEF HistoryTypes
<1>1. /\ HistoryTypes' /\ RunsSound
      /\ \A m \in Messages : RunOf[m] \in Runs /\ RunSound(m)
  BY TypesStep, HistoryAssumption DEF DataInv, RunsSound
<1>3. CASE QuietSteps
  BY <1>1, <1>3, QuietRuns
<1>4. CASE \/ \E m \in Messages : Copy(m)
           \/ \E m \in Messages : \E v \in 1 .. Last[m] : Stage(m, v)
           \/ Bind \/ Replace
  BY <1>1, <1>4, WritersRuns
<1>6. ASSUME UNCHANGED <<sent, copied>>,
             \A r \in Runs : uiRun'[r].pc = "new" => uiRun[r].pc = "new",
             \A m \in Messages : RunOf[m] \in registered' =>
               /\ RunOf[m] \in registered
               /\ uiRun'[RunOf[m]].gen = uiRun[RunOf[m]].gen
               /\ ui'.gen = ui.gen
               /\ ui.failed => ui'.failed
               /\ entries'[m] = entries[m]
      PROVE  RunsSound'
  <2> SUFFICES ASSUME NEW m \in Messages PROVE RunSound(m)'
    BY DEF RunsSound
  <2>1. uiRun'[RunOf[m]].pc = "new" => /\ uiRun[RunOf[m]].pc = "new"
                                       /\ RunOf[m] \notin registered'
    BY <1>1, <1>6 DEF RunSound
  <2> QED BY <1>1, <1>6, <2>1, RunKept
<1>7. CASE \E by \in Flushers : FlushTake(by)
  BY <1>6, <1>7 DEF FlushTake, disk, memory
<1>8. CASE FlushWrite \/ EraseRows
  BY <1>6, <1>8 DEF FlushWrite, EraseRows, memory
<1>9. CASE FlushSettle
  <2>1. /\ UNCHANGED <<sent, copied, registered>>
        /\ entries' = [m \in Messages |-> IF Kept(m) THEN entries[m] ELSE Absent]
    BY <1>9 DEF FlushSettle
  <2>2. \A m \in Messages : RunOf[m] \in registered' => entries'[m] = entries[m]
    BY <2>1 DEF Kept
  <2> QED BY <1>1, <1>6, <1>9, <2>1, <2>2, FlushCalls
<1>10. CASE EraseMemory \/ Reload
  <2>1. UNCHANGED <<sent, copied>> /\ registered' = {}
    BY <1>10 DEF EraseMemory, Reload
  <2>2. \A r \in Runs : uiRun'[r].pc = "new" => uiRun[r].pc = "new"
    <3>1. CASE EraseMemory
      BY <3>1 DEF EraseMemory
    <3>2. CASE Reload
      <4>1. \A r \in Runs : uiRun'[r] = IF uiRun[r].pc \in Holding
                                        THEN [uiRun[r] EXCEPT !.pc = "dropped"] ELSE uiRun[r]
        BY <3>2 DEF Reload
      <4>2. \A x \in RunStates : [x EXCEPT !.pc = "dropped"].pc = "dropped"
        BY DEF RunStates
      <4>3. uiRun \in [Runs -> RunStates]
        BY DEF HistoryTypeOK
      <4> QED BY ONLY <4>1, <4>2, <4>3
    <3> QED BY <1>10, <3>1, <3>2
  <2> QED BY <1>6, <2>1, <2>2
<1>11. ASSUME NEW r \in Runs, BeginRun(r) PROVE RunsSound'
  <2>1. /\ UNCHANGED <<sent, copied, entries, ui>> /\ registered' = registered \cup {r}
        /\ uiRun[r].pc = "new" /\ uiRun'[r].pc = "open"
        /\ \A q \in Runs \ {r} : uiRun'[q] = uiRun[q]
    BY <1>11 DEF BeginRun, HistoryTypeOK
  <2> SUFFICES ASSUME NEW m \in Messages PROVE RunSound(m)'
    BY DEF RunsSound
  <2>2. CASE RunOf[m] = r
    BY <1>1, <2>1, <2>2 DEF RunSound, Streamed, HistoryTypeOK
  <2>3. CASE RunOf[m] # r
    <3>1. uiRun'[RunOf[m]].pc = "new" => /\ uiRun[RunOf[m]].pc = "new"
                                         /\ RunOf[m] \notin registered'
      BY <1>1, <2>1, <2>3 DEF RunSound
    <3> QED BY <1>1, <2>1, <2>3, <3>1, RunKept
  <2> QED BY <2>2, <2>3
<1>12. ASSUME NEW r \in Runs, CheckRun(r) PROVE RunsSound'
  <2>1. /\ UNCHANGED <<sent, copied, ui>> /\ registered' = registered \ {r}
        /\ \A m \in Messages : RunOf[m] # r => entries'[m] = entries[m]
    BY <1>12 DEF CheckRun
  <2>2. PICK p \in {"last", "finished"} : uiRun' = [uiRun EXCEPT ![r].pc = p]
    BY <1>12, Zenon DEF CheckRun
  <2>3. \A q \in Runs : /\ uiRun'[q].pc = "new" => uiRun[q].pc = "new"
                        /\ uiRun'[q].gen = uiRun[q].gen
    BY <2>2 DEF HistoryTypeOK, RunStates
  <2>4. \A m \in Messages : RunOf[m] \in registered' =>
          /\ RunOf[m] \in registered
          /\ uiRun'[RunOf[m]].gen = uiRun[RunOf[m]].gen
          /\ ui'.gen = ui.gen
          /\ ui.failed => ui'.failed
          /\ entries'[m] = entries[m]
    BY <1>1, <2>1, <2>3
  <2> QED BY <1>6, <2>1, <2>3, <2>4
<1>13. ASSUME NEW v \in Viewers, Views(v) PROVE RunsSound'
  BY <1>6, <1>13, ViewSteps DEF memory
<1>14. CASE UNCHANGED historyVars
  BY <1>6, <1>14 DEF historyVars, memory, actors
<1> QED BY <1>3, <1>4, <1>7, <1>8, <1>9, <1>10, <1>11, <1>12, <1>13, <1>14, HistoryKinds

-----------------------------------------------------------------------------
(* The journal mutex: what its holder has prepared still holds. *)

(* The job stays as it is: nobody else appends, writes the journal or ends *)
(* the run of a forwarder that holds the mutex, and what is confirmed      *)
(* meanwhile is another message.                                           *)
LEMMA JobKept ==
  ASSUME HistoryTypeOK, JobSound, UNCHANGED <<job, records>>,
         \A m \in Messages :
           /\ job.kind = "append" => sent'[m] = sent[m]
           /\ entries'[m] = entries[m] \/ ~entries'[m].committed,
         \A r \in Runs :
           uiRun[r].pc \in {"open", "dropped"} =>
             \/ uiRun'[r].pc \in {"open", "dropped"}
             \/ /\ uiRun'[r].pc = "flush"
                /\ job.kind = "append" => ~Streamed(job.msg) \/ RunOf[job.msg] # r
  PROVE  JobSound'
<1>1. CASE job.kind = "append"
  <2>1. job \in JobsOfAppend /\ job.msg \in Messages /\ RunOf[job.msg] \in Runs
    BY <1>1, Typed, HistoryAssumption DEF JobsOfAppend
  <2>2. AppendSound'
    BY <1>1, <2>1 DEF JobSound, AppendSound, Streamed
  <2> QED BY <1>1, <2>2 DEF JobSound, UpdateSound, CutSound
<1>2. CASE job.kind # "append"
  BY <1>2 DEF JobSound, AppendSound, UpdateSound, CutSound, Active, Absent
<1> QED BY <1>1, <1>2

LEMMA JobEnds ==
  ASSUME job' = NoJob
  PROVE  JobSound'
BY Idle DEF JobSound, AppendSound, UpdateSound, CutSound

LEMMA JobOfStage ==
  ASSUME HistoryTypes, StoreInv, DataInv, NEW m \in Messages, NEW v \in 1 .. Last[m], Stage(m, v)
  PROVE  JobSound'
<1> USE DEF HistoryTypes
<1> DEFINE old == Shown(m)
<1>1. /\ entries' = [entries EXCEPT ![m] = IF old.ver < v THEN Projected(old, v) ELSE old]
      /\ sent' = [sent EXCEPT ![m] = v] /\ UNCHANGED <<uiRun>>
      /\ Kind[m] # "error" /\ (Kind[m] # "user" => uiRun[RunOf[m]].pc = "open")
      /\ Kind[m] = "user" => ~Present(old) /\ v = 1
      /\ Kind[m] # "user" => sent[m] < v
    BY DEF Stage, Appendable, Streamed
<1>2. /\ job'.kind = "append" /\ job'.pc = "staged" /\ job'.msg = m /\ job'.ver = v
      /\ job'.of = (IF old.ver < v THEN Projected(old, v) ELSE old).ver
      /\ job'.confirms = Confirms(m, v, old)
  BY DEF Stage
<1>3. /\ v \in Nat /\ v > 0 /\ v <= Last[m] /\ old.ver \in Nat /\ old \in Snapshots
      /\ sent[m] \in Nat /\ Last[m] \in Nat
      /\ Kind[m] \in {"user", "tool", "segment", "error"} /\ RunOf[m] \in Runs
  <2>1. Last[m] \in Nat /\ old \in Snapshots
    BY Typed, HistoryAssumption
  <2> QED BY <2>1, HistoryAssumption DEF Snapshots, HistoryTypeOK
<1>4. Projected(old, v).ver = v /\ ~Projected(old, v).committed
  BY <1>3, AbsentTyped DEF Projected, Snapshots, Absent
<1>5. Sound(m, old, copied[m], sent[m])
  BY DEF Shown, DataInv, SnapshotsSound
<1> HIDE DEF old
<1>6. ~(old.ver < v) => ~old.committed /\ Kind[m] # "user"
  BY <1>1, <1>3, <1>5 DEF Sound, Present
<1>7. ~entries'[m].committed /\ sent'[m] = v
  <2>1. entries'[m] = (IF old.ver < v THEN Projected(old, v) ELSE old) /\ sent'[m] = v
    BY <1>1 DEF HistoryTypeOK
  <2> QED BY <1>4, <1>6, <2>1
<1>8. job'.confirms => job'.of = job'.ver
  <2>1. CASE old.ver < v
    BY <1>2, <1>4, <2>1
  <2>2. CASE ~(old.ver < v)
    <3> SUFFICES ASSUME Confirms(m, v, old) PROVE old.ver = v
      BY <1>2, <2>2
    <3>1. CASE Kind[m] = "tool"
      BY <1>3, <2>2, <3>1 DEF Confirms
    <3>2. CASE Kind[m] = "segment"
      BY <1>1, <1>3, <1>5, <2>2, <3>2 DEF Confirms, Sound
    <3> QED BY <1>1, <1>3, <1>6, <2>2, <3>1, <3>2
  <2> QED BY <2>1, <2>2
<1>9. AppendSound'
  BY <1>1, <1>2, <1>3, <1>7, <1>8 DEF AppendSound, Streamed
<1> QED BY <1>2, <1>9 DEF JobSound, UpdateSound, CutSound

LEMMA JobMoves ==
  ASSUME HistoryTypes, StoreInv, DataInv,
         \/ WriteRecord \/ Bind \/ (\E m \in Messages : BeginUpdate(m)) \/ Rewrite \/ Replace
         \/ (\E b \in 0 .. Len(records) - 1 : BeginTruncate(b)) \/ BeginClear
         \/ Cut \/ EraseRows
  PROVE  JobSound'
<1> USE DEF HistoryTypes
<1>0. /\ JobSound /\ records \in Seq(JournalRecords) /\ Len(records) \in Nat
      /\ \A i \in 1 .. Len(records) : records[i] \in JournalRecords
      /\ \A m \in Messages : RunOf[m] \in Runs
  BY HistoryAssumption DEF DataInv, HistoryTypeOK
<1>1. CASE WriteRecord
  <2>1. job \in JobsOfAppend /\ job.kind = "append" /\ job.pc = "staged"
    BY <1>1, Typed DEF WriteRecord
  <2>2. /\ records' = Append(records, [msg |-> job.msg, ver |-> job.ver])
        /\ job' = [job EXCEPT !.pc = "written", !.index = Len(records) + 1]
        /\ UNCHANGED <<sent, entries, uiRun>>
    BY <1>1 DEF WriteRecord, memory
  <2>3. /\ Len(records') = Len(records) + 1
        /\ records'[Len(records) + 1] = [msg |-> job.msg, ver |-> job.ver]
    BY <1>0, <2>2
  <2>4. /\ job'.kind = "append" /\ job'.pc = "written" /\ job'.msg = job.msg
        /\ job'.ver = job.ver /\ job'.of = job.of
        /\ job'.index = Len(records) + 1
    BY <2>1, <2>2 DEF JobsOfAppend
  <2>5. job'.confirms = job.confirms
    BY <2>1, <2>2 DEF JobsOfAppend
  <2>6. AppendSound'
    BY <1>0, <2>1, <2>2, <2>3, <2>4, <2>5 DEF JobSound, AppendSound
  <2> QED BY <2>4, <2>6 DEF JobSound, UpdateSound, CutSound
<1>2. CASE Bind
  <2>1. job \in JobsOfAppend /\ job.kind = "append"
    BY <1>2, Typed DEF Bind
  <2>2. UNCHANGED <<sent, uiRun>> /\ (job' = NoJob \/ job' = [job EXCEPT !.pc = "flush"])
    BY <1>2 DEF Bind
  <2>3. CASE job' = [job EXCEPT !.pc = "flush"]
    <3>1. /\ job'.kind = "append" /\ job'.pc = "flush" /\ job'.msg = job.msg
          /\ job'.ver = job.ver
      BY <2>1, <2>3 DEF JobsOfAppend
    <3>2. AppendSound'
      BY <1>0, <2>1, <2>2, <3>1 DEF JobSound, AppendSound
    <3> QED BY <3>1, <3>2 DEF JobSound, UpdateSound, CutSound
  <2> QED BY <2>2, <2>3, JobEnds
<1>3. ASSUME NEW m \in Messages, BeginUpdate(m) PROVE JobSound'
  <2> DEFINE e == Shown(m)
             i == e.record
  <2>1. /\ i \in 1 .. Len(records) /\ records[i].msg = m /\ ~Active(m, e)
        /\ Kind[m] \in {"user", "segment"} /\ UNCHANGED records
        /\ job'.kind = "update" /\ job'.pc = "rewrite" /\ job'.msg = m /\ job'.was = e.ver
        /\ job'.ver = Later(records[i].ver, e.ver) + 1 /\ job'.index = i
    BY <1>3 DEF BeginUpdate, disk
  <2>2. records[i].ver \in Nat /\ e.ver \in Nat
    BY <1>0, <2>1, Typed DEF JournalRecords, Snapshots
  <2>3. [Absent EXCEPT !.ver = e.ver].ver = e.ver
    BY DEF Absent
  <2> HIDE DEF e, i
  <2>4. records[i].ver < job'.ver /\ job'.was < job'.ver
    BY <2>1, <2>2 DEF Later
  <2>5. UpdateSound'
    BY <2>1, <2>2, <2>3, <2>4 DEF UpdateSound, Active
  <2> QED BY <2>1, <2>5 DEF JobSound, AppendSound, CutSound
<1>4. CASE Rewrite
  <2>1. job \in JobsOfUpdate /\ job.kind = "update" /\ job.pc = "rewrite"
    BY <1>4, Typed DEF Rewrite
  <2>2. /\ records' = [records EXCEPT ![job.index].ver = job.ver]
        /\ job' = [job EXCEPT !.pc = "replace"]
    BY <1>4 DEF Rewrite
  <2>3. /\ job'.kind = "update" /\ job'.pc = "replace" /\ job'.msg = job.msg
        /\ job'.ver = job.ver /\ job'.was = job.was /\ job'.index = job.index
    BY <2>1, <2>2 DEF JobsOfUpdate
  <2>4. job.index \in 1 .. Len(records) /\ records[job.index] \in JournalRecords
    BY <1>0, <2>1
  <2>5. Len(records') = Len(records)
    BY <1>0, <2>2, <2>4
  <2>6. records'[job.index] = [records[job.index] EXCEPT !.ver = job.ver]
    BY <1>0, <2>2, <2>4
  <2>7. records'[job.index].msg = records[job.index].msg /\ records'[job.index].ver = job.ver
    BY <2>4, <2>6 DEF JournalRecords
  <2>8. UpdateSound'
    BY <1>0, <2>1, <2>3, <2>4, <2>5, <2>7 DEF JobSound, UpdateSound, Active
  <2> QED BY <2>3, <2>8 DEF JobSound, AppendSound, CutSound
<1>5. CASE Replace
  <2>1. job \in JobsOfUpdate /\ job.kind = "update" /\ job.pc = "replace"
    BY <1>5, Typed DEF Replace
  <2>2. job' = [job EXCEPT !.pc = "flush"]
    BY <1>5 DEF Replace
  <2>3. /\ job'.kind = "update" /\ job'.pc = "flush" /\ job'.msg = job.msg
        /\ job'.ver = job.ver /\ job'.was = job.was
    BY <2>1, <2>2 DEF JobsOfUpdate
  <2>4. UpdateSound'
    BY <1>0, <2>1, <2>3 DEF JobSound, UpdateSound, Active
  <2> QED BY <2>3, <2>4 DEF JobSound, AppendSound, CutSound
<1>6. ASSUME NEW b \in 0 .. Len(records) - 1, BeginTruncate(b) PROVE JobSound'
  <2>1. job'.kind = "truncate" /\ job'.pc = "flush" /\ job'.keep = b /\ UNCHANGED records
    BY <1>6 DEF BeginTruncate, disk
  <2>2. b <= Len(records)
    BY <1>0
  <2> QED BY <2>1, <2>2 DEF JobSound, AppendSound, UpdateSound, CutSound
<1>7. CASE BeginClear
  <2>1. /\ job'.kind = "clear" /\ job'.pc \in {"flush", "cut"} /\ job'.keep = 0
        /\ UNCHANGED records
    BY <1>7 DEF BeginClear, disk
  <2> QED BY <1>0, <2>1 DEF JobSound, AppendSound, UpdateSound, CutSound
<1>8. CASE Cut
  <2>1. job \in JobsOfCut /\ job.kind \in {"truncate", "clear"} /\ job.pc = "cut"
    BY <1>8, Typed DEF Cut
  <2>2. records' = SubSeq(records, 1, job.keep) /\ job' = [job EXCEPT !.pc = "erase"]
    BY <1>8 DEF Cut
  <2>3. job.keep \in Nat /\ job.keep <= Len(records) /\ (job.kind = "clear" => job.keep = 0)
    BY <1>0, <2>1 DEF JobsOfCut, JobSound, CutSound
  <2>4. job'.kind = job.kind /\ job'.pc = "erase" /\ job'.keep = job.keep
    BY <2>1, <2>2 DEF JobsOfCut
  <2>5. Len(records') = job.keep
    BY <1>0, <2>2, <2>3
  <2> QED BY <2>1, <2>3, <2>4, <2>5 DEF JobSound, AppendSound, UpdateSound, CutSound
<1>9. CASE EraseRows
  <2>1. job \in JobsOfCut /\ job.kind \in {"truncate", "clear"}
    BY <1>9, Typed DEF EraseRows
  <2>2. job' = [job EXCEPT !.pc = "erased"]
    BY <1>9 DEF EraseRows
  <2>3. job'.kind = job.kind /\ job'.pc = "erased" /\ job'.keep = job.keep
    BY <2>1, <2>2 DEF JobsOfCut
  <2> QED BY <1>0, <2>1, <2>3 DEF JobSound, AppendSound, UpdateSound, CutSound
<1> QED BY <1>1, <1>2, <1>3, <1>4, <1>5, <1>6, <1>7, <1>8, <1>9

LEMMA JobStep ==
  ASSUME HistoryTypes, StoreInv, DataInv, [NextHistory]_historyVars
  PROVE  JobSound'
<1> USE DEF HistoryTypes
<1>1. JobSound /\ HistoryTypeOK /\ ~Absent.committed
  BY DEF DataInv, Absent
<1>2. ASSUME NEW m \in Messages, NEW v \in 1 .. Last[m], Stage(m, v) PROVE JobSound'
  BY <1>2, JobOfStage
<1>3. CASE \/ WriteRecord \/ Bind \/ (\E m \in Messages : BeginUpdate(m)) \/ Rewrite \/ Replace
           \/ (\E b \in 0 .. Len(records) - 1 : BeginTruncate(b)) \/ BeginClear
           \/ Cut \/ EraseRows
  BY <1>3, JobMoves
<1>4. CASE \/ WriteFails \/ BindFails \/ RewriteFails \/ ReplaceFails \/ CutFails \/ EraseFails
           \/ PruneFails \/ EraseMemory \/ DropJob \/ Reload
  <2>1. job' = NoJob
    BY <1>4 DEF WriteFails, BindFails, RewriteFails, ReplaceFails, CutFails, EraseFails, PruneFails,
       EraseMemory, DropJob, Reload
  <2> QED BY <2>1, JobEnds
<1>5. CASE \/ \E m \in Messages : CopyRefused(m)
           \/ \E by \in Flushers : FlushTake(by)
           \/ FlushWrite
           \/ \E v \in Viewers : Views(v)
           \/ UNCHANGED historyVars
  <2>1. UNCHANGED <<job, records, entries, sent, uiRun>>
    BY <1>5, ViewSteps DEF CopyRefused, FlushTake, FlushWrite, historyVars, actors, disk, memory
  <2> QED BY <1>1, <2>1, JobKept
<1>6. ASSUME NEW m \in Messages, Copy(m) PROVE JobSound'
  <2>1. /\ UNCHANGED <<job, records, sent, uiRun>>
        /\ entries' = [entries EXCEPT ![m] = Projected(entries[m], copied[m] + 1)]
    BY <1>6 DEF Copy, disk
  <2>2. ~Projected(entries[m], copied[m] + 1).committed
    BY DEF Projected, HistoryTypeOK, Snapshots, Absent
  <2>3. \A n \in Messages : entries'[n] = entries[n] \/ ~entries'[n].committed
    BY <2>1, <2>2 DEF HistoryTypeOK
  <2> QED BY <1>1, <2>1, <2>3, JobKept
<1>7. ASSUME NEW m \in Messages, NEW v \in 1 .. Last[m], StageRefused(m, v) PROVE JobSound'
  <2>1. UNCHANGED <<job, records, entries, uiRun>> /\ job = NoJob
    BY <1>7 DEF StageRefused, disk, memory
  <2> QED BY <1>1, <2>1, JobKept, Idle
<1>8. CASE FlushFails \/ FlushSettle \/ (\E by \in Flushers : FlushNothing(by))
  <2>1. /\ UNCHANGED <<records, sent>>
        /\ \A m \in Messages : entries'[m] = entries[m] \/ entries'[m] = Absent
    BY <1>8 DEF FlushFails, FlushSettle, FlushNothing, disk
  <2>2. /\ \/ job' = job
           \/ job' = NoJob
           \/ /\ job.kind = "truncate" /\ job.pc = "flush"
              /\ job' = [job EXCEPT !.pc = "cut"]
        /\ \A r \in Runs : \/ uiRun'[r] = uiRun[r]
                           \/ uiRun[r].pc \in {"flush", "last"}
    BY <1>8, FlushCalls
  <2>3. CASE job' = job
    BY <1>1, <2>1, <2>2, <2>3, JobKept
  <2>4. CASE job.kind = "truncate" /\ job.pc = "flush" /\ job' = [job EXCEPT !.pc = "cut"]
    <3>1. job \in JobsOfCut
      BY <2>4, Typed
    <3>2. job'.kind = "truncate" /\ job'.pc = "cut" /\ job'.keep = job.keep
      BY <2>4, <3>1 DEF JobsOfCut
    <3> QED BY <1>1, <2>1, <2>4, <3>2 DEF JobSound, AppendSound, UpdateSound, CutSound
  <2> QED BY <2>2, <2>3, <2>4, JobEnds
<1>9. ASSUME NEW r \in Runs, BeginRun(r) \/ EndRun(r) \/ CheckRefuses(r) \/ CheckRun(r) \/ DropRun(r)
      PROVE  JobSound'
  <2>1. /\ UNCHANGED <<job, records, sent>>
        /\ \A m \in Messages : entries'[m] = entries[m] \/ entries'[m] = Absent
    BY <1>9 DEF BeginRun, EndRun, CheckRefuses, CheckRun, DropRun, disk, memory
  <2>2. CASE BeginRun(r)
    BY <1>1, <2>1, <2>2, JobKept DEF BeginRun
  <2>3. CASE EndRun(r)
    <3>1. /\ \A q \in Runs \ {r} : uiRun'[q] = uiRun[q]
          /\ uiRun'[r].pc = "flush"
          /\ job.kind = "append" => ~Streamed(job.msg) \/ RunOf[job.msg] # r
      BY <2>3 DEF EndRun, HistoryTypeOK, RunStates
    <3> QED BY <1>1, <2>1, <3>1, JobKept
  <2>4. CASE CheckRefuses(r) \/ CheckRun(r)
    <3>1. PICK p \in {"last", "finished"} : uiRun' = [uiRun EXCEPT ![r].pc = p]
      BY <2>4, Zenon DEF CheckRefuses, CheckRun
    <3>2. uiRun[r].pc = "check" /\ \A q \in Runs \ {r} : uiRun'[q] = uiRun[q]
      BY <2>4, <3>1 DEF CheckRefuses, CheckRun, HistoryTypeOK
    <3> QED BY <1>1, <2>1, <3>2, JobKept
  <2>5. CASE DropRun(r)
    <3>1. \A q \in Runs : uiRun'[q] = uiRun[q] \/ uiRun'[q].pc = "dropped"
      BY <2>5 DEF DropRun, HistoryTypeOK, RunStates
    <3> QED BY <1>1, <2>1, <3>1, JobKept
  <2> QED BY <1>9, <2>2, <2>3, <2>4, <2>5
<1> QED BY <1>2, <1>3, <1>4, <1>5, <1>6, <1>7, <1>8, <1>9, HistoryKinds DEF QuietSteps

LEMMA DataStep ==
  ASSUME HistoryTypes, StoreInv, DataInv, [NextHistory]_historyVars
  PROVE  DataInv'
BY SnapshotsStep, JobStep, RunsStep DEF DataInv

-----------------------------------------------------------------------------
(* Bindings: every snapshot is bound to records of its own message. *)

(* What memory has counts as long as it belongs to the stored generation.  *)
OwnFrom(m) == {Absent, rows[m]}
                \cup (IF Attached THEN {entries[m]} ELSE {})
                \cup (IF Attached /\ Flushing THEN {flushing.entries[m]} ELSE {})

LEMMA JournalTyped ==
  ASSUME HistoryTypeOK
  PROVE  /\ records \in Seq(JournalRecords) /\ Len(records) \in Nat
         /\ \A i \in 1 .. Len(records) : records[i] \in JournalRecords
         /\ \A i \in 1 .. Len(records) : records[i].ver \in Nat
<1>1. records \in Seq(JournalRecords)
  BY DEF HistoryTypeOK
<1>2. /\ Len(records) \in Nat
      /\ \A i \in 1 .. Len(records) : records[i] \in JournalRecords
  BY <1>1
<1>3. \A x \in JournalRecords : x.ver \in Nat
  BY DEF JournalRecords
<1> QED BY <1>1, <1>2, <1>3

LEMMA OwnedAbsent ==
  ASSUME HistoryTypeOK, NEW m \in Messages
  PROVE  OwnedHere(m, Absent)
<1>1. Len(records) \in Nat
  BY DEF HistoryTypeOK
<1> QED BY <1>1 DEF OwnedHere, Owned, Absent

LEMMA OwnFromOwned ==
  ASSUME HistoryTypeOK, BoundInv, ~torn, NEW m \in Messages, NEW e \in OwnFrom(m)
  PROVE  OwnedHere(m, e) /\ e \in Snapshots
<1>1. e \in Snapshots
  BY SnapshotsTyped, AbsentTyped DEF OwnFrom
<1>2. OwnedHere(m, e)
  BY OwnedAbsent DEF OwnFrom, BoundInv
<1> QED BY <1>1, <1>2

LEMMA OwnedStep ==
  ASSUME HistoryTypeOK, BoundInv, ~torn,
         \A m \in Messages :
           /\ \A e \in OwnFrom(m) : OwnedHere(m, e) => OwnedHere(m, e)'
           /\ rows'[m] \in OwnFrom(m)
           /\ Attached' => entries'[m] \in OwnFrom(m) \/ OwnedHere(m, entries[m])'
           /\ Attached' /\ Flushing' => flushing'.entries[m] \in OwnFrom(m)
  PROVE  BoundInv'
<1> SUFFICES ASSUME NEW m \in Messages
             PROVE  /\ OwnedHere(m, rows[m])'
                    /\ Attached' => OwnedHere(m, entries[m])'
                    /\ Attached' /\ Flushing' => OwnedHere(m, flushing.entries[m])'
  BY DEF BoundInv
<1>1. \A e \in OwnFrom(m) : OwnedHere(m, e)'
  BY OwnFromOwned
<1>2. OwnedHere(m, rows[m])'
  BY <1>1 DEF OwnedHere
<1>3. Attached' => OwnedHere(m, entries[m])'
  BY <1>1 DEF OwnedHere
<1>4. Attached' /\ Flushing' => OwnedHere(m, flushing.entries[m])'
  BY <1>1 DEF OwnedHere
<1> QED BY <1>2, <1>3, <1>4

(* The journal stays as it is, and so does the cut that waits.             *)
LEMMA StillOwned ==
  ASSUME HistoryTypeOK, BoundInv, UNCHANGED records,
         torn' => torn, torn => torn',
         job'.pc = "erase" <=> job.pc = "erase",
         \A m \in Messages :
           /\ rows'[m] \in OwnFrom(m)
           /\ Attached' => entries'[m] \in OwnFrom(m) \/ OwnedHere(m, entries[m])'
           /\ Attached' /\ Flushing' => flushing'.entries[m] \in OwnFrom(m)
  PROVE  BoundInv'
<1> SUFFICES ASSUME ~torn PROVE BoundInv'
  BY DEF BoundInv
<1>1. \A m \in Messages : \A e \in OwnFrom(m) : OwnedHere(m, e) => OwnedHere(m, e)'
  BY DEF OwnedHere, Owned
<1> QED BY <1>1, OwnedStep

(* The journal changes: it grows, is cut, or a record is rewritten.        *)
LEMMA JournalBound ==
  ASSUME HistoryTypes, StoreInv, DataInv, BoundInv, WriteRecord \/ Rewrite \/ Cut
  PROVE  BoundInv'
<1> USE DEF HistoryTypes
<1> SUFFICES ASSUME ~torn PROVE BoundInv'
  BY DEF WriteRecord, Rewrite, Cut, BoundInv
<1>1. /\ records \in Seq(JournalRecords) /\ Len(records) \in Nat
      /\ \A i \in 1 .. Len(records) : records[i] \in JournalRecords
      /\ \A i \in 1 .. Len(records) : records[i].ver \in Nat
      /\ JobSound /\ SnapshotsSound
  BY JournalTyped DEF DataInv
<1>2. UNCHANGED <<row, rows, ui, entries, flushing, torn>>
  BY DEF WriteRecord, Rewrite, Cut, memory
<1>3. \A m \in Messages :
        /\ rows'[m] \in OwnFrom(m)
        /\ Attached' => entries'[m] \in OwnFrom(m)
        /\ Attached' /\ Flushing' => flushing'.entries[m] \in OwnFrom(m)
  BY <1>2 DEF OwnFrom, Attached, Flushing
<1> SUFFICES ASSUME NEW m \in Messages, NEW e \in OwnFrom(m), OwnedHere(m, e)
             PROVE  OwnedHere(m, e)'
  BY <1>3, OwnedStep
<1>4. /\ e \in Snapshots /\ e.last \in Nat /\ e.first \in Nat /\ e.record \in Nat /\ e.ver \in Nat
      /\ e.committed \in BOOLEAN
  BY OwnFromOwned DEF Snapshots
<1>5. CASE WriteRecord
  <2>1. job.pc # "erase" /\ job' = [job EXCEPT !.pc = "written", !.index = Len(records) + 1]
    BY <1>5 DEF WriteRecord
  <2>2. records' = Append(records, [msg |-> job.msg, ver |-> job.ver])
    BY <1>5 DEF WriteRecord
  <2>3. /\ Len(records') = Len(records) + 1
        /\ \A i \in 1 .. Len(records) : records'[i] = records[i]
    BY <1>1, <2>2
  <2>4. Owned(m, e)
    BY <2>1 DEF OwnedHere
  <2>5. e.record > 0 => e.record \in 1 .. Len(records)
    BY <1>1, <1>4, <2>4 DEF Owned
  <2> QED BY <1>1, <1>4, <2>1, <2>3, <2>4, <2>5 DEF OwnedHere, Owned
<1>6. CASE Cut
  <2>1. job \in JobsOfCut /\ job.pc = "cut" /\ job.kind \in {"truncate", "clear"}
    BY <1>6, Typed DEF Cut
  <2>2. records' = SubSeq(records, 1, job.keep) /\ job' = [job EXCEPT !.pc = "erase"]
    BY <1>6 DEF Cut
  <2>3. job.keep \in Nat /\ job.keep <= Len(records) /\ job'.pc = "erase"
    BY <1>1, <2>1, <2>2 DEF JobsOfCut, JobSound, CutSound
  <2>4. Len(records') = job.keep /\ \A i \in 1 .. job.keep : records'[i] = records[i]
    BY <1>1, <2>2, <2>3
  <2>5. Owned(m, e)
    BY <2>1 DEF OwnedHere
  <2>6. CASE e.last <= job.keep
    <3>1. e.record > 0 => e.record \in 1 .. job.keep
      BY <1>4, <2>3, <2>5, <2>6 DEF Owned
    <3> QED BY <1>4, <2>1, <2>3, <2>4, <2>5, <2>6, <3>1 DEF OwnedHere, Owned
  <2>7. CASE e.last > job.keep
    BY <2>3, <2>4, <2>7 DEF OwnedHere
  <2> QED BY <1>4, <2>3, <2>6, <2>7
<1>7. CASE Rewrite
  <2>1. job \in JobsOfUpdate /\ job.pc = "rewrite" /\ job.kind = "update"
    BY <1>7, Typed DEF Rewrite
  <2>2. records' = [records EXCEPT ![job.index].ver = job.ver] /\ job' = [job EXCEPT !.pc = "replace"]
    BY <1>7 DEF Rewrite
  <2>3. /\ job.index \in 1 .. Len(records) /\ records[job.index].msg = job.msg
        /\ records[job.index].ver < job.ver /\ Kind[job.msg] \in {"user", "segment"}
        /\ job.ver \in Nat /\ job'.pc = "replace"
    BY <1>1, <2>1, <2>2 DEF JobSound, UpdateSound, JobsOfUpdate
  <2>4. records[job.index] \in JournalRecords
    BY <1>1, <2>3
  <2>5. /\ Len(records') = Len(records)
        /\ \A i \in 1 .. Len(records) : i # job.index => records'[i] = records[i]
        /\ records'[job.index] = [records[job.index] EXCEPT !.ver = job.ver]
    BY <1>1, <2>2, <2>3
  <2>6. records'[job.index].msg = job.msg /\ records'[job.index].ver = job.ver
    BY <2>3, <2>4, <2>5 DEF JournalRecords
  <2>7. /\ Owned(m, e)
        /\ e.record > 0 /\ Kind[m] = "segment" => records[e.record].ver >= Last[m]
    BY <2>1 DEF OwnedHere
  <2>8. CASE e.record # job.index
    <3>1. e.record > 0 => e.record \in 1 .. Len(records)
      BY <1>1, <1>4, <2>7 DEF Owned
    <3> QED BY <1>1, <1>4, <2>3, <2>5, <2>7, <2>8, <3>1 DEF OwnedHere, Owned
  <2>9. CASE e.record = job.index
    <3>1. m = job.msg /\ e.record > 0
      BY <1>4, <2>3, <2>7, <2>9 DEF Owned
    <3>2. Present(e)
      <4>1. Sound(m, e, copied[m], sent[m])
        BY <1>1, SoundAbsent DEF OwnFrom, SnapshotsSound, HistoryTypeOK
      <4> QED BY <3>1, <4>1 DEF Sound, Absent
    <3>3. Last[m] \in Nat \ {0} /\ (Kind[m] = "user" => Last[m] = 1)
      BY HistoryAssumption
    <3>4. records[job.index].ver \in Nat
      BY <1>1, <2>3
    <3>5. e.committed => e.ver >= Last[m] /\ e.ver <= records[job.index].ver
      BY <1>4, <2>3, <2>7, <2>9, <3>1, <3>2, <3>3, <3>4 DEF Owned, Present
    <3>6. Owned(m, e)'
      <4>1. /\ e.record \in {0} \cup e.first .. e.last
            /\ e.last <= Len(records')
        BY <2>5, <2>7 DEF Owned
      <4>2. records'[e.record].msg = m /\ records'[e.record].ver = job.ver
        BY <2>6, <2>9, <3>1
      <4>3. e.committed => e.ver < job.ver /\ e.ver >= Last[m]
        BY <1>4, <2>3, <3>4, <3>5
      <4> QED BY <4>1, <4>2, <4>3 DEF Owned
    <3>7. Kind[m] = "segment" => records'[e.record].ver >= Last[m]
      BY <2>3, <2>6, <2>7, <2>9, <3>1, <3>3, <3>4
    <3> QED BY <3>6, <3>7 DEF OwnedHere
  <2> QED BY <2>8, <2>9
<1> QED BY <1>5, <1>6, <1>7

(* A version that is not confirmed keeps its binding.                      *)
LEMMA ProjectedOwned ==
  ASSUME HistoryTypeOK, NEW m \in Messages, NEW e \in Snapshots, NEW v \in Nat,
         OwnedHere(m, e)
  PROVE  OwnedHere(m, Projected(e, v))
<1> DEFINE p == Projected(e, v)
<1>1. /\ p.committed = FALSE
      /\ \/ p.record = e.record /\ p.first = e.first /\ p.last = e.last
         \/ p.record = 0 /\ p.first = 0 /\ p.last = 0
  BY AbsentTyped DEF Projected, Snapshots, Absent
<1>2. Len(records) \in Nat
  BY JournalTyped
<1> HIDE DEF p
<1>3. OwnedHere(m, p)
  BY <1>1, <1>2 DEF OwnedHere, Owned
<1> QED BY <1>3 DEF p

(* A receipt binds to the record just written; a replacement shows the     *)
(* record just rewritten.                                                  *)
LEMMA BoundOwned ==
  ASSUME HistoryTypes, StoreInv, DataInv, BoundInv, ~torn, Attached, Bind
  PROVE  OwnedHere(job.msg, Bound(entries[job.msg]))
<1> USE DEF HistoryTypes
<1> DEFINE m == job.msg
           e == entries[m]
           b == Bound(e)
<1>1. /\ job \in JobsOfAppend /\ m \in Messages /\ job.kind = "append" /\ job.pc = "written"
      /\ e \in Snapshots
  BY Typed DEF Bind, JobsOfAppend, HistoryTypeOK
<1>2. /\ job.index = Len(records) /\ job.index > 0 /\ ~e.committed /\ job.ver = sent[m]
      /\ records[job.index] = [msg |-> m, ver |-> job.ver] /\ (job.confirms => job.of = job.ver)
      /\ job.index \in Nat /\ job.ver \in Nat /\ job.confirms \in BOOLEAN
  BY <1>1 DEF DataInv, JobSound, AppendSound, JobsOfAppend
<1>3. Owned(m, e) /\ Sound(m, e, copied[m], sent[m])
  BY <1>1 DEF BoundInv, OwnedHere, DataInv, SnapshotsSound
<1>4. /\ e.first \in Nat /\ e.last \in Nat /\ e.record \in Nat /\ e.ver \in Nat
      /\ e.committed \in BOOLEAN
  BY <1>1 DEF Snapshots
<1>5. Sound(m, b, copied[m], sent[m])
  BY BoundSound
<1>6. /\ b.ver = e.ver
      /\ b.last = (IF job.index > e.last THEN job.index ELSE e.last)
      /\ b.record = (IF Semantic(m, job.ver) THEN job.index ELSE e.record)
  BY <1>1 DEF Bound, Snapshots
<1>7. b.committed => e.ver = job.ver
  <2>1. b.committed = (e.committed \/ (job.confirms /\ e.ver = job.of))
    BY <1>1 DEF Bound, Snapshots
  <2> QED BY <1>2, <2>1, Zenon
<1>8. /\ Last[m] \in Nat \ {0} /\ (Kind[m] = "user" => Last[m] = 1)
      /\ Kind[m] \in {"user", "tool", "segment", "error"} /\ sent[m] <= Last[m]
  BY <1>1, HistoryAssumption DEF DataInv, RunsSound, RunSound
<1>9. records[job.index].msg = m /\ records[job.index].ver = job.ver
  BY <1>2
<1> HIDE DEF m, b, e
<1>10. b.record \in {0} \cup b.first .. b.last
  BY <1>5 DEF Sound
<1>11. b.last <= Len(records)
  BY <1>2, <1>3, <1>6, JournalTyped DEF Owned
<1>12. ASSUME Semantic(m, job.ver) PROVE OwnedHere(m, b)
  <2>1. b.record = job.index
    BY <1>6, <1>12
  <2>2. records[b.record].msg = m /\ records[b.record].ver = job.ver
    BY <1>9, <2>1
  <2>3. Owned(m, b)
    BY <1>6, <1>7, <1>10, <1>11, <2>2 DEF Owned
  <2>4. Kind[m] = "segment" => records[b.record].ver >= Last[m]
    BY <1>2, <1>8, <1>12, <2>2 DEF Semantic
  <2> QED BY <2>3, <2>4 DEF OwnedHere
<1>13. ASSUME ~Semantic(m, job.ver) PROVE OwnedHere(m, b)
  <2>1. Kind[m] = "segment" /\ job.ver # Last[m]
    BY <1>13 DEF Semantic
  <2>2. sent[m] < Last[m]
    BY <1>2, <1>8, <2>1
  <2>3. e.record = 0
    BY <1>3, <1>4, <1>2, <1>8, <2>1, <2>2 DEF Sound
  <2>4. b.record = 0
    BY <1>6, <1>13, <2>3
  <2> QED BY <1>10, <1>11, <2>4 DEF OwnedHere, Owned
<1>14. OwnedHere(m, b)
  BY <1>12, <1>13
<1> QED BY <1>14 DEF m, b, e

LEMMA ReplacedOwned ==
  ASSUME HistoryTypes, StoreInv, DataInv, BoundInv, ~torn, Attached, Replace
  PROVE  OwnedHere(job.msg, [Shown(job.msg) EXCEPT !.ver = job.ver, !.rev = ui.rev + 1])
<1> USE DEF HistoryTypes
<1> DEFINE m == job.msg
           e == Shown(m)
           p == [e EXCEPT !.ver = job.ver, !.rev = ui.rev + 1]
<1>1. /\ job \in JobsOfUpdate /\ m \in Messages /\ job.kind = "update" /\ job.pc = "replace"
      /\ job.ver \in Nat /\ e.record = job.index
  BY Typed DEF Replace, Replaceable, JobsOfUpdate
<1>2. e \in Snapshots
  BY <1>1, Typed
<1>3. records[job.index].msg = m /\ records[job.index].ver = job.ver
  BY <1>1 DEF DataInv, JobSound, UpdateSound
<1>4. OwnedHere(m, e) /\ job.pc # "erase"
  BY <1>1 DEF BoundInv, Shown
<1>5. p.ver = job.ver /\ p.record = e.record /\ p.first = e.first /\ p.last = e.last
  BY <1>2 DEF Snapshots
<1> HIDE DEF m, e, p
<1>6. OwnedHere(m, p)
  BY <1>1, <1>3, <1>4, <1>5 DEF OwnedHere, Owned
<1> QED BY <1>6 DEF m, e, p

LEMMA WritersBound ==
  ASSUME HistoryTypes, StoreInv, DataInv, BoundInv,
         \/ \E m \in Messages : Copy(m)
         \/ \E m \in Messages : \E v \in 1 .. Last[m] : Stage(m, v)
         \/ Bind \/ Replace
  PROVE  BoundInv'
<1> USE DEF HistoryTypes
<1> SUFFICES ASSUME ~torn PROVE BoundInv'
  BY DEF Copy, Stage, Bind, Replace, BoundInv
<1>1. ASSUME NEW m \in Messages, NEW e,
             UNCHANGED <<records, row, rows, flushing, torn>>, ui'.gen = ui.gen,
             job'.pc = "erase" <=> job.pc = "erase",
             entries' = [entries EXCEPT ![m] = e],
             Attached => OwnedHere(m, e)
      PROVE  BoundInv'
  <2>1. Attached' <=> Attached
    BY <1>1 DEF Attached
  <2>2. entries'[m] = e /\ \A n \in Messages \ {m} : entries'[n] = entries[n]
    BY <1>1 DEF HistoryTypeOK
  <2>3. Attached => OwnedHere(m, entries[m])'
    BY <1>1, <2>2 DEF OwnedHere, Owned
  <2>4. ASSUME NEW n \in Messages
        PROVE  /\ rows'[n] \in OwnFrom(n)
               /\ Attached' => entries'[n] \in OwnFrom(n) \/ OwnedHere(n, entries[n])'
               /\ Attached' /\ Flushing' => flushing'.entries[n] \in OwnFrom(n)
    BY <1>1, <2>1, <2>2, <2>3 DEF OwnFrom, Flushing
  <2> QED BY <1>1, <2>4, StillOwned
<1>2. ASSUME NEW m \in Messages, Copy(m) PROVE BoundInv'
  <2> DEFINE v == copied[m] + 1
  <2>1. /\ entries' = [entries EXCEPT ![m] = Projected(entries[m], v)]
        /\ UNCHANGED <<records, row, rows, flushing, torn, job>> /\ ui' = Advanced(entries[m])
        /\ v \in Nat /\ entries[m] \in Snapshots
    BY <1>2 DEF Copy, disk, HistoryTypeOK
  <2>2. ui'.gen = ui.gen
    BY <2>1 DEF Advanced, HistoryTypeOK, UiStates
  <2> HIDE DEF v
  <2>3. Attached => OwnedHere(m, Projected(entries[m], v))
    BY <2>1, ProjectedOwned DEF BoundInv
  <2> QED BY <1>1, <2>1, <2>2, <2>3
<1>3. ASSUME NEW m \in Messages, NEW v \in 1 .. Last[m], Stage(m, v) PROVE BoundInv'
  <2> DEFINE old == Shown(m)
             e == IF old.ver < v THEN Projected(old, v) ELSE old
  <2>1. /\ entries' = [entries EXCEPT ![m] = e]
        /\ UNCHANGED <<records, row, rows, flushing, torn>>
        /\ ui' = IF old.ver < v THEN Advanced(old) ELSE ui
        /\ job = NoJob /\ job'.pc = "staged"
    BY <1>3 DEF Stage, disk
  <2>2. ui'.gen = ui.gen
    BY <2>1 DEF Advanced, HistoryTypeOK, UiStates
  <2>3. v \in Nat /\ old \in Snapshots
    BY HistoryAssumption, Typed
  <2>4. Attached => OwnedHere(m, old)
    BY DEF Shown, BoundInv
  <2> HIDE DEF old
  <2>5. Attached => OwnedHere(m, e)
    BY <2>3, <2>4, ProjectedOwned
  <2> HIDE DEF e
  <2> QED BY <1>1, <2>1, <2>2, <2>5, Idle
<1>4. ASSUME NEW m \in Messages, m = job.msg, Bind PROVE BoundInv'
  <2>1. /\ entries' = [entries EXCEPT ![m] = Bound(entries[m])]
        /\ UNCHANGED <<records, row, rows, flushing, torn>> /\ ui' = [ui EXCEPT !.rev = @ + 1]
        /\ job.pc = "written" /\ job \in JobsOfAppend
    BY <1>4, Typed DEF Bind, disk
  <2>2. ui'.gen = ui.gen
    BY <2>1 DEF HistoryTypeOK, UiStates
  <2>3. job'.pc # "erase"
    BY <1>4, <2>1, Idle DEF Bind, JobsOfAppend
  <2>4. Attached => OwnedHere(m, Bound(entries[m]))
    BY <1>4, BoundOwned
  <2> QED BY <1>1, <2>1, <2>2, <2>3, <2>4
<1>5. ASSUME NEW m \in Messages, m = job.msg, Replace PROVE BoundInv'
  <2> DEFINE p == [Shown(m) EXCEPT !.ver = job.ver, !.rev = ui.rev + 1]
  <2>1. /\ entries' = [entries EXCEPT ![m] = p]
        /\ UNCHANGED <<records, row, rows, flushing, torn>> /\ ui' = [ui EXCEPT !.rev = @ + 1]
        /\ job.pc = "replace" /\ job \in JobsOfUpdate
    BY <1>5, Typed DEF Replace, disk
  <2>2. ui'.gen = ui.gen
    BY <2>1 DEF HistoryTypeOK, UiStates
  <2>3. job'.pc # "erase"
    BY <1>5, <2>1 DEF Replace, JobsOfUpdate
  <2>4. Attached => OwnedHere(m, p)
    BY <1>5, ReplacedOwned
  <2> HIDE DEF p
  <2> QED BY <1>1, <2>1, <2>2, <2>3, <2>4
<1>6. Bind \/ Replace => job.msg \in Messages
  BY BindEdits, ReplaceEdits, StoreTypesHold
<1> QED BY <1>2, <1>3, <1>4, <1>5, <1>6

(* A job that does not wait to erase ends, or goes on: none begins to wait *)
(* but in Cut, and what stops waiting otherwise leaves the cut torn.       *)
LEMMA QuietBound ==
  ASSUME HistoryTypes, BoundInv, QuietSteps, ~WriteRecord, ~Rewrite, ~Cut
  PROVE  BoundInv'
<1> USE DEF HistoryTypes
<1> SUFFICES ASSUME ~torn' PROVE BoundInv'
  BY DEF BoundInv
<1>1. /\ UNCHANGED <<row, rows, entries>> /\ ui'.gen = ui.gen
      /\ flushing' = flushing \/ flushing' = NoFlush
  BY QuietStepsAreQuiet DEF Quiet, Ticks
<1>2. \A m \in Messages :
        /\ rows'[m] \in OwnFrom(m)
        /\ Attached' => entries'[m] \in OwnFrom(m)
        /\ Attached' /\ Flushing' => flushing'.entries[m] \in OwnFrom(m)
  BY <1>1 DEF OwnFrom, Attached, Flushing
<1>3. UNCHANGED records /\ ~torn /\ (job.pc = "erase" <=> job'.pc = "erase")
  <2>1. CASE FlushFails \/ \E by \in Flushers : FlushNothing(by)
    <3>1. UNCHANGED <<records, torn>>
      BY <2>1 DEF FlushFails, FlushNothing, disk
    <3>2. \/ job' = job
          \/ job' = NoJob /\ job.pc = "flush"
          \/ /\ job.kind = "truncate" /\ job.pc = "flush"
             /\ job' = [job EXCEPT !.pc = "cut"]
      <4>1. CASE FlushFails
        <5>1. flushing.by = "job" => job.pc = "flush"
          OBVIOUS
        <5>2. job' = IF flushing.by # "job" THEN job ELSE NoJob
          BY <4>1 DEF FlushFails, Answer
        <5> QED BY <5>1, <5>2
      <4>2. ASSUME NEW by \in Flushers, FlushNothing(by)
            PROVE  \/ job' = job
                   \/ job' = NoJob /\ job.pc = "flush"
                   \/ /\ job.kind = "truncate" /\ job.pc = "flush"
                      /\ job' = [job EXCEPT !.pc = "cut"]
        <5>1. by = "job" => job.pc = "flush"
          BY <4>2, HistoryAssumption DEF FlushNothing, Wants
        <5>2. \/ job' = job /\ by # "job"
              \/ by = "job" /\ job' = NoJob
              \/ by = "job" /\ job.kind = "truncate" /\ job' = [job EXCEPT !.pc = "cut"]
          BY <4>2, Zenon DEF FlushNothing, Answer
        <5> QED BY <5>1, <5>2
      <4> QED BY <2>1, <4>1, <4>2
    <3>3. job.kind = "truncate" => [job EXCEPT !.pc = "cut"].pc = "cut"
      BY Typed DEF JobsOfCut
    <3> QED BY <3>1, <3>2, <3>3, Idle
  <2>2. CASE \/ \E m \in Messages : CopyRefused(m)
             \/ \E m \in Messages : \E v \in 1 .. Last[m] : StageRefused(m, v)
             \/ \E r \in Runs : EndRun(r) \/ CheckRefuses(r) \/ DropRun(r)
    BY <2>2 DEF CopyRefused, StageRefused, EndRun, CheckRefuses, DropRun, disk
  <2>3. CASE \/ \E m \in Messages : BeginUpdate(m)
             \/ \E b \in 0 .. Len(records) - 1 : BeginTruncate(b)
             \/ BeginClear
    BY <2>3, Idle DEF BeginUpdate, BeginTruncate, BeginClear, disk
  <2>4. CASE WriteFails \/ BindFails \/ RewriteFails \/ ReplaceFails \/ CutFails
    BY <2>4, Idle DEF WriteFails, BindFails, RewriteFails, ReplaceFails, CutFails, disk
  <2>5. CASE EraseFails \/ PruneFails \/ DropJob
    BY <2>5, Idle DEF EraseFails, PruneFails, DropJob, disk
  <2> QED BY <2>1, <2>2, <2>3, <2>4, <2>5 DEF QuietSteps
<1> QED BY <1>2, <1>3, StillOwned

LEMMA BoundStep ==
  ASSUME HistoryTypes, StoreInv, DataInv, BoundInv, [NextHistory]_historyVars
  PROVE  BoundInv'
<1> USE DEF HistoryTypes
<1>1. CASE QuietSteps
  BY <1>1, JournalBound, QuietBound
<1>2. CASE \/ \E m \in Messages : Copy(m)
           \/ \E m \in Messages : \E v \in 1 .. Last[m] : Stage(m, v)
           \/ Bind \/ Replace
  BY <1>2, WritersBound
<1>3. CASE \/ \E by \in Flushers : FlushTake(by)
           \/ \E r \in Runs : BeginRun(r) \/ CheckRun(r)
           \/ \E v \in Viewers : Views(v)
           \/ UNCHANGED historyVars
  <2>1. UNCHANGED <<records, row, rows, ui, job, torn>>
    BY <1>3, ViewSteps DEF FlushTake, BeginRun, CheckRun, historyVars, disk, memory, actors
  <2>2. \A m \in Messages :
          /\ entries'[m] = entries[m] \/ entries'[m] = Absent
          /\ Flushing' => \/ Flushing /\ flushing'.entries[m] = flushing.entries[m]
                          \/ flushing'.entries[m] \in {entries[m], Absent}
    BY <1>3, ViewSteps DEF FlushTake, BeginRun, CheckRun, historyVars, disk, memory, actors, Flushing
  <2>3. \A m \in Messages :
          /\ rows'[m] \in OwnFrom(m)
          /\ Attached' => entries'[m] \in OwnFrom(m)
          /\ Attached' /\ Flushing' => flushing'.entries[m] \in OwnFrom(m)
    BY <2>1, <2>2 DEF OwnFrom, Attached
  <2> QED BY <2>1, <2>3, StillOwned
<1>4. CASE FlushWrite
  <2>1. Flushing /\ flushing \in FlushesTaken
    BY <1>4, Typed DEF FlushWrite, Flushing
  <2>2. Attached
    BY <1>4, <2>1 DEF FlushWrite, RowMatches, StoreInv, FlushSound, Attached
  <2>3. flushing'.entries = flushing.entries /\ UNCHANGED <<records, entries, job, torn>>
    BY <1>4, <2>1 DEF FlushWrite, FlushesTaken, memory
  <2>4. \A m \in Messages : rows'[m] = flushing.entries[m] \/ rows'[m] = rows[m]
    BY <1>4 DEF FlushWrite
  <2>5. \A m \in Messages :
          /\ rows'[m] \in OwnFrom(m)
          /\ Attached' => entries'[m] \in OwnFrom(m)
          /\ Attached' /\ Flushing' => flushing'.entries[m] \in OwnFrom(m)
    BY <2>1, <2>2, <2>3, <2>4 DEF OwnFrom
  <2> QED BY <2>3, <2>5, StillOwned
<1>5. CASE FlushSettle
  <2>1. /\ UNCHANGED <<records, row, rows, torn>> /\ flushing' = NoFlush
        /\ \A m \in Messages : entries'[m] = entries[m] \/ entries'[m] = Absent
    BY <1>5 DEF FlushSettle, disk
  <2>2. ui'.gen = ui.gen
    BY <1>5, FlushCalls
  <2>3. \/ job' = job
        \/ job' = NoJob /\ job.pc = "flush"
        \/ /\ job.kind = "truncate" /\ job.pc = "flush"
           /\ job' = [job EXCEPT !.pc = "cut"]
    <3>1. flushing.by = "job" => job.pc = "flush"
      OBVIOUS
    <3>2. \/ job' = job
          \/ flushing.by = "job" /\ job' = NoJob
          \/ flushing.by = "job" /\ job.kind = "truncate" /\ job' = [job EXCEPT !.pc = "cut"]
      BY <1>5, Zenon DEF FlushSettle, Answer
    <3> QED BY <3>1, <3>2
  <2>4. job.kind = "truncate" => [job EXCEPT !.pc = "cut"].pc = "cut"
    BY Typed DEF JobsOfCut
  <2>5. job'.pc = "erase" <=> job.pc = "erase"
    BY <2>3, <2>4, Idle
  <2>6. \A m \in Messages :
          /\ rows'[m] \in OwnFrom(m)
          /\ Attached' => entries'[m] \in OwnFrom(m)
          /\ Attached' /\ Flushing' => flushing'.entries[m] \in OwnFrom(m)
    BY <2>1, <2>2 DEF OwnFrom, Attached, Flushing
  <2> QED BY <2>1, <2>5, <2>6, StillOwned
<1>6. CASE EraseRows
  <2>1. job \in JobsOfCut /\ job.pc = "erase" /\ job.kind \in {"truncate", "clear"}
    BY <1>6, Typed DEF EraseRows
  <2>2. /\ job.keep = Len(records) /\ job.keep \in Nat /\ row.gen \in Nat
    BY <2>1, UiTyped DEF DataInv, JobSound, CutSound, JobsOfCut
  <2>3. /\ job'.pc = "erased" /\ UNCHANGED records /\ ~Attached'
        /\ \A m \in Messages : \/ rows'[m] = Absent
                               \/ ~Erased(m) /\ rows'[m] = rows[m]
        /\ torn' <=> torn /\ job.keep > 0
    <3>1. job' = [job EXCEPT !.pc = "erased"]
      BY <1>6 DEF EraseRows
    <3>2. row'.gen = row.gen + 1 /\ UNCHANGED <<ui, records>> /\ row.gen = ui.gen
      BY <1>6 DEF EraseRows, memory
    <3>3. \A m \in Messages : \/ rows'[m] = Absent
                              \/ ~Erased(m) /\ rows'[m] = rows[m]
      BY <1>6 DEF EraseRows
    <3>4. torn' <=> torn /\ job.keep > 0
      BY <1>6, Zenon DEF EraseRows
    <3> QED BY <2>1, <2>2, <3>1, <3>2, <3>3, <3>4 DEF JobsOfCut, Attached
  <2>4. ASSUME NEW m \in Messages, ~torn' PROVE OwnedHere(m, rows[m])'
    <3>1. CASE rows'[m] = Absent
      BY <2>2, <2>3, <3>1 DEF OwnedHere, Owned, Absent
    <3>2. CASE ~Erased(m) /\ rows'[m] = rows[m]
      <4>1. rows[m].last <= job.keep /\ job.keep > 0
        BY <2>2, <3>2, SnapshotsTyped DEF Erased, Snapshots
      <4>2. ~torn
        BY <2>3, <2>4, <4>1
      <4>3. OwnedHere(m, rows[m]) /\ rows[m].last \in Nat
        BY <4>2, SnapshotsTyped DEF BoundInv, Snapshots
      <4> QED BY <2>2, <2>3, <3>2, <4>1, <4>3 DEF OwnedHere, Owned
    <3> QED BY <2>3, <3>1, <3>2
  <2> QED BY <2>3, <2>4 DEF BoundInv
<1>7. CASE EraseMemory \/ Reload
  <2> SUFFICES ASSUME ~torn' PROVE BoundInv'
    BY DEF BoundInv
  <2>1. /\ ~torn /\ job.pc # "erase" /\ UNCHANGED <<records, rows>> /\ job' = NoJob
        /\ entries' = Nothing /\ flushing' = NoFlush
    <3>1. CASE EraseMemory
      BY <3>1 DEF EraseMemory, disk, StoreInv, FlushSound, Flushing
    <3>2. CASE Reload
      <4>1. torn' <=> torn \/ job.pc = "erase"
        BY <3>2, Zenon DEF Reload
      <4> QED BY <3>2, <4>1 DEF Reload, disk
    <3> QED BY <1>7, <3>1, <3>2
  <2>2. \A m \in Messages :
          /\ rows'[m] \in OwnFrom(m)
          /\ Attached' => entries'[m] \in OwnFrom(m)
          /\ Attached' /\ Flushing' => flushing'.entries[m] \in OwnFrom(m)
    BY <2>1, AbsentTyped DEF OwnFrom, Flushing
  <2> QED BY <2>1, <2>2, StillOwned, Idle
<1> QED BY <1>1, <1>2, <1>3, <1>4, <1>5, <1>6, <1>7, HistoryKinds

LEMMA OwnedHolds == BoundInv => RecordsAreOwned
BY DEF BoundInv, RecordsAreOwned, OwnedHere, Attached, Shown

-----------------------------------------------------------------------------
(* Subscriptions: what a client shows is what memory shows. *)

LEMMA ShownTyped ==
  ASSUME HistoryTypeOK, NEW m \in Messages
  PROVE  /\ Shown(m) \in Snapshots /\ Shown(m).rev \in Nat
         /\ \A v \in Viewers : /\ viewer[v].shown[m] \in Snapshots
                               /\ viewer[v].shown[m].rev \in Nat
                               /\ viewer[v].read[m] \in Snapshots
                               /\ viewer[v].read[m].rev \in Nat
<1>1. \A e \in Snapshots : e.rev \in Nat
  BY DEF Snapshots
<1>2. ASSUME NEW v \in Viewers
      PROVE  viewer[v].shown[m] \in Snapshots /\ viewer[v].read[m] \in Snapshots
  BY ViewerTyped DEF Subscriptions
<1> QED BY <1>1, <1>2, Typed

(* A step of the session shows a message as before, or at a new revision.  *)
LEMMA ViewsKept ==
  ASSUME HistoryTypeOK, HistoryTypeOK', StoreInv, ViewInv, UNCHANGED viewer,
         Attached' =>
           \/ ui.gen < ui'.gen
           \/ /\ Attached /\ ui'.gen = ui.gen
              /\ \A m \in Messages : \/ Shown(m)' = Shown(m)
                                     \/ Present(Shown(m))' /\ ui.rev < Shown(m)'.rev
              /\ \/ ui.committed < ui'.committed
                 \/ /\ ui'.committed = ui.committed
                    /\ \A m \in Messages : \/ rows'[m] = rows[m]
                                           \/ ui.committed < rows'[m].rev
  PROVE  ViewInv'
<1> SUFFICES ASSUME NEW v \in Viewers, Attached', viewer[v].gen = ui'.gen
             PROVE  ReadSound(v)' /\ ShownSound(v)'
  BY DEF ViewInv, ReadSound, ShownSound
<1> DEFINE w == viewer[v]
<1>1. /\ w \in Subscriptions /\ w.gen \in Nat /\ w.rev \in Nat /\ w.mark \in Nat
      /\ ui.gen \in Nat /\ ui.rev \in Nat /\ ui.committed \in Nat
      /\ ui'.gen \in Nat /\ ui'.committed \in Nat
  BY UiTyped, ViewerTyped DEF HistoryTypeOK, UiStates
<1>2. w.gen <= ui.gen
  BY DEF StoreInv, Generations
<1>3. ui'.gen = ui.gen /\ Attached /\ w.gen = ui.gen
  BY <1>1, <1>2
<1>4. w.mark <= ui.committed /\ w.rev <= ui.rev
  BY <1>3 DEF StoreInv, Generations
<1>5. ReadSound(v) /\ ShownSound(v)
  BY DEF ViewInv
<1>6. ReadSound(v)'
  <2>1. CASE ui.committed < ui'.committed
    BY <1>1, <1>4, <2>1 DEF ReadSound
  <2>2. CASE /\ ui'.committed = ui.committed
             /\ \A m \in Messages : rows'[m] = rows[m] \/ ui.committed < rows'[m].rev
    <3> SUFFICES ASSUME w.mark = ui.committed PROVE ReadSound(v)'
      BY <2>2 DEF ReadSound
    <3>1. ASSUME NEW m \in Messages
          PROVE  \/ rows'[m].rev > ui.committed
                 \/ rows'[m] = rows[m] /\ ~(rows[m].rev > ui.committed)
      BY <1>1, <2>2, SnapshotsTyped
    <3> QED BY <1>3, <1>5, <2>2, <3>1 DEF ReadSound
  <2> QED BY <1>1, <1>3, <2>1, <2>2
<1>7. ShownSound(v)'
  <2> SUFFICES ASSUME w.pc \in {"open", "update", "updateRead"}, NEW m \in Messages
               PROVE  /\ Shown(m)'.rev <= w.rev => w.shown[m] = Shown(m)'
                      /\ Present(w.shown[m]) => Present(Shown(m))'
                      /\ w.shown[m].rev <= w.rev
    BY DEF ShownSound
  <2>1. /\ Shown(m).rev <= w.rev => w.shown[m] = Shown(m)
        /\ Present(w.shown[m]) => Present(Shown(m))
        /\ w.shown[m].rev <= w.rev
    BY <1>3, <1>5 DEF ShownSound
  <2>2. Shown(m)'.rev \in Nat
    <3>1. Shown(m)' \in Snapshots
      BY DEF Shown, HistoryTypeOK
    <3> QED BY <3>1 DEF Snapshots
  <2>3. CASE Shown(m)' = Shown(m)
    BY <2>1, <2>3 DEF Present
  <2>4. CASE Present(Shown(m))' /\ ui.rev < Shown(m)'.rev
    BY <1>1, <1>4, <2>1, <2>2, <2>4
  <2> QED BY <1>1, <1>3, <2>3, <2>4
<1> QED BY <1>6, <1>7

(* What a page and an update show is what memory shows.                    *)
LEMMA PageShows ==
  ASSUME StoreTypes, StoreInv, ViewInv, NEW v \in Viewers, ShowPage(v), Attached,
         NEW m \in Messages
  PROVE  (IF Present(entries[m]) THEN entries[m] ELSE viewer[v].read[m]) = Shown(m)
<1> USE DEF StoreTypes
<1> SUFFICES ASSUME ~Present(entries[m]) PROVE viewer[v].read[m] = rows[m]
  BY DEF Shown
<1>1. rows[m].rev \in Nat /\ ui.committed \in Nat /\ rows[m].rev <= ui.committed
  BY UiTyped, SnapshotsTyped DEF StoreInv, InStep
<1>2. /\ viewer[v].gen = ui.gen /\ viewer[v].mark = ui.committed /\ viewer[v].pc = "pageRead"
  BY DEF ShowPage, Unmoved
<1> QED BY <1>1, <1>2 DEF ViewInv, ReadSound

LEMMA UpdateShows ==
  ASSUME StoreTypes, StoreInv, ViewInv, NEW v \in Viewers, ShowUpdate(v), Attached,
         NEW m \in Messages
  PROVE  Merged(v, m) = Shown(m)
<1> USE DEF StoreTypes
<1> DEFINE w == viewer[v]
           s == w.shown[m]
           r == w.read[m]
<1>1. /\ entries[m].rev \in Nat /\ rows[m].rev \in Nat /\ s.rev \in Nat /\ r.rev \in Nat
      /\ w.rev \in Nat /\ w.mark \in Nat /\ ui.committed \in Nat
  BY UiTyped, SnapshotsTyped, ShownTyped, ViewerTyped
<1>2. w.gen = ui.gen /\ w.mark = ui.committed /\ w.pc = "updateRead"
  BY DEF ShowUpdate, Unmoved
<1>3. /\ w.mark <= w.rev => r = Absent
      /\ \/ rows[m].rev > ui.committed
         \/ r = IF rows[m].rev > w.rev THEN rows[m] ELSE Absent
  BY <1>2, AbsentTyped DEF ViewInv, ReadSound
<1>4. /\ Shown(m).rev <= w.rev => s = Shown(m)
      /\ s.rev <= w.rev
  BY <1>2 DEF ViewInv, ShownSound
<1>5. /\ Present(entries[m]) /\ Present(rows[m]) => rows[m].rev <= entries[m].rev
      /\ ~Present(entries[m]) => rows[m].rev <= ui.committed
  BY DEF StoreInv, InStep
<1>6. /\ Present(entries[m]) \/ entries[m].rev = 0
      /\ Present(rows[m]) \/ rows[m].rev = 0
  BY AbsentTyped
<1>7. Absent.rev = 0 /\ Shown(m) = IF Present(entries[m]) THEN entries[m] ELSE rows[m]
  BY AbsentTyped DEF Shown
<1>8. Merged(v, m) = LET b == IF entries[m].rev > w.rev THEN entries[m] ELSE r
                     IN  IF b.rev > s.rev THEN b ELSE s
  BY DEF Merged, Batch
<1> HIDE DEF w, s, r
<1>9. CASE entries[m].rev > w.rev
  <2>1. Present(entries[m])
    BY <1>1, <1>6, <1>9
  <2> QED BY <1>1, <1>4, <1>7, <1>8, <1>9, <2>1
<1>10. CASE ~(entries[m].rev > w.rev) /\ Present(entries[m])
  <2>1. rows[m].rev <= w.rev
    BY <1>1, <1>5, <1>6, <1>10
  <2>2. r = Absent
    BY <1>1, <1>2, <1>3, <2>1
  <2>3. s = entries[m]
    BY <1>1, <1>4, <1>7, <1>10
  <2> QED BY <1>1, <1>7, <1>8, <1>10, <2>2, <2>3
<1>11. CASE ~(entries[m].rev > w.rev) /\ ~Present(entries[m])
  <2>1. r = IF rows[m].rev > w.rev THEN rows[m] ELSE Absent
    BY <1>1, <1>3, <1>5, <1>11
  <2>2. CASE rows[m].rev > w.rev
    BY <1>1, <1>4, <1>7, <1>8, <1>11, <2>1, <2>2
  <2>3. CASE ~(rows[m].rev > w.rev)
    <3>1. r = Absent /\ s = rows[m]
      BY <1>1, <1>4, <1>7, <1>11, <2>1, <2>3
    <3> QED BY <1>1, <1>7, <1>8, <1>11, <3>1
  <2> QED BY <2>2, <2>3
<1> QED BY <1>9, <1>10, <1>11

LEMMA ViewMoves ==
  ASSUME StoreTypes, HistoryTypeOK', StoreInv, ViewInv, NEW v \in Viewers, Views(v)
  PROVE  ViewInv'
<1> USE DEF StoreTypes
<1>1. UNCHANGED <<row, rows, ui, entries>>
  BY ViewSteps DEF disk, memory
<1>2. PICK y : viewer' = [viewer EXCEPT ![v] = y]
  BY ViewSteps
<1>3. \A x \in Viewers \ {v} : viewer'[x] = viewer[x]
  BY <1>2 DEF HistoryTypeOK
<1>4. ASSUME NEW x \in Viewers \ {v} PROVE ReadSound(x)' /\ ShownSound(x)'
  BY <1>1, <1>3 DEF ViewInv, ReadSound, ShownSound, Attached, Shown
<1> SUFFICES ReadSound(v)' /\ ShownSound(v)'
  BY <1>4 DEF ViewInv
<1> DEFINE w == viewer[v]
           x == viewer'[v]
<1>5. /\ w.rev \in Nat /\ w.mark \in Nat /\ w.gen \in Nat /\ ui.committed \in Nat
      /\ ui.rev \in Nat /\ ui.gen \in Nat
  BY ViewerTyped, UiTyped
<1>6. ReadSound(v) /\ ShownSound(v)
  BY DEF ViewInv
<1>7. ASSUME x = Page \/ x = Closed PROVE ReadSound(v)' /\ ShownSound(v)'
  BY <1>7, ClosedFields DEF ReadSound, ShownSound
<1>8. ASSUME x.pc = "pageRead", x.read = rows PROVE ReadSound(v)' /\ ShownSound(v)'
  BY <1>1, <1>8 DEF ReadSound, ShownSound
<1>9. ASSUME x.pc = "update", x.gen = w.gen, x.rev = w.rev, x.shown = w.shown,
             w.pc \in {"open", "updateRead"}
      PROVE  ReadSound(v)' /\ ShownSound(v)'
  BY <1>1, <1>6, <1>9 DEF ReadSound, ShownSound, Attached, Shown
<1>10. ASSUME x.pc = "updateRead", x.gen = w.gen, x.rev = w.rev, x.mark = w.mark,
              x.shown = w.shown, w.pc = "update",
              x.read = [m \in Messages |-> IF w.mark > w.rev /\ rows[m].rev > w.rev
                                           THEN rows[m] ELSE Absent]
       PROVE  ReadSound(v)' /\ ShownSound(v)'
  <2>1. ShownSound(v)'
    BY <1>1, <1>6, <1>10 DEF ShownSound, Attached, Shown
  <2>2. w.mark <= w.rev => x.read = Nothing
    <3> SUFFICES ASSUME w.mark <= w.rev PROVE x.read = Nothing
      OBVIOUS
    <3>1. ~(w.mark > w.rev)
      BY <1>5
    <3> QED BY <1>10, <3>1 DEF Nothing
  <2>3. ASSUME NEW m \in Messages, w.mark = ui.committed
        PROVE  \/ rows[m].rev > ui.committed
               \/ x.read[m] = (IF rows[m].rev > w.rev THEN rows[m] ELSE Absent)
    <3>1. rows[m].rev \in Nat
      BY SnapshotsTyped
    <3>2. x.read[m] = IF w.mark > w.rev /\ rows[m].rev > w.rev THEN rows[m] ELSE Absent
      BY <1>10
    <3> HIDE DEF x, w
    <3> QED BY <1>5, <2>3, <3>1, <3>2
  <2>4. ReadSound(v)'
    BY <1>1, <1>10, <2>2, <2>3 DEF ReadSound
  <2> QED BY <2>1, <2>4
<1>11. ASSUME x.pc = "open", x.gen = ui.gen, x.rev = ui.rev,
              Attached => \A m \in Messages : x.shown[m] = Shown(m)
       PROVE  ReadSound(v)' /\ ShownSound(v)'
  <2>1. ReadSound(v)'
    BY <1>11 DEF ReadSound
  <2> SUFFICES ASSUME Attached, NEW m \in Messages
               PROVE  /\ x.shown[m] = Shown(m) /\ Shown(m)' = Shown(m)
                      /\ Shown(m).rev <= ui.rev
    BY <1>1, <1>11, <2>1 DEF ShownSound, Attached
  <2>2. Shown(m).rev <= ui.rev
    BY DEF Shown, StoreInv, Counted
  <2> QED BY <1>1, <1>11, <2>2 DEF Shown
<1>12. CASE ShowPage(v)
  <2>1. /\ x.pc = "open" /\ x.gen = ui.gen /\ x.rev = ui.rev
        /\ \A m \in Messages : x.shown[m] = IF Present(entries[m]) THEN entries[m]
                                            ELSE w.read[m]
    <3> DEFINE t == [m \in Messages |-> IF Present(entries[m]) THEN entries[m] ELSE w.read[m]]
    <3>1. x = [Closed EXCEPT !.pc = "open", !.gen = ui.gen, !.rev = ui.rev, !.shown = t]
      BY <1>12 DEF ShowPage, GotoView, HistoryTypeOK
    <3>2. \A m \in Messages : t[m] = IF Present(entries[m]) THEN entries[m] ELSE w.read[m]
      OBVIOUS
    <3> HIDE DEF x, w, t
    <3> QED BY <3>1, <3>2 DEF Closed
  <2>2. Attached => \A m \in Messages : x.shown[m] = Shown(m)
    BY <1>12, <2>1, PageShows
  <2> QED BY <1>11, <2>1, <2>2
<1>13. CASE ShowUpdate(v)
  <2>1. /\ x.pc = "open" /\ x.gen = w.gen /\ x.rev = ui.rev
        /\ \A m \in Messages : x.shown[m] = Merged(v, m)
    <3> DEFINE t == [m \in Messages |-> Merged(v, m)]
    <3>1. x = [w EXCEPT !.pc = "open", !.rev = ui.rev, !.mark = 0, !.read = Nothing, !.shown = t]
      BY <1>13 DEF ShowUpdate, GotoView, HistoryTypeOK
    <3>2. (\A m \in Messages : t[m] = Merged(v, m)) /\ w \in Subscriptions
      BY ViewerTyped
    <3> HIDE DEF x, w, t
    <3> QED BY <3>1, <3>2 DEF Subscriptions
  <2>2. Attached => \A m \in Messages : x.shown[m] = Shown(m)
    BY <1>13, <2>1, UpdateShows
  <2>3. w.gen = ui.gen
    BY <1>13 DEF ShowUpdate, Unmoved
  <2> QED BY <1>11, <2>1, <2>2, <2>3
<1>14. \/ x = Page \/ x = Closed
       \/ x.pc = "pageRead" /\ x.read = rows
       \/ ShowPage(v) \/ ShowUpdate(v)
       \/ /\ x.pc = "update" /\ x.gen = w.gen /\ x.rev = w.rev /\ x.shown = w.shown
          /\ w.pc \in {"open", "updateRead"}
       \/ /\ ReadUpdate(v)
          /\ x.pc = "updateRead" /\ x.gen = w.gen /\ x.rev = w.rev /\ x.mark = w.mark
          /\ x.shown = w.shown
          /\ x.read = [m \in Messages |-> IF w.mark > w.rev /\ rows[m].rev > w.rev
                                          THEN rows[m] ELSE Absent]
  BY ViewFields
<1>15. ReadUpdate(v) => w.pc = "update"
  BY DEF ReadUpdate
<1> HIDE DEF w, x
<1> QED BY <1>7, <1>8, <1>9, <1>10, <1>12, <1>13, <1>14, <1>15

(* What memory lets go of is stored as it was.                             *)
LEMMA SettleShows ==
  ASSUME StoreTypes, StoreInv, FlushSettle, NEW m \in Messages
  PROVE  Shown(m)' = Shown(m)
<1> USE DEF StoreTypes
<1>1. /\ Flushing /\ Attached /\ row.rev = flushing.rev /\ flushing.rev \in Nat
  BY Typed, FlushTyped DEF FlushSettle, Flushing, StoreInv, FlushSound
<1>2. UNCHANGED rows /\ entries'[m] = IF Kept(m) THEN entries[m] ELSE Absent
  BY DEF FlushSettle, disk
<1>3. ASSUME ~Kept(m), Present(entries[m]) PROVE rows[m] = entries[m]
  <2>1. entries[m].rev <= row.rev
    BY <1>1, <1>3, SnapshotsTyped DEF Kept
  <2> QED BY <1>1, <1>3, <2>1 DEF StoreInv, InStep
<1> QED BY <1>2, <1>3, AbsentTyped DEF Shown

LEMMA CheckShows ==
  ASSUME StoreTypes, StoreInv, Attached, NEW r \in Runs, CheckRun(r), NEW m \in Messages
  PROVE  Shown(m)' = Shown(m)
<1> USE DEF StoreTypes
<1>1. /\ UNCHANGED rows
      /\ entries'[m] = IF RunOf[m] = r /\ entries[m].rev <= ui.committed
                       THEN Absent ELSE entries[m]
  BY DEF CheckRun, disk
<1>2. entries[m].rev <= ui.committed => entries[m].rev <= row.rev
  BY UiTyped, SnapshotsTyped DEF StoreInv, Counted
<1>3. Present(entries[m]) /\ entries[m].rev <= ui.committed => rows[m] = entries[m]
  BY <1>2 DEF StoreInv, InStep
<1> QED BY <1>1, <1>3, AbsentTyped DEF Shown

LEMMA WriteShows ==
  ASSUME StoreTypes, StoreInv, FlushWrite, NEW m \in Messages
  PROVE  /\ Shown(m)' = Shown(m)
         /\ rows'[m] = rows[m] \/ ui.committed < rows'[m].rev
<1> USE DEF StoreTypes
<1>1. Flushing /\ UNCHANGED entries
  BY Typed DEF FlushWrite, Flushing, memory
<1>2. rows'[m] = IF Present(flushing.entries[m]) THEN flushing.entries[m] ELSE rows[m]
  BY DEF FlushWrite
<1>3. Present(flushing.entries[m]) =>
        ui.committed < flushing.entries[m].rev /\ Present(entries[m])
  BY <1>1 DEF StoreInv, FlushSound
<1> QED BY <1>1, <1>2, <1>3 DEF Shown

LEMMA ViewStep ==
  ASSUME HistoryTypes, StoreInv, DataInv, ViewInv, [NextHistory]_historyVars
  PROVE  ViewInv'
<1>0. HistoryTypeOK /\ HistoryTypeOK' /\ StoreTypes
  BY TypesStep, StoreTypesHold DEF HistoryTypes
<1>1. ASSUME NEW v \in Viewers, Views(v) PROVE ViewInv'
  BY <1>0, <1>1, ViewMoves
<1>2. ASSUME UNCHANGED <<row, rows, entries, viewer>>, ui'.gen = ui.gen,
             ui'.committed = ui.committed
      PROVE  ViewInv'
  <2>1. \A m \in Messages : Shown(m)' = Shown(m)
    BY <1>2 DEF Shown
  <2> QED BY <1>0, <1>2, <2>1, ViewsKept DEF Attached
<1>3. CASE QuietSteps \/ UNCHANGED historyVars
  <2>1. /\ UNCHANGED <<row, rows, entries, viewer>> /\ ui'.gen = ui.gen
        /\ ui'.committed = ui.committed
    BY <1>3, QuietStepsAreQuiet DEF Quiet, Others, Ticks, historyVars, disk, memory, actors
  <2> QED BY <1>2, <2>1
<1>4. ASSUME NEW m \in Messages, Edited(m) \/ Recalled(m), Others PROVE ViewInv'
  <2>1. /\ UNCHANGED <<row, rows, viewer>> /\ ui'.gen = ui.gen
        /\ ui'.committed = ui.committed
        /\ \A n \in Messages \ {m} : entries'[n] = entries[n]
    BY <1>4 DEF Edited, Recalled, Others
  <2>2. \/ Shown(m)' = Shown(m)
        \/ Present(Shown(m))' /\ ui.rev < Shown(m)'.rev
    BY <1>0, <1>4, UiTyped DEF Edited, Recalled, Shown
  <2>3. \A n \in Messages \ {m} : Shown(n)' = Shown(n)
    BY <2>1 DEF Shown
  <2> QED BY <1>0, <2>1, <2>2, <2>3, ViewsKept DEF Attached
<1>5. CASE \/ \E m \in Messages : Copy(m)
           \/ \E m \in Messages : \E v \in 1 .. Last[m] : Stage(m, v)
           \/ Bind \/ Replace
  BY <1>0, <1>4, <1>5, CopyEdits, StageEdits, BindEdits, ReplaceEdits
<1>6. CASE \/ \E by \in Flushers : FlushTake(by)
           \/ \E r \in Runs : BeginRun(r)
  BY <1>2, <1>6 DEF FlushTake, BeginRun, disk, memory
<1>7. CASE FlushWrite
  <2>1. Flushing /\ UNCHANGED <<ui, viewer>> /\ row'.gen = row.gen
    BY <1>0, <1>7, Typed DEF FlushWrite, RowMatches, Flushing, memory
  <2>2. \A m \in Messages : /\ Shown(m)' = Shown(m)
                            /\ rows'[m] = rows[m] \/ ui.committed < rows'[m].rev
    BY <1>0, <1>7, WriteShows
  <2> QED BY <1>0, <2>1, <2>2, ViewsKept DEF Attached
<1>8. CASE FlushSettle
  <2>1. \A m \in Messages : Shown(m)' = Shown(m)
    BY <1>0, <1>8, SettleShows
  <2>2. /\ UNCHANGED <<row, rows, viewer>> /\ ui'.gen = ui.gen
        /\ ui.committed < ui'.committed
    <3>1. Flushing /\ flushing.rev \in Nat /\ ui.committed < flushing.rev
      BY <1>0, <1>8, Typed, FlushTyped DEF FlushSettle, Flushing, StoreInv, FlushSound
    <3>2. ui'.gen = ui.gen /\ UNCHANGED <<row, rows, viewer>>
      BY <1>8, FlushCalls DEF FlushSettle, disk
    <3>3. ui'.committed = flushing.rev
      <4> DEFINE u == [ui EXCEPT !.committed = flushing.rev]
                 ok == ~ui.failed
      <4>1. flushing.by \in Flushers
        BY <1>0, <3>1, FlushTyped DEF FlushesTaken, Flushers
      <4>2. u \in UiStates /\ u.committed = flushing.rev
        BY <1>0, <3>1 DEF HistoryTypeOK, UiStates
      <4>3. ok \in BOOLEAN
        BY Zenon
      <4>4. Answer(flushing.by, ok, u)
        BY <1>8 DEF FlushSettle
      <4> HIDE DEF u, ok
      <4>5. Ticks(u, ui')
        BY <1>0, <4>1, <4>2, <4>3, <4>4, AnswerFacts
      <4> QED BY <4>2, <4>5 DEF Ticks
    <3> QED BY <3>1, <3>2, <3>3
  <2> QED BY <1>0, <2>1, <2>2, ViewsKept DEF Attached
<1>9. ASSUME NEW r \in Runs, CheckRun(r) PROVE ViewInv'
  <2>1. UNCHANGED <<row, rows, ui, viewer>>
    BY <1>9 DEF CheckRun, disk
  <2>2. Attached => \A m \in Messages : Shown(m)' = Shown(m)
    BY <1>0, <1>9, CheckShows
  <2> QED BY <1>0, <2>1, <2>2, ViewsKept DEF Attached
<1>10. CASE EraseRows
  <2>1. UNCHANGED <<viewer, ui>> /\ row'.gen = row.gen + 1 /\ row.gen = ui.gen
    BY <1>10 DEF EraseRows, memory
  <2>2. ~Attached'
    BY <1>0, <2>1, UiTyped DEF Attached
  <2> QED BY <1>0, <2>1, <2>2, ViewsKept
<1>11. CASE EraseMemory
  <2>1. UNCHANGED viewer /\ ui'.gen = row.gen /\ ui.gen < row.gen
    BY <1>11 DEF EraseMemory, Loaded, StoreInv, Generations
  <2> QED BY <1>0, <2>1, ViewsKept
<1>12. CASE Reload
  <2>1. \A v \in Viewers : viewer'[v] = Closed
    BY <1>12 DEF Reload
  <2> QED BY <2>1, ClosedFields DEF ViewInv, ReadSound, ShownSound
<1> QED BY <1>1, <1>3, <1>5, <1>6, <1>7, <1>8, <1>9, <1>10, <1>11, <1>12, HistoryKinds

LEMMA CurrentHolds == ViewInv => SubscriberIsCurrent
BY DEF ViewInv, ShownSound, SubscriberIsCurrent, Attached

-----------------------------------------------------------------------------
(* Runs that end: what they streamed is on its way to the database. *)

LEMMA StoredKept ==
  ASSUME HistoryTypeOK, NEW m \in Messages, Stored(m),
         copied'[m] = copied[m], sent'[m] = sent[m], row'.gen = row.gen, rows'[m] = rows[m],
         Attached' => Attached,
         entries'[m] = entries[m] \/ entries'[m] = Absent,
         flushing' = flushing \/ flushing' = NoFlush,
         \/ uiRun'[RunOf[m]] = uiRun[RunOf[m]]
         \/ uiRun'[RunOf[m]].pc \notin {"flush", "check", "finished"}
         \/ uiRun'[RunOf[m]].pc = "flush" /\ ~(Flushing' /\ flushing'.by = RunOf[m])
  PROVE  Stored(m)'
<1>1. RunOf[m] \in Runs /\ ~Absent.committed /\ ~Present(Absent)
  BY HistoryAssumption DEF Absent, Present
<1>2. Flushing' => Flushing /\ flushing' = flushing
  BY DEF Flushing
<1>3. CASE uiRun'[RunOf[m]].pc \notin {"flush", "check", "finished"}
  BY <1>3 DEF Stored, Ending
<1>4. CASE uiRun'[RunOf[m]].pc = "flush" /\ ~(Flushing' /\ flushing'.by = RunOf[m])
  BY <1>4 DEF Stored, Ending
<1>5. CASE uiRun'[RunOf[m]] = uiRun[RunOf[m]]
  BY <1>1, <1>2, <1>5 DEF Stored, Ending, Good, Active
<1> QED BY <1>3, <1>4, <1>5

(* The runner of a message is not done with it, or never had it.           *)
LEMMA StoredOpen ==
  ASSUME NEW m \in Messages,
         ~Streamed(m) \/ uiRun'[RunOf[m]].pc \notin {"flush", "check", "finished"}
  PROVE  Stored(m)'
BY DEF Stored, Ending, Streamed

(* The quiet steps leave what is stored of a run alone, but for a flush    *)
(* that finds everything stored.                                           *)
LEMMA QuietStored ==
  ASSUME HistoryTypes, StoreInv, DataInv, StoredInv, QuietSteps,
         ~ \E by \in Flushers : FlushNothing(by)
  PROVE  StoredInv'
<1> USE DEF HistoryTypes
<1>1. /\ UNCHANGED <<row, rows, entries>> /\ ui'.gen = ui.gen
      /\ flushing' = flushing \/ flushing' = NoFlush
  BY QuietStepsAreQuiet DEF Quiet, Ticks
<1>2. Attached' <=> Attached
  BY <1>1 DEF Attached
<1>3. ASSUME NEW m \in Messages, copied'[m] = copied[m], sent'[m] = sent[m],
             \/ uiRun'[RunOf[m]] = uiRun[RunOf[m]]
             \/ uiRun'[RunOf[m]].pc \notin {"flush", "check", "finished"}
             \/ uiRun'[RunOf[m]].pc = "flush" /\ ~(Flushing' /\ flushing'.by = RunOf[m])
      PROVE  Stored(m)'
  BY <1>1, <1>2, <1>3, StoredKept DEF StoredInv
<1>4. \A m \in Messages : RunOf[m] \in Runs
  BY HistoryAssumption
<1>5. CASE UNCHANGED <<copied, sent, uiRun>>
  BY <1>3, <1>5 DEF StoredInv
<1>6. ASSUME NEW n \in Messages,
             CopyRefused(n) \/ \E v \in 1 .. Last[n] : StageRefused(n, v)
      PROVE  StoredInv'
  <2>1. /\ UNCHANGED uiRun /\ \A m \in Messages \ {n} : copied'[m] = copied[m] /\ sent'[m] = sent[m]
        /\ uiRun[RunOf[n]].pc = "open"
    BY <1>6 DEF CopyRefused, NextCopy, StageRefused, Appendable, Streamed, HistoryTypeOK
  <2> QED BY <1>3, <2>1, StoredOpen DEF StoredInv
<1>7. CASE FlushFails
  <2>1. UNCHANGED <<copied, sent>> /\ Answer(flushing.by, FALSE, ui)
    BY <1>7 DEF FlushFails
  <2>2. \A r \in Runs : uiRun'[r] = uiRun[r] \/ uiRun'[r].pc = "failed"
    BY <2>1 DEF Answer, HistoryTypeOK, RunStates
  <2> QED BY <1>3, <1>4, <2>1, <2>2 DEF StoredInv
<1>8. ASSUME NEW r \in Runs, EndRun(r) PROVE StoredInv'
  <2>1. /\ UNCHANGED <<copied, sent, flushing>> /\ uiRun[r].pc = "open"
        /\ uiRun' = [uiRun EXCEPT ![r].pc = "flush"]
    BY <1>8 DEF EndRun
  <2>2. flushing.by # r
    BY <2>1
  <2>3. \A q \in Runs : uiRun'[q] = uiRun[q] \/ (q = r /\ uiRun'[q].pc = "flush")
    BY <2>1 DEF HistoryTypeOK, RunStates
  <2> QED BY <1>3, <1>4, <2>1, <2>2, <2>3 DEF StoredInv
<1>9. ASSUME NEW r \in Runs, CheckRefuses(r) \/ DropRun(r) PROVE StoredInv'
  <2>1. UNCHANGED <<copied, sent>>
    BY <1>9 DEF CheckRefuses, DropRun
  <2>2. PICK p \in {"last", "dropped"} : uiRun' = [uiRun EXCEPT ![r].pc = p]
    BY <1>9, Zenon DEF CheckRefuses, DropRun
  <2>3. \A q \in Runs : \/ uiRun'[q] = uiRun[q]
                        \/ uiRun'[q].pc \notin {"flush", "check", "finished"}
    BY <2>2 DEF HistoryTypeOK, RunStates
  <2> QED BY <1>3, <1>4, <2>1, <2>3 DEF StoredInv
<1>10. \/ UNCHANGED <<copied, sent, uiRun>>
       \/ \E n \in Messages : CopyRefused(n) \/ \E v \in 1 .. Last[n] : StageRefused(n, v)
       \/ FlushFails
       \/ \E r \in Runs : EndRun(r) \/ CheckRefuses(r) \/ DropRun(r)
  BY DEF QuietSteps, BeginUpdate, WriteRecord, WriteFails, BindFails,
     Rewrite, RewriteFails, ReplaceFails, BeginTruncate, BeginClear, Cut, CutFails, EraseFails,
     PruneFails, DropJob
<1> QED BY <1>5, <1>6, <1>7, <1>8, <1>9, <1>10

(* A message of a run that streams no more is not copied or appended; its  *)
(* record may be updated, which leaves it confirmed.                       *)
LEMMA WritersStored ==
  ASSUME HistoryTypes, StoreInv, DataInv, StoredInv,
         \/ \E m \in Messages : Copy(m)
         \/ \E m \in Messages : \E v \in 1 .. Last[m] : Stage(m, v)
         \/ Bind \/ Replace
  PROVE  StoredInv'
<1> USE DEF HistoryTypes
<1>1. /\ UNCHANGED <<row, rows, flushing, uiRun>> /\ ui'.gen = ui.gen
  <2>1. ui'.gen = ui.gen
    BY CopyEdits, StageEdits, BindEdits, ReplaceEdits, StoreTypesHold DEF Edited, Recalled
  <2> QED BY <2>1 DEF Copy, Stage, Bind, Replace, disk
<1>2. Attached' <=> Attached
  BY <1>1 DEF Attached
<1>3. ASSUME NEW m \in Messages,
             \A n \in Messages \ {m} : /\ entries'[n] = entries[n]
                                       /\ copied'[n] = copied[n] /\ sent'[n] = sent[n],
             Stored(m)'
      PROVE  StoredInv'
  <2> SUFFICES ASSUME NEW n \in Messages \ {m} PROVE Stored(n)'
    BY <1>3 DEF StoredInv
  <2> QED BY <1>1, <1>2, <1>3, StoredKept DEF StoredInv
<1>4. ASSUME NEW m \in Messages, Copy(m) PROVE StoredInv'
  <2>1. uiRun[RunOf[m]].pc = "open" /\ UNCHANGED sent
        /\ entries' = [entries EXCEPT ![m] = Projected(@, copied[m] + 1)]
        /\ copied' = [copied EXCEPT ![m] = @ + 1]
    BY <1>4 DEF Copy, NextCopy
  <2> QED BY <1>1, <1>3, <2>1, StoredOpen DEF HistoryTypeOK
<1>5. ASSUME NEW m \in Messages, NEW v \in 1 .. Last[m], Stage(m, v) PROVE StoredInv'
  <2>1. /\ ~Streamed(m) \/ uiRun[RunOf[m]].pc = "open"
        /\ UNCHANGED copied /\ sent' = [sent EXCEPT ![m] = v]
    BY <1>5 DEF Stage, Appendable, Streamed
  <2>2. \A n \in Messages \ {m} : entries'[n] = entries[n]
    BY <1>5 DEF Stage, HistoryTypeOK
  <2> QED BY <1>1, <1>3, <2>1, <2>2, StoredOpen DEF HistoryTypeOK
<1>6. ASSUME NEW m \in Messages, m = job.msg, Bind PROVE StoredInv'
  <2>1. job.kind = "append" /\ UNCHANGED <<copied, sent>>
        /\ entries' = [entries EXCEPT ![m] = Bound(@)]
    BY <1>6 DEF Bind
  <2>2. ~Streamed(m) \/ uiRun[RunOf[m]].pc \in {"open", "dropped"}
    BY <1>6, <2>1 DEF DataInv, JobSound, AppendSound
  <2> QED BY <1>1, <1>3, <2>1, <2>2, StoredOpen DEF HistoryTypeOK
<1>7. ASSUME NEW m \in Messages, m = job.msg, Replace PROVE StoredInv'
  <2> DEFINE e == Shown(m)
             p == [e EXCEPT !.ver = job.ver, !.rev = ui.rev + 1]
  <2>1. UNCHANGED <<copied, sent>> /\ entries' = [entries EXCEPT ![m] = p]
    BY <1>7 DEF Replace
  <2>2. /\ job \in JobsOfUpdate /\ Kind[m] \in {"user", "segment"} /\ e.ver = job.was
        /\ job.ver > job.was /\ ~Active(m, [Absent EXCEPT !.ver = job.was])
        /\ job.was \in Nat /\ job.ver \in Nat
    <3>1. job \in JobsOfUpdate
      BY <1>7, Typed DEF Replace
    <3> QED BY <1>7, <3>1 DEF Replace, Replaceable, DataInv, JobSound, UpdateSound, JobsOfUpdate
  <2>3. e \in Snapshots /\ p.ver = job.ver
    BY Typed DEF Snapshots
  <2>4. p.committed = e.committed
    BY <2>3 DEF Snapshots
  <2> SUFFICES ASSUME Streamed(m), copied[m] + sent[m] > 0 PROVE Stored(m)'
    BY <1>3, <2>1 DEF HistoryTypeOK, Stored
  <2>5. Kind[m] = "segment" /\ copied[m] < Last[m] /\ Last[m] \in Nat /\ copied[m] \in Nat
    BY <2>2, HistoryAssumption DEF Streamed, DataInv, RunsSound, RunSound, HistoryTypeOK
  <2>6. job.was >= Last[m] - 1
    BY <2>2, <2>5 DEF Active, Absent
  <2>7. Good(m, p) <=> e.committed
    <3> HIDE DEF p, e
    <3> QED BY <2>2, <2>3, <2>4, <2>5, <2>6 DEF Good, Active
  <2>8. Good(m, e) <=> e.committed
    <3> HIDE DEF p, e
    <3> QED BY <2>2, <2>5, <2>6 DEF Good, Active
  <2>9. entries'[m] = p /\ copied'[m] = copied[m] /\ sent'[m] = sent[m]
    BY <2>1 DEF HistoryTypeOK
  <2>10. Good(m, entries[m])' <=> Good(m, e)
    <3> HIDE DEF p, e
    <3> QED BY <2>7, <2>8, <2>9 DEF Good
  <2>11. Attached /\ Flushing /\ Present(flushing.entries[m]) => e = entries[m]
    BY DEF StoreInv, FlushSound, Shown
  <2>12. e = (IF Present(entries[m]) THEN entries[m] ELSE rows[m])
    BY DEF Shown
  <2>13. Present(rows[m]) \/ ~rows[m].committed
    BY DEF DataInv, SnapshotsSound, Sound, Absent
  <2>14. /\ Good(m, rows[m])' <=> Good(m, rows[m])
         /\ Good(m, flushing.entries[m])' <=> Good(m, flushing.entries[m])
    BY <1>1, <2>9 DEF Good
  <2> HIDE DEF e, p
  <2>15. /\ Good(m, entries[m])' /\ Attached /\ Ending(RunOf[m]) =>
              /\ Flushing /\ Present(flushing.entries[m]) => Good(m, flushing.entries[m])
              /\ uiRun[RunOf[m]].pc = "check" \/ ~Present(flushing.entries[m]) => Good(m, rows[m])
    BY <2>10, <2>11, <2>12 DEF Stored, StoredInv
  <2>16. uiRun[RunOf[m]].pc = "finished" /\ uiRun[RunOf[m]].gen = row.gen =>
           /\ Good(m, rows[m])
           /\ Attached => /\ Good(m, entries[m])'
                          /\ Flushing /\ Present(flushing.entries[m]) => Good(m, flushing.entries[m])
    BY <2>10, <2>12 DEF Stored, StoredInv
  <2> QED BY <1>1, <1>2, <2>14, <2>15, <2>16 DEF Stored, Ending, Flushing
<1>8. Bind \/ Replace => job.msg \in Messages
  BY BindEdits, ReplaceEdits, StoreTypesHold
<1> QED BY <1>4, <1>5, <1>6, <1>7, <1>8

(* What is in memory and not newer than the row is the row.                *)
LEMMA StoredAsShown ==
  ASSUME StoreTypes, StoreInv, Attached, NEW m \in Messages, Present(entries[m]),
         entries[m].rev <= ui.committed
  PROVE  rows[m] = entries[m]
<1> USE DEF StoreTypes
<1>1. entries[m].rev <= row.rev
  BY UiTyped, SnapshotsTyped DEF StoreInv, Counted
<1> QED BY <1>1 DEF StoreInv, InStep

LEMMA GoodPresent ==
  ASSUME DataInv, NEW m \in Messages
  PROVE  /\ Good(m, entries[m]) => Present(entries[m])
         /\ Good(m, rows[m]) => Present(rows[m])
BY DEF DataInv, SnapshotsSound, Sound, Good, Absent

(* A flush with nothing to store ends well for a run whose messages are    *)
(* all in the row.                                                         *)
LEMMA NothingStored ==
  ASSUME HistoryTypes, StoreInv, DataInv, StoredInv, NEW by \in Flushers, FlushNothing(by)
  PROVE  StoredInv'
<1> USE DEF HistoryTypes
<1>0. StoreTypes
  BY StoreTypesHold
<1>1. /\ UNCHANGED <<row, rows, entries, flushing, copied, sent>> /\ ~Flushing
      /\ ui.rev = ui.committed
  BY DEF FlushNothing, FlushFree, Flushing, disk
<1>2. ui'.gen = ui.gen /\ uiRun' \in [Runs -> RunStates]
  BY FlushCalls
<1>3. Attached' <=> Attached
  BY <1>1, <1>2 DEF Attached
<1>4. \A r \in Runs : \/ uiRun'[r] = uiRun[r]
                      \/ uiRun'[r].pc \in {"check", "failed"}
  BY FlushCalls
<1> SUFFICES ASSUME NEW m \in Messages PROVE Stored(m)'
  BY DEF StoredInv
<1>5. RunOf[m] \in Runs
  BY HistoryAssumption
<1>6. CASE uiRun'[RunOf[m]] = uiRun[RunOf[m]] \/ uiRun'[RunOf[m]].pc = "failed"
  BY <1>1, <1>3, <1>6, StoredKept DEF StoredInv
<1>7. CASE uiRun'[RunOf[m]].pc = "check"
  <2>1. ASSUME Attached, Good(m, entries[m]) PROVE Good(m, rows[m])
    <3>1. Present(entries[m])
      BY <2>1, GoodPresent
    <3>2. entries[m].rev <= ui.committed
      BY <1>1 DEF StoreInv, Counted
    <3> QED BY <1>0, <2>1, <3>1, <3>2, StoredAsShown
  <2> QED BY <1>1, <1>3, <1>7, <2>1 DEF Stored, Good, Flushing
<1> QED BY <1>4, <1>5, <1>6, <1>7

LEMMA TakenStored ==
  ASSUME HistoryTypes, StoreInv, DataInv, StoredInv, NEW by \in Flushers, FlushTake(by)
  PROVE  StoredInv'
<1> USE DEF HistoryTypes
<1>0. StoreTypes
  BY StoreTypesHold
<1>1. /\ UNCHANGED <<row, rows, ui, entries, copied, sent, uiRun>>
      /\ flushing'.by = by
      /\ \A m \in Messages : flushing'.entries[m] =
           IF entries[m].rev > ui.committed THEN entries[m] ELSE Absent
  BY DEF FlushTake, disk, memory
<1>2. Attached' <=> Attached
  BY <1>1 DEF Attached
<1> SUFFICES ASSUME NEW m \in Messages PROVE Stored(m)'
  BY DEF StoredInv
<1>3. /\ Good(m, entries[m])' <=> Good(m, entries[m])
      /\ Good(m, rows[m])' <=> Good(m, rows[m])
  BY <1>1 DEF Good
<1>4. ASSUME Present(flushing'.entries[m])
      PROVE  flushing'.entries[m] = entries[m] /\ Present(entries[m])
  BY <1>1, <1>4, AbsentTyped
<1>5. Good(m, flushing.entries[m])' /\ Present(flushing'.entries[m]) <=>
        Good(m, entries[m]) /\ Present(flushing'.entries[m])
  BY <1>1, <1>4 DEF Good
<1>6. ASSUME Attached, Good(m, entries[m]), ~Present(flushing'.entries[m])
      PROVE  Good(m, rows[m])
  <2>1. Present(entries[m])
    BY <1>6, GoodPresent
  <2>2. entries[m].rev <= ui.committed
    BY <1>1, <1>6, <2>1, SnapshotsTyped, UiTyped
  <2> QED BY <1>0, <1>6, <2>1, <2>2, StoredAsShown
<1>7. Stored(m)
  BY DEF StoredInv
<1>8. ASSUME Attached, Ending(RunOf[m])', Good(m, entries[m]), Streamed(m), copied[m] + sent[m] > 0
      PROVE  uiRun[RunOf[m]].pc = "check" \/ ~Present(flushing'.entries[m]) => Good(m, rows[m])
  BY <1>6, <1>7, <1>8 DEF Stored, Ending
<1> QED BY <1>1, <1>2, <1>3, <1>4, <1>5, <1>7, <1>8 DEF Stored

LEMMA WrittenStored ==
  ASSUME HistoryTypes, StoreInv, DataInv, StoredInv, FlushWrite
  PROVE  StoredInv'
<1> USE DEF HistoryTypes
<1>1. Flushing /\ flushing \in FlushesTaken
  BY Typed DEF FlushWrite, Flushing
<1>2. /\ row'.gen = row.gen /\ Attached /\ UNCHANGED <<ui, entries, copied, sent, uiRun>>
      /\ \A m \in Messages : rows'[m] = IF Present(flushing.entries[m])
                                        THEN flushing.entries[m] ELSE rows[m]
  BY <1>1 DEF FlushWrite, RowMatches, memory, StoreInv, FlushSound, Attached
<1>3. flushing'.by = flushing.by /\ flushing'.entries = flushing.entries /\ Attached'
  BY <1>1, <1>2 DEF FlushWrite, FlushesTaken, Attached
<1> SUFFICES ASSUME NEW m \in Messages PROVE Stored(m)'
  BY DEF StoredInv
<1>4. /\ Good(m, entries[m])' <=> Good(m, entries[m])
      /\ Good(m, flushing.entries[m])' <=> Good(m, flushing.entries[m])
      /\ Good(m, rows[m])' <=> IF Present(flushing.entries[m])
                               THEN Good(m, flushing.entries[m]) ELSE Good(m, rows[m])
  BY <1>2, <1>3 DEF Good
<1>5. Stored(m)
  BY DEF StoredInv
<1>6. Ending(RunOf[m])' <=> Ending(RunOf[m])
  <2>1. Flushing'
    BY <1>1 DEF FlushWrite, Flushing, NoFlush, FlushesTaken
  <2> QED BY <1>1, <1>2, <1>3, <2>1 DEF Ending
<1> QED BY <1>1, <1>2, <1>3, <1>4, <1>5, <1>6 DEF Stored

LEMMA SettledStored ==
  ASSUME HistoryTypes, StoreInv, DataInv, StoredInv, FlushSettle
  PROVE  StoredInv'
<1> USE DEF HistoryTypes
<1>1. /\ Flushing /\ Attached /\ flushing.pc = "written"
      /\ \A m \in Messages : Present(flushing.entries[m]) => rows[m] = flushing.entries[m]
  BY Typed DEF FlushSettle, Flushing, StoreInv, FlushSound
<1>2. /\ UNCHANGED <<row, rows, copied, sent>> /\ flushing' = NoFlush
      /\ \A m \in Messages : entries'[m] = entries[m] \/ entries'[m] = Absent
  BY DEF FlushSettle, disk
<1>3. ui'.gen = ui.gen
  BY FlushCalls
<1>4. Attached' <=> Attached
  BY <1>2, <1>3 DEF Attached
<1>5. \A r \in Runs : \/ uiRun'[r] = uiRun[r]
                      \/ uiRun'[r].pc = "failed"
                      \/ uiRun'[r].pc = "check" /\ r = flushing.by /\ uiRun[r].pc = "flush"
  <2>1. CASE flushing.by \in Runs
    <3>1. uiRun' = [uiRun EXCEPT ![flushing.by].pc =
                      IF @ = "flush" /\ ~ui.failed THEN "check" ELSE "failed"]
      BY <2>1 DEF FlushSettle, Answer
    <3> DEFINE b == flushing.by
               x == IF uiRun[b].pc = "flush" /\ ~ui.failed THEN "check" ELSE "failed"
    <3>2. uiRun' = [uiRun EXCEPT ![b].pc = x]
      BY <3>1
    <3>3. x = "failed" \/ (x = "check" /\ uiRun[b].pc = "flush")
      OBVIOUS
    <3> HIDE DEF x
    <3> QED BY <2>1, <3>2, <3>3 DEF HistoryTypeOK, RunStates
  <2>2. CASE flushing.by \notin Runs
    BY <2>2 DEF FlushSettle, Answer
  <2> QED BY <2>1, <2>2
<1> SUFFICES ASSUME NEW m \in Messages PROVE Stored(m)'
  BY DEF StoredInv
<1>6. RunOf[m] \in Runs
  BY HistoryAssumption
<1>7. CASE uiRun'[RunOf[m]] = uiRun[RunOf[m]] \/ uiRun'[RunOf[m]].pc = "failed"
  BY <1>2, <1>4, <1>7, StoredKept DEF StoredInv
<1>8. CASE uiRun'[RunOf[m]].pc = "check" /\ RunOf[m] = flushing.by /\ uiRun[RunOf[m]].pc = "flush"
  <2>1. Ending(RunOf[m]) /\ Stored(m)
    BY <1>1, <1>8 DEF Ending, StoredInv
  <2>2. ~Absent.committed
    BY DEF Absent
  <2>3. Good(m, entries[m])' => Good(m, entries[m])
    BY <1>2, <2>2 DEF Good
  <2>4. Good(m, rows[m])' <=> Good(m, rows[m])
    BY <1>2 DEF Good
  <2>5. ~Flushing'
    BY <1>2 DEF Flushing
  <2> QED BY <1>1, <1>2, <1>4, <1>8, <2>1, <2>3, <2>4, <2>5 DEF Stored
<1> QED BY <1>5, <1>6, <1>7, <1>8

(* A run that may end has all it streamed in memory, confirmed, and the    *)
(* flush before the check has stored it.                                   *)
LEMMA CheckedStored ==
  ASSUME HistoryTypes, StoreInv, DataInv, StoredInv, NEW r \in Runs, CheckRun(r)
  PROVE  StoredInv'
<1> USE DEF HistoryTypes
<1>0. StoreTypes
  BY StoreTypesHold
<1>1. /\ UNCHANGED <<row, rows, ui, flushing, copied, sent>> /\ uiRun[r].pc = "check"
      /\ \A m \in Messages : \/ entries'[m] = entries[m]
                             \/ RunOf[m] = r /\ entries'[m] = Absent
  BY DEF CheckRun, disk
<1>2. Attached' <=> Attached
  BY <1>1 DEF Attached
<1>3. /\ \A q \in Runs \ {r} : uiRun'[q] = uiRun[q]
      /\ uiRun'[r].gen = uiRun[r].gen
      /\ uiRun'[r].pc \in {"last", "finished"}
      /\ uiRun'[r].pc = "finished" => ~ui.failed
  <2> DEFINE p == IF ui.failed THEN "last" ELSE "finished"
  <2>1. uiRun' = [uiRun EXCEPT ![r].pc = p]
    BY DEF CheckRun
  <2>2. p \in {"last", "finished"} /\ (p = "finished" => ~ui.failed)
    OBVIOUS
  <2> HIDE DEF p
  <2> QED BY <2>1, <2>2 DEF HistoryTypeOK, RunStates
<1> SUFFICES ASSUME NEW m \in Messages PROVE Stored(m)'
  BY DEF StoredInv
<1>4. RunOf[m] \in Runs /\ Stored(m)
  BY HistoryAssumption DEF StoredInv
<1>5. CASE RunOf[m] # r
  BY <1>1, <1>2, <1>3, <1>4, <1>5, StoredKept
<1>6. CASE RunOf[m] = r /\ uiRun'[r].pc = "last"
  BY <1>6, StoredOpen
<1>7. CASE RunOf[m] = r /\ uiRun'[r].pc = "finished"
  <2> SUFFICES ASSUME Streamed(m), copied[m] + sent[m] > 0, uiRun[r].gen = row.gen
               PROVE  /\ Good(m, rows[m])
                      /\ Good(m, entries[m])
                      /\ Flushing /\ Present(flushing.entries[m]) => Good(m, flushing.entries[m])
    BY <1>1, <1>2, <1>3, <1>7, AbsentTyped DEF Stored, Ending, Good, Flushing
  <2>1. uiRun[r].gen = ui.gen /\ r \in registered /\ ~Unfinished(m)
    BY <1>7 DEF CheckRun, Obsolete, Own
  <2>2. Attached
    BY <2>1 DEF Attached
  <2>3. Present(entries[m]) /\ entries[m].ver >= copied[m]
    BY <1>3, <1>7, <2>1 DEF DataInv, RunsSound, RunSound
  <2>4. Good(m, entries[m])
    BY <2>1, <2>3 DEF Unfinished, Good, Streamed
  <2> QED BY <1>1, <1>4, <1>7, <2>2, <2>4 DEF Stored, Ending
<1> QED BY <1>3, <1>5, <1>6, <1>7

LEMMA StoredStep ==
  ASSUME HistoryTypes, StoreInv, DataInv, StoredInv, [NextHistory]_historyVars
  PROVE  StoredInv'
<1> USE DEF HistoryTypes
<1>0. \A m \in Messages : RunOf[m] \in Runs /\ Stored(m)
  BY HistoryAssumption DEF StoredInv
<1>1. CASE QuietSteps
  BY <1>1, QuietStored, NothingStored
<1>2. CASE \/ \E m \in Messages : Copy(m)
           \/ \E m \in Messages : \E v \in 1 .. Last[m] : Stage(m, v)
           \/ Bind \/ Replace
  BY <1>2, WritersStored
<1>3. CASE \/ \E by \in Flushers : FlushTake(by)
           \/ FlushWrite \/ FlushSettle
           \/ \E r \in Runs : CheckRun(r)
  BY <1>3, TakenStored, WrittenStored, SettledStored, CheckedStored
<1>4. CASE \/ \E r \in Runs : BeginRun(r)
           \/ \E v \in Viewers : Views(v)
           \/ UNCHANGED historyVars
  <2>1. UNCHANGED <<row, rows, ui, entries, flushing, copied, sent>>
    BY <1>4, ViewSteps DEF BeginRun, historyVars, disk, memory, actors
  <2>2. \A r \in Runs : uiRun'[r] = uiRun[r] \/ uiRun'[r].pc = "open"
    BY <1>4, ViewSteps DEF BeginRun, historyVars, actors, HistoryTypeOK
  <2> QED BY <1>0, <2>1, <2>2, StoredKept DEF StoredInv, Attached
<1>5. CASE EraseRows
  <2>1. /\ row'.gen = row.gen + 1 /\ row.gen = ui.gen /\ UNCHANGED <<ui, uiRun>>
    BY <1>5 DEF EraseRows, memory
  <2>2. row.gen \in Nat /\ \A r \in Runs : uiRun[r].gen \in Nat /\ uiRun[r].gen <= ui.gen
    BY UiTyped DEF StoreInv, Generations, HistoryTypeOK, RunStates
  <2>3. ~Attached' /\ \A r \in Runs : uiRun'[r].gen # row'.gen
    BY <2>1, <2>2 DEF Attached
  <2> QED BY <1>0, <2>3 DEF StoredInv, Stored
<1>6. CASE EraseMemory \/ Reload
  <2>1. /\ UNCHANGED <<row, rows, copied, sent>> /\ entries' = Nothing /\ flushing' = NoFlush
    BY <1>6 DEF EraseMemory, Reload, disk, StoreInv, FlushSound, Flushing
  <2>2. \A r \in Runs : \/ uiRun'[r] = uiRun[r]
                        \/ uiRun'[r].pc = "dropped"
    <3>1. CASE EraseMemory
      BY <3>1 DEF EraseMemory
    <3>2. CASE Reload
      <4>1. \A r \in Runs : uiRun'[r] = IF uiRun[r].pc \in Holding
                                        THEN [uiRun[r] EXCEPT !.pc = "dropped"] ELSE uiRun[r]
        BY <3>2 DEF Reload
      <4> QED BY <4>1 DEF HistoryTypeOK, RunStates
    <3> QED BY <1>6, <3>1, <3>2
  <2> SUFFICES ASSUME NEW m \in Messages PROVE Stored(m)'
    BY DEF StoredInv
  <2>3. CASE uiRun'[RunOf[m]].pc = "dropped"
    BY <2>3, StoredOpen
  <2>4. CASE uiRun'[RunOf[m]] = uiRun[RunOf[m]]
    <3>1. ~Flushing' /\ entries'[m] = Absent /\ ~Present(Absent) /\ ~Absent.committed
      BY <2>1 DEF Flushing, Nothing, Present, Absent
    <3> QED BY <1>0, <2>1, <2>4, <3>1 DEF Stored, Good
  <2> QED BY <1>0, <2>2, <2>3, <2>4
<1> QED BY <1>1, <1>2, <1>3, <1>4, <1>5, <1>6, HistoryKinds

(* The flush that a finished run waited for is done, and later ones store  *)
(* no older version.                                                       *)
LEMMA FinishedHolds == StoredInv => FinishedRunIsStored
BY DEF StoredInv, Stored, Good, FinishedRunIsStored

-----------------------------------------------------------------------------
(* The inductive invariant, and what it says of every behaviour. *)

HistoryInv == HistoryTypes /\ StoreInv /\ DataInv /\ BoundInv /\ ViewInv /\ StoredInv

LEMMA InitInv == InitHistory => HistoryInv
<1> SUFFICES ASSUME InitHistory PROVE HistoryInv
  OBVIOUS
<1> USE DEF InitHistory
<1>1. /\ row.gen = 1 /\ row.rev = 0 /\ row.next = 0
      /\ ui.gen = 1 /\ ui.rev = 0 /\ ui.committed = 0 /\ ui.next = 0
      /\ job.kind = "none" /\ job.pc = "idle" /\ flushing = NoFlush
  BY DEF Loaded, NoJob
<1>2. \A m \in Messages : rows[m] = Absent /\ entries[m] = Absent
  BY AbsentTyped
<1>3. \A m \in Messages : /\ pending[m] = 0 /\ sent[m] = 0 /\ copied[m] = 0
                          /\ Last[m] \in Nat \ {0} /\ RunOf[m] \in Runs
                          /\ (Kind[m] = "segment" => Last[m] > 1)
  BY HistoryAssumption
<1>4. \A r \in Runs : uiRun[r].pc = "new" /\ uiRun[r].gen = 0
  OBVIOUS
<1>5. \A v \in Viewers : viewer[v] = Closed
  OBVIOUS
<1>6. HistoryTypes
  <2>1. records \in Seq(JournalRecords)
    OBVIOUS
  <2>2. row \in Rows /\ ui \in UiStates
    BY DEF Rows, UiStates, Loaded
  <2>3. uiRun \in [Runs -> RunStates]
    BY DEF RunStates
  <2>4. Closed \in Subscriptions
    BY AbsentTyped DEF Closed, Subscriptions
  <2>5. viewer \in [Viewers -> Subscriptions]
    BY <2>4
  <2>6. /\ rows \in [Messages -> Snapshots] /\ entries \in [Messages -> Snapshots]
    BY AbsentTyped
  <2>7. HistoryTypeOK
    BY <2>1, <2>2, <2>3, <2>5, <2>6 DEF HistoryTypeOK
  <2>8. flushing.by = "nobody"
    BY DEF NoFlush
  <2> QED BY <1>1, <2>7, <2>8, HistoryAssumption DEF HistoryTypes
<1>7. StoreInv
  <2>1. Generations
    BY <1>1, <1>4, <1>5, ClosedFields DEF Generations
  <2>2. Counted
    BY <1>1, <1>2, <1>3, AbsentTyped DEF Counted
  <2>3. InStep /\ FlushSound
    BY <1>1, <1>2, AbsentTyped DEF InStep, FlushSound, Flushing
  <2> QED BY <2>1, <2>2, <2>3 DEF StoreInv
<1>8. DataInv
  <2>1. SnapshotsSound
    <3>1. copied \in [Messages -> Nat] /\ sent \in [Messages -> Nat] /\ ~Flushing
      BY DEF Flushing
    <3>2. \A m \in Messages : Sound(m, Absent, copied[m], sent[m])
      BY <3>1, SoundAbsent
    <3> QED BY <1>2, <3>1, <3>2 DEF SnapshotsSound
  <2>2. JobSound
    BY <1>1 DEF JobSound, AppendSound, UpdateSound, CutSound
  <2>3. RunsSound
    <3> SUFFICES ASSUME NEW m \in Messages PROVE RunSound(m)
      BY DEF RunsSound
    <3>1. registered = {} /\ copied[m] = 0 /\ sent[m] = 0 /\ Last[m] \in Nat \ {0}
      BY <1>3
    <3>2. Kind[m] = "segment" => copied[m] < Last[m]
      BY <3>1
    <3>3. sent[m] <= Last[m] /\ ~(copied[m] + sent[m] > 0)
      BY <3>1
    <3> HIDE DEF InitHistory
    <3> QED BY <3>1, <3>2, <3>3 DEF RunSound
  <2> QED BY <2>1, <2>2, <2>3 DEF DataInv
<1>9. BoundInv
  BY <1>1, <1>2, <1>6, OwnedAbsent DEF BoundInv, Flushing, HistoryTypes
<1>10. ViewInv
  BY <1>5, ClosedFields DEF ViewInv, ReadSound, ShownSound
<1>11. StoredInv
  BY <1>3 DEF StoredInv, Stored
<1> QED BY <1>6, <1>7, <1>8, <1>9, <1>10, <1>11 DEF HistoryInv

LEMMA NextInv == HistoryInv /\ [NextHistory]_historyVars => HistoryInv'
BY TypesStep, StoreStep, DataStep, BoundStep, ViewStep, StoredStep DEF HistoryInv

LEMMA HistoryIsSound == HistorySpec => []HistoryInv
BY InitInv, NextInv, PTL DEF HistorySpec

(* The session, its journal, its snapshots and its subscriptions keep      *)
(* their types through appends, flushes, cuts, failures and restarts.      *)
THEOREM HistoryStateIsTyped == HistorySpec => []HistoryTypeOK
<1>1. HistoryInv => HistoryTypeOK
  BY DEF HistoryInv, HistoryTypes
<1> QED BY <1>1, HistoryIsSound, PTL

(* Whatever the history shows is bound to the journal as it is: bind       *)
(* (ui_history_engine.rs) confirms only the version that was appended, and *)
(* no flush, eviction, update or restart brings back an older binding.     *)
THEOREM SnapshotsAreOwned == HistorySpec => []RecordsAreOwned
<1>1. HistoryInv => RecordsAreOwned
  BY OwnedHolds DEF HistoryInv
<1> QED BY <1>1, HistoryIsSound, PTL

(* A subscriber that was sent everything up to a revision shows each       *)
(* message as it is: page and changes_since lay memory over rows read      *)
(* under another lock, and merge only what was stored meanwhile.           *)
THEOREM SubscribersAreCurrent == HistorySpec => []SubscriberIsCurrent
<1>1. HistoryInv => SubscriberIsCurrent
  BY CurrentHolds DEF HistoryInv
<1> QED BY <1>1, HistoryIsSound, PTL

(* finish_run stores what a run streamed before it lets go of the run, and *)
(* nothing that happens later takes it back but a cut of the history.      *)
THEOREM FinishedRunsAreStored == HistorySpec => []FinishedRunIsStored
<1>1. HistoryInv => FinishedRunIsStored
  BY FinishedHolds DEF HistoryInv
<1> QED BY <1>1, HistoryIsSound, PTL

=============================================================================
