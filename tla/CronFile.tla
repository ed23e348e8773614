------------------------------ MODULE CronFile ------------------------------
(***************************************************************************)
(* crates/cron/src/store_file.rs, the store of the cron scheduler: all     *)
(* jobs in one file that every operation reads, changes and writes as a    *)
(* whole.  Nothing excludes two operations, and they share the name of the *)
(* temporary file.                                                         *)
(*                                                                         *)
(* A path is a sequence of at most one content, empty if there is no such  *)
(* file.  A content is a set of jobs.  The backup is written, never read,  *)
(* and left out.                                                           *)
(***************************************************************************)
EXTENDS Naturals, Sequences, FiniteSets

CONSTANTS Jobs,     \* identifiers of jobs
          Clients,  \* RPC calls, one operation each
          Timers    \* slots for the runs the timer spawns (a bound)

VARIABLES file,     \* jobs.json
          tmp,      \* jobs.json.tmp
          op,       \* the store operation of a task
          clean     \* history: no two operations overlapped, none failed

fileVars == <<file, tmp, op, clean>>

Tasks == Clients \cup Timers
NoOp == [step |-> "none"]
InFlight(t) == op[t].step \in {"load", "write", "backup", "rename"}

InitFile(content) ==
  /\ file = <<content>>
  /\ tmp = <<>>
  /\ op = [t \in Tasks |-> NoOp]
  /\ clean = TRUE

(* A task calls the store with a job. *)
Begin(t, kind, job) ==
  /\ op' = [op EXCEPT ![t] = [step |-> "load", kind |-> kind, job |-> job]]
  /\ clean' = (clean /\ \A u \in Tasks : ~InFlight(u))
  /\ UNCHANGED <<file, tmp>>

(* The task takes the result of its operation. *)
Taken(t) ==
  /\ op' = [op EXCEPT ![t] = NoOp]
  /\ UNCHANGED <<file, tmp, clean>>

Stored(t) == op[t].step = "ok"
StoreFailed(t) == op[t].step = "failed"

-----------------------------------------------------------------------------
(* load_jobs: a missing file is a store without jobs. *)
Content == IF file = <<>> THEN {} ELSE file[1]

HasJob(content, j) == \E r \in content : r.id = j
Without(content, j) == {r \in content : r.id # j}

(* save_job, update_job and delete_job: what they make of the content. *)
Changed(kind, job) ==
  IF kind = "delete" THEN Without(Content, job.id)
                     ELSE Without(Content, job.id) \cup {job}

LoadJobs(t) ==
  /\ op[t].step = "load"
  /\ op' = [op EXCEPT ![t] =
       IF op[t].kind # "save" /\ ~HasJob(Content, op[t].job.id)
         THEN [step |-> "failed"]
         ELSE [step |-> "write", content |-> Changed(op[t].kind, op[t].job)]]
  /\ UNCHANGED <<file, tmp, clean>>

(* The file was there when it was looked for and gone when it was read. *)
LoadVanished(t) ==
  /\ op[t].step = "load" /\ file = <<>>
  /\ op' = [op EXCEPT ![t] = [step |-> "failed"]]
  /\ UNCHANGED <<file, tmp, clean>>

(* atomic_write_jobs: the temporary file, the move of the old file to the  *)
(* backup, and the move of the temporary file to its place.                *)
WriteTmp(t) ==
  /\ op[t].step = "write"
  /\ tmp' = <<op[t].content>>
  /\ op' = [op EXCEPT ![t] = [step |-> "backup"]]
  /\ UNCHANGED <<file, clean>>

Backup(t) ==
  /\ op[t].step = "backup"
  /\ file' = <<>>
  /\ op' = [op EXCEPT ![t] = [step |-> "rename"]]
  /\ UNCHANGED <<tmp, clean>>

(* The rename fails if another operation renamed the temporary file. *)
Rename(t) ==
  /\ op[t].step = "rename"
  /\ file' = IF tmp = <<>> THEN file ELSE tmp
  /\ tmp' = <<>>
  /\ op' = [op EXCEPT ![t] = [step |-> IF tmp = <<>> THEN "failed" ELSE "ok"]]
  /\ UNCHANGED clean

(* An I/O error; the move to the backup ignores one. *)
OpFails(t) ==
  /\ op[t].step \in {"load", "write", "rename"}
  /\ op' = [op EXCEPT ![t] = [step |-> "failed"]]
  /\ clean' = FALSE
  /\ UNCHANGED <<file, tmp>>

StoreSteps(t) ==
  LoadJobs(t) \/ LoadVanished(t) \/ WriteTmp(t) \/ Backup(t) \/ Rename(t)

(* The process stops: the operations in flight end where they are. *)
CrashFile ==
  /\ op' = [t \in Tasks |-> NoOp]
  /\ clean' = (clean /\ \A t \in Tasks : ~InFlight(t))
  /\ UNCHANGED <<file, tmp>>
=============================================================================
