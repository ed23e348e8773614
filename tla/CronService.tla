----------------------------- MODULE CronService -----------------------------
(***************************************************************************)
(* crates/cron/src/service.rs: the cron scheduler.  RPC calls (add,        *)
(* update, remove, run), the timer loop and the runs it spawns share the   *)
(* job list under a read-write lock and the store of CronFile, which add   *)
(* and remove use without the lock.                                        *)
(*                                                                         *)
(* A job is its identifier, the parts of its definition that the scheduler *)
(* reads, and the part of its state it decides on: next_run_at_ms and      *)
(* running_at_ms, `Never' for None.  Payloads are left out; that           *)
(* validate_job_spec refuses one is a choice of the environment.           *)
(***************************************************************************)
EXTENDS CronFile

CONSTANTS Schedules,    \* [kind, at, every, anchor]
          Preloaded,    \* jobs stored by an earlier process
          MaxClock,     \* bound on the clock
          Never,        \* later than every time of the model
          Stuck,        \* STUCK_THRESHOLD_MS
          Poll,         \* sleep of the timer loop without jobs
          RateMax, RateWindow,   \* RateLimitConfig
          MaxCrashes,   \* bound on restarts
          CronFaults    \* what may happen: "store", "refuse"

ASSUME CronAssumption ==
  /\ {MaxClock, Never, Stuck, Poll, RateMax, RateWindow, MaxCrashes} \subseteq Nat
  /\ MaxClock + Poll < Never
  /\ Schedules \subseteq [kind : {"at", "every"}, at : Nat, every : Nat, anchor : Nat]
  /\ \A s \in Schedules :
       MaxClock + s.every < Never /\ s.at < Never /\ s.anchor <= Never
  /\ Preloaded \subseteq Jobs /\ IsFiniteSet(Jobs) /\ IsFiniteSet(Timers)
  /\ Clients \cap Timers = {}
  /\ CronFaults \subseteq {"store", "refuse"}

VARIABLES up,        \* the process runs the service
          jobs,      \* the job list in memory
          task,      \* [pc, job] of every call and every spawned run
          loop,      \* where the timer loop is
          loopTime,  \* the end of its sleep, then the time of its pass
          claimed,   \* jobs it marked and has not spawned yet
          permit,    \* wake_notify has a permit
          limiter,   \* RateLimiter.timestamps
          clock, crashes,
          twice,     \* history: jobs run by hand or cleared as stuck
          stale,     \* history: jobs changed while one of their runs went on
          dirty,     \* history: jobs whose change was not stored
          admitted,  \* history: the identifiers add has given out
          kept       \* history: jobs acknowledged and not asked to go

serviceVars == <<up, jobs, task, loop, loopTime, claimed, permit, limiter,
                 clock, crashes>>
historyVars == <<twice, stale, dirty, admitted, kept>>
cronVars == <<fileVars, serviceVars, historyVars>>

JobOf(content, j) == CHOOSE r \in content : r.id = j
Definition(r) == [id |-> r.id, enabled |-> r.enabled, once |-> r.once,
                  schedule |-> r.schedule]
Ids(content) == {r.id : r \in content}
(* What a run reads of the copy of the job it was started with. *)
Copy(r) == [id |-> r.id, once |-> r.once, schedule |-> r.schedule]
Idle == [pc |-> "idle"]

-----------------------------------------------------------------------------
(* compute_next_run; a cron expression is an interval with an anchor.  An   *)
(* interval without an anchor (`Never') counts from now.                    *)
Computable(s) == s.kind = "every" => s.every > 0

NextRun(s, now) ==
  IF s.kind = "at" THEN IF s.at > now THEN s.at ELSE Never
  ELSE IF ~Computable(s) THEN Never
  ELSE IF s.anchor = Never THEN now + s.every
  ELSE IF s.anchor > now THEN s.anchor
  ELSE s.anchor + ((now - s.anchor) \div s.every + 1) * s.every

Scheduled(r, now) ==
  [r EXCEPT !.next = IF r.enabled THEN NextRun(r.schedule, now) ELSE Never]

InitCron ==
  /\ \E s \in [Preloaded -> Schedules], once \in [Preloaded -> BOOLEAN] :
       InitFile({[id |-> j, enabled |-> TRUE, once |-> once[j],
                  schedule |-> s[j], next |-> Never, running |-> Never]
                   : j \in Preloaded})
  /\ up = FALSE
  /\ jobs = {}
  /\ task = [t \in Tasks |-> Idle]
  /\ loop = "off"
  /\ loopTime = 0
  /\ claimed = {}
  /\ permit = FALSE
  /\ limiter = <<>>
  /\ clock = 0
  /\ crashes = 0
  /\ twice = {}
  /\ stale = {}
  /\ dirty = {}
  /\ admitted = {}
  /\ kept = Preloaded

(* start: the jobs are loaded and the next runs of the enabled ones        *)
(* computed anew; the loop begins.                                         *)
Start ==
  /\ ~up
  /\ up' = TRUE
  /\ jobs' = {IF r.enabled THEN Scheduled(r, clock) ELSE r : r \in Content}
  /\ loop' = "check"
  /\ UNCHANGED <<fileVars, task, loopTime, claimed, permit, limiter, clock,
                 crashes, historyVars>>

Crash ==
  /\ up /\ crashes < MaxCrashes
  /\ up' = FALSE
  /\ crashes' = crashes + 1
  /\ CrashFile
  /\ jobs' = {}
  /\ task' = [t \in Tasks |-> IF t \in Clients /\ task[t] # Idle
                                THEN [pc |-> "done"] ELSE Idle]
  /\ loop' = "off"
  /\ claimed' = {}
  /\ permit' = FALSE
  /\ limiter' = <<>>
  /\ loopTime' = 0
  /\ UNCHANGED <<clock, historyVars>>

Tick ==
  /\ clock < MaxClock
  /\ clock' = clock + 1
  /\ UNCHANGED <<fileVars, up, jobs, task, loop, loopTime, claimed, permit,
                 limiter, crashes, historyVars>>

-----------------------------------------------------------------------------
(* The lock of the job list, held across the store operation by update and *)
(* disable (to write) and by the persisting of a run's state (to read).    *)
Writing == \E t \in Tasks : task[t].pc \in {"updating", "disabling"}
Reading == \E t \in Tasks : task[t].pc = "persisting"
MayRead == up /\ ~Writing
MayWrite == up /\ ~Writing /\ ~Reading

Replace(r) == Without(jobs, r.id) \cup {r}
Goes(t, l) == task' = [task EXCEPT ![t].pc = l]
Over(t) == IF t \in Clients THEN [pc |-> "done"] ELSE Idle
Ends(t) == task' = [task EXCEPT ![t] = Over(t)]

KeepLoop == UNCHANGED <<up, loop, loopTime, claimed, limiter, clock, crashes>>

(* The runs of a job, and whether one of them still holds a copy of it. *)
Runs(j) == {t \in Tasks : /\ task[t].pc \in {"turn", "reschedule"}
                          /\ task[t].job.id = j}
Copied(j) ==
  \/ \E t \in Tasks : /\ task[t].pc \in {"mark", "turn", "reschedule", "persist",
                                         "disable", "deleting"}
                      /\ task[t].job.id = j
  \/ j \in Ids(claimed)

(* RateLimiter::check: attempts are popped off the front up to the first   *)
(* one that is within the window.                                          *)
Recent ==
  LET cutoff == IF clock > RateWindow THEN clock - RateWindow ELSE 0
      within == {i \in DOMAIN limiter : limiter[i] >= cutoff}
  IN  IF within = {} THEN <<>>
      ELSE SubSeq(limiter, CHOOSE i \in within : \A k \in within : i <= k,
                  Len(limiter))

(* add: an attempt over the limit is refused, any other is counted; an     *)
(* invalid one goes no further, the others are stored.                     *)
AddRefused(c) ==
  /\ up /\ task[c].pc = "idle"
  /\ \/ /\ Len(Recent) >= RateMax
        /\ limiter' = Recent
     \/ /\ "refuse" \in CronFaults /\ Len(Recent) < RateMax
        /\ limiter' = Append(Recent, clock)
  /\ Ends(c)
  /\ UNCHANGED <<fileVars, up, jobs, loop, loopTime, claimed, permit, clock,
                 crashes, twice, stale, dirty, admitted, kept>>

(* A new job has an identifier that no other ever had. *)
Fresh(j) == j \notin Preloaded /\ j \notin admitted

Add(c, j, s, once) ==
  /\ up /\ task[c].pc = "idle"
  /\ Fresh(j)
  /\ Len(Recent) < RateMax
  /\ Computable(s)
  /\ limiter' = Append(Recent, clock)
  /\ admitted' = admitted \cup {j}
  /\ LET r == Scheduled([id |-> j, enabled |-> TRUE, once |-> once,
                         schedule |-> s, next |-> Never, running |-> Never],
                        clock)
     IN  /\ Begin(c, "save", r)
         /\ task' = [task EXCEPT ![c] = [pc |-> "adding", job |-> r]]
  /\ UNCHANGED <<up, jobs, loop, loopTime, claimed, permit, clock, crashes,
                 twice, stale, dirty, kept>>

Added(c) ==
  /\ task[c].pc = "adding"
  /\ \/ /\ Stored(c) /\ MayWrite
        /\ jobs' = jobs \cup {task[c].job}
        /\ permit' = TRUE
        /\ kept' = kept \cup {task[c].job.id}
     \/ StoreFailed(c) /\ UNCHANGED <<jobs, permit, kept>>
  /\ Taken(c) /\ Ends(c) /\ KeepLoop
  /\ UNCHANGED <<twice, stale, dirty, admitted>>

(* update: the job in the list is changed first; a refusal leaves it so,   *)
(* with the old next run.                                                  *)
Patched(r, en, s, once) == [r EXCEPT !.enabled = en, !.schedule = s, !.once = once]

UpdateRefused(c, r, en, s, once) ==
  /\ task[c].pc = "idle" /\ MayWrite /\ r \in jobs
  /\ "refuse" \in CronFaults \/ (en /\ ~Computable(s))
  /\ jobs' = Replace(Patched(r, en, s, once))
  /\ dirty' = dirty \cup {r.id}
  /\ Ends(c) /\ KeepLoop
  /\ UNCHANGED <<fileVars, permit, twice, stale, admitted, kept>>

(* Mutant: the next run is not computed anew. *)
UpdateUnscheduled(c, r, en, s, once) ==
  /\ task[c].pc = "idle" /\ MayWrite /\ r \in jobs
  /\ en => Computable(s)
  /\ LET q == Patched(r, en, s, once)
     IN  /\ jobs' = Replace(q)
         /\ Begin(c, "update", q)
         /\ task' = [task EXCEPT ![c] = [pc |-> "updating", job |-> Copy(q)]]
  /\ stale' = IF Copied(r.id) THEN stale \cup {r.id} ELSE stale
  /\ KeepLoop
  /\ UNCHANGED <<permit, twice, dirty, admitted, kept>>

Update(c, r, en, s, once) ==
  /\ task[c].pc = "idle" /\ MayWrite /\ r \in jobs
  /\ en => Computable(s)
  /\ LET q == Scheduled(Patched(r, en, s, once), clock)
     IN  /\ jobs' = Replace(q)
         /\ Begin(c, "update", q)
         /\ task' = [task EXCEPT ![c] = [pc |-> "updating", job |-> Copy(q)]]
  /\ stale' = IF Copied(r.id) THEN stale \cup {r.id} ELSE stale
  /\ KeepLoop
  /\ UNCHANGED <<permit, twice, dirty, admitted, kept>>

(* Mutant: the loop is not told of the change. *)
UpdatedSilently(c) ==
  /\ task[c].pc = "updating"
  /\ \/ Stored(c) /\ UNCHANGED <<permit, dirty>>
     \/ /\ StoreFailed(c) /\ UNCHANGED permit
        /\ dirty' = dirty \cup {task[c].job.id}
  /\ Taken(c) /\ Ends(c) /\ KeepLoop
  /\ UNCHANGED <<jobs, twice, stale, admitted, kept>>

(* The loop is told of a stored change only. *)
Updated(c) ==
  /\ task[c].pc = "updating"
  /\ \/ Stored(c) /\ permit' = TRUE /\ UNCHANGED dirty
     \/ /\ StoreFailed(c) /\ UNCHANGED permit
        /\ dirty' = dirty \cup {task[c].job.id}
  /\ Taken(c) /\ Ends(c) /\ KeepLoop
  /\ UNCHANGED <<jobs, twice, stale, admitted, kept>>

(* remove: the store first, the list afterwards. *)
Remove(c, r) ==
  /\ task[c].pc = "idle" /\ MayRead /\ r \in jobs
  /\ Begin(c, "delete", Copy(r))
  /\ task' = [task EXCEPT ![c] = [pc |-> "removing", job |-> Copy(r)]]
  /\ kept' = kept \ {r.id}
  /\ KeepLoop
  /\ UNCHANGED <<jobs, permit, twice, stale, dirty, admitted>>

Removed(t) ==
  /\ task[t].pc \in {"removing", "deleting"}
  /\ \/ /\ Stored(t) /\ MayWrite
        /\ jobs' = Without(jobs, task[t].job.id)
     \/ StoreFailed(t) /\ UNCHANGED jobs
  /\ Taken(t) /\ Ends(t) /\ KeepLoop
  /\ UNCHANGED <<permit, historyVars>>

(* run: the job is read, then marked under another lock, whatever it is    *)
(* marked as, and executed by the call.                                    *)
RunRead(c, r) ==
  /\ task[c].pc = "idle" /\ MayRead /\ r \in jobs
  /\ task' = [task EXCEPT ![c] = [pc |-> "mark", job |-> Copy(r)]]
  /\ KeepLoop
  /\ UNCHANGED <<fileVars, jobs, permit, historyVars>>

RunMark(c) ==
  /\ task[c].pc = "mark" /\ MayWrite
  /\ jobs' = {IF r.id = task[c].job.id THEN [r EXCEPT !.running = clock] ELSE r
                : r \in jobs}
  /\ Goes(c, "turn")
  /\ twice' = twice \cup {task[c].job.id}
  /\ KeepLoop
  /\ UNCHANGED <<fileVars, permit, stale, dirty, admitted, kept>>

-----------------------------------------------------------------------------
(* execute_job, of a call or of a spawned task, with the job as it was     *)
(* read: the payload, the new state, then the end of a one-shot job or the *)
(* persisted state.                                                        *)
TurnEnds(t) ==
  /\ task[t].pc = "turn"
  /\ Goes(t, "reschedule")
  /\ KeepLoop
  /\ UNCHANGED <<fileVars, jobs, permit, historyVars>>

Reschedule(t) ==
  /\ task[t].pc = "reschedule" /\ MayWrite
  /\ LET own == task[t].job
         next == NextRun(own.schedule, clock)
     IN  /\ jobs' = {IF r.id = own.id
                       THEN [r EXCEPT !.running = Never, !.next = next] ELSE r
                       : r \in jobs}
         /\ Goes(t, CASE next # Never -> "persist"
                      [] next = Never /\ own.once -> "deleting"
                      [] OTHER -> "disable")
         /\ IF next = Never /\ own.once
              THEN Begin(t, "delete", own) /\ kept' = kept \ {own.id}
              ELSE UNCHANGED <<fileVars, kept>>
  /\ KeepLoop
  /\ UNCHANGED <<permit, twice, stale, dirty, admitted>>

(* Mutant: the run stores the job as it was read. *)
PersistRead(t) ==
  /\ task[t].pc = "persist" /\ MayRead
  /\ IF HasJob(jobs, task[t].job.id)
       THEN /\ Begin(t, "update",
                     [JobOf(jobs, task[t].job.id) EXCEPT
                        !.schedule = task[t].job.schedule])
            /\ Goes(t, "persisting")
       ELSE Ends(t) /\ UNCHANGED fileVars
  /\ KeepLoop
  /\ UNCHANGED <<jobs, permit, historyVars>>

Persist(t) ==
  /\ task[t].pc = "persist" /\ MayRead
  /\ IF HasJob(jobs, task[t].job.id)
       THEN /\ Begin(t, "update", JobOf(jobs, task[t].job.id))
            /\ Goes(t, "persisting")
       ELSE Ends(t) /\ UNCHANGED fileVars
  /\ KeepLoop
  /\ UNCHANGED <<jobs, permit, historyVars>>

Disable(t) ==
  /\ task[t].pc = "disable" /\ MayWrite
  /\ IF HasJob(jobs, task[t].job.id)
       THEN LET q == [JobOf(jobs, task[t].job.id) EXCEPT !.enabled = FALSE]
            IN  jobs' = Replace(q) /\ Begin(t, "update", q) /\ Goes(t, "disabling")
       ELSE Ends(t) /\ UNCHANGED <<jobs, fileVars>>
  /\ KeepLoop
  /\ UNCHANGED <<permit, historyVars>>

(* The result of the store is ignored. *)
Persisted(t) ==
  /\ task[t].pc \in {"persisting", "disabling"}
  /\ Stored(t) \/ StoreFailed(t)
  /\ dirty' = IF StoreFailed(t) THEN dirty \cup {task[t].job.id} ELSE dirty
  /\ Taken(t) /\ Ends(t) /\ KeepLoop
  /\ UNCHANGED <<jobs, permit, twice, stale, admitted, kept>>

-----------------------------------------------------------------------------
(* timer_loop. *)

KeepTasks == UNCHANGED <<fileVars, up, task, limiter, clock, crashes>>

(* ms_until_next_wake: the earliest next run of an enabled job. *)
WakeTimes == {r.next : r \in {q \in jobs : q.enabled /\ q.next # Never}}

LoopCheck ==
  /\ loop = "check" /\ MayRead
  /\ LET wake == IF WakeTimes = {} THEN clock + Poll
                 ELSE CHOOSE w \in WakeTimes : \A v \in WakeTimes : w <= v
     IN  IF wake <= clock THEN loop' = "due" /\ loopTime' = 0
                          ELSE loop' = "sleeping" /\ loopTime' = wake
  /\ KeepTasks
  /\ UNCHANGED <<jobs, claimed, permit, historyVars>>

(* A notification ends the sleep and the wake time is computed again. *)
LoopNotified ==
  /\ loop = "sleeping" /\ permit
  /\ permit' = FALSE
  /\ loop' = "check"
  /\ loopTime' = 0
  /\ KeepTasks
  /\ UNCHANGED <<jobs, claimed, historyVars>>

LoopSlept ==
  /\ loop = "sleeping" /\ loopTime <= clock
  /\ loop' = "due"
  /\ loopTime' = 0
  /\ KeepTasks
  /\ UNCHANGED <<jobs, claimed, permit, historyVars>>

(* Mutant: a job that is still running is due again. *)
DueAgain(r) == r.enabled /\ r.next <= clock

(* process_due_jobs: the due jobs that are not running are marked under    *)
(* the lock; then, under the lock again, stuck ones are cleared, and the   *)
(* marked ones are spawned.                                                *)
Due(r) == r.enabled /\ r.next <= clock /\ r.running = Never

IdleTimers == {t \in Timers : task[t].pc = "idle"}

MarkDue ==
  /\ loop = "due" /\ MayWrite
  /\ LET due == {r \in jobs : Due(r)}
     IN  /\ Cardinality(due) <= Cardinality(IdleTimers)
         /\ jobs' = {IF r \in due THEN [r EXCEPT !.running = clock] ELSE r
                       : r \in jobs}
         /\ claimed' = {Copy(r) : r \in due}
  /\ loop' = "clear"
  /\ loopTime' = clock
  /\ KeepTasks
  /\ UNCHANGED <<permit, historyVars>>

(* The claimed jobs as tasks; which idle tasks they are is of no matter. *)
Spawned ==
  LET slot == CHOOSE f \in [claimed -> IdleTimers] :
                \A q, r \in claimed : f[q] = f[r] => q = r
  IN  [t \in Tasks |-> IF \E r \in claimed : slot[r] = t
                         THEN [pc |-> "turn", job |-> CHOOSE r \in claimed : slot[r] = t]
                         ELSE task[t]]

IsStuck(r, now) == r.running # Never /\ r.running < now /\ now - r.running > Stuck

(* Mutant: a mark is never cleared. *)
ClearStuckNever ==
  /\ loop = "clear" /\ MayWrite
  /\ UNCHANGED jobs
  /\ twice' = twice \cup {r.id : r \in {q \in jobs : IsStuck(q, loopTime)}}
  /\ loop' = "check"
  /\ loopTime' = 0
  /\ task' = Spawned
  /\ claimed' = {}
  /\ UNCHANGED <<fileVars, up, limiter, clock, crashes, permit, stale, dirty,
                 admitted, kept>>

ClearStuck ==
  /\ loop = "clear" /\ MayWrite
  /\ jobs' = {IF IsStuck(r, loopTime) THEN [r EXCEPT !.running = Never] ELSE r
                : r \in jobs}
  /\ twice' = twice \cup {r.id : r \in {q \in jobs : IsStuck(q, loopTime)}}
  /\ loop' = "check"
  /\ loopTime' = 0
  /\ task' = Spawned
  /\ claimed' = {}
  /\ UNCHANGED <<fileVars, up, limiter, clock, crashes, permit, stale, dirty,
                 admitted, kept>>

-----------------------------------------------------------------------------
StoreStep(t) ==
  /\ up
  /\ StoreSteps(t)
  /\ UNCHANGED <<serviceVars, historyVars>>

StoreFails(t) ==
  /\ up /\ "store" \in CronFaults
  /\ OpFails(t)
  /\ UNCHANGED <<serviceVars, historyVars>>

(* delete_after_run is read of a job without a next run only: for an       *)
(* interval its value is of no matter.                                     *)
OnceOf(s) == IF s.kind = "every" /\ Computable(s) THEN {FALSE} ELSE BOOLEAN

Call(c) ==
  \/ AddRefused(c)
  \/ \E j \in Jobs, s \in Schedules : \E once \in OnceOf(s) : Add(c, j, s, once)
  \/ \E r \in jobs : Remove(c, r) \/ RunRead(c, r)
  \/ \E r \in jobs, en \in BOOLEAN, s \in Schedules : \E once \in OnceOf(s) :
       Update(c, r, en, s, once) \/ UpdateRefused(c, r, en, s, once)

TimerLoop == LoopCheck \/ LoopNotified \/ LoopSlept \/ MarkDue \/ ClearStuck

TaskSteps(t) ==
  \/ Added(t) \/ Updated(t) \/ Removed(t) \/ RunMark(t)
  \/ Reschedule(t) \/ Persist(t) \/ Disable(t) \/ Persisted(t) \/ StoreStep(t)

NextCron ==
  \/ Start \/ Crash \/ Tick \/ TimerLoop
  \/ \E c \in Clients : Call(c)
  \/ \E t \in Tasks : TaskSteps(t) \/ TurnEnds(t) \/ StoreFails(t)

(* The tasks of the runtime are polled; payloads and callers may take any  *)
(* time, and nobody restarts the process.                                  *)
CronFairness ==
  /\ WF_cronVars(TimerLoop)
  /\ \A t \in Tasks : WF_cronVars(TaskSteps(t))

CronSpec == InitCron /\ [][NextCron]_cronVars /\ CronFairness

-----------------------------------------------------------------------------
(* Properties. *)

(* The identifiers of all jobs there ever were. *)
Given == Preloaded \cup admitted

JobsOver(K) == [id : K, enabled : BOOLEAN, once : BOOLEAN, schedule : Schedules,
                next : 0 .. Never, running : 0 .. Never]
CopiesOver(K) == [id : K, once : BOOLEAN, schedule : Schedules]
OneEach(content) == \A q, r \in content : q.id = r.id => q = r
Lists(K) == {content \in SUBSET JobsOver(K) : OneEach(content)}
IsPath(path, K) == path = <<>> \/ (path = <<path[1]>> /\ path[1] \in Lists(K))
Ops(K) == [step : {"none", "backup", "rename", "ok", "failed"}]
          \cup [step : {"load"}, kind : {"save", "update"}, job : JobsOver(K)]
          \cup [step : {"load"}, kind : {"delete"}, job : CopiesOver(K)]
          \cup [step : {"write"}, content : Lists(K)]
CopyPlaces == {"updating", "removing", "mark", "turn", "reschedule", "persist",
               "persisting", "disable", "disabling", "deleting"}
TaskStates(K) == [pc : {"idle", "done"}]
                 \cup [pc : {"adding"}, job : JobsOver(K)]
                 \cup [pc : CopyPlaces, job : CopiesOver(K)]

TypeOKFile(K) ==
  /\ IsPath(file, K) /\ IsPath(tmp, K)
  /\ op \in [Tasks -> Ops(K)]
  /\ clean \in BOOLEAN

TypeOKService(K) ==
  /\ up \in BOOLEAN /\ permit \in BOOLEAN
  /\ jobs \in Lists(K)
  /\ task \in [Tasks -> TaskStates(K)]
  /\ loop \in {"off", "check", "sleeping", "due", "clear"}
  /\ loopTime \in 0 .. Never
  /\ claimed \subseteq CopiesOver(K) /\ OneEach(claimed)
  /\ clock \in 0 .. MaxClock
  /\ stale \cup dirty \cup twice \cup admitted \subseteq Jobs

CronTyped == TypeOKFile(Given) /\ TypeOKService(Given)
CronTypeOK == CronTyped /\ limiter \in Seq(0 .. clock)

(* The timer never starts a second run of a job while one goes on, unless  *)
(* it was run by hand or cleared as stuck before.                          *)
OneRunAtATime == \A j \in Jobs \ twice : Cardinality(Runs(j)) <= 1

(* The timer loop never sleeps past the next run of an enabled job, unless *)
(* the job was changed beside its run or a change of it was not stored.    *)
NeverOversleeps ==
  loop = "sleeping" /\ ~permit =>
    \A r \in jobs : r.enabled /\ r.id \notin stale \cup dirty
                      => loopTime <= r.next \/ \E t \in Tasks : task[t].pc = "updating"

(* An enabled recurring job has a next run, whatever runs, changes and     *)
(* restarts it saw, with the same exceptions.                              *)
RecurringIsScheduled ==
  \A r \in jobs : r.enabled /\ r.schedule.kind = "every" /\ Computable(r.schedule)
                    => r.next # Never \/ r.id \in stale \cup dirty

(* If no two store operations ever overlapped and none failed, the file    *)
(* has the definitions of the list whenever no operation is in flight.     *)
FileFollowsList ==
  clean /\ up /\ (\A t \in Tasks : op[t] = NoOp) =>
    \A j \in Jobs \ dirty :
      {Definition(r) : r \in {q \in jobs : q.id = j}}
        = {Definition(r) : r \in {q \in Content : q.id = j}}

(* A due job is run: neither a run that hangs nor a mark left by an        *)
(* earlier process keeps it from the timer beyond the stuck threshold.     *)
Overdue(j) ==
  /\ \E r \in jobs : /\ r.id = j /\ r.enabled /\ r.next <= clock
                     /\ r.running = Never \/ IsStuck(r, clock)
  /\ j \notin stale \cup dirty
  /\ IdleTimers # {}
DueIsRun == \A j \in Jobs : Overdue(j) ~> ~Overdue(j)

(* store_file.rs calls its writes atomic: a job that was acknowledged and  *)
(* not removed is in the list whenever the service is up.                  *)
SavedJobsSurvive == up => kept \subseteq Ids(jobs)
=============================================================================
