------------------------- MODULE CronService_proofs -------------------------
(***************************************************************************)
(* The cron scheduler, for any jobs, schedules, calls, failures and        *)
(* restarts: no job runs twice at once, the timer loop does not oversleep, *)
(* recurring jobs stay scheduled, and the file follows the list.           *)
(*                                                                         *)
(* The steps are first described by what they do to one task, to the list  *)
(* and to the store (the lemmas ShapeOf...); each part of the invariant is *)
(* then proved against these descriptions.                                 *)
(***************************************************************************)
EXTENDS CronService, FiniteSetTheorems, WellFoundedInduction, TLAPS

-----------------------------------------------------------------------------
(* The invariants. *)

Placed == {"adding"} \cup CopyPlaces

(* The process that is down has no tasks.                                  *)
DownInv ==
  ~up => /\ loop = "off" /\ claimed = {} /\ jobs = {}
         /\ \A t \in Tasks : task[t].pc \notin Placed /\ op[t] = NoOp

(* A job that is being added is known to nobody else.                      *)
AddInv ==
  \A t \in Tasks : task[t].pc = "adding" =>
    /\ task[t].job.id \notin Ids(jobs) \cup Ids(claimed)
    /\ task[t].job.id \in admitted
    /\ \A u \in Tasks : task[u].pc \in Placed /\ task[u].job.id = task[t].job.id
                          => u = t

(* The jobs that are marked to be run have slots; a job that runs or is    *)
(* claimed does so once and is marked as running.                          *)
HasRoom ==
  \E f \in [claimed -> IdleTimers] : \A q, r \in claimed : f[q] = f[r] => q = r
RunningOnce(j) ==
  /\ \A t, u \in Runs(j) : t = u
  /\ j \in Ids(claimed) => Runs(j) = {}
  /\ j \in Ids(claimed) \/ Runs(j) # {} =>
       \A r \in jobs : r.id = j => r.running # Never
RunInv ==
  /\ claimed # {} => loop = "clear"
  /\ HasRoom
  /\ \A j \in Jobs \ twice : RunningOnce(j)

(* The next run of an enabled job is not later than its schedule says, and *)
(* a copy of the job that a run will use has its schedule.                 *)
OnTime(r, now) ==
  r.enabled =>
    /\ r.next <= NextRun(r.schedule, now)
    /\ r.schedule.kind = "every" /\ Computable(r.schedule) => r.next # Never
Same(q, r) == q.id = r.id => q.schedule = r.schedule
SchedInv ==
  /\ \A r \in jobs : r.id \notin stale \cup dirty =>
       /\ OnTime(r, clock)
       /\ \A t \in Tasks : task[t].pc \in {"mark", "turn", "reschedule"}
                             => Same(task[t].job, r)
       /\ \A q \in claimed : Same(q, r)
  /\ \A t \in Tasks : task[t].pc = "adding" => OnTime(task[t].job, clock)

SleepInv ==
  loop = "sleeping" /\ ~permit =>
    \A r \in jobs : r.enabled /\ r.id \notin stale \cup dirty =>
      \/ loopTime <= r.next
      \/ \E t \in Tasks : task[t].pc = "updating" /\ task[t].job.id = r.id

(* The operation of a task is that of its place.                           *)
UpdatePlaces == {"updating", "persisting", "disabling"}
DeletePlaces == {"removing", "deleting"}
Kind(l) == CASE l = "adding" -> "save"
             [] l \in UpdatePlaces -> "update"
             [] l \in DeletePlaces -> "delete"
             [] OTHER -> "none"
OpOf(t) ==
  /\ op[t].step = "none" <=> Kind(task[t].pc) = "none"
  /\ op[t].step = "load" =>
       /\ op[t].kind = Kind(task[t].pc)
       /\ op[t].job.id = task[t].job.id
       /\ op[t].kind = "save" => op[t].job = task[t].job
       /\ op[t].kind = "update" => op[t].job \in jobs
OpInv == \A t \in Tasks : OpOf(t)

(* What the operation of a task in flight writes: the list's job or none,  *)
(* and all other jobs as they are in the file.                             *)
Def(content, j) == {Definition(r) : r \in {q \in content : q.id = j}}
OwnOf(t, content) ==
  LET j == task[t].job.id
  IN  Def(content, j) = CASE task[t].pc = "adding" -> {Definition(task[t].job)}
                          [] task[t].pc \in UpdatePlaces -> Def(jobs, j)
                          [] task[t].pc \in DeletePlaces -> {}
WritesOf(t, content) ==
  /\ OwnOf(t, content)
  /\ \A j \in Jobs \ {task[t].job.id} : Def(content, j) = Def(file[1], j)

CleanInv ==
  clean =>
    /\ \A t, u \in Tasks : InFlight(t) /\ InFlight(u) => t = u
    /\ \A t \in Tasks :
         /\ op[t].step = "write" => WritesOf(t, op[t].content)
         /\ op[t].step = "backup" => tmp # <<>> /\ WritesOf(t, tmp[1])
         /\ op[t].step = "rename" => tmp # <<>> /\ OwnOf(t, tmp[1])
    /\ file # <<>> \/ \E t \in Tasks : op[t].step = "rename"

(* The file, as it is once the operation in flight has ended.              *)
Target == IF \E t \in Tasks : op[t].step = "rename" THEN tmp[1] ELSE Content

(* An operation that has ended well did what its task asked for, and what  *)
(* a removal has taken away no operation in flight brings back.            *)
EndInv ==
  clean => \A t \in Tasks : op[t].step = "ok" =>
    /\ task[t].pc = "adding" =>
         Def(Target, task[t].job.id) = {Definition(task[t].job)}
    /\ task[t].pc \in DeletePlaces =>
         /\ Def(Target, task[t].job.id) = {}
         /\ \A u \in Tasks :
              op[u].step \in {"write", "backup"} /\ task[u].job.id = task[t].job.id
                => task[u].pc \notin UpdatePlaces

(* What a task is about to do with the file or the list.                   *)
Pending(t, j) ==
  /\ task[t].pc \in Placed /\ task[t].job.id = j
  /\ \/ /\ task[t].pc \in UpdatePlaces
        /\ op[t].step \in {"load", "write", "backup", "failed"}
     \/ /\ task[t].pc = "adding" \/ task[t].pc \in DeletePlaces
        /\ op[t].step \in {"rename", "ok"}
FollowInv ==
  clean /\ up =>
    \A j \in Jobs \ dirty :
      Def(jobs, j) = Def(Target, j) \/ \E t \in Tasks : Pending(t, j)
LockInv ==
  \A t, u \in Tasks :
    task[t].pc \in {"updating", "disabling"} /\ task[u].pc \in UpdatePlaces => t = u

CronInv ==
  /\ CronTyped /\ DownInv /\ AddInv /\ RunInv /\ SchedInv /\ SleepInv
  /\ OpInv /\ CleanInv /\ EndInv /\ FollowInv /\ LockInv
-----------------------------------------------------------------------------
(* Jobs and lists of them keep their types. *)

(* The job without an identifier, and the list with a job put in its       *)
(* place, are lists with at most one job of an identifier.                 *)
LEMMA ListsOfJobs ==
  ASSUME NEW K, NEW content \in Lists(K)
  PROVE  /\ \A j : Without(content, j) \in Lists(K)
         /\ \A r \in JobsOver(K) :
              /\ Without(content, r.id) \cup {r} \in Lists(K)
              /\ r.id \notin Ids(content) => content \cup {r} \in Lists(K)
BY DEF Lists, OneEach, Without, Ids

(* A list whose jobs are changed one by one, none in its identifier.       *)
LEMMA MappedList ==
  ASSUME NEW K, NEW content \in Lists(K), NEW f \in [content -> JobsOver(K)],
         \A r \in content : f[r].id = r.id
  PROVE  {f[r] : r \in content} \in Lists(K)
<1> DEFINE new == {f[r] : r \in content}
<1>1. new \subseteq JobsOver(K)
  OBVIOUS
<1>2. OneEach(new)
  <2> SUFFICES ASSUME NEW q \in new, NEW r \in new, q.id = r.id PROVE q = r
    BY DEF OneEach
  <2>1. PICK a \in content : q = f[a]
    OBVIOUS
  <2>2. PICK b \in content : r = f[b]
    OBVIOUS
  <2>3. a.id = b.id
    BY <2>1, <2>2
  <2>4. a = b
    BY <2>3 DEF Lists, OneEach
  <2> QED BY <2>1, <2>2, <2>4
<1> QED BY <1>1, <1>2 DEF Lists

LEMMA JobFound ==
  ASSUME NEW content, NEW j, HasJob(content, j)
  PROVE  JobOf(content, j) \in content /\ JobOf(content, j).id = j
BY DEF HasJob, JobOf

LEMMA ListParts ==
  ASSUME NEW K, NEW content \in Lists(K), NEW r \in content
  PROVE  r \in JobsOver(K)
BY DEF Lists

LEMMA CopyTyped ==
  ASSUME NEW K, NEW r \in JobsOver(K)
  PROVE  Copy(r) \in CopiesOver(K)
BY DEF Copy, JobsOver, CopiesOver

-----------------------------------------------------------------------------
(* compute_next_run. *)

(* The ticks of an interval: the next one is after the time that passed    *)
(* and at most an interval after it, and does not go back.                 *)
LEMMA Ticks ==
  ASSUME NEW a \in Nat, NEW b \in Nat, b > 0
  PROVE  /\ (a \div b + 1) * b \in Nat
         /\ a < (a \div b + 1) * b
         /\ (a \div b + 1) * b <= a + b
<1>1. a = b * (a \div b) + (a % b) /\ a % b \in 0 .. (b - 1) /\ a \div b \in Nat
  OBVIOUS
<1> DEFINE d == a \div b
<1>2. (d + 1) * b = b * d + b
  BY <1>1
<1>3. d * b \in Nat /\ b * d \in Nat
  BY <1>1
<1> QED BY <1>1, <1>2, <1>3

LEMMA TicksGrow ==
  ASSUME NEW a \in Nat, NEW b \in Nat, b > 0
  PROVE  (a \div b + 1) * b <= ((a + 1) \div b + 1) * b
<1> DEFINE d == a \div b
           e == (a + 1) \div b
<1>1. a = b * d + (a % b) /\ a % b \in 0 .. (b - 1) /\ d \in Nat
  OBVIOUS
<1>2. a + 1 = b * e + ((a + 1) % b) /\ (a + 1) % b \in 0 .. (b - 1) /\ e \in Nat
  OBVIOUS
<1>3. d <= e
  <2> SUFFICES ASSUME e < d PROVE FALSE
    BY <1>1, <1>2
  <2> HIDE DEF d, e
  <2>1. PICK k \in Nat : d = e + 1 + k
    <3>1. d - e - 1 \in Nat
      BY <1>1, <1>2
    <3> QED BY <3>1, <1>1, <1>2
  <2>2. b * d = b * e + b + b * k /\ b * k \in Nat /\ b * e \in Nat /\ b * d \in Nat
    BY <2>1, <1>1, <1>2
  <2> QED BY <2>2, <1>1, <1>2
<1> HIDE DEF d, e
<1>4. PICK k \in Nat : e = d + k
  <2>1. e - d \in Nat
    BY <1>1, <1>2, <1>3
  <2> QED BY <2>1, <1>1, <1>2
<1>5. (e + 1) * b = (d + 1) * b + k * b /\ k * b \in Nat /\ (d + 1) * b \in Nat
  BY <1>1, <1>2, <1>4
<1>6. (d + 1) * b <= (e + 1) * b
  BY <1>5
<1> QED BY <1>6 DEF d, e

(* A next run is a time, `Never' if there is none.                         *)
LEMMA NextRunTyped ==
  ASSUME NEW s \in Schedules, NEW now \in 0 .. MaxClock
  PROVE  /\ NextRun(s, now) \in 0 .. Never
         /\ s.kind = "every" /\ Computable(s) => NextRun(s, now) # Never
<1>1. /\ s.kind \in {"at", "every"}
      /\ s.at \in Nat /\ s.every \in Nat /\ s.anchor \in Nat
      /\ MaxClock + s.every < Never /\ s.at < Never /\ s.anchor <= Never
      /\ MaxClock \in Nat /\ Never \in Nat /\ now \in Nat /\ now <= MaxClock
  BY CronAssumption
<1>2. CASE s.kind = "at"
  BY <1>1, <1>2 DEF NextRun
<1>3. CASE s.kind # "at" /\ ~Computable(s)
  BY <1>1, <1>3 DEF NextRun
<1>4. CASE s.kind # "at" /\ Computable(s) /\ s.anchor = Never
  <2>1. NextRun(s, now) = now + s.every
    BY <1>4 DEF NextRun
  <2>2. now + s.every \in Nat /\ now + s.every < Never
    BY <1>1
  <2> QED BY <2>1, <2>2, <1>1
<1>5. CASE s.kind # "at" /\ Computable(s) /\ s.anchor # Never /\ s.anchor > now
  BY <1>1, <1>5 DEF NextRun
<1>6. CASE s.kind # "at" /\ Computable(s) /\ s.anchor # Never /\ ~(s.anchor > now)
  <2>1. s.every > 0 /\ now - s.anchor \in Nat
    BY <1>1, <1>6 DEF Computable
  <2>2. PICK k \in Nat : /\ k = ((now - s.anchor) \div s.every + 1) * s.every
                         /\ k <= now - s.anchor + s.every
    BY <2>1, <1>1, Ticks
  <2>3. NextRun(s, now) = s.anchor + k
    BY <1>6, <2>2 DEF NextRun
  <2>4. s.anchor + k \in Nat /\ s.anchor + k < Never
    BY <2>2, <1>1
  <2> QED BY <2>3, <2>4, <1>1
<1> QED BY <1>2, <1>3, <1>4, <1>5, <1>6

(* As time passes the next run of a schedule gets later.                   *)
LEMMA NextRunGrows ==
  ASSUME NEW s \in Schedules, NEW now \in 0 .. MaxClock, now < MaxClock
  PROVE  NextRun(s, now) <= NextRun(s, now + 1)
<1>1. /\ s.kind \in {"at", "every"}
      /\ s.at \in Nat /\ s.every \in Nat /\ s.anchor \in Nat
      /\ MaxClock + s.every < Never /\ s.at < Never /\ s.anchor <= Never
      /\ MaxClock \in Nat /\ Never \in Nat /\ now \in Nat /\ now < MaxClock
  BY CronAssumption
<1>2. CASE s.kind = "at"
  BY <1>1, <1>2 DEF NextRun
<1>3. CASE s.kind # "at" /\ ~Computable(s)
  BY <1>1, <1>3 DEF NextRun
<1>4. CASE s.kind # "at" /\ Computable(s) /\ s.anchor = Never
  BY <1>1, <1>4 DEF NextRun
<1>5. CASE s.kind # "at" /\ Computable(s) /\ s.anchor # Never /\ s.anchor > now + 1
  BY <1>1, <1>5 DEF NextRun
<1>6. CASE s.kind # "at" /\ Computable(s) /\ s.anchor # Never /\ s.anchor = now + 1
  <2>1. s.every > 0 /\ (now + 1) - s.anchor \in Nat
    BY <1>1, <1>6 DEF Computable
  <2>2. PICK k \in Nat : k = (((now + 1) - s.anchor) \div s.every + 1) * s.every
    BY <2>1, <1>1, Ticks
  <2>3. NextRun(s, now + 1) = s.anchor + k
    BY <1>1, <1>6, <2>2 DEF NextRun
  <2>4. NextRun(s, now) = s.anchor
    BY <1>1, <1>6 DEF NextRun
  <2> QED BY <2>2, <2>3, <2>4, <1>1
<1>7. CASE s.kind # "at" /\ Computable(s) /\ s.anchor # Never /\ ~(s.anchor > now)
  <2>1. s.every > 0 /\ now - s.anchor \in Nat
    BY <1>1, <1>7 DEF Computable
  <2>2. PICK a \in Nat : a = now - s.anchor
    BY <2>1
  <2>3. (now + 1) - s.anchor = a + 1
    BY <2>2, <1>1
  <2>4. PICK k \in Nat : k = (a \div s.every + 1) * s.every
    BY <2>1, <1>1, Ticks
  <2>5. PICK l \in Nat : l = ((a + 1) \div s.every + 1) * s.every
    BY <2>1, <1>1, Ticks
  <2>6. k <= l
    BY <2>4, <2>5, <2>1, <1>1, TicksGrow
  <2>7. NextRun(s, now) = s.anchor + k
    BY <1>7, <2>2, <2>4 DEF NextRun
  <2>8. NextRun(s, now + 1) = s.anchor + l
    BY <1>1, <1>7, <2>3, <2>5 DEF NextRun
  <2> QED BY <2>6, <2>7, <2>8, <1>1
<1> QED BY <1>1, <1>2, <1>3, <1>4, <1>5, <1>6, <1>7

(* The times at which a schedule asks for a run: the anchor, or the present *)
(* where there is none, and every interval after it.                        *)
Fires(s, now) ==
  IF s.kind = "at" THEN {s.at}
  ELSE IF ~Computable(s) THEN {}
  ELSE {(IF s.anchor = Never THEN now ELSE s.anchor) + k * s.every : k \in Nat}

LEMMA TickIsLeast ==
  ASSUME NEW a \in Nat, NEW b \in Nat, b > 0, NEW k \in Nat, a < k * b
  PROVE  (a \div b + 1) * b <= k * b
<1> DEFINE d == a \div b
<1>1. a = b * d + (a % b) /\ a % b \in 0 .. (b - 1) /\ d \in Nat
  OBVIOUS
<1> HIDE DEF d
<1>2. d < k
  <2> SUFFICES ASSUME k <= d PROVE FALSE
    BY <1>1
  <2>1. PICK m \in Nat : d = k + m
    <3>1. d - k \in Nat
      BY <1>1
    <3> QED BY <3>1, <1>1
  <2>2. b * d = k * b + b * m /\ b * m \in Nat /\ k * b \in Nat
    BY <1>1, <2>1
  <2> QED BY <1>1, <2>2
<1>3. PICK n \in Nat : k = d + 1 + n
  <2>1. k - (d + 1) \in Nat
    BY <1>1, <1>2
  <2> QED BY <2>1, <1>1
<1>4. k * b = (d + 1) * b + n * b /\ n * b \in Nat /\ (d + 1) * b \in Nat
  BY <1>1, <1>3
<1>5. (d + 1) * b <= k * b
  BY <1>4
<1> QED BY <1>5 DEF d

(* compute_next_run returns the first time of the schedule that is still    *)
(* to come, and none only if there is no such time: no run is skipped and   *)
(* none is put at the present or before it, wherever anchor and time are.   *)
THEOREM NextRunIsTheFirst ==
  ASSUME NEW s \in Schedules, NEW now \in 0 .. MaxClock
  PROVE  /\ NextRun(s, now) # Never
              => NextRun(s, now) \in Fires(s, now) /\ now < NextRun(s, now)
         /\ \A t \in Fires(s, now) : now < t => NextRun(s, now) # Never /\ NextRun(s, now) <= t
<1>1. /\ s.kind \in {"at", "every"}
      /\ s.at \in Nat /\ s.every \in Nat /\ s.anchor \in Nat
      /\ MaxClock + s.every < Never /\ s.at < Never /\ s.anchor <= Never
      /\ MaxClock \in Nat /\ Never \in Nat /\ now \in Nat /\ now <= MaxClock
  BY CronAssumption
<1>2. CASE s.kind = "at"
  BY <1>1, <1>2 DEF NextRun, Fires
<1>3. CASE s.kind # "at" /\ ~Computable(s)
  BY <1>1, <1>3 DEF NextRun, Fires
<1>4. CASE s.kind # "at" /\ Computable(s)
  <2>1. PICK base \in Nat : base = IF s.anchor = Never THEN now ELSE s.anchor
    BY <1>1
  <2>2. Fires(s, now) = {base + k * s.every : k \in Nat}
    BY <1>4, <2>1 DEF Fires
  <2>3. s.every > 0 /\ NextRun(s, now) # Never /\ s.kind = "every"
    BY <1>1, <1>4, NextRunTyped DEF Computable
  <2>4. CASE base > now
    <3>1. NextRun(s, now) = base
      BY <1>1, <1>4, <2>1, <2>4 DEF NextRun
    <3>2. base = base + 0 * s.every
      BY <1>1
    <3>3. ASSUME NEW k \in Nat PROVE base <= base + k * s.every
      <4>1. k * s.every \in Nat
        BY <1>1
      <4> QED BY <4>1
    <3> QED BY <2>2, <2>3, <2>4, <3>1, <3>2, <3>3
  <2>5. CASE ~(base > now)
    <3>1. PICK a \in Nat : a = now - base
      BY <1>1, <2>5
    <3>2. PICK n \in Nat : n = a \div s.every + 1
      BY <1>1, <2>3
    <3>3. n * s.every \in Nat /\ a < n * s.every
      BY <1>1, <2>3, <3>2, Ticks
    <3>4. NextRun(s, now) = base + n * s.every
      <4>1. CASE s.anchor = Never
        <5>1. a = 0 /\ 0 \div s.every = 0
          BY <1>1, <2>1, <2>3, <3>1, <4>1
        <5>2. n = 1 /\ n * s.every = s.every
          BY <1>1, <3>2, <5>1
        <5> QED BY <1>4, <2>1, <4>1, <5>2 DEF NextRun
      <4>2. CASE s.anchor # Never
        <5>1. base = s.anchor /\ ~(s.anchor > now)
          BY <2>1, <2>5, <4>2
        <5> QED BY <1>4, <3>1, <3>2, <4>2, <5>1 DEF NextRun
      <4> QED BY <4>1, <4>2
    <3>5. now < base + n * s.every
      BY <1>1, <2>1, <3>1, <3>3
    <3>6. ASSUME NEW k \in Nat, now < base + k * s.every
          PROVE  base + n * s.every <= base + k * s.every
      <4>1. k * s.every \in Nat
        BY <1>1
      <4>2. a < k * s.every
        BY <1>1, <2>1, <3>1, <3>6, <4>1
      <4>3. n * s.every <= k * s.every
        BY <1>1, <2>3, <3>2, <4>2, TickIsLeast
      <4> QED BY <3>3, <4>1, <4>3
    <3> QED BY <2>2, <2>3, <3>4, <3>5, <3>6
  <2> QED BY <2>4, <2>5
<1> QED BY <1>2, <1>3, <1>4

LEMMA ScheduledTyped ==
  ASSUME NEW K, NEW r \in JobsOver(K), NEW now \in 0 .. MaxClock
  PROVE  /\ Scheduled(r, now) \in JobsOver(K)
         /\ Scheduled(r, now).id = r.id
         /\ OnTime(Scheduled(r, now), now)
         /\ Definition(Scheduled(r, now)) = Definition(r)
         /\ Scheduled(r, now).enabled = r.enabled
         /\ Scheduled(r, now).schedule = r.schedule
         /\ Scheduled(r, now).once = r.once
         /\ Scheduled(r, now).running = r.running
<1>1. r.schedule \in Schedules /\ Never \in 0 .. Never
  BY CronAssumption DEF JobsOver
<1>2. PICK n \in 0 .. Never :
        /\ n = IF r.enabled THEN NextRun(r.schedule, now) ELSE Never
        /\ r.enabled /\ r.schedule.kind = "every" /\ Computable(r.schedule) => n # Never
        /\ r.enabled => n = NextRun(r.schedule, now)
        /\ n <= n
  BY <1>1, NextRunTyped
<1>3. Scheduled(r, now) = [r EXCEPT !.next = n]
  BY <1>2 DEF Scheduled
<1>4. /\ [r EXCEPT !.next = n] \in JobsOver(K)
      /\ [r EXCEPT !.next = n].id = r.id
      /\ [r EXCEPT !.next = n].enabled = r.enabled
      /\ [r EXCEPT !.next = n].schedule = r.schedule
      /\ [r EXCEPT !.next = n].once = r.once
      /\ [r EXCEPT !.next = n].running = r.running
      /\ [r EXCEPT !.next = n].next = n
  BY DEF JobsOver
<1>5. Definition([r EXCEPT !.next = n]) = Definition(r)
  BY <1>4 DEF Definition
<1> HIDE DEF Scheduled
<1> QED BY <1>2, <1>3, <1>4, <1>5 DEF OnTime
-----------------------------------------------------------------------------
(* The store of the jobs keeps its types. *)

Whole(kind, job, K) ==
  \/ kind \in {"save", "update"} /\ job \in JobsOver(K)
  \/ kind = "delete" /\ job \in CopiesOver(K)

LEMMA ContentTyped ==
  ASSUME NEW K, TypeOKFile(K)
  PROVE  Content \in Lists(K)
BY DEF TypeOKFile, IsPath, Content, Lists, OneEach

LEMMA OpTyped ==
  ASSUME NEW K, NEW o \in Ops(K)
  PROVE  /\ o.step \in {"none", "load", "write", "backup", "rename", "ok", "failed"}
         /\ o.step = "load" => Whole(o.kind, o.job, K)
         /\ o.step = "write" => o.content \in Lists(K)
BY DEF Ops, Whole

LEMMA OpMade ==
  ASSUME NEW K
  PROVE  /\ \A s \in {"none", "backup", "rename", "ok", "failed"} : [step |-> s] \in Ops(K)
         /\ \A kind, job : Whole(kind, job, K) =>
              [step |-> "load", kind |-> kind, job |-> job] \in Ops(K)
         /\ \A c \in Lists(K) : [step |-> "write", content |-> c] \in Ops(K)
BY DEF Ops, Whole

LEMMA BeginTyped ==
  ASSUME NEW K, TypeOKFile(K), NEW t \in Tasks, NEW kind, NEW job,
         Whole(kind, job, K), Begin(t, kind, job)
  PROVE  TypeOKFile(K)'
<1>1. [step |-> "load", kind |-> kind, job |-> job] \in Ops(K)
  BY OpMade
<1>2. op' \in [Tasks -> Ops(K)]
  BY <1>1 DEF Begin, TypeOKFile
<1>3. clean' \in BOOLEAN /\ file' = file /\ tmp' = tmp
  BY DEF Begin, TypeOKFile
<1> QED BY <1>2, <1>3 DEF TypeOKFile

LEMMA TakenTyped ==
  ASSUME NEW K, TypeOKFile(K), NEW t \in Tasks, Taken(t)
  PROVE  TypeOKFile(K)'
<1>1. NoOp \in Ops(K)
  BY OpMade DEF NoOp
<1> QED BY <1>1 DEF Taken, TypeOKFile

LEMMA FileKept ==
  ASSUME NEW K, TypeOKFile(K), UNCHANGED fileVars
  PROVE  TypeOKFile(K)'
BY DEF TypeOKFile, fileVars

LEMMA PathMade ==
  ASSUME NEW K
  PROVE  IsPath(<<>>, K) /\ \A c \in Lists(K) : IsPath(<<c>>, K)
BY DEF IsPath

LEMMA StoreTyped ==
  ASSUME NEW K, TypeOKFile(K), NEW t \in Tasks, StoreSteps(t) \/ OpFails(t)
  PROVE  TypeOKFile(K)'
<1>1. op[t] \in Ops(K)
  BY DEF TypeOKFile
<1> USE OpMade
<1>2. CASE LoadJobs(t)
  <2>1. Whole(op[t].kind, op[t].job, K)
    BY <1>1, <1>2, OpTyped DEF LoadJobs
  <2>2. Changed(op[t].kind, op[t].job) \in Lists(K)
    <3>1. Content \in Lists(K)
      BY ContentTyped
    <3>2. CASE op[t].kind = "delete"
      BY <3>1, <3>2, ListsOfJobs DEF Changed
    <3>3. CASE op[t].kind # "delete"
      BY <3>1, <3>3, <2>1, ListsOfJobs DEF Changed, Whole
    <3> QED BY <3>2, <3>3
  <2>3. PICK o \in Ops(K) : op' = [op EXCEPT ![t] = o]
    BY <2>2, <1>2 DEF LoadJobs
  <2> QED BY <2>3, <1>2 DEF LoadJobs, TypeOKFile
<1>3. CASE LoadVanished(t)
  BY <1>3 DEF LoadVanished, TypeOKFile
<1>4. CASE WriteTmp(t)
  <2>1. op[t].content \in Lists(K)
    BY <1>1, <1>4, OpTyped DEF WriteTmp
  <2>2. IsPath(tmp', K)
    BY <2>1, <1>4, PathMade DEF WriteTmp
  <2> QED BY <2>2, <1>4 DEF WriteTmp, TypeOKFile
<1>5. CASE Backup(t)
  BY <1>5, PathMade DEF Backup, TypeOKFile
<1>6. CASE Rename(t)
  <2>1. IsPath(file', K) /\ IsPath(tmp', K) /\ clean' = clean
    BY <1>6, PathMade DEF Rename, TypeOKFile
  <2>2. PICK o \in Ops(K) : op' = [op EXCEPT ![t] = o]
    BY <1>6 DEF Rename
  <2> QED BY <2>1, <2>2 DEF TypeOKFile
<1>7. CASE OpFails(t)
  BY <1>7 DEF OpFails, TypeOKFile
<1> QED BY <1>2, <1>3, <1>4, <1>5, <1>6, <1>7 DEF StoreSteps

LEMMA CrashFileTyped ==
  ASSUME NEW K, TypeOKFile(K), CrashFile
  PROVE  TypeOKFile(K)'
<1>1. NoOp \in Ops(K)
  BY OpMade DEF NoOp
<1>2. op' \in [Tasks -> Ops(K)]
  BY <1>1 DEF CrashFile
<1>3. clean' \in BOOLEAN /\ file' = file /\ tmp' = tmp
  BY DEF CrashFile, TypeOKFile
<1> QED BY <1>2, <1>3 DEF TypeOKFile

-----------------------------------------------------------------------------
(* The tasks. *)

LEMMA TaskTyped ==
  ASSUME NEW K, NEW s \in TaskStates(K)
  PROVE  /\ s.pc \in {"idle", "done", "adding"} \cup CopyPlaces
         /\ s.pc = "adding" => s.job \in JobsOver(K)
         /\ s.pc \in CopyPlaces => s.job \in CopiesOver(K)
         /\ s.pc \in Placed => s.job.id \in K
         /\ s.pc = "idle" => s = Idle
BY DEF TaskStates, CopyPlaces, Placed, Idle, JobsOver, CopiesOver

LEMMA TaskMade ==
  ASSUME NEW K
  PROVE  /\ Idle \in TaskStates(K)
         /\ [pc |-> "done"] \in TaskStates(K)
         /\ \A r \in JobsOver(K) : [pc |-> "adding", job |-> r] \in TaskStates(K)
         /\ \A l \in CopyPlaces, q \in CopiesOver(K) :
              [pc |-> l, job |-> q] \in TaskStates(K)
         /\ \A t : Over(t) \in TaskStates(K)
BY DEF TaskStates, CopyPlaces, Idle, Over

(* A task that goes on to another place with its job.                      *)
LEMMA GoesTyped ==
  ASSUME NEW K, task \in [Tasks -> TaskStates(K)], NEW t \in Tasks,
         task[t].pc \in CopyPlaces, NEW l \in CopyPlaces, Goes(t, l)
  PROVE  /\ task' \in [Tasks -> TaskStates(K)]
         /\ task' = [task EXCEPT ![t] = [pc |-> l, job |-> task[t].job]]
<1>1. task[t] \in [pc : CopyPlaces, job : CopiesOver(K)]
  BY DEF TaskStates, CopyPlaces
<1>2. [task[t] EXCEPT !.pc = l] = [pc |-> l, job |-> task[t].job]
  BY <1>1
<1>3. [pc |-> l, job |-> task[t].job] \in TaskStates(K)
  BY <1>1 DEF TaskStates
<1>4. task' = [task EXCEPT ![t] = [pc |-> l, job |-> task[t].job]]
  BY <1>2 DEF Goes
<1> QED BY <1>3, <1>4

LEMMA EndsTyped ==
  ASSUME NEW K, task \in [Tasks -> TaskStates(K)], NEW t \in Tasks, Ends(t)
  PROVE  task' \in [Tasks -> TaskStates(K)]
BY TaskMade DEF Ends

(* A call that begins takes a job of the list.                             *)
LEMMA CallTyped ==
  ASSUME NEW K, task \in [Tasks -> TaskStates(K)], NEW c \in Tasks,
         NEW l \in CopyPlaces, NEW q \in CopiesOver(K),
         task' = [task EXCEPT ![c] = [pc |-> l, job |-> q]]
  PROVE  task' \in [Tasks -> TaskStates(K)]
BY TaskMade

LEMMA Grow ==
  ASSUME NEW K, NEW L, K \subseteq L
  PROVE  /\ JobsOver(K) \subseteq JobsOver(L)
         /\ CopiesOver(K) \subseteq CopiesOver(L)
         /\ Lists(K) \subseteq Lists(L)
         /\ Ops(K) \subseteq Ops(L)
         /\ TaskStates(K) \subseteq TaskStates(L)
         /\ TypeOKFile(K) => TypeOKFile(L)
         /\ TypeOKService(K) => TypeOKService(L)
<1>1. JobsOver(K) \subseteq JobsOver(L)
  BY DEF JobsOver
<1>2. CopiesOver(K) \subseteq CopiesOver(L)
  BY DEF CopiesOver
<1>3. Lists(K) \subseteq Lists(L)
  BY <1>1 DEF Lists
<1>4. Ops(K) \subseteq Ops(L)
  BY <1>1, <1>2, <1>3 DEF Ops
<1>5. TaskStates(K) \subseteq TaskStates(L)
  BY <1>1, <1>2 DEF TaskStates
<1>6. TypeOKFile(K) => TypeOKFile(L)
  BY <1>3, <1>4 DEF TypeOKFile, IsPath
<1>7. TypeOKService(K) => TypeOKService(L)
  BY <1>2, <1>3, <1>5 DEF TypeOKService
<1> QED BY <1>1, <1>2, <1>3, <1>4, <1>5, <1>6, <1>7

-----------------------------------------------------------------------------
(* ms_until_next_wake: the loop sleeps until the earliest of the next runs. *)
LEMMA Earliest ==
  ASSUME NEW S, S \subseteq Nat, S # {}
  PROVE  \E w \in S : \A v \in S : w <= v
<1> DEFINE Less == {ss \in Nat \X Nat : ss[1] < ss[2]}
<1>1. OpToRel(<, Nat) = Less
  BY Zenon DEF OpToRel
<1>2. IsWellFoundedOn(Less, Nat)
  BY <1>1, NatLessThanWellFounded, Zenon
<1>3. \A v, w \in Nat : <<v, w>> \in Less <=> v < w
  OBVIOUS
<1> HIDE DEF Less
<1>4. PICK w \in S : \A v \in S : ~(<<v, w>> \in Less)
  BY <1>2, WFMin
<1>5. \A v \in S : ~(v < w)
  BY <1>3, <1>4
<1> QED BY <1>5

LEMMA CheckWakes ==
  ASSUME NEW K, TypeOKService(K), LoopCheck
  PROVE  /\ loopTime' \in 0 .. Never
         /\ loop' \in {"due", "sleeping"}
         /\ loop' = "sleeping" =>
              \A r \in jobs : r.enabled => loopTime' <= r.next
<1> DEFINE wake == IF WakeTimes = {} THEN clock + Poll
                   ELSE CHOOSE w \in WakeTimes : \A v \in WakeTimes : w <= v
<1>1. /\ clock \in Nat /\ Poll \in Nat /\ Never \in Nat /\ MaxClock \in Nat
      /\ clock <= MaxClock /\ MaxClock + Poll < Never
  BY CronAssumption DEF TypeOKService
<1>2. \A r \in jobs : r.next \in 0 .. Never
  BY DEF TypeOKService, Lists, JobsOver
<1>3. WakeTimes \subseteq 0 .. Never
  BY <1>2 DEF WakeTimes
<1>4. /\ wake \in 0 .. Never
      /\ \A r \in jobs : r.enabled => wake <= r.next
  <2>1. CASE WakeTimes = {}
    <3>1. wake = clock + Poll
      BY <2>1
    <3>2. \A r \in jobs : r.enabled => r.next = Never
      BY <2>1 DEF WakeTimes
    <3> HIDE DEF wake
    <3>3. wake \in 0 .. Never /\ wake <= Never
      <4>1. clock + Poll \in Nat /\ clock + Poll <= Never
        BY <1>1
      <4> QED BY <3>1, <4>1, <1>1
    <3> QED BY <3>2, <3>3
  <2>2. CASE WakeTimes # {}
    <3>1. \E w \in WakeTimes : \A v \in WakeTimes : w <= v
      <4>1. WakeTimes \subseteq Nat
        BY <1>1, <1>3
      <4> HIDE DEF wake
      <4> QED BY <2>2, <4>1, Earliest
    <3>2. wake \in WakeTimes /\ \A v \in WakeTimes : wake <= v
      BY <2>2, <3>1
    <3> HIDE DEF wake
    <3>3. wake \in 0 .. Never
      BY <3>2, <1>3
    <3>4. ASSUME NEW r \in jobs, r.enabled PROVE wake <= r.next
      <4>1. CASE r.next = Never
        BY <4>1, <3>3, <1>1
      <4>2. CASE r.next # Never
        <5>1. r.next \in WakeTimes
          BY <3>4, <4>2 DEF WakeTimes
        <5> QED BY <5>1, <3>2
      <4> QED BY <4>1, <4>2
    <3> QED BY <3>3, <3>4
  <2> QED BY <2>1, <2>2
<1>5. IF wake <= clock THEN loop' = "due" /\ loopTime' = 0
                       ELSE loop' = "sleeping" /\ loopTime' = wake
  BY DEF LoopCheck
<1> HIDE DEF wake
<1> QED BY <1>1, <1>4, <1>5
-----------------------------------------------------------------------------
(* Every step of the service keeps the types.                              *)

Typed(K) == TypeOKFile(K) /\ TypeOKService(K)

LEMMA TypedParts ==
  ASSUME NEW K, Typed(K)
  PROVE  /\ TypeOKFile(K) /\ TypeOKService(K)
         /\ jobs \in Lists(K)
         /\ \A r \in jobs : r \in JobsOver(K) /\ r.id \in K /\ Copy(r) \in CopiesOver(K)
                            /\ r.schedule \in Schedules /\ r.next \in 0 .. Never
         /\ task \in [Tasks -> TaskStates(K)]
         /\ \A t \in Tasks :
              /\ task[t].pc \in {"idle", "done", "adding"} \cup CopyPlaces
              /\ task[t].pc = "adding" => task[t].job \in JobsOver(K)
              /\ task[t].pc \in CopyPlaces => task[t].job \in CopiesOver(K)
              /\ task[t].pc \in Placed => task[t].job.id \in K
         /\ clock \in 0 .. MaxClock
         /\ Content \in Lists(K)
<1>1. TypeOKFile(K) /\ TypeOKService(K)
  BY DEF Typed
<1>2. jobs \in Lists(K) /\ task \in [Tasks -> TaskStates(K)] /\ clock \in 0 .. MaxClock
  BY <1>1 DEF TypeOKService
<1>3. \A r \in jobs : r \in JobsOver(K)
  BY <1>2, ListParts
<1>4. \A r \in jobs : r.id \in K /\ Copy(r) \in CopiesOver(K)
                      /\ r.schedule \in Schedules /\ r.next \in 0 .. Never
  BY <1>3, CopyTyped DEF JobsOver
<1>5. ASSUME NEW t \in Tasks
      PROVE  /\ task[t].pc \in {"idle", "done", "adding"} \cup CopyPlaces
             /\ task[t].pc = "adding" => task[t].job \in JobsOver(K)
             /\ task[t].pc \in CopyPlaces => task[t].job \in CopiesOver(K)
             /\ task[t].pc \in Placed => task[t].job.id \in K
  <2>1. task[t] \in TaskStates(K)
    BY <1>2
  <2> QED BY <2>1, TaskTyped
<1> QED BY <1>1, <1>2, <1>3, <1>4, <1>5, ContentTyped

(* A step that changes no job but in next_run_at_ms and running_at_ms.     *)
LEMMA MarkedList ==
  ASSUME NEW K, NEW content \in Lists(K), NEW p \in [content -> BOOLEAN],
         NEW next \in [content -> 0 .. Never], NEW running \in 0 .. Never
  PROVE  {IF p[r] THEN [r EXCEPT !.running = running, !.next = next[r]] ELSE r
            : r \in content} \in Lists(K)
<1> DEFINE F(r) == IF p[r] THEN [r EXCEPT !.running = running, !.next = next[r]] ELSE r
           f == [r \in content |-> F(r)]
<1>1. ASSUME NEW r \in content PROVE F(r) \in JobsOver(K) /\ F(r).id = r.id
  <2>1. r \in JobsOver(K)
    BY ListParts
  <2>2. next[r] \in 0 .. Never
    OBVIOUS
  <2> QED BY <2>1, <2>2 DEF JobsOver
<1>2. f \in [content -> JobsOver(K)] /\ \A r \in content : f[r] = F(r)
  BY <1>1
<1> HIDE DEF F
<1>3. \A r \in content : f[r].id = r.id
  BY <1>1, <1>2
<1>4. {f[r] : r \in content} \in Lists(K)
  <2> HIDE DEF f
  <2> QED BY <1>2, <1>3, MappedList
<1>5. {f[r] : r \in content} = {F(r) : r \in content}
  BY <1>2
<1> QED BY <1>4, <1>5 DEF F

LEMMA TypedStart ==
  ASSUME NEW K, Typed(K), Start
  PROVE  Typed(K)'
<1> DEFINE F(r) == IF r.enabled THEN Scheduled(r, clock) ELSE r
           f == [r \in Content |-> F(r)]
<1>1. Content \in Lists(K) /\ clock \in 0 .. MaxClock
  BY TypedParts
<1>2. ASSUME NEW r \in Content PROVE F(r) \in JobsOver(K) /\ F(r).id = r.id
  BY <1>1, ListParts, ScheduledTyped
<1>3. f \in [Content -> JobsOver(K)] /\ \A r \in Content : f[r] = F(r)
  BY <1>2
<1>4. jobs' = {F(r) : r \in Content}
  BY DEF Start
<1> HIDE DEF F
<1>5. \A r \in Content : f[r].id = r.id
  BY <1>2, <1>3
<1>6. {f[r] : r \in Content} \in Lists(K)
  <2> HIDE DEF f
  <2> QED BY <1>1, <1>3, <1>5, MappedList
<1>7. jobs' \in Lists(K)
  BY <1>3, <1>4, <1>6
<1>8. TypeOKFile(K)'
  BY FileKept DEF Typed, Start
<1> QED BY <1>7, <1>8 DEF Typed, TypeOKService, Start, historyVars

LEMMA TypedCrash ==
  ASSUME NEW K, Typed(K), Crash
  PROVE  Typed(K)'
<1>1. TypeOKFile(K)'
  BY CrashFileTyped DEF Typed, Crash
<1>2. task' \in [Tasks -> TaskStates(K)]
  BY TaskMade DEF Crash
<1>3. jobs' \in Lists(K)
  BY DEF Crash, Lists, OneEach
<1>4. 0 \in 0 .. Never
  BY CronAssumption
<1>5. /\ up' \in BOOLEAN /\ permit' \in BOOLEAN
      /\ loop' \in {"off", "check", "sleeping", "due", "clear"}
      /\ loopTime' \in 0 .. Never
      /\ claimed' \subseteq CopiesOver(K) /\ OneEach(claimed')
      /\ clock' \in 0 .. MaxClock
  BY <1>4 DEF Crash, Typed, TypeOKService, OneEach
<1>6. (stale \cup dirty \cup twice \cup admitted \subseteq Jobs)'
  BY DEF Crash, Typed, TypeOKService, historyVars
<1> QED BY <1>1, <1>2, <1>3, <1>5, <1>6 DEF Typed, TypeOKService

LEMMA TypedTick ==
  ASSUME NEW K, Typed(K), Tick
  PROVE  Typed(K)'
<1>1. TypeOKFile(K)'
  BY FileKept DEF Typed, Tick
<1>2. clock' \in 0 .. MaxClock
  BY CronAssumption DEF Typed, TypeOKService, Tick
<1> QED BY <1>1, <1>2 DEF Typed, TypeOKService, Tick, historyVars

LEMMA TypedLoop ==
  ASSUME NEW K, Typed(K), LoopCheck \/ LoopNotified \/ LoopSlept
  PROVE  Typed(K)'
<1>1. /\ TypeOKFile(K)'
      /\ UNCHANGED <<up, jobs, task, claimed, clock, stale, dirty, twice, admitted>>
      /\ permit' \in BOOLEAN /\ loop' \in {"off", "check", "sleeping", "due", "clear"}
  <2>1. CASE LoopCheck
    BY <2>1, FileKept DEF LoopCheck, KeepTasks, Typed, TypeOKService, historyVars
  <2>2. CASE LoopNotified
    BY <2>2, FileKept DEF LoopNotified, KeepTasks, Typed, TypeOKService, historyVars
  <2>3. CASE LoopSlept
    BY <2>3, FileKept DEF LoopSlept, KeepTasks, Typed, TypeOKService, historyVars
  <2> QED BY <2>1, <2>2, <2>3
<1>2. 0 \in 0 .. Never
  BY CronAssumption
<1>3. loopTime' \in 0 .. Never
  <2>1. CASE LoopCheck
    BY <2>1, CheckWakes, <1>2 DEF Typed
  <2>2. CASE LoopNotified \/ LoopSlept
    BY <2>2, <1>2 DEF LoopNotified, LoopSlept
  <2> QED BY <2>1, <2>2
<1> QED BY <1>1, <1>3 DEF Typed, TypeOKService
(* The changes of the list, as they are written in the actions.            *)
LEMMA ReschedulesTyped ==
  ASSUME NEW K, jobs \in Lists(K), NEW j, NEW next \in 0 .. Never
  PROVE  {IF r.id = j THEN [r EXCEPT !.running = Never, !.next = next] ELSE r
            : r \in jobs} \in Lists(K)
<1> DEFINE p == [r \in jobs |-> r.id = j]
           n == [r \in jobs |-> next]
           L == {IF p[r] THEN [r EXCEPT !.running = Never, !.next = n[r]] ELSE r : r \in jobs}
<1>1. p \in [jobs -> BOOLEAN] /\ n \in [jobs -> 0 .. Never] /\ Never \in 0 .. Never
  BY CronAssumption
<1>2. L \in Lists(K)
  <2> HIDE DEF p, n
  <2> QED BY <1>1, MarkedList
<1>3. L = {IF r.id = j THEN [r EXCEPT !.running = Never, !.next = next] ELSE r : r \in jobs}
  OBVIOUS
<1> QED BY <1>2, <1>3

LEMMA MarksTyped ==
  ASSUME NEW K, jobs \in Lists(K), NEW S, NEW running \in 0 .. Never
  PROVE  {IF r \in S THEN [r EXCEPT !.running = running] ELSE r : r \in jobs} \in Lists(K)
<1> DEFINE p == [r \in jobs |-> r \in S]
           n == [r \in jobs |-> r.next]
           L == {IF p[r] THEN [r EXCEPT !.running = running, !.next = n[r]] ELSE r : r \in jobs}
<1>1. \A r \in jobs : r \in JobsOver(K) /\ r.next \in 0 .. Never
  BY DEF Lists, JobsOver
<1>2. p \in [jobs -> BOOLEAN] /\ n \in [jobs -> 0 .. Never]
  BY <1>1
<1>3. L \in Lists(K)
  <2> HIDE DEF p, n
  <2> QED BY <1>2, MarkedList
<1>4. ASSUME NEW r \in jobs
      PROVE  [r EXCEPT !.running = running, !.next = n[r]] = [r EXCEPT !.running = running]
  <2>1. r \in JobsOver(K) /\ n[r] = r.next
    BY <1>1
  <2> HIDE DEF n
  <2> QED BY <2>1 DEF JobsOver
<1>5. L = {IF r \in S THEN [r EXCEPT !.running = running] ELSE r : r \in jobs}
  <2> HIDE DEF n
  <2> QED BY <1>4
<1> QED BY <1>3, <1>5

LEMMA TypedMarkDue ==
  ASSUME NEW K, Typed(K), MarkDue
  PROVE  Typed(K)'
<1> DEFINE due == {r \in jobs : Due(r)}
<1>1. jobs \in Lists(K) /\ clock \in 0 .. Never
  BY TypedParts, CronAssumption
<1>2. /\ jobs' = {IF r \in due THEN [r EXCEPT !.running = clock] ELSE r : r \in jobs}
      /\ claimed' = {Copy(r) : r \in due}
  BY DEF MarkDue
<1>3. jobs' \in Lists(K)
  <2> HIDE DEF due
  <2> QED BY <1>1, <1>2, MarksTyped
<1>4. claimed' \subseteq CopiesOver(K)
  BY <1>2, TypedParts
<1>5. OneEach(claimed)'
  <2> SUFFICES ASSUME NEW q \in claimed', NEW r \in claimed', q.id = r.id PROVE q = r
    BY DEF OneEach
  <2>1. PICK a \in jobs : q = Copy(a)
    BY <1>2
  <2>2. PICK b \in jobs : r = Copy(b)
    BY <1>2
  <2>3. a.id = b.id
    BY <2>1, <2>2 DEF Copy
  <2>4. a = b
    BY <1>1, <2>3 DEF Lists, OneEach
  <2> QED BY <2>1, <2>2, <2>4
<1>6. TypeOKFile(K)'
  BY FileKept DEF Typed, MarkDue, KeepTasks
<1>7. /\ UNCHANGED <<up, task, permit, clock, stale, dirty, twice, admitted>>
      /\ loop' = "clear" /\ loopTime' \in 0 .. Never
  BY <1>1 DEF MarkDue, KeepTasks, historyVars
<1> QED BY <1>3, <1>4, <1>5, <1>6, <1>7 DEF Typed, TypeOKService

LEMMA SpawnedTyped ==
  ASSUME NEW K, Typed(K)
  PROVE  Spawned \in [Tasks -> TaskStates(K)]
<1> DEFINE slot == CHOOSE f \in [claimed -> IdleTimers] :
                     \A q, r \in claimed : f[q] = f[r] => q = r
<1> HIDE DEF slot
<1>1. Spawned = [t \in Tasks |-> IF \E r \in claimed : slot[r] = t
                         THEN [pc |-> "turn", job |-> CHOOSE r \in claimed : slot[r] = t]
                         ELSE task[t]]
  BY DEF Spawned, slot
<1>2. ASSUME NEW t \in Tasks
      PROVE  (IF \E r \in claimed : slot[r] = t
                THEN [pc |-> "turn", job |-> CHOOSE r \in claimed : slot[r] = t]
                ELSE task[t]) \in TaskStates(K)
  <2>1. CASE \E r \in claimed : slot[r] = t
    <3>1. (CHOOSE r \in claimed : slot[r] = t) \in claimed
      BY <2>1
    <3>2. (CHOOSE r \in claimed : slot[r] = t) \in CopiesOver(K)
      BY <3>1 DEF Typed, TypeOKService
    <3> HIDE DEF slot
    <3>3. [pc |-> "turn", job |-> CHOOSE r \in claimed : slot[r] = t] \in TaskStates(K)
      BY <3>2, TaskMade DEF CopyPlaces
    <3> QED BY <2>1, <3>3
  <2>2. CASE ~\E r \in claimed : slot[r] = t
    BY <2>2 DEF Typed, TypeOKService
  <2> QED BY <2>1, <2>2
<1> QED BY <1>1, <1>2

LEMMA TypedClearStuck ==
  ASSUME NEW K, K \subseteq Jobs, Typed(K), ClearStuck
  PROVE  Typed(K)'
<1> DEFINE stuck == {r \in jobs : IsStuck(r, loopTime)}
<1>1. jobs \in Lists(K) /\ Never \in 0 .. Never /\ 0 \in 0 .. Never
  BY TypedParts, CronAssumption
<1>2. jobs' = {IF r \in stuck THEN [r EXCEPT !.running = Never] ELSE r : r \in jobs}
  BY DEF ClearStuck
<1>3. jobs' \in Lists(K)
  <2> HIDE DEF stuck
  <2> QED BY <1>1, <1>2, MarksTyped
<1>4. task' \in [Tasks -> TaskStates(K)]
  BY SpawnedTyped DEF ClearStuck
<1>5. TypeOKFile(K)'
  BY FileKept DEF Typed, ClearStuck
<1>6. (stale \cup dirty \cup twice \cup admitted \subseteq Jobs)'
  <2>1. \A r \in jobs : r.id \in Jobs
    BY TypedParts
  <2> QED BY <2>1 DEF ClearStuck, Typed, TypeOKService
<1>7. /\ UNCHANGED <<up, permit, clock>> /\ loop' = "check" /\ loopTime' \in 0 .. Never
      /\ claimed' \subseteq CopiesOver(K) /\ OneEach(claimed)'
  BY <1>1 DEF ClearStuck, OneEach
<1> QED BY <1>3, <1>4, <1>5, <1>6, <1>7 DEF Typed, TypeOKService
(* What a step of a call or a run leaves to show.                          *)
LEMMA StepTyped ==
  ASSUME NEW K, Typed(K), TypeOKFile(K)',
         UNCHANGED <<up, loop, loopTime, claimed, clock>>,
         jobs' \in Lists(K), task' \in [Tasks -> TaskStates(K)],
         permit' \in BOOLEAN,
         stale' \subseteq Jobs, dirty' \subseteq Jobs,
         twice' \subseteq Jobs, admitted' \subseteq Jobs
  PROVE  Typed(K)'
BY DEF Typed, TypeOKService

LEMMA HistoriesTyped ==
  ASSUME NEW K, Typed(K)
  PROVE  /\ stale \subseteq Jobs /\ dirty \subseteq Jobs
         /\ twice \subseteq Jobs /\ admitted \subseteq Jobs
         /\ permit \in BOOLEAN
         /\ \A j \in Jobs : stale \cup {j} \subseteq Jobs /\ dirty \cup {j} \subseteq Jobs
                            /\ twice \cup {j} \subseteq Jobs
BY DEF Typed, TypeOKService

LEMMA TypedAddRefused ==
  ASSUME NEW K, Typed(K), NEW c \in Tasks, AddRefused(c)
  PROVE  Typed(K)'
<1>1. task' \in [Tasks -> TaskStates(K)]
  BY TypedParts, EndsTyped DEF AddRefused
<1>2. TypeOKFile(K)'
  BY TypedParts, FileKept DEF AddRefused
<1>3. /\ UNCHANGED <<up, loop, loopTime, claimed, clock>>
      /\ jobs' = jobs /\ permit' = permit /\ stale' = stale /\ dirty' = dirty
      /\ twice' = twice /\ admitted' = admitted
  BY DEF AddRefused
<1> QED BY <1>1, <1>2, <1>3, TypedParts, HistoriesTyped, StepTyped

(* A new job has a new identifier.                                         *)
LEMMA NewJob ==
  ASSUME NEW L, NEW j \in L, NEW s \in Schedules, NEW once \in BOOLEAN,
         clock \in 0 .. MaxClock
  PROVE  LET r == [id |-> j, enabled |-> TRUE, once |-> once,
                   schedule |-> s, next |-> Never, running |-> Never]
         IN  /\ r \in JobsOver(L)
             /\ Scheduled(r, clock) \in JobsOver(L)
             /\ Scheduled(r, clock).id = j
             /\ OnTime(Scheduled(r, clock), clock)
<1> DEFINE r == [id |-> j, enabled |-> TRUE, once |-> once,
                 schedule |-> s, next |-> Never, running |-> Never]
<1>1. r \in JobsOver(L) /\ r.id = j
  BY CronAssumption DEF JobsOver
<1> HIDE DEF r
<1>2. /\ Scheduled(r, clock) \in JobsOver(L)
      /\ Scheduled(r, clock).id = r.id
      /\ OnTime(Scheduled(r, clock), clock)
  BY <1>1, ScheduledTyped
<1> QED BY <1>1, <1>2 DEF r

AddedJob(K, c, j) ==
  \E r \in JobsOver(K \cup {j}) :
    /\ r.id = j /\ OnTime(r, clock)
    /\ Begin(c, "save", r)
    /\ task' = [task EXCEPT ![c] = [pc |-> "adding", job |-> r]]

LEMMA AddParts ==
  ASSUME NEW K, Typed(K), NEW c \in Tasks, NEW j \in Jobs, NEW s \in Schedules,
         NEW once \in BOOLEAN, Add(c, j, s, once)
  PROVE  AddedJob(K, c, j)
<1>1. clock \in 0 .. MaxClock
  BY TypedParts
<1> DEFINE r == Scheduled([id |-> j, enabled |-> TRUE, once |-> once,
                         schedule |-> s, next |-> Never, running |-> Never],
                        clock)
<1>2. r \in JobsOver(K \cup {j}) /\ r.id = j /\ OnTime(r, clock)
  BY <1>1, NewJob
<1>3. /\ Begin(c, "save", r)
      /\ task' = [task EXCEPT ![c] = [pc |-> "adding", job |-> r]]
  BY DEF Add
<1> HIDE DEF r
<1> QED BY <1>2, <1>3 DEF AddedJob

LEMMA TypedAdd ==
  ASSUME NEW K, Typed(K), NEW c \in Tasks, NEW j \in Jobs, NEW s \in Schedules,
         NEW once \in BOOLEAN, Add(c, j, s, once)
  PROVE  Typed(K \cup {j})'
<1> DEFINE L == K \cup {j}
<1>1. PICK r \in JobsOver(L) :
        /\ Begin(c, "save", r)
        /\ task' = [task EXCEPT ![c] = [pc |-> "adding", job |-> r]]
  BY AddParts DEF AddedJob
<1> HIDE DEF L
<1>2. Typed(L)
  <2>1. K \subseteq L
    BY DEF L
  <2> QED BY <2>1, Grow DEF Typed
<1>3. TypeOKFile(L)'
  BY <1>1, <1>2, TypedParts, BeginTyped DEF Whole
<1>4. task' \in [Tasks -> TaskStates(L)]
  <2>1. [pc |-> "adding", job |-> r] \in TaskStates(L)
    BY TaskMade
  <2> QED BY <1>1, <1>2, <2>1, TypedParts
<1>5. /\ UNCHANGED <<up, loop, loopTime, claimed, clock>>
      /\ jobs' = jobs /\ permit' = permit /\ stale' = stale /\ dirty' = dirty
      /\ twice' = twice /\ admitted' = admitted \cup {j}
  BY DEF Add
<1>6. admitted' \subseteq Jobs
  BY <1>5, <1>2, HistoriesTyped
<1>7. Typed(L)'
  BY <1>2, <1>3, <1>4, <1>5, <1>6, TypedParts, HistoriesTyped, StepTyped
<1> QED BY <1>7 DEF L

LEMMA TypedAdded ==
  ASSUME NEW K, K \subseteq Jobs, Typed(K), AddInv, NEW c \in Tasks, Added(c)
  PROVE  Typed(K)'
<1>1. task[c].job \in JobsOver(K) /\ task[c].job.id \notin Ids(jobs)
  BY TypedParts DEF Added, AddInv
<1>2. jobs' \in Lists(K)
  <2>1. jobs \cup {task[c].job} \in Lists(K)
    BY <1>1, TypedParts, ListsOfJobs
  <2> QED BY <2>1, TypedParts DEF Added
<1>3. TypeOKFile(K)'
  BY TypedParts, TakenTyped DEF Added
<1>4. task' \in [Tasks -> TaskStates(K)]
  BY TypedParts, EndsTyped DEF Added
<1>5. /\ UNCHANGED <<up, loop, loopTime, claimed, clock>>
      /\ permit' \in BOOLEAN /\ stale' = stale /\ dirty' = dirty
      /\ twice' = twice /\ admitted' = admitted
  BY HistoriesTyped DEF Added, KeepLoop
<1> QED BY <1>2, <1>3, <1>4, <1>5, HistoriesTyped, StepTyped

LEMMA ReplaceTyped ==
  ASSUME NEW K, Typed(K), NEW q \in JobsOver(K)
  PROVE  Replace(q) \in Lists(K)
BY TypedParts, ListsOfJobs DEF Replace

LEMMA PatchedTyped ==
  ASSUME NEW K, NEW r \in JobsOver(K), NEW en \in BOOLEAN, NEW s \in Schedules,
         NEW once \in BOOLEAN
  PROVE  /\ Patched(r, en, s, once) \in JobsOver(K)
         /\ Patched(r, en, s, once).id = r.id
         /\ Patched(r, en, s, once).running = r.running
BY DEF Patched, JobsOver

LEMMA TypedUpdateRefused ==
  ASSUME NEW K, K \subseteq Jobs, Typed(K), NEW c \in Tasks, NEW r \in jobs,
         NEW en \in BOOLEAN, NEW s \in Schedules, NEW once \in BOOLEAN,
         UpdateRefused(c, r, en, s, once)
  PROVE  Typed(K)'
<1>1. r \in JobsOver(K) /\ r.id \in Jobs
  BY TypedParts
<1>2. jobs' \in Lists(K)
  BY <1>1, PatchedTyped, ReplaceTyped DEF UpdateRefused
<1>3. TypeOKFile(K)' /\ task' \in [Tasks -> TaskStates(K)]
  BY TypedParts, FileKept, EndsTyped DEF UpdateRefused
<1>4. /\ UNCHANGED <<up, loop, loopTime, claimed, clock>>
      /\ permit' = permit /\ stale' = stale /\ dirty' = dirty \cup {r.id}
      /\ twice' = twice /\ admitted' = admitted
  BY DEF UpdateRefused, KeepLoop
<1> QED BY <1>1, <1>2, <1>3, <1>4, HistoriesTyped, StepTyped

(* An update puts the job in its new form in the list, the operation and,  *)
(* as a copy, the task.                                                    *)
LEMMA UpdateParts ==
  ASSUME NEW K, Typed(K), NEW c \in Tasks, NEW r \in jobs,
         NEW en \in BOOLEAN, NEW s \in Schedules, NEW once \in BOOLEAN,
         Update(c, r, en, s, once)
  PROVE  \E q \in JobsOver(K) :
           /\ q.id = r.id /\ q.running = r.running /\ OnTime(q, clock)
           /\ jobs' = Replace(q)
           /\ Begin(c, "update", q)
           /\ task' = [task EXCEPT ![c] = [pc |-> "updating", job |-> Copy(q)]]
<1> DEFINE p == Patched(r, en, s, once)
           q == Scheduled(p, clock)
<1>1. r \in JobsOver(K) /\ clock \in 0 .. MaxClock
  BY TypedParts
<1>2. p \in JobsOver(K) /\ p.id = r.id /\ p.running = r.running
  BY <1>1, PatchedTyped
<1>3. q \in JobsOver(K) /\ q.id = p.id /\ q.running = p.running /\ OnTime(q, clock)
  <2> HIDE DEF p
  <2> QED BY <1>1, <1>2, ScheduledTyped
<1>4. /\ jobs' = Replace(q)
      /\ Begin(c, "update", q)
      /\ task' = [task EXCEPT ![c] = [pc |-> "updating", job |-> Copy(q)]]
  BY DEF Update
<1> HIDE DEF p, q
<1> QED BY <1>2, <1>3, <1>4

LEMMA TypedUpdate ==
  ASSUME NEW K, K \subseteq Jobs, Typed(K), NEW c \in Tasks, NEW r \in jobs,
         NEW en \in BOOLEAN, NEW s \in Schedules, NEW once \in BOOLEAN,
         Update(c, r, en, s, once)
  PROVE  Typed(K)'
<1>1. PICK q \in JobsOver(K) :
        /\ jobs' = Replace(q)
        /\ Begin(c, "update", q)
        /\ task' = [task EXCEPT ![c] = [pc |-> "updating", job |-> Copy(q)]]
  BY UpdateParts
<1>2. jobs' \in Lists(K)
  BY <1>1, ReplaceTyped
<1>3. TypeOKFile(K)'
  BY <1>1, TypedParts, BeginTyped DEF Whole
<1>4. task' \in [Tasks -> TaskStates(K)]
  BY <1>1, TypedParts, CopyTyped, CallTyped DEF CopyPlaces
<1>5. /\ UNCHANGED <<up, loop, loopTime, claimed, clock>>
      /\ permit' = permit /\ stale' \in {stale, stale \cup {r.id}} /\ dirty' = dirty
      /\ twice' = twice /\ admitted' = admitted
  BY DEF Update, KeepLoop
<1>6. r.id \in Jobs
  BY TypedParts
<1> QED BY <1>2, <1>3, <1>4, <1>5, <1>6, HistoriesTyped, StepTyped

LEMMA TypedUpdated ==
  ASSUME NEW K, K \subseteq Jobs, Typed(K), NEW c \in Tasks, Updated(c)
  PROVE  Typed(K)'
<1>1. TypeOKFile(K)' /\ task' \in [Tasks -> TaskStates(K)]
  BY TypedParts, TakenTyped, EndsTyped DEF Updated
<1>2. task[c].job.id \in Jobs
  BY TypedParts DEF Updated, Placed, CopyPlaces
<1>3. /\ UNCHANGED <<up, loop, loopTime, claimed, clock>>
      /\ jobs' = jobs /\ permit' \in BOOLEAN /\ stale' = stale
      /\ dirty' \in {dirty, dirty \cup {task[c].job.id}}
      /\ twice' = twice /\ admitted' = admitted
  BY HistoriesTyped DEF Updated, KeepLoop
<1> QED BY <1>1, <1>2, <1>3, TypedParts, HistoriesTyped, StepTyped

LEMMA TypedRemove ==
  ASSUME NEW K, Typed(K), NEW c \in Tasks, NEW r \in jobs, Remove(c, r)
  PROVE  Typed(K)'
<1>1. Copy(r) \in CopiesOver(K)
  BY TypedParts
<1>2. TypeOKFile(K)'
  BY <1>1, TypedParts, BeginTyped DEF Remove, Whole
<1>3. task' \in [Tasks -> TaskStates(K)]
  BY <1>1, TypedParts, CallTyped DEF Remove, CopyPlaces
<1>4. /\ UNCHANGED <<up, loop, loopTime, claimed, clock>>
      /\ jobs' = jobs /\ permit' = permit /\ stale' = stale /\ dirty' = dirty
      /\ twice' = twice /\ admitted' = admitted
  BY DEF Remove, KeepLoop
<1> QED BY <1>2, <1>3, <1>4, TypedParts, HistoriesTyped, StepTyped

LEMMA TypedRemoved ==
  ASSUME NEW K, Typed(K), NEW t \in Tasks, Removed(t)
  PROVE  Typed(K)'
<1>1. TypeOKFile(K)' /\ task' \in [Tasks -> TaskStates(K)]
  BY TypedParts, TakenTyped, EndsTyped DEF Removed
<1>2. jobs' \in Lists(K)
  BY TypedParts, ListsOfJobs DEF Removed
<1>3. /\ UNCHANGED <<up, loop, loopTime, claimed, clock>>
      /\ permit' = permit /\ stale' = stale /\ dirty' = dirty
      /\ twice' = twice /\ admitted' = admitted
  BY DEF Removed, KeepLoop, historyVars
<1> QED BY <1>1, <1>2, <1>3, TypedParts, HistoriesTyped, StepTyped
LEMMA TypedRunRead ==
  ASSUME NEW K, Typed(K), NEW c \in Tasks, NEW r \in jobs, RunRead(c, r)
  PROVE  Typed(K)'
<1>1. task' \in [Tasks -> TaskStates(K)]
  BY TypedParts, CallTyped DEF RunRead, CopyPlaces
<1>2. TypeOKFile(K)'
  BY TypedParts, FileKept DEF RunRead
<1>3. /\ UNCHANGED <<up, loop, loopTime, claimed, clock>>
      /\ jobs' = jobs /\ permit' = permit /\ stale' = stale /\ dirty' = dirty
      /\ twice' = twice /\ admitted' = admitted
  BY DEF RunRead, KeepLoop, historyVars
<1> QED BY <1>1, <1>2, <1>3, TypedParts, HistoriesTyped, StepTyped

LEMMA TypedRunMark ==
  ASSUME NEW K, K \subseteq Jobs, Typed(K), NEW c \in Tasks, RunMark(c)
  PROVE  Typed(K)'
<1> DEFINE own == {r \in jobs : r.id = task[c].job.id}
<1>1. jobs \in Lists(K) /\ clock \in 0 .. Never
  BY TypedParts, CronAssumption
<1>2. jobs' = {IF r \in own THEN [r EXCEPT !.running = clock] ELSE r : r \in jobs}
  BY DEF RunMark
<1>3. jobs' \in Lists(K)
  <2> HIDE DEF own
  <2> QED BY <1>1, <1>2, MarksTyped
<1>4. task' \in [Tasks -> TaskStates(K)]
  BY TypedParts, GoesTyped DEF RunMark, CopyPlaces
<1>5. task[c].job.id \in Jobs
  BY TypedParts DEF RunMark, Placed, CopyPlaces
<1>6. TypeOKFile(K)'
  BY TypedParts, FileKept DEF RunMark
<1>7. /\ UNCHANGED <<up, loop, loopTime, claimed, clock>>
      /\ permit' = permit /\ stale' = stale /\ dirty' = dirty
      /\ twice' = twice \cup {task[c].job.id} /\ admitted' = admitted
  BY DEF RunMark, KeepLoop
<1> QED BY <1>3, <1>4, <1>5, <1>6, <1>7, HistoriesTyped, StepTyped

LEMMA TypedTurnEnds ==
  ASSUME NEW K, Typed(K), NEW t \in Tasks, TurnEnds(t)
  PROVE  Typed(K)'
<1>1. task' \in [Tasks -> TaskStates(K)]
  BY TypedParts, GoesTyped DEF TurnEnds, CopyPlaces
<1>2. TypeOKFile(K)'
  BY TypedParts, FileKept DEF TurnEnds
<1>3. /\ UNCHANGED <<up, loop, loopTime, claimed, clock>>
      /\ jobs' = jobs /\ permit' = permit /\ stale' = stale /\ dirty' = dirty
      /\ twice' = twice /\ admitted' = admitted
  BY DEF TurnEnds, KeepLoop, historyVars
<1> QED BY <1>1, <1>2, <1>3, TypedParts, HistoriesTyped, StepTyped

(* The end of a run: the next run of its schedule, and where it goes.      *)
RunEnded(t) ==
  \E next \in 0 .. Never, l \in {"persist", "deleting", "disable"} :
     /\ next = NextRun(task[t].job.schedule, clock)
     /\ task[t].job.schedule.kind = "every" /\ Computable(task[t].job.schedule)
          => next # Never
     /\ jobs' = {IF r.id = task[t].job.id
                   THEN [r EXCEPT !.running = Never, !.next = next] ELSE r
                   : r \in jobs}
     /\ Goes(t, l)
     /\ \/ /\ l = "deleting" /\ Begin(t, "delete", task[t].job)
        \/ /\ l \in {"persist", "disable"} /\ UNCHANGED fileVars

LEMMA RescheduleParts ==
  ASSUME NEW K, Typed(K), NEW t \in Tasks, Reschedule(t)
  PROVE  RunEnded(t)
<1> DEFINE own == task[t].job
           next == NextRun(own.schedule, clock)
           l == CASE next # Never -> "persist"
                  [] next = Never /\ own.once -> "deleting"
                  [] OTHER -> "disable"
<1>1. own \in CopiesOver(K) /\ clock \in 0 .. MaxClock
  BY TypedParts DEF Reschedule, CopyPlaces
<1>2. own.schedule \in Schedules /\ own.once \in BOOLEAN
  BY <1>1 DEF CopiesOver
<1> HIDE DEF own
<1>3. /\ next \in 0 .. Never
      /\ own.schedule.kind = "every" /\ Computable(own.schedule) => next # Never
  BY <1>1, <1>2, NextRunTyped
<1>4. /\ jobs' = {IF r.id = own.id
                    THEN [r EXCEPT !.running = Never, !.next = next] ELSE r : r \in jobs}
      /\ Goes(t, l)
      /\ IF next = Never /\ own.once
           THEN Begin(t, "delete", own) /\ kept' = kept \ {own.id}
           ELSE UNCHANGED <<fileVars, kept>>
  BY DEF Reschedule, own
<1> HIDE DEF next
<1>5. /\ l \in {"persist", "deleting", "disable"}
      /\ l = "deleting" <=> next = Never /\ own.once
  BY <1>2
<1> HIDE DEF l
<1>6. \/ l = "deleting" /\ Begin(t, "delete", own)
      \/ l \in {"persist", "disable"} /\ UNCHANGED fileVars
  BY <1>4, <1>5
<1> QED BY <1>3, <1>4, <1>5, <1>6 DEF own, next, RunEnded

LEMMA TypedReschedule ==
  ASSUME NEW K, Typed(K), NEW t \in Tasks, Reschedule(t)
  PROVE  Typed(K)'
<1>1. PICK next \in 0 .. Never, l \in {"persist", "deleting", "disable"} :
           /\ jobs' = {IF r.id = task[t].job.id
                         THEN [r EXCEPT !.running = Never, !.next = next] ELSE r
                         : r \in jobs}
           /\ Goes(t, l)
           /\ \/ /\ l = "deleting" /\ Begin(t, "delete", task[t].job)
              \/ /\ l \in {"persist", "disable"} /\ UNCHANGED fileVars
  BY RescheduleParts DEF RunEnded
<1>2. jobs' \in Lists(K)
  BY <1>1, TypedParts, ReschedulesTyped
<1>3. task[t].pc \in CopyPlaces /\ task[t].job \in CopiesOver(K)
  BY TypedParts DEF Reschedule, CopyPlaces
<1>4. task' \in [Tasks -> TaskStates(K)]
  <2>1. l \in CopyPlaces /\ Goes(t, l)
    BY <1>1 DEF CopyPlaces
  <2>2. task \in [Tasks -> TaskStates(K)]
    BY TypedParts
  <2> QED BY <1>3, <2>1, <2>2, GoesTyped
<1>5. TypeOKFile(K)'
  BY <1>1, <1>3, TypedParts, BeginTyped, FileKept DEF Whole
<1>6. /\ UNCHANGED <<up, loop, loopTime, claimed, clock>>
      /\ permit' = permit /\ stale' = stale /\ dirty' = dirty
      /\ twice' = twice /\ admitted' = admitted
  BY DEF Reschedule, KeepLoop
<1> QED BY <1>2, <1>4, <1>5, <1>6, HistoriesTyped, StepTyped

(* Persisting and disabling: the job of the list, if it is still there.    *)
LEMMA FoundTyped ==
  ASSUME NEW K, Typed(K), NEW j, HasJob(jobs, j)
  PROVE  /\ JobOf(jobs, j) \in jobs /\ JobOf(jobs, j).id = j
         /\ JobOf(jobs, j) \in JobsOver(K)
         /\ [JobOf(jobs, j) EXCEPT !.enabled = FALSE] \in JobsOver(K)
         /\ [JobOf(jobs, j) EXCEPT !.enabled = FALSE].id = j
         /\ [JobOf(jobs, j) EXCEPT !.enabled = FALSE].enabled = FALSE
         /\ [JobOf(jobs, j) EXCEPT !.enabled = FALSE].running = JobOf(jobs, j).running
         /\ [JobOf(jobs, j) EXCEPT !.enabled = FALSE].schedule = JobOf(jobs, j).schedule
<1>1. PICK r \in jobs : r = JobOf(jobs, j) /\ r.id = j
  BY JobFound
<1>2. r \in JobsOver(K)
  BY TypedParts
<1>3. /\ [r EXCEPT !.enabled = FALSE] \in JobsOver(K)
      /\ [r EXCEPT !.enabled = FALSE].id = r.id
      /\ [r EXCEPT !.enabled = FALSE].enabled = FALSE
      /\ [r EXCEPT !.enabled = FALSE].running = r.running
      /\ [r EXCEPT !.enabled = FALSE].schedule = r.schedule
  BY <1>2 DEF JobsOver
<1> QED BY <1>1, <1>2, <1>3

LEMMA TypedPersist ==
  ASSUME NEW K, Typed(K), NEW t \in Tasks, Persist(t)
  PROVE  Typed(K)'
<1>1. TypeOKFile(K)' /\ task' \in [Tasks -> TaskStates(K)]
  <2>1. CASE HasJob(jobs, task[t].job.id)
    <3>1. TypeOKFile(K)'
      BY <2>1, TypedParts, FoundTyped, BeginTyped DEF Persist, Whole
    <3>2. task' \in [Tasks -> TaskStates(K)]
      BY <2>1, TypedParts, GoesTyped DEF Persist, CopyPlaces
    <3> QED BY <3>1, <3>2
  <2>2. CASE ~HasJob(jobs, task[t].job.id)
    BY <2>2, TypedParts, FileKept, EndsTyped DEF Persist
  <2> QED BY <2>1, <2>2
<1>2. /\ UNCHANGED <<up, loop, loopTime, claimed, clock>>
      /\ jobs' = jobs /\ permit' = permit /\ stale' = stale /\ dirty' = dirty
      /\ twice' = twice /\ admitted' = admitted
  BY DEF Persist, KeepLoop, historyVars
<1> QED BY <1>1, <1>2, TypedParts, HistoriesTyped, StepTyped

LEMMA DisableParts ==
  ASSUME NEW K, Typed(K), NEW t \in Tasks, Disable(t), HasJob(jobs, task[t].job.id)
  PROVE  \E r \in jobs, q \in JobsOver(K) :
           /\ r.id = task[t].job.id /\ q.id = r.id /\ q.enabled = FALSE
           /\ q.running = r.running /\ q.schedule = r.schedule
           /\ jobs' = Replace(q) /\ Begin(t, "update", q) /\ Goes(t, "disabling")
<1> DEFINE q == [JobOf(jobs, task[t].job.id) EXCEPT !.enabled = FALSE]
<1>1. jobs' = Replace(q) /\ Begin(t, "update", q) /\ Goes(t, "disabling")
  BY DEF Disable
<1>2. /\ q \in JobsOver(K) /\ q.id = task[t].job.id /\ q.enabled = FALSE
      /\ q.running = JobOf(jobs, task[t].job.id).running
      /\ q.schedule = JobOf(jobs, task[t].job.id).schedule
  BY FoundTyped
<1>3. JobOf(jobs, task[t].job.id) \in jobs /\ JobOf(jobs, task[t].job.id).id = task[t].job.id
  BY FoundTyped
<1> HIDE DEF q
<1> QED BY <1>1, <1>2, <1>3

LEMMA TypedDisable ==
  ASSUME NEW K, Typed(K), NEW t \in Tasks, Disable(t)
  PROVE  Typed(K)'
<1>1. TypeOKFile(K)' /\ task' \in [Tasks -> TaskStates(K)] /\ jobs' \in Lists(K)
  <2>1. CASE HasJob(jobs, task[t].job.id)
    <3>1. PICK q \in JobsOver(K) :
            jobs' = Replace(q) /\ Begin(t, "update", q) /\ Goes(t, "disabling")
      BY <2>1, DisableParts
    <3>2. TypeOKFile(K)'
      BY <3>1, TypedParts, BeginTyped DEF Whole
    <3>3. task' \in [Tasks -> TaskStates(K)]
      BY <3>1, TypedParts, GoesTyped DEF Disable, CopyPlaces
    <3>4. jobs' \in Lists(K)
      BY <3>1, ReplaceTyped
    <3> QED BY <3>2, <3>3, <3>4
  <2>2. CASE ~HasJob(jobs, task[t].job.id)
    BY <2>2, TypedParts, FileKept, EndsTyped DEF Disable
  <2> QED BY <2>1, <2>2
<1>2. /\ UNCHANGED <<up, loop, loopTime, claimed, clock>>
      /\ permit' = permit /\ stale' = stale /\ dirty' = dirty
      /\ twice' = twice /\ admitted' = admitted
  BY DEF Disable, KeepLoop, historyVars
<1> QED BY <1>1, <1>2, HistoriesTyped, StepTyped

LEMMA TypedPersisted ==
  ASSUME NEW K, K \subseteq Jobs, Typed(K), NEW t \in Tasks, Persisted(t)
  PROVE  Typed(K)'
<1>1. TypeOKFile(K)' /\ task' \in [Tasks -> TaskStates(K)]
  BY TypedParts, TakenTyped, EndsTyped DEF Persisted
<1>2. task[t].job.id \in Jobs
  BY TypedParts DEF Persisted, Placed, CopyPlaces
<1>3. /\ UNCHANGED <<up, loop, loopTime, claimed, clock>>
      /\ jobs' = jobs /\ permit' = permit /\ stale' = stale
      /\ dirty' \in {dirty, dirty \cup {task[t].job.id}}
      /\ twice' = twice /\ admitted' = admitted
  BY DEF Persisted, KeepLoop
<1> QED BY <1>1, <1>2, <1>3, TypedParts, HistoriesTyped, StepTyped

LEMMA TypedStore ==
  ASSUME NEW K, Typed(K), NEW t \in Tasks, StoreStep(t) \/ StoreFails(t)
  PROVE  Typed(K)'
<1>1. TypeOKFile(K)'
  BY TypedParts, StoreTyped DEF StoreStep, StoreFails
<1>2. UNCHANGED <<serviceVars, historyVars>>
  BY DEF StoreStep, StoreFails
<1>3. /\ UNCHANGED <<up, loop, loopTime, claimed, clock, task>>
      /\ jobs' = jobs /\ permit' = permit /\ stale' = stale /\ dirty' = dirty
      /\ twice' = twice /\ admitted' = admitted
  BY <1>2 DEF serviceVars, historyVars
<1> QED BY <1>1, <1>3, TypedParts, HistoriesTyped, StepTyped
-----------------------------------------------------------------------------
(* What the steps of a task do to its place and to its store operation.    *)

Others(t) == \A u \in Tasks \ {t} : task'[u] = task[u]
Enters(t, l, q) == task'[t].pc = l /\ task'[t].job = q /\ Others(t)
Exits(t) ==
  task'[t].pc \in {"idle", "done"} /\ (t \in Timers => task'[t].pc = "idle") /\ Others(t)
OthersOp(t) == \A u \in Tasks \ {t} : op'[u] = op[u]
CallsStore(t, kind, job) ==
  /\ op'[t] = [step |-> "load", kind |-> kind, job |-> job] /\ OthersOp(t)
  /\ file' = file /\ tmp' = tmp
  /\ clean' = (clean /\ \A u \in Tasks : ~InFlight(u))
TakesResult(t) ==
  op'[t] = NoOp /\ OthersOp(t) /\ file' = file /\ tmp' = tmp /\ clean' = clean
NoStore == file' = file /\ tmp' = tmp /\ op' = op /\ clean' = clean

LEMMA EntersWhen ==
  ASSUME NEW K, Typed(K), NEW t \in Tasks, NEW l, NEW q,
         task' = [task EXCEPT ![t] = [pc |-> l, job |-> q]]
  PROVE  Enters(t, l, q)
BY TypedParts DEF Enters, Others

LEMMA GoesWhen ==
  ASSUME NEW K, Typed(K), NEW t \in Tasks, NEW l \in CopyPlaces, Goes(t, l),
         task[t].pc \in CopyPlaces
  PROVE  Enters(t, l, task[t].job)
BY TypedParts, GoesTyped DEF Enters, Others

LEMMA ExitsWhen ==
  ASSUME NEW K, Typed(K), NEW t \in Tasks, Ends(t)
  PROVE  Exits(t)
BY TypedParts, CronAssumption DEF Ends, Exits, Others, Over, Idle, Tasks

LEMMA CallsWhen ==
  ASSUME NEW K, Typed(K), NEW t \in Tasks, NEW kind, NEW job, Begin(t, kind, job)
  PROVE  CallsStore(t, kind, job)
BY DEF Typed, TypeOKFile, Begin, CallsStore, OthersOp

LEMMA TakesWhen ==
  ASSUME NEW K, Typed(K), NEW t \in Tasks, Taken(t)
  PROVE  TakesResult(t)
BY DEF Typed, TypeOKFile, Taken, TakesResult, OthersOp

EntersAdded(K, t, j) ==
  \E r \in JobsOver(K \cup {j}) :
    /\ r.id = j /\ OnTime(r, clock)
    /\ Enters(t, "adding", r) /\ CallsStore(t, "save", r)

LEMMA ShapeOfAdds ==
  ASSUME NEW K, Typed(K), NEW t \in Tasks
  PROVE  /\ AddRefused(t) =>
              /\ up /\ task[t].pc = "idle" /\ Exits(t) /\ NoStore
              /\ UNCHANGED <<up, jobs, loop, loopTime, claimed, permit, clock,
                             twice, stale, dirty, admitted>>
         /\ \A j \in Jobs, s \in Schedules, once \in BOOLEAN : Add(t, j, s, once) =>
              /\ up /\ task[t].pc = "idle" /\ Fresh(j)
              /\ EntersAdded(K, t, j)
              /\ UNCHANGED <<up, jobs, loop, loopTime, claimed, permit, clock,
                             twice, stale, dirty>>
              /\ admitted' = admitted \cup {j}
         /\ Added(t) =>
              /\ task[t].pc = "adding" /\ Exits(t) /\ TakesResult(t)
              /\ \/ Stored(t) /\ MayWrite /\ jobs' = jobs \cup {task[t].job} /\ permit' = TRUE
                 \/ StoreFailed(t) /\ jobs' = jobs /\ permit' = permit
              /\ UNCHANGED <<up, loop, loopTime, claimed, clock,
                             twice, stale, dirty, admitted>>
<1>1. ASSUME AddRefused(t)
      PROVE   /\ up /\ task[t].pc = "idle" /\ Exits(t) /\ NoStore
              /\ UNCHANGED <<up, jobs, loop, loopTime, claimed, permit, clock,
                             twice, stale, dirty, admitted>>
  BY <1>1, ExitsWhen DEF AddRefused, NoStore, fileVars
<1>2. ASSUME NEW j \in Jobs, NEW s \in Schedules, NEW once \in BOOLEAN, Add(t, j, s, once)
      PROVE   /\ up /\ task[t].pc = "idle" /\ Fresh(j)
              /\ EntersAdded(K, t, j)
              /\ UNCHANGED <<up, jobs, loop, loopTime, claimed, permit, clock,
                             twice, stale, dirty>>
              /\ admitted' = admitted \cup {j}
  <2>1. PICK r \in JobsOver(K \cup {j}) :
           /\ r.id = j /\ OnTime(r, clock)
           /\ Begin(t, "save", r)
           /\ task' = [task EXCEPT ![t] = [pc |-> "adding", job |-> r]]
    <3>1. AddedJob(K, t, j)
      BY <1>2, AddParts
    <3> QED BY <3>1 DEF AddedJob
  <2>2. Enters(t, "adding", r) /\ CallsStore(t, "save", r)
    BY <2>1, EntersWhen, CallsWhen
  <2> QED BY <1>2, <2>1, <2>2 DEF Add, EntersAdded
<1>3. ASSUME Added(t)
      PROVE   /\ task[t].pc = "adding" /\ Exits(t) /\ TakesResult(t)
              /\ \/ Stored(t) /\ MayWrite /\ jobs' = jobs \cup {task[t].job} /\ permit' = TRUE
                 \/ StoreFailed(t) /\ jobs' = jobs /\ permit' = permit
              /\ UNCHANGED <<up, loop, loopTime, claimed, clock,
                             twice, stale, dirty, admitted>>
  BY <1>3, ExitsWhen, TakesWhen DEF Added, KeepLoop
<1> QED BY <1>1, <1>2, <1>3

LEMMA ShapeOfUpdates ==
  ASSUME NEW K, Typed(K), NEW t \in Tasks
  PROVE  /\ \A r \in jobs, en \in BOOLEAN, s \in Schedules, once \in BOOLEAN :
              UpdateRefused(t, r, en, s, once) =>
                /\ MayWrite /\ task[t].pc = "idle" /\ Exits(t) /\ NoStore
                /\ \E q \in JobsOver(K) :
                     q.id = r.id /\ q.running = r.running /\ jobs' = Replace(q)
                /\ dirty' = dirty \cup {r.id}
                /\ UNCHANGED <<up, loop, loopTime, claimed, permit, clock,
                               twice, stale, admitted>>
         /\ \A r \in jobs, en \in BOOLEAN, s \in Schedules, once \in BOOLEAN :
              Update(t, r, en, s, once) =>
                /\ MayWrite /\ task[t].pc = "idle"
                /\ \E q \in JobsOver(K) :
                     /\ q.id = r.id /\ q.running = r.running /\ OnTime(q, clock)
                     /\ jobs' = Replace(q)
                     /\ CallsStore(t, "update", q) /\ Enters(t, "updating", Copy(q))
                /\ stale' = IF Copied(r.id) THEN stale \cup {r.id} ELSE stale
                /\ UNCHANGED <<up, loop, loopTime, claimed, permit, clock,
                               twice, dirty, admitted>>
         /\ Updated(t) =>
              /\ task[t].pc = "updating" /\ Exits(t) /\ TakesResult(t)
              /\ \/ Stored(t) /\ permit' = TRUE /\ dirty' = dirty
                 \/ StoreFailed(t) /\ permit' = permit /\ dirty' = dirty \cup {task[t].job.id}
              /\ UNCHANGED <<up, jobs, loop, loopTime, claimed, clock,
                             twice, stale, admitted>>
<1>1. ASSUME NEW r \in jobs, NEW en \in BOOLEAN, NEW s \in Schedules, NEW once \in BOOLEAN,
             UpdateRefused(t, r, en, s, once)
      PROVE     /\ MayWrite /\ task[t].pc = "idle" /\ Exits(t) /\ NoStore
                /\ \E q \in JobsOver(K) :
                     q.id = r.id /\ q.running = r.running /\ jobs' = Replace(q)
                /\ dirty' = dirty \cup {r.id}
                /\ UNCHANGED <<up, loop, loopTime, claimed, permit, clock,
                               twice, stale, admitted>>
  <2>1. r \in JobsOver(K)
    BY TypedParts
  <2>2. \E q \in JobsOver(K) : q.id = r.id /\ q.running = r.running /\ jobs' = Replace(q)
    <3>1. PICK q \in JobsOver(K) :
            q.id = r.id /\ q.running = r.running /\ q = Patched(r, en, s, once)
      BY <2>1, PatchedTyped
    <3>2. jobs' = Replace(q)
      BY <1>1, <3>1 DEF UpdateRefused
    <3> QED BY <3>1, <3>2
  <2> QED BY <1>1, <2>2, ExitsWhen DEF UpdateRefused, KeepLoop, NoStore, fileVars
<1>2. ASSUME NEW r \in jobs, NEW en \in BOOLEAN, NEW s \in Schedules, NEW once \in BOOLEAN,
             Update(t, r, en, s, once)
      PROVE     /\ MayWrite /\ task[t].pc = "idle"
                /\ \E q \in JobsOver(K) :
                     /\ q.id = r.id /\ q.running = r.running /\ OnTime(q, clock)
                     /\ jobs' = Replace(q)
                     /\ CallsStore(t, "update", q) /\ Enters(t, "updating", Copy(q))
                /\ stale' = IF Copied(r.id) THEN stale \cup {r.id} ELSE stale
                /\ UNCHANGED <<up, loop, loopTime, claimed, permit, clock,
                               twice, dirty, admitted>>
  <2>1. PICK q \in JobsOver(K) :
           /\ q.id = r.id /\ q.running = r.running /\ OnTime(q, clock)
           /\ jobs' = Replace(q)
           /\ Begin(t, "update", q)
           /\ task' = [task EXCEPT ![t] = [pc |-> "updating", job |-> Copy(q)]]
    BY <1>2, UpdateParts
  <2>2. CallsStore(t, "update", q) /\ Enters(t, "updating", Copy(q))
    BY <2>1, EntersWhen, CallsWhen
  <2> QED BY <1>2, <2>1, <2>2 DEF Update, KeepLoop
<1>3. ASSUME Updated(t)
      PROVE   /\ task[t].pc = "updating" /\ Exits(t) /\ TakesResult(t)
              /\ \/ Stored(t) /\ permit' = TRUE /\ dirty' = dirty
                 \/ StoreFailed(t) /\ permit' = permit /\ dirty' = dirty \cup {task[t].job.id}
              /\ UNCHANGED <<up, jobs, loop, loopTime, claimed, clock,
                             twice, stale, admitted>>
  BY <1>3, ExitsWhen, TakesWhen DEF Updated, KeepLoop
<1> QED BY <1>1, <1>2, <1>3

LEMMA ShapeOfRemovals ==
  ASSUME NEW K, Typed(K), NEW t \in Tasks
  PROVE  /\ \A r \in jobs : Remove(t, r) =>
              /\ MayRead /\ task[t].pc = "idle"
              /\ CallsStore(t, "delete", Copy(r)) /\ Enters(t, "removing", Copy(r))
              /\ UNCHANGED <<up, jobs, loop, loopTime, claimed, permit, clock,
                             twice, stale, dirty, admitted>>
         /\ Removed(t) =>
              /\ task[t].pc \in DeletePlaces /\ Exits(t) /\ TakesResult(t)
              /\ \/ Stored(t) /\ MayWrite /\ jobs' = Without(jobs, task[t].job.id)
                 \/ StoreFailed(t) /\ jobs' = jobs
              /\ UNCHANGED <<up, loop, loopTime, claimed, permit, clock,
                             twice, stale, dirty, admitted>>
<1>1. ASSUME NEW r \in jobs, Remove(t, r)
      PROVE   /\ MayRead /\ task[t].pc = "idle"
              /\ CallsStore(t, "delete", Copy(r)) /\ Enters(t, "removing", Copy(r))
              /\ UNCHANGED <<up, jobs, loop, loopTime, claimed, permit, clock,
                             twice, stale, dirty, admitted>>
  BY <1>1, EntersWhen, CallsWhen DEF Remove, KeepLoop
<1>2. ASSUME Removed(t)
      PROVE   /\ task[t].pc \in DeletePlaces /\ Exits(t) /\ TakesResult(t)
              /\ \/ Stored(t) /\ MayWrite /\ jobs' = Without(jobs, task[t].job.id)
                 \/ StoreFailed(t) /\ jobs' = jobs
              /\ UNCHANGED <<up, loop, loopTime, claimed, permit, clock,
                             twice, stale, dirty, admitted>>
  BY <1>2, ExitsWhen, TakesWhen DEF Removed, KeepLoop, historyVars, DeletePlaces
<1> QED BY <1>1, <1>2
(* The list with some jobs changed in next_run_at_ms or running_at_ms.     *)
Keeps(r, q) ==
  /\ r.id = q.id /\ r.enabled = q.enabled
  /\ r.once = q.once /\ r.schedule = q.schedule
KeepsDefinitions(new, old) ==
  /\ \A r \in new : \E q \in old : Keeps(r, q)
  /\ \A q \in old : \E r \in new : Keeps(r, q)

Marked(j) ==
  /\ KeepsDefinitions(jobs', jobs)
  /\ \A r \in jobs' : \E q \in jobs :
       /\ Keeps(r, q) /\ r.next = q.next
       /\ r.id # j => r = q
       /\ r.id = j => r.running = clock
Rescheduled(j, next) ==
  /\ KeepsDefinitions(jobs', jobs)
  /\ \A r \in jobs' : \E q \in jobs :
       /\ Keeps(r, q)
       /\ r.id # j => r = q
       /\ r.id = j => r.running = Never /\ r.next = next

LEMMA MarkedWhen ==
  ASSUME NEW K, Typed(K), NEW j,
         jobs' = {IF r.id = j THEN [r EXCEPT !.running = clock] ELSE r : r \in jobs}
  PROVE  Marked(j)
<1> DEFINE F(q) == IF q.id = j THEN [q EXCEPT !.running = clock] ELSE q
<1>1. ASSUME NEW q \in jobs
      PROVE  /\ Keeps(F(q), q) /\ F(q).next = q.next
             /\ F(q).id # j => F(q) = q
             /\ F(q).id = j => F(q).running = clock
  <2>1. q \in JobsOver(K)
    BY TypedParts
  <2> QED BY <2>1 DEF Keeps, JobsOver
<1>2. jobs' = {F(q) : q \in jobs}
  OBVIOUS
<1> HIDE DEF F
<1>3. \A r \in jobs' : \E q \in jobs : r = F(q)
  BY <1>2
<1>4. \A q \in jobs : F(q) \in jobs'
  BY <1>2
<1> QED BY <1>1, <1>3, <1>4 DEF Marked, KeepsDefinitions

LEMMA RescheduledWhen ==
  ASSUME NEW K, Typed(K), NEW j, NEW next,
         jobs' = {IF r.id = j THEN [r EXCEPT !.running = Never, !.next = next] ELSE r
                    : r \in jobs}
  PROVE  Rescheduled(j, next)
<1> DEFINE F(q) == IF q.id = j THEN [q EXCEPT !.running = Never, !.next = next] ELSE q
<1>1. ASSUME NEW q \in jobs
      PROVE  /\ Keeps(F(q), q)
             /\ F(q).id # j => F(q) = q
             /\ F(q).id = j => F(q).running = Never /\ F(q).next = next
  <2>1. q \in JobsOver(K)
    BY TypedParts
  <2> QED BY <2>1 DEF Keeps, JobsOver
<1>2. jobs' = {F(q) : q \in jobs}
  OBVIOUS
<1> HIDE DEF F
<1>3. \A r \in jobs' : \E q \in jobs : r = F(q)
  BY <1>2
<1>4. \A q \in jobs : F(q) \in jobs'
  BY <1>2
<1> QED BY <1>1, <1>3, <1>4 DEF Rescheduled, KeepsDefinitions

LEMMA ShapeOfRuns ==
  ASSUME NEW K, Typed(K), NEW t \in Tasks
  PROVE  /\ \A r \in jobs : RunRead(t, r) =>
              /\ MayRead /\ task[t].pc = "idle" /\ NoStore
              /\ Enters(t, "mark", Copy(r))
              /\ UNCHANGED <<up, jobs, loop, loopTime, claimed, permit, clock,
                             twice, stale, dirty, admitted>>
         /\ RunMark(t) =>
              /\ MayWrite /\ task[t].pc = "mark" /\ NoStore
              /\ Enters(t, "turn", task[t].job)
              /\ Marked(task[t].job.id)
              /\ twice' = twice \cup {task[t].job.id}
              /\ UNCHANGED <<up, loop, loopTime, claimed, permit, clock,
                             stale, dirty, admitted>>
         /\ TurnEnds(t) =>
              /\ task[t].pc = "turn" /\ NoStore
              /\ Enters(t, "reschedule", task[t].job)
              /\ UNCHANGED <<up, jobs, loop, loopTime, claimed, permit, clock,
                             twice, stale, dirty, admitted>>
<1>1. ASSUME NEW r \in jobs, RunRead(t, r)
      PROVE   /\ MayRead /\ task[t].pc = "idle" /\ NoStore
              /\ Enters(t, "mark", Copy(r))
              /\ UNCHANGED <<up, jobs, loop, loopTime, claimed, permit, clock,
                             twice, stale, dirty, admitted>>
  BY <1>1, EntersWhen DEF RunRead, KeepLoop, historyVars, NoStore, fileVars
<1>2. ASSUME RunMark(t)
      PROVE   /\ MayWrite /\ task[t].pc = "mark" /\ NoStore
              /\ Enters(t, "turn", task[t].job)
              /\ Marked(task[t].job.id)
              /\ twice' = twice \cup {task[t].job.id}
              /\ UNCHANGED <<up, loop, loopTime, claimed, permit, clock,
                             stale, dirty, admitted>>
  <2>1. Marked(task[t].job.id)
    BY <1>2, MarkedWhen DEF RunMark
  <2>2. Enters(t, "turn", task[t].job)
    BY <1>2, GoesWhen DEF RunMark, CopyPlaces
  <2> QED BY <1>2, <2>1, <2>2 DEF RunMark, KeepLoop, NoStore, fileVars
<1>3. ASSUME TurnEnds(t)
      PROVE   /\ task[t].pc = "turn" /\ NoStore
              /\ Enters(t, "reschedule", task[t].job)
              /\ UNCHANGED <<up, jobs, loop, loopTime, claimed, permit, clock,
                             twice, stale, dirty, admitted>>
  <2>1. Enters(t, "reschedule", task[t].job)
    BY <1>3, GoesWhen DEF TurnEnds, CopyPlaces
  <2> QED BY <1>3, <2>1 DEF TurnEnds, KeepLoop, historyVars, NoStore, fileVars
<1> QED BY <1>1, <1>2, <1>3

LEMMA ShapeOfEnds ==
  ASSUME NEW K, Typed(K), NEW t \in Tasks
  PROVE  /\ Reschedule(t) =>
              /\ MayWrite /\ task[t].pc = "reschedule"
              /\ \E next \in 0 .. Never :
                   /\ next = NextRun(task[t].job.schedule, clock)
                   /\ task[t].job.schedule.kind = "every" /\ Computable(task[t].job.schedule)
                        => next # Never
                   /\ Rescheduled(task[t].job.id, next)
              /\ \/ /\ Enters(t, "deleting", task[t].job)
                    /\ CallsStore(t, "delete", task[t].job)
                 \/ /\ Enters(t, "persist", task[t].job) \/ Enters(t, "disable", task[t].job)
                    /\ NoStore
              /\ UNCHANGED <<up, loop, loopTime, claimed, permit, clock,
                             twice, stale, dirty, admitted>>
         /\ Persist(t) =>
              /\ MayRead /\ task[t].pc = "persist"
              /\ \/ \E q \in jobs : /\ q.id = task[t].job.id
                                    /\ CallsStore(t, "update", q)
                                    /\ Enters(t, "persisting", task[t].job)
                 \/ Exits(t) /\ NoStore
              /\ UNCHANGED <<up, jobs, loop, loopTime, claimed, permit, clock,
                             twice, stale, dirty, admitted>>
         /\ Disable(t) =>
              /\ MayWrite /\ task[t].pc = "disable"
              /\ \/ \E r \in jobs, q \in JobsOver(K) :
                      /\ r.id = task[t].job.id /\ q.id = r.id /\ q.enabled = FALSE
                      /\ q.running = r.running /\ q.schedule = r.schedule
                      /\ jobs' = Replace(q) /\ CallsStore(t, "update", q)
                      /\ Enters(t, "disabling", task[t].job)
                 \/ Exits(t) /\ NoStore /\ jobs' = jobs
              /\ UNCHANGED <<up, loop, loopTime, claimed, permit, clock,
                             twice, stale, dirty, admitted>>
         /\ Persisted(t) =>
              /\ task[t].pc \in {"persisting", "disabling"} /\ Exits(t) /\ TakesResult(t)
              /\ \/ Stored(t) /\ dirty' = dirty
                 \/ StoreFailed(t) /\ dirty' = dirty \cup {task[t].job.id}
              /\ UNCHANGED <<up, jobs, loop, loopTime, claimed, permit, clock,
                             twice, stale, admitted>>
<1>1. ASSUME Reschedule(t)
      PROVE   /\ MayWrite /\ task[t].pc = "reschedule"
              /\ \E next \in 0 .. Never :
                   /\ next = NextRun(task[t].job.schedule, clock)
                   /\ task[t].job.schedule.kind = "every" /\ Computable(task[t].job.schedule)
                        => next # Never
                   /\ Rescheduled(task[t].job.id, next)
              /\ \/ /\ Enters(t, "deleting", task[t].job)
                    /\ CallsStore(t, "delete", task[t].job)
                 \/ /\ Enters(t, "persist", task[t].job) \/ Enters(t, "disable", task[t].job)
                    /\ NoStore
              /\ UNCHANGED <<up, loop, loopTime, claimed, permit, clock,
                             twice, stale, dirty, admitted>>
  <2>1. PICK next \in 0 .. Never, l \in {"persist", "deleting", "disable"} :
           /\ next = NextRun(task[t].job.schedule, clock)
           /\ task[t].job.schedule.kind = "every" /\ Computable(task[t].job.schedule)
                => next # Never
           /\ jobs' = {IF r.id = task[t].job.id
                         THEN [r EXCEPT !.running = Never, !.next = next] ELSE r
                         : r \in jobs}
           /\ Goes(t, l)
           /\ \/ /\ l = "deleting" /\ Begin(t, "delete", task[t].job)
              \/ /\ l \in {"persist", "disable"} /\ UNCHANGED fileVars
    <3>1. RunEnded(t)
      BY <1>1, RescheduleParts
    <3> QED BY <3>1 DEF RunEnded
  <2>2. Rescheduled(task[t].job.id, next)
    <3>1. jobs' = {IF r.id = task[t].job.id
                    THEN [r EXCEPT !.running = Never, !.next = next] ELSE r : r \in jobs}
      BY <2>1
    <3> QED BY <3>1, RescheduledWhen
  <2>3. Enters(t, l, task[t].job)
    <3>1. l \in CopyPlaces /\ task[t].pc \in CopyPlaces
      BY <1>1 DEF CopyPlaces, Reschedule
    <3>2. Goes(t, l)
      BY <2>1
    <3> QED BY <3>1, <3>2, GoesWhen
  <2>4. \/ /\ Enters(t, "deleting", task[t].job)
           /\ CallsStore(t, "delete", task[t].job)
        \/ /\ Enters(t, "persist", task[t].job) \/ Enters(t, "disable", task[t].job)
           /\ NoStore
    <3>1. CASE l = "deleting" /\ Begin(t, "delete", task[t].job)
      BY <3>1, <2>3, CallsWhen
    <3>2. CASE l \in {"persist", "disable"} /\ UNCHANGED fileVars
      BY <3>2, <2>3 DEF NoStore, fileVars
    <3> QED BY <2>1, <3>1, <3>2
  <2>5. /\ MayWrite /\ task[t].pc = "reschedule"
        /\ UNCHANGED <<up, loop, loopTime, claimed, permit, clock,
                       twice, stale, dirty, admitted>>
    BY <1>1 DEF Reschedule, KeepLoop
  <2> QED BY <2>1, <2>2, <2>4, <2>5
<1>2. ASSUME Persist(t)
      PROVE   /\ MayRead /\ task[t].pc = "persist"
              /\ \/ \E q \in jobs : /\ q.id = task[t].job.id
                                    /\ CallsStore(t, "update", q)
                                    /\ Enters(t, "persisting", task[t].job)
                 \/ Exits(t) /\ NoStore
              /\ UNCHANGED <<up, jobs, loop, loopTime, claimed, permit, clock,
                             twice, stale, dirty, admitted>>
  <2>1. CASE HasJob(jobs, task[t].job.id)
    <3>1. PICK q \in jobs : q.id = task[t].job.id /\ q = JobOf(jobs, task[t].job.id)
      BY <2>1, FoundTyped
    <3>2. CallsStore(t, "update", q)
      BY <1>2, <2>1, <3>1, CallsWhen DEF Persist
    <3>3. Enters(t, "persisting", task[t].job)
      BY <1>2, <2>1, GoesWhen DEF Persist, CopyPlaces
    <3> QED BY <1>2, <3>1, <3>2, <3>3 DEF Persist, KeepLoop, historyVars
  <2>2. CASE ~HasJob(jobs, task[t].job.id)
    BY <1>2, <2>2, ExitsWhen DEF Persist, KeepLoop, historyVars, NoStore, fileVars
  <2> QED BY <2>1, <2>2
<1>3. ASSUME Disable(t)
      PROVE   /\ MayWrite /\ task[t].pc = "disable"
              /\ \/ \E r \in jobs, q \in JobsOver(K) :
                      /\ r.id = task[t].job.id /\ q.id = r.id /\ q.enabled = FALSE
                      /\ q.running = r.running /\ q.schedule = r.schedule
                      /\ jobs' = Replace(q) /\ CallsStore(t, "update", q)
                      /\ Enters(t, "disabling", task[t].job)
                 \/ Exits(t) /\ NoStore /\ jobs' = jobs
              /\ UNCHANGED <<up, loop, loopTime, claimed, permit, clock,
                             twice, stale, dirty, admitted>>
  <2>1. CASE HasJob(jobs, task[t].job.id)
    <3>1. PICK r \in jobs, q \in JobsOver(K) :
           /\ r.id = task[t].job.id /\ q.id = r.id /\ q.enabled = FALSE
           /\ q.running = r.running /\ q.schedule = r.schedule
           /\ jobs' = Replace(q) /\ Begin(t, "update", q) /\ Goes(t, "disabling")
      BY <1>3, <2>1, DisableParts
    <3>2. CallsStore(t, "update", q)
      BY <3>1, CallsWhen
    <3>3. Enters(t, "disabling", task[t].job)
      BY <1>3, <3>1, GoesWhen DEF Disable, CopyPlaces
    <3>4. /\ MayWrite /\ task[t].pc = "disable"
          /\ UNCHANGED <<up, loop, loopTime, claimed, permit, clock,
                         twice, stale, dirty, admitted>>
      BY <1>3 DEF Disable, KeepLoop, historyVars
    <3> QED BY <3>1, <3>2, <3>3, <3>4
  <2>2. CASE ~HasJob(jobs, task[t].job.id)
    BY <1>3, <2>2, ExitsWhen DEF Disable, KeepLoop, historyVars, NoStore, fileVars
  <2> QED BY <2>1, <2>2
<1>4. ASSUME Persisted(t)
      PROVE   /\ task[t].pc \in {"persisting", "disabling"} /\ Exits(t) /\ TakesResult(t)
              /\ \/ Stored(t) /\ dirty' = dirty
                 \/ StoreFailed(t) /\ dirty' = dirty \cup {task[t].job.id}
              /\ UNCHANGED <<up, jobs, loop, loopTime, claimed, permit, clock,
                             twice, stale, admitted>>
  BY <1>4, ExitsWhen, TakesWhen DEF Persisted, KeepLoop, Stored, StoreFailed
<1> QED BY <1>1, <1>2, <1>3, <1>4
(* The timer loop and the store.                                           *)
LEMMA ShapeOfWaits ==
  ASSUME LoopCheck \/ LoopNotified \/ LoopSlept
  PROVE  /\ loop # "off" /\ loop # "clear" /\ loop' \notin {"off", "clear"}
         /\ NoStore
         /\ UNCHANGED <<up, jobs, task, claimed, clock, twice, stale, dirty, admitted>>
         /\ LoopCheck => permit' = permit
         /\ loop' = "sleeping" => LoopCheck
<1>1. CASE LoopCheck
  BY <1>1 DEF LoopCheck, KeepTasks, historyVars, NoStore, fileVars
<1>2. CASE LoopNotified
  BY <1>2 DEF LoopNotified, LoopCheck, KeepTasks, historyVars, NoStore, fileVars
<1>3. CASE LoopSlept
  BY <1>3 DEF LoopSlept, LoopCheck, KeepTasks, historyVars, NoStore, fileVars
<1> QED BY <1>1, <1>2, <1>3

(* Due jobs are marked and claimed.                                        *)
Claims ==
  /\ claimed' = {Copy(r) : r \in {q \in jobs : Due(q)}}
  /\ KeepsDefinitions(jobs', jobs)
  /\ \A r \in jobs' : \E q \in jobs :
       /\ Keeps(r, q) /\ r.next = q.next
       /\ Due(q) => r.running = clock
       /\ ~Due(q) => r = q

LEMMA ShapeOfMarkDue ==
  ASSUME NEW K, Typed(K), MarkDue
  PROVE  /\ MayWrite /\ loop = "due" /\ loop' = "clear" /\ NoStore /\ Claims
         /\ Cardinality({r \in jobs : Due(r)}) <= Cardinality(IdleTimers)
         /\ UNCHANGED <<up, task, permit, clock, twice, stale, dirty, admitted>>
<1> DEFINE due == {r \in jobs : Due(r)}
           F(q) == IF q \in due THEN [q EXCEPT !.running = clock] ELSE q
<1>1. ASSUME NEW q \in jobs
      PROVE  /\ Keeps(F(q), q) /\ F(q).next = q.next
             /\ Due(q) => F(q).running = clock
             /\ ~Due(q) => F(q) = q
  <2>1. q \in JobsOver(K)
    BY TypedParts
  <2>2. q \in due <=> Due(q)
    OBVIOUS
  <2> HIDE DEF due
  <2> QED BY <2>1, <2>2 DEF Keeps, JobsOver
<1>2. jobs' = {F(q) : q \in jobs}
  BY DEF MarkDue
<1>3. /\ MayWrite /\ loop = "due" /\ loop' = "clear" /\ NoStore
      /\ claimed' = {Copy(r) : r \in due}
      /\ Cardinality(due) <= Cardinality(IdleTimers)
      /\ UNCHANGED <<up, task, permit, clock, twice, stale, dirty, admitted>>
  BY DEF MarkDue, KeepTasks, historyVars, NoStore, fileVars
<1> HIDE DEF F
<1>4. \A r \in jobs' : \E q \in jobs : r = F(q)
  BY <1>2
<1>5. \A q \in jobs : F(q) \in jobs'
  BY <1>2
<1>6. Claims
  <2>1. KeepsDefinitions(jobs', jobs)
    BY <1>1, <1>4, <1>5 DEF KeepsDefinitions
  <2>2. \A r \in jobs' : \E q \in jobs :
          /\ Keeps(r, q) /\ r.next = q.next
          /\ Due(q) => r.running = clock
          /\ ~Due(q) => r = q
    BY <1>1, <1>4
  <2> QED BY <2>1, <2>2, <1>3 DEF Claims
<1> QED BY <1>3, <1>6

(* Marks of runs that are stuck are cleared, and the claimed jobs run.     *)
Clears ==
  /\ KeepsDefinitions(jobs', jobs)
  /\ \A r \in jobs' : \E q \in jobs :
       /\ Keeps(r, q) /\ r.next = q.next
       /\ r.running = q.running \/ q.id \in twice'
SlotsGiven(f) ==
  /\ f \in [claimed -> IdleTimers]
  /\ \A q, r \in claimed : f[q] = f[r] => q = r
  /\ \A t \in Tasks :
       \/ \E q \in claimed : f[q] = t /\ task'[t] = [pc |-> "turn", job |-> q]
       \/ (\A q \in claimed : f[q] # t) /\ task'[t] = task[t]

LEMMA ShapeOfSpawn ==
  ASSUME HasRoom, task' = Spawned
  PROVE  \E f : SlotsGiven(f)
<1> DEFINE slot == CHOOSE f \in [claimed -> IdleTimers] :
                     \A q, r \in claimed : f[q] = f[r] => q = r
<1>1. /\ slot \in [claimed -> IdleTimers]
      /\ \A q, r \in claimed : slot[q] = slot[r] => q = r
  BY DEF HasRoom
<1>2. task' = [t \in Tasks |-> IF \E r \in claimed : slot[r] = t
                         THEN [pc |-> "turn", job |-> CHOOSE r \in claimed : slot[r] = t]
                         ELSE task[t]]
  BY DEF Spawned
<1> HIDE DEF slot
<1>3. ASSUME NEW t \in Tasks
      PROVE  \/ \E q \in claimed : slot[q] = t /\ task'[t] = [pc |-> "turn", job |-> q]
             \/ (\A q \in claimed : slot[q] # t) /\ task'[t] = task[t]
  <2>1. CASE \E r \in claimed : slot[r] = t
    <3>1. PICK q : q = CHOOSE r \in claimed : slot[r] = t
      OBVIOUS
    <3>2. q \in claimed /\ slot[q] = t
      BY <2>1, <3>1
    <3>3. task'[t] = [pc |-> "turn", job |-> q]
      BY <1>2, <2>1, <3>1
    <3> QED BY <3>2, <3>3
  <2>2. CASE ~\E r \in claimed : slot[r] = t
    BY <1>2, <2>2
  <2> QED BY <2>1, <2>2
<1> QED BY <1>1, <1>3 DEF SlotsGiven

LEMMA ShapeOfClearStuck ==
  ASSUME NEW K, Typed(K), HasRoom, ClearStuck
  PROVE  /\ MayWrite /\ loop = "clear" /\ loop' = "check" /\ NoStore /\ Clears
         /\ \E f : SlotsGiven(f)
         /\ claimed' = {} /\ twice \subseteq twice'
         /\ UNCHANGED <<up, permit, clock, stale, dirty, admitted>>
<1> DEFINE F(q) == IF IsStuck(q, loopTime) THEN [q EXCEPT !.running = Never] ELSE q
<1>1. ASSUME NEW q \in jobs
      PROVE  /\ Keeps(F(q), q) /\ F(q).next = q.next
             /\ F(q).running = q.running \/ IsStuck(q, loopTime)
  <2>1. q \in JobsOver(K)
    BY TypedParts
  <2> QED BY <2>1 DEF Keeps, JobsOver
<1>2. jobs' = {F(q) : q \in jobs}
  BY DEF ClearStuck
<1>3. /\ MayWrite /\ loop = "clear" /\ loop' = "check" /\ NoStore
      /\ task' = Spawned /\ claimed' = {}
      /\ twice' = twice \cup {r.id : r \in {q \in jobs : IsStuck(q, loopTime)}}
      /\ UNCHANGED <<up, permit, clock, stale, dirty, admitted>>
  BY DEF ClearStuck, NoStore, fileVars
<1> HIDE DEF F
<1>4. \A r \in jobs' : \E q \in jobs : r = F(q)
  BY <1>2
<1>5. \A q \in jobs : F(q) \in jobs'
  BY <1>2
<1>6. \A q \in jobs : IsStuck(q, loopTime) => q.id \in twice'
  BY <1>3
<1>7. Clears
  BY <1>1, <1>4, <1>5, <1>6 DEF Clears, KeepsDefinitions
<1> QED BY <1>3, <1>7, ShapeOfSpawn

LEMMA ShapeOfStore ==
  ASSUME NEW K, Typed(K), NEW t \in Tasks, StoreStep(t) \/ StoreFails(t)
  PROVE  /\ up
         /\ UNCHANGED <<up, jobs, task, loop, loopTime, claimed, permit, clock,
                        twice, stale, dirty, admitted>>
         /\ OthersOp(t)
         /\ op[t].step \in {"load", "write", "backup", "rename"}
         /\ op'[t].step \in {"write", "backup", "rename", "ok", "failed"}
<1>1. up /\ (StoreSteps(t) \/ OpFails(t))
  BY DEF StoreStep, StoreFails
<1>2. UNCHANGED <<up, jobs, task, loop, loopTime, claimed, permit, clock,
                  twice, stale, dirty, admitted>>
  BY DEF StoreStep, StoreFails, serviceVars, historyVars
<1>3. op \in [Tasks -> Ops(K)]
  BY DEF Typed, TypeOKFile
<1>4. /\ OthersOp(t)
      /\ op[t].step \in {"load", "write", "backup", "rename"}
      /\ op'[t].step \in {"write", "backup", "rename", "ok", "failed"}
  <2>1. CASE LoadJobs(t)
    BY <2>1, <1>3 DEF LoadJobs, OthersOp
  <2>2. CASE LoadVanished(t) \/ WriteTmp(t) \/ Backup(t)
    BY <2>2, <1>3 DEF LoadVanished, WriteTmp, Backup, OthersOp
  <2>3. CASE Rename(t) \/ OpFails(t)
    BY <2>3, <1>3 DEF Rename, OpFails, OthersOp
  <2> QED BY <1>1, <2>1, <2>2, <2>3 DEF StoreSteps
<1> QED BY <1>1, <1>2, <1>4
-----------------------------------------------------------------------------
(* The places of the tasks, their operations and the lock.                 *)

LEMMA Kinds ==
  /\ \A l \in UpdatePlaces : Kind(l) = "update"
  /\ \A l \in DeletePlaces : Kind(l) = "delete"
  /\ Kind("adding") = "save"
  /\ \A l \in {"idle", "done", "mark", "turn", "reschedule", "persist", "disable"} :
       Kind(l) = "none"
  /\ \A l : Kind(l) = "update" => l \in UpdatePlaces
  /\ \A l : Kind(l) # "none" => l \in Placed
BY DEF Kind, UpdatePlaces, DeletePlaces, Placed, CopyPlaces

LEMMA NoWriter ==
  ASSUME NEW u \in Tasks
  PROVE  /\ MayWrite => task[u].pc \notin UpdatePlaces
         /\ MayRead => task[u].pc \notin {"updating", "disabling"}
BY DEF MayWrite, MayRead, Writing, Reading, UpdatePlaces

(* The operations of the others stand while the list is not written.       *)
LEMMA OpOthers ==
  ASSUME OpInv, NEW u \in Tasks, task'[u] = task[u], op'[u] = op[u],
         jobs' = jobs \/ MayWrite
  PROVE  OpOf(u)'
<1>1. OpOf(u)
  BY DEF OpInv
<1>2. op[u].step = "load" /\ op[u].kind = "update" => op[u].job \in jobs'
  <2>1. op[u].step = "load" /\ op[u].kind = "update" => task[u].pc \in UpdatePlaces
    BY <1>1, Kinds DEF OpOf
  <2> QED BY <1>1, <2>1, NoWriter DEF OpOf
<1> QED BY <1>1, <1>2 DEF OpOf

LEMMA OpEnds ==
  ASSUME OpInv, LockInv, NEW t \in Tasks, Exits(t),
         TakesResult(t) \/ (NoStore /\ Kind(task[t].pc) = "none"),
         jobs' = jobs \/ MayWrite
  PROVE  OpInv' /\ LockInv'
<1>1. ASSUME NEW u \in Tasks \ {t} PROVE OpOf(u)'
  BY <1>1, OpOthers DEF Exits, Others, TakesResult, OthersOp, NoStore
<1>2. OpOf(t)'
  <2>1. Kind(task'[t].pc) = "none"
    BY Kinds DEF Exits
  <2>2. op'[t].step = "none"
    BY DEF TakesResult, NoOp, NoStore, OpInv, OpOf
  <2> QED BY <2>1, <2>2 DEF OpOf
<1>3. LockInv'
  BY DEF LockInv, Exits, Others, UpdatePlaces
<1> QED BY <1>1, <1>2, <1>3 DEF OpInv

LEMMA OpGoes ==
  ASSUME OpInv, LockInv, NEW t \in Tasks, NEW l, NEW q, Enters(t, l, q), NoStore,
         Kind(task[t].pc) = "none", Kind(l) = "none",
         jobs' = jobs \/ MayWrite
  PROVE  OpInv' /\ LockInv'
<1>1. ASSUME NEW u \in Tasks \ {t} PROVE OpOf(u)'
  BY <1>1, OpOthers DEF Enters, Others, NoStore
<1>2. OpOf(t)'
  <2>1. Kind(task'[t].pc) = "none"
    BY DEF Enters
  <2>2. op'[t].step = "none"
    BY DEF NoStore, OpInv, OpOf
  <2> QED BY <2>1, <2>2 DEF OpOf
<1>3. l \notin UpdatePlaces
  BY Kinds
<1>4. LockInv'
  BY <1>3 DEF LockInv, Enters, Others, UpdatePlaces
<1> QED BY <1>1, <1>2, <1>4 DEF OpInv

LEMMA OpCalls ==
  ASSUME OpInv, LockInv, NEW t \in Tasks, NEW l, NEW q, NEW kind, NEW job,
         Enters(t, l, q), CallsStore(t, kind, job), Kind(l) = kind, kind # "none",
         job.id = q.id, kind = "save" => job = q, kind = "update" => job \in jobs',
         jobs' = jobs \/ MayWrite,
         l \in {"updating", "disabling"} => MayWrite,
         l = "persisting" => MayRead
  PROVE  OpInv' /\ LockInv'
<1>1. ASSUME NEW u \in Tasks \ {t} PROVE OpOf(u)'
  BY <1>1, OpOthers DEF Enters, Others, CallsStore, OthersOp
<1>2. OpOf(t)'
  BY DEF OpOf, Enters, CallsStore
<1>3. ASSUME NEW u \in Tasks, NEW v \in Tasks,
             task'[u].pc \in {"updating", "disabling"}, task'[v].pc \in UpdatePlaces
      PROVE  u = v
  <2>1. CASE u = t /\ v = t
    BY <2>1
  <2>2. CASE u = t /\ v # t
    BY <1>3, <2>2, NoWriter DEF Enters, Others
  <2>3. CASE u # t /\ v = t
    BY <1>3, <2>3, NoWriter DEF Enters, Others, UpdatePlaces
  <2>4. CASE u # t /\ v # t
    BY <1>3, <2>4 DEF Enters, Others, LockInv
  <2> QED BY <2>1, <2>2, <2>3, <2>4
<1>4. LockInv'
  BY <1>3 DEF LockInv
<1> QED BY <1>1, <1>2, <1>4 DEF OpInv

LEMMA Replaced ==
  ASSUME NEW q
  PROVE  /\ q \in Replace(q)
         /\ \A r \in Replace(q) : r = q \/ (r \in jobs /\ r.id # q.id)
         /\ \A r \in jobs : r.id # q.id => r \in Replace(q)
BY DEF Replace, Without

LEMMA CopyOf ==
  ASSUME NEW r
  PROVE  Copy(r).id = r.id /\ Copy(r).once = r.once /\ Copy(r).schedule = r.schedule
BY DEF Copy

(* The steps of calls and runs.                                            *)
LEMMA OpStep ==
  ASSUME NEW K, Typed(K), OpInv, LockInv, NEW t \in Tasks,
         Call(t) \/ TaskSteps(t) \/ TurnEnds(t) \/ StoreFails(t)
  PROVE  OpInv' /\ LockInv'
<1> USE Kinds
<1>1. CASE AddRefused(t)
  BY <1>1, ShapeOfAdds, OpEnds
<1>2. ASSUME NEW j \in Jobs, NEW s \in Schedules, NEW once \in BOOLEAN, Add(t, j, s, once)
      PROVE  OpInv' /\ LockInv'
  <2>1. jobs' = jobs /\ EntersAdded(K, t, j)
    BY <1>2, ShapeOfAdds
  <2>2. PICK r : Enters(t, "adding", r) /\ CallsStore(t, "save", r)
    BY <2>1 DEF EntersAdded
  <2> QED BY <2>1, <2>2, OpCalls
<1>3. CASE Added(t)
  <2>1. Exits(t) /\ TakesResult(t) /\ (jobs' = jobs \/ MayWrite)
    BY <1>3, ShapeOfAdds
  <2> QED BY <2>1, OpEnds
<1>4. ASSUME NEW r \in jobs, NEW en \in BOOLEAN, NEW s \in Schedules, NEW once \in BOOLEAN,
             UpdateRefused(t, r, en, s, once)
      PROVE  OpInv' /\ LockInv'
  <2>1. MayWrite /\ task[t].pc = "idle" /\ Exits(t) /\ NoStore
    BY <1>4, ShapeOfUpdates
  <2> QED BY <2>1, OpEnds
<1>5. ASSUME NEW r \in jobs, NEW en \in BOOLEAN, NEW s \in Schedules, NEW once \in BOOLEAN,
             Update(t, r, en, s, once)
      PROVE  OpInv' /\ LockInv'
  <2>1. PICK q : /\ MayWrite /\ jobs' = Replace(q)
                 /\ CallsStore(t, "update", q) /\ Enters(t, "updating", Copy(q))
    BY <1>5, ShapeOfUpdates
  <2>2. q \in jobs' /\ q.id = Copy(q).id
    BY <2>1, Replaced, CopyOf
  <2>3. Kind("updating") = "update"
    BY DEF UpdatePlaces
  <2> QED BY <2>1, <2>2, <2>3, OpCalls
<1>6. CASE Updated(t)
  <2>1. Exits(t) /\ TakesResult(t) /\ jobs' = jobs
    BY <1>6, ShapeOfUpdates
  <2> QED BY <2>1, OpEnds
<1>7. ASSUME NEW r \in jobs, Remove(t, r)
      PROVE  OpInv' /\ LockInv'
  <2>1. CallsStore(t, "delete", Copy(r)) /\ Enters(t, "removing", Copy(r)) /\ jobs' = jobs
    BY <1>7, ShapeOfRemovals
  <2>2. Kind("removing") = "delete"
    BY DEF DeletePlaces
  <2> QED BY <2>1, <2>2, OpCalls
<1>8. CASE Removed(t)
  <2>1. Exits(t) /\ TakesResult(t) /\ (jobs' = jobs \/ MayWrite)
    BY <1>8, ShapeOfRemovals
  <2> QED BY <2>1, OpEnds
<1>9. ASSUME NEW r \in jobs, RunRead(t, r)
      PROVE  OpInv' /\ LockInv'
  <2>1. task[t].pc = "idle" /\ NoStore /\ Enters(t, "mark", Copy(r)) /\ jobs' = jobs
    BY <1>9, ShapeOfRuns
  <2> QED BY <2>1, OpGoes
<1>10. CASE RunMark(t)
  <2>1. task[t].pc = "mark" /\ NoStore /\ Enters(t, "turn", task[t].job) /\ MayWrite
    BY <1>10, ShapeOfRuns
  <2> QED BY <2>1, OpGoes
<1>11. CASE TurnEnds(t)
  <2>1. task[t].pc = "turn" /\ NoStore /\ Enters(t, "reschedule", task[t].job) /\ jobs' = jobs
    BY <1>11, ShapeOfRuns
  <2> QED BY <2>1, OpGoes
<1>12. CASE Reschedule(t)
  <2>1. /\ MayWrite /\ task[t].pc = "reschedule"
        /\ \/ /\ Enters(t, "deleting", task[t].job)
              /\ CallsStore(t, "delete", task[t].job)
           \/ /\ Enters(t, "persist", task[t].job) \/ Enters(t, "disable", task[t].job)
              /\ NoStore
    BY <1>12, ShapeOfEnds
  <2>2. Kind("deleting") = "delete"
    BY DEF DeletePlaces
  <2>3. CASE NoStore
    BY <2>1, <2>3, OpGoes, OpCalls, <2>2
  <2>4. CASE Enters(t, "deleting", task[t].job) /\ CallsStore(t, "delete", task[t].job)
    BY <2>1, <2>2, <2>4, OpCalls
  <2> QED BY <2>1, <2>3, <2>4
<1>13. CASE Persist(t)
  <2>1. /\ MayRead /\ task[t].pc = "persist" /\ jobs' = jobs
        /\ \/ \E q \in jobs : /\ q.id = task[t].job.id
                              /\ CallsStore(t, "update", q)
                              /\ Enters(t, "persisting", task[t].job)
           \/ Exits(t) /\ NoStore
    BY <1>13, ShapeOfEnds
  <2>2. Kind("persisting") = "update"
    BY DEF UpdatePlaces
  <2>3. CASE Exits(t) /\ NoStore
    BY <2>1, <2>3, OpEnds
  <2>4. ASSUME NEW q \in jobs, q.id = task[t].job.id, CallsStore(t, "update", q),
               Enters(t, "persisting", task[t].job)
        PROVE  OpInv' /\ LockInv'
    BY <2>1, <2>2, <2>4, OpCalls
  <2> QED BY <2>1, <2>3, <2>4
<1>14. CASE Disable(t)
  <2>1. /\ MayWrite /\ task[t].pc = "disable"
        /\ \/ \E q \in JobsOver(K) :
                /\ q.id = task[t].job.id
                /\ jobs' = Replace(q) /\ CallsStore(t, "update", q)
                /\ Enters(t, "disabling", task[t].job)
           \/ Exits(t) /\ NoStore /\ jobs' = jobs
    BY <1>14, ShapeOfEnds
  <2>2. Kind("disabling") = "update"
    BY DEF UpdatePlaces
  <2>3. CASE Exits(t) /\ NoStore /\ jobs' = jobs
    BY <2>1, <2>3, OpEnds
  <2>4. ASSUME NEW q \in JobsOver(K), q.id = task[t].job.id, jobs' = Replace(q),
               CallsStore(t, "update", q), Enters(t, "disabling", task[t].job)
        PROVE  OpInv' /\ LockInv'
    BY <2>1, <2>2, <2>4, OpCalls, Replaced
  <2> QED BY <2>1, <2>3, <2>4
<1>15. CASE Persisted(t)
  <2>1. Exits(t) /\ TakesResult(t) /\ jobs' = jobs
    BY <1>15, ShapeOfEnds
  <2> QED BY <2>1, OpEnds
<1>16. CASE StoreStep(t) \/ StoreFails(t)
  <2>1. /\ OthersOp(t) /\ jobs' = jobs /\ task' = task
        /\ op[t].step \in {"load", "write", "backup", "rename"}
        /\ op'[t].step \in {"write", "backup", "rename", "ok", "failed"}
    BY <1>16, ShapeOfStore
  <2>2. ASSUME NEW u \in Tasks PROVE OpOf(u)'
    <3>1. CASE u = t
      BY <2>1, <3>1 DEF OpInv, OpOf
    <3>2. CASE u # t
      BY <2>1, <3>2, OpOthers DEF OthersOp
    <3> QED BY <3>1, <3>2
  <2> QED BY <2>1, <2>2 DEF OpInv, LockInv
<1> QED
  <2>1. ASSUME Call(t) PROVE OpInv' /\ LockInv'
    BY <1>1, <1>2, <1>4, <1>5, <1>7, <1>9, <2>1 DEF Call, OnceOf
  <2>2. ASSUME TaskSteps(t) PROVE OpInv' /\ LockInv'
    BY <1>3, <1>6, <1>8, <1>10, <1>12, <1>13, <1>14, <1>15, <1>16, <2>2 DEF TaskSteps
  <2> QED BY <2>1, <2>2, <1>11, <1>16
(* The steps of the service; only a process that is up takes most of them. *)
TaskStep(t) ==
  (t \in Clients /\ Call(t)) \/ TaskSteps(t) \/ TurnEnds(t) \/ StoreFails(t)
Waits == LoopCheck \/ LoopNotified \/ LoopSlept

LEMMA StepCases ==
  ASSUME NextCron
  PROVE  Start \/ Crash \/ Tick \/ Waits \/ MarkDue \/ ClearStuck
         \/ \E t \in Tasks : TaskStep(t)
BY DEF NextCron, TimerLoop, Waits, TaskStep, Tasks

LEMMA UpCalls ==
  ASSUME NEW c \in Tasks, Call(c)
  PROVE  up /\ up' = up
<1>1. CASE AddRefused(c)
  BY <1>1 DEF AddRefused
<1>2. ASSUME NEW j \in Jobs, NEW s \in Schedules, NEW once \in BOOLEAN, Add(c, j, s, once)
      PROVE  up /\ up' = up
  BY <1>2 DEF Add
<1>3. ASSUME NEW r \in jobs, Remove(c, r) \/ RunRead(c, r) PROVE up /\ up' = up
  BY <1>3 DEF Remove, RunRead, KeepLoop, MayRead
<1>4. ASSUME NEW r \in jobs, NEW en \in BOOLEAN, NEW s \in Schedules, NEW once \in BOOLEAN,
             Update(c, r, en, s, once) \/ UpdateRefused(c, r, en, s, once)
      PROVE  up /\ up' = up
  BY <1>4 DEF Update, UpdateRefused, KeepLoop, MayWrite
<1> QED BY <1>1, <1>2, <1>3, <1>4 DEF Call, OnceOf

LEMMA UpTasks ==
  ASSUME DownInv, NEW t \in Tasks, TaskSteps(t) \/ TurnEnds(t) \/ StoreFails(t)
  PROVE  up /\ up' = up
<1>1. task[t].pc \in Placed => up
  BY DEF DownInv
<1>2. CASE Added(t) \/ Updated(t) \/ Removed(t)
  BY <1>1, <1>2 DEF Added, Updated, Removed, KeepLoop, Placed, CopyPlaces
<1>3. CASE RunMark(t) \/ TurnEnds(t) \/ Reschedule(t)
  BY <1>1, <1>3 DEF RunMark, TurnEnds, Reschedule, KeepLoop, Placed, CopyPlaces
<1>4. CASE Persist(t) \/ Disable(t) \/ Persisted(t)
  BY <1>1, <1>4 DEF Persist, Disable, Persisted, KeepLoop, Placed, CopyPlaces
<1>5. CASE StoreStep(t) \/ StoreFails(t)
  BY <1>5 DEF StoreStep, StoreFails, serviceVars
<1> QED BY <1>2, <1>3, <1>4, <1>5 DEF TaskSteps

LEMMA UpStep ==
  ASSUME DownInv, NEW t \in Tasks, TaskStep(t)
  PROVE  up /\ up' = up
BY UpCalls, UpTasks DEF TaskStep

(* After a crash every task is at rest.                                    *)
LEMMA ShapeOfCrash ==
  ASSUME NEW K, Typed(K), Crash
  PROVE  /\ \A t \in Tasks : task'[t].pc \in {"idle", "done"} /\ op'[t] = NoOp
         /\ \A t \in Timers : task'[t].pc = "idle"
         /\ ~up' /\ jobs' = {} /\ claimed' = {} /\ loop' = "off"
         /\ file' = file /\ tmp' = tmp
         /\ clean' = (clean /\ \A t \in Tasks : ~InFlight(t))
         /\ UNCHANGED <<clock, twice, stale, dirty, admitted>>
<1>1. \A t \in Tasks : task'[t] = IF t \in Clients /\ task[t] # Idle
                                   THEN [pc |-> "done"] ELSE Idle
  BY DEF Crash
<1>2. \A t \in Tasks : task'[t].pc \in {"idle", "done"}
  BY <1>1 DEF Idle
<1>3. \A t \in Timers : task'[t].pc = "idle"
  BY <1>1, CronAssumption DEF Idle, Tasks
<1>4. \A t \in Tasks : op'[t] = NoOp
  BY DEF Crash, CrashFile
<1> QED BY <1>2, <1>3, <1>4 DEF Crash, CrashFile, historyVars

(* The tasks that ClearStuck spawns were idle and get a claimed job.        *)
LEMMA SpawnChanges ==
  ASSUME NEW f, SlotsGiven(f)
  PROVE  \A t \in Tasks :
           \/ task'[t] = task[t]
           \/ /\ t \in Timers /\ task[t].pc = "idle" /\ task'[t].pc = "turn"
              /\ task'[t].job \in claimed
<1> SUFFICES ASSUME NEW t \in Tasks
             PROVE  \/ task'[t] = task[t]
                    \/ /\ t \in Timers /\ task[t].pc = "idle" /\ task'[t].pc = "turn"
                       /\ task'[t].job \in claimed
  OBVIOUS
<1>1. CASE (\A q \in claimed : f[q] # t) /\ task'[t] = task[t]
  BY <1>1
<1>2. ASSUME NEW q \in claimed, f[q] = t, task'[t] = [pc |-> "turn", job |-> q]
      PROVE  /\ t \in Timers /\ task[t].pc = "idle" /\ task'[t].pc = "turn"
             /\ task'[t].job \in claimed
  <2>1. f[q] \in IdleTimers
    BY DEF SlotsGiven
  <2> QED BY <1>2, <2>1 DEF IdleTimers
<1> QED BY <1>1, <1>2 DEF SlotsGiven

LEMMA DownStep ==
  ASSUME NEW K, Typed(K), HasRoom, DownInv, OpInv, LockInv, NextCron
  PROVE  DownInv' /\ OpInv' /\ LockInv'
<1>1. CASE Start
  <2>1. DownInv'
    BY <1>1 DEF Start, DownInv
  <2>2. ASSUME NEW t \in Tasks PROVE OpOf(t)'
    <3>1. task'[t] = task[t] /\ op'[t] = op[t] /\ op[t] = NoOp
      BY <1>1 DEF Start, fileVars, DownInv
    <3> QED BY <3>1 DEF OpInv, OpOf, NoOp
  <2>3. LockInv'
    BY <1>1 DEF Start, LockInv
  <2> QED BY <2>1, <2>2, <2>3 DEF OpInv
<1>2. CASE Crash
  <2>1. /\ \A t \in Tasks : task'[t].pc \in {"idle", "done"} /\ op'[t] = NoOp
        /\ ~up' /\ jobs' = {} /\ claimed' = {} /\ loop' = "off"
    BY <1>2, ShapeOfCrash
  <2>2. DownInv'
    BY <2>1 DEF DownInv, Placed, CopyPlaces
  <2>3. \A t \in Tasks : OpOf(t)'
    BY <2>1, Kinds DEF OpOf, NoOp
  <2> QED BY <2>1, <2>2, <2>3 DEF OpInv, LockInv
<1>3. CASE Tick
  BY <1>3 DEF Tick, DownInv, OpInv, OpOf, LockInv, fileVars
<1>4. CASE Waits
  <2>1. /\ loop # "off" /\ NoStore /\ UNCHANGED <<up, jobs, task>>
    BY <1>4, ShapeOfWaits DEF Waits
  <2> QED BY <2>1 DEF DownInv, OpInv, OpOf, LockInv, NoStore
<1>5. CASE MarkDue
  <2>1. MayWrite /\ NoStore /\ UNCHANGED <<up, task>>
    BY <1>5, ShapeOfMarkDue
  <2>2. OpInv'
    BY <2>1, OpOthers DEF OpInv, NoStore
  <2> QED BY <2>1, <2>2 DEF DownInv, LockInv, MayWrite
<1>6. CASE ClearStuck
  <2>1. MayWrite /\ NoStore /\ up' = up
    BY <1>6, ShapeOfClearStuck
  <2>2. \A t \in Tasks : \/ task'[t] = task[t]
                         \/ task[t].pc = "idle" /\ task'[t].pc = "turn"
    BY <1>6, ShapeOfClearStuck, SpawnChanges
  <2>3. ASSUME NEW t \in Tasks PROVE OpOf(t)'
    <3>1. CASE task'[t] = task[t]
      BY <2>1, <3>1, OpOthers DEF NoStore
    <3>2. CASE task[t].pc = "idle" /\ task'[t].pc = "turn"
      BY <2>1, <3>2, Kinds DEF NoStore, OpInv, OpOf
    <3> QED BY <2>2, <3>1, <3>2
  <2>4. LockInv'
    BY <2>2 DEF LockInv, UpdatePlaces
  <2> QED BY <2>1, <2>3, <2>4 DEF DownInv, OpInv, MayWrite
<1>7. ASSUME NEW t \in Tasks, TaskStep(t) PROVE DownInv' /\ OpInv' /\ LockInv'
  BY <1>7, UpStep, OpStep DEF TaskStep, DownInv
<1> QED BY <1>1, <1>2, <1>3, <1>4, <1>5, <1>6, <1>7, StepCases
-----------------------------------------------------------------------------
(* A job that is being added is known to nobody else.                      *)

LEMMA AddKept ==
  ASSUME AddInv, Ids(jobs)' \subseteq Ids(jobs),
         Ids(claimed)' \subseteq Ids(claimed) \cup Ids(jobs),
         admitted \subseteq admitted',
         \A u \in Tasks : task'[u].pc = "adding" => task'[u] = task[u],
         \A u \in Tasks : task'[u].pc \in Placed =>
           \/ task[u].pc \in Placed /\ task'[u].job.id = task[u].job.id
           \/ task'[u].job.id \in Ids(jobs) \cup Ids(claimed)
  PROVE  AddInv'
<1> SUFFICES ASSUME NEW t \in Tasks, task'[t].pc = "adding"
             PROVE  /\ task'[t].job.id \notin Ids(jobs)' \cup Ids(claimed)'
                    /\ task'[t].job.id \in admitted'
                    /\ \A u \in Tasks :
                         task'[u].pc \in Placed /\ task'[u].job.id = task'[t].job.id
                           => u = t
  BY DEF AddInv
<1>1. /\ task[t].pc = "adding" /\ task'[t].job.id = task[t].job.id
      /\ task[t].job.id \notin Ids(jobs) \cup Ids(claimed)
      /\ task[t].job.id \in admitted
      /\ \A u \in Tasks : task[u].pc \in Placed /\ task[u].job.id = task[t].job.id
                           => u = t
  BY DEF AddInv
<1> QED BY <1>1

LEMMA AddExits ==
  ASSUME AddInv, NEW t \in Tasks, Exits(t), Ids(jobs)' \subseteq Ids(jobs),
         claimed' = claimed, admitted' = admitted
  PROVE  AddInv'
<1>1. Ids(claimed)' \subseteq Ids(claimed) \cup Ids(jobs)
  BY DEF Ids
<1>2. \A u \in Tasks : u # t => task'[u] = task[u]
  BY DEF Exits, Others
<1>3. task'[t].pc \notin Placed /\ task'[t].pc # "adding"
  BY DEF Exits, Placed, CopyPlaces
<1> QED BY <1>1, <1>2, <1>3, AddKept

LEMMA AddEnters ==
  ASSUME AddInv, NEW t \in Tasks, NEW l, NEW q, Enters(t, l, q), l # "adding",
         (task[t].pc \in Placed /\ q.id = task[t].job.id) \/ q.id \in Ids(jobs),
         Ids(jobs)' \subseteq Ids(jobs), claimed' = claimed, admitted' = admitted
  PROVE  AddInv'
<1>1. Ids(claimed)' \subseteq Ids(claimed) \cup Ids(jobs)
  BY DEF Ids
<1>2. \A u \in Tasks : u # t => task'[u] = task[u]
  BY DEF Enters, Others
<1>3. task'[t].pc = l /\ task'[t].job = q
  BY DEF Enters
<1> QED BY <1>1, <1>2, <1>3, AddKept

LEMMA ReplacedIds ==
  ASSUME NEW r \in jobs, NEW q, q.id = r.id
  PROVE  Ids(Replace(q)) = Ids(jobs)
BY DEF Replace, Without, Ids

LEMMA KeptIds ==
  ASSUME NEW new, NEW old, KeepsDefinitions(new, old)
  PROVE  Ids(new) = Ids(old)
BY DEF KeepsDefinitions, Keeps, Ids

LEMMA InIds ==
  ASSUME NEW r \in jobs
  PROVE  r.id \in Ids(jobs) /\ Copy(r).id \in Ids(jobs)
BY DEF Ids, Copy

LEMMA AddTaskStep ==
  ASSUME Typed(Given), AddInv, NEW t \in Tasks, TaskStep(t)
  PROVE  AddInv'
<1>0. PICK G : G = Given
  OBVIOUS
<1>00. Typed(G)
  BY <1>0
<1>1. CASE AddRefused(t)
  <2>1. Exits(t) /\ jobs' = jobs /\ claimed' = claimed /\ admitted' = admitted
    BY <1>00, <1>1, ShapeOfAdds
  <2> QED BY <2>1, AddExits
<1>2. ASSUME NEW j \in Jobs, NEW s \in Schedules, NEW once \in BOOLEAN, Add(t, j, s, once)
      PROVE  AddInv'
  <2>1. /\ EntersAdded(G, t, j) /\ Fresh(j)
        /\ jobs' = jobs /\ claimed' = claimed /\ admitted' = admitted \cup {j}
    <3>1. EntersAdded(G, t, j)
      BY <1>00, <1>2, ShapeOfAdds
    <3>2. Fresh(j) /\ jobs' = jobs /\ claimed' = claimed /\ admitted' = admitted \cup {j}
      BY <1>2 DEF Add
    <3> QED BY <3>1, <3>2
  <2>2. PICK r : r.id = j /\ Enters(t, "adding", r)
    BY <2>1 DEF EntersAdded
  <2>3. j \notin G
    BY <2>1, <1>0 DEF Fresh, Given
  <2>4. j \notin Ids(jobs) \cup Ids(claimed)
    BY <1>00, <2>3, TypedParts DEF Ids, Typed, TypeOKService, CopiesOver
  <2>5. \A u \in Tasks : task[u].pc \in Placed => task[u].job.id # j
    BY <1>00, <2>3, TypedParts
  <2>6. /\ task'[t].pc = "adding" /\ task'[t].job.id = j
        /\ \A u \in Tasks : u # t => task'[u] = task[u]
    BY <2>2 DEF Enters, Others
  <2>7. "adding" \in Placed
    BY DEF Placed
  <2>8. Ids(jobs)' = Ids(jobs) /\ Ids(claimed)' = Ids(claimed)
    BY <2>1 DEF Ids
  <2> QED BY <2>1, <2>4, <2>5, <2>6, <2>7, <2>8 DEF AddInv
<1>3. CASE Added(t)
  <2>1. /\ task[t].pc = "adding" /\ Exits(t) /\ jobs' \in {jobs, jobs \cup {task[t].job}}
        /\ claimed' = claimed /\ admitted' = admitted
    BY <1>00, <1>3, ShapeOfAdds
  <2>2. "adding" \in Placed
    BY DEF Placed
  <2>3. \A u \in Tasks : task'[u].pc = "adding" => u # t /\ task'[u] = task[u]
    BY <2>1 DEF Exits, Others
  <2>4. \A u \in Tasks : task'[u].pc \in Placed => u # t /\ task'[u] = task[u]
    BY <2>1 DEF Exits, Others, Placed, CopyPlaces
  <2>5. Ids(jobs)' \subseteq Ids(jobs) \cup {task[t].job.id} /\ Ids(claimed)' = Ids(claimed)
    BY <2>1 DEF Ids
  <2>6. \A u \in Tasks : u # t /\ task[u].pc = "adding" => task[u].job.id # task[t].job.id
    BY <2>1, <2>2 DEF AddInv
  <2> QED BY <2>1, <2>3, <2>4, <2>5, <2>6 DEF AddInv
<1>4. ASSUME NEW r \in jobs, NEW en \in BOOLEAN, NEW s \in Schedules, NEW once \in BOOLEAN,
             UpdateRefused(t, r, en, s, once)
      PROVE  AddInv'
  <2>1. PICK q : q.id = r.id /\ jobs' = Replace(q)
    BY <1>00, <1>4, ShapeOfUpdates
  <2>2. Exits(t) /\ claimed' = claimed /\ admitted' = admitted
    BY <1>00, <1>4, ShapeOfUpdates
  <2>3. Ids(jobs)' \subseteq Ids(jobs)
    BY <2>1, ReplacedIds DEF Ids
  <2> QED BY <2>2, <2>3, AddExits
<1>5. ASSUME NEW r \in jobs, NEW en \in BOOLEAN, NEW s \in Schedules, NEW once \in BOOLEAN,
             Update(t, r, en, s, once)
      PROVE  AddInv'
  <2>1. PICK q : q.id = r.id /\ jobs' = Replace(q) /\ Enters(t, "updating", Copy(q))
    BY <1>00, <1>5, ShapeOfUpdates
  <2>2. claimed' = claimed /\ admitted' = admitted
    BY <1>00, <1>5, ShapeOfUpdates
  <2>3. Ids(jobs)' \subseteq Ids(jobs)
    BY <2>1, ReplacedIds DEF Ids
  <2>4. Copy(q).id \in Ids(jobs)
    BY <2>1, CopyOf, InIds
  <2> QED BY <2>1, <2>2, <2>3, <2>4, AddEnters
<1>6. CASE Updated(t)
  <2>1. Exits(t) /\ jobs' = jobs /\ claimed' = claimed /\ admitted' = admitted
    BY <1>00, <1>6, ShapeOfUpdates
  <2> QED BY <2>1, AddExits
<1>7. ASSUME NEW r \in jobs, Remove(t, r)
      PROVE  AddInv'
  <2>1. /\ Enters(t, "removing", Copy(r))
        /\ jobs' = jobs /\ claimed' = claimed /\ admitted' = admitted
    BY <1>00, <1>7, ShapeOfRemovals
  <2> QED BY <2>1, InIds, AddEnters
<1>8. CASE Removed(t)
  <2>1. /\ Exits(t) /\ jobs' \subseteq jobs /\ claimed' = claimed /\ admitted' = admitted
    BY <1>00, <1>8, ShapeOfRemovals DEF Without
  <2>2. Ids(jobs)' \subseteq Ids(jobs)
    BY <2>1 DEF Ids
  <2> QED BY <2>1, <2>2, AddExits
<1>9. ASSUME NEW r \in jobs, RunRead(t, r)
      PROVE  AddInv'
  <2>1. /\ Enters(t, "mark", Copy(r))
        /\ jobs' = jobs /\ claimed' = claimed /\ admitted' = admitted
    BY <1>00, <1>9, ShapeOfRuns
  <2> QED BY <2>1, InIds, AddEnters
<1>10. CASE RunMark(t)
  <2>1. /\ task[t].pc = "mark" /\ Enters(t, "turn", task[t].job)
        /\ Marked(task[t].job.id) /\ claimed' = claimed /\ admitted' = admitted
    BY <1>00, <1>10, ShapeOfRuns
  <2>2. Ids(jobs)' \subseteq Ids(jobs)
    BY <2>1, KeptIds DEF Marked, Ids
  <2>3. task[t].pc \in Placed
    BY <2>1 DEF Placed, CopyPlaces
  <2> QED BY <2>1, <2>2, <2>3, AddEnters
<1>11. CASE TurnEnds(t)
  <2>1. /\ task[t].pc = "turn" /\ Enters(t, "reschedule", task[t].job)
        /\ jobs' = jobs /\ claimed' = claimed /\ admitted' = admitted
    BY <1>00, <1>11, ShapeOfRuns
  <2>3. task[t].pc \in Placed
    BY <2>1 DEF Placed, CopyPlaces
  <2> QED BY <2>1, <2>3, AddEnters
<1>12. CASE Reschedule(t)
  <2>1. /\ task[t].pc = "reschedule"
        /\ \E l \in {"deleting", "persist", "disable"} : Enters(t, l, task[t].job)
        /\ \E next : Rescheduled(task[t].job.id, next)
        /\ claimed' = claimed /\ admitted' = admitted
    BY <1>00, <1>12, ShapeOfEnds
  <2>2. Ids(jobs)' \subseteq Ids(jobs)
    BY <2>1, KeptIds DEF Rescheduled, Ids
  <2>3. task[t].pc \in Placed
    BY <2>1 DEF Placed, CopyPlaces
  <2> QED BY <2>1, <2>2, <2>3, AddEnters
<1>13. CASE Persist(t)
  <2>1. /\ task[t].pc = "persist"
        /\ Enters(t, "persisting", task[t].job) \/ Exits(t)
        /\ jobs' = jobs /\ claimed' = claimed /\ admitted' = admitted
    BY <1>00, <1>13, ShapeOfEnds
  <2>3. task[t].pc \in Placed
    BY <2>1 DEF Placed, CopyPlaces
  <2> QED BY <2>1, <2>3, AddEnters, AddExits
<1>14. CASE Disable(t)
  <2>1. /\ task[t].pc = "disable"
        /\ \/ /\ \E r \in jobs, q \in JobsOver(G) : q.id = r.id /\ jobs' = Replace(q)
              /\ Enters(t, "disabling", task[t].job)
           \/ Exits(t) /\ jobs' = jobs
        /\ claimed' = claimed /\ admitted' = admitted
    BY <1>00, <1>14, ShapeOfEnds
  <2>2. Ids(jobs)' \subseteq Ids(jobs)
    BY <2>1, ReplacedIds DEF Ids
  <2>3. task[t].pc \in Placed
    BY <2>1 DEF Placed, CopyPlaces
  <2> QED BY <2>1, <2>2, <2>3, AddEnters, AddExits
<1>15. CASE Persisted(t)
  <2>1. Exits(t) /\ jobs' = jobs /\ claimed' = claimed /\ admitted' = admitted
    BY <1>00, <1>15, ShapeOfEnds
  <2> QED BY <2>1, AddExits
<1>16. CASE StoreStep(t) \/ StoreFails(t)
  <2>1. UNCHANGED <<jobs, task, claimed, admitted>>
    BY <1>00, <1>16, ShapeOfStore
  <2> QED BY <2>1 DEF AddInv, Ids
<1> QED
  <2>1. ASSUME Call(t) PROVE AddInv'
    BY <1>1, <1>2, <1>4, <1>5, <1>7, <1>9, <2>1 DEF Call, OnceOf
  <2>2. ASSUME TaskSteps(t) PROVE AddInv'
    BY <1>3, <1>6, <1>8, <1>10, <1>12, <1>13, <1>14, <1>15, <1>16, <2>2 DEF TaskSteps
  <2> QED BY <2>1, <2>2, <1>11, <1>16 DEF TaskStep

LEMMA AddStep ==
  ASSUME Typed(Given), HasRoom, DownInv, AddInv, NextCron
  PROVE  AddInv'
<1>0. PICK G : G = Given
  OBVIOUS
<1>00. Typed(G)
  BY <1>0
<1>1. CASE Start
  <2>1. \A t \in Tasks : task'[t].pc # "adding"
    BY <1>1 DEF Start, DownInv, Placed
  <2> QED BY <2>1 DEF AddInv
<1>2. CASE Crash
  <2>1. \A t \in Tasks : task'[t].pc # "adding"
    BY <1>00, <1>2, ShapeOfCrash
  <2> QED BY <2>1 DEF AddInv
<1>3. CASE Tick
  BY <1>3 DEF Tick, AddInv, Ids, historyVars
<1>4. CASE Waits
  BY <1>4, ShapeOfWaits DEF Waits, AddInv, Ids
<1>5. CASE MarkDue
  <2>1. Claims /\ task' = task /\ admitted' = admitted
    BY <1>00, <1>5, ShapeOfMarkDue
  <2>2. Ids(jobs)' \subseteq Ids(jobs)
    BY <2>1, KeptIds DEF Claims, Ids
  <2>3. Ids(claimed)' \subseteq Ids(claimed) \cup Ids(jobs)
    BY <2>1, CopyOf DEF Claims, Ids
  <2> QED BY <2>1, <2>2, <2>3, AddKept
<1>6. CASE ClearStuck
  <2>1. /\ Clears /\ claimed' = {} /\ admitted' = admitted
        /\ \E f : SlotsGiven(f)
    BY <1>00, <1>6, ShapeOfClearStuck
  <2>2. Ids(jobs)' \subseteq Ids(jobs) /\ Ids(claimed)' = {}
    BY <2>1, KeptIds DEF Clears, Ids
  <2>3. \A t \in Tasks : task'[t] = task[t]
                         \/ (task'[t].pc = "turn" /\ task'[t].job \in claimed)
    BY <2>1, SpawnChanges
  <2>4. \A q \in claimed : q.id \in Ids(claimed)
    BY DEF Ids
  <2> QED BY <2>1, <2>2, <2>3, <2>4, AddKept
<1>7. ASSUME NEW t \in Tasks, TaskStep(t) PROVE AddInv'
  BY <1>7, AddTaskStep
<1> QED BY <1>1, <1>2, <1>3, <1>4, <1>5, <1>6, <1>7, StepCases
-----------------------------------------------------------------------------
(* The types as a whole.                                                   *)

LEMMA TypedTaskStep ==
  ASSUME NEW K, K \subseteq Jobs, Typed(K), AddInv, NEW t \in Tasks, TaskStep(t)
  PROVE  \/ Typed(K)' /\ admitted' = admitted
         \/ \E j \in Jobs : Typed(K \cup {j})' /\ admitted' = admitted \cup {j}
<1> DEFINE Kept == Typed(K)' /\ admitted' = admitted
<1>1. CASE AddRefused(t)
  BY <1>1, TypedAddRefused, ShapeOfAdds
<1>2. ASSUME NEW j \in Jobs, NEW s \in Schedules, NEW once \in BOOLEAN, Add(t, j, s, once)
      PROVE  Typed(K \cup {j})' /\ admitted' = admitted \cup {j}
  <2>1. Typed(K \cup {j})'
    BY <1>2, TypedAdd
  <2>2. admitted' = admitted \cup {j}
    BY <1>2 DEF Add
  <2> QED BY <2>1, <2>2
<1>3. CASE Added(t)
  BY <1>3, TypedAdded, ShapeOfAdds
<1>4. ASSUME NEW r \in jobs, NEW en \in BOOLEAN, NEW s \in Schedules, NEW once \in BOOLEAN,
             UpdateRefused(t, r, en, s, once)
      PROVE  Kept
  BY <1>4, TypedUpdateRefused, ShapeOfUpdates
<1>5. ASSUME NEW r \in jobs, NEW en \in BOOLEAN, NEW s \in Schedules, NEW once \in BOOLEAN,
             Update(t, r, en, s, once)
      PROVE  Kept
  BY <1>5, TypedUpdate, ShapeOfUpdates
<1>6. CASE Updated(t)
  BY <1>6, TypedUpdated, ShapeOfUpdates
<1>7. ASSUME NEW r \in jobs, Remove(t, r)
      PROVE  Kept
  BY <1>7, TypedRemove, ShapeOfRemovals
<1>8. CASE Removed(t)
  BY <1>8, TypedRemoved, ShapeOfRemovals
<1>9. ASSUME NEW r \in jobs, RunRead(t, r)
      PROVE  Kept
  BY <1>9, TypedRunRead, ShapeOfRuns
<1>10. CASE RunMark(t)
  BY <1>10, TypedRunMark, ShapeOfRuns
<1>11. CASE TurnEnds(t)
  BY <1>11, TypedTurnEnds, ShapeOfRuns
<1>12. CASE Reschedule(t)
  BY <1>12, TypedReschedule, ShapeOfEnds
<1>13. CASE Persist(t)
  BY <1>13, TypedPersist, ShapeOfEnds
<1>14. CASE Disable(t)
  BY <1>14, TypedDisable, ShapeOfEnds
<1>15. CASE Persisted(t)
  BY <1>15, TypedPersisted, ShapeOfEnds
<1>16. CASE StoreStep(t) \/ StoreFails(t)
  BY <1>16, TypedStore, ShapeOfStore
<1> QED
  <2>1. ASSUME Call(t)
        PROVE  Kept \/ \E j \in Jobs : Typed(K \cup {j})' /\ admitted' = admitted \cup {j}
    <3>1. ASSUME \E j \in Jobs, s \in Schedules : \E once \in OnceOf(s) : Add(t, j, s, once)
          PROVE  \E j \in Jobs : Typed(K \cup {j})' /\ admitted' = admitted \cup {j}
      <4>1. PICK j \in Jobs, s \in Schedules, once \in BOOLEAN : Add(t, j, s, once)
        BY <3>1 DEF OnceOf
      <4> QED BY <4>1, <1>2
    <3>2. ASSUME \E r \in jobs : Remove(t, r) \/ RunRead(t, r) PROVE Kept
      BY <3>2, <1>7, <1>9
    <3>3. ASSUME \E r \in jobs, en \in BOOLEAN, s \in Schedules : \E once \in OnceOf(s) :
                   Update(t, r, en, s, once) \/ UpdateRefused(t, r, en, s, once)
          PROVE  Kept
      <4>1. PICK r \in jobs, en \in BOOLEAN, s \in Schedules, once \in BOOLEAN :
              Update(t, r, en, s, once) \/ UpdateRefused(t, r, en, s, once)
        BY <3>3 DEF OnceOf
      <4> QED BY <4>1, <1>4, <1>5
    <3> QED BY <2>1, <1>1, <3>1, <3>2, <3>3 DEF Call
  <2>2. ASSUME TaskSteps(t)
        PROVE  Kept \/ \E j \in Jobs : Typed(K \cup {j})' /\ admitted' = admitted \cup {j}
    BY <1>3, <1>6, <1>8, <1>10, <1>12, <1>13, <1>14, <1>15, <1>16, <2>2 DEF TaskSteps
  <2> QED BY <2>1, <2>2, <1>11, <1>16 DEF TaskStep

LEMMA TypedStep ==
  ASSUME Typed(Given), HasRoom, AddInv, NextCron
  PROVE  Typed(Given)'
<1>1. PICK G : G = Given
  OBVIOUS
<1>2. Typed(G) /\ G \subseteq Jobs
  BY <1>1, CronAssumption DEF Given, Typed, TypeOKService
<1>3. \/ Typed(G)' /\ admitted' = admitted
      \/ \E j \in Jobs : Typed(G \cup {j})' /\ admitted' = admitted \cup {j}
  <2>1. CASE Start
    BY <1>2, <2>1, TypedStart DEF Start, historyVars
  <2>2. CASE Crash
    BY <1>2, <2>2, TypedCrash DEF Crash, historyVars
  <2>3. CASE Tick
    BY <1>2, <2>3, TypedTick DEF Tick, historyVars
  <2>4. CASE Waits
    BY <1>2, <2>4, TypedLoop, ShapeOfWaits DEF Waits
  <2>5. CASE MarkDue
    BY <1>2, <2>5, TypedMarkDue, ShapeOfMarkDue
  <2>6. CASE ClearStuck
    BY <1>2, <2>6, TypedClearStuck, ShapeOfClearStuck
  <2>7. ASSUME NEW t \in Tasks, TaskStep(t)
        PROVE  \/ Typed(G)' /\ admitted' = admitted
               \/ \E j \in Jobs : Typed(G \cup {j})' /\ admitted' = admitted \cup {j}
    BY <1>2, <2>7, TypedTaskStep, Zenon
  <2> QED BY <2>1, <2>2, <2>3, <2>4, <2>5, <2>6, <2>7, StepCases
<1>4. CASE Typed(G)' /\ admitted' = admitted
  <2>1. Given' = G
    BY <1>1, <1>4 DEF Given
  <2> QED BY <1>4, <2>1 DEF Typed, TypeOKFile, TypeOKService
<1>5. ASSUME NEW j \in Jobs, Typed(G \cup {j})', admitted' = admitted \cup {j}
      PROVE  Typed(Given)'
  <2>1. Given' = G \cup {j}
    BY <1>1, <1>5 DEF Given
  <2> QED BY <1>5, <2>1 DEF Typed, TypeOKFile, TypeOKService
<1> QED BY <1>3, <1>4, <1>5
-----------------------------------------------------------------------------
(* No job runs twice at once.                                              *)

RunPlaces == {"turn", "reschedule"}

(* A step that begins no run, or only of a job that is run by hand, and    *)
(* takes no mark of a job that runs.                                       *)
MarksStay ==
  \A r \in jobs' :
    \/ r.id \in twice'
    \/ \E q \in jobs : q.id = r.id /\ (q.running # Never => r.running # Never)
    \/ r.id \notin Ids(claimed) /\ Runs(r.id)' = {}

LEMMA InRuns ==
  ASSUME NEW j, NEW t
  PROVE  /\ t \in Runs(j) <=> t \in Tasks /\ task[t].pc \in RunPlaces /\ task[t].job.id = j
         /\ t \in Runs(j)' <=> t \in Tasks /\ task'[t].pc \in RunPlaces /\ task'[t].job.id = j
BY DEF Runs, RunPlaces

LEMMA RoomKept ==
  ASSUME HasRoom, claimed' = claimed,
         \A u \in Timers : task[u].pc = "idle" => task'[u].pc = "idle"
  PROVE  HasRoom'
<1>1. PICK f \in [claimed -> IdleTimers] : \A q, r \in claimed : f[q] = f[r] => q = r
  BY DEF HasRoom
<1>2. IdleTimers \subseteq IdleTimers'
  BY DEF IdleTimers
<1>3. f \in [claimed -> IdleTimers']
  BY <1>1, <1>2
<1> QED BY <1>1, <1>3 DEF HasRoom

LEMMA RunsKept ==
  ASSUME RunInv, claimed' = claimed, loop' = loop, twice \subseteq twice',
         \A u \in Timers : task[u].pc = "idle" => task'[u].pc = "idle",
         \A u \in Tasks : task'[u].pc \in RunPlaces =>
           \/ task[u].pc \in RunPlaces /\ task'[u].job.id = task[u].job.id
           \/ task'[u].job.id \in twice',
         MarksStay
  PROVE  RunInv'
<1>1. HasRoom'
  BY RoomKept DEF RunInv
<1>2. ASSUME NEW j \in Jobs, j \notin twice' PROVE RunningOnce(j)'
  <2>1. RunningOnce(j)
    BY <1>2 DEF RunInv
  <2>2. \A u : u \in Runs(j)' => u \in Runs(j)
    BY <1>2, InRuns
  <2>3. Ids(claimed)' = Ids(claimed)
    BY DEF Ids
  <2>4. \A t, u \in Runs(j)' : t = u
    BY <2>1, <2>2 DEF RunningOnce
  <2>5. j \in Ids(claimed)' => Runs(j)' = {}
    BY <2>1, <2>2, <2>3 DEF RunningOnce
  <2>6. ASSUME j \in Ids(claimed)' \/ Runs(j)' # {}, NEW r \in jobs', r.id = j
        PROVE  r.running # Never
    <3>1. j \in Ids(claimed) \/ Runs(j) # {}
      BY <2>2, <2>3, <2>6
    <3>2. PICK q \in jobs : q.id = j /\ (q.running # Never => r.running # Never)
      BY <1>2, <2>3, <2>6 DEF MarksStay
    <3> QED BY <2>1, <3>1, <3>2 DEF RunningOnce
  <2> QED BY <2>4, <2>5, <2>6 DEF RunningOnce
<1>3. (claimed # {} => loop = "clear")'
  BY DEF RunInv
<1> QED BY <1>1, <1>2, <1>3 DEF RunInv

LEMMA RunExits ==
  ASSUME RunInv, NEW t \in Tasks, Exits(t), claimed' = claimed, loop' = loop,
         twice' = twice, MarksStay
  PROVE  RunInv'
<1>1. \A u \in Tasks : u # t => task'[u] = task[u]
  BY DEF Exits, Others
<1>2. task'[t].pc \notin RunPlaces /\ (t \in Timers => task'[t].pc = "idle")
  BY DEF Exits, RunPlaces
<1>3. \A u \in Timers : u \in Tasks
  BY DEF Tasks
<1> QED BY <1>1, <1>2, <1>3, RunsKept

LEMMA RunEnters ==
  ASSUME RunInv, NEW t \in Tasks, NEW l, NEW q, Enters(t, l, q),
         task[t].pc # "idle" \/ t \in Clients,
         \/ l \notin RunPlaces
         \/ task[t].pc \in RunPlaces /\ q = task[t].job
         \/ q.id \in twice',
         claimed' = claimed, loop' = loop, twice \subseteq twice', MarksStay
  PROVE  RunInv'
<1>1. \A u \in Tasks : u # t => task'[u] = task[u]
  BY DEF Enters, Others
<1>2. task'[t].pc = l /\ task'[t].job = q
  BY DEF Enters
<1>3. \A u \in Timers : u \in Tasks /\ u \notin Clients
  BY CronAssumption DEF Tasks
<1> QED BY <1>1, <1>2, <1>3, RunsKept

LEMMA MarksStayEasily ==
  ASSUME \A r \in jobs' : \E q \in jobs : q.id = r.id /\ q.running = r.running
  PROVE  MarksStay
BY DEF MarksStay

LEMMA MarksOfReplaced ==
  ASSUME NEW r \in jobs, NEW q, q.id = r.id, q.running = r.running, jobs' = Replace(q)
  PROVE  MarksStay
BY Replaced, MarksStayEasily

(* Who is due has room, and only a job that does not run is due.           *)
LEMMA RoomMade ==
  ASSUME NEW K, K \subseteq Jobs, Typed(K), NEW due, due \subseteq jobs,
         Cardinality(due) <= Cardinality(IdleTimers)
  PROVE  \E f \in [{Copy(r) : r \in due} -> IdleTimers] :
           \A q, r \in {Copy(s) : s \in due} : f[q] = f[r] => q = r
<1>1. \A r \in due : r.id \in Jobs
  BY TypedParts
<1>2. \A q, r \in due : q.id = r.id => q = r
  BY TypedParts DEF Lists, OneEach
<1>3. IsFiniteSet(due)
  <2> DEFINE id == [r \in due |-> r.id]
  <2>1. id \in Injection(due, Jobs)
    BY <1>1, <1>2 DEF Injection, IsInjective
  <2> QED BY <2>1, FS_Injection, CronAssumption
<1>4. IsFiniteSet(IdleTimers)
  <2>1. IdleTimers \subseteq Timers
    BY DEF IdleTimers
  <2> QED BY <2>1, FS_Subset, CronAssumption
<1>5. PICK n \in Nat : n = Cardinality(due) /\ ExistsBijection(1 .. n, due)
  BY <1>3, FS_CardinalityType
<1>6. PICK m \in Nat : m = Cardinality(IdleTimers) /\ ExistsBijection(1 .. m, IdleTimers)
  BY <1>4, FS_CardinalityType
<1>7. PICK g \in Bijection(1 .. n, due) : TRUE
  BY <1>5 DEF ExistsBijection
<1>8. PICK h \in Bijection(1 .. m, IdleTimers) : TRUE
  BY <1>6 DEF ExistsBijection
<1>9. /\ g \in [1 .. n -> due]
      /\ \A r \in due : \E i \in 1 .. n : g[i] = r
  BY <1>7 DEF Bijection, Injection, Surjection
<1>10. /\ h \in [1 .. m -> IdleTimers]
       /\ \A i, k \in 1 .. m : h[i] = h[k] => i = k
  BY <1>8 DEF Bijection, Injection, Surjection, IsInjective
<1>11. 1 .. n \subseteq 1 .. m
  BY <1>5, <1>6
<1> DEFINE C == {Copy(r) : r \in due}
           index(q) == CHOOSE i \in 1 .. n : g[i].id = q.id
           f == [q \in C |-> h[index(q)]]
<1>12. ASSUME NEW q \in C
       PROVE  index(q) \in 1 .. n /\ g[index(q)].id = q.id /\ q = Copy(g[index(q)])
  <2>1. PICK r \in due : q = Copy(r)
    OBVIOUS
  <2>2. PICK i \in 1 .. n : g[i] = r
    BY <1>9
  <2>3. g[i].id = q.id
    BY <2>1, <2>2, CopyOf
  <2>4. index(q) \in 1 .. n /\ g[index(q)].id = q.id
    BY <2>3
  <2> HIDE DEF index
  <2>5. g[index(q)] \in due /\ g[index(q)].id = r.id
    BY <1>9, <2>1, <2>4, CopyOf
  <2>6. g[index(q)] = r
    BY <1>2, <2>5
  <2> QED BY <2>1, <2>4, <2>6
<1> HIDE DEF index, C
<1>13. f \in [C -> IdleTimers]
  BY <1>10, <1>11, <1>12
<1>14. ASSUME NEW q \in C, NEW r \in C, f[q] = f[r] PROVE q = r
  <2>1. h[index(q)] = h[index(r)]
    BY <1>14
  <2>2. index(q) = index(r)
    BY <1>10, <1>11, <1>12, <2>1
  <2> QED BY <1>12, <2>2
<1> HIDE DEF f
<1>15. \A q, r \in C : f[q] = f[r] => q = r
  BY <1>14
<1> QED BY <1>13, <1>15 DEF C

LEMMA NoRoomNeeded ==
  ASSUME claimed' = {}
  PROVE  HasRoom'
<1> DEFINE f == [q \in claimed' |-> 0]
<1>1. f \in [claimed' -> IdleTimers']
  OBVIOUS
<1> QED BY <1>1 DEF HasRoom

LEMMA RunsNone ==
  ASSUME claimed' = {}, \A u \in Tasks : task'[u].pc \notin RunPlaces
  PROVE  RunInv'
<1>1. HasRoom'
  BY NoRoomNeeded
<1>2. \A j : Runs(j)' = {} /\ j \notin Ids(claimed)'
  BY DEF Runs, RunPlaces, Ids
<1> QED BY <1>1, <1>2 DEF RunInv, RunningOnce

LEMMA RunTaskStep ==
  ASSUME NEW K, K \subseteq Jobs, Typed(K), AddInv, RunInv, NEW t \in Tasks, TaskStep(t)
  PROVE  RunInv'
<1>0. (Call(t) /\ t \in Clients) \/ TaskSteps(t) \/ TurnEnds(t) \/ StoreFails(t)
  BY DEF TaskStep
<1>1. CASE AddRefused(t)
  <2>1. /\ Exits(t) /\ jobs' = jobs /\ claimed' = claimed /\ loop' = loop /\ twice' = twice
    BY <1>1, ShapeOfAdds
  <2> QED BY <2>1, MarksStayEasily, RunExits
<1>2. ASSUME NEW j \in Jobs, NEW s \in Schedules, NEW once \in BOOLEAN, Add(t, j, s, once),
             t \in Clients
      PROVE  RunInv'
  <2>1. PICK r : Enters(t, "adding", r)
    <3>1. EntersAdded(K, t, j)
      BY <1>2, ShapeOfAdds
    <3> QED BY <3>1 DEF EntersAdded
  <2>2. jobs' = jobs /\ claimed' = claimed /\ loop' = loop /\ twice' = twice
    BY <1>2 DEF Add
  <2>3. "adding" \notin RunPlaces
    BY DEF RunPlaces
  <2> QED BY <1>2, <2>1, <2>2, <2>3, MarksStayEasily, RunEnters
<1>3. CASE Added(t)
  <2>1. /\ task[t].pc = "adding" /\ Exits(t)
        /\ jobs' = jobs \cup {task[t].job} \/ jobs' = jobs
        /\ claimed' = claimed /\ loop' = loop /\ twice' = twice
    BY <1>3, ShapeOfAdds
  <2>2. /\ task[t].job.id \notin Ids(claimed)
        /\ \A u \in Tasks : task[u].pc \in RunPlaces => task[u].job.id # task[t].job.id
    BY <2>1 DEF AddInv, RunPlaces, Placed, CopyPlaces
  <2>3. \A u \in Tasks : task'[u].pc \in RunPlaces => task'[u] = task[u]
    BY <2>1 DEF Exits, Others, RunPlaces
  <2>4. PICK j : j = task[t].job.id
    OBVIOUS
  <2>5. \A u \in Tasks : ~(task'[u].pc \in RunPlaces /\ task'[u].job.id = j)
    BY <2>2, <2>3, <2>4
  <2>6. Runs(j)' = {}
    BY <2>5, InRuns
  <2>7. ASSUME NEW r \in jobs'
        PROVE  \/ \E q \in jobs : q.id = r.id /\ (q.running # Never => r.running # Never)
               \/ r.id \notin Ids(claimed) /\ Runs(r.id)' = {}
    <3>1. CASE r \in jobs
      BY <3>1
    <3>2. CASE r.id = j
      BY <2>2, <2>4, <2>6, <3>2
    <3> QED BY <2>1, <2>4, <3>1, <3>2
  <2>8. MarksStay
    BY <2>7 DEF MarksStay
  <2> QED BY <2>1, <2>8, RunExits
<1>4. ASSUME NEW r \in jobs, NEW en \in BOOLEAN, NEW s \in Schedules, NEW once \in BOOLEAN,
             UpdateRefused(t, r, en, s, once)
      PROVE  RunInv'
  <2>1. PICK q : q.id = r.id /\ q.running = r.running /\ jobs' = Replace(q)
    BY <1>4, ShapeOfUpdates
  <2>2. Exits(t) /\ claimed' = claimed /\ loop' = loop /\ twice' = twice
    BY <1>4, ShapeOfUpdates
  <2> QED BY <2>1, <2>2, MarksOfReplaced, RunExits
<1>5. ASSUME NEW r \in jobs, NEW en \in BOOLEAN, NEW s \in Schedules, NEW once \in BOOLEAN,
             Update(t, r, en, s, once), t \in Clients
      PROVE  RunInv'
  <2>1. PICK q : /\ q.id = r.id /\ q.running = r.running /\ jobs' = Replace(q)
                 /\ Enters(t, "updating", Copy(q))
    BY <1>5, ShapeOfUpdates
  <2>2. claimed' = claimed /\ loop' = loop /\ twice' = twice
    BY <1>5, ShapeOfUpdates
  <2>3. "updating" \notin RunPlaces
    BY DEF RunPlaces
  <2> QED BY <1>5, <2>1, <2>2, <2>3, MarksOfReplaced, RunEnters
<1>6. CASE Updated(t)
  <2>1. Exits(t) /\ jobs' = jobs /\ claimed' = claimed /\ loop' = loop /\ twice' = twice
    BY <1>6, ShapeOfUpdates
  <2> QED BY <2>1, MarksStayEasily, RunExits
<1>7. ASSUME NEW r \in jobs, Remove(t, r) \/ RunRead(t, r), t \in Clients
      PROVE  RunInv'
  <2>1. /\ Enters(t, "removing", Copy(r)) \/ Enters(t, "mark", Copy(r))
        /\ jobs' = jobs /\ claimed' = claimed /\ loop' = loop /\ twice' = twice
    BY <1>7, ShapeOfRemovals, ShapeOfRuns
  <2>2. "removing" \notin RunPlaces /\ "mark" \notin RunPlaces
    BY DEF RunPlaces
  <2> QED BY <1>7, <2>1, <2>2, MarksStayEasily, RunEnters
<1>8. CASE Removed(t)
  <2>1. /\ Exits(t) /\ claimed' = claimed /\ loop' = loop /\ twice' = twice
        /\ \A r \in jobs' : r \in jobs
    BY <1>8, ShapeOfRemovals DEF Without
  <2> QED BY <2>1, MarksStayEasily, RunExits
<1>10. CASE RunMark(t)
  <2>1. /\ task[t].pc = "mark" /\ Enters(t, "turn", task[t].job)
        /\ Marked(task[t].job.id) /\ claimed' = claimed /\ loop' = loop
        /\ twice' = twice \cup {task[t].job.id}
    BY <1>10, ShapeOfRuns
  <2>2. MarksStay
    BY <2>1 DEF Marked, Keeps, MarksStay
  <2> QED BY <2>1, <2>2, RunEnters
<1>11. CASE TurnEnds(t)
  <2>1. /\ task[t].pc = "turn" /\ Enters(t, "reschedule", task[t].job)
        /\ jobs' = jobs /\ claimed' = claimed /\ loop' = loop /\ twice' = twice
    BY <1>11, ShapeOfRuns
  <2>2. task[t].pc \in RunPlaces
    BY <2>1 DEF RunPlaces
  <2> QED BY <2>1, <2>2, MarksStayEasily, RunEnters
<1>12. CASE Reschedule(t)
  <2>1. /\ task[t].pc = "reschedule"
        /\ claimed' = claimed /\ loop' = loop /\ twice' = twice
    BY <1>12, ShapeOfEnds
  <2>2. PICK l \in {"deleting", "persist", "disable"} : Enters(t, l, task[t].job)
    BY <1>12, ShapeOfEnds
  <2>3. PICK next : Rescheduled(task[t].job.id, next)
    BY <1>12, ShapeOfEnds
  <2>4. l \notin RunPlaces
    BY DEF RunPlaces
  <2>5. MarksStay
    <3> SUFFICES ASSUME NEW r \in jobs', r.id \notin twice
                 PROVE  \/ \E q \in jobs : q.id = r.id /\ (q.running # Never => r.running # Never)
                        \/ r.id \notin Ids(claimed) /\ Runs(r.id)' = {}
      BY <2>1 DEF MarksStay
    <3>1. PICK q \in jobs : Keeps(r, q) /\ (r.id # task[t].job.id => r = q)
      BY <2>3 DEF Rescheduled
    <3>2. CASE r.id # task[t].job.id
      BY <3>1, <3>2
    <3>3. CASE r.id = task[t].job.id
      <4>2. t \in Runs(r.id)
        BY <2>1, <3>3, InRuns DEF RunPlaces
      <4>3. RunningOnce(r.id)
        <5>1. r.id \in Jobs
          BY <2>1, <3>3, TypedParts DEF Placed, CopyPlaces
        <5> QED BY <5>1 DEF RunInv
      <4>4. r.id \notin Ids(claimed)
        BY <4>2, <4>3 DEF RunningOnce
      <4>5. ASSUME NEW u \in Runs(r.id)' PROVE FALSE
        <5>1. u # t
          BY <2>2, <2>4, <4>5, InRuns DEF Enters
        <5>2. u \in Runs(r.id)
          BY <5>1, <2>2, <4>5, InRuns DEF Enters, Others
        <5> QED BY <4>2, <4>3, <5>1, <5>2 DEF RunningOnce
      <4> QED BY <4>4, <4>5
    <3> QED BY <3>2, <3>3
  <2> QED BY <2>1, <2>2, <2>4, <2>5, RunEnters
<1>13. CASE Persist(t)
  <2>1. /\ task[t].pc = "persist"
        /\ Enters(t, "persisting", task[t].job) \/ Exits(t)
        /\ jobs' = jobs /\ claimed' = claimed /\ loop' = loop /\ twice' = twice
    BY <1>13, ShapeOfEnds
  <2>2. "persisting" \notin RunPlaces
    BY DEF RunPlaces
  <2> QED BY <2>1, <2>2, MarksStayEasily, RunEnters, RunExits
<1>14. CASE Disable(t)
  <2>1. /\ task[t].pc = "disable"
        /\ claimed' = claimed /\ loop' = loop /\ twice' = twice
    BY <1>14, ShapeOfEnds
  <2>2. "disabling" \notin RunPlaces
    BY DEF RunPlaces
  <2>3. CASE Exits(t) /\ jobs' = jobs
    BY <2>1, <2>3, MarksStayEasily, RunExits
  <2>4. ASSUME NEW r \in jobs, NEW q \in JobsOver(K), q.id = r.id, q.running = r.running,
               jobs' = Replace(q), Enters(t, "disabling", task[t].job)
        PROVE  RunInv'
    BY <2>1, <2>2, <2>4, MarksOfReplaced, RunEnters
  <2> QED BY <1>14, <2>3, <2>4, ShapeOfEnds
<1>15. CASE Persisted(t)
  <2>1. Exits(t) /\ jobs' = jobs /\ claimed' = claimed /\ loop' = loop /\ twice' = twice
    BY <1>15, ShapeOfEnds
  <2> QED BY <2>1, MarksStayEasily, RunExits
<1>16. CASE StoreStep(t) \/ StoreFails(t)
  <2>1. UNCHANGED <<jobs, task, claimed, loop, twice>>
    BY <1>16, ShapeOfStore
  <2> QED BY <2>1 DEF RunInv, HasRoom, IdleTimers, RunningOnce, Runs, Ids
<1> QED
  <2>1. ASSUME Call(t), t \in Clients PROVE RunInv'
    BY <1>1, <1>2, <1>4, <1>5, <1>7, <2>1 DEF Call, OnceOf
  <2>2. ASSUME TaskSteps(t) PROVE RunInv'
    BY <1>3, <1>6, <1>8, <1>10, <1>12, <1>13, <1>14, <1>15, <1>16, <2>2 DEF TaskSteps
  <2> QED BY <1>0, <2>1, <2>2, <1>11, <1>16

LEMMA RunStep ==
  ASSUME NEW K, K \subseteq Jobs, Typed(K), DownInv, AddInv, RunInv, NextCron
  PROVE  RunInv'
<1>1. CASE Start
  <2>1. claimed' = {} /\ \A u \in Tasks : task'[u] = task[u] /\ task[u].pc \notin RunPlaces
    BY <1>1 DEF Start, DownInv, RunPlaces, Placed, CopyPlaces
  <2> QED BY <2>1, RunsNone
<1>2. CASE Crash
  <2>1. claimed' = {} /\ \A u \in Tasks : task'[u].pc \notin RunPlaces
    BY <1>2, ShapeOfCrash DEF RunPlaces
  <2> QED BY <2>1, RunsNone
<1>3. CASE Tick
  BY <1>3 DEF Tick, RunInv, HasRoom, IdleTimers, RunningOnce, Runs, Ids, historyVars
<1>4. CASE Waits
  <2>1. loop # "clear" /\ UNCHANGED <<jobs, task, claimed, twice>>
    BY <1>4, ShapeOfWaits DEF Waits
  <2> QED BY <2>1 DEF RunInv, HasRoom, IdleTimers, RunningOnce, Runs, Ids
<1>5. CASE MarkDue
  <2>1. /\ loop = "due" /\ loop' = "clear" /\ Claims
        /\ Cardinality({r \in jobs : Due(r)}) <= Cardinality(IdleTimers)
        /\ UNCHANGED <<task, clock, twice>>
    BY <1>5, ShapeOfMarkDue
  <2>2. HasRoom'
    <3>1. IdleTimers' = IdleTimers
      BY <2>1 DEF IdleTimers
    <3>2. {r \in jobs : Due(r)} \subseteq jobs
      OBVIOUS
    <3>3. PICK f \in [{Copy(r) : r \in {q \in jobs : Due(q)}} -> IdleTimers] :
            \A q, r \in {Copy(s) : s \in {q \in jobs : Due(q)}} : f[q] = f[r] => q = r
      BY <2>1, <3>2, RoomMade
    <3>4. claimed' = {Copy(r) : r \in {q \in jobs : Due(q)}}
      BY <2>1 DEF Claims
    <3>5. f \in [claimed' -> IdleTimers']
      BY <3>1, <3>3, <3>4, Zenon
    <3>6. \A q, r \in claimed' : f[q] = f[r] => q = r
      BY <3>3, <3>4, Zenon
    <3> QED BY <3>5, <3>6, Zenon DEF HasRoom
  <2>3. claimed = {}
    BY <2>1 DEF RunInv
  <2>4. clock # Never
    BY TypedParts, CronAssumption
  <2>5. \A r \in jobs : \A q \in jobs : q.id = r.id => q = r
    BY TypedParts DEF Lists, OneEach
  <2>6. ASSUME NEW j \in Jobs \ twice PROVE RunningOnce(j)'
    <3>1. RunningOnce(j) /\ Runs(j)' = Runs(j)
      BY <2>1 DEF RunInv, Runs
    <3>2. ASSUME j \in Ids(claimed)'
          PROVE  \E q \in jobs : q.id = j /\ Due(q)
      BY <2>1, <3>2, CopyOf DEF Claims, Ids
    <3>3. j \in Ids(claimed)' => Runs(j)' = {}
      BY <3>1, <3>2 DEF RunningOnce, Due
    <3>4. ASSUME j \in Ids(claimed)' \/ Runs(j)' # {}, NEW r \in jobs', r.id = j
          PROVE  r.running # Never
      <4>1. PICK q \in jobs : /\ q.id = j /\ (Due(q) => r.running = clock)
                              /\ (~Due(q) => r = q)
        BY <2>1, <3>4 DEF Claims, Keeps
      <4>2. CASE Due(q)
        BY <2>4, <4>1, <4>2
      <4>3. CASE ~Due(q)
        <5>1. j \notin Ids(claimed)'
          BY <2>5, <3>2, <4>1, <4>3
        <5> QED BY <3>1, <3>4, <4>1, <4>3, <5>1 DEF RunningOnce
      <4> QED BY <4>2, <4>3
    <3> QED BY <3>1, <3>3, <3>4 DEF RunningOnce
  <2> QED BY <2>1, <2>2, <2>6 DEF RunInv
<1>6. CASE ClearStuck
  <2>1. /\ Clears /\ claimed' = {} /\ twice \subseteq twice'
    BY <1>6, ShapeOfClearStuck DEF RunInv
  <2>2. PICK f : SlotsGiven(f)
    BY <1>6, ShapeOfClearStuck DEF RunInv
  <2>3. HasRoom'
    BY <2>1, NoRoomNeeded
  <2>4. \A q, r \in claimed : q.id = r.id => q = r
    BY DEF Typed, TypeOKService, OneEach
  <2>5. ASSUME NEW j \in Jobs, j \notin twice' PROVE RunningOnce(j)'
    <3>1. RunningOnce(j)
      BY <2>1, <2>5 DEF RunInv
    <3>2. ASSUME NEW u \in Runs(j)'
          PROVE  \/ u \in Runs(j)
                 \/ \E q \in claimed : q.id = j /\ f[q] = u
      <4>1. u \in Tasks /\ task'[u].pc \in RunPlaces /\ task'[u].job.id = j
        BY InRuns
      <4>2. CASE task'[u] = task[u]
        BY <4>1, <4>2, InRuns
      <4>3. ASSUME NEW q \in claimed, f[q] = u, task'[u] = [pc |-> "turn", job |-> q]
            PROVE  q.id = j
        BY <4>1, <4>3
      <4>4. \/ task'[u] = task[u]
            \/ \E q \in claimed : f[q] = u /\ task'[u] = [pc |-> "turn", job |-> q]
        BY <2>2, <4>1 DEF SlotsGiven
      <4> QED BY <4>2, <4>3, <4>4
    <3>3. \A q \in claimed : q.id = j => j \in Ids(claimed)
      BY DEF Ids
    <3>4. \A t, u \in Runs(j)' : t = u
      BY <2>4, <3>1, <3>2, <3>3 DEF RunningOnce
    <3>5. j \notin Ids(claimed)'
      BY <2>1 DEF Ids
    <3>6. ASSUME Runs(j)' # {}, NEW r \in jobs', r.id = j
          PROVE  r.running # Never
      <4>1. j \in Ids(claimed) \/ Runs(j) # {}
        BY <3>2, <3>3, <3>6
      <4>2. PICK q \in jobs : q.id = j /\ r.running = q.running
        BY <2>1, <2>5, <3>6 DEF Clears, Keeps
      <4> QED BY <3>1, <4>1, <4>2 DEF RunningOnce
    <3> QED BY <3>4, <3>5, <3>6 DEF RunningOnce
  <2> QED BY <2>1, <2>3, <2>5 DEF RunInv
<1>7. ASSUME NEW t \in Tasks, TaskStep(t) PROVE RunInv'
  BY <1>7, RunTaskStep
<1> QED BY <1>1, <1>2, <1>3, <1>4, <1>5, <1>6, <1>7, StepCases
-----------------------------------------------------------------------------
(* The next run of a job is that of its schedule.                          *)

SchedPlaces == {"mark", "turn", "reschedule"}

(* Nobody has a copy of a job with this identifier after the step.         *)
NoCopyLeft(j) ==
  /\ \A u \in Tasks : task'[u].pc \in SchedPlaces => task'[u].job.id # j
  /\ \A q \in claimed' : q.id # j
SchedStays ==
  \A r \in jobs' :
    \/ r.id \in stale' \cup dirty'
    \/ OnTime(r, clock) /\ NoCopyLeft(r.id)
    \/ \E q \in jobs : /\ q.id = r.id /\ q.schedule = r.schedule
                       /\ OnTime(q, clock) => OnTime(r, clock)
CopiesStay ==
  /\ \A u \in Tasks : task'[u].pc \in SchedPlaces =>
       \/ task[u].pc \in SchedPlaces /\ task'[u].job = task[u].job
       \/ task'[u].job \in claimed
       \/ \E q \in jobs : task'[u].job = Copy(q)
  /\ \A q \in claimed' : q \in claimed \/ \E r \in jobs : q = Copy(r)
  /\ \A u \in Tasks : task'[u].pc = "adding" =>
       task'[u] = task[u] \/ OnTime(task'[u].job, clock)

LEMMA SchedKept ==
  ASSUME SchedInv, OneEach(jobs), clock' = clock, stale \subseteq stale', dirty \subseteq dirty',
         SchedStays, CopiesStay
  PROVE  SchedInv'
<1>1. ASSUME NEW r \in jobs', r.id \notin stale' \cup dirty'
      PROVE  /\ OnTime(r, clock)
             /\ \A t \in Tasks : task'[t].pc \in SchedPlaces => Same(task'[t].job, r)
             /\ \A q \in claimed' : Same(q, r)
  <2>1. CASE OnTime(r, clock) /\ NoCopyLeft(r.id)
    BY <2>1 DEF NoCopyLeft, Same
  <2>2. ASSUME NEW q \in jobs, q.id = r.id, q.schedule = r.schedule,
               OnTime(q, clock) => OnTime(r, clock)
        PROVE  /\ OnTime(r, clock)
               /\ \A t \in Tasks : task'[t].pc \in SchedPlaces => Same(task'[t].job, r)
               /\ \A c \in claimed' : Same(c, r)
    <3>1. /\ OnTime(q, clock)
          /\ \A t \in Tasks : task[t].pc \in SchedPlaces => Same(task[t].job, q)
          /\ \A c \in claimed : Same(c, q)
      BY <1>1, <2>2 DEF SchedInv, SchedPlaces
    <3>2. \A p \in jobs : Same(Copy(p), q)
      BY CopyOf DEF OneEach, Same
    <3>3. \A t \in Tasks : task'[t].pc \in SchedPlaces => Same(task'[t].job, q)
      BY <3>1, <3>2 DEF CopiesStay
    <3>4. \A c \in claimed' : Same(c, q)
      BY <3>1, <3>2 DEF CopiesStay
    <3> QED BY <2>2, <3>1, <3>3, <3>4 DEF Same
  <2> QED BY <1>1, <2>1, <2>2 DEF SchedStays
<1>2. \A t \in Tasks : task'[t].pc = "adding" => OnTime(task'[t].job, clock)
  BY DEF SchedInv, CopiesStay
<1>3. \A r : OnTime(r, clock)' <=> OnTime(r, clock')
  BY DEF OnTime, NextRun, Computable
<1> QED BY <1>1, <1>2 DEF SchedInv, SchedPlaces, OnTime, NextRun, Computable, Same

LEMMA CopiesExit ==
  ASSUME NEW t \in Tasks, Exits(t), claimed' = claimed
  PROVE  CopiesStay
<1>1. \A u \in Tasks : u # t => task'[u] = task[u]
  BY DEF Exits, Others
<1>2. task'[t].pc \notin SchedPlaces /\ task'[t].pc # "adding"
  BY DEF Exits, SchedPlaces
<1> QED BY <1>1, <1>2 DEF CopiesStay

LEMMA CopiesEnter ==
  ASSUME NEW t \in Tasks, NEW l, NEW q, Enters(t, l, q), claimed' = claimed,
         l = "adding" => OnTime(q, clock),
         l \in SchedPlaces =>
           \/ task[t].pc \in SchedPlaces /\ q = task[t].job
           \/ \E p \in jobs : q = Copy(p)
  PROVE  CopiesStay
<1>1. \A u \in Tasks : u # t => task'[u] = task[u]
  BY DEF Enters, Others
<1>2. task'[t].pc = l /\ task'[t].job = q
  BY DEF Enters
<1> QED BY <1>1, <1>2 DEF CopiesStay

LEMMA SchedStaysEasily ==
  ASSUME \A r \in jobs' : r \in jobs
  PROVE  SchedStays
BY DEF SchedStays

LEMMA SchedTaskStep ==
  ASSUME NEW K, K \subseteq Jobs, Typed(K), AddInv, SchedInv, NEW t \in Tasks, TaskStep(t)
  PROVE  SchedInv'
<1>0. OneEach(jobs)
  BY TypedParts DEF Lists
<1>1. CASE AddRefused(t)
  <2>1. /\ Exits(t)
        /\ UNCHANGED <<jobs, claimed, clock, stale, dirty>>
    BY <1>1, ShapeOfAdds
  <2> QED BY <1>0, <2>1, CopiesExit, SchedStaysEasily, SchedKept
<1>2. ASSUME NEW j \in Jobs, NEW s \in Schedules, NEW once \in BOOLEAN, Add(t, j, s, once)
      PROVE  SchedInv'
  <2>1. PICK r : OnTime(r, clock) /\ Enters(t, "adding", r)
    <3>1. EntersAdded(K, t, j)
      BY <1>2, ShapeOfAdds
    <3> QED BY <3>1 DEF EntersAdded
  <2>2. UNCHANGED <<jobs, claimed, clock, stale, dirty>>
    BY <1>2 DEF Add
  <2>3. "adding" \notin SchedPlaces
    BY DEF SchedPlaces
  <2>4. CopiesStay
    BY <2>1, <2>2, <2>3, CopiesEnter
  <2> QED BY <1>0, <2>2, <2>4, SchedStaysEasily, SchedKept
<1>3. CASE Added(t)
  <2>1. /\ task[t].pc = "adding" /\ Exits(t)
        /\ jobs' = jobs \cup {task[t].job} \/ jobs' = jobs
        /\ UNCHANGED <<claimed, clock, stale, dirty>>
    BY <1>3, ShapeOfAdds
  <2>2. /\ \A q \in claimed : q.id # task[t].job.id
        /\ \A u \in Tasks : task[u].pc \in SchedPlaces => task[u].job.id # task[t].job.id
        /\ OnTime(task[t].job, clock)
    <3>1. task[t].job.id \notin Ids(claimed)
      BY <2>1 DEF AddInv
    <3>2. \A u \in Tasks : task[u].pc \in SchedPlaces => task[u].job.id # task[t].job.id
      BY <2>1 DEF AddInv, SchedPlaces, Placed, CopyPlaces
    <3> QED BY <2>1, <3>1, <3>2 DEF Ids, SchedInv
  <2>3. PICK q : q = task[t].job
    OBVIOUS
  <2>4. \A u \in Tasks : task'[u].pc \in SchedPlaces => task'[u] = task[u]
    BY <2>1 DEF Exits, Others, SchedPlaces
  <2>5. NoCopyLeft(q.id)
    BY <2>1, <2>2, <2>3, <2>4 DEF NoCopyLeft
  <2>6. SchedStays
    BY <2>1, <2>2, <2>3, <2>5 DEF SchedStays
  <2>7. CopiesStay
    BY <2>1, CopiesExit
  <2> QED BY <1>0, <2>1, <2>6, <2>7, SchedKept
<1>4. ASSUME NEW r \in jobs, NEW en \in BOOLEAN, NEW s \in Schedules, NEW once \in BOOLEAN,
             UpdateRefused(t, r, en, s, once)
      PROVE  SchedInv'
  <2>1. PICK q : q.id = r.id /\ jobs' = Replace(q)
    BY <1>4, ShapeOfUpdates
  <2>2. /\ Exits(t) /\ UNCHANGED <<claimed, clock, stale>>
        /\ dirty' = dirty \cup {r.id}
    BY <1>4, ShapeOfUpdates
  <2>3. \A p \in jobs' : p.id \in dirty' \/ p \in jobs
    BY <2>1, <2>2, Replaced
  <2>4. SchedStays
    BY <2>3 DEF SchedStays
  <2> QED BY <1>0, <2>2, <2>4, CopiesExit, SchedKept
<1>5. ASSUME NEW r \in jobs, NEW en \in BOOLEAN, NEW s \in Schedules, NEW once \in BOOLEAN,
             Update(t, r, en, s, once)
      PROVE  SchedInv'
  <2>1. PICK q : /\ q.id = r.id /\ OnTime(q, clock) /\ jobs' = Replace(q)
                 /\ Enters(t, "updating", Copy(q))
    BY <1>5, ShapeOfUpdates
  <2>2. /\ UNCHANGED <<claimed, clock, dirty>>
        /\ stale' = IF Copied(r.id) THEN stale \cup {r.id} ELSE stale
    BY <1>5, ShapeOfUpdates
  <2>3. r.id \in stale' \/ NoCopyLeft(r.id)
    <3>1. CASE Copied(r.id)
      BY <2>2, <3>1
    <3>2. CASE ~Copied(r.id)
      <4>1. \A p \in claimed : p.id # r.id
        BY <3>2 DEF Copied, Ids
      <4>2. \A u \in Tasks : task[u].pc \in SchedPlaces => task[u].job.id # r.id
        BY <3>2 DEF Copied, SchedPlaces
      <4>3. \A u \in Tasks : task'[u].pc \in SchedPlaces => task'[u] = task[u]
        BY <2>1 DEF Enters, Others, SchedPlaces
      <4> QED BY <2>2, <4>1, <4>2, <4>3 DEF NoCopyLeft
    <3> QED BY <3>1, <3>2
  <2>4. SchedStays
    BY <2>1, <2>3, Replaced DEF SchedStays
  <2>5. "updating" \notin SchedPlaces
    BY DEF SchedPlaces
  <2>6. CopiesStay
    BY <2>1, <2>2, <2>5, CopiesEnter
  <2>7. stale \subseteq stale'
    BY <2>2
  <2> QED BY <1>0, <2>2, <2>4, <2>6, <2>7, SchedKept
<1>6. CASE Updated(t)
  <2>1. /\ Exits(t) /\ UNCHANGED <<jobs, claimed, clock, stale>>
        /\ dirty \subseteq dirty'
    BY <1>6, ShapeOfUpdates
  <2> QED BY <1>0, <2>1, CopiesExit, SchedStaysEasily, SchedKept
<1>7. ASSUME NEW r \in jobs, Remove(t, r) \/ RunRead(t, r)
      PROVE  SchedInv'
  <2>1. /\ Enters(t, "removing", Copy(r)) \/ Enters(t, "mark", Copy(r))
        /\ UNCHANGED <<jobs, claimed, clock, stale, dirty>>
    BY <1>7, ShapeOfRemovals, ShapeOfRuns
  <2>2. CopiesStay
    BY <2>1, CopiesEnter
  <2> QED BY <1>0, <2>1, <2>2, SchedStaysEasily, SchedKept
<1>8. CASE Removed(t)
  <2>1. /\ Exits(t) /\ UNCHANGED <<claimed, clock, stale, dirty>>
        /\ \A r \in jobs' : r \in jobs
    BY <1>8, ShapeOfRemovals DEF Without
  <2> QED BY <1>0, <2>1, CopiesExit, SchedStaysEasily, SchedKept
<1>10. CASE RunMark(t)
  <2>1. /\ task[t].pc = "mark" /\ Enters(t, "turn", task[t].job)
        /\ Marked(task[t].job.id) /\ UNCHANGED <<claimed, clock, stale, dirty>>
    BY <1>10, ShapeOfRuns
  <2>2. SchedStays
    BY <2>1 DEF Marked, Keeps, SchedStays, OnTime
  <2>3. task[t].pc \in SchedPlaces
    BY <2>1 DEF SchedPlaces
  <2>4. CopiesStay
    BY <2>1, <2>3, CopiesEnter
  <2> QED BY <1>0, <2>1, <2>2, <2>4, SchedKept
<1>11. CASE TurnEnds(t)
  <2>1. /\ task[t].pc = "turn" /\ Enters(t, "reschedule", task[t].job)
        /\ UNCHANGED <<jobs, claimed, clock, stale, dirty>>
    BY <1>11, ShapeOfRuns
  <2>2. task[t].pc \in SchedPlaces
    BY <2>1 DEF SchedPlaces
  <2>3. CopiesStay
    BY <2>1, <2>2, CopiesEnter
  <2> QED BY <1>0, <2>1, <2>3, SchedStaysEasily, SchedKept
<1>12. CASE Reschedule(t)
  <2>1. task[t].pc = "reschedule" /\ UNCHANGED <<claimed, clock, stale, dirty>>
    BY <1>12, ShapeOfEnds
  <2>2. PICK l \in {"deleting", "persist", "disable"} : Enters(t, l, task[t].job)
    BY <1>12, ShapeOfEnds
  <2>3. PICK next \in 0 .. Never :
          /\ next = NextRun(task[t].job.schedule, clock)
          /\ task[t].job.schedule.kind = "every" /\ Computable(task[t].job.schedule)
               => next # Never
          /\ Rescheduled(task[t].job.id, next)
    BY <1>12, ShapeOfEnds
  <2>4. next <= next
    BY <2>3, CronAssumption
  <2>5. SchedStays
    <3> SUFFICES ASSUME NEW r \in jobs', r.id \notin stale \cup dirty
                 PROVE  \E q \in jobs : /\ q.id = r.id /\ q.schedule = r.schedule
                                        /\ OnTime(q, clock) => OnTime(r, clock)
      BY <2>1 DEF SchedStays
    <3>1. PICK q \in jobs : /\ Keeps(r, q)
                            /\ r.id # task[t].job.id => r = q
                            /\ r.id = task[t].job.id => r.next = next
      BY <2>3 DEF Rescheduled
    <3>2. CASE r.id # task[t].job.id
      BY <3>1, <3>2
    <3>3. CASE r.id = task[t].job.id
      <4>1. Same(task[t].job, q)
        BY <2>1, <3>1 DEF SchedInv, Keeps
      <4>2. task[t].job.schedule = r.schedule
        BY <3>1, <3>3, <4>1 DEF Same, Keeps
      <4>3. OnTime(r, clock)
        BY <2>3, <2>4, <3>1, <3>3, <4>2 DEF OnTime
      <4> QED BY <3>1, <4>3 DEF Keeps
    <3> QED BY <3>2, <3>3
  <2>6. l \notin SchedPlaces /\ l # "adding"
    BY DEF SchedPlaces
  <2>7. CopiesStay
    BY <2>1, <2>2, <2>6, CopiesEnter
  <2> QED BY <1>0, <2>1, <2>5, <2>7, SchedKept
<1>13. CASE Persist(t)
  <2>1. /\ Enters(t, "persisting", task[t].job) \/ Exits(t)
        /\ UNCHANGED <<jobs, claimed, clock, stale, dirty>>
    BY <1>13, ShapeOfEnds
  <2>2. "persisting" \notin SchedPlaces
    BY DEF SchedPlaces
  <2>3. CopiesStay
    BY <2>1, <2>2, CopiesEnter, CopiesExit
  <2> QED BY <1>0, <2>1, <2>3, SchedStaysEasily, SchedKept
<1>14. CASE Disable(t)
  <2>1. UNCHANGED <<claimed, clock, stale, dirty>>
    BY <1>14, ShapeOfEnds
  <2>2. "disabling" \notin SchedPlaces
    BY DEF SchedPlaces
  <2>3. CASE Exits(t) /\ jobs' = jobs
    BY <1>0, <2>1, <2>3, CopiesExit, SchedStaysEasily, SchedKept
  <2>4. ASSUME NEW r \in jobs, NEW q \in JobsOver(K), q.id = r.id, q.schedule = r.schedule,
               q.enabled = FALSE, jobs' = Replace(q), Enters(t, "disabling", task[t].job)
        PROVE  SchedInv'
    <3>1. OnTime(q, clock)
      BY <2>4 DEF OnTime
    <3>2. SchedStays
      BY <2>4, <3>1, Replaced DEF SchedStays
    <3>3. CopiesStay
      BY <2>1, <2>2, <2>4, CopiesEnter
    <3> QED BY <1>0, <2>1, <3>2, <3>3, SchedKept
  <2> QED BY <1>14, <2>3, <2>4, ShapeOfEnds
<1>15. CASE Persisted(t)
  <2>1. /\ Exits(t) /\ UNCHANGED <<jobs, claimed, clock, stale>> /\ dirty \subseteq dirty'
    BY <1>15, ShapeOfEnds
  <2> QED BY <1>0, <2>1, CopiesExit, SchedStaysEasily, SchedKept
<1>16. CASE StoreStep(t) \/ StoreFails(t)
  <2>1. UNCHANGED <<jobs, task, claimed, clock, stale, dirty>>
    BY <1>16, ShapeOfStore
  <2>2. CopiesStay
    BY <2>1 DEF CopiesStay
  <2> QED BY <1>0, <2>1, <2>2, SchedStaysEasily, SchedKept
<1> QED
  <2>1. ASSUME Call(t) PROVE SchedInv'
    BY <1>1, <1>2, <1>4, <1>5, <1>7, <2>1 DEF Call, OnceOf
  <2>2. ASSUME TaskSteps(t) PROVE SchedInv'
    BY <1>3, <1>6, <1>8, <1>10, <1>12, <1>13, <1>14, <1>15, <1>16, <2>2 DEF TaskSteps
  <2> QED BY <2>1, <2>2, <1>11, <1>16 DEF TaskStep

LEMMA SchedStep ==
  ASSUME NEW K, K \subseteq Jobs, Typed(K), HasRoom, DownInv, AddInv, SchedInv, NextCron
  PROVE  SchedInv'
<1>0. OneEach(jobs)
  BY TypedParts DEF Lists
<1>1. CASE Start
  <2>1. /\ \A u \in Tasks : task'[u] = task[u] /\ task[u].pc \notin Placed
        /\ claimed' = {} /\ clock' = clock
        /\ jobs' = {IF r.enabled THEN Scheduled(r, clock) ELSE r : r \in Content}
    BY <1>1 DEF Start, DownInv
  <2>2. ASSUME NEW r \in Content
        PROVE  OnTime(IF r.enabled THEN Scheduled(r, clock) ELSE r, clock)
    <3>1. r \in JobsOver(K) /\ clock \in 0 .. MaxClock
      BY TypedParts, ListParts
    <3>2. OnTime(Scheduled(r, clock), clock)
      BY <3>1, ScheduledTyped
    <3>3. CASE r.enabled
      BY <3>2, <3>3
    <3>4. CASE ~r.enabled
      BY <3>4 DEF OnTime
    <3> QED BY <3>3, <3>4
  <2>3. \A r \in jobs' : OnTime(r, clock)
    BY <2>1, <2>2
  <2>4. \A u \in Tasks : task'[u].pc \notin SchedPlaces /\ task'[u].pc # "adding"
    BY <2>1 DEF SchedPlaces, Placed, CopyPlaces
  <2>7. \A r \in jobs' : \A u \in Tasks : task'[u].pc \notin {"mark", "turn", "reschedule", "adding"}
    BY <2>4 DEF SchedPlaces
  <2>8. \A r \in jobs' : OnTime(r, clock')
    BY <2>1, <2>3
  <2> QED BY <2>1, <2>7, <2>8, <2>4 DEF SchedInv, OnTime, NextRun, Computable, Same
<1>2. CASE Crash
  <2>1. /\ \A u \in Tasks : task'[u].pc \in {"idle", "done"}
        /\ jobs' = {}
    BY <1>2, ShapeOfCrash
  <2> QED BY <2>1 DEF SchedInv
<1>3. CASE Tick
  <2>1. /\ UNCHANGED <<jobs, task, claimed, stale, dirty>> /\ clock' = clock + 1
        /\ clock < MaxClock /\ clock \in 0 .. MaxClock
    BY <1>3, TypedParts DEF Tick, historyVars
  <2>2. ASSUME NEW r, r.schedule \in Schedules, r.next \in 0 .. Never, OnTime(r, clock)
        PROVE  OnTime(r, clock + 1)
    <3>1. /\ NextRun(r.schedule, clock) <= NextRun(r.schedule, clock + 1)
          /\ NextRun(r.schedule, clock) \in 0 .. Never
      BY <2>1, <2>2, NextRunGrows, NextRunTyped
    <3>2. NextRun(r.schedule, clock + 1) \in 0 .. Never
      <4>1. clock + 1 \in 0 .. MaxClock
        BY <2>1, CronAssumption
      <4> QED BY <2>2, <4>1, NextRunTyped
    <3>3. PICK a \in 0 .. Never, b \in 0 .. Never :
            a = NextRun(r.schedule, clock) /\ b = NextRun(r.schedule, clock + 1) /\ a <= b
      BY <3>1, <3>2
    <3>4. r.next <= a => r.next <= b
      BY <2>2, <3>3, CronAssumption
    <3> QED BY <2>2, <3>3, <3>4 DEF OnTime
  <2>3. \A r \in jobs : r.schedule \in Schedules /\ r.next \in 0 .. Never
    BY TypedParts
  <2>4. \A t \in Tasks : task[t].pc = "adding" =>
          task[t].job.schedule \in Schedules /\ task[t].job.next \in 0 .. Never
    BY TypedParts DEF JobsOver
  <2>5. \A r \in jobs' : r.id \notin stale' \cup dirty' => OnTime(r, clock')
    BY <2>1, <2>2, <2>3 DEF SchedInv
  <2>6. \A t \in Tasks : task'[t].pc = "adding" => OnTime(task'[t].job, clock')
    BY <2>1, <2>2, <2>4 DEF SchedInv
  <2> QED BY <2>1, <2>5, <2>6 DEF SchedInv, OnTime, NextRun, Computable, Same
<1>4. CASE Waits
  <2>1. UNCHANGED <<jobs, task, claimed, clock, stale, dirty>>
    BY <1>4, ShapeOfWaits DEF Waits
  <2>2. CopiesStay
    BY <2>1 DEF CopiesStay
  <2> QED BY <1>0, <2>1, <2>2, SchedStaysEasily, SchedKept
<1>5. CASE MarkDue
  <2>1. Claims /\ UNCHANGED <<task, clock, stale, dirty>>
    BY <1>5, ShapeOfMarkDue
  <2>2. SchedStays
    BY <2>1 DEF Claims, Keeps, SchedStays, OnTime
  <2>3. CopiesStay
    BY <2>1 DEF Claims, CopiesStay
  <2> QED BY <1>0, <2>1, <2>2, <2>3, SchedKept
<1>6. CASE ClearStuck
  <2>1. /\ Clears /\ claimed' = {} /\ UNCHANGED <<clock, stale, dirty>>
        /\ \E f : SlotsGiven(f)
    BY <1>6, ShapeOfClearStuck
  <2>2. SchedStays
    BY <2>1 DEF Clears, Keeps, SchedStays, OnTime
  <2>3. \A t \in Tasks : task'[t] = task[t]
                         \/ (task'[t].pc = "turn" /\ task'[t].job \in claimed)
    BY <2>1, SpawnChanges
  <2>4. CopiesStay
    BY <2>1, <2>3 DEF CopiesStay
  <2> QED BY <1>0, <2>1, <2>2, <2>4, SchedKept
<1>7. ASSUME NEW t \in Tasks, TaskStep(t) PROVE SchedInv'
  BY <1>7, SchedTaskStep
<1> QED BY <1>1, <1>2, <1>3, <1>4, <1>5, <1>6, <1>7, StepCases
-----------------------------------------------------------------------------
(* The timer loop does not oversleep.                                      *)

(* No enabled job is due earlier than before, unless it is being updated.  *)
NotEarlier ==
  /\ \A r \in jobs' : r.enabled =>
       \/ r.id \in stale' \cup dirty'
       \/ \E q \in jobs : q.id = r.id /\ q.enabled /\ q.next <= r.next
       \/ \E u \in Tasks : task'[u].pc = "updating" /\ task'[u].job.id = r.id
  /\ \A u \in Tasks : task[u].pc = "updating" =>
       task'[u] = task[u] \/ task[u].job.id \in dirty'

LEMMA SleepKept ==
  ASSUME NEW K, NEW L, Typed(K), Typed(L)', SleepInv, loop' = loop, loopTime' = loopTime,
         permit' = permit, stale \subseteq stale', dirty \subseteq dirty', NotEarlier
  PROVE  SleepInv'
<1> SUFFICES ASSUME loop = "sleeping", ~permit, NEW r \in jobs', r.enabled,
                    r.id \notin stale' \cup dirty'
             PROVE  \/ loopTime <= r.next
                    \/ \E u \in Tasks : task'[u].pc = "updating" /\ task'[u].job.id = r.id
  BY DEF SleepInv
<1>1. loopTime \in 0 .. Never /\ r.next \in 0 .. Never
  BY DEF Typed, TypeOKService, Lists, JobsOver
<1>2. ASSUME NEW q \in jobs, q.id = r.id, q.enabled, q.next <= r.next
      PROVE  \/ loopTime <= r.next
             \/ \E u \in Tasks : task'[u].pc = "updating" /\ task'[u].job.id = r.id
  <2>1. q.next \in 0 .. Never
    BY TypedParts
  <2>2. CASE loopTime <= q.next
    BY <1>1, <1>2, <2>1, <2>2, CronAssumption
  <2>3. ASSUME NEW u \in Tasks, task[u].pc = "updating", task[u].job.id = q.id
        PROVE  task'[u].pc = "updating" /\ task'[u].job.id = r.id
    BY <1>2, <2>3 DEF NotEarlier
  <2> QED BY <1>2, <2>2, <2>3 DEF SleepInv
<1> QED BY <1>2 DEF NotEarlier

LEMMA SleepExits ==
  ASSUME NEW t \in Tasks, Exits(t), task[t].pc # "updating" \/ task[t].job.id \in dirty',
         \A r \in jobs' : r \in jobs \/ r.id \in dirty' \/ ~r.enabled,
         \A r \in jobs : r.next <= r.next
  PROVE  NotEarlier
<1>1. \A u \in Tasks : u # t => task'[u] = task[u]
  BY DEF Exits, Others
<1>2. \A r \in jobs' : r.enabled =>
        r.id \in dirty' \/ \E q \in jobs : q.id = r.id /\ q.enabled /\ q.next <= r.next
  OBVIOUS
<1> QED BY <1>1, <1>2 DEF NotEarlier

LEMMA SleepEnters ==
  ASSUME NEW t \in Tasks, NEW l, NEW j, Enters(t, l, j), task[t].pc # "updating",
         \A r \in jobs' : r \in jobs \/ (l = "updating" /\ r.id = j.id) \/ ~r.enabled,
         \A r \in jobs : r.next <= r.next
  PROVE  NotEarlier
<1>1. \A u \in Tasks : u # t => task'[u] = task[u]
  BY DEF Enters, Others
<1>2. task'[t].pc = l /\ task'[t].job = j
  BY DEF Enters
<1>3. ASSUME NEW r \in jobs', r.enabled
      PROVE  \/ \E q \in jobs : q.id = r.id /\ q.enabled /\ q.next <= r.next
             \/ \E u \in Tasks : task'[u].pc = "updating" /\ task'[u].job.id = r.id
  <2>1. CASE r \in jobs
    BY <1>3, <2>1
  <2>2. CASE l = "updating" /\ r.id = j.id
    BY <1>2, <2>2
  <2> QED BY <1>3, <2>1, <2>2
<1> QED BY <1>1, <1>3 DEF NotEarlier

LEMMA SleepTold ==
  ASSUME permit' = TRUE
  PROVE  SleepInv'
BY DEF SleepInv

LEMMA SleepTaskStep ==
  ASSUME NEW K, NEW L, Typed(K), Typed(L)', SchedInv, SleepInv, NEW t \in Tasks, TaskStep(t)
  PROVE  SleepInv'
<1>0. \A r \in jobs : r.next \in 0 .. Never /\ r.next <= r.next
  BY TypedParts, CronAssumption
<1>1. CASE AddRefused(t)
  <2>1. /\ task[t].pc = "idle" /\ Exits(t)
        /\ UNCHANGED <<jobs, loop, permit, loopTime, stale, dirty>>
    BY <1>1, ShapeOfAdds
  <2> QED BY <1>0, <2>1, SleepExits, SleepKept
<1>2. ASSUME NEW j \in Jobs, NEW s \in Schedules, NEW once \in BOOLEAN, Add(t, j, s, once)
      PROVE  SleepInv'
  <2>1. PICK r : Enters(t, "adding", r)
    <3>1. EntersAdded(K, t, j)
      BY <1>2, ShapeOfAdds
    <3> QED BY <3>1 DEF EntersAdded
  <2>2. task[t].pc = "idle" /\ UNCHANGED <<jobs, loop, loopTime, permit, stale, dirty>>
    BY <1>2 DEF Add
  <2>3. NotEarlier
    BY <1>0, <2>1, <2>2, SleepEnters
  <2> QED BY <2>2, <2>3, SleepKept
<1>3. CASE Added(t)
  <2>1. /\ task[t].pc = "adding" /\ Exits(t)
        /\ permit' = TRUE \/ (jobs' = jobs /\ permit' = permit)
        /\ UNCHANGED <<loop, loopTime, stale, dirty>>
    BY <1>3, ShapeOfAdds
  <2> QED BY <1>0, <2>1, SleepTold, SleepExits, SleepKept
<1>4. ASSUME NEW r \in jobs, NEW en \in BOOLEAN, NEW s \in Schedules, NEW once \in BOOLEAN,
             UpdateRefused(t, r, en, s, once)
      PROVE  SleepInv'
  <2>1. PICK q : q.id = r.id /\ jobs' = Replace(q)
    BY <1>4, ShapeOfUpdates
  <2>2. /\ task[t].pc = "idle" /\ Exits(t) /\ UNCHANGED <<loop, loopTime, permit, stale>>
        /\ dirty' = dirty \cup {r.id}
    BY <1>4, ShapeOfUpdates
  <2>3. \A p \in jobs' : p \in jobs \/ p.id \in dirty'
    BY <2>1, <2>2, Replaced
  <2>4. NotEarlier
    BY <1>0, <2>2, <2>3, SleepExits
  <2> QED BY <2>2, <2>4, SleepKept
<1>5. ASSUME NEW r \in jobs, NEW en \in BOOLEAN, NEW s \in Schedules, NEW once \in BOOLEAN,
             Update(t, r, en, s, once)
      PROVE  SleepInv'
  <2>1. PICK q : q.id = r.id /\ jobs' = Replace(q) /\ Enters(t, "updating", Copy(q))
    BY <1>5, ShapeOfUpdates
  <2>2. /\ task[t].pc = "idle" /\ UNCHANGED <<loop, loopTime, permit, dirty>>
        /\ stale' = IF Copied(r.id) THEN stale \cup {r.id} ELSE stale
    BY <1>5, ShapeOfUpdates
  <2>3. \A p \in jobs' : p \in jobs \/ p.id = Copy(q).id
    BY <2>1, Replaced, CopyOf
  <2>4. NotEarlier
    BY <1>0, <2>1, <2>2, <2>3, SleepEnters
  <2>5. stale \subseteq stale'
    BY <2>2
  <2> QED BY <2>2, <2>4, <2>5, SleepKept
<1>6. CASE Updated(t)
  <2>1. /\ Exits(t) /\ UNCHANGED <<jobs, loop, loopTime, stale>>
        /\ \/ permit' = TRUE
           \/ permit' = permit /\ dirty' = dirty \cup {task[t].job.id}
    BY <1>6, ShapeOfUpdates
  <2> QED BY <1>0, <2>1, SleepTold, SleepExits, SleepKept
<1>7. ASSUME NEW r \in jobs, Remove(t, r) \/ RunRead(t, r)
      PROVE  SleepInv'
  <2>1. /\ Enters(t, "removing", Copy(r)) \/ Enters(t, "mark", Copy(r))
        /\ task[t].pc = "idle"
        /\ UNCHANGED <<jobs, loop, loopTime, permit, stale, dirty>>
    BY <1>7, ShapeOfRemovals, ShapeOfRuns
  <2>2. NotEarlier
    BY <1>0, <2>1, SleepEnters
  <2> QED BY <2>1, <2>2, SleepKept
<1>8. CASE Removed(t)
  <2>1. /\ task[t].pc # "updating" /\ Exits(t)
        /\ UNCHANGED <<loop, loopTime, permit, stale, dirty>>
        /\ \A r \in jobs' : r \in jobs
    BY <1>8, ShapeOfRemovals DEF Without, DeletePlaces
  <2> QED BY <1>0, <2>1, SleepExits, SleepKept
<1>10. CASE RunMark(t)
  <2>1. /\ task[t].pc = "mark" /\ Enters(t, "turn", task[t].job)
        /\ Marked(task[t].job.id) /\ UNCHANGED <<loop, loopTime, permit, stale, dirty>>
    BY <1>10, ShapeOfRuns
  <2>2. \A r \in jobs' : r.enabled =>
          \E q \in jobs : q.id = r.id /\ q.enabled /\ q.next <= r.next
    BY <1>0, <2>1 DEF Marked, Keeps
  <2>3. \A u \in Tasks : task[u].pc = "updating" => task'[u] = task[u]
    BY <2>1 DEF Enters, Others
  <2>4. NotEarlier
    BY <2>2, <2>3 DEF NotEarlier
  <2> QED BY <2>1, <2>4, SleepKept
<1>11. CASE TurnEnds(t)
  <2>1. /\ task[t].pc = "turn" /\ Enters(t, "reschedule", task[t].job)
        /\ UNCHANGED <<jobs, loop, loopTime, permit, stale, dirty>>
    BY <1>11, ShapeOfRuns
  <2>2. NotEarlier
    BY <1>0, <2>1, SleepEnters
  <2> QED BY <2>1, <2>2, SleepKept
<1>12. CASE Reschedule(t)
  <2>1. /\ task[t].pc = "reschedule"
        /\ UNCHANGED <<loop, loopTime, permit, stale, dirty>>
    BY <1>12, ShapeOfEnds
  <2>2. PICK l \in {"deleting", "persist", "disable"} : Enters(t, l, task[t].job)
    BY <1>12, ShapeOfEnds
  <2>3. PICK next \in 0 .. Never :
          /\ next = NextRun(task[t].job.schedule, clock)
          /\ Rescheduled(task[t].job.id, next)
    BY <1>12, ShapeOfEnds
  <2>4. ASSUME NEW r \in jobs', r.enabled, r.id \notin stale \cup dirty
        PROVE  \E q \in jobs : q.id = r.id /\ q.enabled /\ q.next <= r.next
    <3>1. PICK q \in jobs : /\ Keeps(r, q)
                            /\ r.id # task[t].job.id => r = q
                            /\ r.id = task[t].job.id => r.next = next
      BY <2>3 DEF Rescheduled
    <3>2. CASE r.id # task[t].job.id
      BY <1>0, <2>4, <3>1, <3>2
    <3>3. CASE r.id = task[t].job.id
      <4>1. Same(task[t].job, q) /\ OnTime(q, clock)
        BY <2>1, <2>4, <3>1 DEF SchedInv, Keeps
      <4>2. task[t].job.schedule = q.schedule
        BY <3>1, <3>3, <4>1 DEF Same, Keeps
      <4>3. q.next <= r.next
        BY <2>3, <2>4, <3>1, <3>3, <4>1, <4>2 DEF OnTime, Keeps
      <4> QED BY <2>4, <3>1, <4>3 DEF Keeps
    <3> QED BY <3>2, <3>3
  <2>5. \A u \in Tasks : task[u].pc = "updating" => task'[u] = task[u]
    BY <2>1, <2>2 DEF Enters, Others
  <2>6. NotEarlier
    BY <2>1, <2>4, <2>5 DEF NotEarlier
  <2> QED BY <2>1, <2>6, SleepKept
<1>13. CASE Persist(t)
  <2>1. /\ Enters(t, "persisting", task[t].job) \/ Exits(t)
        /\ task[t].pc = "persist"
        /\ UNCHANGED <<jobs, loop, loopTime, permit, stale, dirty>>
    BY <1>13, ShapeOfEnds
  <2>2. NotEarlier
    BY <1>0, <2>1, SleepEnters, SleepExits
  <2> QED BY <2>1, <2>2, SleepKept
<1>14. CASE Disable(t)
  <2>1. task[t].pc = "disable" /\ UNCHANGED <<loop, loopTime, permit, stale, dirty>>
    BY <1>14, ShapeOfEnds
  <2>2. NotEarlier
    <3>1. CASE Exits(t) /\ jobs' = jobs
      BY <1>0, <2>1, <3>1, SleepExits
    <3>2. ASSUME NEW q \in JobsOver(K), q.enabled = FALSE, jobs' = Replace(q),
                 Enters(t, "disabling", task[t].job)
          PROVE  NotEarlier
      <4>1. \A r \in jobs' : r \in jobs \/ ~r.enabled
        BY <3>2, Replaced
      <4> QED BY <1>0, <2>1, <3>2, <4>1, SleepEnters
    <3> QED BY <1>14, <3>1, <3>2, ShapeOfEnds
  <2> QED BY <2>1, <2>2, SleepKept
<1>15. CASE Persisted(t)
  <2>1. /\ task[t].pc \in {"persisting", "disabling"} /\ Exits(t)
        /\ UNCHANGED <<jobs, loop, loopTime, permit, stale>> /\ dirty \subseteq dirty'
    BY <1>15, ShapeOfEnds
  <2> QED BY <1>0, <2>1, SleepExits, SleepKept
<1>16. CASE StoreStep(t) \/ StoreFails(t)
  <2>1. UNCHANGED <<jobs, task, loop, loopTime, permit, stale, dirty>>
    BY <1>16, ShapeOfStore
  <2>2. NotEarlier
    BY <1>0, <2>1 DEF NotEarlier
  <2> QED BY <2>1, <2>2, SleepKept
<1> QED
  <2>1. ASSUME Call(t) PROVE SleepInv'
    BY <1>1, <1>2, <1>4, <1>5, <1>7, <2>1 DEF Call, OnceOf
  <2>2. ASSUME TaskSteps(t) PROVE SleepInv'
    BY <1>3, <1>6, <1>8, <1>10, <1>12, <1>13, <1>14, <1>15, <1>16, <2>2 DEF TaskSteps
  <2> QED BY <2>1, <2>2, <1>11, <1>16 DEF TaskStep

LEMMA SleepStep ==
  ASSUME NEW K, NEW L, Typed(K), Typed(L)', HasRoom, SchedInv, SleepInv, NextCron
  PROVE  SleepInv'
<1>0. \A r \in jobs : r.next \in 0 .. Never /\ r.next <= r.next
  BY TypedParts, CronAssumption
<1>1. CASE Start
  BY <1>1 DEF Start, SleepInv
<1>2. CASE Crash
  <2>1. loop' = "off"
    BY <1>2, ShapeOfCrash
  <2> QED BY <2>1 DEF SleepInv
<1>3. CASE Tick
  BY <1>3 DEF Tick, SleepInv, historyVars
<1>4. CASE Waits
  <2>1. jobs' = jobs /\ (loop' = "sleeping" => LoopCheck)
    BY <1>4, ShapeOfWaits DEF Waits
  <2>2. LoopCheck /\ loop' = "sleeping" => \A r \in jobs : r.enabled => loopTime' <= r.next
    BY TypedParts, CheckWakes
  <2> QED BY <2>1, <2>2 DEF SleepInv
<1>5. CASE MarkDue
  <2>1. loop' = "clear"
    BY <1>5, ShapeOfMarkDue
  <2> QED BY <2>1 DEF SleepInv
<1>6. CASE ClearStuck
  <2>1. loop' = "check"
    BY <1>6, ShapeOfClearStuck
  <2> QED BY <2>1 DEF SleepInv
<1>7. ASSUME NEW t \in Tasks, TaskStep(t) PROVE SleepInv'
  BY <1>7, SleepTaskStep
<1> QED BY <1>1, <1>2, <1>3, <1>4, <1>5, <1>6, <1>7, StepCases
-----------------------------------------------------------------------------
(* The file follows the list.  First what becomes of the definitions.      *)

LEMMA DefOf ==
  ASSUME NEW content, NEW j
  PROVE  \A d : d \in Def(content, j) <=> \E q \in content : q.id = j /\ d = Definition(q)
BY DEF Def

LEMMA DefSame ==
  ASSUME NEW new, NEW old, NEW j,
         \A r \in new : r.id = j => \E q \in old : q.id = j /\ Definition(q) = Definition(r),
         \A q \in old : q.id = j => \E r \in new : r.id = j /\ Definition(q) = Definition(r)
  PROVE  Def(new, j) = Def(old, j)
<1>1. \A d : d \in Def(new, j) <=> d \in Def(old, j)
  BY DefOf
<1> QED BY <1>1 DEF Def

LEMMA DefKept ==
  ASSUME NEW new, NEW old, KeepsDefinitions(new, old), NEW j
  PROVE  Def(new, j) = Def(old, j)
<1>1. \A r, q : Keeps(r, q) => r.id = q.id /\ Definition(r) = Definition(q)
  BY DEF Keeps, Definition
<1> QED BY <1>1, DefSame DEF KeepsDefinitions

LEMMA DefChanged ==
  ASSUME NEW content, NEW q, NEW j
  PROVE  /\ j = q.id => /\ Def(Without(content, q.id) \cup {q}, j) = {Definition(q)}
                         /\ Def(Without(content, q.id), j) = {}
         /\ j # q.id => /\ Def(Without(content, q.id) \cup {q}, j) = Def(content, j)
                         /\ Def(Without(content, q.id), j) = Def(content, j)
<1>1. CASE j # q.id
  <2>1. Def(Without(content, q.id) \cup {q}, j) = Def(content, j)
    BY <1>1, DefSame DEF Without
  <2>2. Def(Without(content, q.id), j) = Def(content, j)
    BY <1>1, DefSame DEF Without
  <2> QED BY <1>1, <2>1, <2>2
<1>2. CASE j = q.id
  <2>1. \A d : d \in Def(Without(content, q.id) \cup {q}, j) <=> d = Definition(q)
    BY <1>2, DefOf DEF Without
  <2>2. \A d : d \notin Def(Without(content, q.id), j)
    BY <1>2, DefOf DEF Without
  <2>3. \A d : d \notin {} /\ (d \in {Definition(q)} <=> d = Definition(q))
    OBVIOUS
  <2> QED BY <1>2, <2>1, <2>2 DEF Def
<1> QED BY <1>1, <1>2

IsReplaced(new, old, q) == new = Without(old, q.id) \cup {q}
IsRemoved(new, old, i) == new = Without(old, i)

LEMMA DefReplaced ==
  ASSUME NEW old, NEW q, NEW new, IsReplaced(new, old, q)
  PROVE  /\ Def(new, q.id) = {Definition(q)}
         /\ \A j : j # q.id => Def(new, j) = Def(old, j)
<1>1. ASSUME NEW j
      PROVE  /\ j = q.id => Def(Without(old, q.id) \cup {q}, j) = {Definition(q)}
             /\ j # q.id => Def(Without(old, q.id) \cup {q}, j) = Def(old, j)
  BY DefChanged
<1>2. Def(Without(old, q.id) \cup {q}, q.id) = {Definition(q)}
  BY <1>1
<1> QED BY <1>1, <1>2 DEF IsReplaced

LEMMA DefRemoved ==
  ASSUME NEW old, NEW i, NEW new, IsRemoved(new, old, i)
  PROVE  /\ Def(new, i) = {}
         /\ \A j : j # i => Def(new, j) = Def(old, j)
<1>1. PICK q : q = [id |-> i]
  OBVIOUS
<1>2. q.id = i
  BY <1>1
<1>3. ASSUME NEW j
      PROVE  /\ j = q.id => Def(Without(old, q.id), j) = {}
             /\ j # q.id => Def(Without(old, q.id), j) = Def(old, j)
  BY DefChanged
<1>4. Def(Without(old, q.id), q.id) = {}
  BY <1>3
<1> QED BY <1>2, <1>3, <1>4 DEF IsRemoved

LEMMA DefAdded ==
  ASSUME NEW content, NEW q, q.id \notin Ids(content), NEW j
  PROVE  /\ j = q.id => Def(content \cup {q}, j) = {Definition(q)}
         /\ j # q.id => Def(content \cup {q}, j) = Def(content, j)
<1>1. content = Without(content, q.id)
  BY DEF Without, Ids
<1>2. /\ j = q.id => Def(Without(content, q.id) \cup {q}, j) = {Definition(q)}
      /\ j # q.id => Def(Without(content, q.id) \cup {q}, j) = Def(content, j)
  BY DefChanged
<1> QED BY <1>1, <1>2

LEMMA DefAbsent ==
  ASSUME NEW content, NEW j
  PROVE  Def(content, j) = {} <=> ~HasJob(content, j)
<1>1. Def(content, j) = {} <=> \A d : d \notin Def(content, j)
  BY DEF Def
<1> QED BY <1>1, DefOf DEF HasJob

LEMMA DefSingle ==
  ASSUME NEW content, OneEach(content), NEW q \in content
  PROVE  Def(content, q.id) = {Definition(q)}
<1>1. \A d : d \in Def(content, q.id) <=> d = Definition(q)
  BY DefOf DEF OneEach
<1> QED BY <1>1 DEF Def

(* A step that leaves the file alone and takes at most results.            *)
Quiet ==
  /\ file' = file /\ tmp' = tmp /\ clean' = clean
  /\ \A u \in Tasks :
       \/ op'[u] = op[u] /\ task'[u] = task[u]
       \/ op'[u].step = "none" /\ op[u].step \in {"none", "ok", "failed"}
(* Only a task that holds the lock changes definitions in the list.        *)
DefsStay ==
  (\A u \in Tasks : task[u].pc \notin UpdatePlaces) \/ \A j : Def(jobs', j) = Def(jobs, j)

LEMMA SameTarget ==
  ASSUME Quiet
  PROVE  Target' = Target
<1>1. (\E t \in Tasks : op'[t].step = "rename") <=> (\E t \in Tasks : op[t].step = "rename")
  BY DEF Quiet
<1> QED BY <1>1 DEF Target, Content, Quiet

LEMMA OwnKept ==
  ASSUME NEW t \in Tasks, NEW content, task'[t] = task[t], DefsStay, OwnOf(t, content)
  PROVE  OwnOf(t, content)'
<1> PICK j : j = task[t].job.id
  OBVIOUS
<1>1. task[t].pc \in UpdatePlaces => Def(jobs', j) = Def(jobs, j)
  BY DEF DefsStay
<1>2. Def(content, j) = CASE task[t].pc = "adding" -> {Definition(task[t].job)}
                          [] task[t].pc \in UpdatePlaces -> Def(jobs, j)
                          [] task[t].pc \in DeletePlaces -> {}
  BY DEF OwnOf
<1>3. Def(content, j) = CASE task'[t].pc = "adding" -> {Definition(task'[t].job)}
                          [] task'[t].pc \in UpdatePlaces -> Def(jobs', j)
                          [] task'[t].pc \in DeletePlaces -> {}
  BY <1>1, <1>2
<1> QED BY <1>3 DEF OwnOf

LEMMA WritesKept ==
  ASSUME NEW t \in Tasks, NEW content, task'[t] = task[t], DefsStay, file' = file,
         WritesOf(t, content)
  PROVE  WritesOf(t, content)'
BY OwnKept DEF WritesOf

LEMMA QuietClean ==
  ASSUME Quiet, CleanInv, DefsStay
  PROVE  CleanInv'
<1> SUFFICES ASSUME clean
             PROVE  /\ \A t, u \in Tasks : InFlight(t)' /\ InFlight(u)' => t = u
                    /\ \A t \in Tasks :
                         /\ op'[t].step = "write" => WritesOf(t, op[t].content)'
                         /\ op'[t].step = "backup" => tmp' # <<>> /\ WritesOf(t, tmp[1])'
                         /\ op'[t].step = "rename" => tmp' # <<>> /\ OwnOf(t, tmp[1])'
                    /\ file' # <<>> \/ \E t \in Tasks : op'[t].step = "rename"
  BY DEF CleanInv, Quiet
<1>1. \A t \in Tasks : InFlight(t)' => InFlight(t) /\ op'[t] = op[t] /\ task'[t] = task[t]
  BY DEF Quiet, InFlight
<1>2. \A t, u \in Tasks : InFlight(t)' /\ InFlight(u)' => t = u
  BY <1>1 DEF CleanInv
<1>3. ASSUME NEW t \in Tasks, op'[t].step = "write"
      PROVE  WritesOf(t, op[t].content)'
  <2>1. task'[t] = task[t] /\ op'[t] = op[t]
    BY <1>1, <1>3 DEF InFlight
  <2>2. PICK content : content = op[t].content
    OBVIOUS
  <2>3. WritesOf(t, content)
    BY <1>3, <2>1, <2>2 DEF CleanInv
  <2>4. WritesOf(t, content)'
    BY <2>1, <2>3, WritesKept DEF Quiet
  <2> QED BY <2>1, <2>2, <2>4
<1>4. ASSUME NEW t \in Tasks, op'[t].step = "backup"
      PROVE  tmp' # <<>> /\ WritesOf(t, tmp[1])'
  <2>1. task'[t] = task[t] /\ op'[t] = op[t] /\ tmp' = tmp
    BY <1>1, <1>4 DEF InFlight, Quiet
  <2>2. PICK content : content = tmp[1]
    OBVIOUS
  <2>3. tmp # <<>> /\ WritesOf(t, content)
    BY <1>4, <2>1, <2>2 DEF CleanInv
  <2>4. WritesOf(t, content)'
    BY <2>1, <2>3, WritesKept DEF Quiet
  <2> QED BY <2>1, <2>2, <2>3, <2>4
<1>5. ASSUME NEW t \in Tasks, op'[t].step = "rename"
      PROVE  tmp' # <<>> /\ OwnOf(t, tmp[1])'
  <2>1. task'[t] = task[t] /\ op'[t] = op[t] /\ tmp' = tmp
    BY <1>1, <1>5 DEF InFlight, Quiet
  <2>2. PICK content : content = tmp[1]
    OBVIOUS
  <2>3. tmp # <<>> /\ OwnOf(t, content)
    BY <1>5, <2>1, <2>2 DEF CleanInv
  <2>4. OwnOf(t, content)'
    BY <2>1, <2>3, OwnKept
  <2> QED BY <2>1, <2>2, <2>3, <2>4
<1>6. file' # <<>> \/ \E t \in Tasks : op'[t].step = "rename"
  BY DEF CleanInv, Quiet
<1> QED BY <1>2, <1>3, <1>4, <1>5, <1>6

LEMMA QuietEnd ==
  ASSUME Quiet, EndInv
  PROVE  EndInv'
<1> SUFFICES ASSUME clean, NEW t \in Tasks, op'[t].step = "ok"
             PROVE  /\ task'[t].pc = "adding" =>
                         Def(Target', task'[t].job.id) = {Definition(task'[t].job)}
                    /\ task'[t].pc \in DeletePlaces =>
                         /\ Def(Target', task'[t].job.id) = {}
                         /\ \A u \in Tasks :
                              op'[u].step \in {"write", "backup"}
                                /\ task'[u].job.id = task'[t].job.id
                                => task'[u].pc \notin UpdatePlaces
  BY DEF EndInv, Quiet
<1>1. \A u \in Tasks : op'[u].step # "none" => op'[u] = op[u] /\ task'[u] = task[u]
  BY DEF Quiet
<1>2. Target' = Target
  BY SameTarget
<1>3. /\ task[t].pc = "adding" => Def(Target, task[t].job.id) = {Definition(task[t].job)}
      /\ task[t].pc \in DeletePlaces =>
           /\ Def(Target, task[t].job.id) = {}
           /\ \A u \in Tasks :
                op[u].step \in {"write", "backup"} /\ task[u].job.id = task[t].job.id
                  => task[u].pc \notin UpdatePlaces
  BY <1>1 DEF EndInv
<1> QED BY <1>1, <1>2, <1>3

(* The definitions of a job in the list and in the file stay what they     *)
(* are, or come to agree.                                                  *)
LEMMA QuietFollow ==
  ASSUME Quiet, FollowInv, up' = up, dirty \subseteq dirty',
         clean => \A j \in Jobs \ dirty' :
           \/ Def(jobs', j) = Def(Target, j)
           \/ /\ Def(jobs', j) = Def(jobs, j)
              /\ \A u \in Tasks : Pending(u, j) => op'[u] = op[u] /\ task'[u] = task[u]
  PROVE  FollowInv'
<1> SUFFICES ASSUME clean, up, NEW j \in Jobs, j \notin dirty'
             PROVE  Def(jobs', j) = Def(Target', j) \/ \E u \in Tasks : Pending(u, j)'
  BY DEF FollowInv, Quiet
<1>1. Target' = Target
  BY SameTarget
<1>2. Def(jobs, j) = Def(Target, j) \/ \E u \in Tasks : Pending(u, j)
  BY DEF FollowInv
<1>3. ASSUME NEW u \in Tasks, Pending(u, j), op'[u] = op[u], task'[u] = task[u]
      PROVE  Pending(u, j)'
  BY <1>3 DEF Pending
<1> QED BY <1>1, <1>2, <1>3

(* A step that calls the store.                                            *)
Called(t) ==
  /\ op[t].step = "none" /\ op'[t].step = "load"
  /\ OthersOp(t) /\ Others(t)
  /\ file' = file /\ tmp' = tmp
  /\ clean' = (clean /\ \A u \in Tasks : ~InFlight(u))

LEMMA CalledKeeps ==
  ASSUME NEW t \in Tasks, Called(t), CleanInv, EndInv
  PROVE  CleanInv' /\ EndInv' /\ Target' = Target
<1>1. \A u \in Tasks : u # t => op'[u] = op[u] /\ task'[u] = task[u]
  BY DEF Called, OthersOp, Others
<1>2. op[t].step = "none" /\ op'[t].step = "load" /\ file' = file /\ tmp' = tmp
  BY DEF Called
<1>3. Target' = Target
  <2>1. (\E u \in Tasks : op'[u].step = "rename") <=> (\E u \in Tasks : op[u].step = "rename")
    BY <1>1, <1>2
  <2> QED BY <1>2, <2>1 DEF Target, Content
<1>4. CleanInv'
  <2> SUFFICES ASSUME clean' PROVE CleanInv'
    BY DEF CleanInv
  <2>1. clean /\ \A u \in Tasks : ~InFlight(u)
    BY DEF Called
  <2>2. \A u \in Tasks : op'[u].step \notin {"write", "backup", "rename"}
    BY <1>1, <1>2, <2>1 DEF InFlight
  <2>3. \A u \in Tasks : InFlight(u)' => u = t
    BY <1>1, <2>1 DEF InFlight
  <2>4. file' # <<>>
    BY <1>2, <2>1 DEF CleanInv, InFlight
  <2> QED BY <2>2, <2>3, <2>4 DEF CleanInv
<1>5. EndInv'
  <2> SUFFICES ASSUME clean, NEW s \in Tasks, op'[s].step = "ok"
               PROVE  /\ task'[s].pc = "adding" =>
                           Def(Target', task'[s].job.id) = {Definition(task'[s].job)}
                      /\ task'[s].pc \in DeletePlaces =>
                           /\ Def(Target', task'[s].job.id) = {}
                           /\ \A u \in Tasks :
                                op'[u].step \in {"write", "backup"}
                                  /\ task'[u].job.id = task'[s].job.id
                                  => task'[u].pc \notin UpdatePlaces
    BY DEF EndInv, Called
  <2>1. s # t /\ op[s].step = "ok" /\ task'[s] = task[s]
    BY <1>1, <1>2
  <2>2. /\ task[s].pc = "adding" => Def(Target, task[s].job.id) = {Definition(task[s].job)}
        /\ task[s].pc \in DeletePlaces =>
             /\ Def(Target, task[s].job.id) = {}
             /\ \A u \in Tasks :
                  op[u].step \in {"write", "backup"} /\ task[u].job.id = task[s].job.id
                    => task[u].pc \notin UpdatePlaces
    BY <2>1 DEF EndInv
  <2>3. \A u \in Tasks : op'[u].step \in {"write", "backup"} => op'[u] = op[u] /\ task'[u] = task[u]
    BY <1>1, <1>2
  <2> QED BY <1>3, <2>1, <2>2, <2>3
<1> QED BY <1>3, <1>4, <1>5

LEMMA CalledFollow ==
  ASSUME NEW t \in Tasks, Called(t), CleanInv, EndInv, FollowInv, up' = up, dirty' = dirty,
         \A j \in Jobs \ dirty' :
           \/ Def(jobs', j) = Def(jobs, j)
           \/ task'[t].pc \in UpdatePlaces /\ task'[t].job.id = j
  PROVE  FollowInv'
<1> SUFFICES ASSUME clean, up, NEW j \in Jobs, j \notin dirty
             PROVE  Def(jobs', j) = Def(Target', j) \/ \E u \in Tasks : Pending(u, j)'
  BY DEF FollowInv, Called
<1>1. Target' = Target
  BY CalledKeeps
<1>2. Def(jobs, j) = Def(Target, j) \/ \E u \in Tasks : Pending(u, j)
  BY DEF FollowInv
<1>3. ASSUME NEW u \in Tasks, Pending(u, j)
      PROVE  Pending(u, j)'
  <2>1. u # t
    BY <1>3 DEF Pending, Called
  <2>2. op'[u] = op[u] /\ task'[u] = task[u]
    BY <2>1 DEF Called, OthersOp, Others
  <2> QED BY <1>3, <2>2 DEF Pending
<1>4. CASE task'[t].pc \in UpdatePlaces /\ task'[t].job.id = j
  BY <1>4 DEF Pending, Called, UpdatePlaces, Placed, CopyPlaces
<1>5. CASE Def(jobs', j) = Def(jobs, j)
  BY <1>1, <1>2, <1>3, <1>5
<1> QED BY <1>4, <1>5
-----------------------------------------------------------------------------
(* The steps of the store.                                                 *)

LEMMA LoadedOwn ==
  ASSUME NEW K, Typed(K), OpInv, NEW t \in Tasks, op[t].step = "load",
         NEW content, content = Changed(op[t].kind, op[t].job)
  PROVE  /\ OwnOf(t, content)
         /\ \A j : j # task[t].job.id => Def(content, j) = Def(Content, j)
<1>1. /\ op[t].kind = Kind(task[t].pc) /\ Kind(task[t].pc) # "none"
      /\ op[t].job.id = task[t].job.id
      /\ op[t].kind = "save" => op[t].job = task[t].job
      /\ op[t].kind = "update" => op[t].job \in jobs
  BY DEF OpInv, OpOf
<1>2. OneEach(jobs)
  BY TypedParts DEF Lists
<1>3. PICK q, old : q = op[t].job /\ old = Content
  OBVIOUS
<1>4. CASE task[t].pc = "adding"
  <2>1. op[t].kind = "save" /\ q = task[t].job
    BY <1>1, <1>3, <1>4, Kinds
  <2>2. IsReplaced(content, old, q)
    BY <1>3, <2>1 DEF Changed, IsReplaced, IsRemoved
  <2>3. /\ Def(content, q.id) = {Definition(q)}
        /\ \A j : j # q.id => Def(content, j) = Def(old, j)
    BY <2>2, DefReplaced
  <2>4. task[t].pc \notin UpdatePlaces /\ task[t].pc \notin DeletePlaces
    BY <1>4 DEF UpdatePlaces, DeletePlaces
  <2> QED BY <1>3, <1>4, <2>1, <2>3, <2>4 DEF OwnOf
<1>5. CASE task[t].pc \in UpdatePlaces
  <2>1. op[t].kind = "update" /\ q \in jobs /\ q.id = task[t].job.id
    BY <1>1, <1>3, <1>5, Kinds
  <2>2. IsReplaced(content, old, q)
    BY <1>3, <2>1 DEF Changed, IsReplaced, IsRemoved
  <2>3. /\ Def(content, q.id) = {Definition(q)}
        /\ \A j : j # q.id => Def(content, j) = Def(old, j)
    BY <2>2, DefReplaced
  <2>4. Def(jobs, q.id) = {Definition(q)}
    BY <1>2, <2>1, DefSingle
  <2>5. task[t].pc # "adding" /\ task[t].pc \notin DeletePlaces
    BY <1>5 DEF UpdatePlaces, DeletePlaces
  <2> QED BY <1>3, <1>5, <2>1, <2>3, <2>4, <2>5 DEF OwnOf
<1>6. CASE task[t].pc \in DeletePlaces
  <2>1. op[t].kind = "delete" /\ q.id = task[t].job.id
    BY <1>1, <1>3, <1>6, Kinds
  <2>2. IsRemoved(content, old, q.id)
    BY <1>3, <2>1 DEF Changed, IsReplaced, IsRemoved
  <2>3. /\ Def(content, q.id) = {}
        /\ \A j : j # q.id => Def(content, j) = Def(old, j)
    BY <2>2, DefRemoved
  <2>4. task[t].pc # "adding" /\ task[t].pc \notin UpdatePlaces
    BY <1>6 DEF UpdatePlaces, DeletePlaces
  <2> QED BY <1>3, <1>6, <2>1, <2>3, <2>4 DEF OwnOf
<1> QED BY <1>1, <1>4, <1>5, <1>6 DEF Kind

LEMMA FlightAlone ==
  ASSUME clean, CleanInv, NEW t \in Tasks, InFlight(t)
  PROVE  /\ \A u \in Tasks : u # t => op[u].step \notin {"load", "write", "backup", "rename"}
         /\ op[t].step # "rename" => file # <<>> /\ Target = file[1] /\ Content = file[1]
         /\ op[t].step = "rename" => Target = tmp[1]
<1>1. \A u \in Tasks : u # t => op[u].step \notin {"load", "write", "backup", "rename"}
  BY DEF CleanInv, InFlight
<1>2. ASSUME op[t].step # "rename" PROVE file # <<>> /\ Target = file[1] /\ Content = file[1]
  <2>1. \A u \in Tasks : op[u].step # "rename"
    BY <1>1, <1>2
  <2>2. file # <<>>
    BY <2>1 DEF CleanInv
  <2> QED BY <2>1, <2>2 DEF Target, Content
<1>3. ASSUME op[t].step = "rename" PROVE Target = tmp[1]
  BY <1>3 DEF Target
<1> QED BY <1>1, <1>2, <1>3

LEMMA FollowStays ==
  ASSUME FollowInv, NEW t \in Tasks, OthersOp(t), task' = task, jobs' = jobs, up' = up,
         dirty' = dirty, clean' => clean,
         clean => \A j \in Jobs :
           \/ Def(Target', j) = Def(Target, j) /\ (Pending(t, j) => Pending(t, j)')
           \/ Def(jobs, j) = Def(Target', j)
           \/ Pending(t, j)'
  PROVE  FollowInv'
<1> SUFFICES ASSUME clean, up, NEW j \in Jobs, j \notin dirty
             PROVE  Def(jobs, j) = Def(Target', j) \/ \E u \in Tasks : Pending(u, j)'
  BY DEF FollowInv
<1>1. Def(jobs, j) = Def(Target, j) \/ \E u \in Tasks : Pending(u, j)
  BY DEF FollowInv
<1>2. ASSUME NEW u \in Tasks, u # t, Pending(u, j)
      PROVE  Pending(u, j)'
  BY <1>2 DEF Pending, OthersOp
<1>3. CASE Def(Target', j) = Def(Target, j) /\ (Pending(t, j) => Pending(t, j)')
  BY <1>1, <1>2, <1>3
<1> QED BY <1>3

(* What EndInv says of a task. *)
Ended(t) ==
  /\ task[t].pc = "adding" => Def(Target, task[t].job.id) = {Definition(task[t].job)}
  /\ task[t].pc \in DeletePlaces =>
       /\ Def(Target, task[t].job.id) = {}
       /\ \A u \in Tasks :
            op[u].step \in {"write", "backup"} /\ task[u].job.id = task[t].job.id
              => task[u].pc \notin UpdatePlaces

LEMMA EndOf ==
  /\ EndInv <=> (clean => \A t \in Tasks : op[t].step = "ok" => Ended(t))
  /\ EndInv' <=> (clean' => \A t \in Tasks : op'[t].step = "ok" => Ended(t)')
BY DEF EndInv, Ended

LEMMA EndStays ==
  ASSUME EndInv, NEW t \in Tasks, OthersOp(t), task' = task, clean' => clean,
         clean => \A s \in Tasks :
           s # t /\ op[s].step = "ok" /\ (task[s].pc = "adding" \/ task[s].pc \in DeletePlaces)
             => Def(Target', task[s].job.id) = Def(Target, task[s].job.id),
         clean => \A s \in Tasks :
           s # t /\ op[s].step = "ok" /\ task[s].pc \in DeletePlaces
             /\ op'[t].step \in {"write", "backup"} /\ task[t].job.id = task[s].job.id
             => task[t].pc \notin UpdatePlaces,
         clean /\ op'[t].step = "ok" => Ended(t)'
  PROVE  EndInv'
<1> SUFFICES ASSUME clean, NEW s \in Tasks, op'[s].step = "ok"
             PROVE  Ended(s)'
  BY EndOf
<1>1. CASE s = t
  BY <1>1
<1>2. CASE s # t
  <2>1. op[s].step = "ok"
    BY <1>2 DEF OthersOp
  <2>2. Ended(s)
    BY <2>1, EndOf
  <2>3. task[s].pc = "adding" => Def(Target', task[s].job.id) = {Definition(task[s].job)}
    BY <1>2, <2>1, <2>2 DEF Ended
  <2>4. task[s].pc \in DeletePlaces => Def(Target', task[s].job.id) = {}
    BY <1>2, <2>1, <2>2 DEF Ended
  <2>5. ASSUME task[s].pc \in DeletePlaces, NEW u \in Tasks,
               op'[u].step \in {"write", "backup"}, task[u].job.id = task[s].job.id
        PROVE  task[u].pc \notin UpdatePlaces
    <3>1. CASE u = t
      BY <1>2, <2>1, <2>5, <3>1
    <3>2. CASE u # t
      BY <2>2, <2>5, <3>2 DEF Ended, OthersOp
    <3> QED BY <3>1, <3>2
  <2> QED BY <2>3, <2>4, <2>5 DEF Ended
<1> QED BY <1>1, <1>2

FileInv == CleanInv /\ EndInv /\ FollowInv

LEMMA LoadStep ==
  ASSUME NEW K, Typed(K), OpInv, FileInv, NEW t \in Tasks,
         LoadJobs(t) \/ LoadVanished(t), UNCHANGED <<up, jobs, task, dirty>>
  PROVE  FileInv'
<1>1. /\ op[t].step = "load" /\ OthersOp(t) /\ file' = file /\ tmp' = tmp /\ clean' = clean
      /\ op'[t].step \in {"failed", "write"}
      /\ op'[t].step = "write" => /\ op'[t].content = Changed(op[t].kind, op[t].job)
                                  /\ op[t].kind # "save" => HasJob(Content, op[t].job.id)
  <2>1. op \in [Tasks -> Ops(K)]
    BY DEF Typed, TypeOKFile
  <2>2. CASE LoadJobs(t)
    <3>1. CASE op[t].kind # "save" /\ ~HasJob(Content, op[t].job.id)
      BY <2>1, <2>2, <3>1 DEF LoadJobs, OthersOp
    <3>2. CASE ~(op[t].kind # "save" /\ ~HasJob(Content, op[t].job.id))
      BY <2>1, <2>2, <3>2 DEF LoadJobs, OthersOp
    <3> QED BY <3>1, <3>2
  <2>3. CASE LoadVanished(t)
    BY <2>1, <2>3 DEF LoadVanished, OthersOp
  <2> QED BY <2>2, <2>3
<1>2. task' = task /\ jobs' = jobs /\ up' = up /\ dirty' = dirty
  OBVIOUS
<1>3. ASSUME clean
      PROVE  /\ \A u \in Tasks : u # t => op[u].step \notin {"load", "write", "backup", "rename"}
             /\ file # <<>> /\ Target = file[1] /\ Content = file[1]
  BY <1>1, <1>3, FlightAlone DEF InFlight, FileInv
<1>4. Target' = Target
  <2>1. (\E u \in Tasks : op'[u].step = "rename") <=> (\E u \in Tasks : op[u].step = "rename")
    BY <1>1 DEF OthersOp
  <2> QED BY <1>1, <2>1 DEF Target, Content
<1>5. CleanInv'
  <2> SUFFICES ASSUME clean' PROVE CleanInv'
    BY DEF CleanInv
  <2>1. clean
    BY <1>1
  <2>2. \A u \in Tasks : u # t => op'[u].step \notin {"load", "write", "backup", "rename"}
    BY <1>1, <1>3, <2>1 DEF OthersOp
  <2>3. file' # <<>>
    BY <1>1, <1>3, <2>1
  <2>4. ASSUME op'[t].step = "write" PROVE WritesOf(t, op[t].content)'
    <3>1. PICK content : content = op'[t].content
      OBVIOUS
    <3>2. content = Changed(op[t].kind, op[t].job)
      BY <1>1, <2>4, <3>1
    <3>3. /\ OwnOf(t, content)
          /\ \A j : j # task[t].job.id => Def(content, j) = Def(file[1], j)
      BY <1>1, <1>3, <2>1, <3>2, LoadedOwn
    <3>4. WritesOf(t, content)
      BY <3>3 DEF WritesOf
    <3>5. WritesOf(t, content)'
      BY <1>1, <1>2, <3>4 DEF WritesOf, OwnOf
    <3> QED BY <3>1, <3>5
  <2>5. \A u, v \in Tasks : InFlight(u)' /\ InFlight(v)' => u = v
    BY <2>2 DEF InFlight
  <2> QED BY <1>1, <2>2, <2>3, <2>4, <2>5 DEF CleanInv
<1>6. EndInv'
  <2>1. ASSUME clean, NEW s \in Tasks, s # t, op[s].step = "ok", task[s].pc \in DeletePlaces,
               op'[t].step \in {"write", "backup"}, task[t].job.id = task[s].job.id
        PROVE  task[t].pc \notin UpdatePlaces
    <3>1. Def(Content, task[s].job.id) = {}
      <4>1. Ended(s)
        BY <2>1, EndOf DEF FileInv
      <4> QED BY <1>3, <2>1, <4>1 DEF Ended
    <3>2. ~HasJob(Content, task[t].job.id)
      BY <2>1, <3>1, DefAbsent
    <3>3. op[t].kind = "save"
      BY <1>1, <2>1, <3>2 DEF OpInv, OpOf
    <3>4. Kind(task[t].pc) = "save"
      BY <1>1, <3>3 DEF OpInv, OpOf
    <3> QED BY <3>4, Kinds
  <2> QED BY <1>1, <1>2, <1>4, <2>1, EndStays DEF FileInv
<1>7. FollowInv'
  <2>1. ASSUME NEW j \in Jobs, Pending(t, j) PROVE Pending(t, j)'
    BY <1>1, <1>2, <2>1 DEF Pending
  <2> QED BY <1>1, <1>2, <1>4, <2>1, FollowStays DEF FileInv
<1> QED BY <1>5, <1>6, <1>7 DEF FileInv

LEMMA WriteStep ==
  ASSUME NEW K, Typed(K), FileInv, NEW t \in Tasks, WriteTmp(t),
         UNCHANGED <<up, jobs, task, dirty>>
  PROVE  FileInv'
<1>1. /\ op[t].step = "write" /\ OthersOp(t) /\ file' = file /\ clean' = clean
      /\ tmp' = <<op[t].content>> /\ op'[t].step = "backup"
  BY DEF WriteTmp, OthersOp, Typed, TypeOKFile
<1>2. task' = task /\ jobs' = jobs /\ up' = up /\ dirty' = dirty
  OBVIOUS
<1>3. ASSUME clean
      PROVE  /\ \A u \in Tasks : u # t => op[u].step \notin {"load", "write", "backup", "rename"}
             /\ file # <<>> /\ Target = file[1]
  BY <1>1, <1>3, FlightAlone DEF InFlight, FileInv
<1>4. ASSUME clean PROVE Target' = Target
  <2>1. \A u \in Tasks : op'[u].step # "rename"
    BY <1>1, <1>3, <1>4 DEF OthersOp
  <2>2. \A u \in Tasks : op[u].step # "rename"
    BY <1>1, <1>3, <1>4
  <2> QED BY <1>1, <2>1, <2>2 DEF Target, Content
<1>5. CleanInv'
  <2> SUFFICES ASSUME clean' PROVE CleanInv'
    BY DEF CleanInv
  <2>1. clean
    BY <1>1
  <2>2. \A u \in Tasks : u # t => op'[u].step \notin {"load", "write", "backup", "rename"}
    BY <1>1, <1>3, <2>1 DEF OthersOp
  <2>3. file' # <<>>
    BY <1>1, <1>3, <2>1
  <2>4. PICK content : content = op[t].content
    OBVIOUS
  <2>5. WritesOf(t, content)
    BY <1>1, <2>1, <2>4 DEF FileInv, CleanInv
  <2>6. WritesOf(t, content)'
    BY <1>1, <1>2, <2>5 DEF WritesOf, OwnOf
  <2>7. tmp' # <<>> /\ tmp'[1] = content
    BY <1>1, <2>4
  <2>8. WritesOf(t, tmp[1])'
    BY <2>6, <2>7
  <2>9. \A u, v \in Tasks : InFlight(u)' /\ InFlight(v)' => u = v
    BY <2>2 DEF InFlight
  <2> QED BY <1>1, <2>2, <2>3, <2>7, <2>8, <2>9 DEF CleanInv
<1>6. EndInv'
  <2>1. ASSUME clean, NEW s \in Tasks, s # t, op[s].step = "ok", task[s].pc \in DeletePlaces,
               op'[t].step \in {"write", "backup"}, task[t].job.id = task[s].job.id
        PROVE  task[t].pc \notin UpdatePlaces
    <3>1. Ended(s)
      BY <2>1, EndOf DEF FileInv
    <3> QED BY <1>1, <2>1, <3>1 DEF Ended
  <2> QED BY <1>1, <1>2, <1>4, <2>1, EndStays DEF FileInv
<1>7. FollowInv'
  <2>1. ASSUME NEW j \in Jobs, Pending(t, j) PROVE Pending(t, j)'
    BY <1>1, <1>2, <2>1 DEF Pending
  <2> QED BY <1>1, <1>2, <1>4, <2>1, FollowStays DEF FileInv
<1> QED BY <1>5, <1>6, <1>7 DEF FileInv

LEMMA BackupStep ==
  ASSUME NEW K, K \subseteq Jobs, Typed(K), AddInv, OpInv, FileInv, NEW t \in Tasks, Backup(t),
         UNCHANGED <<up, jobs, task, dirty>>
  PROVE  FileInv'
<1>1. /\ op[t].step = "backup" /\ OthersOp(t) /\ tmp' = tmp /\ clean' = clean
      /\ file' = <<>> /\ op'[t].step = "rename"
  BY DEF Backup, OthersOp, Typed, TypeOKFile
<1>2. task' = task /\ jobs' = jobs /\ up' = up /\ dirty' = dirty
  OBVIOUS
<1>3. ASSUME clean
      PROVE  /\ \A u \in Tasks : u # t => op[u].step \notin {"load", "write", "backup", "rename"}
             /\ Target = file[1]
             /\ tmp # <<>> /\ OwnOf(t, tmp[1])
             /\ \A j \in Jobs \ {task[t].job.id} : Def(tmp[1], j) = Def(file[1], j)
  <2>1. WritesOf(t, tmp[1]) /\ tmp # <<>>
    BY <1>1, <1>3 DEF FileInv, CleanInv
  <2> QED BY <1>1, <1>3, <2>1, FlightAlone DEF InFlight, FileInv, WritesOf
<1>4. Target' = tmp[1]
  BY <1>1 DEF Target
<1>5. /\ task[t].pc = "adding" \/ task[t].pc \in UpdatePlaces \/ task[t].pc \in DeletePlaces
      /\ task[t].pc \in Placed
  <2>1. Kind(task[t].pc) # "none"
    BY <1>1 DEF OpInv, OpOf
  <2> QED BY <2>1 DEF Kind, Placed, CopyPlaces, UpdatePlaces, DeletePlaces
<1>6. CleanInv'
  <2> SUFFICES ASSUME clean' PROVE CleanInv'
    BY DEF CleanInv
  <2>1. clean
    BY <1>1
  <2>2. \A u \in Tasks : u # t => op'[u].step \notin {"load", "write", "backup", "rename"}
    BY <1>1, <1>3, <2>1 DEF OthersOp
  <2>3. PICK content : content = tmp[1]
    OBVIOUS
  <2>4. OwnOf(t, content)
    BY <1>3, <2>1, <2>3
  <2>5. OwnOf(t, content)'
    BY <1>2, <2>4 DEF OwnOf
  <2>6. tmp' # <<>> /\ tmp'[1] = content
    BY <1>1, <1>3, <2>1, <2>3
  <2>7. OwnOf(t, tmp[1])'
    BY <2>5, <2>6
  <2>8. \A u, v \in Tasks : InFlight(u)' /\ InFlight(v)' => u = v
    BY <2>2 DEF InFlight
  <2> QED BY <1>1, <2>2, <2>6, <2>7, <2>8 DEF CleanInv
<1>7. EndInv'
  <2>1. ASSUME clean, NEW s \in Tasks, s # t, op[s].step = "ok",
               task[s].pc = "adding" \/ task[s].pc \in DeletePlaces
        PROVE  Def(Target', task[s].job.id) = Def(Target, task[s].job.id)
    <3>1. task[s].job.id \in Jobs /\ task[s].pc \in Placed
      BY <2>1, TypedParts DEF Placed, CopyPlaces, DeletePlaces
    <3>2. CASE task[s].job.id # task[t].job.id
      BY <1>3, <1>4, <2>1, <3>1, <3>2
    <3>3. CASE task[s].job.id = task[t].job.id
      <4>1. task[s].pc # "adding" /\ task[t].pc # "adding"
        BY <1>5, <2>1, <3>1, <3>3 DEF AddInv
      <4>2. Ended(s) /\ task[s].pc \in DeletePlaces
        BY <2>1, <4>1, EndOf DEF FileInv
      <4>3. Def(Target, task[s].job.id) = {} /\ task[t].pc \notin UpdatePlaces
        BY <1>1, <3>3, <4>2 DEF Ended
      <4>4. task[t].pc \in DeletePlaces
        BY <1>5, <4>1, <4>3
      <4>5. Def(tmp[1], task[t].job.id) = {}
        BY <1>3, <2>1, <4>1, <4>3, <4>4 DEF OwnOf
      <4> QED BY <1>4, <3>3, <4>3, <4>5
    <3> QED BY <3>2, <3>3
  <2> QED BY <1>1, <1>2, <2>1, EndStays DEF FileInv
<1>8. FollowInv'
  <2>1. ASSUME clean, NEW j \in Jobs
        PROVE  \/ Def(Target', j) = Def(Target, j) /\ (Pending(t, j) => Pending(t, j)')
               \/ Def(jobs, j) = Def(Target', j)
               \/ Pending(t, j)'
    <3>1. CASE j # task[t].job.id
      BY <1>3, <1>4, <2>1, <3>1 DEF Pending
    <3>2. CASE j = task[t].job.id /\ task[t].pc \in UpdatePlaces
      <4>1. task[t].pc # "adding" /\ task[t].pc \notin DeletePlaces
        BY <3>2 DEF UpdatePlaces, DeletePlaces
      <4> QED BY <1>3, <1>4, <2>1, <3>2, <4>1 DEF OwnOf
    <3>3. CASE j = task[t].job.id /\ task[t].pc \notin UpdatePlaces
      BY <1>1, <1>2, <1>5, <3>3 DEF Pending
    <3> QED BY <3>1, <3>2, <3>3
  <2> QED BY <1>1, <1>2, <2>1, FollowStays DEF FileInv
<1> QED BY <1>6, <1>7, <1>8 DEF FileInv

LEMMA RenameStep ==
  ASSUME NEW K, Typed(K), OpInv, FileInv, NEW t \in Tasks, Rename(t),
         UNCHANGED <<up, jobs, task, dirty>>
  PROVE  FileInv'
<1>1. /\ op[t].step = "rename" /\ OthersOp(t) /\ clean' = clean
      /\ file' = IF tmp = <<>> THEN file ELSE tmp
      /\ op'[t].step = IF tmp = <<>> THEN "failed" ELSE "ok"
  BY DEF Rename, OthersOp, Typed, TypeOKFile
<1>2. task' = task /\ jobs' = jobs /\ up' = up /\ dirty' = dirty
  OBVIOUS
<1>3. ASSUME clean
      PROVE  /\ \A u \in Tasks : u # t => op[u].step \notin {"load", "write", "backup", "rename"}
             /\ Target = tmp[1]
             /\ tmp # <<>> /\ OwnOf(t, tmp[1])
  BY <1>1, <1>3, FlightAlone DEF InFlight, FileInv, CleanInv
<1>4. ASSUME clean
      PROVE  /\ file' # <<>> /\ op'[t].step = "ok" /\ Target' = Target
             /\ \A u \in Tasks : op'[u].step \notin {"load", "write", "backup", "rename"}
  <2>1. file' = tmp /\ tmp # <<>> /\ op'[t].step = "ok"
    BY <1>1, <1>3, <1>4
  <2>2. \A u \in Tasks : op'[u].step \notin {"load", "write", "backup", "rename"}
    BY <1>1, <1>3, <1>4, <2>1 DEF OthersOp
  <2>3. Target' = tmp[1]
    BY <2>1, <2>2 DEF Target, Content
  <2> QED BY <1>3, <1>4, <2>1, <2>2, <2>3
<1>6. CleanInv'
  <2> SUFFICES ASSUME clean' PROVE CleanInv'
    BY DEF CleanInv
  <2>1. clean
    BY <1>1
  <2> QED BY <1>4, <2>1 DEF CleanInv, InFlight
<1>7. EndInv'
  <2>1. ASSUME clean PROVE Ended(t)'
    <3>1. /\ task[t].pc = "adding" => Def(tmp[1], task[t].job.id) = {Definition(task[t].job)}
          /\ task[t].pc \in DeletePlaces => Def(tmp[1], task[t].job.id) = {}
      <4>1. "adding" \notin UpdatePlaces /\ "adding" \notin DeletePlaces
            /\ \A l \in DeletePlaces : l \notin UpdatePlaces /\ l # "adding"
        BY DEF UpdatePlaces, DeletePlaces
      <4>2. OwnOf(t, tmp[1])
        BY <1>3, <2>1
      <4>3. ASSUME task[t].pc = "adding"
            PROVE  Def(tmp[1], task[t].job.id) = {Definition(task[t].job)}
        BY <4>1, <4>2, <4>3 DEF OwnOf
      <4>4. ASSUME task[t].pc \in DeletePlaces PROVE Def(tmp[1], task[t].job.id) = {}
        BY <4>1, <4>2, <4>4 DEF OwnOf
      <4> QED BY <4>3, <4>4
    <3>2. \A u \in Tasks : op'[u].step \notin {"write", "backup"}
      BY <1>4, <2>1
    <3>3. Target' = tmp[1]
      BY <1>3, <1>4, <2>1
    <3> QED BY <1>2, <3>1, <3>2, <3>3 DEF Ended
  <2>2. clean => op'[t].step \notin {"write", "backup"}
    BY <1>4
  <2>3. clean => Target' = Target
    BY <1>4
  <2> QED BY <1>1, <1>2, <2>1, <2>2, <2>3, EndStays DEF FileInv
<1>8. FollowInv'
  <2>1. ASSUME clean, NEW j \in Jobs, Pending(t, j)
        PROVE  Pending(t, j)'
    BY <1>1, <1>2, <1>4, <2>1 DEF Pending
  <2>2. clean => Target' = Target
    BY <1>4
  <2> QED BY <1>1, <1>2, <2>1, <2>2, FollowStays DEF FileInv
<1> QED BY <1>6, <1>7, <1>8 DEF FileInv

LEMMA StoreFileStep ==
  ASSUME NEW K, K \subseteq Jobs, Typed(K), AddInv, OpInv, FileInv, NEW t \in Tasks,
         StoreStep(t) \/ StoreFails(t)
  PROVE  FileInv'
<1>1. UNCHANGED <<up, jobs, task, dirty>>
  BY ShapeOfStore
<1>2. CASE StoreSteps(t)
  BY <1>1, <1>2, LoadStep, WriteStep, BackupStep, RenameStep DEF StoreSteps
<1>3. CASE OpFails(t)
  <2>1. ~clean'
    BY <1>3 DEF OpFails
  <2> QED BY <2>1 DEF FileInv, CleanInv, EndInv, FollowInv
<1> QED BY <1>2, <1>3 DEF StoreStep, StoreFails

LEMMA QuietExits ==
  ASSUME NEW t \in Tasks, Exits(t),
         \/ TakesResult(t) /\ op[t].step \in {"ok", "failed"}
         \/ NoStore /\ op[t].step = "none"
  PROVE  /\ Quiet
         /\ \A u \in Tasks : u # t => op'[u] = op[u] /\ task'[u] = task[u]
<1>1. \A u \in Tasks : u # t => op'[u] = op[u] /\ task'[u] = task[u]
  BY DEF Exits, Others, TakesResult, OthersOp, NoStore
<1>2. op'[t].step = "none" /\ op[t].step \in {"none", "ok", "failed"}
  BY DEF TakesResult, NoStore, NoOp
<1>3. file' = file /\ tmp' = tmp /\ clean' = clean
  BY DEF TakesResult, NoStore
<1> QED BY <1>1, <1>2, <1>3 DEF Quiet

LEMMA QuietEnters ==
  ASSUME NEW t \in Tasks, NEW l, NEW q, Enters(t, l, q), NoStore, op[t].step = "none"
  PROVE  /\ Quiet
         /\ \A u \in Tasks : u # t => op'[u] = op[u] /\ task'[u] = task[u]
BY DEF Quiet, Enters, Others, NoStore

LEMMA CalledEnters ==
  ASSUME NEW t \in Tasks, NEW l, NEW q, Enters(t, l, q), NEW kind, NEW job,
         CallsStore(t, kind, job), op[t].step = "none"
  PROVE  Called(t)
BY DEF Called, Enters, CallsStore

LEMMA NotPending ==
  ASSUME NEW t \in Tasks
  PROVE  /\ op[t].step = "none" => \A j : ~Pending(t, j)
         /\ task[t].pc \in Placed => \A j : Pending(t, j) => j = task[t].job.id
         /\ op[t].step = "ok" /\ task[t].pc \in UpdatePlaces => \A j : ~Pending(t, j)
         /\ op[t].step = "failed" /\ task[t].pc \notin UpdatePlaces => \A j : ~Pending(t, j)
BY DEF Pending, UpdatePlaces, DeletePlaces

LEMMA FileQuietStep ==
  ASSUME FileInv, Quiet, DefsStay, up' = up, dirty \subseteq dirty',
         clean => \A j \in Jobs \ dirty' :
           \/ Def(jobs', j) = Def(Target, j)
           \/ /\ Def(jobs', j) = Def(jobs, j)
              /\ \A u \in Tasks : Pending(u, j) => op'[u] = op[u] /\ task'[u] = task[u]
  PROVE  FileInv'
BY QuietClean, QuietEnd, QuietFollow DEF FileInv

(* A step of one task that is not pending and changes no definition.       *)
LEMMA FileQuietTask ==
  ASSUME FileInv, Quiet, NEW t \in Tasks,
         \A u \in Tasks : u # t => op'[u] = op[u] /\ task'[u] = task[u],
         \A j \in Jobs \ dirty' : ~Pending(t, j), up' = up, dirty \subseteq dirty',
         jobs' = jobs \/ KeepsDefinitions(jobs', jobs)
  PROVE  FileInv'
<1>1. \A j : Def(jobs', j) = Def(jobs, j)
  BY DefKept
<1>2. DefsStay
  BY <1>1 DEF DefsStay
<1> QED BY <1>1, <1>2, FileQuietStep

LEMMA FileCalledStep ==
  ASSUME FileInv, NEW t \in Tasks, Called(t), up' = up, dirty' = dirty,
         \A j \in Jobs \ dirty' :
           \/ Def(jobs', j) = Def(jobs, j)
           \/ task'[t].pc \in UpdatePlaces /\ task'[t].job.id = j
  PROVE  FileInv'
BY CalledKeeps, CalledFollow DEF FileInv

LEMMA FileCalledEasily ==
  ASSUME FileInv, NEW t \in Tasks, Called(t), up' = up, dirty' = dirty,
         jobs' = jobs \/ KeepsDefinitions(jobs', jobs)
  PROVE  FileInv'
<1>1. \A j : Def(jobs', j) = Def(jobs, j)
  BY DefKept
<1> QED BY <1>1, FileCalledStep

LEMMA IdleOps ==
  ASSUME OpInv, NEW t \in Tasks, Kind(task[t].pc) = "none"
  PROVE  op[t].step = "none" /\ \A j : ~Pending(t, j)
BY NotPending DEF OpInv, OpOf

(* The results that are taken, and the changes of the list.                *)
LEMMA FileAdded ==
  ASSUME NEW K, K \subseteq Jobs, Typed(K), AddInv, FileInv, up' = up,
         NEW t \in Tasks, Added(t)
  PROVE  FileInv'
<1>1. /\ task[t].pc = "adding" /\ Exits(t) /\ TakesResult(t) /\ dirty' = dirty
      /\ \/ Stored(t) /\ MayWrite /\ jobs' = jobs \cup {task[t].job}
         \/ StoreFailed(t) /\ jobs' = jobs
  BY ShapeOfAdds
<1>2. op[t].step \in {"ok", "failed"}
  BY <1>1 DEF Stored, StoreFailed
<1>3. /\ Quiet
      /\ \A u \in Tasks : u # t => op'[u] = op[u] /\ task'[u] = task[u]
  BY <1>1, <1>2, QuietExits
<1>4. task[t].pc \notin UpdatePlaces /\ task[t].pc \in Placed
  BY <1>1 DEF UpdatePlaces, Placed
<1>5. CASE StoreFailed(t) /\ jobs' = jobs
  <2>1. \A j : ~Pending(t, j)
    BY <1>4, <1>5, NotPending DEF StoreFailed
  <2> QED BY <1>1, <1>3, <1>5, <2>1, FileQuietTask
<1>6. CASE Stored(t) /\ MayWrite /\ jobs' = jobs \cup {task[t].job}
  <2>1. PICK q : q = task[t].job
    OBVIOUS
  <2>2. q.id \notin Ids(jobs)
    BY <1>1, <2>1 DEF AddInv
  <2>3. DefsStay
    BY <1>6, NoWriter DEF DefsStay
  <2>4. ASSUME clean PROVE Def(jobs', q.id) = Def(Target, q.id)
    <3>1. Ended(t)
      BY <1>6, <2>4, EndOf DEF FileInv, Stored
    <3>2. Def(Target, q.id) = {Definition(q)}
      BY <1>1, <2>1, <3>1 DEF Ended
    <3>3. jobs' = jobs \cup {q}
      BY <1>6, <2>1
    <3>4. ASSUME NEW j PROVE j = q.id => Def(jobs \cup {q}, j) = {Definition(q)}
      BY <2>2, DefAdded
    <3>5. Def(jobs \cup {q}, q.id) = {Definition(q)}
      BY <3>4
    <3> QED BY <3>2, <3>3, <3>5
  <2>5. ASSUME NEW j, j # q.id
        PROVE  /\ Def(jobs', j) = Def(jobs, j)
               /\ \A u \in Tasks : Pending(u, j) => op'[u] = op[u] /\ task'[u] = task[u]
    <3>1. Def(jobs \cup {q}, j) = Def(jobs, j)
      BY <2>2, <2>5, DefAdded
    <3>2. ~Pending(t, j)
      BY <1>4, <2>1, <2>5, NotPending
    <3> QED BY <1>3, <1>6, <2>1, <3>1, <3>2
  <2>6. clean => \A j \in Jobs \ dirty' :
          \/ Def(jobs', j) = Def(Target, j)
          \/ /\ Def(jobs', j) = Def(jobs, j)
             /\ \A u \in Tasks : Pending(u, j) => op'[u] = op[u] /\ task'[u] = task[u]
    BY <2>4, <2>5
  <2> QED BY <1>1, <1>3, <2>3, <2>6, FileQuietStep
<1> QED BY <1>1, <1>5, <1>6

LEMMA FileRemoved ==
  ASSUME NEW K, K \subseteq Jobs, Typed(K), FileInv, up' = up,
         NEW t \in Tasks, Removed(t)
  PROVE  FileInv'
<1>1. /\ task[t].pc \in DeletePlaces /\ Exits(t) /\ TakesResult(t) /\ dirty' = dirty
      /\ \/ Stored(t) /\ MayWrite /\ jobs' = Without(jobs, task[t].job.id)
         \/ StoreFailed(t) /\ jobs' = jobs
  BY ShapeOfRemovals
<1>2. op[t].step \in {"ok", "failed"}
  BY <1>1 DEF Stored, StoreFailed
<1>3. /\ Quiet
      /\ \A u \in Tasks : u # t => op'[u] = op[u] /\ task'[u] = task[u]
  BY <1>1, <1>2, QuietExits
<1>4. task[t].pc \notin UpdatePlaces /\ task[t].pc \in Placed
  BY <1>1 DEF UpdatePlaces, Placed, DeletePlaces, CopyPlaces
<1>5. CASE StoreFailed(t) /\ jobs' = jobs
  <2>1. \A j : ~Pending(t, j)
    BY <1>4, <1>5, NotPending DEF StoreFailed
  <2> QED BY <1>1, <1>3, <1>5, <2>1, FileQuietTask
<1>6. CASE Stored(t) /\ MayWrite /\ jobs' = Without(jobs, task[t].job.id)
  <2>1. PICK i : i = task[t].job.id
    OBVIOUS
  <2>2. IsRemoved(jobs', jobs, i)
    BY <1>6, <2>1 DEF IsRemoved
  <2>3. Def(jobs', i) = {} /\ \A j : j # i => Def(jobs', j) = Def(jobs, j)
    BY <2>2, DefRemoved
  <2>4. DefsStay
    BY <1>6, NoWriter DEF DefsStay
  <2>5. ASSUME clean PROVE Def(jobs', i) = Def(Target, i)
    <3>1. Ended(t)
      BY <1>6, <2>5, EndOf DEF FileInv, Stored
    <3> QED BY <1>1, <2>1, <2>3, <3>1 DEF Ended
  <2>6. \A j : j # i => ~Pending(t, j)
    BY <1>4, <2>1, NotPending
  <2>7. clean => \A j \in Jobs \ dirty' :
          \/ Def(jobs', j) = Def(Target, j)
          \/ /\ Def(jobs', j) = Def(jobs, j)
             /\ \A u \in Tasks : Pending(u, j) => op'[u] = op[u] /\ task'[u] = task[u]
    BY <1>3, <2>3, <2>5, <2>6
  <2> QED BY <1>1, <1>3, <2>4, <2>7, FileQuietStep
<1> QED BY <1>1, <1>5, <1>6

(* An update that was stored, or that leaves the job dirty.                *)
LEMMA FileUpdated ==
  ASSUME FileInv, up' = up, NEW t \in Tasks, task[t].pc \in UpdatePlaces,
         Exits(t), TakesResult(t), jobs' = jobs,
         \/ Stored(t) /\ dirty' = dirty
         \/ StoreFailed(t) /\ dirty' = dirty \cup {task[t].job.id}
  PROVE  FileInv'
<1>1. op[t].step \in {"ok", "failed"}
  BY DEF Stored, StoreFailed
<1>2. /\ Quiet
      /\ \A u \in Tasks : u # t => op'[u] = op[u] /\ task'[u] = task[u]
  BY <1>1, QuietExits
<1>3. task[t].pc \in Placed
  BY DEF UpdatePlaces, Placed, CopyPlaces
<1>4. \A j \in Jobs \ dirty' : ~Pending(t, j)
  BY <1>3, NotPending DEF Stored
<1> QED BY <1>2, <1>4, FileQuietTask

LEMMA FileUpdateRefused ==
  ASSUME NEW K, K \subseteq Jobs, Typed(K), OpInv, FileInv, up' = up,
         NEW t \in Tasks, NEW r \in jobs, NEW en \in BOOLEAN, NEW s \in Schedules,
         NEW once \in BOOLEAN, UpdateRefused(t, r, en, s, once)
  PROVE  FileInv'
<1>1. PICK q : q.id = r.id /\ jobs' = Replace(q)
  BY ShapeOfUpdates
<1>2. /\ MayWrite /\ task[t].pc = "idle" /\ Exits(t) /\ NoStore
      /\ dirty' = dirty \cup {r.id}
  BY ShapeOfUpdates
<1>3. op[t].step = "none" /\ \A j : ~Pending(t, j)
  BY <1>2, Kinds, IdleOps
<1>4. /\ Quiet
      /\ \A u \in Tasks : u # t => op'[u] = op[u] /\ task'[u] = task[u]
  BY <1>2, <1>3, QuietExits
<1>5. DefsStay
  BY <1>2, NoWriter DEF DefsStay
<1>6. IsReplaced(jobs', jobs, q)
  BY <1>1 DEF IsReplaced, Replace
<1>7. \A j : j # q.id => Def(jobs', j) = Def(jobs, j)
  BY <1>6, DefReplaced
<1>8. clean => \A j \in Jobs \ dirty' :
        \/ Def(jobs', j) = Def(Target, j)
        \/ /\ Def(jobs', j) = Def(jobs, j)
           /\ \A u \in Tasks : Pending(u, j) => op'[u] = op[u] /\ task'[u] = task[u]
  BY <1>1, <1>2, <1>3, <1>4, <1>7
<1> QED BY <1>2, <1>4, <1>5, <1>8, FileQuietStep

(* A job is replaced in the list, and the store is called with it.         *)
LEMMA FileReplaced ==
  ASSUME FileInv, NEW t \in Tasks, up' = up, dirty' = dirty, op[t].step = "none",
         NEW q, jobs' = Replace(q), NEW l \in UpdatePlaces, NEW p, p.id = q.id,
         Enters(t, l, p), NEW kind, NEW job, CallsStore(t, kind, job)
  PROVE  FileInv'
<1>1. Called(t)
  BY CalledEnters
<1>2. IsReplaced(jobs', jobs, q)
  BY DEF IsReplaced, Replace
<1>3. \A j : j # q.id => Def(jobs', j) = Def(jobs, j)
  BY <1>2, DefReplaced
<1>4. task'[t].pc \in UpdatePlaces /\ task'[t].job.id = q.id
  BY DEF Enters
<1>5. \A j \in Jobs \ dirty' :
        \/ Def(jobs', j) = Def(jobs, j)
        \/ task'[t].pc \in UpdatePlaces /\ task'[t].job.id = j
  BY <1>3, <1>4
<1> QED BY <1>1, <1>5, FileCalledStep

LEMMA FileTaskStep ==
  ASSUME NEW K, K \subseteq Jobs, Typed(K), DownInv, AddInv, OpInv, FileInv,
         NEW t \in Tasks, TaskStep(t)
  PROVE  FileInv'
<1>0. up' = up
  BY UpStep
<1>00. Kind(task[t].pc) = "none" => op[t].step = "none" /\ \A j : ~Pending(t, j)
  BY IdleOps
<1>1. CASE AddRefused(t)
  <2>1. task[t].pc = "idle" /\ Exits(t) /\ NoStore /\ jobs' = jobs /\ dirty' = dirty
    BY <1>1, ShapeOfAdds
  <2>2. op[t].step = "none" /\ \A j : ~Pending(t, j)
    BY <1>00, <2>1, Kinds
  <2>3. /\ Quiet
        /\ \A u \in Tasks : u # t => op'[u] = op[u] /\ task'[u] = task[u]
    BY <2>1, <2>2, QuietExits
  <2> QED BY <1>0, <2>1, <2>2, <2>3, FileQuietTask
<1>2. ASSUME NEW j \in Jobs, NEW s \in Schedules, NEW once \in BOOLEAN, Add(t, j, s, once)
      PROVE  FileInv'
  <2>1. task[t].pc = "idle" /\ jobs' = jobs /\ dirty' = dirty
    BY <1>2 DEF Add
  <2>2. PICK r : Enters(t, "adding", r) /\ CallsStore(t, "save", r)
    <3>1. EntersAdded(K, t, j)
      BY <1>2, ShapeOfAdds
    <3> QED BY <3>1 DEF EntersAdded
  <2>3. op[t].step = "none"
    BY <1>00, <2>1, Kinds
  <2>4. Called(t)
    BY <2>2, <2>3, CalledEnters
  <2> QED BY <1>0, <2>1, <2>4, FileCalledEasily
<1>3. CASE Added(t)
  BY <1>0, <1>3, FileAdded
<1>4. ASSUME NEW r \in jobs, NEW en \in BOOLEAN, NEW s \in Schedules, NEW once \in BOOLEAN,
             UpdateRefused(t, r, en, s, once)
      PROVE  FileInv'
  BY <1>0, <1>4, FileUpdateRefused
<1>5. ASSUME NEW r \in jobs, NEW en \in BOOLEAN, NEW s \in Schedules, NEW once \in BOOLEAN,
             Update(t, r, en, s, once)
      PROVE  FileInv'
  <2>1. PICK q : /\ jobs' = Replace(q)
                 /\ CallsStore(t, "update", q) /\ Enters(t, "updating", Copy(q))
    BY <1>5, ShapeOfUpdates
  <2>2. task[t].pc = "idle" /\ dirty' = dirty
    BY <1>5, ShapeOfUpdates
  <2>3. op[t].step = "none"
    BY <1>00, <2>2, Kinds
  <2>4. "updating" \in UpdatePlaces /\ Copy(q).id = q.id
    BY CopyOf DEF UpdatePlaces
  <2> QED BY <1>0, <2>1, <2>2, <2>3, <2>4, FileReplaced
<1>6. CASE Updated(t)
  <2>1. task[t].pc \in UpdatePlaces
    BY <1>6 DEF Updated, UpdatePlaces
  <2>2. /\ Exits(t) /\ TakesResult(t) /\ jobs' = jobs
        /\ \/ Stored(t) /\ dirty' = dirty
           \/ StoreFailed(t) /\ dirty' = dirty \cup {task[t].job.id}
    BY <1>6, ShapeOfUpdates
  <2> QED BY <1>0, <2>1, <2>2, FileUpdated
<1>7. ASSUME NEW r \in jobs, Remove(t, r)
      PROVE  FileInv'
  <2>1. /\ task[t].pc = "idle" /\ jobs' = jobs /\ dirty' = dirty
        /\ CallsStore(t, "delete", Copy(r)) /\ Enters(t, "removing", Copy(r))
    BY <1>7, ShapeOfRemovals
  <2>2. op[t].step = "none"
    BY <1>00, <2>1, Kinds
  <2>3. Called(t)
    BY <2>1, <2>2, CalledEnters
  <2> QED BY <1>0, <2>1, <2>3, FileCalledEasily
<1>8. CASE Removed(t)
  BY <1>0, <1>8, FileRemoved
<1>9. ASSUME NEW r \in jobs, RunRead(t, r)
      PROVE  FileInv'
  <2>1. /\ task[t].pc = "idle" /\ NoStore /\ Enters(t, "mark", Copy(r))
        /\ jobs' = jobs /\ dirty' = dirty
    BY <1>9, ShapeOfRuns
  <2>2. op[t].step = "none" /\ \A j : ~Pending(t, j)
    BY <1>00, <2>1, Kinds
  <2>3. /\ Quiet
        /\ \A u \in Tasks : u # t => op'[u] = op[u] /\ task'[u] = task[u]
    BY <2>1, <2>2, QuietEnters
  <2> QED BY <1>0, <2>1, <2>2, <2>3, FileQuietTask
<1>10. CASE RunMark(t)
  <2>1. /\ task[t].pc = "mark" /\ NoStore /\ Enters(t, "turn", task[t].job)
        /\ Marked(task[t].job.id) /\ dirty' = dirty
    BY <1>10, ShapeOfRuns
  <2>2. op[t].step = "none" /\ \A j : ~Pending(t, j)
    BY <1>00, <2>1, Kinds
  <2>3. /\ Quiet
        /\ \A u \in Tasks : u # t => op'[u] = op[u] /\ task'[u] = task[u]
    BY <2>1, <2>2, QuietEnters
  <2>4. KeepsDefinitions(jobs', jobs)
    BY <2>1 DEF Marked
  <2> QED BY <1>0, <2>1, <2>2, <2>3, <2>4, FileQuietTask
<1>11. CASE TurnEnds(t)
  <2>1. /\ task[t].pc = "turn" /\ NoStore /\ Enters(t, "reschedule", task[t].job)
        /\ jobs' = jobs /\ dirty' = dirty
    BY <1>11, ShapeOfRuns
  <2>2. op[t].step = "none" /\ \A j : ~Pending(t, j)
    BY <1>00, <2>1, Kinds
  <2>3. /\ Quiet
        /\ \A u \in Tasks : u # t => op'[u] = op[u] /\ task'[u] = task[u]
    BY <2>1, <2>2, QuietEnters
  <2> QED BY <1>0, <2>1, <2>2, <2>3, FileQuietTask
<1>12. CASE Reschedule(t)
  <2>1. task[t].pc = "reschedule" /\ dirty' = dirty
    BY <1>12, ShapeOfEnds
  <2>2. PICK next : Rescheduled(task[t].job.id, next)
    BY <1>12, ShapeOfEnds
  <2>3. KeepsDefinitions(jobs', jobs)
    BY <2>2 DEF Rescheduled
  <2>4. op[t].step = "none" /\ \A j : ~Pending(t, j)
    BY <1>00, <2>1, Kinds
  <2>5. CASE Enters(t, "deleting", task[t].job) /\ CallsStore(t, "delete", task[t].job)
    <3>1. Called(t)
      BY <2>4, <2>5, CalledEnters
    <3> QED BY <1>0, <2>1, <2>3, <3>1, FileCalledEasily
  <2>6. CASE (Enters(t, "persist", task[t].job) \/ Enters(t, "disable", task[t].job)) /\ NoStore
    <3>1. /\ Quiet
          /\ \A u \in Tasks : u # t => op'[u] = op[u] /\ task'[u] = task[u]
      BY <2>4, <2>6, QuietEnters
    <3> QED BY <1>0, <2>1, <2>3, <2>4, <3>1, FileQuietTask
  <2> QED BY <1>12, <2>5, <2>6, ShapeOfEnds
<1>13. CASE Persist(t)
  <2>1. task[t].pc = "persist" /\ jobs' = jobs /\ dirty' = dirty
    BY <1>13, ShapeOfEnds
  <2>2. op[t].step = "none" /\ \A j : ~Pending(t, j)
    BY <1>00, <2>1, Kinds
  <2>3. ASSUME NEW q \in jobs, CallsStore(t, "update", q), Enters(t, "persisting", task[t].job)
        PROVE  FileInv'
    <3>1. Called(t)
      BY <2>2, <2>3, CalledEnters
    <3> QED BY <1>0, <2>1, <3>1, FileCalledEasily
  <2>4. CASE Exits(t) /\ NoStore
    <3>1. /\ Quiet
          /\ \A u \in Tasks : u # t => op'[u] = op[u] /\ task'[u] = task[u]
      BY <2>2, <2>4, QuietExits
    <3> QED BY <1>0, <2>1, <2>2, <3>1, FileQuietTask
  <2> QED BY <1>13, <2>3, <2>4, ShapeOfEnds
<1>14. CASE Disable(t)
  <2>1. task[t].pc = "disable" /\ dirty' = dirty
    BY <1>14, ShapeOfEnds
  <2>2. op[t].step = "none" /\ \A j : ~Pending(t, j)
    BY <1>00, <2>1, Kinds
  <2>3. ASSUME NEW r \in jobs, NEW q \in JobsOver(K), r.id = task[t].job.id, q.id = r.id,
               jobs' = Replace(q), CallsStore(t, "update", q),
               Enters(t, "disabling", task[t].job)
        PROVE  FileInv'
    <3>1. "disabling" \in UpdatePlaces /\ task[t].job.id = q.id
      BY <2>3 DEF UpdatePlaces
    <3> QED BY <1>0, <2>1, <2>2, <2>3, <3>1, FileReplaced
  <2>4. CASE Exits(t) /\ NoStore /\ jobs' = jobs
    <3>1. /\ Quiet
          /\ \A u \in Tasks : u # t => op'[u] = op[u] /\ task'[u] = task[u]
      BY <2>2, <2>4, QuietExits
    <3> QED BY <1>0, <2>1, <2>2, <2>4, <3>1, FileQuietTask
  <2> QED BY <1>14, <2>3, <2>4, ShapeOfEnds
<1>15. CASE Persisted(t)
  <2>1. task[t].pc \in UpdatePlaces
    BY <1>15 DEF Persisted, UpdatePlaces
  <2>2. /\ Exits(t) /\ TakesResult(t) /\ jobs' = jobs
        /\ \/ Stored(t) /\ dirty' = dirty
           \/ StoreFailed(t) /\ dirty' = dirty \cup {task[t].job.id}
    BY <1>15, ShapeOfEnds
  <2> QED BY <1>0, <2>1, <2>2, FileUpdated
<1>16. CASE StoreStep(t) \/ StoreFails(t)
  BY <1>16, StoreFileStep
<1> QED
  <2>1. ASSUME Call(t) PROVE FileInv'
    BY <1>1, <1>2, <1>4, <1>5, <1>7, <1>9, <2>1 DEF Call, OnceOf
  <2>2. ASSUME TaskSteps(t) PROVE FileInv'
    BY <1>3, <1>6, <1>8, <1>10, <1>12, <1>13, <1>14, <1>15, <1>16, <2>2 DEF TaskSteps
  <2> QED BY <2>1, <2>2, <1>11, <1>16 DEF TaskStep

(* The steps of the whole service.                                         *)
LEMMA FileStart ==
  ASSUME NEW K, Typed(K), DownInv, FileInv, Start
  PROVE  FileInv'
<1>1. /\ ~up /\ UNCHANGED <<file, tmp, op, clean, task, dirty>>
      /\ jobs' = {IF r.enabled THEN Scheduled(r, clock) ELSE r : r \in Content}
  BY DEF Start, historyVars, fileVars
<1>2. \A t \in Tasks : op[t] = NoOp
  BY <1>1 DEF DownInv
<1>3. \A t \in Tasks : op[t].step = "none" /\ ~InFlight(t)
  BY <1>2 DEF NoOp, InFlight
<1>4. Target' = Content
  BY <1>1, <1>3 DEF Target, Content
<1>5. CleanInv'
  BY <1>1, <1>3 DEF FileInv, CleanInv, InFlight
<1>6. EndInv'
  BY <1>1, <1>3 DEF EndInv
<1>7. ASSUME NEW j PROVE Def(jobs', j) = Def(Content, j)
  <2> DEFINE F(r) == IF r.enabled THEN Scheduled(r, clock) ELSE r
  <2>1. ASSUME NEW r \in Content PROVE F(r).id = r.id /\ Definition(F(r)) = Definition(r)
    <3>1. r \in JobsOver(K) /\ clock \in 0 .. MaxClock
      BY TypedParts, ListParts
    <3>2. Scheduled(r, clock).id = r.id /\ Definition(Scheduled(r, clock)) = Definition(r)
      BY <3>1, ScheduledTyped DEF Scheduled, Definition, JobsOver
    <3> QED BY <3>2
  <2>2. jobs' = {F(r) : r \in Content}
    BY <1>1
  <2> HIDE DEF F
  <2>3. \A r \in jobs' : \E q \in Content : r = F(q)
    BY <2>2
  <2>4. \A q \in Content : F(q) \in jobs'
    BY <2>2
  <2>5. PICK old : old = Content
    OBVIOUS
  <2> QED BY <2>1, <2>3, <2>4, <2>5, DefSame
<1>8. FollowInv'
  BY <1>4, <1>7 DEF FollowInv
<1> QED BY <1>5, <1>6, <1>8 DEF FileInv

LEMMA FileCrash ==
  ASSUME NEW K, Typed(K), FileInv, Crash
  PROVE  FileInv'
<1>1. /\ \A t \in Tasks : op'[t] = NoOp
      /\ ~up' /\ file' = file /\ tmp' = tmp
      /\ clean' = (clean /\ \A t \in Tasks : ~InFlight(t))
  BY ShapeOfCrash
<1>2. \A t \in Tasks : op'[t].step = "none"
  BY <1>1 DEF NoOp
<1>3. CleanInv'
  <2> SUFFICES ASSUME clean' PROVE CleanInv'
    BY DEF CleanInv
  <2>1. clean /\ \A t \in Tasks : ~InFlight(t)
    BY <1>1
  <2>2. file' # <<>>
    BY <1>1, <2>1 DEF FileInv, CleanInv, InFlight
  <2>3. \A t \in Tasks : ~InFlight(t)'
    BY <1>2 DEF InFlight
  <2> QED BY <1>2, <2>2, <2>3 DEF CleanInv
<1>4. EndInv'
  BY <1>2 DEF EndInv
<1>5. FollowInv'
  BY <1>1 DEF FollowInv
<1> QED BY <1>3, <1>4, <1>5 DEF FileInv

LEMMA FileStep ==
  ASSUME NEW K, K \subseteq Jobs, Typed(K), HasRoom, DownInv, AddInv, OpInv, FileInv, NextCron
  PROVE  FileInv'
<1>1. CASE Tick \/ Waits
  <2>1. NoStore /\ UNCHANGED <<up, jobs, task, dirty>>
    <3>1. CASE Tick
      BY <3>1 DEF Tick, NoStore, fileVars, historyVars
    <3>2. CASE Waits
      BY <3>2, ShapeOfWaits DEF Waits
    <3> QED BY <1>1, <3>1, <3>2
  <2>2. Quiet
    BY <2>1 DEF Quiet, NoStore
  <2>3. \A u \in Tasks : op'[u] = op[u] /\ task'[u] = task[u]
    BY <2>1 DEF NoStore
  <2>4. DefsStay /\ \A j : Def(jobs', j) = Def(jobs, j)
    BY <2>1 DEF DefsStay
  <2> QED BY <2>1, <2>2, <2>3, <2>4, FileQuietStep
<1>2. CASE MarkDue
  <2>1. NoStore /\ Claims /\ UNCHANGED <<up, task, dirty>>
    BY <1>2, ShapeOfMarkDue
  <2>2. Quiet
    BY <2>1 DEF Quiet, NoStore
  <2>3. \A u \in Tasks : op'[u] = op[u] /\ task'[u] = task[u]
    BY <2>1 DEF NoStore
  <2>4. \A j : Def(jobs', j) = Def(jobs, j)
    <3>1. KeepsDefinitions(jobs', jobs)
      BY <2>1 DEF Claims
    <3> QED BY <3>1, DefKept
  <2>5. DefsStay
    BY <2>4 DEF DefsStay
  <2> QED BY <2>1, <2>2, <2>3, <2>4, <2>5, FileQuietStep
<1>3. CASE ClearStuck
  <2>1. NoStore /\ Clears /\ UNCHANGED <<up, dirty>> /\ \E f : SlotsGiven(f)
    BY <1>3, ShapeOfClearStuck
  <2>2. \A u \in Tasks : task'[u] = task[u] \/ task[u].pc = "idle"
    BY <2>1, SpawnChanges
  <2>3. \A u \in Tasks : task[u].pc = "idle" => op[u].step = "none" /\ \A j : ~Pending(u, j)
    BY Kinds, IdleOps
  <2>4. Quiet
    BY <2>1, <2>2, <2>3 DEF Quiet, NoStore
  <2>5. \A j : \A u \in Tasks : Pending(u, j) => op'[u] = op[u] /\ task'[u] = task[u]
    BY <2>1, <2>2, <2>3 DEF NoStore
  <2>6. \A j : Def(jobs', j) = Def(jobs, j)
    <3>1. KeepsDefinitions(jobs', jobs)
      BY <2>1 DEF Clears
    <3> QED BY <3>1, DefKept
  <2>7. DefsStay
    BY <2>6 DEF DefsStay
  <2> QED BY <2>1, <2>4, <2>5, <2>6, <2>7, FileQuietStep
<1>4. ASSUME NEW t \in Tasks, TaskStep(t) PROVE FileInv'
  BY <1>4, FileTaskStep
<1> QED BY <1>1, <1>2, <1>3, <1>4, FileStart, FileCrash, StepCases
-----------------------------------------------------------------------------
(* The invariant holds of every state.                                     *)

LEMMA InitTyped ==
  ASSUME InitCron
  PROVE  CronTyped
<1>1. PICK s \in [Preloaded -> Schedules], once \in [Preloaded -> BOOLEAN] :
        InitFile({[id |-> j, enabled |-> TRUE, once |-> once[j],
                   schedule |-> s[j], next |-> Never, running |-> Never]
                    : j \in Preloaded})
  BY DEF InitCron
<1>2. PICK G : G = Given
  OBVIOUS
<1>3. G = Preloaded
  BY <1>2 DEF InitCron, Given
<1> DEFINE F(j) == [id |-> j, enabled |-> TRUE, once |-> once[j],
                    schedule |-> s[j], next |-> Never, running |-> Never]
           first == {F(j) : j \in Preloaded}
<1>4. first \in Lists(G)
  <2>1. ASSUME NEW j \in Preloaded PROVE F(j) \in JobsOver(G) /\ F(j).id = j
    <3>1. once[j] \in BOOLEAN /\ s[j] \in Schedules /\ Never \in 0 .. Never
      BY CronAssumption
    <3> QED BY <1>3, <3>1 DEF JobsOver
  <2> HIDE DEF F
  <2> QED BY <2>1 DEF Lists, OneEach
<1>5. file = <<first>> /\ tmp = <<>> /\ op = [t \in Tasks |-> NoOp] /\ clean = TRUE
  BY <1>1 DEF InitFile
<1> HIDE DEF first
<1>6. TypeOKFile(G)
  BY <1>4, <1>5 DEF TypeOKFile, IsPath, Ops, NoOp
<1>7. TypeOKService(G)
  <2>1. {} \in Lists(G)
    BY DEF Lists, OneEach
  <2>2. Idle \in TaskStates(G)
    BY DEF TaskStates, Idle
  <2>3. 0 \in 0 .. Never /\ 0 \in 0 .. MaxClock
    BY CronAssumption
  <2>4. task \in [Tasks -> TaskStates(G)]
    BY <2>2 DEF InitCron
  <2> QED BY <2>1, <2>3, <2>4 DEF InitCron, TypeOKService, OneEach
<1> QED BY <1>2, <1>6, <1>7 DEF CronTyped

LEMMA InitInv ==
  ASSUME InitCron
  PROVE  CronInv
<1>1. /\ up = FALSE /\ loop = "off" /\ claimed = {} /\ jobs = {}
      /\ \A t \in Tasks : task[t].pc = "idle"
  BY DEF InitCron, Idle
<1>2. /\ file # <<>>
      /\ \A t \in Tasks : op[t] = NoOp /\ op[t].step = "none" /\ ~InFlight(t)
  <2>1. PICK content : InitFile(content)
    BY DEF InitCron
  <2> QED BY <2>1 DEF InitFile, NoOp, InFlight
<1>3. \A t \in Tasks : task[t].pc \notin Placed
  BY <1>1 DEF Placed, CopyPlaces
<1>4. DownInv
  BY <1>1, <1>2, <1>3 DEF DownInv
<1>5. AddInv
  BY <1>1 DEF AddInv
<1>6. RunInv
  <2>1. HasRoom
    <3>1. PICK f : f = [q \in claimed |-> 0]
      OBVIOUS
    <3>2. f \in [claimed -> IdleTimers]
      BY <1>1, <3>1
    <3> QED BY <1>1, <3>2 DEF HasRoom
  <2>2. \A j : Runs(j) = {} /\ j \notin Ids(claimed)
    BY <1>1 DEF Runs, Ids
  <2>3. \A j \in Jobs : RunningOnce(j)
    BY <2>2 DEF RunningOnce
  <2> QED BY <1>1, <2>1, <2>3 DEF RunInv
<1>7. SchedInv
  BY <1>1 DEF SchedInv
<1>8. SleepInv
  BY <1>1 DEF SleepInv
<1>9. OpInv
  BY <1>1, <1>2, Kinds DEF OpInv, OpOf
<1>10. CleanInv
  BY <1>2 DEF CleanInv
<1>11. EndInv
  BY <1>2 DEF EndInv
<1>12. FollowInv
  BY <1>1 DEF FollowInv
<1>13. LockInv
  BY <1>1 DEF LockInv, UpdatePlaces
<1> QED BY <1>4, <1>5, <1>6, <1>7, <1>8, <1>9, <1>10, <1>11, <1>12, <1>13, InitTyped DEF CronInv

LEMMA StepInv ==
  ASSUME CronInv, NextCron
  PROVE  CronInv'
<1>1. PICK G : G = Given
  OBVIOUS
<1>2. PICK L : L = Given'
  OBVIOUS
<1>3. Typed(G) /\ G \subseteq Jobs
  BY <1>1, CronAssumption DEF CronInv, CronTyped, Typed, Given, TypeOKService
<1>4. Typed(Given) /\ HasRoom
  BY <1>1, <1>3 DEF CronInv, RunInv
<1>5. Typed(Given)'
  BY <1>4, TypedStep DEF CronInv
<1>6. Typed(L)'
  BY <1>2, <1>5
<1>7. DownInv' /\ OpInv' /\ LockInv'
  BY <1>3, <1>4, DownStep DEF CronInv
<1>8. AddInv'
  BY <1>4, AddStep DEF CronInv
<1>9. RunInv'
  BY <1>3, RunStep DEF CronInv
<1>10. SchedInv'
  BY <1>3, <1>4, SchedStep DEF CronInv
<1>11. SleepInv'
  BY <1>3, <1>4, <1>6, SleepStep DEF CronInv
<1>12. FileInv
  BY DEF CronInv, FileInv
<1>13. FileInv'
  BY <1>3, <1>4, <1>12, FileStep DEF CronInv
<1>14. CronTyped'
  BY <1>5 DEF Typed, CronTyped
<1> QED BY <1>7, <1>8, <1>9, <1>10, <1>11, <1>13, <1>14 DEF CronInv, FileInv

LEMMA SameInv ==
  ASSUME CronInv, UNCHANGED cronVars
  PROVE  CronInv'
<1>1. /\ UNCHANGED <<file, tmp, op, clean>>
      /\ UNCHANGED <<up, jobs, task, loop, loopTime, claimed, permit, clock>>
      /\ UNCHANGED <<twice, stale, dirty, admitted>>
  BY DEF cronVars, fileVars, serviceVars, historyVars
<1>2. CronTyped'
  BY <1>1 DEF CronInv, CronTyped, TypeOKFile, TypeOKService, Given
<1>3. DownInv' /\ AddInv' /\ SleepInv' /\ LockInv'
  BY <1>1 DEF CronInv, DownInv, AddInv, SleepInv, LockInv
<1>4. RunInv'
  BY <1>1 DEF CronInv, RunInv, HasRoom, IdleTimers, RunningOnce, Runs
<1>5. SchedInv'
  BY <1>1 DEF CronInv, SchedInv, OnTime
<1>6. OpInv'
  BY <1>1 DEF CronInv, OpInv, OpOf
<1>7. FileInv'
  <2>1. FileInv /\ Quiet
    BY <1>1 DEF CronInv, FileInv, Quiet
  <2>2. DefsStay /\ \A j : Def(jobs', j) = Def(jobs, j)
    BY <1>1 DEF DefsStay
  <2> QED BY <1>1, <2>1, <2>2, FileQuietStep
<1> QED BY <1>2, <1>3, <1>4, <1>5, <1>6, <1>7 DEF CronInv, FileInv

LEMMA CronInvariant == CronSpec => []CronInv
<1>1. InitCron => CronInv
  BY InitInv
<1>2. CronInv /\ [NextCron]_cronVars => CronInv'
  BY StepInv, SameInv
<1> QED BY <1>1, <1>2, PTL DEF CronSpec

-----------------------------------------------------------------------------
(* The rate limiter: its attempts are times that have passed.              *)

LimiterTyped == limiter \in Seq(0 .. clock)

LEMMA MoreValues ==
  ASSUME NEW S, NEW T, S \subseteq T, NEW q \in Seq(S)
  PROVE  q \in Seq(T)
OBVIOUS

LEMMA RecentTyped ==
  ASSUME clock \in Nat, LimiterTyped
  PROVE  Recent \in Seq(0 .. clock)
<1> DEFINE cutoff == IF clock > RateWindow THEN clock - RateWindow ELSE 0
           within == {i \in DOMAIN limiter : limiter[i] >= cutoff}
           first == CHOOSE i \in within : \A k \in within : i <= k
<1>1. within \subseteq 1 .. Len(limiter) /\ within \subseteq Nat
  BY DEF LimiterTyped
<1>2. Recent = IF within = {} THEN <<>> ELSE SubSeq(limiter, first, Len(limiter))
  BY DEF Recent
<1>3. CASE within = {}
  <2>1. Recent = <<>>
    BY <1>2, <1>3
  <2> QED BY <2>1
<1>4. CASE within # {}
  <2> HIDE DEF within
  <2>1. \E i \in within : \A k \in within : i <= k
    BY <1>1, <1>4, Earliest
  <2>2. first \in 1 .. Len(limiter)
    BY <1>1, <2>1
  <2> HIDE DEF first
  <2>3. SubSeq(limiter, first, Len(limiter)) \in Seq(0 .. clock)
    BY <2>2 DEF LimiterTyped
  <2> QED BY <1>2, <1>4, <2>3
<1> QED BY <1>3, <1>4

(* Every step leaves the attempts, forgets the old ones, counts one more   *)
(* or restarts.                                                            *)
Counts == /\ limiter' \in {limiter, <<>>, Recent, Append(Recent, clock)}
          /\ clock' \in {clock, clock + 1}

LEMMA CallCounts ==
  ASSUME NEW c \in Clients, Call(c)
  PROVE  Counts
<1>1. CASE AddRefused(c)
  BY <1>1 DEF AddRefused, Counts
<1>2. ASSUME NEW j \in Jobs, NEW s \in Schedules, NEW once \in OnceOf(s), Add(c, j, s, once)
      PROVE  Counts
  BY <1>2 DEF Add, Counts
<1>3. ASSUME NEW r \in jobs, Remove(c, r) \/ RunRead(c, r)
      PROVE  Counts
  BY <1>3 DEF Remove, RunRead, KeepLoop, Counts
<1>4. ASSUME NEW r \in jobs, NEW en \in BOOLEAN, NEW s \in Schedules, NEW once \in OnceOf(s),
             Update(c, r, en, s, once) \/ UpdateRefused(c, r, en, s, once)
      PROVE  Counts
  BY <1>4 DEF Update, UpdateRefused, KeepLoop, Counts
<1> QED BY <1>1, <1>2, <1>3, <1>4 DEF Call

LEMMA TaskCounts ==
  ASSUME NEW t \in Tasks, TaskSteps(t) \/ TurnEnds(t) \/ StoreFails(t)
  PROVE  Counts
<1>1. Added(t) \/ Updated(t) => KeepLoop
  BY Zenon DEF Added, Updated
<1>2. Removed(t) \/ RunMark(t) => KeepLoop
  BY Zenon DEF Removed, RunMark
<1>3. Reschedule(t) \/ Disable(t) => KeepLoop
  BY Zenon DEF Reschedule, Disable
<1>4. Persist(t) \/ Persisted(t) \/ TurnEnds(t) => KeepLoop
  BY Zenon DEF Persist, Persisted, TurnEnds
<1>5. StoreStep(t) \/ StoreFails(t) => UNCHANGED serviceVars
  BY Zenon DEF StoreStep, StoreFails
<1>6. KeepLoop \/ UNCHANGED serviceVars
  BY <1>1, <1>2, <1>3, <1>4, <1>5 DEF TaskSteps
<1> QED BY <1>6 DEF KeepLoop, serviceVars, Counts

LEMMA StepCounts ==
  ASSUME NextCron
  PROVE  Counts
<1>1. CASE Start \/ Crash \/ Tick
  BY <1>1 DEF Start, Crash, Tick, Counts
<1>2. CASE TimerLoop
  <2>1. LoopCheck \/ LoopNotified \/ LoopSlept \/ MarkDue => KeepTasks
    BY Zenon DEF LoopCheck, LoopNotified, LoopSlept, MarkDue
  <2>2. ClearStuck => limiter' = limiter /\ clock' = clock
    BY Zenon DEF ClearStuck
  <2>3. KeepTasks => limiter' = limiter /\ clock' = clock
    BY DEF KeepTasks
  <2> QED BY <1>2, <2>1, <2>2, <2>3 DEF TimerLoop, Counts
<1> QED BY <1>1, <1>2, CallCounts, TaskCounts DEF NextCron

LEMMA LimiterStep ==
  ASSUME CronTyped, LimiterTyped, NextCron
  PROVE  LimiterTyped'
<1>1. clock \in Nat
  BY DEF CronTyped, TypeOKService
<1>2. /\ Recent \in Seq(0 .. clock) /\ limiter \in Seq(0 .. clock)
      /\ Append(Recent, clock) \in Seq(0 .. clock) /\ <<>> \in Seq(0 .. clock)
  BY <1>1, RecentTyped DEF LimiterTyped
<1>3. limiter' \in Seq(0 .. clock)
  BY <1>2, StepCounts DEF Counts
<1>4. 0 .. clock \subseteq 0 .. clock'
  BY <1>1, StepCounts DEF Counts
<1> QED BY <1>3, <1>4, MoreValues DEF LimiterTyped

-----------------------------------------------------------------------------
(* The theorems.                                                           *)

(* Whatever is called, fails and restarts, the file holds lists with at    *)
(* most one job of an identifier, all of them preloaded or given out by    *)
(* add; so do the list in memory, the operations in flight and the tasks   *)
(* (service.rs and store_file.rs: jobs are found by their identifier).     *)
THEOREM CronTypes == CronSpec => []CronTyped
<1>1. CronInv => CronTyped
  BY DEF CronInv
<1> QED BY <1>1, CronInvariant, PTL

(* Every variable of the scheduler keeps its type; the rate limiter holds  *)
(* times that have passed, however its window moves (RateLimiter::check    *)
(* pops from the front and pushes the time it was asked at).               *)
THEOREM CronStateIsTyped == CronSpec => []CronTypeOK
<1>1. InitCron => LimiterTyped
  BY DEF InitCron, LimiterTyped
<1>2. CronInv /\ LimiterTyped /\ [NextCron]_cronVars => LimiterTyped'
  <2>1. CronInv => CronTyped
    BY DEF CronInv
  <2>2. UNCHANGED cronVars /\ LimiterTyped => LimiterTyped'
    BY DEF cronVars, serviceVars, LimiterTyped
  <2> QED BY <2>1, <2>2, LimiterStep
<1>3. CronInv /\ LimiterTyped => CronTypeOK
  BY DEF CronInv, LimiterTyped, CronTypeOK
<1> QED BY <1>1, <1>2, <1>3, CronInvariant, PTL DEF CronSpec

(* process_due_jobs marks a job as running under the lock before it spawns *)
(* its run, and the run takes the mark away when it ends: no job runs      *)
(* twice at once, unless it was run by hand or cleared as stuck.           *)
THEOREM RunsAreSingle == CronSpec => []OneRunAtATime
<1>1. CronInv => OneRunAtATime
  <2> SUFFICES ASSUME CronInv, NEW j \in Jobs \ twice
               PROVE  Cardinality(Runs(j)) <= 1
    BY DEF OneRunAtATime
  <2>1. \A t, u \in Runs(j) : t = u
    BY DEF CronInv, RunInv, RunningOnce
  <2>2. CASE Runs(j) = {}
    BY <2>2, FS_EmptySet
  <2>3. ASSUME NEW t \in Runs(j) PROVE Cardinality(Runs(j)) <= 1
    <3>1. Runs(j) = {t}
      BY <2>1
    <3>2. Cardinality({t}) = 1
      BY FS_Singleton
    <3> QED BY <3>1, <3>2
  <2> QED BY <2>2, <2>3
<1> QED BY <1>1, CronInvariant, PTL

(* compute_next_run and the changes of the list under the lock: an enabled *)
(* recurring job always has a next run, unless the job was changed beside  *)
(* its run or a change of it was not stored.                               *)
THEOREM RecurringStaysScheduled == CronSpec => []RecurringIsScheduled
<1>1. CronInv => RecurringIsScheduled
  BY DEF CronInv, SchedInv, OnTime, RecurringIsScheduled
<1> QED BY <1>1, CronInvariant, PTL

(* timer_loop sleeps until the earliest next run and is notified of every  *)
(* change that was stored: it never sleeps past the next run of an enabled *)
(* job, with the same exceptions, but while an update is stored.           *)
THEOREM LoopNeverOversleeps == CronSpec => []NeverOversleeps
<1>1. CronInv => NeverOversleeps
  BY DEF CronInv, SleepInv, NeverOversleeps
<1> QED BY <1>1, CronInvariant, PTL

(* add stores before it changes the list, update changes the list before   *)
(* it stores, remove stores first: once no operation is in flight the file *)
(* has the definitions of the list, for all jobs whose every change was    *)
(* stored, if no two operations of the store overlapped and none failed.   *)
THEOREM FileKeepsUp == CronSpec => []FileFollowsList
<1>1. CronInv => FileFollowsList
  <2> SUFFICES ASSUME CronInv, clean, up, \A t \in Tasks : op[t] = NoOp,
                      NEW j \in Jobs \ dirty
               PROVE  {Definition(r) : r \in {q \in jobs : q.id = j}}
                        = {Definition(r) : r \in {q \in Content : q.id = j}}
    BY DEF FileFollowsList
  <2>1. \A t \in Tasks : op[t].step = "none"
    BY DEF NoOp
  <2>2. \A t \in Tasks : ~Pending(t, j)
    BY <2>1, NotPending
  <2>3. Target = Content
    BY <2>1 DEF Target
  <2>4. Def(jobs, j) = Def(Target, j)
    BY <2>2 DEF CronInv, FollowInv
  <2> QED BY <2>3, <2>4 DEF Def
<1> QED BY <1>1, CronInvariant, PTL
=============================================================================
