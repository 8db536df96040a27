---------------------------- MODULE FullRefresh -----------------------------
(***************************************************************************)
(* The full refresh of all organizations: the parent job of                *)
(* services/dadata/sync.py, its lock, day counter and progress hash in     *)
(* services/dadata/runtime.py, the item jobs it waits for, and the worker  *)
(* loops of scripts/dadata_worker.py with their slots.                     *)
(*                                                                         *)
(* A job is what JobLifecycle says it is (JobQueue shows the queue to      *)
(* implement that): queued, running under one claim, or ended.  A claim    *)
(* whose heartbeats have stopped lapses, and a worker that looks gives     *)
(* the job back.  Delayed retries of an item are part of its being queued. *)
(* An attempt is one execution of a parent job; its number is its lock     *)
(* token.  The jobs of one group and parent are one job, whose status is   *)
(* that of the last.  A key of a day is there until midnight.              *)
(***************************************************************************)
EXTENDS Integers, FiniteSets

CONSTANTS
  Workers,
  Manual, NoJob,         \* the job of a user (lookup, refresh_one); no job
  Nobody,                \* no worker
  MaxRequests,           \* bound: parent jobs
  N,                     \* INN groups
  Weight,                \* organizations of each group
  BatchSize,             \* DADATA_REFRESH_BATCH_SIZE
  Concurrency,           \* DADATA_FULL_REFRESH_CONCURRENCY
  DailyLimit,            \* DADATA_FULL_REFRESH_DAILY_LIMIT
  ManualAfterScheduled,  \* DADATA_ALLOW_MANUAL_FULL_REFRESH_AFTER_SCHEDULED
  ScheduleInitial,       \* DADATA_SCHEDULE_INITIAL_REFRESH
  Answers,               \* what the jobs of items and of users end with
  Interval,              \* DADATA_REFRESH_INTERVAL_DAYS
  MaxDay, MaxAttempts,   \* bounds: days, executions of parent jobs
  MaxUserJobs,           \* bound: jobs users ask for, 0 or 1
  MaxFaults              \* bound: crashes, stops and errors, all together

ASSUME SizeAssumption ==
  /\ {N, BatchSize, Concurrency, Interval, MaxRequests, MaxAttempts} \subseteq Nat \ {0}
  /\ {DailyLimit, MaxDay, MaxFaults, MaxUserJobs} \subseteq Nat
  /\ Weight \in [1..N -> Nat \ {0}]
  /\ {ManualAfterScheduled, ScheduleInitial} \subseteq BOOLEAN

Parents == 1..MaxRequests
Group == 1..N
Items == Parents \X Group
Whole(p) == <<p, 0>>   \* the refresh_all job itself
Jobs == (Parents \X (0..N)) \cup {Manual}
Attempts == 1..MaxAttempts

ASSUME NameAssumption == Manual \notin Parents \X (0..N) /\ NoJob \notin Jobs /\ Nobody \notin Workers

VARIABLES
  status,     \* of the last job of each dedupe key
  origin,     \* "manual" or "scheduled", for a parent
  claim,      \* the attempt whose claim_token is in the parent's record, or 0
  progress,   \* dadata:full-refresh:progress:<parent>
  lock,       \* dadata:full-refresh-lock : the attempt holding it, or 0
  count, lastOrigin,  \* dadata:full-refresh-count:<day>, -last-origin:<day>
  last,       \* dadata:last-full-refresh-at : a day, or -1
  dedupe,     \* dadata:dedupe:full-refresh : a parent, or 0
  day,
  attempt,    \* executions of refresh_all_organizations_from_dadata
  worker,     \* run_worker loops and the item tasks they started
  faults,     \* how much of MaxFaults has been spent
  course      \* history of a parent: its progress never initialized, once or more
              \* often, or disturbed: an item that had ended was given back

lockVars == <<lock, count, lastOrigin, last, dedupe>>
jobVars  == <<status, origin, claim, progress>>
vars == <<jobVars, lockVars, day, attempt, worker, faults, course>>

(* "not_found" counts as "skipped", "rate_limited" as "failed". *)
Outcomes == {"success", "skipped", "failed"}

ASSUME AnswersAssumption == Answers \subseteq Outcomes

Idle == [loop |-> "idle", held |-> NoJob, valid |-> FALSE, seen |-> 0,
         fresh |-> {}, stale |-> {}]

(* since is the day on which it came to a command about the keys of a day; *)
(* late is a history: it asked for the lock with those of a day gone by.   *)
NoAttempt == [pc |-> "unused", parent |-> 1, on |-> Nobody, since |-> 0, late |-> FALSE,
              next |-> 1, lost |-> FALSE, mute |-> FALSE, result |-> "error"]

(* Inside full_refresh_lock, with the lock acquired. *)
Holding == {"plan", "init", "enqueue", "wait", "total", "mark", "stamp", "release"}

Active(j) == status[j] \in {"queued", "running"}
Alive(a) == attempt[a].pc \notin {"unused", "gone"}
ParentOf(a) == attempt[a].parent
At(a, p) == attempt[a].pc = p
Goto(a, p) == attempt' = [attempt EXCEPT ![a].pc = p]
Gone == [NoAttempt EXCEPT !.pc = "gone"]
Keeping(a, p) == [NoAttempt EXCEPT !.pc = p, !.parent = attempt[a].parent,
                                   !.on = attempt[a].on]
Ends(a, r, p) ==
  attempt' = [attempt EXCEPT ![a] =
    [Keeping(a, p) EXCEPT !.result = r, !.mute = attempt[a].mute,
                          !.lost = attempt[a].lost /\ p = "release"]]
Fault == faults < MaxFaults /\ faults' = faults + 1

(* full_refresh_tasks of a worker. *)
Mine(w) == {a \in Attempts : Alive(a) /\ attempt[a].on = w}
Tasks(w) == Cardinality(worker[w].fresh) + Cardinality(worker[w].stale)
            + Cardinality(Mine(w))

(* Organizations of some groups, and how many the first g groups have. *)
Organizations(G) == UNION {{g} \X (1..Weight[g]) : g \in G}
SumTo(g) == Cardinality(Organizations(1..g))

-----------------------------------------------------------------------------
Init ==
  /\ status = [j \in Jobs |-> "none"]
  /\ origin = [p \in Parents |-> "manual"]
  /\ claim = [p \in Parents |-> 0]
  /\ progress = [p \in Parents |-> [processed |-> 0, success |-> 0, skipped |-> 0,
                                    failed |-> 0]]
  /\ lock = 0
  /\ count = [d \in 0..MaxDay |-> 0]
  /\ lastOrigin = [d \in 0..MaxDay |-> "none"]
  /\ last = -1
  /\ dedupe = 0
  /\ day = 0
  /\ attempt = [a \in Attempts |-> NoAttempt]
  /\ worker = [w \in Workers |-> Idle]
  /\ faults = 0
  /\ course = [p \in Parents |-> "none"]

-----------------------------------------------------------------------------
(* queue_full_refresh: all full refreshes share one dedupe key.            *)
Submit(p, o) ==
  /\ status[Whole(p)] = "none" /\ \A q \in Parents : q < p => status[Whole(q)] # "none"
  /\ dedupe = 0
  /\ dedupe' = p
  /\ status' = [status EXCEPT ![Whole(p)] = "queued"]
  /\ origin' = [origin EXCEPT ![p] = o]
  /\ UNCHANGED <<claim, progress, lock, count, lastOrigin, last, day, attempt, worker,
                 faults, course>>

(* _schedule_refresh_if_due, before anything has ever been refreshed.      *)
InitializeSchedule(w) ==
  /\ worker[w].loop = "idle"
  /\ last = -1 /\ ~ScheduleInitial
  /\ last' = day
  /\ UNCHANGED <<jobVars, lock, count, lastOrigin, dedupe, day, attempt, worker, faults,
                 course>>

Due == IF last = -1 THEN ScheduleInitial ELSE day - last >= Interval

ScheduledRefresh(w) ==
  /\ worker[w].loop = "idle"
  /\ Due
  /\ \E p \in Parents : Submit(p, "scheduled")

UserAsks ==
  /\ status[Manual] = "none" /\ MaxUserJobs > 0
  /\ status' = [status EXCEPT ![Manual] = "queued"]
  /\ UNCHANGED <<origin, claim, progress, lockVars, day, attempt, worker, faults, course>>

-----------------------------------------------------------------------------
(* run_worker: the streams are looked at in order of priority.             *)

ClaimManual(w) ==
  /\ worker[w].loop = "idle"
  /\ status[Manual] = "queued"
  /\ status' = [status EXCEPT ![Manual] = "running"]
  /\ worker' = [worker EXCEPT ![w].loop = "manual", ![w].held = Manual]
  /\ UNCHANGED <<origin, claim, progress, lockVars, day, attempt, faults, course>>

(* process_job is awaited inside the loop: the finish script, and then the *)
(* count of finished jobs.                                                 *)
ManualEnds(w) ==
  /\ worker[w].loop = "manual" /\ worker[w].held = Manual
  /\ \E o \in Answers : status' = [status EXCEPT ![Manual] = o]
  /\ worker' = [worker EXCEPT ![w].held = NoJob]
  /\ UNCHANGED <<origin, claim, progress, lockVars, day, attempt, faults, course>>

LoopGoesOn(w) ==
  /\ worker[w].loop = "manual" /\ worker[w].held = NoJob
  /\ worker' = [worker EXCEPT ![w].loop = "idle"]
  /\ UNCHANGED <<jobVars, lockVars, day, attempt, faults, course>>

MayClaimLow(w) == worker[w].loop = "idle" /\ status[Manual] # "queued"

(* A parent is started in the background whatever the slots.               *)
ClaimParent(w) ==
  /\ MayClaimLow(w)
  /\ \E p \in Parents, a \in Attempts :
       /\ status[Whole(p)] = "queued"
       /\ At(a, "unused") /\ \A b \in Attempts : At(b, "unused") => a <= b
       /\ status' = [status EXCEPT ![Whole(p)] = "running"]
       /\ claim' = [claim EXCEPT ![p] = a]
       /\ attempt' = [attempt EXCEPT ![a] = [NoAttempt EXCEPT !.pc = "lock",
                                                !.parent = p, !.on = w, !.since = day]]
  /\ UNCHANGED <<origin, progress, lockVars, day, worker, faults, course>>

(* An item waits for a slot with its claim taken: no heartbeat runs yet.   *)
ClaimItem(w) ==
  /\ MayClaimLow(w)
  /\ \E j \in Items :
       /\ status[j] = "queued"
       /\ status' = [status EXCEPT ![j] = "running"]
       /\ worker' = IF Tasks(w) < Concurrency THEN [worker EXCEPT ![w].fresh = @ \cup {j}]
                    ELSE [worker EXCEPT ![w].loop = "slot", ![w].held = j,
                                        ![w].valid = TRUE, ![w].seen = Tasks(w)]
  /\ UNCHANGED <<origin, claim, progress, lockVars, day, attempt, faults, course>>

(* asyncio.wait(full_refresh_tasks, FIRST_COMPLETED) returns. *)
SlotFree(w) ==
  /\ worker[w].loop = "slot"
  /\ Tasks(w) < worker[w].seen
  /\ LET j == worker[w].held
     IN  worker' = [worker EXCEPT ![w] =
           [Idle EXCEPT !.fresh = IF worker[w].valid THEN worker[w].fresh \cup {j}
                                  ELSE worker[w].fresh,
                        !.stale = IF worker[w].valid THEN worker[w].stale
                                  ELSE worker[w].stale \cup {j}]]
  /\ UNCHANGED <<jobVars, lockVars, day, attempt, faults, course>>

(* Two HINCRBY of the finish script: "processed" and "status:<o>".         *)
Counted(c, o, n) == [c EXCEPT !.processed = @ + n, ![o] = @ + n]

(* The claim of a task is gone: its job has ended, or was recovered.       *)
Spent(w, j) == [worker EXCEPT ![w].fresh = @ \ {j}, ![w].stale = @ \cup {j}]

(* Faulty variant: an item that failed is not counted.                     *)
ItemEndsUncounted(w) ==
  /\ \E j \in worker[w].fresh, o \in Answers :
       /\ status' = [status EXCEPT ![j] = o]
       /\ progress' = IF o = "failed" THEN progress
            ELSE [progress EXCEPT ![j[1]] = Counted(@, o, Weight[j[2]])]
       /\ worker' = Spent(w, j)
  /\ UNCHANGED <<origin, claim, lockVars, day, attempt, faults, course>>

(* The finish script of an item: it is counted in its parent's progress.   *)
ItemEnds(w) ==
  /\ \E j \in worker[w].fresh, o \in Answers :
       /\ status' = [status EXCEPT ![j] = o]
       /\ progress' = [progress EXCEPT ![j[1]] = Counted(@, o, Weight[j[2]])]
       /\ worker' = Spent(w, j)
  /\ UNCHANGED <<origin, claim, lockVars, day, attempt, faults, course>>

(* Such a task ends: the finished job has been counted (record_metric), or *)
(* finish_job has refused the result.                                      *)
StaleEnds(w) ==
  /\ \E j \in worker[w].stale : worker' = [worker EXCEPT ![w].stale = @ \ {j}]
  /\ UNCHANGED <<jobVars, lockVars, day, attempt, faults, course>>

-----------------------------------------------------------------------------
(* The parent job.                                                         *)

(* full_refresh_lock: one script, with the keys of a date that was read    *)
(* before it.  The keys of a day gone by have expired, or were written     *)
(* after midnight.                                                         *)
Dates(a) == attempt[a].since .. day

(* Faulty variant: a manual run may follow a run of any origin.            *)
OverrideAlways(a) == ManualAfterScheduled /\ origin[ParentOf(a)] = "manual"

Override(a) == /\ ManualAfterScheduled
               /\ origin[ParentOf(a)] = "manual"
               /\ lastOrigin[day] = "scheduled"

WithinLimit(a, today) ==
  IF today # day THEN DailyLimit > 0 ELSE count[day] < DailyLimit \/ Override(a)

(* Faulty variant: the script looks at the counter only.                   *)
FreeUnlocked(a, today) == WithinLimit(a, today)

Free(a, today) == lock = 0 /\ WithinLimit(a, today)

Acquire(a) ==
  /\ At(a, "lock")
  /\ lock' = a
  /\ \E today \in Dates(a) :
       /\ Free(a, today)
       /\ attempt' = [attempt EXCEPT ![a].pc = "plan", ![a].late = today # day, ![a].since = 0]
  /\ UNCHANGED <<jobVars, count, lastOrigin, last, dedupe, day, worker, faults, course>>

Skip(a) ==
  /\ At(a, "lock")
  /\ \E today \in Dates(a) : ~Free(a, today) \/ today # day
  /\ Ends(a, "skipped", "finish")
  /\ UNCHANGED <<jobVars, lockVars, day, worker, faults, course>>

(* The groups are read and compared with what is left of the day's budget. *)
Plan(a) ==
  /\ At(a, "plan")
  /\ Goto(a, "init") \/ Ends(a, "failed", "release")
  /\ UNCHANGED <<jobVars, lockVars, day, worker, faults, course>>

Initialized(c) == CASE c = "none" -> "first" [] c = "first" -> "again" [] OTHER -> c

(* initialize_full_refresh_progress: HSET of "total" and "processed".      *)
InitializeProgress(a) ==
  /\ At(a, "init")
  /\ progress' = [progress EXCEPT ![ParentOf(a)].processed = 0]
  /\ course' = [course EXCEPT ![ParentOf(a)] = Initialized(@)]
  /\ Goto(a, "enqueue")
  /\ UNCHANGED <<status, origin, claim, lockVars, day, worker, faults>>

(* enqueue_job of one item of a batch; the lease is looked at before each  *)
(* batch.  An item still active under the parent's key is not added again. *)
BatchStart(g) == (g - 1) % BatchSize = 0
BatchEnd(g) == g % BatchSize = 0 \/ g = N

Enqueue(a) ==
  /\ At(a, "enqueue")
  /\ BatchStart(attempt[a].next) => ~attempt[a].lost
  /\ LET g == attempt[a].next
         j == <<ParentOf(a), g>>
     IN  /\ status' = IF Active(j) THEN status ELSE [status EXCEPT ![j] = "queued"]
         /\ attempt' = [attempt EXCEPT ![a].next = g + 1,
                                       ![a].pc = IF BatchEnd(g) THEN "wait" ELSE "enqueue"]
  /\ UNCHANGED <<origin, claim, progress, lockVars, day, worker, faults, course>>

(* Polling until the organizations queued so far have been processed.      *)
Wait(a) ==
  /\ At(a, "wait") /\ ~attempt[a].lost
  /\ progress[ParentOf(a)].processed >= SumTo(attempt[a].next - 1)
  /\ Goto(a, IF attempt[a].next > N THEN "total" ELSE "enqueue")
  /\ UNCHANGED <<jobVars, lockVars, day, worker, faults, course>>

(* Faulty variant: the wrong count is subtracted.                          *)
FailedCountSwapped(r) == r.processed - r.success - r.failed

FailedCount(r) == r.processed - r.success - r.skipped

(* The last poll, and the verdict computed from what it read.              *)
Total(a) ==
  /\ At(a, "total") /\ ~attempt[a].lost
  /\ LET r == progress[ParentOf(a)]
     IN  /\ r.processed >= SumTo(N)
         /\ \/ /\ FailedCount(r) = 0
               /\ attempt' = [attempt EXCEPT ![a].pc = "mark", ![a].since = day]
            \/ FailedCount(r) # 0 /\ Ends(a, "failed", "release")
  /\ UNCHANGED <<jobVars, lockVars, day, worker, faults, course>>

(* mark_full_refresh_done, one pipeline, with the keys of a date read      *)
(* before it.                                                              *)
Mark(a) ==
  /\ At(a, "mark") /\ ~attempt[a].lost
  /\ \E today \in Dates(a) :
       /\ count' = [count EXCEPT ![today] = @ + 1]
       /\ lastOrigin' = [lastOrigin EXCEPT ![today] = origin[ParentOf(a)]]
  /\ attempt' = [attempt EXCEPT ![a].pc = "stamp", ![a].late = FALSE, ![a].since = 0]
  /\ UNCHANGED <<jobVars, lock, last, dedupe, day, worker, faults, course>>

(* Faulty variant: the day of the next run is stored.                      *)
StampNextDue(a) ==
  /\ At(a, "stamp")
  /\ last' = day + Interval
  /\ Ends(a, "success", "release")
  /\ UNCHANGED <<jobVars, lock, count, lastOrigin, dedupe, day, worker, faults, course>>

(* mark_last_full_refresh_now. *)
Stamp(a) ==
  /\ At(a, "stamp")
  /\ last' = day
  /\ Ends(a, "success", "release")
  /\ UNCHANGED <<jobVars, lock, count, lastOrigin, dedupe, day, worker, faults, course>>

(* ensure_active raises once the renewal task has failed.                  *)
LeaseLost(a) ==
  /\ attempt[a].lost
  /\ \/ attempt[a].pc \in {"wait", "total", "mark"}
     \/ At(a, "enqueue") /\ BatchStart(attempt[a].next)
  /\ Ends(a, "error", "release")
  /\ UNCHANGED <<jobVars, lockVars, day, worker, faults, course>>

(* Leaving full_refresh_lock: an error of the renewal is raised again.     *)
Outgoing(a) == IF attempt[a].lost THEN "error" ELSE attempt[a].result

Release(a) ==
  /\ At(a, "release")
  /\ lock' = IF lock = a THEN 0 ELSE lock
  /\ Ends(a, Outgoing(a), "finish")
  /\ UNCHANGED <<jobVars, count, lastOrigin, last, dedupe, day, worker, faults, course>>

(* finish_job of the parent.  It frees the dedupe key that the parent      *)
(* holds; an error is reported as a failure.                               *)
Accepted(a) == status[Whole(ParentOf(a))] = "running" /\ claim[ParentOf(a)] = a

FinishParent(a) ==
  /\ At(a, "finish") /\ Accepted(a)
  /\ LET p == ParentOf(a)
         r == attempt[a].result
     IN  /\ status' = [status EXCEPT ![Whole(p)] = IF r = "error" THEN "failed" ELSE r]
         /\ claim' = [claim EXCEPT ![p] = 0]
         /\ dedupe' = IF dedupe = p THEN 0 ELSE dedupe
  /\ attempt' = [attempt EXCEPT ![a] = Keeping(a, "metric")]
  /\ UNCHANGED <<origin, progress, lock, count, lastOrigin, last, day, worker, faults, course>>

(* The task ends: its result is refused, or it has been counted.           *)
TaskEnds(a) ==
  /\ (At(a, "finish") /\ ~Accepted(a)) \/ At(a, "metric")
  /\ attempt' = [attempt EXCEPT ![a] = Gone]
  /\ UNCHANGED <<jobVars, lockVars, day, worker, faults, course>>

-----------------------------------------------------------------------------
(* Leases.                                                                 *)

Beating(j) ==
  \/ \E a \in Attempts : /\ Alive(a) /\ ~attempt[a].mute
                        /\ j = Whole(ParentOf(a)) /\ claim[ParentOf(a)] = a
  \/ \E w \in Workers :
       \/ j \in worker[w].fresh
       \/ worker[w].loop = "manual" /\ worker[w].held = j

(* A claim that waits for the slot of an item, or whose slot is free, does *)
(* not lapse: a Dadata call and its retries take less than                 *)
(* JOB_LEASE_SECONDS.  One that waits for parents only does.               *)
WaitsShortly(j) ==
  \E w \in Workers : /\ worker[w].loop = "slot" /\ worker[w].held = j
                     /\ worker[w].valid
                     /\ worker[w].fresh \cup worker[w].stale # {} \/ Tasks(w) < worker[w].seen

(* Faulty variant: only the jobs of the full refresh are looked at.        *)
LapsedInBackground(j) ==
  j # Manual /\ status[j] = "running" /\ ~Beating(j) /\ ~WaitsShortly(j)

Lapsed(j) == status[j] = "running" /\ ~Beating(j) /\ ~WaitsShortly(j)

(* recover_stale_jobs gives back a running job without heartbeats; whoever *)
(* had claimed it keeps a stale claim.                                     *)
Recover(w) ==
  /\ worker[w].loop = "idle"
  /\ \E j \in Jobs :
       /\ Lapsed(j)
       /\ status' = [status EXCEPT ![j] = "queued"]
       /\ claim' = [p \in Parents |-> IF j = Whole(p) THEN 0 ELSE claim[p]]
       /\ worker' = [v \in Workers |->
            [worker[v] EXCEPT !.valid = @ /\ worker[v].held # j]]
  /\ UNCHANGED <<origin, progress, lockVars, day, attempt, faults, course>>

(* The lock's TTL passes after its holder has gone without releasing it.   *)
LockLapses ==
  /\ lock # 0 /\ ~Alive(lock)
  /\ lock' = 0
  /\ UNCHANGED <<jobVars, count, lastOrigin, last, dedupe, day, attempt, worker, faults, course>>

-----------------------------------------------------------------------------
(* Faults.                                                                 *)

(* A worker dies and is started again.                                     *)
Crash(w) ==
  /\ Tasks(w) > 0 \/ worker[w].loop # "idle"
  /\ Fault
  /\ worker' = [worker EXCEPT ![w] = Idle]
  /\ attempt' = [a \in Attempts |-> IF a \in Mine(w) THEN Gone ELSE attempt[a]]
  /\ UNCHANGED <<jobVars, lockVars, day, course>>

(* SIGTERM, or an error that ends the loop: every task is cancelled, which *)
(* releases the lock and gives its job back (requeue_job does not look at  *)
(* the claim).  A job waiting for a slot is not in a task and stays as it  *)
(* is.  Then the worker is started again.                                  *)
Given(w) == worker[w].fresh \cup worker[w].stale \cup {Whole(ParentOf(a)) : a \in Mine(w)}
            \cup (IF worker[w].loop = "manual" THEN {Manual} ELSE {})

Stop(w) ==
  /\ Tasks(w) > 0 \/ worker[w].loop # "idle"
  /\ Fault
  /\ status' = [j \in Jobs |-> IF j \in Given(w) THEN "queued" ELSE status[j]]
  /\ claim' = [p \in Parents |-> IF Whole(p) \in Given(w) THEN 0 ELSE claim[p]]
  /\ course' = [p \in Parents |->
       IF \E g \in Group : <<p, g>> \in Given(w) /\ status[<<p, g>>] \in Outcomes
       THEN "disturbed" ELSE course[p]]
  /\ lock' = IF lock \in Mine(w) THEN 0 ELSE lock
  /\ attempt' = [a \in Attempts |-> IF a \in Mine(w) THEN Gone ELSE attempt[a]]
  /\ worker' = [v \in Workers |->
       IF v = w THEN Idle
       ELSE [worker[v] EXCEPT !.fresh = @ \ Given(w),
                              !.stale = @ \cup (worker[v].fresh \cap Given(w)),
                              !.valid = @ /\ worker[v].held \notin Given(w)]]
  /\ UNCHANGED <<origin, progress, count, lastOrigin, last, dedupe, day>>

(* The renewal of the lock fails, and its task with it.                    *)
RenewalFails(a) ==
  /\ attempt[a].pc \in Holding /\ ~attempt[a].lost
  /\ Fault
  /\ attempt' = [attempt EXCEPT ![a].lost = TRUE]
  /\ UNCHANGED <<jobVars, lockVars, day, worker, course>>

(* One heartbeat fails: _heartbeat_loop ends, and nobody looks at it until *)
(* the job is over.                                                        *)
HeartbeatDies(a) ==
  /\ Alive(a) /\ claim[ParentOf(a)] = a /\ ~attempt[a].mute
  /\ Fault
  /\ attempt' = [attempt EXCEPT ![a].mute = TRUE]
  /\ UNCHANGED <<jobVars, lockVars, day, worker, course>>

(* Any other command of an attempt fails: the error is reported, also when *)
(* it is the report of a result that fails.  One while releasing the lock  *)
(* or while reporting an error is suppressed.                              *)
CommandFails(a) ==
  /\ Fault
  /\ \/ attempt[a].pc \in Holding \ {"release"} /\ Ends(a, "error", "release")
     \/ At(a, "lock") /\ Ends(a, "error", "finish")
     \/ At(a, "release") /\ Ends(a, Outgoing(a), "finish")
     \/ At(a, "finish") /\ attempt[a].result # "error" /\ Ends(a, "error", "finish")
     \/ At(a, "finish") /\ attempt[a].result = "error" /\ attempt' = [attempt EXCEPT ![a] = Gone]
  /\ UNCHANGED <<jobVars, lockVars, day, worker, course>>

(* Redis answers neither report of an item: its job stays as it is.        *)
ItemUnreported(w) ==
  /\ Fault
  /\ \E j \in worker[w].fresh : worker' = Spent(w, j)
  /\ UNCHANGED <<jobVars, lockVars, day, attempt, course>>

Midnight ==
  /\ day < MaxDay
  /\ day' = day + 1
  /\ UNCHANGED <<jobVars, lockVars, attempt, worker, faults, course>>

-----------------------------------------------------------------------------
AttemptStep(a) ==
  \/ Acquire(a) \/ Skip(a) \/ Plan(a) \/ InitializeProgress(a) \/ Enqueue(a) \/ Wait(a)
  \/ Total(a) \/ Mark(a) \/ Stamp(a) \/ LeaseLost(a) \/ Release(a)
  \/ FinishParent(a) \/ TaskEnds(a)

Next ==
  \/ \E p \in Parents : Submit(p, "manual")
  \/ UserAsks
  \/ \E w \in Workers :
       \/ InitializeSchedule(w) \/ ScheduledRefresh(w)
       \/ ClaimManual(w) \/ ManualEnds(w) \/ LoopGoesOn(w)
       \/ ClaimParent(w) \/ ClaimItem(w) \/ SlotFree(w)
       \/ ItemEnds(w) \/ StaleEnds(w) \/ ItemUnreported(w)
       \/ Recover(w) \/ Crash(w) \/ Stop(w)
  \/ \E a \in Attempts :
       AttemptStep(a) \/ RenewalFails(a) \/ HeartbeatDies(a) \/ CommandFails(a)
  \/ LockLapses \/ Midnight

Spec == Init /\ [][Next]_vars

(* A running task goes on (Dadata calls have timeouts, polls are repeated) *)
(* and an idle loop comes back to the streams and, every minute, to the    *)
(* leases.  Requests, the passing of days and faults are never owed.       *)
Fairness ==
  /\ \A a \in Attempts : WF_vars(AttemptStep(a))
  /\ \A w \in Workers :
       /\ WF_vars(ManualEnds(w)) /\ WF_vars(LoopGoesOn(w)) /\ WF_vars(SlotFree(w))
       /\ WF_vars(ItemEnds(w)) /\ WF_vars(StaleEnds(w))
  /\ SF_vars(\E w \in Workers : ClaimManual(w))
  /\ SF_vars(\E w \in Workers : ClaimParent(w))
  /\ SF_vars(\E w \in Workers : ClaimItem(w))
  /\ SF_vars(\E w \in Workers : Recover(w))
  /\ WF_vars(LockLapses)

FairSpec == Spec /\ Fairness

-----------------------------------------------------------------------------
(* Properties.                                                             *)

Statuses == Outcomes \cup {"none", "queued", "running"}
Counters == [Outcomes \cup {"processed"} -> Nat]
Results == Outcomes \cup {"error"}
AttemptRec ==
  [pc : Holding \cup {"unused", "lock", "finish", "metric", "gone"}, parent : Parents,
   on : Workers \cup {Nobody}, since : 0..MaxDay, late : BOOLEAN, next : 1..N+1,
   lost : BOOLEAN, mute : BOOLEAN, result : Results]
WorkerRec ==
  [loop : {"idle", "manual", "slot"}, held : Jobs \cup {NoJob}, valid : BOOLEAN,
   seen : Nat, fresh : SUBSET Items, stale : SUBSET Items]

Enqueueing == {"unused", "lock", "plan", "init", "enqueue"}

JobsTyped == /\ status \in [Jobs -> Statuses]
             /\ origin \in [Parents -> {"manual", "scheduled"}]
             /\ claim \in [Parents -> Attempts \cup {0}]
ProgressTyped == /\ progress \in [Parents -> Counters]
                 /\ course \in [Parents -> {"none", "first", "again", "disturbed"}]
LockTyped == /\ lock \in Attempts \cup {0}
             /\ count \in [0..MaxDay -> Nat]
             /\ lastOrigin \in [0..MaxDay -> {"none", "manual", "scheduled"}]
             /\ day \in 0..MaxDay /\ last \in -1..day
             /\ dedupe \in Parents \cup {0}
AttemptsTyped == /\ attempt \in [Attempts -> AttemptRec]
                 /\ \A a \in Attempts : attempt[a].pc \in Enqueueing => attempt[a].next \in Group
WorkersTyped == /\ worker \in [Workers -> WorkerRec]
                /\ \A w \in Workers : worker[w].loop = "slot" => worker[w].held \in Items
FaultsTyped == faults \in 0..MaxFaults

(* Every variable has its type, no stamp is in the future, only an item    *)
(* waits for a slot, and a batch ends before the groups do.                *)
TypeOK == /\ JobsTyped /\ ProgressTyped /\ LockTyped
          /\ AttemptsTyped /\ WorkersTyped /\ FaultsTyped

(* full_refresh_lock: whoever is inside it holds the lock, so no two full  *)
(* refreshes run at once, whatever crashes, stops or fails.                *)
OneRunAtATime == \A a \in Attempts : attempt[a].pc \in Holding => lock = a

(* README, "one successful full run a day": the day's counter goes past    *)
(* the limit only where the settings let a manual run follow a scheduled   *)
(* one, and only once for each scheduled run; or where a run asked for the *)
(* lock with the keys of a day that ended before the script was run, while *)
(* another run was still counted for the day that began.                   *)
DayLimitKept ==
  [][\A d \in 0..MaxDay :
       count'[d] > count[d] /\ count[d] >= DailyLimit =>
         \/ /\ ManualAfterScheduled
            /\ lastOrigin[d] = "scheduled" /\ lastOrigin'[d] = "manual"
         \/ \E a \in Attempts : lock = a /\ attempt[a].late]_vars

AllRefreshed(p) == \A g \in Group : status[<<p, g>>] \in {"success", "skipped"}

(* README, "a full run with errors is not successful": when a run is about *)
(* to be recorded as done, the last job of every group has succeeded.      *)
(* An item given back by a stop though it had ended is counted twice;      *)
(* nothing is said of its parent.                                          *)
Cleanly(p) == course[p] # "disturbed" => AllRefreshed(p)

CompletedIsClean ==
  \A a \in Attempts : attempt[a].pc \in {"mark", "stamp"} => Cleanly(ParentOf(a))

(* The same for a parent job whose progress has been initialized once.     *)
FirstRunIsClean ==
  \A a \in Attempts : attempt[a].pc \in {"mark", "stamp"}
                          /\ course[ParentOf(a)] = "first" => AllRefreshed(ParentOf(a))

(* Every accepted full refresh ends with some verdict.                     *)
ParentSettles == \A p \in Parents : Active(Whole(p)) ~> ~Active(Whole(p))

(* README, "one worker also works correctly: manual jobs keep priority     *)
(* over a full run": the job a user asked for gets a verdict in the end.   *)
ManualServed == status[Manual] = "queued" ~> status[Manual] \in Outcomes
=============================================================================
