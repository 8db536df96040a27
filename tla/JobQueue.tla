------------------------------ MODULE JobQueue ------------------------------
(***************************************************************************)
(* The Dadata job queue: services/dadata/runtime.py (job records, streams, *)
(* leases, scheduled retries) together with the line of control of         *)
(* scripts/dadata_worker.py that claims and processes one job.             *)
(*                                                                         *)
(* Redis runs a command, a MULTI pipeline or a Lua script atomically, so   *)
(* every action below is one of those, with the Python between it and the  *)
(* next await.  What Python keeps between two of them is in line[w].       *)
(*                                                                         *)
(* An element of Workers is one line of control: the loop of run_worker,   *)
(* or one of the background process_job tasks it starts.  The three        *)
(* priority streams are merged: they differ only in the order in which     *)
(* claim_next_job looks at them.  The five terminal statuses are one,      *)
(* "finished": every script treats them alike.  Job records live for       *)
(* DADATA_JOB_STATUS_TTL_SECONDS, which is taken to outlast the job.       *)
(***************************************************************************)
EXTENDS Naturals, FiniteSets

CONSTANTS
  Jobs,            \* job ids that enqueue_job may issue (uuid4, so never reused)
  Keys,            \* dedupe keys
  Users,           \* users with a manual job quota
  Workers,         \* lines of control that claim and process jobs
  NoJob, NoUser, NoRec,
  MaxActive,       \* DADATA_MAX_ACTIVE_MANUAL_JOBS_PER_USER
  MaxRetries,      \* DADATA_MAX_RETRIES
  MaxCrashes,      \* bound: crashes of a line
  MaxErrors,       \* bound: Redis errors that the code handles
  MaxCancels,      \* bound: graceful stops (SIGTERM) of a line inside process_job
  MaxLateBeats,    \* bound: leases that lapse although their line still runs
  MaxSlowClaims    \* bound: lines stalled for JOB_LEASE_SECONDS inside claim_next_job

ASSUME QuotaAssumption == MaxActive \in Nat /\ MaxRetries \in Nat
ASSUME BoundsAssumption ==
  {MaxCrashes, MaxErrors, MaxCancels, MaxLateBeats, MaxSlowClaims} \subseteq Nat
ASSUME NullAssumption == NoJob \notin Jobs /\ NoUser \notin Users

VARIABLES
  job,         \* dadata:job:<id> : the record, or NoRec
  dedupe,      \* dadata:dedupe:<key> : the open job of a key, or NoJob
  activeUser,  \* dadata:active-user:<id> : ids of the user's unfinished jobs
  ready,       \* stream entries no consumer has read
  pending,     \* stream entries read and not acknowledged
  lastEntry,   \* id of the newest stream entry
  active,      \* dadata:jobs:active : is the job's lease absent, live or lapsed
  scheduled,   \* dadata:jobs:scheduled
  counted,     \* times the job was added to its parent's "processed"
  lastToken,   \* claim tokens issued so far (uuid4: a new one is always fresh)
  line,        \* what each line of control is doing, with its local variables
  used,        \* how much of each bound has been spent
  reopened     \* history: times a finished job was made open again

queueVars == <<ready, pending, lastEntry>>
userVars  == <<dedupe, activeUser>>
vars == <<job, dedupe, activeUser, ready, pending, lastEntry, active, scheduled,
          counted, lastToken, line, used, reopened>>

-----------------------------------------------------------------------------
(* The data.  Token 0 is "claim_token = nil"; entry 0 is an unset          *)
(* stream_entry_id.                                                        *)

JobRec == [status : {"queued", "running", "finished"},
           token  : Nat,
           src    : Nat,
           retry  : Nat,
           subs   : SUBSET Users,
           key    : Keys,
           user   : Users \cup {NoUser}]

ASSUME NoRecAssumption == NoRec \notin JobRec

Pcs == {"loop", "read", "rejected", "claimed", "execute", "metric", "failed",
        "requeue", "save", "push", "promote", "promoteAdd", "recover", "stale"}

(* A line inside process_job: its _heartbeat_loop task is alive. *)
Processing == {"execute", "metric", "failed", "requeue", "save", "push"}

(* Points a line leaves again after one Redis command, with an entry just read. *)
Brief == {"read", "rejected", "claimed", "recover"}

Line == [pc    : Pcs,
         job   : Jobs \cup {NoJob},
         ent   : Nat,
         token : Nat,
         tries : Nat,
         why   : {"none", "delay", "stop"},
         snap  : JobRec \cup {NoRec}]

Idle == [pc |-> "loop", job |-> NoJob, ent |-> 0, token |-> 0, tries |-> 0,
         why |-> "none", snap |-> NoRec]

At(w, p) == line[w].pc = p
JobOf(w) == line[w].job

Open(j) == job[j] # NoRec /\ job[j].status # "finished"
Queued(j) == job[j] # NoRec /\ job[j].status = "queued"
Running(j) == job[j] # NoRec /\ job[j].status = "running"
Finished(j) == job[j] # NoRec /\ job[j].status = "finished"

(* The claim token the line carries is the one in the record. *)
Holds(w) == /\ line[w].pc \in Processing \cup {"claimed"}
            /\ Running(JobOf(w))
            /\ job[JobOf(w)].token = line[w].token

Goto(w, p) == line' = [line EXCEPT ![w].pc = p]
Return(w)  == line' = [line EXCEPT ![w] = Idle]

Spend(b, bound) == used[b] < bound /\ used' = [used EXCEPT ![b] = @ + 1]

XADD(j) == /\ lastEntry' = lastEntry + 1
           /\ ready' = ready \cup {[id |-> lastEntry + 1, job |-> j]}

(* XACK of an entry that is not pending, or of the unset entry 0, does nothing. *)
XACK(id) == pending' = {e \in pending : e.id # id}

-----------------------------------------------------------------------------
Init ==
  /\ job = [j \in Jobs |-> NoRec]
  /\ dedupe = [k \in Keys |-> NoJob]
  /\ activeUser = [u \in Users |-> {}]
  /\ ready = {} /\ pending = {} /\ lastEntry = 0
  /\ active = [j \in Jobs |-> "none"]
  /\ scheduled = {}
  /\ counted = [j \in Jobs |-> 0]
  /\ lastToken = 0
  /\ line = [w \in Workers |-> Idle]
  /\ used = [crash |-> 0, error |-> 0, cancel |-> 0, late |-> 0, slow |-> 0]
  /\ reopened = [j \in Jobs |-> 0]

-----------------------------------------------------------------------------
(* enqueue_job: one Lua script.  A key with an open job takes the          *)
(* requester as a further subscriber of that job.                          *)

Taken(k) == dedupe[k] \in Jobs /\ job[dedupe[k]] # NoRec

(* Faulty variant: an anonymous request is subscribed as well. *)
AttachAnyone(k, u) ==
  /\ Taken(k)
  /\ job' = [job EXCEPT ![dedupe[k]].subs = @ \cup {u}]
  /\ UNCHANGED <<userVars, queueVars, active, scheduled, counted, lastToken,
                 line, used, reopened>>

Attach(k, u) ==
  /\ Taken(k)
  /\ job' = [job EXCEPT ![dedupe[k]].subs = @ \cup ({u} \ {NoUser})]
  /\ UNCHANGED <<userVars, queueVars, active, scheduled, counted, lastToken,
                 line, used, reopened>>

WithinQuota(u) == u \in Users => Cardinality(activeUser[u]) < MaxActive

Create(j, k, u) ==
  /\ job[j] = NoRec
  /\ ~Taken(k)
  /\ WithinQuota(u)
  /\ job' = [job EXCEPT ![j] =
               [status |-> "queued", token |-> 0, src |-> 0, retry |-> 0,
                subs |-> {u} \ {NoUser}, key |-> k, user |-> u]]
  /\ dedupe' = [dedupe EXCEPT ![k] = j]
  /\ XADD(j)
  /\ activeUser' = IF u = NoUser THEN activeUser
                   ELSE [activeUser EXCEPT ![u] = @ \cup {j}]
  /\ UNCHANGED <<pending, active, scheduled, counted, lastToken, line, used, reopened>>

-----------------------------------------------------------------------------
(* claim_next_job: XREADGROUP, the claim script, then _save_job of the     *)
(* record the script returned.  The record is read back by nobody in       *)
(* between: the save overwrites whatever it has become.                    *)

Deliver(w) ==
  /\ At(w, "loop")
  /\ \E e \in ready :
       /\ ready' = ready \ {e}
       /\ pending' = pending \cup {e}
       /\ line' = [line EXCEPT ![w].pc = "read", ![w].ent = e.id, ![w].job = e.job]
  /\ UNCHANGED <<job, userVars, lastEntry, active, scheduled, counted, lastToken,
                 used, reopened>>

(* Faulty variant: every claim issues the same token. *)
ClaimSameToken(w) ==
  /\ At(w, "read")
  /\ Queued(JobOf(w))
  /\ LET j == JobOf(w)
         claimed == [job[j] EXCEPT !.status = "running", !.token = 1]
     IN  /\ job' = [job EXCEPT ![j] = claimed]
         /\ active' = [active EXCEPT ![j] = "live"]
         /\ line' = [line EXCEPT ![w].pc = "claimed", ![w].token = 1,
                                 ![w].tries = job[j].retry,
                                 ![w].snap = [claimed EXCEPT !.src = line[w].ent]]
  /\ UNCHANGED <<userVars, queueVars, scheduled, counted, lastToken, used, reopened>>

Claim(w) ==
  /\ At(w, "read")
  /\ Queued(JobOf(w))
  /\ LET j == JobOf(w)
         claimed == [job[j] EXCEPT !.status = "running", !.token = lastToken + 1]
     IN  /\ job' = [job EXCEPT ![j] = claimed]
         /\ active' = [active EXCEPT ![j] = "live"]
         /\ lastToken' = lastToken + 1
         /\ line' = [line EXCEPT ![w].pc = "claimed",
                                 ![w].token = lastToken + 1,
                                 ![w].tries = job[j].retry,
                                 ![w].snap = [claimed EXCEPT !.src = line[w].ent]]
  /\ UNCHANGED <<userVars, queueVars, scheduled, counted, used, reopened>>

ClaimRefused(w) ==
  /\ At(w, "read")
  /\ ~Queued(JobOf(w))
  /\ Goto(w, "rejected")
  /\ UNCHANGED <<job, userVars, queueVars, active, scheduled, counted, lastToken,
                 used, reopened>>

AckRefused(w) ==
  /\ At(w, "rejected")
  /\ XACK(line[w].ent)
  /\ Return(w)
  /\ UNCHANGED <<job, userVars, ready, lastEntry, active, scheduled, counted,
                 lastToken, used, reopened>>

Reopens(j, rec) == IF Finished(j) /\ rec.status # "finished" THEN 1 ELSE 0

(* _save_job: SET without looking at the stored record. *)
SaveJob(j, rec) ==
  /\ job' = [job EXCEPT ![j] = rec]
  /\ reopened' = [reopened EXCEPT ![j] = @ + Reopens(j, rec)]

SaveClaim(w) ==
  /\ At(w, "claimed")
  /\ SaveJob(JobOf(w), line[w].snap)
  /\ line' = [line EXCEPT ![w].pc = "execute", ![w].snap = NoRec]
  /\ UNCHANGED <<userVars, queueVars, active, scheduled, counted, lastToken, used>>

-----------------------------------------------------------------------------
(* heartbeat_job, and the passing of JOB_LEASE_SECONDS.                    *)

Heartbeat(w) ==
  /\ line[w].pc \in Processing
  /\ Running(JobOf(w))
  /\ job[JobOf(w)].token = line[w].token
  /\ active' = [active EXCEPT ![JobOf(w)] = "live"]
  /\ UNCHANGED <<job, userVars, queueVars, scheduled, counted, lastToken, line,
                 used, reopened>>

(* A lease whose line is gone lapses by itself.  One whose line still runs *)
(* lapses only if its heartbeats are late or failing (bounded), or if the  *)
(* line is stalled before process_job has started them (bounded).          *)
HeldAt(j, pcs) == \E w \in Workers : Holds(w) /\ JobOf(w) = j /\ line[w].pc \in pcs

LeaseLapses(j) ==
  /\ active[j] = "live"
  /\ active' = [active EXCEPT ![j] = "lapsed"]
  /\ IF HeldAt(j, Processing) THEN Spend("late", MaxLateBeats)
     ELSE IF HeldAt(j, {"claimed"}) THEN Spend("slow", MaxSlowClaims)
     ELSE UNCHANGED used
  /\ UNCHANGED <<job, userVars, queueVars, scheduled, counted, lastToken, line, reopened>>

-----------------------------------------------------------------------------
(* finish_job: one Lua script, then record_metric.                         *)

(* Faulty variant: a result is taken from whoever brings one. *)
FinishUnchecked(w) == job[JobOf(w)] # NoRec

FinishAccepted(w) == Running(JobOf(w)) /\ job[JobOf(w)].token = line[w].token

Finish(w) ==
  /\ At(w, "execute") \/ At(w, "failed")
  /\ FinishAccepted(w)
  /\ LET j == JobOf(w)
         r == job[j]
     IN  /\ job' = [job EXCEPT ![j].status = "finished", ![j].token = 0]
         /\ active' = [active EXCEPT ![j] = "none"]
         /\ XACK(r.src)
         /\ counted' = [counted EXCEPT ![j] = @ + 1]
         /\ activeUser' = IF r.user = NoUser THEN activeUser
                          ELSE [activeUser EXCEPT ![r.user] = @ \ {j}]
         /\ dedupe' = IF dedupe[r.key] = j THEN [dedupe EXCEPT ![r.key] = NoJob]
                      ELSE dedupe
  /\ IF At(w, "execute") THEN Goto(w, "metric") ELSE Return(w)
  /\ UNCHANGED <<ready, lastEntry, scheduled, lastToken, used, reopened>>

FinishRefused(w) ==
  /\ At(w, "execute") \/ At(w, "failed")
  /\ ~FinishAccepted(w)
  /\ Return(w)
  /\ UNCHANGED <<job, userVars, queueVars, active, scheduled, counted, lastToken,
                 used, reopened>>

MetricRecorded(w) ==
  /\ At(w, "metric")
  /\ Return(w)
  /\ UNCHANGED <<job, userVars, queueVars, active, scheduled, counted, lastToken,
                 used, reopened>>

-----------------------------------------------------------------------------
(* requeue_job: get_job, _save_job, then the pipeline.  process_job calls  *)
(* it when Dadata is rate limiting ("delay") and when it is cancelled      *)
(* ("stop").  None of its three steps looks at the claim token.            *)

RateLimited(w) ==
  /\ At(w, "execute")
  /\ line[w].tries < MaxRetries
  /\ line' = [line EXCEPT ![w].pc = "requeue", ![w].why = "delay"]
  /\ UNCHANGED <<job, userVars, queueVars, active, scheduled, counted, lastToken,
                 used, reopened>>

RequeueRead(w) ==
  /\ At(w, "requeue")
  /\ LET r == job[JobOf(w)]
     IN  line' = [line EXCEPT
                    ![w].pc = "save",
                    ![w].snap = [r EXCEPT
                       !.status = "queued", !.token = 0,
                       !.retry = IF line[w].why = "delay" THEN line[w].tries + 1 ELSE @]]
  /\ UNCHANGED <<job, userVars, queueVars, active, scheduled, counted, lastToken,
                 used, reopened>>

RequeueSave(w) ==
  /\ At(w, "save")
  /\ SaveJob(JobOf(w), line[w].snap)
  /\ Goto(w, "push")
  /\ UNCHANGED <<userVars, queueVars, active, scheduled, counted, lastToken, used>>

(* Faulty variant: the pipeline forgets the ZADD of a delayed retry. *)
RequeuePushNoDelay(w) ==
  /\ At(w, "push")
  /\ active' = [active EXCEPT ![JobOf(w)] = "none"]
  /\ XACK(line[w].snap.src)
  /\ IF line[w].why = "delay" THEN UNCHANGED <<ready, lastEntry>> ELSE XADD(JobOf(w))
  /\ Return(w)
  /\ UNCHANGED <<job, userVars, counted, scheduled, lastToken, used, reopened>>

RequeuePush(w) ==
  /\ At(w, "push")
  /\ active' = [active EXCEPT ![JobOf(w)] = "none"]
  /\ XACK(line[w].snap.src)
  /\ IF line[w].why = "delay"
     THEN scheduled' = scheduled \cup {JobOf(w)} /\ UNCHANGED <<ready, lastEntry>>
     ELSE XADD(JobOf(w)) /\ UNCHANGED scheduled
  /\ Return(w)
  /\ UNCHANGED <<job, userVars, counted, lastToken, used, reopened>>

-----------------------------------------------------------------------------
(* promote_scheduled_jobs: ZREM, get_job, XADD.                            *)

Promote(w) ==
  /\ At(w, "loop")
  /\ \E j \in scheduled :
       /\ scheduled' = scheduled \ {j}
       /\ line' = [line EXCEPT ![w].pc = "promote", ![w].job = j]
  /\ UNCHANGED <<job, userVars, queueVars, active, counted, lastToken, used, reopened>>

PromoteRead(w) ==
  /\ At(w, "promote")
  /\ IF Queued(JobOf(w)) THEN Goto(w, "promoteAdd") ELSE Return(w)
  /\ UNCHANGED <<job, userVars, queueVars, active, scheduled, counted, lastToken,
                 used, reopened>>

PromoteAdd(w) ==
  /\ At(w, "promoteAdd")
  /\ XADD(JobOf(w))
  /\ Return(w)
  /\ UNCHANGED <<job, userVars, pending, active, scheduled, counted, lastToken,
                 used, reopened>>

-----------------------------------------------------------------------------
(* recover_stale_jobs: XAUTOCLAIM of entries idle for JOB_LEASE_SECONDS,   *)
(* the ids whose lease has lapsed, and _RECOVER_JOB_SCRIPT for each.       *)

(* An entry is idle for that long although its line still runs: the line   *)
(* is stalled (bounded), or its heartbeats have not renewed the lease in   *)
(* that time (bounded), or the job simply takes long.                      *)
StalledOn(e, pcs) ==
  \E v \in Workers : line[v].ent = e.id /\ line[v].pc \in pcs /\ (pcs = Brief \/ Holds(v))

AutoClaim(w) ==
  /\ At(w, "loop")
  /\ \E e \in pending :
       /\ line' = [line EXCEPT ![w].pc = "recover", ![w].ent = e.id, ![w].job = e.job]
       /\ IF StalledOn(e, Brief) THEN Spend("slow", MaxSlowClaims)
          ELSE IF StalledOn(e, Processing) /\ active[e.job] # "live"
          THEN Spend("late", MaxLateBeats)
          ELSE UNCHANGED used
  /\ UNCHANGED <<job, userVars, queueVars, active, scheduled, counted, lastToken, reopened>>

(* Faulty variant: the script ends before its XADD. *)
BackToQueueNoAdd(j, src) ==
  /\ job' = [job EXCEPT ![j].status = "queued", ![j].token = 0, ![j].src = src]
  /\ active' = [active EXCEPT ![j] = "none"]
  /\ XACK(src)
  /\ UNCHANGED <<ready, lastEntry>>

(* Faulty variant: the script leaves the status as it is. *)
BackToQueueRunning(j, src) ==
  /\ job' = [job EXCEPT ![j].token = 0, ![j].src = src]
  /\ active' = [active EXCEPT ![j] = "none"]
  /\ XACK(src)
  /\ XADD(j)

BackToQueue(j, src) ==
  /\ job' = [job EXCEPT ![j].status = "queued", ![j].token = 0, ![j].src = src]
  /\ active' = [active EXCEPT ![j] = "none"]
  /\ XACK(src)
  /\ XADD(j)

(* Faulty variant: recovery does not look at the lease. *)
LeaseIgnored(j) == FALSE

LeaseHeld(j) == Running(j) /\ active[j] = "live"

(* Faulty variant: recovery does not look for a terminal status. *)
RecoverEntryBlind(w) ==
  /\ At(w, "recover")
  /\ IF LeaseHeld(JobOf(w)) THEN UNCHANGED <<job, active, queueVars>>
     ELSE BackToQueue(JobOf(w), line[w].ent)
  /\ Return(w)
  /\ UNCHANGED <<userVars, scheduled, counted, lastToken, used, reopened>>

(* Faulty variant: recovery of an entry skips a job that is not running.   *)
RecoverEntryRunning(w) ==
  /\ At(w, "recover")
  /\ IF LeaseHeld(JobOf(w)) \/ ~Running(JobOf(w)) THEN UNCHANGED <<job, active, queueVars>>
     ELSE BackToQueue(JobOf(w), line[w].ent)
  /\ Return(w)
  /\ UNCHANGED <<userVars, scheduled, counted, lastToken, used, reopened>>

RecoverEntry(w) ==
  /\ At(w, "recover")
  /\ LET j == JobOf(w)
     IN  \/ /\ Finished(j)
            /\ active' = [active EXCEPT ![j] = "none"]
            /\ XACK(line[w].ent)
            /\ UNCHANGED <<job, ready, lastEntry>>
         \/ /\ LeaseHeld(j)
            /\ UNCHANGED <<job, active, queueVars>>
         \/ /\ Open(j) /\ ~LeaseHeld(j)
            /\ BackToQueue(j, line[w].ent)
  /\ Return(w)
  /\ UNCHANGED <<userVars, scheduled, counted, lastToken, used, reopened>>

ReadStale(w) ==
  /\ At(w, "loop")
  /\ \E j \in Jobs : /\ active[j] = "lapsed"
                     /\ line' = [line EXCEPT ![w].pc = "stale", ![w].job = j]
  /\ UNCHANGED <<job, userVars, queueVars, active, scheduled, counted, lastToken,
                 used, reopened>>

RecoverStale(w) ==
  /\ At(w, "stale")
  /\ LET j == JobOf(w)
     IN  \/ /\ ~Running(j)
            /\ active' = [active EXCEPT ![j] = "none"]
            /\ UNCHANGED <<job, queueVars>>
         \/ /\ LeaseHeld(j)
            /\ UNCHANGED <<job, active, queueVars>>
         \/ /\ Running(j) /\ ~LeaseHeld(j)
            /\ BackToQueue(j, job[j].src)
  /\ Return(w)
  /\ UNCHANGED <<userVars, scheduled, counted, lastToken, used, reopened>>

-----------------------------------------------------------------------------
(* Faults.                                                                 *)

(* A line dies, or an error from Redis ends the process: what it kept      *)
(* between two commands is gone.  A worker is restarted.                   *)
Crash(w) ==
  /\ ~At(w, "loop")
  /\ Spend("crash", MaxCrashes)
  /\ Return(w)
  /\ UNCHANGED <<job, userVars, queueVars, active, scheduled, counted, lastToken, reopened>>

(* A Redis error inside the try block of process_job: the job is reported  *)
(* as failed instead (except Exception).  During a stop it is suppressed.  *)
RedisFails(w) ==
  /\ line[w].pc \in {"execute", "requeue", "save", "push"}
  /\ line[w].why # "stop"
  /\ Spend("error", MaxErrors)
  /\ line' = [line EXCEPT ![w].pc = "failed", ![w].why = "none", ![w].snap = NoRec]
  /\ UNCHANGED <<job, userVars, queueVars, active, scheduled, counted, lastToken, reopened>>

(* The XADD of promote_scheduled_jobs fails: back to the scheduled set. *)
PromoteAddFails(w) ==
  /\ At(w, "promoteAdd")
  /\ Spend("error", MaxErrors)
  /\ scheduled' = scheduled \cup {JobOf(w)}
  /\ Return(w)
  /\ UNCHANGED <<job, userVars, queueVars, active, counted, lastToken, reopened>>

(* SIGTERM: CancelledError at whichever await of process_job's try block   *)
(* the line stands at.  At any other await the line just ends, as in Crash. *)
Cancel(w) ==
  /\ line[w].pc \in Processing \ {"failed"}
  /\ line[w].why # "stop"
  /\ Spend("cancel", MaxCancels)
  /\ line' = [line EXCEPT ![w].pc = "requeue", ![w].why = "stop", ![w].snap = NoRec]
  /\ UNCHANGED <<job, userVars, queueVars, active, scheduled, counted, lastToken, reopened>>

-----------------------------------------------------------------------------
Request == \E k \in Keys, u \in Users \cup {NoUser} :
             Attach(k, u) \/ \E j \in Jobs : Create(j, k, u)

(* What a line does once it has something in hand. *)
Step(w) == \/ Claim(w) \/ ClaimRefused(w) \/ AckRefused(w) \/ SaveClaim(w)
           \/ Finish(w) \/ FinishRefused(w) \/ MetricRecorded(w)
           \/ RequeueRead(w) \/ RequeueSave(w) \/ RequeuePush(w)
           \/ PromoteRead(w) \/ PromoteAdd(w)
           \/ RecoverEntry(w) \/ RecoverStale(w)

(* What one pass of run_worker's loop may pick up. *)
PickUp(w) == Deliver(w) \/ Promote(w) \/ AutoClaim(w) \/ ReadStale(w)

Fault(w) == Crash(w) \/ RedisFails(w) \/ PromoteAddFails(w) \/ Cancel(w)

Next == \/ Request
        \/ \E j \in Jobs : LeaseLapses(j)
        \/ \E w \in Workers :
             PickUp(w) \/ Step(w) \/ Heartbeat(w) \/ RateLimited(w) \/ Fault(w)

Spec == Init /\ [][Next]_vars

(* The loop of run_worker visits the streams on every pass and the         *)
(* housekeeping every minute, so what stays to be picked up again and      *)
(* again is picked up; XAUTOCLAIM scans from 0-0, so no entry is passed    *)
(* over for ever.  A step once begun goes on: Dadata calls have timeouts.  *)
(* Requests, rate limits, faults and late heartbeats are never owed.       *)
Fairness ==
  /\ \A w \in Workers : WF_vars(Step(w))
  /\ SF_vars(\E w \in Workers : Deliver(w))
  /\ SF_vars(\E w \in Workers : Promote(w))
  /\ \A j \in Jobs :
       /\ SF_vars(\E w \in Workers : AutoClaim(w) /\ line'[w].job = j)
       /\ SF_vars(\E w \in Workers : ReadStale(w) /\ line'[w].job = j)
       /\ WF_vars(LeaseLapses(j) /\ UNCHANGED used)

FairSpec == Spec /\ Fairness

-----------------------------------------------------------------------------
(* Properties.                                                             *)

(* Every variable has its type; a stream id and a claim token are never    *)
(* ahead of the counter that issues them; only known users are subscribed. *)
TypeOK ==
  /\ job \in [Jobs -> JobRec \cup {NoRec}]
  /\ dedupe \in [Keys -> Jobs \cup {NoJob}]
  /\ activeUser \in [Users -> SUBSET Jobs]
  /\ lastEntry \in Nat /\ lastToken \in Nat
  /\ ready \cup pending \subseteq [id : 1..lastEntry, job : Jobs]
  /\ active \in [Jobs -> {"none", "live", "lapsed"}]
  /\ scheduled \subseteq Jobs
  /\ counted \in [Jobs -> Nat]
  /\ line \in [Workers -> Line]
  /\ used \in [{"crash", "error", "cancel", "late", "slow"} -> Nat]
  /\ reopened \in [Jobs -> Nat]

(* claim_token: at any moment at most one line of control carries the      *)
(* token of a running job, so at most one of the competing attempts can    *)
(* renew its lease or set its result.                                      *)
TokenExclusive ==
  \A v, w \in Workers : Holds(v) /\ Holds(w) /\ JobOf(v) = JobOf(w) => v = w

(* While heartbeats are in time no job is executed by two lines at once,   *)
(* whatever crashed before: claim, heartbeat and recovery agree on who     *)
(* holds the lease.                                                        *)
NoDoubleExecution ==
  used.late = 0 =>
    \A v, w \in Workers :
      At(v, "execute") /\ At(w, "execute") /\ JobOf(v) = JobOf(w) => v = w

(* A queued job can still reach a worker: a stream entry of it is unread,  *)
(* or unacknowledged and not about to be acknowledged by a refused claim,  *)
(* or it is scheduled, or a line is on its way to put it back.             *)
NoLostJob ==
  \A j \in Jobs : Queued(j) =>
    \/ j \in scheduled
    \/ \E e \in ready : e.job = j
    \/ \E e \in pending :
         e.job = j /\ ~\E w \in Workers : At(w, "rejected") /\ line[w].ent = e.id
    \/ \E w \in Workers :
         /\ JobOf(w) = j
         /\ \/ line[w].pc \in {"push", "promote", "promoteAdd"}
            \/ line[w].why = "stop"

(* A running job whose worker dies can be found again: it is in the active *)
(* set, or it has an unacknowledged stream entry.                          *)
RunningRecoverable ==
  \A j \in Jobs : Running(j) => active[j] # "none" \/ \E e \in pending : e.job = j

(* finish_job adds a job to its parent's progress once for every time the  *)
(* job becomes finished: the only double counting there is comes from      *)
(* _save_job making a finished job open again.                             *)
CountedPerFinish ==
  \A j \in Jobs : counted[j] = reopened[j] + (IF Finished(j) THEN 1 ELSE 0)

(* Every job that enqueue_job accepts is finished in the end.              *)
EveryJobFinishes == \A j \in Jobs : Open(j) ~> Finished(j)

-----------------------------------------------------------------------------
(* What the queue promises, as an abstract specification.                  *)

Lifecycle == INSTANCE JobLifecycle WITH
  phase <- [j \in Jobs |-> IF job[j] = NoRec THEN "absent" ELSE job[j].status],
  key   <- [j \in Jobs |-> IF job[j] = NoRec THEN NoJob ELSE job[j].key],
  user  <- [j \in Jobs |-> IF job[j] = NoRec THEN NoUser ELSE job[j].user],
  processed <- counted,
  NoKey <- NoJob

(* The queue implements JobLifecycle.                                      *)
ImplementsLifecycle == Lifecycle!Spec
=============================================================================
