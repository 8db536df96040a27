--------------------------- MODULE JobQueueProofs ---------------------------
(***************************************************************************)
(* Proofs about JobQueue, for any sets and any bounds.                     *)
(***************************************************************************)
EXTENDS JobQueue, TLAPS

(* Every job something still refers to has a record: no key expires and no *)
(* script removes one.                                                     *)
Known ==
  /\ \A e \in ready \cup pending : job[e.job] # NoRec
  /\ \A j \in scheduled : job[j] # NoRec
  /\ \A j \in Jobs : active[j] # "none" => job[j] # NoRec

(* What a line carries suits the point it stands at.                       *)
LineOK(l) ==
  /\ l \in Line
  /\ l.pc # "loop" => l.job \in Jobs /\ job[l.job] # NoRec
  /\ l.pc \in {"claimed", "save", "push"} => l.snap \in JobRec /\ l.snap.status # "finished"
  /\ l.pc \in Processing \cup {"claimed"} => l.token # 0

LinesOK == \A w \in Workers : LineOK(line[w])

(* A token is never issued twice.                                          *)
TokensDistinct ==
  /\ \A w \in Workers : line[w].token <= lastToken
  /\ \A v, w \in Workers : line[v].token = line[w].token /\ v # w => line[v].token = 0

IInv == TypeOK /\ Known /\ LinesOK /\ TokensDistinct /\ CountedPerFinish

LEMMA InitIInv == Init => IInv
  BY QuotaAssumption, NullAssumption, NoRecAssumption
  DEF Init, IInv, TypeOK, Known, LinesOK, LineOK, TokensDistinct, CountedPerFinish, Idle,
      Line, Pcs, Processing, Finished

-----------------------------------------------------------------------------
(* Steps of one line, whatever they do to the rest.                        *)

LEMMA IdleOK == LineOK(Idle) /\ Idle.token = 0
  BY DEF LineOK, Idle, Line, Pcs, Processing

(* No record is ever taken away, so what was fine stays fine.              *)
RecordsStay == \A j \in Jobs : job[j] # NoRec => job'[j] # NoRec

LEMMA LinesStay ==
  ASSUME IInv, RecordsStay, UNCHANGED <<line, lastToken>>
  PROVE  line' \in [Workers -> Line] /\ LinesOK' /\ TokensDistinct'
  BY DEF IInv, TypeOK, RecordsStay, LinesOK, LineOK, TokensDistinct

LEMMA LineReplaced ==
  ASSUME IInv, RecordsStay, NEW w \in Workers, NEW l, LineOK(l)', line' = [line EXCEPT ![w] = l]
  PROVE  line' \in [Workers -> Line] /\ LinesOK'
<1>1. line' \in [Workers -> Line]
  BY DEF IInv, TypeOK, LineOK
<1>2. LinesOK'
  BY DEF IInv, TypeOK, RecordsStay, LinesOK, LineOK
<1> QED BY <1>1, <1>2

LEMMA LineMoves ==
  ASSUME IInv, RecordsStay, NEW w \in Workers, NEW l,
         LineOK(l)', l.token \in {0, line[w].token},
         line' = [line EXCEPT ![w] = l], UNCHANGED lastToken
  PROVE  line' \in [Workers -> Line] /\ LinesOK' /\ TokensDistinct'
<1>1. line' \in [Workers -> Line] /\ LinesOK'
  BY LineReplaced
<1>2. TokensDistinct'
  BY DEF IInv, TypeOK, LineOK, Line, TokensDistinct
<1> QED BY <1>1, <1>2

(* A step that only moves a line.                                          *)
LEMMA OnlyLine ==
  ASSUME IInv, NEW w \in Workers, NEW l, LineOK(l), l.token \in {0, line[w].token},
         line' = [line EXCEPT ![w] = l],
         used' \in [{"crash", "error", "cancel", "late", "slow"} -> Nat],
         UNCHANGED <<job, dedupe, activeUser, ready, pending, lastEntry, active,
                     scheduled, counted, lastToken, reopened>>
  PROVE  IInv'
<1>1. RecordsStay
  BY DEF RecordsStay
<1>2. LineOK(l)'
  BY DEF LineOK
<1>3. line' \in [Workers -> Line] /\ LinesOK' /\ TokensDistinct'
  BY <1>1, <1>2, LineMoves
<1>4. TypeOK'
  BY <1>3 DEF IInv, TypeOK
<1>5. Known' /\ CountedPerFinish'
  BY DEF IInv, Known, CountedPerFinish, Finished
<1> QED BY <1>3, <1>4, <1>5 DEF IInv

LEMMA SpendType ==
  ASSUME IInv, NEW b \in {"crash", "error", "cancel", "late", "slow"}, NEW bound,
         Spend(b, bound)
  PROVE  used' \in [{"crash", "error", "cancel", "late", "slow"} -> Nat]
  BY DEF IInv, TypeOK, Spend

LEMMA ClaimIInv == ASSUME IInv, NEW w \in Workers, Claim(w) PROVE IInv'
<1> DEFINE j == JobOf(w)
<1>1. j \in Jobs /\ job[j] \in JobRec /\ job[j].status = "queued" /\ line[w] \in Line
  BY DEF IInv, TypeOK, LinesOK, LineOK, Claim, At, Queued, JobOf
<1>2. PICK t : t = lastToken + 1
  OBVIOUS
<1>3. t \in Nat /\ t # 0 /\ lastToken \in Nat /\ t > lastToken
  BY <1>2 DEF IInv, TypeOK
<1>4. PICK rec : rec = [job[j] EXCEPT !.status = "running", !.token = t]
  OBVIOUS
<1>5. PICK snap : snap = [rec EXCEPT !.src = line[w].ent]
  OBVIOUS
<1>6. PICK l : l = [line[w] EXCEPT !.pc = "claimed", !.token = t, !.tries = job[j].retry,
                                  !.snap = snap]
  OBVIOUS
<1>7. /\ job' = [job EXCEPT ![j] = rec] /\ active' = [active EXCEPT ![j] = "live"]
      /\ lastToken' = t /\ line' = [line EXCEPT ![w] = l]
      /\ UNCHANGED <<userVars, queueVars, scheduled, counted, used, reopened>>
  BY <1>2, <1>4, <1>5, <1>6 DEF Claim, IInv, TypeOK, JobOf
<1>8. rec \in JobRec /\ rec.status = "running"
  BY <1>1, <1>3, <1>4 DEF JobRec
<1>9. snap \in JobRec /\ snap.status = "running"
  BY <1>1, <1>5, <1>8 DEF JobRec, Line
<1>10. job[j].retry \in Nat
  BY <1>1 DEF JobRec
<1>11. /\ l \in Line /\ l.pc = "claimed" /\ l.token = t /\ l.job = j
       /\ l.snap = snap
  BY <1>1, <1>3, <1>6, <1>9, <1>10 DEF Line, Pcs, JobOf
<1> HIDE DEF j
<1>12. RecordsStay /\ job'[j] # NoRec
  BY <1>1, <1>7, <1>8, NoRecAssumption DEF IInv, TypeOK, RecordsStay
<1>13. LineOK(l)'
  BY <1>1, <1>3, <1>9, <1>11, <1>12 DEF LineOK
<1>14. line' \in [Workers -> Line] /\ LinesOK'
  BY <1>7, <1>12, <1>13, LineReplaced
<1>15. TypeOK'
  BY <1>1, <1>3, <1>7, <1>8, <1>14 DEF IInv, TypeOK, queueVars, userVars
<1>16. Known'
  BY <1>1, <1>7, <1>12 DEF IInv, TypeOK, Known, RecordsStay, queueVars
<1>17. TokensDistinct'
  BY <1>3, <1>7, <1>11 DEF IInv, TypeOK, TokensDistinct, Line
<1>18. CountedPerFinish'
  BY <1>1, <1>7, <1>8, NoRecAssumption DEF IInv, TypeOK, CountedPerFinish, Finished
<1> QED BY <1>14, <1>15, <1>16, <1>17, <1>18 DEF IInv

LEMMA LineFacts == ASSUME IInv, NEW w \in Workers PROVE line[w] \in Line /\ LineOK(line[w])
  BY DEF IInv, TypeOK, LinesOK

-----------------------------------------------------------------------------
(* Steps that only move a line.                                            *)

LEMMA ReturnIInv ==
  ASSUME IInv, NEW w \in Workers, Return(w),
         used' \in [{"crash", "error", "cancel", "late", "slow"} -> Nat],
         UNCHANGED <<job, dedupe, activeUser, ready, pending, lastEntry, active,
                     scheduled, counted, lastToken, reopened>>
  PROVE  IInv'
  BY IdleOK, OnlyLine DEF Return

LEMMA QuietIInv ==
  ASSUME IInv, NEW w \in Workers,
         \/ ClaimRefused(w) \/ FinishRefused(w) \/ MetricRecorded(w) \/ RateLimited(w)
         \/ PromoteRead(w) \/ Crash(w) \/ RedisFails(w) \/ Cancel(w)
  PROVE  IInv'
<1>1. used' \in [{"crash", "error", "cancel", "late", "slow"} -> Nat]
  BY SpendType DEF IInv, TypeOK, ClaimRefused, FinishRefused, MetricRecorded, RateLimited,
                   PromoteRead, Crash, RedisFails, Cancel
<1>2. UNCHANGED <<job, dedupe, activeUser, ready, pending, lastEntry, active,
                  scheduled, counted, lastToken, reopened>>
  BY DEF ClaimRefused, FinishRefused, MetricRecorded, RateLimited, PromoteRead, Crash,
         RedisFails, Cancel, userVars, queueVars
<1>3. CASE Return(w)
  BY <1>1, <1>2, <1>3, ReturnIInv
<1>4. CASE ~Return(w)
  <2>1. PICK l : l = line'[w]
    OBVIOUS
  <2>2. /\ line' = [line EXCEPT ![w] = l]
        /\ l.token = line[w].token
        /\ LineOK(l)
    <3>1. CASE ClaimRefused(w)
      <4>1. l = [line[w] EXCEPT !.pc = "rejected"] /\ line' = [line EXCEPT ![w] = l]
        BY <2>1, <3>1 DEF ClaimRefused, Goto, IInv, TypeOK
      <4>2. line[w].pc = "read"
        BY <3>1 DEF ClaimRefused, At
      <4> QED BY <4>1, <4>2, LineFacts DEF LineOK, Line, Pcs, Processing
    <3>2. CASE RateLimited(w)
      <4>1. l = [line[w] EXCEPT !.pc = "requeue", !.why = "delay"]
            /\ line' = [line EXCEPT ![w] = l]
        BY <2>1, <3>2 DEF RateLimited, IInv, TypeOK
      <4>2. line[w].pc \in Processing
        BY <3>2 DEF RateLimited, At, Processing
      <4> QED BY <4>1, <4>2, LineFacts DEF LineOK, Line, Pcs, Processing
    <3>3. CASE PromoteRead(w)
      <4>1. l = [line[w] EXCEPT !.pc = "promoteAdd"] /\ line' = [line EXCEPT ![w] = l]
        BY <1>4, <2>1, <3>3 DEF PromoteRead, Goto, IInv, TypeOK
      <4>2. line[w].pc = "promote"
        BY <3>3 DEF PromoteRead, At
      <4> QED BY <4>1, <4>2, LineFacts DEF LineOK, Line, Pcs, Processing
    <3>4. CASE RedisFails(w)
      <4>1. l = [line[w] EXCEPT !.pc = "failed", !.why = "none", !.snap = NoRec]
            /\ line' = [line EXCEPT ![w] = l]
        BY <2>1, <3>4 DEF RedisFails, IInv, TypeOK
      <4>2. line[w].pc \in Processing
        BY <3>4 DEF RedisFails, At, Processing
      <4> QED BY <4>1, <4>2, LineFacts DEF LineOK, Line, Pcs, Processing
    <3>5. CASE Cancel(w)
      <4>1. l = [line[w] EXCEPT !.pc = "requeue", !.why = "stop", !.snap = NoRec]
            /\ line' = [line EXCEPT ![w] = l]
        BY <2>1, <3>5 DEF Cancel, IInv, TypeOK
      <4>2. line[w].pc \in Processing
        BY <3>5 DEF Cancel, At, Processing
      <4> QED BY <4>1, <4>2, LineFacts DEF LineOK, Line, Pcs, Processing
    <3> QED BY <1>4, <3>1, <3>2, <3>3, <3>4, <3>5 DEF FinishRefused, MetricRecorded, Crash
  <2> QED BY <1>1, <1>2, <2>2, OnlyLine
<1> QED BY <1>3, <1>4

LEMMA RequeueReadIInv == ASSUME IInv, NEW w \in Workers, RequeueRead(w) PROVE IInv'
<1>1. line[w] \in Line /\ LineOK(line[w]) /\ line[w].pc = "requeue"
  BY LineFacts DEF RequeueRead, At
<1>2. PICK r : r = job[line[w].job]
  OBVIOUS
<1>3. r \in JobRec
  BY <1>1, <1>2 DEF LineOK, IInv, TypeOK
<1>4. PICK n : n = IF line[w].why = "delay" THEN line[w].tries + 1 ELSE r.retry
  OBVIOUS
<1>5. n \in Nat
  BY <1>1, <1>3, <1>4 DEF Line, JobRec
<1>6. PICK snap : snap = [r EXCEPT !.status = "queued", !.token = 0, !.retry = n]
  OBVIOUS
<1>7. snap \in JobRec /\ snap.status = "queued"
  BY <1>3, <1>5, <1>6 DEF JobRec
<1>8. PICK l : l = [line[w] EXCEPT !.pc = "save", !.snap = snap]
  OBVIOUS
<1>9. line' = [line EXCEPT ![w] = l]
  BY <1>2, <1>4, <1>6, <1>8 DEF RequeueRead, JobOf, IInv, TypeOK
<1>10. LineOK(l) /\ l.token = line[w].token
  BY <1>1, <1>7, <1>8 DEF LineOK, Line, Pcs, Processing
<1> QED BY <1>9, <1>10, OnlyLine DEF RequeueRead, IInv, TypeOK, userVars, queueVars

LEMMA ReadStaleIInv == ASSUME IInv, NEW w \in Workers, ReadStale(w) PROVE IInv'
<1>1. line[w] \in Line /\ LineOK(line[w])
  BY LineFacts
<1>2. PICK j \in Jobs : active[j] = "lapsed" /\ line' = [line EXCEPT ![w].pc = "stale", ![w].job = j]
  BY DEF ReadStale
<1>3. PICK l : l = [line[w] EXCEPT !.pc = "stale", !.job = j]
  OBVIOUS
<1>4. line' = [line EXCEPT ![w] = l]
  BY <1>2, <1>3 DEF IInv, TypeOK
<1>5. job[j] # NoRec
  BY <1>2 DEF IInv, Known
<1>6. LineOK(l) /\ l.token = line[w].token
  BY <1>1, <1>3, <1>5 DEF LineOK, Line, Pcs, Processing
<1> QED BY <1>4, <1>6, OnlyLine DEF ReadStale, IInv, TypeOK, userVars, queueVars

LEMMA AutoClaimIInv == ASSUME IInv, NEW w \in Workers, AutoClaim(w) PROVE IInv'
<1>1. line[w] \in Line /\ LineOK(line[w])
  BY LineFacts
<1>2. PICK e \in pending :
        line' = [line EXCEPT ![w].pc = "recover", ![w].ent = e.id, ![w].job = e.job]
  BY DEF AutoClaim
<1>3. PICK id, j : id = e.id /\ j = e.job
  OBVIOUS
<1>4. id \in Nat /\ j \in Jobs /\ job[j] # NoRec
  BY <1>3 DEF IInv, TypeOK, Known
<1>5. PICK l : l = [line[w] EXCEPT !.pc = "recover", !.ent = id, !.job = j]
  OBVIOUS
<1>6. line' = [line EXCEPT ![w] = l]
  BY <1>2, <1>3, <1>5 DEF IInv, TypeOK
<1>7. LineOK(l) /\ l.token = line[w].token
  BY <1>1, <1>4, <1>5 DEF LineOK, Line, Pcs, Processing
<1>8. used' \in [{"crash", "error", "cancel", "late", "slow"} -> Nat]
  BY SpendType DEF AutoClaim, IInv, TypeOK
<1> QED BY <1>6, <1>7, <1>8, OnlyLine DEF AutoClaim, userVars, queueVars

-----------------------------------------------------------------------------
(* Steps that change the queue.                                            *)

LEMMA AttachIInv ==
  ASSUME IInv, NEW k \in Keys, NEW u \in Users \cup {NoUser}, Attach(k, u) PROVE IInv'
<1>1. PICK j \in Jobs : j = dedupe[k] /\ job[j] \in JobRec /\ job[j] # NoRec
  BY DEF Attach, Taken, IInv, TypeOK
<1>2. PICK subs : subs = job[j].subs \cup ({u} \ {NoUser})
  OBVIOUS
<1>3. subs \in SUBSET Users
  BY <1>1, <1>2 DEF JobRec
<1>4. PICK rec : rec = [job[j] EXCEPT !.subs = subs]
  OBVIOUS
<1>5. rec \in JobRec /\ rec.status = job[j].status
  BY <1>1, <1>3, <1>4 DEF JobRec
<1>6. job' = [job EXCEPT ![j] = rec]
  BY <1>1, <1>2, <1>4 DEF Attach, IInv, TypeOK
<1>7. RecordsStay
  BY <1>5, <1>6, NoRecAssumption DEF RecordsStay, IInv, TypeOK
<1>8. line' \in [Workers -> Line] /\ LinesOK' /\ TokensDistinct'
  BY <1>7, LinesStay DEF Attach
<1>9. UNCHANGED <<dedupe, activeUser, ready, pending, lastEntry, active, scheduled, counted,
                  lastToken, used, reopened>>
  BY DEF Attach, userVars, queueVars
<1>10. job' \in [Jobs -> JobRec \cup {NoRec}]
  BY <1>5, <1>6 DEF IInv, TypeOK
<1>11. TypeOK'
  BY <1>8, <1>9, <1>10 DEF IInv, TypeOK
<1>12. Known'
  BY <1>7, <1>9 DEF IInv, TypeOK, Known, RecordsStay
<1>13. \A i \in Jobs : Finished(i)' <=> Finished(i)
  BY <1>1, <1>5, <1>6, NoRecAssumption DEF IInv, TypeOK, Finished
<1>14. CountedPerFinish'
  BY <1>9, <1>13 DEF IInv, CountedPerFinish
<1> QED BY <1>8, <1>11, <1>12, <1>14 DEF IInv

LEMMA CreateIInv ==
  ASSUME IInv, NEW j \in Jobs, NEW k \in Keys, NEW u \in Users \cup {NoUser}, Create(j, k, u)
  PROVE  IInv'
<1>1. PICK rec : rec = [status |-> "queued", token |-> 0, src |-> 0, retry |-> 0,
                        subs |-> {u} \ {NoUser}, key |-> k, user |-> u]
  OBVIOUS
<1>2. rec \in JobRec /\ rec.status = "queued"
  BY <1>1 DEF JobRec
<1>3. job' = [job EXCEPT ![j] = rec] /\ job[j] = NoRec
  BY <1>1 DEF Create
<1>4. RecordsStay /\ job'[j] # NoRec
  BY <1>2, <1>3, NoRecAssumption DEF RecordsStay, IInv, TypeOK
<1>5. line' \in [Workers -> Line] /\ LinesOK' /\ TokensDistinct'
  BY <1>4, LinesStay DEF Create
<1>6. ready' \cup pending' \subseteq [id : 1..lastEntry', job : Jobs] /\ lastEntry' \in Nat
  BY DEF Create, XADD, IInv, TypeOK
<1>7. dedupe' \in [Keys -> Jobs \cup {NoJob}] /\ activeUser' \in [Users -> SUBSET Jobs]
  BY DEF Create, IInv, TypeOK
<1>7a. UNCHANGED <<active, scheduled, counted, used, reopened, lastToken>>
  BY DEF Create
<1>8. TypeOK'
  BY <1>2, <1>3, <1>5, <1>6, <1>7, <1>7a DEF IInv, TypeOK
<1>9. Known'
  BY <1>3, <1>4 DEF Create, XADD, IInv, TypeOK, Known, RecordsStay
<1>10. CountedPerFinish'
  BY <1>2, <1>3, <1>7a DEF IInv, TypeOK, CountedPerFinish, Finished
<1> QED BY <1>5, <1>8, <1>9, <1>10 DEF IInv

LEMMA HeartbeatIInv == ASSUME IInv, NEW w \in Workers, Heartbeat(w) PROVE IInv'
<1>1. RecordsStay
  BY DEF Heartbeat, RecordsStay
<1>2. line' \in [Workers -> Line] /\ LinesOK' /\ TokensDistinct'
  BY <1>1, LinesStay DEF Heartbeat
<1>3. TypeOK'
  BY DEF Heartbeat, IInv, TypeOK, userVars, queueVars
<1>4. Known' /\ CountedPerFinish'
  BY DEF Heartbeat, IInv, TypeOK, Known, CountedPerFinish, Finished, Running, queueVars
<1> QED BY <1>2, <1>3, <1>4 DEF IInv

LEMMA LeaseLapsesIInv == ASSUME IInv, NEW j \in Jobs, LeaseLapses(j) PROVE IInv'
<1>1. RecordsStay
  BY DEF LeaseLapses, RecordsStay
<1>2. line' \in [Workers -> Line] /\ LinesOK' /\ TokensDistinct'
  BY <1>1, LinesStay DEF LeaseLapses
<1>3. used' \in [{"crash", "error", "cancel", "late", "slow"} -> Nat]
  BY SpendType DEF LeaseLapses, IInv, TypeOK
<1>4. TypeOK'
  BY <1>3 DEF LeaseLapses, IInv, TypeOK, userVars, queueVars
<1>5. Known' /\ CountedPerFinish'
  BY DEF LeaseLapses, IInv, TypeOK, Known, CountedPerFinish, Finished, queueVars
<1> QED BY <1>2, <1>4, <1>5 DEF IInv

LEMMA DeliverIInv == ASSUME IInv, NEW w \in Workers, Deliver(w) PROVE IInv'
<1>1. line[w] \in Line /\ LineOK(line[w])
  BY LineFacts
<1>2. PICK e \in ready :
        /\ ready' = ready \ {e} /\ pending' = pending \cup {e}
        /\ line' = [line EXCEPT ![w].pc = "read", ![w].ent = e.id, ![w].job = e.job]
  BY DEF Deliver
<1>3. PICK id, j : id = e.id /\ j = e.job
  OBVIOUS
<1>4. id \in Nat /\ j \in Jobs /\ job[j] # NoRec
  BY <1>3 DEF IInv, TypeOK, Known
<1>5. PICK l : l = [line[w] EXCEPT !.pc = "read", !.ent = id, !.job = j]
  OBVIOUS
<1>6. line' = [line EXCEPT ![w] = l]
  BY <1>2, <1>3, <1>5 DEF IInv, TypeOK
<1>7. LineOK(l) /\ l.token = line[w].token
  BY <1>1, <1>4, <1>5 DEF LineOK, Line, Pcs, Processing
<1>8. RecordsStay /\ LineOK(l)'
  BY <1>7 DEF Deliver, RecordsStay, LineOK
<1>9. line' \in [Workers -> Line] /\ LinesOK' /\ TokensDistinct'
  BY <1>6, <1>7, <1>8, LineMoves DEF Deliver
<1>10. TypeOK'
  BY <1>2, <1>9 DEF Deliver, IInv, TypeOK, userVars
<1>11. Known' /\ CountedPerFinish'
  BY <1>2 DEF Deliver, IInv, Known, CountedPerFinish, Finished
<1> QED BY <1>9, <1>10, <1>11 DEF IInv

LEMMA AckRefusedIInv == ASSUME IInv, NEW w \in Workers, AckRefused(w) PROVE IInv'
<1>1. RecordsStay /\ LineOK(Idle)'
  BY IdleOK DEF AckRefused, RecordsStay, LineOK
<1>2. line' \in [Workers -> Line] /\ LinesOK' /\ TokensDistinct'
  BY <1>1, IdleOK, LineMoves DEF AckRefused, Return
<1>3. TypeOK'
  BY <1>2 DEF AckRefused, XACK, IInv, TypeOK, userVars
<1>4. Known' /\ CountedPerFinish'
  BY DEF AckRefused, XACK, IInv, Known, CountedPerFinish, Finished
<1> QED BY <1>2, <1>3, <1>4 DEF IInv

(* _save_job of a record that is not terminal: if it reopens the job, the  *)
(* history variable accounts for it.                                       *)
LEMMA SaveJobIInv ==
  ASSUME IInv, NEW w \in Workers, NEW j \in Jobs, NEW rec \in JobRec, rec.status # "finished",
         job[j] # NoRec, SaveJob(j, rec),
         NEW l, LineOK(l), l.token \in {0, line[w].token}, line' = [line EXCEPT ![w] = l],
         UNCHANGED <<dedupe, activeUser, ready, pending, lastEntry, active, scheduled,
                     counted, lastToken, used>>
  PROVE  IInv'
<1>1. job' = [job EXCEPT ![j] = rec]
  BY DEF SaveJob
<1>2. RecordsStay
  BY <1>1, NoRecAssumption DEF RecordsStay, IInv, TypeOK
<1>3. LineOK(l)'
  BY <1>2 DEF RecordsStay, LineOK
<1>4. line' \in [Workers -> Line] /\ LinesOK' /\ TokensDistinct'
  BY <1>2, <1>3, LineMoves
<1>5. Reopens(j, rec) = IF Finished(j) THEN 1 ELSE 0
  BY DEF Reopens
<1>6. PICK n : n = reopened[j] + Reopens(j, rec)
  OBVIOUS
<1>7. n \in Nat /\ reopened' = [reopened EXCEPT ![j] = n]
  BY <1>5, <1>6 DEF SaveJob, IInv, TypeOK
<1>8. TypeOK'
  BY <1>1, <1>4, <1>7 DEF IInv, TypeOK
<1>9. Known'
  BY <1>2 DEF IInv, TypeOK, Known, RecordsStay
<1>10. counted[j] = n
  BY <1>5, <1>6 DEF IInv, TypeOK, CountedPerFinish
<1>11. CountedPerFinish'
  BY <1>1, <1>7, <1>10, NoRecAssumption DEF IInv, TypeOK, CountedPerFinish, Finished
<1> QED BY <1>4, <1>8, <1>9, <1>11 DEF IInv

LEMMA SaveClaimIInv == ASSUME IInv, NEW w \in Workers, SaveClaim(w) PROVE IInv'
<1>1. line[w] \in Line /\ LineOK(line[w]) /\ line[w].pc = "claimed"
  BY LineFacts DEF SaveClaim, At
<1>2. PICK rec, j : rec = line[w].snap /\ j = line[w].job
  OBVIOUS
<1>3. rec \in JobRec /\ rec.status # "finished" /\ j \in Jobs /\ job[j] # NoRec
  BY <1>1, <1>2 DEF LineOK
<1>4. PICK l : l = [line[w] EXCEPT !.pc = "execute", !.snap = NoRec]
  OBVIOUS
<1>5. LineOK(l) /\ l.token = line[w].token
  BY <1>1, <1>4 DEF LineOK, Line, Pcs, Processing
<1>6. SaveJob(j, rec) /\ line' = [line EXCEPT ![w] = l]
  BY <1>2, <1>4 DEF SaveClaim, JobOf, IInv, TypeOK
<1> QED BY <1>3, <1>5, <1>6, SaveJobIInv DEF SaveClaim, userVars, queueVars

LEMMA RequeueSaveIInv == ASSUME IInv, NEW w \in Workers, RequeueSave(w) PROVE IInv'
<1>1. line[w] \in Line /\ LineOK(line[w]) /\ line[w].pc = "save"
  BY LineFacts DEF RequeueSave, At
<1>2. PICK rec, j : rec = line[w].snap /\ j = line[w].job
  OBVIOUS
<1>3. rec \in JobRec /\ rec.status # "finished" /\ j \in Jobs /\ job[j] # NoRec
  BY <1>1, <1>2 DEF LineOK
<1>4. PICK l : l = [line[w] EXCEPT !.pc = "push"]
  OBVIOUS
<1>5. LineOK(l) /\ l.token = line[w].token
  BY <1>1, <1>4 DEF LineOK, Line, Pcs, Processing
<1>6. SaveJob(j, rec) /\ line' = [line EXCEPT ![w] = l]
  BY <1>2, <1>4 DEF RequeueSave, Goto, JobOf, IInv, TypeOK
<1> QED BY <1>3, <1>5, <1>6, SaveJobIInv DEF RequeueSave, userVars, queueVars

(* A step that leaves every record as it is: stream entries may only go or *)
(* be of a known job, and a lease may only be dropped.                     *)
LEMMA QueueMoves ==
  ASSUME IInv, NEW w \in Workers, NEW l, LineOK(l), l.token \in {0, line[w].token},
         line' = [line EXCEPT ![w] = l],
         \A i \in Jobs : active'[i] \in {active[i], "none"},
         active' \in [Jobs -> {"none", "live", "lapsed"}],
         \A e \in ready' \cup pending' : e \in ready \cup pending \/ job[e.job] # NoRec,
         ready' \cup pending' \subseteq [id : 1..lastEntry', job : Jobs], lastEntry' \in Nat,
         \A i \in scheduled' : i \in Jobs /\ job[i] # NoRec,
         used' \in [{"crash", "error", "cancel", "late", "slow"} -> Nat],
         UNCHANGED <<job, dedupe, activeUser, counted, lastToken, reopened>>
  PROVE  IInv'
<1>1. RecordsStay /\ LineOK(l)'
  BY DEF RecordsStay, LineOK
<1>2. line' \in [Workers -> Line] /\ LinesOK' /\ TokensDistinct'
  BY <1>1, LineMoves
<1>3. TypeOK'
  BY <1>2 DEF IInv, TypeOK
<1>4. Known' /\ CountedPerFinish'
  BY DEF IInv, TypeOK, Known, CountedPerFinish, Finished
<1> QED BY <1>2, <1>3, <1>4 DEF IInv

LEMMA XADDFacts ==
  ASSUME IInv, NEW j \in Jobs, job[j] # NoRec, XADD(j), NEW P, pending' = P, P \subseteq pending
  PROVE  /\ \A e \in ready' \cup pending' : e \in ready \cup pending \/ job[e.job] # NoRec
         /\ ready' \cup pending' \subseteq [id : 1..lastEntry', job : Jobs]
         /\ lastEntry' \in Nat
<1>1. PICK n : n = lastEntry + 1
  OBVIOUS
<1>2. n \in Nat /\ \A i \in 1..lastEntry : i \in 1..n
  BY <1>1 DEF IInv, TypeOK
<1>3. n \in 1..n
  BY <1>1 DEF IInv, TypeOK
<1>4. lastEntry' = n /\ ready' = ready \cup {[id |-> n, job |-> j]}
  BY <1>1 DEF XADD
<1>5. ready \cup pending \subseteq [id : 1..lastEntry, job : Jobs]
  BY DEF IInv, TypeOK
<1> QED BY <1>2, <1>3, <1>4, <1>5

LEMMA PromoteIInv == ASSUME IInv, NEW w \in Workers, Promote(w) PROVE IInv'
<1>1. line[w] \in Line /\ LineOK(line[w])
  BY LineFacts
<1>2. PICK j \in scheduled : /\ scheduled' = scheduled \ {j}
                             /\ line' = [line EXCEPT ![w].pc = "promote", ![w].job = j]
  BY DEF Promote
<1>3. j \in Jobs /\ job[j] # NoRec
  BY DEF IInv, TypeOK, Known
<1>4. PICK l : l = [line[w] EXCEPT !.pc = "promote", !.job = j]
  OBVIOUS
<1>5. line' = [line EXCEPT ![w] = l]
  BY <1>2, <1>4 DEF IInv, TypeOK
<1>6. LineOK(l) /\ l.token = line[w].token
  BY <1>1, <1>3, <1>4 DEF LineOK, Line, Pcs, Processing
<1>7. UNCHANGED <<job, dedupe, activeUser, ready, pending, lastEntry, active, counted,
                  lastToken, used, reopened>>
  BY DEF Promote, userVars, queueVars
<1> QED BY <1>2, <1>5, <1>6, <1>7, QueueMoves DEF IInv, TypeOK, Known

LEMMA PromoteAddIInv == ASSUME IInv, NEW w \in Workers, PromoteAdd(w) PROVE IInv'
<1>1. PICK j : j = line[w].job
  OBVIOUS
<1>2. j \in Jobs /\ job[j] # NoRec
  BY <1>1, LineFacts DEF LineOK, PromoteAdd, At
<1>3. XADD(j) /\ pending' = pending
  BY <1>1 DEF PromoteAdd, JobOf
<1>4. /\ \A e \in ready' \cup pending' : e \in ready \cup pending \/ job[e.job] # NoRec
      /\ ready' \cup pending' \subseteq [id : 1..lastEntry', job : Jobs]
      /\ lastEntry' \in Nat
  BY <1>2, <1>3, XADDFacts
<1>5. /\ line' = [line EXCEPT ![w] = Idle]
      /\ UNCHANGED <<job, dedupe, activeUser, active, scheduled, counted, lastToken, used, reopened>>
  BY DEF PromoteAdd, Return, userVars
<1> QED BY <1>4, <1>5, IdleOK, QueueMoves DEF IInv, TypeOK, Known

LEMMA PromoteAddFailsIInv == ASSUME IInv, NEW w \in Workers, PromoteAddFails(w) PROVE IInv'
<1>1. PICK j : j = line[w].job
  OBVIOUS
<1>2. j \in Jobs /\ job[j] # NoRec
  BY <1>1, LineFacts DEF LineOK, PromoteAddFails, At
<1>3. used' \in [{"crash", "error", "cancel", "late", "slow"} -> Nat]
  BY SpendType DEF PromoteAddFails
<1>4. /\ line' = [line EXCEPT ![w] = Idle] /\ scheduled' = scheduled \cup {j}
      /\ UNCHANGED <<job, dedupe, activeUser, ready, pending, lastEntry, active, counted,
                     lastToken, reopened>>
  BY <1>1 DEF PromoteAddFails, Return, JobOf, userVars, queueVars
<1> QED BY <1>2, <1>3, <1>4, IdleOK, QueueMoves DEF IInv, TypeOK, Known

LEMMA RequeuePushIInv == ASSUME IInv, NEW w \in Workers, RequeuePush(w) PROVE IInv'
<1>1. PICK j, P : j = line[w].job /\ P = pending'
  OBVIOUS
<1>2. j \in Jobs /\ job[j] # NoRec
  BY <1>1, LineFacts DEF LineOK, RequeuePush, At
<1>3. P \subseteq pending
  BY <1>1 DEF RequeuePush, XACK
<1>4. /\ \A e \in ready' \cup pending' : e \in ready \cup pending \/ job[e.job] # NoRec
      /\ ready' \cup pending' \subseteq [id : 1..lastEntry', job : Jobs]
      /\ lastEntry' \in Nat
      /\ \A i \in scheduled' : i \in Jobs /\ job[i] # NoRec
  <2>1. CASE line[w].why = "delay"
    BY <1>1, <1>2, <1>3, <2>1 DEF RequeuePush, JobOf, IInv, TypeOK, Known
  <2>2. CASE line[w].why # "delay"
    <3>1. XADD(j) /\ UNCHANGED scheduled
      BY <1>1, <2>2 DEF RequeuePush, JobOf
    <3> QED BY <1>1, <1>2, <1>3, <3>1, XADDFacts DEF IInv, TypeOK, Known
  <2> QED BY <2>1, <2>2
<1>5. /\ line' = [line EXCEPT ![w] = Idle] /\ active' = [active EXCEPT ![j] = "none"]
      /\ UNCHANGED <<job, dedupe, activeUser, counted, lastToken, used, reopened>>
  BY <1>1 DEF RequeuePush, Return, JobOf, userVars
<1>6. /\ active' \in [Jobs -> {"none", "live", "lapsed"}]
      /\ \A i \in Jobs : active'[i] \in {active[i], "none"}
  BY <1>2, <1>5 DEF IInv, TypeOK
<1> QED BY <1>4, <1>5, <1>6, IdleOK, QueueMoves DEF IInv, TypeOK

(* finish_job: the job is counted and it becomes finished, together.       *)
LEMMA FinishIInv == ASSUME IInv, NEW w \in Workers, Finish(w) PROVE IInv'
<1>1. line[w] \in Line /\ LineOK(line[w]) /\ line[w].pc \in {"execute", "failed"}
  BY LineFacts DEF Finish, At
<1>2. PICK j \in Jobs : j = line[w].job /\ job[j] \in JobRec /\ job[j].status = "running"
  BY <1>1 DEF LineOK, IInv, TypeOK, Finish, FinishAccepted, Running, JobOf
<1>3. PICK rec : rec = [job[j] EXCEPT !.status = "finished", !.token = 0]
  OBVIOUS
<1>4. rec \in JobRec /\ rec.status = "finished"
  BY <1>2, <1>3 DEF JobRec
<1>5. /\ job' = [job EXCEPT ![j] = rec] /\ active' = [active EXCEPT ![j] = "none"]
      /\ counted' = [counted EXCEPT ![j] = @ + 1]
      /\ pending' \subseteq pending
      /\ UNCHANGED <<ready, lastEntry, scheduled, lastToken, used, reopened>>
  BY <1>2, <1>3 DEF Finish, XACK, JobOf, IInv, TypeOK
<1>6. RecordsStay
  BY <1>4, <1>5, NoRecAssumption DEF RecordsStay, IInv, TypeOK
<1>7. PICK l : l = IF line[w].pc = "execute" THEN [line[w] EXCEPT !.pc = "metric"] ELSE Idle
  OBVIOUS
<1>8. line' = [line EXCEPT ![w] = l]
  BY <1>7 DEF Finish, Goto, Return, At, IInv, TypeOK
<1>9. LineOK(l) /\ l.token \in {0, line[w].token}
  BY <1>1, <1>7, IdleOK DEF LineOK, Line, Pcs, Processing
<1>10. LineOK(l)'
  BY <1>6, <1>9 DEF RecordsStay, LineOK
<1>11. line' \in [Workers -> Line] /\ LinesOK' /\ TokensDistinct'
  BY <1>5, <1>6, <1>8, <1>9, <1>10, LineMoves
<1>12. dedupe' \in [Keys -> Jobs \cup {NoJob}] /\ activeUser' \in [Users -> SUBSET Jobs]
  BY NullAssumption DEF Finish, IInv, TypeOK
<1>13. job' \in [Jobs -> JobRec \cup {NoRec}] /\ active' \in [Jobs -> {"none", "live", "lapsed"}]
       /\ counted' \in [Jobs -> Nat]
  BY <1>4, <1>5 DEF IInv, TypeOK
<1>14. TypeOK'
  BY <1>5, <1>11, <1>12, <1>13 DEF IInv, TypeOK
<1>15. Known'
  BY <1>5, <1>6 DEF IInv, TypeOK, Known, RecordsStay
<1>16. ~Finished(j) /\ Finished(j)' /\ \A i \in Jobs \ {j} : Finished(i)' <=> Finished(i)
  BY <1>2, <1>4, <1>5, NoRecAssumption DEF IInv, TypeOK, Finished
<1>17. CountedPerFinish'
  BY <1>5, <1>16 DEF IInv, TypeOK, CountedPerFinish
<1> QED BY <1>11, <1>14, <1>15, <1>17 DEF IInv

(* _RECOVER_JOB_SCRIPT where it returns 1.                                 *)
LEMMA BackToQueueIInv ==
  ASSUME IInv, NEW w \in Workers, NEW j \in Jobs, Open(j), NEW src \in Nat, BackToQueue(j, src),
         Return(w), UNCHANGED <<dedupe, activeUser, scheduled, counted, lastToken, used, reopened>>
  PROVE  IInv'
<1>1. job[j] \in JobRec /\ job[j] # NoRec /\ job[j].status # "finished"
  BY DEF Open, IInv, TypeOK
<1>2. PICK rec, P : /\ rec = [job[j] EXCEPT !.status = "queued", !.token = 0, !.src = src]
                    /\ P = pending'
  OBVIOUS
<1>3. rec \in JobRec /\ rec.status = "queued"
  BY <1>1, <1>2 DEF JobRec
<1>4. /\ job' = [job EXCEPT ![j] = rec] /\ active' = [active EXCEPT ![j] = "none"]
      /\ P \subseteq pending /\ XADD(j) /\ line' = [line EXCEPT ![w] = Idle]
  BY <1>2 DEF BackToQueue, XACK, Return, IInv, TypeOK
<1>5. RecordsStay
  BY <1>3, <1>4, NoRecAssumption DEF RecordsStay, IInv, TypeOK
<1>6. LineOK(Idle)'
  BY <1>5, IdleOK DEF RecordsStay, LineOK, Idle
<1>7. line' \in [Workers -> Line] /\ LinesOK' /\ TokensDistinct'
  BY <1>4, <1>5, <1>6, IdleOK, LineMoves
<1>8. /\ \A e \in ready' \cup pending' : e \in ready \cup pending \/ job[e.job] # NoRec
      /\ ready' \cup pending' \subseteq [id : 1..lastEntry', job : Jobs]
      /\ lastEntry' \in Nat
  BY <1>1, <1>2, <1>4, XADDFacts
<1>9. job' \in [Jobs -> JobRec \cup {NoRec}] /\ active' \in [Jobs -> {"none", "live", "lapsed"}]
  BY <1>3, <1>4 DEF IInv, TypeOK
<1>10. TypeOK'
  BY <1>7, <1>8, <1>9 DEF IInv, TypeOK
<1>11. Known'
  BY <1>4, <1>5, <1>8 DEF IInv, TypeOK, Known, RecordsStay
<1>12. \A i \in Jobs : Finished(i)' <=> Finished(i)
  BY <1>1, <1>3, <1>4, NoRecAssumption DEF IInv, TypeOK, Finished
<1>13. CountedPerFinish'
  BY <1>12 DEF IInv, CountedPerFinish
<1> QED BY <1>7, <1>10, <1>11, <1>13 DEF IInv

LEMMA RecoverEntryIInv == ASSUME IInv, NEW w \in Workers, RecoverEntry(w) PROVE IInv'
<1>1. PICK j, src : j = line[w].job /\ src = line[w].ent
  OBVIOUS
<1>2. j \in Jobs /\ src \in Nat
  BY <1>1, LineFacts DEF LineOK, RecoverEntry, At, Line
<1>3. /\ Return(w) /\ line' = [line EXCEPT ![w] = Idle]
      /\ UNCHANGED <<dedupe, activeUser, scheduled, counted, lastToken, used, reopened>>
  BY DEF RecoverEntry, Return, userVars
<1>4. CASE Open(j) /\ BackToQueue(j, src)
  BY <1>2, <1>3, <1>4, BackToQueueIInv
<1>5. CASE /\ active' = [active EXCEPT ![j] = "none"] \/ UNCHANGED active
           /\ pending' \subseteq pending /\ UNCHANGED <<job, ready, lastEntry>>
  <2>1. /\ active' \in [Jobs -> {"none", "live", "lapsed"}]
        /\ \A i \in Jobs : active'[i] \in {active[i], "none"}
    BY <1>2, <1>5 DEF IInv, TypeOK
  <2> QED BY <1>3, <1>5, <2>1, IdleOK, QueueMoves DEF IInv, TypeOK, Known
<1> QED BY <1>1, <1>4, <1>5 DEF RecoverEntry, JobOf, XACK, queueVars

LEMMA RecoverStaleIInv == ASSUME IInv, NEW w \in Workers, RecoverStale(w) PROVE IInv'
<1>1. PICK j : j = line[w].job
  OBVIOUS
<1>2. j \in Jobs /\ job[j] # NoRec
  BY <1>1, LineFacts DEF LineOK, RecoverStale, At
<1>3. PICK src : src = job[j].src
  OBVIOUS
<1>4. src \in Nat
  BY <1>2, <1>3 DEF IInv, TypeOK, JobRec
<1>5. /\ Return(w) /\ line' = [line EXCEPT ![w] = Idle]
      /\ UNCHANGED <<dedupe, activeUser, scheduled, counted, lastToken, used, reopened>>
  BY DEF RecoverStale, Return, userVars
<1>6. CASE Running(j) /\ BackToQueue(j, src)
  BY <1>2, <1>4, <1>5, <1>6, BackToQueueIInv DEF Running, Open
<1>7. CASE /\ active' = [active EXCEPT ![j] = "none"] \/ UNCHANGED active
           /\ UNCHANGED <<job, ready, pending, lastEntry>>
  <2>1. /\ active' \in [Jobs -> {"none", "live", "lapsed"}]
        /\ \A i \in Jobs : active'[i] \in {active[i], "none"}
    BY <1>2, <1>7 DEF IInv, TypeOK
  <2> QED BY <1>5, <1>7, <2>1, IdleOK, QueueMoves DEF IInv, TypeOK, Known
<1> QED BY <1>1, <1>3, <1>6, <1>7 DEF RecoverStale, JobOf, queueVars

-----------------------------------------------------------------------------
LEMMA NextIInv == IInv /\ [Next]_vars => IInv'
<1> SUFFICES ASSUME IInv, [Next]_vars PROVE IInv'
  OBVIOUS
<1>1. CASE Request
  BY <1>1, AttachIInv, CreateIInv DEF Request
<1>2. CASE \E j \in Jobs : LeaseLapses(j)
  BY <1>2, LeaseLapsesIInv
<1>3. CASE \E w \in Workers : PickUp(w)
  BY <1>3, DeliverIInv, PromoteIInv, AutoClaimIInv, ReadStaleIInv DEF PickUp
<1>4. CASE \E w \in Workers : Step(w)
  BY <1>4, ClaimIInv, QuietIInv, AckRefusedIInv, SaveClaimIInv, FinishIInv, RequeueReadIInv,
     RequeueSaveIInv, RequeuePushIInv, PromoteAddIInv, RecoverEntryIInv, RecoverStaleIInv
     DEF Step
<1>5. CASE \E w \in Workers : Heartbeat(w) \/ RateLimited(w) \/ Fault(w)
  BY <1>5, HeartbeatIInv, QuietIInv, PromoteAddFailsIInv DEF Fault
<1>6. CASE UNCHANGED vars
  BY <1>6, LinesStay
  DEF vars, IInv, TypeOK, Known, LinesOK, LineOK, TokensDistinct, CountedPerFinish, Finished
<1> QED BY <1>1, <1>2, <1>3, <1>4, <1>5, <1>6 DEF Next

LEMMA Invariance == Spec => []IInv
  BY InitIInv, NextIInv, PTL DEF Spec

(* Every variable of the queue keeps its type; no id of a stream entry is  *)
(* ahead of the counter that issues them.                                  *)
THEOREM TypeCorrect == Spec => []TypeOK
<1>1. IInv => TypeOK
  BY DEF IInv
<1> QED BY <1>1, Invariance, PTL

LEMMA Exclusive == ASSUME IInv PROVE TokenExclusive
<1> SUFFICES ASSUME NEW v \in Workers, NEW w \in Workers,
                    Holds(v), Holds(w), JobOf(v) = JobOf(w)
             PROVE  v = w
  BY DEF TokenExclusive
<1>1. line[v].token = line[w].token
  BY DEF Holds
<1>2. line[v].token # 0
  BY LineFacts DEF Holds, LineOK
<1> QED BY <1>1, <1>2 DEF IInv, TokensDistinct

(* claim_token: however late, slow, cancelled or crashed the attempts at a *)
(* job are, at most one line carries the token of the running job.         *)
THEOREM OneTokenHolder == Spec => []TokenExclusive
  BY Invariance, Exclusive, PTL

(* finish_job counts a job towards its parent once for every time the job  *)
(* becomes finished; a surplus can only come from a reopened job.          *)
THEOREM CountedOncePerFinish == Spec => []CountedPerFinish
<1>1. IInv => CountedPerFinish
  BY DEF IInv
<1> QED BY <1>1, Invariance, PTL

-----------------------------------------------------------------------------
(* What a step does to the line it moves, field by field.                   *)

(* A line stands at p with job j, entry e, token t, reason y and record s.  *)
LineIs(l, p, j, e, t, y, s) ==
  l.pc = p /\ l.job = j /\ l.ent = e /\ l.token = t /\ l.why = y /\ l.snap = s

(* What a line carries at each point; the record of a claim is the one the  *)
(* script returned.                                                         *)
Shape(l) ==
  /\ l.pc = "loop" => l = Idle
  /\ l.snap # NoRec => l.pc \in {"claimed", "save", "push"}
  /\ l.why # "none" <=> l.pc \in {"requeue", "save", "push"}
  /\ l.pc = "claimed" =>
       l.snap.src = l.ent /\ l.snap.status = "running" /\ l.snap.token = l.token
  /\ l.pc \in {"save", "push"} => l.snap.status = "queued"

Shapes == \A w \in Workers : Shape(line[w])

Others(w) == \A v \in Workers \ {w} : line'[v] = line[v]

LEMMA IdleIs == LineIs(Idle, "loop", NoJob, 0, 0, "none", NoRec) /\ Shape(Idle)
  BY DEF LineIs, Idle, Shape

(* The line of one worker is replaced.                                     *)
LEMMA Replaced ==
  ASSUME IInv, NEW w \in Workers, NEW l, line' = [line EXCEPT ![w] = l]
  PROVE  line'[w] = l /\ Others(w)
  BY DEF IInv, TypeOK, Others

LEMMA Returned ==
  ASSUME IInv, NEW w \in Workers, Return(w)
  PROVE  /\ line'[w] = Idle /\ Others(w)
         /\ LineIs(line'[w], "loop", NoJob, 0, 0, "none", NoRec)
  BY Replaced, IdleIs DEF Return

LEMMA Gone ==
  ASSUME IInv, NEW w \in Workers, NEW p, Goto(w, p)
  PROVE  /\ LineIs(line'[w], p, line[w].job, line[w].ent, line[w].token, line[w].why,
                   line[w].snap)
         /\ Others(w)
<1>1. PICK l : l = [line[w] EXCEPT !.pc = p]
  OBVIOUS
<1>2. line' = [line EXCEPT ![w] = l]
  BY <1>1 DEF Goto, IInv, TypeOK
<1>3. line[w] \in Line
  BY DEF IInv, TypeOK
<1>4. LineIs(l, p, line[w].job, line[w].ent, line[w].token, line[w].why, line[w].snap)
  BY <1>1, <1>3 DEF LineIs, Line
<1> QED BY <1>2, <1>4, Replaced

LEMMA LoopIs ==
  ASSUME Shapes, NEW w \in Workers, At(w, "loop")
  PROVE  line[w] = Idle
  BY DEF Shapes, Shape, At

LEMMA DeliverIs ==
  ASSUME IInv, Shapes, NEW w \in Workers, Deliver(w)
  PROVE  \E e \in ready :
           /\ LineIs(line'[w], "read", e.job, e.id, 0, "none", NoRec) /\ Others(w)
           /\ ready' = ready \ {e} /\ pending' = pending \cup {e}
<1>1. line[w] = Idle
  BY LoopIs DEF Deliver
<1>2. PICK e \in ready :
        /\ ready' = ready \ {e} /\ pending' = pending \cup {e}
        /\ line' = [line EXCEPT ![w].pc = "read", ![w].ent = e.id, ![w].job = e.job]
  BY DEF Deliver
<1>3. PICK id, j : id = e.id /\ j = e.job
  OBVIOUS
<1>4. PICK l : l = [Idle EXCEPT !.pc = "read", !.ent = id, !.job = j]
  OBVIOUS
<1>5. line' = [line EXCEPT ![w] = l]
  BY <1>1, <1>2, <1>3, <1>4 DEF IInv, TypeOK
<1>6. LineIs(l, "read", j, id, 0, "none", NoRec)
  BY <1>4 DEF LineIs, Idle
<1> QED BY <1>2, <1>3, <1>5, <1>6, Replaced

LEMMA AutoClaimIs ==
  ASSUME IInv, Shapes, NEW w \in Workers, AutoClaim(w)
  PROVE  \E e \in pending :
           /\ LineIs(line'[w], "recover", e.job, e.id, 0, "none", NoRec) /\ Others(w)
           /\ StalledOn(e, Brief) => Spend("slow", MaxSlowClaims)
           /\ used' = used \/ Spend("slow", MaxSlowClaims) \/ Spend("late", MaxLateBeats)
<1>1. line[w] = Idle
  BY LoopIs DEF AutoClaim
<1>2. PICK e \in pending :
        /\ line' = [line EXCEPT ![w].pc = "recover", ![w].ent = e.id, ![w].job = e.job]
        /\ IF StalledOn(e, Brief) THEN Spend("slow", MaxSlowClaims)
           ELSE IF StalledOn(e, Processing) /\ active[e.job] # "live"
           THEN Spend("late", MaxLateBeats)
           ELSE UNCHANGED used
  BY DEF AutoClaim
<1>3. PICK id, j : id = e.id /\ j = e.job
  OBVIOUS
<1>4. PICK l : l = [Idle EXCEPT !.pc = "recover", !.ent = id, !.job = j]
  OBVIOUS
<1>5. line' = [line EXCEPT ![w] = l]
  BY <1>1, <1>2, <1>3, <1>4 DEF IInv, TypeOK
<1>6. LineIs(l, "recover", j, id, 0, "none", NoRec)
  BY <1>4 DEF LineIs, Idle
<1>8. /\ StalledOn(e, Brief) => Spend("slow", MaxSlowClaims)
      /\ used' = used \/ Spend("slow", MaxSlowClaims) \/ Spend("late", MaxLateBeats)
  BY <1>2, Zenon
<1> QED BY <1>3, <1>5, <1>6, <1>8, Replaced

LEMMA PromoteIs ==
  ASSUME IInv, Shapes, NEW w \in Workers, Promote(w)
  PROVE  \E j \in scheduled :
           /\ LineIs(line'[w], "promote", j, 0, 0, "none", NoRec) /\ Others(w)
           /\ scheduled' = scheduled \ {j}
<1>1. line[w] = Idle
  BY LoopIs DEF Promote
<1>2. PICK j \in scheduled : /\ scheduled' = scheduled \ {j}
                             /\ line' = [line EXCEPT ![w].pc = "promote", ![w].job = j]
  BY DEF Promote
<1>4. PICK l : l = [Idle EXCEPT !.pc = "promote", !.job = j]
  OBVIOUS
<1>5. line' = [line EXCEPT ![w] = l]
  BY <1>1, <1>2, <1>4 DEF IInv, TypeOK
<1>6. LineIs(l, "promote", j, 0, 0, "none", NoRec)
  BY <1>4 DEF LineIs, Idle
<1> QED BY <1>2, <1>5, <1>6, Replaced

LEMMA ReadStaleIs ==
  ASSUME IInv, Shapes, NEW w \in Workers, ReadStale(w)
  PROVE  \E j \in Jobs : LineIs(line'[w], "stale", j, 0, 0, "none", NoRec) /\ Others(w)
<1>1. line[w] = Idle
  BY LoopIs DEF ReadStale
<1>2. PICK j \in Jobs : line' = [line EXCEPT ![w].pc = "stale", ![w].job = j]
  BY DEF ReadStale
<1>4. PICK l : l = [Idle EXCEPT !.pc = "stale", !.job = j]
  OBVIOUS
<1>5. line' = [line EXCEPT ![w] = l]
  BY <1>1, <1>2, <1>4 DEF IInv, TypeOK
<1>6. LineIs(l, "stale", j, 0, 0, "none", NoRec)
  BY <1>4 DEF LineIs, Idle
<1> QED BY <1>2, <1>5, <1>6, Replaced

LEMMA ClaimIs ==
  ASSUME IInv, Shapes, NEW w \in Workers, Claim(w)
  PROVE  /\ line[w].pc = "read" /\ JobOf(w) \in Jobs /\ Queued(JobOf(w))
         /\ \E rec, snap \in JobRec :
              /\ rec.status = "running" /\ rec.token = lastToken + 1
              /\ rec.src = job[JobOf(w)].src
              /\ rec.key = job[JobOf(w)].key /\ rec.user = job[JobOf(w)].user
              /\ snap.status = "running" /\ snap.token = lastToken + 1
              /\ snap.src = line[w].ent
              /\ snap.key = job[JobOf(w)].key /\ snap.user = job[JobOf(w)].user
              /\ job' = [job EXCEPT ![JobOf(w)] = rec]
              /\ LineIs(line'[w], "claimed", JobOf(w), line[w].ent, lastToken + 1, "none", snap)
         /\ Others(w)
         /\ active' = [active EXCEPT ![JobOf(w)] = "live"]
<1> DEFINE j == JobOf(w)
<1>1. j \in Jobs /\ job[j] \in JobRec /\ Queued(j) /\ line[w] \in Line /\ line[w].pc = "read"
  BY DEF IInv, TypeOK, LinesOK, LineOK, Claim, At, Queued, JobOf
<1>2. PICK t : t = lastToken + 1
  OBVIOUS
<1>3. t \in Nat
  BY <1>2 DEF IInv, TypeOK
<1>4. PICK rec : rec = [job[j] EXCEPT !.status = "running", !.token = t]
  OBVIOUS
<1>5. PICK snap : snap = [rec EXCEPT !.src = line[w].ent]
  OBVIOUS
<1>6. PICK l : l = [line[w] EXCEPT !.pc = "claimed", !.token = t, !.tries = job[j].retry,
                                  !.snap = snap]
  OBVIOUS
<1>7. /\ job' = [job EXCEPT ![j] = rec] /\ active' = [active EXCEPT ![j] = "live"]
      /\ line' = [line EXCEPT ![w] = l]
  BY <1>2, <1>4, <1>5, <1>6 DEF Claim, IInv, TypeOK, JobOf
<1>8. /\ rec \in JobRec /\ rec.status = "running" /\ rec.token = t /\ rec.src = job[j].src
      /\ rec.key = job[j].key /\ rec.user = job[j].user
  BY <1>1, <1>3, <1>4 DEF JobRec
<1>9. /\ snap \in JobRec /\ snap.status = "running" /\ snap.token = t
      /\ snap.src = line[w].ent /\ snap.key = job[j].key /\ snap.user = job[j].user
  BY <1>1, <1>5, <1>8 DEF JobRec, Line
<1>10. line[w].why = "none"
  BY <1>1 DEF Shapes, Shape
<1>11. LineIs(l, "claimed", j, line[w].ent, t, "none", snap)
  BY <1>1, <1>6, <1>10 DEF LineIs, Line, JobOf
<1> HIDE DEF j
<1>12. line'[w] = l /\ Others(w)
  BY <1>7, Replaced
<1> QED BY <1>1, <1>2, <1>7, <1>8, <1>9, <1>11, <1>12 DEF j

LEMMA SaveClaimIs ==
  ASSUME IInv, Shapes, NEW w \in Workers, SaveClaim(w)
  PROVE  /\ line[w].pc = "claimed" /\ JobOf(w) \in Jobs /\ job[JobOf(w)] # NoRec
         /\ line[w].snap \in JobRec /\ line[w].snap.src = line[w].ent
         /\ line[w].snap.status = "running" /\ line[w].snap.token = line[w].token
         /\ job' = [job EXCEPT ![JobOf(w)] = line[w].snap]
         /\ LineIs(line'[w], "execute", JobOf(w), line[w].ent, line[w].token, "none", NoRec)
         /\ Others(w)
<1>1. line[w] \in Line /\ LineOK(line[w]) /\ line[w].pc = "claimed" /\ Shape(line[w])
  BY LineFacts DEF SaveClaim, At, Shapes
<1>2. line[w].why = "none"
  BY <1>1 DEF Shape
<1>4. PICK l : l = [line[w] EXCEPT !.pc = "execute", !.snap = NoRec]
  OBVIOUS
<1>5. LineIs(l, "execute", JobOf(w), line[w].ent, line[w].token, "none", NoRec)
  BY <1>1, <1>2, <1>4 DEF LineIs, Line, JobOf
<1>6. job' = [job EXCEPT ![JobOf(w)] = line[w].snap] /\ line' = [line EXCEPT ![w] = l]
  BY <1>4 DEF SaveClaim, SaveJob, IInv, TypeOK
<1> QED BY <1>1, <1>5, <1>6, Replaced DEF LineOK, JobOf, Shape

LEMMA RateLimitedIs ==
  ASSUME IInv, Shapes, NEW w \in Workers, RateLimited(w)
  PROVE  /\ line[w].pc = "execute" /\ 0 < MaxRetries
         /\ LineIs(line'[w], "requeue", JobOf(w), line[w].ent, line[w].token, "delay", NoRec)
         /\ Others(w)
<1>1. line[w] \in Line /\ line[w].pc = "execute" /\ Shape(line[w])
  BY LineFacts DEF RateLimited, At, Shapes
<1>2. line[w].snap = NoRec
  BY <1>1 DEF Shape
<1>3. PICK l : l = [line[w] EXCEPT !.pc = "requeue", !.why = "delay"]
  OBVIOUS
<1>4. LineIs(l, "requeue", JobOf(w), line[w].ent, line[w].token, "delay", NoRec)
  BY <1>1, <1>2, <1>3 DEF LineIs, Line, JobOf
<1>5. line' = [line EXCEPT ![w] = l]
  BY <1>3 DEF RateLimited, IInv, TypeOK
<1>6. 0 < MaxRetries
  BY <1>1, QuotaAssumption DEF RateLimited, Line
<1> QED BY <1>1, <1>4, <1>5, <1>6, Replaced

LEMMA RequeueReadIs ==
  ASSUME IInv, Shapes, NEW w \in Workers, RequeueRead(w)
  PROVE  /\ line[w].pc = "requeue" /\ JobOf(w) \in Jobs /\ job[JobOf(w)] # NoRec
         /\ \E snap \in JobRec :
              /\ snap.status = "queued" /\ snap.src = job[JobOf(w)].src
              /\ LineIs(line'[w], "save", JobOf(w), line[w].ent, line[w].token, line[w].why, snap)
         /\ Others(w)
<1>1. line[w] \in Line /\ LineOK(line[w]) /\ line[w].pc = "requeue"
  BY LineFacts DEF RequeueRead, At
<1>2. PICK r : r = job[line[w].job]
  OBVIOUS
<1>3. r \in JobRec
  BY <1>1, <1>2 DEF LineOK, IInv, TypeOK
<1>4. PICK n : n = IF line[w].why = "delay" THEN line[w].tries + 1 ELSE r.retry
  OBVIOUS
<1>5. n \in Nat
  BY <1>1, <1>3, <1>4 DEF Line, JobRec
<1>6. PICK snap : snap = [r EXCEPT !.status = "queued", !.token = 0, !.retry = n]
  OBVIOUS
<1>7. snap \in JobRec /\ snap.status = "queued" /\ snap.src = r.src
  BY <1>3, <1>5, <1>6 DEF JobRec
<1>8. PICK l : l = [line[w] EXCEPT !.pc = "save", !.snap = snap]
  OBVIOUS
<1>9. line' = [line EXCEPT ![w] = l]
  BY <1>2, <1>4, <1>6, <1>8 DEF RequeueRead, JobOf, IInv, TypeOK
<1>10. LineIs(l, "save", JobOf(w), line[w].ent, line[w].token, line[w].why, snap)
  BY <1>1, <1>8 DEF LineIs, Line, JobOf
<1>11. JobOf(w) \in Jobs /\ job[JobOf(w)] # NoRec /\ snap.src = job[JobOf(w)].src
  BY <1>1, <1>2, <1>7 DEF LineOK, JobOf
<1>12. line'[w] = l /\ Others(w)
  BY <1>9, Replaced
<1> QED BY <1>1, <1>7, <1>10, <1>11, <1>12

LEMMA RequeueSaveIs ==
  ASSUME IInv, Shapes, NEW w \in Workers, RequeueSave(w)
  PROVE  /\ line[w].pc = "save" /\ JobOf(w) \in Jobs /\ job[JobOf(w)] # NoRec
         /\ line[w].snap \in JobRec /\ line[w].snap.status = "queued"
         /\ job' = [job EXCEPT ![JobOf(w)] = line[w].snap]
         /\ LineIs(line'[w], "push", JobOf(w), line[w].ent, line[w].token, line[w].why,
                   line[w].snap)
         /\ Others(w)
<1>1. line[w] \in Line /\ LineOK(line[w]) /\ line[w].pc = "save" /\ Shape(line[w])
  BY LineFacts DEF RequeueSave, At, Shapes
<1>2. Goto(w, "push") /\ job' = [job EXCEPT ![JobOf(w)] = line[w].snap]
  BY DEF RequeueSave, SaveJob
<1> QED BY <1>1, <1>2, Gone DEF LineOK, JobOf, Shape

LEMMA RedisFailsIs ==
  ASSUME IInv, Shapes, NEW w \in Workers, RedisFails(w)
  PROVE  /\ line[w].pc \in {"execute", "requeue", "save", "push"}
         /\ Spend("error", MaxErrors)
         /\ LineIs(line'[w], "failed", JobOf(w), line[w].ent, line[w].token, "none", NoRec)
         /\ Others(w)
<1>1. line[w] \in Line
  BY LineFacts
<1>3. PICK l : l = [line[w] EXCEPT !.pc = "failed", !.why = "none", !.snap = NoRec]
  OBVIOUS
<1>4. LineIs(l, "failed", JobOf(w), line[w].ent, line[w].token, "none", NoRec)
  BY <1>1, <1>3 DEF LineIs, Line, JobOf
<1>5. line' = [line EXCEPT ![w] = l]
  BY <1>3 DEF RedisFails, IInv, TypeOK
<1> QED BY <1>4, <1>5, Replaced DEF RedisFails

LEMMA CancelIs ==
  ASSUME IInv, Shapes, NEW w \in Workers, Cancel(w)
  PROVE  /\ line[w].pc \in {"execute", "metric", "requeue", "save", "push"}
         /\ Spend("cancel", MaxCancels)
         /\ LineIs(line'[w], "requeue", JobOf(w), line[w].ent, line[w].token, "stop", NoRec)
         /\ Others(w)
<1>1. line[w] \in Line
  BY LineFacts
<1>3. PICK l : l = [line[w] EXCEPT !.pc = "requeue", !.why = "stop", !.snap = NoRec]
  OBVIOUS
<1>4. LineIs(l, "requeue", JobOf(w), line[w].ent, line[w].token, "stop", NoRec)
  BY <1>1, <1>3 DEF LineIs, Line, JobOf
<1>5. line' = [line EXCEPT ![w] = l]
  BY <1>3 DEF Cancel, IInv, TypeOK
<1> QED BY <1>4, <1>5, Replaced DEF Cancel, Processing

LEMMA FinishIs ==
  ASSUME IInv, Shapes, NEW w \in Workers, Finish(w)
  PROVE  /\ line[w].pc \in {"execute", "failed"} /\ JobOf(w) \in Jobs /\ Holds(w)
         /\ XACK(job[JobOf(w)].src)
         /\ \E rec \in JobRec :
              /\ rec.status = "finished" /\ rec.token = 0 /\ rec.src = job[JobOf(w)].src
              /\ rec.key = job[JobOf(w)].key /\ rec.user = job[JobOf(w)].user
              /\ job' = [job EXCEPT ![JobOf(w)] = rec]
         /\ \/ LineIs(line'[w], "metric", JobOf(w), line[w].ent, line[w].token, "none", NoRec)
            \/ line'[w] = Idle
         /\ Others(w)
<1>1. line[w] \in Line /\ LineOK(line[w]) /\ line[w].pc \in {"execute", "failed"} /\ Shape(line[w])
  BY LineFacts DEF Finish, At, Shapes
<1>2. line[w].why = "none" /\ line[w].snap = NoRec
  BY <1>1 DEF Shape
<1>3. Holds(w) /\ JobOf(w) \in Jobs /\ job[JobOf(w)] \in JobRec
  BY <1>1 DEF Holds, Finish, FinishAccepted, Processing, LineOK, JobOf, IInv, TypeOK
<1>4. PICK rec : rec = [job[JobOf(w)] EXCEPT !.status = "finished", !.token = 0]
  OBVIOUS
<1>5. /\ rec \in JobRec /\ rec.status = "finished" /\ rec.token = 0
      /\ rec.src = job[JobOf(w)].src /\ rec.key = job[JobOf(w)].key
      /\ rec.user = job[JobOf(w)].user
  BY <1>3, <1>4 DEF JobRec
<1>6. job' = [job EXCEPT ![JobOf(w)] = rec] /\ XACK(job[JobOf(w)].src)
  BY <1>3, <1>4 DEF Finish, IInv, TypeOK
<1>7. Goto(w, "metric") \/ Return(w)
  BY DEF Finish
<1>8. /\ \/ LineIs(line'[w], "metric", JobOf(w), line[w].ent, line[w].token, "none", NoRec)
         \/ line'[w] = Idle
      /\ Others(w)
  BY <1>2, <1>7, Gone, Returned DEF JobOf
<1> QED BY <1>1, <1>3, <1>5, <1>6, <1>8

(* _RECOVER_JOB_SCRIPT where it puts the job back.                         *)
LEMMA BackToQueueIs ==
  ASSUME IInv, NEW j \in Jobs, Open(j), NEW src \in Nat, BackToQueue(j, src)
  PROVE  \E rec \in JobRec :
           /\ rec.status = "queued" /\ rec.token = 0 /\ rec.src = src
           /\ rec.key = job[j].key /\ rec.user = job[j].user
           /\ job' = [job EXCEPT ![j] = rec]
<1>1. job[j] \in JobRec
  BY DEF Open, IInv, TypeOK
<1>2. PICK rec : rec = [job[j] EXCEPT !.status = "queued", !.token = 0, !.src = src]
  OBVIOUS
<1>3. /\ rec \in JobRec /\ rec.status = "queued" /\ rec.token = 0 /\ rec.src = src
      /\ rec.key = job[j].key /\ rec.user = job[j].user
  BY <1>1, <1>2 DEF JobRec
<1>4. job' = [job EXCEPT ![j] = rec]
  BY <1>2 DEF BackToQueue, IInv, TypeOK
<1> QED BY <1>3, <1>4

LEMMA AttachIs ==
  ASSUME IInv, NEW k \in Keys, NEW u \in Users \cup {NoUser}, Attach(k, u)
  PROVE  \E j \in Jobs, rec \in JobRec :
           /\ job[j] \in JobRec
           /\ rec.status = job[j].status /\ rec.token = job[j].token /\ rec.src = job[j].src
           /\ rec.key = job[j].key /\ rec.user = job[j].user
           /\ job' = [job EXCEPT ![j] = rec]
<1>1. PICK j \in Jobs : j = dedupe[k] /\ job[j] \in JobRec
  BY DEF Attach, Taken, IInv, TypeOK
<1>2. PICK subs : subs = job[j].subs \cup ({u} \ {NoUser})
  OBVIOUS
<1>3. subs \in SUBSET Users
  BY <1>1, <1>2 DEF JobRec
<1>4. PICK rec : rec = [job[j] EXCEPT !.subs = subs]
  OBVIOUS
<1>5. /\ rec \in JobRec /\ rec.status = job[j].status /\ rec.token = job[j].token
      /\ rec.src = job[j].src /\ rec.key = job[j].key /\ rec.user = job[j].user
  BY <1>1, <1>3, <1>4 DEF JobRec
<1>6. job' = [job EXCEPT ![j] = rec]
  BY <1>1, <1>2, <1>4 DEF Attach, IInv, TypeOK
<1> QED BY <1>1, <1>5, <1>6

LEMMA ShapesFrom ==
  ASSUME Shapes, NEW w \in Workers, Others(w), Shape(line'[w])
  PROVE  Shapes'
  BY DEF Shapes, Shape, Others, Idle

LEMMA StepShapes ==
  ASSUME IInv, Shapes, [Next]_vars
  PROVE  Shapes'
<1>1. CASE UNCHANGED line
  BY <1>1 DEF Shapes, Shape, Idle
<1>2. CASE \E w \in Workers : Return(w)
  BY <1>2, Returned, IdleIs, ShapesFrom
<1>3. CASE \E w \in Workers : PickUp(w)
  BY <1>3, DeliverIs, AutoClaimIs, PromoteIs, ReadStaleIs, ShapesFrom
     DEF PickUp, LineIs, Shape
<1>4. CASE \E w \in Workers : \/ Claim(w) \/ ClaimRefused(w) \/ SaveClaim(w) \/ RequeueSave(w)
                              \/ PromoteRead(w)
  <2> PICK w \in Workers : \/ Claim(w) \/ ClaimRefused(w) \/ SaveClaim(w) \/ RequeueSave(w)
                           \/ PromoteRead(w)
    BY <1>4
  <2>1. Shape(line[w])
    BY DEF Shapes
  <2>2. CASE Claim(w)
    BY <2>2, ClaimIs, ShapesFrom, NoRecAssumption DEF LineIs, Shape
  <2>3. CASE ClaimRefused(w)
    BY <2>1, <2>3, Gone, ShapesFrom DEF ClaimRefused, At, LineIs, Shape
  <2>4. CASE SaveClaim(w)
    BY <2>4, SaveClaimIs, ShapesFrom DEF LineIs, Shape
  <2>5. CASE RequeueSave(w)
    BY <2>1, <2>5, RequeueSaveIs, ShapesFrom DEF LineIs, Shape
  <2>6. CASE PromoteRead(w)
    <3>1. CASE Return(w)
      BY <3>1, Returned, IdleIs, ShapesFrom
    <3>2. CASE Goto(w, "promoteAdd")
      BY <2>1, <2>6, <3>2, Gone, ShapesFrom DEF PromoteRead, At, LineIs, Shape
    <3> QED BY <2>6, <3>1, <3>2 DEF PromoteRead
  <2> QED BY <2>2, <2>3, <2>4, <2>5, <2>6
<1>5. CASE \E w \in Workers : RequeueRead(w) \/ RateLimited(w) \/ RedisFails(w) \/ Cancel(w)
  <2> PICK w \in Workers : RequeueRead(w) \/ RateLimited(w) \/ RedisFails(w) \/ Cancel(w)
    BY <1>5
  <2>1. Shape(line[w])
    BY DEF Shapes
  <2>2. CASE RequeueRead(w)
    BY <2>1, <2>2, RequeueReadIs, ShapesFrom DEF LineIs, Shape
  <2>3. CASE RateLimited(w)
    BY <2>3, RateLimitedIs, ShapesFrom DEF LineIs, Shape
  <2>4. CASE RedisFails(w)
    BY <2>4, RedisFailsIs, ShapesFrom DEF LineIs, Shape
  <2>5. CASE Cancel(w)
    BY <2>5, CancelIs, ShapesFrom DEF LineIs, Shape
  <2> QED BY <2>2, <2>3, <2>4, <2>5
<1>6. CASE \E w \in Workers : Finish(w)
  BY <1>6, FinishIs, IdleIs, ShapesFrom DEF LineIs, Shape
<1>7. Request \/ (\E j \in Jobs : LeaseLapses(j)) => UNCHANGED line
  BY DEF Request, Attach, Create, LeaseLapses
<1>8. \A w \in Workers : /\ Heartbeat(w) => UNCHANGED line
                         /\ \/ AckRefused(w) \/ FinishRefused(w) \/ MetricRecorded(w)
                            \/ RequeuePush(w) \/ PromoteAdd(w) \/ RecoverEntry(w)
                            \/ RecoverStale(w) \/ Crash(w) \/ PromoteAddFails(w)
                            => Return(w)
  BY DEF Heartbeat, AckRefused, FinishRefused, MetricRecorded, RequeuePush, PromoteAdd,
         RecoverEntry, RecoverStale, Crash, PromoteAddFails
<1>9. UNCHANGED vars => UNCHANGED line
  BY DEF vars
<1> QED BY <1>1, <1>2, <1>3, <1>4, <1>5, <1>6, <1>7, <1>8, <1>9 DEF Next, Step, Fault

-----------------------------------------------------------------------------
(* Who knows the id of a stream entry: a line, in its local variables, or a *)
(* record, in its stream_entry_id.                                          *)
Refers(w, id) == line[w].ent = id \/ (line[w].snap # NoRec /\ line[w].snap.src = id)
Src(j, id) == job[j] # NoRec /\ job[j].src = id

(* No id from the future is known; entries have ids of their own; an entry  *)
(* known to a line or a record is an entry of that job; and nobody knows an *)
(* entry that was never read.                                               *)
Tracked ==
  /\ \A w \in Workers : line[w].ent <= lastEntry
  /\ \A w \in Workers : line[w].snap # NoRec => line[w].snap.src <= lastEntry
  /\ \A j \in Jobs : job[j] # NoRec => job[j].src <= lastEntry
  /\ \A d, e \in ready \cup pending : d.id = e.id => d = e
  /\ ready \cap pending = {}
  /\ \A e \in ready \cup pending :
       /\ \A w \in Workers : Refers(w, e.id) => e.job = JobOf(w)
       /\ \A j \in Jobs : Src(j, e.id) => e.job = j
  /\ \A e \in ready : /\ \A w \in Workers : ~Refers(w, e.id)
                      /\ \A j \in Jobs : ~Src(j, e.id)

Claiming == {"read", "rejected", "claimed"}

(* What most steps do to entries and to the knowledge of them: ids are      *)
(* only handed between a line and its job, known entries are acknowledged,  *)
(* and at most one new entry is added.                                      *)
Orderly ==
  /\ \A v \in Workers, id \in Nat \ {0} : Refers(v, id)' =>
       \/ Refers(v, id) /\ line'[v].job = line[v].job
       \/ Src(line'[v].job, id) /\ line'[v].job \in Jobs /\ line'[v].pc \notin Claiming
  /\ \A j \in Jobs, id \in Nat \ {0} : Src(j, id)' =>
       \/ Src(j, id)
       \/ \E v \in Workers : Refers(v, id) /\ JobOf(v) = j /\ line'[v].pc \notin Claiming
  /\ pending' \subseteq pending
  /\ \A e \in pending \ pending' :
       \/ \E j \in Jobs : Src(j, e.id)
       \/ \E v \in Workers : Refers(v, e.id) /\ line'[v].pc \notin Claiming
  /\ \/ UNCHANGED <<ready, lastEntry>>
     \/ \E j \in Jobs : XADD(j)

LEMMA OrderlyTracked ==
  ASSUME IInv, IInv', Tracked, Orderly
  PROVE  Tracked'
<1>0. /\ \A w \in Workers : line[w].ent \in Nat /\ (line[w].snap # NoRec => line[w].snap.src \in Nat)
      /\ \A w \in Workers : line'[w].ent \in Nat /\ (line'[w].snap # NoRec => line'[w].snap.src \in Nat)
      /\ \A j \in Jobs : job[j] # NoRec => job[j].src \in Nat
      /\ \A j \in Jobs : job'[j] # NoRec => job'[j].src \in Nat
      /\ lastEntry \in Nat /\ lastEntry' \in Nat
      /\ \A e \in ready \cup pending : e.id \in Nat \ {0} /\ e.id <= lastEntry
  BY DEF IInv, TypeOK, Line, JobRec
<1>1. lastEntry <= lastEntry'
  BY <1>0 DEF Orderly, XADD
<1>2. \A id \in Nat \ {0} :
        /\ \A w \in Workers : Refers(w, id) => id <= lastEntry
        /\ \A j \in Jobs : Src(j, id) => id <= lastEntry
  BY <1>0 DEF Tracked, Refers, Src
<1>3. \A id \in Nat \ {0} :
        /\ \A w \in Workers : Refers(w, id)' => id <= lastEntry
        /\ \A j \in Jobs : Src(j, id)' => id <= lastEntry
  BY <1>2 DEF Orderly
<1>4. /\ \A w \in Workers : line'[w].ent <= lastEntry'
      /\ \A w \in Workers : line'[w].snap # NoRec => line'[w].snap.src <= lastEntry'
      /\ \A j \in Jobs : job'[j] # NoRec => job'[j].src <= lastEntry'
  BY <1>0, <1>1, <1>3 DEF Refers, Src
<1>5. \A e \in ready \cup pending :
       /\ \A w \in Workers : Refers(w, e.id)' => e.job = JobOf(w)'
       /\ \A j \in Jobs : Src(j, e.id)' => e.job = j
  BY <1>0 DEF Tracked, Orderly, JobOf
<1>6. \A e \in ready : /\ \A w \in Workers : ~Refers(w, e.id)'
                       /\ \A j \in Jobs : ~Src(j, e.id)'
  BY <1>0 DEF Tracked, Orderly
<1>7. CASE UNCHANGED <<ready, lastEntry>>
  BY <1>4, <1>5, <1>6, <1>7 DEF Tracked, Orderly
<1>8. CASE \E j \in Jobs : XADD(j)
  <2>1. PICK j \in Jobs : XADD(j)
    BY <1>8
  <2>2. PICK e : e = [id |-> lastEntry + 1, job |-> j]
    OBVIOUS
  <2>3. ready' = ready \cup {e} /\ e.id \in Nat \ {0} /\ ~(e.id <= lastEntry)
    BY <1>0, <2>1, <2>2 DEF XADD
  <2>4. /\ \A w \in Workers : ~Refers(w, e.id)'
        /\ \A i \in Jobs : ~Src(i, e.id)'
    BY <1>3, <2>3
  <2>5. \A d \in ready \cup pending : d.id # e.id
    BY <1>0, <2>3
  <2>6. pending' \subseteq pending
    BY DEF Orderly
  <2>7. \A a, b \in ready' \cup pending' : a.id = b.id => a = b
    BY <2>3, <2>5, <2>6 DEF Tracked
  <2>8. ready' \cap pending' = {}
    BY <2>3, <2>5, <2>6 DEF Tracked
  <2>9. /\ \A d \in ready' \cup pending' :
             /\ \A w \in Workers : Refers(w, d.id)' => d.job = JobOf(w)'
             /\ \A i \in Jobs : Src(i, d.id)' => d.job = i
        /\ \A d \in ready' : /\ \A w \in Workers : ~Refers(w, d.id)'
                             /\ \A i \in Jobs : ~Src(i, d.id)'
    BY <1>5, <1>6, <2>3, <2>4, <2>6
  <2> QED BY <1>4, <2>7, <2>8, <2>9 DEF Tracked
<1> QED BY <1>7, <1>8 DEF Orderly

-----------------------------------------------------------------------------
(* The steps other than XREADGROUP and XAUTOCLAIM are orderly.              *)

(* A line that is idle, or stands where it has read no entry, knows none.   *)
LEMMA KnowsNothing ==
  ASSUME NEW w \in Workers, line'[w].ent = 0, line'[w].snap = NoRec
  PROVE  \A id \in Nat \ {0} : ~Refers(w, id)'
  BY DEF Refers

LEMMA OrderlyReturn ==
  ASSUME IInv, NEW w \in Workers, Return(w),
         \A j \in Jobs, id \in Nat \ {0} : Src(j, id)' =>
           Src(j, id) \/ (Refers(w, id) /\ JobOf(w) = j),
         pending' \subseteq pending,
         \A e \in pending \ pending' : (\E j \in Jobs : Src(j, e.id)) \/ Refers(w, e.id),
         UNCHANGED <<ready, lastEntry>> \/ \E j \in Jobs : XADD(j)
  PROVE  Orderly
<1>1. line'[w].ent = 0 /\ line'[w].snap = NoRec /\ line'[w].pc \notin Claiming /\ Others(w)
  BY Returned DEF LineIs, Claiming
<1>2. \A v \in Workers, id \in Nat \ {0} : Refers(v, id)' => Refers(v, id) /\ line'[v].job = line[v].job
  BY <1>1, KnowsNothing DEF Others, Refers
<1> QED BY <1>1, <1>2 DEF Orderly

LEMMA OrderlyMove ==
  ASSUME NEW w \in Workers, Others(w), UNCHANGED <<job, ready, pending, lastEntry>>,
         \A id \in Nat \ {0} : Refers(w, id)' =>
           \/ Refers(w, id) /\ line'[w].job = line[w].job
           \/ Src(line'[w].job, id) /\ line'[w].job \in Jobs /\ line'[w].pc \notin Claiming
  PROVE  Orderly
  BY DEF Orderly, Others, Refers, Src

LEMMA OrderlyQuiet ==
  ASSUME IInv, Shapes, NEW w \in Workers,
         \/ Promote(w) \/ ReadStale(w) \/ ClaimRefused(w) \/ FinishRefused(w)
         \/ MetricRecorded(w) \/ RequeueRead(w) \/ RateLimited(w) \/ PromoteRead(w)
         \/ Crash(w) \/ RedisFails(w) \/ PromoteAddFails(w) \/ Cancel(w)
  PROVE  Orderly
<1>1. UNCHANGED <<job, ready, pending, lastEntry>>
  BY DEF Promote, ReadStale, ClaimRefused, FinishRefused, MetricRecorded, RequeueRead,
         RateLimited, PromoteRead, Crash, RedisFails, PromoteAddFails, Cancel, queueVars
<1>2. CASE Return(w)
  <2>1. \A j \in Jobs, id \in Nat \ {0} : Src(j, id)' => Src(j, id)
    BY <1>1 DEF Src
  <2> QED BY <1>1, <1>2, <2>1, OrderlyReturn
<1>3. CASE Promote(w)
  BY <1>1, <1>3, PromoteIs, OrderlyMove, KnowsNothing DEF LineIs
<1>4. CASE ReadStale(w)
  BY <1>1, <1>4, ReadStaleIs, OrderlyMove, KnowsNothing DEF LineIs
<1>5. CASE \E p \in Pcs : Goto(w, p)
  BY <1>1, <1>5, Gone, OrderlyMove DEF LineIs, Refers
<1>6. CASE RateLimited(w)
  BY <1>1, <1>6, RateLimitedIs, OrderlyMove DEF LineIs, Refers, JobOf
<1>7. CASE RedisFails(w)
  BY <1>1, <1>7, RedisFailsIs, OrderlyMove DEF LineIs, Refers, JobOf
<1>8. CASE Cancel(w)
  BY <1>1, <1>8, CancelIs, OrderlyMove DEF LineIs, Refers, JobOf
<1>9. CASE RequeueRead(w)
  <2>1. PICK snap \in JobRec :
          /\ snap.src = job[JobOf(w)].src
          /\ LineIs(line'[w], "save", JobOf(w), line[w].ent, line[w].token, line[w].why, snap)
    BY <1>9, RequeueReadIs
  <2>2. JobOf(w) \in Jobs /\ job[JobOf(w)] # NoRec /\ Others(w)
    BY <1>9, RequeueReadIs
  <2>3. "save" \notin Claiming
    BY DEF Claiming
  <2> QED BY <1>1, <2>1, <2>2, <2>3, OrderlyMove DEF LineIs, Refers, JobOf, Src
<1> QED BY <1>2, <1>3, <1>4, <1>5, <1>6, <1>7, <1>8, <1>9
        DEF ClaimRefused, FinishRefused, MetricRecorded, PromoteRead, Crash, PromoteAddFails, Pcs

(* A record is replaced by one with the same stream_entry_id, or with one   *)
(* the line knows.                                                          *)
LEMMA SrcReplaced ==
  ASSUME IInv, NEW j \in Jobs, NEW rec, job' = [job EXCEPT ![j] = rec], NEW i \in Jobs, NEW id,
         Src(i, id)'
  PROVE  (i = j /\ rec.src = id) \/ (i # j /\ Src(i, id))
  BY DEF Src, IInv, TypeOK

LEMMA OrderlyStill ==
  ASSUME UNCHANGED <<line, ready, pending, lastEntry>>,
         \A j \in Jobs, id \in Nat \ {0} : Src(j, id)' => Src(j, id)
  PROVE  Orderly
  BY DEF Orderly, Refers

LEMMA OrderlyAttach ==
  ASSUME IInv, NEW k \in Keys, NEW u \in Users \cup {NoUser}, Attach(k, u)
  PROVE  Orderly
<1>1. PICK j \in Jobs, rec \in JobRec :
        job[j] \in JobRec /\ rec.src = job[j].src /\ job' = [job EXCEPT ![j] = rec]
  BY AttachIs
<1>2. \A i \in Jobs, id \in Nat \ {0} : Src(i, id)' => Src(i, id)
  BY <1>1, SrcReplaced, NoRecAssumption DEF Src
<1> QED BY <1>2, OrderlyStill DEF Attach, queueVars

LEMMA CreateIs ==
  ASSUME IInv, NEW j \in Jobs, NEW k \in Keys, NEW u \in Users \cup {NoUser}, Create(j, k, u)
  PROVE  \E rec \in JobRec :
           /\ rec.status = "queued" /\ rec.token = 0 /\ rec.src = 0 /\ rec.key = k /\ rec.user = u
           /\ job' = [job EXCEPT ![j] = rec]
<1>1. PICK rec : rec = [status |-> "queued", token |-> 0, src |-> 0, retry |-> 0,
                        subs |-> {u} \ {NoUser}, key |-> k, user |-> u]
  OBVIOUS
<1>2. rec \in JobRec
  BY <1>1 DEF JobRec
<1> QED BY <1>1, <1>2 DEF Create

LEMMA OrderlyCreate ==
  ASSUME IInv, NEW j \in Jobs, NEW k \in Keys, NEW u \in Users \cup {NoUser}, Create(j, k, u)
  PROVE  Orderly
<1>1. PICK rec \in JobRec : rec.src = 0 /\ job' = [job EXCEPT ![j] = rec]
  BY CreateIs
<1>2. \A i \in Jobs, id \in Nat \ {0} : Src(i, id)' => Src(i, id)
  BY <1>1, SrcReplaced
<1>3. UNCHANGED <<line, pending>> /\ XADD(j)
  BY DEF Create
<1> QED BY <1>2, <1>3 DEF Orderly, Refers

LEMMA OrderlyClaim ==
  ASSUME IInv, Shapes, NEW w \in Workers, Claim(w)
  PROVE  Orderly
<1>1. PICK rec, snap \in JobRec :
        /\ rec.src = job[JobOf(w)].src /\ snap.src = line[w].ent
        /\ job' = [job EXCEPT ![JobOf(w)] = rec]
        /\ LineIs(line'[w], "claimed", JobOf(w), line[w].ent, lastToken + 1, "none", snap)
  BY ClaimIs
<1>2. JobOf(w) \in Jobs /\ job[JobOf(w)] # NoRec /\ Others(w)
  BY ClaimIs DEF Queued
<1>3. \A i \in Jobs, id \in Nat \ {0} : Src(i, id)' => Src(i, id)
  BY <1>1, <1>2, SrcReplaced DEF Src
<1>4. \A v \in Workers : \A id : Refers(v, id)' => Refers(v, id) /\ line'[v].job = line[v].job
  BY <1>1, <1>2 DEF Others, Refers, LineIs, JobOf
<1> QED BY <1>3, <1>4 DEF Orderly, Claim, queueVars

LEMMA OrderlySave ==
  ASSUME IInv, Shapes, NEW w \in Workers, SaveClaim(w) \/ RequeueSave(w)
  PROVE  Orderly
<1>1. /\ JobOf(w) \in Jobs /\ line[w].snap \in JobRec
      /\ job' = [job EXCEPT ![JobOf(w)] = line[w].snap]
      /\ line'[w].pc \in {"execute", "push"} /\ line'[w].job = line[w].job
      /\ line'[w].ent = line[w].ent /\ line'[w].snap \in {line[w].snap, NoRec}
      /\ Others(w)
  BY SaveClaimIs, RequeueSaveIs DEF LineIs, JobOf
<1>2. \A i \in Jobs, id \in Nat \ {0} :
        Src(i, id)' => Src(i, id) \/ (Refers(w, id) /\ JobOf(w) = i /\ line'[w].pc \notin Claiming)
  BY <1>1, SrcReplaced, NoRecAssumption DEF Refers, Claiming
<1>3. \A v \in Workers : \A id : Refers(v, id)' => Refers(v, id) /\ line'[v].job = line[v].job
  BY <1>1 DEF Others, Refers
<1> QED BY <1>2, <1>3 DEF Orderly, SaveClaim, RequeueSave, queueVars

LEMMA OrderlyFinish ==
  ASSUME IInv, Shapes, NEW w \in Workers, Finish(w)
  PROVE  Orderly
<1>1. PICK rec \in JobRec : rec.src = job[JobOf(w)].src /\ job' = [job EXCEPT ![JobOf(w)] = rec]
  BY FinishIs
<1>2. JobOf(w) \in Jobs /\ job[JobOf(w)] # NoRec /\ XACK(job[JobOf(w)].src) /\ Others(w)
  BY FinishIs DEF Holds, Running
<1>3. \A i \in Jobs, id \in Nat \ {0} : Src(i, id)' => Src(i, id)
  BY <1>1, <1>2, SrcReplaced DEF Src
<1>4. \A id \in Nat \ {0} : Refers(w, id)' => Refers(w, id) /\ line'[w].job = line[w].job
  BY FinishIs, IdleIs DEF LineIs, Refers, JobOf
<1>5. \A v \in Workers, id \in Nat \ {0} : Refers(v, id)' => Refers(v, id) /\ line'[v].job = line[v].job
  BY <1>2, <1>4 DEF Others, Refers
<1>6. pending' \subseteq pending /\ \A e \in pending \ pending' : Src(JobOf(w), e.id)
  BY <1>2 DEF XACK, Src
<1> QED BY <1>2, <1>3, <1>5, <1>6 DEF Orderly, Finish

LEMMA OrderlyAck ==
  ASSUME IInv, Shapes, NEW w \in Workers, AckRefused(w) \/ RequeuePush(w) \/ PromoteAdd(w)
  PROVE  Orderly
<1>1. Return(w) /\ UNCHANGED job
  BY DEF AckRefused, RequeuePush, PromoteAdd
<1>2. \A j \in Jobs, id \in Nat \ {0} : Src(j, id)' => Src(j, id)
  BY <1>1 DEF Src
<1>3. UNCHANGED <<ready, lastEntry>> \/ XADD(JobOf(w))
  BY DEF AckRefused, RequeuePush, PromoteAdd
<1>4. line[w].pc # "loop" /\ (line[w].pc = "push" => line[w].snap \in JobRec)
  BY LineFacts DEF AckRefused, RequeuePush, PromoteAdd, At, LineOK
<1>5. JobOf(w) \in Jobs
  BY <1>4, LineFacts DEF LineOK, JobOf
<1>6. pending' \subseteq pending /\ \A e \in pending \ pending' : Refers(w, e.id)
  BY <1>4, NoRecAssumption DEF AckRefused, RequeuePush, PromoteAdd, XACK, Refers, At
<1> QED BY <1>1, <1>2, <1>3, <1>5, <1>6, OrderlyReturn

LEMMA OrderlyRecover ==
  ASSUME IInv, Shapes, NEW w \in Workers, RecoverEntry(w) \/ RecoverStale(w)
  PROVE  Orderly
<1>1. Return(w) /\ JobOf(w) \in Jobs /\ line[w].ent \in Nat
  BY LineFacts DEF RecoverEntry, RecoverStale, At, LineOK, JobOf, Line
<1>2. CASE UNCHANGED <<job, ready, lastEntry>> /\ (UNCHANGED pending \/ XACK(line[w].ent))
  <2>1. \A j \in Jobs, id \in Nat \ {0} : Src(j, id)' => Src(j, id)
    BY <1>2 DEF Src
  <2>2. pending' \subseteq pending /\ \A e \in pending \ pending' : Refers(w, e.id)
    BY <1>2 DEF XACK, Refers
  <2> QED BY <1>1, <1>2, <2>1, <2>2, OrderlyReturn
<1>3. CASE \E src \in Nat : /\ Open(JobOf(w)) /\ BackToQueue(JobOf(w), src)
                            /\ Refers(w, src) \/ Src(JobOf(w), src)
  <2>1. PICK src \in Nat : /\ Open(JobOf(w)) /\ BackToQueue(JobOf(w), src)
                           /\ Refers(w, src) \/ Src(JobOf(w), src)
    BY <1>3
  <2>2. PICK rec \in JobRec : rec.src = src /\ job' = [job EXCEPT ![JobOf(w)] = rec]
    BY <1>1, <2>1, BackToQueueIs
  <2>3. \A i \in Jobs, id \in Nat \ {0} :
          Src(i, id)' => Src(i, id) \/ (Refers(w, id) /\ JobOf(w) = i)
    BY <1>1, <2>1, <2>2, SrcReplaced
  <2>4. pending' \subseteq pending /\ XADD(JobOf(w))
    BY <2>1 DEF BackToQueue, XACK
  <2>5. \A e \in pending \ pending' : (\E j \in Jobs : Src(j, e.id)) \/ Refers(w, e.id)
    BY <1>1, <2>1 DEF BackToQueue, XACK
  <2> QED BY <1>1, <2>3, <2>4, <2>5, OrderlyReturn
<1>4. CASE RecoverEntry(w)
  BY <1>1, <1>2, <1>3, <1>4 DEF RecoverEntry, Refers, queueVars
<1>5. CASE RecoverStale(w)
  <2>1. Running(JobOf(w)) => job[JobOf(w)].src \in Nat /\ Src(JobOf(w), job[JobOf(w)].src)
                             /\ Open(JobOf(w))
    BY <1>1 DEF Running, Src, Open, IInv, TypeOK, JobRec
  <2> QED BY <1>1, <1>2, <1>3, <1>5, <2>1 DEF RecoverStale, queueVars
<1> QED BY <1>4, <1>5

LEMMA StepOrderly ==
  ASSUME IInv, Shapes, [Next]_vars, \A w \in Workers : ~Deliver(w) /\ ~AutoClaim(w)
  PROVE  Orderly
<1>1. CASE Request
  BY <1>1, OrderlyAttach, OrderlyCreate DEF Request
<1>2. CASE \/ \E j \in Jobs : LeaseLapses(j)
           \/ \E w \in Workers : Heartbeat(w)
           \/ UNCHANGED vars
  <2>1. UNCHANGED <<job, line, ready, pending, lastEntry>>
    BY <1>2 DEF LeaseLapses, Heartbeat, vars, queueVars
  <2> QED BY <2>1, OrderlyStill DEF Src
<1>3. CASE \E w \in Workers : PickUp(w)
  BY <1>3, OrderlyQuiet DEF PickUp
<1>4. CASE \E w \in Workers : Step(w)
  BY <1>4, OrderlyQuiet, OrderlyClaim, OrderlySave, OrderlyFinish, OrderlyAck, OrderlyRecover
     DEF Step
<1>5. CASE \E w \in Workers : RateLimited(w) \/ Fault(w)
  BY <1>5, OrderlyQuiet DEF Fault
<1> QED BY <1>1, <1>2, <1>3, <1>4, <1>5 DEF Next

LEMMA DeliverTracked ==
  ASSUME IInv, Shapes, Tracked, NEW w \in Workers, Deliver(w)
  PROVE  Tracked'
<1>1. PICK e \in ready :
        /\ LineIs(line'[w], "read", e.job, e.id, 0, "none", NoRec) /\ Others(w)
        /\ ready' = ready \ {e} /\ pending' = pending \cup {e}
  BY DeliverIs
<1>2. UNCHANGED <<job, lastEntry>> /\ e.id <= lastEntry
  BY DEF Deliver, IInv, TypeOK
<1>3. \A v \in Workers : \A id : Refers(v, id)' => IF v = w THEN id = e.id ELSE Refers(v, id)
  BY <1>1 DEF Others, Refers, LineIs
<1>4. \A j \in Jobs : \A id : Src(j, id)' <=> Src(j, id)
  BY <1>2 DEF Src
<1>5. /\ \A v \in Workers : line'[v].ent <= lastEntry'
      /\ \A v \in Workers : line'[v].snap # NoRec => line'[v].snap.src <= lastEntry'
      /\ \A j \in Jobs : job'[j] # NoRec => job'[j].src <= lastEntry'
  BY <1>1, <1>2 DEF Tracked, Others, LineIs
<1>6. /\ \A c, d \in ready' \cup pending' : c.id = d.id => c = d
      /\ ready' \cap pending' = {}
  BY <1>1 DEF Tracked
<1>7. \A d \in ready' \cup pending' :
        /\ \A v \in Workers : Refers(v, d.id)' => d.job = JobOf(v)'
        /\ \A j \in Jobs : Src(j, d.id)' => d.job = j
  BY <1>1, <1>3, <1>4 DEF Tracked, JobOf, LineIs, Others
<1>8. \A d \in ready' : /\ \A v \in Workers : ~Refers(v, d.id)'
                        /\ \A j \in Jobs : ~Src(j, d.id)'
  BY <1>1, <1>3, <1>4 DEF Tracked
<1> QED BY <1>5, <1>6, <1>7, <1>8 DEF Tracked

LEMMA AutoClaimTracked ==
  ASSUME IInv, Shapes, Tracked, NEW w \in Workers, AutoClaim(w)
  PROVE  Tracked'
<1>1. PICK e \in pending :
        LineIs(line'[w], "recover", e.job, e.id, 0, "none", NoRec) /\ Others(w)
  BY AutoClaimIs
<1>2. UNCHANGED <<job, ready, pending, lastEntry>> /\ e.id <= lastEntry
  BY DEF AutoClaim, queueVars, IInv, TypeOK
<1>3. \A v \in Workers : \A id : Refers(v, id)' => IF v = w THEN id = e.id ELSE Refers(v, id)
  BY <1>1 DEF Others, Refers, LineIs
<1>4. \A j \in Jobs : \A id : Src(j, id)' <=> Src(j, id)
  BY <1>2 DEF Src
<1>5. /\ \A v \in Workers : line'[v].ent <= lastEntry'
      /\ \A v \in Workers : line'[v].snap # NoRec => line'[v].snap.src <= lastEntry'
      /\ \A j \in Jobs : job'[j] # NoRec => job'[j].src <= lastEntry'
  BY <1>1, <1>2 DEF Tracked, Others, LineIs
<1>7. \A d \in ready' \cup pending' :
        /\ \A v \in Workers : Refers(v, d.id)' => d.job = JobOf(v)'
        /\ \A j \in Jobs : Src(j, d.id)' => d.job = j
  BY <1>1, <1>2, <1>3, <1>4 DEF Tracked, JobOf, LineIs, Others
<1>8. \A d \in ready' : /\ \A v \in Workers : ~Refers(v, d.id)'
                        /\ \A j \in Jobs : ~Src(j, d.id)'
  BY <1>1, <1>2, <1>3, <1>4 DEF Tracked
<1> QED BY <1>2, <1>5, <1>7, <1>8 DEF Tracked

LEMMA StepTracked ==
  ASSUME IInv, IInv', Shapes, Tracked, [Next]_vars
  PROVE  Tracked'
<1>1. CASE \A w \in Workers : ~Deliver(w) /\ ~AutoClaim(w)
  BY <1>1, StepOrderly, OrderlyTracked
<1> QED BY <1>1, DeliverTracked, AutoClaimTracked

-----------------------------------------------------------------------------
(* A running job can be found again.                                        *)

LEMMA UsedGrows ==
  ASSUME IInv, [Next]_vars, NEW b \in {"crash", "error", "cancel", "late", "slow"},
         used'[b] = 0
  PROVE  used[b] = 0
<1>1. UNCHANGED used \/ \E c \in {"crash", "error", "cancel", "late", "slow"} : \E m : Spend(c, m)
  <2>1. CASE Request \/ UNCHANGED vars
    BY <2>1 DEF Request, Attach, Create, vars
  <2>2. CASE \E j \in Jobs : LeaseLapses(j)
    BY <2>2 DEF LeaseLapses
  <2>3. CASE \E w \in Workers : PickUp(w)
    BY <2>3 DEF PickUp, Deliver, Promote, AutoClaim, ReadStale
  <2>4. CASE \E w \in Workers : Step(w)
    BY <2>4 DEF Step, Claim, ClaimRefused, AckRefused, SaveClaim, Finish, FinishRefused,
       MetricRecorded, RequeueRead, RequeueSave, RequeuePush, PromoteRead, PromoteAdd,
       RecoverEntry, RecoverStale
  <2>5. CASE \E w \in Workers : Heartbeat(w) \/ RateLimited(w) \/ Fault(w)
    BY <2>5 DEF Heartbeat, RateLimited, Fault, Crash, RedisFails, PromoteAddFails, Cancel
  <2> QED BY <2>1, <2>2, <2>3, <2>4, <2>5 DEF Next
<1> QED BY <1>1 DEF Spend, IInv, TypeOK

(* The entry a claim works on is its own: it is still pending, and nobody   *)
(* else has read it or recovered it.                                        *)
OwnEntry(w) ==
  /\ \E e \in pending : e.id = line[w].ent
  /\ \A v \in Workers \ {w} : ~Refers(v, line[w].ent)
  /\ \A j \in Jobs : ~Src(j, line[w].ent)

ClaimsOwn == \A w \in Workers : line[w].pc \in Claiming => OwnEntry(w)

(* An entry that nobody is about to acknowledge.                            *)
Keeps(e, j) ==
  /\ e.job = j
  /\ \A v \in Workers : line[v].ent = e.id => line[v].pc \notin {"read", "rejected"}
  /\ \A v \in Workers : line[v].pc = "push" => line[v].snap.src # e.id

RunningKept == \A j \in Jobs : Running(j) => \E e \in pending : Keeps(e, j)

(* What every step but XREADGROUP and XAUTOCLAIM respects.                  *)
Careful ==
  /\ \A v \in Workers : line'[v].pc \in Claiming =>
       /\ line[v].pc \in Claiming /\ line'[v].ent = line[v].ent
       /\ line'[v].pc # "claimed" => line[v].pc # "claimed"
  /\ \A v \in Workers : line'[v].pc = "push" =>
       /\ line'[v].snap = line[v].snap
       /\ line[v].pc = "push" \/ ~Running(JobOf(v))'
  /\ \A e \in pending \ pending' :
       \/ ~Running(e.job)'
       \/ \E v \in Workers : \/ line[v].pc = "rejected" /\ line[v].ent = e.id
                             \/ line[v].pc = "push" /\ line[v].snap.src = e.id
  /\ \A j \in Jobs : Running(j)' =>
       \/ Running(j)
       \/ \E w \in Workers : /\ line[w].pc \in Claiming /\ JobOf(w) = j
                             /\ line'[w].pc \in {"claimed", "execute"} /\ UNCHANGED pending

LEMMA CarefulClaimsOwn ==
  ASSUME IInv, ClaimsOwn, Orderly, Careful
  PROVE  ClaimsOwn'
<1> SUFFICES ASSUME NEW w \in Workers, line'[w].pc \in Claiming PROVE OwnEntry(w)'
  BY DEF ClaimsOwn
<1>1. line[w].pc \in Claiming /\ line'[w].ent = line[w].ent
  BY DEF Careful
<1>2. OwnEntry(w)
  BY <1>1 DEF ClaimsOwn
<1>3. PICK e \in pending : e.id = line[w].ent
  BY <1>2 DEF OwnEntry
<1>4. e.id \in Nat \ {0}
  BY DEF IInv, TypeOK
<1>5. e \in pending'
  BY <1>2, <1>3 DEF OwnEntry, Orderly
<1>6. \A v \in Workers \ {w} : ~Refers(v, e.id)'
  BY <1>2, <1>3, <1>4 DEF OwnEntry, Orderly
<1>7. \A j \in Jobs : ~Src(j, e.id)'
  BY <1>2, <1>3, <1>4 DEF OwnEntry, Orderly
<1> QED BY <1>1, <1>3, <1>5, <1>6, <1>7 DEF OwnEntry

LEMMA CarefulRunningKept ==
  ASSUME IInv, IInv', Shapes', Tracked, ClaimsOwn, RunningKept, Orderly, Careful
  PROVE  RunningKept'
<1> SUFFICES ASSUME NEW j \in Jobs, Running(j)' PROVE \E e \in pending' : Keeps(e, j)'
  BY DEF RunningKept
<1>1. \A v \in Workers : line'[v].pc = "push" => line'[v].snap # NoRec
  BY NoRecAssumption DEF IInv, LinesOK, LineOK
<1>2. CASE Running(j)
  <2>1. PICK e \in pending : Keeps(e, j)
    BY <1>2 DEF RunningKept
  <2>2. e \in pending'
    BY <2>1 DEF Careful, Keeps
  <2>3. \A v \in Workers : line'[v].ent = e.id => line'[v].pc \notin {"read", "rejected"}
    BY <2>1 DEF Careful, Keeps, Claiming
  <2>4. \A v \in Workers : line'[v].pc = "push" => line'[v].snap.src # e.id
    <3> SUFFICES ASSUME NEW v \in Workers, line'[v].pc = "push", line'[v].snap.src = e.id
                 PROVE  FALSE
      OBVIOUS
    <3>1. line'[v].snap = line[v].snap /\ line[v].pc # "push" /\ ~Running(JobOf(v))'
      BY <2>1 DEF Careful, Keeps
    <3>2. Refers(v, e.id)
      BY <1>1, <3>1 DEF Refers
    <3>3. JobOf(v) = j
      BY <2>1, <3>2 DEF Tracked, Keeps
    <3>4. Refers(v, e.id)' /\ e.id \in Nat \ {0} /\ e \in ready \cup pending
      BY <1>1 DEF Refers, IInv, TypeOK
    <3>5. line'[v].job = line[v].job \/ (Src(line'[v].job, e.id) /\ line'[v].job \in Jobs)
      BY <3>4 DEF Orderly
    <3>6. line'[v].job = j
      BY <2>1, <3>3, <3>4, <3>5 DEF Tracked, Keeps, JobOf
    <3> QED BY <3>1, <3>6 DEF JobOf
  <2> QED BY <2>1, <2>2, <2>3, <2>4 DEF Keeps
<1>3. CASE ~Running(j)
  <2>1. PICK w \in Workers : /\ line[w].pc \in Claiming /\ JobOf(w) = j
                             /\ line'[w].pc \in {"claimed", "execute"} /\ UNCHANGED pending
    BY <1>3 DEF Careful
  <2>2. OwnEntry(w)
    BY <2>1 DEF ClaimsOwn
  <2>3. PICK e \in pending : e.id = line[w].ent
    BY <2>2 DEF OwnEntry
  <2>4. e.job = j
    BY <2>1, <2>3 DEF Tracked, Refers
  <2>5. \A v \in Workers : line'[v].ent = e.id => line'[v].pc \notin {"read", "rejected"}
    BY <2>1, <2>2, <2>3 DEF Careful, Claiming, OwnEntry, Refers
  <2>6. \A v \in Workers : line'[v].pc = "push" => line'[v].snap.src # e.id
    BY <1>1, <2>1, <2>2, <2>3 DEF Careful, OwnEntry, Refers
  <2> QED BY <2>1, <2>4, <2>5, <2>6 DEF Keeps
<1> QED BY <1>2, <1>3

-----------------------------------------------------------------------------
LEMMA CarefulMove ==
  ASSUME NEW w \in Workers, Others(w), line'[w].pc \notin Claiming \cup {"push"},
         \A e \in pending \ pending' :
           \/ ~Running(e.job)'
           \/ line[w].pc = "rejected" /\ line[w].ent = e.id
           \/ line[w].pc = "push" /\ line[w].snap.src = e.id,
         \A j \in Jobs : Running(j)' =>
           \/ Running(j)
           \/ /\ line[w].pc \in Claiming /\ JobOf(w) = j
              /\ line'[w].pc = "execute" /\ UNCHANGED pending
  PROVE  Careful
  BY DEF Careful, Others

LEMMA CarefulQuiet ==
  ASSUME IInv, Shapes, NEW w \in Workers,
         \/ Promote(w) \/ ReadStale(w) \/ ClaimRefused(w) \/ FinishRefused(w)
         \/ MetricRecorded(w) \/ RequeueRead(w) \/ RateLimited(w) \/ PromoteRead(w)
         \/ Crash(w) \/ RedisFails(w) \/ PromoteAddFails(w) \/ Cancel(w)
  PROVE  Careful
<1>1. UNCHANGED <<job, pending>>
  BY DEF Promote, ReadStale, ClaimRefused, FinishRefused, MetricRecorded, RequeueRead,
         RateLimited, PromoteRead, Crash, RedisFails, PromoteAddFails, Cancel, queueVars
<1>2. \A j \in Jobs : Running(j)' => Running(j)
  BY <1>1 DEF Running
<1>3. CASE ClaimRefused(w)
  BY <1>1, <1>2, <1>3, Gone DEF ClaimRefused, Careful, Others, At, Claiming, LineIs
<1>4. CASE ~ClaimRefused(w)
  <2>1. /\ line'[w].pc \in {"loop", "promote", "stale", "save", "requeue", "promoteAdd", "failed"}
        /\ Others(w)
    BY <1>4, PromoteIs, ReadStaleIs, RequeueReadIs, RateLimitedIs, RedisFailsIs, CancelIs,
       Returned, Gone
       DEF LineIs, FinishRefused, MetricRecorded, PromoteRead, Crash, PromoteAddFails
  <2> QED BY <1>1, <1>2, <2>1, CarefulMove DEF Claiming
<1> QED BY <1>3, <1>4

(* A record is replaced.                                                    *)
LEMMA RunningReplaced ==
  ASSUME IInv, NEW j \in Jobs, NEW rec \in JobRec, job' = [job EXCEPT ![j] = rec], NEW i \in Jobs
  PROVE  Running(i)' <=> IF i = j THEN rec.status = "running" ELSE Running(i)
  BY NoRecAssumption DEF Running, IInv, TypeOK

LEMMA CarefulStill ==
  ASSUME UNCHANGED <<line, pending>>, \A j \in Jobs : Running(j)' => Running(j)
  PROVE  Careful
  BY DEF Careful, Claiming

LEMMA CarefulRequest == ASSUME IInv, Request PROVE Careful
<1>1. UNCHANGED <<line, pending>>
  BY DEF Request, Attach, Create, queueVars
<1>2. \A j \in Jobs : Running(j)' => Running(j)
  <2>1. CASE \E k \in Keys, u \in Users \cup {NoUser} : Attach(k, u)
    <3>1. PICK j \in Jobs, rec \in JobRec :
            /\ job[j] \in JobRec /\ rec.status = job[j].status
            /\ job' = [job EXCEPT ![j] = rec]
      BY <2>1, AttachIs
    <3> QED BY <3>1, RunningReplaced, NoRecAssumption DEF Running
  <2>2. CASE \E k \in Keys, u \in Users \cup {NoUser}, j \in Jobs : Create(j, k, u)
    BY <2>2, CreateIs, RunningReplaced
  <2> QED BY <2>1, <2>2 DEF Request
<1> QED BY <1>1, <1>2, CarefulStill

LEMMA CarefulClaim == ASSUME IInv, Shapes, NEW w \in Workers, Claim(w) PROVE Careful
<1>1. /\ line[w].pc = "read" /\ JobOf(w) \in Jobs /\ Others(w)
      /\ line'[w].pc = "claimed" /\ line'[w].ent = line[w].ent
      /\ \E rec \in JobRec : job' = [job EXCEPT ![JobOf(w)] = rec]
  BY ClaimIs DEF LineIs
<1>2. \A j \in Jobs : Running(j)' => Running(j) \/ JobOf(w) = j
  BY <1>1, RunningReplaced
<1>3. UNCHANGED pending
  BY DEF Claim, queueVars
<1> QED BY <1>1, <1>2, <1>3 DEF Careful, Others, Claiming

LEMMA CarefulSave ==
  ASSUME IInv, Shapes, NEW w \in Workers, SaveClaim(w) \/ RequeueSave(w) PROVE Careful
<1>1. UNCHANGED pending
  BY DEF SaveClaim, RequeueSave, queueVars
<1>2. CASE SaveClaim(w)
  <2>1. /\ line[w].pc = "claimed" /\ JobOf(w) \in Jobs /\ Others(w) /\ line'[w].pc = "execute"
        /\ \E rec \in JobRec : job' = [job EXCEPT ![JobOf(w)] = rec]
    BY <1>2, SaveClaimIs DEF LineIs
  <2>2. \A j \in Jobs : Running(j)' => Running(j) \/ JobOf(w) = j
    BY <2>1, RunningReplaced
  <2> QED BY <1>1, <2>1, <2>2, CarefulMove DEF Claiming
<1>3. CASE RequeueSave(w)
  <2>1. /\ line[w].pc = "save" /\ JobOf(w) \in Jobs /\ Others(w) /\ line'[w].pc = "push"
        /\ line'[w].snap = line[w].snap /\ line'[w].job = JobOf(w)
        /\ line[w].snap \in JobRec /\ line[w].snap.status = "queued"
        /\ job' = [job EXCEPT ![JobOf(w)] = line[w].snap]
    BY <1>3, RequeueSaveIs DEF LineIs
  <2>2. ~Running(JobOf(w))'
    BY <2>1 DEF Running, JobOf, IInv, TypeOK
  <2>3. \A j \in Jobs : Running(j)' => Running(j)
    BY <2>1, RunningReplaced
  <2> QED BY <1>1, <2>1, <2>2, <2>3 DEF Careful, Others, Claiming
<1> QED BY <1>2, <1>3

LEMMA CarefulFinish ==
  ASSUME IInv, Shapes, Tracked, NEW w \in Workers, Finish(w) PROVE Careful
<1>1. PICK rec \in JobRec : rec.status = "finished" /\ job' = [job EXCEPT ![JobOf(w)] = rec]
  BY FinishIs
<1>2. /\ JobOf(w) \in Jobs /\ job[JobOf(w)] # NoRec /\ XACK(job[JobOf(w)].src) /\ Others(w)
      /\ line'[w].pc \in {"metric", "loop"}
  BY FinishIs, IdleIs DEF Holds, Running, LineIs
<1>3. \A j \in Jobs : Running(j)' => Running(j) /\ j # JobOf(w)
  BY <1>1, <1>2, RunningReplaced
<1>4. \A e \in pending \ pending' : e.job = JobOf(w)
  BY <1>2 DEF XACK, Tracked, Src
<1>5. \A e \in pending \ pending' : ~Running(e.job)'
  BY <1>2, <1>3, <1>4
<1> QED BY <1>2, <1>3, <1>5, CarefulMove DEF Claiming

LEMMA CarefulAck ==
  ASSUME IInv, Shapes, NEW w \in Workers, AckRefused(w) \/ RequeuePush(w) \/ PromoteAdd(w)
  PROVE  Careful
<1>1. line'[w].pc = "loop" /\ Others(w) /\ UNCHANGED job
  BY Returned DEF AckRefused, RequeuePush, PromoteAdd, LineIs
<1>2. \A j \in Jobs : Running(j)' => Running(j)
  BY <1>1 DEF Running
<1>3. \A e \in pending \ pending' :
        \/ line[w].pc = "rejected" /\ line[w].ent = e.id
        \/ line[w].pc = "push" /\ line[w].snap.src = e.id
  BY DEF AckRefused, RequeuePush, PromoteAdd, XACK, At
<1> QED BY <1>1, <1>2, <1>3, CarefulMove DEF Claiming

LEMMA CarefulRecover ==
  ASSUME IInv, Shapes, Tracked, NEW w \in Workers, RecoverEntry(w) \/ RecoverStale(w)
  PROVE  Careful
<1>1. line'[w].pc = "loop" /\ Others(w) /\ JobOf(w) \in Jobs /\ line[w].ent \in Nat
  BY LineFacts, Returned DEF RecoverEntry, RecoverStale, LineIs, At, LineOK, JobOf, Line
<1>2. CASE UNCHANGED <<job, pending>>
  <2>1. \A j \in Jobs : Running(j)' => Running(j)
    BY <1>2 DEF Running
  <2> QED BY <1>1, <1>2, <2>1, CarefulMove DEF Claiming
<1>3. CASE Finished(JobOf(w)) /\ UNCHANGED job /\ XACK(line[w].ent)
  <2>1. \A j \in Jobs : Running(j)' => Running(j) /\ j # JobOf(w)
    BY <1>3 DEF Running, Finished
  <2>2. \A e \in pending \ pending' : e.job = JobOf(w)
    BY <1>3 DEF XACK, Tracked, Refers
  <2>3. \A e \in pending \ pending' : ~Running(e.job)'
    BY <1>1, <2>1, <2>2
  <2> QED BY <1>1, <2>1, <2>3, CarefulMove DEF Claiming
<1>4. CASE \E src \in Nat : /\ Open(JobOf(w)) /\ BackToQueue(JobOf(w), src)
                            /\ Refers(w, src) \/ Src(JobOf(w), src)
  <2>1. PICK src \in Nat : /\ Open(JobOf(w)) /\ BackToQueue(JobOf(w), src)
                           /\ Refers(w, src) \/ Src(JobOf(w), src)
    BY <1>4
  <2>2. PICK rec \in JobRec : rec.status = "queued" /\ job' = [job EXCEPT ![JobOf(w)] = rec]
    BY <1>1, <2>1, BackToQueueIs
  <2>3. \A j \in Jobs : Running(j)' => Running(j) /\ j # JobOf(w)
    BY <1>1, <2>2, RunningReplaced
  <2>4. \A e \in pending \ pending' : e.job = JobOf(w)
    BY <1>1, <2>1 DEF BackToQueue, XACK, Tracked
  <2>5. \A e \in pending \ pending' : ~Running(e.job)'
    BY <1>1, <2>3, <2>4
  <2> QED BY <1>1, <2>3, <2>5, CarefulMove DEF Claiming
<1>5. CASE RecoverEntry(w)
  BY <1>1, <1>2, <1>3, <1>4, <1>5 DEF RecoverEntry, Refers, queueVars
<1>6. CASE RecoverStale(w)
  <2>1. Running(JobOf(w)) => job[JobOf(w)].src \in Nat /\ Src(JobOf(w), job[JobOf(w)].src)
                             /\ Open(JobOf(w))
    BY <1>1 DEF Running, Src, Open, IInv, TypeOK, JobRec
  <2> QED BY <1>1, <1>2, <1>4, <1>6, <2>1 DEF RecoverStale, queueVars
<1> QED BY <1>5, <1>6

LEMMA StepCareful ==
  ASSUME IInv, Shapes, Tracked, [Next]_vars, \A w \in Workers : ~Deliver(w) /\ ~AutoClaim(w)
  PROVE  Careful
<1>1. CASE Request
  BY <1>1, CarefulRequest
<1>2. CASE \/ \E j \in Jobs : LeaseLapses(j)
           \/ \E w \in Workers : Heartbeat(w)
           \/ UNCHANGED vars
  <2>1. UNCHANGED <<job, line, pending>>
    BY <1>2 DEF LeaseLapses, Heartbeat, vars, queueVars
  <2> QED BY <2>1, CarefulStill DEF Running
<1>3. CASE \E w \in Workers : PickUp(w)
  BY <1>3, CarefulQuiet DEF PickUp
<1>4. CASE \E w \in Workers : Step(w)
  BY <1>4, CarefulQuiet, CarefulClaim, CarefulSave, CarefulFinish, CarefulAck, CarefulRecover
     DEF Step
<1>5. CASE \E w \in Workers : RateLimited(w) \/ Fault(w)
  BY <1>5, CarefulQuiet DEF Fault
<1> QED BY <1>1, <1>2, <1>3, <1>4, <1>5 DEF Next

LEMMA DeliverOwn ==
  ASSUME IInv, Shapes, Tracked, ClaimsOwn, RunningKept, NEW w \in Workers, Deliver(w)
  PROVE  ClaimsOwn' /\ RunningKept'
<1>1. PICK e \in ready :
        /\ LineIs(line'[w], "read", e.job, e.id, 0, "none", NoRec) /\ Others(w)
        /\ ready' = ready \ {e} /\ pending' = pending \cup {e}
  BY DeliverIs
<1>2. UNCHANGED job
  BY DEF Deliver
<1>3. \A v \in Workers : \A id : Refers(v, id)' <=> IF v = w THEN id = e.id ELSE Refers(v, id)
  BY <1>1, NoRecAssumption DEF Others, Refers, LineIs
<1>4. \A j \in Jobs : \A id : Src(j, id)' <=> Src(j, id)
  BY <1>2 DEF Src
<1>5. /\ \A v \in Workers : ~Refers(v, e.id)
      /\ \A j \in Jobs : ~Src(j, e.id)
      /\ \A d \in pending : d.id # e.id
  BY DEF Tracked
<1>6. ClaimsOwn'
  <2> SUFFICES ASSUME NEW v \in Workers, line'[v].pc \in Claiming PROVE OwnEntry(v)'
    BY DEF ClaimsOwn
  <2>1. CASE v = w
    BY <1>1, <1>3, <1>4, <1>5, <2>1 DEF OwnEntry, LineIs
  <2>2. CASE v # w
    <3>1. line'[v] = line[v] /\ OwnEntry(v)
      BY <1>1, <2>2 DEF ClaimsOwn, Others
    <3> QED BY <1>1, <1>3, <1>4, <1>5, <2>2, <3>1 DEF OwnEntry
  <2> QED BY <2>1, <2>2
<1>7. RunningKept'
  <2> SUFFICES ASSUME NEW j \in Jobs, Running(j)' PROVE \E d \in pending' : Keeps(d, j)'
    BY DEF RunningKept
  <2>1. PICK d \in pending : Keeps(d, j)
    BY <1>2 DEF RunningKept, Running
  <2>2. Keeps(d, j)'
    BY <1>1, <1>5, <2>1 DEF Keeps, Others, LineIs
  <2> QED BY <1>1, <2>2
<1> QED BY <1>6, <1>7

LEMMA AutoClaimOwn ==
  ASSUME IInv, Shapes, Tracked, ClaimsOwn, RunningKept, NEW w \in Workers, AutoClaim(w),
         used'.slow = 0
  PROVE  ClaimsOwn' /\ RunningKept'
<1>1. PICK e \in pending :
        /\ LineIs(line'[w], "recover", e.job, e.id, 0, "none", NoRec) /\ Others(w)
        /\ StalledOn(e, Brief) => Spend("slow", MaxSlowClaims)
  BY AutoClaimIs
<1>2. UNCHANGED <<job, pending>>
  BY DEF AutoClaim, queueVars
<1>3. \A v \in Workers : \A id : Refers(v, id)' <=> IF v = w THEN id = e.id ELSE Refers(v, id)
  BY <1>1, NoRecAssumption DEF Others, Refers, LineIs
<1>4. \A j \in Jobs : \A id : Src(j, id)' <=> Src(j, id)
  BY <1>2 DEF Src
<1>5. ~StalledOn(e, Brief)
  <2>1. Spend("slow", MaxSlowClaims) => used'.slow # 0
    BY DEF Spend, IInv, TypeOK
  <2> QED BY <1>1, <2>1
<1>6. \A v \in Workers : line[v].pc \in Claiming => line[v].ent # e.id
  BY <1>5 DEF StalledOn, Brief, Claiming
<1>7. ClaimsOwn'
  <2> SUFFICES ASSUME NEW v \in Workers, line'[v].pc \in Claiming PROVE OwnEntry(v)'
    BY DEF ClaimsOwn
  <2>1. v # w
    BY <1>1 DEF LineIs, Claiming
  <2>2. line'[v] = line[v] /\ OwnEntry(v)
    BY <1>1, <2>1 DEF ClaimsOwn, Others
  <2> QED BY <1>2, <1>3, <1>4, <1>6, <2>1, <2>2 DEF OwnEntry
<1>8. RunningKept'
  <2> SUFFICES ASSUME NEW j \in Jobs, Running(j)' PROVE \E d \in pending' : Keeps(d, j)'
    BY DEF RunningKept
  <2>1. PICK d \in pending : Keeps(d, j)
    BY <1>2 DEF RunningKept, Running
  <2>2. Keeps(d, j)'
    BY <1>1, <2>1 DEF Keeps, Others, LineIs
  <2> QED BY <1>2, <2>2
<1> QED BY <1>7, <1>8

QInv == IInv /\ Shapes /\ Tracked /\ (used.slow = 0 => ClaimsOwn /\ RunningKept)

LEMMA InitQInv == Init => QInv
<1> SUFFICES ASSUME Init PROVE QInv
  OBVIOUS
<1>1. \A w \in Workers : line[w] = Idle
  BY DEF Init
<1>2. Shapes
  BY <1>1 DEF Shapes, Shape, Idle
<1>3. ready = {} /\ pending = {} /\ lastEntry = 0 /\ \A j \in Jobs : job[j] = NoRec
  BY DEF Init
<1>4. Tracked
  BY <1>1, <1>3 DEF Tracked, Idle
<1>5. ClaimsOwn /\ RunningKept
  BY <1>1, <1>3 DEF ClaimsOwn, RunningKept, Claiming, Idle, Running
<1> QED BY <1>2, <1>4, <1>5, InitIInv DEF QInv

LEMMA NextQInv == QInv /\ [Next]_vars => QInv'
<1> SUFFICES ASSUME QInv, [Next]_vars PROVE QInv'
  OBVIOUS
<1>1. IInv' /\ Shapes' /\ Tracked'
  BY NextIInv, StepShapes, StepTracked DEF QInv
<1>2. ASSUME used'.slow = 0 PROVE ClaimsOwn' /\ RunningKept'
  <2>1. used.slow = 0 => ClaimsOwn /\ RunningKept
    BY DEF QInv
  <2>2. used["slow"] = 0
    BY <1>2, UsedGrows DEF QInv
  <2>3. CASE \A w \in Workers : ~Deliver(w) /\ ~AutoClaim(w)
    BY <1>1, <2>1, <2>2, <2>3, StepOrderly, StepCareful, CarefulClaimsOwn, CarefulRunningKept
       DEF QInv
  <2> QED BY <1>2, <2>1, <2>2, <2>3, DeliverOwn, AutoClaimOwn DEF QInv
<1> QED BY <1>1, <1>2 DEF QInv

LEMMA QueueInvariance == Spec => []QInv
  BY InitQInv, NextQInv, PTL DEF Spec

(* A worker may die at any command: as long as no line stalls for a whole   *)
(* lease inside claim_next_job, a running job keeps a stream entry that     *)
(* nobody is about to acknowledge, so XAUTOCLAIM finds the job again.       *)
THEOREM RunningCanBeRecovered == Spec => [](used.slow = 0 => RunningRecoverable)
<1>1. QInv => (used.slow = 0 => RunningRecoverable)
  BY DEF QInv, RunningKept, Keeps, RunningRecoverable
<1> QED BY <1>1, QueueInvariance, PTL

-----------------------------------------------------------------------------
(* No queued job is lost.                                                   *)

(* While Dadata limits no attempt and no line is stopped, nothing is        *)
(* requeued or scheduled.                                                   *)
NeverLimited == \A w \in Workers : ~RateLimited(w)
Requeueing == {"requeue", "save", "push", "promote", "promoteAdd"}
NothingRequeued ==
  scheduled = {} /\ \A w \in Workers : line[w].pc \notin Requeueing

LEMMA NothingRequeuedStep ==
  ASSUME IInv, Shapes, NothingRequeued, [Next]_vars, NeverLimited, used'.cancel = 0
  PROVE  NothingRequeued'
<1>1. \A w \in Workers : ~Cancel(w) /\ ~RateLimited(w)
  <2>1. Spend("cancel", MaxCancels) => used'.cancel # 0
    BY DEF Spend, IInv, TypeOK
  <2> QED BY <2>1 DEF Cancel, NeverLimited
<1>2. \A w \in Workers : /\ ~RequeueRead(w) /\ ~RequeueSave(w) /\ ~RequeuePush(w)
                         /\ ~Promote(w) /\ ~PromoteRead(w) /\ ~PromoteAdd(w)
                         /\ ~PromoteAddFails(w)
  BY DEF NothingRequeued, Requeueing, RequeueRead, RequeueSave, RequeuePush, Promote,
         PromoteRead, PromoteAdd, PromoteAddFails, At
<1>3. UNCHANGED scheduled
  <2>1. Request \/ (\E j \in Jobs : LeaseLapses(j)) \/ UNCHANGED vars => UNCHANGED scheduled
    BY DEF Request, Attach, Create, LeaseLapses, vars
  <2>2. \A w \in Workers :
          PickUp(w) \/ Heartbeat(w) \/ RateLimited(w) \/ Fault(w) => UNCHANGED scheduled
    BY <1>1, <1>2 DEF PickUp, Deliver, AutoClaim, ReadStale, Heartbeat, Fault, Crash, RedisFails
  <2>3. \A w \in Workers : Step(w) => UNCHANGED scheduled
    BY <1>2 DEF Step, Claim, ClaimRefused, AckRefused, SaveClaim, Finish, FinishRefused,
       MetricRecorded, RecoverEntry, RecoverStale
  <2> QED BY <2>1, <2>2, <2>3 DEF Next
<1>4. CASE UNCHANGED line
  BY <1>3, <1>4 DEF NothingRequeued
<1>5. CASE \E w \in Workers : Others(w) /\ line'[w].pc \notin Requeueing
  BY <1>3, <1>5 DEF NothingRequeued, Others
<1>6. \A w \in Workers :
        \/ Deliver(w) \/ AutoClaim(w) \/ ReadStale(w) \/ Claim(w) \/ ClaimRefused(w)
        \/ AckRefused(w) \/ SaveClaim(w) \/ Finish(w) \/ FinishRefused(w) \/ MetricRecorded(w)
        \/ RecoverEntry(w) \/ RecoverStale(w) \/ Crash(w) \/ RedisFails(w)
        => Others(w) /\ line'[w].pc \notin Requeueing
  <2> TAKE w \in Workers
  <2>1. Return(w) => Others(w) /\ line'[w].pc \notin Requeueing
    BY Returned DEF LineIs, Requeueing
  <2>2. Deliver(w) \/ AutoClaim(w) \/ ReadStale(w) => Others(w) /\ line'[w].pc \notin Requeueing
    BY DeliverIs, AutoClaimIs, ReadStaleIs DEF LineIs, Requeueing
  <2>3. Claim(w) \/ SaveClaim(w) \/ Finish(w) \/ RedisFails(w)
        => Others(w) /\ line'[w].pc \notin Requeueing
    BY ClaimIs, SaveClaimIs, FinishIs, RedisFailsIs, IdleIs DEF LineIs, Requeueing
  <2>4. ClaimRefused(w) => Others(w) /\ line'[w].pc \notin Requeueing
    BY Gone DEF ClaimRefused, LineIs, Requeueing
  <2> QED BY <2>1, <2>2, <2>3, <2>4
          DEF AckRefused, FinishRefused, MetricRecorded, RecoverEntry, RecoverStale, Crash
<1>7. \/ UNCHANGED line
      \/ \E w \in Workers :
           \/ Deliver(w) \/ AutoClaim(w) \/ ReadStale(w) \/ Claim(w) \/ ClaimRefused(w)
           \/ AckRefused(w) \/ SaveClaim(w) \/ Finish(w) \/ FinishRefused(w)
           \/ MetricRecorded(w) \/ RecoverEntry(w) \/ RecoverStale(w) \/ Crash(w) \/ RedisFails(w)
  BY <1>1, <1>2 DEF Next, Request, Attach, Create, LeaseLapses, PickUp, Step, Heartbeat, Fault, vars
<1> QED BY <1>4, <1>5, <1>6, <1>7

-----------------------------------------------------------------------------
(* The ways of NoLostJob by which a queued job can still reach a worker.    *)
Carries(w, j) == JobOf(w) = j /\ (line[w].pc \in {"push", "promote", "promoteAdd"} \/ line[w].why = "stop")
Refused(e) == \E w \in Workers : line[w].pc = "rejected" /\ line[w].ent = e.id
Reachable(j) ==
  \/ j \in scheduled
  \/ \E e \in ready : e.job = j
  \/ \E e \in pending : e.job = j /\ ~Refused(e)
  \/ \E w \in Workers : Carries(w, j)

LEMMA NoLostJobIs == NoLostJob <=> \A j \in Jobs : Queued(j) => Reachable(j)
  BY DEF NoLostJob, Reachable, Carries, Refused, At

LEMMA ReachableMove ==
  ASSUME Tracked, NEW w \in Workers, Others(w), NEW j \in Jobs, Reachable(j),
         j \in scheduled => Reachable(j)',
         ready \subseteq ready',
         \A e \in pending \ pending' :
           e.job = j => (line[w].pc = "rejected" /\ line[w].ent = e.id) \/ Reachable(j)',
         line'[w].pc = "rejected" => line'[w].ent = line[w].ent /\ JobOf(w) # j,
         Carries(w, j) => Reachable(j)'
  PROVE  Reachable(j)'
<1>1. CASE \E e \in pending : e.job = j /\ ~Refused(e)
  <2>1. PICK e \in pending : e.job = j /\ ~Refused(e)
    BY <1>1
  <2>2. CASE e \in pending'
    <3>1. ~Refused(e)'
      BY <2>1 DEF Refused, Others, Tracked, Refers
    <3> QED BY <2>1, <2>2, <3>1 DEF Reachable
  <2> QED BY <2>1, <2>2 DEF Refused
<1>2. CASE \E e \in ready : e.job = j
  BY <1>2 DEF Reachable
<1>3. CASE \E v \in Workers \ {w} : Carries(v, j)
  BY <1>3 DEF Others, Carries, Reachable, JobOf
<1> QED BY <1>1, <1>2, <1>3 DEF Reachable

(* Steps of a line that leave job, streams and the scheduled set alone.     *)
LEMMA ReachableQuiet ==
  ASSUME IInv, Shapes, Tracked, NEW w \in Workers,
         \/ ReadStale(w) \/ ClaimRefused(w) \/ FinishRefused(w) \/ MetricRecorded(w)
         \/ RequeueRead(w) \/ RateLimited(w) \/ PromoteRead(w) \/ Cancel(w) \/ AutoClaim(w)
         \/ (\/ Crash(w) \/ RedisFails(w)) /\ NothingRequeued,
         NEW j \in Jobs, Queued(j)', Reachable(j)
  PROVE  Reachable(j)'
<1>1. UNCHANGED <<job, ready, pending, scheduled>> /\ Queued(j) /\ Shape(line[w])
  BY DEF ReadStale, ClaimRefused, FinishRefused, MetricRecorded, RequeueRead,
         RateLimited, PromoteRead, Crash, RedisFails, Cancel, AutoClaim, queueVars, Queued, Shapes
<1>2. j \in scheduled => Reachable(j)'
  BY <1>1 DEF Reachable
<1>3. CASE ReadStale(w) \/ AutoClaim(w)
  <2>1. line[w] = Idle
    BY <1>3, LoopIs DEF ReadStale, AutoClaim
  <2>2. ~Carries(w, j)
    BY <2>1 DEF Carries, Idle
  <2> QED BY <1>1, <1>2, <1>3, <2>2, ReadStaleIs, AutoClaimIs, ReachableMove DEF LineIs
<1>4. CASE ClaimRefused(w)
  <2>1. /\ line'[w].ent = line[w].ent /\ JobOf(w) # j /\ Others(w)
    BY <1>1, <1>4, Gone DEF ClaimRefused, LineIs
  <2> QED BY <1>1, <1>2, <2>1, ReachableMove DEF Carries
<1>5. CASE FinishRefused(w) \/ MetricRecorded(w)
  <2>1. line'[w].pc = "loop" /\ Others(w)
    BY <1>5, Returned DEF FinishRefused, MetricRecorded, LineIs
  <2>2. ~Carries(w, j)
    BY <1>1, <1>5 DEF FinishRefused, MetricRecorded, At, Shape, Carries
  <2> QED BY <1>1, <1>2, <2>1, <2>2, ReachableMove
<1>6. CASE RequeueRead(w)
  <2>1. /\ line'[w].pc = "save" /\ line'[w].job = line[w].job /\ line'[w].why = line[w].why
        /\ Others(w) /\ line[w].pc = "requeue"
    BY <1>6, RequeueReadIs DEF LineIs, JobOf
  <2>2. Carries(w, j) => Carries(w, j)'
    BY <2>1 DEF Carries, JobOf
  <2> QED BY <1>1, <1>2, <2>1, <2>2, ReachableMove DEF Reachable
<1>7. CASE RateLimited(w)
  <2>1. line'[w].pc = "requeue" /\ Others(w) /\ line[w].pc = "execute"
    BY <1>7, RateLimitedIs DEF LineIs
  <2>2. ~Carries(w, j)
    BY <1>1, <2>1 DEF Shape, Carries
  <2> QED BY <1>1, <1>2, <2>1, <2>2, ReachableMove
<1>8. CASE PromoteRead(w)
  <2>1. CASE JobOf(w) = j
    <3>1. Goto(w, "promoteAdd")
      BY <1>1, <1>8, <2>1 DEF PromoteRead
    <3>2. Carries(w, j)'
      BY <2>1, <3>1, Gone DEF Carries, LineIs, JobOf
    <3> QED BY <3>2 DEF Reachable
  <2>2. CASE JobOf(w) # j
    <3>1. line'[w].pc \in {"promoteAdd", "loop"} /\ Others(w)
      BY <1>8, Gone, Returned DEF PromoteRead, LineIs
    <3> QED BY <1>1, <1>2, <2>2, <3>1, ReachableMove DEF Carries
  <2> QED BY <2>1, <2>2
<1>9. CASE Cancel(w)
  <2>1. /\ line'[w].pc = "requeue" /\ line'[w].job = line[w].job /\ line'[w].why = "stop" /\ Others(w)
    BY <1>9, CancelIs DEF LineIs, JobOf
  <2>2. Carries(w, j) => Carries(w, j)'
    BY <2>1 DEF Carries, JobOf
  <2> QED BY <1>1, <1>2, <2>1, <2>2, ReachableMove DEF Reachable
<1>10. CASE (Crash(w) \/ RedisFails(w)) /\ NothingRequeued
  <2>1. line'[w].pc \in {"loop", "failed"} /\ Others(w)
    BY <1>10, Returned, RedisFailsIs DEF Crash, LineIs
  <2>2. ~Carries(w, j)
    BY <1>1, <1>10 DEF NothingRequeued, Requeueing, Shape, Carries
  <2> QED BY <1>1, <1>2, <2>1, <2>2, ReachableMove
<1> QED BY <1>3, <1>4, <1>5, <1>6, <1>7, <1>8, <1>9, <1>10

LEMMA QueuedReplaced ==
  ASSUME IInv, NEW j \in Jobs, NEW rec \in JobRec, job' = [job EXCEPT ![j] = rec], NEW i \in Jobs
  PROVE  Queued(i)' <=> IF i = j THEN rec.status = "queued" ELSE Queued(i)
  BY NoRecAssumption DEF Queued, IInv, TypeOK

LEMMA ReachableXADD ==
  ASSUME NEW j \in Jobs, XADD(j) PROVE Reachable(j)'
<1>1. PICK e : e = [id |-> lastEntry + 1, job |-> j]
  OBVIOUS
<1>2. e \in ready' /\ e.job = j
  BY <1>1 DEF XADD
<1> QED BY <1>2 DEF Reachable

LEMMA ReachableDeliver ==
  ASSUME IInv, Shapes, Tracked, NEW w \in Workers, Deliver(w),
         NEW j \in Jobs, Reachable(j)
  PROVE  Reachable(j)'
<1>1. PICK e \in ready :
        /\ LineIs(line'[w], "read", e.job, e.id, 0, "none", NoRec) /\ Others(w)
        /\ ready' = ready \ {e} /\ pending' = pending \cup {e}
  BY DeliverIs
<1>2. line[w] = Idle /\ UNCHANGED scheduled
  BY LoopIs DEF Deliver
<1>3. ~Refused(e)'
  BY <1>1 DEF Refused, LineIs, Others, Tracked, Refers
<1>4. \A d \in pending : ~Refused(d) => ~Refused(d)'
  BY <1>1 DEF Refused, LineIs, Others
<1>5. \A v \in Workers : Carries(v, j) => v # w /\ Carries(v, j)'
  BY <1>1, <1>2 DEF Carries, Idle, Others, JobOf
<1> QED BY <1>1, <1>2, <1>3, <1>4, <1>5 DEF Reachable

LEMMA ReachableClaim ==
  ASSUME IInv, Shapes, Tracked, NEW w \in Workers, Claim(w) \/ SaveClaim(w) \/ RequeueSave(w),
         NEW j \in Jobs, Queued(j)', Queued(j) => Reachable(j)
  PROVE  Reachable(j)'
<1>1. UNCHANGED <<ready, pending, scheduled>>
  BY DEF Claim, SaveClaim, RequeueSave, queueVars
<1>2. /\ JobOf(w) \in Jobs /\ Others(w) /\ line'[w].pc \in {"claimed", "execute", "push"}
      /\ \E rec \in JobRec : /\ job' = [job EXCEPT ![JobOf(w)] = rec]
                             /\ rec.status # "running" => RequeueSave(w)
      /\ line'[w].job = JobOf(w)
  BY ClaimIs, SaveClaimIs, RequeueSaveIs DEF LineIs
<1>3. CASE j = JobOf(w)
  <2>1. RequeueSave(w)
    BY <1>2, <1>3, QueuedReplaced
  <2>2. Carries(w, j)'
    BY <1>3, <2>1, RequeueSaveIs DEF Carries, JobOf, LineIs
  <2> QED BY <2>2 DEF Reachable
<1>4. CASE j # JobOf(w)
  <2>1. Queued(j) /\ Reachable(j)
    BY <1>2, <1>4, QueuedReplaced
  <2>2. j \in scheduled => Reachable(j)'
    BY <1>1 DEF Reachable
  <2> QED BY <1>1, <1>2, <1>4, <2>1, <2>2, ReachableMove DEF Carries
<1> QED BY <1>3, <1>4

LEMMA ReachableFinish ==
  ASSUME IInv, Shapes, Tracked, NEW w \in Workers, Finish(w),
         NEW j \in Jobs, Queued(j)', Queued(j) => Reachable(j)
  PROVE  Reachable(j)'
<1>1. PICK rec \in JobRec : rec.status = "finished" /\ job' = [job EXCEPT ![JobOf(w)] = rec]
  BY FinishIs
<1>2. /\ JobOf(w) \in Jobs /\ job[JobOf(w)] # NoRec /\ XACK(job[JobOf(w)].src) /\ Others(w)
      /\ line'[w].pc \in {"metric", "loop"}
  BY FinishIs, IdleIs DEF Holds, Running, LineIs
<1>3. j # JobOf(w) /\ Queued(j)
  BY <1>1, <1>2, QueuedReplaced
<1>4. \A e \in pending \ pending' : e.job = JobOf(w)
  BY <1>2 DEF XACK, Tracked, Src
<1>5. UNCHANGED <<ready, scheduled>>
  BY DEF Finish
<1>6. j \in scheduled => Reachable(j)'
  BY <1>5 DEF Reachable
<1> QED BY <1>2, <1>3, <1>4, <1>5, <1>6, ReachableMove DEF Carries

LEMMA ReachableReturn ==
  ASSUME IInv, Shapes, Tracked, NEW w \in Workers,
         AckRefused(w) \/ RequeuePush(w) \/ PromoteAdd(w),
         NEW j \in Jobs, Queued(j)', Queued(j) => Reachable(j)
  PROVE  Reachable(j)'
<1>1. line'[w].pc = "loop" /\ Others(w) /\ Queued(j) /\ Shape(line[w])
  BY Returned DEF AckRefused, RequeuePush, PromoteAdd, LineIs, Queued, Shapes
<1>2. scheduled \subseteq scheduled' /\ ready \subseteq ready'
  BY DEF AckRefused, RequeuePush, PromoteAdd, XADD
<1>3. j \in scheduled => Reachable(j)'
  BY <1>2 DEF Reachable
<1>4. CASE AckRefused(w)
  <2>1. ~Carries(w, j)
    BY <1>1, <1>4 DEF AckRefused, At, Carries, Shape
  <2>2. \A e \in pending \ pending' : line[w].pc = "rejected" /\ line[w].ent = e.id
    BY <1>4 DEF AckRefused, XACK, At
  <2> QED BY <1>1, <1>2, <1>3, <2>1, <2>2, ReachableMove
<1>5. CASE RequeuePush(w)
  <2>1. JobOf(w) = j => Reachable(j)'
    BY <1>5, ReachableXADD DEF RequeuePush, Reachable
  <2>2. line[w].snap \in JobRec
    BY <1>5, LineFacts DEF RequeuePush, At, LineOK
  <2>3. \A e \in pending \ pending' : e.job = JobOf(w)
    BY <1>5, <2>2, NoRecAssumption DEF RequeuePush, XACK, Tracked, Refers
  <2> QED BY <1>1, <1>2, <1>3, <2>1, <2>3, ReachableMove DEF Carries
<1>6. CASE PromoteAdd(w)
  <2>1. JobOf(w) = j => Reachable(j)'
    BY <1>6, ReachableXADD DEF PromoteAdd
  <2>2. UNCHANGED pending
    BY <1>6 DEF PromoteAdd
  <2> QED BY <1>1, <1>2, <1>3, <2>1, <2>2, ReachableMove DEF Carries
<1> QED BY <1>4, <1>5, <1>6

LEMMA ReachablePromote ==
  ASSUME IInv, Shapes, Tracked, NEW w \in Workers, Promote(w), NEW j \in Jobs, Reachable(j)
  PROVE  Reachable(j)'
<1>1. PICK i \in scheduled :
        /\ LineIs(line'[w], "promote", i, 0, 0, "none", NoRec) /\ Others(w)
        /\ scheduled' = scheduled \ {i}
  BY PromoteIs
<1>2. line[w] = Idle /\ UNCHANGED <<ready, pending>>
  BY LoopIs DEF Promote, queueVars
<1>3. CASE i = j
  BY <1>1, <1>3 DEF Reachable, Carries, LineIs, JobOf
<1>4. CASE i # j
  <2>1. j \in scheduled => Reachable(j)'
    BY <1>1, <1>4 DEF Reachable
  <2>2. ~Carries(w, j)
    BY <1>2 DEF Carries, Idle
  <2> QED BY <1>1, <1>2, <2>1, <2>2, ReachableMove DEF LineIs
<1> QED BY <1>3, <1>4

LEMMA ReachableRecover ==
  ASSUME IInv, Shapes, Tracked, NEW w \in Workers, RecoverEntry(w) \/ RecoverStale(w),
         NEW j \in Jobs, Queued(j)', Queued(j) => Reachable(j)
  PROVE  Reachable(j)'
<1>1. line'[w].pc = "loop" /\ Others(w) /\ JobOf(w) \in Jobs /\ line[w].ent \in Nat /\ Shape(line[w])
  BY LineFacts, Returned DEF RecoverEntry, RecoverStale, LineIs, At, LineOK, JobOf, Line, Shapes
<1>2. ~Carries(w, j) /\ UNCHANGED scheduled
  BY <1>1 DEF RecoverEntry, RecoverStale, At, Carries, Shape
<1>3. j \in scheduled => Reachable(j)'
  BY <1>2 DEF Reachable
<1>4. CASE /\ UNCHANGED <<job, ready>>
           /\ UNCHANGED pending \/ (Finished(JobOf(w)) /\ XACK(line[w].ent))
  <2>1. Queued(j)
    BY <1>4 DEF Queued
  <2>2. \A e \in pending \ pending' : e.job # j
    BY <1>4, <2>1 DEF XACK, Tracked, Refers, Queued, Finished
  <2> QED BY <1>1, <1>2, <1>3, <1>4, <2>1, <2>2, ReachableMove
<1>5. CASE \E src \in Nat : /\ Open(JobOf(w)) /\ BackToQueue(JobOf(w), src)
                            /\ Refers(w, src) \/ Src(JobOf(w), src)
  <2>1. PICK src \in Nat : /\ Open(JobOf(w)) /\ BackToQueue(JobOf(w), src)
                           /\ Refers(w, src) \/ Src(JobOf(w), src)
    BY <1>5
  <2>2. PICK rec \in JobRec : rec.status = "queued" /\ job' = [job EXCEPT ![JobOf(w)] = rec]
    BY <1>1, <2>1, BackToQueueIs
  <2>3. CASE j = JobOf(w)
    BY <2>1, <2>3, ReachableXADD DEF BackToQueue
  <2>4. CASE j # JobOf(w)
    <3>1. Queued(j)
      BY <1>1, <2>2, <2>4, QueuedReplaced
    <3>2. \A e \in pending \ pending' : e.job = JobOf(w)
      BY <1>1, <2>1 DEF BackToQueue, XACK, Tracked
    <3>3. ready \subseteq ready'
      BY <2>1 DEF BackToQueue, XADD
    <3> QED BY <1>1, <1>2, <1>3, <2>4, <3>1, <3>2, <3>3, ReachableMove
  <2> QED BY <2>3, <2>4
<1>6. CASE RecoverEntry(w)
  BY <1>1, <1>4, <1>5, <1>6 DEF RecoverEntry, Refers, queueVars
<1>7. CASE RecoverStale(w)
  <2>1. Running(JobOf(w)) => job[JobOf(w)].src \in Nat /\ Src(JobOf(w), job[JobOf(w)].src)
                             /\ Open(JobOf(w))
    BY <1>1 DEF Running, Src, Open, IInv, TypeOK, JobRec
  <2> QED BY <1>1, <1>4, <1>5, <1>7, <2>1 DEF RecoverStale, queueVars
<1> QED BY <1>6, <1>7

LEMMA ReachableRequest ==
  ASSUME IInv, Request, NEW j \in Jobs, Queued(j)', Queued(j) => Reachable(j)
  PROVE  Reachable(j)'
<1>1. UNCHANGED <<line, pending, scheduled>>
  BY DEF Request, Attach, Create, queueVars
<1>2. CASE \E k \in Keys, u \in Users \cup {NoUser} : Attach(k, u)
  <2>1. PICK i \in Jobs, rec \in JobRec :
          job[i] \in JobRec /\ rec.status = job[i].status /\ job' = [job EXCEPT ![i] = rec]
    BY <1>2, AttachIs
  <2>2. Queued(j)
    BY <2>1, QueuedReplaced, NoRecAssumption DEF Queued
  <2>3. UNCHANGED ready
    BY <1>2 DEF Attach, queueVars
  <2> QED BY <1>1, <2>2, <2>3 DEF Reachable, Refused, Carries, JobOf
<1>3. CASE \E k \in Keys, u \in Users \cup {NoUser}, i \in Jobs : Create(i, k, u)
  <2>0. PICK k \in Keys, u \in Users \cup {NoUser}, i \in Jobs : Create(i, k, u)
    BY <1>3
  <2>1. PICK rec \in JobRec : job' = [job EXCEPT ![i] = rec]
    BY <2>0, CreateIs
  <2>1a. XADD(i)
    BY <2>0 DEF Create
  <2>2. CASE i = j
    BY <2>1a, <2>2, ReachableXADD
  <2>3. CASE i # j
    <3>1. Queued(j)
      BY <2>1, <2>3, QueuedReplaced
    <3>2. ready \subseteq ready'
      BY <2>1a DEF XADD
    <3> QED BY <1>1, <3>1, <3>2 DEF Reachable, Refused, Carries, JobOf
  <2> QED BY <2>2, <2>3
<1> QED BY <1>2, <1>3 DEF Request

(* Nothing is lost as long as no line dies and no command fails, or as long *)
(* as nothing is requeued.                                                  *)
LEMMA NoLostJobStep ==
  ASSUME IInv, Shapes, Tracked, NoLostJob, [Next]_vars,
         (used'.crash = 0 /\ used'.error = 0) \/ NothingRequeued
  PROVE  NoLostJob'
<1> SUFFICES ASSUME NEW j \in Jobs, Queued(j)' PROVE Reachable(j)'
  BY DEF NoLostJob, Reachable, Carries, Refused, At
<1>0. Queued(j) => Reachable(j)
  BY NoLostJobIs
<1>1. CASE Request
  BY <1>0, <1>1, ReachableRequest
<1>2. CASE \/ \E i \in Jobs : LeaseLapses(i)
           \/ \E w \in Workers : Heartbeat(w)
           \/ UNCHANGED vars
  <2>1. UNCHANGED <<job, line, ready, pending, scheduled>>
    BY <1>2 DEF LeaseLapses, Heartbeat, vars, queueVars
  <2> QED BY <1>0, <2>1 DEF Reachable, Queued, Refused, Carries, JobOf
<1>3. ASSUME NEW w \in Workers, Crash(w) \/ RedisFails(w) \/ PromoteAddFails(w)
      PROVE  NothingRequeued
  <2>1. (Spend("crash", MaxCrashes) => used'.crash # 0) /\ (Spend("error", MaxErrors) => used'.error # 0)
    BY DEF Spend, IInv, TypeOK
  <2> QED BY <1>3, <2>1 DEF Crash, RedisFails, PromoteAddFails
<1>4. \A w \in Workers : ~PromoteAddFails(w)
  BY <1>3 DEF PromoteAddFails, NothingRequeued, Requeueing, At
<1>5. ASSUME UNCHANGED job PROVE Queued(j)
  BY <1>5 DEF Queued
<1>6. CASE \E w \in Workers : PickUp(w)
  <2> PICK w \in Workers : PickUp(w)
    BY <1>6
  <2>1. UNCHANGED job
    BY DEF PickUp, Deliver, Promote, AutoClaim, ReadStale
  <2> QED BY <1>0, <1>5, <2>1, ReachableDeliver, ReachablePromote, ReachableQuiet DEF PickUp
<1>7. CASE \E w \in Workers : RateLimited(w) \/ Fault(w)
  <2> PICK w \in Workers : RateLimited(w) \/ Fault(w)
    BY <1>7
  <2>1. UNCHANGED job
    BY DEF RateLimited, Fault, Crash, RedisFails, PromoteAddFails, Cancel
  <2> QED BY <1>0, <1>3, <1>4, <1>5, <2>1, ReachableQuiet DEF Fault
<1>8. CASE \E w \in Workers : Step(w)
  <2> PICK w \in Workers : Step(w)
    BY <1>8
  <2>1. CASE ClaimRefused(w) \/ FinishRefused(w) \/ MetricRecorded(w) \/ RequeueRead(w) \/ PromoteRead(w)
    <3>1. UNCHANGED job
      BY <2>1 DEF ClaimRefused, FinishRefused, MetricRecorded, RequeueRead, PromoteRead
    <3> QED BY <1>0, <1>5, <2>1, <3>1, ReachableQuiet
  <2> QED BY <1>0, <2>1, ReachableClaim, ReachableFinish, ReachableReturn, ReachableRecover
          DEF Step
<1> QED BY <1>1, <1>2, <1>6, <1>7, <1>8 DEF Next

LInv == QInv /\ (used.crash = 0 /\ used.error = 0 => NoLostJob)

LEMMA InitNoLostJob == Init => NothingRequeued /\ NoLostJob
  BY DEF Init, NothingRequeued, Requeueing, NoLostJob, Queued, Idle

LEMMA NextLInv == LInv /\ [Next]_vars => LInv'
<1> SUFFICES ASSUME LInv, [Next]_vars PROVE LInv'
  OBVIOUS
<1>1. QInv' /\ IInv /\ Shapes /\ Tracked
  BY NextQInv DEF LInv, QInv
<1>2. used'.crash = 0 /\ used'.error = 0 => used["crash"] = 0 /\ used["error"] = 0
  BY <1>1, UsedGrows
<1>3. used'.crash = 0 /\ used'.error = 0 => NoLostJob'
  BY <1>1, <1>2, NoLostJobStep DEF LInv
<1> QED BY <1>1, <1>3 DEF LInv

(* However jobs are retried, recovered, cancelled, stalled and claimed, no  *)
(* queued job loses its way to a worker as long as no line dies and no      *)
(* Redis command fails.                                                     *)
THEOREM NoJobIsLost == Spec => [](used.crash = 0 /\ used.error = 0 => NoLostJob)
<1>1. Init => LInv
  BY InitQInv, InitNoLostJob DEF LInv
<1>2. LInv => (used.crash = 0 /\ used.error = 0 => NoLostJob)
  BY DEF LInv
<1> QED BY <1>1, <1>2, NextLInv, PTL DEF Spec

PInv == QInv /\ (used.cancel = 0 => NothingRequeued /\ NoLostJob)

LEMMA NextPInv == PInv /\ [Next]_vars /\ [NeverLimited]_vars => PInv'
<1> SUFFICES ASSUME PInv, [Next]_vars, [NeverLimited]_vars PROVE PInv'
  OBVIOUS
<1>1. QInv' /\ IInv /\ Shapes /\ Tracked
  BY NextQInv DEF PInv, QInv
<1>2. CASE UNCHANGED vars
  BY <1>1, <1>2 DEF PInv, vars, NothingRequeued, NoLostJob, Queued, At, JobOf
<1>3. CASE NeverLimited
  <2>1. used'.cancel = 0 => used["cancel"] = 0
    BY <1>1, UsedGrows
  <2>2. used'.cancel = 0 => NothingRequeued /\ NothingRequeued'
    BY <1>1, <1>3, <2>1, NothingRequeuedStep DEF PInv
  <2>3. used'.cancel = 0 => NoLostJob'
    BY <1>1, <2>1, <2>2, NoLostJobStep DEF PInv
  <2> QED BY <1>1, <2>2, <2>3 DEF PInv
<1> QED BY <1>2, <1>3

LEMMA PlainInvariance == Spec /\ [][NeverLimited]_vars => []PInv
<1>1. Init => PInv
  BY InitQInv, InitNoLostJob DEF PInv
<1> QED BY <1>1, NextPInv, PTL DEF Spec

(* Crashes and errors lose no job either while Dadata limits no attempt and *)
(* no line is stopped: only requeue_job and the promotion of a scheduled    *)
(* job take a job out of every list between two commands.                   *)
THEOREM NoJobIsLostByCrashes ==
  Spec /\ [][NeverLimited]_vars => [](used.cancel = 0 => NoLostJob)
<1>1. PInv => (used.cancel = 0 => NoLostJob)
  BY DEF PInv
<1> QED BY <1>1, PlainInvariance, PTL

-----------------------------------------------------------------------------
(* One execution at a time.                                                 *)

(* While no line stalls inside a claim and nothing is requeued, a line that *)
(* has claimed a job keeps it until it saves the claim, and while           *)
(* heartbeats are in time until it reports a result.                        *)
Undisturbed(w) == Holds(w) /\ active[JobOf(w)] = "live"

ClaimsHold ==
  \A w \in Workers : line[w].pc = "claimed" =>
    /\ Undisturbed(w)
    /\ line[w].snap.key = job[JobOf(w)].key /\ line[w].snap.user = job[JobOf(w)].user

AttemptsHold == \A w \in Workers : line[w].pc \in {"execute", "failed"} => Undisturbed(w)

(* The record and the lease of a job stay as they are.                      *)
JobStays(i) ==
  /\ job'[i] # NoRec /\ job'[i].status = "running" /\ job'[i].token = job[i].token
  /\ job'[i].key = job[i].key /\ job'[i].user = job[i].user
  /\ active'[i] = "live"

LEMMA OtherRecord ==
  ASSUME IInv, NEW i \in Jobs, Running(i), active[i] = "live", NEW j \in Jobs, j # i, NEW rec,
         job' = [job EXCEPT ![j] = rec], active'[i] = active[i]
  PROVE  JobStays(i)
  BY DEF JobStays, Running, IInv, TypeOK

LEMMA LeaseStays ==
  ASSUME IInv, NEW w \in Workers, Undisturbed(w), line[w].pc = "claimed" \/ used'.late = 0,
         used'.slow = 0, NEW j \in Jobs, LeaseLapses(j)
  PROVE  JobStays(JobOf(w))
<1>1. JobOf(w) \in Jobs
  BY LineFacts DEF Undisturbed, Holds, LineOK, JobOf, Processing
<1>2. j # JobOf(w)
  <2> SUFFICES ASSUME j = JobOf(w) PROVE FALSE
    OBVIOUS
  <2>1. (Spend("late", MaxLateBeats) => used'.late # 0) /\ (Spend("slow", MaxSlowClaims) => used'.slow # 0)
    BY DEF Spend, IInv, TypeOK
  <2>2. HeldAt(j, Processing) \/ HeldAt(j, {"claimed"})
    BY DEF Undisturbed, HeldAt, Holds
  <2>3. HeldAt(j, Processing) /\ Spend("late", MaxLateBeats)
    BY <2>1, <2>2 DEF LeaseLapses
  <2>4. PICK v \in Workers : Holds(v) /\ JobOf(v) = j /\ line[v].pc \in Processing
    BY <2>3 DEF HeldAt
  <2>5. v = w
    BY <2>4, Exclusive DEF TokenExclusive, Undisturbed
  <2>6. line[w].pc = "claimed"
    BY <2>1, <2>3
  <2> QED BY <2>4, <2>5, <2>6 DEF Processing
<1>3. active'[JobOf(w)] = active[JobOf(w)] /\ UNCHANGED job
  BY <1>1, <1>2 DEF LeaseLapses, IInv, TypeOK
<1> QED BY <1>1, <1>3 DEF JobStays, Undisturbed, Holds, Running

(* No step of another line, and no request, touches the job of a line that  *)
(* holds it.                                                                *)
LEMMA HolderKeeps ==
  ASSUME IInv, Shapes, NothingRequeued, ClaimsHold, [Next]_vars, NeverLimited,
         used'.slow = 0, used'.cancel = 0,
         NEW w \in Workers, Undisturbed(w), line[w].pc = "claimed" \/ used'.late = 0,
         ~Finish(w), ~SaveClaim(w)
  PROVE  JobStays(JobOf(w))
<1>0. PICK i : i = JobOf(w)
  OBVIOUS
<1> SUFFICES JobStays(i)
  BY <1>0
<1>1. i \in Jobs /\ Running(i) /\ active[i] = "live" /\ line[w].pc \in Processing \cup {"claimed"}
  BY <1>0, LineFacts DEF Undisturbed, Holds, LineOK, JobOf, Processing
<1>2. \A v \in Workers : Holds(v) /\ v # w => JobOf(v) # i
  BY <1>0, Exclusive DEF TokenExclusive, Undisturbed
<1>3. UNCHANGED <<job, active>> => JobStays(i)
  BY <1>1 DEF JobStays, Running
<1>4. CASE Request
  <2>1. UNCHANGED active
    BY <1>4 DEF Request, Attach, Create
  <2>2. CASE \E k \in Keys, u \in Users \cup {NoUser} : Attach(k, u)
    <3>1. PICK j \in Jobs, rec \in JobRec :
           /\ rec.status = job[j].status /\ rec.token = job[j].token
           /\ rec.key = job[j].key /\ rec.user = job[j].user
           /\ job' = [job EXCEPT ![j] = rec]
      BY <2>2, AttachIs
    <3> QED BY <1>1, <2>1, <3>1, NoRecAssumption DEF JobStays, Running, IInv, TypeOK
  <2>3. CASE \E k \in Keys, u \in Users \cup {NoUser}, j \in Jobs : Create(j, k, u)
    <3>1. PICK j \in Jobs, rec \in JobRec : job[j] = NoRec /\ job' = [job EXCEPT ![j] = rec]
      <4>1. PICK j \in Jobs, k \in Keys, u \in Users \cup {NoUser} : Create(j, k, u)
        BY <2>3
      <4>2. job[j] = NoRec
        BY <4>1 DEF Create
      <4> QED BY <4>1, <4>2, CreateIs
    <3> QED BY <1>1, <2>1, <3>1, OtherRecord DEF Running
  <2> QED BY <1>4, <2>2, <2>3 DEF Request
<1>5. CASE \E j \in Jobs : LeaseLapses(j)
  BY <1>0, <1>5, LeaseStays
<1>6. CASE \E v \in Workers : Heartbeat(v)
  <2>1. UNCHANGED job /\ active'[i] = "live"
    BY <1>1, <1>6 DEF Heartbeat, IInv, TypeOK
  <2> QED BY <1>1, <2>1 DEF JobStays, Running
<1>7. CASE \E v \in Workers : PickUp(v) \/ Fault(v)
  BY <1>3, <1>7 DEF PickUp, Deliver, Promote, AutoClaim, ReadStale, Fault, Crash, RedisFails,
     PromoteAddFails, Cancel
<1>8. CASE \E v \in Workers : RateLimited(v)
  BY <1>8 DEF NeverLimited
<1>9. CASE UNCHANGED vars
  BY <1>3, <1>9 DEF vars
<1>10. CASE \E v \in Workers : Step(v)
  <2> PICK v \in Workers : Step(v)
    BY <1>10
  <2>1. CASE Claim(v)
    <3>1. JobOf(v) \in Jobs /\ JobOf(v) # i
      BY <1>1, <2>1, ClaimIs DEF Queued, Running
    <3>2. active'[i] = active[i]
      BY <1>1, <2>1, <3>1 DEF Claim, IInv, TypeOK
    <3> QED BY <1>1, <2>1, <3>1, <3>2, ClaimIs, OtherRecord
  <2>2. CASE SaveClaim(v)
    <3>1. v # w /\ Holds(v) /\ JobOf(v) \in Jobs
      BY <2>2, SaveClaimIs DEF ClaimsHold, Undisturbed
    <3>2. JobOf(v) # i /\ UNCHANGED active
      BY <1>2, <2>2, <3>1 DEF SaveClaim
    <3> QED BY <1>1, <2>2, <3>1, <3>2, SaveClaimIs, OtherRecord
  <2>3. CASE Finish(v)
    <3>1. v # w /\ Holds(v) /\ JobOf(v) \in Jobs /\ JobOf(v) # i
      BY <1>2, <2>3, FinishIs
    <3>2. active'[i] = active[i]
      BY <1>1, <2>3, <3>1 DEF Finish, IInv, TypeOK
    <3> QED BY <1>1, <2>3, <3>1, <3>2, FinishIs, OtherRecord
  <2>4. CASE RecoverEntry(v) \/ RecoverStale(v)
    <3>1. JobOf(v) \in Jobs /\ line[v].ent \in Nat
      BY <2>4, LineFacts DEF RecoverEntry, RecoverStale, At, LineOK, JobOf, Line
    <3>2. CASE JobOf(v) = i
      <4>1. LeaseHeld(i) /\ ~Finished(i) /\ Running(i)
        BY <1>1 DEF LeaseHeld, Running, Finished
      <4>2. UNCHANGED <<job, active>>
        BY <2>4, <3>2, <4>1 DEF RecoverEntry, RecoverStale
      <4> QED BY <1>3, <4>2
    <3>3. CASE JobOf(v) # i
      <4>1. UNCHANGED job \/ \E rec : job' = [job EXCEPT ![JobOf(v)] = rec]
        BY <2>4 DEF RecoverEntry, RecoverStale, BackToQueue
      <4>2. UNCHANGED active \/ active' = [active EXCEPT ![JobOf(v)] = "none"]
        BY <2>4 DEF RecoverEntry, RecoverStale, BackToQueue
      <4>3. active'[i] = active[i]
        BY <1>1, <3>1, <3>3, <4>2 DEF IInv, TypeOK
      <4> QED BY <1>1, <3>1, <3>3, <4>1, <4>3, OtherRecord DEF JobStays, Running
    <3> QED BY <3>2, <3>3
  <2>5. CASE ClaimRefused(v) \/ AckRefused(v) \/ FinishRefused(v) \/ MetricRecorded(v)
    BY <1>3, <2>5 DEF ClaimRefused, AckRefused, FinishRefused, MetricRecorded
  <2>6. ~RequeueRead(v) /\ ~RequeueSave(v) /\ ~RequeuePush(v) /\ ~PromoteRead(v) /\ ~PromoteAdd(v)
    BY DEF NothingRequeued, Requeueing, RequeueRead, RequeueSave, RequeuePush,
           PromoteRead, PromoteAdd, At
  <2> QED BY <2>1, <2>2, <2>3, <2>4, <2>5, <2>6 DEF Step
<1> QED BY <1>4, <1>5, <1>6, <1>7, <1>8, <1>9, <1>10 DEF Next

(* Where a line that has claimed a job, or that works on one, comes from.   *)
LEMMA ClaimedFrom ==
  ASSUME IInv, Shapes, [Next]_vars, NEW w \in Workers, line'[w].pc = "claimed"
  PROVE  line'[w] = line[w] \/ Claim(w)
<1>1. CASE UNCHANGED line
  BY <1>1
<1>2. CASE \E v \in Workers : (Others(v) /\ line'[v].pc # "claimed") \/ (Others(v) /\ Claim(v))
  BY <1>2 DEF Others
<1>3. \A v \in Workers : Return(v) => Others(v) /\ line'[v].pc # "claimed"
  BY Returned DEF LineIs
<1>4. \A v \in Workers : \A p \in Pcs \ {"claimed"} : Goto(v, p) => Others(v) /\ line'[v].pc # "claimed"
  BY Gone DEF LineIs
<1>5. \A v \in Workers :
        PickUp(v) \/ SaveClaim(v) \/ Finish(v) \/ RateLimited(v) \/ RequeueRead(v) \/ RequeueSave(v)
        \/ RedisFails(v) \/ Cancel(v)
        => Others(v) /\ line'[v].pc # "claimed"
  BY DeliverIs, AutoClaimIs, PromoteIs, ReadStaleIs, SaveClaimIs, FinishIs, IdleIs, RateLimitedIs,
     RequeueReadIs, RequeueSaveIs, RedisFailsIs, CancelIs DEF LineIs, PickUp
<1>6. \A v \in Workers :
        ClaimRefused(v) \/ AckRefused(v) \/ FinishRefused(v) \/ MetricRecorded(v)
        \/ RequeuePush(v) \/ PromoteRead(v) \/ PromoteAdd(v) \/ RecoverEntry(v) \/ RecoverStale(v)
        \/ Crash(v) \/ PromoteAddFails(v)
        => Others(v) /\ line'[v].pc # "claimed"
  BY <1>3, <1>4 DEF ClaimRefused, AckRefused, FinishRefused, MetricRecorded, RequeuePush,
     PromoteRead, PromoteAdd, RecoverEntry, RecoverStale, Crash, PromoteAddFails, Pcs
<1>7. \A v \in Workers : Claim(v) => Others(v)
  BY ClaimIs
<1>8. Request \/ (\E j \in Jobs : LeaseLapses(j)) \/ (\E v \in Workers : Heartbeat(v))
      \/ UNCHANGED vars => UNCHANGED line
  BY DEF Request, Attach, Create, LeaseLapses, Heartbeat, vars
<1> QED BY <1>1, <1>2, <1>5, <1>6, <1>7, <1>8 DEF Next, Step, Fault

LEMMA AttemptFrom ==
  ASSUME IInv, Shapes, [Next]_vars, NEW w \in Workers, line'[w].pc \in {"execute", "failed"}
  PROVE  line'[w] = line[w] \/ SaveClaim(w) \/ RedisFails(w)
<1> DEFINE Elsewhere(v) == Others(v) /\ line'[v].pc \notin {"execute", "failed"}
<1>1. CASE UNCHANGED line
  BY <1>1
<1>2. CASE \E v \in Workers : Elsewhere(v) \/ (Others(v) /\ (SaveClaim(v) \/ RedisFails(v)))
  BY <1>2 DEF Others
<1>3. \A v \in Workers : Return(v) => Elsewhere(v)
  BY Returned DEF LineIs
<1>4. \A v \in Workers : \A p \in Pcs \ {"execute", "failed"} : Goto(v, p) => Elsewhere(v)
  BY Gone DEF LineIs
<1>5. \A v \in Workers :
        PickUp(v) \/ Claim(v) \/ Finish(v) \/ RateLimited(v) \/ RequeueRead(v) \/ RequeueSave(v)
        \/ Cancel(v)
        => Elsewhere(v)
  BY DeliverIs, AutoClaimIs, PromoteIs, ReadStaleIs, ClaimIs, FinishIs, IdleIs, RateLimitedIs,
     RequeueReadIs, RequeueSaveIs, CancelIs DEF LineIs, PickUp
<1>6. \A v \in Workers :
        ClaimRefused(v) \/ AckRefused(v) \/ FinishRefused(v) \/ MetricRecorded(v)
        \/ RequeuePush(v) \/ PromoteRead(v) \/ PromoteAdd(v) \/ RecoverEntry(v) \/ RecoverStale(v)
        \/ Crash(v) \/ PromoteAddFails(v)
        => Elsewhere(v)
  BY <1>3, <1>4 DEF ClaimRefused, AckRefused, FinishRefused, MetricRecorded, RequeuePush,
     PromoteRead, PromoteAdd, RecoverEntry, RecoverStale, Crash, PromoteAddFails, Pcs
<1>7. \A v \in Workers : SaveClaim(v) \/ RedisFails(v) => Others(v)
  BY SaveClaimIs, RedisFailsIs
<1>8. Request \/ (\E j \in Jobs : LeaseLapses(j)) \/ (\E v \in Workers : Heartbeat(v))
      \/ UNCHANGED vars => UNCHANGED line
  BY DEF Request, Attach, Create, LeaseLapses, Heartbeat, vars
<1> HIDE DEF Elsewhere
<1> QED BY <1>1, <1>2, <1>5, <1>6, <1>7, <1>8 DEF Next, Step, Fault

LEMMA ClaimsHoldStep ==
  ASSUME IInv, Shapes, Shapes', NothingRequeued, ClaimsHold, [Next]_vars, NeverLimited,
         used'.slow = 0, used'.cancel = 0
  PROVE  ClaimsHold'
<1> SUFFICES ASSUME NEW w \in Workers, line'[w].pc = "claimed"
             PROVE  /\ Undisturbed(w)'
                    /\ line'[w].snap.key = job'[JobOf(w)'].key
                    /\ line'[w].snap.user = job'[JobOf(w)'].user
  BY DEF ClaimsHold
<1>1. CASE Claim(w)
  <2>1. PICK rec, snap \in JobRec :
              /\ rec.status = "running" /\ rec.token = lastToken + 1
              /\ rec.key = job[JobOf(w)].key /\ rec.user = job[JobOf(w)].user
              /\ snap.key = job[JobOf(w)].key /\ snap.user = job[JobOf(w)].user
              /\ job' = [job EXCEPT ![JobOf(w)] = rec]
              /\ LineIs(line'[w], "claimed", JobOf(w), line[w].ent, lastToken + 1, "none", snap)
    BY <1>1, ClaimIs
  <2>2. JobOf(w) \in Jobs /\ active' = [active EXCEPT ![JobOf(w)] = "live"]
    BY <1>1, ClaimIs
  <2>3. JobOf(w)' = JobOf(w) /\ job'[JobOf(w)] = rec /\ active'[JobOf(w)] = "live"
    BY <2>1, <2>2 DEF LineIs, JobOf, IInv, TypeOK
  <2> QED BY <2>1, <2>3, NoRecAssumption DEF Undisturbed, Holds, Running, LineIs
<1>2. CASE line'[w] = line[w]
  <2>1. Undisturbed(w) /\ ~Finish(w) /\ ~SaveClaim(w)
    BY <1>2, FinishIs, SaveClaimIs DEF ClaimsHold, LineIs
  <2>2. JobStays(JobOf(w))
    BY <1>2, <2>1, HolderKeeps
  <2> QED BY <1>2, <2>1, <2>2 DEF ClaimsHold, JobStays, Undisturbed, Holds, Running, JobOf
<1> QED BY <1>1, <1>2, ClaimedFrom

LEMMA AttemptsHoldStep ==
  ASSUME IInv, Shapes, NothingRequeued, ClaimsHold, AttemptsHold, [Next]_vars, NeverLimited,
         used'.slow = 0, used'.cancel = 0, used'.late = 0
  PROVE  AttemptsHold'
<1> SUFFICES ASSUME NEW w \in Workers, line'[w].pc \in {"execute", "failed"}
             PROVE  Undisturbed(w)'
  BY DEF AttemptsHold
<1>1. CASE SaveClaim(w)
  <2>1. /\ line[w].pc = "claimed" /\ JobOf(w) \in Jobs /\ line[w].snap \in JobRec
        /\ line[w].snap.status = "running" /\ line[w].snap.token = line[w].token
        /\ job' = [job EXCEPT ![JobOf(w)] = line[w].snap]
        /\ LineIs(line'[w], "execute", JobOf(w), line[w].ent, line[w].token, "none", NoRec)
        /\ UNCHANGED active
    BY <1>1, SaveClaimIs DEF SaveClaim
  <2>2. active[JobOf(w)] = "live"
    BY <2>1 DEF ClaimsHold, Undisturbed
  <2>3. JobOf(w)' = JobOf(w) /\ job'[JobOf(w)] = line[w].snap
    BY <2>1 DEF LineIs, JobOf, IInv, TypeOK
  <2> QED BY <2>1, <2>2, <2>3, NoRecAssumption DEF Undisturbed, Holds, Running, LineIs, Processing
<1>2. CASE line'[w] = line[w] \/ RedisFails(w)
  <2>1. line[w].pc \in {"execute", "failed"}
    BY <1>2, RedisFailsIs DEF NothingRequeued, Requeueing
  <2>2. Undisturbed(w) /\ ~SaveClaim(w)
    BY <2>1, SaveClaimIs DEF AttemptsHold
  <2>3. ~Finish(w)
    BY <1>2, <2>1, FinishIs, IdleIs DEF LineIs
  <2>4. JobStays(JobOf(w))
    BY <2>2, <2>3, HolderKeeps
  <2>5. /\ line'[w].job = line[w].job /\ line'[w].token = line[w].token
        /\ line'[w].pc \in {"execute", "failed"}
    BY <1>2, RedisFailsIs DEF LineIs, JobOf
  <2> QED BY <2>2, <2>4, <2>5 DEF JobStays, Undisturbed, Holds, Running, JobOf, Processing
<1> QED BY <1>1, <1>2, AttemptFrom

-----------------------------------------------------------------------------
(* A key is taken by its open job, and a user's quota counts his open jobs. *)
Keyed == \A j \in Jobs : Open(j) => dedupe[job[j].key] = j
Quota == \A u \in Users : activeUser[u] = {j \in Jobs : Open(j) /\ job[j].user = u}

(* Every step but enqueue_job of a new job and finish_job moves at most one *)
(* open job, between queued and running, or leaves the job's state alone.   *)
OpenMoves ==
  /\ UNCHANGED <<dedupe, activeUser, counted>>
  /\ \/ UNCHANGED job
     \/ \E j \in Jobs, rec \in JobRec :
          /\ job[j] # NoRec /\ job' = [job EXCEPT ![j] = rec]
          /\ rec.key = job[j].key /\ rec.user = job[j].user
          /\ \/ rec.status = job[j].status
             \/ Queued(j) /\ rec.status = "running"
             \/ Running(j) /\ rec.status = "queued"

LEMMA StepMoves ==
  ASSUME IInv, Shapes, NothingRequeued, ClaimsHold, [Next]_vars, NeverLimited, used'.cancel = 0
  PROVE  \/ OpenMoves
         \/ \E j \in Jobs, k \in Keys, u \in Users \cup {NoUser} : Create(j, k, u)
         \/ \E w \in Workers : Finish(w)
<1>1. ASSUME NEW k \in Keys, NEW u \in Users \cup {NoUser}, Attach(k, u) PROVE OpenMoves
  BY <1>1, AttachIs, NoRecAssumption DEF OpenMoves, Attach, userVars
<1>2. ASSUME NEW w \in Workers, Claim(w) PROVE OpenMoves
  <2>1. UNCHANGED <<dedupe, activeUser, counted>>
    BY <1>2 DEF Claim, userVars
  <2> QED BY <1>2, <2>1, ClaimIs DEF OpenMoves, Queued
<1>3. ASSUME NEW w \in Workers, SaveClaim(w) PROVE OpenMoves
  <2>1. Running(JobOf(w))
    BY <1>3, SaveClaimIs DEF ClaimsHold, Undisturbed, Holds
  <2>2. line[w].snap.key = job[JobOf(w)].key /\ line[w].snap.user = job[JobOf(w)].user
    BY <1>3, SaveClaimIs DEF ClaimsHold
  <2>3. UNCHANGED <<dedupe, activeUser, counted>>
    BY <1>3 DEF SaveClaim, userVars
  <2> QED BY <1>3, <2>1, <2>2, <2>3, SaveClaimIs DEF OpenMoves, Running
<1>4. ASSUME NEW w \in Workers, RecoverEntry(w) \/ RecoverStale(w) PROVE OpenMoves
  <2>1. UNCHANGED <<dedupe, activeUser, counted>>
    BY <1>4 DEF RecoverEntry, RecoverStale, userVars
  <2>2. JobOf(w) \in Jobs /\ line[w].ent \in Nat /\ (Running(JobOf(w)) => job[JobOf(w)].src \in Nat)
    BY <1>4, LineFacts DEF RecoverEntry, RecoverStale, At, LineOK, JobOf, Line, Running, IInv,
                           TypeOK, JobRec
  <2>3. UNCHANGED job \/ \E src \in Nat : Open(JobOf(w)) /\ BackToQueue(JobOf(w), src)
    BY <1>4, <2>2 DEF RecoverEntry, RecoverStale, Running, Open
  <2>4. CASE UNCHANGED job
    BY <2>1, <2>4 DEF OpenMoves
  <2>5. CASE \E src \in Nat : Open(JobOf(w)) /\ BackToQueue(JobOf(w), src)
    <3>1. PICK rec \in JobRec :
           /\ rec.status = "queued"
           /\ rec.key = job[JobOf(w)].key /\ rec.user = job[JobOf(w)].user
           /\ job' = [job EXCEPT ![JobOf(w)] = rec]
      BY <2>2, <2>5, BackToQueueIs
    <3>2. job[JobOf(w)] # NoRec /\ job[JobOf(w)].status \in {"queued", "running"}
      BY <2>2, <2>5 DEF Open, IInv, TypeOK, JobRec
    <3> QED BY <2>1, <2>2, <3>1, <3>2 DEF OpenMoves, Running
  <2> QED BY <2>3, <2>4, <2>5
<1>5. ASSUME UNCHANGED <<job, dedupe, activeUser, counted>> PROVE OpenMoves
  BY <1>5 DEF OpenMoves
<1>6. \A w \in Workers :
        /\ ~RequeueRead(w) /\ ~RequeueSave(w) /\ ~RequeuePush(w) /\ ~PromoteRead(w)
        /\ ~PromoteAdd(w) /\ ~RateLimited(w)
  BY DEF NothingRequeued, Requeueing, RequeueRead, RequeueSave, RequeuePush,
         PromoteRead, PromoteAdd, At, NeverLimited
<1>7. ASSUME NEW w \in Workers,
             \/ PickUp(w) \/ ClaimRefused(w) \/ AckRefused(w) \/ FinishRefused(w)
             \/ MetricRecorded(w) \/ Heartbeat(w) \/ Fault(w)
      PROVE  OpenMoves
  BY <1>5, <1>7 DEF PickUp, Deliver, Promote, AutoClaim, ReadStale, ClaimRefused, AckRefused,
     FinishRefused, MetricRecorded, Heartbeat, Fault, Crash, RedisFails, PromoteAddFails,
     Cancel, userVars
<1>8. (\E j \in Jobs : LeaseLapses(j)) \/ UNCHANGED vars => OpenMoves
  BY <1>5 DEF LeaseLapses, userVars, vars
<1> QED BY <1>1, <1>2, <1>3, <1>4, <1>6, <1>7, <1>8 DEF Next, Request, Step

LEMMA OpenMovesKeep ==
  ASSUME IInv, OpenMoves, NEW i \in Jobs
  PROVE  /\ Open(i)' <=> Open(i)
         /\ Open(i) => job'[i].key = job[i].key /\ job'[i].user = job[i].user
  BY NoRecAssumption DEF OpenMoves, Open, Queued, Running, IInv, TypeOK

LEMMA CreateKeeps ==
  ASSUME IInv, Keyed, Quota, NEW j \in Jobs, NEW k \in Keys, NEW u \in Users \cup {NoUser},
         Create(j, k, u)
  PROVE  /\ Keyed' /\ Quota'
         /\ \A i \in Jobs : Open(i) => job[i].key # k
         /\ u # NoUser => Cardinality({i \in Jobs : Open(i) /\ job[i].user = u}) < MaxActive
<1>1. PICK rec \in JobRec :
        /\ rec.status = "queued" /\ rec.key = k /\ rec.user = u
        /\ job' = [job EXCEPT ![j] = rec]
  BY CreateIs
<1>2. \A i \in Jobs : Open(i)' <=> i = j \/ Open(i)
  BY <1>1, NoRecAssumption DEF Open, IInv, TypeOK
<1>3. ~Open(j) /\ \A i \in Jobs \ {j} : job'[i] = job[i]
  BY <1>1 DEF Create, Open, IInv, TypeOK
<1>4. job'[j] = rec
  BY <1>1 DEF IInv, TypeOK
<1>5. \A i \in Jobs : Open(i) => job[i].key # k
  BY DEF Create, Taken, Keyed, Open
<1>6. dedupe' = [dedupe EXCEPT ![k] = j]
  BY DEF Create
<1>7. Keyed'
  <2> SUFFICES ASSUME NEW i \in Jobs, Open(i)' PROVE dedupe'[job'[i].key] = i
    BY DEF Keyed
  <2>1. CASE i = j
    BY <1>1, <1>4, <1>6, <2>1 DEF IInv, TypeOK
  <2>2. CASE i # j
    <3>1. Open(i) /\ job'[i] = job[i] /\ job[i].key # k /\ job[i].key \in Keys
      BY <1>2, <1>3, <1>5, <2>2 DEF Open, IInv, TypeOK, JobRec
    <3> QED BY <1>6, <3>1 DEF Keyed, IInv, TypeOK
  <2> QED BY <2>1, <2>2
<1>8. Quota'
  <2> SUFFICES ASSUME NEW a \in Users
               PROVE  activeUser'[a] = {i \in Jobs : Open(i)' /\ job'[i].user = a}
    BY DEF Quota
  <2>1. activeUser'[a] = IF a = u THEN activeUser[a] \cup {j} ELSE activeUser[a]
    BY NullAssumption DEF Create, IInv, TypeOK
  <2>2. activeUser[a] = {i \in Jobs : Open(i) /\ job[i].user = a}
    BY DEF Quota
  <2>3. \A i \in Jobs : i \in activeUser'[a] <=> Open(i)' /\ job'[i].user = a
    BY <1>1, <1>2, <1>3, <1>4, <2>1, <2>2
  <2>4. activeUser'[a] \subseteq Jobs
    BY <2>1, <2>2
  <2> QED BY <2>3, <2>4
<1>9. u # NoUser => Cardinality({i \in Jobs : Open(i) /\ job[i].user = u}) < MaxActive
  <2>1. u # NoUser => u \in Users /\ Cardinality(activeUser[u]) < MaxActive
    BY DEF Create, WithinQuota
  <2> QED BY <2>1 DEF Quota
<1> QED BY <1>5, <1>7, <1>8, <1>9

LEMMA FinishKeeps ==
  ASSUME IInv, Shapes, Keyed, Quota, NEW w \in Workers, Finish(w)
  PROVE  Keyed' /\ Quota'
<1> DEFINE j == JobOf(w)
<1>1. PICK rec \in JobRec :
        /\ rec.status = "finished" /\ rec.key = job[j].key /\ rec.user = job[j].user
        /\ job' = [job EXCEPT ![j] = rec]
  BY FinishIs
<1>2. j \in Jobs /\ Open(j) /\ job[j].key \in Keys /\ job[j].user \in Users \cup {NoUser}
  BY FinishIs DEF Holds, Running, Open, IInv, TypeOK, JobRec
<1>3. /\ dedupe' = IF dedupe[job[j].key] = j THEN [dedupe EXCEPT ![job[j].key] = NoJob] ELSE dedupe
      /\ activeUser' = IF job[j].user = NoUser THEN activeUser
                       ELSE [activeUser EXCEPT ![job[j].user] = @ \ {j}]
  BY DEF Finish
<1> HIDE DEF j
<1>4. \A i \in Jobs : Open(i)' <=> i # j /\ Open(i)
  BY <1>1, <1>2 DEF Open, IInv, TypeOK
<1>5. \A i \in Jobs \ {j} : job'[i] = job[i]
  BY <1>1 DEF IInv, TypeOK
<1>6. Keyed'
  <2> SUFFICES ASSUME NEW i \in Jobs, Open(i)' PROVE dedupe'[job'[i].key] = i
    BY DEF Keyed
  <2>1. i # j /\ Open(i) /\ job'[i] = job[i] /\ dedupe[job[i].key] = i
    BY <1>4, <1>5 DEF Keyed
  <2>2. dedupe[job[j].key] = j
    BY <1>2 DEF Keyed
  <2>3. job[i].key # job[j].key
    BY <2>1, <2>2
  <2>4. job[i].key \in Keys
    BY <2>1 DEF Open, IInv, TypeOK, JobRec
  <2> QED BY <1>2, <1>3, <2>1, <2>3, <2>4 DEF IInv, TypeOK
<1>7. Quota'
  <2> SUFFICES ASSUME NEW a \in Users
               PROVE  activeUser'[a] = {i \in Jobs : Open(i)' /\ job'[i].user = a}
    BY DEF Quota
  <2>1. activeUser[a] = {i \in Jobs : Open(i) /\ job[i].user = a}
    BY DEF Quota
  <2>2. activeUser'[a] = IF a = job[j].user THEN activeUser[a] \ {j} ELSE activeUser[a]
    BY <1>2, <1>3, NullAssumption DEF IInv, TypeOK
  <2>3. \A i \in Jobs : i \in activeUser'[a] <=> Open(i)' /\ job'[i].user = a
    BY <1>2, <1>4, <1>5, <2>1, <2>2
  <2>4. activeUser'[a] \subseteq Jobs
    BY <2>1, <2>2
  <2> QED BY <2>3, <2>4
<1> QED BY <1>6, <1>7

LEMMA BooksStep ==
  ASSUME IInv, Shapes, NothingRequeued, ClaimsHold, Keyed, Quota, [Next]_vars, NeverLimited,
         used'.cancel = 0
  PROVE  Keyed' /\ Quota'
<1>1. CASE OpenMoves
  <2>1. Keyed'
    BY <1>1, OpenMovesKeep DEF Keyed, OpenMoves
  <2>2. Quota'
    <3> SUFFICES ASSUME NEW a \in Users
                 PROVE  activeUser'[a] = {i \in Jobs : Open(i)' /\ job'[i].user = a}
      BY DEF Quota
    <3>1. \A i \in Jobs : Open(i)' /\ job'[i].user = a <=> Open(i) /\ job[i].user = a
      BY <1>1, OpenMovesKeep
    <3> QED BY <1>1, <3>1 DEF Quota, OpenMoves
  <2> QED BY <2>1, <2>2
<1> QED BY <1>1, StepMoves, CreateKeeps, FinishKeeps

-----------------------------------------------------------------------------
SInv == /\ PInv
        /\ used.slow = 0 /\ used.cancel = 0 =>
             /\ ClaimsHold /\ Keyed /\ Quota
             /\ used.late = 0 => AttemptsHold

LEMMA NextSInv == SInv /\ [Next]_vars /\ [NeverLimited]_vars => SInv'
<1> SUFFICES ASSUME SInv, [Next]_vars, [NeverLimited]_vars PROVE SInv'
  OBVIOUS
<1>1. PInv' /\ IInv /\ IInv' /\ Shapes /\ Shapes'
  BY NextPInv, NextQInv DEF SInv, PInv, QInv
<1>2. CASE UNCHANGED vars
  BY <1>1, <1>2 DEF SInv, vars, ClaimsHold, Keyed, Quota, AttemptsHold, Undisturbed, Holds,
                    Running, Open, JobOf
<1>3. CASE NeverLimited
  <2>1. \A b \in {"crash", "error", "cancel", "late", "slow"} : used'[b] = 0 => used[b] = 0
    BY <1>1, UsedGrows
  <2>2. ASSUME used'.slow = 0, used'.cancel = 0
        PROVE  ClaimsHold' /\ Keyed' /\ Quota' /\ (used'.late = 0 => AttemptsHold')
    <3>1. /\ NothingRequeued /\ ClaimsHold /\ Keyed /\ Quota
          /\ used'.late = 0 => AttemptsHold
      BY <2>1, <2>2 DEF SInv, PInv
    <3> QED BY <1>1, <1>3, <2>2, <3>1, ClaimsHoldStep, AttemptsHoldStep, BooksStep
  <2> QED BY <1>1, <2>2 DEF SInv
<1> QED BY <1>2, <1>3

LEMMA InitSInv == Init => SInv
<1> SUFFICES ASSUME Init PROVE SInv
  OBVIOUS
<1>1. PInv
  BY InitQInv, InitNoLostJob DEF PInv
<1>2. \A w \in Workers : line[w].pc = "loop"
  BY DEF Init, Idle
<1>3. \A j \in Jobs : ~Open(j)
  BY DEF Init, Open
<1>4. ClaimsHold /\ AttemptsHold /\ Keyed /\ Quota
  BY <1>2, <1>3 DEF ClaimsHold, AttemptsHold, Keyed, Quota, Init
<1> QED BY <1>1, <1>4 DEF SInv

LEMMA SteadyInvariance == Spec /\ [][NeverLimited]_vars => []SInv
  BY InitSInv, NextSInv, PTL DEF Spec

(* While heartbeats are in time, no line stalls inside claim_next_job and   *)
(* nothing is requeued, no job is executed by two lines at once, whatever   *)
(* crashes, fails or is recovered.                                          *)
THEOREM ExecutedOnce ==
  Spec /\ [][NeverLimited]_vars => [](used.slow = 0 /\ used.cancel = 0 => NoDoubleExecution)
<1>1. SInv => (used.slow = 0 /\ used.cancel = 0 => NoDoubleExecution)
  BY Exclusive DEF SInv, PInv, QInv, AttemptsHold, Undisturbed, TokenExclusive,
                   NoDoubleExecution, At
<1> QED BY <1>1, SteadyInvariance, PTL

-----------------------------------------------------------------------------
(* The queue implements JobLifecycle.                                       *)

(* The phase, key and user of every job, as JobLifecycle sees them.         *)
PhaseOf == [j \in Jobs |-> IF job[j] = NoRec THEN "absent" ELSE job[j].status]
KeyOf   == [j \in Jobs |-> IF job[j] = NoRec THEN NoJob ELSE job[j].key]
UserOf  == [j \in Jobs |-> IF job[j] = NoRec THEN NoUser ELSE job[j].user]

LEMMA PhaseFacts ==
  ASSUME IInv, NEW j \in Jobs
  PROVE  /\ job[j] = NoRec <=> PhaseOf[j] = "absent"
         /\ Queued(j) <=> PhaseOf[j] = "queued"
         /\ Running(j) <=> PhaseOf[j] = "running"
         /\ Open(j) <=> PhaseOf[j] \in {"queued", "running"}
         /\ job[j] # NoRec => KeyOf[j] = job[j].key /\ UserOf[j] = job[j].user
  BY DEF PhaseOf, KeyOf, UserOf, Queued, Running, Open, IInv, TypeOK, JobRec

(* One record is replaced.                                                  *)
LEMMA PhaseReplaced ==
  ASSUME IInv, NEW j \in Jobs, NEW rec \in JobRec, job' = [job EXCEPT ![j] = rec]
  PROVE  /\ PhaseOf' = [PhaseOf EXCEPT ![j] = rec.status]
         /\ KeyOf' = [KeyOf EXCEPT ![j] = rec.key]
         /\ UserOf' = [UserOf EXCEPT ![j] = rec.user]
  BY NoRecAssumption DEF PhaseOf, KeyOf, UserOf, IInv, TypeOK

LEMMA OwnersStay ==
  ASSUME NEW j \in Jobs, NEW rec, KeyOf[j] = rec.key, UserOf[j] = rec.user,
         KeyOf' = [KeyOf EXCEPT ![j] = rec.key], UserOf' = [UserOf EXCEPT ![j] = rec.user]
  PROVE  KeyOf' = KeyOf /\ UserOf' = UserOf
<1>1. KeyOf = [i \in Jobs |-> KeyOf[i]] /\ UserOf = [i \in Jobs |-> UserOf[i]]
  BY DEF KeyOf, UserOf
<1> QED BY <1>1

LEMMA MovesImplement ==
  ASSUME IInv, OpenMoves PROVE [Lifecycle!Next]_(Lifecycle!vars)
<1>1. counted' = counted
  BY DEF OpenMoves
<1>2. CASE UNCHANGED job
  BY <1>1, <1>2 DEF Lifecycle!vars
<1>3. CASE \E j \in Jobs, rec \in JobRec :
             /\ job[j] # NoRec /\ job' = [job EXCEPT ![j] = rec]
             /\ rec.key = job[j].key /\ rec.user = job[j].user
             /\ \/ rec.status = job[j].status
                \/ Queued(j) /\ rec.status = "running"
                \/ Running(j) /\ rec.status = "queued"
  <2>1. PICK j \in Jobs, rec \in JobRec :
             /\ job[j] # NoRec /\ job' = [job EXCEPT ![j] = rec]
             /\ rec.key = job[j].key /\ rec.user = job[j].user
             /\ \/ rec.status = job[j].status
                \/ Queued(j) /\ rec.status = "running"
                \/ Running(j) /\ rec.status = "queued"
    BY <1>3
  <2>2. /\ PhaseOf' = [PhaseOf EXCEPT ![j] = rec.status]
        /\ KeyOf' = [KeyOf EXCEPT ![j] = rec.key]
        /\ UserOf' = [UserOf EXCEPT ![j] = rec.user]
    BY <2>1, PhaseReplaced
  <2>3. KeyOf[j] = job[j].key /\ UserOf[j] = job[j].user
    BY <2>1, PhaseFacts
  <2>4. KeyOf' = KeyOf /\ UserOf' = UserOf
    BY <2>1, <2>2, <2>3, OwnersStay
  <2>5. CASE rec.status = job[j].status
    <3>1. PhaseOf[j] = job[j].status
      BY <2>1 DEF PhaseOf
    <3>2. PhaseOf' = PhaseOf
      BY <2>2, <2>5, <3>1 DEF PhaseOf
    <3> QED BY <1>1, <2>4, <3>2 DEF Lifecycle!vars, PhaseOf, KeyOf, UserOf
  <2>6. CASE Queued(j) /\ rec.status = "running"
    <3>1. PhaseOf[j] = "queued"
      BY <2>6, PhaseFacts
    <3>2. Lifecycle!Start(j)
      BY <1>1, <2>2, <2>4, <2>6, <3>1 DEF Lifecycle!Start, PhaseOf, KeyOf, UserOf
    <3> QED BY <3>2 DEF Lifecycle!Next
  <2>7. CASE Running(j) /\ rec.status = "queued"
    <3>1. PhaseOf[j] = "running"
      BY <2>7, PhaseFacts
    <3>2. Lifecycle!GiveBack(j)
      BY <1>1, <2>2, <2>4, <2>7, <3>1 DEF Lifecycle!GiveBack, PhaseOf, KeyOf, UserOf
    <3> QED BY <3>2 DEF Lifecycle!Next
  <2> QED BY <2>1, <2>5, <2>6, <2>7
<1> QED BY <1>2, <1>3 DEF OpenMoves

LEMMA SameCardinality == \A S : Lifecycle!Cardinality(S) = Cardinality(S)
  BY DEF Lifecycle!Cardinality, Cardinality, Lifecycle!IsFiniteSet, IsFiniteSet

LEMMA CreateImplements ==
  ASSUME IInv, Keyed, Quota, NEW j \in Jobs, NEW k \in Keys, NEW u \in Users \cup {NoUser},
         Create(j, k, u)
  PROVE  Lifecycle!Submit(j, k, u)
<1>1. PICK rec \in JobRec :
        /\ rec.status = "queued" /\ rec.key = k /\ rec.user = u
        /\ job' = [job EXCEPT ![j] = rec]
  BY CreateIs
<1>2. /\ PhaseOf' = [PhaseOf EXCEPT ![j] = rec.status]
      /\ KeyOf' = [KeyOf EXCEPT ![j] = rec.key]
      /\ UserOf' = [UserOf EXCEPT ![j] = rec.user]
  BY <1>1, PhaseReplaced
<1>3. job[j] = NoRec /\ counted' = counted
  BY DEF Create
<1>4. PhaseOf[j] = "absent"
  BY <1>3, PhaseFacts
<1>5. \A i \in Jobs : Open(i) => job[i].key # k
  BY CreateKeeps
<1>6. \A i \in Jobs : PhaseOf[i] \in {"queued", "running"} => KeyOf[i] # k
  BY <1>5, PhaseFacts DEF Open
<1>7. {i \in Jobs : PhaseOf[i] \in {"queued", "running"} /\ UserOf[i] = u}
        = {i \in Jobs : Open(i) /\ job[i].user = u}
  BY PhaseFacts DEF Open
<1>8. u # NoUser =>
        Cardinality({i \in Jobs : PhaseOf[i] \in {"queued", "running"} /\ UserOf[i] = u}) < MaxActive
  BY <1>7, CreateKeeps
<1>9. /\ PhaseOf[j] = "absent" /\ counted' = counted
      /\ \A i \in Jobs : Lifecycle!Open(i) => KeyOf[i] # k
  BY <1>3, <1>4, <1>6 DEF Lifecycle!Open, PhaseOf
<1>10. u # NoUser => Cardinality({i \in Jobs : Lifecycle!Open(i) /\ UserOf[i] = u}) < MaxActive
  BY <1>8 DEF Lifecycle!Open, PhaseOf
<1> QED BY <1>1, <1>2, <1>9, <1>10, SameCardinality DEF Lifecycle!Submit, PhaseOf, KeyOf, UserOf

LEMMA FinishImplements ==
  ASSUME IInv, Shapes, NEW w \in Workers, Finish(w)
  PROVE  Lifecycle!Next
<1>1. PICK j \in Jobs : j = JobOf(w)
  BY FinishIs
<1>2. PICK rec \in JobRec :
        /\ rec.status = "finished" /\ rec.key = job[j].key /\ rec.user = job[j].user
        /\ job' = [job EXCEPT ![j] = rec]
  BY <1>1, FinishIs
<1>3. Running(j)
  BY <1>1, FinishIs DEF Holds
<1>4. /\ PhaseOf' = [PhaseOf EXCEPT ![j] = rec.status]
      /\ KeyOf' = [KeyOf EXCEPT ![j] = rec.key]
      /\ UserOf' = [UserOf EXCEPT ![j] = rec.user]
  BY <1>2, PhaseReplaced
<1>5. PhaseOf[j] = "running" /\ KeyOf[j] = rec.key /\ UserOf[j] = rec.user
  BY <1>2, <1>3, PhaseFacts DEF Running
<1>6. KeyOf' = KeyOf /\ UserOf' = UserOf
  BY <1>4, <1>5, OwnersStay
<1>7. counted' = [counted EXCEPT ![j] = @ + 1]
  BY <1>1 DEF Finish
<1>8. Lifecycle!Complete(j)
  BY <1>2, <1>4, <1>5, <1>6, <1>7 DEF Lifecycle!Complete, PhaseOf, KeyOf, UserOf
<1> QED BY <1>8 DEF Lifecycle!Next

LEMMA InitImplements == Init => Lifecycle!Init
  BY DEF Init, Lifecycle!Init

LEMMA StepImplements ==
  ASSUME SInv, [Next]_vars, [NeverLimited]_vars, (used.slow = 0 /\ used.cancel = 0)',
         used.slow = 0 /\ used.cancel = 0
  PROVE  [Lifecycle!Next]_(Lifecycle!vars)
<1>1. IInv /\ Shapes /\ NothingRequeued /\ ClaimsHold /\ Keyed /\ Quota
  BY DEF SInv, PInv, QInv
<1>2. CASE UNCHANGED vars
  BY <1>2 DEF vars, Lifecycle!vars
<1>3. CASE NeverLimited
  <2>1. CASE OpenMoves
    BY <1>1, <2>1, MovesImplement
  <2>2. CASE \E j \in Jobs, k \in Keys, u \in Users \cup {NoUser} : Create(j, k, u)
    BY <1>1, <2>2, CreateImplements DEF Lifecycle!Next
  <2>3. CASE \E w \in Workers : Finish(w)
    BY <1>1, <2>3, FinishImplements
  <2> QED BY <1>1, <1>3, <2>1, <2>2, <2>3, StepMoves
<1> QED BY <1>2, <1>3

(* As long as nothing is requeued and no line stalls inside claim_next_job, *)
(* every step of the queue is a step of the lifecycle or leaves it alone:   *)
(* one open job per key, no more open jobs of a user than the quota, and a  *)
(* job that is finished is counted once and stays finished.                 *)
THEOREM QueueImplementsLifecycle ==
  Spec /\ [][NeverLimited]_vars /\ [](used.slow = 0 /\ used.cancel = 0) => ImplementsLifecycle
<1> DEFINE Undelayed == used.slow = 0 /\ used.cancel = 0
<1>1. SInv /\ [Next]_vars /\ [NeverLimited]_vars /\ Undelayed /\ Undelayed'
      => [Lifecycle!Next]_(Lifecycle!vars)
  BY StepImplements
<1> HIDE DEF Undelayed
<1>2. Spec /\ [][NeverLimited]_vars /\ []Undelayed => Lifecycle!Spec
  BY <1>1, InitImplements, SteadyInvariance, PTL DEF Spec, Lifecycle!Spec
<1> QED BY <1>2 DEF Undelayed, ImplementsLifecycle

(* DADATA_MAX_RETRIES = 0.                                                  *)
LEMMA RetriesOff == ASSUME MaxRetries = 0 PROVE Spec => [][NeverLimited]_vars
<1>1. QInv => NeverLimited
  BY RateLimitedIs DEF QInv, NeverLimited
<1> QED BY <1>1, QueueInvariance, PTL
=============================================================================
