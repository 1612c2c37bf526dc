-------------------------- MODULE JobServiceProofs --------------------------
(***************************************************************************)
(* Types and safety of the job queue: the expiry watermark and the         *)
(* dispatch it guards, the redelivery index, the ownership of idempotency  *)
(* keys, finished targets, supersession and the agreement of memory and    *)
(* tables, for any agents, keys, goroutines, TTLs, limits and bounds, with *)
(* failing writes and restarts.                                            *)
(***************************************************************************)
EXTENDS JobService, FiniteSetTheorems, TLAPS

USE NamesAssumption, ServiceAssumption DEF JobIds, ZeroTime
-----------------------------------------------------------------------------
(***************************************************************************)
(* The operators of JobStatus return records of their types.               *)
(***************************************************************************)
LEMMA DeriveType ==
    ASSUME NEW tgt
    PROVE  deriveJobStatus(tgt) \in Status
BY DEF deriveJobStatus, Status

LEMMA DeadlineType ==
    ASSUME NEW job \in Job
    PROVE  Deadline(job) \in Nat
BY DEF Deadline, Job

LEMMA AbsentType == Absent \in Job
BY DEF Absent, Job, NoTarget, JobTarget

LEMMA ExpireTargetsType ==
    ASSUME NEW job \in Job, NEW t \in Nat
    PROVE  expireJobTargets(job, t) \in Job
BY DEF expireJobTargets, Job, JobTarget, TargetStatus, Status

LEMMA ExpireCoveredType ==
    ASSUME NEW job \in Job, NEW covered, NEW t \in Nat
    PROVE  expireCoveredTargets(job, covered, t) \in Job
BY DeriveType DEF expireCoveredTargets, Job, JobTarget, TargetStatus

LEMMA ExpireAcknowledgedType ==
    ASSUME NEW job \in Job, now \in Nat
    PROVE  expireAcknowledgedTargets(job) \in Job
BY DeriveType DEF expireAcknowledgedTargets, Job, JobTarget, TargetStatus

(***************************************************************************)
(* What a job reads like after a round trip through the tables.            *)
(***************************************************************************)
LEMMA RoundType ==
    ASSUME NEW t \in Nat
    PROVE  toUnix(t) \in Nat
<1>1. t % Second \in Nat /\ t % Second <= t
  BY SMTT(30)
<1> QED
  BY <1>1 DEF toUnix

LEMMA RowTargetType ==
    ASSUME NEW target \in JobTarget
    PROVE  RowTarget(target) \in JobTarget
BY RoundType DEF RowTarget, JobTarget

LEMMA RowType ==
    ASSUME NEW job \in Job
    PROVE  Row(job) \in Job
BY RoundType, RowTargetType DEF Row, Job

(***************************************************************************)
(* What a goroutine is doing keeps its type.                               *)
(***************************************************************************)
LEMMA StaleCandidateType ==
    ASSUME NEW x \in Candidate, NEW D
    PROVE  StaleCandidate(x, D) \in Candidate
BY DEF StaleCandidate, Candidate

LEMMA StaleType ==
    ASSUME NEW o \in Op, NEW D \in SUBSET JobIds
    PROVE  Stale(o, D) \in Op
<1>1. CASE o = Idle
  BY <1>1 DEF Stale
<1>2. CASE o # Idle
  <2>1. StaleCandidate(o.cur, D) \in Candidate
    BY <1>2, StaleCandidateType DEF Op
  <2>2. {StaleCandidate(x, D) : x \in o.todo} \in SUBSET Candidate
    BY <1>2, StaleCandidateType DEF Op
  <2> QED
    BY <1>2, <2>1, <2>2 DEF Op, Stale
<1> QED
  BY <1>1, <1>2

LEMMA BusyType ==
    ASSUME NEW o \in Op, o.pc # "idle"
    PROVE  /\ o # Idle /\ o.pc \in {"enqueue", "flush"}
           /\ o.cur \in Candidate /\ o.cur.id \in JobIds /\ o.cur.job \in Job
           /\ o.todo \in SUBSET Candidate
<1>1. o # Idle
  BY DEF Idle
<1>2. o.pc \in {"enqueue", "flush"} /\ o.cur \in Candidate /\ o.todo \in SUBSET Candidate
  BY <1>1 DEF Op
<1>3. o.cur.id \in JobIds /\ o.cur.job \in Job
  BY <1>2 DEF Candidate
<1> QED
  BY <1>1, <1>2, <1>3

LEMMA WritingType ==
    ASSUME NEW pc \in {"enqueue", "flush"}, NEW x \in Candidate, NEW todo \in SUBSET Candidate
    PROVE  Writing(pc, x, todo) \in Op
BY DEF Writing, Op, TargetsOf

LEMMA StartNextType ==
    ASSUME NEW todo \in SUBSET Candidate, NEW o \in StartNext(todo)
    PROVE  o \in Op
<1>1. CASE todo = {}
  BY <1>1 DEF StartNext, Op
<1>2. CASE todo # {}
  <2>1. PICK x \in todo : o = Writing("flush", x, todo \ {x})
    BY <1>2 DEF StartNext
  <2> QED
    BY <2>1, WritingType
<1> QED
  BY <1>1, <1>2

LEMMA FlushType ==
    ASSUME op \in [Callers -> Op], NEW c \in Callers, NEW D \in SUBSET JobIds,
           NEW new \in [JobIds -> Job], Flush(c, D, new)
    PROVE  op' \in [Callers -> Op]
<1>1. Snapshots(D, new) \in SUBSET Candidate
  <2>1. \A j \in D : new[j] \in Job
    OBVIOUS
  <2>2. \A j \in D : [id |-> j, job |-> new[j], latest |-> TRUE] \in Candidate
    BY <2>1 DEF Candidate
  <2> QED
    BY <2>2 DEF Snapshots
<1>2. PICK o \in StartNext(Snapshots(D, new)) :
          op' = [d \in Callers |-> IF d = c THEN o ELSE Stale(op[d], D)]
  BY DEF Flush
<1>3. o \in Op
  BY <1>1, StartNextType
<1>4. \A d \in Callers : Stale(op[d], D) \in Op
  BY StaleType
<1> QED
  BY <1>2, <1>3, <1>4

(***************************************************************************)
(* The watermark stays a time.                                             *)
(***************************************************************************)
LEMMA EarliestType ==
    ASSUME NEW times \in SUBSET Nat, NEW t \in Earliest(times)
    PROVE  t \in Nat
BY DEF Earliest

LEMMA RecomputeType ==
    ASSUME NEW new \in [JobIds -> Job], NEW t \in recomputeNextExpiry(new)
    PROVE  t \in Nat
<1>1. {Deadline(new[j]) : j \in {i \in JobIds : CanExpire(new[i])}} \in SUBSET Nat
  BY DeadlineType
<1> QED
  BY <1>1, EarliestType DEF recomputeNextExpiry

LEMMA NoteType ==
    ASSUME NEW mark \in Nat, NEW job \in Job
    PROVE  noteJobExpiry(mark, job) \in Nat
BY DeadlineType DEF noteJobExpiry

(***************************************************************************)
(* commitJobLocked keeps the types of everything it writes.                *)
(***************************************************************************)
LEMMA SyncIndexType ==
    ASSUME NEW index \in [Agents -> SUBSET JobIds], NEW D \in SUBSET JobIds, NEW new
    PROVE  SyncIndex(index, D, new) \in [Agents -> SUBSET JobIds]
BY DEF SyncIndex

LEMMA RepointType ==
    ASSUME keys \in [Keys -> JobIds \cup {Unclaimed, Reserved}],
           NEW D \in SUBSET JobIds, NEW new
    PROVE  RepointKeys(D, new) \in [Keys -> JobIds \cup {Unclaimed, Reserved}]
<1> SUFFICES ASSUME NEW k \in Keys
             PROVE  RepointKeys(D, new)[k] \in JobIds \cup {Unclaimed, Reserved}
  BY DEF RepointKeys
<1>1. CASE OwnedBy(D, new, k) = {}
  BY <1>1 DEF RepointKeys
<1>2. CASE OwnedBy(D, new, k) # {}
  <2>1. (CHOOSE j \in D : new[j].key = k) \in D
    BY <1>2 DEF OwnedBy
  <2> QED
    BY <1>2, <2>1 DEF RepointKeys
<1> QED
  BY <1>1, <1>2

LEMMA MarkKeysType ==
    ASSUME keyTerminalAt \in [Keys -> Nat], NEW owner, NEW D, NEW new, NEW stamp \in Nat, NEW clear
    PROVE  MarkKeys(owner, D, new, stamp, clear) \in [Keys -> Nat]
BY DEF MarkKeys

LEMMA CommitType ==
    ASSUME TypeOK, NEW c \in Callers, NEW D \in SUBSET JobIds, NEW new \in [JobIds -> Job],
           NEW stamp \in Nat, NEW clear, commitJobs(c, D, new, stamp, clear)
    PROVE  /\ jobs' \in [JobIds -> Job]
           /\ agentJobs' \in [Agents -> SUBSET JobIds]
           /\ keys' \in [Keys -> JobIds \cup {Unclaimed, Reserved}]
           /\ keyTerminalAt' \in [Keys -> Nat]
           /\ op' \in [Callers -> Op]
<1>1. agentJobs' \in [Agents -> SUBSET JobIds]
  BY SyncIndexType DEF commitJobs, TypeOK
<1>2. keys' \in [Keys -> JobIds \cup {Unclaimed, Reserved}]
  BY RepointType DEF commitJobs, TypeOK
<1>3. keyTerminalAt' \in [Keys -> Nat]
  BY MarkKeysType DEF commitJobs, TypeOK
<1>4. op' \in [Callers -> Op]
  BY FlushType DEF commitJobs, TypeOK
<1> QED
  BY <1>1, <1>2, <1>3, <1>4 DEF commitJobs

(***************************************************************************)
(* updateTarget, the core of three actions.                                *)
(***************************************************************************)
LEMMA ExpiredType ==
    ASSUME TypeOK, NEW D
    PROVE  Expired(D) \in [JobIds -> Job]
BY ExpireTargetsType DEF Expired, TypeOK

LEMMA ExpireJobsType ==
    ASSUME TypeOK, NEW c \in Callers, expireJobs(c)
    PROVE  /\ jobs' \in [JobIds -> Job]
           /\ agentJobs' \in [Agents -> SUBSET JobIds]
           /\ keys' \in [Keys -> JobIds \cup {Unclaimed, Reserved}]
           /\ keyTerminalAt' \in [Keys -> Nat]
           /\ op' \in [Callers -> Op]
           /\ nextExpiryAt' \in Nat
<1>1. Due \in SUBSET JobIds
  BY DEF Due
<1>2. Expired(Due) \in [JobIds -> Job]
  BY ExpiredType
<1>3. now \in Nat
  BY DEF TypeOK
<1> QED
  BY <1>1, <1>2, <1>3, CommitType, RecomputeType DEF expireJobs

LEMMA UpdateTargetType ==
    ASSUME TypeOK, NEW c \in Callers, NEW a \in Agents, NEW j \in JobIds, NEW st \in TargetStatus,
           updateTarget(c, a, j, st)
    PROVE  /\ jobs' \in [JobIds -> Job]
           /\ agentJobs' \in [Agents -> SUBSET JobIds]
           /\ keys' \in [Keys -> JobIds \cup {Unclaimed, Reserved}]
           /\ keyTerminalAt' \in [Keys -> Nat]
           /\ op' \in [Callers -> Op]
           /\ nextExpiryAt' \in Nat
           /\ sequence' = sequence
<1>0. now \in Nat /\ nextExpiryAt \in Nat /\ {j} \in SUBSET JobIds /\ jobs[j] \in Job
  BY DEF TypeOK
<1>1. CASE jobShouldExpire(jobs[j], now)
  <2>1. Expired({j}) \in [JobIds -> Job]
    BY ExpiredType
  <2>2. commitJobs(c, {j}, Expired({j}), now, FALSE) /\ nextExpiryAt' = nextExpiryAt
    BY <1>1 DEF updateTarget
  <2> QED
    BY <1>0, <2>1, <2>2, CommitType DEF updateTarget
<1>2. CASE ~jobShouldExpire(jobs[j], now)
  <2> DEFINE tgt == [jobs[j].tgt EXCEPT ![a] = [st |-> st, at |-> now]]
             job == [jobs[j] EXCEPT !.tgt = tgt, !.status = deriveJobStatus(tgt)]
  <2>1. job \in Job
    BY <1>0, DeriveType DEF Job, JobTarget
  <2>2. [jobs EXCEPT ![j] = job] \in [JobIds -> Job]
    BY <2>1 DEF TypeOK
  <2>3. /\ commitJobs(c, {j}, [jobs EXCEPT ![j] = job], now, TRUE)
        /\ nextExpiryAt' = noteJobExpiry(nextExpiryAt, job)
    BY <1>2 DEF updateTarget
  <2> HIDE DEF job
  <2> QED
    BY <1>0, <2>1, <2>2, <2>3, CommitType, NoteType DEF updateTarget
<1> QED
  BY <1>1, <1>2

LEMMA UpdateNoTargetType ==
    ASSUME TypeOK, NEW c \in Callers, NEW a \in Agents, NEW j \in JobIds, NEW st,
           jobs[j].tgt[a].st = "none", updateTarget(c, a, j, st)
    PROVE  updateTarget(c, a, j, "queued")
BY DEF updateTarget

-----------------------------------------------------------------------------
(***************************************************************************)
(* Every step keeps the types: one step per action.                        *)
(***************************************************************************)
LEMMA TypeInit == Init => TypeOK
BY AbsentType DEF Init, TypeOK, Op, Unclaimed

LEMMA TypeStep == TypeOK /\ [Next]_vars => TypeOK'
<1> SUFFICES ASSUME TypeOK, [Next]_vars
             PROVE  TypeOK'
  OBVIOUS
<1> USE DEF memory, gateway, history, bounds
<1>1. CASE UNCHANGED vars
  BY <1>1 DEF TypeOK, vars
<1>2. CASE Tick
  BY <1>2 DEF TypeOK, Tick
<1>3. CASE Restart
  <2>1. ListedRows \in SUBSET JobIds
    BY DEF ListedRows, Rows
  <2>2. Restored \in [JobIds -> Job]
    BY AbsentType DEF Restored, TypeOK
  <2>3. jobs' \in [JobIds -> Job] /\ nextExpiryAt' \in Nat
    BY <1>3, <2>2, RecomputeType DEF Restart
  <2>4. sequence' \in JobIds \cup {0}
    BY <1>3, <2>1 DEF Restart, HighestId
  <2>5. agentJobs' \in [Agents -> SUBSET JobIds]
    BY <1>3, <2>1 DEF Restart
  <2>6. \A k \in Keys : OwnedBy(ListedRows, store, k) # {} =>
            (CHOOSE j \in ListedRows : store[j].key = k) \in ListedRows
    BY DEF OwnedBy
  <2>7. keys' \in [Keys -> JobIds \cup {Unclaimed, Reserved}]
    BY <1>3, <2>1, <2>6 DEF Restart
  <2>8. \A j \in JobIds : store[j].created \in Nat
    BY DEF TypeOK, Job
  <2>9. keyTerminalAt' \in [Keys -> Nat]
    BY <1>3, <2>1, <2>6, <2>8 DEF Restart
  <2>10. op' \in [Callers -> Op]
    BY <1>3 DEF Restart, Op
  <2>11. listed' \in [Agents -> SUBSET JobIds] /\ unsaved' \subseteq JobIds /\ restarts' \in Nat
    BY <1>3 DEF Restart, TypeOK
  <2>12. UNCHANGED <<now, wire, store, rejected, prunedTo, failures>>
    BY <1>3 DEF Restart
  <2>13. late' \subseteq JobIds \X JobIds
    BY <1>3, <2>1 DEF Restart
  <2> QED
    BY <2>3, <2>4, <2>5, <2>7, <2>9, <2>10, <2>11, <2>12, <2>13 DEF TypeOK
<1>4. CASE PruneKeys
  BY <1>4, AbsentType DEF PruneKeys, TypeOK
<1>5. CASE PruneTerminalJobs
  <2>1. store' \in [JobIds -> Job]
    BY <1>5, AbsentType DEF PruneTerminalJobs, TypeOK
  <2>2. prunedTo' \in Nat
    BY <1>5 DEF PruneTerminalJobs, TypeOK
  <2> QED
    BY <1>5, <2>1, <2>2 DEF PruneTerminalJobs, TypeOK
<1>6. ASSUME NEW a \in Agents, StreamBreaks(a)
      PROVE  TypeOK'
  BY <1>6 DEF StreamBreaks, TypeOK
<1>7. ASSUME NEW a \in Agents, NEW j \in JobIds, SendJob(a, j)
      PROVE  TypeOK'
  BY <1>7 DEF SendJob, TypeOK
<1>8. ASSUME NEW c \in Callers, NEW k \in Keys, NEW g \in Groups \cup {NoGroup}, NEW ttl \in TTLs,
             NEW targets \in SUBSET Agents, NEW lag \in Nat, now >= Second + lag,
             EnqueueReserve(c, k, g, ttl, targets, now - lag)
      PROVE  TypeOK'
  <2> DEFINE job == [status |-> "queued", created |-> now - lag, ttl |-> ttl, key |-> k, group |-> g,
                     tgt |-> [a \in Agents |-> IF a \in targets
                                                  THEN [st |-> "queued", at |-> now - lag]
                                                  ELSE NoTarget]]
             x == [id |-> sequence + 1, job |-> job, latest |-> TRUE]
  <2>1. now - lag \in Nat /\ sequence + 1 \in JobIds
    BY <1>8 DEF TypeOK, EnqueueReserve
  <2>2. job \in Job
    BY <2>1 DEF Job, Status, JobTarget, TargetStatus, NoTarget
  <2>3. op' = [op EXCEPT ![c] = Writing("enqueue", x, {})]
    BY <1>8 DEF EnqueueReserve
  <2> HIDE DEF job
  <2>4. x \in Candidate
    BY <2>1, <2>2 DEF Candidate
  <2> HIDE DEF x
  <2>5. op' \in [Callers -> Op]
    BY <2>3, <2>4, WritingType DEF TypeOK
  <2> QED
    BY <1>8, <2>1, <2>5 DEF EnqueueReserve, TypeOK
<1>9. ASSUME NEW c \in Callers, PutJob(c)
      PROVE  TypeOK'
  <2> DEFINE x == op[c].cur
             o == [op[c] EXCEPT !.row = FALSE]
  <2>1. op[c] # Idle
    BY <1>9 DEF PutJob, Idle
  <2>2. x.id \in JobIds /\ x.job \in Job /\ o \in Op
    <3>1. op[c] \in [pc : {"enqueue", "flush"}, cur : Candidate, row : BOOLEAN,
                     left : SUBSET Agents, todo : SUBSET Candidate]
      BY <2>1 DEF TypeOK, Op
    <3>2. o \in Op
      BY <3>1 DEF Op
    <3> QED
      BY <3>1, <3>2 DEF Candidate
  <2>3. store[x.id] \in Job
    BY <2>2 DEF TypeOK
  <2>4. [Row(x.job) EXCEPT !.tgt = store[x.id].tgt] \in Job
    BY <2>2, <2>3, RowType DEF Job
  <2>5. /\ store' = [store EXCEPT ![x.id] = [Row(x.job) EXCEPT !.tgt = store[x.id].tgt]]
        /\ op' = [op EXCEPT ![c] = o]
        /\ UNCHANGED <<now, memory, gateway, history, bounds>>
    BY <1>9 DEF PutJob
  <2> HIDE DEF x, o
  <2>6. store' \in [JobIds -> Job]
    BY <2>2, <2>4, <2>5 DEF TypeOK
  <2>7. op' \in [Callers -> Op]
    BY <2>2, <2>5 DEF TypeOK
  <2> QED
    BY <2>5, <2>6, <2>7 DEF TypeOK
<1>10. ASSUME NEW c \in Callers, NEW a \in Agents, PutJobTarget(c, a)
       PROVE  TypeOK'
  <2> DEFINE x == op[c].cur
             o == [op[c] EXCEPT !.left = @ \ {a}]
             row == [store[x.id] EXCEPT !.tgt = [@ EXCEPT ![a] = RowTarget(x.job.tgt[a])]]
  <2>1. op[c] # Idle
    BY <1>10 DEF PutJobTarget, Idle
  <2>2. x.id \in JobIds /\ x.job \in Job /\ o \in Op
    <3>1. op[c] \in [pc : {"enqueue", "flush"}, cur : Candidate, row : BOOLEAN,
                     left : SUBSET Agents, todo : SUBSET Candidate]
      BY <2>1 DEF TypeOK, Op
    <3>2. o \in Op
      BY <3>1 DEF Op
    <3> QED
      BY <3>1, <3>2 DEF Candidate
  <2>3. store[x.id] \in Job
    BY <2>2 DEF TypeOK
  <2>4. row \in Job
    <3>1. RowTarget(x.job.tgt[a]) \in JobTarget
      BY <2>2, RowTargetType DEF Job
    <3> QED
      BY <2>3, <3>1 DEF Job
  <2>5. /\ store' = [store EXCEPT ![x.id] = row]
        /\ op' = [op EXCEPT ![c] = o]
        /\ UNCHANGED <<now, memory, gateway, history, bounds>>
    BY <1>10 DEF PutJobTarget
  <2> HIDE DEF x, o, row
  <2>6. store' \in [JobIds -> Job]
    BY <2>2, <2>4, <2>5 DEF TypeOK
  <2>7. op' \in [Callers -> Op]
    BY <2>2, <2>5 DEF TypeOK
  <2> QED
    BY <2>5, <2>6, <2>7 DEF TypeOK
<1>11. ASSUME NEW c \in Callers, PersistFails(c)
       PROVE  TypeOK'
  <2>1. op[c] # Idle
    BY <1>11 DEF PersistFails, Idle
  <2>2. op[c].cur.id \in JobIds /\ op[c].todo \in SUBSET Candidate
    BY <2>1 DEF TypeOK, Op, Candidate
  <2>3. op' \in [Callers -> Op]
    BY <1>11, <2>2, StartNextType DEF PersistFails, TypeOK
  <2>4. keys' \in [Keys -> JobIds \cup {Unclaimed, Reserved}]
    <3>1. keys' = [keys EXCEPT ![op[c].cur.job.key] = IF @ = Reserved THEN Unclaimed ELSE @] \/ keys' = keys
      BY <1>11 DEF PersistFails
    <3>2. keys \in [Keys -> JobIds \cup {Unclaimed, Reserved}]
      BY DEF TypeOK
    <3> QED
      BY <3>1, <3>2
  <2>5. rejected' \subseteq JobIds /\ unsaved' \subseteq JobIds /\ failures' \in Nat
    <3>1. failures' \in Nat
      BY <1>11 DEF PersistFails, TypeOK
    <3>2. \/ rejected' = rejected \cup {op[c].cur.id} /\ unsaved' = unsaved
          \/ unsaved' = unsaved \cup {op[c].cur.id} /\ rejected' = rejected
      BY <1>11 DEF PersistFails
    <3>3. rejected \subseteq JobIds /\ unsaved \subseteq JobIds
      BY DEF TypeOK
    <3> QED
      BY <2>2, <3>1, <3>2, <3>3
  <2>6. UNCHANGED <<now, sequence, jobs, agentJobs, keyTerminalAt, nextExpiryAt, gateway, store,
                    prunedTo, late, restarts>>
    BY <1>11 DEF PersistFails
  <2> QED
    BY <2>3, <2>4, <2>5, <2>6 DEF TypeOK
<1>12. ASSUME NEW c \in Callers, EnqueuePublish(c)
       PROVE  TypeOK'
  <2> DEFINE x == op[c].cur
             D == {i \in JobIds : supersededByNewer(i, x.id, x.job)}
             new == [j \in JobIds |->
                        IF j = x.id THEN x.job
                        ELSE IF j \in D
                          THEN expireCoveredTargets(jobs[j], TargetsOf(x.job), x.job.created)
                        ELSE jobs[j]]
  <2>1. x.id \in JobIds /\ x.job \in Job
    BY <1>12 DEF EnqueuePublish, TypeOK, Op, Candidate, Idle
  <2>2. x.job.created \in Nat
    BY <2>1 DEF Job
  <2>3. new \in [JobIds -> Job]
    BY <2>1, <2>2, ExpireCoveredType DEF TypeOK
  <2>4. /\ jobs' = new
        /\ agentJobs' = SyncIndex(agentJobs, D \cup {x.id}, new)
        /\ keys' = [keys EXCEPT ![x.job.key] = x.id]
        /\ keyTerminalAt' = MarkKeys(keys', D, new, x.job.created, FALSE)
        /\ nextExpiryAt' = noteJobExpiry(nextExpiryAt, x.job)
        /\ Flush(c, D, new)
        /\ late' = late \cup Overtaken(x.id, x.job) \cup Torn(x.id, x.job)
        /\ UNCHANGED <<now, sequence, gateway, store, rejected, unsaved, prunedTo, bounds>>
    BY <1>12 DEF EnqueuePublish
  <2>5. D \in SUBSET JobIds
    OBVIOUS
  <2> HIDE DEF D, new, x
  <2>6. agentJobs' \in [Agents -> SUBSET JobIds]
    BY <2>1, <2>4, <2>5, SyncIndexType DEF TypeOK
  <2>7. keys' \in [Keys -> JobIds \cup {Unclaimed, Reserved}]
    BY <2>1, <2>4 DEF TypeOK
  <2>8. keyTerminalAt' \in [Keys -> Nat]
    BY <2>2, <2>4, MarkKeysType DEF TypeOK
  <2>9. nextExpiryAt' \in Nat
    BY <2>1, <2>4, NoteType DEF TypeOK
  <2>10. op' \in [Callers -> Op]
    BY <2>3, <2>4, <2>5, FlushType DEF TypeOK
  <2>11. late' \subseteq JobIds \X JobIds
    BY <2>1, <2>4 DEF TypeOK, Overtaken, Torn
  <2> QED
    BY <2>3, <2>4, <2>6, <2>7, <2>8, <2>9, <2>10, <2>11 DEF TypeOK
<1>13. ASSUME NEW c \in Callers, PersistCheck(c)
       PROVE  TypeOK'
  <2>1. op[c] # Idle
    BY <1>13 DEF PersistCheck, Idle
  <2>2. op[c].cur.id \in JobIds /\ op[c].todo \in SUBSET Candidate
    BY <2>1 DEF TypeOK, Op, Candidate
  <2> DEFINE x == [id |-> op[c].cur.id, job |-> jobs[op[c].cur.id], latest |-> TRUE]
  <2>3. jobs[op[c].cur.id] \in Job
    BY <2>2 DEF TypeOK
  <2>4. x \in Candidate
    BY <2>2, <2>3 DEF Candidate
  <2>5. Writing("flush", x, op[c].todo) \in Op
    BY <2>2, <2>4, WritingType
  <2>6. \/ \E o \in StartNext(op[c].todo) : op' = [op EXCEPT ![c] = o]
        \/ op' = [op EXCEPT ![c] = Writing("flush", x, op[c].todo)]
    BY <1>13 DEF PersistCheck
  <2> HIDE DEF x
  <2>7. op' \in [Callers -> Op]
    BY <2>2, <2>5, <2>6, StartNextType DEF TypeOK
  <2> QED
    BY <1>13, <2>7 DEF PersistCheck, TypeOK
<1>14. ASSUME NEW c \in Callers, ListJobs(c)
       PROVE  TypeOK'
  BY <1>14, ExpireJobsType DEF ListJobs, TypeOK
<1>15. ASSUME NEW c \in Callers, PruneAcknowledgedTargets(c)
       PROVE  TypeOK'
  <2> DEFINE D == {j \in JobIds : \E a \in Agents : AckOverdue(jobs[j].tgt[a])}
             new == [j \in JobIds |-> IF j \in D THEN expireAcknowledgedTargets(jobs[j]) ELSE jobs[j]]
  <2>1. D \in SUBSET JobIds
    OBVIOUS
  <2>2. new \in [JobIds -> Job]
    BY ExpireAcknowledgedType DEF TypeOK
  <2>3. /\ commitJobs(c, D, new, now, FALSE)
        /\ nextExpiryAt' \in NoteAll(D, new)
        /\ UNCHANGED <<now, sequence, gateway, store, history, bounds>>
    BY <1>15 DEF PruneAcknowledgedTargets
  <2> HIDE DEF D, new
  <2>4. {Deadline(new[j]) : j \in {i \in D : CanExpire(new[i])}} \in SUBSET Nat
    BY <2>1, <2>2, DeadlineType
  <2>5. nextExpiryAt' \in Nat
    BY <2>3, <2>4, EarliestType DEF NoteAll, TypeOK
  <2> QED
    BY <2>1, <2>2, <2>3, <2>5, CommitType DEF TypeOK
<1>16. ASSUME NEW c \in Callers, NEW a \in Agents, PendingForAgent(c, a)
       PROVE  TypeOK'
  <2>1. Pending(a, jobs) \in SUBSET JobIds /\ Pending(a, jobs') \in SUBSET JobIds
    BY DEF Pending, TypeOK
  <2>2. CASE ~anyJobNeedsExpiry
    <3>1. /\ listed' = [listed EXCEPT ![a] = Pending(a, jobs)]
          /\ UNCHANGED <<now, memory, op, wire, store, history, bounds>>
      BY <1>16, <2>2 DEF PendingForAgent
    <3> QED
      BY <2>1, <3>1 DEF TypeOK
  <2>3. CASE anyJobNeedsExpiry
    <3>1. expireJobs(c) /\ UNCHANGED <<now, sequence, wire, store, history, bounds>>
      BY <1>16, <2>3 DEF PendingForAgent
    <3>2. listed' \in [Agents -> SUBSET JobIds]
      BY <1>16, <2>1, <2>3 DEF PendingForAgent, TypeOK
    <3> QED
      BY <3>1, <3>2, ExpireJobsType DEF TypeOK
  <2> QED
    BY <2>2, <2>3
<1>17. ASSUME NEW c \in Callers, NEW a \in Agents, NEW j \in JobIds, MarkDelivered(c, a, j)
       PROVE  TypeOK'
  <2>1. listed' \in [Agents -> SUBSET JobIds] /\ UNCHANGED <<now, wire, store, history, bounds>>
    BY <1>17 DEF MarkDelivered, TypeOK
  <2>2. CASE updateTarget(c, a, j, DeliveredStatus(jobs[j].tgt[a].st))
    <3>1. jobs[j].tgt[a].st \in TargetStatus \cup {"none"}
      BY DEF TypeOK, Job, JobTarget
    <3>2. CASE jobs[j].tgt[a].st = "none"
      BY <2>1, <2>2, <3>2, UpdateNoTargetType, UpdateTargetType DEF TypeOK, TargetStatus
    <3>3. CASE jobs[j].tgt[a].st # "none"
      <4>1. DeliveredStatus(jobs[j].tgt[a].st) \in TargetStatus
        BY <3>1, <3>3 DEF DeliveredStatus, TargetStatus
      <4> QED
        BY <2>1, <2>2, <4>1, UpdateTargetType DEF TypeOK
    <3> QED
      BY <3>2, <3>3
  <2>3. CASE UNCHANGED <<memory, op>>
    BY <2>1, <2>3 DEF TypeOK
  <2> QED
    BY <1>17, <2>2, <2>3 DEF MarkDelivered
<1>18. ASSUME NEW c \in Callers, NEW a \in Agents, NEW j \in JobIds, MarkAcknowledged(c, a, j)
       PROVE  TypeOK'
  <2>1. /\ updateTarget(c, a, j, AcknowledgedStatus(jobs[j].tgt[a].st))
        /\ UNCHANGED <<now, gateway, store, history, bounds>>
    BY <1>18 DEF MarkAcknowledged
  <2>2. jobs[j].tgt[a].st \in TargetStatus \cup {"none"}
    BY DEF TypeOK, Job, JobTarget
  <2>3. CASE jobs[j].tgt[a].st = "none"
    BY <2>1, <2>3, UpdateNoTargetType, UpdateTargetType DEF TypeOK, TargetStatus
  <2>4. CASE jobs[j].tgt[a].st # "none"
    <3>1. AcknowledgedStatus(jobs[j].tgt[a].st) \in TargetStatus
      BY <2>2, <2>4 DEF AcknowledgedStatus, TargetStatus
    <3> QED
      BY <2>1, <3>1, UpdateTargetType DEF TypeOK
  <2> QED
    BY <2>3, <2>4
<1>19. ASSUME NEW c \in Callers, NEW a \in Agents, NEW j \in JobIds,
              NEW outcome \in {"succeeded", "failed"}, RecordResult(c, a, j, outcome)
       PROVE  TypeOK'
  <2>1. updateTarget(c, a, j, outcome) /\ UNCHANGED <<now, gateway, store, history, bounds>>
    BY <1>19 DEF RecordResult
  <2>2. outcome \in TargetStatus
    BY DEF TargetStatus
  <2> QED
    BY <2>1, <2>2, UpdateTargetType DEF TypeOK
<1> QED
  BY <1>1, <1>2, <1>3, <1>4, <1>5, <1>6, <1>7, <1>8, <1>9, <1>10, <1>11, <1>12, <1>13, <1>14,
     <1>15, <1>16, <1>17, <1>18, <1>19 DEF Next

(***************************************************************************)
(* The job queue's state keeps its types, whatever the constants.          *)
(***************************************************************************)
THEOREM TypeCorrect == Spec => []TypeOK
BY TypeInit, TypeStep, PTL DEF Spec

-----------------------------------------------------------------------------
(***************************************************************************)
(* A job that is not resident has no targets.                              *)
(***************************************************************************)
AbsentIsEmpty == \A j \in JobIds : Present(jobs[j]) \/ jobs[j] = Absent

(***************************************************************************)
(* Every number in use was drawn from the sequence.                        *)
(***************************************************************************)
NumbersDrawn ==
    /\ \A a \in Agents : \A j \in agentJobs[a] : j <= sequence
    /\ \A j \in JobIds : Present(jobs[j]) => j <= sequence

(***************************************************************************)
(* Between the two critical sections of Enqueue the new job is known to    *)
(* its goroutine only: the number is nobody else's, and the key is         *)
(* reserved for it.                                                        *)
(***************************************************************************)
EnqueueFresh ==
    \A c \in Callers : op[c].pc = "enqueue" =>
        LET x == op[c].cur
        IN  /\ x.id <= sequence
            /\ Present(x.job) /\ ~Present(jobs[x.id])
            /\ \A a \in Agents : x.id \notin agentJobs[a] /\ x.job.tgt[a].st \in {"queued", "none"}
            /\ \A d \in Callers : op[d].pc = "enqueue" /\ op[d].cur.id = x.id => d = c

EnqueueReserved ==
    \A c \in Callers : op[c].pc = "enqueue" =>
        LET x == op[c].cur
        IN  /\ keys[x.job.key] = Reserved
            /\ \A d \in Callers : op[d].pc = "enqueue" /\ op[d].cur.job.key = x.job.key => d = c

(***************************************************************************)
(* What is resident, stored or about to be stored is a job with a key; no  *)
(* two rows share one; and no key without an owner is up for eviction.     *)
(***************************************************************************)
Keyed(job) == Present(job) /\ job.key \in Keys
JobsKeyed == \A j \in JobIds : Present(jobs[j]) => Keyed(jobs[j])
RowsKeyed == \A j \in JobIds : Present(store[j]) => Keyed(store[j])
CandidatesKeyed ==
    \A c \in Callers : op[c] # Idle =>
        Keyed(op[c].cur.job) /\ \A x \in op[c].todo : Keyed(x.job)
RowsUnique ==
    \A i, j \in JobIds : Present(store[i]) /\ Present(store[j]) /\ store[i].key = store[j].key => i = j
UnownedNotTerminal ==
    \A k \in Keys : keys[k] \in {Unclaimed, Reserved} => keyTerminalAt[k] = ZeroTime

IndexInv == AbsentIsEmpty /\ NumbersDrawn /\ EnqueueFresh /\ IndexExact
KeyInv == /\ EnqueueReserved /\ JobsKeyed /\ RowsKeyed /\ CandidatesKeyed /\ RowsUnique
          /\ UnownedNotTerminal /\ KeyOwnership
-----------------------------------------------------------------------------
(***************************************************************************)
(* What the watermark operators guarantee.                                 *)
(***************************************************************************)
LEMMA NoteSound ==
    ASSUME NEW mark \in Nat, NEW job \in Job
    PROVE  /\ CanExpire(job) =>
                noteJobExpiry(mark, job) # ZeroTime /\ noteJobExpiry(mark, job) <= Deadline(job)
           /\ mark # ZeroTime =>
                noteJobExpiry(mark, job) # ZeroTime /\ noteJobExpiry(mark, job) <= mark
BY DEF noteJobExpiry, CanExpire, Deadline, Job

LEMMA DeadlineSet ==
    ASSUME NEW I \in SUBSET JobIds, NEW new \in [JobIds -> Job]
    PROVE  /\ {Deadline(new[j]) : j \in {i \in I : CanExpire(new[i])}} \in SUBSET Nat
           /\ ZeroTime \notin {Deadline(new[j]) : j \in {i \in I : CanExpire(new[i])}}
<1>1. \A j \in I : Deadline(new[j]) \in Nat /\ (CanExpire(new[j]) => Deadline(new[j]) # ZeroTime)
  BY DEF Deadline, CanExpire, Job
<1> QED
  BY <1>1

LEMMA EarliestSound ==
    ASSUME NEW times \in SUBSET Nat, ZeroTime \notin times, NEW t \in Earliest(times), NEW u \in times
    PROVE  t # ZeroTime /\ t <= u
BY DEF Earliest

LEMMA RecomputeSound ==
    ASSUME NEW new \in [JobIds -> Job], NEW t \in recomputeNextExpiry(new),
           NEW j \in JobIds, CanExpire(new[j])
    PROVE  t # ZeroTime /\ t <= Deadline(new[j])
<1> DEFINE times == {Deadline(new[i]) : i \in {h \in JobIds : CanExpire(new[h])}}
<1>1. times \in SUBSET Nat /\ ZeroTime \notin times
  BY DeadlineSet
<1>2. t \in Earliest(times) /\ Deadline(new[j]) \in times
  BY DEF recomputeNextExpiry
<1> HIDE DEF times
<1> QED
  BY <1>1, <1>2, EarliestSound

LEMMA NoteAllSound ==
    ASSUME nextExpiryAt \in Nat, NEW D \in SUBSET JobIds, NEW new \in [JobIds -> Job],
           NEW t \in NoteAll(D, new)
    PROVE  /\ \A j \in D : CanExpire(new[j]) => t # ZeroTime /\ t <= Deadline(new[j])
           /\ nextExpiryAt # ZeroTime => t # ZeroTime /\ t <= nextExpiryAt
<1> DEFINE due == {Deadline(new[i]) : i \in {h \in D : CanExpire(new[h])}}
           times == ({nextExpiryAt} \ {ZeroTime}) \cup due
<1>1. due \in SUBSET Nat /\ ZeroTime \notin due
  BY DeadlineSet
<1>2. times \in SUBSET Nat /\ ZeroTime \notin times /\ t \in Earliest(times)
  BY <1>1 DEF NoteAll
<1>3. \A j \in D : CanExpire(new[j]) => Deadline(new[j]) \in times
  OBVIOUS
<1>4. nextExpiryAt # ZeroTime => nextExpiryAt \in times
  OBVIOUS
<1> HIDE DEF times
<1> QED
  BY <1>2, <1>3, <1>4, EarliestSound

(***************************************************************************)
(* The rewrites of a job leave its creation time and TTL alone, and only   *)
(* the target updates may bring a finished job back to life.               *)
(***************************************************************************)
LEMMA ExpiredIsFinal ==
    ASSUME NEW job \in Job, NEW t
    PROVE  ~CanExpire(expireJobTargets(job, t))
BY DEF expireJobTargets, CanExpire, LiveStatus, Job

LEMMA CoveredDeadline ==
    ASSUME NEW job \in Job, NEW covered, NEW t, LiveStatus(job.status),
           CanExpire(expireCoveredTargets(job, covered, t))
    PROVE  CanExpire(job) /\ Deadline(expireCoveredTargets(job, covered, t)) = Deadline(job)
BY DEF expireCoveredTargets, CanExpire, Deadline, Job

LEMMA WatermarkStep ==
    TypeOK /\ TypeOK' /\ WatermarkSound /\ [Next]_vars => WatermarkSound'
<1> SUFFICES ASSUME TypeOK, TypeOK', WatermarkSound, [Next]_vars
             PROVE  WatermarkSound'
  OBVIOUS
<1> USE DEF memory, gateway, history, bounds
<1>1. CASE UNCHANGED <<jobs, nextExpiryAt>>
  BY <1>1 DEF WatermarkSound
<1>2. CASE Restart
  BY <1>2, RecomputeSound DEF Restart, WatermarkSound, TypeOK
<1>3. CASE PruneKeys
  <2>1. ~CanExpire(Absent)
    BY DEF CanExpire, Absent
  <2> QED
    BY <1>3, <2>1 DEF PruneKeys, WatermarkSound, TypeOK
<1>4. ASSUME NEW c \in Callers, EnqueuePublish(c)
      PROVE  WatermarkSound'
  <2> DEFINE x == op[c].cur
             D == {i \in JobIds : supersededByNewer(i, x.id, x.job)}
  <2>1. x.id \in JobIds /\ x.job \in Job
    <3>1. op[c] \in Op /\ op[c].pc # "idle"
      BY <1>4 DEF EnqueuePublish, TypeOK
    <3> QED
      BY <3>1, BusyType
  <2>2. /\ nextExpiryAt' = noteJobExpiry(nextExpiryAt, x.job)
        /\ \A j \in JobIds :
               jobs'[j] = IF j = x.id THEN x.job
                          ELSE IF j \in D
                            THEN expireCoveredTargets(jobs[j], TargetsOf(x.job), x.job.created)
                          ELSE jobs[j]
    BY <1>4 DEF EnqueuePublish
  <2>3. nextExpiryAt # ZeroTime => nextExpiryAt' # ZeroTime /\ nextExpiryAt' <= nextExpiryAt
    BY <2>1, <2>2, NoteSound DEF TypeOK
  <2> SUFFICES ASSUME NEW j \in JobIds, CanExpire(jobs'[j])
               PROVE  nextExpiryAt' # ZeroTime /\ nextExpiryAt' <= Deadline(jobs'[j])
    BY DEF WatermarkSound
  <2>4. CASE j = x.id
    BY <2>1, <2>2, <2>4, NoteSound DEF TypeOK
  <2>5. CASE j # x.id
    <3>1. CanExpire(jobs[j]) /\ Deadline(jobs'[j]) = Deadline(jobs[j])
      <4>1. jobs[j] \in Job /\ (j \in D => LiveStatus(jobs[j].status))
        BY DEF TypeOK, supersededByNewer
      <4> QED
        BY <2>2, <2>5, <4>1, CoveredDeadline
    <3>2. nextExpiryAt # ZeroTime /\ nextExpiryAt <= Deadline(jobs[j]) /\ Deadline(jobs[j]) \in Nat
      BY <3>1, DeadlineType DEF WatermarkSound, TypeOK
    <3> QED
      BY <2>3, <3>1, <3>2 DEF TypeOK
  <2> QED
    BY <2>4, <2>5
<1>5. ASSUME NEW c \in Callers, expireJobs(c)
      PROVE  WatermarkSound'
  BY <1>5, RecomputeSound, ExpiredType DEF expireJobs, commitJobs, WatermarkSound
<1>6. ASSUME NEW c \in Callers, PruneAcknowledgedTargets(c)
      PROVE  WatermarkSound'
  <2> DEFINE D == {j \in JobIds : \E a \in Agents : AckOverdue(jobs[j].tgt[a])}
  <2>1. /\ nextExpiryAt' \in NoteAll(D, jobs')
        /\ \A j \in JobIds \ D : jobs'[j] = jobs[j]
    BY <1>6 DEF PruneAcknowledgedTargets, commitJobs
  <2>2. D \in SUBSET JobIds /\ jobs' \in [JobIds -> Job] /\ nextExpiryAt \in Nat /\ nextExpiryAt' \in Nat
    BY DEF TypeOK
  <2>3. /\ \A j \in D : CanExpire(jobs'[j]) =>
               nextExpiryAt' # ZeroTime /\ nextExpiryAt' <= Deadline(jobs'[j])
        /\ nextExpiryAt # ZeroTime => nextExpiryAt' # ZeroTime /\ nextExpiryAt' <= nextExpiryAt
    BY <2>1, <2>2, NoteAllSound
  <2>4. \A j \in JobIds : Deadline(jobs'[j]) \in Nat
    BY <2>2, DeadlineType
  <2> HIDE DEF D
  <2> QED
    BY <2>1, <2>2, <2>3, <2>4 DEF WatermarkSound
<1>7. ASSUME NEW c \in Callers, NEW a \in Agents, NEW j \in JobIds, NEW st, updateTarget(c, a, j, st)
      PROVE  WatermarkSound'
  <2>1. nextExpiryAt \in Nat /\ nextExpiryAt' \in Nat /\ jobs' \in [JobIds -> Job]
    BY DEF TypeOK
  <2>2. \A i \in JobIds : jobs[i] \in Job /\ Deadline(jobs'[i]) \in Nat
    BY DeadlineType DEF TypeOK
  <2>3. CASE jobShouldExpire(jobs[j], now)
    <3>1. jobs' = Expired({j}) /\ nextExpiryAt' = nextExpiryAt
      BY <1>7, <2>3 DEF updateTarget, commitJobs
    <3>2. ~CanExpire(jobs'[j]) /\ \A i \in JobIds \ {j} : jobs'[i] = jobs[i]
      BY <2>2, <3>1, ExpiredIsFinal DEF Expired
    <3> QED
      BY <3>1, <3>2 DEF WatermarkSound
  <2>4. CASE ~jobShouldExpire(jobs[j], now)
    <3>1. /\ \A i \in JobIds \ {j} : jobs'[i] = jobs[i]
          /\ nextExpiryAt' = noteJobExpiry(nextExpiryAt, jobs'[j])
      BY <1>7, <2>4 DEF updateTarget, commitJobs, TypeOK
    <3>2. /\ CanExpire(jobs'[j]) => nextExpiryAt' # ZeroTime /\ nextExpiryAt' <= Deadline(jobs'[j])
          /\ nextExpiryAt # ZeroTime => nextExpiryAt' # ZeroTime /\ nextExpiryAt' <= nextExpiryAt
      BY <2>1, <3>1, NoteSound
    <3> QED
      BY <2>1, <2>2, <3>1, <3>2 DEF WatermarkSound
  <2> QED
    BY <2>3, <2>4
<1>8. ASSUME NEW c \in Callers, PersistFails(c)
      PROVE  UNCHANGED <<jobs, nextExpiryAt>>
  BY <1>8 DEF PersistFails
<1>9. ASSUME NEW c \in Callers, NEW a \in Agents, PendingForAgent(c, a)
      PROVE  UNCHANGED <<jobs, nextExpiryAt>> \/ expireJobs(c)
  BY <1>9 DEF PendingForAgent
<1>10. ASSUME NEW c \in Callers, NEW a \in Agents, NEW j \in JobIds, MarkDelivered(c, a, j)
       PROVE  UNCHANGED <<jobs, nextExpiryAt>> \/ \E st : updateTarget(c, a, j, st)
  BY <1>10 DEF MarkDelivered
<1>11. CASE Tick \/ PruneTerminalJobs \/ \E a \in Agents : StreamBreaks(a)
  BY <1>1, <1>11 DEF Tick, PruneTerminalJobs, StreamBreaks
<1>12. ASSUME NEW a \in Agents, NEW j \in JobIds, SendJob(a, j)
       PROVE  UNCHANGED <<jobs, nextExpiryAt>>
  BY <1>12 DEF SendJob
<1>13. ASSUME NEW c, NEW k, NEW g, NEW ttl, NEW targets, NEW created,
              EnqueueReserve(c, k, g, ttl, targets, created)
       PROVE  UNCHANGED <<jobs, nextExpiryAt>>
  BY <1>13 DEF EnqueueReserve
<1>14. ASSUME NEW c \in Callers, PutJob(c) \/ PersistCheck(c) \/ \E a \in Agents : PutJobTarget(c, a)
       PROVE  UNCHANGED <<jobs, nextExpiryAt>>
  BY <1>14 DEF PutJob, PersistCheck, PutJobTarget
<1>15. ASSUME NEW c \in Callers, NEW a \in Agents, NEW j \in JobIds,
              \/ MarkAcknowledged(c, a, j)
              \/ \E outcome \in {"succeeded", "failed"} : RecordResult(c, a, j, outcome)
       PROVE  \E st : updateTarget(c, a, j, st)
  BY <1>15 DEF MarkAcknowledged, RecordResult
<1>16. ASSUME NEW c \in Callers, ListJobs(c)
       PROVE  expireJobs(c)
  BY <1>16 DEF ListJobs
<1>17. CASE UNCHANGED vars
  BY <1>1, <1>17 DEF vars
<1> QED
  BY <1>1, <1>2, <1>3, <1>4, <1>5, <1>6, <1>7, <1>8, <1>9, <1>10, <1>11, <1>12, <1>13, <1>14,
     <1>15, <1>16, <1>17 DEF Next

(***************************************************************************)
(* The expiry watermark (nextExpiryAt) is never later than the deadline of *)
(* a resident job that can still time out, so the read paths may skip the  *)
(* sweep while it lies ahead.                                              *)
(***************************************************************************)
THEOREM WatermarkCorrect == Spec => []WatermarkSound
<1>1. Init => WatermarkSound
  BY DEF Init, WatermarkSound, CanExpire, Absent
<1> QED
  BY <1>1, TypeCorrect, WatermarkStep, PTL DEF Spec
-----------------------------------------------------------------------------
(***************************************************************************)
(* What every mutator hands to commitJobLocked: resident jobs, under their *)
(* own key, with the targets they had.  A job without targets (restored    *)
(* from a torn row) can only be finished.  A job whose target is not       *)
(* finished is not finished either, as far as the mutators go.             *)
(***************************************************************************)
Bare(job) == \A a \in Agents : job.tgt[a].st = "none"
SameTargets(old, new) ==
    \A a \in Agents : /\ new.tgt[a].st = "none" <=> old.tgt[a].st = "none"
                      /\ old.tgt[a].st = "none" => new.tgt[a] = old.tgt[a]

Honest(job) == \A a \in Agents : LiveTarget(job.tgt[a]) => LiveStatus(job.status)
Ages(old, new) == new.created = old.created /\ new.group = old.group /\ Honest(new)

Rewrites(D, new) ==
    \A j \in JobIds :
        /\ j \notin D => new[j] = jobs[j]
        /\ j \in D => /\ Present(jobs[j]) /\ Present(new[j]) /\ new[j].key = jobs[j].key
                      /\ SameTargets(jobs[j], new[j]) /\ Ages(jobs[j], new[j])
                      /\ Bare(jobs[j]) => isTerminalStatus(new[j].status)

LEMMA DerivedPresent ==
    ASSUME NEW tgt
    PROVE  deriveJobStatus(tgt) # "absent"
BY DeriveType DEF Status

LEMMA DerivedHonest ==
    ASSUME NEW tgt, NEW a \in Agents, LiveTarget(tgt[a])
    PROVE  LiveStatus(deriveJobStatus(tgt))
<1> DEFINE seen == {tgt[b].st : b \in Agents} \ {"none"}
<1>1. tgt[a].st \in seen /\ tgt[a].st \in {"queued", "sent", "acknowledged"}
  BY DEF LiveTarget
<1>2. seen # {"succeeded"}
  BY <1>1
<1>3. CASE tgt[a].st # "queued"
  <2>1. seen \cap {"sent", "acknowledged"} # {}
    BY <1>1, <1>3
  <2> QED
    BY <1>2, <2>1 DEF deriveJobStatus, LiveStatus
<1>4. CASE tgt[a].st = "queued" /\ seen # {"queued"}
  BY <1>1, <1>2, <1>4 DEF deriveJobStatus, LiveStatus
<1>5. CASE seen = {"queued"}
  <2>1. /\ seen \cap {"sent", "acknowledged"} = {} /\ "succeeded" \notin seen
        /\ "failed" \notin seen /\ "expired" \notin seen
    BY <1>5
  <2> QED
    BY <1>2, <1>5, <2>1 DEF deriveJobStatus, LiveStatus
<1> QED
  BY <1>3, <1>4, <1>5

LEMMA DerivedAges ==
    ASSUME NEW job \in Job, NEW tgt
    PROVE  Ages(job, [job EXCEPT !.tgt = tgt, !.status = deriveJobStatus(tgt)])
<1> DEFINE new == [job EXCEPT !.tgt = tgt, !.status = deriveJobStatus(tgt)]
<1>1. /\ new.created = job.created /\ new.group = job.group /\ new.tgt = tgt
      /\ new.status = deriveJobStatus(tgt)
  BY DEF Job
<1> HIDE DEF new
<1>2. Ages(job, new)
  BY <1>1, DerivedHonest DEF Ages, Honest
<1> QED
  BY <1>2 DEF new

LEMMA ExpiredRewrites ==
    ASSUME TypeOK, NEW D \in SUBSET JobIds, \A j \in D : Present(jobs[j])
    PROVE  Rewrites(D, Expired(D))
<1> SUFFICES ASSUME NEW j \in D
             PROVE  LET job == Expired(D)[j]
                    IN  /\ Present(job) /\ job.key = jobs[j].key
                        /\ SameTargets(jobs[j], job) /\ Ages(jobs[j], job)
                        /\ isTerminalStatus(job.status)
  BY DEF Rewrites, Expired
<1>1. jobs[j] \in Job /\ Expired(D)[j] = expireJobTargets(jobs[j], now)
  BY DEF TypeOK, Expired
<1> QED
  BY <1>1 DEF expireJobTargets, Present, Job, LiveTarget, SameTargets, Ages, Honest, isTerminalStatus

LEMMA DueRewrites ==
    ASSUME TypeOK
    PROVE  Due \in SUBSET JobIds /\ Rewrites(Due, Expired(Due))
<1>1. Due \in SUBSET JobIds /\ \A j \in Due : Present(jobs[j])
  BY DEF Due, jobShouldExpire, CanExpire, LiveStatus, Present
<1> QED
  BY <1>1, ExpiredRewrites

LEMMA AcknowledgedRewrites ==
    ASSUME TypeOK, AbsentIsEmpty, NEW new,
           NEW D, D = {j \in JobIds : \E a \in Agents : AckOverdue(jobs[j].tgt[a])},
           new = [j \in JobIds |-> IF j \in D THEN expireAcknowledgedTargets(jobs[j]) ELSE jobs[j]]
    PROVE  Rewrites(D, new)
<1> SUFFICES ASSUME NEW j \in D
             PROVE  /\ Present(jobs[j]) /\ Present(new[j]) /\ new[j].key = jobs[j].key
                    /\ SameTargets(jobs[j], new[j]) /\ Ages(jobs[j], new[j]) /\ ~Bare(jobs[j])
  BY DEF Rewrites
<1>1. jobs[j] \in Job /\ new[j] = expireAcknowledgedTargets(jobs[j])
  BY DEF TypeOK
<1>2. Present(jobs[j])
  BY DEF AbsentIsEmpty, Absent, AckOverdue, NoTarget
<1>3. Ages(jobs[j], new[j])
  BY <1>1, DerivedAges DEF expireAcknowledgedTargets
<1> QED
  BY <1>1, <1>2, <1>3, DerivedPresent
     DEF expireAcknowledgedTargets, Present, Job, AckOverdue, SameTargets, Bare

LEMMA CoveredRewrite ==
    ASSUME NEW job \in Job, NEW covered, NEW t
    PROVE  LET new == expireCoveredTargets(job, covered, t)
           IN  /\ Present(new) /\ new.key = job.key
               /\ SameTargets(job, new) /\ Ages(job, new)
BY DerivedPresent, DerivedAges DEF expireCoveredTargets, Present, Job, LiveTarget, SameTargets

LEMMA UpdateRewrites ==
    ASSUME TypeOK, NEW c \in Callers, NEW a \in Agents, NEW j \in JobIds, NEW st \in TargetStatus,
           updateTarget(c, a, j, st)
    PROVE  \E new \in [JobIds -> Job], clear \in BOOLEAN :
               /\ Rewrites({j}, new)
               /\ commitJobs(c, {j}, new, now, clear)
<1>0. jobs[j] \in Job /\ now \in Nat /\ Present(jobs[j])
  BY DEF TypeOK, updateTarget
<1>1. CASE jobShouldExpire(jobs[j], now)
  <2>1. commitJobs(c, {j}, Expired({j}), now, FALSE)
    BY <1>1 DEF updateTarget
  <2>2. Rewrites({j}, Expired({j})) /\ Expired({j}) \in [JobIds -> Job]
    BY <1>0, ExpiredRewrites, ExpiredType
  <2> QED
    BY <2>1, <2>2
<1>2. CASE ~jobShouldExpire(jobs[j], now)
  <2> DEFINE tgt == [jobs[j].tgt EXCEPT ![a] = [st |-> st, at |-> now]]
             job == [jobs[j] EXCEPT !.tgt = tgt, !.status = deriveJobStatus(tgt)]
             new == [jobs EXCEPT ![j] = job]
  <2>1. commitJobs(c, {j}, new, now, TRUE) /\ jobs[j].tgt[a].st # "none"
    BY <1>2 DEF updateTarget
  <2>2. job \in Job /\ Present(job) /\ job.key = jobs[j].key
    BY <1>0, DeriveType, DerivedPresent DEF Job, JobTarget, Present
  <2>3. SameTargets(jobs[j], job) /\ Ages(jobs[j], job) /\ ~Bare(jobs[j])
    BY <1>0, <2>1, DerivedAges DEF Job, TargetStatus, SameTargets, Bare
  <2> HIDE DEF job
  <2>4. new \in [JobIds -> Job] /\ Rewrites({j}, new)
    BY <1>0, <2>2, <2>3 DEF TypeOK, Rewrites
  <2> QED
    BY <2>1, <2>4
<1> QED
  BY <1>1, <1>2

(***************************************************************************)
(* The three target updates that actions ask for.                          *)
(***************************************************************************)
LEMMA ReportRewrites ==
    ASSUME TypeOK, NEW c \in Callers, NEW a \in Agents, NEW j \in JobIds,
           \/ updateTarget(c, a, j, DeliveredStatus(jobs[j].tgt[a].st))
           \/ updateTarget(c, a, j, AcknowledgedStatus(jobs[j].tgt[a].st))
           \/ \E outcome \in {"succeeded", "failed"} : updateTarget(c, a, j, outcome)
    PROVE  /\ sequence' = sequence
           /\ op[c].pc = "idle"
           /\ \E new \in [JobIds -> Job], clear \in BOOLEAN :
               /\ Rewrites({j}, new)
               /\ commitJobs(c, {j}, new, now, clear)
<1>1. PICK st : updateTarget(c, a, j, st) /\ (st \in TargetStatus \/ jobs[j].tgt[a].st = "none")
  <2>1. jobs[j].tgt[a].st \in TargetStatus \cup {"none"}
    BY DEF TypeOK, Job, JobTarget
  <2>2. jobs[j].tgt[a].st # "none" =>
            /\ DeliveredStatus(jobs[j].tgt[a].st) \in TargetStatus
            /\ AcknowledgedStatus(jobs[j].tgt[a].st) \in TargetStatus
    BY <2>1 DEF DeliveredStatus, AcknowledgedStatus, TargetStatus
  <2>3. {"succeeded", "failed"} \subseteq TargetStatus
    BY DEF TargetStatus
  <2> QED
    BY <2>2, <2>3
<1>2. PICK st2 \in TargetStatus : updateTarget(c, a, j, st2)
  <2>1. "queued" \in TargetStatus
    BY DEF TargetStatus
  <2> QED
    BY <1>1, <2>1, UpdateNoTargetType
<1>3. sequence' = sequence /\ op[c].pc = "idle"
  BY <1>2 DEF updateTarget
<1> QED
  BY <1>2, <1>3, UpdateRewrites
-----------------------------------------------------------------------------
(***************************************************************************)
(* A commit leaves the Enqueues of other goroutines alone.                 *)
(***************************************************************************)
LEMMA FlushOthers ==
    ASSUME op \in [Callers -> Op], NEW c \in Callers, NEW D \in SUBSET JobIds, NEW new,
           Flush(c, D, new)
    PROVE  /\ op'[c].pc # "enqueue"
           /\ \A d \in Callers : op'[d].pc = "enqueue" =>
                  /\ d # c /\ op[d].pc = "enqueue"
                  /\ op'[d].cur.id = op[d].cur.id /\ op'[d].cur.job = op[d].cur.job
<1>1. PICK o \in StartNext(Snapshots(D, new)) :
          op' = [d \in Callers |-> IF d = c THEN o ELSE Stale(op[d], D)]
  BY DEF Flush
<1>2. o.pc # "enqueue"
  BY DEF StartNext, Writing, Idle
<1>3. \A d \in Callers : Stale(op[d], D).pc = "enqueue" =>
          /\ op[d].pc = "enqueue"
          /\ Stale(op[d], D).cur.id = op[d].cur.id /\ Stale(op[d], D).cur.job = op[d].cur.job
  <2> SUFFICES ASSUME NEW d \in Callers, op[d] # Idle
               PROVE  /\ Stale(op[d], D).pc = op[d].pc
                      /\ Stale(op[d], D).cur.id = op[d].cur.id
                      /\ Stale(op[d], D).cur.job = op[d].cur.job
    BY DEF Stale, Idle
  <2>1. op[d] \in [pc : {"enqueue", "flush"}, cur : Candidate, row : BOOLEAN,
                   left : SUBSET Agents, todo : SUBSET Candidate]
    BY DEF Op
  <2>2. /\ StaleCandidate(op[d].cur, D).id = op[d].cur.id
        /\ StaleCandidate(op[d].cur, D).job = op[d].cur.job
    BY <2>1 DEF StaleCandidate, Candidate
  <2> QED
    BY <2>1, <2>2 DEF Stale
<1> QED
  BY <1>1, <1>2, <1>3

(***************************************************************************)
(* The index after syncJobTargetsIndexLocked.                              *)
(***************************************************************************)
LEMMA SyncIndexMember ==
    ASSUME TypeOK, NEW D \in SUBSET JobIds, NEW new \in [JobIds -> Job],
           NEW a \in Agents, NEW j \in JobIds
    PROVE  j \in SyncIndex(agentJobs, D, new)[a] <=>
               IF j \notin D THEN j \in agentJobs[a]
               ELSE LiveTarget(new[j].tgt[a]) \/ (new[j].tgt[a].st = "none" /\ j \in agentJobs[a])
<1>1. new[j].tgt[a].st \in TargetStatus \cup {"none"}
  BY DEF Job, JobTarget
<1> QED
  BY <1>1 DEF SyncIndex, TargetStatus, LiveTarget, TerminalTarget

LEMMA CommitKeepsIndex ==
    ASSUME TypeOK, TypeOK', IndexInv, NEW c \in Callers, NEW D \in SUBSET JobIds,
           NEW new \in [JobIds -> Job], Rewrites(D, new), jobs' = new,
           agentJobs' = SyncIndex(agentJobs, D, new), Flush(c, D, new), sequence' = sequence
    PROVE  IndexInv'
<1>1. \A j \in JobIds : Present(jobs'[j]) <=> Present(jobs[j])
  BY DEF Rewrites
<1>2. \A a \in Agents, j \in JobIds : j \in agentJobs'[a] => j \in agentJobs[a] \/ Present(jobs[j])
  BY SyncIndexMember DEF Rewrites
<1>3. AbsentIsEmpty'
  BY DEF AbsentIsEmpty, IndexInv, Rewrites
<1>4. NumbersDrawn'
  BY <1>1, <1>2 DEF NumbersDrawn, IndexInv, TypeOK
<1>5. EnqueueFresh'
  <2> SUFFICES ASSUME NEW d \in Callers, op'[d].pc = "enqueue"
               PROVE  LET x == op'[d].cur
                      IN  /\ x.id <= sequence'
                          /\ Present(x.job) /\ ~Present(jobs'[x.id])
                          /\ \A a \in Agents : x.id \notin agentJobs'[a] /\ x.job.tgt[a].st \in {"queued", "none"}
                          /\ \A e \in Callers : op'[e].pc = "enqueue" /\ op'[e].cur.id = x.id => e = d
    BY DEF EnqueueFresh
  <2>1. \A e \in Callers : op'[e].pc = "enqueue" =>
            /\ op[e].pc = "enqueue"
            /\ op'[e].cur.id = op[e].cur.id /\ op'[e].cur.job = op[e].cur.job
    BY FlushOthers DEF TypeOK
  <2>2. op[d].cur.id \in JobIds
    BY <2>1, BusyType DEF TypeOK
  <2> QED
    BY <1>1, <1>2, <2>1, <2>2 DEF EnqueueFresh, IndexInv
<1>6. IndexExact'
  <2> SUFFICES ASSUME NEW a \in Agents, NEW j \in JobIds, Present(jobs'[j])
               PROVE  j \in agentJobs'[a] <=> LiveTarget(jobs'[j].tgt[a])
    BY DEF IndexExact
  <2>1. Present(jobs[j]) /\ (j \in agentJobs[a] <=> LiveTarget(jobs[j].tgt[a]))
    BY <1>1 DEF IndexExact, IndexInv
  <2>2. CASE j \notin D
    BY <2>1, <2>2, SyncIndexMember DEF Rewrites
  <2>3. CASE j \in D
    <3>1. j \in agentJobs'[a] <=>
              LiveTarget(new[j].tgt[a]) \/ (new[j].tgt[a].st = "none" /\ j \in agentJobs[a])
      BY <2>3, SyncIndexMember
    <3>2. new[j].tgt[a].st = "none" <=> jobs[j].tgt[a].st = "none"
      BY <2>3 DEF Rewrites, SameTargets
    <3>3. jobs[j].tgt[a].st = "none" => j \notin agentJobs[a]
      BY <2>1 DEF LiveTarget
    <3> QED
      BY <3>1, <3>2, <3>3
  <2> QED
    BY <2>2, <2>3
<1> QED
  BY <1>3, <1>4, <1>5, <1>6 DEF IndexInv

(***************************************************************************)
(* The steps of Next fall into four kinds: those that touch neither the    *)
(* job maps nor the tables, the steps of a writer, the commits, and the    *)
(* four that are looked at one by one.                                     *)
(***************************************************************************)
Still == UNCHANGED <<memory, op, store, unsaved, late>>

Writes ==
    \/ PruneTerminalJobs
    \/ \E c \in Callers : \/ PutJob(c) \/ PersistFails(c) \/ PersistCheck(c)
                          \/ \E a \in Agents : PutJobTarget(c, a)

Commit ==
    \E c \in Callers, D \in SUBSET JobIds, new \in [JobIds -> Job], clear \in BOOLEAN :
        /\ op[c].pc = "idle"
        /\ Rewrites(D, new)
        /\ commitJobs(c, D, new, now, clear)
        /\ UNCHANGED <<sequence, store, unsaved, late>>

Singular ==
    \/ Restart \/ PruneKeys
    \/ \E c \in Callers : EnqueuePublish(c)
    \/ \E c \in Enqueuers, k \in Keys, g \in Groups \cup {NoGroup}, ttl \in TTLs,
          targets \in SUBSET Agents, created \in Nat :
          /\ created <= now /\ now - created <= CallLag
          /\ EnqueueReserve(c, k, g, ttl, targets, created)

LEMMA StepKinds ==
    ASSUME TypeOK, AbsentIsEmpty, [Next]_vars
    PROVE  Still \/ Writes \/ Commit \/ Singular
<1> USE DEF memory, gateway, history, bounds
<1>1. ASSUME NEW c \in Callers, expireJobs(c), UNCHANGED <<sequence, store, unsaved, late>>
      PROVE  Commit
  <2>1. Due \in SUBSET JobIds /\ Rewrites(Due, Expired(Due)) /\ Expired(Due) \in [JobIds -> Job]
    BY DueRewrites, ExpiredType
  <2> QED
    BY <1>1, <2>1 DEF Commit, expireJobs
<1>2. ASSUME NEW c \in Callers, PruneAcknowledgedTargets(c)
      PROVE  Commit
  <2> DEFINE D == {j \in JobIds : \E a \in Agents : AckOverdue(jobs[j].tgt[a])}
             new == [j \in JobIds |-> IF j \in D THEN expireAcknowledgedTargets(jobs[j]) ELSE jobs[j]]
  <2>1. op[c].pc = "idle" /\ commitJobs(c, D, new, now, FALSE) /\ UNCHANGED <<sequence, store, unsaved, late>>
    BY <1>2 DEF PruneAcknowledgedTargets
  <2>2. new \in [JobIds -> Job]
    BY ExpireAcknowledgedType DEF TypeOK
  <2>3. Rewrites(D, new)
    BY AcknowledgedRewrites
  <2>4. D \in SUBSET JobIds
    OBVIOUS
  <2> HIDE DEF D, new
  <2> QED
    BY <2>1, <2>2, <2>3, <2>4 DEF Commit
<1>3. ASSUME NEW c \in Callers, NEW a \in Agents, NEW j \in JobIds,
             \/ updateTarget(c, a, j, DeliveredStatus(jobs[j].tgt[a].st))
             \/ updateTarget(c, a, j, AcknowledgedStatus(jobs[j].tgt[a].st))
             \/ \E outcome \in {"succeeded", "failed"} : updateTarget(c, a, j, outcome),
             UNCHANGED <<store, unsaved, late>>
      PROVE  Commit
  <2>1. {j} \in SUBSET JobIds
    OBVIOUS
  <2> QED
    BY <1>3, <2>1, ReportRewrites DEF Commit
<1>4. ASSUME NEW c \in Callers, NEW a \in Agents, PendingForAgent(c, a)
      PROVE  Still \/ Commit
  BY <1>1, <1>4 DEF PendingForAgent, Still
<1>5. ASSUME NEW c \in Callers, NEW a \in Agents, NEW j \in JobIds, MarkDelivered(c, a, j)
      PROVE  Still \/ Commit
  BY <1>3, <1>5 DEF MarkDelivered, Still
<1>6. ASSUME NEW c \in Callers, NEW a \in Agents, NEW j \in JobIds,
              \/ MarkAcknowledged(c, a, j)
              \/ \E outcome \in {"succeeded", "failed"} : RecordResult(c, a, j, outcome)
       PROVE  Commit
  BY <1>3, <1>6 DEF MarkAcknowledged, RecordResult
<1>7. ASSUME NEW c \in Callers, ListJobs(c)
       PROVE  Commit
  BY <1>1, <1>7 DEF ListJobs
<1>8. CASE UNCHANGED vars \/ Tick \/ \E a \in Agents : StreamBreaks(a)
  BY <1>8 DEF vars, Tick, StreamBreaks, Still
<1>9. ASSUME NEW a \in Agents, NEW j \in JobIds, SendJob(a, j)
       PROVE  Still
  BY <1>9 DEF SendJob, Still
<1>10. ASSUME NEW c \in Enqueuers, NEW k \in Keys, NEW g \in Groups \cup {NoGroup}, NEW ttl \in TTLs,
              NEW targets \in SUBSET Agents \ {{}}, NEW lag \in 0 .. CallLag, now >= Second + lag,
              EnqueueReserve(c, k, g, ttl, targets, now - lag)
       PROVE  Singular
  <2>1. /\ now - lag \in Nat /\ targets \in SUBSET Agents
        /\ now - lag <= now /\ now - (now - lag) <= CallLag
    BY <1>10 DEF TypeOK
  <2> QED
    BY <1>10, <2>1 DEF Singular
<1>11. CASE Restart \/ PruneKeys \/ \E c \in Callers : EnqueuePublish(c)
  BY <1>11 DEF Singular
<1> QED
  BY <1>2, <1>4, <1>5, <1>6, <1>7, <1>8, <1>9, <1>10, <1>11 DEF Next, Writes

(***************************************************************************)
(* A writer's steps end an Enqueue at most.                                *)
(***************************************************************************)
Quiet ==
    /\ UNCHANGED <<sequence, jobs, agentJobs>>
    /\ \A d \in Callers : op'[d].pc = "enqueue" => op[d].pc = "enqueue" /\ op'[d].cur = op[d].cur

LEMMA WritesAreQuiet ==
    ASSUME TypeOK, Still \/ Writes
    PROVE  Quiet
<1> USE DEF memory, gateway, history, bounds
<1>1. CASE Still \/ PruneTerminalJobs
  BY <1>1 DEF Still, PruneTerminalJobs, Quiet
<1>2. ASSUME NEW c \in Callers, PutJob(c)
      PROVE  Quiet
  <2>1. op[c] \in Op /\ op[c].pc # "idle" /\ op' = [op EXCEPT ![c].row = FALSE]
    BY <1>2 DEF PutJob, TypeOK
  <2>2. \A d \in Callers : op'[d].pc = op[d].pc /\ op'[d].cur = op[d].cur
    BY <2>1, BusyType DEF TypeOK, Op
  <2> QED
    BY <1>2, <2>2 DEF PutJob, Quiet
<1>3. ASSUME NEW c \in Callers, NEW a \in Agents, PutJobTarget(c, a)
      PROVE  Quiet
  <2>1. op[c] \in Op /\ op[c] # Idle /\ op' = [op EXCEPT ![c].left = @ \ {a}]
    BY <1>3 DEF PutJobTarget, TypeOK, Idle
  <2>2. \A d \in Callers : op'[d].pc = op[d].pc /\ op'[d].cur = op[d].cur
    BY <2>1 DEF TypeOK, Op
  <2> QED
    BY <1>3, <2>2 DEF PutJobTarget, Quiet
<1>4. ASSUME NEW c \in Callers, PersistFails(c) \/ PersistCheck(c)
      PROVE  Quiet
  <2>1. \A todo : \A o \in StartNext(todo) : o.pc # "enqueue"
    BY DEF StartNext, Writing, Idle
  <2>2. \A x, todo : Writing("flush", x, todo).pc = "flush"
    BY DEF Writing
  <2>3. \E o : o.pc # "enqueue" /\ op' = [op EXCEPT ![c] = o]
    BY <1>4, <2>1, <2>2 DEF PersistFails, PersistCheck
  <2> QED
    BY <1>4, <2>3 DEF PersistFails, PersistCheck, Quiet, TypeOK
<1> QED
  BY <1>1, <1>2, <1>3, <1>4 DEF Writes

LEMMA WritesKeepLate ==
    ASSUME Still \/ Writes
    PROVE  late' = late
BY DEF Still, Writes, PruneTerminalJobs, PutJob, PutJobTarget, PersistFails, PersistCheck, history

LEMMA IndexStep ==
    TypeOK /\ TypeOK' /\ IndexInv /\ [Next]_vars => IndexInv'
<1> SUFFICES ASSUME TypeOK, TypeOK', IndexInv, [Next]_vars
             PROVE  IndexInv'
  OBVIOUS
<1>1. CASE Still \/ Writes
  <2>0. Quiet
    BY <1>1, WritesAreQuiet
  <2>1. AbsentIsEmpty' /\ NumbersDrawn' /\ IndexExact'
    BY <2>0 DEF Quiet, IndexInv, AbsentIsEmpty, NumbersDrawn, IndexExact
  <2>2. EnqueueFresh'
    BY <2>0 DEF Quiet, IndexInv, EnqueueFresh
  <2> QED
    BY <2>1, <2>2 DEF IndexInv
<1>2. CASE Commit
  BY <1>2, CommitKeepsIndex DEF Commit, commitJobs
<1>3. CASE Restart
  <2>1. \A j \in JobIds : Present(jobs'[j]) => j \in ListedRows /\ jobs'[j] = store[j]
    BY <1>3 DEF Restart, Restored, Absent, Present
  <2>2. \A a \in Agents : agentJobs'[a] = {j \in ListedRows : LiveTarget(store[j].tgt[a])}
    BY <1>3 DEF Restart
  <2>3. \A c \in Callers : op'[c].pc # "enqueue"
    BY <1>3 DEF Restart, Idle
  <2>4. \A j \in ListedRows : j <= sequence'
    BY <1>3 DEF Restart, HighestId
  <2>5. AbsentIsEmpty'
    BY <1>3 DEF Restart, Restored, AbsentIsEmpty, ListedRows, Rows
  <2>6. NumbersDrawn'
    BY <2>1, <2>2, <2>4 DEF NumbersDrawn
  <2>7. EnqueueFresh' /\ IndexExact'
    BY <2>1, <2>2, <2>3 DEF EnqueueFresh, IndexExact
  <2> QED
    BY <2>5, <2>6, <2>7 DEF IndexInv
<1>4. CASE PruneKeys
  <2>1. \A j \in JobIds : jobs'[j] = jobs[j] \/ jobs'[j] = Absent
    BY <1>4 DEF PruneKeys
  <2>2. ~Present(Absent)
    BY DEF Absent, Present
  <2>3. UNCHANGED <<sequence, agentJobs, op>>
    BY <1>4 DEF PruneKeys
  <2>4. AbsentIsEmpty' /\ NumbersDrawn' /\ IndexExact'
    BY <2>1, <2>2, <2>3 DEF AbsentIsEmpty, NumbersDrawn, IndexExact, IndexInv
  <2>5. \A c \in Callers : op[c].pc = "enqueue" => op[c].cur.id \in JobIds
    BY BusyType DEF TypeOK
  <2>6. EnqueueFresh'
    BY <2>1, <2>2, <2>3, <2>5 DEF EnqueueFresh, IndexInv
  <2> QED
    BY <2>4, <2>6 DEF IndexInv
<1>5. ASSUME NEW c \in Callers, NEW k, NEW g, NEW ttl, NEW targets, NEW created,
             EnqueueReserve(c, k, g, ttl, targets, created)
      PROVE  IndexInv'
  <2> DEFINE job == [status |-> "queued", created |-> created, ttl |-> ttl, key |-> k, group |-> g,
                     tgt |-> [a \in Agents |-> IF a \in targets
                                                  THEN [st |-> "queued", at |-> created]
                                                  ELSE NoTarget]]
             x == [id |-> sequence + 1, job |-> job, latest |-> TRUE]
  <2>1. op' = [op EXCEPT ![c] = Writing("enqueue", x, {})]
    BY <1>5 DEF EnqueueReserve
  <2>2. /\ sequence' = sequence + 1 /\ sequence + 1 \in JobIds /\ sequence \in Nat
        /\ UNCHANGED <<jobs, agentJobs>>
    BY <1>5 DEF EnqueueReserve, TypeOK
  <2>3. op'[c].cur.id = sequence + 1 /\ \A d \in Callers \ {c} : op'[d] = op[d]
    BY <2>1 DEF Writing, TypeOK
  <2>4. Present(op'[c].cur.job) /\ \A a \in Agents : op'[c].cur.job.tgt[a].st \in {"queued", "none"}
    BY <2>1 DEF Writing, TypeOK, NoTarget, Present
  <2> HIDE DEF x
  <2>5. AbsentIsEmpty' /\ NumbersDrawn' /\ IndexExact'
    BY <2>2 DEF AbsentIsEmpty, NumbersDrawn, IndexExact, IndexInv, TypeOK
  <2>6. ~Present(jobs[sequence + 1]) /\ \A a \in Agents : sequence + 1 \notin agentJobs[a]
    BY <2>2 DEF NumbersDrawn, IndexInv
  <2>7. \A d \in Callers : op[d].pc = "enqueue" => op[d].cur.id \in JobIds /\ op[d].cur.id <= sequence
    BY BusyType DEF TypeOK, EnqueueFresh, IndexInv
  <2>8. EnqueueFresh'
    <3> SUFFICES ASSUME NEW d \in Callers, op'[d].pc = "enqueue"
                 PROVE  /\ op'[d].cur.id <= sequence'
                        /\ Present(op'[d].cur.job) /\ ~Present(jobs'[op'[d].cur.id])
                        /\ \A a \in Agents : /\ op'[d].cur.id \notin agentJobs'[a]
                                             /\ op'[d].cur.job.tgt[a].st \in {"queued", "none"}
                        /\ \A e \in Callers :
                               op'[e].pc = "enqueue" /\ op'[e].cur.id = op'[d].cur.id => e = d
      BY DEF EnqueueFresh
    <3>1. CASE d = c
      BY <2>2, <2>3, <2>4, <2>6, <2>7, <3>1
    <3>2. CASE d # c
      BY <2>2, <2>3, <2>7, <3>2 DEF EnqueueFresh, IndexInv
    <3> QED
      BY <3>1, <3>2
  <2> QED
    BY <2>5, <2>8 DEF IndexInv
<1>6. ASSUME NEW c \in Callers, EnqueuePublish(c)
      PROVE  IndexInv'
  <2> DEFINE x == op[c].cur
             D == {i \in JobIds : supersededByNewer(i, x.id, x.job)}
             E == D \cup {x.id}
             new == [j \in JobIds |->
                        IF j = x.id THEN x.job
                        ELSE IF j \in D
                          THEN expireCoveredTargets(jobs[j], TargetsOf(x.job), x.job.created)
                        ELSE jobs[j]]
  <2>1. x.id \in JobIds /\ x.job \in Job /\ op[c].pc = "enqueue"
    <3>1. op[c] \in Op /\ op[c].pc = "enqueue"
      BY <1>6 DEF EnqueuePublish, TypeOK
    <3> QED
      BY <3>1, BusyType
  <2>2. /\ jobs' = new
        /\ agentJobs' = SyncIndex(agentJobs, E, new)
        /\ sequence' = sequence
        /\ Flush(c, D, new)
    BY <1>6 DEF EnqueuePublish
  <2>3. D \in SUBSET JobIds /\ E \in SUBSET JobIds
    BY <2>1
  <2>4. \A j \in D : j # x.id /\ Present(jobs[j])
    BY DEF supersededByNewer, LiveStatus, Present
  <2>5. \A j \in D : /\ Present(new[j])
                     /\ \A a \in Agents : new[j].tgt[a].st = "none" <=> jobs[j].tgt[a].st = "none"
    BY <2>4, CoveredRewrite DEF TypeOK, SameTargets
  <2>6. new[x.id] = x.job /\ \A j \in JobIds \ E : new[j] = jobs[j]
    BY <2>1
  <2>7. new \in [JobIds -> Job]
    BY <2>2 DEF TypeOK
  <2>8. /\ x.id <= sequence /\ Present(x.job) /\ ~Present(jobs[x.id])
        /\ \A a \in Agents : x.id \notin agentJobs[a]
        /\ \A d \in Callers : op[d].pc = "enqueue" /\ op[d].cur.id = x.id => d = c
    BY <2>1 DEF EnqueueFresh, IndexInv
  <2> HIDE DEF D, E, new, x
  <2>9. \A a \in Agents, j \in JobIds : j \in agentJobs'[a] <=>
            IF j \notin E THEN j \in agentJobs[a]
            ELSE LiveTarget(new[j].tgt[a]) \/ (new[j].tgt[a].st = "none" /\ j \in agentJobs[a])
    BY <2>2, <2>3, <2>7, SyncIndexMember
  <2>10. \A j \in E : j \in D \/ j = x.id
    BY DEF E
  <2>11. AbsentIsEmpty'
    <3> SUFFICES ASSUME NEW j \in JobIds, ~Present(jobs'[j])
                 PROVE  jobs'[j] = Absent
      BY DEF AbsentIsEmpty
    <3>1. CASE j = x.id
      BY <2>2, <2>6, <2>8, <3>1
    <3>2. CASE j # x.id
      BY <2>2, <2>5, <2>6, <2>10, <3>2 DEF AbsentIsEmpty, IndexInv
    <3> QED
      BY <3>1, <3>2
  <2>12. NumbersDrawn'
    <3>1. \A j \in JobIds : Present(jobs[j]) => j <= sequence
      BY DEF NumbersDrawn, IndexInv
    <3>2. \A j \in D : j <= sequence
      BY <2>3, <2>4, <3>1
    <3>3. \A j \in E : j <= sequence
      BY <2>8, <2>10, <3>2
    <3>4. \A b \in Agents : \A j \in agentJobs[b] : j <= sequence
      BY DEF NumbersDrawn, IndexInv
    <3>5. ASSUME NEW b \in Agents, NEW j \in agentJobs'[b]
          PROVE  j <= sequence
      <4>1. j \in JobIds
        BY <3>5 DEF TypeOK
      <4>2. CASE j \in E
        BY <3>3, <4>2
      <4>3. CASE j \notin E
        BY <2>9, <3>4, <3>5, <4>1, <4>3
      <4> QED
        BY <4>2, <4>3
    <3>6. ASSUME NEW j \in JobIds, Present(jobs'[j])
          PROVE  j <= sequence
      <4>1. CASE j \in E
        BY <3>3, <4>1
      <4>2. CASE j \notin E
        BY <2>2, <2>6, <3>1, <3>6, <4>2
      <4> QED
        BY <4>1, <4>2
    <3> QED
      BY <2>2, <3>5, <3>6 DEF NumbersDrawn
  <2>13. IndexExact'
    <3> SUFFICES ASSUME NEW a \in Agents, NEW j \in JobIds, Present(jobs'[j])
                 PROVE  j \in agentJobs'[a] <=> LiveTarget(jobs'[j].tgt[a])
      BY DEF IndexExact
    <3>1. CASE j = x.id
      BY <2>2, <2>6, <2>8, <2>9, <3>1 DEF E
    <3>2. CASE j \in D
      BY <2>2, <2>4, <2>5, <2>9, <3>2 DEF E, IndexExact, IndexInv, LiveTarget
    <3>3. CASE j \notin E
      BY <2>2, <2>6, <2>9, <3>3 DEF IndexExact, IndexInv
    <3> QED
      BY <2>10, <3>1, <3>2, <3>3
  <2>14. EnqueueFresh'
    <3>1. \A d \in Callers : op'[d].pc = "enqueue" =>
              /\ d # c /\ op[d].pc = "enqueue"
              /\ op'[d].cur.id = op[d].cur.id /\ op'[d].cur.job = op[d].cur.job
      BY <2>2, <2>3, FlushOthers DEF TypeOK
    <3>2. \A d \in Callers : op'[d].pc = "enqueue" =>
              op[d].cur.id \in JobIds /\ op[d].cur.id # x.id /\ ~Present(jobs[op[d].cur.id])
      BY <2>8, <3>1, BusyType DEF TypeOK, EnqueueFresh, IndexInv
    <3>3. \A d \in Callers : op'[d].pc = "enqueue" => op[d].cur.id \notin E
      BY <2>4, <2>10, <3>2
    <3> QED
      BY <2>2, <2>6, <2>9, <3>1, <3>2, <3>3 DEF EnqueueFresh, IndexInv
  <2> QED
    BY <2>11, <2>12, <2>13, <2>14 DEF IndexInv
<1> QED
  BY <1>1, <1>2, <1>3, <1>4, <1>5, <1>6, StepKinds DEF Singular, IndexInv

LEMMA IndexInit == Init => IndexInv
BY DEF Init, IndexInv, AbsentIsEmpty, NumbersDrawn, EnqueueFresh, IndexExact, Idle, Absent, Present

(***************************************************************************)
(* The redelivery index (agentJobs) holds exactly the unfinished targets   *)
(* of the resident jobs.                                                   *)
(***************************************************************************)
THEOREM IndexCorrect == Spec => []IndexExact
<1>1. IndexInv => IndexExact
  BY DEF IndexInv
<1> QED
  BY <1>1, IndexInit, TypeCorrect, IndexStep, PTL DEF Spec
-----------------------------------------------------------------------------
(***************************************************************************)
(* Candidates stay jobs with a key.                                        *)
(***************************************************************************)
OpKeyed(o) == o # Idle => Keyed(o.cur.job) /\ \A x \in o.todo : Keyed(x.job)

LEMMA StartNextKeyed ==
    ASSUME NEW todo \in SUBSET Candidate, \A x \in todo : Keyed(x.job), NEW o \in StartNext(todo)
    PROVE  OpKeyed(o)
<1>1. CASE todo = {}
  BY <1>1 DEF StartNext, OpKeyed
<1>2. CASE todo # {}
  <2>1. PICK x \in todo : o = Writing("flush", x, todo \ {x})
    BY <1>2 DEF StartNext
  <2>2. o.cur = x /\ o.todo = todo \ {x}
    BY <2>1 DEF Writing
  <2> QED
    BY <2>2 DEF OpKeyed
<1> QED
  BY <1>1, <1>2

LEMMA StaleKeyed ==
    ASSUME NEW o \in Op, OpKeyed(o), NEW D \in SUBSET JobIds
    PROVE  OpKeyed(Stale(o, D))
<1>1. CASE o = Idle
  BY <1>1 DEF Stale, OpKeyed
<1>2. CASE o # Idle
  <2>1. o \in [pc : {"enqueue", "flush"}, cur : Candidate, row : BOOLEAN,
               left : SUBSET Agents, todo : SUBSET Candidate]
    BY <1>2 DEF Op
  <2>2. \A x \in Candidate : StaleCandidate(x, D).job = x.job
    BY DEF StaleCandidate, Candidate
  <2>3. /\ Stale(o, D).cur = StaleCandidate(o.cur, D)
        /\ Stale(o, D).todo = {StaleCandidate(x, D) : x \in o.todo}
    BY <1>2, <2>1 DEF Stale
  <2> QED
    BY <1>2, <2>1, <2>2, <2>3 DEF OpKeyed
<1> QED
  BY <1>1, <1>2

LEMMA FlushKeyed ==
    ASSUME op \in [Callers -> Op], CandidatesKeyed, NEW c \in Callers, NEW D \in SUBSET JobIds,
           NEW new \in [JobIds -> Job], \A j \in D : Keyed(new[j]), Flush(c, D, new)
    PROVE  CandidatesKeyed'
<1>1. PICK o \in StartNext(Snapshots(D, new)) :
          op' = [d \in Callers |-> IF d = c THEN o ELSE Stale(op[d], D)]
  BY DEF Flush
<1>2. Snapshots(D, new) \in SUBSET Candidate /\ \A x \in Snapshots(D, new) : Keyed(x.job)
  <2>1. \A j \in D : new[j] \in Job
    OBVIOUS
  <2>2. \A j \in D : [id |-> j, job |-> new[j], latest |-> TRUE] \in Candidate
    BY <2>1 DEF Candidate
  <2> QED
    BY <2>2 DEF Snapshots
<1>3. OpKeyed(o)
  BY <1>2, StartNextKeyed
<1>4. \A d \in Callers : OpKeyed(Stale(op[d], D))
  BY StaleKeyed DEF CandidatesKeyed, OpKeyed
<1>5. \A d \in Callers : OpKeyed(op'[d])
  BY <1>1, <1>3, <1>4
<1> QED
  BY <1>5 DEF CandidatesKeyed, OpKeyed

(***************************************************************************)
(* A resident job owns its key, so the re-pointing of commitJobLocked      *)
(* writes what is already there.                                           *)
(***************************************************************************)
LEMMA OwnerOfRewritten ==
    ASSUME TypeOK, KeyInv, NEW D \in SUBSET JobIds, NEW new,
           \A j \in D : Present(jobs[j]) /\ new[j].key = jobs[j].key,
           NEW k, NEW j \in OwnedBy(D, new, k)
    PROVE  keys[k] = j /\ j \in JobIds /\ keys[k] \notin {Unclaimed, Reserved}
<1>1. j \in JobIds /\ Present(jobs[j]) /\ jobs[j].key = k
  BY DEF OwnedBy
<1>2. keys[k] = j
  BY <1>1 DEF KeyInv, KeyOwnership
<1>3. j # Unclaimed /\ j # Reserved
  BY <1>1 DEF Unclaimed, Reserved
<1> QED
  BY <1>1, <1>2, <1>3

LEMMA RepointIdentity ==
    ASSUME TypeOK, KeyInv, NEW D \in SUBSET JobIds, NEW new, Rewrites(D, new)
    PROVE  RepointKeys(D, new) = keys
<1>1. \A j \in D : Present(jobs[j]) /\ new[j].key = jobs[j].key
  BY DEF Rewrites
<1>2. \A k \in Keys : RepointKeys(D, new)[k] = keys[k]
  <2> SUFFICES ASSUME NEW k \in Keys, OwnedBy(D, new, k) # {}
               PROVE  RepointKeys(D, new)[k] = keys[k]
    BY DEF RepointKeys
  <2>1. (CHOOSE j \in D : new[j].key = k) \in OwnedBy(D, new, k)
    BY DEF OwnedBy
  <2> QED
    BY <1>1, <2>1, OwnerOfRewritten DEF RepointKeys
<1> QED
  BY <1>2 DEF RepointKeys, TypeOK

LEMMA MarkUnowned ==
    ASSUME NEW owner, NEW D, NEW new, NEW stamp, NEW clear, NEW k \in Keys,
           OwnedBy(D, new, k) = {}
    PROVE  MarkKeys(owner, D, new, stamp, clear)[k] = keyTerminalAt[k]
BY DEF MarkKeys

LEMMA CommitKeepsKeys ==
    ASSUME TypeOK, TypeOK', KeyInv, Commit
    PROVE  KeyInv'
<1>1. PICK c \in Callers, D \in SUBSET JobIds, new \in [JobIds -> Job], clear \in BOOLEAN :
          /\ Rewrites(D, new)
          /\ commitJobs(c, D, new, now, clear)
          /\ UNCHANGED <<sequence, store>>
  BY DEF Commit
<1>2. keys' = keys /\ jobs' = new /\ store' = store /\ Flush(c, D, new)
      /\ keyTerminalAt' = MarkKeys(keys, D, new, now, clear)
  BY <1>1, RepointIdentity DEF commitJobs
<1>3. \A j \in JobIds : Present(jobs'[j]) <=> Present(jobs[j])
  BY <1>1, <1>2 DEF Rewrites
<1>4. \A j \in JobIds : Present(jobs[j]) => jobs'[j].key = jobs[j].key
  BY <1>1, <1>2 DEF Rewrites
<1>5. \A j \in D : Present(jobs[j]) /\ new[j].key = jobs[j].key /\ Keyed(new[j])
  BY <1>1 DEF Rewrites, KeyInv, JobsKeyed, Keyed
<1>6. CandidatesKeyed'
  BY <1>2, <1>5, FlushKeyed DEF KeyInv, TypeOK
<1>7. EnqueueReserved'
  <2>1. \A d \in Callers : op'[d].pc = "enqueue" => op[d].pc = "enqueue" /\ op'[d].cur.job = op[d].cur.job
    BY <1>2, FlushOthers DEF TypeOK
  <2> QED
    BY <1>2, <2>1 DEF EnqueueReserved, KeyInv
<1>8. UnownedNotTerminal'
  <2> SUFFICES ASSUME NEW k \in Keys, keys[k] \in {Unclaimed, Reserved}
               PROVE  keyTerminalAt'[k] = ZeroTime
    BY <1>2 DEF UnownedNotTerminal
  <2>1. OwnedBy(D, new, k) = {}
    BY <1>5, OwnerOfRewritten
  <2> QED
    BY <1>2, <2>1, MarkUnowned DEF UnownedNotTerminal, KeyInv
<1>9. JobsKeyed' /\ KeyOwnership'
  BY <1>2, <1>3, <1>4 DEF JobsKeyed, Keyed, KeyOwnership, KeyInv
<1>10. RowsKeyed' /\ RowsUnique'
  BY <1>2 DEF RowsKeyed, RowsUnique, KeyInv
<1> QED
  BY <1>6, <1>7, <1>8, <1>9, <1>10 DEF KeyInv

LEMMA KeyStep ==
    TypeOK /\ TypeOK' /\ IndexInv /\ KeyInv /\ [Next]_vars => KeyInv'
<1> SUFFICES ASSUME TypeOK, TypeOK', IndexInv, KeyInv, [Next]_vars
             PROVE  KeyInv'
  OBVIOUS
<1> USE DEF memory, gateway, history, bounds
<1>1. CASE Still
  BY <1>1 DEF Still, KeyInv, EnqueueReserved, JobsKeyed, RowsKeyed, CandidatesKeyed, RowsUnique,
              UnownedNotTerminal, KeyOwnership
<1>2. CASE Commit
  BY <1>2, CommitKeepsKeys
<1>3. CASE PruneTerminalJobs
  <2>1. UNCHANGED <<memory, op>> /\ \A j \in JobIds : store'[j] = store[j] \/ store'[j] = Absent
    BY <1>3 DEF PruneTerminalJobs
  <2>2. ~Present(Absent)
    BY DEF Present, Absent
  <2>3. RowsKeyed' /\ RowsUnique'
    BY <2>1, <2>2 DEF RowsKeyed, RowsUnique, KeyInv
  <2> QED
    BY <2>1, <2>3 DEF KeyInv, EnqueueReserved, JobsKeyed, CandidatesKeyed, UnownedNotTerminal, KeyOwnership
<1>4. ASSUME NEW c \in Callers, PutJob(c)
      PROVE  KeyInv'
  <2> DEFINE x == op[c].cur
  <2>1. op[c] \in Op /\ op[c].pc # "idle" /\ op' = [op EXCEPT ![c].row = FALSE]
    BY <1>4 DEF PutJob, TypeOK
  <2>2. op[c] # Idle /\ x.id \in JobIds /\ x.job \in Job
    BY <2>1, BusyType
  <2>3. \A d \in Callers : op'[d].pc = op[d].pc /\ op'[d].cur = op[d].cur /\ op'[d].todo = op[d].todo
    BY <2>1, <2>2 DEF TypeOK, Op
  <2>4. /\ ~KeyTaken(x.id, x.job.key) /\ UNCHANGED memory
        /\ store' = [store EXCEPT ![x.id] = [Row(x.job) EXCEPT !.tgt = store[x.id].tgt]]
    BY <1>4 DEF PutJob
  <2>5. Keyed(x.job)
    BY <2>2 DEF KeyInv, CandidatesKeyed
  <2>6. /\ Present(store'[x.id]) <=> Present(x.job)
        /\ store'[x.id].key = x.job.key
        /\ \A j \in JobIds \ {x.id} : store'[j] = store[j]
    <3>1. Row(x.job) \in Job /\ Row(x.job).status = x.job.status /\ Row(x.job).key = x.job.key
      BY <2>2, RowType DEF Row, Job
    <3> QED
      BY <2>2, <2>4, <3>1 DEF TypeOK, Job, Present
  <2>7. RowsKeyed' /\ RowsUnique'
    BY <2>4, <2>5, <2>6 DEF RowsKeyed, RowsUnique, Keyed, KeyTaken, KeyInv
  <2>8. CandidatesKeyed'
    <3>1. \A d \in Callers \ {c} : op'[d] = op[d]
      BY <2>1 DEF TypeOK
    <3> QED
      BY <2>2, <2>3, <3>1 DEF CandidatesKeyed, KeyInv
  <2>9. EnqueueReserved'
    BY <2>3, <2>4 DEF EnqueueReserved, KeyInv
  <2> QED
    BY <2>4, <2>7, <2>8, <2>9 DEF KeyInv, JobsKeyed, UnownedNotTerminal, KeyOwnership
<1>5. ASSUME NEW c \in Callers, NEW a \in Agents, PutJobTarget(c, a)
      PROVE  KeyInv'
  <2> DEFINE x == op[c].cur
  <2>1. /\ op[c] \in Op /\ op[c] # Idle /\ op' = [op EXCEPT ![c].left = @ \ {a}] /\ UNCHANGED memory
        /\ store' = [store EXCEPT ![x.id].tgt[a] = RowTarget(x.job.tgt[a])]
    BY <1>5 DEF PutJobTarget, TypeOK, Idle
  <2>2. \A d \in Callers : op'[d].pc = op[d].pc /\ op'[d].cur = op[d].cur /\ op'[d].todo = op[d].todo
    BY <2>1 DEF TypeOK, Op
  <2>3. \A j \in JobIds : store'[j].key = store[j].key /\ (Present(store'[j]) <=> Present(store[j]))
    <3> DEFINE row == [store[x.id] EXCEPT !.tgt = [@ EXCEPT ![a] = RowTarget(x.job.tgt[a])]]
    <3>1. store' = [store EXCEPT ![x.id] = row]
      BY <2>1
    <3>2. x.id \in JobIds => row.key = store[x.id].key /\ row.status = store[x.id].status
      BY DEF TypeOK, Job
    <3> HIDE DEF row
    <3> QED
      BY <3>1, <3>2 DEF TypeOK, Present
  <2>4. RowsKeyed' /\ RowsUnique'
    BY <2>3 DEF RowsKeyed, RowsUnique, Keyed, KeyInv
  <2>5. CandidatesKeyed'
    <3>1. \A d \in Callers \ {c} : op'[d] = op[d]
      BY <2>1 DEF TypeOK
    <3> QED
      BY <2>1, <2>2, <3>1 DEF CandidatesKeyed, KeyInv
  <2>6. EnqueueReserved'
    BY <2>1, <2>2 DEF EnqueueReserved, KeyInv
  <2> QED
    BY <2>1, <2>4, <2>5, <2>6 DEF KeyInv, JobsKeyed, UnownedNotTerminal, KeyOwnership
<1>6. ASSUME NEW c \in Callers, PersistFails(c)
      PROVE  KeyInv'
  <2> DEFINE x == op[c].cur
  <2>1. op[c] \in Op /\ op[c] # Idle
    BY <1>6 DEF PersistFails, TypeOK, Idle
  <2>2. op[c].todo \in SUBSET Candidate /\ \A y \in op[c].todo : Keyed(y.job)
    BY <2>1 DEF Op, KeyInv, CandidatesKeyed
  <2>3. PICK o \in StartNext(op[c].todo) : op' = [op EXCEPT ![c] = o]
    BY <1>6 DEF PersistFails
  <2>4. OpKeyed(o) /\ o.pc # "enqueue"
    BY <2>2, StartNextKeyed DEF StartNext, Writing, Idle
  <2>5. CandidatesKeyed'
    BY <2>3, <2>4 DEF CandidatesKeyed, OpKeyed, KeyInv, TypeOK
  <2>6. \A d \in Callers : op'[d].pc = "enqueue" => d # c /\ op'[d] = op[d]
    BY <2>3, <2>4 DEF TypeOK
  <2>7. UNCHANGED <<jobs, store, keyTerminalAt>>
    BY <1>6 DEF PersistFails
  <2>8. CASE op[c].pc = "enqueue"
    <3>1. keys' = [keys EXCEPT ![x.job.key] = IF @ = Reserved THEN Unclaimed ELSE @]
      BY <1>6, <2>8 DEF PersistFails
    <3>2. keys[x.job.key] = Reserved /\
          \A d \in Callers : op[d].pc = "enqueue" /\ op[d].cur.job.key = x.job.key => d = c
      BY <2>8 DEF EnqueueReserved, KeyInv
    <3>3. \A k \in Keys : k # x.job.key => keys'[k] = keys[k]
      BY <3>1 DEF TypeOK
    <3>4. \A d \in Callers : op[d].pc = "enqueue" => op[d].cur.job.key \in Keys
      BY DEF KeyInv, CandidatesKeyed, Keyed, Idle
    <3>5. EnqueueReserved'
      BY <2>6, <3>2, <3>3, <3>4 DEF EnqueueReserved, KeyInv
    <3>6. UnownedNotTerminal'
      BY <2>7, <3>2, <3>3 DEF UnownedNotTerminal, KeyInv
    <3>7. KeyOwnership'
      <4>1. \A j \in JobIds : Present(jobs[j]) => jobs[j].key \in Keys /\ jobs[j].key # x.job.key
        BY <3>2 DEF KeyInv, KeyOwnership, JobsKeyed, Keyed, Reserved
      <4> QED
        BY <2>7, <3>3, <4>1 DEF KeyOwnership, KeyInv
    <3> QED
      BY <2>5, <2>7, <3>5, <3>6, <3>7 DEF KeyInv, JobsKeyed, RowsKeyed, RowsUnique
  <2>9. CASE op[c].pc # "enqueue"
    <3>1. keys' = keys
      BY <1>6, <2>9 DEF PersistFails
    <3> QED
      BY <2>5, <2>6, <2>7, <3>1 DEF KeyInv, EnqueueReserved, JobsKeyed, RowsKeyed, RowsUnique,
                                    UnownedNotTerminal, KeyOwnership
  <2> QED
    BY <2>8, <2>9
<1>7. ASSUME NEW c \in Callers, PersistCheck(c)
      PROVE  KeyInv'
  <2>1. op[c] \in Op /\ op[c].pc # "idle" /\ UNCHANGED <<memory, store>>
    BY <1>7 DEF PersistCheck, TypeOK
  <2>2. /\ op[c] # Idle /\ op[c].cur.id \in JobIds
        /\ op[c].todo \in SUBSET Candidate /\ \A y \in op[c].todo : Keyed(y.job)
    BY <2>1, BusyType DEF KeyInv, CandidatesKeyed
  <2>3. PICK o : op' = [op EXCEPT ![c] = o] /\ OpKeyed(o) /\ o.pc # "enqueue"
    <3>1. CASE \E o \in StartNext(op[c].todo) : op' = [op EXCEPT ![c] = o]
      <4>1. PICK o \in StartNext(op[c].todo) : op' = [op EXCEPT ![c] = o]
        BY <3>1
      <4>2. OpKeyed(o)
        BY <2>2, StartNextKeyed
      <4>3. o.pc # "enqueue"
        BY DEF StartNext, Writing, Idle
      <4> QED
        BY <4>1, <4>2, <4>3
    <3>2. CASE /\ Present(jobs[op[c].cur.id])
               /\ op' = [op EXCEPT ![c] = Writing("flush", [id |-> op[c].cur.id, job |-> jobs[op[c].cur.id],
                                                             latest |-> TRUE], op[c].todo)]
      <4>1. Keyed(jobs[op[c].cur.id])
        BY <2>2, <3>2 DEF KeyInv, JobsKeyed
      <4> DEFINE o == Writing("flush", [id |-> op[c].cur.id, job |-> jobs[op[c].cur.id],
                                        latest |-> TRUE], op[c].todo)
      <4>2. o.pc = "flush" /\ o.cur.job = jobs[op[c].cur.id] /\ o.todo = op[c].todo
        BY DEF Writing
      <4>3. op' = [op EXCEPT ![c] = o]
        BY <3>2
      <4> HIDE DEF o
      <4>4. OpKeyed(o) /\ o.pc # "enqueue"
        BY <2>2, <4>1, <4>2 DEF OpKeyed
      <4> QED
        BY <4>3, <4>4
    <3> QED
      BY <1>7, <3>1, <3>2 DEF PersistCheck
  <2>4. CandidatesKeyed'
    BY <2>3 DEF CandidatesKeyed, OpKeyed, KeyInv, TypeOK
  <2>5. \A d \in Callers : op'[d].pc = "enqueue" => op'[d] = op[d]
    BY <2>3 DEF TypeOK
  <2>6. EnqueueReserved'
    BY <2>1, <2>5 DEF EnqueueReserved, KeyInv
  <2> QED
    BY <2>1, <2>4, <2>6 DEF KeyInv, JobsKeyed, RowsKeyed, RowsUnique, UnownedNotTerminal, KeyOwnership
<1>8. CASE Restart
  <2>1. \A j \in JobIds : Present(jobs'[j]) => j \in ListedRows /\ jobs'[j] = store[j]
    BY <1>8 DEF Restart, Restored, Absent, Present
  <2>2. \A j \in ListedRows : j \in JobIds /\ Present(store[j])
    BY DEF ListedRows, Rows
  <2>3. \A k \in Keys : keys'[k] = IF OwnedBy(ListedRows, store, k) = {} THEN Unclaimed
                                   ELSE CHOOSE j \in ListedRows : store[j].key = k
    BY <1>8 DEF Restart
  <2>4. \A k \in Keys, j \in ListedRows : store[j].key = k => keys'[k] = j
    <3> SUFFICES ASSUME NEW k \in Keys, NEW j \in ListedRows, store[j].key = k
                 PROVE  keys'[k] = j
      OBVIOUS
    <3> DEFINE i == CHOOSE h \in ListedRows : store[h].key = k
    <3>1. keys'[k] = i
      BY <2>3 DEF OwnedBy
    <3>2. i \in ListedRows /\ store[i].key = k
      OBVIOUS
    <3> HIDE DEF i
    <3> QED
      BY <2>2, <3>1, <3>2 DEF KeyInv, RowsUnique
  <2>5. JobsKeyed' /\ KeyOwnership'
    BY <2>1, <2>2, <2>4 DEF JobsKeyed, KeyOwnership, Keyed, KeyInv, RowsKeyed
  <2>6. UnownedNotTerminal'
    <3> SUFFICES ASSUME NEW k \in Keys, keys'[k] \in {Unclaimed, Reserved}
                 PROVE  keyTerminalAt'[k] = ZeroTime
      BY DEF UnownedNotTerminal
    <3>1. OwnedBy(ListedRows, store, k) = {}
      BY <2>2, <2>4 DEF OwnedBy, Unclaimed, Reserved
    <3> QED
      BY <1>8, <3>1 DEF Restart
  <2>7. op' = [c \in Callers |-> Idle] /\ store' = store
    BY <1>8 DEF Restart
  <2>8. EnqueueReserved' /\ CandidatesKeyed'
    BY <2>7 DEF EnqueueReserved, CandidatesKeyed, Idle
  <2>9. RowsKeyed' /\ RowsUnique'
    BY <2>7 DEF RowsKeyed, RowsUnique, KeyInv
  <2> QED
    BY <2>5, <2>6, <2>8, <2>9 DEF KeyInv
<1>9. CASE PruneKeys
  <2>1. UNCHANGED <<op, store>> /\ ~Present(Absent)
    BY <1>9 DEF PruneKeys, Present, Absent
  <2>2. \A j \in JobIds : jobs'[j] = IF \E k \in KeyOverdue : keys[k] = j THEN Absent ELSE jobs[j]
    BY <1>9 DEF PruneKeys
  <2>3. \A k \in Keys : /\ keys'[k] = IF k \in KeyOverdue THEN Unclaimed ELSE keys[k]
                        /\ keyTerminalAt'[k] = IF k \in KeyOverdue THEN ZeroTime ELSE keyTerminalAt[k]
    BY <1>9 DEF PruneKeys
  <2>4. \A k \in KeyOverdue : k \in Keys /\ keyTerminalAt[k] # ZeroTime
    BY DEF KeyOverdue
  <2>5. JobsKeyed' /\ KeyOwnership'
    BY <2>1, <2>2, <2>3 DEF JobsKeyed, Keyed, KeyOwnership, KeyInv
  <2>6. UnownedNotTerminal'
    BY <2>3 DEF UnownedNotTerminal, KeyInv
  <2>7. \A c \in Callers : op[c].pc = "enqueue" => op[c].cur.job.key \in Keys
    BY DEF KeyInv, CandidatesKeyed, Keyed, Idle
  <2>8. EnqueueReserved'
    BY <2>1, <2>3, <2>4, <2>7 DEF EnqueueReserved, UnownedNotTerminal, KeyInv
  <2> QED
    BY <2>1, <2>5, <2>6, <2>8 DEF KeyInv, RowsKeyed, RowsUnique, CandidatesKeyed
<1>10. ASSUME NEW c \in Callers, NEW k \in Keys, NEW g, NEW ttl, NEW targets, NEW created,
              EnqueueReserve(c, k, g, ttl, targets, created)
       PROVE  KeyInv'
  <2> DEFINE job == [status |-> "queued", created |-> created, ttl |-> ttl, key |-> k, group |-> g,
                     tgt |-> [a \in Agents |-> IF a \in targets
                                                  THEN [st |-> "queued", at |-> created]
                                                  ELSE NoTarget]]
  <2>1. /\ op' = [op EXCEPT ![c] = Writing("enqueue", [id |-> sequence + 1, job |-> job,
                                                       latest |-> TRUE], {})]
        /\ Present(job) /\ job.key = k
    BY <1>10 DEF EnqueueReserve, Present
  <2> HIDE DEF job
  <2>2. /\ keys[k] = Unclaimed /\ keys' = [keys EXCEPT ![k] = Reserved]
        /\ UNCHANGED <<jobs, keyTerminalAt, store>>
    BY <1>10 DEF EnqueueReserve
  <2>3. op'[c].cur.job = job /\ op'[c].todo = {} /\ \A d \in Callers \ {c} : op'[d] = op[d]
    BY <2>1 DEF Writing, TypeOK
  <2>4. CandidatesKeyed'
    BY <2>1, <2>3 DEF CandidatesKeyed, Keyed, KeyInv
  <2>5. \A d \in Callers : op[d].pc = "enqueue" =>
            op[d].cur.job.key \in Keys /\ keys[op[d].cur.job.key] = Reserved /\ op[d].cur.job.key # k
    BY <2>2 DEF KeyInv, CandidatesKeyed, Keyed, Idle, EnqueueReserved, Reserved, Unclaimed
  <2>6. EnqueueReserved'
    <3> SUFFICES ASSUME NEW d \in Callers, op'[d].pc = "enqueue"
                 PROVE  /\ keys'[op'[d].cur.job.key] = Reserved
                        /\ \A e \in Callers :
                               op'[e].pc = "enqueue" /\ op'[e].cur.job.key = op'[d].cur.job.key => e = d
      BY DEF EnqueueReserved
    <3>1. \A i \in Keys : keys'[i] = IF i = k THEN Reserved ELSE keys[i]
      BY <2>2 DEF TypeOK
    <3>2. CASE d = c
      BY <2>1, <2>3, <2>5, <3>1, <3>2
    <3>3. CASE d # c
      BY <2>1, <2>3, <2>5, <3>1, <3>3 DEF EnqueueReserved, KeyInv
    <3> QED
      BY <3>2, <3>3
  <2>7. UnownedNotTerminal'
    BY <2>2 DEF UnownedNotTerminal, KeyInv, TypeOK
  <2>8. \A j \in JobIds : Present(jobs[j]) => jobs[j].key # k
    BY <2>2 DEF KeyInv, KeyOwnership, Unclaimed
  <2>9. JobsKeyed' /\ KeyOwnership'
    BY <2>2, <2>8 DEF JobsKeyed, KeyOwnership, Keyed, KeyInv, TypeOK
  <2> QED
    BY <2>2, <2>4, <2>6, <2>7, <2>9 DEF KeyInv, RowsKeyed, RowsUnique
<1>11. ASSUME NEW c \in Callers, EnqueuePublish(c)
       PROVE  KeyInv'
  <2> DEFINE x == op[c].cur
             D == {i \in JobIds : supersededByNewer(i, x.id, x.job)}
             new == [j \in JobIds |->
                        IF j = x.id THEN x.job
                        ELSE IF j \in D
                          THEN expireCoveredTargets(jobs[j], TargetsOf(x.job), x.job.created)
                        ELSE jobs[j]]
  <2>1. x.id \in JobIds /\ x.job \in Job /\ op[c].pc = "enqueue" /\ op[c] # Idle
    <3>1. op[c] \in Op /\ op[c].pc = "enqueue"
      BY <1>11 DEF EnqueuePublish, TypeOK
    <3> QED
      BY <3>1, BusyType
  <2>2. /\ jobs' = new
        /\ keys' = [keys EXCEPT ![x.job.key] = x.id]
        /\ keyTerminalAt' = MarkKeys(keys', D, new, x.job.created, FALSE)
        /\ Flush(c, D, new)
        /\ store' = store
    BY <1>11 DEF EnqueuePublish
  <2>3. D \in SUBSET JobIds /\ new \in [JobIds -> Job]
    BY <2>2 DEF TypeOK
  <2>4. \A j \in D : Present(jobs[j]) /\ new[j].key = jobs[j].key /\ Present(new[j])
    <3>1. \A j \in D : j # x.id /\ Present(jobs[j])
      BY DEF supersededByNewer, LiveStatus, Present
    <3> QED
      BY <3>1, CoveredRewrite DEF TypeOK
  <2>5. new[x.id] = x.job /\ \A j \in JobIds : j # x.id /\ j \notin D => new[j] = jobs[j]
    BY <2>1
  <2>6. /\ x.job.key \in Keys /\ keys[x.job.key] = Reserved
        /\ \A d \in Callers : op[d].pc = "enqueue" /\ op[d].cur.job.key = x.job.key => d = c
    BY <2>1 DEF KeyInv, CandidatesKeyed, Keyed, EnqueueReserved
  <2> HIDE DEF D, new, x
  <2>7. /\ keys'[x.job.key] = x.id
        /\ \A k \in Keys : k # x.job.key => keys'[k] = keys[k]
    BY <2>2, <2>6 DEF TypeOK
  <2>8. \A j \in JobIds : j # x.id /\ Present(jobs'[j]) =>
            /\ Present(jobs[j]) /\ jobs'[j].key = jobs[j].key /\ jobs[j].key \in Keys
            /\ keys[jobs[j].key] = j /\ jobs[j].key # x.job.key
    <3>1. \A j \in JobIds : j # x.id /\ Present(jobs'[j]) => Present(jobs[j]) /\ jobs'[j].key = jobs[j].key
      BY <2>2, <2>4, <2>5
    <3>2. \A j \in JobIds : Present(jobs[j]) =>
              jobs[j].key \in Keys /\ keys[jobs[j].key] = j /\ jobs[j].key # x.job.key
      BY <2>6 DEF KeyInv, JobsKeyed, Keyed, KeyOwnership, Reserved
    <3> QED
      BY <3>1, <3>2
  <2>9. JobsKeyed' /\ KeyOwnership'
    BY <2>1, <2>2, <2>5, <2>6, <2>7, <2>8 DEF JobsKeyed, Keyed, KeyOwnership
  <2>10. UnownedNotTerminal'
    <3> SUFFICES ASSUME NEW k \in Keys, keys'[k] \in {Unclaimed, Reserved}
                 PROVE  keyTerminalAt'[k] = ZeroTime
      BY DEF UnownedNotTerminal
    <3>1. k # x.job.key
      BY <2>1, <2>7 DEF Unclaimed, Reserved
    <3>2. keys[k] \in {Unclaimed, Reserved}
      BY <2>7, <3>1
    <3>3. OwnedBy(D, new, k) = {}
      BY <2>3, <2>4, <3>2, OwnerOfRewritten
    <3> QED
      <4>1. keyTerminalAt'[k] = keyTerminalAt[k]
        BY <2>2, <3>3 DEF MarkKeys
      <4> QED
        BY <3>2, <4>1 DEF UnownedNotTerminal, KeyInv
  <2>11. CandidatesKeyed'
    <3>1. \A j \in D : Keyed(new[j])
      BY <2>3, <2>4 DEF Keyed, KeyInv, JobsKeyed
    <3> QED
      BY <2>2, <2>3, <3>1, FlushKeyed DEF KeyInv, TypeOK
  <2>12. EnqueueReserved'
    <3>1. \A d \in Callers : op'[d].pc = "enqueue" =>
              d # c /\ op[d].pc = "enqueue" /\ op'[d].cur.job = op[d].cur.job
      BY <2>2, <2>3, FlushOthers DEF TypeOK
    <3>2. \A d \in Callers : op[d].pc = "enqueue" => op[d].cur.job.key \in Keys
      BY DEF KeyInv, CandidatesKeyed, Keyed, Idle
    <3> QED
      BY <2>6, <2>7, <3>1, <3>2 DEF EnqueueReserved, KeyInv
  <2> QED
    BY <2>2, <2>9, <2>10, <2>11, <2>12 DEF KeyInv, RowsKeyed, RowsUnique
<1> QED
  BY <1>1, <1>2, <1>3, <1>4, <1>5, <1>6, <1>7, <1>8, <1>9, <1>10, <1>11, StepKinds
     DEF Writes, Singular, IndexInv

(***************************************************************************)
(* Idempotency (keys): a resident job owns its key, so no two resident     *)
(* jobs share one, through concurrent Enqueues, failed writes, evictions,  *)
(* retention and restarts.                                                 *)
(***************************************************************************)
THEOREM KeyOwnershipCorrect == Spec => []KeyOwnership
<1>1. Init => KeyInv
  BY DEF Init, KeyInv, EnqueueReserved, JobsKeyed, RowsKeyed, CandidatesKeyed, RowsUnique,
         UnownedNotTerminal, KeyOwnership, Idle, Absent, Present
<1>2. KeyInv => KeyOwnership
  BY DEF KeyInv
<1> QED
  BY <1>1, <1>2, IndexInit, TypeCorrect, IndexStep, KeyStep, PTL DEF Spec
-----------------------------------------------------------------------------
(***************************************************************************)
(* What no rewrite of a job may do to a finished target.                   *)
(***************************************************************************)
KeepsFinished(old, new) ==
    \A a \in Agents :
        /\ TerminalTarget(old.tgt[a]) => TerminalTarget(new.tgt[a])
        /\ old.tgt[a].st = "expired" => new.tgt[a].st = "expired"

LEMMA RewritesKeepFinished ==
    ASSUME NEW job \in Job, NEW covered, NEW t
    PROVE  /\ KeepsFinished(job, job)
           /\ KeepsFinished(job, expireJobTargets(job, t))
           /\ KeepsFinished(job, expireCoveredTargets(job, covered, t))
           /\ KeepsFinished(job, expireAcknowledgedTargets(job))
BY DEF KeepsFinished, expireJobTargets, expireCoveredTargets, expireAcknowledgedTargets, AckOverdue,
       Job, LiveTarget, TerminalTarget

LEMMA UpdateKeepsFinished ==
    ASSUME TypeOK, NEW c \in Callers, NEW a \in Agents, NEW j \in JobIds, NEW st,
           updateTarget(c, a, j, st),
           \/ jobShouldExpire(jobs[j], now)
           \/ /\ TerminalTarget(jobs[j].tgt[a]) => st \in {"succeeded", "failed", "expired"}
              /\ jobs[j].tgt[a].st = "expired" => st = "expired"
    PROVE  \A i \in JobIds : KeepsFinished(jobs[i], jobs'[i])
<1>1. \A i \in JobIds : jobs[i] \in Job
  BY DEF TypeOK
<1>2. CASE jobShouldExpire(jobs[j], now)
  <2>1. jobs' = Expired({j})
    BY <1>2 DEF updateTarget, commitJobs
  <2>2. \A i \in JobIds : jobs'[i] = jobs[i] \/ jobs'[i] = expireJobTargets(jobs[i], now)
    BY <2>1 DEF Expired
  <2> QED
    BY <1>1, <2>2, RewritesKeepFinished
<1>3. CASE ~jobShouldExpire(jobs[j], now)
  <2> DEFINE tgt == [jobs[j].tgt EXCEPT ![a] = [st |-> st, at |-> now]]
             job == [jobs[j] EXCEPT !.tgt = tgt, !.status = deriveJobStatus(tgt)]
  <2>1. jobs' = [jobs EXCEPT ![j] = job]
    BY <1>3 DEF updateTarget, commitJobs
  <2>2. KeepsFinished(jobs[j], job)
    BY <1>1, <1>3 DEF KeepsFinished, Job, TerminalTarget
  <2> HIDE DEF job
  <2> QED
    BY <1>1, <2>1, <2>2, RewritesKeepFinished DEF TypeOK
<1> QED
  BY <1>2, <1>3

(***************************************************************************)
(* While the control plane runs, no report of an agent, however late or    *)
(* often repeated, and no sweep takes a finished target back.              *)
(***************************************************************************)
LEMMA FinishedStep ==
    ASSUME TypeOK, TypeOK', IndexInv, [Next]_vars, restarts' = restarts,
           NEW j \in JobIds, Present(jobs[j]), Present(jobs'[j])
    PROVE  KeepsFinished(jobs[j], jobs'[j])
<1>0. jobs[j] \in Job
  BY DEF TypeOK
<1>1. CASE Still \/ Writes
  BY <1>0, <1>1, WritesAreQuiet, RewritesKeepFinished DEF Quiet
<1>2. CASE Restart
  BY <1>2 DEF Restart, TypeOK
<1>3. CASE PruneKeys
  BY <1>0, <1>3, RewritesKeepFinished DEF PruneKeys, Present, Absent
<1>4. ASSUME NEW c \in Callers, NEW k, NEW g, NEW ttl, NEW targets, NEW created,
             EnqueueReserve(c, k, g, ttl, targets, created)
      PROVE  KeepsFinished(jobs[j], jobs'[j])
  BY <1>0, <1>4, RewritesKeepFinished DEF EnqueueReserve
<1>5. ASSUME NEW c \in Callers, EnqueuePublish(c)
      PROVE  KeepsFinished(jobs[j], jobs'[j])
  <2>1. j # op[c].cur.id
    BY <1>5 DEF EnqueuePublish, IndexInv, EnqueueFresh
  <2>2. \/ jobs'[j] = jobs[j]
        \/ \E covered, t : jobs'[j] = expireCoveredTargets(jobs[j], covered, t)
    BY <1>5, <2>1 DEF EnqueuePublish
  <2> QED
    BY <1>0, <2>2, RewritesKeepFinished
<1>6. ASSUME NEW c \in Callers, expireJobs(c)
      PROVE  KeepsFinished(jobs[j], jobs'[j])
  BY <1>0, <1>6, RewritesKeepFinished DEF expireJobs, commitJobs, Expired
<1>7. ASSUME NEW c \in Callers, PruneAcknowledgedTargets(c)
      PROVE  KeepsFinished(jobs[j], jobs'[j])
  <2>1. jobs'[j] = jobs[j] \/ jobs'[j] = expireAcknowledgedTargets(jobs[j])
    BY <1>7 DEF PruneAcknowledgedTargets, commitJobs
  <2> QED
    BY <1>0, <2>1, RewritesKeepFinished
<1>8. ASSUME NEW c \in Callers, NEW a \in Agents, PendingForAgent(c, a)
      PROVE  KeepsFinished(jobs[j], jobs'[j])
  BY <1>0, <1>6, <1>8, RewritesKeepFinished DEF PendingForAgent, memory
<1>9. ASSUME NEW c \in Callers, NEW a \in Agents, NEW i \in JobIds, MarkDelivered(c, a, i)
      PROVE  KeepsFinished(jobs[j], jobs'[j])
  <2>1. CASE UNCHANGED jobs
    BY <1>0, <2>1, RewritesKeepFinished
  <2>2. CASE updateTarget(c, a, i, DeliveredStatus(jobs[i].tgt[a].st))
    BY <2>2, UpdateKeepsFinished DEF DeliveredStatus, TerminalTarget
  <2> QED
    BY <1>9, <2>1, <2>2 DEF MarkDelivered, memory
<1>10. ASSUME NEW c \in Callers, NEW a \in Agents, NEW i \in JobIds, MarkAcknowledged(c, a, i)
       PROVE  KeepsFinished(jobs[j], jobs'[j])
  BY <1>10, UpdateKeepsFinished DEF MarkAcknowledged, AcknowledgedStatus, TerminalTarget
<1>11. ASSUME NEW c \in Callers, NEW a \in Agents, NEW i \in JobIds,
              NEW outcome \in {"succeeded", "failed"}, RecordResult(c, a, i, outcome)
       PROVE  KeepsFinished(jobs[j], jobs'[j])
  BY <1>11, UpdateKeepsFinished DEF RecordResult
<1>12. ASSUME NEW c \in Callers, ListJobs(c)
       PROVE  KeepsFinished(jobs[j], jobs'[j])
  BY <1>6, <1>12 DEF ListJobs
<1>13. CASE Tick \/ UNCHANGED vars \/ \E a \in Agents : StreamBreaks(a)
  BY <1>1, <1>13 DEF Tick, StreamBreaks, vars, history, Still
<1>14. ASSUME NEW a \in Agents, NEW i \in JobIds, SendJob(a, i)
       PROVE  KeepsFinished(jobs[j], jobs'[j])
  BY <1>1, <1>14 DEF SendJob, history, Still
<1> QED
  BY <1>1, <1>2, <1>3, <1>4, <1>5, <1>7, <1>8, <1>9, <1>10, <1>11, <1>12, <1>13, <1>14
     DEF Next, Writes

(***************************************************************************)
(* A finished target of a resident job stays finished, and an expired one  *)
(* expired (RecordResult, MarkDelivered, MarkAcknowledged, the sweeps).    *)
(***************************************************************************)
THEOREM FinishedCorrect == Spec => FinishedStaysFinished
<1>1. TypeOK /\ TypeOK' /\ IndexInv /\ [Next]_vars =>
          [\A j \in JobIds, a \in Agents :
              restarts' = restarts /\ Present(jobs[j]) /\ Present(jobs'[j]) =>
                  /\ TerminalTarget(jobs[j].tgt[a]) => TerminalTarget(jobs'[j].tgt[a])
                  /\ jobs[j].tgt[a].st = "expired" => jobs'[j].tgt[a].st = "expired"]_vars
  BY FinishedStep DEF KeepsFinished
<1> QED
  BY <1>1, IndexInit, TypeCorrect, IndexStep, PTL DEF Spec, FinishedStaysFinished
-----------------------------------------------------------------------------
(***************************************************************************)
(* A job that is put on a batch was not due when PendingForAgent looked:   *)
(* the sweep has just run, or the watermark says that it had nothing to do.*)
(***************************************************************************)
LEMMA PendingNotDue ==
    ASSUME TypeOK, WatermarkSound, NEW c \in Callers, NEW a \in Agents, PendingForAgent(c, a),
           NEW j \in listed'[a]
    PROVE  jobs'[j].ttl = 0 \/ isTerminalStatus(jobs'[j].status) \/ now <= Deadline(jobs'[j])
<1>1. CASE ~anyJobNeedsExpiry
  <2>1. jobs' = jobs /\ j \in JobIds /\ Present(jobs[j])
    BY <1>1 DEF PendingForAgent, Pending, memory, TypeOK
  <2>2. jobs[j] \in Job /\ now \in Nat /\ nextExpiryAt \in Nat /\ Deadline(jobs[j]) \in Nat
    BY <2>1, DeadlineType DEF TypeOK
  <2>3. CanExpire(jobs[j]) => now <= Deadline(jobs[j])
    BY <1>1, <2>1, <2>2 DEF WatermarkSound, anyJobNeedsExpiry
  <2>4. jobs[j].ttl = 0 \/ isTerminalStatus(jobs[j].status) \/ CanExpire(jobs[j])
    BY <2>1, <2>2 DEF Job, Status, CanExpire, LiveStatus, isTerminalStatus, Present
  <2> QED
    BY <2>1, <2>3, <2>4
<1>2. CASE anyJobNeedsExpiry
  <2>1. jobs' = Expired(Due) /\ listed' = [listed EXCEPT ![a] = Pending(a, jobs')]
    BY <1>2 DEF PendingForAgent, expireJobs, commitJobs
  <2>2. j \in JobIds /\ Present(jobs'[j])
    BY <2>1 DEF Pending, TypeOK
  <2>3. jobs[j] \in Job /\ now \in Nat /\ Deadline(jobs[j]) \in Nat
    BY <2>2, DeadlineType DEF TypeOK
  <2>4. CASE j \in Due
    <3>1. jobs'[j] = expireJobTargets(jobs[j], now)
      BY <2>1, <2>2, <2>4 DEF Expired
    <3>2. jobs'[j].status = "expired"
      BY <2>3, <3>1 DEF expireJobTargets, Job
    <3> QED
      BY <3>2 DEF isTerminalStatus
  <2>5. CASE j \notin Due
    <3>1. jobs'[j] = jobs[j]
      BY <2>1, <2>2, <2>5 DEF Expired
    <3>2. CanExpire(jobs[j]) => now <= Deadline(jobs[j])
      BY <2>2, <2>3, <2>5 DEF Due, jobShouldExpire
    <3>3. jobs[j].ttl = 0 \/ isTerminalStatus(jobs[j].status) \/ CanExpire(jobs[j])
      BY <2>2, <2>3, <3>1 DEF Job, Status, CanExpire, LiveStatus, isTerminalStatus, Present
    <3> QED
      BY <3>1, <3>2, <3>3
  <2> QED
    BY <2>4, <2>5
<1> QED
  BY <1>1, <1>2

(***************************************************************************)
(* Nothing else extends a batch.                                           *)
(***************************************************************************)
LEMMA OnlyPendingLists ==
    ASSUME TypeOK, [Next]_vars, NEW a \in Agents, NEW j \in listed'[a] \ listed[a]
    PROVE  \E c \in Callers : PendingForAgent(c, a)
<1> USE DEF gateway
<1>1. CASE vars' = vars \/ Tick \/ Restart \/ PruneKeys \/ PruneTerminalJobs
  BY <1>1 DEF vars, Tick, Restart, PruneKeys, PruneTerminalJobs
<1>2. ASSUME NEW b \in Agents, StreamBreaks(b)
      PROVE  FALSE
  BY <1>2 DEF StreamBreaks, TypeOK
<1>3. ASSUME NEW b \in Agents, NEW i \in JobIds, SendJob(b, i)
      PROVE  FALSE
  BY <1>3 DEF SendJob
<1>4. ASSUME NEW c \in Callers, NEW k, NEW g, NEW ttl, NEW targets, NEW created,
             EnqueueReserve(c, k, g, ttl, targets, created)
      PROVE  FALSE
  BY <1>4 DEF EnqueueReserve
<1>5. ASSUME NEW c \in Callers,
             \/ PutJob(c) \/ PersistFails(c) \/ EnqueuePublish(c) \/ PersistCheck(c)
             \/ \E b \in Agents : PutJobTarget(c, b)
      PROVE  FALSE
  BY <1>5 DEF PutJob, PersistFails, EnqueuePublish, PersistCheck, PutJobTarget
<1>6. ASSUME NEW c \in Callers, ListJobs(c) \/ PruneAcknowledgedTargets(c)
      PROVE  FALSE
  BY <1>6 DEF ListJobs, PruneAcknowledgedTargets
<1>7. ASSUME NEW c \in Callers, NEW b \in Agents, NEW i \in JobIds,
             \/ MarkAcknowledged(c, b, i)
             \/ \E outcome \in {"succeeded", "failed"} : RecordResult(c, b, i, outcome)
      PROVE  FALSE
  BY <1>7 DEF MarkAcknowledged, RecordResult
<1>8. ASSUME NEW c \in Callers, NEW b \in Agents, NEW i \in JobIds, MarkDelivered(c, b, i)
      PROVE  FALSE
  <2>1. listed' = [listed EXCEPT ![b] = @ \ {i}]
    BY <1>8 DEF MarkDelivered
  <2> QED
    BY <2>1 DEF TypeOK
<1>9. ASSUME NEW c \in Callers, NEW b \in Agents, PendingForAgent(c, b)
      PROVE  b = a
  <2>1. \E S : listed' = [listed EXCEPT ![b] = S]
    BY <1>9 DEF PendingForAgent
  <2> QED
    BY <2>1 DEF TypeOK
<1>10. ASSUME NEW c \in Dispatchers, NEW b \in Agents,
              PendingForAgent(c, b) \/ \E i \in JobIds : MarkDelivered(c, b, i)
       PROVE  \E d \in Callers : PendingForAgent(d, a)
  BY <1>8, <1>9, <1>10
<1>11. CASE Next
  BY <1>1, <1>2, <1>3, <1>4, <1>5, <1>6, <1>7, <1>10, <1>11 DEF Next
<1> QED
  BY <1>1, <1>11

(***************************************************************************)
(* The fast path of PendingForAgent never hands an overdue job to the      *)
(* dispatch loop.                                                          *)
(***************************************************************************)
THEOREM DispatchCorrect == Spec => DispatchWithinTTL
<1>1. TypeOK /\ WatermarkSound /\ [Next]_vars =>
          [\A a \in Agents : \A j \in listed'[a] \ listed[a] :
              \/ jobs'[j].ttl = 0 \/ isTerminalStatus(jobs'[j].status)
              \/ now <= Deadline(jobs'[j])]_vars
  BY PendingNotDue, OnlyPendingLists
<1> QED
  BY <1>1, TypeCorrect, WatermarkCorrect, PTL DEF Spec, DispatchWithinTTL
-----------------------------------------------------------------------------
(***************************************************************************)
(* Only a restart counts as one.                                           *)
(***************************************************************************)
LEMMA RestartsStep ==
    ASSUME [Next]_vars, restarts' # restarts
    PROVE  Restart
<1> USE DEF bounds
<1>1. ASSUME NEW c \in Callers
      PROVE  /\ PutJob(c) \/ PersistFails(c) \/ EnqueuePublish(c) \/ PersistCheck(c) =>
                    restarts' = restarts
             /\ ListJobs(c) \/ PruneAcknowledgedTargets(c) => restarts' = restarts
             /\ \A a \in Agents : PutJobTarget(c, a) => restarts' = restarts
  BY DEF PutJob, PersistFails, EnqueuePublish, PersistCheck, ListJobs, PruneAcknowledgedTargets,
         PutJobTarget
<1>2. ASSUME NEW c, NEW a, NEW i
      PROVE  /\ PendingForAgent(c, a) \/ MarkDelivered(c, a, i) => restarts' = restarts
             /\ MarkAcknowledged(c, a, i) => restarts' = restarts
             /\ \A outcome : RecordResult(c, a, i, outcome) => restarts' = restarts
             /\ SendJob(a, i) \/ StreamBreaks(a) => restarts' = restarts
  BY DEF PendingForAgent, MarkDelivered, MarkAcknowledged, RecordResult, SendJob, StreamBreaks
<1>3. Tick \/ PruneKeys \/ PruneTerminalJobs \/ UNCHANGED vars => restarts' = restarts
  BY DEF Tick, PruneKeys, PruneTerminalJobs, vars
<1>4. \A c, k, g, ttl, targets, created :
          EnqueueReserve(c, k, g, ttl, targets, created) => restarts' = restarts
  BY DEF EnqueueReserve
<1> QED
  BY <1>1, <1>2, <1>3, <1>4 DEF Next

(***************************************************************************)
(* A step that only lets resident jobs age, or go.                         *)
(***************************************************************************)
JobsAge ==
    \A j \in JobIds : Present(jobs'[j]) =>
        /\ Present(jobs[j])
        /\ jobs'[j] = jobs[j] \/ (Ages(jobs[j], jobs'[j]) /\ SameTargets(jobs[j], jobs'[j]))

LEMMA AgingKeepsSiblings ==
    ASSUME TypeOK, TypeOK', IndexInv, StaleSiblingsAreLate, [Next]_vars, restarts' = restarts, JobsAge,
           late \subseteq late'
    PROVE  StaleSiblingsAreLate'
<1>1. ASSUME NEW j \in JobIds, Present(jobs'[j])
      PROVE  /\ Present(jobs[j]) /\ jobs'[j].created = jobs[j].created /\ jobs'[j].group = jobs[j].group
             /\ \A a \in Agents : /\ jobs'[j].tgt[a].st # "none" => jobs[j].tgt[a].st # "none"
                                  /\ LiveTarget(jobs'[j].tgt[a]) => LiveTarget(jobs[j].tgt[a])
  <2>1. Present(jobs[j]) /\ (jobs'[j] = jobs[j] \/ (Ages(jobs[j], jobs'[j]) /\ SameTargets(jobs[j], jobs'[j])))
    BY <1>1 DEF JobsAge
  <2>2. jobs'[j].created = jobs[j].created /\ jobs'[j].group = jobs[j].group
    BY <2>1 DEF Ages
  <2>3. KeepsFinished(jobs[j], jobs'[j])
    BY <1>1, <2>1, FinishedStep
  <2>4. ASSUME NEW a \in Agents
        PROVE  /\ jobs'[j].tgt[a].st = "none" <=> jobs[j].tgt[a].st = "none"
               /\ TerminalTarget(jobs[j].tgt[a]) => TerminalTarget(jobs'[j].tgt[a])
               /\ jobs[j].tgt[a].st \in TargetStatus \cup {"none"}
    BY <2>1, <2>3 DEF SameTargets, KeepsFinished, TypeOK, Job, JobTarget
  <2> QED
    BY <2>1, <2>2, <2>4 DEF LiveTarget, TerminalTarget, TargetStatus
<1> SUFFICES ASSUME NEW i \in JobIds, NEW j \in JobIds, NEW a \in Agents, StaleSibling(i, j, a)'
             PROVE  <<i, j>> \in late'
  BY DEF StaleSiblingsAreLate
<1>2. CreatedBefore(i, jobs[i], j, jobs[j])
  BY <1>1 DEF StaleSibling, CreatedBefore
<1>3. StaleSibling(i, j, a)
  BY <1>1, <1>2 DEF StaleSibling
<1> QED
  BY <1>3 DEF StaleSiblingsAreLate

LEMMA PublishKeepsSiblings ==
    ASSUME TypeOK, TypeOK', IndexInv, StaleSiblingsAreLate, NEW c \in Callers, EnqueuePublish(c)
    PROVE  StaleSiblingsAreLate'
<1> DEFINE x == op[c].cur
           D == {i \in JobIds : supersededByNewer(i, x.id, x.job)}
<1>1. x.id \in JobIds /\ x.job \in Job /\ ~Present(jobs[x.id])
  <2>1. op[c] \in Op /\ op[c].pc = "enqueue"
    BY DEF EnqueuePublish, TypeOK
  <2> QED
    BY <2>1, BusyType DEF IndexInv, EnqueueFresh
<1>2. late' = late \cup Overtaken(x.id, x.job) \cup Torn(x.id, x.job)
  BY DEF EnqueuePublish
<1>3. /\ jobs'[x.id] = x.job
      /\ \A i \in JobIds \ {x.id} :
             jobs'[i] = IF i \in D THEN expireCoveredTargets(jobs[i], TargetsOf(x.job), x.job.created)
                        ELSE jobs[i]
  BY <1>1 DEF EnqueuePublish
<1>4. ASSUME NEW i \in JobIds \ {x.id}, Present(jobs'[i])
      PROVE  /\ Present(jobs[i]) /\ jobs'[i].created = jobs[i].created /\ jobs'[i].group = jobs[i].group
             /\ \A a \in Agents : /\ jobs'[i].tgt[a].st # "none" => jobs[i].tgt[a].st # "none"
                                  /\ LiveTarget(jobs'[i].tgt[a]) =>
                                        LiveTarget(jobs[i].tgt[a]) /\ (i \in D => a \notin TargetsOf(x.job))
  <2>1. jobs[i] \in Job
    BY DEF TypeOK
  <2>2. CASE i \notin D
    BY <1>3, <1>4, <2>2
  <2>3. CASE i \in D
    <3>1. jobs'[i] = expireCoveredTargets(jobs[i], TargetsOf(x.job), x.job.created)
      BY <1>3, <2>3
    <3>2. Present(jobs[i])
      BY <2>3 DEF supersededByNewer, LiveStatus, Present
    <3>3. Ages(jobs[i], jobs'[i]) /\ SameTargets(jobs[i], jobs'[i])
      BY <2>1, <3>1, CoveredRewrite
    <3> HIDE DEF D, x
    <3>4. ASSUME NEW a \in Agents, LiveTarget(jobs'[i].tgt[a])
          PROVE  LiveTarget(jobs[i].tgt[a]) /\ a \notin TargetsOf(x.job)
      BY <2>1, <3>1, <3>4 DEF expireCoveredTargets, Job, LiveTarget
    <3> QED
      BY <3>2, <3>3, <3>4 DEF Ages, SameTargets
  <2> QED
    BY <2>2, <2>3
<1> SUFFICES ASSUME NEW i \in JobIds, NEW j \in JobIds, NEW a \in Agents, StaleSibling(i, j, a)'
             PROVE  <<i, j>> \in late'
  BY DEF StaleSiblingsAreLate
<1>5. /\ Present(jobs'[i]) /\ Present(jobs'[j]) /\ jobs'[i].group # NoGroup
      /\ jobs'[i].group = jobs'[j].group /\ CreatedBefore(i, jobs'[i], j, jobs'[j])
      /\ jobs'[j].tgt[a].st # "none" /\ LiveTarget(jobs'[i].tgt[a])
  BY DEF StaleSibling
<1>6. CASE i # x.id /\ j # x.id
  <2>1. CreatedBefore(i, jobs[i], j, jobs[j])
    BY <1>4, <1>5, <1>6 DEF CreatedBefore
  <2>2. StaleSibling(i, j, a)
    BY <1>4, <1>5, <1>6, <2>1 DEF StaleSibling
  <2> QED
    BY <1>2, <2>2 DEF StaleSiblingsAreLate
<1>7. CASE i = x.id /\ j # x.id
  <2>1. SameGroup(j, x.job) /\ CreatedBefore(x.id, x.job, j, jobs[j])
    BY <1>3, <1>4, <1>5, <1>7 DEF SameGroup, CreatedBefore
  <2>2. <<i, j>> \in Overtaken(x.id, x.job)
    BY <1>7, <2>1 DEF Overtaken
  <2> QED
    BY <1>2, <2>2
<1>8. CASE i # x.id /\ j = x.id
  <2>1. /\ LiveTarget(jobs[i].tgt[a]) /\ (i \in D => a \notin TargetsOf(x.job))
        /\ SameGroup(i, x.job) /\ CreatedBefore(i, jobs[i], x.id, x.job)
    BY <1>3, <1>4, <1>5, <1>8 DEF SameGroup, CreatedBefore
  <2>2. a \in TargetsOf(x.job)
    BY <1>3, <1>5, <1>8 DEF TargetsOf
  <2>3. ~LiveStatus(jobs[i].status)
    BY <1>8, <2>1, <2>2 DEF supersededByNewer, SameGroup
  <2>4. <<i, j>> \in Torn(x.id, x.job)
    BY <1>8, <2>1, <2>3 DEF Torn
  <2> QED
    BY <1>2, <2>4
<1>9. ~(i = x.id /\ j = x.id)
  <2>1. jobs'[i].created \in Nat
    BY DEF TypeOK, Job
  <2> QED
    BY <1>5, <2>1 DEF CreatedBefore
<1> QED
  BY <1>6, <1>7, <1>8, <1>9

LEMMA SiblingStep ==
    ASSUME TypeOK, TypeOK', IndexInv, StaleSiblingsAreLate, [Next]_vars
    PROVE  StaleSiblingsAreLate'
<1>1. CASE Restart
  <2>1. \A j \in JobIds : Present(jobs'[j]) => j \in ListedRows
    BY <1>1 DEF Restart, Restored, Absent, Present
  <2>2. late' = ListedRows \X ListedRows
    BY <1>1 DEF Restart
  <2> QED
    BY <2>1, <2>2 DEF StaleSiblingsAreLate, StaleSibling
<1>2. ASSUME ~Restart
      PROVE  restarts' = restarts
  BY <1>2, RestartsStep
<1>3. CASE Still \/ Writes
  <2>1. Quiet /\ late' = late
    BY <1>3, WritesAreQuiet, WritesKeepLate
  <2> QED
    BY <2>1 DEF Quiet, StaleSiblingsAreLate, StaleSibling
<1>4. ASSUME Commit, ~Restart
      PROVE  StaleSiblingsAreLate'
  <2>1. PICK c \in Callers, D \in SUBSET JobIds, new \in [JobIds -> Job], clear \in BOOLEAN :
            Rewrites(D, new) /\ commitJobs(c, D, new, now, clear) /\ late' = late
    BY <1>4 DEF Commit
  <2>2. jobs' = new
    BY <2>1 DEF commitJobs
  <2>3. JobsAge
    BY <2>1, <2>2 DEF Rewrites, JobsAge
  <2> QED
    BY <1>2, <1>4, <2>1, <2>3, AgingKeepsSiblings
<1>5. ASSUME PruneKeys, ~Restart
      PROVE  StaleSiblingsAreLate'
  <2>1. \A j \in JobIds : jobs'[j] = jobs[j] \/ jobs'[j] = Absent
    BY <1>5 DEF PruneKeys
  <2>2. JobsAge /\ late' = late
    BY <1>5, <2>1 DEF JobsAge, Present, Absent, PruneKeys, history
  <2> QED
    BY <1>2, <1>5, <2>2, AgingKeepsSiblings
<1>6. ASSUME NEW c, NEW k, NEW g, NEW ttl, NEW targets, NEW created,
             EnqueueReserve(c, k, g, ttl, targets, created)
      PROVE  StaleSiblingsAreLate'
  BY <1>6 DEF EnqueueReserve, history, StaleSiblingsAreLate, StaleSibling
<1>7. Still \/ Writes \/ Commit \/ Singular
  BY StepKinds DEF IndexInv
<1> QED
  BY <1>1, <1>3, <1>4, <1>5, <1>6, <1>7, PublishKeepsSiblings DEF Singular

(***************************************************************************)
(* A stale sibling is a job that was published after the newer one, or     *)
(* that a restart brought back: whatever was resident and unfinished when  *)
(* Enqueue published a newer job of its group is superseded, and stays so, *)
(* however many Enqueue calls overlap and however old their clock readings *)
(* are.                                                                    *)
(***************************************************************************)
THEOREM SiblingsSuperseded == Spec => []StaleSiblingsAreLate
<1>1. Init => IndexInv /\ StaleSiblingsAreLate
  <2>1. Init => StaleSiblingsAreLate
    BY DEF Init, StaleSiblingsAreLate, StaleSibling, Present, Absent
  <2> QED
    BY <2>1, IndexInit
<1>2. TypeOK /\ TypeOK' /\ IndexInv /\ StaleSiblingsAreLate /\ [Next]_vars =>
          IndexInv' /\ StaleSiblingsAreLate'
  BY IndexStep, SiblingStep
<1> QED
  BY <1>1, <1>2, TypeCorrect, PTL DEF Spec
-----------------------------------------------------------------------------
(***************************************************************************)
(* What a round trip through the tables leaves of a job: all but the       *)
(* targets is the row of `jobs', the targets are the rows of job_targets.  *)
(***************************************************************************)
SameRow(r, job) ==
    /\ r.status = job.status /\ r.created = job.created /\ r.ttl = job.ttl
    /\ r.key = job.key /\ r.group = job.group

Tidy(job) == \A a \in Agents : job.tgt[a].st = "none" => job.tgt[a] = NoTarget

(***************************************************************************)
(* The snapshots a goroutine is persisting after a commit.                 *)
(***************************************************************************)
Snaps(o) == IF o.pc = "flush" THEN {o.cur} \cup o.todo ELSE {}

(***************************************************************************)
(* Goroutine o is still going to write the row of job j, or its target a,  *)
(* with the latest version: it has not come to it, or its snapshot is out  *)
(* of date and the version check will make it start again.                 *)
(***************************************************************************)
Later(o, j) == o.pc = "flush" /\ \E x \in o.todo : x.id = j
OwesRow(o, j) == Later(o, j) \/ (o.pc = "flush" /\ o.cur.id = j /\ (o.row \/ ~o.cur.latest))
OwesTarget(o, j, a) == Later(o, j) \/ (o.pc = "flush" /\ o.cur.id = j /\ (a \in o.left \/ ~o.cur.latest))

(***************************************************************************)
(* The rows of job j: nothing above the sequence, no target rows without a *)
(* job row, times in whole seconds.                                        *)
(***************************************************************************)
RowOK(j) ==
    /\ Present(store[j]) => j <= sequence
    /\ Present(store[j]) \/ store[j] = Absent
    /\ Row(store[j]) = store[j]
    /\ Tidy(store[j])

(***************************************************************************)
(* A snapshot x: the latest one is what memory has, an older one has the   *)
(* same targets; so have the tables.                                       *)
(***************************************************************************)
SnapOK(x) ==
    /\ x.id <= sequence /\ Present(x.job) /\ Tidy(x.job)
    /\ TargetsOf(store[x.id]) = TargetsOf(x.job)
    /\ Present(jobs[x.id]) =>
           /\ x.latest => x.job = jobs[x.id]
           /\ Bare(x.job) /\ isTerminalStatus(x.job.status) => isTerminalStatus(jobs[x.id].status)

FlushOK(o) ==
    o.pc = "flush" => o.left \subseteq TargetsOf(o.cur.job) /\ \A x \in Snaps(o) : SnapOK(x)

(***************************************************************************)
(* An Enqueue that persists its job has the rows to itself, and has        *)
(* written what it no longer has to write.                                 *)
(***************************************************************************)
EnqueueOK(o) ==
    o.pc = "enqueue" =>
        LET x == o.cur
        IN  /\ o.todo = {} /\ o.left \subseteq TargetsOf(x.job)
            /\ x.job.status = "queued" /\ Tidy(x.job)
            /\ o.row => store[x.id] = Absent /\ o.left = TargetsOf(x.job)
            /\ ~o.row => SameRow(store[x.id], Row(x.job))
            /\ \A a \in Agents \ o.left : store[x.id].tgt[a] = RowTarget(x.job.tgt[a])
            /\ \A d \in Callers : \A y \in Snaps(op[d]) : y.id # x.id

(***************************************************************************)
(* A resident job j: the tables have its targets, and each of its rows is  *)
(* up to date, or somebody owes it, or a failed write of j was logged; the *)
(* job row may also be gone, when retention has taken it.  A job without   *)
(* targets that is not finished is safe from retention.                    *)
(***************************************************************************)
Unfinished(r) == Present(r) /\ ~isTerminalStatus(r.status)
RowCurrent(j) ==
    \/ SameRow(store[j], Row(jobs[j])) \/ RetentionTook(j)
    \/ \E c \in Callers : OwesRow(op[c], j)
TargetCurrent(j, a) ==
    \/ store[j].tgt[a] = RowTarget(jobs[j].tgt[a])
    \/ \E c \in Callers : OwesTarget(op[c], j, a)

ResidentOK(j) ==
    Present(jobs[j]) =>
        /\ Tidy(jobs[j]) /\ TargetsOf(store[j]) = TargetsOf(jobs[j])
        /\ Bare(jobs[j]) => isTerminalStatus(jobs[j].status) \/ Unfinished(store[j])
        /\ j \in unsaved \/ (RowCurrent(j) /\ \A a \in Agents : TargetCurrent(j, a))

StoreInv ==
    /\ \A j \in JobIds : RowOK(j) /\ ResidentOK(j)
    /\ \A c \in Callers : FlushOK(op[c]) /\ EnqueueOK(op[c])
-----------------------------------------------------------------------------
(***************************************************************************)
(* Rounding to seconds is done once; a target that is not there stays so.  *)
(***************************************************************************)
LEMMA RoundTwice ==
    ASSUME NEW t \in Nat
    PROVE  toUnix(toUnix(t)) = toUnix(t) /\ toUnix(0) = 0
<1> DEFINE q == t \div Second
           r == t % Second
<1>1. q \in Int /\ r \in Nat /\ r < Second /\ t = Second * q + r
  OBVIOUS
<1>2. (Second * q) % Second = 0
  <2> DEFINE n == Second * q
             p == n \div Second
             s == n % Second
  <2>1. n \in Int
    BY <1>1
  <2> HIDE DEF q, n
  <2>2. p \in Int /\ s \in Nat /\ s < Second /\ n = Second * p + s
    BY <2>1
  <2> HIDE DEF p, s
  <2>3. s = Second * (q - p) /\ q - p \in Int
    BY <1>1, <2>2 DEF n
  <2>4. q - p >= 1 => Second * (q - p) >= Second
    BY <2>3
  <2>5. q - p <= -1 => Second * (q - p) <= -Second
    BY <2>3
  <2>6. q - p = 0
    BY <2>2, <2>3, <2>4, <2>5
  <2>7. s = 0
    BY <2>3, <2>6
  <2> QED
    BY <2>7 DEF s, n
<1>3. toUnix(t) = Second * q
  BY <1>1 DEF toUnix
<1>4. toUnix(Second * q) = Second * q
  BY <1>1, <1>2 DEF toUnix
<1>5. toUnix(0) = 0
  BY DEF toUnix
<1> QED
  BY <1>3, <1>4, <1>5

LEMMA RowTargetFacts ==
    ASSUME NEW target \in JobTarget
    PROVE  /\ RowTarget(target).st = target.st
           /\ RowTarget(RowTarget(target)) = RowTarget(target)
           /\ RowTarget(NoTarget) = NoTarget
<1>1. target = [st |-> target.st, at |-> target.at] /\ target.at \in Nat
  BY DEF JobTarget
<1>2. \A st, t : RowTarget([st |-> st, at |-> t]) = [st |-> st, at |-> toUnix(t)]
  BY DEF RowTarget
<1>3. toUnix(toUnix(target.at)) = toUnix(target.at) /\ toUnix(0) = 0
  BY <1>1, RoundTwice
<1>4. RowTarget(target) = [st |-> target.st, at |-> toUnix(target.at)]
  BY <1>1, <1>2
<1>5. RowTarget(RowTarget(target)) = [st |-> target.st, at |-> toUnix(toUnix(target.at))]
  BY <1>2, <1>4
<1>6. RowTarget(NoTarget) = NoTarget
  BY <1>2, <1>3 DEF NoTarget
<1> QED
  BY <1>3, <1>4, <1>5, <1>6

LEMMA RowFacts ==
    ASSUME NEW job \in Job
    PROVE  /\ Row(job) \in Job
           /\ Row(job).status = job.status /\ Row(job).created = toUnix(job.created)
           /\ Row(job).ttl = job.ttl /\ Row(job).key = job.key /\ Row(job).group = job.group
           /\ Row(job).tgt = [a \in Agents |-> RowTarget(job.tgt[a])]
BY RowType DEF Row, Job

(***************************************************************************)
(* A job is its row and its targets.                                       *)
(***************************************************************************)
LEMMA JobEqual ==
    ASSUME NEW r \in Job, NEW job \in Job, SameRow(r, job), \A a \in Agents : r.tgt[a] = job.tgt[a]
    PROVE  r = job
BY DEF SameRow, Job

LEMMA RowTwice ==
    ASSUME NEW job \in Job
    PROVE  Row(Row(job)) = Row(job)
<1>1. Row(job) \in Job /\ Row(Row(job)) \in Job
  BY RowFacts
<1>2. job.created \in Nat /\ \A a \in Agents : job.tgt[a] \in JobTarget
  BY DEF Job
<1>3. SameRow(Row(Row(job)), Row(job))
  <2>1. Row(job).created = toUnix(job.created) /\ Row(Row(job)).created = toUnix(Row(job).created)
    BY <1>1, RowFacts
  <2>2. Row(Row(job)).created = Row(job).created
    BY <1>2, <2>1, RoundTwice
  <2>3. /\ Row(Row(job)).status = Row(job).status /\ Row(Row(job)).ttl = Row(job).ttl
        /\ Row(Row(job)).key = Row(job).key /\ Row(Row(job)).group = Row(job).group
    BY <1>1, RowFacts
  <2> QED
    BY <2>2, <2>3 DEF SameRow
<1>4. ASSUME NEW a \in Agents
      PROVE  Row(Row(job)).tgt[a] = Row(job).tgt[a]
  <2>1. Row(job).tgt[a] = RowTarget(job.tgt[a])
    BY RowFacts
  <2>2. Row(Row(job)).tgt[a] = RowTarget(Row(job).tgt[a])
    BY <1>1, RowFacts
  <2> QED
    BY <1>2, <2>1, <2>2, RowTargetFacts
<1> QED
  BY <1>1, <1>3, <1>4, JobEqual

(***************************************************************************)
(* What stays of the rounded job when the targets are those of another.    *)
(***************************************************************************)
LEMMA RowWhole ==
    ASSUME NEW r \in Job
    PROVE  Row(r) = r <=> /\ toUnix(r.created) = r.created
                          /\ \A a \in Agents : RowTarget(r.tgt[a]) = r.tgt[a]
<1>1. ASSUME Row(r) = r
      PROVE  toUnix(r.created) = r.created /\ \A a \in Agents : RowTarget(r.tgt[a]) = r.tgt[a]
  <2>1. Row(r).created = toUnix(r.created) /\ \A a \in Agents : Row(r).tgt[a] = RowTarget(r.tgt[a])
    BY RowFacts
  <2> QED
    BY <1>1, <2>1
<1>2. ASSUME toUnix(r.created) = r.created, \A a \in Agents : RowTarget(r.tgt[a]) = r.tgt[a]
      PROVE  Row(r) = r
  <2>1. SameRow(Row(r), r) /\ \A a \in Agents : Row(r).tgt[a] = r.tgt[a]
    BY <1>2, RowFacts DEF SameRow
  <2> QED
    BY <2>1, RowFacts, JobEqual
<1> QED
  BY <1>1, <1>2

LEMMA AbsentRow ==
    /\ Absent \in Job /\ ~Present(Absent) /\ Row(Absent) = Absent /\ Tidy(Absent) /\ TargetsOf(Absent) = {}
    /\ \A a \in Agents : Absent.tgt[a] = NoTarget
<1>1. Absent \in Job /\ Absent.created = 0 /\ \A a \in Agents : Absent.tgt[a] = NoTarget
  BY AbsentType DEF Absent
<1>2. Row(Absent) = Absent
  <2>1. NoTarget \in JobTarget
    BY DEF NoTarget, JobTarget
  <2> QED
    BY <1>1, <2>1, RowWhole, RoundTwice, RowTargetFacts
<1>3. Tidy(Absent) /\ TargetsOf(Absent) = {} /\ ~Present(Absent)
  BY <1>1 DEF Tidy, TargetsOf, NoTarget, Present, Absent
<1> QED
  BY <1>1, <1>2, <1>3

(***************************************************************************)
(* The end of a list of candidates, and the beginning of the next one.     *)
(***************************************************************************)
LEMMA WritingOwes ==
    ASSUME NEW o, o.pc = "flush", o.row, o.left = TargetsOf(o.cur.job)
    PROVE  /\ Snaps(o) = {o.cur} \cup o.todo
           /\ OwesRow(o, o.cur.id) /\ \A a \in TargetsOf(o.cur.job) : OwesTarget(o, o.cur.id, a)
           /\ \A y \in o.todo : OwesRow(o, y.id) /\ \A a \in Agents : OwesTarget(o, y.id, a)
BY DEF Snaps, OwesRow, OwesTarget, Later

LEMMA StartNextOwes ==
    ASSUME NEW todo \in SUBSET Candidate, NEW o \in StartNext(todo)
    PROVE  /\ o.pc # "enqueue" /\ Snaps(o) = todo
           /\ o.pc = "flush" => o.left = TargetsOf(o.cur.job)
           /\ \A x \in todo : OwesRow(o, x.id) /\ \A a \in TargetsOf(x.job) : OwesTarget(o, x.id, a)
<1>1. CASE todo = {}
  BY <1>1 DEF StartNext, Idle, Snaps
<1>2. CASE todo # {}
  <2>1. PICK x \in todo : o = Writing("flush", x, todo \ {x})
    BY <1>2 DEF StartNext
  <2>2. x \in Candidate /\ todo \ {x} \in SUBSET Candidate
    OBVIOUS
  <2>3. \A y \in todo : y = x \/ y \in todo \ {x}
    OBVIOUS
  <2>4. \A y \in todo : TargetsOf(y.job) \subseteq Agents
    BY DEF TargetsOf
  <2>5. o.pc = "flush" /\ o.cur = x /\ o.row /\ o.left = TargetsOf(o.cur.job) /\ o.todo = todo \ {x}
    BY <2>1 DEF Writing
  <2>6. /\ Snaps(o) = {x} \cup (todo \ {x})
        /\ OwesRow(o, x.id) /\ \A a \in TargetsOf(x.job) : OwesTarget(o, x.id, a)
        /\ \A y \in todo \ {x} : OwesRow(o, y.id) /\ \A a \in Agents : OwesTarget(o, y.id, a)
    BY <2>5, WritingOwes
  <2> QED
    BY <2>3, <2>4, <2>5, <2>6
<1> QED
  BY <1>1, <1>2

(***************************************************************************)
(* A commit by somebody else only makes snapshots stale.                   *)
(***************************************************************************)
LEMMA StaleFacts ==
    ASSUME NEW o \in Op, NEW D \in SUBSET JobIds
    PROVE  /\ Stale(o, D).pc = o.pc
           /\ o.pc # "idle" =>
                /\ Stale(o, D).row = o.row /\ Stale(o, D).left = o.left
                /\ Stale(o, D).cur = StaleCandidate(o.cur, D)
                /\ Stale(o, D).todo = {StaleCandidate(x, D) : x \in o.todo}
<1>1. CASE o = Idle
  BY <1>1 DEF Stale, Idle
<1>2. CASE o # Idle
  <2>1. o \in [pc : {"enqueue", "flush"}, cur : Candidate, row : BOOLEAN,
               left : SUBSET Agents, todo : SUBSET Candidate]
    BY <1>2 DEF Op
  <2> QED
    BY <1>2, <2>1 DEF Stale
<1> QED
  BY <1>1, <1>2

LEMMA StaleCandidateFacts ==
    ASSUME NEW x \in Candidate, NEW D
    PROVE  LET y == StaleCandidate(x, D)
           IN  y.id = x.id /\ y.job = x.job /\ (y.latest <=> x.latest /\ x.id \notin D)
BY DEF StaleCandidate, Candidate

LEMMA StaleOwes ==
    ASSUME NEW o \in Op, NEW D \in SUBSET JobIds
    PROVE  /\ Snaps(Stale(o, D)) = {StaleCandidate(x, D) : x \in Snaps(o)}
           /\ \A j : OwesRow(o, j) => OwesRow(Stale(o, D), j)
           /\ \A j, a : OwesTarget(o, j, a) => OwesTarget(Stale(o, D), j, a)
<1>1. CASE o.pc # "flush"
  BY <1>1, StaleFacts DEF Snaps, OwesRow, OwesTarget, Later
<1>2. CASE o.pc = "flush"
  <2>1. o.cur \in Candidate /\ o.todo \in SUBSET Candidate
    BY <1>2, BusyType
  <2>2. /\ Stale(o, D).pc = "flush" /\ Stale(o, D).row = o.row /\ Stale(o, D).left = o.left
        /\ Stale(o, D).cur = StaleCandidate(o.cur, D)
        /\ Stale(o, D).todo = {StaleCandidate(x, D) : x \in o.todo}
    BY <1>2, StaleFacts
  <2>3. Snaps(Stale(o, D)) = {StaleCandidate(x, D) : x \in Snaps(o)}
    BY <1>2, <2>2 DEF Snaps
  <2>4. \A j : Later(o, j) => Later(Stale(o, D), j)
    BY <1>2, <2>1, <2>2, StaleCandidateFacts DEF Later
  <2>5. Stale(o, D).cur.id = o.cur.id /\ (~o.cur.latest => ~Stale(o, D).cur.latest)
    BY <2>1, <2>2, StaleCandidateFacts
  <2> QED
    BY <1>2, <2>2, <2>3, <2>4, <2>5 DEF OwesRow, OwesTarget
<1> QED
  BY <1>1, <1>2

-----------------------------------------------------------------------------
(***************************************************************************)
(* Caller c commits the jobs D and starts to persist them.  N is the job   *)
(* that an Enqueue publishes by the way, if any.                           *)
(***************************************************************************)
CommitsTo(c, D, N) ==
    /\ Flush(c, D, jobs') /\ op[c].pc # "flush"
    /\ UNCHANGED <<sequence, store, unsaved>>
    /\ \A j \in D : /\ Present(jobs[j]) /\ Present(jobs'[j]) /\ SameTargets(jobs[j], jobs'[j])
                    /\ Bare(jobs[j]) => isTerminalStatus(jobs'[j].status)
    /\ \A j \in JobIds \ D : j \in N \/ jobs'[j] = jobs[j]
    /\ \A d \in Callers : \A x \in Snaps(op[d]) : x.id \notin N

LEMMA SameTargetsFacts ==
    ASSUME NEW old \in Job, NEW new \in Job, SameTargets(old, new)
    PROVE  /\ TargetsOf(new) = TargetsOf(old) /\ (Bare(new) <=> Bare(old))
           /\ Tidy(old) => Tidy(new)
BY DEF SameTargets, TargetsOf, Bare, Tidy

LEMMA SnapsType ==
    ASSUME NEW o \in Op, NEW x \in Snaps(o)
    PROVE  x \in Candidate /\ x.id \in JobIds /\ x.job \in Job
<1>1. o.pc = "flush" /\ (x = o.cur \/ x \in o.todo)
  BY DEF Snaps
<1>2. x \in Candidate
  BY <1>1, BusyType
<1> QED
  BY <1>2 DEF Candidate

(***************************************************************************)
(* What the goroutines have to write after it.                             *)
(***************************************************************************)
LEMMA CommitOps ==
    ASSUME TypeOK, TypeOK', NEW c \in Callers, NEW D \in SUBSET JobIds, NEW N, CommitsTo(c, D, N)
    PROVE  /\ op'[c].pc # "enqueue"
           /\ Snaps(op'[c]) = Snapshots(D, jobs')
           /\ op'[c].pc = "flush" => op'[c].left = TargetsOf(op'[c].cur.job)
           /\ \A j \in D : /\ OwesRow(op'[c], j)
                           /\ \A a \in TargetsOf(jobs'[j]) : OwesTarget(op'[c], j, a)
           /\ \A d \in Callers \ {c} : op'[d] = Stale(op[d], D)
<1>1. PICK o \in StartNext(Snapshots(D, jobs')) :
          op' = [d \in Callers |-> IF d = c THEN o ELSE Stale(op[d], D)]
  BY DEF CommitsTo, Flush
<1>2. Snapshots(D, jobs') \in SUBSET Candidate
  <2>1. \A j \in D : jobs'[j] \in Job
    BY DEF TypeOK
  <2>2. \A j \in D : [id |-> j, job |-> jobs'[j], latest |-> TRUE] \in Candidate
    BY <2>1 DEF Candidate
  <2> QED
    BY <2>2 DEF Snapshots
<1>3. op'[c] = o /\ \A d \in Callers \ {c} : op'[d] = Stale(op[d], D)
  BY <1>1
<1>4. \A j \in D : \E x \in Snapshots(D, jobs') : x.id = j /\ x.job = jobs'[j]
  <2> TAKE j \in D
  <2> DEFINE x == [id |-> j, job |-> jobs'[j], latest |-> TRUE]
  <2>1. x \in Snapshots(D, jobs') /\ x.id = j /\ x.job = jobs'[j]
    BY DEF Snapshots
  <2> QED
    BY <2>1
<1>5. /\ o.pc # "enqueue" /\ Snaps(o) = Snapshots(D, jobs')
      /\ o.pc = "flush" => o.left = TargetsOf(o.cur.job)
      /\ \A x \in Snapshots(D, jobs') :
             OwesRow(o, x.id) /\ \A a \in TargetsOf(x.job) : OwesTarget(o, x.id, a)
  BY <1>2, StartNextOwes
<1> QED
  BY <1>3, <1>4, <1>5

LEMMA CommitSnaps ==
    ASSUME TypeOK, TypeOK', IndexInv, StoreInv, NEW c \in Callers, NEW D \in SUBSET JobIds, NEW N,
           CommitsTo(c, D, N), NEW d \in Callers
    PROVE  FlushOK(op[d])'
<1>1. ASSUME NEW j \in D
      PROVE  /\ TargetsOf(store'[j]) = TargetsOf(jobs'[j]) /\ Tidy(jobs'[j]) /\ j <= sequence'
             /\ Present(jobs'[j])
  <2>1. j \in JobIds /\ jobs[j] \in Job /\ jobs'[j] \in Job /\ store'[j] = store[j] /\ sequence' = sequence
    BY DEF TypeOK, CommitsTo
  <2>2. Present(jobs[j]) /\ Present(jobs'[j]) /\ SameTargets(jobs[j], jobs'[j])
    BY DEF CommitsTo
  <2>3. Tidy(jobs[j]) /\ TargetsOf(store[j]) = TargetsOf(jobs[j])
    BY <2>1, <2>2 DEF StoreInv, ResidentOK
  <2>4. j <= sequence
    BY <2>1, <2>2 DEF IndexInv, NumbersDrawn
  <2> QED
    BY <2>1, <2>2, <2>3, <2>4, SameTargetsFacts
<1>2. CASE d = c
  <2>1. ASSUME NEW x \in Snapshots(D, jobs')
        PROVE  SnapOK(x)'
    <3>1. PICK j \in D : x = [id |-> j, job |-> jobs'[j], latest |-> TRUE]
      BY DEF Snapshots
    <3>2. x.id = j /\ x.job = jobs'[j]
      BY <3>1
    <3> QED
      BY <1>1, <3>2 DEF SnapOK
  <2>2. /\ Snaps(op'[d]) = Snapshots(D, jobs')
        /\ op'[d].pc = "flush" => op'[d].left = TargetsOf(op'[d].cur.job)
    BY <1>2, CommitOps
  <2> QED
    BY <2>1, <2>2 DEF FlushOK
<1>3. CASE d # c
  <2>1. op'[d] = Stale(op[d], D) /\ op[d] \in Op
    BY <1>3, CommitOps DEF TypeOK
  <2>2. SUFFICES ASSUME op'[d].pc = "flush"
                 PROVE  op'[d].left \subseteq TargetsOf(op'[d].cur.job) /\ \A y \in Snaps(op'[d]) : SnapOK(y)'
    BY DEF FlushOK
  <2>3. /\ op[d].pc = "flush" /\ op'[d].left = op[d].left /\ op'[d].cur = StaleCandidate(op[d].cur, D)
        /\ op[d].cur \in Candidate
    BY <2>1, <2>2, StaleFacts, BusyType
  <2>4. op'[d].left \subseteq TargetsOf(op'[d].cur.job)
    BY <2>3, StaleCandidateFacts DEF StoreInv, FlushOK
  <2>5. ASSUME NEW y \in Snaps(op'[d])
        PROVE  SnapOK(y)'
    <3>1. PICK x \in Snaps(op[d]) : y = StaleCandidate(x, D)
      BY <2>1, StaleOwes
    <3>2. x \in Candidate /\ x.id \in JobIds /\ x.job \in Job /\ x.id \notin N
      BY <2>1, SnapsType DEF CommitsTo
    <3>3. y.id = x.id /\ y.job = x.job /\ (y.latest <=> x.latest /\ x.id \notin D)
      BY <3>1, <3>2, StaleCandidateFacts
    <3>4. SnapOK(x)
      BY <2>3 DEF StoreInv, FlushOK
    <3>5. store' = store /\ sequence' = sequence
      BY DEF CommitsTo
    <3>6. CASE x.id \notin D
      <4>1. jobs'[x.id] = jobs[x.id]
        BY <3>2, <3>6 DEF CommitsTo
      <4> QED
        BY <3>3, <3>4, <3>5, <3>6, <4>1 DEF SnapOK
    <3>7. CASE x.id \in D
      <4>1. Present(jobs[x.id]) /\ (Bare(jobs[x.id]) => isTerminalStatus(jobs'[x.id].status))
        BY <3>7 DEF CommitsTo
      <4>2. TargetsOf(store[x.id]) = TargetsOf(jobs[x.id]) /\ TargetsOf(store[x.id]) = TargetsOf(x.job)
        BY <3>2, <3>4, <4>1 DEF StoreInv, ResidentOK, SnapOK
      <4>3. Bare(x.job) => Bare(jobs[x.id])
        BY <4>2 DEF Bare, TargetsOf
      <4> QED
        BY <3>3, <3>4, <3>5, <3>7, <4>1, <4>3 DEF SnapOK
    <3> QED
      BY <3>6, <3>7
  <2> QED
    BY <2>4, <2>5
<1> QED
  BY <1>2, <1>3

(***************************************************************************)
(* An Enqueue in flight keeps its rows to itself.                          *)
(***************************************************************************)
LEMMA CommitEnqueues ==
    ASSUME TypeOK, TypeOK', IndexInv, StoreInv, NEW c \in Callers, NEW D \in SUBSET JobIds, NEW N,
           CommitsTo(c, D, N), NEW d \in Callers
    PROVE  EnqueueOK(op[d])'
<1>1. SUFFICES ASSUME op'[d].pc = "enqueue"
               PROVE  EnqueueOK(op[d])'
  BY DEF EnqueueOK
<1>2. d # c /\ op'[d] = Stale(op[d], D) /\ op[d] \in Op
  BY <1>1, CommitOps DEF TypeOK
<1>3. /\ op[d].pc = "enqueue" /\ op'[d].left = op[d].left /\ op'[d].row = op[d].row
      /\ op'[d].cur = StaleCandidate(op[d].cur, D)
      /\ op'[d].todo = {StaleCandidate(x, D) : x \in op[d].todo}
  BY <1>1, <1>2, StaleFacts
<1>4. op[d].cur \in Candidate /\ op[d].cur.id \in JobIds
  BY <1>2, <1>3, BusyType
<1>5. op'[d].cur.id = op[d].cur.id /\ op'[d].cur.job = op[d].cur.job
  BY <1>3, <1>4, StaleCandidateFacts
<1>6. EnqueueOK(op[d]) /\ ~Present(jobs[op[d].cur.id])
  BY <1>3 DEF StoreInv, IndexInv, EnqueueFresh
<1>7. op'[d].todo = {}
  BY <1>3, <1>6 DEF EnqueueOK
<1>8. ASSUME NEW e \in Callers, NEW y \in Snaps(op'[e])
      PROVE  y.id # op[d].cur.id
  <2>1. CASE e = c
    <3>1. y \in Snapshots(D, jobs')
      BY <2>1, CommitOps
    <3>2. y.id \in D
      BY <3>1 DEF Snapshots
    <3> QED
      BY <1>6, <3>2 DEF CommitsTo
  <2>2. CASE e # c
    <3>1. op'[e] = Stale(op[e], D) /\ op[e] \in Op
      BY <2>2, CommitOps DEF TypeOK
    <3>2. PICK x \in Snaps(op[e]) : y = StaleCandidate(x, D)
      BY <3>1, StaleOwes
    <3>3. y.id = x.id
      BY <3>1, <3>2, SnapsType, StaleCandidateFacts
    <3> QED
      BY <1>3, <1>6, <3>3 DEF EnqueueOK
  <2> QED
    BY <2>1, <2>2
<1>9. store' = store
  BY DEF CommitsTo
<1> QED
  BY <1>1, <1>3, <1>5, <1>6, <1>7, <1>8, <1>9 DEF EnqueueOK

(***************************************************************************)
(* A committed job is owed in full, the others as before.                  *)
(***************************************************************************)
LEMMA CommitResidents ==
    ASSUME TypeOK, TypeOK', StoreInv, NEW c \in Callers, NEW D \in SUBSET JobIds, NEW N,
           CommitsTo(c, D, N), NEW j \in JobIds, j \notin N \/ j \in D
    PROVE  ResidentOK(j)'
<1>1. store' = store /\ unsaved' = unsaved
  BY DEF CommitsTo
<1>2. jobs[j] \in Job /\ jobs'[j] \in Job /\ store[j] \in Job
  BY DEF TypeOK
<1>3. CASE j \in D
  <2>1. /\ Present(jobs[j]) /\ SameTargets(jobs[j], jobs'[j])
        /\ Bare(jobs[j]) => isTerminalStatus(jobs'[j].status)
    BY <1>3 DEF CommitsTo
  <2>2. ResidentOK(j) /\ Tidy(store[j])
    BY DEF StoreInv, RowOK
  <2>3. Tidy(jobs'[j]) /\ TargetsOf(store[j]) = TargetsOf(jobs'[j]) /\ (Bare(jobs'[j]) <=> Bare(jobs[j]))
    BY <1>2, <2>1, <2>2, SameTargetsFacts DEF ResidentOK
  <2>4. OwesRow(op'[c], j) /\ \A a \in TargetsOf(jobs'[j]) : OwesTarget(op'[c], j, a)
    BY <1>3, CommitOps
  <2>5. ASSUME NEW a \in Agents
        PROVE  TargetCurrent(j, a)'
    <3>1. CASE a \in TargetsOf(jobs'[j])
      BY <2>4, <3>1 DEF TargetCurrent
    <3>2. CASE a \notin TargetsOf(jobs'[j])
      <4>1. jobs'[j].tgt[a].st = "none" /\ store[j].tgt[a].st = "none"
        BY <2>3, <3>2 DEF TargetsOf
      <4>2. jobs'[j].tgt[a] = NoTarget /\ store[j].tgt[a] = NoTarget
        BY <2>2, <2>3, <4>1 DEF Tidy
      <4>3. RowTarget(NoTarget) = NoTarget
        BY RowTargetFacts DEF NoTarget, JobTarget
      <4> QED
        BY <1>1, <4>2, <4>3 DEF TargetCurrent
    <3> QED
      BY <3>1, <3>2
  <2>6. RowCurrent(j)'
    BY <2>4 DEF RowCurrent
  <2> QED
    BY <1>1, <2>1, <2>3, <2>5, <2>6 DEF ResidentOK
<1>4. CASE j \notin D
  <2>1. jobs'[j] = jobs[j]
    BY <1>4 DEF CommitsTo
  <2>2. ResidentOK(j)
    BY DEF StoreInv
  <2>3. ASSUME NEW d \in Callers
        PROVE  /\ OwesRow(op[d], j) => OwesRow(op'[d], j)
               /\ \A a : OwesTarget(op[d], j, a) => OwesTarget(op'[d], j, a)
    <3>1. CASE d = c
      BY <3>1 DEF CommitsTo, OwesRow, OwesTarget, Later
    <3>2. CASE d # c
      <4>1. op'[d] = Stale(op[d], D) /\ op[d] \in Op
        BY <3>2, CommitOps DEF TypeOK
      <4> QED
        BY <4>1, StaleOwes
    <3> QED
      BY <3>1, <3>2
  <2>4. RowCurrent(j) => RowCurrent(j)'
    BY <1>1, <2>1, <2>3 DEF RowCurrent, RetentionTook
  <2>5. \A a \in Agents : TargetCurrent(j, a) => TargetCurrent(j, a)'
    BY <1>1, <2>1, <2>3 DEF TargetCurrent
  <2> QED
    BY <1>1, <2>1, <2>2, <2>4, <2>5 DEF ResidentOK
<1> QED
  BY <1>3, <1>4

(***************************************************************************)
(* The commits of the mutators, and the publication of a new job.          *)
(***************************************************************************)
LEMMA CommitKeepsStore ==
    ASSUME TypeOK, TypeOK', IndexInv, StoreInv, Commit
    PROVE  StoreInv'
<1>1. PICK c \in Callers, D \in SUBSET JobIds, new \in [JobIds -> Job], clear \in BOOLEAN :
          /\ op[c].pc = "idle"
          /\ Rewrites(D, new)
          /\ commitJobs(c, D, new, now, clear)
          /\ UNCHANGED <<sequence, store, unsaved>>
  BY DEF Commit
<1>2. jobs' = new /\ Flush(c, D, new)
  BY <1>1 DEF commitJobs
<1>3. CommitsTo(c, D, {})
  BY <1>1, <1>2 DEF CommitsTo, Rewrites
<1>4. \A j \in JobIds : RowOK(j)'
  BY <1>1 DEF StoreInv, RowOK
<1>5. \A j \in JobIds : ResidentOK(j)'
  BY <1>3, CommitResidents
<1>6. \A d \in Callers : FlushOK(op[d])' /\ EnqueueOK(op[d])'
  BY <1>3, CommitSnaps, CommitEnqueues
<1> QED
  BY <1>4, <1>5, <1>6 DEF StoreInv

LEMMA PublishKeepsStore ==
    ASSUME TypeOK, TypeOK', IndexInv, StoreInv, NEW c \in Callers, EnqueuePublish(c)
    PROVE  StoreInv'
<1> DEFINE x == op[c].cur
           D == {i \in JobIds : supersededByNewer(i, x.id, x.job)}
           new == [j \in JobIds |->
                      IF j = x.id THEN x.job
                      ELSE IF j \in D
                        THEN expireCoveredTargets(jobs[j], TargetsOf(x.job), x.job.created)
                      ELSE jobs[j]]
<1>1. x.id \in JobIds /\ x.job \in Job /\ op[c].pc = "enqueue" /\ ~op[c].row /\ op[c].left = {}
  <2>1. op[c] \in Op /\ op[c].pc = "enqueue" /\ ~op[c].row /\ op[c].left = {}
    BY DEF EnqueuePublish, TypeOK
  <2> QED
    BY <2>1, BusyType
<1>2. jobs' = new /\ Flush(c, D, new) /\ UNCHANGED <<sequence, store, unsaved>>
  BY DEF EnqueuePublish
<1>3. ASSUME NEW j \in D
      PROVE  /\ Present(jobs[j]) /\ j # x.id /\ ~Bare(jobs[j])
             /\ Present(new[j]) /\ SameTargets(jobs[j], new[j])
  <2>1. Present(jobs[j]) /\ j # x.id /\ ~Bare(jobs[j])
    BY DEF supersededByNewer, LiveStatus, Present, LiveTarget, Bare, TargetsOf
  <2> QED
    BY <2>1, CoveredRewrite DEF TypeOK
<1>4. \A j \in JobIds \ D : j \in {x.id} \/ new[j] = jobs[j]
  OBVIOUS
<1>5. new[x.id] = x.job
  BY <1>1
<1>6. EnqueueOK(op[c])
  BY DEF StoreInv
<1> HIDE DEF D, new
<1>7. \A d \in Callers : \A y \in Snaps(op[d]) : y.id \notin {x.id}
  BY <1>1, <1>6 DEF EnqueueOK
<1>8. D \in SUBSET JobIds
  BY DEF D
<1>9. CommitsTo(c, D, {x.id})
  BY <1>1, <1>2, <1>3, <1>4, <1>7 DEF CommitsTo
<1>10. \A j \in JobIds : RowOK(j)'
  BY <1>2 DEF StoreInv, RowOK
<1>11. \A d \in Callers : FlushOK(op[d])' /\ EnqueueOK(op[d])'
  BY <1>8, <1>9, CommitSnaps, CommitEnqueues
<1>12. \A j \in JobIds \ {x.id} : ResidentOK(j)'
  BY <1>8, <1>9, CommitResidents
<1>13. \A j \in JobIds : j = x.id => ResidentOK(j)'
  <2>1. jobs'[x.id] = x.job /\ store' = store
    BY <1>2, <1>5
  <2>2. /\ x.job.status = "queued" /\ Tidy(x.job) /\ SameRow(store[x.id], Row(x.job))
        /\ \A a \in Agents : store[x.id].tgt[a] = RowTarget(x.job.tgt[a])
    BY <1>1, <1>6 DEF EnqueueOK
  <2>3. store[x.id].status = "queued"
    BY <1>1, <2>2, RowFacts DEF SameRow
  <2>4. TargetsOf(store[x.id]) = TargetsOf(x.job)
    <3>1. \A a \in Agents : x.job.tgt[a] \in JobTarget
      BY <1>1 DEF Job
    <3>2. \A a \in Agents : store[x.id].tgt[a].st = x.job.tgt[a].st
      BY <2>2, <3>1, RowTargetFacts
    <3> QED
      BY <3>2 DEF TargetsOf
  <2>5. ASSUME NEW j \in JobIds, j = x.id
        PROVE  ResidentOK(j)'
    <3>1. jobs'[j] = x.job /\ store'[j] = store[j]
      BY <2>1, <2>5
    <3>2. RowCurrent(j)'
      BY <2>2, <2>5, <3>1 DEF RowCurrent
    <3>3. ASSUME NEW a \in Agents
          PROVE  TargetCurrent(j, a)'
      BY <2>2, <2>5, <3>1, <3>3 DEF TargetCurrent
    <3> HIDE DEF x
    <3>4. Tidy(jobs[j])' /\ (TargetsOf(store[j]) = TargetsOf(jobs[j]))'
      <4>1. Tidy(jobs'[j])
        BY <2>2, <3>1
      <4>2. TargetsOf(store'[j]) = TargetsOf(jobs'[j])
        BY <2>4, <2>5, <3>1
      <4> QED
        BY <4>1, <4>2
    <3>5. Unfinished(store'[j])
      BY <2>3, <2>5, <3>1 DEF Unfinished, Present, isTerminalStatus
    <3> QED
      BY <3>2, <3>3, <3>4, <3>5 DEF ResidentOK
  <2> QED
    BY <1>1, <2>5
<1>14. \A j \in JobIds : ResidentOK(j)'
  BY <1>12, <1>13
<1> QED
  BY <1>10, <1>11, <1>14 DEF StoreInv

(***************************************************************************)
(* A writer that takes the snapshot of a goroutine one step further, and   *)
(* writes nothing: PersistCheck and PersistFails.  What caller c stops     *)
(* owing is current, or logged as lost.                                    *)
(***************************************************************************)
MovesOn(c) ==
    /\ UNCHANGED <<sequence, jobs, store>> /\ unsaved \subseteq unsaved'
    /\ op[c].pc # "idle" /\ op'[c].pc # "enqueue" /\ \A d \in Callers \ {c} : op'[d] = op[d]
    /\ \A x \in Snaps(op'[c]) : x \in Snaps(op[c]) \/ (x.id = op[c].cur.id /\ SnapOK(x))
    /\ op'[c].pc = "flush" => op'[c].left = TargetsOf(op'[c].cur.job)
    /\ op[c].pc = "flush" =>
           \A j \in JobIds :
               \/ Present(jobs[j]) => j \in unsaved'
               \/ /\ OwesRow(op[c], j) => OwesRow(op'[c], j)
                  /\ \A a \in Agents : OwesTarget(op[c], j, a) => TargetCurrent(j, a)'
    /\ op[c].pc = "enqueue" => Snaps(op'[c]) = {}

LEMMA MovesOnKeepsStore ==
    ASSUME TypeOK, TypeOK', IndexInv, StoreInv, NEW c \in Callers, MovesOn(c)
    PROVE  StoreInv'
<1>1. store' = store /\ jobs' = jobs /\ sequence' = sequence
  BY DEF MovesOn
<1>2. \A j \in JobIds : RowOK(j)'
  BY <1>1 DEF StoreInv, RowOK
<1>3. \A x : SnapOK(x) => SnapOK(x)'
  BY <1>1 DEF SnapOK
<1>4. \A d \in Callers : FlushOK(op[d])'
  <2>1. ASSUME NEW d \in Callers, op'[d].pc = "flush"
        PROVE  op'[d].left \subseteq TargetsOf(op'[d].cur.job) /\ \A x \in Snaps(op'[d]) : SnapOK(x)'
    <3>1. CASE d # c
      BY <1>3, <2>1, <3>1 DEF MovesOn, StoreInv, FlushOK
    <3>2. CASE d = c
      BY <1>3, <2>1, <3>2 DEF MovesOn, StoreInv, FlushOK, Snaps
    <3> QED
      BY <3>1, <3>2
  <2> QED
    BY <2>1 DEF FlushOK
<1>5. \A d \in Callers : EnqueueOK(op[d])'
  <2>1. SUFFICES ASSUME NEW d \in Callers, op'[d].pc = "enqueue"
                 PROVE  EnqueueOK(op[d])'
    BY DEF EnqueueOK
  <2>2. d # c /\ op'[d] = op[d] /\ EnqueueOK(op[d])
    BY <2>1 DEF MovesOn, StoreInv
  <2>3. ASSUME NEW e \in Callers, NEW y \in Snaps(op'[e])
        PROVE  y.id # op[d].cur.id
    <3>1. CASE e # c
      BY <2>1, <2>2, <2>3, <3>1 DEF MovesOn, EnqueueOK
    <3>2. CASE e = c
      <4>1. op[c].pc = "flush"
        BY <2>3, <3>2, BusyType DEF MovesOn, TypeOK
      <4>2. op[c].cur \in Snaps(op[c])
        BY <4>1 DEF Snaps
      <4>3. y \in Snaps(op[c]) \/ y.id = op[c].cur.id
        BY <2>3, <3>2 DEF MovesOn
      <4> QED
        BY <2>1, <2>2, <4>2, <4>3 DEF EnqueueOK
    <3> QED
      BY <3>1, <3>2
  <2> QED
    BY <1>1, <2>1, <2>2, <2>3 DEF EnqueueOK
<1>6. ASSUME NEW j \in JobIds, Present(jobs[j]), j \notin unsaved'
      PROVE  RowCurrent(j)' /\ \A a \in Agents : TargetCurrent(j, a)'
  <2>1. RowCurrent(j) /\ \A a \in Agents : TargetCurrent(j, a)
    BY <1>6 DEF MovesOn, StoreInv, ResidentOK
  <2>2. /\ OwesRow(op[c], j) => OwesRow(op'[c], j)
        /\ \A a \in Agents : OwesTarget(op[c], j, a) => TargetCurrent(j, a)'
    <3>1. CASE op[c].pc = "flush"
      BY <1>6, <3>1 DEF MovesOn
    <3>2. CASE op[c].pc # "flush"
      BY <3>2 DEF OwesRow, OwesTarget, Later
    <3> QED
      BY <3>1, <3>2
  <2>3. \A d \in Callers : OwesRow(op[d], j) => OwesRow(op'[d], j)
    BY <2>2 DEF MovesOn
  <2>4. \A d \in Callers, a \in Agents : OwesTarget(op[d], j, a) => TargetCurrent(j, a)'
    <3>1. ASSUME NEW d \in Callers \ {c}, NEW a \in Agents, OwesTarget(op[d], j, a)
          PROVE  TargetCurrent(j, a)'
      <4>1. OwesTarget(op'[d], j, a)
        BY <3>1 DEF MovesOn
      <4> QED
        BY <4>1 DEF TargetCurrent
    <3> QED
      BY <2>2, <3>1
  <2>5. RowCurrent(j)'
    BY <1>1, <2>1, <2>3 DEF RowCurrent, RetentionTook
  <2>6. ASSUME NEW a \in Agents
        PROVE  TargetCurrent(j, a)'
    <3>1. CASE store[j].tgt[a] = RowTarget(jobs[j].tgt[a])
      BY <1>1, <3>1 DEF TargetCurrent
    <3>2. CASE \E d \in Callers : OwesTarget(op[d], j, a)
      BY <2>4, <3>2
    <3> QED
      BY <2>1, <3>1, <3>2 DEF TargetCurrent
  <2> QED
    BY <2>5, <2>6
<1>7. \A j \in JobIds : ResidentOK(j)'
  BY <1>1, <1>6 DEF StoreInv, ResidentOK
<1> QED
  BY <1>2, <1>4, <1>5, <1>7 DEF StoreInv

(***************************************************************************)
(* Where the tables have no target, memory has none.                       *)
(***************************************************************************)
LEMMA NoTargetCurrent ==
    ASSUME TypeOK, StoreInv, NEW j \in JobIds, Present(jobs[j]), NEW a \in Agents,
           a \notin TargetsOf(store[j])
    PROVE  store[j].tgt[a] = RowTarget(jobs[j].tgt[a])
<1>1. Tidy(store[j]) /\ Tidy(jobs[j]) /\ TargetsOf(store[j]) = TargetsOf(jobs[j])
  BY DEF StoreInv, RowOK, ResidentOK
<1>2. store[j].tgt[a] = NoTarget /\ jobs[j].tgt[a] = NoTarget
  BY <1>1 DEF Tidy, TargetsOf
<1>3. RowTarget(NoTarget) = NoTarget
  BY RowTargetFacts DEF NoTarget, JobTarget
<1> QED
  BY <1>2, <1>3

LEMMA NextCandidateOwes ==
    ASSUME TypeOK, StoreInv, NEW c \in Callers, op[c].pc = "flush", NEW o \in StartNext(op[c].todo),
           NEW j \in JobIds, Later(op[c], j)
    PROVE  OwesRow(o, j) /\ \A a \in TargetsOf(store[j]) : OwesTarget(o, j, a)
<1>1. PICK x \in op[c].todo : x.id = j
  BY DEF Later
<1>2. TargetsOf(store[j]) = TargetsOf(x.job)
  BY <1>1 DEF StoreInv, FlushOK, Snaps, SnapOK
<1>3. op[c].todo \in SUBSET Candidate
  BY BusyType DEF TypeOK
<1> QED
  BY <1>1, <1>2, <1>3, StartNextOwes

(***************************************************************************)
(* Both outcomes of the version check, and a failed write.                 *)
(***************************************************************************)
LEMMA StartNextMovesOn ==
    ASSUME TypeOK, TypeOK', StoreInv, NEW c \in Callers, op[c].pc # "idle",
           NEW o \in StartNext(op[c].todo), op' = [op EXCEPT ![c] = o],
           UNCHANGED <<sequence, jobs, store>>, unsaved \subseteq unsaved',
           op[c].pc = "flush" /\ Present(jobs[op[c].cur.id]) =>
               \/ op[c].cur.id \in unsaved'
               \/ op[c].cur.latest /\ ~op[c].row /\ op[c].left = {}
    PROVE  MovesOn(c)
<1>1. op'[c] = o /\ \A d \in Callers \ {c} : op'[d] = op[d]
  BY DEF TypeOK
<1>2. op[c].todo \in SUBSET Candidate
  BY BusyType DEF TypeOK
<1>3. /\ o.pc # "enqueue" /\ Snaps(o) = op[c].todo
      /\ o.pc = "flush" => o.left = TargetsOf(o.cur.job)
  BY <1>2, StartNextOwes
<1>4. op[c].pc = "enqueue" => Snaps(o) = {}
  BY <1>3 DEF StoreInv, EnqueueOK
<1>5. op[c].pc = "flush" => Snaps(o) \subseteq Snaps(op[c])
  BY <1>3 DEF Snaps
<1>6. op[c].pc \in {"enqueue", "flush"}
  BY BusyType DEF TypeOK
<1>7. ASSUME op[c].pc = "flush", NEW j \in JobIds, Present(jobs[j]), j \notin unsaved'
      PROVE  /\ OwesRow(op[c], j) => OwesRow(o, j)
             /\ \A a \in Agents : OwesTarget(op[c], j, a) => TargetCurrent(j, a)'
  <2>1. CASE ~Later(op[c], j)
    BY <1>7, <2>1 DEF OwesRow, OwesTarget
  <2>2. CASE Later(op[c], j)
    <3>1. OwesRow(o, j) /\ \A a \in TargetsOf(store[j]) : OwesTarget(o, j, a)
      BY <1>7, <2>2, NextCandidateOwes
    <3>2. \A a \in Agents \ TargetsOf(store[j]) : store[j].tgt[a] = RowTarget(jobs[j].tgt[a])
      BY <1>7, NoTargetCurrent
    <3>3. ASSUME NEW a \in Agents
          PROVE  TargetCurrent(j, a)'
      BY <1>1, <3>1, <3>2 DEF TargetCurrent
    <3> QED
      BY <3>1, <3>3
  <2> QED
    BY <2>1, <2>2
<1>8. op[c].pc = "flush" =>
          \A j \in JobIds :
              \/ Present(jobs[j]) => j \in unsaved'
              \/ /\ OwesRow(op[c], j) => OwesRow(op'[c], j)
                 /\ \A a \in Agents : OwesTarget(op[c], j, a) => TargetCurrent(j, a)'
  BY <1>1, <1>7
<1>9. \A z \in Snaps(op'[c]) : z \in Snaps(op[c])
  BY <1>1, <1>4, <1>5, <1>6
<1>10. /\ op'[c].pc # "enqueue"
       /\ op'[c].pc = "flush" => op'[c].left = TargetsOf(op'[c].cur.job)
       /\ op[c].pc = "enqueue" => Snaps(op'[c]) = {}
  BY <1>1, <1>3, <1>4
<1>11. \A z \in Snaps(op'[c]) : z \in Snaps(op[c]) \/ (z.id = op[c].cur.id /\ SnapOK(z))
  BY <1>9
<1> QED
  BY <1>1, <1>8, <1>10, <1>11, Zenon DEF MovesOn

LEMMA RestartMovesOn ==
    ASSUME TypeOK, TypeOK', IndexInv, StoreInv, NEW c \in Callers, op[c].pc = "flush",
           NEW x, x = op[c].cur, Present(jobs[x.id]), ~x.latest, ~op[c].row, op[c].left = {},
           op' = [op EXCEPT ![c] = Writing("flush", [id |-> x.id, job |-> jobs[x.id],
                                                     latest |-> TRUE], op[c].todo)],
           UNCHANGED <<sequence, jobs, store, unsaved>>
    PROVE  MovesOn(c)
<1> DEFINE y == [id |-> x.id, job |-> jobs[x.id], latest |-> TRUE]
           o == Writing("flush", y, op[c].todo)
<1>1. op'[c] = o /\ \A d \in Callers \ {c} : op'[d] = op[d]
  BY DEF TypeOK
<1>2. /\ o.pc = "flush" /\ o.cur = y /\ o.row /\ o.left = TargetsOf(jobs[x.id]) /\ o.todo = op[c].todo
      /\ y.id = x.id /\ y.job = jobs[x.id]
  BY DEF Writing
<1> HIDE DEF y, o
<1>3. x.id \in JobIds
  BY BusyType DEF TypeOK
<1>4. Snaps(o) = {y} \cup op[c].todo /\ op[c].todo \subseteq Snaps(op[c])
  BY <1>2 DEF Snaps
<1>5. SnapOK(y)
  <2>1. x.id <= sequence /\ Tidy(jobs[x.id]) /\ TargetsOf(store[x.id]) = TargetsOf(jobs[x.id])
    BY <1>3 DEF IndexInv, NumbersDrawn, StoreInv, ResidentOK
  <2> QED
    BY <1>2, <2>1 DEF SnapOK
<1>6. ASSUME NEW j \in JobIds, Present(jobs[j])
      PROVE  /\ OwesRow(op[c], j) => OwesRow(o, j)
             /\ \A a \in Agents : OwesTarget(op[c], j, a) => TargetCurrent(j, a)'
  <2>1. Later(op[c], j) => Later(o, j)
    BY <1>2 DEF Later
  <2>2. OwesRow(op[c], j) => OwesRow(o, j)
    BY <1>2, <2>1 DEF OwesRow
  <2>3. ASSUME NEW a \in Agents, OwesTarget(op[c], j, a)
        PROVE  TargetCurrent(j, a)'
    <3>1. CASE Later(op[c], j)
      <4>1. OwesTarget(op'[c], j, a)
        BY <1>1, <2>1, <3>1 DEF OwesTarget
      <4> QED
        BY <4>1 DEF TargetCurrent
    <3>2. CASE ~Later(op[c], j)
      <4>1. j = x.id
        BY <2>3, <3>2 DEF OwesTarget
      <4>2. CASE a \in TargetsOf(jobs[j])
        <5>1. OwesTarget(op'[c], j, a)
          BY <1>1, <1>2, <4>1, <4>2 DEF OwesTarget
        <5> QED
          BY <5>1 DEF TargetCurrent
      <4>3. CASE a \notin TargetsOf(jobs[j])
        <5>1. a \notin TargetsOf(store[j])
          BY <1>6, <4>3 DEF StoreInv, ResidentOK
        <5>2. store[j].tgt[a] = RowTarget(jobs[j].tgt[a])
          BY <1>6, <5>1, NoTargetCurrent
        <5> QED
          BY <5>2 DEF TargetCurrent
      <4> QED
        BY <4>2, <4>3
    <3> QED
      BY <3>1, <3>2
  <2> QED
    BY <2>2, <2>3
<1>7. ASSUME NEW z \in Snaps(o)
      PROVE  z \in Snaps(op[c]) \/ (z.id = op[c].cur.id /\ SnapOK(z))
  <2>1. z = y \/ z \in Snaps(op[c])
    BY <1>4
  <2> QED
    BY <1>2, <1>5, <2>1
<1>8. op'[c].pc = "flush" /\ op'[c].left = TargetsOf(op'[c].cur.job)
  BY <1>1, <1>2
<1>9. \A j \in JobIds :
          \/ Present(jobs[j]) => j \in unsaved'
          \/ /\ OwesRow(op[c], j) => OwesRow(op'[c], j)
             /\ \A a \in Agents : OwesTarget(op[c], j, a) => TargetCurrent(j, a)'
  BY <1>1, <1>6
<1>10. \A z \in Snaps(op'[c]) : z \in Snaps(op[c]) \/ (z.id = op[c].cur.id /\ SnapOK(z))
  BY <1>1, <1>7
<1>11. UNCHANGED <<sequence, jobs, store>> /\ unsaved \subseteq unsaved'
  OBVIOUS
<1>12. op[c].pc # "idle" /\ op[c].pc # "enqueue" /\ op'[c].pc # "enqueue"
  BY <1>8
<1> QED
  BY <1>1, <1>8, <1>9, <1>10, <1>11, <1>12, Zenon DEF MovesOn

LEMMA PersistCheckKeepsStore ==
    ASSUME TypeOK, TypeOK', IndexInv, StoreInv, NEW c \in Callers, PersistCheck(c)
    PROVE  StoreInv'
<1> DEFINE x == op[c].cur
<1>1. /\ op[c].pc = "flush" /\ ~op[c].row /\ op[c].left = {}
      /\ UNCHANGED <<sequence, jobs, store, unsaved>>
  BY DEF PersistCheck, memory, history
<1>2. CASE /\ ~Present(jobs[x.id]) \/ x.latest
           /\ \E o \in StartNext(op[c].todo) : op' = [op EXCEPT ![c] = o]
  BY <1>1, <1>2, StartNextMovesOn, MovesOnKeepsStore
<1>3. CASE /\ Present(jobs[x.id]) /\ ~x.latest
           /\ op' = [op EXCEPT ![c] = Writing("flush", [id |-> x.id, job |-> jobs[x.id],
                                                        latest |-> TRUE], op[c].todo)]
  <2>1. MovesOn(c)
    BY <1>1, <1>3, RestartMovesOn
  <2> QED
    BY <2>1, MovesOnKeepsStore
<1> QED
  BY <1>2, <1>3 DEF PersistCheck

LEMMA PersistFailsKeepsStore ==
    ASSUME TypeOK, TypeOK', IndexInv, StoreInv, NEW c \in Callers, PersistFails(c)
    PROVE  StoreInv'
<1>1. op[c].pc # "idle"
  <2>1. op[c].row \/ op[c].left # {}
    BY DEF PersistFails
  <2> QED
    BY <2>1 DEF TypeOK, Op, Idle
<1>2. PICK o \in StartNext(op[c].todo) : op' = [op EXCEPT ![c] = o]
  BY DEF PersistFails
<1>3. /\ UNCHANGED <<sequence, jobs, store>> /\ unsaved \subseteq unsaved'
      /\ op[c].pc = "flush" => op[c].cur.id \in unsaved'
  BY DEF PersistFails
<1>4. MovesOn(c)
  BY <1>1, <1>2, <1>3, StartNextMovesOn
<1> QED
  BY <1>4, MovesOnKeepsStore

(***************************************************************************)
(* A write by caller c to the rows of its current candidate concerns       *)
(* nobody else.                                                            *)
(***************************************************************************)
Puts(c) ==
    /\ UNCHANGED <<sequence, jobs, unsaved>>
    /\ op[c].pc # "idle" /\ op'[c].pc = op[c].pc /\ op'[c].cur = op[c].cur /\ op'[c].todo = op[c].todo
    /\ op'[c].left \subseteq op[c].left
    /\ \A d \in Callers \ {c} : op'[d] = op[d]
    /\ \A j \in JobIds \ {op[c].cur.id} : store'[j] = store[j]
    /\ op[c].pc = "flush" => TargetsOf(store'[op[c].cur.id]) = TargetsOf(store[op[c].cur.id])

LEMMA PutsOthers ==
    ASSUME TypeOK, TypeOK', IndexInv, StoreInv, NEW c \in Callers, Puts(c)
    PROVE  /\ \A d \in Callers : Snaps(op'[d]) = Snaps(op[d]) /\ FlushOK(op[d])'
           /\ \A d \in Callers \ {c} : EnqueueOK(op[d])'
           /\ \A j \in JobIds \ {op[c].cur.id} : RowOK(j)' /\ ResidentOK(j)'
<1>1. UNCHANGED <<sequence, jobs, unsaved>> /\ op[c].cur.id \in JobIds /\ op[c].pc \in {"enqueue", "flush"}
  BY BusyType DEF Puts, TypeOK
<1>2. \A d \in Callers : op'[d].pc = op[d].pc /\ op'[d].cur = op[d].cur /\ op'[d].todo = op[d].todo
                         /\ op'[d].left \subseteq op[d].left
  BY DEF Puts
<1>3. \A d \in Callers : Snaps(op'[d]) = Snaps(op[d])
  BY <1>2 DEF Snaps
<1>4. ASSUME NEW d \in Callers, NEW y \in Snaps(op[d])
      PROVE  SnapOK(y)'
  <2>1. SnapOK(y) /\ y.id \in JobIds
    BY <1>4, SnapsType DEF StoreInv, FlushOK, Snaps, TypeOK
  <2>2. CASE y.id # op[c].cur.id
    <3>1. store'[y.id] = store[y.id]
      BY <2>1, <2>2 DEF Puts
    <3> QED
      BY <1>1, <2>1, <3>1 DEF SnapOK
  <2>3. CASE y.id = op[c].cur.id
    <3>1. op[c].pc = "flush"
      BY <1>1, <1>4, <2>3 DEF StoreInv, EnqueueOK
    <3>2. TargetsOf(store'[y.id]) = TargetsOf(store[y.id])
      BY <2>3, <3>1 DEF Puts
    <3> QED
      BY <1>1, <2>1, <3>2 DEF SnapOK
  <2> QED
    BY <2>2, <2>3
<1>5. ASSUME NEW d \in Callers
      PROVE  FlushOK(op[d])'
  <2>1. FlushOK(op[d])
    BY DEF StoreInv
  <2>2. op'[d].pc = "flush" => op'[d].left \subseteq TargetsOf(op'[d].cur.job)
    BY <1>2, <2>1 DEF FlushOK
  <2>3. \A y \in Snaps(op'[d]) : SnapOK(y)'
    BY <1>3, <1>4
  <2> QED
    BY <2>2, <2>3 DEF FlushOK
<1>6. ASSUME NEW d \in Callers \ {c}
      PROVE  EnqueueOK(op[d])'
  <2>1. SUFFICES ASSUME op[d].pc = "enqueue"
                 PROVE  EnqueueOK(op[d])'
    BY <1>2 DEF EnqueueOK
  <2>2. op'[d] = op[d] /\ EnqueueOK(op[d]) /\ op[d].cur.id \in JobIds
    BY <2>1, BusyType DEF Puts, StoreInv, TypeOK
  <2>3. op[d].cur.id # op[c].cur.id
    <3>1. CASE op[c].pc = "enqueue"
      BY <1>6, <2>1, <3>1 DEF IndexInv, EnqueueFresh
    <3>2. CASE op[c].pc = "flush"
      <4>1. op[c].cur \in Snaps(op[c])
        BY <3>2 DEF Snaps
      <4> QED
        BY <2>1, <2>2, <4>1 DEF EnqueueOK
    <3> QED
      BY <1>1, <3>1, <3>2
  <2>4. store'[op[d].cur.id] = store[op[d].cur.id]
    BY <2>2, <2>3 DEF Puts
  <2> QED
    BY <1>3, <2>1, <2>2, <2>4 DEF EnqueueOK
<1>7. ASSUME NEW j \in JobIds \ {op[c].cur.id}
      PROVE  RowOK(j)' /\ ResidentOK(j)'
  <2>1. store'[j] = store[j] /\ jobs'[j] = jobs[j] /\ unsaved' = unsaved
    BY <1>1 DEF Puts
  <2>2. \A d \in Callers : OwesRow(op[d], j) => OwesRow(op'[d], j)
    BY DEF Puts, OwesRow, Later
  <2>3. \A d \in Callers, a \in Agents : OwesTarget(op[d], j, a) => OwesTarget(op'[d], j, a)
    BY DEF Puts, OwesTarget, Later
  <2>4. RowCurrent(j) => RowCurrent(j)'
    BY <2>1, <2>2 DEF RowCurrent, RetentionTook
  <2>5. ASSUME NEW a \in Agents, TargetCurrent(j, a)
        PROVE  TargetCurrent(j, a)'
    BY <2>1, <2>3, <2>5 DEF TargetCurrent
  <2>6. ResidentOK(j) /\ RowOK(j)
    BY DEF StoreInv
  <2>7. RowOK(j)'
    BY <1>1, <2>1, <2>6 DEF RowOK
  <2>8. ResidentOK(j)'
    BY <2>1, <2>4, <2>5, <2>6 DEF ResidentOK
  <2> QED
    BY <2>7, <2>8
<1> QED
  BY <1>3, <1>5, <1>6, <1>7

LEMMA PutJobKeepsStore ==
    ASSUME TypeOK, TypeOK', IndexInv, StoreInv, NEW c \in Callers, PutJob(c)
    PROVE  StoreInv'
<1> DEFINE x == op[c].cur
           r == [Row(x.job) EXCEPT !.tgt = store[x.id].tgt]
<1>1. /\ op[c].pc # "idle" /\ op[c].row /\ op[c] \in Op /\ op[c] # Idle
      /\ x.id \in JobIds /\ x.job \in Job /\ store[x.id] \in Job
  BY BusyType DEF PutJob, TypeOK
<1>2. /\ store' = [store EXCEPT ![x.id] = r] /\ op' = [op EXCEPT ![c].row = FALSE]
      /\ UNCHANGED <<sequence, jobs, unsaved>>
  BY DEF PutJob, memory, history
<1>3. Row(x.job) \in Job
  BY <1>1, RowFacts
<1>4. r \in Job /\ r.tgt = store[x.id].tgt /\ SameRow(r, Row(x.job))
  BY <1>1, <1>3 DEF Job, SameRow
<1>5. store'[x.id] = r /\ \A j \in JobIds \ {x.id} : store'[j] = store[j]
  BY <1>1, <1>2 DEF TypeOK
<1>6. /\ op'[c].pc = op[c].pc /\ op'[c].cur = op[c].cur /\ op'[c].todo = op[c].todo
      /\ op'[c].left = op[c].left /\ ~op'[c].row /\ \A d \in Callers \ {c} : op'[d] = op[d]
  <2>1. op'[c] = [op[c] EXCEPT !.row = FALSE] /\ \A d \in Callers \ {c} : op'[d] = op[d]
    BY <1>2 DEF TypeOK
  <2> QED
    BY <1>1, <2>1 DEF Op
<1> HIDE DEF r
<1>7. TargetsOf(r) = TargetsOf(store[x.id])
  BY <1>4 DEF TargetsOf
<1>8. Puts(c)
  BY <1>1, <1>2, <1>5, <1>6, <1>7 DEF Puts
<1>9. Present(x.job) /\ Present(r)
  <2>1. Present(x.job)
    <3>1. CASE op[c].pc = "enqueue"
      BY <3>1 DEF IndexInv, EnqueueFresh
    <3>2. CASE op[c].pc = "flush"
      BY <3>2 DEF StoreInv, FlushOK, Snaps, SnapOK
    <3> QED
      BY <1>1, <3>1, <3>2, BusyType
  <2>2. r.status = x.job.status
    BY <1>1, <1>4, RowFacts DEF SameRow
  <2> QED
    BY <2>1, <2>2 DEF Present
<1>10. x.id <= sequence
  <2>1. CASE op[c].pc = "enqueue"
    BY <2>1 DEF IndexInv, EnqueueFresh
  <2>2. CASE op[c].pc = "flush"
    BY <2>2 DEF StoreInv, FlushOK, Snaps, SnapOK
  <2> QED
    BY <1>1, <2>1, <2>2, BusyType
<1>11. Row(r) = r /\ Tidy(r)
  <2>1. Row(store[x.id]) = store[x.id] /\ Tidy(store[x.id])
    BY <1>1 DEF StoreInv, RowOK
  <2>2. \A a \in Agents : RowTarget(r.tgt[a]) = r.tgt[a]
    BY <1>1, <1>4, <2>1, RowWhole
  <2>3. toUnix(r.created) = r.created
    <3>1. r.created = toUnix(x.job.created) /\ x.job.created \in Nat
      BY <1>1, <1>4, RowFacts DEF SameRow, Job
    <3> QED
      BY <3>1, RoundTwice
  <2>4. Tidy(r)
    BY <1>4, <2>1 DEF Tidy
  <2> QED
    BY <1>4, <2>2, <2>3, <2>4, RowWhole
<1>12. \A j \in JobIds : RowOK(j)'
  <2>1. ASSUME NEW j \in JobIds, j = x.id
        PROVE  RowOK(j)'
    <3>1. store'[j] = r /\ sequence' = sequence
      BY <1>2, <1>5, <2>1
    <3> QED
      BY <1>9, <1>10, <1>11, <2>1, <3>1 DEF RowOK
  <2> QED
    BY <1>8, <2>1, PutsOthers
<1>13. EnqueueOK(op[c])'
  <2>1. SUFFICES ASSUME op[c].pc = "enqueue"
                 PROVE  EnqueueOK(op[c])'
    BY <1>6 DEF EnqueueOK
  <2>2. EnqueueOK(op[c])
    BY DEF StoreInv
  <2>3. \A a \in Agents \ op[c].left : r.tgt[a] = RowTarget(x.job.tgt[a])
    BY <1>4, <2>1, <2>2 DEF EnqueueOK
  <2>4. \A d \in Callers : Snaps(op'[d]) = Snaps(op[d])
    BY <1>8, PutsOthers
  <2> QED
    BY <1>4, <1>5, <1>6, <2>1, <2>2, <2>3, <2>4 DEF EnqueueOK
<1>14. ASSUME NEW j \in JobIds, j = x.id, Present(jobs[j])
       PROVE  ResidentOK(j)'
  <2>1. store'[j] = r /\ jobs'[j] = jobs[j] /\ unsaved' = unsaved
    BY <1>2, <1>5, <1>14
  <2>2. op[c].pc = "flush" /\ SnapOK(x)
    <3>1. op[c].pc = "flush"
      BY <1>1, <1>14, BusyType DEF IndexInv, EnqueueFresh
    <3> QED
      BY <3>1 DEF StoreInv, FlushOK, Snaps
  <2>3. ResidentOK(j)
    BY DEF StoreInv
  <2>4. TargetsOf(r) = TargetsOf(jobs[j]) /\ TargetsOf(r) = TargetsOf(x.job) /\ Tidy(jobs[j])
    BY <1>7, <1>14, <2>2, <2>3 DEF ResidentOK, SnapOK
  <2>5. Bare(jobs[j]) => isTerminalStatus(jobs[j].status) \/ Unfinished(r)
    <3>1. Bare(jobs[j]) => Bare(x.job)
      BY <2>4 DEF Bare, TargetsOf
    <3>2. r.status = x.job.status
      BY <1>1, <1>4, RowFacts DEF SameRow
    <3> QED
      BY <1>9, <1>14, <2>2, <3>1, <3>2 DEF SnapOK, Unfinished
  <2>6. RowCurrent(j)'
    <3>1. CASE x.latest
      <4>1. x.job = jobs[j]
        BY <1>14, <2>2, <3>1 DEF SnapOK
      <4>2. SameRow(store'[j], Row(jobs'[j]))
        BY <1>4, <2>1, <4>1
      <4> QED
        BY <4>2 DEF RowCurrent
    <3>2. CASE ~x.latest
      <4>1. OwesRow(op'[c], j)
        BY <1>6, <1>14, <2>2, <3>2 DEF OwesRow
      <4> QED
        BY <4>1 DEF RowCurrent
    <3> QED
      BY <3>1, <3>2
  <2>7. ASSUME NEW a \in Agents, TargetCurrent(j, a)
        PROVE  TargetCurrent(j, a)'
    <3>1. store'[j].tgt[a] = store[j].tgt[a]
      BY <1>4, <1>14, <2>1
    <3>2. \A d \in Callers : OwesTarget(op[d], j, a) => OwesTarget(op'[d], j, a)
      <4>1. OwesTarget(op[c], j, a) => OwesTarget(op'[c], j, a)
        BY <1>6 DEF OwesTarget, Later
      <4> QED
        BY <1>6, <4>1
    <3> QED
      BY <2>1, <2>7, <3>1, <3>2 DEF TargetCurrent
  <2> QED
    BY <1>14, <2>1, <2>3, <2>4, <2>5, <2>6, <2>7 DEF ResidentOK
<1>15. \A j \in JobIds : ResidentOK(j)'
  <2>1. ASSUME NEW j \in JobIds, j = x.id
        PROVE  ResidentOK(j)'
    BY <1>2, <1>14, <2>1 DEF ResidentOK
  <2> QED
    BY <1>8, <2>1, PutsOthers
<1>16. \A d \in Callers : FlushOK(op[d])' /\ EnqueueOK(op[d])'
  BY <1>8, <1>13, PutsOthers
<1> QED
  BY <1>12, <1>15, <1>16 DEF StoreInv

LEMMA PutJobTargetKeepsStore ==
    ASSUME TypeOK, TypeOK', IndexInv, StoreInv, NEW c \in Callers, NEW a \in Agents, PutJobTarget(c, a)
    PROVE  StoreInv'
<1> DEFINE x == op[c].cur
           t == RowTarget(x.job.tgt[a])
           r == [store[x.id] EXCEPT !.tgt = [@ EXCEPT ![a] = t]]
<1>1. a \in op[c].left /\ ~op[c].row /\ op[c] \in Op /\ op[c] # Idle /\ op[c].pc # "idle"
  <2>1. a \in op[c].left /\ ~op[c].row /\ op[c] \in Op
    BY DEF PutJobTarget, TypeOK
  <2>2. op[c] # Idle
    BY <2>1 DEF Idle
  <2> QED
    BY <2>1, <2>2 DEF Op
<1>2. x.id \in JobIds /\ x.job \in Job /\ store[x.id] \in Job /\ op[c].pc \in {"enqueue", "flush"}
  BY <1>1, BusyType DEF TypeOK
<1>3. /\ store' = [store EXCEPT ![x.id].tgt[a] = t] /\ op' = [op EXCEPT ![c].left = @ \ {a}]
      /\ UNCHANGED <<sequence, jobs, unsaved>>
  BY DEF PutJobTarget, memory, history
<1>4. x.job.tgt[a] \in JobTarget
  BY <1>2 DEF Job
<1>5. t \in JobTarget /\ t.st = x.job.tgt[a].st /\ RowTarget(t) = t
  BY <1>4, RowTargetFacts, RowTargetType
<1> HIDE DEF t
<1>6. store'[x.id] = r /\ \A j \in JobIds \ {x.id} : store'[j] = store[j]
  BY <1>2, <1>3 DEF TypeOK
<1>7. /\ r \in Job /\ SameRow(r, store[x.id]) /\ r.tgt[a] = t
      /\ \A b \in Agents \ {a} : r.tgt[b] = store[x.id].tgt[b]
  BY <1>2, <1>5 DEF Job, SameRow
<1>8. /\ op'[c].pc = op[c].pc /\ op'[c].cur = op[c].cur /\ op'[c].todo = op[c].todo
      /\ op'[c].left = op[c].left \ {a} /\ ~op'[c].row /\ \A d \in Callers \ {c} : op'[d] = op[d]
  <2>1. op'[c] = [op[c] EXCEPT !.left = op[c].left \ {a}] /\ \A d \in Callers \ {c} : op'[d] = op[d]
    BY <1>3 DEF TypeOK
  <2> QED
    BY <1>1, <2>1 DEF Op
<1> HIDE DEF r
<1>9. t.st # "none"
  <2>1. a \in TargetsOf(x.job)
    BY <1>1, <1>2 DEF StoreInv, FlushOK, EnqueueOK
  <2> QED
    BY <1>5, <2>1 DEF TargetsOf
<1>10. ASSUME op[c].pc = "flush"
       PROVE  SnapOK(x) /\ TargetsOf(r) = TargetsOf(store[x.id])
  <2>1. SnapOK(x)
    BY <1>10 DEF StoreInv, FlushOK, Snaps
  <2>2. a \in TargetsOf(store[x.id])
    <3>1. a \in TargetsOf(x.job)
      BY <1>5, <1>9 DEF TargetsOf
    <3> QED
      BY <2>1, <3>1 DEF SnapOK
  <2> QED
    BY <1>7, <1>9, <2>1, <2>2 DEF TargetsOf
<1>11. Puts(c)
  BY <1>1, <1>3, <1>6, <1>8, <1>10 DEF Puts
<1>12. Present(store[x.id]) /\ store[x.id] # Absent
  <2>1. CASE op[c].pc = "enqueue"
    <3>1. SameRow(store[x.id], Row(x.job)) /\ x.job.status = "queued"
      BY <1>1, <2>1 DEF StoreInv, EnqueueOK
    <3>2. store[x.id].status = "queued"
      BY <1>2, <3>1, RowFacts DEF SameRow
    <3> QED
      BY <3>2 DEF Present, Absent
  <2>2. CASE op[c].pc = "flush"
    <3>1. a \in TargetsOf(store[x.id])
      BY <1>5, <1>9, <1>10, <2>2 DEF SnapOK, TargetsOf
    <3>2. store[x.id] # Absent
      BY <3>1, AbsentRow
    <3> QED
      BY <1>2, <3>2 DEF StoreInv, RowOK
  <2> QED
    BY <1>2, <2>1, <2>2
<1>13. Present(r)
  BY <1>7, <1>12 DEF SameRow, Present
<1>14. Row(r) = r /\ Tidy(r) /\ x.id <= sequence
  <2>1. Row(store[x.id]) = store[x.id] /\ Tidy(store[x.id]) /\ x.id <= sequence
    BY <1>2, <1>12 DEF StoreInv, RowOK
  <2>2. \A b \in Agents : RowTarget(r.tgt[b]) = r.tgt[b]
    BY <1>2, <1>5, <1>7, <2>1, RowWhole
  <2>3. toUnix(r.created) = r.created
    BY <1>2, <1>7, <2>1, RowWhole DEF SameRow
  <2>4. Tidy(r)
    BY <1>7, <1>9, <2>1 DEF Tidy
  <2> QED
    BY <1>7, <2>1, <2>2, <2>3, <2>4, RowWhole
<1>15. \A j \in JobIds : RowOK(j)'
  <2>1. ASSUME NEW j \in JobIds, j = x.id
        PROVE  RowOK(j)'
    <3>1. store'[j] = r /\ sequence' = sequence
      BY <1>3, <1>6, <2>1
    <3> QED
      BY <1>13, <1>14, <2>1, <3>1 DEF RowOK
  <2> QED
    BY <1>11, <2>1, PutsOthers
<1>16. EnqueueOK(op[c])'
  <2>1. SUFFICES ASSUME op[c].pc = "enqueue"
                 PROVE  EnqueueOK(op[c])'
    BY <1>8 DEF EnqueueOK
  <2>2. EnqueueOK(op[c])
    BY DEF StoreInv
  <2>3. \A b \in Agents \ op'[c].left : r.tgt[b] = RowTarget(x.job.tgt[b])
    BY <1>7, <1>8, <2>1, <2>2 DEF EnqueueOK, t
  <2>4. \A d \in Callers : Snaps(op'[d]) = Snaps(op[d])
    BY <1>11, PutsOthers
  <2>5. SameRow(r, Row(x.job))
    BY <1>1, <1>7, <2>1, <2>2 DEF EnqueueOK, SameRow
  <2> QED
    BY <1>6, <1>8, <2>1, <2>2, <2>3, <2>4, <2>5 DEF EnqueueOK
<1>17. ASSUME NEW j \in JobIds, j = x.id, Present(jobs[j])
       PROVE  ResidentOK(j)'
  <2>1. store'[j] = r /\ jobs'[j] = jobs[j] /\ unsaved' = unsaved
    BY <1>3, <1>6, <1>17
  <2>2. op[c].pc = "flush" /\ SnapOK(x) /\ TargetsOf(r) = TargetsOf(store[j])
    <3>1. op[c].pc = "flush"
      BY <1>2, <1>17 DEF IndexInv, EnqueueFresh
    <3> QED
      BY <1>10, <1>17, <3>1
  <2>3. ResidentOK(j)
    BY DEF StoreInv
  <2>4. TargetsOf(r) = TargetsOf(jobs[j]) /\ Tidy(jobs[j])
    BY <1>17, <2>2, <2>3 DEF ResidentOK
  <2>5. Bare(jobs[j]) => isTerminalStatus(jobs[j].status) \/ Unfinished(r)
    <3>1. r.status = store[j].status
      BY <1>7, <1>17 DEF SameRow
    <3> QED
      BY <1>13, <1>17, <2>3, <3>1 DEF ResidentOK, Unfinished
  <2>6. RowCurrent(j) => RowCurrent(j)'
    <3>1. \A d \in Callers : OwesRow(op[d], j) => OwesRow(op'[d], j)
      <4>1. OwesRow(op[c], j) => OwesRow(op'[c], j)
        BY <1>1, <1>8 DEF OwesRow, Later
      <4> QED
        BY <1>8, <4>1
    <3>2. ~RetentionTook(j)
      BY <1>12, <1>17 DEF RetentionTook
    <3>3. SameRow(store[j], Row(jobs[j])) => SameRow(store'[j], Row(jobs'[j]))
      BY <1>7, <1>17, <2>1 DEF SameRow
    <3> QED
      BY <3>1, <3>2, <3>3 DEF RowCurrent
  <2>7. ASSUME NEW b \in Agents, TargetCurrent(j, b)
        PROVE  TargetCurrent(j, b)'
    <3>1. CASE b = a /\ x.latest
      <4>1. x.job = jobs[j]
        BY <1>17, <2>2, <3>1 DEF SnapOK
      <4>2. store'[j].tgt[b] = RowTarget(jobs'[j].tgt[b])
        BY <1>7, <2>1, <3>1, <4>1 DEF t
      <4> QED
        BY <4>2 DEF TargetCurrent
    <3>2. CASE b = a /\ ~x.latest
      <4>1. OwesTarget(op'[c], j, b)
        BY <1>8, <1>17, <2>2, <3>2 DEF OwesTarget
      <4> QED
        BY <4>1 DEF TargetCurrent
    <3>3. CASE b # a
      <4>1. store'[j].tgt[b] = store[j].tgt[b]
        BY <1>7, <1>17, <2>1, <3>3
      <4>2. \A d \in Callers : OwesTarget(op[d], j, b) => OwesTarget(op'[d], j, b)
        <5>1. OwesTarget(op[c], j, b) => OwesTarget(op'[c], j, b)
          BY <1>8, <3>3 DEF OwesTarget, Later
        <5> QED
          BY <1>8, <5>1
      <4> QED
        BY <2>1, <2>7, <4>1, <4>2 DEF TargetCurrent
    <3> QED
      BY <3>1, <3>2, <3>3
  <2> QED
    BY <1>17, <2>1, <2>3, <2>4, <2>5, <2>6, <2>7 DEF ResidentOK
<1>18. \A j \in JobIds : ResidentOK(j)'
  <2>1. ASSUME NEW j \in JobIds, j = x.id
        PROVE  ResidentOK(j)'
    BY <1>3, <1>17, <2>1 DEF ResidentOK
  <2> QED
    BY <1>11, <2>1, PutsOthers
<1>19. \A d \in Callers : FlushOK(op[d])' /\ EnqueueOK(op[d])'
  BY <1>11, <1>16, PutsOthers
<1> QED
  BY <1>15, <1>18, <1>19 DEF StoreInv

(***************************************************************************)
(* Retention takes no row that has targets, or whose Enqueue is under way. *)
(***************************************************************************)
LEMMA PruneRowsKeepsStore ==
    ASSUME TypeOK, TypeOK', IndexInv, StoreInv, PruneTerminalJobs
    PROVE  StoreInv'
<1>1. UNCHANGED <<sequence, jobs, op, unsaved>>
  BY DEF PruneTerminalJobs, memory
<1>2. \A j \in JobIds :
          \/ store'[j] = store[j]
          \/ /\ store'[j] = Absent /\ TargetsOf(store[j]) = {}
             /\ store[j].status \in {"succeeded", "failed", "expired"}
  <2> DEFINE D == PrunableRows(now - Retention)
  <2>1. store' = store \/ ((\A j \in D : TargetsOf(store[j]) = {})
                           /\ store' = [j \in JobIds |-> IF j \in D THEN Absent ELSE store[j]])
    BY DEF PruneTerminalJobs
  <2>2. \A j \in D : store[j].status \in {"succeeded", "failed", "expired"}
    BY DEF PrunableRows
  <2> HIDE DEF D
  <2> QED
    BY <2>1, <2>2
<1>3. \A j \in JobIds : TargetsOf(store'[j]) = TargetsOf(store[j])
  BY <1>2, AbsentRow
<1>4. \A j \in JobIds : RowOK(j)'
  BY <1>1, <1>2, AbsentRow DEF StoreInv, RowOK
<1>5. ASSUME NEW d \in Callers
      PROVE  FlushOK(op[d])'
  <2>1. ASSUME NEW y \in Snaps(op[d])
        PROVE  SnapOK(y)'
    <3>1. SnapOK(y) /\ y.id \in JobIds
      BY <2>1, SnapsType DEF StoreInv, FlushOK, Snaps, TypeOK
    <3> QED
      BY <1>1, <1>3, <3>1 DEF SnapOK
  <2>2. FlushOK(op[d]) /\ op'[d] = op[d]
    BY <1>1 DEF StoreInv
  <2>3. op'[d].pc = "flush" => op'[d].left \subseteq TargetsOf(op'[d].cur.job)
    BY <2>2 DEF FlushOK
  <2> QED
    BY <2>1, <2>2, <2>3 DEF FlushOK
<1>6. ASSUME NEW d \in Callers
      PROVE  EnqueueOK(op[d])'
  <2>1. SUFFICES ASSUME op[d].pc = "enqueue"
                 PROVE  EnqueueOK(op[d])'
    BY <1>1 DEF EnqueueOK
  <2>2. EnqueueOK(op[d]) /\ op[d].cur.id \in JobIds /\ op[d].cur.job \in Job
    BY <2>1, BusyType DEF StoreInv, TypeOK
  <2>3. store[op[d].cur.id].status \in {"queued", "absent"}
    <3>1. CASE op[d].row
      BY <2>1, <2>2, <3>1 DEF EnqueueOK, Absent
    <3>2. CASE ~op[d].row
      BY <2>1, <2>2, <3>2, RowFacts DEF EnqueueOK, SameRow
    <3> QED
      BY <3>1, <3>2
  <2>4. store'[op[d].cur.id] = store[op[d].cur.id]
    BY <1>2, <2>2, <2>3
  <2> QED
    BY <1>1, <2>1, <2>2, <2>4 DEF EnqueueOK
<1>7. ASSUME NEW j \in JobIds, Present(jobs[j])
      PROVE  ResidentOK(j)'
  <2>1. ResidentOK(j) /\ jobs'[j] = jobs[j] /\ op' = op /\ unsaved' = unsaved
    BY <1>1 DEF StoreInv
  <2>2. CASE store'[j] = store[j]
    BY <2>1, <2>2 DEF ResidentOK, RowCurrent, RetentionTook, TargetCurrent
  <2>3. CASE /\ store'[j] = Absent /\ TargetsOf(store[j]) = {}
             /\ store[j].status \in {"succeeded", "failed", "expired"}
    <3>1. Tidy(jobs[j]) /\ TargetsOf(jobs[j]) = {} /\ TargetsOf(store'[j]) = {}
      BY <1>7, <2>1, <2>3, AbsentRow DEF ResidentOK
    <3>2. isTerminalStatus(jobs[j].status)
      BY <1>7, <2>1, <2>3, <3>1 DEF ResidentOK, Bare, TargetsOf, Unfinished, isTerminalStatus
    <3>3. RowCurrent(j)'
      BY <2>1, <2>3, <3>2 DEF RowCurrent, RetentionTook
    <3>4. ASSUME NEW a \in Agents
          PROVE  TargetCurrent(j, a)'
      <4>1. jobs[j].tgt[a] = NoTarget /\ store'[j].tgt[a] = NoTarget
        BY <2>3, <3>1, AbsentRow DEF Tidy, TargetsOf
      <4>2. RowTarget(NoTarget) = NoTarget
        BY RowTargetFacts DEF NoTarget, JobTarget
      <4> QED
        BY <2>1, <4>1, <4>2 DEF TargetCurrent
    <3> QED
      BY <2>1, <3>1, <3>2, <3>3, <3>4 DEF ResidentOK
  <2> QED
    BY <1>2, <2>2, <2>3
<1>8. \A j \in JobIds : ResidentOK(j)'
  <2>1. ASSUME NEW j \in JobIds
        PROVE  ResidentOK(j)'
    BY <1>1, <1>7 DEF ResidentOK
  <2> QED
    BY <2>1
<1> QED
  BY <1>4, <1>5, <1>6, <1>8 DEF StoreInv

(***************************************************************************)
(* Eviction only removes jobs from memory; the other steps do not touch it *)
(* or the tables.                                                          *)
(***************************************************************************)
LEMMA EvictionKeepsStore ==
    ASSUME TypeOK, StoreInv, UNCHANGED <<sequence, op, store, unsaved>>,
           \A j \in JobIds : jobs'[j] = jobs[j] \/ ~Present(jobs'[j])
    PROVE  StoreInv'
<1>1. \A j \in JobIds : RowOK(j)'
  BY DEF StoreInv, RowOK
<1>2. ASSUME NEW j \in JobIds
      PROVE  ResidentOK(j)'
  <2>1. CASE ~Present(jobs'[j])
    BY <2>1 DEF ResidentOK
  <2>2. CASE jobs'[j] = jobs[j]
    <3>1. ResidentOK(j)
      BY DEF StoreInv
    <3> QED
      BY <2>2, <3>1 DEF ResidentOK, RowCurrent, RetentionTook, TargetCurrent
  <2> QED
    BY <2>1, <2>2
<1>3. ASSUME NEW d \in Callers
      PROVE  FlushOK(op[d])'
  <2>1. ASSUME NEW y \in Snaps(op[d])
        PROVE  SnapOK(y)'
    <3>1. SnapOK(y) /\ y.id \in JobIds
      BY <2>1, SnapsType DEF StoreInv, FlushOK, Snaps, TypeOK
    <3> QED
      BY <3>1 DEF SnapOK
  <2>2. FlushOK(op[d]) /\ op'[d] = op[d]
    BY DEF StoreInv
  <2>3. op'[d].pc = "flush" => op'[d].left \subseteq TargetsOf(op'[d].cur.job)
    BY <2>2 DEF FlushOK
  <2> QED
    BY <2>1, <2>2, <2>3 DEF FlushOK
<1>4. \A d \in Callers : EnqueueOK(op[d])'
  BY DEF StoreInv, EnqueueOK
<1> QED
  BY <1>1, <1>2, <1>3, <1>4 DEF StoreInv

(***************************************************************************)
(* A restore that is not truncated brings back exactly the rows.           *)
(***************************************************************************)
LEMMA AllRowsListed ==
    ASSUME TypeOK, ListLimit >= MaxJobs
    PROVE  ListedRows = Rows
<1>1. ASSUME NEW j \in Rows
      PROVE  Cardinality({i \in Rows : CreatedBefore(i, store[i], j, store[j])}) < ListLimit
  <2> DEFINE T == {i \in Rows : CreatedBefore(i, store[i], j, store[j])}
  <2>1. j \in JobIds /\ store[j] \in Job
    BY DEF Rows, TypeOK
  <2>2. ~CreatedBefore(j, store[j], j, store[j])
    BY <2>1 DEF CreatedBefore, Job
  <2>3. T \in SUBSET (JobIds \ {j})
    BY <2>2 DEF Rows
  <2> HIDE DEF T
  <2>4. IsFiniteSet(JobIds) /\ Cardinality(JobIds) = MaxJobs
    <3>1. IsFiniteSet(1 .. MaxJobs) /\ Cardinality(1 .. MaxJobs) = IF 1 > MaxJobs THEN 0 ELSE MaxJobs - 1 + 1
      BY FS_Interval
    <3>2. MaxJobs >= 1
      BY <2>1
    <3> QED
      BY <3>1, <3>2
  <2> HIDE DEF JobIds
  <2>5. IsFiniteSet(JobIds \ {j}) /\ Cardinality(JobIds \ {j}) = MaxJobs - 1
    BY <2>1, <2>4, FS_RemoveElement
  <2>6. IsFiniteSet(T) /\ Cardinality(T) <= MaxJobs - 1
    BY <2>3, <2>5, FS_Subset
  <2>7. Cardinality(T) \in Nat
    BY <2>6, FS_CardinalityType
  <2>8. Cardinality(T) < ListLimit
    BY <2>6, <2>7
  <2> QED
    BY <2>8 DEF T
<1> QED
  BY <1>1 DEF ListedRows

LEMMA RestartKeepsStore ==
    ASSUME TypeOK, StoreInv, ListLimit >= MaxJobs, Restart
    PROVE  StoreInv'
<1>1. store' = store /\ \A d \in Callers : op'[d] = Idle
  BY DEF Restart
<1>2. \A j \in JobIds : jobs'[j] = store[j]
  <2>1. jobs' = [j \in JobIds |-> IF j \in Rows THEN store[j] ELSE Absent]
    BY AllRowsListed DEF Restart, Restored
  <2>2. \A j \in JobIds \ Rows : store[j] = Absent
    BY DEF Rows, StoreInv, RowOK
  <2> QED
    BY <2>1, <2>2
<1>3. \A j \in JobIds : Present(store[j]) => j <= sequence'
  <2>1. \A j \in Rows : j <= sequence'
    BY AllRowsListed DEF Restart, HighestId
  <2> QED
    BY <2>1 DEF Rows
<1>4. \A j \in JobIds : RowOK(j)'
  BY <1>1, <1>3 DEF StoreInv, RowOK
<1>5. \A d \in Callers : FlushOK(op[d])' /\ EnqueueOK(op[d])'
  <2>1. \A d \in Callers : op'[d].pc = "idle"
    BY <1>1 DEF Idle
  <2> QED
    BY <2>1 DEF FlushOK, EnqueueOK
<1>6. ASSUME NEW j \in JobIds
      PROVE  ResidentOK(j)'
  <2>1. store'[j] = store[j] /\ jobs'[j] = store[j] /\ store[j] \in Job
    BY <1>1, <1>2 DEF TypeOK
  <2>2. Row(store[j]) = store[j] /\ Tidy(store[j])
    BY DEF StoreInv, RowOK
  <2>3. \A a \in Agents : RowTarget(store[j].tgt[a]) = store[j].tgt[a]
    BY <2>1, <2>2, RowWhole
  <2>4. RowCurrent(j)'
    BY <2>1, <2>2 DEF RowCurrent, SameRow
  <2>5. \A a \in Agents : TargetCurrent(j, a)'
    BY <2>1, <2>3 DEF TargetCurrent
  <2> QED
    BY <2>1, <2>2, <2>4, <2>5 DEF ResidentOK, Unfinished
<1> QED
  BY <1>4, <1>5, <1>6 DEF StoreInv

(***************************************************************************)
(* A new number has no rows, and nobody has a snapshot of it.              *)
(***************************************************************************)
LEMMA ReserveKeepsStore ==
    ASSUME TypeOK, TypeOK', StoreInv, NEW c \in Callers, NEW k, NEW g, NEW ttl, NEW targets, NEW created,
           EnqueueReserve(c, k, g, ttl, targets, created)
    PROVE  StoreInv'
<1> DEFINE job == [status |-> "queued", created |-> created, ttl |-> ttl, key |-> k, group |-> g,
                   tgt |-> [a \in Agents |-> IF a \in targets THEN [st |-> "queued", at |-> created]
                                             ELSE NoTarget]]
           x == [id |-> sequence + 1, job |-> job, latest |-> TRUE]
           o == Writing("enqueue", x, {})
<1>1. /\ op[c].pc = "idle" /\ op' = [op EXCEPT ![c] = o] /\ sequence' = sequence + 1
      /\ UNCHANGED <<jobs, store, unsaved>> /\ sequence \in Nat /\ sequence + 1 \in JobIds
  BY DEF EnqueueReserve, TypeOK, history
<1>2. op'[c] = o /\ \A d \in Callers \ {c} : op'[d] = op[d]
  BY <1>1 DEF TypeOK
<1>3. /\ o.pc = "enqueue" /\ o.cur.id = sequence + 1 /\ o.cur.job = job /\ o.row /\ o.todo = {}
      /\ o.left = TargetsOf(job)
  BY DEF Writing
<1>4. job.status = "queued" /\ Tidy(job)
  BY DEF Tidy, NoTarget
<1> HIDE DEF job, x, o
<1>5. store[sequence + 1] = Absent
  <2>1. RowOK(sequence + 1)
    BY <1>1 DEF StoreInv
  <2> QED
    BY <1>1, <2>1 DEF RowOK
<1>6. \A d \in Callers : Snaps(op'[d]) = Snaps(op[d])
  BY <1>1, <1>2, <1>3 DEF Snaps
<1>7. ASSUME NEW d \in Callers, NEW y \in Snaps(op[d])
      PROVE  SnapOK(y) /\ y.id \in JobIds /\ y.id <= sequence
  BY <1>7, SnapsType DEF StoreInv, FlushOK, Snaps, TypeOK, SnapOK
<1>8. \A j \in JobIds : RowOK(j)'
  BY <1>1 DEF StoreInv, RowOK
<1>9. ASSUME NEW d \in Callers
      PROVE  FlushOK(op[d])'
  <2>1. \A y \in Snaps(op'[d]) : SnapOK(y)'
    BY <1>1, <1>6, <1>7 DEF SnapOK
  <2>2. op'[d].pc = "flush" => op'[d].left \subseteq TargetsOf(op'[d].cur.job)
    BY <1>2, <1>3 DEF StoreInv, FlushOK
  <2> QED
    BY <2>1, <2>2 DEF FlushOK
<1>10. ASSUME NEW d \in Callers
       PROVE  EnqueueOK(op[d])'
  <2>1. CASE d # c
    <3>1. op'[d] = op[d] /\ EnqueueOK(op[d])
      BY <1>2, <2>1 DEF StoreInv
    <3> QED
      BY <1>1, <1>6, <3>1 DEF EnqueueOK
  <2>2. CASE d = c
    <3>1. \A a \in Agents \ o.left : store[sequence + 1].tgt[a] = RowTarget(job.tgt[a])
      <4>1. \A a \in Agents \ o.left : job.tgt[a] = NoTarget
        BY <1>3, <1>4 DEF TargetsOf, Tidy
      <4>2. RowTarget(NoTarget) = NoTarget
        BY RowTargetFacts DEF NoTarget, JobTarget
      <4> QED
        BY <1>5, <4>1, <4>2, AbsentRow
    <3>2. \A e \in Callers : \A y \in Snaps(op'[e]) : y.id # sequence + 1
      BY <1>1, <1>6, <1>7
    <3> QED
      BY <1>1, <1>2, <1>3, <1>4, <1>5, <2>2, <3>1, <3>2 DEF EnqueueOK
  <2> QED
    BY <2>1, <2>2
<1>11. ASSUME NEW j \in JobIds
       PROVE  ResidentOK(j)'
  <2>1. ResidentOK(j) /\ jobs'[j] = jobs[j] /\ store'[j] = store[j] /\ unsaved' = unsaved
    BY <1>1 DEF StoreInv
  <2>2. \A d \in Callers : OwesRow(op[d], j) => OwesRow(op'[d], j)
    BY <1>1, <1>2 DEF OwesRow, Later
  <2>3. \A d \in Callers, a \in Agents : OwesTarget(op[d], j, a) => OwesTarget(op'[d], j, a)
    BY <1>1, <1>2 DEF OwesTarget, Later
  <2>4. RowCurrent(j) => RowCurrent(j)'
    BY <2>1, <2>2 DEF RowCurrent, RetentionTook
  <2>5. ASSUME NEW a \in Agents, TargetCurrent(j, a)
        PROVE  TargetCurrent(j, a)'
    BY <2>1, <2>3, <2>5 DEF TargetCurrent
  <2> QED
    BY <2>1, <2>4, <2>5 DEF ResidentOK
<1> QED
  BY <1>8, <1>9, <1>10, <1>11 DEF StoreInv

LEMMA StoreInit == Init => StoreInv
<1> SUFFICES ASSUME Init
             PROVE  StoreInv
  OBVIOUS
<1>1. \A j \in JobIds : store[j] = Absent /\ jobs[j] = Absent
  BY DEF Init
<1>2. \A c \in Callers : op[c].pc = "idle"
  BY DEF Init, Idle
<1>3. \A j \in JobIds : RowOK(j) /\ ResidentOK(j)
  BY <1>1, AbsentRow DEF RowOK, ResidentOK
<1>4. \A c \in Callers : FlushOK(op[c]) /\ EnqueueOK(op[c])
  BY <1>2 DEF FlushOK, EnqueueOK
<1> QED
  BY <1>3, <1>4 DEF StoreInv

LEMMA StoreStep ==
    ASSUME ListLimit >= MaxJobs, TypeOK, TypeOK', IndexInv, StoreInv, [Next]_vars
    PROVE  StoreInv'
<1>1. CASE Still
  <2>1. UNCHANGED <<sequence, jobs, op, store, unsaved>>
    BY <1>1 DEF Still, memory
  <2> QED
    BY <2>1, EvictionKeepsStore
<1>2. CASE Writes
  BY <1>2, PruneRowsKeepsStore, PutJobKeepsStore, PutJobTargetKeepsStore, PersistFailsKeepsStore,
     PersistCheckKeepsStore DEF Writes
<1>3. CASE Commit
  BY <1>3, CommitKeepsStore
<1>4. CASE PruneKeys
  <2>1. UNCHANGED <<sequence, op, store, unsaved>>
    BY <1>4 DEF PruneKeys, history
  <2>2. \A j \in JobIds : jobs'[j] = jobs[j] \/ jobs'[j] = Absent
    BY <1>4 DEF PruneKeys
  <2> QED
    BY <2>1, <2>2, AbsentRow, EvictionKeepsStore
<1>5. CASE Restart
  BY <1>5, RestartKeepsStore
<1>6. ASSUME NEW c \in Callers, EnqueuePublish(c)
      PROVE  StoreInv'
  BY <1>6, PublishKeepsStore
<1>7. ASSUME NEW c \in Callers, NEW k \in Keys, NEW g \in Groups \cup {NoGroup}, NEW ttl \in TTLs,
             NEW targets \in SUBSET Agents, NEW created \in Nat,
             EnqueueReserve(c, k, g, ttl, targets, created)
      PROVE  StoreInv'
  BY <1>7, ReserveKeepsStore
<1>8. Still \/ Writes \/ Commit \/ Singular
  BY StepKinds DEF IndexInv
<1> QED
  BY <1>1, <1>2, <1>3, <1>4, <1>5, <1>6, <1>7, <1>8 DEF Singular

LEMMA StoreSuffices ==
    ASSUME TypeOK, StoreInv
    PROVE  StoreCatchesUp
<1>1. SUFFICES ASSUME NEW j \in JobIds, Present(jobs[j]), ~WriterInFlight(j), j \notin unsaved,
                      ~RetentionTook(j)
               PROVE  store[j] = Row(jobs[j])
  BY DEF StoreCatchesUp
<1>2. jobs[j] \in Job /\ store[j] \in Job /\ Row(jobs[j]) \in Job
  BY RowFacts DEF TypeOK
<1>3. \A c \in Callers : ~OwesRow(op[c], j) /\ \A a \in Agents : ~OwesTarget(op[c], j, a)
  BY <1>1 DEF WriterInFlight, OwesRow, OwesTarget, Later
<1>4. RowCurrent(j) /\ \A a \in Agents : TargetCurrent(j, a)
  BY <1>1 DEF StoreInv, ResidentOK
<1>5. SameRow(store[j], Row(jobs[j]))
  BY <1>1, <1>3, <1>4 DEF RowCurrent
<1>6. \A a \in Agents : store[j].tgt[a] = Row(jobs[j]).tgt[a]
  <2> TAKE a \in Agents
  <2>1. Row(jobs[j]).tgt = [b \in Agents |-> RowTarget(jobs[j].tgt[b])]
    BY <1>2, RowFacts
  <2>2. store[j].tgt[a] = RowTarget(jobs[j].tgt[a])
    BY <1>3, <1>4 DEF TargetCurrent
  <2> QED
    BY <2>1, <2>2
<1> QED
  BY <1>2, <1>5, <1>6, JobEqual

(***************************************************************************)
(* StoreCatchesUp holds in every reachable state: however the writers      *)
(* interleave, crash, fail or are overtaken, the rows of a resident job    *)
(* are what memory has unless somebody still has to write them, a failed   *)
(* write was logged, or retention has taken a finished job.  The           *)
(* hypothesis says that restore is never truncated by its LIMIT: with more *)
(* rows than that numbers are drawn again, for rows that are still there.  *)
(***************************************************************************)
THEOREM StoreCaughtUp ==
    ASSUME ListLimit >= MaxJobs
    PROVE  Spec => []StoreCatchesUp
<1>1. Init => IndexInv /\ StoreInv
  BY IndexInit, StoreInit
<1>2. TypeOK /\ TypeOK' /\ IndexInv /\ StoreInv /\ [Next]_vars => IndexInv' /\ StoreInv'
  BY IndexStep, StoreStep
<1>3. TypeOK /\ StoreInv => StoreCatchesUp
  BY StoreSuffices
<1> QED
  BY <1>1, <1>2, <1>3, TypeCorrect, PTL DEF Spec
-----------------------------------------------------------------------------
(***************************************************************************)
(* An unfinished job has a row, whatever is still to be written to it, so  *)
(* that a restart at any point finds it.  StoreInv is more than that needs *)
(* and holds only while restore is not truncated: afterwards numbers are   *)
(* drawn again for rows that are still there.  What holds without a limit: *)
(* the rows have the targets of every job and snapshot, a row with targets *)
(* is safe from retention, and so is the unfinished row of a job that has  *)
(* none (its Enqueue was cut off, and a restart has restored it).          *)
(***************************************************************************)
SnapKept(x) ==
    /\ x.id <= sequence /\ Present(x.job) /\ TargetsOf(x.job) \subseteq TargetsOf(store[x.id])
    /\ Present(jobs[x.id]) =>
           /\ TargetsOf(jobs[x.id]) = TargetsOf(x.job)
           /\ Bare(x.job) /\ isTerminalStatus(x.job.status) => isTerminalStatus(jobs[x.id].status)

FlushKept(o) ==
    o.pc = "flush" => o.left \subseteq TargetsOf(o.cur.job) /\ \A x \in Snaps(o) : SnapKept(x)

EnqueueKept(o) ==
    o.pc = "enqueue" =>
        LET x == o.cur
        IN  /\ o.todo = {} /\ o.left \subseteq TargetsOf(x.job) /\ x.job.status = "queued"
            /\ o.row => o.left = TargetsOf(x.job)
            /\ ~o.row => Unfinished(store[x.id]) /\ TargetsOf(x.job) \ o.left \subseteq TargetsOf(store[x.id])
            /\ \A d \in Callers : \A y \in Snaps(op[d]) : y.id # x.id

JobKept(j) ==
    Present(jobs[j]) =>
        /\ TargetsOf(jobs[j]) \subseteq TargetsOf(store[j])
        /\ Bare(jobs[j]) => isTerminalStatus(jobs[j].status) \/ Unfinished(store[j])

KeptInv ==
    /\ \A j \in JobIds : (TargetsOf(store[j]) # {} => Present(store[j])) /\ JobKept(j)
    /\ \A c \in Callers : FlushKept(op[c]) /\ EnqueueKept(op[c])

LEMMA BareTargets ==
    ASSUME NEW job
    PROVE  Bare(job) <=> TargetsOf(job) = {}
BY DEF Bare, TargetsOf

(***************************************************************************)
(* A goroutine moves on in its list, or starts on the latest version.      *)
(***************************************************************************)
LEMMA MovingOnKeeps ==
    ASSUME TypeOK, TypeOK', KeptInv, NEW c \in Callers, NEW o, op' = [op EXCEPT ![c] = o],
           UNCHANGED <<sequence, jobs, store>>,
           o.pc # "enqueue", o.pc = "flush" => o.left = TargetsOf(o.cur.job),
           \A y \in Snaps(o) : (y \in Snaps(op[c]) \/ (SnapKept(y) /\ \E z \in Snaps(op[c]) : y.id = z.id))
    PROVE  KeptInv'
<1>1. op'[c] = o /\ \A d \in Callers \ {c} : op'[d] = op[d]
  BY DEF TypeOK
<1>2. \A j \in JobIds : ((TargetsOf(store[j]) # {} => Present(store[j])) /\ JobKept(j))'
  BY DEF KeptInv, JobKept
<1>3. ASSUME NEW x, SnapKept(x)
      PROVE  SnapKept(x)'
  BY <1>3 DEF SnapKept
<1>4. ASSUME NEW d \in Callers, NEW y \in Snaps(op[d])
      PROVE  SnapKept(y)
  BY <1>4 DEF KeptInv, FlushKept, Snaps
<1>5. ASSUME NEW d \in Callers
      PROVE  FlushKept(op[d])'
  <2>1. CASE d = c
    BY <1>1, <1>3, <1>4, <2>1 DEF FlushKept
  <2>2. CASE d # c
    BY <1>1, <1>3, <2>2 DEF FlushKept, KeptInv
  <2> QED
    BY <2>1, <2>2
<1>6. ASSUME NEW d \in Callers
      PROVE  EnqueueKept(op[d])'
  <2>1. SUFFICES ASSUME op'[d].pc = "enqueue"
                 PROVE  EnqueueKept(op[d])'
    BY DEF EnqueueKept
  <2>2. d # c /\ op'[d] = op[d] /\ EnqueueKept(op[d])
    BY <1>1, <2>1 DEF KeptInv
  <2>3. \A e \in Callers : \A y \in Snaps(op'[e]) : \E z \in Snaps(op[e]) : y.id = z.id
    BY <1>1
  <2> QED
    BY <2>1, <2>2, <2>3 DEF EnqueueKept
<1> QED
  BY <1>2, <1>5, <1>6 DEF KeptInv

LEMMA PersistStepsKeep ==
    ASSUME TypeOK, TypeOK', KeptInv, NEW c \in Callers, PersistFails(c) \/ PersistCheck(c)
    PROVE  KeptInv'
<1>1. op[c] \in Op /\ op[c] # Idle /\ UNCHANGED <<sequence, jobs, store>>
  BY DEF PersistFails, PersistCheck, TypeOK, memory, Idle
<1>2. op[c].todo \in SUBSET Candidate /\ op[c].cur.id \in JobIds /\ op[c].pc \in {"enqueue", "flush"}
  BY <1>1, BusyType DEF Op, Candidate
<1>3. op[c].pc = "enqueue" => op[c].todo = {}
  BY DEF KeptInv, EnqueueKept
<1>4. \A y \in op[c].todo : y \in Snaps(op[c])
  BY <1>2, <1>3 DEF Snaps
<1>5. CASE \E o \in StartNext(op[c].todo) : op' = [op EXCEPT ![c] = o]
  <2>1. PICK o \in StartNext(op[c].todo) : op' = [op EXCEPT ![c] = o]
    BY <1>5
  <2>2. o.pc # "enqueue" /\ Snaps(o) = op[c].todo /\ (o.pc = "flush" => o.left = TargetsOf(o.cur.job))
    BY <1>2, <2>1, StartNextOwes
  <2> QED
    BY <1>1, <1>4, <2>1, <2>2, MovingOnKeeps
<1>6. ASSUME op[c].pc = "flush", Present(jobs[op[c].cur.id]),
             op' = [op EXCEPT ![c] = Writing("flush", [id |-> op[c].cur.id, job |-> jobs[op[c].cur.id],
                                                       latest |-> TRUE], op[c].todo)]
      PROVE  KeptInv'
  <2> DEFINE x == [id |-> op[c].cur.id, job |-> jobs[op[c].cur.id], latest |-> TRUE]
             o == Writing("flush", x, op[c].todo)
  <2>1. /\ o.pc = "flush" /\ o.left = TargetsOf(o.cur.job) /\ Snaps(o) = {x} \cup op[c].todo
        /\ x.id = op[c].cur.id /\ x.job = jobs[op[c].cur.id]
    BY DEF Writing, Snaps
  <2> HIDE DEF x, o
  <2>2. op[c].cur \in Snaps(op[c]) /\ SnapKept(op[c].cur)
    BY <1>6 DEF Snaps, KeptInv, FlushKept
  <2>3. SnapKept(x)
    BY <1>2, <1>6, <2>1, <2>2 DEF SnapKept, KeptInv, JobKept
  <2>4. op' = [op EXCEPT ![c] = o]
    BY <1>6 DEF x, o
  <2>5. \A y \in Snaps(o) : (y \in Snaps(op[c]) \/ (SnapKept(y) /\ \E z \in Snaps(op[c]) : y.id = z.id))
    BY <1>4, <2>1, <2>2, <2>3
  <2>6. o.pc # "enqueue"
    BY <2>1
  <2> QED
    BY <1>1, <2>1, <2>4, <2>5, <2>6, MovingOnKeeps
<1> QED
  BY <1>5, <1>6 DEF PersistFails, PersistCheck

(***************************************************************************)
(* A write: the row of job n is there, keeps its targets and may get more. *)
(* An Enqueue in flight that owns the row finds it unfinished.             *)
(***************************************************************************)
LEMMA WritingKeeps ==
    ASSUME TypeOK, TypeOK', IndexInv, KeptInv, NEW c \in Callers, UNCHANGED <<sequence, jobs>>,
           op[c].pc \in {"enqueue", "flush"}, NEW n, n = op[c].cur.id, n \in JobIds,
           \A j \in JobIds \ {n} : store'[j] = store[j],
           Present(store'[n]), TargetsOf(store[n]) \subseteq TargetsOf(store'[n]),
           Present(jobs[n]) /\ Bare(jobs[n]) => isTerminalStatus(jobs[n].status) \/ Unfinished(store'[n]),
           \A d \in Callers : /\ op'[d].pc = op[d].pc /\ op'[d].cur = op[d].cur /\ op'[d].todo = op[d].todo
                              /\ d # c => op'[d] = op[d],
           op'[c].left \subseteq op[c].left,
           op[c].pc = "enqueue" =>
               /\ ~op'[c].row /\ Unfinished(store'[n])
               /\ TargetsOf(op[c].cur.job) \ op'[c].left \subseteq TargetsOf(store'[n])
    PROVE  KeptInv'
<1>1. \A d \in Callers : Snaps(op'[d]) = Snaps(op[d])
  BY DEF Snaps
<1>2. \A j \in JobIds : TargetsOf(store[j]) \subseteq TargetsOf(store'[j])
  OBVIOUS
<1>3. ASSUME NEW j \in JobIds
      PROVE  ((TargetsOf(store[j]) # {} => Present(store[j])) /\ JobKept(j))'
  <2>1. CASE j # n
    BY <2>1 DEF KeptInv, JobKept
  <2>2. CASE j = n
    BY <2>2 DEF KeptInv, JobKept
  <2> QED
    BY <2>1, <2>2
<1>4. ASSUME NEW d \in Callers
      PROVE  FlushKept(op[d])'
  <2>1. SUFFICES ASSUME op'[d].pc = "flush"
                 PROVE  FlushKept(op[d])'
    BY DEF FlushKept
  <2>2. op'[d].left \subseteq op[d].left /\ op[d].pc = "flush" /\ op[d] \in Op
    BY <2>1 DEF TypeOK
  <2>3. op'[d].left \subseteq TargetsOf(op'[d].cur.job)
    BY <2>2 DEF KeptInv, FlushKept
  <2>4. ASSUME NEW x \in Snaps(op'[d])
        PROVE  SnapKept(x)'
    <3>1. SnapKept(x) /\ x.id \in JobIds
      BY <1>1, <2>2, SnapsType DEF KeptInv, FlushKept
    <3> QED
      BY <1>2, <3>1 DEF SnapKept
  <2> QED
    BY <2>3, <2>4 DEF FlushKept
<1>5. ASSUME op'[c].pc = "enqueue"
      PROVE  EnqueueKept(op[c])'
  <2>1. /\ EnqueueKept(op[c]) /\ op'[c].cur = op[c].cur /\ op'[c].todo = op[c].todo
        /\ ~op'[c].row /\ Unfinished(store'[n])
        /\ TargetsOf(op[c].cur.job) \ op'[c].left \subseteq TargetsOf(store'[n])
        /\ op[c].pc = "enqueue"
    BY <1>5 DEF KeptInv
  <2> QED
    BY <1>1, <2>1 DEF EnqueueKept
<1>6. ASSUME NEW d \in Callers
      PROVE  EnqueueKept(op[d])'
  <2>1. SUFFICES ASSUME op'[d].pc = "enqueue", d # c
                 PROVE  EnqueueKept(op[d])'
    BY <1>5 DEF EnqueueKept
  <2>2. op'[d] = op[d] /\ EnqueueKept(op[d]) /\ op[d].cur.id \in JobIds
    BY <2>1, BusyType DEF KeptInv, TypeOK
  <2>3. op[d].cur.id # n
    <3>1. CASE op[c].pc = "enqueue"
      BY <2>1, <2>2, <3>1 DEF IndexInv, EnqueueFresh
    <3>2. CASE op[c].pc = "flush"
      <4>1. op[c].cur \in Snaps(op[c])
        BY <3>2 DEF Snaps
      <4> QED
        BY <2>1, <2>2, <4>1 DEF EnqueueKept
    <3> QED
      BY <3>1, <3>2
  <2> QED
    BY <1>1, <2>1, <2>2, <2>3 DEF EnqueueKept
<1> QED
  BY <1>3, <1>4, <1>6 DEF KeptInv

LEMMA PutJobKeeps ==
    ASSUME TypeOK, TypeOK', IndexInv, KeptInv, NEW c \in Callers, PutJob(c)
    PROVE  KeptInv'
<1> DEFINE x == op[c].cur
           r == [Row(x.job) EXCEPT !.tgt = store[x.id].tgt]
<1>1. /\ op[c].pc \in {"enqueue", "flush"} /\ op[c] \in Op /\ x.id \in JobIds /\ x.job \in Job /\ op[c].row
      /\ op' = [op EXCEPT ![c].row = FALSE] /\ store' = [store EXCEPT ![x.id] = r]
      /\ UNCHANGED <<sequence, jobs>>
  <2>1. op[c] \in Op /\ op[c].pc # "idle" /\ op[c].row
    BY DEF PutJob, TypeOK
  <2>2. op[c].pc \in {"enqueue", "flush"}
    BY <2>1 DEF Op, Idle
  <2> QED
    BY <2>1, <2>2, BusyType DEF PutJob, memory
<1>2. r.tgt = store[x.id].tgt /\ r.status = x.job.status
  BY <1>1, RowFacts DEF Job
<1> HIDE DEF r
<1>3. store'[x.id] = r /\ \A j \in JobIds \ {x.id} : store'[j] = store[j]
  BY <1>1 DEF TypeOK
<1>4. /\ \A d \in Callers : /\ op'[d].pc = op[d].pc /\ op'[d].cur = op[d].cur /\ op'[d].todo = op[d].todo
                            /\ op'[d].left = op[d].left
                            /\ d # c => op'[d] = op[d]
      /\ ~op'[c].row
  <2>1. op[c] \in [pc : {"enqueue", "flush"}, cur : Candidate, row : BOOLEAN,
                   left : SUBSET Agents, todo : SUBSET Candidate]
    BY <1>1 DEF Op, Idle
  <2> QED
    BY <1>1, <2>1 DEF TypeOK
<1>5. TargetsOf(store'[x.id]) = TargetsOf(store[x.id])
  BY <1>2, <1>3 DEF TargetsOf
<1>6. Present(x.job)
  <2>1. CASE op[c].pc = "enqueue"
    BY <2>1 DEF KeptInv, EnqueueKept, Present
  <2>2. CASE op[c].pc = "flush"
    BY <2>2 DEF KeptInv, FlushKept, SnapKept, Snaps
  <2> QED
    BY <1>1, <2>1, <2>2
<1>7. Present(store'[x.id]) /\ (~isTerminalStatus(x.job.status) => Unfinished(store'[x.id]))
  BY <1>2, <1>3, <1>6 DEF Present, Unfinished
<1>8. Present(jobs[x.id]) /\ Bare(jobs[x.id]) =>
          isTerminalStatus(jobs[x.id].status) \/ Unfinished(store'[x.id])
  <2>1. CASE op[c].pc = "enqueue"
    BY <2>1 DEF IndexInv, EnqueueFresh
  <2>2. CASE op[c].pc = "flush"
    <3>1. SnapKept(x)
      BY <2>2 DEF KeptInv, FlushKept, Snaps
    <3> QED
      BY <1>7, <3>1, BareTargets DEF SnapKept
  <2> QED
    BY <1>1, <2>1, <2>2
<1>9. op[c].pc = "enqueue" => Unfinished(store'[x.id]) /\ TargetsOf(x.job) = op'[c].left
  BY <1>1, <1>4, <1>7 DEF KeptInv, EnqueueKept, isTerminalStatus
<1>10. PICK n : n = x.id
  OBVIOUS
<1>11. /\ n = op[c].cur.id /\ n \in JobIds /\ \A j \in JobIds \ {n} : store'[j] = store[j]
       /\ Present(store'[n]) /\ TargetsOf(store[n]) \subseteq TargetsOf(store'[n])
       /\ Present(jobs[n]) /\ Bare(jobs[n]) => isTerminalStatus(jobs[n].status) \/ Unfinished(store'[n])
       /\ op'[c].left \subseteq op[c].left
       /\ op[c].pc = "enqueue" =>
               /\ ~op'[c].row /\ Unfinished(store'[n])
               /\ TargetsOf(op[c].cur.job) \ op'[c].left \subseteq TargetsOf(store'[n])
  BY <1>1, <1>3, <1>4, <1>5, <1>7, <1>8, <1>9, <1>10
<1>12. op[c].pc \in {"enqueue", "flush"} /\ UNCHANGED <<sequence, jobs>>
  BY <1>1
<1> HIDE DEF x
<1> QED
  BY <1>4, <1>11, <1>12, WritingKeeps

LEMMA PutJobTargetKeeps ==
    ASSUME TypeOK, TypeOK', IndexInv, KeptInv, NEW c \in Callers, NEW a \in Agents, PutJobTarget(c, a)
    PROVE  KeptInv'
<1> DEFINE x == op[c].cur
<1>1. /\ op[c] \in Op /\ op[c] # Idle /\ ~op[c].row /\ a \in op[c].left
      /\ op' = [op EXCEPT ![c].left = @ \ {a}]
      /\ store' = [store EXCEPT ![x.id].tgt[a] = RowTarget(x.job.tgt[a])]
      /\ UNCHANGED <<sequence, jobs>>
  <2>1. op[c] \in Op
    BY DEF TypeOK
  <2>2. /\ ~op[c].row /\ a \in op[c].left
        /\ op' = [op EXCEPT ![c].left = @ \ {a}]
        /\ store' = [store EXCEPT ![x.id].tgt[a] = RowTarget(x.job.tgt[a])]
    BY DEF PutJobTarget
  <2>3. UNCHANGED <<sequence, jobs>>
    BY DEF PutJobTarget, memory
  <2>4. op[c] # Idle
    BY <2>2 DEF Idle
  <2> QED
    BY <2>1, <2>2, <2>3, <2>4
<1>2. op[c] \in [pc : {"enqueue", "flush"}, cur : Candidate, row : BOOLEAN,
                 left : SUBSET Agents, todo : SUBSET Candidate]
  BY <1>1 DEF Op
<1>3. x.id \in JobIds /\ x.job \in Job /\ op[c].pc \in {"enqueue", "flush"}
  BY <1>2 DEF Candidate
<1>4. /\ \A d \in Callers : /\ op'[d].pc = op[d].pc /\ op'[d].cur = op[d].cur /\ op'[d].todo = op[d].todo
                            /\ op'[d].row = op[d].row
                            /\ d # c => op'[d] = op[d]
      /\ op'[c].left = op[c].left \ {a}
  BY <1>1, <1>2 DEF TypeOK
<1>5. a \in TargetsOf(x.job)
  BY <1>1, <1>3 DEF KeptInv, FlushKept, EnqueueKept
<1>6. x.job.tgt[a] \in JobTarget /\ store[x.id] \in Job
  BY <1>3 DEF Job, TypeOK
<1>7. RowTarget(x.job.tgt[a]).st # "none"
  BY <1>5, <1>6, RowTargetFacts DEF TargetsOf
<1>8. /\ \A j \in JobIds \ {x.id} : store'[j] = store[j]
      /\ store'[x.id].status = store[x.id].status
      /\ store'[x.id].tgt[a] = RowTarget(x.job.tgt[a])
      /\ \A b \in Agents \ {a} : store'[x.id].tgt[b] = store[x.id].tgt[b]
  BY <1>1, <1>3, <1>6 DEF TypeOK, Job
<1>9. TargetsOf(store'[x.id]) = TargetsOf(store[x.id]) \cup {a}
  BY <1>7, <1>8 DEF TargetsOf
<1>10. Present(store[x.id])
  <2>1. CASE op[c].pc = "enqueue"
    BY <1>1, <2>1 DEF KeptInv, EnqueueKept, Unfinished
  <2>2. CASE op[c].pc = "flush"
    <3>1. TargetsOf(x.job) \subseteq TargetsOf(store[x.id])
      BY <2>2 DEF KeptInv, FlushKept, SnapKept, Snaps
    <3> QED
      BY <1>3, <1>5, <3>1 DEF KeptInv
  <2> QED
    BY <1>3, <2>1, <2>2
<1>11. Present(store'[x.id]) /\ (Unfinished(store[x.id]) => Unfinished(store'[x.id]))
  BY <1>8, <1>10 DEF Present, Unfinished
<1>12. Present(jobs[x.id]) /\ Bare(jobs[x.id]) =>
          isTerminalStatus(jobs[x.id].status) \/ Unfinished(store'[x.id])
  BY <1>3, <1>11 DEF KeptInv, JobKept
<1>13. op[c].pc = "enqueue" =>
           /\ ~op'[c].row /\ Unfinished(store'[x.id])
           /\ TargetsOf(x.job) \ op'[c].left \subseteq TargetsOf(store'[x.id])
  BY <1>1, <1>4, <1>9, <1>11 DEF KeptInv, EnqueueKept
<1>14. PICK n : n = x.id
  OBVIOUS
<1>15. /\ n = op[c].cur.id /\ n \in JobIds /\ \A j \in JobIds \ {n} : store'[j] = store[j]
       /\ Present(store'[n]) /\ TargetsOf(store[n]) \subseteq TargetsOf(store'[n])
       /\ Present(jobs[n]) /\ Bare(jobs[n]) => isTerminalStatus(jobs[n].status) \/ Unfinished(store'[n])
       /\ op'[c].left \subseteq op[c].left
       /\ op[c].pc = "enqueue" =>
               /\ ~op'[c].row /\ Unfinished(store'[n])
               /\ TargetsOf(op[c].cur.job) \ op'[c].left \subseteq TargetsOf(store'[n])
  BY <1>3, <1>4, <1>8, <1>9, <1>11, <1>12, <1>13, <1>14
<1>16. op[c].pc \in {"enqueue", "flush"} /\ UNCHANGED <<sequence, jobs>>
  BY <1>1, <1>3
<1> HIDE DEF x
<1> QED
  BY <1>4, <1>15, <1>16, WritingKeeps

(***************************************************************************)
(* Retention takes finished rows without targets only.                     *)
(***************************************************************************)
LEMMA RetentionKeeps ==
    ASSUME TypeOK, KeptInv, PruneTerminalJobs
    PROVE  KeptInv'
<1>1. UNCHANGED <<sequence, jobs, op>>
  BY DEF PruneTerminalJobs, memory
<1>2. ASSUME NEW j \in JobIds
      PROVE  store'[j] = store[j] \/ (/\ store'[j] = Absent /\ TargetsOf(store[j]) = {}
                                      /\ isTerminalStatus(store[j].status))
  BY DEF PruneTerminalJobs, PrunableRows, isTerminalStatus
<1>3. ASSUME NEW j \in JobIds
      PROVE  /\ TargetsOf(store'[j]) = TargetsOf(store[j])
             /\ Unfinished(store[j]) => Unfinished(store'[j])
             /\ TargetsOf(store[j]) # {} /\ Present(store[j]) => Present(store'[j])
  BY <1>2, AbsentRow DEF Unfinished
<1>4. \A j \in JobIds : ((TargetsOf(store[j]) # {} => Present(store[j])) /\ JobKept(j))'
  BY <1>1, <1>3 DEF KeptInv, JobKept
<1>5. ASSUME NEW d \in Callers
      PROVE  FlushKept(op[d])'
  <2>1. \A x \in Snaps(op[d]) : x.id \in JobIds
    BY SnapsType DEF TypeOK
  <2> QED
    BY <1>1, <1>3, <2>1 DEF KeptInv, FlushKept, SnapKept
<1>6. ASSUME NEW d \in Callers
      PROVE  EnqueueKept(op[d])'
  <2>1. op[d].pc = "enqueue" => op[d].cur.id \in JobIds
    BY BusyType DEF TypeOK
  <2> QED
    BY <1>1, <1>3, <2>1 DEF KeptInv, EnqueueKept
<1> QED
  BY <1>4, <1>5, <1>6 DEF KeptInv

(***************************************************************************)
(* A commit of the jobs D, and the publication of a job N by the way.      *)
(***************************************************************************)
LEMMA CommittingKeeps ==
    ASSUME TypeOK, TypeOK', IndexInv, KeptInv, NEW c \in Callers, NEW D \in SUBSET JobIds, NEW N,
           CommitsTo(c, D, N),
           \A j \in JobIds \cap N : TargetsOf(jobs'[j]) \subseteq TargetsOf(store[j]) /\ Unfinished(store[j])
    PROVE  KeptInv'
<1>1. store' = store /\ sequence' = sequence
  BY DEF CommitsTo
<1>2. ASSUME NEW j \in D
      PROVE  /\ Present(jobs[j]) /\ Present(jobs'[j]) /\ TargetsOf(jobs'[j]) = TargetsOf(jobs[j])
             /\ Bare(jobs[j]) => isTerminalStatus(jobs'[j].status)
             /\ (Bare(jobs'[j]) <=> Bare(jobs[j])) /\ j \in JobIds
             /\ TargetsOf(jobs[j]) \subseteq TargetsOf(store[j]) /\ j <= sequence
  <2>1. jobs[j] \in Job /\ jobs'[j] \in Job
    BY DEF TypeOK
  <2>2. /\ Present(jobs[j]) /\ Present(jobs'[j]) /\ SameTargets(jobs[j], jobs'[j])
        /\ Bare(jobs[j]) => isTerminalStatus(jobs'[j].status)
    BY DEF CommitsTo
  <2>3. TargetsOf(jobs[j]) \subseteq TargetsOf(store[j]) /\ j <= sequence
    BY <2>2 DEF KeptInv, JobKept, IndexInv, NumbersDrawn
  <2> QED
    BY <2>1, <2>2, <2>3, SameTargetsFacts
<1>3. ASSUME NEW j \in JobIds
      PROVE  ((TargetsOf(store[j]) # {} => Present(store[j])) /\ JobKept(j))'
  <2>1. JobKept(j)'
    <3>1. CASE j \in D
      BY <1>1, <1>2, <3>1 DEF JobKept
    <3>2. CASE j \notin D /\ jobs'[j] = jobs[j]
      BY <1>1, <3>2 DEF JobKept, KeptInv
    <3>3. CASE j \notin D /\ j \in N
      BY <1>1, <3>3 DEF JobKept
    <3> QED
      BY <3>1, <3>2, <3>3 DEF CommitsTo
  <2> QED
    BY <1>1, <2>1 DEF KeptInv
<1>4. ASSUME NEW d \in Callers
      PROVE  FlushKept(op[d])'
  <2>1. CASE d = c
    <3>1. ASSUME NEW x \in Snapshots(D, jobs')
          PROVE  SnapKept(x)'
      <4>1. PICK j \in D : x = [id |-> j, job |-> jobs'[j], latest |-> TRUE]
        BY DEF Snapshots
      <4>2. x.id = j /\ x.job = jobs'[j]
        BY <4>1
      <4> QED
        BY <1>1, <1>2, <4>2 DEF SnapKept
    <3>2. /\ Snaps(op'[d]) = Snapshots(D, jobs')
          /\ op'[d].pc = "flush" => op'[d].left = TargetsOf(op'[d].cur.job)
      BY <2>1, CommitOps
    <3> QED
      BY <3>1, <3>2 DEF FlushKept
  <2>2. CASE d # c
    <3>1. op'[d] = Stale(op[d], D) /\ op[d] \in Op
      BY <2>2, CommitOps DEF TypeOK
    <3>2. SUFFICES ASSUME op'[d].pc = "flush"
                   PROVE  op'[d].left \subseteq TargetsOf(op'[d].cur.job) /\ \A y \in Snaps(op'[d]) : SnapKept(y)'
      BY DEF FlushKept
    <3>3. /\ op[d].pc = "flush" /\ op'[d].left = op[d].left /\ op'[d].cur = StaleCandidate(op[d].cur, D)
          /\ op[d].cur \in Candidate
      BY <3>1, <3>2, StaleFacts, BusyType
    <3>4. op'[d].left \subseteq TargetsOf(op'[d].cur.job)
      BY <3>3, StaleCandidateFacts DEF KeptInv, FlushKept
    <3>5. ASSUME NEW y \in Snaps(op'[d])
          PROVE  SnapKept(y)'
      <4>1. PICK x \in Snaps(op[d]) : y = StaleCandidate(x, D)
        BY <3>1, StaleOwes
      <4>2. x \in Candidate /\ x.id \in JobIds /\ x.job \in Job /\ x.id \notin N
        BY <3>1, SnapsType DEF CommitsTo
      <4>3. y.id = x.id /\ y.job = x.job
        BY <4>1, <4>2, StaleCandidateFacts
      <4>4. SnapKept(x)
        BY <3>3 DEF KeptInv, FlushKept
      <4>5. CASE x.id \notin D
        <5>1. jobs'[x.id] = jobs[x.id]
          BY <4>2, <4>5 DEF CommitsTo
        <5> QED
          BY <1>1, <4>3, <4>4, <5>1 DEF SnapKept
      <4>6. CASE x.id \in D
        <5>1. /\ Present(jobs[x.id]) /\ TargetsOf(jobs'[x.id]) = TargetsOf(jobs[x.id])
              /\ Bare(jobs[x.id]) => isTerminalStatus(jobs'[x.id].status)
          BY <1>2, <4>6
        <5>2. Bare(x.job) => Bare(jobs[x.id])
          BY <4>4, <5>1, BareTargets DEF SnapKept
        <5> QED
          BY <1>1, <4>3, <4>4, <5>1, <5>2 DEF SnapKept
      <4> QED
        BY <4>5, <4>6
    <3> QED
      BY <3>4, <3>5
  <2> QED
    BY <2>1, <2>2
<1>5. ASSUME NEW d \in Callers
      PROVE  EnqueueKept(op[d])'
  <2>1. SUFFICES ASSUME op'[d].pc = "enqueue"
                 PROVE  EnqueueKept(op[d])'
    BY DEF EnqueueKept
  <2>2. d # c /\ op'[d] = Stale(op[d], D) /\ op[d] \in Op
    BY <2>1, CommitOps DEF TypeOK
  <2>3. /\ op[d].pc = "enqueue" /\ op'[d].left = op[d].left /\ op'[d].row = op[d].row
        /\ op'[d].cur = StaleCandidate(op[d].cur, D)
        /\ op'[d].todo = {StaleCandidate(x, D) : x \in op[d].todo}
    BY <2>1, <2>2, StaleFacts
  <2>4. op[d].cur \in Candidate /\ op[d].cur.id \in JobIds
    BY <2>2, <2>3, BusyType
  <2>5. op'[d].cur.id = op[d].cur.id /\ op'[d].cur.job = op[d].cur.job
    BY <2>3, <2>4, StaleCandidateFacts
  <2>6. EnqueueKept(op[d]) /\ ~Present(jobs[op[d].cur.id])
    BY <2>3 DEF KeptInv, IndexInv, EnqueueFresh
  <2>7. op'[d].todo = {}
    BY <2>3, <2>6 DEF EnqueueKept
  <2>8. ASSUME NEW e \in Callers, NEW y \in Snaps(op'[e])
        PROVE  y.id # op[d].cur.id
    <3>1. CASE e = c
      <4>1. y \in Snapshots(D, jobs')
        BY <3>1, CommitOps
      <4>2. y.id \in D
        BY <4>1 DEF Snapshots
      <4> QED
        BY <1>2, <2>6, <4>2
    <3>2. CASE e # c
      <4>1. op'[e] = Stale(op[e], D) /\ op[e] \in Op
        BY <3>2, CommitOps DEF TypeOK
      <4>2. PICK x \in Snaps(op[e]) : y = StaleCandidate(x, D)
        BY <4>1, StaleOwes
      <4>3. y.id = x.id
        BY <4>1, <4>2, SnapsType, StaleCandidateFacts
      <4> QED
        BY <2>3, <2>6, <4>3 DEF EnqueueKept
    <3> QED
      BY <3>1, <3>2
  <2> QED
    BY <1>1, <2>1, <2>3, <2>5, <2>6, <2>7, <2>8 DEF EnqueueKept
<1> QED
  BY <1>3, <1>4, <1>5 DEF KeptInv

LEMMA PublishKeeps ==
    ASSUME TypeOK, TypeOK', IndexInv, KeptInv, NEW c \in Callers, EnqueuePublish(c)
    PROVE  KeptInv'
<1> DEFINE x == op[c].cur
           D == {i \in JobIds : supersededByNewer(i, x.id, x.job)}
           new == [j \in JobIds |->
                      IF j = x.id THEN x.job
                      ELSE IF j \in D
                        THEN expireCoveredTargets(jobs[j], TargetsOf(x.job), x.job.created)
                      ELSE jobs[j]]
<1>1. x.id \in JobIds /\ op[c].pc = "enqueue" /\ ~op[c].row /\ op[c].left = {}
  <2>1. op[c] \in Op /\ op[c].pc = "enqueue" /\ ~op[c].row /\ op[c].left = {}
    BY DEF EnqueuePublish, TypeOK
  <2> QED
    BY <2>1, BusyType
<1>2. jobs' = new /\ Flush(c, D, new) /\ UNCHANGED <<sequence, store, unsaved>>
  BY DEF EnqueuePublish
<1>3. ASSUME NEW j \in D
      PROVE  /\ Present(jobs[j]) /\ j # x.id /\ ~Bare(jobs[j])
             /\ Present(new[j]) /\ SameTargets(jobs[j], new[j])
  <2>1. Present(jobs[j]) /\ j # x.id /\ ~Bare(jobs[j])
    BY DEF supersededByNewer, LiveStatus, Present, LiveTarget, Bare, TargetsOf
  <2> QED
    BY <2>1, CoveredRewrite DEF TypeOK
<1>4. \A j \in JobIds \ D : j \in {x.id} \/ new[j] = jobs[j]
  OBVIOUS
<1>5. new[x.id] = x.job
  BY <1>1
<1>6. EnqueueKept(op[c])
  BY DEF KeptInv
<1>7. D \in SUBSET JobIds
  OBVIOUS
<1> HIDE DEF D, new
<1>8. CommitsTo(c, D, {x.id})
  BY <1>1, <1>2, <1>3, <1>4, <1>6 DEF CommitsTo, EnqueueKept
<1>9. \A j \in JobIds \cap {x.id} :
           TargetsOf(jobs'[j]) \subseteq TargetsOf(store[j]) /\ Unfinished(store[j])
  <2>1. jobs'[x.id] = x.job
    BY <1>2, <1>5
  <2>2. Unfinished(store[x.id]) /\ TargetsOf(x.job) \subseteq TargetsOf(store[x.id])
    BY <1>1, <1>6 DEF EnqueueKept
  <2> QED
    BY <2>1, <2>2
<1> HIDE DEF x
<1> QED
  BY <1>7, <1>8, <1>9, CommittingKeeps

LEMMA ReserveKeeps ==
    ASSUME TypeOK, TypeOK', KeptInv, NEW c \in Callers, NEW k, NEW g, NEW ttl, NEW targets, NEW created,
           EnqueueReserve(c, k, g, ttl, targets, created)
    PROVE  KeptInv'
<1> DEFINE job == [status |-> "queued", created |-> created, ttl |-> ttl, key |-> k, group |-> g,
                   tgt |-> [a \in Agents |-> IF a \in targets THEN [st |-> "queued", at |-> created]
                                             ELSE NoTarget]]
           x == [id |-> sequence + 1, job |-> job, latest |-> TRUE]
           o == Writing("enqueue", x, {})
<1>1. /\ op[c].pc = "idle" /\ op' = [op EXCEPT ![c] = o] /\ sequence' = sequence + 1
      /\ UNCHANGED <<jobs, store>> /\ sequence \in Nat
  BY DEF EnqueueReserve, TypeOK
<1>2. op'[c] = o /\ \A d \in Callers \ {c} : op'[d] = op[d]
  BY <1>1 DEF TypeOK
<1>3. /\ o.pc = "enqueue" /\ o.cur.id = sequence + 1 /\ o.cur.job = job /\ o.row /\ o.todo = {}
      /\ o.left = TargetsOf(job) /\ job.status = "queued"
  BY DEF Writing
<1> HIDE DEF job, x, o
<1>4. \A d \in Callers : Snaps(op'[d]) = Snaps(op[d])
  BY <1>1, <1>2, <1>3 DEF Snaps
<1>5. ASSUME NEW d \in Callers, NEW y \in Snaps(op[d])
      PROVE  SnapKept(y) /\ y.id \in JobIds /\ y.id <= sequence
  BY <1>5, SnapsType DEF KeptInv, FlushKept, Snaps, TypeOK, SnapKept
<1>6. \A j \in JobIds : ((TargetsOf(store[j]) # {} => Present(store[j])) /\ JobKept(j))'
  BY <1>1 DEF KeptInv, JobKept
<1>7. ASSUME NEW d \in Callers
      PROVE  FlushKept(op[d])'
  <2>1. \A y \in Snaps(op'[d]) : SnapKept(y)'
    BY <1>1, <1>4, <1>5 DEF SnapKept
  <2>2. op'[d].pc = "flush" => op'[d].left \subseteq TargetsOf(op'[d].cur.job)
    BY <1>2, <1>3 DEF KeptInv, FlushKept
  <2> QED
    BY <2>1, <2>2 DEF FlushKept
<1>8. ASSUME NEW d \in Callers
      PROVE  EnqueueKept(op[d])'
  <2>1. CASE d # c
    <3>1. op'[d] = op[d] /\ EnqueueKept(op[d])
      BY <1>2, <2>1 DEF KeptInv
    <3> QED
      BY <1>1, <1>4, <3>1 DEF EnqueueKept
  <2>2. CASE d = c
    <3>1. \A e \in Callers : \A y \in Snaps(op'[e]) : y.id # sequence + 1
      BY <1>1, <1>4, <1>5
    <3> QED
      BY <1>1, <1>2, <1>3, <2>2, <3>1 DEF EnqueueKept
  <2> QED
    BY <2>1, <2>2
<1> QED
  BY <1>6, <1>7, <1>8 DEF KeptInv

LEMMA KeptStep ==
    ASSUME TypeOK, TypeOK', IndexInv, KeptInv, [Next]_vars
    PROVE  KeptInv'
<1>1. ASSUME UNCHANGED <<sequence, op, store>>, \A j \in JobIds : jobs'[j] = jobs[j] \/ jobs'[j] = Absent
      PROVE  KeptInv'
  <2>1. \A j \in JobIds : ((TargetsOf(store[j]) # {} => Present(store[j])) /\ JobKept(j))'
    BY <1>1, AbsentRow DEF KeptInv, JobKept
  <2>2. ASSUME NEW d \in Callers, NEW x \in Snaps(op[d]), SnapKept(x)
        PROVE  SnapKept(x)'
    <3>1. x.id \in JobIds
      BY SnapsType DEF TypeOK
    <3> QED
      BY <1>1, <2>2, <3>1, AbsentRow DEF SnapKept
  <2>3. \A d \in Callers : FlushKept(op[d])' /\ EnqueueKept(op[d])'
    BY <1>1, <2>2 DEF KeptInv, FlushKept, EnqueueKept
  <2> QED
    BY <2>1, <2>3 DEF KeptInv
<1>2. CASE Still \/ PruneKeys
  <2>1. UNCHANGED <<sequence, op, store>> /\ \A j \in JobIds : jobs'[j] = jobs[j] \/ jobs'[j] = Absent
    BY <1>2 DEF Still, PruneKeys, memory
  <2> QED
    BY <1>1, <2>1
<1>3. CASE Writes
  BY <1>3, RetentionKeeps, PutJobKeeps, PutJobTargetKeeps, PersistStepsKeep DEF Writes
<1>4. CASE Commit
  <2>1. PICK c \in Callers, D \in SUBSET JobIds, new \in [JobIds -> Job], clear \in BOOLEAN :
            /\ op[c].pc = "idle" /\ Rewrites(D, new)
            /\ commitJobs(c, D, new, now, clear) /\ UNCHANGED <<sequence, store, unsaved>>
    BY <1>4 DEF Commit
  <2>2. jobs' = new /\ Flush(c, D, new)
    BY <2>1 DEF commitJobs
  <2>3. CommitsTo(c, D, {})
    BY <2>1, <2>2 DEF CommitsTo, Rewrites
  <2> QED
    BY <2>3, CommittingKeeps
<1>5. CASE Restart
  <2>1. store' = store /\ \A d \in Callers : op'[d].pc = "idle"
    BY <1>5 DEF Restart, Idle
  <2>2. \A j \in JobIds : Present(jobs'[j]) => jobs'[j] = store[j]
    BY <1>5 DEF Restart, Restored, Absent, Present
  <2>3. \A j \in JobIds : ((TargetsOf(store[j]) # {} => Present(store[j])) /\ JobKept(j))'
    BY <2>1, <2>2 DEF KeptInv, JobKept, Unfinished
  <2>4. \A d \in Callers : FlushKept(op[d])' /\ EnqueueKept(op[d])'
    BY <2>1 DEF FlushKept, EnqueueKept
  <2> QED
    BY <2>3, <2>4 DEF KeptInv
<1>6. ASSUME NEW c \in Callers, EnqueuePublish(c)
      PROVE  KeptInv'
  BY <1>6, PublishKeeps
<1>7. ASSUME NEW c \in Callers, NEW k \in Keys, NEW g \in Groups \cup {NoGroup}, NEW ttl \in TTLs,
             NEW targets \in SUBSET Agents, NEW created \in Nat,
             EnqueueReserve(c, k, g, ttl, targets, created)
      PROVE  KeptInv'
  BY <1>7, ReserveKeeps
<1>8. Still \/ Writes \/ Commit \/ Singular
  BY StepKinds DEF IndexInv
<1> QED
  BY <1>2, <1>3, <1>4, <1>5, <1>6, <1>7, <1>8 DEF Singular

LEMMA LiveJobsStep ==
    ASSUME TypeOK, KeptInv, [Next]_vars, restarts' # restarts,
           NEW j \in JobIds, LiveStatus(jobs[j].status)
    PROVE  Present(jobs'[j]) \/ BeyondLimit(j)
<1>1. Restart
  BY RestartsStep
<1>2. Present(jobs[j]) /\ ~isTerminalStatus(jobs[j].status) /\ JobKept(j)
  BY DEF LiveStatus, Present, isTerminalStatus, KeptInv
<1>3. Present(store[j])
  <2>1. CASE Bare(jobs[j])
    BY <1>2, <2>1 DEF JobKept, Unfinished
  <2>2. CASE ~Bare(jobs[j])
    BY <1>2, <2>2, BareTargets DEF JobKept, KeptInv
  <2> QED
    BY <2>1, <2>2
<1>4. CASE j \in ListedRows
  <2>1. jobs'[j] = store[j]
    BY <1>1, <1>4 DEF Restart, Restored
  <2> QED
    BY <1>3, <2>1
<1>5. CASE j \notin ListedRows
  <2> DEFINE T == {i \in Rows : CreatedBefore(i, store[i], j, store[j])}
  <2>1. ~(Cardinality(T) < ListLimit)
    BY <1>3, <1>5 DEF ListedRows, Rows
  <2>2. Cardinality(T) \in Nat
    <3>1. IsFiniteSet(1 .. MaxJobs)
      BY FS_Interval
    <3>2. T \in SUBSET (1 .. MaxJobs)
      BY DEF Rows, JobIds
    <3> HIDE DEF T
    <3>3. IsFiniteSet(T)
      BY <3>1, <3>2, FS_Subset
    <3> QED
      BY <3>3, FS_CardinalityType
  <2> QED
    BY <1>3, <2>1, <2>2, ServiceAssumption DEF BeyondLimit
<1> QED
  BY <1>4, <1>5

(***************************************************************************)
(* A restart brings back every job that was not finished, wherever it cut  *)
(* the writers off, whatever failed before and whatever retention took,    *)
(* but for those that the LIMIT of restore cuts off: these have their row, *)
(* behind ListLimit older ones.                                            *)
(***************************************************************************)
THEOREM LiveJobsRestored == Spec => RestartKeepsLiveJobs
<1>1. Init => IndexInv /\ KeptInv
  <2>1. ASSUME Init
        PROVE  KeptInv
    <3>1. \A j \in JobIds : store[j] = Absent /\ jobs[j] = Absent
      BY <2>1 DEF Init
    <3>2. \A c \in Callers : op[c].pc = "idle"
      BY <2>1 DEF Init, Idle
    <3> QED
      BY <3>1, <3>2, AbsentRow DEF KeptInv, JobKept, FlushKept, EnqueueKept
  <2> QED
    BY <2>1, IndexInit
<1>2. TypeOK /\ TypeOK' /\ IndexInv /\ KeptInv /\ [Next]_vars => IndexInv' /\ KeptInv'
  BY IndexStep, KeptStep
<1>3. TypeOK /\ KeptInv /\ [Next]_vars =>
          [restarts' # restarts =>
              \A j \in JobIds : LiveStatus(jobs[j].status) => Present(jobs'[j]) \/ BeyondLimit(j)]_vars
  BY LiveJobsStep
<1> QED
  BY <1>1, <1>2, <1>3, TypeCorrect, PTL DEF Spec, RestartKeepsLiveJobs
=============================================================================
