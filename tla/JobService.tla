----------------------------- MODULE JobService -----------------------------
(***************************************************************************)
(* The control plane's job queue: internal/controlplane/jobs/service.go,   *)
(* with the two tables behind it (storage/sqlite/jobs.go, and the postgres *)
(* twin) and the gateway's dispatch loop that drains it.                   *)
(*                                                                         *)
(* Every critical section of Service.mu is one action.  Everything the     *)
(* code does after unlocking is a step of its own, so the store writes of  *)
(* several goroutines interleave row by row, may fail, and may be cut off  *)
(* by a restart.                                                           *)
(*                                                                         *)
(* jobVersion is a global counter, but two versions are only ever compared *)
(* for equality, by persistLatestJobVersion.  The model keeps the outcome  *)
(* of that comparison: a snapshot is `latest' until the next commit of its *)
(* job.                                                                    *)
(***************************************************************************)
EXTENDS JobStatus, FiniteSets

CONSTANTS
    Callers,      \* goroutines inside the service at the same time
    Enqueuers,    \* those of them that call Enqueue (HTTP handlers, the client flows)
    Dispatchers,  \* those that run an agent's dispatch loop
    Receivers,    \* those that apply what agents report (the inbound workers)
    TTLs,         \* the TTLs a caller may ask for; 0 is "no TTL"
    RetryAfter,   \* jobDispatchRetryAfter (gateway)
    AckTTL,       \* TTL of the acknowledged-expiry worker; 0 switches it off
    KeyTTL,       \* TTL of the key-eviction worker; 0 switches it off
    Retention,    \* retention.JobsSeconds; 0 switches it off
    CallLag,      \* how old the `now' handed to Enqueue may be
    ListLimit,    \* storage.DefaultListLimit
    Second,       \* clock readings per second: the tables keep whole seconds
    MaxJobs,      \* bound: job numbers
    MaxTime,      \* bound: clock
    MaxRestarts,  \* bound: restarts of the control plane
    MaxFailures   \* bound: store writes that fail for a transient reason

ASSUME ServiceAssumption ==
    /\ Enqueuers \subseteq Callers /\ Dispatchers \subseteq Callers /\ Receivers \subseteq Callers
    /\ TTLs \subseteq Nat
    /\ RetryAfter \in Nat /\ AckTTL \in Nat /\ KeyTTL \in Nat /\ Retention \in Nat
    /\ CallLag \in Nat /\ ListLimit \in Nat /\ Second \in Nat \ {0}
    /\ MaxJobs \in Nat /\ MaxTime \in Nat
    /\ MaxRestarts \in Nat /\ MaxFailures \in Nat

JobIds == 1 .. MaxJobs

VARIABLES
    now,            \* the panel clock, s.now()
    sequence,       \* Service.sequence
    jobs,           \* Service.jobs
    agentJobs,      \* Service.agentJobs: the redelivery index
    keys,           \* Service.keys
    keyTerminalAt,  \* Service.keyTerminalAt, ZeroTime when the key is not in it
    nextExpiryAt,   \* Service.nextExpiryAt
    op,             \* what each goroutine still has to do outside the lock
    listed,         \* per agent: the batch its dispatch loop is sending
    wire,           \* per agent: commands that were ever put on a stream
    store,          \* tables jobs and job_targets
    rejected,       \* history: jobs whose Enqueue returned an error
    unsaved,        \* history: jobs for which a failed persist was logged since the start
    prunedTo,       \* history: cutoff of the last retention pass
    late,           \* history: <<i, j>> when supersession could not see older job i beside j
    restarts, failures

memory == <<sequence, jobs, agentJobs, keys, keyTerminalAt, nextExpiryAt>>
gateway == <<listed, wire>>
history == <<rejected, unsaved, prunedTo, late>>
bounds == <<restarts, failures>>
vars == <<now, memory, op, gateway, store, history, bounds>>

(***************************************************************************)
(* Values of the keys map: the empty job id marks a reservation.           *)
(***************************************************************************)
Unclaimed == -1
Reserved == 0

(***************************************************************************)
(* A persist candidate, and what a goroutine is doing with it.  `row' says *)
(* that PutJob has not been called yet for cur, `left' holds the targets   *)
(* whose PutJobTarget is still to come, `todo' the later candidates.       *)
(***************************************************************************)
Candidate == [id : JobIds, job : Job, latest : BOOLEAN]
NoCandidate == [id |-> 0, job |-> Absent, latest |-> TRUE]
Idle == [pc |-> "idle", cur |-> NoCandidate, row |-> FALSE, left |-> {}, todo |-> {}]
Op == {Idle} \cup [pc   : {"enqueue", "flush"},
                   cur  : Candidate,
                   row  : BOOLEAN,
                   left : SUBSET Agents,
                   todo : SUBSET Candidate]

Writing(pc, candidate, todo) ==
    [pc |-> pc, cur |-> candidate, row |-> TRUE,
     left |-> TargetsOf(candidate.job), todo |-> todo]

(***************************************************************************)
(* The candidates of one critical section are persisted one after another, *)
(* in the order of a Go map iteration: any order.                          *)
(***************************************************************************)
StartNext(todo) ==
    IF todo = {} THEN {Idle} ELSE {Writing("flush", x, todo \ {x}) : x \in todo}

(***************************************************************************)
(* After a commit of the jobs in D, every older snapshot of them is stale. *)
(***************************************************************************)
(* Mutant: a commit that does not bump jobVersion. *)
StaleCandidateNever(x, D) == x

StaleCandidate(x, D) == [x EXCEPT !.latest = @ /\ x.id \notin D]
Stale(o, D) ==
    IF o = Idle THEN o ELSE [o EXCEPT !.cur = StaleCandidate(@, D),
                                      !.todo = {StaleCandidate(x, D) : x \in @}]

Snapshots(D, new) == {[id |-> j, job |-> new[j], latest |-> TRUE] : j \in D}

(***************************************************************************)
(* Caller c has committed the jobs D (now in `new') and goes on to persist *)
(* them.  A goroutine is in one call at a time, so c was idle, or at the   *)
(* end of its Enqueue.                                                     *)
(***************************************************************************)
Flush(c, D, new) ==
    \E o \in StartNext(Snapshots(D, new)) :
        op' = [d \in Callers |-> IF d = c THEN o ELSE Stale(op[d], D)]

(***************************************************************************)
(* syncJobTargetsIndexLocked for the jobs D.                               *)
(***************************************************************************)
(* Mutants: the switch over target states lacks a case. *)
SyncIndexNoAcknowledged(index, D, new) ==
    [a \in Agents |-> (index[a] \ D) \cup {j \in D : new[j].tgt[a].st \in {"queued", "sent"}}]
SyncIndexNoQueued(index, D, new) ==
    [a \in Agents |-> (index[a] \ D) \cup {j \in D : new[j].tgt[a].st \in {"sent", "acknowledged"}}]

SyncIndex(index, D, new) ==
    [a \in Agents |->
        {j \in index[a] : j \in D => ~TerminalTarget(new[j].tgt[a])}
            \cup {j \in D : LiveTarget(new[j].tgt[a])}]

(***************************************************************************)
(* The key bookkeeping of commitJobLocked for the jobs D.                  *)
(***************************************************************************)
OwnedBy(D, new, k) == {j \in D : new[j].key = k}

RepointKeys(D, new) ==
    [k \in Keys |-> IF OwnedBy(D, new, k) = {} THEN keys[k]
                    ELSE CHOOSE j \in D : new[j].key = k]

MarkKeys(owner, D, new, stamp, clear) ==
    [k \in Keys |->
        IF \E j \in OwnedBy(D, new, k) : isTerminalStatus(new[j].status) /\ owner[k] # Unclaimed
          THEN stamp
        ELSE IF clear /\ OwnedBy(D, new, k) # {} THEN ZeroTime
        ELSE keyTerminalAt[k]]

(***************************************************************************)
(* noteJobExpiryLocked: lower the watermark to the deadline of a live job. *)
(***************************************************************************)
(* Mutant: jobCommit.noteExpiry is left unset. *)
noteJobExpiryNever(mark, job) == mark

noteJobExpiry(mark, job) ==
    IF CanExpire(job) /\ (mark = ZeroTime \/ Deadline(job) < mark)
      THEN Deadline(job) ELSE mark

(***************************************************************************)
(* recomputeNextExpiryLocked: the earliest deadline, ZeroTime for none.    *)
(***************************************************************************)
Earliest(times) == IF times = {} THEN {ZeroTime} ELSE {t \in times : \A u \in times : t <= u}

(* Mutant: the recomputation skips jobs that are already running. *)
recomputeNextExpiryQueued(new) ==
    Earliest({Deadline(new[j]) : j \in {i \in JobIds : CanExpire(new[i]) /\ new[i].status = "queued"}})

recomputeNextExpiry(new) == Earliest({Deadline(new[j]) : j \in {i \in JobIds : CanExpire(new[i])}})

anyJobNeedsExpiry == nextExpiryAt # ZeroTime /\ now > nextExpiryAt

(***************************************************************************)
(* commitJobLocked for several jobs at once: the jobs D take their value   *)
(* from `new', at panel time `stamp', in the name of caller c.             *)
(***************************************************************************)
commitJobs(c, D, new, stamp, clear) ==
    /\ jobs' = new
    /\ agentJobs' = SyncIndex(agentJobs, D, new)
    /\ keys' = RepointKeys(D, new)
    /\ keyTerminalAt' = MarkKeys(RepointKeys(D, new), D, new, stamp, clear)
    /\ Flush(c, D, new)
-----------------------------------------------------------------------------
Init ==
    /\ now = Second
    /\ sequence = 0
    /\ jobs = [j \in JobIds |-> Absent]
    /\ agentJobs = [a \in Agents |-> {}]
    /\ keys = [k \in Keys |-> Unclaimed]
    /\ keyTerminalAt = [k \in Keys |-> ZeroTime]
    /\ nextExpiryAt = ZeroTime
    /\ op = [c \in Callers |-> Idle]
    /\ listed = [a \in Agents |-> {}]
    /\ wire = [a \in Agents |-> {}]
    /\ store = [j \in JobIds |-> Absent]
    /\ rejected = {}
    /\ unsaved = {}
    /\ prunedTo = ZeroTime
    /\ late = {}
    /\ restarts = 0
    /\ failures = 0

(***************************************************************************)
(* Phase 1 of Enqueue, under the lock: refuse a known key, number the job, *)
(* reserve the key.  `created' is the caller's clock reading.  (An empty   *)
(* key is replaced by a fresh one, a duplicate key or a read-only target   *)
(* is refused without a state change.)                                     *)
(***************************************************************************)
EnqueueReserve(c, k, g, ttl, targets, created) ==
    /\ op[c].pc = "idle"
    /\ sequence < MaxJobs
    /\ keys[k] = Unclaimed
    /\ sequence' = sequence + 1
    /\ keys' = [keys EXCEPT ![k] = Reserved]
    /\ LET job == [status |-> "queued", created |-> created, ttl |-> ttl, key |-> k, group |-> g,
                   tgt |-> [a \in Agents |-> IF a \in targets THEN [st |-> "queued", at |-> created]
                                             ELSE NoTarget]]
       IN  op' = [op EXCEPT ![c] = Writing("enqueue", [id |-> sequence + 1, job |-> job,
                                                       latest |-> TRUE], {})]
    /\ UNCHANGED <<now, jobs, agentJobs, keyTerminalAt, nextExpiryAt, gateway, store, history, bounds>>

(***************************************************************************)
(* toUnix and fromUnix: SQLite keeps whole seconds (postgres keeps         *)
(* microseconds: Second = 1).  Row is what reading a job back returns.     *)
(***************************************************************************)
toUnix(t) == t - (t % Second)
RowTarget(target) == [target EXCEPT !.at = toUnix(@)]
Row(job) == [job EXCEPT !.created = toUnix(@),
                        !.tgt = [a \in Agents |-> RowTarget(@[a])]]

(***************************************************************************)
(* PutJob: INSERT ... ON CONFLICT(id) DO UPDATE.  A row of another job     *)
(* with the same key violates UNIQUE(idempotency_key).  The target rows of *)
(* the id are left alone.                                                  *)
(***************************************************************************)
(* Mutant: no UNIQUE constraint on idempotency_key. *)
KeyTakenNever(j, k) == FALSE

KeyTaken(j, k) == \E i \in JobIds \ {j} : Present(store[i]) /\ store[i].key = k

PutJob(c) ==
    LET x == op[c].cur
    IN  /\ op[c].pc # "idle" /\ op[c].row
        /\ ~KeyTaken(x.id, x.job.key)
        /\ store' = [store EXCEPT ![x.id] = [Row(x.job) EXCEPT !.tgt = store[x.id].tgt]]
        /\ op' = [op EXCEPT ![c].row = FALSE]
        /\ UNCHANGED <<now, memory, gateway, history, bounds>>

PutJobTarget(c, a) ==
    LET x == op[c].cur
    IN  /\ ~op[c].row /\ a \in op[c].left
        /\ store' = [store EXCEPT ![x.id].tgt[a] = RowTarget(x.job.tgt[a])]
        /\ op' = [op EXCEPT ![c].left = @ \ {a}]
        /\ UNCHANGED <<now, memory, gateway, history, bounds>>

(***************************************************************************)
(* A write of persistJob returns an error: the UNIQUE constraint, or (at   *)
(* most MaxFailures times) a busy or unreachable database.  Enqueue gives  *)
(* its reservation back and returns the error; persistLatestJobVersion     *)
(* logs and gives up on this candidate.                                    *)
(***************************************************************************)
PersistFails(c) ==
    LET x == op[c].cur
    IN  /\ op[c].row \/ op[c].left # {}
        /\ IF op[c].row /\ KeyTaken(x.id, x.job.key)
             THEN UNCHANGED failures
             ELSE failures < MaxFailures /\ failures' = failures + 1
        /\ \E o \in StartNext(op[c].todo) : op' = [op EXCEPT ![c] = o]
        /\ IF op[c].pc = "enqueue"
             THEN /\ keys' = [keys EXCEPT ![x.job.key] = IF @ = Reserved THEN Unclaimed ELSE @]
                  /\ rejected' = rejected \cup {x.id}
                  /\ UNCHANGED unsaved
             ELSE /\ unsaved' = unsaved \cup {x.id}
                  /\ UNCHANGED <<keys, rejected>>
        /\ UNCHANGED <<now, sequence, jobs, agentJobs, keyTerminalAt, nextExpiryAt, gateway, store,
                       prunedTo, late, restarts>>

(***************************************************************************)
(* supersededByNewerLocked and expireCoveredTargets: the older live jobs   *)
(* of the group, and what becomes of them.                                 *)
(***************************************************************************)
(* Mutant: a job that is already running is not superseded. *)
supersededByNewerQueued(i, j, new) ==
    /\ i # j
    /\ CreatedBefore(i, jobs[i], j, new)
    /\ jobs[i].status = "queued"
    /\ new.group # NoGroup /\ jobs[i].group = new.group
    /\ \E a \in TargetsOf(new) : LiveTarget(jobs[i].tgt[a])

supersededByNewer(i, j, new) ==
    /\ i # j
    /\ CreatedBefore(i, jobs[i], j, new)
    /\ LiveStatus(jobs[i].status)
    /\ new.group # NoGroup /\ jobs[i].group = new.group
    /\ \E a \in TargetsOf(new) : LiveTarget(jobs[i].tgt[a])

expireCoveredTargets(job, covered, t) ==
    LET tgt == [a \in Agents |-> IF a \in covered /\ LiveTarget(job.tgt[a])
                                   THEN [st |-> "expired", at |-> t] ELSE job.tgt[a]]
    IN  [job EXCEPT !.tgt = tgt, !.status = deriveJobStatus(tgt)]

(***************************************************************************)
(* What supersession misses when job j is published as `new': a younger    *)
(* job of the group is there already (the two left phase 1 and the store   *)
(* in different orders, so j is the older one and arrives late), or an     *)
(* older one counts as finished although the crash that tore its rows left *)
(* targets open.                                                           *)
(***************************************************************************)
SameGroup(i, new) == Present(jobs[i]) /\ new.group # NoGroup /\ jobs[i].group = new.group

Overtaken(j, new) ==
    {<<j, i>> : i \in {n \in JobIds : SameGroup(n, new) /\ CreatedBefore(j, new, n, jobs[n])}}
Torn(j, new) ==
    {<<i, j>> : i \in {n \in JobIds : SameGroup(n, new) /\ ~LiveStatus(jobs[n].status)}}

(***************************************************************************)
(* Phase 3 of Enqueue, under the lock: publish the job and supersede the   *)
(* older jobs of its group, stamped with the caller's clock.               *)
(***************************************************************************)
EnqueuePublish(c) ==
    LET x   == op[c].cur
        D   == {i \in JobIds : supersededByNewer(i, x.id, x.job)}
        new == [j \in JobIds |->
                   IF j = x.id THEN x.job
                   ELSE IF j \in D THEN expireCoveredTargets(jobs[j], TargetsOf(x.job), x.job.created)
                   ELSE jobs[j]]
    IN  /\ op[c].pc = "enqueue" /\ ~op[c].row /\ op[c].left = {}
        /\ jobs' = new
        /\ agentJobs' = SyncIndex(agentJobs, D \cup {x.id}, new)
        /\ keys' = [keys EXCEPT ![x.job.key] = x.id]
        /\ keyTerminalAt' = MarkKeys(keys', D, new, x.job.created, FALSE)
        /\ nextExpiryAt' = noteJobExpiry(nextExpiryAt, x.job)
        /\ Flush(c, D, new)
        /\ late' = late \cup Overtaken(x.id, x.job) \cup Torn(x.id, x.job)
        /\ UNCHANGED <<now, sequence, gateway, store, rejected, unsaved, prunedTo, bounds>>

(***************************************************************************)
(* The version check of persistLatestJobVersion, under the lock: done when *)
(* the job is gone or was not committed again, else persist it once more.  *)
(***************************************************************************)
PersistCheck(c) ==
    LET x == op[c].cur
    IN  /\ op[c].pc = "flush" /\ ~op[c].row /\ op[c].left = {}
        /\ \/ /\ ~Present(jobs[x.id]) \/ x.latest
              /\ \E o \in StartNext(op[c].todo) : op' = [op EXCEPT ![c] = o]
           \/ /\ Present(jobs[x.id]) /\ ~x.latest
              /\ op' = [op EXCEPT ![c] = Writing("flush", [id |-> x.id, job |-> jobs[x.id],
                                                           latest |-> TRUE], op[c].todo)]
        /\ UNCHANGED <<now, memory, gateway, store, history, bounds>>
-----------------------------------------------------------------------------
(***************************************************************************)
(* expireJobsLocked: the TTL sweep.                                        *)
(***************************************************************************)
Due == {j \in JobIds : jobShouldExpire(jobs[j], now)}
Expired(D) == [j \in JobIds |-> IF j \in D THEN expireJobTargets(jobs[j], now) ELSE jobs[j]]

expireJobs(c) ==
    /\ op[c].pc = "idle"
    /\ commitJobs(c, Due, Expired(Due), now, FALSE)
    /\ nextExpiryAt' \in recomputeNextExpiry(Expired(Due))

(***************************************************************************)
(* ListWithContext and ListRecentWithContext, as far as they change state. *)
(***************************************************************************)
ListJobs(c) ==
    /\ anyJobNeedsExpiry
    /\ expireJobs(c)
    /\ UNCHANGED <<now, sequence, gateway, store, history, bounds>>

(***************************************************************************)
(* PendingForAgent, called by the agent's dispatch loop when it has sent   *)
(* its previous batch.  The fast path trusts the watermark.                *)
(***************************************************************************)
Pending(a, new) ==
    {j \in agentJobs[a] : Present(new[j]) /\ targetIsPending(new[j].tgt[a], now, RetryAfter)}

PendingForAgent(c, a) ==
    /\ op[c].pc = "idle" /\ listed[a] = {}
    /\ \/ /\ ~anyJobNeedsExpiry
          /\ Pending(a, jobs) # {}
          /\ listed' = [listed EXCEPT ![a] = Pending(a, jobs)]
          /\ UNCHANGED <<memory, op>>
       \/ /\ anyJobNeedsExpiry
          /\ expireJobs(c)
          /\ listed' = [listed EXCEPT ![a] = Pending(a, jobs')]
          /\ UNCHANGED sequence
    /\ UNCHANGED <<now, wire, store, history, bounds>>

(***************************************************************************)
(* updateTarget: a job past its TTL is expired instead of updated.         *)
(***************************************************************************)
updateTarget(c, a, j, st) ==
    /\ op[c].pc = "idle"
    /\ Present(jobs[j])
    /\ IF jobShouldExpire(jobs[j], now)
         THEN /\ commitJobs(c, {j}, Expired({j}), now, FALSE)
              /\ UNCHANGED nextExpiryAt
         ELSE LET tgt == [jobs[j].tgt EXCEPT ![a] = [st |-> st, at |-> now]]
                  job == [jobs[j] EXCEPT !.tgt = tgt, !.status = deriveJobStatus(tgt)]
              IN  /\ jobs[j].tgt[a].st # "none"
                  /\ commitJobs(c, {j}, [jobs EXCEPT ![j] = job], now, TRUE)
                  /\ nextExpiryAt' = noteJobExpiry(nextExpiryAt, job)
    /\ UNCHANGED sequence

(***************************************************************************)
(* dispatchPendingJobs: Send, then MarkDelivered, for each job of the      *)
(* batch; a failed Send ends the batch.                                    *)
(***************************************************************************)
SendJob(a, j) ==
    /\ j \in listed[a] \ wire[a]
    /\ wire' = [wire EXCEPT ![a] = @ \cup {j}]
    /\ UNCHANGED <<now, memory, op, listed, store, history, bounds>>

StreamBreaks(a) ==
    /\ listed[a] # {}
    /\ listed' = [listed EXCEPT ![a] = {}]
    /\ UNCHANGED <<now, memory, op, wire, store, history, bounds>>

(* Mutant: a status that no reader of the column knows. *)
DeliveredStatusUnknown(st) == IF st = "queued" THEN "delivered" ELSE st

DeliveredStatus(st) == IF st = "queued" THEN "sent" ELSE st

MarkDelivered(c, a, j) ==
    /\ op[c].pc = "idle" /\ j \in listed[a] \cap wire[a]
    /\ listed' = [listed EXCEPT ![a] = @ \ {j}]
    /\ \/ updateTarget(c, a, j, DeliveredStatus(jobs[j].tgt[a].st))
       \/ ~Present(jobs[j]) /\ UNCHANGED <<memory, op>>
    /\ UNCHANGED <<now, wire, store, history, bounds>>

(***************************************************************************)
(* The agent acknowledges, or reports the outcome of, a command it was     *)
(* sent.  Reports are duplicated, delayed and reordered at will.           *)
(***************************************************************************)
(* Mutant: a late acknowledgement overwrites the outcome. *)
AcknowledgedStatusAlways(st) == "acknowledged"

AcknowledgedStatus(st) == IF st = "sent" THEN "acknowledged" ELSE st

MarkAcknowledged(c, a, j) ==
    /\ j \in wire[a]
    /\ updateTarget(c, a, j, AcknowledgedStatus(jobs[j].tgt[a].st))
    /\ UNCHANGED <<now, gateway, store, history, bounds>>

RecordResult(c, a, j, outcome) ==
    /\ j \in wire[a]
    /\ jobShouldExpire(jobs[j], now) \/ jobs[j].tgt[a].st # "expired"
    /\ updateTarget(c, a, j, outcome)
    /\ UNCHANGED <<now, gateway, store, history, bounds>>
-----------------------------------------------------------------------------
(***************************************************************************)
(* PruneAcknowledgedTargets.                                               *)
(***************************************************************************)
AckOverdue(target) == target.st = "acknowledged" /\ target.at + AckTTL <= now

expireAcknowledgedTargets(job) ==
    LET tgt == [a \in Agents |-> IF AckOverdue(job.tgt[a]) THEN [st |-> "expired", at |-> now]
                                 ELSE job.tgt[a]]
    IN  [job EXCEPT !.tgt = tgt, !.status = deriveJobStatus(tgt)]

(***************************************************************************)
(* noteJobExpiryLocked after each commit of a set of jobs: the result is   *)
(* the minimum, whatever the order.                                        *)
(***************************************************************************)
NoteAll(D, new) ==
    LET marks == ({nextExpiryAt} \ {ZeroTime})
                     \cup {Deadline(new[j]) : j \in {i \in D : CanExpire(new[i])}}
    IN  Earliest(marks)

PruneAcknowledgedTargets(c) ==
    LET D   == {j \in JobIds : \E a \in Agents : AckOverdue(jobs[j].tgt[a])}
        new == [j \in JobIds |-> IF j \in D THEN expireAcknowledgedTargets(jobs[j]) ELSE jobs[j]]
    IN  /\ AckTTL > 0
        /\ op[c].pc = "idle"
        /\ D # {}
        /\ commitJobs(c, D, new, now, FALSE)
        /\ nextExpiryAt' \in NoteAll(D, new)
        /\ UNCHANGED <<now, sequence, gateway, store, history, bounds>>

(***************************************************************************)
(* PruneKeys: forget keys that have been terminal for KeyTTL, with their   *)
(* jobs.  The redelivery index is not touched.                             *)
(***************************************************************************)
KeyOverdue == {k \in Keys : keyTerminalAt[k] # ZeroTime /\ keyTerminalAt[k] + KeyTTL <= now}

PruneKeys ==
    /\ KeyTTL > 0
    /\ KeyOverdue # {}
    /\ jobs' = [j \in JobIds |-> IF \E k \in KeyOverdue : keys[k] = j THEN Absent ELSE jobs[j]]
    /\ keys' = [k \in Keys |-> IF k \in KeyOverdue THEN Unclaimed ELSE keys[k]]
    /\ keyTerminalAt' = [k \in Keys |-> IF k \in KeyOverdue THEN ZeroTime ELSE keyTerminalAt[k]]
    /\ UNCHANGED <<now, sequence, agentJobs, nextExpiryAt, op, gateway, store,
                   history, bounds>>

(***************************************************************************)
(* The retention worker's PruneTerminalJobs: one DELETE statement over     *)
(* succeeded, failed and expired rows.  job_targets.job_id REFERENCES jobs *)
(* without ON DELETE CASCADE, so the statement fails, and deletes nothing, *)
(* when one of these rows still has target rows.                           *)
(***************************************************************************)
PrunableRows(cutoff) ==
    {j \in JobIds : /\ store[j].status \in {"succeeded", "failed", "expired"}
                    /\ store[j].created < toUnix(cutoff)}

PruneTerminalJobs ==
    LET cutoff == now - Retention
        D      == PrunableRows(cutoff)
    IN  /\ Retention > 0
        /\ cutoff > prunedTo
        /\ store' = IF \E j \in D : TargetsOf(store[j]) # {} THEN store
                    ELSE [j \in JobIds |-> IF j \in D THEN Absent ELSE store[j]]
        /\ prunedTo' = cutoff
        /\ UNCHANGED <<now, memory, op, gateway, rejected, unsaved, late, bounds>>

(***************************************************************************)
(* The control plane stops at any point and starts again: restore() reads  *)
(* the ListLimit oldest job rows and every target row.  The goroutines and *)
(* the streams are gone.                                                   *)
(***************************************************************************)
Rows == {j \in JobIds : Present(store[j])}

(* Mutant: restore reads only what is still queued, and what is finished. *)
ListedRowsNoRunning == {j \in Rows : store[j].status # "running"}

ListedRows ==
    {j \in Rows : Cardinality({i \in Rows : CreatedBefore(i, store[i], j, store[j])}) < ListLimit}

HighestId(ids) == IF ids = {} THEN {0} ELSE {i \in ids : \A j \in ids : j <= i}

Restored == [j \in JobIds |-> IF j \in ListedRows THEN store[j] ELSE Absent]

Restart ==
    /\ restarts < MaxRestarts
    /\ restarts' = restarts + 1
    /\ jobs' = Restored
    /\ sequence' \in HighestId(ListedRows)
    /\ agentJobs' = [a \in Agents |-> {j \in ListedRows : LiveTarget(store[j].tgt[a])}]
    /\ keys' = [k \in Keys |-> IF OwnedBy(ListedRows, store, k) = {} THEN Unclaimed
                               ELSE CHOOSE j \in ListedRows : store[j].key = k]
    /\ keyTerminalAt' = [k \in Keys |->
           IF \E j \in OwnedBy(ListedRows, store, k) : isTerminalStatus(store[j].status)
             THEN store[CHOOSE j \in ListedRows : store[j].key = k].created ELSE ZeroTime]
    /\ nextExpiryAt' \in recomputeNextExpiry(Restored)
    /\ op' = [c \in Callers |-> Idle]
    /\ listed' = [a \in Agents |-> {}]
    /\ unsaved' = {}
    /\ late' = ListedRows \X ListedRows
    /\ UNCHANGED <<now, wire, store, rejected, prunedTo, failures>>

Tick ==
    /\ now < MaxTime
    /\ now' = now + 1
    /\ UNCHANGED <<memory, op, gateway, store, history, bounds>>
-----------------------------------------------------------------------------
Next ==
    \/ Tick
    \/ Restart
    \/ PruneKeys
    \/ PruneTerminalJobs
    \/ \E a \in Agents : StreamBreaks(a)
    \/ \E a \in Agents, j \in JobIds : SendJob(a, j)
    \/ \E c \in Enqueuers, k \in Keys, g \in Groups \cup {NoGroup}, ttl \in TTLs,
          targets \in SUBSET Agents \ {{}}, lag \in 0 .. CallLag :
          now >= Second + lag /\ EnqueueReserve(c, k, g, ttl, targets, now - lag)
    \/ \E c \in Callers :
          \/ PutJob(c)
          \/ PersistFails(c)
          \/ EnqueuePublish(c)
          \/ PersistCheck(c)
          \/ ListJobs(c)
          \/ PruneAcknowledgedTargets(c)
          \/ \E a \in Agents : PutJobTarget(c, a)
    \/ \E c \in Dispatchers, a \in Agents :
          \/ PendingForAgent(c, a)
          \/ \E j \in JobIds : MarkDelivered(c, a, j)
    \/ \E c \in Receivers, a \in Agents, j \in JobIds :
          \/ MarkAcknowledged(c, a, j)
          \/ \E outcome \in {"succeeded", "failed"} : RecordResult(c, a, j, outcome)

Spec == Init /\ [][Next]_vars
-----------------------------------------------------------------------------
TypeOK ==
    /\ now \in Nat
    /\ sequence \in JobIds \cup {0}
    /\ jobs \in [JobIds -> Job]
    /\ agentJobs \in [Agents -> SUBSET JobIds]
    /\ keys \in [Keys -> JobIds \cup {Unclaimed, Reserved}]
    /\ keyTerminalAt \in [Keys -> Nat]
    /\ nextExpiryAt \in Nat
    /\ op \in [Callers -> Op]
    /\ listed \in [Agents -> SUBSET JobIds]
    /\ wire \in [Agents -> SUBSET JobIds]
    /\ store \in [JobIds -> Job]
    /\ rejected \subseteq JobIds
    /\ unsaved \subseteq JobIds
    /\ prunedTo \in Nat
    /\ late \subseteq JobIds \X JobIds
    /\ restarts \in Nat
    /\ failures \in Nat

(***************************************************************************)
(* The expiry watermark is never stale-late (nextExpiryAt): no resident    *)
(* job that can still time out has a deadline before it.  The read paths   *)
(* rely on it when they skip the sweep.                                    *)
(***************************************************************************)
WatermarkSound ==
    \A j \in JobIds : CanExpire(jobs[j]) =>
        nextExpiryAt # ZeroTime /\ nextExpiryAt <= Deadline(jobs[j])

(***************************************************************************)
(* The redelivery index (agentJobs) covers every unfinished target of a    *)
(* resident job, and holds no finished one: a job missing from it would    *)
(* never be sent again, a finished one would be sent again.                *)
(***************************************************************************)
IndexExact ==
    \A a \in Agents, j \in JobIds : Present(jobs[j]) =>
        (j \in agentJobs[a] <=> LiveTarget(jobs[j].tgt[a]))

(***************************************************************************)
(* Idempotency: a resident job owns its key, so no two of them share one.  *)
(* Across restarts and evictions this rests on the UNIQUE constraint.      *)
(***************************************************************************)
KeyOwnership ==
    \A j \in JobIds : Present(jobs[j]) => keys[jobs[j].key] = j

(***************************************************************************)
(* persistLatestJobVersion: the tables lag behind memory only while some   *)
(* goroutine still has a snapshot of the job to write, or after a failed   *)
(* write was logged.  Two writers may finish in either order.  Only the    *)
(* row of a finished job may be gone: retention deletes it while memory    *)
(* still has the job (it has no targets, after a crash inside Enqueue).    *)
(***************************************************************************)
WriterInFlight(j) == \E c \in Callers : op[c].cur.id = j \/ \E x \in op[c].todo : x.id = j
RetentionTook(j) == store[j] = Absent /\ isTerminalStatus(jobs[j].status)

StoreCatchesUp ==
    \A j \in JobIds : Present(jobs[j]) =>
        store[j] = Row(jobs[j]) \/ WriterInFlight(j) \/ j \in unsaved \/ RetentionTook(j)

(***************************************************************************)
(* restore "requires every queued/running/acknowledged record": a restart  *)
(* brings back every job that was not finished, whatever was being written *)
(* when the process stopped, but for the LIMIT of ListJobs.  A job it cuts *)
(* off still has its row, behind ListLimit older ones.                     *)
(***************************************************************************)
BeyondLimit(j) ==
    /\ Present(store[j])
    /\ Cardinality({i \in Rows : CreatedBefore(i, store[i], j, store[j])}) >= ListLimit

RestartKeepsLiveJobs ==
    [][restarts' # restarts =>
          \A j \in JobIds : LiveStatus(jobs[j].status) => Present(jobs'[j]) \/ BeyondLimit(j)]_vars

(***************************************************************************)
(* While the control plane runs, a finished target stays finished, and an  *)
(* expired one stays expired: RecordResult drops the result of a target    *)
(* that timed out or was superseded.                                       *)
(***************************************************************************)
FinishedStaysFinished ==
    [][\A j \in JobIds, a \in Agents :
          restarts' = restarts /\ Present(jobs[j]) /\ Present(jobs'[j]) =>
              /\ TerminalTarget(jobs[j].tgt[a]) => TerminalTarget(jobs'[j].tgt[a])
              /\ jobs[j].tgt[a].st = "expired" => jobs'[j].tgt[a].st = "expired"]_vars

(***************************************************************************)
(* A batch that PendingForAgent hands to the dispatch loop holds no        *)
(* unfinished job past its TTL, although the fast path does not look at    *)
(* the deadlines.  (Restore may make a finished job with live targets of a *)
(* torn row; no TTL applies to that one.)                                  *)
(***************************************************************************)
DispatchWithinTTL ==
    [][\A a \in Agents : \A j \in listed'[a] \ listed[a] :
          \/ jobs'[j].ttl = 0 \/ isTerminalStatus(jobs'[j].status)
          \/ now <= Deadline(jobs'[j])]_vars

(***************************************************************************)
(* An unfinished target of an older job on an agent that a newer resident  *)
(* job of the same group covers: the data it would deliver is stale.       *)
(***************************************************************************)
StaleSibling(i, j, a) ==
    /\ Present(jobs[i]) /\ Present(jobs[j])
    /\ jobs[i].group # NoGroup /\ jobs[i].group = jobs[j].group
    /\ CreatedBefore(i, jobs[i], j, jobs[j])
    /\ jobs[j].tgt[a].st # "none"
    /\ LiveTarget(jobs[i].tgt[a])

(***************************************************************************)
(* Enqueue: "Any older still-pending job with the same key holds stale     *)
(* data ... terminate those targets before the dispatch loop can re-send   *)
(* them."  Taken as it stands: no stale sibling is ever there.             *)
(***************************************************************************)
NoStaleSibling == \A i, j \in JobIds, a \in Agents : ~StaleSibling(i, j, a)

(***************************************************************************)
(* What supersession does guarantee, with any number of concurrent Enqueue *)
(* calls, stale clocks and restarts: a stale sibling is one that was       *)
(* published after the newer job, or that a restart brought back.  A job   *)
(* that was there when a newer one of its group was published never again  *)
(* has an open target where the newer one has one.                         *)
(***************************************************************************)
StaleSiblingsAreLate ==
    \A i, j \in JobIds, a \in Agents : StaleSibling(i, j, a) => <<i, j>> \in late

(***************************************************************************)
(* Enqueue "If persist failed, roll back the reservation ... and return    *)
(* the error to the caller": a refused job never becomes a job.            *)
(***************************************************************************)
RejectedNeverRuns == \A j \in rejected : ~Present(jobs[j])

(***************************************************************************)
(* PruneKeys drops a job because "the job has already been persisted in    *)
(* its terminal form".                                                     *)
(***************************************************************************)
EvictedIsPersisted ==
    [][\A j \in JobIds :
          restarts' = restarts /\ Present(jobs[j]) /\ ~Present(jobs'[j]) /\ ~WriterInFlight(j) =>
          isTerminalStatus(store[j].status)]_vars

(***************************************************************************)
(* PruneTerminalJobs "deletes jobs in succeeded/failed/expired status      *)
(* whose created_at predates the cutoff": none is left after a pass.       *)
(***************************************************************************)
RetentionPrunes ==
    [][prunedTo' # prunedTo =>
          \A j \in JobIds : store'[j].status \in {"succeeded", "failed", "expired"} =>
              store'[j].created >= toUnix(prunedTo')]_vars
-----------------------------------------------------------------------------
(***************************************************************************)
(* Fairness.  The clock runs; a goroutine that is in a store call gets an  *)
(* answer and goes on; the agent's stream comes back often enough for its  *)
(* dispatch loop to run, to send and to mark a job (the loop is driven by  *)
(* a ticker, and sync.RWMutex does not starve a waiter).                   *)
(***************************************************************************)
CallerStep(c) ==
    \/ PutJob(c) \/ PersistFails(c) \/ EnqueuePublish(c) \/ PersistCheck(c)
    \/ \E a \in Agents : PutJobTarget(c, a)

Fairness ==
    /\ WF_vars(Tick)
    /\ \A c \in Callers : WF_vars(CallerStep(c))
    /\ \A a \in Agents : SF_vars(\E c \in Dispatchers : PendingForAgent(c, a))
    /\ \A a \in Agents, j \in JobIds :
          SF_vars(SendJob(a, j)) /\ SF_vars(\E c \in Dispatchers : MarkDelivered(c, a, j))

FairSpec == Spec /\ Fairness

(***************************************************************************)
(* A job with a TTL does not stay live for ever, although nothing but the  *)
(* read paths and the target updates ever expires it.                      *)
(***************************************************************************)
ExpiryHappens ==
    \A j \in JobIds :
        (CanExpire(jobs[j]) /\ Deadline(jobs[j]) < MaxTime) ~> ~CanExpire(jobs[j])

(***************************************************************************)
(* A queued target leaves the queue: it is sent, or it ends.               *)
(***************************************************************************)
QueuedIsSent ==
    \A j \in JobIds, a \in Agents : (jobs[j].tgt[a].st = "queued") ~> (jobs[j].tgt[a].st # "queued")
=============================================================================
