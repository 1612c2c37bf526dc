---- MODULE ConfigRollout ----
(***************************************************************************)
(* Config-apply batches (server/config_apply_batches.go).  A request       *)
(* stores a running batch with a pending target per node, then for each    *)
(* node enqueues a config.apply job and records its id on the target row.  *)
(* A worker polls the running batches: it adopts the job of a target that  *)
(* has none recorded, derives every target's outcome from its job, and     *)
(* when all are terminal writes the outcomes and the rollout's verdict.    *)
(*                                                                         *)
(* The request and the worker share nothing but the rows and the queue.    *)
(* The queue is JobService; here a job is queued, ends, and may be         *)
(* forgotten (evicted and pruned).  The job of batch b for node n is       *)
(* <<b, n>>, so a row names a job by the batch that enqueued it.           *)
(***************************************************************************)
EXTENDS Integers, Sequences, FiniteSets

CONSTANTS
  Batches, Hosts,
  NoJob,           \* model value: the empty job id
  MaxMischance     \* bound: failed calls, restarts, forgotten jobs

ASSUME RolloutAssumption ==
  /\ IsFiniteSet(Batches) /\ IsFiniteSet(Hosts) /\ NoJob \notin Batches
  /\ MaxMischance \in Nat

VARIABLES
  rollout,   \* rows of config_apply_batches: status, and how many jobs are older
             \* than created_at_unix
  target,    \* rows of config_apply_batch_targets: status and job_id
  applyJob,  \* jobs: their state
  created,   \* the jobs in the order of their CreatedAt
  request,   \* per batch: the request that fans it out
  listed,    \* the batches ListRunningConfigApplyBatches returned, still to advance
  advance,   \* advanceConfigApplyBatch in progress
  mischance,
  reached,   \* history: jobs that succeeded on their node
  raced,     \* history: batches judged while their request was fanning out
  foreign    \* history: targets that adopted the job of another batch

rolloutVars == <<rollout, target, applyJob, created, request, listed, advance, mischance,
                 reached, raced, foreign>>
rolloutHistory == <<reached, raced, foreign>>

NoTarget == [status |-> "none", job |-> NoJob]
NoRequest == [step |-> "idle", left |-> {}, host |-> "none", queued |-> FALSE]
NotAdvancing == [step |-> "idle", on |-> NoJob, rows |-> [h \in Hosts |-> NoTarget],
                 left |-> {}, verdict |-> [h \in Hosts |-> "none"]]

\* "lost" is failed with configApplyMsgJobLost.
Terminal == {"succeeded", "failed", "lost"}
isTerminalConfigApplyTargetStatus(s) == s \in Terminal

RolloutTypeOK ==
  /\ mischance \in 0..MaxMischance
  /\ \A b \in Batches :
       /\ rollout[b].status \in {"none", "running", "succeeded", "failed", "pruned"}
       /\ rollout[b].older \in 0..Len(created)
       /\ request[b].step \in {"idle", "enqueue", "record", "failing", "over"}
       /\ request[b].left \subseteq Hosts
       /\ request[b].step = "record" => request[b].host \in Hosts \ request[b].left
       /\ \A h \in Hosts :
            /\ target[b][h].status \in {"none", "pending", "running"} \cup Terminal
            /\ target[b][h].job \in Batches \cup {NoJob}
            /\ target[b][h].job # NoJob => applyJob[target[b][h].job][h] # "none"
            /\ applyJob[b][h] \in {"none", "queued", "succeeded", "failed", "forgotten"}
            /\ rollout[b].status \in {"none", "pruned"} => target[b][h] = NoTarget
  /\ listed \subseteq Batches
  /\ advance.step \in {"idle", "derive", "write", "flip"}
  /\ advance.left \subseteq Hosts
  /\ {reached, foreign} \subseteq SUBSET (Batches \X Hosts) /\ raced \subseteq Batches

RolloutInit ==
  /\ rollout = [b \in Batches |-> [status |-> "none", older |-> 0]]
  /\ target = [b \in Batches |-> [h \in Hosts |-> NoTarget]]
  /\ applyJob = [b \in Batches |-> [h \in Hosts |-> "none"]] /\ created = <<>>
  /\ request = [b \in Batches |-> NoRequest]
  /\ listed = {} /\ advance = NotAdvancing
  /\ mischance = 0 /\ reached = {} /\ raced = {} /\ foreign = {}

Mischance == mischance < MaxMischance /\ mischance' = mischance + 1

(***************************************************************************)
(* createConfigApplyBatchCore.  The batch and its targets are one          *)
(* transaction.  A job id may stay empty: nothing to apply, the target is  *)
(* done.  The row keeps whole seconds: the jobs older than it are some of  *)
(* those that exist.                                                       *)
(***************************************************************************)
CreateConfigApplyBatch(b, hosts) ==
  /\ rollout[b].status = "none"
  /\ \E n \in 0..Len(created) :
       /\ \A c \in Batches : rollout[c].older <= n
       /\ rollout' = [rollout EXCEPT ![b] = [status |-> "running", older |-> n]]
  /\ target' = [target EXCEPT ![b] =
                  [h \in Hosts |-> IF h \in hosts THEN [status |-> "pending", job |-> NoJob]
                                                  ELSE NoTarget]]
  /\ request' = [request EXCEPT ![b] = [NoRequest EXCEPT !.step = "enqueue", !.left = hosts]]
  /\ UNCHANGED <<applyJob, created, listed, advance, mischance, rolloutHistory>>

enqueueConfigApplyJob(b, h) ==
  /\ request[b].step = "enqueue" /\ h \in request[b].left
  /\ \/ /\ \E q \in BOOLEAN :
             /\ request' = [request EXCEPT ![b] = [step |-> "record", left |-> @.left \ {h},
                                                   host |-> h, queued |-> q]]
             /\ IF q THEN /\ applyJob' = [applyJob EXCEPT ![b][h] = "queued"]
                          /\ created' = Append(created, <<b, h>>)
                     ELSE UNCHANGED <<applyJob, created>>
        /\ UNCHANGED mischance
     \/ /\ Mischance /\ request' = [request EXCEPT ![b].step = "failing"]
        /\ UNCHANGED <<applyJob, created>>
  /\ UNCHANGED <<rollout, target, listed, advance, rolloutHistory>>

\* An UPDATE by key: it writes no row that is gone and asks no old status.
WriteRow(b, h, row) ==
  IF target[b][h] = NoTarget THEN target ELSE [target EXCEPT ![b][h] = row]

RecordedRow(b, queued) ==
  IF queued THEN [status |-> "running", job |-> b] ELSE [status |-> "succeeded", job |-> NoJob]

SetConfigApplyBatchTargetJob(b) ==
  LET r == request[b] IN
  /\ r.step = "record"
  /\ \/ /\ target' = WriteRow(b, r.host, RecordedRow(b, r.queued))
        /\ request' = [request EXCEPT ![b] = [NoRequest EXCEPT
                         !.step = IF r.left = {} THEN "over" ELSE "enqueue", !.left = r.left]]
        /\ UNCHANGED mischance
     \/ /\ Mischance /\ request' = [request EXCEPT ![b].step = "failing"]
        /\ UNCHANGED target
  /\ UNCHANGED <<rollout, applyJob, created, listed, advance, rolloutHistory>>

SetStatus(b, s) ==
  rollout' = IF rollout[b].status = "pruned" THEN rollout ELSE [rollout EXCEPT ![b].status = s]

\* What failed the call may fail this write too.
markConfigApplyBatchFailed(b) ==
  /\ request[b].step = "failing"
  /\ SetStatus(b, "failed") \/ UNCHANGED rollout
  /\ request' = [request EXCEPT ![b] = [NoRequest EXCEPT !.step = "over"]]
  /\ UNCHANGED <<target, applyJob, created, listed, advance, mischance, rolloutHistory>>

(***************************************************************************)
(* The queue and the nodes.  An expired job counts as failed.              *)
(***************************************************************************)
JobEnds(b, h, s) ==
  /\ applyJob[b][h] = "queued"
  /\ applyJob' = [applyJob EXCEPT ![b][h] = s]
  /\ reached' = IF s = "succeeded" THEN reached \cup {<<b, h>>} ELSE reached
  /\ UNCHANGED <<rollout, target, created, request, listed, advance, mischance, raced, foreign>>

\* Retention acts on what is days old: no request or pass is under way.
Settled == advance.step = "idle" /\ \A b \in Batches : request[b].step \in {"idle", "over"}

JobForgotten(b, h) ==
  /\ Settled
  /\ applyJob[b][h] \in {"succeeded", "failed"} /\ Mischance
  /\ applyJob' = [applyJob EXCEPT ![b][h] = "forgotten"]
  /\ UNCHANGED <<rollout, target, created, request, listed, advance, rolloutHistory>>

(***************************************************************************)
(* The worker.  It adopts the first job of the node that is not older than *)
(* the batch row.                                                          *)
(***************************************************************************)
pollConfigApplyBatches ==
  /\ advance.step = "idle" /\ listed = {}
  /\ listed' = {b \in Batches : rollout[b].status = "running"}
  /\ listed' # {}
  /\ UNCHANGED <<rollout, target, applyJob, created, request, advance, mischance, rolloutHistory>>

\* The rows are read afresh, the status is the one the list returned.
GetConfigApplyBatch(b) ==
  /\ advance.step = "idle" /\ b \in listed
  /\ listed' = listed \ {b}
  /\ advance' = IF rollout[b].status = "pruned" THEN advance
                 ELSE [NotAdvancing EXCEPT
                         !.step = "derive", !.on = b, !.rows = target[b],
                         !.left = {h \in Hosts : target[b][h] # NoTarget}]
  /\ UNCHANGED <<rollout, target, applyJob, created, request, mischance, rolloutHistory>>

NotOlder(b) == rollout[b].older + 1..Len(created)

\* Mutant: the creation time is not looked at.
AdoptsAnyJob(b, h) ==
  LET found == {j \in Batches : applyJob[j][h] \in {"queued", "succeeded", "failed"}}
  IN  IF found = {} THEN {NoJob} ELSE found

\* Mutant: no adoption.
AdoptsNone(b, h) == {NoJob}

findConfigApplyJobForTarget(b, h) ==
  LET found == {i \in NotOlder(b) : /\ created[i][2] = h
                                    /\ applyJob[created[i][1]][h] # "forgotten"}
  IN  IF found = {} THEN {NoJob}
      ELSE {created[i][1] : i \in {i \in found : \A k \in found : i <= k}}

\* Mutant: a job that is nowhere to be found is still awaited.
LostIsAwaited(j, h) ==
  IF j = NoJob \/ applyJob[j][h] = "forgotten" THEN "pending"
  ELSE IF applyJob[j][h] = "queued" THEN "running" ELSE applyJob[j][h]

configApplyJobStatus(j, h) ==
  IF j = NoJob \/ applyJob[j][h] = "forgotten" THEN "lost"
  ELSE IF applyJob[j][h] = "queued" THEN "running" ELSE applyJob[j][h]

Derives(h, s) ==
  LET verdict == [advance.verdict EXCEPT ![h] = s]
      left == advance.left \ {h}
      news == {k \in Hosts : verdict[k] \notin {"none", advance.rows[k].status}}
  IN  IF ~isTerminalConfigApplyTargetStatus(s) THEN advance' = NotAdvancing
      ELSE advance' = IF left # {} THEN [advance EXCEPT !.verdict = verdict, !.left = left]
                      ELSE [advance EXCEPT !.verdict = verdict, !.left = news,
                              !.step = IF news = {} THEN "flip" ELSE "write"]

DeriveTarget(h) ==
  LET b == advance.on  row == advance.rows[h] IN
  /\ advance.step = "derive" /\ h \in advance.left
  /\ \/ /\ isTerminalConfigApplyTargetStatus(row.status)
        /\ Derives(h, row.status)
        /\ UNCHANGED <<target, mischance, raced, foreign>>
     \/ /\ ~isTerminalConfigApplyTargetStatus(row.status)
        /\ \E j \in IF row.job # NoJob THEN {row.job} ELSE findConfigApplyJobForTarget(b, h) :
             /\ IF row.job = NoJob /\ j # NoJob
                THEN \/ target' = WriteRow(b, h, [status |-> "running", job |-> j])
                        /\ UNCHANGED mischance
                     \/ Mischance /\ UNCHANGED target
                ELSE UNCHANGED <<target, mischance>>
             /\ Derives(h, configApplyJobStatus(j, h))
             /\ raced' = IF j = NoJob /\ request[b].step \in {"enqueue", "record"}
                         THEN raced \cup {b} ELSE raced
             /\ foreign' = IF row.job = NoJob /\ j \notin {NoJob, b}
                           THEN foreign \cup {<<b, h>>} ELSE foreign
  /\ UNCHANGED <<rollout, applyJob, created, request, listed, reached>>

UpdateConfigApplyBatchTargetStatus(h) ==
  LET b == advance.on  left == advance.left \ {h} IN
  /\ advance.step = "write" /\ h \in advance.left
  /\ target' = WriteRow(b, h, [target[b][h] EXCEPT !.status = advance.verdict[h]])
  /\ advance' = [advance EXCEPT !.left = left, !.step = IF left = {} THEN "flip" ELSE "write"]
  /\ UNCHANGED <<rollout, applyJob, created, request, listed, mischance, rolloutHistory>>

FinalizeBatch ==
  /\ advance.step = "flip"
  /\ SetStatus(advance.on, IF \E h \in Hosts : advance.verdict[h] \in {"failed", "lost"}
                           THEN "failed" ELSE "succeeded")
  /\ advance' = NotAdvancing
  /\ UNCHANGED <<target, applyJob, created, request, listed, mischance, rolloutHistory>>

\* A read or a write of the worker fails; the batch waits for the next tick.
AdvanceFails ==
  /\ advance.step # "idle" /\ Mischance
  /\ advance' = NotAdvancing
  /\ UNCHANGED <<rollout, target, applyJob, created, request, listed, rolloutHistory>>

PruneConfigApplyBatches(b) ==
  /\ Settled /\ rollout[b].status \in {"succeeded", "failed"}
  /\ rollout' = [rollout EXCEPT ![b].status = "pruned"]
  /\ target' = [target EXCEPT ![b] = [h \in Hosts |-> NoTarget]]
  /\ UNCHANGED <<applyJob, created, request, listed, advance, mischance, rolloutHistory>>

RolloutPanelRestarts ==
  /\ Mischance
  /\ request' = [b \in Batches |-> IF request[b].step = "idle" THEN NoRequest
                                    ELSE [NoRequest EXCEPT !.step = "over"]]
  /\ listed' = {} /\ advance' = NotAdvancing
  /\ UNCHANGED <<rollout, target, applyJob, created, rolloutHistory>>

Worker ==
  \/ pollConfigApplyBatches \/ FinalizeBatch
  \/ \E b \in Batches : GetConfigApplyBatch(b)
  \/ \E h \in Hosts : DeriveTarget(h) \/ UpdateConfigApplyBatchTargetStatus(h)

JobEnding(b, h) == JobEnds(b, h, "succeeded") \/ JobEnds(b, h, "failed")

RolloutNext ==
  \/ \E b \in Batches : \/ \E hosts \in (SUBSET Hosts) \ {{}} : CreateConfigApplyBatch(b, hosts)
                        \/ \E h \in Hosts : enqueueConfigApplyJob(b, h)
                        \/ SetConfigApplyBatchTargetJob(b) \/ markConfigApplyBatchFailed(b)
                        \/ \E h \in Hosts : JobEnding(b, h) \/ JobForgotten(b, h)
                        \/ PruneConfigApplyBatches(b)
  \/ Worker \/ AdvanceFails \/ RolloutPanelRestarts

(***************************************************************************)
(* The worker's ticker runs as long as the panel, and the queue ends every *)
(* job (JobService.ExpiryHappens).  The request owes no progress.          *)
(***************************************************************************)
RolloutFairness ==
  /\ WF_rolloutVars(Worker)
  /\ \A b \in Batches, h \in Hosts : WF_rolloutVars(JobEnding(b, h))

RolloutSpec == RolloutInit /\ [][RolloutNext]_rolloutVars
RolloutLiveSpec == RolloutSpec /\ RolloutFairness

(***************************************************************************)
(* A succeeded batch: each of its nodes had nothing to apply or applied    *)
(* the job this batch enqueued for it, however often panel and worker were *)
(* cut short.  The exception is a target whose job id was not recorded     *)
(* when the worker came by and that adopted the job of another batch: then *)
(* that node applied a job not older than the batch's second.              *)
(***************************************************************************)
OwnApplied(b, h) == <<b, h>> \in reached

AdoptedApplied(b, h) ==
  /\ <<b, h>> \in foreign
  /\ \E i \in NotOlder(b) : created[i][2] = h /\ created[i] \in reached

BatchSucceededIsApplied ==
  \A b \in Batches : rollout[b].status = "succeeded" =>
    \A h \in Hosts :
      \/ target[b][h] \in {NoTarget, RecordedRow(b, FALSE)}
      \/ OwnApplied(b, h) \/ AdoptedApplied(b, h)

(***************************************************************************)
(* What the comments say, "the job that was actually created for this      *)
(* target" and "cannot predate the batch", without the exception.  It does *)
(* not hold: a batch whose enqueue the panel did not live to see adopts    *)
(* the job another batch has on the node, of the same second or later.     *)
(***************************************************************************)
SucceededIsOwn ==
  \A b \in Batches : rollout[b].status = "succeeded" =>
    \A h \in Hosts : target[b][h] \in {NoTarget, RecordedRow(b, FALSE)} \/ OwnApplied(b, h)

(***************************************************************************)
(* "job lost" is never said of a target whose job the queue has, unless    *)
(* the worker judged the batch while its request was still fanning out:    *)
(* what a restart of the panel interrupts is adopted, not lost.  A target  *)
(* may have adopted the job of a later batch; then that is its job.        *)
(***************************************************************************)
LostIsTrue ==
  \A b \in Batches \ raced, h \in Hosts : target[b][h].status = "lost" =>
    LET j == IF target[b][h].job = NoJob THEN b ELSE target[b][h].job
    IN  applyJob[j][h] \in {"none", "forgotten"}

(***************************************************************************)
(* Every batch is finalized: no lost job, crash or failed write leaves it  *)
(* running for ever.                                                       *)
(***************************************************************************)
BatchesEnd == \A b \in Batches : rollout[b].status = "running" ~> rollout[b].status # "running"

(***************************************************************************)
(* "never mis-finalize": a batch none of whose calls failed is failed only *)
(* if some node did not apply it.  Violated: the worker ticks between the  *)
(* insert of the batch and the first enqueue, finds no job, and fails a    *)
(* batch whose job is then enqueued and succeeds.                          *)
(***************************************************************************)
FailedIsTrue ==
  \A b \in Batches : rollout[b].status = "failed" /\ mischance = 0 =>
    \E h \in Hosts : target[b][h] # NoTarget /\ <<b, h>> \notin reached
====
