----------------------------- MODULE JobStatus -----------------------------
(***************************************************************************)
(* The vocabulary of internal/controlplane/jobs/service.go: job and target *)
(* records, the rule that collapses target states into a job status, the   *)
(* TTL test and the redelivery test.  Pure operators, shared by the job    *)
(* service and by the modules that deliver its jobs.                       *)
(*                                                                         *)
(* Time is a natural number; 0 is Go's zero time.Time ("not set").         *)
(***************************************************************************)
EXTENDS Integers

CONSTANTS
    Agents,   \* agent identifiers
    Keys,     \* idempotency keys
    Groups,   \* supersede groups (what the injected supersedeKey rule returns)
    NoKey,    \* the key field of a record that is not there
    NoGroup   \* the empty supersede key

ASSUME NamesAssumption ==
    /\ NoKey \notin Keys
    /\ NoGroup \notin Groups

ZeroTime == 0

Status == {"queued", "running", "succeeded", "failed", "expired", "partial"}
TargetStatus == {"queued", "sent", "acknowledged", "succeeded", "failed", "expired"}

(***************************************************************************)
(* "absent" is the status of a job that is not in the map (or of a row     *)
(* that is not in the table); "none" that of an agent the job does not     *)
(* target.                                                                 *)
(***************************************************************************)
JobTarget == [st : TargetStatus \cup {"none"}, at : Nat]
NoTarget == [st |-> "none", at |-> ZeroTime]

Job == [status  : Status \cup {"absent"},
        created : Nat,
        ttl     : Nat,
        key     : Keys \cup {NoKey},
        group   : Groups \cup {NoGroup},
        tgt     : [Agents -> JobTarget]]

Absent == [status |-> "absent", created |-> ZeroTime, ttl |-> 0,
           key |-> NoKey, group |-> NoGroup,
           tgt |-> [a \in Agents |-> NoTarget]]

Present(job) == job.status # "absent"

isTerminalStatus(status) == status \in {"succeeded", "failed", "expired", "partial"}
LiveStatus(status) == status \in {"queued", "running"}

TerminalTarget(target) == target.st \in {"succeeded", "failed", "expired"}
LiveTarget(target) == target.st \in {"queued", "sent", "acknowledged"}

TargetsOf(job) == {a \in Agents : job.tgt[a].st # "none"}

(***************************************************************************)
(* deriveJobStatus: the job status that a map of target states stands for. *)
(***************************************************************************)
deriveJobStatus(tgt) ==
    LET seen     == {tgt[a].st : a \in Agents} \ {"none"}
        inFlight == seen \cap {"sent", "acknowledged"} # {}
    IN  IF seen = {"succeeded"} THEN "succeeded"
        ELSE IF inFlight \/ ("queued" \in seen /\ seen # {"queued"}) THEN "running"
        ELSE IF "succeeded" \in seen THEN "partial"
        ELSE IF "failed" \in seen THEN "failed"
        ELSE IF "expired" \in seen THEN "expired"
        ELSE "queued"

(***************************************************************************)
(* A job that can still time out: it is live and carries a TTL.            *)
(***************************************************************************)
(* Mutant: a job that was sent once is no longer subject to its TTL. *)
CanExpireQueued(job) == job.ttl > 0 /\ job.status = "queued"

CanExpire(job) == job.ttl > 0 /\ LiveStatus(job.status)
Deadline(job) == job.created + job.ttl
jobShouldExpire(job, t) == CanExpire(job) /\ t > Deadline(job)

(***************************************************************************)
(* targetIsPending: queued targets always, sent and acknowledged ones      *)
(* after retryAfter without a status change.                               *)
(***************************************************************************)
targetIsPending(target, t, retryAfter) ==
    \/ target.st = "queued"
    \/ target.st \in {"sent", "acknowledged"} /\ t >= target.at + retryAfter

(***************************************************************************)
(* expireJobTargets: every target that is not terminal becomes expired.    *)
(* The job status is forced, whatever the other targets say.               *)
(***************************************************************************)
expireJobTargets(job, t) ==
    [job EXCEPT !.status = "expired",
                !.tgt = [a \in Agents |->
                            IF LiveTarget(@[a]) THEN [st |-> "expired", at |-> t] ELSE @[a]]]

(***************************************************************************)
(* Creation order: CreatedAt, ties broken by the job number (the ids are   *)
(* zero padded, so their string order is the numeric one).                 *)
(***************************************************************************)
CreatedBefore(i, left, j, right) ==
    \/ left.created < right.created
    \/ left.created = right.created /\ i < j
=============================================================================
