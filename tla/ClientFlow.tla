----------------------------- MODULE ClientFlow -----------------------------
(***************************************************************************)
(* How a managed client reaches a node: the flows of the clients service   *)
(* (controlplane/clients), the job queue as it appears to them, and the    *)
(* agent that applies client jobs to Telemt (agent/runtime).               *)
(*                                                                         *)
(* One node is represented.  All clients of the model carry the same name, *)
(* the Telemt user name, so that a name is freed by a delete and taken     *)
(* again by a later client.  Everything an operator can change about a     *)
(* client (secret, limits, expiration) is one number, the clock reading of *)
(* the change; a job's payload is frozen with that number.                 *)
(*                                                                         *)
(* A flow reads the mirror, saves client and deployments in one            *)
(* transaction and then enqueues the job: three steps that interleave with *)
(* other flows, with the reconciler, with the results coming back and with *)
(* the expiry hook.  The mirror and the tables change together, under the  *)
(* save lock of the client.                                                *)
(***************************************************************************)
EXTENDS Naturals, Sequences, FiniteSets

CONSTANTS
  Clients,      \* client ids, all of one name
  NoClient,     \* no owner
  Deployed,     \* the client that is on the node to begin with
  Operators,    \* concurrent HTTP requests
  Passes,       \* concurrent passes of the reconciler
  MaxNow,       \* bound: clock readings taken
  MaxFlows,     \* bound: operator requests
  MaxMishaps    \* bound: faults, crashes, expiries and lost messages together

ASSUME ClientConstants ==
  /\ NoClient \notin Clients /\ Deployed \in Clients
  /\ MaxNow \in Nat \ {0} /\ MaxFlows \in Nat /\ MaxMishaps \in Nat

VARIABLES
  now,       \* the last clock reading; no two readings are equal
  row,       \* client -> its row: [phase, ver]
  dep,       \* client -> its deployment on the node: [op, st]
  targeted,  \* whether the node is a target of the assignments
  flow,      \* operator -> the request being served
  pass,      \* pass -> the client it is about to re-send
  tried,     \* clients the reconciler has re-sent within its throttle
  jobs,      \* the jobs whose target is still live
  effects,   \* results recorded in the queue, not yet in the deployment
  sweep,     \* the deployment the expiry hook has read and will persist
  lane,      \* agent: jobs delivered and not yet run
  ran,       \* agent: results of the jobs this process has run
  holder,    \* agent: the client its registry has under the name
  user,      \* Telemt: the user of that name, [owner, ver]
  results,   \* results on their way to the panel
  asked,     \* ghost, client -> what the last save asks of the node, [ver, at]: the version
             \* it is to have, and the clock reading of the request that saved
  excused,   \* ghost: clients that a race the code leaves open has hit since
  budget     \* [flows, mishaps] left

clientVars == <<now, row, dep, targeted, flow, pass, tried, jobs, effects, sweep, lane,
                ran, holder, user, results, asked, excused, budget>>
agentVars == <<lane, ran, holder, user>>
panelVars == <<row, dep, targeted, flow, pass, tried>>
ghostVars == <<asked, excused>>

Actions == {"create", "update", "rotate", "delete"}
Requests == Actions \union {"redeploy", "token", "move"}

\* Version 0: the user does not exist, or exists disabled and proxies nothing.
Absent == 0
NoUser == [owner |-> NoClient, ver |-> Absent]
NoDep == [op |-> "none", st |-> "none"]
Idle == [pc |-> "idle", req |-> "none", client |-> NoClient, ver |-> 0, created |-> 0,
         old |-> NoDep, todo |-> {}, target |-> FALSE, asof |-> 0]
NoPass == [pc |-> "idle", client |-> NoClient, act |-> "none", phase |-> "none",
           ver |-> 0, created |-> 0]
NoSweep == [client |-> NoClient, op |-> "none"]

\* The types; above all, a deployment has an operation exactly when it has a
\* status, and two live jobs of a client have different creation times.
ClientTypeOK ==
  /\ now \in 0 .. MaxNow
  /\ \A c \in Clients :
       /\ row[c].phase \in {"none", "live", "deleted"} /\ row[c].ver \in 0 .. MaxNow
       /\ dep[c].op \in Actions \union {"none"}
       /\ dep[c].st \in {"none", "queued", "awaiting", "succeeded", "failed"}
       /\ (dep[c].op = "none") <=> (dep[c].st = "none")
       /\ (row[c].phase = "none") => (dep[c] = NoDep)
       /\ \A j, k \in jobs : j.client = c /\ k.client = c /\ j.created = k.created => j = k
  /\ targeted \in BOOLEAN
  /\ \A j \in jobs : j.act \in Actions /\ j.created \in 1 .. now
  /\ holder \in Clients \union {NoClient}
  /\ user.owner \in Clients \union {NoClient}

\* A panel that has just restored its tables, and an agent that has been running
\* since it created the one client there is.
ClientInit ==
  /\ now = 1
  /\ row = [c \in Clients |-> IF c = Deployed THEN [phase |-> "live", ver |-> 1]
                              ELSE [phase |-> "none", ver |-> 0]]
  /\ dep = [c \in Clients |-> IF c = Deployed THEN [op |-> "create", st |-> "succeeded"] ELSE NoDep]
  /\ targeted = TRUE
  /\ flow = [o \in Operators |-> Idle]
  /\ pass = [p \in Passes |-> NoPass]
  /\ tried = {} /\ jobs = {} /\ effects = {}
  /\ sweep = NoSweep
  /\ lane = <<>> /\ ran = {}
  /\ holder = Deployed /\ user = [owner |-> Deployed, ver |-> 1]
  /\ results = {}
  /\ asked = [c \in Clients |-> [ver |-> row[c].ver, at |-> row[c].ver]]
  /\ excused = {}
  /\ budget = [flows |-> MaxFlows, mishaps |-> MaxMishaps]

Mishap ==
  /\ budget.mishaps > 0
  /\ budget' = [budget EXCEPT !.mishaps = @ - 1]

Tick == now < MaxNow /\ now' = now + 1

---------------------------------------------------------------------------
(* The queue, as clients.Service uses it.                                  *)

\* nameOwnersByAgent: another living client deployed here and not being removed.
NameOwner(c) ==
  LET others == {d \in Clients \ {c} : /\ row[d].phase = "live"
                                       /\ dep[d].op \notin {"none", "delete"}}
  IN  IF others = {} THEN NoClient ELSE CHOOSE d \in others : TRUE

\* EnqueueClientJob: a tombstoned client is sent with enabled = false.
NewJob(c, act, phase, ver, created) ==
  [client |-> c, act |-> act, ver |-> IF phase = "live" THEN ver ELSE Absent,
   created |-> created, owner |-> IF act = "delete" THEN NameOwner(c) ELSE NoClient,
   asof |-> asked[c].at]

\* JobSupersedeKey, and the rule of jobs.Service: an older job of the client.
Superseded(j, new) == j.client = new.client /\ j.created < new.created

InLane == {lane[i] : i \in DOMAIN lane}

\* Ghost: the job was made after the save that asked for want, and does what it asks.
Meets(j, want) ==
  /\ j.asof = want.at
  /\ IF j.act = "delete" THEN want.ver = Absent ELSE want.ver # Absent /\ j.ver = want.ver
Current(j) == Meets(j, asked[j.client])

\* CreatedAt is the clock at the start of the request or pass, so a job with an
\* older payload may count as the newer one.
Outruns(j, new) == j.client = new.client /\ j.created > new.created /\ ~Current(j)

\* The races: the payload or the action is no longer what was asked for, or an
\* older one stays behind.
EnqueueJob(new) ==
  /\ jobs' = {j \in jobs : ~Superseded(j, new)} \union {new}
  /\ excused' = IF ~Current(new) \/ \E j \in jobs \union InLane : Outruns(j, new)
                THEN excused \union {new.client} ELSE excused

\* Ghost: a save asks for version ver of the client, and what raced with an earlier one
\* no longer counts.  The name is checked when a request begins; requests that overlap
\* may leave two clients that both ask for it.
SaveAsks(c, ver, at) ==
  LET rivals == {b \in Clients \ {c} : asked[b].ver # Absent}
  IN  /\ asked' = [asked EXCEPT ![c] = [ver |-> ver, at |-> at]]
      /\ excused' = IF ver = Absent \/ rivals = {} THEN excused \ {c}
                    ELSE excused \union rivals \union {c}

---------------------------------------------------------------------------
(* Operator requests.                                                      *)

NameTaken(c) == \E d \in Clients \ {c} : row[d].phase = "live"

\* What a request makes of the row it read.
NewVer(req, ver, created) ==
  IF req \in {"create", "update", "rotate"} THEN created ELSE ver

JobAction(req) == IF req = "redeploy" THEN "create" ELSE req

\* Create, Update, RotateSecret, Redeploy, RotateSubscriptionToken, DeleteFlow:
\* the checks, the read of the mirror and the targets.
FlowReads(o, c, req) ==
  /\ flow[o] = Idle /\ budget.flows > 0
  /\ IF req = "create" THEN row[c].phase = "none" /\ ~NameTaken(c) /\ targeted
                       ELSE row[c].phase = "live"
  /\ req = "redeploy" => targeted
  /\ Tick
  /\ flow' = [flow EXCEPT ![o] =
       [pc |-> "read", req |-> req, client |-> c, created |-> now + 1,
        ver |-> NewVer(req, row[c].ver, now + 1), old |-> dep[c], todo |-> {},
        target |-> targeted, asof |-> asked[c].at]]
  /\ budget' = [budget EXCEPT !.flows = @ - 1]
  /\ UNCHANGED <<row, dep, targeted, pass, tried, jobs, effects, sweep, agentVars,
                 results, ghostVars>>

\* BuildDeployments for the one node.
Rebuilt(old, target, act) ==
  CASE target \/ (act = "delete" /\ old # NoDep) -> [op |-> act, st |-> "queued"]
    [] ~target /\ act # "delete" /\ old # NoDep -> [op |-> "delete", st |-> "queued"]
    [] OTHER -> old

\* The version the node is to have after a save.
AskedVer(d, phase, ver) == IF phase = "live" /\ d.op # "delete" THEN ver ELSE Absent

\* RotateSubscriptionToken saves the deployments as it read them and sends no job: a
\* race, if another request has saved since.
SavedDep(f) == IF f.req = "token" THEN f.old ELSE Rebuilt(f.old, f.target, JobAction(f.req))

\* saveStateAndPublish.
FlowSaves(o) ==
  LET f == flow[o]
      c == f.client
      d == SavedDep(f)
      phase == IF f.req = "delete" THEN "deleted" ELSE "live"
  IN  /\ f.pc = "read"
      /\ row' = [row EXCEPT ![c] = [phase |-> phase, ver |-> f.ver]]
      /\ dep' = [dep EXCEPT ![c] = d]
      /\ IF f.req # "token" THEN SaveAsks(c, AskedVer(d, phase, f.ver), f.created)
         ELSE /\ excused' = IF asked[c].at = f.asof THEN excused ELSE excused \union {c}
              /\ UNCHANGED asked
      /\ flow' = [flow EXCEPT ![o] = IF f.req = "token" THEN Idle
                                     ELSE [f EXCEPT !.pc = "saved", !.old = d]]
      /\ UNCHANGED <<now, targeted, pass, tried, jobs, effects, sweep, agentVars, results,
                     budget>>

\* The transaction fails: the request ends with an error.
FlowSaveFails(o) ==
  /\ flow[o].pc = "read"
  /\ Mishap
  /\ flow' = [flow EXCEPT ![o] = Idle]
  /\ UNCHANGED <<now, row, dep, targeted, pass, tried, jobs, effects, sweep, agentVars, results,
                 ghostVars>>

\* EnqueueClientJob or DispatchClientUpdateJobs, or nothing when no node is
\* concerned: RotateSecret asks the targets alone, so the removal it saved for a node
\* that is none any more is left to the reconciler.
NoNodeConcerned(f) == f.old = NoDep \/ (f.req = "rotate" /\ ~f.target)

\* The payload is the row the flow has saved.
FlowEnqueues(o) ==
  LET f == flow[o]
      c == f.client
      phase == IF f.req = "delete" THEN "deleted" ELSE "live"
  IN  /\ f.pc = "saved"
      /\ IF NoNodeConcerned(f) THEN UNCHANGED <<jobs, excused>>
         ELSE EnqueueJob(NewJob(c, f.old.op, phase, f.ver, f.created))
      /\ flow' = [flow EXCEPT ![o] = IF f.req = "move" THEN [f EXCEPT !.pc = "moving"] ELSE Idle]
      /\ UNCHANGED <<now, row, dep, targeted, pass, tried, effects, sweep, agentVars, results,
                     asked, budget>>

\* Enqueue returns an error: the deployment stays queued, without a job.
FlowEnqueueFails(o) ==
  /\ flow[o].pc = "saved"
  /\ Mishap
  /\ flow' = [flow EXCEPT ![o] = IF flow[o].req = "move" THEN [flow[o] EXCEPT !.pc = "moving"] ELSE Idle]
  /\ UNCHANGED <<now, row, dep, targeted, pass, tried, jobs, effects, sweep, agentVars, results,
                 ghostVars>>

\* sameAgentSet: a row of any kind counts as a deployment.
SameAgentSet(c, target) == (dep[c] # NoDep) <=> target

\* The node changes its fleet group, and ReconcileTopology starts: the clients
\* whose targets differ from their deployments.
NodeMoves(o) ==
  /\ flow[o] = Idle /\ budget.flows > 0
  /\ Tick
  /\ targeted' = ~targeted
  /\ flow' = [flow EXCEPT ![o] = [Idle EXCEPT !.pc = "moving", !.req = "move", !.created = now + 1,
                                   !.todo = {c \in Clients : row[c].phase = "live" /\ ~SameAgentSet(c, ~targeted)}]]
  /\ budget' = [budget EXCEPT !.flows = @ - 1]
  /\ UNCHANGED <<row, dep, pass, tried, jobs, effects, sweep, agentVars, results, ghostVars>>

\* reconcileTopologyClient: read, compare and save under the save lock.
TopologySaves(o, c) ==
  LET f == flow[o]
      d == Rebuilt(dep[c], targeted, "update")
  IN  /\ f.pc = "moving" /\ c \in f.todo
      /\ IF row[c].phase = "live" /\ ~SameAgentSet(c, targeted)
         THEN /\ dep' = [dep EXCEPT ![c] = d]
              /\ SaveAsks(c, AskedVer(d, "live", row[c].ver), f.created)
              /\ flow' = [flow EXCEPT ![o] = [f EXCEPT !.pc = "saved", !.client = c, !.old = d,
                                               !.ver = row[c].ver, !.todo = @ \ {c}]]
         ELSE /\ flow' = [flow EXCEPT ![o] = [f EXCEPT !.todo = @ \ {c}]]
              /\ UNCHANGED <<dep, ghostVars>>
      /\ UNCHANGED <<now, row, targeted, pass, tried, jobs, effects, sweep, agentVars, results,
                     budget>>

\* Its transaction fails: logged, and on to the next client.
TopologySaveFails(o, c) ==
  /\ flow[o].pc = "moving" /\ c \in flow[o].todo
  /\ row[c].phase = "live" /\ ~SameAgentSet(c, targeted)
  /\ Mishap
  /\ flow' = [flow EXCEPT ![o] = [flow[o] EXCEPT !.todo = @ \ {c}]]
  /\ UNCHANGED <<now, row, dep, targeted, pass, tried, jobs, effects, sweep, agentVars, results,
                 ghostVars>>

TopologyDone(o) ==
  /\ flow[o].pc = "moving" /\ flow[o].todo = {}
  /\ flow' = [flow EXCEPT ![o] = Idle]
  /\ UNCHANGED <<now, row, dep, targeted, pass, tried, jobs, effects, sweep, agentVars, results,
                 ghostVars, budget>>

---------------------------------------------------------------------------
(* The reconciler.                                                         *)

\* Mutant: an expired deployment is not sent again.
DivergentForgetsExpired(d) == d.st = "queued"

\* divergentDeploymentAction.
Divergent(d) ==
  \/ d.st \in {"queued", "awaiting"}
  \/ d.st = "failed" /\ d.op \in {"delete", "rotate"}

\* ReconcileDeployments for one client: the snapshot, shouldRetry.
PassLists(p, c) ==
  /\ pass[p] = NoPass
  /\ row[c].phase # "none" /\ Divergent(dep[c]) /\ c \notin tried
  /\ Tick
  /\ tried' = tried \union {c}
  /\ pass' = [pass EXCEPT ![p] = [pc |-> "listed", client |-> c, act |-> dep[c].op,
                                  phase |-> row[c].phase, ver |-> row[c].ver,
                                  created |-> now + 1]]
  /\ UNCHANGED <<row, dep, targeted, flow, jobs, effects, sweep, agentVars, results, ghostVars,
                 budget>>

\* The fresh read before the enqueue.
FreshRow(q) == row[q.client]

\* A client tombstoned since the snapshot is left to DeleteFlow.
PassRereads(p) ==
  LET q == pass[p]
      fresh == FreshRow(q)
  IN  /\ q.pc = "listed"
      /\ pass' = [pass EXCEPT ![p] =
           IF fresh.phase = "deleted" /\ q.phase # "deleted" THEN NoPass
           ELSE [q EXCEPT !.pc = "reread", !.phase = fresh.phase, !.ver = fresh.ver]]
      /\ UNCHANGED <<now, row, dep, targeted, flow, tried, jobs, effects, sweep, agentVars,
                     results, ghostVars, budget>>

\* The re-enqueue.  A save after the fresh read is not noticed, nor that the
\* action of the snapshot is no longer the one asked for.
PassEnqueues(p) ==
  LET q == pass[p]
      c == q.client
  IN  /\ q.pc = "reread"
      /\ EnqueueJob(NewJob(c, q.act, q.phase, q.ver, q.created))
      /\ pass' = [pass EXCEPT ![p] = NoPass]
      /\ UNCHANGED <<now, row, dep, targeted, flow, tried, effects, sweep, agentVars, results,
                     asked, budget>>

\* Enqueue fails: logged, the next pass tries again.
PassEnqueueFails(p) ==
  /\ pass[p].pc = "reread"
  /\ Mishap
  /\ pass' = [pass EXCEPT ![p] = NoPass]
  /\ UNCHANGED <<now, row, dep, targeted, flow, tried, jobs, effects, sweep, agentVars, results,
                 ghostVars>>

\* clientReconcileMinInterval, ten minutes, has passed.  It is the TTL of the job
\* that was sent, which has been answered or has expired by then, and far longer
\* than a pass or the handling of a result takes.
ThrottleLapses(c) ==
  /\ c \in tried
  /\ \A j \in jobs \union {r.job : r \in effects} : j.client # c
  /\ \A p \in Passes : pass[p].client # c
  /\ tried' = tried \ {c}
  /\ UNCHANGED <<now, row, dep, targeted, flow, pass, jobs, effects, sweep, agentVars, results,
                 ghostVars, budget>>

---------------------------------------------------------------------------
(* Results and expiry.                                                     *)

\* recordJobResultState: the target is finished, if it still was live; the
\* effect is queued whether or not it was.
ReceiveResult(r) ==
  /\ r \in results
  /\ results' = results \ {r}
  /\ jobs' = jobs \ {r.job}
  /\ effects' = effects \union {r}
  /\ UNCHANGED <<now, panelVars, sweep, agentVars, ghostVars, budget>>

\* RecordJobResult: the operation becomes the job's, whatever has been saved since
\* the job was made.
RecordJobResult(r) ==
  LET c == r.job.client
  IN  /\ r \in effects
      /\ effects' = effects \ {r}
      /\ dep' = [dep EXCEPT ![c] = [op |-> r.job.act, st |-> IF r.ok THEN "succeeded" ELSE "failed"]]
      /\ tried' = IF r.ok THEN tried \ {c} ELSE tried
      /\ excused' = IF r.ok /\ ~Current(r.job) THEN excused \union {c} ELSE excused
      /\ UNCHANGED <<now, row, targeted, flow, pass, jobs, sweep, agentVars, results, asked, budget>>

\* PersistDeployment fails, and changes neither the table nor the mirror: logged, but
\* the reconciler has been told of the answer and the effect is not repeated.
ResultNotPersisted(r) ==
  /\ r \in effects
  /\ Mishap
  /\ effects' = effects \ {r}
  /\ tried' = IF r.ok THEN tried \ {r.job.client} ELSE tried
  /\ UNCHANGED <<now, row, dep, targeted, flow, pass, jobs, sweep, agentVars, results, ghostVars>>

\* OnClientJobsExpired leaves a success alone.
ExpiryMarks(c) == dep[c] # NoDep /\ dep[c].st # "succeeded"

\* A TTL lapses and the hook reads the deployment ...
JobExpires(j) ==
  /\ j \in jobs /\ sweep = NoSweep
  /\ Mishap
  /\ jobs' = jobs \ {j}
  /\ sweep' = IF ExpiryMarks(j.client) THEN [client |-> j.client, op |-> dep[j.client].op] ELSE sweep
  /\ UNCHANGED <<now, panelVars, effects, agentVars, results, ghostVars>>

\* ... and PersistDeployment, which takes no save lock.
ExpiryWrites ==
  /\ sweep # NoSweep
  /\ dep' = [dep EXCEPT ![sweep.client] = [op |-> sweep.op, st |-> "awaiting"]]
  /\ sweep' = NoSweep
  /\ UNCHANGED <<now, row, targeted, flow, pass, tried, jobs, effects, agentVars, results, ghostVars,
                 budget>>

\* It fails: the deployment stays as it was.  One failure per expiry at most, so
\* the bound on those is enough.
ExpiryNotPersisted ==
  /\ sweep # NoSweep
  /\ sweep' = NoSweep
  /\ UNCHANGED <<now, panelVars, jobs, effects, agentVars, results, ghostVars, budget>>

\* The panel dies.  Rows, deployments and jobs are in the tables; the worker's
\* first pass at the next start is PassLists.
PanelRestarts ==
  /\ Mishap
  /\ flow' = [o \in Operators |-> Idle]
  /\ pass' = [p \in Passes |-> NoPass]
  /\ tried' = {} /\ effects' = {} /\ results' = {}
  /\ sweep' = NoSweep
  /\ UNCHANGED <<now, row, dep, targeted, jobs, agentVars, ghostVars>>

---------------------------------------------------------------------------
(* The agent.                                                              *)

HasRun(j) == \E r \in ran : r.job = j

\* The dispatch loop sends a pending job, which need not be the oldest: one whose command
\* was lost is hidden for the retry window.  The tracker keeps a job from being queued
\* twice.
Deliver(j) ==
  /\ j \in jobs /\ j \notin InLane /\ ~HasRun(j)
  /\ lane' = Append(lane, j)
  /\ UNCHANGED <<now, panelVars, jobs, effects, sweep, ran, holder, user, results, ghostVars, budget>>

\* A redelivery of a job that has run is answered from the cache.
AnswerAgain(j) ==
  /\ j \in jobs /\ HasRun(j)
  /\ results' = results \union {r \in ran : r.job = j}
  /\ results' # results
  /\ UNCHANGED <<now, panelVars, jobs, effects, sweep, agentVars, ghostVars, budget>>

\* The lane is full: a terminal failure, and the reservation is released.
LaneFull(j) ==
  /\ j \in jobs /\ j \notin InLane /\ ~HasRun(j)
  /\ Mishap
  /\ results' = results \union {[job |-> j, ok |-> FALSE]}
  /\ UNCHANGED <<now, panelVars, jobs, effects, sweep, agentVars, ghostVars>>

\* Mutant: a delete does not ask who has the name now.
NeverReassigned(j) == FALSE

\* deleteSupersededByOtherClient.
NameReassigned(j) ==
  \/ holder \notin {NoClient, j.client}
  \/ holder = NoClient /\ j.owner \notin {NoClient, j.client}

\* Telemt is changed: create and update are upserts of the whole payload,
\* delete removes the user of the name.
Apply(j) ==
  IF j.act # "delete"
  THEN /\ user' = IF j.ver = Absent THEN NoUser ELSE [owner |-> j.client, ver |-> j.ver]
       /\ holder' = j.client
       /\ excused' = IF user.owner # j.client /\ ~Current(j)
                     THEN excused \union {user.owner} ELSE excused
  ELSE /\ holder' = IF holder = j.client THEN NoClient ELSE holder
       /\ user' = IF NameReassigned(j) THEN user ELSE NoUser
       /\ excused' = IF holder = NoClient /\ (user.owner = j.client <=> NameReassigned(j))
                     THEN excused \union {user.owner} ELSE excused

\* handleClientJob on the single worker of the lane.
RunJob ==
  LET j == Head(lane)
      r == [job |-> j, ok |-> TRUE]
  IN  /\ lane # <<>>
      /\ Apply(j)
      /\ lane' = Tail(lane)
      /\ ran' = {x \in ran : x.job \in jobs} \union {r}
      /\ results' = results \union {r}
      /\ UNCHANGED <<now, panelVars, jobs, effects, sweep, asked, budget>>

\* Telemt refuses.
RunJobFails ==
  LET r == [job |-> Head(lane), ok |-> FALSE]
  IN  /\ lane # <<>>
      /\ Mishap
      /\ lane' = Tail(lane)
      /\ ran' = {x \in ran : x.job \in jobs} \union {r}
      /\ results' = results \union {r}
      /\ UNCHANGED <<now, panelVars, jobs, effects, sweep, holder, user, ghostVars>>

\* A result is lost with the stream it was sent on.
LoseResult(r) ==
  /\ r \in results
  /\ Mishap
  /\ results' = results \ {r}
  /\ UNCHANGED <<now, panelVars, jobs, effects, sweep, agentVars, ghostVars>>

\* The agent restarts: lane, cache and registry are memory, Telemt is not.
AgentRestarts ==
  /\ Mishap
  /\ lane' = <<>> /\ ran' = {} /\ holder' = NoClient
  /\ UNCHANGED <<now, panelVars, jobs, effects, sweep, user, results, ghostVars>>

---------------------------------------------------------------------------
FlowSteps(o) ==
  \/ FlowSaves(o) \/ FlowSaveFails(o)
  \/ FlowEnqueues(o) \/ FlowEnqueueFails(o)
  \/ \E c \in Clients : TopologySaves(o, c) \/ TopologySaveFails(o, c)
  \/ TopologyDone(o)

PassSteps(p) == PassRereads(p) \/ PassEnqueues(p) \/ PassEnqueueFails(p)

ResultSteps ==
  \/ \E r \in results : ReceiveResult(r)
  \/ \E r \in effects : RecordJobResult(r) \/ ResultNotPersisted(r)
  \/ ExpiryWrites \/ ExpiryNotPersisted

AgentSteps ==
  \/ \E j \in jobs : Deliver(j)
  \/ RunJob \/ RunJobFails

AnswersAgain == \E j \in jobs : AnswerAgain(j)

Reconciling == \E p \in Passes, c \in Clients : PassLists(p, c)

ClientNext ==
  \/ \E o \in Operators : \/ \E c \in Clients, req \in Requests \ {"move"} : FlowReads(o, c, req)
                          \/ NodeMoves(o)
                          \/ FlowSteps(o)
  \/ Reconciling
  \/ \E p \in Passes : PassSteps(p)
  \/ \E c \in Clients : ThrottleLapses(c)
  \/ ResultSteps
  \/ AgentSteps
  \/ AnswersAgain
  \/ \E j \in jobs : JobExpires(j) \/ LaneFull(j)
  \/ \E r \in results : LoseResult(r)
  \/ PanelRestarts \/ AgentRestarts

\* Requests and passes end, the reconciler's ticker and the throttle recur, the
\* stream comes back and is dispatched to, the agent works its lane off.
ClientFairness ==
  /\ \A o \in Operators : WF_clientVars(FlowSteps(o))
  /\ \A p \in Passes : WF_clientVars(PassSteps(p))
  /\ WF_clientVars(Reconciling)
  /\ \A c \in Clients : WF_clientVars(ThrottleLapses(c))
  /\ WF_clientVars(ResultSteps) /\ WF_clientVars(AgentSteps) /\ WF_clientVars(AnswersAgain)

ClientSpec == ClientInit /\ [][ClientNext]_clientVars /\ ClientFairness

---------------------------------------------------------------------------
(* Properties.                                                             *)

NodeHas(c) ==
  IF asked[c].ver = Absent THEN user.owner # c
  ELSE user = [owner |-> c, ver |-> asked[c].ver]

\* What the panel reports as succeeded is on the node: the version the last save asked
\* for, or nothing of the client if it asked for its removal.
SucceededIsTrue ==
  \A c \in Clients : dep[c].st = "succeeded" /\ c \notin excused => NodeHas(c)

\* No deployment stays unconfirmed for ever: whatever job, result or enqueue was
\* lost, ReconcileDeployments sends again until RecordJobResult hears an answer.
EveryDeploymentAnswered ==
  \A c \in Clients : dep[c].st \in {"queued", "awaiting"} ~> dep[c].st \in {"succeeded", "failed"}

\* Nothing is under way between the panel and the node.
Quiet ==
  /\ \A o \in Operators : flow[o] = Idle
  /\ \A p \in Passes : pass[p] = NoPass
  /\ sweep = NoSweep
  /\ jobs = {} /\ lane = <<>> /\ results = {} /\ effects = {}

\* "everything the node failed to confirm while it was away is re-sent now"
\* (gateway_deps.go, OnAgentConnected): a deleted client whose user is still on
\* the node is owed a delete.
RevocationOwed ==
  Quiet => \A c \in Clients :
    row[c].phase = "deleted" /\ user.owner = c => Divergent(dep[c])

\* "an update (create, in effect) to nodes that just became targets" (reconcile.go,
\* ReconcileTopology).
TargetsAreDeployed ==
  Quiet /\ targeted => \A c \in Clients : row[c].phase = "live" => dep[c].op # "delete"
=============================================================================
