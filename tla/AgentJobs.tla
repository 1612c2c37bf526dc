------------------------------ MODULE AgentJobs ------------------------------
(***************************************************************************)
(* How an agent executes the jobs the panel sends: the in-flight tracker   *)
(* and the lanes of internal/agent/jobs/jobs.go, the completed-result      *)
(* cache of runtime.Agent.HandleJob, and the connection around them        *)
(* (internal/agent/conn).                                                  *)
(*                                                                         *)
(* The tracker and the cache live as long as the process, the lanes, the   *)
(* workers and the outbound channel as long as one connection.  The panel  *)
(* is the environment: it sends any job, again and again.                  *)
(*                                                                         *)
(* Cancelling connectionCtx does not stop a goroutine.  In each select     *)
(* with a ready channel and a done context the code takes either branch,   *)
(* and so does the model.                                                  *)
(***************************************************************************)
EXTENDS Integers, Sequences, FiniteSets

CONSTANTS
    RefreshJobs,      \* ids of telemetry.refresh_diagnostics jobs
    ClientJobs,       \* ids of client.* jobs
    DefaultJobs,      \* ids of all other jobs
    QueueCapacity,    \* capacity of a lane
    OutboundCapacity, \* capacity of criticalOutbound
    Retention,        \* completedJobRetention
    MaxTime,          \* bound: clock
    MaxRestarts       \* bound: restarts of the agent process

Jobs == RefreshJobs \cup ClientJobs \cup DefaultJobs

ASSUME AgentAssumption ==
    /\ RefreshJobs \cap ClientJobs = {}
    /\ DefaultJobs \cap (RefreshJobs \cup ClientJobs) = {}
    /\ QueueCapacity \in Nat \ {0} /\ OutboundCapacity \in Nat \ {0}
    /\ Retention \in Nat \ {0} /\ MaxTime \in Nat /\ MaxRestarts \in Nat

(* Mutant: one lane for everything that is not a refresh. *)
pipelineForActionTwo(j) == IF j \in RefreshJobs THEN "runtime_reload" ELSE "default"

pipelineForAction(j) ==
    IF j \in RefreshJobs THEN "runtime_reload"
    ELSE IF j \in ClientJobs THEN "client_mutation" ELSE "default"

(***************************************************************************)
(* The lanes that get a job: an idle lane changes nothing.                 *)
(***************************************************************************)
Lanes == {pipelineForAction(j) : j \in Jobs}

VARIABLES
    now,        \* the agent's clock
    conn,       \* "down", "up", or "closing": connectionCtx is done, goroutines still run
    inflight,   \* InflightTracker.jobIDs
    lane,       \* per lane: the jobs in its channel
    worker,     \* per lane: its single worker
    pump,       \* the inbound pump
    outbound,   \* criticalOutbound
    sender,     \* the outbound pump: "on" or "off"
    completed,  \* Agent.completedJobs: when it started and how it ended, or Never
    started,    \* history: when the handler of a job was last entered in this process
    told,       \* history: the outcomes reported for a job since then
    restarts

connection == <<conn, lane, worker, pump, outbound, sender>>
process == <<inflight, completed>>
history == <<started, told>>
vars == <<now, connection, process, history, restarts>>

(***************************************************************************)
(* Times start at 1; 0 stands for "not yet".                               *)
(***************************************************************************)
Never == [at |-> 0, ok |-> FALSE]
Completed == [at : Nat, ok : BOOLEAN]

Ack(j) == [kind |-> "ack", job |-> j, ok |-> TRUE]
Result(j, ok) == [kind |-> "result", job |-> j, ok |-> ok]
Snapshot(j) == [kind |-> "snapshot", job |-> j, ok |-> TRUE]
Message == [kind : {"ack", "result", "snapshot"}, job : Jobs, ok : BOOLEAN]

(***************************************************************************)
(* A worker waits, runs the handler of a job, builds a snapshot after it,  *)
(* sends the result, and releases the job.  The pump receives, or has a    *)
(* message to put on the outbound channel; `undo' is the reservation it    *)
(* gives back when the connection ends first.                              *)
(***************************************************************************)
Off == [pc |-> "off"]
Waiting == [pc |-> "idle"]
Busy == [pc : {"run", "snapshot", "send", "release"}, job : Jobs, ok : BOOLEAN, at : Nat]
WorkerState == {Off, Waiting} \cup Busy
AtStep(w, pc, ok) == [pc |-> pc, job |-> w.job, ok |-> ok, at |-> w.at]

Receiving == [pc |-> "recv"]
PumpState == {Off, Receiving} \cup [pc : {"send"}, msg : Message, undo : SUBSET Jobs]

Elements(s) == {s[i] : i \in 1 .. Len(s)}
Queued == UNION {Elements(lane[l]) : l \in Lanes}

(* Mutant: the channel takes one message too many. *)
RoomForOneMore == Len(outbound) <= OutboundCapacity

Room == Len(outbound) < OutboundCapacity

(***************************************************************************)
(* pruneCompletedJobsLocked, and findCompletedJobResult after it.          *)
(***************************************************************************)
prune(cache, t) == [j \in Jobs |-> IF cache[j].at + Retention < t THEN Never ELSE cache[j]]
isCached(j) == prune(completed, now)[j] # Never
-----------------------------------------------------------------------------
Init ==
    /\ now = 1
    /\ conn = "down"
    /\ inflight = {}
    /\ lane = [l \in Lanes |-> <<>>]
    /\ worker = [l \in Lanes |-> Off]
    /\ pump = Off
    /\ outbound = <<>>
    /\ sender = "off"
    /\ completed = [j \in Jobs |-> Never]
    /\ started = [j \in Jobs |-> 0]
    /\ told = [j \in Jobs |-> {}]
    /\ restarts = 0

(***************************************************************************)
(* runConnection: fresh channels, then the goroutines.                     *)
(***************************************************************************)
Connect ==
    /\ conn = "down"
    /\ conn' = "up"
    /\ worker' = [l \in Lanes |-> Waiting]
    /\ pump' = Receiving
    /\ sender' = "on"
    /\ UNCHANGED <<now, lane, outbound, process, history, restarts>>

(***************************************************************************)
(* cancelConnection: the stream failed, a certificate was renewed, the     *)
(* transport was switched, or the supervisor stops.                        *)
(***************************************************************************)
Cancel ==
    /\ conn = "up"
    /\ conn' = "closing"
    /\ UNCHANGED <<now, lane, worker, pump, outbound, sender, process, history, restarts>>

(***************************************************************************)
(* EnqueueReceived for a job that is reserved: answer with the cached      *)
(* result, or with another acknowledgement.                                *)
(***************************************************************************)
ReceiveDuplicate(j) ==
    /\ pump = Receiving
    /\ j \in inflight
    /\ completed' = prune(completed, now)
    /\ IF isCached(j)
         THEN /\ pump' = [pc |-> "send", msg |-> Result(j, completed[j].ok), undo |-> {}]
              /\ told' = [told EXCEPT ![j] = @ \cup {completed[j].ok}]
         ELSE /\ pump' = [pc |-> "send", msg |-> Ack(j), undo |-> {}]
              /\ UNCHANGED told
    /\ UNCHANGED <<now, conn, lane, worker, outbound, sender, inflight, started, restarts>>

(***************************************************************************)
(* EnqueueReceived for a new job: into its lane.  (With connectionCtx done *)
(* the job may also be dropped, which leaves no trace.)                    *)
(***************************************************************************)
(* Mutant: reserve lets a known id pass. *)
ReserveAlways(j) == TRUE

reserve(j) == j \notin inflight

Receive(j) ==
    LET l == pipelineForAction(j)
    IN  /\ pump = Receiving
        /\ reserve(j)
        /\ Len(lane[l]) < QueueCapacity
        /\ inflight' = inflight \cup {j}
        /\ lane' = [lane EXCEPT ![l] = Append(@, j)]
        /\ pump' = [pc |-> "send", msg |-> Ack(j), undo |-> {j}]
        /\ UNCHANGED <<now, conn, worker, outbound, sender, completed, history, restarts>>

(***************************************************************************)
(* EnqueueReceived for a new job whose lane is full: a failure at once.    *)
(***************************************************************************)
ReceiveFull(j) ==
    /\ pump = Receiving
    /\ reserve(j)
    /\ conn = "up"
    /\ Len(lane[pipelineForAction(j)]) >= QueueCapacity
    /\ pump' = [pc |-> "send", msg |-> Result(j, FALSE), undo |-> {}]
    /\ UNCHANGED <<now, conn, lane, worker, outbound, sender, process, history, restarts>>

PumpSend ==
    /\ pump.pc = "send" /\ Room
    /\ outbound' = Append(outbound, pump.msg)
    /\ pump' = Receiving
    /\ UNCHANGED <<now, conn, lane, worker, sender, process, history, restarts>>

(* Mutant: the pump blocks on a full channel without watching the context. *)
PumpAbortNever == FALSE /\ UNCHANGED vars

PumpAbort ==
    /\ pump.pc = "send" /\ conn = "closing"
    /\ inflight' = inflight \ pump.undo
    /\ pump' = Receiving
    /\ UNCHANGED <<now, conn, lane, worker, outbound, sender, completed, history, restarts>>

(***************************************************************************)
(* Recv returns an error once the transport is torn down.                  *)
(***************************************************************************)
PumpExit ==
    /\ pump = Receiving /\ conn = "closing"
    /\ pump' = Off
    /\ UNCHANGED <<now, conn, lane, worker, outbound, sender, process, history, restarts>>
-----------------------------------------------------------------------------
(***************************************************************************)
(* runWorker.  After HandleJob a refreshed diagnostics job also sends a    *)
(* snapshot.                                                               *)
(***************************************************************************)
shouldSendRuntimeSnapshotAfterJob(j, ok) == ok /\ j \in RefreshJobs

Handled(j, ok, at) ==
    [pc |-> IF shouldSendRuntimeSnapshotAfterJob(j, ok) THEN "snapshot" ELSE "send",
     job |-> j, ok |-> ok, at |-> at]

(***************************************************************************)
(* A job is taken, and HandleJob looks it up in the cache first.           *)
(***************************************************************************)
WorkerTake(l) ==
    LET j == Head(lane[l])
    IN  /\ worker[l] = Waiting /\ lane[l] # <<>>
        /\ lane' = [lane EXCEPT ![l] = Tail(@)]
        /\ completed' = prune(completed, now)
        /\ IF isCached(j)
             THEN /\ worker' = [worker EXCEPT ![l] = Handled(j, completed[j].ok, now)]
                  /\ UNCHANGED history
             ELSE /\ worker' = [worker EXCEPT ![l] = [pc |-> "run", job |-> j, ok |-> FALSE, at |-> now]]
                  /\ started' = [started EXCEPT ![j] = now]
                  /\ told' = [told EXCEPT ![j] = {}]
        /\ UNCHANGED <<now, conn, pump, outbound, sender, inflight, restarts>>

(***************************************************************************)
(* The handler returns, with either outcome: a cancelled or timed-out      *)
(* context is a failure like any other.  rememberCompletedJobResult files  *)
(* it under the time the job was taken.                                    *)
(***************************************************************************)
(* Mutant: only a success is remembered. *)
rememberSuccess(cache, j, ok, at) == IF ok THEN [prune(cache, at) EXCEPT ![j] = [at |-> at, ok |-> ok]] ELSE cache

remember(cache, j, ok, at) == [prune(cache, at) EXCEPT ![j] = [at |-> at, ok |-> ok]]

WorkerDone(l, ok) ==
    LET w == worker[l]
    IN  /\ w.pc = "run"
        /\ completed' = remember(completed, w.job, ok, w.at)
        /\ worker' = [worker EXCEPT ![l] = Handled(w.job, ok, w.at)]
        /\ UNCHANGED <<now, conn, lane, pump, outbound, sender, inflight, history, restarts>>

(***************************************************************************)
(* The snapshot is built and sent, or its failure becomes the job's.       *)
(***************************************************************************)
WorkerSnapshot(l) ==
    LET w == worker[l]
    IN  /\ w.pc = "snapshot"
        /\ \/ /\ Room
              /\ outbound' = Append(outbound, Snapshot(w.job))
              /\ worker' = [worker EXCEPT ![l] = AtStep(w, "send", w.ok)]
           \/ /\ worker' = [worker EXCEPT ![l] = AtStep(w, "send", FALSE)]
              /\ UNCHANGED outbound
        /\ UNCHANGED <<now, conn, lane, pump, sender, process, history, restarts>>

WorkerSend(l) ==
    LET w == worker[l]
    IN  /\ w.pc = "send" /\ Room
        /\ outbound' = Append(outbound, Result(w.job, w.ok))
        /\ told' = [told EXCEPT ![w.job] = @ \cup {w.ok}]
        /\ worker' = [worker EXCEPT ![l] = AtStep(w, "release", w.ok)]
        /\ UNCHANGED <<now, conn, lane, pump, sender, process, started, restarts>>

WorkerRelease(l) ==
    /\ worker[l].pc = "release"
    /\ inflight' = inflight \ {worker[l].job}
    /\ worker' = [worker EXCEPT ![l] = Waiting]
    /\ UNCHANGED <<now, conn, lane, pump, outbound, sender, completed, history, restarts>>

(***************************************************************************)
(* connectionCtx is done: between two jobs, or instead of a send, in which *)
(* case the job is released.                                               *)
(***************************************************************************)
WorkerExit(l) ==
    /\ conn = "closing"
    /\ \/ worker[l] = Waiting /\ UNCHANGED inflight
       \/ worker[l].pc \in {"snapshot", "send"} /\ inflight' = inflight \ {worker[l].job}
    /\ worker' = [worker EXCEPT ![l] = Off]
    /\ UNCHANGED <<now, conn, lane, pump, outbound, sender, completed, history, restarts>>
-----------------------------------------------------------------------------
(***************************************************************************)
(* The outbound pump takes a message off the channel; the stream carries   *)
(* it or not.                                                              *)
(***************************************************************************)
SenderStep ==
    /\ sender = "on" /\ outbound # <<>>
    /\ outbound' = Tail(outbound)
    /\ UNCHANGED <<now, conn, lane, worker, pump, sender, process, history, restarts>>

SenderExit ==
    /\ sender = "on" /\ conn = "closing"
    /\ sender' = "off"
    /\ UNCHANGED <<now, conn, lane, worker, pump, outbound, process, history, restarts>>

(***************************************************************************)
(* streamWG.Wait() has returned: ReleaseQueued, then the channels are gone.*)
(***************************************************************************)
(* Mutant: the channels are dropped with what is in them. *)
ReleaseQueuedNot == inflight

ReleaseQueued == inflight \ Queued

Teardown ==
    /\ conn = "closing"
    /\ pump = Off /\ sender = "off" /\ \A l \in Lanes : worker[l] = Off
    /\ inflight' = ReleaseQueued
    /\ conn' = "down"
    /\ lane' = [l \in Lanes |-> <<>>]
    /\ outbound' = <<>>
    /\ UNCHANGED <<now, worker, pump, sender, completed, history, restarts>>

(***************************************************************************)
(* The agent process dies and starts again: nothing of this is on disk.    *)
(***************************************************************************)
ProcessRestart ==
    /\ restarts < MaxRestarts
    /\ restarts' = restarts + 1
    /\ conn' = "down"
    /\ inflight' = {}
    /\ lane' = [l \in Lanes |-> <<>>]
    /\ worker' = [l \in Lanes |-> Off]
    /\ pump' = Off
    /\ outbound' = <<>>
    /\ sender' = "off"
    /\ completed' = [j \in Jobs |-> Never]
    /\ started' = [j \in Jobs |-> 0]
    /\ told' = [j \in Jobs |-> {}]
    /\ UNCHANGED now

Tick ==
    /\ now < MaxTime
    /\ now' = now + 1
    /\ UNCHANGED <<connection, process, history, restarts>>

Next ==
    \/ Tick \/ ProcessRestart
    \/ Connect \/ Cancel \/ Teardown
    \/ SenderStep \/ SenderExit
    \/ PumpSend \/ PumpAbort \/ PumpExit
    \/ \E j \in Jobs : Receive(j) \/ ReceiveDuplicate(j) \/ ReceiveFull(j)
    \/ \E l \in Lanes :
          \/ WorkerTake(l) \/ WorkerSnapshot(l) \/ WorkerSend(l) \/ WorkerRelease(l) \/ WorkerExit(l)
          \/ \E ok \in BOOLEAN : WorkerDone(l, ok)

Spec == Init /\ [][Next]_vars
-----------------------------------------------------------------------------
TypeOK ==
    /\ now \in Nat
    /\ conn \in {"down", "up", "closing"}
    /\ inflight \subseteq Jobs
    /\ lane \in [Lanes -> Seq(Jobs)] /\ \A l \in Lanes : Len(lane[l]) <= QueueCapacity
    /\ worker \in [Lanes -> WorkerState]
    /\ pump \in PumpState
    /\ outbound \in Seq(Message) /\ Len(outbound) <= OutboundCapacity
    /\ sender \in {"on", "off"}
    /\ completed \in [Jobs -> Completed]
    /\ started \in [Jobs -> Nat]
    /\ told \in [Jobs -> SUBSET BOOLEAN]
    /\ restarts \in Nat

(***************************************************************************)
(* ReleaseQueued: "anything left reserved here would never be executable   *)
(* again after reconnect".  No reservation survives a connection, however  *)
(* pump, workers and teardown raced.                                       *)
(***************************************************************************)
NoLeakedReservation == conn = "down" => inflight = {}

(***************************************************************************)
(* A redelivered job is answered "without re-executing the job": within    *)
(* the retention of the cache no handler is entered twice, not even when a *)
(* job was released by the pump and by the worker, or queued twice while   *)
(* the connection closed.                                                  *)
(***************************************************************************)
RunsOnce ==
    [][\A j \in Jobs :
          (started'[j] # started[j] /\ started[j] # 0 /\ started'[j] # 0) =>
              started[j] + Retention < started'[j]]_vars

(***************************************************************************)
(* On a live connection a job is in one place, a lane or a worker, however *)
(* often it is redelivered: copies would use up the lane.                  *)
(***************************************************************************)
QueuedOnce ==
    conn = "up" =>
        \A l \in Lanes :
            /\ \A i, k \in 1 .. Len(lane[l]) : lane[l][i] = lane[l][k] => i = k
            /\ worker[l] \in Busy => worker[l].job \notin Elements(lane[l])

(***************************************************************************)
(* A duplicate delivery is answered "with the real result": whatever the   *)
(* worker and the pump say of a job is the same outcome.                   *)
(***************************************************************************)
ResultsAgree == \A j \in Jobs : Cardinality(told[j]) <= 1
-----------------------------------------------------------------------------
(***************************************************************************)
(* Fairness: goroutines run; Recv on a stream whose context is done ends;  *)
(* a Go channel serves its waiting senders in order, so a send that is     *)
(* possible again and again happens; a handler returns, by its deadline at *)
(* the latest.  An update may take ten minutes: of the default lane it is  *)
(* only assumed that a handler returns once its context is cancelled.      *)
(***************************************************************************)
HandlerReturns(l) ==
    /\ l # "default" \/ conn = "closing"
    /\ \E ok \in BOOLEAN : WorkerDone(l, ok)

WorkerStep(l) == WorkerTake(l) \/ HandlerReturns(l) \/ WorkerSnapshot(l) \/ WorkerRelease(l)

Fairness ==
    /\ WF_vars(Teardown) /\ WF_vars(SenderStep) /\ WF_vars(SenderExit)
    /\ SF_vars(PumpExit) /\ SF_vars(PumpSend \/ PumpAbort)
    /\ \A l \in Lanes :
          WF_vars(WorkerStep(l)) /\ WF_vars(WorkerExit(l)) /\ SF_vars(WorkerSend(l))

FairSpec == Spec /\ Fairness

(***************************************************************************)
(* "streamWG.Wait() below then deadlocks the reconnect" must not happen: a *)
(* cancelled connection is torn down, whoever was blocked on a full        *)
(* channel.                                                                *)
(***************************************************************************)
TeardownEnds == (conn = "closing") ~> (conn = "down")

(***************************************************************************)
(* "A slow lane must not head-of-line-block another": an accepted client   *)
(* job or refresh is answered, unless its connection ends, even if the     *)
(* handler of an update does not return.                                   *)
(***************************************************************************)
LanesIsolated ==
    \A j \in Jobs \ DefaultJobs : (conn = "up" /\ j \in Queued) ~> (conn # "up" \/ told[j] # {})
=============================================================================
