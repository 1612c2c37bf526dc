# A TLA+ model of the panvex control plane

panvex manages a fleet of Telemt proxy nodes.  A control plane (the *panel*) keeps the desired state:
clients, their secrets and quotas, node configuration, transport modes.  Every node runs an *agent* that
holds one gRPC stream to the panel.  Whatever the panel wants done on a node travels as a *job*: the panel
queues it, a dispatch loop sends it over the stream, the agent acknowledges it, runs it and reports the
result.  Streams break, both processes restart, commands and reports are lost or repeated.  The jobs path is
therefore where the program's hard behaviour starts, and `JobService` and `AgentJobs` model it in full; the other
modules model what is built on it or beside it: client deployments, traffic accounting, certificates, transports,
config rollouts, the Telemt update, and the panel's asynchronous writer, audit trail and webhook outbox.

## 1. Inventory

| Component (source) | State | Operations | What is hard | What makes it correct |
|---|---|---|---|---|
| Job queue (`internal/controlplane/jobs`) | jobs by id, redelivery index per agent, idempotency keys, terminal-key times, expiry watermark, sequence | Enqueue (reserve, persist, publish, supersede), List/ListRecent/Get, PendingForAgent, MarkDelivered, MarkAcknowledged, RecordResult, PruneKeys, PruneAcknowledgedTargets, restore | writes to the store happen outside the lock; three independent expiry paths; derived indexes kept by hand | indexes agree with the jobs; finished stays finished; keys are unique; nothing live is lost by a restart; TTLs are honoured |
| Job tables (`storage/sqlite/jobs.go`, `storage/postgres/jobs.go`) | `jobs`, `job_targets` | PutJob, PutJobTarget, ListJobs, ListJobTargets, PruneTerminalJobs | no transaction spans a job and its targets; listing limit; foreign keys; whole seconds | tables catch up with memory |
| Gateway (`internal/controlplane/gateway`) | one session per agent, bounded effect queues, dispatch batch | dispatchPendingJobs, inbound priority workers, snapshots, revocation | two inbound workers per stream, queues with different overflow policies | every queued job is sent, no report is applied to the wrong job |
| Agent jobs (`internal/agent/jobs`, `runtime.Agent.HandleJob`, `internal/agent/conn`) | in-flight tracker, three lanes, completed-result cache, critical outbound channel | EnqueueReceived, worker loop, ReleaseQueued, reconnect | the tracker and the cache outlive the connection, the lanes do not; full lanes; teardown races | a job runs once within the cache's retention; no reservation is leaked; teardown ends |
| Client flows (`internal/controlplane/clients`) | client mirror, deployments, discovered clients | create/update/rotate/delete, job results, reconcile, adopt | desired state and per-node outcome are updated by different goroutines | deployments converge to the desired state |
| Agent runtime (`internal/agent/runtime`) | client-name registry, usage watermarks, delta gates | client job handlers, usage snapshots, config apply | restarts lose the registry; a delete may meet a reused name | a delete never removes another client's user; usage is never counted twice |
| Credentials, probation, transport (`internal/agent/creds`, `probation`, `transport`, `conn/reconnect.go`) | certificate state file, previous transport, probation window | renewal in stream and unary, switch, rollback | crash between write and use; rollback timer against late success | the agent is never left without a working transport |
| Agent sessions (`internal/controlplane/agenttransport`, `agents`, `presence`) | sessions by agent, supervisor per outbound node, presence states | attach, replace, detach, mode switch | old session's teardown after the new one attached | at most one session drives an agent |
| Batch writer (`internal/controlplane/batchwriter`) | buffered rows, retry buffer | enqueue, flush, drain | failed flush against new rows, bounded buffers | rows are not reordered, loss only at the bound |
| Events (`eventbus`, `events`, `runtimeevents`) | subscriber buffers, sequence numbers | publish, subscribe, push with cursor | slow subscribers, reconnect with cursor | no event is delivered twice, loss is detectable |
| Auth, sessions, lockout (`auth`, `sessions`, `csrf`) | users, TOTP, sessions, failure counters | login, logout, lockout, rate limits | concurrent failures against the threshold | a locked account stays locked for its time |
| Enrollment, bootstrap, revocation (`enrollment`, `bootstrap`, `agentrevocation`) | tokens, attempts, issued and revoked certificates | consume token, issue, revoke | token used twice concurrently | one token, one agent |
| Updates (`updates`, `agent/updater`, `agent/telemtupdate`) | versions, backup binary, health gate | download, swap, restart, roll back | crash between swap and health check | a failed update restores the old binary |
| Webhooks (`webhooks`) | outbox rows, attempts | enqueue, deliver, retry, give up | crash between delivery and mark | at-least-once, bounded attempts |
| Audit (`audit`, `server/audit_hash_chain.go`) | hash chain head | append, verify | concurrent appends | the chain has no fork |
| Config targets and apply (`configtargets`, `server/config_*`) | target config, batches, drift | apply, reload, drift | batch half applied | drift is reported until the node has the target |

Storage backends, settings, metrics, tracing, GeoIP, HTTP plumbing, the web UI, deployment scripts and generated
code keep no protocol state of their own and are listed in `PROJECT.json` as not modelled.

## 2. Modules

| Module | What it is |
|---|---|
| `JobStatus` | the pure functions of the job queue: types, `deriveJobStatus`, `targetIsPending`, deadlines, creation order |
| `JobService` | the job queue with its tables and the dispatch loop: state, one action per critical section or store statement, properties, fairness |
| `AgentJobs` | job execution in the agent: tracker, lanes, workers, result cache, pumps, teardown; properties, fairness |
| `ClientFlow` | a managed client on a node: operator flows, reconciler, expiry hook, results, and the agent that changes Telemt |
| `ClientUsage` | traffic accounting of a client from Telemt's counter to the panel's table |
| `CertRotation` | the certificate of an agent, the panel's pins and their overlap, renewal and recovery |
| `TransportSwitch` | switching an agent between dialling and listening: PUT, switch job, probation, rollback, drift |
| `ConfigRollout` | config-apply batches: the request that fans out, the worker that finalizes |
| `TelemtUpdate` | the swap of the Telemt binary, health gate, rollback, crashes of the agent |
| `BatchWriter` | the asynchronous writer with enrolment, snapshots, renewal and deregistration of an agent |
| `AuditTrail` | numbering and chaining of audit events, two ways to the table, spool, retention, restart |
| `Outbox`, `Webhooks` | what the webhook outbox promises, and the producer, worker and tables that implement it |
| `MCJobService`, `MCAgentJobs` | instantiate the two job modules for TLC (symmetry) |
| `MCPanel` | the safety of the nine modules from `ClientFlow` to `Webhooks` as one specification: a behaviour is one of one part |
| `MCBackground` | the same for the liveness of the panel's loops, with the fairness of each part |
| `JobServiceProofs`, `AgentJobsProofs`, `ClientFlowProofs`, `ClientUsageProofs`, `ConfigRolloutProofs` | the theorems of section 4 about one module each |
| `StoreProofs` | the theorems about what the panel's loops write: `BatchWriter`, its audit stream `AuditTrail`, and `Webhooks` |
| `AgentSideProofs` | the theorems about what an agent does to itself: `CertRotation`, `TransportSwitch`, `TelemtUpdate` |
| `PanelProofs` | the theorems about the composition `MCPanel`, from those of its nine parts |

How they fit: `JobService` is the panel's queue and `AgentJobs` the agent that serves it.  `ClientFlow`,
`TransportSwitch`, `ConfigRollout` and `TelemtUpdate` use the queue through what those two show of it: a job is
delivered any number of times while live, run at most once per agent process and retention, answered or not, and ends
no later than its TTL.  `BatchWriter` is used by the handlers that enrol, renew and remove agents; its audit stream is
`AuditTrail`; `CertRotation` is the credential half of what `BatchWriter`'s handlers check.

`MCPanel` and `MCBackground` add the parts' specifications, they do not multiply them: one part runs and the
others rest in an initial state.  The parts share no variable, so their product would show nothing more.

### 2.1 JobService and the code

`Service.mu` protects everything in memory, so each critical section is one action.  Whatever the code does after
unlocking is a separate step of the goroutine (`op[c]`): the row write (`PutJob`), one write per target
(`PutJobTarget`), the version check under the lock (`PersistCheck`), and giving up after an error (`PersistFails`).

| Code | Model |
|---|---|
| `s.jobs`, `s.agentJobs`, `s.keys`, `s.keyTerminalAt`, `s.nextExpiryAt`, `s.sequence` | `jobs`, `agentJobs`, `keys`, `keyTerminalAt`, `nextExpiryAt`, `sequence` |
| Enqueue phase 1 / 2 / 3 | `EnqueueReserve` / `PutJob`, `PutJobTarget`, `PersistFails` / `EnqueuePublish` |
| `commitJobLocked` | `commitJobs` (`SyncIndex`, `RepointKeys`, `MarkKeys`, `Flush`) |
| `supersedePendingJobsLocked` | `supersededByNewer`, `expireCoveredTargets` in `EnqueuePublish` |
| `persistLatestJobVersion` | `Flush`, `PersistCheck`, `PersistFails` |
| `expireJobsLocked`, `updateTarget`, `PruneAcknowledgedTargets` | `expireJobs`, `updateTarget`, `PruneAcknowledgedTargets` |
| `PendingForAgent`, Send, `MarkDelivered` in `dispatchPendingJobs` | `PendingForAgent`, `SendJob`, `MarkDelivered`, `StreamBreaks` |
| inbound acknowledgement and result | `MarkAcknowledged`, `RecordResult` |
| `PruneKeys`, retention worker | `PruneKeys`, `PruneTerminalJobs` |
| process stop and `restore` | `Restart` |

Abstractions, and why they are sound:

- `jobVersion` is a counter that is only compared for equality; a snapshot carries `latest`, which any later commit
  of the job clears.
- Time is a number of ticks.  `Second` ticks make a second, and the tables keep whole seconds (`toUnix`), as SQLite
  does; postgres keeps microseconds, which is `Second = 1`.
- A supersede key is a `Group`; a payload carries nothing else a property tells apart.
- `wire` is the set of commands ever sent: an agent may report, late and repeatedly, on anything it ever received,
  and sending a command again changes nothing.
- `jobDispatchBatchSize` is not a number in the model: `StreamBreaks` may drop any tail of a batch.
- The dispatch loop may use its list before its own flush is over.  In the code it waits; the model allows more.
- `late` is history: the pairs of jobs of one group that supersession cannot see, because the older one is published
  after the newer (the lock is given up between numbering and publishing), because a crash tore the rows of the older,
  or because a restart brought both back.
- `restore` sees what `ListJobs` returns, at most `ListLimit` rows, oldest first; the rows beyond stay in the table and
  their numbers are drawn again.
- Enqueue's refusals (duplicate key, read-only target) change nothing and are no step.
- `Enqueuers`, `Dispatchers`, `Receivers` say which goroutines play which role; in the proofs they are arbitrary.
- The expiry hook, metrics and logging are left out.

### 2.2 AgentJobs and the code

One agent process.  `inflight` (the tracker) and `completed` (the cache of `HandleJob`) live as long as the process;
`lane`, `worker`, `pump`, `outbound`, `sender` as long as one connection.  Each goroutine is a small state machine,
and a step ends where the code blocks: at a channel, in a handler, in `Recv`.

| Code | Model |
|---|---|
| `runConnection`: channels, goroutines | `Connect` |
| `cancelConnection` from any of its callers | `Cancel` |
| `EnqueueReceived`: new job / known id / full lane | `Receive` / `ReceiveDuplicate` / `ReceiveFull` |
| its selects on `criticalOutbound` and `connectionCtx.Done()` | `PumpSend`, `PumpAbort` |
| `Recv` fails | `PumpExit` |
| `runWorker` and `HandleJob`: take and look up, handler returns, snapshot, result, release, context done | `WorkerTake`, `WorkerDone`, `WorkerSnapshot`, `WorkerSend`, `WorkerRelease`, `WorkerExit` |
| `startOutboundPump` | `SenderStep`, `SenderExit` |
| `streamWG.Wait()`, `ReleaseQueued` | `Teardown` |
| crash of the agent | `ProcessRestart` |

Abstractions, and why they are sound:

- The panel is an environment that may deliver any job at any time, which includes everything `JobService` does.
- A select with both a ready channel and a done context takes either branch.  The exception is the one with a
  `default`: a full lane is reported only while the context is live.
- A handler is an interval that ends in success or failure; what it does to the node, and its deadline, are left out.
- Only lanes that get a job exist; heartbeats and other messages on `criticalOutbound` are left out, since `SenderStep`
  may be late and the channel is full often enough with a capacity of one.
- `started` and `told` are history: when a handler was entered, and what was reported of that run.  The immediate
  failure of a full lane is not a report of a run.
- The clock the cache is pruned with is read once per step.  `completedJobRetention` is positive, as in `New`.

### 2.3 ClientFlow and the code

One node, and clients that all carry one name, so that a name is freed by a delete and taken again.  Whatever an
operator can change about a client is one number, the clock reading of the change; jobs carry the number they were
built from.

| Code | Model |
|---|---|
| `CreateFlow`, `UpdateFlow`, `RotateSecretFlow`, `RotateSubscriptionToken`, `DeleteFlow`, `Redeploy`: read the mirror, save, enqueue | `FlowReads`, `FlowSaves`/`FlowSaveFails`, `FlowEnqueues`/`FlowEnqueueFails` |
| `BuildDeployments` | `Rebuilt`, `SavedDep` |
| a node changes its group, `ReconcileTopology` | `NodeMoves`, `TopologySaves`, `TopologySaveFails`, `TopologyDone` |
| `ReconcileDeployments`, its throttle | `PassLists`, `PassRereads`, `PassEnqueues`, `PassEnqueueFails`, `ThrottleLapses` |
| inbound result, `RecordJobResult` | `ReceiveResult`, `RecordJobResult`, `ResultNotPersisted`, `LoseResult` |
| `OnClientJobsExpired` | `JobExpires`, `ExpiryWrites`, `ExpiryNotPersisted` |
| dispatch, cached answer, full lane, client handler of the agent | `Deliver`, `AnswerAgain`, `LaneFull`, `RunJob`, `RunJobFails` |
| `deleteSupersededByOtherClient` | `NameReassigned` |
| restarts | `PanelRestarts`, `AgentRestarts` |

Two clock readings are never equal; a flow reads the clock when it starts, as the code does, so a flow that is
overtaken enqueues a job that is older than one already queued.  `Deliver` takes any live job: one that was sent and
not answered is held back for a while (`targetIsPending`), so that a younger one may reach the agent first.  A rotation
that concerns no node enqueues nothing (`NoNodeConcerned`).  A deployment that cannot be written is changed neither in
the table nor in the mirror; the throttle of the reconciler has been reset by then.

Ghosts carry the property.  `asked[c]` is what the last save asks of the node: the version it is to have, and the
clock reading of the request.  `asof` is, in a job, the save it was made after, and in a request the save it read.  A job
is `Current` if it was made after the last save and does what that asks.  `excused` names the clients that one of seven
races has hit since their last save, which the code leaves open; `SucceededIsTrue` is about the others, at every moment
and for any number of requests at a time.  The races:

1. a job is enqueued that is not current: the reconciler read before a save and enqueues after it, or sends the
   operation of its snapshot (`clients/reconcile.go:183`), or a request is overtaken by the save of another;
2. a current job is enqueued behind a stale one of a later clock reading, which it does not supersede;
3. the success of a job that is not current is recorded (`RecordJobResult` does not ask which save it was made for);
4. a create or update that is not current runs and displaces the user of another client that has the name now;
5. a delete is decided by an agent whose registry is empty after a restart, on the owner the panel named when the job
   was made, and that is no longer what the node has;
6. two requests check the name before either saves, and two clients ask for it (there is no unique index);
7. `RotateSubscriptionToken` writes back the deployments it read, over those of a save made since.

Each is needed.  With two operators and two mishaps TLC refutes the property without 1, 2, 3, 5 or 7, and without 4 or
6 with four clock readings and three requests.

### 2.4 ClientUsage and the code

| Code | Model |
|---|---|
| Telemt counts, restarts (external) | `Traffic`, `TelemtRestarts` |
| `BuildUsageSnapshot`, `processUsageRowLocked`, `cleanupStaleUsageStateLocked` | `SampleClient`, `SampleDelta`, `SampleOmits` |
| the id of a client becomes known | `ClientJobRuns`, `TrackingKey` |
| a new stream displaces the old one, whose loop goes on | `StreamOpens`, `inbox` |
| drop-oldest effect queue, lost reports | `DropOldest`, `ReportLost` |
| `mergeClientUsageBatch`, `persistClientUsageRecords` | `ReportDelta`, `Merged`, `ApplyUsage` |
| restarts of agent and panel | `AgentReboots`, `PanelReboots` |

`doubted` records the three events after which the code may count twice; see "Divergences" below.

### 2.5 CertRotation and the code

| Code | Model |
|---|---|
| `classifyPresentedSerial`, `AuthorizeAgentConnect`, `CloseAgentCertOverlap` | the same names, `VerdictAt`, `ClosesOn` |
| `rotateAgentCredential`, `RotateAgentCert`, `certOverlapDeadline` | `Issues`, `RotateAgentCert`, `PinWriteFails`, `certOverlapDeadline` |
| renewal in the session: request, panel, reply in the one-place channel, timeout | `RenewInStream`, `HandleInStreamRenewalRequest`, `TakesReply`, `TimesOut` |
| unary renewal before the session | `RenewIfNeeded`, `RenewAgentCertificate`, `SavesReply` |
| recovery of an expired certificate | `handleCreateAgentCertificateRecoveryGrant`, `recoverCredentials`, `handleAgentCertificateRecovery` |
| session ends, panel refuses it, a step fails, process restarts | `Drops`, `ShouldTerminateForRevocation`, `Fails`, `Restarts` |
| a switch job writes the state file and cuts the connection; the loop loads the whole file | `RunsSwitchJob`, `ReloadDropsLink`, `ReloadsState`, `LoadsCertificate` |
| `probation.Clear`, `probation.MaybeRevert` | `ClearsProbation`, `RevertsTransport` |

A certificate is its serial and expiry; the key is a number.  `held` is what the reconnect loop presents and `disk`
what the state file has.  A restart reads the file, and so does the loop after a switch job, the certificate along with
the mode (`reconnect.go:88-90`); a revert changes the mode only.  `spoiled` names what weakens the promise of the pins:
a pin that could not be written, a load that brought back a certificate which the next renewal had replaced, and an
overlap that was closed underneath a unary renewal.

### 2.6 TransportSwitch and the code

| Code | Model |
|---|---|
| the PUT handler: store, enqueue, live snapshot, transport manager | `UpdateAgentTransportMode`, `enqueueTransportSwitchJob`, `updateAgentIdentity`, `OnNodeChanged` |
| a session comes up; drift | `Connects`, `OnAgentSessionEstablished`, `probationClear`, `DriftThrottleLapses` |
| the switch job on the agent | `UpdateTransport`, `Leaves` |
| reconnect loop: reload, revert, dial or accept under a deadline | `takePending`, `MaybeRevert`, `DialFails`, `ProbationDeadline`, `ReloadCancels` |
| expiry of the job, session loss, restarts | `OrderExpires`, `SessionDrops`, `AgentProcessRestarts`, `PanelStops`, `ManagerStart` |

A session comes up in three steps: the two sides meet (`Connects`), the panel admits the agent (`admitted`, with its look
for drift), and the agent clears the probation before it serves; either may be first and a crash may come between.
`OnNodeChanged` looks the node up in the table and leaves the supervisors alone when that fails.
`routes` is the set of modes in which the network lets the two sides meet; it is chosen at the start.

### 2.7 ConfigRollout and the code

| Code | Model |
|---|---|
| `createConfigApplyBatchCore` | `CreateConfigApplyBatch`, `enqueueConfigApplyJob`, `SetConfigApplyBatchTargetJob`, `markConfigApplyBatchFailed` |
| the polling worker, `advanceConfigApplyBatch` | `pollConfigApplyBatches`, `GetConfigApplyBatch`, `DeriveTarget`, `UpdateConfigApplyBatchTargetStatus`, `FinalizeBatch`, `AdvanceFails` |
| `findConfigApplyJobForTarget`, `configApplyJobStatus` | the same names |
| the queue: a job ends, is evicted and pruned | `JobEnds`, `JobForgotten` |
| retention, restart | `PruneConfigApplyBatches`, `RolloutPanelRestarts` |

A batch row keeps `created_at` in whole seconds, a job does not; `older` is how many jobs are older than that second.
`foreign` is history: the targets that adopted the job of another batch.

### 2.8 TelemtUpdate and the code

| Code | Model |
|---|---|
| `handleTelemtUpdateJob`, `checkDowngrade`, staging | the same names, `StagingFails` |
| `swapBinaryWith` | `BacksUp`, `BackUpFails`, `Installs`, `InstallFails` |
| restart, `pollHealth`, rollback | `RestartsService`, `restoreAfterRestartFailure`, `HealthReady`, `PollsAgain`, `HealthConfirms`, `HealthLapses`, `restoreBackup`, `RollbackRestarts` |
| the agent dies, the service's supervisor starts it (external) | `AgentDies`, `SupervisorStarts` |

`sound` are the releases that come up; an update that replaces a file other than the running one is `unproven`.  A poll
is two calls, readiness (`answered` is the release that gave it) and version; the service may be started again between
them, and a confirmation from two releases is `mixed`.

### 2.9 BatchWriter, AuditTrail, Webhooks and the code

| Code | Model |
|---|---|
| `batchBuffer.Enqueue`, `RemoveMatching`, `Drain` | `Enqueue`, `Without`, `Drain` |
| `flushLoop`, `Flush`, `StopWithTimeout` | `Drainers`, `MayDrain`, `StopWithTimeout` |
| `retryWithBackoff`, `ClassifyFlushError` | `WriteSucceeds`, `WriteTransient`, `WritePersistent`, `GiveUp` |
| `enrollAgent`, `AuthorizeAgentConnect`, `applyAgentSnapshot`, renewal | `Enroll`, `Connect`, `ApplySnapshot`, `EnqueueSnapshot`, `RenewalStarts`, `RenewalCommits` |
| `handleDeregisterAgent`, `persistAgentDeregister`, `purgeAgentInMemory` | `DeregisterArms`, `DeregisterWithdraws`, `DeregisterDeletes`, `DeregisterFails`, `DeregisterPurges` |
| `appendAuditWithContext`, `appendAuditSync` | `AppendEvent`, `EnqueueAudit`, `StoreNow`, `StoreNowFails` |
| `flushAuditEvents`, `writeAuditDeadLetter`, `PruneAuditEvents`, `restoreAuditSeq` | `DrainAudit`, `InsertSucceeds`, `InsertTransient`, `InsertPersistent`, `SpoolBatch`, `PruneAuditEvents`, `RestoreAuditSeq` |
| `Producer.Publish`, `InsertOutboxBatch` | `PublishLists`, `PublishInserts`, `PublishFails` |
| `ClaimReady`, `deliver`, `recordFailure`, `failPermanently`, `MarkDelivered`, `MarkFailed` | `ClaimReady`, `Refused`, `Posted`, `PostFailed`, `Mark`, `MarkFails`, `BackoffLapses` |
| edits of endpoints, retention, crash | `UpdateEndpoint`, `DeleteEndpoint`, `SecretLost`, `PruneOutbox`, `PanelCrash` |

`Without` is the loop of `RemoveMatching`, written as a recursive function.  A store call that answers with an error
may have taken effect (`landed`) or not.  Two of the nine streams stand for all: `agents` is written by one call per
batch, `fallback` by one call per operation.  The foreign key of `agent_fallback_state` refuses a put for an agent
without a row (`ForeignKeyRefuses`, a persistent error), and deleting an agent deletes its fallback row.  The hash of an audit event is a number no other event has.  The rows of
the outbox are kept in the order in which they became due, so no clock is needed; `Webhooks` implements `Outbox` with
the identity on `fate`, `accepted` and `open` (`AtLeastOnce`).


## 3. Runs

All bounds are named constants.  `CHECK_DEADLOCK FALSE` is used because clocks, numbers and faults are bounded:
the modelled system ends when they run out; the agent runs check for deadlock, since an agent can always reconnect.

| Run | Instance | Shows |
|---|---|---|
| `queue_persist` | 1 agent, 1 key, 1 job, 2 goroutines (one enqueues and dispatches, the other applies reports, both sweep), TTL 1, all expiry paths, retention, 1 failure, 1 restart, 4 ticks, `Second = 2` | `TypeOK`; `StoreCatchesUp`: when no writer is left and no write failed, the tables hold what memory holds, whichever writer finished last, except that retention may have taken the row of a finished job; `FinishedStaysFinished` |
| `queue_index` | 2 keys, 2 jobs of one group, 1 goroutine, caller clock up to one tick late, eviction, restart, `ListLimit = 1` | `WatermarkSound`, `IndexExact`, `RestartKeepsLiveJobs` (the listing cuts off one of the two), `DispatchWithinTTL` |
| `queue_supersede` | 1 agent, 2 keys, 2 jobs of one group, 2 goroutines that enqueue and one of them dispatching and applying reports, caller clock up to one tick late, keys evicted after 1 tick, 1 restart, 2 ticks | `StaleSiblingsAreLate`: a job left open beside a newer one of its group was published after it, torn by a crash or restored; `KeyOwnership`, with two callers competing for the keys |
| `queue_live` | 1 job, restart, `FairSpec` | `ExpiryHappens`, `QueuedIsSent` |
| `agent_jobs` | 2 diagnostics jobs, lane of 1, outbound channel of 1, retention 1 of 3 ticks, 1 process restart, any number of reconnects | `TypeOK` (capacities), `NoLeakedReservation`, `QueuedOnce`, `RunsOnce` |
| `agent_live` | 1 client job, 1 default job, lanes of 1, outbound of 1, `FairSpec` | `TeardownEnds`, `LanesIsolated` |
| `panel_safe` | see the next table | `PanelTypeOK` and the properties listed there |
| `background_live` | see the next table | the liveness properties listed there |

The parts of `panel_safe` and `background_live`:

| Part | Instance | Properties |
|---|---|---|
| `BatchWriter` | 1 agent, buffers of 2, 4 operations, 1 failing or lost store answer, 1 restart | `FallbackOrder`: the fallback row of an agent is what the tracker says once its operations are written, unless one was lost at the bound or the agent was deleted while in fallback; `GoneStaysGone`: a deregistered agent does not come back into the mirror by a snapshot or a renewal that was under way (a restart reloads the mirror and is not covered); live: `BuffersDrain` |
| `AuditTrail` | 3 events on either path, buffer of 2, 2 faults, 1 restart, retention | `NoSilentLoss`, `NeighboursLink` |
| `Webhooks` | 1 event, 2 endpoints (live: 2 events, 1 endpoint), batch of 1, 2 attempts, 1 edit, 2 faults | `DeadIsEarned`, `AtLeastOnce` (refinement of `Outbox`); live: `EveryDeliverySettles` |
| `ClientUsage` | 2 bytes, 2 streams, queue of 2, 2 faults among lost reports, failed writes, restarts | `ChargedOnce`, `LostReportsCatchUp` |
| `ClientFlow` | 2 clients of one name, 2 operators, 1 reconciler pass, 3 clock readings, 2 flows, 1 mishap (the part alone passes with 2 as well, in a million states) | `SucceededIsTrue`; live, with 1 client: `EveryDeploymentAnswered` |
| `CertRotation` | lifetime 3, overlap 2, window 1, time up to 5, 4 certificates, 1 grant, 1 switch job, 2 faults, both transports | `HeldStaysUsable`, `PresenterNeverEvicted` |
| `TransportSwitch` | all networks, 2 PUTs, 2 queued jobs, 2 faults | `FallbackIsProven`; live: `SwitchedOutComesBack` |
| `ConfigRollout` | 2 batches on 1 node, 1 fault; live: 1 batch on 2 nodes | `BatchSucceededIsApplied`, `LostIsTrue`; live: `BatchesEnd` |
| `TelemtUpdate` | 3 releases, any of them sound, 3 updates, 2 faults | `WorkingBinaryKept`, `EndsInstalled` |

Why the bounds are enough.  Two goroutines are enough for the store races of the queue, because the races are between
a writer and one other committer of the same job; two jobs for the index, key and supersession properties, which
relate at most two jobs; the proofs cover the rest.  `DispatchWithinTTL` is about unfinished jobs: a row torn by a
crash can be restored as a terminal job with live targets, which no TTL applies to.  One job per kind or two of one
kind are enough for the agent: lanes share only the tracker and the outbound channel, a job interacts with others only
by occupying places, and a second copy needs one place beside the worker that runs the first.  In `BatchWriter` agents
do not interact except by filling the buffer, which one agent can do.  Two clients are the owner of a name and its
successor; two requests are the one that saves and the one that read before.  Three renewals in a row (four
certificates) are one more than the pins remember, and one switch job is enough to load a certificate that was saved
and replaced meanwhile.  One row is the smallest limit at which a restore loses a job and keeps another.  Two batches
are the one being judged and the one whose job it might adopt.  Three releases allow two updates in a row, and an
upgrade followed by a downgrade.  Every fault bound is at least one for each kind of fault, and two where a property
speaks of a fault met while another is being handled.

### Violations

Each of these runs checks what a comment says and finds a counterexample in what the code does; the quotes are in
`PROJECT.json`, `findings`.

| Run | Property | Counterexample |
|---|---|---|
| `update_loses_backup` | `LastGoodSurvives` | the agent dies after the swap and before the restart; the job comes again, the old process still answers, and the second swap renames the untried file over the only working binary |
| `rollout_race` | `FailedIsTrue` | the worker ticks between the commit of the batch and the first Enqueue, calls the target lost and the batch failed; the job is then enqueued and succeeds.  No fault is needed |
| `cert_stranded` | `NeverStranded` | a session renews and saves certificate 2; the loop goes on with 1 and renews with it, which replaces 2 by 3 in the pins; the reply is lost, and a restart, or the reload after a switch job, loads 2, which is pinned nowhere |
| `switch_strands` | `SwitchHasSafetyNet` | a switch to inbound removes the supervisor before the job was delivered; the agent listens on, with nothing to fall back to and nobody to dial it |

### Divergences without a run of their own

These properties are stated in the modules with the words of the comment they formalise; TLC refutes each of them on
the instances above.

| Property | The code | The comment |
|---|---|---|
| `JobService!NoStaleSibling` with two concurrent Enqueue calls of a group, no restart and exact clocks | job 1 is numbered, job 2 is numbered and published, then job 1 is published: nothing supersedes it (`jobs/service.go:593`).  `StaleSiblingsAreLate` is what remains | "Any older still-pending job with the same key holds stale data: terminate those targets" (616-621) |
| `JobService!RestartKeepsLiveJobs` without its disjunct `BeyondLimit` | restore reads the oldest 1000 rows and leaves an unfinished job behind them out (`storage/sqlite/jobs.go:52`) | "ListJobs returns every job record for restore on startup" (`jobs/service.go:315`) |
| `JobService!RejectedNeverRuns` | the row is written, a target write fails, Enqueue refuses; a restart restores the row (1592) | "If persist failed, roll back the reservation" (526-529) |
| `JobService!EvictedIsPersisted` | a failed terminal write is not retried, the key is evicted with the job (427, 1609) | "The job has already been persisted in its terminal form" (427) |
| `JobService!RetentionPrunes` | the DELETE fails on the foreign key of the job's own targets (`storage/sqlite/jobs.go:218`) | "job_targets is cleaned up via ON DELETE CASCADE in the schema" |
| `AgentJobs!ResultsAgree` | a success is cached, the snapshot after it fails and a failure is sent; the redelivery is answered with the success (`agent/jobs/jobs.go:306`) | "answer a duplicate delivery with the real result" (`runtime/agent.go:1183-1187`) |
| `ClientFlow!RevocationOwed` | the result of an older job is credited to a delete asked later; nothing is owed and the user stays | "everything the node failed to confirm while it was away is re-sent now" (`server/gateway_deps.go:210-213`) |
| `ClientFlow!TargetsAreDeployed` | a node that returns to its group while its delete is pending looks deployed to `sameAgentSet` (`clients/reconcile.go:345`) | "an update (create, in effect) to nodes that just became targets" (253-255) |
| `ClientUsage!NeverDoubleCounted` | the tracking key changes from name to id, the baseline sample leaves a client out, or a displaced stream applies a report late: bytes are charged twice | "converge without losing or double-counting bytes" (`runtime/agent.go:661-666`) |
| `ConfigRollout!SucceededIsOwn` | the job of batch 1 on the node was created in the second of batch 2's row and has succeeded; the worker ticks before batch 2 has enqueued its own, adopts that job and calls batch 2 succeeded (`server/config_apply_batches.go:331`).  `BatchSucceededIsApplied` names the exception | "the job that was actually created for this target" (224-226), "cannot predate the batch" (325-326) |
| `TelemtUpdate!WorkingBinaryKept` without its disjunct for `mixed` | the old process answers `HealthReady`, the service is started again, the new release answers with its version and does not come up ready: the update is confirmed and the backup removed (`telemtupdate/update.go:254-255`) | "polls TelemtInfo until it reports Ready with the target version" (247-248) |

Seen while modelling, and not stated as a property:

- Retention deletes the row of a finished job that has no target rows (left by a crash inside Enqueue, restored, expired
  by the sweep) while memory still has the job.  A crash between the writes and the publication of a new job restores
  it next to the older jobs of its group, which it has not superseded (`jobs/service.go:540-600`).
- The TTL sweep forces `expired` on a job some of whose targets succeeded (`jobs/service.go:1364`), where the comment
  of `StatusPartial` describes `partial`.  Redelivery refreshes the age the acknowledged-expiry worker measures (1203).
- `verify-audit-chain` starts with an empty previous hash, so it reports a broken chain once retention has pruned the
  oldest events.  A synchronous append that fails has advanced the chain tail, so its successor links to no row.
- A name that does not resolve is treated as private and dead-letters a webhook at its first attempt
  (`webhooks/worker.go:325`), where `doc.go` describes retries.  The dead-letter hook runs after the mark; a crash
  between the two loses it.
- A full lane is answered with a failure because "the panel retries terminal failures" (`agent/jobs/jobs.go:205`); the
  reconciler re-sends failed deletes and rotations, not failed creates and updates.
- A record that `Drain` has taken out of the buffer is not found by `RemoveMatching` and is written after the DELETE of
  its agent (`batchwriter/writer.go:268`); the comment in `server/agent_telemetry.go:437-447` has it that
  `RemovePendingAgent` cancels the write.  The row stays out of the mirror until a restart reads it back.  A renewal
  that has passed its check of the guard does not repeat it (`server/gateway_deps.go:425`, 464).
- `handleClientCreateJob` and `handleClientUpdateJob` (`agent/runtime/agent.go:1001-1056`) do not ask who has the name,
  as the delete does: a job of a deleted client that the reconciler enqueued late, or that was delivered late, disables
  or overwrites the user of the client that has taken the name since, whose deployment stays `succeeded`.
- Two requests for one client at a time lose one of the updates, and the older may be the one that is stored and sent
  last.  What this does to a reported success, and the two clients of one name that two creations leave, are the races
  1, 2, 6 and 7 of section 2.3.
- A usage row is not sent when neither bytes nor gauges changed.
- `certOverlapDeadline` is documented as the expiry of the replaced certificate and uses that of the new one.  A
  recovery grant is used up before the certificate is issued.
- A session established under a probation is cut once, at the end of the window.  A change of address in listen mode
  has no probation.  A drift that cannot be repaired makes switch and rollback alternate.
- The worker of config rollouts may overwrite a verdict the request wrote meanwhile, and a late
  `SetConfigApplyBatchTargetJob` reopens a target of a finished batch.  Folding an applied config into the agent's
  snapshot is a read and a write around which an operator's edit is lost (`server/http_config_apply.go:165`).
- A restart command of the Telemt service that failed may have stopped it; the message says that Telemt is untouched.

### Fairness

Job queue (`JobService!FairSpec`): the clock ticks; a goroutine inside a store call gets an answer (weak fairness of
its next step); each agent's dispatch loop runs again and again (strong fairness of `PendingForAgent`, `SendJob`,
`MarkDelivered`: it is driven by a ticker and by notifications, a broken stream is re-established by the agent, and
`sync.RWMutex` does not starve a waiter).  No fairness is assumed of callers, reports, pruners or restarts.

Agent (`AgentJobs!FairSpec`): goroutines run (weak); a send that becomes possible again and again happens (strong: a
Go channel serves its waiting senders in order); `Recv` on a cancelled stream ends, because cancelling the connection
cancels the dial context; a handler returns, because `executionBudget` gives it a deadline.  In the default lane,
where a handler may take ten minutes, it is only assumed that it returns once its context is cancelled.  A connection
need not end and the panel need not send.

Background loops, all weak:

- `BatchFairness`: each stream is drained (a ticker, and the final drain of a stop), and a store call is answered.
- `WebhookFairness`: the worker claims (ticker), makes the delivery at hand and marks it, and a backoff lapses.
- `ClientFairness`: a flow that has begun goes on, the reconciler passes (ticker) and its throttle lapses, results are
  applied, the agent runs what is in its lane and answers what it knows.  Nobody need ask for anything.
- `SwitchFairness`: a PUT that has begun goes on, the reconnect loop runs, the probation window ends, a stopped panel
  is started again.  That the window (10 minutes) is longer than the supervisor's backoff (60 seconds) is built in:
  `WindowLapses` does not happen while a session could come up at once.
- `RolloutFairness`: the worker ticks, and every job ends, which is `ExpiryHappens` of the queue.  The request owes
  nothing: it may stop anywhere.

## 4. Proofs

TLAPS checks, for every value of the constants that satisfies `NamesAssumption` and `ServiceAssumption`
(sets for the roles, natural numbers for times and bounds, `Second > 0`):

- `TypeCorrect`: `Spec => []TypeOK`.  One step per action; the operators' types are lemmas.
- `WatermarkCorrect`: `Spec => []WatermarkSound`.  `WatermarkSound` with `TypeOK` is inductive.  The point of the
  proof is that each path either lowers the watermark for the job it revives or changes, or makes jobs unable to
  expire, or recomputes it.
- `IndexCorrect`: `Spec => []IndexExact`.  Not inductive by itself: a publish inserts a job under a number the index
  might already hold, since `PruneKeys` does not clean the index.  `IndexInv` adds `AbsentIsEmpty`, `NumbersDrawn`
  (nothing above `sequence` is known anywhere in memory) and `EnqueueFresh` (the number of an Enqueue in flight is
  unknown to jobs and index, and drawn once).
- `KeyOwnershipCorrect`: `Spec => []KeyOwnership`.  `KeyInv` adds that an Enqueue in flight holds its key's
  reservation, that jobs, rows and candidates carry a key, that rows have distinct keys (the UNIQUE constraint), and
  that a key in `keyTerminalAt` has an owner.  Restart gets its uniqueness from the rows alone.
- `FinishedCorrect`: `Spec => FinishedStaysFinished`, an action property; every committing path is classified by
  which targets it may change.
- `DispatchCorrect`: `Spec => DispatchWithinTTL`, an action property.  On the fast path the batch is taken without a
  sweep; that nothing on it is overdue is what `WatermarkSound` is for.
- `SiblingsSuperseded`: `Spec => []StaleSiblingsAreLate`, for any number of enqueuers, any lag of their clocks and any
  number of restarts.  The point is what no later step may undo: a target that supersession closed is not reopened by a
  report, a sweep or a second publish, and a number that is published has no pair on record but from its own publication
  or a restart.  The invariant uses `IndexInv` for that: the job of an Enqueue in flight is not resident.
- `StoreCaughtUp`: `Spec => []StoreCatchesUp`, if `ListLimit >= MaxJobs` (a truncated restore draws numbers again whose
  rows are still there, and TLC refutes the invariant).  `StoreInv` looks at each cell of the tables: the row of a
  resident job and each of its target rows is current, or some goroutine owes it (it has not come to it, or its
  snapshot is stale and the version check will make it start again), or a write of the job failed.  It needs to know
  that a snapshot marked latest is what memory has (`SnapOK`), that tables, memory and snapshots agree on which agents a
  job targets, so that retention, which never takes a row with targets, takes only rows of finished jobs
  (`ResidentOK`), and that an Enqueue in flight has its rows to itself (`EnqueueOK`).  The proof attempt showed that an
  earlier form of the property, without `RetentionTook`, was wrong; the run was too short to reach it.
- `LiveJobsRestored`: `Spec => RestartKeepsLiveJobs`, for any limit.  `KeptInv` says that a resident unfinished job has a
  row that retention cannot take, whatever is still to be written to it, also where a truncated restore made a number be
  drawn again over an old row.  That the listing returns such a row unless `ListLimit` older ones come first is a
  fact about `ListedRows`.

For the agent, from `AgentAssumption` (disjoint kinds of jobs, positive capacities and retention):

- `AgentTypeCorrect`: `Spec => []TypeOK`, capacities included.
- `NothingLeaks`, `NoCopies`: `Spec => []NoLeakedReservation`, `Spec => []QueuedOnce`.  The invariant is `Custody`:
  a job is held only by its own lane (`OwnLane`), every reservation is of a held job (`Held`), nothing is held between
  connections (`DownIsEmpty`), and while the connection is up everything held is reserved (`UpReserved`).  The converse
  fails while it closes, when the pump and the worker may both release a job; `Held` alone carries the teardown.
- `HandlerRunsOnce`: `Spec => RunsOnce`.  `Memory` adds that a running job was started at the time its worker
  recorded, and that a started job runs, is cached under that time, or is past the retention.  `OwnLane` is needed:
  it is the single worker of the job's lane that keeps a second copy from running beside the first.

For the webhook outbox, from `WebhookConstants`:

- `WebhookTypeCorrect`, `DeadIsEarnedCorrect`: `WebhookSpec => []WebhookTypeOK`, `WebhookSpec => []DeadIsEarned`.
- `WebhooksRefineOutbox`: `WebhookSpec => AtLeastOnce`, that is, every step of `Webhooks` is a step of `Outbox` or
  leaves its variables alone.  `WebhookInv` adds that a row due twice does not exist (`ReadyInv`), that what the worker
  holds are rows that were owed when it read them and whose attempt it still knows (`ClaimInv`), that a fan-out in
  flight has no rows yet (`FanoutInv`), that an answer in hand is one a receiver or the preflight gave (`AnswerInv`),
  and that a row's attempts were made (`AttemptInv`).  Marking is the hard step: the row may have been deleted since.

For the batch writer, from `BatchConstants` (a positive capacity, natural bounds):

- `BatchTypeCorrect`: `BatchSpec => []BatchTypeOK`, the capacity of the buffers included.
- `GoneAgentsStayGone`: `BatchSpec => GoneStaysGone`.  The action property needs to know what a step could bring an
  agent back from.  `GoneInv` says that the guard is up from the arming of a deregistration to the next restart, and
  that where a restart has lost the guard the agent is in the mirror again or has left `NoTrace`: no row, no stream,
  no snapshot handler, no record buffered or being written.
- `FallbackOrderKept`: `BatchSpec => []FallbackOrder`.  `OrderInv` adds `OneDrain` (`drainMu`: one of loop and Flush
  holds a batch), so that the operations in flight and in the buffer are one queue and every write takes its head.
  The rest is about sequences: an operation of another agent, or one that is not the last of its agent, decides
  nothing.  A put that the foreign key refuses is given up, and a deregistration deletes the row of an agent in
  fallback; both are on record in `lostOps`.  What `Without` leaves in a buffer is proved by going down from a least counterexample (`WFMin` of the
  library, for the set of bad indices), since the induction theorems themselves cannot be instantiated here.

For the audit trail, from `AuditConstants`:

- `AuditTypeCorrect`, `NothingLostSilently`, `NeighboursAlwaysLink`.  `NeighboursLink` is about rows only and is not
  inductive; `LinksInv` says it of all events that are still on their way as well, and `NumbersInv` that those have
  distinct numbers, none above `auditSeq`, and that the one with that number has the hash of the tail.

For usage, from `UsageConstants` (positive queue length and number of bytes):

- `UsageTypeCorrect`, `UsageChargedOnce`, `UsageCatchesUp`: `UsageSpec => []UsageTypeOK`, `[]ChargedOnce`,
  `[]LostReportsCatchUp`.  The panel compares a report with the last one of the same process, so what it may charge
  depends on processes that no longer exist.  `UsageInv` therefore asserts a choice of marks, `from[b]`: the bytes that
  were transferred before process `b` began to count.  Each process has the room up to the mark of its successor;
  every report on its way, and both copies of the panel's entry, fit into the room of their process (`ReportsCovered`,
  `EntriesCovered`), and no sample can add more than was transferred since the last one (`SamplesCovered`).  `Ordered`
  says that reports wait in the order they were made and are ahead of what the panel has on the newest stream;
  `OneKey`, that a process counts the client under one key.  All of this holds while `doubted = "no"`.

For config rollouts, from `RolloutAssumption` (finite sets of batches and hosts):

- `RolloutTypeCorrect`, `RolloutSucceededApplied`, `RolloutLostTrue`: `RolloutSpec => []RolloutTypeOK`,
  `[]BatchSucceededIsApplied`, `[]LostIsTrue`.  The worker reads the rows of a batch, derives a verdict for each, and
  writes them one by one, while the request, the jobs and retention go on.  `RolloutInv` says what of that stays true
  (`PassReads`: a row that was read as succeeded still is fulfilled, a verdict `lost` still is right unless the batch
  was raced) and which targets the pass has yet to judge or to write (`PassPlace`).  A target holds its own batch's job or is in
  `foreign`, and then it holds a job that is not older than its batch.  Success is monotone, since
  `reached` and the order of creation only grow; loss is not, and needs that a request that is over makes no job.

For the certificate, from `CertAssumption` (the renewal window is shorter than the lifetime and not longer than the
overlap, as the constants of the code are):

- `CertTypeCorrect`, `HeldAlwaysUsable`, `PresenterKept`: `CertSpec => []CertTypeOK`, `[]HeldStaysUsable`,
  `PresenterNeverEvicted`.  `CertInv` adds `HeldIsPinned` (the certificate held has expired, is the current pin, is the
  previous pin for as long as it is valid, or, where an overlap was closed underneath a renewal, is due to be renewed by
  the unary call, which is not checked against the pins; this for as long as nothing brought a replaced certificate
  back), `ReplyIsPinned` (a certificate on its way to the agent is the current pin), `PinsDiffer`, and `OnePath`: two
  renewals are never under way at once, without which a second rotation would evict the presenter.

For the transport switch, from `SwitchAssumption`:

- `SwitchTypeCorrect`, `FallbackAlwaysProven`: `SwitchSpec => []SwitchTypeOK`, `[]FallbackIsProven`.  `FallbackIsProven`
  is about the file; a session and a revert act on the copy in memory.  `SwitchInv` says that the file falls back to
  exactly the mode of the last session, that the memory is the file or is in that mode with no probation
  (`MemoryRemembers`), and that a session that is served has no probation left (`ServingIsSettled`).

For the Telemt update, from `UpdateAssumption`:

- `UpdateTypeCorrect`, `WorkingBinaryAlwaysKept`, `UpdateEndsInstalled`.  The invariant says where the working binary
  is: while the update is in place (not begun, staged, restored) it is installed or backed up, between swap and
  outcome it is the backup (`KeptWhere`); without crash, failed rename or failed restart command it is installed
  whenever the update is in place (`EndsWhere`).

For the client flows, from `ClientConstants`:

- `ClientTypesCorrect`: `ClientSpec => []ClientTypeOK`, for any clients, operators and passes.  `ClientTypeInv` says that
  only saved clients have deployments, jobs and passes, and that a clock reading held by a request or a pass is on no job
  of a client it has yet to enqueue for, which keeps the creation times of two live jobs of a client apart.
- `SucceededCorrect`: `ClientSpec => []SucceededIsTrue`, for any number of concurrent requests and passes.
  `ClientInv` says that the clock readings on record for a client (of its last save, and of the saves its jobs and the
  requests under way were made after) are past, and that a request that has yet to save the client holds none of
  those, so that its save makes everything before it stale (`MarksOK`); that one client asks for the name or all that
  ask for it are excused (`RivalsOK`); and that registry and Telemt name the same owner where the registry names one
  (`RegistryOK`).  Of a client that is not excused (`OrderOK`): once a current job has been enqueued, only current
  jobs of it are in the queue; in the lane no stale job comes after a current one; once there is a sign that a current
  one has run (a result under way, a recorded success, or the success a token request is about to write again), the
  node has what was asked and no stale job waits in the lane.  Two proof attempts failed for a reason: one showed the
  fourth race, which the run's instance was then too small to reach, the other, without the hypothesis of a single
  operator, the sixth and the seventh.

For the panel as `MCPanel` composes it, from the assumptions of all its parts:

- `PanelTypesCorrect`: `PanelSpec => []PanelTypeOK`.  This and the next rest on the lemma `PanelImplementsParts`: a
  behaviour of `PanelSpec` is one of each part, which the disjoint sum gives.
- `PanelSafe`: the thirteen other invariants and the three action properties of `panel_safe` hold of `PanelSpec`, the
  specification the run checks.  `Outbox` included, this is everything `panel_safe` asks, for all constants.

Model-checked only: all liveness, which is outside what the prover handles.

## 5. Not modelled

See `components` in `PROJECT.json`.  Of the modelled parts:

- payload contents, log and audit output, metrics, result texts, read-only listings, HTTP validation;
- clients: quota resets, discovery and adoption (only the seed of a usage entry is in `ClientUsage`), edits of
  assignments other than through `NodeMoves`;
- usage: dropping the entries of a removed agent; gauges;
- certificates: expiry and withdrawal of a recovery grant; the CA;
- transports: the marker that shows a pending switch in the UI; addresses;
- rollouts: the merge of scopes, the fold of an applied config, drift, the views of a batch;
- updates: the panel's and the agent's own update, whose last step replaces the process that would observe it.

Login, sessions, lockout, CSRF and secrets are not part of this project.  The event bus and the buffers of runtime
events lose messages by design and nothing depends on them.  Storage backends are modelled by the statements the
modelled parts issue.  What is left (HTTP handlers, read models, settings, GeoIP, metrics, generated code, web UI) makes
up most of the repository's lines and takes part in no protocol between the modelled parts.  The map stands for some
7,800 of about 102,000 lines of implementation; this is a model of the core protocols, not of the whole program.

## 6. Plan

Done: the job queue and the agent's jobs; client deployments and usage; certificates; transport switch; config
rollouts; the Telemt update; batch writer; audit trail and webhooks.  Every safety property
of a passing run is proved.

Next, as models: quota resets, discovery and adoption in `ClientFlow`; drift and the fold in `ConfigRollout`.
