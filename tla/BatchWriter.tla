---------------------------- MODULE BatchWriter ----------------------------
(***************************************************************************)
(* The panel's asynchronous writer (controlplane/batchwriter) together     *)
(* with the handlers whose rows go through it and may be withdrawn again:  *)
(* snapshots, certificate renewals, enrolment and deregistration of an     *)
(* agent.                                                                  *)
(*                                                                         *)
(* Two of the nine streams are represented.  "agents" stands for the bulk  *)
(* streams: one store call writes the whole batch.  "fallback" is          *)
(* fallback_state: one store call per operation, drained by a loop of its  *)
(* own.  The audit stream has a module of its own, AuditTrail.             *)
(*                                                                         *)
(* Every stream is drained by its background loop, by Flush and by the     *)
(* final drain of StopWithTimeout; drainMu lets one of them through at a   *)
(* time.  A batch is swapped out of the buffer first and written           *)
(* afterwards, outside the lock that Enqueue and RemoveMatching take.      *)
(***************************************************************************)
EXTENDS Naturals, Sequences, FiniteSets

CONSTANTS
  Nodes,        \* agent identities; an identity is never issued twice
  Cap,          \* capLimit of every buffer
  MaxEnqueues,  \* bound: records and operations enqueued
  MaxFaults,    \* bound: store calls that fail
  MaxBoots      \* bound: restarts of the panel

ASSUME BatchConstants ==
  /\ Cap \in Nat \ {0}
  /\ MaxEnqueues \in Nat
  /\ MaxFaults \in Nat
  /\ MaxBoots \in Nat

VARIABLES
  buf,        \* stream -> live window of its buffer
  batch,      \* stream, drainer -> what that drain still has to write
  tries,      \* stream -> failed attempts of the current store call
  agentRows,  \* table agents
  fallbackRows,  \* table agent_fallback_state
  revocationRows, \* table agent_revocations
  liveAgents, \* in-memory mirror of the fleet
  inFallback, \* in-memory fallback tracker
  revokedIDs, \* revokedAgentIDs
  streams,    \* nodes with an open, authorised stream
  handlers,   \* node -> handlers that are between two of their steps
  dereg,      \* node -> how far the deregistration of the node has come
  enrolled,   \* identities that were ever issued
  stopping,   \* w.done is closed
  lostOps,    \* nodes whose fallback row may be behind: an operation was lost, or
              \* the row went with its agent while the tracker said fallback
  spent       \* [enqueues, faults, boots] used so far

batchVars == <<buf, batch, tries, agentRows, fallbackRows,
               revocationRows, liveAgents, inFallback, revokedIDs, streams,
               handlers, dereg, enrolled, stopping, lostOps, spent>>

storeVars == <<agentRows, fallbackRows, revocationRows>>
fleetVars == <<liveAgents, inFallback, revokedIDs, streams, handlers, dereg, enrolled>>
drainVars == <<batch, tries>>

Streams == {"agents", "fallback"}
Drainers == {"loop", "flush"}
Ops == [node : Nodes, op : {"put", "delete"}]

\* retryBackoffs: two delays, so at most three attempts.
MaxAttempts == 3

DeregSteps == {"none", "armed", "withdrawn", "deleted", "gone"}

\* The types; above all, no buffer grows past its capLimit.
BatchTypeOK ==
  /\ buf \in [Streams -> Seq(Ops)]
  /\ \A s \in Streams : Len(buf[s]) <= Cap
  /\ batch \in [Streams -> [Drainers -> Seq(Ops)]]
  /\ tries \in [Streams -> 0 .. MaxAttempts - 1]
  /\ agentRows \subseteq Nodes
  /\ fallbackRows \subseteq Nodes
  /\ revocationRows \subseteq Nodes
  /\ liveAgents \subseteq Nodes
  /\ inFallback \subseteq Nodes
  /\ revokedIDs \subseteq Nodes
  /\ streams \subseteq Nodes
  /\ handlers \in [Nodes -> SUBSET {"snapshot", "renewal"}]
  /\ dereg \in [Nodes -> DeregSteps]
  /\ enrolled \subseteq Nodes
  /\ stopping \in {"no", "yes"}
  /\ lostOps \subseteq Nodes
  /\ spent \in [enqueues : Nat, faults : Nat, boots : Nat]

BatchInit ==
  /\ buf = [s \in Streams |-> <<>>]
  /\ batch = [s \in Streams |-> [w \in Drainers |-> <<>>]]
  /\ tries = [s \in Streams |-> 0]
  /\ agentRows = {} /\ fallbackRows = {} /\ revocationRows = {}
  /\ liveAgents = {} /\ inFallback = {} /\ revokedIDs = {}
  /\ streams = {}
  /\ handlers = [n \in Nodes |-> {}]
  /\ dereg = [n \in Nodes |-> "none"]
  /\ enrolled = {}
  /\ stopping = "no"
  /\ lostOps = {}
  /\ spent = [enqueues |-> 0, faults |-> 0, boots |-> 0]

---------------------------------------------------------------------------
(* The buffer.                                                             *)

\* Mutant: the buffer is capped one place too late.
EnqueuedOneMore(q, item) ==
  LET grown == Append(q, item)
  IN  IF Len(grown) > Cap + 1 THEN Tail(grown) ELSE grown

\* batchBuffer.Enqueue: append, and drop the oldest item past the cap.
Enqueued(q, item) ==
  LET grown == Append(q, item)
  IN  IF Len(grown) > Cap THEN Tail(grown) ELSE grown

\* The nodes of the items Enqueue evicts (at most one).
Evicted(q) == IF Len(q) >= Cap THEN {Head(q).node} ELSE {}

\* One record or operation enters stream s.
Enqueue(s, n, op) ==
  /\ spent.enqueues < MaxEnqueues
  /\ buf' = [buf EXCEPT ![s] = Enqueued(@, [node |-> n, op |-> op])]
  /\ lostOps' = IF s = "fallback" THEN lostOps \union Evicted(buf[s]) ELSE lostOps
  /\ spent' = [spent EXCEPT !.enqueues = @ + 1]

NothingEnqueued == UNCHANGED <<buf, lostOps, spent>>

\* batchBuffer.RemoveMatching, called by RemovePendingAgent: only the live
\* window is searched, a batch that was swapped out is not.
Without(q, n) ==
  LET filtered[i \in 0 .. Len(q)] ==
        IF i = 0 THEN <<>>
        ELSE IF q[i].node = n THEN filtered[i - 1] ELSE Append(filtered[i - 1], q[i])
  IN  filtered[Len(q)]

---------------------------------------------------------------------------
(* Draining.                                                               *)

\* The loops leave when done is closed; the final drain waits for them.
DrainerRuns(who) ==
  IF stopping = "no" THEN TRUE
  ELSE who = "flush" /\ \A s \in Streams : batch[s]["loop"] = <<>>

\* Mutant: a drain does not wait for the other one.
DrainsUnlocked(s, who) == batch[s][who] = <<>> /\ DrainerRuns(who)

\* Mutant: stopping does not drain.
NoFinalDrain(s, who) ==
  (\A w \in Drainers : batch[s][w] = <<>>) /\ stopping = "no"

\* drainMu is free and held by nobody who is still writing.
MayDrain(s, who) ==
  (\A w \in Drainers : batch[s][w] = <<>>) /\ DrainerRuns(who)

\* Drain: take the live window away and start to write it.
Drain(s, who) ==
  /\ MayDrain(s, who)
  /\ buf[s] # <<>>
  /\ batch' = [batch EXCEPT ![s][who] = buf[s]]
  /\ buf' = [buf EXCEPT ![s] = <<>>]
  /\ tries' = [tries EXCEPT ![s] = 0]
  /\ UNCHANGED <<storeVars, fleetVars, stopping, lostOps, spent>>

\* What one store call writes: the whole batch, or its first operation.
Unit(s, q) == IF s = "agents" THEN q ELSE <<Head(q)>>
Rest(s, q) == IF s = "agents" THEN <<>> ELSE Tail(q)
NodesOf(q) == {q[i].node : i \in DOMAIN q}

\* PutAgentsBulk, PutAgentFallbackState and DeleteAgentFallbackState.
Stored(s, unit) ==
  IF s = "agents"
  THEN /\ agentRows' = agentRows \union NodesOf(unit)
       /\ UNCHANGED <<fallbackRows, revocationRows>>
  ELSE /\ fallbackRows' = IF unit[1].op = "put"
                          THEN fallbackRows \union {unit[1].node}
                          ELSE fallbackRows \ {unit[1].node}
       /\ UNCHANGED <<agentRows, revocationRows>>

\* The unit is done with, written or given up; the drain ends with the batch.
UnitDone(s, who) ==
  /\ batch' = [batch EXCEPT ![s][who] = Rest(s, @)]
  /\ tries' = [tries EXCEPT ![s] = 0]

\* agent_fallback_state.agent_id references agents: a put for a node without a row
\* is refused by the foreign key.
ForeignKeyRefuses(s, unit) ==
  s = "fallback" /\ unit[1].op = "put" /\ unit[1].node \notin agentRows

WriteSucceeds(s, who) ==
  /\ batch[s][who] # <<>>
  /\ ~ForeignKeyRefuses(s, Unit(s, batch[s][who]))
  /\ Stored(s, Unit(s, batch[s][who]))
  /\ UnitDone(s, who)
  /\ UNCHANGED <<buf, fleetVars, stopping, lostOps, spent>>

StoreFails ==
  /\ spent.faults < MaxFaults
  /\ spent' = [spent EXCEPT !.faults = @ + 1]

\* flushItem gives the unit up: the rows are dropped, an alert is logged.
GiveUp(s, who) ==
  /\ UnitDone(s, who)
  /\ lostOps' = IF s = "fallback" THEN lostOps \union {Head(batch[s][who]).node} ELSE lostOps

\* A transient error, after which the rows may have landed all the same (a
\* deadline that passes during the commit).  The call is repeated unless the
\* attempts are used up or the writer is stopping.
WriteTransient(s, who, landed) ==
  /\ batch[s][who] # <<>>
  /\ StoreFails
  /\ IF landed
     THEN ~ForeignKeyRefuses(s, Unit(s, batch[s][who])) /\ Stored(s, Unit(s, batch[s][who]))
     ELSE UNCHANGED storeVars
  /\ IF tries[s] + 1 = MaxAttempts \/ stopping = "yes"
     THEN GiveUp(s, who)
     ELSE /\ tries' = [tries EXCEPT ![s] = @ + 1]
          /\ UNCHANGED <<batch, lostOps>>
  /\ UNCHANGED <<buf, fleetVars, stopping>>

\* An error ClassifyFlushError calls persistent, the refusal of the foreign key
\* among them: no retry.
WritePersistent(s, who) ==
  /\ batch[s][who] # <<>>
  /\ IF ForeignKeyRefuses(s, Unit(s, batch[s][who])) THEN UNCHANGED spent ELSE StoreFails
  /\ UNCHANGED storeVars
  /\ GiveUp(s, who)
  /\ UNCHANGED <<buf, fleetVars, stopping>>

\* StopWithTimeout closes done.
StopWithTimeout ==
  /\ stopping = "no"
  /\ spent.boots < MaxBoots
  /\ \A n \in Nodes : handlers[n] = {} /\ dereg[n] \in {"none", "gone"}
  /\ stopping' = "yes"
  /\ UNCHANGED <<buf, drainVars, storeVars, fleetVars, lostOps, spent>>

\* restoreFallbackState: the tracker is what the table says.
RestoreFallbackState == inFallback' = fallbackRows

\* The process ends, by a crash or after the final drain, and the next one
\* restores its memory from the tables.
Restart ==
  /\ spent.boots < MaxBoots
  /\ buf' = [s \in Streams |-> <<>>]
  /\ batch' = [s \in Streams |-> [w \in Drainers |-> <<>>]]
  /\ tries' = [s \in Streams |-> 0]
  /\ liveAgents' = agentRows
  /\ RestoreFallbackState
  /\ revokedIDs' = revocationRows
  /\ streams' = {}
  /\ handlers' = [n \in Nodes |-> {}]
  /\ dereg' = [n \in Nodes |-> IF dereg[n] = "gone" THEN "gone" ELSE "none"]
  /\ stopping' = "no"
  /\ lostOps' = {}
  /\ spent' = [spent EXCEPT !.boots = @ + 1]
  /\ UNCHANGED <<storeVars, enrolled>>

---------------------------------------------------------------------------
(* The handlers.                                                           *)

\* Enrolment commits the row in its own transaction, then mirrors it and
\* enqueues the same record.
Enroll(n) ==
  /\ stopping = "no"
  /\ n \notin enrolled
  /\ enrolled' = enrolled \union {n}
  /\ agentRows' = agentRows \union {n}
  /\ liveAgents' = liveAgents \union {n}
  /\ Enqueue("agents", n, "put")
  /\ UNCHANGED <<drainVars, fallbackRows, revocationRows, inFallback, revokedIDs,
                 streams, handlers, dereg, stopping>>

\* applyFallbackStateTransition: only an edge is recorded and enqueued.
FallbackTransition(n, mode) ==
  CASE mode = "fallback" /\ n \notin inFallback ->
         inFallback' = inFallback \union {n} /\ Enqueue("fallback", n, "put")
    [] mode = "healthy" /\ n \in inFallback ->
         inFallback' = inFallback \ {n} /\ Enqueue("fallback", n, "delete")
    [] OTHER -> UNCHANGED inFallback /\ NothingEnqueued

\* AuthorizeAgentConnect: not revoked, and a row to find the pins in.
Connect(n) ==
  /\ stopping = "no"
  /\ n \notin revokedIDs /\ n \in agentRows
  /\ streams' = streams \union {n}
  /\ UNCHANGED <<buf, drainVars, storeVars, liveAgents, inFallback, revokedIDs, handlers,
                 dereg, enrolled, stopping, lostOps, spent>>

\* Terminate, the revocation watcher, a lost connection: none of them waits for
\* the message that is being handled.
Disconnect(n) ==
  /\ n \in streams
  /\ streams' = streams \ {n}
  /\ UNCHANGED <<buf, drainVars, storeVars, liveAgents, inFallback, revokedIDs, handlers,
                 dereg, enrolled, stopping, lostOps, spent>>

\* Mutant: a snapshot is applied without asking the revocation set.
SnapshotUnguarded(n) == TRUE

SnapshotAccepted(n) == n \notin revokedIDs

\* applyAgentSnapshot, the section under s.mu.
ApplySnapshot(n, mode) ==
  /\ stopping = "no"
  /\ n \in streams
  /\ "snapshot" \notin handlers[n]
  /\ SnapshotAccepted(n)
  /\ liveAgents' = liveAgents \union {n}
  /\ FallbackTransition(n, mode)
  /\ handlers' = [handlers EXCEPT ![n] = @ \union {"snapshot"}]
  /\ UNCHANGED <<drainVars, storeVars, revokedIDs, streams, dereg, enrolled, stopping>>

\* enqueueAgentSnapshotBatchWrites: the guard again, and the record, under s.mu.
EnqueueSnapshot(n) ==
  /\ "snapshot" \in handlers[n]
  /\ IF n \in revokedIDs THEN NothingEnqueued ELSE Enqueue("agents", n, "put")
  /\ handlers' = [handlers EXCEPT ![n] = @ \ {"snapshot"}]
  /\ UNCHANGED <<drainVars, storeVars, liveAgents, inFallback, revokedIDs, streams, dereg,
                 enrolled, stopping>>

\* RenewAgentCertificate and HandleInStreamRenewalRequest: the revocation check ...
RenewalStarts(n) ==
  /\ stopping = "no"
  /\ n \in enrolled
  /\ "renewal" \notin handlers[n]
  /\ n \notin revokedIDs
  /\ handlers' = [handlers EXCEPT ![n] = @ \union {"renewal"}]
  /\ UNCHANGED <<buf, drainVars, storeVars, liveAgents, inFallback, revokedIDs, streams, dereg,
                 enrolled, stopping, lostOps, spent>>

\* ... and, after the certificate is signed, the update of the mirror under
\* s.mu.  This section does not look at revokedAgentIDs again.
RenewalCommits(n) ==
  /\ "renewal" \in handlers[n]
  /\ IF n \in liveAgents THEN Enqueue("agents", n, "put") ELSE NothingEnqueued
  /\ handlers' = [handlers EXCEPT ![n] = @ \ {"renewal"}]
  /\ UNCHANGED <<drainVars, storeVars, liveAgents, inFallback, revokedIDs, streams, dereg,
                 enrolled, stopping>>

\* handleDeregisterAgent, steps 1 to 3: the agent exists, arm the guard.
DeregisterArms(n) ==
  /\ stopping = "no"
  /\ dereg[n] \in {"none", "gone"}
  /\ n \in liveAgents
  /\ revokedIDs' = revokedIDs \union {n}
  /\ dereg' = [dereg EXCEPT ![n] = "armed"]
  /\ UNCHANGED <<buf, drainVars, storeVars, liveAgents, inFallback, streams, handlers,
                 enrolled, stopping, lostOps, spent>>

\* persistAgentDeregister: RemovePendingAgent ...
DeregisterWithdraws(n) ==
  /\ dereg[n] = "armed"
  /\ buf' = [buf EXCEPT !["agents"] = Without(@, n)]
  /\ dereg' = [dereg EXCEPT ![n] = "withdrawn"]
  /\ UNCHANGED <<drainVars, storeVars, liveAgents, inFallback, revokedIDs, streams, handlers,
                 enrolled, stopping, lostOps, spent>>

\* ... DeleteAgent, which takes the fallback row along (ON DELETE CASCADE) although
\* nobody resets the tracker, and PutAgentRevocation (whose failure is only logged) ...
DeregisterDeletes(n, revocationStored) ==
  /\ dereg[n] = "withdrawn"
  /\ agentRows' = agentRows \ {n}
  /\ fallbackRows' = fallbackRows \ {n}
  /\ lostOps' = IF n \in inFallback THEN lostOps \union {n} ELSE lostOps
  /\ revocationRows' = IF revocationStored THEN revocationRows \union {n} ELSE revocationRows
  /\ IF revocationStored THEN UNCHANGED spent ELSE StoreFails
  /\ dereg' = [dereg EXCEPT ![n] = "deleted"]
  /\ UNCHANGED <<buf, drainVars, liveAgents, inFallback, revokedIDs,
                 streams, handlers, enrolled, stopping>>

\* ... or a store error: the handler returns and the guard stays armed.
DeregisterFails(n) ==
  /\ dereg[n] \in {"armed", "withdrawn"}
  /\ StoreFails
  /\ dereg' = [dereg EXCEPT ![n] = "none"]
  /\ UNCHANGED <<buf, drainVars, storeVars, liveAgents, inFallback, revokedIDs,
                 streams, handlers, enrolled, stopping, lostOps>>

\* purgeAgentInMemory, under s.mu.
DeregisterPurges(n) ==
  /\ dereg[n] = "deleted"
  /\ liveAgents' = liveAgents \ {n}
  /\ dereg' = [dereg EXCEPT ![n] = "gone"]
  /\ UNCHANGED <<buf, drainVars, storeVars, inFallback, revokedIDs, streams, handlers,
                 enrolled, stopping, lostOps, spent>>

---------------------------------------------------------------------------
Handlers(n) ==
  \/ Enroll(n)
  \/ Connect(n)
  \/ Disconnect(n)
  \/ \E mode \in {"fallback", "down", "healthy"} : ApplySnapshot(n, mode)
  \/ EnqueueSnapshot(n)
  \/ RenewalStarts(n)
  \/ RenewalCommits(n)
  \/ DeregisterArms(n)
  \/ DeregisterWithdraws(n)
  \/ \E ok \in BOOLEAN : DeregisterDeletes(n, ok)
  \/ DeregisterFails(n)
  \/ DeregisterPurges(n)

StoreAnswers(s, who) ==
  \/ WriteSucceeds(s, who)
  \/ \E landed \in BOOLEAN : WriteTransient(s, who, landed)
  \/ WritePersistent(s, who)

Draining(s) == \E who \in Drainers : Drain(s, who)

Writing(s) == \E who \in Drainers : StoreAnswers(s, who)

BatchNext ==
  \/ \E n \in Nodes : Handlers(n)
  \/ \E s \in Streams : Draining(s) \/ Writing(s)
  \/ StopWithTimeout
  \/ Restart

\* The loops run on a ticker, the shutdown drains, and every store call returns.
BatchFairness ==
  \A s \in Streams : WF_batchVars(Draining(s)) /\ WF_batchVars(Writing(s))

BatchSpec == BatchInit /\ [][BatchNext]_batchVars /\ BatchFairness

---------------------------------------------------------------------------
(* Properties.                                                             *)

FallbackQueue ==
  batch["fallback"]["loop"] \o batch["fallback"]["flush"] \o buf["fallback"]

\* The row of a node is what the tracker says, or the last operation still on
\* its way makes it so; an operation that was evicted or given up excuses it, and
\* so does a deregistration that deleted the row of a node in fallback.
FallbackRowFollows(n) ==
  LET mine == {i \in DOMAIN FallbackQueue : FallbackQueue[i].node = n}
      want == IF n \in inFallback THEN "put" ELSE "delete"
  IN  \/ n \in lostOps
      \/ /\ mine = {}
         /\ (n \in fallbackRows) <=> (n \in inFallback)
      \/ \E i \in mine : /\ \A j \in mine : j <= i
                         /\ FallbackQueue[i].op = want

\* Whatever the interleaving of the loop, Flush and the enqueues, the
\* operations of one agent reach agent_fallback_state in the order of its
\* transitions, so a restart restores the tracker it left.  It holds through a
\* deregistration too: only a node that was in fallback when its agent was deleted
\* is excused, and one whose last transition was back to health leaves no row.
FallbackOrder == \A n \in Nodes : FallbackRowFollows(n)

\* A deregistered agent does not come back into the mirror: neither a snapshot
\* nor a renewal that was already past its first check re-creates it.  A
\* restart reloads the mirror from the table and is not covered.
GoneStaysGone ==
  [][\A n \in Nodes : (dereg[n] = "gone" /\ n \notin liveAgents) =>
        n \notin liveAgents' \/ spent'.boots # spent.boots]_batchVars

\* Nothing stays buffered: the loops drain every stream, the shutdown drains
\* what is left, and a store that keeps refusing ends a drain after a bounded
\* number of attempts.
BuffersDrain ==
  \A s \in Streams : buf[s] # <<>> ~> (buf[s] = <<>> /\ \A w \in Drainers : batch[s][w] = <<>>)
=============================================================================
