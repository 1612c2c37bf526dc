---------------------------- MODULE AuditTrail -----------------------------
(***************************************************************************)
(* The audit trail: events are numbered and chained in memory              *)
(* (server/audit_trail.go, audit_hash_chain.go), persisted either at once  *)
(* or through the audit stream of the batch writer, spooled to a           *)
(* dead-letter file when the store refuses them, pruned by retention and   *)
(* continued after a restart from the rows that survived.                  *)
(*                                                                         *)
(* The SHA-256 of an event is represented by a number no other event has.  *)
(* Hash 0 is the empty string: the genesis of the chain.  created_at never *)
(* decreases from one event to the next, so rows are ordered by id alone.  *)
(***************************************************************************)
EXTENDS Naturals, Sequences, FiniteSets

CONSTANTS
  AuditCap,       \* capLimit of the audit buffer
  MaxEvents,      \* bound: events appended
  MaxWriters,     \* bound: requests between numbering and storing an event
  MaxAuditFaults, \* bound: store or spool calls that fail
  MaxAuditBoots   \* bound: restarts of the panel

ASSUME AuditConstants ==
  /\ AuditCap \in Nat \ {0}
  /\ MaxEvents \in Nat /\ MaxWriters \in Nat
  /\ MaxAuditFaults \in Nat /\ MaxAuditBoots \in Nat

VARIABLES
  auditSeq,    \* number of the last event
  chainTail,   \* auditChainTail
  minted,      \* every event ever appended
  unsent,      \* numbered events whose request has not stored them yet
  auditBuf,    \* the audit buffer
  auditBatch,  \* the batch being written
  auditTries,  \* failed attempts for that batch
  auditRows,   \* table audit_events
  spool,       \* the dead-letter file
  missing,     \* events whose loss was reported, or died with the process
  pruned,      \* rows removed by retention
  auditSpent   \* [faults, boots] used so far

auditVars == <<auditSeq, chainTail, minted, unsent, auditBuf, auditBatch, auditTries,
               auditRows, spool, missing, pruned, auditSpent>>

Hashes == 0 .. MaxEvents
Event == [id : Nat, hash : Hashes, prev : Hashes, path : {"async", "sync"}]

InQueue(q) == {q[i] : i \in DOMAIN q}

\* The types; above all, the audit buffer stays within its capLimit and nothing
\* is stored, spooled or given up that was never appended.
AuditTypeOK ==
  /\ auditSeq \in Nat /\ chainTail \in Hashes
  /\ minted \subseteq Event /\ unsent \subseteq minted
  /\ auditBuf \in Seq(minted) /\ Len(auditBuf) <= AuditCap
  /\ auditBatch \in Seq(minted)
  /\ auditTries \in 0 .. 2
  /\ auditRows \subseteq minted /\ spool \subseteq minted
  /\ missing \subseteq minted /\ pruned \subseteq minted
  /\ auditSpent \in [faults : Nat, boots : Nat]

AuditInit ==
  /\ auditSeq = 0 /\ chainTail = 0
  /\ minted = {} /\ unsent = {}
  /\ auditBuf = <<>> /\ auditBatch = <<>> /\ auditTries = 0
  /\ auditRows = {} /\ spool = {} /\ missing = {} /\ pruned = {}
  /\ auditSpent = [faults |-> 0, boots |-> 0]

Faulty ==
  /\ auditSpent.faults < MaxAuditFaults
  /\ auditSpent' = [auditSpent EXCEPT !.faults = @ + 1]

---------------------------------------------------------------------------
(* Appending.                                                              *)

\* chainAuditRecordLocked: the next number, chained onto the tail, all under
\* metricsAuditMu.
NextEvent(path) ==
  [id |-> auditSeq + 1, hash |-> Cardinality(minted) + 1, prev |-> chainTail, path |-> path]

\* appendAuditWithContext and appendAuditSync, up to the unlock.
AppendEvent(path) ==
  /\ Cardinality(minted) < MaxEvents
  /\ Cardinality(unsent) < MaxWriters
  /\ auditSeq' = auditSeq + 1
  /\ chainTail' = NextEvent(path).hash
  /\ minted' = minted \union {NextEvent(path)}
  /\ unsent' = unsent \union {NextEvent(path)}
  /\ UNCHANGED <<auditBuf, auditBatch, auditTries, auditRows, spool, missing, pruned,
                 auditSpent>>

\* Mutant: the dead-letter file is not written and nothing is said.
SpoolForgets(S, W) == UNCHANGED <<spool, missing>>

\* writeAuditDeadLetter, one event of S after the other: those of W are written,
\* a failure is logged and alerted.
Spooled(S, W) ==
  /\ spool' = spool \union W
  /\ missing' = missing \union (S \ W)

\* EnqueueAudit, after the lock was released: requests may overtake one another.
\* An event the buffer evicts is spooled.
Kept(q) == IF Len(q) > AuditCap THEN Tail(q) ELSE q

Overflow(q) == IF Len(q) > AuditCap THEN {Head(q)} ELSE {}

EnqueueAudit(e) ==
  LET grown == Append(auditBuf, e)
  IN  /\ e \in unsent /\ e.path = "async"
      /\ unsent' = unsent \ {e}
      /\ auditBuf' = Kept(grown)
      /\ \E W \in SUBSET Overflow(grown) :
           /\ Spooled(Overflow(grown), W)
           /\ IF W = Overflow(grown) THEN UNCHANGED auditSpent ELSE Faulty
      /\ UNCHANGED <<auditSeq, chainTail, minted, auditBatch, auditTries, auditRows, pruned>>

\* The primary key of audit_events.
Insertable(S) == \A e \in S : \A r \in auditRows : r.id # e.id

\* appendAuditSync: the row is stored before the request is answered.
StoreNow(e) ==
  /\ e \in unsent /\ e.path = "sync"
  /\ Insertable({e})
  /\ auditRows' = auditRows \union {e}
  /\ unsent' = unsent \ {e}
  /\ UNCHANGED <<auditSeq, chainTail, minted, auditBuf, auditBatch, auditTries, spool,
                 missing, pruned, auditSpent>>

\* The store refuses: the caller gets the error and an alert is logged.  The
\* tail of the chain has moved on already.
StoreNowFails(e) ==
  /\ e \in unsent /\ e.path = "sync"
  /\ Faulty
  /\ missing' = missing \union {e}
  /\ unsent' = unsent \ {e}
  /\ UNCHANGED <<auditSeq, chainTail, minted, auditBuf, auditBatch, auditTries, auditRows,
                 spool, pruned>>

---------------------------------------------------------------------------
(* The audit stream.                                                       *)

DrainAudit ==
  /\ auditBatch = <<>> /\ auditBuf # <<>>
  /\ auditBatch' = auditBuf
  /\ auditBuf' = <<>>
  /\ auditTries' = 0
  /\ UNCHANGED <<auditSeq, chainTail, minted, unsent, auditRows, spool, missing, pruned,
                 auditSpent>>

\* AppendAuditEventsBulk, one transaction.
InsertSucceeds ==
  /\ auditBatch # <<>>
  /\ Insertable(InQueue(auditBatch))
  /\ auditRows' = auditRows \union InQueue(auditBatch)
  /\ auditBatch' = <<>> /\ auditTries' = 0
  /\ UNCHANGED <<auditSeq, chainTail, minted, unsent, auditBuf, spool, missing, pruned,
                 auditSpent>>

\* flushAuditEvents after the last attempt: the whole batch is spooled.
SpoolBatch(W) ==
  /\ Spooled(InQueue(auditBatch), W)
  /\ auditBatch' = <<>> /\ auditTries' = 0

\* A transient error; the transaction may have committed all the same.
InsertTransient(landed) ==
  /\ auditBatch # <<>>
  /\ Faulty
  /\ IF landed THEN /\ Insertable(InQueue(auditBatch))
                    /\ auditRows' = auditRows \union InQueue(auditBatch)
               ELSE UNCHANGED auditRows
  /\ IF auditTries = 2
     THEN SpoolBatch(InQueue(auditBatch))
     ELSE auditTries' = auditTries + 1 /\ UNCHANGED <<auditBatch, spool, missing>>
  /\ UNCHANGED <<auditSeq, chainTail, minted, unsent, auditBuf, pruned>>

\* A persistent error: some other fault, or the key of a row that an earlier
\* attempt left behind.  Spooling may fail for some of the events as well.
InsertPersistent(W) ==
  /\ auditBatch # <<>>
  /\ IF W = InQueue(auditBatch) /\ ~Insertable(W) THEN UNCHANGED auditSpent ELSE Faulty
  /\ SpoolBatch(W)
  /\ UNCHANGED <<auditSeq, chainTail, minted, unsent, auditBuf, auditRows, pruned>>

---------------------------------------------------------------------------
(* Retention and restart.                                                  *)

\* PruneAuditEvents: the rows older than a point in time.
PruneAuditEvents(k) ==
  LET old == {r \in auditRows : r.id < k}
  IN  /\ old # {}
      /\ auditRows' = auditRows \ old
      /\ pruned' = pruned \union old
      /\ UNCHANGED <<auditSeq, chainTail, minted, unsent, auditBuf, auditBatch, auditTries,
                     spool, missing, auditSpent>>

\* restoreAuditSeq: the largest stored number and the hash of the last row.
LastRows == {r \in auditRows : \A s \in auditRows : s.id <= r.id}

\* Mutant: a restart numbers on from the table and starts a new chain.
FreshTail ==
  /\ auditSeq' = IF auditRows = {} THEN 0 ELSE (CHOOSE r \in LastRows : TRUE).id
  /\ chainTail' = 0

RestoreAuditSeq ==
  IF auditRows = {} THEN auditSeq' = 0 /\ chainTail' = 0
  ELSE \E r \in LastRows : auditSeq' = r.id /\ chainTail' = r.hash

\* The process dies and a new one starts: what was in memory is gone.
RestartPanel ==
  /\ auditSpent.boots < MaxAuditBoots
  /\ RestoreAuditSeq
  /\ missing' = missing \union unsent \union InQueue(auditBuf) \union
                  (InQueue(auditBatch) \ auditRows)
  /\ unsent' = {} /\ auditBuf' = <<>> /\ auditBatch' = <<>> /\ auditTries' = 0
  /\ auditSpent' = [auditSpent EXCEPT !.boots = @ + 1]
  /\ UNCHANGED <<minted, auditRows, spool, pruned>>

---------------------------------------------------------------------------
AuditWriter ==
  \/ InsertSucceeds
  \/ \E landed \in BOOLEAN : InsertTransient(landed)
  \/ \E W \in SUBSET InQueue(auditBatch) : InsertPersistent(W)

AuditNext ==
  \/ \E path \in {"async", "sync"} : AppendEvent(path)
  \/ \E e \in unsent : EnqueueAudit(e) \/ StoreNow(e) \/ StoreNowFails(e)
  \/ DrainAudit
  \/ AuditWriter
  \/ \E k \in 2 .. MaxEvents : PruneAuditEvents(k)
  \/ RestartPanel

AuditSpec == AuditInit /\ [][AuditNext]_auditVars

---------------------------------------------------------------------------
(* Properties.                                                             *)

\* No event vanishes without a trace: each is still on its way, stored, spooled,
\* pruned, or its loss was reported (or it was in memory when the process died).
NoSilentLoss ==
  minted = unsent \union InQueue(auditBuf) \union InQueue(auditBatch) \union auditRows
             \union spool \union missing \union pruned

\* Two rows with neighbouring numbers are linked: whatever order the async and
\* the sync path, a retry, the spool and a restart store them in, the verifier
\* never finds a broken link where no event is missing.
NeighboursLink ==
  \A r, s \in auditRows : s.id = r.id + 1 => s.prev = r.hash
=============================================================================
