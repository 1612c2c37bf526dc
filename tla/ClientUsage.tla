---------------------------- MODULE ClientUsage -----------------------------
(***************************************************************************)
(* Traffic accounting of one client on one node.  Telemt counts bytes      *)
(* since it started; the agent turns samples of that counter into a total  *)
(* that is cumulative for its own process (agent/runtime, BuildUsage-      *)
(* Snapshot) and reports it; the panel turns reports into an absolute with *)
(* a watermark (boot id, last total) per client and agent (server,         *)
(* mergeClientUsageBatch) and writes it through to client_usage.           *)
(*                                                                         *)
(* The agent tracks a client by its id once a job has told it the id, and  *)
(* by its name before that.  Reports of a stream are applied in order; the *)
(* loop that applies them outlives the stream when it is displaced.        *)
(***************************************************************************)
EXTENDS Integers, Sequences, FiniteSets

CONSTANTS
  QueueCap,    \* regularSnapshotQueueCapacity
  MaxBytes,    \* bound: bytes the client transfers
  MaxStreams,  \* bound: streams opened
  MaxUpsets    \* bound: restarts, omissions, losses and store failures together

ASSUME UsageConstants ==
  /\ {QueueCap, MaxBytes} \subseteq Nat \ {0} /\ MaxStreams \in Nat /\ MaxUpsets \in Nat

VARIABLES
  real,     \* ghost: bytes transferred since the client is counted here
  counter,  \* Telemt: bytes since Telemt started
  rewound,  \* Telemt has restarted since the agent's last sample
  agent,    \* [boot, primed, known]: the process, its first sample taken, id known
  last,     \* key -> lastOctets
  totals,   \* key -> usageTotals
  stream,   \* the stream the agent reports on, 0 when there is none
  opened,   \* streams opened so far
  inbox,    \* stream -> reports received and not applied
  newest,   \* ghost: the latest stream a report was applied from
  mirror,   \* the panel's usage entry
  usageRow, \* table client_usage
  doubted,  \* ghost: an event after which the code may count twice
  upsets    \* faults left

agentState == <<agent, last, totals>>
panelState == <<mirror, usageRow>>
usageVars == <<real, counter, rewound, agentState, stream, opened, inbox, newest, panelState,
               doubted, upsets>>

Keys == {"name", "id"}
Flags == {"no", "yes"}

\* A map entry that is not there.
Unset == [set |-> "no", val |-> 0]
Set(v) == [set |-> "yes", val |-> v]
Entries == [set : Flags, val : Nat]

\* Boot 0 is the empty agent_boot_id of an entry that adoption has seeded.  base is
\* a ghost: the absolute when the watermark came to its present boot, less what
\* the first report of an adopted client carried.
UsageEntry(total, boot, lastTotal, base) ==
  [set |-> "yes", total |-> total, boot |-> boot, last |-> lastTotal, base |-> base]
NoEntry == [set |-> "no", total |-> 0, boot |-> 0, last |-> 0, base |-> 0]
UsageEntries == [set : Flags, total : Nat, boot : Nat, last : Nat, base : Int]
Reports == [boot : Nat, total : Nat]

\* The types; above all, the snapshot queue of a stream stays within its capacity.
UsageTypeOK ==
  /\ real \in 0 .. MaxBytes /\ counter \in 0 .. real
  /\ rewound \in Flags
  /\ agent \in [boot : Nat \ {0}, primed : Flags, known : Flags]
  /\ last \in [Keys -> Entries] /\ totals \in [Keys -> Entries]
  /\ stream \in 0 .. opened /\ opened \in 0 .. MaxStreams
  /\ inbox \in [1 .. MaxStreams -> Seq(Reports)]
  /\ \A s \in 1 .. MaxStreams : Len(inbox[s]) <= QueueCap
  /\ newest \in 0 .. opened
  /\ mirror \in UsageEntries /\ usageRow \in UsageEntries
  /\ doubted \in Flags
  /\ upsets \in 0 .. MaxUpsets

\* Created through the panel: the agent knows the id and nothing is counted yet.
\* Adopted: Telemt has the user already, seedClientUsage has taken its counter.
UsageInit ==
  /\ \/ /\ real = 0 /\ mirror = NoEntry
        /\ agent = [boot |-> 1, primed |-> "yes", known |-> "yes"]
     \/ /\ real = 1 /\ mirror = UsageEntry(1, 0, 0, 0)
        /\ agent = [boot |-> 1, primed |-> "no", known |-> "no"]
  /\ counter = real /\ usageRow = mirror
  /\ rewound = "no"
  /\ last = [k \in Keys |-> Unset] /\ totals = [k \in Keys |-> Unset]
  /\ stream = 0 /\ opened = 0 /\ newest = 0
  /\ inbox = [s \in 1 .. MaxStreams |-> <<>>]
  /\ doubted = "no"
  /\ upsets = MaxUpsets

Upset == upsets > 0 /\ upsets' = upsets - 1

---------------------------------------------------------------------------
(* The node.                                                               *)

Traffic ==
  /\ real < MaxBytes
  /\ real' = real + 1 /\ counter' = counter + 1
  /\ UNCHANGED <<rewound, agentState, stream, opened, inbox, newest, panelState, doubted, upsets>>

TelemtRestarts ==
  /\ Upset
  /\ counter' = 0 /\ rewound' = "yes"
  /\ UNCHANGED <<real, agentState, stream, opened, inbox, newest, panelState, doubted>>

TrackingKey == IF agent.known = "yes" THEN "id" ELSE "name"

\* Mutant: a client that is back in the sample is counted from zero.
NeverRebaselined(restarted, k) ==
  CASE agent.primed = "no" -> 0
    [] restarted -> counter
    [] counter >= last[k].val -> counter - last[k].val
    [] OTHER -> counter

\* processUsageRowLocked: the bytes a sample adds to the total of its key.
SampleDelta(restarted, k) ==
  CASE agent.primed = "no" -> 0
    [] agent.primed = "yes" /\ restarted -> counter
    [] agent.primed = "yes" /\ ~restarted /\ totals[k].set = "yes" /\ last[k].set = "no" -> 0
    [] agent.primed = "yes" /\ ~restarted /\ ~(totals[k].set = "yes" /\ last[k].set = "no")
         -> IF counter >= last[k].val THEN counter - last[k].val ELSE counter

\* The uptime tells a restart of Telemt, unless it has already been up for longer
\* than it was at the last sample.
UptimeSays(restarted) == restarted => rewound = "yes"

\* The first time an id is tracked that was tracked by name before.
KeyChanges(k) == k = "id" /\ totals["name"].set = "yes" /\ totals["id"].set = "no"

\* enqueue of a queue with policyDropOldest.
DropOldest(q, r) == IF Len(q) >= QueueCap THEN Append(Tail(q), r) ELSE Append(q, r)

\* BuildUsageSnapshot with the client in the sample.  A row is reported when
\* bytes were added or a gauge asks for it; active is what the gauges say.
SampleClient(restarted, active) ==
  LET k == TrackingKey
      delta == SampleDelta(restarted, k)
      total == totals[k].val + delta
  IN  /\ stream > 0
      /\ UptimeSays(restarted)
      /\ totals' = [totals EXCEPT ![k] = Set(total)]
      /\ last' = [x \in Keys |-> IF x = k THEN Set(counter) ELSE Unset]
      /\ agent' = [boot |-> agent.boot, primed |-> "yes", known |-> agent.known]
      /\ rewound' = "no"
      /\ inbox' = IF delta = 0 /\ ~active THEN inbox
                  ELSE [inbox EXCEPT ![stream] =
                          DropOldest(@, [boot |-> agent.boot, total |-> total])]
      /\ doubted' = IF KeyChanges(k) THEN "yes" ELSE doubted
      /\ UNCHANGED <<real, counter, stream, opened, newest, panelState, upsets>>

\* Telemt leaves the client out of a sample: cleanupStaleUsageStateLocked.
SampleOmits ==
  /\ stream > 0
  /\ Upset
  /\ last' = [k \in Keys |-> Unset]
  /\ agent' = [boot |-> agent.boot, primed |-> "yes", known |-> agent.known]
  /\ rewound' = "no"
  /\ doubted' = IF agent.primed = "no" THEN "yes" ELSE doubted
  /\ UNCHANGED <<real, counter, totals, stream, opened, inbox, newest, panelState>>

\* A client job reaches the agent: setClientName.
ClientJobRuns ==
  /\ stream > 0 /\ agent.known = "no"
  /\ agent' = [boot |-> agent.boot, primed |-> agent.primed, known |-> "yes"]
  /\ UNCHANGED <<real, counter, rewound, last, totals, stream, opened, inbox, newest, panelState,
                 doubted, upsets>>

\* A new process: nothing of the accounting is kept.
AgentReboots ==
  /\ Upset
  /\ agent' = [boot |-> agent.boot + 1, primed |-> "no", known |-> "no"]
  /\ last' = [k \in Keys |-> Unset] /\ totals' = [k \in Keys |-> Unset]
  /\ rewound' = "no"
  /\ stream' = 0
  /\ UNCHANGED <<real, counter, opened, inbox, newest, panelState, doubted>>

---------------------------------------------------------------------------
(* The stream.                                                             *)

\* A new stream displaces the old one, whose reports may still be queued.
StreamOpens ==
  /\ opened < MaxStreams
  /\ opened' = opened + 1 /\ stream' = opened + 1
  /\ UNCHANGED <<real, counter, rewound, agentState, inbox, newest, panelState, doubted, upsets>>

\* A report is dropped by backpressure or with the stream that carried it.
ReportLost(s) ==
  /\ inbox[s] # <<>>
  /\ Upset
  /\ inbox' = [inbox EXCEPT ![s] = Tail(@)]
  /\ UNCHANGED <<real, counter, rewound, agentState, stream, opened, newest, panelState, doubted>>

---------------------------------------------------------------------------
(* The panel.                                                              *)

\* Mutant: a new process of the agent is not told from the old one.
ForgetsBoot(r) == IF r.total >= mirror.last THEN r.total - mirror.last ELSE 0

\* mergeClientUsageBatch: the bytes a report adds to the absolute.
ReportDelta(r) ==
  CASE mirror.set = "no" -> r.total
    [] mirror.set = "yes" /\ mirror.boot = 0 -> 0
    [] mirror.set = "yes" /\ mirror.boot \notin {0, r.boot} -> r.total
    [] mirror.set = "yes" /\ mirror.boot # 0 /\ mirror.boot = r.boot
         -> IF r.total >= mirror.last THEN r.total - mirror.last ELSE 0

BaseAfter(r) ==
  CASE mirror.set = "yes" /\ mirror.boot = 0 -> mirror.total - r.total
    [] mirror.set = "yes" /\ mirror.boot # 0 /\ mirror.boot = r.boot -> mirror.base
    [] OTHER -> mirror.total

Merged(r) == UsageEntry(mirror.total + ReportDelta(r), r.boot, r.total, BaseAfter(r))

\* applyClientUsageSnapshot, under s.mu: the mirror first, then the write-through,
\* whose failure is only alerted.
ApplyUsage(s, stored) ==
  LET r == Head(inbox[s])
  IN  /\ inbox[s] # <<>>
      /\ inbox' = [inbox EXCEPT ![s] = Tail(@)]
      /\ mirror' = Merged(r)
      /\ IF stored THEN usageRow' = Merged(r) /\ UNCHANGED upsets ELSE Upset /\ UNCHANGED usageRow
      /\ newest' = IF s > newest THEN s ELSE newest
      /\ doubted' = IF s < newest THEN "yes" ELSE doubted
      /\ UNCHANGED <<real, counter, rewound, agentState, stream, opened>>

\* The panel restarts: Restore reads client_usage.
PanelReboots ==
  /\ Upset
  /\ mirror' = usageRow
  /\ stream' = 0
  /\ inbox' = [s \in 1 .. MaxStreams |-> <<>>]
  /\ UNCHANGED <<real, counter, rewound, agentState, opened, newest, usageRow, doubted>>

---------------------------------------------------------------------------
UsageNext ==
  \/ Traffic
  \/ TelemtRestarts
  \/ \E restarted, active \in BOOLEAN : SampleClient(restarted, active)
  \/ SampleOmits
  \/ ClientJobRuns
  \/ AgentReboots
  \/ StreamOpens
  \/ \E s \in 1 .. MaxStreams : ReportLost(s) \/ \E stored \in BOOLEAN : ApplyUsage(s, stored)
  \/ PanelReboots

UsageSpec == UsageInit /\ [][UsageNext]_usageVars

---------------------------------------------------------------------------
(* Properties.                                                             *)

\* No byte is charged twice, through lost reports, failed writes and restarts of
\* Telemt, the agent and the panel, as long as none of three things has happened:
\* the tracking key changed from name to id, the first sample of a process left
\* the client out, or a displaced stream's report came after a newer one.
ChargedOnce == doubted = "no" => mirror.total <= real /\ usageRow.total <= real

\* A lost report or a failed write costs nothing: once the panel has the agent's
\* current total, everything this process of the agent has counted is credited on
\* top of what its predecessors had.
LostReportsCatchUp ==
  doubted = "no" /\ mirror.set = "yes" /\ mirror.boot = agent.boot
    /\ totals[TrackingKey].set = "yes" /\ mirror.last = totals[TrackingKey].val
  => mirror.total = mirror.base + totals[TrackingKey].val

\* "dropped or replayed snapshots converge without losing or double-counting bytes"
\* (agent.go, BuildUsageSnapshot).
NeverDoubleCounted == mirror.total <= real
=============================================================================
