------------------------- MODULE ClientUsageProofs --------------------------
(***************************************************************************)
(* The usage counters of a client, for every queue length, number of bytes,*)
(* streams and faults: their types, that no byte is charged twice and that *)
(* a lost report is made up for by a later one, but for the events after   *)
(* which the code itself may count twice (doubted).                        *)
(*                                                                         *)
(* The agent reports totals since its start, tagged with its boot.  The    *)
(* proof keeps a ghost: for each process of the agent the number of bytes  *)
(* that were transferred before it began to count.  Each process has the   *)
(* room up to the mark of its successor; every report and both copies of   *)
(* the panel fit into the room of their process, so what the panel has     *)
(* added up never exceeds what was transferred.                            *)
(***************************************************************************)
EXTENDS ClientUsage, TLAPS

\* What the agent's process has counted for the client, under whichever key.
Counted == IF totals["id"].set = "yes" THEN totals["id"].val ELSE totals["name"].val

\* The order in which the agent produces reports.
Before(p, q) == p.boot < q.boot \/ (p.boot = q.boot /\ p.total <= q.total)
\* The report the agent would make now, and the report an entry of the panel goes back to.
Now == [boot |-> agent.boot, total |-> Counted]
Seen(e) == [boot |-> e.boot, total |-> e.last]

\* The maps of the agent: no entry of a map that is not set has a value, a sampled
\* key has a total, and before the first sample there is nothing.
MapsOK ==
  \A k \in Keys :
    /\ totals[k].set = "no" => totals[k].val = 0
    /\ last[k].set = "no" => last[k].val = 0
    /\ last[k].set = "yes" => totals[k].set = "yes"
    /\ agent.primed = "no" => totals[k].set = "no"

\* The client's bytes are under one key: its name until the agent knows its id.
OneKey == totals["id"].set = "yes" => agent.known = "yes" /\ totals["name"].set = "no"

\* The open stream is the latest one; a stream that was not opened carries nothing.
StreamsOK ==
  /\ stream # 0 => stream = opened
  /\ \A s \in 1 .. MaxStreams : s > opened => inbox[s] = <<>>

\* Reports wait in the order in which they were made, behind what the panel has.
ReportsOrdered ==
  \A s, t \in 1 .. MaxStreams : \A i \in 1 .. Len(inbox[s]), j \in 1 .. Len(inbox[t]) :
    s < t \/ (s = t /\ i < j) => Before(inbox[s][i], inbox[t][j])
\* No report and no entry of the panel is ahead of the agent, and what waits on the newest
\* stream is not older than what the panel has.
ReportsNotAhead ==
  \A s \in 1 .. MaxStreams : \A i \in 1 .. Len(inbox[s]) : Before(inbox[s][i], Now)
PanelBehind ==
  \A s \in 1 .. MaxStreams : \A i \in 1 .. Len(inbox[s]) :
    s >= newest => Before(Seen(mirror), inbox[s][i])
EntriesNotAhead == Before(Seen(mirror), Now) /\ Before(Seen(usageRow), Now)
Ordered == ReportsOrdered /\ ReportsNotAhead /\ PanelBehind /\ EntriesNotAhead

\* from[b]: the bytes transferred before process b began to count.  A process may
\* count up to where its successor begins, the last one what it has counted.
Climbs(from, boot) == \A b, c \in 1 .. boot : b <= c => from[b] <= from[c]
Room(from, boot, count, b) == IF b < boot THEN from[b + 1] - from[b] ELSE count

\* A report, or an entry of the panel, stays within the room of the process it is of.
ReportFits(from, boot, count, r) == r.boot \in 1 .. boot /\ r.total <= Room(from, boot, count, r.boot)

EntryFits(from, boot, count, e) ==
  /\ e.set = "no" => e = NoEntry
  /\ e.boot = 0 => e.total <= from[1]
  /\ e.boot # 0 =>
       /\ e.boot \in 1 .. boot
       /\ e.total = e.base + e.last /\ e.base <= from[e.boot]
       /\ e.last <= Room(from, boot, count, e.boot)

\* No sample can add more than was transferred since the last one.
SamplesCovered(from) ==
  LET f == from[agent.boot]
  IN  /\ f + Counted <= real
      /\ agent.primed = "yes" =>
           /\ rewound = "yes" => f + Counted + counter <= real
           /\ \A k \in Keys : rewound = "no" /\ last[k].set = "yes" =>
                last[k].val <= counter /\ f + Counted + (counter - last[k].val) <= real
           /\ (\A k \in Keys : totals[k].set = "no") => f + counter <= real

\* The reports on their way, and the two copies of the panel, fit.
ReportsCovered(from) ==
  \A s \in 1 .. MaxStreams : \A i \in 1 .. Len(inbox[s]) :
    ReportFits(from, agent.boot, Counted, inbox[s][i])

EntriesCovered(from) ==
  /\ EntryFits(from, agent.boot, Counted, mirror)
  /\ EntryFits(from, agent.boot, Counted, usageRow)

\* Some choice of the marks covers all that was counted: no byte is charged twice.
Marks == [1 .. agent.boot -> 0 .. real]
Covered(from) ==
  Climbs(from, agent.boot) /\ SamplesCovered(from) /\ ReportsCovered(from) /\ EntriesCovered(from)

\* The inductive invariant.  After an event for which the code may count twice
\* (doubted), only the types, the maps and the streams are kept.
UsageInv ==
  /\ UsageTypeOK /\ MapsOK /\ StreamsOK
  /\ doubted = "no" => OneKey /\ Ordered /\ \E from \in Marks : Covered(from)

---------------------------------------------------------------------------
\* The constants are numbers.
LEMMA UsageNumbers ==
  QueueCap \in Nat \ {0} /\ MaxBytes \in Nat \ {0} /\ MaxStreams \in Nat /\ MaxUpsets \in Nat
BY UsageConstants

\* What the type invariant says of each value used below.
LEMMA UsageFacts ==
  ASSUME UsageTypeOK
  PROVE  /\ real \in Nat /\ counter \in Nat /\ counter <= real
         /\ agent.boot \in Nat \ {0} /\ agent.primed \in Flags /\ agent.known \in Flags
         /\ agent = [boot |-> agent.boot, primed |-> agent.primed, known |-> agent.known]
         /\ \A k \in Keys : totals[k] \in Entries /\ last[k] \in Entries
         /\ opened \in Nat /\ stream \in Nat /\ newest \in Nat
         /\ Counted \in Nat
<1> USE UsageNumbers
<1>1. real \in Nat /\ counter \in Nat /\ counter <= real
  BY DEF UsageTypeOK
<1>2. /\ agent.boot \in Nat \ {0} /\ agent.primed \in Flags /\ agent.known \in Flags
      /\ agent = [boot |-> agent.boot, primed |-> agent.primed, known |-> agent.known]
  BY DEF UsageTypeOK
<1>3. \A k \in Keys : totals[k] \in Entries /\ last[k] \in Entries
  BY DEF UsageTypeOK
<1>4. opened \in Nat /\ stream \in Nat /\ newest \in Nat
  BY DEF UsageTypeOK
<1>5. "id" \in Keys /\ "name" \in Keys
  BY DEF Keys
<1>6. Counted \in Nat
  BY <1>3, <1>5 DEF Counted, Entries
<1> QED
  BY <1>1, <1>2, <1>3, <1>4, <1>6

\* The fields of an entry of the panel.
LEMMA EntryFacts ==
  ASSUME NEW e \in UsageEntries
  PROVE  /\ e.set \in Flags /\ e.total \in Nat /\ e.boot \in Nat /\ e.last \in Nat /\ e.base \in Int
         /\ e = [set |-> e.set, total |-> e.total, boot |-> e.boot, last |-> e.last, base |-> e.base]
BY DEF UsageEntries

\* What a stream carries.
LEMMA InboxFacts ==
  ASSUME UsageTypeOK, NEW s \in 1 .. MaxStreams
  PROVE  /\ inbox[s] \in Seq(Reports) /\ Len(inbox[s]) \in Nat /\ Len(inbox[s]) <= QueueCap
         /\ \A i \in 1 .. Len(inbox[s]) : inbox[s][i] \in Reports
<1>1. inbox[s] \in Seq(Reports) /\ Len(inbox[s]) <= QueueCap
  BY DEF UsageTypeOK
<1> QED
  BY <1>1

\* The fields of a report.
LEMMA ReportFacts == \A r \in Reports : r.boot \in Nat /\ r.total \in Nat
BY DEF Reports

\* Taking the oldest report off a queue.
LEMMA TailFacts ==
  ASSUME NEW q \in Seq(Reports), q # <<>>
  PROVE  /\ Head(q) \in Reports /\ Head(q) = q[1] /\ 1 \in 1 .. Len(q)
         /\ Tail(q) \in Seq(Reports) /\ Len(Tail(q)) = Len(q) - 1
         /\ \A i \in 1 .. Len(Tail(q)) : i + 1 \in 1 .. Len(q) /\ Tail(q)[i] = q[i + 1]
<1>1. Len(q) \in Nat /\ Len(q) # 0 /\ Tail(q) \in Seq(Reports) /\ Len(Tail(q)) = Len(q) - 1
  OBVIOUS
<1>2. \A i \in 1 .. Len(Tail(q)) : Tail(q)[i] = q[i + 1]
  OBVIOUS
<1> QED
  BY <1>1, <1>2

\* DropOldest keeps the order and puts the new report last.
LEMMA DropOldestFacts ==
  ASSUME NEW q \in Seq(Reports), NEW r \in Reports, Len(q) <= QueueCap
  PROVE  /\ DropOldest(q, r) \in Seq(Reports) /\ Len(DropOldest(q, r)) <= QueueCap
         /\ Len(DropOldest(q, r)) \in Nat \ {0}
         /\ \E d \in {0, 1} : \A i \in 1 .. Len(DropOldest(q, r)) :
              IF i = Len(DropOldest(q, r)) THEN DropOldest(q, r)[i] = r
              ELSE i + d \in 1 .. Len(q) /\ DropOldest(q, r)[i] = q[i + d]
<1> USE UsageNumbers
<1>0. Len(q) \in Nat
  OBVIOUS
<1>1. CASE Len(q) >= QueueCap
  <2>1. q # <<>>
    BY <1>0, <1>1
  <2>2. DropOldest(q, r) = Append(Tail(q), r)
    BY <1>1 DEF DropOldest
  <2>3. Tail(q) \in Seq(Reports) /\ Len(Tail(q)) = Len(q) - 1
        /\ \A i \in 1 .. Len(Tail(q)) : i + 1 \in 1 .. Len(q) /\ Tail(q)[i] = q[i + 1]
    BY <2>1, TailFacts
  <2> DEFINE u == Append(Tail(q), r)
  <2>4. u \in Seq(Reports) /\ Len(u) = Len(q) /\ u[Len(u)] = r
        /\ \A i \in 1 .. Len(Tail(q)) : u[i] = Tail(q)[i]
    BY <1>0, <2>3
  <2>5. ASSUME NEW i \in 1 .. Len(u), i # Len(u)
        PROVE  i + 1 \in 1 .. Len(q) /\ u[i] = q[i + 1]
    <3>0. Len(u) = Len(q) /\ Len(Tail(q)) = Len(q) - 1
      BY <2>3, <2>4
    <3>1. i \in 1 .. Len(Tail(q))
      <4> HIDE DEF u
      <4> QED
        BY <1>0, <2>5, <3>0
    <3> QED
      BY <2>3, <2>4, <3>1
  <2> HIDE DEF u
  <2>6. \E d \in {0, 1} : \A i \in 1 .. Len(u) :
          IF i = Len(u) THEN u[i] = r ELSE i + d \in 1 .. Len(q) /\ u[i] = q[i + d]
    BY <2>4, <2>5
  <2>7. Len(u) <= QueueCap /\ Len(u) \in Nat \ {0} /\ DropOldest(q, r) = u
    BY <1>0, <1>1, <2>2, <2>4 DEF u
  <2> QED
    BY <2>4, <2>6, <2>7
<1>2. CASE ~(Len(q) >= QueueCap)
  <2> DEFINE u == Append(q, r)
  <2>1. DropOldest(q, r) = u
    BY <1>2 DEF DropOldest
  <2>2. u \in Seq(Reports) /\ Len(u) = Len(q) + 1 /\ u[Len(u)] = r
        /\ \A i \in 1 .. Len(q) : u[i] = q[i]
    BY <1>0
  <2>3. \A i \in 1 .. Len(u) : IF i = Len(u) THEN u[i] = r
                               ELSE i + 0 \in 1 .. Len(q) /\ u[i] = q[i + 0]
    BY <1>0, <2>2
  <2> QED
    BY <1>0, <1>2, <2>1, <2>2, <2>3
<1> QED
  BY <1>1, <1>2

\* The order of reports is transitive.
LEMMA BeforeTransitive ==
  ASSUME NEW p, NEW q, NEW r, Before(p, q), Before(q, r),
         p.boot \in Nat, q.boot \in Nat, r.boot \in Nat,
         p.total \in Nat, q.total \in Nat, r.total \in Nat
  PROVE  Before(p, r)
BY DEF Before

\* The room of a process only grows, and so does where it begins: what fitted fits.
LEMMA FitsGrow ==
  ASSUME NEW boot \in Nat \ {0}, NEW boot2 \in Nat \ {0}, boot <= boot2,
         NEW count \in Nat, NEW count2 \in Nat,
         NEW from \in [1 .. boot -> Nat], NEW from2 \in [1 .. boot2 -> Nat],
         \A b \in 1 .. boot : from[b] <= from2[b] /\ Room(from, boot, count, b) <= Room(from2, boot2, count2, b)
  PROVE  /\ \A e \in UsageEntries : EntryFits(from, boot, count, e) => EntryFits(from2, boot2, count2, e)
         /\ \A r \in Reports : ReportFits(from, boot, count, r) => ReportFits(from2, boot2, count2, r)
<1>0. \A b \in 1 .. boot : /\ from[b] \in Nat /\ from2[b] \in Nat
                           /\ Room(from, boot, count, b) \in Int /\ Room(from2, boot2, count2, b) \in Int
  BY SMTT(30) DEF Room
<1>1. ASSUME NEW e \in UsageEntries, EntryFits(from, boot, count, e)
      PROVE  EntryFits(from2, boot2, count2, e)
  <2>1. /\ e.total \in Nat /\ e.boot \in Nat /\ e.last \in Nat /\ e.base \in Int
    BY EntryFacts
  <2>2. CASE e.boot = 0
    <3>1. 1 \in 1 .. boot
      OBVIOUS
    <3> QED
      BY <1>0, <1>1, <2>1, <2>2, <3>1, SMTT(30) DEF EntryFits
  <2>3. CASE e.boot # 0
    <3>1. e.boot \in 1 .. boot /\ e.boot \in 1 .. boot2
      BY <1>1, <2>3 DEF EntryFits
    <3>2. e.base <= from[e.boot] /\ e.last <= Room(from, boot, count, e.boot)
      BY <1>1, <2>3 DEF EntryFits
    <3>a. /\ from[e.boot] <= from2[e.boot]
          /\ Room(from, boot, count, e.boot) <= Room(from2, boot2, count2, e.boot)
      BY <3>1
    <3>b. /\ from[e.boot] \in Nat /\ from2[e.boot] \in Nat
          /\ Room(from, boot, count, e.boot) \in Int /\ Room(from2, boot2, count2, e.boot) \in Int
      BY <1>0, <3>1
    <3>c. e.base <= from2[e.boot]
      <4> DEFINE x == from[e.boot]  y == from2[e.boot]
      <4>1. x \in Nat /\ y \in Nat /\ x <= y /\ e.base <= x /\ e.base \in Int
        BY <2>1, <3>2, <3>a, <3>b
      <4> HIDE DEF x, y
      <4>2. e.base <= y
        BY <4>1
      <4> QED
        BY <4>2 DEF y
    <3>d. e.last <= Room(from2, boot2, count2, e.boot)
      BY <2>1, <3>2, <3>a, <3>b, SMTT(30)
    <3>3. e.base <= from2[e.boot] /\ e.last <= Room(from2, boot2, count2, e.boot)
      BY <3>c, <3>d
    <3> QED
      BY <1>1, <2>3, <3>1, <3>3 DEF EntryFits
  <2> QED
    BY <2>2, <2>3
<1>2. ASSUME NEW r \in Reports, ReportFits(from, boot, count, r)
      PROVE  ReportFits(from2, boot2, count2, r)
  <2> DEFINE b == r.boot  m == Room(from, boot, count, b)  m2 == Room(from2, boot2, count2, b)
  <2>1. b \in 1 .. boot /\ r.total <= m /\ r.total \in Nat /\ b \in 1 .. boot2
    BY <1>2, ReportFacts DEF ReportFits
  <2>2. m <= m2 /\ m \in Int /\ m2 \in Int
    BY <1>0, <2>1
  <2> HIDE DEF m, m2
  <2>3. r.total <= m2
    BY <2>1, <2>2, SMTT(30)
  <2> QED
    BY <2>1, <2>3 DEF m2, ReportFits
<1> QED
  BY <1>1, <1>2

\* What an entry credits ends before the next process begins, and within all bytes.
LEMMA EntryBound ==
  ASSUME NEW boot \in Nat \ {0}, NEW count \in Nat, NEW all \in Nat,
         NEW from \in [1 .. boot -> Nat], Climbs(from, boot), from[boot] + count <= all,
         NEW e \in UsageEntries, EntryFits(from, boot, count, e)
  PROVE  /\ e.total <= all
         /\ \A b \in 1 .. boot : b > e.boot => e.total <= from[b]
<1>0. /\ e.total \in Nat /\ e.boot \in Nat /\ e.last \in Nat /\ e.base \in Int
  BY EntryFacts
<1>1. \A b \in 1 .. boot : from[b] \in Nat
  OBVIOUS
<1>2. \A b \in 1 .. boot : from[b] <= from[boot]
  BY DEF Climbs
<1>3. CASE e.boot = 0
  <2>1. 1 \in 1 .. boot /\ e.total <= from[1] /\ \A b \in 1 .. boot : from[1] <= from[b]
    BY <1>3 DEF EntryFits, Climbs
  <2> QED
    BY <1>0, <1>1, <1>2, <2>1
<1>4. CASE e.boot # 0
  <2>1. /\ e.boot \in 1 .. boot /\ e.total = e.base + e.last /\ e.base <= from[e.boot]
        /\ e.last <= Room(from, boot, count, e.boot)
    BY <1>4 DEF EntryFits
  <2>2. CASE e.boot = boot
    BY <1>0, <1>1, <2>1, <2>2 DEF Room
  <2>3. CASE e.boot < boot
    <3>r. e.boot + 1 \in 1 .. boot
      BY <1>0, <2>3
    <3>s. Room(from, boot, count, e.boot) = from[e.boot + 1] - from[e.boot]
      BY <2>3 DEF Room
    <3>a. e.boot + 1 \in 1 .. boot /\ e.last <= from[e.boot + 1] - from[e.boot]
      BY <2>1, <3>r, <3>s
    <3>b. from[e.boot] \in Nat /\ from[e.boot + 1] \in Nat
      BY <1>1, <2>1, <3>a
    <3>1. e.boot + 1 \in 1 .. boot /\ e.total <= from[e.boot + 1]
      BY <1>0, <2>1, <3>a, <3>b, SMTT(30)
    <3>2. \A b \in 1 .. boot : b > e.boot => from[e.boot + 1] <= from[b]
      BY <1>0, <3>1 DEF Climbs
    <3>3. \A b \in 1 .. boot : b > e.boot => e.total <= from[b]
      BY <1>0, <1>1, <3>1, <3>2
    <3>4. e.total <= from[boot]
      BY <2>3, <3>3
    <3> QED
      BY <1>0, <1>1, <3>3, <3>4
  <2> QED
    BY <1>0, <2>1, <2>2, <2>3
<1> QED
  BY <1>3, <1>4


---------------------------------------------------------------------------
\* A merged report is an entry again, whatever the watermark was.
LEMMA MergedFacts ==
  ASSUME NEW r \in Reports, mirror \in UsageEntries
  PROVE  /\ ReportDelta(r) \in Nat /\ BaseAfter(r) \in Int /\ Merged(r) \in UsageEntries
         /\ Merged(r).set = "yes" /\ Merged(r).boot = r.boot /\ Merged(r).last = r.total
         /\ Merged(r).total = mirror.total + ReportDelta(r) /\ Merged(r).base = BaseAfter(r)
<1>1. /\ r.boot \in Nat /\ r.total \in Nat
      /\ mirror.set \in Flags /\ mirror.total \in Nat /\ mirror.boot \in Nat /\ mirror.last \in Nat
      /\ mirror.base \in Int
  BY ReportFacts, EntryFacts
<1>2. ReportDelta(r) \in Nat
  BY <1>1 DEF ReportDelta, Flags
<1>3. BaseAfter(r) \in Int
  BY <1>1 DEF BaseAfter
<1> DEFINE d == ReportDelta(r)  b == BaseAfter(r)
<1>4. Merged(r) = [set |-> "yes", total |-> mirror.total + d, boot |-> r.boot, last |-> r.total,
                   base |-> b]
  BY DEF Merged, UsageEntry
<1>5. d \in Nat /\ b \in Int
  BY <1>2, <1>3
<1> HIDE DEF d, b
<1>6. /\ Merged(r) \in UsageEntries
      /\ Merged(r).set = "yes" /\ Merged(r).boot = r.boot /\ Merged(r).last = r.total
      /\ Merged(r).total = mirror.total + d /\ Merged(r).base = b
  BY <1>1, <1>4, <1>5 DEF UsageEntries, Flags
<1> QED
  BY <1>2, <1>3, <1>6 DEF d, b

\* The key the client is tracked by, and the bytes a sample adds to its total.
LEMMA SampleNumbers ==
  ASSUME UsageTypeOK, NEW restarted \in BOOLEAN
  PROVE  /\ TrackingKey \in Keys /\ SampleDelta(restarted, TrackingKey) \in Nat
         /\ totals[TrackingKey].val \in Nat /\ totals[TrackingKey].set \in Flags
         /\ last[TrackingKey].val \in Nat /\ last[TrackingKey].set \in Flags
<1>1. TrackingKey \in Keys
  BY DEF TrackingKey, Keys
<1>2. /\ totals[TrackingKey].val \in Nat /\ totals[TrackingKey].set \in Flags
      /\ last[TrackingKey].val \in Nat /\ last[TrackingKey].set \in Flags
  BY <1>1, UsageFacts DEF Entries
<1>3. counter \in Nat /\ agent.primed \in Flags
  BY UsageFacts
<1>4. SampleDelta(restarted, TrackingKey) \in Nat
  <2> DEFINE k == TrackingKey
  <2>1. totals[k].set \in Flags /\ last[k].set \in Flags /\ last[k].val \in Nat
    BY <1>2
  <2> HIDE DEF k
  <2>2. SampleDelta(restarted, k) \in Nat
    BY <1>3, <2>1 DEF SampleDelta, Flags
  <2> QED
    BY <2>2 DEF k
<1> QED
  BY <1>1, <1>2, <1>4

\* Queues without their first report, or with one more.
LEMMA InboxTail ==
  ASSUME UsageTypeOK, NEW s \in 1 .. MaxStreams, inbox[s] # <<>>,
         inbox' = [inbox EXCEPT ![s] = Tail(@)]
  PROVE  /\ inbox' \in [1 .. MaxStreams -> Seq(Reports)]
         /\ \A t \in 1 .. MaxStreams : Len(inbox'[t]) <= QueueCap
         /\ inbox'[s] = Tail(inbox[s]) /\ \A t \in 1 .. MaxStreams : t # s => inbox'[t] = inbox[t]
<1>1. inbox \in [1 .. MaxStreams -> Seq(Reports)] /\ inbox[s] \in Seq(Reports)
      /\ \A t \in 1 .. MaxStreams : Len(inbox[t]) <= QueueCap
  BY DEF UsageTypeOK
<1>2. Tail(inbox[s]) \in Seq(Reports) /\ Len(Tail(inbox[s])) = Len(inbox[s]) - 1
  BY <1>1, TailFacts
<1>3. Len(inbox[s]) \in Nat /\ QueueCap \in Nat
  BY <1>1, UsageNumbers
<1>4. Len(Tail(inbox[s])) <= QueueCap
  BY <1>1, <1>2, <1>3
<1> QED
  BY <1>1, <1>2, <1>4

\* A report enters one stream.
LEMMA InboxAdds ==
  ASSUME UsageTypeOK, NEW s \in 1 .. MaxStreams, NEW r \in Reports,
         inbox' = [inbox EXCEPT ![s] = DropOldest(@, r)]
  PROVE  /\ inbox' \in [1 .. MaxStreams -> Seq(Reports)]
         /\ \A t \in 1 .. MaxStreams : Len(inbox'[t]) <= QueueCap
         /\ inbox'[s] = DropOldest(inbox[s], r)
         /\ \A t \in 1 .. MaxStreams : t # s => inbox'[t] = inbox[t]
<1>1. inbox \in [1 .. MaxStreams -> Seq(Reports)] /\ inbox[s] \in Seq(Reports)
      /\ \A t \in 1 .. MaxStreams : Len(inbox[t]) <= QueueCap
  BY DEF UsageTypeOK
<1>2. DropOldest(inbox[s], r) \in Seq(Reports) /\ Len(DropOldest(inbox[s], r)) <= QueueCap
  BY <1>1, DropOldestFacts
<1> QED
  BY <1>1, <1>2

\* A fresh process has set nothing.
LEMMA UnsetMap == [k \in Keys |-> Unset] \in [Keys -> Entries]
BY DEF Entries, Unset, Flags

\* The types hold initially.
LEMMA UsageTypeInit == UsageInit => UsageTypeOK
<1> SUFFICES ASSUME UsageInit PROVE UsageTypeOK
  OBVIOUS
<1> USE UsageNumbers
<1>1. real \in {0, 1} /\ counter = real /\ rewound \in Flags
  BY DEF UsageInit, Flags
<1>2. agent \in [boot : Nat \ {0}, primed : Flags, known : Flags]
  BY DEF UsageInit, Flags
<1>3. last \in [Keys -> Entries] /\ totals \in [Keys -> Entries]
  BY UnsetMap DEF UsageInit
<1>4. stream \in 0 .. opened /\ opened \in 0 .. MaxStreams /\ newest \in 0 .. opened
  BY DEF UsageInit
<1>5. /\ inbox \in [1 .. MaxStreams -> Seq(Reports)]
      /\ \A s \in 1 .. MaxStreams : Len(inbox[s]) <= QueueCap
  BY DEF UsageInit
<1>6. mirror \in UsageEntries /\ usageRow \in UsageEntries
  BY DEF UsageInit, UsageEntries, UsageEntry, NoEntry, Flags
<1>7. doubted \in Flags /\ upsets \in 0 .. MaxUpsets
  BY DEF UsageInit, Flags
<1>8. real \in 0 .. MaxBytes /\ counter \in 0 .. real
  BY <1>1
<1> QED
  BY <1>1, <1>2, <1>3, <1>4, <1>5, <1>6, <1>7, <1>8 DEF UsageTypeOK

\* The bounded faults stay bounded.
LEMMA UpsetType ==
  ASSUME UsageTypeOK, Upset
  PROVE  upsets' \in 0 .. MaxUpsets
BY UsageNumbers DEF UsageTypeOK, Upset

\* Every operation keeps the types.
LEMMA UsageTypeStep == UsageTypeOK /\ StreamsOK /\ [UsageNext]_usageVars => UsageTypeOK'
<1> SUFFICES ASSUME UsageTypeOK, StreamsOK, [UsageNext]_usageVars PROVE UsageTypeOK'
  OBVIOUS
<1> USE UsageNumbers
<1>0. agent.boot \in Nat \ {0} /\ agent.primed \in Flags /\ agent.known \in Flags
      /\ real \in Nat /\ counter \in Nat /\ opened \in Nat /\ stream \in Nat /\ newest \in Nat
  BY UsageFacts
<1>1. CASE Traffic
  BY <1>0, <1>1 DEF Traffic, agentState, panelState, UsageTypeOK
<1>2. CASE TelemtRestarts
  <2>1. upsets' \in 0 .. MaxUpsets
    BY <1>2, UpsetType DEF TelemtRestarts
  <2> QED
    BY <1>0, <1>2, <2>1 DEF TelemtRestarts, agentState, panelState, UsageTypeOK, Flags
<1>3. ASSUME NEW restarted \in BOOLEAN, NEW active \in BOOLEAN, SampleClient(restarted, active)
      PROVE  UsageTypeOK'
  <2> DEFINE k == TrackingKey  delta == SampleDelta(restarted, k)  total == totals[k].val + delta
             r == [boot |-> agent.boot, total |-> total]
  <2>1. k \in Keys /\ delta \in Nat /\ total \in Nat /\ r \in Reports
    BY <1>0, SampleNumbers DEF Reports
  <2>2. /\ stream > 0 /\ rewound' = "no"
        /\ totals' = [totals EXCEPT ![k] = Set(total)]
        /\ last' = [x \in Keys |-> IF x = k THEN Set(counter) ELSE Unset]
        /\ agent' = [boot |-> agent.boot, primed |-> "yes", known |-> agent.known]
        /\ inbox' = inbox \/ inbox' = [inbox EXCEPT ![stream] = DropOldest(@, r)]
        /\ doubted' \in {"yes", doubted}
        /\ UNCHANGED <<real, counter, stream, opened, newest, mirror, usageRow, upsets>>
    BY <1>3 DEF SampleClient, panelState
  <2> HIDE DEF k, delta, total, r
  <2>3. Set(total) \in Entries /\ Set(counter) \in Entries /\ Unset \in Entries
    BY <1>0, <2>1 DEF Set, Unset, Entries, Flags
  <2>4. totals' \in [Keys -> Entries] /\ last' \in [Keys -> Entries]
    BY <2>1, <2>2, <2>3 DEF UsageTypeOK
  <2>5. agent' \in [boot : Nat \ {0}, primed : Flags, known : Flags]
    BY <1>0, <2>2 DEF Flags
  <2>6. stream \in 1 .. MaxStreams
    BY <1>0, <2>2 DEF UsageTypeOK
  <2>7. /\ inbox' \in [1 .. MaxStreams -> Seq(Reports)]
        /\ \A t \in 1 .. MaxStreams : Len(inbox'[t]) <= QueueCap
    <3>1. CASE inbox' = inbox
      BY <3>1 DEF UsageTypeOK
    <3>2. CASE inbox' = [inbox EXCEPT ![stream] = DropOldest(@, r)]
      BY <2>1, <2>6, <3>2, InboxAdds
    <3> QED
      BY <2>2, <3>1, <3>2
  <2> QED
    BY <2>2, <2>4, <2>5, <2>7 DEF UsageTypeOK, Flags
<1>4. CASE SampleOmits
  <2>1. upsets' \in 0 .. MaxUpsets
    BY <1>4, UpsetType DEF SampleOmits
  <2>2. last' \in [Keys -> Entries]
    BY <1>4, UnsetMap DEF SampleOmits
  <2> QED
    BY <1>0, <1>4, <2>1, <2>2 DEF SampleOmits, panelState, UsageTypeOK, Flags
<1>5. CASE ClientJobRuns
  <2>1. agent' \in [boot : Nat \ {0}, primed : Flags, known : Flags]
    BY <1>0, <1>5 DEF ClientJobRuns, Flags
  <2> QED
    BY <1>5, <2>1 DEF ClientJobRuns, panelState, UsageTypeOK
<1>6. CASE AgentReboots
  <2>1. upsets' \in 0 .. MaxUpsets
    BY <1>6, UpsetType DEF AgentReboots
  <2>2. last' \in [Keys -> Entries] /\ totals' \in [Keys -> Entries]
    BY <1>6, UnsetMap DEF AgentReboots
  <2>3. agent' \in [boot : Nat \ {0}, primed : Flags, known : Flags] /\ rewound' \in Flags
    BY <1>0, <1>6 DEF AgentReboots, Flags
  <2> QED
    BY <1>0, <1>6, <2>1, <2>2, <2>3 DEF AgentReboots, panelState, UsageTypeOK
<1>7. CASE StreamOpens
  <2>1. opened' \in 0 .. MaxStreams /\ stream' \in 0 .. opened' /\ newest' \in 0 .. opened'
    BY <1>0, <1>7 DEF StreamOpens, UsageTypeOK
  <2> QED
    BY <1>7, <2>1 DEF StreamOpens, agentState, panelState, UsageTypeOK
<1>8. ASSUME NEW s \in 1 .. MaxStreams, ReportLost(s)
      PROVE  UsageTypeOK'
  <2>1. upsets' \in 0 .. MaxUpsets
    BY <1>8, UpsetType DEF ReportLost
  <2>2. /\ inbox' \in [1 .. MaxStreams -> Seq(Reports)]
        /\ \A t \in 1 .. MaxStreams : Len(inbox'[t]) <= QueueCap
    BY <1>8, InboxTail DEF ReportLost
  <2> QED
    BY <1>8, <2>1, <2>2 DEF ReportLost, agentState, panelState, UsageTypeOK
<1>9. ASSUME NEW s \in 1 .. MaxStreams, NEW stored \in BOOLEAN, ApplyUsage(s, stored)
      PROVE  UsageTypeOK'
  <2> DEFINE r == Head(inbox[s])
  <2>1. /\ inbox[s] # <<>> /\ inbox' = [inbox EXCEPT ![s] = Tail(@)]
        /\ mirror' = Merged(r) /\ usageRow' \in {usageRow, Merged(r)}
        /\ upsets' = upsets \/ Upset
        /\ newest' \in {s, newest} /\ doubted' \in {"yes", doubted}
        /\ UNCHANGED <<real, counter, rewound, agent, last, totals, stream, opened>>
    BY <1>9 DEF ApplyUsage, agentState
  <2>2. r \in Reports
    BY <2>1, TailFacts DEF UsageTypeOK
  <2>3. Merged(r) \in UsageEntries
    BY <2>2, MergedFacts DEF UsageTypeOK
  <2> HIDE DEF r
  <2>4. mirror' \in UsageEntries /\ usageRow' \in UsageEntries
    BY <2>1, <2>3 DEF UsageTypeOK
  <2>5. /\ inbox' \in [1 .. MaxStreams -> Seq(Reports)]
        /\ \A t \in 1 .. MaxStreams : Len(inbox'[t]) <= QueueCap
    BY <2>1, InboxTail
  <2>6. newest' \in 0 .. opened
    BY <1>0, <2>1 DEF StreamsOK, UsageTypeOK
  <2>7. upsets' \in 0 .. MaxUpsets
    BY <2>1, UpsetType DEF UsageTypeOK
  <2> QED
    BY <2>1, <2>4, <2>5, <2>6, <2>7 DEF UsageTypeOK, Flags
<1>10. CASE PanelReboots
  <2>1. upsets' \in 0 .. MaxUpsets
    BY <1>10, UpsetType DEF PanelReboots
  <2>2. /\ inbox' \in [1 .. MaxStreams -> Seq(Reports)]
        /\ \A t \in 1 .. MaxStreams : Len(inbox'[t]) <= QueueCap
    BY <1>10 DEF PanelReboots
  <2> QED
    BY <1>0, <1>10, <2>1, <2>2 DEF PanelReboots, agentState, UsageTypeOK
<1>11. CASE UNCHANGED usageVars
  BY <1>11 DEF usageVars, agentState, panelState, UsageTypeOK
<1> QED
  BY <1>1, <1>2, <1>3, <1>4, <1>5, <1>6, <1>7, <1>8, <1>9, <1>10, <1>11 DEF UsageNext

\* A stream that has not been opened has no report, and the agent reports on the last.
LEMMA StreamsStep == UsageTypeOK /\ StreamsOK /\ [UsageNext]_usageVars => StreamsOK'
<1> SUFFICES ASSUME UsageTypeOK, StreamsOK, [UsageNext]_usageVars PROVE StreamsOK'
  OBVIOUS
<1>0. opened \in Nat /\ stream \in Nat /\ MaxStreams \in Nat
      /\ inbox \in [1 .. MaxStreams -> Seq(Reports)]
  BY UsageFacts, UsageNumbers DEF UsageTypeOK
<1>1. CASE UNCHANGED <<stream, opened, inbox>>
  BY <1>1 DEF StreamsOK
<1>2. ASSUME NEW restarted \in BOOLEAN, NEW active \in BOOLEAN, SampleClient(restarted, active)
      PROVE  StreamsOK'
  <2> DEFINE r == [boot |-> agent.boot,
                   total |-> totals[TrackingKey].val + SampleDelta(restarted, TrackingKey)]
  <2>1. /\ stream > 0 /\ UNCHANGED <<stream, opened>>
        /\ inbox' = inbox \/ inbox' = [inbox EXCEPT ![stream] = DropOldest(@, r)]
    BY <1>2 DEF SampleClient
  <2> HIDE DEF r
  <2>2. \A s \in 1 .. MaxStreams : s # stream => inbox'[s] = inbox[s]
    BY <1>0, <2>1
  <2> QED
    BY <1>0, <2>1, <2>2 DEF StreamsOK
<1>3. CASE AgentReboots
  BY <1>0, <1>3 DEF AgentReboots, StreamsOK
<1>4. CASE StreamOpens
  BY <1>0, <1>4 DEF StreamOpens, StreamsOK
<1>5. ASSUME NEW s \in 1 .. MaxStreams, inbox[s] # <<>>, inbox' = [inbox EXCEPT ![s] = Tail(@)],
             UNCHANGED <<stream, opened>>
      PROVE  StreamsOK'
  <2>1. \A t \in 1 .. MaxStreams : t # s => inbox'[t] = inbox[t]
    BY <1>0, <1>5
  <2> QED
    BY <1>5, <2>1 DEF StreamsOK
<1>6. CASE PanelReboots
  BY <1>6 DEF PanelReboots, StreamsOK
<1>7. CASE UsageNext
  <2>1. CASE Traffic \/ TelemtRestarts \/ SampleOmits \/ ClientJobRuns
    BY <1>1, <2>1 DEF Traffic, TelemtRestarts, SampleOmits, ClientJobRuns
  <2>2. ASSUME NEW s \in 1 .. MaxStreams, ReportLost(s) \/ \E stored \in BOOLEAN : ApplyUsage(s, stored)
        PROVE  StreamsOK'
    <3>1. inbox[s] # <<>> /\ inbox' = [inbox EXCEPT ![s] = Tail(@)] /\ UNCHANGED <<stream, opened>>
      BY <2>2 DEF ReportLost, ApplyUsage
    <3> QED
      BY <1>5, <3>1
  <2> QED
    BY <1>2, <1>3, <1>4, <1>6, <1>7, <2>1, <2>2 DEF UsageNext
<1> QED
  BY <1>1, <1>7 DEF usageVars

\* The agent's maps stay consistent.
LEMMA MapsStep == UsageTypeOK /\ MapsOK /\ [UsageNext]_usageVars => MapsOK'
<1> SUFFICES ASSUME UsageTypeOK, MapsOK, [UsageNext]_usageVars PROVE MapsOK'
  OBVIOUS
<1>0. totals \in [Keys -> Entries] /\ last \in [Keys -> Entries]
  BY DEF UsageTypeOK
<1>1. CASE UNCHANGED <<last, totals>> /\ agent'.primed = agent.primed
  BY <1>1 DEF MapsOK
<1>2. ASSUME NEW restarted \in BOOLEAN, NEW active \in BOOLEAN, SampleClient(restarted, active)
      PROVE  MapsOK'
  <2> DEFINE k == TrackingKey  total == totals[k].val + SampleDelta(restarted, k)
  <2>1. /\ totals' = [totals EXCEPT ![k] = Set(total)]
        /\ last' = [x \in Keys |-> IF x = k THEN Set(counter) ELSE Unset]
        /\ agent'.primed = "yes"
    BY <1>2 DEF SampleClient
  <2>2. k \in Keys
    BY SampleNumbers
  <2> HIDE DEF k, total
  <2>3. /\ totals'[k] = Set(total) /\ last'[k] = Set(counter)
        /\ \A x \in Keys : x # k => totals'[x] = totals[x] /\ last'[x] = Unset
    BY <1>0, <2>1, <2>2
  <2> QED
    BY <2>1, <2>3 DEF MapsOK, Set, Unset
<1>3. CASE SampleOmits
  BY <1>3 DEF SampleOmits, MapsOK, Unset
<1>4. CASE AgentReboots
  BY <1>4 DEF AgentReboots, MapsOK, Unset
<1>5. CASE UsageNext
  <2>1. CASE Traffic \/ TelemtRestarts \/ StreamOpens \/ PanelReboots
    BY <1>1, <2>1 DEF Traffic, TelemtRestarts, StreamOpens, PanelReboots, agentState
  <2>2. CASE ClientJobRuns
    BY <1>1, <2>2 DEF ClientJobRuns
  <2>3. ASSUME NEW s \in 1 .. MaxStreams, ReportLost(s) \/ \E stored \in BOOLEAN : ApplyUsage(s, stored)
        PROVE  MapsOK'
    BY <1>1, <2>3 DEF ReportLost, ApplyUsage, agentState
  <2> QED
    BY <1>2, <1>3, <1>4, <1>5, <2>1, <2>2, <2>3 DEF UsageNext
<1> QED
  BY <1>1, <1>5 DEF usageVars, agentState

---------------------------------------------------------------------------
(* The order of the reports.                                               *)

\* The queues of a step that adds no report: each has lost d[s] of its oldest.
Shrunk(d) ==
  \A s \in 1 .. MaxStreams : \A i \in 1 .. Len(inbox'[s]) :
    i + d[s] \in 1 .. Len(inbox[s]) /\ inbox'[s][i] = inbox[s][i + d[s]]
\* The streams carry what they did, less the oldest report of some.
InboxShrinks == \E d \in [1 .. MaxStreams -> {0, 1}] : Shrunk(d)

\* They do when nothing moves.
LEMMA SameShrinks ==
  ASSUME UsageTypeOK, inbox' = inbox
  PROVE  InboxShrinks
<1> DEFINE d == [s \in 1 .. MaxStreams |-> 0]
<1>1. d \in [1 .. MaxStreams -> {0, 1}]
  OBVIOUS
<1>2. ASSUME NEW s \in 1 .. MaxStreams, NEW i \in 1 .. Len(inbox'[s])
      PROVE  i + d[s] \in 1 .. Len(inbox[s]) /\ inbox'[s][i] = inbox[s][i + d[s]]
  <2>1. Len(inbox[s]) \in Nat /\ inbox'[s] = inbox[s]
    BY InboxFacts
  <2>2. i + d[s] = i
    BY <2>1
  <2> QED
    BY <2>1, <2>2
<1> HIDE DEF d
<1>3. Shrunk(d)
  BY <1>2 DEF Shrunk
<1> QED
  BY <1>1, <1>3 DEF InboxShrinks

\* They do when one report is taken.
LEMMA TailShrinks ==
  ASSUME UsageTypeOK, NEW s \in 1 .. MaxStreams, inbox[s] # <<>>,
         inbox' = [inbox EXCEPT ![s] = Tail(@)]
  PROVE  /\ InboxShrinks
         /\ \A i \in 1 .. Len(inbox'[s]) :
              i + 1 \in 1 .. Len(inbox[s]) /\ inbox'[s][i] = inbox[s][i + 1]
<1> DEFINE d == [t \in 1 .. MaxStreams |-> IF t = s THEN 1 ELSE 0]
<1>1. d \in [1 .. MaxStreams -> {0, 1}]
  OBVIOUS
<1>2. inbox'[s] = Tail(inbox[s]) /\ \A t \in 1 .. MaxStreams : t # s => inbox'[t] = inbox[t]
  BY InboxTail
<1>3. \A i \in 1 .. Len(inbox'[s]) :
        i + 1 \in 1 .. Len(inbox[s]) /\ inbox'[s][i] = inbox[s][i + 1]
  <2>1. inbox[s] \in Seq(Reports)
    BY InboxFacts
  <2>2. \A i \in 1 .. Len(Tail(inbox[s])) :
          i + 1 \in 1 .. Len(inbox[s]) /\ Tail(inbox[s])[i] = inbox[s][i + 1]
    BY <2>1, TailFacts
  <2> QED
    BY <1>2, <2>2
<1>4. ASSUME NEW t \in 1 .. MaxStreams, NEW i \in 1 .. Len(inbox'[t])
      PROVE  i + d[t] \in 1 .. Len(inbox[t]) /\ inbox'[t][i] = inbox[t][i + d[t]]
  <2>1. CASE t = s
    <3>1. d[t] = 1
      BY <2>1
    <3> QED
      BY <1>3, <2>1, <3>1
  <2>2. CASE t # s
    <3>1. d[t] = 0 /\ inbox'[t] = inbox[t]
      BY <1>2, <2>2
    <3>2. Len(inbox[t]) \in Nat
      BY InboxFacts
    <3>3. i + d[t] = i
      BY <3>1, <3>2
    <3> QED
      BY <3>1, <3>3
  <2> QED
    BY <2>1, <2>2
<1> HIDE DEF d
<1>5. Shrunk(d)
  BY <1>4 DEF Shrunk
<1> QED
  BY <1>1, <1>3, <1>5 DEF InboxShrinks

\* What is left in the queues is still in the order in which it was made.
LEMMA ShrunkOrdered ==
  ASSUME UsageTypeOK, UsageTypeOK', ReportsOrdered, InboxShrinks
  PROVE  ReportsOrdered'
<1>1. PICK d \in [1 .. MaxStreams -> {0, 1}] : Shrunk(d)
  BY DEF InboxShrinks
<1> SUFFICES ASSUME NEW s \in 1 .. MaxStreams, NEW t \in 1 .. MaxStreams,
                    NEW i \in 1 .. Len(inbox'[s]), NEW j \in 1 .. Len(inbox'[t]),
                    s < t \/ (s = t /\ i < j)
             PROVE  Before(inbox'[s][i], inbox'[t][j])
  BY DEF ReportsOrdered, Before
<1>2. Len(inbox'[s]) \in Nat /\ Len(inbox'[t]) \in Nat
  <2>1. inbox' \in [1 .. MaxStreams -> Seq(Reports)]
    BY DEF UsageTypeOK
  <2> QED
    BY <2>1
<1>3. /\ i + d[s] \in 1 .. Len(inbox[s]) /\ inbox'[s][i] = inbox[s][i + d[s]]
      /\ j + d[t] \in 1 .. Len(inbox[t]) /\ inbox'[t][j] = inbox[t][j + d[t]]
  BY <1>1 DEF Shrunk
<1>4. d[s] \in {0, 1} /\ d[t] \in {0, 1}
  OBVIOUS
<1>5. s < t \/ (s = t /\ i + d[s] < j + d[t])
  BY <1>2, <1>4
<1> QED
  BY <1>3, <1>5 DEF ReportsOrdered

\* A report that is left was there before.
LEMMA ShrunkContents ==
  ASSUME InboxShrinks, NEW s \in 1 .. MaxStreams, NEW i \in 1 .. Len(inbox'[s])
  PROVE  \E j \in 1 .. Len(inbox[s]) : inbox'[s][i] = inbox[s][j]
BY DEF InboxShrinks, Shrunk

\* The numbers that Before compares.
LEMMA NowFacts ==
  ASSUME UsageTypeOK
  PROVE  /\ Now.boot = agent.boot /\ Now.total = Counted /\ Now.boot \in Nat /\ Now.total \in Nat
         /\ \A e \in {mirror, usageRow} : /\ Seen(e).boot = e.boot /\ Seen(e).total = e.last
                                          /\ Seen(e).boot \in Nat /\ Seen(e).total \in Nat
         /\ \A s \in 1 .. MaxStreams : \A i \in 1 .. Len(inbox[s]) :
              inbox[s][i].boot \in Nat /\ inbox[s][i].total \in Nat
<1>1. agent.boot \in Nat /\ Counted \in Nat
  BY UsageFacts
<1>2. mirror \in UsageEntries /\ usageRow \in UsageEntries
  BY DEF UsageTypeOK
<1>3. \A s \in 1 .. MaxStreams : \A i \in 1 .. Len(inbox[s]) : inbox[s][i] \in Reports
  BY InboxFacts
<1>4. \A e \in UsageEntries : e.boot \in Nat /\ e.last \in Nat
  BY EntryFacts
<1>5. \A e \in {mirror, usageRow} : /\ Seen(e).boot = e.boot /\ Seen(e).total = e.last
                                    /\ Seen(e).boot \in Nat /\ Seen(e).total \in Nat
  BY <1>2, <1>4 DEF Seen
<1>6. Now.boot = agent.boot /\ Now.total = Counted
  BY DEF Now
<1> QED
  BY <1>1, <1>3, <1>5, <1>6, ReportFacts

\* The report of the next state, field by field.
LEMMA NowPrimed ==
  ASSUME UsageTypeOK'
  PROVE  /\ Now'.boot = agent'.boot /\ Now'.total = Counted' /\ Now'.boot \in Nat \ {0}
         /\ Now'.total \in Nat
<1>1. agent' \in [boot : Nat \ {0}, primed : Flags, known : Flags]
  BY DEF UsageTypeOK
<1>2. totals' \in [Keys -> Entries] /\ "id" \in Keys /\ "name" \in Keys
  BY DEF UsageTypeOK, Keys
<1>3. Counted' \in Nat
  BY <1>2 DEF Counted, Entries
<1> QED
  BY <1>1, <1>3 DEF Now

\* Steps that make no report and leave the panel's entries: what the agent has
\* counted does not go back.
LEMMA OrderKept ==
  ASSUME UsageTypeOK, UsageTypeOK', Ordered, InboxShrinks, Before(Now, Now'),
         mirror' = mirror, usageRow' = usageRow, newest' = newest
  PROVE  Ordered'
<1>1. ReportsOrdered'
  BY ShrunkOrdered DEF Ordered
<1>2. /\ Now.boot \in Nat /\ Now.total \in Nat /\ Now'.boot \in Nat /\ Now'.total \in Nat
  BY NowFacts, NowPrimed
<1>3. ReportsNotAhead'
  <2> SUFFICES ASSUME NEW s \in 1 .. MaxStreams, NEW i \in 1 .. Len(inbox'[s])
               PROVE  Before(inbox'[s][i], Now')
    BY DEF ReportsNotAhead, Before
  <2>1. PICK j \in 1 .. Len(inbox[s]) : inbox'[s][i] = inbox[s][j]
    BY ShrunkContents
  <2>2. Before(inbox[s][j], Now) /\ inbox[s][j].boot \in Nat /\ inbox[s][j].total \in Nat
    BY NowFacts DEF Ordered, ReportsNotAhead
  <2>3. Before(inbox[s][j], Now')
    BY <1>2, <2>2, BeforeTransitive
  <2> QED
    BY <2>1, <2>3
<1>4. PanelBehind'
  <2> SUFFICES ASSUME NEW s \in 1 .. MaxStreams, NEW i \in 1 .. Len(inbox'[s]), s >= newest
               PROVE  Before(Seen(mirror), inbox'[s][i])
    BY DEF PanelBehind, Before, Seen
  <2>1. PICK j \in 1 .. Len(inbox[s]) : inbox'[s][i] = inbox[s][j]
    BY ShrunkContents
  <2>2. Before(Seen(mirror), inbox[s][j])
    BY DEF Ordered, PanelBehind
  <2> QED
    BY <2>1, <2>2
<1>5. EntriesNotAhead'
  <2>1. Before(Seen(mirror), Now) /\ Before(Seen(usageRow), Now)
    BY DEF Ordered, EntriesNotAhead
  <2>2. /\ Seen(mirror).boot \in Nat /\ Seen(mirror).total \in Nat
        /\ Seen(usageRow).boot \in Nat /\ Seen(usageRow).total \in Nat
    BY NowFacts
  <2>3. Before(Seen(mirror), Now') /\ Before(Seen(usageRow), Now')
    BY <1>2, <2>1, <2>2, BeforeTransitive
  <2> QED
    BY <2>3 DEF EntriesNotAhead, Before, Seen
<1> QED
  BY <1>1, <1>3, <1>4, <1>5 DEF Ordered

\* A report that a sample makes is the newest of all.
LEMMA AddedOrder ==
  ASSUME UsageTypeOK, UsageTypeOK', StreamsOK, Ordered, stream > 0,
         NEW r \in Reports, r = Now', inbox' = [inbox EXCEPT ![stream] = DropOldest(@, r)],
         Before(Now, Now'), mirror' = mirror, usageRow' = usageRow, newest' = newest
  PROVE  Ordered'
<1> DEFINE q == inbox[stream]  u == inbox'[stream]
<1>0. stream \in 1 .. MaxStreams /\ stream = opened
  BY UsageNumbers DEF UsageTypeOK, StreamsOK
<1>1. u = DropOldest(q, r) /\ \A t \in 1 .. MaxStreams : t # stream => inbox'[t] = inbox[t]
  BY <1>0, InboxAdds
<1>2. q \in Seq(Reports) /\ Len(q) <= QueueCap /\ Len(q) \in Nat
  BY <1>0, InboxFacts
<1>3. Len(u) \in Nat \ {0}
  BY <1>1, <1>2, DropOldestFacts
<1>4. PICK d \in {0, 1} : \A i \in 1 .. Len(u) :
        IF i = Len(u) THEN u[i] = r ELSE i + d \in 1 .. Len(q) /\ u[i] = q[i + d]
  <2> HIDE DEF q, u
  <2>1. \E d \in {0, 1} : \A i \in 1 .. Len(DropOldest(q, r)) :
          IF i = Len(DropOldest(q, r)) THEN DropOldest(q, r)[i] = r
          ELSE i + d \in 1 .. Len(q) /\ DropOldest(q, r)[i] = q[i + d]
    BY <1>2, DropOldestFacts
  <2>2. u = DropOldest(q, r)
    BY <1>1
  <2> QED
    BY <2>1, <2>2
<1>5. /\ Now.boot \in Nat /\ Now.total \in Nat /\ Now'.boot \in Nat /\ Now'.total \in Nat
  BY NowFacts, NowPrimed
<1>6. ASSUME NEW p, p.boot \in Nat, p.total \in Nat, Before(p, Now)
      PROVE  Before(p, Now')
  BY <1>5, <1>6, BeforeTransitive
<1>7. ASSUME NEW s \in 1 .. MaxStreams, NEW i \in 1 .. Len(inbox[s])
      PROVE  Before(inbox[s][i], Now')
  <2>1. Before(inbox[s][i], Now) /\ inbox[s][i].boot \in Nat /\ inbox[s][i].total \in Nat
    BY NowFacts DEF Ordered, ReportsNotAhead
  <2> QED
    BY <1>6, <2>1
<1>8. ASSUME NEW s \in 1 .. MaxStreams, NEW i \in 1 .. Len(inbox'[s])
      PROVE  \/ s = stream /\ i = Len(u) /\ inbox'[s][i] = Now'
             \/ \E j \in 1 .. Len(inbox[s]) : inbox'[s][i] = inbox[s][j]
  <2>1. CASE s = stream
    BY <1>4, <2>1
  <2>2. CASE s # stream
    BY <1>1, <2>2
  <2> QED
    BY <2>1, <2>2
<1> HIDE DEF q, u
<1>9. ReportsNotAhead'
  <2> SUFFICES ASSUME NEW s \in 1 .. MaxStreams, NEW i \in 1 .. Len(inbox'[s])
               PROVE  Before(inbox'[s][i], Now')
    BY DEF ReportsNotAhead, Before
  <2>1. CASE inbox'[s][i] = Now'
    BY <1>5, <2>1 DEF Before
  <2>2. CASE \E j \in 1 .. Len(inbox[s]) : inbox'[s][i] = inbox[s][j]
    BY <1>7, <2>2
  <2> QED
    BY <1>8, <2>1, <2>2
<1>10. PanelBehind'
  <2> SUFFICES ASSUME NEW s \in 1 .. MaxStreams, NEW i \in 1 .. Len(inbox'[s]), s >= newest
               PROVE  Before(Seen(mirror), inbox'[s][i])
    BY DEF PanelBehind, Before, Seen
  <2>1. CASE inbox'[s][i] = Now'
    <3>1. Before(Seen(mirror), Now) /\ Seen(mirror).boot \in Nat /\ Seen(mirror).total \in Nat
      BY NowFacts DEF Ordered, EntriesNotAhead
    <3> QED
      BY <1>6, <2>1, <3>1
  <2>2. CASE \E j \in 1 .. Len(inbox[s]) : inbox'[s][i] = inbox[s][j]
    BY <2>2 DEF Ordered, PanelBehind
  <2> QED
    BY <1>8, <2>1, <2>2
<1>11. EntriesNotAhead'
  <2>1. /\ Before(Seen(mirror), Now) /\ Seen(mirror).boot \in Nat /\ Seen(mirror).total \in Nat
        /\ Before(Seen(usageRow), Now) /\ Seen(usageRow).boot \in Nat /\ Seen(usageRow).total \in Nat
    BY NowFacts DEF Ordered, EntriesNotAhead
  <2>2. Before(Seen(mirror), Now') /\ Before(Seen(usageRow), Now')
    BY <1>6, <2>1
  <2> QED
    BY <2>2 DEF EntriesNotAhead, Before, Seen
<1>12. ReportsOrdered'
  <2> SUFFICES ASSUME NEW s \in 1 .. MaxStreams, NEW t \in 1 .. MaxStreams,
                      NEW i \in 1 .. Len(inbox'[s]), NEW j \in 1 .. Len(inbox'[t]),
                      s < t \/ (s = t /\ i < j)
               PROVE  Before(inbox'[s][i], inbox'[t][j])
    BY DEF ReportsOrdered, Before
  <2>1. CASE t = stream /\ j = Len(u)
    <3>1. inbox'[t][j] = Now'
      BY <1>4, <2>1 DEF u
    <3>2. ~(s = stream /\ i = Len(u))
      BY <1>0, <1>3, <2>1
    <3>3. \E m \in 1 .. Len(inbox[s]) : inbox'[s][i] = inbox[s][m]
      BY <1>8, <3>2
    <3> QED
      BY <1>7, <3>1, <3>3
  <2>2. CASE t = stream /\ j # Len(u)
    <3>1. j \in 1 .. Len(u) /\ j + d \in 1 .. Len(inbox[t]) /\ inbox'[t][j] = inbox[t][j + d]
      BY <1>4, <2>2 DEF u, q
    <3>2. CASE s < t
      <4>1. s # stream
        BY <2>2, <3>2
      <4>2. inbox'[s] = inbox[s]
        BY <1>1, <4>1
      <4> QED
        BY <3>1, <3>2, <4>2 DEF Ordered, ReportsOrdered
    <3>3. CASE s = t /\ i < j
      <4>1. i \in 1 .. Len(u) /\ i # Len(u)
        BY <1>3, <2>2, <3>1, <3>3 DEF u
      <4>2. i + d \in 1 .. Len(inbox[s]) /\ inbox'[s][i] = inbox[s][i + d]
        BY <1>4, <2>2, <3>3, <4>1 DEF u, q
      <4>3. i + d < j + d
        BY <1>3, <3>1, <3>3, <4>1
      <4> QED
        BY <3>1, <3>3, <4>2, <4>3 DEF Ordered, ReportsOrdered
    <3> QED
      BY <3>2, <3>3
  <2>3. CASE t # stream
    <3>1. inbox'[t] = inbox[t]
      BY <1>1, <2>3
    <3>2. inbox[t] # <<>>
      BY <3>1
    <3>3. t < stream
      BY <1>0, <2>3, <3>2, UsageNumbers DEF StreamsOK, UsageTypeOK
    <3>4. s # stream
      BY <1>0, <3>3
    <3>5. inbox'[s] = inbox[s]
      BY <1>1, <3>4
    <3> QED
      BY <3>1, <3>5 DEF Ordered, ReportsOrdered
  <2> QED
    BY <2>1, <2>2, <2>3
<1> QED
  BY <1>9, <1>10, <1>11, <1>12 DEF Ordered

\* A report is applied from the newest stream: it becomes the watermark, and what
\* waits behind it was made later.
LEMMA AppliedOrder ==
  ASSUME UsageTypeOK, UsageTypeOK', Ordered, NEW s \in 1 .. MaxStreams, inbox[s] # <<>>,
         s >= newest, newest' = s, inbox' = [inbox EXCEPT ![s] = Tail(@)],
         mirror' = Merged(Head(inbox[s])), usageRow' \in {usageRow, mirror'},
         agent' = agent, totals' = totals
  PROVE  Ordered'
<1> DEFINE r == Head(inbox[s])
<1>1. InboxShrinks /\ \A i \in 1 .. Len(inbox'[s]) :
                        i + 1 \in 1 .. Len(inbox[s]) /\ inbox'[s][i] = inbox[s][i + 1]
  BY TailShrinks
<1>2. r \in Reports /\ r = inbox[s][1] /\ 1 \in 1 .. Len(inbox[s])
  BY TailFacts, InboxFacts
<1>3. mirror'.boot = r.boot /\ mirror'.last = r.total
  BY <1>2, MergedFacts DEF UsageTypeOK
<1> HIDE DEF r
<1>4. Seen(mirror') = [boot |-> r.boot, total |-> r.total]
  BY <1>3 DEF Seen
<1>5. ReportsOrdered'
  BY <1>1, ShrunkOrdered DEF Ordered
<1>6. Now' = Now
  BY DEF Now, Counted
<1>7. ReportsNotAhead'
  <2> SUFFICES ASSUME NEW t \in 1 .. MaxStreams, NEW i \in 1 .. Len(inbox'[t])
               PROVE  Before(inbox'[t][i], Now)
    BY <1>6 DEF ReportsNotAhead, Before
  <2>1. PICK j \in 1 .. Len(inbox[t]) : inbox'[t][i] = inbox[t][j]
    BY <1>1, ShrunkContents
  <2> QED
    BY <2>1 DEF Ordered, ReportsNotAhead
<1>8. PanelBehind'
  <2> SUFFICES ASSUME NEW t \in 1 .. MaxStreams, NEW i \in 1 .. Len(inbox'[t]), t >= s
               PROVE  Before(Seen(mirror'), inbox'[t][i])
    BY DEF PanelBehind, Before, Seen
  <2>1. Before(r, inbox'[t][i])
    <3>1. CASE t = s
      <4>1. i + 1 \in 1 .. Len(inbox[t]) /\ inbox'[t][i] = inbox[t][i + 1]
        BY <1>1, <3>1
      <4>2. 1 < i + 1
        <5>1. Len(inbox[t]) \in Nat
          BY InboxFacts
        <5>2. i \in Nat /\ i >= 1
          <6>1. Len(inbox'[t]) \in Nat
            BY SMTT(30) DEF UsageTypeOK
          <6> QED
            BY <6>1
        <5> QED
          BY <5>2
      <4> QED
        BY <1>2, <3>1, <4>1, <4>2 DEF Ordered, ReportsOrdered
    <3>2. CASE t # s
      <4>1. s < t
        BY <3>2
      <4>2. PICK j \in 1 .. Len(inbox[t]) : inbox'[t][i] = inbox[t][j]
        BY <1>1, ShrunkContents
      <4> QED
        BY <1>2, <4>1, <4>2 DEF Ordered, ReportsOrdered
    <3> QED
      BY <3>1, <3>2
  <2> QED
    BY <1>4, <2>1 DEF Before
<1>9. EntriesNotAhead'
  <2>1. Before(Seen(mirror'), Now)
    BY <1>2, <1>4 DEF Ordered, ReportsNotAhead, Before
  <2>2. Before(Seen(usageRow'), Now)
    BY <2>1 DEF Ordered, EntriesNotAhead
  <2> QED
    BY <1>6, <2>1, <2>2 DEF EntriesNotAhead, Before, Seen
<1> QED
  BY <1>5, <1>7, <1>8, <1>9 DEF Ordered

\* A restarted panel has no reports queued and continues from the row.
LEMMA RebootedOrder ==
  ASSUME Ordered, PanelReboots
  PROVE  Ordered'
<1>1. \A s \in 1 .. MaxStreams : inbox'[s] = <<>>
  BY DEF PanelReboots
<1>2. ReportsOrdered' /\ ReportsNotAhead' /\ PanelBehind'
  BY <1>1 DEF ReportsOrdered, ReportsNotAhead, PanelBehind
<1>3. EntriesNotAhead'
  BY DEF Ordered, EntriesNotAhead, PanelReboots, agentState, Now, Counted, Seen, Before
<1> QED
  BY <1>2, <1>3 DEF Ordered

---------------------------------------------------------------------------
(* What the bytes transferred cover.                                       *)

\* The report that is applied leaves an entry that credits no more than its process
\* had room for, whether it starts an entry, finds one that adoption seeded, comes
\* from a new process or from the same one.
LEMMA MergedFits ==
  ASSUME UsageTypeOK, NEW from \in Marks, Covered(from), NEW r \in Reports,
         ReportFits(from, agent.boot, Counted, r), Before(Seen(mirror), r)
  PROVE  EntryFits(from, agent.boot, Counted, Merged(r))
<1> DEFINE boot == agent.boot  n == Merged(r)
<1>1. boot \in Nat \ {0} /\ Counted \in Nat /\ real \in Nat
  BY UsageFacts
<1>2. from \in [1 .. boot -> Nat] /\ from[boot] + Counted <= real /\ Climbs(from, boot)
  <2>1. from \in [1 .. boot -> 0 .. real] /\ 0 .. real \subseteq Nat
    BY <1>1 DEF Marks
  <2>2. from[boot] + Counted <= real /\ Climbs(from, boot)
    BY DEF Covered, SamplesCovered
  <2> QED
    BY <2>1, <2>2
<1>3. mirror \in UsageEntries /\ EntryFits(from, boot, Counted, mirror)
  BY DEF UsageTypeOK, Covered, EntriesCovered
<1>4. /\ mirror.set \in Flags /\ mirror.total \in Nat /\ mirror.boot \in Nat /\ mirror.last \in Nat
      /\ mirror.base \in Int
  BY <1>3, EntryFacts
<1>5. r.boot \in 1 .. boot /\ r.total \in Nat /\ r.total <= Room(from, boot, Counted, r.boot)
  BY ReportFacts DEF ReportFits
<1>6. /\ n.set = "yes" /\ n.boot = r.boot /\ n.last = r.total
      /\ n.total = mirror.total + ReportDelta(r) /\ n.base = BaseAfter(r)
  BY <1>3, MergedFacts
<1>7. mirror.boot < r.boot \/ (mirror.boot = r.boot /\ mirror.last <= r.total)
  BY DEF Before, Seen
<1>8. from[r.boot] \in Nat /\ from[1] \in Nat /\ from[1] <= from[r.boot]
  BY <1>1, <1>2, <1>5 DEF Climbs
<1>9. \A b \in 1 .. boot : b > mirror.boot => mirror.total <= from[b]
  BY <1>1, <1>2, <1>3, EntryBound
<1> DEFINE x == from[r.boot]
<1> HIDE DEF boot, n
<1>10. mirror.total + ReportDelta(r) = BaseAfter(r) + r.total /\ BaseAfter(r) <= x
  <2>1. CASE mirror.set = "no"
    <3>1. mirror = NoEntry
      BY <1>3, <2>1 DEF EntryFits
    <3>2. mirror.total = 0
      BY <3>1 DEF NoEntry
    <3>3. ReportDelta(r) = r.total /\ BaseAfter(r) = mirror.total
      BY <2>1 DEF ReportDelta, BaseAfter
    <3> QED
      BY <1>5, <1>8, <3>2, <3>3
  <2>2. CASE mirror.set = "yes" /\ mirror.boot = 0
    <3>1. mirror.total <= from[1]
      BY <1>3, <2>2 DEF EntryFits
    <3>2. ReportDelta(r) = 0 /\ BaseAfter(r) = mirror.total - r.total
      BY <2>2 DEF ReportDelta, BaseAfter
    <3> QED
      BY <1>4, <1>5, <1>8, <3>1, <3>2
  <2>3. CASE mirror.set = "yes" /\ mirror.boot # 0 /\ mirror.boot # r.boot
    <3>1. mirror.total <= x
      BY <1>1, <1>4, <1>5, <1>7, <1>9, <2>3
    <3>2. ReportDelta(r) = r.total /\ BaseAfter(r) = mirror.total
      BY <2>3 DEF ReportDelta, BaseAfter
    <3> QED
      BY <1>4, <1>5, <1>8, <3>1, <3>2
  <2>4. CASE mirror.set = "yes" /\ mirror.boot # 0 /\ mirror.boot = r.boot
    <3>1. mirror.total = mirror.base + mirror.last /\ mirror.base <= x /\ mirror.last <= r.total
      BY <1>3, <1>4, <1>7, <2>4 DEF EntryFits
    <3>2. ReportDelta(r) = r.total - mirror.last /\ BaseAfter(r) = mirror.base
      BY <1>4, <1>5, <2>4, <3>1 DEF ReportDelta, BaseAfter
    <3> HIDE DEF x
    <3>3. mirror.total + ReportDelta(r) = BaseAfter(r) + r.total
      BY <1>4, <1>5, <3>1, <3>2
    <3> QED
      BY <3>1, <3>2, <3>3
  <2> QED
    BY <1>4, <2>1, <2>2, <2>3, <2>4 DEF Flags
<1>11. n.boot \in 1 .. boot /\ n.boot # 0 /\ n.last <= Room(from, boot, Counted, n.boot)
       /\ n.total = n.base + n.last /\ n.base <= from[n.boot]
  BY <1>1, <1>5, <1>6, <1>10
<1> QED
  BY <1>6, <1>11 DEF EntryFits, n, boot

\* Steps that leave the panel's entries and add at most the agent's present total
\* to the queues keep the cover, from the marks that the step leaves.
LEMMA CoverGrows ==
  ASSUME UsageTypeOK, UsageTypeOK', NEW from \in Marks, Covered(from),
         NEW from2 \in Marks', agent.boot <= agent'.boot,
         \A b \in 1 .. agent.boot :
           /\ from[b] <= from2[b]
           /\ Room(from, agent.boot, Counted, b) <= Room(from2, agent'.boot, Counted', b),
         Climbs(from2, agent'.boot), SamplesCovered(from2)',
         mirror' = mirror, usageRow' = usageRow,
         \A s \in 1 .. MaxStreams : \A i \in 1 .. Len(inbox'[s]) :
           \/ inbox'[s][i] = Now'
           \/ \E j \in 1 .. Len(inbox[s]) : inbox'[s][i] = inbox[s][j]
  PROVE  (\E g \in Marks : Covered(g))'
<1> DEFINE boot == agent.boot  boot2 == agent'.boot  count == Counted  count2 == Counted'
<1>1. /\ boot \in Nat \ {0} /\ boot2 \in Nat \ {0} /\ count \in Nat /\ count2 \in Nat
      /\ Now'.boot = boot2 /\ Now'.total = count2
  BY UsageFacts, NowPrimed
<1>2. from \in [1 .. boot -> Nat] /\ from2 \in [1 .. boot2 -> Nat]
  <2>1. 0 .. real \subseteq Nat /\ 0 .. real' \subseteq Nat
    BY UsageNumbers DEF UsageTypeOK
  <2>2. from \in [1 .. boot -> 0 .. real] /\ from2 \in [1 .. boot2 -> 0 .. real']
    BY DEF Marks
  <2> QED
    BY <2>1, <2>2
<1>3. \A b \in 1 .. boot : from[b] <= from2[b]
                           /\ Room(from, boot, count, b) <= Room(from2, boot2, count2, b)
  OBVIOUS
<1> HIDE DEF boot, boot2, count, count2
<1>4. /\ \A e \in UsageEntries : EntryFits(from, boot, count, e) => EntryFits(from2, boot2, count2, e)
      /\ \A r \in Reports : ReportFits(from, boot, count, r) => ReportFits(from2, boot2, count2, r)
  <2>1. boot <= boot2
    BY DEF boot, boot2
  <2> QED
    BY <1>1, <1>2, <1>3, <2>1, FitsGrow
<1>5. EntriesCovered(from2)'
  <2>1. EntryFits(from, boot, count, mirror) /\ EntryFits(from, boot, count, usageRow)
    BY DEF Covered, EntriesCovered, boot, count
  <2>2. EntryFits(from2, boot2, count2, mirror) /\ EntryFits(from2, boot2, count2, usageRow)
    BY <1>4, <2>1 DEF UsageTypeOK
  <2>3. EntryFits(from2, boot2, count2, mirror') /\ EntryFits(from2, boot2, count2, usageRow')
    BY <2>2
  <2> QED
    BY <2>3 DEF EntriesCovered, boot2, count2, EntryFits, Room
<1>6. ReportsCovered(from2)'
  <2> SUFFICES ASSUME NEW s \in 1 .. MaxStreams, NEW i \in 1 .. Len(inbox'[s])
               PROVE  ReportFits(from2, boot2, count2, inbox'[s][i])
    BY DEF ReportsCovered, boot2, count2, ReportFits, Room
  <2>1. CASE inbox'[s][i] = Now'
    <3>1. Room(from2, boot2, count2, boot2) = count2 /\ count2 <= count2 /\ boot2 \in 1 .. boot2
      BY <1>1 DEF Room
    <3> QED
      BY <1>1, <2>1, <3>1 DEF ReportFits
  <2>2. ASSUME NEW j \in 1 .. Len(inbox[s]), inbox'[s][i] = inbox[s][j]
        PROVE  ReportFits(from2, boot2, count2, inbox'[s][i])
    <3>1. inbox[s][j] \in Reports /\ ReportFits(from, boot, count, inbox[s][j])
      BY InboxFacts DEF Covered, ReportsCovered, boot, count
    <3> QED
      BY <1>4, <2>2, <3>1
  <2> QED
    BY <2>1, <2>2
<1>7. Covered(from2)'
  BY <1>5, <1>6 DEF Covered, boot2, Climbs
<1> QED
  BY <1>7

\* The steps that count nothing: the marks stay where they are.
LEMMA CoverKept ==
  ASSUME UsageTypeOK, UsageTypeOK', NEW from \in Marks, Covered(from), InboxShrinks,
         agent'.boot = agent.boot, Counted' = Counted, real <= real',
         mirror' = mirror, usageRow' = usageRow, SamplesCovered(from)'
  PROVE  (\E g \in Marks : Covered(g))'
<1>1. real \in Nat /\ real' \in Nat /\ agent.boot \in Nat \ {0} /\ Counted \in Nat
  BY UsageFacts, UsageNumbers DEF UsageTypeOK
<1>2. from \in Marks'
  <2>1. 0 .. real \subseteq 0 .. real'
    BY <1>1
  <2> QED
    BY <2>1 DEF Marks
<1>3. \A b \in 1 .. agent.boot :
        /\ from[b] <= from[b]
        /\ Room(from, agent.boot, Counted, b) <= Room(from, agent'.boot, Counted', b)
  <2> SUFFICES ASSUME NEW b \in 1 .. agent.boot
               PROVE  from[b] <= from[b]
                      /\ Room(from, agent.boot, Counted, b) <= Room(from, agent.boot, Counted, b)
    OBVIOUS
  <2>1. \A c \in 1 .. agent.boot : from[c] \in Nat
    BY <1>1 DEF Marks
  <2>2. Room(from, agent.boot, Counted, b) \in Int
    BY <1>1, <2>1 DEF Room
  <2> QED
    BY <2>1, <2>2
<1>4. Climbs(from, agent'.boot) /\ agent.boot <= agent'.boot
  BY <1>1 DEF Covered
<1>5. \A s \in 1 .. MaxStreams : \A i \in 1 .. Len(inbox'[s]) :
        \E j \in 1 .. Len(inbox[s]) : inbox'[s][i] = inbox[s][j]
  BY ShrunkContents
<1> QED
  BY <1>2, <1>3, <1>4, <1>5, CoverGrows

---------------------------------------------------------------------------
(* Samples.                                                                *)

\* As long as the tracking key has not changed under a total, the total of the key
\* is what the process has counted, before and after a sample.
LEMMA SampleCounts ==
  ASSUME UsageTypeOK, MapsOK, OneKey, NEW restarted \in BOOLEAN, NEW active \in BOOLEAN,
         SampleClient(restarted, active), ~KeyChanges(TrackingKey)
  PROVE  /\ Counted = totals[TrackingKey].val
         /\ Counted' = Counted + SampleDelta(restarted, TrackingKey)
         /\ totals[TrackingKey].set = "no" => \A x \in Keys : totals[x].set = "no"
         /\ OneKey'
<1> DEFINE k == TrackingKey  total == totals[k].val + SampleDelta(restarted, k)
<1>0. "id" \in Keys /\ "name" \in Keys /\ Keys = {"id", "name"} /\ "id" # "name"
  BY DEF Keys
<1>1. totals' = [totals EXCEPT ![k] = Set(total)] /\ agent'.known = agent.known
  BY DEF SampleClient
<1>2. totals \in [Keys -> Entries] /\ agent.known \in Flags
      /\ totals["id"].set \in Flags /\ totals["name"].set \in Flags
  <2>1. totals \in [Keys -> Entries] /\ agent.known \in Flags
    BY UsageFacts DEF UsageTypeOK
  <2> QED
    BY <1>0, <2>1 DEF Entries
<1>3. Set(total).set = "yes" /\ Set(total).val = total
  BY DEF Set
<1>4. CASE agent.known = "yes"
  <2>1. k = "id"
    BY <1>4 DEF TrackingKey
  <2>2. totals["id"].set = "yes" \/ totals["name"].set = "no"
    BY <1>2, <2>1 DEF KeyChanges, Flags
  <2>3. totals["name"].set = "no"
    BY <1>2, <2>2 DEF OneKey
  <2>4. totals["name"].val = 0 /\ (totals["id"].set = "no" => totals["id"].val = 0)
    BY <1>0, <2>3 DEF MapsOK
  <2>5. Counted = totals["id"].val
    BY <1>2, <2>4 DEF Counted, Flags
  <2>6. totals'["id"] = Set(total) /\ totals'["name"] = totals["name"]
    BY <1>0, <1>1, <1>2, <2>1
  <2>7. Counted' = total
    BY <1>3, <2>6 DEF Counted
  <2>8. OneKey'
    BY <1>1, <1>4, <2>3, <2>6 DEF OneKey
  <2>9. totals["id"].set = "no" => \A x \in Keys : totals[x].set = "no"
    BY <1>0, <2>3
  <2> QED
    BY <2>1, <2>5, <2>7, <2>8, <2>9
<1>5. CASE agent.known = "no"
  <2>1. k = "name"
    BY <1>5 DEF TrackingKey
  <2>2. totals["id"].set = "no"
    BY <1>2, <1>5 DEF OneKey, Flags
  <2>3. Counted = totals["name"].val
    BY <2>2 DEF Counted
  <2>4. totals'["name"] = Set(total) /\ totals'["id"] = totals["id"]
    BY <1>0, <1>1, <1>2, <2>1
  <2>5. Counted' = total /\ OneKey'
    BY <1>3, <2>2, <2>4 DEF Counted, OneKey
  <2>6. totals["name"].set = "no" => \A x \in Keys : totals[x].set = "no"
    BY <1>0, <2>2
  <2> QED
    BY <2>1, <2>3, <2>5, <2>6
<1> QED
  BY <1>2, <1>4, <1>5 DEF Flags

\* A sample after the first adds no more than was transferred and not counted yet:
\* after a restart of Telemt that it sees, after one that it takes for none, and
\* for a client that was missing from the sample before.
LEMMA SampleWithin ==
  ASSUME UsageTypeOK, MapsOK, NEW from \in Marks, SamplesCovered(from), agent.primed = "yes",
         NEW restarted \in BOOLEAN, UptimeSays(restarted), NEW k \in Keys,
         totals[k].set = "no" => (Counted = 0 /\ \A x \in Keys : totals[x].set = "no")
  PROVE  from[agent.boot] + (Counted + SampleDelta(restarted, k)) <= real
<1> DEFINE f == from[agent.boot]  d == SampleDelta(restarted, k)  c == Counted  v == last[k].val
<1>1. f \in Nat /\ c \in Nat /\ real \in Nat /\ counter \in Nat
  <2>1. agent.boot \in Nat \ {0} /\ Counted \in Nat /\ real \in Nat /\ counter \in Nat
    BY UsageFacts
  <2>2. from \in [1 .. agent.boot -> 0 .. real] /\ agent.boot \in 1 .. agent.boot
    BY <2>1 DEF Marks
  <2>3. f \in 0 .. real
    BY <2>2
  <2> QED
    BY <2>1, <2>3
<1>2. v \in Nat /\ last[k].set \in Flags /\ totals[k].set \in Flags /\ rewound \in Flags
  BY UsageFacts DEF Entries, UsageTypeOK
<1>3. /\ f + c <= real
      /\ rewound = "yes" => f + c + counter <= real
      /\ rewound = "no" /\ last[k].set = "yes" => v <= counter /\ f + c + (counter - v) <= real
      /\ (\A x \in Keys : totals[x].set = "no") => f + counter <= real
  BY DEF SamplesCovered
<1>4. restarted => rewound = "yes"
  BY DEF UptimeSays
<1>5. last[k].set = "no" => v = 0
  BY DEF MapsOK
<1>6. d = IF restarted THEN counter
          ELSE IF totals[k].set = "yes" /\ last[k].set = "no" THEN 0
          ELSE IF counter >= v THEN counter - v ELSE counter
  BY <1>2 DEF SampleDelta, Flags
<1> SUFFICES f + (c + d) <= real
  OBVIOUS
<1> HIDE DEF f, d, c, v
<1>7. CASE restarted
  BY <1>1, <1>3, <1>4, <1>6, <1>7
<1>8. CASE ~restarted /\ totals[k].set = "yes" /\ last[k].set = "no"
  BY <1>1, <1>3, <1>6, <1>8
<1>9. CASE ~restarted /\ last[k].set = "yes"
  <2>1. CASE rewound = "yes"
    <3>1. d \in Nat /\ d <= counter
      BY <1>1, <1>2, <1>6, <1>9
    <3> QED
      BY <1>1, <1>3, <2>1, <3>1
  <2>2. CASE rewound = "no"
    <3>1. v <= counter /\ f + c + (counter - v) <= real /\ d = counter - v
      BY <1>1, <1>2, <1>3, <1>6, <1>9, <2>2
    <3> QED
      BY <1>1, <1>2, <3>1
  <2> QED
    BY <1>2, <2>1, <2>2 DEF Flags
<1>10. CASE ~restarted /\ totals[k].set = "no" /\ last[k].set = "no"
  <2>1. c = 0 /\ f + counter <= real
    BY <1>3, <1>10 DEF c
  <2>2. d = counter
    BY <1>1, <1>5, <1>6, <1>10
  <2> QED
    BY <1>1, <2>1, <2>2
<1> QED
  BY <1>2, <1>7, <1>8, <1>9, <1>10 DEF Flags

\* A sample keeps the cover.  The first one of a process moves the mark of the
\* process to the bytes transferred by now: it begins to count here.
LEMMA SampleCover ==
  ASSUME UsageTypeOK, UsageTypeOK', MapsOK, OneKey, StreamsOK, NEW from \in Marks, Covered(from),
         NEW restarted \in BOOLEAN, NEW active \in BOOLEAN, SampleClient(restarted, active),
         ~KeyChanges(TrackingKey)
  PROVE  /\ Before(Now, Now') /\ (\E g \in Marks : Covered(g))'
         /\ \/ inbox' = inbox
            \/ Now' \in Reports /\ inbox' = [inbox EXCEPT ![stream] = DropOldest(@, Now')]
<1> DEFINE boot == agent.boot  k == TrackingKey  d == SampleDelta(restarted, k)  c == Counted
           c2 == Counted'
<1>0. /\ boot \in Nat \ {0} /\ c \in Nat /\ real \in Nat /\ counter \in Nat /\ d \in Nat
      /\ k \in Keys /\ agent.primed \in Flags
  BY UsageFacts, SampleNumbers
<1>1. /\ c = totals[k].val /\ c2 = c + d
      /\ totals[k].set = "no" => \A x \in Keys : totals[x].set = "no"
  BY SampleCounts
<1>2. /\ agent' = [boot |-> agent.boot, primed |-> "yes", known |-> agent.known]
      /\ totals' = [totals EXCEPT ![k] = Set(c + d)]
      /\ last' = [x \in Keys |-> IF x = k THEN Set(counter) ELSE Unset]
      /\ rewound' = "no" /\ UptimeSays(restarted) /\ stream > 0
      /\ \/ inbox' = inbox
         \/ inbox' = [inbox EXCEPT ![stream] = DropOldest(@, [boot |-> agent.boot, total |-> c + d])]
      /\ UNCHANGED <<real, counter, stream, opened, newest, mirror, usageRow, upsets>>
  BY <1>1 DEF SampleClient, panelState
<1>3. agent'.boot = boot /\ agent'.primed = "yes"
  BY <1>2
<1>4. Now' = [boot |-> agent.boot, total |-> c + d] /\ Now' \in Reports
  BY <1>0, <1>1, <1>3 DEF Now, Reports
<1>5. inbox' = inbox \/ inbox' = [inbox EXCEPT ![stream] = DropOldest(@, Now')]
  BY <1>2, <1>4
<1>6. Before(Now, Now')
  BY <1>0, <1>4 DEF Before, Now
<1>7. \A s \in 1 .. MaxStreams : \A i \in 1 .. Len(inbox'[s]) :
        \/ inbox'[s][i] = Now'
        \/ \E j \in 1 .. Len(inbox[s]) : inbox'[s][i] = inbox[s][j]
  <2>1. CASE inbox' = inbox
    BY <2>1
  <2>2. CASE inbox' = [inbox EXCEPT ![stream] = DropOldest(@, Now')]
    <3> SUFFICES ASSUME NEW s \in 1 .. MaxStreams, NEW i \in 1 .. Len(inbox'[s])
                 PROVE  \/ inbox'[s][i] = Now'
                        \/ \E j \in 1 .. Len(inbox[s]) : inbox'[s][i] = inbox[s][j]
      OBVIOUS
    <3>0. stream \in 1 .. MaxStreams
      BY <1>2, UsageNumbers DEF UsageTypeOK
    <3>1. inbox'[stream] = DropOldest(inbox[stream], Now')
          /\ \A t \in 1 .. MaxStreams : t # stream => inbox'[t] = inbox[t]
      BY <1>4, <2>2, <3>0, InboxAdds
    <3>2. CASE s # stream
      BY <3>1, <3>2
    <3>3. CASE s = stream
      <4> DEFINE q == inbox[stream]  u == DropOldest(q, Now')
      <4>1. q \in Seq(Reports) /\ Len(q) <= QueueCap
        BY <3>0, InboxFacts
      <4>2. \E e \in {0, 1} : \A j \in 1 .. Len(u) :
              IF j = Len(u) THEN u[j] = Now' ELSE j + e \in 1 .. Len(q) /\ u[j] = q[j + e]
        BY <1>4, <4>1, DropOldestFacts
      <4>3. inbox'[s] = u /\ inbox[s] = q
        BY <3>1, <3>3
      <4> HIDE DEF q, u
      <4> QED
        BY <4>2, <4>3
    <3> QED
      BY <3>2, <3>3
  <2> QED
    BY <1>5, <2>1, <2>2
<1>8. from \in [1 .. boot -> 0 .. real] /\ \A b \in 1 .. boot : from[b] \in Nat /\ from[b] <= real
  BY <1>0 DEF Marks
<1>9. Climbs(from, boot) /\ SamplesCovered(from)
  BY DEF Covered
<1>10. \A x \in Keys : last'[x].set = "yes" => x = k /\ last'[x].val = counter
  BY <1>2 DEF Unset, Set
<1>11. totals'[k].set = "yes"
  BY <1>0, <1>2 DEF UsageTypeOK, Set
<1>12. ASSUME NEW g, g[boot] \in Nat, g[boot] + (c + d) <= real
       PROVE  SamplesCovered(g)'
  <2> DEFINE f == g[agent.boot]'
  <2>1. f = g[boot]
    BY <1>3
  <2>2. f \in Nat /\ f + c2 <= real /\ c2 \in Nat
    BY <1>0, <1>1, <1>12, <2>1
  <2>a. f + Counted' <= real'
    BY <1>2, <2>2
  <2>3. ASSUME NEW x \in Keys, last'[x].set = "yes"
        PROVE  last'[x].val <= counter' /\ f + Counted' + (counter' - last'[x].val) <= real'
    <3> HIDE DEF f
    <3>1. last'[x].val = counter /\ counter' = counter /\ real' = real
      BY <1>2, <1>10, <2>3
    <3>2. counter - counter = 0 /\ f + c2 + 0 = f + c2 /\ counter <= counter
      BY <1>0, <2>2
    <3> QED
      BY <2>2, <3>1, <3>2
  <2>4. rewound' = "no" /\ ~(\A x \in Keys : totals'[x].set = "no")
    BY <1>0, <1>2, <1>11
  <2> QED
    BY <2>a, <2>3, <2>4 DEF SamplesCovered
<1>13. CASE agent.primed = "yes"
  <2>1. totals[k].set = "no" => (Counted = 0 /\ \A x \in Keys : totals[x].set = "no")
    BY <1>0, <1>1 DEF MapsOK
  <2>2. from[boot] + (c + d) <= real
    BY <1>0, <1>2, <1>9, <1>13, <2>1, SampleWithin
  <2>3. from[boot] \in Nat
    BY <1>0, <1>8
  <2>4. SamplesCovered(from)'
    BY <1>12, <2>2, <2>3
  <2>5. from \in Marks' /\ Climbs(from, agent'.boot) /\ agent.boot <= agent'.boot
    BY <1>0, <1>2, <1>3, <1>8, <1>9 DEF Marks
  <2>6. \A b \in 1 .. agent.boot :
          /\ from[b] <= from[b]
          /\ Room(from, agent.boot, Counted, b) <= Room(from, agent'.boot, Counted', b)
    <3> SUFFICES ASSUME NEW b \in 1 .. boot
                 PROVE  from[b] <= from[b] /\ Room(from, boot, c, b) <= Room(from, boot, c + d, b)
      BY <1>1, <1>3
    <3> HIDE DEF boot, c, d
    <3> QED
      BY <1>0, <1>8 DEF Room
  <2>7. mirror' = mirror /\ usageRow' = usageRow
    BY <1>2
  <2>8. (\E g \in Marks : Covered(g))'
    BY <1>7, <2>4, <2>5, <2>6, <2>7, CoverGrows
  <2> QED
    BY <1>4, <1>5, <1>6, <2>8
<1>14. CASE agent.primed = "no"
  <2>1. \A x \in Keys : totals[x].set = "no" /\ totals[x].val = 0
    BY <1>14 DEF MapsOK
  <2>2. c = 0 /\ d = 0
    BY <1>0, <1>1, <1>14, <2>1 DEF SampleDelta
  <2>3. PICK g : g = [b \in 1 .. boot |-> IF b = boot THEN real ELSE from[b]]
    OBVIOUS
  <2>4. g[boot] = real /\ \A b \in 1 .. boot : b # boot => g[b] = from[b]
    BY <1>0, <2>3
  <2>5. SamplesCovered(g)'
    BY <1>0, <1>12, <2>2, <2>4
  <2>6. g \in [1 .. boot -> 0 .. real]
    BY <1>0, <1>8, <2>3
  <2>7. g \in Marks'
    BY <1>2, <1>3, <2>6 DEF Marks
  <2>8. Climbs(g, agent'.boot) /\ agent.boot <= agent'.boot
    <3> SUFFICES ASSUME NEW b \in 1 .. boot, NEW e \in 1 .. boot, b <= e
                 PROVE  g[b] <= g[e]
      BY <1>0, <1>3 DEF Climbs
    <3>1. from[b] <= from[e] /\ from[b] \in Nat /\ from[b] <= real /\ from[e] \in Nat
      BY <1>8, <1>9 DEF Climbs
    <3>2. (b = boot => e = boot) /\ g[b] \in {from[b], real} /\ g[e] \in {from[e], real}
          /\ (e = boot => g[e] = real) /\ (b # boot => g[b] = from[b]) /\ (e # boot => g[e] = from[e])
      BY <1>0, <2>4
    <3> QED
      BY <1>0, <3>1, <3>2
  <2>9. \A b \in 1 .. agent.boot :
          /\ from[b] <= g[b]
          /\ Room(from, agent.boot, Counted, b) <= Room(g, agent'.boot, Counted', b)
    <3> SUFFICES ASSUME NEW b \in 1 .. boot
                 PROVE  from[b] <= g[b] /\ Room(from, boot, 0, b) <= Room(g, boot, 0, b)
      BY <1>1, <1>3, <2>2
    <3>1. from[b] <= g[b]
      BY <1>0, <1>8, <2>4
    <3>2. CASE b < boot
      <4>1. b + 1 \in 1 .. boot /\ g[b] = from[b]
        BY <1>0, <2>4, <3>2
      <4>2. from[b + 1] <= g[b + 1] /\ from[b + 1] \in Nat /\ g[b + 1] \in Nat /\ from[b] \in Nat
        BY <1>0, <1>8, <2>4, <4>1
      <4>3. Room(from, boot, 0, b) = from[b + 1] - from[b] /\ Room(g, boot, 0, b) = g[b + 1] - from[b]
        BY <3>2, <4>1 DEF Room
      <4> QED
        BY <3>1, <4>2, <4>3
    <3>3. CASE b = boot
      BY <1>0, <3>1, <3>3 DEF Room
    <3> QED
      BY <1>0, <3>2, <3>3
  <2>10. mirror' = mirror /\ usageRow' = usageRow
    BY <1>2
  <2>11. (\E h \in Marks : Covered(h))'
    BY <1>7, <2>5, <2>7, <2>8, <2>9, <2>10, CoverGrows
  <2> QED
    BY <1>4, <1>5, <1>6, <2>11
<1> QED
  BY <1>0, <1>13, <1>14 DEF Flags

---------------------------------------------------------------------------
(* The invariant.                                                          *)

\* A new process of the agent begins to count where its predecessor stopped.
LEMMA RebootCover ==
  ASSUME UsageTypeOK, UsageTypeOK', NEW from \in Marks, Covered(from), AgentReboots
  PROVE  Before(Now, Now') /\ OneKey' /\ InboxShrinks /\ (\E g \in Marks : Covered(g))'
<1> DEFINE boot == agent.boot  c == Counted
<1>0. boot \in Nat \ {0} /\ c \in Nat /\ real \in Nat /\ "id" \in Keys /\ "name" \in Keys
  BY UsageFacts DEF Keys
<1>1. /\ agent'.boot = boot + 1 /\ agent'.primed = "no"
      /\ totals' = [k \in Keys |-> Unset]
      /\ UNCHANGED <<real, counter, inbox, mirror, usageRow>>
  BY DEF AgentReboots, panelState
<1>2. totals'["id"].set = "no" /\ totals'["name"].val = 0
  BY <1>0, <1>1 DEF Unset
<1>3. Counted' = 0 /\ OneKey'
  BY <1>2 DEF Counted, OneKey
<1>4. Before(Now, Now')
  BY <1>0, <1>1 DEF Before, Now
<1>5. from \in [1 .. boot -> 0 .. real] /\ \A b \in 1 .. boot : from[b] \in Nat /\ from[b] <= real
  BY <1>0 DEF Marks
<1>6. from[boot] + c <= real /\ Climbs(from, boot)
  BY DEF Covered, SamplesCovered
<1>7. PICK g : g = [b \in 1 .. boot + 1 |-> IF b = boot + 1 THEN real ELSE from[b]]
  OBVIOUS
<1>8. g[boot + 1] = real /\ \A b \in 1 .. boot : g[b] = from[b]
  BY <1>0, <1>7
<1>9. g \in [1 .. boot + 1 -> 0 .. real]
  BY <1>0, <1>5, <1>7
<1>10. g \in Marks' /\ agent.boot <= agent'.boot
  BY <1>0, <1>1, <1>9 DEF Marks
<1>11. Climbs(g, agent'.boot)
  <2> SUFFICES ASSUME NEW b \in 1 .. boot + 1, NEW e \in 1 .. boot + 1, b <= e
               PROVE  g[b] <= g[e]
    BY <1>1 DEF Climbs
  <2>1. CASE e = boot + 1
    <3>1. g[e] = real /\ g[b] \in 0 .. real
      BY <1>8, <1>9, <2>1
    <3> QED
      BY <1>0, <3>1
  <2>2. CASE e # boot + 1
    <3>1. b \in 1 .. boot /\ e \in 1 .. boot
      BY <1>0, <2>2
    <3> QED
      BY <1>6, <1>8, <3>1 DEF Climbs
  <2> QED
    BY <2>1, <2>2
<1>12. SamplesCovered(g)'
  <2>1. g[agent'.boot] = real /\ Counted' = 0 /\ real' = real /\ real + 0 <= real
    BY <1>0, <1>1, <1>3, <1>8
  <2>2. g[agent'.boot] + Counted' <= real'
    BY <2>1
  <2> QED
    BY <1>1, <2>2 DEF SamplesCovered
<1>13. \A b \in 1 .. agent.boot :
         /\ from[b] <= g[b]
         /\ Room(from, agent.boot, Counted, b) <= Room(g, agent'.boot, Counted', b)
  <2> SUFFICES ASSUME NEW b \in 1 .. boot
               PROVE  from[b] <= g[b] /\ Room(from, boot, c, b) <= Room(g, boot + 1, 0, b)
    BY <1>1, <1>3
  <2>1. from[b] <= g[b] /\ g[b] = from[b] /\ from[b] \in Nat
    BY <1>5, <1>8
  <2>2. CASE b < boot
    <3>1. b + 1 \in 1 .. boot /\ b < boot + 1
      BY <1>0, <2>2
    <3>2. g[b + 1] = from[b + 1] /\ from[b + 1] \in Nat
      BY <1>5, <1>8, <3>1
    <3>3. /\ Room(from, boot, c, b) = from[b + 1] - from[b]
          /\ Room(g, boot + 1, 0, b) = from[b + 1] - from[b]
      BY <2>1, <2>2, <3>1, <3>2 DEF Room
    <3> QED
      BY <2>1, <3>2, <3>3
  <2>3. CASE b = boot
    <3>1. Room(from, boot, c, b) = c /\ Room(g, boot + 1, 0, b) = real - from[boot]
      BY <1>0, <1>8, <2>1, <2>3 DEF Room
    <3>2. c <= real - from[boot]
      <4> HIDE DEF boot, c
      <4> QED
        BY <1>0, <1>6, <2>1, <2>3
    <3> QED
      BY <2>1, <3>1, <3>2
  <2> QED
    BY <1>0, <2>2, <2>3
<1>14. \A s \in 1 .. MaxStreams : \A i \in 1 .. Len(inbox'[s]) :
         \E j \in 1 .. Len(inbox[s]) : inbox'[s][i] = inbox[s][j]
  BY <1>1
<1>15. mirror' = mirror /\ usageRow' = usageRow
  BY <1>1
<1>16. (\E h \in Marks : Covered(h))'
  BY <1>10, <1>11, <1>12, <1>13, <1>14, <1>15, CoverGrows
<1> QED
  BY <1>1, <1>3, <1>4, <1>16, SameShrinks

\* Traffic, restarts of Telemt, samples that leave the client out and client jobs
\* take nothing from what is covered.
LEMMA QuietCover ==
  ASSUME UsageTypeOK, UsageTypeOK', OneKey, NEW from \in Marks, Covered(from),
         \/ Traffic \/ TelemtRestarts \/ ClientJobRuns
         \/ SampleOmits /\ agent.primed = "yes"
  PROVE  /\ UNCHANGED <<inbox, mirror, usageRow, newest, Counted>> /\ agent'.boot = agent.boot
         /\ OneKey' /\ (\E g \in Marks : Covered(g))'
<1> DEFINE boot == agent.boot  f == from[boot]  c == Counted
<1>0. /\ boot \in Nat \ {0} /\ c \in Nat /\ real \in Nat /\ counter \in Nat
      /\ \A k \in Keys : last[k].val \in Nat
  BY UsageFacts DEF Entries
<1>1. f \in Nat
  <2>1. from \in [1 .. boot -> 0 .. real] /\ boot \in 1 .. boot
    BY <1>0 DEF Marks
  <2>2. from[boot] \in 0 .. real
    BY <2>1
  <2> QED
    BY <1>0, <2>2
<1>2. SamplesCovered(from)
  BY DEF Covered
<1>3. /\ f + c <= real
      /\ agent.primed = "yes" =>
           /\ rewound = "yes" => f + c + counter <= real
           /\ \A k \in Keys : rewound = "no" /\ last[k].set = "yes" =>
                last[k].val <= counter /\ f + c + (counter - last[k].val) <= real
           /\ (\A k \in Keys : totals[k].set = "no") => f + counter <= real
  BY <1>2 DEF SamplesCovered
<1>4. /\ UNCHANGED <<inbox, mirror, usageRow, newest, totals>> /\ agent'.boot = agent.boot
      /\ real' \in {real, real + 1}
  BY <1>0 DEF Traffic, TelemtRestarts, ClientJobRuns, SampleOmits, agentState, panelState
<1>5. Counted' = Counted
  BY <1>4 DEF Counted
<1>6. OneKey'
  <2>1. agent'.known = agent.known \/ agent'.known = "yes"
    BY DEF Traffic, TelemtRestarts, ClientJobRuns, SampleOmits, agentState
  <2> QED
    BY <1>4, <2>1 DEF OneKey
<1>7. SamplesCovered(from)'
  <2> SUFFICES /\ f + c <= real'
               /\ agent'.primed = "yes" =>
                    /\ rewound' = "yes" => f + c + counter' <= real'
                    /\ \A k \in Keys : rewound' = "no" /\ last'[k].set = "yes" =>
                         last'[k].val <= counter' /\ f + c + (counter' - last'[k].val) <= real'
                    /\ (\A k \in Keys : totals[k].set = "no") => f + counter' <= real'
    BY <1>4, <1>5 DEF SamplesCovered
  <2> HIDE DEF f, c
  <2>1. CASE Traffic
    <3>1. real' = real + 1 /\ counter' = counter + 1 /\ UNCHANGED <<rewound, agent, last, totals>>
      BY <2>1 DEF Traffic, agentState
    <3> QED
      BY <1>0, <1>1, <1>3, <3>1
  <2>2. CASE TelemtRestarts
    <3>1. real' = real /\ counter' = 0 /\ rewound' = "yes" /\ UNCHANGED <<agent, last, totals>>
      BY <2>2 DEF TelemtRestarts, agentState
    <3> QED
      BY <1>0, <1>1, <1>3, <3>1
  <2>3. CASE ClientJobRuns
    <3>1. UNCHANGED <<real, counter, rewound, last>> /\ agent'.primed = agent.primed
      BY <2>3 DEF ClientJobRuns
    <3> QED
      BY <1>3, <3>1
  <2>4. CASE SampleOmits /\ agent.primed = "yes"
    <3>1. /\ UNCHANGED <<real, counter, totals>> /\ rewound' = "no"
          /\ \A k \in Keys : last'[k].set = "no"
      BY <2>4 DEF SampleOmits, Unset
    <3> QED
      BY <1>3, <2>4, <3>1
  <2> QED
    BY <2>1, <2>2, <2>3, <2>4
<1>8. real <= real'
  BY <1>0, <1>4
<1>9. InboxShrinks
  BY <1>4, SameShrinks
<1>10. (\E g \in Marks : Covered(g))'
  BY <1>4, <1>5, <1>7, <1>8, <1>9, CoverKept
<1> QED
  BY <1>4, <1>5, <1>6, <1>10

\* Initially one process runs, which has counted nothing; what an adopted client
\* had transferred was there before it.
LEMMA UsageInvInit == UsageInit => UsageInv
<1> SUFFICES ASSUME UsageInit PROVE UsageInv
  OBVIOUS
<1>0. "id" \in Keys /\ "name" \in Keys
  BY DEF Keys
<1>1. UsageTypeOK
  BY UsageTypeInit
<1>2. \A k \in Keys : totals[k] = Unset /\ last[k] = Unset
  BY DEF UsageInit
<1>3. MapsOK /\ OneKey
  BY <1>0, <1>2 DEF MapsOK, OneKey, Unset
<1>4. \A s \in 1 .. MaxStreams : inbox[s] = <<>>
  BY DEF UsageInit
<1>5. StreamsOK
  BY <1>4 DEF UsageInit, StreamsOK
<1>6. Counted = 0 /\ agent.boot = 1 /\ counter = real /\ rewound = "no" /\ usageRow = mirror
  BY <1>0, <1>2 DEF Counted, Unset, UsageInit
<1>7. ReportsOrdered /\ ReportsNotAhead /\ PanelBehind
  BY <1>4 DEF ReportsOrdered, ReportsNotAhead, PanelBehind
<1>8. mirror.boot = 0 /\ mirror.last = 0 /\ mirror.total = real
  BY DEF UsageInit, UsageEntry, NoEntry
<1>9. Ordered
  BY <1>6, <1>7, <1>8 DEF Ordered, EntriesNotAhead, Before, Seen, Now
<1>10. real \in Nat
  BY <1>1, UsageFacts
<1>11. \E from \in Marks : Covered(from)
  <2> DEFINE g == [b \in 1 .. 1 |-> real]
  <2>0. g[1] = real /\ \A b \in 1 .. 1 : g[b] = real
    OBVIOUS
  <2>1. g \in Marks
    BY <1>6, <1>10 DEF Marks
  <2> HIDE DEF g
  <2>2. Climbs(g, agent.boot)
    BY <1>6, <1>10, <2>0 DEF Climbs
  <2>3. ReportsCovered(g)
    BY <1>4 DEF ReportsCovered
  <2>4. EntriesCovered(g)
    <3>1. mirror.set = "no" => mirror = NoEntry
      BY DEF UsageInit, UsageEntry
    <3>2. mirror.total <= g[1]
      BY <1>8, <1>10, <2>0
    <3> QED
      BY <1>6, <1>8, <3>1, <3>2 DEF EntriesCovered, EntryFits
  <2>5. SamplesCovered(g)
    <3>1. g[agent.boot] = real
      BY <1>6, <2>0
    <3>2. agent.primed = "yes" => real = 0 /\ counter = 0
      BY <1>6 DEF UsageInit
    <3>3. \A k \in Keys : last[k].set # "yes"
      BY <1>2 DEF Unset
    <3> QED
      BY <1>6, <1>10, <3>1, <3>2, <3>3 DEF SamplesCovered
  <2> QED
    BY <2>1, <2>2, <2>3, <2>4, <2>5 DEF Covered
<1> QED
  BY <1>1, <1>3, <1>5, <1>9, <1>11 DEF UsageInv

\* No event that may count twice is ever forgotten.
LEMMA DoubtStays ==
  ASSUME UsageTypeOK, [UsageNext]_usageVars, doubted' = "no"
  PROVE  doubted = "no"
<1>1. doubted \in Flags
  BY DEF UsageTypeOK
<1>2. doubted' \in {"yes", doubted}
  BY DEF UsageNext, Traffic, TelemtRestarts, SampleClient, SampleOmits, ClientJobRuns, AgentReboots,
         StreamOpens, ReportLost, ApplyUsage, PanelReboots, usageVars
<1> QED
  BY <1>1, <1>2

\* Every step keeps the invariant of the usage counters.
LEMMA UsageInvStep == UsageInv /\ [UsageNext]_usageVars => UsageInv'
<1> SUFFICES ASSUME UsageInv, [UsageNext]_usageVars PROVE UsageInv'
  OBVIOUS
<1>1. UsageTypeOK /\ MapsOK /\ StreamsOK /\ UsageTypeOK'
  BY UsageTypeStep DEF UsageInv
<1>2. MapsOK' /\ StreamsOK'
  BY <1>1, MapsStep, StreamsStep
<1> DEFINE Clear == OneKey /\ Ordered /\ \E g \in Marks : Covered(g)
<1> SUFFICES ASSUME doubted' = "no" PROVE Clear'
  BY <1>1, <1>2 DEF UsageInv
<1>3. doubted = "no"
  BY <1>1, DoubtStays
<1>4. Clear
  BY <1>3 DEF UsageInv
<1>5. PICK from \in Marks : Covered(from)
  BY <1>4
<1>6. agent.boot \in Nat /\ Counted \in Nat
  BY <1>1, UsageFacts
<1>7. ASSUME UNCHANGED <<agent, last, totals, counter, real, rewound, mirror, usageRow, newest>>,
             InboxShrinks
      PROVE  Clear'
  <2>1. Counted' = Counted /\ Now' = Now /\ Before(Now, Now')
    BY <1>6, <1>7 DEF Counted, Now, Before
  <2>2. OneKey'
    BY <1>4, <1>7 DEF OneKey
  <2>3. Ordered'
    BY <1>1, <1>4, <1>7, <2>1, OrderKept
  <2>4. SamplesCovered(from)'
    BY <1>5, <1>7, <2>1 DEF Covered, SamplesCovered
  <2>5. real <= real'
    BY <1>1, <1>7, UsageFacts
  <2>6. (\E g \in Marks : Covered(g))'
    BY <1>1, <1>5, <1>7, <2>1, <2>4, <2>5, CoverKept
  <2> QED
    BY <2>2, <2>3, <2>6
<1>8. CASE Traffic \/ TelemtRestarts \/ ClientJobRuns \/ SampleOmits
  <2>1. \/ Traffic \/ TelemtRestarts \/ ClientJobRuns
        \/ SampleOmits /\ agent.primed = "yes"
    <3>1. agent.primed \in Flags
      BY <1>1, UsageFacts
    <3>2. SampleOmits => agent.primed # "no"
      BY DEF SampleOmits
    <3> QED
      BY <1>8, <3>1, <3>2 DEF Flags
  <2>2. /\ UNCHANGED <<inbox, mirror, usageRow, newest, Counted>> /\ agent'.boot = agent.boot
        /\ OneKey' /\ (\E g \in Marks : Covered(g))'
    BY <1>1, <1>4, <1>5, <2>1, QuietCover
  <2>3. Before(Now, Now')
    BY <1>6, <2>2 DEF Now, Before
  <2>4. Ordered'
    BY <1>1, <1>4, <2>2, <2>3, SameShrinks, OrderKept
  <2> QED
    BY <2>2, <2>4
<1>9. ASSUME NEW restarted \in BOOLEAN, NEW active \in BOOLEAN, SampleClient(restarted, active)
      PROVE  Clear'
  <2>1. ~KeyChanges(TrackingKey)
    BY <1>9 DEF SampleClient
  <2>2. /\ Before(Now, Now') /\ (\E g \in Marks : Covered(g))'
        /\ \/ inbox' = inbox
           \/ Now' \in Reports /\ inbox' = [inbox EXCEPT ![stream] = DropOldest(@, Now')]
    BY <1>1, <1>4, <1>5, <1>9, <2>1, SampleCover
  <2>3. OneKey'
    BY <1>1, <1>4, <1>9, <2>1, SampleCounts
  <2>4. stream > 0 /\ mirror' = mirror /\ usageRow' = usageRow /\ newest' = newest
    BY <1>9 DEF SampleClient, panelState
  <2>5. CASE inbox' = inbox
    BY <1>1, <1>4, <2>2, <2>3, <2>4, <2>5, SameShrinks, OrderKept
  <2>6. CASE Now' \in Reports /\ inbox' = [inbox EXCEPT ![stream] = DropOldest(@, Now')]
    <3>1. PICK r \in Reports : r = Now'
      BY <2>6
    <3>2. inbox' = [inbox EXCEPT ![stream] = DropOldest(@, r)]
      BY <2>6, <3>1
    <3>3. Ordered'
      BY <1>1, <1>4, <2>2, <2>4, <3>1, <3>2, AddedOrder
    <3> QED
      BY <2>2, <2>3, <3>3
  <2> QED
    BY <2>2, <2>5, <2>6
<1>10. CASE AgentReboots
  <2>1. Before(Now, Now') /\ OneKey' /\ InboxShrinks /\ (\E g \in Marks : Covered(g))'
    BY <1>1, <1>5, <1>10, RebootCover
  <2>2. mirror' = mirror /\ usageRow' = usageRow /\ newest' = newest
    BY <1>10 DEF AgentReboots, panelState
  <2> QED
    BY <1>1, <1>4, <2>1, <2>2, OrderKept
<1>11. CASE StreamOpens
  <2>1. /\ UNCHANGED <<agent, last, totals, counter, real, rewound, mirror, usageRow, newest>>
        /\ inbox' = inbox
    BY <1>11 DEF StreamOpens, agentState, panelState
  <2> QED
    BY <1>1, <1>7, <2>1, SameShrinks
<1>12. ASSUME NEW s \in 1 .. MaxStreams, ReportLost(s)
       PROVE  Clear'
  <2>1. /\ UNCHANGED <<agent, last, totals, counter, real, rewound, mirror, usageRow, newest>>
        /\ inbox[s] # <<>> /\ inbox' = [inbox EXCEPT ![s] = Tail(@)]
    BY <1>12 DEF ReportLost, agentState, panelState
  <2> QED
    BY <1>1, <1>7, <2>1, TailShrinks
<1>13. ASSUME NEW s \in 1 .. MaxStreams, NEW stored \in BOOLEAN, ApplyUsage(s, stored)
       PROVE  Clear'
  <2> DEFINE r == Head(inbox[s])
  <2>1. /\ inbox[s] # <<>> /\ inbox' = [inbox EXCEPT ![s] = Tail(@)]
        /\ mirror' = Merged(r) /\ usageRow' \in {usageRow, mirror'}
        /\ newest' = (IF s > newest THEN s ELSE newest) /\ ~(s < newest)
        /\ UNCHANGED <<real, counter, rewound, agent, last, totals>>
    BY <1>13 DEF ApplyUsage, agentState
  <2>2. s >= newest /\ newest' = s
    BY <1>1, <2>1, UsageNumbers, UsageFacts
  <2>3. Ordered'
    BY <1>1, <1>4, <2>1, <2>2, AppliedOrder
  <2>4. OneKey' /\ Counted' = Counted /\ agent' = agent /\ real' = real
    BY <1>4, <2>1 DEF OneKey, Counted
  <2>5. r \in Reports /\ r = inbox[s][1] /\ 1 \in 1 .. Len(inbox[s])
    BY <1>1, <2>1, TailFacts, InboxFacts
  <2>6. ReportFits(from, agent.boot, Counted, r) /\ Before(Seen(mirror), r)
    BY <1>4, <1>5, <2>2, <2>5 DEF Covered, ReportsCovered, Ordered, PanelBehind
  <2>7. EntryFits(from, agent.boot, Counted, Merged(r))
    BY <1>1, <1>5, <2>5, <2>6, MergedFits
  <2> HIDE DEF r
  <2>8. EntriesCovered(from)'
    <3>1. EntryFits(from, agent.boot, Counted, mirror') /\ EntryFits(from, agent.boot, Counted, usageRow')
      BY <1>5, <2>1, <2>7 DEF Covered, EntriesCovered
    <3> QED
      BY <2>4, <3>1 DEF EntriesCovered, EntryFits, Room
  <2>9. ReportsCovered(from)'
    <3> SUFFICES ASSUME NEW t \in 1 .. MaxStreams, NEW i \in 1 .. Len(inbox'[t])
                 PROVE  ReportFits(from, agent.boot, Counted, inbox'[t][i])
      BY <2>4 DEF ReportsCovered, ReportFits, Room
    <3>1. InboxShrinks
      BY <1>1, <2>1, TailShrinks
    <3>2. PICK j \in 1 .. Len(inbox[t]) : inbox'[t][i] = inbox[t][j]
      BY <3>1, ShrunkContents
    <3> QED
      BY <1>5, <3>2 DEF Covered, ReportsCovered
  <2>10. Climbs(from, agent.boot)' /\ SamplesCovered(from)'
    BY <1>5, <2>1, <2>4 DEF Covered, Climbs, SamplesCovered
  <2>11. from \in Marks'
    BY <2>4 DEF Marks
  <2>12. (\E g \in Marks : Covered(g))'
    BY <2>8, <2>9, <2>10, <2>11 DEF Covered
  <2> QED
    BY <2>3, <2>4, <2>12
<1>14. CASE PanelReboots
  <2>1. /\ UNCHANGED <<real, counter, rewound, agent, last, totals, usageRow>> /\ mirror' = usageRow
        /\ \A s \in 1 .. MaxStreams : inbox'[s] = <<>>
    BY <1>14 DEF PanelReboots, agentState
  <2>2. Counted' = Counted /\ OneKey'
    BY <1>4, <2>1 DEF Counted, OneKey
  <2>3. Ordered'
    BY <1>4, <1>14, RebootedOrder
  <2>4. ReportsCovered(from)'
    BY <2>1 DEF ReportsCovered
  <2>5. EntriesCovered(from)'
    BY <1>5, <2>1, <2>2 DEF Covered, EntriesCovered, EntryFits, Room
  <2>6. Climbs(from, agent.boot)' /\ SamplesCovered(from)' /\ from \in Marks'
    BY <1>5, <2>1, <2>2 DEF Covered, Climbs, SamplesCovered, Marks
  <2>7. (\E g \in Marks : Covered(g))'
    BY <2>4, <2>5, <2>6 DEF Covered
  <2> QED
    BY <2>2, <2>3, <2>7
<1>15. CASE UNCHANGED usageVars
  <2>1. /\ UNCHANGED <<agent, last, totals, counter, real, rewound, mirror, usageRow, newest>>
        /\ inbox' = inbox
    BY <1>15 DEF usageVars, agentState, panelState
  <2> QED
    BY <1>1, <1>7, <2>1, SameShrinks
<1> QED
  BY <1>8, <1>9, <1>10, <1>11, <1>12, <1>13, <1>14, <1>15 DEF UsageNext

\* So it always holds.
LEMMA UsageInvAlways == UsageSpec => []UsageInv
BY UsageInvInit, UsageInvStep, PTL DEF UsageSpec

\* The types of the accounting hold for every bound; in particular the snapshot
\* queue of a stream never exceeds regularSnapshotQueueCapacity.
THEOREM UsageTypeCorrect == UsageSpec => []UsageTypeOK
<1>1. UsageInv => UsageTypeOK
  BY DEF UsageInv
<1> QED
  BY <1>1, UsageInvAlways, PTL

\* ChargedOnce for any amount of traffic, any number of streams and faults and any
\* queue capacity: unless one of the three doubtful events has happened, neither the
\* mirror nor client_usage charges more bytes than the client has transferred.
THEOREM UsageChargedOnce == UsageSpec => []ChargedOnce
<1>1. ASSUME UsageInv PROVE ChargedOnce
  <2> SUFFICES ASSUME doubted = "no" PROVE mirror.total <= real /\ usageRow.total <= real
    BY DEF ChargedOnce
  <2>0. UsageTypeOK
    BY <1>1 DEF UsageInv
  <2>1. PICK from \in Marks : Covered(from)
    BY <1>1 DEF UsageInv
  <2>2. agent.boot \in Nat \ {0} /\ Counted \in Nat /\ real \in Nat
    BY <2>0, UsageFacts
  <2>3. from \in [1 .. agent.boot -> Nat]
    <3>1. from \in [1 .. agent.boot -> 0 .. real] /\ 0 .. real \subseteq Nat
      BY <2>2 DEF Marks
    <3> QED
      BY <3>1
  <2>4. Climbs(from, agent.boot) /\ from[agent.boot] + Counted <= real
        /\ EntryFits(from, agent.boot, Counted, mirror) /\ EntryFits(from, agent.boot, Counted, usageRow)
    BY <2>1 DEF Covered, SamplesCovered, EntriesCovered
  <2>5. mirror \in UsageEntries /\ usageRow \in UsageEntries
    BY <2>0 DEF UsageTypeOK
  <2> QED
    BY <2>2, <2>3, <2>4, <2>5, EntryBound
<1> QED
  BY <1>1, UsageInvAlways, PTL

\* LostReportsCatchUp likewise: once the panel's watermark is the agent's current
\* total, reports that were lost and writes that failed on the way have cost nothing.
THEOREM UsageCatchesUp == UsageSpec => []LostReportsCatchUp
<1>1. ASSUME UsageInv PROVE LostReportsCatchUp
  <2> SUFFICES ASSUME doubted = "no", mirror.boot = agent.boot,
                      mirror.last = totals[TrackingKey].val
               PROVE  mirror.total = mirror.base + totals[TrackingKey].val
    BY DEF LostReportsCatchUp
  <2>1. agent.boot # 0
    BY <1>1, UsageFacts DEF UsageInv
  <2>2. PICK from \in Marks : EntryFits(from, agent.boot, Counted, mirror)
    BY <1>1 DEF UsageInv, Covered, EntriesCovered
  <2> QED
    BY <2>1, <2>2 DEF EntryFits
<1> QED
  BY <1>1, UsageInvAlways, PTL
=============================================================================
