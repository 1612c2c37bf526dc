---------------------------- MODULE StoreProofs -----------------------------
(***************************************************************************)
(* What the panel writes behind its requests: the batch writer, first the  *)
(* streams of BatchWriter, then the audit stream of AuditTrail, and the    *)
(* outbox of Webhooks.  The three parts share no variable.                 *)
(*                                                                         *)
(* BatchWriter: the types, with the bound of the buffers; that an agent    *)
(* which was deregistered stays out of the mirror (GoneInv); and that the  *)
(* operations of one agent reach agent_fallback_state in order (OrderInv). *)
(***************************************************************************)
EXTENDS AuditTrail, BatchWriter, Webhooks, FiniteSetTheorems, WellFoundedInduction, SequenceTheorems, TLAPS

---------------------------------------------------------------------------
(* Induction, and what RemoveMatching leaves.                              *)

\* A set of numbers has a least element.
LEMMA NatMin ==
  ASSUME NEW T, T \subseteq Nat, T # {}
  PROVE  \E x \in T : \A y \in T : x <= y
<1> DEFINE R == {ss \in Nat \X Nat : ss[1] < ss[2]}
<1>1. IsWellFoundedOn(R, Nat)
  BY NatLessThanWellFounded DEF OpToRel
<1>2. \A x, y \in Nat : <<x, y>> \in R <=> x < y
  OBVIOUS
<1> HIDE DEF R
<1>3. PICK x \in T : \A y \in T : <<y, x>> \notin R
  BY <1>1, WFMin
<1>4. \A y \in T : ~(y < x)
  BY <1>2, <1>3
<1> QED
  BY <1>3, <1>4

\* So a set that holds 0 and, with a number, the next one, holds them all.
LEMMA Climb ==
  ASSUME NEW S, 0 \in S, \A k \in Nat : k \in S => k + 1 \in S
  PROVE  Nat \subseteq S
<1> DEFINE T == Nat \ S
<1> SUFFICES ASSUME T # {} PROVE FALSE
  OBVIOUS
<1>1. PICK x \in T : \A y \in T : x <= y
  BY NatMin
<1>2. x # 0 /\ x \in Nat
  OBVIOUS
<1>3. x - 1 \in Nat /\ x - 1 < x /\ x = (x - 1) + 1
  BY <1>2
<1>4. x - 1 \notin T
  BY <1>1, <1>2, <1>3
<1>5. x - 1 \in S
  BY <1>3, <1>4
<1> QED
  BY <1>3, <1>5

\* f is what the loop of RemoveMatching has built after each of m items.
Filters(q, n, m, f) ==
  f = [i \in 0 .. m |-> IF i = 0 THEN <<>>
                        ELSE IF q[i].node = n THEN f[i - 1] ELSE Append(f[i - 1], q[i])]

\* The recursion of Without has a solution.
LEMMA FilterExists ==
  ASSUME NEW q \in Seq(Ops), NEW n
  PROVE  \E f : Filters(q, n, Len(q), f)
<1> DEFINE S == {m \in Nat : \E f : Filters(q, n, m, f)}
<1>1. 0 \in S
  <2>1. Filters(q, n, 0, [i \in 0 .. 0 |-> <<>>])
    BY DEF Filters
  <2> QED
    BY <2>1
<1>2. ASSUME NEW m \in Nat, m \in S PROVE m + 1 \in S
  <2>1. PICK f : Filters(q, n, m, f)
    BY <1>2
  <2> DEFINE last == IF q[m + 1].node = n THEN f[m] ELSE Append(f[m], q[m + 1])
             g == [i \in 0 .. m + 1 |-> IF i = m + 1 THEN last ELSE f[i]]
  <2>2. \A i \in 0 .. m : f[i] = IF i = 0 THEN <<>>
                                 ELSE IF q[i].node = n THEN f[i - 1] ELSE Append(f[i - 1], q[i])
    BY <2>1 DEF Filters
  <2>3. \A i \in 0 .. m : g[i] = f[i]
    OBVIOUS
  <2>4. g[m + 1] = last
    OBVIOUS
  <2>5. ASSUME NEW i \in 0 .. m + 1
        PROVE  g[i] = IF i = 0 THEN <<>>
                      ELSE IF q[i].node = n THEN g[i - 1] ELSE Append(g[i - 1], q[i])
    <3>1. CASE i = m + 1
      <4>1. m \in 0 .. m /\ i - 1 = m /\ i # 0
        BY <3>1
      <4> QED
        BY <2>3, <2>4, <3>1, <4>1
    <3>2. CASE i # m + 1
      <4>1. i \in 0 .. m /\ (i # 0 => i - 1 \in 0 .. m)
        BY <3>2
      <4> HIDE DEF g
      <4> QED
        BY <2>2, <2>3, <4>1
    <3> QED
      BY <3>1, <3>2
  <2>6. Filters(q, n, m + 1, g)
    BY <2>5 DEF Filters
  <2> QED
    BY <2>6
<1> HIDE DEF S
<1>3. Nat \subseteq S
  BY <1>1, <1>2, Climb
<1>4. Len(q) \in S
  BY <1>3
<1> QED
  BY <1>4 DEF S

\* RemoveMatching keeps items of the buffer, none of them of the node, and no more
\* than there were.
LEMMA WithoutFacts ==
  ASSUME NEW q \in Seq(Ops), NEW n
  PROVE  /\ Without(q, n) \in Seq(Ops) /\ Len(Without(q, n)) <= Len(q)
         /\ NodesOf(Without(q, n)) \subseteq NodesOf(q) \ {n}
<1> DEFINE f == CHOOSE f : Filters(q, n, Len(q), f)
<1>1. Filters(q, n, Len(q), f)
  BY FilterExists
<1>2. Without(q, n) = f[Len(q)]
  BY DEF Without, Filters
<1> HIDE DEF f
<1>3. Len(q) \in Nat /\ \A i \in 1 .. Len(q) : q[i] \in Ops
  OBVIOUS
<1> DEFINE Good(m) == /\ f[m] \in Seq(Ops) /\ Len(f[m]) <= m
                      /\ \A k \in 1 .. Len(f[m]) : \E i \in 1 .. m : f[m][k] = q[i] /\ q[i].node # n
           S == {m \in Nat : m <= Len(q) => Good(m)}
<1>4. 0 \in S
  <2>1. f[0] = <<>>
    BY <1>1, <1>3 DEF Filters
  <2>2. <<>> \in Seq(Ops) /\ Len(<<>>) = 0
    OBVIOUS
  <2>3. Good(0)
    BY <2>1, <2>2
  <2> HIDE DEF Good
  <2> QED
    BY <2>3
<1>5. ASSUME NEW m \in Nat, m \in S PROVE m + 1 \in S
  <2> SUFFICES ASSUME m + 1 <= Len(q) PROVE Good(m + 1)
    OBVIOUS
  <2>1. Good(m) /\ q[m + 1] \in Ops
    BY <1>3, <1>5
  <2>2. f[m + 1] = IF q[m + 1].node = n THEN f[m] ELSE Append(f[m], q[m + 1])
    <3>1. m + 1 \in 0 .. Len(q) /\ m + 1 # 0 /\ (m + 1) - 1 = m
      BY <1>3
    <3> QED
      BY <1>1, <3>1 DEF Filters
  <2>3. CASE q[m + 1].node = n
    <3>1. f[m + 1] = f[m]
      BY <2>2, <2>3
    <3>2. ASSUME NEW k \in 1 .. Len(f[m])
          PROVE  \E i \in 1 .. m + 1 : f[m][k] = q[i] /\ q[i].node # n
      <4>1. PICK i \in 1 .. m : f[m][k] = q[i] /\ q[i].node # n
        BY <2>1
      <4>2. i \in 1 .. m + 1
        OBVIOUS
      <4> QED
        BY <4>1, <4>2
    <3>3. Len(f[m]) \in Nat /\ Len(f[m]) <= m + 1
      BY <2>1
    <3> QED
      BY <2>1, <3>1, <3>2, <3>3
  <2>4. CASE q[m + 1].node # n
    <3>1. f[m + 1] = Append(f[m], q[m + 1])
      BY <2>2, <2>4
    <3>2. /\ f[m + 1] \in Seq(Ops) /\ Len(f[m + 1]) = Len(f[m]) + 1 /\ Len(f[m]) \in Nat
          /\ \A k \in 1 .. Len(f[m]) : f[m + 1][k] = f[m][k]
          /\ f[m + 1][Len(f[m]) + 1] = q[m + 1]
      BY <2>1, <3>1
    <3>3. ASSUME NEW k \in 1 .. Len(f[m + 1]) PROVE \E i \in 1 .. m + 1 : f[m + 1][k] = q[i] /\ q[i].node # n
      <4>1. CASE k = Len(f[m]) + 1
        BY <2>4, <3>2, <4>1
      <4>2. CASE k # Len(f[m]) + 1
        <5>1. k \in 1 .. Len(f[m])
          BY <3>2, <4>2
        <5>2. PICK i \in 1 .. m : f[m][k] = q[i] /\ q[i].node # n
          BY <2>1, <5>1
        <5>3. i \in 1 .. m + 1
          OBVIOUS
        <5> QED
          BY <3>2, <5>1, <5>2, <5>3
      <4> QED
        BY <4>1, <4>2
    <3>4. Len(f[m + 1]) <= m + 1
      BY <2>1, <3>2
    <3> QED
      BY <3>2, <3>3, <3>4
  <2> QED
    BY <2>3, <2>4
<1> HIDE DEF S
<1>6. Nat \subseteq S
  BY <1>4, <1>5, Climb
<1>7. Good(Len(q))
  <2>1. Len(q) \in S
    BY <1>3, <1>6
  <2> QED
    BY <1>3, <2>1 DEF S
<1>8. NodesOf(f[Len(q)]) \subseteq NodesOf(q) \ {n}
  <2>1. DOMAIN f[Len(q)] = 1 .. Len(f[Len(q)]) /\ DOMAIN q = 1 .. Len(q)
    BY <1>7
  <2> QED
    BY <1>7, <2>1 DEF NodesOf
<1> QED
  BY <1>2, <1>7, <1>8

---------------------------------------------------------------------------
(* Types.                                                                  *)

\* The parts of BatchTypeOK that actions leave alone together.
BufferType == buf \in [Streams -> Seq(Ops)] /\ \A s \in Streams : Len(buf[s]) <= Cap
DrainType == batch \in [Streams -> [Drainers -> Seq(Ops)]] /\ tries \in [Streams -> 0 .. MaxAttempts - 1]
StoreType == agentRows \subseteq Nodes /\ fallbackRows \subseteq Nodes /\ revocationRows \subseteq Nodes
FleetType ==
  /\ liveAgents \subseteq Nodes /\ inFallback \subseteq Nodes /\ revokedIDs \subseteq Nodes
  /\ streams \subseteq Nodes /\ handlers \in [Nodes -> SUBSET {"snapshot", "renewal"}]
  /\ dereg \in [Nodes -> DeregSteps] /\ enrolled \subseteq Nodes
ToldType ==
  /\ stopping \in {"no", "yes"} /\ lostOps \subseteq Nodes
  /\ spent \in [enqueues : Nat, faults : Nat, boots : Nat]

\* The type invariant is the conjunction of its parts.
LEMMA BatchTypeParts == BatchTypeOK <=> BufferType /\ DrainType /\ StoreType /\ FleetType /\ ToldType
BY DEF BatchTypeOK, BufferType, DrainType, StoreType, FleetType, ToldType

\* The nodes of a queue are nodes.
LEMMA NodesOfQueue ==
  ASSUME NEW q \in Seq(Ops)
  PROVE  /\ NodesOf(q) \subseteq Nodes
         /\ q # <<>> => Head(q) \in Ops /\ Head(q).node \in NodesOf(q) /\ Tail(q) \in Seq(Ops)
                        /\ NodesOf(Tail(q)) \subseteq NodesOf(q) /\ Len(q) > 0
         /\ \A o \in Ops : NodesOf(Append(q, o)) = NodesOf(q) \cup {o.node}
<1>1. DOMAIN q = 1 .. Len(q) /\ Len(q) \in Nat /\ \A i \in 1 .. Len(q) : q[i] \in Ops
  OBVIOUS
<1>2. \A o \in Ops : o.node \in Nodes
  BY DEF Ops
<1>3. NodesOf(q) \subseteq Nodes
  BY <1>1, <1>2 DEF NodesOf
<1>4. ASSUME q # <<>>
      PROVE  Head(q) \in Ops /\ Head(q).node \in NodesOf(q) /\ Tail(q) \in Seq(Ops)
             /\ NodesOf(Tail(q)) \subseteq NodesOf(q) /\ Len(q) > 0
  <2>1. Len(q) > 0 /\ Head(q) = q[1] /\ Tail(q) \in Seq(Ops) /\ Len(Tail(q)) = Len(q) - 1
        /\ \A i \in 1 .. Len(q) - 1 : Tail(q)[i] = q[i + 1]
    BY <1>1, <1>4
  <2>2. 1 \in DOMAIN q
    BY <1>1, <2>1
  <2>3. DOMAIN Tail(q) = 1 .. Len(q) - 1
    BY <2>1
  <2>4. \A i \in 1 .. Len(q) - 1 : i + 1 \in DOMAIN q
    BY <1>1
  <2>5. NodesOf(Tail(q)) \subseteq NodesOf(q)
    BY <2>1, <2>3, <2>4 DEF NodesOf
  <2>6. Head(q).node \in NodesOf(q) /\ Head(q) \in Ops
    BY <1>1, <2>1, <2>2 DEF NodesOf
  <2> QED
    BY <2>1, <2>5, <2>6
<1>5. ASSUME NEW o \in Ops PROVE NodesOf(Append(q, o)) = NodesOf(q) \cup {o.node}
  <2> DEFINE r == Append(q, o)
  <2>1. /\ DOMAIN r = 1 .. Len(q) + 1 /\ r[Len(q) + 1] = o
        /\ \A i \in 1 .. Len(q) : r[i] = q[i]
    OBVIOUS
  <2> HIDE DEF r
  <2>2. ASSUME NEW x \in NodesOf(r) PROVE x \in NodesOf(q) \cup {o.node}
    BY <1>1, <2>1 DEF NodesOf
  <2>3. ASSUME NEW x \in NodesOf(q) \cup {o.node} PROVE x \in NodesOf(r)
    BY <1>1, <2>1 DEF NodesOf
  <2> QED
    BY <2>2, <2>3 DEF r
<1> QED
  BY <1>3, <1>4, <1>5

\* batchBuffer.Enqueue holds its limit and loses what it evicts.
LEMMA EnqueuedFacts ==
  ASSUME NEW q \in Seq(Ops), Len(q) <= Cap, NEW o \in Ops
  PROVE  /\ Enqueued(q, o) \in Seq(Ops) /\ Len(Enqueued(q, o)) <= Cap
         /\ NodesOf(Enqueued(q, o)) \subseteq NodesOf(q) \cup {o.node}
         /\ Evicted(q) \subseteq Nodes
<1> DEFINE r == Append(q, o)
<1>1. Len(q) \in Nat /\ Cap \in Nat /\ Cap > 0
  BY BatchConstants
<1>2. r \in Seq(Ops) /\ Len(r) = Len(q) + 1 /\ r # <<>> /\ NodesOf(r) = NodesOf(q) \cup {o.node}
  BY NodesOfQueue
<1> HIDE DEF r
<1>3. Tail(r) \in Seq(Ops) /\ Len(Tail(r)) = Len(q) /\ NodesOf(Tail(r)) \subseteq NodesOf(r)
  BY <1>1, <1>2, NodesOfQueue
<1>4. Enqueued(q, o) = IF Len(r) > Cap THEN Tail(r) ELSE r
  BY DEF Enqueued, r
<1>5. Evicted(q) \subseteq Nodes
  <2>1. CASE Len(q) >= Cap
    <3>1. q # <<>>
      BY <1>1, <2>1
    <3>2. Head(q).node \in Nodes
      BY <3>1, NodesOfQueue
    <3> QED
      BY <3>2 DEF Evicted
  <2>2. CASE ~(Len(q) >= Cap)
    BY <2>2 DEF Evicted
  <2> QED
    BY <2>1, <2>2
<1> QED
  BY <1>1, <1>2, <1>3, <1>4, <1>5

\* One record enters the buffer of one stream.
LEMMA RecordEnters ==
  ASSUME BufferType, ToldType, NEW s \in Streams, NEW n \in Nodes, NEW op \in {"put", "delete"},
         Enqueue(s, n, op), UNCHANGED stopping
  PROVE  /\ BufferType' /\ ToldType' /\ spent'.boots = spent.boots
         /\ buf'[s] = Enqueued(buf[s], [node |-> n, op |-> op])
         /\ NodesOf(buf'[s]) \subseteq NodesOf(buf[s]) \cup {n}
         /\ \A t \in Streams : t # s => buf'[t] = buf[t]
         /\ lostOps' = IF s = "fallback" THEN lostOps \cup Evicted(buf[s]) ELSE lostOps
<1> DEFINE o == [node |-> n, op |-> op]  e == Enqueued(buf[s], o)
<1>1. o \in Ops /\ o.node = n
  BY DEF Ops
<1>2. buf \in [Streams -> Seq(Ops)] /\ buf[s] \in Seq(Ops) /\ Len(buf[s]) <= Cap
  BY DEF BufferType
<1>3. buf' = [buf EXCEPT ![s] = e]
  BY <1>2 DEF Enqueue
<1> HIDE DEF o
<1>4. /\ e \in Seq(Ops) /\ Len(e) <= Cap /\ NodesOf(e) \subseteq NodesOf(buf[s]) \cup {n}
      /\ Evicted(buf[s]) \subseteq Nodes
  BY <1>1, <1>2, EnqueuedFacts
<1> HIDE DEF e
<1>5. buf'[s] = e /\ \A t \in Streams : t # s => buf'[t] = buf[t]
  BY <1>2, <1>3
<1>6. BufferType'
  BY <1>2, <1>3, <1>4, <1>5 DEF BufferType
<1>7. lostOps' = IF s = "fallback" THEN lostOps \cup Evicted(buf[s]) ELSE lostOps
  BY DEF Enqueue
<1>8. spent' \in [enqueues : Nat, faults : Nat, boots : Nat] /\ spent'.boots = spent.boots
  <2>1. spent \in [enqueues : Nat, faults : Nat, boots : Nat] /\ spent' = [spent EXCEPT !.enqueues = @ + 1]
    BY DEF Enqueue, ToldType
  <2> QED
    BY <2>1
<1>9. ToldType'
  BY <1>4, <1>7, <1>8 DEF ToldType
<1> QED
  BY <1>4, <1>5, <1>6, <1>7, <1>8, <1>9 DEF e, o

\* A handler enqueues at most one record.
LEMMA NothingEnqueuedFacts ==
  ASSUME BufferType, ToldType, NothingEnqueued, UNCHANGED stopping
  PROVE  BufferType' /\ ToldType' /\ spent' = spent /\ buf' = buf /\ lostOps' = lostOps
BY DEF NothingEnqueued, BufferType, ToldType

\* A store call that fails is counted.
LEMMA StoreFailsFacts ==
  ASSUME ToldType, StoreFails
  PROVE  spent' \in [enqueues : Nat, faults : Nat, boots : Nat] /\ spent'.boots = spent.boots
<1>1. spent \in [enqueues : Nat, faults : Nat, boots : Nat] /\ spent' = [spent EXCEPT !.faults = @ + 1]
  BY DEF StoreFails, ToldType
<1> QED
  BY <1>1

\* What is left of a batch, and what a store call writes.
RowsAfter(o) == IF o.op = "put" THEN fallbackRows \cup {o.node} ELSE fallbackRows \ {o.node}

\* One unit of the batch is done with.
LEMMA UnitDoneFacts ==
  ASSUME DrainType, NEW s \in Streams, NEW who \in Drainers, batch[s][who] # <<>>, UnitDone(s, who)
  PROVE  /\ DrainType' /\ batch'[s][who] = Rest(s, batch[s][who])
         /\ NodesOf(batch'[s][who]) \subseteq NodesOf(batch[s][who])
         /\ \A t \in Streams, w \in Drainers : t # s \/ w # who => batch'[t][w] = batch[t][w]
<1> DEFINE q == batch[s][who]  r == Rest(s, q)  b == [batch[s] EXCEPT ![who] = r]
<1>1. /\ batch \in [Streams -> [Drainers -> Seq(Ops)]] /\ batch[s] \in [Drainers -> Seq(Ops)]
      /\ q \in Seq(Ops) /\ tries \in [Streams -> 0 .. MaxAttempts - 1]
  BY DEF DrainType
<1>2. r \in Seq(Ops) /\ NodesOf(r) \subseteq NodesOf(q)
  <2>1. <<>> \in Seq(Ops) /\ NodesOf(<<>>) = {}
    BY DEF NodesOf
  <2>2. Tail(q) \in Seq(Ops) /\ NodesOf(Tail(q)) \subseteq NodesOf(q)
    BY <1>1, NodesOfQueue
  <2> QED
    BY <2>1, <2>2 DEF Rest
<1>3. batch' = [batch EXCEPT ![s] = b] /\ tries' = [tries EXCEPT ![s] = 0]
  BY <1>1 DEF UnitDone
<1> HIDE DEF r
<1>4. b \in [Drainers -> Seq(Ops)] /\ b[who] = r /\ \A w \in Drainers : w # who => b[w] = batch[s][w]
  BY <1>1, <1>2
<1> HIDE DEF b
<1>5. /\ batch' \in [Streams -> [Drainers -> Seq(Ops)]] /\ batch'[s] = b
      /\ \A t \in Streams : t # s => batch'[t] = batch[t]
  BY <1>1, <1>3, <1>4
<1>6. tries' \in [Streams -> 0 .. MaxAttempts - 1]
  BY <1>1, <1>3 DEF MaxAttempts
<1>7. DrainType'
  BY <1>5, <1>6 DEF DrainType
<1> QED
  BY <1>2, <1>4, <1>5, <1>7 DEF r

\* One store call lands.
LEMMA StoredFacts ==
  ASSUME StoreType, NEW s \in Streams, NEW q \in Seq(Ops), q # <<>>, Stored(s, Unit(s, q))
  PROVE  /\ StoreType' /\ revocationRows' = revocationRows
         /\ s = "agents" => fallbackRows' = fallbackRows /\ agentRows' = agentRows \cup NodesOf(q)
         /\ s = "fallback" => agentRows' = agentRows /\ fallbackRows' = RowsAfter(Head(q))
<1>1. NodesOf(q) \subseteq Nodes /\ Head(q) \in Ops /\ Head(q).node \in Nodes
  BY NodesOfQueue DEF Ops
<1>2. CASE s = "agents"
  BY <1>1, <1>2 DEF Stored, Unit, StoreType
<1>3. CASE s = "fallback"
  <2>1. Unit(s, q) = <<Head(q)>> /\ Unit(s, q)[1] = Head(q)
    BY <1>3 DEF Unit
  <2>2. agentRows' = agentRows /\ revocationRows' = revocationRows /\ fallbackRows' = RowsAfter(Head(q))
    BY <1>3, <2>1 DEF Stored, RowsAfter
  <2>3. StoreType'
    BY <1>1, <2>2 DEF StoreType, RowsAfter
  <2> QED
    BY <1>3, <2>2, <2>3
<1> QED
  BY <1>2, <1>3 DEF Streams

\* The store answers, in any of the ways it can.
LEMMA AnswerFacts ==
  ASSUME BatchTypeOK, NEW s \in Streams, NEW who \in Drainers, StoreAnswers(s, who)
  PROVE  /\ batch[s][who] # <<>> /\ DrainType' /\ StoreType' /\ ToldType'
         /\ UNCHANGED <<buf, liveAgents, inFallback, revokedIDs, streams, handlers, dereg, enrolled, stopping>>
         /\ spent'.boots = spent.boots /\ revocationRows' = revocationRows
         /\ \A t \in Streams, w \in Drainers : t # s \/ w # who => batch'[t][w] = batch[t][w]
         /\ batch'[s][who] \in {batch[s][who], Rest(s, batch[s][who])}
         /\ NodesOf(batch'[s][who]) \subseteq NodesOf(batch[s][who])
         /\ s = "agents" => /\ fallbackRows' = fallbackRows /\ lostOps' = lostOps
                            /\ agentRows' \subseteq agentRows \cup NodesOf(batch[s][who])
         /\ s = "fallback" =>
              /\ agentRows' = agentRows
              /\ fallbackRows' \in {fallbackRows, RowsAfter(Head(batch[s][who]))}
              /\ lostOps' \in {lostOps, lostOps \cup {Head(batch[s][who]).node}}
              /\ batch'[s][who] # batch[s][who] =>
                   \/ fallbackRows' = RowsAfter(Head(batch[s][who]))
                   \/ lostOps' = lostOps \cup {Head(batch[s][who]).node}
<1> DEFINE q == batch[s][who]
<1>1. BufferType /\ DrainType /\ StoreType /\ FleetType /\ ToldType
  BY BatchTypeParts
<1>2. q # <<>> /\ UNCHANGED <<buf, liveAgents, inFallback, revokedIDs, streams, handlers, dereg, enrolled, stopping>>
  BY DEF StoreAnswers, WriteSucceeds, WriteTransient, WritePersistent, fleetVars
<1>3. q \in Seq(Ops)
  BY <1>1 DEF DrainType
<1>4. Head(q) \in Ops /\ Head(q).node \in Nodes
  BY <1>2, <1>3, NodesOfQueue DEF Ops
<1>5. StoreType' /\ revocationRows' = revocationRows
      /\ (s = "agents" => fallbackRows' = fallbackRows /\ agentRows' \subseteq agentRows \cup NodesOf(q))
      /\ (s = "fallback" => agentRows' = agentRows /\ fallbackRows' \in {fallbackRows, RowsAfter(Head(q))})
  <2>1. CASE Stored(s, Unit(s, q))
    BY <1>1, <1>2, <1>3, <2>1, StoredFacts
  <2>2. CASE UNCHANGED storeVars
    BY <1>1, <2>2 DEF storeVars, StoreType
  <2> QED
    BY <2>1, <2>2 DEF StoreAnswers, WriteSucceeds, WriteTransient, WritePersistent
<1>6. spent' \in [enqueues : Nat, faults : Nat, boots : Nat] /\ spent'.boots = spent.boots
  <2>1. StoreFails \/ spent' = spent
    BY DEF StoreAnswers, WriteSucceeds, WriteTransient, WritePersistent
  <2> QED
    BY <1>1, <2>1, StoreFailsFacts DEF ToldType
<1>7. lostOps' = lostOps \/ (s = "fallback" /\ lostOps' = lostOps \cup {Head(q).node})
  BY DEF StoreAnswers, WriteSucceeds, WriteTransient, WritePersistent, GiveUp
<1>8. ToldType'
  BY <1>1, <1>2, <1>4, <1>6, <1>7 DEF ToldType
<1>9. \/ UnitDone(s, who)
      \/ batch' = batch /\ tries' = [tries EXCEPT ![s] = @ + 1] /\ tries[s] + 1 # MaxAttempts
  BY DEF StoreAnswers, WriteSucceeds, WriteTransient, WritePersistent, GiveUp
<1>10. CASE UnitDone(s, who)
  <2>1. /\ DrainType' /\ batch'[s][who] = Rest(s, q) /\ NodesOf(batch'[s][who]) \subseteq NodesOf(q)
        /\ \A t \in Streams, w \in Drainers : t # s \/ w # who => batch'[t][w] = batch[t][w]
    BY <1>1, <1>2, <1>10, UnitDoneFacts
  <2>2. s = "fallback" /\ batch'[s][who] # q =>
          fallbackRows' = RowsAfter(Head(q)) \/ lostOps' = lostOps \cup {Head(q).node}
    <3>1. CASE WriteSucceeds(s, who)
      BY <1>1, <1>2, <1>3, <3>1, StoredFacts DEF WriteSucceeds
    <3>2. CASE ~WriteSucceeds(s, who)
      <4>1. s = "fallback" /\ batch' # batch => lostOps' = lostOps \cup {Head(q).node}
        BY <3>2 DEF StoreAnswers, WriteTransient, WritePersistent, GiveUp
      <4> QED
        BY <4>1
    <3> QED
      BY <3>1, <3>2
  <2> QED
    BY <1>2, <1>5, <1>6, <1>7, <1>8, <2>1, <2>2
<1>11. CASE batch' = batch /\ tries' = [tries EXCEPT ![s] = @ + 1] /\ tries[s] + 1 # MaxAttempts
  <2>1. tries' \in [Streams -> 0 .. MaxAttempts - 1]
    <3>1. tries \in [Streams -> 0 .. 2] /\ tries[s] + 1 # 3
      BY <1>1, <1>11 DEF DrainType, MaxAttempts
    <3>2. tries[s] + 1 \in 0 .. 2
      BY <3>1
    <3>3. tries' \in [Streams -> 0 .. 2]
      BY <1>11, <3>1, <3>2
    <3> QED
      BY <3>3 DEF MaxAttempts
  <2>2. DrainType'
    BY <1>1, <1>11, <2>1 DEF DrainType
  <2> QED
    BY <1>2, <1>5, <1>6, <1>7, <1>8, <1>11, <2>2
<1> QED
  BY <1>9, <1>10, <1>11

\* A drain swaps the live window out.
LEMMA DrainFacts ==
  ASSUME BatchTypeOK, NEW s \in Streams, NEW who \in Drainers, Drain(s, who)
  PROVE  /\ \A w \in Drainers : batch[s][w] = <<>>
         /\ BufferType' /\ DrainType' /\ buf'[s] = <<>> /\ batch'[s][who] = buf[s]
         /\ \A t \in Streams : t # s => buf'[t] = buf[t]
         /\ \A t \in Streams, w \in Drainers : t # s \/ w # who => batch'[t][w] = batch[t][w]
         /\ UNCHANGED <<agentRows, fallbackRows, revocationRows, liveAgents, inFallback, revokedIDs, streams,
                        handlers, dereg, enrolled, stopping, lostOps, spent>>
<1> DEFINE b == [batch[s] EXCEPT ![who] = buf[s]]
<1>1. /\ batch \in [Streams -> [Drainers -> Seq(Ops)]] /\ batch[s] \in [Drainers -> Seq(Ops)]
      /\ tries \in [Streams -> 0 .. MaxAttempts - 1] /\ buf \in [Streams -> Seq(Ops)] /\ buf[s] \in Seq(Ops)
      /\ \A t \in Streams : Len(buf[t]) <= Cap
  BY DEF BatchTypeOK
<1>2. /\ \A w \in Drainers : batch[s][w] = <<>>
      /\ batch' = [batch EXCEPT ![s] = b] /\ buf' = [buf EXCEPT ![s] = <<>>] /\ tries' = [tries EXCEPT ![s] = 0]
      /\ UNCHANGED <<agentRows, fallbackRows, revocationRows, liveAgents, inFallback, revokedIDs, streams,
                     handlers, dereg, enrolled, stopping, lostOps, spent>>
  BY <1>1 DEF Drain, MayDrain, storeVars, fleetVars
<1>3. b \in [Drainers -> Seq(Ops)] /\ b[who] = buf[s] /\ \A w \in Drainers : w # who => b[w] = batch[s][w]
  BY <1>1
<1> HIDE DEF b
<1>4. /\ batch' \in [Streams -> [Drainers -> Seq(Ops)]] /\ batch'[s] = b
      /\ \A t \in Streams : t # s => batch'[t] = batch[t]
  BY <1>1, <1>2, <1>3
<1>5. tries' \in [Streams -> 0 .. MaxAttempts - 1]
  BY <1>1, <1>2 DEF MaxAttempts
<1>6. /\ buf' \in [Streams -> Seq(Ops)] /\ buf'[s] = <<>>
      /\ \A t \in Streams : t # s => buf'[t] = buf[t]
  BY <1>1, <1>2
<1>7. \A t \in Streams : Len(buf'[t]) <= Cap
  <2>1. Len(<<>>) = 0 /\ 0 <= Cap
    BY BatchConstants
  <2> QED
    BY <1>1, <1>6, <2>1
<1>8. BufferType' /\ DrainType'
  BY <1>4, <1>5, <1>6, <1>7 DEF BufferType, DrainType
<1> QED
  BY <1>2, <1>3, <1>4, <1>6, <1>8

\* An edge of the fallback state, or nothing.
LEMMA TransitionFacts ==
  ASSUME NEW n \in Nodes, NEW mode \in {"fallback", "down", "healthy"}, FallbackTransition(n, mode)
  PROVE  \/ inFallback' = inFallback \cup {n} /\ Enqueue("fallback", n, "put")
         \/ inFallback' = inFallback \ {n} /\ Enqueue("fallback", n, "delete")
         \/ inFallback' = inFallback /\ NothingEnqueued
BY DEF FallbackTransition

\* What the handlers do to the buffers: at most one record, of their own node.
LEMMA HandlerBuffers ==
  ASSUME BufferType, ToldType, NEW n \in Nodes, Handlers(n)
  PROVE  /\ BufferType' /\ ToldType' /\ spent'.boots = spent.boots
         /\ NodesOf(buf'["agents"]) \subseteq NodesOf(buf["agents"]) \cup {n}
         /\ n \in NodesOf(buf'["agents"]) \ NodesOf(buf["agents"]) =>
              Enroll(n) \/ EnqueueSnapshot(n) \/ (RenewalCommits(n) /\ n \in liveAgents)
<1>1. stopping' = stopping
  BY DEF Handlers, Enroll, Connect, Disconnect, ApplySnapshot, EnqueueSnapshot, RenewalStarts, RenewalCommits,
         DeregisterArms, DeregisterWithdraws, DeregisterDeletes, DeregisterFails, DeregisterPurges
<1>2. "agents" \in Streams /\ "fallback" \in Streams
  BY DEF Streams
<1>3. ASSUME NothingEnqueued
      PROVE  BufferType' /\ ToldType' /\ spent' = spent /\ buf' = buf
  BY <1>1, <1>3, NothingEnqueuedFacts
<1>4. ASSUME Enqueue("agents", n, "put")
      PROVE  /\ BufferType' /\ ToldType' /\ spent'.boots = spent.boots
             /\ NodesOf(buf'["agents"]) \subseteq NodesOf(buf["agents"]) \cup {n}
  BY <1>1, <1>2, <1>4, RecordEnters
<1>5. ASSUME NEW op \in {"put", "delete"}, Enqueue("fallback", n, op)
      PROVE  BufferType' /\ ToldType' /\ spent'.boots = spent.boots /\ buf'["agents"] = buf["agents"]
  BY <1>1, <1>2, <1>5, RecordEnters
<1>6. CASE Enroll(n) \/ EnqueueSnapshot(n) \/ RenewalCommits(n)
  <2>1. CASE Enqueue("agents", n, "put") /\ ~(RenewalCommits(n) /\ n \notin liveAgents)
    BY <1>4, <1>6, <2>1
  <2>2. CASE NothingEnqueued
    BY <1>3, <2>2
  <2>3. \/ Enqueue("agents", n, "put") /\ ~(RenewalCommits(n) /\ n \notin liveAgents)
        \/ NothingEnqueued
    BY <1>6 DEF Enroll, EnqueueSnapshot, RenewalCommits
  <2> QED
    BY <2>1, <2>2, <2>3
<1>7. ASSUME NEW mode \in {"fallback", "down", "healthy"}, ApplySnapshot(n, mode)
      PROVE  BufferType' /\ ToldType' /\ spent'.boots = spent.boots /\ buf'["agents"] = buf["agents"]
  <2>1. FallbackTransition(n, mode)
    BY <1>7 DEF ApplySnapshot
  <2> QED
    BY <1>3, <1>5, <2>1, TransitionFacts
<1>8. CASE Connect(n) \/ Disconnect(n) \/ RenewalStarts(n) \/ DeregisterArms(n) \/ DeregisterPurges(n)
  <2>1. NothingEnqueued
    BY <1>8 DEF Connect, Disconnect, RenewalStarts, DeregisterArms, DeregisterPurges, NothingEnqueued
  <2> QED
    BY <1>3, <2>1
<1>9. CASE DeregisterWithdraws(n)
  <2>1. buf \in [Streams -> Seq(Ops)] /\ buf["agents"] \in Seq(Ops) /\ \A s \in Streams : Len(buf[s]) <= Cap
    BY <1>2 DEF BufferType
  <2> DEFINE w == Without(buf["agents"], n)
  <2>2. buf' = [buf EXCEPT !["agents"] = w] /\ UNCHANGED <<lostOps, spent>>
    BY <1>9, <2>1 DEF DeregisterWithdraws
  <2>3. w \in Seq(Ops) /\ Len(w) <= Len(buf["agents"]) /\ NodesOf(w) \subseteq NodesOf(buf["agents"]) \ {n}
    BY <2>1, WithoutFacts
  <2> HIDE DEF w
  <2>4. buf'["agents"] = w /\ buf' \in [Streams -> Seq(Ops)] /\ \A s \in Streams : s # "agents" => buf'[s] = buf[s]
    BY <1>2, <2>1, <2>2, <2>3
  <2>5. Len(w) <= Cap
    <3>1. Len(w) \in Nat /\ Len(buf["agents"]) \in Nat /\ Cap \in Nat /\ Len(buf["agents"]) <= Cap
      BY <1>2, <2>1, <2>3, BatchConstants
    <3> QED
      BY <2>3, <3>1
  <2>6. BufferType'
    BY <2>1, <2>4, <2>5 DEF BufferType
  <2>7. ToldType'
    BY <1>1, <2>2 DEF ToldType
  <2> QED
    BY <2>2, <2>3, <2>4, <2>6, <2>7
<1>10. CASE DeregisterFails(n) \/ \E ok \in BOOLEAN : DeregisterDeletes(n, ok)
  <2>1. (StoreFails \/ spent' = spent) /\ buf' = buf /\ lostOps' \subseteq lostOps \cup {n}
    BY <1>10 DEF DeregisterFails, DeregisterDeletes
  <2>2. spent' \in [enqueues : Nat, faults : Nat, boots : Nat] /\ spent'.boots = spent.boots
    BY <2>1, StoreFailsFacts DEF ToldType
  <2> QED
    BY <1>1, <2>1, <2>2 DEF ToldType, BufferType
<1> QED
  BY <1>6, <1>7, <1>8, <1>9, <1>10 DEF Handlers

\* The handlers leave the drains alone and keep the types of fleet and tables.
LEMMA HandlerTypes ==
  ASSUME BatchTypeOK, NEW n \in Nodes, Handlers(n)
  PROVE  /\ BatchTypeOK' /\ UNCHANGED <<batch, tries>>
         /\ fallbackRows' = fallbackRows \/ \E ok \in BOOLEAN : DeregisterDeletes(n, ok)
<1>0. BufferType /\ DrainType /\ StoreType /\ FleetType /\ ToldType
  BY BatchTypeParts
<1>1. BufferType' /\ ToldType'
  BY <1>0, HandlerBuffers
<1>2. UNCHANGED <<batch, tries>>
      /\ (fallbackRows' = fallbackRows \/ \E ok \in BOOLEAN : DeregisterDeletes(n, ok))
  BY DEF Handlers, Enroll, Connect, Disconnect, ApplySnapshot, EnqueueSnapshot, RenewalStarts, RenewalCommits,
         DeregisterArms, DeregisterWithdraws, DeregisterDeletes, DeregisterFails, DeregisterPurges,
         drainVars, storeVars
<1>3. StoreType'
  <2>1. CASE UNCHANGED <<agentRows, fallbackRows, revocationRows>>
    BY <1>0, <2>1 DEF StoreType
  <2>2. CASE Enroll(n)
    BY <1>0, <2>2 DEF StoreType, Enroll
  <2>3. ASSUME NEW ok \in BOOLEAN, DeregisterDeletes(n, ok) PROVE StoreType'
    BY <1>0, <2>3 DEF StoreType, DeregisterDeletes
  <2>4. \/ UNCHANGED <<agentRows, fallbackRows, revocationRows>> \/ Enroll(n)
        \/ \E ok \in BOOLEAN : DeregisterDeletes(n, ok)
    BY DEF Handlers, Connect, Disconnect, ApplySnapshot, EnqueueSnapshot, RenewalStarts, RenewalCommits,
           DeregisterArms, DeregisterWithdraws, DeregisterFails, DeregisterPurges, storeVars
  <2> QED
    BY <2>1, <2>2, <2>3, <2>4
<1>4. handlers' \in [Nodes -> SUBSET {"snapshot", "renewal"}]
  <2>1. \/ handlers' = handlers
        \/ \E x \in {"snapshot", "renewal"} : \/ handlers' = [handlers EXCEPT ![n] = @ \union {x}]
                                              \/ handlers' = [handlers EXCEPT ![n] = @ \ {x}]
    BY DEF Handlers, Enroll, Connect, Disconnect, ApplySnapshot, EnqueueSnapshot, RenewalStarts, RenewalCommits,
           DeregisterArms, DeregisterWithdraws, DeregisterDeletes, DeregisterFails, DeregisterPurges
  <2> QED
    BY <1>0, <2>1 DEF FleetType
<1>5. dereg' \in [Nodes -> DeregSteps]
  <2>1. dereg' = dereg \/ \E d \in DeregSteps : dereg' = [dereg EXCEPT ![n] = d]
    BY DEF Handlers, Enroll, Connect, Disconnect, ApplySnapshot, EnqueueSnapshot, RenewalStarts, RenewalCommits,
           DeregisterArms, DeregisterWithdraws, DeregisterDeletes, DeregisterFails, DeregisterPurges, DeregSteps
  <2> QED
    BY <1>0, <2>1 DEF FleetType
<1>6. inFallback' \subseteq Nodes
  <2>1. ASSUME NEW mode \in {"fallback", "down", "healthy"}, ApplySnapshot(n, mode) PROVE inFallback' \subseteq Nodes
    <3>1. FallbackTransition(n, mode)
      BY <2>1 DEF ApplySnapshot
    <3> QED
      BY <1>0, <3>1, TransitionFacts DEF FleetType
  <2>2. CASE inFallback' = inFallback
    BY <1>0, <2>2 DEF FleetType
  <2>3. inFallback' = inFallback \/ \E mode \in {"fallback", "down", "healthy"} : ApplySnapshot(n, mode)
    BY DEF Handlers, Enroll, Connect, Disconnect, EnqueueSnapshot, RenewalStarts, RenewalCommits,
           DeregisterArms, DeregisterWithdraws, DeregisterDeletes, DeregisterFails, DeregisterPurges
  <2> QED
    BY <2>1, <2>2, <2>3
<1>7. /\ liveAgents' \subseteq liveAgents \cup {n} /\ revokedIDs' \subseteq revokedIDs \cup {n}
      /\ streams' \subseteq streams \cup {n} /\ enrolled' \subseteq enrolled \cup {n}
  BY DEF Handlers, Enroll, Connect, Disconnect, ApplySnapshot, EnqueueSnapshot, RenewalStarts, RenewalCommits,
         DeregisterArms, DeregisterWithdraws, DeregisterDeletes, DeregisterFails, DeregisterPurges
<1>8. FleetType'
  BY <1>0, <1>4, <1>5, <1>6, <1>7 DEF FleetType
<1>9. DrainType'
  BY <1>0, <1>2 DEF DrainType
<1> QED
  BY <1>1, <1>2, <1>3, <1>8, <1>9 DEF BatchTypeOK, BufferType, DrainType, StoreType, FleetType, ToldType

\* A restart begins with empty buffers and what the tables say.
LEMMA RestartTypes ==
  ASSUME BatchTypeOK, Restart
  PROVE  /\ BatchTypeOK' /\ spent'.boots # spent.boots
         /\ \A s \in Streams : buf'[s] = <<>> /\ \A w \in Drainers : batch'[s][w] = <<>>
         /\ \A n \in Nodes : handlers'[n] = {} /\ dereg'[n] = (IF dereg[n] = "gone" THEN "gone" ELSE "none")
<1>0. BufferType /\ DrainType /\ StoreType /\ FleetType /\ ToldType
  BY BatchTypeParts
<1>1. <<>> \in Seq(Ops) /\ Len(<<>>) <= Cap /\ 0 \in 0 .. MaxAttempts - 1
  BY BatchConstants DEF MaxAttempts
<1>2. /\ buf' = [s \in Streams |-> <<>>] /\ batch' = [s \in Streams |-> [w \in Drainers |-> <<>>]]
      /\ tries' = [s \in Streams |-> 0]
      /\ liveAgents' = agentRows /\ inFallback' = fallbackRows /\ revokedIDs' = revocationRows
      /\ streams' = {} /\ handlers' = [n \in Nodes |-> {}]
      /\ dereg' = [n \in Nodes |-> IF dereg[n] = "gone" THEN "gone" ELSE "none"]
      /\ stopping' = "no" /\ lostOps' = {} /\ spent' = [spent EXCEPT !.boots = @ + 1]
      /\ UNCHANGED <<agentRows, fallbackRows, revocationRows, enrolled>>
  BY DEF Restart, RestoreFallbackState, storeVars
<1>3. BufferType'
  BY <1>1, <1>2 DEF BufferType
<1>4. DrainType'
  BY <1>1, <1>2 DEF DrainType
<1>5. FleetType'
  <2>1. dereg' \in [Nodes -> DeregSteps]
    BY <1>2 DEF DeregSteps
  <2>2. handlers' \in [Nodes -> SUBSET {"snapshot", "renewal"}]
    BY <1>2
  <2> QED
    BY <1>0, <1>2, <2>1, <2>2 DEF FleetType, StoreType
<1>6. spent' \in [enqueues : Nat, faults : Nat, boots : Nat] /\ spent'.boots # spent.boots
  <2>1. spent \in [enqueues : Nat, faults : Nat, boots : Nat]
    BY <1>0 DEF ToldType
  <2> QED
    BY <1>2, <2>1
<1>7. ToldType'
  BY <1>2, <1>6 DEF ToldType
<1>8. StoreType'
  BY <1>0, <1>2 DEF StoreType
<1>9. BatchTypeOK'
  BY <1>3, <1>4, <1>5, <1>7, <1>8 DEF BatchTypeOK, BufferType, DrainType, StoreType, FleetType, ToldType
<1> QED
  BY <1>2, <1>6, <1>9

\* Every step keeps the types.
LEMMA BatchTypeStep == BatchTypeOK /\ [BatchNext]_batchVars => BatchTypeOK'
<1> SUFFICES ASSUME BatchTypeOK, [BatchNext]_batchVars PROVE BatchTypeOK'
  OBVIOUS
<1>0. BufferType /\ DrainType /\ StoreType /\ FleetType /\ ToldType
  BY BatchTypeParts
<1>1. ASSUME NEW n \in Nodes, Handlers(n) PROVE BatchTypeOK'
  BY <1>1, HandlerTypes
<1>2. ASSUME NEW s \in Streams, NEW who \in Drainers, Drain(s, who) PROVE BatchTypeOK'
  <2>1. /\ BufferType' /\ DrainType'
        /\ UNCHANGED <<agentRows, fallbackRows, revocationRows, liveAgents, inFallback, revokedIDs, streams,
                       handlers, dereg, enrolled, stopping, lostOps, spent>>
    BY <1>2, DrainFacts
  <2>2. StoreType' /\ FleetType' /\ ToldType'
    BY <1>0, <2>1 DEF StoreType, FleetType, ToldType
  <2> QED
    BY <2>1, <2>2 DEF BatchTypeOK, BufferType, DrainType, StoreType, FleetType, ToldType
<1>3. ASSUME NEW s \in Streams, NEW who \in Drainers, StoreAnswers(s, who) PROVE BatchTypeOK'
  <2>1. /\ DrainType' /\ StoreType' /\ ToldType'
        /\ UNCHANGED <<buf, liveAgents, inFallback, revokedIDs, streams, handlers, dereg, enrolled, stopping>>
    BY <1>3, AnswerFacts
  <2>2. BufferType' /\ FleetType'
    BY <1>0, <2>1 DEF BufferType, FleetType
  <2> QED
    BY <2>1, <2>2 DEF BatchTypeOK, BufferType, DrainType, StoreType, FleetType, ToldType
<1>4. CASE StopWithTimeout
  BY <1>4 DEF StopWithTimeout, drainVars, storeVars, fleetVars, BatchTypeOK
<1>5. CASE Restart
  BY <1>5, RestartTypes
<1>6. CASE UNCHANGED batchVars
  BY <1>6 DEF batchVars, BatchTypeOK
<1> QED
  BY <1>1, <1>2, <1>3, <1>4, <1>5, <1>6 DEF BatchNext, Draining, Writing

\* The panel starts with nothing buffered.
LEMMA BatchTypeInit == BatchInit => BatchTypeOK
<1> SUFFICES ASSUME BatchInit PROVE BatchTypeOK
  OBVIOUS
<1>1. <<>> \in Seq(Ops) /\ Len(<<>>) <= Cap /\ 0 \in 0 .. MaxAttempts - 1
  BY BatchConstants DEF MaxAttempts
<1>2. BufferType
  BY <1>1 DEF BufferType, BatchInit
<1>3. DrainType
  BY <1>1 DEF DrainType, BatchInit
<1>4. StoreType /\ FleetType /\ ToldType
  BY DEF StoreType, FleetType, ToldType, BatchInit, DeregSteps
<1> QED
  BY <1>2, <1>3, <1>4, BatchTypeParts

(***************************************************************************)
(* The type invariant of BatchWriter: above all, whatever is enqueued,     *)
(* withdrawn and drained, no buffer ever holds more than its capLimit.     *)
(***************************************************************************)
THEOREM BatchTypeCorrect == BatchSpec => []BatchTypeOK
BY BatchTypeInit, BatchTypeStep, PTL DEF BatchSpec

---------------------------------------------------------------------------
(* Deregistered agents stay out of the mirror.                             *)

\* A record of node n is buffered or being written.
OnItsWay(n) ==
  n \in NodesOf(buf["agents"]) \cup NodesOf(batch["agents"]["loop"]) \cup NodesOf(batch["agents"]["flush"])

\* Nothing could bring node n back.
NoTrace(n) == n \notin agentRows /\ n \notin streams /\ "snapshot" \notin handlers[n] /\ ~OnItsWay(n)

\* The revocation guard is up from the arming to the next restart; a restart that
\* has lost the guard finds no trace of the node, or has it back in the mirror.
GoneOK(n) ==
  /\ dereg[n] \in {"armed", "withdrawn", "deleted"} => n \in revokedIDs
  /\ dereg[n] = "gone" /\ n \notin liveAgents => n \in revokedIDs \/ NoTrace(n)
  /\ n \notin enrolled => dereg[n] = "none" /\ n \notin liveAgents /\ NoTrace(n)

\* What every step keeps of all the nodes.
GoneInv == BatchTypeOK /\ \A n \in Nodes : GoneOK(n)

\* Without a record on its way, a row, a stream or a handler, node n gains none.
LEMMA NoTraceStep ==
  ASSUME BatchTypeOK, [BatchNext]_batchVars, NEW n \in Nodes, NoTrace(n), n \notin liveAgents, ~Enroll(n)
  PROVE  NoTrace(n)' /\ n \notin liveAgents'
<1>0. BufferType /\ DrainType /\ StoreType /\ FleetType /\ ToldType
  BY BatchTypeParts
<1>a. "agents" \in Streams /\ "loop" \in Drainers /\ "flush" \in Drainers
  BY DEF Streams, Drainers
<1>1. ASSUME NEW m \in Nodes, Handlers(m) PROVE NoTrace(n)' /\ n \notin liveAgents'
  <2>1. UNCHANGED batch
    BY <1>1, HandlerTypes
  <2>2. /\ NodesOf(buf'["agents"]) \subseteq NodesOf(buf["agents"]) \cup {m}
        /\ m \in NodesOf(buf'["agents"]) \ NodesOf(buf["agents"]) =>
             Enroll(m) \/ EnqueueSnapshot(m) \/ (RenewalCommits(m) /\ m \in liveAgents)
    BY <1>0, <1>1, HandlerBuffers
  <2>3. ~EnqueueSnapshot(n) /\ ~Connect(n) /\ \A mode : ~ApplySnapshot(n, mode)
    BY DEF NoTrace, EnqueueSnapshot, Connect, ApplySnapshot
  <2>4. ~OnItsWay(n)'
    BY <2>1, <2>2, <2>3 DEF NoTrace, OnItsWay
  <2>5. n \notin agentRows' /\ n \notin streams' /\ n \notin liveAgents'
    BY <1>1, <2>3 DEF NoTrace, Handlers, Enroll, Connect, Disconnect, ApplySnapshot, EnqueueSnapshot, RenewalStarts,
         RenewalCommits, DeregisterArms, DeregisterWithdraws, DeregisterDeletes, DeregisterFails, DeregisterPurges,
         storeVars
  <2>6. "snapshot" \notin handlers'[n]
    <3>1. handlers \in [Nodes -> SUBSET {"snapshot", "renewal"}]
      BY <1>0 DEF FleetType
    <3>2. \/ handlers' = handlers \/ handlers' = [handlers EXCEPT ![m] = @ \union {"renewal"}]
          \/ \E x \in {"snapshot", "renewal"} : handlers' = [handlers EXCEPT ![m] = @ \ {x}]
          \/ m # n /\ handlers' = [handlers EXCEPT ![m] = @ \union {"snapshot"}]
      BY <1>1, <2>3 DEF Handlers, Enroll, Connect, Disconnect, ApplySnapshot, EnqueueSnapshot, RenewalStarts,
         RenewalCommits, DeregisterArms, DeregisterWithdraws, DeregisterDeletes, DeregisterFails, DeregisterPurges
    <3> QED
      BY <3>1, <3>2 DEF NoTrace
  <2> QED
    BY <2>4, <2>5, <2>6 DEF NoTrace
<1>2. ASSUME NEW s \in Streams, NEW who \in Drainers, Drain(s, who) PROVE NoTrace(n)' /\ n \notin liveAgents'
  <2>1. /\ buf'[s] = <<>> /\ batch'[s][who] = buf[s]
        /\ \A t \in Streams : t # s => buf'[t] = buf[t]
        /\ \A t \in Streams, w \in Drainers : t # s \/ w # who => batch'[t][w] = batch[t][w]
        /\ UNCHANGED <<agentRows, liveAgents, streams, handlers>>
    BY <1>2, DrainFacts
  <2>2. NodesOf(<<>>) = {}
    BY DEF NodesOf
  <2>3. ~OnItsWay(n)'
    BY <1>a, <2>1, <2>2 DEF NoTrace, OnItsWay, Drainers
  <2> QED
    BY <2>1, <2>3 DEF NoTrace
<1>3. ASSUME NEW s \in Streams, NEW who \in Drainers, StoreAnswers(s, who) PROVE NoTrace(n)' /\ n \notin liveAgents'
  <2>1. /\ UNCHANGED <<buf, liveAgents, streams, handlers>>
        /\ \A t \in Streams, w \in Drainers : t # s \/ w # who => batch'[t][w] = batch[t][w]
        /\ NodesOf(batch'[s][who]) \subseteq NodesOf(batch[s][who])
    BY <1>3, AnswerFacts
  <2>2. /\ s = "agents" => agentRows' \subseteq agentRows \cup NodesOf(batch["agents"][who])
        /\ s = "fallback" => agentRows' = agentRows
    BY <1>3, AnswerFacts
  <2>3. n \notin agentRows'
    BY <2>2 DEF NoTrace, OnItsWay, Streams, Drainers
  <2>4. ~OnItsWay(n)'
    BY <1>a, <2>1 DEF NoTrace, OnItsWay, Drainers
  <2> QED
    BY <2>1, <2>3, <2>4 DEF NoTrace
<1>4. CASE StopWithTimeout
  BY <1>4 DEF StopWithTimeout, drainVars, storeVars, fleetVars, NoTrace, OnItsWay
<1>5. CASE Restart
  <2>1. /\ \A s \in Streams : buf'[s] = <<>> /\ \A w \in Drainers : batch'[s][w] = <<>>
        /\ handlers'[n] = {}
    BY <1>5, RestartTypes
  <2>2. liveAgents' = agentRows /\ agentRows' = agentRows /\ streams' = {}
    BY <1>5 DEF Restart, storeVars
  <2>3. NodesOf(<<>>) = {}
    BY DEF NodesOf
  <2>4. ~OnItsWay(n)'
    BY <1>a, <2>1, <2>3 DEF OnItsWay
  <2> QED
    BY <2>1, <2>2, <2>4 DEF NoTrace
<1>6. CASE UNCHANGED batchVars
  BY <1>6 DEF batchVars, NoTrace, OnItsWay
<1> QED
  BY <1>1, <1>2, <1>3, <1>4, <1>5, <1>6 DEF BatchNext, Draining, Writing

\* How far a step moves the deregistration of node n.
LEMMA DeregMoves ==
  ASSUME BatchTypeOK, [BatchNext]_batchVars, ~Restart, NEW n \in Nodes
  PROVE  /\ revokedIDs \subseteq revokedIDs' /\ enrolled \subseteq enrolled'
         /\ n \in enrolled' \ enrolled => dereg'[n] = dereg[n]
         /\ n \notin enrolled' => ~Enroll(n)
         /\ n \in liveAgents \ liveAgents' => dereg[n] = "deleted"
         /\ \/ dereg'[n] = dereg[n]
            \/ n \in liveAgents /\ n \in revokedIDs' /\ dereg'[n] = "armed"
            \/ dereg[n] \in {"armed", "withdrawn", "deleted"}
<1>0. dereg \in [Nodes -> DeregSteps]
  BY DEF BatchTypeOK
<1>1. ASSUME NEW m \in Nodes, Handlers(m)
      PROVE  /\ revokedIDs \subseteq revokedIDs' /\ enrolled \subseteq enrolled'
             /\ n \in enrolled' \ enrolled => dereg'[n] = dereg[n]
             /\ n \in liveAgents \ liveAgents' => dereg[n] = "deleted"
             /\ \/ dereg'[n] = dereg[n]
                \/ n \in liveAgents /\ n \in revokedIDs' /\ dereg'[n] = "armed"
                \/ dereg[n] \in {"armed", "withdrawn", "deleted"}
  <2>1. CASE DeregisterArms(m) \/ DeregisterWithdraws(m) \/ (\E ok \in BOOLEAN : DeregisterDeletes(m, ok))
             \/ DeregisterFails(m) \/ DeregisterPurges(m)
    BY <1>0, <2>1 DEF DeregisterArms, DeregisterWithdraws, DeregisterDeletes, DeregisterFails, DeregisterPurges
  <2>2. CASE ~(DeregisterArms(m) \/ DeregisterWithdraws(m) \/ (\E ok \in BOOLEAN : DeregisterDeletes(m, ok))
               \/ DeregisterFails(m) \/ DeregisterPurges(m))
    <3>1. UNCHANGED <<dereg, revokedIDs>> /\ enrolled \subseteq enrolled' /\ liveAgents \subseteq liveAgents'
      BY <1>1, <2>2 DEF Handlers, Enroll, Connect, Disconnect, ApplySnapshot, EnqueueSnapshot, RenewalStarts,
         RenewalCommits
    <3> QED
      BY <3>1
  <2> QED
    BY <2>1, <2>2
<1>2. ASSUME ~\E m \in Nodes : Handlers(m)
      PROVE  UNCHANGED <<dereg, revokedIDs, enrolled, liveAgents>>
  <2>1. ASSUME NEW s \in Streams, NEW who \in Drainers, Drain(s, who) \/ StoreAnswers(s, who)
        PROVE  UNCHANGED <<dereg, revokedIDs, enrolled, liveAgents>>
    BY <2>1, DrainFacts, AnswerFacts
  <2> QED
    BY <1>2, <2>1 DEF BatchNext, Draining, Writing, StopWithTimeout, fleetVars, batchVars
<1>3. n \notin enrolled' => ~Enroll(n)
  BY DEF Enroll
<1> QED
  BY <1>1, <1>2, <1>3

\* Deregistration keeps its guard.
LEMMA GoneStep == GoneInv /\ [BatchNext]_batchVars => GoneInv'
<1> SUFFICES ASSUME GoneInv, [BatchNext]_batchVars PROVE GoneInv'
  OBVIOUS
<1>1. BatchTypeOK /\ BatchTypeOK' /\ \A n \in Nodes : GoneOK(n)
  BY BatchTypeStep DEF GoneInv
<1>2. ASSUME NEW n \in Nodes, Restart PROVE GoneOK(n)'
  <2>1. /\ \A s \in Streams : buf'[s] = <<>> /\ \A w \in Drainers : batch'[s][w] = <<>>
        /\ handlers'[n] = {} /\ dereg'[n] = (IF dereg[n] = "gone" THEN "gone" ELSE "none")
    BY <1>1, <1>2, RestartTypes
  <2>2. liveAgents' = agentRows /\ agentRows' = agentRows /\ streams' = {} /\ enrolled' = enrolled
    BY <1>2 DEF Restart, storeVars
  <2>3. NodesOf(<<>>) = {} /\ "agents" \in Streams /\ "loop" \in Drainers /\ "flush" \in Drainers
    BY DEF NodesOf, Streams, Drainers
  <2>4. n \notin agentRows => NoTrace(n)'
    BY <2>1, <2>2, <2>3 DEF NoTrace, OnItsWay
  <2>5. n \notin enrolled => dereg[n] = "none" /\ n \notin agentRows
    BY <1>1 DEF GoneOK, NoTrace
  <2> QED
    BY <2>1, <2>2, <2>4, <2>5 DEF GoneOK
<1>3. ASSUME NEW n \in Nodes, ~Restart PROVE GoneOK(n)'
  <2>0. GoneOK(n)
    BY <1>1
  <2>1. /\ revokedIDs \subseteq revokedIDs' /\ enrolled \subseteq enrolled'
        /\ n \notin enrolled' => ~Enroll(n)
        /\ n \in liveAgents \ liveAgents' => dereg[n] = "deleted"
        /\ \/ dereg'[n] = dereg[n]
           \/ n \in liveAgents /\ n \in revokedIDs' /\ dereg'[n] = "armed"
           \/ dereg[n] \in {"armed", "withdrawn", "deleted"}
    BY <1>1, <1>3, DeregMoves
  <2>2. dereg'[n] \in {"armed", "withdrawn", "deleted"} => n \in revokedIDs'
    BY <2>0, <2>1 DEF GoneOK
  <2>3. ASSUME dereg'[n] = "gone", n \notin liveAgents' PROVE n \in revokedIDs' \/ NoTrace(n)'
    <3>1. CASE n \in revokedIDs
      BY <2>1, <3>1
    <3>2. CASE n \notin revokedIDs
      <4>1. dereg[n] = "gone" /\ n \notin liveAgents
        BY <2>0, <2>1, <2>3, <3>2 DEF GoneOK
      <4>2. NoTrace(n) /\ n \in enrolled
        BY <2>0, <3>2, <4>1 DEF GoneOK
      <4>3. ~Enroll(n)
        BY <4>2 DEF Enroll
      <4> QED
        BY <1>1, <4>1, <4>2, <4>3, NoTraceStep
    <3> QED
      BY <3>1, <3>2
  <2>4. ASSUME n \notin enrolled' PROVE dereg'[n] = "none" /\ n \notin liveAgents' /\ NoTrace(n)'
    <3>1. n \notin enrolled /\ ~Enroll(n)
      BY <2>1, <2>4
    <3>2. dereg[n] = "none" /\ n \notin liveAgents /\ NoTrace(n)
      BY <2>0, <3>1 DEF GoneOK
    <3>3. NoTrace(n)' /\ n \notin liveAgents'
      BY <1>1, <3>1, <3>2, NoTraceStep
    <3> QED
      BY <2>1, <3>2, <3>3
  <2> QED
    BY <2>2, <2>3, <2>4 DEF GoneOK
<1> QED
  BY <1>1, <1>2, <1>3 DEF GoneInv

\* No identity has been issued.
LEMMA GoneInit == BatchInit => GoneInv
<1> SUFFICES ASSUME BatchInit PROVE GoneInv
  OBVIOUS
<1>1. BatchTypeOK
  BY BatchTypeInit
<1>2. NodesOf(<<>>) = {} /\ "agents" \in Streams /\ "loop" \in Drainers /\ "flush" \in Drainers
  BY DEF NodesOf, Streams, Drainers
<1>3. ASSUME NEW n \in Nodes PROVE GoneOK(n)
  <2>1. buf["agents"] = <<>> /\ batch["agents"]["loop"] = <<>> /\ batch["agents"]["flush"] = <<>>
    BY <1>2 DEF BatchInit
  <2>2. ~OnItsWay(n)
    BY <1>2, <2>1 DEF OnItsWay
  <2> QED
    BY <2>2 DEF GoneOK, NoTrace, BatchInit
<1> QED
  BY <1>1, <1>3 DEF GoneInv

\* It takes no fairness.
LEMMA GoneSafe == BatchInit /\ [][BatchNext]_batchVars => GoneStaysGone
<1> DEFINE Stays == \A n \in Nodes : (dereg[n] = "gone" /\ n \notin liveAgents) =>
                      n \notin liveAgents' \/ spent'.boots # spent.boots
<1>1. ASSUME GoneInv, [BatchNext]_batchVars PROVE Stays
  <2> SUFFICES ASSUME NEW n \in Nodes, dereg[n] = "gone", n \notin liveAgents
               PROVE  n \notin liveAgents' \/ spent'.boots # spent.boots
    OBVIOUS
  <2>0. BatchTypeOK /\ GoneOK(n)
    BY <1>1 DEF GoneInv
  <2>1. CASE Restart
    BY <2>0, <2>1, RestartTypes
  <2>2. CASE ~Restart /\ n \in revokedIDs
    <3>1. n \in enrolled
      BY <2>0 DEF GoneOK
    <3>2. ASSUME NEW m \in Nodes, Handlers(m) PROVE n \notin liveAgents'
      BY <2>2, <3>1, <3>2 DEF Handlers, Enroll, Connect, Disconnect, ApplySnapshot, SnapshotAccepted, EnqueueSnapshot,
         RenewalStarts, RenewalCommits, DeregisterArms, DeregisterWithdraws, DeregisterDeletes, DeregisterFails,
         DeregisterPurges
    <3>3. ASSUME NEW s \in Streams, NEW who \in Drainers, Drain(s, who) \/ StoreAnswers(s, who)
          PROVE  n \notin liveAgents'
      BY <2>0, <3>3, DrainFacts, AnswerFacts
    <3>4. CASE StopWithTimeout \/ UNCHANGED batchVars
      BY <3>4 DEF StopWithTimeout, fleetVars, batchVars
    <3> QED
      BY <1>1, <2>2, <3>2, <3>3, <3>4 DEF BatchNext, Draining, Writing
  <2>3. CASE ~Restart /\ n \notin revokedIDs
    <3>1. NoTrace(n) /\ n \in enrolled
      BY <2>0, <2>3 DEF GoneOK
    <3>2. ~Enroll(n)
      BY <3>1 DEF Enroll
    <3> QED
      BY <1>1, <2>0, <3>1, <3>2, NoTraceStep
  <2> QED
    BY <2>1, <2>2, <2>3
<1> HIDE DEF Stays
<1>2. BatchInit /\ [][BatchNext]_batchVars => [][Stays]_batchVars
  BY <1>1, GoneInit, GoneStep, PTL
<1> QED
  BY <1>2 DEF GoneStaysGone, Stays

(***************************************************************************)
(* handleDeregisterAgent: once the purge has removed an agent from the     *)
(* mirror, no snapshot and no renewal puts it back while the process runs, *)
(* whatever was in flight and whether or not the revocation was stored.    *)
(***************************************************************************)
THEOREM GoneAgentsStayGone == BatchSpec => GoneStaysGone
BY GoneSafe, PTL DEF BatchSpec

---------------------------------------------------------------------------
(* The fallback rows follow the tracker.                                   *)

\* The operations of node n in a queue, and the one its tracked state calls for.
Mine(q, n) == {i \in DOMAIN q : q[i].node = n}
Wanted(n, tracked) == IF n \in tracked THEN "put" ELSE "delete"

\* FallbackRowFollows without its excuse: no operation of n is on its way and the row
\* is as tracked, or the last one makes it so.
Says(q, n, tracked, rows) ==
  \/ Mine(q, n) = {} /\ (n \in rows <=> n \in tracked)
  \/ \E i \in Mine(q, n) : (\A j \in Mine(q, n) : j <= i) /\ q[i].op = Wanted(n, tracked)

\* How the property reads in these terms.
LEMMA FollowsSays ==
  ASSUME NEW n
  PROVE  FallbackRowFollows(n) <=> n \in lostOps \/ Says(FallbackQueue, n, inFallback, fallbackRows)
BY DEF FallbackRowFollows, Says, Mine, Wanted

\* The row of n matters only while no operation of n is on its way.
LEMMA SaysSame ==
  ASSUME NEW q, NEW n, NEW t, NEW r, NEW t2, NEW r2, Says(q, n, t, r),
         n \in t2 <=> n \in t, (n \in r2 <=> n \in r) \/ Mine(q, n) # {}
  PROVE  Says(q, n, t2, r2)
BY DEF Says, Wanted

\* An operation of another node is appended, or the one that n's new state calls for.
LEMMA SaysAppend ==
  ASSUME NEW q \in Seq(Ops), NEW o \in Ops, NEW n, NEW t, NEW r,
         \/ o.node # n /\ Says(q, n, t, r)
         \/ o.node = n /\ o.op = Wanted(n, t)
  PROVE  Says(Append(q, o), n, t, r)
<1> DEFINE p == Append(q, o)
<1>1. /\ DOMAIN p = 1 .. Len(q) + 1 /\ DOMAIN q = 1 .. Len(q) /\ Len(q) \in Nat
      /\ p[Len(q) + 1] = o /\ \A i \in 1 .. Len(q) : p[i] = q[i]
  OBVIOUS
<1> HIDE DEF p
<1>2. CASE o.node # n /\ Says(q, n, t, r)
  <2>1. Mine(p, n) = Mine(q, n)
    BY <1>1, <1>2 DEF Mine
  <2>2. \A i \in Mine(q, n) : p[i] = q[i]
    BY <1>1 DEF Mine
  <2>3. Says(p, n, t, r)
    BY <1>2, <2>1, <2>2 DEF Says
  <2> QED
    BY <2>3 DEF p
<1>3. CASE o.node = n /\ o.op = Wanted(n, t)
  <2>1. Len(q) + 1 \in Mine(p, n) /\ p[Len(q) + 1].op = Wanted(n, t)
    BY <1>1, <1>3 DEF Mine
  <2>2. \A j \in Mine(p, n) : j <= Len(q) + 1
    BY <1>1 DEF Mine
  <2>3. Says(p, n, t, r)
    BY <2>1, <2>2 DEF Says
  <2> QED
    BY <2>3 DEF p
<1> QED
  BY <1>2, <1>3

\* An operation of another node leaves the middle of the queue.
LEMMA SaysRemoved ==
  ASSUME NEW a \in Seq(Ops), NEW b \in Seq(Ops), b # <<>>, NEW n, Head(b).node # n, NEW t, NEW r,
         Says(a \o b, n, t, r)
  PROVE  Says(a \o Tail(b), n, t, r)
<1> DEFINE q == a \o b  p == a \o Tail(b)  k == Len(a)  m == Len(b)
<1>1. k \in Nat /\ m \in Nat /\ m > 0
  OBVIOUS
<1>2. DOMAIN q = 1 .. k + m /\ (\A i \in 1 .. k : q[i] = a[i]) /\ \A i \in 1 .. m : q[k + i] = b[i]
  OBVIOUS
<1>3. Tail(b) \in Seq(Ops) /\ Len(Tail(b)) = m - 1 /\ \A i \in 1 .. m - 1 : Tail(b)[i] = b[i + 1]
  OBVIOUS
<1>4. /\ DOMAIN p = 1 .. k + (m - 1) /\ (\A i \in 1 .. k : p[i] = a[i])
      /\ \A i \in 1 .. m - 1 : p[k + i] = Tail(b)[i]
  BY <1>3
<1>5. q[k + 1].node # n
  <2>1. Head(b) = b[1] /\ 1 \in 1 .. m
    BY <1>1
  <2> QED
    BY <1>2, <2>1
<1> HIDE DEF q, p, k, m
<1>6. \A i \in 1 .. k : i \in DOMAIN p /\ i \in DOMAIN q /\ p[i] = q[i]
  BY <1>1, <1>2, <1>4
<1>7. \A i \in k + 1 .. k + (m - 1) : i \in DOMAIN p /\ i + 1 \in DOMAIN q /\ p[i] = q[i + 1]
  <2> SUFFICES ASSUME NEW i \in k + 1 .. k + (m - 1)
               PROVE  i \in DOMAIN p /\ i + 1 \in DOMAIN q /\ p[i] = q[i + 1]
    OBVIOUS
  <2>1. i - k \in 1 .. m - 1 /\ i = k + (i - k) /\ i + 1 = k + ((i - k) + 1) /\ (i - k) + 1 \in 1 .. m
    BY <1>1
  <2>2. p[k + (i - k)] = b[(i - k) + 1] /\ q[k + ((i - k) + 1)] = b[(i - k) + 1]
    BY <1>2, <1>3, <1>4, <2>1
  <2>3. i \in DOMAIN p /\ i + 1 \in DOMAIN q
    BY <1>1, <1>2, <1>4
  <2> QED
    BY <2>1, <2>2, <2>3
<1>8. \A i \in DOMAIN p : i \in 1 .. k \/ i \in k + 1 .. k + (m - 1)
  BY <1>1, <1>4
<1>9. \A i \in DOMAIN q : i \in 1 .. k \/ i = k + 1 \/ (i - 1 \in k + 1 .. k + (m - 1) /\ i = (i - 1) + 1)
  BY <1>1, <1>2
<1>10. \A i \in Mine(p, n) : IF i <= k THEN i \in Mine(q, n) ELSE i + 1 \in Mine(q, n)
  BY <1>1, <1>6, <1>7, <1>8 DEF Mine
<1>11. \A i \in Mine(q, n) : IF i <= k THEN i \in Mine(p, n) /\ p[i] = q[i]
                             ELSE i > k + 1 /\ i - 1 \in Mine(p, n) /\ p[i - 1] = q[i]
  BY <1>1, <1>5, <1>6, <1>7, <1>9 DEF Mine
<1>12. Mine(p, n) \subseteq Nat /\ Mine(q, n) \subseteq Nat
  BY <1>1, <1>2, <1>4 DEF Mine
<1>13. CASE Mine(q, n) = {} /\ (n \in r <=> n \in t)
  <2>1. Mine(p, n) = {}
    BY <1>10, <1>13
  <2>2. Says(p, n, t, r)
    BY <1>13, <2>1 DEF Says
  <2> QED
    BY <2>2 DEF p
<1>14. ASSUME NEW i \in Mine(q, n), \A j \in Mine(q, n) : j <= i, q[i].op = Wanted(n, t)
       PROVE  Says(p, n, t, r)
  <2> DEFINE h == IF i <= k THEN i ELSE i - 1
  <2>1. h \in Mine(p, n) /\ p[h] = q[i]
    BY <1>11
  <2>2. ASSUME NEW j \in Mine(p, n) PROVE j <= h
    <3>1. i \in Nat /\ j \in Nat /\ k \in Nat
      BY <1>1, <1>12
    <3>2. IF j <= k THEN j <= i ELSE j + 1 <= i
      BY <1>10, <1>14
    <3>3. i > k => i > k + 1
      BY <1>11, <3>1
    <3> QED
      BY <3>1, <3>2, <3>3
  <2> HIDE DEF h
  <2> QED
    BY <1>14, <2>1, <2>2 DEF Says
<1>15. Says(p, n, t, r)
  <2>1. Says(q, n, t, r)
    BY DEF q
  <2> QED
    BY <1>13, <1>14, <2>1 DEF Says, p
<1> QED
  BY <1>15 DEF p

\* The oldest operation is one of n's: done with, it leaves its mark on the row.
LEMMA SaysTail ==
  ASSUME NEW q \in Seq(Ops), q # <<>>, NEW n, Head(q).node = n, NEW t, NEW r, NEW r2,
         Says(q, n, t, r), n \in r2 <=> Head(q).op = "put"
  PROVE  Says(Tail(q), n, t, r2)
<1> DEFINE p == Tail(q)  m == Len(q)
<1>1. m \in Nat /\ m > 0 /\ Head(q) = q[1] /\ DOMAIN q = 1 .. m /\ DOMAIN p = 1 .. m - 1
      /\ \A i \in 1 .. m - 1 : p[i] = q[i + 1]
  OBVIOUS
<1> HIDE DEF p, m
<1>2. 1 \in Mine(q, n) /\ q[1] = Head(q)
  BY <1>1 DEF Mine
<1>3. PICK i \in Mine(q, n) : (\A j \in Mine(q, n) : j <= i) /\ q[i].op = Wanted(n, t)
  BY <1>2 DEF Says
<1>4. i \in 1 .. m
  BY <1>1 DEF Mine
<1>5. \A j \in Mine(p, n) : j \in 1 .. m - 1 /\ j + 1 \in Mine(q, n)
  BY <1>1 DEF Mine
<1>6. CASE i = 1
  <2>1. Mine(p, n) = {}
    <3> SUFFICES ASSUME NEW j \in Mine(p, n) PROVE FALSE
      OBVIOUS
    <3>1. j \in 1 .. m - 1 /\ j + 1 <= 1
      BY <1>3, <1>5, <1>6
    <3> QED
      BY <1>1, <3>1
  <2>2. n \in r2 <=> n \in t
    BY <1>2, <1>3, <1>6 DEF Wanted
  <2>3. Says(p, n, t, r2)
    BY <2>1, <2>2 DEF Says
  <2> QED
    BY <2>3 DEF p
<1>7. CASE i # 1
  <2>1. i - 1 \in 1 .. m - 1 /\ (i - 1) + 1 = i
    BY <1>1, <1>4, <1>7
  <2>2. i - 1 \in Mine(p, n) /\ p[i - 1] = q[i]
    BY <1>1, <2>1 DEF Mine
  <2>3. ASSUME NEW j \in Mine(p, n) PROVE j <= i - 1
    <3>1. j \in 1 .. m - 1 /\ j + 1 <= i
      BY <1>3, <1>5
    <3> QED
      BY <1>1, <1>4, <3>1
  <2>4. Says(p, n, t, r2)
    BY <1>3, <2>2, <2>3 DEF Says
  <2> QED
    BY <2>4 DEF p
<1> QED
  BY <1>6, <1>7

\* drainMu: one drain of the stream holds a batch at a time.
OneDrain == batch["fallback"]["loop"] = <<>> \/ batch["fallback"]["flush"] = <<>>

\* The order is kept because one drain at a time takes the oldest operations.
OrderInv == BatchTypeOK /\ OneDrain /\ FallbackOrder

\* The queue, and how it is made up.
LEMMA QueueType ==
  ASSUME BatchTypeOK
  PROVE  /\ batch["fallback"]["loop"] \in Seq(Ops) /\ batch["fallback"]["flush"] \in Seq(Ops)
         /\ buf["fallback"] \in Seq(Ops) /\ Len(buf["fallback"]) <= Cap /\ FallbackQueue \in Seq(Ops)
         /\ "fallback" \in Streams /\ "loop" \in Drainers /\ "flush" \in Drainers
<1>1. "fallback" \in Streams /\ "loop" \in Drainers /\ "flush" \in Drainers
  BY DEF Streams, Drainers
<1>2. /\ batch["fallback"]["loop"] \in Seq(Ops) /\ batch["fallback"]["flush"] \in Seq(Ops)
      /\ buf["fallback"] \in Seq(Ops) /\ Len(buf["fallback"]) <= Cap
  BY <1>1 DEF BatchTypeOK
<1> QED
  BY <1>1, <1>2 DEF FallbackQueue

\* Concatenation, as far as the queue needs it.
LEMMA QueueConcat ==
  ASSUME NEW a \in Seq(Ops), NEW b \in Seq(Ops)
  PROVE  /\ \A o \in Ops : Append(a \o b, o) = a \o Append(b, o)
         /\ a # <<>> => a \o b # <<>> /\ Head(a \o b) = Head(a) /\ Tail(a \o b) = Tail(a) \o b
         /\ a \o <<>> = a /\ <<>> \o a = a
<1>1. ASSUME NEW o \in Ops PROVE Append(a \o b, o) = a \o Append(b, o)
  <2>1. <<o>> \in Seq(Ops) /\ a \o b \in Seq(Ops)
    BY ConcatProperties
  <2>2. Append(a \o b, o) = (a \o b) \o <<o>> /\ Append(b, o) = b \o <<o>>
    BY <2>1, AppendIsConcat
  <2>3. (a \o b) \o <<o>> = a \o (b \o <<o>>)
    BY <2>1, ConcatAssociative
  <2> QED
    BY <2>2, <2>3
<1>2. ASSUME a # <<>> PROVE a \o b # <<>> /\ Head(a \o b) = Head(a) /\ Tail(a \o b) = Tail(a) \o b
  <2>1. /\ Len(a) \in Nat /\ Len(b) \in Nat /\ Len(a) > 0
    BY <1>2
  <2>2. /\ a \o b \in Seq(Ops) /\ Len(a \o b) = Len(a) + Len(b)
        /\ \A i \in 1 .. Len(a) + Len(b) : (a \o b)[i] = IF i <= Len(a) THEN a[i] ELSE b[i - Len(a)]
    BY ConcatProperties
  <2>3. a \o b # <<>>
    BY <2>1, <2>2
  <2>4. Head(a \o b) = Head(a)
    BY <1>2, <2>1, <2>2, <2>3
  <2>5. Tail(a) \in Seq(Ops) /\ Len(Tail(a)) = Len(a) - 1 /\ \A i \in 1 .. Len(a) - 1 : Tail(a)[i] = a[i + 1]
    BY <1>2, HeadTailProperties
  <2>6. /\ Tail(a \o b) \in Seq(Ops) /\ Len(Tail(a \o b)) = Len(a) + Len(b) - 1
        /\ \A i \in 1 .. Len(a) + Len(b) - 1 : Tail(a \o b)[i] = (a \o b)[i + 1]
    BY <2>2, <2>3, HeadTailProperties
  <2>7. /\ Tail(a) \o b \in Seq(Ops) /\ Len(Tail(a) \o b) = (Len(a) - 1) + Len(b)
        /\ \A i \in 1 .. (Len(a) - 1) + Len(b) : (Tail(a) \o b)[i] = IF i <= Len(a) - 1 THEN Tail(a)[i] ELSE b[i - (Len(a) - 1)]
    BY <2>5, ConcatProperties
  <2>8. Tail(a \o b) = Tail(a) \o b
    <3> DEFINE x == Tail(a \o b)  y == Tail(a) \o b
    <3>1. ASSUME NEW i \in 1 .. Len(a) + Len(b) - 1 PROVE x[i] = y[i]
      <4>1. CASE i <= Len(a) - 1
        BY <2>1, <2>2, <2>5, <2>6, <2>7, <4>1
      <4>2. CASE ~(i <= Len(a) - 1)
        <5>1. i + 1 \in 1 .. Len(a) + Len(b) /\ ~(i + 1 <= Len(a)) /\ (i + 1) - Len(a) = i - (Len(a) - 1)
          BY <2>1, <4>2
        <5>2. i \in 1 .. (Len(a) - 1) + Len(b)
          BY <2>1
        <5>3. x[i] = b[(i + 1) - Len(a)] /\ y[i] = b[i - (Len(a) - 1)]
          BY <2>2, <2>6, <2>7, <4>2, <5>1, <5>2
        <5> QED
          BY <5>1, <5>3
      <4> QED
        BY <4>1, <4>2
    <3>2. x \in Seq(Ops) /\ y \in Seq(Ops) /\ Len(x) = Len(y) /\ Len(x) = Len(a) + Len(b) - 1
      BY <2>1, <2>6, <2>7
    <3> HIDE DEF x, y
    <3>3. x = y
      BY <3>1, <3>2, SeqEqual
    <3> QED
      BY <3>3 DEF x, y
  <2> QED
    BY <2>3, <2>4, <2>8
<1> QED
  BY <1>1, <1>2, ConcatEmptySeq

\* A step that leaves the queue, the tracker, the rows and the losses alone.
LEMMA OrderSame ==
  ASSUME FallbackOrder, FallbackQueue' = FallbackQueue, inFallback' = inFallback,
         fallbackRows' = fallbackRows, lostOps \subseteq lostOps'
  PROVE  FallbackOrder'
<1> SUFFICES ASSUME NEW n \in Nodes PROVE FallbackRowFollows(n)'
  BY DEF FallbackOrder
<1>1. FallbackRowFollows(n)
  BY DEF FallbackOrder
<1>2. n \in lostOps \/ Says(FallbackQueue, n, inFallback, fallbackRows)
  BY <1>1, FollowsSays
<1>3. n \in lostOps' \/ Says(FallbackQueue', n, inFallback', fallbackRows')
  BY <1>2
<1> QED
  BY <1>3 DEF FallbackRowFollows, Says, Mine, Wanted

\* An edge of node m's state enters the queue and may push the oldest operation out
\* of the buffer.
LEMMA OrderEnqueue ==
  ASSUME OrderInv, NEW m \in Nodes, NEW op \in {"put", "delete"}, Enqueue("fallback", m, op),
         op = "put" => inFallback' = inFallback \cup {m},
         op = "delete" => inFallback' = inFallback \ {m},
         UNCHANGED <<batch, fallbackRows, stopping>>
  PROVE  FallbackOrder'
<1> DEFINE o == [node |-> m, op |-> op]
           B == buf["fallback"]  a == batch["fallback"]["loop"] \o batch["fallback"]["flush"]
           q == a \o B
<1>1. BatchTypeOK /\ BufferType /\ ToldType /\ FallbackOrder
  BY BatchTypeParts DEF OrderInv
<1>2. a \in Seq(Ops) /\ B \in Seq(Ops) /\ Len(B) <= Cap /\ q \in Seq(Ops) /\ "fallback" \in Streams
  BY <1>1, QueueType
<1>3. o \in Ops /\ o.node = m /\ o.op = op
  BY DEF Ops
<1>4. buf'["fallback"] = Enqueued(B, o) /\ lostOps' = lostOps \cup Evicted(B)
  <2>1. stopping' = stopping /\ "fallback" \in Streams /\ Enqueue("fallback", m, op) /\ BufferType /\ ToldType
    BY <1>1, <1>2
  <2>2. buf'["fallback"] = Enqueued(B, o)
    BY ONLY <2>1, m \in Nodes, op \in {"put", "delete"}, RecordEnters
  <2>3. lostOps' = lostOps \cup Evicted(B)
    BY DEF Enqueue
  <2> QED
    BY <2>2, <2>3
<1>5. FallbackQueue = q /\ FallbackQueue' = a \o Enqueued(B, o)
  BY <1>4 DEF FallbackQueue
<1>6. Append(q, o) = a \o Append(B, o) /\ Append(B, o) \in Seq(Ops) /\ Append(B, o) # <<>>
      /\ Len(Append(B, o)) = Len(B) + 1 /\ (B # <<>> => Head(Append(B, o)) = Head(B))
  <2> HIDE DEF o, a, B
  <2>1. Append(q, o) = a \o Append(B, o)
    <3>1. \A x \in Ops : Append(a \o B, x) = a \o Append(B, x)
      BY <1>2, QueueConcat
    <3> QED
      BY <1>3, <3>1
  <2>2. Append(B, o) \in Seq(Ops) /\ Append(B, o) # <<>> /\ Len(Append(B, o)) = Len(B) + 1
    BY <1>2, <1>3, AppendProperties
  <2>3. B # <<>> => Head(Append(B, o)) = Head(B)
    BY <1>2, HeadTailAppend
  <2> QED
    BY <2>1, <2>2, <2>3
<1> HIDE DEF o, a, B, q
<1> SUFFICES ASSUME NEW n \in Nodes PROVE FallbackRowFollows(n)'
  BY DEF FallbackOrder
<1>7. n \in lostOps' \/ Says(FallbackQueue', n, inFallback', fallbackRows')
  <2> SUFFICES ASSUME n \notin lostOps' PROVE Says(FallbackQueue', n, inFallback', fallbackRows')
    OBVIOUS
  <2>1. Says(q, n, inFallback, fallbackRows) /\ n \notin Evicted(B)
    BY <1>1, <1>4, <1>5, FollowsSays DEF FallbackOrder
  <2>2. Says(Append(q, o), n, inFallback', fallbackRows')
    <3>1. CASE n = m
      <4>1. o.op = Wanted(n, inFallback')
        BY <1>3, <3>1 DEF Wanted
      <4> QED
        BY <1>2, <1>3, <3>1, <4>1, SaysAppend
    <3>2. CASE n # m
      <4>1. n \in inFallback' <=> n \in inFallback
        BY <3>2
      <4>2. Says(q, n, inFallback', fallbackRows')
        BY <2>1, <4>1, SaysSame
      <4>3. o.node # n
        BY <1>3, <3>2
      <4> QED
        BY <1>2, <1>3, <4>2, <4>3, SaysAppend
    <3> QED
      BY <3>1, <3>2
  <2>3. CASE Len(B) >= Cap
    <3>1. Len(B) \in Nat /\ Cap \in Nat /\ Cap > 0
      BY <1>2, BatchConstants
    <3>2. B # <<>> /\ Len(Append(B, o)) > Cap
      BY <1>6, <2>3, <3>1
    <3>3. Enqueued(B, o) = Tail(Append(B, o)) /\ Head(Append(B, o)).node # n
      BY <1>6, <2>1, <2>3, <3>2 DEF Enqueued, Evicted
    <3> QED
      BY <1>2, <1>5, <1>6, <2>2, <3>3, SaysRemoved
  <2>4. CASE ~(Len(B) >= Cap)
    <3>1. Len(B) \in Nat /\ Cap \in Nat
      BY <1>2, BatchConstants
    <3>2. ~(Len(Append(B, o)) > Cap)
      BY <1>6, <2>4, <3>1
    <3>3. Enqueued(B, o) = Append(B, o)
      BY <3>2 DEF Enqueued
    <3> QED
      BY <1>5, <1>6, <2>2, <3>3
  <2> QED
    BY <2>3, <2>4
<1> QED
  BY <1>7 DEF FallbackRowFollows, Says, Mine, Wanted

\* The store answers the drain that holds the batch.
LEMMA OrderAnswer ==
  ASSUME OrderInv, NEW who \in Drainers, StoreAnswers("fallback", who)
  PROVE  FallbackOrder' /\ OneDrain'
<1> DEFINE b == batch["fallback"][who]  B == buf["fallback"]  h == Head(b)
<1>1. BatchTypeOK /\ OneDrain /\ FallbackOrder
  BY DEF OrderInv
<1>2. /\ b # <<>> /\ UNCHANGED <<buf, inFallback>>
      /\ \A w \in Drainers : w # who => batch'["fallback"][w] = batch["fallback"][w]
      /\ batch'["fallback"][who] \in {b, Tail(b)}
      /\ fallbackRows' \in {fallbackRows, RowsAfter(h)}
      /\ lostOps' \in {lostOps, lostOps \cup {h.node}}
      /\ batch'["fallback"][who] # b => fallbackRows' = RowsAfter(h) \/ lostOps' = lostOps \cup {h.node}
  BY <1>1, AnswerFacts DEF Streams, Rest
<1>3. b \in Seq(Ops) /\ B \in Seq(Ops) /\ h \in Ops
  BY <1>1, <1>2, QueueType, NodesOfQueue DEF Drainers
<1>4. /\ FallbackQueue = b \o B /\ FallbackQueue' = batch'["fallback"][who] \o B
      /\ OneDrain'
  <2>1. CASE who = "loop"
    <3>1. batch["fallback"]["flush"] = <<>> /\ batch'["fallback"]["flush"] = <<>>
      BY <1>1, <1>2, <2>1 DEF OneDrain, Drainers
    <3>2. batch'["fallback"][who] \in Seq(Ops) /\ Tail(b) \in Seq(Ops)
      BY <1>2, <1>3, HeadTailProperties
    <3>3. b \o <<>> = b /\ batch'["fallback"][who] \o <<>> = batch'["fallback"][who]
      BY <1>3, <3>2
    <3> QED
      BY <1>2, <2>1, <3>1, <3>3 DEF FallbackQueue, OneDrain
  <2>2. CASE who = "flush"
    <3>1. batch["fallback"]["loop"] = <<>> /\ batch'["fallback"]["loop"] = <<>>
      BY <1>1, <1>2, <2>2 DEF OneDrain, Drainers
    <3>2. batch'["fallback"][who] \in Seq(Ops) /\ Tail(b) \in Seq(Ops)
      BY <1>2, <1>3, HeadTailProperties
    <3>3. <<>> \o b = b /\ <<>> \o batch'["fallback"][who] = batch'["fallback"][who]
      BY <1>3, <3>2
    <3> QED
      BY <1>2, <2>2, <3>1, <3>3 DEF FallbackQueue, OneDrain
  <2> QED
    BY <2>1, <2>2 DEF Drainers
<1> DEFINE q == b \o B
<1>5. q \in Seq(Ops) /\ q # <<>> /\ Head(q) = h /\ Tail(q) = Tail(b) \o B /\ q = <<>> \o q /\ <<>> \in Seq(Ops)
      /\ <<>> \o Tail(q) = Tail(q)
  <2> HIDE DEF b, B
  <2>1. <<>> \in Seq(Ops) /\ q \in Seq(Ops)
    BY <1>3, ConcatProperties
  <2>2. q # <<>> /\ Head(q) = Head(b) /\ Tail(q) = Tail(b) \o B
    BY <1>2, <1>3, QueueConcat, SMTT(30)
  <2> HIDE DEF q
  <2>3. Tail(q) \in Seq(Ops)
    BY <2>1, <2>2, HeadTailProperties, SMTT(30)
  <2> QED
    BY <2>1, <2>2, <2>3, ConcatEmptySeq
<1>6. FallbackQueue = q /\ FallbackQueue' \in {q, Tail(q)}
      /\ (FallbackQueue' # q => fallbackRows' = RowsAfter(h) \/ lostOps' = lostOps \cup {h.node})
  BY <1>2, <1>4, <1>5
<1> HIDE DEF q, b, B
<1> SUFFICES ASSUME NEW n \in Nodes PROVE FallbackRowFollows(n)'
  BY <1>4 DEF FallbackOrder
<1>7. n \in lostOps' \/ Says(FallbackQueue', n, inFallback', fallbackRows')
  <2> SUFFICES ASSUME n \notin lostOps' PROVE Says(FallbackQueue', n, inFallback', fallbackRows')
    OBVIOUS
  <2>1. Says(q, n, inFallback, fallbackRows)
    BY <1>1, <1>2, <1>6, FollowsSays DEF FallbackOrder
  <2>2. CASE h.node # n
    <3>1. n \in fallbackRows' <=> n \in fallbackRows
      BY <1>2, <2>2 DEF RowsAfter
    <3>2. Says(q, n, inFallback', fallbackRows')
      BY <1>2, <2>1, <3>1, SaysSame
    <3>3. Says(Tail(q), n, inFallback', fallbackRows')
      BY <1>5, <2>2, <3>2, SaysRemoved
    <3> QED
      BY <1>6, <3>2, <3>3
  <2>3. CASE h.node = n
    <3>1. Mine(q, n) # {}
      <4>1. 1 \in DOMAIN q /\ q[1] = h
        BY <1>5
      <4> QED
        BY <2>3, <4>1 DEF Mine
    <3>2. Says(q, n, inFallback', fallbackRows')
      BY <1>2, <2>1, <3>1, SaysSame
    <3>3. CASE FallbackQueue' = q
      BY <3>2, <3>3
    <3>4. CASE FallbackQueue' # q
      <4>1. fallbackRows' = RowsAfter(h)
        BY <1>6, <2>3, <3>4
      <4>2. n \in fallbackRows' <=> h.op = "put"
        BY <2>3, <4>1 DEF RowsAfter
      <4>3. Says(Tail(q), n, inFallback', fallbackRows')
        BY <1>5, <2>3, <3>2, <4>2, SaysTail
      <4> QED
        BY <1>6, <3>4, <4>3
    <3> QED
      BY <3>3, <3>4
  <2> QED
    BY <2>2, <2>3
<1> QED
  BY <1>7 DEF FallbackRowFollows, Says, Mine, Wanted

\* The live window moves into a batch as a whole: the queue stays as it was.
LEMMA OrderDrain ==
  ASSUME OrderInv, NEW s \in Streams, NEW who \in Drainers, Drain(s, who)
  PROVE  FallbackOrder' /\ OneDrain'
<1>1. BatchTypeOK /\ OneDrain /\ FallbackOrder
  BY DEF OrderInv
<1>2. /\ \A w \in Drainers : batch[s][w] = <<>>
      /\ buf'[s] = <<>> /\ batch'[s][who] = buf[s]
      /\ \A t \in Streams : t # s => buf'[t] = buf[t]
      /\ \A t \in Streams, w \in Drainers : t # s \/ w # who => batch'[t][w] = batch[t][w]
      /\ UNCHANGED <<fallbackRows, inFallback, lostOps>>
  BY <1>1, DrainFacts
<1>3. "fallback" \in Streams /\ "loop" \in Drainers /\ "flush" \in Drainers /\ buf["fallback"] \in Seq(Ops)
  BY <1>1, QueueType
<1>4. FallbackQueue' = FallbackQueue /\ OneDrain'
  <2>1. CASE s # "fallback"
    BY <1>1, <1>2, <1>3, <2>1 DEF FallbackQueue, OneDrain
  <2>2. CASE s = "fallback"
    <3> DEFINE B == buf["fallback"]  none == <<>>
    <3>1. none \in Seq(Ops) /\ B \in Seq(Ops)
      BY <1>3
    <3>2. none \o none = none /\ none \o B = B /\ B \o none = B
      BY <3>1, ConcatEmptySeq
    <3>3. FallbackQueue = (none \o none) \o B
      BY <1>2, <1>3, <2>2 DEF FallbackQueue
    <3>4. \/ FallbackQueue' = (B \o none) \o none
          \/ FallbackQueue' = (none \o B) \o none
      BY <1>2, <1>3, <2>2 DEF FallbackQueue, Drainers
    <3>5. OneDrain'
      BY <1>2, <1>3, <2>2 DEF OneDrain, Drainers
    <3> HIDE DEF none, B
    <3> QED
      BY <3>2, <3>3, <3>4, <3>5
  <2> QED
    BY <2>1, <2>2
<1> QED
  BY <1>1, <1>2, <1>4, OrderSame

\* Handlers leave the drains alone; only an edge of the fallback state touches the
\* queue and the tracker.
LEMMA OrderHandler ==
  ASSUME OrderInv, NEW n \in Nodes, Handlers(n)
  PROVE  FallbackOrder' /\ OneDrain'
<1>1. BatchTypeOK /\ BufferType /\ ToldType /\ OneDrain /\ FallbackOrder
  BY BatchTypeParts DEF OrderInv
<1>2. batch' = batch /\ (fallbackRows' = fallbackRows \/ \E ok \in BOOLEAN : DeregisterDeletes(n, ok))
  BY <1>1, HandlerTypes
<1>3. OneDrain'
  BY <1>1, <1>2 DEF OneDrain
<1>4. stopping' = stopping
  BY DEF Handlers, Enroll, Connect, Disconnect, ApplySnapshot, EnqueueSnapshot, RenewalStarts, RenewalCommits,
         DeregisterArms, DeregisterWithdraws, DeregisterDeletes, DeregisterFails, DeregisterPurges
<1>a. ApplySnapshot(n, "fallback") \/ ApplySnapshot(n, "down") \/ ApplySnapshot(n, "healthy") \/ Enroll(n)
      \/ EnqueueSnapshot(n) \/ RenewalCommits(n) => fallbackRows' = fallbackRows
  BY DEF ApplySnapshot, Enroll, EnqueueSnapshot, RenewalCommits, storeVars
<1>5. ASSUME buf'["fallback"] = buf["fallback"], lostOps' = lostOps, inFallback' = inFallback,
             fallbackRows' = fallbackRows
      PROVE  FallbackOrder'
  <2>1. FallbackQueue' = FallbackQueue
    BY <1>2, <1>5 DEF FallbackQueue
  <2> QED
    BY <1>1, <1>2, <1>5, <2>1, OrderSame
<1>6. ASSUME NEW mode \in {"fallback", "down", "healthy"}, ApplySnapshot(n, mode)
      PROVE  FallbackOrder'
  <2>1. FallbackTransition(n, mode)
    BY <1>6 DEF ApplySnapshot
  <2>a. fallbackRows' = fallbackRows
    BY <1>6, <1>a
  <2>2. CASE inFallback' = inFallback \cup {n} /\ Enqueue("fallback", n, "put")
    BY <1>2, <1>4, <2>2, <2>a, OrderEnqueue
  <2>3. CASE inFallback' = inFallback \ {n} /\ Enqueue("fallback", n, "delete")
    BY <1>2, <1>4, <2>3, <2>a, OrderEnqueue
  <2>4. CASE inFallback' = inFallback /\ NothingEnqueued
    BY <1>5, <2>4, <2>a DEF NothingEnqueued
  <2> QED
    BY <2>1, <2>2, <2>3, <2>4, TransitionFacts
<1>7. CASE Enroll(n) \/ EnqueueSnapshot(n) \/ RenewalCommits(n)
  <2>1. inFallback' = inFallback /\ fallbackRows' = fallbackRows
        /\ (Enqueue("agents", n, "put") \/ NothingEnqueued)
    BY <1>7, <1>a DEF Enroll, EnqueueSnapshot, RenewalCommits
  <2>2. CASE NothingEnqueued
    BY <1>3, <1>5, <2>1, <2>2 DEF NothingEnqueued
  <2>3. CASE Enqueue("agents", n, "put")
    <3>1. \A t \in Streams : t # "agents" => buf'[t] = buf[t]
      BY <1>1, <1>4, <2>3, RecordEnters DEF Streams
    <3>2. buf'["fallback"] = buf["fallback"]
      BY <3>1 DEF Streams
    <3>3. lostOps' = lostOps
      BY <2>3 DEF Enqueue
    <3> QED
      BY <1>3, <1>5, <2>1, <3>2, <3>3
  <2> QED
    BY <2>1, <2>2, <2>3
<1>8. CASE DeregisterWithdraws(n)
  <2>1. buf' = [buf EXCEPT !["agents"] = Without(@, n)] /\ UNCHANGED <<lostOps, inFallback, fallbackRows>>
    BY <1>8 DEF DeregisterWithdraws, storeVars
  <2>2. buf'["fallback"] = buf["fallback"]
    BY <1>1, <2>1 DEF BufferType, Streams
  <2> QED
    BY <1>3, <1>5, <2>1, <2>2
<1>9. CASE Connect(n) \/ Disconnect(n) \/ RenewalStarts(n) \/ DeregisterArms(n) \/ DeregisterPurges(n)
           \/ DeregisterFails(n)
  <2>1. UNCHANGED <<buf, lostOps, inFallback, fallbackRows>>
    BY <1>9 DEF Connect, Disconnect, RenewalStarts, DeregisterArms, DeregisterPurges, DeregisterFails, storeVars
  <2> QED
    BY <1>3, <1>5, <2>1
<1>10. ASSUME NEW ok \in BOOLEAN, DeregisterDeletes(n, ok)
       PROVE  FallbackOrder'
  <2>1. /\ UNCHANGED <<buf, inFallback>> /\ fallbackRows' = fallbackRows \ {n}
        /\ lostOps' = IF n \in inFallback THEN lostOps \union {n} ELSE lostOps
    BY <1>10 DEF DeregisterDeletes
  <2>2. FallbackQueue' = FallbackQueue
    BY <1>2, <2>1 DEF FallbackQueue
  <2> SUFFICES ASSUME NEW m \in Nodes PROVE FallbackRowFollows(m)'
    BY DEF FallbackOrder
  <2>3. m \in lostOps \/ Says(FallbackQueue, m, inFallback, fallbackRows)
    BY <1>1, FollowsSays DEF FallbackOrder
  <2>4. m \in lostOps' \/ Says(FallbackQueue, m, inFallback, fallbackRows')
    BY <2>1, <2>3 DEF Says
  <2> QED
    BY <2>1, <2>2, <2>4 DEF FallbackRowFollows, Says, Mine, Wanted
<1> QED
  BY <1>3, <1>6, <1>7, <1>8, <1>9, <1>10 DEF Handlers

\* A restart loses the queue and takes the tracker from the table.
LEMMA OrderRestart ==
  ASSUME OrderInv, Restart
  PROVE  FallbackOrder' /\ OneDrain'
<1>1. BatchTypeOK
  BY DEF OrderInv
<1>2. \A s \in Streams : buf'[s] = <<>> /\ \A w \in Drainers : batch'[s][w] = <<>>
  BY <1>1, RestartTypes
<1>3. buf'["fallback"] = <<>> /\ batch'["fallback"]["loop"] = <<>> /\ batch'["fallback"]["flush"] = <<>>
  BY <1>2 DEF Streams, Drainers
<1>4. OneDrain'
  BY <1>3 DEF OneDrain
<1> DEFINE none == <<>>
<1>5. none \in Seq(Ops) /\ none \o none = none
  BY ConcatEmptySeq
<1>6. FallbackQueue' = (none \o none) \o none
  BY <1>3 DEF FallbackQueue
<1>7. FallbackQueue' = <<>>
  <2>1. (none \o none) \o none = none
    BY <1>5
  <2> QED
    BY <1>6, <2>1
<1>8. inFallback' = fallbackRows /\ fallbackRows' = fallbackRows
  BY DEF Restart, RestoreFallbackState, storeVars
<1> SUFFICES ASSUME NEW n \in Nodes PROVE FallbackRowFollows(n)'
  BY <1>4 DEF FallbackOrder
<1>9. Mine(FallbackQueue', n) = {}
  BY <1>7 DEF Mine
<1>10. Says(FallbackQueue', n, inFallback', fallbackRows')
  BY <1>8, <1>9 DEF Says
<1> QED
  BY <1>10 DEF FallbackRowFollows, Says, Mine, Wanted

\* Every step keeps the order.
LEMMA OrderStep == OrderInv /\ [BatchNext]_batchVars => OrderInv'
<1> SUFFICES ASSUME OrderInv, [BatchNext]_batchVars PROVE OrderInv'
  OBVIOUS
<1>1. BatchTypeOK /\ BatchTypeOK' /\ OneDrain /\ FallbackOrder
  BY BatchTypeStep DEF OrderInv
<1>2. ASSUME NEW n \in Nodes, Handlers(n) PROVE FallbackOrder' /\ OneDrain'
  BY <1>2, OrderHandler
<1>3. ASSUME NEW s \in Streams, NEW who \in Drainers, Drain(s, who) PROVE FallbackOrder' /\ OneDrain'
  BY <1>3, OrderDrain
<1>4. ASSUME NEW s \in Streams, NEW who \in Drainers, StoreAnswers(s, who) PROVE FallbackOrder' /\ OneDrain'
  <2>1. CASE s = "fallback"
    BY <1>4, <2>1, OrderAnswer
  <2>2. CASE s = "agents"
    <3>1. /\ UNCHANGED <<buf, inFallback>> /\ fallbackRows' = fallbackRows /\ lostOps' = lostOps
          /\ \A t \in Streams, w \in Drainers : t # s \/ w # who => batch'[t][w] = batch[t][w]
      BY <1>1, <1>4, <2>2, AnswerFacts
    <3>2. \A w \in Drainers : batch'["fallback"][w] = batch["fallback"][w]
      BY <2>2, <3>1 DEF Streams
    <3>3. FallbackQueue' = FallbackQueue /\ OneDrain'
      BY <1>1, <3>1, <3>2 DEF FallbackQueue, OneDrain, Drainers
    <3> QED
      BY <1>1, <3>1, <3>3, OrderSame
  <2> QED
    BY <2>1, <2>2 DEF Streams
<1>5. ASSUME StopWithTimeout \/ UNCHANGED batchVars PROVE FallbackOrder' /\ OneDrain'
  <2>1. UNCHANGED <<buf, batch, inFallback, fallbackRows, lostOps>>
    BY <1>5 DEF StopWithTimeout, batchVars, drainVars, storeVars, fleetVars
  <2>2. FallbackQueue' = FallbackQueue /\ OneDrain'
    BY <1>1, <2>1 DEF FallbackQueue, OneDrain
  <2>3. FallbackOrder'
    BY <1>1, <2>1, <2>2, OrderSame
  <2> QED
    BY <2>2, <2>3
<1>6. ASSUME Restart PROVE FallbackOrder' /\ OneDrain'
  BY <1>6, OrderRestart
<1>7. FallbackOrder' /\ OneDrain'
  BY <1>2, <1>3, <1>4, <1>5, <1>6 DEF BatchNext, Draining, Writing
<1> QED
  BY <1>1, <1>7 DEF OrderInv

\* Nothing is tracked, stored or on its way.
LEMMA OrderInit == BatchInit => OrderInv
<1> SUFFICES ASSUME BatchInit PROVE OrderInv
  OBVIOUS
<1>1. BatchTypeOK
  BY BatchTypeInit
<1>2. buf["fallback"] = <<>> /\ batch["fallback"]["loop"] = <<>> /\ batch["fallback"]["flush"] = <<>>
  BY DEF BatchInit, Streams, Drainers
<1> DEFINE none == <<>>
<1>3. none \in Seq(Ops) /\ none \o none = none
  BY ConcatEmptySeq
<1>4. FallbackQueue = none
  <2>1. FallbackQueue = (none \o none) \o none
    BY <1>2 DEF FallbackQueue
  <2>2. (none \o none) \o none = none
    BY <1>3
  <2> QED
    BY <2>1, <2>2
<1>5. ASSUME NEW n \in Nodes PROVE FallbackRowFollows(n)
  <2>1. Mine(FallbackQueue, n) = {}
    BY <1>4 DEF Mine
  <2>2. Says(FallbackQueue, n, inFallback, fallbackRows)
    BY <2>1 DEF Says, BatchInit
  <2> QED
    BY <2>2, FollowsSays
<1> QED
  BY <1>1, <1>2, <1>5 DEF OrderInv, OneDrain, FallbackOrder

(***************************************************************************)
(* However the loop, Flush, the final drain, retries and enqueues          *)
(* interleave, and for every capacity, the table agent_fallback_state is   *)
(* what the tracker says once the operations on their way are written,     *)
(* except for agents of which an operation was evicted or given up.        *)
(***************************************************************************)
THEOREM FallbackOrderKept == BatchSpec => []FallbackOrder
<1>1. OrderInv => FallbackOrder
  BY DEF OrderInv
<1> QED
  BY <1>1, OrderInit, OrderStep, PTL DEF BatchSpec

(***************************************************************************)
(* The audit trail keeps its types, loses no event silently and never has  *)
(* a broken link between neighbouring rows, for any capacity and bounds.   *)
(*                                                                         *)
(* Numbers are reused after a restart, so neither the numbers nor the      *)
(* links of all events ever appended are unique.  They are among the       *)
(* events that can still become rows (the rows, the batch, the buffer and  *)
(* the requests under way): that, and that chainTail is the hash of the    *)
(* event numbered auditSeq, is what every step preserves.                  *)
(***************************************************************************)

\* The events that are rows or may become rows.
Active == unsent \union InQueue(auditBuf) \union InQueue(auditBatch) \union auditRows

NumbersInv ==
  /\ \A e \in Active : e.id <= auditSeq
  /\ \A e, f \in Active : e.id = f.id => e = f

LinksInv ==
  /\ \A e, f \in Active : f.id = e.id + 1 => f.prev = e.hash
  /\ \A e \in Active : e.id = auditSeq => e.hash = chainTail

AuditInv == AuditTypeOK /\ IsFiniteSet(minted) /\ NoSilentLoss /\ NumbersInv /\ LinksInv

---------------------------------------------------------------------------
(* Queues as sets.                                                         *)

LEMMA QueueElements ==
  ASSUME NEW T, NEW q \in Seq(T)
  PROVE  InQueue(q) \subseteq T
BY DEF InQueue

LEMMA QueueGrows ==
  ASSUME NEW T, NEW U, T \subseteq U, NEW q \in Seq(T)
  PROVE  q \in Seq(U)
OBVIOUS

LEMMA QueueAppend ==
  ASSUME NEW T, NEW q \in Seq(T), NEW e \in T
  PROVE  /\ Append(q, e) \in Seq(T) /\ Len(Append(q, e)) = Len(q) + 1 /\ Len(q) \in Nat
         /\ InQueue(Append(q, e)) = InQueue(q) \union {e}
<1>1. Append(q, e) \in Seq(T) /\ Len(Append(q, e)) = Len(q) + 1 /\ Len(q) \in Nat
  OBVIOUS
<1>2. \A i \in 1 .. Len(q) : Append(q, e)[i] = q[i]
  OBVIOUS
<1>3. Append(q, e)[Len(q) + 1] = e
  OBVIOUS
<1>4. DOMAIN Append(q, e) = 1 .. Len(q) + 1 /\ DOMAIN q = 1 .. Len(q)
  BY <1>1
<1>5. InQueue(Append(q, e)) \subseteq InQueue(q) \union {e}
  <2> SUFFICES ASSUME NEW i \in 1 .. Len(q) + 1
               PROVE  Append(q, e)[i] \in InQueue(q) \union {e}
    BY <1>4 DEF InQueue
  <2>1. i \in 1 .. Len(q) \/ i = Len(q) + 1
    BY <1>1
  <2> QED
    BY <1>2, <1>3, <1>4, <2>1 DEF InQueue
<1>6. InQueue(q) \union {e} \subseteq InQueue(Append(q, e))
  <2>1. e \in InQueue(Append(q, e))
    <3>1. Len(q) + 1 \in 1 .. Len(q) + 1
      BY <1>1
    <3> QED
      BY <1>3, <1>4, <3>1 DEF InQueue
  <2>2. ASSUME NEW i \in 1 .. Len(q)
        PROVE  q[i] \in InQueue(Append(q, e))
    <3>1. i \in 1 .. Len(q) + 1
      BY <1>1
    <3> QED
      BY <1>2, <1>4, <3>1 DEF InQueue
  <2> QED
    BY <1>4, <2>1, <2>2 DEF InQueue
<1> QED
  BY <1>1, <1>5, <1>6

LEMMA QueueTail ==
  ASSUME NEW T, NEW q \in Seq(T), q # <<>>
  PROVE  /\ Tail(q) \in Seq(T) /\ Len(Tail(q)) = Len(q) - 1 /\ Head(q) \in T
         /\ InQueue(Tail(q)) \union {Head(q)} = InQueue(q)
<1>1. /\ Tail(q) \in Seq(T) /\ Len(Tail(q)) = Len(q) - 1 /\ Len(q) \in Nat \ {0}
      /\ Head(q) = q[1] /\ q[1] \in T
  OBVIOUS
<1>2. \A i \in 1 .. Len(q) - 1 : Tail(q)[i] = q[i + 1]
  OBVIOUS
<1>3. DOMAIN Tail(q) = 1 .. Len(q) - 1 /\ DOMAIN q = 1 .. Len(q)
  BY <1>1
<1>4. InQueue(Tail(q)) \subseteq InQueue(q)
  <2> SUFFICES ASSUME NEW i \in 1 .. Len(q) - 1
               PROVE  Tail(q)[i] \in InQueue(q)
    BY <1>3 DEF InQueue
  <2>1. i + 1 \in 1 .. Len(q)
    BY <1>1
  <2> QED
    BY <1>2, <1>3, <2>1 DEF InQueue
<1>5. Head(q) \in InQueue(q)
  BY <1>1, <1>3 DEF InQueue
<1>6. InQueue(q) \subseteq InQueue(Tail(q)) \union {Head(q)}
  <2> SUFFICES ASSUME NEW i \in 1 .. Len(q)
               PROVE  q[i] \in InQueue(Tail(q)) \union {Head(q)}
    BY <1>3 DEF InQueue
  <2>1. CASE i = 1
    BY <1>1, <2>1
  <2>2. CASE i # 1
    <3>1. i - 1 \in 1 .. Len(q) - 1 /\ (i - 1) + 1 = i
      BY <1>1, <2>2
    <3> QED
      BY <1>2, <1>3, <3>1 DEF InQueue
  <2> QED
    BY <2>1, <2>2
<1> QED
  BY <1>1, <1>4, <1>5, <1>6

LEMMA EmptyQueue == InQueue(<<>>) = {} /\ \A T : <<>> \in Seq(T)
BY DEF InQueue

\* What the buffer keeps and what it evicts.
LEMMA BufferKeeps ==
  ASSUME NEW q \in Seq(minted), NEW e \in minted, Len(q) <= AuditCap
  PROVE  LET g == Append(q, e)
         IN  /\ Kept(g) \in Seq(minted) /\ Len(Kept(g)) <= AuditCap
             /\ InQueue(Kept(g)) \union Overflow(g) = InQueue(q) \union {e}
             /\ Overflow(g) \subseteq minted
<1> DEFINE g == Append(q, e)
<1>1. g \in Seq(minted) /\ Len(g) = Len(q) + 1 /\ Len(q) \in Nat /\ InQueue(g) = InQueue(q) \union {e}
  BY QueueAppend
<1> HIDE DEF g
<1>2. CASE Len(g) > AuditCap
  <2>1. g # <<>>
    BY <1>1, <1>2, AuditConstants
  <2>2. /\ Tail(g) \in Seq(minted) /\ Len(Tail(g)) = Len(g) - 1 /\ Head(g) \in minted
        /\ InQueue(Tail(g)) \union {Head(g)} = InQueue(g)
    BY <1>1, <2>1, QueueTail
  <2>3. Kept(g) = Tail(g) /\ Overflow(g) = {Head(g)}
    BY <1>2 DEF Kept, Overflow
  <2>4. Len(Kept(g)) <= AuditCap
    BY <1>1, <2>2, <2>3, AuditConstants
  <2> QED
    BY <1>1, <2>2, <2>3, <2>4 DEF g
<1>3. CASE ~(Len(g) > AuditCap)
  <2>1. Kept(g) = g /\ Overflow(g) = {} /\ Len(g) <= AuditCap
    BY <1>1, <1>3, AuditConstants DEF Kept, Overflow
  <2> QED
    BY <1>1, <2>1 DEF g
<1> QED
  BY <1>2, <1>3

---------------------------------------------------------------------------
(* Steps that number no event.                                             *)

Spent == [faults : Nat, boots : Nat]

LEMMA FaultyType ==
  ASSUME auditSpent \in Spent, Faulty \/ UNCHANGED auditSpent
  PROVE  auditSpent' \in Spent
BY DEF Spent, Faulty

LEMMA TypeFacts ==
  ASSUME AuditTypeOK
  PROVE  /\ auditBuf \in Seq(minted) /\ auditBatch \in Seq(minted)
         /\ InQueue(auditBuf) \subseteq minted /\ InQueue(auditBatch) \subseteq minted
         /\ unsent \subseteq minted /\ auditRows \subseteq minted
         /\ auditSpent \in Spent /\ Len(auditBuf) <= AuditCap
<1>1. auditBuf \in Seq(minted) /\ auditBatch \in Seq(minted) /\ Len(auditBuf) <= AuditCap
      /\ unsent \subseteq minted /\ auditRows \subseteq minted
  BY DEF AuditTypeOK
<1>2. auditSpent \in Spent
  BY DEF AuditTypeOK, Spent
<1> QED
  BY <1>1, <1>2, QueueElements

\* No event becomes active and the counters stay: numbers and links stay in order.
LEMMA ActiveShrinks ==
  ASSUME NumbersInv, LinksInv, Active' \subseteq Active, UNCHANGED <<auditSeq, chainTail>>
  PROVE  NumbersInv' /\ LinksInv'
BY DEF NumbersInv, LinksInv

\* EnqueueAudit, the eviction and its spooling included.
LEMMA EnqueueStep ==
  ASSUME AuditInv, NEW e \in unsent, EnqueueAudit(e)
  PROVE  AuditInv'
<1> USE DEF AuditInv
<1> DEFINE g == Append(auditBuf, e)
<1>0. e \in minted /\ auditBuf \in Seq(minted) /\ Len(auditBuf) <= AuditCap
  BY TypeFacts
<1>1. /\ Kept(g) \in Seq(minted) /\ Len(Kept(g)) <= AuditCap
      /\ InQueue(Kept(g)) \union Overflow(g) = InQueue(auditBuf) \union {e}
      /\ Overflow(g) \subseteq minted
  BY <1>0, BufferKeeps
<1>2. PICK W \in SUBSET Overflow(g) : Spooled(Overflow(g), W) /\ (Faulty \/ UNCHANGED auditSpent)
  BY DEF EnqueueAudit
<1>3. /\ auditBuf' = Kept(g) /\ unsent' = unsent \ {e}
      /\ UNCHANGED <<auditSeq, chainTail, minted, auditBatch, auditTries, auditRows, pruned>>
  BY DEF EnqueueAudit
<1>4. spool' = spool \union W /\ missing' = missing \union (Overflow(g) \ W)
  BY <1>2 DEF Spooled
<1> HIDE DEF g
<1>5. auditSpent' \in Spent
  BY <1>2, FaultyType, TypeFacts
<1>6. AuditTypeOK'
  BY <1>1, <1>3, <1>4, <1>5 DEF AuditTypeOK, Spent
<1>7. NoSilentLoss'
  <2>1. InQueue(auditBuf') = InQueue(Kept(g)) /\ InQueue(auditBatch') = InQueue(auditBatch)
    BY <1>3
  <2> QED
    BY <1>1, <1>3, <1>4, <2>1 DEF NoSilentLoss
<1>8. Active' \subseteq Active
  <2>1. InQueue(auditBuf') = InQueue(Kept(g)) /\ InQueue(auditBatch') = InQueue(auditBatch)
    BY <1>3
  <2> QED
    BY <1>1, <1>3, <2>1 DEF Active
<1>9. NumbersInv' /\ LinksInv'
  BY <1>3, <1>8, ActiveShrinks
<1>10. IsFiniteSet(minted')
  BY <1>3
<1> QED
  BY <1>6, <1>7, <1>9, <1>10

\* appendAuditSync, stored or refused.
LEMMA StoreNowStep ==
  ASSUME AuditInv, NEW e \in unsent, StoreNow(e) \/ StoreNowFails(e)
  PROVE  AuditInv'
<1> USE DEF AuditInv
<1>0. e \in minted
  BY TypeFacts
<1>1. /\ unsent' = unsent \ {e}
      /\ UNCHANGED <<auditSeq, chainTail, minted, auditBuf, auditBatch, auditTries, spool, pruned>>
      /\ \/ auditRows' = auditRows \union {e} /\ missing' = missing
         \/ missing' = missing \union {e} /\ auditRows' = auditRows
      /\ Faulty \/ UNCHANGED auditSpent
  BY DEF StoreNow, StoreNowFails
<1>2. auditSpent' \in Spent
  BY <1>1, FaultyType, TypeFacts
<1>3. AuditTypeOK'
  BY <1>0, <1>1, <1>2 DEF AuditTypeOK, Spent
<1>4. InQueue(auditBuf') = InQueue(auditBuf) /\ InQueue(auditBatch') = InQueue(auditBatch)
  BY <1>1
<1>5. NoSilentLoss'
  BY <1>0, <1>1, <1>4 DEF NoSilentLoss
<1>6. Active' \subseteq Active
  BY <1>1, <1>4 DEF Active
<1>7. NumbersInv' /\ LinksInv'
  BY <1>1, <1>6, ActiveShrinks
<1> QED
  BY <1>1, <1>3, <1>5, <1>7

LEMMA DrainStep ==
  ASSUME AuditInv, DrainAudit
  PROVE  AuditInv'
<1> USE DEF AuditInv
<1>1. /\ auditBatch = <<>> /\ auditBatch' = auditBuf /\ auditBuf' = <<>> /\ auditTries' = 0
      /\ UNCHANGED <<auditSeq, chainTail, minted, unsent, auditRows, spool, missing, pruned, auditSpent>>
  BY DEF DrainAudit
<1>2. <<>> \in Seq(minted) /\ Len(<<>>) = 0 /\ InQueue(<<>>) = {}
  BY EmptyQueue
<1>3. AuditTypeOK'
  BY <1>1, <1>2, AuditConstants DEF AuditTypeOK
<1>4. InQueue(auditBuf') = {} /\ InQueue(auditBatch) = {} /\ InQueue(auditBatch') = InQueue(auditBuf)
  BY <1>1, <1>2
<1>5. NoSilentLoss'
  BY <1>1, <1>4 DEF NoSilentLoss
<1>6. Active' \subseteq Active
  BY <1>1, <1>4 DEF Active
<1>7. NumbersInv' /\ LinksInv'
  BY <1>1, <1>6, ActiveShrinks
<1> QED
  BY <1>1, <1>3, <1>5, <1>7

\* The three answers of AppendAuditEventsBulk: the batch ends in the table, in the
\* spool or among the reported losses, or is tried again.
LEMMA WriterStep ==
  ASSUME AuditInv, AuditWriter
  PROVE  AuditInv'
<1> USE DEF AuditInv
<1> DEFINE B == InQueue(auditBatch)
<1>0. B \subseteq minted /\ auditBatch \in Seq(minted)
  BY TypeFacts
<1>1. /\ UNCHANGED <<auditSeq, chainTail, minted, unsent, auditBuf, pruned>>
      /\ Faulty \/ UNCHANGED auditSpent
  BY DEF AuditWriter, InsertSucceeds, InsertTransient, InsertPersistent
<1>2. auditRows' = auditRows \/ auditRows' = auditRows \union B
  BY DEF AuditWriter, InsertSucceeds, InsertTransient, InsertPersistent
<1>3. \/ /\ auditBatch' = <<>> /\ auditTries' = 0
         /\ \/ auditRows' = auditRows \union B /\ UNCHANGED <<spool, missing>>
            \/ \E W \in SUBSET B : Spooled(B, W)
      \/ auditTries # 2 /\ auditTries' = auditTries + 1 /\ UNCHANGED <<auditBatch, spool, missing>>
  <2>1. CASE InsertSucceeds
    BY <2>1 DEF InsertSucceeds
  <2>2. CASE \E landed \in BOOLEAN : InsertTransient(landed)
    <3>1. auditTries = 2 \/ auditTries # 2
      OBVIOUS
    <3> QED
      BY <2>2, <3>1 DEF InsertTransient, SpoolBatch
  <2>3. CASE \E W \in SUBSET InQueue(auditBatch) : InsertPersistent(W)
    BY <2>3 DEF InsertPersistent, SpoolBatch
  <2> QED
    BY <2>1, <2>2, <2>3 DEF AuditWriter
<1> HIDE DEF B
<1>4. \/ auditBatch' = <<>> /\ InQueue(auditBatch') = {}
      \/ auditBatch' = auditBatch /\ InQueue(auditBatch') = B
  BY <1>3, EmptyQueue DEF B
<1>5. /\ auditBatch' \in Seq(minted) /\ auditTries' \in 0 .. 2
      /\ spool' \subseteq minted /\ missing' \subseteq minted /\ auditRows' \subseteq minted
  <2>1. auditBatch' \in Seq(minted)
    BY <1>0, <1>4, EmptyQueue
  <2>2. auditTries' \in 0 .. 2
    BY <1>3 DEF AuditTypeOK
  <2>3. spool' \subseteq minted /\ missing' \subseteq minted
    BY <1>0, <1>3 DEF AuditTypeOK, Spooled
  <2> QED
    BY <1>0, <1>2, <2>1, <2>2, <2>3 DEF AuditTypeOK
<1>6. auditSpent' \in Spent
  BY <1>1, FaultyType, TypeFacts
<1>7. AuditTypeOK'
  BY <1>1, <1>5, <1>6 DEF AuditTypeOK, Spent
<1>8. InQueue(auditBuf') = InQueue(auditBuf)
  BY <1>1
<1>9. NoSilentLoss'
  BY <1>0, <1>1, <1>2, <1>3, <1>4, <1>8 DEF NoSilentLoss, Spooled, B
<1>10. Active' \subseteq Active
  BY <1>1, <1>2, <1>4, <1>8 DEF Active, B
<1>11. NumbersInv' /\ LinksInv'
  BY <1>1, <1>10, ActiveShrinks
<1> QED
  BY <1>1, <1>7, <1>9, <1>11

LEMMA PruneEventsStep ==
  ASSUME AuditInv, NEW k \in 2 .. MaxEvents, PruneAuditEvents(k)
  PROVE  AuditInv'
<1> USE DEF AuditInv
<1> DEFINE old == {r \in auditRows : r.id < k}
<1>1. /\ auditRows' = auditRows \ old /\ pruned' = pruned \union old /\ old \subseteq auditRows
      /\ UNCHANGED <<auditSeq, chainTail, minted, unsent, auditBuf, auditBatch, auditTries, spool,
                     missing, auditSpent>>
  BY DEF PruneAuditEvents
<1> HIDE DEF old
<1>2. InQueue(auditBuf') = InQueue(auditBuf) /\ InQueue(auditBatch') = InQueue(auditBatch)
  BY <1>1
<1>3. AuditTypeOK'
  BY <1>1 DEF AuditTypeOK
<1>4. NoSilentLoss'
  BY <1>1, <1>2 DEF NoSilentLoss
<1>5. Active' \subseteq Active
  BY <1>1, <1>2 DEF Active
<1>6. NumbersInv' /\ LinksInv'
  BY <1>1, <1>5, ActiveShrinks
<1> QED
  BY <1>1, <1>3, <1>4, <1>6

---------------------------------------------------------------------------
(* Numbering, restart, and the theorems.                                   *)

\* The next event carries the next number, the tail, and a hash of its own.
LEMMA NextEventType ==
  ASSUME AuditInv, Cardinality(minted) < MaxEvents, NEW path \in {"async", "sync"}
  PROVE  /\ NextEvent(path) \in Event
         /\ NextEvent(path).id = auditSeq + 1 /\ NextEvent(path).prev = chainTail
         /\ NextEvent(path).hash \in Hashes
<1>1. Cardinality(minted) \in Nat
  BY FS_CardinalityType DEF AuditInv
<1>2. Cardinality(minted) + 1 \in Hashes
  BY <1>1, AuditConstants DEF Hashes
<1>3. auditSeq + 1 \in Nat /\ chainTail \in Hashes
  BY DEF AuditInv, AuditTypeOK
<1> QED
  BY <1>2, <1>3 DEF NextEvent, Event

LEMMA AppendStep ==
  ASSUME AuditInv, NEW path \in {"async", "sync"}, AppendEvent(path)
  PROVE  AuditInv'
<1> USE DEF AuditInv
<1> DEFINE e == NextEvent(path)
<1>1. /\ auditSeq' = auditSeq + 1 /\ chainTail' = e.hash
      /\ minted' = minted \union {e} /\ unsent' = unsent \union {e}
      /\ UNCHANGED <<auditBuf, auditBatch, auditTries, auditRows, spool, missing, pruned, auditSpent>>
      /\ Cardinality(minted) < MaxEvents
  BY DEF AppendEvent
<1>2. e \in Event /\ e.id = auditSeq + 1 /\ e.prev = chainTail /\ e.hash \in Hashes
  BY <1>1, NextEventType
<1> HIDE DEF e
<1>3. auditBuf' \in Seq(minted') /\ auditBatch' \in Seq(minted')
  <2>1. minted \subseteq minted' /\ auditBuf' = auditBuf /\ auditBatch' = auditBatch
    BY <1>1
  <2> QED
    BY <2>1, TypeFacts, QueueGrows
<1>4. AuditTypeOK'
  BY <1>1, <1>2, <1>3 DEF AuditTypeOK
<1>5. IsFiniteSet(minted')
  BY <1>1, FS_AddElement
<1>6. InQueue(auditBuf') = InQueue(auditBuf) /\ InQueue(auditBatch') = InQueue(auditBatch)
  BY <1>1
<1>7. NoSilentLoss'
  BY <1>1, <1>6 DEF NoSilentLoss
<1>8. Active' = Active \union {e}
  BY <1>1, <1>6 DEF Active
<1>9. auditSeq \in Nat /\ \A x \in Active : x.id \in Nat /\ x.id <= auditSeq
  <2>1. Active \subseteq Event
    BY TypeFacts DEF Active, AuditTypeOK
  <2> QED
    BY <2>1 DEF NumbersInv, AuditTypeOK, Event
<1>10. NumbersInv'
  <2>1. \A x \in Active' : x.id <= auditSeq'
    BY <1>1, <1>2, <1>8, <1>9
  <2>2. \A x, y \in Active' : x.id = y.id => x = y
    BY <1>2, <1>8, <1>9 DEF NumbersInv
  <2> QED
    BY <2>1, <2>2 DEF NumbersInv
<1>11. LinksInv'
  <2>1. \A x, y \in Active' : y.id = x.id + 1 => y.prev = x.hash
    <3> SUFFICES ASSUME NEW x \in Active', NEW y \in Active', y.id = x.id + 1
                 PROVE  y.prev = x.hash
      OBVIOUS
    <3>1. CASE x \in Active /\ y \in Active
      BY <3>1 DEF LinksInv
    <3>2. CASE x \in Active /\ y = e
      <4>1. x.id = auditSeq
        BY <1>2, <1>9, <3>2
      <4> QED
        BY <1>2, <3>2, <4>1 DEF LinksInv
    <3>3. CASE x = e
      <4>1. y.id <= auditSeq + 1 /\ y.id \in Nat
        BY <1>2, <1>8, <1>9
      <4> QED
        BY <1>2, <1>9, <3>3, <4>1
    <3> QED
      BY <1>8, <3>1, <3>2, <3>3
  <2>2. \A x \in Active' : x.id = auditSeq' => x.hash = chainTail'
    BY <1>1, <1>2, <1>8, <1>9
  <2> QED
    BY <2>1, <2>2 DEF LinksInv
<1> QED
  BY <1>4, <1>5, <1>7, <1>10, <1>11

\* A restart continues the chain from the last row; what was in memory is gone.
LEMMA RestartStep ==
  ASSUME AuditInv, RestartPanel
  PROVE  AuditInv'
<1> USE DEF AuditInv
<1>1. /\ unsent' = {} /\ auditBuf' = <<>> /\ auditBatch' = <<>> /\ auditTries' = 0
      /\ missing' = missing \union unsent \union InQueue(auditBuf) \union
                      (InQueue(auditBatch) \ auditRows)
      /\ UNCHANGED <<minted, auditRows, spool, pruned>>
  BY DEF RestartPanel
<1>2. auditSpent' \in Spent
  BY TypeFacts DEF RestartPanel, Spent
<1>3. InQueue(auditBuf') = {} /\ InQueue(auditBatch') = {} /\ <<>> \in Seq(minted) /\ Len(<<>>) = 0
  BY <1>1, EmptyQueue
<1>4. auditRows \subseteq Event
  BY TypeFacts DEF AuditTypeOK
<1>5. \/ auditRows = {} /\ auditSeq' = 0 /\ chainTail' = 0
      \/ \E r \in LastRows : auditSeq' = r.id /\ chainTail' = r.hash
  BY DEF RestartPanel, RestoreAuditSeq
<1>6. auditSeq' \in Nat /\ chainTail' \in Hashes
  BY <1>4, <1>5, AuditConstants DEF LastRows, Event, Hashes
<1>7. AuditTypeOK'
  BY <1>1, <1>2, <1>3, <1>6, TypeFacts, AuditConstants DEF AuditTypeOK, Spent
<1>8. NoSilentLoss'
  BY <1>1, <1>3 DEF NoSilentLoss
<1>9. Active' = auditRows /\ auditRows \subseteq Active
  BY <1>1, <1>3 DEF Active
<1>10. NumbersInv'
  BY <1>5, <1>9 DEF NumbersInv, LastRows
<1>11. LinksInv'
  BY <1>5, <1>9 DEF LinksInv, NumbersInv, LastRows
<1> QED
  BY <1>1, <1>7, <1>8, <1>10, <1>11

LEMMA AuditInvInit == AuditInit => AuditInv
<1> SUFFICES ASSUME AuditInit PROVE AuditInv
  OBVIOUS
<1>1. InQueue(auditBuf) = {} /\ InQueue(auditBatch) = {} /\ <<>> \in Seq(minted) /\ Len(<<>>) = 0
  BY EmptyQueue DEF AuditInit
<1>2. AuditTypeOK
  BY <1>1, AuditConstants DEF AuditInit, AuditTypeOK, Hashes
<1>3. IsFiniteSet(minted)
  BY FS_EmptySet DEF AuditInit
<1>4. Active = {} /\ NoSilentLoss
  BY <1>1 DEF AuditInit, Active, NoSilentLoss
<1>5. NumbersInv /\ LinksInv
  BY <1>4 DEF NumbersInv, LinksInv
<1> QED
  BY <1>2, <1>3, <1>4, <1>5 DEF AuditInv

LEMMA AuditInvStep == AuditInv /\ [AuditNext]_auditVars => AuditInv'
<1> SUFFICES ASSUME AuditInv, [AuditNext]_auditVars
             PROVE  AuditInv'
  OBVIOUS
<1>1. CASE UNCHANGED auditVars
  <2>1. AuditTypeOK'
    BY <1>1 DEF auditVars, AuditInv, AuditTypeOK
  <2>2. InQueue(auditBuf') = InQueue(auditBuf) /\ InQueue(auditBatch') = InQueue(auditBatch)
    BY <1>1 DEF auditVars
  <2>3. NoSilentLoss' /\ Active' = Active /\ IsFiniteSet(minted')
    BY <1>1, <2>2 DEF auditVars, AuditInv, NoSilentLoss, Active
  <2>4. NumbersInv' /\ LinksInv'
    BY <1>1, <2>3, ActiveShrinks DEF auditVars, AuditInv
  <2> QED
    BY <2>1, <2>3, <2>4 DEF AuditInv
<1>2. CASE AuditNext
  BY <1>2, AppendStep, EnqueueStep, StoreNowStep, DrainStep, WriterStep, PruneEventsStep, RestartStep
     DEF AuditNext
<1> QED
  BY <1>1, <1>2

LEMMA AuditInvAlways == AuditSpec => []AuditInv
BY AuditInvInit, AuditInvStep, PTL DEF AuditSpec

\* Numbers, buffer, batch, table and spool keep their types and the buffer its cap.
THEOREM AuditTypeCorrect == AuditSpec => []AuditTypeOK
BY AuditInvAlways, PTL DEF AuditInv

\* However appends, evictions, failed inserts, failed spooling, retention and
\* restarts interleave, every event is accounted for (appendAuditSync,
\* flushAuditEvents, writeAuditDeadLetter).
THEOREM NothingLostSilently == AuditSpec => []NoSilentLoss
BY AuditInvAlways, PTL DEF AuditInv

\* The verifier never finds a broken link between neighbouring rows, although
\* numbers are reused after a restart (chainAuditRecordLocked, restoreAuditSeq).
THEOREM NeighboursAlwaysLink == AuditSpec => []NeighboursLink
<1>1. AuditInv => NeighboursLink
  BY DEF AuditInv, LinksInv, NeighboursLink, Active
<1> QED
  BY <1>1, AuditInvAlways, PTL

(***************************************************************************)
(* The webhook outbox keeps its types, dead-letters a delivery only for a  *)
(* reason and implements the at-least-once promise of Outbox, for any      *)
(* events, endpoints, batch size, number of attempts and bounds.           *)
(*                                                                         *)
(* The inductive invariant ties the worker's copy of a row to the row: as  *)
(* long as a delivery is in a claim its row is owed or deleted, no row is  *)
(* claimed twice, and the attempts that are counted were made.             *)
(***************************************************************************)

Claims == [row : Deliveries, attempt : 0 .. WebhookAttempts]

\* The rows that became due are distinct and not settled.
ReadyInv ==
  /\ \A i \in 1 .. Len(ready) : fate[ready[i]] \in {"owed", "gone"}
  /\ \A i, j \in 1 .. Len(ready) : ready[i] = ready[j] => i = j

\* The worker's copies are of distinct rows that are not settled, and count POSTs
\* that were made.
ClaimInv ==
  /\ \A i \in 1 .. Len(claim) :
       /\ fate[claim[i].row] \in {"owed", "gone"}
       /\ claim[i].attempt < WebhookAttempts
       /\ claim[i].attempt <= posts[claim[i].row]
  /\ \A i, j \in 1 .. Len(claim) : claim[i].row = claim[j].row => i = j

\* A fan-out that is not inserted yet concerns its own event and new rows.
FanoutInv ==
  \A v \in Notices : \A d \in fanout[v] : d \in {v} \X Receivers /\ fate[d] = "none"

\* What is known of the head of the claim has happened.
AnswerInv ==
  /\ answer # "none" => claim # <<>>
  /\ answer = "ok" => claim[1].row \in accepted
  /\ answer = "refused" => claim[1].row \in refusals
  /\ answer = "failed" => claim[1].attempt < posts[claim[1].row]

\* The column attempt counts POSTs that were made.
AttemptInv ==
  \A d \in Deliveries :
    /\ fate[d] = "none" => attempt[d] = 0
    /\ fate[d] = "owed" => attempt[d] < WebhookAttempts /\ attempt[d] <= posts[d]

WebhookInv ==
  /\ WebhookTypeOK /\ ReadyInv /\ ClaimInv /\ FanoutInv /\ AnswerInv /\ AttemptInv
  /\ DeadIsEarned

---------------------------------------------------------------------------
(* The initial state, and the steps.                                       *)

\* The invariant holds in an empty outbox.
LEMMA WebhookInvInit == WebhookInit => WebhookInv
BY WebhookConstants
   DEF WebhookInit, WebhookInv, WebhookTypeOK, ReadyInv, ClaimInv, FanoutInv, AnswerInv,
       AttemptInv, DeadIsEarned, Answers

\* The rows of a fan-out are finitely many, so they have orders.
LEMMA FanoutIsFinite ==
  ASSUME NEW S \in SUBSET Deliveries
  PROVE  Cardinality(S) \in Nat
<1>1. IsFiniteSet(Deliveries)
  BY FS_Product, WebhookConstants DEF Deliveries
<1>2. IsFiniteSet(S)
  BY <1>1, FS_Subset
<1> QED
  BY <1>2, FS_CardinalityType

Budget == [edits : Nat, troubles : Nat]

\* The bounds keep their type.
LEMMA BudgetType ==
  ASSUME left \in Budget, Trouble \/ Edit
  PROVE  left' \in Budget
BY DEF Budget, Trouble, Edit

\* Steps that change neither a row nor what is known of a claimed delivery.
LEMMA FrameStep ==
  ASSUME WebhookInv, WebhookTypeOK',
         UNCHANGED <<rowVars, claim, answer, accepted, refusals, posts>>, FanoutInv'
  PROVE  WebhookInv'
BY DEF WebhookInv, WebhookTypeOK, ReadyInv, ClaimInv, AnswerInv, AttemptInv, DeadIsEarned, rowVars

LEMMA PublishListsStep ==
  ASSUME WebhookInv, NEW v \in Notices, PublishLists(v)
  PROVE  WebhookInv'
<1> USE DEF WebhookInv
<1>1. {v} \X Enabled \in SUBSET Deliveries
  BY DEF WebhookTypeOK, Enabled, Deliveries
<1>2. WebhookTypeOK'
  BY <1>1 DEF WebhookTypeOK, PublishLists, rowVars, endpointVars
<1>3. FanoutInv'
  BY DEF WebhookTypeOK, FanoutInv, PublishLists, rowVars, Enabled
<1> QED
  BY <1>2, <1>3, FrameStep DEF PublishLists, rowVars

LEMMA PublishFailsStep ==
  ASSUME WebhookInv, NEW v \in Notices, PublishFails(v)
  PROVE  WebhookInv'
<1> USE DEF WebhookInv
<1>1. left' \in Budget
  BY BudgetType DEF WebhookTypeOK, Budget, PublishFails
<1>0. WebhookTypeOK'
  BY <1>1 DEF WebhookTypeOK, PublishFails, Budget, rowVars, endpointVars
<1>2. FanoutInv'
  BY DEF WebhookTypeOK, FanoutInv, PublishFails, rowVars
<1> QED
  BY <1>0, <1>2, FrameStep DEF PublishFails, rowVars

LEMMA EndpointStep ==
  ASSUME WebhookInv, NEW e \in Receivers, UpdateEndpoint(e) \/ SecretLost(e)
  PROVE  WebhookInv'
<1> USE DEF WebhookInv
<1>1. left' \in Budget
  BY BudgetType DEF WebhookTypeOK, Budget, UpdateEndpoint, SecretLost
<1>0. WebhookTypeOK'
  BY <1>1 DEF WebhookTypeOK, UpdateEndpoint, SecretLost, Budget, rowVars
<1>2. FanoutInv'
  BY DEF FanoutInv, UpdateEndpoint, SecretLost, rowVars
<1> QED
  BY <1>0, <1>2, FrameStep DEF UpdateEndpoint, SecretLost, rowVars

---------------------------------------------------------------------------
(* Steps that change rows or the claim.                                    *)

\* The elements of a sequence are of its type.
LEMMA DueElements ==
  ASSUME NEW T, NEW s \in Seq(T)
  PROVE  Len(s) \in Nat /\ DOMAIN s = 1 .. Len(s) /\ \A i \in 1 .. Len(s) : s[i] \in T
OBVIOUS

\* The length and the elements of a concatenation.
LEMMA Concatenation ==
  ASSUME NEW T, NEW s \in Seq(T), NEW t \in Seq(T)
  PROVE  /\ Len(s \o t) = Len(s) + Len(t)
         /\ \A i \in 1 .. Len(s) + Len(t) :
              \/ i \in 1 .. Len(s) /\ (s \o t)[i] = s[i]
              \/ i - Len(s) \in 1 .. Len(t) /\ (s \o t)[i] = t[i - Len(s)]
OBVIOUS

\* A record of a row and its attempt is a claim.
LEMMA ClaimOf ==
  ASSUME NEW d \in Deliveries, NEW a \in 0 .. WebhookAttempts
  PROVE  [row |-> d, attempt |-> a] \in Claims
BY DEF Claims

LEMMA ReadyElements ==
  ASSUME WebhookTypeOK
  PROVE  /\ ready \in Seq(Deliveries) /\ Len(ready) \in Nat /\ DOMAIN ready = 1 .. Len(ready)
         /\ \A i \in 1 .. Len(ready) : ready[i] \in Deliveries
<1>1. ready \in Seq(Deliveries)
  BY DEF WebhookTypeOK
<1> QED
  BY <1>1, DueElements

LEMMA ClaimElements ==
  ASSUME WebhookTypeOK
  PROVE  /\ claim \in Seq(Claims) /\ Len(claim) \in Nat
         /\ \A i \in 1 .. Len(claim) : /\ claim[i] \in Claims
                                      /\ claim[i].row \in Deliveries
                                      /\ claim[i].attempt \in 0 .. WebhookAttempts
<1>1. claim \in Seq(Claims)
  BY DEF WebhookTypeOK, Claims
<1>2. Len(claim) \in Nat /\ \A i \in 1 .. Len(claim) : claim[i] \in Claims
  BY <1>1, DueElements
<1> QED
  BY <1>1, <1>2 DEF Claims

LEMMA PublishInsertsStep ==
  ASSUME WebhookInv, NEW v \in Notices, PublishInserts(v)
  PROVE  WebhookInv'
<1> USE DEF WebhookInv
<1> DEFINE S == Inserted(fanout[v])
<1>1. S \in SUBSET fanout[v] /\ S \in SUBSET Deliveries
  BY DEF Inserted, WebhookTypeOK
<1>2. \A d \in S : fate[d] = "none" /\ d \in {v} \X Receivers
  BY <1>1 DEF FanoutInv
<1>3. PICK q \in Orders(S) : ready' = ready \o q
  BY DEF PublishInserts
<1>4. Cardinality(S) \in Nat
  BY <1>1, FanoutIsFinite
<1>5. q \in [1 .. Cardinality(S) -> S] /\ \A i, j \in 1 .. Cardinality(S) : q[i] = q[j] => i = j
  BY <1>3 DEF Orders
<1>6. q \in Seq(Deliveries) /\ Len(q) = Cardinality(S)
  BY <1>1, <1>4, <1>5
<1>7. fate' = [d \in Deliveries |-> IF d \in S THEN "owed" ELSE fate[d]]
  BY DEF PublishInserts
<1> HIDE DEF S
<1>8. ready' \in Seq(Deliveries)
  BY <1>3, <1>6 DEF WebhookTypeOK
<1>9. WebhookTypeOK'
  BY <1>7, <1>8 DEF WebhookTypeOK, PublishInserts, endpointVars
<1>10. ReadyInv'
  <2>0. ready \in Seq(Deliveries)
    BY ReadyElements
  <2>1. Len(ready') = Len(ready) + Len(q)
    BY <1>3, <1>6, <2>0, Concatenation
  <2>2. \A i \in 1 .. Len(ready') :
           \/ i \in 1 .. Len(ready) /\ ready'[i] = ready[i]
           \/ i - Len(ready) \in 1 .. Len(q) /\ ready'[i] = q[i - Len(ready)]
    BY <1>3, <1>6, <2>0, <2>1, Concatenation
  <2>3. \A i \in 1 .. Len(ready) : ready[i] \in Deliveries /\ ready[i] \notin S
    BY <1>2, ReadyElements DEF ReadyInv
  <2>4. \A i \in 1 .. Len(q) : q[i] \in S /\ q[i] \in Deliveries
    BY <1>1, <1>5, <1>6
  <2>5. \A i \in 1 .. Len(ready') : fate'[ready'[i]] \in {"owed", "gone"}
    BY <1>7, <2>2, <2>3, <2>4 DEF ReadyInv
  <2>6. \A i, j \in 1 .. Len(ready') : ready'[i] = ready'[j] => i = j
    <3> TAKE i, j \in 1 .. Len(ready')
    <3> HAVE ready'[i] = ready'[j]
    <3>0. Len(ready) \in Nat /\ Len(q) \in Nat /\ i \in Nat /\ j \in Nat
      BY <1>4, <1>6, <2>1 DEF WebhookTypeOK
    <3>1. CASE i \in 1 .. Len(ready) /\ ready'[i] = ready[i]
      <4>1. j \in 1 .. Len(ready) /\ ready'[j] = ready[j]
        BY <2>2, <2>3, <2>4, <3>1
      <4> QED
        BY <3>1, <4>1 DEF ReadyInv
    <3>2. CASE i - Len(ready) \in 1 .. Len(q) /\ ready'[i] = q[i - Len(ready)]
      <4>1. j - Len(ready) \in 1 .. Len(q) /\ ready'[j] = q[j - Len(ready)]
        BY <2>2, <2>3, <2>4, <3>2
      <4>2. i - Len(ready) = j - Len(ready)
        BY <1>5, <1>6, <3>2, <4>1
      <4> QED
        BY <3>0, <4>2
    <3> QED
      BY <2>2, <3>1, <3>2
  <2> QED
    BY <2>5, <2>6 DEF ReadyInv
<1>11. ClaimInv'
  <2>1. \A i \in 1 .. Len(claim) : claim[i] \in Claims /\ claim[i].row \in Deliveries
    BY ClaimElements
  <2> QED
    BY <1>2, <1>7, <2>1 DEF ClaimInv, PublishInserts
<1>12. FanoutInv'
  <2> SUFFICES ASSUME NEW w \in Notices, NEW d \in fanout'[w]
               PROVE  d \in {w} \X Receivers /\ fate'[d] = "none"
    BY DEF FanoutInv
  <2>1. w # v /\ d \in fanout[w]
    BY DEF PublishInserts, WebhookTypeOK
  <2>2. d \in {w} \X Receivers /\ fate[d] = "none" /\ d \in Deliveries
    BY <2>1 DEF FanoutInv, WebhookTypeOK
  <2>3. d \notin S
    BY <1>2, <2>1, <2>2
  <2> QED
    BY <1>7, <2>2, <2>3
<1>13. AnswerInv'
  BY DEF AnswerInv, PublishInserts
<1>14. AttemptInv'
  <2> SUFFICES ASSUME NEW d \in Deliveries
               PROVE  /\ fate'[d] = "none" => attempt'[d] = 0
                      /\ fate'[d] = "owed" => attempt'[d] < WebhookAttempts /\ attempt'[d] <= posts'[d]
    BY DEF AttemptInv
  <2>1. attempt' = attempt /\ posts' = posts /\ posts[d] \in Nat
    BY DEF PublishInserts, WebhookTypeOK
  <2>2. CASE d \in S
    BY <1>2, <1>7, <2>1, <2>2, WebhookConstants DEF AttemptInv
  <2>3. CASE d \notin S
    BY <1>7, <2>1, <2>3 DEF AttemptInv
  <2> QED
    BY <2>2, <2>3
<1>15. DeadIsEarned'
  BY <1>7 DEF DeadIsEarned, PublishInserts
<1> QED
  BY <1>9, <1>10, <1>11, <1>12, <1>13, <1>14, <1>15

LEMMA ClaimReadyStep ==
  ASSUME WebhookInv, ClaimReady
  PROVE  WebhookInv'
<1> USE DEF WebhookInv
<1>0. PICK n \in 1 .. Len(ready) : \E at \in [1 .. n -> DOMAIN ready] :
        /\ Claimable(n, at)
        /\ claim' = [k \in 1 .. n |-> [row |-> ready[at[k]], attempt |-> attempt[ready[at[k]]]]]
  BY DEF ClaimReady
<1>1. PICK at \in [1 .. n -> DOMAIN ready] :
        /\ Claimable(n, at)
        /\ claim' = [k \in 1 .. n |-> [row |-> ready[at[k]], attempt |-> attempt[ready[at[k]]]]]
  BY <1>0
<1>2. n \in Nat /\ DOMAIN ready = 1 .. Len(ready) /\ Len(ready) \in Nat
  BY <1>1, ReadyElements
<1>3. \A k \in 1 .. n : /\ at[k] \in 1 .. Len(ready)
                        /\ ready[at[k]] \in Deliveries
                        /\ fate[ready[at[k]]] = "owed"
                        /\ attempt[ready[at[k]]] \in 0 .. WebhookAttempts
  <2>1. attempt \in [Deliveries -> 0 .. WebhookAttempts]
    BY DEF WebhookTypeOK
  <2>2. \A k \in 1 .. n : at[k] \in 1 .. Len(ready) /\ Due(at[k])
    BY <1>1, <1>2 DEF Claimable
  <2> QED
    BY <2>1, <2>2, ReadyElements DEF Due
<1>4. n <= BatchSize
  BY <1>1 DEF Claimable
<1>5. \A k \in 1 .. n : /\ claim'[k].row = ready[at[k]]
                        /\ claim'[k].attempt = attempt[ready[at[k]]]
                        /\ claim'[k] = [row |-> ready[at[k]], attempt |-> attempt[ready[at[k]]]]
  BY <1>1
<1>6. \A k \in 1 .. n : claim'[k] \in Claims
  BY <1>3, <1>5, ClaimOf
<1>7. claim' \in Seq(Claims) /\ Len(claim') = n
  <2>1. claim' \in [1 .. n -> Claims]
    BY <1>1, <1>6
  <2> QED
    BY <1>2, <2>1
<1>8. WebhookTypeOK'
  BY <1>4, <1>7 DEF WebhookTypeOK, ClaimReady, Claims, rowVars, endpointVars
<1>9. ClaimInv'
  <2>1. \A k \in 1 .. n : /\ fate'[claim'[k].row] \in {"owed", "gone"}
                          /\ claim'[k].attempt < WebhookAttempts
                          /\ claim'[k].attempt <= posts'[claim'[k].row]
    BY <1>3, <1>5 DEF AttemptInv, ClaimReady, rowVars
  <2>2. \A j, k \in 1 .. n : claim'[j].row = claim'[k].row => j = k
    <3> TAKE j, k \in 1 .. n
    <3> HAVE claim'[j].row = claim'[k].row
    <3>1. ready[at[j]] = ready[at[k]]
      BY <1>5
    <3>2. at[j] = at[k] /\ at[j] \in Nat /\ at[k] \in Nat
      BY <1>3, <3>1 DEF ReadyInv
    <3>3. ~(j < k) /\ ~(k < j)
      BY <1>1, <3>2 DEF Claimable
    <3> QED
      BY <1>2, <3>3
  <2> QED
    BY <1>7, <2>1, <2>2 DEF ClaimInv
<1>10. ReadyInv' /\ FanoutInv' /\ AttemptInv' /\ DeadIsEarned'
  BY DEF ReadyInv, FanoutInv, AttemptInv, DeadIsEarned, ClaimReady, rowVars
<1>11. AnswerInv'
  BY DEF AnswerInv, ClaimReady
<1> QED
  BY <1>8, <1>9, <1>10, <1>11

\* Refused, Posted and PostFailed: the outcome of the delivery at the head.
LEMMA AnswerStep ==
  ASSUME WebhookInv, Refused \/ Posted \/ \E taken \in BOOLEAN : PostFailed(taken)
  PROVE  WebhookInv'
<1> USE DEF WebhookInv
<1>1. /\ claim # <<>> /\ answer = "none"
      /\ UNCHANGED <<rowVars, claim, fanout, endpointVars>>
  BY DEF Refused, Posted, PostFailed
<1>2. Row = claim[1].row /\ Row \in Deliveries /\ 1 \in 1 .. Len(claim)
  BY <1>1, ClaimElements DEF Row
<1>3. left' \in Budget
  <2>1. left \in Budget
    BY DEF WebhookTypeOK, Budget
  <2>2. Trouble \/ left' = left
    BY DEF Refused, Posted, PostFailed
  <2> QED
    BY <2>1, <2>2, BudgetType
<1>4. /\ accepted \subseteq accepted' /\ accepted' \subseteq Deliveries
      /\ refusals \subseteq refusals' /\ refusals' \subseteq Deliveries
      /\ answer' \in Answers
  BY <1>2 DEF Refused, Posted, PostFailed, WebhookTypeOK, Answers
<1>5. /\ posts' \in [Deliveries -> Nat]
      /\ \A d \in Deliveries : posts[d] \in Nat /\ posts[d] <= posts'[d]
  <2>1. posts \in [Deliveries -> Nat]
    BY DEF WebhookTypeOK
  <2>2. posts' = posts \/ posts' = [posts EXCEPT ![Row] = @ + 1]
    BY DEF Refused, Posted, PostFailed
  <2>3. CASE posts' = posts
    BY <2>1, <2>3
  <2>4. CASE posts' = [posts EXCEPT ![Row] = @ + 1]
    BY <1>2, <2>1, <2>4
  <2> QED
    BY <2>2, <2>3, <2>4
<1>6. WebhookTypeOK'
  BY <1>1, <1>3, <1>4, <1>5 DEF WebhookTypeOK, Budget, rowVars, endpointVars
<1>7. ReadyInv' /\ FanoutInv'
  BY <1>1 DEF ReadyInv, FanoutInv, rowVars
<1>8. ClaimInv'
  <2>1. claim' = claim /\ fate' = fate
    BY <1>1 DEF rowVars
  <2>2. \A i \in 1 .. Len(claim) : claim[i].attempt <= posts'[claim[i].row]
    <3> TAKE i \in 1 .. Len(claim)
    <3>1. claim[i].row \in Deliveries /\ claim[i].attempt \in Nat
      BY ClaimElements, WebhookConstants
    <3>2. posts[claim[i].row] \in Nat /\ posts'[claim[i].row] \in Nat
          /\ posts[claim[i].row] <= posts'[claim[i].row]
      BY <1>5, <3>1
    <3>3. claim[i].attempt <= posts[claim[i].row]
      BY DEF ClaimInv
    <3> QED
      BY <3>1, <3>2, <3>3
  <2> QED
    BY <2>1, <2>2 DEF ClaimInv
<1>9. AnswerInv'
  <2>1. claim' = claim
    BY <1>1
  <2>2. CASE Refused
    BY <1>1, <1>2, <2>1, <2>2 DEF AnswerInv, Refused
  <2>3. CASE Posted
    BY <1>1, <1>2, <2>1, <2>3 DEF AnswerInv, Posted
  <2>4. CASE \E taken \in BOOLEAN : PostFailed(taken)
    <3>1. answer' = "failed" /\ posts' = [posts EXCEPT ![Row] = @ + 1]
      BY <2>4 DEF PostFailed
    <3>2. posts'[Row] = posts[Row] + 1 /\ posts[Row] \in Nat
      BY <1>2, <3>1 DEF WebhookTypeOK
    <3>3. claim[1].attempt <= posts[Row] /\ claim[1].attempt \in Nat
      BY <1>2, ClaimElements, WebhookConstants DEF ClaimInv
    <3> QED
      BY <1>1, <1>2, <2>1, <3>1, <3>2, <3>3 DEF AnswerInv
  <2> QED
    BY <2>2, <2>3, <2>4
<1>10. AttemptInv'
  <2> SUFFICES ASSUME NEW d \in Deliveries, fate[d] = "owed"
               PROVE  attempt[d] <= posts'[d]
    BY <1>1 DEF AttemptInv, rowVars
  <2>1. attempt[d] <= posts[d] /\ attempt[d] \in Nat /\ posts'[d] \in Nat
    BY <1>5, WebhookConstants DEF AttemptInv, WebhookTypeOK
  <2> QED
    BY <1>5, <2>1
<1>11. DeadIsEarned'
  <2> SUFFICES ASSUME NEW d \in Deliveries, fate[d] = "dead"
               PROVE  d \in refusals' \/ posts'[d] >= WebhookAttempts
    BY <1>1 DEF DeadIsEarned, rowVars
  <2>1. posts[d] \in Nat /\ posts'[d] \in Nat /\ posts[d] <= posts'[d]
    BY <1>5
  <2> QED
    BY <1>4, <2>1, WebhookConstants DEF DeadIsEarned
<1> QED
  BY <1>6, <1>7, <1>8, <1>9, <1>10, <1>11

\* Going on to the next delivery of the claim, while other rows stay as they are.
LEMMA NextDeliveryInv ==
  ASSUME WebhookInv, claim # <<>>, NextDelivery, posts' = posts,
         \A i \in 2 .. Len(claim) : fate'[claim[i].row] = fate[claim[i].row]
  PROVE  ClaimInv' /\ AnswerInv' /\ claim' \in Seq(Claims) /\ Len(claim') <= BatchSize
         /\ answer' \in Answers
<1> USE DEF WebhookInv
<1>0. claim \in Seq(Claims) /\ Len(claim) \in Nat
  BY ClaimElements
<1>1. /\ claim' \in Seq(Claims) /\ Len(claim') = Len(claim) - 1 /\ Len(claim) > 0
      /\ \A i \in 1 .. Len(claim') : claim'[i] = claim[i + 1] /\ i + 1 \in 2 .. Len(claim)
  <2>1. claim' = Tail(claim)
    BY DEF NextDelivery
  <2> QED
    BY <1>0, <2>1
<1>2. Len(claim') <= BatchSize
  BY <1>0, <1>1, WebhookConstants DEF WebhookTypeOK
<1>3. \A i \in 1 .. Len(claim') : /\ fate'[claim'[i].row] \in {"owed", "gone"}
                                  /\ claim'[i].attempt < WebhookAttempts
                                  /\ claim'[i].attempt <= posts'[claim'[i].row]
  <2> TAKE i \in 1 .. Len(claim')
  <2>1. claim'[i] = claim[i + 1] /\ i + 1 \in 2 .. Len(claim) /\ i + 1 \in 1 .. Len(claim)
    BY <1>0, <1>1
  <2> QED
    BY <2>1 DEF ClaimInv
<1>4. \A i, j \in 1 .. Len(claim') : claim'[i].row = claim'[j].row => i = j
  <2> TAKE i, j \in 1 .. Len(claim')
  <2> HAVE claim'[i].row = claim'[j].row
  <2>1. i + 1 \in 1 .. Len(claim) /\ j + 1 \in 1 .. Len(claim) /\ i \in Nat /\ j \in Nat
    BY <1>0, <1>1
  <2>2. claim[i + 1].row = claim[j + 1].row
    BY <1>1
  <2>3. i + 1 = j + 1
    BY <2>1, <2>2 DEF ClaimInv
  <2> QED
    BY <2>1, <2>3
<1>5. answer' = "none"
  BY DEF NextDelivery
<1> QED
  BY <1>1, <1>2, <1>3, <1>4, <1>5 DEF ClaimInv, AnswerInv, Answers

LEMMA MarkFailsStep ==
  ASSUME WebhookInv, MarkFails
  PROVE  WebhookInv'
<1> USE DEF WebhookInv
<1>1. ClaimInv' /\ AnswerInv' /\ claim' \in Seq(Claims) /\ Len(claim') <= BatchSize /\ answer' \in Answers
  BY NextDeliveryInv DEF MarkFails, rowVars
<1>2. left' \in Budget
  BY BudgetType DEF MarkFails, WebhookTypeOK, Budget
<1>3. WebhookTypeOK'
  BY <1>1, <1>2 DEF WebhookTypeOK, Budget, Claims, MarkFails, rowVars, endpointVars
<1>4. ReadyInv' /\ FanoutInv' /\ AttemptInv' /\ DeadIsEarned'
  BY DEF ReadyInv, FanoutInv, AttemptInv, DeadIsEarned, MarkFails, rowVars
<1> QED
  BY <1>1, <1>3, <1>4

\* Taking one place out of a sequence of distinct elements.
Distinct(s) == \A i, j \in 1 .. Len(s) : s[i] = s[j] => i = j

ElementsBut(t, s, k) == \A i \in 1 .. Len(t) : \E m \in 1 .. Len(s) : t[i] = s[m] /\ m # k

LEMMA Removal ==
  ASSUME NEW T, NEW s \in Seq(T), NEW k \in 1 .. Len(s), Distinct(s)
  PROVE  CutAt(s, k) \in Seq(T) /\ ElementsBut(CutAt(s, k), s, k) /\ Distinct(CutAt(s, k))
<1> DEFINE t == CutAt(s, k)
<1>0. \A i, j \in 1 .. Len(s) : s[i] = s[j] => i = j
  BY DEF Distinct
<1> DEFINE left0 == SubSeq(s, 1, k - 1)
           right0 == SubSeq(s, k + 1, Len(s))
<1>1. Len(s) \in Nat /\ k \in Nat /\ 1 <= k /\ k <= Len(s)
  OBVIOUS
<1>2. left0 \in Seq(T) /\ Len(left0) = k - 1 /\ \A i \in 1 .. k - 1 : left0[i] = s[i]
  BY <1>1
<1>3. right0 \in Seq(T) /\ Len(right0) = Len(s) - k /\ \A i \in 1 .. Len(s) - k : right0[i] = s[i + k]
  BY <1>1
<1> HIDE DEF left0, right0
<1>4. t = left0 \o right0
  BY DEF left0, right0, CutAt
<1> HIDE DEF t
<1>5. t \in Seq(T) /\ Len(t) = Len(s) - 1
  <2>1. left0 \o right0 \in Seq(T)
    BY <1>2, <1>3
  <2>2. Len(left0 \o right0) = Len(left0) + Len(right0)
    BY <1>2, <1>3, Concatenation
  <2>3. (k - 1) + (Len(s) - k) = Len(s) - 1
    BY <1>1
  <2> QED
    BY <1>2, <1>3, <1>4, <2>1, <2>2, <2>3
<1>6. \A i \in 1 .. Len(t) : \/ i < k /\ t[i] = s[i] /\ i \in 1 .. Len(s)
                             \/ i >= k /\ t[i] = s[i + 1] /\ i + 1 \in 1 .. Len(s)
  <2> TAKE i \in 1 .. Len(t)
  <2>1. \/ i \in 1 .. Len(left0) /\ (left0 \o right0)[i] = left0[i]
        \/ i - Len(left0) \in 1 .. Len(right0) /\ (left0 \o right0)[i] = right0[i - Len(left0)]
    <3>1. left0 \in Seq(T) /\ right0 \in Seq(T) /\ Len(left0) = k - 1 /\ Len(right0) = Len(s) - k
      BY <1>2, <1>3
    <3>2. (k - 1) + (Len(s) - k) = Len(s) - 1
      BY <1>1
    <3>3. i \in 1 .. Len(left0) + Len(right0)
      BY <1>5, <3>1, <3>2
    <3> QED
      BY <3>1, <3>3, Concatenation
  <2>2. CASE i \in 1 .. Len(left0) /\ (left0 \o right0)[i] = left0[i]
    BY <1>1, <1>2, <1>4, <2>2
  <2>3. CASE i - Len(left0) \in 1 .. Len(right0) /\ (left0 \o right0)[i] = right0[i - Len(left0)]
    <3>1. i - (k - 1) \in 1 .. Len(s) - k /\ t[i] = right0[i - (k - 1)] /\ i \in Nat
      <4>1. Len(left0) = k - 1 /\ Len(right0) = Len(s) - k
        BY <1>2, <1>3
      <4>2. i \in Nat
        BY <1>1, <1>5
      <4> QED
        BY <1>4, <2>3, <4>1, <4>2
    <3>2. t[i] = s[(i - (k - 1)) + k]
      BY <1>3, <3>1
    <3>3. (i - (k - 1)) + k = i + 1 /\ i >= k /\ i + 1 \in 1 .. Len(s)
      BY <1>1, <3>1
    <3> QED
      BY <3>2, <3>3
  <2> QED
    BY <2>1, <2>2, <2>3
<1>7. \A i \in 1 .. Len(t) : \E m \in 1 .. Len(s) : t[i] = s[m] /\ m # k
  <2> TAKE i \in 1 .. Len(t)
  <2>0. i \in Nat
    BY <1>1, <1>5
  <2>1. CASE i < k /\ t[i] = s[i] /\ i \in 1 .. Len(s)
    BY <1>1, <2>0, <2>1
  <2>2. CASE i >= k /\ t[i] = s[i + 1] /\ i + 1 \in 1 .. Len(s)
    <3>1. i + 1 # k
      BY <1>1, <2>0, <2>2
    <3> QED
      BY <2>2, <3>1
  <2> QED
    BY <1>6, <2>1, <2>2
<1>8. \A i, j \in 1 .. Len(t) : t[i] = t[j] => i = j
  <2> TAKE i, j \in 1 .. Len(t)
  <2> HAVE t[i] = t[j]
  <2>0. i \in Nat /\ j \in Nat
    BY <1>1, <1>5
  <2>1. CASE i < k /\ t[i] = s[i] /\ i \in 1 .. Len(s)
    <3>1. CASE j < k /\ t[j] = s[j] /\ j \in 1 .. Len(s)
      BY <1>0, <2>1, <3>1
    <3>2. CASE j >= k /\ t[j] = s[j + 1] /\ j + 1 \in 1 .. Len(s)
      <4>1. i = j + 1
        BY <1>0, <2>1, <3>2
      <4> QED
        BY <1>1, <2>0, <2>1, <3>2, <4>1
    <3> QED
      BY <1>6, <3>1, <3>2
  <2>2. CASE i >= k /\ t[i] = s[i + 1] /\ i + 1 \in 1 .. Len(s)
    <3>1. CASE j < k /\ t[j] = s[j] /\ j \in 1 .. Len(s)
      <4>1. i + 1 = j
        BY <1>0, <2>2, <3>1
      <4> QED
        BY <1>1, <2>0, <2>2, <3>1, <4>1
    <3>2. CASE j >= k /\ t[j] = s[j + 1] /\ j + 1 \in 1 .. Len(s)
      <4>1. i + 1 = j + 1
        BY <1>0, <2>2, <3>2
      <4> QED
        BY <2>0, <4>1
    <3> QED
      BY <1>6, <3>1, <3>2
  <2> QED
    BY <1>6, <2>1, <2>2
<1> QED
  BY <1>5, <1>7, <1>8 DEF t, ElementsBut, Distinct

\* MarkDelivered and MarkFailed: the row at the head is settled or waits again.
LEMMA MarkStep ==
  ASSUME WebhookInv, Mark
  PROVE  WebhookInv'
<1> USE DEF WebhookInv
<1>0. /\ claim # <<>> /\ answer # "none" /\ NextDelivery
      /\ UNCHANGED <<fanout, endpointVars, accepted, refusals, posts, left>>
  BY DEF Mark
<1>1. Row = claim[1].row /\ Row \in Deliveries /\ 1 \in 1 .. Len(claim) /\ Head(claim) = claim[1]
  BY <1>0, ClaimElements DEF Row
<1>2. /\ claim[1].attempt \in Nat /\ claim[1].attempt < WebhookAttempts
      /\ fate[Row] \in {"owed", "gone"}
  BY <1>1, ClaimElements, WebhookConstants DEF ClaimInv
<1>3. CASE ~RowExists
  <2>1. UNCHANGED rowVars
    BY <1>3 DEF Mark
  <2>2. ClaimInv' /\ AnswerInv' /\ claim' \in Seq(Claims) /\ Len(claim') <= BatchSize /\ answer' \in Answers
    BY <1>0, <2>1, NextDeliveryInv DEF rowVars
  <2>3. WebhookTypeOK'
    BY <1>0, <2>1, <2>2 DEF WebhookTypeOK, Claims, rowVars, endpointVars
  <2>4. ReadyInv' /\ FanoutInv' /\ AttemptInv' /\ DeadIsEarned'
    BY <1>0, <2>1 DEF ReadyInv, FanoutInv, AttemptInv, DeadIsEarned, rowVars
  <2> QED
    BY <2>2, <2>3, <2>4
<1>4. CASE RowExists
  <2> DEFINE stored == IF answer = "ok" THEN "delivered"
                       ELSE IF NextAttempt >= WebhookAttempts THEN "dead" ELSE fate[Row]
  <2>1. /\ NotReady(Row)
        /\ fate' = [fate EXCEPT ![Row] = stored]
        /\ attempt' = IF answer = "ok" THEN attempt ELSE [attempt EXCEPT ![Row] = NextAttempt]
    BY <1>4 DEF Mark
  <2>2. fate[Row] = "owed"
    BY <1>2, <1>4 DEF RowExists
  <2>3. stored \in {"delivered", "dead", "owed"}
    BY <2>2
  <2>4. NextAttempt \in 0 .. WebhookAttempts
    BY <1>1, <1>2, WebhookConstants DEF NextAttempt
  <2>5. /\ fate' \in [Deliveries -> {"none", "owed", "delivered", "dead", "gone"}]
        /\ fate'[Row] = stored
        /\ \A d \in Deliveries : d # Row => fate'[d] = fate[d]
    <3>1. fate \in [Deliveries -> {"none", "owed", "delivered", "dead", "gone"}]
      BY DEF WebhookTypeOK
    <3> HIDE DEF stored
    <3> QED
      BY <1>1, <2>1, <2>3, <3>1
  <2>6. /\ attempt' \in [Deliveries -> 0 .. WebhookAttempts]
        /\ answer # "ok" => attempt'[Row] = NextAttempt
        /\ \A d \in Deliveries : d # Row => attempt'[d] = attempt[d]
    <3>1. attempt \in [Deliveries -> 0 .. WebhookAttempts]
      BY DEF WebhookTypeOK
    <3> QED
      BY <1>1, <2>1, <2>4, <3>1
  <2>7. PICK p \in 1 .. Len(ready) :
          ready[p] = Row /\ ready' = CutAt(ready, p)
    BY <2>1, ReadyElements DEF NotReady
  <2>8. /\ ready' \in Seq(Deliveries)
        /\ \A i \in 1 .. Len(ready') : \E m \in 1 .. Len(ready) : ready'[i] = ready[m] /\ m # p
        /\ \A i, j \in 1 .. Len(ready') : ready'[i] = ready'[j] => i = j
    <3>1. Distinct(ready) /\ ready \in Seq(Deliveries)
      BY ReadyElements DEF ReadyInv, Distinct
    <3>2. ready' \in Seq(Deliveries) /\ ElementsBut(ready', ready, p) /\ Distinct(ready')
      BY <2>7, <3>1, Removal
    <3> QED
      BY <3>2 DEF ElementsBut, Distinct
  <2> HIDE DEF stored
  <2>9. \A i \in 2 .. Len(claim) : fate'[claim[i].row] = fate[claim[i].row]
    <3> TAKE i \in 2 .. Len(claim)
    <3>1. i \in 1 .. Len(claim) /\ i # 1
      BY ClaimElements
    <3>2. claim[i].row # Row /\ claim[i].row \in Deliveries
      BY <1>1, <3>1, ClaimElements DEF ClaimInv
    <3> QED
      BY <2>5, <3>2
  <2>10. ClaimInv' /\ AnswerInv' /\ claim' \in Seq(Claims) /\ Len(claim') <= BatchSize /\ answer' \in Answers
    BY <1>0, <2>9, NextDeliveryInv
  <2>11. WebhookTypeOK'
    BY <1>0, <2>5, <2>6, <2>8, <2>10 DEF WebhookTypeOK, Claims, endpointVars
  <2>12. ReadyInv'
    <3>1. \A i \in 1 .. Len(ready') : fate'[ready'[i]] \in {"owed", "gone"}
      <4> TAKE i \in 1 .. Len(ready')
      <4>1. PICK m \in 1 .. Len(ready) : ready'[i] = ready[m] /\ m # p
        BY <2>8
      <4>2. ready[m] # Row /\ ready[m] \in Deliveries
        BY <2>7, <4>1, ReadyElements DEF ReadyInv
      <4> QED
        BY <2>5, <4>1, <4>2 DEF ReadyInv
    <3> QED
      BY <2>8, <3>1 DEF ReadyInv
  <2>13. FanoutInv'
    <3> SUFFICES ASSUME NEW v \in Notices, NEW d \in fanout[v]
                 PROVE  d \in {v} \X Receivers /\ fate'[d] = "none"
      BY <1>0 DEF FanoutInv
    <3>1. d \in {v} \X Receivers /\ fate[d] = "none" /\ d \in Deliveries
      BY DEF FanoutInv, WebhookTypeOK
    <3> QED
      BY <2>2, <2>5, <3>1
  <2>14. posts' = posts /\ refusals' = refusals /\ posts[Row] \in Nat
    BY <1>0, <1>1 DEF WebhookTypeOK
  <2>15. answer # "ok" => \/ answer = "refused" /\ NextAttempt = WebhookAttempts /\ Row \in refusals
                          \/ answer = "failed" /\ NextAttempt = claim[1].attempt + 1
                             /\ claim[1].attempt + 1 <= posts[Row]
    <3>1. answer \in {"ok", "failed", "refused"}
      BY <1>0 DEF WebhookTypeOK, Answers
    <3> QED
      BY <1>1, <1>2, <2>14, <3>1 DEF NextAttempt, AnswerInv
  <2>16. AttemptInv'
    <3> SUFFICES ASSUME NEW d \in Deliveries
                 PROVE  /\ fate'[d] = "none" => attempt'[d] = 0
                        /\ fate'[d] = "owed" => attempt'[d] < WebhookAttempts /\ attempt'[d] <= posts[d]
      BY <2>14 DEF AttemptInv
    <3>1. CASE d # Row
      BY <2>5, <2>6, <3>1 DEF AttemptInv
    <3>2. CASE d = Row
      <4>1. stored = "owed" => answer # "ok" /\ NextAttempt < WebhookAttempts
        BY <2>4, WebhookConstants DEF stored
      <4> QED
        BY <1>2, <2>3, <2>5, <2>6, <2>15, <3>2, <4>1, WebhookConstants
    <3> QED
      BY <3>1, <3>2
  <2>17. DeadIsEarned'
    <3> SUFFICES ASSUME NEW d \in Deliveries, fate'[d] = "dead"
                 PROVE  d \in refusals \/ posts[d] >= WebhookAttempts
      BY <2>14 DEF DeadIsEarned
    <3>1. CASE d # Row
      BY <2>5, <3>1 DEF DeadIsEarned
    <3>2. CASE d = Row
      <4>1. stored = "dead" => answer # "ok" /\ NextAttempt >= WebhookAttempts
        BY <2>2 DEF stored
      <4> QED
        BY <1>2, <2>5, <2>14, <2>15, <3>2, <4>1, WebhookConstants
    <3> QED
      BY <3>1, <3>2
  <2> QED
    BY <2>10, <2>11, <2>12, <2>13, <2>16, <2>17
<1> QED
  BY <1>3, <1>4

LEMMA BackoffStep ==
  ASSUME WebhookInv, NEW d \in Deliveries, BackoffLapses(d)
  PROVE  WebhookInv'
<1> USE DEF WebhookInv
<1>1. ready \in Seq(Deliveries) /\ Len(ready) \in Nat /\ ready' = Append(ready, d)
  BY ReadyElements DEF BackoffLapses
<1>2. /\ ready' \in Seq(Deliveries) /\ Len(ready') = Len(ready) + 1
      /\ \A i \in 1 .. Len(ready) : ready'[i] = ready[i]
      /\ ready'[Len(ready) + 1] = d
  BY <1>1
<1>3. fate[d] = "owed" /\ \A i \in 1 .. Len(ready) : ready[i] # d
  BY ReadyElements DEF BackoffLapses, InReady
<1>4. WebhookTypeOK'
  BY <1>2 DEF WebhookTypeOK, BackoffLapses, endpointVars
<1>5. \A i \in 1 .. Len(ready') : i \in 1 .. Len(ready) \/ i = Len(ready) + 1
  BY <1>1, <1>2
<1>6. ReadyInv'
  <2>1. \A i \in 1 .. Len(ready') : fate[ready'[i]] \in {"owed", "gone"}
    BY <1>2, <1>3, <1>5 DEF ReadyInv
  <2>2. \A i, j \in 1 .. Len(ready') : ready'[i] = ready'[j] => i = j
    BY <1>2, <1>3, <1>5 DEF ReadyInv
  <2> QED
    BY <2>1, <2>2 DEF ReadyInv, BackoffLapses
<1>7. ClaimInv' /\ FanoutInv' /\ AnswerInv' /\ AttemptInv' /\ DeadIsEarned'
  BY DEF ClaimInv, FanoutInv, AnswerInv, AttemptInv, DeadIsEarned, BackoffLapses
<1> QED
  BY <1>4, <1>6, <1>7

\* PruneOutbox and DeleteEndpoint: rows disappear, and only those.
LEMMA RowsGoStep ==
  ASSUME WebhookInv, NEW G \in SUBSET Deliveries,
         \A d \in G : fate[d] # "none",
         fate' = [d \in Deliveries |-> IF d \in G THEN "gone" ELSE fate[d]],
         open' \subseteq Receivers, left' \in Budget,
         UNCHANGED <<attempt, ready, claim, answer, fanout, disabled, unreadable, accepted,
                     refusals, posts>>
  PROVE  WebhookInv'
<1> USE DEF WebhookInv
<1>1. WebhookTypeOK'
  BY DEF WebhookTypeOK, Budget
<1>2. ReadyInv'
  BY ReadyElements DEF ReadyInv
<1>3. ClaimInv'
  BY ClaimElements DEF ClaimInv
<1>4. FanoutInv'
  <2> SUFFICES ASSUME NEW v \in Notices, NEW d \in fanout[v]
               PROVE  d \in {v} \X Receivers /\ fate'[d] = "none"
    BY DEF FanoutInv
  <2>1. d \in {v} \X Receivers /\ fate[d] = "none" /\ d \in Deliveries
    BY DEF FanoutInv, WebhookTypeOK
  <2> QED
    BY <2>1
<1>5. AnswerInv' /\ AttemptInv' /\ DeadIsEarned'
  BY DEF AnswerInv, AttemptInv, DeadIsEarned
<1> QED
  BY <1>1, <1>2, <1>3, <1>4, <1>5

LEMMA PruneStep ==
  ASSUME WebhookInv, NEW d \in Deliveries, PruneOutbox(d)
  PROVE  WebhookInv'
<1>1. fate' = [x \in Deliveries |-> IF x \in {d} THEN "gone" ELSE fate[x]] /\ fate[d] # "none"
  BY DEF WebhookInv, WebhookTypeOK, PruneOutbox, Prunable
<1>2. open' \subseteq Receivers /\ left' \in Budget
  BY DEF WebhookInv, WebhookTypeOK, PruneOutbox, Budget, endpointVars
<1> QED
  BY <1>1, <1>2, RowsGoStep DEF PruneOutbox, endpointVars

LEMMA DeleteStep ==
  ASSUME WebhookInv, NEW e \in Receivers, DeleteEndpoint(e)
  PROVE  WebhookInv'
<1> DEFINE G == {x \in Deliveries : x[2] = e /\ fate[x] # "none"}
<1>1. fate' = [x \in Deliveries |-> IF x \in G THEN "gone" ELSE fate[x]]
  BY DEF DeleteEndpoint
<1>2. left' \in Budget
  BY BudgetType DEF WebhookInv, WebhookTypeOK, DeleteEndpoint, Budget
<1>3. open' \subseteq Receivers
  BY DEF WebhookInv, WebhookTypeOK, DeleteEndpoint
<1> QED
  BY <1>1, <1>2, <1>3, RowsGoStep DEF DeleteEndpoint

LEMMA CrashStep ==
  ASSUME WebhookInv, PanelCrash
  PROVE  WebhookInv'
<1> USE DEF WebhookInv
<1>1. left' \in Budget
  BY BudgetType DEF WebhookTypeOK, PanelCrash, Budget
<1>2. WebhookTypeOK'
  BY <1>1, WebhookConstants DEF WebhookTypeOK, PanelCrash, Budget, Answers, rowVars, endpointVars
<1>3. ReadyInv' /\ AttemptInv' /\ DeadIsEarned'
  BY DEF ReadyInv, AttemptInv, DeadIsEarned, PanelCrash, rowVars
<1>4. ClaimInv' /\ AnswerInv' /\ FanoutInv'
  BY DEF ClaimInv, AnswerInv, FanoutInv, PanelCrash
<1> QED
  BY <1>2, <1>3, <1>4

\* Every step of the outbox keeps the invariant.
LEMMA WebhookInvStep == WebhookInv /\ [WebhookNext]_webhookVars => WebhookInv'
<1> SUFFICES ASSUME WebhookInv, [WebhookNext]_webhookVars
             PROVE  WebhookInv'
  OBVIOUS
<1>1. CASE UNCHANGED webhookVars
  BY <1>1, FrameStep
     DEF webhookVars, rowVars, endpointVars, WebhookInv, WebhookTypeOK, FanoutInv
<1>2. CASE WebhookNext
  BY <1>2, PublishListsStep, PublishInsertsStep, PublishFailsStep, ClaimReadyStep, AnswerStep,
     MarkStep, MarkFailsStep, BackoffStep, PruneStep, EndpointStep, DeleteStep, CrashStep
     DEF WebhookNext, Delivering
<1> QED
  BY <1>1, <1>2

\* It takes no fairness.
LEMMA WebhookInvAlways == WebhookInit /\ [][WebhookNext]_webhookVars => []WebhookInv
BY WebhookInvInit, WebhookInvStep, PTL

---------------------------------------------------------------------------
(* The theorems.                                                           *)

\* The outbox, the claim and the endpoints keep their types: the worker never
\* holds more than BatchSize rows and never counts past MaxAttempts.
THEOREM WebhookTypeCorrect == WebhookSpec => []WebhookTypeOK
BY WebhookInvAlways, PTL DEF WebhookInv, WebhookSpec

\* A delivery is dead-lettered only after MaxAttempts failed POSTs or a refusal of
\* the preflight (recordFailure, failPermanently), whatever crashes, failed marks
\* and repeated claims come in between.
THEOREM DeadIsEarnedCorrect == WebhookSpec => []DeadIsEarned
BY WebhookInvAlways, PTL DEF WebhookInv, WebhookSpec

\* The fan-out of an event is one step of the abstract outbox.
LEMMA InsertsRefine ==
  ASSUME WebhookInv, NEW v \in Notices, PublishInserts(v)
  PROVE  Promise!OutboxNext
<1> DEFINE S == Inserted(fanout[v])
<1>1. S \in SUBSET Deliveries /\ S \subseteq fanout[v] /\ \A d \in S : d[2] \in open
  BY DEF Inserted, WebhookInv, WebhookTypeOK
<1>2. \A d \in S : fate[d] = "none"
  BY <1>1 DEF WebhookInv, FanoutInv
<1>3. fate' = [d \in Deliveries |-> IF d \in S THEN "owed" ELSE fate[d]]
      /\ accepted' = accepted /\ open' = open
  BY DEF PublishInserts, endpointVars
<1> HIDE DEF S
<1>4. Promise!Owe(S)
  BY <1>1, <1>2, <1>3 DEF Promise!Owe, Promise!Deliveries, Deliveries
<1>5. S \in SUBSET Promise!Deliveries
  BY <1>1 DEF Promise!Deliveries, Deliveries
<1> QED
  BY <1>4, <1>5 DEF Promise!OutboxNext

LEMMA AnswerRefines ==
  ASSUME WebhookInv, Refused \/ Posted \/ \E taken \in BOOLEAN : PostFailed(taken)
  PROVE  Promise!OutboxNext \/ UNCHANGED Promise!outboxVars
<1>1. claim # <<>> /\ fate' = fate /\ open' = open
  BY DEF Refused, Posted, PostFailed, rowVars, endpointVars
<1>2. Row \in Deliveries /\ fate[Row] \in {"owed", "gone"}
  <2>1. Row = claim[1].row /\ 1 \in 1 .. Len(claim) /\ claim[1].row \in Deliveries
    BY <1>1, ClaimElements DEF WebhookInv, Row
  <2> QED
    BY <2>1 DEF WebhookInv, ClaimInv
<1>3. accepted' = accepted \/ accepted' = accepted \union {Row}
  BY DEF Refused, Posted, PostFailed
<1>4. CASE accepted' = accepted
  BY <1>1, <1>4 DEF Promise!outboxVars
<1>5. CASE accepted' = accepted \union {Row}
  <2>1. Promise!Accept(Row)
    BY <1>1, <1>2, <1>5 DEF Promise!Accept
  <2> QED
    BY <1>2, <2>1 DEF Promise!OutboxNext, Promise!Deliveries, Deliveries
<1> QED
  BY <1>3, <1>4, <1>5

LEMMA MarkRefines ==
  ASSUME WebhookInv, Mark
  PROVE  Promise!OutboxNext \/ UNCHANGED Promise!outboxVars
<1>0. claim # <<>> /\ accepted' = accepted /\ open' = open
  BY DEF Mark, endpointVars
<1>1. Row = claim[1].row /\ Row \in Deliveries /\ fate[Row] \in {"owed", "gone"}
  <2>1. Row = claim[1].row /\ 1 \in 1 .. Len(claim) /\ claim[1].row \in Deliveries
    BY <1>0, ClaimElements DEF WebhookInv, Row
  <2> QED
    BY <2>1 DEF WebhookInv, ClaimInv
<1>2. CASE ~RowExists
  BY <1>0, <1>2 DEF Mark, rowVars, Promise!outboxVars
<1>3. CASE RowExists
  <2>1. fate[Row] = "owed"
    BY <1>1, <1>3 DEF RowExists
  <2>2. \/ fate' = [fate EXCEPT ![Row] = "delivered"] /\ answer = "ok"
        \/ fate' = [fate EXCEPT ![Row] = "dead"]
        \/ fate' = [fate EXCEPT ![Row] = fate[Row]]
    BY <1>3 DEF Mark
  <2>3. CASE fate' = [fate EXCEPT ![Row] = "delivered"] /\ answer = "ok"
    <3>1. Row \in accepted
      BY <1>1, <2>3 DEF WebhookInv, AnswerInv
    <3>2. Promise!Settle(Row, "delivered")
      BY <1>0, <2>1, <2>3, <3>1 DEF Promise!Settle
    <3> QED
      BY <1>1, <3>2 DEF Promise!OutboxNext, Promise!Deliveries, Deliveries
  <2>4. CASE fate' = [fate EXCEPT ![Row] = "dead"]
    <3>1. Promise!Settle(Row, "dead")
      BY <1>0, <2>1, <2>4 DEF Promise!Settle
    <3> QED
      BY <1>1, <3>1 DEF Promise!OutboxNext, Promise!Deliveries, Deliveries
  <2>5. CASE fate' = [fate EXCEPT ![Row] = fate[Row]]
    <3>1. fate' = fate
      BY <1>1, <2>5 DEF WebhookInv, WebhookTypeOK
    <3> QED
      BY <1>0, <3>1 DEF Promise!outboxVars
  <2> QED
    BY <2>2, <2>3, <2>4, <2>5
<1> QED
  BY <1>2, <1>3

LEMMA PruneRefines ==
  ASSUME WebhookInv, NEW d \in Deliveries, PruneOutbox(d)
  PROVE  Promise!OutboxNext
<1>1. fate' = [x \in Deliveries |-> IF x \in {d} THEN "gone" ELSE fate[x]]
  BY DEF WebhookInv, WebhookTypeOK, PruneOutbox
<1>2. Promise!Forget({d})
  BY <1>1 DEF Promise!Forget, PruneOutbox, Prunable, endpointVars, Promise!Deliveries, Deliveries
<1> QED
  BY <1>2 DEF Promise!OutboxNext, Promise!Deliveries, Deliveries

LEMMA DeleteRefines ==
  ASSUME NEW e \in Receivers, DeleteEndpoint(e)
  PROVE  Promise!OutboxNext
<1>1. Promise!Close(e)
  BY DEF Promise!Close, DeleteEndpoint, Promise!Deliveries, Deliveries
<1> QED
  BY <1>1 DEF Promise!OutboxNext

\* Every step of the worker, of Publish, of the operator and of a crash is a step
\* of the abstract outbox or leaves it alone.
LEMMA StepRefines ==
  WebhookInv /\ [WebhookNext]_webhookVars => [Promise!OutboxNext]_(Promise!outboxVars)
<1> SUFFICES ASSUME WebhookInv, [WebhookNext]_webhookVars
             PROVE  Promise!OutboxNext \/ UNCHANGED Promise!outboxVars
  OBVIOUS
<1>1. CASE UNCHANGED webhookVars
  BY <1>1 DEF webhookVars, rowVars, endpointVars, Promise!outboxVars
<1>2. CASE \/ \E v \in Notices : PublishLists(v) \/ PublishFails(v)
           \/ ClaimReady \/ MarkFails \/ PanelCrash
           \/ \E d \in Deliveries : BackoffLapses(d)
           \/ \E e \in Receivers : UpdateEndpoint(e) \/ SecretLost(e)
  BY <1>2 DEF PublishLists, PublishFails, ClaimReady, MarkFails, PanelCrash, BackoffLapses,
              UpdateEndpoint, SecretLost, rowVars, endpointVars, Promise!outboxVars
<1>3. CASE WebhookNext
  BY <1>2, <1>3, InsertsRefine, AnswerRefines, MarkRefines, PruneRefines, DeleteRefines
     DEF WebhookNext, Delivering
<1> QED
  BY <1>1, <1>3

\* The refinement of the outbox takes no fairness.
LEMMA OutboxSafe == WebhookInit /\ [][WebhookNext]_webhookVars => AtLeastOnce
<1>1. WebhookInit => Promise!OutboxInit
  BY DEF WebhookInit, Promise!OutboxInit, Promise!Deliveries, Deliveries
<1> QED
  BY <1>1, WebhookInvAlways, StepRefines, PTL DEF AtLeastOnce, Promise!OutboxSpec

\* The webhook subsystem delivers at least once (doc.go): from the fan-out on, a
\* delivery stays owed until a receiver has accepted it, it is dead-lettered or
\* its endpoint is deleted, through every crash, failed write and lost answer.
THEOREM WebhooksRefineOutbox == WebhookSpec => AtLeastOnce
BY OutboxSafe, PTL DEF WebhookSpec
=============================================================================
