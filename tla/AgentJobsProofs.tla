--------------------------- MODULE AgentJobsProofs ---------------------------
(***************************************************************************)
(* What the agent promises of every job, for any jobs, capacities and      *)
(* retention: no reservation outlives its connection, and no handler is    *)
(* entered twice within the cache's retention.                             *)
(***************************************************************************)
EXTENDS AgentJobs, TLAPS

USE AgentAssumption

-----------------------------------------------------------------------------
(***************************************************************************)
(* Facts about sequences and lanes.                                        *)
(***************************************************************************)
LEMMA ElementsAppend ==
    ASSUME NEW S, NEW s \in Seq(S), NEW e \in S
    PROVE  Elements(Append(s, e)) = Elements(s) \cup {e}
BY DEF Elements

LEMMA ElementsTail ==
    ASSUME NEW S, NEW s \in Seq(S), s # <<>>
    PROVE  /\ Tail(s) \in Seq(S) /\ Head(s) \in S /\ Len(Tail(s)) < Len(s)
           /\ Elements(s) = Elements(Tail(s)) \cup {Head(s)}
<1>1. Tail(s) \in Seq(S) /\ Head(s) \in S /\ Len(s) >= 1
  OBVIOUS
<1>2. Len(Tail(s)) = Len(s) - 1 /\ \A i \in 1 .. Len(Tail(s)) : Tail(s)[i] = s[i + 1]
  OBVIOUS
<1>3. Elements(s) \subseteq Elements(Tail(s)) \cup {Head(s)}
  <2> SUFFICES ASSUME NEW i \in 1 .. Len(s), i # 1
               PROVE  s[i] \in Elements(Tail(s))
    BY <1>1 DEF Elements
  <2>1. i - 1 \in 1 .. Len(Tail(s)) /\ Tail(s)[i - 1] = s[i]
    BY <1>1, <1>2
  <2> QED
    BY <2>1 DEF Elements
<1>4. Elements(Tail(s)) \cup {Head(s)} \subseteq Elements(s)
  <2> SUFFICES ASSUME NEW i \in 1 .. Len(Tail(s))
               PROVE  Tail(s)[i] \in Elements(s)
    BY <1>1 DEF Elements
  <2>1. i + 1 \in 1 .. Len(s) /\ Tail(s)[i] = s[i + 1]
    BY <1>1, <1>2
  <2> QED
    BY <2>1 DEF Elements
<1> QED
  BY <1>1, <1>2, <1>3, <1>4

(***************************************************************************)
(* The type invariant, one step per action.                                *)
(***************************************************************************)
LEMMA LaneOfJob == \A j \in Jobs : pipelineForAction(j) \in Lanes
BY DEF Lanes

LEMMA PruneType ==
    ASSUME NEW t \in Nat, completed \in [Jobs -> Completed]
    PROVE  prune(completed, t) \in [Jobs -> Completed]
BY DEF prune, Completed, Never

LEMMA HandledType ==
    ASSUME NEW j \in Jobs, NEW ok \in BOOLEAN, NEW at \in Nat
    PROVE  Handled(j, ok, at) \in Busy
BY DEF Handled, Busy, shouldSendRuntimeSnapshotAfterJob

LEMMA NeverType == Never \in Completed
BY DEF Never, Completed

LEMMA IdleTypes == {Off, Waiting} \subseteq WorkerState /\ {Off, Receiving} \subseteq PumpState
BY DEF WorkerState, PumpState

LEMMA SendingType ==
    ASSUME NEW m \in Message, NEW u \in SUBSET Jobs
    PROVE  [pc |-> "send", msg |-> m, undo |-> u] \in PumpState
BY DEF PumpState

LEMMA MessageType ==
    ASSUME NEW j \in Jobs, NEW ok \in BOOLEAN
    PROVE  Ack(j) \in Message /\ Snapshot(j) \in Message /\ Result(j, ok) \in Message
BY DEF Ack, Snapshot, Result, Message

LEMMA TypeInit == Init => TypeOK
BY NeverType, IdleTypes DEF Init, TypeOK

LEMMA BusyWorker ==
    ASSUME NEW w \in WorkerState, w.pc \notin {"off", "idle"}
    PROVE  /\ w \in Busy
           /\ w.job \in Jobs /\ w.ok \in BOOLEAN /\ w.at \in Nat
           /\ \A ok \in BOOLEAN : AtStep(w, "send", ok) \in Busy /\ AtStep(w, "release", ok) \in Busy
<1>1. w # Off /\ w # Waiting
  BY DEF Off, Waiting
<1>2. w \in Busy
  BY <1>1 DEF WorkerState
<1> QED
  BY <1>2 DEF Busy, AtStep

LEMMA WorkerUpdate ==
    ASSUME NEW l \in Lanes, NEW w \in WorkerState, worker \in [Lanes -> WorkerState]
    PROVE  [worker EXCEPT ![l] = w] \in [Lanes -> WorkerState]
OBVIOUS

LEMMA Sent ==
    ASSUME outbound \in Seq(Message), Room, NEW m \in Message
    PROVE  Append(outbound, m) \in Seq(Message) /\ Len(Append(outbound, m)) <= OutboundCapacity
BY DEF Room

LEMMA TypeStep == TypeOK /\ [Next]_vars => TypeOK'
<1> SUFFICES ASSUME TypeOK, [Next]_vars
             PROVE  TypeOK'
  OBVIOUS
<1>1. CASE Tick \/ ProcessRestart
  <2>1. CASE Tick
    BY <2>1 DEF Tick, TypeOK, connection, process, history
  <2>2. CASE ProcessRestart
    BY <2>2, NeverType, IdleTypes DEF ProcessRestart, TypeOK
  <2> QED
    BY <1>1, <2>1, <2>2
<1>2. CASE Connect \/ Cancel \/ Teardown
  <2>1. CASE Connect
    BY <2>1, IdleTypes DEF Connect, TypeOK, process, history
  <2>2. CASE Cancel
    BY <2>2 DEF Cancel, TypeOK, process, history
  <2>3. CASE Teardown
    BY <2>3 DEF Teardown, TypeOK, history, ReleaseQueued
  <2> QED
    BY <1>2, <2>1, <2>2, <2>3
<1>3. CASE SenderStep \/ SenderExit
  <2>1. CASE SenderStep
    <3>1. Tail(outbound) \in Seq(Message) /\ Len(Tail(outbound)) <= OutboundCapacity
      BY <2>1, ElementsTail DEF SenderStep, TypeOK
    <3> QED
      BY <2>1, <3>1 DEF SenderStep, TypeOK, process, history
  <2>2. CASE SenderExit
    BY <2>2 DEF SenderExit, TypeOK, process, history
  <2> QED
    BY <1>3, <2>1, <2>2
<1>4. CASE PumpSend
  <2>1. pump.msg \in Message
    BY <1>4 DEF PumpSend, TypeOK, PumpState, Off, Receiving
  <2>2. outbound' \in Seq(Message) /\ Len(outbound') <= OutboundCapacity
    BY <1>4, <2>1 DEF PumpSend, TypeOK, Room
  <2> QED
    BY <1>4, <2>2, IdleTypes DEF PumpSend, TypeOK, process, history
<1>5. CASE PumpAbort \/ PumpExit
  BY <1>5, IdleTypes DEF PumpAbort, PumpExit, TypeOK, process, history
<1>6. ASSUME NEW j \in Jobs, Receive(j)
      PROVE  TypeOK'
  <2>1. pump' \in PumpState
    BY <1>6, SendingType, MessageType DEF Receive
  <2>2. lane' \in [Lanes -> Seq(Jobs)] /\ \A l \in Lanes : Len(lane'[l]) <= QueueCapacity
    BY <1>6, LaneOfJob DEF Receive, TypeOK
  <2> QED
    BY <1>6, <2>1, <2>2 DEF Receive, TypeOK, history
<1>7. ASSUME NEW j \in Jobs, ReceiveDuplicate(j)
      PROVE  TypeOK'
  <2>1. completed' \in [Jobs -> Completed]
    BY <1>7, PruneType DEF ReceiveDuplicate, TypeOK
  <2>2. pump' \in PumpState /\ told' \in [Jobs -> SUBSET BOOLEAN]
    <3>1. completed[j].ok \in BOOLEAN
      BY DEF TypeOK, Completed
    <3>2. \A ok \in BOOLEAN : [told EXCEPT ![j] = @ \cup {ok}] \in [Jobs -> SUBSET BOOLEAN]
      BY DEF TypeOK
    <3>3. told \in [Jobs -> SUBSET BOOLEAN]
      BY DEF TypeOK
    <3> QED
      BY <1>7, <3>1, <3>2, <3>3, SendingType, MessageType DEF ReceiveDuplicate
  <2> QED
    BY <1>7, <2>1, <2>2 DEF ReceiveDuplicate, TypeOK
<1>8. ASSUME NEW j \in Jobs, ReceiveFull(j)
      PROVE  TypeOK'
  <2>1. pump' \in PumpState
    BY <1>8, SendingType, MessageType DEF ReceiveFull
  <2> QED
    BY <1>8, <2>1 DEF ReceiveFull, TypeOK, process, history
<1>9. ASSUME NEW l \in Lanes, WorkerTake(l)
      PROVE  TypeOK'
  <2>1. Head(lane[l]) \in Jobs /\ lane' \in [Lanes -> Seq(Jobs)]
        /\ \A k \in Lanes : Len(lane'[k]) <= QueueCapacity
    BY <1>9, ElementsTail DEF WorkerTake, TypeOK
  <2>2. completed' \in [Jobs -> Completed]
    BY <1>9, PruneType DEF WorkerTake, TypeOK
  <2>3. worker' \in [Lanes -> WorkerState] /\ started' \in [Jobs -> Nat]
        /\ told' \in [Jobs -> SUBSET BOOLEAN]
    <3>1. CASE isCached(Head(lane[l]))
      <4>1. Handled(Head(lane[l]), completed[Head(lane[l])].ok, now) \in Busy
        BY <2>1, HandledType DEF TypeOK, Completed
      <4> QED
        BY <1>9, <3>1, <4>1 DEF WorkerTake, TypeOK, history, WorkerState
    <3>2. CASE ~ isCached(Head(lane[l]))
      <4>1. [pc |-> "run", job |-> Head(lane[l]), ok |-> FALSE, at |-> now] \in WorkerState
        BY <2>1 DEF TypeOK, WorkerState, Busy
      <4>2. worker' \in [Lanes -> WorkerState]
        BY <1>9, <3>2, <4>1, WorkerUpdate DEF WorkerTake, TypeOK
      <4> QED
        BY <1>9, <2>1, <3>2, <4>2 DEF WorkerTake, TypeOK
    <3> QED
      BY <3>1, <3>2
  <2> QED
    BY <1>9, <2>1, <2>2, <2>3 DEF WorkerTake, TypeOK
<1>10. ASSUME NEW l \in Lanes, WorkerSnapshot(l)
       PROVE  TypeOK'
  <2>1. worker[l] \in WorkerState /\ worker[l].pc \notin {"off", "idle"}
    BY <1>10 DEF WorkerSnapshot, TypeOK
  <2>2. /\ worker[l].job \in Jobs /\ worker[l].ok \in BOOLEAN
        /\ \A ok \in BOOLEAN : AtStep(worker[l], "send", ok) \in WorkerState
                              /\ AtStep(worker[l], "release", ok) \in WorkerState
    BY <2>1, BusyWorker DEF WorkerState
  <2>3. worker' \in [Lanes -> WorkerState]
    BY <1>10, <2>2, WorkerUpdate DEF WorkerSnapshot, TypeOK
  <2>4. outbound' \in Seq(Message) /\ Len(outbound') <= OutboundCapacity
    BY <1>10, <2>2, Sent, MessageType DEF WorkerSnapshot, TypeOK
  <2> QED
    BY <1>10, <2>3, <2>4 DEF WorkerSnapshot, TypeOK, process, history
<1>11. ASSUME NEW l \in Lanes, WorkerSend(l)
       PROVE  TypeOK'
  <2>1. worker[l] \in WorkerState /\ worker[l].pc \notin {"off", "idle"}
    BY <1>11 DEF WorkerSend, TypeOK
  <2>2. /\ worker[l].job \in Jobs /\ worker[l].ok \in BOOLEAN
        /\ \A ok \in BOOLEAN : AtStep(worker[l], "send", ok) \in WorkerState
                              /\ AtStep(worker[l], "release", ok) \in WorkerState
    BY <2>1, BusyWorker DEF WorkerState
  <2>3. worker' \in [Lanes -> WorkerState]
    BY <1>11, <2>2, WorkerUpdate DEF WorkerSend, TypeOK
  <2>4. outbound' \in Seq(Message) /\ Len(outbound') <= OutboundCapacity
    BY <1>11, <2>2, Sent, MessageType DEF WorkerSend, TypeOK
  <2>5. told' \in [Jobs -> SUBSET BOOLEAN]
    BY <1>11, <2>2 DEF WorkerSend, TypeOK
  <2> QED
    BY <1>11, <2>3, <2>4, <2>5 DEF WorkerSend, TypeOK, process
<1>12. ASSUME NEW l \in Lanes, WorkerRelease(l) \/ WorkerExit(l)
       PROVE  TypeOK'
  BY <1>12 DEF WorkerRelease, WorkerExit, TypeOK, history, WorkerState
<1>13. ASSUME NEW l \in Lanes, NEW ok \in BOOLEAN, WorkerDone(l, ok)
       PROVE  TypeOK'
  <2>1. worker[l] \in Busy
    <3>1. worker[l] \in WorkerState /\ worker[l].pc \notin {"off", "idle"}
      BY <1>13 DEF WorkerDone, TypeOK
    <3> QED
      BY <3>1, BusyWorker
  <2>2. prune(completed, worker[l].at) \in [Jobs -> Completed]
    BY <2>1, PruneType DEF TypeOK, Busy
  <2>3. completed' \in [Jobs -> Completed]
    BY <1>13, <2>1, <2>2 DEF WorkerDone, remember, Busy, Completed
  <2>4. worker' \in [Lanes -> WorkerState]
    <3>1. Handled(worker[l].job, ok, worker[l].at) \in Busy
      BY <2>1, HandledType DEF Busy
    <3> QED
      BY <1>13, <3>1 DEF WorkerDone, TypeOK, WorkerState
  <2> QED
    BY <1>13, <2>3, <2>4 DEF WorkerDone, TypeOK, history
<1>14. CASE UNCHANGED vars
  BY <1>14 DEF TypeOK, vars, connection, process, history
<1> QED
  BY <1>1, <1>2, <1>3, <1>4, <1>5, <1>6, <1>7, <1>8, <1>9, <1>10, <1>11, <1>12, <1>13, <1>14
     DEF Next

(***************************************************************************)
(* In every reachable state the lanes and the outbound channel hold only   *)
(* jobs and messages, within their capacities, and every goroutine is in   *)
(* one of its states.                                                      *)
(***************************************************************************)
THEOREM AgentTypeCorrect == Spec => []TypeOK
BY TypeInit, TypeStep, PTL DEF Spec
-----------------------------------------------------------------------------
(***************************************************************************)
(* Custody of the jobs: what a lane and its worker hold.                   *)
(***************************************************************************)
Has(w) == IF w \in Busy THEN {w.job} ELSE {}
Holds(l) == Elements(lane[l]) \cup Has(worker[l])

(***************************************************************************)
(* The inductive invariant.  A job is only ever held by its own lane;      *)
(* every reservation is of a held job, and between two connections nothing *)
(* is held; while the connection is up everything held is reserved.        *)
(***************************************************************************)
OwnLane == \A l \in Lanes : \A j \in Holds(l) : pipelineForAction(j) = l
Held == \A j \in inflight : \E l \in Lanes : j \in Holds(l)
DownIsEmpty ==
    conn = "down" => pump = Off /\ \A l \in Lanes : lane[l] = <<>> /\ worker[l] = Off
UpReserved == conn = "up" => \A l \in Lanes : Holds(l) \subseteq inflight

Custody == OwnLane /\ Held /\ DownIsEmpty /\ UpReserved /\ QueuedOnce

LEMMA HasFacts ==
    /\ Has(Off) = {} /\ Has(Waiting) = {}
    /\ \A w \in Busy : Has(w) = {w.job}
<1>1. Off \notin Busy /\ Waiting \notin Busy
  BY DEF Off, Waiting, Busy
<1> QED
  BY <1>1 DEF Has

LEMMA NothingHeld ==
    ASSUME NEW l \in Lanes, lane[l] = <<>>, worker[l] \in {Off, Waiting}
    PROVE  Holds(l) = {}
<1>1. Elements(<<>>) = {}
  BY DEF Elements
<1> QED
  BY <1>1, HasFacts DEF Holds

(***************************************************************************)
(* Steps that hand nothing over.                                           *)
(***************************************************************************)
LEMMA QuietStep ==
    ASSUME Custody, UNCHANGED <<lane, inflight>>, conn' = conn \/ conn' = "closing",
           \A l \in Lanes : Has(worker[l])' = Has(worker[l]),
           conn = "down" => UNCHANGED <<conn, worker, pump>>
    PROVE  Custody'
<1>1. \A l \in Lanes : Holds(l)' = Holds(l)
  BY DEF Holds
<1>2. OwnLane' /\ Held' /\ UpReserved'
  BY <1>1 DEF Custody, OwnLane, Held, UpReserved
<1>3. DownIsEmpty'
  BY DEF Custody, DownIsEmpty
<1>4. QueuedOnce'
  <2> SUFFICES ASSUME conn = "up", NEW l \in Lanes, worker'[l] \in Busy
               PROVE  worker'[l].job \notin Elements(lane[l])
    BY DEF Custody, QueuedOnce
  <2>1. worker'[l].job \in Has(worker[l])
    BY DEF Has
  <2>2. worker[l] \in Busy /\ worker'[l].job = worker[l].job
    BY <2>1 DEF Has
  <2> QED
    BY <2>2 DEF Custody, QueuedOnce
<1> QED
  BY <1>2, <1>3, <1>4 DEF Custody

(***************************************************************************)
(* Steps after which nothing is held or reserved.                          *)
(***************************************************************************)
LEMMA EmptyStep ==
    ASSUME inflight' = {}, \A l \in Lanes : lane'[l] = <<>> /\ worker'[l] \in {Off, Waiting},
           conn' = "down" => pump' = Off /\ \A l \in Lanes : worker'[l] = Off
    PROVE  Custody'
<1>1. \A l \in Lanes : Holds(l)' = {}
  <2>1. Elements(<<>>) = {}
    BY DEF Elements
  <2> QED
    BY <2>1, HasFacts DEF Holds
<1>2. OwnLane' /\ Held' /\ UpReserved' /\ DownIsEmpty'
  BY <1>1 DEF OwnLane, Held, UpReserved, DownIsEmpty
<1>3. QueuedOnce'
  <2>1. \A l \in Lanes : worker'[l] \notin Busy
    BY DEF Off, Waiting, Busy
  <2> QED
    BY <2>1 DEF QueuedOnce
<1> QED
  BY <1>2, <1>3 DEF Custody

(***************************************************************************)
(* Between two connections nothing is reserved.                            *)
(***************************************************************************)
LEMMA DownHoldsNothing == Custody /\ conn = "down" => inflight = {}
<1> SUFFICES ASSUME Custody, conn = "down", NEW j \in inflight
             PROVE  FALSE
  OBVIOUS
<1>1. PICK l \in Lanes : j \in Holds(l)
  BY DEF Custody, Held
<1>2. lane[l] = <<>> /\ worker[l] = Off
  BY DEF Custody, DownIsEmpty
<1> QED
  BY <1>1, <1>2, NothingHeld

LEMMA ReleaseStep ==
    ASSUME TypeOK, Custody, NEW l \in Lanes, worker[l] \in Busy, conn # "down",
           inflight' = inflight \ {worker[l].job},
           \E w \in {Off, Waiting} : worker' = [worker EXCEPT ![l] = w],
           UNCHANGED <<conn, lane>>
    PROVE  Custody'
<1> DEFINE j == worker[l].job
<1>1. /\ Holds(l)' = Elements(lane[l])
      /\ Holds(l) = Elements(lane[l]) \cup {j}
      /\ \A k \in Lanes \ {l} : Holds(k)' = Holds(k)
  BY HasFacts DEF Holds, TypeOK
<1>2. OwnLane'
  BY <1>1 DEF Custody, OwnLane
<1>3. Held'
  BY <1>1 DEF Custody, Held
<1>4. DownIsEmpty'
  BY DEF DownIsEmpty
<1>5. UpReserved'
  <2> SUFFICES ASSUME conn = "up", NEW k \in Lanes
               PROVE  Holds(k)' \subseteq inflight \ {j}
    BY DEF UpReserved
  <2>1. Holds(k)' \subseteq inflight
    BY <1>1 DEF Custody, UpReserved
  <2>2. j \notin Holds(k)'
    <3>1. CASE k = l
      BY <1>1, <3>1 DEF Custody, QueuedOnce
    <3>2. CASE k # l
      BY <1>1, <3>2 DEF Custody, OwnLane
    <3> QED
      BY <3>1, <3>2
  <2> QED
    BY <2>1, <2>2
<1>6. QueuedOnce'
  <2> SUFFICES ASSUME conn = "up", NEW k \in Lanes, worker'[k] \in Busy
               PROVE  worker'[k].job \notin Elements(lane[k])
    BY DEF Custody, QueuedOnce
  <2>1. worker'[k] = worker[k]
    BY DEF TypeOK, Off, Waiting, Busy
  <2> QED
    BY <2>1 DEF Custody, QueuedOnce
<1> QED
  BY <1>2, <1>3, <1>4, <1>5, <1>6 DEF Custody

LEMMA ReceiveStep ==
    ASSUME TypeOK, Custody, NEW j \in Jobs, Receive(j)
    PROVE  Custody'
<1> DEFINE l == pipelineForAction(j)
<1>1. conn # "down"
  BY DEF Receive, Receiving, Off, Custody, DownIsEmpty
<1>2. /\ l \in Lanes
      /\ lane' = [lane EXCEPT ![l] = Append(lane[l], j)]
      /\ inflight' = inflight \cup {j} /\ j \notin inflight
      /\ worker' = worker /\ conn' = conn
  BY LaneOfJob DEF Receive, reserve
<1>3. /\ Holds(l)' = Holds(l) \cup {j}
      /\ \A k \in Lanes \ {l} : Holds(k)' = Holds(k)
  BY <1>2, ElementsAppend DEF Holds, TypeOK
<1>4. OwnLane'
  BY <1>3 DEF Custody, OwnLane
<1>5. Held'
  BY <1>2, <1>3 DEF Custody, Held
<1>6. UpReserved'
  BY <1>2, <1>3 DEF Custody, UpReserved
<1>7. DownIsEmpty'
  BY <1>1, <1>2 DEF DownIsEmpty
<1>8. QueuedOnce'
  <2> SUFFICES ASSUME conn = "up", NEW k \in Lanes
               PROVE  /\ \A i, n \in 1 .. Len(lane'[k]) : lane'[k][i] = lane'[k][n] => i = n
                      /\ worker[k] \in Busy => worker[k].job \notin Elements(lane'[k])
    BY <1>2 DEF QueuedOnce
  <2>1. /\ \A i, n \in 1 .. Len(lane[k]) : lane[k][i] = lane[k][n] => i = n
        /\ worker[k] \in Busy => worker[k].job \notin Elements(lane[k])
    BY DEF Custody, QueuedOnce
  <2>2. CASE k # l
    BY <1>2, <2>1, <2>2 DEF TypeOK
  <2>3. CASE k = l
    <3>1. lane[k] \in Seq(Jobs) /\ lane'[k] = Append(lane[k], j)
      BY <1>2, <2>3 DEF TypeOK
    <3>2. j \notin Holds(k)
      BY <1>2, <2>3 DEF Custody, UpReserved
    <3>3. \A i \in 1 .. Len(lane[k]) : lane[k][i] # j
      BY <3>2 DEF Holds, Elements
    <3>4. \A i, n \in 1 .. Len(lane'[k]) : lane'[k][i] = lane'[k][n] => i = n
      BY <2>1, <3>1, <3>3
    <3>5. Elements(lane'[k]) = Elements(lane[k]) \cup {j}
      BY <3>1, ElementsAppend
    <3>6. worker[k] \in Busy => worker[k].job # j
      BY <3>2, HasFacts DEF Holds
    <3> QED
      BY <2>1, <3>4, <3>5, <3>6
  <2> QED
    BY <2>2, <2>3
<1> QED
  BY <1>4, <1>5, <1>6, <1>7, <1>8 DEF Custody

LEMMA TakeStep ==
    ASSUME TypeOK, Custody, NEW l \in Lanes, NEW w \in Busy,
           conn # "down", lane[l] # <<>>, worker[l] = Waiting, w.job = Head(lane[l]),
           lane' = [lane EXCEPT ![l] = Tail(lane[l])],
           worker' = [worker EXCEPT ![l] = w],
           UNCHANGED <<conn, inflight>>
    PROVE  Custody'
<1>1. /\ lane[l] \in Seq(Jobs) /\ lane'[l] = Tail(lane[l]) /\ worker'[l] = w
      /\ \A k \in Lanes \ {l} : lane'[k] = lane[k] /\ worker'[k] = worker[k]
  BY DEF TypeOK
<1>2. Elements(lane[l]) = Elements(Tail(lane[l])) \cup {w.job}
  BY <1>1, ElementsTail
<1>3. \A k \in Lanes : Holds(k)' = Holds(k)
  BY <1>1, <1>2, HasFacts DEF Holds
<1>4. OwnLane' /\ Held' /\ UpReserved' /\ DownIsEmpty'
  BY <1>3 DEF Custody, OwnLane, Held, UpReserved, DownIsEmpty
<1>5. QueuedOnce'
  <2> SUFFICES ASSUME conn = "up", NEW k \in Lanes
               PROVE  /\ \A i, n \in 1 .. Len(lane'[k]) : lane'[k][i] = lane'[k][n] => i = n
                      /\ worker'[k] \in Busy => worker'[k].job \notin Elements(lane'[k])
    BY DEF QueuedOnce
  <2>1. /\ \A i, n \in 1 .. Len(lane[k]) : lane[k][i] = lane[k][n] => i = n
        /\ worker[k] \in Busy => worker[k].job \notin Elements(lane[k])
    BY DEF Custody, QueuedOnce
  <2>2. CASE k # l
    BY <1>1, <2>1, <2>2
  <2>3. CASE k = l
    <3>1. Len(Tail(lane[l])) = Len(lane[l]) - 1
          /\ \A i \in 1 .. Len(Tail(lane[l])) : Tail(lane[l])[i] = lane[l][i + 1]
      BY <1>1
    <3>2. lane[l][1] = w.job /\ Len(lane[l]) \in Nat \ {0}
      BY <1>1
    <3>3. \A i \in 1 .. Len(Tail(lane[l])) : Tail(lane[l])[i] # w.job
      BY <2>1, <2>3, <3>1, <3>2
    <3>4. \A i, n \in 1 .. Len(Tail(lane[l])) : Tail(lane[l])[i] = Tail(lane[l])[n] => i = n
      BY <2>1, <2>3, <3>1, <3>2
    <3>5. w.job \notin Elements(Tail(lane[l]))
      BY <3>3 DEF Elements
    <3>6. lane'[k] = Tail(lane[l]) /\ worker'[k] = w
      BY <1>1, <2>3
    <3> QED
      BY <3>4, <3>5, <3>6
  <2> QED
    BY <2>2, <2>3
<1> QED
  BY <1>4, <1>5 DEF Custody

LEMMA CustodyInit == Init => Custody
<1> SUFFICES ASSUME Init PROVE Custody
  OBVIOUS
<1>1. \A l \in Lanes : lane[l] = <<>> /\ worker[l] = Off
  BY DEF Init
<1>2. \A l \in Lanes : Holds(l) = {}
  BY <1>1, NothingHeld
<1>3. OwnLane /\ Held /\ UpReserved
  BY <1>2 DEF Init, OwnLane, Held, UpReserved
<1>4. DownIsEmpty /\ QueuedOnce
  BY <1>1 DEF Init, DownIsEmpty, QueuedOnce
<1> QED
  BY <1>3, <1>4 DEF Custody

(***************************************************************************)
(* A goroutine that runs means that the connection is not down.            *)
(***************************************************************************)
LEMMA Alive ==
    ASSUME Custody, conn = "down"
    PROVE  /\ pump # Receiving /\ pump.pc # "send"
           /\ \A l \in Lanes : worker[l].pc = "off"
BY DEF Custody, DownIsEmpty, Off, Receiving

LEMMA CustodyStep == TypeOK /\ Custody /\ [Next]_vars => Custody'
<1> SUFFICES ASSUME TypeOK, Custody, [Next]_vars
             PROVE  Custody'
  OBVIOUS
<1>1. CASE Tick \/ Cancel \/ SenderStep \/ SenderExit \/ PumpSend \/ PumpExit
  <2>1. UNCHANGED <<lane, inflight, worker>> /\ (conn' = conn \/ conn' = "closing")
    BY <1>1 DEF Tick, Cancel, SenderStep, SenderExit, PumpSend, PumpExit, connection, process
  <2>2. conn = "down" => UNCHANGED <<conn, worker, pump>>
    BY <1>1, Alive DEF Tick, Cancel, SenderStep, SenderExit, PumpSend, PumpExit, connection, process
  <2> QED
    BY <2>1, <2>2, QuietStep
<1>2. CASE Connect
  BY <1>2, DownHoldsNothing, EmptyStep DEF Connect, Custody, DownIsEmpty, process
<1>3. CASE Teardown
  <2>1. inflight' = {}
    <3> SUFFICES ASSUME NEW j \in inflight
                 PROVE  j \in Queued
      BY <1>3 DEF Teardown, ReleaseQueued
    <3>1. PICK l \in Lanes : j \in Holds(l)
      BY DEF Custody, Held
    <3>2. j \in Elements(lane[l])
      BY <1>3, <3>1, HasFacts DEF Teardown, Holds
    <3> QED
      BY <3>2 DEF Queued
  <2> QED
    BY <1>3, <2>1, EmptyStep DEF Teardown
<1>4. CASE ProcessRestart
  BY <1>4, EmptyStep DEF ProcessRestart
<1>5. CASE PumpAbort
  <2>1. \A l \in Lanes : Holds(l)' = Holds(l)
    BY <1>5 DEF PumpAbort, Holds
  <2>2. inflight' \subseteq inflight /\ conn' = "closing"
    BY <1>5 DEF PumpAbort
  <2> QED
    BY <2>1, <2>2 DEF Custody, OwnLane, Held, UpReserved, DownIsEmpty, QueuedOnce
<1>6. ASSUME NEW j \in Jobs, Receive(j)
      PROVE  Custody'
  BY <1>6, ReceiveStep
<1>7. ASSUME NEW j \in Jobs, ReceiveDuplicate(j) \/ ReceiveFull(j)
      PROVE  Custody'
  <2>1. UNCHANGED <<lane, inflight, worker, conn>> /\ pump = Receiving
    BY <1>7 DEF ReceiveDuplicate, ReceiveFull, process
  <2> QED
    BY <2>1, Alive, QuietStep
<1>8. ASSUME NEW l \in Lanes, WorkerTake(l)
      PROVE  Custody'
  <2> DEFINE j == Head(lane[l])
  <2>1. j \in Jobs
    BY <1>8, ElementsTail DEF WorkerTake, TypeOK
  <2>2. PICK w \in Busy : w.job = j /\ worker' = [worker EXCEPT ![l] = w]
    <3>1. CASE isCached(j)
      <4>1. Handled(j, completed[j].ok, now) \in Busy
        BY <2>1, HandledType DEF TypeOK, Completed
      <4> QED
        BY <1>8, <3>1, <4>1 DEF WorkerTake, Handled
    <3>2. CASE ~ isCached(j)
      <4>1. [pc |-> "run", job |-> j, ok |-> FALSE, at |-> now] \in Busy
        BY <2>1 DEF TypeOK, Busy
      <4> QED
        BY <1>8, <3>2, <4>1 DEF WorkerTake
    <3> QED
      BY <3>1, <3>2
  <2>3. conn # "down"
    BY <1>8, Alive DEF WorkerTake, Waiting
  <2> QED
    BY <1>8, <2>2, <2>3, TakeStep DEF WorkerTake
<1>9. ASSUME NEW l \in Lanes, NEW ok \in BOOLEAN,
             WorkerSnapshot(l) \/ WorkerSend(l) \/ WorkerDone(l, ok)
      PROVE  Custody'
  <2>1. worker[l] \in WorkerState /\ worker[l].pc \notin {"off", "idle"}
    BY <1>9 DEF WorkerSnapshot, WorkerSend, WorkerDone, TypeOK
  <2>2. /\ worker[l] \in Busy
        /\ worker[l].job \in Jobs /\ worker[l].ok \in BOOLEAN /\ worker[l].at \in Nat
        /\ \A b \in BOOLEAN : AtStep(worker[l], "send", b) \in Busy /\ AtStep(worker[l], "release", b) \in Busy
    BY <2>1, BusyWorker
  <2>3. PICK w \in Busy : w.job = worker[l].job /\ worker' = [worker EXCEPT ![l] = w]
    <3>1. CASE WorkerSnapshot(l)
      BY <2>2, <3>1 DEF WorkerSnapshot, AtStep
    <3>2. CASE WorkerSend(l)
      BY <2>2, <3>2 DEF WorkerSend, AtStep
    <3>3. CASE WorkerDone(l, ok)
      <4>1. Handled(worker[l].job, ok, worker[l].at) \in Busy
        BY <2>2, HandledType
      <4> QED
        BY <3>3, <4>1 DEF WorkerDone, Handled
    <3> QED
      BY <1>9, <3>1, <3>2, <3>3
  <2>4. \A k \in Lanes : Has(worker[k])' = Has(worker[k])
    BY <2>2, <2>3, HasFacts DEF TypeOK
  <2>5. UNCHANGED <<lane, inflight, conn, pump>> /\ conn # "down"
    BY <1>9, <2>1, Alive DEF WorkerSnapshot, WorkerSend, WorkerDone, process
  <2> QED
    BY <2>4, <2>5, QuietStep
<1>10. ASSUME NEW l \in Lanes, WorkerRelease(l)
       PROVE  Custody'
  <2>1. worker[l] \in Busy /\ conn # "down"
    BY <1>10, BusyWorker, Alive DEF WorkerRelease, TypeOK
  <2> QED
    BY <1>10, <2>1, ReleaseStep DEF WorkerRelease
<1>11. ASSUME NEW l \in Lanes, WorkerExit(l)
       PROVE  Custody'
  <2>1. CASE worker[l] = Waiting /\ UNCHANGED inflight
    <3>1. \A k \in Lanes : Has(worker[k])' = Has(worker[k])
      BY <1>11, <2>1, HasFacts DEF WorkerExit, TypeOK
    <3> QED
      BY <1>11, <3>1, <2>1, QuietStep DEF WorkerExit
  <2>2. CASE worker[l].pc \in {"snapshot", "send"} /\ inflight' = inflight \ {worker[l].job}
    <3>1. worker[l] \in Busy
      BY <2>2, BusyWorker DEF TypeOK
    <3> QED
      BY <1>11, <2>2, <3>1, ReleaseStep DEF WorkerExit
  <2> QED
    BY <1>11, <2>1, <2>2 DEF WorkerExit
<1>12. CASE UNCHANGED vars
  BY <1>12, QuietStep DEF vars, connection, process
<1> QED
  BY <1>1, <1>2, <1>3, <1>4, <1>5, <1>6, <1>7, <1>8, <1>9, <1>10, <1>11, <1>12 DEF Next

LEMMA CustodyAlways == Spec => [](TypeOK /\ Custody)
<1>1. TypeOK /\ Custody /\ [Next]_vars => (TypeOK /\ Custody)'
  BY TypeStep, CustodyStep
<1> QED
  BY TypeInit, CustodyInit, <1>1, PTL DEF Spec

(***************************************************************************)
(* No reservation outlives its connection: whatever the pump, the workers  *)
(* and the teardown did, the next connection finds the tracker empty, so   *)
(* every job can be executed again.                                        *)
(***************************************************************************)
THEOREM NothingLeaks == Spec => []NoLeakedReservation
<1>1. TypeOK /\ Custody => NoLeakedReservation
  BY DownHoldsNothing DEF NoLeakedReservation
<1> QED
  BY CustodyAlways, <1>1, PTL

(***************************************************************************)
(* While the connection is up, redelivery never puts a second copy of a    *)
(* job in its lane, whatever the number of jobs and the capacities.        *)
(***************************************************************************)
THEOREM NoCopies == Spec => []QueuedOnce
<1>1. TypeOK /\ Custody => QueuedOnce
  BY DEF Custody
<1> QED
  BY CustodyAlways, <1>1, PTL
-----------------------------------------------------------------------------
(***************************************************************************)
(* What the agent knows of a job whose handler was entered: it runs in the *)
(* job's own lane, or the cache has it under that time, or it is past the  *)
(* retention.                                                              *)
(***************************************************************************)
Runs(j) == worker[pipelineForAction(j)].pc = "run" /\ worker[pipelineForAction(j)].job = j

RunIsStart ==
    \A l \in Lanes : worker[l].pc = "run" =>
        started[worker[l].job] = worker[l].at /\ worker[l].at <= now

StartKnown ==
    \A j \in Jobs : started[j] # 0 =>
        Runs(j) \/ completed[j].at = started[j] \/ started[j] + Retention < now

Memory == now >= 1 /\ RunIsStart /\ StartKnown

LEMMA MemoryInit == Init => Memory
BY DEF Init, Memory, RunIsStart, StartKnown, Off

(***************************************************************************)
(* Steps that neither enter nor leave a handler.                           *)
(***************************************************************************)
LEMMA MemoryKept ==
    ASSUME TypeOK, TypeOK', Memory, UNCHANGED started, now' >= now,
           \A l \in Lanes : worker'[l] = worker[l] \/ (worker[l].pc # "run" /\ worker'[l].pc # "run"),
           completed' = completed \/ completed' = prune(completed, now)
    PROVE  Memory'
<1>1. now \in Nat /\ now' \in Nat /\ started \in [Jobs -> Nat] /\ completed \in [Jobs -> Completed]
  BY DEF TypeOK
<1>2. worker \in [Lanes -> WorkerState]
  BY DEF TypeOK
<1>3. RunIsStart'
  <2> SUFFICES ASSUME NEW l \in Lanes, worker'[l].pc = "run"
               PROVE  started[worker'[l].job] = worker'[l].at /\ worker'[l].at <= now'
    BY DEF RunIsStart
  <2>1. worker'[l] = worker[l]
    OBVIOUS
  <2>2. worker[l].at \in Nat
    BY <1>2, <2>1, BusyWorker
  <2> QED
    BY <1>1, <2>1, <2>2 DEF Memory, RunIsStart
<1>4. StartKnown'
  <2> SUFFICES ASSUME NEW j \in Jobs, started[j] # 0
               PROVE  Runs(j)' \/ completed'[j].at = started[j] \/ started[j] + Retention < now'
    BY DEF StartKnown
  <2>1. CASE Runs(j)
    BY <2>1, LaneOfJob DEF Runs
  <2>2. CASE completed[j].at = started[j]
    <3>1. completed'[j] = completed[j] \/ completed[j].at + Retention < now
      BY <1>1 DEF prune
    <3> QED
      BY <1>1, <2>2, <3>1
  <2>3. CASE started[j] + Retention < now
    BY <1>1, <2>3
  <2> QED
    BY <2>1, <2>2, <2>3 DEF Memory, StartKnown
<1> QED
  BY <1>1, <1>3, <1>4 DEF Memory

(***************************************************************************)
(* A handler is entered: not before the last entry is past the retention.  *)
(***************************************************************************)
LEMMA EnterStep ==
    ASSUME TypeOK, Custody, Memory, NEW l \in Lanes, WorkerTake(l), ~ isCached(Head(lane[l]))
    PROVE  /\ Head(lane[l]) \in Jobs /\ pipelineForAction(Head(lane[l])) = l
           /\ started[Head(lane[l])] # 0 => started[Head(lane[l])] + Retention < now
<1> DEFINE j == Head(lane[l])
<1>1. j \in Jobs /\ j \in Elements(lane[l])
  BY ElementsTail DEF WorkerTake, TypeOK
<1>2. pipelineForAction(j) = l
  BY <1>1 DEF Custody, OwnLane, Holds
<1>3. ~ Runs(j)
  BY <1>2 DEF Runs, WorkerTake, Waiting
<1>4. completed[j] = Never \/ completed[j].at + Retention < now
  BY <1>1 DEF isCached, prune, TypeOK
<1>5. started[j] # 0 => started[j] + Retention < now
  BY <1>1, <1>3, <1>4 DEF Memory, StartKnown, Never
<1> QED
  BY <1>1, <1>2, <1>5

LEMMA MemoryStep == TypeOK /\ TypeOK' /\ Custody /\ Memory /\ [Next]_vars => Memory'
<1> SUFFICES ASSUME TypeOK, TypeOK', Custody, Memory, [Next]_vars
             PROVE  Memory'
  OBVIOUS
<1>0. now \in Nat /\ now' \in Nat
  BY DEF TypeOK
<1>1. CASE Tick \/ Cancel \/ SenderStep \/ SenderExit \/ PumpSend \/ PumpAbort \/ PumpExit \/ UNCHANGED vars
  <2>1. UNCHANGED <<started, worker, completed>> /\ now' >= now
    BY <1>0, <1>1 DEF Tick, Cancel, SenderStep, SenderExit, PumpSend, PumpAbort, PumpExit, vars, connection, process, history
  <2> QED
    BY <2>1, MemoryKept
<1>2. CASE Connect \/ Teardown
  <2>1. UNCHANGED <<started, completed, now>>
    BY <1>2 DEF Connect, Teardown, process, history
  <2>2. \A l \in Lanes : worker'[l] = worker[l] \/ (worker[l].pc # "run" /\ worker'[l].pc # "run")
    BY <1>2 DEF Connect, Teardown, Custody, DownIsEmpty, Off, Waiting
  <2> QED
    BY <1>0, <2>1, <2>2, MemoryKept
<1>3. CASE ProcessRestart
  BY <1>3 DEF ProcessRestart, Memory, RunIsStart, StartKnown, Off
<1>4. ASSUME NEW j \in Jobs, Receive(j) \/ ReceiveDuplicate(j) \/ ReceiveFull(j)
      PROVE  Memory'
  <2>1. UNCHANGED <<started, worker, now>> /\ (completed' = completed \/ completed' = prune(completed, now))
    BY <1>4 DEF Receive, ReceiveDuplicate, ReceiveFull, process, history
  <2> QED
    BY <1>0, <2>1, MemoryKept
<1>5. ASSUME NEW l \in Lanes,
             WorkerSnapshot(l) \/ WorkerSend(l) \/ WorkerRelease(l) \/ WorkerExit(l)
      PROVE  Memory'
  <2>1. UNCHANGED <<started, completed, now>>
    BY <1>5 DEF WorkerSnapshot, WorkerSend, WorkerRelease, WorkerExit, process, history
  <2>2. worker[l].pc # "run" /\ worker'[l].pc # "run" /\ \A k \in Lanes \ {l} : worker'[k] = worker[k]
    BY <1>5 DEF WorkerSnapshot, WorkerSend, WorkerRelease, WorkerExit, AtStep, Off, Waiting, TypeOK
  <2> QED
    BY <1>0, <2>1, <2>2, MemoryKept
<1>6. ASSUME NEW l \in Lanes, WorkerTake(l)
      PROVE  Memory'
  <2> DEFINE j == Head(lane[l])
  <2>1. CASE isCached(j)
    <3>1. UNCHANGED <<started, now>> /\ completed' = prune(completed, now)
      BY <1>6, <2>1 DEF WorkerTake, history
    <3>2. worker[l].pc # "run" /\ worker'[l].pc # "run" /\ \A k \in Lanes \ {l} : worker'[k] = worker[k]
      BY <1>6, <2>1 DEF WorkerTake, Handled, Waiting, TypeOK
    <3> QED
      BY <1>0, <3>1, <3>2, MemoryKept
  <2>2. CASE ~ isCached(j)
    <3>1. j \in Jobs /\ pipelineForAction(j) = l
      BY <1>6, <2>2, EnterStep
    <3>2. /\ completed' = prune(completed, now) /\ now' = now
          /\ started' = [started EXCEPT ![j] = now]
          /\ worker' = [worker EXCEPT ![l] = [pc |-> "run", job |-> j, ok |-> FALSE, at |-> now]]
      BY <1>6, <2>2 DEF WorkerTake
    <3>3. /\ worker'[l].pc = "run" /\ worker'[l].job = j /\ worker'[l].at = now
          /\ \A k \in Lanes \ {l} : worker'[k] = worker[k]
      BY <3>2 DEF TypeOK
    <3>4. started'[j] = now /\ \A i \in Jobs \ {j} : started'[i] = started[i]
      BY <3>1, <3>2 DEF TypeOK
    <3>5. RunIsStart'
      <4> SUFFICES ASSUME NEW k \in Lanes, worker'[k].pc = "run"
                   PROVE  started'[worker'[k].job] = worker'[k].at /\ worker'[k].at <= now
        BY <3>2 DEF RunIsStart
      <4>1. CASE k = l
        BY <1>0, <3>3, <3>4, <4>1
      <4>2. CASE k # l
        <5>1. worker[k] \in Busy /\ worker[k].job \in Jobs
          BY <3>3, <4>2, BusyWorker DEF TypeOK
        <5>2. worker[k].job # j
          BY <3>1, <4>2, <5>1, HasFacts DEF Custody, OwnLane, Holds
        <5> QED
          BY <3>3, <3>4, <4>2, <5>1, <5>2 DEF Memory, RunIsStart
      <4> QED
        BY <4>1, <4>2
    <3>6. StartKnown'
      <4> SUFFICES ASSUME NEW i \in Jobs, started'[i] # 0
                   PROVE  Runs(i)' \/ completed'[i].at = started'[i] \/ started'[i] + Retention < now
        BY <3>2 DEF StartKnown
      <4>1. CASE i = j
        BY <3>1, <3>3, <4>1 DEF Runs
      <4>2. CASE i # j
        <5>1. started'[i] = started[i] /\ started[i] # 0
          BY <3>4, <4>2
        <5>2. CASE Runs(i)
          <6>1. pipelineForAction(i) # l
            BY <1>6, <5>2 DEF Runs, WorkerTake, Waiting
          <6> QED
            BY <3>3, <5>2, <6>1, LaneOfJob DEF Runs
        <5>3. CASE completed[i].at = started[i]
          <6>1. completed'[i] = completed[i] \/ completed[i].at + Retention < now
            BY <3>2 DEF prune, TypeOK
          <6> QED
            BY <5>1, <5>3, <6>1
        <5> QED
          BY <5>1, <5>2, <5>3 DEF Memory, StartKnown
      <4> QED
        BY <4>1, <4>2
    <3> QED
      BY <3>2, <3>5, <3>6 DEF Memory
  <2> QED
    BY <2>1, <2>2
<1>7. ASSUME NEW l \in Lanes, NEW ok \in BOOLEAN, WorkerDone(l, ok)
      PROVE  Memory'
  <2> DEFINE w == worker[l]
  <2>1. w \in Busy /\ w.job \in Jobs /\ w.at \in Nat
    BY <1>7, BusyWorker DEF WorkerDone, TypeOK
  <2>2. started[w.job] = w.at /\ w.at <= now
    BY <1>7 DEF WorkerDone, Memory, RunIsStart
  <2>3. pipelineForAction(w.job) = l
    BY <2>1, HasFacts DEF Custody, OwnLane, Holds
  <2>4. UNCHANGED <<started, now>> /\ completed' = remember(completed, w.job, ok, w.at)
    BY <1>7 DEF WorkerDone, history
  <2>5. worker'[l].pc # "run" /\ \A k \in Lanes \ {l} : worker'[k] = worker[k]
    BY <1>7 DEF WorkerDone, Handled, TypeOK
  <2>6. RunIsStart'
    BY <2>4, <2>5 DEF Memory, RunIsStart
  <2>7. StartKnown'
    <3> SUFFICES ASSUME NEW i \in Jobs, started[i] # 0
                 PROVE  Runs(i)' \/ completed'[i].at = started[i] \/ started[i] + Retention < now
      BY <2>4 DEF StartKnown
    <3>1. CASE i = w.job
      <4>1. completed'[i].at = w.at
        BY <2>1, <2>4, <3>1 DEF remember, prune
      <4> QED
        BY <2>2, <3>1, <4>1
    <3>2. CASE i # w.job
      <4>1. CASE Runs(i)
        <5>1. pipelineForAction(i) # l
          BY <3>2, <4>1 DEF Runs
        <5> QED
          BY <2>5, <4>1, <5>1, LaneOfJob DEF Runs
      <4>2. CASE completed[i].at = started[i]
        <5>1. completed'[i] = completed[i] \/ completed[i].at + Retention < w.at
          BY <2>1, <2>4, <3>2 DEF remember, prune
        <5> QED
          BY <1>0, <2>1, <2>2, <4>2, <5>1 DEF TypeOK
      <4> QED
        BY <4>1, <4>2 DEF Memory, StartKnown
    <3> QED
      BY <3>1, <3>2
  <2> QED
    BY <2>4, <2>6, <2>7 DEF Memory
<1> QED
  BY <1>1, <1>2, <1>3, <1>4, <1>5, <1>6, <1>7 DEF Next

(***************************************************************************)
(* Within the retention of the cache no handler is entered twice for one   *)
(* job, for any redelivery, any interleaving of the goroutines and any     *)
(* number of reconnects: the guarantee that makes redelivery by the panel  *)
(* safe.  It holds although a closing connection can release a job that is *)
(* still queued, and queue it again.                                       *)
(***************************************************************************)
THEOREM HandlerRunsOnce == Spec => RunsOnce
<1>1. TypeOK /\ Custody /\ Memory /\ [Next]_vars => (TypeOK /\ Custody /\ Memory)'
  BY TypeStep, CustodyStep, MemoryStep
<1>2. TypeOK /\ Custody /\ Memory /\ [Next]_vars =>
          [\A j \in Jobs :
              (started'[j] # started[j] /\ started[j] # 0 /\ started'[j] # 0) =>
                  started[j] + Retention < started'[j]]_vars
  <2> SUFFICES ASSUME TypeOK, Custody, Memory, Next, NEW j \in Jobs,
                      started'[j] # started[j], started[j] # 0, started'[j] # 0
               PROVE  started[j] + Retention < started'[j]
    BY DEF vars, history
  <2>1. PICK l \in Lanes : WorkerTake(l) /\ ~ isCached(Head(lane[l]))
    BY DEF Next, Tick, ProcessRestart, Connect, Cancel, Teardown, SenderStep, SenderExit, PumpSend,
           PumpAbort, PumpExit, Receive, ReceiveDuplicate, ReceiveFull, WorkerTake, WorkerSnapshot,
           WorkerSend, WorkerRelease, WorkerExit, WorkerDone, history
  <2>2. started' = [started EXCEPT ![Head(lane[l])] = now]
    BY <2>1 DEF WorkerTake
  <2>3. j = Head(lane[l]) /\ started'[j] = now
    BY <2>2 DEF TypeOK
  <2> QED
    BY <2>1, <2>3, EnterStep
<1> QED
  BY TypeInit, CustodyInit, MemoryInit, <1>1, <1>2, PTL DEF Spec, RunsOnce
=============================================================================
