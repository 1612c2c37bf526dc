-------------------------- MODULE ClientFlowProofs --------------------------
(***************************************************************************)
(* Types of the client flows, and the truth of a reported success, for any *)
(* clients, operators and passes.  The invariant behind the second follows *)
(* a request: the clock reading it saves with is on no job and no request  *)
(* of the client, so that whatever was made before the save is stale; once *)
(* a current job is in the queue only current ones are; in the lane no     *)
(* stale job comes after a current one; and once a current one has run the *)
(* node has what was asked, which no job of another client takes away.     *)
(***************************************************************************)
EXTENDS ClientFlow, SequenceTheorems, TLAPS

\* The shapes of the records.
ClientIds == Clients \cup {NoClient}
Phases == {"none", "live", "deleted"}
Rows == [phase : Phases, ver : Nat]
Deps == [op : Actions \cup {"none"}, st : {"none", "queued", "awaiting", "succeeded", "failed"}]
Flows == [pc : {"idle", "read", "saved", "moving"}, req : Requests \cup {"none"},
          client : ClientIds, ver : Nat, created : Nat, old : Deps, todo : SUBSET Clients,
          target : BOOLEAN, asof : Nat]
Resends == [pc : {"idle", "listed", "reread"}, client : ClientIds, act : Actions \cup {"none"},
            phase : Phases, ver : Nat, created : Nat]
Jobs == [client : Clients, act : Actions, ver : Nat, created : Nat, owner : ClientIds, asof : Nat]
Results == [job : Jobs, ok : BOOLEAN]
Sweeps == [client : ClientIds, op : Actions \cup {"none"}]
Users == [owner : ClientIds, ver : Nat]
Wants == [ver : Nat, at : Nat]

\* The types of the state.
ClientShape ==
  /\ now \in 1 .. MaxNow
  /\ row \in [Clients -> Rows]
  /\ dep \in [Clients -> Deps]
  /\ targeted \in BOOLEAN
  /\ flow \in [Operators -> Flows]
  /\ pass \in [Passes -> Resends]
  /\ jobs \subseteq Jobs /\ lane \in Seq(Jobs)
  /\ effects \subseteq Results /\ ran \subseteq Results /\ results \subseteq Results
  /\ sweep \in Sweeps
  /\ holder \in ClientIds
  /\ user \in Users
  /\ asked \in [Clients -> Wants]

\* The results that are anywhere, and the jobs that are anywhere.
Replies == ran \cup results \cup effects
Unrun == jobs \cup InLane
AllJobs == Unrun \cup {r.job : r \in Replies}

\* An operation goes with a status.
Matched(d) == (d.op = "none") <=> (d.st = "none")

\* The clients the panel knows.
Saved == {c \in Clients : row[c].phase # "none"}

\* Only clients that were saved have deployments, jobs and passes.
RowsOK ==
  /\ \A c \in Clients : /\ Matched(dep[c]) /\ row[c].ver \in 0 .. now
                        /\ c \notin Saved => dep[c] = NoDep
  /\ sweep # NoSweep => sweep.client \in Saved /\ sweep.op \in Actions
  /\ \A j \in AllJobs : j.client \in Saved

\* The clients for which a request may still make a job.
Owes(f) ==
  (IF f.pc \in {"read", "saved"} THEN {f.client} ELSE {}) \cup
  (IF f.pc \in {"saved", "moving"} THEN f.todo ELSE {})

\* A request under way at time n, the clients of S being known.
FlowOK(f, n, S) ==
  /\ Matched(f.old)
  /\ f.pc = "idle" => f = Idle
  /\ f.pc # "idle" => f.created \in 1 .. n /\ f.ver \in 0 .. n
  /\ f.pc = "read" => /\ f.client \in Clients /\ f.req \in Requests \ {"move"}
                      /\ f.req # "create" => f.client \in S
                      /\ f.req = "create" => f.old = NoDep /\ f.target
  /\ f.pc = "saved" => f.client \in S /\ f.client \notin f.todo
  /\ f.pc = "moving" => f.req = "move"
  /\ f.pc \in {"read", "saved"} /\ f.req # "move" => f.todo = {}

\* A pass under way.
PassOK(q, n, S) ==
  /\ q.pc = "idle" => q = NoPass
  /\ q.pc # "idle" => /\ q.client \in S /\ q.act \in Actions
                      /\ q.created \in 1 .. n /\ q.ver \in 0 .. n

\* No two clock readings are equal: what a request or a pass will stamp its job with is
\* not on a job of that client, nor held by another request or pass.
HoldersDiffer ==
  /\ \A o, p \in Operators : flow[o].pc # "idle" /\ flow[o].created = flow[p].created => o = p
  /\ \A o, p \in Passes : pass[o].pc # "idle" /\ pass[o].created = pass[p].created => o = p
  /\ \A o \in Operators, p \in Passes : flow[o].pc # "idle" => flow[o].created # pass[p].created
StampFree(j) ==
  /\ j.created \in 1 .. now
  /\ \A o \in Operators : j.created = flow[o].created => j.client \notin Owes(flow[o])
  /\ \A p \in Passes : j.created # pass[p].created
StampsOK ==
  /\ HoldersDiffer
  /\ \A j \in Unrun : StampFree(j)
  /\ \A j, k \in jobs : j.client = k.client /\ j.created = k.created => j = k

ClientTypeInv ==
  /\ ClientShape /\ RowsOK /\ StampsOK
  /\ \A o \in Operators : FlowOK(flow[o], now, Saved)
  /\ \A p \in Passes : PassOK(pass[p], now, Saved)

---------------------------------------------------------------------------
(* The invariant.                                                          *)

\* The clients a request has yet to save.
Unsaved(f) ==
  (IF f.pc = "read" /\ f.req # "token" THEN {f.client} ELSE {}) \cup
  (IF f.pc \in {"saved", "moving"} THEN f.todo ELSE {})

FlowPhase(f) == IF f.req = "delete" THEN "deleted" ELSE "live"

\* The clock readings on record for client c: of its last save, and of the saves after which
\* the jobs and requests that are under way were made.
Marked(c, t) ==
  \/ asked[c].at = t
  \/ \E j \in AllJobs : j.client = c /\ j.asof = t
  \/ \E o \in Operators : flow[o].pc = "read" /\ flow[o].client = c /\ flow[o].asof = t

\* They are past; and that of a request which has yet to save the client is none of them.
MarksOK ==
  \A c \in Clients :
    /\ \A t : Marked(c, t) => t \in 0 .. now
    /\ \A o \in Operators : c \in Unsaved(flow[o]) => ~Marked(c, flow[o].created)

\* One client asks for the name, or all that ask for it are excused.
RivalsOK ==
  \A b, c \in Clients : b # c /\ asked[b].ver # Absent /\ asked[c].ver # Absent => b \in excused

\* The registry and Telemt.
RegistryOK == holder # NoClient => user.owner \in {holder, NoClient}

\* A token request has read a success of the save at time t, which it will write again.
TokenHolds(f, c, t) ==
  f.pc = "read" /\ f.req = "token" /\ f.client = c /\ f.asof = t /\ f.old.st = "succeeded"

\* There is a sign that the agent has run a current job of c.
HasAnswered(c) ==
  \/ \E r \in Replies : r.ok /\ r.job.client = c /\ Current(r.job)
  \/ dep[c].st = "succeeded"
  \/ \E o \in Operators : TokenHolds(flow[o], c, asked[c].at)

\* A current job of c has been enqueued.
Launched(c) == HasAnswered(c) \/ \E j \in Unrun : j.client = c /\ Current(j)

\* From then on only current jobs of c are left in the queue, and in the lane no stale one
\* comes after a current one; once one has run no stale one is left at all, and the node has
\* what was asked.
OrderOK(c) ==
  /\ Launched(c) => \A j \in jobs : j.client = c => Current(j)
  /\ \A i, k \in DOMAIN lane :
       i < k /\ lane[i].client = c /\ lane[k].client = c /\ Current(lane[i]) => Current(lane[k])
  /\ HasAnswered(c) => \A j \in InLane : j.client = c => Current(j)
  /\ HasAnswered(c) => NodeHas(c)

ClientInv ==
  /\ MarksOK /\ RivalsOK /\ RegistryOK
  /\ \A c \in Clients : c \in excused \/ OrderOK(c)

---------------------------------------------------------------------------
(* Types.                                                                  *)

\* The records that mean nothing.
LEMMA EmptyFacts ==
  /\ NoDep \in Deps /\ NoDep.op = "none" /\ NoDep.st = "none" /\ Matched(NoDep)
  /\ Idle \in Flows /\ Idle.pc = "idle" /\ Idle.created = 0 /\ Idle.todo = {} /\ Idle.old = NoDep
  /\ NoPass \in Resends /\ NoPass.pc = "idle" /\ NoPass.created = 0
  /\ NoSweep \in Sweeps /\ NoUser \in Users /\ NoUser.owner = NoClient
<1>1. NoDep \in Deps /\ NoDep.op = "none" /\ NoDep.st = "none"
  BY DEF NoDep, Deps
<1>2. Matched(NoDep)
  BY <1>1 DEF Matched
<1>3. Idle \in Flows /\ Idle.pc = "idle" /\ Idle.created = 0 /\ Idle.todo = {} /\ Idle.old = NoDep
  BY <1>1 DEF Idle, Flows, ClientIds
<1>4. NoPass \in Resends /\ NoPass.pc = "idle" /\ NoPass.created = 0
  BY DEF NoPass, Resends, ClientIds, Phases
<1>5. NoSweep \in Sweeps /\ NoUser \in Users /\ NoUser.owner = NoClient
  BY DEF NoSweep, Sweeps, NoUser, Users, ClientIds, Absent
<1> QED
  BY <1>1, <1>2, <1>3, <1>4, <1>5

\* The fields of a request.
LEMMA FlowFields ==
  ASSUME NEW f \in Flows
  PROVE  /\ f.pc \in {"idle", "read", "saved", "moving"} /\ f.req \in Requests \cup {"none"}
         /\ f.client \in ClientIds /\ f.ver \in Nat /\ f.created \in Nat /\ f.old \in Deps
         /\ f.todo \subseteq Clients /\ f.target \in BOOLEAN /\ f.asof \in Nat
BY DEF Flows

\* The fields of a pass.
LEMMA PassFields ==
  ASSUME NEW q \in Resends
  PROVE  /\ q.pc \in {"idle", "listed", "reread"} /\ q.client \in ClientIds
         /\ q.act \in Actions \cup {"none"} /\ q.phase \in Phases
         /\ q.ver \in Nat /\ q.created \in Nat
BY DEF Resends

\* The fields of a job and of a result.
LEMMA JobFields ==
  /\ \A j \in Jobs : /\ j.client \in Clients /\ j.act \in Actions /\ j.ver \in Nat
                     /\ j.created \in Nat /\ j.owner \in ClientIds /\ j.asof \in Nat
  /\ \A r \in Results : r.job \in Jobs /\ r.ok \in BOOLEAN
  /\ \A j \in Jobs : \A b \in BOOLEAN : /\ [job |-> j, ok |-> b] \in Results
                     /\ [job |-> j, ok |-> b].job = j /\ [job |-> j, ok |-> b].ok = b
BY DEF Jobs, Results

\* The fields of a deployment.
LEMMA DepFields ==
  /\ \A d \in Deps : /\ d.op \in Actions \cup {"none"}
                     /\ d.st \in {"none", "queued", "awaiting", "succeeded", "failed"}
  /\ \A a \in Actions : \A s \in {"queued", "awaiting", "succeeded", "failed"} :
       /\ [op |-> a, st |-> s] \in Deps /\ Matched([op |-> a, st |-> s])
       /\ [op |-> a, st |-> s].op = a /\ [op |-> a, st |-> s].st = s
BY DEF Deps, Matched, Actions

\* The types of the values used below.
LEMMA ShapeFacts ==
  ASSUME ClientShape
  PROVE  /\ now \in Nat /\ now \in 1 .. MaxNow
         /\ \A c \in Clients : /\ row[c] \in Rows /\ row[c].phase \in Phases /\ row[c].ver \in Nat
                               /\ dep[c] \in Deps
                               /\ asked[c] \in Wants /\ asked[c].ver \in Nat /\ asked[c].at \in Nat
         /\ \A o \in Operators : flow[o] \in Flows
         /\ \A p \in Passes : pass[p] \in Resends
         /\ Unrun \subseteq Jobs /\ Replies \subseteq Results /\ AllJobs \subseteq Jobs
         /\ Saved \subseteq Clients
<1>1. now \in Nat /\ now \in 1 .. MaxNow
  BY ClientConstants DEF ClientShape
<1>2. \A c \in Clients : row[c] \in Rows /\ dep[c] \in Deps /\ asked[c] \in Wants
  BY DEF ClientShape
<1>3. /\ \A c \in Clients : /\ row[c].phase \in Phases /\ row[c].ver \in Nat
                            /\ asked[c].ver \in Nat /\ asked[c].at \in Nat
  BY <1>2 DEF Rows, Wants
<1>4. /\ \A o \in Operators : flow[o] \in Flows
      /\ \A p \in Passes : pass[p] \in Resends
  BY DEF ClientShape
<1>5. Unrun \subseteq Jobs
  BY DEF ClientShape, Unrun, InLane
<1>6. Replies \subseteq Results
  BY DEF ClientShape, Replies
<1>7. AllJobs \subseteq Jobs
  BY <1>5, <1>6, JobFields DEF AllJobs
<1>8. Saved \subseteq Clients
  BY DEF Saved
<1> QED
  BY <1>1, <1>2, <1>3, <1>4, <1>5, <1>6, <1>7, <1>8

\* What is right of a request stays right while time passes and clients are added.
LEMMA FlowOKStays ==
  ASSUME NEW f \in Flows, NEW n \in Nat, NEW m \in Nat, n <= m, NEW S, NEW T, S \subseteq T,
         FlowOK(f, n, S)
  PROVE  FlowOK(f, m, T)
<1>1. f.created \in Nat /\ f.ver \in Nat
  BY FlowFields
<1>2. f.pc # "idle" => f.created \in 1 .. m /\ f.ver \in 0 .. m
  BY <1>1 DEF FlowOK
<1> QED
  BY <1>2 DEF FlowOK

\* And of a pass.
LEMMA PassOKStays ==
  ASSUME NEW q \in Resends, NEW n \in Nat, NEW m \in Nat, n <= m, NEW S, NEW T, S \subseteq T,
         PassOK(q, n, S)
  PROVE  PassOK(q, m, T)
<1>1. q.created \in Nat /\ q.ver \in Nat
  BY PassFields
<1>2. q.pc # "idle" => q.created \in 1 .. m /\ q.ver \in 0 .. m
  BY <1>1 DEF PassOK
<1> QED
  BY <1>2 DEF PassOK

\* The rows, when a step changes only clients that are known.
LEMMA RowsFrom ==
  ASSUME ClientTypeInv, ClientShape', now <= now', Saved \subseteq Saved',
         \A c \in Clients : row'[c] = row[c] \/ row'[c].ver \in 0 .. now',
         \A c \in Clients : dep'[c] = dep[c] \/ (c \in Saved' /\ Matched(dep'[c])),
         sweep' \in {sweep, NoSweep} \/ (sweep'.client \in Saved' /\ sweep'.op \in Actions),
         \A j \in AllJobs' : j \in AllJobs \/ j.client \in Saved'
  PROVE  RowsOK'
<1>1. now \in Nat /\ now' \in Nat
  BY ClientConstants DEF ClientTypeInv, ClientShape
<1>2. \A c \in Clients : row[c].ver \in 0 .. now'
  BY <1>1 DEF ClientTypeInv, RowsOK
<1>3. \A c \in Clients : row'[c].ver \in 0 .. now'
  BY <1>2
<1>4. \A c \in Clients : Matched(dep'[c])
  BY DEF ClientTypeInv, RowsOK
<1>5. \A c \in Clients : c \notin Saved' => dep'[c] = NoDep
  BY DEF ClientTypeInv, RowsOK
<1>6. sweep' # NoSweep => sweep'.client \in Saved' /\ sweep'.op \in Actions
  BY DEF ClientTypeInv, RowsOK
<1>7. \A j \in AllJobs' : j.client \in Saved'
  BY DEF ClientTypeInv, RowsOK
<1> QED
  BY <1>3, <1>4, <1>5, <1>6, <1>7 DEF RowsOK

\* A request or a pass that goes on, or ends, keeps its stamp or gives it back.
FlowKeeps(f, g) ==
  \/ g \in {f, Idle}
  \/ f.pc # "idle" /\ g.created = f.created /\ Owes(g) \subseteq Owes(f)
PassKeeps(q, r) ==
  \/ r \in {q, NoPass}
  \/ q.pc # "idle" /\ r.created = q.created

\* Stamps stay apart in a step that reads no clock.
LEMMA HoldersFrom ==
  ASSUME ClientTypeInv, now' = now,
         \A o \in Operators : FlowKeeps(flow[o], flow'[o]),
         \A p \in Passes : PassKeeps(pass[p], pass'[p])
  PROVE  HoldersDiffer' /\ \A j \in Unrun : StampFree(j)'
<1>1. \A o \in Operators : /\ flow'[o].created \in {0, flow[o].created}
                           /\ flow'[o].pc # "idle" => flow[o].pc # "idle" /\ flow'[o].created = flow[o].created
                           /\ Owes(flow'[o]) \subseteq Owes(flow[o])
  <2> SUFFICES ASSUME NEW o \in Operators
               PROVE  /\ flow'[o].created \in {0, flow[o].created}
                      /\ flow'[o].pc # "idle" => flow[o].pc # "idle" /\ flow'[o].created = flow[o].created
                      /\ Owes(flow'[o]) \subseteq Owes(flow[o])
    OBVIOUS
  <2>1. Owes(Idle) = {}
    BY EmptyFacts DEF Owes
  <2> QED
    BY <2>1, EmptyFacts DEF FlowKeeps
<1>2. \A p \in Passes : /\ pass'[p].created \in {0, pass[p].created}
                        /\ pass'[p].pc # "idle" => pass[p].pc # "idle" /\ pass'[p].created = pass[p].created
  BY EmptyFacts DEF PassKeeps
<1>3. /\ \A o \in Operators : flow[o].pc # "idle" => flow[o].created # 0
      /\ \A p \in Passes : pass[p].pc # "idle" => pass[p].created # 0
  BY DEF ClientTypeInv, FlowOK, PassOK
<1>4. HoldersDiffer'
  BY <1>1, <1>2, <1>3 DEF ClientTypeInv, StampsOK, HoldersDiffer
<1>5. ASSUME NEW j \in Unrun PROVE StampFree(j)'
  <2>1. StampFree(j)
    BY DEF ClientTypeInv, StampsOK
  <2>2. j.created # 0
    BY <2>1 DEF StampFree
  <2> QED
    BY <1>1, <1>2, <2>1, <2>2 DEF StampFree
<1> QED
  BY <1>4, <1>5

\* If it enqueues nothing.
LEMMA StampsFrom ==
  ASSUME ClientTypeInv, now' = now,
         \A o \in Operators : FlowKeeps(flow[o], flow'[o]),
         \A p \in Passes : PassKeeps(pass[p], pass'[p]),
         jobs' \subseteq jobs, Unrun' \subseteq Unrun
  PROVE  StampsOK'
<1>1. HoldersDiffer' /\ \A j \in Unrun : StampFree(j)'
  BY HoldersFrom
<1>2. \A j, k \in jobs' : j.client = k.client /\ j.created = k.created => j = k
  BY DEF ClientTypeInv, StampsOK
<1> QED
  BY <1>1, <1>2 DEF StampsOK

\* If it enqueues a job with a stamp that was held until then.
LEMMA StampsEnqueue ==
  ASSUME ClientTypeInv, now' = now, lane' = lane, NEW new \in Jobs, EnqueueJob(new),
         \A o \in Operators : FlowKeeps(flow[o], flow'[o]),
         \A p \in Passes : PassKeeps(pass[p], pass'[p]),
         StampFree(new)', \A j \in Unrun : j.client = new.client => j.created # new.created
  PROVE  StampsOK'
<1>1. HoldersDiffer' /\ \A j \in Unrun : StampFree(j)'
  BY HoldersFrom
<1>2. jobs' \subseteq jobs \cup {new} /\ Unrun' \subseteq Unrun \cup {new} /\ jobs \subseteq Unrun
  BY DEF EnqueueJob, Unrun, InLane
<1>3. \A j, k \in jobs' : j.client = k.client /\ j.created = k.created => j = k
  BY <1>2 DEF ClientTypeInv, StampsOK
<1> QED
  BY <1>1, <1>2, <1>3 DEF StampsOK

\* A request reads the clock.
LEMMA StampsFlow ==
  ASSUME ClientTypeInv, now' = now + 1, UNCHANGED <<pass, jobs, lane>>, NEW o \in Operators,
         flow'[o].created = now + 1, \A p \in Operators : p # o => flow'[p] = flow[p]
  PROVE  StampsOK'
<1>1. now \in Nat
  BY ClientConstants DEF ClientTypeInv, ClientShape
<1>2. /\ \A p \in Operators : flow[p].created \in 0 .. now
      /\ \A p \in Passes : pass[p].created \in 0 .. now
  BY <1>1, EmptyFacts DEF ClientTypeInv, FlowOK, PassOK
<1>3. HoldersDiffer'
  BY <1>1, <1>2 DEF ClientTypeInv, StampsOK, HoldersDiffer
<1>4. Unrun' = Unrun
  BY DEF Unrun, InLane
<1>5. ASSUME NEW j \in Unrun PROVE StampFree(j)'
  <2>1. StampFree(j) /\ j.created \in 1 .. now
    BY DEF ClientTypeInv, StampsOK, StampFree
  <2> QED
    BY <1>1, <1>2, <2>1 DEF StampFree
<1> QED
  BY <1>3, <1>4, <1>5 DEF StampsOK, ClientTypeInv

\* A pass reads the clock.
LEMMA StampsPass ==
  ASSUME ClientTypeInv, now' = now + 1, UNCHANGED <<flow, jobs, lane>>, NEW o \in Passes,
         pass'[o].created = now + 1, \A p \in Passes : p # o => pass'[p] = pass[p]
  PROVE  StampsOK'
<1>1. now \in Nat
  BY ClientConstants DEF ClientTypeInv, ClientShape
<1>2. /\ \A p \in Operators : flow[p].created \in 0 .. now
      /\ \A p \in Passes : pass[p].created \in 0 .. now
  BY <1>1, EmptyFacts DEF ClientTypeInv, FlowOK, PassOK
<1>3. HoldersDiffer'
  BY <1>1, <1>2 DEF ClientTypeInv, StampsOK, HoldersDiffer
<1>4. Unrun' = Unrun
  BY DEF Unrun, InLane
<1>5. ASSUME NEW j \in Unrun PROVE StampFree(j)'
  <2>1. StampFree(j) /\ j.created \in 1 .. now
    BY DEF ClientTypeInv, StampsOK, StampFree
  <2> QED
    BY <1>1, <1>2, <2>1 DEF StampFree
<1> QED
  BY <1>3, <1>4, <1>5 DEF StampsOK, ClientTypeInv

\* The parts together, for a step that changes some requests and passes.
LEMMA TypesFrom ==
  ASSUME ClientTypeInv, ClientShape', now <= now', Saved \subseteq Saved', RowsOK', StampsOK',
         \A o \in Operators : flow'[o] = flow[o] \/ FlowOK(flow'[o], now', Saved'),
         \A p \in Passes : pass'[p] = pass[p] \/ PassOK(pass'[p], now', Saved')
  PROVE  ClientTypeInv'
<1>1. now \in Nat /\ now' \in Nat
  BY ClientConstants DEF ClientTypeInv, ClientShape
<1>2. \A o \in Operators : FlowOK(flow'[o], now', Saved')
  <2> SUFFICES ASSUME NEW o \in Operators, flow'[o] = flow[o] PROVE FlowOK(flow[o], now', Saved')
    OBVIOUS
  <2>1. flow[o] \in Flows /\ FlowOK(flow[o], now, Saved)
    BY DEF ClientTypeInv, ClientShape
  <2> QED
    BY <1>1, <2>1, FlowOKStays
<1>3. \A p \in Passes : PassOK(pass'[p], now', Saved')
  <2> SUFFICES ASSUME NEW p \in Passes, pass'[p] = pass[p] PROVE PassOK(pass[p], now', Saved')
    OBVIOUS
  <2>1. pass[p] \in Resends /\ PassOK(pass[p], now, Saved)
    BY DEF ClientTypeInv, ClientShape
  <2> QED
    BY <1>1, <2>1, PassOKStays
<1> QED
  BY <1>2, <1>3 DEF ClientTypeInv

\* One request changes.
LEMMA FlowWrite ==
  ASSUME ClientShape, NEW o \in Operators, NEW f \in Flows, flow' = [flow EXCEPT ![o] = f]
  PROVE  /\ flow' \in [Operators -> Flows] /\ flow'[o] = f
         /\ \A p \in Operators : p # o => flow'[p] = flow[p]
BY DEF ClientShape

\* One pass changes.
LEMMA PassWrite ==
  ASSUME ClientShape, NEW p \in Passes, NEW q \in Resends, pass' = [pass EXCEPT ![p] = q]
  PROVE  /\ pass' \in [Passes -> Resends] /\ pass'[p] = q
         /\ \A o \in Passes : o # p => pass'[o] = pass[o]
BY DEF ClientShape

\* One deployment changes.
LEMMA DepWrite ==
  ASSUME ClientShape, NEW c \in Clients, NEW d \in Deps, dep' = [dep EXCEPT ![c] = d]
  PROVE  /\ dep' \in [Clients -> Deps] /\ dep'[c] = d
         /\ \A b \in Clients : b # c => dep'[b] = dep[b]
BY DEF ClientShape

\* One client is asked for anew.
LEMMA AskedWrite ==
  ASSUME ClientShape, NEW c \in Clients, NEW v \in Nat, NEW n \in Nat,
         asked' = [asked EXCEPT ![c] = [ver |-> v, at |-> n]]
  PROVE  /\ asked' \in [Clients -> Wants]
         /\ asked'[c] = [ver |-> v, at |-> n] /\ asked'[c].ver = v /\ asked'[c].at = n
         /\ \A b \in Clients : b # c => asked'[b] = asked[b]
<1>1. [ver |-> v, at |-> n] \in Wants
  BY DEF Wants
<1> QED
  BY <1>1 DEF ClientShape

\* A step in which jobs and results only move along.
LEMMA JobsMove ==
  ASSUME ClientTypeInv, ClientShape', UNCHANGED <<now, row, dep, flow, pass>>,
         sweep' \in {sweep, NoSweep} \/ (sweep'.client \in Saved /\ sweep'.op \in Actions),
         AllJobs' \subseteq AllJobs, Unrun' \subseteq Unrun, jobs' \subseteq jobs
  PROVE  ClientTypeInv'
<1>1. now <= now'
  BY ClientConstants DEF ClientTypeInv, ClientShape
<1>2. Saved' = Saved
  BY DEF Saved
<1>3. RowsOK'
  BY <1>1, <1>2, RowsFrom
<1>4. StampsOK'
  <2>1. \A o \in Operators : FlowKeeps(flow[o], flow'[o])
    BY DEF FlowKeeps
  <2>2. \A p \in Passes : PassKeeps(pass[p], pass'[p])
    BY DEF PassKeeps
  <2> QED
    BY <2>1, <2>2, StampsFrom
<1> QED
  BY <1>1, <1>2, <1>3, <1>4, TypesFrom

\* The lane: a job is added at the end, the first is taken.
LEMMA LaneAppend ==
  ASSUME ClientShape, NEW j \in Jobs, lane' = Append(lane, j)
  PROVE  /\ lane' \in Seq(Jobs) /\ Len(lane) \in Nat /\ Len(lane') = Len(lane) + 1
         /\ lane'[Len(lane) + 1] = j
         /\ \A i \in DOMAIN lane : i \in DOMAIN lane' /\ lane'[i] = lane[i]
         /\ DOMAIN lane' = DOMAIN lane \cup {Len(lane) + 1} /\ DOMAIN lane = 1 .. Len(lane)
         /\ InLane' = InLane \cup {j}
<1>1. lane \in Seq(Jobs)
  BY DEF ClientShape
<1>2. /\ lane' \in Seq(Jobs) /\ Len(lane) \in Nat /\ Len(lane') = Len(lane) + 1
      /\ DOMAIN lane = 1 .. Len(lane) /\ DOMAIN lane' = 1 .. Len(lane')
      /\ lane'[Len(lane) + 1] = j
      /\ \A i \in 1 .. Len(lane) : lane'[i] = lane[i]
  BY <1>1
<1>3. DOMAIN lane' = DOMAIN lane \cup {Len(lane) + 1}
  BY <1>2
<1>4. \A i \in DOMAIN lane : i \in DOMAIN lane' /\ lane'[i] = lane[i]
  BY <1>2, <1>3
<1>5. InLane' = InLane \cup {j}
  BY <1>2, <1>3, <1>4 DEF InLane
<1> QED
  BY <1>2, <1>3, <1>4, <1>5

\* The first job of the lane is taken.
LEMMA LaneTail ==
  ASSUME ClientShape, lane # <<>>, lane' = Tail(lane)
  PROVE  /\ lane' \in Seq(Jobs) /\ Head(lane) \in Jobs /\ Head(lane) = lane[1] /\ Head(lane) \in InLane
         /\ 1 \in DOMAIN lane
         /\ \A i \in DOMAIN lane' : /\ i + 1 \in DOMAIN lane /\ lane'[i] = lane[i + 1] /\ i \in Nat
                                    /\ 1 < i + 1
         /\ InLane' \subseteq InLane
<1>1. lane \in Seq(Jobs)
  BY DEF ClientShape
<1>2. /\ Len(lane) \in Nat /\ Len(lane) >= 1 /\ DOMAIN lane = 1 .. Len(lane)
      /\ lane' \in Seq(Jobs) /\ Len(lane') = Len(lane) - 1 /\ DOMAIN lane' = 1 .. Len(lane')
      /\ \A i \in 1 .. Len(lane') : lane'[i] = lane[i + 1]
      /\ Head(lane) = lane[1]
  BY <1>1
<1>3. \A i \in DOMAIN lane' : i + 1 \in DOMAIN lane /\ lane'[i] = lane[i + 1] /\ i \in Nat /\ 1 < i + 1
  BY <1>2
<1>4. 1 \in DOMAIN lane /\ lane[1] \in Jobs
  BY <1>1, <1>2
<1>5. InLane' \subseteq InLane
  BY <1>3 DEF InLane
<1>6. Head(lane) \in InLane
  BY <1>2, <1>4 DEF InLane
<1> QED
  BY <1>2, <1>3, <1>4, <1>5, <1>6

\* The agent's steps, and the results on their way.
LEMMA DeliverTypes ==
  ASSUME ClientTypeInv, NEW j \in jobs, Deliver(j)
  PROVE  ClientTypeInv'
<1>1. ClientShape /\ j \in Jobs
  BY DEF ClientTypeInv, ClientShape
<1>2. lane' \in Seq(Jobs) /\ InLane' = InLane \cup {j}
  BY <1>1, LaneAppend DEF Deliver
<1>3. ClientShape'
  BY <1>1, <1>2 DEF Deliver, ClientShape, panelVars, ghostVars
<1>4. Unrun' = Unrun /\ Replies' = Replies
  BY <1>2 DEF Deliver, Unrun, Replies
<1>5. AllJobs' = AllJobs
  BY <1>4 DEF AllJobs
<1> QED
  BY <1>3, <1>4, <1>5, JobsMove DEF Deliver, panelVars

\* The cache answers.
LEMMA AnswerAgainTypes ==
  ASSUME ClientTypeInv, NEW j \in jobs, AnswerAgain(j)
  PROVE  ClientTypeInv'
<1>1. ClientShape
  BY DEF ClientTypeInv
<1>2. ClientShape'
  BY <1>1 DEF AnswerAgain, ClientShape, panelVars, ghostVars, agentVars
<1>3. Unrun' = Unrun /\ Replies' = Replies
  BY DEF AnswerAgain, Unrun, Replies, agentVars, InLane
<1>4. AllJobs' = AllJobs
  BY <1>3 DEF AllJobs
<1> QED
  BY <1>2, <1>3, <1>4, JobsMove DEF AnswerAgain, panelVars

\* A job ends with a result.
LEMMA OneMore ==
  ASSUME ClientShape, NEW j \in Unrun, NEW b \in BOOLEAN, Unrun' \subseteq Unrun,
         Replies' \subseteq Replies \cup {[job |-> j, ok |-> b]}
  PROVE  AllJobs' \subseteq AllJobs
<1>1. j \in Jobs
  BY ShapeFacts
<1>2. [job |-> j, ok |-> b].job = j
  OBVIOUS
<1> QED
  BY <1>2 DEF AllJobs

\* A full lane.
LEMMA LaneFullTypes ==
  ASSUME ClientTypeInv, NEW j \in jobs, LaneFull(j)
  PROVE  ClientTypeInv'
<1>1. ClientShape /\ j \in Jobs
  BY DEF ClientTypeInv, ClientShape
<1>2. results' = results \cup {[job |-> j, ok |-> FALSE]} /\ [job |-> j, ok |-> FALSE] \in Results
  BY <1>1, JobFields DEF LaneFull
<1>3. ClientShape'
  BY <1>1, <1>2 DEF LaneFull, ClientShape, panelVars, ghostVars, agentVars
<1>4. Unrun' = Unrun /\ Replies' = Replies \cup {[job |-> j, ok |-> FALSE]} /\ j \in Unrun
  BY <1>2 DEF LaneFull, Unrun, Replies, agentVars, InLane
<1>5. AllJobs' \subseteq AllJobs
  BY <1>1, <1>4, OneMore
<1> QED
  BY <1>3, <1>4, <1>5, JobsMove DEF LaneFull, panelVars

\* What a run leaves of lane, cache and results.
LEMMA RunFacts ==
  ASSUME ClientShape, lane # <<>>, lane' = Tail(lane), NEW b \in BOOLEAN,
         ran' = {x \in ran : x.job \in jobs} \cup {[job |-> Head(lane), ok |-> b]},
         results' = results \cup {[job |-> Head(lane), ok |-> b]}, UNCHANGED <<jobs, effects>>
  PROVE  /\ lane' \in Seq(Jobs) /\ ran' \subseteq Results /\ results' \subseteq Results
         /\ Replies' \subseteq Replies \cup {[job |-> Head(lane), ok |-> b]}
         /\ Unrun' \subseteq Unrun /\ AllJobs' \subseteq AllJobs
<1>1. lane' \in Seq(Jobs) /\ Head(lane) \in Jobs /\ Head(lane) \in InLane /\ InLane' \subseteq InLane
  BY LaneTail
<1>2. [job |-> Head(lane), ok |-> b] \in Results
  BY <1>1, JobFields
<1>3. ran' \subseteq Results /\ results' \subseteq Results
  BY <1>2 DEF ClientShape
<1>4. Replies' \subseteq Replies \cup {[job |-> Head(lane), ok |-> b]}
  BY DEF Replies
<1>5. Unrun' \subseteq Unrun /\ Head(lane) \in Unrun
  BY <1>1 DEF Unrun
<1> QED
  BY <1>1, <1>3, <1>4, <1>5, OneMore

\* What a job does to registry and Telemt.
LEMMA ApplyShape ==
  ASSUME ClientShape, NEW j \in Jobs, Apply(j)
  PROVE  holder' \in ClientIds /\ user' \in Users
<1>1. j.client \in Clients /\ j.ver \in Nat
  BY JobFields
<1>2. holder \in ClientIds /\ user \in Users
  BY DEF ClientShape
<1>3. [owner |-> j.client, ver |-> j.ver] \in Users
  BY <1>1 DEF Users, ClientIds
<1> QED
  BY <1>1, <1>2, <1>3, EmptyFacts DEF Apply, ClientIds

\* The worker runs a job.
LEMMA RunJobTypes ==
  ASSUME ClientTypeInv, RunJob
  PROVE  ClientTypeInv'
<1>1. ClientShape
  BY DEF ClientTypeInv
<1>2. /\ lane # <<>> /\ lane' = Tail(lane) /\ UNCHANGED <<jobs, effects>> /\ Apply(Head(lane))
      /\ ran' = {x \in ran : x.job \in jobs} \cup {[job |-> Head(lane), ok |-> TRUE]}
      /\ results' = results \cup {[job |-> Head(lane), ok |-> TRUE]}
  BY DEF RunJob
<1>3. /\ lane' \in Seq(Jobs) /\ ran' \subseteq Results /\ results' \subseteq Results
      /\ Unrun' \subseteq Unrun /\ AllJobs' \subseteq AllJobs
  BY <1>1, <1>2, RunFacts
<1>4. holder' \in ClientIds /\ user' \in Users
  BY <1>1, <1>2, LaneTail, ApplyShape
<1>5. ClientShape'
  BY <1>1, <1>3, <1>4 DEF RunJob, ClientShape, panelVars
<1> QED
  BY <1>3, <1>5, JobsMove DEF RunJob, panelVars

\* Telemt refuses one.
LEMMA RunJobFailsTypes ==
  ASSUME ClientTypeInv, RunJobFails
  PROVE  ClientTypeInv'
<1>1. ClientShape
  BY DEF ClientTypeInv
<1>2. /\ lane # <<>> /\ lane' = Tail(lane) /\ UNCHANGED <<jobs, effects>>
      /\ ran' = {x \in ran : x.job \in jobs} \cup {[job |-> Head(lane), ok |-> FALSE]}
      /\ results' = results \cup {[job |-> Head(lane), ok |-> FALSE]}
  BY DEF RunJobFails
<1>3. /\ lane' \in Seq(Jobs) /\ ran' \subseteq Results /\ results' \subseteq Results
      /\ Unrun' \subseteq Unrun /\ AllJobs' \subseteq AllJobs
  BY <1>1, <1>2, RunFacts
<1>5. ClientShape'
  BY <1>1, <1>3 DEF RunJobFails, ClientShape, panelVars, ghostVars
<1> QED
  BY <1>3, <1>5, JobsMove DEF RunJobFails, panelVars

\* A result is lost.
LEMMA LoseResultTypes ==
  ASSUME ClientTypeInv, NEW r \in results, LoseResult(r)
  PROVE  ClientTypeInv'
<1>1. ClientShape
  BY DEF ClientTypeInv
<1>2. ClientShape'
  BY <1>1 DEF LoseResult, ClientShape, panelVars, ghostVars, agentVars
<1>3. Unrun' = Unrun /\ Replies' \subseteq Replies
  BY DEF LoseResult, Unrun, Replies, agentVars, InLane
<1>4. AllJobs' \subseteq AllJobs
  BY <1>3 DEF AllJobs
<1> QED
  BY <1>2, <1>3, <1>4, JobsMove DEF LoseResult, panelVars

\* The agent restarts.
LEMMA AgentRestartsTypes ==
  ASSUME ClientTypeInv, AgentRestarts
  PROVE  ClientTypeInv'
<1>1. ClientShape
  BY DEF ClientTypeInv
<1>2. ClientShape'
  BY <1>1 DEF AgentRestarts, ClientShape, panelVars, ghostVars, ClientIds
<1>3. Unrun' \subseteq Unrun /\ Replies' \subseteq Replies
  BY DEF AgentRestarts, Unrun, Replies, InLane
<1>4. AllJobs' \subseteq AllJobs
  BY <1>3 DEF AllJobs
<1> QED
  BY <1>2, <1>3, <1>4, JobsMove DEF AgentRestarts, panelVars

\* A result reaches the queue.
LEMMA ReceiveResultTypes ==
  ASSUME ClientTypeInv, NEW r \in results, ReceiveResult(r)
  PROVE  ClientTypeInv'
<1>1. ClientShape
  BY DEF ClientTypeInv
<1>2. ClientShape'
  BY <1>1 DEF ReceiveResult, ClientShape, panelVars, ghostVars, agentVars
<1>3. Unrun' \subseteq Unrun /\ Replies' \subseteq Replies
  BY DEF ReceiveResult, Unrun, Replies, agentVars, InLane
<1>4. AllJobs' \subseteq AllJobs
  BY <1>3 DEF AllJobs
<1> QED
  BY <1>2, <1>3, <1>4, JobsMove DEF ReceiveResult, panelVars

\* A job expires.
LEMMA JobExpiresTypes ==
  ASSUME ClientTypeInv, NEW j \in jobs, JobExpires(j)
  PROVE  ClientTypeInv'
<1>1. ClientShape /\ j \in Jobs /\ j.client \in Clients
  BY JobFields DEF ClientTypeInv, ClientShape
<1>2. j.client \in Saved
  BY DEF ClientTypeInv, RowsOK, AllJobs, Unrun
<1>3. CASE ExpiryMarks(j.client)
  <2> DEFINE d == dep[j.client]
  <2>1. d \in Deps /\ d # NoDep /\ Matched(d)
    BY <1>1, <1>3, ShapeFacts DEF ExpiryMarks, ClientTypeInv, RowsOK
  <2>2. d.op \in Actions
    BY <2>1 DEF Deps, Matched, NoDep
  <2>3. sweep' = [client |-> j.client, op |-> d.op]
    BY <1>3 DEF JobExpires
  <2>4. sweep' \in Sweeps /\ sweep'.client \in Saved /\ sweep'.op \in Actions
    BY <1>1, <1>2, <2>2, <2>3 DEF Sweeps, ClientIds
  <2>5. ClientShape'
    BY <1>1, <2>4 DEF JobExpires, ClientShape, panelVars, ghostVars, agentVars
  <2>6. Unrun' \subseteq Unrun /\ Replies' = Replies /\ jobs' \subseteq jobs
    BY DEF JobExpires, Unrun, Replies, agentVars, InLane
  <2>7. AllJobs' \subseteq AllJobs
    BY <2>6 DEF AllJobs
  <2> QED
    BY <2>4, <2>5, <2>6, <2>7, JobsMove DEF JobExpires, panelVars
<1>4. CASE ~ExpiryMarks(j.client)
  <2>3. sweep' = sweep
    BY <1>4 DEF JobExpires
  <2>5. ClientShape'
    BY <1>1, <2>3 DEF JobExpires, ClientShape, panelVars, ghostVars, agentVars
  <2>6. Unrun' \subseteq Unrun /\ Replies' = Replies /\ jobs' \subseteq jobs
    BY DEF JobExpires, Unrun, Replies, agentVars, InLane
  <2>7. AllJobs' \subseteq AllJobs
    BY <2>6 DEF AllJobs
  <2> QED
    BY <2>3, <2>5, <2>6, <2>7, JobsMove DEF JobExpires, panelVars
<1> QED
  BY <1>3, <1>4

\* The throttle lapses.
LEMMA ThrottleLapsesTypes ==
  ASSUME ClientTypeInv, NEW c \in Clients, ThrottleLapses(c)
  PROVE  ClientTypeInv'
<1>1. ClientShape'
  BY DEF ClientTypeInv, ThrottleLapses, ClientShape, ghostVars, agentVars
<1>2. Unrun' = Unrun /\ Replies' = Replies /\ jobs' = jobs
  BY DEF ThrottleLapses, Unrun, Replies, agentVars, InLane
<1>3. AllJobs' = AllJobs
  BY <1>2 DEF AllJobs
<1> QED
  BY <1>1, <1>2, <1>3, JobsMove DEF ThrottleLapses

\* Results and expiries change a deployment.
LEMMA DepsMove ==
  ASSUME ClientTypeInv, ClientShape', UNCHANGED <<now, row, flow, pass>>,
         \A c \in Clients : dep'[c] = dep[c] \/ (c \in Saved /\ Matched(dep'[c])),
         sweep' \in {sweep, NoSweep}, AllJobs' \subseteq AllJobs, Unrun' \subseteq Unrun,
         jobs' \subseteq jobs
  PROVE  ClientTypeInv'
<1>1. now <= now'
  BY ClientConstants DEF ClientTypeInv, ClientShape
<1>2. Saved' = Saved
  BY DEF Saved
<1>3. RowsOK'
  BY <1>1, <1>2, RowsFrom
<1>4. StampsOK'
  <2>1. \A o \in Operators : FlowKeeps(flow[o], flow'[o])
    BY DEF FlowKeeps
  <2>2. \A p \in Passes : PassKeeps(pass[p], pass'[p])
    BY DEF PassKeeps
  <2> QED
    BY <2>1, <2>2, StampsFrom
<1> QED
  BY <1>1, <1>2, <1>3, <1>4, TypesFrom

\* A result is recorded.
LEMMA RecordTypes ==
  ASSUME ClientTypeInv, NEW r \in effects, RecordJobResult(r)
  PROVE  ClientTypeInv'
<1>1. ClientShape /\ r \in Results /\ r.job \in Jobs /\ r.job.act \in Actions /\ r.job.client \in Clients
  BY JobFields DEF ClientTypeInv, ClientShape
<1>2. r.job.client \in Saved
  BY DEF ClientTypeInv, RowsOK, AllJobs, Replies
<1> DEFINE d == [op |-> r.job.act, st |-> IF r.ok THEN "succeeded" ELSE "failed"]
<1>3. d \in Deps /\ Matched(d)
  BY <1>1, DepFields
<1> HIDE DEF d
<1>4. dep' = [dep EXCEPT ![r.job.client] = d]
  BY DEF RecordJobResult, d
<1>5. dep' \in [Clients -> Deps] /\ \A c \in Clients : dep'[c] = dep[c] \/ (c \in Saved /\ Matched(dep'[c]))
  BY <1>1, <1>2, <1>3, <1>4, DepWrite
<1>6. ClientShape'
  BY <1>1, <1>5 DEF RecordJobResult, ClientShape, agentVars
<1>7. Unrun' = Unrun /\ Replies' \subseteq Replies /\ jobs' = jobs
  BY DEF RecordJobResult, Unrun, Replies, agentVars, InLane
<1>8. AllJobs' \subseteq AllJobs
  BY <1>7 DEF AllJobs
<1> QED
  BY <1>5, <1>6, <1>7, <1>8, DepsMove DEF RecordJobResult

\* It cannot be persisted.
LEMMA ResultNotPersistedTypes ==
  ASSUME ClientTypeInv, NEW r \in effects, ResultNotPersisted(r)
  PROVE  ClientTypeInv'
<1>1. ClientShape'
  BY DEF ClientTypeInv, ResultNotPersisted, ClientShape, agentVars, ghostVars
<1>2. Unrun' = Unrun /\ Replies' \subseteq Replies /\ jobs' = jobs
  BY DEF ResultNotPersisted, Unrun, Replies, agentVars, InLane
<1>3. AllJobs' \subseteq AllJobs
  BY <1>2 DEF AllJobs
<1> QED
  BY <1>1, <1>2, <1>3, DepsMove DEF ResultNotPersisted

\* An expiry is written.
LEMMA ExpiryWritesTypes ==
  ASSUME ClientTypeInv, ExpiryWrites
  PROVE  ClientTypeInv'
<1>1. ClientShape /\ sweep.client \in Saved /\ sweep.client \in Clients /\ sweep.op \in Actions
  BY ShapeFacts DEF ClientTypeInv, RowsOK, ExpiryWrites
<1> DEFINE d == [op |-> sweep.op, st |-> "awaiting"]
<1>3. d \in Deps /\ Matched(d)
  BY <1>1, DepFields
<1> HIDE DEF d
<1>4. dep' = [dep EXCEPT ![sweep.client] = d] /\ sweep' = NoSweep
  BY DEF ExpiryWrites, d
<1>5. dep' \in [Clients -> Deps] /\ \A c \in Clients : dep'[c] = dep[c] \/ (c \in Saved /\ Matched(dep'[c]))
  BY <1>1, <1>3, <1>4, DepWrite
<1>6. ClientShape'
  BY <1>1, <1>4, <1>5, EmptyFacts DEF ExpiryWrites, ClientShape, agentVars, ghostVars
<1>7. Unrun' = Unrun /\ Replies' = Replies /\ jobs' = jobs
  BY DEF ExpiryWrites, Unrun, Replies, agentVars, InLane
<1>8. AllJobs' = AllJobs
  BY <1>7 DEF AllJobs
<1> QED
  BY <1>4, <1>5, <1>6, <1>7, <1>8, DepsMove DEF ExpiryWrites

\* It cannot be persisted.
LEMMA ExpiryNotPersistedTypes ==
  ASSUME ClientTypeInv, ExpiryNotPersisted
  PROVE  ClientTypeInv'
<1>1. ClientShape'
  BY EmptyFacts DEF ClientTypeInv, ExpiryNotPersisted, ClientShape, panelVars, agentVars, ghostVars
<1>2. Unrun' = Unrun /\ Replies' = Replies /\ jobs' = jobs
  BY DEF ExpiryNotPersisted, Unrun, Replies, agentVars, InLane
<1>3. AllJobs' = AllJobs
  BY <1>2 DEF AllJobs
<1> QED
  BY <1>1, <1>2, <1>3, DepsMove DEF ExpiryNotPersisted, panelVars

\* A request goes on or ends without enqueuing anything or changing a row.
LEMMA FlowMoves ==
  ASSUME ClientTypeInv, UNCHANGED <<now, row, targeted, pass, jobs, effects, sweep, agentVars, results>>,
         NEW o \in Operators, NEW f \in Flows, flow' = [flow EXCEPT ![o] = f],
         FlowKeeps(flow[o], f), FlowOK(f, now, Saved),
         dep' \in [Clients -> Deps], asked' \in [Clients -> Wants],
         \A c \in Clients : dep'[c] = dep[c] \/ (c \in Saved /\ Matched(dep'[c]))
  PROVE  ClientTypeInv'
<1>1. ClientShape
  BY DEF ClientTypeInv
<1>2. flow' \in [Operators -> Flows] /\ flow'[o] = f /\ \A p \in Operators : p # o => flow'[p] = flow[p]
  BY <1>1, FlowWrite
<1>3. ClientShape'
  BY <1>1, <1>2 DEF ClientShape, agentVars
<1>4. Unrun' = Unrun /\ Replies' = Replies /\ Saved' = Saved
  BY DEF Unrun, Replies, agentVars, InLane, Saved
<1>5. AllJobs' = AllJobs
  BY <1>4 DEF AllJobs
<1>6. now <= now'
  BY <1>1, ShapeFacts
<1>7. RowsOK'
  BY <1>3, <1>4, <1>5, <1>6, RowsFrom
<1>8. StampsOK'
  <2>1. \A p \in Operators : FlowKeeps(flow[p], flow'[p])
    BY <1>2 DEF FlowKeeps
  <2>2. \A p \in Passes : PassKeeps(pass[p], pass'[p])
    BY DEF PassKeeps
  <2> QED
    BY <2>1, <2>2, <1>4, StampsFrom
<1> QED
  BY <1>2, <1>3, <1>4, <1>6, <1>7, <1>8, TypesFrom

\* A request that has ended.
LEMMA IdleOK == \A n \in Nat : \A S : FlowOK(Idle, n, S)
BY EmptyFacts DEF FlowOK

\* A pass that has ended.
LEMMA NoPassOK == \A n \in Nat : \A S : PassOK(NoPass, n, S)
BY EmptyFacts DEF PassOK

\* A topology pass between two clients.
LEMMA MovingOK ==
  ASSUME NEW f \in Flows, NEW n \in Nat, NEW S, FlowOK(f, n, S), f.pc = "saved", f.req = "move"
  PROVE  /\ [f EXCEPT !.pc = "moving"] \in Flows /\ FlowOK([f EXCEPT !.pc = "moving"], n, S)
         /\ FlowKeeps(f, [f EXCEPT !.pc = "moving"])
         /\ Owes([f EXCEPT !.pc = "moving"]) = f.todo
         /\ [f EXCEPT !.pc = "moving"].created = f.created
<1> DEFINE g == [f EXCEPT !.pc = "moving"]
<1>1. /\ g \in Flows /\ g.pc = "moving" /\ g.req = f.req /\ g.created = f.created /\ g.ver = f.ver
      /\ g.old = f.old /\ g.todo = f.todo /\ g.client = f.client
  BY DEF Flows
<1> HIDE DEF g
<1>2. FlowOK(g, n, S)
  BY <1>1 DEF FlowOK
<1>3. Owes(g) = f.todo /\ Owes(g) \subseteq Owes(f)
  BY <1>1 DEF Owes
<1>4. FlowKeeps(f, g)
  BY <1>1, <1>3 DEF FlowKeeps
<1> QED
  BY <1>1, <1>2, <1>3, <1>4 DEF g

\* A save fails.
LEMMA FlowSaveFailsTypes ==
  ASSUME ClientTypeInv, NEW o \in Operators, FlowSaveFails(o)
  PROVE  ClientTypeInv'
<1>1. Idle \in Flows /\ FlowOK(Idle, now, Saved) /\ FlowKeeps(flow[o], Idle)
  BY EmptyFacts, IdleOK, ShapeFacts DEF FlowKeeps, ClientTypeInv
<1> QED
  BY <1>1, FlowMoves DEF FlowSaveFails, ClientTypeInv, ClientShape, ghostVars

\* A topology pass ends.
LEMMA TopologyDoneTypes ==
  ASSUME ClientTypeInv, NEW o \in Operators, TopologyDone(o)
  PROVE  ClientTypeInv'
<1>1. Idle \in Flows /\ FlowOK(Idle, now, Saved) /\ FlowKeeps(flow[o], Idle)
  BY EmptyFacts, IdleOK, ShapeFacts DEF FlowKeeps, ClientTypeInv
<1> QED
  BY <1>1, FlowMoves DEF TopologyDone, ClientTypeInv, ClientShape, ghostVars

\* What a request is after its enqueue, whether or not that succeeded.
AfterEnqueue(f) == IF f.req = "move" THEN [f EXCEPT !.pc = "moving"] ELSE Idle

\* It is in order, and its stamp is good for the clients it has yet to save.
LEMMA AfterEnqueueOK ==
  ASSUME NEW f \in Flows, NEW n \in Nat, NEW S, FlowOK(f, n, S), f.pc = "saved"
  PROVE  /\ AfterEnqueue(f) \in Flows /\ FlowOK(AfterEnqueue(f), n, S)
         /\ FlowKeeps(f, AfterEnqueue(f))
         /\ f.client \notin Owes(AfterEnqueue(f))
         /\ AfterEnqueue(f).created \in {0, f.created}
<1>1. CASE f.req = "move"
  BY <1>1, MovingOK DEF AfterEnqueue, FlowOK
<1>2. CASE f.req # "move"
  BY <1>2, EmptyFacts, IdleOK DEF AfterEnqueue, FlowKeeps, Owes
<1> QED
  BY <1>1, <1>2

\* An enqueue fails.
LEMMA FlowEnqueueFailsTypes ==
  ASSUME ClientTypeInv, NEW o \in Operators, FlowEnqueueFails(o)
  PROVE  ClientTypeInv'
<1>1. ClientShape /\ flow[o] \in Flows /\ FlowOK(flow[o], now, Saved) /\ flow[o].pc = "saved" /\ now \in Nat
  BY ShapeFacts DEF ClientTypeInv, FlowEnqueueFails
<1>2. /\ AfterEnqueue(flow[o]) \in Flows /\ FlowOK(AfterEnqueue(flow[o]), now, Saved)
      /\ FlowKeeps(flow[o], AfterEnqueue(flow[o]))
  BY <1>1, AfterEnqueueOK
<1>3. flow' = [flow EXCEPT ![o] = AfterEnqueue(flow[o])]
  BY DEF FlowEnqueueFails, AfterEnqueue
<1> QED
  BY <1>1, <1>2, <1>3, FlowMoves DEF FlowEnqueueFails, ClientTypeInv, ClientShape, ghostVars

\* A request begins.
LEMMA FlowBegins ==
  ASSUME ClientTypeInv, Tick,
         UNCHANGED <<row, dep, pass, jobs, effects, sweep, agentVars, results, asked>>,
         targeted' \in BOOLEAN, NEW o \in Operators, NEW f \in Flows, flow' = [flow EXCEPT ![o] = f],
         f.created = now + 1, FlowOK(f, now + 1, Saved)
  PROVE  ClientTypeInv'
<1>1. ClientShape /\ now \in Nat
  BY ShapeFacts DEF ClientTypeInv
<1>2. flow' \in [Operators -> Flows] /\ flow'[o] = f /\ \A p \in Operators : p # o => flow'[p] = flow[p]
  BY <1>1, FlowWrite
<1>3. now' = now + 1 /\ now' \in 1 .. MaxNow /\ now <= now'
  BY <1>1, ClientConstants DEF Tick
<1>4. ClientShape'
  BY <1>1, <1>2, <1>3 DEF ClientShape, agentVars
<1>5. Unrun' = Unrun /\ Replies' = Replies /\ Saved' = Saved
  BY DEF Unrun, Replies, agentVars, InLane, Saved
<1>6. AllJobs' = AllJobs
  BY <1>5 DEF AllJobs
<1>7. RowsOK'
  BY <1>3, <1>4, <1>5, <1>6, RowsFrom
<1>8. StampsOK'
  BY <1>2, <1>3, StampsFlow DEF agentVars
<1> QED
  BY <1>2, <1>3, <1>4, <1>5, <1>7, <1>8, TypesFrom

\* What FlowReads makes the request.
ReadFlow(c, req) ==
  [pc |-> "read", req |-> req, client |-> c, created |-> now + 1,
   ver |-> NewVer(req, row[c].ver, now + 1), old |-> dep[c], todo |-> {}, target |-> targeted,
   asof |-> asked[c].at]

\* Its fields.
LEMMA ReadFlowFacts ==
  ASSUME ClientTypeInv, NEW c \in Clients, NEW req \in Requests \ {"move"}
  PROVE  /\ ReadFlow(c, req) \in Flows /\ ReadFlow(c, req).pc = "read" /\ ReadFlow(c, req).req = req
         /\ ReadFlow(c, req).client = c /\ ReadFlow(c, req).created = now + 1
         /\ ReadFlow(c, req).ver = NewVer(req, row[c].ver, now + 1)
         /\ ReadFlow(c, req).old = dep[c] /\ ReadFlow(c, req).todo = {}
         /\ ReadFlow(c, req).target = targeted /\ ReadFlow(c, req).ver \in 0 .. now + 1
         /\ ReadFlow(c, req).asof = asked[c].at
<1>1. ClientShape /\ now \in Nat /\ row[c].ver \in 0 .. now /\ dep[c] \in Deps /\ targeted \in BOOLEAN
      /\ asked[c].at \in Nat
  BY ShapeFacts DEF ClientTypeInv, RowsOK, ClientShape
<1>2. NewVer(req, row[c].ver, now + 1) \in 0 .. now + 1 /\ now + 1 \in Nat
  BY <1>1 DEF NewVer
<1>3. NewVer(req, row[c].ver, now + 1) \in Nat /\ c \in ClientIds /\ req \in Requests \cup {"none"}
  BY <1>1, <1>2 DEF ClientIds
<1> QED
  BY <1>1, <1>2, <1>3 DEF ReadFlow, Flows

\* A request reads.
LEMMA FlowReadsTypes ==
  ASSUME ClientTypeInv, NEW o \in Operators, NEW c \in Clients, NEW req \in Requests \ {"move"},
         FlowReads(o, c, req)
  PROVE  ClientTypeInv'
<1> DEFINE f == ReadFlow(c, req)
<1>1. ClientShape /\ now \in Nat /\ targeted \in BOOLEAN
  BY ShapeFacts DEF ClientTypeInv, ClientShape
<1>2. /\ f \in Flows /\ f.pc = "read" /\ f.req = req /\ f.client = c /\ f.created = now + 1
      /\ f.old = dep[c] /\ f.todo = {} /\ f.target = targeted /\ f.ver \in 0 .. now + 1
  BY ReadFlowFacts
<1> HIDE DEF f
<1>3. flow' = [flow EXCEPT ![o] = f]
  BY DEF FlowReads, f, ReadFlow
<1>4. Matched(dep[c])
  BY DEF ClientTypeInv, RowsOK
<1>5. req # "create" => c \in Saved
  BY DEF FlowReads, Saved
<1>6. req = "create" => dep[c] = NoDep /\ targeted
  BY DEF FlowReads, ClientTypeInv, RowsOK, Saved
<1>7. now + 1 \in 1 .. now + 1
  BY <1>1
<1>8. FlowOK(f, now + 1, Saved)
  BY <1>2, <1>4, <1>5, <1>6, <1>7 DEF FlowOK
<1> QED
  BY <1>1, <1>2, <1>3, <1>8, FlowBegins DEF FlowReads, ghostVars

\* What NodeMoves makes the request.
MoveFlow ==
  [Idle EXCEPT !.pc = "moving", !.req = "move", !.created = now + 1,
               !.todo = {c \in Clients : row[c].phase = "live" /\ ~SameAgentSet(c, ~targeted)}]

\* Its fields.
LEMMA MoveFlowFacts ==
  ASSUME ClientTypeInv
  PROVE  /\ MoveFlow \in Flows /\ MoveFlow.pc = "moving" /\ MoveFlow.req = "move"
         /\ MoveFlow.created = now + 1 /\ MoveFlow.ver = 0 /\ MoveFlow.old = NoDep
         /\ MoveFlow.todo \subseteq Clients
<1> DEFINE todo == {c \in Clients : row[c].phase = "live" /\ ~SameAgentSet(c, ~targeted)}
           f == [Idle EXCEPT !.pc = "moving", !.req = "move", !.created = now + 1, !.todo = todo]
<1>1. now + 1 \in Nat /\ todo \subseteq Clients
  BY ShapeFacts DEF ClientTypeInv
<1> HIDE DEF todo
<1>2. /\ f \in Flows /\ f.pc = "moving" /\ f.req = "move" /\ f.created = now + 1 /\ f.ver = 0
      /\ f.old = NoDep /\ f.todo = todo
  <2>1. Idle \in Flows /\ Idle.ver = 0 /\ Idle.old = NoDep
    BY EmptyFacts DEF Idle
  <2> QED
    BY <1>1, <2>1 DEF Flows, Requests
<1>3. MoveFlow = f
  BY Zenon DEF MoveFlow, todo
<1> HIDE DEF f
<1> QED
  BY <1>1, <1>2, <1>3

\* The node moves.
LEMMA NodeMovesTypes ==
  ASSUME ClientTypeInv, NEW o \in Operators, NodeMoves(o)
  PROVE  ClientTypeInv'
<1>1. ClientShape /\ now \in Nat
  BY ShapeFacts DEF ClientTypeInv
<1>2. flow' = [flow EXCEPT ![o] = MoveFlow] /\ targeted' \in BOOLEAN
  BY <1>1 DEF NodeMoves, MoveFlow, ClientShape
<1>3. now + 1 \in 1 .. now + 1 /\ 0 \in 0 .. now + 1
  BY <1>1
<1>4. FlowOK(MoveFlow, now + 1, Saved)
  BY <1>3, MoveFlowFacts, EmptyFacts DEF FlowOK
<1> QED
  BY <1>2, <1>4, MoveFlowFacts, FlowBegins DEF NodeMoves, ghostVars

\* What BuildDeployments returns.
LEMMA RebuiltFacts ==
  ASSUME NEW old \in Deps, Matched(old), NEW target \in BOOLEAN, NEW act \in Actions
  PROVE  /\ Rebuilt(old, target, act) \in Deps /\ Matched(Rebuilt(old, target, act))
         /\ Rebuilt(old, target, act).st \in {"none", "queued"}
         /\ Rebuilt(old, target, act) # NoDep =>
              Rebuilt(old, target, act).op = IF target \/ act = "delete" THEN act ELSE "delete"
         /\ target => Rebuilt(old, target, act).op = act
<1>1. "delete" \in Actions
  BY DEF Actions
<1>2. CASE target \/ (act = "delete" /\ old # NoDep)
  <2>1. Rebuilt(old, target, act) = [op |-> act, st |-> "queued"]
    BY <1>2 DEF Rebuilt
  <2>2. LET d == [op |-> act, st |-> "queued"] IN d \in Deps /\ Matched(d) /\ d.op = act /\ d.st = "queued"
    BY DepFields
  <2> QED
    BY <1>2, <2>1, <2>2
<1>3. CASE ~target /\ act # "delete" /\ old # NoDep
  <2>1. Rebuilt(old, target, act) = [op |-> "delete", st |-> "queued"]
    BY <1>3 DEF Rebuilt
  <2>2. LET d == [op |-> "delete", st |-> "queued"]
        IN  d \in Deps /\ Matched(d) /\ d.op = "delete" /\ d.st = "queued"
    BY <1>1, DepFields
  <2> QED
    BY <1>3, <2>1, <2>2
<1>4. CASE ~target /\ old = NoDep
  <2>1. Rebuilt(old, target, act) = NoDep
    BY <1>4 DEF Rebuilt
  <2> QED
    BY <1>4, <2>1, EmptyFacts
<1> QED
  BY <1>2, <1>3, <1>4

\* What a save writes.
LEMMA SavedDepFacts ==
  ASSUME NEW f \in Flows, Matched(f.old), f.req \in Requests \ {"move"}
  PROVE  SavedDep(f) \in Deps /\ Matched(SavedDep(f))
<1>1. f.old \in Deps /\ f.target \in BOOLEAN
  BY FlowFields
<1>2. CASE f.req = "token"
  BY <1>1, <1>2 DEF SavedDep
<1>3. CASE f.req # "token"
  <2>1. JobAction(f.req) \in Actions
    BY <1>3 DEF JobAction, Requests, Actions
  <2> QED
    BY <1>1, <1>3, <2>1, RebuiltFacts DEF SavedDep
<1> QED
  BY <1>2, <1>3

\* What a request is after its save.
AfterSave(f) == IF f.req = "token" THEN Idle ELSE [f EXCEPT !.pc = "saved", !.old = SavedDep(f)]

\* It is in order.
LEMMA AfterSaveFacts ==
  ASSUME NEW f \in Flows, NEW n \in Nat, NEW S, NEW T, S \cup {f.client} \subseteq T,
         FlowOK(f, n, S), f.pc = "read"
  PROVE  /\ AfterSave(f) \in Flows /\ FlowOK(AfterSave(f), n, T) /\ FlowKeeps(f, AfterSave(f))
         /\ f.req # "token" => /\ AfterSave(f).pc = "saved" /\ AfterSave(f).req = f.req
                               /\ AfterSave(f).client = f.client /\ AfterSave(f).ver = f.ver
                               /\ AfterSave(f).created = f.created /\ AfterSave(f).todo = f.todo
                               /\ AfterSave(f).old = SavedDep(f)
<1>1. CASE f.req = "token"
  BY <1>1, EmptyFacts, IdleOK DEF AfterSave, FlowKeeps
<1>2. CASE f.req # "token"
  <2> DEFINE g == AfterSave(f)
  <2>1. SavedDep(f) \in Deps /\ Matched(SavedDep(f))
    BY SavedDepFacts DEF FlowOK
  <2>2. /\ g \in Flows /\ g.pc = "saved" /\ g.req = f.req /\ g.created = f.created /\ g.ver = f.ver
        /\ g.old = SavedDep(f) /\ g.todo = f.todo /\ g.client = f.client
    BY <1>2, <2>1 DEF Flows, AfterSave
  <2> HIDE DEF g
  <2>3. f.todo = {} /\ f.req # "move"
    BY DEF FlowOK
  <2>4. FlowOK(g, n, T)
    BY <2>1, <2>2, <2>3 DEF FlowOK
  <2>5. Owes(g) \subseteq Owes(f)
    BY <2>2, <2>3 DEF Owes
  <2>6. FlowKeeps(f, g)
    BY <2>2, <2>5 DEF FlowKeeps
  <2> QED
    BY <2>2, <2>4, <2>6 DEF g
<1> QED
  BY <1>1, <1>2

\* What a save does.
LEMMA FlowSavesFacts ==
  ASSUME ClientTypeInv, NEW o \in Operators, FlowSaves(o)
  PROVE  LET f == flow[o]  c == f.client  d == SavedDep(f)
         IN  /\ f \in Flows /\ f.pc = "read" /\ FlowOK(f, now, Saved) /\ c \in Clients
             /\ flow' = [flow EXCEPT ![o] = AfterSave(f)]
             /\ row' \in [Clients -> Rows] /\ row'[c] = [phase |-> FlowPhase(f), ver |-> f.ver]
             /\ row'[c].phase = FlowPhase(f) /\ row'[c].ver = f.ver /\ f.ver \in 0 .. now
             /\ \A b \in Clients : b # c => row'[b] = row[b]
             /\ d \in Deps /\ Matched(d) /\ dep' \in [Clients -> Deps] /\ dep'[c] = d
             /\ \A b \in Clients : b # c => dep'[b] = dep[b]
             /\ Saved' = Saved \cup {c}
             /\ asked' \in [Clients -> Wants]
             /\ f.req = "token" => /\ UNCHANGED asked
                                   /\ excused' = IF asked[c].at = f.asof THEN excused ELSE excused \cup {c}
             /\ f.req # "token" =>
                  /\ asked'[c] = [ver |-> AskedVer(d, FlowPhase(f), f.ver), at |-> f.created]
                  /\ asked'[c].ver = AskedVer(d, FlowPhase(f), f.ver) /\ asked'[c].at = f.created
                  /\ \A b \in Clients : b # c => asked'[b] = asked[b]
                  /\ SaveAsks(c, AskedVer(d, FlowPhase(f), f.ver), f.created)
<1> DEFINE f == flow[o]  c == f.client  d == SavedDep(f)
<1>1. ClientShape /\ f \in Flows /\ FlowOK(f, now, Saved) /\ f.pc = "read"
  BY ShapeFacts DEF ClientTypeInv, FlowSaves
<1>2. c \in Clients /\ f.req \in Requests \ {"move"} /\ Matched(f.old) /\ f.ver \in 0 .. now
  BY <1>1 DEF FlowOK
<1>3. d \in Deps /\ Matched(d) /\ f.ver \in Nat /\ f.created \in Nat
  BY <1>1, <1>2, SavedDepFacts, FlowFields
<1>4. AskedVer(d, FlowPhase(f), f.ver) \in Nat
  BY <1>3 DEF AskedVer, Absent
<1>5. flow' = [flow EXCEPT ![o] = AfterSave(f)]
  BY DEF FlowSaves, AfterSave
<1>6. row' = [row EXCEPT ![c] = [phase |-> FlowPhase(f), ver |-> f.ver]] /\ dep' = [dep EXCEPT ![c] = d]
  BY DEF FlowSaves, FlowPhase
<1>7. /\ f.req = "token" => /\ UNCHANGED asked
                            /\ excused' = IF asked[c].at = f.asof THEN excused ELSE excused \cup {c}
      /\ f.req # "token" =>
           /\ SaveAsks(c, AskedVer(d, FlowPhase(f), f.ver), f.created)
           /\ asked' = [asked EXCEPT ![c] = [ver |-> AskedVer(d, FlowPhase(f), f.ver), at |-> f.created]]
  BY DEF FlowSaves, FlowPhase, SaveAsks
<1>8. asked' \in [Clients -> Wants] /\ (f.req # "token" =>
                  /\ asked'[c] = [ver |-> AskedVer(d, FlowPhase(f), f.ver), at |-> f.created]
                  /\ asked'[c].ver = AskedVer(d, FlowPhase(f), f.ver) /\ asked'[c].at = f.created
                  /\ \A b \in Clients : b # c => asked'[b] = asked[b])
  <2>1. CASE f.req = "token"
    BY <1>1, <1>7, <2>1 DEF ClientShape
  <2>2. CASE f.req # "token"
    <3> HIDE DEF f, c, d
    <3> QED
      BY <1>1, <1>2, <1>3, <1>4, <1>7, <2>2, AskedWrite
  <2> QED
    BY <2>1, <2>2
<1>9. dep' \in [Clients -> Deps] /\ dep'[c] = d /\ \A b \in Clients : b # c => dep'[b] = dep[b]
  <2> HIDE DEF f, c, d
  <2> QED
    BY <1>1, <1>2, <1>3, <1>6, DepWrite
<1>10. /\ row' \in [Clients -> Rows] /\ row'[c] = [phase |-> FlowPhase(f), ver |-> f.ver]
       /\ \A b \in Clients : b # c => row'[b] = row[b]
  <2>1. [phase |-> FlowPhase(f), ver |-> f.ver] \in Rows
    BY <1>3 DEF Rows, FlowPhase, Phases
  <2> QED
    BY <1>1, <1>2, <1>6, <2>1 DEF ClientShape
<1>11. row'[c].phase = FlowPhase(f) /\ row'[c].ver = f.ver /\ FlowPhase(f) # "none"
  BY <1>10 DEF FlowPhase
<1>12. Saved' = Saved \cup {c}
  <2> HIDE DEF f, c, d
  <2> QED
    BY <1>2, <1>10, <1>11 DEF Saved
<1> QED
  BY <1>1, <1>2, <1>3, <1>5, <1>7, <1>8, <1>9, <1>10, <1>11, <1>12

\* A request saves.
LEMMA FlowSavesTypes ==
  ASSUME ClientTypeInv, NEW o \in Operators, FlowSaves(o)
  PROVE  ClientTypeInv'
<1> DEFINE f == flow[o]  c == f.client  d == SavedDep(f)
<1>1. /\ f \in Flows /\ f.pc = "read" /\ FlowOK(f, now, Saved) /\ c \in Clients
      /\ flow' = [flow EXCEPT ![o] = AfterSave(f)]
      /\ row' \in [Clients -> Rows] /\ row'[c].ver = f.ver /\ f.ver \in 0 .. now
      /\ \A b \in Clients : b # c => row'[b] = row[b]
      /\ Matched(d) /\ dep' \in [Clients -> Deps] /\ dep'[c] = d
      /\ \A b \in Clients : b # c => dep'[b] = dep[b]
      /\ Saved' = Saved \cup {c} /\ asked' \in [Clients -> Wants]
  BY FlowSavesFacts
<1>2. ClientShape /\ now \in Nat
  BY ShapeFacts DEF ClientTypeInv
<1> HIDE DEF f, c, d
<1>3. AfterSave(f) \in Flows /\ FlowOK(AfterSave(f), now, Saved') /\ FlowKeeps(f, AfterSave(f))
  BY <1>1, <1>2, AfterSaveFacts DEF c
<1>4. /\ flow' \in [Operators -> Flows] /\ flow'[o] = AfterSave(f)
      /\ \A p \in Operators : p # o => flow'[p] = flow[p]
  BY <1>1, <1>2, <1>3, FlowWrite
<1>5. ClientShape' /\ now' = now
  BY <1>1, <1>2, <1>4 DEF FlowSaves, ClientShape, agentVars
<1>6. Unrun' = Unrun /\ Replies' = Replies /\ now <= now' /\ sweep' = sweep /\ jobs' = jobs /\ pass' = pass
  BY <1>2, <1>5 DEF FlowSaves, Unrun, Replies, agentVars, InLane
<1>7. AllJobs' = AllJobs
  BY <1>6 DEF AllJobs
<1>8. RowsOK'
  <2>1. \A b \in Clients : row'[b] = row[b] \/ row'[b].ver \in 0 .. now'
    BY <1>1, <1>5
  <2>2. \A b \in Clients : dep'[b] = dep[b] \/ (b \in Saved' /\ Matched(dep'[b]))
    BY <1>1
  <2> QED
    BY <1>1, <1>5, <1>6, <1>7, <2>1, <2>2, RowsFrom
<1>9. StampsOK'
  <2>1. \A p \in Operators : FlowKeeps(flow[p], flow'[p])
    BY <1>3, <1>4 DEF FlowKeeps, f
  <2>2. \A p \in Passes : PassKeeps(pass[p], pass'[p])
    BY <1>6 DEF PassKeeps
  <2> QED
    BY <2>1, <2>2, <1>5, <1>6, StampsFrom
<1> QED
  BY <1>1, <1>3, <1>4, <1>5, <1>6, <1>8, <1>9, TypesFrom

\* What a topology pass does to a client whose targets have changed.
LEMMA TopologyFacts ==
  ASSUME ClientTypeInv, NEW o \in Operators, NEW c \in Clients, TopologySaves(o, c)
  PROVE  LET f == flow[o]  d == Rebuilt(dep[c], targeted, "update")
             g == flow'[o]
         IN  /\ f \in Flows /\ f.pc = "moving" /\ FlowOK(f, now, Saved) /\ c \in f.todo
             /\ g \in Flows /\ flow' = [flow EXCEPT ![o] = g] /\ FlowOK(g, now, Saved) /\ FlowKeeps(f, g)
             /\ g.created = f.created /\ g.req = "move" /\ g.todo = f.todo \ {c}
             /\ \/ /\ g.pc = "saved" /\ g.client = c /\ g.old = d /\ g.ver = row[c].ver
                   /\ row[c].phase = "live"
                   /\ d \in Deps /\ Matched(d) /\ d.op \in Actions /\ d.st # "succeeded"
                   /\ dep' = [dep EXCEPT ![c] = d]
                   /\ SaveAsks(c, AskedVer(d, "live", row[c].ver), f.created)
                   /\ asked' = [asked EXCEPT ![c] = [ver |-> AskedVer(d, "live", row[c].ver),
                                                     at |-> f.created]]
                \/ /\ g.pc = "moving" /\ UNCHANGED <<dep, asked, excused>>
<1> DEFINE f == flow[o]  d == Rebuilt(dep[c], targeted, "update")
<1>1. ClientShape /\ f \in Flows /\ FlowOK(f, now, Saved) /\ f.pc = "moving" /\ c \in f.todo
  BY ShapeFacts DEF ClientTypeInv, TopologySaves
<1>2. /\ f.req = "move" /\ Matched(f.old) /\ f.created \in 1 .. now /\ f.ver \in 0 .. now
      /\ f.todo \subseteq Clients
  BY <1>1, FlowFields DEF FlowOK
<1>3. dep[c] \in Deps /\ Matched(dep[c]) /\ row[c].ver \in 0 .. now /\ row[c].ver \in Nat
      /\ targeted \in BOOLEAN
  BY <1>1, ShapeFacts DEF ClientTypeInv, RowsOK, ClientShape
<1>4. CASE row[c].phase = "live" /\ ~SameAgentSet(c, targeted)
  <2> DEFINE g == [f EXCEPT !.pc = "saved", !.client = c, !.old = d, !.ver = row[c].ver, !.todo = @ \ {c}]
  <2>1. d \in Deps /\ Matched(d) /\ d.st \in {"none", "queued"}
    BY <1>3, RebuiltFacts DEF Actions
  <2>2. d # NoDep
    BY <1>4, EmptyFacts DEF SameAgentSet, Rebuilt, NoDep
  <2>3. d.op \in Actions
    BY <2>1, <2>2 DEF Deps, Matched, NoDep
  <2>4. /\ dep' = [dep EXCEPT ![c] = d] /\ flow' = [flow EXCEPT ![o] = g]
        /\ SaveAsks(c, AskedVer(d, "live", row[c].ver), f.created)
        /\ asked' = [asked EXCEPT ![c] = [ver |-> AskedVer(d, "live", row[c].ver), at |-> f.created]]
    BY <1>4 DEF TopologySaves, SaveAsks
  <2>5. /\ g \in Flows /\ g.pc = "saved" /\ g.req = f.req /\ g.created = f.created /\ g.ver = row[c].ver
        /\ g.old = d /\ g.todo = f.todo \ {c} /\ g.client = c
    <3> HIDE DEF d
    <3> QED
      BY <1>1, <1>2, <1>3, <2>1 DEF Flows, ClientIds
  <2> HIDE DEF f, d, g
  <2>6. c \in Saved
    BY <1>4 DEF Saved
  <2>7. FlowOK(g, now, Saved)
    BY <1>2, <1>3, <2>1, <2>5, <2>6 DEF FlowOK
  <2>8. Owes(g) \subseteq Owes(f)
    BY <1>1, <2>5 DEF Owes
  <2>9. FlowKeeps(f, g)
    BY <1>1, <2>5, <2>8 DEF FlowKeeps
  <2>10. flow'[o] = g
    BY <1>1, <2>4, <2>5, FlowWrite
  <2> QED
    BY <1>1, <1>2, <1>4, <2>1, <2>3, <2>4, <2>5, <2>7, <2>9, <2>10 DEF f, d
<1>5. CASE ~(row[c].phase = "live" /\ ~SameAgentSet(c, targeted))
  <2> DEFINE g == [f EXCEPT !.todo = @ \ {c}]
  <2>1. flow' = [flow EXCEPT ![o] = g] /\ UNCHANGED <<dep, asked, excused>>
    BY <1>5 DEF TopologySaves, ghostVars
  <2>2. /\ g \in Flows /\ g.pc = f.pc /\ g.req = f.req /\ g.created = f.created /\ g.ver = f.ver
        /\ g.old = f.old /\ g.todo = f.todo \ {c} /\ g.client = f.client
    BY <1>1, <1>2 DEF Flows
  <2> HIDE DEF f, d, g
  <2>3. FlowOK(g, now, Saved)
    BY <1>1, <1>2, <2>2 DEF FlowOK
  <2>4. Owes(g) \subseteq Owes(f)
    BY <1>1, <2>2 DEF Owes
  <2>5. FlowKeeps(f, g)
    BY <1>1, <2>2, <2>4 DEF FlowKeeps
  <2>6. flow'[o] = g
    BY <1>1, <2>1, <2>2, FlowWrite
  <2> QED
    BY <1>1, <1>2, <2>1, <2>2, <2>3, <2>5, <2>6 DEF f, d
<1> QED
  BY <1>4, <1>5

\* A topology pass looks at a client.
LEMMA TopologySavesTypes ==
  ASSUME ClientTypeInv, NEW o \in Operators, NEW c \in Clients, TopologySaves(o, c)
  PROVE  ClientTypeInv'
<1> DEFINE f == flow[o]  d == Rebuilt(dep[c], targeted, "update")  g == flow'[o]
<1>1. /\ f \in Flows /\ FlowOK(f, now, Saved)
      /\ g \in Flows /\ flow' = [flow EXCEPT ![o] = g] /\ FlowOK(g, now, Saved) /\ FlowKeeps(f, g)
      /\ \/ /\ row[c].phase = "live" /\ d \in Deps /\ Matched(d) /\ dep' = [dep EXCEPT ![c] = d]
            /\ asked' = [asked EXCEPT ![c] = [ver |-> AskedVer(d, "live", row[c].ver), at |-> f.created]]
         \/ UNCHANGED <<dep, asked>>
  BY TopologyFacts
<1>2. ClientShape /\ row[c].ver \in Nat /\ f.created \in Nat
  BY <1>1, ShapeFacts, FlowFields DEF ClientTypeInv
<1> HIDE DEF d, f, g
<1>3. /\ dep' \in [Clients -> Deps] /\ asked' \in [Clients -> Wants]
      /\ \A b \in Clients : dep'[b] = dep[b] \/ (b \in Saved /\ Matched(dep'[b]))
  <2>1. CASE UNCHANGED <<dep, asked>>
    BY <1>2, <2>1 DEF ClientShape
  <2>2. CASE /\ row[c].phase = "live" /\ d \in Deps /\ Matched(d) /\ dep' = [dep EXCEPT ![c] = d]
             /\ asked' = [asked EXCEPT ![c] = [ver |-> AskedVer(d, "live", row[c].ver), at |-> f.created]]
    <3>1. AskedVer(d, "live", row[c].ver) \in Nat
      BY <1>2 DEF AskedVer, Absent
    <3>2. c \in Saved
      BY <2>2 DEF Saved
    <3>3. asked' \in [Clients -> Wants]
      BY <1>2, <2>2, <3>1, AskedWrite
    <3> QED
      BY <1>2, <2>2, <3>2, <3>3, DepWrite
  <2> QED
    BY <1>1, <2>1, <2>2
<1> QED
  BY <1>1, <1>3, FlowMoves DEF TopologySaves, f, g

\* What a topology pass is after a save that failed: it has one client less to look at.
LEMMA SkippedFacts ==
  ASSUME ClientTypeInv, NEW o \in Operators, NEW c \in Clients, TopologySaveFails(o, c)
  PROVE  LET f == flow[o]  g == flow'[o]
         IN  /\ f \in Flows /\ f.pc = "moving"
             /\ g \in Flows /\ flow' = [flow EXCEPT ![o] = g] /\ FlowOK(g, now, Saved) /\ FlowKeeps(f, g)
             /\ g.pc = "moving" /\ g.created = f.created /\ g.todo = f.todo \ {c}
<1> DEFINE f == flow[o]  g == [f EXCEPT !.todo = @ \ {c}]
<1>1. ClientShape /\ f \in Flows /\ FlowOK(f, now, Saved) /\ f.pc = "moving"
  BY ShapeFacts DEF ClientTypeInv, TopologySaveFails
<1>2. flow' = [flow EXCEPT ![o] = g]
  BY DEF TopologySaveFails
<1>3. /\ g \in Flows /\ g.pc = f.pc /\ g.req = f.req /\ g.created = f.created /\ g.ver = f.ver
      /\ g.old = f.old /\ g.todo = f.todo \ {c} /\ g.client = f.client
  BY <1>1 DEF Flows
<1> HIDE DEF f, g
<1>4. FlowOK(g, now, Saved)
  BY <1>1, <1>3 DEF FlowOK
<1>5. Owes(g) \subseteq Owes(f)
  BY <1>1, <1>3 DEF Owes
<1>6. FlowKeeps(f, g)
  BY <1>1, <1>3, <1>5 DEF FlowKeeps
<1>7. flow'[o] = g
  BY <1>1, <1>2, <1>3, FlowWrite
<1> QED
  BY <1>1, <1>2, <1>3, <1>4, <1>6, <1>7 DEF f

\* The save of a topology pass fails.
LEMMA TopologySaveFailsTypes ==
  ASSUME ClientTypeInv, NEW o \in Operators, NEW c \in Clients, TopologySaveFails(o, c)
  PROVE  ClientTypeInv'
<1>1. PICK g \in Flows : /\ flow' = [flow EXCEPT ![o] = g] /\ FlowOK(g, now, Saved)
                        /\ FlowKeeps(flow[o], g)
  BY SkippedFacts
<1>2. UNCHANGED <<now, row, dep, targeted, pass, jobs, effects, sweep, agentVars, results, asked>>
  BY DEF TopologySaveFails, ghostVars
<1>3. dep' \in [Clients -> Deps] /\ asked' \in [Clients -> Wants]
  BY <1>2 DEF ClientTypeInv, ClientShape
<1> QED
  BY <1>1, <1>2, <1>3, FlowMoves

\* A new job.
LEMMA NewJobFacts ==
  ASSUME ClientShape, NEW c \in Clients, NEW act \in Actions, NEW phase, NEW ver \in Nat, NEW created \in Nat
  PROVE  LET j == NewJob(c, act, phase, ver, created)
         IN  /\ j \in Jobs /\ j.client = c /\ j.act = act /\ j.created = created
             /\ j.ver = (IF phase = "live" THEN ver ELSE Absent) /\ j.asof = asked[c].at
<1>1. NameOwner(c) \in ClientIds
  <2> DEFINE others == {d \in Clients \ {c} : /\ row[d].phase = "live"
                                              /\ dep[d].op \notin {"none", "delete"}}
  <2>1. CASE others = {}
    BY <2>1 DEF NameOwner, ClientIds
  <2>2. CASE others # {}
    <3>1. (CHOOSE d \in others : TRUE) \in others
      BY <2>2
    <3> QED
      BY <2>2, <3>1 DEF NameOwner, ClientIds
  <2> QED
    BY <2>1, <2>2
<1>2. asked[c].at \in Nat
  BY ShapeFacts
<1> QED
  BY <1>1, <1>2 DEF NewJob, Jobs, ClientIds, Absent

\* A request enqueues.
LEMMA FlowEnqueuesTypes ==
  ASSUME ClientTypeInv, NEW o \in Operators, FlowEnqueues(o)
  PROVE  ClientTypeInv'
<1> DEFINE f == flow[o]  c == f.client
<1>1. ClientShape /\ f \in Flows /\ FlowOK(f, now, Saved) /\ f.pc = "saved" /\ now \in Nat
  BY ShapeFacts DEF ClientTypeInv, FlowEnqueues
<1>2. c \in Saved /\ c \in Clients /\ Matched(f.old) /\ f.created \in 1 .. now
  BY <1>1, ShapeFacts DEF FlowOK
<1>3. /\ AfterEnqueue(f) \in Flows /\ FlowOK(AfterEnqueue(f), now, Saved)
      /\ FlowKeeps(f, AfterEnqueue(f)) /\ c \notin Owes(AfterEnqueue(f))
      /\ AfterEnqueue(f).created \in {0, f.created}
  BY <1>1, AfterEnqueueOK
<1>4. flow' = [flow EXCEPT ![o] = AfterEnqueue(f)]
  BY DEF FlowEnqueues, AfterEnqueue
<1>5. CASE NoNodeConcerned(f)
  <2>1. UNCHANGED jobs
    BY <1>5 DEF FlowEnqueues
  <2> QED
    BY <1>1, <1>3, <1>4, <2>1, FlowMoves DEF FlowEnqueues, ClientShape
<1>6. CASE ~NoNodeConcerned(f)
  <2>1. f.old # NoDep /\ f.old \in Deps /\ f.ver \in Nat /\ f.created \in Nat
    BY <1>1, <1>6, FlowFields DEF NoNodeConcerned
  <2>2. f.old.op \in Actions
    BY <1>2, <2>1 DEF Deps, Matched, NoDep
  <2>3. PICK new \in Jobs : /\ new = NewJob(c, f.old.op, FlowPhase(f), f.ver, f.created)
                           /\ new.client = c /\ new.created = f.created
    BY <1>1, <1>2, <2>1, <2>2, NewJobFacts
  <2>4. EnqueueJob(new)
    BY <1>6, <2>3 DEF FlowEnqueues, FlowPhase
  <2> HIDE DEF f, c
  <2>5. /\ flow' \in [Operators -> Flows] /\ flow'[o] = AfterEnqueue(f)
        /\ \A p \in Operators : p # o => flow'[p] = flow[p]
    BY <1>1, <1>3, <1>4, FlowWrite
  <2>6. jobs' \subseteq jobs \cup {new}
    BY <2>4 DEF EnqueueJob
  <2>7. ClientShape' /\ now' = now
    BY <1>1, <2>3, <2>5, <2>6 DEF FlowEnqueues, ClientShape, agentVars
  <2>8. Saved' = Saved /\ now <= now' /\ UNCHANGED <<pass, dep, row, sweep, lane>>
    BY <1>1, <2>7 DEF FlowEnqueues, Saved, agentVars
  <2>9. \A j \in AllJobs' : j \in AllJobs \/ j = new
    <3>1. Unrun' \subseteq Unrun \cup {new} /\ Replies' = Replies
      BY <2>6, <2>8 DEF Unrun, InLane, Replies, FlowEnqueues, agentVars
    <3> QED
      BY <3>1 DEF AllJobs
  <2>10. RowsOK'
    BY <1>2, <2>3, <2>7, <2>8, <2>9, RowsFrom
  <2>11. \A p \in Operators : FlowKeeps(flow[p], flow'[p])
    BY <1>3, <2>5 DEF FlowKeeps, f
  <2>12. \A p \in Passes : PassKeeps(pass[p], pass'[p])
    BY <2>8 DEF PassKeeps
  <2>13. \A j \in Unrun : j.client = new.client => j.created # new.created
    <3>1. c \in Owes(f)
      BY <1>1 DEF Owes, c
    <3> QED
      BY <2>3, <3>1 DEF ClientTypeInv, StampsOK, StampFree, f
  <2>14. StampFree(new)'
    <3>1. \A p \in Operators : p # o => flow[p].created # f.created
      BY <1>1 DEF ClientTypeInv, StampsOK, HoldersDiffer, f
    <3>2. \A p \in Passes : pass[p].created # f.created
      BY <1>1 DEF ClientTypeInv, StampsOK, HoldersDiffer, f
    <3>3. \A p \in Operators : new.created = flow'[p].created => new.client \notin Owes(flow'[p])
      BY <1>3, <2>3, <2>5, <3>1
    <3>4. new.created \in 1 .. now'
      BY <1>2, <2>3, <2>7
    <3> QED
      BY <2>3, <2>8, <3>2, <3>3, <3>4 DEF StampFree
  <2>15. StampsOK'
    BY <2>3, <2>4, <2>7, <2>8, <2>11, <2>12, <2>13, <2>14, StampsEnqueue
  <2> QED
    BY <1>3, <2>5, <2>7, <2>8, <2>10, <2>15, TypesFrom
<1> QED
  BY <1>5, <1>6

\* The reconciler lists a client.
LEMMA PassListsTypes ==
  ASSUME ClientTypeInv, NEW p \in Passes, NEW c \in Clients, PassLists(p, c)
  PROVE  ClientTypeInv'
<1> DEFINE q == [pc |-> "listed", client |-> c, act |-> dep[c].op, phase |-> row[c].phase,
                 ver |-> row[c].ver, created |-> now + 1]
<1>1. ClientShape /\ now \in Nat /\ dep[c] \in Deps /\ row[c].phase \in Phases
      /\ row[c].ver \in 0 .. now /\ row[c].ver \in Nat /\ Matched(dep[c])
  BY ShapeFacts DEF ClientTypeInv, RowsOK
<1>2. dep[c].op \in Actions
  BY <1>1 DEF PassLists, Divergent, Deps, Matched
<1>3. /\ q \in Resends /\ q.pc = "listed" /\ q.client = c /\ q.act \in Actions
      /\ q.created = now + 1 /\ q.ver = row[c].ver
  BY <1>1, <1>2 DEF Resends, ClientIds
<1>4. pass' = [pass EXCEPT ![p] = q]
  BY DEF PassLists
<1> HIDE DEF q
<1>5. pass' \in [Passes -> Resends] /\ pass'[p] = q /\ \A o \in Passes : o # p => pass'[o] = pass[o]
  BY <1>1, <1>3, <1>4, PassWrite
<1>6. now' = now + 1 /\ now' \in 1 .. MaxNow /\ now <= now' /\ now + 1 \in 1 .. now + 1
      /\ row[c].ver \in 0 .. now + 1
  BY <1>1, ClientConstants DEF PassLists, Tick
<1>7. ClientShape'
  BY <1>1, <1>5, <1>6 DEF PassLists, ClientShape, agentVars, ghostVars
<1>8. Unrun' = Unrun /\ Replies' = Replies /\ Saved' = Saved /\ UNCHANGED <<row, dep, flow, jobs, lane, sweep>>
  BY DEF PassLists, Unrun, Replies, agentVars, InLane, Saved
<1>9. AllJobs' = AllJobs
  BY <1>8 DEF AllJobs
<1>10. c \in Saved
  BY DEF PassLists, Saved
<1>11. PassOK(q, now', Saved')
  BY <1>3, <1>6, <1>8, <1>10 DEF PassOK
<1>12. RowsOK'
  BY <1>6, <1>7, <1>8, <1>9, RowsFrom
<1>13. StampsOK'
  BY <1>3, <1>5, <1>6, <1>8, StampsPass
<1> QED
  BY <1>5, <1>6, <1>7, <1>8, <1>11, <1>12, <1>13, TypesFrom

\* A pass goes on or ends without enqueuing anything.
LEMMA PassMoves ==
  ASSUME ClientTypeInv,
         UNCHANGED <<now, row, dep, targeted, flow, jobs, effects, sweep, agentVars, results, asked>>,
         NEW p \in Passes, NEW q \in Resends, pass' = [pass EXCEPT ![p] = q],
         PassKeeps(pass[p], q), PassOK(q, now, Saved)
  PROVE  ClientTypeInv'
<1>1. ClientShape /\ now \in Nat
  BY ShapeFacts DEF ClientTypeInv
<1>2. pass' \in [Passes -> Resends] /\ pass'[p] = q /\ \A o \in Passes : o # p => pass'[o] = pass[o]
  BY <1>1, PassWrite
<1>3. ClientShape'
  BY <1>1, <1>2 DEF ClientShape, agentVars
<1>4. Unrun' = Unrun /\ Replies' = Replies /\ Saved' = Saved /\ now <= now'
  BY <1>1 DEF Unrun, Replies, agentVars, InLane, Saved
<1>5. AllJobs' = AllJobs
  BY <1>4 DEF AllJobs
<1>6. RowsOK'
  BY <1>3, <1>4, <1>5, RowsFrom
<1>7. StampsOK'
  <2>1. \A o \in Operators : FlowKeeps(flow[o], flow'[o])
    BY DEF FlowKeeps
  <2>2. \A o \in Passes : PassKeeps(pass[o], pass'[o])
    BY <1>2 DEF PassKeeps
  <2> QED
    BY <1>4, <2>1, <2>2, StampsFrom
<1> QED
  BY <1>2, <1>3, <1>4, <1>6, <1>7, TypesFrom

\* The fresh read.
LEMMA PassRereadsTypes ==
  ASSUME ClientTypeInv, NEW p \in Passes, PassRereads(p)
  PROVE  ClientTypeInv'
<1> DEFINE q == pass[p]  fresh == row[q.client]
           g == [q EXCEPT !.pc = "reread", !.phase = fresh.phase, !.ver = fresh.ver]
<1>1. ClientShape /\ now \in Nat /\ q \in Resends /\ PassOK(q, now, Saved) /\ q.pc = "listed"
  BY ShapeFacts DEF ClientTypeInv, PassRereads
<1>2. q.client \in Saved /\ q.client \in Clients /\ q.act \in Actions /\ q.created \in 1 .. now
  BY <1>1, ShapeFacts DEF PassOK
<1>3. fresh.phase \in Phases /\ fresh.ver \in 0 .. now /\ fresh.ver \in Nat
  BY <1>1, <1>2, ShapeFacts DEF ClientTypeInv, RowsOK
<1>4. /\ g \in Resends /\ g.pc = "reread" /\ g.client = q.client /\ g.act = q.act /\ g.ver = fresh.ver
      /\ g.created = q.created
  BY <1>1, <1>3 DEF Resends
<1>5. pass' = [pass EXCEPT ![p] = NoPass] \/ pass' = [pass EXCEPT ![p] = g]
  BY DEF PassRereads, FreshRow
<1>6. UNCHANGED <<now, row, dep, targeted, flow, jobs, effects, sweep, agentVars, results, asked>>
  BY DEF PassRereads, ghostVars
<1> HIDE DEF q, fresh, g
<1>7. PassOK(g, now, Saved) /\ PassKeeps(q, g)
  BY <1>1, <1>2, <1>3, <1>4 DEF PassOK, PassKeeps
<1>8. NoPass \in Resends /\ PassOK(NoPass, now, Saved) /\ PassKeeps(q, NoPass)
  BY <1>1, EmptyFacts, NoPassOK DEF PassKeeps
<1>9. CASE pass' = [pass EXCEPT ![p] = NoPass]
  BY <1>6, <1>8, <1>9, PassMoves DEF q
<1>10. CASE pass' = [pass EXCEPT ![p] = g]
  BY <1>4, <1>6, <1>7, <1>10, PassMoves DEF q
<1> QED
  BY <1>5, <1>9, <1>10

\* The enqueue of a pass fails.
LEMMA PassEnqueueFailsTypes ==
  ASSUME ClientTypeInv, NEW p \in Passes, PassEnqueueFails(p)
  PROVE  ClientTypeInv'
<1>1. NoPass \in Resends /\ PassOK(NoPass, now, Saved) /\ PassKeeps(pass[p], NoPass)
  BY EmptyFacts, NoPassOK, ShapeFacts DEF PassKeeps, ClientTypeInv
<1> QED
  BY <1>1, PassMoves DEF PassEnqueueFails, ghostVars

\* A pass enqueues.
LEMMA PassEnqueuesTypes ==
  ASSUME ClientTypeInv, NEW p \in Passes, PassEnqueues(p)
  PROVE  ClientTypeInv'
<1> DEFINE q == pass[p]  c == q.client
<1>1. ClientShape /\ q \in Resends /\ PassOK(q, now, Saved) /\ q.pc = "reread" /\ now \in Nat
  BY ShapeFacts DEF ClientTypeInv, PassEnqueues
<1>2. /\ c \in Saved /\ c \in Clients /\ q.act \in Actions /\ q.created \in 1 .. now
      /\ q.created \in Nat /\ q.ver \in Nat
  BY <1>1, ShapeFacts, PassFields DEF PassOK
<1>3. PICK new \in Jobs : /\ new = NewJob(c, q.act, q.phase, q.ver, q.created)
                          /\ new.client = c /\ new.created = q.created
  BY <1>1, <1>2, NewJobFacts
<1>4. EnqueueJob(new) /\ pass' = [pass EXCEPT ![p] = NoPass]
  BY <1>3 DEF PassEnqueues
<1> HIDE DEF q, c
<1>5. /\ pass' \in [Passes -> Resends] /\ pass'[p] = NoPass
      /\ \A o \in Passes : o # p => pass'[o] = pass[o]
  BY <1>1, <1>4, EmptyFacts, PassWrite
<1>6. jobs' \subseteq jobs \cup {new}
  BY <1>4 DEF EnqueueJob
<1>7. ClientShape' /\ now' = now
  BY <1>1, <1>3, <1>5, <1>6 DEF PassEnqueues, ClientShape, agentVars
<1>8. Saved' = Saved /\ now <= now' /\ UNCHANGED <<flow, dep, row, sweep, lane>>
  BY <1>1, <1>7 DEF PassEnqueues, Saved, agentVars
<1>9. \A j \in AllJobs' : j \in AllJobs \/ j = new
  <2>1. Unrun' \subseteq Unrun \cup {new} /\ Replies' = Replies
    BY <1>6, <1>8 DEF Unrun, InLane, Replies, PassEnqueues, agentVars
  <2> QED
    BY <2>1 DEF AllJobs
<1>10. RowsOK'
  BY <1>2, <1>3, <1>7, <1>8, <1>9, RowsFrom
<1>11. \A o \in Operators : FlowKeeps(flow[o], flow'[o])
  BY <1>8 DEF FlowKeeps
<1>12. \A o \in Passes : PassKeeps(pass[o], pass'[o])
  BY <1>5 DEF PassKeeps
<1>13. \A j \in Unrun : j.client = new.client => j.created # new.created
  BY <1>3 DEF ClientTypeInv, StampsOK, StampFree, q
<1>14. StampFree(new)'
  <2>1. \A o \in Passes : o # p => pass[o].created # q.created
    BY <1>1 DEF ClientTypeInv, StampsOK, HoldersDiffer, q
  <2>2. \A o \in Operators : flow[o].created # q.created
    <3>1. \A o \in Operators : flow[o].pc = "idle" => flow[o].created = 0
      BY EmptyFacts DEF ClientTypeInv, FlowOK
    <3>2. q.created # 0
      BY <1>2
    <3> QED
      BY <3>1, <3>2 DEF ClientTypeInv, StampsOK, HoldersDiffer, q
  <2>3. \A o \in Passes : new.created # pass'[o].created
    <3>1. q.created # 0
      BY <1>2
    <3> QED
      BY <1>3, <1>5, <2>1, <3>1, EmptyFacts
  <2>4. new.created \in 1 .. now'
    BY <1>2, <1>3, <1>7
  <2> QED
    BY <1>3, <1>8, <2>2, <2>3, <2>4 DEF StampFree
<1>15. StampsOK'
  BY <1>3, <1>4, <1>7, <1>8, <1>11, <1>12, <1>13, <1>14, StampsEnqueue
<1>16. PassOK(NoPass, now', Saved')
  BY <1>1, <1>7, NoPassOK
<1> QED
  BY <1>5, <1>7, <1>8, <1>10, <1>15, <1>16, TypesFrom

\* The panel restarts.
LEMMA PanelRestartsTypes ==
  ASSUME ClientTypeInv, PanelRestarts
  PROVE  ClientTypeInv'
<1>1. ClientShape /\ now \in Nat
  BY ShapeFacts DEF ClientTypeInv
<1>2. /\ flow' = [o \in Operators |-> Idle] /\ pass' = [p \in Passes |-> NoPass]
      /\ effects' = {} /\ results' = {} /\ sweep' = NoSweep
      /\ UNCHANGED <<now, row, dep, targeted, jobs, lane, ran, holder, user, asked>>
  BY DEF PanelRestarts, agentVars, ghostVars
<1>3. ClientShape'
  BY <1>1, <1>2, EmptyFacts DEF ClientShape
<1>4. Unrun' = Unrun /\ Replies' \subseteq Replies /\ Saved' = Saved /\ now <= now'
  BY <1>1, <1>2 DEF Unrun, Replies, InLane, Saved
<1>5. AllJobs' \subseteq AllJobs
  BY <1>4 DEF AllJobs
<1>6. RowsOK'
  BY <1>2, <1>3, <1>4, <1>5, RowsFrom
<1>7. StampsOK'
  <2>1. \A o \in Operators : FlowKeeps(flow[o], flow'[o])
    BY <1>2 DEF FlowKeeps
  <2>2. \A o \in Passes : PassKeeps(pass[o], pass'[o])
    BY <1>2 DEF PassKeeps
  <2> QED
    BY <1>2, <1>4, <2>1, <2>2, StampsFrom
<1>8. \A o \in Operators : FlowOK(flow'[o], now', Saved')
  BY <1>1, <1>2, IdleOK
<1>9. \A p \in Passes : PassOK(pass'[p], now', Saved')
  BY <1>1, <1>2, NoPassOK
<1> QED
  BY <1>3, <1>4, <1>6, <1>7, <1>8, <1>9, TypesFrom

\* The initial state.
LEMMA ClientInitTypes ==
  ASSUME ClientInit
  PROVE  ClientTypeInv
<1>1. /\ now = 1 /\ flow = [o \in Operators |-> Idle] /\ pass = [p \in Passes |-> NoPass]
      /\ jobs = {} /\ effects = {} /\ sweep = NoSweep /\ lane = <<>> /\ ran = {} /\ results = {}
      /\ holder = Deployed /\ user = [owner |-> Deployed, ver |-> 1] /\ targeted = TRUE
  BY DEF ClientInit
<1>2. /\ row \in [Clients -> Rows]
      /\ \A c \in Clients : row[c].ver \in 0 .. now /\ (row[c].phase = "none" <=> c # Deployed)
                            /\ row[c].ver \in Nat
  BY <1>1 DEF ClientInit, Rows, Phases
<1>3. /\ dep \in [Clients -> Deps]
      /\ \A c \in Clients : Matched(dep[c]) /\ (c # Deployed => dep[c] = NoDep)
  <2>1. LET d == [op |-> "create", st |-> "succeeded"] IN d \in Deps /\ Matched(d)
    BY DepFields DEF Actions
  <2>2. dep = [c \in Clients |-> IF c = Deployed THEN [op |-> "create", st |-> "succeeded"] ELSE NoDep]
    BY DEF ClientInit
  <2> QED
    BY <2>1, <2>2, EmptyFacts
<1>4. asked \in [Clients -> Wants]
  BY <1>2 DEF ClientInit, Wants
<1>5. user \in Users /\ holder \in ClientIds
  BY <1>1, ClientConstants DEF Users, ClientIds
<1>6. now \in 1 .. MaxNow
  BY <1>1, ClientConstants
<1>7. ClientShape
  BY <1>1, <1>2, <1>3, <1>4, <1>5, <1>6, EmptyFacts DEF ClientShape
<1>8. Unrun = {} /\ Replies = {} /\ AllJobs = {}
  BY <1>1 DEF Unrun, Replies, AllJobs, InLane
<1>9. RowsOK
  BY <1>1, <1>2, <1>3, <1>8 DEF RowsOK, Saved
<1>10. StampsOK
  BY <1>1, <1>8, EmptyFacts DEF StampsOK, HoldersDiffer
<1> QED
  BY <1>1, <1>7, <1>9, <1>10, IdleOK, NoPassOK DEF ClientTypeInv

\* A stutter.
LEMMA ClientStutterTypes ==
  ASSUME ClientTypeInv, UNCHANGED clientVars
  PROVE  ClientTypeInv'
<1>1. ClientShape'
  BY DEF ClientTypeInv, ClientShape, clientVars
<1>2. Unrun' = Unrun /\ Replies' = Replies
  BY DEF Unrun, Replies, InLane, clientVars
<1>3. AllJobs' = AllJobs
  BY <1>2 DEF AllJobs
<1> QED
  BY <1>1, <1>2, <1>3, JobsMove DEF clientVars

\* Every step keeps the types.
LEMMA ClientTypesStep ==
  ASSUME ClientTypeInv, [ClientNext]_clientVars
  PROVE  ClientTypeInv'
<1>1. CASE UNCHANGED clientVars
  BY <1>1, ClientStutterTypes
<1>2. ASSUME NEW o \in Operators, NEW c \in Clients, NEW req \in Requests \ {"move"}, FlowReads(o, c, req)
      PROVE  ClientTypeInv'
  BY <1>2, FlowReadsTypes
<1>3. ASSUME NEW o \in Operators, NodeMoves(o) PROVE ClientTypeInv'
  BY <1>3, NodeMovesTypes
<1>4. ASSUME NEW o \in Operators, FlowSteps(o) PROVE ClientTypeInv'
  BY <1>4, FlowSavesTypes, FlowSaveFailsTypes, FlowEnqueuesTypes, FlowEnqueueFailsTypes,
     TopologySavesTypes, TopologySaveFailsTypes, TopologyDoneTypes DEF FlowSteps
<1>5. CASE Reconciling
  BY <1>5, PassListsTypes DEF Reconciling
<1>6. ASSUME NEW p \in Passes, PassSteps(p) PROVE ClientTypeInv'
  BY <1>6, PassRereadsTypes, PassEnqueuesTypes, PassEnqueueFailsTypes DEF PassSteps
<1>7. ASSUME NEW c \in Clients, ThrottleLapses(c) PROVE ClientTypeInv'
  BY <1>7, ThrottleLapsesTypes
<1>8. CASE ResultSteps
  BY <1>8, ReceiveResultTypes, RecordTypes, ResultNotPersistedTypes, ExpiryWritesTypes,
     ExpiryNotPersistedTypes DEF ResultSteps
<1>9. CASE AgentSteps
  BY <1>9, DeliverTypes, RunJobTypes, RunJobFailsTypes DEF AgentSteps
<1>10. CASE AnswersAgain
  BY <1>10, AnswerAgainTypes DEF AnswersAgain
<1>11. ASSUME NEW j \in jobs, JobExpires(j) \/ LaneFull(j) PROVE ClientTypeInv'
  BY <1>11, JobExpiresTypes, LaneFullTypes
<1>12. ASSUME NEW r \in results, LoseResult(r) PROVE ClientTypeInv'
  BY <1>12, LoseResultTypes
<1>13. CASE PanelRestarts \/ AgentRestarts
  BY <1>13, PanelRestartsTypes, AgentRestartsTypes
<1> QED
  BY <1>1, <1>2, <1>3, <1>4, <1>5, <1>6, <1>7, <1>8, <1>9, <1>10, <1>11, <1>12, <1>13 DEF ClientNext

\* The types as the runs check them.
LEMMA TypesAreOK ==
  ASSUME ClientTypeInv
  PROVE  ClientTypeOK
<1>1. ClientShape /\ now \in Nat /\ now <= MaxNow /\ MaxNow \in Nat
  BY ShapeFacts, ClientConstants DEF ClientTypeInv
<1>2. now \in 0 .. MaxNow
  BY <1>1
<1>3. ASSUME NEW c \in Clients
      PROVE  /\ row[c].phase \in {"none", "live", "deleted"} /\ row[c].ver \in 0 .. MaxNow
             /\ dep[c].op \in Actions \union {"none"}
             /\ dep[c].st \in {"none", "queued", "awaiting", "succeeded", "failed"}
             /\ (dep[c].op = "none") <=> (dep[c].st = "none")
             /\ (row[c].phase = "none") => (dep[c] = NoDep)
             /\ \A j, k \in jobs : j.client = c /\ k.client = c /\ j.created = k.created => j = k
  <2>1. row[c].phase \in Phases /\ row[c].ver \in 0 .. now /\ dep[c] \in Deps
    BY <1>1, ShapeFacts DEF ClientTypeInv, RowsOK
  <2>2. row[c].ver \in 0 .. MaxNow
    BY <1>1, <2>1
  <2>3. Matched(dep[c]) /\ (row[c].phase = "none" => dep[c] = NoDep)
    BY DEF ClientTypeInv, RowsOK, Saved
  <2>4. \A j, k \in jobs : j.client = c /\ k.client = c /\ j.created = k.created => j = k
    BY DEF ClientTypeInv, StampsOK
  <2> QED
    BY <2>1, <2>2, <2>3, <2>4, DepFields DEF Phases, Matched
<1>4. \A j \in jobs : j.act \in Actions /\ j.created \in 1 .. now
  BY <1>1, JobFields DEF ClientTypeInv, StampsOK, StampFree, Unrun, ClientShape
<1>5. targeted \in BOOLEAN /\ holder \in Clients \union {NoClient} /\ user.owner \in Clients \union {NoClient}
  BY <1>1 DEF ClientShape, Users, ClientIds
<1> QED
  BY <1>2, <1>3, <1>4, <1>5 DEF ClientTypeOK

(***************************************************************************)
(* The types of the client flows, for every number of clients, operators   *)
(* and passes: whatever races with whatever, a deployment has an operation *)
(* exactly when it has a status, only saved clients have deployments, and  *)
(* two live jobs of a client have different creation times, so that        *)
(* jobs.Service can tell which supersedes which.                           *)
(***************************************************************************)
THEOREM ClientTypesCorrect == ClientSpec => []ClientTypeOK
<1>1. ClientInit => ClientTypeInv
  BY ClientInitTypes
<1>2. ClientTypeInv /\ [ClientNext]_clientVars => ClientTypeInv'
  BY ClientTypesStep
<1>3. ClientTypeInv => ClientTypeOK
  BY TypesAreOK
<1> QED
  BY <1>1, <1>2, <1>3, PTL DEF ClientSpec

---------------------------------------------------------------------------
(* A reported success is true.                                             *)

\* How a request goes on without a save: what it has just read is the last save, and what
\* it has yet to save it had before, or it has read the clock.
GoesOn(f, g) ==
  /\ g.pc = "read" => g = f \/ g.asof = asked[g.client].at
  /\ \A c \in Unsaved(g) : (c \in Unsaved(f) /\ g.created = f.created) \/ g.created > now

\* A request that waits or ends.
LEMMA IdleRequest ==
  /\ \A f : GoesOn(f, f) /\ GoesOn(f, Idle)
  /\ \A c, t : ~TokenHolds(Idle, c, t)
<1>1. Unsaved(Idle) = {}
  BY EmptyFacts DEF Unsaved
<1> QED
  BY <1>1, EmptyFacts DEF GoesOn, TokenHolds

\* What is current of a client changes only when it is asked for anew.
LEMMA CurrentStays ==
  ASSUME NEW c, asked'[c] = asked[c], NEW j, j.client = c
  PROVE  Current(j)' <=> Current(j)
BY DEF Current, Meets

\* A step after which no more is known to have been answered.
LEMMA OrderFrom ==
  ASSUME NEW c \in Clients, OrderOK(c), asked'[c] = asked[c], ClientShape,
         \A j \in jobs' : j.client = c => j \in jobs,
         \A j \in Unrun' : j.client = c => j \in Unrun,
         lane' \in {lane, <<>>} \/ (lane # <<>> /\ lane' = Tail(lane)),
         \A r \in Replies' : r.ok /\ r.job.client = c => r \in Replies,
         dep'[c].st = "succeeded" => HasAnswered(c),
         \A o \in Operators : TokenHolds(flow'[o], c, asked[c].at) => HasAnswered(c),
         NodeHas(c) => NodeHas(c)'
  PROVE  OrderOK(c)'
<1>1. \A j : j.client = c => (Current(j)' <=> Current(j))
  BY CurrentStays
<1>2. HasAnswered(c)' => HasAnswered(c)
  BY <1>1 DEF HasAnswered
<1>3. Launched(c)' => Launched(c)
  BY <1>1, <1>2 DEF Launched
<1>4. Launched(c)' => \A j \in jobs' : j.client = c => Current(j)'
  BY <1>1, <1>3 DEF OrderOK
<1>5. \A i, k \in DOMAIN lane' : i < k => \E m, n \in DOMAIN lane :
        m < n /\ lane'[i] = lane[m] /\ lane'[k] = lane[n]
  <2>1. CASE lane' = lane
    BY <2>1
  <2>2. CASE lane' = <<>>
    BY <2>2
  <2>3. CASE lane # <<>> /\ lane' = Tail(lane)
    <3> SUFFICES ASSUME NEW i \in DOMAIN lane', NEW k \in DOMAIN lane', i < k
                 PROVE  \E m, n \in DOMAIN lane : m < n /\ lane'[i] = lane[m] /\ lane'[k] = lane[n]
      OBVIOUS
    <3>1. /\ i + 1 \in DOMAIN lane /\ lane'[i] = lane[i + 1] /\ i \in Nat
          /\ k + 1 \in DOMAIN lane /\ lane'[k] = lane[k + 1] /\ k \in Nat
      BY <2>3, LaneTail
    <3>2. i + 1 < k + 1
      BY <3>1
    <3> QED
      BY <3>1, <3>2
  <2> QED
    BY <2>1, <2>2, <2>3
<1>6. \A i, k \in DOMAIN lane' :
        i < k /\ lane'[i].client = c /\ lane'[k].client = c /\ Current(lane[i])' => Current(lane[k])'
  <2> SUFFICES ASSUME NEW i \in DOMAIN lane', NEW k \in DOMAIN lane', i < k,
                      lane'[i].client = c, lane'[k].client = c, Current(lane[i])'
               PROVE  Current(lane[k])'
    OBVIOUS
  <2>1. PICK m \in DOMAIN lane, n \in DOMAIN lane : m < n /\ lane'[i] = lane[m] /\ lane'[k] = lane[n]
    BY <1>5
  <2>2. Meets(lane[m], asked[c])
    BY <2>1 DEF Current
  <2>3. Meets(lane[n], asked[c])
    BY <2>1, <2>2 DEF OrderOK, Current
  <2> QED
    BY <2>1, <2>3 DEF Current
<1>7. HasAnswered(c)' => \A j \in InLane' : j.client = c => Current(j)'
  <2>1. InLane' \subseteq InLane
    <3>1. lane' = <<>> => InLane' = {}
      BY DEF InLane
    <3> QED
      BY <3>1, LaneTail DEF InLane
  <2> QED
    BY <1>1, <1>2, <2>1 DEF OrderOK
<1> QED
  BY <1>2, <1>4, <1>6, <1>7 DEF OrderOK

\* Nothing new is asked, so no clock reading comes on record.
LEMMA MarksFrom ==
  ASSUME ClientTypeInv, MarksOK, now <= now', now' \in Nat, asked' = asked,
         \A j \in AllJobs' : j \in AllJobs \/ j.asof = asked[j.client].at,
         \A o \in Operators : GoesOn(flow[o], flow'[o])
  PROVE  MarksOK'
<1>1. ASSUME NEW c \in Clients, NEW t, Marked(c, t)' PROVE Marked(c, t)
  <2>1. CASE asked'[c].at = t
    BY <2>1 DEF Marked
  <2>2. CASE \E j \in AllJobs' : j.client = c /\ j.asof = t
    BY <2>2 DEF Marked
  <2>3. CASE \E o \in Operators : flow'[o].pc = "read" /\ flow'[o].client = c /\ flow'[o].asof = t
    BY <2>3 DEF Marked, GoesOn
  <2> QED
    BY <1>1, <2>1, <2>2, <2>3 DEF Marked
<1>2. now \in Nat
  BY ShapeFacts DEF ClientTypeInv
<1>3. ASSUME NEW c \in Clients, NEW t, Marked(c, t)' PROVE t \in 0 .. now'
  BY <1>1, <1>2, <1>3 DEF MarksOK
<1>4. ASSUME NEW c \in Clients, NEW o \in Operators, c \in Unsaved(flow'[o]), NEW t, t = flow'[o].created
      PROVE  ~Marked(c, t)'
  <2>1. (c \in Unsaved(flow[o]) /\ t = flow[o].created) \/ t > now
    BY <1>4 DEF GoesOn
  <2>2. ~Marked(c, t)
    BY <1>2, <2>1 DEF MarksOK
  <2> QED
    BY <1>1, <2>2
<1> QED
  BY <1>3, <1>4 DEF MarksOK, Marked

\* The parts together, for a step that asks nothing new.
LEMMA InvFrom ==
  ASSUME ClientTypeInv, ClientInv, now <= now', now' \in Nat, asked' = asked, excused \subseteq excused',
         \A j \in AllJobs' : j \in AllJobs \/ j.asof = asked[j.client].at,
         RegistryOK',
         \A o \in Operators : GoesOn(flow[o], flow'[o]),
         \A c \in Clients : c \in excused' \/ OrderOK(c)'
  PROVE  ClientInv'
<1>1. MarksOK'
  BY MarksFrom DEF ClientInv
<1>2. RivalsOK'
  BY DEF ClientInv, RivalsOK
<1> QED
  BY <1>1, <1>2 DEF ClientInv

\* What ClientInv says of a client that is not excused.
LEMMA OrderHolds ==
  ASSUME ClientInv, NEW c \in Clients, c \notin excused
  PROVE  OrderOK(c)
BY DEF ClientInv

\* A step that takes things away: jobs, results, requests, successes.
LEMMA InvShrinks ==
  ASSUME ClientTypeInv, ClientInv, now <= now', now' \in Nat, UNCHANGED <<asked, user>>, RegistryOK',
         excused \subseteq excused', jobs' \subseteq jobs, Unrun' \subseteq Unrun, AllJobs' \subseteq AllJobs,
         lane' \in {lane, <<>>} \/ (lane # <<>> /\ lane' = Tail(lane)),
         \A r \in Replies' : r.ok => r \in Replies,
         \A o \in Operators : flow'[o] \in {flow[o], Idle},
         \A c \in Clients : dep'[c].st = "succeeded" => HasAnswered(c) \/ c \in excused'
  PROVE  ClientInv'
<1>1. ASSUME NEW c \in Clients, c \notin excused' PROVE OrderOK(c)'
  <2>1. OrderOK(c) /\ ClientShape
    BY <1>1, OrderHolds DEF ClientTypeInv
  <2>2. \A o \in Operators : TokenHolds(flow'[o], c, asked[c].at) => HasAnswered(c)
    BY IdleRequest DEF HasAnswered
  <2>3. NodeHas(c) => NodeHas(c)'
    BY DEF NodeHas
  <2> QED
    BY <1>1, <2>1, <2>2, <2>3, OrderFrom
<1>2. \A o \in Operators : GoesOn(flow[o], flow'[o])
  BY IdleRequest
<1> QED
  BY <1>1, <1>2, InvFrom

\* Time does not go back.
LEMMA SameTime ==
  ASSUME ClientTypeInv, now' = now
  PROVE  now <= now' /\ now' \in Nat
BY ShapeFacts DEF ClientTypeInv

\* A reported success is a sign of an answer.
LEMMA SuccessAnswers == \A c \in Clients : dep[c].st = "succeeded" => HasAnswered(c)
BY DEF HasAnswered

\* The steps that only take things away.
LEMMA AnswerAgainInv ==
  ASSUME ClientTypeInv, ClientInv, NEW j \in jobs, AnswerAgain(j)
  PROVE  ClientInv'
<1>1. Unrun' = Unrun /\ Replies' = Replies /\ now' = now
  BY DEF AnswerAgain, Unrun, Replies, agentVars, InLane
<1>2. AllJobs' = AllJobs
  BY <1>1 DEF AllJobs
<1>3. UNCHANGED <<asked, row, user, excused, jobs, lane, flow, dep, holder>>
  BY DEF AnswerAgain, panelVars, agentVars, ghostVars
<1>4. RegistryOK'
  BY <1>3 DEF ClientInv, RegistryOK
<1> QED
  BY <1>1, <1>2, <1>3, <1>4, SameTime, SuccessAnswers, InvShrinks

\* A full lane answers with a failure.
LEMMA LaneFullInv ==
  ASSUME ClientTypeInv, ClientInv, NEW j \in jobs, LaneFull(j)
  PROVE  ClientInv'
<1>1. Unrun' = Unrun /\ Replies' = Replies \cup {[job |-> j, ok |-> FALSE]} /\ now' = now /\ j \in Unrun
  BY DEF LaneFull, Unrun, Replies, agentVars, InLane
<1>2. AllJobs' \subseteq AllJobs
  BY <1>1, OneMore DEF ClientTypeInv
<1>3. UNCHANGED <<asked, row, user, excused, jobs, lane, flow, dep, holder>>
  BY DEF LaneFull, panelVars, agentVars, ghostVars
<1>4. RegistryOK'
  BY <1>3 DEF ClientInv, RegistryOK
<1>5. \A r \in Replies' : r.ok => r \in Replies
  BY <1>1
<1> QED
  BY <1>1, <1>2, <1>3, <1>4, <1>5, SameTime, SuccessAnswers, InvShrinks

\* Telemt refuses a job.
LEMMA RunJobFailsInv ==
  ASSUME ClientTypeInv, ClientInv, RunJobFails
  PROVE  ClientInv'
<1>1. /\ lane # <<>> /\ lane' = Tail(lane) /\ UNCHANGED <<jobs, effects>>
      /\ ran' = {x \in ran : x.job \in jobs} \cup {[job |-> Head(lane), ok |-> FALSE]}
      /\ results' = results \cup {[job |-> Head(lane), ok |-> FALSE]}
  BY DEF RunJobFails
<1>2. /\ Replies' \subseteq Replies \cup {[job |-> Head(lane), ok |-> FALSE]}
      /\ Unrun' \subseteq Unrun /\ AllJobs' \subseteq AllJobs
  BY <1>1, RunFacts DEF ClientTypeInv
<1>3. UNCHANGED <<now, asked, row, user, excused, flow, dep, holder>>
  BY DEF RunJobFails, panelVars, ghostVars
<1>4. RegistryOK'
  BY <1>3 DEF ClientInv, RegistryOK
<1>5. \A r \in Replies' : r.ok => r \in Replies
  BY <1>2
<1> QED
  BY <1>1, <1>2, <1>3, <1>4, <1>5, SameTime, SuccessAnswers, InvShrinks

\* A result is lost.
LEMMA LoseResultInv ==
  ASSUME ClientTypeInv, ClientInv, NEW r \in results, LoseResult(r)
  PROVE  ClientInv'
<1>1. Unrun' = Unrun /\ Replies' \subseteq Replies /\ now' = now
  BY DEF LoseResult, Unrun, Replies, agentVars, InLane
<1>2. AllJobs' \subseteq AllJobs
  BY <1>1 DEF AllJobs
<1>3. UNCHANGED <<asked, row, user, excused, jobs, lane, flow, dep, holder>>
  BY DEF LoseResult, panelVars, agentVars, ghostVars
<1>4. RegistryOK'
  BY <1>3 DEF ClientInv, RegistryOK
<1> QED
  BY <1>1, <1>2, <1>3, <1>4, SameTime, SuccessAnswers, InvShrinks

\* The agent restarts.
LEMMA AgentRestartsInv ==
  ASSUME ClientTypeInv, ClientInv, AgentRestarts
  PROVE  ClientInv'
<1>1. Unrun' \subseteq Unrun /\ Replies' \subseteq Replies /\ now' = now /\ lane' = <<>>
  BY DEF AgentRestarts, Unrun, Replies, InLane
<1>2. AllJobs' \subseteq AllJobs
  BY <1>1 DEF AllJobs
<1>3. UNCHANGED <<asked, row, user, excused, jobs, flow, dep>>
  BY DEF AgentRestarts, panelVars, ghostVars
<1>4. RegistryOK'
  BY DEF RegistryOK, AgentRestarts
<1> QED
  BY <1>1, <1>2, <1>3, <1>4, SameTime, SuccessAnswers, InvShrinks

\* A result reaches the queue.
LEMMA ReceiveResultInv ==
  ASSUME ClientTypeInv, ClientInv, NEW r \in results, ReceiveResult(r)
  PROVE  ClientInv'
<1>1. Unrun' \subseteq Unrun /\ Replies' \subseteq Replies /\ now' = now /\ jobs' \subseteq jobs
  BY DEF ReceiveResult, Unrun, Replies, agentVars, InLane
<1>2. AllJobs' \subseteq AllJobs
  BY <1>1 DEF AllJobs
<1>3. UNCHANGED <<asked, row, user, excused, lane, flow, dep, holder>>
  BY DEF ReceiveResult, panelVars, agentVars, ghostVars
<1>4. RegistryOK'
  BY <1>3 DEF ClientInv, RegistryOK
<1> QED
  BY <1>1, <1>2, <1>3, <1>4, SameTime, SuccessAnswers, InvShrinks

\* A result is recorded: a success is a current job's, or its client is excused.
LEMMA RecordInv ==
  ASSUME ClientTypeInv, ClientInv, NEW r \in effects, RecordJobResult(r)
  PROVE  ClientInv'
<1>1. Unrun' = Unrun /\ Replies' \subseteq Replies /\ now' = now /\ jobs' = jobs
  BY DEF RecordJobResult, Unrun, Replies, agentVars, InLane
<1>2. AllJobs' \subseteq AllJobs
  BY <1>1 DEF AllJobs
<1>3. UNCHANGED <<asked, row, user, lane, flow, holder>> /\ excused \subseteq excused'
  BY DEF RecordJobResult, agentVars
<1>4. RegistryOK'
  BY <1>3 DEF ClientInv, RegistryOK
<1>5. \A c \in Clients : dep'[c].st = "succeeded" => HasAnswered(c) \/ c \in excused'
  <2>1. ClientShape /\ r \in Results /\ r.job \in Jobs /\ r.job.act \in Actions /\ r.job.client \in Clients
        /\ r \in Replies
    BY JobFields DEF ClientTypeInv, ClientShape, Replies
  <2> DEFINE d == [op |-> r.job.act, st |-> IF r.ok THEN "succeeded" ELSE "failed"]
  <2>2. d \in Deps /\ d.st = IF r.ok THEN "succeeded" ELSE "failed"
    BY <2>1, DepFields
  <2> HIDE DEF d
  <2>3. dep' = [dep EXCEPT ![r.job.client] = d]
    BY DEF RecordJobResult, d
  <2>4. dep'[r.job.client] = d /\ \A b \in Clients : b # r.job.client => dep'[b] = dep[b]
    BY <2>1, <2>2, <2>3, DepWrite
  <2>5. r.ok => HasAnswered(r.job.client) \/ r.job.client \in excused'
    BY <2>1 DEF RecordJobResult, HasAnswered
  <2> QED
    BY <2>2, <2>4, <2>5, SuccessAnswers
<1> QED
  BY <1>1, <1>2, <1>3, <1>4, <1>5, SameTime, InvShrinks

\* A result or an expiry cannot be persisted.
LEMMA NotPersistedInv ==
  ASSUME ClientTypeInv, ClientInv,
         (\E r \in effects : ResultNotPersisted(r)) \/ ExpiryNotPersisted
  PROVE  ClientInv'
<1>1. Unrun' = Unrun /\ Replies' \subseteq Replies /\ now' = now /\ jobs' = jobs
  BY DEF ResultNotPersisted, ExpiryNotPersisted, Unrun, Replies, agentVars, InLane
<1>2. AllJobs' \subseteq AllJobs
  BY <1>1 DEF AllJobs
<1>3. UNCHANGED <<asked, row, user, excused, lane, flow, dep, holder>>
  BY DEF ResultNotPersisted, ExpiryNotPersisted, panelVars, agentVars, ghostVars
<1>4. RegistryOK'
  BY <1>3 DEF ClientInv, RegistryOK
<1> QED
  BY <1>1, <1>2, <1>3, <1>4, SameTime, SuccessAnswers, InvShrinks

\* A job expires.
LEMMA JobExpiresInv ==
  ASSUME ClientTypeInv, ClientInv, NEW j \in jobs, JobExpires(j)
  PROVE  ClientInv'
<1>1. Unrun' \subseteq Unrun /\ Replies' = Replies /\ now' = now /\ jobs' \subseteq jobs
  BY DEF JobExpires, Unrun, Replies, agentVars, InLane
<1>2. AllJobs' \subseteq AllJobs
  BY <1>1 DEF AllJobs
<1>3. UNCHANGED <<asked, row, user, excused, lane, flow, dep, holder>>
  BY DEF JobExpires, panelVars, agentVars, ghostVars
<1>4. RegistryOK'
  BY <1>3 DEF ClientInv, RegistryOK
<1> QED
  BY <1>1, <1>2, <1>3, <1>4, SameTime, SuccessAnswers, InvShrinks

\* An expiry is written: the deployment awaits its node.
LEMMA ExpiryWritesInv ==
  ASSUME ClientTypeInv, ClientInv, ExpiryWrites
  PROVE  ClientInv'
<1>1. Unrun' = Unrun /\ Replies' = Replies /\ now' = now /\ jobs' = jobs
  BY DEF ExpiryWrites, Unrun, Replies, agentVars, InLane
<1>2. AllJobs' = AllJobs
  BY <1>1 DEF AllJobs
<1>3. UNCHANGED <<asked, row, user, excused, lane, flow, holder>>
  BY DEF ExpiryWrites, agentVars, ghostVars
<1>4. RegistryOK'
  BY <1>3 DEF ClientInv, RegistryOK
<1>5. \A c \in Clients : dep'[c].st = "succeeded" => HasAnswered(c) \/ c \in excused'
  <2>1. ClientShape /\ sweep.client \in Clients /\ sweep.op \in Actions
    BY ShapeFacts DEF ClientTypeInv, RowsOK, ExpiryWrites
  <2> DEFINE d == [op |-> sweep.op, st |-> "awaiting"]
  <2>2. d \in Deps /\ d.st = "awaiting"
    BY <2>1, DepFields
  <2> HIDE DEF d
  <2>3. dep' = [dep EXCEPT ![sweep.client] = d]
    BY DEF ExpiryWrites, d
  <2>4. dep'[sweep.client] = d /\ \A b \in Clients : b # sweep.client => dep'[b] = dep[b]
    BY <2>1, <2>2, <2>3, DepWrite
  <2> QED
    BY <2>2, <2>4, SuccessAnswers
<1> QED
  BY <1>1, <1>2, <1>3, <1>4, <1>5, SameTime, InvShrinks

\* The panel restarts.
LEMMA PanelRestartsInv ==
  ASSUME ClientTypeInv, ClientInv, PanelRestarts
  PROVE  ClientInv'
<1>1. Unrun' = Unrun /\ Replies' \subseteq Replies /\ now' = now /\ jobs' = jobs
  BY DEF PanelRestarts, Unrun, Replies, agentVars, InLane
<1>2. AllJobs' \subseteq AllJobs
  BY <1>1 DEF AllJobs
<1>3. UNCHANGED <<asked, row, user, excused, lane, dep, holder>> /\ \A o \in Operators : flow'[o] = Idle
  BY DEF PanelRestarts, agentVars, ghostVars
<1>4. RegistryOK'
  BY <1>3 DEF ClientInv, RegistryOK
<1> QED
  BY <1>1, <1>2, <1>3, <1>4, SameTime, SuccessAnswers, InvShrinks

\* Steps of passes, and requests that end, which leave jobs and results alone.
LEMMA NothingMoves ==
  ASSUME ClientTypeInv, ClientInv, now <= now', now' \in Nat,
         UNCHANGED <<asked, excused, row, dep, jobs, effects, agentVars, results>>,
         \A o \in Operators : flow'[o] \in {flow[o], Idle}
  PROVE  ClientInv'
<1>1. Unrun' = Unrun /\ Replies' = Replies
  BY DEF Unrun, Replies, agentVars, InLane
<1>2. AllJobs' = AllJobs
  BY <1>1 DEF AllJobs
<1>3. RegistryOK' /\ UNCHANGED <<lane, user>>
  BY DEF ClientInv, RegistryOK, agentVars
<1> QED
  BY <1>1, <1>2, <1>3, SuccessAnswers, InvShrinks

\* The reconciler lists a client.
LEMMA PassListsInv ==
  ASSUME ClientTypeInv, ClientInv, NEW p \in Passes, NEW c \in Clients, PassLists(p, c)
  PROVE  ClientInv'
<1>1. UNCHANGED <<asked, excused, row, dep, jobs, effects, agentVars, results, flow>>
  BY DEF PassLists, ghostVars
<1>2. now \in Nat /\ now' = now + 1
  BY ShapeFacts DEF PassLists, Tick, ClientTypeInv
<1>3. now <= now' /\ now' \in Nat
  BY <1>2
<1> QED
  BY <1>1, <1>3, NothingMoves

\* The rest of a pass up to its enqueue.
LEMMA PassInv ==
  ASSUME ClientTypeInv, ClientInv, NEW p \in Passes, PassRereads(p) \/ PassEnqueueFails(p)
  PROVE  ClientInv'
<1>1. UNCHANGED <<now, asked, excused, row, dep, jobs, effects, agentVars, results, flow>>
  BY DEF PassRereads, PassEnqueueFails, ghostVars
<1> QED
  BY <1>1, SameTime, NothingMoves

\* The throttle lapses.
LEMMA ThrottleInv ==
  ASSUME ClientTypeInv, ClientInv, NEW c \in Clients, ThrottleLapses(c)
  PROVE  ClientInv'
<1>1. UNCHANGED <<now, asked, excused, row, dep, jobs, effects, agentVars, results, flow>>
  BY DEF ThrottleLapses, ghostVars
<1> QED
  BY <1>1, SameTime, NothingMoves

\* A request ends.
LEMMA FlowEndsInv ==
  ASSUME ClientTypeInv, ClientInv, NEW o \in Operators, FlowSaveFails(o) \/ TopologyDone(o)
  PROVE  ClientInv'
<1>1. UNCHANGED <<now, asked, excused, row, dep, jobs, effects, agentVars, results>>
  BY DEF FlowSaveFails, TopologyDone, ghostVars
<1>2. flow' = [flow EXCEPT ![o] = Idle]
  BY DEF FlowSaveFails, TopologyDone
<1>3. \A p \in Operators : flow'[p] \in {flow[p], Idle}
  BY <1>2, FlowWrite, EmptyFacts DEF ClientTypeInv
<1> QED
  BY <1>1, <1>3, SameTime, NothingMoves

\* A request begins or goes on without saving or enqueuing, and writes no token it has not
\* just read.
LEMMA FlowInv ==
  ASSUME ClientTypeInv, ClientInv, now <= now', now' \in Nat,
         UNCHANGED <<asked, excused, row, dep, jobs, effects, agentVars, results>>,
         NEW o \in Operators, NEW f \in Flows, flow' = [flow EXCEPT ![o] = f],
         GoesOn(flow[o], f), \A c \in Clients : TokenHolds(f, c, asked[c].at) => HasAnswered(c)
  PROVE  ClientInv'
<1>1. ClientShape
  BY DEF ClientTypeInv
<1>2. flow'[o] = f /\ \A p \in Operators : p # o => flow'[p] = flow[p]
  BY <1>1, FlowWrite
<1>3. Unrun' = Unrun /\ Replies' = Replies
  BY DEF Unrun, Replies, agentVars, InLane
<1>4. AllJobs' = AllJobs
  BY <1>3 DEF AllJobs
<1>5. RegistryOK' /\ UNCHANGED <<lane, user>>
  BY DEF ClientInv, RegistryOK, agentVars
<1>6. ASSUME NEW c \in Clients, c \notin excused' PROVE OrderOK(c)'
  <2>1. OrderOK(c)
    BY <1>6, OrderHolds
  <2>2. \A p \in Operators : TokenHolds(flow'[p], c, asked[c].at) => HasAnswered(c)
    BY <1>2 DEF HasAnswered
  <2>3. NodeHas(c) => NodeHas(c)'
    BY <1>5 DEF NodeHas
  <2> QED
    BY <1>1, <1>3, <1>5, <2>1, <2>2, <2>3, OrderFrom, SuccessAnswers
<1>7. \A p \in Operators : GoesOn(flow[p], flow'[p])
  BY <1>2, IdleRequest
<1> QED
  BY <1>4, <1>5, <1>6, <1>7, InvFrom

\* A request reads.
LEMMA FlowReadsInv ==
  ASSUME ClientTypeInv, ClientInv, NEW o \in Operators, NEW c \in Clients,
         NEW req \in Requests \ {"move"}, FlowReads(o, c, req)
  PROVE  ClientInv'
<1> DEFINE f == ReadFlow(c, req)
<1>1. now \in Nat /\ now' = now + 1
  BY ShapeFacts DEF ClientTypeInv, FlowReads, Tick
<1>2. /\ f \in Flows /\ f.pc = "read" /\ f.req = req /\ f.client = c /\ f.created = now + 1
      /\ f.old = dep[c] /\ f.todo = {} /\ f.asof = asked[c].at
  BY ReadFlowFacts
<1>3. flow' = [flow EXCEPT ![o] = f]
  BY DEF FlowReads, ReadFlow
<1> HIDE DEF f
<1>4. now <= now' /\ now' \in Nat
  BY <1>1
<1>5. UNCHANGED <<asked, excused, row, dep, jobs, effects, agentVars, results>>
  BY DEF FlowReads, ghostVars
<1>6. GoesOn(flow[o], f)
  BY <1>1, <1>2 DEF GoesOn, Unsaved
<1>7. \A b \in Clients : TokenHolds(f, b, asked[b].at) => HasAnswered(b)
  BY <1>2, SuccessAnswers DEF TokenHolds
<1> QED
  BY <1>2, <1>3, <1>4, <1>5, <1>6, <1>7, FlowInv

\* The node moves.
LEMMA NodeMovesInv ==
  ASSUME ClientTypeInv, ClientInv, NEW o \in Operators, NodeMoves(o)
  PROVE  ClientInv'
<1>1. now \in Nat /\ now' = now + 1
  BY ShapeFacts DEF ClientTypeInv, NodeMoves, Tick
<1>2. flow' = [flow EXCEPT ![o] = MoveFlow]
  BY DEF NodeMoves, MoveFlow
<1>3. now <= now' /\ now' \in Nat
  BY <1>1
<1>4. UNCHANGED <<asked, excused, row, dep, jobs, effects, agentVars, results>>
  BY DEF NodeMoves, ghostVars
<1>5. GoesOn(flow[o], MoveFlow)
  BY <1>1, MoveFlowFacts DEF GoesOn
<1>6. \A b \in Clients : ~TokenHolds(MoveFlow, b, asked[b].at)
  BY MoveFlowFacts DEF TokenHolds
<1> QED
  BY <1>2, <1>3, <1>4, <1>5, <1>6, MoveFlowFacts, FlowInv

\* After its enqueue a request still has nothing to save but what it had.
LEMMA AfterEnqueueInv ==
  ASSUME NEW f \in Flows, f.pc = "saved"
  PROVE  GoesOn(f, AfterEnqueue(f)) /\ \A c, t : ~TokenHolds(AfterEnqueue(f), c, t)
<1>1. CASE f.req = "move"
  <2> DEFINE g == AfterEnqueue(f)
  <2>1. g.pc = "moving" /\ g.created = f.created /\ g.todo = f.todo
    BY <1>1 DEF AfterEnqueue, Flows
  <2> HIDE DEF g
  <2>2. Unsaved(g) = Unsaved(f)
    BY <2>1 DEF Unsaved
  <2> QED
    BY <2>1, <2>2 DEF GoesOn, TokenHolds, g
<1>2. CASE f.req # "move"
  BY <1>2, IdleRequest DEF AfterEnqueue
<1> QED
  BY <1>1, <1>2

\* An enqueue fails, or there is nothing to enqueue.
LEMMA FlowNoJobInv ==
  ASSUME ClientTypeInv, ClientInv, NEW o \in Operators,
         FlowEnqueueFails(o) \/ (FlowEnqueues(o) /\ NoNodeConcerned(flow[o]))
  PROVE  ClientInv'
<1>1. /\ flow[o] \in Flows /\ FlowOK(flow[o], now, Saved) /\ flow[o].pc = "saved" /\ now \in Nat
  BY ShapeFacts DEF ClientTypeInv, FlowEnqueueFails, FlowEnqueues
<1>2. AfterEnqueue(flow[o]) \in Flows
  BY <1>1, AfterEnqueueOK
<1>3. flow' = [flow EXCEPT ![o] = AfterEnqueue(flow[o])]
  BY DEF FlowEnqueueFails, FlowEnqueues, AfterEnqueue
<1>4. UNCHANGED <<now, asked, excused, row, dep, jobs, effects, agentVars, results>>
  BY DEF FlowEnqueueFails, FlowEnqueues, ghostVars
<1>5. GoesOn(flow[o], AfterEnqueue(flow[o])) /\ \A c, t : ~TokenHolds(AfterEnqueue(flow[o]), c, t)
  BY <1>1, AfterEnqueueInv
<1> QED
  BY <1>2, <1>3, <1>4, <1>5, SameTime, FlowInv

\* A job enters the queue: it is current and nothing stale remains behind it, or its client
\* is excused.
LEMMA EnqueueInv ==
  ASSUME ClientTypeInv, ClientInv, UNCHANGED <<now, asked, dep, effects, agentVars, results>>,
         NEW new \in Jobs, EnqueueJob(new), new.asof = asked[new.client].at,
         \A j \in Unrun : j.client = new.client => j.created # new.created,
         \A o \in Operators : GoesOn(flow[o], flow'[o]),
         \A o \in Operators : \A c, t : TokenHolds(flow'[o], c, t) => TokenHolds(flow[o], c, t)
  PROVE  ClientInv'
<1>1. ClientShape /\ new.client \in Clients /\ new.created \in Nat
  BY JobFields DEF ClientTypeInv
<1>2. /\ jobs' = {j \in jobs : ~Superseded(j, new)} \cup {new}
      /\ excused \subseteq excused'
      /\ ~Current(new) => new.client \in excused'
      /\ \A j \in Unrun : Outruns(j, new) => new.client \in excused'
  BY DEF EnqueueJob, Unrun
<1>3. Unrun' \subseteq Unrun \cup {new} /\ Replies' = Replies /\ lane' = lane /\ user' = user
      /\ jobs \subseteq Unrun /\ InLane' = InLane
  BY <1>2 DEF Unrun, Replies, InLane, agentVars
<1>4. \A j \in AllJobs' : j \in AllJobs \/ j.asof = asked[j.client].at
  BY <1>3 DEF AllJobs
<1>5. RegistryOK'
  BY DEF ClientInv, RegistryOK, agentVars
<1>6. ASSUME NEW c \in Clients, c \notin excused', c # new.client PROVE OrderOK(c)'
  <2>1. OrderOK(c)
    BY <1>2, <1>6, OrderHolds
  <2>2. \A o \in Operators : TokenHolds(flow'[o], c, asked[c].at) => HasAnswered(c)
    BY DEF HasAnswered
  <2>3. NodeHas(c) => NodeHas(c)'
    BY <1>3 DEF NodeHas
  <2>4. \A j \in jobs' : j.client = c => j \in jobs
    BY <1>2, <1>6
  <2>5. \A j \in Unrun' : j.client = c => j \in Unrun
    BY <1>3, <1>6
  <2> QED
    BY <1>1, <1>3, <2>1, <2>2, <2>3, <2>4, <2>5, OrderFrom, SuccessAnswers
<1>7. ASSUME new.client \notin excused' PROVE OrderOK(new.client)'
  <2> DEFINE c == new.client
  <2>1. OrderOK(c)
    BY <1>1, <1>2, <1>7, OrderHolds
  <2>2. \A j : j.client = c => (Current(j)' <=> Current(j))
    BY CurrentStays
  <2>3. \A j \in jobs' : j.client = c => Current(j)
    <3>1. Current(new)
      BY <1>2, <1>7
    <3>2. ASSUME NEW j \in jobs, j.client = c, ~Superseded(j, new) PROVE Current(j)
      <4>1. j \in Jobs /\ j.created \in Nat /\ j.created # new.created /\ ~(j.created < new.created)
        BY <1>1, <1>3, <3>2, JobFields DEF ClientShape, Superseded
      <4>2. j.created > new.created
        BY <1>1, <4>1
      <4> QED
        BY <1>2, <1>3, <1>7, <3>2, <4>2 DEF Outruns
    <3> QED
      BY <1>2, <3>1, <3>2
  <2>4. HasAnswered(c)' => HasAnswered(c)
    BY <1>1, <1>3, <2>2 DEF HasAnswered
  <2>5. \A i, k \in DOMAIN lane' :
          i < k /\ lane'[i].client = c /\ lane'[k].client = c /\ Current(lane[i])' => Current(lane[k])'
    BY <1>3, <2>1 DEF OrderOK, Current
  <2>6. HasAnswered(c)' => \A j \in InLane' : j.client = c => Current(j)'
    BY <1>3, <2>1, <2>2, <2>4 DEF OrderOK
  <2>7. HasAnswered(c)' => NodeHas(c)'
    BY <1>3, <2>1, <2>4 DEF OrderOK, NodeHas
  <2>8. \A j \in jobs' : j.client = c => Current(j)'
    BY <2>2, <2>3
  <2> QED
    BY <2>5, <2>6, <2>7, <2>8 DEF OrderOK
<1>8. now <= now' /\ now' \in Nat
  BY SameTime
<1>9. \A c \in Clients : c \in excused' \/ OrderOK(c)'
  BY <1>6, <1>7
<1> QED
  BY <1>2, <1>4, <1>5, <1>8, <1>9, InvFrom

\* A request enqueues.
LEMMA FlowEnqueuesInv ==
  ASSUME ClientTypeInv, ClientInv, NEW o \in Operators, FlowEnqueues(o)
  PROVE  ClientInv'
<1> DEFINE f == flow[o]  c == f.client
<1>1. /\ ClientShape /\ f \in Flows /\ FlowOK(f, now, Saved) /\ f.pc = "saved" /\ now \in Nat
  BY ShapeFacts DEF ClientTypeInv, FlowEnqueues
<1>2. c \in Clients /\ Matched(f.old) /\ f.old \in Deps /\ f.ver \in Nat /\ f.created \in Nat
  BY <1>1, ShapeFacts, FlowFields DEF FlowOK
<1>3. CASE NoNodeConcerned(f)
  BY <1>3, FlowNoJobInv
<1>4. CASE ~NoNodeConcerned(f)
  <2>1. f.old.op \in Actions
    BY <1>2, <1>4 DEF Deps, Matched, NoDep, NoNodeConcerned
  <2>2. PICK new \in Jobs : /\ new = NewJob(c, f.old.op, FlowPhase(f), f.ver, f.created)
                            /\ new.client = c /\ new.created = f.created /\ new.asof = asked[c].at
    BY <1>1, <1>2, <2>1, NewJobFacts
  <2>3. EnqueueJob(new)
    BY <1>4, <2>2 DEF FlowEnqueues, FlowPhase
  <2>4. UNCHANGED <<now, asked, row, dep, effects, agentVars, results>>
    BY DEF FlowEnqueues
  <2>5. flow' = [flow EXCEPT ![o] = AfterEnqueue(f)]
    BY DEF FlowEnqueues, AfterEnqueue
  <2>6. AfterEnqueue(f) \in Flows
    BY <1>1, AfterEnqueueOK
  <2>7. GoesOn(f, AfterEnqueue(f)) /\ \A b, t : ~TokenHolds(AfterEnqueue(f), b, t)
    BY <1>1, AfterEnqueueInv
  <2>8. flow'[o] = AfterEnqueue(f) /\ \A p \in Operators : p # o => flow'[p] = flow[p]
    <3> HIDE DEF f
    <3> QED
      BY <1>1, <2>5, <2>6, FlowWrite
  <2>9. \A j \in Unrun : j.client = new.client => j.created # new.created
    <3>1. c \in Owes(f)
      BY <1>1 DEF Owes
    <3> QED
      BY <2>2, <3>1 DEF ClientTypeInv, StampsOK, StampFree
  <2>10. \A p \in Operators : GoesOn(flow[p], flow'[p])
    BY <2>7, <2>8, IdleRequest
  <2>11. \A p \in Operators : \A b, t : TokenHolds(flow'[p], b, t) => TokenHolds(flow[p], b, t)
    BY <2>7, <2>8
  <2> HIDE DEF f, c
  <2> QED
    BY <2>2, <2>3, <2>4, <2>9, <2>10, <2>11, EnqueueInv
<1> QED
  BY <1>3, <1>4

\* A pass enqueues.
LEMMA PassEnqueuesInv ==
  ASSUME ClientTypeInv, ClientInv, NEW p \in Passes, PassEnqueues(p)
  PROVE  ClientInv'
<1> DEFINE q == pass[p]  c == q.client
<1>1. ClientShape /\ q \in Resends /\ PassOK(q, now, Saved) /\ q.pc = "reread"
  BY ShapeFacts DEF ClientTypeInv, PassEnqueues
<1>2. c \in Clients /\ q.act \in Actions /\ q.created \in Nat /\ q.ver \in Nat
  BY <1>1, ShapeFacts, PassFields DEF PassOK
<1>3. PICK new \in Jobs : /\ new = NewJob(c, q.act, q.phase, q.ver, q.created)
                          /\ new.client = c /\ new.created = q.created /\ new.asof = asked[c].at
  BY <1>1, <1>2, NewJobFacts
<1>4. EnqueueJob(new)
  BY <1>3 DEF PassEnqueues
<1>5. UNCHANGED <<now, asked, row, dep, effects, agentVars, results, flow>>
  BY DEF PassEnqueues
<1>6. \A j \in Unrun : j.client = new.client => j.created # new.created
  BY <1>3 DEF ClientTypeInv, StampsOK, StampFree
<1>7. \A o \in Operators : GoesOn(flow[o], flow'[o])
  BY <1>5, IdleRequest
<1> HIDE DEF q, c
<1> QED
  BY <1>3, <1>4, <1>5, <1>6, <1>7, EnqueueInv

\* A save at a time that is not on record: whatever was made for the client before is stale,
\* and nothing is known to have been answered.
LEMMA SaveOrder ==
  ASSUME ClientTypeInv, NEW c \in Clients,
         UNCHANGED <<jobs, effects, agentVars, results>>,
         ~Marked(c, asked'[c].at), dep'[c].st # "succeeded",
         \A o \in Operators : ~TokenHolds(flow'[o], c, asked'[c].at)
  PROVE  OrderOK(c)'
<1>1. Unrun' = Unrun /\ Replies' = Replies
  BY DEF Unrun, Replies, agentVars, InLane
<1>2. \A j \in AllJobs : j.client = c => ~Current(j)'
  BY DEF Current, Meets, Marked
<1>3. ~HasAnswered(c)'
  BY <1>1, <1>2 DEF HasAnswered, AllJobs
<1>4. ~Launched(c)'
  BY <1>1, <1>2, <1>3 DEF Launched, AllJobs
<1>5. \A i \in DOMAIN lane' : lane'[i].client = c => ~Current(lane[i])'
  <2> SUFFICES ASSUME NEW i \in DOMAIN lane', lane'[i].client = c PROVE ~Current(lane[i])'
    OBVIOUS
  <2>1. lane' = lane /\ lane[i] \in AllJobs
    BY DEF agentVars, AllJobs, Unrun, InLane
  <2>2. PICK j \in AllJobs : j = lane'[i]
    BY <2>1
  <2>3. ~Meets(j, asked'[c])
    BY <1>2, <2>2 DEF Current
  <2> QED
    BY <2>2, <2>3 DEF Current
<1> QED
  BY <1>3, <1>4, <1>5 DEF OrderOK

\* The clients a save is not about.
LEMMA OthersOrder ==
  ASSUME ClientTypeInv, ClientInv, NEW b \in Clients, b \notin excused,
         UNCHANGED <<jobs, effects, agentVars, results>>,
         asked'[b] = asked[b], dep'[b].st = "succeeded" => HasAnswered(b),
         \A o \in Operators : \A t : TokenHolds(flow'[o], b, t) => TokenHolds(flow[o], b, t)
  PROVE  OrderOK(b)'
<1>1. Unrun' = Unrun /\ Replies' = Replies /\ lane' = lane /\ ClientShape /\ OrderOK(b)
  BY OrderHolds DEF Unrun, Replies, agentVars, InLane, ClientTypeInv
<1>2. NodeHas(b) => NodeHas(b)'
  BY DEF NodeHas, agentVars
<1>3. \A o \in Operators : TokenHolds(flow'[o], b, asked[b].at) => HasAnswered(b)
  BY DEF HasAnswered
<1> QED
  BY <1>1, <1>2, <1>3, OrderFrom

\* A save puts the clock reading of its request on record, which no other request holds.
LEMMA SaveMarks ==
  ASSUME ClientTypeInv, MarksOK, now' = now, AllJobs' = AllJobs,
         NEW o \in Operators, NEW c \in Clients, NEW n, n = flow[o].created, c \in Unsaved(flow[o]),
         asked'[c].at = n, \A b \in Clients : b # c => asked'[b] = asked[b],
         flow'[o].pc = "saved", flow'[o].created = n,
         Unsaved(flow'[o]) \subseteq Unsaved(flow[o]) \ {c},
         \A p \in Operators : p # o => flow'[p] = flow[p]
  PROVE  MarksOK'
<1>1. ASSUME NEW b \in Clients, NEW t, Marked(b, t)' PROVE Marked(b, t) \/ (b = c /\ t = n)
  <2>1. CASE asked'[b].at = t
    BY <2>1 DEF Marked
  <2>2. CASE \E j \in AllJobs' : j.client = b /\ j.asof = t
    BY <2>2 DEF Marked
  <2>3. CASE \E p \in Operators : flow'[p].pc = "read" /\ flow'[p].client = b /\ flow'[p].asof = t
    BY <2>3 DEF Marked
  <2> QED
    BY <1>1, <2>1, <2>2, <2>3 DEF Marked
<1>2. flow[o].pc # "idle" /\ n \in 0 .. now
  BY DEF Unsaved, ClientTypeInv, FlowOK
<1>3. ASSUME NEW b \in Clients, NEW t, Marked(b, t)' PROVE t \in 0 .. now'
  BY <1>1, <1>2, <1>3 DEF MarksOK
<1>4. ASSUME NEW b \in Clients, NEW p \in Operators, b \in Unsaved(flow'[p]), NEW t, t = flow'[p].created
      PROVE  ~Marked(b, t)'
  <2>1. CASE p = o
    <3>1. b \in Unsaved(flow[o]) /\ b # c /\ t = flow[o].created
      BY <1>4, <2>1
    <3> QED
      BY <1>1, <3>1 DEF MarksOK
  <2>2. CASE p # o
    <3>1. b \in Unsaved(flow[p]) /\ t = flow[p].created
      BY <1>4, <2>2
    <3>2. t # n
      BY <1>2, <2>2, <3>1 DEF ClientTypeInv, StampsOK, HoldersDiffer
    <3> QED
      BY <1>1, <3>1, <3>2 DEF MarksOK
  <2> QED
    BY <2>1, <2>2
<1> QED
  BY <1>3, <1>4 DEF MarksOK, Marked

\* Two clients that ask for the name after a save are excused.
LEMMA SaveRivals ==
  ASSUME RivalsOK, NEW c \in Clients, NEW ver, NEW n, SaveAsks(c, ver, n),
         asked'[c].ver = ver, \A b \in Clients : b # c => asked'[b] = asked[b]
  PROVE  RivalsOK' /\ \A b \in Clients : b # c /\ b \notin excused' => b \notin excused
<1> DEFINE rivals == {b \in Clients \ {c} : asked[b].ver # Absent}
<1>1. excused' = IF ver = Absent \/ rivals = {} THEN excused \ {c}
                 ELSE excused \cup rivals \cup {c}
  BY DEF SaveAsks
<1>2. ASSUME NEW a \in Clients, NEW b \in Clients, a # b, asked'[a].ver # Absent, asked'[b].ver # Absent
      PROVE  a \in excused'
  <2>1. CASE a = c
    BY <1>1, <1>2, <2>1
  <2>2. CASE b = c
    BY <1>1, <1>2, <2>2
  <2>3. CASE a # c /\ b # c
    BY <1>1, <1>2, <2>3 DEF RivalsOK
  <2> QED
    BY <2>1, <2>2, <2>3
<1>3. RivalsOK'
  BY <1>2 DEF RivalsOK
<1> QED
  BY <1>1, <1>3

\* A request saves a client and asks something of the node.
LEMMA SaveInv ==
  ASSUME ClientTypeInv, ClientInv, UNCHANGED <<now, jobs, effects, agentVars, results>>,
         NEW o \in Operators, NEW c \in Clients, NEW ver \in Nat, NEW g \in Flows,
         c \in Unsaved(flow[o]), SaveAsks(c, ver, flow[o].created),
         dep'[c].st # "succeeded", \A b \in Clients : b # c => dep'[b] = dep[b],
         flow' = [flow EXCEPT ![o] = g], g.pc = "saved", g.created = flow[o].created,
         Unsaved(g) \subseteq Unsaved(flow[o]) \ {c}
  PROVE  ClientInv'
<1>1. PICK n \in Nat : n = flow[o].created
  BY ShapeFacts, FlowFields DEF ClientTypeInv
<1>2. ClientShape /\ MarksOK /\ RivalsOK /\ RegistryOK
  BY DEF ClientTypeInv, ClientInv
<1>3. asked' = [asked EXCEPT ![c] = [ver |-> ver, at |-> n]]
  BY <1>1 DEF SaveAsks
<1>4. asked'[c].ver = ver /\ asked'[c].at = n /\ \A b \in Clients : b # c => asked'[b] = asked[b]
  BY <1>2, <1>3, AskedWrite
<1>5. flow'[o] = g /\ \A p \in Operators : p # o => flow'[p] = flow[p]
  BY <1>2, FlowWrite
<1>6. AllJobs' = AllJobs /\ RegistryOK'
  BY <1>2 DEF AllJobs, Unrun, Replies, agentVars, InLane, RegistryOK
<1>7. MarksOK'
  BY <1>1, <1>2, <1>4, <1>5, <1>6, SaveMarks
<1>8. RivalsOK' /\ \A b \in Clients : b # c /\ b \notin excused' => b \notin excused
  BY <1>1, <1>2, <1>4, SaveRivals
<1>9. OrderOK(c)'
  <2>1. ~Marked(c, n)
    BY <1>1, <1>2 DEF MarksOK
  <2>2. \A p \in Operators : ~TokenHolds(flow'[p], c, n)
    BY <1>5, <2>1 DEF TokenHolds, Marked
  <2> QED
    BY <1>4, <2>1, <2>2, SaveOrder
<1>10. ASSUME NEW b \in Clients, b # c, b \notin excused' PROVE OrderOK(b)'
  <2>1. \A p \in Operators : \A t : TokenHolds(flow'[p], b, t) => TokenHolds(flow[p], b, t)
    BY <1>5 DEF TokenHolds
  <2>2. dep'[b].st = "succeeded" => HasAnswered(b)
    BY <1>10, SuccessAnswers
  <2> QED
    BY <1>4, <1>8, <1>10, <2>1, <2>2, OthersOrder
<1> QED
  BY <1>6, <1>7, <1>8, <1>9, <1>10 DEF ClientInv

\* A token request saves what it has read: the success of the last save, or its client is
\* excused.
LEMMA TokenInv ==
  ASSUME ClientTypeInv, ClientInv, NEW o \in Operators, FlowSaves(o), flow[o].req = "token"
  PROVE  ClientInv'
<1> DEFINE f == flow[o]  c == f.client
<1>1. /\ f.pc = "read" /\ c \in Clients
      /\ flow' = [flow EXCEPT ![o] = AfterSave(f)] /\ dep'[c] = SavedDep(f)
      /\ \A b \in Clients : b # c => dep'[b] = dep[b]
      /\ asked' = asked /\ excused' = IF asked[c].at = f.asof THEN excused ELSE excused \cup {c}
  BY FlowSavesFacts
<1>2. AfterSave(f) = Idle /\ SavedDep(f) = f.old
  BY DEF AfterSave, SavedDep
<1>3. flow'[o] = Idle /\ \A p \in Operators : p # o => flow'[p] = flow[p]
  BY <1>1, <1>2, FlowWrite, EmptyFacts DEF ClientTypeInv
<1>4. UNCHANGED <<now, jobs, effects, agentVars, results>>
  BY DEF FlowSaves
<1>5. AllJobs' = AllJobs /\ RegistryOK'
  BY <1>4 DEF AllJobs, Unrun, Replies, agentVars, InLane, RegistryOK, ClientInv
<1>6. \A p \in Operators : /\ GoesOn(flow[p], flow'[p])
                           /\ \A b, t : TokenHolds(flow'[p], b, t) => TokenHolds(flow[p], b, t)
  BY <1>3, IdleRequest
<1>7. ASSUME NEW b \in Clients, b \notin excused' PROVE OrderOK(b)'
  <2>1. dep'[b].st = "succeeded" => HasAnswered(b)
    <3>1. CASE b = c
      BY <1>1, <1>2, <1>7, <3>1 DEF HasAnswered, TokenHolds
    <3>2. CASE b # c
      BY <1>1, <3>2, SuccessAnswers
    <3> QED
      BY <3>1, <3>2
  <2>2. b \notin excused
    BY <1>1, <1>7
  <2> QED
    BY <1>1, <1>4, <1>6, <2>1, <2>2, OthersOrder
<1>8. excused \subseteq excused' /\ asked' = asked
  BY <1>1
<1> QED
  BY <1>4, <1>5, <1>6, <1>7, <1>8, SameTime, InvFrom

\* A request saves.
LEMMA FlowSavesInv ==
  ASSUME ClientTypeInv, ClientInv, NEW o \in Operators, FlowSaves(o)
  PROVE  ClientInv'
<1>1. CASE flow[o].req = "token"
  BY <1>1, TokenInv
<1>2. CASE flow[o].req # "token"
  <2>1. PICK f \in Flows, c \in Clients, d \in Deps :
               /\ f = flow[o] /\ c = f.client /\ d = SavedDep(f)
               /\ f.pc = "read" /\ FlowOK(f, now, Saved)
               /\ flow' = [flow EXCEPT ![o] = AfterSave(f)] /\ dep'[c] = d
               /\ \A b \in Clients : b # c => dep'[b] = dep[b]
               /\ SaveAsks(c, AskedVer(d, FlowPhase(f), f.ver), f.created)
    <3> DEFINE f == flow[o]  c == f.client  d == SavedDep(f)
    <3>1. /\ f \in Flows /\ c \in Clients /\ d \in Deps
          /\ f.pc = "read" /\ FlowOK(f, now, Saved)
          /\ flow' = [flow EXCEPT ![o] = AfterSave(f)] /\ dep'[c] = d
          /\ \A b \in Clients : b # c => dep'[b] = dep[b]
          /\ SaveAsks(c, AskedVer(d, FlowPhase(f), f.ver), f.created)
      BY <1>2, FlowSavesFacts
    <3> HIDE DEF f, c, d
    <3> QED
      BY <3>1 DEF f, c, d
  <2>2. /\ f.req \in Requests \ {"move", "token"} /\ f.todo = {} /\ Matched(f.old)
        /\ f.old \in Deps /\ f.target \in BOOLEAN /\ f.ver \in Nat /\ now \in Nat
    BY <1>2, <2>1, FlowFields, ShapeFacts DEF FlowOK, ClientTypeInv
  <2>3. PICK g \in Flows : /\ g = AfterSave(f) /\ g.pc = "saved"
                           /\ g.created = f.created /\ g.todo = f.todo
    BY <2>1, <2>2, AfterSaveFacts, ShapeFacts DEF ClientTypeInv
  <2>4. JobAction(f.req) \in Actions /\ d = Rebuilt(f.old, f.target, JobAction(f.req))
    BY <2>1, <2>2 DEF JobAction, Requests, Actions, SavedDep
  <2>5. d.st \in {"none", "queued"}
    BY <2>2, <2>4, RebuiltFacts
  <2>6. c \in Unsaved(f) /\ c \notin Unsaved(g) /\ Unsaved(g) = {}
    BY <2>1, <2>2, <2>3 DEF Unsaved
  <2>7. PICK ver \in Nat : ver = AskedVer(d, FlowPhase(f), f.ver)
    BY <2>2 DEF AskedVer, Absent
  <2>8. UNCHANGED <<now, jobs, effects, agentVars, results>>
    BY DEF FlowSaves
  <2> QED
    BY <2>1, <2>3, <2>5, <2>6, <2>7, <2>8, SaveInv
<1> QED
  BY <1>1, <1>2

\* A topology pass looks at a client.
LEMMA TopologySavesInv ==
  ASSUME ClientTypeInv, ClientInv, NEW o \in Operators, NEW c \in Clients, TopologySaves(o, c)
  PROVE  ClientInv'
<1>1. PICK f, g, d :
             /\ f \in Flows /\ g \in Flows /\ f = flow[o] /\ f.pc = "moving" /\ c \in f.todo
             /\ flow' = [flow EXCEPT ![o] = g]
             /\ g.created = f.created /\ g.todo = f.todo \ {c}
             /\ \/ /\ g.pc = "saved" /\ d \in Deps /\ d.st # "succeeded"
                   /\ dep' = [dep EXCEPT ![c] = d]
                   /\ SaveAsks(c, AskedVer(d, "live", row[c].ver), f.created)
                \/ g.pc = "moving" /\ UNCHANGED <<dep, asked, excused>>
  <2> DEFINE f == flow[o]  g == flow'[o]  d == Rebuilt(dep[c], targeted, "update")
  <2>1. /\ f \in Flows /\ g \in Flows /\ f.pc = "moving" /\ c \in f.todo
        /\ flow' = [flow EXCEPT ![o] = g]
        /\ g.created = f.created /\ g.todo = f.todo \ {c}
        /\ \/ /\ g.pc = "saved" /\ d \in Deps /\ d.st # "succeeded"
              /\ dep' = [dep EXCEPT ![c] = d]
              /\ SaveAsks(c, AskedVer(d, "live", row[c].ver), f.created)
           \/ g.pc = "moving" /\ UNCHANGED <<dep, asked, excused>>
    BY TopologyFacts
  <2> HIDE DEF f, g, d
  <2> QED
    BY <2>1 DEF f
<1>2. UNCHANGED <<now, row, jobs, effects, agentVars, results>>
  BY DEF TopologySaves
<1>3. ClientShape /\ row[c].ver \in Nat
  BY ShapeFacts DEF ClientTypeInv
<1>4. c \in Unsaved(f) /\ (g.pc \in {"saved", "moving"} => Unsaved(g) = Unsaved(f) \ {c})
  BY <1>1 DEF Unsaved
<1>5. CASE g.pc = "moving" /\ UNCHANGED <<dep, asked, excused>>
  <2>1. GoesOn(f, g) /\ \A b, t : ~TokenHolds(g, b, t)
    BY <1>1, <1>4, <1>5 DEF GoesOn, TokenHolds
  <2> QED
    BY <1>1, <1>2, <1>5, <2>1, SameTime, FlowInv
<1>6. CASE /\ g.pc = "saved" /\ d \in Deps /\ d.st # "succeeded" /\ dep' = [dep EXCEPT ![c] = d]
           /\ SaveAsks(c, AskedVer(d, "live", row[c].ver), f.created)
  <2>1. dep'[c] = d /\ \A b \in Clients : b # c => dep'[b] = dep[b]
    BY <1>3, <1>6, DepWrite
  <2>2. PICK ver \in Nat : ver = AskedVer(d, "live", row[c].ver)
    BY <1>3 DEF AskedVer, Absent
  <2> QED
    BY <1>1, <1>2, <1>4, <1>6, <2>1, <2>2, SaveInv
<1> QED
  BY <1>1, <1>5, <1>6

\* Its save fails.
LEMMA TopologySaveFailsInv ==
  ASSUME ClientTypeInv, ClientInv, NEW o \in Operators, NEW c \in Clients, TopologySaveFails(o, c)
  PROVE  ClientInv'
<1>1. PICK f \in Flows, g \in Flows :
             /\ f = flow[o] /\ f.pc = "moving" /\ flow' = [flow EXCEPT ![o] = g]
             /\ g.pc = "moving" /\ g.created = f.created /\ g.todo = f.todo \ {c}
  BY SkippedFacts
<1>2. UNCHANGED <<now, asked, excused, row, dep, jobs, effects, agentVars, results>>
  BY DEF TopologySaveFails, ghostVars
<1>3. Unsaved(g) = Unsaved(f) \ {c}
  BY <1>1 DEF Unsaved
<1>4. GoesOn(f, g) /\ \A b, t : ~TokenHolds(g, b, t)
  BY <1>1, <1>3 DEF GoesOn, TokenHolds
<1> QED
  BY <1>1, <1>2, <1>4, SameTime, FlowInv

\* The agent is given a job: if a current one of the client is before it, so is it.
LEMMA DeliverInv ==
  ASSUME ClientTypeInv, ClientInv, NEW j \in jobs, Deliver(j)
  PROVE  ClientInv'
<1>1. ClientShape /\ j \in Jobs
  BY DEF ClientTypeInv, ClientShape
<1>2. UNCHANGED <<now, row, dep, flow, jobs, effects, ran, results, user, holder, asked, excused>>
  BY DEF Deliver, panelVars, ghostVars
<1>3. /\ Len(lane) \in Nat /\ lane'[Len(lane) + 1] = j
      /\ \A i \in DOMAIN lane : i \in DOMAIN lane' /\ lane'[i] = lane[i]
      /\ DOMAIN lane' = DOMAIN lane \cup {Len(lane) + 1} /\ DOMAIN lane = 1 .. Len(lane)
      /\ InLane' = InLane \cup {j}
  BY <1>1, LaneAppend DEF Deliver
<1>4. Unrun' = Unrun /\ Replies' = Replies
  BY <1>2, <1>3 DEF Unrun, Replies
<1>5. AllJobs' = AllJobs
  BY <1>4 DEF AllJobs
<1>6. RegistryOK'
  BY <1>2 DEF ClientInv, RegistryOK
<1>7. ASSUME NEW c \in Clients, c \notin excused' PROVE OrderOK(c)'
  <2>1. OrderOK(c)
    BY <1>2, <1>7, OrderHolds
  <2>2. \A k : Current(k)' <=> Current(k)
    BY <1>2 DEF Current
  <2>3. HasAnswered(c)' <=> HasAnswered(c)
    BY <1>2, <1>4, <2>2 DEF HasAnswered
  <2>4. Launched(c)' <=> Launched(c)
    BY <1>4, <2>2, <2>3 DEF Launched
  <2>5. Launched(c)' => \A k \in jobs' : k.client = c => Current(k)'
    BY <1>2, <2>1, <2>2, <2>4 DEF OrderOK
  <2>6. \A i, k \in DOMAIN lane' :
          i < k /\ lane'[i].client = c /\ lane'[k].client = c /\ Current(lane[i])' => Current(lane[k])'
    <3> SUFFICES ASSUME NEW i \in DOMAIN lane', NEW k \in DOMAIN lane', i < k,
                        lane'[i].client = c, lane'[k].client = c, Meets(lane'[i], asked[c])
                 PROVE  Meets(lane'[k], asked[c])
      BY <1>2 DEF Current
    <3>1. i \in DOMAIN lane
      BY <1>3
    <3>2. lane'[i] = lane[i] /\ Current(lane[i])
      BY <1>3, <3>1 DEF Current
    <3>3. CASE k \in DOMAIN lane
      BY <1>3, <2>1, <3>1, <3>2, <3>3 DEF OrderOK, Current
    <3>4. CASE k = Len(lane) + 1
      <4>1. Launched(c)
        BY <3>1, <3>2 DEF Launched, Unrun, InLane
      <4>2. j.client = c /\ Current(j)
        BY <1>3, <2>1, <3>4, <4>1 DEF OrderOK
      <4> QED
        BY <1>3, <3>4, <4>2 DEF Current
    <3> QED
      BY <1>3, <3>3, <3>4
  <2>7. HasAnswered(c)' => \A k \in InLane' : k.client = c => Current(k)'
    BY <1>3, <2>1, <2>2, <2>3 DEF OrderOK, Launched
  <2>8. HasAnswered(c)' => NodeHas(c)'
    BY <1>2, <2>1, <2>3 DEF OrderOK, NodeHas
  <2> QED
    BY <2>5, <2>6, <2>7, <2>8 DEF OrderOK
<1>8. \A c \in Clients : c \in excused' \/ OrderOK(c)'
  BY <1>7
<1>9. \A o \in Operators : GoesOn(flow[o], flow'[o])
  BY <1>2, IdleRequest
<1> QED
  BY <1>2, <1>5, <1>6, <1>8, <1>9, SameTime, InvFrom

\* Registry and Telemt agree after a job has run.
LEMMA ApplyRegistry ==
  ASSUME ClientShape, RegistryOK, NEW j \in Jobs, Apply(j)
  PROVE  RegistryOK'
<1>1. CASE j.act # "delete"
  <2>1. holder' = j.client /\ user' \in {NoUser, [owner |-> j.client, ver |-> j.ver]}
    BY <1>1 DEF Apply
  <2> QED
    BY <2>1, EmptyFacts DEF RegistryOK
<1>2. CASE j.act = "delete"
  <2>1. /\ holder' = IF holder = j.client THEN NoClient ELSE holder
        /\ user' = IF NameReassigned(j) THEN user ELSE NoUser
    BY <1>2 DEF Apply
  <2> QED
    BY <2>1, EmptyFacts DEF RegistryOK
<1> QED
  BY <1>1, <1>2

\* A current job gives the node what was asked of it for the job's client.
LEMMA ApplyOwn ==
  ASSUME ClientShape, RegistryOK, NEW j \in Jobs, Current(j), Apply(j), asked' = asked,
         j.client \notin excused'
  PROVE  NodeHas(j.client)'
<1>1. j.client \in Clients /\ j.client # NoClient
  BY JobFields, ClientConstants
<1>2. CASE j.act # "delete"
  <2>1. asked[j.client].ver # Absent /\ j.ver = asked[j.client].ver
    BY <1>2 DEF Current, Meets
  <2>2. user' = [owner |-> j.client, ver |-> j.ver]
    BY <1>2, <2>1 DEF Apply
  <2> QED
    BY <2>1, <2>2 DEF NodeHas
<1>3. CASE j.act = "delete"
  <2>1. asked'[j.client].ver = Absent
    BY <1>3 DEF Current, Meets
  <2>2. /\ user' = IF NameReassigned(j) THEN user ELSE NoUser
        /\ holder = NoClient /\ user.owner = j.client => ~NameReassigned(j)
    BY <1>3 DEF Apply
  <2>3. user'.owner # j.client
    <3>1. CASE NameReassigned(j)
      BY <1>1, <2>2, <3>1 DEF NameReassigned, RegistryOK
    <3>2. CASE ~NameReassigned(j)
      BY <1>1, <2>2, <3>2, EmptyFacts
    <3> QED
      BY <3>1, <3>2
  <2> QED
    BY <2>1, <2>3 DEF NodeHas
<1> QED
  BY <1>2, <1>3

\* No job takes from another client what was asked for it, or that client is excused.
LEMMA ApplyOther ==
  ASSUME ClientShape, RegistryOK, RivalsOK, NEW j \in Jobs, Apply(j), asked' = asked,
         excused \subseteq excused', NEW c \in Clients, c # j.client, c \notin excused', NodeHas(c)
  PROVE  NodeHas(c)'
<1>1. j.client \in Clients /\ c # NoClient
  BY JobFields, ClientConstants
<1>2. CASE j.act # "delete"
  <2>1. user' \in {NoUser, [owner |-> j.client, ver |-> j.ver]}
    BY <1>2 DEF Apply
  <2>2. user'.owner # c
    BY <1>1, <2>1, EmptyFacts
  <2>3. asked[c].ver = Absent
    <3> SUFFICES ASSUME asked[c].ver # Absent PROVE FALSE
      OBVIOUS
    <3>1. user.owner = c
      BY DEF NodeHas
    <3>2. Current(j)
      BY <1>2, <3>1 DEF Apply
    <3>3. asked[j.client].ver # Absent
      BY <1>2, <3>2 DEF Current, Meets
    <3> QED
      BY <1>1, <3>3 DEF RivalsOK
  <2> QED
    BY <2>2, <2>3 DEF NodeHas
<1>3. CASE j.act = "delete"
  <2>1. /\ user' = IF NameReassigned(j) THEN user ELSE NoUser
        /\ holder = NoClient /\ user.owner = c => NameReassigned(j)
    BY <1>3 DEF Apply
  <2>2. CASE NameReassigned(j)
    BY <2>1, <2>2 DEF NodeHas
  <2>3. CASE ~NameReassigned(j)
    <3>1. user.owner # c
      BY <1>1, <2>1, <2>3 DEF NameReassigned, RegistryOK
    <3>2. user'.owner # c
      BY <1>1, <2>1, <2>3, EmptyFacts
    <3>3. asked[c].ver = Absent
      BY <3>1 DEF NodeHas
    <3> QED
      BY <3>2, <3>3 DEF NodeHas
  <2> QED
    BY <2>2, <2>3
<1> QED
  BY <1>2, <1>3

\* The worker runs a job.
LEMMA RunJobInv ==
  ASSUME ClientTypeInv, ClientInv, RunJob
  PROVE  ClientInv'
<1>1. ClientShape /\ RivalsOK /\ RegistryOK
  BY DEF ClientTypeInv, ClientInv
<1>2. /\ lane # <<>> /\ lane' = Tail(lane) /\ UNCHANGED <<jobs, effects>>
      /\ ran' = {x \in ran : x.job \in jobs} \cup {[job |-> Head(lane), ok |-> TRUE]}
      /\ results' = results \cup {[job |-> Head(lane), ok |-> TRUE]}
  BY DEF RunJob
<1>3. UNCHANGED <<now, row, dep, flow, asked>>
  BY DEF RunJob, panelVars
<1>4. /\ Head(lane) \in Jobs /\ Head(lane) = lane[1] /\ Head(lane) \in InLane /\ 1 \in DOMAIN lane
      /\ \A i \in DOMAIN lane' : i + 1 \in DOMAIN lane /\ lane'[i] = lane[i + 1] /\ 1 < i + 1
      /\ InLane' \subseteq InLane
  BY <1>1, <1>2, LaneTail
<1>5. PICK j \in Jobs : j = Head(lane)
  BY <1>4
<1>6. Apply(j) /\ excused \subseteq excused'
  BY <1>5 DEF RunJob, Apply
<1>7. /\ Replies' \subseteq Replies \cup {[job |-> j, ok |-> TRUE]}
      /\ Unrun' \subseteq Unrun /\ AllJobs' \subseteq AllJobs
  BY <1>1, <1>2, <1>5, RunFacts
<1>8. RegistryOK'
  BY <1>1, <1>6, ApplyRegistry
<1>9. ASSUME NEW c \in Clients, c \notin excused', c # j.client PROVE OrderOK(c)'
  <2>1. OrderOK(c)
    BY <1>6, <1>9, OrderHolds
  <2>2. \A r \in Replies' : r.ok /\ r.job.client = c => r \in Replies
    BY <1>7, <1>9
  <2>3. \A o \in Operators : TokenHolds(flow'[o], c, asked[c].at) => HasAnswered(c)
    BY <1>3 DEF HasAnswered
  <2>4. NodeHas(c) => NodeHas(c)'
    BY <1>1, <1>3, <1>6, <1>9, ApplyOther
  <2> QED
    BY <1>1, <1>2, <1>3, <1>7, <2>1, <2>2, <2>3, <2>4, OrderFrom, SuccessAnswers
<1>10. ASSUME NEW c \in Clients, c \notin excused', c = j.client PROVE OrderOK(c)'
  <2>1. OrderOK(c)
    BY <1>6, <1>10, OrderHolds
  <2>2. \A k : Current(k)' <=> Current(k)
    BY <1>3 DEF Current
  <2>3. HasAnswered(c)' => Current(j)
    <3>1. HasAnswered(c)' => HasAnswered(c) \/ Current(j)
      BY <1>3, <1>7, <2>2 DEF HasAnswered
    <3>2. HasAnswered(c) => Current(j)
      BY <1>4, <1>5, <1>10, <2>1 DEF OrderOK
    <3> QED
      BY <3>1, <3>2
  <2>4. Launched(c)' => Launched(c)
    <3>1. j \in Unrun
      BY <1>4, <1>5 DEF Unrun
    <3>2. HasAnswered(c)' => Launched(c)
      BY <1>10, <2>3, <3>1 DEF Launched
    <3> QED
      BY <1>7, <2>2, <3>2 DEF Launched
  <2>5. Launched(c)' => \A k \in jobs' : k.client = c => Current(k)'
    BY <1>2, <2>1, <2>2, <2>4 DEF OrderOK
  <2>6. \A i, k \in DOMAIN lane' :
          i < k /\ lane'[i].client = c /\ lane'[k].client = c /\ Current(lane[i])' => Current(lane[k])'
    <3> SUFFICES ASSUME NEW i \in DOMAIN lane', NEW k \in DOMAIN lane', i < k,
                        lane'[i].client = c, lane'[k].client = c, Meets(lane'[i], asked[c])
                 PROVE  Meets(lane'[k], asked[c])
      BY <1>3 DEF Current
    <3>1. /\ i + 1 \in DOMAIN lane /\ lane'[i] = lane[i + 1] /\ i \in Nat
          /\ k + 1 \in DOMAIN lane /\ lane'[k] = lane[k + 1] /\ k \in Nat
      BY <1>1, <1>2, LaneTail
    <3>2. i + 1 < k + 1
      BY <3>1
    <3> QED
      BY <2>1, <3>1, <3>2 DEF OrderOK, Current
  <2>7. HasAnswered(c)' => \A k \in InLane' : k.client = c => Current(k)'
    <3> SUFFICES ASSUME Current(j), NEW k \in InLane', k.client = c PROVE Current(k)
      BY <2>2, <2>3
    <3>1. PICK i \in DOMAIN lane' : k = lane'[i]
      BY DEF InLane
    <3> QED
      BY <1>4, <1>5, <1>10, <2>1, <3>1 DEF OrderOK
  <2>8. HasAnswered(c)' => NodeHas(c)'
    BY <1>1, <1>3, <1>6, <1>10, <2>3, ApplyOwn
  <2> QED
    BY <2>5, <2>6, <2>7, <2>8 DEF OrderOK
<1>11. \A c \in Clients : c \in excused' \/ OrderOK(c)'
  BY <1>9, <1>10
<1>12. \A o \in Operators : GoesOn(flow[o], flow'[o])
  BY <1>3, IdleRequest
<1> QED
  BY <1>3, <1>6, <1>7, <1>8, <1>11, <1>12, SameTime, InvFrom

\* The initial state.
LEMMA ClientInitInv ==
  ASSUME ClientInit
  PROVE  ClientInv
<1>1. /\ now = 1 /\ flow = [o \in Operators |-> Idle]
      /\ jobs = {} /\ effects = {} /\ lane = <<>> /\ ran = {} /\ results = {}
      /\ holder = Deployed /\ user = [owner |-> Deployed, ver |-> 1]
  BY DEF ClientInit
<1>2. \A c \in Clients : /\ row[c].phase = "live" <=> c = Deployed
                         /\ row[c].ver = IF c = Deployed THEN 1 ELSE 0
  BY DEF ClientInit
<1>3. \A c \in Clients : dep[c].st = "succeeded" <=> c = Deployed
  BY DEF ClientInit, NoDep
<1>4. \A c \in Clients : asked[c].ver = row[c].ver /\ asked[c].at = row[c].ver
  BY DEF ClientInit
<1>5. Unrun = {} /\ Replies = {} /\ AllJobs = {} /\ InLane = {} /\ DOMAIN lane = {}
  BY <1>1 DEF Unrun, Replies, AllJobs, InLane
<1>6. MarksOK
  <2>1. \A o \in Operators : Unsaved(flow[o]) = {} /\ flow[o].pc # "read"
    BY <1>1, EmptyFacts DEF Unsaved
  <2>2. \A c \in Clients : \A t : Marked(c, t) => t = asked[c].at
    BY <1>5, <2>1 DEF Marked
  <2> QED
    BY <1>1, <1>2, <1>4, <2>1, <2>2 DEF MarksOK
<1>7. RegistryOK
  BY <1>1 DEF RegistryOK
<1>8. RivalsOK
  BY <1>2, <1>4 DEF RivalsOK, Absent
<1>9. \A c \in Clients : OrderOK(c)
  <2> SUFFICES ASSUME NEW c \in Clients, HasAnswered(c) PROVE NodeHas(c)
    BY <1>1, <1>5 DEF OrderOK
  <2>1. c = Deployed
    BY <1>1, <1>3, <1>5, IdleRequest DEF HasAnswered
  <2> QED
    BY <1>1, <1>2, <1>4, <2>1 DEF NodeHas, Absent
<1> QED
  BY <1>6, <1>7, <1>8, <1>9 DEF ClientInv

\* A stutter.
LEMMA ClientStutterInv ==
  ASSUME ClientTypeInv, ClientInv, UNCHANGED clientVars
  PROVE  ClientInv'
BY SameTime, NothingMoves DEF clientVars, agentVars

\* Every step keeps the invariant.
LEMMA ClientInvStep ==
  ASSUME ClientTypeInv, ClientInv, [ClientNext]_clientVars
  PROVE  ClientInv'
<1>1. CASE UNCHANGED clientVars
  BY <1>1, ClientStutterInv
<1>2. ASSUME NEW o \in Operators, NEW c \in Clients, NEW req \in Requests \ {"move"}, FlowReads(o, c, req)
      PROVE  ClientInv'
  BY <1>2, FlowReadsInv
<1>3. ASSUME NEW o \in Operators, NodeMoves(o) PROVE ClientInv'
  BY <1>3, NodeMovesInv
<1>4. ASSUME NEW o \in Operators, FlowSteps(o) PROVE ClientInv'
  BY <1>4, FlowSavesInv, FlowEndsInv, FlowEnqueuesInv, FlowNoJobInv, TopologySavesInv,
     TopologySaveFailsInv DEF FlowSteps
<1>5. CASE Reconciling
  BY <1>5, PassListsInv DEF Reconciling
<1>6. ASSUME NEW p \in Passes, PassSteps(p) PROVE ClientInv'
  BY <1>6, PassInv, PassEnqueuesInv DEF PassSteps
<1>7. ASSUME NEW c \in Clients, ThrottleLapses(c) PROVE ClientInv'
  BY <1>7, ThrottleInv
<1>8. CASE ResultSteps
  BY <1>8, ReceiveResultInv, RecordInv, ExpiryWritesInv, NotPersistedInv DEF ResultSteps
<1>9. CASE AgentSteps
  BY <1>9, DeliverInv, RunJobInv, RunJobFailsInv DEF AgentSteps
<1>10. CASE AnswersAgain
  BY <1>10, AnswerAgainInv DEF AnswersAgain
<1>11. ASSUME NEW j \in jobs, JobExpires(j) \/ LaneFull(j) PROVE ClientInv'
  BY <1>11, JobExpiresInv, LaneFullInv
<1>12. ASSUME NEW r \in results, LoseResult(r) PROVE ClientInv'
  BY <1>12, LoseResultInv
<1>13. CASE PanelRestarts \/ AgentRestarts
  BY <1>13, PanelRestartsInv, AgentRestartsInv
<1> QED
  BY <1>1, <1>2, <1>3, <1>4, <1>5, <1>6, <1>7, <1>8, <1>9, <1>10, <1>11, <1>12, <1>13 DEF ClientNext

(***************************************************************************)
(* What the panel reports as succeeded is on the node, or its client was   *)
(* hit by one of the races named in ClientFlow since its last save: for    *)
(* every number of clients that ask for the name, of requests and passes   *)
(* that overlap, of restarts, expiries and lost or repeated results.       *)
(***************************************************************************)
THEOREM SucceededCorrect == ClientSpec => []SucceededIsTrue
<1>1. ClientInit => ClientTypeInv /\ ClientInv
  BY ClientInitTypes, ClientInitInv
<1>2. ClientTypeInv /\ ClientInv /\ [ClientNext]_clientVars => ClientTypeInv' /\ ClientInv'
  BY ClientTypesStep, ClientInvStep
<1>3. ClientInv => SucceededIsTrue
  BY SuccessAnswers DEF ClientInv, OrderOK, SucceededIsTrue
<1> QED
  BY <1>1, <1>2, <1>3, PTL DEF ClientSpec
=============================================================================
