---- MODULE TransportSwitch ----
(***************************************************************************)
(* Switching one agent between its two transports.  In mode "dial" the     *)
(* agent dials the panel (the panel's row says "inbound"); in mode         *)
(* "listen" a supervisor of the panel dials the agent ("outbound").  An    *)
(* operator's PUT stores the wanted mode, queues a switch job and starts   *)
(* or stops the supervisor; the agent writes the job's mode to disk beside *)
(* the mode it leaves, reconnects, and goes back to the mode it left when  *)
(* no session comes up within a probation window.  A session in the wrong  *)
(* direction makes the panel queue the switch again.                       *)
(*                                                                         *)
(* The job's way through the queue is JobService and AgentJobs; here it is *)
(* queued, may expire, and is run once.  `routes' are the modes in which   *)
(* the network lets the two sides meet.                                    *)
(***************************************************************************)
EXTENDS Integers, Sequences

CONSTANTS
  JobCap,        \* bound: switch jobs queued at a time
  MaxPuts,       \* bound: PUTs of the operator
  MaxUnluck      \* bound: faults

ASSUME SwitchAssumption ==
  JobCap \in Nat \ {0} /\ {MaxPuts, MaxUnluck} \subseteq Nat

VARIABLES
  routes,    \* the agent modes that can work
  wanted,    \* agents.transport_mode in the store
  live,      \* DialTransportMode of the live snapshot
  dialer,    \* an outbound supervisor exists
  panel,     \* "up" or "down"
  put,       \* progress of the PUT in hand
  orders,    \* switch jobs not yet run, as agent modes
  throttle,  \* a drift job was queued within its TTL
  session,   \* "none" or the direction of the session
  admitted,  \* the panel has taken the session in
  bounded,   \* the session was opened under a probation deadline
  loop,      \* reconnect loop: "top", "connecting", "opened" or "serving"
  file,      \* state file: mode and the mode it left ("none")
  creds,     \* Loop.Credentials: the same two fields
  pending,   \* TransportReload.pending
  window,    \* probation window of the last switch: "open" or "lapsed"
  proven,    \* the mode of the last session the agent settled in
  puts, unluck,
  spoilt     \* "half": a PUT stored the row and failed to queue the job,
             \* or queued it and failed to tell the transport manager;
             \* "clear": a cleared probation was not written to disk;
             \* "crossed": the mode changed twice before a session tried it

switchVars == <<routes, wanted, live, dialer, panel, put, orders, throttle, session,
                admitted, bounded, loop, file, creds, pending, window, proven, puts, unluck, spoilt>>

panelSide == <<wanted, live, dialer, panel, put, puts>>
agentSide == <<file, creds, pending, window, spoilt>>

Modes == {"dial", "listen"}
Directions == {"inbound", "outbound"}
DirectionOf(m) == IF m = "dial" THEN "inbound" ELSE "outbound"

\* The job carries the agent's name of the mode, not the row's.
AgentMode(direction) == IF direction = "outbound" THEN "listen" ELSE "dial"

NoPut == "none"

SwitchInit ==
  /\ \E m \in Modes :
       /\ routes \in {r \in SUBSET Modes : m \in r}
       /\ wanted = DirectionOf(m) /\ live = DirectionOf(m)
       /\ dialer = (m = "listen")
       /\ file = [mode |-> m, prev |-> "none"]
       /\ creds = [mode |-> m, prev |-> "none"]
       /\ proven = m
  /\ panel = "up" /\ put = NoPut /\ orders = <<>> /\ throttle = FALSE
  /\ session = "none" /\ admitted = FALSE /\ bounded = FALSE /\ loop = "top"
  /\ pending = FALSE /\ window = "open"
  /\ puts = 0 /\ unluck = 0 /\ spoilt = {}

Unlucky == unluck < MaxUnluck /\ unluck' = unluck + 1

Queued(m) == IF Len(orders) < JobCap THEN Append(orders, m) ELSE orders

\* A session that ends leaves the agent at the top of its loop.
SessionEnds ==
  session' = "none" /\ admitted' = FALSE /\ bounded' = FALSE /\ loop' = "top"

KeepSession == UNCHANGED <<session, admitted, bounded, loop>>

(***************************************************************************)
(* The PUT handler: store, queue the job, update the snapshot, tell the    *)
(* transport manager.  One PUT runs at a time.                             *)
(***************************************************************************)
UpdateAgentTransportMode(d) ==
  /\ panel = "up" /\ put = NoPut /\ puts < MaxPuts
  /\ wanted' = d /\ puts' = puts + 1 /\ put' = "stored"
  /\ KeepSession
  /\ UNCHANGED <<routes, live, dialer, panel, orders, throttle, proven, unluck, agentSide>>

\* A failed enqueue answers 500 and leaves the row switched.
enqueueTransportSwitchJob ==
  /\ panel = "up" /\ put = "stored"
  /\ \/ orders' = Queued(AgentMode(wanted)) /\ put' = "queued" /\ UNCHANGED unluck
        /\ UNCHANGED spoilt
     \/ Unlucky /\ put' = NoPut /\ spoilt' = spoilt \cup {"half"} /\ UNCHANGED orders
  /\ KeepSession
  /\ UNCHANGED <<routes, wanted, live, dialer, panel, throttle, proven, puts,
                 file, creds, pending, window>>

updateAgentIdentity ==
  /\ panel = "up" /\ put = "queued"
  /\ live' = wanted /\ put' = "told"
  /\ KeepSession
  /\ UNCHANGED <<routes, wanted, dialer, panel, orders, throttle, proven, puts, unluck, agentSide>>

\* Removing the supervisor cancels the session it serves.  A row that cannot
\* be read leaves supervisor and session as they are.
OnNodeChanged ==
  /\ panel = "up" /\ put = "told"
  /\ put' = NoPut
  /\ \/ /\ dialer' = (wanted = "outbound")
        /\ IF wanted = "inbound" /\ session = "outbound" THEN SessionEnds ELSE KeepSession
        /\ UNCHANGED <<unluck, spoilt>>
     \/ /\ Unlucky /\ spoilt' = spoilt \cup {"half"}
        /\ KeepSession /\ UNCHANGED dialer
  /\ UNCHANGED <<routes, wanted, live, panel, orders, throttle, proven, puts,
                 file, creds, pending, window>>

(***************************************************************************)
(* A stream comes up.  The agent clears its probation; the panel, on its   *)
(* own, compares the direction with the snapshot and queues the switch     *)
(* again when they differ, once per job TTL of an uninterrupted drift.     *)
(* Either side may be gone before it gets to it.                           *)
(***************************************************************************)
CanConnect ==
  /\ panel = "up" /\ creds.mode \in routes
  /\ creds.mode = "listen" => dialer

Connects ==
  /\ loop = "connecting" /\ CanConnect
  /\ session' = DirectionOf(creds.mode) /\ loop' = "opened"
  /\ bounded' = (creds.prev # "none")
  /\ UNCHANGED <<routes, panelSide, orders, throttle, admitted, proven, unluck, agentSide>>

\* A clear that cannot be saved holds in memory.
probationClear ==
  /\ loop = "opened" /\ loop' = "serving"
  /\ proven' = creds.mode
  /\ creds' = [creds EXCEPT !.prev = "none"]
  /\ IF creds.prev = "none"
     THEN UNCHANGED <<file, spoilt, unluck>>
     ELSE \/ file' = [file EXCEPT !.prev = "none"] /\ UNCHANGED <<spoilt, unluck>>
          \/ Unlucky /\ spoilt' = spoilt \cup {"clear"} /\ UNCHANGED file
  /\ UNCHANGED <<routes, panelSide, orders, throttle, session, admitted, bounded, pending, window>>

OnAgentSessionEstablished ==
  /\ session # "none" /\ ~admitted /\ admitted' = TRUE
  /\ IF session = live
     THEN throttle' = FALSE /\ UNCHANGED orders
     ELSE /\ throttle' = TRUE
          /\ orders' = IF throttle THEN orders ELSE Queued(AgentMode(live))
  /\ UNCHANGED <<routes, panelSide, session, bounded, loop, proven, unluck, agentSide>>

\* Mutant: a listener on probation is not bounded.
AcceptUnbounded == FALSE

\* The context of the accept or dial carries the end of the probation
\* window: it wakes a waiting agent and cuts a session opened under it.
AcceptBounded == creds.prev # "none" /\ window = "lapsed"

ProbationDeadline ==
  /\ \/ loop = "connecting" /\ AcceptBounded
     \/ session # "none" /\ bounded /\ window = "lapsed"
  /\ SessionEnds
  /\ UNCHANGED <<routes, panelSide, orders, throttle, proven, unluck, agentSide>>

\* A dial that cannot succeed returns to the loop; a listener just waits.
DialFails ==
  /\ loop = "connecting" /\ creds.mode = "dial" /\ ~CanConnect
  /\ SessionEnds
  /\ UNCHANGED <<routes, panelSide, orders, throttle, proven, unluck, agentSide>>

(***************************************************************************)
(* The agent's loop and the switch job.                                    *)
(***************************************************************************)
\* A state file that cannot be read leaves the loop with what it had.
takePending ==
  /\ loop = "top" /\ pending /\ pending' = FALSE
  /\ \/ creds' = file /\ UNCHANGED unluck
     \/ Unlucky /\ UNCHANGED creds
  /\ KeepSession
  /\ UNCHANGED <<routes, panelSide, orders, throttle, file, window, proven, spoilt>>

RevertDue == creds.prev # "none" /\ window = "lapsed"

\* A revert that cannot be saved holds in memory.
MaybeRevert ==
  /\ loop = "top" /\ ~pending /\ loop' = "connecting"
  /\ creds' = IF RevertDue THEN [mode |-> creds.prev, prev |-> "none"] ELSE creds
  /\ \/ file' = (IF RevertDue THEN creds' ELSE file) /\ UNCHANGED unluck
     \/ RevertDue /\ Unlucky /\ UNCHANGED file
  /\ UNCHANGED <<routes, panelSide, orders, throttle, session, admitted, bounded, pending,
                 window, proven, spoilt>>

\* Mutant: every switch job takes a new snapshot.
Snapshots(m) == TRUE

\* The mode being left is noted only when the mode changes.
Leaves(m) == file.mode # m

\* A failed write fails the job.
UpdateTransport ==
  /\ loop = "serving" /\ admitted /\ orders # <<>>
  /\ orders' = Tail(orders)
  /\ LET m == Head(orders)
     IN \/ /\ file' = [mode |-> m, prev |-> IF Leaves(m) THEN file.mode ELSE file.prev]
           /\ window' = IF Leaves(m) THEN "open" ELSE window
           /\ pending' = TRUE
           /\ spoilt' = IF file.mode # m /\ file.prev # "none" THEN spoilt \cup {"crossed"} ELSE spoilt
           /\ UNCHANGED unluck
        \/ Unlucky /\ UNCHANGED <<file, window, pending, spoilt>>
  /\ KeepSession
  /\ UNCHANGED <<routes, panelSide, throttle, creds, proven>>

\* 50 ms after the switch the connection is cancelled.
ReloadCancels ==
  /\ loop = "serving" /\ pending
  /\ SessionEnds
  /\ UNCHANGED <<routes, panelSide, orders, throttle, proven, unluck, agentSide>>

(***************************************************************************)
(* Time, and what goes wrong.  The window is ten minutes, the supervisor's *)
(* longest pause one: the window does not lapse on a side that can meet.   *)
(***************************************************************************)
WindowLapses ==
  /\ window = "open" /\ (creds.prev # "none" \/ file.prev # "none")
  /\ ~pending /\ (session # "none" \/ ~CanConnect)
  /\ window' = "lapsed"
  /\ KeepSession
  /\ UNCHANGED <<routes, panelSide, orders, throttle, proven, unluck, file, creds, pending, spoilt>>

\* transportSwitchJobTTL: a queued job expires; so does the drift throttle.
OrderExpires ==
  /\ orders # <<>> /\ orders' = Tail(orders)
  /\ KeepSession
  /\ UNCHANGED <<routes, panelSide, throttle, proven, unluck, agentSide>>

DriftThrottleLapses ==
  /\ throttle /\ throttle' = FALSE
  /\ KeepSession
  /\ UNCHANGED <<routes, panelSide, orders, proven, unluck, agentSide>>

SessionDrops ==
  /\ session # "none" /\ Unlucky /\ SessionEnds
  /\ UNCHANGED <<routes, panelSide, orders, throttle, proven, agentSide>>

AgentProcessRestarts ==
  /\ Unlucky /\ SessionEnds
  /\ creds' = file /\ pending' = FALSE
  /\ UNCHANGED <<routes, panelSide, orders, throttle, proven, file, window, spoilt>>

PanelStops ==
  /\ panel = "up" /\ Unlucky
  /\ panel' = "down" /\ put' = NoPut /\ dialer' = FALSE /\ throttle' = FALSE
  /\ IF session # "none" THEN SessionEnds ELSE KeepSession
  /\ UNCHANGED <<routes, wanted, live, orders, proven, puts, agentSide>>

\* The live snapshot is restored from the row, the supervisors from the rows
\* that say outbound.
ManagerStart ==
  /\ panel = "down" /\ panel' = "up"
  /\ live' = wanted /\ dialer' = (wanted = "outbound")
  /\ KeepSession
  /\ UNCHANGED <<routes, wanted, put, orders, throttle, proven, puts, unluck, agentSide>>

PutSteps == enqueueTransportSwitchJob \/ updateAgentIdentity \/ OnNodeChanged

LoopSteps ==
  \/ takePending \/ MaybeRevert \/ Connects \/ probationClear \/ ProbationDeadline
  \/ DialFails \/ UpdateTransport \/ ReloadCancels

SwitchNext ==
  \/ \E d \in Directions : UpdateAgentTransportMode(d)
  \/ PutSteps \/ LoopSteps \/ OnAgentSessionEstablished
  \/ WindowLapses \/ OrderExpires \/ DriftThrottleLapses
  \/ SessionDrops \/ AgentProcessRestarts \/ PanelStops \/ ManagerStart

\* The handlers and the loop run, the window and the panel's start are timers.
SwitchFairness ==
  /\ WF_switchVars(PutSteps) /\ WF_switchVars(LoopSteps)
  /\ WF_switchVars(OnAgentSessionEstablished)
  /\ WF_switchVars(WindowLapses) /\ WF_switchVars(ManagerStart)

SwitchSpec == SwitchInit /\ [][SwitchNext]_switchVars

SwitchLiveSpec == SwitchSpec /\ SwitchFairness

(***************************************************************************)
(* Properties.                                                             *)
(***************************************************************************)

\* Every variable has its type; in particular a switch job names a mode the
\* agent knows and never the row's name of it.
SwitchTypeOK ==
  /\ routes \subseteq Modes /\ proven \in Modes
  /\ {wanted, live} \subseteq Directions /\ panel \in {"up", "down"}
  /\ put \in {NoPut, "stored", "queued", "told"}
  /\ orders \in Seq(Modes) /\ Len(orders) <= JobCap
  /\ {throttle, admitted, bounded, dialer, pending} \subseteq BOOLEAN
  /\ session \in {"none"} \cup Directions /\ loop \in {"top", "connecting", "opened", "serving"}
  /\ {file, creds} \subseteq [mode : Modes, prev : {"none"} \cup Modes]
  /\ window \in {"open", "lapsed"}
  /\ puts \in 0 .. MaxPuts /\ unluck \in 0 .. MaxUnluck
  /\ spoilt \subseteq {"half", "clear", "crossed"}

\* The mode of the last session the agent settled in is the one in its state
\* file or the one the probation falls back to, through restarts at any point
\* (between a stream and its clear too), failed reloads, failed
\* reverts and repeated switch jobs: the agent does not forget the last
\* transport that worked.  Two things in UpdateTransport and probation.Clear
\* make it: a clear that was not written, and two opposite switch jobs run
\* in one session, of which the second notes the mode nobody tried.
FallbackIsProven ==
  spoilt \subseteq {"half"} => proven \in {file.mode, file.prev}

\* An agent sent to listen where the panel cannot reach it gets a session
\* again, without an operator, for as long as the row says outbound: the end
\* of the window wakes it, MaybeRevert brings it back to the mode it left.
\* (Unless its fallback was spoilt, or a PUT stored the row and then failed
\* before it told the transport manager.)  A session is one the panel took in.
SwitchedOutComesBack ==
  [](wanted = "outbound" /\ session = "none"
       => <>(admitted \/ wanted # "outbound" \/ spoilt # {}))

\* What the A2 comments rely on, the agent's probation as the durable safety
\* net of a switch: no agent is left listening, with nothing to fall back to,
\* while no supervisor of the panel will ever dial it.
SwitchHasSafetyNet ==
  ~(/\ creds.mode = "listen" /\ file = creds /\ creds.prev = "none"
    /\ session = "none" /\ ~pending
    /\ panel = "up" /\ put = NoPut /\ ~dialer)
====
