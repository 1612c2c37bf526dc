---- MODULE MCBackground ----
(***************************************************************************)
(* The background loops of the panel for TLC: a behaviour is one of the    *)
(* batch writer, of the webhook worker, of the client reconciler, of the   *)
(* transport switch or of the rollout worker, under the fairness of that   *)
(* part; the other parts rest in an initial state.                         *)
(***************************************************************************)
EXTENDS BatchWriter, Webhooks, ClientFlow, TransportSwitch, ConfigRollout

VARIABLE part

loopVars == <<batchVars, webhookVars, clientVars, switchVars, rolloutVars, part>>

BatchPart(A) ==
  part = "batch" /\ A /\ UNCHANGED <<webhookVars, clientVars, switchVars, rolloutVars, part>>
WebhookPart(A) ==
  part = "webhooks" /\ A /\ UNCHANGED <<batchVars, clientVars, switchVars, rolloutVars, part>>
ClientPart(A) ==
  part = "clients" /\ A /\ UNCHANGED <<batchVars, webhookVars, switchVars, rolloutVars, part>>
SwitchPart(A) ==
  part = "switch" /\ A /\ UNCHANGED <<batchVars, webhookVars, clientVars, rolloutVars, part>>
RolloutPart(A) ==
  part = "rollout" /\ A /\ UNCHANGED <<batchVars, webhookVars, clientVars, switchVars, part>>

LoopInit ==
  /\ BatchInit /\ WebhookInit /\ ClientInit /\ SwitchInit /\ RolloutInit
  /\ part \in {"batch", "webhooks", "clients", "switch", "rollout"}
  /\ part # "switch" => routes = Modes /\ wanted = "inbound"

LoopNext ==
  \/ BatchPart(BatchNext) \/ WebhookPart(WebhookNext) \/ ClientPart(ClientNext)
  \/ SwitchPart(SwitchNext) \/ RolloutPart(RolloutNext)

LoopFairness ==
  /\ \A s \in Streams : /\ WF_loopVars(BatchPart(Draining(s)))
                        /\ WF_loopVars(BatchPart(Writing(s)))
  /\ WF_loopVars(WebhookPart(ClaimReady)) /\ WF_loopVars(WebhookPart(Delivering))
  /\ \A d \in Deliveries : WF_loopVars(WebhookPart(BackoffLapses(d)))
  /\ \A o \in Operators : WF_loopVars(ClientPart(FlowSteps(o)))
  /\ \A p \in Passes : WF_loopVars(ClientPart(PassSteps(p)))
  /\ \A c \in Clients : WF_loopVars(ClientPart(ThrottleLapses(c)))
  /\ WF_loopVars(ClientPart(Reconciling)) /\ WF_loopVars(ClientPart(ResultSteps))
  /\ WF_loopVars(ClientPart(AgentSteps)) /\ WF_loopVars(ClientPart(AnswersAgain))
  /\ WF_loopVars(SwitchPart(PutSteps)) /\ WF_loopVars(SwitchPart(LoopSteps))
  /\ WF_loopVars(SwitchPart(OnAgentSessionEstablished))
  /\ WF_loopVars(SwitchPart(WindowLapses)) /\ WF_loopVars(SwitchPart(ManagerStart))
  /\ WF_loopVars(RolloutPart(Worker))
  /\ \A b \in Batches, h \in Hosts : WF_loopVars(RolloutPart(JobEnding(b, h)))

LoopSpec == LoopInit /\ [][LoopNext]_loopVars /\ LoopFairness
====
