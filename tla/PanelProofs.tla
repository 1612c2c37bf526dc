----------------------------- MODULE PanelProofs ----------------------------
(***************************************************************************)
(* The panel as MCPanel puts it together, for all values of the constants: *)
(* every behaviour of it is one of each part, whatever part runs, and it   *)
(* keeps the types and the safety invariants of all of them.               *)
(***************************************************************************)
EXTENDS MCPanel, StoreProofs, ClientUsageProofs, ClientFlowProofs, ConfigRolloutProofs,
        AgentSideProofs

\* The nine specifications without their fairness.
PartsSafe ==
  /\ BatchInit /\ [][BatchNext]_batchVars
  /\ AuditInit /\ [][AuditNext]_auditVars
  /\ WebhookInit /\ [][WebhookNext]_webhookVars
  /\ UsageInit /\ [][UsageNext]_usageVars
  /\ ClientInit /\ [][ClientNext]_clientVars
  /\ CertInit /\ [][CertNext]_certVars
  /\ SwitchInit /\ [][SwitchNext]_switchVars
  /\ RolloutInit /\ [][RolloutNext]_rolloutVars
  /\ UpdateInit /\ [][UpdateNext]_updateVars

Parts == {"batch", "audit", "webhooks", "usage", "clients", "certs", "switch", "rollout", "update"}

\* A step of the panel is a step of one part and a stutter of the others.
LEMMA PanelStep ==
  ASSUME [PanelNext]_panelParts
  PROVE  /\ [BatchNext]_batchVars /\ [AuditNext]_auditVars /\ [WebhookNext]_webhookVars
         /\ [UsageNext]_usageVars /\ [ClientNext]_clientVars /\ [CertNext]_certVars
         /\ [SwitchNext]_switchVars /\ [RolloutNext]_rolloutVars /\ [UpdateNext]_updateVars
         /\ part' = part
BY DEF PanelNext, panelParts

\* A behaviour of the panel is a behaviour of each of its parts.
LEMMA PanelImplementsParts == PanelSpec => PartsSafe
<1>1. PanelInit => /\ BatchInit /\ AuditInit /\ WebhookInit /\ UsageInit /\ ClientInit
                   /\ CertInit /\ SwitchInit /\ RolloutInit /\ UpdateInit
  BY DEF PanelInit
<1> QED
  BY <1>1, PanelStep, PTL DEF PanelSpec, PartsSafe

\* The parts keep their types.
LEMMA PartsTypes ==
  PartsSafe => [](/\ BatchTypeOK /\ AuditTypeOK /\ WebhookTypeOK /\ UsageTypeOK /\ ClientTypeOK
                  /\ CertTypeOK /\ SwitchTypeOK /\ RolloutTypeOK /\ UpdateTypeOK)
<1>1. BatchInit /\ [][BatchNext]_batchVars => []BatchTypeOK
  BY BatchTypeInit, BatchTypeStep, PTL
<1>2. AuditInit /\ [][AuditNext]_auditVars => []AuditTypeOK
  BY AuditTypeCorrect DEF AuditSpec
<1>3. WebhookInit /\ [][WebhookNext]_webhookVars => []WebhookTypeOK
  <2>1. WebhookInv => WebhookTypeOK
    BY DEF WebhookInv
  <2> QED
    BY <2>1, WebhookInvInit, WebhookInvStep, PTL
<1>4. UsageInit /\ [][UsageNext]_usageVars => []UsageTypeOK
  BY UsageTypeCorrect DEF UsageSpec
<1>5. ClientInit /\ [][ClientNext]_clientVars => []ClientTypeOK
  <2>1. ClientTypeInv => ClientTypeOK
    BY TypesAreOK
  <2> QED
    BY <2>1, ClientInitTypes, ClientTypesStep, PTL
<1>6. CertInit /\ [][CertNext]_certVars => []CertTypeOK
  BY CertTypeCorrect DEF CertSpec
<1>7. SwitchInit /\ [][SwitchNext]_switchVars => []SwitchTypeOK
  BY SwitchTypeCorrect DEF SwitchSpec
<1>8. RolloutInit /\ [][RolloutNext]_rolloutVars => []RolloutTypeOK
  BY RolloutTypeCorrect DEF RolloutSpec
<1>9. UpdateInit /\ [][UpdateNext]_updateVars => []UpdateTypeOK
  BY UpdateTypeCorrect DEF UpdateSpec
<1> QED
  BY <1>1, <1>2, <1>3, <1>4, <1>5, <1>6, <1>7, <1>8, <1>9, PTL DEF PartsSafe

\* Whichever part runs keeps its types and its bounds: the capacities of buffers, queues
\* and batches, the statuses of rows, the certificates, modes and files that exist.
THEOREM PanelTypesCorrect == PanelSpec => []PanelTypeOK
<1>1. PanelInit => part \in Parts
  BY DEF PanelInit, Parts
<1>2. part \in Parts /\ [PanelNext]_panelParts => (part \in Parts)'
  BY PanelStep
<1>3. PanelSpec => [](part \in Parts)
  BY <1>1, <1>2, PTL DEF PanelSpec
<1>4. /\ part \in Parts
      /\ BatchTypeOK /\ AuditTypeOK /\ WebhookTypeOK /\ UsageTypeOK /\ ClientTypeOK
      /\ CertTypeOK /\ SwitchTypeOK /\ RolloutTypeOK /\ UpdateTypeOK
      => PanelTypeOK
  BY DEF Parts, PanelTypeOK
<1> QED
  BY <1>3, <1>4, PanelImplementsParts, PartsTypes, PTL

(***************************************************************************)
(* What the parts promise holds of the panel they make up: what the batch  *)
(* writer, the audit trail and the outbox write is in order and accounted  *)
(* for, usage is charged once, a reported success of a client or a rollout *)
(* is true, and agents keep a usable certificate, a way back to their last *)
(* transport and a working Telemt.                                         *)
(***************************************************************************)
THEOREM PanelSafe ==
  PanelSpec => /\ [](/\ FallbackOrder /\ NoSilentLoss /\ NeighboursLink /\ DeadIsEarned
                     /\ ChargedOnce /\ LostReportsCatchUp /\ SucceededIsTrue
                     /\ HeldStaysUsable /\ FallbackIsProven
                     /\ BatchSucceededIsApplied /\ LostIsTrue
                     /\ WorkingBinaryKept /\ EndsInstalled)
               /\ GoneStaysGone /\ AtLeastOnce /\ PresenterNeverEvicted
<1>1. BatchInit /\ [][BatchNext]_batchVars => []FallbackOrder /\ GoneStaysGone
  <2>1. OrderInv => FallbackOrder
    BY DEF OrderInv
  <2> QED
    BY <2>1, OrderInit, OrderStep, GoneSafe, PTL
<1>2. AuditInit /\ [][AuditNext]_auditVars => []NoSilentLoss /\ []NeighboursLink
  BY NothingLostSilently, NeighboursAlwaysLink, PTL DEF AuditSpec
<1>3. WebhookInit /\ [][WebhookNext]_webhookVars => []DeadIsEarned /\ AtLeastOnce
  <2>1. WebhookInv => DeadIsEarned
    BY DEF WebhookInv
  <2> QED
    BY <2>1, WebhookInvAlways, OutboxSafe, PTL
<1>4. UsageInit /\ [][UsageNext]_usageVars => []ChargedOnce /\ []LostReportsCatchUp
  BY UsageChargedOnce, UsageCatchesUp, PTL DEF UsageSpec
<1>5. ClientInit /\ [][ClientNext]_clientVars => []SucceededIsTrue
  <2>1. ClientInit => ClientTypeInv /\ ClientInv
    BY ClientInitTypes, ClientInitInv
  <2>2. ClientTypeInv /\ ClientInv /\ [ClientNext]_clientVars => ClientTypeInv' /\ ClientInv'
    BY ClientTypesStep, ClientInvStep
  <2>3. ClientInv => SucceededIsTrue
    BY SuccessAnswers DEF ClientInv, OrderOK, SucceededIsTrue
  <2> QED
    BY <2>1, <2>2, <2>3, PTL
<1>6. CertInit /\ [][CertNext]_certVars => []HeldStaysUsable /\ PresenterNeverEvicted
  BY HeldAlwaysUsable, PresenterKept, PTL DEF CertSpec
<1>7. SwitchInit /\ [][SwitchNext]_switchVars => []FallbackIsProven
  BY FallbackAlwaysProven, PTL DEF SwitchSpec
<1>8. RolloutInit /\ [][RolloutNext]_rolloutVars => []BatchSucceededIsApplied /\ []LostIsTrue
  BY RolloutSucceededApplied, RolloutLostTrue, PTL DEF RolloutSpec
<1>9. UpdateInit /\ [][UpdateNext]_updateVars => []WorkingBinaryKept /\ []EndsInstalled
  BY WorkingBinaryAlwaysKept, UpdateEndsInstalled, PTL DEF UpdateSpec
<1> QED
  BY <1>1, <1>2, <1>3, <1>4, <1>5, <1>6, <1>7, <1>8, <1>9, PanelImplementsParts, PTL DEF PartsSafe
=============================================================================
