---- MODULE MCPanel ----
(***************************************************************************)
(* The panel's flows and stores for TLC: a behaviour is one of one part,   *)
(* BatchWriter, AuditTrail, Webhooks, ClientUsage, ClientFlow,             *)
(* CertRotation, TransportSwitch, ConfigRollout or TelemtUpdate; the       *)
(* others rest in an initial state.                                        *)
(***************************************************************************)
EXTENDS BatchWriter, AuditTrail, Webhooks, ClientUsage, ClientFlow, CertRotation,
        TransportSwitch, ConfigRollout, TelemtUpdate

VARIABLE part

panelParts == <<batchVars, auditVars, webhookVars, usageVars, clientVars, certVars,
                switchVars, rolloutVars, updateVars, part>>

PanelInit ==
  /\ BatchInit /\ AuditInit /\ WebhookInit /\ UsageInit /\ ClientInit /\ CertInit
  /\ SwitchInit /\ RolloutInit /\ UpdateInit
  /\ part \in {"batch", "audit", "webhooks", "usage", "clients", "certs", "switch",
               "rollout", "update"}
  /\ part # "usage" => real = 0
  /\ part # "certs" => transport = "dial"
  /\ part # "switch" => routes = Modes /\ wanted = "inbound"
  /\ part # "update" => sound = Versions

PanelNext ==
  \/ /\ part = "batch" /\ BatchNext
     /\ UNCHANGED <<auditVars, webhookVars, usageVars, clientVars,
                    certVars, switchVars, rolloutVars, updateVars, part>>
  \/ /\ part = "audit" /\ AuditNext
     /\ UNCHANGED <<batchVars, webhookVars, usageVars, clientVars,
                    certVars, switchVars, rolloutVars, updateVars, part>>
  \/ /\ part = "webhooks" /\ WebhookNext
     /\ UNCHANGED <<batchVars, auditVars, usageVars, clientVars,
                    certVars, switchVars, rolloutVars, updateVars, part>>
  \/ /\ part = "usage" /\ UsageNext
     /\ UNCHANGED <<batchVars, auditVars, webhookVars, clientVars,
                    certVars, switchVars, rolloutVars, updateVars, part>>
  \/ /\ part = "clients" /\ ClientNext
     /\ UNCHANGED <<batchVars, auditVars, webhookVars, usageVars,
                    certVars, switchVars, rolloutVars, updateVars, part>>
  \/ /\ part = "certs" /\ CertNext
     /\ UNCHANGED <<batchVars, auditVars, webhookVars, usageVars,
                    clientVars, switchVars, rolloutVars, updateVars, part>>
  \/ /\ part = "switch" /\ SwitchNext
     /\ UNCHANGED <<batchVars, auditVars, webhookVars, usageVars,
                    clientVars, certVars, rolloutVars, updateVars, part>>
  \/ /\ part = "rollout" /\ RolloutNext
     /\ UNCHANGED <<batchVars, auditVars, webhookVars, usageVars,
                    clientVars, certVars, switchVars, updateVars, part>>
  \/ /\ part = "update" /\ UpdateNext
     /\ UNCHANGED <<batchVars, auditVars, webhookVars, usageVars,
                    clientVars, certVars, switchVars, rolloutVars, part>>

\* The types and the bounds of the part that runs: the capacities of buffers, queues
\* and batches, the statuses rows may have, which certificates, modes and files exist.
PanelTypeOK ==
  CASE part = "batch" -> BatchTypeOK
    [] part = "audit" -> AuditTypeOK
    [] part = "webhooks" -> WebhookTypeOK
    [] part = "usage" -> UsageTypeOK
    [] part = "clients" -> ClientTypeOK
    [] part = "certs" -> CertTypeOK
    [] part = "switch" -> SwitchTypeOK
    [] part = "rollout" -> RolloutTypeOK
    [] part = "update" -> UpdateTypeOK

PanelSpec == PanelInit /\ [][PanelNext]_panelParts
====
