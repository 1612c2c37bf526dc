---- MODULE CertRotation ----
(***************************************************************************)
(* The certificate of one agent and the two places that must agree on it.  *)
(* The panel stores a pin for the newest certificate and, while a rotation *)
(* overlap is open, one for the certificate it replaced; everything else   *)
(* is refused.  The agent keeps one certificate on disk and one in the     *)
(* memory of its reconnect loop, and only the second is ever presented.    *)
(* A renewal is asked over the session (both modes), by a unary call       *)
(* before the session (dial mode), or over HTTP once the certificate has   *)
(* expired and an operator has granted a recovery.  The memory is read     *)
(* back from the disk when the process starts and, within a process, when  *)
(* the loop reloads its state after a transport switch job.                *)
(*                                                                         *)
(* A certificate is its serial, a position in `issued'; 0 is no serial.  A *)
(* key is numbered by the request that generated it.  Time is counted in   *)
(* units of the renewal window.  Of a transport switch only what changes   *)
(* the credentials is here; the switch itself is TransportSwitch.          *)
(***************************************************************************)
EXTENDS Integers, Sequences

CONSTANTS
  Lifetime,        \* agentCertificateLifetime
  RenewWindow,     \* how long before its expiry a certificate is renewed
  OverlapMax,      \* certOverlapMax
  MaxTime,         \* bound: the clock stops here
  MaxIssued,       \* bound: certificates the panel may issue
  MaxGrants,       \* bound: recovery grants an operator gives
  MaxSwitches,     \* bound: transport switch jobs the agent runs
  MaxSlips         \* bound: lost replies, failed writes, drops and restarts

ASSUME CertAssumption ==
  /\ {Lifetime, RenewWindow, OverlapMax} \subseteq Nat \ {0}
  /\ RenewWindow < Lifetime
  /\ RenewWindow <= OverlapMax
  /\ MaxIssued \in Nat \ {0} /\ {MaxTime, MaxGrants, MaxSwitches, MaxSlips} \subseteq Nat

VARIABLES
  transport, \* "dial": the agent dials the panel; "listen": the reverse
  issued,    \* every certificate issued: expiry and key
  pins,      \* the panel's row: newest serial, replaced serial, its deadline
  trial,     \* the transport is on probation: a mode to go back to is noted
  saved,     \* the same two in the agent's state file: mode and trial
  reload,    \* a switch job has run and its state is not loaded yet
  switches,  \* switch jobs run
  disk,      \* the certificate in the agent's state file
  held,      \* Loop.Credentials: the certificate the agent presents
  link,      \* "none", "closing" (authorised, overlap not yet closed), "open"
  call,      \* the renewal the agent waits for: its kind and key
  queue,     \* in-session requests the panel has not handled
  reply,     \* reply of a unary call or of a recovery, 0 for none
  slot,      \* renewalResponses, the one-place channel of the session
  keys,      \* keys generated
  grant,     \* an unused recovery grant exists
  grants,    \* recovery grants given
  clock,
  slips,     \* faults so far
  spoiled    \* what weakens the promise of the pins.  "pin": one was not
             \* written; "stale": a load brought back a certificate that
             \* was already replaced; "closed": the overlap was closed
             \* while the renewal it belongs to was still unanswered

certVars == <<transport, trial, saved, reload, switches, issued, pins, disk, held, link, call, queue, reply,
              slot, keys, grant, grants, clock, slips, spoiled>>

switching == <<transport, trial, saved, reload, switches>>

Other(mode) == IF mode = "dial" THEN "listen" ELSE "dial"

NoCall == [kind |-> "none", key |-> 0]

CertInit ==
  /\ transport \in {"dial", "listen"}
  /\ saved = [mode |-> transport, trial |-> FALSE]
  /\ trial = FALSE /\ reload = FALSE /\ switches = 0
  /\ issued = <<[expires |-> Lifetime, key |-> 0]>>
  /\ pins = [cur |-> 1, prev |-> 0, until |-> 0]
  /\ disk = 1 /\ held = 1
  /\ link = "none" /\ call = NoCall
  /\ queue = <<>> /\ reply = 0 /\ slot = 0 /\ keys = 0
  /\ grant = "none" /\ grants = 0
  /\ clock = 0 /\ slips = 0 /\ spoiled = {}

(***************************************************************************)
(* What the agent asks of a certificate, and what the panel makes of one.  *)
(***************************************************************************)
NeedsRefresh(c) == clock + RenewWindow >= issued[c].expires

needsRecovery(c) == issued[c].expires <= clock

VerdictAt(p, t, c) ==
  IF c = p.cur THEN "current"
  ELSE IF p.prev # 0 /\ c = p.prev /\ t < p.until THEN "previous"
  ELSE "unknown"

classifyPresentedSerial(c) == VerdictAt(pins, clock, c)

\* The deadline is computed after the new expiry was stored: it is the
\* expiry of the certificate just issued, clamped.
certOverlapDeadline(newExpiry) ==
  IF newExpiry < clock + OverlapMax THEN newExpiry ELSE clock + OverlapMax

\* Mutant: the pins are shifted whoever asked.
ShiftsAlways(new, presented, deadline) ==
  [cur |-> new, prev |-> pins.cur, until |-> deadline]

\* A renewal asked over the replaced certificate while its overlap is open
\* keeps that certificate and its deadline.
RotateAgentCert(new, presented, deadline) ==
  IF presented # 0 /\ presented = pins.prev /\ pins.until # 0
  THEN [pins EXCEPT !.cur = new]
  ELSE [cur |-> new, prev |-> pins.cur, until |-> deadline]

NextSerial == Len(issued) + 1

\* Mutant: the columns are written one by one.
TornPinWrite(new) == pins' = [pins EXCEPT !.cur = new]

\* A failed UPDATE leaves the three columns as they were.
PinWriteFails(new) == UNCHANGED pins

Slip == slips < MaxSlips /\ slips' = slips + 1

\* The panel signs a certificate for `key' and pins it; the pin is written
\* best-effort, and the certificate is handed out either way.
Issues(key, presented) ==
  LET new == NextSerial
      expires == clock + Lifetime
  IN /\ Len(issued) < MaxIssued
     /\ issued' = Append(issued, [expires |-> expires, key |-> key])
     /\ \/ /\ pins' = RotateAgentCert(new, presented, certOverlapDeadline(expires))
           /\ UNCHANGED <<slips, spoiled>>
        \/ Slip /\ spoiled' = spoiled \cup {"pin"} /\ PinWriteFails(new)

\* A session, its channel and the requests on it end together.
LinkGone == link' = "none" /\ queue' = <<>> /\ slot' = 0

KeepLink == UNCHANGED <<link, queue, slot>>

(***************************************************************************)
(* The stream.  An authorised stream with the newest certificate closes    *)
(* the overlap before the session starts; a stream also opens underneath   *)
(* a unary renewal.                                                        *)
(***************************************************************************)
MayPresent ==
  \/ call.kind = "unary"
  \/ call.kind = "none" /\ ~needsRecovery(held) /\ (transport = "listen" \/ ~NeedsRefresh(held))

ClosesOn(verdict) == verdict = "current" /\ pins.until # 0

AuthorizeAgentConnect ==
  /\ link = "none" /\ ~reload /\ MayPresent /\ ~needsRecovery(held)
  /\ classifyPresentedSerial(held) # "unknown"
  /\ link' = IF ClosesOn(classifyPresentedSerial(held)) THEN "closing" ELSE "open"
  /\ UNCHANGED <<switching, issued, pins, disk, held, call, queue, reply, slot, keys,
                 grant, grants, clock, slips, spoiled>>

CloseAgentCertOverlap ==
  /\ link = "closing"
  /\ link' = "open"
  /\ \/ /\ pins' = [pins EXCEPT !.prev = 0, !.until = 0]
        /\ spoiled' = IF held = pins.prev THEN spoiled \cup {"closed"} ELSE spoiled
        /\ UNCHANGED slips
     \/ Slip /\ UNCHANGED <<pins, spoiled>>
  /\ UNCHANGED <<switching, issued, disk, held, call, queue, reply, slot, keys,
                 grant, grants, clock>>

\* The connection breaks; a request waiting for its reply fails with it, and
\* a unary call on the same connection too.
Drops ==
  /\ link # "none" /\ Slip /\ LinkGone
  /\ call' = NoCall /\ reply' = 0
  /\ UNCHANGED <<switching, issued, pins, disk, held, keys, grant, grants, clock, spoiled>>

\* The revocation watcher of an open session re-checks the pin it rode in on.
ShouldTerminateForRevocation ==
  /\ link = "open" /\ call.kind # "unary"
  /\ classifyPresentedSerial(held) = "unknown"
  /\ LinkGone
  /\ call' = NoCall /\ reply' = 0
  /\ UNCHANGED <<switching, issued, pins, disk, held, keys, grant, grants, clock, slips, spoiled>>

(***************************************************************************)
(* Renewal over the session.                                               *)
(***************************************************************************)
RenewInStream ==
  /\ link = "open" /\ ~trial /\ call.kind = "none" /\ NeedsRefresh(held)
  /\ keys < MaxIssued
  /\ keys' = keys + 1
  /\ call' = [kind |-> "stream", key |-> keys + 1]
  /\ queue' = Append(queue, keys + 1)
  /\ UNCHANGED <<switching, issued, pins, disk, held, link, reply, slot, grant,
                 grants, clock, slips, spoiled>>

\* The pump puts the reply into the channel unless it is full.
HandleInStreamRenewalRequest ==
  /\ queue # <<>>
  /\ Issues(Head(queue), held)
  /\ queue' = Tail(queue)
  /\ slot' = IF slot = 0 THEN NextSerial ELSE slot
  /\ UNCHANGED <<switching, disk, held, link, call, reply, keys, grant, grants, clock>>

\* A reply for this key is saved and the session torn down: the loop keeps
\* the credentials the connection started with.  A reply for an earlier key,
\* or a save that fails, ends the attempt and not the session.
TakesReply ==
  /\ call.kind = "stream" /\ slot # 0
  /\ call' = NoCall
  /\ \/ /\ issued[slot].key = call.key
        /\ disk' = slot
        /\ LinkGone
        /\ UNCHANGED slips
     \/ /\ issued[slot].key # call.key
        /\ slot' = 0
        /\ UNCHANGED <<disk, link, queue, slips>>
     \/ /\ issued[slot].key = call.key
        /\ Slip
        /\ slot' = 0
        /\ UNCHANGED <<disk, link, queue>>
  /\ UNCHANGED <<switching, issued, pins, held, reply, keys, grant, grants, clock, spoiled>>

\* RefreshTimeout: the attempt is over, its reply may still arrive.
TimesOut ==
  /\ call.kind = "stream" /\ Slip
  /\ call' = NoCall
  /\ UNCHANGED <<switching, issued, pins, disk, held, link, queue, reply, slot, keys,
                 grant, grants, clock, spoiled>>

(***************************************************************************)
(* Renewal before the session, and recovery after the expiry.              *)
(***************************************************************************)
RenewIfNeeded ==
  /\ transport = "dial" /\ link = "none" /\ ~reload /\ call.kind = "none"
  /\ NeedsRefresh(held) /\ ~needsRecovery(held)
  /\ keys < MaxIssued
  /\ keys' = keys + 1
  /\ call' = [kind |-> "unary", key |-> keys + 1]
  /\ UNCHANGED <<switching, issued, pins, disk, held, link, queue, reply, slot,
                 grant, grants, clock, slips, spoiled>>

\* The unary call is not checked against the pins.
RenewAgentCertificate ==
  /\ call.kind = "unary" /\ reply = 0
  /\ Issues(call.key, held)
  /\ reply' = NextSerial
  /\ KeepLink
  /\ UNCHANGED <<switching, disk, held, call, keys, grant, grants, clock>>

recoverCredentials ==
  /\ link = "none" /\ ~reload /\ call.kind = "none" /\ needsRecovery(held)
  /\ keys < MaxIssued
  /\ keys' = keys + 1
  /\ call' = [kind |-> "recovery", key |-> keys + 1]
  /\ UNCHANGED <<switching, issued, pins, disk, held, link, queue, reply, slot,
                 grant, grants, clock, slips, spoiled>>

\* The grant is used up before the certificate is issued.
handleAgentCertificateRecovery ==
  /\ call.kind = "recovery" /\ reply = 0 /\ grant = "allowed"
  /\ grant' = "none"
  /\ Issues(call.key, 0)
  /\ reply' = NextSerial
  /\ KeepLink
  /\ UNCHANGED <<switching, disk, held, call, keys, grants, clock>>

handleCreateAgentCertificateRecoveryGrant ==
  /\ grant = "none" /\ grants < MaxGrants
  /\ grant' = "allowed" /\ grants' = grants + 1
  /\ UNCHANGED <<switching, issued, pins, disk, held, link, call, queue, reply, slot,
                 keys, clock, slips, spoiled>>

\* Both write the state file and then the memory of the loop.
SavesReply ==
  /\ call.kind \in {"unary", "recovery"} /\ reply # 0
  /\ disk' = reply /\ held' = reply
  /\ spoiled' = spoiled \ {"stale", "closed"}
  /\ call' = NoCall /\ reply' = 0
  /\ LinkGone
  /\ UNCHANGED <<switching, issued, pins, keys, grant, grants, clock, slips>>

\* No reply (refused, lost, timed out) or no save: the loop waits and starts
\* over with the certificate it has.
Fails ==
  /\ call.kind \in {"unary", "recovery"}
  /\ \/ call.kind = "recovery" /\ reply = 0 /\ grant = "none" /\ UNCHANGED slips
     \/ Slip
  /\ call' = NoCall /\ reply' = 0
  /\ LinkGone
  /\ UNCHANGED <<switching, issued, pins, disk, held, keys, grant, grants, clock, spoiled>>

(***************************************************************************)
(* A transport switch, and the two ways the loop's memory is read back     *)
(* from the state file.                                                    *)
(***************************************************************************)
\* The certificate in the state file is neither the one in use nor the
\* newest: a renewal that was asked after it was saved has replaced it.
DiskIsStale == disk \notin {held, pins.cur}

LoadsCertificate ==
  /\ held' = disk
  /\ spoiled' = IF DiskIsStale THEN spoiled \cup {"stale"} ELSE spoiled

\* The job patches the transport fields of the state file; when the mode
\* changes, the one it leaves is noted.  A write that fails fails the job.
RunsSwitchJob(mode) ==
  /\ link = "open" /\ ~trial /\ call.kind # "unary" /\ switches < MaxSwitches
  /\ switches' = switches + 1
  /\ saved' = [mode |-> mode, trial |-> saved.trial \/ mode # saved.mode]
  /\ reload' = TRUE
  /\ UNCHANGED <<transport, trial, issued, pins, disk, held, link, call, queue, reply, slot,
                 keys, grant, grants, clock, slips, spoiled>>

\* The job's timer cancels the connection.
ReloadDropsLink ==
  /\ reload /\ link = "open" /\ LinkGone
  /\ call' = NoCall /\ reply' = 0
  /\ UNCHANGED <<switching, issued, pins, disk, held, keys, grant, grants, clock, slips, spoiled>>

\* takePending: the whole bundle is loaded, the certificate included; a
\* state file that cannot be read leaves the loop with what it had.
ReloadsState ==
  /\ reload /\ link = "none" /\ call.kind = "none"
  /\ reload' = FALSE
  /\ \/ /\ LoadsCertificate
        /\ transport' = saved.mode /\ trial' = saved.trial
        /\ UNCHANGED slips
     \/ Slip /\ UNCHANGED <<held, transport, trial, spoiled>>
  /\ UNCHANGED <<saved, switches, issued, pins, disk, link, call, queue, reply, slot, keys,
                 grant, grants, clock>>

\* probation.Clear, at the start of a connection and before the agent serves
\* it; in dial mode the panel may not have looked at the stream yet.
ClearsProbation ==
  /\ trial /\ ~reload /\ call.kind = "none"
  /\ link # "none" \/ (transport = "dial" /\ MayPresent)
  /\ trial' = FALSE
  /\ \/ saved' = [saved EXCEPT !.trial = FALSE] /\ UNCHANGED slips
     \/ Slip /\ UNCHANGED saved
  /\ UNCHANGED <<transport, reload, switches, issued, pins, disk, held, link, call, queue,
                 reply, slot, keys, grant, grants, clock, spoiled>>

\* probation.MaybeRevert, when the window has lapsed without a session: the
\* transport fields are patched in memory and on disk, the certificate is not.
RevertsTransport ==
  /\ trial /\ ~reload /\ link = "none" /\ call.kind = "none"
  /\ transport' = Other(transport) /\ trial' = FALSE
  /\ \/ saved' = [mode |-> Other(transport), trial |-> FALSE] /\ UNCHANGED slips
     \/ Slip /\ UNCHANGED saved
  /\ UNCHANGED <<reload, switches, issued, pins, disk, held, link, call, queue, reply, slot,
                 keys, grant, grants, clock, spoiled>>

\* The agent's process ends and starts again from its state file.
Restarts ==
  /\ Slip
  /\ LoadsCertificate
  /\ transport' = saved.mode /\ trial' = saved.trial /\ reload' = FALSE
  /\ call' = NoCall /\ reply' = 0
  /\ LinkGone
  /\ UNCHANGED <<saved, switches, issued, pins, disk, keys, grant, grants, clock>>

Ticks ==
  /\ clock < MaxTime
  /\ clock' = clock + 1
  /\ UNCHANGED <<switching, issued, pins, disk, held, link, call, queue, reply, slot,
                 keys, grant, grants, slips, spoiled>>

CertNext ==
  \/ AuthorizeAgentConnect \/ CloseAgentCertOverlap \/ Drops
  \/ ShouldTerminateForRevocation
  \/ RenewInStream \/ HandleInStreamRenewalRequest \/ TakesReply \/ TimesOut
  \/ RenewIfNeeded \/ RenewAgentCertificate \/ SavesReply \/ Fails
  \/ recoverCredentials \/ handleAgentCertificateRecovery
  \/ handleCreateAgentCertificateRecoveryGrant
  \/ \E mode \in {"dial", "listen"} : RunsSwitchJob(mode)
  \/ ReloadDropsLink \/ ReloadsState \/ ClearsProbation \/ RevertsTransport
  \/ Restarts \/ Ticks

CertSpec == CertInit /\ [][CertNext]_certVars

(***************************************************************************)
(* Properties.                                                             *)
(***************************************************************************)

\* A certificate with which the agent can get a session without an operator:
\* it has not expired, and the panel accepts it on a stream or, in dial mode,
\* the agent is due to renew it by the unary call, which ignores the pins.
Usable(c) ==
  /\ ~needsRecovery(c)
  /\ \/ classifyPresentedSerial(c) # "unknown"
     \/ transport = "dial" /\ NeedsRefresh(c)

SwitchingTypeOK ==
  /\ transport \in {"dial", "listen"} /\ saved \in [mode : {"dial", "listen"}, trial : BOOLEAN]
  /\ trial \in BOOLEAN /\ reload \in BOOLEAN /\ switches \in 0 .. MaxSwitches

\* Every variable has its type: the serials of both sides are issued ones,
\* and the requests on the session are for keys the agent generated.
CertTypeOK ==
  /\ SwitchingTypeOK
  /\ issued \in Seq([expires : Nat, key : 0 .. keys]) /\ Len(issued) \in 1 .. MaxIssued
  /\ pins \in [cur : 1 .. Len(issued), prev : 0 .. Len(issued), until : Nat]
  /\ {disk, held} \subseteq 1 .. Len(issued)
  /\ {reply, slot} \subseteq 0 .. Len(issued)
  /\ link \in {"none", "closing", "open"}
  /\ call \in [kind : {"none", "unary", "stream", "recovery"}, key : 0 .. keys]
  /\ queue \in Seq(1 .. keys) /\ keys \in 0 .. MaxIssued
  /\ grant \in {"none", "allowed"} /\ grants \in 0 .. MaxGrants
  /\ clock \in 0 .. MaxTime /\ slips \in 0 .. MaxSlips
  /\ spoiled \subseteq {"pin", "stale", "closed"}

\* As long as every pin was written, an unexpired certificate the agent
\* presents gets it a session, however many replies were lost, late or not
\* saved, and through switches, reloads and restarts:
\* HandleInStreamRenewalRequest pins the new certificate before the agent can
\* have it.  Two races are left out.  A load (a restart, or the reload after a
\* switch) that brings back a certificate the next renewal has replaced; and a
\* stream that closes the overlap underneath the unary renewal, which the
\* agent survives for as long as it dials.
HeldStaysUsable ==
  /\ spoiled \cap {"pin", "stale"} = {}
  /\ "closed" \in spoiled => transport = "dial"
  /\ ~needsRecovery(held)
  => Usable(held)

\* No step of the panel withdraws the certificate the agent presents while it
\* is unexpired: rotating the pins and closing the overlap leave it usable.
PresenterNeverEvicted ==
  [][Usable(held) /\ held' = held /\ transport' = transport /\ clock' = clock
       => Usable(held)']_certVars

\* What the comment in RenewAgentCertificate promises: an interrupted exchange
\* cannot strand the agent on a certificate the panel no longer knows, whether
\* or not its state is loaded again meanwhile.
NeverStranded ==
  "pin" \notin spoiled /\ ~needsRecovery(held) => Usable(held)
====
