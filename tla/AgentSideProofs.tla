-------------------------- MODULE AgentSideProofs ---------------------------
(***************************************************************************)
(* Three things an agent must not lose while it replaces them: the         *)
(* certificate it presents (CertRotation), the transport that works        *)
(* (TransportSwitch) and the Telemt binary that runs (TelemtUpdate).  The  *)
(* parts share no variable; each has its own inductive invariant.          *)
(***************************************************************************)
EXTENDS CertRotation, TransportSwitch, TelemtUpdate, TLAPS


(***************************************************************************)
(* The certificate: CertRotation.                                          *)
(***************************************************************************)

(***************************************************************************)
(* Where a renewal can be: a request only on a session, a unary call only  *)
(* when the certificate is due, a recovery only when it has expired.       *)
(***************************************************************************)
OnePath ==
  /\ link = "none" => queue = <<>>
  /\ link = "closing" => queue = <<>> /\ (held = pins.cur \/ call.kind = "unary")
  /\ call.kind = "stream" => link = "open"
  /\ call.kind \in {"unary", "recovery"} => queue = <<>>
  /\ call.kind = "unary" => transport = "dial" /\ NeedsRefresh(held)
  /\ call.kind = "recovery" => link = "none" /\ needsRecovery(held)
  /\ queue # <<>> => NeedsRefresh(held)
  /\ reply # 0 => call.kind \in {"unary", "recovery"}

\* The current pin is the later of the two.
PinsDiffer == pins.prev < pins.cur

\* The certificate in use has expired, is pinned for as long as it is valid, or lost its pin
\* when the overlap was closed and is due to be renewed by the unary call.
HeldIsPinned ==
  \/ needsRecovery(held)
  \/ held = pins.cur
  \/ held = pins.prev /\ issued[held].expires <= pins.until
  \/ "closed" \in spoiled /\ NeedsRefresh(held)

\* A certificate on its way to the agent is already pinned.
ReplyIsPinned == reply # 0 => reply = pins.cur

\* No pin was lost, and no certificate loaded that had been replaced.
Unspoiled == "pin" \notin spoiled /\ "stale" \notin spoiled

\* The inductive invariant; a failed pin spoils its last two parts, a stale load only the
\* last, and only until the next certificate is saved.
CertInv ==
  /\ CertTypeOK /\ OnePath /\ PinsDiffer
  /\ "pin" \notin spoiled => ReplyIsPinned
  /\ Unspoiled => HeldIsPinned

\* The records of certificates for the first k keys.
Certs(k) == [expires : Nat, key : 0 .. k]

\* The constants are numbers.
LEMMA CertConstants ==
  /\ Lifetime \in Nat \ {0} /\ RenewWindow \in Nat \ {0} /\ OverlapMax \in Nat \ {0}
  /\ MaxIssued \in Nat \ {0} /\ MaxTime \in Nat /\ MaxGrants \in Nat /\ MaxSlips \in Nat
  /\ MaxSwitches \in Nat
  /\ RenewWindow < Lifetime /\ RenewWindow <= OverlapMax
BY CertAssumption

\* What the type invariant says of each value used below.
LEMMA CertFacts ==
  ASSUME CertTypeOK
  PROVE  /\ Len(issued) \in Nat /\ Len(issued) \in 1 .. MaxIssued /\ keys \in Nat /\ clock \in Nat
         /\ issued \in Seq(Certs(keys))
         /\ \A i \in 1 .. Len(issued) : issued[i].expires \in Nat
         /\ held \in 1 .. Len(issued) /\ disk \in 1 .. Len(issued)
         /\ reply \in 0 .. Len(issued) /\ slot \in 0 .. Len(issued)
         /\ pins = [cur |-> pins.cur, prev |-> pins.prev, until |-> pins.until]
         /\ pins.cur \in 1 .. Len(issued) /\ pins.prev \in 0 .. Len(issued) /\ pins.until \in Nat
<1>1. Len(issued) \in Nat /\ Len(issued) \in 1 .. MaxIssued /\ keys \in Nat /\ clock \in Nat
      /\ issued \in Seq(Certs(keys))
  BY CertConstants DEF CertTypeOK, Certs
<1>2. \A i \in 1 .. Len(issued) : issued[i].expires \in Nat
  <2>1. \A i \in 1 .. Len(issued) : issued[i] \in Certs(keys)
    BY <1>1
  <2>2. \A c \in Certs(keys) : c.expires \in Nat
    BY DEF Certs
  <2> QED
    BY <2>1, <2>2
<1>3. /\ pins = [cur |-> pins.cur, prev |-> pins.prev, until |-> pins.until]
      /\ pins.cur \in 1 .. Len(issued) /\ pins.prev \in 0 .. Len(issued) /\ pins.until \in Nat
  BY DEF CertTypeOK
<1>4. /\ held \in 1 .. Len(issued) /\ disk \in 1 .. Len(issued)
      /\ reply \in 0 .. Len(issued) /\ slot \in 0 .. Len(issued)
  BY DEF CertTypeOK
<1> QED
  BY <1>1, <1>2, <1>3, <1>4

\* The oldest request of a session.
LEMMA QueueFacts ==
  ASSUME CertTypeOK, queue # <<>>
  PROVE  Head(queue) \in 0 .. keys /\ Tail(queue) \in Seq(1 .. keys)
<1>1. queue \in Seq(1 .. keys)
  BY DEF CertTypeOK
<1>2. ASSUME NEW S, queue \in Seq(S) PROVE Head(queue) \in S /\ Tail(queue) \in Seq(S)
  BY <1>2
<1>3. Head(queue) \in 1 .. keys /\ Tail(queue) \in Seq(1 .. keys)
  BY <1>1, <1>2
<1> QED
  BY <1>3, CertFacts

\* The two ways the pins are written.
LEMMA RotateCases ==
  ASSUME NEW new, NEW c, NEW d, CertTypeOK
  PROVE  /\ c # 0 /\ c = pins.prev /\ pins.until # 0 =>
              RotateAgentCert(new, c, d) = [cur |-> new, prev |-> pins.prev, until |-> pins.until]
         /\ ~(c # 0 /\ c = pins.prev /\ pins.until # 0) =>
              RotateAgentCert(new, c, d) = [cur |-> new, prev |-> pins.cur, until |-> d]
<1>1. pins = [cur |-> pins.cur, prev |-> pins.prev, until |-> pins.until]
  BY CertFacts
<1>2. [pins EXCEPT !.cur = new] = [cur |-> new, prev |-> pins.prev, until |-> pins.until]
  BY <1>1
<1> QED
  BY <1>2 DEF RotateAgentCert

\* The key of the oldest request, and the certificate its session presents.
LEMMA RequestFacts ==
  ASSUME CertTypeOK, HandleInStreamRenewalRequest
  PROVE  Head(queue) \in 0 .. keys /\ held \in 0 .. Len(issued)
<1>1. queue # <<>>
  BY DEF HandleInStreamRenewalRequest
<1>2. Head(queue) \in 0 .. keys
  BY <1>1, QueueFacts
<1>3. held \in 1 .. Len(issued) /\ Len(issued) \in Nat
  BY CertFacts
<1> QED
  BY <1>2, <1>3

\* The numbers that decide whether the certificate in use is accepted.
LEMMA HeldFacts ==
  ASSUME CertTypeOK
  PROVE  issued[held].expires \in Nat /\ clock \in Nat /\ pins.until \in Nat /\ held # 0
<1>1. held \in 1 .. Len(issued) /\ Len(issued) \in Nat /\ clock \in Nat /\ pins.until \in Nat
  BY CertFacts
<1>2. issued[held].expires \in Nat
  BY <1>1, CertFacts
<1> QED
  BY <1>1, <1>2

\* The bounded faults stay bounded.
LEMMA SlipType ==
  ASSUME slips \in 0 .. MaxSlips, Slip \/ UNCHANGED slips
  PROVE  slips' \in 0 .. MaxSlips
BY CertConstants DEF Slip

\* Older certificates and requests keep their type when a key is generated.
LEMMA KeysGrow ==
  ASSUME keys \in Nat, issued \in Seq(Certs(keys)), queue \in Seq(1 .. keys)
  PROVE  /\ issued \in Seq(Certs(keys + 1))
         /\ Append(queue, keys + 1) \in Seq(1 .. keys + 1)
         /\ queue \in Seq(1 .. keys + 1)
<1>1. Certs(keys) \subseteq Certs(keys + 1) /\ 1 .. keys \subseteq 1 .. keys + 1
  BY DEF Certs
<1>2. issued \in Seq(Certs(keys + 1)) /\ queue \in Seq(1 .. keys + 1)
  BY <1>1
<1> QED
  BY <1>2

\* What Issues does, whichever way the pin write ends.
LEMMA IssuesType ==
  ASSUME CertTypeOK, NEW k \in 0 .. keys, NEW c \in 0 .. Len(issued), Issues(k, c)
  PROVE  /\ issued' \in Seq(Certs(keys)) /\ Len(issued') = Len(issued) + 1
         /\ Len(issued') \in 1 .. MaxIssued
         /\ \A i \in 1 .. Len(issued) : issued'[i] = issued[i]
         /\ pins' \in [cur : 1 .. Len(issued'), prev : 0 .. Len(issued'), until : Nat]
         /\ slips' \in 0 .. MaxSlips /\ spoiled' \subseteq {"pin", "stale", "closed"}
         /\ spoiled \subseteq spoiled' /\ NextSerial = Len(issued')
         /\ \/ pins' = RotateAgentCert(NextSerial, c, certOverlapDeadline(clock + Lifetime))
            \/ UNCHANGED pins /\ "pin" \in spoiled'
<1> USE CertConstants
<1>1. issued \in Seq(Certs(keys)) /\ Len(issued) \in Nat /\ clock \in Nat
  BY DEF CertTypeOK, Certs
<1>2. [expires |-> clock + Lifetime, key |-> k] \in Certs(keys)
  BY <1>1 DEF Certs
<1>3. issued' = Append(issued, [expires |-> clock + Lifetime, key |-> k]) /\ Len(issued) < MaxIssued
  BY DEF Issues
<1>4. /\ issued' \in Seq(Certs(keys)) /\ Len(issued') = Len(issued) + 1
      /\ \A i \in 1 .. Len(issued) : issued'[i] = issued[i]
  BY <1>1, <1>2, <1>3
<1>5. Len(issued') \in 1 .. MaxIssued /\ NextSerial = Len(issued')
  BY <1>1, <1>3, <1>4 DEF NextSerial
<1>6. certOverlapDeadline(clock + Lifetime) \in Nat
  BY <1>1 DEF certOverlapDeadline
<1>7. RotateAgentCert(NextSerial, c, certOverlapDeadline(clock + Lifetime))
        \in [cur : 1 .. Len(issued'), prev : 0 .. Len(issued'), until : Nat]
  <2> DEFINE d == certOverlapDeadline(clock + Lifetime)
  <2>1. Len(issued') \in Nat /\ d \in Nat /\ NextSerial \in 1 .. Len(issued')
    BY <1>1, <1>4, <1>5, <1>6
  <2>2. pins.cur \in 0 .. Len(issued') /\ pins.prev \in 0 .. Len(issued') /\ pins.until \in Nat
    <3>1. Len(issued) \in Nat /\ Len(issued') = Len(issued) + 1
      BY <1>1, <1>4
    <3>2. pins.cur \in 1 .. Len(issued) /\ pins.prev \in 0 .. Len(issued) /\ pins.until \in Nat
      BY CertFacts
    <3> QED
      BY <3>1, <3>2
  <2> HIDE DEF d
  <2>3. CASE c # 0 /\ c = pins.prev /\ pins.until # 0
    <3>1. RotateAgentCert(NextSerial, c, d) = [cur |-> NextSerial, prev |-> pins.prev, until |-> pins.until]
      BY <2>3, RotateCases
    <3> QED
      BY <2>1, <2>2, <3>1 DEF d
  <2>4. CASE ~(c # 0 /\ c = pins.prev /\ pins.until # 0)
    <3>1. RotateAgentCert(NextSerial, c, d) = [cur |-> NextSerial, prev |-> pins.cur, until |-> d]
      BY <2>4, RotateCases
    <3> QED
      BY <2>1, <2>2, <3>1 DEF d
  <2> QED
    BY <2>3, <2>4
<1>8. pins \in [cur : 1 .. Len(issued'), prev : 0 .. Len(issued'), until : Nat]
  <2>1. Len(issued) \in Nat /\ Len(issued') = Len(issued) + 1
    BY <1>1, <1>4
  <2>2. pins \in [cur : 1 .. Len(issued), prev : 0 .. Len(issued), until : Nat]
    BY DEF CertTypeOK
  <2> QED
    BY <2>1, <2>2
<1>9. \/ /\ pins' = RotateAgentCert(NextSerial, c, certOverlapDeadline(clock + Lifetime))
         /\ UNCHANGED <<slips, spoiled>>
      \/ Slip /\ spoiled' = spoiled \cup {"pin"} /\ UNCHANGED pins
  BY DEF Issues, PinWriteFails
<1>10. slips' \in 0 .. MaxSlips
  BY <1>9, SlipType DEF CertTypeOK
<1>11. spoiled' \subseteq {"pin", "stale", "closed"} /\ spoiled \subseteq spoiled'
  BY <1>9 DEF CertTypeOK
<1> QED
  BY <1>4, <1>5, <1>7, <1>8, <1>9, <1>10, <1>11

\* The invariant holds initially.
LEMMA CertInitInv == CertInit => CertInv
<1> SUFFICES ASSUME CertInit PROVE CertInv
  OBVIOUS
<1> USE CertConstants DEF CertInit
<1>1. CertTypeOK
  <2>1. [expires |-> Lifetime, key |-> 0] \in [expires : Nat, key : 0 .. keys]
    OBVIOUS
  <2>2. issued \in Seq([expires : Nat, key : 0 .. keys]) /\ Len(issued) = 1
    BY <2>1
  <2>3. queue \in Seq(1 .. keys) /\ 1 \in 1 .. MaxIssued
    OBVIOUS
  <2>4. pins \in [cur : 1 .. Len(issued), prev : 0 .. Len(issued), until : Nat]
    BY <2>2
  <2>5. call \in [kind : {"none", "unary", "stream", "recovery"}, key : 0 .. keys]
    BY DEF NoCall
  <2>6. SwitchingTypeOK
    <3>1. transport \in {"dial", "listen"} /\ saved = [mode |-> transport, trial |-> FALSE]
      OBVIOUS
    <3>2. saved \in [mode : {"dial", "listen"}, trial : BOOLEAN]
      BY <3>1
    <3>3. trial \in BOOLEAN /\ reload \in BOOLEAN
      BY Zenon
    <3>4. switches \in 0 .. MaxSwitches
      OBVIOUS
    <3> QED
      BY <3>1, <3>2, <3>3, <3>4 DEF SwitchingTypeOK
  <2> QED
    BY <2>2, <2>3, <2>4, <2>5, <2>6 DEF CertTypeOK
<1> QED
  BY <1>1 DEF CertInv, OnePath, PinsDiffer, HeldIsPinned, ReplyIsPinned, Unspoiled, NoCall

\* Every step keeps the types of the transport and its probation.
LEMMA SwitchingType == SwitchingTypeOK /\ [CertNext]_certVars => SwitchingTypeOK'
<1> SUFFICES ASSUME SwitchingTypeOK, [CertNext]_certVars PROVE SwitchingTypeOK'
  OBVIOUS
<1>0. /\ transport \in {"dial", "listen"} /\ trial \in BOOLEAN /\ reload \in BOOLEAN
      /\ saved \in [mode : {"dial", "listen"}, trial : BOOLEAN]
      /\ saved.mode \in {"dial", "listen"} /\ saved.trial \in BOOLEAN /\ switches \in 0 .. MaxSwitches
  BY DEF SwitchingTypeOK
<1>1. CASE UNCHANGED switching
  BY <1>0, <1>1 DEF switching, SwitchingTypeOK
<1>2. ASSUME NEW mode \in {"dial", "listen"}, RunsSwitchJob(mode) PROVE SwitchingTypeOK'
  <2>1. switches' \in 0 .. MaxSwitches
    BY <1>0, <1>2, CertConstants DEF RunsSwitchJob
  <2>2. UNCHANGED <<transport, trial>> /\ reload' = TRUE
    BY <1>2 DEF RunsSwitchJob
  <2>3. saved' = [mode |-> mode, trial |-> saved.trial \/ mode # saved.mode]
    BY <1>2 DEF RunsSwitchJob
  <2>4. saved' \in [mode : {"dial", "listen"}, trial : BOOLEAN]
    BY <2>3
  <2> QED
    BY <1>0, <2>1, <2>2, <2>4 DEF SwitchingTypeOK
<1>3. CASE ReloadsState \/ Restarts
  <2>1. /\ transport' \in {transport, saved.mode} /\ trial' \in {trial, saved.trial}
        /\ reload' = FALSE /\ UNCHANGED <<saved, switches>>
    BY <1>3 DEF ReloadsState, Restarts
  <2> QED
    BY <1>0, <2>1 DEF SwitchingTypeOK
<1>4. CASE ClearsProbation \/ RevertsTransport
  <2>1. /\ transport' \in {transport, Other(transport)} /\ trial' = FALSE /\ UNCHANGED <<reload, switches>>
        /\ \/ saved' = saved \/ saved' = [saved EXCEPT !.trial = FALSE]
           \/ saved' = [mode |-> Other(transport), trial |-> FALSE]
    BY <1>4 DEF ClearsProbation, RevertsTransport
  <2>2. Other(transport) \in {"dial", "listen"}
    BY DEF Other
  <2>3. [saved EXCEPT !.trial = FALSE] \in [mode : {"dial", "listen"}, trial : BOOLEAN]
    BY <1>0
  <2>4. [mode |-> Other(transport), trial |-> FALSE] \in [mode : {"dial", "listen"}, trial : BOOLEAN]
    BY <2>2
  <2>5. saved' \in [mode : {"dial", "listen"}, trial : BOOLEAN]
    BY <1>0, <2>1, <2>3, <2>4
  <2>6. transport' \in {"dial", "listen"}
    BY <1>0, <2>1, <2>2
  <2> QED
    BY <1>0, <2>1, <2>5, <2>6 DEF SwitchingTypeOK
<1>5. \/ UNCHANGED switching \/ (\E mode \in {"dial", "listen"} : RunsSwitchJob(mode))
      \/ ReloadsState \/ Restarts \/ ClearsProbation \/ RevertsTransport
  <2>1. CASE UNCHANGED certVars
    BY <2>1 DEF certVars, switching
  <2>2. CASE CertNext
    BY <2>2 DEF CertNext, AuthorizeAgentConnect, CloseAgentCertOverlap, Drops, ShouldTerminateForRevocation,
         RenewInStream, HandleInStreamRenewalRequest, TakesReply, TimesOut, RenewIfNeeded, RenewAgentCertificate,
         SavesReply, Fails, recoverCredentials, handleAgentCertificateRecovery,
         handleCreateAgentCertificateRecoveryGrant, ReloadDropsLink, Ticks
  <2> QED
    BY <2>1, <2>2
<1> QED
  BY <1>1, <1>2, <1>3, <1>4, <1>5

\* Every step keeps the types.
LEMMA CertStepType == CertTypeOK /\ [CertNext]_certVars => CertTypeOK'
<1> SUFFICES ASSUME CertTypeOK, [CertNext]_certVars PROVE CertTypeOK'
  OBVIOUS
<1> USE CertConstants DEF LinkGone, KeepLink, NoCall
<1>t. SwitchingTypeOK'
  BY SwitchingType DEF CertTypeOK
<1>1. CASE AuthorizeAgentConnect
  BY <1>t, <1>1 DEF AuthorizeAgentConnect, CertTypeOK
<1>2. CASE CloseAgentCertOverlap
  <2>1. slips' \in 0 .. MaxSlips
    BY <1>2, SlipType DEF CloseAgentCertOverlap, CertTypeOK
  <2>2. pins' \in [cur : 1 .. Len(issued), prev : 0 .. Len(issued), until : Nat]
    <3>1. pins' = pins \/ pins' = [cur |-> pins.cur, prev |-> 0, until |-> 0]
      BY <1>2, CertFacts DEF CloseAgentCertOverlap
    <3> QED
      BY <3>1, CertFacts, SMTT(30)
  <2> QED
    BY <1>t, <1>2, <2>1, <2>2 DEF CloseAgentCertOverlap, CertTypeOK
<1>3. CASE Drops
  <2>1. slips' \in 0 .. MaxSlips
    BY <1>3, SlipType DEF Drops, CertTypeOK
  <2> QED
    BY <1>t, <1>3, <2>1, SMTT(30) DEF Drops, CertTypeOK
<1>4. CASE ShouldTerminateForRevocation
  BY <1>t, <1>4, SMTT(30) DEF ShouldTerminateForRevocation, CertTypeOK
<1>5. CASE RenewInStream
  <2>1. keys' = keys + 1 /\ keys' \in 0 .. MaxIssued
    BY <1>5 DEF RenewInStream, CertTypeOK
  <2>2. issued' \in Seq(Certs(keys')) /\ queue' \in Seq(1 .. keys')
    BY <1>5, <2>1, KeysGrow DEF RenewInStream, CertTypeOK, Certs
  <2> QED
    BY <1>t, <1>5, <2>1, <2>2 DEF RenewInStream, CertTypeOK, Certs
<1>6. CASE HandleInStreamRenewalRequest
  <2>1. Head(queue) \in 0 .. keys /\ held \in 0 .. Len(issued)
    BY <1>6, RequestFacts
  <2>2. Issues(Head(queue), held)
    BY <1>6 DEF HandleInStreamRenewalRequest
  <2>3. Len(issued) \in Nat /\ Len(issued') = Len(issued) + 1 /\ NextSerial = Len(issued')
    BY <2>1, <2>2, IssuesType, CertFacts
  <2>4. {disk, held} \subseteq 1 .. Len(issued') /\ {reply, slot, NextSerial} \subseteq 0 .. Len(issued')
    BY <2>3, CertFacts, SMTT(30)
  <2>5. queue' \in Seq(1 .. keys)
    BY <1>6, QueueFacts DEF HandleInStreamRenewalRequest, CertTypeOK
  <2>6. /\ issued' \in Seq(Certs(keys)) /\ Len(issued') \in 1 .. MaxIssued
        /\ pins' \in [cur : 1 .. Len(issued'), prev : 0 .. Len(issued'), until : Nat]
        /\ slips' \in 0 .. MaxSlips /\ spoiled' \subseteq {"pin", "stale", "closed"}
    BY <2>1, <2>2, IssuesType
  <2> QED
    BY <1>t, <1>6, <2>4, <2>5, <2>6 DEF HandleInStreamRenewalRequest, CertTypeOK, Certs
<1>7. CASE TakesReply
  <2>1. slips' \in 0 .. MaxSlips
    BY <1>7, SlipType DEF TakesReply, CertTypeOK
  <2>2. /\ disk' \in 1 .. Len(issued) /\ slot' \in 0 .. Len(issued)
        /\ queue' \in Seq(1 .. keys) /\ link' \in {"none", "closing", "open"}
    <3>1. disk' \in {disk, slot} /\ slot # 0 /\ slot' = 0
      BY <1>7 DEF TakesReply
    <3>2. queue' \in {queue, <<>>} /\ link' \in {link, "none"}
      BY <1>7 DEF TakesReply
    <3>3. queue \in Seq(1 .. keys) /\ <<>> \in Seq(1 .. keys) /\ link \in {"none", "closing", "open"}
      BY DEF CertTypeOK
    <3>4. queue' \in Seq(1 .. keys) /\ link' \in {"none", "closing", "open"}
      BY <3>2, <3>3, Zenon
    <3>5. disk' \in 1 .. Len(issued) /\ slot' \in 0 .. Len(issued)
      BY <3>1, CertFacts, SMTT(30)
    <3> QED
      BY <3>4, <3>5
  <2> QED
    BY <1>t, <1>7, <2>1, <2>2 DEF TakesReply, CertTypeOK
<1>8. CASE TimesOut
  <2>1. slips' \in 0 .. MaxSlips
    BY <1>8, SlipType DEF TimesOut, CertTypeOK
  <2> QED
    BY <1>t, <1>8, <2>1 DEF TimesOut, CertTypeOK
<1>9. CASE RenewIfNeeded
  <2>1. keys' = keys + 1 /\ keys' \in 0 .. MaxIssued
    BY <1>9 DEF RenewIfNeeded, CertTypeOK
  <2>2. issued' \in Seq(Certs(keys')) /\ queue' \in Seq(1 .. keys')
    BY <1>9, <2>1, KeysGrow DEF RenewIfNeeded, CertTypeOK, Certs
  <2> QED
    BY <1>t, <1>9, <2>1, <2>2 DEF RenewIfNeeded, CertTypeOK, Certs
<1>10. CASE RenewAgentCertificate
  <2>1. call.key \in 0 .. keys /\ held \in 0 .. Len(issued)
    BY <1>10 DEF RenewAgentCertificate, CertTypeOK
  <2>2. Issues(call.key, held)
    BY <1>10 DEF RenewAgentCertificate
  <2>3. Len(issued) \in Nat /\ Len(issued') = Len(issued) + 1 /\ NextSerial = Len(issued')
    BY <2>1, <2>2, IssuesType, CertFacts
  <2>4. {disk, held} \subseteq 1 .. Len(issued') /\ {reply, slot, NextSerial} \subseteq 0 .. Len(issued')
    BY <2>3, CertFacts, SMTT(30)
  <2>5. queue' \in Seq(1 .. keys)
    BY <1>10, QueueFacts DEF RenewAgentCertificate, CertTypeOK
  <2>6. /\ issued' \in Seq(Certs(keys)) /\ Len(issued') \in 1 .. MaxIssued
        /\ pins' \in [cur : 1 .. Len(issued'), prev : 0 .. Len(issued'), until : Nat]
        /\ slips' \in 0 .. MaxSlips /\ spoiled' \subseteq {"pin", "stale", "closed"}
    BY <2>1, <2>2, IssuesType
  <2> QED
    BY <1>t, <1>10, <2>4, <2>5, <2>6 DEF RenewAgentCertificate, CertTypeOK, Certs
<1>11. CASE SavesReply
  <2>1. reply \in 1 .. Len(issued) /\ disk' = reply /\ held' = reply /\ Len(issued) \in Nat
    BY <1>11, CertFacts, SMTT(30) DEF SavesReply
  <2>2. <<>> \in Seq(1 .. keys) /\ 0 \in 0 .. Len(issued) /\ 0 \in 0 .. keys
    BY <2>1, CertFacts, SMTT(30)
  <2> QED
    BY <1>t, <1>11, <2>1, <2>2, SMTT(30) DEF SavesReply, CertTypeOK
<1>12. CASE Fails
  <2>1. slips' \in 0 .. MaxSlips
    BY <1>12, SlipType DEF Fails, CertTypeOK
  <2> QED
    BY <1>t, <1>12, <2>1, SMTT(30) DEF Fails, CertTypeOK
<1>13. CASE recoverCredentials
  <2>1. keys' = keys + 1 /\ keys' \in 0 .. MaxIssued
    BY <1>13 DEF recoverCredentials, CertTypeOK
  <2>2. issued' \in Seq(Certs(keys')) /\ queue' \in Seq(1 .. keys')
    BY <1>13, <2>1, KeysGrow DEF recoverCredentials, CertTypeOK, Certs
  <2> QED
    BY <1>t, <1>13, <2>1, <2>2 DEF recoverCredentials, CertTypeOK, Certs
<1>14. CASE handleAgentCertificateRecovery
  <2>1. call.key \in 0 .. keys /\ 0 \in 0 .. Len(issued)
    BY <1>14 DEF handleAgentCertificateRecovery, CertTypeOK
  <2>2. Issues(call.key, 0)
    BY <1>14 DEF handleAgentCertificateRecovery
  <2>3. Len(issued) \in Nat /\ Len(issued') = Len(issued) + 1 /\ NextSerial = Len(issued')
    BY <2>1, <2>2, IssuesType, CertFacts
  <2>4. {disk, held} \subseteq 1 .. Len(issued') /\ {reply, slot, NextSerial} \subseteq 0 .. Len(issued')
    BY <2>3, CertFacts, SMTT(30)
  <2>5. queue' \in Seq(1 .. keys)
    BY <1>14, QueueFacts DEF handleAgentCertificateRecovery, CertTypeOK
  <2>6. /\ issued' \in Seq(Certs(keys)) /\ Len(issued') \in 1 .. MaxIssued
        /\ pins' \in [cur : 1 .. Len(issued'), prev : 0 .. Len(issued'), until : Nat]
        /\ slips' \in 0 .. MaxSlips /\ spoiled' \subseteq {"pin", "stale", "closed"}
    BY <2>1, <2>2, IssuesType
  <2> QED
    BY <1>t, <1>14, <2>4, <2>5, <2>6 DEF handleAgentCertificateRecovery, CertTypeOK, Certs
<1>15. CASE handleCreateAgentCertificateRecoveryGrant
  BY <1>t, <1>15 DEF handleCreateAgentCertificateRecoveryGrant, CertTypeOK
<1>16. CASE Restarts
  <2>1. slips' \in 0 .. MaxSlips
    BY <1>16, SlipType DEF Restarts, CertTypeOK
  <2>2. spoiled' \subseteq {"pin", "stale", "closed"}
    BY <1>16 DEF Restarts, LoadsCertificate, CertTypeOK
  <2> QED
    BY <1>t, <1>16, <2>1, <2>2, SMTT(30) DEF Restarts, LoadsCertificate, CertTypeOK
<1>17. CASE Ticks
  BY <1>t, <1>17 DEF Ticks, CertTypeOK
<1>18. CASE UNCHANGED certVars
  BY <1>t, <1>18 DEF certVars, CertTypeOK
<1>19. ASSUME NEW mode \in {"dial", "listen"}, RunsSwitchJob(mode) PROVE CertTypeOK'
  BY <1>t, <1>19 DEF RunsSwitchJob, CertTypeOK
<1>20. CASE ReloadDropsLink
  BY <1>t, <1>20, SMTT(30) DEF ReloadDropsLink, CertTypeOK
<1>21. CASE ReloadsState
  <2>1. slips' \in 0 .. MaxSlips
    BY <1>21, SlipType DEF ReloadsState, CertTypeOK
  <2>2. spoiled' \subseteq {"pin", "stale", "closed"} /\ held' \in {held, disk}
    BY <1>21 DEF ReloadsState, LoadsCertificate, CertTypeOK
  <2> QED
    BY <1>t, <1>21, <2>1, <2>2, SMTT(30) DEF ReloadsState, CertTypeOK
<1>22. CASE ClearsProbation
  <2>1. slips' \in 0 .. MaxSlips
    BY <1>22, SlipType DEF ClearsProbation, CertTypeOK
  <2> QED
    BY <1>t, <1>22, <2>1 DEF ClearsProbation, CertTypeOK
<1>23. CASE RevertsTransport
  <2>1. slips' \in 0 .. MaxSlips
    BY <1>23, SlipType DEF RevertsTransport, CertTypeOK
  <2> QED
    BY <1>t, <1>23, <2>1 DEF RevertsTransport, CertTypeOK
<1> QED
  BY <1>1, <1>2, <1>3, <1>4, <1>5, <1>6, <1>7, <1>8, <1>9, <1>10, <1>11, <1>12, <1>13, <1>14, <1>15, <1>16, <1>17, <1>18,
     <1>19, <1>20, <1>21, <1>22, <1>23 DEF CertNext

\* Every step keeps the one path of a renewal and the order of the pins.
LEMMA CertStepPath == CertInv /\ [CertNext]_certVars => OnePath' /\ PinsDiffer'
<1> SUFFICES ASSUME CertInv, [CertNext]_certVars PROVE OnePath' /\ PinsDiffer'
  OBVIOUS
<1>0. CertTypeOK /\ OnePath /\ PinsDiffer
  BY DEF CertInv
<1> USE CertConstants DEF LinkGone, KeepLink, NoCall, switching, PinsDiffer, NeedsRefresh, needsRecovery
<1>1. CASE AuthorizeAgentConnect
  BY <1>0, <1>1 DEF AuthorizeAgentConnect, OnePath, CertTypeOK, MayPresent, ClosesOn, classifyPresentedSerial, VerdictAt
<1>2. CASE CloseAgentCertOverlap
  <2>1. pins'.cur = pins.cur /\ (pins'.prev = pins.prev \/ pins'.prev = 0)
    BY <1>0, <1>2, CertFacts DEF CloseAgentCertOverlap
  <2>2. PinsDiffer'
    BY <1>0, <2>1, CertFacts, SMTT(30)
  <2> QED
    BY <1>0, <1>2, <2>1, <2>2 DEF CloseAgentCertOverlap, OnePath
<1>3. CASE Drops
  BY <1>0, <1>3 DEF Drops, OnePath, CertTypeOK
<1>4. CASE ShouldTerminateForRevocation
  BY <1>0, <1>4 DEF ShouldTerminateForRevocation, OnePath, CertTypeOK
<1>5. CASE RenewInStream
  BY <1>0, <1>5 DEF RenewInStream, OnePath, CertTypeOK
<1>6. CASE HandleInStreamRenewalRequest
  <2>1. Head(queue) \in 0 .. keys /\ held \in 0 .. Len(issued)
    BY <1>0, <1>6, RequestFacts
  <2>2. Issues(Head(queue), held)
    BY <1>6 DEF HandleInStreamRenewalRequest
  <2>3. PinsDiffer'
    <3>1. \/ pins' = RotateAgentCert(NextSerial, held, certOverlapDeadline(clock + Lifetime))
          \/ pins' = pins
      BY <1>0, <2>1, <2>2, IssuesType
    <3>2. pins' = pins \/ (pins'.cur = NextSerial /\ pins'.prev \in {pins.prev, pins.cur})
      BY <1>0, <3>1, RotateCases
    <3> QED
      BY <1>0, <3>2, CertFacts, SMTT(30) DEF NextSerial
  <2>4. issued'[held] = issued[held]
    BY <1>0, <2>1, <2>2, IssuesType DEF CertTypeOK
  <2>5. OnePath'
    BY <1>0, <1>6, <2>4 DEF HandleInStreamRenewalRequest, OnePath, CertTypeOK
  <2> QED
    BY <2>3, <2>5
<1>7. CASE TakesReply
  BY <1>0, <1>7 DEF TakesReply, OnePath, CertTypeOK
<1>8. CASE TimesOut
  BY <1>0, <1>8 DEF TimesOut, OnePath, CertTypeOK
<1>9. CASE RenewIfNeeded
  BY <1>0, <1>9 DEF RenewIfNeeded, OnePath, CertTypeOK
<1>10. CASE RenewAgentCertificate
  <2>1. call.key \in 0 .. keys /\ held \in 0 .. Len(issued)
    BY <1>0, <1>10 DEF RenewAgentCertificate, CertTypeOK
  <2>2. Issues(call.key, held)
    BY <1>10 DEF RenewAgentCertificate
  <2>3. PinsDiffer'
    <3>1. \/ pins' = RotateAgentCert(NextSerial, held, certOverlapDeadline(clock + Lifetime))
          \/ pins' = pins
      BY <1>0, <2>1, <2>2, IssuesType
    <3>2. pins' = pins \/ (pins'.cur = NextSerial /\ pins'.prev \in {pins.prev, pins.cur})
      BY <1>0, <3>1, RotateCases
    <3> QED
      BY <1>0, <3>2, CertFacts, SMTT(30) DEF NextSerial
  <2>4. issued'[held] = issued[held]
    BY <1>0, <2>1, <2>2, IssuesType DEF CertTypeOK
  <2>5. OnePath'
    BY <1>0, <1>10, <2>4 DEF RenewAgentCertificate, OnePath, CertTypeOK
  <2> QED
    BY <2>3, <2>5
<1>11. CASE SavesReply
  BY <1>0, <1>11 DEF SavesReply, OnePath, CertTypeOK
<1>12. CASE Fails
  BY <1>0, <1>12 DEF Fails, OnePath, CertTypeOK
<1>13. CASE recoverCredentials
  BY <1>0, <1>13 DEF recoverCredentials, OnePath, CertTypeOK
<1>14. CASE handleAgentCertificateRecovery
  <2>1. call.key \in 0 .. keys /\ 0 \in 0 .. Len(issued)
    BY <1>0, <1>14 DEF handleAgentCertificateRecovery, CertTypeOK
  <2>2. Issues(call.key, 0)
    BY <1>14 DEF handleAgentCertificateRecovery
  <2>3. PinsDiffer'
    <3>1. \/ pins' = RotateAgentCert(NextSerial, 0, certOverlapDeadline(clock + Lifetime))
          \/ pins' = pins
      BY <1>0, <2>1, <2>2, IssuesType
    <3>2. pins' = pins \/ (pins'.cur = NextSerial /\ pins'.prev \in {pins.prev, pins.cur})
      BY <1>0, <3>1, RotateCases
    <3> QED
      BY <1>0, <3>2, CertFacts, SMTT(30) DEF NextSerial
  <2>4. issued'[held] = issued[held]
    BY <1>0, <2>1, <2>2, IssuesType DEF CertTypeOK
  <2>5. OnePath'
    BY <1>0, <1>14, <2>4 DEF handleAgentCertificateRecovery, OnePath, CertTypeOK
  <2> QED
    BY <2>3, <2>5
<1>15. CASE handleCreateAgentCertificateRecoveryGrant
  BY <1>0, <1>15 DEF handleCreateAgentCertificateRecoveryGrant, OnePath, CertTypeOK
<1>16. CASE Restarts
  BY <1>0, <1>16 DEF Restarts, OnePath, CertTypeOK
<1>17. CASE Ticks
  <2>1. issued[held].expires \in Nat /\ clock \in Nat
    BY <1>0, CertFacts
  <2>2. NeedsRefresh(held) => NeedsRefresh(held)'
    BY <1>17, <2>1 DEF Ticks
  <2>3. needsRecovery(held) => needsRecovery(held)'
    BY <1>17, <2>1 DEF Ticks
  <2> HIDE DEF NeedsRefresh, needsRecovery
  <2> QED
    BY <1>0, <1>17, <2>2, <2>3 DEF Ticks, OnePath
<1>18. CASE UNCHANGED certVars
  BY <1>0, <1>18 DEF certVars, OnePath
<1>19. ASSUME NEW mode \in {"dial", "listen"}, RunsSwitchJob(mode) PROVE OnePath' /\ PinsDiffer'
  BY <1>0, <1>19 DEF RunsSwitchJob, OnePath
<1>20. CASE ReloadDropsLink
  BY <1>0, <1>20 DEF ReloadDropsLink, OnePath, CertTypeOK
<1>21. CASE ReloadsState
  BY <1>0, <1>21 DEF ReloadsState, OnePath, CertTypeOK
<1>22. CASE ClearsProbation
  BY <1>0, <1>22 DEF ClearsProbation, OnePath
<1>23. CASE RevertsTransport
  BY <1>0, <1>23 DEF RevertsTransport, OnePath
<1> QED
  BY <1>1, <1>2, <1>3, <1>4, <1>5, <1>6, <1>7, <1>8, <1>9, <1>10, <1>11, <1>12, <1>13, <1>14, <1>15, <1>16, <1>17, <1>18,
     <1>19, <1>20, <1>21, <1>22, <1>23 DEF CertNext

\* Only a saved certificate takes a spoiling back, and none takes back a lost pin.
LEMMA SpoiledGrows ==
  ASSUME [CertNext]_certVars
  PROVE  /\ "pin" \in spoiled => "pin" \in spoiled'
         /\ ~SavesReply => spoiled \subseteq spoiled'
BY DEF CertNext, certVars, AuthorizeAgentConnect, CloseAgentCertOverlap, Drops, ShouldTerminateForRevocation,
       RenewInStream, HandleInStreamRenewalRequest, TakesReply, TimesOut, RenewIfNeeded, RenewAgentCertificate,
       SavesReply, Fails, recoverCredentials, handleAgentCertificateRecovery,
       handleCreateAgentCertificateRecoveryGrant, RunsSwitchJob, ReloadDropsLink, ReloadsState, ClearsProbation,
       RevertsTransport, Restarts, LoadsCertificate, Ticks, Issues

\* A reply is pinned when it is issued, and nothing else is issued while it is on its way.
LEMMA CertStepReply == CertInv /\ [CertNext]_certVars /\ "pin" \notin spoiled' => ReplyIsPinned'
<1> SUFFICES ASSUME CertInv, [CertNext]_certVars, "pin" \notin spoiled' PROVE ReplyIsPinned'
  OBVIOUS
<1>0. CertTypeOK /\ OnePath /\ "pin" \notin spoiled /\ ReplyIsPinned
  BY SpoiledGrows DEF CertInv
<1> USE DEF LinkGone, KeepLink, NoCall, ReplyIsPinned
<1>1. ASSUME NEW k \in 0 .. keys, NEW c \in 0 .. Len(issued), Issues(k, c) PROVE pins'.cur = NextSerial
  <2>1. pins' = RotateAgentCert(NextSerial, c, certOverlapDeadline(clock + Lifetime))
    BY <1>0, <1>1, IssuesType
  <2> QED
    BY <1>0, <2>1, RotateCases
<1>2. CASE HandleInStreamRenewalRequest
  BY <1>0, <1>2 DEF HandleInStreamRenewalRequest, OnePath
<1>3. CASE RenewAgentCertificate
  <2>1. call.key \in 0 .. keys /\ held \in 0 .. Len(issued)
    BY <1>0, <1>3 DEF RenewAgentCertificate, CertTypeOK
  <2> QED
    BY <1>1, <1>3, <2>1 DEF RenewAgentCertificate
<1>4. CASE handleAgentCertificateRecovery
  <2>1. call.key \in 0 .. keys /\ 0 \in 0 .. Len(issued)
    BY <1>0, <1>4 DEF handleAgentCertificateRecovery, CertTypeOK
  <2> QED
    BY <1>1, <1>4, <2>1 DEF handleAgentCertificateRecovery
<1>5. CASE CloseAgentCertOverlap
  <2>1. pins'.cur = pins.cur /\ reply' = reply
    BY <1>0, <1>5, CertFacts DEF CloseAgentCertOverlap
  <2> QED
    BY <1>0, <2>1
<1>6. CASE pins' = pins /\ reply' \in {reply, 0}
  BY <1>0, <1>6
<1>7. \/ HandleInStreamRenewalRequest \/ RenewAgentCertificate \/ handleAgentCertificateRecovery
      \/ CloseAgentCertOverlap \/ (pins' = pins /\ reply' \in {reply, 0})
  BY DEF CertNext, certVars, AuthorizeAgentConnect, Drops, ShouldTerminateForRevocation, RenewInStream, TakesReply,
       TimesOut, RenewIfNeeded, SavesReply, Fails, recoverCredentials, handleCreateAgentCertificateRecoveryGrant,
       RunsSwitchJob, ReloadDropsLink, ReloadsState, ClearsProbation, RevertsTransport, Restarts, Ticks
<1> QED
  BY <1>2, <1>3, <1>4, <1>5, <1>6, <1>7

\* Every step keeps the held certificate, and the one on its way, pinned.
LEMMA CertStepPinned ==
  CertInv /\ [CertNext]_certVars /\ ~SavesReply => (Unspoiled' => HeldIsPinned' /\ ReplyIsPinned')
<1> SUFFICES ASSUME CertInv, [CertNext]_certVars, ~SavesReply, Unspoiled' PROVE HeldIsPinned' /\ ReplyIsPinned'
  OBVIOUS
<1>0. CertTypeOK /\ OnePath /\ PinsDiffer
  BY DEF CertInv
<1> USE CertConstants DEF LinkGone, KeepLink, NoCall, switching, PinsDiffer, NeedsRefresh, needsRecovery,
                         HeldIsPinned, ReplyIsPinned
<1>s. spoiled \subseteq spoiled'
  BY SpoiledGrows
<1>p. HeldIsPinned /\ ReplyIsPinned
  BY <1>s DEF CertInv, Unspoiled
<1>1. CASE AuthorizeAgentConnect
  BY <1>0, <1>1, <1>p DEF AuthorizeAgentConnect, OnePath, CertTypeOK
<1>2. CASE CloseAgentCertOverlap
  BY <1>0, <1>2, <1>p, <1>s DEF CloseAgentCertOverlap, OnePath, CertTypeOK
<1>3. CASE Drops
  BY <1>0, <1>3, <1>p DEF Drops, OnePath, CertTypeOK
<1>4. CASE ShouldTerminateForRevocation
  BY <1>0, <1>4, <1>p DEF ShouldTerminateForRevocation, OnePath, CertTypeOK
<1>5. CASE RenewInStream
  BY <1>0, <1>5, <1>p DEF RenewInStream, OnePath, CertTypeOK
<1>6. CASE HandleInStreamRenewalRequest
  <2>1. Head(queue) \in 0 .. keys /\ held \in 0 .. Len(issued)
    BY <1>0, <1>6, RequestFacts
  <2>2. Issues(Head(queue), held)
    BY <1>6 DEF HandleInStreamRenewalRequest
  <2>3. /\ issued'[held] = issued[held] /\ NextSerial = Len(issued')
        /\ pins' = RotateAgentCert(NextSerial, held, certOverlapDeadline(clock + Lifetime))
    BY <1>0, <2>1, <2>2, IssuesType DEF CertTypeOK, Unspoiled
  <2>4. pins'.cur = NextSerial
    BY <1>0, <2>3 DEF RotateAgentCert, CertTypeOK
  <2>5. ReplyIsPinned'
    BY <1>0, <1>6, <1>p, <2>4 DEF HandleInStreamRenewalRequest, OnePath
  <2>6. HeldIsPinned'
    <3>1. NeedsRefresh(held) /\ held' = held /\ clock' = clock /\ transport' = transport
      BY <1>0, <1>6 DEF HandleInStreamRenewalRequest, OnePath
    <3>2. issued[held].expires \in Nat /\ clock \in Nat /\ pins.until \in Nat /\ held # 0
      BY <1>0, CertFacts
    <3>3. CASE held = pins.prev /\ pins.until # 0
      <4>1. pins'.prev = pins.prev /\ pins'.until = pins.until
        BY <1>0, <2>3, <3>2, <3>3, RotateCases
      <4>2. pins.prev # pins.cur
        BY <1>0, CertFacts
      <4> QED
        BY <1>p, <1>s, <2>3, <3>1, <3>2, <3>3, <4>1, <4>2
    <3>4. CASE ~(held = pins.prev /\ pins.until # 0)
      <4>1. pins'.prev = pins.cur /\ pins'.until = certOverlapDeadline(clock + Lifetime)
        BY <1>0, <2>3, <3>2, <3>4, RotateCases
      <4>2. issued[held].expires <= certOverlapDeadline(clock + Lifetime)
        BY <3>1, <3>2 DEF certOverlapDeadline
      <4> QED
        BY <1>p, <1>s, <2>3, <3>1, <3>2, <3>4, <4>1, <4>2
    <3> QED
      BY <3>3, <3>4
  <2> QED
    BY <2>5, <2>6
<1>7. CASE TakesReply
  BY <1>0, <1>7, <1>p DEF TakesReply, OnePath, CertTypeOK
<1>8. CASE TimesOut
  BY <1>0, <1>8, <1>p DEF TimesOut, OnePath, CertTypeOK
<1>9. CASE RenewIfNeeded
  BY <1>0, <1>9, <1>p DEF RenewIfNeeded, OnePath, CertTypeOK
<1>10. CASE RenewAgentCertificate
  <2>1. call.key \in 0 .. keys /\ held \in 0 .. Len(issued)
    BY <1>0, <1>10 DEF RenewAgentCertificate, CertTypeOK
  <2>2. Issues(call.key, held)
    BY <1>10 DEF RenewAgentCertificate
  <2>3. /\ issued'[held] = issued[held] /\ NextSerial = Len(issued')
        /\ pins' = RotateAgentCert(NextSerial, held, certOverlapDeadline(clock + Lifetime))
    BY <1>0, <2>1, <2>2, IssuesType DEF CertTypeOK, Unspoiled
  <2>4. pins'.cur = NextSerial
    BY <1>0, <2>3 DEF RotateAgentCert, CertTypeOK
  <2>5. ReplyIsPinned'
    BY <1>0, <1>10, <1>p, <2>4 DEF RenewAgentCertificate, OnePath
  <2>6. HeldIsPinned'
    <3>1. NeedsRefresh(held) /\ held' = held /\ clock' = clock
      BY <1>0, <1>10 DEF RenewAgentCertificate, OnePath
    <3>2. issued[held].expires \in Nat /\ clock \in Nat /\ pins.until \in Nat /\ held # 0
      BY <1>0, CertFacts
    <3>3. CASE held = pins.prev /\ pins.until # 0
      <4>1. pins'.prev = pins.prev /\ pins'.until = pins.until
        BY <1>0, <2>3, <3>2, <3>3, RotateCases
      <4>2. pins.prev # pins.cur
        BY <1>0, CertFacts
      <4> QED
        BY <1>p, <1>s, <2>3, <3>1, <3>2, <3>3, <4>1, <4>2
    <3>4. CASE ~(held = pins.prev /\ pins.until # 0)
      <4>1. pins'.prev = pins.cur /\ pins'.until = certOverlapDeadline(clock + Lifetime)
        BY <1>0, <2>3, <3>2, <3>4, RotateCases
      <4>2. issued[held].expires <= certOverlapDeadline(clock + Lifetime)
        BY <3>1, <3>2 DEF certOverlapDeadline
      <4> QED
        BY <1>p, <1>s, <2>3, <3>1, <3>2, <3>4, <4>1, <4>2
    <3> QED
      BY <3>3, <3>4
  <2> QED
    BY <2>5, <2>6
<1>12. CASE Fails
  BY <1>0, <1>12, <1>p DEF Fails, OnePath, CertTypeOK
<1>13. CASE recoverCredentials
  BY <1>0, <1>13, <1>p DEF recoverCredentials, OnePath, CertTypeOK
<1>14. CASE handleAgentCertificateRecovery
  <2>1. call.key \in 0 .. keys /\ 0 \in 0 .. Len(issued)
    BY <1>0, <1>14 DEF handleAgentCertificateRecovery, CertTypeOK
  <2>2. Issues(call.key, 0)
    BY <1>14 DEF handleAgentCertificateRecovery
  <2>3. /\ issued'[held] = issued[held] /\ NextSerial = Len(issued')
        /\ pins' = RotateAgentCert(NextSerial, 0, certOverlapDeadline(clock + Lifetime))
    BY <1>0, <2>1, <2>2, IssuesType DEF CertTypeOK, Unspoiled
  <2>4. pins'.cur = NextSerial
    BY <1>0, <2>3 DEF RotateAgentCert, CertTypeOK
  <2>5. ReplyIsPinned'
    BY <1>0, <1>14, <1>p, <2>4 DEF handleAgentCertificateRecovery, OnePath
  <2>6. HeldIsPinned'
    BY <1>0, <1>14, <1>p, <1>s, <2>3 DEF handleAgentCertificateRecovery, OnePath, CertTypeOK, RotateAgentCert, certOverlapDeadline
  <2> QED
    BY <2>5, <2>6
<1>15. CASE handleCreateAgentCertificateRecoveryGrant
  BY <1>0, <1>15, <1>p DEF handleCreateAgentCertificateRecoveryGrant, OnePath, CertTypeOK
<1>16. CASE Restarts \/ ReloadsState
  <2>1. UNCHANGED <<issued, pins, clock>> /\ (reply' = reply \/ reply' = 0)
    BY <1>16 DEF Restarts, ReloadsState
  <2>2. held' = held \/ held' = pins.cur
    BY <1>16 DEF Restarts, ReloadsState, LoadsCertificate, DiskIsStale, Unspoiled
  <2> QED
    BY <1>p, <1>s, <2>1, <2>2
<1>17. CASE Ticks
  <2>1. issued[held].expires \in Nat /\ clock \in Nat
    BY <1>0, CertFacts
  <2>2. NeedsRefresh(held) => NeedsRefresh(held)'
    BY <1>17, <2>1 DEF Ticks
  <2>3. needsRecovery(held) => needsRecovery(held)'
    BY <1>17, <2>1 DEF Ticks
  <2> HIDE DEF NeedsRefresh, needsRecovery
  <2> QED
    BY <1>17, <1>p, <2>2, <2>3 DEF Ticks
<1>18. CASE UNCHANGED certVars
  BY <1>p, <1>18 DEF certVars
<1>19. ASSUME NEW mode \in {"dial", "listen"}, RunsSwitchJob(mode) PROVE HeldIsPinned' /\ ReplyIsPinned'
  BY <1>19, <1>p DEF RunsSwitchJob
<1>20. CASE ReloadDropsLink
  BY <1>20, <1>p DEF ReloadDropsLink
<1>22. CASE ClearsProbation
  BY <1>22, <1>p DEF ClearsProbation
<1>23. CASE RevertsTransport
  BY <1>23, <1>p DEF RevertsTransport
<1> QED
  BY <1>1, <1>2, <1>3, <1>4, <1>5, <1>6, <1>7, <1>8, <1>9, <1>10, <1>12, <1>13, <1>14, <1>15, <1>16, <1>17, <1>18,
     <1>19, <1>20, <1>22, <1>23 DEF CertNext

\* A saved certificate is the pinned one.
LEMMA SavedIsPinned == CertInv /\ SavesReply /\ "pin" \notin spoiled' => HeldIsPinned'
<1> SUFFICES ASSUME CertInv, SavesReply, "pin" \notin spoiled' PROVE HeldIsPinned'
  OBVIOUS
<1>1. reply # 0 /\ held' = reply /\ pins' = pins /\ "pin" \notin spoiled
  BY DEF SavesReply
<1>2. held' = pins'.cur
  BY <1>1 DEF CertInv, ReplyIsPinned
<1> QED
  BY <1>2 DEF HeldIsPinned

\* So every step keeps the invariant.
LEMMA CertStepInv == CertInv /\ [CertNext]_certVars => CertInv'
<1> SUFFICES ASSUME CertInv, [CertNext]_certVars PROVE CertInv'
  OBVIOUS
<1>1. CertTypeOK'
  BY CertStepType DEF CertInv
<1> QED
  BY <1>1, CertStepPath, CertStepReply, CertStepPinned, SavedIsPinned DEF CertInv, Unspoiled

(***************************************************************************)
(* The type invariant of CertRotation for every lifetime, window and bound:*)
(* what either side holds, pins or awaits is a certificate that was issued.*)
(***************************************************************************)
THEOREM CertTypeCorrect == CertSpec => []CertTypeOK
<1>1. CertInv => CertTypeOK
  BY DEF CertInv
<1> QED
  BY <1>1, CertInitInv, CertStepInv, PTL DEF CertSpec

(***************************************************************************)
(* HandleInStreamRenewalRequest and RenewAgentCertificate pin a certificate*)
(* before the agent can hold it: as long as no pin was lost and no load of *)
(* the state file, by a restart or after a switch, brought a certificate   *)
(* back that was already replaced, an unexpired certificate in use gets it *)
(* a session.                                                              *)
(***************************************************************************)
THEOREM HeldAlwaysUsable == CertSpec => []HeldStaysUsable
<1>1. CertInv => HeldStaysUsable
  <2> SUFFICES ASSUME CertInv, Unspoiled, "closed" \in spoiled => transport = "dial", ~needsRecovery(held)
               PROVE  Usable(held)
    BY DEF HeldStaysUsable, Unspoiled
  <2>1. HeldIsPinned /\ CertTypeOK
    BY DEF CertInv
  <2>2. /\ issued[held].expires \in Nat /\ clock \in Nat /\ pins.until \in Nat /\ held # 0
    BY <2>1, HeldFacts
  <2> QED
    BY <2>1, <2>2 DEF HeldIsPinned, Usable, classifyPresentedSerial, VerdictAt, needsRecovery
<1> QED
  BY <1>1, CertInitInv, CertStepInv, PTL DEF CertSpec

\* A step that neither replaces the certificate nor lets time pass keeps it usable.
LEMMA UsableKept ==
  ASSUME CertInv, [CertNext]_certVars, Usable(held), held' = held, transport' = transport, clock' = clock
  PROVE  Usable(held)'
<1>0. CertTypeOK /\ OnePath /\ PinsDiffer
  BY DEF CertInv
<1> USE CertConstants DEF PinsDiffer, Usable, classifyPresentedSerial, VerdictAt, needsRecovery,
                         NeedsRefresh, switching
<1>1. CASE HandleInStreamRenewalRequest
  <2>1. Head(queue) \in 0 .. keys /\ held \in 0 .. Len(issued)
    BY <1>0, <1>1, RequestFacts
  <2>2. Issues(Head(queue), held)
    BY <1>1 DEF HandleInStreamRenewalRequest
  <2>3. /\ issued'[held] = issued[held]
        /\ \/ pins' = RotateAgentCert(NextSerial, held, certOverlapDeadline(clock + Lifetime))
           \/ pins' = pins
    BY <1>0, <2>1, <2>2, IssuesType DEF CertTypeOK
  <2>4. transport' = transport
    BY <1>1 DEF HandleInStreamRenewalRequest
  <2>5. issued[held].expires \in Nat /\ clock \in Nat /\ pins.until \in Nat /\ held # 0
    BY <1>0, HeldFacts
  <2>6. CASE pins' = pins
    BY <2>3, <2>4, <2>6
  <2>7. CASE pins' # pins /\ held = pins.prev /\ pins.until # 0
    <3>1. pins'.prev = pins.prev /\ pins'.until = pins.until
      BY <1>0, <2>3, <2>5, <2>7, RotateCases
    <3>2. pins.prev # pins.cur
      BY <1>0, CertFacts
    <3> QED
      BY <2>3, <2>4, <2>5, <2>7, <3>1, <3>2
  <2>8. CASE pins' # pins /\ ~(held = pins.prev /\ pins.until # 0)
    <3>1. pins'.prev = pins.cur /\ pins'.until = certOverlapDeadline(clock + Lifetime)
      BY <1>0, <2>3, <2>5, <2>8, RotateCases
    <3>2. clock < certOverlapDeadline(clock + Lifetime)
      BY <2>5 DEF certOverlapDeadline
    <3> QED
      BY <2>3, <2>4, <2>5, <2>8, <3>1, <3>2
  <2> QED
    BY <2>6, <2>7, <2>8
<1>2. CASE RenewAgentCertificate
  <2>1. call.key \in 0 .. keys /\ held \in 0 .. Len(issued)
    BY <1>0, <1>2, SMTT(30) DEF RenewAgentCertificate, CertTypeOK
  <2>2. Issues(call.key, held)
    BY <1>2 DEF RenewAgentCertificate
  <2>3. issued'[held] = issued[held]
    BY <1>0, <2>1, <2>2, IssuesType DEF CertTypeOK
  <2> QED
    BY <1>0, <1>2, <2>3 DEF RenewAgentCertificate, OnePath
<1>3. CASE handleAgentCertificateRecovery
  BY <1>0, <1>3 DEF handleAgentCertificateRecovery, OnePath
<1>4. CASE CloseAgentCertOverlap
  BY <1>0, <1>4 DEF CloseAgentCertOverlap, OnePath, CertTypeOK
<1>5. CASE UNCHANGED <<transport, issued, pins>>
  BY <1>5
<1> QED
  BY <1>1, <1>2, <1>3, <1>4, <1>5 DEF CertNext, certVars, AuthorizeAgentConnect, Drops, ShouldTerminateForRevocation, RenewInStream, TakesReply, TimesOut, RenewIfNeeded, SavesReply, Fails, recoverCredentials, handleCreateAgentCertificateRecoveryGrant, Restarts, Ticks,
       RunsSwitchJob, ReloadDropsLink, ReloadsState, ClearsProbation, RevertsTransport

(***************************************************************************)
(* No step of either side withdraws the certificate the agent presents:    *)
(* rotating the pins and closing the overlap leave it usable, even after a *)
(* lost pin or a restart.                                                  *)
(***************************************************************************)
THEOREM PresenterKept == CertSpec => PresenterNeverEvicted
<1>1. CertInv /\ [CertNext]_certVars =>
        [Usable(held) /\ held' = held /\ transport' = transport /\ clock' = clock
           => Usable(held)']_certVars
  BY UsableKept
<1> QED
  BY <1>1, CertInitInv, CertStepInv, PTL DEF CertSpec, PresenterNeverEvicted

(***************************************************************************)
(* The transport: TransportSwitch.                                         *)
(***************************************************************************)

\* No clear was lost and no two switches crossed.
Clean == spoilt \subseteq {"half"}
\* The mode the state file would fall back to.
LastWorking == IF file.prev = "none" THEN file.mode ELSE file.prev

\* The file and the memory of the agent remember the mode of its last session.
FileRemembers == proven = LastWorking
MemoryRemembers ==
  IF creds.prev = "none" THEN creds.mode = proven ELSE creds = file
\* A session that is served has settled its probation.
ServingIsSettled == loop = "serving" => creds.prev = "none"
\* The inductive invariant of the transport switch.
SwitchInv ==
  /\ SwitchTypeOK /\ ServingIsSettled
  /\ Clean => FileRemembers /\ MemoryRemembers

\* The queue of switch jobs keeps its type and its bound.
LEMMA QueuedType ==
  ASSUME NEW m \in Modes, orders \in Seq(Modes), Len(orders) <= JobCap
  PROVE  Queued(m) \in Seq(Modes) /\ Len(Queued(m)) <= JobCap
<1>1. Len(orders) \in Nat /\ JobCap \in Nat
  BY SwitchAssumption
<1>2. Append(orders, m) \in Seq(Modes) /\ Len(Append(orders, m)) = Len(orders) + 1
  OBVIOUS
<1> QED
  BY <1>1, <1>2 DEF Queued

\* A switch job leaves the queue.
LEMMA TailType ==
  ASSUME orders \in Seq(Modes), Len(orders) <= JobCap, orders # <<>>
  PROVE  Head(orders) \in Modes /\ Tail(orders) \in Seq(Modes) /\ Len(Tail(orders)) <= JobCap
<1>1. Len(orders) \in Nat /\ JobCap \in Nat
  BY SwitchAssumption
<1>2. Head(orders) \in Modes /\ Tail(orders) \in Seq(Modes) /\ Len(Tail(orders)) = Len(orders) - 1
  OBVIOUS
<1> QED
  BY <1>1, <1>2

\* The bounded faults stay bounded.
LEMMA UnluckType ==
  ASSUME unluck \in 0 .. MaxUnluck, Unlucky \/ unluck' = unluck
  PROVE  unluck' \in 0 .. MaxUnluck
BY SwitchAssumption DEF Unlucky

\* The invariant holds initially.
LEMMA SwitchInitInv == SwitchInit => SwitchInv
<1> SUFFICES ASSUME SwitchInit PROVE SwitchInv
  OBVIOUS
<1>1. PICK m \in Modes :
        /\ routes \in SUBSET Modes
        /\ wanted = DirectionOf(m) /\ live = DirectionOf(m) /\ dialer = (m = "listen")
        /\ file = [mode |-> m, prev |-> "none"] /\ creds = [mode |-> m, prev |-> "none"]
        /\ proven = m
  BY DEF SwitchInit
<1>2. /\ puts \in 0 .. MaxPuts /\ unluck \in 0 .. MaxUnluck
      /\ orders \in Seq(Modes) /\ Len(orders) <= JobCap
  BY SwitchAssumption DEF SwitchInit
<1>3. wanted \in Directions /\ live \in Directions
  BY <1>1 DEF DirectionOf, Directions
<1>4. dialer \in BOOLEAN
  BY <1>1, Zenon
<1>5. /\ {file, creds} \subseteq [mode : Modes, prev : {"none"} \cup Modes]
      /\ session \in {"none"} \cup Directions /\ loop \in {"top", "connecting", "opened", "serving"}
      /\ put \in {NoPut, "stored", "queued", "told"} /\ panel \in {"up", "down"}
      /\ window \in {"open", "lapsed"} /\ spoilt \subseteq {"half", "clear", "crossed"}
  BY <1>1 DEF SwitchInit
<1>6. {throttle, admitted, bounded, dialer, pending} \subseteq BOOLEAN
  BY <1>4 DEF SwitchInit
<1>7. SwitchTypeOK
  BY <1>1, <1>2, <1>3, <1>5, <1>6 DEF SwitchTypeOK
<1>8. ServingIsSettled /\ FileRemembers /\ MemoryRemembers
  BY <1>1 DEF SwitchInit, ServingIsSettled, FileRemembers, MemoryRemembers, LastWorking
<1> QED
  BY <1>7, <1>8 DEF SwitchInv

\* Every step keeps the invariant.
LEMMA SwitchStepInv == SwitchInv /\ [SwitchNext]_switchVars => SwitchInv'
<1> SUFFICES ASSUME SwitchInv, [SwitchNext]_switchVars PROVE SwitchInv'
  OBVIOUS
<1> USE DEF SwitchInv, SwitchTypeOK, ServingIsSettled, Clean, FileRemembers, MemoryRemembers,
            LastWorking, panelSide, agentSide, SessionEnds, KeepSession, NoPut, Directions, Modes
<1>1. ASSUME NEW d \in Directions, UpdateAgentTransportMode(d) PROVE SwitchInv'
  <2>1. puts' \in 0 .. MaxPuts
    BY <1>1, SwitchAssumption DEF UpdateAgentTransportMode
  <2> QED
    BY <1>1, <2>1 DEF UpdateAgentTransportMode
<1>2. CASE enqueueTransportSwitchJob
  <2>1. AgentMode(wanted) \in Modes
    BY DEF AgentMode
  <2>2. Queued(AgentMode(wanted)) \in Seq(Modes) /\ Len(Queued(AgentMode(wanted))) <= JobCap
    BY <2>1, QueuedType
  <2>3. unluck' \in 0 .. MaxUnluck
    BY <1>2, UnluckType DEF enqueueTransportSwitchJob
  <2> QED
    BY <1>2, <2>2, <2>3 DEF enqueueTransportSwitchJob
<1>3. CASE updateAgentIdentity
  BY <1>3 DEF updateAgentIdentity
<1>4. CASE OnNodeChanged
  <2>1. unluck' \in 0 .. MaxUnluck
    BY <1>4, UnluckType DEF OnNodeChanged
  <2>2. dialer' \in BOOLEAN
    BY <1>4, Zenon DEF OnNodeChanged
  <2> QED
    BY <1>4, <2>1, <2>2 DEF OnNodeChanged
<1>5. CASE takePending
  <2>1. unluck' \in 0 .. MaxUnluck
    BY <1>5, UnluckType DEF takePending
  <2> QED
    BY <1>5, <2>1 DEF takePending
<1>6. CASE MaybeRevert
  <2>1. unluck' \in 0 .. MaxUnluck
    BY <1>6, UnluckType DEF MaybeRevert
  <2> QED
    BY <1>6, <2>1 DEF MaybeRevert, RevertDue
<1>7. CASE probationClear
  <2>1. unluck' \in 0 .. MaxUnluck
    BY <1>7, UnluckType DEF probationClear
  <2>2. creds' = [mode |-> creds.mode, prev |-> "none"]
    BY <1>7 DEF probationClear
  <2>3. /\ file' = file \/ file' = [mode |-> file.mode, prev |-> "none"]
        /\ spoilt' \subseteq {"half", "clear", "crossed"}
    BY <1>7 DEF probationClear
  <2>4. {file', creds'} \subseteq [mode : Modes, prev : {"none"} \cup Modes]
    BY <2>2, <2>3
  <2>5. SwitchTypeOK'
    BY <1>7, <2>1, <2>3, <2>4 DEF probationClear
  <2>6. ASSUME Clean' PROVE FileRemembers' /\ MemoryRemembers'
    <3>1. Clean /\ proven' = creds.mode
      BY <1>7, <2>6 DEF probationClear
    <3>2. CASE creds.prev = "none"
      BY <1>7, <2>2, <3>1, <3>2 DEF probationClear
    <3>3. CASE creds.prev # "none"
      BY <1>7, <2>2, <2>6, <3>1, <3>3, SMTT(30) DEF probationClear
    <3> QED
      BY <3>2, <3>3
  <2> QED
    BY <2>2, <2>5, <2>6
<1>8. CASE ProbationDeadline
  BY <1>8 DEF ProbationDeadline
<1>9. CASE DialFails
  BY <1>9 DEF DialFails
<1>10. CASE UpdateTransport
  <2>1. unluck' \in 0 .. MaxUnluck
    BY <1>10, UnluckType DEF UpdateTransport
  <2>2. Head(orders) \in Modes /\ orders' \in Seq(Modes) /\ Len(orders') <= JobCap
    BY <1>10, TailType DEF UpdateTransport
  <2>3. file' \in [mode : Modes, prev : {"none"} \cup Modes]
    BY <1>10, <2>2 DEF UpdateTransport
  <2>4. pending' \in BOOLEAN /\ window' \in {"open", "lapsed"}
        /\ spoilt' \subseteq {"half", "clear", "crossed"}
    BY <1>10 DEF UpdateTransport
  <2>5. SwitchTypeOK'
    BY <1>10, <2>1, <2>2, <2>3, <2>4 DEF UpdateTransport
  <2>6. ServingIsSettled' /\ creds.prev = "none"
    BY <1>10 DEF UpdateTransport
  <2>7. ASSUME Clean' PROVE FileRemembers' /\ MemoryRemembers'
    <3>1. Clean /\ (file' = file \/ file.prev = "none" \/ file.mode = Head(orders))
      BY <1>10, <2>7 DEF UpdateTransport
    <3> QED
      BY <1>10, <2>2, <2>6, <3>1 DEF UpdateTransport, Leaves
  <2> QED
    BY <2>5, <2>6, <2>7
<1>11. CASE ReloadCancels
  BY <1>11 DEF ReloadCancels
<1>12. CASE WindowLapses
  BY <1>12 DEF WindowLapses
<1>13. CASE OrderExpires
  BY <1>13, TailType DEF OrderExpires
<1>14. CASE DriftThrottleLapses
  BY <1>14 DEF DriftThrottleLapses
<1>15. CASE SessionDrops
  <2>1. unluck' \in 0 .. MaxUnluck
    BY <1>15, UnluckType DEF SessionDrops
  <2> QED
    BY <1>15, <2>1 DEF SessionDrops
<1>16. CASE AgentProcessRestarts
  <2>1. unluck' \in 0 .. MaxUnluck
    BY <1>16, UnluckType DEF AgentProcessRestarts
  <2> QED
    BY <1>16, <2>1 DEF AgentProcessRestarts
<1>17. CASE PanelStops
  <2>1. unluck' \in 0 .. MaxUnluck
    BY <1>17, UnluckType DEF PanelStops
  <2> QED
    BY <1>17, <2>1 DEF PanelStops
<1>18. CASE ManagerStart
  BY <1>18 DEF ManagerStart
<1>19. CASE Connects
  <2>1. bounded' \in BOOLEAN
    BY <1>19, Zenon DEF Connects
  <2> QED
    BY <1>19, <2>1 DEF Connects, DirectionOf
<1>20. CASE OnAgentSessionEstablished
  <2>1. orders' \in Seq(Modes) /\ Len(orders') <= JobCap
    BY <1>20, QueuedType DEF OnAgentSessionEstablished, AgentMode
  <2> QED
    BY <1>20, <2>1 DEF OnAgentSessionEstablished
<1>21. CASE UNCHANGED switchVars
  BY <1>21 DEF switchVars
<1> QED
  BY <1>1, <1>2, <1>3, <1>4, <1>5, <1>6, <1>7, <1>8, <1>9, <1>10, <1>11, <1>12, <1>13,
     <1>14, <1>15, <1>16, <1>17, <1>18, <1>19, <1>20, <1>21 DEF SwitchNext, PutSteps, LoopSteps

(***************************************************************************)
(* The type invariant of TransportSwitch; the queue of switch jobs stays   *)
(* within its bound.                                                       *)
(***************************************************************************)
THEOREM SwitchTypeCorrect == SwitchSpec => []SwitchTypeOK
<1>1. SwitchInv => SwitchTypeOK
  BY DEF SwitchInv
<1> QED
  BY <1>1, SwitchInitInv, SwitchStepInv, PTL DEF SwitchSpec

(***************************************************************************)
(* Through restarts, failed reloads and reverts and repeated switch jobs   *)
(* the agent's state file keeps the mode of the last session it settled    *)
(* in, as the mode it is in or the one the probation falls back to.        *)
(***************************************************************************)
THEOREM FallbackAlwaysProven == SwitchSpec => []FallbackIsProven
<1>1. SwitchInv => FallbackIsProven
  BY DEF SwitchInv, FallbackIsProven, Clean, FileRemembers, LastWorking
<1> QED
  BY <1>1, SwitchInitInv, SwitchStepInv, PTL DEF SwitchSpec

(***************************************************************************)
(* TelemtUpdate for every number of releases, jobs and faults: its type    *)
(* invariant, and that the update keeps a working binary.                  *)
(***************************************************************************)

(***************************************************************************)
(* What makes the two safety properties inductive: where the last working  *)
(* binary lies at each step of an update.  Before the swap and after the   *)
(* restore it is installed, in between it is the backup.                   *)
(***************************************************************************)
InPlace == {"none", "staged", "restored"}

KeptWhere ==
  unproven = FALSE /\ "mixed" \notin upset =>
    IF update \in InPlace THEN installed \in sound \/ backup \in sound ELSE backup \in sound

EndsWhere == upset = {} => IF update \in InPlace THEN installed \in sound ELSE backup \in sound

UpdateInv == UpdateTypeOK /\ KeptWhere /\ EndsWhere

Kinds == {"crash", "rename", "restart", "mixed"}
FaultsOK == badLuck \in 0..MaxBadLuck /\ upset \subseteq Kinds

(* A fault stays within its bound and is of a known kind. *)
LEMMA FaultBounded ==
  ASSUME FaultsOK, NEW n \in {1, 2}, NEW kind \in SUBSET Kinds, Misfortunes(n, kind)
  PROVE  FaultsOK'
<1>1. badLuck' \in 0..MaxBadLuck
  BY UpdateAssumption DEF FaultsOK, Misfortunes
<1>2. upset' \subseteq Kinds
  BY DEF FaultsOK, Misfortunes
<1> QED
  BY <1>1, <1>2 DEF FaultsOK

LEMMA UpdateInitInv == UpdateInit => UpdateInv
<1> SUFFICES ASSUME UpdateInit PROVE UpdateInv
  OBVIOUS
<1> USE DEF UpdateInit
<1>1. 1 \in Versions
  BY UpdateAssumption DEF Versions
<1>2. sound \subseteq Versions /\ 1 \in sound
  OBVIOUS
<1>3. updates \in 0..MaxUpdates /\ badLuck \in 0..MaxBadLuck
  BY UpdateAssumption
<1>4. UpdateTypeOK
  BY <1>1, <1>2, <1>3 DEF UpdateTypeOK, NoFile, Down
<1> QED
  BY <1>2, <1>4 DEF UpdateInv, KeptWhere, EndsWhere, InPlace

LEMMA UpdateStepType == UpdateTypeOK /\ [UpdateNext]_updateVars => UpdateTypeOK'
<1> SUFFICES ASSUME UpdateTypeOK, [UpdateNext]_updateVars PROVE UpdateTypeOK'
  OBVIOUS
<1>0. FaultsOK
  BY DEF UpdateTypeOK, FaultsOK, Kinds
<1>a. ASSUME NEW n \in {1, 2}, NEW kind \in SUBSET Kinds, Misfortunes(n, kind) PROVE FaultsOK'
  BY <1>0, <1>a, FaultBounded
<1>b. ASSUME UNCHANGED updateFaults PROVE FaultsOK'
  BY <1>0, <1>b DEF updateFaults, FaultsOK
<1> DEFINE Rest ==
      /\ sound \subseteq Versions /\ 1 \in sound
      /\ {installed, backup, goal} \subseteq Versions \cup {NoFile} /\ serving \in Versions \cup {Down}
      /\ answered \in sound \cup {NoFile} /\ (answered # NoFile => update = "gate")
      /\ update \in {"none", "staged", "aside", "swapped", "gate", "roll back", "restored"}
      /\ update = "none" <=> goal = NoFile
      /\ update = "aside" => installed = NoFile
      /\ update \in {"aside", "swapped", "gate", "roll back"} => backup # NoFile
      /\ update \in {"swapped", "gate", "roll back"} => installed = goal
      /\ updates \in 0..MaxUpdates /\ unproven \in BOOLEAN
<1>c. Rest
  BY DEF UpdateTypeOK
<1>d. Rest' /\ FaultsOK' => UpdateTypeOK'
  BY DEF UpdateTypeOK, FaultsOK, Kinds
<1> USE DEF UpdateEnds, Started, AfterRestart, AfterFailedRestart
<1>1. ASSUME NEW v \in Versions, NEW allow \in BOOLEAN, handleTelemtUpdateJob(v, allow)
      PROVE  UpdateTypeOK'
  <2>1. updates' \in 0..MaxUpdates
    BY <1>1, <1>c, UpdateAssumption DEF handleTelemtUpdateJob
  <2>2. v # NoFile
    BY UpdateAssumption DEF Versions, NoFile
  <2>3. Rest'
    BY <1>1, <1>c, <2>1, <2>2 DEF handleTelemtUpdateJob
  <2>4. FaultsOK'
    BY <1>1, <1>b DEF handleTelemtUpdateJob
  <2> QED
    BY <2>3, <2>4, <1>d
<1>2. CASE StagingFails
  <2>1. Rest'
    BY <1>2, <1>c DEF StagingFails
  <2>2. FaultsOK'
    BY <1>2, <1>a, <1>b DEF StagingFails, Misfortune, Kinds
  <2> QED
    BY <2>1, <2>2, <1>d
<1>3. CASE BacksUp
  <2>1. Rest'
    BY <1>3, <1>c DEF BacksUp
  <2>2. FaultsOK'
    BY <1>3, <1>a, <1>b DEF BacksUp, Misfortune, Kinds
  <2> QED
    BY <2>1, <2>2, <1>d
<1>4. CASE BackUpFails
  <2>1. Rest'
    BY <1>4, <1>c DEF BackUpFails
  <2>2. FaultsOK'
    BY <1>4, <1>a, <1>b DEF BackUpFails, Misfortune, Kinds
  <2> QED
    BY <2>1, <2>2, <1>d
<1>5. CASE Installs
  <2>1. Rest'
    BY <1>5, <1>c DEF Installs
  <2>2. FaultsOK'
    BY <1>5, <1>a, <1>b DEF Installs, Misfortune, Kinds
  <2> QED
    BY <2>1, <2>2, <1>d
<1>6. CASE InstallFails
  <2>1. Rest'
    BY <1>6, <1>c DEF InstallFails
  <2>2. FaultsOK'
    BY <1>6, <1>a, <1>b DEF InstallFails, Misfortune, Kinds
  <2> QED
    BY <2>1, <2>2, <1>d
<1>7. CASE RestartsService
  <2>1. Rest'
    BY <1>7, <1>c DEF RestartsService
  <2>2. FaultsOK'
    BY <1>7, <1>a, <1>b DEF RestartsService, Misfortune, Kinds
  <2> QED
    BY <2>1, <2>2, <1>d
<1>8. CASE restoreAfterRestartFailure
  <2>1. Rest'
    BY <1>8, <1>c DEF restoreAfterRestartFailure
  <2>2. FaultsOK'
    BY <1>8, <1>a, <1>b DEF restoreAfterRestartFailure, Misfortune, Kinds
  <2> QED
    BY <2>1, <2>2, <1>d
<1>9. CASE HealthConfirms
  <2>1. Rest'
    BY <1>9, <1>c DEF HealthConfirms, pollHealth
  <2>2. Mixed \subseteq Kinds
    BY DEF Mixed, Kinds
  <2>3. FaultsOK'
    <3>1. CASE upset' = upset \cup Mixed /\ badLuck' = badLuck
      BY <1>0, <2>2, <3>1 DEF FaultsOK
    <3>2. CASE Misfortunes(1, {"rename"} \cup Mixed)
      <4>1. {"rename"} \cup Mixed \in SUBSET Kinds
        BY <2>2 DEF Kinds
      <4> QED
        BY <1>a, <3>2, <4>1
    <3> QED
      BY <1>9, <3>1, <3>2 DEF HealthConfirms, Misfortune
  <2> QED
    BY <2>1, <2>3, <1>d
<1>10. CASE HealthLapses
  <2>1. Rest'
    BY <1>10, <1>c DEF HealthLapses
  <2>2. FaultsOK'
    BY <1>10, <1>a, <1>b DEF HealthLapses, Misfortune, Kinds
  <2> QED
    BY <2>1, <2>2, <1>d
<1>11. CASE restoreBackup
  <2>1. Rest'
    BY <1>11, <1>c DEF restoreBackup
  <2>2. FaultsOK'
    BY <1>11, <1>a, <1>b DEF restoreBackup, Misfortune, Kinds
  <2> QED
    BY <2>1, <2>2, <1>d
<1>12. CASE RollbackRestarts
  <2>1. Rest'
    BY <1>12, <1>c DEF RollbackRestarts, NoFile, Down
  <2>2. FaultsOK'
    BY <1>12, <1>a, <1>b DEF RollbackRestarts, Misfortune, Kinds
  <2> QED
    BY <2>1, <2>2, <1>d
<1>13. CASE AgentDies
  <2>1. Rest'
    BY <1>13, <1>c DEF AgentDies
  <2>2. FaultsOK'
    BY <1>13, <1>a, <1>b DEF AgentDies, Misfortune, Kinds
  <2> QED
    BY <2>1, <2>2, <1>d
<1>14. CASE SupervisorStarts
  <2>1. Rest'
    BY <1>14, <1>c DEF SupervisorStarts, NoFile, Down
  <2>2. FaultsOK'
    BY <1>14, <1>a, <1>b DEF SupervisorStarts, Misfortune, Kinds
  <2> QED
    BY <2>1, <2>2, <1>d
<1>15. CASE HealthReady
  <2>1. Rest'
    BY <1>15, <1>c DEF HealthReady
  <2>2. FaultsOK'
    BY <1>15, <1>b DEF HealthReady
  <2> QED
    BY <2>1, <2>2, <1>d
<1>16. CASE PollsAgain
  <2>1. Rest'
    BY <1>16, <1>c DEF PollsAgain
  <2>2. FaultsOK'
    BY <1>16, <1>b DEF PollsAgain
  <2> QED
    BY <2>1, <2>2, <1>d
<1>17. CASE UNCHANGED updateVars
  <2>1. Rest'
    BY <1>17, <1>c DEF updateVars
  <2>2. FaultsOK'
    BY <1>17, <1>b DEF updateVars, updateFaults
  <2> QED
    BY <2>1, <2>2, <1>d
<1> QED
  BY <1>1, <1>2, <1>3, <1>4, <1>5, <1>6, <1>7, <1>8, <1>9, <1>10, <1>11, <1>12, <1>13, <1>14, <1>15,
     <1>16, <1>17 DEF UpdateNext

LEMMA UpdateStepWhere == UpdateInv /\ [UpdateNext]_updateVars => KeptWhere' /\ EndsWhere'
<1> SUFFICES ASSUME UpdateInv, [UpdateNext]_updateVars PROVE KeptWhere' /\ EndsWhere'
  OBVIOUS
<1> USE DEF UpdateInv, UpdateTypeOK, KeptWhere, EndsWhere, InPlace, NoFile, Down, UpdateEnds,
        Misfortune, Misfortunes, updateFaults, Started, AfterRestart, AfterFailedRestart
<1>1. ASSUME NEW v \in Versions, NEW allow \in BOOLEAN, handleTelemtUpdateJob(v, allow)
      PROVE  KeptWhere' /\ EndsWhere'
  BY <1>1 DEF handleTelemtUpdateJob
<1>2. CASE StagingFails
  BY <1>2 DEF StagingFails
<1>3. CASE BacksUp
  BY <1>3 DEF BacksUp
<1>4. CASE BackUpFails
  BY <1>4 DEF BackUpFails
<1>5. CASE Installs
  BY <1>5 DEF Installs
<1>6. CASE InstallFails
  BY <1>6 DEF InstallFails
<1>7. CASE RestartsService
  BY <1>7 DEF RestartsService
<1>8. CASE restoreAfterRestartFailure
  BY <1>8 DEF restoreAfterRestartFailure
<1>9. CASE HealthConfirms
  BY <1>9 DEF HealthConfirms, pollHealth, Mixed
<1>10. CASE HealthLapses
  BY <1>10 DEF HealthLapses
<1>11. CASE restoreBackup
  BY <1>11 DEF restoreBackup
<1>12. CASE RollbackRestarts
  BY <1>12 DEF RollbackRestarts
<1>13. CASE AgentDies
  BY <1>13 DEF AgentDies
<1>14. CASE SupervisorStarts
  BY <1>14 DEF SupervisorStarts
<1>15. CASE HealthReady
  BY <1>15 DEF HealthReady
<1>16. CASE PollsAgain
  BY <1>16 DEF PollsAgain
<1>17. CASE UNCHANGED updateVars
  BY <1>17 DEF updateVars
<1> QED
  BY <1>1, <1>2, <1>3, <1>4, <1>5, <1>6, <1>7, <1>8, <1>9, <1>10, <1>11, <1>12, <1>13, <1>14, <1>15,
     <1>16, <1>17 DEF UpdateNext

LEMMA UpdateInvAlways == UpdateSpec => []UpdateInv
<1>1. UpdateInv /\ [UpdateNext]_updateVars => UpdateInv'
  BY UpdateStepType, UpdateStepWhere DEF UpdateInv
<1> QED
  BY UpdateInitInv, <1>1, PTL DEF UpdateSpec

(***************************************************************************)
(* The type invariant: a step past the swap has a backup and the target    *)
(* installed, and the running process is a release that comes up.          *)
(***************************************************************************)
THEOREM UpdateTypeCorrect == UpdateSpec => []UpdateTypeOK
<1>1. UpdateInv => UpdateTypeOK
  BY DEF UpdateInv
<1> QED
  BY UpdateInvAlways, <1>1, PTL

(***************************************************************************)
(* While every swap replaces the working, running binary and no poll       *)
(* mixes two processes, no sequence of crashes, failed renames, failed     *)
(* restarts and repeated jobs of telemtupdate.Execute loses the last       *)
(* working release.                                                        *)
(***************************************************************************)
THEOREM WorkingBinaryAlwaysKept == UpdateSpec => []WorkingBinaryKept
<1>1. UpdateInv => WorkingBinaryKept
  BY DEF UpdateInv, UpdateTypeOK, KeptWhere, WorkingBinaryKept
<1> QED
  BY UpdateInvAlways, <1>1, PTL

(***************************************************************************)
(* An update of telemtupdate.Execute that met no crash and no failed       *)
(* rename or restart leaves a working release installed.                   *)
(***************************************************************************)
THEOREM UpdateEndsInstalled == UpdateSpec => []EndsInstalled
<1>1. UpdateInv => EndsInstalled
  BY DEF UpdateInv, EndsWhere, EndsInstalled, InPlace
<1> QED
  BY UpdateInvAlways, <1>1, PTL
=============================================================================
