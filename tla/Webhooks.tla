------------------------------ MODULE Webhooks ------------------------------
(***************************************************************************)
(* The webhook outbox (controlplane/webhooks and the tables                *)
(* webhook_endpoints, webhook_outbox): Publish lists the endpoints and     *)
(* inserts the fan-out of an event in one transaction; the worker claims a *)
(* batch, posts one delivery after the other and marks each row.           *)
(*                                                                         *)
(* A row becomes due at its next_attempt_at, so the rows ordered by that   *)
(* column are the rows in the order in which they became due: ready.  A    *)
(* failed row waits for its backoff to lapse and then joins at the end; a  *)
(* row deleted with its endpoint keeps its place and is passed over.       *)
(*                                                                         *)
(* The table row of a delivery is fate; it implements Outbox.              *)
(***************************************************************************)
EXTENDS Naturals, Sequences, FiniteSets

CONSTANTS
  Notices,      \* events
  Receivers,    \* endpoint ids
  BatchSize,    \* rows per claim
  WebhookAttempts, \* MaxAttempts of the worker
  MaxEdits,     \* bound: operator changes of endpoints
  MaxTroubles   \* bound: refusals, failures and crashes together

ASSUME WebhookConstants ==
  /\ IsFiniteSet(Notices) /\ IsFiniteSet(Receivers)
  /\ BatchSize \in Nat \ {0} /\ WebhookAttempts \in Nat \ {0}
  /\ MaxEdits \in Nat /\ MaxTroubles \in Nat

VARIABLES
  fate,       \* delivery -> state of its row; "gone": deleted or cascaded
  attempt,    \* delivery -> column attempt
  ready,      \* the rows that became due, ordered by next_attempt_at
  claim,      \* the worker's copy: [row, attempt] of the deliveries to make
  answer,     \* what is known of the delivery at the head of claim
  fanout,     \* event -> rows its Publish is about to insert
  open,       \* the endpoints there are
  disabled,   \* endpoints with enabled = 0
  unreadable, \* endpoints whose secret cannot be decrypted
  accepted,   \* ghost: deliveries a receiver has answered with 2xx
  refusals,   \* ghost: deliveries the preflight has refused
  posts,      \* ghost: delivery -> failed POSTs
  left        \* [edits, troubles] left

rowVars == <<fate, attempt, ready>>
endpointVars == <<open, disabled, unreadable>>
webhookVars == <<rowVars, claim, answer, fanout, endpointVars, accepted, refusals, posts, left>>

Deliveries == Notices \X Receivers
Answers == {"none", "ok", "failed", "refused"}

\* The types; above all, a claim holds at most BatchSize rows and no row counts
\* more than MaxAttempts attempts.
WebhookTypeOK ==
  /\ fate \in [Deliveries -> {"none", "owed", "delivered", "dead", "gone"}]
  /\ attempt \in [Deliveries -> 0 .. WebhookAttempts]
  /\ ready \in Seq(Deliveries)
  /\ claim \in Seq([row : Deliveries, attempt : 0 .. WebhookAttempts])
  /\ Len(claim) <= BatchSize
  /\ answer \in Answers
  /\ fanout \in [Notices -> SUBSET Deliveries]
  /\ open \subseteq Receivers /\ disabled \subseteq Receivers /\ unreadable \subseteq Receivers
  /\ accepted \subseteq Deliveries
  /\ refusals \subseteq Deliveries
  /\ posts \in [Deliveries -> Nat]
  /\ left \in [edits : Nat, troubles : Nat]

WebhookInit ==
  /\ fate = [d \in Deliveries |-> "none"]
  /\ attempt = [d \in Deliveries |-> 0]
  /\ ready = <<>> /\ claim = <<>>
  /\ answer = "none"
  /\ fanout = [v \in Notices |-> {}]
  /\ open = Receivers /\ disabled = {} /\ unreadable = {}
  /\ accepted = {}
  /\ refusals = {}
  /\ posts = [d \in Deliveries |-> 0]
  /\ left = [edits |-> MaxEdits, troubles |-> MaxTroubles]

Trouble ==
  /\ left.troubles > 0
  /\ left' = [left EXCEPT !.troubles = @ - 1]

Edit ==
  /\ left.edits > 0
  /\ left' = [left EXCEPT !.edits = @ - 1]

---------------------------------------------------------------------------
(* Producer.                                                               *)

Enabled == open \ disabled

\* Publish: ListEnabledEndpoints, which one unreadable secret makes fail.  The
\* event matches the filter of every endpoint.
PublishLists(v) ==
  /\ fanout[v] = {} /\ \A e \in Receivers : fate[<<v, e>>] = "none"
  /\ Enabled # {} /\ Enabled \intersect unreadable = {}
  /\ fanout' = [fanout EXCEPT ![v] = {v} \X Enabled]
  /\ UNCHANGED <<rowVars, claim, answer, endpointVars, accepted, refusals, posts, left>>

\* InsertOutboxBatch: a row whose endpoint is gone breaks the foreign key, and
\* the transaction takes all the others with it.
Inserted(S) == IF \A d \in S : d[2] \in open THEN S ELSE {}

\* The rows of one event have the same next_attempt_at; the id, which is random,
\* breaks the tie.
Orders(S) == {q \in [1 .. Cardinality(S) -> S] : \A i, j \in DOMAIN q : q[i] = q[j] => i = j}

PublishInserts(v) ==
  LET S == Inserted(fanout[v])
  IN  /\ fanout[v] # {}
      /\ fate' = [d \in Deliveries |-> IF d \in S THEN "owed" ELSE fate[d]]
      /\ \E q \in Orders(S) : ready' = ready \o q
      /\ fanout' = [fanout EXCEPT ![v] = {}]
      /\ UNCHANGED <<attempt, claim, answer, endpointVars, accepted, refusals, posts, left>>

\* The transaction fails: logged, nothing is sent for this event.
PublishFails(v) ==
  /\ fanout[v] # {}
  /\ Trouble
  /\ fanout' = [fanout EXCEPT ![v] = {}]
  /\ UNCHANGED <<rowVars, claim, answer, endpointVars, accepted, refusals, posts>>

---------------------------------------------------------------------------
(* Worker.                                                                 *)

\* Mutant: a row that failed once is not selected again.
DueOnce(i) == fate[ready[i]] = "owed" /\ ready[i][2] \in Enabled /\ attempt[ready[i]] = 0

\* What the query of ClaimReady selects of the i-th row that became due: a row that
\* is still there, of an enabled endpoint.
Due(i) == fate[ready[i]] = "owed" /\ ready[i][2] \in Enabled

\* The n rows at these places are the first BatchSize of those that are due.
Claimable(n, at) ==
  /\ n <= BatchSize
  /\ \A k \in 1 .. n : Due(at[k]) /\ \A j \in 1 .. n : j < k => at[j] < at[k]
  /\ \A i \in DOMAIN ready : Due(i) => \/ \E k \in 1 .. n : at[k] = i
                                       \/ n = BatchSize /\ at[n] < i

\* ClaimReady writes nothing.  One secret that cannot be decrypted fails the whole
\* claim.
ClaimReady ==
  /\ claim = <<>>
  /\ \E n \in 1 .. Len(ready) : \E at \in [1 .. n -> DOMAIN ready] :
       /\ Claimable(n, at)
       /\ \A k \in 1 .. n : ready[at[k]][2] \notin unreadable
       /\ claim' = [k \in 1 .. n |-> [row |-> ready[at[k]], attempt |-> attempt[ready[at[k]]]]]
  /\ UNCHANGED <<rowVars, answer, fanout, endpointVars, accepted, refusals, posts, left>>

Row == Head(claim).row

\* preflight refuses the URL, or its host does not resolve just now.
Refused ==
  /\ claim # <<>> /\ answer = "none"
  /\ Trouble
  /\ answer' = "refused"
  /\ refusals' = refusals \union {Row}
  /\ UNCHANGED <<rowVars, claim, fanout, endpointVars, accepted, posts>>

\* A 2xx is read from the response.
Posted ==
  /\ claim # <<>> /\ answer = "none"
  /\ answer' = "ok"
  /\ accepted' = accepted \union {Row}
  /\ UNCHANGED <<rowVars, claim, fanout, endpointVars, refusals, posts, left>>

\* Another status or a transport error; after a timeout the receiver may have
\* accepted all the same.
PostFailed(taken) ==
  /\ claim # <<>> /\ answer = "none"
  /\ Trouble
  /\ answer' = "failed"
  /\ accepted' = IF taken THEN accepted \union {Row} ELSE accepted
  /\ posts' = [posts EXCEPT ![Row] = @ + 1]
  /\ UNCHANGED <<rowVars, claim, fanout, endpointVars, refusals>>

NextDelivery == claim' = Tail(claim) /\ answer' = "none"

CutAt(s, i) == SubSeq(s, 1, i - 1) \o SubSeq(s, i + 1, Len(s))

\* The row is no longer due.
NotReady(d) == \E i \in DOMAIN ready : ready[i] = d /\ ready' = CutAt(ready, i)

\* Mutant: one attempt too few is made.
CountedTwice == IF answer = "refused" \/ Head(claim).attempt + 2 > WebhookAttempts
                THEN WebhookAttempts ELSE Head(claim).attempt + 2

\* recordFailure and failPermanently: the attempt that is stored.
NextAttempt == IF answer = "refused" THEN WebhookAttempts ELSE Head(claim).attempt + 1

\* An UPDATE by id: a row that was deleted meanwhile is not found.
RowExists == fate[Row] # "gone"

\* MarkDelivered, or MarkFailed with the next attempt after a backoff.
Mark ==
  LET dead == NextAttempt >= WebhookAttempts
  IN  /\ claim # <<>> /\ answer # "none"
      /\ NextDelivery
      /\ IF ~RowExists THEN UNCHANGED rowVars
         ELSE /\ NotReady(Row)
              /\ fate' = [fate EXCEPT ![Row] = IF answer = "ok" THEN "delivered"
                                               ELSE IF dead THEN "dead" ELSE @]
              /\ attempt' = IF answer = "ok" THEN attempt ELSE [attempt EXCEPT ![Row] = NextAttempt]
      /\ UNCHANGED <<fanout, endpointVars, accepted, refusals, posts, left>>

\* The store fails: logged, the row stays due and is claimed again.
MarkFails ==
  /\ claim # <<>> /\ answer # "none"
  /\ Trouble
  /\ NextDelivery
  /\ UNCHANGED <<rowVars, fanout, endpointVars, accepted, refusals, posts>>

InReady == {ready[i] : i \in DOMAIN ready}

\* The backoff of a failed row is over.
BackoffLapses(d) ==
  /\ fate[d] = "owed" /\ d \notin InReady
  /\ ready' = Append(ready, d)
  /\ UNCHANGED <<fate, attempt, claim, answer, fanout, endpointVars, accepted, refusals, posts, left>>

---------------------------------------------------------------------------
(* Operator, retention and crash.                                          *)

\* UpdateEndpoint: enabled or not, perhaps with a new secret.
UpdateEndpoint(e) ==
  /\ e \in open
  /\ Edit
  /\ \/ disabled' = disabled \union {e}
     \/ disabled' = disabled \ {e}
  /\ unreadable' \in {unreadable, unreadable \ {e}}
  /\ UNCHANGED <<rowVars, claim, answer, fanout, open, accepted, refusals, posts>>

\* DeleteEndpoint cascades to the outbox.
DeleteEndpoint(e) ==
  /\ e \in open
  /\ Edit
  /\ open' = open \ {e}
  /\ fate' = [d \in Deliveries |-> IF d[2] = e /\ fate[d] # "none" THEN "gone" ELSE fate[d]]
  /\ UNCHANGED <<attempt, ready, claim, answer, fanout, disabled, unreadable, accepted, refusals, posts>>

\* The key that sealed a secret is no longer the panel's.
SecretLost(e) ==
  /\ e \in open \ unreadable
  /\ Trouble
  /\ unreadable' = unreadable \union {e}
  /\ UNCHANGED <<rowVars, claim, answer, fanout, open, disabled, accepted, refusals, posts>>

\* Mutant: retention looks at the age alone.
PruneAnything(d) == fate[d] \notin {"none", "gone"} /\ d \notin InReady

Prunable(d) == fate[d] \in {"delivered", "dead"}

\* PruneOutbox: the settled rows that are old enough.
PruneOutbox(d) ==
  /\ Prunable(d)
  /\ fate' = [fate EXCEPT ![d] = "gone"]
  /\ UNCHANGED <<attempt, ready, claim, answer, fanout, endpointVars, accepted, refusals, posts, left>>

\* The panel dies: the claim and every unfinished Publish are lost.
PanelCrash ==
  /\ Trouble
  /\ claim' = <<>> /\ answer' = "none"
  /\ fanout' = [v \in Notices |-> {}]
  /\ UNCHANGED <<rowVars, endpointVars, accepted, refusals, posts>>

---------------------------------------------------------------------------
Delivering == Refused \/ Posted \/ (\E taken \in BOOLEAN : PostFailed(taken)) \/ Mark \/ MarkFails

WebhookNext ==
  \/ \E v \in Notices : PublishLists(v) \/ PublishInserts(v) \/ PublishFails(v)
  \/ ClaimReady
  \/ Delivering
  \/ \E d \in Deliveries : BackoffLapses(d) \/ PruneOutbox(d)
  \/ \E e \in Receivers : UpdateEndpoint(e) \/ DeleteEndpoint(e) \/ SecretLost(e)
  \/ PanelCrash

\* The ticker of the worker recurs, a POST ends within its timeout and time passes.
WebhookFairness ==
  /\ WF_webhookVars(ClaimReady) /\ WF_webhookVars(Delivering)
  /\ \A d \in Deliveries : WF_webhookVars(BackoffLapses(d))

WebhookSpec == WebhookInit /\ [][WebhookNext]_webhookVars /\ WebhookFairness

---------------------------------------------------------------------------
(* Properties.                                                             *)

Promise == INSTANCE Outbox WITH fate <- fate, accepted <- accepted, open <- open

\* At-least-once: no delivery is lost between the fan-out, the claim, the POST
\* and the mark, whatever crashes or fails in between; one is marked delivered
\* only after a receiver has accepted it.
AtLeastOnce == Promise!OutboxSpec

\* A delivery is dead-lettered only after MaxAttempts POSTs were made and failed,
\* or because the preflight refused it: a crash, a failed mark or a claim that is
\* repeated never uses attempts up.
DeadIsEarned ==
  \A d \in Deliveries : fate[d] = "dead" => d \in refusals \/ posts[d] >= WebhookAttempts

\* A delivery owed to an endpoint that stays enabled is settled in the end, unless
\* a secret that cannot be read blocks the outbox.
EveryDeliverySettles ==
  \A d \in Deliveries :
    fate[d] = "owed" ~> (fate[d] # "owed" \/ d[2] \in disabled \/ unreadable # {})
=============================================================================
