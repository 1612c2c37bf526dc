------------------------ MODULE ConfigRolloutProofs -------------------------
(***************************************************************************)
(* The rolling configuration apply, for all sets of batches and nodes: its *)
(* types, that a batch reported as succeeded was applied everywhere, and   *)
(* that a target reported as lost is lost.                                 *)
(*                                                                         *)
(* The worker reads the rows, derives its verdicts and writes them in      *)
(* separate steps while requests enqueue and record, jobs finish and are   *)
(* forgotten.  The invariant says what stays true of a row that was read   *)
(* and of a verdict that was reached for as long as the pass may use it.   *)
(***************************************************************************)
EXTENDS ConfigRollout, TLAPS

\* The shape of the rows, the requests and the pass.
BatchRows == [status : {"none", "running", "succeeded", "failed", "pruned"}, older : Nat]
TargetRows == [status : {"none", "pending", "running"} \cup Terminal, job : Batches \cup {NoJob}]
JobStates == {"none", "queued", "succeeded", "failed", "forgotten"}
ReqShape == [step : {"idle", "enqueue", "record", "failing", "over"}, left : SUBSET Hosts,
             host : Hosts \cup {"none"}, queued : BOOLEAN]
Passings == [step : {"idle", "derive", "write", "flip"}, on : Batches \cup {NoJob},
             rows : [Hosts -> TargetRows], left : SUBSET Hosts,
             verdict : [Hosts -> {"none"} \cup Terminal]]

\* The types of the state.
RolloutShape ==
  /\ rollout \in [Batches -> BatchRows]
  /\ target \in [Batches -> [Hosts -> TargetRows]]
  /\ applyJob \in [Batches -> [Hosts -> JobStates]]
  /\ created \in Seq(Batches \X Hosts)
  /\ request \in [Batches -> ReqShape]
  /\ listed \subseteq Batches
  /\ advance \in Passings
  /\ mischance \in 0 .. MaxMischance
  /\ reached \subseteq Batches \X Hosts /\ raced \subseteq Batches
  /\ foreign \subseteq Batches \X Hosts

\* Job <<j, h>> is not older than batch b, and b is served by its own job or an adopted one.
InOrder(b, h, j) == \E i \in NotOlder(b) : created[i] = <<j, h>>
AppliedSince(b, h) == OwnApplied(b, h) \/ AdoptedApplied(b, h)

\* The request of b has nothing more to say of node h.
Recorded(b, h) == h \notin request[b].left /\ ~(request[b].step = "record" /\ request[b].host = h)
Fulfilled(b, h) == AppliedSince(b, h) \/ (target[b][h] = RecordedRow(b, FALSE) /\ Recorded(b, h))

\* No job of target h of b is left in the queue, and none will be made.
OwnJob(b, h) == IF target[b][h].job = NoJob THEN b ELSE target[b][h].job
TrulyLost(b, h) ==
  /\ request[b].step \notin {"enqueue", "record"}
  /\ applyJob[OwnJob(b, h)][h] \in {"none", "forgotten"}

\* A batch that is not there has left no trace; a pruned one has no targets.
FreshOK(b) ==
  /\ rollout[b].older <= Len(created)
  /\ rollout[b].status = "none" =>
       /\ request[b].step = "idle" /\ request[b].left = {} /\ b \notin listed
       /\ \A h \in Hosts : applyJob[b][h] = "none"
  /\ rollout[b].status \in {"none", "pruned"} => \A h \in Hosts : target[b][h] = NoTarget

\* A request records only the node whose job it has just made; no job of a node that is
\* left exists.
RequestOK(b) ==
  /\ request[b].step = "record" =>
       /\ request[b].host \in Hosts \ request[b].left
       /\ request[b].queued => applyJob[b][request[b].host] \notin {"none", "forgotten"}
  /\ \A h \in request[b].left : applyJob[b][h] = "none"

\* A job is in the order of creation, and one that succeeded has reached the agent.
JobOK(b, h) ==
  /\ applyJob[b][h] # "none" => InOrder(b, h, b)
  /\ applyJob[b][h] = "succeeded" => <<b, h>> \in reached

\* The order of creation holds only jobs that were made.
JobsMade == \A i \in 1 .. Len(created) : applyJob[created[i][1]][created[i][2]] # "none"

\* A row names a job not older than its batch; success and loss are what they claim.
TargetOK(b, h) ==
  LET row == target[b][h]
  IN  /\ row.job # NoJob => InOrder(b, h, row.job)
      /\ row.job # NoJob /\ applyJob[row.job][h] = "forgotten" => request[b].step \in {"idle", "over"}
      /\ row.status = "succeeded" => Fulfilled(b, h)
      /\ row.status = "lost" /\ b \notin raced => TrulyLost(b, h)

\* A batch that succeeded is out of the list, and every target of it is fulfilled.
SucceededOK(b) ==
  rollout[b].status = "succeeded" =>
    b \notin listed /\ \A h \in Hosts : target[b][h] = NoTarget \/ Fulfilled(b, h)

\* What the pass has read and concluded still stands.
PassReads(b, h) ==
  LET row == advance.rows[h]  verdict == advance.verdict[h]
  IN  /\ target[b][h] # NoTarget => row # NoTarget
      /\ row.job # NoJob => InOrder(b, h, row.job)
      /\ row.job # NoJob /\ applyJob[row.job][h] = "forgotten" =>
           target[b][h].job = row.job /\ request[b].step \in {"idle", "over"}
      /\ row.job = NoJob /\ target[b][h].job # NoJob => applyJob[target[b][h].job][h] # "forgotten"
      /\ row.status = "succeeded" => Fulfilled(b, h)
      /\ verdict = "succeeded" => AppliedSince(b, h) \/ row.status = "succeeded"
      /\ (row.status = "lost" \/ verdict = "lost") /\ b \notin raced => TrulyLost(b, h)

\* Which targets the pass has still to judge, or to write.
PassPlace(h) ==
  LET row == advance.rows[h]  verdict == advance.verdict[h]
  IN  /\ row # NoTarget /\ verdict = "none" => advance.step = "derive" /\ h \in advance.left
      /\ h \in advance.left => IF advance.step = "derive" THEN verdict = "none"
                               ELSE verdict \notin {"none", row.status}
      /\ row.status \in Terminal => verdict \in {"none", row.status}

\* Both together, for one node; they bind while a pass is under way.
ScanOK(b, h) == PassReads(b, h) /\ PassPlace(h)

\* A pass is under way, and works on a batch that is still open and was taken off the list.
Advancing == advance.step # "idle"
AdvanceOK ==
  Advancing =>
    /\ advance.on \in Batches \ listed
    /\ rollout[advance.on].status \notin {"none", "succeeded"}
    /\ \A h \in Hosts : ScanOK(advance.on, h)

\* A job of another batch in a row, or in a row the pass has read, was adopted.
ForeignOK ==
  /\ \A b \in Batches, h \in Hosts : target[b][h].job \notin {NoJob, b} => <<b, h>> \in foreign
  /\ Advancing => \A h \in Hosts : advance.rows[h].job \notin {NoJob, advance.on} =>
                                      <<advance.on, h>> \in foreign

\* The inductive invariant of the rollout.
RolloutInv ==
  /\ RolloutShape /\ JobsMade /\ AdvanceOK /\ ForeignOK
  /\ \A b \in Batches : FreshOK(b) /\ RequestOK(b) /\ SucceededOK(b)
  /\ \A b \in Batches, h \in Hosts : JobOK(b, h) /\ TargetOK(b, h)

---------------------------------------------------------------------------
(* Shape.                                                                  *)

\* The fields of a target row.
LEMMA TargetRowFacts ==
  /\ NoTarget \in TargetRows /\ NoTarget.status = "none" /\ NoTarget.job = NoJob
  /\ \A s \in {"pending", "running"} \cup Terminal, j \in Batches \cup {NoJob} :
       [status |-> s, job |-> j] \in TargetRows
  /\ \A row \in TargetRows : row.status \in {"none", "pending", "running"} \cup Terminal
                             /\ row.job \in Batches \cup {NoJob}
                             /\ row = [status |-> row.status, job |-> row.job]
BY DEF NoTarget, TargetRows

\* The fields of a request.
LEMMA RequestShape ==
  /\ NoRequest \in ReqShape /\ NoRequest.step = "idle" /\ NoRequest.left = {}
  /\ \A s \in {"idle", "enqueue", "record", "failing", "over"}, l \in SUBSET Hosts :
       /\ [NoRequest EXCEPT !.step = s, !.left = l] \in ReqShape
       /\ [NoRequest EXCEPT !.step = s, !.left = l].step = s
       /\ [NoRequest EXCEPT !.step = s, !.left = l].left = l
  /\ \A r \in ReqShape : r.step \in {"idle", "enqueue", "record", "failing", "over"}
                         /\ r.left \subseteq Hosts /\ r.queued \in BOOLEAN
BY DEF NoRequest, ReqShape

\* A request that is over.
LEMMA OverFacts ==
  LET over == [NoRequest EXCEPT !.step = "over"]
  IN  over \in ReqShape /\ over.step = "over" /\ over.left = {}
BY DEF NoRequest, ReqShape

\* No pass under way.
LEMMA NotAdvancingFacts == NotAdvancing \in Passings /\ NotAdvancing.step = "idle"
<1>1. [h \in Hosts |-> NoTarget] \in [Hosts -> TargetRows]
  BY TargetRowFacts
<1>2. [h \in Hosts |-> "none"] \in [Hosts -> {"none"} \cup Terminal]
  OBVIOUS
<1> QED
  BY <1>1, <1>2 DEF NotAdvancing, Passings

\* The fields of a pass.
LEMMA PassingFacts ==
  ASSUME NEW p \in Passings
  PROVE  /\ p.step \in {"idle", "derive", "write", "flip"} /\ p.on \in Batches \cup {NoJob}
         /\ p.rows \in [Hosts -> TargetRows] /\ p.left \subseteq Hosts
         /\ p.verdict \in [Hosts -> {"none"} \cup Terminal]
BY DEF Passings

\* The types of the values used below.
LEMMA FieldFacts ==
  ASSUME RolloutShape
  PROVE  /\ \A b \in Batches : /\ rollout[b] \in BatchRows /\ rollout[b].older \in Nat
                               /\ rollout[b].status \in {"none", "running", "succeeded", "failed", "pruned"}
                               /\ request[b] \in ReqShape
                               /\ request[b].step \in {"idle", "enqueue", "record", "failing", "over"}
                               /\ request[b].left \subseteq Hosts /\ request[b].queued \in BOOLEAN
                               /\ target[b] \in [Hosts -> TargetRows]
                               /\ applyJob[b] \in [Hosts -> JobStates]
         /\ \A b \in Batches, h \in Hosts : /\ target[b][h] \in TargetRows
                                            /\ applyJob[b][h] \in JobStates
         /\ Len(created) \in Nat /\ \A i \in 1 .. Len(created) : created[i] \in Batches \X Hosts
<1>1. \A b \in Batches : /\ rollout[b] \in BatchRows /\ request[b] \in ReqShape
                         /\ target[b] \in [Hosts -> TargetRows] /\ applyJob[b] \in [Hosts -> JobStates]
  BY DEF RolloutShape
<1>2. \A r \in BatchRows : r.older \in Nat /\ r.status \in {"none", "running", "succeeded", "failed", "pruned"}
  BY DEF BatchRows
<1>3. \A b \in Batches, h \in Hosts : target[b][h] \in TargetRows /\ applyJob[b][h] \in JobStates
  BY <1>1
<1>4. Len(created) \in Nat /\ \A i \in 1 .. Len(created) : created[i] \in Batches \X Hosts
  BY DEF RolloutShape
<1> QED
  BY <1>1, <1>2, <1>3, <1>4, RequestShape

\* The bounded faults stay bounded.
LEMMA MischanceShape ==
  ASSUME RolloutShape, Mischance
  PROVE  mischance' \in 0 .. MaxMischance
BY RolloutAssumption DEF RolloutShape, Mischance

\* The two ways rows are written.
LEMMA WriteRowFacts ==
  ASSUME RolloutShape, NEW b \in Batches, NEW h \in Hosts, NEW row \in TargetRows,
         target' = WriteRow(b, h, row)
  PROVE  /\ target' \in [Batches -> [Hosts -> TargetRows]]
         /\ target'[b][h] = IF target[b][h] = NoTarget THEN NoTarget ELSE row
         /\ \A c \in Batches, k \in Hosts : c # b \/ k # h => target'[c][k] = target[c][k]
<1>1. target \in [Batches -> [Hosts -> TargetRows]] /\ target[b] \in [Hosts -> TargetRows]
  BY DEF RolloutShape
<1>2. CASE target[b][h] = NoTarget
  BY <1>1, <1>2 DEF WriteRow
<1>3. CASE target[b][h] # NoTarget
  <2>1. target' = [target EXCEPT ![b] = [target[b] EXCEPT ![h] = row]]
    BY <1>1, <1>3 DEF WriteRow
  <2> DEFINE t == [target[b] EXCEPT ![h] = row]
  <2>2. t \in [Hosts -> TargetRows] /\ t[h] = row /\ \A k \in Hosts : k # h => t[k] = target[b][k]
    BY <1>1
  <2> HIDE DEF t
  <2>3. target'[b] = t /\ \A c \in Batches : c # b => target'[c] = target[c]
    BY <1>1, <2>1 DEF t
  <2>4. target' \in [Batches -> [Hosts -> TargetRows]]
    BY <1>1, <2>1, <2>2 DEF t
  <2> QED
    BY <1>3, <2>2, <2>3, <2>4
<1> QED
  BY <1>2, <1>3

\* SetConfigApplyBatchStatus writes one row, and none that was pruned.
LEMMA SetStatusFacts ==
  ASSUME RolloutShape, NEW b \in Batches, NEW s \in {"succeeded", "failed"}, SetStatus(b, s)
  PROVE  /\ rollout' \in [Batches -> BatchRows]
         /\ \A c \in Batches : rollout'[c].older = rollout[c].older
         /\ rollout'[b].status = IF rollout[b].status = "pruned" THEN "pruned" ELSE s
         /\ \A c \in Batches : c # b => rollout'[c] = rollout[c]
<1>1. rollout \in [Batches -> BatchRows] /\ rollout[b] \in BatchRows
  BY DEF RolloutShape
<1>2. CASE rollout[b].status = "pruned"
  BY <1>1, <1>2 DEF SetStatus
<1>3. CASE rollout[b].status # "pruned"
  <2> DEFINE r == [rollout[b] EXCEPT !.status = s]
  <2>1. r \in BatchRows /\ r.older = rollout[b].older /\ r.status = s
    BY <1>1 DEF BatchRows
  <2>2. rollout' = [rollout EXCEPT ![b] = r]
    BY <1>1, <1>3 DEF SetStatus
  <2> HIDE DEF r
  <2> QED
    BY <1>1, <1>3, <2>1, <2>2
<1> QED
  BY <1>2, <1>3

\* A job enters the queue, or a job's state changes.
JobWrites(b, h, s) == applyJob' = [applyJob EXCEPT ![b][h] = s]

\* Only that job changes.
LEMMA JobWriteFacts ==
  ASSUME RolloutShape, NEW b \in Batches, NEW h \in Hosts, NEW s \in JobStates, JobWrites(b, h, s)
  PROVE  /\ applyJob' \in [Batches -> [Hosts -> JobStates]]
         /\ applyJob'[b][h] = s
         /\ \A c \in Batches, k \in Hosts : c # b \/ k # h => applyJob'[c][k] = applyJob[c][k]
<1>1. applyJob \in [Batches -> [Hosts -> JobStates]] /\ applyJob[b] \in [Hosts -> JobStates]
  BY DEF RolloutShape
<1> DEFINE t == [applyJob[b] EXCEPT ![h] = s]
<1>2. t \in [Hosts -> JobStates] /\ t[h] = s /\ \A k \in Hosts : k # h => t[k] = applyJob[b][k]
  BY <1>1
<1>3. applyJob' = [applyJob EXCEPT ![b] = t]
  BY <1>1 DEF JobWrites
<1> HIDE DEF t
<1>4. applyJob'[b] = t /\ \A c \in Batches : c # b => applyJob'[c] = applyJob[c]
  BY <1>1, <1>3
<1>5. applyJob' \in [Batches -> [Hosts -> JobStates]]
  BY <1>1, <1>2, <1>3
<1> QED
  BY <1>2, <1>4, <1>5

\* One request moves.
LEMMA RequestWriteFacts ==
  ASSUME RolloutShape, NEW b \in Batches, NEW r \in ReqShape, request' = [request EXCEPT ![b] = r]
  PROVE  /\ request' \in [Batches -> ReqShape] /\ request'[b] = r
         /\ \A c \in Batches : c # b => request'[c] = request[c]
BY DEF RolloutShape

\* One request fails.
LEMMA FailingFacts ==
  ASSUME RolloutShape, NEW b \in Batches, request' = [request EXCEPT ![b].step = "failing"]
  PROVE  /\ request' \in [Batches -> ReqShape] /\ request'[b].step = "failing"
         /\ request'[b].left = request[b].left
         /\ \A c \in Batches : c # b => request'[c] = request[c]
<1> DEFINE r == [request[b] EXCEPT !.step = "failing"]
<1>1. request \in [Batches -> ReqShape] /\ request[b] \in ReqShape
  BY DEF RolloutShape
<1>2. r \in ReqShape /\ r.step = "failing" /\ r.left = request[b].left
  BY <1>1 DEF ReqShape
<1>3. request' = [request EXCEPT ![b] = r]
  BY <1>1
<1> HIDE DEF r
<1> QED
  BY <1>2, <1>3, RequestWriteFacts

\* What a step of the worker derives for target h.
LEMMA DerivesFacts ==
  ASSUME RolloutShape, NEW h \in Hosts, NEW s \in {"running"} \cup Terminal, Derives(h, s),
         advance.step = "derive"
  PROVE  /\ advance' \in Passings
         /\ \/ advance' = NotAdvancing
            \/ /\ s \in Terminal
               /\ advance'.on = advance.on /\ advance'.rows = advance.rows
               /\ advance'.verdict = [advance.verdict EXCEPT ![h] = s]
               /\ \/ advance'.step = "derive" /\ advance'.left = advance.left \ {h}
                  \/ /\ advance'.step \in {"write", "flip"} /\ advance.left \subseteq {h}
                     /\ advance'.left = {k \in Hosts : advance'.verdict[k] \notin
                                                         {"none", advance.rows[k].status}}
<1>1. advance \in Passings
  BY DEF RolloutShape
<1>2. /\ advance.on \in Batches \cup {NoJob} /\ advance.rows \in [Hosts -> TargetRows]
      /\ advance.left \subseteq Hosts /\ advance.verdict \in [Hosts -> {"none"} \cup Terminal]
  BY <1>1, PassingFacts
<1>3. CASE s \notin Terminal
  BY <1>3, NotAdvancingFacts DEF Derives, isTerminalConfigApplyTargetStatus
<1>4. CASE s \in Terminal
  <2> DEFINE verdict == [advance.verdict EXCEPT ![h] = s]  left == advance.left \ {h}
             news == {k \in Hosts : verdict[k] \notin {"none", advance.rows[k].status}}
  <2>1. verdict \in [Hosts -> {"none"} \cup Terminal]
    BY <1>2, <1>4
  <2>2. left \subseteq Hosts /\ news \subseteq Hosts
    BY <1>2
  <2>3. advance' = IF left # {} THEN [advance EXCEPT !.verdict = verdict, !.left = left]
                   ELSE [advance EXCEPT !.verdict = verdict, !.left = news,
                           !.step = IF news = {} THEN "flip" ELSE "write"]
    BY <1>4 DEF Derives, isTerminalConfigApplyTargetStatus
  <2>4. advance'.verdict = verdict
        => news = {k \in Hosts : advance'.verdict[k] \notin {"none", advance.rows[k].status}}
    OBVIOUS
  <2> HIDE DEF verdict, news
  <2>5. CASE left # {}
    <3>1. advance' = [advance EXCEPT !.verdict = verdict, !.left = left]
      BY <2>3, <2>5
    <3> HIDE DEF left
    <3>2. /\ advance' \in Passings /\ advance'.on = advance.on /\ advance'.rows = advance.rows
          /\ advance'.verdict = verdict /\ advance'.step = advance.step /\ advance'.left = left
      BY <1>1, <2>1, <2>2, <3>1 DEF Passings
    <3> QED
      BY <1>4, <3>2 DEF verdict, left
  <2>6. CASE left = {}
    <3> DEFINE st == IF news = {} THEN "flip" ELSE "write"
    <3>1. advance' = [advance EXCEPT !.verdict = verdict, !.left = news, !.step = st]
      BY <2>3, <2>6
    <3>2. st \in {"write", "flip"} /\ advance.left \subseteq {h}
      BY <2>6
    <3> HIDE DEF st, left
    <3>3. /\ advance' \in Passings /\ advance'.on = advance.on /\ advance'.rows = advance.rows
          /\ advance'.verdict = verdict /\ advance'.step = st /\ advance'.left = news
      BY <1>1, <2>1, <2>2, <3>1, <3>2 DEF Passings
    <3>4. advance'.left = {k \in Hosts : advance'.verdict[k] \notin {"none", advance.rows[k].status}}
      BY <2>4, <3>3
    <3> QED
      BY <1>4, <3>2, <3>3, <3>4 DEF verdict
  <2> QED
    BY <2>5, <2>6
<1> QED
  BY <1>3, <1>4

\* The row that a request records, and a row whose status is overwritten.
LEMMA RowsWritten ==
  /\ \A b \in Batches, q \in BOOLEAN : RecordedRow(b, q) \in TargetRows
  /\ \A j \in Batches : [status |-> "running", job |-> j] \in TargetRows
  /\ \A row \in TargetRows, s \in Terminal :
       /\ [row EXCEPT !.status = s] \in TargetRows
       /\ [row EXCEPT !.status = s].status = s /\ [row EXCEPT !.status = s].job = row.job
BY DEF RecordedRow, TargetRows, Terminal

\* configApplyJobStatus and findConfigApplyJobForTarget: what may come out.
LEMMA JobStatusFacts ==
  ASSUME RolloutShape, NEW j \in Batches \cup {NoJob}, NEW h \in Hosts
  PROVE  /\ j # NoJob /\ applyJob[j][h] # "none" =>
              configApplyJobStatus(j, h) \in {"running"} \cup Terminal
         /\ j = NoJob => configApplyJobStatus(j, h) = "lost"
         /\ j # NoJob => (configApplyJobStatus(j, h) = "succeeded" <=> applyJob[j][h] = "succeeded")
         /\ j # NoJob => (configApplyJobStatus(j, h) = "lost" <=> applyJob[j][h] = "forgotten")
<1>1. j # NoJob => applyJob[j][h] \in JobStates
  BY FieldFacts
<1> QED
  BY <1>1 DEF configApplyJobStatus, JobStates, Terminal

\* What findConfigApplyJobForTarget can find.
LEMMA FoundFacts ==
  ASSUME RolloutShape, NEW b \in Batches, NEW h \in Hosts,
         NEW j \in findConfigApplyJobForTarget(b, h)
  PROVE  /\ j \in Batches \cup {NoJob}
         /\ j # NoJob => InOrder(b, h, j) /\ applyJob[j][h] # "forgotten"
         /\ j = NoJob => \A c \in Batches : InOrder(b, h, c) => applyJob[c][h] = "forgotten"
<1> DEFINE found == {i \in NotOlder(b) : created[i][2] = h /\ applyJob[created[i][1]][h] # "forgotten"}
<1>0. \A i \in NotOlder(b) : created[i] \in Batches \X Hosts
  <2>1. rollout[b].older \in Nat /\ Len(created) \in Nat
        /\ \A i \in 1 .. Len(created) : created[i] \in Batches \X Hosts
    BY FieldFacts
  <2> QED
    BY <2>1 DEF NotOlder
<1>1. CASE found = {}
  <2>1. j = NoJob
    BY <1>1 DEF findConfigApplyJobForTarget
  <2>2. ASSUME NEW c \in Batches, InOrder(b, h, c) PROVE applyJob[c][h] = "forgotten"
    <3>1. PICK i \in NotOlder(b) : created[i] = <<c, h>>
      BY <2>2 DEF InOrder
    <3>2. created[i][1] = c /\ created[i][2] = h
      BY <3>1
    <3> QED
      BY <1>1, <3>2
  <2> QED
    BY <2>1, <2>2
<1>2. CASE found # {}
  <2>1. j \in {created[i][1] : i \in {i \in found : \A k \in found : i <= k}}
    BY <1>2 DEF findConfigApplyJobForTarget
  <2>2. PICK i \in found : j = created[i][1]
    BY <2>1
  <2>3. created[i] = <<j, h>> /\ j \in Batches /\ applyJob[j][h] # "forgotten" /\ i \in NotOlder(b)
    BY <1>0, <2>2
  <2> QED
    BY <2>3, RolloutAssumption DEF InOrder
<1> QED
  BY <1>1, <1>2

\* A job in the queue of a batch has been made.
LEMMA QueuedMade ==
  ASSUME RolloutShape, JobsMade, NEW b \in Batches, NEW h \in Hosts, NEW j, InOrder(b, h, j)
  PROVE  j \in Batches /\ applyJob[j][h] # "none"
<1>1. PICK i \in NotOlder(b) : created[i] = <<j, h>>
  BY DEF InOrder
<1>2. i \in 1 .. Len(created)
  BY FieldFacts DEF NotOlder
<1>3. created[i] \in Batches \X Hosts /\ created[i][1] = j /\ created[i][2] = h
  BY <1>1, <1>2, FieldFacts
<1> QED
  BY <1>1, <1>2, <1>3 DEF JobsMade

\* The job that DeriveTarget looks at.
Looked(h) == IF advance.rows[h].job # NoJob THEN {advance.rows[h].job}
             ELSE findConfigApplyJobForTarget(advance.on, h)

\* DeriveTarget in one place: what it reads, what it writes, what it concludes.
LEMMA DeriveFacts ==
  ASSUME RolloutInv, NEW h \in Hosts, DeriveTarget(h)
  PROVE  /\ advance.step = "derive" /\ h \in advance.left /\ advance.on \in Batches
         /\ UNCHANGED <<rollout, applyJob, created, request, listed, reached>>
         /\ \/ /\ advance.rows[h].status \in Terminal /\ Derives(h, advance.rows[h].status)
               /\ UNCHANGED <<target, mischance, raced, foreign>>
            \/ \E j \in Looked(h) :
                 /\ advance.rows[h].status \notin Terminal /\ Derives(h, configApplyJobStatus(j, h))
                 /\ j \in Batches \cup {NoJob} /\ (j # NoJob => InOrder(advance.on, h, j))
                 /\ configApplyJobStatus(j, h) \in {"running"} \cup Terminal
                 /\ target' = target \/ (/\ advance.rows[h].job = NoJob /\ j # NoJob
                                         /\ target' = WriteRow(advance.on, h, [status |-> "running", job |-> j]))
                 /\ mischance' = mischance \/ Mischance
                 /\ raced' = IF j = NoJob /\ request[advance.on].step \in {"enqueue", "record"}
                             THEN raced \cup {advance.on} ELSE raced
                 /\ foreign' = IF advance.rows[h].job = NoJob /\ j \notin {NoJob, advance.on}
                               THEN foreign \cup {<<advance.on, h>>} ELSE foreign
<1>1. advance.step = "derive" /\ h \in advance.left
      /\ UNCHANGED <<rollout, applyJob, created, request, listed, reached>>
  BY DEF DeriveTarget
<1>2. RolloutShape /\ JobsMade /\ AdvanceOK
  BY DEF RolloutInv
<1>3. advance.on \in Batches /\ ScanOK(advance.on, h)
  BY <1>1, <1>2 DEF AdvanceOK, Advancing
<1>4. CASE advance.rows[h].status \in Terminal
  BY <1>1, <1>3, <1>4 DEF DeriveTarget, isTerminalConfigApplyTargetStatus
<1>5. CASE advance.rows[h].status \notin Terminal
  <2>1. PICK j \in Looked(h) :
          /\ IF advance.rows[h].job = NoJob /\ j # NoJob
             THEN \/ /\ target' = WriteRow(advance.on, h, [status |-> "running", job |-> j])
                     /\ UNCHANGED mischance
                  \/ Mischance /\ UNCHANGED target
             ELSE UNCHANGED <<target, mischance>>
          /\ Derives(h, configApplyJobStatus(j, h))
          /\ raced' = IF j = NoJob /\ request[advance.on].step \in {"enqueue", "record"}
                      THEN raced \cup {advance.on} ELSE raced
          /\ foreign' = IF advance.rows[h].job = NoJob /\ j \notin {NoJob, advance.on}
                        THEN foreign \cup {<<advance.on, h>>} ELSE foreign
    BY <1>5 DEF DeriveTarget, isTerminalConfigApplyTargetStatus, Looked
  <2>2. j \in Batches \cup {NoJob} /\ (j # NoJob => InOrder(advance.on, h, j))
    <3>1. CASE advance.rows[h].job # NoJob
      <4>1. j = advance.rows[h].job /\ InOrder(advance.on, h, advance.rows[h].job)
        BY <1>3, <3>1 DEF Looked, ScanOK, PassReads, PassPlace
      <4> QED
        BY <1>2, <1>3, <4>1, QueuedMade
    <3>2. CASE advance.rows[h].job = NoJob
      BY <1>2, <1>3, <3>2, FoundFacts DEF Looked
    <3> QED
      BY <3>1, <3>2
  <2>3. configApplyJobStatus(j, h) \in {"running"} \cup Terminal
    <3>1. CASE j = NoJob
      BY <1>2, <3>1, JobStatusFacts DEF Terminal
    <3>2. CASE j # NoJob
      BY <1>2, <1>3, <2>2, <3>2, QueuedMade, JobStatusFacts
    <3> QED
      BY <3>1, <3>2
  <2>4. target' = target \/ (/\ advance.rows[h].job = NoJob /\ j # NoJob
                             /\ target' = WriteRow(advance.on, h, [status |-> "running", job |-> j]))
    BY <2>1
  <2>5. mischance' = mischance \/ Mischance
    BY <2>1
  <2> QED
    BY <1>1, <1>3, <1>5, <2>1, <2>2, <2>3, <2>4, <2>5
<1> QED
  BY <1>4, <1>5

\* UpdateConfigApplyBatchTargetStatus in one place.
LEMMA UpdateFacts ==
  ASSUME RolloutInv, NEW h \in Hosts, UpdateConfigApplyBatchTargetStatus(h)
  PROVE  /\ advance.step = "write" /\ h \in advance.left /\ advance.on \in Batches
         /\ advance.verdict[h] \in Terminal /\ advance.verdict[h] # advance.rows[h].status
         /\ UNCHANGED <<rollout, applyJob, created, request, listed, mischance, reached, raced, foreign>>
         /\ target' \in [Batches -> [Hosts -> TargetRows]]
         /\ target'[advance.on][h].job = target[advance.on][h].job
         /\ target'[advance.on][h] \in {NoTarget, [status |-> advance.verdict[h], job |-> target[advance.on][h].job]}
         /\ target'[advance.on][h] = NoTarget <=> target[advance.on][h] = NoTarget
         /\ \A c \in Batches, k \in Hosts : c # advance.on \/ k # h => target'[c][k] = target[c][k]
         /\ advance' \in Passings /\ advance'.on = advance.on /\ advance'.rows = advance.rows
         /\ advance'.verdict = advance.verdict /\ advance'.left = advance.left \ {h}
         /\ advance'.step \in {"write", "flip"}
<1> DEFINE b == advance.on  v == advance.verdict[h]  row == [target[b][h] EXCEPT !.status = v]
<1>1. /\ advance.step = "write" /\ h \in advance.left /\ target' = WriteRow(b, h, row)
      /\ advance' = [advance EXCEPT !.left = advance.left \ {h},
                       !.step = IF advance.left \ {h} = {} THEN "flip" ELSE "write"]
      /\ UNCHANGED <<rollout, applyJob, created, request, listed, mischance, reached, raced, foreign>>
  BY DEF UpdateConfigApplyBatchTargetStatus, rolloutHistory
<1>2. RolloutShape /\ AdvanceOK
  BY DEF RolloutInv
<1>3. b \in Batches /\ ScanOK(b, h)
  BY <1>1, <1>2 DEF AdvanceOK, Advancing
<1>4. advance \in Passings /\ advance.left \subseteq Hosts
      /\ advance.verdict \in [Hosts -> {"none"} \cup Terminal]
  BY <1>2, PassingFacts DEF RolloutShape
<1>5. v \in Terminal /\ v # advance.rows[h].status
  BY <1>1, <1>3, <1>4 DEF ScanOK, PassReads, PassPlace
<1>6. target[b][h] \in TargetRows
  BY <1>2, <1>3, FieldFacts
<1>7. row \in TargetRows /\ row.status = v /\ row.job = target[b][h].job
  BY <1>5, <1>6, RowsWritten
<1>8. row = [status |-> v, job |-> target[b][h].job]
  BY <1>7, TargetRowFacts
<1> HIDE DEF b, v, row
<1>9. /\ target' \in [Batches -> [Hosts -> TargetRows]]
      /\ target'[b][h] = IF target[b][h] = NoTarget THEN NoTarget ELSE row
      /\ \A c \in Batches, k \in Hosts : c # b \/ k # h => target'[c][k] = target[c][k]
  BY <1>1, <1>2, <1>3, <1>7, WriteRowFacts
<1>10. row # NoTarget
  BY <1>5, <1>7, TargetRowFacts DEF Terminal
<1>11. /\ advance' \in Passings /\ advance'.on = advance.on /\ advance'.rows = advance.rows
       /\ advance'.verdict = advance.verdict /\ advance'.left = advance.left \ {h}
       /\ advance'.step \in {"write", "flip"}
  <2> DEFINE l == advance.left \ {h}  st == IF l = {} THEN "flip" ELSE "write"
  <2>1. advance' = [advance EXCEPT !.left = l, !.step = st] /\ l \subseteq Hosts /\ st \in {"write", "flip"}
    BY <1>1, <1>4
  <2> HIDE DEF st, l
  <2>2. /\ advance' \in Passings /\ advance'.on = advance.on /\ advance'.rows = advance.rows
        /\ advance'.verdict = advance.verdict /\ advance'.left = l /\ advance'.step = st
    BY <1>4, <2>1 DEF Passings
  <2> QED
    BY <2>1, <2>2 DEF l
<1>12. target'[b][h].job = target[b][h].job
  BY <1>7, <1>9
<1>13. target'[b][h] = NoTarget <=> target[b][h] = NoTarget
  BY <1>9, <1>10
<1>14. target'[b][h] \in {NoTarget, [status |-> v, job |-> target[b][h].job]}
  BY <1>8, <1>9
<1> QED
  BY <1>1, <1>3, <1>5, <1>9, <1>11, <1>12, <1>13, <1>14 DEF b, v

\* createConfigApplyBatchCore in one place.
LEMMA CreateFacts ==
  ASSUME RolloutShape, NEW b \in Batches, NEW hosts \in SUBSET Hosts, CreateConfigApplyBatch(b, hosts)
  PROVE  /\ rollout[b].status = "none" /\ rollout'[b].status = "running"
         /\ rollout' \in [Batches -> BatchRows] /\ rollout'[b].older <= Len(created)
         /\ target' \in [Batches -> [Hosts -> TargetRows]]
         /\ \A h \in Hosts : target'[b][h].job = NoJob /\ target'[b][h].status \in {"none", "pending"}
         /\ request' \in [Batches -> ReqShape] /\ request'[b].step = "enqueue"
         /\ request'[b].left \subseteq Hosts
         /\ \A c \in Batches : c # b => rollout'[c] = rollout[c] /\ request'[c] = request[c]
                                        /\ target'[c] = target[c]
         /\ UNCHANGED <<applyJob, created, listed, advance, mischance, reached, raced, foreign>>
<1> DEFINE t == [h \in Hosts |-> IF h \in hosts THEN [status |-> "pending", job |-> NoJob] ELSE NoTarget]
           q == [NoRequest EXCEPT !.step = "enqueue", !.left = hosts]
<1>1. PICK n \in 0 .. Len(created) : rollout' = [rollout EXCEPT ![b] = [status |-> "running", older |-> n]]
  BY DEF CreateConfigApplyBatch
<1>2. /\ rollout[b].status = "none"
      /\ target' = [target EXCEPT ![b] = t] /\ request' = [request EXCEPT ![b] = q]
      /\ UNCHANGED <<applyJob, created, listed, advance, mischance, reached, raced, foreign>>
  BY DEF CreateConfigApplyBatch, rolloutHistory
<1>3. t \in [Hosts -> TargetRows] /\ \A h \in Hosts : t[h].job = NoJob /\ t[h].status \in {"none", "pending"}
  BY TargetRowFacts
<1>4. q \in ReqShape /\ q.step = "enqueue" /\ q.left = hosts
  BY RequestShape
<1>5. n \in Nat /\ n <= Len(created) /\ [status |-> "running", older |-> n] \in BatchRows
  BY FieldFacts DEF BatchRows
<1> HIDE DEF t, q
<1>6. /\ request' \in [Batches -> ReqShape] /\ request'[b] = q
      /\ \A c \in Batches : c # b => request'[c] = request[c]
  BY <1>2, <1>4, RequestWriteFacts
<1>7. /\ target' \in [Batches -> [Hosts -> TargetRows]] /\ target'[b] = t
      /\ \A c \in Batches : c # b => target'[c] = target[c]
  BY <1>2, <1>3 DEF RolloutShape
<1>8. /\ rollout' \in [Batches -> BatchRows] /\ rollout'[b] = [status |-> "running", older |-> n]
      /\ \A c \in Batches : c # b => rollout'[c] = rollout[c]
  BY <1>1, <1>5 DEF RolloutShape
<1> QED
  BY <1>2, <1>3, <1>4, <1>5, <1>6, <1>7, <1>8

\* enqueueConfigApplyJob in one place: a job, nothing to apply, or an error.
LEMMA EnqueueFacts ==
  ASSUME RolloutShape, NEW b \in Batches, NEW h \in Hosts, enqueueConfigApplyJob(b, h)
  PROVE  /\ request[b].step = "enqueue" /\ h \in request[b].left
         /\ request' \in [Batches -> ReqShape]
         /\ \A c \in Batches : c # b => request'[c] = request[c]
         /\ request'[b].left \subseteq request[b].left
         /\ \/ /\ request'[b].step = "record" /\ request'[b].host = h
               /\ request'[b].left = request[b].left \ {h}
               /\ \/ /\ request'[b].queued /\ created' = Append(created, <<b, h>>)
                     /\ applyJob' = [applyJob EXCEPT ![b][h] = "queued"]
                  \/ ~request'[b].queued /\ UNCHANGED <<applyJob, created>>
               /\ UNCHANGED mischance
            \/ request'[b].step = "failing" /\ Mischance /\ UNCHANGED <<applyJob, created>>
         /\ UNCHANGED <<rollout, target, listed, advance, reached, raced, foreign>>
<1>1. /\ request[b].step = "enqueue" /\ h \in request[b].left
      /\ UNCHANGED <<rollout, target, listed, advance, reached, raced, foreign>>
  BY DEF enqueueConfigApplyJob, rolloutHistory
<1>2. request \in [Batches -> ReqShape] /\ request[b] \in ReqShape /\ request[b].left \subseteq Hosts
  BY FieldFacts DEF RolloutShape
<1>3. ASSUME NEW q \in BOOLEAN,
             request' = [request EXCEPT ![b] = [step |-> "record", left |-> @.left \ {h}, host |-> h, queued |-> q]],
             IF q THEN /\ applyJob' = [applyJob EXCEPT ![b][h] = "queued"]
                       /\ created' = Append(created, <<b, h>>)
                  ELSE UNCHANGED <<applyJob, created>>,
             UNCHANGED mischance
      PROVE  /\ request' \in [Batches -> ReqShape]
             /\ \A c \in Batches : c # b => request'[c] = request[c]
             /\ request'[b].left \subseteq request[b].left
             /\ request'[b].step = "record" /\ request'[b].host = h
             /\ request'[b].left = request[b].left \ {h}
             /\ \/ /\ request'[b].queued /\ created' = Append(created, <<b, h>>)
                   /\ applyJob' = [applyJob EXCEPT ![b][h] = "queued"]
                \/ ~request'[b].queued /\ UNCHANGED <<applyJob, created>>
  <2> DEFINE r == [step |-> "record", left |-> request[b].left \ {h}, host |-> h, queued |-> q]
  <2>1. request' = [request EXCEPT ![b] = r]
    BY <1>2, <1>3
  <2>2. r \in ReqShape /\ r.step = "record" /\ r.left = request[b].left \ {h} /\ r.host = h /\ r.queued = q
    BY <1>2 DEF ReqShape
  <2> HIDE DEF r
  <2>3. /\ request' \in [Batches -> ReqShape] /\ request'[b] = r
        /\ \A c \in Batches : c # b => request'[c] = request[c]
    BY <2>1, <2>2, RequestWriteFacts
  <2> QED
    BY <1>3, <2>2, <2>3
<1>4. CASE Mischance /\ request' = [request EXCEPT ![b].step = "failing"] /\ UNCHANGED <<applyJob, created>>
  BY <1>1, <1>4, FailingFacts
<1>5. CASE \E q \in BOOLEAN :
             /\ request' = [request EXCEPT ![b] = [step |-> "record", left |-> @.left \ {h}, host |-> h, queued |-> q]]
             /\ IF q THEN /\ applyJob' = [applyJob EXCEPT ![b][h] = "queued"]
                          /\ created' = Append(created, <<b, h>>)
                     ELSE UNCHANGED <<applyJob, created>>
             /\ UNCHANGED mischance
  BY <1>1, <1>3, <1>5
<1> QED
  BY <1>4, <1>5 DEF enqueueConfigApplyJob

\* SetConfigApplyBatchTargetJob in one place.
LEMMA RecordFacts ==
  ASSUME RolloutShape, NEW b \in Batches, request[b].step = "record" => request[b].host \in Hosts,
         SetConfigApplyBatchTargetJob(b)
  PROVE  /\ request[b].step = "record"
         /\ request' \in [Batches -> ReqShape]
         /\ \A c \in Batches : c # b => request'[c] = request[c]
         /\ request'[b].left = request[b].left
         /\ \/ /\ request'[b].step \in {"over", "enqueue"} /\ UNCHANGED mischance
               /\ target' = WriteRow(b, request[b].host, RecordedRow(b, request[b].queued))
            \/ request'[b].step = "failing" /\ Mischance /\ UNCHANGED target
         /\ target' \in [Batches -> [Hosts -> TargetRows]]
         /\ UNCHANGED <<rollout, applyJob, created, listed, advance, reached, raced, foreign>>
<1> DEFINE r == request[b]  l == r.left  st == IF l = {} THEN "over" ELSE "enqueue"
           n == [NoRequest EXCEPT !.step = st, !.left = l]
<1>1. /\ r.step = "record" /\ UNCHANGED <<rollout, applyJob, created, listed, advance, reached, raced, foreign>>
      /\ \/ /\ target' = WriteRow(b, r.host, RecordedRow(b, r.queued))
            /\ request' = [request EXCEPT ![b] = n]
            /\ UNCHANGED mischance
         \/ Mischance /\ request' = [request EXCEPT ![b].step = "failing"] /\ UNCHANGED target
  BY DEF SetConfigApplyBatchTargetJob, rolloutHistory
<1>2. r.left \subseteq Hosts /\ r.queued \in BOOLEAN
  BY FieldFacts
<1>3. n \in ReqShape /\ n.step \in {"over", "enqueue"} /\ n.left = r.left
  <2> SUFFICES n \in ReqShape /\ n.step \in {"over", "enqueue"} /\ n.left = l
    OBVIOUS
  <2>1. st \in {"over", "enqueue"} /\ l \in SUBSET Hosts
    BY <1>2
  <2> HIDE DEF st, l
  <2>2. ASSUME NEW s \in {"over", "enqueue"}, NEW m \in SUBSET Hosts
        PROVE  /\ [NoRequest EXCEPT !.step = s, !.left = m] \in ReqShape
               /\ [NoRequest EXCEPT !.step = s, !.left = m].step = s
               /\ [NoRequest EXCEPT !.step = s, !.left = m].left = m
    BY DEF NoRequest, ReqShape
  <2> QED
    BY <2>1, <2>2
<1>4. RecordedRow(b, r.queued) \in TargetRows
  BY <1>2, RowsWritten
<1> HIDE DEF n
<1>5. CASE /\ target' = WriteRow(b, r.host, RecordedRow(b, r.queued))
           /\ request' = [request EXCEPT ![b] = n]
           /\ UNCHANGED mischance
  <2>1. target' \in [Batches -> [Hosts -> TargetRows]]
    BY <1>1, <1>4, <1>5, WriteRowFacts
  <2>2. /\ request' \in [Batches -> ReqShape] /\ request'[b] = n
        /\ \A c \in Batches : c # b => request'[c] = request[c]
    BY <1>3, <1>5, RequestWriteFacts
  <2> QED
    BY <1>1, <1>3, <1>5, <2>1, <2>2
<1>6. CASE Mischance /\ request' = [request EXCEPT ![b].step = "failing"] /\ UNCHANGED target
  <2>1. target' \in [Batches -> [Hosts -> TargetRows]]
    BY <1>6 DEF RolloutShape
  <2> QED
    BY <1>1, <1>6, <2>1, FailingFacts
<1> QED
  BY <1>1, <1>5, <1>6

\* GetConfigApplyBatch in one place.
LEMMA GetFacts ==
  ASSUME RolloutShape, NEW b \in Batches, GetConfigApplyBatch(b)
  PROVE  /\ advance.step = "idle" /\ b \in listed /\ listed' = listed \ {b}
         /\ advance' \in Passings
         /\ UNCHANGED <<rollout, target, applyJob, created, request, mischance, reached, raced, foreign>>
         /\ \/ advance' = advance
            \/ /\ advance'.step = "derive" /\ advance'.on = b /\ advance'.rows = target[b]
               /\ advance'.left = {h \in Hosts : target[b][h] # NoTarget}
               /\ \A h \in Hosts : advance'.verdict[h] = "none"
<1> DEFINE l == {h \in Hosts : target[b][h] # NoTarget}
           p == [NotAdvancing EXCEPT !.step = "derive", !.on = b, !.rows = target[b], !.left = l]
<1>1. /\ advance.step = "idle" /\ b \in listed /\ listed' = listed \ {b}
      /\ advance' = IF rollout[b].status = "pruned" THEN advance ELSE p
      /\ UNCHANGED <<rollout, target, applyJob, created, request, mischance, reached, raced, foreign>>
  BY DEF GetConfigApplyBatch, rolloutHistory
<1>2. target[b] \in [Hosts -> TargetRows] /\ l \in SUBSET Hosts
  BY FieldFacts
<1>3. \A h \in Hosts : NotAdvancing.verdict[h] = "none"
  BY DEF NotAdvancing
<1> HIDE DEF l
<1>4. /\ p \in Passings /\ p.step = "derive" /\ p.on = b /\ p.rows = target[b] /\ p.left = l
      /\ p.verdict = NotAdvancing.verdict
  BY <1>2, NotAdvancingFacts DEF Passings
<1> HIDE DEF p
<1> QED
  BY <1>1, <1>3, <1>4 DEF l, RolloutShape

\* A restart ends every request and the pass.
LEMMA RestartFacts ==
  ASSUME RolloutShape, RolloutPanelRestarts
  PROVE  /\ request' \in [Batches -> ReqShape]
         /\ \A b \in Batches : request'[b].step \in {"idle", "over"} /\ request'[b].left = {}
                               /\ (request[b].step = "idle" => request'[b].step = "idle")
         /\ Mischance /\ listed' = {} /\ advance' = NotAdvancing
         /\ UNCHANGED <<rollout, target, applyJob, created, reached, raced, foreign>>
<1> DEFINE over == [NoRequest EXCEPT !.step = "over"]
<1>1. /\ request' = [b \in Batches |-> IF request[b].step = "idle" THEN NoRequest ELSE over]
      /\ Mischance /\ listed' = {} /\ advance' = NotAdvancing
      /\ UNCHANGED <<rollout, target, applyJob, created, reached, raced, foreign>>
  BY DEF RolloutPanelRestarts, rolloutHistory
<1>2. over \in ReqShape /\ over.step = "over" /\ over.left = {}
  BY OverFacts
<1> HIDE DEF over
<1> QED
  BY <1>1, <1>2, RequestShape

\* markConfigApplyBatchFailed ends its request.
LEMMA MarkFacts ==
  ASSUME RolloutShape, NEW b \in Batches, markConfigApplyBatchFailed(b)
  PROVE  /\ request[b].step = "failing" /\ request' \in [Batches -> ReqShape]
         /\ request'[b].step = "over" /\ request'[b].left = {}
         /\ \A c \in Batches : c # b => request'[c] = request[c]
         /\ SetStatus(b, "failed") \/ UNCHANGED rollout
         /\ UNCHANGED <<target, applyJob, created, listed, advance, mischance, reached, raced, foreign>>
<1> DEFINE over == [NoRequest EXCEPT !.step = "over"]
<1>1. /\ request[b].step = "failing" /\ request' = [request EXCEPT ![b] = over]
      /\ SetStatus(b, "failed") \/ UNCHANGED rollout
      /\ UNCHANGED <<target, applyJob, created, listed, advance, mischance, reached, raced, foreign>>
  BY DEF markConfigApplyBatchFailed, rolloutHistory
<1>2. over \in ReqShape /\ over.step = "over" /\ over.left = {}
  BY OverFacts
<1> HIDE DEF over
<1> QED
  BY <1>1, <1>2, RequestWriteFacts

\* Pruning removes a finished batch with its targets.
LEMMA PruneFacts ==
  ASSUME RolloutShape, NEW b \in Batches, PruneConfigApplyBatches(b)
  PROVE  /\ Settled /\ rollout[b].status \in {"succeeded", "failed"} /\ rollout'[b].status = "pruned"
         /\ rollout' \in [Batches -> BatchRows] /\ target' \in [Batches -> [Hosts -> TargetRows]]
         /\ rollout'[b].older = rollout[b].older
         /\ \A h \in Hosts : target'[b][h] = NoTarget
         /\ \A c \in Batches : c # b => rollout'[c] = rollout[c] /\ target'[c] = target[c]
         /\ UNCHANGED <<applyJob, created, request, listed, advance, mischance, reached, raced, foreign>>
<1> DEFINE t == [h \in Hosts |-> NoTarget]  r == [rollout[b] EXCEPT !.status = "pruned"]
<1>1. rollout \in [Batches -> BatchRows] /\ rollout[b] \in BatchRows
      /\ target \in [Batches -> [Hosts -> TargetRows]]
  BY DEF RolloutShape
<1>2. t \in [Hosts -> TargetRows] /\ \A h \in Hosts : t[h] = NoTarget
  BY TargetRowFacts
<1>3. r \in BatchRows /\ r.older = rollout[b].older /\ r.status = "pruned"
  BY <1>1 DEF BatchRows
<1>4. /\ Settled /\ rollout[b].status \in {"succeeded", "failed"}
      /\ rollout' = [rollout EXCEPT ![b] = r] /\ target' = [target EXCEPT ![b] = t]
      /\ UNCHANGED <<applyJob, created, request, listed, advance, mischance, reached, raced, foreign>>
  BY <1>1 DEF PruneConfigApplyBatches, rolloutHistory
<1> HIDE DEF t, r
<1> QED
  BY <1>1, <1>2, <1>3, <1>4

---------------------------------------------------------------------------
(* What every step respects.                                               *)

\* Jobs and history only grow, and a batch that exists keeps its age.
OrderGrows ==
  /\ Len(created) <= Len(created') /\ \A i \in 1 .. Len(created) : created'[i] = created[i]
  /\ reached \subseteq reached' /\ raced \subseteq raced' /\ foreign \subseteq foreign'
  /\ \A b \in Batches : rollout[b].status # "none" =>
       rollout'[b].older = rollout[b].older /\ rollout'[b].status # "none"

\* Jobs are made by the request of their batch and forgotten when all is settled.
JobsStep ==
  \A j \in Batches, h \in Hosts :
    /\ applyJob[j][h] = "forgotten" => applyJob'[j][h] = "forgotten"
    /\ applyJob[j][h] # "none" => applyJob'[j][h] # "none"
    /\ applyJob[j][h] = "none" /\ applyJob'[j][h] # "none" =>
         request[j].step = "enqueue" /\ h \notin request'[j].left
    /\ applyJob[j][h] # "forgotten" /\ applyJob'[j][h] = "forgotten" => Settled
    /\ applyJob'[j][h] = "succeeded" => applyJob[j][h] = "succeeded" \/ <<j, h>> \in reached'

\* A request that is over stays over, and no node is recorded twice.
RequestsMove ==
  \A b \in Batches : rollout[b].status # "none" =>
    /\ request[b].step \in {"idle", "over"} => request'[b].step \in {"idle", "over"}
    /\ request[b].step \notin {"enqueue", "record"} => request'[b].step \notin {"enqueue", "record"}
    /\ request'[b].left \subseteq request[b].left
    /\ \A h \in Hosts : Recorded(b, h) => Recorded(b, h)'

\* No job is made.
LEMMA QueueSame ==
  ASSUME RolloutShape, UNCHANGED <<created, reached, rollout>>, raced \subseteq raced',
         foreign \subseteq foreign'
  PROVE  OrderGrows
BY FieldFacts DEF OrderGrows

\* No job moves.
LEMMA JobsSame == UNCHANGED applyJob => JobsStep
BY DEF JobsStep

\* No request moves.
LEMMA RequestsSame == UNCHANGED request => RequestsMove
BY DEF RequestsMove, Recorded

\* Each action has the right shape and moves within these bounds.
LEMMA StepMoves ==
  ASSUME RolloutInv, [RolloutNext]_rolloutVars
  PROVE  RolloutShape' /\ OrderGrows /\ JobsStep /\ RequestsMove
<1>0. /\ RolloutShape /\ AdvanceOK /\ JobsMade
      /\ \A b \in Batches : FreshOK(b) /\ RequestOK(b)
  BY DEF RolloutInv
<1>1. ASSUME NEW b \in Batches, NEW hosts \in SUBSET Hosts, CreateConfigApplyBatch(b, hosts)
      PROVE  RolloutShape' /\ OrderGrows /\ JobsStep /\ RequestsMove
  <2>1. /\ rollout[b].status = "none"
        /\ rollout' \in [Batches -> BatchRows] /\ target' \in [Batches -> [Hosts -> TargetRows]]
        /\ request' \in [Batches -> ReqShape]
        /\ \A c \in Batches : c # b => rollout'[c] = rollout[c] /\ request'[c] = request[c]
        /\ UNCHANGED <<applyJob, created, listed, advance, mischance, reached, raced, foreign>>
    BY <1>0, <1>1, CreateFacts
  <2>2. RolloutShape'
    BY <1>0, <2>1 DEF RolloutShape
  <2>3. OrderGrows
    <3>1. Len(created) \in Nat
      BY <1>0, FieldFacts
    <3> QED
      BY <2>1, <3>1 DEF OrderGrows
  <2>4. RequestsMove
    BY <2>1 DEF RequestsMove, Recorded
  <2> QED
    BY <2>1, <2>2, <2>3, <2>4, JobsSame
<1>2. ASSUME NEW b \in Batches, NEW h \in Hosts, enqueueConfigApplyJob(b, h)
      PROVE  RolloutShape' /\ OrderGrows /\ JobsStep /\ RequestsMove
  <2>1. /\ request[b].step = "enqueue" /\ h \in request[b].left
        /\ request' \in [Batches -> ReqShape]
        /\ \A c \in Batches : c # b => request'[c] = request[c]
        /\ request'[b].left \subseteq request[b].left
        /\ \/ request'[b].step = "record" /\ request'[b].host = h
           \/ request'[b].step = "failing"
        /\ mischance' = mischance \/ Mischance
        /\ UNCHANGED <<rollout, target, listed, advance, reached, raced, foreign>>
    BY <1>0, <1>2, EnqueueFacts
  <2>2. \/ /\ created' = Append(created, <<b, h>>) /\ applyJob' = [applyJob EXCEPT ![b][h] = "queued"]
        \/ UNCHANGED <<applyJob, created>>
    BY <1>0, <1>2, EnqueueFacts
  <2>3. mischance' \in 0 .. MaxMischance
    BY <1>0, <2>1, MischanceShape DEF RolloutShape
  <2>4. RequestsMove
    <3>1. ASSUME NEW c \in Batches, NEW k \in Hosts, Recorded(c, k) PROVE Recorded(c, k)'
      BY <2>1, <3>1 DEF Recorded
    <3> QED
      BY <2>1, <3>1 DEF RequestsMove
  <2>7. created' # created => request'[b].left = request[b].left \ {h}
    BY <1>0, <1>2, EnqueueFacts
  <2>5. CASE UNCHANGED <<applyJob, created>>
    <3>1. RolloutShape'
      BY <1>0, <2>1, <2>3, <2>5 DEF RolloutShape
    <3> QED
      BY <1>0, <2>1, <2>4, <2>5, <3>1, QueueSame, JobsSame
  <2>6. CASE created' = Append(created, <<b, h>>) /\ applyJob' = [applyJob EXCEPT ![b][h] = "queued"]
    <3>1. /\ applyJob' \in [Batches -> [Hosts -> JobStates]] /\ applyJob'[b][h] = "queued"
          /\ \A c \in Batches, k \in Hosts : c # b \/ k # h => applyJob'[c][k] = applyJob[c][k]
      <4>1. "queued" \in JobStates /\ JobWrites(b, h, "queued")
        BY <2>6 DEF JobStates, JobWrites
      <4> QED
        BY <1>0, <4>1, JobWriteFacts
    <3>2. created \in Seq(Batches \X Hosts) /\ <<b, h>> \in Batches \X Hosts
      BY <1>0 DEF RolloutShape
    <3>3. /\ created' \in Seq(Batches \X Hosts) /\ Len(created') = Len(created) + 1
          /\ \A i \in 1 .. Len(created) : created'[i] = created[i]
      BY <2>6, <3>2
    <3>4. RolloutShape'
      BY <1>0, <2>1, <2>3, <3>1, <3>3 DEF RolloutShape
    <3>5. OrderGrows
      <4>1. Len(created) \in Nat
        BY <3>2
      <4>2. Len(created) <= Len(created')
        BY <3>3, <4>1
      <4> QED
        BY <2>1, <3>3, <4>2 DEF OrderGrows
    <3>a. created' # created
      <4>1. Len(created) \in Nat
        BY <3>2
      <4> QED
        BY <3>3, <4>1
    <3>6. applyJob[b][h] = "none" /\ h \notin request'[b].left
      BY <1>0, <2>1, <2>7, <3>a DEF RequestOK
    <3>7. JobsStep
      BY <2>1, <3>1, <3>6 DEF JobsStep
    <3> QED
      BY <2>4, <3>4, <3>5, <3>7
  <2> QED
    BY <2>2, <2>5, <2>6
<1>3. ASSUME NEW b \in Batches, SetConfigApplyBatchTargetJob(b)
      PROVE  RolloutShape' /\ OrderGrows /\ JobsStep /\ RequestsMove
  <2>0. request[b].step = "record" => request[b].host \in Hosts
    BY <1>0 DEF RequestOK
  <2>1. /\ request[b].step = "record"
        /\ request' \in [Batches -> ReqShape]
        /\ \A c \in Batches : c # b => request'[c] = request[c]
        /\ request'[b].left = request[b].left /\ request'[b].step \in {"over", "enqueue", "failing"}
        /\ mischance' = mischance \/ Mischance
        /\ target' \in [Batches -> [Hosts -> TargetRows]]
        /\ UNCHANGED <<rollout, applyJob, created, listed, advance, reached, raced, foreign>>
    BY <1>0, <1>3, <2>0, RecordFacts
  <2>2. mischance' \in 0 .. MaxMischance
    BY <1>0, <2>1, MischanceShape DEF RolloutShape
  <2>3. RolloutShape'
    BY <1>0, <2>1, <2>2 DEF RolloutShape
  <2>4. RequestsMove
    BY <2>1 DEF RequestsMove, Recorded
  <2> QED
    BY <1>0, <2>1, <2>3, <2>4, QueueSame, JobsSame
<1>4. ASSUME NEW b \in Batches, markConfigApplyBatchFailed(b)
      PROVE  RolloutShape' /\ OrderGrows /\ JobsStep /\ RequestsMove
  <2>1. /\ request' \in [Batches -> ReqShape]
        /\ request'[b].step = "over" /\ request'[b].left = {}
        /\ \A c \in Batches : c # b => request'[c] = request[c]
        /\ SetStatus(b, "failed") \/ UNCHANGED rollout
        /\ UNCHANGED <<target, applyJob, created, listed, advance, mischance, reached, raced, foreign>>
    BY <1>0, <1>4, MarkFacts
  <2>2. /\ rollout' \in [Batches -> BatchRows]
        /\ \A c \in Batches : rollout'[c].older = rollout[c].older
        /\ \A c \in Batches : rollout[c].status # "none" => rollout'[c].status # "none"
    <3>1. CASE SetStatus(b, "failed")
      BY <1>0, <3>1, SetStatusFacts
    <3>2. CASE UNCHANGED rollout
      BY <1>0, <3>2 DEF RolloutShape
    <3> QED
      BY <2>1, <3>1, <3>2
  <2>3. RolloutShape'
    BY <1>0, <2>1, <2>2 DEF RolloutShape
  <2>4. OrderGrows
    <3>1. Len(created) \in Nat
      BY <1>0, FieldFacts
    <3> QED
      BY <2>1, <2>2, <3>1 DEF OrderGrows
  <2>5. RequestsMove
    BY <2>1 DEF RequestsMove, Recorded
  <2> QED
    BY <2>1, <2>3, <2>4, <2>5, JobsSame
<1>5. ASSUME NEW b \in Batches, NEW h \in Hosts, JobEnding(b, h) \/ JobForgotten(b, h)
      PROVE  RolloutShape' /\ OrderGrows /\ JobsStep /\ RequestsMove
  <2>1. PICK s \in {"succeeded", "failed", "forgotten"} :
          /\ applyJob' = [applyJob EXCEPT ![b][h] = s] /\ applyJob[b][h] \notin {"none", "forgotten"}
          /\ s = "forgotten" => Settled
          /\ reached' = IF s = "succeeded" THEN reached \cup {<<b, h>>} ELSE reached
    BY <1>5 DEF JobEnding, JobEnds, JobForgotten, rolloutHistory
  <2>2. /\ UNCHANGED <<rollout, target, created, request, listed, advance, raced, foreign>>
        /\ mischance' = mischance \/ Mischance
    BY <1>5 DEF JobEnding, JobEnds, JobForgotten, rolloutHistory
  <2>3. mischance' \in 0 .. MaxMischance
    BY <1>0, <2>2, MischanceShape DEF RolloutShape
  <2>4. /\ applyJob' \in [Batches -> [Hosts -> JobStates]] /\ applyJob'[b][h] = s
        /\ \A c \in Batches, k \in Hosts : c # b \/ k # h => applyJob'[c][k] = applyJob[c][k]
    <3>1. s \in JobStates
      BY DEF JobStates
    <3>2. JobWrites(b, h, s)
      BY <2>1 DEF JobWrites
    <3> QED
      BY <1>0, <3>1, <3>2, JobWriteFacts
  <2>5. reached' \subseteq Batches \X Hosts /\ reached \subseteq reached'
    BY <1>0, <2>1 DEF RolloutShape
  <2>6. RolloutShape'
    BY <1>0, <2>2, <2>3, <2>4, <2>5 DEF RolloutShape
  <2>7. OrderGrows
    <3>1. Len(created) \in Nat
      BY <1>0, FieldFacts
    <3> QED
      BY <2>2, <2>5, <3>1 DEF OrderGrows
  <2>8. JobsStep
    BY <2>1, <2>4 DEF JobsStep
  <2> QED
    BY <2>2, <2>6, <2>7, <2>8, RequestsSame
<1>6. ASSUME NEW b \in Batches, PruneConfigApplyBatches(b)
      PROVE  RolloutShape' /\ OrderGrows /\ JobsStep /\ RequestsMove
  <2>1. /\ rollout'[b].status = "pruned" /\ rollout'[b].older = rollout[b].older
        /\ rollout' \in [Batches -> BatchRows] /\ target' \in [Batches -> [Hosts -> TargetRows]]
        /\ \A c \in Batches : c # b => rollout'[c] = rollout[c]
        /\ UNCHANGED <<applyJob, created, request, listed, advance, mischance, reached, raced, foreign>>
    BY <1>0, <1>6, PruneFacts
  <2>2. RolloutShape'
    BY <1>0, <2>1 DEF RolloutShape
  <2>3. OrderGrows
    <3>1. Len(created) \in Nat
      BY <1>0, FieldFacts
    <3> QED
      BY <2>1, <3>1 DEF OrderGrows
  <2> QED
    BY <2>1, <2>2, <2>3, JobsSame, RequestsSame
<1>7. CASE pollConfigApplyBatches
  <2>1. /\ listed' \subseteq Batches
        /\ UNCHANGED <<rollout, target, applyJob, created, request, advance, mischance, reached, raced, foreign>>
    BY <1>7 DEF pollConfigApplyBatches, rolloutHistory
  <2>2. RolloutShape'
    BY <1>0, <2>1 DEF RolloutShape
  <2> QED
    BY <1>0, <2>1, <2>2, QueueSame, JobsSame, RequestsSame
<1>8. CASE FinalizeBatch
  <2>1. PICK s \in {"succeeded", "failed"} : SetStatus(advance.on, s)
    BY <1>8 DEF FinalizeBatch
  <2>2. /\ advance' = NotAdvancing /\ advance.step = "flip"
        /\ UNCHANGED <<target, applyJob, created, request, listed, mischance, reached, raced, foreign>>
    BY <1>8 DEF FinalizeBatch, rolloutHistory
  <2>3. advance.on \in Batches
    BY <1>0, <2>2 DEF AdvanceOK, Advancing
  <2>4. /\ rollout' \in [Batches -> BatchRows]
        /\ \A c \in Batches : rollout'[c].older = rollout[c].older
        /\ \A c \in Batches : rollout[c].status # "none" => rollout'[c].status # "none"
    BY <1>0, <2>1, <2>3, SetStatusFacts
  <2>5. RolloutShape'
    BY <1>0, <2>2, <2>4, NotAdvancingFacts DEF RolloutShape
  <2>6. OrderGrows
    <3>1. Len(created) \in Nat
      BY <1>0, FieldFacts
    <3> QED
      BY <2>2, <2>4, <3>1 DEF OrderGrows
  <2> QED
    BY <2>2, <2>5, <2>6, JobsSame, RequestsSame
<1>9. ASSUME NEW b \in Batches, GetConfigApplyBatch(b)
      PROVE  RolloutShape' /\ OrderGrows /\ JobsStep /\ RequestsMove
  <2>1. /\ listed' = listed \ {b} /\ advance' \in Passings
        /\ UNCHANGED <<rollout, target, applyJob, created, request, mischance, reached, raced, foreign>>
    BY <1>0, <1>9, GetFacts
  <2>2. RolloutShape'
    BY <1>0, <2>1 DEF RolloutShape
  <2> QED
    BY <1>0, <2>1, <2>2, QueueSame, JobsSame, RequestsSame
<1>10. ASSUME NEW h \in Hosts, DeriveTarget(h)
       PROVE  RolloutShape' /\ OrderGrows /\ JobsStep /\ RequestsMove
  <2>1. /\ advance.step = "derive" /\ advance.on \in Batches
        /\ UNCHANGED <<rollout, applyJob, created, request, listed, reached>>
    BY <1>10, DeriveFacts
  <2>2. \E s \in {"running"} \cup Terminal : Derives(h, s)
    BY <1>10, DeriveFacts
  <2>3. \/ UNCHANGED target
        \/ \E j \in Batches : target' = WriteRow(advance.on, h, [status |-> "running", job |-> j])
    BY <1>10, DeriveFacts
  <2>4. raced' \in {raced, raced \cup {advance.on}} /\ (mischance' = mischance \/ Mischance)
    BY <1>10, DeriveFacts
  <2>5. advance' \in Passings
    BY <1>0, <2>1, <2>2, DerivesFacts
  <2>6. target' \in [Batches -> [Hosts -> TargetRows]]
    <3>1. CASE UNCHANGED target
      BY <1>0, <3>1 DEF RolloutShape
    <3>2. ASSUME NEW j \in Batches, target' = WriteRow(advance.on, h, [status |-> "running", job |-> j])
          PROVE  target' \in [Batches -> [Hosts -> TargetRows]]
      <4>1. [status |-> "running", job |-> j] \in TargetRows
        BY RowsWritten
      <4> QED
        BY <1>0, <2>1, <3>2, <4>1, WriteRowFacts
    <3> QED
      BY <2>3, <3>1, <3>2
  <2>9. foreign' \in {foreign, foreign \cup {<<advance.on, h>>}}
    BY <1>10, DeriveFacts
  <2>7. /\ raced' \subseteq Batches /\ raced \subseteq raced' /\ mischance' \in 0 .. MaxMischance
        /\ foreign' \subseteq Batches \X Hosts /\ foreign \subseteq foreign'
    BY <1>0, <2>1, <2>4, <2>9, MischanceShape DEF RolloutShape
  <2>8. RolloutShape'
    BY <1>0, <2>1, <2>5, <2>6, <2>7 DEF RolloutShape
  <2> QED
    BY <1>0, <2>1, <2>7, <2>8, QueueSame, JobsSame, RequestsSame
<1>11. ASSUME NEW h \in Hosts, UpdateConfigApplyBatchTargetStatus(h)
       PROVE  RolloutShape' /\ OrderGrows /\ JobsStep /\ RequestsMove
  <2>1. /\ UNCHANGED <<rollout, applyJob, created, request, listed, mischance, reached, raced, foreign>>
        /\ target' \in [Batches -> [Hosts -> TargetRows]] /\ advance' \in Passings
    BY <1>11, UpdateFacts
  <2>2. RolloutShape'
    BY <1>0, <2>1 DEF RolloutShape
  <2> QED
    BY <1>0, <2>1, <2>2, QueueSame, JobsSame, RequestsSame
<1>12. CASE AdvanceFails
  <2>1. /\ Mischance /\ advance' = NotAdvancing
        /\ UNCHANGED <<rollout, target, applyJob, created, request, listed, reached, raced, foreign>>
    BY <1>12 DEF AdvanceFails, rolloutHistory
  <2>2. mischance' \in 0 .. MaxMischance
    BY <1>0, <2>1, MischanceShape
  <2>3. RolloutShape'
    BY <1>0, <2>1, <2>2, NotAdvancingFacts DEF RolloutShape
  <2> QED
    BY <1>0, <2>1, <2>3, QueueSame, JobsSame, RequestsSame
<1>13. CASE RolloutPanelRestarts
  <2>1. /\ request' \in [Batches -> ReqShape]
        /\ \A b \in Batches : request'[b].step \in {"idle", "over"} /\ request'[b].left = {}
        /\ Mischance /\ listed' = {} /\ advance' = NotAdvancing
        /\ UNCHANGED <<rollout, target, applyJob, created, reached, raced, foreign>>
    BY <1>0, <1>13, RestartFacts
  <2>2. mischance' \in 0 .. MaxMischance
    BY <1>0, <2>1, MischanceShape
  <2>3. RolloutShape'
    BY <1>0, <2>1, <2>2, NotAdvancingFacts DEF RolloutShape
  <2>4. RequestsMove
    <3>1. \A b \in Batches : request'[b].step \notin {"enqueue", "record"} /\ request'[b].left = {}
      BY <2>1
    <3> QED
      BY <2>1, <3>1 DEF RequestsMove, Recorded
  <2> QED
    BY <1>0, <2>1, <2>3, <2>4, QueueSame, JobsSame
<1>14. CASE UNCHANGED rolloutVars
  <2>1. UNCHANGED <<rollout, target, applyJob, created, request, listed, advance, mischance, reached, raced, foreign>>
    BY <1>14 DEF rolloutVars
  <2>2. RolloutShape'
    BY <1>0, <2>1 DEF RolloutShape
  <2> QED
    BY <1>0, <2>1, <2>2, QueueSame, JobsSame, RequestsSame
<1> QED
  BY <1>1, <1>2, <1>3, <1>4, <1>5, <1>6, <1>7, <1>8, <1>9, <1>10, <1>11, <1>12, <1>13, <1>14
     DEF RolloutNext, Worker

\* What a batch that exists was promised stays promised.
LEMMA QueueKept ==
  ASSUME RolloutShape, RolloutShape', OrderGrows, NEW b \in Batches, rollout[b].status # "none",
         NEW h \in Hosts
  PROVE  /\ \A j : InOrder(b, h, j) => InOrder(b, h, j)'
         /\ AppliedSince(b, h) => AppliedSince(b, h)'
<1>1. rollout'[b].older = rollout[b].older /\ reached \subseteq reached' /\ foreign \subseteq foreign'
      /\ Len(created) <= Len(created') /\ \A i \in 1 .. Len(created) : created'[i] = created[i]
  BY DEF OrderGrows
<1>2. Len(created) \in Nat /\ Len(created') \in Nat /\ rollout[b].older \in Nat
  BY FieldFacts DEF RolloutShape
<1>3. ASSUME NEW i \in NotOlder(b) PROVE i \in NotOlder(b)' /\ created'[i] = created[i]
  <2>1. i \in rollout[b].older + 1 .. Len(created)
    BY DEF NotOlder
  <2>2. i \in 1 .. Len(created) /\ i \in rollout'[b].older + 1 .. Len(created')
    BY <1>1, <1>2, <2>1
  <2> QED
    BY <1>1, <2>2 DEF NotOlder
<1>4. ASSUME NEW j, InOrder(b, h, j) PROVE InOrder(b, h, j)'
  BY <1>3, <1>4 DEF InOrder
<1>5. ASSUME AppliedSince(b, h) PROVE AppliedSince(b, h)'
  <2>1. CASE OwnApplied(b, h)
    BY <1>1, <2>1 DEF AppliedSince, OwnApplied
  <2>2. CASE AdoptedApplied(b, h)
    <3>1. PICK i \in NotOlder(b) : created[i][2] = h /\ created[i] \in reached
      BY <2>2 DEF AdoptedApplied
    <3>2. i \in NotOlder(b)' /\ created'[i] = created[i]
      BY <1>3
    <3>3. i \in NotOlder(b)' /\ created'[i][2] = h /\ created'[i] \in reached' /\ <<b, h>> \in foreign'
      BY <1>1, <2>2, <3>1, <3>2 DEF AdoptedApplied
    <3> QED
      BY <3>3 DEF AppliedSince, AdoptedApplied
  <2> QED
    BY <1>5, <2>1, <2>2 DEF AppliedSince
<1> QED
  BY <1>4, <1>5

\* A fulfilled target stays fulfilled.
LEMMA FulfilledKept ==
  ASSUME RolloutShape, RolloutShape', OrderGrows, RequestsMove, NEW b \in Batches,
         rollout[b].status # "none", NEW h \in Hosts, target'[b][h] = target[b][h], Fulfilled(b, h)
  PROVE  Fulfilled(b, h)'
<1>1. CASE AppliedSince(b, h)
  BY <1>1, QueueKept DEF Fulfilled
<1>2. CASE target[b][h] = RecordedRow(b, FALSE) /\ Recorded(b, h)
  <2>1. Recorded(b, h)'
    BY <1>2 DEF RequestsMove
  <2>2. RecordedRow(b, FALSE)' = RecordedRow(b, FALSE)
    BY DEF RecordedRow
  <2> QED
    BY <1>2, <2>1, <2>2 DEF Fulfilled
<1> QED
  BY <1>1, <1>2 DEF Fulfilled

\* A target that has lost its job has lost it for good.
LEMMA TrulyLostKept ==
  ASSUME RolloutShape, JobsMade, JobsStep, RequestsMove, NEW b \in Batches, rollout[b].status # "none",
         NEW h \in Hosts, TargetOK(b, h), target'[b][h].job = target[b][h].job, TrulyLost(b, h)
  PROVE  TrulyLost(b, h)'
<1> DEFINE j == OwnJob(b, h)
<1>1. OwnJob(b, h)' = j
  BY DEF OwnJob
<1>2. request[b].step \notin {"enqueue", "record"} /\ applyJob[j][h] \in {"none", "forgotten"}
  BY DEF TrulyLost
<1>3. request'[b].step \notin {"enqueue", "record"}
  BY <1>2 DEF RequestsMove
<1>4. applyJob'[j][h] \in {"none", "forgotten"}
  <2>1. CASE target[b][h].job = NoJob
    <3>1. j = b
      BY <2>1 DEF OwnJob
    <3> QED
      BY <1>2, <3>1 DEF JobsStep
  <2>2. CASE target[b][h].job # NoJob
    <3>1. j = target[b][h].job /\ InOrder(b, h, j)
      BY <2>2 DEF OwnJob, TargetOK
    <3>2. j \in Batches /\ applyJob[j][h] # "none"
      BY <3>1, QueuedMade
    <3> QED
      BY <1>2, <3>2 DEF JobsStep
  <2> QED
    BY <2>1, <2>2
<1> QED
  BY <1>1, <1>3, <1>4 DEF TrulyLost

\* The target rows that a step leaves alone.
LEMMA TargetKept ==
  ASSUME RolloutInv, RolloutShape', OrderGrows, JobsStep, RequestsMove,
         NEW b \in Batches, NEW h \in Hosts, rollout[b].status # "none", target'[b][h] = target[b][h]
  PROVE  TargetOK(b, h)'
<1>0. RolloutShape /\ JobsMade /\ TargetOK(b, h)
  BY DEF RolloutInv
<1> DEFINE row == target[b][h]
<1>1. row.job # NoJob => InOrder(b, h, row.job)'
  BY <1>0, QueueKept DEF TargetOK
<1>2. ASSUME row.job # NoJob, applyJob'[row.job][h] = "forgotten"
      PROVE  request'[b].step \in {"idle", "over"}
  <2>1. row.job \in Batches
    BY <1>0, <1>2, QueuedMade DEF TargetOK
  <2>2. request[b].step \in {"idle", "over"}
    <3>1. CASE applyJob[row.job][h] = "forgotten"
      BY <1>0, <1>2, <3>1 DEF TargetOK
    <3>2. CASE applyJob[row.job][h] # "forgotten"
      BY <1>2, <2>1, <3>2 DEF JobsStep, Settled
    <3> QED
      BY <3>1, <3>2
  <2> QED
    BY <2>2 DEF RequestsMove
<1>3. row.status = "succeeded" => Fulfilled(b, h)'
  BY <1>0, FulfilledKept DEF TargetOK
<1>4. row.status = "lost" /\ b \notin raced' => TrulyLost(b, h)'
  BY <1>0, TrulyLostKept DEF TargetOK, OrderGrows
<1>5. /\ target'[b][h].job # NoJob => InOrder(b, h, target[b][h].job)'
      /\ target'[b][h].job # NoJob /\ applyJob'[target'[b][h].job][h] = "forgotten" =>
           request'[b].step \in {"idle", "over"}
      /\ target'[b][h].status = "succeeded" => Fulfilled(b, h)'
      /\ target'[b][h].status = "lost" /\ b \notin raced' => TrulyLost(b, h)'
  BY <1>1, <1>2, <1>3, <1>4
<1>6. target'[b][h].job # NoJob => InOrder(b, h, target[b][h].job)'
  BY <1>5
<1> QED
  BY <1>5, <1>6 DEF TargetOK, InOrder

\* A row without a job and without a verdict promises nothing.
LEMMA TargetVacuous ==
  ASSUME NEW b \in Batches, NEW h \in Hosts, target'[b][h].job = NoJob,
         target'[b][h].status \in {"none", "pending"}
  PROVE  TargetOK(b, h)'
BY DEF TargetOK

\* A target row that is not written stays as it should be.
LEMMA TargetSame ==
  ASSUME RolloutInv, RolloutShape', OrderGrows, JobsStep, RequestsMove,
         NEW b \in Batches, NEW h \in Hosts, target'[b][h] = target[b][h]
  PROVE  TargetOK(b, h)'
<1>1. CASE rollout[b].status # "none"
  BY <1>1, TargetKept
<1>2. CASE rollout[b].status = "none"
  <2>1. target[b][h] = NoTarget
    BY <1>2 DEF RolloutInv, FreshOK
  <2> QED
    BY <2>1, TargetRowFacts, TargetVacuous
<1> QED
  BY <1>1, <1>2

\* Which steps write target rows.
LEMMA TargetWriters ==
  ASSUME [RolloutNext]_rolloutVars, target' # target
  PROVE  \/ \E b \in Batches : \/ \E hosts \in SUBSET Hosts : CreateConfigApplyBatch(b, hosts)
                               \/ SetConfigApplyBatchTargetJob(b) \/ PruneConfigApplyBatches(b)
         \/ \E h \in Hosts : DeriveTarget(h) \/ UpdateConfigApplyBatchTargetStatus(h)
BY DEF RolloutNext, Worker, rolloutVars, enqueueConfigApplyJob, markConfigApplyBatchFailed, JobEnding,
       JobEnds, JobForgotten, pollConfigApplyBatches, FinalizeBatch, GetConfigApplyBatch, AdvanceFails,
       RolloutPanelRestarts

\* Every row keeps what it promises.
LEMMA TargetStep ==
  ASSUME RolloutInv, [RolloutNext]_rolloutVars, NEW b \in Batches, NEW h \in Hosts
  PROVE  TargetOK(b, h)'
<1>0. /\ RolloutShape /\ JobsMade /\ AdvanceOK /\ TargetOK(b, h) /\ JobOK(b, h)
      /\ FreshOK(b) /\ RequestOK(b)
  BY DEF RolloutInv
<1>1. RolloutShape' /\ OrderGrows /\ JobsStep /\ RequestsMove
  BY StepMoves
<1>2. CASE target'[b][h] = target[b][h]
  BY <1>1, <1>2, TargetSame
<1>3. CASE target'[b][h] # target[b][h]
  <2>1. ASSUME NEW c \in Batches, NEW hosts \in SUBSET Hosts, CreateConfigApplyBatch(c, hosts)
        PROVE  TargetOK(b, h)'
    BY <1>0, <1>3, <2>1, CreateFacts, TargetVacuous
  <2>2. ASSUME NEW c \in Batches, PruneConfigApplyBatches(c)
        PROVE  TargetOK(b, h)'
    <3>1. target'[b][h] = NoTarget
      BY <1>0, <1>3, <2>2, PruneFacts
    <3> QED
      BY <3>1, TargetRowFacts, TargetVacuous
  <2>3. ASSUME NEW c \in Batches, SetConfigApplyBatchTargetJob(c)
        PROVE  TargetOK(b, h)'
    <3> DEFINE k == request[c].host  q == request[c].queued
    <3>0. request[c].step = "record" => k \in Hosts
      BY DEF RolloutInv, RequestOK
    <3>1. /\ request[c].step = "record" /\ request'[c].left = request[c].left
          /\ UNCHANGED <<rollout, applyJob, created, reached, raced, foreign>>
      BY <1>0, <2>3, <3>0, RecordFacts
    <3>2. target' = WriteRow(c, k, RecordedRow(c, q)) /\ request'[c].step \in {"over", "enqueue"}
      BY <1>0, <1>3, <2>3, <3>0, RecordFacts
    <3>3. k \in Hosts /\ q \in BOOLEAN /\ RecordedRow(c, q) \in TargetRows
      BY <1>0, <3>0, <3>1, FieldFacts, RowsWritten
    <3>4. /\ target'[c][k] = IF target[c][k] = NoTarget THEN NoTarget ELSE RecordedRow(c, q)
          /\ \A d \in Batches, g \in Hosts : d # c \/ g # k => target'[d][g] = target[d][g]
      BY <1>0, <3>2, <3>3, WriteRowFacts
    <3>5. b = c /\ h = k /\ target[b][h] # NoTarget /\ target'[b][h] = RecordedRow(b, q)
      BY <1>3, <3>4
    <3>6. rollout[b].status # "none"
      BY <1>0, <3>5 DEF FreshOK
    <3>7. CASE q
      <4>1. target'[b][h] = [status |-> "running", job |-> b]
        BY <3>5, <3>7 DEF RecordedRow
      <4>2. applyJob[b][h] \notin {"none", "forgotten"}
        BY <1>0, <3>1, <3>5, <3>7 DEF RequestOK
      <4>3. InOrder(b, h, b)'
        BY <1>0, <1>1, <3>6, <4>2, QueueKept DEF JobOK
      <4>4. target'[b][h].job = b /\ target'[b][h].status = "running"
        BY <4>1
      <4>5. applyJob'[b][h] # "forgotten"
        BY <3>1, <4>2
      <4> QED
        BY <4>3, <4>4, <4>5 DEF TargetOK, InOrder
    <3>8. CASE ~q
      <4>1. RecordedRow(b, FALSE) = [status |-> "succeeded", job |-> NoJob]
        BY DEF RecordedRow
      <4>2. target'[b][h] = RecordedRow(b, FALSE)
        BY <3>3, <3>5, <3>8
      <4>3. h \notin request[b].left
        BY <1>0, <3>1, <3>5 DEF RequestOK
      <4>4. Recorded(b, h)'
        BY <3>1, <3>2, <3>5, <4>3 DEF Recorded
      <4>5. Fulfilled(b, h)'
        BY <4>1, <4>2, <4>4 DEF Fulfilled, RecordedRow
      <4>a. RecordedRow(b, FALSE).job = NoJob /\ RecordedRow(b, FALSE).status = "succeeded"
        BY DEF RecordedRow
      <4>6. target'[b][h].job = NoJob /\ target'[b][h].status = "succeeded"
        BY <4>2, <4>a, Zenon
      <4> QED
        BY <4>5, <4>6 DEF TargetOK
    <3> QED
      BY <3>7, <3>8
  <2>4. ASSUME NEW k \in Hosts, DeriveTarget(k)
        PROVE  TargetOK(b, h)'
    <3>1. PICK j \in Looked(k) :
            /\ j \in Batches \cup {NoJob} /\ (j # NoJob => InOrder(advance.on, k, j))
            /\ advance.rows[k].job = NoJob /\ j # NoJob
            /\ target' = WriteRow(advance.on, k, [status |-> "running", job |-> j])
      BY <1>3, <2>4, DeriveFacts
    <3>2. advance.on \in Batches /\ UNCHANGED <<rollout, applyJob, created, request, reached>>
      BY <2>4, DeriveFacts
    <3>3. [status |-> "running", job |-> j] \in TargetRows
      BY <3>1, RowsWritten
    <3>4. b = advance.on /\ h = k /\ target'[b][h] = [status |-> "running", job |-> j]
          /\ target[b][h] # NoTarget
      BY <1>0, <1>3, <3>1, <3>2, <3>3, WriteRowFacts
    <3>5. applyJob[j][h] # "forgotten"
      BY <1>0, <3>1, <3>2, <3>4, FoundFacts DEF Looked
    <3>6. rollout[b].status # "none"
      BY <1>0, <3>4 DEF FreshOK
    <3>7. InOrder(b, h, j)'
      BY <1>0, <1>1, <3>1, <3>4, <3>6, QueueKept
    <3>8. target'[b][h].job = j /\ target'[b][h].status = "running"
      BY <3>4
    <3> QED
      BY <3>2, <3>5, <3>7, <3>8 DEF TargetOK, InOrder
  <2>5. ASSUME NEW k \in Hosts, UpdateConfigApplyBatchTargetStatus(k)
        PROVE  TargetOK(b, h)'
    <3> DEFINE v == advance.verdict[h]
    <3>a. \A c \in Batches, g \in Hosts : c # advance.on \/ g # k => target'[c][g] = target[c][g]
      BY <2>5, UpdateFacts
    <3>b. UNCHANGED <<rollout, applyJob, created, request, reached, raced, foreign>>
      BY <2>5, UpdateFacts
    <3>1. /\ b = advance.on /\ h = k
          /\ UNCHANGED <<rollout, applyJob, created, request, reached, raced, foreign>>
      BY <1>3, <3>a, <3>b
    <3>2. /\ target'[b][h].job = target[b][h].job
          /\ target'[b][h] \in {NoTarget, [status |-> v, job |-> target[b][h].job]}
          /\ (target'[b][h] = NoTarget <=> target[b][h] = NoTarget)
          /\ v \in Terminal /\ v # advance.rows[h].status
      BY <2>5, <3>1, UpdateFacts
    <3>3. target[b][h] # NoTarget /\ target'[b][h].status = v
      BY <1>3, <3>2
    <3>4. ScanOK(b, h) /\ rollout[b].status # "none"
      BY <1>0, <2>5, <3>1, UpdateFacts DEF AdvanceOK, Advancing
    <3>5. target[b][h].job # NoJob => InOrder(b, h, target[b][h].job)'
      <4>1. PICK j : j = target[b][h].job
        OBVIOUS
      <4>2. j # NoJob => InOrder(b, h, j)'
        BY <1>0, <1>1, <3>4, <4>1, QueueKept DEF TargetOK
      <4> QED
        BY <3>2, <4>1, <4>2 DEF InOrder
    <3>6. target[b][h].job # NoJob /\ applyJob'[target[b][h].job][h] = "forgotten" =>
            request'[b].step \in {"idle", "over"}
      BY <1>0, <3>1 DEF TargetOK
    <3>7. v = "succeeded" => Fulfilled(b, h)'
      BY <1>0, <1>1, <3>2, <3>4, QueueKept DEF ScanOK, PassReads, PassPlace, Fulfilled
    <3>8. v = "lost" /\ b \notin raced' => TrulyLost(b, h)'
      BY <1>0, <1>1, <3>1, <3>2, <3>4, TrulyLostKept DEF ScanOK, PassReads, PassPlace
    <3> QED
      BY <3>2, <3>3, <3>5, <3>6, <3>7, <3>8 DEF TargetOK, InOrder
  <2>6. target' # target
    BY <1>3
  <2> QED
    BY <2>1, <2>2, <2>3, <2>4, <2>5, <2>6, TargetWriters
<1> QED
  BY <1>2, <1>3

---------------------------------------------------------------------------
(* Jobs, requests and batches.                                             *)

\* Only the request of a batch makes its jobs.
LEMMA JobMakers ==
  ASSUME RolloutShape, [RolloutNext]_rolloutVars, NEW b \in Batches, NEW h \in Hosts,
         applyJob[b][h] = "none", applyJob'[b][h] # "none"
  PROVE  created' = Append(created, <<b, h>>) /\ UNCHANGED rollout
<1>1. ASSUME NEW c \in Batches, NEW k \in Hosts, JobEnding(c, k) \/ JobForgotten(c, k)
      PROVE  FALSE
  <2>1. PICK s \in JobStates : applyJob' = [applyJob EXCEPT ![c][k] = s] /\ applyJob[c][k] # "none"
    BY <1>1 DEF JobEnding, JobEnds, JobForgotten, JobStates
  <2>2. c # b \/ k # h => applyJob'[b][h] = applyJob[b][h]
    <3>1. JobWrites(c, k, s)
      BY <2>1 DEF JobWrites
    <3> QED
      BY <3>1, JobWriteFacts
  <2> QED
    BY <2>1, <2>2
<1>2. ASSUME NEW c \in Batches, NEW k \in Hosts, enqueueConfigApplyJob(c, k)
      PROVE  created' = Append(created, <<b, h>>) /\ UNCHANGED rollout
  <2>1. created' = Append(created, <<c, k>>) /\ applyJob' = [applyJob EXCEPT ![c][k] = "queued"]
        /\ UNCHANGED rollout
    BY <1>2, EnqueueFacts
  <2>2. c # b \/ k # h => applyJob'[b][h] = applyJob[b][h]
    <3>1. "queued" \in JobStates /\ JobWrites(c, k, "queued")
      BY <2>1 DEF JobStates, JobWrites
    <3> QED
      BY <3>1, JobWriteFacts
  <2> QED
    BY <2>1, <2>2
<1>3. \/ \E c \in Batches, k \in Hosts : JobEnding(c, k) \/ JobForgotten(c, k) \/ enqueueConfigApplyJob(c, k)
      \/ UNCHANGED applyJob
  BY DEF RolloutNext, Worker, rolloutVars, CreateConfigApplyBatch, SetConfigApplyBatchTargetJob,
         markConfigApplyBatchFailed, PruneConfigApplyBatches, pollConfigApplyBatches, FinalizeBatch,
         GetConfigApplyBatch, DeriveTarget, UpdateConfigApplyBatchTargetStatus, AdvanceFails,
         RolloutPanelRestarts
<1> QED
  BY <1>1, <1>2, <1>3

\* Every step keeps JobOK.
LEMMA JobStep ==
  ASSUME RolloutInv, [RolloutNext]_rolloutVars, NEW b \in Batches, NEW h \in Hosts
  PROVE  JobOK(b, h)'
<1>0. RolloutShape /\ FreshOK(b) /\ JobOK(b, h)
  BY DEF RolloutInv
<1>1. RolloutShape' /\ OrderGrows /\ JobsStep
  BY StepMoves
<1>2. applyJob'[b][h] = "succeeded" => <<b, h>> \in reached'
  BY <1>0, <1>1 DEF JobsStep, JobOK, OrderGrows
<1>3. CASE applyJob[b][h] # "none"
  <2>1. rollout[b].status # "none" /\ InOrder(b, h, b)
    BY <1>0, <1>3 DEF FreshOK, JobOK
  <2>2. InOrder(b, h, b)'
    BY <1>0, <1>1, <2>1, QueueKept
  <2> QED
    BY <1>2, <2>2 DEF JobOK
<1>4. CASE applyJob[b][h] = "none" /\ applyJob'[b][h] # "none"
  <2>1. created' = Append(created, <<b, h>>) /\ rollout' = rollout
    BY <1>0, <1>4, JobMakers
  <2>2. created \in Seq(Batches \X Hosts) /\ <<b, h>> \in Batches \X Hosts /\ Len(created) \in Nat
    BY <1>0 DEF RolloutShape
  <2>3. Len(created') = Len(created) + 1 /\ created'[Len(created) + 1] = <<b, h>>
    BY <2>1, <2>2
  <2>4. rollout[b].older \in Nat /\ rollout[b].older <= Len(created)
    BY <1>0, FieldFacts DEF FreshOK
  <2>5. Len(created) + 1 \in NotOlder(b)'
    BY <2>1, <2>2, <2>3, <2>4 DEF NotOlder
  <2>6. InOrder(b, h, b)'
    BY <2>3, <2>5 DEF InOrder
  <2> QED
    BY <1>2, <2>6 DEF JobOK
<1>5. CASE applyJob'[b][h] = "none"
  BY <1>5 DEF JobOK
<1> QED
  BY <1>3, <1>4, <1>5

\* Every step keeps JobsMade.
LEMMA JobsMadeStep ==
  ASSUME RolloutInv, [RolloutNext]_rolloutVars
  PROVE  JobsMade'
<1>0. RolloutShape /\ JobsMade
  BY DEF RolloutInv
<1>1. RolloutShape' /\ OrderGrows /\ JobsStep
  BY StepMoves
<1> SUFFICES ASSUME NEW i \in 1 .. Len(created')
             PROVE  applyJob'[created'[i][1]][created'[i][2]] # "none"
  BY DEF JobsMade
<1>2. Len(created) \in Nat /\ created \in Seq(Batches \X Hosts) /\ i \in Nat
      /\ \A k \in 1 .. Len(created) : created[k] \in Batches \X Hosts
  <2>1. Len(created') \in Nat
    BY <1>1 DEF RolloutShape
  <2> QED
    BY <1>0, <2>1, FieldFacts DEF RolloutShape
<1>3. CASE i \in 1 .. Len(created)
  <2>1. created'[i] = created[i] /\ created[i][1] \in Batches /\ created[i][2] \in Hosts
    BY <1>1, <1>2, <1>3 DEF OrderGrows
  <2>2. applyJob[created[i][1]][created[i][2]] # "none"
    BY <1>0, <1>3 DEF JobsMade
  <2> QED
    BY <1>1, <2>1, <2>2 DEF JobsStep
<1>4. CASE i \notin 1 .. Len(created)
  <2>1. created' # created
    BY <1>4
  <2>2. \E c \in Batches, k \in Hosts : enqueueConfigApplyJob(c, k)
    BY <2>1 DEF RolloutNext, Worker, rolloutVars, CreateConfigApplyBatch, SetConfigApplyBatchTargetJob,
         markConfigApplyBatchFailed, PruneConfigApplyBatches, pollConfigApplyBatches, FinalizeBatch,
         GetConfigApplyBatch, DeriveTarget, UpdateConfigApplyBatchTargetStatus, AdvanceFails,
         RolloutPanelRestarts, JobEnding, JobEnds, JobForgotten
  <2>3. PICK c \in Batches, k \in Hosts : enqueueConfigApplyJob(c, k)
    BY <2>2
  <2>4. created' = Append(created, <<c, k>>) /\ applyJob' = [applyJob EXCEPT ![c][k] = "queued"]
    BY <1>0, <2>1, <2>3, EnqueueFacts
  <2>5. <<c, k>> \in Batches \X Hosts
    OBVIOUS
  <2>6. Len(created') = Len(created) + 1 /\ created'[Len(created) + 1] = <<c, k>>
    BY <1>2, <2>4, <2>5
  <2>7. i = Len(created) + 1
    BY <1>2, <1>4, <2>6
  <2>8. created'[i][1] = c /\ created'[i][2] = k
    BY <2>6, <2>7
  <2>9. "queued" \in JobStates /\ JobWrites(c, k, "queued")
    BY <2>4 DEF JobStates, JobWrites
  <2>10. applyJob'[c][k] = "queued"
    BY <1>0, <2>9, JobWriteFacts
  <2> QED
    BY <2>8, <2>10
<1> QED
  BY <1>3, <1>4

\* Which steps change a request.
LEMMA RequestWriters ==
  ASSUME [RolloutNext]_rolloutVars, request' # request
  PROVE  \/ \E b \in Batches : \/ \E hosts \in SUBSET Hosts : CreateConfigApplyBatch(b, hosts)
                               \/ \E h \in Hosts : enqueueConfigApplyJob(b, h)
                               \/ SetConfigApplyBatchTargetJob(b) \/ markConfigApplyBatchFailed(b)
         \/ RolloutPanelRestarts
BY DEF RolloutNext, Worker, rolloutVars, PruneConfigApplyBatches, JobEnding,
       JobEnds, JobForgotten, pollConfigApplyBatches, FinalizeBatch, GetConfigApplyBatch, AdvanceFails,
       DeriveTarget, UpdateConfigApplyBatchTargetStatus

\* A batch that is not there yet stays untouched until it is created.
LEMMA FreshRequest ==
  ASSUME RolloutInv, [RolloutNext]_rolloutVars, NEW b \in Batches, rollout[b].status = "none",
         rollout'[b].status = "none" \/ request'[b].step # "enqueue"
  PROVE  request'[b].step = "idle" /\ request'[b].left = {}
<1>0. RolloutShape /\ FreshOK(b) /\ \A c \in Batches : RequestOK(c)
  BY DEF RolloutInv
<1>1. request[b].step = "idle" /\ request[b].left = {}
  BY <1>0 DEF FreshOK
<1>2. ASSUME NEW c \in Batches, NEW hosts \in SUBSET Hosts, CreateConfigApplyBatch(c, hosts)
      PROVE  request'[b].step = "idle" /\ request'[b].left = {}
  BY <1>0, <1>1, <1>2, CreateFacts
<1>3. ASSUME NEW c \in Batches, NEW h \in Hosts, enqueueConfigApplyJob(c, h)
      PROVE  request'[b].step = "idle" /\ request'[b].left = {}
  BY <1>0, <1>1, <1>3, EnqueueFacts
<1>4. ASSUME NEW c \in Batches, SetConfigApplyBatchTargetJob(c)
      PROVE  request'[b].step = "idle" /\ request'[b].left = {}
  <2>1. request[c].step = "record" => request[c].host \in Hosts
    BY <1>0 DEF RequestOK
  <2> QED
    BY <1>0, <1>1, <1>4, <2>1, RecordFacts
<1>5. ASSUME NEW c \in Batches, markConfigApplyBatchFailed(c)
      PROVE  request'[b].step = "idle" /\ request'[b].left = {}
  BY <1>0, <1>1, <1>5, MarkFacts
<1>6. CASE RolloutPanelRestarts
  BY <1>0, <1>1, <1>6, RestartFacts
<1>7. CASE request' = request
  BY <1>1, <1>7
<1> QED
  BY <1>2, <1>3, <1>4, <1>5, <1>6, <1>7, RequestWriters

\* Requests stay consistent with the jobs they have made.
LEMMA RequestStep ==
  ASSUME RolloutInv, [RolloutNext]_rolloutVars, NEW b \in Batches
  PROVE  RequestOK(b)'
<1>0. RolloutShape /\ FreshOK(b) /\ RequestOK(b) /\ \A c \in Batches : RequestOK(c)
  BY DEF RolloutInv
<1>1. RolloutShape' /\ OrderGrows /\ JobsStep /\ RequestsMove
  BY StepMoves
<1>2. \A h \in request'[b].left : applyJob'[b][h] = "none"
  <2> SUFFICES ASSUME NEW h \in request'[b].left PROVE applyJob'[b][h] = "none"
    OBVIOUS
  <2>1. h \in Hosts
    BY <1>1, RequestShape DEF RolloutShape
  <2>2. applyJob[b][h] = "none"
    <3>1. CASE rollout[b].status = "none"
      BY <1>0, <2>1, <3>1 DEF FreshOK
    <3>2. CASE rollout[b].status # "none"
      BY <1>0, <1>1, <3>2 DEF RequestsMove, RequestOK
    <3> QED
      BY <3>1, <3>2
  <2> QED
    BY <1>1, <2>1, <2>2 DEF JobsStep
<1>3. ASSUME request'[b].step = "record"
      PROVE  /\ request'[b].host \in Hosts \ request'[b].left
             /\ request'[b].queued => applyJob'[b][request'[b].host] \notin {"none", "forgotten"}
  <2>1. CASE request'[b] = request[b]
    <3>1. /\ request[b].host \in Hosts \ request[b].left
          /\ request[b].queued => applyJob[b][request[b].host] \notin {"none", "forgotten"}
      BY <1>0, <1>3, <2>1 DEF RequestOK
    <3>2. ~Settled
      BY <1>3, <2>1 DEF Settled
    <3>3. PICK k \in Hosts : k = request[b].host
      BY <3>1
    <3>4. applyJob[b][k] \notin {"none", "forgotten"} => applyJob'[b][k] \notin {"none", "forgotten"}
      BY <1>1, <3>2 DEF JobsStep
    <3>5. request[b].queued => applyJob'[b][k] \notin {"none", "forgotten"}
      BY <3>1, <3>3, <3>4
    <3>6. request'[b].host = k /\ request'[b].left = request[b].left /\ request'[b].queued = request[b].queued
      BY <2>1, <3>3
    <3> QED
      BY <3>1, <3>3, <3>5, <3>6
  <2>2. ASSUME NEW c \in Batches, NEW h \in Hosts, enqueueConfigApplyJob(c, h), c = b
        PROVE  /\ request'[b].host \in Hosts \ request'[b].left
               /\ request'[b].queued => applyJob'[b][request'[b].host] \notin {"none", "forgotten"}
    <3>1. /\ request'[b].host = h /\ request'[b].left = request[b].left \ {h}
          /\ request'[b].queued => applyJob' = [applyJob EXCEPT ![b][h] = "queued"]
      BY <1>0, <1>3, <2>2, EnqueueFacts
    <3>2. "queued" \in JobStates /\ (request'[b].queued => JobWrites(b, h, "queued"))
      BY <3>1 DEF JobStates, JobWrites
    <3>3. request'[b].queued => applyJob'[b][h] = "queued"
      BY <1>0, <3>1, <3>2, JobWriteFacts
    <3> QED
      BY <3>1, <3>3
  <2>3. \/ request'[b] = request[b]
        \/ \E h \in Hosts : enqueueConfigApplyJob(b, h)
    <3>1. ASSUME NEW c \in Batches, NEW hosts \in SUBSET Hosts, CreateConfigApplyBatch(c, hosts)
          PROVE  request'[b] = request[b]
      BY <1>0, <1>3, <3>1, CreateFacts
    <3>2. ASSUME NEW c \in Batches, NEW h \in Hosts, enqueueConfigApplyJob(c, h), c # b
          PROVE  request'[b] = request[b]
      BY <1>0, <3>2, EnqueueFacts
    <3>3. ASSUME NEW c \in Batches, SetConfigApplyBatchTargetJob(c)
          PROVE  request'[b] = request[b]
      <4>1. request[c].step = "record" => request[c].host \in Hosts
        BY <1>0 DEF RequestOK
      <4>2. request'[c].step \in {"over", "enqueue", "failing"}
            /\ \A d \in Batches : d # c => request'[d] = request[d]
        BY <1>0, <3>3, <4>1, RecordFacts
      <4> QED
        BY <1>3, <4>2
    <3>4. ASSUME NEW c \in Batches, markConfigApplyBatchFailed(c)
          PROVE  request'[b] = request[b]
      BY <1>0, <1>3, <3>4, MarkFacts
    <3>5. ~RolloutPanelRestarts
      <4> SUFFICES ASSUME RolloutPanelRestarts PROVE FALSE
        OBVIOUS
      <4>1. request'[b].step \in {"idle", "over"}
        BY <1>0, RestartFacts
      <4> QED
        BY <1>3, <4>1
    <3> QED
      BY <3>1, <3>2, <3>3, <3>4, <3>5, RequestWriters
  <2> QED
    BY <2>1, <2>2, <2>3
<1> QED
  BY <1>2, <1>3 DEF RequestOK

\* How the row of a batch changes.
LEMMA StatusMoves ==
  ASSUME RolloutInv, [RolloutNext]_rolloutVars, NEW b \in Batches
  PROVE  \/ rollout'[b] = rollout[b]
         \/ \E hosts \in SUBSET Hosts : CreateConfigApplyBatch(b, hosts)
         \/ PruneConfigApplyBatches(b)
         \/ /\ rollout'[b].status \in {"failed", "pruned"} /\ rollout'[b].older = rollout[b].older
            /\ rollout[b].status # "none" /\ (rollout[b].status = "pruned" <=> rollout'[b].status = "pruned")
         \/ /\ FinalizeBatch /\ advance.on = b /\ rollout'[b].status = "succeeded"
            /\ rollout'[b].older = rollout[b].older
            /\ \A h \in Hosts : advance.verdict[h] \notin {"failed", "lost"}
<1>0. RolloutShape /\ AdvanceOK /\ FreshOK(b)
  BY DEF RolloutInv
<1>1. ASSUME NEW c \in Batches, NEW hosts \in SUBSET Hosts, CreateConfigApplyBatch(c, hosts), c # b
      PROVE  rollout'[b] = rollout[b]
  BY <1>0, <1>1, CreateFacts
<1>2. ASSUME NEW c \in Batches, PruneConfigApplyBatches(c), c # b
      PROVE  rollout'[b] = rollout[b]
  BY <1>0, <1>2, PruneFacts
<1>3. ASSUME NEW c \in Batches, markConfigApplyBatchFailed(c), rollout'[b] # rollout[b]
      PROVE  /\ rollout'[b].status \in {"failed", "pruned"} /\ rollout'[b].older = rollout[b].older
             /\ rollout[b].status # "none" /\ (rollout[b].status = "pruned" <=> rollout'[b].status = "pruned")
  <2>1. request[c].step = "failing" /\ SetStatus(c, "failed")
    BY <1>0, <1>3, MarkFacts
  <2>2. /\ \A d \in Batches : rollout'[d].older = rollout[d].older
        /\ rollout'[c].status = IF rollout[c].status = "pruned" THEN "pruned" ELSE "failed"
        /\ \A d \in Batches : d # c => rollout'[d] = rollout[d]
    BY <1>0, <2>1, SetStatusFacts
  <2>3. b = c /\ rollout[b].status # "none"
    BY <1>0, <1>3, <2>1, <2>2 DEF FreshOK
  <2> QED
    BY <2>2, <2>3
<1>4. ASSUME FinalizeBatch, rollout'[b] # rollout[b]
      PROVE  \/ /\ rollout'[b].status \in {"failed", "pruned"} /\ rollout'[b].older = rollout[b].older
                /\ rollout[b].status # "none" /\ (rollout[b].status = "pruned" <=> rollout'[b].status = "pruned")
             \/ /\ FinalizeBatch /\ advance.on = b /\ rollout'[b].status = "succeeded"
                /\ rollout'[b].older = rollout[b].older
                /\ \A h \in Hosts : advance.verdict[h] \notin {"failed", "lost"}
  <2>1. PICK s \in {"succeeded", "failed"} :
          SetStatus(advance.on, s) /\ (s = "succeeded" => \A h \in Hosts : advance.verdict[h] \notin {"failed", "lost"})
    BY <1>4 DEF FinalizeBatch
  <2>2. advance.on \in Batches /\ rollout[advance.on].status # "none"
    BY <1>0, <1>4 DEF FinalizeBatch, AdvanceOK, Advancing
  <2>3. /\ \A d \in Batches : rollout'[d].older = rollout[d].older
        /\ rollout'[advance.on].status = IF rollout[advance.on].status = "pruned" THEN "pruned" ELSE s
        /\ \A d \in Batches : d # advance.on => rollout'[d] = rollout[d]
    BY <1>0, <2>1, <2>2, SetStatusFacts
  <2>4. b = advance.on
    BY <1>4, <2>3
  <2> QED
    BY <1>4, <2>1, <2>2, <2>3, <2>4
<1>5. \/ \E c \in Batches : \/ \E hosts \in SUBSET Hosts : CreateConfigApplyBatch(c, hosts)
                            \/ PruneConfigApplyBatches(c) \/ markConfigApplyBatchFailed(c)
      \/ FinalizeBatch
      \/ UNCHANGED rollout
  BY DEF RolloutNext, Worker, rolloutVars, enqueueConfigApplyJob, SetConfigApplyBatchTargetJob, JobEnding,
         JobEnds, JobForgotten, pollConfigApplyBatches, GetConfigApplyBatch, DeriveTarget,
         UpdateConfigApplyBatchTargetStatus, AdvanceFails, RolloutPanelRestarts
<1> QED
  BY <1>1, <1>2, <1>3, <1>4, <1>5

\* A target row appears with its batch and not later.
LEMMA NoTargetStays ==
  ASSUME RolloutInv, [RolloutNext]_rolloutVars, NEW b \in Batches, NEW h \in Hosts,
         target[b][h] = NoTarget, rollout[b].status # "none" \/ rollout'[b].status = "none"
  PROVE  target'[b][h] = NoTarget
<1>0. RolloutShape /\ AdvanceOK /\ \A c \in Batches : RequestOK(c)
  BY DEF RolloutInv
<1>1. ASSUME NEW c \in Batches, NEW hosts \in SUBSET Hosts, CreateConfigApplyBatch(c, hosts)
      PROVE  target'[b][h] = NoTarget
  BY <1>0, <1>1, CreateFacts
<1>2. ASSUME NEW c \in Batches, PruneConfigApplyBatches(c)
      PROVE  target'[b][h] = NoTarget
  BY <1>0, <1>2, PruneFacts
<1>3. ASSUME NEW c \in Batches, NEW k \in Hosts, NEW row \in TargetRows, target' = WriteRow(c, k, row)
      PROVE  target'[b][h] = NoTarget
  BY <1>0, <1>3, WriteRowFacts
<1>4. ASSUME NEW c \in Batches, SetConfigApplyBatchTargetJob(c), target' # target
      PROVE  target'[b][h] = NoTarget
  <2>1. request[c].step = "record" => request[c].host \in Hosts
    BY <1>0 DEF RequestOK
  <2>2. target' = WriteRow(c, request[c].host, RecordedRow(c, request[c].queued)) /\ request[c].step = "record"
    BY <1>0, <1>4, <2>1, RecordFacts
  <2>3. RecordedRow(c, request[c].queued) \in TargetRows
    BY <1>0, FieldFacts, RowsWritten
  <2> QED
    BY <1>3, <2>1, <2>2, <2>3
<1>5. ASSUME NEW k \in Hosts, DeriveTarget(k), target' # target
      PROVE  target'[b][h] = NoTarget
  <2>1. PICK j \in Batches : target' = WriteRow(advance.on, k, [status |-> "running", job |-> j])
    BY <1>5, DeriveFacts
  <2>2. advance.on \in Batches /\ [status |-> "running", job |-> j] \in TargetRows
    BY <1>5, DeriveFacts, RowsWritten
  <2> QED
    BY <1>3, <2>1, <2>2
<1>6. ASSUME NEW k \in Hosts, UpdateConfigApplyBatchTargetStatus(k)
      PROVE  target'[b][h] = NoTarget
  <2>1. target'[advance.on][k] = NoTarget <=> target[advance.on][k] = NoTarget
    BY <1>6, UpdateFacts
  <2>2. \A c \in Batches, g \in Hosts : c # advance.on \/ g # k => target'[c][g] = target[c][g]
    BY <1>6, UpdateFacts
  <2> QED
    BY <2>1, <2>2
<1>7. CASE target' = target
  BY <1>7
<1> QED
  BY <1>1, <1>2, <1>4, <1>5, <1>6, <1>7, TargetWriters

\* The list of a poll holds running batches only.
LEMMA ListedMoves ==
  ASSUME RolloutInv, [RolloutNext]_rolloutVars
  PROVE  \/ listed' \subseteq listed
         \/ /\ UNCHANGED <<rollout, target, applyJob, created, request, advance>> /\ advance.step = "idle"
            /\ \A b \in listed' : rollout[b].status = "running"
BY DEF RolloutNext, Worker, rolloutVars, CreateConfigApplyBatch, enqueueConfigApplyJob,
       SetConfigApplyBatchTargetJob, markConfigApplyBatchFailed, PruneConfigApplyBatches, JobEnding, JobEnds,
       JobForgotten, pollConfigApplyBatches, FinalizeBatch, GetConfigApplyBatch, DeriveTarget,
       UpdateConfigApplyBatchTargetStatus, AdvanceFails, RolloutPanelRestarts

\* A batch that is not there leaves no trace.
LEMMA FreshStep ==
  ASSUME RolloutInv, [RolloutNext]_rolloutVars, NEW b \in Batches
  PROVE  FreshOK(b)'
<1>0. RolloutShape /\ FreshOK(b)
  BY DEF RolloutInv
<1>1. RolloutShape' /\ OrderGrows /\ JobsStep
  BY StepMoves
<1>2. rollout'[b].older <= Len(created')
  <2>1. Len(created) \in Nat /\ Len(created') \in Nat /\ Len(created) <= Len(created')
    BY <1>0, <1>1, FieldFacts DEF RolloutShape, OrderGrows
  <2>2. rollout[b].older \in Nat /\ rollout[b].older <= Len(created)
    BY <1>0, FieldFacts DEF FreshOK
  <2>3. rollout'[b].older = rollout[b].older \/ rollout'[b].older <= Len(created)
    BY <1>0, StatusMoves, CreateFacts, PruneFacts
  <2>4. rollout'[b].older \in Nat
    <3>1. rollout'[b] \in BatchRows
      BY <1>1 DEF RolloutShape
    <3> QED
      BY <3>1 DEF BatchRows
  <2> QED
    BY <2>1, <2>2, <2>3, <2>4
<1>3. ASSUME rollout'[b].status = "none"
      PROVE  /\ request'[b].step = "idle" /\ request'[b].left = {} /\ b \notin listed'
             /\ \A h \in Hosts : applyJob'[b][h] = "none" /\ target'[b][h] = NoTarget
  <2>1. rollout[b].status = "none"
    BY <1>1, <1>3 DEF OrderGrows
  <2>2. /\ request[b].step = "idle" /\ b \notin listed
        /\ \A h \in Hosts : applyJob[b][h] = "none" /\ target[b][h] = NoTarget
    BY <1>0, <2>1 DEF FreshOK
  <2>3. request'[b].step = "idle" /\ request'[b].left = {}
    BY <1>3, <2>1, FreshRequest
  <2>4. b \notin listed'
    BY <2>1, <2>2, ListedMoves
  <2>5. \A h \in Hosts : applyJob'[b][h] = "none"
    BY <1>1, <2>2 DEF JobsStep
  <2>6. \A h \in Hosts : target'[b][h] = NoTarget
    BY <1>3, <2>2, NoTargetStays
  <2> QED
    BY <2>3, <2>4, <2>5, <2>6
<1>4. ASSUME rollout'[b].status = "pruned", NEW h \in Hosts
      PROVE  target'[b][h] = NoTarget
  <2>1. CASE PruneConfigApplyBatches(b)
    BY <1>0, <2>1, PruneFacts
  <2>2. CASE rollout[b].status = "pruned"
    <3>1. target[b][h] = NoTarget
      BY <1>0, <2>2 DEF FreshOK
    <3> QED
      BY <2>2, <3>1, NoTargetStays
  <2>3. ~\E hosts \in SUBSET Hosts : CreateConfigApplyBatch(b, hosts)
    BY <1>0, <1>4, CreateFacts
  <2> QED
    BY <1>4, <2>1, <2>2, <2>3, StatusMoves
<1> QED
  BY <1>2, <1>3, <1>4 DEF FreshOK

\* A fulfilled target stays fulfilled: the request has nothing more to write on
\* it, and the pass does not write a row it has read as terminal.
LEMMA FulfilledStep ==
  ASSUME RolloutInv, [RolloutNext]_rolloutVars, NEW b \in Batches, NEW h \in Hosts,
         rollout[b].status # "none", Fulfilled(b, h),
         Advancing /\ advance.on = b => advance.rows[h].status \in Terminal
  PROVE  Fulfilled(b, h)' \/ PruneConfigApplyBatches(b)
<1>0. RolloutShape /\ AdvanceOK /\ \A c \in Batches : RequestOK(c)
  BY DEF RolloutInv
<1>1. RolloutShape' /\ OrderGrows /\ JobsStep /\ RequestsMove
  BY StepMoves
<1>2. CASE AppliedSince(b, h)
  BY <1>0, <1>1, <1>2, QueueKept DEF Fulfilled
<1>3. CASE target'[b][h] = target[b][h]
  BY <1>0, <1>1, <1>3, FulfilledKept
<1>4. CASE Recorded(b, h) /\ target'[b][h] # target[b][h]
  <2>1. ASSUME NEW c \in Batches, NEW hosts \in SUBSET Hosts, CreateConfigApplyBatch(c, hosts)
        PROVE  FALSE
    BY <1>0, <1>4, <2>1, CreateFacts
  <2>2. ASSUME NEW c \in Batches, PruneConfigApplyBatches(c)
        PROVE  PruneConfigApplyBatches(b)
    BY <1>0, <1>4, <2>2, PruneFacts
  <2>3. ASSUME NEW c \in Batches, SetConfigApplyBatchTargetJob(c)
        PROVE  FALSE
    <3>1. request[c].step = "record" => request[c].host \in Hosts
      BY <1>0 DEF RequestOK
    <3>2. target' = WriteRow(c, request[c].host, RecordedRow(c, request[c].queued)) /\ request[c].step = "record"
      BY <1>0, <1>4, <2>3, <3>1, RecordFacts
    <3>3. RecordedRow(c, request[c].queued) \in TargetRows
      BY <1>0, FieldFacts, RowsWritten
    <3>4. c = b /\ request[c].host = h
      BY <1>0, <1>4, <3>1, <3>2, <3>3, WriteRowFacts
    <3> QED
      BY <1>4, <3>2, <3>4 DEF Recorded
  <2>4. ASSUME NEW k \in Hosts, DeriveTarget(k)
        PROVE  FALSE
    <3>1. PICK j \in Batches : /\ target' = WriteRow(advance.on, k, [status |-> "running", job |-> j])
                               /\ advance.rows[k].status \notin Terminal
      BY <1>4, <2>4, DeriveFacts
    <3>2. /\ advance.on \in Batches /\ [status |-> "running", job |-> j] \in TargetRows
          /\ advance.step = "derive"
      BY <2>4, DeriveFacts, RowsWritten
    <3>3. advance.on = b /\ k = h
      BY <1>0, <1>4, <3>1, <3>2, WriteRowFacts
    <3> QED
      BY <3>1, <3>2, <3>3 DEF Advancing
  <2>5. ASSUME NEW k \in Hosts, UpdateConfigApplyBatchTargetStatus(k)
        PROVE  FALSE
    <3>1. \A c \in Batches, g \in Hosts : c # advance.on \/ g # k => target'[c][g] = target[c][g]
      BY <2>5, UpdateFacts
    <3>2. advance.on = b /\ k = h
      BY <1>4, <3>1
    <3>3. advance.step = "write" /\ advance.verdict[h] \in Terminal /\ advance.verdict[h] # advance.rows[h].status
      BY <2>5, <3>2, UpdateFacts
    <3>4. PassPlace(h)
      BY <1>0, <3>3 DEF AdvanceOK, Advancing, ScanOK
    <3>5. advance.rows[h].status \notin Terminal
      BY <3>3, <3>4 DEF PassPlace, Terminal
    <3> QED
      BY <3>2, <3>3, <3>5 DEF Advancing
  <2> QED
    BY <1>4, <2>1, <2>2, <2>3, <2>4, <2>5, TargetWriters
<1> QED
  BY <1>2, <1>3, <1>4 DEF Fulfilled

\* A succeeded batch keeps every node served.
LEMMA SucceededStep ==
  ASSUME RolloutInv, [RolloutNext]_rolloutVars, NEW b \in Batches
  PROVE  SucceededOK(b)'
<1>0. RolloutShape /\ AdvanceOK /\ SucceededOK(b) /\ \A h \in Hosts : TargetOK(b, h)
  BY DEF RolloutInv
<1>1. RolloutShape' /\ OrderGrows /\ JobsStep /\ RequestsMove
  BY StepMoves
<1> SUFFICES ASSUME rollout'[b].status = "succeeded"
             PROVE  b \notin listed' /\ \A h \in Hosts : target'[b][h] = NoTarget \/ Fulfilled(b, h)'
  BY DEF SucceededOK
<1>2. CASE rollout[b].status = "succeeded"
  <2>1. b \notin listed'
    BY <1>0, <1>2, ListedMoves DEF SucceededOK
  <2>2. ~(Advancing /\ advance.on = b)
    BY <1>0, <1>2 DEF AdvanceOK
  <2>3. ~PruneConfigApplyBatches(b)
    BY <1>0, PruneFacts
  <2>4. ASSUME NEW h \in Hosts PROVE target'[b][h] = NoTarget \/ Fulfilled(b, h)'
    <3>1. CASE target[b][h] = NoTarget
      BY <1>2, <3>1, NoTargetStays
    <3>2. CASE Fulfilled(b, h)
      BY <1>2, <2>2, <2>3, <3>2, FulfilledStep
    <3> QED
      BY <1>0, <1>2, <3>1, <3>2 DEF SucceededOK
  <2> QED
    BY <2>1, <2>4
<1>3. CASE rollout[b].status # "succeeded"
  <2>1. /\ FinalizeBatch /\ advance.on = b
        /\ \A h \in Hosts : advance.verdict[h] \notin {"failed", "lost"}
    BY <1>0, <1>3, StatusMoves, CreateFacts, PruneFacts
  <2>2. advance.step = "flip" /\ UNCHANGED <<target, listed>>
    BY <2>1 DEF FinalizeBatch
  <2>3. b \notin listed /\ rollout[b].status # "none" /\ \A h \in Hosts : PassReads(b, h) /\ PassPlace(h)
    BY <1>0, <2>1, <2>2 DEF AdvanceOK, Advancing, ScanOK
  <2>4. ASSUME NEW h \in Hosts, target[b][h] # NoTarget PROVE Fulfilled(b, h)'
    <3>1. advance.rows[h] # NoTarget
      BY <2>3, <2>4 DEF PassReads
    <3>2. advance.verdict[h] # "none"
      BY <2>2, <2>3, <3>1 DEF PassPlace
    <3>3. advance.verdict[h] \in {"none"} \cup Terminal
      BY <1>0, PassingFacts DEF RolloutShape
    <3>4. advance.verdict[h] = "succeeded"
      BY <2>1, <3>2, <3>3 DEF Terminal
    <3>5. Fulfilled(b, h)
      BY <2>3, <3>4 DEF PassReads, Fulfilled
    <3> QED
      BY <1>0, <1>1, <2>2, <2>3, <3>5, FulfilledKept
  <2> QED
    BY <2>2, <2>3, <2>4
<1> QED
  BY <1>2, <1>3

---------------------------------------------------------------------------
(* The pass.                                                               *)

\* Who changes the job of a target row while a pass is under way.
LEMMA TargetJobMoves ==
  ASSUME RolloutInv, [RolloutNext]_rolloutVars, NEW b \in Batches, NEW h \in Hosts,
         rollout[b].status # "none", Advancing, target'[b][h].job # target[b][h].job
  PROVE  \/ /\ request[b].step = "record" /\ request[b].host = h
            /\ target'[b][h].job # NoJob => target'[b][h].job = b /\ applyJob[b][h] # "forgotten"
         \/ /\ DeriveTarget(h) /\ advance.on = b
            /\ advance.rows[h].job = NoJob /\ advance.rows[h].status \notin Terminal
            /\ target'[b][h].job \in Batches /\ applyJob[target'[b][h].job][h] # "forgotten"
<1>0. RolloutShape /\ AdvanceOK /\ \A c \in Batches : RequestOK(c)
  BY DEF RolloutInv
<1>1. ASSUME NEW c \in Batches, NEW hosts \in SUBSET Hosts, CreateConfigApplyBatch(c, hosts)
      PROVE  FALSE
  BY <1>0, <1>1, CreateFacts
<1>2. ASSUME NEW c \in Batches, PruneConfigApplyBatches(c)
      PROVE  FALSE
  BY <1>0, <1>2, PruneFacts DEF Settled, Advancing
<1>3. ASSUME NEW c \in Batches, SetConfigApplyBatchTargetJob(c)
      PROVE  /\ request[b].step = "record" /\ request[b].host = h
             /\ target'[b][h].job # NoJob => target'[b][h].job = b /\ applyJob[b][h] # "forgotten"
  <2> DEFINE q == request[c].queued
  <2>1. request[c].step = "record" => request[c].host \in Hosts
    BY <1>0 DEF RequestOK
  <2>2. target' = WriteRow(c, request[c].host, RecordedRow(c, q)) /\ request[c].step = "record"
    BY <1>0, <1>3, <2>1, RecordFacts
  <2>3. RecordedRow(c, q) \in TargetRows /\ q \in BOOLEAN
    BY <1>0, FieldFacts, RowsWritten
  <2>4. /\ c = b /\ request[c].host = h
        /\ target'[b][h] = IF target[b][h] = NoTarget THEN NoTarget ELSE RecordedRow(c, q)
    BY <1>0, <2>1, <2>2, <2>3, WriteRowFacts
  <2>5. RecordedRow(b, TRUE).job = b /\ RecordedRow(b, FALSE).job = NoJob
    BY DEF RecordedRow
  <2>6. target'[b][h].job # NoJob => q /\ target'[b][h].job = b
    BY <2>3, <2>4, <2>5, TargetRowFacts
  <2>7. q => applyJob[b][h] # "forgotten"
    BY <1>0, <2>2, <2>4 DEF RequestOK
  <2> QED
    BY <2>2, <2>4, <2>6, <2>7
<1>4. ASSUME NEW k \in Hosts, DeriveTarget(k)
      PROVE  /\ DeriveTarget(h) /\ advance.on = b
             /\ advance.rows[h].job = NoJob /\ advance.rows[h].status \notin Terminal
             /\ target'[b][h].job \in Batches /\ applyJob[target'[b][h].job][h] # "forgotten"
  <2>1. PICK j \in Looked(k) : /\ target' = WriteRow(advance.on, k, [status |-> "running", job |-> j])
                               /\ advance.rows[k].status \notin Terminal
                               /\ j \in Batches /\ j # NoJob /\ advance.rows[k].job = NoJob
    BY <1>4, DeriveFacts
  <2>2. advance.on \in Batches /\ [status |-> "running", job |-> j] \in TargetRows
    BY <1>4, <2>1, DeriveFacts, RowsWritten
  <2>3. /\ advance.on = b /\ k = h
        /\ target'[b][h] = IF target[b][h] = NoTarget THEN NoTarget ELSE [status |-> "running", job |-> j]
    BY <1>0, <2>1, <2>2, WriteRowFacts
  <2>4. target'[b][h].job = j
    BY <2>3
  <2>5. applyJob[j][h] # "forgotten"
    BY <1>0, <2>1, <2>3, FoundFacts DEF Looked
  <2> QED
    BY <1>4, <2>1, <2>3, <2>4, <2>5
<1>5. ASSUME NEW k \in Hosts, UpdateConfigApplyBatchTargetStatus(k)
      PROVE  FALSE
  <2>1. target'[advance.on][k].job = target[advance.on][k].job
    BY <1>5, UpdateFacts
  <2>2. \A c \in Batches, g \in Hosts : c # advance.on \/ g # k => target'[c][g] = target[c][g]
    BY <1>5, UpdateFacts
  <2> QED
    BY <2>1, <2>2
<1>6. target' # target
  OBVIOUS
<1> QED
  BY <1>1, <1>2, <1>3, <1>4, <1>5, <1>6, TargetWriters

\* The verdict that DeriveTarget reaches is justified by what it looked at.
LEMMA VerdictJustified ==
  ASSUME RolloutInv, NEW h \in Hosts, DeriveTarget(h), advance' # NotAdvancing, NEW b, b = advance.on
  PROVE  LET row == advance.rows[h]  verdict == advance'.verdict[h]
         IN  /\ row.status \in Terminal => verdict = row.status
             /\ verdict = "succeeded" => AppliedSince(b, h)' \/ row.status = "succeeded"
             /\ verdict = "lost" /\ b \notin raced' => TrulyLost(b, h) /\ target' = target
<1>0. /\ RolloutShape /\ JobsMade /\ AdvanceOK /\ b \in Batches /\ JobOK(b, h) /\ TargetOK(b, h)
      /\ \A j \in Batches : JobOK(j, h)
  BY DeriveFacts DEF RolloutInv
<1>1. advance.step = "derive" /\ PassReads(b, h)
  BY <1>0, DeriveFacts DEF AdvanceOK, Advancing, ScanOK
<1> DEFINE row == advance.rows[h]
<1>2. ASSUME NEW s \in {"running"} \cup Terminal, Derives(h, s)
      PROVE  advance'.verdict[h] = s
  <2>1. advance'.verdict = [advance.verdict EXCEPT ![h] = s]
    BY <1>0, <1>1, <1>2, DerivesFacts
  <2>2. advance.verdict \in [Hosts -> {"none"} \cup Terminal]
    BY <1>0, PassingFacts DEF RolloutShape
  <2> QED
    BY <2>1, <2>2
<1>3. CASE row.status \in Terminal
  <2>1. advance'.verdict[h] = row.status /\ UNCHANGED <<target, raced>>
    BY <1>2, <1>3, DeriveFacts
  <2> QED
    BY <1>1, <1>3, <2>1 DEF PassReads
<1>4. CASE row.status \notin Terminal
  <2>1. PICK j \in Looked(h) :
          /\ Derives(h, configApplyJobStatus(j, h))
          /\ j \in Batches \cup {NoJob} /\ (j # NoJob => InOrder(b, h, j))
          /\ configApplyJobStatus(j, h) \in {"running"} \cup Terminal
          /\ target' = target \/ (row.job = NoJob /\ j # NoJob)
          /\ foreign' = IF row.job = NoJob /\ j \notin {NoJob, b} THEN foreign \cup {<<b, h>>} ELSE foreign
          /\ raced' = IF j = NoJob /\ request[b].step \in {"enqueue", "record"}
                      THEN raced \cup {b} ELSE raced
    BY <1>4, DeriveFacts
  <2>2. advance'.verdict[h] = configApplyJobStatus(j, h)
    BY <1>2, <2>1
  <2>3. ASSUME configApplyJobStatus(j, h) = "succeeded" PROVE AppliedSince(b, h)'
    <3>1. j \in Batches /\ j # NoJob /\ applyJob[j][h] = "succeeded"
      BY <1>0, <2>1, <2>3, JobStatusFacts
    <3>2. <<j, h>> \in reached
      BY <1>0, <3>1 DEF JobOK
    <3>3. PICK i \in NotOlder(b) : created[i] = <<j, h>>
      BY <2>1, <3>1 DEF InOrder
    <3>4. UNCHANGED <<rollout, created, reached>>
      BY DeriveFacts
    <3>5. CASE j = b
      BY <3>2, <3>4, <3>5 DEF AppliedSince, OwnApplied
    <3>6. CASE j # b
      <4>1. <<b, h>> \in foreign'
        <5>1. row.job = NoJob => <<b, h>> \in foreign'
          BY <2>1, <3>1, <3>6
        <5>2. row.job # NoJob => row.job = j /\ foreign' = foreign
          BY <2>1 DEF Looked
        <5>3. row.job \notin {NoJob, b} => <<b, h>> \in foreign
          BY <1>1 DEF RolloutInv, ForeignOK, Advancing
        <5> QED
          BY <3>1, <3>6, <5>1, <5>2, <5>3
      <4>2. i \in NotOlder(b)' /\ created'[i][2] = h /\ created'[i] \in reached'
        BY <3>2, <3>3, <3>4 DEF NotOlder
      <4> QED
        BY <4>1, <4>2 DEF AppliedSince, AdoptedApplied
    <3> QED
      BY <3>5, <3>6
  <2>4. ASSUME configApplyJobStatus(j, h) = "lost", b \notin raced'
        PROVE  TrulyLost(b, h) /\ target' = target
    <3>1. CASE j = NoJob
      <4>1. request[b].step \notin {"enqueue", "record"} /\ target' = target
        BY <2>1, <2>4, <3>1
      <4>a. row.job = NoJob
        BY <3>1 DEF Looked
      <4>2. \A c \in Batches : InOrder(b, h, c) => applyJob[c][h] = "forgotten"
        BY <1>0, <3>1, <4>a, FoundFacts DEF Looked
      <4>3. target[b][h].job = NoJob
        <5> SUFFICES ASSUME target[b][h].job # NoJob PROVE FALSE
          OBVIOUS
        <5>1. InOrder(b, h, target[b][h].job)
          BY <1>0 DEF TargetOK
        <5>2. target[b][h].job \in Batches
          BY <1>0, <5>1, QueuedMade
        <5>3. applyJob[target[b][h].job][h] = "forgotten"
          BY <4>2, <5>1, <5>2
        <5> QED
          BY <1>1, <4>a, <5>3 DEF PassReads
      <4>4. applyJob[b][h] \in {"none", "forgotten"}
        BY <1>0, <4>2 DEF JobOK
      <4> QED
        BY <4>1, <4>3, <4>4 DEF TrulyLost, OwnJob
    <3>2. CASE j # NoJob
      <4>1. applyJob[j][h] = "forgotten"
        BY <1>0, <2>1, <2>4, <3>2, JobStatusFacts
      <4>2. row.job = j
        <5>1. row.job = NoJob => FALSE
          BY <1>0, <3>2, <4>1, FoundFacts DEF Looked
        <5> QED
          BY <5>1 DEF Looked
      <4>3. target[b][h].job = j /\ request[b].step \in {"idle", "over"}
        BY <1>1, <3>2, <4>1, <4>2 DEF PassReads
      <4>4. target' = target
        BY <2>1, <3>2, <4>2
      <4> QED
        BY <3>2, <4>1, <4>3, <4>4 DEF TrulyLost, OwnJob
    <3> QED
      BY <3>1, <3>2
  <2> QED
    BY <1>4, <2>2, <2>3, <2>4
<1> QED
  BY <1>3, <1>4

\* What a pass has read and concluded of its batch survives every step.
LEMMA PassReadsStep ==
  ASSUME RolloutInv, [RolloutNext]_rolloutVars, Advancing, NEW b \in Batches, b = advance.on,
         NEW h \in Hosts, advance'.rows = advance.rows,
         advance'.verdict[h] = advance.verdict[h] \/ (DeriveTarget(h) /\ advance' # NotAdvancing)
  PROVE  PassReads(b, h)'
<1>0. RolloutShape /\ JobsMade /\ AdvanceOK /\ TargetOK(b, h)
  BY DEF RolloutInv
<1>1. RolloutShape' /\ OrderGrows /\ JobsStep /\ RequestsMove
  BY StepMoves
<1>2. PassReads(b, h) /\ PassPlace(h) /\ rollout[b].status # "none"
  BY <1>0 DEF AdvanceOK, ScanOK
<1>3. ~Settled
  BY DEF Settled, Advancing
<1>4. PICK row \in TargetRows : row = advance.rows[h]
  BY <1>0, PassingFacts DEF RolloutShape
<1>5. advance'.rows[h] = row
  BY <1>4
<1>6. PICK old : old = target[b][h].job
  OBVIOUS
<1>7. PICK new : new = target'[b][h].job
  OBVIOUS
<1>8. old \in Batches \cup {NoJob} /\ new \in Batches \cup {NoJob}
  <2>1. target[b][h] \in TargetRows /\ target'[b][h] \in TargetRows
    BY <1>0, <1>1, FieldFacts DEF RolloutShape
  <2> QED
    BY <1>6, <1>7, <2>1, TargetRowFacts
<1>9. \A j \in Batches : applyJob'[j][h] = "forgotten" => applyJob[j][h] = "forgotten"
  BY <1>1, <1>3 DEF JobsStep
<1>10. new = old \/ (request[b].step = "record" /\ (new # NoJob => new = b /\ applyJob[b][h] # "forgotten"))
       \/ (DeriveTarget(h) /\ row.job = NoJob /\ row.status \notin Terminal /\ applyJob[new][h] # "forgotten")
  BY <1>2, <1>4, <1>6, <1>7, TargetJobMoves
<1>11. target'[b][h] # NoTarget => row # NoTarget
  <2>1. target[b][h] = NoTarget => target'[b][h] = NoTarget
    BY <1>2, NoTargetStays
  <2> QED
    BY <1>2, <1>4, <2>1 DEF PassReads
<1>12. row.job # NoJob => InOrder(b, h, row.job)'
  <2>1. row.job # NoJob => InOrder(b, h, row.job)
    BY <1>2, <1>4 DEF PassReads
  <2> QED
    BY <1>0, <1>1, <1>2, <2>1, QueueKept
<1>13. ASSUME row.job # NoJob, applyJob'[row.job][h] = "forgotten"
       PROVE  new = row.job /\ request'[b].step \in {"idle", "over"}
  <2>1. row.job \in Batches
    BY <1>4, <1>13, TargetRowFacts
  <2>2. old = row.job /\ request[b].step \in {"idle", "over"}
    BY <1>2, <1>4, <1>6, <1>9, <1>13, <2>1 DEF PassReads
  <2>3. request'[b].step \in {"idle", "over"}
    BY <1>1, <1>2, <2>2 DEF RequestsMove
  <2> QED
    BY <1>10, <1>13, <2>2, <2>3
<1>14. row.job = NoJob /\ new # NoJob => applyJob'[new][h] # "forgotten"
  <2>1. row.job = NoJob /\ old # NoJob => applyJob[old][h] # "forgotten"
    BY <1>2, <1>4, <1>6 DEF PassReads
  <2> QED
    BY <1>8, <1>9, <1>10, <2>1
<1>15. row.status = "succeeded" => Fulfilled(b, h)'
  <2>1. ~PruneConfigApplyBatches(b)
    BY <1>3 DEF PruneConfigApplyBatches
  <2> QED
    BY <1>2, <1>4, <2>1, FulfilledStep DEF PassReads, Terminal
<1>16. advance'.verdict[h] = "succeeded" => AppliedSince(b, h)' \/ row.status = "succeeded"
  <2>1. CASE advance'.verdict[h] = advance.verdict[h]
    BY <1>0, <1>1, <1>2, <1>4, <2>1, QueueKept DEF PassReads
  <2>2. CASE DeriveTarget(h) /\ advance' # NotAdvancing
    BY <1>4, <2>2, VerdictJustified
  <2> QED
    BY <2>1, <2>2
<1>17. ASSUME row.status = "lost" \/ advance'.verdict[h] = "lost", b \notin raced'
       PROVE  TrulyLost(b, h)'
  <2>1. b \notin raced
    BY <1>1, <1>17 DEF OrderGrows
  <2>2. TrulyLost(b, h) /\ ~(DeriveTarget(h) /\ new # old)
    <3>1. CASE row.status = "lost"
      <4>1. ~(DeriveTarget(h) /\ new # old)
        BY <1>4, <1>6, <1>7, <3>1, DeriveFacts DEF Terminal
      <4> QED
        BY <1>2, <1>4, <2>1, <3>1, <4>1 DEF PassReads
    <3>2. CASE row.status # "lost" /\ DeriveTarget(h) /\ advance' # NotAdvancing
      BY <1>4, <1>6, <1>7, <1>17, <3>2, VerdictJustified
    <3>3. CASE row.status # "lost" /\ ~DeriveTarget(h)
      BY <1>2, <1>17, <2>1, <3>3 DEF PassReads
    <3>4. CASE row.status # "lost" /\ DeriveTarget(h) /\ advance' = NotAdvancing
      <4>1. advance.verdict[h] = "lost"
        BY <1>17, <3>4
      <4>2. advance.step = "derive" /\ h \in advance.left
        BY <3>4, DeriveFacts
      <4> QED
        BY <1>2, <4>1, <4>2 DEF PassPlace
    <3> QED
      BY <3>1, <3>2, <3>3, <3>4
  <2>3. request[b].step # "record"
    BY <2>2 DEF TrulyLost
  <2>4. target'[b][h].job = target[b][h].job
    BY <1>6, <1>7, <1>10, <2>2, <2>3
  <2> QED
    BY <1>0, <1>1, <1>2, <2>2, <2>4, TrulyLostKept
<1>18. row.job = NoJob /\ target'[b][h].job # NoJob => applyJob'[target'[b][h].job][h] # "forgotten"
  BY <1>7, <1>14
<1>19. row.job # NoJob /\ applyJob'[row.job][h] = "forgotten" =>
         target'[b][h].job = row.job /\ request'[b].step \in {"idle", "over"}
  BY <1>7, <1>13
<1>20. PICK j : j = row.job
  OBVIOUS
<1>21. j # NoJob => InOrder(b, h, j)'
  BY <1>12, <1>20
<1>22. advance'.rows[h].job = j /\ advance'.rows[h].status = row.status
  BY <1>5, <1>20
<1>23. advance'.rows[h].job # NoJob => \E i \in NotOlder(b)' : created'[i] = <<advance'.rows[h].job, h>>
  BY <1>21, <1>22 DEF InOrder
<1> QED
  BY <1>5, <1>11, <1>15, <1>16, <1>17, <1>18, <1>19, <1>23 DEF PassReads, InOrder

\* The pass knows which targets it has still to judge, then which to write.
LEMMA PassPlaceStep ==
  ASSUME RolloutInv, NEW h \in Hosts, Advancing, advance' # NotAdvancing,
         (\E k \in Hosts : DeriveTarget(k) \/ UpdateConfigApplyBatchTargetStatus(k)) \/ advance' = advance
  PROVE  PassPlace(h)' /\ advance'.rows = advance.rows /\ advance'.on = advance.on
         /\ (advance'.verdict[h] = advance.verdict[h] \/ DeriveTarget(h))
<1>0. RolloutShape /\ AdvanceOK
  BY DEF RolloutInv
<1>1. PassPlace(h)
  BY <1>0 DEF AdvanceOK, ScanOK
<1>2. CASE advance' = advance
  BY <1>1, <1>2 DEF PassPlace
<1>3. ASSUME NEW k \in Hosts, DeriveTarget(k)
      PROVE  PassPlace(h)' /\ advance'.rows = advance.rows /\ advance'.on = advance.on
             /\ (advance'.verdict[h] = advance.verdict[h] \/ DeriveTarget(h))
  <2>1. advance.step = "derive" /\ k \in advance.left
    BY <1>3, DeriveFacts
  <2>2. \E s \in {"running"} \cup Terminal : Derives(k, s)
    BY <1>3, DeriveFacts
  <2>3. PICK s \in Terminal :
          /\ advance'.on = advance.on /\ advance'.rows = advance.rows
          /\ advance'.verdict = [advance.verdict EXCEPT ![k] = s]
          /\ \/ advance'.step = "derive" /\ advance'.left = advance.left \ {k}
             \/ /\ advance'.step \in {"write", "flip"} /\ advance.left \subseteq {k}
                /\ advance'.left = {g \in Hosts : advance'.verdict[g] \notin {"none", advance.rows[g].status}}
    BY <1>0, <2>1, <2>2, DerivesFacts
  <2>4. advance.verdict \in [Hosts -> {"none"} \cup Terminal]
    BY <1>0, PassingFacts DEF RolloutShape
  <2>5. advance'.verdict[k] = s /\ (h # k => advance'.verdict[h] = advance.verdict[h])
    BY <2>3, <2>4
  <2>6. h = k /\ advance.rows[h].status \in Terminal => advance'.verdict[h] = advance.rows[h].status
    <3>1. PICK b : b = advance.on
      OBVIOUS
    <3> QED
      BY <1>3, <3>1, VerdictJustified
  <2>7. advance'.rows[h] = advance.rows[h] /\ s # "none"
    BY <2>3 DEF Terminal
  <2>8. advance'.rows[h] # NoTarget /\ advance'.verdict[h] = "none" => advance'.step = "derive" /\ h \in advance'.left
    BY <1>1, <2>3, <2>5, <2>7 DEF PassPlace
  <2>9. h \in advance'.left => IF advance'.step = "derive" THEN advance'.verdict[h] = "none"
                               ELSE advance'.verdict[h] \notin {"none", advance'.rows[h].status}
    BY <1>1, <2>1, <2>3, <2>5, <2>7 DEF PassPlace
  <2>10. advance'.rows[h].status \in Terminal => advance'.verdict[h] \in {"none", advance'.rows[h].status}
    BY <1>1, <2>5, <2>6, <2>7 DEF PassPlace
  <2> QED
    BY <1>3, <2>3, <2>5, <2>8, <2>9, <2>10 DEF PassPlace
<1>4. ASSUME NEW k \in Hosts, UpdateConfigApplyBatchTargetStatus(k)
      PROVE  PassPlace(h)' /\ advance'.rows = advance.rows /\ advance'.on = advance.on
             /\ (advance'.verdict[h] = advance.verdict[h] \/ DeriveTarget(h))
  <2>1. advance.step = "write"
    BY <1>4, UpdateFacts
  <2>2. /\ advance'.on = advance.on /\ advance'.rows = advance.rows /\ advance'.verdict = advance.verdict
        /\ advance'.left = advance.left \ {k} /\ advance'.step \in {"write", "flip"}
    BY <1>4, UpdateFacts
  <2> QED
    BY <1>1, <2>1, <2>2 DEF PassPlace
<1> QED
  BY <1>2, <1>3, <1>4

\* A pass begins on what GetConfigApplyBatch reads, and goes on.
LEMMA AdvanceStep ==
  ASSUME RolloutInv, [RolloutNext]_rolloutVars
  PROVE  AdvanceOK'
<1>0. /\ RolloutShape /\ AdvanceOK
      /\ \A b \in Batches : FreshOK(b) /\ SucceededOK(b) /\ \A h \in Hosts : TargetOK(b, h)
  BY DEF RolloutInv
<1> SUFFICES ASSUME Advancing'
             PROVE  /\ advance'.on \in Batches \ listed'
                    /\ rollout'[advance'.on].status \notin {"none", "succeeded"}
                    /\ \A h \in Hosts : ScanOK(advance.on, h)'
  BY DEF AdvanceOK
<1>1. advance' # NotAdvancing
  BY NotAdvancingFacts DEF Advancing
<1>2. ASSUME NEW b \in Batches, GetConfigApplyBatch(b)
      PROVE  /\ advance'.on \in Batches \ listed'
             /\ rollout'[advance'.on].status \notin {"none", "succeeded"}
             /\ \A h \in Hosts : ScanOK(advance.on, h)'
  <2>1. /\ b \in listed /\ listed' = listed \ {b}
        /\ UNCHANGED <<rollout, target, applyJob, created, request, mischance, reached, raced, foreign>>
        /\ advance'.step = "derive" /\ advance'.on = b /\ advance'.rows = target[b]
        /\ advance'.left = {h \in Hosts : target[b][h] # NoTarget}
        /\ \A h \in Hosts : advance'.verdict[h] = "none"
    BY <1>0, <1>2, GetFacts DEF Advancing
  <2>2. rollout[b].status \notin {"none", "succeeded"}
    BY <1>0, <2>1 DEF FreshOK, SucceededOK
  <2>3. ASSUME NEW h \in Hosts PROVE PassReads(b, h)' /\ PassPlace(h)'
    <3>1. TargetOK(b, h) /\ TargetOK(b, h)'
      BY <1>0, TargetStep
    <3>2. advance'.rows[h] = target'[b][h] /\ advance'.verdict[h] = "none"
      BY <2>1
    <3>3. PassReads(b, h)'
      BY <3>1, <3>2 DEF PassReads, TargetOK, InOrder
    <3>4. h \in advance'.left <=> advance'.rows[h] # NoTarget
      BY <2>1
    <3>5. PassPlace(h)'
      BY <2>1, <3>2, <3>4 DEF PassPlace
    <3> QED
      BY <3>3, <3>5
  <2>4. \A h \in Hosts : ScanOK(advance.on, h)'
    BY <2>1, <2>3 DEF ScanOK, PassReads
  <2> QED
    BY <2>1, <2>2, <2>4
<1>3. ASSUME Advancing,
             (\E k \in Hosts : DeriveTarget(k) \/ UpdateConfigApplyBatchTargetStatus(k)) \/ advance' = advance
      PROVE  /\ advance'.on \in Batches \ listed'
             /\ rollout'[advance'.on].status \notin {"none", "succeeded"}
             /\ \A h \in Hosts : ScanOK(advance.on, h)'
  <2>1. PICK b \in Batches : b = advance.on
    BY <1>0, <1>3 DEF AdvanceOK
  <2>2. b \notin listed /\ rollout[b].status \notin {"none", "succeeded"}
    BY <1>0, <1>3, <2>1 DEF AdvanceOK
  <2>3. ASSUME NEW h \in Hosts
        PROVE  PassPlace(h)' /\ advance'.rows = advance.rows /\ advance'.on = advance.on
               /\ (advance'.verdict[h] = advance.verdict[h] \/ DeriveTarget(h))
    BY <1>1, <1>3, PassPlaceStep
  <2>4. advance'.on = b
    <3>1. CASE advance' = advance
      BY <2>1, <3>1
    <3>2. CASE \E k \in Hosts : DeriveTarget(k) \/ UpdateConfigApplyBatchTargetStatus(k)
      BY <2>1, <2>3, <3>2
    <3> QED
      BY <1>3, <3>1, <3>2
  <2>5. b \notin listed'
    BY <1>3, <2>2, ListedMoves DEF Advancing
  <2>6. rollout'[b].status \notin {"none", "succeeded"}
    <3>1. ~FinalizeBatch
      BY <1>1 DEF FinalizeBatch
    <3> QED
      BY <1>0, <2>2, <3>1, StatusMoves, CreateFacts, PruneFacts
  <2>7. ASSUME NEW h \in Hosts PROVE PassReads(b, h)'
    BY <1>1, <1>3, <2>1, <2>3, PassReadsStep
  <2>8. \A h \in Hosts : ScanOK(advance.on, h)'
    BY <2>3, <2>4, <2>7 DEF ScanOK, PassReads
  <2> QED
    BY <2>4, <2>5, <2>6, <2>8
<1>4. \/ \E b \in Batches : GetConfigApplyBatch(b)
      \/ \E k \in Hosts : DeriveTarget(k) \/ UpdateConfigApplyBatchTargetStatus(k)
      \/ advance' = advance \/ advance' = NotAdvancing
  BY DEF RolloutNext, Worker, rolloutVars, CreateConfigApplyBatch, enqueueConfigApplyJob,
         SetConfigApplyBatchTargetJob, markConfigApplyBatchFailed, PruneConfigApplyBatches, JobEnding,
         JobEnds, JobForgotten, pollConfigApplyBatches, FinalizeBatch, AdvanceFails, RolloutPanelRestarts
<1>5. ASSUME NEW k \in Hosts, DeriveTarget(k) \/ UpdateConfigApplyBatchTargetStatus(k)
      PROVE  Advancing
  BY <1>5 DEF DeriveTarget, UpdateConfigApplyBatchTargetStatus, Advancing
<1>6. advance' = advance => Advancing
  BY DEF Advancing
<1> QED
  BY <1>1, <1>2, <1>3, <1>4, <1>5, <1>6

\* A job of another batch gets into a row by adoption only, and is noted for good.
LEMMA ForeignStep ==
  ASSUME RolloutInv, [RolloutNext]_rolloutVars
  PROVE  ForeignOK'
<1>0. RolloutShape /\ ForeignOK /\ foreign \subseteq foreign' /\ \A c \in Batches : RequestOK(c)
  BY StepMoves DEF RolloutInv, OrderGrows
<1>1. ASSUME NEW b \in Batches, NEW h \in Hosts, target'[b][h].job \notin {NoJob, b}
      PROVE  <<b, h>> \in foreign'
  <2>0. CASE target'[b][h] = target[b][h]
    BY <1>0, <1>1, <2>0 DEF ForeignOK
  <2>1. ASSUME NEW c \in Batches, NEW hosts \in SUBSET Hosts, CreateConfigApplyBatch(c, hosts)
        PROVE  <<b, h>> \in foreign'
    <3>1. b # c
      BY <1>0, <1>1, <2>1, CreateFacts
    <3>2. target'[b][h] = target[b][h]
      BY <1>0, <2>1, <3>1, CreateFacts
    <3> QED
      BY <2>0, <3>2
  <2>2. ASSUME NEW c \in Batches, PruneConfigApplyBatches(c)
        PROVE  <<b, h>> \in foreign'
    <3>1. b # c
      BY <1>0, <1>1, <2>2, PruneFacts, TargetRowFacts
    <3>2. target'[b][h] = target[b][h]
      BY <1>0, <2>2, <3>1, PruneFacts
    <3> QED
      BY <2>0, <3>2
  <2>3. ASSUME NEW c \in Batches, SetConfigApplyBatchTargetJob(c), target'[b][h] # target[b][h]
        PROVE  FALSE
    <3> DEFINE k == request[c].host  q == request[c].queued
    <3>1. request[c].step = "record" => k \in Hosts
      BY <1>0 DEF RequestOK
    <3>2. target' = WriteRow(c, k, RecordedRow(c, q)) /\ k \in Hosts
      BY <1>0, <2>3, <3>1, RecordFacts
    <3>3. RecordedRow(c, q) \in TargetRows /\ RecordedRow(c, q).job \in {c, NoJob}
      BY <1>0, FieldFacts, RowsWritten DEF RecordedRow
    <3>4. b = c /\ target'[b][h] \in {NoTarget, RecordedRow(c, q)}
      BY <1>0, <2>3, <3>2, <3>3, WriteRowFacts
    <3> QED
      BY <1>1, <3>3, <3>4, TargetRowFacts
  <2>4. ASSUME NEW k \in Hosts, DeriveTarget(k), target'[b][h] # target[b][h]
        PROVE  <<b, h>> \in foreign'
    <3>1. PICK j \in Batches :
            /\ target' = WriteRow(advance.on, k, [status |-> "running", job |-> j])
            /\ j # NoJob /\ advance.rows[k].job = NoJob
            /\ foreign' = IF j \notin {NoJob, advance.on} THEN foreign \cup {<<advance.on, k>>} ELSE foreign
      BY <2>4, DeriveFacts
    <3>2. advance.on \in Batches /\ [status |-> "running", job |-> j] \in TargetRows
      BY <2>4, DeriveFacts, RowsWritten
    <3>3. b = advance.on /\ h = k /\ target'[b][h] \in {NoTarget, [status |-> "running", job |-> j]}
      BY <1>0, <2>4, <3>1, <3>2, WriteRowFacts
    <3>4. j \notin {NoJob, b}
      BY <1>1, <3>1, <3>3, TargetRowFacts
    <3> QED
      BY <3>1, <3>3, <3>4
  <2>5. ASSUME NEW k \in Hosts, UpdateConfigApplyBatchTargetStatus(k)
        PROVE  <<b, h>> \in foreign'
    <3>1. /\ target'[advance.on][k].job = target[advance.on][k].job
          /\ \A c \in Batches, g \in Hosts : c # advance.on \/ g # k => target'[c][g] = target[c][g]
      BY <2>5, UpdateFacts
    <3>2. target'[b][h].job = target[b][h].job
      BY <3>1
    <3> QED
      BY <1>0, <1>1, <3>2 DEF ForeignOK
  <2> QED
    BY <2>0, <2>1, <2>2, <2>3, <2>4, <2>5, TargetWriters
<1>2. ASSUME Advancing', NEW h \in Hosts, advance'.rows[h].job \notin {NoJob, advance'.on}
      PROVE  <<advance'.on, h>> \in foreign'
  <2>1. advance' # NotAdvancing
    BY <1>2, NotAdvancingFacts DEF Advancing
  <2>2. ASSUME NEW b \in Batches, GetConfigApplyBatch(b), advance' # advance
        PROVE  <<advance'.on, h>> \in foreign'
    <3>1. advance'.on = b /\ advance'.rows = target[b]
      BY <1>0, <2>2, GetFacts
    <3> QED
      BY <1>0, <1>2, <3>1 DEF ForeignOK
  <2>3. ASSUME Advancing, advance'.on = advance.on, advance'.rows = advance.rows
        PROVE  <<advance'.on, h>> \in foreign'
    BY <1>0, <1>2, <2>3 DEF ForeignOK
  <2>4. ASSUME NEW k \in Hosts, DeriveTarget(k) \/ UpdateConfigApplyBatchTargetStatus(k)
        PROVE  Advancing /\ advance'.on = advance.on /\ advance'.rows = advance.rows
    <3>1. Advancing
      BY <2>4 DEF DeriveTarget, UpdateConfigApplyBatchTargetStatus, Advancing
    <3> QED
      BY <2>1, <2>4, <3>1, PassPlaceStep
  <2>5. \/ \E b \in Batches : GetConfigApplyBatch(b)
        \/ \E k \in Hosts : DeriveTarget(k) \/ UpdateConfigApplyBatchTargetStatus(k)
        \/ advance' = advance \/ advance' = NotAdvancing
    BY DEF RolloutNext, Worker, rolloutVars, CreateConfigApplyBatch, enqueueConfigApplyJob,
           SetConfigApplyBatchTargetJob, markConfigApplyBatchFailed, PruneConfigApplyBatches, JobEnding,
           JobEnds, JobForgotten, pollConfigApplyBatches, FinalizeBatch, AdvanceFails, RolloutPanelRestarts
  <2>6. CASE advance' = advance
    BY <1>2, <2>3, <2>6 DEF Advancing
  <2> QED
    BY <2>1, <2>2, <2>3, <2>4, <2>5, <2>6
<1> QED
  BY <1>1, <1>2 DEF ForeignOK

---------------------------------------------------------------------------
(* The invariant and what follows from it.                                 *)

\* Nothing has been asked for yet.
LEMMA RolloutInvInit == RolloutInit => RolloutInv
<1> SUFFICES ASSUME RolloutInit PROVE RolloutInv
  OBVIOUS
<1>1. RolloutShape
  <2>1. [status |-> "none", older |-> 0] \in BatchRows
    BY DEF BatchRows
  <2>2. [h \in Hosts |-> NoTarget] \in [Hosts -> TargetRows]
    BY TargetRowFacts
  <2>3. [h \in Hosts |-> "none"] \in [Hosts -> JobStates]
    BY DEF JobStates
  <2>4. rollout \in [Batches -> BatchRows] /\ target \in [Batches -> [Hosts -> TargetRows]]
    BY <2>1, <2>2 DEF RolloutInit
  <2>5. applyJob \in [Batches -> [Hosts -> JobStates]] /\ request \in [Batches -> ReqShape]
    BY <2>3, RequestShape DEF RolloutInit
  <2>6. created \in Seq(Batches \X Hosts) /\ mischance \in 0 .. MaxMischance
    BY RolloutAssumption DEF RolloutInit
  <2>7. listed = {} /\ advance \in Passings /\ reached = {} /\ raced = {} /\ foreign = {}
    BY NotAdvancingFacts DEF RolloutInit
  <2> QED
    BY <2>4, <2>5, <2>6, <2>7 DEF RolloutShape
<1>2. \A b \in Batches : /\ rollout[b].status = "none" /\ rollout[b].older = 0
                         /\ request[b].step = "idle" /\ request[b].left = {}
  BY RequestShape DEF RolloutInit
<1>3. \A b \in Batches, h \in Hosts : target[b][h] = NoTarget /\ applyJob[b][h] = "none"
  BY DEF RolloutInit
<1>4. created = <<>> /\ Len(created) = 0 /\ listed = {} /\ advance.step = "idle"
  BY NotAdvancingFacts DEF RolloutInit
<1>5. JobsMade /\ AdvanceOK /\ ForeignOK
  BY <1>3, <1>4, TargetRowFacts DEF JobsMade, AdvanceOK, Advancing, ForeignOK
<1>6. \A b \in Batches : FreshOK(b) /\ RequestOK(b) /\ SucceededOK(b)
  BY <1>2, <1>3, <1>4 DEF FreshOK, RequestOK, SucceededOK
<1>7. \A b \in Batches, h \in Hosts : JobOK(b, h) /\ TargetOK(b, h)
  BY <1>3, TargetRowFacts DEF JobOK, TargetOK
<1> QED
  BY <1>1, <1>5, <1>6, <1>7 DEF RolloutInv

\* Every step keeps the invariant.
LEMMA RolloutInvStep == RolloutInv /\ [RolloutNext]_rolloutVars => RolloutInv'
<1> SUFFICES ASSUME RolloutInv, [RolloutNext]_rolloutVars PROVE RolloutInv'
  OBVIOUS
<1>1. RolloutShape' /\ JobsMade' /\ AdvanceOK' /\ ForeignOK'
  BY StepMoves, JobsMadeStep, AdvanceStep, ForeignStep
<1>2. \A b \in Batches : FreshOK(b)' /\ RequestOK(b)' /\ SucceededOK(b)'
  BY FreshStep, RequestStep, SucceededStep
<1>3. \A b \in Batches, h \in Hosts : JobOK(b, h)' /\ TargetOK(b, h)'
  BY JobStep, TargetStep
<1> QED
  BY <1>1, <1>2, <1>3 DEF RolloutInv

\* So it always holds.
LEMMA RolloutInvAlways == RolloutSpec => []RolloutInv
BY RolloutInvInit, RolloutInvStep, PTL DEF RolloutSpec

(***************************************************************************)
(* The type invariant of ConfigRollout: rows, requests and the pass keep   *)
(* their shape, and a recorded job id always names a job that was made.    *)
(***************************************************************************)
THEOREM RolloutTypeCorrect == RolloutSpec => []RolloutTypeOK
<1>1. ASSUME RolloutInv PROVE RolloutTypeOK
  <2>0. /\ RolloutShape /\ JobsMade
        /\ \A b \in Batches : FreshOK(b) /\ RequestOK(b) /\ \A h \in Hosts : TargetOK(b, h)
    BY <1>1 DEF RolloutInv
  <2>1. ASSUME NEW b \in Batches
        PROVE  /\ rollout[b].status \in {"none", "running", "succeeded", "failed", "pruned"}
               /\ rollout[b].older \in 0 .. Len(created)
               /\ request[b].step \in {"idle", "enqueue", "record", "failing", "over"}
               /\ request[b].left \subseteq Hosts
               /\ request[b].step = "record" => request[b].host \in Hosts \ request[b].left
    <3>1. rollout[b].older \in Nat /\ rollout[b].older <= Len(created) /\ Len(created) \in Nat
      BY <2>0, FieldFacts DEF FreshOK
    <3>2. rollout[b].older \in 0 .. Len(created)
      BY <3>1
    <3> QED
      BY <2>0, <3>2, FieldFacts DEF RequestOK
  <2>2. ASSUME NEW b \in Batches, NEW h \in Hosts
        PROVE  /\ target[b][h].status \in {"none", "pending", "running"} \cup Terminal
               /\ target[b][h].job \in Batches \cup {NoJob}
               /\ target[b][h].job # NoJob => applyJob[target[b][h].job][h] # "none"
               /\ applyJob[b][h] \in {"none", "queued", "succeeded", "failed", "forgotten"}
               /\ rollout[b].status \in {"none", "pruned"} => target[b][h] = NoTarget
    <3>1. target[b][h] \in TargetRows /\ applyJob[b][h] \in JobStates
      BY <2>0, FieldFacts
    <3>2. target[b][h].job # NoJob => applyJob[target[b][h].job][h] # "none"
      BY <2>0, QueuedMade DEF TargetOK
    <3> QED
      BY <2>0, <3>1, <3>2, TargetRowFacts DEF JobStates, FreshOK
  <2>3. advance.step \in {"idle", "derive", "write", "flip"} /\ advance.left \subseteq Hosts
    BY <2>0, PassingFacts DEF RolloutShape
  <2>4. /\ mischance \in 0 .. MaxMischance /\ listed \subseteq Batches
        /\ {reached, foreign} \subseteq SUBSET (Batches \X Hosts) /\ raced \subseteq Batches
    BY <2>0 DEF RolloutShape
  <2> QED
    BY <2>1, <2>2, <2>3, <2>4 DEF RolloutTypeOK
<1> QED
  BY <1>1, RolloutInvAlways, PTL

(***************************************************************************)
(* finalizeConfigApplyBatch: a batch is succeeded only when every node of  *)
(* it had nothing to apply or applied the batch's own job, for any number  *)
(* of batches, nodes, failed calls and restarts.  Of a target that adopted *)
(* another batch's job it says that such a job, not older than the batch's *)
(* second, reached the node.                                               *)
(***************************************************************************)
THEOREM RolloutSucceededApplied == RolloutSpec => []BatchSucceededIsApplied
<1>1. RolloutInv => BatchSucceededIsApplied
  BY DEF RolloutInv, SucceededOK, Fulfilled, AppliedSince, BatchSucceededIsApplied
<1> QED
  BY <1>1, RolloutInvAlways, PTL

(***************************************************************************)
(* configApplyMsgJobLost: outside the race of the first tick with the      *)
(* request that fans the batch out, "job lost" is written only on a target *)
(* whose job the queue does not have, and stays true.                      *)
(***************************************************************************)
THEOREM RolloutLostTrue == RolloutSpec => []LostIsTrue
<1>1. RolloutInv => LostIsTrue
  BY DEF RolloutInv, TargetOK, TrulyLost, OwnJob, LostIsTrue
<1> QED
  BY <1>1, RolloutInvAlways, PTL
=============================================================================
