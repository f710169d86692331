-------------------------- MODULE ClusterLifecycle --------------------------
(***************************************************************************)
(* Cluster implements JobLifecycle: the stage of a job is the status of    *)
(* its row, the lease the node of a running row, and the attempt what the  *)
(* worker that holds the latest claim of the row has come to.  A lease is  *)
(* held by a node: that is the promise of nodes with one worker each.      *)
(***************************************************************************)
EXTENDS Cluster

StageOf(j) ==
  IF j \notin DOMAIN jobs THEN "absent"
  ELSE CASE jobs[j].status = "pending"   -> "queued"
         [] jobs[j].status = "running"   -> "leased"
         [] jobs[j].status = "completed" -> "done"
         [] jobs[j].status = "cancelled" -> "withdrawn"
         [] jobs[j].status = "failed"    -> "failed"

LeaseOf(j) == IF j \in WithStatus({"running"}) THEN jobs[j].node ELSE NoNode

\* The thread that works on the row under its latest claim.
HolderPc(j) ==
  {wk[w].pc : w \in {v \in Worker : wk[v].job = j /\ wk[v].turn = turn[j] /\ v[1] = LeaseOf(j)}}

AttemptOf(j) ==
  IF HolderPc(j) = {"won"} THEN "ok"
  ELSE IF HolderPc(j) # {} /\ HolderPc(j) \subseteq {"lost", "rejecting", "raised"} THEN "bad"
  ELSE "none"

SpentOf(j) == IF j \in DOMAIN jobs THEN jobs[j].retries ELSE 0

LimitOf(j) == IF j \in DOMAIN jobs THEN jobs[j].req.maxRetries ELSE 0

Lifecycle == INSTANCE JobLifecycle WITH
  Job      <- JobId,
  Holder   <- Node,
  NoHolder <- NoNode,
  Limits   <- {r.maxRetries : r \in Request},
  stage    <- [j \in JobId |-> StageOf(j)],
  lease    <- [j \in JobId |-> LeaseOf(j)],
  attempt  <- [j \in JobId |-> AttemptOf(j)],
  spent    <- [j \in JobId |-> SpentOf(j)],
  limit    <- [j \in JobId |-> LimitOf(j)]

ASSUME RefinementConstants == Lifecycle!LifecycleConstants

\* The promise of JobLifecycle, kept by the cluster: exclusive leases, verdicts
\* only by the holder of the current claim for its own attempt, retries charged
\* only for failed attempts, cancelled jobs never revived.
KeepsPromise == Lifecycle!LSpec

=============================================================================
