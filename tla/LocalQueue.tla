----------------------------- MODULE LocalQueue -----------------------------
(***************************************************************************)
(* The SQLite queue of a single-node deployment (resources/daemon/db.py,   *)
(* class SQLiteJobDatabase), written statement by statement from its own   *)
(* SQL, and shown to implement JobQueue with the one node as the cluster:  *)
(* the workers and the watchdogs, which are written once for both          *)
(* backends, may rely on either.  An RLock around the only connection      *)
(* makes every operation one step.  Nothing of it reads the one row of     *)
(* cluster_nodes, which is left out, and the columns of sizes, codecs,     *)
(* errors and output, which no operation tests.                            *)
(*                                                                         *)
(* A row keeps the submission as "req"; "due" stands for next_attempt_at   *)
(* having passed.  created_at has a resolution of one second: the sort     *)
(* leaves rows of one second in the order of their ids.                    *)
(***************************************************************************)
EXTENDS Integers, FiniteSets, FiniteSetsExt

CONSTANTS
  Request, Path, Config, Kind, Profile, Supported, WorkerId, Priority, Cap, Cost,
  Weight, Budget, MaxJobs, NoProfile, NoNode, NoWorker,   \* as in JobQueue
  Local       \* the node id of the deployment

VARIABLES
  rows, lastId,   \* the jobs table and its AUTOINCREMENT counter
  wasSettled      \* history: ids put back to pending from a settled status

localVars == <<rows, lastId, wasSettled>>

RowsWith(S) == {j \in DOMAIN rows : rows[j].status \in S}

InFlight == RowsWith({"pending", "running"})

-----------------------------------------------------------------------------
(* SQL fragments.                                                          *)

\* Slip: the fragment is left empty of the status.
GuardSlip(j) == j \in DOMAIN rows /\ rows[j].node \in {Local, NoNode}

\* WHERE id = ? AND status = 'running' AND (node_id IS NULL OR node_id = ?)
Guard(j) == j \in RowsWith({"running"}) /\ rows[j].node \in {Local, NoNode}

\* _effective_profile: the column, or else the arguments.
ProfileRun(r) == IF r.profile # NoProfile THEN r.profile ELSE r.req.args

RunningAs(p) == Cardinality({j \in RowsWith({"running"}) : ProfileRun(rows[j]) = p})

OverCapped == {p \in DOMAIN Cap : RunningAs(p) >= Cap[p]}

\* A profile without a cost of its own counts as one.
Spends(p) == IF p \in DOMAIN Cost THEN Cost[p] ELSE 1

LocalLoad == MapThenSumSet(LAMBDA j : Spends(ProfileRun(rows[j])), RowsWith({"running"}))

OverSpent ==
  IF Budget = 0 THEN {} ELSE {p \in DOMAIN Cost : Cost[p] > Budget - LocalLoad}

Weighted(j) ==
  rows[j].priority + (IF rows[j].profile \in DOMAIN Weight THEN Weight[rows[j].profile] ELSE 0)

Healed(r) == [r EXCEPT !.profile = ProfileRun(r)]

BackToPending(r) == [r EXCEPT !.status = "pending", !.worker = NoWorker, !.node = NoNode]

\* UPDATE jobs SET ... WHERE id IN S
Update(S, Set(_)) == rows' = [j \in DOMAIN rows |-> IF j \in S THEN Set(rows[j]) ELSE rows[j]]

\* The same followed by the backfill of every row whose profile is only in its args.
UpdateAndHeal(S, Set(_)) ==
  rows' = [j \in DOMAIN rows |-> Healed(IF j \in S THEN Set(rows[j]) ELSE rows[j])]

OnlyRows == UNCHANGED <<lastId, wasSettled>>

Reopening(S) == wasSettled' = wasSettled \cup S /\ UNCHANGED lastId

-----------------------------------------------------------------------------
LocalAdd(r) ==
  /\ lastId < MaxJobs
  /\ ~\E j \in InFlight : rows[j].req.path = r.path /\ rows[j].req.kind = r.kind
  /\ lastId' = lastId + 1
  /\ rows' = [j \in DOMAIN rows \cup {lastId'} |->
                IF j # lastId' THEN rows[j]
                ELSE [req |-> r, status |-> "pending", node |-> NoNode, worker |-> NoWorker,
                      retries |-> 0, due |-> TRUE, priority |-> r.priority,
                      profile |-> r.profile]]
  /\ UNCHANGED wasSettled

\* The SELECT of claim_next_job, for a worker that excludes the configs of excl.
OpenTo(excl) ==
  {j \in RowsWith({"pending"}) :
     /\ rows[j].due
     /\ rows[j].req.config \notin excl
     /\ rows[j].profile \notin OverCapped \cup OverSpent
     /\ rows[j].req.kind \in Supported}

LocalClaim(i, excl) ==
  \E j \in OpenTo(excl) :
    /\ \A k \in OpenTo(excl) :
         Weighted(j) > Weighted(k) \/ (Weighted(j) = Weighted(k) /\ j <= k)
    /\ Update({j}, LAMBDA r : [r EXCEPT !.status = "running", !.worker = i, !.node = Local])
    /\ OnlyRows

LocalComplete(j) ==
  /\ Guard(j)
  /\ Update({j}, LAMBDA r : [r EXCEPT !.status = "completed"]) /\ OnlyRows

Failed(r) == IF r.retries < r.req.maxRetries
             THEN [Healed(BackToPending(r)) EXCEPT !.retries = @ + 1, !.due = FALSE]
             ELSE [r EXCEPT !.status = "failed"]

LocalFail(j) == Guard(j) /\ Update({j}, Failed) /\ OnlyRows

\* No guard on the status here either.
LocalDefer(j) ==
  /\ Update({j}, LAMBDA r : [BackToPending(r) EXCEPT !.due = FALSE])
  /\ Reopening({j} \ InFlight)

LocalCancel(j) ==
  /\ j \in InFlight
  /\ Update({j}, LAMBDA r : [r EXCEPT !.status = "cancelled"]) /\ OnlyRows

LocalRequeue(j) ==
  /\ j \in RowsWith({"failed"})
  /\ Update({j}, LAMBDA r : Healed(BackToPending(r))) /\ Reopening({j})

\* Of one config, or of all.
LocalRequeueFailed(C) ==
  LET S == {j \in RowsWith({"failed"}) : rows[j].req.config \in C} IN
  S # {} /\ UpdateAndHeal(S, BackToPending) /\ Reopening(S)

LocalSetPriority(j, p) ==
  /\ j \in RowsWith({"pending"})
  /\ Update({j}, LAMBDA r : [r EXCEPT !.priority = p]) /\ OnlyRows

\* DELETE FROM jobs WHERE id IN S
LocalDelete(S) == rows' = [j \in DOMAIN rows \ S |-> rows[j]] /\ OnlyRows

LocalDeleteFailed == LocalDelete(RowsWith({"failed"}))

LocalDeleteAll == LocalDelete(DOMAIN rows)

\* Whichever ended long enough ago; a cancelled row is never cleaned up.
LocalCleanup == \E S \in SUBSET RowsWith({"completed", "failed"}) : LocalDelete(S)

LocalBackoffElapses(j) ==
  /\ j \in RowsWith({"pending"})
  /\ ~rows[j].due
  /\ Update({j}, LAMBDA r : [r EXCEPT !.due = TRUE]) /\ OnlyRows

\* At start-up, and first in mark_node_offline.
LocalReset ==
  /\ UpdateAndHeal({j \in RowsWith({"running"}) : rows[j].node = Local}, BackToPending)
  /\ OnlyRows

-----------------------------------------------------------------------------
LocalInit ==
  rows = [j \in {} |-> j] /\ lastId = 0 /\ wasSettled = {}

LocalNext ==
  \/ \E r \in Request : LocalAdd(r)
  \/ \E i \in WorkerId, excl \in SUBSET Config : LocalClaim(i, excl)
  \/ \E j \in DOMAIN rows :
       \/ LocalComplete(j) \/ LocalFail(j) \/ LocalDefer(j) \/ LocalCancel(j)
       \/ LocalRequeue(j) \/ LocalBackoffElapses(j)
       \/ \E p \in Priority : LocalSetPriority(j, p)
  \/ \E C \in {Config} \cup {{c} : c \in Config} : LocalRequeueFailed(C)
  \/ \E S \in SUBSET DOMAIN rows : LocalDelete(S)
  \/ LocalDeleteFailed \/ LocalDeleteAll \/ LocalCleanup
  \/ LocalReset

LocalSpec == LocalInit /\ [][LocalNext]_localVars

-----------------------------------------------------------------------------
Queue == INSTANCE JobQueue WITH
  jobs <- rows, nextId <- lastId + 1, revived <- wasSettled, Node <- {Local}

ASSUME LocalAssumption == Queue!QueueAssumption

\* Everything the daemon does to the SQLite table the shared queue could do too.
ActsAsQueue == Queue!QSpec

=============================================================================
