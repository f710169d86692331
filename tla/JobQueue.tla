------------------------------ MODULE JobQueue ------------------------------
(***************************************************************************)
(* The jobs table of the shared PostgreSQL queue                           *)
(* (resources/daemon/db.py, class PostgreSQLJobDatabase) and every         *)
(* operation on it that changes a row.  One action is one database         *)
(* transaction, with its WHERE clause as the guard.  Who calls an          *)
(* operation, and when, is left to the modules that extend this one;       *)
(* QNext calls every operation with every argument.                        *)
(*                                                                         *)
(* A row keeps the request it was inserted for (path, config, kind, args,  *)
(* request_profile, max_retries, priority) and the columns that change.    *)
(* Times are abstracted to the question the code asks of them: whether     *)
(* next_attempt_at has passed ("due").  Row ids are handed out in          *)
(* insertion order, which stands for created_at.                           *)
(***************************************************************************)
EXTENDS Integers, FiniteSets, FiniteSetsExt

CONSTANTS
  Request,    \* the submissions: records of RequestType
  Path, Config, Kind, Profile,
  Supported,  \* job_kinds.SUPPORTED_KINDS of the claiming daemons
  Node,       \* node_id values
  WorkerId,   \* worker_id values, unique within a node
  Priority,   \* the priorities an operator may set
  Cap,        \* profile -> max-concurrent, for the capped profiles
  Cost,       \* profile -> concurrency-cost, for the configured profiles
  Weight,     \* profile -> priority-weight, for the weighted profiles
  Budget,     \* concurrency-budget; 0 when there is none
  MaxJobs,    \* bound: rows ever inserted
  NoProfile, NoNode, NoWorker   \* SQL NULL of each column

\* "args" is the profile that --profile or -p names in the job's arguments.
RequestType ==
  [path : Path, config : Config, kind : Kind,
   profile : Profile \cup {NoProfile}, args : Profile \cup {NoProfile},
   maxRetries : Nat, priority : Int]

ASSUME QueueAssumption ==
  /\ Request \subseteq RequestType
  /\ Priority \subseteq Int
  /\ Supported \subseteq Kind
  /\ NoProfile \notin Profile /\ NoNode \notin Node /\ NoWorker \notin WorkerId
  /\ DOMAIN Cap \subseteq Profile /\ \A p \in DOMAIN Cap : Cap[p] \in Nat \ {0}
  /\ DOMAIN Cost \subseteq Profile /\ \A p \in DOMAIN Cost : Cost[p] \in Nat \ {0}
  /\ DOMAIN Weight \subseteq Profile /\ \A p \in DOMAIN Weight : Weight[p] \in Int
  /\ Budget \in Nat /\ MaxJobs \in Nat

VARIABLES
  jobs,     \* the table: row id -> row, defined on the ids that exist
  nextId,   \* the id sequence
  revived   \* history: ids put back to pending from a settled status
queue == <<jobs, nextId, revived>>

JobId   == 1..MaxJobs
Active  == {"pending", "running"}
Settled == {"completed", "failed", "cancelled"}

Row ==
  [req : Request, status : Active \cup Settled,
   node : Node \cup {NoNode}, worker : WorkerId \cup {NoWorker},
   retries : Nat, due : BOOLEAN, priority : Int,
   profile : Profile \cup {NoProfile}]

-----------------------------------------------------------------------------
(* Reading the table.  An operator named ...Slip is a plausible mistake in  *)
(* the definition that follows it: the properties must notice it.          *)

WithStatus(S) == {j \in DOMAIN jobs : jobs[j].status \in S}
RunningOn(n)  == {j \in WithStatus({"running"}) : jobs[j].node = n}

\* Two submissions the queue treats as the same work.
SameWork(r, s) == r.path = s.path /\ r.kind = s.kind

\* Slip: the guard compares the owner but forgets that the row must be running.
OwnsSlip(j, n) ==
  /\ j \in DOMAIN jobs
  /\ jobs[j].node \in {n, NoNode}

\* Slip: the guard checks that the row is running, not whose it is.
OwnsAnySlip(j, n) == j \in WithStatus({"running"})

\* _owner_guard: the row is running and claimed by node n (or by nobody).
Owns(j, n) ==
  /\ j \in WithStatus({"running"})
  /\ jobs[j].node \in {n, NoNode}

Effective(row) == IF row.profile # NoProfile THEN row.profile ELSE row.req.args

RunningWith(p) == {j \in WithStatus({"running"}) : Effective(jobs[j]) = p}

\* Slip: the cap compared with > instead of >=.
AtCapSlip == {p \in DOMAIN Cap : Cardinality(RunningWith(p)) > Cap[p]}

AtCap == {p \in DOMAIN Cap : Cardinality(RunningWith(p)) >= Cap[p]}

CostOf(p) == IF p \in DOMAIN Cost THEN Cost[p] ELSE 1

Load == MapThenSumSet(LAMBDA j : CostOf(Effective(jobs[j])), WithStatus({"running"}))

\* Slip: the candidate's cost alone compared with the budget.
OverBudgetSlip ==
  IF Budget = 0 THEN {} ELSE {p \in DOMAIN Cost : Cost[p] > Budget}

OverBudget ==
  IF Budget = 0 THEN {} ELSE {p \in DOMAIN Cost : Cost[p] > Budget - Load}

Rank(row) ==
  row.priority + (IF row.profile \in DOMAIN Weight THEN Weight[row.profile] ELSE 0)

\* The rows claim_next_job may hand out when the configs of excl are locked.
Claimable(excl) ==
  {j \in WithStatus({"pending"}) :
     /\ jobs[j].due
     /\ jobs[j].req.config \notin excl
     /\ jobs[j].profile \notin AtCap \cup OverBudget
     /\ jobs[j].req.kind \in Supported}

\* First in the claim order: ORDER BY rank DESC, created_at ASC.
Best(j, S) ==
  \A k \in S : \/ Rank(jobs[j]) > Rank(jobs[k])
               \/ Rank(jobs[j]) = Rank(jobs[k]) /\ j <= k

\* Load balancing: a busy node lets an idle peer take the next job.
Yields(n, peers) ==
  RunningOn(n) # {} /\ \E p \in peers \ {n} : RunningOn(p) = {}

\* Slip: only pending rows count as duplicates.
DuplicatesSlip(r) == {j \in WithStatus({"pending"}) : SameWork(jobs[j].req, r)}

\* The active rows that make add_job refuse submission r.
Duplicates(r) == {j \in WithStatus(Active) : SameWork(jobs[j].req, r)}

-----------------------------------------------------------------------------
(* Row updates shared by the operations.                                   *)

\* Slip: the worker column left behind.
ReleasedSlip(row) == [row EXCEPT !.status = "pending", !.node = NoNode]

Released(row) == [row EXCEPT !.status = "pending", !.node = NoNode, !.worker = NoWorker]

Backfilled(row) == [row EXCEPT !.profile = Effective(row)]

NewRow(r) ==
  [req |-> r, status |-> "pending", node |-> NoNode, worker |-> NoWorker,
   retries |-> 0, due |-> TRUE, priority |-> r.priority, profile |-> r.profile]

\* The rows of S back to pending, followed by _backfill_request_profile, which
\* covers the whole table.
ReleasedAndBackfilled(S) ==
  [j \in DOMAIN jobs |-> Backfilled(IF j \in S THEN Released(jobs[j]) ELSE jobs[j])]

\* Slip: one retry too many.
MayRetrySlip(row) == row.retries <= row.req.maxRetries

MayRetry(row) == row.retries < row.req.maxRetries

\* A retry is charged and the row made to wait for its backoff.
Charged(row) == [row EXCEPT !.retries = @ + 1, !.due = FALSE]

AfterFailure(row) ==
  IF MayRetry(row) THEN Charged(Backfilled(Released(row)))
  ELSE [row EXCEPT !.status = "failed"]

Keep(S) == jobs' = [j \in S |-> jobs[j]]

-----------------------------------------------------------------------------
(* Operations called by whoever submits work.                              *)

AddJob(r) ==
  /\ nextId \in JobId
  /\ Duplicates(r) = {}
  /\ jobs' = [j \in DOMAIN jobs \cup {nextId} |-> IF j = nextId THEN NewRow(r) ELSE jobs[j]]
  /\ nextId' = nextId + 1
  /\ UNCHANGED revived

CancelJob(j) ==
  /\ j \in WithStatus(Active)
  /\ jobs' = [jobs EXCEPT ![j].status = "cancelled"]
  /\ UNCHANGED <<nextId, revived>>

RequeueJob(j) ==
  /\ j \in WithStatus({"failed"})
  /\ jobs' = [jobs EXCEPT ![j] = Backfilled(Released(@))]
  /\ revived' = revived \cup {j}
  /\ UNCHANGED nextId

\* All failed rows, or those of one config; the backfill covers the whole table.
RequeueFailedJobs(C) ==
  LET S == {j \in WithStatus({"failed"}) : jobs[j].req.config \in C} IN
  /\ S # {}
  /\ jobs' = ReleasedAndBackfilled(S)
  /\ revived' = revived \cup S
  /\ UNCHANGED nextId

SetJobPriority(j, p) ==
  /\ j \in WithStatus({"pending"})
  /\ jobs' = [jobs EXCEPT ![j].priority = p]
  /\ UNCHANGED <<nextId, revived>>

DeleteJobs(S) ==
  /\ S \cap DOMAIN jobs # {}
  /\ Keep(DOMAIN jobs \ S)
  /\ UNCHANGED <<nextId, revived>>

DeleteFailedJobs == DeleteJobs(WithStatus({"failed"}))

DeleteAllJobs == DeleteJobs(DOMAIN jobs)

\* Any settled rows but cancelled ones may be old enough.
CleanupOldJobs(S) ==
  /\ S \subseteq WithStatus({"completed", "failed"})
  /\ DeleteJobs(S)

-----------------------------------------------------------------------------
(* Operations called by workers and by recovery.                           *)

ClaimNextJob(j, n, i, excl, peers) ==
  /\ ~Yields(n, peers)
  /\ j \in Claimable(excl)
  /\ Best(j, Claimable(excl))
  /\ jobs' = [jobs EXCEPT ![j].status = "running", ![j].node = n, ![j].worker = i]
  /\ UNCHANGED <<nextId, revived>>

CompleteJob(j, n) ==
  /\ Owns(j, n)
  /\ jobs' = [jobs EXCEPT ![j].status = "completed"]
  /\ UNCHANGED <<nextId, revived>>

FailJob(j, n) ==
  /\ Owns(j, n)
  /\ jobs' = [jobs EXCEPT ![j] = AfterFailure(@)]
  /\ UNCHANGED <<nextId, revived>>

\* The UPDATE has no guard on status or owner: any existing row goes back to pending.
DeferJob(j) ==
  /\ j \in DOMAIN jobs
  /\ jobs' = [jobs EXCEPT ![j] = [Released(@) EXCEPT !.due = FALSE]]
  /\ revived' = IF jobs[j].status \in Settled THEN revived \cup {j} ELSE revived
  /\ UNCHANGED nextId

\* Slip: the reset finds no row.
RequeueNodeJobsSlip(n) ==
  /\ jobs' = ReleasedAndBackfilled({})
  /\ UNCHANGED <<nextId, revived>>

\* A node's own reset, at start-up and when it marks itself offline.
RequeueNodeJobs(n) ==
  /\ jobs' = ReleasedAndBackfilled(RunningOn(n))
  /\ UNCHANGED <<nextId, revived>>

\* The reset of other nodes' rows by recover_stale_nodes: no backfill when no
\* row was running.
RequeueStaleJobs(S) ==
  LET held == UNION {RunningOn(n) : n \in S} IN
  /\ jobs' = IF held = {} THEN jobs ELSE ReleasedAndBackfilled(held)
  /\ UNCHANGED <<nextId, revived>>

\* next_attempt_at passes.
BackoffElapses(j) ==
  /\ j \in WithStatus({"pending"})
  /\ ~jobs[j].due
  /\ jobs' = [jobs EXCEPT ![j].due = TRUE]
  /\ UNCHANGED <<nextId, revived>>

-----------------------------------------------------------------------------
QInit ==
  /\ jobs = [j \in {} |-> j]
  /\ nextId = 1
  /\ revived = {}

UserStep ==
  \/ \E r \in Request : AddJob(r)
  \/ \E j \in DOMAIN jobs : CancelJob(j)
  \/ \E j \in DOMAIN jobs : RequeueJob(j)
  \/ \E C \in SUBSET Config : RequeueFailedJobs(C)
  \/ \E j \in DOMAIN jobs, p \in Priority : SetJobPriority(j, p)
  \/ \E S \in SUBSET JobId : DeleteJobs(S)
  \/ DeleteFailedJobs
  \/ DeleteAllJobs
  \/ \E S \in SUBSET JobId : CleanupOldJobs(S)

Claim ==
  \E j \in DOMAIN jobs, n \in Node, i \in WorkerId,
     excl \in SUBSET Config, peers \in SUBSET Node :
       ClaimNextJob(j, n, i, excl, peers)

WorkerStep ==
  \/ Claim
  \/ \E j \in DOMAIN jobs, n \in Node : CompleteJob(j, n)
  \/ \E j \in DOMAIN jobs, n \in Node : FailJob(j, n)
  \/ \E j \in DOMAIN jobs : DeferJob(j)
  \/ \E n \in Node : RequeueNodeJobs(n)
  \/ \E S \in SUBSET Node : RequeueStaleJobs(S)
  \/ \E j \in DOMAIN jobs : BackoffElapses(j)

QNext == UserStep \/ WorkerStep

QSpec == QInit /\ [][QNext]_queue

-----------------------------------------------------------------------------
(* Properties.                                                             *)

\* Every column has its type, and the claim columns agree with the status: a
\* running row names the node and worker that claimed it, a pending row neither
\* (every path back to pending in db.py must clear both).
QTypeOK ==
  /\ nextId \in 1..(MaxJobs + 1)
  /\ DOMAIN jobs \subseteq 1..(nextId - 1)
  /\ revived \subseteq 1..(nextId - 1)
  /\ \A j \in DOMAIN jobs :
       /\ jobs[j] \in Row
       /\ jobs[j].status = "running" => jobs[j].node \in Node /\ jobs[j].worker \in WorkerId
       /\ jobs[j].status = "pending" => jobs[j].node = NoNode /\ jobs[j].worker = NoWorker

\* The deduplication of add_job: two active rows for the same path and kind
\* exist only if one of them came back from a settled status, by requeue_job,
\* requeue_failed_jobs or an unguarded defer_job.  Retry, recovery and claim
\* never produce a second copy of a file's work.
DuplicatesAreRevivals ==
  \A j, k \in WithStatus(Active) :
    j # k /\ SameWork(jobs[j].req, jobs[k].req) => {j, k} \cap revived # {}

\* Retry accounting: fail_job never takes a row past the max_retries it was
\* submitted with, through any number of requeues, deferrals and recoveries, and
\* gives a row up as failed only when all its retries are spent.
RetriesSpent ==
  \A j \in DOMAIN jobs :
    /\ jobs[j].retries <= jobs[j].req.maxRetries
    /\ jobs[j].status = "failed" => ~MayRetry(jobs[j])

\* max-concurrent: never more running rows of a profile than its cap, counted
\* cluster-wide by the profile each row really runs with.
CapRespected == \A p \in DOMAIN Cap : Cardinality(RunningWith(p)) <= Cap[p]

\* concurrency-cost: the running rows' costs never exceed the budget.
BudgetRespected == Budget > 0 => Load <= Budget

\* A legacy row, whose profile is only in its arguments, has it in its
\* request_profile column once fail_job has sent it back for a retry: from then
\* on the claim filter sees it.
HealedByRetry ==
  \A j \in DOMAIN jobs :
    jobs[j].retries > 0 => jobs[j].profile = Effective(jobs[j])

\* A settled row stays as it is until an operator requeues a failed one or a
\* late defer_job hits it: no completion, failure, recovery or claim that was
\* already under way changes the verdict.
SettledRowStays(j) ==
  jobs'[j].status # jobs[j].status =>
    /\ jobs'[j].status = "pending"
    /\ (jobs[j].status = "failed" /\ j \in revived') \/ ~jobs'[j].due

SettledStays == [][\A j \in WithStatus(Settled) \cap DOMAIN jobs' : SettledRowStays(j)]_queue

=============================================================================
