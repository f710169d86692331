--------------------------- MODULE JobQueueProofs ---------------------------
(***************************************************************************)
(* What holds of the jobs table for any nodes, submissions, caps and table *)
(* size: the columns agree with the status, retries are accounted for,     *)
(* duplicates come from revivals only, and verdicts stay.                  *)
(***************************************************************************)
EXTENDS JobQueue, TLAPS, FiniteSetTheorems, NumberFacts

\* One row is well formed: its type, the claim columns and the retry account.
RowOK(row) ==
  /\ row \in Row
  /\ row.status = "running" => row.node \in Node /\ row.worker \in WorkerId
  /\ row.status = "pending" => row.node = NoNode /\ row.worker = NoWorker
  /\ row.retries <= row.req.maxRetries
  /\ row.status = "failed" => ~MayRetry(row)

IInv ==
  /\ nextId \in 1..(MaxJobs + 1)
  /\ DOMAIN jobs \subseteq 1..(nextId - 1)
  /\ revived \subseteq 1..(nextId - 1)
  /\ \A j \in DOMAIN jobs : RowOK(jobs[j])
  /\ DuplicatesAreRevivals

\* What every operation but add_job does to a row that is still there, when only
\* rows of C may be claimed: among the rest, the profile is left alone or backfilled.
RowKept(j, C) ==
  /\ j \in DOMAIN jobs
  /\ RowOK(jobs'[j])
  /\ jobs'[j].req = jobs[j].req
  /\ jobs'[j].status \in Active => jobs[j].status \in Active \/ j \in revived'
  /\ jobs'[j].status = "running" => jobs[j].status = "running" \/ j \in C
  /\ jobs'[j].profile \in {jobs[j].profile, Effective(jobs[j])}
  /\ jobs[j].status \in Settled => SettledRowStays(j)

TableKept(C) ==
  /\ nextId' = nextId
  /\ revived \subseteq revived' /\ revived' \subseteq 1..(nextId - 1)
  /\ \A j \in DOMAIN jobs' : RowKept(j, C)

-----------------------------------------------------------------------------
(* The row updates keep a row well formed.                                 *)

\* A request that may be submitted has the fields of a request.
LEMMA RequestFields ==
  ASSUME NEW r \in Request
  PROVE  /\ r.maxRetries \in Nat /\ r.priority \in Int
         /\ r.profile \in Profile \cup {NoProfile}
         /\ r.args \in Profile \cup {NoProfile}
  BY QueueAssumption DEF QueueAssumption, RequestType

\* Putting a row back to pending keeps its other columns and its account.
LEMMA ReleasedRow ==
  ASSUME NEW row, RowOK(row)
  PROVE  /\ RowOK(Released(row))
         /\ Released(row).req = row.req /\ Released(row).status = "pending"
         /\ Released(row).retries = row.retries /\ Released(row).due = row.due
         /\ Released(row).profile = row.profile
  BY DEF RowOK, Row, Released, Active, Settled, MayRetry

\* The backfill touches the profile only.
LEMMA BackfilledRow ==
  ASSUME NEW row, RowOK(row)
  PROVE  /\ RowOK(Backfilled(row))
         /\ Backfilled(row) = [row EXCEPT !.profile = Effective(row)]
         /\ Backfilled(row).req = row.req /\ Backfilled(row).status = row.status
         /\ Backfilled(row).node = row.node /\ Backfilled(row).worker = row.worker
         /\ Backfilled(row).retries = row.retries /\ Backfilled(row).due = row.due
         /\ Backfilled(row).profile = Effective(row)
<1>1. Effective(row) \in Profile \cup {NoProfile}
  BY RequestFields DEF RowOK, Row, Effective
<1> QED
  BY <1>1 DEF RowOK, Row, Backfilled, MayRetry

\* The profile a row runs with is that of its columns and arguments alone.
LEMMA EffectiveKept ==
  ASSUME NEW row, RowOK(row)
  PROVE  Effective(Released(row)) = Effective(row)
  BY ReleasedRow DEF Effective

\* A new row has used no retries and nobody holds it.
LEMMA FreshRow ==
  ASSUME NEW r \in Request
  PROVE  RowOK(NewRow(r)) /\ NewRow(r).req = r /\ NewRow(r).status = "pending"
  BY RequestFields DEF RowOK, Row, NewRow, Active, Settled, MayRetry

\* A retry is charged only to a row that has one left.
LEMMA ChargedRow ==
  ASSUME NEW row, RowOK(row), MayRetry(row), row.status = "pending"
  PROVE  /\ RowOK(Charged(row))
         /\ Charged(row).req = row.req /\ Charged(row).status = "pending"
         /\ Charged(row).profile = row.profile
<1>1. row \in Row /\ row.retries \in Nat /\ row.req.maxRetries \in Nat
  BY RequestFields DEF RowOK, Row
<1>2. Charged(row) \in Row
  <2>1. \A k \in Nat : [row EXCEPT !.retries = k, !.due = FALSE] \in Row
    BY <1>1 DEF Row
  <2>2. row.retries + 1 \in Nat
    BY <1>1
  <2> QED
    BY <2>1, <2>2 DEF Charged
<1>3. /\ Charged(row).req = row.req /\ Charged(row).status = row.status
      /\ Charged(row).node = row.node /\ Charged(row).worker = row.worker
      /\ Charged(row).retries = row.retries + 1 /\ Charged(row).profile = row.profile
  BY <1>1 DEF Row, Charged
<1> QED
  BY <1>1, <1>2, <1>3 DEF RowOK, MayRetry

\* fail_job either charges a retry or gives the row up.
LEMMA AfterFailureKept ==
  ASSUME NEW row, RowOK(row)
  PROVE  /\ RowOK(AfterFailure(row)) /\ AfterFailure(row).req = row.req
         /\ AfterFailure(row).status \in {"pending", "failed"}
         /\ AfterFailure(row).profile \in {row.profile, Effective(row)}
<1>1. CASE MayRetry(row)
  <2>1. /\ RowOK(Backfilled(Released(row)))
        /\ Backfilled(Released(row)).req = row.req
        /\ Backfilled(Released(row)).status = "pending"
        /\ Backfilled(Released(row)).retries = row.retries
        /\ Backfilled(Released(row)).profile = Effective(row)
    BY ReleasedRow, BackfilledRow, EffectiveKept
  <2>2. MayRetry(Backfilled(Released(row)))
    BY <1>1, <2>1 DEF MayRetry
  <2> QED
    BY <1>1, <2>1, <2>2, ChargedRow DEF AfterFailure
<1>2. CASE ~MayRetry(row)
  BY <1>2 DEF AfterFailure, RowOK, Row, MayRetry, Active, Settled
<1> QED
  BY <1>1, <1>2

-----------------------------------------------------------------------------
(* The table as a whole.                                                   *)

\* An operation that treats every row well keeps the invariant: it cannot make
\* two active rows for the same work unless it revives one of them.
LEMMA KeptInv ==
  ASSUME IInv, NEW C, TableKept(C)
  PROVE  IInv'
<1>1. ASSUME NEW j \in DOMAIN jobs'
      PROVE  j \in DOMAIN jobs /\ RowOK(jobs'[j])
  BY DEF TableKept, RowKept
<1>2. DuplicatesAreRevivals'
  <2> SUFFICES ASSUME NEW j \in WithStatus(Active)', NEW k \in WithStatus(Active)',
                      j # k, SameWork(jobs'[j].req, jobs'[k].req)
               PROVE  {j, k} \cap revived' # {}
    BY DEF DuplicatesAreRevivals
  <2>1. \A i \in WithStatus(Active)' :
          /\ i \in DOMAIN jobs /\ jobs'[i].req = jobs[i].req
          /\ i \in WithStatus(Active) \/ i \in revived'
    BY DEF TableKept, RowKept, WithStatus
  <2>2. CASE j \in WithStatus(Active) /\ k \in WithStatus(Active)
    <3>1. {j, k} \cap revived # {}
      BY <2>1, <2>2 DEF IInv, DuplicatesAreRevivals
    <3> QED
      BY <3>1 DEF TableKept
  <2> QED
    BY <2>1, <2>2
<1> QED
  BY <1>1, <1>2 DEF IInv, TableKept

\* An UPDATE of one row.
LEMMA OneRowKept ==
  ASSUME IInv, NEW C, NEW j \in DOMAIN jobs, NEW new,
         jobs' = [jobs EXCEPT ![j] = new], nextId' = nextId,
         revived \subseteq revived', revived' \subseteq 1..(nextId - 1),
         RowOK(new), new.req = jobs[j].req,
         new.status \in Active => jobs[j].status \in Active \/ j \in revived',
         new.status = "running" => jobs[j].status = "running" \/ j \in C,
         new.profile \in {jobs[j].profile, Effective(jobs[j])},
         jobs[j].status \in Settled => SettledRowStays(j)
  PROVE  TableKept(C)
<1> SUFFICES ASSUME NEW k \in DOMAIN jobs' PROVE RowKept(k, C)
  BY DEF TableKept
<1>1. k \in DOMAIN jobs /\ RowOK(jobs[k])
  BY DEF IInv
<1>2. CASE k = j
  BY <1>1, <1>2 DEF RowKept
<1>3. CASE k # j
  BY <1>1, <1>3 DEF RowKept, SettledRowStays
<1> QED
  BY <1>2, <1>3

\* Rows that leave the table.
LEMMA SomeRowsKept ==
  ASSUME IInv, NEW S \in SUBSET DOMAIN jobs, Keep(S), UNCHANGED <<nextId, revived>>
  PROVE  TableKept({})
<1> SUFFICES ASSUME NEW k \in DOMAIN jobs' PROVE RowKept(k, {})
  BY DEF TableKept, IInv
<1> QED
  BY DEF Keep, RowKept, SettledRowStays, IInv

\* Several rows back to pending, with the backfill of the whole table.
LEMMA ReleasedTableKept ==
  ASSUME IInv, NEW S \in SUBSET WithStatus({"running", "failed"}),
         jobs' = ReleasedAndBackfilled(S), nextId' = nextId,
         revived \subseteq revived', revived' \subseteq 1..(nextId - 1),
         S \cap WithStatus({"failed"}) \subseteq revived'
  PROVE  TableKept({})
<1> SUFFICES ASSUME NEW k \in DOMAIN jobs' PROVE RowKept(k, {})
  BY DEF TableKept
<1>1. k \in DOMAIN jobs /\ RowOK(jobs[k])
  BY DEF IInv, ReleasedAndBackfilled
<1>2. CASE k \in S
  <2>1. jobs'[k] = Backfilled(Released(jobs[k]))
    BY <1>1, <1>2 DEF ReleasedAndBackfilled
  <2>2. RowOK(jobs'[k]) /\ jobs'[k].req = jobs[k].req /\ jobs'[k].status = "pending"
        /\ jobs'[k].profile = Effective(jobs[k])
    BY <1>1, <2>1, EffectiveKept, ReleasedRow, BackfilledRow
  <2>3. jobs[k].status \in {"running", "failed"}
        /\ (jobs[k].status = "failed" => k \in revived')
    BY <1>2 DEF WithStatus
  <2> QED
    BY <1>1, <2>2, <2>3 DEF RowKept, SettledRowStays, Active, Settled
<1>3. CASE k \notin S
  <2>1. jobs'[k] = Backfilled(jobs[k])
    BY <1>1, <1>3 DEF ReleasedAndBackfilled
  <2>2. RowOK(jobs'[k]) /\ jobs'[k].req = jobs[k].req /\ jobs'[k].status = jobs[k].status
        /\ jobs'[k].profile = Effective(jobs[k])
    BY <1>1, <2>1, BackfilledRow
  <2> QED
    BY <1>1, <2>2 DEF RowKept, SettledRowStays
<1> QED
  BY <1>2, <1>3

-----------------------------------------------------------------------------
(* One lemma per kind of operation.                                        *)

\* cancel_job, complete_job and the giving up of fail_job settle an active row.
LEMMA CancelKept ==
  ASSUME IInv, NEW j, CancelJob(j)
  PROVE  TableKept({})
<1> DEFINE new == [jobs[j] EXCEPT !.status = "cancelled"]
<1>1. j \in DOMAIN jobs /\ RowOK(jobs[j]) /\ jobs[j].status \in Active
  BY DEF CancelJob, WithStatus, IInv
<1>2. RowOK(new) /\ new.req = jobs[j].req /\ new.status = "cancelled"
      /\ new.profile = jobs[j].profile
  BY <1>1 DEF RowOK, Row, MayRetry, Settled
<1>3. jobs' = [jobs EXCEPT ![j] = new] /\ UNCHANGED <<nextId, revived>>
  BY DEF CancelJob
<1> HIDE DEF new
<1> QED
  BY <1>1, <1>2, <1>3, OneRowKept DEF Active, Settled, IInv

\* complete_job: only a running row is completed.
LEMMA CompleteKept ==
  ASSUME IInv, NEW j, NEW n \in Node, CompleteJob(j, n)
  PROVE  TableKept({})
<1> DEFINE new == [jobs[j] EXCEPT !.status = "completed"]
<1>1. j \in DOMAIN jobs /\ RowOK(jobs[j]) /\ jobs[j].status = "running"
  BY DEF CompleteJob, Owns, WithStatus, IInv
<1>2. RowOK(new) /\ new.req = jobs[j].req /\ new.status = "completed"
      /\ new.profile = jobs[j].profile
  BY <1>1 DEF RowOK, Row, MayRetry, Settled
<1>3. jobs' = [jobs EXCEPT ![j] = new] /\ UNCHANGED <<nextId, revived>>
  BY DEF CompleteJob
<1> HIDE DEF new
<1> QED
  BY <1>1, <1>2, <1>3, OneRowKept DEF Active, Settled, IInv

\* fail_job.
LEMMA FailKept ==
  ASSUME IInv, NEW j, NEW n \in Node, FailJob(j, n)
  PROVE  TableKept({})
<1>1. j \in DOMAIN jobs /\ RowOK(jobs[j]) /\ jobs[j].status = "running"
  BY DEF FailJob, Owns, WithStatus, IInv
<1>2. /\ RowOK(AfterFailure(jobs[j])) /\ AfterFailure(jobs[j]).req = jobs[j].req
      /\ AfterFailure(jobs[j]).status \in {"pending", "failed"}
      /\ AfterFailure(jobs[j]).profile \in {jobs[j].profile, Effective(jobs[j])}
  BY <1>1, AfterFailureKept
<1>3. jobs' = [jobs EXCEPT ![j] = AfterFailure(jobs[j])] /\ UNCHANGED <<nextId, revived>>
  BY DEF FailJob
<1> QED
  BY <1>1, <1>2, <1>3, OneRowKept DEF Active, Settled, IInv

\* claim_next_job: a pending row gets an owner.
LEMMA ClaimKept ==
  ASSUME IInv, NEW j, NEW n \in Node, NEW i \in WorkerId, NEW excl, NEW peers,
         ClaimNextJob(j, n, i, excl, peers)
  PROVE  TableKept({j})
<1> DEFINE new == [jobs[j] EXCEPT !.status = "running", !.node = n, !.worker = i]
<1>1. j \in DOMAIN jobs /\ RowOK(jobs[j]) /\ jobs[j].status = "pending"
  BY DEF ClaimNextJob, Claimable, WithStatus, IInv
<1>2. RowOK(new) /\ new.req = jobs[j].req /\ new.status = "running"
      /\ new.profile = jobs[j].profile
  BY <1>1 DEF RowOK, Row, MayRetry, Active
<1>3. jobs' = [jobs EXCEPT ![j] = new] /\ UNCHANGED <<nextId, revived>>
  BY DEF ClaimNextJob
<1> HIDE DEF new
<1> QED
  BY <1>1, <1>2, <1>3, OneRowKept DEF Active, Settled, IInv

\* defer_job: whatever the row was, it is counted as revived if it was settled.
LEMMA DeferKept ==
  ASSUME IInv, NEW j, DeferJob(j)
  PROVE  TableKept({})
<1> DEFINE new == [Released(jobs[j]) EXCEPT !.due = FALSE]
<1>1. j \in DOMAIN jobs /\ RowOK(jobs[j]) /\ RowOK(Released(jobs[j]))
  BY ReleasedRow DEF DeferJob, IInv
<1>2. /\ Released(jobs[j]).req = jobs[j].req /\ Released(jobs[j]).status = "pending"
      /\ Released(jobs[j]).profile = jobs[j].profile
  BY <1>1, ReleasedRow
<1>3. /\ RowOK(new) /\ new.req = jobs[j].req
      /\ new.status = "pending" /\ new.due = FALSE /\ new.profile = jobs[j].profile
  BY <1>1, <1>2 DEF RowOK, Row, MayRetry
<1>4. jobs' = [jobs EXCEPT ![j] = new] /\ nextId' = nextId
  BY DEF DeferJob
<1>5. revived \subseteq revived' /\ revived' \subseteq 1..(nextId - 1)
  BY <1>1 DEF DeferJob, IInv
<1>6. jobs[j].status \in Active \/ j \in revived'
  BY <1>1 DEF DeferJob, RowOK, Row
<1>7. SettledRowStays(j)
  BY <1>1, <1>3, <1>4 DEF SettledRowStays
<1> HIDE DEF new
<1> QED
  BY <1>1, <1>3, <1>4, <1>5, <1>6, <1>7, OneRowKept

\* requeue_job: a failed row is revived.
LEMMA RequeueKept ==
  ASSUME IInv, NEW j, RequeueJob(j)
  PROVE  TableKept({})
<1> DEFINE new == Backfilled(Released(jobs[j]))
<1>1. j \in DOMAIN jobs /\ RowOK(jobs[j]) /\ jobs[j].status = "failed"
  BY DEF RequeueJob, WithStatus, IInv
<1>2. RowOK(new) /\ new.req = jobs[j].req /\ new.status = "pending"
      /\ new.profile = Effective(jobs[j])
  BY <1>1, EffectiveKept, ReleasedRow, BackfilledRow
<1>3. /\ jobs' = [jobs EXCEPT ![j] = new] /\ nextId' = nextId
      /\ revived' = revived \cup {j}
  BY DEF RequeueJob
<1> HIDE DEF new
<1>4. SettledRowStays(j)
  BY <1>1, <1>2, <1>3 DEF SettledRowStays
<1> QED
  BY <1>1, <1>2, <1>3, <1>4, OneRowKept DEF IInv

\* set_job_priority and the passing of a backoff touch one column of a pending row.
LEMMA PriorityKept ==
  ASSUME IInv, NEW j, NEW p \in Priority, SetJobPriority(j, p)
  PROVE  TableKept({})
<1> DEFINE new == [jobs[j] EXCEPT !.priority = p]
<1>1. j \in DOMAIN jobs /\ RowOK(jobs[j]) /\ jobs[j].status = "pending" /\ p \in Int
  BY QueueAssumption DEF QueueAssumption, SetJobPriority, WithStatus, IInv
<1>2. RowOK(new) /\ new.req = jobs[j].req /\ new.status = "pending"
      /\ new.profile = jobs[j].profile
  BY <1>1 DEF RowOK, Row, MayRetry
<1>3. jobs' = [jobs EXCEPT ![j] = new] /\ UNCHANGED <<nextId, revived>>
  BY DEF SetJobPriority
<1> HIDE DEF new
<1> QED
  BY <1>1, <1>2, <1>3, OneRowKept DEF Active, Settled, IInv

LEMMA BackoffKept ==
  ASSUME IInv, NEW j, BackoffElapses(j)
  PROVE  TableKept({})
<1> DEFINE new == [jobs[j] EXCEPT !.due = TRUE]
<1>1. j \in DOMAIN jobs /\ RowOK(jobs[j]) /\ jobs[j].status = "pending"
  BY DEF BackoffElapses, WithStatus, IInv
<1>2. RowOK(new) /\ new.req = jobs[j].req /\ new.status = "pending"
      /\ new.profile = jobs[j].profile
  BY <1>1 DEF RowOK, Row, MayRetry
<1>3. jobs' = [jobs EXCEPT ![j] = new] /\ UNCHANGED <<nextId, revived>>
  BY DEF BackoffElapses
<1> HIDE DEF new
<1> QED
  BY <1>1, <1>2, <1>3, OneRowKept DEF Active, Settled, IInv

\* The bulk requeue and the two recoveries.
LEMMA BulkRequeueKept ==
  ASSUME IInv, NEW C, RequeueFailedJobs(C)
  PROVE  TableKept({})
<1> DEFINE S == {j \in WithStatus({"failed"}) : jobs[j].req.config \in C}
<1>1. S \in SUBSET WithStatus({"running", "failed"})
  BY DEF WithStatus
<1>2. jobs' = ReleasedAndBackfilled(S) /\ nextId' = nextId /\ revived' = revived \cup S
  BY DEF RequeueFailedJobs
<1>3. S \cap WithStatus({"failed"}) \subseteq revived' /\ revived' \subseteq 1..(nextId - 1)
  BY <1>2 DEF IInv, WithStatus
<1> HIDE DEF S
<1> QED
  BY <1>1, <1>2, <1>3, ReleasedTableKept

LEMMA RecoveryKept ==
  ASSUME IInv,
         (\E n \in Node : RequeueNodeJobs(n)) \/ (\E N \in SUBSET Node : RequeueStaleJobs(N))
  PROVE  TableKept({})
<1>1. \A S \in SUBSET WithStatus({"running"}) : S \cap WithStatus({"failed"}) = {}
  BY DEF WithStatus
<1>2. WithStatus({"running"}) \subseteq WithStatus({"running", "failed"})
  BY DEF WithStatus
<1>3. CASE \E n \in Node : RequeueNodeJobs(n)
  <2>1. PICK n \in Node : RequeueNodeJobs(n)
    BY <1>3
  <2>2. RunningOn(n) \in SUBSET WithStatus({"running"})
    BY DEF RunningOn
  <2> QED
    BY <1>1, <1>2, <2>1, <2>2, ReleasedTableKept DEF RequeueNodeJobs, IInv
<1>4. CASE \E N \in SUBSET Node : RequeueStaleJobs(N)
  <2>1. PICK N \in SUBSET Node : RequeueStaleJobs(N)
    BY <1>4
  <2> DEFINE held == UNION {RunningOn(n) : n \in N}
  <2>2. held \in SUBSET WithStatus({"running"})
    BY DEF RunningOn
  <2>3. /\ jobs' = IF held = {} THEN jobs ELSE ReleasedAndBackfilled(held)
        /\ UNCHANGED <<nextId, revived>>
    BY <2>1 DEF RequeueStaleJobs
  <2> HIDE DEF held
  <2>4. CASE held = {}
    BY <2>3, <2>4 DEF TableKept, RowKept, SettledRowStays, IInv
  <2>5. CASE held # {}
    BY <1>1, <1>2, <2>2, <2>3, <2>5, ReleasedTableKept DEF IInv
  <2> QED
    BY <2>4, <2>5
<1> QED
  BY <1>3, <1>4

\* The deletions.
LEMMA DeletionKept ==
  ASSUME IInv, NEW S, DeleteJobs(S)
  PROVE  TableKept({})
  BY SomeRowsKept DEF DeleteJobs

-----------------------------------------------------------------------------
(* Every step.                                                             *)

\* add_job inserts one row and touches no other; its guard keeps the work unique.
LEMMA AddInv ==
  ASSUME IInv, NEW r \in Request, AddJob(r)
  PROVE  IInv'
<1>1. /\ nextId \in 1..MaxJobs /\ nextId' = nextId + 1 /\ revived' = revived
      /\ DOMAIN jobs' = DOMAIN jobs \cup {nextId}
      /\ MaxJobs \in Nat
  BY QueueAssumption DEF QueueAssumption, AddJob, JobId
<1>2. jobs'[nextId] = NewRow(r) /\ \A j \in DOMAIN jobs : jobs'[j] = jobs[j]
  <2>1. nextId \notin DOMAIN jobs
    BY <1>1 DEF IInv
  <2> QED
    BY <2>1 DEF AddJob
<1>3. /\ nextId' \in 1..(MaxJobs + 1)
      /\ DOMAIN jobs' \subseteq 1..(nextId' - 1) /\ revived' \subseteq 1..(nextId' - 1)
  BY <1>1 DEF IInv
<1>4. \A j \in DOMAIN jobs' : RowOK(jobs'[j])
  BY <1>1, <1>2, FreshRow DEF IInv
<1>5. DuplicatesAreRevivals'
  <2>1. NewRow(r).req = r
    BY FreshRow
  <2>2. \A j \in WithStatus(Active)' \ {nextId} : j \in WithStatus(Active)
    BY <1>1, <1>2 DEF WithStatus
  <2>3. \A j \in WithStatus(Active) : ~SameWork(jobs[j].req, r)
    BY DEF AddJob, Duplicates
  <2> SUFFICES ASSUME NEW j \in WithStatus(Active)', NEW k \in WithStatus(Active)',
                      j # k, SameWork(jobs'[j].req, jobs'[k].req)
               PROVE  {j, k} \cap revived' # {}
    BY DEF DuplicatesAreRevivals
  <2>4. CASE j # nextId /\ k # nextId
    <3>1. /\ j \in WithStatus(Active) /\ k \in WithStatus(Active)
          /\ jobs'[j] = jobs[j] /\ jobs'[k] = jobs[k]
      BY <1>2, <2>2, <2>4 DEF WithStatus
    <3> QED
      BY <1>1, <3>1 DEF IInv, DuplicatesAreRevivals
  <2>5. CASE j = nextId
    <3>1. k \in WithStatus(Active) /\ jobs'[k] = jobs[k]
      BY <1>2, <2>2, <2>5 DEF WithStatus
    <3> QED
      BY <1>2, <2>1, <2>3, <2>5, <3>1 DEF SameWork
  <2>6. CASE k = nextId
    <3>1. j \in WithStatus(Active) /\ jobs'[j] = jobs[j]
      BY <1>2, <2>2, <2>6 DEF WithStatus
    <3> QED
      BY <1>2, <2>1, <2>3, <2>6, <3>1 DEF SameWork
  <2> QED
    BY <2>4, <2>5, <2>6
<1> QED
  BY <1>3, <1>4, <1>5 DEF IInv

\* A claim, as QNext makes it: some node takes some claimable row.
ClaimOf(j) ==
  \E n \in Node, i \in WorkerId, excl \in SUBSET Config, peers \in SUBSET Node :
    ClaimNextJob(j, n, i, excl, peers)

\* What a step may be: an insertion, a claim, or an operation that keeps the table
\* and lets no row start running.
LEMMA StepShape ==
  ASSUME IInv, [QNext]_queue
  PROVE  \/ \E r \in Request : AddJob(r)
         \/ \E j \in DOMAIN jobs : ClaimOf(j) /\ TableKept({j})
         \/ TableKept({})
<1>1. CASE UNCHANGED queue
  BY <1>1 DEF queue, TableKept, RowKept, SettledRowStays, IInv
<1>2. ASSUME NEW r \in Request, AddJob(r)
      PROVE  \E s \in Request : AddJob(s)
  BY <1>2
<1>3. ASSUME NEW j \in DOMAIN jobs, CancelJob(j)
      PROVE  TableKept({})
  BY <1>3, CancelKept
<1>4. ASSUME NEW j \in DOMAIN jobs, RequeueJob(j)
      PROVE  TableKept({})
  BY <1>4, RequeueKept
<1>5. ASSUME NEW C \in SUBSET Config, RequeueFailedJobs(C)
      PROVE  TableKept({})
  BY <1>5, BulkRequeueKept
<1>6. ASSUME NEW j \in DOMAIN jobs, NEW p \in Priority, SetJobPriority(j, p)
      PROVE  TableKept({})
  BY <1>6, PriorityKept
<1>7. ASSUME NEW S, DeleteJobs(S)
      PROVE  TableKept({})
  BY <1>7, DeletionKept
<1>8. ASSUME Claim
      PROVE  \E j \in DOMAIN jobs : ClaimOf(j) /\ TableKept({j})
  <2>1. PICK j \in DOMAIN jobs, n \in Node, i \in WorkerId,
             excl \in SUBSET Config, peers \in SUBSET Node :
               ClaimNextJob(j, n, i, excl, peers)
    BY <1>8 DEF Claim
  <2> QED
    BY <2>1, ClaimKept DEF ClaimOf
<1>9. ASSUME NEW j \in DOMAIN jobs, NEW n \in Node, CompleteJob(j, n) \/ FailJob(j, n)
      PROVE  TableKept({})
  BY <1>9, CompleteKept, FailKept
<1>10. ASSUME NEW j \in DOMAIN jobs, DeferJob(j) \/ BackoffElapses(j)
       PROVE  TableKept({})
  BY <1>10, DeferKept, BackoffKept
<1>11. ASSUME (\E n \in Node : RequeueNodeJobs(n)) \/ (\E N \in SUBSET Node : RequeueStaleJobs(N))
       PROVE  TableKept({})
  BY <1>11, RecoveryKept
<1>12. CASE UserStep
  BY <1>2, <1>3, <1>4, <1>5, <1>6, <1>7, <1>12
     DEF UserStep, DeleteFailedJobs, DeleteAllJobs, CleanupOldJobs
<1>13. CASE WorkerStep
  BY <1>8, <1>9, <1>10, <1>11, <1>13 DEF WorkerStep
<1> QED
  BY <1>1, <1>12, <1>13 DEF QNext

LEMMA InitInv == QInit => IInv
  BY QueueAssumption DEF QueueAssumption, QInit, IInv, DuplicatesAreRevivals, WithStatus

LEMMA StepInv == IInv /\ [QNext]_queue => IInv'
  BY AddInv, KeptInv, StepShape

\* The invariant holds in every reachable state of the queue.
THEOREM Invariance == QSpec => []IInv
<1>1. QInit => IInv
  BY InitInv
<1>2. IInv /\ [QNext]_queue => IInv'
  BY StepInv
<1> QED
  BY <1>1, <1>2, PTL DEF QSpec

\* For any nodes, submissions, caps and table size the columns have their types
\* and the claim columns agree with the status.
THEOREM TypeCorrect == QSpec => []QTypeOK
<1>1. IInv => QTypeOK
  BY DEF IInv, QTypeOK, RowOK
<1> QED
  BY <1>1, Invariance, PTL

\* Two active rows for the same path and kind exist only after a revival.
THEOREM WorkIsUnique == QSpec => []DuplicatesAreRevivals
<1>1. IInv => DuplicatesAreRevivals
  BY DEF IInv
<1> QED
  BY <1>1, Invariance, PTL

\* No row is taken past its max_retries, and none is given up before.
THEOREM RetriesAccounted == QSpec => []RetriesSpent
<1>1. IInv => RetriesSpent
  BY DEF IInv, RetriesSpent, RowOK
<1> QED
  BY <1>1, Invariance, PTL

\* A verdict is changed only by an operator's requeue or by a late deferral.
THEOREM VerdictsStay == QSpec => SettledStays
<1>1. IInv /\ [QNext]_queue
      => [\A j \in WithStatus(Settled) \cap DOMAIN jobs' : SettledRowStays(j)]_queue
  <2> SUFFICES ASSUME IInv, [QNext]_queue,
                      NEW j \in WithStatus(Settled) \cap DOMAIN jobs'
               PROVE  SettledRowStays(j)
    OBVIOUS
  <2>1. CASE \E r \in Request : AddJob(r)
    <3>1. j \in DOMAIN jobs /\ nextId \notin DOMAIN jobs
      BY DEF WithStatus, IInv
    <3>2. jobs'[j] = jobs[j]
      BY <2>1, <3>1 DEF AddJob
    <3> QED
      BY <3>2 DEF SettledRowStays
  <2>2. CASE \E C : TableKept(C)
    BY <2>2 DEF TableKept, RowKept, WithStatus
  <2> QED
    BY <2>1, <2>2, StepShape
<1> QED
  BY <1>1, Invariance, PTL DEF QSpec, SettledStays

-----------------------------------------------------------------------------
(* The cap, for submissions whose profile is recorded in the column.       *)

RecordedOnly == \A r \in Request : r.profile = NoProfile => r.args = NoProfile

\* The claim filter reads the column; where the profile is recorded, that is the
\* profile the row runs with.
RowRecorded(row) == row.profile = NoProfile => row.req.args = NoProfile

CInv ==
  /\ IInv
  /\ \A j \in DOMAIN jobs : RowRecorded(jobs[j])
  /\ CapRespected

LEMMA RecordedEffective ==
  ASSUME NEW row, RowRecorded(row)
  PROVE  Effective(row) = row.profile
  BY DEF RowRecorded, Effective

\* The running rows of a profile are finitely many.
LEMMA RunningFinite ==
  ASSUME IInv, NEW p
  PROVE  IsFiniteSet(RunningWith(p)) /\ Cardinality(RunningWith(p)) \in Nat
<1>1. IsFiniteSet(1..(nextId - 1))
  BY FS_Interval DEF IInv
<1>2. RunningWith(p) \in SUBSET (1..(nextId - 1))
  BY DEF IInv, RunningWith, WithStatus
<1> QED
  BY <1>1, <1>2, FS_Subset, FS_CardinalityType

\* An operation that lets only rows of C start adds at most those to the running
\* rows of a profile.
LEMMA RunningGrowth ==
  ASSUME CInv, NEW C, TableKept(C)
  PROVE  /\ \A j \in DOMAIN jobs' : RowRecorded(jobs'[j])
         /\ \A p : RunningWith(p)' \subseteq RunningWith(p) \cup C
<1>1. ASSUME NEW j \in DOMAIN jobs'
      PROVE  /\ RowRecorded(jobs'[j])
             /\ j \in DOMAIN jobs /\ Effective(jobs'[j]) = Effective(jobs[j])
  <2>1. j \in DOMAIN jobs /\ RowRecorded(jobs[j])
    BY DEF TableKept, RowKept, CInv
  <2>2. jobs'[j].profile = jobs[j].profile /\ jobs'[j].req = jobs[j].req
    BY <2>1, RecordedEffective DEF TableKept, RowKept
  <2> QED
    BY <2>1, <2>2 DEF RowRecorded, Effective
<1>2. ASSUME NEW p, NEW j \in RunningWith(p)'
      PROVE  j \in RunningWith(p) \cup C
  <2>1. j \in DOMAIN jobs' /\ jobs'[j].status = "running" /\ Effective(jobs'[j]) = p
    BY DEF RunningWith, WithStatus
  <2>2. jobs[j].status = "running" \/ j \in C
    BY <2>1 DEF TableKept, RowKept
  <2> QED
    BY <1>1, <2>1, <2>2 DEF RunningWith, WithStatus
<1> QED
  BY <1>1, <1>2

\* An insertion leaves the running rows alone.
LEMMA AddGrowth ==
  ASSUME RecordedOnly, CInv, NEW r \in Request, AddJob(r)
  PROVE  /\ \A j \in DOMAIN jobs' : RowRecorded(jobs'[j])
         /\ \A p : RunningWith(p)' \subseteq RunningWith(p)
<1>1. nextId \notin DOMAIN jobs
  BY DEF CInv, IInv
<1>2. /\ DOMAIN jobs' = DOMAIN jobs \cup {nextId} /\ jobs'[nextId] = NewRow(r)
      /\ \A j \in DOMAIN jobs : jobs'[j] = jobs[j]
  BY <1>1 DEF AddJob
<1>3. RowRecorded(NewRow(r)) /\ NewRow(r).status = "pending"
  BY DEF RowRecorded, NewRow, RecordedOnly
<1> QED
  BY <1>2, <1>3 DEF CInv, RunningWith, WithStatus

LEMMA InitCap == QInit => CInv
<1> SUFFICES ASSUME QInit PROVE CInv
  OBVIOUS
<1>1. \A p : RunningWith(p) = {}
  BY DEF QInit, RunningWith, WithStatus
<1>2. CapRespected
  BY <1>1, FS_EmptySet, QueueAssumption DEF QueueAssumption, CapRespected
<1> QED
  BY <1>2, InitInv DEF CInv, QInit

LEMMA StepCap ==
  ASSUME RecordedOnly, CInv, [QNext]_queue
  PROVE  CInv'
<1>1. IInv /\ IInv'
  BY StepInv DEF CInv
<1>2. ASSUME NEW p \in DOMAIN Cap, RunningWith(p)' \subseteq RunningWith(p)
      PROVE  Cardinality(RunningWith(p)') <= Cap[p]
  <2>1. Cardinality(RunningWith(p)') <= Cardinality(RunningWith(p))
    BY <1>1, <1>2, RunningFinite, FS_Subset
  <2>2. Cardinality(RunningWith(p)) <= Cap[p] /\ Cap[p] \in Nat
    BY QueueAssumption DEF QueueAssumption, CInv, CapRespected
  <2>3. Cardinality(RunningWith(p)) \in Nat /\ Cardinality(RunningWith(p)') \in Nat
    BY <1>1, <1>2, RunningFinite, FS_Subset, FS_CardinalityType
  <2> QED
    BY <2>1, <2>2, <2>3
<1>3. CASE \E r \in Request : AddJob(r)
  BY <1>1, <1>2, <1>3, AddGrowth DEF CInv, CapRespected
<1>4. CASE TableKept({})
  BY <1>1, <1>2, <1>4, RunningGrowth DEF CInv, CapRespected
<1>5. ASSUME NEW j \in DOMAIN jobs, ClaimOf(j), TableKept({j})
      PROVE  CInv'
  <2>1. /\ \A i \in DOMAIN jobs' : RowRecorded(jobs'[i])
        /\ \A p : RunningWith(p)' \subseteq RunningWith(p) \cup {j}
    BY <1>5, RunningGrowth
  <2> SUFFICES ASSUME NEW p \in DOMAIN Cap
               PROVE  Cardinality(RunningWith(p)') <= Cap[p]
    BY <1>1, <2>1 DEF CInv, CapRespected
  <2>2. CASE Effective(jobs[j]) # p
    <3>1. Effective(jobs'[j]) = Effective(jobs[j])
      BY <1>5 DEF ClaimOf, ClaimNextJob, Claimable, WithStatus, Effective, CInv, IInv, RowOK, Row
    <3>2. RunningWith(p)' \subseteq RunningWith(p)
      BY <2>1, <2>2, <3>1 DEF RunningWith
    <3> QED
      BY <1>2, <3>2
  <2>3. CASE Effective(jobs[j]) = p
    <3>1. jobs[j].profile \notin AtCap
      BY <1>5 DEF ClaimOf, ClaimNextJob, Claimable
    <3>2. jobs[j].profile = p
      BY <2>3, RecordedEffective DEF CInv
    <3>3. Cardinality(RunningWith(p)) + 1 <= Cap[p]
      BY <1>1, <3>1, <3>2, RunningFinite, QueueAssumption DEF QueueAssumption, AtCap
    <3>4. /\ IsFiniteSet(RunningWith(p) \cup {j})
          /\ Cardinality(RunningWith(p) \cup {j}) <= Cardinality(RunningWith(p)) + 1
      BY <1>1, RunningFinite, FS_AddElement
    <3>5. Cardinality(RunningWith(p)') <= Cardinality(RunningWith(p) \cup {j})
      BY <2>1, <3>4, FS_Subset
    <3>6. /\ Cardinality(RunningWith(p)') \in Nat /\ Cardinality(RunningWith(p)) \in Nat
          /\ Cardinality(RunningWith(p) \cup {j}) \in Nat /\ Cap[p] \in Nat
      BY <1>1, <2>1, <3>4, RunningFinite, FS_Subset, FS_CardinalityType, QueueAssumption
         DEF QueueAssumption
    <3> QED
      BY <3>3, <3>4, <3>5, <3>6
  <2> QED
    BY <2>2, <2>3
<1> QED
  BY <1>1, <1>3, <1>4, <1>5, StepShape

\* max-concurrent holds for any number of nodes, workers and jobs if every
\* submission that names a profile in its arguments records it in the column.
\* (Without that condition it fails: README, section 5.)
THEOREM CapHolds ==
  ASSUME RecordedOnly
  PROVE  QSpec => []CapRespected
<1>1. QInit => CInv
  BY InitCap
<1>2. CInv /\ [QNext]_queue => CInv'
  BY StepCap
<1>3. CInv => CapRespected
  BY DEF CInv
<1> QED
  BY <1>1, <1>2, <1>3, PTL DEF QSpec

-----------------------------------------------------------------------------
(* The budget, for submissions whose profile has a cost.                   *)

\* The claim filter withholds only profiles that have a cost of their own.
Costed == \A r \in Request : r.profile \in DOMAIN Cost

BInv ==
  /\ IInv
  /\ \A j \in DOMAIN jobs : jobs[j].profile \in DOMAIN Cost
  /\ BudgetRespected

Running == WithStatus({"running"})

RunCosts == [j \in Running |-> CostOf(Effective(jobs[j]))]

LEMMA CostsAreNumbers == IInv => IsFiniteSet(Running) /\ RunCosts \in [Running -> Nat]
<1>. SUFFICES ASSUME IInv PROVE IsFiniteSet(Running) /\ RunCosts \in [Running -> Nat]
  OBVIOUS
<1>1. IsFiniteSet(1..(nextId - 1)) /\ Running \in SUBSET (1..(nextId - 1))
  BY FS_Interval DEF IInv, Running, WithStatus
<1>. QED BY <1>1, FS_Subset, QueueAssumption DEF QueueAssumption, RunCosts, CostOf

\* Load is the sum of what the running rows cost.
LoadSummed == \E g : Sums(g, RunCosts, Running) /\ Load = g[Running]

\* In every state of the table it is.
LEMMA LoadIsSum == IInv => LoadSummed
<1>. SUFFICES ASSUME IInv PROVE \E g : Sums(g, RunCosts, Running) /\ Load = g[Running]
  BY DEF LoadSummed
<1>. DEFINE LoadOver(g, T) ==
       IF T = {} THEN 0
       ELSE CostOf(Effective(jobs[Pick(T)])) + g[T \ {Pick(T)}]
<1>1. \A g : Sums(g, RunCosts, Running) <=> g = [T \in SUBSET Running |-> LoadOver(g, T)]
  <2>1. \A T \in SUBSET Running : T # {} => RunCosts[Pick(T)] = CostOf(Effective(jobs[Pick(T)]))
    BY PickIn DEF RunCosts
  <2>2. \A g : \A T \in SUBSET Running : SumOver(g, RunCosts, T) = LoadOver(g, T)
    BY <2>1 DEF SumOver
  <2>. QED BY <2>2 DEF Sums
<1>. DEFINE sums == CHOOSE g : g = [T \in SUBSET Running |-> LoadOver(g, T)]
<1>2. Load = sums[Running]
  BY DEF Load, Running, MapThenSumSet, MapThenFoldSet, Pick
<1>3. \E g : g = [T \in SUBSET Running |-> LoadOver(g, T)]
  BY <1>1, CostsAreNumbers, SumsExist
<1>. HIDE DEF LoadOver
<1>4. sums = [T \in SUBSET Running |-> LoadOver(sums, T)]
  BY <1>3
<1>. QED BY <1>1, <1>2, <1>4

\* When at most row j starts, and what the others cost stays the same, the load
\* grows by at most what j costs.
LEMMA LoadGrowth ==
  ASSUME IInv, IInv', NEW j,
         \A k \in Running' : k # j => k \in Running /\ Effective(jobs'[k]) = Effective(jobs[k])
  PROVE  /\ Load \in Nat /\ Load' \in Nat
         /\ \/ Load' <= Load
            \/ j \in Running' /\ Load' <= Load + CostOf(Effective(jobs'[j]))
<1>1. PICK g : Sums(g, RunCosts, Running) /\ Load = g[Running]
  BY LoadIsSum DEF LoadSummed
<1>2. PICK h : Sums(h, RunCosts', Running') /\ Load' = h[Running']
  <2>1. LoadSummed'
    BY LoadIsSum, PTL
  <2>. QED BY <2>1 DEF LoadSummed
<1>3. /\ IsFiniteSet(Running) /\ RunCosts \in [Running -> Nat]
      /\ IsFiniteSet(Running') /\ RunCosts' \in [Running' -> Nat]
  <2>1. (IInv => IsFiniteSet(Running) /\ RunCosts \in [Running -> Nat])'
    BY CostsAreNumbers, PTL
  <2>. QED BY <2>1, CostsAreNumbers
<1>. DEFINE Q == Running' \ {j}
<1>4. Q \in SUBSET (Running \cap Running') /\ \A k \in Q : RunCosts'[k] = RunCosts[k]
  BY DEF RunCosts
<1>5. h[Q] = g[Q]
  BY <1>1, <1>2, <1>3, <1>4, SumsAgree
<1>6. g[Q] <= g[Running] /\ g[Q] \in Nat /\ g[Running] \in Nat
  BY <1>1, <1>3, <1>4, SumMonotone, SumStep
<1>7. CASE j \notin Running'
  BY <1>1, <1>2, <1>5, <1>6, <1>7
<1>8. CASE j \in Running'
  <2>1. h[Running'] = RunCosts'[j] + h[Q] /\ RunCosts'[j] \in Nat
    BY <1>2, <1>3, <1>8, SumSplit
  <2>2. RunCosts'[j] = CostOf(Effective(jobs'[j]))
    BY <1>8 DEF RunCosts
  <2>. QED BY <1>1, <1>2, <1>5, <1>6, <1>8, <2>1, <2>2
<1>. QED BY <1>7, <1>8

\* Every row goes on with a profile that has a cost.
LEMMA ProfilesKept ==
  ASSUME BInv, NEW C, TableKept(C)
  PROVE  \A k \in DOMAIN jobs' :
           /\ jobs'[k].profile = jobs[k].profile /\ jobs'[k].profile \in DOMAIN Cost
           /\ Effective(jobs'[k]) = Effective(jobs[k]) /\ Effective(jobs[k]) = jobs[k].profile
           /\ k \in Running' => k \in Running \/ k \in C
<1>. SUFFICES ASSUME NEW k \in DOMAIN jobs'
              PROVE  /\ jobs'[k].profile = jobs[k].profile /\ jobs'[k].profile \in DOMAIN Cost
                     /\ Effective(jobs'[k]) = Effective(jobs[k])
                     /\ Effective(jobs[k]) = jobs[k].profile
                     /\ k \in Running' => k \in Running \/ k \in C
  OBVIOUS
<1>1. /\ RowKept(k, C) /\ k \in DOMAIN jobs /\ jobs[k].profile \in DOMAIN Cost
      /\ jobs[k].profile # NoProfile
  BY QueueAssumption DEF QueueAssumption, TableKept, RowKept, BInv
<1>2. Effective(jobs[k]) = jobs[k].profile
  BY <1>1 DEF Effective
<1>3. jobs'[k].profile = jobs[k].profile
  BY <1>1, <1>2 DEF RowKept
<1>4. Effective(jobs'[k]) = jobs'[k].profile
  BY <1>1, <1>3 DEF Effective
<1>. QED BY <1>1, <1>2, <1>3, <1>4 DEF RowKept, Running, WithStatus

LEMMA InitBudget == QInit => BInv
<1>. SUFFICES ASSUME QInit PROVE BInv
  OBVIOUS
<1>1. IInv /\ Running = {}
  BY InitInv DEF QInit, Running, WithStatus
<1>2. Load = 0
  BY <1>1, LoadIsSum, CostsAreNumbers, SumStep DEF LoadSummed
<1>. QED BY <1>1, <1>2, QueueAssumption DEF QueueAssumption, BInv, BudgetRespected, QInit

LEMMA StepBudget ==
  ASSUME Costed, BInv, [QNext]_queue
  PROVE  BInv'
<1>1. IInv /\ IInv' /\ Budget \in Nat
  BY StepInv, QueueAssumption DEF QueueAssumption, BInv
<1>2. ASSUME NEW r \in Request, AddJob(r) PROVE BInv'
  <2>1. /\ DOMAIN jobs' = DOMAIN jobs \cup {nextId} /\ jobs'[nextId] = NewRow(r)
        /\ \A k \in DOMAIN jobs : k # nextId /\ jobs'[k] = jobs[k]
    BY <1>1, <1>2 DEF AddJob, IInv
  <2>2. NewRow(r).status = "pending" /\ NewRow(r).profile \in DOMAIN Cost
    BY DEF NewRow, Costed
  <2>3. \A k \in Running' : k # nextId /\ k \in Running /\ Effective(jobs'[k]) = Effective(jobs[k])
    BY <2>1, <2>2 DEF Running, WithStatus
  <2>4. Load' <= Load /\ Load \in Nat /\ Load' \in Nat
    BY <1>1, <2>3, LoadGrowth
  <2>. QED BY <1>1, <2>1, <2>2, <2>4 DEF BInv, BudgetRespected
<1>3. ASSUME NEW j \in DOMAIN jobs, ClaimOf(j), TableKept({j}) PROVE BInv'
  <2>1. \A k \in Running' : k # j => k \in Running /\ Effective(jobs'[k]) = Effective(jobs[k])
    BY <1>3, ProfilesKept DEF Running, WithStatus
  <2>2. /\ Load \in Nat /\ Load' \in Nat
        /\ \/ Load' <= Load
           \/ j \in Running' /\ Load' <= Load + CostOf(Effective(jobs'[j]))
    BY <1>1, <2>1, LoadGrowth
  <2>3. \A k \in DOMAIN jobs' : jobs'[k].profile \in DOMAIN Cost
    BY <1>3, ProfilesKept
  <2>4. ASSUME Budget > 0, j \in Running'
        PROVE  CostOf(Effective(jobs'[j])) \in Nat /\ Load + CostOf(Effective(jobs'[j])) <= Budget
    <3>1. jobs[j].profile \notin OverBudget
      BY <1>3 DEF ClaimOf, ClaimNextJob, Claimable
    <3>2. Effective(jobs'[j]) = jobs[j].profile /\ jobs[j].profile \in DOMAIN Cost
      BY <1>3, <2>4, ProfilesKept DEF Running, WithStatus
    <3>3. CostOf(Effective(jobs'[j])) = Cost[jobs[j].profile] /\ Cost[jobs[j].profile] \in Nat
      BY <3>2, QueueAssumption DEF QueueAssumption, CostOf
    <3>4. ~(Cost[jobs[j].profile] > Budget - Load)
      BY <1>1, <2>4, <3>1, <3>2 DEF OverBudget
    <3>. QED BY <1>1, <2>2, <3>3, <3>4
  <2>5. Budget > 0 => Load <= Budget
    BY DEF BInv, BudgetRespected
  <2>6. Budget > 0 => Load' <= Budget
    BY <1>1, <2>2, <2>4, <2>5
  <2>. QED BY <1>1, <2>3, <2>6 DEF BInv, BudgetRespected
<1>4. CASE TableKept({})
  <2>1. \A k \in Running' : k \in Running /\ Effective(jobs'[k]) = Effective(jobs[k])
    BY <1>4, ProfilesKept DEF Running, WithStatus
  <2>2. nextId \notin Running'
    BY <2>1, <1>1 DEF IInv, Running, WithStatus
  <2>3. Load' <= Load /\ Load \in Nat /\ Load' \in Nat
    BY <1>1, <2>1, <2>2, LoadGrowth
  <2>4. \A k \in DOMAIN jobs' : jobs'[k].profile \in DOMAIN Cost
    BY <1>4, ProfilesKept
  <2>. QED BY <1>1, <2>3, <2>4 DEF BInv, BudgetRespected
<1>. QED BY <1>1, <1>2, <1>3, <1>4, StepShape

\* concurrency-cost holds for any number of nodes, workers and jobs, when every
\* submission records a profile that has a cost: the sum of what runs never
\* exceeds the budget, whichever nodes claim, fail over and come back.
THEOREM BudgetHolds ==
  ASSUME Costed
  PROVE  QSpec => []BudgetRespected
<1>1. BInv /\ [QNext]_queue => BInv'
  BY StepBudget
<1>2. BInv => BudgetRespected
  BY DEF BInv
<1>. QED BY <1>1, <1>2, InitBudget, PTL DEF QSpec

=============================================================================
