--------------------------- MODULE PromiseProofs ---------------------------
(***************************************************************************)
(* What is promised of jobs beside the shared queue: the lease discipline  *)
(* of the lifecycle, for any jobs, holders and limits, and that a          *)
(* deployment on SQLite keeps the promises of the queue on PostgreSQL.     *)
(***************************************************************************)
EXTENDS JobLifecycle, LocalQueue, TLAPS

-----------------------------------------------------------------------------
(* The lifecycle.                                                          *)

LTypeOK ==
  /\ stage \in [Job -> Stage]
  /\ lease \in [Job -> Holder \cup {NoHolder}]
  /\ attempt \in [Job -> Outcome]
  /\ spent \in [Job -> Nat]
  /\ limit \in [Job -> Nat]

\* Inductive: besides the types, a job that was never submitted has no limit
\* and has spent nothing, so that submitting it cannot break spent <= limit.
Unused == \A j \in Job : stage[j] = "absent" => spent[j] = 0

LIInv == LTypeOK /\ LeaseDiscipline /\ Unused

\* The inductive invariant holds at the start: nothing is submitted yet.
LEMMA LifecycleInit == LifecycleConstants /\ LInit => LIInv
  BY DEF LifecycleConstants, LInit, LIInv, LTypeOK, LeaseDiscipline, Unused, Stage, Outcome

\* Ending the lease of a job keeps the invariant as far as stage, lease and
\* attempt go, whatever stage it ends in.
LEMMA ReleaseKeeps ==
  ASSUME LifecycleConstants, NEW j \in Job, NEW s \in Stage \ {"leased"}, LIInv, Release(j, s)
  PROVE  /\ stage' \in [Job -> Stage]
         /\ lease' \in [Job -> Holder \cup {NoHolder}]
         /\ attempt' \in [Job -> Outcome]
         /\ \A k \in Job : /\ lease'[k] \in Holder <=> stage'[k] = "leased"
                           /\ attempt'[k] # "none" => stage'[k] = "leased"
                           /\ k # j => stage'[k] = stage[k]
         /\ stage'[j] = s
  BY DEF LifecycleConstants, Release, LIInv, LTypeOK, LeaseDiscipline, Stage, Outcome

\* Every step keeps it, one step of the proof per action.
LEMMA LifecycleStep == LifecycleConstants /\ LIInv /\ [LNext]_life => LIInv'
<1> USE DEF LIInv
<1> SUFFICES ASSUME LifecycleConstants, LIInv, [LNext]_life PROVE LIInv'
  OBVIOUS
<1>1. ASSUME NEW j \in Job, NEW r \in Limits, Submit(j, r) PROVE LIInv'
  BY <1>1
  DEF LifecycleConstants, Submit, LTypeOK, LeaseDiscipline, Unused, Stage, Outcome
<1>2. ASSUME NEW j \in Job, NEW h \in Holder, Grant(j, h) PROVE LIInv'
  BY <1>2
  DEF LifecycleConstants, Grant, LTypeOK, LeaseDiscipline, Unused, Stage, Outcome
<1>3. ASSUME NEW j \in Job, NEW o \in Outcome, Report(j, o) PROVE LIInv'
  BY <1>3 DEF Report, LTypeOK, LeaseDiscipline, Unused, Stage, Outcome
<1>4. ASSUME NEW j \in Job, Settle(j) PROVE LIInv'
  BY <1>4, ReleaseKeeps DEF Settle, LTypeOK, LeaseDiscipline, Unused, Stage
<1>5. ASSUME NEW j \in Job, Retry(j) PROVE LIInv'
  <2>1. Release(j, "queued") /\ spent' = [spent EXCEPT ![j] = @ + 1] /\ limit' = limit
        /\ spent[j] < limit[j]
    BY <1>5 DEF Retry
  <2>2. spent' \in [Job -> Nat] /\ \A k \in Job : spent'[k] <= limit'[k]
    BY <2>1 DEF LTypeOK, LeaseDiscipline
  <2> QED
    BY <2>1, <2>2, ReleaseKeeps DEF LTypeOK, LeaseDiscipline, Unused, Stage
<1>6. ASSUME NEW j \in Job, GiveUp(j) PROVE LIInv'
  BY <1>6, ReleaseKeeps DEF GiveUp, LTypeOK, LeaseDiscipline, Unused, Stage
<1>7. ASSUME NEW j \in Job, Postpone(j) PROVE LIInv'
  BY <1>7, ReleaseKeeps DEF Postpone, LTypeOK, LeaseDiscipline, Unused, Stage
<1>8. ASSUME NEW j \in Job, Withdraw(j) PROVE LIInv'
  BY <1>8, ReleaseKeeps DEF Withdraw, LTypeOK, LeaseDiscipline, Unused, Stage
<1>9. ASSUME NEW j \in Job, Reopen(j) PROVE LIInv'
  BY <1>9, ReleaseKeeps DEF Reopen, LTypeOK, LeaseDiscipline, Unused, Stage
<1>10. ASSUME NEW j \in Job, Forget(j) PROVE LIInv'
  BY <1>10, ReleaseKeeps DEF Forget, LTypeOK, LeaseDiscipline, Unused, Stage
<1>11. ASSUME NEW S \in SUBSET Holder, Revoke(S) PROVE LIInv'
  BY <1>11
  DEF LifecycleConstants, Revoke, LTypeOK, LeaseDiscipline, Unused, Stage, Outcome
<1>12. ASSUME UNCHANGED life PROVE LIInv'
  BY <1>12 DEF life, LTypeOK, LeaseDiscipline, Unused
<1> QED
  BY <1>1, <1>2, <1>3, <1>4, <1>5, <1>6, <1>7, <1>8, <1>9, <1>10, <1>11, <1>12 DEF LNext

\* A lease is held exactly while the job is leased, and no job ever spends more
\* retries than it was given.
THEOREM LeasesDisciplined ==
  ASSUME LifecycleConstants PROVE LSpec => []LeaseDiscipline
<1>1. LIInv => LeaseDiscipline
  BY DEF LIInv
<1> QED
  BY <1>1, LifecycleInit, LifecycleStep, PTL DEF LSpec

-----------------------------------------------------------------------------
(* The queue of a deployment on SQLite: LocalSpec => ActsAsQueue, for any  *)
(* submissions, caps, costs and table size.  Each of its statements is one *)
(* operation of JobQueue with its one node for every node, or changes      *)
(* nothing.                                                                *)

LocalInv ==
  /\ lastId \in 0 .. MaxJobs
  /\ DOMAIN rows \subseteq 1 .. lastId
  /\ rows \in [DOMAIN rows -> Queue!Row]

-----------------------------------------------------------------------------
(* The readings of the two agree.                                          *)

LEMMA Readings ==
  /\ \A S : RowsWith(S) = Queue!WithStatus(S)
  /\ InFlight = Queue!WithStatus(Queue!Active)
  /\ \A r : ProfileRun(r) = Queue!Effective(r)
  /\ \A r : Healed(r) = Queue!Backfilled(r)
BY DEF RowsWith, InFlight, ProfileRun, Healed, Queue!WithStatus, Queue!Active, Queue!Effective,
       Queue!Backfilled

LEMMA LoadsAgree == LocalLoad = Queue!Load
BY DEF LocalLoad, Queue!Load, Spends, Queue!CostOf, ProfileRun, Queue!Effective, RowsWith,
       Queue!WithStatus, MapThenSumSet, MapThenFoldSet, Queue!MapThenSumSet,
       Queue!MapThenFoldSet

LEMMA LimitsAgree == OverCapped = Queue!AtCap /\ OverSpent = Queue!OverBudget
<1>1. \A p : {j \in RowsWith({"running"}) : ProfileRun(rows[j]) = p} = Queue!RunningWith(p)
  BY DEF Queue!RunningWith, RowsWith, ProfileRun, Queue!WithStatus, Queue!Effective
<1>2. OverCapped = Queue!AtCap
  BY <1>1 DEF OverCapped, RunningAs, Queue!AtCap, Cardinality, Queue!Cardinality
<1>3. OverSpent = Queue!OverBudget
  BY LoadsAgree DEF OverSpent, Queue!OverBudget
<1>. QED BY <1>2, <1>3

LEMMA OrdersAgree ==
  /\ \A excl : OpenTo(excl) = Queue!Claimable(excl)
  /\ \A j : Weighted(j) = Queue!Rank(rows[j])
<1>1. ASSUME NEW excl PROVE OpenTo(excl) = Queue!Claimable(excl)
  BY Readings, LimitsAgree DEF OpenTo, Queue!Claimable
<1>. QED BY <1>1 DEF Weighted, Queue!Rank

\* The columns of a row that goes back to pending are written in any order.
LEMMA BackSame ==
  ASSUME NEW r \in Queue!Row
  PROVE  BackToPending(r) = Queue!Released(r)
BY DEF BackToPending, Queue!Released, Queue!Row

LEMMA FailedSame ==
  ASSUME NEW r \in Queue!Row
  PROVE  Failed(r) = Queue!AfterFailure(r)
BY BackSame, Readings DEF Failed, Queue!AfterFailure, Queue!MayRetry, Queue!Charged

-----------------------------------------------------------------------------
(* Each statement is an operation of the shared queue.                     *)

LEMMA AddIsAdd ==
  ASSUME LocalInv, NEW r \in Request, LocalAdd(r)
  PROVE  Queue!AddJob(r)
<1>1. lastId + 1 \in Queue!JobId /\ lastId' = lastId + 1
  BY LocalAssumption DEF LocalInv, LocalAdd, Queue!JobId, Queue!QueueAssumption
<1>2. Queue!Duplicates(r) = {}
  BY Readings DEF LocalAdd, Queue!Duplicates, Queue!SameWork
<1>3. rows' = [j \in DOMAIN rows \cup {lastId + 1} |->
                 IF j = lastId + 1 THEN Queue!NewRow(r) ELSE rows[j]]
  BY <1>1 DEF LocalAdd, Queue!NewRow
<1>. QED BY <1>1, <1>2, <1>3 DEF LocalAdd, Queue!AddJob

LEMMA ClaimIsClaim ==
  ASSUME LocalInv, NEW i \in WorkerId, NEW excl \in SUBSET Config, LocalClaim(i, excl)
  PROVE  Queue!Claim
<1>1. PICK j \in OpenTo(excl) :
        /\ \A k \in OpenTo(excl) :
             Weighted(j) > Weighted(k) \/ (Weighted(j) = Weighted(k) /\ j <= k)
        /\ Update({j}, LAMBDA r : [r EXCEPT !.status = "running", !.worker = i, !.node = Local])
        /\ OnlyRows
  BY DEF LocalClaim
<1>2. j \in DOMAIN rows /\ j \in Queue!Claimable(excl) /\ Queue!Best(j, Queue!Claimable(excl))
  BY <1>1, OrdersAgree DEF OpenTo, RowsWith, Queue!Best
<1>3. rows' = [rows EXCEPT ![j].status = "running", ![j].node = Local, ![j].worker = i]
  <2>1. rows' = [k \in DOMAIN rows |->
                   IF k \in {j} THEN [rows[k] EXCEPT !.status = "running", !.worker = i,
                                                     !.node = Local]
                   ELSE rows[k]]
    BY <1>1 DEF Update
  <2>2. rows[j] \in Queue!Row
    BY <1>2 DEF LocalInv
  <2>3. [rows[j] EXCEPT !.status = "running", !.worker = i, !.node = Local]
          = [rows[j] EXCEPT !.status = "running", !.node = Local, !.worker = i]
    BY <2>2 DEF Queue!Row
  <2>. QED BY <1>2, <2>1, <2>3 DEF LocalInv
<1>4. ~Queue!Yields(Local, {})
  BY DEF Queue!Yields
<1>5. Queue!ClaimNextJob(j, Local, i, excl, {})
  BY <1>1, <1>2, <1>3, <1>4 DEF Queue!ClaimNextJob, OnlyRows
<1>. QED BY <1>2, <1>5 DEF Queue!Claim

LEMMA CompleteIsComplete ==
  ASSUME LocalInv, NEW j \in DOMAIN rows, LocalComplete(j)
  PROVE  Queue!CompleteJob(j, Local)
<1>1. rows' = [k \in DOMAIN rows |-> IF k \in {j} THEN [rows[k] EXCEPT !.status = "completed"]
                                     ELSE rows[k]]
  BY DEF LocalComplete, Update
<1>2. rows' = [rows EXCEPT ![j].status = "completed"]
  BY <1>1 DEF LocalInv
<1>. QED BY <1>2, Readings DEF LocalComplete, Guard, OnlyRows, Queue!CompleteJob, Queue!Owns

LEMMA FailIsFail ==
  ASSUME LocalInv, NEW j \in DOMAIN rows, LocalFail(j)
  PROVE  Queue!FailJob(j, Local)
<1>1. rows' = [k \in DOMAIN rows |-> IF k \in {j} THEN Failed(rows[k]) ELSE rows[k]]
  BY DEF LocalFail, Update
<1>2. rows' = [rows EXCEPT ![j] = Queue!AfterFailure(@)]
  BY <1>1, FailedSame DEF LocalInv
<1>. QED BY <1>2, Readings DEF LocalFail, Guard, OnlyRows, Queue!FailJob, Queue!Owns

LEMMA DeferIsDefer ==
  ASSUME LocalInv, NEW j \in DOMAIN rows, LocalDefer(j)
  PROVE  Queue!DeferJob(j)
<1>1. rows' = [k \in DOMAIN rows |->
                 IF k \in {j} THEN [BackToPending(rows[k]) EXCEPT !.due = FALSE] ELSE rows[k]]
  BY DEF LocalDefer, Update
<1>2. rows' = [rows EXCEPT ![j] = [Queue!Released(@) EXCEPT !.due = FALSE]]
  BY <1>1, BackSame DEF LocalInv
<1>3. rows[j].status \in Queue!Settled <=> j \notin InFlight
  BY DEF LocalInv, InFlight, RowsWith, Queue!Row, Queue!Active, Queue!Settled
<1>4. wasSettled' = IF rows[j].status \in Queue!Settled THEN wasSettled \cup {j} ELSE wasSettled
  BY <1>3 DEF LocalDefer, Reopening
<1>. QED BY <1>2, <1>4 DEF LocalDefer, Reopening, Queue!DeferJob

LEMMA CancelIsCancel ==
  ASSUME LocalInv, NEW j \in DOMAIN rows, LocalCancel(j)
  PROVE  Queue!CancelJob(j)
<1>1. rows' = [k \in DOMAIN rows |-> IF k \in {j} THEN [rows[k] EXCEPT !.status = "cancelled"]
                                     ELSE rows[k]]
  BY DEF LocalCancel, Update
<1>2. rows' = [rows EXCEPT ![j].status = "cancelled"]
  BY <1>1 DEF LocalInv
<1>. QED BY <1>2, Readings DEF LocalCancel, OnlyRows, Queue!CancelJob

LEMMA RequeueIsRequeue ==
  ASSUME LocalInv, NEW j \in DOMAIN rows, LocalRequeue(j)
  PROVE  Queue!RequeueJob(j)
<1>1. rows' = [k \in DOMAIN rows |-> IF k \in {j} THEN Healed(BackToPending(rows[k]))
                                     ELSE rows[k]]
  BY DEF LocalRequeue, Update
<1>2. rows' = [rows EXCEPT ![j] = Queue!Backfilled(Queue!Released(@))]
  BY <1>1, BackSame, Readings DEF LocalInv
<1>. QED BY <1>2, Readings DEF LocalRequeue, Reopening, Queue!RequeueJob

LEMMA PriorityIsPriority ==
  ASSUME LocalInv, NEW j \in DOMAIN rows, NEW p \in Priority, LocalSetPriority(j, p)
  PROVE  Queue!SetJobPriority(j, p)
<1>1. rows' = [k \in DOMAIN rows |-> IF k \in {j} THEN [rows[k] EXCEPT !.priority = p]
                                     ELSE rows[k]]
  BY DEF LocalSetPriority, Update
<1>2. rows' = [rows EXCEPT ![j].priority = p]
  BY <1>1 DEF LocalInv
<1>. QED BY <1>2, Readings DEF LocalSetPriority, OnlyRows, Queue!SetJobPriority

LEMMA BackoffIsBackoff ==
  ASSUME LocalInv, NEW j \in DOMAIN rows, LocalBackoffElapses(j)
  PROVE  Queue!BackoffElapses(j)
<1>1. rows' = [k \in DOMAIN rows |-> IF k \in {j} THEN [rows[k] EXCEPT !.due = TRUE]
                                     ELSE rows[k]]
  BY DEF LocalBackoffElapses, Update
<1>2. rows' = [rows EXCEPT ![j].due = TRUE]
  BY <1>1 DEF LocalInv
<1>. QED BY <1>2, Readings DEF LocalBackoffElapses, OnlyRows, Queue!BackoffElapses

\* The backfill of the whole table after rows of it went back to pending.
LEMMA HealedSame ==
  ASSUME LocalInv, NEW S \in SUBSET DOMAIN rows, UpdateAndHeal(S, BackToPending)
  PROVE  rows' = Queue!ReleasedAndBackfilled(S)
BY BackSame, Readings DEF LocalInv, UpdateAndHeal, Queue!ReleasedAndBackfilled

LEMMA RequeueFailedIsRequeueFailed ==
  ASSUME LocalInv, NEW C \in SUBSET Config, LocalRequeueFailed(C)
  PROVE  Queue!RequeueFailedJobs(C)
<1>. DEFINE S == {j \in RowsWith({"failed"}) : rows[j].req.config \in C}
<1>1. S \in SUBSET DOMAIN rows /\ S = {j \in Queue!WithStatus({"failed"}) : rows[j].req.config \in C}
  BY DEF RowsWith, Queue!WithStatus
<1>2. S # {} /\ UpdateAndHeal(S, BackToPending) /\ Reopening(S)
  BY DEF LocalRequeueFailed
<1>3. rows' = Queue!ReleasedAndBackfilled(S)
  BY <1>1, <1>2, HealedSame
<1>. QED BY <1>1, <1>2, <1>3 DEF Reopening, Queue!RequeueFailedJobs

LEMMA ResetIsReset ==
  ASSUME LocalInv, LocalReset
  PROVE  Queue!RequeueNodeJobs(Local)
<1>1. {j \in RowsWith({"running"}) : rows[j].node = Local} = Queue!RunningOn(Local)
  BY DEF RowsWith, Queue!RunningOn, Queue!WithStatus
<1>2. Queue!RunningOn(Local) \in SUBSET DOMAIN rows
  BY DEF Queue!RunningOn, Queue!WithStatus
<1>. QED BY <1>1, <1>2, HealedSame DEF LocalReset, OnlyRows, Queue!RequeueNodeJobs

\* Rows are deleted, or there was nothing to delete.
LEMMA DeleteIsDelete ==
  ASSUME LocalInv, NEW S \in SUBSET DOMAIN rows, LocalDelete(S)
  PROVE  (\E D \in SUBSET Queue!JobId : Queue!DeleteJobs(D)) \/ UNCHANGED localVars
<1>1. S \in SUBSET Queue!JobId
  BY LocalAssumption DEF LocalInv, Queue!JobId, Queue!QueueAssumption
<1>2. CASE S = {}
  BY <1>2 DEF LocalInv, LocalDelete, OnlyRows, localVars
<1>3. CASE S # {}
  <2>1. Queue!DeleteJobs(S)
    BY <1>3 DEF LocalDelete, OnlyRows, Queue!DeleteJobs, Queue!Keep
  <2>. QED BY <1>1, <2>1
<1>. QED BY <1>2, <1>3

-----------------------------------------------------------------------------
\* Every step of the SQLite queue is a step of the shared one, or a stutter.
LEMMA StepIsStep ==
  ASSUME LocalInv, [LocalNext]_localVars
  PROVE  [Queue!QNext]_(Queue!queue)
<1>1. ASSUME NEW r \in Request, LocalAdd(r) PROVE Queue!QNext
  BY <1>1, AddIsAdd DEF Queue!QNext, Queue!UserStep
<1>2. ASSUME NEW i \in WorkerId, NEW excl \in SUBSET Config, LocalClaim(i, excl) PROVE Queue!QNext
  BY <1>2, ClaimIsClaim DEF Queue!QNext, Queue!WorkerStep
<1>3. ASSUME NEW j \in DOMAIN rows, LocalComplete(j) \/ LocalFail(j) \/ LocalDefer(j)
                                    \/ LocalBackoffElapses(j)
      PROVE  Queue!QNext
  BY <1>3, CompleteIsComplete, FailIsFail, DeferIsDefer, BackoffIsBackoff
     DEF Queue!QNext, Queue!WorkerStep
<1>4. ASSUME NEW j \in DOMAIN rows, LocalCancel(j) \/ LocalRequeue(j) PROVE Queue!QNext
  BY <1>4, CancelIsCancel, RequeueIsRequeue DEF Queue!QNext, Queue!UserStep
<1>5. ASSUME NEW j \in DOMAIN rows, NEW p \in Priority, LocalSetPriority(j, p) PROVE Queue!QNext
  BY <1>5, PriorityIsPriority DEF Queue!QNext, Queue!UserStep
<1>6. ASSUME NEW C \in {Config} \cup {{c} : c \in Config}, LocalRequeueFailed(C)
      PROVE  Queue!QNext
  <2>1. C \in SUBSET Config
    OBVIOUS
  <2>. QED BY <1>6, <2>1, RequeueFailedIsRequeueFailed DEF Queue!QNext, Queue!UserStep
<1>7. ASSUME NEW S \in SUBSET DOMAIN rows, LocalDelete(S)
      PROVE  Queue!QNext \/ UNCHANGED localVars
  BY <1>7, DeleteIsDelete DEF Queue!QNext, Queue!UserStep
<1>8. ASSUME LocalDeleteFailed \/ LocalDeleteAll \/ LocalCleanup
      PROVE  Queue!QNext \/ UNCHANGED localVars
  <2>1. \A S : RowsWith(S) \in SUBSET DOMAIN rows
    BY DEF RowsWith
  <2>. QED BY <1>8, <1>7, <2>1 DEF LocalDeleteFailed, LocalDeleteAll, LocalCleanup
<1>9. ASSUME LocalReset PROVE Queue!QNext
  BY <1>9, ResetIsReset DEF Queue!QNext, Queue!WorkerStep
<1>10. UNCHANGED localVars => UNCHANGED Queue!queue
  BY DEF localVars, Queue!queue
<1>11. CASE LocalNext
  BY <1>11, <1>1, <1>2, <1>3, <1>4, <1>5, <1>6, <1>7, <1>8, <1>9, <1>10 DEF LocalNext
<1>. QED BY <1>10, <1>11

-----------------------------------------------------------------------------
(* The rows keep their type.                                               *)

LEMMA RowsKept ==
  ASSUME NEW r \in Queue!Row
  PROVE  /\ Healed(r) \in Queue!Row
         /\ BackToPending(r) \in Queue!Row
         /\ Failed(r) \in Queue!Row
<1>1. /\ r.req.args \in Profile \cup {NoProfile}
      /\ r.retries \in Nat /\ r.profile \in Profile \cup {NoProfile}
  BY LocalAssumption DEF Queue!QueueAssumption, Queue!RequestType, Queue!Row
<1>2. \A q \in Queue!Row :
        q.req = r.req /\ q.profile = r.profile => Healed(q) \in Queue!Row
  BY <1>1 DEF Healed, ProfileRun, Queue!Row
<1>3. BackToPending(r) \in Queue!Row /\ BackToPending(r).req = r.req
      /\ BackToPending(r).profile = r.profile /\ BackToPending(r).retries = r.retries
  BY DEF BackToPending, Queue!Row, Queue!Active, Queue!Settled
<1>4. Healed(BackToPending(r)) \in Queue!Row
  BY <1>2, <1>3
<1>5. \A q \in Queue!Row : [q EXCEPT !.retries = @ + 1, !.due = FALSE] \in Queue!Row
  <2>. SUFFICES ASSUME NEW q \in Queue!Row
                PROVE  [q EXCEPT !.retries = @ + 1, !.due = FALSE] \in Queue!Row
    OBVIOUS
  <2>1. q.retries + 1 \in Nat
    BY DEF Queue!Row
  <2>. QED BY <2>1 DEF Queue!Row
<1>6. [r EXCEPT !.status = "failed"] \in Queue!Row
  BY DEF Queue!Row, Queue!Active, Queue!Settled
<1>. QED BY <1>2, <1>3, <1>4, <1>5, <1>6 DEF Failed

\* An update keeps the invariant where the rows it writes have their type.
LEMMA TableKept ==
  ASSUME LocalInv, UNCHANGED lastId, DOMAIN rows' \subseteq DOMAIN rows,
         rows' = [j \in DOMAIN rows' |-> rows'[j]],
         \A j \in DOMAIN rows' : rows'[j] \in Queue!Row
  PROVE  LocalInv'
BY DEF LocalInv

LEMMA StepInv ==
  ASSUME LocalInv, [LocalNext]_localVars
  PROVE  LocalInv'
<1>. DEFINE Typed == \A j \in DOMAIN rows : rows[j] \in Queue!Row
<1>1. Typed
  BY DEF LocalInv
<1>2. \A r \in Queue!Row : /\ Healed(r) \in Queue!Row
                           /\ BackToPending(r) \in Queue!Row
                           /\ Failed(r) \in Queue!Row
  BY RowsKept
<1>3. \A r \in Queue!Row :
        /\ \A s \in Queue!Active \cup Queue!Settled : [r EXCEPT !.status = s] \in Queue!Row
        /\ \A d \in BOOLEAN : [r EXCEPT !.due = d] \in Queue!Row
        /\ \A p \in Int : [r EXCEPT !.priority = p] \in Queue!Row
        /\ \A i \in WorkerId :
             [r EXCEPT !.status = "running", !.worker = i, !.node = Local] \in Queue!Row
  BY DEF Queue!Row, Queue!Active, Queue!Settled
<1>4. {"running", "completed", "cancelled"} \subseteq Queue!Active \cup Queue!Settled
  BY DEF Queue!Active, Queue!Settled
<1>5. ASSUME NEW r \in Request, LocalAdd(r) PROVE LocalInv'
  <2>1. [req |-> r, status |-> "pending", node |-> NoNode, worker |-> NoWorker, retries |-> 0,
         due |-> TRUE, priority |-> r.priority, profile |-> r.profile] \in Queue!Row
    BY LocalAssumption DEF Queue!QueueAssumption, Queue!RequestType, Queue!Row, Queue!Active
  <2>2. lastId' = lastId + 1 /\ lastId' \in 0 .. MaxJobs
    BY <1>5, LocalAssumption DEF LocalAdd, LocalInv, Queue!QueueAssumption
  <2>. QED BY <1>1, <1>5, <2>1, <2>2 DEF LocalAdd, LocalInv
<1>6. ASSUME NEW i \in WorkerId, NEW excl \in SUBSET Config, LocalClaim(i, excl)
      PROVE  LocalInv'
  <2>1. PICK j : Update({j}, LAMBDA r : [r EXCEPT !.status = "running", !.worker = i,
                                                  !.node = Local]) /\ OnlyRows
    BY <1>6 DEF LocalClaim
  <2>. QED BY <1>1, <1>3, <2>1, TableKept DEF Update, OnlyRows
<1>7. ASSUME NEW j \in DOMAIN rows, LocalComplete(j) PROVE LocalInv'
  BY <1>1, <1>3, <1>4, <1>7, TableKept DEF LocalComplete, Update, OnlyRows
<1>8. ASSUME NEW j \in DOMAIN rows, LocalFail(j) PROVE LocalInv'
  BY <1>1, <1>2, <1>8, TableKept DEF LocalFail, Update, OnlyRows
<1>9. ASSUME NEW j \in DOMAIN rows, LocalDefer(j) PROVE LocalInv'
  BY <1>1, <1>2, <1>3, <1>9, TableKept DEF LocalDefer, Update, Reopening
<1>10. ASSUME NEW j \in DOMAIN rows, LocalCancel(j) PROVE LocalInv'
  BY <1>1, <1>3, <1>4, <1>10, TableKept DEF LocalCancel, Update, OnlyRows
<1>11. ASSUME NEW j \in DOMAIN rows, LocalRequeue(j) PROVE LocalInv'
  BY <1>1, <1>2, <1>11, TableKept DEF LocalRequeue, Update, Reopening
<1>12. ASSUME NEW j \in DOMAIN rows, LocalBackoffElapses(j) PROVE LocalInv'
  BY <1>1, <1>3, <1>12, TableKept DEF LocalBackoffElapses, Update, OnlyRows
<1>13. ASSUME NEW j \in DOMAIN rows, NEW p \in Priority, LocalSetPriority(j, p) PROVE LocalInv'
  <2>1. p \in Int
    BY LocalAssumption DEF Queue!QueueAssumption
  <2>. QED BY <1>1, <1>3, <1>13, <2>1, TableKept DEF LocalSetPriority, Update, OnlyRows
<1>14. ASSUME NEW C, LocalRequeueFailed(C) PROVE LocalInv'
  BY <1>1, <1>2, <1>14, TableKept DEF LocalRequeueFailed, UpdateAndHeal, Reopening
<1>15. ASSUME NEW S, LocalDelete(S) PROVE LocalInv'
  BY <1>1, <1>15, TableKept DEF LocalDelete, OnlyRows
<1>16. CASE LocalReset
  BY <1>1, <1>2, <1>16, TableKept DEF LocalReset, UpdateAndHeal, OnlyRows
<1>17. CASE UNCHANGED localVars
  BY <1>17 DEF localVars, LocalInv
<1>. QED
  BY <1>5, <1>6, <1>7, <1>8, <1>9, <1>10, <1>11, <1>12, <1>13, <1>14, <1>15, <1>16, <1>17
     DEF LocalNext, LocalDeleteFailed, LocalDeleteAll, LocalCleanup

-----------------------------------------------------------------------------
\* The empty table is the shared queue's first state.
LEMMA InitIsInit == LocalInit => LocalInv /\ Queue!QInit
BY LocalAssumption DEF LocalInit, LocalInv, Queue!QInit, Queue!QueueAssumption

\* The SQLite queue, whatever the daemon calls and in any order, behaves as the
\* shared queue of a cluster with this one node.
THEOREM LocalImplementsQueue == LocalSpec => ActsAsQueue
<1>1. LocalInv /\ [LocalNext]_localVars => LocalInv'
  BY StepInv
<1>2. LocalInv /\ [LocalNext]_localVars => [Queue!QNext]_(Queue!queue)
  BY StepIsStep
<1>. QED BY <1>1, <1>2, InitIsInit, PTL DEF LocalSpec, ActsAsQueue, Queue!QSpec

-----------------------------------------------------------------------------
(* What is proved of the shared queue holds of the SQLite one.             *)

Shared == INSTANCE JobQueueProofs WITH
  jobs <- rows, nextId <- lastId + 1, revived <- wasSettled, Node <- {Local}

LEMMA SharedAssumption == Shared!QueueAssumption
BY LocalAssumption DEF Queue!QueueAssumption, Shared!QueueAssumption, Queue!RequestType,
   Shared!RequestType

\* The queue that JobQueueProofs extends is the one LocalQueue refines.
LEMMA SameOperations ==
  [Queue!QNext]_(Queue!queue) <=> [Shared!QNext]_(Shared!queue)
<1>1. Queue!UserStep = Shared!UserStep
  BY DEF Queue!UserStep, Shared!UserStep, Queue!AddJob, Shared!AddJob, Queue!Duplicates,
     Shared!Duplicates, Queue!SameWork, Shared!SameWork, Queue!NewRow,
     Shared!NewRow, Queue!JobId, Shared!JobId, Queue!CancelJob, Shared!CancelJob,
     Queue!RequeueJob, Shared!RequeueJob, Queue!RequeueFailedJobs,
     Shared!RequeueFailedJobs, Queue!SetJobPriority, Shared!SetJobPriority,
     Queue!DeleteJobs, Shared!DeleteJobs, Queue!DeleteFailedJobs,
     Shared!DeleteFailedJobs, Queue!DeleteAllJobs, Shared!DeleteAllJobs,
     Queue!CleanupOldJobs, Shared!CleanupOldJobs, Queue!Keep, Shared!Keep,
     Queue!Released, Shared!Released, Queue!Backfilled, Shared!Backfilled,
     Queue!ReleasedAndBackfilled, Shared!ReleasedAndBackfilled, Queue!WithStatus,
     Shared!WithStatus, Queue!Effective, Shared!Effective, Queue!Active,
     Shared!Active, Queue!Settled, Shared!Settled
<1>2. Queue!WorkerStep = Shared!WorkerStep
  BY DEF Queue!WorkerStep, Shared!WorkerStep, Queue!Claim, Shared!Claim,
     Queue!ClaimNextJob, Shared!ClaimNextJob, Queue!Yields, Shared!Yields,
     Queue!Best, Shared!Best, Queue!Rank, Shared!Rank, Queue!Claimable,
     Shared!Claimable, Queue!AtCap, Shared!AtCap, Queue!RunningWith,
     Shared!RunningWith, Queue!OverBudget, Shared!OverBudget, Queue!Load,
     Shared!Load, Queue!CostOf, Shared!CostOf, Queue!CompleteJob,
     Shared!CompleteJob, Queue!FailJob, Shared!FailJob, Queue!AfterFailure,
     Shared!AfterFailure, Queue!MayRetry, Shared!MayRetry, Queue!Charged,
     Shared!Charged, Queue!Owns, Shared!Owns, Queue!RunningOn, Shared!RunningOn,
     Queue!DeferJob, Shared!DeferJob, Queue!RequeueNodeJobs, Shared!RequeueNodeJobs,
     Queue!RequeueStaleJobs, Shared!RequeueStaleJobs, Queue!BackoffElapses,
     Shared!BackoffElapses, Queue!Released, Shared!Released, Queue!Backfilled,
     Shared!Backfilled, Queue!ReleasedAndBackfilled, Shared!ReleasedAndBackfilled,
     Queue!WithStatus, Shared!WithStatus, Queue!Effective, Shared!Effective,
     Queue!Active, Shared!Active, Queue!Settled, Shared!Settled,
     Queue!MapThenSumSet, Shared!MapThenSumSet, Queue!MapThenFoldSet,
     Shared!MapThenFoldSet, Queue!Cardinality, Shared!Cardinality
<1>. QED BY <1>1, <1>2 DEF Queue!QNext, Shared!QNext, Queue!queue, Shared!queue

LEMMA SameSpec == Queue!QSpec <=> Shared!QSpec
<1>1. Queue!QInit <=> Shared!QInit
  BY DEF Queue!QInit, Shared!QInit
<1>. QED BY <1>1, SameOperations, PTL DEF Queue!QSpec, Shared!QSpec

\* On a single node too: no second active row for a path and kind but by a
\* revival, every retry accounted for, and a verdict changed only by a requeue or
\* a late defer_job.
THEOREM LocalPromises ==
  LocalSpec => [](Queue!DuplicatesAreRevivals /\ Queue!RetriesSpent) /\ Queue!SettledStays
<1>1. Shared!DuplicatesAreRevivals <=> Queue!DuplicatesAreRevivals
  BY DEF Shared!DuplicatesAreRevivals, Queue!DuplicatesAreRevivals, Shared!SameWork,
     Queue!SameWork, Shared!Active, Queue!Active, Shared!WithStatus, Queue!WithStatus
<1>2. Shared!RetriesSpent <=> Queue!RetriesSpent
  BY DEF Shared!RetriesSpent, Queue!RetriesSpent, Shared!MayRetry, Queue!MayRetry
<1>3. Shared!SettledStays <=> Queue!SettledStays
  BY DEF Shared!SettledStays, Queue!SettledStays, Shared!SettledRowStays,
     Queue!SettledRowStays, Shared!WithStatus, Queue!WithStatus, Shared!Settled,
     Queue!Settled, Shared!queue, Queue!queue
<1>4. Shared!QSpec => [](Shared!DuplicatesAreRevivals) /\ [](Shared!RetriesSpent)
                      /\ Shared!SettledStays
  BY SharedAssumption, Shared!WorkIsUnique, Shared!RetriesAccounted, Shared!VerdictsStay
<1>. QED
  BY <1>1, <1>2, <1>3, <1>4, SameSpec, LocalImplementsQueue, PTL DEF ActsAsQueue

\* The limits hold of it under the conditions they have on the shared queue.
THEOREM LocalLimits ==
  /\ Shared!RecordedOnly => (LocalSpec => []Queue!CapRespected)
  /\ Shared!Costed => (LocalSpec => []Queue!BudgetRespected)
<1>1. Shared!CapRespected <=> Queue!CapRespected
  BY DEF Shared!CapRespected, Queue!CapRespected, Shared!RunningWith, Queue!RunningWith,
     Shared!WithStatus, Queue!WithStatus, Shared!Effective, Queue!Effective,
     Shared!Cardinality, Queue!Cardinality
<1>2. Shared!BudgetRespected <=> Queue!BudgetRespected
  BY DEF Shared!BudgetRespected, Queue!BudgetRespected, Shared!Load, Queue!Load,
     Shared!CostOf, Queue!CostOf, Shared!WithStatus, Queue!WithStatus, Shared!Effective,
     Queue!Effective, Shared!MapThenSumSet, Queue!MapThenSumSet, Shared!MapThenFoldSet,
     Queue!MapThenFoldSet
<1>3. LocalSpec => Shared!QSpec
  BY SameSpec, LocalImplementsQueue DEF ActsAsQueue
<1>4. Shared!RecordedOnly => (Shared!QSpec => []Shared!CapRespected)
  BY SharedAssumption, Shared!CapHolds
<1>5. Shared!Costed => (Shared!QSpec => []Shared!BudgetRespected)
  BY SharedAssumption, Shared!BudgetHolds
<1>. QED BY <1>1, <1>2, <1>3, <1>4, <1>5, PTL

=============================================================================
