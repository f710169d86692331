---------------------------- MODULE JobLifecycle ----------------------------
(***************************************************************************)
(* What the cluster promises about a job, whoever runs it and whatever     *)
(* fails: a job is leased to one node at a time, only the node that holds  *)
(* the lease settles it, by what its own attempt under that lease came to, *)
(* an attempt that fails costs one of the job's retries and a lease that   *)
(* is lost costs none, a withdrawn job stays withdrawn, and only an        *)
(* operator reopens one that was given up.                                 *)
(*                                                                         *)
(* The lifecycle is the one of docs/daemon.md (Job Lifecycle) and of the   *)
(* status column of jobs; Cluster implements it (module ClusterLifecycle). *)
(***************************************************************************)
EXTENDS Naturals

CONSTANTS
  Job, Holder, NoHolder,
  Limits     \* the retries a job may be submitted with

\* What an instance has to provide; module ClusterLifecycle assumes it of Cluster.
LifecycleConstants == NoHolder \notin Holder /\ Limits \subseteq Nat

VARIABLES
  stage,    \* where the job is
  lease,    \* who may work on it
  attempt,  \* what the holder's attempt has come to
  spent,    \* retries used
  limit     \* retries allowed, known once the job is submitted
life == <<stage, lease, attempt, spent, limit>>

Stage   == {"absent", "queued", "leased", "done", "failed", "withdrawn"}
Outcome == {"none", "ok", "bad"}

LInit ==
  /\ stage = [j \in Job |-> "absent"]
  /\ lease = [j \in Job |-> NoHolder]
  /\ attempt = [j \in Job |-> "none"]
  /\ spent = [j \in Job |-> 0]
  /\ limit = [j \in Job |-> 0]

\* The lease ends and the job goes to stage s.
Release(j, s) ==
  /\ stage' = [stage EXCEPT ![j] = s]
  /\ lease' = [lease EXCEPT ![j] = NoHolder]
  /\ attempt' = [attempt EXCEPT ![j] = "none"]

Submit(j, r) ==
  /\ stage[j] = "absent"
  /\ stage' = [stage EXCEPT ![j] = "queued"]
  /\ limit' = [limit EXCEPT ![j] = r]
  /\ UNCHANGED <<lease, attempt, spent>>

Grant(j, h) ==
  /\ stage[j] = "queued"
  /\ stage' = [stage EXCEPT ![j] = "leased"]
  /\ lease' = [lease EXCEPT ![j] = h]
  /\ UNCHANGED <<attempt, spent, limit>>

\* The holder's attempt makes progress; an attempt that was lost counts as none.
Report(j, o) ==
  /\ stage[j] = "leased"
  /\ attempt' = [attempt EXCEPT ![j] = o]
  /\ UNCHANGED <<stage, lease, spent, limit>>

Settle(j) ==
  /\ stage[j] = "leased" /\ attempt[j] = "ok"
  /\ Release(j, "done")
  /\ UNCHANGED <<spent, limit>>

Retry(j) ==
  /\ stage[j] = "leased" /\ attempt[j] = "bad" /\ spent[j] < limit[j]
  /\ Release(j, "queued")
  /\ spent' = [spent EXCEPT ![j] = @ + 1]
  /\ UNCHANGED limit

GiveUp(j) ==
  /\ stage[j] = "leased" /\ attempt[j] = "bad" /\ spent[j] = limit[j]
  /\ Release(j, "failed")
  /\ UNCHANGED <<spent, limit>>

\* Recoveries take back all leases of some nodes at once.
Revoke(S) ==
  LET lost == {j \in Job : lease[j] \in S} IN
  /\ stage' = [j \in Job |-> IF j \in lost THEN "queued" ELSE stage[j]]
  /\ lease' = [j \in Job |-> IF j \in lost THEN NoHolder ELSE lease[j]]
  /\ attempt' = [j \in Job |-> IF j \in lost THEN "none" ELSE attempt[j]]
  /\ UNCHANGED <<spent, limit>>

\* Only the holder may put its job off, before it has a result.
Postpone(j) ==
  /\ stage[j] = "leased" /\ attempt[j] = "none"
  /\ Release(j, "queued")
  /\ UNCHANGED <<spent, limit>>

Withdraw(j) ==
  /\ stage[j] \in {"queued", "leased"}
  /\ Release(j, "withdrawn")
  /\ UNCHANGED <<spent, limit>>

Reopen(j) ==
  /\ stage[j] = "failed"
  /\ Release(j, "queued")
  /\ UNCHANGED <<spent, limit>>

\* A job that is deleted is as if it had never been.
Forget(j) ==
  /\ stage[j] # "absent"
  /\ Release(j, "absent")
  /\ spent' = [spent EXCEPT ![j] = 0]
  /\ limit' = [limit EXCEPT ![j] = 0]

LNext ==
  \/ \E j \in Job, r \in Limits : Submit(j, r)
  \/ \E j \in Job, h \in Holder : Grant(j, h)
  \/ \E j \in Job, o \in Outcome : Report(j, o)
  \/ \E j \in Job : Settle(j) \/ Retry(j) \/ GiveUp(j) \/ Postpone(j) \/ Withdraw(j) \/ Reopen(j)
  \/ \E j \in Job : Forget(j)
  \/ \E S \in SUBSET Holder : Revoke(S)

LSpec == LInit /\ [][LNext]_life

-----------------------------------------------------------------------------
\* A lease exists exactly while the job is leased, so no job has two holders and
\* no settled job has one; an outcome is somebody's.
LeaseDiscipline ==
  \A j \in Job :
    /\ lease[j] \in Holder <=> stage[j] = "leased"
    /\ attempt[j] # "none" => stage[j] = "leased"
    /\ spent[j] <= limit[j]
=============================================================================
