---------------------------- MODULE LibraryAudit ----------------------------
(***************************************************************************)
(* The distributed library audit: on every node a LibraryAuditThread that  *)
(* sweeps, completes, rolls up and enumerates runs, and a                  *)
(* LibraryAuditWorkerThread that claims units and probes them in threads   *)
(* (resources/daemon/threads.py, resources/library_audit/), over the       *)
(* library_audit_* tables (resources/daemon/db.py); runs are also created  *)
(* by POST /library/audit (resources/daemon/handler.py).                   *)
(*                                                                         *)
(* One step is one database transaction or one file operation.  A file is  *)
(* known by its condition; every fix is enabled and nothing is a dry run.  *)
(***************************************************************************)
EXTENDS Integers, FiniteSets

CONSTANTS
  Auditor,      \* nodes of the cluster that run the audit threads
  NoAuditor,
  MediaFile,    \* the files under the audited paths
  Library,      \* the libraries considered: functions from MediaFile to Condition
  Twins,        \* sets of files that carry one media id
  BatchSize,    \* units claimed per round trip
  MaxRuns,      \* bound: audit runs created
  AuditBudgets  \* bounds: in one behaviour, how often each disturbance may happen

Condition == {"good", "damaged", "original"}

AuditDisturbance == {"crash", "slow", "api", "raise", "operator", "reload"}

ASSUME AuditAssumption ==
  /\ NoAuditor \notin Auditor
  /\ IsFiniteSet(MediaFile)
  /\ Library \subseteq [MediaFile -> Condition]
  /\ Twins \subseteq SUBSET MediaFile
  /\ BatchSize \in Nat \ {0} /\ MaxRuns \in Nat
  /\ AuditBudgets \subseteq [AuditDisturbance -> Nat]

VARIABLES
  library,   \* the condition of each file when the system starts
  gone,      \* files moved to the recycle bin
  run,       \* library_audit_runs: status, total_units, done_units
  unit,      \* library_audit_queue: <<run, file>> -> status, claimed_by, and
             \* whether claimed_at is older than claim_stale_seconds
  walk,      \* run -> the enumeration in progress: who walks, the files it has
             \* not inserted yet, and how many it inserted
  ids,       \* library_audit_media_ids: <<run, file>>
  finding,   \* library_findings: <<kind, file>> -> status
  queued,    \* files for which a conversion job was added
  lock,      \* holder of the advisory enumeration lock
  sched,     \* auditor -> program counter of its audit thread and the runs it
             \* has completed and not yet rolled up
  task,      \* <<auditor, run, file>> -> stage of the probe thread
  up,        \* auditors whose process runs
  freed,     \* history: units whose claim was released under a live holder
  torn,      \* history: runs that were disturbed while rolled up or enumerated
  budget

tables    == <<run, unit, ids, finding>>
auditVars == <<library, gone, tables, walk, queued, lock, sched, task, up,
               freed, torn, budget>>

RunId    == 1 .. MaxRuns
Unit     == RunId \X MediaFile
Probing  == Auditor \X RunId \X MediaFile
FindingStatus == {"none", "open", "acked", "dismissed", "resolved"}
Found    == {"ffprobe_failed", "preconv_original", "duplicate_id"}
AuditPc  == {"rest", "swept", "rolling", "purging", "looking", "looked",
             "walking"}
Stage    == {"none", "claimed", "clean", "broken", "stale", "queueing",
             "recycling", "fixed"}

\* What follows a verdict: the kind of the finding, and the fix.
KindOf == [broken |-> "ffprobe_failed", stale |-> "preconv_original"]
FixOf  == [broken |-> "queueing", stale |-> "recycling"]

NoUnit == [status |-> "absent", by |-> NoAuditor, old |-> FALSE]
Pending == [status |-> "pending", by |-> NoAuditor, old |-> FALSE]
NoWalk == [by |-> NoAuditor, api |-> FALSE, todo |-> {}, n |-> 0]

-----------------------------------------------------------------------------
(* Reading the tables.                                                     *)

Open(u) == unit[u].status \in {"pending", "claimed"}

UnitsOf(r) == {r} \X MediaFile

ActiveRuns == {r \in RunId : run[r].status \in {"enumerating", "probing"}}

\* Slip: claimed units are forgotten.
FinishedRunsSlip ==
  {r \in RunId : /\ run[r].status = "probing"
                 /\ \A u \in UnitsOf(r) : unit[u].status # "pending"}

\* Runs that complete_finished_audit_runs flips.
FinishedRuns ==
  {r \in RunId : run[r].status = "probing" /\ \A u \in UnitsOf(r) : ~ Open(u)}

Unused == {r \in RunId : run[r].status = "none"}

First(rs) == CHOOSE r \in rs : \A s \in rs : r <= s

\* Slip: HAVING COUNT(*) > 2.
DuplicatesSlip(r) ==
  {f \in MediaFile :
     \E g, h \in MediaFile \ {f} : g # h /\ {<<r, f>>, <<r, g>>, <<r, h>>} \subseteq ids}

\* Paths whose media id was seen at another path of the run too.
Duplicates(r) ==
  {f \in MediaFile :
     \E g \in MediaFile \ {f} :
        /\ {<<r, f>>, <<r, g>>} \subseteq ids
        /\ \E t \in Twins : {f, g} \subseteq t}

\* Slip: finished_at is compared, which a claimed unit does not have yet.
StaleClaimsSlip == {u \in Unit : unit[u].status = "done" /\ unit[u].old}

\* Claims older than claim_stale_seconds.
StaleClaims == {u \in Unit : unit[u].status = "claimed" /\ unit[u].old}

\* Slip: every claim.
ClaimsOfSlip(a) == {u \in Unit : unit[u].status = "claimed"}

\* The claims a node that starts again finds under its own name.
ClaimsOf(a) == {u \in Unit : unit[u].status = "claimed" /\ unit[u].by = a}

Present == MediaFile \ gone

Held(a) == {u \in Unit : task[<<a, u[1], u[2]>>] # "none"}

-----------------------------------------------------------------------------
(* Writing the tables.                                                     *)

\* upsert_finding: a finding that recurs is opened again unless it is acked.
Upsert(fs) ==
  finding' = [k \in DOMAIN finding |->
    IF k \in fs /\ finding[k] \in {"none", "dismissed", "resolved"}
    THEN "open" ELSE finding[k]]

\* Claims given back: by age, or by the node that starts again.
GiveBack(us) == unit' = [u \in Unit |-> IF u \in us THEN Pending ELSE unit[u]]

SetStatus(r, s) == run' = [run EXCEPT ![r].status = s]

Spend(kind) == /\ budget[kind] > 0
               /\ budget' = [budget EXCEPT ![kind] = @ - 1]

AuditInit ==
  /\ library \in Library
  /\ gone = {} /\ ids = {} /\ queued = {} /\ freed = {} /\ torn = {}
  /\ run = [r \in RunId |-> [status |-> "none", total |-> 0, done |-> 0]]
  /\ unit = [u \in Unit |-> NoUnit]
  /\ walk = [r \in RunId |-> NoWalk]
  /\ finding = [k \in Found \X MediaFile |-> "none"]
  /\ lock = NoAuditor
  /\ sched = [a \in Auditor |-> [pc |-> "rest", found |-> {}]]
  /\ task = [p \in Probing |-> "none"]
  /\ up = Auditor
  /\ budget \in AuditBudgets

-----------------------------------------------------------------------------
(* The audit thread: LibraryAuditThread._cycle.                            *)

At(a, pc) == a \in up /\ sched[a].pc = pc

Goto(a, pc) == sched' = [sched EXCEPT ![a].pc = pc]

\* release_stale_audit_claims
SweepStale(a) ==
  /\ At(a, "rest") /\ Goto(a, "swept")
  /\ GiveBack(StaleClaims)
  /\ freed' = freed \cup {u \in StaleClaims : \E b \in up : u \in Held(b)}
  /\ UNCHANGED <<library, gone, run, ids, finding, walk, queued, lock, task, up,
                 torn, budget>>

\* complete_finished_audit_runs; called without the enumeration lock.
CompleteFinished(a) ==
  /\ At(a, "swept")
  /\ run' = [r \in RunId |->
               IF r \in FinishedRuns THEN [run[r] EXCEPT !.status = "completed"]
               ELSE run[r]]
  /\ sched' = [sched EXCEPT ![a] =
       [pc |-> IF FinishedRuns = {} THEN "looking" ELSE "rolling",
        found |-> FinishedRuns]]
  /\ UNCHANGED <<library, gone, unit, ids, finding, walk, queued, lock, task, up,
                 freed, torn, budget>>

\* rollup_duplicate_ids of the runs just completed, in order: the read and the
\* findings it leads to, then the scratch rows.
RollUp(a) ==
  /\ At(a, "rolling") /\ Goto(a, "purging")
  /\ Upsert({"duplicate_id"} \X Duplicates(First(sched[a].found)))
  /\ UNCHANGED <<library, gone, run, unit, ids, walk, queued, lock, task, up,
                 freed, torn, budget>>

Purge(a) ==
  LET r == First(sched[a].found) IN
  /\ At(a, "purging")
  /\ ids' = ids \ UnitsOf(r)
  /\ sched' = [sched EXCEPT ![a] =
       [pc |-> IF @.found = {r} THEN "looking" ELSE "rolling",
        found |-> @.found \ {r}]]
  /\ UNCHANGED <<library, gone, run, unit, finding, walk, queued, lock, task, up,
                 freed, torn, budget>>

\* list_active_audit_runs: a cycle that finds one leaves it to the workers.
Look(a) ==
  /\ At(a, "looking")
  /\ Goto(a, IF ActiveRuns # {} THEN "rest" ELSE "looked")
  /\ UNCHANGED <<library, gone, tables, walk, queued, lock, task, up, freed, torn,
                 budget>>

\* create_audit_run; enumerate_paths then yields what is on disk.
Begin(a, api) ==
  LET r == First(Unused) IN
  /\ run' = [run EXCEPT ![r].status = "enumerating"]
  /\ walk' = [walk EXCEPT ![r] = [by |-> a, api |-> api, todo |-> Present, n |-> 0]]

\* try_acquire_audit_enumerate_lock and the new run; the runs in progress are not
\* looked at again.
StartRun(a) ==
  /\ At(a, "looked")
  /\ IF lock = NoAuditor /\ Unused # {}
     THEN lock' = a /\ Goto(a, "walking") /\ Begin(a, FALSE)
     ELSE Goto(a, "rest") /\ UNCHANGED <<lock, run, walk>>
  /\ UNCHANGED <<library, gone, unit, ids, finding, queued, task, up, freed, torn,
                 budget>>

\* POST /library/audit: no lock, no look at the runs in progress.
ApiTrigger(a) ==
  /\ a \in up /\ Spend("api")
  /\ Unused # {} /\ Begin(a, TRUE)
  /\ UNCHANGED <<library, gone, unit, ids, finding, queued, lock, sched, task, up,
                 freed, torn>>

\* enqueue_audit_units: one batch, and the status is set whatever it was.
EnqueueUnits(r, fs) ==
  /\ walk[r].by \in up
  /\ fs # {} /\ fs \subseteq walk[r].todo
  /\ unit' = [u \in Unit |-> IF u \in {r} \X fs THEN Pending ELSE unit[u]]
  /\ run' = [run EXCEPT ![r].total = @ + Cardinality(fs), ![r].status = "probing"]
  /\ walk' = [walk EXCEPT ![r].todo = @ \ fs, ![r].n = @ + Cardinality(fs)]
  /\ torn' = IF run[r].status = "completed" THEN torn \cup {r} ELSE torn
  /\ UNCHANGED <<library, gone, ids, finding, queued, lock, sched, task, up, freed,
                 budget>>

\* The walk of r is over; the scheduled one gives the lock back.
EndWalk(r) ==
  /\ walk' = [walk EXCEPT ![r] = NoWalk]
  /\ IF walk[r].api THEN UNCHANGED <<lock, sched>>
     ELSE lock' = NoAuditor /\ Goto(walk[r].by, "rest")

FinishWalk(r) ==
  /\ walk[r].by \in up /\ walk[r].todo = {}
  /\ EndWalk(r)
  /\ IF walk[r].n = 0 THEN SetStatus(r, "completed") ELSE UNCHANGED run
  /\ UNCHANGED <<library, gone, unit, ids, finding, queued, task, up, freed, torn,
                 budget>>

\* An exception while enumerating: only the API's thread marks the run failed.
FailWalk(r) ==
  /\ walk[r].by \in up /\ Spend("raise")
  /\ EndWalk(r)
  /\ IF walk[r].api THEN SetStatus(r, "failed") ELSE UNCHANGED run
  /\ UNCHANGED <<library, gone, unit, ids, finding, queued, task, up, freed, torn>>

-----------------------------------------------------------------------------
(* The audit worker: claims, and one thread per claimed unit.              *)

\* claim_audit_units; a worker claims again when its threads have ended.
ClaimUnits(a, r, fs) ==
  /\ a \in up /\ Held(a) = {} /\ r \in ActiveRuns
  /\ fs # {} /\ Cardinality(fs) <= BatchSize
  /\ \A f \in fs : unit[<<r, f>>].status = "pending"
  /\ unit' = [u \in Unit |->
       IF u \in {r} \X fs THEN [status |-> "claimed", by |-> a, old |-> FALSE]
       ELSE unit[u]]
  /\ task' = [p \in Probing |-> IF p \in {a} \X {r} \X fs THEN "claimed" ELSE task[p]]
  /\ UNCHANGED <<library, gone, run, ids, finding, walk, queued, lock, sched, up,
                 freed, torn, budget>>

\* What AuditEngine.probe_one makes of a file: a recycled one is "missing", and an
\* original whose sibling is there is stale.
Verdict(f) ==
  IF f \in gone \/ library[f] = "damaged" THEN "broken"
  ELSE IF library[f] = "original" THEN "stale" ELSE "clean"

\* probe_one; a readable file's media id is recorded on the way.
Probe(a, r, f) ==
  /\ task[<<a, r, f>>] = "claimed"
  /\ task' = [task EXCEPT ![<<a, r, f>>] = Verdict(f)]
  /\ ids' = IF Verdict(f) = "clean" THEN ids \cup {<<r, f>>} ELSE ids
  /\ UNCHANGED <<library, gone, run, unit, finding, walk, queued, lock, sched, up,
                 freed, torn, budget>>

\* The finding is written, with its kind; then it is fixed.
Report(a, r, f) ==
  LET stage == task[<<a, r, f>>] IN
  /\ stage \in DOMAIN KindOf
  /\ Upsert({<<KindOf[stage], f>>})
  /\ task' = [task EXCEPT ![<<a, r, f>>] = FixOf[stage]]
  /\ UNCHANGED <<library, gone, run, unit, ids, walk, queued, lock, sched, up,
                 freed, torn, budget>>

\* maybe_auto_fix: add_job for what ffprobe cannot read, the recycle bin for an
\* original that is still there.
Fix(a, r, f) ==
  LET stage == task[<<a, r, f>>] IN
  /\ stage \in {"queueing", "recycling"}
  /\ queued' = IF stage = "queueing" THEN queued \cup {f} ELSE queued
  /\ gone' = IF stage = "recycling" THEN gone \cup {f} ELSE gone
  /\ task' = [task EXCEPT ![<<a, r, f>>] = "fixed"]
  /\ UNCHANGED <<library, tables, walk, lock, sched, up, freed, torn, budget>>

\* mark_audit_unit_done: no test of the unit's status or of who holds it.
MarkDone(a, u, status) ==
  /\ unit' = [unit EXCEPT ![u].status = status]
  /\ run' = [run EXCEPT ![u[1]].done = @ + 1]
  /\ task' = [task EXCEPT ![<<a, u[1], u[2]>>] = "none"]

\* Stages after which _process_unit marks the unit.
Processed == {"clean", "fixed"}

Finish(a, r, f) ==
  /\ task[<<a, r, f>>] \in Processed
  /\ MarkDone(a, <<r, f>>, "done")
  /\ UNCHANGED <<library, gone, ids, finding, walk, queued, lock, sched, up, freed,
                 torn, budget>>

\* A database call of _process_unit raises, at any stage.
ProbeError(a, r, f) ==
  /\ task[<<a, r, f>>] # "none" /\ Spend("raise")
  /\ MarkDone(a, <<r, f>>, "error")
  /\ UNCHANGED <<library, gone, ids, finding, walk, queued, lock, sched, up, freed,
                 torn>>

\* ... and marking the unit raises too: the thread ends, the claim stays.
LoseUnit(a, r, f) ==
  /\ task[<<a, r, f>>] # "none" /\ Spend("raise")
  /\ task' = [task EXCEPT ![<<a, r, f>>] = "none"]
  /\ UNCHANGED <<library, gone, tables, walk, queued, lock, sched, up, freed, torn>>

-----------------------------------------------------------------------------
(* Time, crashes, the operator.                                            *)

Probed(a, u) == a \in up /\ task[<<a, u[1], u[2]>>] # "none"

\* A claim passes claim_stale_seconds; under a live probe only when that is slow.
Age(u) ==
  /\ unit[u].status = "claimed" /\ ~ unit[u].old
  /\ unit' = [unit EXCEPT ![u].old = TRUE]
  /\ IF Probed(unit[u].by, u) THEN Spend("slow") ELSE UNCHANGED budget
  /\ UNCHANGED <<library, gone, run, ids, finding, walk, queued, lock, sched, task,
                 up, freed, torn>>

\* The process ends: its threads, and the session that holds the lock.
AuditCrash(a) ==
  /\ a \in up /\ Spend("crash")
  /\ up' = up \ {a}
  /\ task' = [p \in Probing |-> IF p[1] = a THEN "none" ELSE task[p]]
  /\ sched' = [sched EXCEPT ![a] = [pc |-> "rest", found |-> {}]]
  /\ walk' = [r \in RunId |-> IF walk[r].by = a THEN NoWalk ELSE walk[r]]
  /\ lock' = IF lock = a THEN NoAuditor ELSE lock
  /\ torn' = torn \cup sched[a].found
  /\ UNCHANGED <<library, gone, tables, queued, freed>>

\* requeue_audit_claims_for_node when the worker thread starts.
AuditRestart(a) ==
  /\ a \notin up
  /\ up' = up \cup {a}
  /\ GiveBack(ClaimsOf(a))
  /\ UNCHANGED <<library, gone, run, ids, finding, walk, queued, lock, sched, task,
                 freed, torn, budget>>

\* A reload replaces the audit threads: the walk under way stops after a batch, and
\* the new worker gives back the claims of its node although threads of the old one
\* still probe (it is taken to claim only once they have ended).
StopWalk(r) ==
  /\ walk[r].by \in up /\ ~ walk[r].api /\ walk[r].n > 0 /\ Spend("reload")
  /\ EndWalk(r)
  /\ UNCHANGED <<library, gone, tables, queued, task, up, freed, torn>>

ReplaceWorker(a) ==
  /\ a \in up /\ Spend("reload")
  /\ GiveBack(ClaimsOf(a))
  /\ freed' = freed \cup (ClaimsOf(a) \cap Held(a))
  /\ UNCHANGED <<library, gone, run, ids, finding, walk, queued, lock, sched, task,
                 up, torn>>

\* POST /library/findings/<id>/ack, dismiss, resolve.
SetFindingStatus(k, status) ==
  /\ finding[k] # "none" /\ Spend("operator")
  /\ finding' = [finding EXCEPT ![k] = status]
  /\ UNCHANGED <<library, gone, run, unit, ids, walk, queued, lock, sched, task, up,
                 freed, torn>>

-----------------------------------------------------------------------------
Cycle(a) ==
  \/ SweepStale(a)
  \/ CompleteFinished(a)
  \/ RollUp(a)
  \/ Purge(a)
  \/ Look(a)
  \/ StartRun(a)

Enumerate(r) ==
  \/ \E fs \in SUBSET MediaFile : EnqueueUnits(r, fs)
  \/ FinishWalk(r)

Work(a, r, f) ==
  \/ Probe(a, r, f)
  \/ Report(a, r, f)
  \/ Fix(a, r, f)
  \/ Finish(a, r, f)

Claiming(a) == \E r \in RunId, fs \in SUBSET MediaFile : ClaimUnits(a, r, fs)

Disturbed ==
  \/ \E a \in Auditor : ApiTrigger(a) \/ AuditCrash(a) \/ ReplaceWorker(a)
  \/ \E r \in RunId : FailWalk(r) \/ StopWalk(r)
  \/ \E a \in Auditor, r \in RunId, f \in MediaFile :
        ProbeError(a, r, f) \/ LoseUnit(a, r, f)
  \/ \E k \in Found \X MediaFile, s \in {"acked", "dismissed", "resolved"} :
        SetFindingStatus(k, s)

AuditNext ==
  \/ \E a \in Auditor : Cycle(a) \/ Claiming(a) \/ AuditRestart(a)
  \/ \E r \in RunId : Enumerate(r)
  \/ \E a \in Auditor, r \in RunId, f \in MediaFile : Work(a, r, f)
  \/ \E u \in Unit : Age(u)
  \/ Disturbed

\* Threads run and time passes; nothing that disturbs them has to happen, and a
\* node that is down need not come back.
AuditFairness ==
  /\ \A a \in Auditor : WF_auditVars(Cycle(a)) /\ WF_auditVars(Claiming(a))
  /\ \A r \in RunId : WF_auditVars(Enumerate(r))
  /\ \A a \in Auditor, r \in RunId, f \in MediaFile : WF_auditVars(Work(a, r, f))
  /\ \A u \in Unit : WF_auditVars(Age(u) /\ ~ Probed(unit[u].by, u))

AuditSpec == AuditInit /\ [][AuditNext]_auditVars /\ AuditFairness

-----------------------------------------------------------------------------
(* Properties.                                                             *)

\* Rows and threads are well formed, and a pending unit names no holder.
AuditTypeOK ==
  /\ library \in [MediaFile -> Condition] /\ gone \subseteq MediaFile
  /\ run \in [RunId -> [status : {"none", "enumerating", "probing", "completed",
                                  "failed"}, total : Nat, done : Nat]]
  /\ unit \in [Unit -> [status : {"absent", "pending", "claimed", "done", "error"},
                        by : Auditor \cup {NoAuditor}, old : BOOLEAN]]
  /\ \A u \in Unit : unit[u].status = "pending" => unit[u].by = NoAuditor
  /\ walk \in [RunId -> [by : Auditor \cup {NoAuditor}, api : BOOLEAN,
                         todo : SUBSET MediaFile, n : Nat]]
  /\ ids \subseteq Unit /\ freed \subseteq Unit /\ torn \subseteq RunId
  /\ finding \in [Found \X MediaFile -> FindingStatus]
  /\ queued \subseteq MediaFile /\ up \subseteq Auditor
  /\ lock \in Auditor \cup {NoAuditor}
  /\ sched \in [Auditor -> [pc : AuditPc, found : SUBSET RunId]]
  /\ task \in [Probing -> Stage]
  /\ budget \in [AuditDisturbance -> Nat]

\* A run that reads completed has no unit left to probe, although every node
\* completes runs without the lock and a walk may still insert units
\* (complete_finished_audit_runs against enqueue_audit_units).
CompletedMeansProbed ==
  \A r \in RunId : run[r].status = "completed" => \A u \in UnitsOf(r) : ~ Open(u)

\* Unless a unit's claim is taken from a live holder for its age, at most one thread of
\* the cluster probes it, and done_units is the number of units that ended
\* (claim_audit_units, release_stale_audit_claims, mark_audit_unit_done).
CountedOnce ==
  /\ \A u \in Unit : u \notin freed => Cardinality({a \in Auditor : u \in Held(a)}) <= 1
  /\ \A r \in RunId :
       LET ended == {u \in UnitsOf(r) : unit[u].status \in {"done", "error"}} IN
       UnitsOf(r) \cap freed = {} => run[r].done = Cardinality(ended)

\* A unit that ends without an error has its damage reported: the finding is
\* written before the unit is marked, through every crash and retry.
DamageReported ==
  \A r \in RunId, f \in MediaFile :
     /\ unit[<<r, f>>].status = "done"
     /\ library[f] = "damaged"
     => finding[<<"ffprobe_failed", f>>] # "none" /\ f \in queued

\* Once a run is rolled up, files with one media id that it probed are reported,
\* unless it was reopened by a late batch, its roll-up was cut short, or a unit of
\* it was probed twice (rollup_duplicate_ids, purge_audit_media_ids).
RolledUp(r) ==
  /\ run[r].status = "completed"
  /\ \A a \in Auditor : r \notin sched[a].found

TwinsFound(r) ==
  \A t \in Twins, f \in MediaFile, g \in MediaFile :
     /\ {f, g} \subseteq t /\ f # g /\ library[f] = "good" /\ library[g] = "good"
     /\ unit[<<r, f>>].status = "done" /\ unit[<<r, g>>].status = "done"
     => finding[<<"duplicate_id", f>>] # "none"

DuplicatesReported ==
  \A r \in RunId :
     RolledUp(r) /\ r \notin torn /\ UnitsOf(r) \cap freed = {} => TwinsFound(r)

\* What a finished audit owes: the damage it saw and the duplicates it can know of
\* (record_audit_finding, rollup_duplicate_ids).
DefectsReported == DamageReported /\ DuplicatesReported

\* docs/library-audit.md: a media id at two paths within one run is a finding.
EveryDuplicateReported == \A r \in RunId : RolledUp(r) => TwinsFound(r)

\* docs/library-audit.md: ffprobe_failed means that FFprobe cannot read the file.
OnlyDamageReported ==
  \A f \in MediaFile :
     finding[<<"ffprobe_failed", f>>] # "none" => library[f] = "damaged"

\* A run with units to probe is completed, although a node crashes, a claim goes
\* stale or a unit is lost.
RunsEnd ==
  \A r \in RunId : run[r].status = "probing" ~> run[r].status \in {"completed", "failed"}

=============================================================================
