------------------------- MODULE LibraryAuditProofs -------------------------
(***************************************************************************)
(* AuditTypeOK, CompletedMeansProbed, CountedOnce and DefectsReported for  *)
(* any number of nodes and runs and any library.                           *)
(*                                                                         *)
(* Types: the rows are opaque; what may be in one, and what an update      *)
(* leaves of it, is a lemma on each.  The rest: a claim that was not taken *)
(* from its holder names the one thread that probes its unit; a walk adds  *)
(* only units that are not there, and a run that has one more batch to     *)
(* come is told so by its status; and a file's media id stays with its run *)
(* until whoever completed the run has reported the duplicates.            *)
(***************************************************************************)
EXTENDS LibraryAudit, NumberFacts

-----------------------------------------------------------------------------
\* The first of some runs is one of them.
LEMMA FirstRun ==
  ASSUME NEW rs \in SUBSET RunId, rs # {}
  PROVE  First(rs) \in rs
<1>1. rs \in SUBSET Nat
  BY AuditAssumption DEF RunId
<1>2. \E r \in rs : \A s \in rs : r <= s
  BY <1>1, LeastNumber
<1>. QED BY <1>2 DEF First

LEMMA FilesCounted ==
  ASSUME NEW fs \in SUBSET MediaFile
  PROVE  Cardinality(fs) \in Nat /\ IsFiniteSet(fs)
BY AuditAssumption, FS_Subset, FS_CardinalityType

-----------------------------------------------------------------------------
(* Types.  The rows of the tables are typed one by one.                    *)

RunRow  == [status : {"none", "enumerating", "probing", "completed", "failed"},
            total : Nat, done : Nat]
UnitRow == [status : {"absent", "pending", "claimed", "done", "error"},
            by : Auditor \cup {NoAuditor}, old : BOOLEAN]
WalkRow == [by : Auditor \cup {NoAuditor}, api : BOOLEAN, todo : SUBSET MediaFile, n : Nat]
Plan    == [pc : AuditPc, found : SUBSET RunId]

TablesTyped ==
  /\ run \in [RunId -> RunRow]
  /\ unit \in [Unit -> UnitRow]
  /\ \A u \in Unit : unit[u].status = "pending" => unit[u].by = NoAuditor
  /\ ids \subseteq Unit
  /\ finding \in [Found \X MediaFile -> FindingStatus]

ThreadsTyped ==
  /\ walk \in [RunId -> WalkRow]
  /\ sched \in [Auditor -> Plan]
  /\ task \in [Probing -> Stage]
  /\ up \subseteq Auditor /\ lock \in Auditor \cup {NoAuditor}

WorldTyped ==
  /\ library \in [MediaFile -> Condition] /\ gone \subseteq MediaFile
  /\ queued \subseteq MediaFile /\ freed \subseteq Unit /\ torn \subseteq RunId
  /\ budget \in [AuditDisturbance -> Nat]

LEMMA TypesSplit == AuditTypeOK <=> TablesTyped /\ ThreadsTyped /\ WorldTyped
BY DEF AuditTypeOK, TablesTyped, ThreadsTyped, WorldTyped, RunRow, UnitRow, WalkRow, Plan

LEMMA UnitRows ==
  /\ NoUnit \in UnitRow /\ Pending \in UnitRow
  /\ \A a \in Auditor : [status |-> "claimed", by |-> a, old |-> FALSE] \in UnitRow
  /\ \A x \in UnitRow, s \in {"done", "error"} :
       /\ [x EXCEPT !.status = s] \in UnitRow
       /\ [x EXCEPT !.status = s].status = s /\ [x EXCEPT !.status = s].by = x.by
  /\ \A x \in UnitRow :
       /\ [x EXCEPT !.old = TRUE] \in UnitRow
       /\ [x EXCEPT !.old = TRUE].status = x.status /\ [x EXCEPT !.old = TRUE].by = x.by
BY DEF UnitRow, NoUnit, Pending

LEMMA RunRows ==
  /\ [status |-> "none", total |-> 0, done |-> 0] \in RunRow
  /\ \A x \in RunRow : x.total \in Nat /\ x.done \in Nat
  /\ \A x \in RunRow, s \in {"enumerating", "completed", "failed"} :
       [x EXCEPT !.status = s] \in RunRow
  /\ \A x \in RunRow, k \in Nat : [x EXCEPT !.done = k] \in RunRow
  /\ \A x \in RunRow, k \in Nat : [x EXCEPT !.total = k, !.status = "probing"] \in RunRow
<1>1. \A x \in RunRow : x.total \in Nat /\ x.done \in Nat
  BY DEF RunRow
<1>2. [status |-> "none", total |-> 0, done |-> 0] \in RunRow
  BY DEF RunRow
<1>. QED BY <1>1, <1>2, Zenon DEF RunRow

LEMMA WalkRows ==
  /\ NoWalk \in WalkRow
  /\ \A a \in Auditor, api \in BOOLEAN, fs \in SUBSET MediaFile :
       [by |-> a, api |-> api, todo |-> fs, n |-> 0] \in WalkRow
  /\ \A x \in WalkRow, fs \in SUBSET MediaFile, k \in Nat :
       [x EXCEPT !.todo = fs, !.n = k] \in WalkRow
  /\ \A x \in WalkRow : x.n \in Nat /\ x.todo \subseteq MediaFile
<1>1. 0 \in Nat /\ NoAuditor \in Auditor \cup {NoAuditor} /\ {} \in SUBSET MediaFile
  OBVIOUS
<1>. QED BY <1>1, Zenon DEF WalkRow, NoWalk

LEMMA Plans ==
  /\ \A pc \in AuditPc, rs \in SUBSET RunId : [pc |-> pc, found |-> rs] \in Plan
  /\ \A x \in Plan, pc \in AuditPc : [x EXCEPT !.pc = pc] \in Plan
  /\ \A x \in Plan : x.found \subseteq RunId
BY DEF Plan

-----------------------------------------------------------------------------
(* What the helpers of the actions keep.                                   *)

LEMMA SpendTyped ==
  ASSUME WorldTyped, NEW kind \in AuditDisturbance, Spend(kind)
  PROVE  budget' \in [AuditDisturbance -> Nat]
<1>1. budget[kind] \in Nat /\ budget[kind] > 0
  BY DEF Spend, WorldTyped
<1>2. budget[kind] - 1 \in Nat
  BY <1>1
<1>. QED BY <1>2, Zenon DEF Spend, WorldTyped

LEMMA GiveBackTyped ==
  ASSUME TablesTyped, NEW us, GiveBack(us)
  PROVE  /\ unit' \in [Unit -> UnitRow]
         /\ \A u \in Unit : unit'[u] = IF u \in us THEN Pending ELSE unit[u]
         /\ \A u \in Unit : unit'[u].status = "pending" => unit'[u].by = NoAuditor
<1>1. \A u \in Unit : unit'[u] = IF u \in us THEN Pending ELSE unit[u]
  BY DEF GiveBack
<1>2. unit' \in [Unit -> UnitRow]
  BY UnitRows DEF GiveBack, TablesTyped
<1>3. Pending.by = NoAuditor
  BY DEF Pending
<1>. QED BY <1>1, <1>2, <1>3 DEF TablesTyped

LEMMA UpsertTyped ==
  ASSUME TablesTyped, NEW fs, Upsert(fs)
  PROVE  /\ finding' \in [Found \X MediaFile -> FindingStatus]
         /\ \A k \in Found \X MediaFile :
              (finding[k] # "none" => finding'[k] # "none") /\ (k \in fs => finding'[k] # "none")
<1>1. \A k \in Found \X MediaFile :
        finding'[k] = IF k \in fs /\ finding[k] \in {"none", "dismissed", "resolved"}
                      THEN "open" ELSE finding[k]
  BY DEF Upsert, TablesTyped
<1>2. DOMAIN finding' = Found \X MediaFile /\ finding' = [k \in DOMAIN finding' |-> finding'[k]]
  BY DEF Upsert, TablesTyped
<1>3. \A k \in Found \X MediaFile : finding[k] \in FindingStatus /\ "open" \in FindingStatus
  BY DEF TablesTyped, FindingStatus
<1>4. \A k \in Found \X MediaFile : finding'[k] \in FindingStatus
  BY <1>1, <1>3
<1>5. finding' \in [Found \X MediaFile -> FindingStatus]
  BY <1>2, <1>4
<1>6. \A k \in Found \X MediaFile :
        (finding[k] # "none" => finding'[k] # "none") /\ (k \in fs => finding'[k] # "none")
  BY <1>1, <1>3 DEF FindingStatus
<1>. QED BY <1>5, <1>6

LEMMA SetStatusTyped ==
  ASSUME TablesTyped, NEW r \in RunId, NEW s \in {"completed", "failed"}, SetStatus(r, s)
  PROVE  /\ run' \in [RunId -> RunRow]
         /\ run'[r].status = s /\ run'[r].done = run[r].done
         /\ \A q \in RunId \ {r} : run'[q] = run[q]
<1>1. run' = [run EXCEPT ![r] = [run[r] EXCEPT !.status = s]]
  BY DEF SetStatus
<1>2. run[r] \in RunRow /\ run \in [RunId -> RunRow]
  BY DEF TablesTyped
<1>3. /\ [run[r] EXCEPT !.status = s] \in RunRow
      /\ [run[r] EXCEPT !.status = s].status = s
      /\ [run[r] EXCEPT !.status = s].done = run[r].done
  BY <1>2 DEF RunRow
<1>. QED BY <1>1, <1>2, <1>3

\* A run that begins was not used before, and a walk goes over what is there.
LEMMA BeginTyped ==
  ASSUME TablesTyped, ThreadsTyped, WorldTyped, Unused # {},
         NEW a \in Auditor, NEW api \in BOOLEAN, Begin(a, api)
  PROVE  \E r \in RunId :
           /\ r = First(Unused) /\ run[r].status = "none"
           /\ run' \in [RunId -> RunRow] /\ walk' \in [RunId -> WalkRow]
           /\ run'[r].status = "enumerating" /\ run'[r].done = run[r].done
           /\ walk'[r] = [by |-> a, api |-> api, todo |-> Present, n |-> 0]
           /\ \A q \in RunId \ {r} : run'[q] = run[q] /\ walk'[q] = walk[q]
<1>. DEFINE r == First(Unused)
<1>1. r \in RunId /\ run[r].status = "none"
  BY FirstRun DEF Unused
<1>2. Present \in SUBSET MediaFile
  BY DEF Present
<1>3. [by |-> a, api |-> api, todo |-> Present, n |-> 0] \in WalkRow
  BY <1>2, WalkRows
<1>. HIDE DEF r
<1>4. /\ run' = [run EXCEPT ![r] = [run[r] EXCEPT !.status = "enumerating"]]
      /\ walk' = [walk EXCEPT ![r] = [by |-> a, api |-> api, todo |-> Present, n |-> 0]]
  BY DEF Begin, r
<1>5. [run[r] EXCEPT !.status = "enumerating"] \in RunRow
  BY <1>1, RunRows DEF TablesTyped
<1>6. /\ [run[r] EXCEPT !.status = "enumerating"].status = "enumerating"
      /\ [run[r] EXCEPT !.status = "enumerating"].done = run[r].done
  BY <1>1 DEF TablesTyped, RunRow
<1>7. /\ run' \in [RunId -> RunRow] /\ walk' \in [RunId -> WalkRow]
      /\ run'[r] = [run[r] EXCEPT !.status = "enumerating"]
      /\ walk'[r] = [by |-> a, api |-> api, todo |-> Present, n |-> 0]
      /\ \A q \in RunId \ {r} : run'[q] = run[q] /\ walk'[q] = walk[q]
  BY <1>1, <1>3, <1>4, <1>5 DEF TablesTyped, ThreadsTyped
<1>. QED BY <1>1, <1>6, <1>7 DEF r

LEMMA EndWalkTyped ==
  ASSUME ThreadsTyped, NEW r \in RunId, walk[r].by \in Auditor, EndWalk(r)
  PROVE  /\ walk' \in [RunId -> WalkRow] /\ sched' \in [Auditor -> Plan]
         /\ lock' \in Auditor \cup {NoAuditor}
         /\ walk'[r] = NoWalk /\ \A q \in RunId \ {r} : walk'[q] = walk[q]
         /\ \A a \in Auditor : sched'[a].found = sched[a].found
         /\ IF walk[r].api THEN sched' = sched
            ELSE /\ sched'[walk[r].by].pc = "rest"
                 /\ \A a \in Auditor \ {walk[r].by} : sched'[a] = sched[a]
<1>1. walk' \in [RunId -> WalkRow] /\ walk'[r] = NoWalk /\ \A q \in RunId \ {r} : walk'[q] = walk[q]
  BY WalkRows DEF EndWalk, ThreadsTyped
<1>2. CASE walk[r].api
  BY <1>1, <1>2 DEF EndWalk, ThreadsTyped
<1>3. CASE ~ walk[r].api
  <2>. DEFINE b == walk[r].by
  <2>1. lock' = NoAuditor /\ sched' = [sched EXCEPT ![b] = [sched[b] EXCEPT !.pc = "rest"]]
    BY <1>3 DEF EndWalk, Goto
  <2>2. b \in Auditor /\ sched[b] \in Plan
    BY DEF ThreadsTyped
  <2>. HIDE DEF b
  <2>3. /\ [sched[b] EXCEPT !.pc = "rest"] \in Plan
        /\ [sched[b] EXCEPT !.pc = "rest"].pc = "rest"
        /\ [sched[b] EXCEPT !.pc = "rest"].found = sched[b].found
    BY <2>2 DEF Plan, AuditPc
  <2>4. /\ sched' \in [Auditor -> Plan] /\ sched'[b] = [sched[b] EXCEPT !.pc = "rest"]
        /\ \A a \in Auditor \ {b} : sched'[a] = sched[a]
    BY <2>1, <2>2, <2>3 DEF ThreadsTyped
  <2>. QED BY <1>1, <1>3, <2>1, <2>3, <2>4 DEF b
<1>. QED BY <1>2, <1>3

LEMMA GotoTyped ==
  ASSUME ThreadsTyped, NEW a \in Auditor, NEW pc \in AuditPc, Goto(a, pc)
  PROVE  /\ sched' \in [Auditor -> Plan]
         /\ sched'[a].pc = pc /\ sched'[a].found = sched[a].found
         /\ \A b \in Auditor \ {a} : sched'[b] = sched[b]
<1>1. /\ [sched[a] EXCEPT !.pc = pc] \in Plan
      /\ [sched[a] EXCEPT !.pc = pc].pc = pc /\ [sched[a] EXCEPT !.pc = pc].found = sched[a].found
  BY DEF Plan, ThreadsTyped
<1>2. sched' = [sched EXCEPT ![a] = [sched[a] EXCEPT !.pc = pc]]
  BY DEF Goto
<1>. QED BY <1>1, <1>2 DEF ThreadsTyped

LEMMA MarkDoneTyped ==
  ASSUME TablesTyped, ThreadsTyped, NEW a \in Auditor, NEW r \in RunId, NEW f \in MediaFile,
         NEW s \in {"done", "error"}, MarkDone(a, <<r, f>>, s)
  PROVE  /\ unit' \in [Unit -> UnitRow] /\ run' \in [RunId -> RunRow]
         /\ task' \in [Probing -> Stage]
         /\ unit'[<<r, f>>].status = s
         /\ \A u \in Unit \ {<<r, f>>} : unit'[u] = unit[u]
         /\ run'[r].status = run[r].status /\ run'[r].done = run[r].done + 1
         /\ \A q \in RunId \ {r} : run'[q] = run[q]
         /\ task'[<<a, r, f>>] = "none"
         /\ \A p \in Probing \ {<<a, r, f>>} : task'[p] = task[p]
<1>. DEFINE u == <<r, f>>
            p == <<a, r, f>>
<1>1. u \in Unit /\ p \in Probing /\ u[1] = r /\ u[2] = f
  BY DEF Unit, Probing
<1>2. /\ unit' = [unit EXCEPT ![u] = [unit[u] EXCEPT !.status = s]]
      /\ run' = [run EXCEPT ![r] = [run[r] EXCEPT !.done = run[r].done + 1]]
      /\ task' = [task EXCEPT ![p] = "none"]
  BY DEF MarkDone
<1>. HIDE DEF u, p
<1>3. unit[u] \in UnitRow /\ run[r] \in RunRow
  BY <1>1 DEF TablesTyped
<1>9. run[r].done \in Nat
  BY <1>3, RunRows
<1>10. run[r].done + 1 \in Nat
  BY <1>9
<1>4. [unit[u] EXCEPT !.status = s] \in UnitRow /\ [unit[u] EXCEPT !.status = s].status = s
  BY <1>3 DEF UnitRow
<1>5. /\ [run[r] EXCEPT !.done = run[r].done + 1] \in RunRow
      /\ [run[r] EXCEPT !.done = run[r].done + 1].done = run[r].done + 1
      /\ [run[r] EXCEPT !.done = run[r].done + 1].status = run[r].status
  BY <1>3, <1>10 DEF RunRow
<1>6. task' \in [Probing -> Stage] /\ task'[p] = "none" /\ \A q \in Probing \ {p} : task'[q] = task[q]
  BY <1>1, <1>2 DEF ThreadsTyped, Stage
<1>7. /\ unit' \in [Unit -> UnitRow] /\ unit'[u] = [unit[u] EXCEPT !.status = s]
      /\ \A v \in Unit \ {u} : unit'[v] = unit[v]
  BY <1>1, <1>2, <1>4 DEF TablesTyped
<1>8. /\ run' \in [RunId -> RunRow] /\ run'[r] = [run[r] EXCEPT !.done = run[r].done + 1]
      /\ \A q \in RunId \ {r} : run'[q] = run[q]
  BY <1>2, <1>5 DEF TablesTyped
<1>. QED BY <1>4, <1>5, <1>6, <1>7, <1>8 DEF u, p

\* One batch of a walk.
LEMMA EnqueueTyped ==
  ASSUME TablesTyped, ThreadsTyped, NEW r \in RunId, NEW fs \in SUBSET MediaFile, EnqueueUnits(r, fs)
  PROVE  /\ unit' \in [Unit -> UnitRow] /\ run' \in [RunId -> RunRow] /\ walk' \in [RunId -> WalkRow]
         /\ \A u \in Unit : unit'[u] = IF u \in {r} \X fs THEN Pending ELSE unit[u]
         /\ run'[r].status = "probing" /\ run'[r].done = run[r].done
         /\ walk'[r].by = walk[r].by /\ walk'[r].todo = walk[r].todo \ fs
         /\ walk'[r].api = walk[r].api /\ walk'[r].n # 0
         /\ \A q \in RunId \ {r} : run'[q] = run[q] /\ walk'[q] = walk[q]
<1>1. Cardinality(fs) \in Nat /\ Cardinality(fs) # 0
  BY FilesCounted, FS_EmptySet DEF EnqueueUnits
<1>2. run[r] \in RunRow /\ walk[r] \in WalkRow
  BY DEF TablesTyped, ThreadsTyped
<1>. DEFINE t == run[r].total + Cardinality(fs)
            m == walk[r].n + Cardinality(fs)
            d == walk[r].todo \ fs
<1>12. run[r].total \in Nat /\ walk[r].n \in Nat /\ walk[r].todo \subseteq MediaFile
  BY <1>2, RunRows, WalkRows, Zenon
<1>3. t \in Nat /\ m \in Nat /\ m # 0 /\ d \in SUBSET MediaFile
  BY <1>1, <1>12
<1>4. /\ run' = [run EXCEPT ![r] = [run[r] EXCEPT !.total = t, !.status = "probing"]]
      /\ walk' = [walk EXCEPT ![r] = [walk[r] EXCEPT !.todo = d, !.n = m]]
  BY <1>2 DEF EnqueueUnits, TablesTyped, ThreadsTyped, RunRow, WalkRow
<1>. HIDE DEF t, m, d
<1>5. [run[r] EXCEPT !.total = t, !.status = "probing"] \in RunRow
  BY <1>2, <1>3, RunRows
<1>6. [walk[r] EXCEPT !.todo = d, !.n = m] \in WalkRow
  BY <1>2, <1>3, WalkRows
<1>7. /\ run' \in [RunId -> RunRow] /\ walk' \in [RunId -> WalkRow]
      /\ run'[r] = [run[r] EXCEPT !.total = t, !.status = "probing"]
      /\ walk'[r] = [walk[r] EXCEPT !.todo = d, !.n = m]
      /\ \A q \in RunId \ {r} : run'[q] = run[q] /\ walk'[q] = walk[q]
  BY <1>4, <1>5, <1>6 DEF TablesTyped, ThreadsTyped
<1>8. run'[r].status = "probing" /\ run'[r].done = run[r].done
  BY <1>2, <1>7 DEF RunRow
<1>9. /\ walk'[r].by = walk[r].by /\ walk'[r].todo = d
      /\ walk'[r].api = walk[r].api /\ walk'[r].n = m
  BY <1>2, <1>7 DEF WalkRow
<1>10. unit' \in [Unit -> UnitRow]
  BY UnitRows DEF EnqueueUnits, TablesTyped
<1>11. \A u \in Unit : unit'[u] = IF u \in {r} \X fs THEN Pending ELSE unit[u]
  BY DEF EnqueueUnits
<1>. QED BY <1>3, <1>7, <1>8, <1>9, <1>10, <1>11 DEF d

-----------------------------------------------------------------------------
(* Every step keeps the types.                                             *)

LEMMA TablesKept ==
  ASSUME TablesTyped, ThreadsTyped, WorldTyped, [AuditNext]_auditVars
  PROVE  TablesTyped'
<1>1. ASSUME NEW a \in Auditor, SweepStale(a) PROVE TablesTyped'
  BY <1>1, GiveBackTyped DEF SweepStale, TablesTyped
<1>2. ASSUME NEW a \in Auditor, CompleteFinished(a) PROVE TablesTyped'
  <2>1. \A r \in RunId : [run[r] EXCEPT !.status = "completed"] \in RunRow
    BY RunRows DEF TablesTyped
  <2>. QED BY <1>2, <2>1 DEF CompleteFinished, TablesTyped
<1>3. ASSUME NEW a \in Auditor, RollUp(a) PROVE TablesTyped'
  BY <1>3, UpsertTyped DEF RollUp, TablesTyped
<1>4. ASSUME NEW a \in Auditor, Purge(a) PROVE TablesTyped'
  BY <1>4 DEF Purge, TablesTyped
<1>5. ASSUME NEW a \in Auditor, Look(a) PROVE TablesTyped'
  BY <1>5 DEF Look, tables, TablesTyped
<1>6. ASSUME NEW a \in Auditor, StartRun(a) PROVE TablesTyped'
  <2>1. CASE lock = NoAuditor /\ Unused # {}
    BY <1>6, <2>1, BeginTyped DEF StartRun, TablesTyped
  <2>2. CASE ~ (lock = NoAuditor /\ Unused # {})
    BY <1>6, <2>2 DEF StartRun, TablesTyped
  <2>. QED BY <2>1, <2>2
<1>7. ASSUME NEW a \in Auditor, ApiTrigger(a) PROVE TablesTyped'
  BY <1>7, BeginTyped DEF ApiTrigger, TablesTyped
<1>8. ASSUME NEW a \in Auditor, AuditCrash(a) PROVE TablesTyped'
  BY <1>8 DEF AuditCrash, tables, TablesTyped
<1>9. ASSUME NEW a \in Auditor, ReplaceWorker(a) PROVE TablesTyped'
  BY <1>9, GiveBackTyped DEF ReplaceWorker, TablesTyped
<1>10. ASSUME NEW a \in Auditor, AuditRestart(a) PROVE TablesTyped'
  BY <1>10, GiveBackTyped DEF AuditRestart, TablesTyped
<1>11. ASSUME NEW a \in Auditor, NEW r \in RunId, NEW fs \in SUBSET MediaFile,
              ClaimUnits(a, r, fs)
       PROVE  TablesTyped'
  <2>1. [status |-> "claimed", by |-> a, old |-> FALSE] \in UnitRow
    BY UnitRows
  <2>2. [status |-> "claimed", by |-> a, old |-> FALSE].status # "pending"
    OBVIOUS
  <2>3. /\ unit' \in [Unit -> UnitRow]
        /\ \A u \in Unit : unit'[u].status = "pending" => unit'[u].by = NoAuditor
    BY <1>11, <2>1, <2>2 DEF ClaimUnits, TablesTyped
  <2>. QED BY <1>11, <2>3 DEF ClaimUnits, TablesTyped
<1>12. ASSUME NEW r \in RunId, NEW fs \in SUBSET MediaFile,
              EnqueueUnits(r, fs)
       PROVE  TablesTyped'
  <2>1. Pending.by = NoAuditor
    BY DEF Pending
  <2>. QED BY <1>12, <2>1, EnqueueTyped DEF EnqueueUnits, TablesTyped
<1>13. ASSUME NEW r \in RunId, FinishWalk(r) PROVE TablesTyped'
  <2>1. run' \in [RunId -> RunRow]
    BY <1>13, SetStatusTyped DEF FinishWalk, TablesTyped
  <2>. QED BY <1>13, <2>1 DEF FinishWalk, TablesTyped
<1>14. ASSUME NEW r \in RunId, FailWalk(r) PROVE TablesTyped'
  <2>1. run' \in [RunId -> RunRow]
    BY <1>14, SetStatusTyped DEF FailWalk, TablesTyped
  <2>. QED BY <1>14, <2>1 DEF FailWalk, TablesTyped
<1>15. ASSUME NEW r \in RunId, StopWalk(r) PROVE TablesTyped'
  BY <1>15 DEF StopWalk, tables, TablesTyped
<1>16. ASSUME NEW a \in Auditor, NEW r \in RunId, NEW f \in MediaFile,
              Probe(a, r, f)
       PROVE  TablesTyped'
  BY <1>16 DEF Probe, Unit, TablesTyped
<1>17. ASSUME NEW a \in Auditor, NEW r \in RunId, NEW f \in MediaFile,
              Report(a, r, f)
       PROVE  TablesTyped'
  BY <1>17, UpsertTyped DEF Report, TablesTyped
<1>18. ASSUME NEW a \in Auditor, NEW r \in RunId, NEW f \in MediaFile,
              Fix(a, r, f)
       PROVE  TablesTyped'
  BY <1>18 DEF Fix, tables, TablesTyped
<1>19. ASSUME NEW a \in Auditor, NEW r \in RunId, NEW f \in MediaFile,
              Finish(a, r, f)
       PROVE  TablesTyped'
  <2>1. MarkDone(a, <<r, f>>, "done")
    BY <1>19 DEF Finish
  <2>2. /\ unit' \in [Unit -> UnitRow] /\ run' \in [RunId -> RunRow]
        /\ unit'[<<r, f>>].status = "done"
        /\ \A u \in Unit \ {<<r, f>>} : unit'[u] = unit[u]
    BY <2>1, MarkDoneTyped
  <2>. QED BY <1>19, <2>2 DEF Finish, TablesTyped
<1>20. ASSUME NEW a \in Auditor, NEW r \in RunId, NEW f \in MediaFile,
              ProbeError(a, r, f)
       PROVE  TablesTyped'
  <2>1. MarkDone(a, <<r, f>>, "error")
    BY <1>20 DEF ProbeError
  <2>2. /\ unit' \in [Unit -> UnitRow] /\ run' \in [RunId -> RunRow]
        /\ unit'[<<r, f>>].status = "error"
        /\ \A u \in Unit \ {<<r, f>>} : unit'[u] = unit[u]
    BY <2>1, MarkDoneTyped
  <2>. QED BY <1>20, <2>2 DEF ProbeError, TablesTyped
<1>21. ASSUME NEW a \in Auditor, NEW r \in RunId, NEW f \in MediaFile,
              LoseUnit(a, r, f)
       PROVE  TablesTyped'
  BY <1>21 DEF LoseUnit, tables, TablesTyped
<1>22. ASSUME NEW u \in Unit, Age(u) PROVE TablesTyped'
  <2>1. unit' = [unit EXCEPT ![u] = [unit[u] EXCEPT !.old = TRUE]]
    BY <1>22 DEF Age
  <2>2. unit[u] \in UnitRow /\ unit[u].status = "claimed"
    BY <1>22 DEF Age, TablesTyped
  <2>3. /\ [unit[u] EXCEPT !.old = TRUE] \in UnitRow
        /\ [unit[u] EXCEPT !.old = TRUE].status = "claimed"
    BY <2>2 DEF UnitRow
  <2>. QED BY <1>22, <2>1, <2>3 DEF Age, TablesTyped
<1>23. ASSUME NEW k \in Found \X MediaFile, NEW s \in {"acked", "dismissed", "resolved"},
              SetFindingStatus(k, s)
       PROVE  TablesTyped'
  <2>1. s \in FindingStatus
    BY DEF FindingStatus
  <2>. QED BY <1>23, <2>1 DEF SetFindingStatus, TablesTyped
<1>24. CASE UNCHANGED auditVars
  BY <1>24 DEF auditVars, tables, TablesTyped
<1>. QED
  BY <1>1, <1>2, <1>3, <1>4, <1>5, <1>6, <1>7, <1>8, <1>9, <1>10, <1>11, <1>12, <1>13,
     <1>14, <1>15, <1>16, <1>17, <1>18, <1>19, <1>20, <1>21, <1>22, <1>23, <1>24
     DEF AuditNext, Cycle, Enumerate, Work, Claiming, Disturbed

LEMMA ThreadsKept ==
  ASSUME TablesTyped, ThreadsTyped, WorldTyped, [AuditNext]_auditVars
  PROVE  ThreadsTyped'
<1>1. ASSUME NEW a \in Auditor, SweepStale(a) PROVE ThreadsTyped'
  BY <1>1, GotoTyped DEF SweepStale, AuditPc, ThreadsTyped
<1>2. ASSUME NEW a \in Auditor, CompleteFinished(a) PROVE ThreadsTyped'
  <2>1. [pc |-> IF FinishedRuns = {} THEN "looking" ELSE "rolling", found |-> FinishedRuns] \in Plan
    BY Plans DEF AuditPc, FinishedRuns
  <2>. QED BY <1>2, <2>1 DEF CompleteFinished, ThreadsTyped
<1>3. ASSUME NEW a \in Auditor, RollUp(a) PROVE ThreadsTyped'
  BY <1>3, GotoTyped DEF RollUp, AuditPc, ThreadsTyped
<1>4. ASSUME NEW a \in Auditor, Purge(a) PROVE ThreadsTyped'
  <2>. DEFINE q == First(sched[a].found)
              x == [pc |-> IF sched[a].found = {q} THEN "looking" ELSE "rolling",
                    found |-> sched[a].found \ {q}]
  <2>1. sched' = [sched EXCEPT ![a] = x]
    BY <1>4 DEF Purge
  <2>2. sched[a].found \ {q} \in SUBSET RunId
    BY Plans DEF ThreadsTyped
  <2>3. x \in Plan
    BY <2>2, Plans DEF AuditPc
  <2>. QED BY <1>4, <2>1, <2>3 DEF Purge, ThreadsTyped
<1>5. ASSUME NEW a \in Auditor, Look(a) PROVE ThreadsTyped'
  BY <1>5, GotoTyped DEF Look, AuditPc, tables, ThreadsTyped
<1>6. ASSUME NEW a \in Auditor, StartRun(a) PROVE ThreadsTyped'
  <2>1. CASE lock = NoAuditor /\ Unused # {}
    BY <1>6, <2>1, BeginTyped, GotoTyped DEF StartRun, ThreadsTyped, AuditPc
  <2>2. CASE ~ (lock = NoAuditor /\ Unused # {})
    BY <1>6, <2>2, GotoTyped DEF StartRun, ThreadsTyped, AuditPc
  <2>. QED BY <2>1, <2>2
<1>7. ASSUME NEW a \in Auditor, ApiTrigger(a) PROVE ThreadsTyped'
  BY <1>7, BeginTyped DEF ApiTrigger, ThreadsTyped
<1>8. ASSUME NEW a \in Auditor, AuditCrash(a) PROVE ThreadsTyped'
  <2>1. [pc |-> "rest", found |-> {}] \in Plan
    BY Plans DEF AuditPc
  <2>2. sched' \in [Auditor -> Plan]
    BY <1>8, <2>1 DEF AuditCrash, ThreadsTyped
  <2>3. walk' \in [RunId -> WalkRow]
    BY <1>8, WalkRows DEF AuditCrash, ThreadsTyped
  <2>4. task' \in [Probing -> Stage]
    BY <1>8 DEF AuditCrash, ThreadsTyped, Stage
  <2>. QED BY <1>8, <2>2, <2>3, <2>4 DEF AuditCrash, ThreadsTyped
<1>9. ASSUME NEW a \in Auditor, ReplaceWorker(a) PROVE ThreadsTyped'
  BY <1>9 DEF ReplaceWorker, ThreadsTyped
<1>10. ASSUME NEW a \in Auditor, AuditRestart(a) PROVE ThreadsTyped'
  BY <1>10 DEF AuditRestart, ThreadsTyped
<1>11. ASSUME NEW a \in Auditor, NEW r \in RunId, NEW fs \in SUBSET MediaFile,
              ClaimUnits(a, r, fs)
       PROVE  ThreadsTyped'
  BY <1>11 DEF ClaimUnits, Stage, ThreadsTyped
<1>12. ASSUME NEW r \in RunId, NEW fs \in SUBSET MediaFile,
              EnqueueUnits(r, fs)
       PROVE  ThreadsTyped'
  BY <1>12, EnqueueTyped DEF EnqueueUnits, ThreadsTyped
<1>13. ASSUME NEW r \in RunId, FinishWalk(r) PROVE ThreadsTyped'
  <2>1. walk[r].by \in Auditor /\ EndWalk(r)
    BY <1>13 DEF FinishWalk, ThreadsTyped
  <2>. QED BY <1>13, <2>1, EndWalkTyped DEF FinishWalk, ThreadsTyped
<1>14. ASSUME NEW r \in RunId, FailWalk(r) PROVE ThreadsTyped'
  <2>1. walk[r].by \in Auditor /\ EndWalk(r)
    BY <1>14 DEF FailWalk, ThreadsTyped
  <2>. QED BY <1>14, <2>1, EndWalkTyped DEF FailWalk, ThreadsTyped
<1>15. ASSUME NEW r \in RunId, StopWalk(r) PROVE ThreadsTyped'
  <2>1. walk[r].by \in Auditor /\ EndWalk(r)
    BY <1>15 DEF StopWalk, ThreadsTyped
  <2>. QED BY <1>15, <2>1, EndWalkTyped DEF StopWalk, ThreadsTyped
<1>16. ASSUME NEW a \in Auditor, NEW r \in RunId, NEW f \in MediaFile,
              Probe(a, r, f)
       PROVE  ThreadsTyped'
  BY <1>16 DEF Probe, Verdict, Stage, ThreadsTyped
<1>17. ASSUME NEW a \in Auditor, NEW r \in RunId, NEW f \in MediaFile,
              Report(a, r, f)
       PROVE  ThreadsTyped'
  <2>1. task[<<a, r, f>>] \in {"broken", "stale"}
    BY <1>17 DEF Report, KindOf
  <2>2. FixOf[task[<<a, r, f>>]] \in Stage
    BY <2>1 DEF FixOf, Stage
  <2>. QED BY <1>17, <2>2 DEF Report, ThreadsTyped
<1>18. ASSUME NEW a \in Auditor, NEW r \in RunId, NEW f \in MediaFile,
              Fix(a, r, f)
       PROVE  ThreadsTyped'
  BY <1>18 DEF Fix, Stage, ThreadsTyped
<1>19. ASSUME NEW a \in Auditor, NEW r \in RunId, NEW f \in MediaFile,
              Finish(a, r, f)
       PROVE  ThreadsTyped'
  <2>1. MarkDone(a, <<r, f>>, "done")
    BY <1>19 DEF Finish
  <2>2. task' \in [Probing -> Stage]
    BY <2>1, MarkDoneTyped
  <2>. QED BY <1>19, <2>2 DEF Finish, ThreadsTyped
<1>20. ASSUME NEW a \in Auditor, NEW r \in RunId, NEW f \in MediaFile,
              ProbeError(a, r, f)
       PROVE  ThreadsTyped'
  <2>1. MarkDone(a, <<r, f>>, "error")
    BY <1>20 DEF ProbeError
  <2>2. task' \in [Probing -> Stage]
    BY <2>1, MarkDoneTyped
  <2>. QED BY <1>20, <2>2 DEF ProbeError, ThreadsTyped
<1>21. ASSUME NEW a \in Auditor, NEW r \in RunId, NEW f \in MediaFile,
              LoseUnit(a, r, f)
       PROVE  ThreadsTyped'
  BY <1>21 DEF LoseUnit, Stage, ThreadsTyped
<1>22. ASSUME NEW u \in Unit, Age(u) PROVE ThreadsTyped'
  BY <1>22 DEF Age, ThreadsTyped
<1>23. ASSUME NEW k \in Found \X MediaFile, NEW s \in {"acked", "dismissed", "resolved"},
              SetFindingStatus(k, s)
       PROVE  ThreadsTyped'
  BY <1>23 DEF SetFindingStatus, ThreadsTyped
<1>24. CASE UNCHANGED auditVars
  BY <1>24 DEF auditVars, tables, ThreadsTyped
<1>. QED
  BY <1>1, <1>2, <1>3, <1>4, <1>5, <1>6, <1>7, <1>8, <1>9, <1>10, <1>11, <1>12, <1>13,
     <1>14, <1>15, <1>16, <1>17, <1>18, <1>19, <1>20, <1>21, <1>22, <1>23, <1>24
     DEF AuditNext, Cycle, Enumerate, Work, Claiming, Disturbed

LEMMA WorldKept ==
  ASSUME TablesTyped, ThreadsTyped, WorldTyped, [AuditNext]_auditVars
  PROVE  WorldTyped'
<1>1. ASSUME NEW a \in Auditor, SweepStale(a) PROVE WorldTyped'
  BY <1>1 DEF SweepStale, StaleClaims, WorldTyped
<1>2. ASSUME NEW a \in Auditor, CompleteFinished(a) PROVE WorldTyped'
  BY <1>2 DEF CompleteFinished, WorldTyped
<1>3. ASSUME NEW a \in Auditor, RollUp(a) PROVE WorldTyped'
  BY <1>3 DEF RollUp, WorldTyped
<1>4. ASSUME NEW a \in Auditor, Purge(a) PROVE WorldTyped'
  BY <1>4 DEF Purge, WorldTyped
<1>5. ASSUME NEW a \in Auditor, Look(a) PROVE WorldTyped'
  BY <1>5 DEF Look, tables, WorldTyped
<1>6. ASSUME NEW a \in Auditor, StartRun(a) PROVE WorldTyped'
  BY <1>6 DEF StartRun, WorldTyped
<1>7. ASSUME NEW a \in Auditor, ApiTrigger(a) PROVE WorldTyped'
  <2>1. "api" \in AuditDisturbance /\ Spend("api")
    BY <1>7 DEF ApiTrigger, AuditDisturbance
  <2>2. budget' \in [AuditDisturbance -> Nat]
    BY <2>1, SpendTyped
  <2>. QED BY <1>7, <2>2 DEF ApiTrigger, WorldTyped
<1>8. ASSUME NEW a \in Auditor, AuditCrash(a) PROVE WorldTyped'
  <2>1. "crash" \in AuditDisturbance /\ Spend("crash")
    BY <1>8 DEF AuditCrash, AuditDisturbance
  <2>2. budget' \in [AuditDisturbance -> Nat]
    BY <2>1, SpendTyped
  <2>. QED BY <1>8, <2>2, Plans DEF AuditCrash, WorldTyped, ThreadsTyped
<1>9. ASSUME NEW a \in Auditor, ReplaceWorker(a) PROVE WorldTyped'
  <2>1. "reload" \in AuditDisturbance /\ Spend("reload")
    BY <1>9 DEF ReplaceWorker, AuditDisturbance
  <2>2. budget' \in [AuditDisturbance -> Nat]
    BY <2>1, SpendTyped
  <2>. QED BY <1>9, <2>2 DEF ReplaceWorker, WorldTyped, ClaimsOf
<1>10. ASSUME NEW a \in Auditor, AuditRestart(a) PROVE WorldTyped'
  BY <1>10 DEF AuditRestart, WorldTyped
<1>11. ASSUME NEW a \in Auditor, NEW r \in RunId, NEW fs \in SUBSET MediaFile,
              ClaimUnits(a, r, fs)
       PROVE  WorldTyped'
  BY <1>11 DEF ClaimUnits, WorldTyped
<1>12. ASSUME NEW r \in RunId, NEW fs \in SUBSET MediaFile,
              EnqueueUnits(r, fs)
       PROVE  WorldTyped'
  BY <1>12 DEF EnqueueUnits, WorldTyped
<1>13. ASSUME NEW r \in RunId, FinishWalk(r) PROVE WorldTyped'
  BY <1>13 DEF FinishWalk, WorldTyped
<1>14. ASSUME NEW r \in RunId, FailWalk(r) PROVE WorldTyped'
  <2>1. "raise" \in AuditDisturbance /\ Spend("raise")
    BY <1>14 DEF FailWalk, AuditDisturbance
  <2>2. budget' \in [AuditDisturbance -> Nat]
    BY <2>1, SpendTyped
  <2>. QED BY <1>14, <2>2 DEF FailWalk, WorldTyped
<1>15. ASSUME NEW r \in RunId, StopWalk(r) PROVE WorldTyped'
  <2>1. "reload" \in AuditDisturbance /\ Spend("reload")
    BY <1>15 DEF StopWalk, AuditDisturbance
  <2>2. budget' \in [AuditDisturbance -> Nat]
    BY <2>1, SpendTyped
  <2>. QED BY <1>15, <2>2 DEF StopWalk, WorldTyped
<1>16. ASSUME NEW a \in Auditor, NEW r \in RunId, NEW f \in MediaFile,
              Probe(a, r, f)
       PROVE  WorldTyped'
  BY <1>16 DEF Probe, WorldTyped
<1>17. ASSUME NEW a \in Auditor, NEW r \in RunId, NEW f \in MediaFile,
              Report(a, r, f)
       PROVE  WorldTyped'
  BY <1>17 DEF Report, WorldTyped
<1>18. ASSUME NEW a \in Auditor, NEW r \in RunId, NEW f \in MediaFile,
              Fix(a, r, f)
       PROVE  WorldTyped'
  BY <1>18 DEF Fix, tables, WorldTyped
<1>19. ASSUME NEW a \in Auditor, NEW r \in RunId, NEW f \in MediaFile,
              Finish(a, r, f)
       PROVE  WorldTyped'
  BY <1>19 DEF Finish, WorldTyped
<1>20. ASSUME NEW a \in Auditor, NEW r \in RunId, NEW f \in MediaFile,
              ProbeError(a, r, f)
       PROVE  WorldTyped'
  <2>1. "raise" \in AuditDisturbance /\ Spend("raise")
    BY <1>20 DEF ProbeError, AuditDisturbance
  <2>2. budget' \in [AuditDisturbance -> Nat]
    BY <2>1, SpendTyped
  <2>. QED BY <1>20, <2>2 DEF ProbeError, WorldTyped
<1>21. ASSUME NEW a \in Auditor, NEW r \in RunId, NEW f \in MediaFile,
              LoseUnit(a, r, f)
       PROVE  WorldTyped'
  <2>1. "raise" \in AuditDisturbance /\ Spend("raise")
    BY <1>21 DEF LoseUnit, AuditDisturbance
  <2>2. budget' \in [AuditDisturbance -> Nat]
    BY <2>1, SpendTyped
  <2>. QED BY <1>21, <2>2 DEF LoseUnit, WorldTyped
<1>22. ASSUME NEW u \in Unit, Age(u) PROVE WorldTyped'
  <2>1. budget' \in [AuditDisturbance -> Nat]
    <3>1. CASE Probed(unit[u].by, u)
      <4>1. "slow" \in AuditDisturbance /\ Spend("slow")
        BY <1>22, <3>1 DEF Age, AuditDisturbance
      <4>. QED BY <4>1, SpendTyped
    <3>2. CASE ~ Probed(unit[u].by, u)
      BY <1>22, <3>2 DEF Age, WorldTyped
    <3>. QED BY <3>1, <3>2
  <2>. QED BY <1>22, <2>1 DEF Age, WorldTyped
<1>23. ASSUME NEW k \in Found \X MediaFile, NEW s \in {"acked", "dismissed", "resolved"},
              SetFindingStatus(k, s)
       PROVE  WorldTyped'
  <2>1. "operator" \in AuditDisturbance /\ Spend("operator")
    BY <1>23 DEF SetFindingStatus, AuditDisturbance
  <2>2. budget' \in [AuditDisturbance -> Nat]
    BY <2>1, SpendTyped
  <2>. QED BY <1>23, <2>2 DEF SetFindingStatus, WorldTyped
<1>24. CASE UNCHANGED auditVars
  BY <1>24 DEF auditVars, tables, WorldTyped
<1>. QED
  BY <1>1, <1>2, <1>3, <1>4, <1>5, <1>6, <1>7, <1>8, <1>9, <1>10, <1>11, <1>12, <1>13,
     <1>14, <1>15, <1>16, <1>17, <1>18, <1>19, <1>20, <1>21, <1>22, <1>23, <1>24
     DEF AuditNext, Cycle, Enumerate, Work, Claiming, Disturbed

-----------------------------------------------------------------------------
(* Claims and walks.                                                       *)

\* A thread probes a unit of a node that is up.
ThreadsLive ==
  \A a \in Auditor, r \in RunId, f \in MediaFile :
    task[<<a, r, f>>] # "none" =>
      /\ a \in up
      /\ unit[<<r, f>>].status # "absent"
      /\ <<r, f>> \notin freed => unit[<<r, f>>].status = "claimed" /\ unit[<<r, f>>].by = a

\* Units are there once they are walked past.
WalksAdd ==
  \A r \in RunId :
    /\ run[r].status \in {"none", "failed"} => walk[r].by = NoAuditor
    /\ run[r].status = "none" => \A f \in MediaFile : unit[<<r, f>>].status = "absent"
    /\ walk[r].by # NoAuditor =>
         /\ \A f \in walk[r].todo : unit[<<r, f>>].status = "absent"
         /\ walk[r].n = 0 => \A f \in MediaFile : unit[<<r, f>>].status = "absent"

ClaimsInv == AuditTypeOK /\ ThreadsLive /\ WalksAdd

\* done_units counts the units that ended.
Ended(r) == {u \in UnitsOf(r) : unit[u].status \in {"done", "error"}}

CountsInv ==
  \A r \in RunId : UnitsOf(r) \cap freed = {} => run[r].done = Cardinality(Ended(r))

\* What a stage of a probe says of the file, and of what was written about it.
StagesTell ==
  /\ \A f \in gone : library[f] = "original"
  /\ \A a \in Auditor, r \in RunId, f \in MediaFile :
       LET stage == task[<<a, r, f>>] IN
       /\ stage \in {"stale", "recycling"} => library[f] = "original"
       /\ stage \in {"broken", "queueing", "fixed"} => library[f] # "good"
       /\ stage = "clean" => library[f] = "good"
       /\ library[f] = "damaged" /\ stage \in {"queueing", "fixed"} =>
            finding[<<"ffprobe_failed", f>>] # "none"
       /\ library[f] = "damaged" /\ stage = "fixed" => f \in queued

DamageInv == StagesTell /\ DamageReported

\* The audit thread between two transactions.
SchedulesFit ==
  /\ \A a \in Auditor : sched[a].pc \in {"rolling", "purging"} <=> sched[a].found # {}
  /\ \A r \in RunId : walk[r].by # NoAuditor /\ ~ walk[r].api =>
       /\ sched[walk[r].by].pc = "walking"
       /\ \A q \in RunId : walk[q].by = walk[r].by /\ ~ walk[q].api => q = r

\* A run that somebody is to roll up is over, and nobody else is to.
CompletersKnow ==
  \A r \in RunId \ torn, a \in Auditor : r \in sched[a].found =>
    /\ run[r].status \in {"completed", "failed"}
    /\ \A f \in MediaFile : ~ Open(<<r, f>>)
    /\ \A b \in Auditor : r \in sched[b].found => b = a

\* Runs nothing has happened to that their roll-up cannot know of.
Intact == {r \in RunId \ torn : UnitsOf(r) \cap freed = {}}

Recorded(r) ==
  \A f \in MediaFile :
    unit[<<r, f>>].status = "done" /\ library[f] = "good" => <<r, f>> \in ids

IdsKept ==
  \A r \in Intact :
    /\ run[r].status \in {"enumerating", "probing"} => Recorded(r)
    /\ \A a \in Auditor, f \in MediaFile : task[<<a, r, f>>] = "clean" => <<r, f>> \in ids
    /\ \A a \in Auditor : r \in sched[a].found =>
         /\ Recorded(r)
         /\ sched[a].pc = "purging" /\ r = First(sched[a].found) => TwinsFound(r)

DuplicatesInv == SchedulesFit /\ CompletersKnow /\ IdsKept /\ DuplicatesReported

AuditInv ==
  ClaimsInv /\ CompletedMeansProbed /\ CountsInv /\ DamageInv /\ DuplicatesInv

-----------------------------------------------------------------------------
(* A thread probes for a node that is up, on a claim of that node.         *)

LEMMA ThreadsLiveKept ==
  ASSUME TablesTyped, ThreadsTyped, WorldTyped, ThreadsLive, WalksAdd, [AuditNext]_auditVars
  PROVE  ThreadsLive'
<1>1. ASSUME NEW a \in Auditor, SweepStale(a) PROVE ThreadsLive'
  <2>. SUFFICES ASSUME NEW b \in Auditor, NEW q \in RunId, NEW g \in MediaFile,
                       task'[<<b, q, g>>] # "none"
                PROVE  /\ b \in up'
                       /\ unit'[<<q, g>>].status # "absent"
                       /\ <<q, g>> \notin freed' =>
                            unit'[<<q, g>>].status = "claimed" /\ unit'[<<q, g>>].by = b
    BY DEF ThreadsLive
  <2>. DEFINE v == <<q, g>>
              p == <<b, q, g>>
  <2>1. v \in Unit /\ p \in Probing /\ v[1] = q /\ v[2] = g
    BY DEF Unit, Probing
  <2>2. task[p] # "none"
    BY <1>1 DEF SweepStale
  <2>3. /\ b \in up /\ unit[v].status # "absent"
        /\ v \notin freed => unit[v].status = "claimed" /\ unit[v].by = b
    BY <2>2 DEF ThreadsLive
  <2>4. unit'[v] = IF v \in StaleClaims THEN Pending ELSE unit[v]
    BY <1>1, <2>1, GiveBackTyped DEF SweepStale
  <2>5. v \in Held(b)
    BY <2>1, <2>2 DEF Held
  <2>6. b \in up' /\ (v \in StaleClaims => v \in freed') /\ (v \in freed => v \in freed')
    BY <1>1, <2>3, <2>5 DEF SweepStale
  <2>7. Pending.status # "absent"
    BY DEF Pending
  <2>. QED BY <2>3, <2>4, <2>6, <2>7
<1>2. ASSUME NEW a \in Auditor, CompleteFinished(a) PROVE ThreadsLive'
  BY <1>2 DEF CompleteFinished, ThreadsLive
<1>3. ASSUME NEW a \in Auditor, RollUp(a) PROVE ThreadsLive'
  BY <1>3 DEF RollUp, ThreadsLive
<1>4. ASSUME NEW a \in Auditor, Purge(a) PROVE ThreadsLive'
  BY <1>4 DEF Purge, ThreadsLive
<1>5. ASSUME NEW a \in Auditor, Look(a) PROVE ThreadsLive'
  BY <1>5 DEF Look, tables, ThreadsLive
<1>6. ASSUME NEW a \in Auditor, StartRun(a) PROVE ThreadsLive'
  BY <1>6 DEF StartRun, ThreadsLive
<1>7. ASSUME NEW a \in Auditor, ApiTrigger(a) PROVE ThreadsLive'
  BY <1>7 DEF ApiTrigger, ThreadsLive
<1>8. ASSUME NEW a \in Auditor, AuditCrash(a) PROVE ThreadsLive'
  <2>. SUFFICES ASSUME NEW b \in Auditor, NEW q \in RunId, NEW g \in MediaFile,
                       task'[<<b, q, g>>] # "none"
                PROVE  /\ b \in up'
                       /\ unit'[<<q, g>>].status # "absent"
                       /\ <<q, g>> \notin freed' =>
                            unit'[<<q, g>>].status = "claimed" /\ unit'[<<q, g>>].by = b
    BY DEF ThreadsLive
  <2>. DEFINE v == <<q, g>>
              p == <<b, q, g>>
  <2>1. v \in Unit /\ p \in Probing /\ v[1] = q /\ v[2] = g
    BY DEF Unit, Probing
  <2>2. task[p] # "none" /\ b # a
    BY <1>8, <2>1 DEF AuditCrash
  <2>3. /\ b \in up /\ unit[v].status # "absent"
        /\ v \notin freed => unit[v].status = "claimed" /\ unit[v].by = b
    BY <2>2 DEF ThreadsLive
  <2>. QED BY <1>8, <2>2, <2>3 DEF AuditCrash, tables
<1>9. ASSUME NEW a \in Auditor, ReplaceWorker(a) PROVE ThreadsLive'
  <2>. SUFFICES ASSUME NEW b \in Auditor, NEW q \in RunId, NEW g \in MediaFile,
                       task'[<<b, q, g>>] # "none"
                PROVE  /\ b \in up'
                       /\ unit'[<<q, g>>].status # "absent"
                       /\ <<q, g>> \notin freed' =>
                            unit'[<<q, g>>].status = "claimed" /\ unit'[<<q, g>>].by = b
    BY DEF ThreadsLive
  <2>. DEFINE v == <<q, g>>
              p == <<b, q, g>>
  <2>1. v \in Unit /\ p \in Probing /\ v[1] = q /\ v[2] = g
    BY DEF Unit, Probing
  <2>2. task[p] # "none"
    BY <1>9 DEF ReplaceWorker
  <2>3. /\ b \in up /\ unit[v].status # "absent"
        /\ v \notin freed => unit[v].status = "claimed" /\ unit[v].by = b
    BY <2>2 DEF ThreadsLive
  <2>4. unit'[v] = IF v \in ClaimsOf(a) THEN Pending ELSE unit[v]
    BY <1>9, <2>1, GiveBackTyped DEF ReplaceWorker
  <2>5. v \in Held(b)
    BY <2>1, <2>2 DEF Held
  <2>6. v \in ClaimsOf(a) => v \in freed'
    BY <1>9, <2>3, <2>5 DEF ReplaceWorker, ClaimsOf
  <2>7. b \in up' /\ (v \in freed => v \in freed')
    BY <1>9, <2>3 DEF ReplaceWorker
  <2>8. Pending.status # "absent"
    BY DEF Pending
  <2>. QED BY <2>3, <2>4, <2>6, <2>7, <2>8
<1>10. ASSUME NEW a \in Auditor, AuditRestart(a) PROVE ThreadsLive'
  <2>. SUFFICES ASSUME NEW b \in Auditor, NEW q \in RunId, NEW g \in MediaFile,
                       task'[<<b, q, g>>] # "none"
                PROVE  /\ b \in up'
                       /\ unit'[<<q, g>>].status # "absent"
                       /\ <<q, g>> \notin freed' =>
                            unit'[<<q, g>>].status = "claimed" /\ unit'[<<q, g>>].by = b
    BY DEF ThreadsLive
  <2>. DEFINE v == <<q, g>>
              p == <<b, q, g>>
  <2>1. v \in Unit /\ p \in Probing /\ v[1] = q /\ v[2] = g
    BY DEF Unit, Probing
  <2>2. task[p] # "none"
    BY <1>10 DEF AuditRestart
  <2>3. /\ b \in up /\ unit[v].status # "absent"
        /\ v \notin freed => unit[v].status = "claimed" /\ unit[v].by = b
    BY <2>2 DEF ThreadsLive
  <2>4. unit'[v] = IF v \in ClaimsOf(a) THEN Pending ELSE unit[v]
    BY <1>10, <2>1, GiveBackTyped DEF AuditRestart
  <2>5. v \in ClaimsOf(a) => v \in freed
    BY <1>10, <2>3 DEF AuditRestart, ClaimsOf
  <2>6. b \in up' /\ freed' = freed
    BY <1>10, <2>3 DEF AuditRestart
  <2>7. Pending.status # "absent"
    BY DEF Pending
  <2>. QED BY <2>3, <2>4, <2>5, <2>6, <2>7
<1>11. ASSUME NEW a \in Auditor, NEW r \in RunId, NEW fs \in SUBSET MediaFile,
              ClaimUnits(a, r, fs)
       PROVE  ThreadsLive'
  <2>. SUFFICES ASSUME NEW b \in Auditor, NEW q \in RunId, NEW g \in MediaFile,
                       task'[<<b, q, g>>] # "none"
                PROVE  /\ b \in up'
                       /\ unit'[<<q, g>>].status # "absent"
                       /\ <<q, g>> \notin freed' =>
                            unit'[<<q, g>>].status = "claimed" /\ unit'[<<q, g>>].by = b
    BY DEF ThreadsLive
  <2>. DEFINE v == <<q, g>>
              p == <<b, q, g>>
  <2>1. v \in Unit /\ p \in Probing /\ v[1] = q /\ v[2] = g
    BY DEF Unit, Probing
  <2>. DEFINE c == [status |-> "claimed", by |-> a, old |-> FALSE]
  <2>2. c.status = "claimed" /\ c.by = a
    OBVIOUS
  <2>. HIDE DEF c
  <2>3. CASE v \in {r} \X fs
    <3>1. unit'[v] = c /\ unit[v].status = "pending"
      BY <1>11, <2>1, <2>3 DEF ClaimUnits, c
    <3>2. CASE b = a
      BY <1>11, <2>2, <3>1, <3>2 DEF ClaimUnits
    <3>3. CASE b # a
      <4>1. task[p] # "none"
        BY <1>11, <2>1, <3>3 DEF ClaimUnits
      <4>2. b \in up /\ (v \notin freed => unit[v].status = "claimed")
        BY <4>1 DEF ThreadsLive
      <4>. QED BY <1>11, <2>2, <3>1, <4>2 DEF ClaimUnits
    <3>. QED BY <3>2, <3>3
  <2>4. CASE v \notin {r} \X fs
    <3>1. unit'[v] = unit[v] /\ task[p] # "none"
      BY <1>11, <2>1, <2>4 DEF ClaimUnits
    <3>2. /\ b \in up /\ unit[v].status # "absent"
          /\ v \notin freed => unit[v].status = "claimed" /\ unit[v].by = b
      BY <3>1 DEF ThreadsLive
    <3>. QED BY <1>11, <3>1, <3>2 DEF ClaimUnits
  <2>. QED BY <2>3, <2>4
<1>12. ASSUME NEW r \in RunId, NEW fs \in SUBSET MediaFile,
              EnqueueUnits(r, fs)
       PROVE  ThreadsLive'
  <2>. SUFFICES ASSUME NEW b \in Auditor, NEW q \in RunId, NEW g \in MediaFile,
                       task'[<<b, q, g>>] # "none"
                PROVE  /\ b \in up'
                       /\ unit'[<<q, g>>].status # "absent"
                       /\ <<q, g>> \notin freed' =>
                            unit'[<<q, g>>].status = "claimed" /\ unit'[<<q, g>>].by = b
    BY DEF ThreadsLive
  <2>. DEFINE v == <<q, g>>
              p == <<b, q, g>>
  <2>1. v \in Unit /\ p \in Probing /\ v[1] = q /\ v[2] = g
    BY DEF Unit, Probing
  <2>2. task[p] # "none"
    BY <1>12 DEF EnqueueUnits
  <2>3. /\ b \in up /\ unit[v].status # "absent"
        /\ v \notin freed => unit[v].status = "claimed" /\ unit[v].by = b
    BY <2>2 DEF ThreadsLive
  <2>4. v \notin {r} \X fs
    <3>1. walk[r].by # NoAuditor
      BY <1>12, AuditAssumption DEF EnqueueUnits, ThreadsTyped
    <3>. QED BY <1>12, <2>3, <3>1 DEF EnqueueUnits, WalksAdd
  <2>5. unit'[v] = unit[v]
    BY <1>12, <2>1, <2>4, EnqueueTyped
  <2>. QED BY <1>12, <2>3, <2>5 DEF EnqueueUnits
<1>13. ASSUME NEW r \in RunId, FinishWalk(r) PROVE ThreadsLive'
  BY <1>13 DEF FinishWalk, ThreadsLive
<1>14. ASSUME NEW r \in RunId, FailWalk(r) PROVE ThreadsLive'
  BY <1>14 DEF FailWalk, ThreadsLive
<1>15. ASSUME NEW r \in RunId, StopWalk(r) PROVE ThreadsLive'
  BY <1>15 DEF StopWalk, tables, ThreadsLive
<1>16. ASSUME NEW a \in Auditor, NEW r \in RunId, NEW f \in MediaFile,
              Probe(a, r, f)
       PROVE  ThreadsLive'
  <2>. SUFFICES ASSUME NEW b \in Auditor, NEW q \in RunId, NEW g \in MediaFile,
                       task'[<<b, q, g>>] # "none"
                PROVE  /\ b \in up'
                       /\ unit'[<<q, g>>].status # "absent"
                       /\ <<q, g>> \notin freed' =>
                            unit'[<<q, g>>].status = "claimed" /\ unit'[<<q, g>>].by = b
    BY DEF ThreadsLive
  <2>. DEFINE v == <<q, g>>
              p == <<b, q, g>>
  <2>1. v \in Unit /\ p \in Probing /\ v[1] = q /\ v[2] = g
    BY DEF Unit, Probing
  <2>2. task[p] # "none"
    BY <1>16, <2>1 DEF Probe, ThreadsTyped
  <2>3. /\ b \in up /\ unit[v].status # "absent"
        /\ v \notin freed => unit[v].status = "claimed" /\ unit[v].by = b
    BY <2>2 DEF ThreadsLive
  <2>. QED BY <1>16, <2>3 DEF Probe
<1>17. ASSUME NEW a \in Auditor, NEW r \in RunId, NEW f \in MediaFile,
              Report(a, r, f)
       PROVE  ThreadsLive'
  <2>. SUFFICES ASSUME NEW b \in Auditor, NEW q \in RunId, NEW g \in MediaFile,
                       task'[<<b, q, g>>] # "none"
                PROVE  /\ b \in up'
                       /\ unit'[<<q, g>>].status # "absent"
                       /\ <<q, g>> \notin freed' =>
                            unit'[<<q, g>>].status = "claimed" /\ unit'[<<q, g>>].by = b
    BY DEF ThreadsLive
  <2>. DEFINE v == <<q, g>>
              p == <<b, q, g>>
  <2>1. v \in Unit /\ p \in Probing /\ v[1] = q /\ v[2] = g
    BY DEF Unit, Probing
  <2>2. task[p] # "none"
    BY <1>17, <2>1 DEF Report, ThreadsTyped, KindOf
  <2>3. /\ b \in up /\ unit[v].status # "absent"
        /\ v \notin freed => unit[v].status = "claimed" /\ unit[v].by = b
    BY <2>2 DEF ThreadsLive
  <2>. QED BY <1>17, <2>3 DEF Report
<1>18. ASSUME NEW a \in Auditor, NEW r \in RunId, NEW f \in MediaFile,
              Fix(a, r, f)
       PROVE  ThreadsLive'
  <2>. SUFFICES ASSUME NEW b \in Auditor, NEW q \in RunId, NEW g \in MediaFile,
                       task'[<<b, q, g>>] # "none"
                PROVE  /\ b \in up'
                       /\ unit'[<<q, g>>].status # "absent"
                       /\ <<q, g>> \notin freed' =>
                            unit'[<<q, g>>].status = "claimed" /\ unit'[<<q, g>>].by = b
    BY DEF ThreadsLive
  <2>. DEFINE v == <<q, g>>
              p == <<b, q, g>>
  <2>1. v \in Unit /\ p \in Probing /\ v[1] = q /\ v[2] = g
    BY DEF Unit, Probing
  <2>2. task[p] # "none"
    BY <1>18, <2>1 DEF Fix, ThreadsTyped
  <2>3. /\ b \in up /\ unit[v].status # "absent"
        /\ v \notin freed => unit[v].status = "claimed" /\ unit[v].by = b
    BY <2>2 DEF ThreadsLive
  <2>. QED BY <1>18, <2>3 DEF Fix, tables
<1>19. ASSUME NEW a \in Auditor, NEW r \in RunId, NEW f \in MediaFile,
              Finish(a, r, f)
       PROVE  ThreadsLive'
  <2>. SUFFICES ASSUME NEW b \in Auditor, NEW q \in RunId, NEW g \in MediaFile,
                       task'[<<b, q, g>>] # "none"
                PROVE  /\ b \in up'
                       /\ unit'[<<q, g>>].status # "absent"
                       /\ <<q, g>> \notin freed' =>
                            unit'[<<q, g>>].status = "claimed" /\ unit'[<<q, g>>].by = b
    BY DEF ThreadsLive
  <2>. DEFINE v == <<q, g>>
              p == <<b, q, g>>
  <2>1. v \in Unit /\ p \in Probing /\ v[1] = q /\ v[2] = g
    BY DEF Unit, Probing
  <2>2. MarkDone(a, <<r, f>>, "done") /\ task[<<a, r, f>>] # "none"
    BY <1>19 DEF Finish, Processed
  <2>3. /\ unit'[<<r, f>>].status = "done" /\ task'[<<a, r, f>>] = "none"
        /\ \A u \in Unit \ {<<r, f>>} : unit'[u] = unit[u]
        /\ \A t \in Probing \ {<<a, r, f>>} : task'[t] = task[t]
    BY <2>2, MarkDoneTyped
  <2>4. p # <<a, r, f>> /\ task[p] # "none"
    BY <2>1, <2>3
  <2>5. /\ b \in up /\ unit[v].status # "absent"
        /\ v \notin freed => unit[v].status = "claimed" /\ unit[v].by = b
    BY <2>4 DEF ThreadsLive
  <2>6. up' = up /\ freed' = freed
    BY <1>19 DEF Finish
  <2>7. CASE v = <<r, f>>
    <3>1. b # a
      BY <2>4, <2>7
    <3>2. v \in freed
      BY <2>2, <2>5, <2>7, <3>1 DEF ThreadsLive
    <3>. QED BY <2>3, <2>5, <2>6, <2>7, <3>2
  <2>8. CASE v # <<r, f>>
    BY <2>1, <2>3, <2>5, <2>6, <2>8
  <2>. QED BY <2>7, <2>8
<1>20. ASSUME NEW a \in Auditor, NEW r \in RunId, NEW f \in MediaFile,
              ProbeError(a, r, f)
       PROVE  ThreadsLive'
  <2>. SUFFICES ASSUME NEW b \in Auditor, NEW q \in RunId, NEW g \in MediaFile,
                       task'[<<b, q, g>>] # "none"
                PROVE  /\ b \in up'
                       /\ unit'[<<q, g>>].status # "absent"
                       /\ <<q, g>> \notin freed' =>
                            unit'[<<q, g>>].status = "claimed" /\ unit'[<<q, g>>].by = b
    BY DEF ThreadsLive
  <2>. DEFINE v == <<q, g>>
              p == <<b, q, g>>
  <2>1. v \in Unit /\ p \in Probing /\ v[1] = q /\ v[2] = g
    BY DEF Unit, Probing
  <2>2. MarkDone(a, <<r, f>>, "error") /\ task[<<a, r, f>>] # "none"
    BY <1>20 DEF ProbeError, Processed
  <2>3. /\ unit'[<<r, f>>].status = "error" /\ task'[<<a, r, f>>] = "none"
        /\ \A u \in Unit \ {<<r, f>>} : unit'[u] = unit[u]
        /\ \A t \in Probing \ {<<a, r, f>>} : task'[t] = task[t]
    BY <2>2, MarkDoneTyped
  <2>4. p # <<a, r, f>> /\ task[p] # "none"
    BY <2>1, <2>3
  <2>5. /\ b \in up /\ unit[v].status # "absent"
        /\ v \notin freed => unit[v].status = "claimed" /\ unit[v].by = b
    BY <2>4 DEF ThreadsLive
  <2>6. up' = up /\ freed' = freed
    BY <1>20 DEF ProbeError
  <2>7. CASE v = <<r, f>>
    <3>1. b # a
      BY <2>4, <2>7
    <3>2. v \in freed
      BY <2>2, <2>5, <2>7, <3>1 DEF ThreadsLive
    <3>. QED BY <2>3, <2>5, <2>6, <2>7, <3>2
  <2>8. CASE v # <<r, f>>
    BY <2>1, <2>3, <2>5, <2>6, <2>8
  <2>. QED BY <2>7, <2>8
<1>21. ASSUME NEW a \in Auditor, NEW r \in RunId, NEW f \in MediaFile,
              LoseUnit(a, r, f)
       PROVE  ThreadsLive'
  <2>. SUFFICES ASSUME NEW b \in Auditor, NEW q \in RunId, NEW g \in MediaFile,
                       task'[<<b, q, g>>] # "none"
                PROVE  /\ b \in up'
                       /\ unit'[<<q, g>>].status # "absent"
                       /\ <<q, g>> \notin freed' =>
                            unit'[<<q, g>>].status = "claimed" /\ unit'[<<q, g>>].by = b
    BY DEF ThreadsLive
  <2>. DEFINE v == <<q, g>>
              p == <<b, q, g>>
  <2>1. v \in Unit /\ p \in Probing /\ v[1] = q /\ v[2] = g
    BY DEF Unit, Probing
  <2>2. task[p] # "none"
    BY <1>21, <2>1 DEF LoseUnit, ThreadsTyped
  <2>3. /\ b \in up /\ unit[v].status # "absent"
        /\ v \notin freed => unit[v].status = "claimed" /\ unit[v].by = b
    BY <2>2 DEF ThreadsLive
  <2>. QED BY <1>21, <2>3 DEF LoseUnit, tables
<1>22. ASSUME NEW u \in Unit, Age(u) PROVE ThreadsLive'
  <2>. SUFFICES ASSUME NEW b \in Auditor, NEW q \in RunId, NEW g \in MediaFile,
                       task'[<<b, q, g>>] # "none"
                PROVE  /\ b \in up'
                       /\ unit'[<<q, g>>].status # "absent"
                       /\ <<q, g>> \notin freed' =>
                            unit'[<<q, g>>].status = "claimed" /\ unit'[<<q, g>>].by = b
    BY DEF ThreadsLive
  <2>. DEFINE v == <<q, g>>
              p == <<b, q, g>>
  <2>1. v \in Unit /\ p \in Probing /\ v[1] = q /\ v[2] = g
    BY DEF Unit, Probing
  <2>2. task[p] # "none"
    BY <1>22 DEF Age
  <2>3. /\ b \in up /\ unit[v].status # "absent"
        /\ v \notin freed => unit[v].status = "claimed" /\ unit[v].by = b
    BY <2>2 DEF ThreadsLive
  <2>4. unit' = [unit EXCEPT ![u] = [unit[u] EXCEPT !.old = TRUE]] /\ unit[u] \in UnitRow
    BY <1>22 DEF Age, TablesTyped
  <2>5. /\ [unit[u] EXCEPT !.old = TRUE].status = unit[u].status
        /\ [unit[u] EXCEPT !.old = TRUE].by = unit[u].by
    BY <2>4 DEF UnitRow
  <2>6. unit'[v].status = unit[v].status /\ unit'[v].by = unit[v].by
    BY <1>22, <2>1, <2>4, <2>5 DEF TablesTyped
  <2>. QED BY <1>22, <2>3, <2>6 DEF Age
<1>23. ASSUME NEW k \in Found \X MediaFile, NEW s \in {"acked", "dismissed", "resolved"},
              SetFindingStatus(k, s)
       PROVE  ThreadsLive'
  BY <1>23 DEF SetFindingStatus, ThreadsLive
<1>24. CASE UNCHANGED auditVars
  BY <1>24 DEF auditVars, tables, ThreadsLive
<1>. QED
  BY <1>1, <1>2, <1>3, <1>4, <1>5, <1>6, <1>7, <1>8, <1>9, <1>10, <1>11, <1>12, <1>13,
     <1>14, <1>15, <1>16, <1>17, <1>18, <1>19, <1>20, <1>21, <1>22, <1>23, <1>24
     DEF AuditNext, Cycle, Enumerate, Work, Claiming, Disturbed

-----------------------------------------------------------------------------
(* A walk adds only what is not there.                                     *)

\* Steps that add no unit and begin no walk.
NoneAdded ==
  /\ \A r \in RunId, f \in MediaFile :
       unit[<<r, f>>].status = "absent" => unit'[<<r, f>>].status = "absent"
  /\ \A r \in RunId :
       /\ walk'[r] = walk[r] \/ walk'[r] = NoWalk
       /\ run'[r].status = "none" => run[r].status = "none"
       /\ run'[r].status = "failed" => run[r].status = "failed" \/ walk'[r] = NoWalk

LEMMA NoneAddedKeeps ==
  ASSUME ThreadsTyped, WalksAdd, NoneAdded
  PROVE  WalksAdd'
<1>1. NoWalk.by = NoAuditor
  BY DEF NoWalk
<1>2. \A r \in RunId : walk[r].todo \subseteq MediaFile
  BY WalkRows DEF ThreadsTyped
<1>. QED BY <1>1, <1>2 DEF WalksAdd, NoneAdded

\* A run begins with no unit.
LEMMA BeginKeeps ==
  ASSUME TablesTyped, ThreadsTyped, WorldTyped, WalksAdd, UNCHANGED unit,
         Unused # {}, NEW a \in Auditor, NEW api \in BOOLEAN, Begin(a, api)
  PROVE  WalksAdd'
<1>1. PICK r \in RunId :
        /\ run[r].status = "none" /\ run'[r].status = "enumerating"
        /\ walk'[r] = [by |-> a, api |-> api, todo |-> Present, n |-> 0]
        /\ \A q \in RunId \ {r} : run'[q] = run[q] /\ walk'[q] = walk[q]
  BY BeginTyped
<1>2. Present \subseteq MediaFile
  BY DEF Present
<1>3. walk'[r].todo = Present
  BY <1>1
<1>. QED BY <1>1, <1>2, <1>3 DEF WalksAdd

LEMMA WalksAddKept ==
  ASSUME TablesTyped, ThreadsTyped, WorldTyped, ThreadsLive, WalksAdd, [AuditNext]_auditVars
  PROVE  WalksAdd'
<1>1. ASSUME NEW a \in Auditor, SweepStale(a) PROVE WalksAdd'
  <2>1. \A r \in RunId, f \in MediaFile :
          unit[<<r, f>>].status = "absent" => unit'[<<r, f>>] = unit[<<r, f>>]
    BY <1>1, GiveBackTyped DEF SweepStale, StaleClaims, Unit
  <2>2. NoneAdded
    BY <1>1, <2>1 DEF SweepStale, NoneAdded
  <2>. QED BY <2>2, NoneAddedKeeps
<1>2. ASSUME NEW a \in Auditor, CompleteFinished(a) PROVE WalksAdd'
  <2>1. \A r \in RunId : run'[r].status \in {"none", "failed"} => run'[r] = run[r]
    <3>1. \A r \in RunId : [run[r] EXCEPT !.status = "completed"].status = "completed"
      BY DEF TablesTyped, RunRow
    <3>. QED BY <1>2, <3>1 DEF CompleteFinished
  <2>2. NoneAdded
    BY <1>2, <2>1 DEF CompleteFinished, NoneAdded
  <2>. QED BY <2>2, NoneAddedKeeps
<1>3. ASSUME NEW a \in Auditor, RollUp(a) PROVE WalksAdd'
  <2>1. NoneAdded
    BY <1>3 DEF RollUp, NoneAdded
  <2>. QED BY <2>1, NoneAddedKeeps
<1>4. ASSUME NEW a \in Auditor, Purge(a) PROVE WalksAdd'
  <2>1. NoneAdded
    BY <1>4 DEF Purge, NoneAdded
  <2>. QED BY <2>1, NoneAddedKeeps
<1>5. ASSUME NEW a \in Auditor, Look(a) PROVE WalksAdd'
  <2>1. NoneAdded
    BY <1>5 DEF Look, NoneAdded, tables
  <2>. QED BY <2>1, NoneAddedKeeps
<1>6. ASSUME NEW a \in Auditor, StartRun(a) PROVE WalksAdd'
  <2>1. CASE lock = NoAuditor /\ Unused # {}
    BY <1>6, <2>1, BeginKeeps DEF StartRun
  <2>2. CASE ~ (lock = NoAuditor /\ Unused # {})
    <3>1. NoneAdded
      BY <1>6, <2>2 DEF StartRun, NoneAdded
    <3>. QED BY <3>1, NoneAddedKeeps
  <2>. QED BY <2>1, <2>2
<1>7. ASSUME NEW a \in Auditor, ApiTrigger(a) PROVE WalksAdd'
  BY <1>7, BeginKeeps DEF ApiTrigger, WalksAdd
<1>8. ASSUME NEW a \in Auditor, AuditCrash(a) PROVE WalksAdd'
  <2>1. \A r \in RunId : walk'[r] = walk[r] \/ walk'[r] = NoWalk
    BY <1>8 DEF AuditCrash
  <2>2. NoneAdded
    BY <1>8, <2>1 DEF AuditCrash, tables, NoneAdded
  <2>. QED BY <2>2, NoneAddedKeeps
<1>9. ASSUME NEW a \in Auditor, ReplaceWorker(a) PROVE WalksAdd'
  <2>1. \A r \in RunId, f \in MediaFile :
          unit[<<r, f>>].status = "absent" => unit'[<<r, f>>] = unit[<<r, f>>]
    BY <1>9, GiveBackTyped DEF ReplaceWorker, ClaimsOf, Unit
  <2>2. NoneAdded
    BY <1>9, <2>1 DEF ReplaceWorker, NoneAdded
  <2>. QED BY <2>2, NoneAddedKeeps
<1>10. ASSUME NEW a \in Auditor, AuditRestart(a) PROVE WalksAdd'
  <2>1. \A r \in RunId, f \in MediaFile :
          unit[<<r, f>>].status = "absent" => unit'[<<r, f>>] = unit[<<r, f>>]
    BY <1>10, GiveBackTyped DEF AuditRestart, ClaimsOf, Unit
  <2>2. NoneAdded
    BY <1>10, <2>1 DEF AuditRestart, NoneAdded
  <2>. QED BY <2>2, NoneAddedKeeps
<1>11. ASSUME NEW a \in Auditor, NEW r \in RunId, NEW fs \in SUBSET MediaFile,
              ClaimUnits(a, r, fs)
       PROVE  WalksAdd'
  <2>1. \A q \in RunId, f \in MediaFile :
          unit[<<q, f>>].status = "absent" => unit'[<<q, f>>] = unit[<<q, f>>]
    BY <1>11 DEF ClaimUnits, Unit
  <2>2. NoneAdded
    BY <1>11, <2>1 DEF ClaimUnits, NoneAdded
  <2>. QED BY <2>2, NoneAddedKeeps
<1>12. ASSUME NEW r \in RunId, NEW fs \in SUBSET MediaFile,
              EnqueueUnits(r, fs)
       PROVE  WalksAdd'
  <2>1. /\ \A u \in Unit : unit'[u] = IF u \in {r} \X fs THEN Pending ELSE unit[u]
        /\ run'[r].status = "probing"
        /\ walk'[r].by = walk[r].by /\ walk'[r].todo = walk[r].todo \ fs /\ walk'[r].n # 0
        /\ \A q \in RunId \ {r} : run'[q] = run[q] /\ walk'[q] = walk[q]
    BY <1>12, EnqueueTyped
  <2>2. walk[r].by # NoAuditor /\ walk[r].todo \subseteq MediaFile
    BY <1>12, AuditAssumption, WalkRows DEF EnqueueUnits, ThreadsTyped
  <2>3. \A f \in walk'[r].todo : unit'[<<r, f>>].status = "absent"
    <3>. SUFFICES ASSUME NEW f \in walk'[r].todo PROVE unit'[<<r, f>>].status = "absent"
      OBVIOUS
    <3>1. f \in walk[r].todo /\ f \notin fs /\ <<r, f>> \in Unit
      BY <2>1, <2>2 DEF Unit
    <3>2. unit[<<r, f>>].status = "absent"
      BY <2>2, <3>1 DEF WalksAdd
    <3>. QED BY <2>1, <3>1, <3>2
  <2>4. \A q \in RunId \ {r}, f \in MediaFile : unit'[<<q, f>>] = unit[<<q, f>>]
    BY <2>1 DEF Unit
  <2>5. \A q \in RunId \ {r} : walk[q].todo \subseteq MediaFile
    BY WalkRows DEF ThreadsTyped
  <2>. QED
    <3>. SUFFICES ASSUME NEW q \in RunId
                  PROVE  /\ run'[q].status \in {"none", "failed"} => walk'[q].by = NoAuditor
                         /\ run'[q].status = "none" =>
                              \A f \in MediaFile : unit'[<<q, f>>].status = "absent"
                         /\ walk'[q].by # NoAuditor =>
                              /\ \A f \in walk'[q].todo : unit'[<<q, f>>].status = "absent"
                              /\ walk'[q].n = 0 =>
                                   \A f \in MediaFile : unit'[<<q, f>>].status = "absent"
      BY DEF WalksAdd
    <3>1. CASE q = r
      BY <2>1, <2>3, <3>1
    <3>2. CASE q # r
      BY <2>1, <2>4, <2>5, <3>2 DEF WalksAdd
    <3>. QED BY <3>1, <3>2
<1>13. ASSUME NEW r \in RunId, FinishWalk(r) PROVE WalksAdd'
  <2>1. walk'[r] = NoWalk /\ \A q \in RunId \ {r} : walk'[q] = walk[q]
    BY <1>13, EndWalkTyped DEF FinishWalk, ThreadsTyped
  <2>2. \A q \in RunId : run'[q] = run[q] \/ (q = r /\ run'[q].status = "completed")
    BY <1>13, SetStatusTyped DEF FinishWalk
  <2>3. NoneAdded
    BY <1>13, <2>1, <2>2 DEF FinishWalk, NoneAdded
  <2>. QED BY <2>3, NoneAddedKeeps
<1>14. ASSUME NEW r \in RunId, FailWalk(r) PROVE WalksAdd'
  <2>1. walk'[r] = NoWalk /\ \A q \in RunId \ {r} : walk'[q] = walk[q]
    BY <1>14, EndWalkTyped DEF FailWalk, ThreadsTyped
  <2>2. \A q \in RunId : run'[q] = run[q] \/ (q = r /\ run'[q].status = "failed")
    BY <1>14, SetStatusTyped DEF FailWalk
  <2>3. NoneAdded
    BY <1>14, <2>1, <2>2 DEF FailWalk, NoneAdded
  <2>. QED BY <2>3, NoneAddedKeeps
<1>15. ASSUME NEW r \in RunId, StopWalk(r) PROVE WalksAdd'
  <2>1. walk'[r] = NoWalk /\ \A q \in RunId \ {r} : walk'[q] = walk[q]
    BY <1>15, EndWalkTyped DEF StopWalk, ThreadsTyped
  <2>2. run' = run
    BY <1>15 DEF StopWalk, tables
  <2>3. NoneAdded
    BY <1>15, <2>1, <2>2 DEF StopWalk, NoneAdded, tables
  <2>. QED BY <2>3, NoneAddedKeeps
<1>16. ASSUME NEW a \in Auditor, NEW r \in RunId, NEW f \in MediaFile,
              Probe(a, r, f)
       PROVE  WalksAdd'
  <2>1. NoneAdded
    BY <1>16 DEF Probe, NoneAdded
  <2>. QED BY <2>1, NoneAddedKeeps
<1>17. ASSUME NEW a \in Auditor, NEW r \in RunId, NEW f \in MediaFile,
              Report(a, r, f)
       PROVE  WalksAdd'
  <2>1. NoneAdded
    BY <1>17 DEF Report, NoneAdded
  <2>. QED BY <2>1, NoneAddedKeeps
<1>18. ASSUME NEW a \in Auditor, NEW r \in RunId, NEW f \in MediaFile,
              Fix(a, r, f)
       PROVE  WalksAdd'
  <2>1. NoneAdded
    BY <1>18 DEF Fix, NoneAdded, tables
  <2>. QED BY <2>1, NoneAddedKeeps
<1>19. ASSUME NEW a \in Auditor, NEW r \in RunId, NEW f \in MediaFile,
              Finish(a, r, f)
       PROVE  WalksAdd'
  <2>1. MarkDone(a, <<r, f>>, "done") /\ task[<<a, r, f>>] # "none"
    BY <1>19 DEF Finish, Processed
  <2>2. /\ \A u \in Unit \ {<<r, f>>} : unit'[u] = unit[u]
        /\ run'[r].status = run[r].status /\ \A q \in RunId \ {r} : run'[q] = run[q]
    BY <2>1, MarkDoneTyped
  <2>3. unit[<<r, f>>].status # "absent"
    BY <2>1 DEF ThreadsLive
  <2>4. \A q \in RunId, g \in MediaFile :
          unit[<<q, g>>].status = "absent" => unit'[<<q, g>>] = unit[<<q, g>>]
    BY <2>2, <2>3 DEF Unit
  <2>5. NoneAdded
    BY <1>19, <2>2, <2>4 DEF Finish, NoneAdded
  <2>. QED BY <2>5, NoneAddedKeeps
<1>20. ASSUME NEW a \in Auditor, NEW r \in RunId, NEW f \in MediaFile,
              ProbeError(a, r, f)
       PROVE  WalksAdd'
  <2>1. MarkDone(a, <<r, f>>, "error") /\ task[<<a, r, f>>] # "none"
    BY <1>20 DEF ProbeError, Processed
  <2>2. /\ \A u \in Unit \ {<<r, f>>} : unit'[u] = unit[u]
        /\ run'[r].status = run[r].status /\ \A q \in RunId \ {r} : run'[q] = run[q]
    BY <2>1, MarkDoneTyped
  <2>3. unit[<<r, f>>].status # "absent"
    BY <2>1 DEF ThreadsLive
  <2>4. \A q \in RunId, g \in MediaFile :
          unit[<<q, g>>].status = "absent" => unit'[<<q, g>>] = unit[<<q, g>>]
    BY <2>2, <2>3 DEF Unit
  <2>5. NoneAdded
    BY <1>20, <2>2, <2>4 DEF ProbeError, NoneAdded
  <2>. QED BY <2>5, NoneAddedKeeps
<1>21. ASSUME NEW a \in Auditor, NEW r \in RunId, NEW f \in MediaFile,
              LoseUnit(a, r, f)
       PROVE  WalksAdd'
  <2>1. NoneAdded
    BY <1>21 DEF LoseUnit, NoneAdded, tables
  <2>. QED BY <2>1, NoneAddedKeeps
<1>22. ASSUME NEW u \in Unit, Age(u) PROVE WalksAdd'
  <2>1. \A r \in RunId, f \in MediaFile :
          unit[<<r, f>>].status = "absent" => unit'[<<r, f>>] = unit[<<r, f>>]
    BY <1>22 DEF Age, Unit, TablesTyped
  <2>2. NoneAdded
    BY <1>22, <2>1 DEF Age, NoneAdded
  <2>. QED BY <2>2, NoneAddedKeeps
<1>23. ASSUME NEW k \in Found \X MediaFile, NEW s \in {"acked", "dismissed", "resolved"},
              SetFindingStatus(k, s)
       PROVE  WalksAdd'
  <2>1. NoneAdded
    BY <1>23 DEF SetFindingStatus, NoneAdded
  <2>. QED BY <2>1, NoneAddedKeeps
<1>24. CASE UNCHANGED auditVars
  <2>1. NoneAdded
    BY <1>24 DEF auditVars, tables, NoneAdded
  <2>. QED BY <2>1, NoneAddedKeeps
<1>. QED
  BY <1>1, <1>2, <1>3, <1>4, <1>5, <1>6, <1>7, <1>8, <1>9, <1>10, <1>11, <1>12, <1>13,
     <1>14, <1>15, <1>16, <1>17, <1>18, <1>19, <1>20, <1>21, <1>22, <1>23, <1>24
     DEF AuditNext, Cycle, Enumerate, Work, Claiming, Disturbed

-----------------------------------------------------------------------------
(* A run that is completed has no open unit.                               *)

\* Steps after which a run is not completed, or has no more open units than before.
NoneOpened ==
  \A r \in RunId : run'[r].status = "completed" =>
    \A f \in MediaFile : Open(<<r, f>>)' => Open(<<r, f>>) /\ run[r].status = "completed"

LEMMA NoneOpenedKeeps ==
  ASSUME CompletedMeansProbed, NoneOpened
  PROVE  CompletedMeansProbed'
<1>1. \A r \in RunId, f \in MediaFile : run'[r].status = "completed" => ~ Open(<<r, f>>)'
  BY Zenon DEF CompletedMeansProbed, NoneOpened, UnitsOf
<1>. QED BY <1>1 DEF CompletedMeansProbed, UnitsOf

LEMMA CompletedKept ==
  ASSUME TablesTyped, ThreadsTyped, WorldTyped, ThreadsLive, WalksAdd,
         CompletedMeansProbed, [AuditNext]_auditVars
  PROVE  CompletedMeansProbed'
<1>1. ASSUME NEW a \in Auditor, SweepStale(a) PROVE CompletedMeansProbed'
  <2>1. \A r \in RunId, f \in MediaFile :
          unit'[<<r, f>>] = unit[<<r, f>>] \/ unit[<<r, f>>].status = "claimed"
    BY <1>1, GiveBackTyped DEF SweepStale, StaleClaims, Unit
  <2>2. NoneOpened
    BY <1>1, <2>1 DEF SweepStale, NoneOpened, Open, CompletedMeansProbed, UnitsOf
  <2>. QED BY <2>2, NoneOpenedKeeps
<1>2. ASSUME NEW a \in Auditor, CompleteFinished(a) PROVE CompletedMeansProbed'
  <2>1. \A r \in RunId \ FinishedRuns : run'[r] = run[r]
    BY <1>2 DEF CompleteFinished
  <2>2. \A r \in FinishedRuns, f \in MediaFile : ~ Open(<<r, f>>)
    BY DEF FinishedRuns, UnitsOf
  <2>3. \A u : Open(u)' <=> Open(u)
    BY <1>2 DEF CompleteFinished, Open
  <2>4. NoneOpened
    BY <2>1, <2>2, <2>3 DEF NoneOpened
  <2>. QED BY <2>4, NoneOpenedKeeps
<1>3. ASSUME NEW a \in Auditor, RollUp(a) PROVE CompletedMeansProbed'
  <2>1. NoneOpened
    BY <1>3 DEF RollUp, NoneOpened, Open
  <2>. QED BY <2>1, NoneOpenedKeeps
<1>4. ASSUME NEW a \in Auditor, Purge(a) PROVE CompletedMeansProbed'
  <2>1. NoneOpened
    BY <1>4 DEF Purge, NoneOpened, Open
  <2>. QED BY <2>1, NoneOpenedKeeps
<1>5. ASSUME NEW a \in Auditor, Look(a) PROVE CompletedMeansProbed'
  <2>1. NoneOpened
    BY <1>5 DEF Look, NoneOpened, Open, tables
  <2>. QED BY <2>1, NoneOpenedKeeps
<1>6. ASSUME NEW a \in Auditor, StartRun(a) PROVE CompletedMeansProbed'
  <2>1. CASE lock = NoAuditor /\ Unused # {}
    <3>1. PICK r \in RunId : run'[r].status = "enumerating" /\ \A q \in RunId \ {r} : run'[q] = run[q]
      BY <1>6, <2>1, BeginTyped DEF StartRun
    <3>2. NoneOpened
      BY <1>6, <3>1 DEF StartRun, NoneOpened, Open
    <3>. QED BY <3>2, NoneOpenedKeeps
  <2>2. CASE ~ (lock = NoAuditor /\ Unused # {})
    <3>1. NoneOpened
      BY <1>6, <2>2 DEF StartRun, NoneOpened, Open
    <3>. QED BY <3>1, NoneOpenedKeeps
  <2>. QED BY <2>1, <2>2
<1>7. ASSUME NEW a \in Auditor, ApiTrigger(a) PROVE CompletedMeansProbed'
  <2>1. PICK r \in RunId : run'[r].status = "enumerating" /\ \A q \in RunId \ {r} : run'[q] = run[q]
    BY <1>7, BeginTyped DEF ApiTrigger
  <2>2. NoneOpened
    BY <1>7, <2>1 DEF ApiTrigger, NoneOpened, Open
  <2>. QED BY <2>2, NoneOpenedKeeps
<1>8. ASSUME NEW a \in Auditor, AuditCrash(a) PROVE CompletedMeansProbed'
  <2>1. NoneOpened
    BY <1>8 DEF AuditCrash, NoneOpened, Open, tables
  <2>. QED BY <2>1, NoneOpenedKeeps
<1>9. ASSUME NEW a \in Auditor, ReplaceWorker(a) PROVE CompletedMeansProbed'
  <2>1. \A r \in RunId, f \in MediaFile :
          unit'[<<r, f>>] = unit[<<r, f>>] \/ unit[<<r, f>>].status = "claimed"
    BY <1>9, GiveBackTyped DEF ReplaceWorker, ClaimsOf, Unit
  <2>2. NoneOpened
    BY <1>9, <2>1 DEF ReplaceWorker, NoneOpened, Open, CompletedMeansProbed, UnitsOf
  <2>. QED BY <2>2, NoneOpenedKeeps
<1>10. ASSUME NEW a \in Auditor, AuditRestart(a) PROVE CompletedMeansProbed'
  <2>1. \A r \in RunId, f \in MediaFile :
          unit'[<<r, f>>] = unit[<<r, f>>] \/ unit[<<r, f>>].status = "claimed"
    BY <1>10, GiveBackTyped DEF AuditRestart, ClaimsOf, Unit
  <2>2. NoneOpened
    BY <1>10, <2>1 DEF AuditRestart, NoneOpened, Open, CompletedMeansProbed, UnitsOf
  <2>. QED BY <2>2, NoneOpenedKeeps
<1>11. ASSUME NEW a \in Auditor, NEW r \in RunId, NEW fs \in SUBSET MediaFile,
              ClaimUnits(a, r, fs)
       PROVE  CompletedMeansProbed'
  <2>1. \A q \in RunId, f \in MediaFile :
          unit'[<<q, f>>] = unit[<<q, f>>] \/ unit[<<q, f>>].status = "pending"
    BY <1>11 DEF ClaimUnits, Unit
  <2>2. NoneOpened
    BY <1>11, <2>1 DEF ClaimUnits, NoneOpened, Open, CompletedMeansProbed, UnitsOf
  <2>. QED BY <2>2, NoneOpenedKeeps
<1>12. ASSUME NEW r \in RunId, NEW fs \in SUBSET MediaFile,
              EnqueueUnits(r, fs)
       PROVE  CompletedMeansProbed'
  <2>1. /\ \A u \in Unit : unit'[u] = IF u \in {r} \X fs THEN Pending ELSE unit[u]
        /\ run'[r].status = "probing" /\ \A q \in RunId \ {r} : run'[q] = run[q]
    BY <1>12, EnqueueTyped
  <2>2. \A q \in RunId \ {r}, f \in MediaFile : unit'[<<q, f>>] = unit[<<q, f>>]
    BY <2>1 DEF Unit
  <2>3. NoneOpened
    BY <2>1, <2>2 DEF NoneOpened, Open
  <2>. QED BY <2>3, NoneOpenedKeeps
<1>13. ASSUME NEW r \in RunId, FinishWalk(r) PROVE CompletedMeansProbed'
  <2>1. walk[r].by # NoAuditor /\ unit' = unit
    BY <1>13, AuditAssumption DEF FinishWalk, ThreadsTyped
  <2>2. CASE walk[r].n = 0
    <3>1. \A f \in MediaFile : ~ Open(<<r, f>>)
      BY <2>1, <2>2 DEF WalksAdd, Open
    <3>2. \A q \in RunId \ {r} : run'[q] = run[q]
      BY <1>13, <2>2, SetStatusTyped DEF FinishWalk
    <3>3. NoneOpened
      BY <2>1, <3>1, <3>2 DEF NoneOpened, Open
    <3>. QED BY <3>3, NoneOpenedKeeps
  <2>3. CASE walk[r].n # 0
    <3>1. NoneOpened
      BY <1>13, <2>1, <2>3 DEF FinishWalk, NoneOpened, Open
    <3>. QED BY <3>1, NoneOpenedKeeps
  <2>. QED BY <2>2, <2>3
<1>14. ASSUME NEW r \in RunId, FailWalk(r) PROVE CompletedMeansProbed'
  <2>1. \A q \in RunId : run'[q] = run[q] \/ run'[q].status = "failed"
    BY <1>14, SetStatusTyped DEF FailWalk
  <2>2. NoneOpened
    BY <1>14, <2>1 DEF FailWalk, NoneOpened, Open
  <2>. QED BY <2>2, NoneOpenedKeeps
<1>15. ASSUME NEW r \in RunId, StopWalk(r) PROVE CompletedMeansProbed'
  <2>1. NoneOpened
    BY <1>15 DEF StopWalk, NoneOpened, Open, tables
  <2>. QED BY <2>1, NoneOpenedKeeps
<1>16. ASSUME NEW a \in Auditor, NEW r \in RunId, NEW f \in MediaFile,
              Probe(a, r, f)
       PROVE  CompletedMeansProbed'
  <2>1. NoneOpened
    BY <1>16 DEF Probe, NoneOpened, Open
  <2>. QED BY <2>1, NoneOpenedKeeps
<1>17. ASSUME NEW a \in Auditor, NEW r \in RunId, NEW f \in MediaFile,
              Report(a, r, f)
       PROVE  CompletedMeansProbed'
  <2>1. NoneOpened
    BY <1>17 DEF Report, NoneOpened, Open
  <2>. QED BY <2>1, NoneOpenedKeeps
<1>18. ASSUME NEW a \in Auditor, NEW r \in RunId, NEW f \in MediaFile,
              Fix(a, r, f)
       PROVE  CompletedMeansProbed'
  <2>1. NoneOpened
    BY <1>18 DEF Fix, NoneOpened, Open, tables
  <2>. QED BY <2>1, NoneOpenedKeeps
<1>19. ASSUME NEW a \in Auditor, NEW r \in RunId, NEW f \in MediaFile,
              Finish(a, r, f)
       PROVE  CompletedMeansProbed'
  <2>1. MarkDone(a, <<r, f>>, "done")
    BY <1>19 DEF Finish
  <2>2. /\ unit'[<<r, f>>].status = "done"
        /\ \A u \in Unit \ {<<r, f>>} : unit'[u] = unit[u]
        /\ run'[r].status = run[r].status /\ \A q \in RunId \ {r} : run'[q] = run[q]
    BY <2>1, MarkDoneTyped
  <2>3. \A q \in RunId, g \in MediaFile :
          unit'[<<q, g>>] = unit[<<q, g>>] \/ unit'[<<q, g>>].status = "done"
    BY <2>2 DEF Unit
  <2>4. NoneOpened
    BY <2>2, <2>3 DEF NoneOpened, Open, CompletedMeansProbed, UnitsOf
  <2>. QED BY <2>4, NoneOpenedKeeps
<1>20. ASSUME NEW a \in Auditor, NEW r \in RunId, NEW f \in MediaFile,
              ProbeError(a, r, f)
       PROVE  CompletedMeansProbed'
  <2>1. MarkDone(a, <<r, f>>, "error")
    BY <1>20 DEF ProbeError
  <2>2. /\ unit'[<<r, f>>].status = "error"
        /\ \A u \in Unit \ {<<r, f>>} : unit'[u] = unit[u]
        /\ run'[r].status = run[r].status /\ \A q \in RunId \ {r} : run'[q] = run[q]
    BY <2>1, MarkDoneTyped
  <2>3. \A q \in RunId, g \in MediaFile :
          unit'[<<q, g>>] = unit[<<q, g>>] \/ unit'[<<q, g>>].status = "error"
    BY <2>2 DEF Unit
  <2>4. NoneOpened
    BY <2>2, <2>3 DEF NoneOpened, Open, CompletedMeansProbed, UnitsOf
  <2>. QED BY <2>4, NoneOpenedKeeps
<1>21. ASSUME NEW a \in Auditor, NEW r \in RunId, NEW f \in MediaFile,
              LoseUnit(a, r, f)
       PROVE  CompletedMeansProbed'
  <2>1. NoneOpened
    BY <1>21 DEF LoseUnit, NoneOpened, Open, tables
  <2>. QED BY <2>1, NoneOpenedKeeps
<1>22. ASSUME NEW u \in Unit, Age(u) PROVE CompletedMeansProbed'
  <2>1. \A r \in RunId, f \in MediaFile :
          unit'[<<r, f>>] = unit[<<r, f>>] \/ unit[<<r, f>>].status = "claimed"
    BY <1>22 DEF Age, Unit, TablesTyped
  <2>2. NoneOpened
    BY <1>22, <2>1 DEF Age, NoneOpened, Open, CompletedMeansProbed, UnitsOf
  <2>. QED BY <2>2, NoneOpenedKeeps
<1>23. ASSUME NEW k \in Found \X MediaFile, NEW s \in {"acked", "dismissed", "resolved"},
              SetFindingStatus(k, s)
       PROVE  CompletedMeansProbed'
  <2>1. NoneOpened
    BY <1>23 DEF SetFindingStatus, NoneOpened, Open
  <2>. QED BY <2>1, NoneOpenedKeeps
<1>24. CASE UNCHANGED auditVars
  <2>1. NoneOpened
    BY <1>24 DEF auditVars, tables, NoneOpened, Open
  <2>. QED BY <2>1, NoneOpenedKeeps
<1>. QED
  BY <1>1, <1>2, <1>3, <1>4, <1>5, <1>6, <1>7, <1>8, <1>9, <1>10, <1>11, <1>12, <1>13,
     <1>14, <1>15, <1>16, <1>17, <1>18, <1>19, <1>20, <1>21, <1>22, <1>23, <1>24
     DEF AuditNext, Cycle, Enumerate, Work, Claiming, Disturbed

-----------------------------------------------------------------------------
(* done_units counts the units that ended.                                 *)

EndedUnit(u) == unit[u].status \in {"done", "error"}

LEMMA EndedCounted ==
  ASSUME NEW r \in RunId
  PROVE  IsFiniteSet(Ended(r)) /\ Cardinality(Ended(r)) \in Nat
<1>1. IsFiniteSet({r}) /\ IsFiniteSet(MediaFile)
  BY AuditAssumption, FS_Singleton
<1>2. IsFiniteSet(UnitsOf(r))
  BY <1>1, FS_Product DEF UnitsOf
<1>3. Ended(r) \in SUBSET UnitsOf(r)
  BY DEF Ended
<1>. QED BY <1>2, <1>3, FS_Subset, FS_CardinalityType

\* Steps that mark no unit.
NoneEnded ==
  /\ freed \subseteq freed'
  /\ \A r \in RunId : run'[r].done = run[r].done
  /\ \A r \in RunId, f \in MediaFile : EndedUnit(<<r, f>>)' <=> EndedUnit(<<r, f>>)

LEMMA NoneEndedKeeps ==
  ASSUME CountsInv, NoneEnded
  PROVE  CountsInv'
<1>. SUFFICES ASSUME NEW r \in RunId, (UnitsOf(r) \cap freed)' = {}
              PROVE  run'[r].done = Cardinality(Ended(r)')
  BY DEF CountsInv
<1>1. UnitsOf(r) \cap freed = {}
  BY DEF NoneEnded, UnitsOf
<1>2. \A u \in UnitsOf(r) : EndedUnit(u)' <=> EndedUnit(u)
  BY DEF NoneEnded, UnitsOf
<1>3. Ended(r)' = {u \in UnitsOf(r) : EndedUnit(u)'} /\ Ended(r) = {u \in UnitsOf(r) : EndedUnit(u)}
  BY DEF Ended, EndedUnit, UnitsOf
<1>4. Ended(r)' = Ended(r)
  BY <1>2, <1>3
<1>5. run'[r].done = run[r].done
  BY DEF NoneEnded
<1>. QED BY <1>1, <1>4, <1>5 DEF CountsInv

\* A unit is marked once, unless its claim was taken from the thread.
LEMMA MarkDoneCounted ==
  ASSUME TablesTyped, ThreadsTyped, ThreadsLive, CountsInv, UNCHANGED freed,
         NEW a \in Auditor, NEW r \in RunId, NEW f \in MediaFile, NEW s \in {"done", "error"},
         task[<<a, r, f>>] # "none", MarkDone(a, <<r, f>>, s)
  PROVE  CountsInv'
<1>. SUFFICES ASSUME NEW q \in RunId, (UnitsOf(q) \cap freed)' = {}
              PROVE  run'[q].done = Cardinality(Ended(q)')
  BY DEF CountsInv
<1>. DEFINE u == <<r, f>>
<1>1. /\ unit'[u].status = s /\ \A v \in Unit \ {u} : unit'[v] = unit[v]
      /\ run'[r].done = run[r].done + 1 /\ \A p \in RunId \ {r} : run'[p] = run[p]
  BY MarkDoneTyped
<1>2. UnitsOf(q) \cap freed = {} /\ UnitsOf(q) \subseteq Unit
  BY DEF UnitsOf, Unit
<1>3. run[q].done = Cardinality(Ended(q))
  BY <1>2 DEF CountsInv
<1>4. Ended(q)' = {v \in UnitsOf(q) : unit'[v].status \in {"done", "error"}}
  BY DEF Ended, UnitsOf
<1>5. CASE q = r
  <2>1. u \in UnitsOf(r) /\ u \notin freed
    BY <1>2, <1>5 DEF UnitsOf
  <2>2. unit[u].status = "claimed"
    BY <2>1 DEF ThreadsLive
  <2>3. u \notin Ended(r) /\ Ended(q)' = Ended(r) \cup {u}
    BY <1>1, <1>2, <1>4, <1>5, <2>1, <2>2 DEF Ended
  <2>4. Cardinality(Ended(r) \cup {u}) = Cardinality(Ended(r)) + 1
    BY <2>3, EndedCounted, FS_AddElement
  <2>. QED BY <1>1, <1>3, <1>5, <2>3, <2>4
<1>6. CASE q # r
  <2>1. u \notin UnitsOf(q)
    BY <1>6 DEF UnitsOf
  <2>2. Ended(q)' = Ended(q)
    BY <1>1, <1>2, <1>4, <2>1 DEF Ended
  <2>. QED BY <1>1, <1>3, <1>6, <2>2
<1>. QED BY <1>5, <1>6

LEMMA CountsKept ==
  ASSUME TablesTyped, ThreadsTyped, WorldTyped, ThreadsLive, WalksAdd, CountsInv,
         [AuditNext]_auditVars
  PROVE  CountsInv'
<1>1. ASSUME NEW a \in Auditor, SweepStale(a) PROVE CountsInv'
  <2>1. \A r \in RunId, f \in MediaFile :
          \/ unit'[<<r, f>>] = unit[<<r, f>>]
          \/ unit[<<r, f>>].status = "claimed" /\ unit'[<<r, f>>] = Pending
    BY <1>1, GiveBackTyped DEF SweepStale, StaleClaims, Unit
  <2>2. Pending.status = "pending"
    BY DEF Pending
  <2>3. \A r \in RunId, f \in MediaFile : EndedUnit(<<r, f>>)' <=> EndedUnit(<<r, f>>)
    BY <2>1, <2>2 DEF EndedUnit
  <2>4. NoneEnded
    BY <1>1, <2>3 DEF SweepStale, NoneEnded
  <2>. QED BY <2>4, NoneEndedKeeps
<1>2. ASSUME NEW a \in Auditor, CompleteFinished(a) PROVE CountsInv'
  <2>1. \A r \in RunId : [run[r] EXCEPT !.status = "completed"].done = run[r].done
    BY DEF TablesTyped, RunRow
  <2>2. \A r \in RunId : run'[r].done = run[r].done
    BY <1>2, <2>1 DEF CompleteFinished
  <2>3. NoneEnded
    BY <1>2, <2>2 DEF CompleteFinished, NoneEnded, EndedUnit
  <2>. QED BY <2>3, NoneEndedKeeps
<1>3. ASSUME NEW a \in Auditor, RollUp(a) PROVE CountsInv'
  <2>1. NoneEnded
    BY <1>3 DEF RollUp, NoneEnded, EndedUnit
  <2>. QED BY <2>1, NoneEndedKeeps
<1>4. ASSUME NEW a \in Auditor, Purge(a) PROVE CountsInv'
  <2>1. NoneEnded
    BY <1>4 DEF Purge, NoneEnded, EndedUnit
  <2>. QED BY <2>1, NoneEndedKeeps
<1>5. ASSUME NEW a \in Auditor, Look(a) PROVE CountsInv'
  <2>1. NoneEnded
    BY <1>5 DEF Look, NoneEnded, EndedUnit, tables
  <2>. QED BY <2>1, NoneEndedKeeps
<1>6. ASSUME NEW a \in Auditor, StartRun(a) PROVE CountsInv'
  <2>1. \A r \in RunId : run'[r].done = run[r].done
    <3>1. CASE lock = NoAuditor /\ Unused # {}
      BY <1>6, <3>1, BeginTyped DEF StartRun
    <3>2. CASE ~ (lock = NoAuditor /\ Unused # {})
      BY <1>6, <3>2 DEF StartRun
    <3>. QED BY <3>1, <3>2
  <2>2. NoneEnded
    BY <1>6, <2>1 DEF StartRun, NoneEnded, EndedUnit
  <2>. QED BY <2>2, NoneEndedKeeps
<1>7. ASSUME NEW a \in Auditor, ApiTrigger(a) PROVE CountsInv'
  <2>1. \A r \in RunId : run'[r].done = run[r].done
    BY <1>7, BeginTyped DEF ApiTrigger
  <2>2. NoneEnded
    BY <1>7, <2>1 DEF ApiTrigger, NoneEnded, EndedUnit
  <2>. QED BY <2>2, NoneEndedKeeps
<1>8. ASSUME NEW a \in Auditor, AuditCrash(a) PROVE CountsInv'
  <2>1. NoneEnded
    BY <1>8 DEF AuditCrash, NoneEnded, EndedUnit, tables
  <2>. QED BY <2>1, NoneEndedKeeps
<1>9. ASSUME NEW a \in Auditor, ReplaceWorker(a) PROVE CountsInv'
  <2>1. \A r \in RunId, f \in MediaFile :
          \/ unit'[<<r, f>>] = unit[<<r, f>>]
          \/ unit[<<r, f>>].status = "claimed" /\ unit'[<<r, f>>] = Pending
    BY <1>9, GiveBackTyped DEF ReplaceWorker, ClaimsOf, Unit
  <2>2. Pending.status = "pending"
    BY DEF Pending
  <2>3. \A r \in RunId, f \in MediaFile : EndedUnit(<<r, f>>)' <=> EndedUnit(<<r, f>>)
    BY <2>1, <2>2 DEF EndedUnit
  <2>4. NoneEnded
    BY <1>9, <2>3 DEF ReplaceWorker, NoneEnded
  <2>. QED BY <2>4, NoneEndedKeeps
<1>10. ASSUME NEW a \in Auditor, AuditRestart(a) PROVE CountsInv'
  <2>1. \A r \in RunId, f \in MediaFile :
          \/ unit'[<<r, f>>] = unit[<<r, f>>]
          \/ unit[<<r, f>>].status = "claimed" /\ unit'[<<r, f>>] = Pending
    BY <1>10, GiveBackTyped DEF AuditRestart, ClaimsOf, Unit
  <2>2. Pending.status = "pending"
    BY DEF Pending
  <2>3. \A r \in RunId, f \in MediaFile : EndedUnit(<<r, f>>)' <=> EndedUnit(<<r, f>>)
    BY <2>1, <2>2 DEF EndedUnit
  <2>4. NoneEnded
    BY <1>10, <2>3 DEF AuditRestart, NoneEnded
  <2>. QED BY <2>4, NoneEndedKeeps
<1>11. ASSUME NEW a \in Auditor, NEW r \in RunId, NEW fs \in SUBSET MediaFile,
              ClaimUnits(a, r, fs)
       PROVE  CountsInv'
  <2>. DEFINE c == [status |-> "claimed", by |-> a, old |-> FALSE]
  <2>1. c.status = "claimed"
    OBVIOUS
  <2>. HIDE DEF c
  <2>2. \A q \in RunId, f \in MediaFile :
          unit'[<<q, f>>] = unit[<<q, f>>] \/ (unit[<<q, f>>].status = "pending" /\ unit'[<<q, f>>] = c)
    BY <1>11 DEF ClaimUnits, Unit, c
  <2>3. \A q \in RunId, f \in MediaFile : EndedUnit(<<q, f>>)' <=> EndedUnit(<<q, f>>)
    BY <2>1, <2>2 DEF EndedUnit
  <2>4. NoneEnded
    BY <1>11, <2>3 DEF ClaimUnits, NoneEnded
  <2>. QED BY <2>4, NoneEndedKeeps
<1>12. ASSUME NEW r \in RunId, NEW fs \in SUBSET MediaFile,
              EnqueueUnits(r, fs)
       PROVE  CountsInv'
  <2>1. /\ \A u \in Unit : unit'[u] = IF u \in {r} \X fs THEN Pending ELSE unit[u]
        /\ run'[r].done = run[r].done /\ \A q \in RunId \ {r} : run'[q] = run[q]
    BY <1>12, EnqueueTyped
  <2>2. walk[r].by # NoAuditor
    BY <1>12, AuditAssumption DEF EnqueueUnits, ThreadsTyped
  <2>3. \A f \in fs : unit[<<r, f>>].status = "absent"
    BY <1>12, <2>2 DEF EnqueueUnits, WalksAdd
  <2>4. \A q \in RunId, f \in MediaFile :
          \/ unit'[<<q, f>>] = unit[<<q, f>>]
          \/ unit[<<q, f>>].status = "absent" /\ unit'[<<q, f>>] = Pending
    BY <2>1, <2>3 DEF Unit
  <2>5. Pending.status = "pending"
    BY DEF Pending
  <2>6. \A q \in RunId, f \in MediaFile : EndedUnit(<<q, f>>)' <=> EndedUnit(<<q, f>>)
    BY <2>4, <2>5 DEF EndedUnit
  <2>7. NoneEnded
    BY <1>12, <2>1, <2>6 DEF EnqueueUnits, NoneEnded
  <2>. QED BY <2>7, NoneEndedKeeps
<1>13. ASSUME NEW r \in RunId, FinishWalk(r) PROVE CountsInv'
  <2>1. \A q \in RunId : run'[q].done = run[q].done
    BY <1>13, SetStatusTyped DEF FinishWalk
  <2>2. NoneEnded
    BY <1>13, <2>1 DEF FinishWalk, NoneEnded, EndedUnit
  <2>. QED BY <2>2, NoneEndedKeeps
<1>14. ASSUME NEW r \in RunId, FailWalk(r) PROVE CountsInv'
  <2>1. \A q \in RunId : run'[q].done = run[q].done
    BY <1>14, SetStatusTyped DEF FailWalk
  <2>2. NoneEnded
    BY <1>14, <2>1 DEF FailWalk, NoneEnded, EndedUnit
  <2>. QED BY <2>2, NoneEndedKeeps
<1>15. ASSUME NEW r \in RunId, StopWalk(r) PROVE CountsInv'
  <2>1. NoneEnded
    BY <1>15 DEF StopWalk, NoneEnded, EndedUnit, tables
  <2>. QED BY <2>1, NoneEndedKeeps
<1>16. ASSUME NEW a \in Auditor, NEW r \in RunId, NEW f \in MediaFile,
              Probe(a, r, f)
       PROVE  CountsInv'
  <2>1. NoneEnded
    BY <1>16 DEF Probe, NoneEnded, EndedUnit
  <2>. QED BY <2>1, NoneEndedKeeps
<1>17. ASSUME NEW a \in Auditor, NEW r \in RunId, NEW f \in MediaFile,
              Report(a, r, f)
       PROVE  CountsInv'
  <2>1. NoneEnded
    BY <1>17 DEF Report, NoneEnded, EndedUnit
  <2>. QED BY <2>1, NoneEndedKeeps
<1>18. ASSUME NEW a \in Auditor, NEW r \in RunId, NEW f \in MediaFile,
              Fix(a, r, f)
       PROVE  CountsInv'
  <2>1. NoneEnded
    BY <1>18 DEF Fix, NoneEnded, EndedUnit, tables
  <2>. QED BY <2>1, NoneEndedKeeps
<1>19. ASSUME NEW a \in Auditor, NEW r \in RunId, NEW f \in MediaFile,
              Finish(a, r, f)
       PROVE  CountsInv'
  <2>1. MarkDone(a, <<r, f>>, "done") /\ task[<<a, r, f>>] # "none" /\ freed' = freed
    BY <1>19 DEF Finish, Processed
  <2>. QED BY <2>1, MarkDoneCounted
<1>20. ASSUME NEW a \in Auditor, NEW r \in RunId, NEW f \in MediaFile,
              ProbeError(a, r, f)
       PROVE  CountsInv'
  <2>1. MarkDone(a, <<r, f>>, "error") /\ task[<<a, r, f>>] # "none" /\ freed' = freed
    BY <1>20 DEF ProbeError, Processed
  <2>. QED BY <2>1, MarkDoneCounted
<1>21. ASSUME NEW a \in Auditor, NEW r \in RunId, NEW f \in MediaFile,
              LoseUnit(a, r, f)
       PROVE  CountsInv'
  <2>1. NoneEnded
    BY <1>21 DEF LoseUnit, NoneEnded, EndedUnit, tables
  <2>. QED BY <2>1, NoneEndedKeeps
<1>22. ASSUME NEW u \in Unit, Age(u) PROVE CountsInv'
  <2>1. unit' = [unit EXCEPT ![u] = [unit[u] EXCEPT !.old = TRUE]] /\ unit[u] \in UnitRow
    BY <1>22 DEF Age, TablesTyped
  <2>2. [unit[u] EXCEPT !.old = TRUE].status = unit[u].status
    BY <2>1 DEF UnitRow
  <2>3. \A r \in RunId, f \in MediaFile : unit'[<<r, f>>].status = unit[<<r, f>>].status
    BY <1>22, <2>1, <2>2 DEF TablesTyped, Unit
  <2>4. NoneEnded
    BY <1>22, <2>3 DEF Age, NoneEnded, EndedUnit
  <2>. QED BY <2>4, NoneEndedKeeps
<1>23. ASSUME NEW k \in Found \X MediaFile, NEW s \in {"acked", "dismissed", "resolved"},
              SetFindingStatus(k, s)
       PROVE  CountsInv'
  <2>1. NoneEnded
    BY <1>23 DEF SetFindingStatus, NoneEnded, EndedUnit
  <2>. QED BY <2>1, NoneEndedKeeps
<1>24. CASE UNCHANGED auditVars
  <2>1. NoneEnded
    BY <1>24 DEF auditVars, tables, NoneEnded, EndedUnit
  <2>. QED BY <2>1, NoneEndedKeeps
<1>. QED
  BY <1>1, <1>2, <1>3, <1>4, <1>5, <1>6, <1>7, <1>8, <1>9, <1>10, <1>11, <1>12, <1>13,
     <1>14, <1>15, <1>16, <1>17, <1>18, <1>19, <1>20, <1>21, <1>22, <1>23, <1>24
     DEF AuditNext, Cycle, Enumerate, Work, Claiming, Disturbed

-----------------------------------------------------------------------------
(* Damage is reported before its unit is marked.                           *)

\* Steps that find out nothing about a file and mark no unit done.
NothingTold ==
  /\ library' = library /\ gone' = gone /\ queued \subseteq queued'
  /\ \A k \in Found \X MediaFile : finding[k] # "none" => finding'[k] # "none"
  /\ \A p \in Probing : task'[p] \in {task[p], "none", "claimed"}
  /\ \A r \in RunId, f \in MediaFile :
       unit'[<<r, f>>].status = "done" => unit[<<r, f>>].status = "done"

LEMMA NothingToldKeeps ==
  ASSUME DamageInv, NothingTold
  PROVE  DamageInv'
<1>1. \A f \in MediaFile : <<"ffprobe_failed", f>> \in Found \X MediaFile
  BY DEF Found
<1>2. DamageReported'
  BY <1>1 DEF DamageInv, DamageReported, NothingTold
<1>3. \A f \in gone' : library'[f] = "original"
  BY DEF DamageInv, StagesTell, NothingTold
<1>4. ASSUME NEW a \in Auditor, NEW r \in RunId, NEW f \in MediaFile,
             task'[<<a, r, f>>] \notin {"none", "claimed"}
      PROVE  /\ task'[<<a, r, f>>] = task[<<a, r, f>>]
             /\ library' = library /\ queued \subseteq queued'
             /\ finding[<<"ffprobe_failed", f>>] # "none" =>
                  finding'[<<"ffprobe_failed", f>>] # "none"
  BY <1>1, <1>4 DEF NothingTold, Probing
<1>. QED BY <1>2, <1>3, <1>4 DEF DamageInv, StagesTell

\* One thread goes to its next stage.
LEMMA NextStageKeeps ==
  ASSUME DamageInv, UNCHANGED <<library, unit>>,
         NEW a \in Auditor, NEW r \in RunId, NEW f \in MediaFile,
         \A p \in Probing \ {<<a, r, f>>} : task'[p] = task[p],
         queued \subseteq queued',
         \A k \in Found \X MediaFile : finding[k] # "none" => finding'[k] # "none",
         \A g \in gone' : library[g] = "original",
         LET stage == task'[<<a, r, f>>] IN
           /\ stage \in {"stale", "recycling"} => library[f] = "original"
           /\ stage \in {"broken", "queueing", "fixed"} => library[f] # "good"
           /\ stage = "clean" => library[f] = "good"
           /\ library[f] = "damaged" /\ stage \in {"queueing", "fixed"} =>
                finding'[<<"ffprobe_failed", f>>] # "none"
           /\ library[f] = "damaged" /\ stage = "fixed" => f \in queued'
  PROVE  DamageInv'
<1>1. \A g \in MediaFile : <<"ffprobe_failed", g>> \in Found \X MediaFile
  BY DEF Found
<1>2. DamageReported'
  BY <1>1 DEF DamageInv, DamageReported
<1>3. StagesTell'
  <2>. SUFFICES ASSUME NEW b \in Auditor, NEW q \in RunId, NEW g \in MediaFile
                PROVE  LET stage == task'[<<b, q, g>>] IN
                       /\ stage \in {"stale", "recycling"} => library[g] = "original"
                       /\ stage \in {"broken", "queueing", "fixed"} => library[g] # "good"
                       /\ stage = "clean" => library[g] = "good"
                       /\ library[g] = "damaged" /\ stage \in {"queueing", "fixed"} =>
                            finding'[<<"ffprobe_failed", g>>] # "none"
                       /\ library[g] = "damaged" /\ stage = "fixed" => g \in queued'
    BY DEF StagesTell
  <2>1. CASE <<b, q, g>> = <<a, r, f>>
    <3>1. g = f
      BY <2>1
    <3>. QED BY <2>1, <3>1
  <2>2. CASE <<b, q, g>> # <<a, r, f>>
    <3>1. task'[<<b, q, g>>] = task[<<b, q, g>>]
      BY <2>2 DEF Probing
    <3>. QED BY <1>1, <3>1 DEF DamageInv, StagesTell
  <2>. QED BY <2>1, <2>2
<1>. QED BY <1>2, <1>3 DEF DamageInv

LEMMA DamageKept ==
  ASSUME TablesTyped, ThreadsTyped, WorldTyped, DamageInv, [AuditNext]_auditVars
  PROVE  DamageInv'
<1>1. ASSUME NEW a \in Auditor, SweepStale(a) PROVE DamageInv'
  <2>1. Pending.status = "pending"
    BY DEF Pending
  <2>2. \A r \in RunId, f \in MediaFile :
          unit'[<<r, f>>].status = "done" => unit[<<r, f>>].status = "done"
    BY <1>1, <2>1, GiveBackTyped DEF SweepStale, Unit
  <2>3. NothingTold
    BY <1>1, <2>2 DEF SweepStale, NothingTold
  <2>. QED BY <2>3, NothingToldKeeps
<1>2. ASSUME NEW a \in Auditor, CompleteFinished(a) PROVE DamageInv'
  <2>1. NothingTold
    BY <1>2 DEF CompleteFinished, NothingTold
  <2>. QED BY <2>1, NothingToldKeeps
<1>3. ASSUME NEW a \in Auditor, RollUp(a) PROVE DamageInv'
  <2>1. NothingTold
    BY <1>3, UpsertTyped DEF RollUp, NothingTold
  <2>. QED BY <2>1, NothingToldKeeps
<1>4. ASSUME NEW a \in Auditor, Purge(a) PROVE DamageInv'
  <2>1. NothingTold
    BY <1>4 DEF Purge, NothingTold
  <2>. QED BY <2>1, NothingToldKeeps
<1>5. ASSUME NEW a \in Auditor, Look(a) PROVE DamageInv'
  <2>1. NothingTold
    BY <1>5 DEF Look, NothingTold, tables
  <2>. QED BY <2>1, NothingToldKeeps
<1>6. ASSUME NEW a \in Auditor, StartRun(a) PROVE DamageInv'
  <2>1. NothingTold
    BY <1>6 DEF StartRun, NothingTold
  <2>. QED BY <2>1, NothingToldKeeps
<1>7. ASSUME NEW a \in Auditor, ApiTrigger(a) PROVE DamageInv'
  <2>1. NothingTold
    BY <1>7 DEF ApiTrigger, NothingTold
  <2>. QED BY <2>1, NothingToldKeeps
<1>8. ASSUME NEW a \in Auditor, AuditCrash(a) PROVE DamageInv'
  <2>1. NothingTold
    BY <1>8 DEF AuditCrash, NothingTold, tables
  <2>. QED BY <2>1, NothingToldKeeps
<1>9. ASSUME NEW a \in Auditor, ReplaceWorker(a) PROVE DamageInv'
  <2>1. Pending.status = "pending"
    BY DEF Pending
  <2>2. \A r \in RunId, f \in MediaFile :
          unit'[<<r, f>>].status = "done" => unit[<<r, f>>].status = "done"
    BY <1>9, <2>1, GiveBackTyped DEF ReplaceWorker, Unit
  <2>3. NothingTold
    BY <1>9, <2>2 DEF ReplaceWorker, NothingTold
  <2>. QED BY <2>3, NothingToldKeeps
<1>10. ASSUME NEW a \in Auditor, AuditRestart(a) PROVE DamageInv'
  <2>1. Pending.status = "pending"
    BY DEF Pending
  <2>2. \A r \in RunId, f \in MediaFile :
          unit'[<<r, f>>].status = "done" => unit[<<r, f>>].status = "done"
    BY <1>10, <2>1, GiveBackTyped DEF AuditRestart, Unit
  <2>3. NothingTold
    BY <1>10, <2>2 DEF AuditRestart, NothingTold
  <2>. QED BY <2>3, NothingToldKeeps
<1>11. ASSUME NEW a \in Auditor, NEW r \in RunId, NEW fs \in SUBSET MediaFile,
              ClaimUnits(a, r, fs)
       PROVE  DamageInv'
  <2>. DEFINE c == [status |-> "claimed", by |-> a, old |-> FALSE]
  <2>1. c.status = "claimed"
    OBVIOUS
  <2>. HIDE DEF c
  <2>2. \A q \in RunId, f \in MediaFile : unit'[<<q, f>>] \in {unit[<<q, f>>], c}
    BY <1>11 DEF ClaimUnits, Unit, c
  <2>3. NothingTold
    BY <1>11, <2>1, <2>2 DEF ClaimUnits, NothingTold
  <2>. QED BY <2>3, NothingToldKeeps
<1>12. ASSUME NEW r \in RunId, NEW fs \in SUBSET MediaFile,
              EnqueueUnits(r, fs)
       PROVE  DamageInv'
  <2>1. Pending.status = "pending"
    BY DEF Pending
  <2>2. \A q \in RunId, f \in MediaFile :
          unit'[<<q, f>>].status = "done" => unit[<<q, f>>].status = "done"
    BY <1>12, <2>1, EnqueueTyped DEF Unit
  <2>3. NothingTold
    BY <1>12, <2>2 DEF EnqueueUnits, NothingTold
  <2>. QED BY <2>3, NothingToldKeeps
<1>13. ASSUME NEW r \in RunId, FinishWalk(r) PROVE DamageInv'
  <2>1. NothingTold
    BY <1>13 DEF FinishWalk, NothingTold
  <2>. QED BY <2>1, NothingToldKeeps
<1>14. ASSUME NEW r \in RunId, FailWalk(r) PROVE DamageInv'
  <2>1. NothingTold
    BY <1>14 DEF FailWalk, NothingTold
  <2>. QED BY <2>1, NothingToldKeeps
<1>15. ASSUME NEW r \in RunId, StopWalk(r) PROVE DamageInv'
  <2>1. NothingTold
    BY <1>15 DEF StopWalk, NothingTold, tables
  <2>. QED BY <2>1, NothingToldKeeps
<1>16. ASSUME NEW a \in Auditor, NEW r \in RunId, NEW f \in MediaFile,
              Probe(a, r, f)
       PROVE  DamageInv'
  <2>1. <<a, r, f>> \in Probing
    BY DEF Probing
  <2>2. /\ task'[<<a, r, f>>] = Verdict(f)
        /\ \A p \in Probing \ {<<a, r, f>>} : task'[p] = task[p]
    BY <1>16, <2>1 DEF Probe, ThreadsTyped
  <2>3. library[f] \in Condition /\ (f \in gone => library[f] = "original")
    BY DEF WorldTyped, DamageInv, StagesTell
  <2>4. /\ Verdict(f) \in {"broken", "stale", "clean"}
        /\ Verdict(f) = "stale" => library[f] = "original"
        /\ Verdict(f) = "broken" => library[f] # "good"
        /\ Verdict(f) = "clean" => library[f] = "good"
    BY <2>3 DEF Verdict, Condition
  <2>5. \A g \in gone : library[g] = "original"
    BY DEF DamageInv, StagesTell
  <2>6. UNCHANGED <<library, unit, gone, queued, finding>>
    BY <1>16 DEF Probe
  <2>. QED BY <2>2, <2>4, <2>5, <2>6, NextStageKeeps
<1>17. ASSUME NEW a \in Auditor, NEW r \in RunId, NEW f \in MediaFile,
              Report(a, r, f)
       PROVE  DamageInv'
  <2>1. <<a, r, f>> \in Probing
    BY DEF Probing
  <2>. DEFINE stage == task[<<a, r, f>>]
  <2>2. stage \in {"broken", "stale"} /\ UNCHANGED <<library, unit, gone, queued>>
    BY <1>17 DEF Report, KindOf
  <2>3. /\ task'[<<a, r, f>>] = FixOf[stage]
        /\ \A p \in Probing \ {<<a, r, f>>} : task'[p] = task[p]
    BY <1>17, <2>1 DEF Report, ThreadsTyped
  <2>4. FixOf["broken"] = "queueing" /\ FixOf["stale"] = "recycling" /\ KindOf["broken"] = "ffprobe_failed"
    BY DEF FixOf, KindOf
  <2>5. /\ \A k \in Found \X MediaFile : finding[k] # "none" => finding'[k] # "none"
        /\ \A k \in Found \X MediaFile : k = <<KindOf[stage], f>> => finding'[k] # "none"
    BY <1>17, UpsertTyped DEF Report
  <2>6. <<"ffprobe_failed", f>> \in Found \X MediaFile
    BY DEF Found
  <2>7. stage = "broken" => library[f] # "good" /\ finding'[<<"ffprobe_failed", f>>] # "none"
    BY <2>4, <2>5, <2>6 DEF DamageInv, StagesTell
  <2>8. stage = "stale" => library[f] = "original"
    BY DEF DamageInv, StagesTell
  <2>9. \A g \in gone' : library[g] = "original"
    BY <2>2 DEF DamageInv, StagesTell
  <2>10. queued \subseteq queued'
    BY <2>2
  <2>11. CASE stage = "broken"
    BY <2>2, <2>3, <2>4, <2>5, <2>7, <2>9, <2>10, <2>11, NextStageKeeps
  <2>12. CASE stage = "stale"
    BY <2>2, <2>3, <2>4, <2>5, <2>8, <2>9, <2>10, <2>12, NextStageKeeps
  <2>. QED BY <2>2, <2>11, <2>12
<1>18. ASSUME NEW a \in Auditor, NEW r \in RunId, NEW f \in MediaFile,
              Fix(a, r, f)
       PROVE  DamageInv'
  <2>1. <<a, r, f>> \in Probing
    BY DEF Probing
  <2>. DEFINE stage == task[<<a, r, f>>]
  <2>2. stage \in {"queueing", "recycling"} /\ UNCHANGED <<library, unit, finding>>
    BY <1>18 DEF Fix, tables
  <2>3. /\ task'[<<a, r, f>>] = "fixed"
        /\ \A p \in Probing \ {<<a, r, f>>} : task'[p] = task[p]
    BY <1>18, <2>1 DEF Fix, ThreadsTyped
  <2>4. /\ stage = "recycling" => library[f] = "original"
        /\ stage = "queueing" => library[f] # "good"
        /\ stage = "queueing" /\ library[f] = "damaged" => finding[<<"ffprobe_failed", f>>] # "none"
    BY DEF DamageInv, StagesTell
  <2>5. /\ queued' = IF stage = "queueing" THEN queued \cup {f} ELSE queued
        /\ gone' = IF stage = "recycling" THEN gone \cup {f} ELSE gone
    BY <1>18 DEF Fix
  <2>6. \A g \in gone' : library[g] = "original"
    BY <2>4, <2>5 DEF DamageInv, StagesTell
  <2>7. queued \subseteq queued' /\ (library[f] = "damaged" => f \in queued') /\ library[f] # "good"
    BY <2>2, <2>4, <2>5
  <2>8. library[f] = "damaged" => finding'[<<"ffprobe_failed", f>>] # "none"
    BY <2>2, <2>4
  <2>. QED BY <2>2, <2>3, <2>6, <2>7, <2>8, NextStageKeeps
<1>19. ASSUME NEW a \in Auditor, NEW r \in RunId, NEW f \in MediaFile,
              Finish(a, r, f)
       PROVE  DamageInv'
  <2>1. MarkDone(a, <<r, f>>, "done") /\ UNCHANGED <<library, gone, finding, queued>>
    BY <1>19 DEF Finish
  <2>2. /\ \A u \in Unit \ {<<r, f>>} : unit'[u] = unit[u]
        /\ task'[<<a, r, f>>] = "none"
        /\ \A p \in Probing \ {<<a, r, f>>} : task'[p] = task[p]
    BY <2>1, MarkDoneTyped
  <2>3. library[f] = "damaged" => finding[<<"ffprobe_failed", f>>] # "none" /\ f \in queued
    BY <1>19 DEF Finish, Processed, DamageInv, StagesTell
  <2>4. DamageReported'
    <3>. SUFFICES ASSUME NEW q \in RunId, NEW g \in MediaFile,
                         unit'[<<q, g>>].status = "done", library[g] = "damaged"
                  PROVE  finding[<<"ffprobe_failed", g>>] # "none" /\ g \in queued
      BY <2>1 DEF DamageReported
    <3>1. CASE <<q, g>> = <<r, f>>
      <4>1. g = f
        BY <3>1
      <4>. QED BY <2>3, <4>1
    <3>2. CASE <<q, g>> # <<r, f>>
      <4>1. unit'[<<q, g>>] = unit[<<q, g>>]
        BY <2>2, <3>2 DEF Unit
      <4>. QED BY <4>1 DEF DamageInv, DamageReported
    <3>. QED BY <3>1, <3>2
  <2>5. \A b \in Auditor, q \in RunId, g \in MediaFile :
          task'[<<b, q, g>>] \in {task[<<b, q, g>>], "none"}
    BY <2>2 DEF Probing
  <2>6. StagesTell'
    BY <2>1, <2>5 DEF DamageInv, StagesTell
  <2>. QED BY <2>4, <2>6 DEF DamageInv
<1>20. ASSUME NEW a \in Auditor, NEW r \in RunId, NEW f \in MediaFile,
              ProbeError(a, r, f)
       PROVE  DamageInv'
  <2>1. MarkDone(a, <<r, f>>, "error")
    BY <1>20 DEF ProbeError
  <2>2. /\ unit'[<<r, f>>].status = "error"
        /\ \A u \in Unit \ {<<r, f>>} : unit'[u] = unit[u]
        /\ task'[<<a, r, f>>] = "none"
        /\ \A p \in Probing \ {<<a, r, f>>} : task'[p] = task[p]
    BY <2>1, MarkDoneTyped
  <2>3. \A q \in RunId, g \in MediaFile :
          unit'[<<q, g>>].status = "done" => unit[<<q, g>>].status = "done"
    BY <2>2 DEF Unit
  <2>4. NothingTold
    BY <1>20, <2>2, <2>3 DEF ProbeError, NothingTold
  <2>. QED BY <2>4, NothingToldKeeps
<1>21. ASSUME NEW a \in Auditor, NEW r \in RunId, NEW f \in MediaFile,
              LoseUnit(a, r, f)
       PROVE  DamageInv'
  <2>1. NothingTold
    BY <1>21 DEF LoseUnit, NothingTold, tables, Probing, ThreadsTyped
  <2>. QED BY <2>1, NothingToldKeeps
<1>22. ASSUME NEW u \in Unit, Age(u) PROVE DamageInv'
  <2>1. unit' = [unit EXCEPT ![u] = [unit[u] EXCEPT !.old = TRUE]] /\ unit[u] \in UnitRow
    BY <1>22 DEF Age, TablesTyped
  <2>2. [unit[u] EXCEPT !.old = TRUE].status = unit[u].status
    BY <2>1 DEF UnitRow
  <2>3. \A r \in RunId, f \in MediaFile : unit'[<<r, f>>].status = unit[<<r, f>>].status
    BY <1>22, <2>1, <2>2 DEF TablesTyped, Unit
  <2>4. NothingTold
    BY <1>22, <2>3 DEF Age, NothingTold
  <2>. QED BY <2>4, NothingToldKeeps
<1>23. ASSUME NEW k \in Found \X MediaFile, NEW s \in {"acked", "dismissed", "resolved"},
              SetFindingStatus(k, s)
       PROVE  DamageInv'
  <2>1. NothingTold
    BY <1>23 DEF SetFindingStatus, NothingTold, TablesTyped
  <2>. QED BY <2>1, NothingToldKeeps
<1>24. CASE UNCHANGED auditVars
  <2>1. NothingTold
    BY <1>24 DEF auditVars, tables, NothingTold
  <2>. QED BY <2>1, NothingToldKeeps
<1>. QED
  BY <1>1, <1>2, <1>3, <1>4, <1>5, <1>6, <1>7, <1>8, <1>9, <1>10, <1>11, <1>12, <1>13,
     <1>14, <1>15, <1>16, <1>17, <1>18, <1>19, <1>20, <1>21, <1>22, <1>23, <1>24
     DEF AuditNext, Cycle, Enumerate, Work, Claiming, Disturbed

-----------------------------------------------------------------------------
(* The audit thread between two transactions.                              *)

\* Steps of other threads.
SchedulesStay == sched' = sched /\ \A r \in RunId : walk'[r].by # NoAuditor =>
  walk'[r].by = walk[r].by /\ walk'[r].api = walk[r].api

LEMMA SchedulesStayFit ==
  ASSUME SchedulesFit, SchedulesStay
  PROVE  SchedulesFit'
BY DEF SchedulesFit, SchedulesStay

\* A thread that walks no run goes on, with the walks as they are.
LEMMA NextPcFits ==
  ASSUME ThreadsTyped, SchedulesFit, UNCHANGED walk, NEW a \in Auditor,
         sched[a].pc # "walking", \A b \in Auditor \ {a} : sched'[b] = sched[b],
         sched'[a].pc \in {"rolling", "purging"} <=> sched'[a].found # {}
  PROVE  SchedulesFit'
<1>1. \A r \in RunId : walk[r].by # NoAuditor /\ ~ walk[r].api =>
        walk[r].by \in Auditor /\ walk[r].by # a
  BY DEF ThreadsTyped, WalkRow, SchedulesFit
<1>. QED BY <1>1 DEF SchedulesFit

\* The walk of a run is over.
LEMMA EndWalkFits ==
  ASSUME ThreadsTyped, SchedulesFit, NEW r \in RunId, walk[r].by \in Auditor, EndWalk(r)
  PROVE  SchedulesFit'
<1>1. /\ walk'[r] = NoWalk /\ \A q \in RunId \ {r} : walk'[q] = walk[q]
      /\ \A a \in Auditor : sched'[a].found = sched[a].found
      /\ IF walk[r].api THEN sched' = sched
         ELSE /\ sched'[walk[r].by].pc = "rest"
              /\ \A a \in Auditor \ {walk[r].by} : sched'[a] = sched[a]
  BY EndWalkTyped
<1>2. NoWalk.by = NoAuditor /\ walk[r].by # NoAuditor
  BY AuditAssumption DEF NoWalk
<1>3. CASE walk[r].api
  <2>1. SchedulesStay
    BY <1>1, <1>2, <1>3 DEF SchedulesStay
  <2>. QED BY <2>1, SchedulesStayFit
<1>4. CASE ~ walk[r].api
  <2>1. sched[walk[r].by].pc = "walking"
    BY <1>2, <1>4 DEF SchedulesFit
  <2>2. \A a \in Auditor : sched'[a].pc \in {"rolling", "purging"} <=> sched'[a].found # {}
    BY <1>1, <1>4, <2>1 DEF SchedulesFit
  <2>3. ASSUME NEW q \in RunId, walk'[q].by # NoAuditor, ~ walk'[q].api
        PROVE  /\ sched'[walk'[q].by].pc = "walking"
               /\ \A p \in RunId : walk'[p].by = walk'[q].by /\ ~ walk'[p].api => p = q
    <3>1. q # r /\ walk'[q] = walk[q]
      BY <1>1, <1>2, <2>3
    <3>2. walk[q].by \in Auditor /\ walk[q].by # NoAuditor
      BY <2>3, <3>1 DEF ThreadsTyped, WalkRow
    <3>3. walk[q].by # walk[r].by
      BY <1>4, <2>3, <3>1, <3>2 DEF SchedulesFit
    <3>4. sched'[walk[q].by].pc = "walking"
      BY <1>1, <1>4, <2>3, <3>1, <3>2, <3>3 DEF SchedulesFit
    <3>5. \A p \in RunId : walk'[p].by = walk[q].by => p # r /\ walk'[p] = walk[p]
      BY <1>1, <1>2, <3>2
    <3>. QED BY <2>3, <3>1, <3>2, <3>4, <3>5 DEF SchedulesFit
  <2>. QED BY <2>2, <2>3 DEF SchedulesFit
<1>. QED BY <1>3, <1>4

LEMMA SchedulesKept ==
  ASSUME TablesTyped, ThreadsTyped, WorldTyped, WalksAdd, SchedulesFit,
         [AuditNext]_auditVars
  PROVE  SchedulesFit'
<1>1. ASSUME NEW a \in Auditor, SweepStale(a) PROVE SchedulesFit'
  <2>1. /\ sched'[a].pc = "swept" /\ sched'[a].found = sched[a].found
        /\ \A b \in Auditor \ {a} : sched'[b] = sched[b]
    BY <1>1, GotoTyped DEF SweepStale, AuditPc
  <2>2. sched[a].pc = "rest" /\ walk' = walk
    BY <1>1 DEF SweepStale, At
  <2>3. sched'[a].pc \in {"rolling", "purging"} <=> sched'[a].found # {}
    BY <2>1, <2>2 DEF SchedulesFit
  <2>. QED BY <2>1, <2>2, <2>3, NextPcFits
<1>2. ASSUME NEW a \in Auditor, CompleteFinished(a) PROVE SchedulesFit'
  <2>. DEFINE pc == IF FinishedRuns = {} THEN "looking" ELSE "rolling"
  <2>1. sched[a].pc = "swept" /\ walk' = walk
    BY <1>2 DEF CompleteFinished, At
  <2>2. sched' = [sched EXCEPT ![a] = [pc |-> pc, found |-> FinishedRuns]]
    BY <1>2 DEF CompleteFinished
  <2>3. /\ sched'[a].pc = pc /\ sched'[a].found = FinishedRuns
        /\ \A b \in Auditor \ {a} : sched'[b] = sched[b]
    BY <2>2 DEF ThreadsTyped
  <2>4. sched'[a].pc \in {"rolling", "purging"} <=> sched'[a].found # {}
    BY <2>3
  <2>. QED BY <2>1, <2>3, <2>4, NextPcFits
<1>3. ASSUME NEW a \in Auditor, RollUp(a) PROVE SchedulesFit'
  <2>1. /\ sched'[a].pc = "purging" /\ sched'[a].found = sched[a].found
        /\ \A b \in Auditor \ {a} : sched'[b] = sched[b]
    BY <1>3, GotoTyped DEF RollUp, AuditPc
  <2>2. sched[a].pc = "rolling" /\ walk' = walk
    BY <1>3 DEF RollUp, At
  <2>3. sched'[a].pc \in {"rolling", "purging"} <=> sched'[a].found # {}
    BY <2>1, <2>2 DEF SchedulesFit
  <2>. QED BY <2>1, <2>2, <2>3, NextPcFits
<1>4. ASSUME NEW a \in Auditor, Purge(a) PROVE SchedulesFit'
  <2>. DEFINE q == First(sched[a].found)
              pc == IF sched[a].found = {q} THEN "looking" ELSE "rolling"
              left == sched[a].found \ {q}
  <2>1. sched[a].pc = "purging" /\ walk' = walk
    BY <1>4 DEF Purge, At
  <2>2. sched' = [sched EXCEPT ![a] = [pc |-> pc, found |-> left]]
    BY <1>4 DEF Purge
  <2>3. /\ sched'[a].pc = pc /\ sched'[a].found = left
        /\ \A b \in Auditor \ {a} : sched'[b] = sched[b]
    BY <2>2 DEF ThreadsTyped
  <2>4. sched[a].found # {}
    BY <2>1 DEF SchedulesFit
  <2>5. sched'[a].pc \in {"rolling", "purging"} <=> sched'[a].found # {}
    BY <2>3, <2>4
  <2>. QED BY <2>1, <2>3, <2>5, NextPcFits
<1>5. ASSUME NEW a \in Auditor, Look(a) PROVE SchedulesFit'
  <2>. DEFINE pc == IF ActiveRuns # {} THEN "rest" ELSE "looked"
  <2>1. pc \in {"rest", "looked"} /\ pc \in AuditPc /\ Goto(a, pc)
    BY <1>5 DEF Look, AuditPc
  <2>2. /\ sched'[a].pc = pc /\ sched'[a].found = sched[a].found
        /\ \A b \in Auditor \ {a} : sched'[b] = sched[b]
    BY <2>1, GotoTyped
  <2>3. sched[a].pc = "looking" /\ walk' = walk
    BY <1>5 DEF Look, At
  <2>4. sched'[a].pc \in {"rolling", "purging"} <=> sched'[a].found # {}
    BY <2>1, <2>2, <2>3 DEF SchedulesFit
  <2>. QED BY <2>2, <2>3, <2>4, NextPcFits
<1>6. ASSUME NEW a \in Auditor, StartRun(a) PROVE SchedulesFit'
  <2>1. CASE lock = NoAuditor /\ Unused # {}
    <3>1. PICK r \in RunId :
            /\ run[r].status = "none"
            /\ walk'[r] = [by |-> a, api |-> FALSE, todo |-> Present, n |-> 0]
            /\ \A q \in RunId \ {r} : walk'[q] = walk[q]
      BY <1>6, <2>1, BeginTyped DEF StartRun
    <3>2. /\ sched'[a].pc = "walking" /\ sched'[a].found = sched[a].found
          /\ \A b \in Auditor \ {a} : sched'[b] = sched[b]
      BY <1>6, <2>1, GotoTyped DEF StartRun, AuditPc
    <3>3. sched[a].pc = "looked"
      BY <1>6 DEF StartRun, At
    <3>4. \A q \in RunId : walk[q].by # NoAuditor /\ ~ walk[q].api =>
            walk[q].by \in Auditor /\ walk[q].by # a
      BY <3>3 DEF ThreadsTyped, WalkRow, SchedulesFit
    <3>5. \A b \in Auditor : sched'[b].pc \in {"rolling", "purging"} <=> sched'[b].found # {}
      BY <3>2, <3>3 DEF SchedulesFit
    <3>6. ASSUME NEW q \in RunId, walk'[q].by # NoAuditor, ~ walk'[q].api
          PROVE  /\ sched'[walk'[q].by].pc = "walking"
                 /\ \A p \in RunId : walk'[p].by = walk'[q].by /\ ~ walk'[p].api => p = q
      <4>1. a # NoAuditor /\ walk'[r].by = a
        BY <3>1, AuditAssumption
      <4>2. CASE q = r
        BY <3>1, <3>2, <3>4, <4>1, <4>2
      <4>3. CASE q # r
        BY <3>1, <3>2, <3>4, <3>6, <4>1, <4>3 DEF SchedulesFit
      <4>. QED BY <4>2, <4>3
    <3>. QED BY <3>5, <3>6 DEF SchedulesFit
  <2>2. CASE ~ (lock = NoAuditor /\ Unused # {})
    <3>1. /\ sched'[a].pc = "rest" /\ sched'[a].found = sched[a].found
          /\ \A b \in Auditor \ {a} : sched'[b] = sched[b]
      BY <1>6, <2>2, GotoTyped DEF StartRun, AuditPc
    <3>2. sched[a].pc = "looked" /\ walk' = walk
      BY <1>6, <2>2 DEF StartRun, At
    <3>3. sched'[a].pc \in {"rolling", "purging"} <=> sched'[a].found # {}
      BY <3>1, <3>2 DEF SchedulesFit
    <3>. QED BY <3>1, <3>2, <3>3, NextPcFits
  <2>. QED BY <2>1, <2>2
<1>7. ASSUME NEW a \in Auditor, ApiTrigger(a) PROVE SchedulesFit'
  <2>1. PICK r \in RunId :
          /\ walk'[r] = [by |-> a, api |-> TRUE, todo |-> Present, n |-> 0]
          /\ \A q \in RunId \ {r} : walk'[q] = walk[q]
    BY <1>7, BeginTyped DEF ApiTrigger
  <2>2. sched' = sched /\ walk'[r].api
    BY <1>7, <2>1 DEF ApiTrigger
  <2>. QED BY <2>1, <2>2 DEF SchedulesFit
<1>8. ASSUME NEW a \in Auditor, AuditCrash(a) PROVE SchedulesFit'
  <2>1. /\ sched'[a].pc = "rest" /\ sched'[a].found = {}
        /\ \A b \in Auditor \ {a} : sched'[b] = sched[b]
    BY <1>8 DEF AuditCrash, ThreadsTyped
  <2>2. \A r \in RunId : walk'[r] = IF walk[r].by = a THEN NoWalk ELSE walk[r]
    BY <1>8 DEF AuditCrash
  <2>3. NoWalk.by = NoAuditor
    BY DEF NoWalk
  <2>4. \A r \in RunId : walk'[r].by # NoAuditor =>
          walk'[r] = walk[r] /\ walk[r].by \in Auditor \ {a}
    BY <2>2, <2>3 DEF ThreadsTyped, WalkRow
  <2>5. \A b \in Auditor : sched'[b].pc \in {"rolling", "purging"} <=> sched'[b].found # {}
    BY <2>1 DEF SchedulesFit
  <2>. QED BY <2>1, <2>4, <2>5 DEF SchedulesFit
<1>9. ASSUME NEW a \in Auditor, ReplaceWorker(a) PROVE SchedulesFit'
  <2>1. SchedulesStay
    BY <1>9 DEF ReplaceWorker, SchedulesStay
  <2>. QED BY <2>1, SchedulesStayFit
<1>10. ASSUME NEW a \in Auditor, AuditRestart(a) PROVE SchedulesFit'
  <2>1. SchedulesStay
    BY <1>10 DEF AuditRestart, SchedulesStay
  <2>. QED BY <2>1, SchedulesStayFit
<1>11. ASSUME NEW a \in Auditor, NEW r \in RunId, NEW fs \in SUBSET MediaFile,
              ClaimUnits(a, r, fs)
       PROVE  SchedulesFit'
  <2>1. SchedulesStay
    BY <1>11 DEF ClaimUnits, SchedulesStay
  <2>. QED BY <2>1, SchedulesStayFit
<1>12. ASSUME NEW r \in RunId, NEW fs \in SUBSET MediaFile,
              EnqueueUnits(r, fs)
       PROVE  SchedulesFit'
  <2>1. SchedulesStay
    BY <1>12, EnqueueTyped DEF EnqueueUnits, SchedulesStay
  <2>. QED BY <2>1, SchedulesStayFit
<1>13. ASSUME NEW r \in RunId, FinishWalk(r) PROVE SchedulesFit'
  <2>1. walk[r].by \in Auditor /\ EndWalk(r)
    BY <1>13 DEF FinishWalk, ThreadsTyped
  <2>. QED BY <2>1, EndWalkFits
<1>14. ASSUME NEW r \in RunId, FailWalk(r) PROVE SchedulesFit'
  <2>1. walk[r].by \in Auditor /\ EndWalk(r)
    BY <1>14 DEF FailWalk, ThreadsTyped
  <2>. QED BY <2>1, EndWalkFits
<1>15. ASSUME NEW r \in RunId, StopWalk(r) PROVE SchedulesFit'
  <2>1. walk[r].by \in Auditor /\ EndWalk(r)
    BY <1>15 DEF StopWalk, ThreadsTyped
  <2>. QED BY <2>1, EndWalkFits
<1>16. ASSUME NEW a \in Auditor, NEW r \in RunId, NEW f \in MediaFile,
              Probe(a, r, f)
       PROVE  SchedulesFit'
  <2>1. SchedulesStay
    BY <1>16 DEF Probe, SchedulesStay
  <2>. QED BY <2>1, SchedulesStayFit
<1>17. ASSUME NEW a \in Auditor, NEW r \in RunId, NEW f \in MediaFile,
              Report(a, r, f)
       PROVE  SchedulesFit'
  <2>1. SchedulesStay
    BY <1>17 DEF Report, SchedulesStay
  <2>. QED BY <2>1, SchedulesStayFit
<1>18. ASSUME NEW a \in Auditor, NEW r \in RunId, NEW f \in MediaFile,
              Fix(a, r, f)
       PROVE  SchedulesFit'
  <2>1. SchedulesStay
    BY <1>18 DEF Fix, SchedulesStay, tables
  <2>. QED BY <2>1, SchedulesStayFit
<1>19. ASSUME NEW a \in Auditor, NEW r \in RunId, NEW f \in MediaFile,
              Finish(a, r, f)
       PROVE  SchedulesFit'
  <2>1. SchedulesStay
    BY <1>19 DEF Finish, SchedulesStay
  <2>. QED BY <2>1, SchedulesStayFit
<1>20. ASSUME NEW a \in Auditor, NEW r \in RunId, NEW f \in MediaFile,
              ProbeError(a, r, f)
       PROVE  SchedulesFit'
  <2>1. SchedulesStay
    BY <1>20 DEF ProbeError, SchedulesStay
  <2>. QED BY <2>1, SchedulesStayFit
<1>21. ASSUME NEW a \in Auditor, NEW r \in RunId, NEW f \in MediaFile,
              LoseUnit(a, r, f)
       PROVE  SchedulesFit'
  <2>1. SchedulesStay
    BY <1>21 DEF LoseUnit, SchedulesStay, tables
  <2>. QED BY <2>1, SchedulesStayFit
<1>22. ASSUME NEW u \in Unit, Age(u) PROVE SchedulesFit'
  <2>1. SchedulesStay
    BY <1>22 DEF Age, SchedulesStay
  <2>. QED BY <2>1, SchedulesStayFit
<1>23. ASSUME NEW k \in Found \X MediaFile, NEW s \in {"acked", "dismissed", "resolved"},
              SetFindingStatus(k, s)
       PROVE  SchedulesFit'
  <2>1. SchedulesStay
    BY <1>23 DEF SetFindingStatus, SchedulesStay
  <2>. QED BY <2>1, SchedulesStayFit
<1>24. CASE UNCHANGED auditVars
  <2>1. SchedulesStay
    BY <1>24 DEF auditVars, SchedulesStay
  <2>. QED BY <2>1, SchedulesStayFit
<1>. QED
  BY <1>1, <1>2, <1>3, <1>4, <1>5, <1>6, <1>7, <1>8, <1>9, <1>10, <1>11, <1>12, <1>13,
     <1>14, <1>15, <1>16, <1>17, <1>18, <1>19, <1>20, <1>21, <1>22, <1>23, <1>24
     DEF AuditNext, Cycle, Enumerate, Work, Claiming, Disturbed

-----------------------------------------------------------------------------
(* A run is rolled up once it is over, by the node that completed it.      *)

\* Steps after which nobody has more runs to roll up, and those runs are over as before.
NoneCompleted ==
  /\ torn \subseteq torn'
  /\ \A a \in Auditor : sched'[a].found \subseteq sched[a].found
  /\ \A r \in RunId \ torn' : run[r].status \in {"completed", "failed"} =>
       /\ run'[r].status \in {"completed", "failed"}
       /\ \A f \in MediaFile : Open(<<r, f>>)' => Open(<<r, f>>)

LEMMA NoneCompletedKeeps ==
  ASSUME CompletersKnow, NoneCompleted
  PROVE  CompletersKnow'
<1>. SUFFICES ASSUME NEW r \in RunId \ torn', NEW a \in Auditor, r \in sched'[a].found
              PROVE  /\ run'[r].status \in {"completed", "failed"}
                     /\ \A f \in MediaFile : ~ Open(<<r, f>>)'
                     /\ \A b \in Auditor : r \in sched'[b].found => b = a
  BY DEF CompletersKnow
<1>1. r \in RunId \ torn /\ r \in sched[a].found
  BY DEF NoneCompleted
<1>2. /\ run[r].status \in {"completed", "failed"}
      /\ \A f \in MediaFile : ~ Open(<<r, f>>)
      /\ \A b \in Auditor : r \in sched[b].found => b = a
  BY <1>1, Zenon DEF CompletersKnow
<1>. QED BY <1>2 DEF NoneCompleted

LEMMA CompletersKept ==
  ASSUME TablesTyped, ThreadsTyped, WorldTyped, WalksAdd, SchedulesFit, CompletersKnow,
         [AuditNext]_auditVars
  PROVE  CompletersKnow'
<1>1. ASSUME NEW a \in Auditor, SweepStale(a) PROVE CompletersKnow'
  <2>1. \A b \in Auditor : sched'[b].found = sched[b].found
    BY <1>1, GotoTyped DEF SweepStale, AuditPc
  <2>2. \A r \in RunId, f \in MediaFile :
          unit'[<<r, f>>] = unit[<<r, f>>] \/ unit[<<r, f>>].status = "claimed"
    BY <1>1, GiveBackTyped DEF SweepStale, StaleClaims, Unit
  <2>3. NoneCompleted
    BY <1>1, <2>1, <2>2 DEF SweepStale, NoneCompleted, Open
  <2>. QED BY <2>3, NoneCompletedKeeps
<1>2. ASSUME NEW a \in Auditor, CompleteFinished(a) PROVE CompletersKnow'
  <2>1. sched[a].found = {}
    BY <1>2 DEF CompleteFinished, At, SchedulesFit
  <2>2. /\ sched'[a].found = FinishedRuns
        /\ \A b \in Auditor \ {a} : sched'[b] = sched[b]
    BY <1>2 DEF CompleteFinished, ThreadsTyped
  <2>3. /\ \A r \in FinishedRuns : run'[r] = [run[r] EXCEPT !.status = "completed"]
        /\ \A r \in RunId \ FinishedRuns : run'[r] = run[r]
    BY <1>2 DEF CompleteFinished, FinishedRuns
  <2>4. \A r \in FinishedRuns : [run[r] EXCEPT !.status = "completed"].status = "completed"
    BY DEF FinishedRuns, TablesTyped, RunRow
  <2>5. /\ \A r \in FinishedRuns : run[r].status = "probing"
        /\ \A r \in FinishedRuns, f \in MediaFile : ~ Open(<<r, f>>)
    BY DEF FinishedRuns, UnitsOf
  <2>6. torn' = torn /\ \A u : Open(u)' <=> Open(u)
    BY <1>2 DEF CompleteFinished, Open
  <2>. SUFFICES ASSUME NEW r \in RunId \ torn, NEW c \in Auditor, r \in sched'[c].found
                PROVE  /\ run'[r].status \in {"completed", "failed"}
                       /\ \A f \in MediaFile : ~ Open(<<r, f>>)'
                       /\ \A b \in Auditor : r \in sched'[b].found => b = c
    BY <2>6 DEF CompletersKnow
  <2>7. CASE r \in FinishedRuns
    <3>1. \A b \in Auditor : r \notin sched[b].found
      BY <2>5, <2>7, Zenon DEF CompletersKnow
    <3>2. \A b \in Auditor : r \in sched'[b].found => b = a
      BY <2>2, <3>1
    <3>. QED BY <2>3, <2>4, <2>5, <2>6, <2>7, <3>2
  <2>8. CASE r \notin FinishedRuns
    <3>1. \A b \in Auditor : r \in sched'[b].found => r \in sched[b].found
      BY <2>2, <2>8
    <3>2. /\ run[r].status \in {"completed", "failed"}
          /\ \A f \in MediaFile : ~ Open(<<r, f>>)
          /\ \A b \in Auditor : r \in sched[b].found => b = c
      BY <3>1, Zenon DEF CompletersKnow
    <3>. QED BY <2>3, <2>6, <2>8, <3>1, <3>2
  <2>. QED BY <2>7, <2>8
<1>3. ASSUME NEW a \in Auditor, RollUp(a) PROVE CompletersKnow'
  <2>1. \A b \in Auditor : sched'[b].found = sched[b].found
    BY <1>3, GotoTyped DEF RollUp, AuditPc
  <2>2. NoneCompleted
    BY <1>3, <2>1 DEF RollUp, NoneCompleted, Open
  <2>. QED BY <2>2, NoneCompletedKeeps
<1>4. ASSUME NEW a \in Auditor, Purge(a) PROVE CompletersKnow'
  <2>1. \A b \in Auditor : sched'[b].found \subseteq sched[b].found
    BY <1>4 DEF Purge, ThreadsTyped
  <2>2. NoneCompleted
    BY <1>4, <2>1 DEF Purge, NoneCompleted, Open
  <2>. QED BY <2>2, NoneCompletedKeeps
<1>5. ASSUME NEW a \in Auditor, Look(a) PROVE CompletersKnow'
  <2>1. \A b \in Auditor : sched'[b].found = sched[b].found
    BY <1>5, GotoTyped DEF Look, AuditPc
  <2>2. NoneCompleted
    BY <1>5, <2>1 DEF Look, NoneCompleted, Open, tables
  <2>. QED BY <2>2, NoneCompletedKeeps
<1>6. ASSUME NEW a \in Auditor, StartRun(a) PROVE CompletersKnow'
  <2>1. /\ \A b \in Auditor : sched'[b].found = sched[b].found
        /\ \A r \in RunId : run[r].status \in {"completed", "failed"} => run'[r] = run[r]
    <3>1. CASE lock = NoAuditor /\ Unused # {}
      BY <1>6, <3>1, BeginTyped, GotoTyped DEF StartRun, AuditPc
    <3>2. CASE ~ (lock = NoAuditor /\ Unused # {})
      BY <1>6, <3>2, GotoTyped DEF StartRun, AuditPc
    <3>. QED BY <3>1, <3>2
  <2>2. NoneCompleted
    BY <1>6, <2>1 DEF StartRun, NoneCompleted, Open
  <2>. QED BY <2>2, NoneCompletedKeeps
<1>7. ASSUME NEW a \in Auditor, ApiTrigger(a) PROVE CompletersKnow'
  <2>1. \A r \in RunId : run[r].status \in {"completed", "failed"} => run'[r] = run[r]
    BY <1>7, BeginTyped DEF ApiTrigger
  <2>2. NoneCompleted
    BY <1>7, <2>1 DEF ApiTrigger, NoneCompleted, Open
  <2>. QED BY <2>2, NoneCompletedKeeps
<1>8. ASSUME NEW a \in Auditor, AuditCrash(a) PROVE CompletersKnow'
  <2>1. \A b \in Auditor : sched'[b].found \subseteq sched[b].found
    BY <1>8 DEF AuditCrash, ThreadsTyped
  <2>2. NoneCompleted
    BY <1>8, <2>1 DEF AuditCrash, NoneCompleted, Open, tables
  <2>. QED BY <2>2, NoneCompletedKeeps
<1>9. ASSUME NEW a \in Auditor, ReplaceWorker(a) PROVE CompletersKnow'
  <2>1. \A b \in Auditor : sched'[b].found = sched[b].found
    BY <1>9 DEF ReplaceWorker
  <2>2. \A r \in RunId, f \in MediaFile :
          unit'[<<r, f>>] = unit[<<r, f>>] \/ unit[<<r, f>>].status = "claimed"
    BY <1>9, GiveBackTyped DEF ReplaceWorker, ClaimsOf, Unit
  <2>3. NoneCompleted
    BY <1>9, <2>1, <2>2 DEF ReplaceWorker, NoneCompleted, Open
  <2>. QED BY <2>3, NoneCompletedKeeps
<1>10. ASSUME NEW a \in Auditor, AuditRestart(a) PROVE CompletersKnow'
  <2>1. \A b \in Auditor : sched'[b].found = sched[b].found
    BY <1>10 DEF AuditRestart
  <2>2. \A r \in RunId, f \in MediaFile :
          unit'[<<r, f>>] = unit[<<r, f>>] \/ unit[<<r, f>>].status = "claimed"
    BY <1>10, GiveBackTyped DEF AuditRestart, ClaimsOf, Unit
  <2>3. NoneCompleted
    BY <1>10, <2>1, <2>2 DEF AuditRestart, NoneCompleted, Open
  <2>. QED BY <2>3, NoneCompletedKeeps
<1>11. ASSUME NEW a \in Auditor, NEW r \in RunId, NEW fs \in SUBSET MediaFile,
              ClaimUnits(a, r, fs)
       PROVE  CompletersKnow'
  <2>1. \A q \in RunId, f \in MediaFile :
          unit'[<<q, f>>] = unit[<<q, f>>] \/ unit[<<q, f>>].status = "pending"
    BY <1>11 DEF ClaimUnits, Unit
  <2>2. NoneCompleted
    BY <1>11, <2>1 DEF ClaimUnits, NoneCompleted, Open
  <2>. QED BY <2>2, NoneCompletedKeeps
<1>12. ASSUME NEW r \in RunId, NEW fs \in SUBSET MediaFile,
              EnqueueUnits(r, fs)
       PROVE  CompletersKnow'
  <2>1. /\ \A u \in Unit : unit'[u] = IF u \in {r} \X fs THEN Pending ELSE unit[u]
        /\ \A q \in RunId \ {r} : run'[q] = run[q]
    BY <1>12, EnqueueTyped
  <2>2. \A q \in RunId \ {r}, f \in MediaFile : unit'[<<q, f>>] = unit[<<q, f>>]
    BY <2>1 DEF Unit
  <2>3. run[r].status \in {"completed", "failed"} => r \in torn'
    <3>1. walk[r].by # NoAuditor
      BY <1>12, AuditAssumption DEF EnqueueUnits, ThreadsTyped
    <3>. QED BY <1>12, <3>1 DEF EnqueueUnits, WalksAdd
  <2>4. torn \subseteq torn' /\ sched' = sched
    BY <1>12 DEF EnqueueUnits
  <2>5. \A q \in RunId \ torn' : run[q].status \in {"completed", "failed"} => q # r
    BY <2>3
  <2>6. NoneCompleted
    BY <2>1, <2>2, <2>4, <2>5 DEF NoneCompleted, Open
  <2>. QED BY <2>6, NoneCompletedKeeps
<1>13. ASSUME NEW r \in RunId, FinishWalk(r) PROVE CompletersKnow'
  <2>1. \A b \in Auditor : sched'[b].found = sched[b].found
    BY <1>13, EndWalkTyped DEF FinishWalk, ThreadsTyped
  <2>2. \A q \in RunId : run'[q] = run[q] \/ run'[q].status \in {"completed", "failed"}
    BY <1>13, SetStatusTyped DEF FinishWalk
  <2>3. NoneCompleted
    BY <1>13, <2>1, <2>2 DEF FinishWalk, NoneCompleted, Open
  <2>. QED BY <2>3, NoneCompletedKeeps
<1>14. ASSUME NEW r \in RunId, FailWalk(r) PROVE CompletersKnow'
  <2>1. \A b \in Auditor : sched'[b].found = sched[b].found
    BY <1>14, EndWalkTyped DEF FailWalk, ThreadsTyped
  <2>2. \A q \in RunId : run'[q] = run[q] \/ run'[q].status \in {"completed", "failed"}
    BY <1>14, SetStatusTyped DEF FailWalk
  <2>3. NoneCompleted
    BY <1>14, <2>1, <2>2 DEF FailWalk, NoneCompleted, Open
  <2>. QED BY <2>3, NoneCompletedKeeps
<1>15. ASSUME NEW r \in RunId, StopWalk(r) PROVE CompletersKnow'
  <2>1. \A b \in Auditor : sched'[b].found = sched[b].found
    BY <1>15, EndWalkTyped DEF StopWalk, ThreadsTyped
  <2>2. \A q \in RunId : run'[q] = run[q] \/ run'[q].status \in {"completed", "failed"}
    BY <1>15 DEF StopWalk, tables
  <2>3. NoneCompleted
    BY <1>15, <2>1, <2>2 DEF StopWalk, NoneCompleted, Open, tables
  <2>. QED BY <2>3, NoneCompletedKeeps
<1>16. ASSUME NEW a \in Auditor, NEW r \in RunId, NEW f \in MediaFile,
              Probe(a, r, f)
       PROVE  CompletersKnow'
  <2>1. NoneCompleted
    BY <1>16 DEF Probe, NoneCompleted, Open
  <2>. QED BY <2>1, NoneCompletedKeeps
<1>17. ASSUME NEW a \in Auditor, NEW r \in RunId, NEW f \in MediaFile,
              Report(a, r, f)
       PROVE  CompletersKnow'
  <2>1. NoneCompleted
    BY <1>17 DEF Report, NoneCompleted, Open
  <2>. QED BY <2>1, NoneCompletedKeeps
<1>18. ASSUME NEW a \in Auditor, NEW r \in RunId, NEW f \in MediaFile,
              Fix(a, r, f)
       PROVE  CompletersKnow'
  <2>1. NoneCompleted
    BY <1>18 DEF Fix, NoneCompleted, Open, tables
  <2>. QED BY <2>1, NoneCompletedKeeps
<1>19. ASSUME NEW a \in Auditor, NEW r \in RunId, NEW f \in MediaFile,
              Finish(a, r, f)
       PROVE  CompletersKnow'
  <2>1. MarkDone(a, <<r, f>>, "done") /\ UNCHANGED <<sched, torn>>
    BY <1>19 DEF Finish
  <2>2. /\ unit'[<<r, f>>].status = "done"
        /\ \A u \in Unit \ {<<r, f>>} : unit'[u] = unit[u]
        /\ run'[r].status = run[r].status /\ \A q \in RunId \ {r} : run'[q] = run[q]
    BY <2>1, MarkDoneTyped
  <2>3. \A q \in RunId, g \in MediaFile :
          unit'[<<q, g>>] = unit[<<q, g>>] \/ unit'[<<q, g>>].status = "done"
    BY <2>2 DEF Unit
  <2>4. NoneCompleted
    BY <2>1, <2>2, <2>3 DEF NoneCompleted, Open
  <2>. QED BY <2>4, NoneCompletedKeeps
<1>20. ASSUME NEW a \in Auditor, NEW r \in RunId, NEW f \in MediaFile,
              ProbeError(a, r, f)
       PROVE  CompletersKnow'
  <2>1. MarkDone(a, <<r, f>>, "error") /\ UNCHANGED <<sched, torn>>
    BY <1>20 DEF ProbeError
  <2>2. /\ unit'[<<r, f>>].status = "error"
        /\ \A u \in Unit \ {<<r, f>>} : unit'[u] = unit[u]
        /\ run'[r].status = run[r].status /\ \A q \in RunId \ {r} : run'[q] = run[q]
    BY <2>1, MarkDoneTyped
  <2>3. \A q \in RunId, g \in MediaFile :
          unit'[<<q, g>>] = unit[<<q, g>>] \/ unit'[<<q, g>>].status = "error"
    BY <2>2 DEF Unit
  <2>4. NoneCompleted
    BY <2>1, <2>2, <2>3 DEF NoneCompleted, Open
  <2>. QED BY <2>4, NoneCompletedKeeps
<1>21. ASSUME NEW a \in Auditor, NEW r \in RunId, NEW f \in MediaFile,
              LoseUnit(a, r, f)
       PROVE  CompletersKnow'
  <2>1. NoneCompleted
    BY <1>21 DEF LoseUnit, NoneCompleted, Open, tables
  <2>. QED BY <2>1, NoneCompletedKeeps
<1>22. ASSUME NEW u \in Unit, Age(u) PROVE CompletersKnow'
  <2>1. \A r \in RunId, f \in MediaFile :
          unit'[<<r, f>>] = unit[<<r, f>>] \/ unit[<<r, f>>].status = "claimed"
    BY <1>22 DEF Age, Unit, TablesTyped
  <2>2. NoneCompleted
    BY <1>22, <2>1 DEF Age, NoneCompleted, Open
  <2>. QED BY <2>2, NoneCompletedKeeps
<1>23. ASSUME NEW k \in Found \X MediaFile, NEW s \in {"acked", "dismissed", "resolved"},
              SetFindingStatus(k, s)
       PROVE  CompletersKnow'
  <2>1. NoneCompleted
    BY <1>23 DEF SetFindingStatus, NoneCompleted, Open
  <2>. QED BY <2>1, NoneCompletedKeeps
<1>24. CASE UNCHANGED auditVars
  <2>1. NoneCompleted
    BY <1>24 DEF auditVars, tables, NoneCompleted, Open
  <2>. QED BY <2>1, NoneCompletedKeeps
<1>. QED
  BY <1>1, <1>2, <1>3, <1>4, <1>5, <1>6, <1>7, <1>8, <1>9, <1>10, <1>11, <1>12, <1>13,
     <1>14, <1>15, <1>16, <1>17, <1>18, <1>19, <1>20, <1>21, <1>22, <1>23, <1>24
     DEF AuditNext, Cycle, Enumerate, Work, Claiming, Disturbed

-----------------------------------------------------------------------------
(* Media ids stay until the duplicates among them are reported.            *)

LEMMA IntactStays ==
  ASSUME torn \subseteq torn', freed \subseteq freed'
  PROVE  Intact' \subseteq Intact
BY DEF Intact, UnitsOf

LEMMA TwinsStay ==
  ASSUME NEW r \in RunId, TwinsFound(r), library' = library,
         \A k \in Found \X MediaFile : finding[k] # "none" => finding'[k] # "none",
         \A f \in MediaFile : unit'[<<r, f>>].status = "done" => unit[<<r, f>>].status = "done"
  PROVE  TwinsFound(r)'
<1>1. \A f \in MediaFile : <<"duplicate_id", f>> \in Found \X MediaFile
  BY DEF Found
<1>. SUFFICES ASSUME NEW t \in Twins, NEW f \in MediaFile, NEW g \in MediaFile,
                     {f, g} \subseteq t, f # g, library[f] = "good", library[g] = "good",
                     unit'[<<r, f>>].status = "done", unit'[<<r, g>>].status = "done"
              PROVE  finding'[<<"duplicate_id", f>>] # "none"
  BY DEF TwinsFound
<1>2. unit[<<r, f>>].status = "done" /\ unit[<<r, g>>].status = "done"
  OBVIOUS
<1>3. finding[<<"duplicate_id", f>>] # "none"
  BY <1>2 DEF TwinsFound
<1>. QED BY <1>1, <1>3

\* Steps that neither mark a unit done, nor complete a run that has one, nor take an
\* id away; the runs to be rolled up are the same, or lost with their node.
RollUpsStay ==
  \A a \in Auditor :
    \/ /\ sched'[a].found = sched[a].found
       /\ sched'[a].pc = "purging" => sched[a].pc = "purging"
    \/ sched'[a].found = {} /\ sched[a].found \subseteq torn'

NothingLearnt ==
  /\ torn \subseteq torn' /\ freed \subseteq freed' /\ library' = library /\ ids \subseteq ids'
  /\ \A k \in Found \X MediaFile : finding[k] # "none" => finding'[k] # "none"
  /\ \A r \in RunId, f \in MediaFile :
       unit'[<<r, f>>].status = "done" => unit[<<r, f>>].status = "done"
  /\ \A a \in Auditor, r \in RunId, f \in MediaFile :
       task'[<<a, r, f>>] = "clean" => task[<<a, r, f>>] = "clean" \/ <<r, f>> \in ids'
  /\ \A r \in RunId :
       \/ \A f \in MediaFile : unit'[<<r, f>>].status # "done"
       \/ /\ run'[r].status \in {"enumerating", "probing"} =>
               run[r].status \in {"enumerating", "probing"} \/ r \in torn'
          /\ run'[r].status = "completed" => run[r].status = "completed"
  /\ RollUpsStay

LEMMA NothingLearntKeeps ==
  ASSUME IdsKept, DuplicatesReported, NothingLearnt
  PROVE  (IdsKept /\ DuplicatesReported)'
<1>1. Intact' \subseteq Intact
  BY IntactStays DEF NothingLearnt
<1>2. \A r \in RunId : Recorded(r) => Recorded(r)'
  BY DEF Recorded, NothingLearnt
<1>3. \A r \in RunId : TwinsFound(r) => TwinsFound(r)'
  <2>. SUFFICES ASSUME NEW r \in RunId, TwinsFound(r) PROVE TwinsFound(r)'
    OBVIOUS
  <2>. QED BY TwinsStay DEF NothingLearnt
<1>4. \A r \in RunId : (\A f \in MediaFile : unit'[<<r, f>>].status # "done") =>
        Recorded(r)' /\ TwinsFound(r)'
  BY DEF Recorded, TwinsFound
<1>5. IdsKept'
  <2>. SUFFICES ASSUME NEW r \in Intact'
                PROVE  /\ run'[r].status \in {"enumerating", "probing"} => Recorded(r)'
                       /\ \A a \in Auditor, f \in MediaFile :
                            task'[<<a, r, f>>] = "clean" => <<r, f>> \in ids'
                       /\ \A a \in Auditor : r \in sched'[a].found =>
                            /\ Recorded(r)'
                            /\ sched'[a].pc = "purging" /\ r = First(sched'[a].found) =>
                                 TwinsFound(r)'
    BY DEF IdsKept
  <2>1. r \in Intact /\ r \in RunId /\ r \notin torn'
    BY <1>1 DEF Intact
  <2>2. run'[r].status \in {"enumerating", "probing"} => Recorded(r)'
    BY <1>2, <1>4, <2>1 DEF IdsKept, NothingLearnt
  <2>3. \A a \in Auditor, f \in MediaFile : task'[<<a, r, f>>] = "clean" => <<r, f>> \in ids'
    BY <2>1 DEF IdsKept, NothingLearnt
  <2>4. ASSUME NEW a \in Auditor, r \in sched'[a].found
        PROVE  /\ Recorded(r)'
               /\ sched'[a].pc = "purging" /\ r = First(sched'[a].found) => TwinsFound(r)'
    <3>1. /\ sched'[a].found = sched[a].found
          /\ sched'[a].pc = "purging" => sched[a].pc = "purging"
      BY <2>4 DEF NothingLearnt, RollUpsStay
    <3>2. /\ Recorded(r)
          /\ sched[a].pc = "purging" /\ r = First(sched[a].found) => TwinsFound(r)
      BY <2>1, <2>4, <3>1 DEF IdsKept
    <3>. QED BY <1>2, <1>3, <2>1, <3>1, <3>2
  <2>. QED BY <2>2, <2>3, <2>4
<1>6. DuplicatesReported'
  <2>. SUFFICES ASSUME NEW r \in RunId, RolledUp(r)', r \notin torn', (UnitsOf(r) \cap freed)' = {}
                PROVE  TwinsFound(r)'
    BY DEF DuplicatesReported
  <2>1. r \notin torn /\ UnitsOf(r) \cap freed = {}
    BY DEF NothingLearnt, UnitsOf
  <2>2. CASE \A f \in MediaFile : unit'[<<r, f>>].status # "done"
    BY <1>4, <2>2
  <2>3. CASE ~ \A f \in MediaFile : unit'[<<r, f>>].status # "done"
    <3>1. run[r].status = "completed"
      BY <2>3 DEF RolledUp, NothingLearnt
    <3>2. \A a \in Auditor : r \notin sched[a].found
      BY DEF RolledUp, NothingLearnt, RollUpsStay
    <3>3. TwinsFound(r)
      BY <2>1, <3>1, <3>2 DEF DuplicatesReported, RolledUp
    <3>. QED BY <1>3, <3>3
  <2>. QED BY <2>2, <2>3
<1>. QED BY <1>5, <1>6

\* A run that begins has nothing to report.
LEMMA BeginLearnsNothing ==
  ASSUME TablesTyped, ThreadsTyped, WorldTyped, WalksAdd,
         UNCHANGED <<unit, ids, finding, library, torn, freed, task>>,
         RollUpsStay,
         Unused # {}, NEW a \in Auditor, NEW api \in BOOLEAN, Begin(a, api)
  PROVE  NothingLearnt
<1>1. PICK r \in RunId : run[r].status = "none" /\ \A q \in RunId \ {r} : run'[q] = run[q]
  BY BeginTyped
<1>2. \A f \in MediaFile : unit'[<<r, f>>].status # "done"
  BY <1>1 DEF WalksAdd
<1>. QED BY <1>1, <1>2 DEF NothingLearnt

LEMMA DuplicatesKept ==
  ASSUME TablesTyped, ThreadsTyped, WorldTyped, ThreadsLive, WalksAdd,
         CompletedMeansProbed, StagesTell, SchedulesFit, CompletersKnow, IdsKept, DuplicatesReported, [AuditNext]_auditVars
  PROVE  (IdsKept /\ DuplicatesReported)'
<1>1. ASSUME NEW a \in Auditor, SweepStale(a) PROVE (IdsKept /\ DuplicatesReported)'
  <2>1. Pending.status = "pending"
    BY DEF Pending
  <2>2. \A r \in RunId, f \in MediaFile :
          unit'[<<r, f>>].status = "done" => unit[<<r, f>>].status = "done"
    BY <1>1, <2>1, GiveBackTyped DEF SweepStale, Unit
  <2>3. RollUpsStay
    BY <1>1, GotoTyped DEF SweepStale, AuditPc, RollUpsStay
  <2>4. NothingLearnt
    BY <1>1, <2>2, <2>3 DEF SweepStale, NothingLearnt
  <2>. QED BY <2>4, NothingLearntKeeps
<1>2. ASSUME NEW a \in Auditor, CompleteFinished(a) PROVE (IdsKept /\ DuplicatesReported)'
  <2>1. UNCHANGED <<library, unit, ids, finding, torn, freed, task>>
    BY <1>2 DEF CompleteFinished
  <2>2. /\ sched[a].found = {} /\ sched'[a].found = FinishedRuns /\ sched'[a].pc # "purging"
        /\ \A b \in Auditor \ {a} : sched'[b] = sched[b]
    BY <1>2 DEF CompleteFinished, At, SchedulesFit, ThreadsTyped
  <2>3. /\ \A r \in FinishedRuns : r \in RunId /\ run[r].status = "probing"
        /\ \A r \in FinishedRuns : run'[r] = [run[r] EXCEPT !.status = "completed"]
        /\ \A r \in RunId \ FinishedRuns : run'[r] = run[r]
    BY <1>2 DEF CompleteFinished, FinishedRuns
  <2>4. \A r \in FinishedRuns : run'[r].status = "completed"
    BY <2>3 DEF TablesTyped, RunRow
  <2>5. /\ Intact' = Intact
        /\ \A r : Recorded(r)' <=> Recorded(r)
        /\ \A r : TwinsFound(r)' <=> TwinsFound(r)
    BY <2>1 DEF Intact, UnitsOf, Recorded, TwinsFound
  <2>6. IdsKept'
    <3>. SUFFICES ASSUME NEW r \in Intact'
                  PROVE  /\ run'[r].status \in {"enumerating", "probing"} => Recorded(r)'
                         /\ \A b \in Auditor, f \in MediaFile :
                              task'[<<b, r, f>>] = "clean" => <<r, f>> \in ids'
                         /\ \A b \in Auditor : r \in sched'[b].found =>
                              /\ Recorded(r)'
                              /\ sched'[b].pc = "purging" /\ r = First(sched'[b].found) =>
                                   TwinsFound(r)'
      BY DEF IdsKept
    <3>1. r \in Intact /\ r \in RunId
      BY <2>5 DEF Intact
    <3>2. run'[r].status \in {"enumerating", "probing"} => Recorded(r)'
      BY <2>3, <2>4, <2>5, <3>1 DEF IdsKept
    <3>3. \A b \in Auditor, f \in MediaFile : task'[<<b, r, f>>] = "clean" => <<r, f>> \in ids'
      BY <2>1, <3>1 DEF IdsKept
    <3>4. ASSUME NEW b \in Auditor, r \in sched'[b].found
          PROVE  /\ Recorded(r)'
                 /\ sched'[b].pc = "purging" /\ r = First(sched'[b].found) => TwinsFound(r)'
      <4>1. CASE b = a
        BY <2>2, <2>3, <2>5, <3>1, <3>4, <4>1 DEF IdsKept
      <4>2. CASE b # a
        BY <2>2, <2>5, <3>1, <3>4, <4>2 DEF IdsKept
      <4>. QED BY <4>1, <4>2
    <3>. QED BY <3>2, <3>3, <3>4
  <2>7. DuplicatesReported'
    <3>. SUFFICES ASSUME NEW r \in RunId, RolledUp(r)', r \notin torn, UnitsOf(r) \cap freed = {}
                  PROVE  TwinsFound(r)'
      BY <2>1 DEF DuplicatesReported, UnitsOf
    <3>1. r \notin FinishedRuns
      BY <2>2 DEF RolledUp
    <3>2. RolledUp(r)
      BY <2>2, <2>3, <3>1 DEF RolledUp
    <3>. QED BY <2>5, <3>2 DEF DuplicatesReported
  <2>. QED BY <2>6, <2>7
<1>3. ASSUME NEW a \in Auditor, RollUp(a) PROVE (IdsKept /\ DuplicatesReported)'
  <2>. PICK q : q = First(sched[a].found)
    OBVIOUS
  <2>1. UNCHANGED <<library, unit, ids, run, torn, freed, task>>
    BY <1>3 DEF RollUp
  <2>2. /\ sched'[a].found = sched[a].found
        /\ \A b \in Auditor \ {a} : sched'[b] = sched[b]
    BY <1>3, GotoTyped DEF RollUp, AuditPc
  <2>3. q \in sched[a].found /\ q \in RunId
    <3>1. sched[a].found # {} /\ sched[a].found \in SUBSET RunId
      BY <1>3, Plans DEF RollUp, At, SchedulesFit, ThreadsTyped
    <3>. QED BY <3>1, FirstRun
  <2>4. /\ \A k \in Found \X MediaFile : finding[k] # "none" => finding'[k] # "none"
        /\ \A f \in Duplicates(q) : finding'[<<"duplicate_id", f>>] # "none"
    <3>1. \A f \in Duplicates(q) : <<"duplicate_id", f>> \in Found \X MediaFile
      BY DEF Found, Duplicates
    <3>. QED BY <1>3, <3>1, UpsertTyped DEF RollUp
  <2>5. Intact' = Intact /\ (\A r : Recorded(r)' <=> Recorded(r)) /\ (\A r : RolledUp(r)' <=> RolledUp(r))
    BY <2>1, <2>2 DEF Intact, UnitsOf, Recorded, RolledUp
  <2>6. \A r \in RunId : TwinsFound(r) => TwinsFound(r)'
    BY <2>1, <2>4, TwinsStay
  <2>7. Recorded(q) => TwinsFound(q)'
    <3>. SUFFICES ASSUME Recorded(q), NEW t \in Twins, NEW f \in MediaFile, NEW g \in MediaFile,
                         {f, g} \subseteq t, f # g, library[f] = "good", library[g] = "good",
                         unit[<<q, f>>].status = "done", unit[<<q, g>>].status = "done"
                  PROVE  finding'[<<"duplicate_id", f>>] # "none"
      BY <2>1 DEF TwinsFound
    <3>1. <<q, f>> \in ids /\ <<q, g>> \in ids
      BY DEF Recorded
    <3>2. f \in Duplicates(q)
      BY <3>1 DEF Duplicates
    <3>. QED BY <2>4, <3>2
  <2>8. IdsKept'
    <3>. SUFFICES ASSUME NEW r \in Intact'
                  PROVE  /\ run'[r].status \in {"enumerating", "probing"} => Recorded(r)'
                         /\ \A b \in Auditor, f \in MediaFile :
                              task'[<<b, r, f>>] = "clean" => <<r, f>> \in ids'
                         /\ \A b \in Auditor : r \in sched'[b].found =>
                              /\ Recorded(r)'
                              /\ sched'[b].pc = "purging" /\ r = First(sched'[b].found) =>
                                   TwinsFound(r)'
      BY DEF IdsKept
    <3>1. r \in Intact /\ r \in RunId
      BY <2>5 DEF Intact
    <3>2. run'[r].status \in {"enumerating", "probing"} => Recorded(r)'
      BY <2>1, <2>5, <3>1 DEF IdsKept
    <3>3. \A b \in Auditor, f \in MediaFile : task'[<<b, r, f>>] = "clean" => <<r, f>> \in ids'
      BY <2>1, <3>1 DEF IdsKept
    <3>4. ASSUME NEW b \in Auditor, r \in sched'[b].found
          PROVE  /\ Recorded(r)'
                 /\ sched'[b].pc = "purging" /\ r = First(sched'[b].found) => TwinsFound(r)'
      <4>1. CASE b = a
        BY <2>2, <2>5, <2>7, <3>1, <3>4, <4>1 DEF IdsKept
      <4>2. CASE b # a
        BY <2>2, <2>5, <2>6, <3>1, <3>4, <4>2 DEF IdsKept
      <4>. QED BY <4>1, <4>2
    <3>. QED BY <3>2, <3>3, <3>4
  <2>9. DuplicatesReported'
    <3>. SUFFICES ASSUME NEW r \in RunId, RolledUp(r)', r \notin torn, UnitsOf(r) \cap freed = {}
                  PROVE  TwinsFound(r)'
      BY <2>1 DEF DuplicatesReported, UnitsOf
    <3>. QED BY <2>5, <2>6 DEF DuplicatesReported
  <2>. QED BY <2>8, <2>9
<1>4. ASSUME NEW a \in Auditor, Purge(a) PROVE (IdsKept /\ DuplicatesReported)'
  <2>. DEFINE q == First(sched[a].found)
  <2>1. UNCHANGED <<library, unit, finding, run, torn, freed, task>>
    BY <1>4 DEF Purge
  <2>2. /\ sched'[a].found = sched[a].found \ {q} /\ sched'[a].pc # "purging"
        /\ \A b \in Auditor \ {a} : sched'[b] = sched[b]
    BY <1>4 DEF Purge, ThreadsTyped
  <2>3. q \in sched[a].found /\ q \in RunId /\ sched[a].pc = "purging"
    <3>1. sched[a].found # {} /\ sched[a].found \in SUBSET RunId /\ sched[a].pc = "purging"
      BY <1>4, Plans DEF Purge, At, SchedulesFit, ThreadsTyped
    <3>. QED BY <3>1, FirstRun
  <2>4. ids' = ids \ UnitsOf(q)
    BY <1>4 DEF Purge
  <2>5. q \in Intact => TwinsFound(q)
    BY <2>3 DEF IdsKept
  <2>6. /\ Intact' = Intact
        /\ \A r : TwinsFound(r)' <=> TwinsFound(r)
    BY <2>1 DEF Intact, UnitsOf, TwinsFound
  <2>7. \A r \in RunId \ {q} : Recorded(r) => Recorded(r)'
    BY <2>1, <2>4 DEF Recorded, UnitsOf
  <2>. HIDE DEF q
  <2>8. IdsKept'
    <3>. SUFFICES ASSUME NEW r \in Intact'
                  PROVE  /\ run'[r].status \in {"enumerating", "probing"} => Recorded(r)'
                         /\ \A b \in Auditor, f \in MediaFile :
                              task'[<<b, r, f>>] = "clean" => <<r, f>> \in ids'
                         /\ \A b \in Auditor : r \in sched'[b].found =>
                              /\ Recorded(r)'
                              /\ sched'[b].pc = "purging" /\ r = First(sched'[b].found) =>
                                   TwinsFound(r)'
      BY DEF IdsKept
    <3>1. r \in Intact /\ r \in RunId
      BY <2>6 DEF Intact
    <3>2. CASE r = q
      <4>1. /\ run[q].status \in {"completed", "failed"}
            /\ \A f \in MediaFile : ~ Open(<<q, f>>)
            /\ \A b \in Auditor : q \in sched[b].found => b = a
        BY <2>3, <3>1, <3>2, Zenon DEF CompletersKnow, Intact
      <4>2. \A b \in Auditor, f \in MediaFile : task[<<b, q, f>>] # "clean"
        <5>. SUFFICES ASSUME NEW b \in Auditor, NEW f \in MediaFile, task[<<b, q, f>>] = "clean"
                      PROVE  FALSE
          OBVIOUS
        <5>1. <<q, f>> \notin freed
          BY <3>1, <3>2 DEF Intact, UnitsOf
        <5>2. unit[<<q, f>>].status = "claimed"
          BY <2>3, <5>1 DEF ThreadsLive
        <5>. QED BY <4>1, <5>2 DEF Open
      <4>3. \A b \in Auditor : r \notin sched'[b].found
        BY <2>2, <3>2, <4>1
      <4>. QED BY <2>1, <3>2, <4>1, <4>2, <4>3
    <3>3. CASE r # q
      <4>1. run'[r].status \in {"enumerating", "probing"} => Recorded(r)'
        BY <2>1, <2>7, <3>1, <3>3 DEF IdsKept
      <4>2. \A b \in Auditor, f \in MediaFile : task'[<<b, r, f>>] = "clean" => <<r, f>> \in ids'
        BY <2>1, <2>4, <3>1, <3>3 DEF IdsKept, UnitsOf
      <4>3. ASSUME NEW b \in Auditor, r \in sched'[b].found
            PROVE  /\ Recorded(r)'
                   /\ sched'[b].pc = "purging" /\ r = First(sched'[b].found) => TwinsFound(r)'
        <5>1. CASE b = a
          BY <2>2, <2>7, <3>1, <3>3, <4>3, <5>1 DEF IdsKept
        <5>2. CASE b # a
          BY <2>2, <2>6, <2>7, <3>1, <3>3, <4>3, <5>2 DEF IdsKept
        <5>. QED BY <5>1, <5>2
      <4>. QED BY <4>1, <4>2, <4>3
    <3>. QED BY <3>2, <3>3
  <2>9. DuplicatesReported'
    <3>. SUFFICES ASSUME NEW r \in RunId, RolledUp(r)', r \notin torn, UnitsOf(r) \cap freed = {}
                  PROVE  TwinsFound(r)'
      BY <2>1 DEF DuplicatesReported, UnitsOf
    <3>1. CASE r = q
      <4>1. q \in Intact
        BY <2>3, <3>1 DEF Intact
      <4>. QED BY <2>5, <2>6, <3>1, <4>1
    <3>2. CASE r # q
      <4>1. RolledUp(r)
        BY <2>1, <2>2, <3>2 DEF RolledUp
      <4>. QED BY <2>6, <4>1 DEF DuplicatesReported
    <3>. QED BY <3>1, <3>2
  <2>. QED BY <2>8, <2>9
<1>5. ASSUME NEW a \in Auditor, Look(a) PROVE (IdsKept /\ DuplicatesReported)'
  <2>. DEFINE pc == IF ActiveRuns # {} THEN "rest" ELSE "looked"
  <2>1. pc \in {"rest", "looked"} /\ pc \in AuditPc /\ Goto(a, pc)
    BY <1>5 DEF Look, AuditPc
  <2>2. RollUpsStay
    BY <2>1, GotoTyped DEF RollUpsStay
  <2>3. NothingLearnt
    BY <1>5, <2>2 DEF Look, tables, NothingLearnt
  <2>. QED BY <2>3, NothingLearntKeeps
<1>6. ASSUME NEW a \in Auditor, StartRun(a) PROVE (IdsKept /\ DuplicatesReported)'
  <2>1. RollUpsStay
    BY <1>6, GotoTyped DEF StartRun, AuditPc, RollUpsStay
  <2>2. CASE lock = NoAuditor /\ Unused # {}
    <3>1. NothingLearnt
      BY <1>6, <2>1, <2>2, BeginLearnsNothing DEF StartRun
    <3>. QED BY <3>1, NothingLearntKeeps
  <2>3. CASE ~ (lock = NoAuditor /\ Unused # {})
    <3>1. NothingLearnt
      BY <1>6, <2>1, <2>3 DEF StartRun, NothingLearnt
    <3>. QED BY <3>1, NothingLearntKeeps
  <2>. QED BY <2>2, <2>3
<1>7. ASSUME NEW a \in Auditor, ApiTrigger(a) PROVE (IdsKept /\ DuplicatesReported)'
  <2>1. RollUpsStay
    BY <1>7 DEF ApiTrigger, RollUpsStay
  <2>2. NothingLearnt
    BY <1>7, <2>1, BeginLearnsNothing DEF ApiTrigger
  <2>. QED BY <2>2, NothingLearntKeeps
<1>8. ASSUME NEW a \in Auditor, AuditCrash(a) PROVE (IdsKept /\ DuplicatesReported)'
  <2>1. /\ sched'[a].found = {} /\ sched[a].found \subseteq torn'
        /\ \A b \in Auditor \ {a} : sched'[b] = sched[b]
    BY <1>8 DEF AuditCrash, ThreadsTyped
  <2>2. \A b \in Auditor, q \in RunId, g \in MediaFile : task'[<<b, q, g>>] \in {task[<<b, q, g>>], "none"}
    BY <1>8 DEF AuditCrash, Probing
  <2>3. torn \subseteq torn' /\ UNCHANGED <<freed, library, ids, finding, unit, run>>
    BY <1>8 DEF AuditCrash, tables
  <2>4. NothingLearnt
    BY <2>1, <2>2, <2>3 DEF NothingLearnt, RollUpsStay
  <2>. QED BY <2>4, NothingLearntKeeps
<1>9. ASSUME NEW a \in Auditor, ReplaceWorker(a) PROVE (IdsKept /\ DuplicatesReported)'
  <2>1. Pending.status = "pending"
    BY DEF Pending
  <2>2. \A r \in RunId, f \in MediaFile :
          unit'[<<r, f>>].status = "done" => unit[<<r, f>>].status = "done"
    BY <1>9, <2>1, GiveBackTyped DEF ReplaceWorker, Unit
  <2>3. RollUpsStay
    BY <1>9 DEF ReplaceWorker, RollUpsStay
  <2>4. NothingLearnt
    BY <1>9, <2>2, <2>3 DEF ReplaceWorker, NothingLearnt
  <2>. QED BY <2>4, NothingLearntKeeps
<1>10. ASSUME NEW a \in Auditor, AuditRestart(a) PROVE (IdsKept /\ DuplicatesReported)'
  <2>1. Pending.status = "pending"
    BY DEF Pending
  <2>2. \A r \in RunId, f \in MediaFile :
          unit'[<<r, f>>].status = "done" => unit[<<r, f>>].status = "done"
    BY <1>10, <2>1, GiveBackTyped DEF AuditRestart, Unit
  <2>3. RollUpsStay
    BY <1>10 DEF AuditRestart, RollUpsStay
  <2>4. NothingLearnt
    BY <1>10, <2>2, <2>3 DEF AuditRestart, NothingLearnt
  <2>. QED BY <2>4, NothingLearntKeeps
<1>11. ASSUME NEW a \in Auditor, NEW r \in RunId, NEW fs \in SUBSET MediaFile,
              ClaimUnits(a, r, fs)
       PROVE  (IdsKept /\ DuplicatesReported)'
  <2>. DEFINE c == [status |-> "claimed", by |-> a, old |-> FALSE]
  <2>1. c.status = "claimed"
    OBVIOUS
  <2>. HIDE DEF c
  <2>2. \A q \in RunId, f \in MediaFile : unit'[<<q, f>>] \in {unit[<<q, f>>], c}
    BY <1>11 DEF ClaimUnits, Unit, c
  <2>3. \A b \in Auditor, q \in RunId, g \in MediaFile :
          task'[<<b, q, g>>] \in {task[<<b, q, g>>], "claimed"}
    BY <1>11 DEF ClaimUnits, Probing
  <2>4. NothingLearnt
    BY <1>11, <2>1, <2>2, <2>3 DEF ClaimUnits, NothingLearnt, RollUpsStay
  <2>. QED BY <2>4, NothingLearntKeeps
<1>12. ASSUME NEW r \in RunId, NEW fs \in SUBSET MediaFile,
              EnqueueUnits(r, fs)
       PROVE  (IdsKept /\ DuplicatesReported)'
  <2>1. Pending.status = "pending"
    BY DEF Pending
  <2>2. \A q \in RunId, f \in MediaFile :
          unit'[<<q, f>>].status = "done" => unit[<<q, f>>].status = "done"
    BY <1>12, <2>1, EnqueueTyped DEF Unit
  <2>3. run[r].status \in {"enumerating", "probing"} \/ r \in torn'
    <3>1. walk[r].by # NoAuditor
      BY <1>12, AuditAssumption DEF EnqueueUnits, ThreadsTyped
    <3>2. run[r].status \in {"enumerating", "probing", "completed"}
      BY <3>1 DEF TablesTyped, RunRow, WalksAdd
    <3>. QED BY <1>12, <3>2 DEF EnqueueUnits
  <2>4. run'[r].status = "probing" /\ \A q \in RunId \ {r} : run'[q] = run[q]
    BY <1>12, EnqueueTyped
  <2>5. /\ torn \subseteq torn' /\ UNCHANGED <<freed, library, ids, finding, task, sched>>
    BY <1>12 DEF EnqueueUnits
  <2>6. NothingLearnt
    BY <2>2, <2>3, <2>4, <2>5 DEF NothingLearnt, RollUpsStay
  <2>. QED BY <2>6, NothingLearntKeeps
<1>13. ASSUME NEW r \in RunId, FinishWalk(r) PROVE (IdsKept /\ DuplicatesReported)'
  <2>1. RollUpsStay
    BY <1>13, EndWalkTyped DEF FinishWalk, ThreadsTyped, RollUpsStay
  <2>2. walk[r].by # NoAuditor /\ UNCHANGED <<unit, ids, finding, library, torn, freed, task>>
    BY <1>13, AuditAssumption DEF FinishWalk, ThreadsTyped
  <2>3. \/ run' = run
        \/ /\ \A f \in MediaFile : unit'[<<r, f>>].status # "done"
           /\ \A q \in RunId \ {r} : run'[q] = run[q]
    BY <1>13, <2>2, SetStatusTyped DEF FinishWalk, WalksAdd
  <2>4. NothingLearnt
    BY <2>1, <2>2, <2>3 DEF NothingLearnt
  <2>. QED BY <2>4, NothingLearntKeeps
<1>14. ASSUME NEW r \in RunId, FailWalk(r) PROVE (IdsKept /\ DuplicatesReported)'
  <2>1. RollUpsStay
    BY <1>14, EndWalkTyped DEF FailWalk, ThreadsTyped, RollUpsStay
  <2>2. \A q \in RunId : run'[q] = run[q] \/ run'[q].status = "failed"
    BY <1>14, SetStatusTyped DEF FailWalk
  <2>3. NothingLearnt
    BY <1>14, <2>1, <2>2 DEF FailWalk, NothingLearnt
  <2>. QED BY <2>3, NothingLearntKeeps
<1>15. ASSUME NEW r \in RunId, StopWalk(r) PROVE (IdsKept /\ DuplicatesReported)'
  <2>1. RollUpsStay
    BY <1>15, EndWalkTyped DEF StopWalk, ThreadsTyped, RollUpsStay
  <2>2. \A q \in RunId : run'[q] = run[q] \/ run'[q].status = "failed"
    BY <1>15 DEF StopWalk, tables
  <2>3. NothingLearnt
    BY <1>15, <2>1, <2>2 DEF StopWalk, NothingLearnt, tables
  <2>. QED BY <2>3, NothingLearntKeeps
<1>16. ASSUME NEW a \in Auditor, NEW r \in RunId, NEW f \in MediaFile,
              Probe(a, r, f)
       PROVE  (IdsKept /\ DuplicatesReported)'
  <2>1. <<a, r, f>> \in Probing
    BY DEF Probing
  <2>2. /\ task'[<<a, r, f>>] = Verdict(f)
        /\ \A p \in Probing \ {<<a, r, f>>} : task'[p] = task[p]
    BY <1>16, <2>1 DEF Probe, ThreadsTyped
  <2>3. ids \subseteq ids' /\ (Verdict(f) = "clean" => <<r, f>> \in ids')
    BY <1>16 DEF Probe
  <2>4. \A b \in Auditor, q \in RunId, g \in MediaFile :
          task'[<<b, q, g>>] = "clean" => task[<<b, q, g>>] = "clean" \/ <<q, g>> \in ids'
    <3>. SUFFICES ASSUME NEW b \in Auditor, NEW q \in RunId, NEW g \in MediaFile,
                         task'[<<b, q, g>>] = "clean"
                  PROVE  task[<<b, q, g>>] = "clean" \/ <<q, g>> \in ids'
      OBVIOUS
    <3>1. CASE <<b, q, g>> = <<a, r, f>>
      <4>1. <<q, g>> = <<r, f>>
        BY <3>1
      <4>. QED BY <2>2, <2>3, <3>1, <4>1
    <3>2. CASE <<b, q, g>> # <<a, r, f>>
      BY <2>2, <3>2 DEF Probing
    <3>. QED BY <3>1, <3>2
  <2>5. NothingLearnt
    BY <1>16, <2>3, <2>4 DEF Probe, NothingLearnt, RollUpsStay
  <2>. QED BY <2>5, NothingLearntKeeps
<1>17. ASSUME NEW a \in Auditor, NEW r \in RunId, NEW f \in MediaFile,
              Report(a, r, f)
       PROVE  (IdsKept /\ DuplicatesReported)'
  <2>1. task[<<a, r, f>>] \in {"broken", "stale"}
    BY <1>17 DEF Report, KindOf
  <2>2. FixOf[task[<<a, r, f>>]] # "clean"
    BY <2>1 DEF FixOf
  <2>3. \A b \in Auditor, q \in RunId, g \in MediaFile :
          task'[<<b, q, g>>] = "clean" => task[<<b, q, g>>] = "clean"
    BY <1>17, <2>2 DEF Report, ThreadsTyped, Probing
  <2>4. \A k \in Found \X MediaFile : finding[k] # "none" => finding'[k] # "none"
    BY <1>17, UpsertTyped DEF Report
  <2>5. NothingLearnt
    BY <1>17, <2>3, <2>4 DEF Report, NothingLearnt, RollUpsStay
  <2>. QED BY <2>5, NothingLearntKeeps
<1>18. ASSUME NEW a \in Auditor, NEW r \in RunId, NEW f \in MediaFile,
              Fix(a, r, f)
       PROVE  (IdsKept /\ DuplicatesReported)'
  <2>1. \A b \in Auditor, q \in RunId, g \in MediaFile : task'[<<b, q, g>>] \in {task[<<b, q, g>>], "fixed"}
    BY <1>18 DEF Fix, ThreadsTyped, Probing
  <2>2. NothingLearnt
    BY <1>18, <2>1 DEF Fix, tables, NothingLearnt, RollUpsStay
  <2>. QED BY <2>2, NothingLearntKeeps
<1>19. ASSUME NEW a \in Auditor, NEW r \in RunId, NEW f \in MediaFile,
              Finish(a, r, f)
       PROVE  (IdsKept /\ DuplicatesReported)'
  <2>1. MarkDone(a, <<r, f>>, "done") /\ UNCHANGED <<library, ids, finding, sched, torn, freed>>
    BY <1>19 DEF Finish
  <2>2. /\ \A u \in Unit \ {<<r, f>>} : unit'[u] = unit[u]
        /\ run'[r].status = run[r].status /\ \A q \in RunId \ {r} : run'[q] = run[q]
        /\ task'[<<a, r, f>>] = "none"
        /\ \A p \in Probing \ {<<a, r, f>>} : task'[p] = task[p]
    BY <2>1, MarkDoneTyped
  <2>3. Intact' = Intact
    BY <2>1 DEF Intact, UnitsOf
  <2>4. \A q \in RunId \ {r}, g \in MediaFile : unit'[<<q, g>>] = unit[<<q, g>>]
    BY <2>2 DEF Unit
  <2>5. \A b \in Auditor, q \in RunId, g \in MediaFile :
          task'[<<b, q, g>>] \in {task[<<b, q, g>>], "none"}
    BY <2>2 DEF Probing
  <2>6. r \in Intact => /\ run[r].status # "completed"
                       /\ \A b \in Auditor : r \notin sched[b].found
    <3>. SUFFICES ASSUME r \in Intact
                  PROVE  run[r].status # "completed" /\ \A b \in Auditor : r \notin sched[b].found
      OBVIOUS
    <3>1. <<r, f>> \notin freed /\ task[<<a, r, f>>] # "none"
      BY <1>19 DEF Intact, UnitsOf, Finish, Processed
    <3>2. Open(<<r, f>>)
      BY <3>1 DEF ThreadsLive, Open
    <3>3. run[r].status # "completed"
      BY <3>2, Zenon DEF CompletedMeansProbed, UnitsOf
    <3>4. \A b \in Auditor : r \notin sched[b].found
      BY <3>2, Zenon DEF CompletersKnow, Intact
    <3>. QED BY <3>3, <3>4
  <2>7. r \in Intact /\ Recorded(r) => Recorded(r)'
    <3>. SUFFICES ASSUME r \in Intact, Recorded(r), NEW g \in MediaFile,
                         unit'[<<r, g>>].status = "done", library[g] = "good"
                  PROVE  <<r, g>> \in ids
      BY <2>1 DEF Recorded
    <3>1. CASE g = f
      <4>1. task[<<a, r, f>>] \in {"clean", "fixed"}
        BY <1>19 DEF Finish, Processed
      <4>2. task[<<a, r, f>>] = "clean"
        BY <3>1, <4>1 DEF StagesTell
      <4>. QED BY <3>1, <4>2 DEF IdsKept
    <3>2. CASE g # f
      <4>1. unit'[<<r, g>>] = unit[<<r, g>>]
        BY <2>2, <3>2 DEF Unit
      <4>. QED BY <4>1 DEF Recorded
    <3>. QED BY <3>1, <3>2
  <2>8. \A q \in RunId \ {r} : TwinsFound(q) => TwinsFound(q)'
    BY <2>1, <2>4 DEF TwinsFound
  <2>11. \A q \in RunId \ {r} : Recorded(q) => Recorded(q)'
    BY <2>1, <2>4 DEF Recorded
  <2>9. IdsKept'
    <3>. SUFFICES ASSUME NEW q \in Intact'
                  PROVE  /\ run'[q].status \in {"enumerating", "probing"} => Recorded(q)'
                         /\ \A b \in Auditor, g \in MediaFile :
                              task'[<<b, q, g>>] = "clean" => <<q, g>> \in ids'
                         /\ \A b \in Auditor : q \in sched'[b].found =>
                              /\ Recorded(q)'
                              /\ sched'[b].pc = "purging" /\ q = First(sched'[b].found) =>
                                   TwinsFound(q)'
      BY DEF IdsKept
    <3>1. q \in Intact /\ q \in RunId
      BY <2>3 DEF Intact
    <3>2. \A b \in Auditor, g \in MediaFile : task'[<<b, q, g>>] = "clean" => <<q, g>> \in ids'
      BY <2>1, <2>5, <3>1 DEF IdsKept
    <3>3. run'[q].status = run[q].status
      BY <2>2, <3>1
    <3>6. Recorded(q) => Recorded(q)'
      BY <2>7, <2>11, <3>1
    <3>4. run'[q].status \in {"enumerating", "probing"} => Recorded(q)'
      BY <3>1, <3>3, <3>6 DEF IdsKept
    <3>5. ASSUME NEW b \in Auditor, q \in sched'[b].found
          PROVE  /\ Recorded(q)'
                 /\ sched'[b].pc = "purging" /\ q = First(sched'[b].found) => TwinsFound(q)'
      <4>1. q \in sched[b].found /\ sched' = sched
        BY <2>1, <3>5
      <4>2. q # r
        BY <2>6, <3>1, <4>1
      <4>3. /\ Recorded(q)
            /\ sched[b].pc = "purging" /\ q = First(sched[b].found) => TwinsFound(q)
        BY <3>1, <4>1 DEF IdsKept
      <4>4. TwinsFound(q) => TwinsFound(q)'
        BY <2>8, <3>1, <4>2
      <4>. QED BY <3>6, <4>1, <4>3, <4>4
    <3>. QED BY <3>2, <3>4, <3>5
  <2>10. DuplicatesReported'
    <3>. SUFFICES ASSUME NEW q \in RunId, RolledUp(q)', q \notin torn, UnitsOf(q) \cap freed = {}
                  PROVE  TwinsFound(q)'
      BY <2>1 DEF DuplicatesReported, UnitsOf
    <3>1. RolledUp(q)
      BY <2>1, <2>2 DEF RolledUp
    <3>2. q \in Intact /\ run[q].status = "completed"
      BY <3>1 DEF RolledUp, Intact
    <3>3. q # r
      BY <2>6, <3>2
    <3>4. TwinsFound(q)
      BY <3>1 DEF DuplicatesReported
    <3>. QED BY <2>8, <3>3, <3>4
  <2>. QED BY <2>9, <2>10
<1>20. ASSUME NEW a \in Auditor, NEW r \in RunId, NEW f \in MediaFile,
              ProbeError(a, r, f)
       PROVE  (IdsKept /\ DuplicatesReported)'
  <2>1. MarkDone(a, <<r, f>>, "error")
    BY <1>20 DEF ProbeError
  <2>2. /\ unit'[<<r, f>>].status = "error"
        /\ \A u \in Unit \ {<<r, f>>} : unit'[u] = unit[u]
        /\ run'[r].status = run[r].status /\ \A q \in RunId \ {r} : run'[q] = run[q]
        /\ task'[<<a, r, f>>] = "none"
        /\ \A p \in Probing \ {<<a, r, f>>} : task'[p] = task[p]
    BY <2>1, MarkDoneTyped
  <2>3. \A q \in RunId, g \in MediaFile :
          unit'[<<q, g>>].status = "done" => unit[<<q, g>>].status = "done"
    BY <2>2 DEF Unit
  <2>4. \A b \in Auditor, q \in RunId, g \in MediaFile : task'[<<b, q, g>>] \in {task[<<b, q, g>>], "none"}
    BY <2>2 DEF Probing
  <2>5. \A q \in RunId : run'[q].status = run[q].status
    BY <2>2
  <2>6. NothingLearnt
    BY <1>20, <2>3, <2>4, <2>5 DEF ProbeError, NothingLearnt, RollUpsStay
  <2>. QED BY <2>6, NothingLearntKeeps
<1>21. ASSUME NEW a \in Auditor, NEW r \in RunId, NEW f \in MediaFile,
              LoseUnit(a, r, f)
       PROVE  (IdsKept /\ DuplicatesReported)'
  <2>1. \A b \in Auditor, q \in RunId, g \in MediaFile : task'[<<b, q, g>>] \in {task[<<b, q, g>>], "none"}
    BY <1>21 DEF LoseUnit, ThreadsTyped, Probing
  <2>2. NothingLearnt
    BY <1>21, <2>1 DEF LoseUnit, tables, NothingLearnt, RollUpsStay
  <2>. QED BY <2>2, NothingLearntKeeps
<1>22. ASSUME NEW u \in Unit, Age(u) PROVE (IdsKept /\ DuplicatesReported)'
  <2>1. unit' = [unit EXCEPT ![u] = [unit[u] EXCEPT !.old = TRUE]] /\ unit[u] \in UnitRow
    BY <1>22 DEF Age, TablesTyped
  <2>2. [unit[u] EXCEPT !.old = TRUE].status = unit[u].status
    BY <2>1 DEF UnitRow
  <2>3. \A r \in RunId, f \in MediaFile : unit'[<<r, f>>].status = unit[<<r, f>>].status
    BY <1>22, <2>1, <2>2 DEF TablesTyped, Unit
  <2>4. NothingLearnt
    BY <1>22, <2>3 DEF Age, NothingLearnt, RollUpsStay
  <2>. QED BY <2>4, NothingLearntKeeps
<1>23. ASSUME NEW k \in Found \X MediaFile, NEW s \in {"acked", "dismissed", "resolved"},
              SetFindingStatus(k, s)
       PROVE  (IdsKept /\ DuplicatesReported)'
  <2>1. NothingLearnt
    BY <1>23 DEF SetFindingStatus, NothingLearnt, RollUpsStay, TablesTyped
  <2>. QED BY <2>1, NothingLearntKeeps
<1>24. CASE UNCHANGED auditVars
  <2>1. NothingLearnt
    BY <1>24 DEF auditVars, tables, NothingLearnt, RollUpsStay
  <2>. QED BY <2>1, NothingLearntKeeps
<1>. QED
  BY <1>1, <1>2, <1>3, <1>4, <1>5, <1>6, <1>7, <1>8, <1>9, <1>10, <1>11, <1>12, <1>13,
     <1>14, <1>15, <1>16, <1>17, <1>18, <1>19, <1>20, <1>21, <1>22, <1>23, <1>24
     DEF AuditNext, Cycle, Enumerate, Work, Claiming, Disturbed

-----------------------------------------------------------------------------
(* The invariant.                                                          *)

LEMMA AuditInitially == AuditInit => AuditInv
<1>. SUFFICES ASSUME AuditInit PROVE AuditInv
  OBVIOUS
<1>1. TablesTyped
  <2>1. run \in [RunId -> RunRow] /\ unit \in [Unit -> UnitRow]
    BY RunRows, UnitRows DEF AuditInit
  <2>2. NoUnit.status = "absent"
    BY DEF NoUnit
  <2>. QED BY <2>1, <2>2 DEF AuditInit, TablesTyped, FindingStatus
<1>2. ThreadsTyped
  <2>1. walk \in [RunId -> WalkRow]
    BY WalkRows DEF AuditInit
  <2>2. [pc |-> "rest", found |-> {}] \in Plan
    BY Plans DEF AuditPc
  <2>. QED BY <2>1, <2>2 DEF AuditInit, ThreadsTyped, Stage
<1>3. WorldTyped
  BY AuditAssumption DEF AuditInit, WorldTyped
<1>4. /\ \A r \in RunId, f \in MediaFile : unit[<<r, f>>].status = "absent"
      /\ \A r \in RunId : run[r].status = "none" /\ run[r].done = 0 /\ walk[r].by = NoAuditor
      /\ \A a \in Auditor : sched[a].pc = "rest" /\ sched[a].found = {}
      /\ \A a \in Auditor, r \in RunId, f \in MediaFile : task[<<a, r, f>>] = "none"
  BY DEF AuditInit, Unit, NoUnit, NoWalk, Probing
<1>5. ClaimsInv
  BY <1>1, <1>2, <1>3, <1>4, TypesSplit DEF ClaimsInv, ThreadsLive, WalksAdd
<1>6. CompletedMeansProbed
  BY <1>4 DEF CompletedMeansProbed
<1>7. CountsInv
  <2>1. \A r \in RunId : Ended(r) = {}
    BY <1>4 DEF Ended, UnitsOf
  <2>. QED BY <1>4, <2>1, FS_EmptySet DEF CountsInv
<1>8. DamageInv
  <2>1. gone = {}
    BY DEF AuditInit
  <2>. QED BY <1>4, <2>1 DEF DamageInv, StagesTell, DamageReported
<1>9. DuplicatesInv
  <2>1. SchedulesFit /\ CompletersKnow
    BY <1>4 DEF SchedulesFit, CompletersKnow
  <2>2. IdsKept
    BY <1>4 DEF IdsKept, Intact
  <2>3. DuplicatesReported
    BY <1>4 DEF DuplicatesReported, RolledUp
  <2>. QED BY <2>1, <2>2, <2>3 DEF DuplicatesInv
<1>. QED BY <1>5, <1>6, <1>7, <1>8, <1>9 DEF AuditInv

LEMMA AuditStep == AuditInv /\ [AuditNext]_auditVars => AuditInv'
<1>. SUFFICES ASSUME AuditInv, [AuditNext]_auditVars PROVE AuditInv'
  OBVIOUS
<1>1. TablesTyped /\ ThreadsTyped /\ WorldTyped /\ ThreadsLive /\ WalksAdd
  BY TypesSplit DEF AuditInv, ClaimsInv
<1>2. /\ CompletedMeansProbed /\ CountsInv /\ DamageInv /\ StagesTell
      /\ SchedulesFit /\ CompletersKnow /\ IdsKept /\ DuplicatesReported
  BY DEF AuditInv, DamageInv, DuplicatesInv
<1>3. (TablesTyped /\ ThreadsTyped /\ WorldTyped)'
  BY <1>1, TablesKept, ThreadsKept, WorldKept
<1>4. AuditTypeOK'
  BY <1>3, TypesSplit, PTL
<1>5. ThreadsLive' /\ WalksAdd'
  BY <1>1, ThreadsLiveKept, WalksAddKept
<1>6. CompletedMeansProbed'
  BY <1>1, <1>2, CompletedKept
<1>7. CountsInv'
  BY <1>1, <1>2, CountsKept
<1>8. DamageInv'
  BY <1>1, <1>2, DamageKept
<1>9. SchedulesFit'
  BY <1>1, <1>2, SchedulesKept
<1>10. CompletersKnow'
  BY <1>1, <1>2, CompletersKept
<1>11. (IdsKept /\ DuplicatesReported)'
  BY <1>1, <1>2, DuplicatesKept
<1>. QED
  BY <1>4, <1>5, <1>6, <1>7, <1>8, <1>9, <1>10, <1>11
  DEF AuditInv, ClaimsInv, DuplicatesInv

\* What every reachable state of an audit satisfies, for any nodes, runs and library.
THEOREM AuditInvariance == AuditSpec => []AuditInv
<1>. QED BY AuditInitially, AuditStep, PTL DEF AuditSpec

\* A run that reads completed has no unit left to probe, with every node completing
\* runs without the lock (complete_finished_audit_runs).
THEOREM CompletedRunsAreProbed == AuditSpec => []CompletedMeansProbed
<1>1. AuditInv => CompletedMeansProbed
  BY DEF AuditInv
<1>. QED BY AuditInvariance, <1>1, PTL

\* One thread probes a unit whose claim was not taken from it, and done_units counts
\* the units that ended (claim_audit_units, mark_audit_unit_done).
THEOREM UnitsCountOnce == AuditSpec => []CountedOnce
<1>1. AuditInv => CountedOnce
  <2>. SUFFICES ASSUME AuditInv PROVE CountedOnce
    OBVIOUS
  <2>1. ASSUME NEW u \in Unit, u \notin freed
        PROVE  Cardinality({a \in Auditor : u \in Held(a)}) <= 1
    <3>. DEFINE holders == {a \in Auditor : u \in Held(a)}
    <3>1. PICK r \in RunId, f \in MediaFile : u = <<r, f>>
      BY DEF Unit
    <3>2. \A a \in holders : unit[u].by = a
      BY <2>1, <3>1 DEF AuditInv, ClaimsInv, ThreadsLive, Held
    <3>3. holders = {} \/ holders = {unit[u].by}
      BY <3>2
    <3>4. Cardinality({}) = 0 /\ Cardinality({unit[u].by}) = 1
      BY FS_EmptySet, FS_Singleton
    <3>. QED BY <3>3, <3>4
  <2>2. ASSUME NEW r \in RunId, UnitsOf(r) \cap freed = {}
        PROVE  run[r].done = Cardinality({u \in UnitsOf(r) : unit[u].status \in {"done", "error"}})
    BY <2>2 DEF AuditInv, CountsInv, Ended
  <2>. QED BY <2>1, <2>2 DEF CountedOnce
<1>. QED BY AuditInvariance, <1>1, PTL

\* The damage a finished unit saw is reported, and the duplicates a rolled-up run can
\* know of are (record_audit_finding, rollup_duplicate_ids).
THEOREM DefectsAreReported == AuditSpec => []DefectsReported
<1>1. AuditInv => DefectsReported
  BY DEF AuditInv, DamageInv, DuplicatesInv, DefectsReported
<1>. QED BY AuditInvariance, <1>1, PTL

=============================================================================
