--------------------------- MODULE DetailsProofs ----------------------------
(***************************************************************************)
(* What the parts of MCDetails promise for every size of them.             *)
(*                                                                         *)
(* ClaimsAsOneStep, for any claimers and rows and any cap: a transaction   *)
(* that selected a row holds its lock until the commit, so nobody changes  *)
(* the row; and with some cap configured it holds the advisory lock since  *)
(* before it counted, so no other claim has added a running row of the     *)
(* capped profile since.                                                   *)
(*                                                                         *)
(* MovedWereWritten, for any archivers, days and instants of failure: what *)
(* a maintenance run deletes it has fetched, and written, unless the row   *)
(* came of age behind its back.                                            *)
(*                                                                         *)
(* LadderKeepsPolicy, for any choice of the policies: each attempt of the  *)
(* ladder was earned by the policy and the first command, they come in the *)
(* order of the tiers, and two tiers that were earned run different        *)
(* commands.                                                               *)
(*                                                                         *)
(* HandedOver, for any settings and managers, and however late the manager *)
(* works through its commands: those that are not a rescan were sent for   *)
(* the output under its name of then, and one is awaited before the next.  *)
(*                                                                         *)
(* NothingLost, for any settings, conversions and directories: at every    *)
(* position of a conversion the invariant names the file that holds all of *)
(* its media, and a step of another one touches only names that are its    *)
(* own or free.                                                            *)
(***************************************************************************)
EXTENDS ClaimRace, FallbackLadder, LogArchive, Handover, Conversion, NumberFacts

-----------------------------------------------------------------------------
(* The claim transactions.                                                 *)

\* A selected row is pending and locked by the transaction that selected it.
RowHeld ==
  \A c \in Claimer : ClaimAt(c, "commit") =>
    /\ claim[c].row \in CRow
    /\ lockedBy[claim[c].row] = c
    /\ committed[claim[c].row] = "pending"

\* With a cap configured, whoever has counted holds the advisory lock.
AdvisoryHeld ==
  locking => \A c \in Claimer :
    claim[c].pc \in {"count", "select", "commit"} => advisory = c

\* What was counted still holds.
CountStands ==
  locking => \A c \in Claimer :
    /\ ClaimAt(c, "select") /\ Capped \notin claim[c].skip =>
         Cardinality(RunningRows(Capped)) < CapOf
    /\ ClaimAt(c, "commit") /\ ProfileOf[claim[c].row] = Capped =>
         Cardinality(RunningRows(Capped)) < CapOf

ClaimInv == ClaimTypeOK /\ RowHeld /\ AdvisoryHeld /\ CountStands

-----------------------------------------------------------------------------
\* The number of running rows of a profile is a number, and never grows when no row
\* of the table starts to run.
LEMMA RunningCount ==
  ASSUME NEW p
  PROVE  IsFiniteSet(RunningRows(p)) /\ Cardinality(RunningRows(p)) \in Nat
<1>1. RunningRows(p) \subseteq CRow
  BY DEF RunningRows
<1>. QED BY <1>1, ClaimAssumption, FS_Subset, FS_CardinalityType

LEMMA RunningShrinks ==
  ASSUME NEW p,
         \A r \in CRow : committed'[r] = "running" => committed[r] = "running"
  PROVE  /\ Cardinality(RunningRows(p)') <= Cardinality(RunningRows(p))
         /\ Cardinality(RunningRows(p)') \in Nat
<1>1. RunningRows(p)' \subseteq RunningRows(p)
  BY DEF RunningRows
<1>. QED BY <1>1, RunningCount, FS_Subset, FS_CardinalityType

\* A step that leaves the transactions and their locks alone, starts no row and
\* touches no locked row keeps the invariant.
LEMMA OthersKeep ==
  ASSUME ClaimInv, NEW r \in CRow, OtherTransaction(r)
  PROVE  ClaimInv'
<1>1. PICK from \in {"running", "pending", "settled"},
           to \in {"settled", "pending"} : OtherChange(r, from, to)
  BY DEF OtherTransaction
<1>2. /\ lockedBy[r] = NoClaimer
      /\ committed' = [committed EXCEPT ![r] = to]
      /\ UNCHANGED <<locking, lockedBy, advisory, claim>>
  BY <1>1 DEF OtherChange
<1>3. ClaimTypeOK'
  BY <1>2 DEF ClaimInv, ClaimTypeOK
<1>4. RowHeld'
  BY <1>2, ClaimAssumption DEF ClaimInv, ClaimTypeOK, RowHeld, ClaimAt
<1>5. AdvisoryHeld'
  BY <1>2 DEF ClaimInv, AdvisoryHeld
<1>6. \A s \in CRow : committed'[s] = "running" => committed[s] = "running"
  BY <1>2 DEF ClaimInv, ClaimTypeOK
<1>7. Cardinality(RunningRows(Capped)') <= Cardinality(RunningRows(Capped))
      /\ Cardinality(RunningRows(Capped)') \in Nat /\ Cardinality(RunningRows(Capped)) \in Nat
  BY <1>6, RunningShrinks, RunningCount
<1>8. CountStands'
  BY <1>2, <1>7, ClaimAssumption DEF ClaimInv, CountStands, ClaimAt
<1>. QED BY <1>3, <1>4, <1>5, <1>8 DEF ClaimInv

\* The steps of a claim that change no row.
LEMMA QuietKeep ==
  ASSUME ClaimInv, NEW c \in Claimer,
         BeginClaim(c) \/ LockCaps(c) \/ CountRunning(c)
  PROVE  ClaimInv'
<1>1. UNCHANGED <<locking, committed, lockedBy>>
  BY DEF BeginClaim, LockCaps, CountRunning
<1>2. RunningRows(Capped)' = RunningRows(Capped)
  BY <1>1 DEF RunningRows
<1>3. CASE BeginClaim(c)
  <2>1. claim' = [claim EXCEPT ![c].pc = IF locking THEN "lock" ELSE "count"]
        /\ UNCHANGED advisory
    BY <1>3 DEF BeginClaim
  <2>2. ClaimTypeOK'
    BY <1>1, <2>1 DEF ClaimInv, ClaimTypeOK
  <2>3. RowHeld' /\ AdvisoryHeld'
    BY <1>1, <2>1 DEF ClaimInv, ClaimTypeOK, RowHeld, AdvisoryHeld, ClaimAt
  <2>4. CountStands'
    BY <1>1, <1>2, <2>1 DEF ClaimInv, ClaimTypeOK, CountStands, ClaimAt
  <2>. QED BY <2>2, <2>3, <2>4 DEF ClaimInv
<1>4. CASE LockCaps(c)
  <2>1. /\ claim' = [claim EXCEPT ![c].pc = "count"]
        /\ advisory = NoClaimer /\ advisory' = c
    BY <1>4 DEF LockCaps, TakeAdvisory
  <2>2. ClaimTypeOK'
    BY <1>1, <2>1 DEF ClaimInv, ClaimTypeOK
  <2>3. RowHeld'
    BY <1>1, <2>1 DEF ClaimInv, ClaimTypeOK, RowHeld, ClaimAt
  <2>4. AdvisoryHeld'
    BY <1>1, <2>1, ClaimAssumption DEF ClaimInv, ClaimTypeOK, AdvisoryHeld
  <2>5. CountStands'
    BY <1>1, <1>2, <2>1 DEF ClaimInv, ClaimTypeOK, CountStands, ClaimAt
  <2>. QED BY <2>2, <2>3, <2>4, <2>5 DEF ClaimInv
<1>5. CASE CountRunning(c)
  <2>. DEFINE full == IF locking /\ Cardinality(RunningRows(Capped)) >= CapOf
                      THEN {Capped} ELSE {}
  <2>1. /\ ClaimAt(c, "count") /\ UNCHANGED advisory
        /\ claim' = [claim EXCEPT ![c].pc = "select", ![c].skip = full]
    BY <1>5 DEF CountRunning
  <2>2. full \in SUBSET {Capped}
    OBVIOUS
  <2>3. locking /\ Capped \notin full => Cardinality(RunningRows(Capped)) < CapOf
    BY RunningCount, ClaimAssumption
  <2>. HIDE DEF full
  <2>4. claim'[c].skip = full /\ claim'[c].pc = "select"
    BY <2>1 DEF ClaimInv, ClaimTypeOK
  <2>5. \A d \in Claimer \ {c} : claim'[d] = claim[d]
    BY <2>1 DEF ClaimInv, ClaimTypeOK
  <2>6. ClaimTypeOK' /\ RowHeld' /\ AdvisoryHeld'
    <3>1. claim'[c] = [pc |-> "select", skip |-> full, row |-> claim[c].row]
      BY <2>1 DEF ClaimInv, ClaimTypeOK
    <3>2. ClaimTypeOK'
      BY <1>1, <2>1, <2>2, <2>5, <3>1 DEF ClaimInv, ClaimTypeOK
    <3>3. RowHeld' /\ AdvisoryHeld'
      BY <1>1, <2>1 DEF ClaimInv, ClaimTypeOK, RowHeld, AdvisoryHeld, ClaimAt
    <3>. QED BY <3>2, <3>3
  <2>7. CountStands'
    BY <1>1, <1>2, <2>3, <2>4, <2>5 DEF ClaimInv, CountStands, ClaimAt
  <2>. QED BY <2>6, <2>7 DEF ClaimInv
<1>. QED BY <1>3, <1>4, <1>5

\* The row selected is pending and free, and its profile was counted below its cap.
LEMMA SelectKeeps ==
  ASSUME ClaimInv, NEW c \in Claimer, SelectRow(c)
  PROVE  ClaimInv'
<1>1. ClaimAt(c, "select") /\ UNCHANGED <<locking, committed>>
  BY DEF SelectRow
<1>2. RunningRows(Capped)' = RunningRows(Capped)
  BY <1>1 DEF RunningRows
<1>3. ASSUME NEW r \in Selectable(c),
             claim' = [claim EXCEPT ![c].pc = "commit", ![c].row = r],
             lockedBy' = [lockedBy EXCEPT ![r] = c], UNCHANGED advisory
      PROVE  ClaimInv'
  <2>1. r \in CRow /\ committed[r] = "pending" /\ lockedBy[r] = NoClaimer
        /\ ProfileOf[r] \notin claim[c].skip
    BY <1>3 DEF Selectable
  <2>2. ClaimTypeOK'
    <3>1. claim'[c] = [pc |-> "commit", skip |-> claim[c].skip, row |-> r]
      BY <1>3 DEF ClaimInv, ClaimTypeOK
    <3>2. \A d \in Claimer \ {c} : claim'[d] = claim[d]
      BY <1>3 DEF ClaimInv, ClaimTypeOK
    <3>. QED BY <1>1, <1>3, <2>1, <3>1, <3>2 DEF ClaimInv, ClaimTypeOK
  <2>3. claim'[c].pc = "commit" /\ claim'[c].row = r
        /\ \A d \in Claimer \ {c} : claim'[d] = claim[d]
    BY <1>3 DEF ClaimInv, ClaimTypeOK
  <2>4. \A d \in Claimer \ {c} : ClaimAt(d, "commit") => claim[d].row # r
    BY <2>1, ClaimAssumption DEF ClaimInv, RowHeld
  <2>5. RowHeld'
    BY <1>1, <1>3, <2>1, <2>3, <2>4 DEF ClaimInv, ClaimTypeOK, RowHeld, ClaimAt
  <2>6. AdvisoryHeld'
    BY <1>1, <1>3, <2>3 DEF ClaimInv, AdvisoryHeld, ClaimAt
  <2>7. locking /\ ProfileOf[r] = Capped => Cardinality(RunningRows(Capped)) < CapOf
    BY <1>1, <2>1 DEF ClaimInv, CountStands
  <2>8. CountStands'
    BY <1>1, <1>2, <2>3, <2>7 DEF ClaimInv, CountStands, ClaimAt
  <2>. QED BY <2>2, <2>5, <2>6, <2>8 DEF ClaimInv
<1>4. ASSUME claim' = [claim EXCEPT ![c] = NoClaim], UNCHANGED lockedBy,
             advisory' = IF advisory = c THEN NoClaimer ELSE advisory
      PROVE  ClaimInv'
  <2>1. claim'[c].pc = "none" /\ \A d \in Claimer \ {c} : claim'[d] = claim[d]
    BY <1>4 DEF ClaimInv, ClaimTypeOK, NoClaim
  <2>2. ClaimTypeOK'
    BY <1>1, <1>4 DEF ClaimInv, ClaimTypeOK, NoClaim
  <2>3. RowHeld'
    BY <1>1, <1>4, <2>1 DEF ClaimInv, RowHeld, ClaimAt
  <2>4. AdvisoryHeld'
    BY <1>1, <1>4, <2>1 DEF ClaimInv, AdvisoryHeld
  <2>5. CountStands'
    BY <1>1, <1>2, <2>1 DEF ClaimInv, CountStands, ClaimAt
  <2>. QED BY <2>2, <2>3, <2>4, <2>5 DEF ClaimInv
<1>. QED BY <1>3, <1>4 DEF SelectRow

\* A commit adds a running row; nobody else has counted, or there is no cap.
LEMMA EndKeeps ==
  ASSUME ClaimInv, NEW c \in Claimer, CommitClaim(c) \/ RollBack(c)
  PROVE  ClaimInv'
<1>. DEFINE r == claim[c].row
<1>1. /\ ClaimAt(c, "commit") /\ UNCHANGED locking
      /\ claim' = [claim EXCEPT ![c] = NoClaim]
      /\ lockedBy' = [lockedBy EXCEPT ![r] = NoClaimer]
      /\ advisory' = IF advisory = c THEN NoClaimer ELSE advisory
      /\ \/ committed' = [committed EXCEPT ![r] = "running"]
         \/ UNCHANGED committed
  BY DEF CommitClaim, RollBack, EndOfTransaction
<1>2. r \in CRow /\ lockedBy[r] = c
  BY <1>1 DEF ClaimInv, RowHeld
<1>3. claim'[c].pc = "none" /\ \A d \in Claimer \ {c} : claim'[d] = claim[d]
  BY <1>1 DEF ClaimInv, ClaimTypeOK, NoClaim
<1>4. ClaimTypeOK'
  BY <1>1, <1>2 DEF ClaimInv, ClaimTypeOK, NoClaim
<1>5. \A d \in Claimer \ {c} : ClaimAt(d, "commit") => claim[d].row # r
  BY <1>2 DEF ClaimInv, RowHeld
<1>6. RowHeld'
  BY <1>1, <1>2, <1>3, <1>5 DEF ClaimInv, ClaimTypeOK, RowHeld, ClaimAt
<1>7. AdvisoryHeld'
  BY <1>1, <1>3 DEF ClaimInv, AdvisoryHeld
<1>8. locking => \A d \in Claimer \ {c} : claim[d].pc \notin {"select", "commit"}
  BY <1>1 DEF ClaimInv, AdvisoryHeld, ClaimAt
<1>9. CountStands'
  BY <1>1, <1>3, <1>8 DEF CountStands, ClaimAt
<1>. QED BY <1>4, <1>6, <1>7, <1>9 DEF ClaimInv

-----------------------------------------------------------------------------
\* The invariant, for any number of claimers and rows and any cap.
THEOREM ClaimInvariance == ClaimSpec => []ClaimInv
<1>1. ClaimInit => ClaimInv
  BY DEF ClaimInit, ClaimInv, ClaimTypeOK, RowHeld, AdvisoryHeld, CountStands,
         ClaimAt, NoClaim
<1>2. ClaimInv /\ [ClaimNext]_claimVars => ClaimInv'
  <2>. SUFFICES ASSUME ClaimInv, [ClaimNext]_claimVars PROVE ClaimInv'
    OBVIOUS
  <2>1. CASE UNCHANGED claimVars
    <3>1. RunningRows(Capped)' = RunningRows(Capped)
      BY <2>1 DEF claimVars, RunningRows
    <3>. QED BY <2>1, <3>1 DEF claimVars, ClaimInv, ClaimTypeOK, RowHeld,
                AdvisoryHeld, CountStands, ClaimAt
  <2>2. ASSUME NEW c \in Claimer,
               \/ BeginClaim(c) \/ LockCaps(c) \/ CountRunning(c)
               \/ SelectRow(c) \/ CommitClaim(c) \/ RollBack(c)
        PROVE  ClaimInv'
    BY <2>2, QuietKeep, SelectKeeps, EndKeeps
  <2>3. ASSUME NEW r \in CRow, OtherTransaction(r)
        PROVE  ClaimInv'
    BY <2>3, OthersKeep
  <2>. QED BY <2>1, <2>2, <2>3 DEF ClaimNext
<1>. QED BY <1>1, <1>2, PTL DEF ClaimSpec

\* claim_next_job, although it counts, selects and commits in statements of their own
\* between other transactions, commits only what one step could have taken.
THEOREM ClaimsAreAtomic == ClaimSpec => []ClaimsAsOneStep
<1>1. ClaimInv => ClaimsAsOneStep
  <2>. SUFFICES ASSUME ClaimInv, NEW c \in Claimer, ClaimAt(c, "commit")
                PROVE  LET r == claim[c].row IN
                       /\ committed[r] = "pending"
                       /\ \A d \in Claimer \ {c} :
                            ClaimAt(d, "commit") => claim[d].row # r
                       /\ locking /\ ProfileOf[r] = Capped =>
                            Cardinality(RunningRows(Capped)) < CapOf
    BY DEF ClaimsAsOneStep
  <2>1. committed[claim[c].row] = "pending" /\ lockedBy[claim[c].row] = c
    BY DEF ClaimInv, RowHeld
  <2>2. \A d \in Claimer \ {c} : ClaimAt(d, "commit") => lockedBy[claim[d].row] = d
    BY DEF ClaimInv, RowHeld
  <2>3. locking /\ ProfileOf[claim[c].row] = Capped =>
          Cardinality(RunningRows(Capped)) < CapOf
    BY DEF ClaimInv, CountStands
  <2>. QED BY <2>1, <2>2, <2>3
<1>. QED BY <1>1, ClaimInvariance, PTL

-----------------------------------------------------------------------------
(* The log archive.                                                       *)

Maintenance ==
  [pc : {"idle", "select", "write", "prune"}, got : UNION {[R -> Int] : R \in SUBSET Nat},
   days : SUBSET Int, ok : BOOLEAN]

LogTyped ==
  /\ hour \in Nat /\ emitted \in Nat /\ buffer \subseteq Nat /\ DOMAIN stamp \subseteq Nat
  /\ stamp \in [DOMAIN stamp -> Nat] /\ \A r \in DOMAIN stamp : stamp[r] <= hour
  /\ moving \in [Archiver -> Maintenance]

\* What is old enough to go by now was fetched, or came of age since.
FetchedOrCrossed ==
  \A a \in Archiver : moving[a].pc = "write" =>
    \A r \in OlderThan(KeepDays) : r \in crossed \/ r \in DOMAIN moving[a].got

\* What was fetched is in a file, unless its day is still to be written, or failed.
FetchedIsWritten ==
  \A a \in Archiver : moving[a].pc = "write" =>
    \A r \in DOMAIN moving[a].got :
      r \in everWritten \/ moving[a].got[r] \in moving[a].days \/ ~moving[a].ok

Somewhere(r) == r \in buffer \cup unsaved \cup DOMAIN stamp \cup expired \cup everWritten \cup crossed

Accounted == \A r \in 1 .. emitted : Somewhere(r)

LogIInv == LogTyped /\ FetchedOrCrossed /\ FetchedIsWritten /\ Accounted

\* The age at which rows are moved is a number of hours.
LEMMA Age == KeepDays * HoursPerDay \in Nat
BY LogAssumption DEF LogAssumption

\* A row that has just been inserted is not old.
LEMMA NewIsNotOld ==
  ASSUME LogIInv, NEW batch \in SUBSET Nat,
         stamp' = [r \in DOMAIN stamp \cup batch |-> IF r \in batch THEN hour ELSE stamp[r]],
         hour' = hour
  PROVE  /\ OlderThan(KeepDays)' \subseteq OlderThan(KeepDays)
         /\ stamp' \in [DOMAIN stamp' -> Nat] /\ \A r \in DOMAIN stamp' : stamp'[r] <= hour'
<1>. DEFINE k == KeepDays * HoursPerDay
<1>1. k \in Nat
  BY Age
<1>2. \A r \in DOMAIN stamp : stamp[r] \in Nat /\ stamp[r] <= hour
  BY DEF LogIInv, LogTyped
<1>3. hour \in Nat
  BY DEF LogIInv, LogTyped
<1>. HIDE DEF k
<1>4. ~(hour < hour - k)
  BY <1>1, <1>3
<1>5. OlderThan(KeepDays)' = {r \in DOMAIN stamp' : stamp'[r] < hour' - k}
      /\ OlderThan(KeepDays) = {r \in DOMAIN stamp : stamp[r] < hour - k}
  BY DEF OlderThan, OlderAt, k
<1>6. OlderThan(KeepDays)' \subseteq OlderThan(KeepDays)
  BY <1>4, <1>5
<1>. QED BY <1>2, <1>3, <1>6

\* Entries reach the table, or are reported as unsaved.
LEMMA FlushKeeps ==
  ASSUME LogIInv, NEW batch \in SUBSET Nat, FlushedTo(batch), buffer \subseteq batch,
         1 .. emitted' \subseteq 1 .. emitted \cup batch, emitted' \in Nat,
         UNCHANGED <<hour, archive, moving, logHistory>>
  PROVE  LogIInv'
<1>0. buffer' = {} /\ DOMAIN stamp \subseteq Nat /\ UNCHANGED <<hour, moving, everWritten, crossed, expired>>
  BY DEF FlushedTo, LogIInv, LogTyped, logHistory
<1>1. CASE stamp' = [r \in DOMAIN stamp \cup batch |-> IF r \in batch THEN hour ELSE stamp[r]]
           /\ UNCHANGED unsaved
  <2>0. DOMAIN stamp' = DOMAIN stamp \cup batch
    BY <1>1
  <2>1. OlderThan(KeepDays)' \subseteq OlderThan(KeepDays) /\ LogTyped'
    BY <1>0, <1>1, <2>0, NewIsNotOld DEF LogIInv, LogTyped
  <2>2. Accounted'
    BY <1>0, <1>1, <2>0 DEF LogIInv, Accounted, Somewhere
  <2>. QED BY <1>0, <2>1, <2>2 DEF LogIInv, FetchedOrCrossed, FetchedIsWritten
<1>2. CASE unsaved' = unsaved \cup batch /\ UNCHANGED stamp
  <2>1. OlderThan(KeepDays)' = OlderThan(KeepDays)
    BY <1>2 DEF OlderThan, OlderAt
  <2>2. Accounted'
    BY <1>0, <1>2 DEF LogIInv, Accounted, Somewhere
  <2>. QED BY <1>0, <1>2, <2>1, <2>2 DEF LogIInv, LogTyped, FetchedOrCrossed, FetchedIsWritten
<1>. QED BY <1>1, <1>2 DEF FlushedTo

\* Rows leave the table, the rest stays as it is.
LEMMA UnloggedKeeps ==
  ASSUME LogIInv, NEW rows, stamp' = Unlogged(rows), hour' = hour
  PROVE  /\ OlderThan(KeepDays)' \subseteq OlderThan(KeepDays)
         /\ stamp' \in [DOMAIN stamp' -> Nat] /\ \A r \in DOMAIN stamp' : stamp'[r] <= hour'
         /\ DOMAIN stamp' = DOMAIN stamp \ rows
<1>1. \A r \in DOMAIN stamp : stamp[r] \in Nat /\ stamp[r] <= hour
  BY DEF LogIInv, LogTyped
<1>. QED BY <1>1 DEF Unlogged, OlderThan, OlderAt


\* A buffered entry is flushed when the batch is full.
LEMMA EmitKeeps == ASSUME LogIInv, Emit PROVE LogIInv'
<1>1. emitted' = emitted + 1 /\ emitted \in Nat /\ emitted' \in Nat /\ buffer \subseteq Nat
  BY DEF Emit, LogIInv, LogTyped
<1>2. (buffer \cup {emitted + 1}) \in SUBSET Nat /\ 1 .. emitted' \subseteq 1 .. emitted \cup (buffer \cup {emitted + 1})
  BY <1>1
<1>3. CASE FlushedTo(buffer \cup {emitted + 1})
  BY <1>1, <1>2, <1>3, FlushKeeps DEF Emit
<1>4. CASE buffer' = buffer \cup {emitted + 1} /\ UNCHANGED <<stamp, lleft, unsaved>>
  <2>1. UNCHANGED <<hour, moving, logHistory>>
    BY DEF Emit
  <2>2. OlderThan(KeepDays)' = OlderThan(KeepDays)
    BY <1>4, <2>1 DEF OlderThan, OlderAt
  <2>3. Accounted'
    BY <1>1, <1>2, <1>4, <2>1 DEF LogIInv, Accounted, Somewhere, logHistory
  <2>. QED BY <1>1, <1>2, <1>4, <2>1, <2>2, <2>3 DEF LogIInv, LogTyped, FetchedOrCrossed, FetchedIsWritten, logHistory
<1>. QED BY <1>3, <1>4 DEF Emit

\* One archiver moves on; what it holds is still what it fetched.
LEMMA ArchiverKeeps ==
  ASSUME LogIInv, NEW a \in Archiver, NEW m \in Maintenance, moving' = [moving EXCEPT ![a] = m],
         UNCHANGED <<hour, buffer, emitted, unsaved, crossed>>,
         everWritten \subseteq everWritten', expired \subseteq expired',
         stamp' \in [DOMAIN stamp' -> Nat], \A r \in DOMAIN stamp' : stamp'[r] <= hour',
         DOMAIN stamp' \subseteq DOMAIN stamp,
         OlderThan(KeepDays)' \subseteq OlderThan(KeepDays),
         \A r \in DOMAIN stamp \ DOMAIN stamp' : r \in expired' \cup everWritten' \cup crossed',
         m.pc = "write" =>
           /\ \A r \in OlderThan(KeepDays)' : r \in crossed' \/ r \in DOMAIN m.got
           /\ \A r \in DOMAIN m.got : r \in everWritten' \/ m.got[r] \in m.days \/ ~m.ok
  PROVE  LogIInv'
<1>1. LogTyped'
  BY DEF LogIInv, LogTyped
<1>2. Accounted'
  BY DEF LogIInv, Accounted, Somewhere
<1>3. ASSUME NEW b \in Archiver, moving'[b].pc = "write"
      PROVE  /\ \A r \in OlderThan(KeepDays)' : r \in crossed' \/ r \in DOMAIN moving'[b].got
             /\ \A r \in DOMAIN moving'[b].got :
                  r \in everWritten' \/ moving'[b].got[r] \in moving'[b].days \/ ~moving'[b].ok
  <2>1. moving \in [Archiver -> Maintenance]
    BY DEF LogIInv, LogTyped
  <2>2. CASE b = a
    BY <1>3, <2>1, <2>2
  <2>3. CASE b # a
    <3>1. moving'[b] = moving[b]
      BY <2>1, <2>3
    <3>2. /\ \A r \in OlderThan(KeepDays) : r \in crossed \/ r \in DOMAIN moving[b].got
          /\ \A r \in DOMAIN moving[b].got :
                r \in everWritten \/ moving[b].got[r] \in moving[b].days \/ ~moving[b].ok
      BY <1>3, <3>1 DEF LogIInv, FetchedOrCrossed, FetchedIsWritten
    <3>. QED BY <3>1, <3>2
  <2>. QED BY <2>2, <2>3
<1>. QED BY <1>1, <1>2, <1>3 DEF LogIInv, FetchedOrCrossed, FetchedIsWritten

\* Each step of a maintenance run keeps the account of the rows.
LEMMA MaintenanceKeeps ==
  ASSUME LogIInv, NEW a \in Archiver,
         Expire(a) \/ Fetch(a) \/ WriteDay(a) \/ DeleteMoved(a) \/ PruneFiles(a) \/ ArchiverDies(a)
  PROVE  LogIInv'
<1>0. /\ moving \in [Archiver -> Maintenance] /\ moving[a] \in Maintenance
      /\ stamp \in [DOMAIN stamp -> Nat] /\ DOMAIN stamp \subseteq Nat
      /\ \A r \in DOMAIN stamp : stamp[r] <= hour
  BY DEF LogIInv, LogTyped
<1>1. ASSUME NEW p \in {"idle", "select", "write", "prune"}
      PROVE  [Idle EXCEPT !.pc = p] \in Maintenance /\ [Idle EXCEPT !.pc = p].pc = p
  <2>1. << >> \in UNION {[R -> Int] : R \in SUBSET Nat}
    <3>1. << >> \in [{} -> Int] /\ {} \in SUBSET Nat
      OBVIOUS
    <3>. QED BY <3>1
  <2>. QED BY <2>1 DEF Idle, Maintenance
<1>2. ASSUME UNCHANGED <<hour, stamp>> PROVE OlderThan(KeepDays)' = OlderThan(KeepDays)
  BY <1>2 DEF OlderThan, OlderAt
<1>3. CASE Expire(a)
  <2>. DEFINE old == IF TtlDays > 0 THEN OlderThan(TtlDays) ELSE {}
              m == [Idle EXCEPT !.pc = "select"]
  <2>1. /\ stamp' = Unlogged(old) /\ expired' = expired \cup old /\ moving' = [moving EXCEPT ![a] = m]
        /\ UNCHANGED <<hour, buffer, emitted, unsaved, crossed, everWritten>>
    BY <1>3 DEF Expire
  <2>2. m \in Maintenance /\ m.pc = "select"
    BY <1>1
  <2>. HIDE DEF m, old
  <2>3. /\ OlderThan(KeepDays)' \subseteq OlderThan(KeepDays)
        /\ stamp' \in [DOMAIN stamp' -> Nat] /\ \A r \in DOMAIN stamp' : stamp'[r] <= hour'
        /\ DOMAIN stamp' = DOMAIN stamp \ old
    BY <2>1, UnloggedKeeps
  <2>. QED BY <2>1, <2>2, <2>3, ArchiverKeeps
<1>4. CASE Fetch(a)
  <2>. DEFINE rows == OlderThan(KeepDays)
              got == [r \in rows |-> DayOf(stamp[r])]
              m == IF rows = {} THEN [Idle EXCEPT !.pc = "prune"]
                   ELSE [pc |-> "write", got |-> got, ok |-> TRUE, days |-> {got[r] : r \in rows}]
  <2>1. moving' = [moving EXCEPT ![a] = m] /\ UNCHANGED <<hour, stamp, buffer, emitted, unsaved, logHistory>>
    BY <1>4 DEF Fetch
  <2>2. rows \in SUBSET Nat /\ got \in [rows -> Int] /\ {got[r] : r \in rows} \in SUBSET Int
    BY <1>0, LogAssumption DEF OlderThan, OlderAt, DayOf, LogAssumption
  <2>3. m \in Maintenance
    <3>1. CASE rows = {}
      BY <1>1, <3>1
    <3>2. CASE rows # {}
      BY <2>2, <3>2 DEF Maintenance
    <3>. QED BY <3>1, <3>2
  <2>4. m.pc = "write" => m.got = got /\ m.days = {got[r] : r \in rows} /\ m.ok
    BY <1>1
  <2>5. rows' = rows
    BY <1>2, <2>1
  <2>. HIDE DEF m
  <2>6. m.pc = "write" =>
           /\ \A r \in OlderThan(KeepDays)' : r \in DOMAIN m.got
           /\ \A r \in DOMAIN m.got : m.got[r] \in m.days
    BY <2>4, <2>5
  <2>. QED BY <1>0, <2>1, <2>3, <2>5, <2>6, ArchiverKeeps DEF logHistory
<1>5. CASE WriteDay(a)
  <2>1. PICK d \in moving[a].days :
          /\ moving[a].pc = "write"
          /\ \/ /\ everWritten' = everWritten \cup BatchOf(a, d)
                /\ moving' = [moving EXCEPT ![a].days = @ \ {d}]
             \/ /\ moving' = [moving EXCEPT ![a].days = @ \ {d}, ![a].ok = FALSE]
                /\ UNCHANGED everWritten
          /\ UNCHANGED <<hour, buffer, stamp, emitted, unsaved, crossed, expired>>
    BY <1>5 DEF WriteDay
  <2>2. /\ \A r \in OlderThan(KeepDays) : r \in crossed \/ r \in DOMAIN moving[a].got
        /\ \A r \in DOMAIN moving[a].got :
              r \in everWritten \/ moving[a].got[r] \in moving[a].days \/ ~moving[a].ok
    BY <2>1 DEF LogIInv, FetchedOrCrossed, FetchedIsWritten
  <2>3. OlderThan(KeepDays)' = OlderThan(KeepDays)
    BY <1>2, <2>1
  <2>4. CASE everWritten' = everWritten \cup BatchOf(a, d) /\ moving' = [moving EXCEPT ![a].days = @ \ {d}]
    <3>. DEFINE m == [moving[a] EXCEPT !.days = moving[a].days \ {d}]
    <3>1. m \in Maintenance /\ m.got = moving[a].got /\ m.days = moving[a].days \ {d} /\ m.ok = moving[a].ok
      BY <1>0 DEF Maintenance
    <3>2. moving' = [moving EXCEPT ![a] = m]
      BY <2>4
    <3>. HIDE DEF m
    <3>3. \A r \in DOMAIN m.got : r \in everWritten' \/ m.got[r] \in m.days \/ ~m.ok
      BY <2>2, <2>4, <3>1 DEF BatchOf
    <3>4. /\ \A r \in OlderThan(KeepDays)' : r \in crossed' \/ r \in DOMAIN m.got
          /\ \A r \in DOMAIN m.got : r \in everWritten' \/ m.got[r] \in m.days \/ ~m.ok
      BY <2>1, <2>2, <2>3, <3>1, <3>2, <3>3
    <3>5. everWritten \subseteq everWritten' /\ DOMAIN stamp' = DOMAIN stamp
      BY <2>1, <2>4
    <3>. QED BY <1>0, <2>1, <2>3, <3>1, <3>2, <3>4, <3>5, ArchiverKeeps
  <2>5. CASE moving' = [moving EXCEPT ![a].days = @ \ {d}, ![a].ok = FALSE] /\ UNCHANGED everWritten
    <3>. DEFINE m == [moving[a] EXCEPT !.days = moving[a].days \ {d}, !.ok = FALSE]
    <3>1. m \in Maintenance /\ m.got = moving[a].got /\ m.ok = FALSE
      BY <1>0 DEF Maintenance
    <3>2. moving' = [moving EXCEPT ![a] = m]
      BY <1>0, <2>5 DEF Maintenance
    <3>. HIDE DEF m
    <3>4. /\ \A r \in OlderThan(KeepDays)' : r \in crossed' \/ r \in DOMAIN m.got
          /\ \A r \in DOMAIN m.got : r \in everWritten' \/ m.got[r] \in m.days \/ ~m.ok
      BY <2>1, <2>2, <2>3, <3>1, <3>2
    <3>5. everWritten \subseteq everWritten' /\ DOMAIN stamp' = DOMAIN stamp
      BY <2>1, <2>5
    <3>. QED BY <1>0, <2>1, <2>3, <3>1, <3>2, <3>4, <3>5, ArchiverKeeps
  <2>. QED BY <2>1, <2>4, <2>5
<1>6. CASE DeleteMoved(a)
  <2>. DEFINE m == [Idle EXCEPT !.pc = "prune"]
  <2>1. /\ stamp' = Unlogged(Doomed(a)) /\ moving' = [moving EXCEPT ![a] = m]
        /\ moving[a].pc = "write" /\ moving[a].days = {}
        /\ UNCHANGED <<hour, buffer, emitted, unsaved, logHistory>>
    BY <1>6 DEF DeleteMoved
  <2>2. m \in Maintenance /\ m.pc = "prune"
    BY <1>1
  <2>. HIDE DEF m
  <2>3. /\ OlderThan(KeepDays)' \subseteq OlderThan(KeepDays)
        /\ stamp' \in [DOMAIN stamp' -> Nat] /\ \A r \in DOMAIN stamp' : stamp'[r] <= hour'
        /\ DOMAIN stamp' = DOMAIN stamp \ Doomed(a)
    BY <2>1, UnloggedKeeps
  <2>4. \A r \in Doomed(a) : r \in everWritten \cup crossed
    BY <2>1 DEF Doomed, LogIInv, FetchedOrCrossed, FetchedIsWritten
  <2>. QED BY <2>1, <2>2, <2>3, <2>4, ArchiverKeeps DEF logHistory
<1>7. CASE PruneFiles(a) \/ ArchiverDies(a)
  <2>1. Idle \in Maintenance /\ Idle.pc = "idle"
    BY <1>1 DEF Idle
  <2>2. /\ moving' = [moving EXCEPT ![a] = Idle]
        /\ UNCHANGED <<hour, buffer, stamp, emitted, unsaved, everWritten, crossed, expired>>
    BY <1>7 DEF PruneFiles, ArchiverDies, logHistory
  <2>3. OlderThan(KeepDays)' = OlderThan(KeepDays)
    BY <1>2, <2>2
  <2>. QED BY <1>0, <2>1, <2>2, <2>3, ArchiverKeeps
<1>. QED BY <1>3, <1>4, <1>5, <1>6, <1>7

\* While an archiver writes, what comes of age is marked.
LEMMA HourKeeps == ASSUME LogIInv, PassHour PROVE LogIInv'
<1>1. /\ hour' = hour + 1 /\ UNCHANGED <<buffer, stamp, moving, emitted, unsaved, everWritten, expired>>
      /\ crossed \subseteq crossed'
      /\ (\E a \in Archiver : moving[a].pc = "write") =>
            crossed' = crossed \cup (OlderAt(hour + 1, KeepDays) \ OlderThan(KeepDays))
  BY DEF PassHour
<1>2. OlderThan(KeepDays)' = OlderAt(hour + 1, KeepDays)
  BY <1>1 DEF OlderThan, OlderAt
<1>3. LogTyped' /\ Accounted'
  BY <1>1 DEF LogIInv, LogTyped, Accounted, Somewhere
<1>4. FetchedOrCrossed' /\ FetchedIsWritten'
  BY <1>1, <1>2 DEF LogIInv, FetchedOrCrossed, FetchedIsWritten
<1>. QED BY <1>3, <1>4 DEF LogIInv

\* Every entry that was emitted is somewhere, or is known to have been lost.
THEOREM LogInvariance == LogSpec => []LogIInv
<1>1. LogInit => LogIInv
  <2>1. Idle \in Maintenance /\ Idle.pc = "idle"
    <3>1. << >> \in [{} -> Int] /\ {} \in SUBSET Nat
      OBVIOUS
    <3>2. << >> \in UNION {[R -> Int] : R \in SUBSET Nat}
      BY <3>1
    <3>. QED BY <3>2 DEF Idle, Maintenance
  <2>. QED BY <2>1 DEF LogInit, LogIInv, LogTyped, FetchedOrCrossed, FetchedIsWritten, Accounted
<1>2. LogIInv /\ [LogNext]_logVars => LogIInv'
  <2>. SUFFICES ASSUME LogIInv, [LogNext]_logVars PROVE LogIInv'
    OBVIOUS
  <2>1. CASE Flush
    <3>1. buffer \in SUBSET Nat /\ emitted \in Nat
      BY DEF LogIInv, LogTyped
    <3>. QED BY <2>1, <3>1, FlushKeeps DEF Flush
  <2>2. CASE UNCHANGED logVars
    <3>1. OlderThan(KeepDays)' = OlderThan(KeepDays)
      BY <2>2 DEF logVars, OlderThan, OlderAt
    <3>. QED BY <2>2, <3>1 DEF logVars, logHistory, LogIInv, LogTyped, FetchedOrCrossed, FetchedIsWritten,
                Accounted, Somewhere
  <2>. QED BY <2>1, <2>2, EmitKeeps, HourKeeps, MaintenanceKeeps DEF LogNext
<1>. QED BY <1>1, <1>2, PTL DEF LogSpec

\* A row that left the table without being expired is in a file, or came of age while
\* an archiver was writing: archive_and_delete_old_logs deletes what it wrote.
THEOREM MovedRowsWereWritten == LogSpec => []MovedWereWritten
<1>1. LogIInv => MovedWereWritten
  BY DEF LogIInv, Accounted, Somewhere, MovedWereWritten, LeftTable
<1>. QED BY <1>1, LogInvariance, PTL

-----------------------------------------------------------------------------
(* The fallback ladder.                                                   *)

Tier == {"hw", "hw_alt", "sw_decode", "sw_decode_hw_encode", "full_sw"}

\* The order in which the tiers may run.
Rank(t) == CASE t = "hw" -> 1 [] t = "hw_alt" -> 2 [] t = "sw_decode" -> 3
             [] t = "sw_decode_hw_encode" -> 4 [] t = "full_sw" -> 5 [] OTHER -> 6

\* Which tiers the policy and the first command allow.
Earned(t) ==
  CASE t = "hw_alt"              -> policy # "hw_only" /\ chosen = "qsv"
    [] t = "sw_decode"           -> Descends /\ preopts.decoder
    [] t = "sw_decode_hw_encode" -> ~Descends /\ StripsDecode
    [] t = "full_sw"             -> policy = "aggressive" /\ chosen # "software"
    [] OTHER                     -> TRUE

\* What each tier runs, said of the codec the ladder began with.
CommandFor(t) ==
  CASE t = "hw"                  -> Command(preopts, chosen)
    [] t = "hw_alt"              -> Command(preopts, "vaapi")
    [] t = "sw_decode"           -> Command([preopts EXCEPT !.decoder = FALSE], chosen)
    [] t = "sw_decode_hw_encode" -> Command([decoder |-> FALSE, accel |-> FALSE], chosen)
    [] t = "full_sw"             -> Command([decoder |-> FALSE, accel |-> FALSE], "software")

Attempted ==
  [tier : Tier, command : [decoder : BOOLEAN, accel : BOOLEAN, encoder : Encoder],
   failure : Failure \cup {"none"}]

LadderTyped ==
  /\ policy \in Policy /\ preopts \in [decoder : BOOLEAN, accel : BOOLEAN]
  /\ codec \in Encoder /\ chosen \in Encoder
  /\ tier \in Tier \cup {"ok", "failed"}
  /\ records \in Seq(Attempted)

\* The tier about to run is earned, and the codec is the chosen one until the swap.
TierEarned ==
  tier \in Tier => Earned(tier) /\ codec = (IF tier = "full_sw" THEN "software" ELSE chosen)

\* Every attempt was earned and ran what its tier runs, in the order of the tiers.
AttemptsEarned ==
  /\ \A i \in 1 .. Len(records) :
       /\ Earned(records[i].tier) /\ records[i].command = CommandFor(records[i].tier)
       /\ Rank(records[i].tier) < Rank(tier)
  /\ \A i, k \in 1 .. Len(records) : i < k => Rank(records[i].tier) < Rank(records[k].tier)

\* Where the ladder may give up.
GivesUpLate ==
  tier = "failed" =>
    /\ Len(records) > 0
    /\ policy = "aggressive" /\ chosen # "software" => records[Len(records)].tier = "full_sw"
    /\ policy = "sw_decode_only" =>
         ~preopts.decoder \/ records[Len(records)].tier = "sw_decode"

LadderInv == LadderTyped /\ TierEarned /\ AttemptsEarned /\ GivesUpLate

LEMMA LadderStarts == LadderInit => LadderInv
BY LadderAssumption DEF LadderAssumption, LadderInit, LadderInv, LadderTyped, TierEarned, AttemptsEarned, GivesUpLate, Tier, Earned

\* The next tier is a later one, and earned.
LEMMA TierFollows ==
  ASSUME LadderInv, tier \in Tier, NEW failure \in Failure
  PROVE  LET next == TierAfter(tier, failure) IN
         /\ next \in (Tier \ {"hw"}) \cup {"failed"} /\ Rank(tier) < Rank(next)
         /\ next \in Tier => Earned(next)
         /\ next = "failed" =>
              /\ policy = "aggressive" /\ chosen # "software" => tier = "full_sw"
              /\ policy = "sw_decode_only" => ~preopts.decoder \/ tier = "sw_decode"
<1>1. /\ policy \in Policy /\ Earned(tier) /\ codec = (IF tier = "full_sw" THEN "software" ELSE chosen)
      /\ preopts.decoder \in BOOLEAN /\ preopts.accel \in BOOLEAN
  BY DEF LadderInv, LadderTyped, TierEarned
<1>2. CASE tier = "hw"
  BY <1>1, <1>2 DEF TierAfter, Tier, Rank, Earned, Rescues, StripsDecode, StripsDecoder, AfterDecode, BeforeDecode,
     Descends, HasVaapiTwin, HasSoftwareTwin, Policy
<1>3. CASE tier = "hw_alt"
  BY <1>1, <1>3 DEF TierAfter, Tier, Rank, Earned, Rescues, StripsDecode, StripsDecoder, AfterDecode, BeforeDecode,
     Descends, HasVaapiTwin, HasSoftwareTwin, Policy
<1>4. CASE tier \in {"sw_decode", "sw_decode_hw_encode", "full_sw"}
  BY <1>1, <1>4 DEF TierAfter, Tier, Rank, Earned, Rescues, StripsDecode, StripsDecoder, AfterDecode, BeforeDecode,
     Descends, HasVaapiTwin, HasSoftwareTwin, Policy
<1>. QED BY <1>2, <1>3, <1>4 DEF Tier

\* An attempt is recorded under its tier, and the tier after it is a later one.
LEMMA AttemptKeepsLadder ==
  ASSUME LadderInv, NEW failure \in Failure \cup {"none"}, Attempt(failure)
  PROVE  LadderInv'
<1>. DEFINE n == Len(records)
            next == IF failure = "none" THEN "ok" ELSE TierAfter(tier, failure)
            last == [tier |-> tier, command |-> CommandOf(tier), failure |-> failure]
<1>1. /\ tier \in Tier /\ policy \in Policy /\ preopts \in [decoder : BOOLEAN, accel : BOOLEAN]
      /\ codec \in Encoder /\ chosen \in Encoder
      /\ records \in Seq(Attempted)
      /\ Earned(tier) /\ codec = (IF tier = "full_sw" THEN "software" ELSE chosen)
  BY DEF Attempt, LadderInv, LadderTyped, TierEarned
<1>2. /\ records' = Append(records, last) /\ tier' = next /\ codec' = Prepared(next)
      /\ policy' = policy /\ preopts' = preopts /\ chosen' = chosen
  BY DEF Attempt
<1>3. /\ next \in (Tier \ {"hw"}) \cup {"failed", "ok"} /\ Rank(tier) < Rank(next)
      /\ next \in Tier => Earned(next)
      /\ next = "failed" =>
           /\ policy = "aggressive" /\ chosen # "software" => tier = "full_sw"
           /\ policy = "sw_decode_only" => ~preopts.decoder \/ tier = "sw_decode"
  <2>1. CASE failure = "none"
    BY <1>1, <2>1 DEF Rank, Tier
  <2>2. CASE failure # "none"
    BY <1>1, <2>2, TierFollows
  <2>. QED BY <2>1, <2>2
<1>4. /\ CommandOf(tier) = CommandFor(tier)
      /\ CommandOf(tier) \in [decoder : BOOLEAN, accel : BOOLEAN, encoder : Encoder]
  <2>1. CASE tier \in {"hw", "hw_alt"}
    BY <1>1, <2>1 DEF CommandOf, CommandFor, Command, Encoder
  <2>2. CASE tier \in {"sw_decode", "sw_decode_hw_encode"}
    BY <1>1, <2>2 DEF CommandOf, CommandFor, Command, SwDecodeCommand, Encoder
  <2>3. CASE tier = "full_sw"
    BY <1>1, <2>3 DEF CommandOf, CommandFor, Command, Encoder
  <2>. QED BY <1>1, <2>1, <2>2, <2>3 DEF Tier
<1>5. last \in Attempted
  BY <1>1, <1>4 DEF Attempted
<1>6. /\ n \in Nat /\ Len(records') = n + 1 /\ records'[n + 1] = last
      /\ \A i \in 1 .. n : records'[i] = records[i]
  BY <1>1, <1>2, <1>5
<1>7. \A t : Earned(t)' <=> Earned(t)
  BY <1>2 DEF Earned, Descends, StripsDecode
<1>8. \A t : CommandFor(t)' = CommandFor(t)
  BY <1>2 DEF CommandFor
<1>9. codec' \in Encoder /\ (next \in Tier => codec' = IF next = "full_sw" THEN "software" ELSE chosen)
  <2>1. tier = "full_sw" => next \in {"failed", "ok"}
    BY <1>3 DEF Rank, Tier
  <2>2. CASE tier # "full_sw"
    BY <1>1, <1>2, <2>2 DEF Prepared, Encoder
  <2>3. CASE tier = "full_sw"
    BY <1>1, <1>2, <2>1, <2>3 DEF Prepared, Encoder, Tier
  <2>. QED BY <2>2, <2>3
<1>. HIDE DEF next, last
<1>10. LadderTyped'
  <2>1. records' \in Seq(Attempted)
    BY <1>1, <1>2, <1>5
  <2>. QED BY <1>1, <1>2, <1>3, <1>9, <2>1 DEF LadderTyped
<1>11. TierEarned'
  <2>1. tier' \in Tier => Earned(tier') /\ codec' = (IF tier' = "full_sw" THEN "software" ELSE chosen')
    BY <1>2, <1>3, <1>9
  <2>. QED BY <1>2, <1>7, <2>1 DEF TierEarned
<1>12. last.tier = tier /\ last.command = CommandFor(tier)
  BY <1>4 DEF last
<1>13. \A t \in Tier \cup {"ok", "failed"} : Rank(t) \in 1 .. 6
  BY DEF Rank
<1>14. \A i \in 1 .. n : /\ Earned(records[i].tier) /\ records[i].command = CommandFor(records[i].tier)
                         /\ Rank(records[i].tier) < Rank(tier) /\ records[i].tier \in Tier
  <2>1. \A i \in 1 .. n : records[i].tier \in Tier
    <3>1. \A i \in 1 .. n : records[i] \in Attempted
      BY <1>1
    <3>. QED BY <3>1 DEF Attempted
  <2>. QED BY <2>1 DEF LadderInv, AttemptsEarned
<1>15. \A i \in 1 .. n + 1 :
         /\ Earned(records'[i].tier) /\ records'[i].command = CommandFor(records'[i].tier)
         /\ Rank(records'[i].tier) < Rank(next)
  <2>. SUFFICES ASSUME NEW i \in 1 .. n + 1
                PROVE  /\ Earned(records'[i].tier) /\ records'[i].command = CommandFor(records'[i].tier)
                       /\ Rank(records'[i].tier) < Rank(next)
    OBVIOUS
  <2>1. CASE i = n + 1
    BY <1>1, <1>3, <1>6, <1>12, <2>1
  <2>2. CASE i \in 1 .. n
    <3>1. Rank(records[i].tier) \in Nat /\ Rank(tier) \in Nat /\ Rank(next) \in Nat
      BY <1>1, <1>3, <1>13, <1>14, <2>2
    <3>. QED BY <1>3, <1>6, <1>14, <2>2, <3>1
  <2>. QED BY <1>6, <2>1, <2>2
<1>16. \A i, k \in 1 .. n + 1 : i < k => Rank(records'[i].tier) < Rank(records'[k].tier)
  <2>. SUFFICES ASSUME NEW i \in 1 .. n + 1, NEW k \in 1 .. n + 1, i < k
                PROVE  Rank(records'[i].tier) < Rank(records'[k].tier)
    OBVIOUS
  <2>1. i \in 1 .. n /\ records'[i] = records[i]
    BY <1>6
  <2>2. CASE k = n + 1
    BY <1>6, <1>12, <1>14, <2>1, <2>2
  <2>3. CASE k \in 1 .. n
    BY <1>6, <2>1, <2>3 DEF LadderInv, AttemptsEarned
  <2>. QED BY <1>6, <2>2, <2>3
<1>17. AttemptsEarned'
  BY <1>2, <1>6, <1>7, <1>8, <1>15, <1>16 DEF AttemptsEarned
<1>18. GivesUpLate'
  <2>1. records'[Len(records')].tier = tier /\ Len(records') > 0
    BY <1>6, <1>12
  <2>. QED BY <1>2, <1>3, <2>1 DEF GivesUpLate
<1>. QED BY <1>10, <1>11, <1>17, <1>18 DEF LadderInv

\* The ladder keeps to what was earned, whatever fails.
THEOREM LadderInvariance == LadderSpec => []LadderInv
<1>1. LadderInv /\ [LadderNext]_ladderVars => LadderInv'
  <2>. SUFFICES ASSUME LadderInv, [LadderNext]_ladderVars PROVE LadderInv'
    OBVIOUS
  <2>1. CASE UNCHANGED ladderVars
    BY <2>1 DEF ladderVars, LadderInv, LadderTyped, TierEarned, AttemptsEarned, GivesUpLate, Earned, CommandFor,
       Descends, StripsDecode
  <2>. QED BY <2>1, AttemptKeepsLadder DEF LadderNext
<1>. QED BY <1>1, LadderStarts, PTL DEF LadderSpec

\* Two tiers that were both earned run different commands.
LEMMA TiersDiffer ==
  ASSUME preopts \in [decoder : BOOLEAN, accel : BOOLEAN], NEW s \in Tier, NEW t \in Tier,
         Earned(s), Earned(t), CommandFor(s) = CommandFor(t)
  PROVE  s = t
<1>1. /\ CommandFor(s).encoder = CommandFor(t).encoder /\ CommandFor(s).decoder = CommandFor(t).decoder
      /\ CommandFor(s).accel = CommandFor(t).accel
  OBVIOUS
<1>2. \A r \in Tier :
        /\ CommandFor(r).encoder = CASE r = "hw_alt" -> "vaapi" [] r = "full_sw" -> "software" [] OTHER -> chosen
        /\ CommandFor(r).decoder = (r \in {"hw", "hw_alt"} /\ preopts.decoder)
        /\ CommandFor(r).accel = (r \in {"hw", "hw_alt", "sw_decode"} /\ preopts.accel)
  BY DEF CommandFor, Command, Tier
<1>3. preopts.decoder \in BOOLEAN /\ preopts.accel \in BOOLEAN
  OBVIOUS
<1>. QED BY <1>1, <1>2, <1>3 DEF Tier, Earned, Descends, StripsDecode

\* No command runs twice, no encoder runs that the policy or the first command did not
\* allow, and no policy gives up before its last resort.
THEOREM PolicyIsKept == LadderSpec => []LadderKeepsPolicy
<1>1. LadderInv => LadderKeepsPolicy
  <2>. SUFFICES ASSUME LadderInv PROVE LadderKeepsPolicy
    OBVIOUS
  <2>1. /\ preopts \in [decoder : BOOLEAN, accel : BOOLEAN] /\ Len(records) \in Nat
        /\ \A i \in 1 .. Len(records) :
             /\ records[i].tier \in Tier /\ Earned(records[i].tier)
             /\ records[i].command = CommandFor(records[i].tier)
    <3>1. /\ preopts \in [decoder : BOOLEAN, accel : BOOLEAN] /\ Len(records) \in Nat
          /\ \A i \in 1 .. Len(records) : records[i].tier \in Tier
      <4>1. /\ preopts \in [decoder : BOOLEAN, accel : BOOLEAN]
            /\ records \in Seq(Attempted)
        BY DEF LadderInv, LadderTyped
      <4>2. \A i \in 1 .. Len(records) : records[i] \in Attempted
        BY <4>1
      <4>. QED BY <4>1, <4>2 DEF Attempted
    <3>. QED BY <3>1 DEF LadderInv, AttemptsEarned
  <2>2. \A i, k \in 1 .. Len(records) : i # k => records[i].tier # records[k].tier
    <3>1. \A i, k \in 1 .. Len(records) : i < k => Rank(records[i].tier) < Rank(records[k].tier)
      BY DEF LadderInv, AttemptsEarned
    <3>2. \A t \in Tier : Rank(t) \in 1 .. 5
      BY DEF Rank, Tier
    <3>3. ASSUME NEW i \in 1 .. Len(records), NEW k \in 1 .. Len(records), i < k
          PROVE  records[i].tier # records[k].tier
      <4>1. Rank(records[i].tier) < Rank(records[k].tier) /\ Rank(records[i].tier) \in Nat
        BY <2>1, <3>1, <3>2, <3>3
      <4>. QED BY <4>1
    <3>. QED BY <2>1, <3>3
  <2>3. \A i, k \in 1 .. Len(records) : i # k => records[i].command # records[k].command
    BY <2>1, <2>2, TiersDiffer
  <2>4. ASSUME NEW i \in 1 .. Len(records)
        PROVE  \/ records[i].command.encoder = chosen
               \/ records[i].command.encoder = "vaapi" /\ chosen = "qsv" /\ policy # "hw_only"
               \/ records[i].command.encoder = "software" /\ policy = "aggressive"
    BY <2>1, <2>4 DEF CommandFor, Command, Earned, Tier
  <2>5. tier = "failed" /\ policy = "aggressive" /\ chosen # "software" => Ran("full_sw")
    BY <2>1 DEF LadderInv, GivesUpLate, Ran
  <2>6. ASSUME tier = "failed", policy = "sw_decode_only" PROVE ~records[Len(records)].command.decoder
    <3>1. Len(records) \in 1 .. Len(records) /\ (~preopts.decoder \/ records[Len(records)].tier = "sw_decode")
      BY <2>1, <2>6 DEF LadderInv, GivesUpLate
    <3>2. records[Len(records)].command = CommandFor(records[Len(records)].tier)
          /\ records[Len(records)].tier \in Tier
      BY <2>1, <3>1
    <3>. QED BY <3>1, <3>2 DEF CommandFor, Command, Tier
  <2>. QED BY <2>3, <2>4, <2>5, <2>6 DEF LadderKeepsPolicy
<1>. QED BY <1>1, LadderInvariance, PTL

-----------------------------------------------------------------------------
(* The hand-over.                                                          *)

FileName == {"in", "out", "titled", "aside", "arr"}

\* The stages after the output got its name, and those in which it may have another.
Placed == {"notify", "rescan", "rescanning", "import", "importing", "rename", "renaming", "done"}

HandoverTyped ==
  /\ hstage \in Placed \cup {"convert", "failed"}
  /\ disk \in SUBSET FileName /\ known \in FileName \cup {"none"}
  /\ pending \in Seq([name : {"rescan", "import", "rename"}, file : FileName \cup {"none"}])
  /\ hstage \in Placed => output \in FileName
  /\ Source \in {"in", "aside"}

\* What of the commands is not a rescan was sent for the output, and is awaited, unless
\* the conversion gave up on it.
OwnCommands ==
  \A i \in DOMAIN pending :
    \/ pending[i].name = "rescan"
    \/ /\ pending[i].file = output /\ output # "arr"
       /\ \/ pending[i].name = "import" /\ hstage = "importing"
          \/ pending[i].name = "rename" /\ hstage = "renaming"
          \/ hstage = "done" /\ warned

\* The output has its name until the manager gives it another, and links it under that.
OutputStands ==
  /\ hstage = "convert" => disk = {Source}
  /\ hstage \in Placed =>
       /\ output # Source
       /\ \A x \in disk \ {Source} : x \in {output, "arr"}
       /\ output \in disk /\ "arr" \in disk => output = "arr"
       /\ output \in disk \/ ("arr" \in disk /\ known = "arr")
  /\ hstage \in Placed \ {"done"} => output # "arr"

\* Until the import is executed nothing moves; afterwards the record links a file.
ImportDone == hset.refuses \/ ~Visible \/ known \in disk

ImportTold ==
  /\ hstage \in {"notify", "rescan", "rescanning", "import"} => output \in disk
  /\ hstage = "importing" => (output \in disk /\ ~Executed("import")) \/ ImportDone
  /\ hstage \in {"importing", "rename"} /\ ~hset.moves => output \in disk
  /\ hstage \in {"rename", "renaming"} => ImportDone

\* The rename was asked for under a name that the record had.
RenameTold ==
  hstage = "renaming" =>
    \/ output \in disk /\ known = output /\ ~Executed("rename")
    \/ "arr" \in disk /\ known = "arr"

\* A hand-over without a warning is complete.
Complete ==
  hstage = "done" /\ ~warned /\ Manager.rescan =>
    /\ Manager.rename \/ ~hset.moves => output \in disk
    /\ ImportDone

Reported ==
  /\ hstage = "notify" => disk = {output} \cup (IF hset.delete THEN {} ELSE {Source})
  /\ hstage = "rescan" =>
       processed = disk /\ (told # {} => (<<"deleted", Source>> \in told <=> Source \notin disk))

HandoverInv ==
  /\ HandoverTyped /\ OwnCommands /\ OutputStands /\ ImportTold /\ RenameTold /\ Complete /\ Reported

-----------------------------------------------------------------------------
ManagerCommand == [name : {"rescan", "import", "rename"}, file : FileName \cup {"none"}]

\* The commands left once the first is executed.
LEMMA FirstGoes ==
  ASSUME pending \in Seq(ManagerCommand), pending # <<>>, pending' = Tail(pending)
  PROVE  /\ Head(pending) \in ManagerCommand /\ pending' \in Seq(ManagerCommand)
         /\ 1 \in DOMAIN pending /\ Head(pending) = pending[1]
         /\ \A i \in DOMAIN pending' : i + 1 \in DOMAIN pending /\ pending'[i] = pending[i + 1]
         /\ \A name : ~Executed(name) /\ Head(pending).name # name => ~Executed(name)'
         /\ \A name : Executed(name) => Executed(name)'
<1>1. /\ Len(pending) \in Nat /\ Len(pending) > 0 /\ DOMAIN pending = 1 .. Len(pending)
      /\ Head(pending) = pending[1] /\ pending' \in Seq(ManagerCommand)
      /\ DOMAIN pending' = 1 .. (Len(pending) - 1)
      /\ \A i \in DOMAIN pending' : pending'[i] = pending[i + 1]
      /\ Head(pending) \in ManagerCommand
  OBVIOUS
<1>2. \A i \in DOMAIN pending' : i + 1 \in DOMAIN pending
  BY <1>1
<1>3. \A i \in DOMAIN pending : i # 1 => i - 1 \in DOMAIN pending' /\ pending'[i - 1] = pending[i]
  BY <1>1
<1>4. ASSUME NEW name, ~Executed(name), Head(pending).name # name PROVE ~Executed(name)'
  BY <1>1, <1>3, <1>4 DEF Executed
<1>5. ASSUME NEW name, Executed(name) PROVE Executed(name)'
  BY <1>1, <1>2, <1>5 DEF Executed
<1>. QED BY <1>1, <1>2, <1>4, <1>5

\* One more command.
LEMMA OneMore ==
  ASSUME pending \in Seq(ManagerCommand), NEW c \in ManagerCommand, pending' = Append(pending, c)
  PROVE  /\ pending' \in Seq(ManagerCommand)
         /\ \A i \in DOMAIN pending' : pending'[i] = c \/ (i \in DOMAIN pending /\ pending'[i] = pending[i])
         /\ ~Executed(c.name)'
         /\ \A name : ~Executed(name) => ~Executed(name)'
<1>1. /\ Len(pending) \in Nat /\ DOMAIN pending = 1 .. Len(pending)
      /\ pending' \in Seq(ManagerCommand) /\ DOMAIN pending' = 1 .. (Len(pending) + 1)
      /\ pending'[Len(pending) + 1] = c
      /\ \A i \in 1 .. Len(pending) : pending'[i] = pending[i]
  OBVIOUS
<1>. QED BY <1>1 DEF Executed

LEMMA HandoverStarts == HandoverInit => HandoverInv
<1>. SUFFICES ASSUME HandoverInit PROVE HandoverInv
  OBVIOUS
<1>1. /\ hstage = "convert" /\ disk = {Source} /\ pending = <<>> /\ Source \in {"in", "aside"}
      /\ known \in {"in", "none"} /\ warned = FALSE
  BY DEF HandoverInit, HandoverStart, Source
<1>. QED BY <1>1 DEF HandoverInv, HandoverTyped, OwnCommands, OutputStands, ImportTold, RenameTold,
                     Complete, Reported, Placed, FileName

\* Nothing changes the settings.
LEMMA SettingsStay ==
  ASSUME hset' = hset
  PROVE  Manager' = Manager /\ Source' = Source /\ Visible' = Visible
BY DEF Manager, Matching, Source, Visible

\* A rescan leaves the files alone and unlinks only what is gone.
LEMMA RescanKeeps ==
  ASSUME HandoverInv, pending # <<>>, pending' = Tail(pending), Head(pending).name = "rescan",
         disk' = disk, known' = IF known \in disk THEN known ELSE "none",
         UNCHANGED <<hset, hstage, output, told, processed, warned, hleft>>
  PROVE  HandoverInv'
<1>. USE DEF HandoverInv, HandoverTyped
<1>1. /\ pending' \in Seq(ManagerCommand)
      /\ \A i \in DOMAIN pending' : i + 1 \in DOMAIN pending /\ pending'[i] = pending[i + 1]
      /\ \A name \in {"import", "rename"} : ~Executed(name) => ~Executed(name)'
  BY FirstGoes DEF ManagerCommand
<1>2. Manager' = Manager /\ Source' = Source /\ Visible' = Visible
  BY SettingsStay
<1>3. HandoverTyped'
  BY <1>1, <1>2 DEF ManagerCommand
<1>4. OwnCommands'
  BY <1>1 DEF OwnCommands
<1>5. ImportDone => ImportDone'
  BY <1>2 DEF ImportDone
<1>6. OutputStands' /\ ImportTold' /\ RenameTold' /\ Complete' /\ Reported'
  BY <1>1, <1>2, <1>5 DEF OutputStands, ImportTold, RenameTold, Complete, Reported, Placed
<1>. QED BY <1>3, <1>4, <1>6

\* An import or a rename is of the output, and asked for by this conversion.
LEMMA OwnCommand ==
  ASSUME HandoverInv, pending # <<>>, Head(pending).name # "rescan"
  PROVE  /\ Head(pending).file = output /\ output # "arr" /\ output \in FileName
         /\ Head(pending).name \in {"import", "rename"}
         /\ \/ Head(pending).name = "import" /\ hstage = "importing"
            \/ Head(pending).name = "rename" /\ hstage = "renaming"
            \/ hstage = "done" /\ warned
<1>1. 1 \in DOMAIN pending /\ Head(pending) = pending[1] /\ Head(pending) \in ManagerCommand
  <2>1. pending \in Seq(ManagerCommand)
    BY DEF HandoverInv, HandoverTyped, ManagerCommand
  <2>. QED BY <2>1
<1>. QED BY <1>1 DEF HandoverInv, HandoverTyped, OwnCommands, ManagerCommand, Placed

LEMMA ImportKeeps ==
  ASSUME HandoverInv, pending # <<>>, pending' = Tail(pending), Head(pending).name = "import",
         UNCHANGED <<hset, hstage, output, told, processed, warned, hleft>>,
         \/ /\ output \in disk /\ known' = (IF hset.moves THEN "arr" ELSE output)
            /\ disk' = (IF hset.moves THEN MovedFile(output, "arr") ELSE disk)
         \/ (output \notin disk \/ ~Visible \/ hset.refuses) /\ UNCHANGED <<disk, known>>
  PROVE  HandoverInv'
<1>. USE DEF HandoverInv, HandoverTyped
<1>1. /\ pending' \in Seq(ManagerCommand)
      /\ \A i \in DOMAIN pending' : i + 1 \in DOMAIN pending /\ pending'[i] = pending[i + 1]
      /\ ~Executed("rename") => ~Executed("rename")'
  BY FirstGoes DEF ManagerCommand
<1>2. Manager' = Manager /\ Source' = Source /\ Visible' = Visible
  BY SettingsStay
<1>3. output # "arr" /\ output \in FileName /\ (hstage = "importing" \/ (hstage = "done" /\ warned))
  BY OwnCommand
<1>4. HandoverTyped'
  BY <1>1, <1>2, <1>3 DEF ManagerCommand, MovedFile, FileName
<1>5. OwnCommands'
  BY <1>1 DEF OwnCommands
<1>6. OutputStands'
  BY <1>2, <1>3 DEF OutputStands, MovedFile, Placed
<1>7. ImportTold'
  <2>1. hstage = "importing" => ImportDone'
    <3>1. CASE output \in disk /\ known' = (IF hset.moves THEN "arr" ELSE output)
               /\ disk' = (IF hset.moves THEN MovedFile(output, "arr") ELSE disk)
      BY <3>1 DEF ImportDone, MovedFile
    <3>2. CASE (output \notin disk \/ ~Visible \/ hset.refuses) /\ UNCHANGED <<disk, known>>
      BY <1>2, <3>2 DEF ImportDone, ImportTold
    <3>. QED BY <3>1, <3>2
  <2>. QED BY <1>3, <2>1 DEF ImportTold
<1>8. RenameTold' /\ Complete' /\ Reported'
  BY <1>3 DEF RenameTold, Complete, Reported
<1>. QED BY <1>4, <1>5, <1>6, <1>7, <1>8

LEMMA RenameKeeps ==
  ASSUME HandoverInv, pending # <<>>, pending' = Tail(pending), Head(pending).name = "rename",
         UNCHANGED <<hset, hstage, output, told, processed, warned, hleft>>,
         \/ output \in disk /\ disk' = MovedFile(output, "arr") /\ known' = "arr"
         \/ output \notin disk /\ UNCHANGED <<disk, known>>
  PROVE  HandoverInv'
<1>. USE DEF HandoverInv, HandoverTyped
<1>1. /\ pending' \in Seq(ManagerCommand)
      /\ \A i \in DOMAIN pending' : i + 1 \in DOMAIN pending /\ pending'[i] = pending[i + 1]
  BY FirstGoes DEF ManagerCommand
<1>2. Manager' = Manager /\ Source' = Source /\ Visible' = Visible
  BY SettingsStay
<1>3. output # "arr" /\ output \in FileName /\ (hstage = "renaming" \/ (hstage = "done" /\ warned))
  BY OwnCommand
<1>4. HandoverTyped'
  BY <1>1, <1>2, <1>3 DEF ManagerCommand, MovedFile, FileName
<1>5. OwnCommands'
  BY <1>1 DEF OwnCommands
<1>6. OutputStands'
  BY <1>2, <1>3 DEF OutputStands, MovedFile, Placed
<1>7. ImportDone => ImportDone'
  BY <1>2 DEF ImportDone, MovedFile
<1>8. ImportTold' /\ RenameTold' /\ Complete' /\ Reported'
  BY <1>3, <1>7 DEF ImportTold, RenameTold, Complete, Reported, MovedFile
<1>. QED BY <1>4, <1>5, <1>6, <1>8

LEMMA ExecuteKeeps ==
  ASSUME HandoverInv, Execute
  PROVE  HandoverInv'
<1>. DEFINE c == Head(pending)
<1>1. pending # <<>> /\ pending' = Tail(pending)
      /\ UNCHANGED <<hset, hstage, output, told, processed, warned, hleft>>
  BY DEF Execute
<1>2. CASE c.name = "rescan"
  BY <1>1, <1>2, RescanKeeps DEF Execute
<1>3. CASE c.name = "import"
  <2>1. c.file = output
    BY <1>1, <1>3, OwnCommand
  <2>. QED BY <1>1, <1>3, <2>1, ImportKeeps DEF Execute
<1>4. CASE c.name = "rename"
  <2>1. c.file = output
    BY <1>1, <1>4, OwnCommand
  <2>. QED BY <1>1, <1>4, <2>1, RenameKeeps DEF Execute
<1>. QED BY <1>2, <1>3, <1>4 DEF Execute

\* A rescan that another conversion asks for.
LEMMA PeerKeeps ==
  ASSUME HandoverInv, PeerRescan
  PROVE  HandoverInv'
<1>. USE DEF HandoverInv, HandoverTyped
<1>1. ApiCommand("rescan", "none") \in ManagerCommand
  BY DEF ApiCommand, ManagerCommand
<1>2. /\ pending' \in Seq(ManagerCommand)
      /\ \A i \in DOMAIN pending' : pending'[i].name = "rescan"
                                   \/ (i \in DOMAIN pending /\ pending'[i] = pending[i])
      /\ \A name : ~Executed(name) => ~Executed(name)'
  BY <1>1, OneMore DEF PeerRescan, ManagerCommand, ApiCommand
<1>3. /\ Manager' = Manager /\ Source' = Source /\ Visible' = Visible
      /\ UNCHANGED <<hset, hstage, disk, output, known, told, processed, warned>>
  BY SettingsStay DEF PeerRescan
<1>4. HandoverTyped' /\ OwnCommands'
  BY <1>2, <1>3 DEF OwnCommands, ManagerCommand
<1>5. ImportDone' = ImportDone
  BY <1>3 DEF ImportDone
<1>. QED BY <1>2, <1>3, <1>4, <1>5 DEF OutputStands, ImportTold, RenameTold, Complete, Reported

-----------------------------------------------------------------------------
\* The conversion, up to the hand-over.
LEMMA PlacedKeeps ==
  ASSUME HandoverInv, Fail \/ PlaceOutput \/ Notify
  PROVE  HandoverInv'
<1>. USE DEF HandoverInv, HandoverTyped
<1>1. /\ Manager' = Manager /\ Source' = Source /\ Visible' = Visible
      /\ hset' = hset /\ pending' = pending /\ warned' = warned /\ known' = known
  BY SettingsStay DEF Fail, PlaceOutput, Notify
<1>2. \A i \in DOMAIN pending : pending[i].name = "rescan"
  BY DEF OwnCommands, Fail, PlaceOutput, Notify
<1>3. CASE Fail
  BY <1>1, <1>2, <1>3 DEF Fail, OwnCommands, OutputStands, ImportTold, RenameTold, Complete, Reported,
                     Placed, FileName
<1>4. CASE PlaceOutput
  <2>1. /\ output' \in FileName /\ output' # Source /\ output' # "arr"
        /\ hstage' = "notify" /\ disk' = {output'} \cup (IF hset.delete THEN {} ELSE {Source})
    BY <1>4 DEF PlaceOutput, FileName, Source
  <2>. QED BY <1>1, <1>2, <2>1 DEF OwnCommands, OutputStands, ImportTold, RenameTold, Complete, Reported,
                     Placed, FileName
<1>5. CASE Notify
  <2>1. /\ hstage = "notify" /\ hstage' = "rescan" /\ disk' = disk /\ output' = output
        /\ processed' = disk
    BY <1>5 DEF Notify, Reported
  <2>2. told' # {} => (<<"deleted", Source>> \in told' <=> Source \notin disk)
    BY <1>5, <2>1 DEF Notify, Updates, OutputStands, Placed
  <2>. QED BY <1>1, <1>2, <2>1, <2>2 DEF OwnCommands, OutputStands, ImportTold, RenameTold, Complete,
                     Reported, Placed
<1>. QED BY <1>3, <1>4, <1>5

\* A command is sent, or not.
LEMMA AskedKeeps ==
  ASSUME HandoverInv, Rescan \/ Import \/ Rename
  PROVE  HandoverInv'
<1>. USE DEF HandoverInv, HandoverTyped
<1>1. /\ Manager' = Manager /\ Source' = Source /\ Visible' = Visible
      /\ UNCHANGED <<hset, disk, output, known, told, processed>>
  BY SettingsStay DEF Rescan, Import, Rename
<1>2. /\ \A i \in DOMAIN pending : pending[i].name = "rescan"
      /\ output \in FileName /\ output # "arr" /\ hstage \in Placed \ {"done"}
  BY DEF OwnCommands, OutputStands, Placed, Rescan, Import, Rename
<1>3. CASE pending' = pending
  <2>1. \/ hstage = "rescan" /\ hstage' = "done" /\ ~Manager.rescan
        \/ hstage \in {"rescan", "import", "rename"} /\ warned' /\ hstage' \in {"import", "done"}
            /\ (hstage' = "import" => hstage = "rescan")
    <3>1. ASSUME NEW name \in {"rescan", "import", "rename"}, NEW stage, Sent(name, stage)
          PROVE FALSE
      <4>1. pending' = Append(pending, ApiCommand(name, output))
        BY <3>1 DEF Sent
      <4>. QED BY <1>3, <4>1, <1>2 DEF Sent
    <3>. QED BY <3>1, <1>3 DEF Rescan, Import, Rename, NotSent, GoTo
  <2>2. HandoverTyped' /\ OwnCommands'
    BY <1>1, <1>2, <1>3, <2>1 DEF OwnCommands, Placed
  <2>. QED BY <1>1, <1>2, <1>3, <2>1, <2>2
           DEF OutputStands, ImportTold, RenameTold, Complete, Reported, Placed
<1>4. ASSUME NEW name \in {"rescan", "import", "rename"}, NEW stage, Sent(name, stage),
             <<hstage, name, stage>> \in {<<"rescan", "rescan", "rescanning">>,
                                         <<"import", "import", "importing">>,
                                         <<"rename", "rename", "renaming">>},
             name = "rename" => known = output
      PROVE  HandoverInv'
  <2>1. ApiCommand(name, output) \in ManagerCommand
    BY <1>2 DEF ApiCommand, ManagerCommand
  <2>2. /\ pending' \in Seq(ManagerCommand) /\ ~Executed(name)'
        /\ \A i \in DOMAIN pending' : pending'[i].name = "rescan"
              \/ (pending'[i].name = name /\ pending'[i].file = output)
        /\ hstage' = stage /\ warned' = warned
    BY <1>2, <1>4, <2>1, OneMore DEF Sent, GoTo, ApiCommand, ManagerCommand
  <2>3. HandoverTyped' /\ OwnCommands'
    BY <1>1, <1>2, <1>4, <2>2 DEF OwnCommands, Placed, ManagerCommand
  <2>4. ImportDone' = ImportDone
    BY <1>1 DEF ImportDone
  <2>5. OutputStands' /\ ImportTold' /\ RenameTold'
    BY <1>1, <1>2, <1>4, <2>2, <2>4 DEF OutputStands, ImportTold, RenameTold, Placed
  <2>. QED BY <1>4, <2>2, <2>3, <2>5 DEF Complete, Reported
<1>. QED BY <1>3, <1>4 DEF Rescan, Import, Rename, NotSent

\* The answer to a command came, or did not.
LEMMA PollKeeps ==
  ASSUME HandoverInv, NEW name, NEW stage,
         <<name, stage>> \in {<<"rescan", "rescanning">>, <<"import", "importing">>,
                             <<"rename", "renaming">>},
         Poll(name, stage)
  PROVE  HandoverInv'
<1>. USE DEF HandoverInv, HandoverTyped
<1>1. /\ Manager' = Manager /\ Source' = Source /\ Visible' = Visible /\ hstage = stage
      /\ UNCHANGED <<hset, disk, known, pending, told, processed>>
  BY SettingsStay DEF Poll, Waited, GaveUp
<1>2. ImportDone' = ImportDone
  BY <1>1 DEF ImportDone
<1>3. CASE GaveUp(name, stage)
  BY <1>1, <1>2, <1>3 DEF GaveUp, GoTo, OwnCommands, OutputStands, ImportTold, RenameTold, Complete,
                     Reported, Placed
<1>4. CASE Waited(name, stage) /\ stage # "renaming"
  <2>1. /\ output' = output /\ warned' = warned /\ Executed(name)
        /\ \A i \in DOMAIN pending : pending[i].name = "rescan"
        /\ \/ stage = "rescanning" /\ hstage' = "import"
           \/ stage = "importing" /\ Manager.rename /\ hstage' = "rename"
           \/ stage = "importing" /\ ~Manager.rename /\ hstage' = "done"
    BY <1>1, <1>4 DEF Waited, OwnCommands, Executed, After, GoTo
  <2>. QED BY <1>1, <1>2, <1>4, <2>1 DEF OwnCommands, OutputStands, ImportTold, RenameTold, Complete,
                     Reported, Placed
<1>5. CASE Waited(name, stage) /\ stage = "renaming"
  <2>1. /\ output' = known /\ warned' = warned /\ hstage' = "done" /\ Executed("rename")
        /\ \A i \in DOMAIN pending : pending[i].name = "rescan"
        /\ known = "arr" /\ "arr" \in disk
    BY <1>1, <1>5 DEF Waited, OwnCommands, Executed, After, GoTo, RenameTold
  <2>2. output \notin disk
    BY <1>1, <1>5, <2>1 DEF OutputStands, Placed
  <2>. QED BY <1>1, <1>2, <1>5, <2>1, <2>2 DEF OwnCommands, OutputStands, ImportTold, RenameTold,
                     Complete, Reported, Placed, ImportDone
<1>. QED BY <1>3, <1>4, <1>5 DEF Poll

\* The invariant of a hand-over.
THEOREM HandoverInvariance == HandoverSpec => []HandoverInv
<1>1. HandoverInv /\ [HandoverNext]_handoverVars => HandoverInv'
  <2>. SUFFICES ASSUME HandoverInv, [HandoverNext]_handoverVars PROVE HandoverInv'
    OBVIOUS
  <2>1. CASE UNCHANGED handoverVars
    <3>1. Manager' = Manager /\ Source' = Source /\ Visible' = Visible
      BY <2>1, SettingsStay DEF handoverVars
    <3>. QED BY <2>1, <3>1 DEF handoverVars, HandoverInv, HandoverTyped, OwnCommands, OutputStands,
                  ImportTold, RenameTold, Complete, Reported, ImportDone, Executed
  <2>. QED BY <2>1, ExecuteKeeps, PeerKeeps, PlacedKeeps, AskedKeeps, PollKeeps DEF HandoverNext
<1>. QED BY <1>1, HandoverStarts, PTL DEF HandoverSpec

\* What processFile and triggerRescan hand over without a warning is complete, for any
\* settings and managers and whatever other conversions ask of the manager meanwhile.
THEOREM HandoversComplete == HandoverSpec => []HandedOver
<1>1. HandoverInv => HandedOver
  <2>. SUFFICES ASSUME HandoverInv PROVE HandedOver
    OBVIOUS
  <2>1. hstage # "failed" => Cardinality(disk \ {Source}) <= 1
    <3>. SUFFICES ASSUME hstage # "failed" PROVE Cardinality(disk \ {Source}) <= 1
      OBVIOUS
    <3>1. \A x, y \in disk \ {Source} : x = y
      BY DEF HandoverInv, HandoverTyped, OutputStands
    <3>2. disk \ {Source} = {} \/ \E x : disk \ {Source} = {x}
      BY <3>1
    <3>3. CASE disk \ {Source} = {}
      BY <3>3, FS_EmptySet
    <3>4. ASSUME NEW x, disk \ {Source} = {x} PROVE Cardinality(disk \ {Source}) <= 1
      BY <3>4, FS_Singleton
    <3>. QED BY <3>2, <3>3, <3>4
  <2>. QED BY <2>1 DEF HandedOver, HandoverInv, Complete, ImportDone, Reported, AllSettled
<1>. QED BY <1>1, HandoverInvariance, PTL

-----------------------------------------------------------------------------
(* The files of conversions.                                               *)

\* No two conversions are given the same input, and the file of a bypass, which stays
\* where it is without an output directory, is the only one worked on in its directory.
OneInputEach ==
  \A s \in Setups, t, u \in Task :
    t # u /\ s.kind[t] # "none" /\ s.kind[u] # "none" /\ s.dir[t] = s.dir[u] =>
      /\ (s.kind[t] = "convert") # (s.kind[u] = "convert")
      /\ s.outDir \/ (s.kind[t] # "bypass" /\ s.kind[u] # "bypass")

FilePc ==
  {"queued", "names", "copy", "copying", "start", "encode", "rename", "faststart", "swap",
   "placed", "recycle", "binCopy", "restore", "replicate", "cleanup", "remove", "done", "failed"}

\* After the names are chosen, and after the output has its name.
Begun == FilePc \ {"queued", "names", "copy", "copying", "done", "failed"}
Ended == Begun \ {"start", "encode", "rename"}

Name == (Folder \cup {"out", "dest", "bin", "none"})
          \X {"mkv", "mp4", "sma", "original", "QTFS", "none"} \X Number

TaskRow ==
  [pc : FilePc, src : Name, out : Name, final : Name, delete : BOOLEAN, bin : Name]

FileContent == [of : Task \cup {Stranger}, state : {"original", "whole", "writing", "cut"}]

FilesTyped ==
  /\ set \in Setups
  /\ fs \in [DOMAIN fs -> FileContent]
  /\ task \in [Task -> TaskRow]

\* Where the names of a task are, and when it deletes.
NamesOf(t) == LET r == task[t] IN
  /\ set.kind[t] = "none" => r.pc = "done"
  /\ r.pc \in {"names", "start", "encode", "rename"} => set.kind[t] \in {"convert", "redo"}
  /\ r.pc \in {"copy", "copying"} => set.kind[t] = "bypass"
  /\ r.pc = "copying" => set.outDir /\ r.final[1] = "out" /\ r.final[2] = "mp4"
  /\ \/ r.src = InputOf(t)
     \/ r.pc \notin {"queued", "names", "copy", "copying"} /\ ~ set.outDir /\ set.kind[t] = "redo"
        /\ r.src[1] = set.dir[t] /\ r.src[2] = "original"
  /\ r.pc \in {"start", "encode", "rename"} =>
       /\ r.out[1] = OutputDir(t) /\ r.out[2] \in {"sma", "mp4"}
       /\ r.final[1] = OutputDir(t) /\ r.final[2] = "mp4"
  /\ r.pc \in Ended => r.final[1] \in {set.dir[t], "out", "dest"} /\ r.final[2] \in {"sma", "mp4"}
  /\ r.pc \in {"faststart", "swap", "placed", "restore", "replicate"} => r.final[1] = OutputDir(t)
  /\ r.pc \in {"recycle", "binCopy"} /\ GoesBack => r.final[1] = OutputDir(t)
  /\ r.pc \in {"recycle", "binCopy", "remove"} => r.delete
  /\ r.pc \in {"queued", "copy"} => ~ r.delete
  /\ r.pc = "restore" => GoesBack
  /\ r.pc = "replicate" => ~ GoesBack
  /\ r.pc = "binCopy" => r.bin[1] = "bin"

NamesTyped == \A t \in Task : NamesOf(t)

Safe(t) == t \in Working \ (harmed \cup truncated)

\* Nothing is being written for a task that does not write.
NoStrayWriting ==
  \A t \in Task : Safe(t) /\ task[t].pc \notin {"encode", "copying"} =>
    \A p \in DOMAIN fs : fs[p] # Content(t, "writing")

\* An input that stepped aside is there, and nobody else's, for as long as its task runs.
SetAside(t) == task[t].pc \in Begun /\ task[t].src[2] = "original"

AsidesApart ==
  \A t \in Task : SetAside(t) =>
    /\ Exists(task[t].src)
    /\ \A u \in Task \ {t} : SetAside(u) => task[u].src # task[t].src

\* The file p holds all of t's media.
Good(p, t) == Exists(p) /\ fs[p].of = t /\ fs[p].state \in {"original", "whole"}

\* An input that an earlier run of t set aside, and that stays there.
Aside(t) ==
  set.kind[t] = "redo" /\ \E p \in DOMAIN fs :
    /\ p[1] \in Folder /\ p[2] = "original" /\ Good(p, t)
    /\ \A u \in Task : SetAside(u) => task[u].src # p

\* A bypass without an output directory: its file is the only one, wherever it got to.
InPlace(t) ==
  /\ set.kind[t] = "bypass" /\ ~ set.outDir
  /\ Exists(InputOf(t)) => Good(InputOf(t), t)
  /\ \E p \in DOMAIN fs : Good(p, t) /\ p[2] # "sma"

\* Where the media of task t is, at each step.
Stage(t) == LET r == task[t] IN
  /\ r.pc \in {"queued", "names", "copy", "failed"} =>
       Good(InputOf(t), t) \/ (InPlace(t) /\ r.pc \in {"queued", "failed"})
  /\ r.pc = "copying" => Good(r.src, t) /\ Exists(r.final) /\ fs[r.final] = Content(t, "writing")
  /\ r.pc \in {"start", "encode", "rename"} => Good(r.src, t) /\ r.src # r.out /\ r.src # r.final
  /\ r.pc = "encode" => Exists(r.out) /\ fs[r.out] = Content(t, "writing")
  /\ r.pc = "rename" => Good(r.out, t)
  /\ r.pc = "swap" => Good(RelocatedName(t), t)
  /\ r.pc \in (Ended \ {"swap"}) \cup {"done"} => Good(r.final, t)
  /\ r.pc \in Ended \cup {"done"} => r.final[2] = "mp4"
  /\ r.pc \in Ended =>
       \/ InPlace(t) /\ ~ r.delete
       \/ Good(r.src, t) /\ (r.src # r.final \/ (r.pc = "cleanup" /\ GoesBack))

MediaKnown == \A t \in Task : Safe(t) => Aside(t) \/ Stage(t)

FilesInv == FilesTyped /\ NamesTyped /\ NoStrayWriting /\ AsidesApart /\ MediaKnown

-----------------------------------------------------------------------------
(* Names and numbers.                                                      *)

\* No input is in the output, move-to or recycle-bin directory.
LEMMA NoneLeft == \A s \in Setups, t \in Task : s.dir[t] \notin {"out", "dest", "bin", "none"}
BY ConversionAssumption DEF ConversionAssumption, Setup

\* The parts of the names.
LEMMA NameParts ==
  ASSUME NEW t \in Task, NEW n
  PROVE  /\ InputOf(t)[1] = set.dir[t]
         /\ InputOf(t)[2] = IF set.kind[t] = "convert" THEN "mkv" ELSE "mp4"
         /\ WorkName(t, n)[1] = OutputDir(t)
         /\ WorkName(t, n)[2] = IF set.temp THEN "sma" ELSE "mp4"
         /\ FinalName(t, n)[1] = OutputDir(t) /\ FinalName(t, n)[2] = "mp4"
         /\ AsideName(t, n)[1] = set.dir[t] /\ AsideName(t, n)[2] = "original"
         /\ BesideName(t, n)[1] = set.dir[t] /\ BesideName(t, n)[2] = "mp4"
         /\ BinName(t, n)[1] = "bin" /\ BinName(t, n)[2] = task[t].src[2]
         /\ RelocatedName(t)[1] = task[t].final[1] /\ RelocatedName(t)[2] = "QTFS"
BY DEF InputOf, WorkName, FinalName, AsideName, BesideName, BinName, RelocatedName

\* The first free number is one of them.
LEMMA FirstFree ==
  ASSUME NEW names, NEW files, Numbers(names, files) # {}
  PROVE  /\ FirstOf(Numbers(names, files)) \in Number
         /\ names[FirstOf(Numbers(names, files))] \cap DOMAIN files = {}
<1>. DEFINE S == Numbers(names, files)
<1>1. S \in SUBSET Nat
  BY ConversionAssumption DEF Numbers, Number, ConversionAssumption
<1>2. \E m \in S : \A k \in S : m <= k
  BY <1>1, LeastNumber
<1>3. FirstOf(S) \in S
  BY <1>2 DEF FirstOf
<1>. QED BY <1>3 DEF Numbers

\* What With, Without, Moved and Settled do to a table of files.
LEMMA WithFile ==
  ASSUME NEW p, NEW c, NEW files
  PROVE  /\ DOMAIN With(p, c, files) = DOMAIN files \cup {p}
         /\ With(p, c, files)[p] = c
         /\ \A q \in DOMAIN files : q # p => With(p, c, files)[q] = files[q]
BY DEF With

\* And removing it,
LEMMA WithoutFile ==
  ASSUME NEW p, NEW files
  PROVE  /\ DOMAIN Without(p, files) = DOMAIN files \ {p}
         /\ \A q \in DOMAIN files : q # p => Without(p, files)[q] = files[q]
BY DEF Without

\* moving it,
LEMMA MovedFileTo ==
  ASSUME NEW p, NEW q, NEW files
  PROVE  /\ DOMAIN Moved(p, q, files) = (DOMAIN files \ {p}) \cup {q}
         /\ Moved(p, q, files)[q] = files[p]
         /\ \A x \in DOMAIN files : x # p /\ x # q => Moved(p, q, files)[x] = files[x]
BY DEF Moved, With, Without

\* and ending what is being written.
LEMMA SettledFiles ==
  ASSUME NEW t, NEW state
  PROVE  /\ DOMAIN Settled(t, state) = DOMAIN fs
         /\ \A p \in DOMAIN fs : Settled(t, state)[p] =
              IF fs[p] = Content(t, "writing") THEN Content(t, state) ELSE fs[p]
BY DEF Settled

\* The record a task starts with.
LEMMA RowOf ==
  ASSUME NEW t \in Task, set \in Setups
  PROVE  /\ Queued(t) \in TaskRow /\ [Queued(t) EXCEPT !.pc = "done"] \in TaskRow
         /\ Queued(t).src = InputOf(t) /\ Queued(t).pc = "queued" /\ NoName \in Name
         /\ ~ Queued(t).delete /\ ~ [Queued(t) EXCEPT !.pc = "done"].delete
         /\ [Queued(t) EXCEPT !.pc = "done"].src = InputOf(t)
         /\ [Queued(t) EXCEPT !.pc = "done"].pc = "done"
         /\ InputOf(t) \in Name
<1>1. set.dir[t] \in Folder /\ 0 \in Number
  BY ConversionAssumption DEF ConversionAssumption, Setup, Number
<1>2. InputOf(t) \in Name /\ NoName \in Name
  BY <1>1 DEF InputOf, Name, NoName
<1>. QED BY <1>2 DEF Queued, TaskRow, FilePc

\* Two tasks have two inputs.
LEMMA InputsDiffer ==
  ASSUME OneInputEach, set \in Setups, NEW t \in Task, NEW u \in Task, InputOf(t) = InputOf(u),
         set.kind[t] # "none", set.kind[u] # "none"
  PROVE  t = u
BY DEF OneInputEach, InputOf

\* The invariant holds before anything has run.
LEMMA FilesStart == OneInputEach => (FileInit => FilesInv)
<1>. SUFFICES ASSUME OneInputEach, FileInit PROVE FilesInv
  OBVIOUS
<1>. DEFINE W == {u \in Task : set.kind[u] # "none"}
            who(p) == CHOOSE t \in Task : set.kind[t] # "none" /\ InputOf(t) = p
<1>1. set \in Setups
  BY DEF FileInit
<1>2. /\ DOMAIN fs = {InputOf(t) : t \in W}
      /\ \A p \in DOMAIN fs : fs[p] = Content(who(p), "original")
  BY DEF FileInit
<1>3. \A t \in W : InputOf(t) \in DOMAIN fs /\ fs[InputOf(t)] = Content(t, "original")
  <2>. TAKE t \in W
  <2>1. who(InputOf(t)) \in W /\ InputOf(who(InputOf(t))) = InputOf(t)
    OBVIOUS
  <2>2. who(InputOf(t)) = t
    BY <2>1, <1>1, InputsDiffer
  <2>. QED BY <2>2, <1>2
<1>4. /\ DOMAIN task = Task /\ task = [t \in Task |-> task[t]]
      /\ \A t \in Task : task[t] = IF set.kind[t] = "none" THEN [Queued(t) EXCEPT !.pc = "done"] ELSE Queued(t)
  BY DEF FileInit
<1>. HIDE DEF W, who
<1>5. \A p \in DOMAIN fs : \E t \in Task : fs[p] = Content(t, "original")
  BY <1>2, <1>3 DEF W
<1>6. \A t \in Task : /\ task[t] \in TaskRow /\ task[t].src = InputOf(t) /\ ~ task[t].delete
                      /\ task[t].pc = IF set.kind[t] = "none" THEN "done" ELSE "queued"
  <2>. TAKE t \in Task
  <2>1. CASE set.kind[t] = "none"
    BY <2>1, <1>1, <1>4, RowOf
  <2>2. CASE set.kind[t] # "none"
    BY <2>2, <1>1, <1>4, RowOf
  <2>. QED BY <2>1, <2>2
<1>7. fs = [p \in DOMAIN fs |-> fs[p]]
  BY DEF FileInit
<1>8. FilesTyped
  BY <1>1, <1>4, <1>5, <1>6, <1>7 DEF FilesTyped, FileContent, Content
<1>9. NamesTyped
  BY <1>6 DEF NamesTyped, NamesOf, Ended, Begun
<1>10. NoStrayWriting
  BY <1>5 DEF NoStrayWriting, Content
<1>11. AsidesApart
  BY <1>6 DEF AsidesApart, SetAside, Begun
<1>12. MediaKnown
  <2>. SUFFICES ASSUME NEW t \in Task, Safe(t) PROVE Stage(t)
    BY DEF MediaKnown
  <2>1. t \in W /\ task[t].pc = "queued"
    BY <1>6 DEF Safe, Working, W
  <2>2. InputOf(t) \in DOMAIN fs /\ fs[InputOf(t)] = [of |-> t, state |-> "original"]
    BY <2>1, <1>3 DEF Content
  <2>3. Good(InputOf(t), t)
    BY <2>2 DEF Good, Exists
  <2>. QED BY <2>1, <2>3 DEF Stage, Ended, Begun
<1>. QED BY <1>8, <1>9, <1>10, <1>11, <1>12 DEF FilesInv


-----------------------------------------------------------------------------
(* What a step of one task does to the files of the others.                *)

OwnDirs(u) == {set.dir[u], "out", "dest", "bin"}

\* A file that a step of u may remove or replace: none in another directory, and no
\* original that stepped aside but its own.
Ours(u, p) ==
  p[1] \in OwnDirs(u) /\ (p[1] \in Folder /\ p[2] = "original" => SetAside(u) /\ p = task[u].src)

Stays(p) == p \in DOMAIN fs' /\ (fs'[p] = fs[p] \/ fs[p].state = "writing")

Framed(u) ==
  /\ fs' \in [DOMAIN fs' -> FileContent]
  /\ \A p \in DOMAIN fs : Ours(u, p) \/ Stays(p)
  /\ \A p \in DOMAIN fs' : p \in DOMAIN fs \/ p[1] \in OwnDirs(u)
  /\ \A p \in DOMAIN fs' : fs'[p].state = "writing" /\ fs'[p] # Content(u, "writing") =>
       \E q \in DOMAIN fs : fs[q] = fs'[p]

\* Nothing is being written for u.
NotWriting(u) == \A p \in DOMAIN fs : fs[p] # Content(u, "writing")

\* The row of u, and its alone, changes; an input steps aside to a new name.
RowFramed(u) ==
  /\ task' = [task EXCEPT ![u] = task'[u]] /\ task'[u] \in TaskRow
  /\ SetAside(u)' =>
       /\ task'[u].src \in DOMAIN fs'
       /\ \/ SetAside(u) /\ task'[u].src = task[u].src
          \/ task'[u].src \notin DOMAIN fs

\* A step of one task leaves the records of the others.
LEMMA OthersRows ==
  ASSUME FilesInv, NEW u \in Task, RowFramed(u), UNCHANGED set, NEW t \in Task, t # u
  PROVE  /\ task'[t] = task[t] /\ InputOf(t)' = InputOf(t) /\ OutputDir(t)' = OutputDir(t)
         /\ SetAside(t)' = SetAside(t) /\ (NamesOf(t) => NamesOf(t)')
<1>1. task'[t] = task[t]
  BY DEF RowFramed, FilesInv, FilesTyped
<1>2. InputOf(t)' = InputOf(t) /\ OutputDir(t)' = OutputDir(t) /\ (GoesBack' <=> GoesBack)
  BY DEF InputOf, OutputDir, GoesBack
<1>. QED BY <1>1, <1>2 DEF SetAside, NamesOf

\* What belongs to an unharmed task, and it may need, stays.
LEMMA UnharmedFiles ==
  ASSUME FilesInv, NEW u \in Task, Harm(u), UNCHANGED set, NEW t \in Task, t # u, t \notin harmed',
         NEW p \in DOMAIN fs, fs[p].of = t, fs[p].state # "cut",
         p[1] = "bin" \/ p = InputOf(t) \/ ~ Unneeded(t)
  PROVE  p \in DOMAIN fs' /\ fs'[p] = fs[p]
BY DEF Harm, OthersHarmedBy, Lost

\* A safe task was safe.
LEMMA SafeBefore ==
  ASSUME UNCHANGED set, harmed \subseteq harmed', truncated \subseteq truncated', NEW t \in Task
  PROVE  (Safe(t)' => Safe(t))
BY DEF Safe, Working

\* Originals set aside by runs that are over stay where they are.
LEMMA AsideStays ==
  ASSUME FilesInv, NEW u \in Task, Framed(u), RowFramed(u), UNCHANGED set, NEW t \in Task, Aside(t)
  PROVE  Aside(t)'
<1>1. PICK p \in DOMAIN fs : /\ p[1] \in Folder /\ p[2] = "original" /\ Good(p, t)
                             /\ \A w \in Task : SetAside(w) => task[w].src # p
  BY DEF Aside
<1>2. p \in DOMAIN fs' /\ fs'[p] = fs[p]
  BY <1>1 DEF Framed, Ours, Stays, Good
<1>3. \A w \in Task : SetAside(w)' => task'[w].src # p
  BY <1>1, OthersRows DEF RowFramed
<1>. QED BY <1>1, <1>2, <1>3 DEF Aside, Good, Exists

\* A step of one task leaves the others in their stages.
LEMMA OthersStages ==
  ASSUME OneInputEach, FilesInv, NEW u \in Working, Framed(u), RowFramed(u), Harm(u), UNCHANGED set,
         NEW t \in Task, t # u, Safe(t), Stage(t), t \notin harmed'
  PROVE  Stage(t)'
<1>. DEFINE r == task[t]
<1>1. /\ task'[t] = r /\ InputOf(t)' = InputOf(t) /\ RelocatedName(t)' = RelocatedName(t)
      /\ (GoesBack' <=> GoesBack) /\ NamesOf(t) /\ set \in Setups /\ u \in Task
  BY OthersRows DEF FilesInv, NamesTyped, FilesTyped, RelocatedName, GoesBack, Working
<1>2. ASSUME NEW p, Good(p, t), p[1] = "bin" \/ p = InputOf(t) \/ ~ Unneeded(t) PROVE Good(p, t)'
  BY <1>1, <1>2, UnharmedFiles DEF Good, Exists
<1>3. ASSUME NEW p \in DOMAIN fs, fs[p] = Content(t, "writing"), ~ Unneeded(t)
      PROVE  p \in DOMAIN fs' /\ fs'[p] = Content(t, "writing")
  BY <1>1, <1>3, UnharmedFiles DEF Content
<1>4. r.pc \notin {"queued", "names", "copy", "failed"} => ~ Unneeded(t)
  BY DEF Unneeded
<1>5. InPlace(t) => InPlace(t)'
  <2>. SUFFICES ASSUME InPlace(t) PROVE InPlace(t)'
    OBVIOUS
  <2>1. InputOf(t) \in DOMAIN fs' => Exists(InputOf(t))
    <3>1. set.dir[u] # set.dir[t]
      BY <1>1 DEF InPlace, OneInputEach, Working, Safe
    <3>. QED BY <3>1, <1>1, NoneLeft, NameParts DEF Framed, OwnDirs, Exists
  <2>2. Exists(InputOf(t))' => Good(InputOf(t), t)'
    BY <1>1, <1>2, <2>1 DEF InPlace, Exists
  <2>3. \E p \in DOMAIN fs' : Good(p, t)' /\ p[2] # "sma"
    <3>1. CASE Unneeded(t)
      <4>1. Good(InputOf(t), t)' /\ InputOf(t)[2] # "sma"
        <5>1. Good(InputOf(t), t)
          BY <3>1 DEF Unneeded, InPlace
        <5>2. Good(InputOf(t), t)'
          BY <1>1, <1>2, <5>1
        <5>. QED BY <5>2, NameParts
      <4>. QED BY <4>1, <1>1 DEF Good, Exists
    <3>2. CASE ~ Unneeded(t)
      <4>1. PICK p \in DOMAIN fs : Good(p, t) /\ p[2] # "sma"
        BY DEF InPlace
      <4>2. Good(p, t)'
        BY <4>1, <3>2, <1>2
      <4>. QED BY <4>1, <4>2 DEF Good, Exists
    <3>. QED BY <3>1, <3>2
  <2>. QED BY <1>1, <2>2, <2>3 DEF InPlace
<1>6. r.pc \in {"queued", "names", "copy", "failed"} => Stage(t)'
  BY <1>1, <1>2, <1>5 DEF Stage, Ended, Begun
<1>7. CASE r.pc = "copying"
  BY <1>1, <1>2, <1>3, <1>4, <1>7 DEF Stage, Ended, Begun, Exists
<1>8. CASE r.pc \in {"start", "encode", "rename"}
  BY <1>1, <1>2, <1>3, <1>4, <1>8 DEF Stage, Ended, Begun, Exists
<1>9. CASE r.pc \in Ended \cup {"done"}
  <2>1. ~ Unneeded(t)
    BY <1>4, <1>9 DEF Ended, Begun
  <2>2. \A p : Good(p, t) => Good(p, t)'
    BY <1>2, <2>1
  <2>. QED BY <1>1, <1>5, <1>9, <2>2 DEF Stage, Ended, Begun
<1>10. r \in TaskRow
  BY DEF FilesInv, FilesTyped
<1>. QED BY <1>6, <1>7, <1>8, <1>9, <1>10 DEF TaskRow, FilePc, Ended, Begun

\* What is proved of each step.
StepKept(u) == FilesInv' /\ Framed(u) /\ RowFramed(u)

\* A step of one task keeps the invariant, if it keeps that task in its stages.
LEMMA StepKeeps ==
  ASSUME OneInputEach, FilesInv, NEW u \in Working, UNCHANGED set, truncated \subseteq truncated',
         Framed(u), RowFramed(u), Harm(u), NamesOf(u)',
         Safe(u)' /\ task'[u].pc \notin {"encode", "copying"} => NotWriting(u)',
         Safe(u)' /\ Stage(u) => Stage(u)' \/ Aside(u)'
  PROVE  StepKept(u)
<1>0. u \in Task
  BY DEF Working
<1>1. harmed \subseteq harmed'
  BY DEF Harm
<1>2. FilesTyped'
  BY <1>0 DEF FilesInv, FilesTyped, RowFramed, Framed
<1>3. NamesTyped'
  BY <1>0, OthersRows DEF FilesInv, NamesTyped
<1>4. NoStrayWriting'
  <2>. SUFFICES ASSUME NEW t \in Task, Safe(t)', task'[t].pc \notin {"encode", "copying"}, t # u,
                       NEW p \in DOMAIN fs', fs'[p] = Content(t, "writing")
                PROVE  FALSE
    BY DEF NoStrayWriting, NotWriting
  <2>1. PICK q \in DOMAIN fs : fs[q] = Content(t, "writing")
    BY DEF Framed, Content
  <2>2. task'[t] = task[t] /\ Safe(t)
    BY <1>0, <1>1, OthersRows, SafeBefore
  <2>. QED BY <2>1, <2>2 DEF FilesInv, NoStrayWriting
<1>5. AsidesApart'
  <2>1. ASSUME NEW t \in Task, t # u, SetAside(t)'
        PROVE  SetAside(t) /\ task'[t] = task[t] /\ task[t].src \in DOMAIN fs \cap DOMAIN fs'
    <3>1. SetAside(t) /\ task'[t] = task[t] /\ NamesOf(t) /\ set \in Setups
      BY <1>0, <2>1, OthersRows DEF FilesInv, NamesTyped, FilesTyped
    <3>2. /\ task[t].src \in DOMAIN fs /\ task[t].src[2] = "original"
          /\ SetAside(u) => task[u].src # task[t].src
      BY <1>0, <2>1, <3>1 DEF FilesInv, AsidesApart, SetAside, Exists
    <3>3. task[t].src[1] \in Folder
      <4>1. set.dir[t] \in Folder /\ InputOf(t)[2] # "original"
        BY <3>1, NameParts, ConversionAssumption DEF ConversionAssumption, Setup
      <4>. QED BY <3>1, <3>2, <4>1 DEF NamesOf
    <3>. QED BY <3>1, <3>2, <3>3 DEF Framed, Ours, Stays
  <2>2. SetAside(u)' => /\ task'[u].src \in DOMAIN fs'
                        /\ \/ SetAside(u) /\ task'[u].src = task[u].src
                           \/ task'[u].src \notin DOMAIN fs
    BY DEF RowFramed
  <2>3. \A t \in Task : SetAside(t)' => task'[t].src \in DOMAIN fs'
    BY <2>1, <2>2
  <2>4. \A t, w \in Task : t # w /\ SetAside(t) /\ SetAside(w) => task[t].src # task[w].src
    BY DEF FilesInv, AsidesApart
  <2>5. \A t, w \in Task : t # w /\ SetAside(t)' /\ SetAside(w)' => task'[t].src # task'[w].src
    BY <1>0, <2>1, <2>2, <2>4
  <2>. QED BY <2>3, <2>5 DEF AsidesApart, Exists
<1>6. MediaKnown'
  <2>. SUFFICES ASSUME NEW t \in Task, Safe(t)' PROVE Aside(t)' \/ Stage(t)'
    BY DEF MediaKnown
  <2>1. Safe(t) /\ t \notin harmed' /\ (Aside(t) \/ Stage(t))
    BY <1>1, SafeBefore DEF Safe, FilesInv, MediaKnown
  <2>2. CASE Aside(t)
    BY <2>2, <1>0, AsideStays
  <2>3. CASE Stage(t) /\ t # u
    BY <2>1, <2>3, OthersStages
  <2>4. CASE Stage(t) /\ t = u
    BY <2>4
  <2>. QED BY <2>1, <2>2, <2>3, <2>4
<1>. QED BY <1>2, <1>3, <1>4, <1>5, <1>6 DEF FilesInv, StepKept

-----------------------------------------------------------------------------
(* The kinds of change.                                                    *)

\* A step that changes no file is framed.
LEMMA SameFrame ==
  ASSUME FilesInv, NEW u \in Task, fs' = fs
  PROVE  Framed(u) /\ (NotWriting(u) => NotWriting(u)')
BY DEF Framed, Stays, NotWriting, FilesInv, FilesTyped

\* So is one that settles what the task writes,
LEMMA SettledFrame ==
  ASSUME FilesInv, NEW u \in Task, NEW s \in {"original", "whole", "writing", "cut"}, fs' = Settled(u, s)
  PROVE  /\ Framed(u) /\ (s # "writing" => NotWriting(u)') /\ DOMAIN fs' = DOMAIN fs
         /\ \A p \in DOMAIN fs : fs'[p] = IF fs[p] = Content(u, "writing") THEN Content(u, s) ELSE fs[p]
<1>1. /\ DOMAIN fs' = DOMAIN fs
      /\ \A p \in DOMAIN fs : fs'[p] = IF fs[p] = Content(u, "writing") THEN Content(u, s) ELSE fs[p]
  BY SettledFiles
<1>2. fs' = [p \in DOMAIN fs' |-> fs'[p]]
  BY DEF Settled
<1>3. /\ Content(u, s) \in FileContent /\ Content(u, s).state = s
      /\ s # "writing" => Content(u, s) # Content(u, "writing")
  BY DEF FileContent, Content
<1>4. fs' \in [DOMAIN fs' -> FileContent]
  BY <1>1, <1>2, <1>3 DEF FilesInv, FilesTyped
<1>5. \A p \in DOMAIN fs : Stays(p)
  BY <1>1 DEF Stays, Content
<1>6. \A p \in DOMAIN fs' :
        /\ s # "writing" => fs'[p] # Content(u, "writing")
        /\ fs'[p].state = "writing" /\ fs'[p] # Content(u, "writing") => fs'[p] = fs[p]
  BY <1>1, <1>3
<1>7. \A p \in DOMAIN fs' : fs'[p].state = "writing" /\ fs'[p] # Content(u, "writing") =>
        \E q \in DOMAIN fs : fs[q] = fs'[p]
  BY <1>1, <1>6
<1>8. ASSUME s # "writing" PROVE NotWriting(u)'
  <2>1. \A p \in DOMAIN fs' : fs'[p] # Content(u, "writing")
    BY <1>6, <1>8
  <2>. QED BY <2>1 DEF NotWriting, Content
<1>. QED BY <1>1, <1>4, <1>5, <1>7, <1>8 DEF Framed

\* one that moves a file of its own,
LEMMA MovedFrame ==
  ASSUME FilesInv, NEW u \in Task, NEW p \in DOMAIN fs, NEW q, fs' = Moved(p, q, fs),
         Ours(u, p), q[1] \in OwnDirs(u), q \in DOMAIN fs => Ours(u, q)
  PROVE  /\ Framed(u) /\ (NotWriting(u) => NotWriting(u)') /\ DOMAIN fs' = (DOMAIN fs \ {p}) \cup {q}
         /\ fs'[q] = fs[p] /\ \A x \in DOMAIN fs : x # p /\ x # q => fs'[x] = fs[x]
<1>1. /\ DOMAIN fs' = (DOMAIN fs \ {p}) \cup {q} /\ fs'[q] = fs[p]
      /\ \A x \in DOMAIN fs : x # p /\ x # q => fs'[x] = fs[x]
  BY DEF Moved, With, Without
<1>2. fs' = [x \in DOMAIN fs' |-> fs'[x]]
  BY DEF Moved, With
<1>3. \A x \in DOMAIN fs' : \E y \in DOMAIN fs : fs'[x] = fs[y]
  BY <1>1
<1>4. fs' \in [DOMAIN fs' -> FileContent]
  BY <1>2, <1>3 DEF FilesInv, FilesTyped
<1>5. \A x \in DOMAIN fs : Ours(u, x) \/ Stays(x)
  BY <1>1 DEF Stays
<1>. QED BY <1>1, <1>3, <1>4, <1>5 DEF Framed, NotWriting

\* one that removes one,
LEMMA WithoutFrame ==
  ASSUME FilesInv, NEW u \in Task, NEW p, fs' = Without(p, fs), p \in DOMAIN fs => Ours(u, p)
  PROVE  /\ Framed(u) /\ (NotWriting(u) => NotWriting(u)') /\ DOMAIN fs' = DOMAIN fs \ {p}
         /\ \A x \in DOMAIN fs : x # p => fs'[x] = fs[x]
<1>1. /\ DOMAIN fs' = DOMAIN fs \ {p} /\ \A x \in DOMAIN fs : x # p => fs'[x] = fs[x]
  BY DEF Without
<1>2. fs' = [x \in DOMAIN fs' |-> fs'[x]]
  BY DEF Without
<1>3. fs' \in [DOMAIN fs' -> FileContent]
  BY <1>1, <1>2 DEF FilesInv, FilesTyped
<1>4. \A x \in DOMAIN fs : Ours(u, x) \/ Stays(x)
  BY <1>1 DEF Stays
<1>. QED BY <1>1, <1>3, <1>4 DEF Framed, NotWriting

\* and one that writes one.
LEMMA WithFrame ==
  ASSUME FilesInv, NEW u \in Task, NEW p, NEW c \in FileContent, fs' = With(p, c, fs),
         p[1] \in OwnDirs(u), p \in DOMAIN fs => Ours(u, p),
         c.state = "writing" => c = Content(u, "writing") \/ \E q \in DOMAIN fs : c = fs[q]
  PROVE  /\ Framed(u) /\ (NotWriting(u) /\ c # Content(u, "writing") => NotWriting(u)')
         /\ DOMAIN fs' = DOMAIN fs \cup {p}
         /\ fs'[p] = c /\ \A x \in DOMAIN fs : x # p => fs'[x] = fs[x]
<1>1. /\ DOMAIN fs' = DOMAIN fs \cup {p} /\ fs'[p] = c /\ \A x \in DOMAIN fs : x # p => fs'[x] = fs[x]
  BY DEF With
<1>2. fs' = [x \in DOMAIN fs' |-> fs'[x]]
  BY DEF With
<1>3. fs' \in [DOMAIN fs' -> FileContent]
  BY <1>1, <1>2 DEF FilesInv, FilesTyped
<1>4. \A x \in DOMAIN fs : Ours(u, x) \/ Stays(x)
  BY <1>1 DEF Stays
<1>. QED BY <1>1, <1>3, <1>4 DEF Framed, NotWriting

\* The row of t becomes r.
LEMMA RowChange ==
  ASSUME FilesInv, NEW t \in Task, NEW r \in TaskRow, task' = [task EXCEPT ![t] = r],
         r.src = task[t].src, r.pc \in Begun /\ r.src[2] = "original" =>
                                task[t].pc \in Begun /\ r.src \in DOMAIN fs'
  PROVE  task'[t] = r /\ RowFramed(t)
BY DEF FilesInv, FilesTyped, RowFramed, SetAside

\* A step that only goes on changes only the position.
LEMMA GoChange ==
  ASSUME FilesInv, NEW t \in Task, NEW pc \in FilePc, Go(t, pc),
         pc \in Begun /\ task[t].src[2] = "original" =>
           task[t].pc \in Begun /\ task[t].src \in DOMAIN fs'
  PROVE  /\ task'[t].pc = pc /\ RowFramed(t)
         /\ task'[t].src = task[t].src /\ task'[t].out = task[t].out /\ task'[t].bin = task[t].bin
         /\ task'[t].final = task[t].final /\ task'[t].delete = task[t].delete
<1>. DEFINE r == [task[t] EXCEPT !.pc = pc]
<1>1. /\ r \in TaskRow /\ r.src = task[t].src /\ r.pc = pc /\ r.out = task[t].out
      /\ r.bin = task[t].bin /\ r.final = task[t].final /\ r.delete = task[t].delete
  BY DEF FilesInv, FilesTyped, TaskRow
<1>2. task' = [task EXCEPT ![t] = r]
  BY DEF Go, FilesInv, FilesTyped
<1>. HIDE DEF r
<1>3. task'[t] = r /\ RowFramed(t)
  BY <1>1, <1>2, RowChange
<1>. QED BY <1>1, <1>3

\* What a task may touch.
LEMMA OwnNames ==
  ASSUME FilesInv, NEW t \in Task
  PROVE  /\ OutputDir(t) \in OwnDirs(t) /\ "dest" \in OwnDirs(t) /\ "bin" \in OwnDirs(t)
         /\ set.dir[t] \in OwnDirs(t) /\ set.dir[t] \in Folder /\ set \in Setups
         /\ \A p : p[1] \in OwnDirs(t) /\ (p[2] # "original" \/ p[1] = "bin") => Ours(t, p)
         /\ task[t].pc \in Begun => Ours(t, task[t].src)
         /\ task[t].src[1] = set.dir[t] /\ task[t].src[2] \in {"mkv", "mp4", "original"}
         /\ task[t].src[2] = "original" => task[t].src # InputOf(t)
<1>1. set \in Setups /\ set.dir[t] \in Folder /\ "bin" \notin Folder
  BY ConversionAssumption DEF ConversionAssumption, Setup, FilesInv, FilesTyped
<1>2. NamesOf(t)
  BY DEF FilesInv, NamesTyped
<1>3. task[t].src[1] = set.dir[t] /\ task[t].src[2] \in {"mkv", "mp4", "original"}
      /\ (task[t].src[2] = "original" => task[t].src # InputOf(t))
  BY <1>2, NameParts DEF NamesOf
<1>. QED BY <1>1, <1>3 DEF OutputDir, OwnDirs, Ours, SetAside

-----------------------------------------------------------------------------
(* The steps of a conversion.                                              *)

\* What the invariant says of the task that steps.
LEMMA StepFacts ==
  ASSUME FilesInv, NEW t \in Working
  PROVE  /\ t \in Task /\ task[t] \in TaskRow /\ NamesOf(t) /\ set \in Setups
         /\ set.kind[t] \in {"convert", "redo", "bypass"}
         /\ DOMAIN task = Task /\ (Safe(t) /\ task[t].pc \notin {"encode", "copying"} => NotWriting(t))
         /\ SetAside(t) => task[t].src \in DOMAIN fs
BY ConversionAssumption
   DEF ConversionAssumption, Setup, RunKind, FilesInv, FilesTyped, NamesTyped, NoStrayWriting, NotWriting,
       AsidesApart, Exists, Working

\* The settings stay, and with them the names of the inputs.
LEMMA SetStays ==
  ASSUME UNCHANGED set
  PROVE  /\ \A t : InputOf(t)' = InputOf(t) /\ OutputDir(t)' = OutputDir(t)
         /\ GoesBack' = GoesBack /\ Working' = Working
BY DEF InputOf, OutputDir, GoesBack, Working

\* A step that changes no file.
LEMMA QuietRow ==
  ASSUME OneInputEach, FilesInv, NEW t \in Working, RowFramed(t), task'[t].pc \notin {"encode", "copying"},
         task[t].pc \notin {"encode", "copying"},
         UNCHANGED <<set, fs>>, truncated \subseteq truncated', Harm(t),
         NamesOf(t)', Stage(t) => Stage(t)'
  PROVE  StepKept(t)
<1>1. t \in Task
  BY StepFacts
<1>4. Framed(t) /\ (NotWriting(t) => NotWriting(t)')
  BY <1>1, SameFrame
<1>5. Safe(t)' => Safe(t)
  BY <1>1, SafeBefore DEF Harm
<1>. QED BY <1>1, <1>4, <1>5, StepFacts, StepKeeps

\* A step that changes no file keeps the invariant if the new position says no more.
LEMMA QuietStep ==
  ASSUME OneInputEach, FilesInv, NEW t \in Working, NEW pc \in FilePc \ {"encode", "copying"}, Go(t, pc),
         task[t].pc \notin {"encode", "copying"}, pc \in Begun => task[t].pc \in Begun \cup {"copy"},
         UNCHANGED <<set, fs>>, truncated \subseteq truncated', Harm(t),
         NamesOf(t)', Stage(t) => Stage(t)'
  PROVE  StepKept(t)
<1>1. t \in Task /\ NamesOf(t)
  BY StepFacts
<1>2. pc \in Begun /\ task[t].src[2] = "original" =>
        task[t].pc \in Begun /\ task[t].src \in DOMAIN fs'
  BY <1>1, OwnNames, StepFacts DEF SetAside, NamesOf
<1>3. RowFramed(t) /\ task'[t].pc = pc
  BY <1>1, <1>2, GoChange
<1>. QED BY <1>3, QuietRow

\* What files keep when none changes.
LEMMA SameFiles ==
  ASSUME UNCHANGED <<set, fs>>, NEW t \in Task
  PROVE  (\A p : Good(p, t)' = Good(p, t)) /\ InPlace(t)' = InPlace(t)
BY SetStays DEF Good, Exists, InPlace

\* A task begins: with its input there, or it fails.
LEMMA BeginTaskKeeps ==
  ASSUME OneInputEach, FilesInv, NEW t \in Working, BeginTask(t), Harm(t)
  PROVE  StepKept(t)
<1>1. PICK pc \in {"copy", "names", "failed"} :
        /\ Go(t, pc) /\ task[t].pc = "queued" /\ UNCHANGED <<set, fs, truncated>>
        /\ pc = "copy" => Exists(InputOf(t)) /\ set.kind[t] = "bypass"
        /\ pc = "names" => Exists(InputOf(t)) /\ set.kind[t] # "bypass"
  BY DEF BeginTask, AtPc, history
<1>3. task[t] \in TaskRow /\ NamesOf(t) /\ set.kind[t] \in {"convert", "redo", "bypass"} /\ t \in Task
  BY StepFacts
<1>2. pc \in FilePc /\ pc \notin Begun
  BY DEF FilePc, Begun
<1>4. task'[t].pc = pc /\ task'[t].src = task[t].src /\ task'[t].delete = task[t].delete
  BY <1>1, <1>2, <1>3, GoChange
<1>5. NamesOf(t)'
  BY <1>1, <1>3, <1>4, SetStays DEF NamesOf, Ended, Begun
<1>6. Stage(t) => Stage(t)'
  BY <1>1, <1>3, <1>4, SetStays, SameFiles DEF Stage, Ended, Begun, InPlace
<1>. QED BY <1>1, <1>5, <1>6, QuietStep DEF FilePc, Begun

\* Where the output goes next is chosen.
LEMMA PlaceKeeps ==
  ASSUME OneInputEach, FilesInv, NEW t \in Working, Place(t), Harm(t)
  PROVE  StepKept(t)
<1>1. task[t] \in TaskRow /\ NamesOf(t) /\ t \in Task
  BY StepFacts
<1>2. PICK pc \in {"recycle", "restore", "replicate"} :
        /\ Go(t, pc) /\ task[t].pc = "placed" /\ UNCHANGED <<set, fs, truncated>>
        /\ pc = "recycle" => task[t].delete
        /\ pc = "restore" => GoesBack
        /\ pc = "replicate" => ~ GoesBack
  BY DEF Place, AtPc, RecyclesFirst, history
<1>3. pc \in FilePc /\ pc \in Begun /\ task[t].pc \in Begun
  BY <1>2 DEF FilePc, Begun
<1>4. SetAside(t) => task[t].src \in DOMAIN fs'
  BY <1>2, StepFacts
<1>5. /\ task'[t].pc = pc /\ task'[t].src = task[t].src /\ task'[t].delete = task[t].delete
      /\ task'[t].final = task[t].final
  BY <1>1, <1>2, <1>3, <1>4, GoChange DEF SetAside
<1>6. NamesOf(t)'
  BY <1>1, <1>2, <1>5, SetStays DEF NamesOf, Ended, Begun, FilePc
<1>7. Stage(t) => Stage(t)'
  BY <1>1, <1>2, <1>5, SetStays, SameFiles DEF Stage, Ended, Begun, FilePc
<1>. QED BY <1>2, <1>3, <1>6, <1>7, QuietStep

\* The original is left, recycled, or already was.
LEMMA CleanUpKeeps ==
  ASSUME OneInputEach, FilesInv, NEW t \in Working, CleanUp(t), Harm(t)
  PROVE  StepKept(t)
<1>1. task[t] \in TaskRow /\ NamesOf(t) /\ t \in Task
  BY StepFacts
<1>2. PICK pc \in {"done", "remove", "recycle"} :
        /\ Go(t, pc) /\ task[t].pc = "cleanup" /\ UNCHANGED <<set, fs, truncated>>
        /\ pc = "remove" => task[t].delete /\ GoesBack /\ task[t].final # task[t].src
        /\ pc = "recycle" => task[t].delete /\ ~ GoesBack
  BY DEF CleanUp, CleanUpNext, AtPc, history
<1>3. pc \in FilePc /\ task[t].pc \in Begun
  BY <1>2 DEF FilePc, Begun
<1>4. SetAside(t) => task[t].src \in DOMAIN fs'
  BY <1>2, StepFacts
<1>5. /\ task'[t].pc = pc /\ task'[t].src = task[t].src /\ task'[t].delete = task[t].delete
      /\ task'[t].final = task[t].final
  BY <1>1, <1>2, <1>3, <1>4, GoChange DEF SetAside
<1>6. NamesOf(t)'
  BY <1>1, <1>2, <1>5, SetStays DEF NamesOf, Ended, Begun, FilePc
<1>7. Stage(t) => Stage(t)'
  BY <1>1, <1>2, <1>5, SetStays, SameFiles DEF Stage, Ended, Begun, FilePc
<1>. QED BY <1>2, <1>3, <1>6, <1>7, QuietStep

\* A free name in the bin, or none is needed.
LEMMA NameInBinKeeps ==
  ASSUME OneInputEach, FilesInv, NEW t \in Working, NameInBin(t), Harm(t)
  PROVE  StepKept(t)
<1>. DEFINE names == [n \in Number |-> {BinName(t, n)}]
            b == BinName(t, FirstOf(Numbers(names, fs)))
            r == [task[t] EXCEPT !.pc = "binCopy", !.bin = b]
<1>1. task[t] \in TaskRow /\ NamesOf(t) /\ t \in Task /\ DOMAIN task = Task
  BY StepFacts
<1>2. task[t].pc = "recycle" /\ UNCHANGED <<set, fs, truncated>>
  BY DEF NameInBin, AtPc, history
<1>3. SetAside(t) => task[t].src \in DOMAIN fs'
  BY <1>2, StepFacts
<1>4. CASE task' = [task EXCEPT ![t] = r] /\ Numbers(names, fs) # {}
  <2>1. FirstOf(Numbers(names, fs)) \in Number
    BY <1>4, FirstFree
  <2>2. b \in Name /\ b[1] = "bin"
    BY <1>1, <2>1, OwnNames DEF BinName, Name
  <2>3. /\ r \in TaskRow /\ r.pc = "binCopy" /\ r.src = task[t].src /\ r.delete = task[t].delete
        /\ r.final = task[t].final /\ r.bin = b
    BY <1>1, <2>2 DEF TaskRow, FilePc
  <2>. HIDE DEF r, b
  <2>4. task'[t] = r /\ RowFramed(t)
    BY <1>1, <1>2, <1>3, <1>4, <2>3, RowChange DEF SetAside, Begun, FilePc
  <2>5. NamesOf(t)'
    BY <1>1, <1>2, <2>2, <2>3, <2>4, SetStays DEF NamesOf, Ended, Begun, FilePc
  <2>6. Stage(t) => Stage(t)'
    BY <1>1, <1>2, <2>3, <2>4, SetStays, SameFiles DEF Stage, Ended, Begun, FilePc
  <2>. QED BY <1>2, <2>3, <2>4, <2>5, <2>6, QuietRow
<1>5. CASE Go(t, IF GoesBack THEN "restore" ELSE "remove")
  <2>1. PICK pc \in {"restore", "remove"} : Go(t, pc) /\ pc = IF GoesBack THEN "restore" ELSE "remove"
    BY <1>5
  <2>2. pc \in FilePc /\ pc \in Begun /\ task[t].pc \in Begun
    BY <1>2 DEF FilePc, Begun
  <2>3. /\ task'[t].pc = pc /\ task'[t].src = task[t].src /\ task'[t].delete = task[t].delete
        /\ task'[t].final = task[t].final
    BY <1>1, <1>3, <2>1, <2>2, GoChange DEF SetAside
  <2>4. NamesOf(t)'
    BY <1>1, <1>2, <2>1, <2>3, SetStays DEF NamesOf, Ended, Begun, FilePc
  <2>5. Stage(t) => Stage(t)'
    BY <1>1, <1>2, <2>3, SetStays, SameFiles DEF Stage, Ended, Begun, FilePc
  <2>. QED BY <1>2, <2>1, <2>2, <2>4, <2>5, QuietStep
<1>. QED BY <1>1, <1>4, <1>5 DEF NameInBin, AtPc

\* A file is opened to be written over.
LEMMA OpenedFrame ==
  ASSUME FilesInv, NEW t \in Working, NEW p, Opened(t, p), task[t].pc \notin {"encode", "copying"},
         p[1] \in OwnDirs(t), Ours(t, p), Harm(t), UNCHANGED <<set, truncated>>
  PROVE  /\ Framed(t) /\ DOMAIN fs' = DOMAIN fs \cup {p}
         /\ \A x \in DOMAIN fs : x # p => fs'[x] = fs[x]
         /\ Safe(t)' => fs'[p] = Content(t, "writing")
<1>1. t \in Task
  BY StepFacts
<1>2. CASE Exists(p) /\ fs[p].state = "writing"
  <2>1. fs' = [fs EXCEPT ![p].state = "cut"] /\ p \in DOMAIN fs
    BY <1>2 DEF Opened, Exists
  <2>2. /\ DOMAIN fs' = DOMAIN fs /\ \A x \in DOMAIN fs : x # p => fs'[x] = fs[x]
        /\ fs'[p] = [fs[p] EXCEPT !.state = "cut"]
    BY <2>1
  <2>3. fs[p] \in FileContent /\ fs \in [DOMAIN fs -> FileContent]
    BY <2>1 DEF FilesInv, FilesTyped
  <2>4. fs'[p] = Content(fs[p].of, "cut") /\ fs'[p] \in FileContent /\ fs'[p].state = "cut"
    BY <2>2, <2>3 DEF FileContent, Content
  <2>5. Framed(t)
    <3>1. fs' \in [DOMAIN fs' -> FileContent]
      BY <2>1, <2>2, <2>3, <2>4
    <3>. QED BY <2>1, <2>2, <2>4, <3>1 DEF Framed, Stays
  <2>6. ASSUME Safe(t)' PROVE FALSE
    <3>1. Safe(t)
      BY <1>1, <2>6, SafeBefore DEF Harm
    <3>2. fs[p] # Content(t, "writing")
      BY <2>1, <3>1, StepFacts DEF NotWriting
    <3>3. fs[p].of # t
      BY <1>2, <2>3, <3>2 DEF Content, FileContent
    <3>4. SharedBy(t) = {t}
      BY <1>2, <2>1, <2>2, <2>4, <3>3 DEF SharedBy
    <3>. QED BY <2>6, <3>4 DEF Harm, Safe
  <2>. QED BY <2>1, <2>2, <2>5, <2>6
<1>3. CASE ~ (Exists(p) /\ fs[p].state = "writing")
  <2>1. fs' = With(p, Content(t, "writing"), fs)
    BY <1>3 DEF Opened
  <2>2. Content(t, "writing") \in FileContent
    BY <1>1 DEF Content, FileContent
  <2>. QED BY <1>1, <2>1, <2>2, WithFrame
<1>. QED BY <1>2, <1>3

\* The encoder begins to write under the working name.
LEMMA StartFfmpegKeeps ==
  ASSUME OneInputEach, FilesInv, NEW t \in Working, StartFfmpeg(t), Harm(t)
  PROVE  StepKept(t)
<1>. DEFINE p == task[t].out
<1>1. task[t] \in TaskRow /\ NamesOf(t) /\ t \in Task
  BY StepFacts
<1>2. task[t].pc = "start" /\ Go(t, "encode") /\ Opened(t, p) /\ UNCHANGED <<set, truncated>>
  BY DEF StartFfmpeg, AtPc, history
<1>3. p[1] = OutputDir(t) /\ p[2] \in {"sma", "mp4"} /\ p[1] \in OwnDirs(t) /\ Ours(t, p)
  BY <1>1, <1>2, OwnNames DEF NamesOf
<1>4. /\ Framed(t) /\ DOMAIN fs' = DOMAIN fs \cup {p}
      /\ \A x \in DOMAIN fs : x # p => fs'[x] = fs[x]
      /\ Safe(t)' => fs'[p] = Content(t, "writing")
  BY <1>2, <1>3, OpenedFrame
<1>5. "encode" \in FilePc /\ task[t].pc \in Begun
  BY <1>2 DEF FilePc, Begun
<1>6. /\ task'[t].pc = "encode" /\ RowFramed(t) /\ task'[t].out = p
      /\ task'[t].src = task[t].src /\ task'[t].final = task[t].final
  BY <1>1, <1>2, <1>4, <1>5, GoChange, StepFacts DEF SetAside
<1>7. NamesOf(t)'
  BY <1>1, <1>2, <1>6, SetStays DEF NamesOf, Ended, Begun, FilePc
<1>8. ASSUME Safe(t)', Stage(t) PROVE Stage(t)'
  <2>1. Good(task[t].src, t) /\ task[t].src # p /\ task[t].src # task[t].final
    BY <1>2, <1>8 DEF Stage
  <2>2. Good(task[t].src, t)'
    BY <1>4, <1>6, <2>1 DEF Good, Exists
  <2>. QED BY <1>4, <1>6, <1>8, <2>1, <2>2 DEF Stage, Ended, Begun, Exists
<1>. QED BY <1>2, <1>4, <1>6, <1>7, <1>8, StepKeeps

\* The encoder ends: the working file is whole.
LEMMA FinishFfmpegKeeps ==
  ASSUME OneInputEach, FilesInv, NEW t \in Working, FinishFfmpeg(t), Harm(t)
  PROVE  StepKept(t)
<1>1. task[t] \in TaskRow /\ NamesOf(t) /\ t \in Task
  BY StepFacts
<1>2. /\ task[t].pc = "encode" /\ Go(t, "rename") /\ UNCHANGED <<set, truncated>>
      /\ fs' = Settled(t, Result(t, task[t].src))
  BY DEF FinishFfmpeg, AtPc, history
<1>3. Result(t, task[t].src) \in {"original", "whole", "cut"}
      /\ (Good(task[t].src, t) => Result(t, task[t].src) = "whole")
  BY DEF Result, Good
<1>4. /\ Framed(t) /\ NotWriting(t)' /\ DOMAIN fs' = DOMAIN fs
      /\ \A p \in DOMAIN fs : fs'[p] = IF fs[p] = Content(t, "writing")
                                       THEN Content(t, Result(t, task[t].src)) ELSE fs[p]
  BY <1>1, <1>2, <1>3, SettledFrame
<1>5. "rename" \in FilePc /\ task[t].pc \in Begun
  BY <1>2 DEF FilePc, Begun
<1>6. /\ task'[t].pc = "rename" /\ RowFramed(t) /\ task'[t].out = task[t].out
      /\ task'[t].src = task[t].src /\ task'[t].final = task[t].final
  BY <1>1, <1>2, <1>4, <1>5, GoChange, StepFacts DEF SetAside
<1>7. NamesOf(t)'
  BY <1>1, <1>2, <1>6, SetStays DEF NamesOf, Ended, Begun, FilePc
<1>8. ASSUME Safe(t)', Stage(t) PROVE Stage(t)'
  <2>1. /\ Good(task[t].src, t) /\ task[t].src # task[t].out /\ task[t].src # task[t].final
        /\ task[t].out \in DOMAIN fs /\ fs[task[t].out] = Content(t, "writing")
    BY <1>2, <1>8 DEF Stage, Exists
  <2>2. Good(task[t].src, t)'
    BY <1>4, <1>6, <2>1 DEF Good, Exists, Content
  <2>3. fs'[task[t].out] = Content(t, "whole")
    BY <1>3, <1>4, <2>1
  <2>4. Good(task[t].out, t)'
    BY <1>4, <1>6, <2>1, <2>3 DEF Good, Exists, Content
  <2>. QED BY <1>6, <1>8, <2>1, <2>2, <2>4 DEF Stage, Ended, Begun, Exists
<1>. QED BY <1>2, <1>4, <1>6, <1>7, <1>8, StepKeeps

\* What an attempt that fails leaves.
LEMMA PartialGone ==
  ASSUME FilesInv, NEW t \in Working, task[t].pc = "encode"
  PROVE  /\ DOMAIN PartialRemoved(t) = DOMAIN fs \ {task[t].out}
         /\ PartialRemoved(t) \in [DOMAIN PartialRemoved(t) -> FileContent]
         /\ \A p \in DOMAIN fs : p # task[t].out =>
              PartialRemoved(t)[p] = IF fs[p] = Content(t, "writing") THEN Content(t, "cut") ELSE fs[p]
         /\ task[t].out[1] \in OwnDirs(t) /\ Ours(t, task[t].out) /\ task[t].out[2] \in {"sma", "mp4"}
<1>1. t \in Task /\ NamesOf(t)
  BY StepFacts
<1>2. task[t].out[1] \in OwnDirs(t) /\ Ours(t, task[t].out) /\ task[t].out[2] \in {"sma", "mp4"}
  BY <1>1, OwnNames DEF NamesOf
<1>3. /\ DOMAIN PartialRemoved(t) = DOMAIN fs \ {task[t].out}
      /\ PartialRemoved(t) = [p \in DOMAIN PartialRemoved(t) |-> PartialRemoved(t)[p]]
      /\ \A p \in DOMAIN fs : p # task[t].out =>
              PartialRemoved(t)[p] = IF fs[p] = Content(t, "writing") THEN Content(t, "cut") ELSE fs[p]
  BY DEF PartialRemoved, Without, Settled
<1>4. Content(t, "cut") \in FileContent
  BY <1>1 DEF Content, FileContent
<1>5. \A p \in DOMAIN PartialRemoved(t) : PartialRemoved(t)[p] \in FileContent
  BY <1>3, <1>4 DEF FilesInv, FilesTyped
<1>. QED BY <1>2, <1>3, <1>5

\* A partial output is removed, and the next tier tried.
LEMMA NextAttemptKeeps ==
  ASSUME OneInputEach, FilesInv, NEW t \in Working, NextAttempt(t), Harm(t)
  PROVE  StepKept(t)
<1>1. task[t] \in TaskRow /\ NamesOf(t) /\ t \in Task
  BY StepFacts
<1>2. /\ task[t].pc = "encode" /\ Go(t, "start") /\ UNCHANGED <<set, truncated>>
      /\ fs' = PartialRemoved(t)
  BY DEF NextAttempt, AtPc, history
<1>3. /\ fs' \in [DOMAIN fs' -> FileContent] /\ DOMAIN fs' = DOMAIN fs \ {task[t].out}
      /\ \A p \in DOMAIN fs : p # task[t].out =>
           fs'[p] = IF fs[p] = Content(t, "writing") THEN Content(t, "cut") ELSE fs[p]
      /\ Ours(t, task[t].out) /\ task[t].out[2] \in {"sma", "mp4"}
  BY <1>2, PartialGone
<1>4. Framed(t) /\ NotWriting(t)'
  <2>1. \A p \in DOMAIN fs : Ours(t, p) \/ Stays(p)
    BY <1>3 DEF Stays, Content
  <2>2. \A p \in DOMAIN fs' : fs'[p] # Content(t, "writing") /\ (fs'[p].state = "writing" => fs'[p] = fs[p])
    BY <1>3 DEF Content
  <2>. QED BY <1>3, <2>1, <2>2 DEF Framed, NotWriting
<1>5. "start" \in FilePc /\ task[t].pc \in Begun
  BY <1>2 DEF FilePc, Begun
<1>6. /\ task'[t].pc = "start" /\ RowFramed(t) /\ task'[t].out = task[t].out
      /\ task'[t].src = task[t].src /\ task'[t].final = task[t].final
  BY <1>1, <1>2, <1>3, <1>5, GoChange, StepFacts DEF SetAside
<1>7. NamesOf(t)'
  BY <1>1, <1>2, <1>6, SetStays DEF NamesOf, Ended, Begun, FilePc
<1>8. ASSUME Safe(t)', Stage(t) PROVE Stage(t)'
  <2>1. Good(task[t].src, t) /\ task[t].src # task[t].out /\ task[t].src # task[t].final
    BY <1>2, <1>8 DEF Stage, Exists
  <2>2. Good(task[t].src, t)'
    BY <1>3, <1>6, <2>1 DEF Good, Exists, Content
  <2>. QED BY <1>6, <1>8, <2>1, <2>2 DEF Stage, Ended, Begun, Exists
<1>. QED BY <1>2, <1>4, <1>6, <1>7, <1>8, StepKeeps

\* Or there is none, and the input takes its name back.
LEMMA ConversionFailsKeeps ==
  ASSUME OneInputEach, FilesInv, NEW t \in Working, ConversionFails(t), Harm(t)
  PROVE  StepKept(t)
<1>. DEFINE src == task[t].src  files == PartialRemoved(t)
<1>1. task[t] \in TaskRow /\ NamesOf(t) /\ t \in Task
  BY StepFacts
<1>2. /\ task[t].pc = "encode" /\ Go(t, "failed") /\ UNCHANGED <<set, truncated>>
      /\ fs' = Restored(t, files)
  BY DEF ConversionFails, AtPc, history
<1>3. /\ files \in [DOMAIN files -> FileContent] /\ DOMAIN files = DOMAIN fs \ {task[t].out}
      /\ \A p \in DOMAIN fs : p # task[t].out =>
           files[p] = IF fs[p] = Content(t, "writing") THEN Content(t, "cut") ELSE fs[p]
      /\ Ours(t, task[t].out) /\ task[t].out[2] \in {"sma", "mp4"}
  BY <1>2, PartialGone
<1>4. \/ src # InputOf(t) /\ src \in DOMAIN files /\ fs' = Moved(src, InputOf(t), files)
      \/ (src = InputOf(t) \/ src \notin DOMAIN files) /\ fs' = files
  BY <1>2 DEF Restored
<1>. HIDE DEF files
<1>5. /\ fs' \in [DOMAIN fs' -> FileContent]
      /\ \A p \in DOMAIN fs' : p \in DOMAIN files \cup {InputOf(t)}
      /\ \A p \in DOMAIN files : p # src /\ p # InputOf(t) => p \in DOMAIN fs' /\ fs'[p] = files[p]
      /\ \A p \in DOMAIN fs' : \E q \in DOMAIN files : fs'[p] = files[q]
      /\ src \in DOMAIN files => InputOf(t) \in DOMAIN fs' /\ fs'[InputOf(t)] = files[src]
  <2>1. CASE src # InputOf(t) /\ src \in DOMAIN files /\ fs' = Moved(src, InputOf(t), files)
    <3>1. /\ DOMAIN fs' = (DOMAIN files \ {src}) \cup {InputOf(t)} /\ fs'[InputOf(t)] = files[src]
          /\ \A x \in DOMAIN files : x # src /\ x # InputOf(t) => fs'[x] = files[x]
          /\ fs' = [x \in DOMAIN fs' |-> fs'[x]]
      BY <2>1 DEF Moved, With, Without
    <3>2. \A p \in DOMAIN fs' : \E q \in DOMAIN files : fs'[p] = files[q]
      BY <2>1, <3>1
    <3>3. fs' \in [DOMAIN fs' -> FileContent]
      BY <1>3, <3>1, <3>2
    <3>. QED BY <3>1, <3>2, <3>3
  <2>2. CASE (src = InputOf(t) \/ src \notin DOMAIN files) /\ fs' = files
    BY <2>2, <1>3
  <2>. QED BY <1>4, <2>1, <2>2
<1>6. /\ Ours(t, src) /\ Ours(t, InputOf(t)) /\ InputOf(t)[1] \in OwnDirs(t)
  BY <1>1, <1>2, OwnNames, NameParts DEF Begun, FilePc
<1>7. Framed(t) /\ NotWriting(t)'
  <2>1. \A p \in DOMAIN fs : Ours(t, p) \/ Stays(p)
    BY <1>3, <1>5, <1>6 DEF Stays, Content
  <2>2. \A p \in DOMAIN files : files[p] # Content(t, "writing")
                             /\ (files[p].state = "writing" => files[p] = fs[p])
    BY <1>3 DEF Content
  <2>3. \A p \in DOMAIN fs' : fs'[p] # Content(t, "writing")
                           /\ (fs'[p].state = "writing" => \E q \in DOMAIN fs : fs[q] = fs'[p])
    BY <1>3, <1>5, <2>2
  <2>. QED BY <1>3, <1>5, <1>6, <2>1, <2>3 DEF Framed, NotWriting
<1>8. "failed" \in FilePc \ Begun
  BY DEF FilePc, Begun
<1>9. /\ task'[t].pc = "failed" /\ RowFramed(t) /\ task'[t].src = src
  BY <1>1, <1>2, <1>8, GoChange
<1>10. NamesOf(t)'
  BY <1>1, <1>2, <1>9, SetStays DEF NamesOf, Ended, Begun, FilePc
<1>11. ASSUME Safe(t)', Stage(t) PROVE Stage(t)'
  <2>1. Good(src, t) /\ src # task[t].out
    BY <1>2, <1>11 DEF Stage
  <2>2. src \in DOMAIN files /\ files[src] = fs[src]
    BY <1>3, <2>1 DEF Good, Exists, Content
  <2>3. Good(InputOf(t), t)'
    BY <1>2, <1>5, <2>1, <2>2, SetStays DEF Good, Exists
  <2>. QED BY <1>9, <2>3, <1>2, SetStays DEF Stage, Ended, Begun
<1>. QED BY <1>2, <1>7, <1>9, <1>10, <1>11, StepKeeps

\* The copy of a bypass begins, or its input is the output.
LEMMA BypassCopyKeeps ==
  ASSUME OneInputEach, FilesInv, NEW t \in Working, BypassCopy(t), Harm(t)
  PROVE  StepKept(t)
<1>1. task[t] \in TaskRow /\ NamesOf(t) /\ t \in Task /\ set \in Setups /\ DOMAIN task = Task
  BY StepFacts
<1>2. task[t].pc = "copy" /\ UNCHANGED <<set, truncated>> /\ set.kind[t] = "bypass"
      /\ task[t].src = InputOf(t) /\ ~ task[t].delete
  BY <1>1 DEF BypassCopy, AtPc, history, NamesOf
<1>3. CASE set.outDir
  <2>. DEFINE p == FinalName(t, 0)
              r == [task[t] EXCEPT !.pc = "copying", !.final = p]
  <2>1. Opened(t, p) /\ task' = [task EXCEPT ![t] = r]
    BY <1>3 DEF BypassCopy
  <2>2. p[1] = "out" /\ p[2] = "mp4" /\ OutputDir(t) = "out" /\ p \in Name
    BY <1>3, ConversionAssumption DEF FinalName, OutputDir, Name, Number, ConversionAssumption
  <2>3. p[1] \in OwnDirs(t) /\ Ours(t, p)
    BY <1>1, <2>2, OwnNames
  <2>. HIDE DEF p
  <2>4. /\ Framed(t) /\ DOMAIN fs' = DOMAIN fs \cup {p}
        /\ \A x \in DOMAIN fs : x # p => fs'[x] = fs[x]
        /\ Safe(t)' => fs'[p] = Content(t, "writing")
    BY <1>2, <2>1, <2>3, OpenedFrame
  <2>5. /\ r \in TaskRow /\ r.pc = "copying" /\ r.src = task[t].src /\ r.final = p
    BY <1>1, <2>2 DEF TaskRow, FilePc
  <2>. HIDE DEF r
  <2>6. task'[t] = r /\ RowFramed(t)
    BY <1>1, <2>1, <2>5, RowChange DEF Begun
  <2>7. NamesOf(t)'
    BY <1>1, <1>2, <1>3, <2>2, <2>5, <2>6, SetStays DEF NamesOf, Ended, Begun, FilePc
  <2>8. ASSUME Safe(t)', Stage(t) PROVE Stage(t)'
    <3>1. Good(task[t].src, t)
      BY <1>2, <2>8 DEF Stage
    <3>2. task[t].src # p
      BY <1>1, <2>2, OwnNames, NoneLeft
    <3>3. Good(task[t].src, t)'
      BY <2>4, <2>5, <2>6, <3>1, <3>2 DEF Good, Exists
    <3>. QED BY <2>4, <2>5, <2>6, <2>8, <3>3 DEF Stage, Ended, Begun, Exists
  <2>. QED BY <1>2, <2>4, <2>5, <2>6, <2>7, <2>8, StepKeeps
<1>4. CASE ~ set.outDir
  <2>. DEFINE r == [task[t] EXCEPT !.pc = "faststart", !.final = InputOf(t)]
  <2>1. task' = [task EXCEPT ![t] = r] /\ UNCHANGED fs
    BY <1>4 DEF BypassCopy
  <2>2. InputOf(t) \in Name /\ InputOf(t)[1] = OutputDir(t) /\ InputOf(t)[2] = "mp4" /\ OutputDir(t) = set.dir[t]
    BY <1>1, <1>2, <1>4, RowOf, NameParts DEF OutputDir
  <2>3. /\ r \in TaskRow /\ r.pc = "faststart" /\ r.src = InputOf(t) /\ r.final = InputOf(t) /\ ~ r.delete
    BY <1>1, <1>2, <2>2 DEF TaskRow, FilePc
  <2>. HIDE DEF r
  <2>4. task'[t] = r /\ RowFramed(t)
    BY <1>1, <1>2, <2>1, <2>2, <2>3, RowChange
  <2>5. NamesOf(t)'
    BY <1>1, <1>2, <1>4, <2>2, <2>3, <2>4, SetStays DEF NamesOf, Ended, Begun, FilePc
  <2>6. ASSUME Stage(t) PROVE Stage(t)'
    <3>1. Good(InputOf(t), t)
      BY <1>2, <2>6 DEF Stage
    <3>2. InPlace(t)
      BY <1>2, <1>4, <2>2, <3>1 DEF InPlace, Good, Exists
    <3>3. Good(InputOf(t), t)' /\ InPlace(t)' /\ InputOf(t)' = InputOf(t)
      BY <1>1, <1>2, <2>1, <3>1, <3>2, SameFiles, SetStays
    <3>. QED BY <2>2, <2>3, <2>4, <3>3 DEF Stage, Ended, Begun
  <2>. QED BY <1>2, <2>1, <2>3, <2>4, <2>5, <2>6, QuietRow
<1>. QED BY <1>3, <1>4

\* The copy ends, whole or cut short.
LEMMA EndCopyKeeps ==
  ASSUME OneInputEach, FilesInv, NEW t \in Working, EndCopy(t), Harm(t)
  PROVE  StepKept(t)
<1>. DEFINE s == IF Exists(InputOf(t)) /\ fs[InputOf(t)].of = t THEN fs[InputOf(t)].state ELSE "cut"
            r == [task[t] EXCEPT !.pc = "faststart", !.delete = set.delete]
<1>1. task[t] \in TaskRow /\ NamesOf(t) /\ t \in Task /\ set \in Setups /\ DOMAIN task = Task
  BY StepFacts
<1>2. task[t].pc = "copying" /\ UNCHANGED set /\ set.kind[t] = "bypass" /\ set.outDir
      /\ task[t].src = InputOf(t) /\ task[t].final[1] = "out" /\ task[t].final[2] = "mp4"
      /\ OutputDir(t) = "out" /\ set.delete \in BOOLEAN
  BY <1>1, ConversionAssumption
     DEF EndCopy, AtPc, NamesOf, OutputDir, ConversionAssumption, Setup
<1>3. InputOf(t)[2] # "original" /\ InputOf(t) # task[t].final
  BY <1>1, <1>2, OwnNames, NoneLeft, NameParts
<1>4. CASE fs' = Settled(t, s) /\ task' = [task EXCEPT ![t] = r] /\ UNCHANGED truncated
  <2>1. s \in {"original", "whole", "writing", "cut"}
    BY DEF FilesInv, FilesTyped, FileContent, Exists
  <2>2. Safe(t)' => Stage(t)
    BY <1>1, <1>2, <1>4, SafeBefore DEF Harm, FilesInv, MediaKnown, Aside
  <2>3. Stage(t) => /\ Good(InputOf(t), t) /\ s \in {"original", "whole"}
                    /\ task[t].final \in DOMAIN fs /\ fs[task[t].final] = Content(t, "writing")
    BY <1>2 DEF Stage, Good, Exists
  <2>. HIDE DEF s
  <2>4. /\ Framed(t) /\ (s # "writing" => NotWriting(t)') /\ DOMAIN fs' = DOMAIN fs
        /\ \A p \in DOMAIN fs : fs'[p] = IF fs[p] = Content(t, "writing") THEN Content(t, s) ELSE fs[p]
    BY <1>1, <1>4, <2>1, SettledFrame
  <2>5. /\ r \in TaskRow /\ r.pc = "faststart" /\ r.src = InputOf(t) /\ r.final = task[t].final
        /\ r.delete = set.delete
    BY <1>1, <1>2 DEF TaskRow, FilePc
  <2>. HIDE DEF r
  <2>6. task'[t] = r /\ RowFramed(t)
    BY <1>1, <1>2, <1>3, <1>4, <2>5, RowChange
  <2>7. NamesOf(t)'
    BY <1>1, <1>2, <2>5, <2>6, SetStays DEF NamesOf, Ended, Begun, FilePc
  <2>8. ASSUME Safe(t)' PROVE Stage(t)'
    <3>1. Good(InputOf(t), t) /\ s \in {"original", "whole"}
          /\ task[t].final \in DOMAIN fs /\ fs[task[t].final] = Content(t, "writing")
      BY <2>2, <2>3, <2>8
    <3>2. task'[t].src = InputOf(t) /\ task'[t].final = task[t].final /\ task'[t].pc = "faststart"
      BY <2>5, <2>6
    <3>3. Good(task[t].src, t)'
      BY <2>4, <3>1, <3>2 DEF Good, Exists, Content
    <3>4. fs'[task[t].final] = Content(t, s)
      BY <2>4, <3>1
    <3>5. Good(task[t].final, t)'
      BY <2>4, <3>1, <3>2, <3>4 DEF Good, Exists, Content
    <3>. QED BY <1>2, <1>3, <3>2, <3>3, <3>5 DEF Stage, Ended, Begun
  <2>9. Safe(t)' => NotWriting(t)'
    BY <2>2, <2>3, <2>4
  <2>. QED BY <1>2, <1>4, <2>4, <2>6, <2>7, <2>8, <2>9, StepKeeps
<1>5. CASE fs' = Settled(t, "cut") /\ truncated' = truncated \cup {t} /\ Go(t, "faststart")
  <2>1. Framed(t) /\ NotWriting(t)'
    BY <1>1, <1>5, SettledFrame
  <2>2. "faststart" \in FilePc
    BY DEF FilePc
  <2>3. /\ task'[t].pc = "faststart" /\ RowFramed(t) /\ task'[t].src = task[t].src
        /\ task'[t].final = task[t].final /\ task'[t].delete = task[t].delete
    BY <1>1, <1>2, <1>3, <1>5, <2>2, GoChange
  <2>4. NamesOf(t)'
    BY <1>1, <1>2, <2>3, SetStays DEF NamesOf, Ended, Begun, FilePc
  <2>5. ~ Safe(t)'
    BY <1>5 DEF Safe
  <2>. QED BY <1>2, <1>5, <2>1, <2>3, <2>4, <2>5, StepKeeps
<1>. QED BY <1>4, <1>5 DEF EndCopy

\* The output gets its final name.
LEMMA RenameOutputKeeps ==
  ASSUME OneInputEach, FilesInv, NEW t \in Working, RenameOutput(t), Harm(t)
  PROVE  StepKept(t)
<1>. DEFINE p == task[t].out
            q == PlacedAt(t)
            r(x) == [task[t] EXCEPT !.pc = "faststart", !.final = x, !.delete = set.delete]
<1>1. task[t] \in TaskRow /\ NamesOf(t) /\ t \in Task /\ set \in Setups /\ DOMAIN task = Task
      /\ (SetAside(t) => task[t].src \in DOMAIN fs)
  BY StepFacts
<1>2. task[t].pc = "rename" /\ UNCHANGED <<set, truncated>> /\ set.delete \in BOOLEAN /\ task[t].pc \in Begun
  BY <1>1, ConversionAssumption
     DEF RenameOutput, AtPc, history, ConversionAssumption, Setup, Begun, FilePc
<1>3. /\ p[1] = OutputDir(t) /\ p[2] \in {"sma", "mp4"} /\ OutputDir(t) \in {set.dir[t], "out"}
      /\ task[t].final[1] = OutputDir(t) /\ task[t].final[2] = "mp4" /\ p \in Name /\ task[t].final \in Name
  BY <1>1, <1>2 DEF NamesOf, TaskRow, OutputDir
<1>4. \A x \in Name : /\ r(x) \in TaskRow /\ r(x).pc = "faststart" /\ r(x).src = task[t].src
                      /\ r(x).final = x /\ r(x).delete = set.delete
  BY <1>1, <1>2 DEF TaskRow, FilePc
<1>. HIDE DEF r
<1>5. ASSUME NEW x \in Name, x[1] = OutputDir(t), x[2] \in {"sma", "mp4"}, task' = [task EXCEPT ![t] = r(x)],
             task[t].src \in DOMAIN fs => task[t].src \in DOMAIN fs' \/ task[t].src[2] # "original"
      PROVE  task'[t] = r(x) /\ RowFramed(t) /\ NamesOf(t)'
  <2>1. task'[t] = r(x) /\ RowFramed(t)
    BY <1>1, <1>2, <1>4, <1>5, RowChange DEF SetAside
  <2>. QED BY <1>1, <1>2, <1>3, <1>4, <1>5, <2>1, SetStays DEF NamesOf, Ended, Begun, FilePc
<1>6. CASE Exists(p)
  <2>1. fs' = Moved(p, q, fs) /\ task' = [task EXCEPT ![t] = r(q)] /\ FreeFinals(t) # {} /\ p \in DOMAIN fs
    BY <1>6 DEF RenameOutput, Exists, r
  <2>2. q \in Name /\ q[1] = OutputDir(t) /\ q[2] = "mp4" /\ (q = task[t].final \/ q \notin DOMAIN fs)
    <3>1. CASE q = task[t].final
      BY <1>3, <3>1
    <3>2. CASE q = FinalName(t, FirstOf(FreeFinals(t)))
      <4>. DEFINE names == [n \in Number |-> {FinalName(t, n)}]
                  k == FirstOf(Numbers(names, fs))
      <4>1. k \in Number /\ names[k] \cap DOMAIN fs = {}
        BY <2>1, FirstFree DEF FreeFinals
      <4>2. q = FinalName(t, k)
        BY <3>2 DEF FreeFinals
      <4>. HIDE DEF k
      <4>3. FinalName(t, k) \notin DOMAIN fs
        BY <4>1
      <4>4. OutputDir(t) \in Folder \cup {"out", "dest", "bin", "none"}
        BY <1>1, <1>3, OwnNames
      <4>. QED BY <4>1, <4>2, <4>3, <4>4, NameParts DEF FinalName, Name
    <3>. QED BY <3>1, <3>2 DEF PlacedAt
  <2>. HIDE DEF q
  <2>3. Ours(t, p) /\ Ours(t, q) /\ q[1] \in OwnDirs(t)
    BY <1>1, <1>3, <2>2, OwnNames
  <2>4. /\ Framed(t) /\ (NotWriting(t) => NotWriting(t)') /\ DOMAIN fs' = (DOMAIN fs \ {p}) \cup {q}
        /\ fs'[q] = fs[p] /\ \A x \in DOMAIN fs : x # p /\ x # q => fs'[x] = fs[x]
    BY <1>1, <2>1, <2>3, MovedFrame
  <2>5. task'[t] = r(q) /\ RowFramed(t) /\ NamesOf(t)'
    BY <1>3, <1>5, <2>1, <2>2, <2>4
  <2>6. ASSUME Safe(t)', Stage(t) PROVE Stage(t)'
    <3>1. Good(p, t) /\ Good(task[t].src, t) /\ task[t].src # p /\ task[t].src # task[t].final
      BY <1>2, <2>6 DEF Stage
    <3>2. task[t].src # q
      BY <2>2, <3>1 DEF Good, Exists
    <3>4. task'[t].pc = "faststart" /\ task'[t].final = q /\ task'[t].src = task[t].src
      BY <1>4, <2>2, <2>5
    <3>3. Good(task[t].final, t)' /\ Good(task[t].src, t)'
      BY <2>4, <3>1, <3>2, <3>4 DEF Good, Exists
    <3>. QED BY <2>2, <3>2, <3>3, <3>4 DEF Stage, Ended, Begun
  <2>7. Safe(t)' => NotWriting(t)'
    BY <1>1, <1>2, <2>4, SafeBefore, StepFacts DEF Harm
  <2>. QED BY <1>2, <2>4, <2>5, <2>6, <2>7, StepKeeps
<1>7. CASE ~ Exists(p)
  <2>1. UNCHANGED fs /\ task' = [task EXCEPT ![t] = r(p)]
    BY <1>7 DEF RenameOutput, r
  <2>2. task'[t] = r(p) /\ RowFramed(t) /\ NamesOf(t)'
    BY <1>3, <1>5, <2>1
  <2>3. ~ Stage(t)
    BY <1>2, <1>7 DEF Stage, Good
  <2>4. task'[t].pc = "faststart"
    BY <1>3, <1>4, <2>2
  <2>. QED BY <1>2, <2>1, <2>2, <2>3, <2>4, QuietRow
<1>. QED BY <1>6, <1>7

\* The output is relocated under another extension.
LEMMA FastStartKeeps ==
  ASSUME OneInputEach, FilesInv, NEW t \in Working, FastStart(t), Harm(t)
  PROVE  StepKept(t)
<1>. DEFINE p == task[t].final  src == task[t].src
<1>1. task[t] \in TaskRow /\ NamesOf(t) /\ t \in Task /\ set \in Setups /\ DOMAIN task = Task
      /\ (SetAside(t) => src \in DOMAIN fs)
  BY StepFacts
<1>2. task[t].pc = "faststart" /\ UNCHANGED <<set, truncated>> /\ task[t].pc \in Begun
      /\ {"swap", "placed"} \subseteq FilePc
  BY DEF FastStart, AtPc, history, Begun, FilePc
<1>3. p[1] = OutputDir(t) /\ p[2] \in {"sma", "mp4"} /\ src[2] \in {"mkv", "mp4", "original"}
      /\ p[1] \in OwnDirs(t)
  BY <1>1, <1>2, OwnNames DEF NamesOf, Ended
<1>4. CASE Exists(p) /\ Go(t, "swap")
           /\ fs' = LET c == fs[p] IN
                    With(RelocatedName(t),
                         IF c.state = "writing" THEN [c EXCEPT !.state = "cut"] ELSE c, Without(p, fs))
  <2>. DEFINE q == RelocatedName(t)
              c == IF fs[p].state = "writing" THEN [fs[p] EXCEPT !.state = "cut"] ELSE fs[p]
  <2>1. q[1] = OutputDir(t) /\ q[2] = "QTFS" /\ q # p /\ q # src
    BY <1>1, <1>3, NameParts
  <2>. HIDE DEF q
  <2>2. c \in FileContent /\ c.of = fs[p].of /\ (fs[p].state # "writing" => c = fs[p]) /\ c.state # "writing"
    BY <1>4 DEF FilesInv, FilesTyped, FileContent, Exists
  <2>3. fs' = With(q, c, Without(p, fs))
    BY <1>4 DEF q
  <2>. HIDE DEF c
  <2>4. /\ DOMAIN fs' = (DOMAIN fs \ {p}) \cup {q} /\ fs'[q] = c
        /\ fs' = [x \in DOMAIN fs' |-> fs'[x]]
        /\ \A x \in DOMAIN fs : x # p /\ x # q => fs'[x] = fs[x]
    BY <2>3 DEF With, Without
  <2>5. Ours(t, p) /\ Ours(t, q) /\ q[1] \in OwnDirs(t)
    BY <1>1, <1>3, <2>1, OwnNames
  <2>6. Framed(t)
    <3>1. fs' \in [DOMAIN fs' -> FileContent]
      BY <2>2, <2>4 DEF FilesInv, FilesTyped
    <3>2. \A x \in DOMAIN fs : Ours(t, x) \/ Stays(x)
      BY <2>4, <2>5 DEF Stays
    <3>. QED BY <2>2, <2>4, <2>5, <3>1, <3>2 DEF Framed
  <2>7. NotWriting(t) => NotWriting(t)'
    BY <2>2, <2>4 DEF NotWriting, Content
  <2>8. src \in DOMAIN fs => src \in DOMAIN fs' \/ src[2] # "original"
    BY <1>3, <2>4
  <2>9. /\ task'[t].pc = "swap" /\ RowFramed(t) /\ task'[t].src = src
        /\ task'[t].final = p /\ task'[t].delete = task[t].delete
    BY <1>1, <1>2, <1>4, <2>8, GoChange DEF SetAside
  <2>10. NamesOf(t)'
    BY <1>1, <1>2, <2>9, SetStays DEF NamesOf, Ended, Begun, FilePc
  <2>11. ASSUME Safe(t)', Stage(t) PROVE Stage(t)'
    <3>1. Good(p, t) /\ p[2] = "mp4"
          /\ ((InPlace(t) /\ ~ task[t].delete) \/ (Good(src, t) /\ src # p))
      BY <1>2, <2>11 DEF Stage, Ended, Begun, FilePc
    <3>2. Good(RelocatedName(t), t)'
      <4>1. RelocatedName(t)' = q
        BY <2>9 DEF RelocatedName, q
      <4>2. c = fs[p]
        BY <2>2, <3>1 DEF Good
      <4>. QED BY <2>4, <3>1, <4>1, <4>2 DEF Good, Exists
    <3>3. Good(src, t) /\ src # p => Good(task[t].src, t)'
      BY <2>1, <2>4, <2>9 DEF Good, Exists
    <3>4. InPlace(t) => InPlace(t)'
      <4>. SUFFICES ASSUME InPlace(t) PROVE InPlace(t)'
        OBVIOUS
      <4>1. InputOf(t)' = InputOf(t) /\ InputOf(t)[2] # "QTFS"
        BY <1>1, <1>2, SetStays, NameParts
      <4>2. Exists(InputOf(t))' => Good(InputOf(t), t)'
        BY <2>1, <2>4, <4>1 DEF InPlace, Good, Exists
      <4>3. q \in DOMAIN fs' /\ fs'[q].of = t /\ fs'[q].state \in {"original", "whole"} /\ q[2] # "sma"
        BY <2>1, <2>2, <2>4, <3>1 DEF Good
      <4>. QED BY <1>2, <4>2, <4>3 DEF InPlace, Good, Exists
    <3>. QED BY <2>9, <3>1, <3>2, <3>3, <3>4 DEF Stage, Ended, Begun
  <2>. QED BY <1>1, <1>2, <2>6, <2>7, <2>9, <2>10, <2>11, SafeBefore, StepFacts, StepKeeps DEF Harm
<1>5. CASE Go(t, "placed") /\ UNCHANGED fs
  <2>1. /\ task'[t].pc = "placed" /\ RowFramed(t) /\ task'[t].src = src
        /\ task'[t].final = p /\ task'[t].delete = task[t].delete
    BY <1>1, <1>2, <1>5, GoChange DEF SetAside
  <2>2. NamesOf(t)'
    BY <1>1, <1>2, <2>1, SetStays DEF NamesOf, Ended, Begun, FilePc
  <2>3. Stage(t) => Stage(t)'
    BY <1>1, <1>2, <1>5, <2>1, SetStays, SameFiles DEF Stage, Ended, Begun, FilePc
  <2>. QED BY <1>2, <1>5, <2>1, <2>2, <2>3, QuietRow
<1>. QED BY <1>4, <1>5 DEF FastStart

\* The relocated output takes its name back.
LEMMA SwapInKeeps ==
  ASSUME OneInputEach, FilesInv, NEW t \in Working, SwapIn(t), Harm(t)
  PROVE  StepKept(t)
<1>. DEFINE p == RelocatedName(t)  q == task[t].final  src == task[t].src
<1>1. task[t] \in TaskRow /\ NamesOf(t) /\ t \in Task /\ set \in Setups /\ DOMAIN task = Task
      /\ (SetAside(t) => src \in DOMAIN fs)
  BY StepFacts
<1>2. task[t].pc = "swap" /\ Go(t, "placed") /\ UNCHANGED <<set, truncated>> /\ task[t].pc \in Begun
      /\ "placed" \in FilePc
  BY DEF SwapIn, AtPc, history, Begun, FilePc
<1>3. /\ q[1] = OutputDir(t) /\ q[2] \in {"sma", "mp4"} /\ src[2] \in {"mkv", "mp4", "original"}
      /\ p[1] = OutputDir(t) /\ p[2] = "QTFS" /\ p[1] \in OwnDirs(t)
  BY <1>1, <1>2, OwnNames, NameParts DEF NamesOf, Ended
<1>. HIDE DEF p
<1>4. CASE Exists(p)
  <2>1. fs' = Moved(p, q, fs) /\ p \in DOMAIN fs
    BY <1>4 DEF SwapIn, Exists, p
  <2>2. Ours(t, p) /\ Ours(t, q) /\ q[1] \in OwnDirs(t)
    BY <1>1, <1>3, OwnNames
  <2>3. /\ Framed(t) /\ (NotWriting(t) => NotWriting(t)') /\ DOMAIN fs' = (DOMAIN fs \ {p}) \cup {q}
        /\ fs'[q] = fs[p] /\ \A x \in DOMAIN fs : x # p /\ x # q => fs'[x] = fs[x]
    BY <1>1, <2>1, <2>2, MovedFrame
  <2>4. src \in DOMAIN fs => src \in DOMAIN fs' \/ src[2] # "original"
    BY <1>3, <2>3
  <2>5. /\ task'[t].pc = "placed" /\ RowFramed(t) /\ task'[t].src = src
        /\ task'[t].final = q /\ task'[t].delete = task[t].delete
    BY <1>1, <1>2, <2>4, GoChange DEF SetAside
  <2>6. NamesOf(t)'
    BY <1>1, <1>2, <2>5, SetStays DEF NamesOf, Ended, Begun, FilePc
  <2>7. ASSUME Safe(t)', Stage(t) PROVE Stage(t)'
    <3>1. Good(p, t) /\ q[2] = "mp4"
          /\ ((InPlace(t) /\ ~ task[t].delete) \/ (Good(src, t) /\ src # q))
      BY <1>2, <2>7 DEF Stage, Ended, Begun, FilePc, p
    <3>2. Good(task[t].final, t)'
      BY <2>3, <2>5, <3>1 DEF Good, Exists
    <3>3. Good(src, t) /\ src # q => Good(task[t].src, t)'
      BY <1>3, <2>3, <2>5 DEF Good, Exists
    <3>4. InPlace(t) => InPlace(t)'
      <4>. SUFFICES ASSUME InPlace(t) PROVE InPlace(t)'
        OBVIOUS
      <4>1. InputOf(t)' = InputOf(t) /\ InputOf(t)[2] # "QTFS"
        BY <1>1, <1>2, SetStays, NameParts
      <4>2. Exists(InputOf(t))' => Good(InputOf(t), t)'
        BY <1>3, <2>3, <3>1, <4>1 DEF InPlace, Good, Exists
      <4>3. q \in DOMAIN fs' /\ fs'[q].of = t /\ fs'[q].state \in {"original", "whole"} /\ q[2] # "sma"
        BY <2>3, <3>1 DEF Good
      <4>. QED BY <1>2, <4>2, <4>3 DEF InPlace, Good, Exists
    <3>. QED BY <2>5, <3>1, <3>2, <3>3, <3>4 DEF Stage, Ended, Begun
  <2>. QED BY <1>1, <1>2, <2>3, <2>5, <2>6, <2>7, SafeBefore, StepFacts, StepKeeps DEF Harm
<1>5. CASE ~ Exists(p)
  <2>1. UNCHANGED fs
    BY <1>5 DEF SwapIn, p
  <2>2. /\ task'[t].pc = "placed" /\ RowFramed(t) /\ task'[t].src = src
        /\ task'[t].final = q /\ task'[t].delete = task[t].delete
    BY <1>1, <1>2, <2>1, GoChange DEF SetAside
  <2>3. NamesOf(t)'
    BY <1>1, <1>2, <2>2, SetStays DEF NamesOf, Ended, Begun, FilePc
  <2>4. ~ Stage(t)
    BY <1>2, <1>5 DEF Stage, Good, p
  <2>. QED BY <1>2, <2>1, <2>2, <2>3, <2>4, QuietRow
<1>. QED BY <1>4, <1>5

\* The original is copied to the bin, or that fails.
LEMMA CopyToBinKeeps ==
  ASSUME OneInputEach, FilesInv, NEW t \in Working, CopyToBin(t), Harm(t)
  PROVE  StepKept(t)
<1>. DEFINE b == task[t].bin  src == task[t].src
<1>1. task[t] \in TaskRow /\ NamesOf(t) /\ t \in Task /\ set \in Setups /\ DOMAIN task = Task
      /\ (SetAside(t) => src \in DOMAIN fs)
  BY StepFacts
<1>2. PICK pc \in {"restore", "remove"} : Go(t, pc) /\ pc = IF GoesBack THEN "restore" ELSE "remove"
  BY DEF CopyToBin
<1>3. task[t].pc = "binCopy" /\ UNCHANGED <<set, truncated>> /\ task[t].pc \in Begun /\ pc \in FilePc
  BY DEF CopyToBin, AtPc, Begun, FilePc
<1>4. b[1] = "bin" /\ b[1] \in OwnDirs(t) /\ Ours(t, b) /\ task[t].delete
      /\ task[t].final[1] # "bin" /\ src[1] # "bin"
  BY <1>1, <1>3, OwnNames, NoneLeft DEF NamesOf, Ended, Begun, FilePc
<1>5. UNCHANGED fs \/ (src \in DOMAIN fs /\ fs' = With(b, fs[src], fs))
  BY DEF CopyToBin, Exists
<1>6. /\ Framed(t) /\ (NotWriting(t) => NotWriting(t)') /\ DOMAIN fs \subseteq DOMAIN fs'
      /\ \A x \in DOMAIN fs : x # b => fs'[x] = fs[x]
  <2>1. CASE UNCHANGED fs
    BY <1>1, <2>1, SameFrame
  <2>2. CASE src \in DOMAIN fs /\ fs' = With(b, fs[src], fs)
    <3>1. fs[src] \in FileContent
      BY <2>2 DEF FilesInv, FilesTyped
    <3>2. /\ Framed(t) /\ (NotWriting(t) /\ fs[src] # Content(t, "writing") => NotWriting(t)')
          /\ DOMAIN fs' = DOMAIN fs \cup {b} /\ \A x \in DOMAIN fs : x # b => fs'[x] = fs[x]
      BY <1>1, <1>4, <2>2, <3>1, WithFrame
    <3>. QED BY <2>2, <3>2 DEF NotWriting
  <2>. QED BY <1>5, <2>1, <2>2
<1>7. /\ task'[t].pc = pc /\ RowFramed(t) /\ task'[t].src = src
      /\ task'[t].final = task[t].final /\ task'[t].delete = task[t].delete
  BY <1>1, <1>2, <1>3, <1>6, GoChange DEF SetAside
<1>8. NamesOf(t)'
  BY <1>1, <1>2, <1>3, <1>7, SetStays DEF NamesOf, Ended, Begun, FilePc
<1>9. ASSUME Safe(t)', Stage(t) PROVE Stage(t)'
  <2>1. Good(task[t].final, t) /\ task[t].final[2] = "mp4" /\ Good(src, t) /\ src # task[t].final
    BY <1>3, <1>4, <1>9 DEF Stage, Ended, Begun, FilePc
  <2>2. Good(task[t].final, t)' /\ Good(task[t].src, t)'
    BY <1>4, <1>6, <1>7, <2>1 DEF Good, Exists
  <2>. QED BY <1>7, <2>1, <2>2 DEF Stage, Ended, Begun
<1>. QED BY <1>1, <1>3, <1>6, <1>7, <1>8, <1>9, SafeBefore, StepFacts, StepKeeps DEF Harm

\* The original is removed, the output stays.
LEMMA RemoveOriginalKeeps ==
  ASSUME OneInputEach, FilesInv, NEW t \in Working, RemoveOriginal(t), Harm(t)
  PROVE  StepKept(t)
<1>. DEFINE src == task[t].src
<1>1. task[t] \in TaskRow /\ NamesOf(t) /\ t \in Task
  BY StepFacts
<1>2. /\ task[t].pc = "remove" /\ Go(t, "done") /\ UNCHANGED <<set, truncated>> /\ fs' = Without(src, fs)
      /\ task[t].pc \in Begun /\ "done" \in FilePc \ Begun
  BY DEF RemoveOriginal, AtPc, history, Begun, FilePc
<1>3. /\ Framed(t) /\ (NotWriting(t) => NotWriting(t)') /\ DOMAIN fs' = DOMAIN fs \ {src}
      /\ \A x \in DOMAIN fs : x # src => fs'[x] = fs[x]
  <2>1. Ours(t, src)
    BY <1>1, <1>2, OwnNames
  <2>. QED BY <1>1, <1>2, <2>1, WithoutFrame
<1>4. /\ task'[t].pc = "done" /\ RowFramed(t) /\ task'[t].src = src
      /\ task'[t].final = task[t].final
  BY <1>1, <1>2, GoChange
<1>5. NamesOf(t)'
  BY <1>1, <1>2, <1>4, SetStays DEF NamesOf, Ended, Begun, FilePc
<1>6. ASSUME Safe(t)', Stage(t) PROVE Stage(t)'
  <2>1. Good(task[t].final, t) /\ task[t].final[2] = "mp4" /\ src # task[t].final
    BY <1>1, <1>2, <1>6 DEF Stage, Ended, Begun, FilePc, NamesOf
  <2>2. Good(task[t].final, t)'
    BY <1>3, <1>4, <2>1 DEF Good, Exists
  <2>. QED BY <1>4, <2>1, <2>2 DEF Stage, Ended, Begun
<1>. QED BY <1>1, <1>2, <1>3, <1>4, <1>5, <1>6, SafeBefore, StepFacts, StepKeeps DEF Harm

\* The output goes back beside the input, or stays where it is.
LEMMA RestoreOutputKeeps ==
  ASSUME OneInputEach, FilesInv, NEW t \in Working, RestoreOutput(t), Harm(t)
  PROVE  StepKept(t)
<1>. DEFINE p == task[t].final  q == BackName(t)  beside == BesideName(t, p[3])
            r(x) == [task[t] EXCEPT !.pc = "cleanup", !.final = x]
<1>1. task[t] \in TaskRow /\ NamesOf(t) /\ t \in Task /\ set \in Setups /\ DOMAIN task = Task
      /\ (SetAside(t) => task[t].src \in DOMAIN fs)
  BY StepFacts
<1>2. task[t].pc = "restore" /\ UNCHANGED <<set, truncated>> /\ task[t].pc \in Begun
      /\ "cleanup" \in FilePc /\ "cleanup" \in Begun
  BY DEF RestoreOutput, AtPc, history, Begun, FilePc
<1>3. /\ GoesBack /\ set.outDir /\ p[1] = "out" /\ p[2] \in {"sma", "mp4"} /\ p[3] \in Number
      /\ task[t].src = InputOf(t) /\ task[t].src[2] # "original" /\ task[t].src # p /\ p[1] \in OwnDirs(t)
      /\ Ours(t, p)
  <2>1. GoesBack /\ set.outDir /\ p[1] = OutputDir(t) /\ OutputDir(t) = "out" /\ p[2] \in {"sma", "mp4"}
        /\ task[t].src = InputOf(t)
    BY <1>1, <1>2 DEF NamesOf, OutputDir, GoesBack, Ended, Begun, FilePc
  <2>2. p[3] \in Number
    BY <1>1 DEF TaskRow, Name
  <2>. QED BY <1>1, <2>1, <2>2, OwnNames, NoneLeft, NameParts
<1>4. \A n \in Number : /\ BesideName(t, n) \in Name /\ BesideName(t, n) # p
                        /\ Ours(t, BesideName(t, n)) /\ BesideName(t, n)[1] \in OwnDirs(t)
  <2>. TAKE n \in Number
  <2>1. BesideName(t, n) \in Name
    BY <1>1, OwnNames DEF BesideName, Name
  <2>. QED BY <1>1, <1>3, <2>1, OwnNames, NoneLeft, NameParts
<1>5. \A x \in Name : /\ r(x) \in TaskRow /\ r(x).pc = "cleanup" /\ r(x).src = task[t].src
                      /\ r(x).final = x /\ r(x).delete = task[t].delete
  BY <1>1, <1>2 DEF TaskRow
<1>. HIDE DEF r
\* The output is beside the input.
<1>6. ASSUME NEW n \in Number, task' = [task EXCEPT ![t] = r(BesideName(t, n))], Framed(t), NotWriting(t) => NotWriting(t)',
             BesideName(t, n) \in DOMAIN fs', fs'[BesideName(t, n)] = fs[p],
             \A x \in DOMAIN fs : x # p /\ x # BesideName(t, n) => x \in DOMAIN fs' /\ fs'[x] = fs[x]
      PROVE  StepKept(t)
  <2>. DEFINE b == BesideName(t, n)
  <2>1. b \in Name /\ b # p /\ b[1] = set.dir[t] /\ b[2] = "mp4"
    BY <1>1, <1>4, NameParts
  <2>. HIDE DEF b
  <2>2. task'[t] = r(b) /\ RowFramed(t)
    BY <1>1, <1>2, <1>3, <1>5, <1>6, <2>1, RowChange DEF b
  <2>3. /\ task'[t].pc = "cleanup" /\ task'[t].src = task[t].src /\ task'[t].final = b
    BY <1>5, <2>1, <2>2
  <2>4. NamesOf(t)'
    BY <1>1, <1>2, <2>1, <2>3, SetStays DEF NamesOf, Ended, Begun, FilePc
  <2>5. ASSUME Safe(t)', Stage(t) PROVE Stage(t)'
    <3>1. Good(p, t) /\ Good(task[t].src, t)
      BY <1>2, <1>3, <2>5 DEF Stage, Ended, Begun, FilePc, InPlace
    <3>2. Good(task[t].final, t)'
      BY <1>6, <2>3, <3>1 DEF Good, Exists, b
    <3>3. Good(task[t].src, t)'
      <4>1. CASE task[t].src = b
        BY <2>3, <3>2, <4>1
      <4>2. CASE task[t].src # b
        BY <1>3, <1>6, <2>3, <3>1, <4>2 DEF Good, Exists, b
      <4>. QED BY <4>1, <4>2
    <3>4. GoesBack'
      BY <1>2, <1>3, SetStays
    <3>. QED BY <2>1, <2>3, <3>2, <3>3, <3>4 DEF Stage, Ended, Begun, FilePc
  <2>6. Safe(t)' => NotWriting(t)'
    BY <1>1, <1>2, <1>6, SafeBefore, StepFacts DEF Harm
  <2>. QED BY <1>2, <1>6, <2>2, <2>4, <2>5, <2>6, StepKeeps
<1>7. CASE SameBytes(p, beside) /\ fs' = Without(p, fs) /\ task' = [task EXCEPT ![t] = r(beside)]
  <2>1. beside \in DOMAIN fs /\ p \in DOMAIN fs /\ fs[p] = fs[beside] /\ beside # p
    BY <1>3, <1>4, <1>7 DEF SameBytes, Exists
  <2>2. /\ Framed(t) /\ (NotWriting(t) => NotWriting(t)') /\ DOMAIN fs' = DOMAIN fs \ {p}
        /\ \A x \in DOMAIN fs : x # p => fs'[x] = fs[x]
    BY <1>1, <1>3, <1>7, WithoutFrame
  <2>. QED BY <1>3, <1>6, <1>7, <2>1, <2>2
<1>8. CASE Exists(p) /\ FreeBeside(t) # {} /\ fs' = Moved(p, q, fs) /\ task' = [task EXCEPT ![t] = r(q)]
  <2>1. PICK n \in Number : q = BesideName(t, n)
    <3>1. FirstOf(FreeBeside(t)) \in Number
      BY <1>8, FirstFree DEF FreeBeside
    <3>. QED BY <1>3, <3>1 DEF BackName
  <2>2. p \in DOMAIN fs /\ Ours(t, q) /\ q[1] \in OwnDirs(t) /\ q # p
    BY <1>4, <1>8, <2>1 DEF Exists
  <2>3. /\ Framed(t) /\ (NotWriting(t) => NotWriting(t)') /\ DOMAIN fs' = (DOMAIN fs \ {p}) \cup {q}
        /\ fs'[q] = fs[p] /\ \A x \in DOMAIN fs : x # p /\ x # q => fs'[x] = fs[x]
    BY <1>1, <1>3, <1>8, <2>2, MovedFrame
  <2>. QED BY <1>6, <1>8, <2>1, <2>3
<1>9. CASE Go(t, "cleanup") /\ UNCHANGED fs
  <2>1. /\ task'[t].pc = "cleanup" /\ RowFramed(t) /\ task'[t].src = task[t].src
        /\ task'[t].final = p /\ task'[t].delete = task[t].delete
    BY <1>1, <1>2, <1>9, GoChange DEF SetAside
  <2>2. NamesOf(t)'
    BY <1>1, <1>2, <2>1, SetStays DEF NamesOf, Ended, Begun, FilePc
  <2>3. Stage(t) => Stage(t)'
    BY <1>1, <1>2, <1>9, <2>1, SetStays, SameFiles DEF Stage, Ended, Begun, FilePc
  <2>. QED BY <1>2, <1>9, <2>1, <2>2, <2>3, QuietRow
<1>. QED BY <1>7, <1>8, <1>9 DEF RestoreOutput, r

\* The output is moved on to the move-to directory.
LEMMA ReplicateKeeps ==
  ASSUME OneInputEach, FilesInv, NEW t \in Working, Replicate(t), Harm(t)
  PROVE  StepKept(t)
<1>. DEFINE p == task[t].final  q == <<"dest", "mp4", p[3]>>  src == task[t].src
            r == [task[t] EXCEPT !.pc = "cleanup", !.final = q]
<1>1. task[t] \in TaskRow /\ NamesOf(t) /\ t \in Task /\ set \in Setups /\ DOMAIN task = Task
      /\ (SetAside(t) => src \in DOMAIN fs)
  BY StepFacts
<1>2. task[t].pc = "replicate" /\ UNCHANGED <<set, truncated>> /\ task[t].pc \in Begun
      /\ "cleanup" \in FilePc /\ "cleanup" \in Begun
  BY DEF Replicate, AtPc, history, Begun, FilePc
<1>3. CASE Go(t, "cleanup") /\ UNCHANGED fs
  <2>1. /\ task'[t].pc = "cleanup" /\ RowFramed(t) /\ task'[t].src = task[t].src
        /\ task'[t].final = p /\ task'[t].delete = task[t].delete
    BY <1>1, <1>2, <1>3, GoChange DEF SetAside
  <2>2. NamesOf(t)'
    BY <1>1, <1>2, <2>1, SetStays DEF NamesOf, Ended, Begun, FilePc
  <2>3. Stage(t) => Stage(t)'
    BY <1>1, <1>2, <1>3, <2>1, SetStays, SameFiles DEF Stage, Ended, Begun, FilePc
  <2>. QED BY <1>2, <1>3, <2>1, <2>2, <2>3, QuietRow
<1>4. CASE Exists(p) /\ fs' = Moved(p, q, fs) /\ task' = [task EXCEPT ![t] = r]
  <2>1. p[1] \in OwnDirs(t) /\ p[2] \in {"sma", "mp4"} /\ Ours(t, p) /\ p \in DOMAIN fs
    BY <1>1, <1>2, <1>4, OwnNames DEF NamesOf, Ended, Exists
  <2>2. q \in Name /\ q[1] = "dest" /\ q[2] = "mp4"
    BY <1>1 DEF Name, TaskRow
  <2>3. /\ r \in TaskRow /\ r.pc = "cleanup" /\ r.src = src /\ r.final = q /\ r.delete = task[t].delete
    BY <1>1, <1>2, <2>2 DEF TaskRow
  <2>. HIDE DEF r, q
  <2>4. Ours(t, q) /\ q[1] \in OwnDirs(t) /\ src # q /\ InputOf(t) # q
    BY <1>1, <2>2, OwnNames, NoneLeft, NameParts
  <2>5. /\ Framed(t) /\ (NotWriting(t) => NotWriting(t)') /\ DOMAIN fs' = (DOMAIN fs \ {p}) \cup {q}
        /\ fs'[q] = fs[p] /\ \A x \in DOMAIN fs : x # p /\ x # q => fs'[x] = fs[x]
    <3>1. fs' = Moved(p, q, fs)
      BY <1>4
    <3>. QED BY <1>1, <2>1, <2>4, <3>1, MovedFrame
  <2>6. src[2] = "original" /\ src \in DOMAIN fs => src \in DOMAIN fs'
    BY <2>1, <2>5
  <2>7. task'[t] = r /\ RowFramed(t)
    BY <1>1, <1>2, <1>4, <2>3, <2>6, RowChange DEF SetAside
  <2>8. NamesOf(t)'
    BY <1>1, <1>2, <2>2, <2>3, <2>7, SetStays DEF NamesOf, Ended, Begun, FilePc
  <2>9. ASSUME Safe(t)', Stage(t) PROVE Stage(t)'
    <3>1. Good(p, t) /\ ((InPlace(t) /\ ~ task[t].delete) \/ (Good(src, t) /\ src # p))
      BY <1>2, <2>9 DEF Stage, Ended, Begun, FilePc
    <3>2. task'[t].pc = "cleanup" /\ task'[t].final = q /\ task'[t].src = src
          /\ task'[t].delete = task[t].delete
      BY <2>3, <2>7
    <3>3. q \in DOMAIN fs' /\ fs'[q].of = t /\ fs'[q].state \in {"original", "whole"}
      BY <2>5, <3>1 DEF Good
    <3>4. Good(src, t) /\ src # p => Good(task[t].src, t)'
      BY <2>4, <2>5, <3>2 DEF Good, Exists
    <3>5. InPlace(t) => InPlace(t)'
      <4>. SUFFICES ASSUME InPlace(t) PROVE InPlace(t)'
        OBVIOUS
      <4>1. InputOf(t)' = InputOf(t)
        BY <1>2, SetStays
      <4>2. Exists(InputOf(t))' => Good(InputOf(t), t)'
        BY <2>4, <2>5, <4>1 DEF InPlace, Good, Exists
      <4>. QED BY <1>2, <2>2, <3>3, <4>2 DEF InPlace, Good, Exists
    <3>6. Good(task[t].final, t)'
      BY <3>2, <3>3 DEF Good, Exists
    <3>. QED BY <2>2, <2>4, <3>1, <3>2, <3>4, <3>5, <3>6 DEF Stage, Ended, Begun, FilePc
  <2>. QED BY <1>1, <1>2, <2>5, <2>7, <2>3, <2>8, <2>9, SafeBefore, StepFacts, StepKeeps DEF Harm
<1>. QED BY <1>3, <1>4 DEF Replicate

\* The row and the files when the names of an output are chosen.
LEMMA NamedChange ==
  ASSUME FilesInv, NEW t \in Working, task[t].pc = "names", NEW src \in Name, NEW files, Named(t, src, files)
  PROVE  /\ fs' = [p \in DOMAIN files \ Leftover(t) |-> files[p]]
         /\ \A p \in Leftover(t) : p[1] = OutputDir(t) /\ p[2] = "sma"
         /\ task' = [task EXCEPT ![t] = task'[t]] /\ task'[t] \in TaskRow
         /\ task'[t].pc = "start" /\ task'[t].src = src
         /\ task'[t].out[1] = OutputDir(t) /\ task'[t].out[2] \in {"sma", "mp4"}
         /\ task'[t].final[1] = OutputDir(t) /\ task'[t].final[2] = "mp4"
         /\ task'[t].out \notin DOMAIN fs' /\ task'[t].final \notin DOMAIN fs'
<1>. DEFINE left == [p \in DOMAIN files \ Leftover(t) |-> files[p]]
            names == [n \in Number |-> {WorkName(t, n), FinalName(t, n)}]
            k == FirstOf(Numbers(names, left))
            r == [task[t] EXCEPT !.pc = "start", !.src = src, !.out = WorkName(t, k), !.final = FinalName(t, k)]
<1>1. Numbers(names, left) # {} /\ fs' = left /\ task' = [task EXCEPT ![t] = r]
  BY DEF Named
<1>2. task[t] \in TaskRow /\ t \in Task /\ DOMAIN task = Task
  BY StepFacts
<1>3. k \in Number /\ names[k] \cap DOMAIN left = {}
  BY <1>1, FirstFree
<1>. HIDE DEF k
<1>4. WorkName(t, k) \notin DOMAIN left /\ FinalName(t, k) \notin DOMAIN left
  BY <1>3
<1>5. OutputDir(t) \in Folder \cup {"out", "dest", "bin", "none"}
  BY <1>2, OwnNames DEF OutputDir
<1>6. WorkName(t, k) \in Name /\ FinalName(t, k) \in Name
  BY <1>3, <1>5 DEF WorkName, FinalName, Name
<1>7. /\ r \in TaskRow /\ r.pc = "start" /\ r.src = src /\ r.out = WorkName(t, k) /\ r.final = FinalName(t, k)
  BY <1>2, <1>6 DEF TaskRow, FilePc
<1>. HIDE DEF r
<1>8. task'[t] = r
  BY <1>1, <1>2
<1>9. \A p \in Leftover(t) : p[1] = OutputDir(t) /\ p[2] = "sma"
  BY <1>2, NameParts DEF Leftover
<1>. QED BY <1>1, <1>2, <1>4, <1>7, <1>8, <1>9, NameParts

\* The names are chosen, and the input may step aside.
LEMMA ChooseNamesKeeps ==
  ASSUME OneInputEach, FilesInv, NEW t \in Working, ChooseNames(t), Harm(t)
  PROVE  StepKept(t)
<1>1. task[t] \in TaskRow /\ NamesOf(t) /\ t \in Task /\ set \in Setups /\ DOMAIN task = Task
  BY StepFacts
<1>2. task[t].pc = "names" /\ UNCHANGED <<set, truncated>> /\ "start" \in Begun
  BY DEF ChooseNames, AtPc, history, Begun, FilePc
<1>3. /\ task[t].src = InputOf(t) /\ InputOf(t) \in Name /\ InputOf(t)[2] \in {"mkv", "mp4"}
      /\ InputOf(t)[1] \in OwnDirs(t) /\ OutputDir(t) \in OwnDirs(t) /\ set.kind[t] \in {"convert", "redo"}
      /\ Ours(t, InputOf(t))
  <2>1. task[t].src = InputOf(t) /\ set.kind[t] \in {"convert", "redo"}
    BY <1>1, <1>2 DEF NamesOf
  <2>2. InputOf(t) \in Name /\ InputOf(t)[1] = set.dir[t] /\ InputOf(t)[2] \in {"mkv", "mp4"}
    BY <1>1, RowOf, NameParts
  <2>3. set.dir[t] \in OwnDirs(t) /\ OutputDir(t) \in OwnDirs(t)
    BY <1>1, OwnNames
  <2>. QED BY <1>1, <2>1, <2>2, <2>3, OwnNames
<1>4. Safe(t)' => Safe(t) /\ NotWriting(t)
  BY <1>1, <1>2, SafeBefore, StepFacts DEF Harm
<1>5. CASE Named(t, InputOf(t), fs)
  <2>1. /\ fs' = [p \in DOMAIN fs \ Leftover(t) |-> fs[p]]
        /\ \A p \in Leftover(t) : p[1] = OutputDir(t) /\ p[2] = "sma"
        /\ task' = [task EXCEPT ![t] = task'[t]] /\ task'[t] \in TaskRow
        /\ task'[t].pc = "start" /\ task'[t].src = InputOf(t)
        /\ task'[t].out[1] = OutputDir(t) /\ task'[t].out[2] \in {"sma", "mp4"}
        /\ task'[t].final[1] = OutputDir(t) /\ task'[t].final[2] = "mp4"
        /\ task'[t].out \notin DOMAIN fs' /\ task'[t].final \notin DOMAIN fs'
    BY <1>2, <1>3, <1>5, NamedChange
  <2>2. /\ DOMAIN fs' = DOMAIN fs \ Leftover(t) /\ \A p \in DOMAIN fs' : fs'[p] = fs[p]
        /\ fs' \in [DOMAIN fs' -> FileContent]
    BY <2>1 DEF FilesInv, FilesTyped
  <2>3. \A p \in Leftover(t) : Ours(t, p)
    BY <1>1, <1>3, <2>1, OwnNames
  <2>4. Framed(t) /\ (NotWriting(t) => NotWriting(t)')
    <3>1. \A p \in DOMAIN fs : Ours(t, p) \/ Stays(p)
      BY <2>2, <2>3 DEF Stays
    <3>. QED BY <2>2, <3>1 DEF Framed, NotWriting
  <2>5. RowFramed(t)
    BY <1>3, <2>1 DEF RowFramed, SetAside
  <2>6. NamesOf(t)'
    BY <1>2, <1>3, <2>1, SetStays DEF NamesOf, Ended, Begun, FilePc
  <2>7. ASSUME Safe(t)', Stage(t) PROVE Stage(t)'
    <3>1. Good(InputOf(t), t)
      BY <1>2, <2>7 DEF Stage
    <3>2. InputOf(t) \in DOMAIN fs'
      BY <1>3, <2>1, <2>2, <3>1 DEF Good, Exists
    <3>3. Good(task[t].src, t)'
      BY <2>1, <2>2, <3>1, <3>2 DEF Good, Exists
    <3>. QED BY <2>1, <3>2, <3>3 DEF Stage, Ended, Begun
  <2>. QED BY <1>2, <1>4, <2>1, <2>4, <2>5, <2>6, <2>7, StepKeeps
<1>6. CASE InTheWay(t) /\ StepAside(t)
  <2>. DEFINE names == [n \in Number |-> {AsideName(t, n)}]
              k == FirstOf(Numbers(names, fs))
              src == AsideName(t, k)
              files == Moved(InputOf(t), src, fs)
  <2>1. InputOf(t) \in DOMAIN fs /\ Numbers(names, fs) # {} /\ Named(t, src, files)
    BY <1>6 DEF StepAside, Exists
  <2>2. k \in Number /\ names[k] \cap DOMAIN fs = {}
    BY <2>1, FirstFree
  <2>. HIDE DEF k
  <2>3. src \notin DOMAIN fs /\ src \in Name /\ src[1] = set.dir[t] /\ src[2] = "original"
    <3>1. AsideName(t, k) \notin DOMAIN fs
      BY <2>2
    <3>2. AsideName(t, k) \in Name
      BY <1>1, <2>2, OwnNames DEF AsideName, Name
    <3>. QED BY <1>1, <3>1, <3>2, NameParts
  <2>4. ~ set.outDir /\ set.kind[t] = "redo"
    <3>1. InputOf(t) = FinalName(t, 0)
      BY <1>6 DEF InTheWay
    <3>2. OutputDir(t) = set.dir[t] /\ InputOf(t)[2] = "mp4"
      BY <1>1, <3>1, NameParts
    <3>. QED BY <1>1, <1>3, <3>2, NoneLeft, NameParts DEF OutputDir
  <2>. HIDE DEF src
  <2>5. /\ DOMAIN files = (DOMAIN fs \ {InputOf(t)}) \cup {src} /\ files[src] = fs[InputOf(t)]
        /\ \A x \in DOMAIN fs : x # InputOf(t) /\ x # src => files[x] = fs[x]
    BY <2>1 DEF Moved, With, Without
  <2>. HIDE DEF files
  <2>6. /\ fs' = [p \in DOMAIN files \ Leftover(t) |-> files[p]]
        /\ \A p \in Leftover(t) : p[1] = OutputDir(t) /\ p[2] = "sma"
        /\ task' = [task EXCEPT ![t] = task'[t]] /\ task'[t] \in TaskRow
        /\ task'[t].pc = "start" /\ task'[t].src = src
        /\ task'[t].out[1] = OutputDir(t) /\ task'[t].out[2] \in {"sma", "mp4"}
        /\ task'[t].final[1] = OutputDir(t) /\ task'[t].final[2] = "mp4"
        /\ task'[t].out \notin DOMAIN fs' /\ task'[t].final \notin DOMAIN fs'
    BY <1>2, <2>1, <2>3, NamedChange
  <2>7. /\ DOMAIN fs' = DOMAIN files \ Leftover(t) /\ \A p \in DOMAIN fs' : fs'[p] = files[p]
        /\ \A p \in DOMAIN fs' : \E q \in DOMAIN fs : fs'[p] = fs[q]
    BY <2>1, <2>5, <2>6
  <2>8. fs' \in [DOMAIN fs' -> FileContent]
    BY <2>6, <2>7 DEF FilesInv, FilesTyped
  <2>9. \A p \in Leftover(t) : Ours(t, p)
    BY <1>1, <1>3, <2>6, OwnNames
  <2>10. Framed(t) /\ (NotWriting(t) => NotWriting(t)')
    <3>1. \A p \in DOMAIN fs : Ours(t, p) \/ Stays(p)
      BY <1>3, <2>3, <2>5, <2>7, <2>9 DEF Stays
    <3>2. \A p \in DOMAIN fs' : p \in DOMAIN fs \/ p[1] \in OwnDirs(t)
      BY <1>1, <2>3, <2>5, <2>7, OwnNames
    <3>3. \A p \in DOMAIN fs' : fs'[p].state = "writing" /\ fs'[p] # Content(t, "writing") =>
            \E q \in DOMAIN fs : fs[q] = fs'[p]
      BY <2>7
    <3>4. NotWriting(t) => NotWriting(t)'
      BY <2>7 DEF NotWriting, Content
    <3>. QED BY <2>8, <3>1, <3>2, <3>3, <3>4 DEF Framed
  <2>11. src \in DOMAIN fs'
    BY <2>3, <2>5, <2>6, <2>7
  <2>12. RowFramed(t)
    BY <2>3, <2>6, <2>11 DEF RowFramed
  <2>13. NamesOf(t)'
    BY <1>2, <1>3, <2>3, <2>4, <2>6, SetStays DEF NamesOf, Ended, Begun, FilePc
  <2>14. ASSUME Safe(t)', Stage(t) PROVE Stage(t)'
    <3>1. Good(InputOf(t), t)
      BY <1>2, <2>14 DEF Stage
    <3>2. Good(task[t].src, t)'
      BY <2>5, <2>6, <2>7, <2>11, <3>1 DEF Good, Exists
    <3>. QED BY <2>6, <2>11, <3>2 DEF Stage, Ended, Begun
  <2>. QED BY <1>2, <1>4, <2>6, <2>10, <2>12, <2>13, <2>14, StepKeeps
<1>. QED BY <1>5, <1>6 DEF ChooseNames

\* Every step of a task keeps the invariant.
LEMMA TaskStepKeeps ==
  ASSUME OneInputEach, FilesInv, NEW t \in Task, TaskStep(t)
  PROVE  StepKept(t)
<1>1. Harm(t)
  BY DEF TaskStep
<1>2. t \in Working
  <2>1. task[t].pc # "done"
    BY DEF TaskStep, AtPc, BeginTask, ChooseNames, StartFfmpeg, FinishFfmpeg, NextAttempt, ConversionFails,
           RenameOutput, BypassCopy, EndCopy, FastStart, SwapIn, Place, NameInBin, CopyToBin,
           RestoreOutput, Replicate, CleanUp, RemoveOriginal
  <2>. QED BY <2>1 DEF FilesInv, NamesTyped, NamesOf, Working
<1>3. CASE BeginTask(t)       BY <1>1, <1>2, <1>3, BeginTaskKeeps
<1>4. CASE ChooseNames(t)     BY <1>1, <1>2, <1>4, ChooseNamesKeeps
<1>5. CASE StartFfmpeg(t)     BY <1>1, <1>2, <1>5, StartFfmpegKeeps
<1>6. CASE FinishFfmpeg(t)    BY <1>1, <1>2, <1>6, FinishFfmpegKeeps
<1>7. CASE NextAttempt(t)     BY <1>1, <1>2, <1>7, NextAttemptKeeps
<1>8. CASE ConversionFails(t) BY <1>1, <1>2, <1>8, ConversionFailsKeeps
<1>9. CASE RenameOutput(t)    BY <1>1, <1>2, <1>9, RenameOutputKeeps
<1>10. CASE BypassCopy(t)     BY <1>1, <1>2, <1>10, BypassCopyKeeps
<1>11. CASE EndCopy(t)        BY <1>1, <1>2, <1>11, EndCopyKeeps
<1>12. CASE FastStart(t)      BY <1>1, <1>2, <1>12, FastStartKeeps
<1>13. CASE SwapIn(t)         BY <1>1, <1>2, <1>13, SwapInKeeps
<1>14. CASE Place(t)          BY <1>1, <1>2, <1>14, PlaceKeeps
<1>15. CASE NameInBin(t)      BY <1>1, <1>2, <1>15, NameInBinKeeps
<1>16. CASE CopyToBin(t)      BY <1>1, <1>2, <1>16, CopyToBinKeeps
<1>17. CASE RestoreOutput(t)  BY <1>1, <1>2, <1>17, RestoreOutputKeeps
<1>18. CASE Replicate(t)      BY <1>1, <1>2, <1>18, ReplicateKeeps
<1>19. CASE CleanUp(t)        BY <1>1, <1>2, <1>19, CleanUpKeeps
<1>20. CASE RemoveOriginal(t) BY <1>1, <1>2, <1>20, RemoveOriginalKeeps
<1>. QED
  BY <1>3, <1>4, <1>5, <1>6, <1>7, <1>8, <1>9, <1>10, <1>11, <1>12, <1>13, <1>14, <1>15, <1>16, <1>17,
     <1>18, <1>19, <1>20 DEF TaskStep

-----------------------------------------------------------------------------
(* What else happens to the files.                                         *)

\* A killed task starts over from its input.
LEMMA KillTaskKeeps ==
  ASSUME OneInputEach, FilesInv, NEW t \in Task, KillTask(t)
  PROVE  StepKept(t)
<1>1. /\ task[t].pc \notin {"queued", "done", "failed"} /\ UNCHANGED <<set, harmed, truncated>>
      /\ fs' = Settled(t, "cut") /\ task' = [task EXCEPT ![t] = Queued(t)]
  BY DEF KillTask
<1>2. t \in Working
  BY <1>1 DEF FilesInv, NamesTyped, NamesOf, Working
<1>3. task[t] \in TaskRow /\ NamesOf(t) /\ set \in Setups /\ DOMAIN task = Task
      /\ (SetAside(t) => task[t].src \in DOMAIN fs)
  BY <1>2, StepFacts
<1>4. /\ Framed(t) /\ NotWriting(t)' /\ DOMAIN fs' = DOMAIN fs
      /\ \A p \in DOMAIN fs : fs'[p] = IF fs[p] = Content(t, "writing") THEN Content(t, "cut") ELSE fs[p]
  BY <1>1, SettledFrame
<1>5. Harm(t)
  <2>1. \A p \in DOMAIN fs : fs[p].of # t => fs'[p] = fs[p]
    BY <1>4 DEF Content
  <2>2. OthersHarmedBy(t) = {}
    BY <1>4, <2>1 DEF OthersHarmedBy, Lost
  <2>3. SharedBy(t) = {}
    <3>1. \A p \in DOMAIN fs : fs[p].of # t /\ fs[p].state = "writing" => fs'[p].state = "writing"
      BY <2>1
    <3>2. \A p \in DOMAIN fs : Content(fs[p].of, "cut").state = "cut"
      BY DEF Content
    <3>. QED BY <1>4, <3>1, <3>2 DEF SharedBy
  <2>. QED BY <1>1, <2>2, <2>3 DEF Harm
<1>6. /\ task'[t] = Queued(t) /\ task'[t] \in TaskRow /\ task'[t].pc = "queued" /\ task'[t].src = InputOf(t)
      /\ ~ task'[t].delete
  BY <1>1, <1>3, RowOf
<1>7. RowFramed(t)
  BY <1>1, <1>6 DEF RowFramed, SetAside, Begun
<1>8. NamesOf(t)'
  BY <1>1, <1>2, <1>6, SetStays DEF NamesOf, Ended, Begun, Working
<1>9. ASSUME Safe(t)', Stage(t) PROVE Stage(t)' \/ Aside(t)'
  <2>1. InPlace(t) \/ Good(task[t].src, t)
    BY <1>1, <1>3, <1>9 DEF Stage, TaskRow, Ended, Begun, FilePc, NamesOf
  <2>2. InputOf(t)' = InputOf(t)
    BY <1>1, SetStays
  <2>3. ASSUME NEW p, Good(p, t) PROVE p \in DOMAIN fs' /\ fs'[p] = fs[p]
    BY <1>4, <2>3 DEF Good, Exists, Content
  <2>4. CASE InPlace(t)
    <3>1. InPlace(t)'
      BY <1>1, <1>4, <2>2, <2>3, <2>4 DEF InPlace, Good, Exists
    <3>. QED BY <1>6, <3>1 DEF Stage, Ended, Begun
  <2>5. CASE Good(task[t].src, t) /\ task[t].src = InputOf(t)
    <3>1. Good(InputOf(t), t)'
      BY <2>2, <2>3, <2>5 DEF Good, Exists
    <3>. QED BY <1>6, <3>1 DEF Stage, Ended, Begun
  <2>6. CASE Good(task[t].src, t) /\ task[t].src # InputOf(t)
    <3>. DEFINE p == task[t].src
    <3>1. set.kind[t] = "redo" /\ p[1] \in Folder /\ p[2] = "original" /\ SetAside(t)
      <4>1. task[t].pc \notin {"copy", "copying", "names"}
        BY <1>3, <2>6 DEF NamesOf
      <4>2. task[t].pc \in Begun
        BY <1>1, <1>3, <4>1 DEF TaskRow, Begun
      <4>. QED BY <1>3, <2>6, <4>2, OwnNames DEF NamesOf, SetAside
    <3>2. p \in DOMAIN fs' /\ fs'[p] = fs[p]
      BY <2>3, <2>6
    <3>3. \A u \in Task : SetAside(u)' => task'[u].src # p
      <4>1. TAKE u \in Task
      <4>2. CASE u = t
        BY <1>6, <4>2 DEF SetAside, Begun
      <4>3. CASE u # t
        BY <1>1, <1>2, <1>7, <4>3, <3>1, OthersRows DEF FilesInv, AsidesApart
      <4>. QED BY <4>2, <4>3
    <3>4. Aside(t)'
      BY <1>1, <2>6, <3>1, <3>2, <3>3 DEF Aside, Good, Exists
    <3>. QED BY <3>4
  <2>. QED BY <2>1, <2>4, <2>5, <2>6
<1>. QED BY <1>1, <1>2, <1>4, <1>5, <1>7, <1>8, <1>9, StepKeeps

\* Files that go from the output directory only.
LEMMA GoneKeeps ==
  ASSUME FilesInv, NEW gone, \A p \in gone : p[1] = "out", fs' = [p \in DOMAIN fs \ gone |-> fs[p]],
         UNCHANGED <<set, task, truncated>>, harmed \subseteq harmed',
         \A t \in Task : Safe(t)' /\ Stage(t) => Stage(t)'
  PROVE  FilesInv'
<1>1. /\ DOMAIN fs' = DOMAIN fs \ gone /\ \A p \in DOMAIN fs' : fs'[p] = fs[p]
      /\ fs' \in [DOMAIN fs' -> FileContent] /\ set \in Setups
  BY DEF FilesInv, FilesTyped
<1>2. \A t \in Task : Safe(t)' => Safe(t)
  BY SafeBefore
<1>3. "out" \notin Folder
  BY ConversionAssumption DEF ConversionAssumption
<1>4. FilesTyped'
  BY <1>1 DEF FilesInv, FilesTyped
<1>5. NamesTyped'
  BY SetStays DEF FilesInv, NamesTyped, NamesOf
<1>6. NoStrayWriting'
  BY <1>1, <1>2 DEF FilesInv, NoStrayWriting
<1>7. AsidesApart'
  <2>1. \A t \in Task : task[t].src \notin gone
    BY <1>3, OwnNames
  <2>. QED BY <1>1, <2>1 DEF FilesInv, AsidesApart, SetAside, Exists
<1>8. MediaKnown'
  <2>. SUFFICES ASSUME NEW t \in Task, Safe(t)', Aside(t) PROVE Aside(t)'
    BY <1>2 DEF FilesInv, MediaKnown
  <2>1. PICK p \in DOMAIN fs : /\ p[1] \in Folder /\ p[2] = "original" /\ Good(p, t)
                               /\ \A u \in Task : SetAside(u) => task[u].src # p
    BY DEF Aside
  <2>2. p \in DOMAIN fs' /\ fs'[p] = fs[p]
    BY <1>1, <1>3, <2>1
  <2>. QED BY <2>1, <2>2 DEF Aside, Good, Exists, SetAside
<1>. QED BY <1>4, <1>5, <1>6, <1>7, <1>8 DEF FilesInv

\* A daemon that starts empties the output directory.
LEMMA WipeOutputKeeps ==
  ASSUME FilesInv, WipeOutput
  PROVE  FilesInv'
<1>. DEFINE gone == {p \in DOMAIN fs : p[1] = "out"}
<1>1. /\ fs' = [p \in DOMAIN fs \ gone |-> fs[p]] /\ UNCHANGED <<set, task, truncated>>
      /\ harmed' = harmed \cup {t \in Task : ~ Unneeded(t)
                                   /\ \E p \in gone : fs[p].of = t /\ fs[p].state # "cut"}
  BY DEF WipeOutput
<1>2. DOMAIN fs' = DOMAIN fs \ gone /\ \A p \in DOMAIN fs' : fs'[p] = fs[p]
  BY <1>1
<1>3. ASSUME NEW t \in Task, Safe(t)', Stage(t) PROVE Stage(t)'
  <2>1. task[t] \in TaskRow /\ task'[t] = task[t] /\ InputOf(t)' = InputOf(t) /\ (GoesBack' <=> GoesBack)
        /\ RelocatedName(t)' = RelocatedName(t) /\ NamesOf(t)
    BY <1>1, SetStays DEF FilesInv, FilesTyped, NamesTyped, RelocatedName
  <2>2. InputOf(t) \notin gone
    BY OwnNames, NameParts, ConversionAssumption DEF ConversionAssumption
  <2>3. CASE Unneeded(t)
    <3>1. Good(InputOf(t), t) /\ task[t].pc \in {"queued", "names", "copy", "failed"}
      BY <1>3, <2>3 DEF Unneeded, Stage, InPlace
    <3>2. Good(InputOf(t), t)'
      BY <1>2, <2>1, <2>2, <3>1 DEF Good, Exists
    <3>. QED BY <2>1, <3>1, <3>2 DEF Stage, Ended, Begun
  <2>4. CASE ~ Unneeded(t)
    <3>1. \A p \in DOMAIN fs : fs[p].of = t /\ fs[p].state # "cut" => p \in DOMAIN fs' /\ fs'[p] = fs[p]
      BY <1>1, <1>2, <1>3, <2>4 DEF Safe
    <3>2. \A p : Good(p, t) => Good(p, t)'
      BY <3>1 DEF Good, Exists
    <3>3. \A p : Exists(p) /\ fs[p] = Content(t, "writing") =>
                 p \in DOMAIN fs' /\ fs'[p] = Content(t, "writing")
      BY <3>1 DEF Exists, Content
    <3>4. InPlace(t) => InPlace(t)'
      <4>. SUFFICES ASSUME InPlace(t) PROVE InPlace(t)'
        OBVIOUS
      <4>1. PICK p \in DOMAIN fs : Good(p, t) /\ p[2] # "sma"
        BY DEF InPlace
      <4>2. p \in DOMAIN fs' /\ Good(p, t)'
        BY <3>2, <4>1 DEF Good, Exists
      <4>3. Exists(InputOf(t))' => Good(InputOf(t), t)'
        BY <1>2, <2>1 DEF InPlace, Good, Exists
      <4>. QED BY <1>1, <4>1, <4>2, <4>3 DEF InPlace
    <3>5. task[t].pc \in {"queued", "names", "copy", "failed"} => Stage(t)'
      BY <1>3, <2>1, <3>2, <3>4 DEF Stage, Ended, Begun
    <3>6. task[t].pc \in {"copying", "start", "encode", "rename"} => Stage(t)'
      BY <1>3, <2>1, <3>2, <3>3 DEF Stage, Ended, Begun, Exists
    <3>7. task[t].pc \in Ended \cup {"done"} => Stage(t)'
      BY <1>3, <2>1, <3>2, <3>4 DEF Stage, Ended, Begun
    <3>. QED BY <2>1, <3>5, <3>6, <3>7 DEF TaskRow, FilePc, Ended, Begun
  <2>. QED BY <2>3, <2>4
<1>4. \A t \in Task : Safe(t)' /\ Stage(t) => Stage(t)'
  BY <1>3
<1>5. harmed \subseteq harmed' /\ \A p \in gone : p[1] = "out"
  BY <1>1
<1>. HIDE DEF gone
<1>. QED BY <1>1, <1>4, <1>5, GoneKeeps

\* The janitor takes only working files nobody writes.
LEMMA SweepOutputKeeps ==
  ASSUME FilesInv, NEW p \in DOMAIN fs, SweepOutput(p)
  PROVE  FilesInv'
<1>1. /\ p[1] = "out" /\ p[2] = "sma" /\ fs' = [q \in DOMAIN fs \ {p} |-> fs[q]]
      /\ \A t \in Task : task[t].pc \in {"start", "encode", "rename"} => task[t].out # p
      /\ UNCHANGED <<set, task, truncated, harmed>>
  BY DEF SweepOutput, Without, history
<1>2. DOMAIN fs' = DOMAIN fs \ {p} /\ \A q \in DOMAIN fs' : fs'[q] = fs[q]
  BY <1>1
<1>3. ASSUME NEW t \in Task, Safe(t)', Stage(t) PROVE Stage(t)'
  <2>1. task[t] \in TaskRow /\ task'[t] = task[t] /\ InputOf(t)' = InputOf(t) /\ (GoesBack' <=> GoesBack)
        /\ RelocatedName(t)' = RelocatedName(t) /\ NamesOf(t)
    BY <1>1, SetStays DEF FilesInv, FilesTyped, NamesTyped, RelocatedName
  <2>2. InputOf(t) # p /\ task[t].src # p /\ RelocatedName(t) # p
    BY <1>1, OwnNames, NameParts, ConversionAssumption DEF ConversionAssumption
  <2>3. \A q : q # p /\ Good(q, t) => Good(q, t)'
    BY <1>2 DEF Good, Exists
  <2>4. \A q : q # p /\ Exists(q) /\ fs[q] = Content(t, "writing") =>
               q \in DOMAIN fs' /\ fs'[q] = Content(t, "writing")
    BY <1>2 DEF Exists
  <2>5. InPlace(t) => InPlace(t)'
    <3>. SUFFICES ASSUME InPlace(t) PROVE InPlace(t)'
      OBVIOUS
    <3>1. PICK q \in DOMAIN fs : Good(q, t) /\ q[2] # "sma"
      BY DEF InPlace
    <3>2. q \in DOMAIN fs' /\ Good(q, t)'
      BY <1>1, <2>3, <3>1 DEF Good, Exists
    <3>3. Exists(InputOf(t))' => Good(InputOf(t), t)'
      BY <1>2, <2>1 DEF InPlace, Good, Exists
    <3>. QED BY <1>1, <3>1, <3>2, <3>3 DEF InPlace
  <2>6. task[t].pc \in {"queued", "names", "copy", "failed"} => Stage(t)'
    BY <1>3, <2>1, <2>2, <2>3, <2>5 DEF Stage, Ended, Begun
  <2>7. task[t].pc = "copying" => Stage(t)'
    BY <1>1, <1>3, <2>1, <2>2, <2>3, <2>4 DEF Stage, Ended, Begun, Exists, NamesOf
  <2>8. task[t].pc \in {"start", "encode", "rename"} => Stage(t)'
    BY <1>1, <1>3, <2>1, <2>2, <2>3, <2>4 DEF Stage, Ended, Begun, Exists
  <2>9. task[t].pc \in Ended \cup {"done"} => Stage(t)'
    BY <1>1, <1>3, <2>1, <2>2, <2>3, <2>5 DEF Stage, Ended, Begun
  <2>. QED BY <2>1, <2>6, <2>7, <2>8, <2>9 DEF TaskRow, FilePc, Ended, Begun
<1>4. \A q \in {p} : q[1] = "out"
  BY <1>1
<1>5. \A t \in Task : Safe(t)' /\ Stage(t) => Stage(t)'
  BY <1>3
<1>6. harmed \subseteq harmed'
  BY <1>1
<1>. DEFINE gone == {p}
<1>7. fs' = [q \in DOMAIN fs \ gone |-> fs[q]] /\ \A q \in gone : q[1] = "out"
  BY <1>1, <1>4
<1>. HIDE DEF gone
<1>. QED BY <1>1, <1>5, <1>6, <1>7, GoneKeeps

\* A file of some other program comes where none is.
LEMMA ArriveKeeps ==
  ASSUME OneInputEach, FilesInv, NEW t \in Task, Arrive(t)
  PROVE  FilesInv'
<1>. DEFINE p == <<set.dir[t], "mp4", 0>>
<1>1. /\ task[t].pc = "encode" /\ p \notin DOMAIN fs /\ fs' = With(p, Content(Stranger, "whole"), fs)
      /\ UNCHANGED <<set, task, harmed, truncated>>
  BY DEF Arrive, AtPc, Exists
<1>2. p[1] = set.dir[t] /\ set \in Setups /\ NamesOf(t)
  BY DEF FilesInv, FilesTyped, NamesTyped
<1>. HIDE DEF p
<1>3. /\ DOMAIN fs' = DOMAIN fs \cup {p} /\ fs'[p] = Content(Stranger, "whole")
      /\ fs' = [x \in DOMAIN fs' |-> fs'[x]] /\ \A q \in DOMAIN fs : fs'[q] = fs[q]
  BY <1>1 DEF With
<1>4. Content(Stranger, "whole") \in FileContent /\ \A u \in Task : Content(Stranger, "whole").of # u
  BY ConversionAssumption DEF ConversionAssumption, Content, FileContent
<1>5. FilesTyped'
  <2>1. fs' \in [DOMAIN fs' -> FileContent]
    BY <1>3, <1>4 DEF FilesInv, FilesTyped
  <2>. QED BY <1>1, <2>1 DEF FilesInv, FilesTyped
<1>6. NamesTyped'
  BY <1>1, SetStays DEF FilesInv, NamesTyped, NamesOf
<1>7. \A u \in Task : Safe(u)' => Safe(u)
  BY <1>1, SafeBefore
<1>8. NoStrayWriting'
  <2>1. \A u \in Task : fs'[p] # Content(u, "writing")
    BY <1>3 DEF Content
  <2>. QED BY <1>1, <1>3, <1>7, <2>1 DEF FilesInv, NoStrayWriting
<1>9. AsidesApart'
  BY <1>1, <1>3 DEF FilesInv, AsidesApart, SetAside, Exists
<1>10. MediaKnown'
  <2>. SUFFICES ASSUME NEW u \in Task, Safe(u)' PROVE Aside(u)' \/ Stage(u)'
    BY DEF MediaKnown
  <2>1. \A q : Good(q, u) => Good(q, u)'
    BY <1>3 DEF Good, Exists
  <2>2. Aside(u) => Aside(u)'
    BY <1>1, <1>3, <2>1 DEF Aside, SetAside
  <2>3. InputOf(u)' = InputOf(u) /\ (GoesBack' <=> GoesBack) /\ RelocatedName(u)' = RelocatedName(u)
        /\ task'[u] = task[u] /\ task[u] \in TaskRow
    BY <1>1, SetStays DEF FilesInv, FilesTyped, RelocatedName
  <2>4. InPlace(u) => InPlace(u)'
    <3>. SUFFICES ASSUME InPlace(u) PROVE InPlace(u)'
      OBVIOUS
    <3>1. InputOf(u) # p
      <4>1. u # t /\ set.kind[t] # "none" /\ set.kind[u] # "none"
        BY <1>1, <1>2 DEF InPlace, NamesOf
      <4>2. set.dir[u] # set.dir[t]
        BY <1>2, <4>1 DEF InPlace, OneInputEach
      <4>. QED BY <1>2, <4>2, NameParts
    <3>2. PICK q \in DOMAIN fs : Good(q, u) /\ q[2] # "sma"
      BY DEF InPlace
    <3>3. q \in DOMAIN fs' /\ Good(q, u)'
      BY <1>3, <2>1, <3>2
    <3>4. Exists(InputOf(u))' => Good(InputOf(u), u)'
      BY <1>3, <2>3, <3>1 DEF InPlace, Good, Exists
    <3>. QED BY <1>1, <3>2, <3>3, <3>4 DEF InPlace
  <2>5. ASSUME Stage(u) PROVE Stage(u)'
    <3>1. task[u].pc \in {"queued", "names", "copy", "failed"} => Stage(u)'
      BY <2>1, <2>3, <2>4, <2>5 DEF Stage, Ended, Begun
    <3>2. task[u].pc \in {"copying", "start", "encode", "rename"} => Stage(u)'
      BY <1>3, <2>1, <2>3, <2>5 DEF Stage, Ended, Begun, Exists
    <3>3. task[u].pc \in Ended \cup {"done"} => Stage(u)'
      BY <2>1, <2>3, <2>4, <2>5 DEF Stage, Ended, Begun
    <3>. QED BY <2>3, <3>1, <3>2, <3>3 DEF TaskRow, FilePc, Ended, Begun
  <2>. QED BY <1>7, <2>2, <2>5 DEF FilesInv, MediaKnown
<1>. QED BY <1>5, <1>6, <1>8, <1>9, <1>10 DEF FilesInv

\* Every step keeps the invariant.
LEMMA FileStepKeeps == OneInputEach /\ FilesInv /\ [FileNext]_fileVars => FilesInv'
<1>. SUFFICES ASSUME OneInputEach, FilesInv, [FileNext]_fileVars PROVE FilesInv'
  OBVIOUS
<1>1. ASSUME NEW t \in Task, TaskStep(t) PROVE FilesInv'
  BY <1>1, TaskStepKeeps DEF StepKept
<1>2. ASSUME NEW t \in Task, KillTask(t) PROVE FilesInv'
  BY <1>2, KillTaskKeeps DEF StepKept
<1>3. ASSUME NEW t \in Task, Arrive(t) PROVE FilesInv'
  BY <1>3, ArriveKeeps
<1>4. CASE WipeOutput
  BY <1>4, WipeOutputKeeps
<1>5. ASSUME NEW p \in DOMAIN fs, SweepOutput(p) PROVE FilesInv'
  BY <1>5, SweepOutputKeeps
<1>6. CASE UNCHANGED fileVars
  <2>1. UNCHANGED <<set, fs, task, harmed, truncated>>
    BY <1>6 DEF fileVars, history
  <2>. QED BY <2>1 DEF FilesInv, FilesTyped, NamesTyped, NamesOf, NoStrayWriting, AsidesApart, SetAside,
         MediaKnown, Safe, Working, Aside, Stage, InPlace, Good, Exists, InputOf, OutputDir, GoesBack,
         RelocatedName
<1>. QED BY <1>1, <1>2, <1>3, <1>4, <1>5, <1>6 DEF FileNext

\* Where the media of every conversion is that was not harmed, is known.
LEMMA FilesInvariance == OneInputEach => (FileSpec => []FilesInv)
<1>. SUFFICES ASSUME OneInputEach PROVE FileSpec => []FilesInv
  OBVIOUS
<1>1. FileInit => FilesInv
  BY FilesStart
<1>2. FilesInv /\ [FileNext]_fileVars => FilesInv'
  BY FileStepKeeps
<1>. QED BY <1>1, <1>2, PTL DEF FileSpec

\* So none of it is lost.
LEMMA FilesHoldMedia == FilesInv => MediaKept
<1>. SUFFICES ASSUME FilesInv, NEW t \in Working \ (harmed \cup truncated)
              PROVE  Holds(fs, t, {"original", "whole"})
  BY DEF MediaKept
<1>1. t \in Task /\ Safe(t) /\ task[t] \in TaskRow
  BY DEF Safe, Working, FilesInv, FilesTyped
<1>2. \E p : Good(p, t)
  <2>1. CASE Aside(t)
    BY <2>1 DEF Aside
  <2>2. CASE Stage(t)
    <3>1. task[t].pc \in {"queued", "names", "copy", "failed"} => \E p : Good(p, t)
      BY <2>2 DEF Stage, InPlace
    <3>2. task[t].pc \in {"copying", "start", "encode", "rename"} => \E p : Good(p, t)
      BY <2>2 DEF Stage
    <3>3. task[t].pc \in Ended \cup {"done"} => \E p : Good(p, t)
      BY <2>2 DEF Stage, Ended, Begun
    <3>. QED BY <1>1, <3>1, <3>2, <3>3 DEF TaskRow, FilePc, Ended, Begun
  <2>. QED BY <1>1, <2>1, <2>2 DEF FilesInv, MediaKnown
<1>. QED BY <1>2 DEF Good, Exists, Holds

-----------------------------------------------------------------------------
(* The stranger's file.                                                    *)

\* Two inputs of one directory are one to be converted and one to be done again.
InputsApart ==
  \A s \in Setups, t, u \in Task :
    t # u /\ s.kind[t] # "none" /\ s.kind[u] # "none" /\ s.dir[t] = s.dir[u] =>
      {s.kind[t], s.kind[u]} = {"convert", "redo"}

\* The setups in which what comes beside an input is to stay.
Leaves == ~ set.moveto /\ \A t \in Task : set.kind[t] # "redo"

BesideInput(t) == <<set.dir[t], "mp4", 0>>

\* A file came beside the input of t, whose own names are others.
Host(t) == LET r == task[t] IN
  /\ set.kind[t] = "convert" /\ Exists(BesideInput(t))
  /\ fs[BesideInput(t)] = Content(Stranger, "whole")
  /\ r.pc \in {"start", "encode", "rename"} => r.out # BesideInput(t)
  /\ r.pc \in {"faststart", "swap", "placed"} => r.final # BesideInput(t)

\* What is encoded beside the input is there.
OutThere(t) == task[t].pc = "encode" /\ ~ set.outDir => Exists(task[t].out)

StrangerInv ==
  Leaves => (\A t \in Working : OutThere(t)) /\ (arrived => \E t \in Working : Host(t))

\* Inputs that are apart are not given twice.
LEMMA ApartEach == InputsApart => OneInputEach
BY DEF InputsApart, OneInputEach

\* Nobody else works where t does.
LEMMA OthersElsewhere ==
  ASSUME InputsApart, FilesInv, Leaves, NEW t \in Working, NEW u \in Working, u # t
  PROVE  set.dir[t] \notin OwnDirs(u)
<1>1. set \in Setups /\ t \in Task /\ u \in Task
  BY StepFacts
<1>2. set.dir[u] # set.dir[t]
  BY <1>1 DEF InputsApart, Leaves, Working
<1>. QED BY <1>1, <1>2, NoneLeft DEF OwnDirs

\* The steps of others.
LEMMA HostLeftAlone ==
  ASSUME InputsApart, FilesInv, Leaves, NEW t \in Working, NEW u \in Working, u # t,
         Framed(u), RowFramed(u), UNCHANGED set
  PROVE  (Host(t) => Host(t)') /\ (OutThere(t) => OutThere(t)')
<1>1. /\ t \in Task /\ u \in Task /\ task'[t] = task[t] /\ BesideInput(t)' = BesideInput(t)
      /\ set.dir[t] \notin OwnDirs(u) /\ NamesOf(t)
  BY StepFacts, OthersRows, OthersElsewhere DEF BesideInput
<1>2. BesideInput(t)[1] = set.dir[t]
  BY DEF BesideInput
<1>3. Host(t) => Host(t)'
  BY <1>1, <1>2 DEF Host, Framed, Ours, Stays, Exists, Content
<1>4. OutThere(t) => OutThere(t)'
  BY <1>1 DEF OutThere, NamesOf, OutputDir, Framed, Ours, Stays, Exists
<1>. QED BY <1>3, <1>4

\* Its own steps.
LEMMA HostStep ==
  ASSUME FilesInv, Leaves, NEW t \in Working, Host(t), TaskStep(t)
  PROVE  Host(t)'
<1>. DEFINE p == BesideInput(t)  out == task[t].out  final == task[t].final
            kept == p \in DOMAIN fs' /\ fs'[p] = fs[p]
<1>1. task[t] \in TaskRow /\ NamesOf(t) /\ t \in Task /\ set \in Setups /\ DOMAIN task = Task
  BY StepFacts
<1>2. /\ task[t].src = InputOf(t) /\ InputOf(t)[2] = "mkv" /\ set.kind[t] = "convert"
      /\ p[1] = set.dir[t] /\ p[2] = "mp4" /\ p \in DOMAIN fs /\ fs[p] = Content(Stranger, "whole")
      /\ set.dir[t] \notin {"out", "dest", "bin", "none"} /\ fs[p] # Content(t, "writing")
      /\ task[t].pc \in {"start", "encode", "rename"} => out # p
      /\ task[t].pc \in {"faststart", "swap", "placed"} => final # p
  BY <1>1, NameParts, NoneLeft, ConversionAssumption
     DEF Host, NamesOf, BesideInput, Exists, Content, ConversionAssumption
<1>3. Harm(t) /\ UNCHANGED set
  BY DEF TaskStep, BeginTask, ChooseNames, StartFfmpeg, FinishFfmpeg, NextAttempt, ConversionFails,
         RenameOutput, BypassCopy, EndCopy, FastStart, SwapIn, Place, NameInBin, CopyToBin,
         RestoreOutput, Replicate, CleanUp, RemoveOriginal
<1>4. p' = p
  BY <1>3 DEF BesideInput
<1>5. ASSUME kept, task'[t].pc \in {"start", "encode", "rename"} => task'[t].out # p,
             task'[t].pc \in {"faststart", "swap", "placed"} => task'[t].final # p
      PROVE  Host(t)'
  BY <1>2, <1>3, <1>4, <1>5 DEF Host, Exists
<1>. HIDE DEF p
<1>6. ASSUME NEW pc \in FilePc, Go(t, pc)
      PROVE  task'[t].pc = pc /\ task'[t].out = out /\ task'[t].final = final
  BY <1>1, <1>2, <1>6, GoChange
<1>7. fs' = fs => kept
  BY <1>2
<1>8. CASE BeginTask(t)
  <2>1. PICK pc \in {"copy", "names", "failed"} : Go(t, pc) /\ fs' = fs
    BY <1>8 DEF BeginTask
  <2>. QED BY <2>1, <1>5, <1>6, <1>7 DEF FilePc
<1>9. CASE ChooseNames(t)
  <2>1. ~ InTheWay(t)
    BY <1>1, <1>2, NameParts DEF InTheWay
  <2>2. Named(t, InputOf(t), fs) /\ task[t].pc = "names" /\ InputOf(t) \in Name
    BY <1>1, <1>9, <2>1, RowOf DEF ChooseNames, AtPc
  <2>3. /\ fs' = [q \in DOMAIN fs \ Leftover(t) |-> fs[q]] /\ \A q \in Leftover(t) : q[2] = "sma"
        /\ task'[t].pc = "start" /\ task'[t].out \notin DOMAIN fs'
    BY <2>2, NamedChange
  <2>4. kept
    BY <1>2, <2>3
  <2>. QED BY <1>5, <2>3, <2>4
<1>10. CASE StartFfmpeg(t)
  <2>1. task[t].pc = "start" /\ Go(t, "encode") /\ Opened(t, out) /\ UNCHANGED truncated
    BY <1>10 DEF StartFfmpeg, AtPc, history
  <2>2. out[1] \in OwnDirs(t) /\ Ours(t, out)
    BY <1>1, <2>1, OwnNames DEF NamesOf
  <2>3. DOMAIN fs' = DOMAIN fs \cup {out} /\ \A x \in DOMAIN fs : x # out => fs'[x] = fs[x]
    BY <1>3, <2>1, <2>2, OpenedFrame
  <2>. QED BY <1>2, <1>5, <1>6, <2>1, <2>3 DEF FilePc
<1>11. CASE FinishFfmpeg(t)
  <2>1. task[t].pc = "encode" /\ Go(t, "rename") /\ fs' = Settled(t, Result(t, task[t].src))
    BY <1>11 DEF FinishFfmpeg, AtPc
  <2>2. kept
    BY <1>2, <2>1, SettledFiles
  <2>. QED BY <1>2, <1>5, <1>6, <2>1, <2>2 DEF FilePc
<1>12. CASE NextAttempt(t)
  <2>1. task[t].pc = "encode" /\ Go(t, "start") /\ fs' = PartialRemoved(t)
    BY <1>12 DEF NextAttempt, AtPc
  <2>2. kept
    BY <1>2, <2>1, PartialGone
  <2>. QED BY <1>2, <1>5, <1>6, <2>1, <2>2 DEF FilePc
<1>13. CASE ConversionFails(t)
  <2>1. task[t].pc = "encode" /\ Go(t, "failed") /\ fs' = PartialRemoved(t)
    BY <1>2, <1>13 DEF ConversionFails, AtPc, Restored
  <2>2. kept
    BY <1>2, <2>1, PartialGone
  <2>. QED BY <1>5, <1>6, <2>1, <2>2 DEF FilePc
<1>14. CASE RenameOutput(t)
  <2>. DEFINE q == PlacedAt(t)
              r(x) == [task[t] EXCEPT !.pc = "faststart", !.final = x, !.delete = set.delete]
  <2>1. task[t].pc = "rename" /\ out # p
    BY <1>2, <1>14 DEF RenameOutput, AtPc
  <2>2. \A x : r(x).pc = "faststart" /\ r(x).final = x
    BY <1>1 DEF TaskRow
  <2>3. CASE Exists(out)
    <3>1. fs' = Moved(out, q, fs) /\ task' = [task EXCEPT ![t] = r(q)] /\ FreeFinals(t) # {}
      BY <1>14, <2>3 DEF RenameOutput
    <3>2. q # p
      <4>1. FinalName(t, FirstOf(FreeFinals(t))) \notin DOMAIN fs
        <5>. DEFINE names == [n \in Number |-> {FinalName(t, n)}]
                    k == FirstOf(Numbers(names, fs))
        <5>1. k \in Number /\ names[k] \cap DOMAIN fs = {}
          BY <3>1, FirstFree DEF FreeFinals
        <5>. HIDE DEF k
        <5>2. FinalName(t, k) \notin DOMAIN fs
          BY <5>1
        <5>. QED BY <5>2 DEF k, FreeFinals
      <4>. QED BY <1>2, <2>1, <4>1 DEF PlacedAt, Exists
    <3>. HIDE DEF q, r
    <3>3. kept
      BY <1>2, <2>1, <3>1, <3>2 DEF Moved, With, Without
    <3>. QED BY <1>1, <1>5, <2>2, <3>1, <3>2, <3>3
  <2>4. CASE ~ Exists(out)
    <3>1. fs' = fs /\ task' = [task EXCEPT ![t] = r(out)]
      BY <1>14, <2>4 DEF RenameOutput
    <3>. HIDE DEF r
    <3>. QED BY <1>1, <1>5, <1>7, <2>1, <2>2, <3>1
  <2>. QED BY <2>3, <2>4
<1>15. CASE BypassCopy(t) \/ EndCopy(t)
  BY <1>1, <1>2, <1>15 DEF BypassCopy, EndCopy, AtPc, NamesOf
<1>16. CASE FastStart(t)
  <2>1. task[t].pc = "faststart" /\ final # p /\ RelocatedName(t) # p
    BY <1>1, <1>2, <1>16, NameParts DEF FastStart, AtPc
  <2>2. PICK pc \in {"swap", "placed"} : Go(t, pc)
    BY <1>16 DEF FastStart
  <2>3. kept
    BY <1>2, <1>7, <1>16, <2>1 DEF FastStart, With, Without
  <2>. QED BY <1>5, <1>6, <2>1, <2>2, <2>3 DEF FilePc
<1>17. CASE SwapIn(t)
  <2>1. task[t].pc = "swap" /\ final # p /\ RelocatedName(t) # p /\ Go(t, "placed")
    BY <1>1, <1>2, <1>17, NameParts DEF SwapIn, AtPc
  <2>2. kept
    BY <1>2, <1>7, <1>17, <2>1 DEF SwapIn, Moved, With, Without
  <2>. QED BY <1>5, <1>6, <2>1, <2>2 DEF FilePc
<1>18. CASE Place(t)
  <2>1. PICK pc \in {"recycle", "restore", "replicate"} : Go(t, pc) /\ fs' = fs
    BY <1>18 DEF Place
  <2>. QED BY <2>1, <1>5, <1>6, <1>7 DEF FilePc
<1>19. CASE NameInBin(t)
  <2>1. fs' = fs /\ task'[t].pc \in {"binCopy", "restore", "remove"}
    <3>1. CASE \E b : task' = [task EXCEPT ![t] = [@ EXCEPT !.pc = "binCopy", !.bin = b]]
      BY <1>1, <1>19, <3>1 DEF NameInBin, TaskRow
    <3>2. CASE \E pc \in {"restore", "remove"} : Go(t, pc)
      BY <1>6, <1>19, <3>2 DEF NameInBin, FilePc
    <3>. QED BY <1>19, <3>1, <3>2 DEF NameInBin
  <2>. QED BY <1>5, <1>7, <2>1
<1>20. CASE CopyToBin(t)
  <2>1. PICK pc \in {"restore", "remove"} : Go(t, pc)
    BY <1>20 DEF CopyToBin
  <2>2. task[t].bin # p
    BY <1>1, <1>2, <1>20 DEF CopyToBin, AtPc, NamesOf
  <2>3. kept
    BY <1>2, <1>7, <1>20, <2>2 DEF CopyToBin, With
  <2>. QED BY <1>5, <1>6, <2>1, <2>3 DEF FilePc
<1>21. CASE RestoreOutput(t)
  <2>. DEFINE beside == BesideName(t, final[3])  q == BackName(t)
  <2>1. final # p
    BY <1>1, <1>2, <1>21 DEF RestoreOutput, AtPc, NamesOf, OutputDir, GoesBack
  <2>2. fs' = Moved(final, q, fs) /\ FreeBeside(t) # {} => q # p
    <3>. SUFFICES ASSUME FreeBeside(t) # {} PROVE q # p
      OBVIOUS
    <3>1. BesideName(t, FirstOf(FreeBeside(t))) \notin DOMAIN fs
      <4>. DEFINE names == [n \in Number |-> {BesideName(t, n)}]
                  k == FirstOf(Numbers(names, fs))
      <4>1. k \in Number /\ names[k] \cap DOMAIN fs = {}
        BY FirstFree DEF FreeBeside
      <4>. HIDE DEF k
      <4>2. BesideName(t, k) \notin DOMAIN fs
        BY <4>1
      <4>. QED BY <4>2 DEF k, FreeBeside
    <3>2. BesideName(t, final[3]) # InputOf(t)
      BY <1>1, <1>2, NameParts
    <3>. QED BY <1>2, <3>1, <3>2 DEF BackName, Exists
  <2>3. \/ fs' = fs \/ fs' = Without(final, fs)
        \/ fs' = Moved(final, q, fs) /\ FreeBeside(t) # {}
    BY <1>21 DEF RestoreOutput
  <2>4. task'[t].pc = "cleanup"
    <3>1. CASE Go(t, "cleanup")
      BY <1>6, <3>1 DEF FilePc
    <3>2. CASE \E x : task' = [task EXCEPT ![t] = [@ EXCEPT !.pc = "cleanup", !.final = x]]
      BY <1>1, <3>2 DEF TaskRow
    <3>. QED BY <1>21, <3>1, <3>2 DEF RestoreOutput
  <2>. HIDE DEF q
  <2>5. kept
    BY <1>2, <1>7, <2>1, <2>2, <2>3 DEF Moved, With, Without
  <2>. QED BY <1>5, <2>4, <2>5
<1>22. CASE Replicate(t)
  <2>1. Go(t, "cleanup") /\ fs' = fs
    BY <1>22 DEF Replicate, Leaves
  <2>. QED BY <2>1, <1>5, <1>6, <1>7 DEF FilePc
<1>23. CASE CleanUp(t)
  <2>1. PICK pc \in {"done", "remove", "recycle"} : Go(t, pc) /\ fs' = fs
    BY <1>23 DEF CleanUp, CleanUpNext
  <2>. QED BY <2>1, <1>5, <1>6, <1>7 DEF FilePc
<1>24. CASE RemoveOriginal(t)
  <2>1. Go(t, "done") /\ fs' = Without(task[t].src, fs)
    BY <1>24 DEF RemoveOriginal
  <2>2. kept
    BY <1>2, <2>1 DEF Without
  <2>. QED BY <2>1, <2>2, <1>5, <1>6 DEF FilePc
<1>. QED
  BY <1>8, <1>9, <1>10, <1>11, <1>12, <1>13, <1>14, <1>15, <1>16, <1>17, <1>18, <1>19, <1>20, <1>21,
     <1>22, <1>23, <1>24 DEF TaskStep

\* A step of a task leaves the host in place, and writes what it encodes.
LEMMA StrangerTaskStep ==
  ASSUME InputsApart, FilesInv, Leaves, StrangerInv, NEW u \in Task, TaskStep(u)
  PROVE  StrangerInv'
<1>0. StepKept(u) /\ u \in Working /\ UNCHANGED <<set, arrived>>
  <2>1. UNCHANGED <<set, arrived>> /\ task[u].pc # "done"
    BY DEF TaskStep, AtPc, BeginTask, ChooseNames, StartFfmpeg, FinishFfmpeg, NextAttempt, ConversionFails,
           RenameOutput, BypassCopy, EndCopy, FastStart, SwapIn, Place, NameInBin, CopyToBin,
           RestoreOutput, Replicate, CleanUp, RemoveOriginal, history
  <2>2. u \in Working
    BY <2>1 DEF FilesInv, NamesTyped, NamesOf, Working
  <2>. QED BY <2>1, <2>2, ApartEach, TaskStepKeeps
<1>1. \A t \in Working : t # u => (Host(t) => Host(t)') /\ (OutThere(t) => OutThere(t)')
  BY <1>0, HostLeftAlone DEF StepKept
<1>2. Host(u) => Host(u)'
  BY <1>0, HostStep
<1>3. OutThere(u)'
  <2>1. task[u] \in TaskRow /\ NamesOf(u) /\ u \in Task /\ set \in Setups
    BY <1>0, StepFacts
  <2>2. CASE StartFfmpeg(u)
    <3>1. task[u].pc = "start" /\ Opened(u, task[u].out) /\ Harm(u) /\ UNCHANGED truncated
          /\ Go(u, "encode")
      BY <2>2 DEF StartFfmpeg, AtPc, history, TaskStep
    <3>2. task[u].out[1] \in OwnDirs(u) /\ Ours(u, task[u].out)
      BY <2>1, <3>1, OwnNames DEF NamesOf
    <3>. DEFINE out == task[u].out
    <3>3. out \in DOMAIN fs'
      <4>1. UNCHANGED <<set, truncated>> /\ task[u].pc \notin {"encode", "copying"} /\ u \in Working
        BY <1>0, <3>1
      <4>2. out[1] \in OwnDirs(u) /\ Ours(u, out) /\ Opened(u, out) /\ Harm(u)
        BY <3>1, <3>2
      <4>. HIDE DEF out
      <4>3. DOMAIN fs' = DOMAIN fs \cup {out}
        BY <4>1, <4>2, OpenedFrame
      <4>. QED BY <4>3
    <3>4. task'[u].out = task[u].out
      BY <2>1, <3>1 DEF Go, FilesInv, FilesTyped, TaskRow
    <3>. QED BY <3>3, <3>4 DEF OutThere, Exists
  <2>3. CASE ~ StartFfmpeg(u)
    <3>1. task'[u].pc # "encode"
      <4>1. DOMAIN task = Task /\ task[u].pc \in FilePc
        BY <2>1 DEF FilesInv, FilesTyped, TaskRow
      <4>2. \A pc : Go(u, pc) => task'[u].pc = pc
        BY <2>1, <4>1 DEF Go, TaskRow
      <4>3. \A r : task' = [task EXCEPT ![u] = r] => task'[u] = r
        BY <2>1, <4>1
      <4>4. BeginTask(u) \/ FinishFfmpeg(u) \/ NextAttempt(u) \/ ConversionFails(u) \/ FastStart(u)
            \/ SwapIn(u) \/ Place(u) \/ CopyToBin(u) \/ CleanUp(u) \/ RemoveOriginal(u)
              => task'[u].pc # "encode"
        BY <4>2 DEF BeginTask, FinishFfmpeg, NextAttempt, ConversionFails, FastStart, SwapIn, Place,
                    CopyToBin, CleanUp, CleanUpNext, RemoveOriginal
      <4>5. ChooseNames(u) => task'[u].pc # "encode"
        BY <2>1, <4>3 DEF ChooseNames, StepAside, Named, TaskRow
      <4>6. RenameOutput(u) \/ BypassCopy(u) \/ EndCopy(u) => task'[u].pc # "encode"
        BY <2>1, <4>2, <4>3 DEF RenameOutput, BypassCopy, EndCopy, TaskRow
      <4>7. NameInBin(u) \/ RestoreOutput(u) \/ Replicate(u) => task'[u].pc # "encode"
        BY <2>1, <4>2, <4>3 DEF NameInBin, RestoreOutput, Replicate, TaskRow
      <4>. QED BY <2>3, <4>4, <4>5, <4>6, <4>7 DEF TaskStep
    <3>. QED BY <3>1 DEF OutThere
  <2>. QED BY <2>2, <2>3
<1>4. Working' = Working
  BY <1>0, SetStays
<1>. QED BY <1>0, <1>1, <1>2, <1>3, <1>4 DEF StrangerInv

\* Every step leaves the stranger a host.
LEMMA StrangerStep ==
  InputsApart /\ FilesInv /\ StrangerInv /\ [FileNext]_fileVars => StrangerInv'
<1>. SUFFICES ASSUME InputsApart, FilesInv, StrangerInv, [FileNext]_fileVars, Leaves'
              PROVE  StrangerInv'
  BY DEF StrangerInv
<1>0. UNCHANGED set /\ Leaves /\ Working' = Working /\ set \in Setups /\ "out" \notin Folder
      /\ \A t \in Task : BesideInput(t)' = BesideInput(t) /\ BesideInput(t)[1] = set.dir[t]
                         /\ BesideInput(t)[2] = "mp4" /\ set.dir[t] \in Folder
  <2>1. UNCHANGED set
    BY DEF FileNext, TaskStep, AtPc, BeginTask, ChooseNames, StartFfmpeg, FinishFfmpeg, NextAttempt,
           ConversionFails, RenameOutput, BypassCopy, EndCopy, FastStart, SwapIn, Place, NameInBin, CopyToBin,
           RestoreOutput, Replicate, CleanUp, RemoveOriginal, KillTask, Arrive, WipeOutput, SweepOutput,
           fileVars
  <2>. QED BY <2>1, SetStays, ConversionAssumption
           DEF Leaves, BesideInput, ConversionAssumption, Setup, FilesInv, FilesTyped
<1>1. ASSUME NEW u \in Task, TaskStep(u) PROVE StrangerInv'
  BY <1>0, <1>1, StrangerTaskStep
<1>2. ASSUME NEW u \in Task, KillTask(u) PROVE StrangerInv'
  <2>1. /\ task[u].pc \notin {"queued", "done", "failed"} /\ UNCHANGED arrived
        /\ fs' = Settled(u, "cut") /\ task' = [task EXCEPT ![u] = Queued(u)]
    BY <1>2 DEF KillTask
  <2>2. u \in Working /\ DOMAIN task = Task
    BY <2>1 DEF FilesInv, NamesTyped, NamesOf, Working, FilesTyped
  <2>3. \A t \in Working : t # u => (Host(t) => Host(t)') /\ (OutThere(t) => OutThere(t)')
    BY <1>0, <1>2, <2>2, HostLeftAlone, KillTaskKeeps, ApartEach DEF StepKept
  <2>4. task'[u].pc = "queued"
    BY <2>1, <2>2 DEF Queued
  <2>5. OutThere(u)'
    BY <2>4 DEF OutThere
  <2>6. Host(u) => Host(u)'
    <3>1. u # Stranger
      BY ConversionAssumption DEF ConversionAssumption
    <3>2. DOMAIN fs' = DOMAIN fs /\ \A p \in DOMAIN fs : fs[p] = Content(Stranger, "whole") => fs'[p] = fs[p]
      <4>1. Content(Stranger, "whole") # Content(u, "writing")
        BY <3>1 DEF Content
      <4>2. DOMAIN Settled(u, "cut") = DOMAIN fs
            /\ \A p \in DOMAIN fs : fs[p] # Content(u, "writing") => Settled(u, "cut")[p] = fs[p]
        BY SettledFiles
      <4>. QED BY <2>1, <4>1, <4>2
    <3>. QED BY <1>0, <1>2, <2>4, <3>2 DEF Host, Exists
  <2>. QED BY <1>0, <2>1, <2>3, <2>5, <2>6 DEF StrangerInv
<1>3. ASSUME NEW t \in Task, Arrive(t) PROVE StrangerInv'
  <2>. DEFINE p == BesideInput(t)
  <2>1. /\ task[t].pc = "encode" /\ p \notin DOMAIN fs /\ fs' = With(p, Content(Stranger, "whole"), fs)
        /\ UNCHANGED task
    BY <1>3 DEF Arrive, AtPc, Exists, BesideInput
  <2>2. NamesOf(t) /\ t \in Working /\ set.kind[t] = "convert"
    BY <1>0, <2>1 DEF FilesInv, NamesTyped, NamesOf, Working, Leaves
  <2>3. DOMAIN fs' = DOMAIN fs \cup {p} /\ fs'[p] = Content(Stranger, "whole")
    BY <2>1 DEF With
  <2>4. task[t].out # p
    BY <1>0, <2>1, <2>2 DEF OutThere, StrangerInv, Exists, NamesOf, OutputDir
  <2>5. Host(t)'
    BY <1>0, <2>1, <2>2, <2>3, <2>4 DEF Host, Exists
  <2>6. \A u \in Working : OutThere(u)'
    BY <1>0, <2>1, <2>3 DEF OutThere, StrangerInv, Exists
  <2>. QED BY <1>0, <2>2, <2>5, <2>6 DEF StrangerInv
<1>4. ASSUME NEW gone, \A p \in gone : p[1] = "out", fs' = [p \in DOMAIN fs \ gone |-> fs[p]],
             UNCHANGED <<task, arrived>>
      PROVE  StrangerInv'
  <2>1. DOMAIN fs' = DOMAIN fs \ gone /\ \A p \in DOMAIN fs' : fs'[p] = fs[p]
    BY <1>4
  <2>2. ASSUME NEW t \in Working PROVE (Host(t) => Host(t)') /\ (OutThere(t) => OutThere(t)')
    <3>1. t \in Task /\ NamesOf(t)
      BY StepFacts
    <3>2. Host(t) => Host(t)'
      BY <1>0, <1>4, <2>1, <3>1 DEF Host, Exists
    <3>3. OutThere(t) => OutThere(t)'
      BY <1>0, <1>4, <2>1, <3>1 DEF OutThere, Exists, NamesOf, OutputDir
    <3>. QED BY <3>2, <3>3
  <2>. QED BY <1>0, <1>4, <2>2 DEF StrangerInv
<1>5. CASE WipeOutput
  <2>. DEFINE gone == {p \in DOMAIN fs : p[1] = "out"}
  <2>1. fs' = [p \in DOMAIN fs \ gone |-> fs[p]] /\ UNCHANGED <<task, arrived>>
    BY <1>5 DEF WipeOutput
  <2>2. \A p \in gone : p[1] = "out"
    OBVIOUS
  <2>. HIDE DEF gone
  <2>. QED BY <1>4, <2>1, <2>2
<1>6. ASSUME NEW x \in DOMAIN fs, SweepOutput(x) PROVE StrangerInv'
  <2>. DEFINE gone == {x}
  <2>1. fs' = [p \in DOMAIN fs \ gone |-> fs[p]] /\ UNCHANGED <<task, arrived>>
    BY <1>6 DEF SweepOutput, Without, history
  <2>2. \A p \in gone : p[1] = "out"
    BY <1>6 DEF SweepOutput
  <2>. HIDE DEF gone
  <2>. QED BY <1>4, <2>1, <2>2
<1>7. CASE UNCHANGED fileVars
  <2>1. UNCHANGED <<set, fs, task, arrived>>
    BY <1>7 DEF fileVars, history
  <2>. QED BY <1>0, <2>1 DEF StrangerInv, Host, OutThere, Exists, Working
<1>. QED BY <1>1, <1>2, <1>3, <1>5, <1>6, <1>7 DEF FileNext

\* Nothing that was converted is lost, and nothing that came beside it, whatever step fails, in
\* which order, and however often: for any number of conversions whose inputs are not of
\* one name, unless one is to be converted to the other's (mediaprocessor.py, process).
THEOREM NothingIsLost == InputsApart => (FileSpec => []NothingLost)
<1>. SUFFICES ASSUME InputsApart PROVE FileSpec => []NothingLost
  OBVIOUS
<1>1. FileSpec => []FilesInv
  BY FilesInvariance, ApartEach
<1>2. FileInit => StrangerInv
  <2>. SUFFICES ASSUME FileInit PROVE (\A t \in Working : OutThere(t)) /\ ~ arrived
    BY DEF StrangerInv
  <2>1. set \in Setups /\ ~ arrived
    BY DEF FileInit
  <2>2. \A t \in Task : task[t].pc # "encode"
    <3>. TAKE t \in Task
    <3>1. task[t] = IF set.kind[t] = "none" THEN [Queued(t) EXCEPT !.pc = "done"] ELSE Queued(t)
      BY DEF FileInit
    <3>2. Queued(t).pc = "queued" /\ [Queued(t) EXCEPT !.pc = "done"].pc = "done"
      BY <2>1, RowOf
    <3>. QED BY <3>1, <3>2
  <2>. QED BY <2>1, <2>2 DEF OutThere, Working
<1>3. FilesInv /\ StrangerInv /\ [FileNext]_fileVars => StrangerInv'
  BY StrangerStep
<1>4. FilesInv /\ StrangerInv => NothingLost
  <2>. SUFFICES ASSUME FilesInv, StrangerInv PROVE StrangerKept
    BY FilesHoldMedia DEF NothingLost
  <2>. QED BY DEF StrangerKept, StrangerInv, Leaves, Host, Holds, Exists, Content
<1>. QED BY <1>1, <1>2, <1>3, <1>4, PTL DEF FileSpec

=============================================================================
