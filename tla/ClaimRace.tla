----------------------------- MODULE ClaimRace -----------------------------
(***************************************************************************)
(* claim_next_job statement by statement (resources/daemon/db.py), between *)
(* the other transactions on the table.  JobQueue takes the claim as one   *)
(* step; here each statement reads what is committed when it starts, the   *)
(* advisory lock is held from its statement to the commit, and SELECT FOR  *)
(* UPDATE SKIP LOCKED locks one row.  The property is that the claim is    *)
(* nevertheless as good as one step.                                       *)
(***************************************************************************)
EXTENDS Integers, FiniteSets

CONSTANTS
  Claimer,        \* workers that claim, each on a connection of its own
  CRow,           \* rows of jobs
  Capped, Uncapped, \* two profiles, one with a cap
  ProfileOf,      \* row -> its effective profile
  CapOf,          \* the cap of Capped
  NoClaimer, NoRow

ASSUME ClaimAssumption ==
  /\ NoClaimer \notin Claimer /\ NoRow \notin CRow /\ IsFiniteSet(CRow)
  /\ ProfileOf \in [CRow -> {Capped, Uncapped}]
  /\ CapOf \in Nat \ {0}

VARIABLES
  locking,    \* the configuration has some cap, cost or weight
  committed,  \* row -> the status other transactions see
  lockedBy,   \* row -> the transaction that has locked it
  advisory,   \* holder of the advisory lock
  claim       \* claimer -> its transaction: pc, profiles at cap, the row selected

claimVars == <<locking, committed, lockedBy, advisory, claim>>

NoClaim == [pc |-> "none", skip |-> {}, row |-> NoRow]

ClaimInit ==
  /\ locking \in BOOLEAN
  /\ committed = [r \in CRow |-> "pending"]
  /\ lockedBy = [r \in CRow |-> NoClaimer]
  /\ advisory = NoClaimer
  /\ claim = [c \in Claimer |-> NoClaim]

ClaimAt(c, pc) == claim[c].pc = pc

RunningRows(p) == {r \in CRow : committed[r] = "running" /\ ProfileOf[r] = p}

-----------------------------------------------------------------------------
\* The first statement: the load balance is read, and does not hold c back.
BeginClaim(c) ==
  /\ ClaimAt(c, "none")
  /\ claim' = [claim EXCEPT ![c].pc = IF locking THEN "lock" ELSE "count"]
  /\ UNCHANGED <<locking, committed, lockedBy, advisory>>

\* Slip: the lock is taken after the counts were read.
TakeAdvisorySlip(c) == TRUE /\ UNCHANGED advisory

\* pg_advisory_xact_lock waits for the holder's transaction to end.
TakeAdvisory(c) == advisory = NoClaimer /\ advisory' = c

LockCaps(c) ==
  /\ ClaimAt(c, "lock")
  /\ TakeAdvisory(c)
  /\ claim' = [claim EXCEPT ![c].pc = "count"]
  /\ UNCHANGED <<locking, committed, lockedBy>>

\* _profiles_at_cap
CountRunning(c) ==
  /\ ClaimAt(c, "count")
  /\ claim' = [claim EXCEPT
       ![c].pc = "select",
       ![c].skip = IF locking /\ Cardinality(RunningRows(Capped)) >= CapOf
                   THEN {Capped} ELSE {}]
  /\ UNCHANGED <<locking, committed, lockedBy, advisory>>

Selectable(c) ==
  {r \in CRow : /\ committed[r] = "pending" /\ lockedBy[r] = NoClaimer
                /\ ProfileOf[r] \notin claim[c].skip}

\* SELECT ... FOR UPDATE SKIP LOCKED; nothing to claim ends the transaction.
SelectRow(c) ==
  /\ ClaimAt(c, "select")
  /\ \/ \E r \in Selectable(c) :
          /\ claim' = [claim EXCEPT ![c].pc = "commit", ![c].row = r]
          /\ lockedBy' = [lockedBy EXCEPT ![r] = c]
          /\ UNCHANGED advisory
     \/ /\ Selectable(c) = {}
        /\ claim' = [claim EXCEPT ![c] = NoClaim]
        /\ advisory' = IF advisory = c THEN NoClaimer ELSE advisory
        /\ UNCHANGED lockedBy
  /\ UNCHANGED <<locking, committed>>

EndOfTransaction(c) ==
  /\ claim' = [claim EXCEPT ![c] = NoClaim]
  /\ lockedBy' = [lockedBy EXCEPT ![claim[c].row] = NoClaimer]
  /\ advisory' = IF advisory = c THEN NoClaimer ELSE advisory

\* UPDATE to running and COMMIT.
CommitClaim(c) ==
  /\ ClaimAt(c, "commit")
  /\ committed' = [committed EXCEPT ![claim[c].row] = "running"]
  /\ EndOfTransaction(c)
  /\ UNCHANGED locking

\* The connection is lost before the commit.
RollBack(c) ==
  /\ ClaimAt(c, "commit")
  /\ EndOfTransaction(c)
  /\ UNCHANGED <<locking, committed>>

\* Any other transaction waits for a row that is locked: a running row is settled or
\* given back, a pending one is cancelled, a settled one requeued.
OtherChange(r, from, to) ==
  /\ lockedBy[r] = NoClaimer /\ committed[r] = from
  /\ committed' = [committed EXCEPT ![r] = to]
  /\ UNCHANGED <<locking, lockedBy, advisory, claim>>

OtherTransaction(r) ==
  \/ OtherChange(r, "running", "settled")
  \/ OtherChange(r, "running", "pending")
  \/ OtherChange(r, "pending", "settled")
  \/ OtherChange(r, "settled", "pending")

ClaimNext ==
  \/ \E c \in Claimer : \/ BeginClaim(c) \/ LockCaps(c) \/ CountRunning(c)
                        \/ SelectRow(c) \/ CommitClaim(c) \/ RollBack(c)
  \/ \E r \in CRow : OtherTransaction(r)

ClaimSpec == ClaimInit /\ [][ClaimNext]_claimVars

-----------------------------------------------------------------------------
ClaimTypeOK ==
  /\ committed \in [CRow -> {"pending", "running", "settled"}]
  /\ lockedBy \in [CRow -> Claimer \cup {NoClaimer}]
  /\ advisory \in Claimer \cup {NoClaimer}
  /\ locking \in BOOLEAN
  /\ claim \in [Claimer -> [pc : {"none", "lock", "count", "select", "commit"},
                            skip : SUBSET {Capped}, row : CRow \cup {NoRow}]]

\* Whatever the other transactions do between the statements of a claim, until its
\* commit the selected row stays one that the whole claim, taken as one step, could
\* take: it is pending, no other claim is about to take it, and its profile is below
\* its cap.  (The load balance, read before the lock, has no such promise.)
ClaimsAsOneStep ==
  \A c \in Claimer : ClaimAt(c, "commit") =>
    LET r == claim[c].row IN
    /\ committed[r] = "pending"
    /\ \A d \in Claimer \ {c} : ClaimAt(d, "commit") => claim[d].row # r
    /\ locking /\ ProfileOf[r] = Capped => Cardinality(RunningRows(Capped)) < CapOf

=============================================================================
