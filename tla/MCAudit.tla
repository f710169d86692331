------------------------------ MODULE MCAudit ------------------------------
(***************************************************************************)
(* Small instances of LibraryAudit for TLC: two nodes, two files that are  *)
(* copies of one title, or one that is damaged and one that is stale.      *)
(***************************************************************************)
EXTENDS LibraryAudit, TLC

CONSTANTS a1, a2, f1, f2

MCTwins == {{f1, f2}}

MCLibraries == {(f1 :> "good" @@ f2 :> "good"), (f1 :> "damaged" @@ f2 :> "original")}

MCAllow(kinds) == [k \in AuditDisturbance |-> IF k \in kinds THEN 1 ELSE 0]
MCAuditOnes == {MCAllow({k}) : k \in AuditDisturbance}

AuditSymmetry == Permutations({a1, a2})

=============================================================================
