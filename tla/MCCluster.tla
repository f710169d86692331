----------------------------- MODULE MCCluster -----------------------------
(***************************************************************************)
(* Small instances of Cluster for TLC: two nodes of one or two workers,    *)
(* one job, and a bounded number of disturbances of each kind.             *)
(***************************************************************************)
EXTENDS Cluster, TLC

CONSTANTS p1, p2, c1, n1, n2, w1, w2

File(p, retries) ==
  [path |-> p, config |-> c1, kind |-> "convert", profile |-> NoProfile,
   args |-> NoProfile, maxRetries |-> retries, priority |-> 0]

MCOneFile == {File(p1, 0)}
MCRetried == {File(p1, 1)}

MCEmpty == << >>

Allow(kinds) == [k \in Disturbance |-> IF k \in kinds THEN 1 ELSE 0]

MCHealthy ==
  {Allow(kinds) : kinds \in {{"stop", "cancel"}, {"crash", "cancel"}, {"stall", "cancel"},
     {"stall", "defer"}, {"stall", "requeue", "missing"},
     {"defer", "requeue", "command", "missing"}}}

MCPartition == {Allow({"crash", "cut", "cancel", "requeue"})}
MCLive      == {Allow({"crash", "defer", "missing", "delete"}),
                Allow({"hang", "stall", "cut", "cancel"}), Allow({"hang", "stall", "delete"})}
MCStartup   == {Allow({"crash"})}

Symmetry == Permutations(Node) \cup Permutations(WorkerId)

=============================================================================
