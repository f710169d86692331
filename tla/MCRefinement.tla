---------------------------- MODULE MCRefinement ----------------------------
(***************************************************************************)
(* The instances of MCCluster with the lifecycle of their jobs.            *)
(***************************************************************************)
EXTENDS MCCluster, ClusterLifecycle

=============================================================================
