----------------------------- MODULE MCJobQueue -----------------------------
(***************************************************************************)
(* Small instances of JobQueue for TLC: two nodes, two paths, two profiles *)
(* ("hq" capped at one slot and costing one unit of two, "lq" two).        *)
(***************************************************************************)
EXTENDS JobQueue, TLC

CONSTANTS p1, p2, c1, c2, n1, n2, hq, lq

Submission(p, c, profile, retries, priority) ==
  [path |-> p, config |-> c, kind |-> "convert", profile |-> profile, args |-> profile,
   maxRetries |-> retries, priority |-> priority]

\* As the webhook handler and the scanner submit: the profile is in the column too.
MCRecorded ==
  {Submission(p1, c1, hq, 1, 0), Submission(p2, c2, hq, 0, 0), Submission(p2, c2, lq, 0, 1)}

MCCap    == hq :> 1
MCCost   == hq :> 1 @@ lq :> 2
MCWeight == lq :> 1

Symmetry == Permutations({n1, n2})

=============================================================================
