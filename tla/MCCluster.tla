----------------------------- MODULE MCCluster ------------------------------
(***************************************************************************)
(* Cluster for TLC: two daemons with a worker each, so that one can be     *)
(* interrupted while the other goes on, or both hold the same submission.  *)
(* Submissions are interchangeable, and so are the daemons with their      *)
(* workers.                                                                *)
(***************************************************************************)
EXTENDS Cluster, TLC

CONSTANTS s1, s2, s3, w1, w2, d1, d2

MCSubmissions == {s1, s2, s3}
TwoSubmissions == {s1, s2}
MCWorkers == {w1, w2}
MCDaemons == {d1, d2}
MCDaemonOf == (w1 :> d1) @@ (w2 :> d2)

SwapDaemons == (w1 :> w2) @@ (w2 :> w1) @@ (d1 :> d2) @@ (d2 :> d1)
Symmetry == Permutations(MCSubmissions) \cup {SwapDaemons}
=============================================================================
