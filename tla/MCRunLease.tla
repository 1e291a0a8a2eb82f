----------------------------- MODULE MCRunLease -----------------------------
(* RunLease for TLC: workers that share nothing but the code are           *)
(* interchangeable, and so are runs.                                       *)
EXTENDS RunLease, TLC

Symmetry == Permutations(Workers) \cup Permutations(Runs)
=============================================================================
