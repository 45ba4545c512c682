----------------------------- MODULE MCJobLease -----------------------------
(* Two workers compete for one job; four tokens are enough for the row, the *)
(* broadcast row, two runs (the answer of a claim is of the row).           *)
EXTENDS JobLease, TLC

Symmetry == Permutations(Workers) \cup Permutations(Tokens)
=============================================================================
