----------------------------- MODULE MCRestream -----------------------------
(* Bounds for TLC. *)
EXTENDS Restream

\* Name lookups leave processes behind: fewer edits keep the instance small.
TwoEdits == [l \in BOOLEAN |-> IF l THEN 1 ELSE 2]
OneEdit  == [l \in BOOLEAN |-> 1]
=============================================================================
