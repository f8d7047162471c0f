---------------------------- MODULE MCPublishing ----------------------------
(* Instances of Publishing for TLC *)
EXTENDS Publishing, TLC

\* Two requests at a time, of five.
Pairs  == Cardinality({x \in Requests : Busy(x)}) <= 2
Narrow == Init /\ [][Next /\ Pairs']_vars

Symmetry == Permutations(Publishes) \cup Permutations(Deletes)
=============================================================================
