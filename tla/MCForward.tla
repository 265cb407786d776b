----------------------------- MODULE MCForward -----------------------------
(* Instances of Forward for TLC: a local rule and a remote one. *)
EXTENDS Forward, TLC

CONSTANTS r1, r2

Address == [r \in Rules |-> r]
Remote == [r \in Rules |-> r = r2]
Symmetry == Permutations(Clients) \cup Permutations(Assets) \cup Permutations(Configs)
=============================================================================
