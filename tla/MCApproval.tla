----------------------------- MODULE MCApproval -----------------------------
(* Instances of Approval for TLC: each names its requests, and what the
   operators below say of them. *)
EXTENDS Approval, TLC

CONSTANTS s1, a1, a2, ls, df

\* Every request belongs to one session, as the shells a conversation opens do.
\* The first grant asks for ls on a1; any other grant for df on a2, which the
\* first single asks for too.
CONSTANTS FirstAsk
OneSession == [r \in Reqs |-> s1]
AssetOf == [r \in Reqs |-> IF r \in FirstAsk THEN a1 ELSE a2]
CommandOf == [r \in Reqs |-> IF r \in FirstAsk THEN ls ELSE df]

SafetySpec == Init /\ [][Next]_vars
=============================================================================
