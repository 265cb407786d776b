---------------------------- MODULE MCPermission ----------------------------
(***************************************************************************)
(* Two units and a third, the text of a command of both, which matches not *)
(* even itself; a wildcard; one policy group of each of two types; and     *)
(* a chain of two asset groups.                                            *)
(***************************************************************************)
EXTENDS Permission, TLC

CONSTANTS a, b, x, star, pc, pq, g1, g2

MCUnits == {a, b, x}
MCRules == MCUnits \cup {star}
MCMatch ==
  [m \in Matchers |-> [r \in MCRules |->
     CASE r = star -> MCUnits
       [] r = x -> {}
       [] OTHER -> {r}]]

command(units, raw) == [parsed |-> TRUE, byLine |-> TRUE, units |-> units, raw |-> raw]
MCCommands ==
  {command(<<b>>, b), command(<<a, b>>, x),
   [parsed |-> FALSE, byLine |-> TRUE, units |-> <<>>, raw |-> a]}

MCPolicyGroups == {pc, pq}
MCPolicyGroup ==
  (pc :> [type |-> "command", allow |-> {star}, deny |-> {}]) @@
  (pq :> [type |-> "query", allow |-> {b}, deny |-> {a}])

policy(allow, deny, groups) == [allow |-> allow, deny |-> deny, groups |-> groups]
MCPolicies == {policy({}, {}, {}), policy({b}, {a}, {pc, pq})}
MCGroupPolicies == {policy({a}, {}, {pq}), policy({}, {b}, {})}
MCDefault ==
  [k \in Kinds |-> CASE k = "kafka" -> policy({}, {}, {})
                    [] k = "redis" -> policy({b}, {a}, {})
                    [] OTHER -> policy({b}, {}, {pq})]
MCTargets == {"asset"}
MCParent == (g1 :> g2) @@ (g2 :> None)
=============================================================================
