CONSTANTS
  a = a
  b = b
  x = x
  star = star
  pc = pc
  pq = pq
  g1 = g1
  g2 = g2
  None = None
  Groups = {g1, g2}
  Units <- MCUnits
  Rules <- MCRules
  match <- MCMatch
  Commands <- MCCommands
  PolicyGroups <- MCPolicyGroups
  policyGroup <- MCPolicyGroup
  Policies <- MCPolicies
  GroupPolicies <- MCGroupPolicies
  default <- MCDefault
  parent <- MCParent
  Targets <- MCTargets
  MaxGrants = 1
  MaxAsking = 1
SPECIFICATION Spec
INVARIANTS DenyWins AllowIsCovered TesterAgrees RememberedHolds
CHECK_DEADLOCK FALSE
