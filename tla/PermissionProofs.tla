-------------------------- MODULE PermissionProofs --------------------------
(***************************************************************************)
(* Theorems about Permission, for any rules, policies, groups and          *)
(* commands: deny rules win, a command is allowed as a whole by one        *)
(* authority, the tester agrees with the check, and remembered commands    *)
(* are not asked about again while the session is approved. The first      *)
(* three hold in every state of the right types; the fourth needs an       *)
(* invariant that ties the history of remembered commands to the items of  *)
(* the session. The last two theorems are about steps: more deny rules     *)
(* never loosen a decision, grants only lift a confirmation, and only a    *)
(* denied grant or one that replaces the items takes this back.            *)
(***************************************************************************)
EXTENDS Permission, WellFoundedInduction, TLAPS

-----------------------------------------------------------------------------
(***************************************************************************)
(* Types.                                                                  *)
(***************************************************************************)

\* The state of the asset, its groups and the session keeps its types
\* (UpdateAsset, UpdateGroup, the saving of grants).
THEOREM TypeCorrect == Spec => []TypeOK
<1>1. Init => TypeOK
  BY DEF Init, TypeOK
<1>2. TypeOK /\ [Next]_vars => TypeOK'
  <2> SUFFICES ASSUME TypeOK, [Next]_vars PROVE TypeOK'
    OBVIOUS
  <2>1. ASSUME NEW c \in Commands, CheckForAsset(c) PROVE TypeOK'
    BY <2>1, SMT DEF CheckForAsset, TypeOK, policyVars, sessionVars
  <2>2. ASSUME NEW c \in Commands, AnswerOnce(c) PROVE TypeOK'
    BY <2>2, SMT DEF AnswerOnce, TypeOK, policyVars, sessionVars
  <2>3. ASSUME NEW c \in Commands, NEW edited \in {{}} \cup {{r} : r \in Rules},
               AnswerRemember(c, edited)
        PROVE TypeOK'
    <3> DEFINE kept == IF edited # {} THEN edited ELSE NormalizeGrantPatterns(c)
    <3>1. c.units \in Seq(Units) /\ c.raw \in Units
      BY CommandsAssumption, SMT
    <3>2. UnitsOf(c) \subseteq Rules /\ c.raw \in Rules
      BY <3>1, RulesAssumption, SMT DEF UnitsOf
    <3>3. kept \subseteq Rules
      BY <3>2, SMT DEF NormalizeGrantPatterns
    <3>4. items' = items \cup {[target |-> "asset", rule |-> r] : r \in kept}
      BY <2>3 DEF AnswerRemember, SaveGrantPatterns
    <3>5. items' \subseteq [target : Targets, rule : Rules]
      <4> HIDE DEF kept
      <4> QED BY <3>3, <3>4, TargetsAssumption, SMT DEF TypeOK
    <3>6. /\ asking' = asking \ {c}
          /\ remembered' \in {remembered, remembered \cup {c}}
          /\ status' \in {status, "approved"}
          /\ UNCHANGED <<kind, home, own, typed, generic, opsctl>>
      BY <2>3, SMT DEF AnswerRemember, SaveGrantPatterns, policyVars
    <3> QED BY <3>5, <3>6, SMT DEF TypeOK
  <2>4. ASSUME NEW target \in Targets, NEW r \in Rules, SubmitGrant(target, r) PROVE TypeOK'
    BY <2>4, SMT DEF SubmitGrant, SaveGrantPatterns, TypeOK, policyVars
  <2>5. ASSUME NEW p \in Policies, NEW g \in Groups \cup {None}, UpdateAsset(p, g) PROVE TypeOK'
    BY <2>5, SMT DEF UpdateAsset, TypeOK, sessionVars
  <2>6. ASSUME NEW g \in Groups, NEW p \in GroupPolicies, NEW q \in GroupPolicies, UpdateGroup(g, p, q)
        PROVE TypeOK'
    BY <2>6, SMT DEF UpdateGroup, TypeOK, sessionVars
  <2>7. CASE UNCHANGED vars
    BY <2>7, SMT DEF vars, TypeOK, policyVars, sessionVars
  <2>8. ASSUME NEW target \in Targets, NEW r \in Rules, OpsctlGrant(target, r) PROVE TypeOK'
    <3>1. CASE GrantAsked(target, r) \/ GrantItemsCreated(target, r)
      BY <3>1, SMT DEF GrantAsked, GrantItemsCreated, TypeOK, policyVars
    <3>2. CASE GrantDenied \/ GrantApproved \/ GrantItemsDeleted
      BY <3>2, SMT DEF GrantDenied, GrantApproved, GrantItemsDeleted, TypeOK, policyVars
    <3> QED BY <2>8, <3>1, <3>2 DEF OpsctlGrant
  <2> QED BY <2>1, <2>2, <2>3, <2>4, <2>5, <2>6, <2>7, <2>8 DEF Next
<1> QED BY <1>1, <1>2, PTL DEF Spec

-----------------------------------------------------------------------------
(***************************************************************************)
(* Lemmas on chains and on the matching of units.                          *)
(***************************************************************************)

\* A chain of groups that goes on stays a chain of groups.
LEMMA AddParentType ==
  ASSUME NEW chain \in Seq(Groups), chain # <<>>
  PROVE  AddParent(chain) \in Seq(Groups) /\ AddParent(chain) # <<>>
<1> DEFINE last == chain[Len(chain)]
<1>1. last \in Groups
  BY SMT
<1>2. parent[last] \in Groups \cup {None}
  BY <1>1, ParentAssumption, SMT
<1> QED BY <1>1, <1>2, SMT DEF AddParent

\* resolveGroupChain returns a sequence of groups.
LEMMA ChainType ==
  ASSUME TypeOK
  PROVE  Chain \in Seq(Groups)
<1>1. CASE home = None
  BY <1>1, SMT DEF Chain, resolveGroupChain
<1>2. CASE home # None
  <2>1. <<home>> \in Seq(Groups) /\ <<home>> # <<>>
    BY <1>2, SMT DEF TypeOK
  <2>2. AddParent(<<home>>) \in Seq(Groups) /\ AddParent(<<home>>) # <<>>
    BY <2>1, AddParentType
  <2>3. /\ AddParent(AddParent(<<home>>)) \in Seq(Groups)
        /\ AddParent(AddParent(<<home>>)) # <<>>
    BY <2>2, AddParentType
  <2>4. /\ AddParent(AddParent(AddParent(<<home>>))) \in Seq(Groups)
        /\ AddParent(AddParent(AddParent(<<home>>))) # <<>>
    BY <2>3, AddParentType
  <2>5. AddParent(AddParent(AddParent(AddParent(<<home>>)))) \in Seq(Groups)
    BY <2>4, AddParentType
  <2> QED BY <1>2, <2>5 DEF Chain, resolveGroupChain
<1> QED BY <1>1, <1>2

\* A command with units has some text to match.
LEMMA UnitsNonEmpty ==
  ASSUME NEW c \in Commands, c.units # <<>>
  PROVE  UnitsOf(c) # {}
<1>1. c.units \in Seq(Units)
  BY CommandsAssumption, SMT
<1>2. 1 \in DOMAIN c.units
  BY <1>1, SMT
<1>3. c.units[1] \in UnitsOf(c)
  BY <1>2, Zenon DEF UnitsOf
<1> QED BY <1>3, Zenon

\* What the checks of SQL match is never empty.
LEMMA TextsNonEmpty ==
  ASSUME NEW c \in Commands
  PROVE  StatementTexts(c) # {}
BY UnitsNonEmpty, Zenon DEF StatementTexts

\* Without rules nothing but the empty command is covered.
LEMMA CoveredNeedsRules ==
  ASSUME NEW m, NEW rules, NEW units, units # {}, Covered(m, rules, units)
  PROVE  rules # {}
BY Zenon DEF Covered

-----------------------------------------------------------------------------
(***************************************************************************)
(* The tester and the check.                                               *)
(***************************************************************************)

\* collectGroupGenericRules collects what CheckGroupGenericPolicy collects.
LEMMA SameGenericRules ==
  TestGroupRules.deny = GroupGenericDeny /\ TestGroupRules.allow = GroupGenericAllow
<1> DEFINE rules == {ExpandPolicy("command", generic[TestGroups[i]]) : i \in DOMAIN TestGroups}
<1>1. rules = {ExpandPolicy("command", generic[g]) : g \in ChainGroups}
  <2>1. TestGroups = Chain
    BY DEF TestGroups, Chain
  <2> QED BY <2>1, Zenon DEF ChainGroups
<1>2. /\ TestGroupRules.deny = UNION {r.deny : r \in rules}
      /\ TestGroupRules.allow = UNION {r.allow : r \in rules}
  BY DEF TestGroupRules
<1>3. {r.deny : r \in rules} = {ExpandPolicy("command", generic[g]).deny : g \in ChainGroups}
  BY <1>1, Zenon
<1>4. {r.allow : r \in rules} = {ExpandPolicy("command", generic[g]).allow : g \in ChainGroups}
  BY <1>1, Zenon
<1> QED BY <1>2, <1>3, <1>4 DEF GroupGenericDeny, GroupGenericAllow

\* The merge of the tester is the collection of the check.
LEMMA SameMerge ==
  ASSUME TypeOK, NEW t
  PROVE  MergePoliciesForTest(t) = CollectPolicies(t, policyHoldersForAsset)
<1> DEFINE holders == policyHoldersForAsset
           collected == [i \in DOMAIN holders |-> ExpandPolicy(t, holders[i])]
           merged == [i \in DOMAIN (<<own>> \o TestGroups) |->
                        ExpandPolicy(t, IF i = 1 THEN own ELSE typed[TestGroups[i - 1]])]
<1>1. TestGroups = Chain
  BY DEF TestGroups, Chain
<1>2. Chain \in Seq(Groups)
  BY ChainType
<1> DEFINE rest == [i \in DOMAIN Chain |-> typed[Chain[i]]]
<1>3. rest \in Seq(GroupPolicies) /\ Len(rest) = Len(Chain)
  BY <1>2, SMT DEF TypeOK
<1>4. holders = <<own>> \o rest
  BY DEF policyHoldersForAsset
<1>5. DOMAIN holders = 1..(1 + Len(Chain)) /\ DOMAIN (<<own>> \o TestGroups) = 1..(1 + Len(Chain))
  <2> HIDE DEF rest, holders
  <2> QED BY <1>1, <1>2, <1>3, <1>4, SMT
<1>6. ASSUME NEW i \in 1..(1 + Len(Chain))
      PROVE  holders[i] = IF i = 1 THEN own ELSE typed[TestGroups[i - 1]]
  <2>1. holders[i] = IF i = 1 THEN own ELSE rest[i - 1]
    <3> HIDE DEF rest, holders
    <3> QED BY <1>2, <1>3, <1>4, SMT
  <2>2. i # 1 => i - 1 \in DOMAIN Chain
    BY <1>2, SMT
  <2>3. i # 1 => rest[i - 1] = typed[Chain[i - 1]]
    BY <2>2, Zenon
  <2> HIDE DEF rest, holders
  <2> QED BY <1>1, <2>1, <2>3
<1>7. collected = merged
  <2> HIDE DEF holders
  <2> QED BY <1>5, <1>6
<1> HIDE DEF collected, merged
<1>8. CollectPolicies(t, holders) =
        LET listing == {i \in DOMAIN collected : collected[i].allow # {}} IN
        [allow |-> UNION {collected[i].allow : i \in {j \in listing : \A k \in listing : j <= k}},
         deny |-> UNION {collected[i].deny : i \in DOMAIN collected}]
  BY DEF CollectPolicies, collected
<1>9. MergePoliciesForTest(t) =
        LET listing == {i \in DOMAIN merged : merged[i].allow # {}} IN
        [allow |-> UNION {merged[i].allow : i \in {j \in listing : \A k \in listing : j <= k}},
         deny |-> UNION {merged[i].deny : i \in DOMAIN merged}]
  BY DEF MergePoliciesForTest, merged
<1> QED BY <1>7, <1>8, <1>9

\* Where both have the same result for the typed policy, the generic rules lead
\* to the same decision, up to a grant.
LEMMA SameSettling ==
  ASSUME NEW result \in {"allow", "deny", "confirm"}, NEW units, units # {}
  PROVE  LET checked == Settle(CheckGroupGenericPolicy(units), result, units)
             tested == TestSettle(genericMatcher[kind], result, units)
         IN \/ checked = tested
            \/ tested = "confirm" /\ checked = "allow" /\ matchGrantPatterns(units)
<1> DEFINE m == genericMatcher[kind]
           hit == Hit(m, GroupGenericDeny, units)
           covered == Covered(m, GroupGenericAllow, units)
<1>1. covered => GroupGenericAllow # {}
  BY CoveredNeedsRules, Zenon
<1>2. CheckGroupGenericPolicy(units) =
        IF hit THEN "deny" ELSE IF covered THEN "allow" ELSE "confirm"
  BY <1>1 DEF CheckGroupGenericPolicy
<1>3. TestSettle(m, result, units) =
        IF hit THEN "deny" ELSE IF result = "confirm" /\ covered THEN "allow" ELSE result
  BY SameGenericRules DEF TestSettle
<1> HIDE DEF m, hit, covered
<1>4. CASE hit
  <2>1. CheckGroupGenericPolicy(units) = "deny" /\ TestSettle(m, result, units) = "deny"
    BY <1>2, <1>3, <1>4
  <2> QED BY <2>1 DEF Settle, m
<1>5. CASE ~hit /\ covered
  <2>1. CheckGroupGenericPolicy(units) = "allow"
    BY <1>2, <1>5
  <2>2. TestSettle(m, result, units) = IF result = "confirm" THEN "allow" ELSE result
    BY <1>3, <1>5
  <2> QED BY <2>1, <2>2 DEF Settle, m
<1>6. CASE ~hit /\ ~covered
  <2>1. CheckGroupGenericPolicy(units) = "confirm"
    BY <1>2, <1>6
  <2>2. TestSettle(m, result, units) = result
    BY <1>3, <1>6
  <2> QED BY <2>1, <2>2 DEF Settle, m
<1> QED BY <1>4, <1>5, <1>6

\* The results of the typed policies.
LEMMA PolicyResults ==
  ASSUME NEW k, NEW p, NEW units, NEW statements
  PROVE  /\ CheckPolicyRules(k, p, units) \in {"allow", "deny", "confirm"}
         /\ checkQueryPolicyRules(p, statements) \in {"allow", "deny", "confirm"}
BY Zenon DEF CheckPolicyRules, checkQueryPolicyRules

\* What is matched of a command is what its check matches.
LEMMA MatchedByKind ==
  ASSUME NEW c \in Commands
  PROVE  /\ kind \in {"ssh", "serial", "k8s"} => Matched(c) = UnitsOf(c)
         /\ kind = "database" => Matched(c) = StatementTexts(c)
         /\ kind \in {"redis", "mongodb", "kafka"} => Matched(c) = {c.raw}
<1>1. CASE kind \in {"ssh", "serial", "k8s"}
  BY <1>1, SMT DEF Matched
<1>2. CASE kind = "database"
  BY <1>2, SMT DEF Matched
<1>3. CASE kind \in {"redis", "mongodb", "kafka"}
  BY <1>3, SMT DEF Matched
<1> QED BY <1>1, <1>2, <1>3, SMT

\* ssh: the tester gathers the rules policy by policy, the check from their set.
LEMMA TesterAgreesSSH ==
  ASSUME kind = "ssh", NEW c \in Commands
  PROVE  \/ checkCommandPolicyPermission(c) = testSSHPolicy(c)
         \/ testSSHPolicy(c) = "confirm" /\ checkCommandPolicyPermission(c) = "allow"
              /\ matchGrantPatterns(UnitsOf(c))
<1> DEFINE policies == {own} \cup {generic[g] : g \in ChainGroups}
           deny == UNION {ExpandPolicy("command", p).deny : p \in policies}
           allow == UNION {ExpandPolicy("command", p).allow : p \in policies}
           current == ExpandPolicy("command", own)
<1>1. deny = current.deny \cup TestGroupRules.deny
  <2>1. deny = current.deny \cup GroupGenericDeny
    BY Zenon DEF GroupGenericDeny
  <2> QED BY <2>1, SameGenericRules
<1>2. allow = current.allow \cup TestGroupRules.allow
  <2>1. allow = current.allow \cup GroupGenericAllow
    BY Zenon DEF GroupGenericAllow
  <2> QED BY <2>1, SameGenericRules
<1>3. checkCommandPolicyPermission(c) =
        IF ~c.parsed \/ c.units = <<>> THEN "confirm"
        ELSE IF Hit("command", deny, UnitsOf(c)) THEN "deny"
        ELSE IF Covered("command", allow, UnitsOf(c)) \/ matchGrantPatterns(UnitsOf(c)) THEN "allow"
        ELSE "confirm"
  BY DEF checkCommandPolicyPermission
<1>4. testSSHPolicy(c) =
        IF ~c.parsed \/ c.units = <<>> THEN "confirm"
        ELSE IF Hit("command", deny, UnitsOf(c)) THEN "deny"
        ELSE IF Covered("command", allow, UnitsOf(c)) THEN "allow"
        ELSE "confirm"
  BY <1>1, <1>2, Zenon DEF testSSHPolicy
<1> HIDE DEF deny, allow, policies, current
<1> QED BY <1>3, <1>4

\* Database, Redis and Kubernetes: the same typed result, settled alike.
LEMMA TesterAgreesTyped ==
  ASSUME TypeOK, kind \in {"database", "redis", "k8s"}, NEW c \in Commands
  PROVE  \/ CheckPermission(c) = TestPolicy(c)
         \/ TestPolicy(c) = "confirm" /\ CheckPermission(c) = "allow"
              /\ matchGrantPatterns(Matched(c))
<1>1. CASE kind = "database"
  <2> DEFINE texts == StatementTexts(c)
             result == checkQueryPolicyRules(TypedPolicy, c.units)
  <2>1. CheckPermission(c) =
          IF ~c.parsed THEN "deny" ELSE Settle(CheckGroupGenericPolicy(texts), result, texts)
    BY <1>1 DEF CheckPermission, checkDatabasePermission
  <2>2. TypedPolicy = EffectivePolicy("database", MergePoliciesForTest("query"))
    <3>1. groupType[kind] = "query"
      BY <1>1, SMT DEF groupType, Kinds
    <3> QED BY <1>1, <3>1, SameMerge DEF TypedPolicy
  <2>3. genericMatcher[kind] = "command"
    BY <1>1, SMT DEF genericMatcher, Kinds
  <2>4. TestPolicy(c) =
          IF ~c.parsed THEN "deny" ELSE TestSettle(genericMatcher[kind], result, texts)
    BY <1>1, <2>2, <2>3 DEF TestPolicy, testQueryPolicy
  <2>5. texts # {} /\ result \in {"allow", "deny", "confirm"}
    BY TextsNonEmpty, PolicyResults
  <2>6. Matched(c) = texts
    BY <1>1, MatchedByKind
  <2> HIDE DEF texts, result
  <2> QED BY <2>1, <2>4, <2>5, <2>6, SameSettling
<1>2. CASE kind = "redis"
  <2> DEFINE texts == {c.raw}
             result == CheckPolicyRules("redis", TypedPolicy, {c.raw})
  <2>1. CheckPermission(c) = Settle(CheckGroupGenericPolicy(texts), result, texts)
    BY <1>2 DEF CheckPermission, CheckSinglePermission
  <2>2. TypedPolicy = EffectivePolicy("redis", MergePoliciesForTest("redis"))
    <3>1. groupType[kind] = "redis"
      BY <1>2, SMT DEF groupType, Kinds
    <3> QED BY <1>2, <3>1, SameMerge DEF TypedPolicy
  <2>3. genericMatcher[kind] = "redis"
    BY <1>2, SMT DEF genericMatcher, Kinds
  <2>4. TestPolicy(c) = TestSettle(genericMatcher[kind], result, texts)
    BY <1>2, <2>2, <2>3 DEF TestPolicy, testRedisPolicy
  <2>5. texts # {} /\ result \in {"allow", "deny", "confirm"}
    BY PolicyResults
  <2>6. Matched(c) = texts
    BY <1>2, MatchedByKind
  <2> HIDE DEF texts, result
  <2> QED BY <2>1, <2>4, <2>5, <2>6, SameSettling
<1>3. CASE kind = "k8s"
  <2> DEFINE texts == UnitsOf(c)
             result == CheckPolicyRules("k8s", TypedPolicy, UnitsOf(c))
  <2>1. CheckPermission(c) =
          IF ~c.parsed \/ c.units = <<>> THEN "confirm"
          ELSE Settle(CheckGroupGenericPolicy(texts), result, texts)
    BY <1>3 DEF CheckPermission, checkK8sPermission
  <2>2. TypedPolicy = EffectivePolicy("k8s", MergePoliciesForTest("command"))
    <3>1. groupType[kind] = "command"
      BY <1>3, SMT DEF groupType, Kinds
    <3> QED BY <1>3, <3>1, SameMerge DEF TypedPolicy
  <2>3. genericMatcher[kind] = "command"
    BY <1>3, SMT DEF genericMatcher, Kinds
  <2>4. TestPolicy(c) =
          IF ~c.parsed \/ c.units = <<>> THEN "confirm"
          ELSE TestSettle(genericMatcher[kind], result, texts)
    BY <1>3, <2>2, <2>3 DEF TestPolicy, testK8sPolicy
  <2>5. c.units # <<>> => texts # {}
    BY UnitsNonEmpty
  <2>6. result \in {"allow", "deny", "confirm"}
    BY PolicyResults
  <2>7. Matched(c) = texts
    BY <1>3, MatchedByKind
  <2> HIDE DEF texts, result
  <2> QED BY <2>1, <2>4, <2>5, <2>6, <2>7, SameSettling
<1> QED BY <1>1, <1>2, <1>3

\* The tester of the settings page (TestPolicy) predicts CheckPermission for
\* every policy, chain of groups and command, up to the grants of a session.
THEOREM TesterPredicts == Spec => []TesterAgrees
<1>1. TypeOK => TesterAgrees
  <2> SUFFICES ASSUME TypeOK, kind \in TestedKinds, NEW c \in Commands
               PROVE  \/ CheckPermission(c) = TestPolicy(c)
                      \/ TestPolicy(c) = "confirm" /\ CheckPermission(c) = "allow"
                           /\ matchGrantPatterns(Matched(c))
    BY DEF TesterAgrees
  <2>1. CASE kind = "ssh"
    <3>1. CheckPermission(c) = checkCommandPolicyPermission(c)
      BY <2>1 DEF CheckPermission
    <3>2. TestPolicy(c) = testSSHPolicy(c)
      BY <2>1 DEF TestPolicy
    <3>3. Matched(c) = UnitsOf(c)
      BY <2>1, MatchedByKind
    <3> QED BY <2>1, <3>1, <3>2, <3>3, TesterAgreesSSH
  <2>2. CASE kind \in {"database", "redis", "k8s"}
    BY <2>2, TesterAgreesTyped
  <2> QED BY <2>1, <2>2 DEF TestedKinds
<1> QED BY <1>1, TypeCorrect, PTL

-----------------------------------------------------------------------------
(***************************************************************************)
(* What CollectPolicies makes of the policies of a chain.                  *)
(***************************************************************************)

\* The holders are the asset's policy and those of its groups, in order.
LEMMA HolderAt ==
  TypeOK => /\ Len(Chain) \in Nat /\ DOMAIN Chain = 1..Len(Chain)
            /\ DOMAIN policyHoldersForAsset = 1..(Len(Chain) + 1)
            /\ policyHoldersForAsset[1] = own
            /\ \A i \in 1..Len(Chain) : policyHoldersForAsset[i + 1] = typed[Chain[i]]
<1> SUFFICES ASSUME TypeOK
             PROVE  /\ Len(Chain) \in Nat /\ DOMAIN Chain = 1..Len(Chain)
                    /\ DOMAIN policyHoldersForAsset = 1..(Len(Chain) + 1)
                    /\ policyHoldersForAsset[1] = own
                    /\ \A i \in 1..Len(Chain) : policyHoldersForAsset[i + 1] = typed[Chain[i]]
  OBVIOUS
<1> DEFINE rest == [i \in DOMAIN Chain |-> typed[Chain[i]]]
           holders == policyHoldersForAsset
<1>1. Chain \in Seq(Groups)
  BY ChainType
<1>2. rest \in Seq(GroupPolicies) /\ Len(rest) = Len(Chain)
  BY <1>1, SMT DEF TypeOK
<1>3. holders = <<own>> \o rest
  BY DEF policyHoldersForAsset
<1>4. /\ DOMAIN holders = 1..(Len(Chain) + 1)
      /\ Len(Chain) \in Nat
      /\ DOMAIN Chain = 1..Len(Chain)
      /\ holders[1] = own
      /\ \A i \in 1..Len(Chain) : holders[i + 1] = rest[i]
  <2> HIDE DEF rest, holders
  <2> QED BY <1>1, <1>2, <1>3, SMT
<1>5. \A i \in 1..Len(Chain) : holders[i + 1] = typed[Chain[i]]
  <2> SUFFICES ASSUME NEW i \in 1..Len(Chain) PROVE holders[i + 1] = typed[Chain[i]]
    OBVIOUS
  <2>1. rest[i] = typed[Chain[i]]
    BY <1>4, Zenon
  <2> QED BY <1>4, <2>1
<1> QED BY <1>4, <1>5

\* Together they are the asset's policy and those of all groups of the chain.
LEMMA Holders ==
  ASSUME TypeOK
  PROVE  /\ \E n \in Nat : DOMAIN policyHoldersForAsset = 1..(n + 1)
         /\ policyHoldersForAsset[1] = own
         /\ {policyHoldersForAsset[i] : i \in DOMAIN policyHoldersForAsset}
              = {own} \cup {typed[g] : g \in ChainGroups}
<1> DEFINE holders == policyHoldersForAsset
<1>1. /\ DOMAIN holders = 1..(Len(Chain) + 1)
      /\ Len(Chain) \in Nat
      /\ DOMAIN Chain = 1..Len(Chain)
      /\ holders[1] = own
  BY HolderAt
<1>2. \A i \in 1..Len(Chain) : holders[i + 1] = typed[Chain[i]]
  BY HolderAt
<1>3. {holders[i] : i \in DOMAIN holders} \subseteq {own} \cup {typed[g] : g \in ChainGroups}
  <2> SUFFICES ASSUME NEW i \in 1..(Len(Chain) + 1)
               PROVE  holders[i] \in {own} \cup {typed[g] : g \in ChainGroups}
    BY <1>1
  <2>1. CASE i = 1
    BY <1>1, <2>1
  <2>2. CASE i # 1
    <3>1. i - 1 \in 1..Len(Chain) /\ (i - 1) + 1 = i
      BY <1>1, <2>2, SMT
    <3>2. holders[i] = typed[Chain[i - 1]]
      <4>1. holders[(i - 1) + 1] = typed[Chain[i - 1]]
        BY <1>2, <3>1, Zenon
      <4> QED BY <3>1, <4>1
    <3>3. Chain[i - 1] \in ChainGroups
      BY <1>1, <3>1, Zenon DEF ChainGroups
    <3> QED BY <3>2, <3>3, Zenon
  <2> QED BY <2>1, <2>2
<1>4. {own} \cup {typed[g] : g \in ChainGroups} \subseteq {holders[i] : i \in DOMAIN holders}
  <2>1. own \in {holders[i] : i \in DOMAIN holders}
    <3>1. 1 \in DOMAIN holders
      <4> HIDE DEF holders
      <4> QED BY <1>1, SMT
    <3> QED BY <1>1, <3>1, Zenon
  <2>2. ASSUME NEW g \in ChainGroups PROVE typed[g] \in {holders[i] : i \in DOMAIN holders}
    <3>1. PICK i \in 1..Len(Chain) : g = Chain[i]
      BY <1>1, Zenon DEF ChainGroups
    <3>2. i + 1 \in DOMAIN holders
      <4> HIDE DEF holders
      <4> QED BY <1>1, SMT
    <3>3. holders[i + 1] = typed[g]
      BY <1>2, <3>1
    <3> QED BY <3>2, <3>3, Zenon
  <2> QED BY <2>1, <2>2, Zenon
<1> QED BY <1>1, <1>3, <1>4, Zenon

\* A set of positive numbers has a least one.
LEMMA Least ==
  ASSUME NEW n \in Nat, NEW S \in SUBSET (1..n), S # {}
  PROVE  \E i \in S : \A j \in S : i <= j
<1>1. S \subseteq Nat
  BY SMT
<1>2. PICK i \in S : \A j \in S : ~(<<j, i>> \in OpToRel(<, Nat))
  BY <1>1, NatLessThanWellFounded, WFMin, Zenon
<1>3. ASSUME NEW j \in S PROVE i <= j
  <2>1. i \in Nat /\ j \in Nat
    BY <1>1
  <2>2. ASSUME j < i PROVE FALSE
    <3>1. <<j, i>> \in Nat \X Nat
      BY <2>1
    <3>2. <<j, i>>[1] < <<j, i>>[2]
      BY <2>2
    <3>3. <<j, i>> \in {ss \in Nat \X Nat : ss[1] < ss[2]}
      BY <3>1, <3>2, Zenon
    <3>4. <<j, i>> \in OpToRel(<, Nat)
      BY <3>3 DEF OpToRel
    <3> QED BY <1>2, <3>4
  <2> QED BY <2>1, <2>2, SMT
<1> QED BY <1>3

\* The deny rules of every policy of the chain are collected.
LEMMA CollectedDeny ==
  ASSUME TypeOK, NEW t
  PROVE  CollectPolicies(t, policyHoldersForAsset).deny
           = UNION {ExpandPolicy(t, p).deny : p \in {own} \cup {typed[g] : g \in ChainGroups}}
<1> DEFINE holders == policyHoldersForAsset
<1>1. {holders[i] : i \in DOMAIN holders} = {own} \cup {typed[g] : g \in ChainGroups}
  BY Holders
<1>2. CollectPolicies(t, holders).deny = UNION {ExpandPolicy(t, holders[i]).deny : i \in DOMAIN holders}
  <2> HIDE DEF holders
  <2> QED BY DEF CollectPolicies
<1> HIDE DEF holders
<1>3. {ExpandPolicy(t, holders[i]).deny : i \in DOMAIN holders}
        = {ExpandPolicy(t, p).deny : p \in {holders[i] : i \in DOMAIN holders}}
  BY Zenon
<1> QED BY <1>1, <1>2, <1>3 DEF holders

\* The allow rules that are collected are those of one policy, the asset's own if
\* it has any; there are none only if no policy has one.
LEMMA CollectedAllow ==
  ASSUME TypeOK, NEW t
  PROVE  LET merged == CollectPolicies(t, policyHoldersForAsset).allow
             policies == {own} \cup {typed[g] : g \in ChainGroups}
         IN /\ merged = {} => \A p \in policies : ExpandPolicy(t, p).allow = {}
            /\ merged # {} => \E p \in policies :
                 /\ merged = ExpandPolicy(t, p).allow
                 /\ ExpandPolicy(t, own).allow # {} => p = own
<1> DEFINE holders == policyHoldersForAsset
           policies == {own} \cup {typed[g] : g \in ChainGroups}
           rules == [i \in DOMAIN holders |-> ExpandPolicy(t, holders[i])]
           listing == {i \in DOMAIN holders : ExpandPolicy(t, holders[i]).allow # {}}
           first == {j \in listing : \A k \in listing : j <= k}
           merged == CollectPolicies(t, holders).allow
<1>1. /\ \E n \in Nat : DOMAIN holders = 1..(n + 1)
      /\ holders[1] = own
      /\ {holders[i] : i \in DOMAIN holders} = policies
  BY Holders
<1>2. merged = UNION {ExpandPolicy(t, holders[i]).allow : i \in first}
  <2>1. /\ DOMAIN rules = DOMAIN holders
        /\ \A i \in DOMAIN holders : rules[i] = ExpandPolicy(t, holders[i])
    OBVIOUS
  <2>2. {i \in DOMAIN rules : rules[i].allow # {}} = listing
    BY <2>1
  <2>3. merged = UNION {rules[i].allow : i \in first}
    <3> HIDE DEF holders
    <3> QED BY <2>2 DEF CollectPolicies
  <2>4. {rules[i].allow : i \in first} = {ExpandPolicy(t, holders[i]).allow : i \in first}
    <3>1. first \subseteq DOMAIN holders
      OBVIOUS
    <3> HIDE DEF rules, holders, first
    <3> QED BY <2>1, <3>1
  <2> QED BY <2>3, <2>4
<1> HIDE DEF holders, merged
<1>3. CASE listing = {}
  <2>1. merged = {}
    BY <1>2, <1>3
  <2>2. \A p \in policies : ExpandPolicy(t, p).allow = {}
    BY <1>1, <1>3, Zenon
  <2> QED BY <2>1, <2>2 DEF holders, merged
<1>4. CASE listing # {}
  <2>1. PICK j \in listing : \A k \in listing : j <= k
    <3>1. PICK n \in Nat : DOMAIN holders = 1..(n + 1)
      BY <1>1
    <3>2. listing \in SUBSET (1..(n + 1)) /\ n + 1 \in Nat
      BY <3>1
    <3> HIDE DEF listing
    <3> QED BY <1>4, <3>2, Least
  <2>2. listing \subseteq Nat
    BY <1>1, SMT
  <2>3. first = {j}
    <3>1. j \in first
      BY <2>1
    <3>2. ASSUME NEW k \in first PROVE k = j
      <4>1. k \in listing /\ k <= j /\ j <= k
        BY <2>1, <3>2
      <4>2. k \in Nat /\ j \in Nat
        BY <2>2, <4>1
      <4> QED BY <4>1, <4>2
    <3> HIDE DEF first
    <3> QED BY <3>1, <3>2
  <2>4. merged = ExpandPolicy(t, holders[j]).allow
    <3>1. {ExpandPolicy(t, holders[i]).allow : i \in first} = {ExpandPolicy(t, holders[j]).allow}
      BY <2>3
    <3> QED BY <1>2, <3>1
  <2>5. holders[j] \in policies /\ merged # {}
    <3>1. j \in DOMAIN holders /\ ExpandPolicy(t, holders[j]).allow # {}
      BY <2>1
    <3> QED BY <1>1, <2>4, <3>1, Zenon
  <2>6. ExpandPolicy(t, own).allow # {} => holders[j] = own
    <3> SUFFICES ASSUME ExpandPolicy(t, own).allow # {} PROVE holders[j] = own
      OBVIOUS
    <3>1. 1 \in DOMAIN holders
      BY <1>1, SMT
    <3>2. 1 \in listing
      BY <1>1, <3>1
    <3>3. j <= 1 /\ j \in 1..j
      BY <1>1, <2>1, <3>2, SMT
    <3>4. j = 1
      BY <1>1, <2>1, <2>2, <3>3, SMT
    <3> QED BY <1>1, <3>4
  <2> QED BY <2>4, <2>5, <2>6 DEF holders, merged
<1> QED BY <1>3, <1>4

-----------------------------------------------------------------------------
(***************************************************************************)
(* Deny rules win.                                                         *)
(***************************************************************************)

TypedKinds == Kinds \ {"ssh", "serial"}

\* The typed policy denies what any policy of the chain or the default denies.
LEMMA TypedPolicyDeny ==
  ASSUME TypeOK, kind \in TypedKinds
  PROVE  TypedPolicy.deny = TypedDeny
<1> DEFINE t == groupType[kind]
           policies == {own} \cup {typed[g] : g \in ChainGroups}
<1>1. TypedPolicy.deny
        = CollectPolicies(t, policyHoldersForAsset).deny \cup ExpandPolicy(t, default[kind]).deny
  BY DEF TypedPolicy, EffectivePolicy
<1>2. CollectPolicies(t, policyHoldersForAsset).deny = UNION {ExpandPolicy(t, p).deny : p \in policies}
  BY CollectedDeny
<1>3. TypedPolicies = policies \cup {default[kind]}
  BY DEF TypedPolicies, TypedKinds
<1>4. TypedDeny = UNION {ExpandPolicy(t, p).deny : p \in policies \cup {default[kind]}}
  BY <1>3 DEF TypedDeny
<1>5. UNION {ExpandPolicy(t, p).deny : p \in policies \cup {default[kind]}}
        = (UNION {ExpandPolicy(t, p).deny : p \in policies}) \cup ExpandPolicy(t, default[kind]).deny
  <2> HIDE DEF policies, t
  <2> QED BY Zenon
<1> HIDE DEF policies, t
<1> QED BY <1>1, <1>2, <1>4, <1>5 DEF t

\* For ssh and serial the rules of all policies are the typed rules.
LEMMA ShellRules ==
  ASSUME kind \in {"ssh", "serial"}
  PROVE  LET policies == {own} \cup {generic[g] : g \in ChainGroups}
         IN /\ UNION {ExpandPolicy("command", p).deny : p \in policies} = TypedDeny
            /\ UNION {ExpandPolicy("command", p).allow : p \in policies} = TypedAllow
            /\ GroupGenericDeny \subseteq TypedDeny
<1> DEFINE policies == {own} \cup {generic[g] : g \in ChainGroups}
<1>1. TypedPolicies = policies
  BY DEF TypedPolicies
<1>2. groupType[kind] = "command"
  BY SMT DEF groupType, Kinds
<1>3. TypedDeny = UNION {ExpandPolicy("command", p).deny : p \in policies}
  BY <1>1, <1>2 DEF TypedDeny
<1>4. TypedAllow = UNION {ExpandPolicy("command", p).allow : p \in policies}
  BY <1>1, <1>2 DEF TypedAllow
<1>5. GroupGenericDeny \subseteq UNION {ExpandPolicy("command", p).deny : p \in policies}
  BY Zenon DEF GroupGenericDeny
<1> QED BY <1>3, <1>4, <1>5

\* Rules hit a larger set of rules, too.
LEMMA HitMore ==
  ASSUME NEW m, NEW S, NEW T, NEW units, S \subseteq T, Hit(m, S, units)
  PROVE  Hit(m, T, units)
BY Zenon DEF Hit

\* A generic or a typed deny decides, whatever else there is.
LEMMA DenySettles ==
  ASSUME NEW units, NEW result,
         result = "deny" \/ Hit(genericMatcher[kind], GroupGenericDeny, units)
  PROVE  Settle(CheckGroupGenericPolicy(units), result, units) = "deny"
<1>1. CASE Hit(genericMatcher[kind], GroupGenericDeny, units)
  <2>1. CheckGroupGenericPolicy(units) = "deny"
    BY <1>1 DEF CheckGroupGenericPolicy
  <2> QED BY <2>1 DEF Settle
<1>2. CASE result = "deny"
  BY <1>2 DEF Settle
<1> QED BY <1>1, <1>2

\* A deny rule, wherever it stands, is not outweighed by allow rules or grants
\* (CheckPermission), for every policy, chain of groups and command.
THEOREM DenyAlwaysWins == Spec => []DenyWins
<1>1. TypeOK => DenyWins
  <2> SUFFICES ASSUME TypeOK, NEW c \in Commands,
                      kind \in ParsedKinds => c.parsed,
                      SingleStatement(c),
                      \/ Hit(typedMatcher[kind], TypedDeny, TypedMatched(c))
                      \/ Hit(genericMatcher[kind], GroupGenericDeny, Matched(c))
               PROVE  CheckPermission(c) = "deny"
    BY DEF DenyWins
  <2>0. kind \in Kinds
    BY DEF TypeOK
  <2>1. CASE kind \in {"ssh", "serial"}
    <3>1. Matched(c) = UnitsOf(c) /\ TypedMatched(c) = UnitsOf(c)
      BY <2>1, MatchedByKind DEF TypedMatched
    <3>2. typedMatcher[kind] = "command" /\ genericMatcher[kind] = "command"
      BY <2>1, SMT DEF typedMatcher, genericMatcher, Kinds
    <3>3. Hit("command", TypedDeny, UnitsOf(c))
      BY <2>1, <3>1, <3>2, ShellRules, HitMore
    <3>4. c.units # <<>>
      <4> SUFFICES ASSUME c.units = <<>> PROVE FALSE
        OBVIOUS
      <4>1. UnitsOf(c) = {}
        BY DEF UnitsOf
      <4> QED BY <3>3, <4>1 DEF Hit
    <3>5. c.parsed
      BY <2>1 DEF ParsedKinds
    <3>6. checkCommandPolicyPermission(c) = "deny"
      BY <2>1, <3>3, <3>4, <3>5, ShellRules DEF checkCommandPolicyPermission
    <3> QED BY <2>1, <3>6 DEF CheckPermission
  <2>2. CASE kind = "database"
    <3> DEFINE texts == StatementTexts(c)
               result == checkQueryPolicyRules(TypedPolicy, c.units)
    <3>1. CheckPermission(c) = Settle(CheckGroupGenericPolicy(texts), result, texts)
      BY <2>2 DEF CheckPermission, checkDatabasePermission, ParsedKinds
    <3>2. Matched(c) = texts /\ TypedMatched(c) = UnitsOf(c)
      BY <2>2, MatchedByKind DEF TypedMatched
    <3>3. ASSUME Hit(typedMatcher[kind], TypedDeny, UnitsOf(c)) PROVE result = "deny"
      <4>1. typedMatcher[kind] = "value" /\ TypedPolicy.deny = TypedDeny
        <5>1. kind \in TypedKinds
          BY <2>2 DEF TypedKinds, Kinds
        <5> QED BY <2>2, <5>1, TypedPolicyDeny, SMT DEF typedMatcher, Kinds
      <4>2. PICK u \in UnitsOf(c), r \in TypedDeny : u \in match["value"][r]
        BY <3>3, <4>1 DEF Hit
      <4>3. c.units \in Seq(Units) /\ Len(c.units) <= 1
        BY <2>2, CommandsAssumption, SMT DEF SingleStatement
      <4>4. DOMAIN c.units = {1} /\ u = c.units[1]
        <5>1. PICK i \in DOMAIN c.units : u = c.units[i]
          BY <4>2, Zenon DEF UnitsOf
        <5>2. i = 1 /\ DOMAIN c.units = {1}
          BY <4>3, <5>1, SMT
        <5> QED BY <5>1, <5>2
      <4> DEFINE denied(i) == Hit("value", TypedPolicy.deny, {c.units[i]})
                 unlisted(i) == TypedPolicy.allow # {} /\ ~Covered("value", TypedPolicy.allow, {c.units[i]})
                 stopping == {i \in DOMAIN c.units : denied(i) \/ unlisted(i)}
      <4>5. denied(1)
        BY <4>1, <4>2, <4>4, Zenon DEF Hit
      <4>6. stopping = {1}
        <5> HIDE DEF denied, unlisted
        <5> QED BY <4>4, <4>5
      <4>7. \E i \in stopping : denied(i) /\ \A j \in stopping : i <= j
        <5> HIDE DEF denied, stopping
        <5> QED BY <4>5, <4>6
      <4>8. stopping # {}
        BY <4>6
      <4>9. result = IF stopping = {} THEN "allow"
                     ELSE IF \E i \in stopping : denied(i) /\ \A j \in stopping : i <= j THEN "deny"
                     ELSE "confirm"
        BY Zenon DEF checkQueryPolicyRules
      <4> HIDE DEF denied, stopping
      <4> QED BY <4>7, <4>8, <4>9
    <3> HIDE DEF texts, result
    <3> QED BY <3>1, <3>2, <3>3, DenySettles
  <2>3. CASE kind = "k8s"
    <3> DEFINE texts == UnitsOf(c)
               result == CheckPolicyRules("k8s", TypedPolicy, texts)
    <3>1. Matched(c) = texts /\ TypedMatched(c) = texts
      BY <2>3, MatchedByKind DEF TypedMatched
    <3>2. c.units # <<>>
      <4> SUFFICES ASSUME c.units = <<>> PROVE FALSE
        OBVIOUS
      <4>1. UnitsOf(c) = {}
        BY DEF UnitsOf
      <4> QED BY <3>1, <4>1 DEF Hit
    <3>3. CheckPermission(c) = Settle(CheckGroupGenericPolicy(texts), result, texts)
      BY <2>3, <3>2 DEF CheckPermission, checkK8sPermission, ParsedKinds
    <3>4. kind \in TypedKinds
      BY <2>3 DEF TypedKinds, Kinds
    <3>5. ASSUME Hit(typedMatcher[kind], TypedDeny, texts) PROVE result = "deny"
      BY <2>3, <3>4, <3>5, TypedPolicyDeny DEF CheckPolicyRules
    <3> HIDE DEF texts, result
    <3> QED BY <3>1, <3>3, <3>5, DenySettles
  <2>4. CASE kind \in {"redis", "mongodb", "kafka"}
    <3> DEFINE texts == {c.raw}
               result == CheckPolicyRules(kind, TypedPolicy, texts)
    <3>1. Matched(c) = texts /\ TypedMatched(c) = texts
      BY <2>4, MatchedByKind DEF TypedMatched
    <3>2. CheckPermission(c) = Settle(CheckGroupGenericPolicy(texts), result, texts)
      BY <2>4 DEF CheckPermission, CheckSinglePermission
    <3>3. kind \in TypedKinds
      BY <2>4 DEF TypedKinds, Kinds
    <3>4. ASSUME Hit(typedMatcher[kind], TypedDeny, texts) PROVE result = "deny"
      BY <3>3, <3>4, TypedPolicyDeny DEF CheckPolicyRules
    <3> HIDE DEF texts, result
    <3> QED BY <3>1, <3>2, <3>4, DenySettles
  <2> QED BY <2>0, <2>1, <2>2, <2>3, <2>4 DEF Kinds
<1> QED BY <1>1, TypeCorrect, PTL

-----------------------------------------------------------------------------
(***************************************************************************)
(* A command is allowed as a whole, by one authority.                      *)
(***************************************************************************)

\* What the typed policy lists, one policy lists: the asset's own if it lists
\* anything. It lists nothing only if no policy does, nor the default.
LEMMA TypedPolicyAllow ==
  ASSUME TypeOK, kind \in TypedKinds
  PROVE  LET t == groupType[kind] IN
         /\ TypedPolicy.allow = {} => TypedAllow = {}
         /\ TypedPolicy.allow # {} => \E p \in TypedPolicies :
              /\ TypedPolicy.allow = ExpandPolicy(t, p).allow
              /\ ExpandPolicy(t, own).allow # {} => p = own
<1> DEFINE t == groupType[kind]
           policies == {own} \cup {typed[g] : g \in ChainGroups}
           merged == CollectPolicies(t, policyHoldersForAsset).allow
<1>1. TypedPolicy.allow = IF merged # {} THEN merged ELSE ExpandPolicy(t, default[kind]).allow
  BY DEF TypedPolicy, EffectivePolicy
<1>2. /\ merged = {} => \A p \in policies : ExpandPolicy(t, p).allow = {}
      /\ merged # {} => \E p \in policies :
           /\ merged = ExpandPolicy(t, p).allow
           /\ ExpandPolicy(t, own).allow # {} => p = own
  BY CollectedAllow
<1>3. TypedPolicies = policies \cup {default[kind]}
  BY DEF TypedPolicies, TypedKinds
<1>4. own \in policies
  OBVIOUS
<1>5. TypedAllow = UNION {ExpandPolicy(t, p).allow : p \in policies \cup {default[kind]}}
  BY <1>3 DEF TypedAllow
<1> HIDE DEF t, policies, merged
<1>6. CASE merged # {}
  BY <1>1, <1>2, <1>3, <1>6 DEF t
<1>7. CASE merged = {}
  <2>1. TypedPolicy.allow = ExpandPolicy(t, default[kind]).allow
    BY <1>1, <1>7
  <2>2. ExpandPolicy(t, own).allow = {}
    BY <1>2, <1>4, <1>7
  <2>3. TypedPolicy.allow = {} => TypedAllow = {}
    BY <1>2, <1>5, <1>7, <2>1, Zenon
  <2> QED BY <1>3, <2>1, <2>2, <2>3 DEF t
<1> QED BY <1>6, <1>7

\* A typed result that allows is covered by the list, or there is no list.
LEMMA AllowedByPolicy ==
  ASSUME TypeOK, kind \in TypedKinds, NEW c \in Commands,
         TypedPolicy.allow = {} \/ Covered(typedMatcher[kind], TypedPolicy.allow, TypedMatched(c))
  PROVE  TypedCovers(c) \/ TypedAllow = {}
<1>1. CASE TypedPolicy.allow = {}
  BY <1>1, TypedPolicyAllow
<1>2. CASE TypedPolicy.allow # {}
  <2>1. PICK p \in TypedPolicies :
          /\ TypedPolicy.allow = ExpandPolicy(groupType[kind], p).allow
          /\ ExpandPolicy(groupType[kind], own).allow # {} => p = own
    BY <1>2, TypedPolicyAllow
  <2>2. kind \notin {"ssh", "serial"}
    BY DEF TypedKinds
  <2> QED BY <1>2, <2>1, <2>2 DEF TypedCovers
<1> QED BY <1>1, <1>2

\* What is settled as allowed was allowed by the typed policy, by the generic
\* rules or by the grants.
LEMMA AllowSettled ==
  ASSUME NEW units, NEW result \in {"allow", "deny", "confirm"},
         Settle(CheckGroupGenericPolicy(units), result, units) = "allow"
  PROVE  \/ result = "allow"
         \/ Covered(genericMatcher[kind], GroupGenericAllow, units)
         \/ Covered(grantMatcher[kind], GrantedRules, units)
<1>1. \/ result = "allow"
      \/ CheckGroupGenericPolicy(units) = "allow"
      \/ matchGrantPatterns(units)
  BY DEF Settle
<1>2. CheckGroupGenericPolicy(units) = "allow"
        => Covered(genericMatcher[kind], GroupGenericAllow, units)
  BY DEF CheckGroupGenericPolicy
<1> QED BY <1>1, <1>2 DEF matchGrantPatterns

\* CheckPermission allows a command only as a whole and by one authority, for
\* every policy, chain of groups, session and command.
THEOREM AllowedAsAWhole == Spec => []AllowIsCovered
<1>1. TypeOK => AllowIsCovered
  <2> SUFFICES ASSUME TypeOK, NEW c \in Commands, CheckPermission(c) = "allow"
               PROVE  /\ kind \in ParsedKinds => c.parsed
                      /\ \/ TypedCovers(c)
                         \/ Covered(genericMatcher[kind], GroupGenericAllow, Matched(c))
                         \/ Covered(grantMatcher[kind], GrantedRules, Matched(c))
                         \/ TypedAllow = {} /\ kind \notin {"ssh", "serial"}
    BY DEF AllowIsCovered
  <2>0. kind \in Kinds
    BY DEF TypeOK
  <2>1. CASE kind \in {"ssh", "serial"}
    <3>1. checkCommandPolicyPermission(c) = "allow"
      BY <2>1 DEF CheckPermission
    <3>2. /\ c.parsed
          /\ Covered("command", TypedAllow, UnitsOf(c)) \/ matchGrantPatterns(UnitsOf(c))
      BY <2>1, <3>1, ShellRules DEF checkCommandPolicyPermission
    <3>3. Matched(c) = UnitsOf(c)
      BY <2>1, MatchedByKind
    <3> QED BY <2>1, <3>2, <3>3 DEF TypedCovers, matchGrantPatterns
  <2>2. CASE kind = "database"
    <3> DEFINE texts == StatementTexts(c)
               result == checkQueryPolicyRules(TypedPolicy, c.units)
    <3>1. c.parsed /\ Settle(CheckGroupGenericPolicy(texts), result, texts) = "allow"
      BY <2>2 DEF CheckPermission, checkDatabasePermission
    <3>2. Matched(c) = texts /\ TypedMatched(c) = UnitsOf(c)
      BY <2>2, MatchedByKind DEF TypedMatched
    <3>3. result \in {"allow", "deny", "confirm"}
      BY PolicyResults
    <3>4. kind \in TypedKinds /\ typedMatcher[kind] = "value"
      BY <2>2, SMT DEF TypedKinds, typedMatcher, Kinds
    <3>5. ASSUME result = "allow"
          PROVE  TypedPolicy.allow = {} \/ Covered("value", TypedPolicy.allow, UnitsOf(c))
      <4> DEFINE denied(i) == Hit("value", TypedPolicy.deny, {c.units[i]})
                 unlisted(i) == TypedPolicy.allow # {} /\ ~Covered("value", TypedPolicy.allow, {c.units[i]})
                 stopping == {i \in DOMAIN c.units : denied(i) \/ unlisted(i)}
      <4>1. result = IF stopping = {} THEN "allow"
                     ELSE IF \E i \in stopping : denied(i) /\ \A j \in stopping : i <= j THEN "deny"
                     ELSE "confirm"
        BY Zenon DEF checkQueryPolicyRules
      <4>2. stopping = {}
        <5> HIDE DEF denied, stopping
        <5> QED BY <3>5, <4>1
      <4>3. \A i \in DOMAIN c.units : ~unlisted(i)
        BY <4>2, Zenon
      <4>4. ASSUME TypedPolicy.allow # {}, NEW u \in UnitsOf(c)
            PROVE  \E r \in TypedPolicy.allow : u \in match["value"][r]
        <5>1. PICK i \in DOMAIN c.units : u = c.units[i]
          BY <4>4, Zenon DEF UnitsOf
        <5>2. Covered("value", TypedPolicy.allow, {c.units[i]})
          BY <4>3, <4>4
        <5> QED BY <5>1, <5>2, Zenon DEF Covered
      <4> QED BY <4>4 DEF Covered
    <3>6. result = "allow" => TypedCovers(c) \/ TypedAllow = {}
      BY <3>2, <3>4, <3>5, AllowedByPolicy
    <3> HIDE DEF texts, result
    <3> QED BY <2>2, <3>1, <3>2, <3>3, <3>6, AllowSettled
  <2>3. ASSUME kind \in {"redis", "mongodb", "kafka", "k8s"}, NEW texts,
               Matched(c) = texts,
               Settle(CheckGroupGenericPolicy(texts), CheckPolicyRules(kind, TypedPolicy, texts), texts)
                 = "allow"
        PROVE  \/ TypedCovers(c)
               \/ Covered(genericMatcher[kind], GroupGenericAllow, texts)
               \/ Covered(grantMatcher[kind], GrantedRules, texts)
               \/ TypedAllow = {}
    <3> DEFINE result == CheckPolicyRules(kind, TypedPolicy, texts)
    <3>1. result \in {"allow", "deny", "confirm"}
      BY PolicyResults
    <3>2. result = "allow" =>
            TypedPolicy.allow = {} \/ Covered(typedMatcher[kind], TypedPolicy.allow, texts)
      BY DEF CheckPolicyRules
    <3>3. TypedMatched(c) = texts /\ kind \in TypedKinds
      BY <2>3 DEF TypedMatched, TypedKinds, Kinds
    <3>4. result = "allow" => TypedCovers(c) \/ TypedAllow = {}
      BY <3>2, <3>3, AllowedByPolicy
    <3> HIDE DEF result
    <3> QED BY <2>3, <3>1, <3>4, AllowSettled DEF result
  <2>4. CASE kind = "k8s"
    <3>1. /\ c.parsed
          /\ Settle(CheckGroupGenericPolicy(UnitsOf(c)),
                    CheckPolicyRules(kind, TypedPolicy, UnitsOf(c)), UnitsOf(c)) = "allow"
      BY <2>4 DEF CheckPermission, checkK8sPermission
    <3>2. Matched(c) = UnitsOf(c)
      BY <2>4, MatchedByKind
    <3> QED BY <2>3, <2>4, <3>1, <3>2
  <2>5. CASE kind \in {"redis", "mongodb", "kafka"}
    <3>1. Settle(CheckGroupGenericPolicy({c.raw}),
                 CheckPolicyRules(kind, TypedPolicy, {c.raw}), {c.raw}) = "allow"
      BY <2>5 DEF CheckPermission, CheckSinglePermission
    <3>2. Matched(c) = {c.raw} /\ kind \notin ParsedKinds
      BY <2>5, MatchedByKind DEF ParsedKinds
    <3> QED BY <2>3, <2>5, <3>1, <3>2
  <2> QED BY <2>0, <2>1, <2>2, <2>4, <2>5 DEF Kinds
<1> QED BY <1>1, TypeCorrect, PTL
-----------------------------------------------------------------------------
(***************************************************************************)
(* Remembered commands.                                                    *)
(***************************************************************************)

\* The patterns of a remembered command are items of the session, and without a grant of
\* opsctl a session that has items is approved: RememberedHolds is not inductive without
\* them.
RememberedInv ==
  /\ TypeOK
  /\ \A c \in remembered : \A r \in NormalizeGrantPatterns(c) :
       [target |-> "asset", rule |-> r] \in items
  /\ opsctl = "never" => status \in {"absent", "approved"}
  /\ remembered # {} => status # "absent"

\* Only the replacement of the items takes a pattern away, and it forgets the commands;
\* the type of an asset never changes; only grants of opsctl make a session anything but
\* approved.
LEMMA RememberedInductive == Spec => []RememberedInv
<1>1. Init => RememberedInv
  <2>1. Init => TypeOK
    BY DEF Init, TypeOK
  <2> QED BY <2>1 DEF Init, RememberedInv
<1>2. TypeOK' /\ RememberedInv /\ [Next]_vars => RememberedInv'
  <2> DEFINE Kept == \A c \in remembered : \A r \in NormalizeGrantPatterns(c) :
                       [target |-> "asset", rule |-> r] \in items
             Sound == /\ opsctl = "never" => status \in {"absent", "approved"}
                      /\ remembered # {} => status # "absent"
  <2> SUFFICES ASSUME TypeOK', RememberedInv, [Next]_vars
               PROVE  Kept' /\ Sound'
    BY DEF RememberedInv
  <2>0. ASSUME kind' = kind PROVE \A d : NormalizeGrantPatterns(d)' = NormalizeGrantPatterns(d)
    BY <2>0 DEF NormalizeGrantPatterns, UnitsOf
  <2>1. ASSUME kind' = kind, items \subseteq items', remembered' = remembered
        PROVE  Kept'
    BY <2>0, <2>1 DEF RememberedInv
  <2>2. ASSUME NEW c \in Commands, NEW edited \in {{}} \cup {{q} : q \in Rules},
               AnswerRemember(c, edited)
        PROVE  Kept' /\ Sound'
    <3>1. /\ kind' = kind
          /\ items \subseteq items'
          /\ remembered' = IF edited = {} THEN remembered \cup {c} ELSE remembered
          /\ opsctl' = opsctl
          /\ status' = IF status = "absent" THEN "approved" ELSE status
      BY <2>2 DEF AnswerRemember, SaveGrantPatterns, policyVars
    <3>2. ASSUME NEW d \in remembered', NEW r \in NormalizeGrantPatterns(d)'
          PROVE  [target |-> "asset", rule |-> r] \in items'
      <4>0. r \in NormalizeGrantPatterns(d)
        BY <2>0, <3>1
      <4>1. CASE d \in remembered
        BY <3>1, <4>0, <4>1 DEF RememberedInv
      <4>2. CASE d \notin remembered
        <5>1. edited = {} /\ d = c
          BY <3>1, <4>2
        <5>2. items' = items \cup {[target |-> "asset", rule |-> q] : q \in NormalizeGrantPatterns(c)}
          BY <2>2, <5>1 DEF AnswerRemember, SaveGrantPatterns
        <5> QED BY <4>0, <5>1, <5>2, Zenon
      <4> QED BY <4>1, <4>2
    <3>3. Sound'
      BY <3>1 DEF RememberedInv
    <3> QED BY <3>2, <3>3
  <2>3. ASSUME NEW c \in Commands, CheckForAsset(c) \/ AnswerOnce(c)
        PROVE  Kept' /\ Sound'
    <3>1. UNCHANGED <<kind, items, remembered, status, opsctl>>
      BY <2>3 DEF CheckForAsset, AnswerOnce, policyVars, sessionVars
    <3> QED BY <2>1, <3>1 DEF RememberedInv
  <2>4. ASSUME NEW target \in Targets, NEW q \in Rules, SubmitGrant(target, q)
        PROVE  Kept' /\ Sound'
    <3>1. /\ UNCHANGED <<kind, remembered, opsctl>> /\ items \subseteq items'
          /\ status' = IF status = "absent" THEN "approved" ELSE status
      BY <2>4 DEF SubmitGrant, SaveGrantPatterns, policyVars
    <3> QED BY <2>1, <3>1 DEF RememberedInv
  <2>5. ASSUME NEW target \in Targets, NEW q \in Rules, OpsctlGrant(target, q)
        PROVE  Kept' /\ Sound'
    <3>1. CASE GrantAsked(target, q)
      <4>1. /\ UNCHANGED <<kind, remembered>> /\ items \subseteq items' /\ opsctl' = "waiting"
            /\ status' = IF status = "absent" THEN "pending" ELSE status
        BY <3>1 DEF GrantAsked, policyVars
      <4> QED BY <2>1, <4>1 DEF RememberedInv
    <3>2. CASE GrantDenied \/ GrantApproved
      <4>1. /\ UNCHANGED <<kind, items, remembered>>
            /\ opsctl' \in {"answered", "edited"} /\ status' \in {"rejected", "approved"}
        BY <3>2 DEF GrantDenied, GrantApproved, policyVars
      <4> QED BY <2>1, <4>1
    <3>3. CASE GrantItemsDeleted
      BY <3>3 DEF GrantItemsDeleted
    <3>4. CASE GrantItemsCreated(target, q)
      <4>1. UNCHANGED <<kind, status, remembered>> /\ items \subseteq items' /\ opsctl' = "answered"
        BY <3>4 DEF GrantItemsCreated, policyVars
      <4> QED BY <2>1, <4>1 DEF RememberedInv
    <3> QED BY <2>5, <3>1, <3>2, <3>3, <3>4 DEF OpsctlGrant
  <2>6. ASSUME NEW p \in Policies, NEW g \in Groups \cup {None}, UpdateAsset(p, g)
        PROVE  Kept' /\ Sound'
    <3>1. UNCHANGED <<kind, items, remembered, status, opsctl>>
      BY <2>6 DEF UpdateAsset, sessionVars
    <3> QED BY <2>1, <3>1 DEF RememberedInv
  <2>7. ASSUME NEW g \in Groups, NEW p \in GroupPolicies, NEW q \in GroupPolicies, UpdateGroup(g, p, q)
        PROVE  Kept' /\ Sound'
    <3>1. UNCHANGED <<kind, items, remembered, status, opsctl>>
      BY <2>7 DEF UpdateGroup, sessionVars
    <3> QED BY <2>1, <3>1 DEF RememberedInv
  <2>8. CASE UNCHANGED vars
    <3>1. UNCHANGED <<kind, items, remembered, status, opsctl>>
      BY <2>8 DEF vars, policyVars, sessionVars
    <3> QED BY <2>1, <3>1 DEF RememberedInv
  <2> QED BY <2>2, <2>3, <2>4, <2>5, <2>6, <2>7, <2>8 DEF Next
<1> QED BY <1>1, <1>2, TypeCorrect, PTL DEF Spec

\* The units that are matched are among the patterns that were kept.
LEMMA KeptAsMatched ==
  ASSUME kind \in Kinds, NEW c \in Commands, Keepable(c), kind \in ParsedKinds => c.parsed
  PROVE  Matched(c) \subseteq NormalizeGrantPatterns(c)
<1>1. CASE kind \in {"ssh", "k8s"}
  BY <1>1 DEF Keepable, ParsedKinds, Matched, NormalizeGrantPatterns
<1>2. CASE kind \in {"serial", "database"}
  <2>1. c.units = <<c.raw>>
    BY <1>2 DEF Keepable
  <2>2. UnitsOf(c) = {c.raw} /\ c.units # <<>>
    BY <2>1, SMT DEF UnitsOf
  <2> QED BY <1>2, <2>2 DEF Matched, StatementTexts, NormalizeGrantPatterns
<1>3. CASE kind \in {"redis", "mongodb", "kafka"}
  BY <1>3, MatchedByKind DEF NormalizeGrantPatterns
<1> QED BY <1>1, <1>2, <1>3 DEF Kinds

\* Granted units are not asked about, whatever the policies are.
LEMMA GrantedIsSettled ==
  ASSUME TypeOK, NEW c \in Commands, kind \in ParsedKinds => c.parsed,
         kind \in {"ssh", "serial", "k8s"} => c.units # <<>>,
         matchGrantPatterns(Matched(c))
  PROVE  CheckPermission(c) # "confirm"
<1>0. kind \in Kinds
  BY DEF TypeOK
<1>1. \A group, result, units :
        matchGrantPatterns(units) => Settle(group, result, units) # "confirm"
  BY DEF Settle
<1>2. CASE kind \in {"ssh", "serial"}
  <2>1. c.parsed /\ c.units # <<>> /\ matchGrantPatterns(UnitsOf(c))
    BY <1>2 DEF ParsedKinds, Matched
  <2> QED BY <1>2, <2>1 DEF CheckPermission, checkCommandPolicyPermission
<1>3. CASE kind = "database"
  <2>1. c.parsed /\ Matched(c) = StatementTexts(c)
    BY <1>3 DEF ParsedKinds, Matched
  <2> QED BY <1>1, <1>3, <2>1 DEF CheckPermission, checkDatabasePermission
<1>4. CASE kind = "k8s"
  <2>1. c.parsed /\ c.units # <<>> /\ Matched(c) = UnitsOf(c)
    BY <1>4 DEF ParsedKinds, Matched
  <2> QED BY <1>1, <1>4, <2>1 DEF CheckPermission, checkK8sPermission
<1>5. CASE kind \in {"redis", "mongodb", "kafka"}
  <2>1. Matched(c) = {c.raw}
    BY <1>5, MatchedByKind
  <2> QED BY <1>1, <1>5, <2>1 DEF CheckPermission, CheckSinglePermission
<1> QED BY <1>0, <1>2, <1>3, <1>4, <1>5 DEF Kinds

\* A command the user allowed for good (AnswerRemember) is never put to the user again, for
\* any rules, policies and groups and any later edits of them: for good in a session for
\* which opsctl asks for no grants, otherwise while the session is approved and until a
\* grant replaces its items.
THEOREM RememberedForGood == Spec => []RememberedHolds
<1>1. RememberedInv => RememberedHolds
  <2> SUFFICES ASSUME RememberedInv, NEW c \in remembered,
                      kind \in ParsedKinds => c.parsed, Keepable(c),
                      opsctl = "never" \/ status = "approved"
               PROVE  CheckPermission(c) # "confirm"
    BY DEF RememberedHolds
  <2>0. ListApprovedItems = items
    <3>1. status = "approved"
      BY DEF RememberedInv
    <3> QED BY <3>1 DEF ListApprovedItems
  <2>1. TypeOK /\ c \in Commands /\ kind \in Kinds
    BY DEF RememberedInv, TypeOK
  <2>2. Matched(c) \subseteq NormalizeGrantPatterns(c)
    BY <2>1, KeptAsMatched
  <2>3. \A u \in Matched(c) : u \in GrantedRules
    <3> SUFFICES ASSUME NEW u \in Matched(c) PROVE u \in GrantedRules
      OBVIOUS
    <3> DEFINE item == [target |-> "asset", rule |-> u]
    <3>1. item \in ListApprovedItems
      BY <2>0, <2>2 DEF RememberedInv
    <3>2. grantItemMatchesTarget(item) /\ item.rule = u
      BY DEF grantItemMatchesTarget
    <3> HIDE DEF item
    <3> QED BY <3>1, <3>2, Zenon DEF GrantedRules
  <2>4. matchGrantPatterns(Matched(c))
    BY <2>3 DEF Keepable, matchGrantPatterns, Covered
  <2>5. kind \in {"ssh", "serial", "k8s"} => c.units # <<>>
    <3>1. \A v : <<v>> # <<>>
      BY SMT
    <3> QED BY <3>1, Zenon DEF Keepable
  <2> QED BY <2>1, <2>4, <2>5, GrantedIsSettled
<1> QED BY <1>1, RememberedInductive, PTL

-----------------------------------------------------------------------------
(***************************************************************************)
(* More deny rules, more grants.                                           *)
(***************************************************************************)

\* Deny rules that are added to a policy are added to what it expands to.
LEMMA ExpandMore ==
  ASSUME NEW t, NEW p, NEW q, AddsDeny(p, q)
  PROVE  /\ ExpandPolicy(t, q).allow = ExpandPolicy(t, p).allow
         /\ ExpandPolicy(t, p).deny \subseteq ExpandPolicy(t, q).deny
BY DEF AddsDeny, ExpandPolicy, ReferencedGroups

\* ... and to what is collected from a chain; the allow list stays the same one.
LEMMA CollectMore ==
  ASSUME NEW t, NEW h, NEW k, DOMAIN k = DOMAIN h, \A i \in DOMAIN h : AddsDeny(h[i], k[i])
  PROVE  /\ CollectPolicies(t, k).allow = CollectPolicies(t, h).allow
         /\ CollectPolicies(t, h).deny \subseteq CollectPolicies(t, k).deny
<1> DEFINE R == [i \in DOMAIN h |-> ExpandPolicy(t, h[i])]
           Q == [i \in DOMAIN k |-> ExpandPolicy(t, k[i])]
           listing(rules) == {i \in DOMAIN rules : rules[i].allow # {}}
           first(rules) == {j \in listing(rules) : \A l \in listing(rules) : j <= l}
<1>1. DOMAIN R = DOMAIN h /\ DOMAIN Q = DOMAIN h
  OBVIOUS
<1>2. \A i \in DOMAIN h : Q[i].allow = R[i].allow /\ R[i].deny \subseteq Q[i].deny
  BY ExpandMore, Zenon
<1>3. /\ CollectPolicies(t, h).allow = UNION {R[i].allow : i \in first(R)}
      /\ CollectPolicies(t, h).deny = UNION {R[i].deny : i \in DOMAIN R}
      /\ CollectPolicies(t, k).allow = UNION {Q[i].allow : i \in first(Q)}
      /\ CollectPolicies(t, k).deny = UNION {Q[i].deny : i \in DOMAIN Q}
  BY DEF CollectPolicies
<1> HIDE DEF R, Q
<1>4. first(Q) = first(R) /\ first(R) \subseteq DOMAIN h
  BY <1>1, <1>2
<1> HIDE DEF first
<1>5. {Q[i].allow : i \in first(Q)} = {R[i].allow : i \in first(R)}
  BY <1>2, <1>4
<1>6. UNION {R[i].deny : i \in DOMAIN R} \subseteq UNION {Q[i].deny : i \in DOMAIN Q}
  BY <1>1, <1>2
<1> QED BY <1>3, <1>5, <1>6

\* Policies that list the same and deny more decide no looser: the rules of all
\* units together, and those of SQL statement by statement.
LEMMA RulesTighten ==
  ASSUME NEW k, NEW p, NEW q, q.allow = p.allow, p.deny \subseteq q.deny,
         NEW units, NEW statements \in Seq(Units)
  PROVE  /\ NoLooser(CheckPolicyRules(k, p, units), CheckPolicyRules(k, q, units))
         /\ NoLooser(checkQueryPolicyRules(p, statements), checkQueryPolicyRules(q, statements))
<1>1. NoLooser(CheckPolicyRules(k, p, units), CheckPolicyRules(k, q, units))
  <2>1. Hit(typedMatcher[k], p.deny, units) => Hit(typedMatcher[k], q.deny, units)
    BY HitMore
  <2> QED BY <2>1 DEF CheckPolicyRules, NoLooser
<1> DEFINE denied(r, i) == Hit("value", r.deny, {statements[i]})
           unlisted(r, i) == r.allow # {} /\ ~Covered("value", r.allow, {statements[i]})
           stopping(r) == {i \in DOMAIN statements : denied(r, i) \/ unlisted(r, i)}
           denies(r) == \E i \in stopping(r) : denied(r, i) /\ \A j \in stopping(r) : i <= j
<1>2. \A r : checkQueryPolicyRules(r, statements)
               = IF stopping(r) = {} THEN "allow" ELSE IF denies(r) THEN "deny" ELSE "confirm"
  BY DEF checkQueryPolicyRules
<1>3. \A i : (denied(p, i) => denied(q, i)) /\ (unlisted(q, i) <=> unlisted(p, i))
  BY HitMore
<1>4. Len(statements) \in Nat /\ DOMAIN statements = 1..Len(statements)
  OBVIOUS
<1> HIDE DEF denied, unlisted
<1>5. stopping(p) \subseteq stopping(q) /\ stopping(q) \subseteq 1..Len(statements)
  BY <1>3, <1>4
<1>6. ASSUME denies(p) PROVE denies(q) /\ stopping(q) # {}
  <2>1. PICK i \in stopping(p) : denied(p, i) /\ \A j \in stopping(p) : i <= j
    BY <1>6
  <2>2. stopping(q) # {}
    BY <1>5, <2>1
  <2>3. PICK l \in stopping(q) : \A j \in stopping(q) : l <= j
    BY <1>4, <1>5, <2>2, Least
  <2>4. i \in Nat /\ l \in Nat /\ l <= i
    BY <1>4, <1>5, <2>1, <2>3
  <2>5. CASE l \in stopping(p)
    <3>1. l = i
      BY <2>1, <2>4, <2>5
    <3> QED BY <1>3, <2>1, <2>2, <2>3, <3>1
  <2>6. CASE l \notin stopping(p)
    <3>1. denied(q, l)
      BY <1>3, <2>6
    <3> QED BY <2>2, <2>3, <3>1
  <2> QED BY <2>5, <2>6
<1> HIDE DEF stopping, denies
<1>7. NoLooser(checkQueryPolicyRules(p, statements), checkQueryPolicyRules(q, statements))
  <2>1. checkQueryPolicyRules(p, statements) = "deny" => denies(p)
    BY <1>2
  <2>2. checkQueryPolicyRules(q, statements) = "allow" => checkQueryPolicyRules(p, statements) = "allow"
    <3>1. checkQueryPolicyRules(q, statements) = "allow" => stopping(q) = {}
      BY <1>2
    <3>2. stopping(q) = {} => stopping(p) = {}
      BY <1>5
    <3> QED BY <1>2, <3>1, <3>2
  <2> QED BY <1>2, <1>6, <2>1, <2>2 DEF NoLooser
<1> QED BY <1>1, <1>7

\* The holders of a policy after a step.
LEMMA HolderAtNext ==
  TypeOK' => (/\ Len(Chain) \in Nat /\ DOMAIN Chain = 1..Len(Chain)
              /\ DOMAIN policyHoldersForAsset = 1..(Len(Chain) + 1)
              /\ policyHoldersForAsset[1] = own
              /\ \A i \in 1..Len(Chain) : policyHoldersForAsset[i + 1] = typed[Chain[i]])'
BY HolderAt, PTL

\* A step that only adds deny rules only adds to the rules that are in effect.
LEMMA OnlyDeniesAdd ==
  ASSUME TypeOK, TypeOK', OnlyDenies
  PROVE  /\ ChainGroups' = ChainGroups
         /\ TypedPolicy'.allow = TypedPolicy.allow /\ TypedPolicy.deny \subseteq TypedPolicy'.deny
         /\ GroupGenericAllow' = GroupGenericAllow /\ GroupGenericDeny \subseteq GroupGenericDeny'
<1>1. Chain' = Chain /\ ChainGroups' = ChainGroups
  BY DEF OnlyDenies, Chain, ChainGroups
<1>2. ChainGroups \subseteq Groups
  <2>1. Chain \in Seq(Groups)
    BY ChainType
  <2> QED BY <2>1 DEF ChainGroups
<1> DEFINE h == policyHoldersForAsset
           k == policyHoldersForAsset'
           t == groupType[kind]
<1>3. DOMAIN k = DOMAIN h /\ DOMAIN h = 1..(Len(Chain) + 1) /\ Len(Chain) \in Nat
  BY <1>1, HolderAt, HolderAtNext
<1>4. ASSUME NEW i \in DOMAIN h PROVE AddsDeny(h[i], k[i])
  <2>1. CASE i = 1
    BY <1>1, <2>1, HolderAt, HolderAtNext DEF OnlyDenies
  <2>2. CASE i # 1
    <3>1. i - 1 \in 1..Len(Chain) /\ (i - 1) + 1 = i
      BY <1>3, <1>4, <2>2
    <3>2. h[(i - 1) + 1] = typed[Chain[i - 1]] /\ k[(i - 1) + 1] = typed'[Chain[i - 1]]
      BY <1>1, <3>1, HolderAt, HolderAtNext
    <3>3. Chain[i - 1] \in Groups
      BY <1>2, <3>1, HolderAt DEF ChainGroups
    <3>4. h[i] = typed[Chain[i - 1]] /\ k[i] = typed'[Chain[i - 1]]
      BY <3>1, <3>2
    <3> QED BY <3>3, <3>4 DEF OnlyDenies
  <2> QED BY <2>1, <2>2
<1> HIDE DEF h, k
<1>5. /\ CollectPolicies(t, k).allow = CollectPolicies(t, h).allow
      /\ CollectPolicies(t, h).deny \subseteq CollectPolicies(t, k).deny
  BY <1>3, <1>4, CollectMore
<1>6. TypedPolicy' = EffectivePolicy(kind, CollectPolicies(t, k)) /\ TypedPolicy = EffectivePolicy(kind, CollectPolicies(t, h))
  BY DEF TypedPolicy, OnlyDenies, h, k
<1>7. TypedPolicy'.allow = TypedPolicy.allow /\ TypedPolicy.deny \subseteq TypedPolicy'.deny
  BY <1>5, <1>6 DEF EffectivePolicy
<1>8. \A g \in ChainGroups :
        /\ ExpandPolicy("command", generic'[g]).allow = ExpandPolicy("command", generic[g]).allow
        /\ ExpandPolicy("command", generic[g]).deny \subseteq ExpandPolicy("command", generic'[g]).deny
  BY <1>2, ExpandMore DEF OnlyDenies
<1>9. GroupGenericAllow' = GroupGenericAllow /\ GroupGenericDeny \subseteq GroupGenericDeny'
  BY <1>1, <1>8 DEF GroupGenericAllow, GroupGenericDeny
<1> QED BY <1>1, <1>7, <1>9

\* Generic rules that deny more, and a typed result that is no looser, settle no looser.
LEMMA SettleTightens ==
  ASSUME kind' = kind, ListApprovedItems' = ListApprovedItems, ChainGroups' = ChainGroups,
         GroupGenericAllow' = GroupGenericAllow, GroupGenericDeny \subseteq GroupGenericDeny',
         NEW before \in {"allow", "deny", "confirm"}, NEW after \in {"allow", "deny", "confirm"},
         NoLooser(before, after), NEW units
  PROVE  NoLooser(Settle(CheckGroupGenericPolicy(units), before, units),
                  Settle(CheckGroupGenericPolicy(units), after, units)')
<1> DEFINE group == CheckGroupGenericPolicy(units)
           next == CheckGroupGenericPolicy(units)'
           granted == matchGrantPatterns(units)
<1>1. matchGrantPatterns(units)' <=> granted
  BY DEF matchGrantPatterns, GrantedRules, grantItemMatchesTarget
<1>2. Hit(genericMatcher[kind], GroupGenericDeny, units) => Hit(genericMatcher[kind], GroupGenericDeny', units)
  BY HitMore
<1>3. group \in {"allow", "deny", "confirm"} /\ next \in {"allow", "deny", "confirm"} /\ NoLooser(group, next)
  BY <1>2 DEF CheckGroupGenericPolicy, NoLooser
<1>4. /\ Settle(group, before, units) = IF group = "deny" THEN "deny" ELSE IF before # "confirm" THEN before
                                        ELSE IF group = "allow" \/ granted THEN "allow" ELSE "confirm"
      /\ Settle(group, after, units)' = IF next = "deny" THEN "deny" ELSE IF after # "confirm" THEN after
                                        ELSE IF next = "allow" \/ granted THEN "allow" ELSE "confirm"
  BY <1>1 DEF Settle
<1> HIDE DEF group, next, granted
<1> QED BY <1>3, <1>4 DEF NoLooser, group, next

\* Adding deny rules loosens no decision (CheckPermission), for any type of asset,
\* any rules, policies and groups, and any number of statements.
THEOREM DenyRulesTighten == Spec => DeniesTighten
<1>1. TypeOK /\ TypeOK' /\ OnlyDenies => \A c \in Commands : NoLooser(CheckPermission(c), CheckPermission(c)')
  <2> SUFFICES ASSUME TypeOK, TypeOK', OnlyDenies, NEW c \in Commands
               PROVE  NoLooser(CheckPermission(c), CheckPermission(c)')
    OBVIOUS
  <2>1. /\ kind' = kind /\ kind \in Kinds /\ ListApprovedItems' = ListApprovedItems
        /\ ChainGroups' = ChainGroups
        /\ GroupGenericAllow' = GroupGenericAllow /\ GroupGenericDeny \subseteq GroupGenericDeny'
        /\ TypedPolicy'.allow = TypedPolicy.allow /\ TypedPolicy.deny \subseteq TypedPolicy'.deny
    BY OnlyDeniesAdd DEF OnlyDenies, TypeOK, ListApprovedItems
  <2>2. c.units \in Seq(Units)
    BY CommandsAssumption
  <2>3. \A k, units :
          /\ NoLooser(CheckPolicyRules(k, TypedPolicy, units), CheckPolicyRules(k, TypedPolicy', units))
          /\ NoLooser(checkQueryPolicyRules(TypedPolicy, c.units), checkQueryPolicyRules(TypedPolicy', c.units))
    BY <2>1, <2>2, RulesTighten
  <2>4. \A before, after \in {"allow", "deny", "confirm"} : \A units :
          NoLooser(before, after) => NoLooser(Settle(CheckGroupGenericPolicy(units), before, units),
                                              Settle(CheckGroupGenericPolicy(units), after, units)')
    BY <2>1, SettleTightens
  <2>5. \A k, units : /\ NoLooser(Settle(CheckGroupGenericPolicy(units), CheckPolicyRules(k, TypedPolicy, units), units),
                                  Settle(CheckGroupGenericPolicy(units), CheckPolicyRules(k, TypedPolicy, units), units)')
                      /\ NoLooser(Settle(CheckGroupGenericPolicy(units), checkQueryPolicyRules(TypedPolicy, c.units), units),
                                  Settle(CheckGroupGenericPolicy(units), checkQueryPolicyRules(TypedPolicy, c.units), units)')
    BY <2>3, <2>4, PolicyResults
  <2>6. CASE kind \in {"ssh", "serial"}
    <3> DEFINE policies == {own} \cup {generic[g] : g \in ChainGroups}
               deny == UNION {ExpandPolicy("command", p).deny : p \in policies}
               allow == UNION {ExpandPolicy("command", p).allow : p \in policies}
    <3>1. deny = ExpandPolicy("command", own).deny \cup GroupGenericDeny
          /\ allow = ExpandPolicy("command", own).allow \cup GroupGenericAllow
      BY DEF GroupGenericDeny, GroupGenericAllow
    <3>2. deny' = ExpandPolicy("command", own').deny \cup GroupGenericDeny'
          /\ allow' = ExpandPolicy("command", own').allow \cup GroupGenericAllow'
      BY DEF GroupGenericDeny, GroupGenericAllow, ExpandPolicy, ReferencedGroups
    <3>3. deny \subseteq deny' /\ allow' = allow
      BY <2>1, <3>1, <3>2, ExpandMore DEF OnlyDenies
    <3>4. matchGrantPatterns(UnitsOf(c))' <=> matchGrantPatterns(UnitsOf(c))
      BY <2>1 DEF matchGrantPatterns, GrantedRules, grantItemMatchesTarget
    <3>5. Hit("command", deny, UnitsOf(c)) => Hit("command", deny', UnitsOf(c))
      BY <3>3, HitMore
    <3>6. /\ CheckPermission(c) = IF ~c.parsed \/ c.units = <<>> THEN "confirm"
             ELSE IF Hit("command", deny, UnitsOf(c)) THEN "deny"
             ELSE IF Covered("command", allow, UnitsOf(c)) \/ matchGrantPatterns(UnitsOf(c)) THEN "allow"
             ELSE "confirm"
          /\ CheckPermission(c)' = IF ~c.parsed \/ c.units = <<>> THEN "confirm"
             ELSE IF Hit("command", deny', UnitsOf(c)) THEN "deny"
             ELSE IF Covered("command", allow', UnitsOf(c)) \/ matchGrantPatterns(UnitsOf(c))' THEN "allow"
             ELSE "confirm"
      BY <2>1, <2>6 DEF CheckPermission, checkCommandPolicyPermission
    <3> HIDE DEF deny, allow
    <3> QED BY <3>3, <3>4, <3>5, <3>6 DEF NoLooser
  <2>7. CASE kind = "database"
    BY <2>1, <2>5, <2>7 DEF CheckPermission, checkDatabasePermission, NoLooser
  <2>8. CASE kind = "k8s"
    BY <2>1, <2>5, <2>8 DEF CheckPermission, checkK8sPermission, NoLooser
  <2>9. CASE kind \in {"redis", "mongodb", "kafka"}
    BY <2>1, <2>5, <2>9 DEF CheckPermission, CheckSinglePermission
  <2> QED BY <2>1, <2>6, <2>7, <2>8, <2>9 DEF Kinds
<1> QED BY <1>1, TypeCorrect, PTL DEF DeniesTighten

\* Patterns and grants, allowed or denied (SaveGrantPatterns, OpsctlGrant), never touch a
\* deny: a decision they change was a confirm and becomes an allow, or goes back from an
\* allow to a confirm when a denied grant rejects the session or an allowed one replaces its
\* items, and in no other step.
THEOREM GrantsOnlyLift == Spec => GrantsLiftConfirm
<1>1. TypeOK /\ UNCHANGED policyVars =>
        \A c \in Commands : CheckPermission(c)' # CheckPermission(c) =>
          \/ CheckPermission(c) = "confirm" /\ CheckPermission(c)' = "allow"
          \/ /\ CheckPermission(c) = "allow" /\ CheckPermission(c)' = "confirm"
             /\ ~(ListApprovedItems \subseteq ListApprovedItems')
  <2> DEFINE more == ListApprovedItems \subseteq ListApprovedItems'
             Changed(before, after) ==
               before # after => \/ before = "confirm" /\ after = "allow"
                                 \/ before = "allow" /\ after = "confirm" /\ ~more
  <2> SUFFICES ASSUME TypeOK, UNCHANGED <<kind, home, own, typed, generic>>, NEW c \in Commands
               PROVE  Changed(CheckPermission(c), CheckPermission(c)')
    BY DEF policyVars
  <2>1. /\ ChainGroups' = ChainGroups /\ TypedPolicy' = TypedPolicy /\ kind \in Kinds /\ kind' = kind
        /\ \A units : CheckGroupGenericPolicy(units)' = CheckGroupGenericPolicy(units)
    BY DEF ChainGroups, Chain, TypedPolicy, policyHoldersForAsset, CheckGroupGenericPolicy, GroupGenericDeny,
           GroupGenericAllow, TypeOK
  <2>2. more => GrantedRules \subseteq GrantedRules'
    BY <2>1 DEF GrantedRules, grantItemMatchesTarget
  <2>3. \A units : more /\ matchGrantPatterns(units) => matchGrantPatterns(units)'
    BY <2>1, <2>2 DEF matchGrantPatterns, Covered
  <2> HIDE DEF more
  <2>4. \A group, result, units :
          Changed(Settle(group, result, units), Settle(group, result, units)')
    BY <2>3 DEF Settle
  <2>5. CASE kind \in {"ssh", "serial"}
    <3> DEFINE policies == {own} \cup {generic[g] : g \in ChainGroups}
               deny == UNION {ExpandPolicy("command", p).deny : p \in policies}
               allow == UNION {ExpandPolicy("command", p).allow : p \in policies}
    <3>1. deny' = deny /\ allow' = allow
      BY <2>1
    <3>2. /\ CheckPermission(c) = IF ~c.parsed \/ c.units = <<>> THEN "confirm"
             ELSE IF Hit("command", deny, UnitsOf(c)) THEN "deny"
             ELSE IF Covered("command", allow, UnitsOf(c)) \/ matchGrantPatterns(UnitsOf(c)) THEN "allow"
             ELSE "confirm"
          /\ CheckPermission(c)' = IF ~c.parsed \/ c.units = <<>> THEN "confirm"
             ELSE IF Hit("command", deny', UnitsOf(c)) THEN "deny"
             ELSE IF Covered("command", allow', UnitsOf(c)) \/ matchGrantPatterns(UnitsOf(c))' THEN "allow"
             ELSE "confirm"
      BY <2>1, <2>5 DEF CheckPermission, checkCommandPolicyPermission
    <3> HIDE DEF deny, allow
    <3> QED BY <2>3, <3>1, <3>2
  <2>6. CASE kind = "database"
    BY <2>1, <2>4, <2>6 DEF CheckPermission, checkDatabasePermission
  <2>7. CASE kind = "k8s"
    BY <2>1, <2>4, <2>7 DEF CheckPermission, checkK8sPermission
  <2>8. CASE kind \in {"redis", "mongodb", "kafka"}
    BY <2>1, <2>4, <2>8 DEF CheckPermission, CheckSinglePermission
  <2> QED BY <2>1, <2>5, <2>6, <2>7, <2>8 DEF Kinds
<1>2. [Next]_vars => GrantDenied \/ GrantItemsDeleted \/ ListApprovedItems \subseteq ListApprovedItems'
  <2> SUFFICES ASSUME [Next]_vars, ~GrantDenied, ~GrantItemsDeleted
               PROVE  ListApprovedItems \subseteq ListApprovedItems'
    OBVIOUS
  <2>1. items \subseteq items' /\ (status = "approved" => status' = "approved")
    BY DEF Next, CheckForAsset, AnswerOnce, AnswerRemember, SaveGrantPatterns, SubmitGrant, OpsctlGrant,
           GrantAsked, GrantApproved, GrantItemsCreated, UpdateAsset, UpdateGroup, vars, policyVars, sessionVars
  <2> QED BY <2>1 DEF ListApprovedItems
<1> DEFINE Lifts ==
      UNCHANGED policyVars =>
        \A c \in Commands : CheckPermission(c)' # CheckPermission(c) =>
          \/ CheckPermission(c) = "confirm" /\ CheckPermission(c)' = "allow"
          \/ /\ CheckPermission(c) = "allow" /\ CheckPermission(c)' = "confirm"
             /\ GrantDenied \/ GrantItemsDeleted
<1>3. TypeOK /\ [Next]_vars => [Lifts]_vars
  BY <1>1, <1>2, Zenon
<1> QED BY <1>3, TypeCorrect, PTL DEF GrantsLiftConfirm, Spec
=============================================================================
