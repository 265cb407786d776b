----------------------------- MODULE Permission -----------------------------
(***************************************************************************)
(* The permission decision of the AI tools and of opsctl (internal/ai:     *)
(* permission.go, command_policy.go, policy_effective.go, query_policy.go, *)
(* k8s_policy.go, redis_policy.go, kafka_policy.go), the policy tester of  *)
(* the settings page that promises to predict it (policy_tester.go), and   *)
(* the confirmations and grants that change it while it is in use.         *)
(*                                                                         *)
(* A command is what its parser makes of it: whether it parses, the units  *)
(* that are matched one by one (sub-commands, statements), its own text.   *)
(* What a rule matches is the constant match, so nothing depends on the    *)
(* syntax of a rule; a saved pattern is a rule with the text of a unit.    *)
(***************************************************************************)
EXTENDS Naturals, Sequences, FiniteSets

CONSTANTS Units,         \* texts that are matched: sub-commands, statements, operations
          Rules,         \* rules of policies, with every unit: a pattern that was saved
          match,         \* match[m][r]: the units that matcher m finds rule r to match
          Commands,      \* [parsed, byLine : BOOLEAN, units : Seq(Units), raw : Units]
          PolicyGroups,  \* reusable policy groups
          policyGroup,   \* [type, allow, deny] of each of them
          Policies,      \* [allow, deny, groups]: what the asset's policy may be set to
          GroupPolicies, \* likewise for the policies of asset groups
          default,       \* the default policy of each typed kind
          Groups,        \* asset groups
          parent,        \* the parent of a group, or None
          None,
          Targets,       \* what grants are for: this asset, another one, all of them, a group
          MaxGrants,     \* bound: no more grants are saved in the session beyond this number
          MaxAsking      \* bound: confirmations open at a time

Matchers == {"command", "redis", "kafka", "value"}
Kinds == {"ssh", "serial", "database", "redis", "mongodb", "kafka", "k8s"}
GroupTypes == {"command", "query", "redis", "mongo", "kafka"}

ASSUME RulesAssumption == Units \subseteq Rules
ASSUME MatchAssumption == match \in [Matchers -> [Rules -> SUBSET Units]]
ASSUME CommandsAssumption ==
  Commands \subseteq [parsed : BOOLEAN, byLine : BOOLEAN, units : Seq(Units), raw : Units]
ASSUME PolicyGroupAssumption ==
  policyGroup \in [PolicyGroups -> [type : GroupTypes, allow : SUBSET Rules, deny : SUBSET Rules]]
ASSUME PoliciesAssumption ==
  Policies \cup GroupPolicies
    \subseteq [allow : SUBSET Rules, deny : SUBSET Rules, groups : SUBSET PolicyGroups]
ASSUME DefaultAssumption ==
  default \in [Kinds -> [allow : SUBSET Rules, deny : SUBSET Rules, groups : SUBSET PolicyGroups]]
ASSUME ParentAssumption == None \notin Groups /\ parent \in [Groups -> Groups \cup {None}]

ASSUME TargetsAssumption ==
  "asset" \in Targets /\ Targets \subseteq {"asset", "other", "all"} \cup Groups

VARIABLES kind,       \* the type of the asset
          home,       \* its group, or None
          own,        \* its policy
          typed,      \* the policy of each group for the asset's type
          generic,    \* the command policy of each group, which holds for all types
          status,     \* of the grant session in the database, or "absent"
          items,      \* its grant items, whatever its status: [target, rule]
          opsctl,     \* handleGrantApproval of the session: where the latest one is
          asking,     \* commands whose confirmation waits for the user
          remembered  \* history: commands allowed with "remember", patterns unedited,
                      \* since the items of the session were last replaced

policyVars == <<kind, home, own, typed, generic>>
sessionVars == <<status, items, opsctl>>
vars == <<policyVars, sessionVars, asking, remembered>>

TypeOK ==
  /\ kind \in Kinds
  /\ home \in Groups \cup {None}
  /\ own \in Policies
  /\ typed \in [Groups -> GroupPolicies]
  /\ generic \in [Groups -> GroupPolicies]
  /\ status \in {"absent", "pending", "approved", "rejected"}
  /\ items \subseteq [target : Targets, rule : Rules]
  /\ opsctl \in {"never", "waiting", "edited", "cleared", "answered"}
  /\ asking \subseteq Commands
  /\ remembered \subseteq Commands

-----------------------------------------------------------------------------
(***************************************************************************)
(* Matching.                                                               *)
(***************************************************************************)

\* A rule matches one of the units: how deny lists are read.
Hit(m, rules, units) == \E u \in units, r \in rules : u \in match[m][r]

\* Every unit is matched by a rule: how allow lists and grants are read.
Covered(m, rules, units) == \A u \in units : \E r \in rules : u \in match[m][r]

UnitsOf(c) == {c.units[i] : i \in DOMAIN c.units}

genericMatcher == [k \in Kinds |-> IF k = "redis" THEN "redis" ELSE "command"]
typedMatcher ==
  [k \in Kinds |-> IF k \in {"ssh", "serial", "k8s"} THEN "command"
                   ELSE IF k \in {"database", "mongodb"} THEN "value" ELSE k]
grantMatcher == [k \in Kinds |-> IF k = "kafka" THEN "kafka" ELSE "command"]
groupType ==
  [k \in Kinds |-> IF k \in {"ssh", "serial", "k8s"} THEN "command"
                   ELSE IF k = "database" THEN "query"
                   ELSE IF k = "mongodb" THEN "mongo" ELSE k]

-----------------------------------------------------------------------------
(***************************************************************************)
(* Policies, the policy groups they name, and the chain of asset groups.   *)
(***************************************************************************)
ReferencedGroups(t, p) == {i \in p.groups : policyGroup[i].type = t}

ExpandPolicy(t, p) ==
  [allow |-> p.allow \cup UNION {policyGroup[i].allow : i \in ReferencedGroups(t, p)},
   deny |-> p.deny \cup UNION {policyGroup[i].deny : i \in ReferencedGroups(t, p)}]

\* From a group to its root, five groups at most.
AddParent(chain) ==
  LET last == chain[Len(chain)] IN
  IF parent[last] = None THEN chain ELSE Append(chain, parent[last])
resolveGroupChain(g) ==
  IF g = None THEN <<>> ELSE AddParent(AddParent(AddParent(AddParent(<<g>>))))

Chain == resolveGroupChain(home)
ChainGroups == {Chain[i] : i \in DOMAIN Chain}

\* The asset's policy, then those of its groups, inner ones first.
policyHoldersForAsset == <<own>> \o [i \in DOMAIN Chain |-> typed[Chain[i]]]

\* Mutant: the inner policy that has deny rules hides those of the outer ones.
CollectInnerDeny(t, holders) ==
  LET rules == [i \in DOMAIN holders |-> ExpandPolicy(t, holders[i])] IN
  [allow |-> UNION {rules[i].allow : i \in DOMAIN rules},
   deny |-> LET set == {i \in DOMAIN rules : rules[i].deny # {}} IN
            UNION {rules[i].deny : i \in {j \in set : \A k \in set : j <= k}}]

\* The inner allow list that is not empty counts, and every deny list does.
CollectPolicies(t, holders) ==
  LET rules == [i \in DOMAIN holders |-> ExpandPolicy(t, holders[i])]
      listing == {i \in DOMAIN rules : rules[i].allow # {}}
  IN [allow |-> UNION {rules[i].allow : i \in {j \in listing : \A k \in listing : j <= k}},
      deny |-> UNION {rules[i].deny : i \in DOMAIN rules}]

\* Default rules are added to deny, and stand in for an allow list that is empty.
EffectivePolicy(k, merged) ==
  LET defaults == ExpandPolicy(groupType[k], default[k]) IN
  [allow |-> IF merged.allow # {} THEN merged.allow ELSE defaults.allow,
   deny |-> merged.deny \cup defaults.deny]

-----------------------------------------------------------------------------
(***************************************************************************)
(* The decision of each layer.                                             *)
(***************************************************************************)

\* Redis, MongoDB, Kafka and Kubernetes: a policy without allow list allows.
CheckPolicyRules(k, p, units) ==
  IF Hit(typedMatcher[k], p.deny, units) THEN "deny"
  ELSE IF p.allow = {} \/ Covered(typedMatcher[k], p.allow, units) THEN "allow"
  ELSE "confirm"

\* SQL: statement by statement, the first that is denied or not listed decides.
checkQueryPolicyRules(p, statements) ==
  LET denied(i) == Hit("value", p.deny, {statements[i]})
      unlisted(i) == p.allow # {} /\ ~Covered("value", p.allow, {statements[i]})
      stopping == {i \in DOMAIN statements : denied(i) \/ unlisted(i)}
  IN IF stopping = {} THEN "allow"
     ELSE IF \E i \in stopping : denied(i) /\ \A j \in stopping : i <= j THEN "deny"
     ELSE "confirm"

\* The generic command policies of the asset's groups.
GroupGenericDeny == UNION {ExpandPolicy("command", generic[g]).deny : g \in ChainGroups}
GroupGenericAllow == UNION {ExpandPolicy("command", generic[g]).allow : g \in ChainGroups}

\* Mutant: one unit that is allowed lets the whole command pass.
CheckGroupGenericAny(units) ==
  IF Hit(genericMatcher[kind], GroupGenericDeny, units) THEN "deny"
  ELSE IF Hit(genericMatcher[kind], GroupGenericAllow, units) THEN "allow"
  ELSE "confirm"

CheckGroupGenericPolicy(units) ==
  IF Hit(genericMatcher[kind], GroupGenericDeny, units) THEN "deny"
  ELSE IF GroupGenericAllow # {} /\ Covered(genericMatcher[kind], GroupGenericAllow, units)
  THEN "allow"
  ELSE "confirm"

\* The items count, those of other approvals included, while the session is approved:
\* items for this asset, for one of its groups, or for every asset.
ListApprovedItems == IF status = "approved" THEN items ELSE {}
grantItemMatchesTarget(item) == item.target \in {"asset", "all"} \cup ChainGroups
GrantedRules == {item.rule : item \in {i \in ListApprovedItems : grantItemMatchesTarget(i)}}
matchGrantPatterns(units) == Covered(grantMatcher[kind], GrantedRules, units)

\* The typed policy decides; a generic allow lifts its confirm, then a grant does.
Settle(group, result, units) ==
  IF group = "deny" THEN "deny"
  ELSE IF result # "confirm" THEN result
  ELSE IF group = "allow" \/ matchGrantPatterns(units) THEN "allow"
  ELSE "confirm"

-----------------------------------------------------------------------------
(***************************************************************************)
(* CheckPermission: one operator per type of asset.                        *)
(***************************************************************************)

\* ssh and serial: the rules of all policies together, then the grants.
checkCommandPolicyPermission(c) ==
  LET policies == {own} \cup {generic[g] : g \in ChainGroups}
      deny == UNION {ExpandPolicy("command", p).deny : p \in policies}
      allow == UNION {ExpandPolicy("command", p).allow : p \in policies}
  IN IF ~c.parsed \/ c.units = <<>> THEN "confirm"
     ELSE IF Hit("command", deny, UnitsOf(c)) THEN "deny"
     ELSE IF Covered("command", allow, UnitsOf(c)) \/ matchGrantPatterns(UnitsOf(c)) THEN "allow"
     ELSE "confirm"

TypedPolicy == EffectivePolicy(kind, CollectPolicies(groupType[kind], policyHoldersForAsset))

\* A text without statements, a comment, is matched as it is.
StatementTexts(c) == IF c.units = <<>> THEN {c.raw} ELSE UnitsOf(c)

checkDatabasePermission(c) ==
  IF ~c.parsed THEN "deny"
  ELSE Settle(CheckGroupGenericPolicy(StatementTexts(c)),
              checkQueryPolicyRules(TypedPolicy, c.units), StatementTexts(c))

checkK8sPermission(c) ==
  IF ~c.parsed \/ c.units = <<>> THEN "confirm"
  ELSE Settle(CheckGroupGenericPolicy(UnitsOf(c)),
              CheckPolicyRules("k8s", TypedPolicy, UnitsOf(c)), UnitsOf(c))

\* redis, mongodb and kafka: the command is the one unit.
CheckSinglePermission(c) ==
  Settle(CheckGroupGenericPolicy({c.raw}), CheckPolicyRules(kind, TypedPolicy, {c.raw}), {c.raw})

CheckPermission(c) ==
  IF kind \in {"ssh", "serial"} THEN checkCommandPolicyPermission(c)
  ELSE IF kind = "database" THEN checkDatabasePermission(c)
  ELSE IF kind = "k8s" THEN checkK8sPermission(c)
  ELSE CheckSinglePermission(c)

-----------------------------------------------------------------------------
(***************************************************************************)
(* The tester: the policy in the editor, here the saved one, is tried with *)
(* code of its own. It knows nothing of grants.                            *)
(***************************************************************************)
TestedKinds == {"ssh", "database", "redis", "k8s"}

TestGroups == resolveGroupChain(home)
TestGroupRules ==
  LET rules == {ExpandPolicy("command", generic[TestGroups[i]]) : i \in DOMAIN TestGroups} IN
  [allow |-> UNION {r.allow : r \in rules}, deny |-> UNION {r.deny : r \in rules}]

MergePoliciesForTest(t) ==
  LET rules == [i \in DOMAIN (<<own>> \o TestGroups) |->
                  ExpandPolicy(t, IF i = 1 THEN own ELSE typed[TestGroups[i - 1]])]
      listing == {i \in DOMAIN rules : rules[i].allow # {}}
  IN [allow |-> UNION {rules[i].allow : i \in {j \in listing : \A k \in listing : j <= k}},
      deny |-> UNION {rules[i].deny : i \in DOMAIN rules}]

testSSHPolicy(c) ==
  LET current == ExpandPolicy("command", own) IN
  IF ~c.parsed \/ c.units = <<>> THEN "confirm"
  ELSE IF Hit("command", current.deny \cup TestGroupRules.deny, UnitsOf(c)) THEN "deny"
  ELSE IF Covered("command", current.allow \cup TestGroupRules.allow, UnitsOf(c)) THEN "allow"
  ELSE "confirm"

\* Mutant: the generic rules are asked before the typed policy.
TestSettleGenericFirst(m, result, units) ==
  IF Hit(m, TestGroupRules.deny, units) THEN "deny"
  ELSE IF Covered(m, TestGroupRules.allow, units) THEN "allow"
  ELSE result

\* The generic rules may only deny, or lift the confirm of the typed policy.
TestSettle(m, result, units) ==
  IF Hit(m, TestGroupRules.deny, units) THEN "deny"
  ELSE IF result = "confirm" /\ Covered(m, TestGroupRules.allow, units) THEN "allow"
  ELSE result

testQueryPolicy(c) ==
  IF ~c.parsed THEN "deny"
  ELSE TestSettle("command",
         checkQueryPolicyRules(EffectivePolicy("database", MergePoliciesForTest("query")), c.units),
         StatementTexts(c))

testRedisPolicy(c) ==
  TestSettle("redis",
    CheckPolicyRules("redis", EffectivePolicy("redis", MergePoliciesForTest("redis")), {c.raw}),
    {c.raw})

testK8sPolicy(c) ==
  IF ~c.parsed \/ c.units = <<>> THEN "confirm"
  ELSE TestSettle("command",
         CheckPolicyRules("k8s", EffectivePolicy("k8s", MergePoliciesForTest("command")), UnitsOf(c)),
         UnitsOf(c))

TestPolicy(c) ==
  IF kind = "ssh" THEN testSSHPolicy(c)
  ELSE IF kind = "database" THEN testQueryPolicy(c)
  ELSE IF kind = "redis" THEN testRedisPolicy(c)
  ELSE IF kind = "k8s" THEN testK8sPolicy(c)
  ELSE "confirm"

-----------------------------------------------------------------------------
(***************************************************************************)
(* Confirmations, grants and edits.                                        *)
(***************************************************************************)
Init ==
  /\ kind \in Kinds
  /\ home \in Groups \cup {None}
  /\ own \in Policies
  /\ typed \in [Groups -> GroupPolicies]
  /\ generic \in [Groups -> GroupPolicies]
  /\ status = "absent" /\ items = {} /\ opsctl = "never"
  /\ asking = {}
  /\ remembered = {}

\* A command that is neither allowed nor denied is put to the user.
CheckForAsset(c) ==
  /\ Cardinality(asking) < MaxAsking
  /\ c \notin asking
  /\ CheckPermission(c) = "confirm"
  /\ asking' = asking \cup {c}
  /\ UNCHANGED <<policyVars, sessionVars, remembered>>

\* The user allows it once or denies it: it runs or does not, nothing is kept.
AnswerOnce(c) ==
  /\ c \in asking
  /\ asking' = asking \ {c}
  /\ UNCHANGED <<policyVars, sessionVars, remembered>>

\* Mutant: the command is kept as it was typed.
NormalizeUnsplit(c) == {c.raw}

\* A line that does not parse by itself is kept as a pattern of its own.
NormalizeGrantPatterns(c) ==
  IF kind \in {"ssh", "k8s"} /\ c.parsed /\ c.byLine /\ c.units # <<>> THEN UnitsOf(c)
  ELSE {c.raw}

\* Item by item.  A session that does not exist is created as approved; the status of
\* one that does is left alone, and with "pending" or "rejected" the items have no effect.
SaveGrantPatterns(target, rules) ==
  /\ status' = IF status = "absent" THEN "approved" ELSE status
  /\ items' = items \cup {[target |-> target, rule |-> r] : r \in rules}
  /\ UNCHANGED opsctl

\* The pattern the user edited, if any, or those of the command, for this asset; from
\* the confirmation of a tool call or of opsctl.
AnswerRemember(c, edited) ==
  /\ c \in asking
  /\ Cardinality(items) <= MaxGrants
  /\ asking' = asking \ {c}
  /\ SaveGrantPatterns("asset", IF edited # {} THEN edited ELSE NormalizeGrantPatterns(c))
  /\ remembered' = IF edited = {} THEN remembered \cup {c} ELSE remembered
  /\ UNCHANGED policyVars

\* The grant that a tool call asked for is allowed: its patterns are saved.
SubmitGrant(target, r) ==
  /\ Cardinality(items) < MaxGrants
  /\ SaveGrantPatterns(target, {r})
  /\ UNCHANGED <<policyVars, asking, remembered>>

-----------------------------------------------------------------------------
(***************************************************************************)
(* handleGrantApproval: a grant that opsctl asks for.  One at a time is a   *)
(* bound of this module (Approval has several), one item stands for those   *)
(* of a grant, and the statements of the database do not fail here.         *)
(***************************************************************************)
OpsctlIdle == opsctl \in {"never", "answered"}

\* CreateSession, which leaves a session that exists alone, and CreateItems: the items
\* are in the database, and effective if the session is approved, before the user is asked.
GrantAsked(target, r) ==
  /\ OpsctlIdle /\ Cardinality(items) <= MaxGrants
  /\ status' = IF status = "absent" THEN "pending" ELSE status
  /\ items' = items \cup {[target |-> target, rule |-> r]}
  /\ opsctl' = "waiting"
  /\ UNCHANGED <<policyVars, asking, remembered>>

\* Denied, or the app shuts down: the whole session is rejected.
GrantDenied ==
  /\ opsctl = "waiting"
  /\ status' = "rejected" /\ opsctl' = "answered"
  /\ UNCHANGED <<policyVars, items, asking, remembered>>

\* Allowed, with or without items from the dialog.
GrantApproved ==
  /\ opsctl = "waiting"
  /\ status' = "approved" /\ opsctl' \in {"answered", "edited"}
  /\ UNCHANGED <<policyVars, items, asking, remembered>>

\* UpdateItems, first statement: all items of the session go, remembered patterns too.
GrantItemsDeleted ==
  /\ opsctl = "edited"
  /\ items' = {} /\ remembered' = {} /\ opsctl' = "cleared"
  /\ UNCHANGED <<policyVars, status, asking>>

\* UpdateItems, second statement: the items of the dialog.
GrantItemsCreated(target, r) ==
  /\ opsctl = "cleared"
  /\ items' = items \cup {[target |-> target, rule |-> r]}
  /\ opsctl' = "answered"
  /\ UNCHANGED <<policyVars, status, asking, remembered>>

OpsctlGrant(target, r) ==
  GrantAsked(target, r) \/ GrantDenied \/ GrantApproved \/ GrantItemsDeleted \/ GrantItemsCreated(target, r)

-----------------------------------------------------------------------------
(* Edits of the asset and its groups *)

UpdateAsset(p, g) ==
  /\ own' = p
  /\ home' = g
  /\ UNCHANGED <<kind, typed, generic, sessionVars, asking, remembered>>

UpdateGroup(g, p, q) ==
  /\ typed' = [typed EXCEPT ![g] = p]
  /\ generic' = [generic EXCEPT ![g] = q]
  /\ UNCHANGED <<kind, home, own, sessionVars, asking, remembered>>

Next ==
  \/ \E c \in Commands : CheckForAsset(c) \/ AnswerOnce(c)
  \/ \E c \in Commands, edited \in {{}} \cup {{r} : r \in Rules} : AnswerRemember(c, edited)
  \/ \E target \in Targets, r \in Rules : SubmitGrant(target, r) \/ OpsctlGrant(target, r)
  \/ \E p \in Policies, g \in Groups \cup {None} : UpdateAsset(p, g)
  \/ \E g \in Groups, p \in GroupPolicies, q \in GroupPolicies : UpdateGroup(g, p, q)

Spec == Init /\ [][Next]_vars

-----------------------------------------------------------------------------
(***************************************************************************)
(* What the decision promises.                                             *)
(***************************************************************************)

\* The policies that apply to the asset, for its own type.
TypedPolicies ==
  {own} \cup {IF kind \in {"ssh", "serial"} THEN generic[g] ELSE typed[g] : g \in ChainGroups}
    \cup (IF kind \in {"ssh", "serial"} THEN {} ELSE {default[kind]})
TypedDeny == UNION {ExpandPolicy(groupType[kind], p).deny : p \in TypedPolicies}
TypedAllow == UNION {ExpandPolicy(groupType[kind], p).allow : p \in TypedPolicies}

\* What of a command is matched, and whether it is read in full.
Matched(c) ==
  IF kind \in {"ssh", "serial", "k8s"} THEN UnitsOf(c)
  ELSE IF kind = "database" THEN StatementTexts(c)
  ELSE {c.raw}
TypedMatched(c) == IF kind = "database" THEN UnitsOf(c) ELSE Matched(c)
ParsedKinds == {"ssh", "serial", "database", "k8s"}
SingleStatement(c) == kind = "database" => Len(c.units) <= 1

\* The allow rules of the asset's type cover the command: all together for ssh
\* and serial, one policy by itself otherwise, the asset's own if it lists any.
TypedCovers(c) ==
  IF kind \in {"ssh", "serial"} THEN Covered("command", TypedAllow, Matched(c))
  ELSE \E p \in TypedPolicies :
         /\ Covered(typedMatcher[kind], ExpandPolicy(groupType[kind], p).allow, TypedMatched(c))
         /\ ExpandPolicy(groupType[kind], own).allow # {} => p = own

\* A deny rule wins over every allow rule and every grant, wherever in the
\* chain of groups, the referenced policy groups or the defaults it stands: no
\* command that one of them matches is allowed or put to the user. SQL with
\* several statements is left out: there the first statement that is not listed
\* ends the search (checkQueryPolicyRules).
DenyWins ==
  \A c \in Commands :
    /\ kind \in ParsedKinds => c.parsed
    /\ SingleStatement(c)
    /\ \/ Hit(typedMatcher[kind], TypedDeny, TypedMatched(c))
       \/ Hit(genericMatcher[kind], GroupGenericDeny, Matched(c))
    => CheckPermission(c) = "deny"

\* A command is allowed only as a whole and by one authority: the allow rules of
\* its type, the generic rules of its groups, or the grants of the session that
\* reach this asset. Units allowed by different authorities do not add up, the
\* asset's own list replaces those of its groups (except for ssh and serial,
\* where they add up), and a command that could not be parsed is never allowed.
\* Only a type whose policies and default list nothing allows without a rule.
AllowIsCovered ==
  \A c \in Commands :
    CheckPermission(c) = "allow" =>
      /\ kind \in ParsedKinds => c.parsed
      /\ \/ TypedCovers(c)
         \/ Covered(genericMatcher[kind], GroupGenericAllow, Matched(c))
         \/ Covered(grantMatcher[kind], GrantedRules, Matched(c))
         \/ TypedAllow = {} /\ kind \notin {"ssh", "serial"}

\* The tester predicts the decision, although it collects, merges and orders the
\* rules in code of its own: they differ at most in that a grant of the session
\* allows what the tester, which knows no grants, would have confirmed.
TesterAgrees ==
  kind \in TestedKinds =>
    \A c \in Commands :
      \/ CheckPermission(c) = TestPolicy(c)
      \/ TestPolicy(c) = "confirm" /\ CheckPermission(c) = "allow"
           /\ matchGrantPatterns(Matched(c))

\* A command whose patterns can be kept: it has units and its lines parse one by
\* one where they are split, it is one unit where it is not, and each unit
\* matches its own text.
Keepable(c) ==
  /\ kind \in {"ssh", "k8s"} => c.byLine /\ c.units # <<>>
  /\ kind \in {"serial", "database"} => c.units = <<c.raw>>
  /\ \A u \in Matched(c) : u \in match[grantMatcher[kind]][u]

\* Once the user has allowed a command for good, it is never put to the user again,
\* whatever policies, groups and moves of the asset follow: it is allowed, or denied by a
\* rule. That is so for good in a session for which opsctl never asks for a grant, as that
\* of a conversation, whose id no code hands to opsctl. Where it does, it is so while the session is approved, however
\* often it was rejected before, and until a grant replaces the items of the session.
RememberedHolds ==
  opsctl = "never" \/ status = "approved" =>
    \A c \in remembered : (kind \in ParsedKinds => c.parsed) /\ Keepable(c) => CheckPermission(c) # "confirm"

\* A step that at most adds deny rules to the policies of the asset and its groups.
AddsDeny(p, q) == q.allow = p.allow /\ q.groups = p.groups /\ p.deny \subseteq q.deny
OnlyDenies == /\ UNCHANGED <<kind, home, status, items>>
              /\ AddsDeny(own, own')
              /\ \A g \in Groups : AddsDeny(typed[g], typed'[g]) /\ AddsDeny(generic[g], generic'[g])

\* No command fares better: what was denied is denied, what is allowed was.
NoLooser(before, after) == /\ before = "deny" => after = "deny"
                           /\ after = "allow" => before = "allow"

\* Adding deny rules never loosens a decision, at whatever place in the chain they
\* are added: merges, defaults that stand in for empty lists, and the statements
\* of SQL that are decided one after the other included.
DeniesTighten ==
  [][OnlyDenies => \A c \in Commands : NoLooser(CheckPermission(c), CheckPermission(c)')]_vars

\* Patterns and grants, allowed or denied, never touch a deny: they only turn a confirm
\* into an allow and back, and back only when a denied grant rejects the session or an
\* allowed one replaces its items.
GrantsLiftConfirm ==
  [][UNCHANGED policyVars =>
       \A c \in Commands : CheckPermission(c)' # CheckPermission(c) =>
         \/ CheckPermission(c) = "confirm" /\ CheckPermission(c)' = "allow"
         \/ /\ CheckPermission(c) = "allow" /\ CheckPermission(c)' = "confirm"
            /\ GrantDenied \/ GrantItemsDeleted]_vars
=============================================================================
