------------------------------ MODULE Forward ------------------------------
(***************************************************************************)
(* Port forwarding (internal/app/forward_manager.go): configurations of    *)
(* rules in the database, and the ForwardManager that runs them over one   *)
(* SSH client per asset, counted by the rules that were started on it.     *)
(*                                                                         *)
(* StartConfig reads the database before it takes m.mu and keeps m.mu over *)
(* the dial and the start of every rule; UpdateForwardConfig and           *)
(* DeleteForwardConfig change the database and call it in separate steps.  *)
(* A listener is closed by a goroutine of its own, some time after the     *)
(* rule's context was cancelled.                                           *)
(***************************************************************************)
EXTENDS Integers, FiniteSets

CONSTANTS Configs,  \* ids of configurations
          Rules,    \* ids of rules; no id is used twice
          remote,   \* remote[r]: the rule listens on the server, not locally
          address,  \* address[r]: where it listens
          Assets,
          Clients,  \* SSH clients a run may dial
          Procs,    \* goroutines that serve the calls of the page
          Editors,  \* bound: those of them that may create, update and delete
          None

\* What is known of a rule that was started: runningForward.
Runs == [config : Configs, asset : Assets, failed : BOOLEAN]

ASSUME ForwardAssumption ==
  /\ remote \in [Rules -> BOOLEAN]
  /\ IsFiniteSet(Rules)
  /\ None \notin Assets \cup Clients \cup Procs \cup Configs \cup Runs
  /\ {"new", "deleted"} \cap (Assets \cup Configs) = {}

VARIABLES
  \* the database
  config,     \* the asset of a configuration, or "new", or "deleted"
  ruleOf,     \* the configuration of a rule, or "new", or "deleted"
  \* ForwardManager
  mu,         \* who holds m.mu across steps, or None
  clients,    \* m.clients
  life,       \* "fresh" before the dial, "open", "dead" when cut off, "closed"
  refs,       \* fc.refs
  running,    \* m.running: [config, asset, failed], or None
  listeners,  \* open listeners [rule, client]
  cancelled,  \* those whose context has been cancelled
  \* a call: its place, configuration, asset, rules, wasRunning and client
  pc, conf, asset, rules, wasRunning, conn,
  overlapped  \* history: configurations of which two calls met since their last Stop

dbVars == <<config, ruleOf>>
clientVars == <<clients, life, refs>>
runVars == <<running, listeners, cancelled>>
callVars == <<pc, conf, asset, rules, wasRunning, conn>>
vars == <<dbVars, mu, clientVars, runVars, callVars, overlapped>>

Listeners == [rule : Rules, client : Clients]
Places == {"idle", "find", "list", "lock", "dial", "install", "start",
           "isRunning", "stop", "save", "replace", "deleteRules", "deleteConfig"}

TypeOK ==
  /\ config \in [Configs -> Assets \cup {"new", "deleted"}]
  /\ ruleOf \in [Rules -> Configs \cup {"new", "deleted"}]
  /\ mu \in Procs \cup {None}
  /\ clients \in [Assets -> Clients \cup {None}]
  /\ life \in [Clients -> {"fresh", "open", "dead", "closed"}]
  /\ refs \in [Clients -> Int]
  /\ running \in [Rules -> Runs \cup {None}]
  /\ listeners \subseteq Listeners
  /\ cancelled \subseteq listeners
  /\ pc \in [Procs -> Places]
  /\ conf \in [Procs -> Configs \cup {None}]
  /\ asset \in [Procs -> Assets \cup {None}]
  /\ rules \in [Procs -> SUBSET Rules]
  /\ wasRunning \in [Procs -> BOOLEAN]
  /\ conn \in [Procs -> Clients \cup {None}]
  /\ overlapped \subseteq Configs

Init ==
  /\ config = [k \in Configs |-> "new"]
  /\ ruleOf = [r \in Rules |-> "new"]
  /\ mu = None
  /\ clients = [a \in Assets |-> None]
  /\ life = [c \in Clients |-> "fresh"]
  /\ refs = [c \in Clients |-> 0]
  /\ running = [r \in Rules |-> None]
  /\ listeners = {}
  /\ cancelled = {}
  /\ pc = [p \in Procs |-> "idle"]
  /\ conf = [p \in Procs |-> None]
  /\ asset = [p \in Procs |-> None]
  /\ rules = [p \in Procs |-> {}]
  /\ wasRunning = [p \in Procs |-> FALSE]
  /\ conn = [p \in Procs |-> None]
  /\ overlapped = {}

Goto(p, l) == pc' = [pc EXCEPT ![p] = l]
Calls(k) == {p \in Procs : pc[p] # "idle" /\ conf[p] = k}
Stored(k) == {r \in Rules : ruleOf[r] = k}
Ran(k) == {r \in Rules : running[r] # None /\ running[r].config = k}
RanOn(a) == {r \in Rules : running[r] # None /\ running[r].asset = a}

\* A call of the page begins. The page knows the ids that were created, those of
\* deleted configurations included.
Begin(p, k, l) ==
  /\ pc[p] = "idle"
  /\ Goto(p, l)
  /\ conf' = [conf EXCEPT ![p] = k]
  /\ overlapped' = IF Calls(k) # {} THEN overlapped \cup {k} ELSE overlapped

\* The call ends; its variables go.
Return(p) ==
  /\ Goto(p, "idle")
  /\ conf' = [conf EXCEPT ![p] = None]
  /\ asset' = [asset EXCEPT ![p] = None]
  /\ rules' = [rules EXCEPT ![p] = {}]
  /\ wasRunning' = [wasRunning EXCEPT ![p] = FALSE]
  /\ conn' = [conn EXCEPT ![p] = None]

-----------------------------------------------------------------------------
(* Clients and listeners *)

\* Clients are closed: their remote listeners end with them.
Shut(cs) ==
  /\ life' = [c \in Clients |-> IF c \in cs THEN "closed" ELSE life[c]]
  /\ LET ended == {l \in listeners : remote[l.rule] /\ l.client \in cs} IN
     listeners' = listeners \ ended

\* releaseClientLocked, once for each of the rules: the asset's client is
\* closed with the last of them.
Left(a, rs) == refs[clients[a]] - Cardinality({r \in rs : running[r].asset = a})

\* Mutant: a client without rules is kept.
EmptiedLate(rs) == {a \in Assets : clients[a] # None /\ Left(a, rs) < 0}

Emptied(rs) == {a \in Assets : /\ clients[a] # None
                               /\ \E r \in rs : running[r].asset = a
                               /\ Left(a, rs) <= 0}

\* Mutant: the contexts of the rules are not cancelled.
stopConfigUncancelled(k) ==
  LET rs == Ran(k)
      emptied == Emptied(rs)
  IN /\ clients' = [a \in Assets |-> IF a \in emptied THEN None ELSE clients[a]]
     /\ refs' = [c \in Clients |->
                   refs[c] - Cardinality({r \in rs : clients[running[r].asset] = c})]
     /\ Shut({clients[a] : a \in emptied})
     /\ cancelled' = cancelled \cap listeners'
     /\ running' = [r \in Rules |-> IF r \in rs THEN None ELSE running[r]]

stopConfigLocked(k) ==
  LET rs == Ran(k)
      emptied == Emptied(rs)
  IN /\ clients' = [a \in Assets |-> IF a \in emptied THEN None ELSE clients[a]]
     /\ refs' = [c \in Clients |->
                   refs[c] - Cardinality({r \in rs : clients[running[r].asset] = c})]
     /\ Shut({clients[a] : a \in emptied})
     /\ cancelled' = {l \in listeners' : l \in cancelled \/ l.rule \in rs}
     /\ running' = [r \in Rules |-> IF r \in rs THEN None ELSE running[r]]

\* The goroutine of a rule whose context was cancelled closes its listener.
CloseListener(l) ==
  /\ l \in cancelled
  /\ listeners' = listeners \ {l}
  /\ cancelled' = cancelled \ {l}
  /\ UNCHANGED <<dbVars, mu, clientVars, running, callVars, overlapped>>

\* The connection of a client breaks; the manager does not notice.
Drop(c) ==
  /\ life[c] = "open"
  /\ life' = [life EXCEPT ![c] = "dead"]
  /\ LET ended == {l \in listeners : remote[l.rule] /\ l.client = c} IN
     /\ listeners' = listeners \ ended
     /\ cancelled' = cancelled \ ended
  /\ UNCHANGED <<dbVars, mu, clients, refs, running, callVars, overlapped>>

-----------------------------------------------------------------------------
(* StartConfig *)

StartForwardConfig(p, k) ==
  /\ config[k] # "new"
  /\ Begin(p, k, "find")
  /\ UNCHANGED <<dbVars, mu, clientVars, runVars, asset, rules, wasRunning, conn>>

\* Both reads come before the lock.
FindConfig(p) ==
  /\ pc[p] = "find"
  /\ \/ /\ config[conf[p]] \in Assets
        /\ asset' = [asset EXCEPT ![p] = config[conf[p]]]
        /\ Goto(p, "list")
        /\ UNCHANGED <<conf, rules, wasRunning, conn>>
     \/ Return(p)
  /\ UNCHANGED <<dbVars, mu, clientVars, runVars, overlapped>>

ListRulesByConfigID(p) ==
  /\ pc[p] = "list"
  /\ \/ /\ Stored(conf[p]) # {}
        /\ rules' = [rules EXCEPT ![p] = Stored(conf[p])]
        /\ Goto(p, "lock")
        /\ UNCHANGED <<conf, asset, wasRunning, conn>>
     \/ Return(p)
  /\ UNCHANGED <<dbVars, mu, clientVars, runVars, overlapped>>

Lock(p) ==
  /\ pc[p] = "lock" /\ mu = None
  /\ mu' = p
  /\ stopConfigLocked(conf[p])
  /\ Goto(p, "dial")
  /\ UNCHANGED <<dbVars, conf, asset, rules, wasRunning, conn, overlapped>>

\* getOrDialLocked: a client in the map is taken as it is, broken or not.
Reuse(p) ==
  /\ pc[p] = "dial" /\ clients[asset[p]] # None
  /\ conn' = [conn EXCEPT ![p] = clients[asset[p]]]
  /\ Goto(p, "start")
  /\ UNCHANGED <<dbVars, mu, clientVars, runVars, conf, asset, rules, wasRunning, overlapped>>

\* Mutant: an asset is dialled although its client is in the map.
DialAssetAnyway(p) ==
  /\ pc[p] = "dial"
  /\ \E c \in Clients : /\ life[c] = "fresh"
                        /\ life' = [life EXCEPT ![c] = "open"]
                        /\ conn' = [conn EXCEPT ![p] = c]
  /\ Goto(p, "install")
  /\ UNCHANGED <<dbVars, mu, clients, refs, runVars, conf, asset, rules, wasRunning, overlapped>>

DialAsset(p) ==
  /\ pc[p] = "dial" /\ clients[asset[p]] = None
  /\ \E c \in Clients : /\ life[c] = "fresh"
                        /\ life' = [life EXCEPT ![c] = "open"]
                        /\ conn' = [conn EXCEPT ![p] = c]
  /\ Goto(p, "install")
  /\ UNCHANGED <<dbVars, mu, clients, refs, runVars, conf, asset, rules, wasRunning, overlapped>>

DialFails(p) ==
  /\ pc[p] = "dial" /\ clients[asset[p]] = None
  /\ mu' = None
  /\ Return(p)
  /\ UNCHANGED <<dbVars, clientVars, runVars, overlapped>>

Install(p) ==
  /\ pc[p] = "install"
  /\ clients' = [clients EXCEPT ![asset[p]] = conn[p]]
  /\ Goto(p, "start")
  /\ UNCHANGED <<dbVars, mu, life, refs, runVars, conf, asset, rules, wasRunning, conn, overlapped>>

\* An address that a listener of this process, or of this client, still has.
Busy(r, c) ==
  \E l \in listeners : /\ address[l.rule] = address[r]
                       /\ remote[l.rule] = remote[r]
                       /\ remote[r] => l.client = c

\* startForwardRule: it may fail for other reasons too.
Listen(r, c) ==
  /\ ~Busy(r, c)
  /\ remote[r] => life[c] = "open"
  /\ listeners' = listeners \cup {[rule |-> r, client |-> c]}

\* The rule is done; m.mu is released after the last one.
RuleStarted(p, r) ==
  IF rules[p] = {r}
    THEN mu' = None /\ Return(p)
    ELSE /\ rules' = [rules EXCEPT ![p] = @ \ {r}]
         /\ UNCHANGED <<mu, pc, conf, asset, wasRunning, conn>>

\* Mutant: a rule that failed is not counted.
StartRuleUncounted(p, r) ==
  /\ pc[p] = "start" /\ r \in rules[p]
  /\ \E failed \in BOOLEAN :
       /\ IF failed THEN UNCHANGED listeners ELSE Listen(r, conn[p])
       /\ running' = [running EXCEPT ![r] = [config |-> conf[p], asset |-> asset[p], failed |-> failed]]
       /\ refs' = IF failed THEN refs ELSE [refs EXCEPT ![conn[p]] = @ + 1]
  /\ RuleStarted(p, r)
  /\ UNCHANGED <<dbVars, clients, life, cancelled, overlapped>>

\* A rule that failed is recorded and counted like one that runs.
StartRule(p, r) ==
  /\ pc[p] = "start" /\ r \in rules[p]
  /\ \E failed \in BOOLEAN :
       /\ IF failed THEN UNCHANGED listeners ELSE Listen(r, conn[p])
       /\ running' = [running EXCEPT ![r] = [config |-> conf[p], asset |-> asset[p], failed |-> failed]]
  /\ refs' = [refs EXCEPT ![conn[p]] = @ + 1]
  /\ RuleStarted(p, r)
  /\ UNCHANGED <<dbVars, clients, life, cancelled, overlapped>>

-----------------------------------------------------------------------------
(* StopConfig and StopAll *)

StopForwardConfig(k) ==
  /\ mu = None
  /\ stopConfigLocked(k)
  /\ overlapped' = IF Calls(k) = {} THEN overlapped \ {k} ELSE overlapped
  /\ UNCHANGED <<dbVars, mu, callVars>>

\* The entries go, their counts with them.
StopAll ==
  /\ mu = None
  /\ running' = [r \in Rules |-> None]
  /\ clients' = [a \in Assets |-> None]
  /\ Shut({clients[a] : a \in Assets})
  /\ cancelled' = {l \in listeners' : l \in cancelled \/ running[l.rule] # None}
  /\ refs' = [c \in Clients |-> 0]
  /\ UNCHANGED <<dbVars, mu, callVars, overlapped>>

-----------------------------------------------------------------------------
(* Create, update and delete *)

CreateForwardConfig(p, k, a) ==
  /\ config[k] = "new"
  /\ Begin(p, k, "replace")
  /\ config' = [config EXCEPT ![k] = a]
  /\ wasRunning' = [wasRunning EXCEPT ![p] = FALSE]
  /\ UNCHANGED <<ruleOf, mu, clientVars, runVars, asset, rules, conn>>

UpdateForwardConfig(p, k, a) ==
  /\ config[k] \in Assets
  /\ Begin(p, k, "isRunning")
  /\ asset' = [asset EXCEPT ![p] = a]
  /\ UNCHANGED <<dbVars, mu, clientVars, runVars, rules, wasRunning, conn>>

IsConfigRunning(p) ==
  /\ pc[p] = "isRunning" /\ mu = None
  /\ wasRunning' = [wasRunning EXCEPT ![p] = Ran(conf[p]) # {}]
  /\ Goto(p, IF Ran(conf[p]) # {} THEN "stop" ELSE "save")
  /\ UNCHANGED <<dbVars, mu, clientVars, runVars, conf, asset, rules, conn, overlapped>>

StopConfig(p) ==
  /\ pc[p] = "stop" /\ mu = None
  /\ stopConfigLocked(conf[p])
  /\ Goto(p, "save")
  /\ UNCHANGED <<dbVars, mu, conf, asset, rules, wasRunning, conn, overlapped>>

\* Save writes the row again if it was deleted meanwhile.
UpdateConfig(p) ==
  /\ pc[p] = "save"
  /\ \/ /\ config' = [config EXCEPT ![conf[p]] = asset[p]]
        /\ Goto(p, "replace")
        /\ UNCHANGED <<conf, asset, rules, wasRunning, conn>>
     \/ Return(p) /\ UNCHANGED config
  /\ UNCHANGED <<ruleOf, mu, clientVars, runVars, overlapped>>

WithoutRules(k) == [r \in Rules |-> IF r \in Stored(k) THEN "deleted" ELSE ruleOf[r]]

\* The old rows go and new ones come, without a transaction: there may be none
\* if the second statement fails, and then the call ends.
ReplaceRules(p) ==
  /\ pc[p] = "replace"
  /\ \/ \E new \in SUBSET {r \in Rules : ruleOf[r] = "new"} :
          /\ ruleOf' = [r \in Rules |-> IF r \in new THEN conf[p] ELSE WithoutRules(conf[p])[r]]
          /\ IF wasRunning[p]
               THEN Goto(p, "find") /\ UNCHANGED <<conf, asset, rules, wasRunning, conn>>
               ELSE Return(p)
     \/ /\ ruleOf' \in {ruleOf, WithoutRules(conf[p])}
        /\ Return(p)
  /\ UNCHANGED <<config, mu, clientVars, runVars, overlapped>>

\* Mutant: the configuration is deleted while it runs.
DeleteUnstopped(p, k) ==
  /\ config[k] # "new" /\ mu = None
  /\ Begin(p, k, "deleteRules")
  /\ UNCHANGED <<dbVars, mu, clientVars, runVars, asset, rules, wasRunning, conn>>

DeleteForwardConfig(p, k) ==
  /\ config[k] # "new" /\ mu = None
  /\ Begin(p, k, "deleteRules")
  /\ stopConfigLocked(k)
  /\ UNCHANGED <<dbVars, mu, asset, rules, wasRunning, conn>>

DeleteRulesByConfigID(p) ==
  /\ pc[p] = "deleteRules"
  /\ \/ /\ ruleOf' = WithoutRules(conf[p])
        /\ Goto(p, "deleteConfig")
        /\ UNCHANGED <<conf, asset, rules, wasRunning, conn>>
     \/ Return(p) /\ UNCHANGED ruleOf
  /\ UNCHANGED <<config, mu, clientVars, runVars, overlapped>>

DeleteConfig(p) ==
  /\ pc[p] = "deleteConfig"
  /\ config' \in {config, [config EXCEPT ![conf[p]] = "deleted"]}
  /\ Return(p)
  /\ UNCHANGED <<ruleOf, mu, clientVars, runVars, overlapped>>

-----------------------------------------------------------------------------
StartStep(p) == \/ FindConfig(p) \/ ListRulesByConfigID(p) \/ Lock(p)
                \/ Reuse(p) \/ DialAsset(p) \/ DialFails(p) \/ Install(p)
                \/ \E r \in Rules : StartRule(p, r)
EditStep(p) == \/ IsConfigRunning(p) \/ StopConfig(p) \/ UpdateConfig(p) \/ ReplaceRules(p)
               \/ DeleteRulesByConfigID(p) \/ DeleteConfig(p)
BeginEdit(p) ==
  /\ p \in Editors
  /\ \E k \in Configs : \/ DeleteForwardConfig(p, k)
                        \/ \E a \in Assets : \/ CreateForwardConfig(p, k, a)
                                             \/ UpdateForwardConfig(p, k, a)
BeginCall(p) == BeginEdit(p) \/ \E k \in Configs : StartForwardConfig(p, k)

Next == \/ \E p \in Procs : BeginCall(p) \/ StartStep(p) \/ EditStep(p)
        \/ \E k \in Configs : StopForwardConfig(k)
        \/ StopAll
        \/ \E l \in Listeners : CloseListener(l)
        \/ \E c \in Clients : Drop(c)

Spec == Init /\ [][Next]_vars

-----------------------------------------------------------------------------
(* What the manager is relied on for *)

\* The count of an asset's client is the number of its rules, failed ones
\* included, although every release looks the client up by asset again: the
\* mutex is kept from the stop of the old rules to the start of the last.
RefsExact ==
  \A a \in Assets :
    IF clients[a] = None THEN RanOn(a) = {} ELSE refs[clients[a]] = Cardinality(RanOn(a))

\* Between two critical sections a client that is open has rules: it is closed
\* with the last of them, and nothing dialled is left behind.
ClientsNeeded ==
  \A c \in Clients : life[c] \in {"open", "dead"} =>
    \/ \E a \in Assets : clients[a] = c /\ RanOn(a) # {}
    \/ mu # None /\ conn[mu] = c

\* A rule shown as running has its listener, on the client of its asset, except
\* that the listener on a server ends with the connection; and a listener that
\* was not told to close belongs to a rule shown as running.
StatusIsTrue ==
  /\ \A r \in Rules : running[r] # None /\ ~running[r].failed =>
       LET c == clients[running[r].asset] IN
       [rule |-> r, client |-> c] \in listeners \ cancelled \/ (remote[r] /\ life[c] = "dead")
  /\ \A l \in listeners \ cancelled :
       /\ running[l.rule] # None /\ ~running[l.rule].failed
       /\ clients[running[l.rule].asset] = l.client

\* A configuration is stopped as a whole or runs the rules that are stored, on
\* the asset that is stored.
AsStored(k) ==
  /\ Ran(k) \in {{}, Stored(k)}
  /\ \A r \in Ran(k) : running[r].asset = config[k]

\* When no call is under way, and no two calls for the configuration have met
\* since it was last stopped, a configuration runs what is stored, on the asset
\* that is stored, or nothing; a deleted one, which stores no rules, is stopped.
RunsWhatIsStored == \A k \in Configs : k \notin overlapped /\ Calls(k) = {} => AsStored(k)

\* The life ConnSlots gives a client.
Stage == [c \in Clients |->
            IF life[c] \in {"fresh", "closed"} THEN life[c]
            ELSE IF \E a \in Assets : clients[a] = c THEN "shared"
            ELSE "private"]

\* The manager implements the cache contract.
Slots == INSTANCE ConnSlots WITH Keys <- Assets, Conns <- Clients, slot <- clients, stage <- Stage
SlotsSafety == Slots!Safety

-----------------------------------------------------------------------------
(* The inductive invariant *)

\* Where a call stands tells which of its variables are set, and who holds m.mu.
LocalsOK ==
  \A p \in Procs :
    /\ pc[p] # "idle" => conf[p] \in Configs
    /\ pc[p] \in {"list", "lock", "dial", "install", "start", "isRunning", "stop", "save"}
         => asset[p] \in Assets
    /\ pc[p] \in {"install", "start"} => conn[p] \in Clients
    /\ pc[p] \in {"dial", "install", "start"} <=> mu = p
    /\ pc[p] \in {"lock", "dial", "install", "start"} <=> rules[p] # {}

\* The call that holds m.mu: what it dials is its own until it is in the map, and
\* none of its rules runs yet.
HolderOK ==
  mu # None =>
    /\ pc[mu] = "install" => clients[asset[mu]] = None
    /\ pc[mu] = "start" => clients[asset[mu]] = conn[mu]
    /\ \A r \in rules[mu] : running[r] = None

\* Clients in the map are open, each under one asset; a client that was never in
\* the map has no count; one that is open and not in the map was just dialled.
ClientsOK ==
  /\ \A a, b \in Assets : clients[a] # None =>
       /\ life[clients[a]] \in {"open", "dead"}
       /\ clients[a] = clients[b] => a = b
  /\ \A c \in Clients :
       /\ life[c] = "fresh" => refs[c] = 0
       /\ life[c] \in {"open", "dead"} /\ (\A a \in Assets : clients[a] # c) =>
            /\ mu # None /\ pc[mu] = "install" /\ conn[mu] = c
            /\ refs[c] = 0
  /\ \A p \in Procs : pc[p] = "install" =>
       life[conn[p]] \in {"open", "dead"} /\ \A a \in Assets : clients[a] # conn[p]

\* A client in the map has rules, or is about to get its first.
InUse ==
  \A a \in Assets : clients[a] # None =>
    \/ RanOn(a) # {}
    \/ mu # None /\ pc[mu] = "start" /\ asset[mu] = a

\* A rule belongs to one configuration: in the database, in a call that has read
\* it and while it runs. A new id is nowhere.
RuleOwned(r) ==
  /\ ruleOf[r] = "new" => running[r] = None /\ \A p \in Procs : r \notin rules[p]
  /\ \A p \in Procs : r \in rules[p] =>
       /\ ruleOf[r] \in {conf[p], "deleted"}
       /\ running[r] # None => running[r].config = conf[p]
       /\ \A q \in Procs : r \in rules[q] => conf[q] = conf[p]
  /\ running[r] # None => ruleOf[r] \in {running[r].config, "deleted"}
RulesOwned == \A r \in Rules : RuleOwned(r)

\* The count that a release brings to zero is that of the last rule, so that a
\* client is closed with its last rule and no earlier.
IInv == /\ TypeOK
        /\ LocalsOK
        /\ HolderOK
        /\ ClientsOK
        /\ InUse
        /\ RulesOwned
        /\ RefsExact
        /\ StatusIsTrue

\* What the one call for a configuration may rely on, as long as no two calls for
\* it have met.
CallOK(p, k) ==
  /\ pc[p] \in {"find", "list", "lock", "isRunning", "stop"} => AsStored(k)
  /\ pc[p] \in {"list", "lock", "dial", "install", "start"} => asset[p] = config[k]
  /\ pc[p] \in {"lock", "dial", "install"} => rules[p] = Stored(k)
  /\ pc[p] \in {"dial", "install", "save", "replace", "deleteRules", "deleteConfig"} => Ran(k) = {}
  /\ pc[p] = "start" =>
       /\ rules[p] \subseteq Stored(k)
       /\ Ran(k) = Stored(k) \ rules[p]
       /\ \A r \in Ran(k) : running[r].asset = config[k]

\* What is stored for a configuration and what runs of it, seen from its calls.
StoredFor(k) ==
  /\ config[k] = "new" => Stored(k) = {} /\ Ran(k) = {} /\ Calls(k) = {}
  /\ k \notin overlapped =>
       /\ Calls(k) = {} => AsStored(k)
       /\ \A p \in Calls(k) : CallOK(p, k) /\ \A q \in Calls(k) : q = p

\* With IInv, inductive; RunsWhatIsStored is its part for configurations without calls.
StoredInv == \A k \in Configs : StoredFor(k)
=============================================================================
