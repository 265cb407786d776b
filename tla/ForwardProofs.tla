--------------------------- MODULE ForwardProofs ---------------------------
(***************************************************************************)
(* Theorems about Forward, for any configurations, rules, assets, clients  *)
(* and calls.  The inductive invariant IInv ties the counts to the rules   *)
(* that run; StoredInv, on top of it, the rules that run to those stored.  *)
(***************************************************************************)
EXTENDS Forward, FiniteSetTheorems, TLAPS

-----------------------------------------------------------------------------
(***************************************************************************)
(* Counting.                                                               *)
(***************************************************************************)

\* Taking the members of T out of S takes their number off the count, and leaves
\* nothing exactly if T has all of them.
LEMMA Removed ==
  ASSUME NEW S, IsFiniteSet(S), NEW T
  PROVE  /\ Cardinality(S \cap T) \in Nat
         /\ Cardinality(S \ T) = Cardinality(S) - Cardinality(S \cap T)
         /\ Cardinality(S) - Cardinality(S \cap T) <= 0 <=> S \subseteq T
<1>1. IsFiniteSet(S \cap T) /\ IsFiniteSet(S \ T)
  <2>1. S \cap T \subseteq S /\ S \ T \subseteq S
    OBVIOUS
  <2> QED BY <2>1, FS_Subset
<1>2. Cardinality(S \cap T) \in Nat /\ Cardinality(S \ T) \in Nat
  BY <1>1, FS_CardinalityType
<1>3. Cardinality(S \ T) = Cardinality(S) - Cardinality(S \cap T)
  BY FS_Difference
<1>4. Cardinality(S \ T) = 0 <=> S \ T = {}
  BY <1>1, FS_EmptySet
<1>5. Cardinality(S) - Cardinality(S \cap T) <= 0 <=> Cardinality(S \ T) = 0
  BY <1>2, <1>3, SMT
<1> QED BY <1>2, <1>3, <1>4, <1>5

\* A rule more is counted as one more.
LEMMA Added ==
  ASSUME NEW S, IsFiniteSet(S), NEW r, r \notin S
  PROVE  Cardinality(S \cup {r}) = Cardinality(S) + 1
BY FS_AddElement

\* The rules of an asset are finitely many.
LEMMA RulesFinite == \A a : IsFiniteSet(RanOn(a))
<1> SUFFICES ASSUME NEW a PROVE IsFiniteSet(RanOn(a))
  OBVIOUS
<1>1. RanOn(a) \subseteq Rules
  BY DEF RanOn
<1> QED BY <1>1, ForwardAssumption, FS_Subset

-----------------------------------------------------------------------------
(***************************************************************************)
(* stopConfigLocked.                                                       *)
(***************************************************************************)

\* What a client loses when a configuration stops: the rules that ran on it.
LEMMA ReleasedOn ==
  ASSUME TypeOK, ClientsOK, RefsExact, NEW k \in Configs, NEW a \in Assets, clients[a] # None
  PROVE  {r \in Ran(k) : clients[running[r].asset] = clients[a]} = RanOn(a) \cap Ran(k)
<1>1. ASSUME NEW r \in Ran(k), clients[running[r].asset] = clients[a]
      PROVE  r \in RanOn(a)
  <2>1. r \in Rules /\ running[r] # None
    BY DEF Ran
  <2>2. running[r].asset \in Assets
    BY <2>1, SMT DEF TypeOK, Runs
  <2>3. running[r].asset = a
    BY <1>1, <2>2, Zenon DEF ClientsOK
  <2> QED BY <2>1, <2>3 DEF RanOn
<1>2. ASSUME NEW r \in RanOn(a) \cap Ran(k)
      PROVE  r \in Ran(k) /\ clients[running[r].asset] = clients[a]
  BY <1>2 DEF RanOn
<1> QED BY <1>1, <1>2

\* The clients that are closed are those that lose all their rules.
LEMMA EmptiedAre ==
  ASSUME TypeOK, RefsExact, NEW k \in Configs
  PROVE  Emptied(Ran(k)) = {a \in Assets : RanOn(a) # {} /\ RanOn(a) \subseteq Ran(k)}
<1> SUFFICES ASSUME NEW a \in Assets
             PROVE  a \in Emptied(Ran(k)) <=> RanOn(a) # {} /\ RanOn(a) \subseteq Ran(k)
  BY DEF Emptied
<1> DEFINE lost == {r \in Ran(k) : running[r].asset = a}
<1>1. lost = RanOn(a) \cap Ran(k)
  BY DEF Ran, RanOn
<1>2. a \in Emptied(Ran(k)) <=> clients[a] # None /\ lost # {} /\ refs[clients[a]] - Cardinality(lost) <= 0
  BY Zenon DEF Emptied, Left
<1>3. clients[a] = None => RanOn(a) = {}
  BY DEF RefsExact
<1>4. clients[a] # None => refs[clients[a]] = Cardinality(RanOn(a))
  BY DEF RefsExact
<1>5. Cardinality(RanOn(a)) - Cardinality(RanOn(a) \cap Ran(k)) <= 0 <=> RanOn(a) \subseteq Ran(k)
  BY RulesFinite, Removed
<1> HIDE DEF lost
<1>6. CASE clients[a] = None
  BY <1>2, <1>3, <1>6
<1>7. CASE clients[a] # None
  <2>1. a \in Emptied(Ran(k)) <=> RanOn(a) \cap Ran(k) # {} /\ RanOn(a) \subseteq Ran(k)
    BY <1>1, <1>2, <1>4, <1>5, <1>7
  <2> QED BY <2>1
<1> QED BY <1>6, <1>7

\* stopConfigLocked in terms of the rules that run.
LEMMA StopEffect ==
  ASSUME TypeOK, ClientsOK, RefsExact, NEW k \in Configs, stopConfigLocked(k)
  PROVE  /\ running' = [r \in Rules |-> IF r \in Ran(k) THEN None ELSE running[r]]
         /\ \A a \in Assets : RanOn(a)' = RanOn(a) \ Ran(k)
         /\ clients' = [a \in Assets |-> IF a \in Emptied(Ran(k)) THEN None ELSE clients[a]]
         /\ \A a \in Assets : clients[a] # None => refs'[clients[a]] = Cardinality(RanOn(a)')
         /\ \A c \in Clients : (\A a \in Assets : clients[a] # c) => refs'[c] = refs[c]
         /\ refs' \in [Clients -> Int]
         /\ Shut({clients[a] : a \in Emptied(Ran(k))})
         /\ cancelled' = {l \in listeners' : l \in cancelled \/ l.rule \in Ran(k)}
<1> DEFINE lost(c) == {r \in Ran(k) : clients[running[r].asset] = c}
<1>1. /\ running' = [r \in Rules |-> IF r \in Ran(k) THEN None ELSE running[r]]
      /\ clients' = [a \in Assets |-> IF a \in Emptied(Ran(k)) THEN None ELSE clients[a]]
      /\ refs' = [c \in Clients |-> refs[c] - Cardinality(lost(c))]
      /\ Shut({clients[a] : a \in Emptied(Ran(k))})
      /\ cancelled' = {l \in listeners' : l \in cancelled \/ l.rule \in Ran(k)}
  BY Zenon DEF stopConfigLocked
<1>2. ASSUME NEW a \in Assets PROVE RanOn(a)' = RanOn(a) \ Ran(k)
  BY <1>1 DEF RanOn
<1>3. ASSUME NEW a \in Assets, clients[a] # None PROVE refs'[clients[a]] = Cardinality(RanOn(a)')
  <2>1. clients[a] \in Clients
    BY <1>3, SMT DEF TypeOK, Runs
  <2>2. lost(clients[a]) = RanOn(a) \cap Ran(k)
    BY <1>3, ReleasedOn
  <2>3. refs'[clients[a]] = refs[clients[a]] - Cardinality(RanOn(a) \cap Ran(k))
    BY <1>1, <2>1, <2>2
  <2>4. refs[clients[a]] = Cardinality(RanOn(a))
    BY <1>3 DEF RefsExact
  <2>5. Cardinality(RanOn(a) \ Ran(k)) = Cardinality(RanOn(a)) - Cardinality(RanOn(a) \cap Ran(k))
    BY RulesFinite, Removed
  <2> QED BY <1>2, <2>3, <2>4, <2>5
<1>4. ASSUME NEW c \in Clients, \A a \in Assets : clients[a] # c PROVE refs'[c] = refs[c]
  <2>1. lost(c) = {}
    <3> SUFFICES ASSUME NEW r \in lost(c) PROVE FALSE
      OBVIOUS
    <3>1. r \in Rules /\ running[r] # None /\ clients[running[r].asset] = c
      BY DEF Ran
    <3>2. running[r].asset \in Assets
      BY <3>1, SMT DEF TypeOK, Runs
    <3> QED BY <1>4, <3>1, <3>2
  <2>2. Cardinality(lost(c)) = 0
    BY <2>1, FS_EmptySet
  <2>3. refs'[c] = refs[c] - 0 /\ refs[c] \in Int
    BY <1>1, <2>2 DEF TypeOK
  <2> QED BY <2>3, SMT
<1>5. refs' \in [Clients -> Int]
  <2>1. ASSUME NEW c \in Clients PROVE refs[c] - Cardinality(lost(c)) \in Int
    <3>1. lost(c) \subseteq Rules
      BY DEF Ran
    <3>2. IsFiniteSet(lost(c))
      BY <3>1, ForwardAssumption, FS_Subset
    <3>3. Cardinality(lost(c)) \in Nat
      BY <3>2, FS_CardinalityType
    <3>4. refs[c] \in Int
      BY DEF TypeOK
    <3> QED BY <3>3, <3>4, SMT
  <2> QED BY <1>1, <2>1
<1> QED BY <1>1, <1>2, <1>3, <1>4, <1>5

\* With m.mu free, every client that is open is in the map and has rules.
LEMMA FreeMutex ==
  ASSUME IInv, mu = None
  PROVE  /\ \A p \in Procs : pc[p] \notin {"dial", "install", "start"}
         /\ \A a \in Assets : clients[a] # None => RanOn(a) # {}
         /\ \A c \in Clients : life[c] \in {"open", "dead"} => \E a \in Assets : clients[a] = c
<1>1. None \notin Procs
  BY ForwardAssumption
<1>2. \A p \in Procs : pc[p] \notin {"dial", "install", "start"}
  BY <1>1 DEF IInv, LocalsOK
<1>3. \A a \in Assets : clients[a] # None => RanOn(a) # {}
  BY DEF IInv, InUse
<1>4. \A c \in Clients : life[c] \in {"open", "dead"} => \E a \in Assets : clients[a] = c
  BY DEF IInv, ClientsOK
<1> QED BY <1>2, <1>3, <1>4

\* The manager after stopConfigLocked.
StoppedWell(k) ==
  /\ RefsExact' /\ StatusIsTrue'
  /\ \A a, b \in Assets : clients'[a] # None =>
       /\ life'[clients'[a]] \in {"open", "dead"}
       /\ clients'[a] = clients'[b] => a = b
       /\ RanOn(a)' # {}
  /\ \A c \in Clients : /\ life'[c] = "fresh" => refs'[c] = 0
                        /\ life'[c] \in {"open", "dead"} => \E a \in Assets : clients'[a] = c
  /\ clients' \in [Assets -> Clients \cup {None}]
  /\ life' \in [Clients -> {"fresh", "open", "dead", "closed"}]
  /\ refs' \in [Clients -> Int]
  /\ running' \in [Rules -> Runs \cup {None}]
  /\ listeners' \subseteq Listeners /\ cancelled' \subseteq listeners'
  /\ running' = [r \in Rules |-> IF r \in Ran(k) THEN None ELSE running[r]]

\* stopConfigLocked closes exactly the clients whose last rules it stops, and
\* leaves the rules of other configurations with their listeners.
LEMMA StopKeeps ==
  ASSUME IInv, mu = None, NEW k \in Configs, stopConfigLocked(k)
  PROVE  StoppedWell(k)
<1> USE DEF IInv
<1> DEFINE emptied == Emptied(Ran(k))
<1>1. /\ running' = [r \in Rules |-> IF r \in Ran(k) THEN None ELSE running[r]]
      /\ \A a \in Assets : RanOn(a)' = RanOn(a) \ Ran(k)
      /\ clients' = [a \in Assets |-> IF a \in emptied THEN None ELSE clients[a]]
      /\ \A a \in Assets : clients[a] # None => refs'[clients[a]] = Cardinality(RanOn(a)')
      /\ \A c \in Clients : (\A a \in Assets : clients[a] # c) => refs'[c] = refs[c]
      /\ refs' \in [Clients -> Int]
      /\ Shut({clients[a] : a \in emptied})
      /\ cancelled' = {l \in listeners' : l \in cancelled \/ l.rule \in Ran(k)}
  BY StopEffect
<1>2. emptied = {a \in Assets : RanOn(a) # {} /\ RanOn(a) \subseteq Ran(k)}
  BY EmptiedAre
<1>3. /\ life' = [c \in Clients |-> IF c \in {clients[a] : a \in emptied} THEN "closed" ELSE life[c]]
      /\ listeners' = listeners \ {l \in listeners : remote[l.rule] /\ l.client \in {clients[a] : a \in emptied}}
  BY <1>1, Zenon DEF Shut
<1> HIDE DEF emptied
<1>4. clients \in [Assets -> Clients \cup {None}] /\ None \notin Clients
  BY ForwardAssumption DEF TypeOK
<1>5. \A a, b \in Assets : clients[a] # None /\ clients[a] = clients[b] => a = b
  BY DEF ClientsOK
<1>6. ASSUME NEW a \in Assets, clients'[a] # None
      PROVE  /\ clients'[a] = clients[a] /\ clients[a] # None /\ a \notin emptied
             /\ clients[a] \notin {clients[b] : b \in emptied}
             /\ life'[clients[a]] = life[clients[a]]
             /\ RanOn(a)' # {}
  <2>1. clients'[a] = clients[a] /\ clients[a] # None /\ a \notin emptied
    BY <1>1, <1>6
  <2>2. clients[a] \notin {clients[b] : b \in emptied}
    BY <1>2, <1>5, <2>1
  <2>3. life'[clients[a]] = life[clients[a]]
    BY <1>3, <1>4, <2>1, <2>2
  <2>4. RanOn(a) # {}
    BY <2>1, FreeMutex
  <2>5. RanOn(a)' # {}
    BY <1>1, <1>2, <2>1, <2>4
  <2> QED BY <2>1, <2>2, <2>3, <2>5
<1>7. \A a \in Assets : clients'[a] = None => RanOn(a)' = {}
  <2> SUFFICES ASSUME NEW a \in Assets, clients'[a] = None PROVE RanOn(a)' = {}
    OBVIOUS
  <2>1. a \in emptied \/ clients[a] = None
    BY <1>1
  <2>2. clients[a] = None => RanOn(a) = {}
    BY DEF RefsExact
  <2> QED BY <1>1, <1>2, <2>1, <2>2
<1>8. RefsExact'
  <2>1. \A a \in Assets : clients'[a] # None => refs'[clients'[a]] = Cardinality(RanOn(a)')
    BY <1>1, <1>6
  <2> QED BY <1>7, <2>1 DEF RefsExact
<1>9. ASSUME NEW r \in Rules, running'[r] # None
      PROVE  /\ running'[r] = running[r] /\ running[r] # None /\ r \notin Ran(k)
             /\ running[r].asset \in Assets
             /\ clients'[running[r].asset] # None
  <2>1. running'[r] = running[r] /\ running[r] # None /\ r \notin Ran(k)
    BY <1>1, <1>9
  <2>2. running[r].asset \in Assets
    BY <2>1, SMT DEF TypeOK, Runs
  <2>3. r \in RanOn(running[r].asset)
    BY <2>1 DEF RanOn
  <2>4. RanOn(running[r].asset)' # {}
    BY <1>1, <2>1, <2>2, <2>3
  <2> QED BY <1>7, <2>1, <2>2, <2>4
<1>10. ASSUME NEW r \in Rules, running'[r] # None, ~running'[r].failed
       PROVE  LET c == clients'[running'[r].asset] IN
              [rule |-> r, client |-> c] \in listeners' \ cancelled' \/ (remote[r] /\ life'[c] = "dead")
  <2> DEFINE c == clients[running[r].asset]
             l == [rule |-> r, client |-> c]
  <2>1. /\ running'[r] = running[r] /\ running[r] # None /\ r \notin Ran(k)
        /\ running[r].asset \in Assets
        /\ clients'[running[r].asset] # None
    BY <1>9, <1>10
  <2>2. clients'[running[r].asset] = c /\ life'[c] = life[c] /\ c \notin {clients[b] : b \in emptied}
    BY <1>6, <2>1
  <2>3. l \in listeners \ cancelled \/ (remote[r] /\ life[c] = "dead")
    BY <1>10, <2>1 DEF StatusIsTrue
  <2>4. l.rule = r /\ l.client = c
    OBVIOUS
  <2> HIDE DEF l
  <2>5. l \in listeners \ cancelled => l \in listeners' \ cancelled'
    BY <1>1, <1>3, <2>1, <2>2, <2>4
  <2> QED BY <2>1, <2>2, <2>3, <2>5 DEF l
<1>11. ASSUME NEW l \in listeners' \ cancelled'
       PROVE  /\ running'[l.rule] # None /\ ~running'[l.rule].failed
              /\ clients'[running'[l.rule].asset] = l.client
  <2>1. l \in listeners \ cancelled /\ l.rule \notin Ran(k)
    BY <1>1, <1>3
  <2>2. l.rule \in Rules
    BY <2>1, SMT DEF TypeOK, Listeners
  <2>3. /\ running[l.rule] # None /\ ~running[l.rule].failed
        /\ clients[running[l.rule].asset] = l.client
    BY <2>1 DEF StatusIsTrue
  <2>4. running'[l.rule] = running[l.rule]
    BY <1>1, <2>1, <2>2
  <2>5. running[l.rule].asset \in Assets /\ clients'[running[l.rule].asset] # None
    BY <1>9, <2>2, <2>3, <2>4
  <2>6. clients'[running[l.rule].asset] = clients[running[l.rule].asset]
    BY <1>6, <2>5
  <2> QED BY <2>3, <2>4, <2>6
<1>12. StatusIsTrue'
  BY <1>10, <1>11, Zenon DEF StatusIsTrue
<1>13. \A a, b \in Assets : clients'[a] # None =>
         /\ life'[clients'[a]] \in {"open", "dead"}
         /\ clients'[a] = clients'[b] => a = b
         /\ RanOn(a)' # {}
  <2> SUFFICES ASSUME NEW a \in Assets, NEW b \in Assets, clients'[a] # None
               PROVE  /\ life'[clients'[a]] \in {"open", "dead"}
                      /\ clients'[a] = clients'[b] => a = b
                      /\ RanOn(a)' # {}
    OBVIOUS
  <2>1. life[clients[a]] \in {"open", "dead"}
    BY <1>6 DEF ClientsOK
  <2>2. clients'[a] = clients'[b] => a = b
    BY <1>5, <1>6
  <2> QED BY <1>6, <2>1, <2>2
<1>14. ASSUME NEW c \in Clients
       PROVE  /\ life'[c] = "fresh" => refs'[c] = 0
              /\ life'[c] \in {"open", "dead"} => \E a \in Assets : clients'[a] = c
  <2>1. life'[c] \in {"fresh", "open", "dead"} =>
          life'[c] = life[c] /\ c \notin {clients[a] : a \in emptied}
    BY <1>3
  <2>2. life[c] = "fresh" => refs[c] = 0 /\ \A a \in Assets : clients[a] # c
    <3>1. c # None
      BY <1>4
    <3> QED BY <3>1 DEF ClientsOK
  <2>3. life'[c] = "fresh" => refs'[c] = 0
    BY <1>1, <2>1, <2>2
  <2>4. ASSUME life'[c] \in {"open", "dead"} PROVE \E a \in Assets : clients'[a] = c
    <3>1. PICK a \in Assets : clients[a] = c
      BY <2>1, <2>4, FreeMutex
    <3>2. a \notin emptied
      BY <2>1, <2>4, <3>1
    <3> QED BY <1>1, <3>1, <3>2
  <2> QED BY <2>3, <2>4
<1>15. /\ clients' \in [Assets -> Clients \cup {None}]
       /\ life' \in [Clients -> {"fresh", "open", "dead", "closed"}]
       /\ running' \in [Rules -> Runs \cup {None}]
       /\ listeners' \subseteq Listeners /\ cancelled' \subseteq listeners'
  <2>1. clients' \in [Assets -> Clients \cup {None}]
    BY <1>1, <1>4
  <2>2. life' \in [Clients -> {"fresh", "open", "dead", "closed"}]
    BY <1>3 DEF TypeOK
  <2>3. running' \in [Rules -> Runs \cup {None}]
    BY <1>1, Zenon DEF TypeOK
  <2>4. listeners' \subseteq Listeners /\ cancelled' \subseteq listeners'
    BY <1>1, <1>3 DEF TypeOK
  <2> QED BY <2>1, <2>2, <2>3, <2>4
<1> QED BY <1>1, <1>8, <1>12, <1>13, <1>14, <1>15 DEF StoppedWell
-----------------------------------------------------------------------------
(***************************************************************************)
(* What the steps keep of the manager's state.                             *)
(***************************************************************************)

\* A step that stops a configuration leaves the manager in order.
LEMMA AfterStop ==
  ASSUME IInv, mu = None, NEW k \in Configs, stopConfigLocked(k),
         \A p \in Procs : pc'[p] \notin {"install", "start"}
  PROVE  /\ ClientsOK' /\ InUse' /\ RefsExact' /\ StatusIsTrue'
         /\ StoppedWell(k)
<1>1. StoppedWell(k)
  BY StopKeeps
<1>2. InUse'
  BY <1>1 DEF StoppedWell, InUse
<1>3. ClientsOK'
  BY <1>1 DEF StoppedWell, ClientsOK
<1> QED BY <1>1, <1>2, <1>3 DEF StoppedWell

\* A step of a call that neither holds m.mu nor takes it leaves the manager alone.
LEMMA Quiet ==
  ASSUME IInv, UNCHANGED <<mu, clientVars, runVars>>,
         \A q \in Procs : q = mu => pc'[q] = pc[q] /\ asset'[q] = asset[q]
                                      /\ conn'[q] = conn[q] /\ rules'[q] = rules[q],
         \A q \in Procs : pc'[q] = "install" => pc[q] = "install" /\ conn'[q] = conn[q]
  PROVE  HolderOK' /\ ClientsOK' /\ InUse' /\ RefsExact' /\ StatusIsTrue'
<1> USE DEF IInv
<1>1. UNCHANGED <<mu, clients, life, refs, running, listeners, cancelled>>
  BY DEF clientVars, runVars
<1>2. mu # None => mu \in Procs
  BY DEF TypeOK
<1>3. \A a \in Assets : RanOn(a)' = RanOn(a)
  BY <1>1 DEF RanOn
<1>4. HolderOK'
  BY <1>1, <1>2 DEF HolderOK
<1>5. ClientsOK'
  <2>1. ASSUME mu # None, pc[mu] = "install" PROVE pc'[mu] = "install" /\ conn'[mu] = conn[mu]
    BY <1>2, <2>1
  <2> QED BY <1>1, <2>1 DEF ClientsOK
<1>6. InUse'
  BY <1>1, <1>2, <1>3 DEF InUse
<1>7. RefsExact'
  BY <1>1, <1>3 DEF RefsExact
<1>8. StatusIsTrue'
  BY <1>1 DEF StatusIsTrue
<1> QED BY <1>4, <1>5, <1>6, <1>7, <1>8

\* A new rule joins those of its asset, whether it runs or failed.
LEMMA RuleJoins ==
  ASSUME IInv, NEW p \in Procs, NEW r \in Rules, StartRule(p, r)
  PROVE  /\ mu = p /\ running[r] = None /\ asset[p] \in Assets /\ conn[p] \in Clients
         /\ clients[asset[p]] = conn[p]
         /\ \A f \in BOOLEAN : [config |-> conf[p], asset |-> asset[p], failed |-> f] # None
         /\ \A a \in Assets : RanOn(a)' = IF a = asset[p] THEN RanOn(a) \cup {r} ELSE RanOn(a)
         /\ r \notin RanOn(asset[p])
<1> USE DEF IInv
<1>1. pc[p] = "start" /\ r \in rules[p]
  BY DEF StartRule
<1>2. mu = p /\ asset[p] \in Assets /\ conn[p] \in Clients
  BY <1>1 DEF LocalsOK
<1>3. p # None
  BY ForwardAssumption
<1>4. running[r] = None /\ clients[asset[p]] = conn[p]
  BY <1>1, <1>2, <1>3 DEF HolderOK
<1>5. PICK failed \in BOOLEAN :
        running' = [running EXCEPT ![r] = [config |-> conf[p], asset |-> asset[p], failed |-> failed]]
  BY DEF StartRule
<1> DEFINE new == [config |-> conf[p], asset |-> asset[p], failed |-> failed]
<1>6. \A f \in BOOLEAN : [config |-> conf[p], asset |-> asset[p], failed |-> f] # None
  <2>1. conf[p] \in Configs
    BY <1>1 DEF LocalsOK
  <2>2. \A f \in BOOLEAN : [config |-> conf[p], asset |-> asset[p], failed |-> f] \in Runs
    BY <1>2, <2>1 DEF Runs
  <2> QED BY <2>2, ForwardAssumption
<1>7. running'[r] = new /\ new # None /\ new.asset = asset[p] /\ \A s \in Rules : s # r => running'[s] = running[s]
  BY <1>5, <1>6 DEF TypeOK
<1> HIDE DEF new
<1>8. ASSUME NEW a \in Assets
      PROVE  RanOn(a)' = IF a = asset[p] THEN RanOn(a) \cup {r} ELSE RanOn(a)
  <2>1. RanOn(a)' = {s \in Rules : running'[s] # None /\ running'[s].asset = a}
    BY DEF RanOn
  <2>2. \A s \in Rules : s # r => (s \in RanOn(a)' <=> s \in RanOn(a))
    BY <1>7, <2>1 DEF RanOn
  <2>3. r \in RanOn(a)' <=> a = asset[p]
    BY <1>7, <2>1
  <2>4. r \notin RanOn(a)
    BY <1>4 DEF RanOn
  <2>5. RanOn(a) \subseteq Rules /\ RanOn(a)' \subseteq Rules
    BY <2>1 DEF RanOn
  <2> QED BY <2>2, <2>3, <2>4, <2>5
<1>9. r \notin RanOn(asset[p])
  BY <1>4 DEF RanOn
<1> QED BY <1>2, <1>4, <1>6, <1>8, <1>9
-----------------------------------------------------------------------------
(***************************************************************************)
(* Every step keeps IInv.                                                  *)
(***************************************************************************)

\* Rules keep their configuration when some of them stop.
LEMMA OwnedAfterStop ==
  ASSUME IInv, NEW k \in Configs, StoppedWell(k), UNCHANGED ruleOf,
         \A p \in Procs : rules'[p] = rules[p] /\ (rules[p] # {} => conf'[p] = conf[p])
  PROVE  RulesOwned'
<1>1. SUFFICES ASSUME NEW r \in Rules PROVE RuleOwned(r)'
  BY DEF RulesOwned
<1>3. RuleOwned(r)
  BY DEF IInv, RulesOwned
<1>4. \A p \in Procs : r \in rules[p] => conf'[p] = conf[p]
  OBVIOUS
<1>5. running'[r] \in {None, running[r]}
  BY DEF StoppedWell
<1> QED BY <1>3, <1>4, <1>5 DEF RuleOwned

\* Lock, StopConfig and DeleteForwardConfig.
LEMMA StopStep ==
  ASSUME IInv, NEW p \in Procs, NEW k \in Configs,
         Lock(p) \/ StopConfig(p) \/ DeleteForwardConfig(p, k)
  PROVE  IInv'
<1> USE DEF IInv
<1>0. \A q \in Procs : q # None
  BY ForwardAssumption
<1>1. CASE Lock(p)
  <2>1. /\ mu = None /\ mu' = p /\ stopConfigLocked(conf[p]) /\ pc[p] = "lock"
        /\ pc' = [pc EXCEPT ![p] = "dial"]
        /\ UNCHANGED <<dbVars, conf, asset, rules, wasRunning, conn, overlapped>>
    BY <1>1 DEF Lock, Goto
  <2>2. conf[p] \in Configs /\ pc \in [Procs -> Places]
    BY <2>1 DEF LocalsOK, TypeOK
  <2>3. \A q \in Procs : pc[q] \notin {"dial", "install", "start"}
    BY <2>1, FreeMutex
  <2>4. ClientsOK' /\ InUse' /\ RefsExact' /\ StatusIsTrue' /\ StoppedWell(conf[p])
    BY <2>1, <2>2, <2>3, AfterStop
  <2>5. TypeOK'
    BY <2>1, <2>4, SMT DEF TypeOK, StoppedWell, dbVars, Places
  <2>6. LocalsOK'
    BY <2>1, <2>2, <2>3 DEF LocalsOK
  <2>7. HolderOK'
    <3>1. \A r \in rules[p] : running[r] # None => r \in Ran(conf[p])
      BY DEF RulesOwned, RuleOwned, Ran, TypeOK
    <3>2. \A r \in rules[p] : r \in Rules
      BY DEF TypeOK
    <3>3. \A r \in rules[p] : running'[r] = None
      BY <2>4, <3>1, <3>2 DEF StoppedWell
    <3> QED BY <2>1, <2>2, <3>3 DEF HolderOK
  <2>8. RulesOwned'
    BY <2>1, <2>2, <2>4, OwnedAfterStop DEF dbVars
  <2> QED BY <2>4, <2>5, <2>6, <2>7, <2>8
<1>2. CASE StopConfig(p)
  <2>1. /\ mu = None /\ mu' = mu /\ stopConfigLocked(conf[p]) /\ pc[p] = "stop"
        /\ pc' = [pc EXCEPT ![p] = "save"]
        /\ UNCHANGED <<dbVars, conf, asset, rules, wasRunning, conn, overlapped>>
    BY <1>2 DEF StopConfig, Goto
  <2>2. conf[p] \in Configs /\ pc \in [Procs -> Places]
    BY <2>1 DEF LocalsOK, TypeOK
  <2>3. \A q \in Procs : pc'[q] \notin {"dial", "install", "start"}
    BY <2>1, <2>2, FreeMutex
  <2>4. ClientsOK' /\ InUse' /\ RefsExact' /\ StatusIsTrue' /\ StoppedWell(conf[p])
    BY <2>1, <2>2, <2>3, AfterStop
  <2>5. TypeOK'
    BY <2>1, <2>4, SMT DEF TypeOK, StoppedWell, dbVars, Places
  <2>6. LocalsOK'
    BY <2>1, <2>2 DEF LocalsOK
  <2>7. HolderOK'
    BY <2>1 DEF HolderOK
  <2>8. RulesOwned'
    BY <2>1, <2>2, <2>4, OwnedAfterStop DEF dbVars
  <2> QED BY <2>4, <2>5, <2>6, <2>7, <2>8
<1>3. CASE DeleteForwardConfig(p, k)
  <2>1. /\ mu = None /\ mu' = mu /\ stopConfigLocked(k) /\ pc[p] = "idle"
        /\ pc' = [pc EXCEPT ![p] = "deleteRules"]
        /\ conf' = [conf EXCEPT ![p] = k]
        /\ overlapped' \in {overlapped, overlapped \cup {k}}
        /\ UNCHANGED <<dbVars, asset, rules, wasRunning, conn>>
    BY <1>3, SMT DEF DeleteForwardConfig, Begin, Goto
  <2>2. pc \in [Procs -> Places] /\ conf \in [Procs -> Configs \cup {None}]
    BY DEF TypeOK
  <2>3. \A q \in Procs : pc'[q] \notin {"dial", "install", "start"}
    BY <2>1, <2>2, FreeMutex
  <2>4. ClientsOK' /\ InUse' /\ RefsExact' /\ StatusIsTrue' /\ StoppedWell(k)
    BY <2>1, <2>3, AfterStop
  <2>5. TypeOK'
    BY <2>1, <2>4, SMT DEF TypeOK, StoppedWell, dbVars, Places
  <2>6. LocalsOK'
    BY <2>1, <2>2 DEF LocalsOK
  <2>7. HolderOK'
    BY <2>1 DEF HolderOK
  <2>8. RulesOwned'
    <3>1. rules[p] = {}
      BY <2>1 DEF LocalsOK
    <3>2. \A q \in Procs : rules'[q] = rules[q] /\ (rules[q] # {} => conf'[q] = conf[q])
      BY <2>1, <2>2, <3>1
    <3> QED BY <2>1, <2>4, <3>2, OwnedAfterStop DEF dbVars
  <2> QED BY <2>4, <2>5, <2>6, <2>7, <2>8
<1> QED BY <1>1, <1>2, <1>3

\* The call StopForwardConfig.
LEMMA StopCallStep ==
  ASSUME IInv, NEW k \in Configs, StopForwardConfig(k)
  PROVE  IInv'
<1> USE DEF IInv
<1>1. /\ mu = None /\ mu' = mu /\ stopConfigLocked(k)
      /\ overlapped' \in {overlapped, overlapped \ {k}}
      /\ UNCHANGED <<dbVars, callVars>>
  BY SMT DEF StopForwardConfig
<1>2. UNCHANGED <<config, ruleOf, pc, conf, asset, rules, wasRunning, conn>>
  BY <1>1 DEF dbVars, callVars
<1>3. \A q \in Procs : pc'[q] \notin {"dial", "install", "start"}
  BY <1>1, <1>2, FreeMutex
<1>4. ClientsOK' /\ InUse' /\ RefsExact' /\ StatusIsTrue' /\ StoppedWell(k)
  BY <1>1, <1>3, AfterStop
<1>5. TypeOK'
  BY <1>1, <1>2, <1>4, SMT DEF TypeOK, StoppedWell, Places
<1>6. LocalsOK'
  BY <1>1, <1>2 DEF LocalsOK
<1>7. HolderOK'
  BY <1>1 DEF HolderOK
<1>8. RulesOwned'
  BY <1>2, <1>4, OwnedAfterStop
<1> QED BY <1>4, <1>5, <1>6, <1>7, <1>8

\* A call without m.mu moves on, and only its own variables change.
LEMMA QuietCall ==
  ASSUME IInv, NEW p \in Procs, pc[p] \notin {"dial", "install", "start"},
         UNCHANGED <<mu, clientVars, runVars>>, pc'[p] # "install",
         \A q \in Procs \ {p} : pc'[q] = pc[q] /\ asset'[q] = asset[q]
                                /\ conn'[q] = conn[q] /\ rules'[q] = rules[q]
  PROVE  HolderOK' /\ ClientsOK' /\ InUse' /\ RefsExact' /\ StatusIsTrue'
<1>1. mu # p
  BY DEF IInv, LocalsOK
<1>2. \A q \in Procs : q = mu => pc'[q] = pc[q] /\ asset'[q] = asset[q]
                                  /\ conn'[q] = conn[q] /\ rules'[q] = rules[q]
  BY <1>1
<1>3. \A q \in Procs : pc'[q] = "install" => pc[q] = "install" /\ conn'[q] = conn[q]
  OBVIOUS
<1> QED BY <1>2, <1>3, Quiet

\* The steps that begin a call and those that read and write the database.
LEMMA BeginStep ==
  ASSUME IInv, NEW p \in Procs, NEW k \in Configs, NEW a,
         \/ StartForwardConfig(p, k)
         \/ a \in Assets /\ (CreateForwardConfig(p, k, a) \/ UpdateForwardConfig(p, k, a))
  PROVE  IInv'
<1> USE DEF IInv
<1>1. /\ UNCHANGED <<ruleOf, mu, clientVars, runVars, rules, conn>>
      /\ config' = config \/ (a \in Assets /\ config' = [config EXCEPT ![k] = a])
      /\ pc[p] = "idle"
      /\ \E l \in {"find", "replace", "isRunning"} :
            pc' = [pc EXCEPT ![p] = l] /\ (l = "isRunning" => asset'[p] \in Assets)
      /\ asset' = asset \/ (a \in Assets /\ asset' = [asset EXCEPT ![p] = a])
      /\ conf' = [conf EXCEPT ![p] = k]
      /\ wasRunning' \in {wasRunning, [wasRunning EXCEPT ![p] = FALSE]}
      /\ overlapped' \in {overlapped, overlapped \cup {k}}
  <2>1. CASE StartForwardConfig(p, k)
    BY <2>1, SMT DEF StartForwardConfig, Begin, Goto, dbVars
  <2>2. CASE a \in Assets /\ CreateForwardConfig(p, k, a)
    BY <2>2, SMT DEF CreateForwardConfig, Begin, Goto
  <2>3. CASE a \in Assets /\ UpdateForwardConfig(p, k, a)
    BY <2>3, SMT DEF UpdateForwardConfig, Begin, Goto, dbVars, IInv, TypeOK
  <2> QED BY <2>1, <2>2, <2>3
<1>2. UNCHANGED <<mu, clients, life, refs, running, listeners, cancelled, ruleOf, rules, conn>>
  BY <1>1 DEF clientVars, runVars
<1>3. /\ pc \in [Procs -> Places] /\ conf \in [Procs -> Configs \cup {None}]
      /\ asset \in [Procs -> Assets \cup {None}]
  BY DEF TypeOK
<1>4. TypeOK'
  <2>1. config' \in [Configs -> Assets \cup {"new", "deleted"}]
    BY <1>1, SMT DEF TypeOK
  <2>2. asset' \in [Procs -> Assets \cup {None}]
    BY <1>1, SMT DEF TypeOK
  <2>3. pc' \in [Procs -> Places]
    <3>1. PICK l \in {"find", "replace", "isRunning"} : pc' = [pc EXCEPT ![p] = l]
      BY <1>1
    <3>2. l \in Places
      BY DEF Places
    <3> QED BY <1>3, <3>1, <3>2
  <2>4. conf' \in [Procs -> Configs \cup {None}] /\ overlapped' \subseteq Configs
    BY <1>1, SMT DEF TypeOK
  <2>5. wasRunning' \in [Procs -> BOOLEAN]
    <3>1. wasRunning \in [Procs -> BOOLEAN]
      BY DEF TypeOK
    <3>2. [wasRunning EXCEPT ![p] = FALSE] \in [Procs -> BOOLEAN]
      BY <3>1
    <3> QED BY <1>1, <3>1, <3>2
  <2> QED BY <1>2, <2>1, <2>2, <2>3, <2>4, <2>5 DEF TypeOK
<1>5. HolderOK' /\ ClientsOK' /\ InUse' /\ RefsExact' /\ StatusIsTrue'
  <2>1. \A q \in Procs \ {p} : pc'[q] = pc[q] /\ asset'[q] = asset[q]
                                /\ conn'[q] = conn[q] /\ rules'[q] = rules[q]
    BY <1>1, <1>2, <1>3
  <2>2. pc'[p] # "install"
    BY <1>1, <1>3
  <2> QED BY <1>1, <2>1, <2>2, QuietCall
<1>6. LocalsOK'
  BY <1>1, <1>2, <1>3 DEF LocalsOK
<1>7. RulesOwned'
  <2>1. rules[p] = {}
    BY <1>1 DEF LocalsOK
  <2>2. \A q \in Procs : rules[q] # {} => conf'[q] = conf[q]
    BY <1>1, <1>3, <2>1
  <2> QED BY <1>2, <2>2 DEF RulesOwned, RuleOwned
<1> QED BY <1>4, <1>5, <1>6, <1>7

\* A call that returns forgets its variables; it may have written the database.
LEMMA ReturnKeeps ==
  ASSUME IInv, NEW p \in Procs, Return(p), pc[p] \notin {"dial", "install", "start"},
         UNCHANGED <<mu, clientVars, runVars, overlapped>>,
         config' \in [Configs -> Assets \cup {"new", "deleted"}],
         ruleOf' \in [Rules -> Configs \cup {"new", "deleted"}],
         \A r \in Rules : \/ ruleOf'[r] = ruleOf[r]
                          \/ ruleOf[r] # "new" /\ ruleOf'[r] = "deleted"
                          \/ ruleOf[r] = "new" /\ ruleOf'[r] \in Configs
  PROVE  IInv'
<1> USE DEF IInv
<1>1. UNCHANGED <<mu, clients, life, refs, running, listeners, cancelled, overlapped>>
  BY DEF clientVars, runVars
<1>2. /\ pc' = [pc EXCEPT ![p] = "idle"]
      /\ conf' = [conf EXCEPT ![p] = None]
      /\ asset' = [asset EXCEPT ![p] = None]
      /\ rules' = [rules EXCEPT ![p] = {}]
      /\ wasRunning' = [wasRunning EXCEPT ![p] = FALSE]
      /\ conn' = [conn EXCEPT ![p] = None]
  BY DEF Return, Goto
<1>3. /\ pc \in [Procs -> Places] /\ conf \in [Procs -> Configs \cup {None}]
      /\ asset \in [Procs -> Assets \cup {None}] /\ rules \in [Procs -> SUBSET Rules]
      /\ conn \in [Procs -> Clients \cup {None}]
  BY DEF TypeOK
<1>4. TypeOK'
  BY <1>1, <1>2, SMT DEF TypeOK, Places
<1>5. HolderOK' /\ ClientsOK' /\ InUse' /\ RefsExact' /\ StatusIsTrue'
  <2>1. \A q \in Procs \ {p} : pc'[q] = pc[q] /\ asset'[q] = asset[q]
                                /\ conn'[q] = conn[q] /\ rules'[q] = rules[q]
    BY <1>2, <1>3
  <2>2. pc'[p] # "install"
    BY <1>2, <1>3
  <2> QED BY <2>1, <2>2, QuietCall
<1>6. LocalsOK'
  BY <1>1, <1>2, <1>3 DEF LocalsOK
<1>7. RulesOwned'
  <2> SUFFICES ASSUME NEW r \in Rules PROVE RuleOwned(r)'
    BY DEF RulesOwned
  <2>1. RuleOwned(r)
    BY DEF RulesOwned
  <2>2. \A q \in Procs : r \in rules'[q] => r \in rules[q] /\ conf'[q] = conf[q]
    BY <1>2, <1>3
  <2>3. ruleOf'[r] = "new" => ruleOf[r] = "new"
    BY ForwardAssumption
  <2> QED BY <1>1, <2>1, <2>2, <2>3 DEF RuleOwned
<1> QED BY <1>4, <1>5, <1>6, <1>7

\* A call that has read no rules moves on; it may have written the database.
LEMMA MoveKeeps ==
  ASSUME IInv, NEW p \in Procs, pc[p] \notin {"idle", "lock", "dial", "install", "start"},
         NEW l \in {"find", "list", "stop", "save", "replace", "deleteConfig"},
         pc' = [pc EXCEPT ![p] = l],
         UNCHANGED <<mu, clientVars, runVars, conf, rules, conn, overlapped>>,
         asset' \in [Procs -> Assets \cup {None}],
         \A q \in Procs \ {p} : asset'[q] = asset[q],
         l \in {"list", "stop", "save"} => asset'[p] \in Assets,
         wasRunning' \in [Procs -> BOOLEAN],
         config' \in [Configs -> Assets \cup {"new", "deleted"}],
         ruleOf' \in [Rules -> Configs \cup {"new", "deleted"}],
         \A r \in Rules : \/ ruleOf'[r] = ruleOf[r]
                          \/ ruleOf[r] # "new" /\ ruleOf'[r] = "deleted"
                          \/ ruleOf[r] = "new" /\ ruleOf'[r] \in Configs
  PROVE  IInv'
<1> USE DEF IInv
<1>1. UNCHANGED <<mu, clients, life, refs, running, listeners, cancelled, conf, rules, conn, overlapped>>
  BY DEF clientVars, runVars
<1>2. /\ pc \in [Procs -> Places] /\ conf \in [Procs -> Configs \cup {None}]
      /\ asset \in [Procs -> Assets \cup {None}] /\ rules \in [Procs -> SUBSET Rules]
      /\ conn \in [Procs -> Clients \cup {None}]
  BY DEF TypeOK
<1>3. pc' \in [Procs -> Places]
  <2>1. l \in Places
    BY DEF Places
  <2> QED BY <1>2, <2>1
<1>4. TypeOK'
  BY <1>1, <1>3 DEF TypeOK
<1>5. HolderOK' /\ ClientsOK' /\ InUse' /\ RefsExact' /\ StatusIsTrue'
  <2>1. \A q \in Procs \ {p} : pc'[q] = pc[q] /\ asset'[q] = asset[q]
                                /\ conn'[q] = conn[q] /\ rules'[q] = rules[q]
    BY <1>1, <1>2
  <2>2. pc'[p] # "install"
    BY <1>2
  <2> QED BY <2>1, <2>2, QuietCall
<1>6. LocalsOK'
  <2> SUFFICES ASSUME NEW q \in Procs
               PROVE  /\ pc'[q] # "idle" => conf'[q] \in Configs
                      /\ pc'[q] \in {"list", "lock", "dial", "install", "start", "isRunning", "stop", "save"}
                           => asset'[q] \in Assets
                      /\ pc'[q] \in {"install", "start"} => conn'[q] \in Clients
                      /\ pc'[q] \in {"dial", "install", "start"} <=> mu' = q
                      /\ pc'[q] \in {"lock", "dial", "install", "start"} <=> rules'[q] # {}
    BY Zenon DEF LocalsOK
  <2>1. CASE q = p
    <3>1. pc'[p] = l
      BY <1>2
    <3>2. conf[p] \in Configs /\ mu # p /\ rules[p] = {}
      BY DEF LocalsOK
    <3> QED BY <1>1, <2>1, <3>1, <3>2
  <2>2. CASE q # p
    <3>1. pc'[q] = pc[q] /\ asset'[q] = asset[q]
      BY <1>2, <2>2
    <3> QED BY <1>1, <3>1 DEF LocalsOK
  <2> QED BY <2>1, <2>2
<1>7. RulesOwned'
  <2> SUFFICES ASSUME NEW r \in Rules PROVE RuleOwned(r)'
    BY DEF RulesOwned
  <2>1. RuleOwned(r)
    BY DEF RulesOwned
  <2>2. ruleOf'[r] = "new" => ruleOf[r] = "new"
    BY ForwardAssumption
  <2> QED BY <1>1, <2>1, <2>2 DEF RuleOwned
<1> QED BY <1>4, <1>5, <1>6, <1>7

\* ListRulesByConfigID gives the call the rules it will start.
LEMMA ListStep ==
  ASSUME IInv, NEW p \in Procs, ListRulesByConfigID(p)
  PROVE  IInv'
<1> USE DEF IInv
<1>1. CASE Return(p)
  <2>1. UNCHANGED <<config, ruleOf, mu, clientVars, runVars, overlapped>> /\ pc[p] = "list"
    BY DEF ListRulesByConfigID, dbVars
  <2> QED BY <1>1, <2>1, ReturnKeeps DEF TypeOK
<1>2. CASE ~Return(p)
  <2>1. /\ pc[p] = "list" /\ Stored(conf[p]) # {}
        /\ rules' = [rules EXCEPT ![p] = Stored(conf[p])]
        /\ pc' = [pc EXCEPT ![p] = "lock"]
        /\ UNCHANGED <<config, ruleOf, mu, clientVars, runVars, conf, asset, wasRunning, conn, overlapped>>
    BY <1>2, SMT DEF ListRulesByConfigID, Goto, dbVars
  <2>2. UNCHANGED <<clients, life, refs, running, listeners, cancelled>>
    BY <2>1 DEF clientVars, runVars
  <2>3. /\ pc \in [Procs -> Places] /\ rules \in [Procs -> SUBSET Rules]
        /\ Stored(conf[p]) \subseteq Rules /\ "lock" \in Places
    BY DEF TypeOK, Stored, Places
  <2>4. TypeOK'
    <3>1. pc' \in [Procs -> Places] /\ rules' \in [Procs -> SUBSET Rules]
      BY <2>1, <2>3
    <3> QED BY <2>1, <2>2, <3>1 DEF TypeOK
  <2>5. HolderOK' /\ ClientsOK' /\ InUse' /\ RefsExact' /\ StatusIsTrue'
    <3>1. \A q \in Procs \ {p} : pc'[q] = pc[q] /\ asset'[q] = asset[q]
                                  /\ conn'[q] = conn[q] /\ rules'[q] = rules[q]
      BY <2>1, <2>3
    <3>2. pc'[p] # "install"
      BY <2>1, <2>3
    <3> QED BY <2>1, <3>1, <3>2, QuietCall
  <2>6. LocalsOK'
    BY <2>1, <2>3 DEF LocalsOK
  <2>7. RulesOwned'
    <3>1. /\ rules'[p] = Stored(conf[p]) /\ \A q \in Procs \ {p} : rules'[q] = rules[q]
          /\ conf[p] \in Configs
      BY <2>1, <2>3 DEF LocalsOK
    <3>2. SUFFICES ASSUME NEW r \in Rules PROVE RuleOwned(r)'
      BY DEF RulesOwned
    <3>3. RuleOwned(r)
      BY DEF RulesOwned
    <3>4. r \in rules'[p] => ruleOf[r] = conf[p] /\ ruleOf[r] \notin {"new", "deleted"}
      BY <3>1, ForwardAssumption DEF Stored
    <3> QED BY <2>1, <2>2, <3>1, <3>3, <3>4 DEF RuleOwned
  <2> QED BY <2>4, <2>5, <2>6, <2>7
<1> QED BY <1>1, <1>2

\* The remaining steps of a call that does not hold m.mu.
LEMMA DatabaseStep ==
  ASSUME IInv, NEW p \in Procs,
         \/ FindConfig(p) \/ IsConfigRunning(p) \/ UpdateConfig(p) \/ ReplaceRules(p)
         \/ DeleteRulesByConfigID(p) \/ DeleteConfig(p)
  PROVE  IInv'
<1>0. /\ config \in [Configs -> Assets \cup {"new", "deleted"}]
      /\ ruleOf \in [Rules -> Configs \cup {"new", "deleted"}]
      /\ asset \in [Procs -> Assets \cup {None}] /\ wasRunning \in [Procs -> BOOLEAN]
      /\ pc[p] # "idle" => conf[p] \in Configs
      /\ pc[p] = "save" => asset[p] \in Assets
      /\ pc[p] = "isRunning" => asset[p] \in Assets
  BY DEF IInv, TypeOK, LocalsOK
<1> DEFINE Kept ==
      \A r \in Rules : \/ ruleOf'[r] = ruleOf[r]
                       \/ ruleOf[r] # "new" /\ ruleOf'[r] = "deleted"
                       \/ ruleOf[r] = "new" /\ ruleOf'[r] \in Configs
<1>1. ASSUME conf[p] \in Configs
      PROVE  /\ WithoutRules(conf[p]) \in [Rules -> Configs \cup {"new", "deleted"}]
             /\ \A r \in Rules : \/ WithoutRules(conf[p])[r] = ruleOf[r]
                                 \/ ruleOf[r] # "new" /\ WithoutRules(conf[p])[r] = "deleted"
  BY <1>0, <1>1, ForwardAssumption DEF WithoutRules, Stored
<1>2. CASE FindConfig(p)
  <2>1. UNCHANGED <<config, ruleOf, mu, clientVars, runVars, overlapped>> /\ pc[p] = "find"
    BY <1>2 DEF FindConfig, dbVars
  <2>2. CASE Return(p)
    BY <1>0, <2>1, <2>2, ReturnKeeps
  <2>3. CASE ~Return(p)
    <3>1. /\ config[conf[p]] \in Assets
          /\ asset' = [asset EXCEPT ![p] = config[conf[p]]]
          /\ pc' = [pc EXCEPT ![p] = "list"]
          /\ UNCHANGED <<conf, rules, wasRunning, conn>>
      BY <1>2, <2>3 DEF FindConfig, Goto
    <3>2. /\ asset' \in [Procs -> Assets \cup {None}] /\ asset'[p] \in Assets
          /\ \A q \in Procs \ {p} : asset'[q] = asset[q]
      BY <1>0, <3>1
    <3> QED BY <1>0, <2>1, <3>1, <3>2, MoveKeeps
  <2> QED BY <2>2, <2>3
<1>3. CASE IsConfigRunning(p)
  <2>1. /\ UNCHANGED <<config, ruleOf, mu, clientVars, runVars, conf, asset, rules, conn, overlapped>>
        /\ pc[p] = "isRunning"
        /\ wasRunning' = [wasRunning EXCEPT ![p] = Ran(conf[p]) # {}]
        /\ pc' = [pc EXCEPT ![p] = IF Ran(conf[p]) # {} THEN "stop" ELSE "save"]
    BY <1>3 DEF IsConfigRunning, dbVars, Goto
  <2>2. wasRunning' \in [Procs -> BOOLEAN]
    <3>1. (Ran(conf[p]) # {}) \in BOOLEAN
      OBVIOUS
    <3> HIDE <1>1
    <3> QED BY <1>0, <2>1, <3>1, Zenon
  <2>3. PICK l \in {"stop", "save"} : pc' = [pc EXCEPT ![p] = l]
    BY <2>1
  <2>4. asset'[p] \in Assets
    BY <1>0, <2>1
  <2> QED BY <1>0, <2>1, <2>2, <2>3, <2>4, MoveKeeps
<1>4. CASE UpdateConfig(p)
  <2>1. UNCHANGED <<ruleOf, mu, clientVars, runVars, overlapped>> /\ pc[p] = "save"
    BY <1>4 DEF UpdateConfig
  <2>2. CASE Return(p) /\ UNCHANGED config
    BY <1>0, <2>1, <2>2, ReturnKeeps
  <2>3. CASE ~(Return(p) /\ UNCHANGED config)
    <3>1. /\ config' = [config EXCEPT ![conf[p]] = asset[p]]
          /\ pc' = [pc EXCEPT ![p] = "replace"]
          /\ UNCHANGED <<conf, asset, rules, wasRunning, conn>>
      BY <1>4, <2>3 DEF UpdateConfig, Goto
    <3>2. config' \in [Configs -> Assets \cup {"new", "deleted"}]
      BY <1>0, <2>1, <3>1
    <3> QED BY <1>0, <2>1, <3>1, <3>2, MoveKeeps
  <2> QED BY <2>2, <2>3
<1>5. CASE ReplaceRules(p)
  <2>1. UNCHANGED <<config, mu, clientVars, runVars, overlapped>> /\ pc[p] = "replace"
    BY <1>5 DEF ReplaceRules
  <2>2. conf[p] \in Configs
    BY <1>0, <2>1
  <2>3. ruleOf' \in [Rules -> Configs \cup {"new", "deleted"}] /\ Kept
    <3>1. CASE ruleOf' \in {ruleOf, WithoutRules(conf[p])}
      BY <1>0, <1>1, <2>2, <3>1
    <3>2. CASE \E new \in SUBSET {r \in Rules : ruleOf[r] = "new"} :
                 ruleOf' = [r \in Rules |-> IF r \in new THEN conf[p] ELSE WithoutRules(conf[p])[r]]
      BY <1>0, <1>1, <2>2, <3>2
    <3> QED BY <1>5, <3>1, <3>2 DEF ReplaceRules
  <2>4. CASE Return(p)
    BY <1>0, <2>1, <2>3, <2>4, ReturnKeeps
  <2>5. CASE ~Return(p)
    <3>1. pc' = [pc EXCEPT ![p] = "find"] /\ UNCHANGED <<conf, asset, rules, wasRunning, conn>>
      BY <1>5, <2>5 DEF ReplaceRules, Goto
    <3> QED BY <1>0, <2>1, <2>3, <3>1, MoveKeeps
  <2> QED BY <2>4, <2>5
<1>6. CASE DeleteRulesByConfigID(p)
  <2>1. UNCHANGED <<config, mu, clientVars, runVars, overlapped>> /\ pc[p] = "deleteRules"
    BY <1>6 DEF DeleteRulesByConfigID
  <2>2. conf[p] \in Configs
    BY <1>0, <2>1
  <2>3. CASE Return(p) /\ UNCHANGED ruleOf
    BY <1>0, <2>1, <2>3, ReturnKeeps
  <2>4. CASE ~(Return(p) /\ UNCHANGED ruleOf)
    <3>1. /\ ruleOf' = WithoutRules(conf[p])
          /\ pc' = [pc EXCEPT ![p] = "deleteConfig"]
          /\ UNCHANGED <<conf, asset, rules, wasRunning, conn>>
      BY <1>6, <2>4 DEF DeleteRulesByConfigID, Goto
    <3>2. ruleOf' \in [Rules -> Configs \cup {"new", "deleted"}] /\ Kept
      BY <1>1, <2>2, <3>1
    <3> QED BY <1>0, <2>1, <3>1, <3>2, MoveKeeps
  <2> QED BY <2>3, <2>4
<1>7. CASE DeleteConfig(p)
  <2>1. UNCHANGED <<ruleOf, mu, clientVars, runVars, overlapped>> /\ pc[p] = "deleteConfig" /\ Return(p)
    BY <1>7 DEF DeleteConfig
  <2>2. config' \in [Configs -> Assets \cup {"new", "deleted"}]
    BY <1>0, <1>7, <2>1 DEF DeleteConfig
  <2> QED BY <1>0, <2>1, <2>2, ReturnKeeps
<1> QED BY <1>2, <1>3, <1>4, <1>5, <1>6, <1>7
-----------------------------------------------------------------------------
(***************************************************************************)
(* The steps of the call that holds m.mu.                                  *)
(***************************************************************************)

\* Before the dial every client that is open is in the map and has rules.
LEMMA BeforeDial ==
  ASSUME IInv, NEW p \in Procs, pc[p] = "dial"
  PROVE  /\ mu = p /\ p # None /\ asset[p] \in Assets /\ conf[p] \in Configs
         /\ \A q \in Procs : pc[q] \notin {"install", "start"} /\ (pc[q] = "dial" <=> q = p)
         /\ \A a \in Assets : clients[a] # None => RanOn(a) # {}
         /\ \A c \in Clients : life[c] \in {"open", "dead"} => \E a \in Assets : clients[a] = c
         /\ \A r \in rules[p] : running[r] = None
<1>1. mu = p /\ p # None /\ asset[p] \in Assets /\ conf[p] \in Configs
  BY ForwardAssumption DEF IInv, LocalsOK
<1>2. \A q \in Procs : pc[q] \notin {"install", "start"} /\ (pc[q] = "dial" <=> q = p)
  BY <1>1 DEF IInv, LocalsOK
<1>3. \A a \in Assets : clients[a] # None => RanOn(a) # {}
  BY <1>1 DEF IInv, InUse
<1>4. \A c \in Clients : life[c] \in {"open", "dead"} => \E a \in Assets : clients[a] = c
  BY <1>1 DEF IInv, ClientsOK
<1>5. \A r \in rules[p] : running[r] = None
  BY <1>1 DEF IInv, HolderOK
<1> QED BY <1>1, <1>2, <1>3, <1>4, <1>5

\* The client of the asset is taken over.
LEMMA ReuseStep ==
  ASSUME IInv, NEW p \in Procs, Reuse(p)
  PROVE  IInv'
<1> USE DEF IInv
<1>1. /\ pc[p] = "dial" /\ clients[asset[p]] # None
      /\ conn' = [conn EXCEPT ![p] = clients[asset[p]]]
      /\ pc' = [pc EXCEPT ![p] = "start"]
      /\ UNCHANGED <<config, ruleOf, mu, conf, asset, rules, wasRunning, overlapped>>
      /\ UNCHANGED <<clients, life, refs, running, listeners, cancelled>>
  BY DEF Reuse, Goto, dbVars, clientVars, runVars
<1>2. /\ mu = p /\ p # None /\ asset[p] \in Assets /\ conf[p] \in Configs
      /\ \A q \in Procs : pc[q] \notin {"install", "start"} /\ (pc[q] = "dial" <=> q = p)
      /\ \A a \in Assets : clients[a] # None => RanOn(a) # {}
      /\ \A c \in Clients : life[c] \in {"open", "dead"} => \E a \in Assets : clients[a] = c
      /\ \A r \in rules[p] : running[r] = None
  BY <1>1, BeforeDial
<1>3. /\ pc \in [Procs -> Places] /\ conn \in [Procs -> Clients \cup {None}]
      /\ clients[asset[p]] \in Clients
  BY <1>1, <1>2 DEF TypeOK
<1>4. /\ pc'[p] = "start" /\ conn'[p] = clients[asset[p]]
      /\ \A q \in Procs \ {p} : pc'[q] = pc[q] /\ conn'[q] = conn[q]
  BY <1>1, <1>3
<1>5. TypeOK'
  <2>1. pc' \in [Procs -> Places] /\ conn' \in [Procs -> Clients \cup {None}]
    BY <1>1, <1>3 DEF Places
  <2> QED BY <1>1, <2>1 DEF TypeOK
<1>6. LocalsOK'
  BY <1>1, <1>2, <1>3, <1>4 DEF LocalsOK
<1>7. HolderOK'
  BY <1>1, <1>2, <1>4 DEF HolderOK
<1>8. ClientsOK'
  BY <1>1, <1>2, <1>4 DEF ClientsOK
<1>9. InUse'
  <2>1. \A a \in Assets : RanOn(a)' = RanOn(a)
    BY <1>1 DEF RanOn
  <2> QED BY <1>1, <1>2, <2>1 DEF InUse
<1>10. RulesOwned' /\ RefsExact' /\ StatusIsTrue'
  <2>1. RulesOwned' BY <1>1 DEF RulesOwned, RuleOwned
  <2>2. RefsExact' BY <1>1 DEF RefsExact, RanOn
  <2>3. StatusIsTrue' BY <1>1 DEF StatusIsTrue
  <2> QED BY <2>1, <2>2, <2>3
<1> QED BY <1>5, <1>6, <1>7, <1>8, <1>9, <1>10

\* The client dialled is in no slot and belongs to the call.
LEMMA DialStep ==
  ASSUME IInv, NEW p \in Procs, DialAsset(p)
  PROVE  IInv'
<1> USE DEF IInv
<1>1. PICK c \in Clients :
      /\ life[c] = "fresh"
      /\ life' = [life EXCEPT ![c] = "open"]
      /\ conn' = [conn EXCEPT ![p] = c]
  BY DEF DialAsset
<1>2. /\ pc[p] = "dial" /\ clients[asset[p]] = None
      /\ pc' = [pc EXCEPT ![p] = "install"]
      /\ UNCHANGED <<config, ruleOf, mu, clients, refs, conf, asset, rules, wasRunning, overlapped>>
      /\ UNCHANGED <<running, listeners, cancelled>>
  BY DEF DialAsset, Goto, dbVars, runVars
<1>3. /\ mu = p /\ p # None /\ asset[p] \in Assets /\ conf[p] \in Configs
      /\ \A q \in Procs : pc[q] \notin {"install", "start"} /\ (pc[q] = "dial" <=> q = p)
      /\ \A a \in Assets : clients[a] # None => RanOn(a) # {}
      /\ \A d \in Clients : life[d] \in {"open", "dead"} => \E a \in Assets : clients[a] = d
      /\ \A r \in rules[p] : running[r] = None
  BY <1>2, BeforeDial
<1>4. /\ pc \in [Procs -> Places] /\ conn \in [Procs -> Clients \cup {None}]
      /\ life \in [Clients -> {"fresh", "open", "dead", "closed"}]
      /\ clients \in [Assets -> Clients \cup {None}]
  BY DEF TypeOK
<1>5. /\ pc'[p] = "install" /\ conn'[p] = c
      /\ \A q \in Procs \ {p} : pc'[q] = pc[q] /\ conn'[q] = conn[q]
      /\ life'[c] = "open" /\ \A d \in Clients \ {c} : life'[d] = life[d]
  BY <1>1, <1>2, <1>4
<1>6. \A a \in Assets : clients[a] # c
  <2>1. c # None
    BY ForwardAssumption
  <2> QED BY <1>1, <2>1 DEF ClientsOK
<1>7. TypeOK'
  <2>1. /\ pc' \in [Procs -> Places] /\ conn' \in [Procs -> Clients \cup {None}]
        /\ life' \in [Clients -> {"fresh", "open", "dead", "closed"}]
    BY <1>1, <1>2, <1>4 DEF Places
  <2> QED BY <1>2, <2>1 DEF TypeOK
<1>8. LocalsOK'
  BY <1>2, <1>3, <1>5 DEF LocalsOK
<1>9. HolderOK'
  BY <1>2, <1>3, <1>5 DEF HolderOK
<1>10. ClientsOK'
  <2>1. ASSUME NEW a \in Assets, NEW b \in Assets, clients[a] # None
        PROVE  life'[clients[a]] \in {"open", "dead"} /\ (clients[a] = clients[b] => a = b)
    BY <1>4, <1>5, <1>6, <2>1 DEF ClientsOK
  <2>2. refs[c] = 0
    BY <1>1 DEF ClientsOK
  <2>3. ASSUME NEW d \in Clients
        PROVE  /\ life'[d] = "fresh" => refs[d] = 0
               /\ life'[d] \in {"open", "dead"} /\ (\A a \in Assets : clients[a] # d) => d = c
    <3>1. d # c => life'[d] = life[d]
      BY <1>5
    <3> QED BY <1>3, <2>2, <3>1 DEF ClientsOK
  <2>4. \A q \in Procs : pc'[q] = "install" => q = p
    BY <1>3, <1>5
  <2> QED BY <1>2, <1>3, <1>5, <1>6, <2>1, <2>2, <2>3, <2>4 DEF ClientsOK
<1>11. InUse' /\ RefsExact' /\ RulesOwned'
  <2>1. \A a \in Assets : RanOn(a)' = RanOn(a)
    BY <1>2 DEF RanOn
  <2>2. InUse'
    BY <1>2, <1>3, <2>1 DEF InUse
  <2>3. RefsExact'
    BY <1>2, <2>1 DEF RefsExact
  <2>4. RulesOwned'
    BY <1>2 DEF RulesOwned, RuleOwned
  <2> QED BY <2>2, <2>3, <2>4
<1>12. StatusIsTrue'
  <2>1. \A r \in Rules : running[r] # None => running[r].asset \in Assets
    BY SMT DEF TypeOK, Runs
  <2>2. \A d : life[d] = "dead" => life'[d] = "dead"
    BY <1>1, <1>4
  <2> QED BY <1>2, <2>1, <2>2 DEF StatusIsTrue
<1> QED BY <1>7, <1>8, <1>9, <1>10, <1>11, <1>12

\* A dial that fails gives m.mu back.
LEMMA DialFailsStep ==
  ASSUME IInv, NEW p \in Procs, DialFails(p)
  PROVE  IInv'
<1> USE DEF IInv
<1>1. /\ pc[p] = "dial" /\ mu' = None
      /\ pc' = [pc EXCEPT ![p] = "idle"]
      /\ conf' = [conf EXCEPT ![p] = None]
      /\ asset' = [asset EXCEPT ![p] = None]
      /\ rules' = [rules EXCEPT ![p] = {}]
      /\ wasRunning' = [wasRunning EXCEPT ![p] = FALSE]
      /\ conn' = [conn EXCEPT ![p] = None]
      /\ UNCHANGED <<config, ruleOf, overlapped>>
      /\ UNCHANGED <<clients, life, refs, running, listeners, cancelled>>
  BY DEF DialFails, Return, Goto, dbVars, clientVars, runVars
<1>2. /\ mu = p /\ p # None /\ asset[p] \in Assets /\ conf[p] \in Configs
      /\ \A q \in Procs : pc[q] \notin {"install", "start"} /\ (pc[q] = "dial" <=> q = p)
      /\ \A a \in Assets : clients[a] # None => RanOn(a) # {}
      /\ \A d \in Clients : life[d] \in {"open", "dead"} => \E a \in Assets : clients[a] = d
      /\ \A r \in rules[p] : running[r] = None
  BY <1>1, BeforeDial
<1>3. /\ pc \in [Procs -> Places] /\ conf \in [Procs -> Configs \cup {None}]
      /\ rules \in [Procs -> SUBSET Rules] /\ wasRunning \in [Procs -> BOOLEAN]
      /\ conn \in [Procs -> Clients \cup {None}] /\ asset \in [Procs -> Assets \cup {None}]
  BY DEF TypeOK
<1>4. /\ pc'[p] = "idle" /\ rules'[p] = {}
      /\ \A q \in Procs \ {p} : pc'[q] = pc[q] /\ conn'[q] = conn[q] /\ rules'[q] = rules[q]
                                /\ conf'[q] = conf[q] /\ asset'[q] = asset[q]
  BY <1>1, <1>3
<1>5. TypeOK'
  <2>1. /\ pc' \in [Procs -> Places] /\ conf' \in [Procs -> Configs \cup {None}]
        /\ rules' \in [Procs -> SUBSET Rules]
        /\ conn' \in [Procs -> Clients \cup {None}] /\ asset' \in [Procs -> Assets \cup {None}]
    BY <1>1, <1>3 DEF Places
  <2>2. wasRunning' \in [Procs -> BOOLEAN]
    BY <1>1, <1>3
  <2> QED BY <1>1, <2>1, <2>2 DEF TypeOK
<1>6. LocalsOK'
  <2>1. \A q \in Procs : q # None
    BY ForwardAssumption
  <2> QED BY <1>1, <1>2, <1>4, <2>1 DEF LocalsOK
<1>7. HolderOK'
  BY <1>1 DEF HolderOK
<1>8. ClientsOK'
  BY <1>1, <1>2, <1>4 DEF ClientsOK
<1>9. InUse' /\ RefsExact' /\ StatusIsTrue'
  <2>1. \A a \in Assets : RanOn(a)' = RanOn(a)
    BY <1>1 DEF RanOn
  <2>2. InUse' /\ RefsExact'
    BY <1>1, <1>2, <2>1 DEF InUse, RefsExact
  <2>3. StatusIsTrue'
    BY <1>1 DEF StatusIsTrue
  <2> QED BY <2>2, <2>3
<1>10. RulesOwned'
  <2>1. \A q \in Procs, r \in Rules : r \in rules'[q] => r \in rules[q] /\ conf'[q] = conf[q]
    BY <1>4
  <2> QED BY <1>1, <2>1 DEF RulesOwned, RuleOwned
<1> QED BY <1>5, <1>6, <1>7, <1>8, <1>9, <1>10

\* The client enters the map with a count of zero, as no rule runs on its asset.
LEMMA InstallStep ==
  ASSUME IInv, NEW p \in Procs, Install(p)
  PROVE  IInv'
<1> USE DEF IInv
<1>1. /\ pc[p] = "install"
      /\ clients' = [clients EXCEPT ![asset[p]] = conn[p]]
      /\ pc' = [pc EXCEPT ![p] = "start"]
      /\ UNCHANGED <<config, ruleOf, mu, conf, asset, rules, wasRunning, conn, overlapped>>
      /\ UNCHANGED <<life, refs, running, listeners, cancelled>>
  BY DEF Install, Goto, dbVars, runVars
<1>2. /\ mu = p /\ p # None /\ asset[p] \in Assets /\ conn[p] \in Clients
      /\ \A q \in Procs : pc[q] \in {"dial", "install", "start"} <=> q = p
  BY <1>1, ForwardAssumption DEF LocalsOK
<1>3. /\ clients[asset[p]] = None
      /\ life[conn[p]] \in {"open", "dead"} /\ \A a \in Assets : clients[a] # conn[p]
      /\ refs[conn[p]] = 0
  BY <1>1, <1>2 DEF HolderOK, ClientsOK
<1>4. /\ pc \in [Procs -> Places] /\ clients \in [Assets -> Clients \cup {None}]
  BY DEF TypeOK
<1>5. /\ pc'[p] = "start" /\ clients'[asset[p]] = conn[p]
      /\ \A q \in Procs \ {p} : pc'[q] = pc[q]
      /\ \A a \in Assets \ {asset[p]} : clients'[a] = clients[a]
  BY <1>1, <1>2, <1>4
<1>6. \A a \in Assets : RanOn(a)' = RanOn(a)
  BY <1>1 DEF RanOn
<1>7. RanOn(asset[p]) = {} /\ conn[p] # None
  BY <1>2, <1>3, ForwardAssumption DEF RefsExact
<1>8. TypeOK'
  <2>1. pc' \in [Procs -> Places] /\ clients' \in [Assets -> Clients \cup {None}]
    BY <1>1, <1>2, <1>4 DEF Places
  <2> QED BY <1>1, <2>1 DEF TypeOK
<1>9. LocalsOK'
  BY <1>1, <1>2, <1>5 DEF LocalsOK
<1>10. HolderOK'
  BY <1>1, <1>2, <1>5 DEF HolderOK
<1>11. ClientsOK'
  <2>1. ASSUME NEW a \in Assets, NEW b \in Assets, clients'[a] # None
        PROVE  life[clients'[a]] \in {"open", "dead"} /\ (clients'[a] = clients'[b] => a = b)
    BY <1>3, <1>5, <2>1 DEF ClientsOK
  <2>2. ASSUME NEW d \in Clients
        PROVE  /\ life[d] = "fresh" => refs[d] = 0
               /\ life[d] \in {"open", "dead"} => \E a \in Assets : clients'[a] = d
    <3>1. life[d] \in {"open", "dead"} => d = conn[p] \/ \E a \in Assets : clients[a] = d
      BY <1>2 DEF ClientsOK
    <3>2. d # None
      BY ForwardAssumption
    <3> QED BY <1>2, <1>3, <1>5, <3>1, <3>2 DEF ClientsOK
  <2>3. \A q \in Procs : pc'[q] # "install"
    BY <1>2, <1>5
  <2> QED BY <1>1, <2>1, <2>2, <2>3 DEF ClientsOK
<1>12. InUse'
  <2>1. \A a \in Assets \ {asset[p]} : clients[a] # None => RanOn(a) # {}
    BY <1>1, <1>2 DEF InUse
  <2> QED BY <1>1, <1>2, <1>5, <1>6, <2>1 DEF InUse
<1>13. RefsExact'
  <2>1. refs[conn[p]] = Cardinality(RanOn(asset[p]))
    BY <1>3, <1>7, FS_EmptySet
  <2>2. \A a \in Assets \ {asset[p]} :
          IF clients'[a] = None THEN RanOn(a) = {} ELSE refs[clients'[a]] = Cardinality(RanOn(a))
    BY <1>5 DEF RefsExact
  <2> QED BY <1>1, <1>5, <1>6, <1>7, <2>1, <2>2 DEF RefsExact
<1>14. RulesOwned'
  BY <1>1 DEF RulesOwned, RuleOwned
<1>15. StatusIsTrue'
  <2>1. \A r \in Rules : running[r] # None =>
          running[r].asset \in Assets /\ clients'[running[r].asset] = clients[running[r].asset]
    <3>1. \A r \in Rules : running[r] # None => running[r].asset \in Assets
      BY SMT DEF TypeOK, Runs
    <3>2. \A r \in Rules : running[r] # None => running[r].asset # asset[p]
      BY <1>7 DEF RanOn
    <3> QED BY <1>5, <3>1, <3>2
  <2>2. \A l \in listeners : l.rule \in Rules
    BY SMT DEF TypeOK, Listeners
  <2> QED BY <1>1, <2>1, <2>2 DEF StatusIsTrue
<1> QED BY <1>8, <1>9, <1>10, <1>11, <1>12, <1>13, <1>14, <1>15

\* The variables of the call after one of its rules was started.
LEMMA RuleDone ==
  ASSUME IInv, NEW p \in Procs, NEW r \in Rules, StartRule(p, r)
  PROVE  /\ pc[p] = "start" /\ r \in rules[p] /\ p # None
         /\ \A q \in Procs : pc[q] \in {"dial", "install", "start"} <=> q = p
         /\ pc' \in [Procs -> Places] /\ conf' \in [Procs -> Configs \cup {None}]
         /\ asset' \in [Procs -> Assets \cup {None}] /\ rules' \in [Procs -> SUBSET Rules]
         /\ wasRunning' \in [Procs -> BOOLEAN] /\ conn' \in [Procs -> Clients \cup {None}]
         /\ \A q \in Procs \ {p} : /\ pc'[q] = pc[q] /\ conn'[q] = conn[q] /\ rules'[q] = rules[q]
                                   /\ conf'[q] = conf[q] /\ asset'[q] = asset[q]
         /\ rules'[p] \subseteq rules[p] \ {r}
         /\ \/ mu' = None /\ pc'[p] = "idle" /\ rules'[p] = {}
            \/ /\ mu' = p /\ pc'[p] = "start" /\ rules'[p] # {}
               /\ conn'[p] = conn[p] /\ conf'[p] = conf[p] /\ asset'[p] = asset[p]
<1> USE DEF IInv
<1>1. pc[p] = "start" /\ r \in rules[p] /\ p # None /\ mu = p
  BY ForwardAssumption DEF StartRule, LocalsOK
<1>2. \A q \in Procs : pc[q] \in {"dial", "install", "start"} <=> q = p
  BY <1>1 DEF LocalsOK
<1>3. /\ pc \in [Procs -> Places] /\ conf \in [Procs -> Configs \cup {None}]
      /\ rules \in [Procs -> SUBSET Rules] /\ wasRunning \in [Procs -> BOOLEAN]
      /\ conn \in [Procs -> Clients \cup {None}] /\ asset \in [Procs -> Assets \cup {None}]
  BY DEF TypeOK
<1>4. CASE rules[p] = {r}
  <2>1. /\ mu' = None
        /\ pc' = [pc EXCEPT ![p] = "idle"]
        /\ conf' = [conf EXCEPT ![p] = None]
        /\ asset' = [asset EXCEPT ![p] = None]
        /\ rules' = [rules EXCEPT ![p] = {}]
        /\ wasRunning' = [wasRunning EXCEPT ![p] = FALSE]
        /\ conn' = [conn EXCEPT ![p] = None]
    BY <1>4 DEF StartRule, RuleStarted, Return, Goto
  <2>2. /\ pc' \in [Procs -> Places] /\ conf' \in [Procs -> Configs \cup {None}]
        /\ asset' \in [Procs -> Assets \cup {None}] /\ rules' \in [Procs -> SUBSET Rules]
        /\ conn' \in [Procs -> Clients \cup {None}]
    BY <1>3, <2>1 DEF Places
  <2>3. wasRunning' \in [Procs -> BOOLEAN]
    BY <1>3, <2>1
  <2>4. /\ pc'[p] = "idle" /\ rules'[p] = {}
        /\ \A q \in Procs \ {p} : /\ pc'[q] = pc[q] /\ conn'[q] = conn[q] /\ rules'[q] = rules[q]
                                  /\ conf'[q] = conf[q] /\ asset'[q] = asset[q]
    BY <1>3, <2>1
  <2> QED BY <1>1, <1>2, <2>1, <2>2, <2>3, <2>4
<1>5. CASE rules[p] # {r}
  <2>1. /\ rules' = [rules EXCEPT ![p] = rules[p] \ {r}]
        /\ UNCHANGED <<mu, pc, conf, asset, wasRunning, conn>>
    BY <1>5 DEF StartRule, RuleStarted
  <2>2. rules' \in [Procs -> SUBSET Rules]
    BY <1>3, <2>1
  <2>3. /\ rules'[p] = rules[p] \ {r} /\ \A q \in Procs \ {p} : rules'[q] = rules[q]
        /\ rules'[p] # {}
    BY <1>1, <1>3, <1>5, <2>1
  <2> QED BY <1>1, <1>2, <1>3, <2>1, <2>2, <2>3
<1> QED BY <1>4, <1>5

\* The new listener was not open before: its address was not in use.
LEMMA ListensAnew ==
  ASSUME TypeOK, NEW r \in Rules, NEW c \in Clients, Listen(r, c)
  PROVE  /\ [rule |-> r, client |-> c] \notin listeners
         /\ [rule |-> r, client |-> c] \in Listeners
         /\ listeners' = listeners \cup {[rule |-> r, client |-> c]}
<1> DEFINE l == [rule |-> r, client |-> c]
<1>1. l.rule = r /\ l.client = c /\ l \in Listeners
  BY DEF Listeners
<1>2. listeners' = listeners \cup {l} /\ ~Busy(r, c)
  BY DEF Listen
<1> HIDE DEF l
<1>3. l \notin listeners
  BY <1>1, <1>2 DEF Busy
<1> QED BY <1>1, <1>2, <1>3 DEF l

\* A rule that starts is counted on the client of its asset.
LEMMA StartRuleStep ==
  ASSUME IInv, NEW p \in Procs, NEW r \in Rules, StartRule(p, r)
  PROVE  IInv'
<1> USE DEF IInv
<1>1. /\ mu = p /\ running[r] = None /\ asset[p] \in Assets /\ conn[p] \in Clients
      /\ clients[asset[p]] = conn[p]
      /\ \A f \in BOOLEAN : [config |-> conf[p], asset |-> asset[p], failed |-> f] # None
      /\ \A a \in Assets : RanOn(a)' = IF a = asset[p] THEN RanOn(a) \cup {r} ELSE RanOn(a)
      /\ r \notin RanOn(asset[p])
  BY RuleJoins
<1>2. /\ pc[p] = "start" /\ r \in rules[p] /\ p # None
      /\ \A q \in Procs : pc[q] \in {"dial", "install", "start"} <=> q = p
      /\ pc' \in [Procs -> Places] /\ conf' \in [Procs -> Configs \cup {None}]
      /\ asset' \in [Procs -> Assets \cup {None}] /\ rules' \in [Procs -> SUBSET Rules]
      /\ wasRunning' \in [Procs -> BOOLEAN] /\ conn' \in [Procs -> Clients \cup {None}]
      /\ \A q \in Procs \ {p} : /\ pc'[q] = pc[q] /\ conn'[q] = conn[q] /\ rules'[q] = rules[q]
                                /\ conf'[q] = conf[q] /\ asset'[q] = asset[q]
      /\ rules'[p] \subseteq rules[p] \ {r}
      /\ \/ mu' = None /\ pc'[p] = "idle" /\ rules'[p] = {}
         \/ /\ mu' = p /\ pc'[p] = "start" /\ rules'[p] # {}
            /\ conn'[p] = conn[p] /\ conf'[p] = conf[p] /\ asset'[p] = asset[p]
  BY RuleDone
<1>3. PICK failed \in BOOLEAN :
        /\ failed \/ Listen(r, conn[p])
        /\ failed => UNCHANGED listeners
        /\ running' = [running EXCEPT ![r] = [config |-> conf[p], asset |-> asset[p], failed |-> failed]]
  BY DEF StartRule
<1>4. /\ refs' = [refs EXCEPT ![conn[p]] = refs[conn[p]] + 1]
      /\ UNCHANGED <<config, ruleOf, clients, life, cancelled, overlapped>>
  BY DEF StartRule, dbVars
<1> DEFINE new == [config |-> conf[p], asset |-> asset[p], failed |-> failed]
           l == [rule |-> r, client |-> conn[p]]
<1>5. /\ new \in Runs /\ new # None
      /\ new.config = conf[p] /\ new.asset = asset[p] /\ new.failed = failed
      /\ l.rule = r /\ l.client = conn[p]
  <2>1. conf[p] \in Configs
    BY <1>2 DEF LocalsOK
  <2> QED BY <1>1, <2>1 DEF Runs
<1>6. /\ failed => listeners' = listeners
      /\ ~failed => l \notin listeners /\ l \in Listeners /\ listeners' = listeners \cup {l}
  BY <1>1, <1>3, ListensAnew
<1>7. running' = [running EXCEPT ![r] = new]
  BY <1>3
<1> HIDE DEF new, l
<1>8. running'[r] = new /\ \A s \in Rules \ {r} : running'[s] = running[s]
  BY <1>7 DEF TypeOK
<1>9. /\ refs'[conn[p]] = refs[conn[p]] + 1 /\ refs' \in [Clients -> Int]
      /\ \A c \in Clients \ {conn[p]} : refs'[c] = refs[c]
  BY <1>1, <1>4 DEF TypeOK
<1>10. TypeOK'
  <2>1. running' \in [Rules -> Runs \cup {None}]
    BY <1>5, <1>7, Zenon DEF TypeOK
  <2>2. listeners' \subseteq Listeners /\ cancelled' \subseteq listeners'
    BY <1>4, <1>6 DEF TypeOK
  <2>3. mu' \in Procs \cup {None}
    BY <1>2
  <2> QED BY <1>2, <1>4, <1>9, <2>1, <2>2, <2>3 DEF TypeOK
<1>11. LocalsOK'
  <2> SUFFICES ASSUME NEW q \in Procs
               PROVE  /\ pc'[q] # "idle" => conf'[q] \in Configs
                      /\ pc'[q] \in {"list", "lock", "dial", "install", "start", "isRunning", "stop", "save"}
                           => asset'[q] \in Assets
                      /\ pc'[q] \in {"install", "start"} => conn'[q] \in Clients
                      /\ pc'[q] \in {"dial", "install", "start"} <=> mu' = q
                      /\ pc'[q] \in {"lock", "dial", "install", "start"} <=> rules'[q] # {}
    BY Zenon DEF LocalsOK
  <2>1. q # None
    BY ForwardAssumption
  <2>2. /\ pc[q] # "idle" => conf[q] \in Configs
        /\ pc[q] \in {"list", "lock", "dial", "install", "start", "isRunning", "stop", "save"}
             => asset[q] \in Assets
        /\ pc[q] \in {"install", "start"} => conn[q] \in Clients
        /\ pc[q] \in {"lock", "dial", "install", "start"} <=> rules[q] # {}
    BY DEF LocalsOK
  <2>3. CASE q = p
    BY <1>2, <2>1, <2>2, <2>3
  <2>4. CASE q # p
    BY <1>2, <2>1, <2>2, <2>4
  <2> QED BY <2>3, <2>4
<1>12. HolderOK'
  <2>1. \A s \in rules[p] \ {r} : s \in Rules /\ running[s] = None
    BY <1>1, <1>2 DEF HolderOK, TypeOK
  <2>2. \A s \in rules'[p] : running'[s] = None
    BY <1>2, <1>8, <2>1
  <2> QED BY <1>1, <1>2, <1>4, <2>2 DEF HolderOK
<1>13. ClientsOK'
  <2>1. life[conn[p]] \in {"open", "dead"}
    <3>1. conn[p] # None
      BY <1>1, ForwardAssumption
    <3> QED BY <1>1, <3>1 DEF ClientsOK
  <2>2. \A c \in Clients : life[c] \in {"open", "dead"} => \E a \in Assets : clients[a] = c
    BY <1>1, <1>2 DEF ClientsOK
  <2>3. \A c \in Clients : life[c] = "fresh" => refs'[c] = 0
    <3>1. \A c \in Clients : life[c] = "fresh" => refs[c] = 0 /\ c # conn[p]
      BY <2>1 DEF ClientsOK
    <3> QED BY <1>9, <3>1
  <2>4. \A q \in Procs : pc'[q] # "install"
    BY <1>2
  <2>5. \A a, b \in Assets : clients[a] # None =>
          /\ life[clients[a]] \in {"open", "dead"}
          /\ clients[a] = clients[b] => a = b
    BY DEF ClientsOK
  <2> QED BY <1>4, <2>2, <2>3, <2>4, <2>5 DEF ClientsOK
<1>14. InUse'
  <2>1. \A a \in Assets \ {asset[p]} : clients[a] # None => RanOn(a) # {}
    BY <1>1 DEF InUse
  <2>2. \A a \in Assets : clients[a] # None => RanOn(a)' # {}
    BY <1>1, <2>1
  <2> QED BY <1>4, <2>2 DEF InUse
<1>15. RefsExact'
  <2> SUFFICES ASSUME NEW a \in Assets
               PROVE  IF clients'[a] = None THEN RanOn(a)' = {}
                      ELSE refs'[clients'[a]] = Cardinality(RanOn(a)')
    BY DEF RefsExact
  <2>1. CASE a = asset[p]
    <3>1. conn[p] # None
      BY <1>1, ForwardAssumption
    <3>2. refs[conn[p]] = Cardinality(RanOn(asset[p]))
      BY <1>1, <3>1 DEF RefsExact
    <3>3. Cardinality(RanOn(asset[p]) \cup {r}) = Cardinality(RanOn(asset[p])) + 1
      BY <1>1, RulesFinite, Added
    <3> QED BY <1>1, <1>4, <1>9, <2>1, <3>1, <3>2, <3>3
  <2>2. CASE a # asset[p]
    <3>1. clients[a] # None => clients[a] # conn[p] /\ clients[a] \in Clients
      BY <1>1, <2>2 DEF ClientsOK, TypeOK
    <3>2. IF clients[a] = None THEN RanOn(a) = {} ELSE refs[clients[a]] = Cardinality(RanOn(a))
      BY DEF RefsExact
    <3> QED BY <1>1, <1>4, <1>9, <2>2, <3>1, <3>2
  <2> QED BY <2>1, <2>2
<1>16. StatusIsTrue'
  <2>1. ASSUME NEW s \in Rules, running'[s] # None, ~running'[s].failed
        PROVE  LET c == clients'[running'[s].asset] IN
               [rule |-> s, client |-> c] \in listeners' \ cancelled' \/ (remote[s] /\ life'[c] = "dead")
    <3>1. CASE s = r
      <4>1. ~failed /\ clients'[running'[s].asset] = conn[p]
        BY <1>1, <1>4, <1>5, <1>8, <2>1, <3>1
      <4>2. l \in listeners' \ cancelled'
        BY <1>4, <1>6, <4>1 DEF TypeOK
      <4> QED BY <3>1, <4>1, <4>2 DEF l
    <3>2. CASE s # r
      <4>1. running'[s] = running[s]
        BY <1>8, <3>2
      <4>2. LET c == clients[running[s].asset] IN
            [rule |-> s, client |-> c] \in listeners \ cancelled \/ (remote[s] /\ life[c] = "dead")
        BY <2>1, <4>1 DEF StatusIsTrue
      <4>3. listeners \subseteq listeners'
        BY <1>6
      <4> QED BY <1>4, <4>1, <4>2, <4>3
    <3> QED BY <3>1, <3>2
  <2>2. ASSUME NEW m \in listeners' \ cancelled'
        PROVE  /\ running'[m.rule] # None /\ ~running'[m.rule].failed
               /\ clients'[running'[m.rule].asset] = m.client
    <3>1. CASE m \in listeners
      <4>1. m \in listeners \ cancelled /\ m.rule \in Rules
        BY <1>4, <2>2, <3>1, SMT DEF TypeOK, Listeners
      <4>2. /\ running[m.rule] # None /\ ~running[m.rule].failed
            /\ clients[running[m.rule].asset] = m.client
        BY <4>1 DEF StatusIsTrue
      <4>3. m.rule # r
        BY <1>1, <4>2
      <4>4. running'[m.rule] = running[m.rule]
        BY <1>8, <4>1, <4>3
      <4> QED BY <1>4, <4>2, <4>4
    <3>2. CASE m \notin listeners
      <4>1. m = l /\ ~failed
        BY <1>6, <2>2, <3>2
      <4> QED BY <1>1, <1>4, <1>5, <1>8, <4>1
    <3> QED BY <3>1, <3>2
  <2> QED BY <2>1, <2>2, Zenon DEF StatusIsTrue
<1>17. RulesOwned'
  <2> SUFFICES ASSUME NEW s \in Rules PROVE RuleOwned(s)'
    BY DEF RulesOwned
  <2>1. RuleOwned(s)
    BY DEF RulesOwned
  <2>2. \A q \in Procs : s \in rules'[q] => s \in rules[q] /\ conf'[q] = conf[q]
    BY <1>2
  <2>3. CASE s = r
    BY <1>2, <1>4, <1>5, <1>8, <2>1, <2>2, <2>3 DEF RuleOwned
  <2>4. CASE s # r
    BY <1>4, <1>8, <2>1, <2>2, <2>4 DEF RuleOwned
  <2> QED BY <2>3, <2>4
<1> QED BY <1>10, <1>11, <1>12, <1>13, <1>14, <1>15, <1>16, <1>17
-----------------------------------------------------------------------------
(***************************************************************************)
(* StopAll, and what happens outside the calls.                            *)
(***************************************************************************)

\* StopAll closes what there is, and every client that is open is in the map.
LEMMA StopAllStep ==
  ASSUME IInv, StopAll
  PROVE  IInv'
<1> USE DEF IInv
<1>1. /\ mu = None
      /\ running' = [r \in Rules |-> None]
      /\ clients' = [a \in Assets |-> None]
      /\ life' = [c \in Clients |-> IF c \in {clients[a] : a \in Assets} THEN "closed" ELSE life[c]]
      /\ listeners' \subseteq listeners
      /\ cancelled' = {l \in listeners' : l \in cancelled \/ running[l.rule] # None}
      /\ refs' = [c \in Clients |-> 0]
      /\ UNCHANGED <<config, ruleOf, mu, pc, conf, asset, rules, wasRunning, conn, overlapped>>
  BY DEF StopAll, Shut, dbVars, callVars
<1>2. /\ \A p \in Procs : pc[p] \notin {"dial", "install", "start"}
      /\ \A c \in Clients : life[c] \in {"open", "dead"} => \E a \in Assets : clients[a] = c
  BY <1>1, FreeMutex
<1>3. \A a \in Assets : RanOn(a)' = {}
  BY <1>1 DEF RanOn
<1>4. TypeOK'
  <2>1. /\ running' \in [Rules -> Runs \cup {None}] /\ clients' \in [Assets -> Clients \cup {None}]
        /\ refs' \in [Clients -> Int]
    BY <1>1
  <2>2. life' \in [Clients -> {"fresh", "open", "dead", "closed"}]
    BY <1>1 DEF TypeOK
  <2>3. listeners' \subseteq Listeners /\ cancelled' \subseteq listeners'
    BY <1>1 DEF TypeOK
  <2> QED BY <1>1, <2>1, <2>2, <2>3 DEF TypeOK
<1>5. LocalsOK' /\ HolderOK'
  BY <1>1 DEF LocalsOK, HolderOK
<1>6. ClientsOK'
  <2>1. \A c \in Clients : life'[c] \notin {"open", "dead"}
    BY <1>1, <1>2
  <2> QED BY <1>1, <1>2, <2>1 DEF ClientsOK
<1>7. InUse' /\ RefsExact'
  BY <1>1, <1>3 DEF InUse, RefsExact
<1>8. StatusIsTrue'
  <2>1. \A l \in listeners \ cancelled : running[l.rule] # None
    BY DEF StatusIsTrue
  <2>2. listeners' \ cancelled' = {}
    BY <1>1, <2>1
  <2>3. \A r \in Rules : running'[r] = None
    BY <1>1
  <2> QED BY <2>2, <2>3 DEF StatusIsTrue
<1>9. RulesOwned'
  BY <1>1 DEF RulesOwned, RuleOwned
<1> QED BY <1>4, <1>5, <1>6, <1>7, <1>8, <1>9

\* A listener that closes, a connection that breaks, a stutter.
LEMMA OutsideStep ==
  ASSUME IInv, \/ \E l \in Listeners : CloseListener(l)
               \/ \E c \in Clients : Drop(c)
               \/ UNCHANGED vars
  PROVE  IInv'
<1> USE DEF IInv
<1>1. ASSUME NEW l \in Listeners, CloseListener(l) PROVE IInv'
  <2>1. /\ l \in cancelled
        /\ listeners' = listeners \ {l} /\ cancelled' = cancelled \ {l}
        /\ UNCHANGED <<config, ruleOf, mu, clients, life, refs, running>>
        /\ UNCHANGED <<pc, conf, asset, rules, wasRunning, conn, overlapped>>
    BY <1>1 DEF CloseListener, dbVars, clientVars, callVars
  <2>2. TypeOK'
    BY <2>1 DEF TypeOK
  <2>3. LocalsOK' /\ HolderOK' /\ ClientsOK' /\ RulesOwned'
    BY <2>1 DEF LocalsOK, HolderOK, ClientsOK, RulesOwned, RuleOwned
  <2>4. InUse' /\ RefsExact'
    BY <2>1 DEF InUse, RefsExact, RanOn
  <2>5. StatusIsTrue'
    <3>1. listeners' \ cancelled' = listeners \ cancelled
      BY <2>1
    <3> QED BY <2>1, <3>1 DEF StatusIsTrue
  <2> QED BY <2>2, <2>3, <2>4, <2>5
<1>2. ASSUME NEW c \in Clients, Drop(c) PROVE IInv'
  <2> DEFINE ended == {l \in listeners : remote[l.rule] /\ l.client = c}
  <2>1. /\ life[c] = "open" /\ life' = [life EXCEPT ![c] = "dead"]
        /\ listeners' = listeners \ ended /\ cancelled' = cancelled \ ended
        /\ UNCHANGED <<config, ruleOf, mu, clients, refs, running>>
        /\ UNCHANGED <<pc, conf, asset, rules, wasRunning, conn, overlapped>>
    BY <1>2 DEF Drop, dbVars, callVars
  <2>2. life'[c] = "dead" /\ \A d : life'[d] = life[d] \/ (d = c /\ life[d] = "open")
    BY <2>1 DEF TypeOK
  <2>3. TypeOK'
    BY <2>1 DEF TypeOK
  <2>4. LocalsOK' /\ HolderOK' /\ RulesOwned'
    BY <2>1 DEF LocalsOK, HolderOK, RulesOwned, RuleOwned
  <2>5. ClientsOK'
    BY <2>1, <2>2 DEF ClientsOK
  <2>6. InUse' /\ RefsExact'
    BY <2>1 DEF InUse, RefsExact, RanOn
  <2>7. ASSUME NEW r \in Rules, running'[r] # None, ~running'[r].failed
        PROVE  LET d == clients'[running'[r].asset] IN
               [rule |-> r, client |-> d] \in listeners' \ cancelled' \/ (remote[r] /\ life'[d] = "dead")
    <3> DEFINE d == clients[running[r].asset]
               l == [rule |-> r, client |-> d]
    <3>1. l \in listeners \ cancelled \/ (remote[r] /\ life[d] = "dead")
      BY <2>1, <2>7 DEF StatusIsTrue
    <3>2. l.rule = r /\ l.client = d
      OBVIOUS
    <3> HIDE DEF l
    <3>3. CASE l \in ended
      <4>1. remote[r] /\ d = c
        BY <3>2, <3>3
      <4> QED BY <2>1, <2>2, <4>1
    <3>4. CASE l \notin ended
      <4>1. l \in listeners \ cancelled => l \in listeners' \ cancelled'
        BY <2>1, <3>4
      <4>2. life[d] = "dead" => life'[d] = "dead"
        BY <2>2
      <4> QED BY <2>1, <3>1, <4>1, <4>2 DEF l
    <3> QED BY <3>3, <3>4
  <2>8. \A m \in listeners' \ cancelled' : m \in listeners \ cancelled
    BY <2>1
  <2>9. \A m \in listeners' \ cancelled' :
          /\ running'[m.rule] # None /\ ~running'[m.rule].failed
          /\ clients'[running'[m.rule].asset] = m.client
    <3> HIDE DEF ended
    <3> QED BY <2>1, <2>8 DEF StatusIsTrue
  <2>10. StatusIsTrue'
    BY <2>7, <2>9, Zenon DEF StatusIsTrue
  <2> QED BY <2>3, <2>4, <2>5, <2>6, <2>10
<1>3. CASE UNCHANGED vars
  <2>1. /\ UNCHANGED <<config, ruleOf, mu, clients, life, refs, running, listeners, cancelled>>
        /\ UNCHANGED <<pc, conf, asset, rules, wasRunning, conn, overlapped>>
    BY <1>3 DEF vars, dbVars, clientVars, runVars, callVars
  <2>2. TypeOK' /\ LocalsOK' /\ HolderOK'
    BY <2>1 DEF TypeOK, LocalsOK, HolderOK
  <2>3. ClientsOK' /\ RulesOwned' /\ StatusIsTrue'
    BY <2>1 DEF ClientsOK, RulesOwned, RuleOwned, StatusIsTrue
  <2>4. InUse' /\ RefsExact'
    BY <2>1 DEF InUse, RefsExact, RanOn
  <2> QED BY <2>2, <2>3, <2>4
<1> QED BY <1>1, <1>2, <1>3

\* It holds at the start.
LEMMA InitOK == Init => IInv
<1> SUFFICES ASSUME Init PROVE IInv
  OBVIOUS
<1> USE DEF Init
<1>1. TypeOK
  <2>1. wasRunning \in [Procs -> BOOLEAN]
    OBVIOUS
  <2> QED BY <2>1 DEF TypeOK, Places
<1>2. \A a \in Assets : RanOn(a) = {}
  BY DEF RanOn
<1>3. LocalsOK /\ HolderOK
  BY ForwardAssumption DEF LocalsOK, HolderOK
<1>4. ClientsOK /\ InUse /\ RefsExact
  BY <1>2 DEF ClientsOK, InUse, RefsExact
<1>5. StatusIsTrue /\ RulesOwned
  BY DEF StatusIsTrue, RulesOwned, RuleOwned
<1> QED BY <1>1, <1>3, <1>4, <1>5 DEF IInv

\* Every step keeps the inductive invariant.
LEMMA StepOK ==
  ASSUME IInv, [Next]_vars
  PROVE  IInv'
<1>1. ASSUME NEW p \in Procs, BeginCall(p) PROVE IInv'
  <2>1. CASE \E k \in Configs : StartForwardConfig(p, k)
    <3>1. PICK k \in Configs : StartForwardConfig(p, k)
      BY <2>1
    <3> QED BY <3>1, BeginStep
  <2>2. CASE BeginEdit(p)
    <3>1. PICK k \in Configs : \/ DeleteForwardConfig(p, k)
                               \/ \E a \in Assets : \/ CreateForwardConfig(p, k, a)
                                                     \/ UpdateForwardConfig(p, k, a)
      BY <2>2 DEF BeginEdit
    <3>2. CASE DeleteForwardConfig(p, k)
      BY <3>2, StopStep
    <3>3. CASE \E a \in Assets : CreateForwardConfig(p, k, a) \/ UpdateForwardConfig(p, k, a)
      BY <3>3, BeginStep
    <3> QED BY <3>1, <3>2, <3>3
  <2> QED BY <1>1, <2>1, <2>2 DEF BeginCall
<1>2. ASSUME NEW p \in Procs, StartStep(p) PROVE IInv'
  <2>1. CASE Lock(p)
    <3>1. conf[p] \in Configs
      BY <2>1 DEF Lock, IInv, LocalsOK
    <3> QED BY <2>1, <3>1, StopStep
  <2> QED BY <1>2, <2>1, DatabaseStep, ListStep, ReuseStep, DialStep, DialFailsStep, InstallStep,
             StartRuleStep DEF StartStep
<1>3. ASSUME NEW p \in Procs, EditStep(p) PROVE IInv'
  <2>1. CASE StopConfig(p)
    <3>1. conf[p] \in Configs
      BY <2>1 DEF StopConfig, IInv, LocalsOK
    <3> QED BY <2>1, <3>1, StopStep
  <2> QED BY <1>3, <2>1, DatabaseStep DEF EditStep
<1>4. ASSUME NEW k \in Configs, StopForwardConfig(k) PROVE IInv'
  BY <1>4, StopCallStep
<1>5. CASE StopAll
  BY <1>5, StopAllStep
<1>6. CASE \/ \E l \in Listeners : CloseListener(l)
           \/ \E c \in Clients : Drop(c)
           \/ UNCHANGED vars
  BY <1>6, OutsideStep
<1> QED BY <1>1, <1>2, <1>3, <1>4, <1>5, <1>6, Zenon DEF Next
-----------------------------------------------------------------------------
(***************************************************************************)
(* The theorems.                                                           *)
(***************************************************************************)

\* The inductive invariant holds in every reachable state.
THEOREM Inductive == Spec => []IInv
<1>1. IInv /\ [Next]_vars => IInv'
  BY StepOK
<1> QED BY InitOK, <1>1, PTL DEF Spec

\* Every variable of the manager, the database and the calls keeps its type.
THEOREM TypeCorrect == Spec => []TypeOK
<1>1. IInv => TypeOK
  BY DEF IInv
<1> QED BY Inductive, <1>1, PTL

\* releaseClientLocked counts down what StartConfig counted up: between the rules
\* of an asset and the count of its client there is never a difference.
THEOREM CountsExact == Spec => []RefsExact
<1>1. IInv => RefsExact
  BY DEF IInv
<1> QED BY Inductive, <1>1, PTL

\* A client that is open has rules, or the call that holds m.mu works with it.
THEOREM NothingIdle == Spec => []ClientsNeeded
<1>1. IInv => ClientsNeeded
  <2> SUFFICES ASSUME IInv, NEW c \in Clients, life[c] \in {"open", "dead"}
               PROVE  \/ \E a \in Assets : clients[a] = c /\ RanOn(a) # {}
                      \/ mu # None /\ conn[mu] = c
    BY DEF ClientsNeeded
  <2>1. CASE \A a \in Assets : clients[a] # c
    BY <2>1 DEF IInv, ClientsOK
  <2>2. ASSUME NEW a \in Assets, clients[a] = c PROVE RanOn(a) # {} \/ (mu # None /\ conn[mu] = c)
    <3>1. clients[a] # None
      BY <2>2, ForwardAssumption
    <3>2. RanOn(a) # {} \/ (mu # None /\ pc[mu] = "start" /\ asset[mu] = a)
      BY <3>1 DEF IInv, InUse
    <3> QED BY <2>2, <3>2 DEF IInv, HolderOK
  <2> QED BY <2>1, <2>2
<1> QED BY Inductive, <1>1, PTL

\* What the page shows as running listens, and what listens is shown as running.
THEOREM StatusTrue == Spec => []StatusIsTrue
<1>1. IInv => StatusIsTrue
  BY DEF IInv
<1> QED BY Inductive, <1>1, PTL

-----------------------------------------------------------------------------
(***************************************************************************)
(* The refinement.                                                         *)
(***************************************************************************)

\* The stage of a client.
LEMMA StageOf ==
  ASSUME NEW c \in Clients
  PROVE  /\ Stage[c] = IF life[c] \in {"fresh", "closed"} THEN life[c]
                       ELSE IF \E a \in Assets : clients[a] = c THEN "shared" ELSE "private"
         /\ Stage'[c] = IF life'[c] \in {"fresh", "closed"} THEN life'[c]
                        ELSE IF \E a \in Assets : clients'[a] = c THEN "shared" ELSE "private"
BY Zenon DEF Stage

\* Clients that are in the map and open leave it and are closed.
LEMMA ClearRefines ==
  ASSUME IInv, NEW emptied \in SUBSET Assets,
         clients' = [a \in Assets |-> IF a \in emptied THEN None ELSE clients[a]],
         life' = [c \in Clients |-> IF c \in {clients[a] : a \in emptied} THEN "closed" ELSE life[c]]
  PROVE  Slots!Next
<1> DEFINE shut == {c \in Clients : \E a \in emptied : clients[a] = c}
<1>1. ASSUME NEW c \in Clients
      PROVE  Stage'[c] = IF Stage[c] # "shared" \/ \A a \in emptied : clients[a] # c THEN Stage[c]
                         ELSE IF c \in shut THEN "closed" ELSE "retired"
  <2>1. c # None
    BY ForwardAssumption
  <2>2. life' = [d \in Clients |-> IF d \in {clients[a] : a \in emptied} THEN "closed" ELSE life[d]]
    OBVIOUS
  <2>3. life'[c] = IF \E a \in emptied : clients[a] = c THEN "closed" ELSE life[c]
    BY <2>2
  <2>4. CASE \E a \in emptied : clients[a] = c
    <3>1. life[c] \in {"open", "dead"}
      BY <2>1, <2>4 DEF IInv, ClientsOK
    <3>2. Stage[c] = "shared" /\ Stage'[c] = "closed"
      BY <2>3, <2>4, <3>1, StageOf
    <3> QED BY <2>4, <3>2
  <2>5. CASE \A a \in emptied : clients[a] # c
    <3>1. \A a \in Assets : clients'[a] = c <=> clients[a] = c
      BY <2>1, <2>5
    <3>2. life'[c] = life[c]
      BY <2>3, <2>5
    <3>3. Stage'[c] = Stage[c]
      BY <3>1, <3>2, StageOf
    <3> QED BY <2>5, <3>3
  <2> QED BY <2>4, <2>5
<1>2. Stage' = [c \in Clients |->
                  IF Stage[c] # "shared" \/ \A a \in emptied : clients[a] # c THEN Stage[c]
                  ELSE IF c \in shut THEN "closed" ELSE "retired"]
  <2> HIDE DEF shut
  <2>1. Stage' = [c \in Clients |-> Stage'[c]]
    BY Zenon DEF Stage
  <2> QED BY <1>1, <2>1, Zenon
<1>3. Slots!Clear(emptied, shut)
  BY <1>2, Zenon DEF Slots!Clear
<1>4. shut \in SUBSET Clients
  OBVIOUS
<1> HIDE DEF shut
<1> QED BY <1>3, <1>4, Zenon DEF Slots!Next

\* Each step is one of the contract, or none.
LEMMA RefineStep ==
  ASSUME IInv, [Next]_vars
  PROVE  Slots!Next \/ UNCHANGED <<clients, Stage>>
<1> DEFINE Goal == Slots!Next \/ UNCHANGED <<clients, Stage>>
<1>0. ASSUME UNCHANGED <<clients, life>> PROVE Goal
  BY <1>0, Zenon DEF Stage
<1>1. ASSUME NEW k, stopConfigLocked(k) PROVE Goal
  <2>1. /\ clients' = [a \in Assets |-> IF a \in Emptied(Ran(k)) THEN None ELSE clients[a]]
        /\ life' = [c \in Clients |-> IF c \in {clients[a] : a \in Emptied(Ran(k))} THEN "closed" ELSE life[c]]
    BY <1>1, Zenon DEF stopConfigLocked, Shut
  <2>2. Emptied(Ran(k)) \in SUBSET Assets
    BY DEF Emptied
  <2> QED BY <2>1, <2>2, ClearRefines
<1>2. CASE StopAll
  <2>1. /\ clients' = [a \in Assets |-> IF a \in Assets THEN None ELSE clients[a]]
        /\ life' = [c \in Clients |-> IF c \in {clients[a] : a \in Assets} THEN "closed" ELSE life[c]]
    BY <1>2 DEF StopAll, Shut
  <2> QED BY <2>1, ClearRefines
<1>3. ASSUME NEW p \in Procs, DialAsset(p) PROVE Goal
  <2>1. PICK c \in Clients : life[c] = "fresh" /\ life' = [life EXCEPT ![c] = "open"]
    BY <1>3 DEF DialAsset
  <2>2. UNCHANGED clients
    BY <1>3 DEF DialAsset
  <2>3. \A a \in Assets : clients[a] # c
    <3>1. c # None
      BY ForwardAssumption
    <3> QED BY <2>1, <3>1 DEF IInv, ClientsOK
  <2>4. life'[c] = "open" /\ \A d \in Clients \ {c} : life'[d] = life[d]
    BY <2>1 DEF IInv, TypeOK
  <2>5. Stage[c] = "fresh" /\ Stage'[c] = "private"
    BY <2>1, <2>2, <2>3, <2>4, StageOf
  <2>6. \A d \in Clients \ {c} : Stage'[d] = Stage[d]
    BY <2>2, <2>4, StageOf
  <2>7. Stage' = [Stage EXCEPT ![c] = "private"]
    <3>1. Stage = [d \in Clients |-> Stage[d]] /\ Stage' = [d \in Clients |-> Stage'[d]]
      BY Zenon DEF Stage
    <3> HIDE DEF Goal
    <3> QED BY <2>5, <2>6, <3>1
  <2>8. Slots!Open(c)
    BY <2>2, <2>5, <2>7 DEF Slots!Open
  <2> QED BY <2>8 DEF Slots!Next
<1>4. ASSUME NEW p \in Procs, Install(p) PROVE Goal
  <2> DEFINE a == asset[p]
             c == conn[p]
  <2>1. /\ pc[p] = "install" /\ a \in Assets /\ c \in Clients /\ c # None
        /\ mu = p /\ p # None
    BY <1>4, ForwardAssumption DEF Install, IInv, LocalsOK
  <2>2. clients[a] = None /\ life[c] \in {"open", "dead"} /\ \A b \in Assets : clients[b] # c
    BY <2>1 DEF IInv, HolderOK, ClientsOK
  <2>3. clients' = [clients EXCEPT ![a] = c] /\ UNCHANGED life
    BY <1>4 DEF Install
  <2>4. clients'[a] = c /\ \A b \in Assets \ {a} : clients'[b] = clients[b]
    BY <2>1, <2>3 DEF IInv, TypeOK
  <2> HIDE DEF a, c
  <2>5. Stage[c] = "private" /\ Stage'[c] = "shared"
    BY <2>1, <2>2, <2>3, <2>4, StageOf
  <2>6. ASSUME NEW d \in Clients \ {c} PROVE Stage'[d] = Stage[d]
    <3>1. d # None
      BY ForwardAssumption
    <3>2. \A b \in Assets : clients'[b] = d <=> clients[b] = d
      BY <2>2, <2>4, <3>1
    <3> QED BY <2>3, <3>2, StageOf
  <2>7. Stage' = [Stage EXCEPT ![c] = "shared"]
    <3>1. Stage = [d \in Clients |-> Stage[d]] /\ Stage' = [d \in Clients |-> Stage'[d]]
      BY Zenon DEF Stage
    <3> HIDE DEF Goal
    <3> QED BY <2>5, <2>6, <3>1
  <2>8. Slots!Install(a, c)
    BY <2>2, <2>3, <2>5, <2>7 DEF Slots!Install
  <2> QED BY <2>1, <2>8 DEF Slots!Next
<1>5. ASSUME NEW c \in Clients, Drop(c) PROVE Goal
  <2>1. life[c] = "open" /\ life' = [life EXCEPT ![c] = "dead"] /\ UNCHANGED clients
    BY <1>5 DEF Drop
  <2>2. life'[c] = "dead" /\ \A d \in Clients \ {c} : life'[d] = life[d]
    BY <2>1 DEF IInv, TypeOK
  <2>3. \A d \in Clients : Stage'[d] = Stage[d]
    BY <2>1, <2>2, StageOf
  <2>4. Stage = [d \in Clients |-> Stage[d]] /\ Stage' = [d \in Clients |-> Stage'[d]]
    BY Zenon DEF Stage
  <2>5. Stage' = Stage
    <3> HIDE DEF Goal
    <3> QED BY <2>3, <2>4
  <2> QED BY <2>1, <2>5
<1>6. ASSUME NEW p \in Procs, BeginCall(p) PROVE Goal
  BY <1>0, <1>1, <1>6 DEF BeginCall, BeginEdit, StartForwardConfig, CreateForwardConfig,
     UpdateForwardConfig, DeleteForwardConfig, clientVars
<1>7. ASSUME NEW p \in Procs, StartStep(p) PROVE Goal
  <2>1. CASE Lock(p)
    BY <1>1, <2>1 DEF Lock
  <2>2. CASE FindConfig(p) \/ ListRulesByConfigID(p) \/ Reuse(p) \/ DialFails(p)
    BY <1>0, <2>2 DEF FindConfig, ListRulesByConfigID, Reuse, DialFails, clientVars
  <2>3. CASE \E r \in Rules : StartRule(p, r)
    BY <1>0, <2>3 DEF StartRule
  <2> QED BY <1>3, <1>4, <1>7, <2>1, <2>2, <2>3, Zenon DEF StartStep
<1>8. ASSUME NEW p \in Procs, EditStep(p) PROVE Goal
  <2>1. CASE StopConfig(p)
    BY <1>1, <2>1 DEF StopConfig
  <2>2. CASE IsConfigRunning(p) \/ UpdateConfig(p) \/ ReplaceRules(p)
    BY <1>0, <2>2 DEF IsConfigRunning, UpdateConfig, ReplaceRules, clientVars
  <2>3. CASE DeleteRulesByConfigID(p) \/ DeleteConfig(p)
    BY <1>0, <2>3 DEF DeleteRulesByConfigID, DeleteConfig, clientVars
  <2> QED BY <1>8, <2>1, <2>2, <2>3, Zenon DEF EditStep
<1>9. ASSUME NEW k \in Configs, StopForwardConfig(k) PROVE Goal
  BY <1>1, <1>9 DEF StopForwardConfig
<1>10. CASE UNCHANGED vars \/ \E l \in Listeners : CloseListener(l)
  BY <1>0, <1>10 DEF CloseListener, vars, clientVars
<1>11. CASE \E p \in Procs : BeginCall(p) \/ StartStep(p) \/ EditStep(p)
  BY <1>6, <1>7, <1>8, <1>11
<1>12. CASE \E k \in Configs : StopForwardConfig(k)
  BY <1>9, <1>12
<1>13. CASE \E c \in Clients : Drop(c)
  BY <1>5, <1>13
<1> QED BY <1>2, <1>10, <1>11, <1>12, <1>13, Zenon DEF Next

\* The manager implements the safety part of the cache contract: one client per
\* asset, dialled outside the map, closed as it leaves it.
THEOREM Refinement == Spec => SlotsSafety
<1>1. Init => Slots!Init
  BY ForwardAssumption DEF Init, Slots!Init, Stage
<1>2. IInv /\ [Next]_vars => [Slots!Next]_(Slots!vars)
  BY RefineStep DEF Slots!vars
<1> QED BY Inductive, <1>1, <1>2, PTL DEF Spec, SlotsSafety, Slots!Safety

-----------------------------------------------------------------------------
(***************************************************************************)
(* What is stored.  A step of a call changes its own configuration only;   *)
(* as long as the calls for one do not meet, each finds what the one       *)
(* before it left.                                                         *)
(***************************************************************************)


\* What the calls for a configuration, and what is known of it, depend on.
SameFor(k) ==
  /\ config'[k] = config[k]
  /\ Stored(k)' = Stored(k)
  /\ Ran(k)' = Ran(k)
  /\ \A r \in Ran(k) : running'[r] = running[r]
  /\ Calls(k)' = Calls(k)
  /\ \A p \in Calls(k) : pc'[p] = pc[p] /\ asset'[p] = asset[p] /\ rules'[p] = rules[p]
  /\ k \in overlapped => k \in overlapped'

\* A step that leaves them alone leaves the configuration as it was.
LEMMA FrameKeeps ==
  ASSUME NEW k \in Configs, StoredFor(k), SameFor(k)
  PROVE  StoredFor(k)'
<1>1. AsStored(k) => AsStored(k)'
  BY DEF SameFor, AsStored
<1>2. ASSUME NEW p \in Calls(k), CallOK(p, k) PROVE CallOK(p, k)'
  BY <1>1, <1>2 DEF SameFor, CallOK
<1> QED BY <1>1, <1>2 DEF SameFor, StoredFor

-----------------------------------------------------------------------------
(***************************************************************************)
(* Other configurations.                                                   *)
(***************************************************************************)

\* The steps of a call leave the calls for other configurations alone.
LEMMA OtherCalls ==
  ASSUME TypeOK, NEW p \in Procs, NEW k \in Configs, pc[p] # "idle", conf[p] # k,
         NEW l \in Places, pc' = [pc EXCEPT ![p] = l],
         conf' \in {conf, [conf EXCEPT ![p] = None]},
         \A q \in Procs \ {p} : asset'[q] = asset[q] /\ rules'[q] = rules[q]
  PROVE  /\ Calls(k)' = Calls(k)
         /\ \A q \in Calls(k) : pc'[q] = pc[q] /\ asset'[q] = asset[q] /\ rules'[q] = rules[q]
<1>0. None # k
  BY ForwardAssumption
<1>1. \A q \in Procs \ {p} : pc'[q] = pc[q] /\ conf'[q] = conf[q]
  BY DEF TypeOK
<1>2. p \notin Calls(k) /\ p \notin Calls(k)'
  BY <1>0 DEF Calls, TypeOK
<1>3. Calls(k) \subseteq Procs /\ Calls(k)' \subseteq Procs
  BY DEF Calls
<1>4. Calls(k)' = Calls(k)
  BY <1>1, <1>2, <1>3 DEF Calls
<1> QED BY <1>1, <1>2, <1>3, <1>4

\* stopConfigLocked stops one configuration as a whole and no other.
LEMMA StopRan ==
  ASSUME IInv, NEW k \in Configs, stopConfigLocked(k), NEW j \in Configs
  PROVE  /\ j = k => Ran(j)' = {}
         /\ j # k => Ran(j)' = Ran(j) /\ \A r \in Ran(j) : running'[r] = running[r]
<1>1. running' = [r \in Rules |-> IF r \in Ran(k) THEN None ELSE running[r]]
  BY Zenon DEF stopConfigLocked
<1> QED BY <1>1 DEF Ran

\* Return in terms of the functions it changes.
LEMMA ReturnIs ==
  ASSUME TypeOK, NEW p \in Procs, Return(p)
  PROVE  /\ pc' = [pc EXCEPT ![p] = "idle"] /\ "idle" \in Places
         /\ conf' = [conf EXCEPT ![p] = None]
         /\ \A q \in Procs \ {p} : asset'[q] = asset[q] /\ rules'[q] = rules[q]
BY DEF Return, Goto, Places, TypeOK

\* What runs and what is stored is changed by some steps only.
LEMMA SameTables ==
  ASSUME NEW k \in Configs, UNCHANGED <<dbVars, running, overlapped>>,
         Calls(k)' = Calls(k),
         \A q \in Calls(k) : pc'[q] = pc[q] /\ asset'[q] = asset[q] /\ rules'[q] = rules[q]
  PROVE  SameFor(k)
BY DEF SameFor, Stored, Ran, dbVars

\* The steps of a start, for another configuration.
LEMMA OtherStart ==
  ASSUME IInv, NEW p \in Procs, NEW k \in Configs, conf[p] # k, StartStep(p)
  PROVE  SameFor(k)
<1> USE DEF IInv
<1> DEFINE CallsSame == /\ Calls(k)' = Calls(k)
                        /\ \A q \in Calls(k) : pc'[q] = pc[q] /\ asset'[q] = asset[q] /\ rules'[q] = rules[q]
<1>0. ASSUME NEW l \in Places, pc[p] # "idle", pc' = [pc EXCEPT ![p] = l],
             conf' \in {conf, [conf EXCEPT ![p] = None]},
             \A q \in Procs \ {p} : asset'[q] = asset[q] /\ rules'[q] = rules[q]
      PROVE  CallsSame
  BY <1>0, OtherCalls
<1>1. CASE FindConfig(p)
  <2>1. pc[p] # "idle" /\ UNCHANGED <<dbVars, running, overlapped>>
    BY <1>1 DEF FindConfig, runVars
  <2>2. CASE Return(p)
    <3>1. CallsSame
      BY <1>0, <2>1, <2>2, ReturnIs
    <3> QED BY <2>1, <3>1, SameTables
  <2>3. CASE /\ asset' = [asset EXCEPT ![p] = config[conf[p]]]
             /\ Goto(p, "list")
             /\ UNCHANGED <<conf, rules>>
    <3>1. CallsSame
      BY <1>0, <2>1, <2>3 DEF Goto, Places, TypeOK
    <3> QED BY <2>1, <3>1, SameTables
  <2> QED BY <1>1, <2>2, <2>3 DEF FindConfig
<1>2. CASE ListRulesByConfigID(p)
  <2>1. pc[p] # "idle" /\ UNCHANGED <<dbVars, running, overlapped>>
    BY <1>2 DEF ListRulesByConfigID, runVars
  <2>2. CASE Return(p)
    <3>1. CallsSame
      BY <1>0, <2>1, <2>2, ReturnIs
    <3> QED BY <2>1, <3>1, SameTables
  <2>3. CASE /\ rules' = [rules EXCEPT ![p] = Stored(conf[p])]
             /\ Goto(p, "lock")
             /\ UNCHANGED <<conf, asset>>
    <3>1. CallsSame
      BY <1>0, <2>1, <2>3 DEF Goto, Places, TypeOK
    <3> QED BY <2>1, <3>1, SameTables
  <2> QED BY <1>2, <2>2, <2>3 DEF ListRulesByConfigID
<1>3. CASE Lock(p)
  <2>1. /\ pc[p] = "lock" /\ stopConfigLocked(conf[p])
        /\ pc' = [pc EXCEPT ![p] = "dial"]
        /\ UNCHANGED <<config, ruleOf, conf, asset, rules, overlapped>>
    BY <1>3 DEF Lock, Goto, dbVars
  <2>2. conf[p] \in Configs
    BY <2>1 DEF LocalsOK
  <2>3. CallsSame
    BY <1>0, <2>1 DEF Places
  <2>4. Ran(k)' = Ran(k) /\ \A r \in Ran(k) : running'[r] = running[r]
    BY <2>1, <2>2, StopRan
  <2> QED BY <2>1, <2>3, <2>4 DEF SameFor, Stored
<1>4. CASE Reuse(p) \/ DialAsset(p) \/ Install(p)
  <2>1. /\ pc[p] # "idle"
        /\ UNCHANGED <<dbVars, running, overlapped, conf, asset, rules>>
    BY <1>4 DEF Reuse, DialAsset, Install, runVars
  <2>2. PICK l \in {"start", "install"} : pc' = [pc EXCEPT ![p] = l]
    BY <1>4 DEF Reuse, DialAsset, Install, Goto
  <2>3. CallsSame
    BY <1>0, <2>1, <2>2 DEF Places
  <2> QED BY <2>1, <2>3, SameTables
<1>5. CASE DialFails(p)
  <2>1. pc[p] # "idle" /\ UNCHANGED <<dbVars, running, overlapped>> /\ Return(p)
    BY <1>5 DEF DialFails, runVars
  <2>2. CallsSame
    BY <1>0, <2>1, ReturnIs
  <2> QED BY <2>1, <2>2, SameTables
<1>6. ASSUME NEW r \in Rules, StartRule(p, r) PROVE SameFor(k)
  <2>1. PICK f \in BOOLEAN :
          running' = [running EXCEPT ![r] = [config |-> conf[p], asset |-> asset[p], failed |-> f]]
    BY <1>6 DEF StartRule
  <2>2. /\ pc[p] = "start" /\ running[r] = None
        /\ UNCHANGED <<config, ruleOf, overlapped>> /\ RuleStarted(p, r)
    BY <1>6, RuleJoins DEF StartRule, dbVars
  <2>3. CallsSame
    <3>1. CASE Return(p)
      BY <1>0, <2>2, <3>1, ReturnIs
    <3>2. CASE ~Return(p)
      <4>1. /\ pc' = [pc EXCEPT ![p] = "start"]
            /\ UNCHANGED <<conf, asset>>
            /\ \A q \in Procs \ {p} : rules'[q] = rules[q]
        BY <2>2, <3>2 DEF RuleStarted, TypeOK
      <4> QED BY <1>0, <2>2, <4>1 DEF Places
    <3> QED BY <3>1, <3>2
  <2>4. Ran(k)' = Ran(k) /\ \A s \in Ran(k) : running'[s] = running[s]
    <3>1. r \notin Ran(k)
      BY <2>2 DEF Ran
    <3>2. \A s \in Rules \ {r} : running'[s] = running[s]
      BY <2>1 DEF TypeOK
    <3>3. r \notin Ran(k)'
      BY <2>1 DEF Ran, TypeOK
    <3> QED BY <3>1, <3>2, <3>3 DEF Ran
  <2> QED BY <2>2, <2>3, <2>4 DEF SameFor, Stored
<1> QED BY <1>1, <1>2, <1>3, <1>4, <1>5, <1>6 DEF StartStep

\* The steps of an update or a deletion, for another configuration.
LEMMA OtherEdit ==
  ASSUME IInv, NEW p \in Procs, NEW k \in Configs, conf[p] # k, EditStep(p)
  PROVE  SameFor(k)
<1> USE DEF IInv
<1> DEFINE CallsSame == /\ Calls(k)' = Calls(k)
                        /\ \A q \in Calls(k) : pc'[q] = pc[q] /\ asset'[q] = asset[q] /\ rules'[q] = rules[q]
           Elsewhere == /\ config'[k] = config[k] /\ Stored(k)' = Stored(k)
                        /\ UNCHANGED <<running, overlapped>>
<1>0. ASSUME NEW l \in Places, pc[p] # "idle", pc' = [pc EXCEPT ![p] = l],
             conf' \in {conf, [conf EXCEPT ![p] = None]},
             \A q \in Procs \ {p} : asset'[q] = asset[q] /\ rules'[q] = rules[q]
      PROVE  CallsSame
  BY <1>0, OtherCalls
<1>1. ASSUME Return(p) \/ \E l \in {"stop", "save", "replace", "find", "deleteConfig"} :
                            Goto(p, l) /\ UNCHANGED <<conf, asset, rules>>,
             pc[p] # "idle"
      PROVE  CallsSame
  <2>1. CASE Return(p)
    BY <1>0, <1>1, <2>1, ReturnIs
  <2>2. CASE ~Return(p)
    <3>1. PICK l \in {"stop", "save", "replace", "find", "deleteConfig"} :
                 Goto(p, l) /\ UNCHANGED <<conf, asset, rules>>
      BY <1>1, <2>2
    <3> QED BY <1>0, <1>1, <3>1 DEF Goto, Places
  <2> QED BY <2>1, <2>2
<1>2. ASSUME CallsSame, Elsewhere PROVE SameFor(k)
  BY <1>2 DEF SameFor, Ran
<1>3. conf[p] \in Configs
  BY DEF EditStep, IsConfigRunning, StopConfig, UpdateConfig, ReplaceRules,
         DeleteRulesByConfigID, DeleteConfig, LocalsOK
<1>4. CASE IsConfigRunning(p)
  <2>1. CallsSame
    BY <1>1, <1>4 DEF IsConfigRunning
  <2>2. Elsewhere
    BY <1>4 DEF IsConfigRunning, Stored, dbVars, runVars
  <2> QED BY <1>2, <2>1, <2>2
<1>5. CASE StopConfig(p)
  <2>1. CallsSame
    BY <1>1, <1>5 DEF StopConfig
  <2>2. Ran(k)' = Ran(k) /\ \A r \in Ran(k) : running'[r] = running[r]
    BY <1>3, <1>5, StopRan DEF StopConfig
  <2> QED BY <1>5, <2>1, <2>2 DEF SameFor, Stored, StopConfig, dbVars
<1>6. CASE UpdateConfig(p)
  <2>1. CallsSame
    BY <1>1, <1>6 DEF UpdateConfig
  <2>2. Elsewhere
    BY <1>6 DEF UpdateConfig, Stored, runVars, TypeOK
  <2> QED BY <1>2, <2>1, <2>2
<1>7. CASE ReplaceRules(p)
  <2>1. CallsSame
    BY <1>1, <1>7 DEF ReplaceRules
  <2>2. k # "new" /\ k # "deleted"
    BY ForwardAssumption
  <2>3. Elsewhere
    <3>1. config' = config /\ UNCHANGED <<running, overlapped>>
      BY <1>7 DEF ReplaceRules, runVars
    <3>2. \A r \in Rules : ruleOf'[r] = k <=> ruleOf[r] = k
      <4>1. CASE \E new \in SUBSET {r \in Rules : ruleOf[r] = "new"} :
                   ruleOf' = [r \in Rules |-> IF r \in new THEN conf[p] ELSE WithoutRules(conf[p])[r]]
        BY <2>2, <4>1 DEF WithoutRules, Stored
      <4>2. CASE ruleOf' \in {ruleOf, WithoutRules(conf[p])}
        BY <2>2, <4>2 DEF WithoutRules, Stored
      <4> QED BY <1>7, <4>1, <4>2 DEF ReplaceRules
    <3> QED BY <3>1, <3>2 DEF Stored
  <2> QED BY <1>2, <2>1, <2>3
<1>8. CASE DeleteRulesByConfigID(p)
  <2>1. CallsSame
    BY <1>1, <1>8 DEF DeleteRulesByConfigID
  <2>2. k # "deleted"
    BY ForwardAssumption
  <2>3. Elsewhere
    <3>1. config' = config /\ UNCHANGED <<running, overlapped>>
      BY <1>8 DEF DeleteRulesByConfigID, runVars
    <3>2. \A r \in Rules : ruleOf'[r] = k <=> ruleOf[r] = k
      BY <1>8, <2>2 DEF DeleteRulesByConfigID, WithoutRules, Stored
    <3> QED BY <3>1, <3>2 DEF Stored
  <2> QED BY <1>2, <2>1, <2>3
<1>9. CASE DeleteConfig(p)
  <2>1. CallsSame
    BY <1>1, <1>9 DEF DeleteConfig
  <2>2. Elsewhere
    BY <1>9 DEF DeleteConfig, Stored, runVars, TypeOK
  <2> QED BY <1>2, <2>1, <2>2
<1> QED BY <1>4, <1>5, <1>6, <1>7, <1>8, <1>9 DEF EditStep
-----------------------------------------------------------------------------
(***************************************************************************)
(* A call's own configuration.                                             *)
(***************************************************************************)

\* The call that is under way finds a configuration that was created, and is alone
\* with it as long as no two have met.
LEMMA OwnCall ==
  ASSUME TypeOK, NEW p \in Procs, NEW k \in Configs, StoredFor(k), pc[p] # "idle", conf[p] = k
  PROVE  /\ config[k] # "new"
         /\ k \notin overlapped => CallOK(p, k) /\ Calls(k) = {p}
<1>1. p \in Calls(k)
  BY DEF Calls
<1> QED BY <1>1 DEF StoredFor

\* The call goes on.
LEMMA OwnMoves ==
  ASSUME TypeOK, NEW p \in Procs, NEW k \in Configs, StoredFor(k), pc[p] # "idle", conf[p] = k,
         NEW l \in Places \ {"idle"}, pc' = [pc EXCEPT ![p] = l],
         UNCHANGED <<conf, overlapped>>, config'[k] # "new",
         k \notin overlapped => CallOK(p, k)'
  PROVE  StoredFor(k)'
<1>1. k \notin overlapped => Calls(k) = {p}
  BY OwnCall
<1>2. p \in Calls(k)' /\ \A q \in Procs \ {p} : q \in Calls(k)' => q \in Calls(k)
  BY DEF Calls, TypeOK
<1>3. Calls(k)' \subseteq Procs
  BY DEF Calls
<1>4. k \notin overlapped => Calls(k)' = {p}
  BY <1>1, <1>2, <1>3
<1> QED BY <1>4 DEF StoredFor

\* The call ends, and leaves the configuration as stored.
LEMMA OwnEnds ==
  ASSUME TypeOK, NEW p \in Procs, NEW k \in Configs, StoredFor(k), pc[p] # "idle", conf[p] = k,
         Return(p), UNCHANGED overlapped, config'[k] # "new",
         k \notin overlapped => AsStored(k)'
  PROVE  StoredFor(k)'
<1>1. k \notin overlapped => Calls(k) = {p}
  BY OwnCall
<1>2. pc' = [pc EXCEPT ![p] = "idle"] /\ conf' = [conf EXCEPT ![p] = None]
  BY ReturnIs
<1>3. p \notin Calls(k)' /\ \A q \in Procs \ {p} : q \in Calls(k)' => q \in Calls(k)
  BY <1>2 DEF Calls, TypeOK
<1>4. Calls(k)' \subseteq Procs
  BY DEF Calls
<1>5. k \notin overlapped => Calls(k)' = {}
  BY <1>1, <1>3, <1>4
<1> QED BY <1>5 DEF StoredFor

\* The steps of a start, for the configuration that is started.
LEMMA OwnStart ==
  ASSUME IInv, NEW p \in Procs, NEW k \in Configs, StoredFor(k), conf[p] = k, StartStep(p)
  PROVE  StoredFor(k)'
<1> USE DEF IInv
<1>1. CASE FindConfig(p)
  <2>1. pc[p] = "find" /\ UNCHANGED <<config, ruleOf, running, overlapped>>
    BY <1>1 DEF FindConfig, dbVars, runVars
  <2>2. config[k] # "new" /\ (k \notin overlapped => CallOK(p, k))
    BY <2>1, OwnCall
  <2>3. AsStored(k) => AsStored(k)'
    BY <2>1 DEF AsStored, Ran, Stored
  <2>4. k \notin overlapped => AsStored(k)'
    BY <2>1, <2>2, <2>3 DEF CallOK
  <2>5. CASE Return(p)
    BY <2>1, <2>2, <2>4, <2>5, OwnEnds
  <2>6. CASE /\ asset' = [asset EXCEPT ![p] = config[k]]
             /\ Goto(p, "list")
             /\ UNCHANGED conf
    <3>1. pc' = [pc EXCEPT ![p] = "list"] /\ pc'[p] = "list" /\ asset'[p] = config'[k]
      BY <2>1, <2>6 DEF Goto, TypeOK
    <3>2. k \notin overlapped => CallOK(p, k)'
      BY <2>4, <3>1 DEF CallOK
    <3> QED BY <2>1, <2>2, <2>6, <3>1, <3>2, OwnMoves DEF Places
  <2> QED BY <1>1, <2>5, <2>6 DEF FindConfig
<1>2. CASE ListRulesByConfigID(p)
  <2>1. pc[p] = "list" /\ UNCHANGED <<config, ruleOf, running, overlapped>>
    BY <1>2 DEF ListRulesByConfigID, dbVars, runVars
  <2>2. config[k] # "new" /\ (k \notin overlapped => CallOK(p, k))
    BY <2>1, OwnCall
  <2>3. (AsStored(k) => AsStored(k)') /\ Stored(k)' = Stored(k)
    BY <2>1 DEF AsStored, Ran, Stored
  <2>4. k \notin overlapped => AsStored(k)' /\ asset[p] = config[k]
    BY <2>1, <2>2, <2>3 DEF CallOK
  <2>5. CASE Return(p)
    BY <2>1, <2>2, <2>4, <2>5, OwnEnds
  <2>6. CASE /\ rules' = [rules EXCEPT ![p] = Stored(k)]
             /\ Goto(p, "lock")
             /\ UNCHANGED <<conf, asset>>
    <3>1. pc' = [pc EXCEPT ![p] = "lock"] /\ pc'[p] = "lock" /\ rules'[p] = Stored(k)
      BY <2>1, <2>6 DEF Goto, TypeOK
    <3>2. k \notin overlapped => CallOK(p, k)'
      BY <2>1, <2>3, <2>4, <2>6, <3>1 DEF CallOK
    <3> QED BY <2>1, <2>2, <2>6, <3>1, <3>2, OwnMoves DEF Places
  <2> QED BY <1>2, <2>5, <2>6 DEF ListRulesByConfigID
<1>3. CASE Lock(p)
  <2>1. /\ pc[p] = "lock" /\ stopConfigLocked(k)
        /\ pc' = [pc EXCEPT ![p] = "dial"]
        /\ UNCHANGED <<config, ruleOf, conf, asset, rules, overlapped>>
    BY <1>3 DEF Lock, Goto, dbVars
  <2>2. config[k] # "new" /\ (k \notin overlapped => CallOK(p, k))
    BY <2>1, OwnCall
  <2>3. Ran(k)' = {} /\ pc'[p] = "dial" /\ Stored(k)' = Stored(k)
    BY <2>1, StopRan DEF TypeOK, Stored
  <2>4. k \notin overlapped => CallOK(p, k)'
    BY <2>1, <2>2, <2>3 DEF CallOK
  <2> QED BY <2>1, <2>2, <2>4, OwnMoves DEF Places
<1>4. CASE Reuse(p) \/ DialAsset(p) \/ Install(p)
  <2>1. /\ pc[p] \in {"dial", "install"}
        /\ UNCHANGED <<config, ruleOf, running, overlapped, conf, asset, rules>>
    BY <1>4 DEF Reuse, DialAsset, Install, runVars, dbVars
  <2>2. PICK l \in {"start", "install"} : pc' = [pc EXCEPT ![p] = l]
    BY <1>4 DEF Reuse, DialAsset, Install, Goto
  <2>3. config[k] # "new" /\ (k \notin overlapped => CallOK(p, k))
    BY <2>1, OwnCall
  <2>4. pc'[p] = l /\ Ran(k)' = Ran(k) /\ Stored(k)' = Stored(k)
    BY <2>1, <2>2 DEF TypeOK, Ran, Stored
  <2>5. k \notin overlapped => CallOK(p, k)'
    BY <2>1, <2>3, <2>4 DEF CallOK
  <2> QED BY <2>1, <2>2, <2>3, <2>5, OwnMoves DEF Places
<1>5. CASE DialFails(p)
  <2>1. pc[p] = "dial" /\ UNCHANGED <<config, ruleOf, running, overlapped>> /\ Return(p)
    BY <1>5 DEF DialFails, runVars, dbVars
  <2>2. config[k] # "new" /\ (k \notin overlapped => CallOK(p, k))
    BY <2>1, OwnCall
  <2>3. Ran(k)' = Ran(k)
    BY <2>1 DEF Ran
  <2>4. k \notin overlapped => AsStored(k)'
    BY <2>1, <2>2, <2>3 DEF CallOK, AsStored
  <2> QED BY <2>1, <2>2, <2>4, OwnEnds
<1>6. ASSUME NEW r \in Rules, StartRule(p, r) PROVE StoredFor(k)'
  <2>1. PICK f \in BOOLEAN :
          running' = [running EXCEPT ![r] = [config |-> k, asset |-> asset[p], failed |-> f]]
    BY <1>6 DEF StartRule
  <2>2. /\ pc[p] = "start" /\ r \in rules[p]
        /\ running[r] = None /\ [config |-> k, asset |-> asset[p], failed |-> f] # None
        /\ UNCHANGED <<config, ruleOf, overlapped>> /\ RuleStarted(p, r)
    BY <1>6, RuleJoins DEF StartRule, dbVars
  <2>3. config[k] # "new" /\ (k \notin overlapped => CallOK(p, k))
    BY <2>2, OwnCall
  <2>4. running'[r] # None /\ running'[r].config = k /\ running'[r].asset = asset[p]
    BY <2>1, <2>2 DEF TypeOK
  <2>5. \A s \in Rules \ {r} : running'[s] = running[s]
    BY <2>1 DEF TypeOK
  <2>6. Ran(k)' = Ran(k) \cup {r}
    BY <2>4, <2>5 DEF Ran
  <2>7. Stored(k)' = Stored(k)
    BY <2>2 DEF Stored
  <2>8. k \notin overlapped => /\ rules[p] \subseteq Stored(k) /\ Ran(k) = Stored(k) \ rules[p]
                               /\ \A s \in Ran(k)' : running'[s].asset = config'[k]
    <3>1. Ran(k) \subseteq Rules \ {r}
      BY <2>2 DEF Ran
    <3> QED BY <2>2, <2>3, <2>4, <2>5, <2>6, <3>1 DEF CallOK
  <2>9. CASE rules[p] = {r}
    <3>1. k \notin overlapped => AsStored(k)'
      BY <2>6, <2>7, <2>8, <2>9 DEF AsStored
    <3> QED BY <2>2, <2>3, <2>9, <3>1, OwnEnds DEF RuleStarted
  <2>10. CASE rules[p] # {r}
    <3>1. rules' = [rules EXCEPT ![p] = @ \ {r}] /\ UNCHANGED <<pc, conf, asset>>
      BY <2>2, <2>10 DEF RuleStarted
    <3>2. rules'[p] = rules[p] \ {r} /\ pc' = [pc EXCEPT ![p] = "start"]
      BY <2>2, <3>1 DEF TypeOK
    <3>3. k \notin overlapped => CallOK(p, k)'
      BY <2>2, <2>3, <2>6, <2>7, <2>8, <3>1, <3>2 DEF CallOK
    <3> QED BY <2>2, <2>3, <3>1, <3>2, <3>3, OwnMoves DEF Places
  <2> QED BY <2>9, <2>10
<1> QED BY <1>1, <1>2, <1>3, <1>4, <1>5, <1>6 DEF StartStep

\* The steps of an update or a deletion, for the configuration they are about.
LEMMA OwnEdit ==
  ASSUME IInv, NEW p \in Procs, NEW k \in Configs, StoredFor(k), conf[p] = k, EditStep(p)
  PROVE  StoredFor(k)'
<1> USE DEF IInv
<1>1. CASE IsConfigRunning(p)
  <2>1. /\ pc[p] = "isRunning"
        /\ pc' = [pc EXCEPT ![p] = IF Ran(k) # {} THEN "stop" ELSE "save"]
        /\ UNCHANGED <<config, ruleOf, running, overlapped, conf>>
    BY <1>1 DEF IsConfigRunning, Goto, dbVars, runVars
  <2>2. config[k] # "new" /\ (k \notin overlapped => CallOK(p, k))
    BY <2>1, OwnCall
  <2>3. (AsStored(k) => AsStored(k)') /\ Ran(k)' = Ran(k)
    BY <2>1 DEF AsStored, Ran, Stored
  <2>4. CASE Ran(k) # {}
    <3>1. pc' = [pc EXCEPT ![p] = "stop"] /\ pc'[p] = "stop"
      BY <2>1, <2>4 DEF TypeOK
    <3>2. k \notin overlapped => CallOK(p, k)'
      BY <2>1, <2>2, <2>3, <3>1 DEF CallOK
    <3> QED BY <2>1, <2>2, <3>1, <3>2, OwnMoves DEF Places
  <2>5. CASE Ran(k) = {}
    <3>1. pc' = [pc EXCEPT ![p] = "save"] /\ pc'[p] = "save"
      BY <2>1, <2>5 DEF TypeOK
    <3>2. k \notin overlapped => CallOK(p, k)'
      BY <2>3, <2>5, <3>1 DEF CallOK
    <3> QED BY <2>1, <2>2, <3>1, <3>2, OwnMoves DEF Places
  <2> QED BY <2>4, <2>5
<1>2. CASE StopConfig(p)
  <2>1. /\ pc[p] = "stop" /\ stopConfigLocked(k) /\ pc' = [pc EXCEPT ![p] = "save"]
        /\ UNCHANGED <<config, conf, overlapped>>
    BY <1>2 DEF StopConfig, Goto, dbVars
  <2>2. Ran(k)' = {} /\ pc'[p] = "save" /\ config[k] # "new"
    BY <2>1, StopRan, OwnCall DEF TypeOK
  <2>3. CallOK(p, k)'
    BY <2>2 DEF CallOK
  <2> QED BY <2>1, <2>2, <2>3, OwnMoves DEF Places
<1>3. ASSUME pc[p] \in {"save", "replace", "deleteRules", "deleteConfig"},
             UNCHANGED <<running, overlapped>>, config'[k] # "new",
             \/ Return(p)
             \/ \E l \in {"find", "replace", "deleteConfig"} : Goto(p, l) /\ UNCHANGED conf
      PROVE  StoredFor(k)'
  <2>1. k \notin overlapped => Ran(k)' = {}
    BY <1>3, OwnCall DEF CallOK, Ran
  <2>2. k \notin overlapped => AsStored(k)'
    BY <2>1 DEF AsStored
  <2>3. CASE Return(p)
    BY <1>3, <2>2, <2>3, OwnEnds
  <2>4. ASSUME NEW l \in {"find", "replace", "deleteConfig"}, Goto(p, l), UNCHANGED conf
        PROVE  StoredFor(k)'
    <3>1. pc' = [pc EXCEPT ![p] = l] /\ pc'[p] = l
      BY <2>4 DEF Goto, TypeOK
    <3>2. k \notin overlapped => CallOK(p, k)'
      BY <2>1, <2>2, <3>1 DEF CallOK
    <3> QED BY <1>3, <2>4, <3>1, <3>2, OwnMoves DEF Places
  <2> QED BY <1>3, <2>3, <2>4
<1>4. CASE UpdateConfig(p)
  <2>1. pc[p] = "save" /\ UNCHANGED <<running, overlapped>> /\ asset[p] \in Assets
    BY <1>4 DEF UpdateConfig, runVars, LocalsOK
  <2>2. config[k] # "new"
    BY <2>1, OwnCall
  <2>3. config'[k] # "new"
    BY <1>4, <2>1, <2>2, ForwardAssumption DEF UpdateConfig, TypeOK
  <2> QED BY <1>3, <1>4, <2>1, <2>3 DEF UpdateConfig
<1>5. CASE ReplaceRules(p)
  <2>1. pc[p] = "replace" /\ UNCHANGED <<config, running, overlapped>>
    BY <1>5 DEF ReplaceRules, runVars
  <2>2. config[k] # "new"
    BY <2>1, OwnCall
  <2>3. \/ Return(p)
        \/ Goto(p, "find") /\ UNCHANGED conf
    BY <1>5 DEF ReplaceRules
  <2> QED BY <1>3, <2>1, <2>2, <2>3
<1>6. CASE DeleteRulesByConfigID(p)
  <2>1. pc[p] = "deleteRules" /\ UNCHANGED <<config, running, overlapped>>
    BY <1>6 DEF DeleteRulesByConfigID, runVars
  <2>2. config[k] # "new"
    BY <2>1, OwnCall
  <2> QED BY <1>3, <1>6, <2>1, <2>2 DEF DeleteRulesByConfigID
<1>7. CASE DeleteConfig(p)
  <2>1. pc[p] = "deleteConfig" /\ UNCHANGED <<running, overlapped>> /\ Return(p)
    BY <1>7 DEF DeleteConfig, runVars
  <2>2. config[k] # "new"
    BY <2>1, OwnCall
  <2>3. config'[k] # "new"
    BY <1>7, <2>2 DEF DeleteConfig, TypeOK
  <2> QED BY <1>3, <2>1, <2>3
<1> QED BY <1>1, <1>2, <1>4, <1>5, <1>6, <1>7 DEF EditStep
-----------------------------------------------------------------------------
(***************************************************************************)
(* Calls that begin, and stops.                                            *)
(***************************************************************************)

\* A call begins: it has met another, or finds what is stored.
LEMMA BeginKeeps ==
  ASSUME IInv, StoredInv, NEW p \in Procs, NEW k \in Configs, NEW l \in Places \ {"idle"},
         Begin(p, k, l), UNCHANGED <<ruleOf, rules>>,
         config'[k] # "new", \A j \in Configs \ {k} : config'[j] = config[j],
         \A q \in Procs \ {p} : asset'[q] = asset[q],
         \A j \in Configs \ {k} : Ran(j)' = Ran(j) /\ \A r \in Ran(j) : running'[r] = running[r],
         AsStored(k) => CallOK(p, k)'
  PROVE  StoredInv'
<1> USE DEF IInv
<1>1. /\ pc[p] = "idle" /\ pc' = [pc EXCEPT ![p] = l] /\ conf' = [conf EXCEPT ![p] = k]
      /\ overlapped' = IF Calls(k) # {} THEN overlapped \cup {k} ELSE overlapped
  BY DEF Begin, Goto
<1>2. /\ pc'[p] = l /\ conf'[p] = k
      /\ \A q \in Procs \ {p} : pc'[q] = pc[q] /\ conf'[q] = conf[q]
  BY <1>1 DEF TypeOK
<1>3. \A j \in Configs : Calls(j) \subseteq Procs \ {p} /\ Calls(j)' \subseteq Procs
  BY <1>1 DEF Calls
<1>4. Calls(k)' = Calls(k) \cup {p}
  BY <1>2, <1>3 DEF Calls
<1>5. ASSUME NEW j \in Configs \ {k} PROVE StoredFor(j)'
  <2>1. Calls(j)' = Calls(j)
    BY <1>2, <1>3 DEF Calls
  <2>2. SameFor(j)
    BY <1>1, <1>2, <1>3, <2>1 DEF SameFor, Stored
  <2> QED BY <2>2, FrameKeeps DEF StoredInv
<1>6. StoredFor(k)'
  <2> SUFFICES ASSUME k \notin overlapped' PROVE Calls(k)' = {p} /\ CallOK(p, k)'
    BY <1>4 DEF StoredFor
  <2>1. k \notin overlapped /\ Calls(k) = {}
    BY <1>1
  <2>2. AsStored(k)
    BY <2>1 DEF StoredInv, StoredFor
  <2> QED BY <1>4, <2>1, <2>2
<1> QED BY <1>5, <1>6 DEF StoredInv

\* A call of the page begins.
LEMMA BeginStored ==
  ASSUME IInv, StoredInv, NEW p \in Procs, BeginCall(p)
  PROVE  StoredInv'
<1> USE DEF IInv
<1>0. ASSUME UNCHANGED running, NEW j PROVE Ran(j)' = Ran(j) /\ \A r \in Ran(j) : running'[r] = running[r]
  BY <1>0 DEF Ran
<1>1. ASSUME NEW k \in Configs, StartForwardConfig(p, k) PROVE StoredInv'
  <2>1. /\ Begin(p, k, "find") /\ config[k] # "new"
        /\ UNCHANGED <<config, ruleOf, running, asset, rules>>
    BY <1>1 DEF StartForwardConfig, dbVars, runVars
  <2>2. pc'[p] = "find"
    BY <2>1 DEF Begin, Goto, TypeOK
  <2>3. AsStored(k) => CallOK(p, k)'
    BY <2>1, <2>2 DEF CallOK, AsStored, Ran, Stored
  <2> QED BY <1>0, <2>1, <2>3, BeginKeeps DEF Places
<1>2. ASSUME NEW k \in Configs, NEW a \in Assets, CreateForwardConfig(p, k, a) PROVE StoredInv'
  <2>1. /\ Begin(p, k, "replace") /\ config[k] = "new"
        /\ config' = [config EXCEPT ![k] = a]
        /\ UNCHANGED <<ruleOf, running, asset, rules>>
    BY <1>2 DEF CreateForwardConfig, runVars
  <2>2. pc'[p] = "replace" /\ config'[k] = a /\ \A j \in Configs \ {k} : config'[j] = config[j]
    BY <2>1 DEF Begin, Goto, TypeOK
  <2>3. a # "new"
    BY ForwardAssumption
  <2>4. Ran(k)' = {}
    BY <1>0, <2>1 DEF StoredInv, StoredFor
  <2>5. CallOK(p, k)'
    BY <2>2, <2>4 DEF CallOK
  <2> QED BY <1>0, <2>1, <2>2, <2>3, <2>5, BeginKeeps DEF Places
<1>3. ASSUME NEW k \in Configs, NEW a \in Assets, UpdateForwardConfig(p, k, a) PROVE StoredInv'
  <2>1. /\ Begin(p, k, "isRunning") /\ config[k] \in Assets
        /\ asset' = [asset EXCEPT ![p] = a]
        /\ UNCHANGED <<config, ruleOf, running, rules>>
    BY <1>3 DEF UpdateForwardConfig, dbVars, runVars
  <2>2. pc'[p] = "isRunning" /\ \A q \in Procs \ {p} : asset'[q] = asset[q]
    BY <2>1 DEF Begin, Goto, TypeOK
  <2>3. config[k] # "new"
    BY <2>1, ForwardAssumption
  <2>4. AsStored(k) => CallOK(p, k)'
    BY <2>1, <2>2 DEF CallOK, AsStored, Ran, Stored
  <2> QED BY <1>0, <2>1, <2>2, <2>3, <2>4, BeginKeeps DEF Places
<1>4. ASSUME NEW k \in Configs, DeleteForwardConfig(p, k) PROVE StoredInv'
  <2>1. /\ Begin(p, k, "deleteRules") /\ config[k] # "new" /\ stopConfigLocked(k)
        /\ UNCHANGED <<config, ruleOf, asset, rules>>
    BY <1>4 DEF DeleteForwardConfig, dbVars
  <2>2. pc'[p] = "deleteRules"
    BY <2>1 DEF Begin, Goto, TypeOK
  <2>3. /\ Ran(k)' = {}
        /\ \A j \in Configs \ {k} : Ran(j)' = Ran(j) /\ \A r \in Ran(j) : running'[r] = running[r]
    BY <2>1, StopRan
  <2>4. CallOK(p, k)'
    BY <2>2, <2>3 DEF CallOK
  <2> QED BY <2>1, <2>3, <2>4, BeginKeeps DEF Places
<1> QED BY <1>1, <1>2, <1>3, <1>4 DEF BeginCall, BeginEdit

\* A configuration is stopped from outside while no call works on the clients: the
\* calls for it, and the calls after them, find it stopped.
LEMMA StoppedKeeps ==
  ASSUME IInv, NEW k \in Configs, StoredFor(k), mu = None, Ran(k)' = {},
         UNCHANGED <<config, ruleOf, pc, conf, asset, rules>>,
         k \notin overlapped' => k \notin overlapped \/ Calls(k) = {}
  PROVE  StoredFor(k)'
<1>1. Calls(k)' = Calls(k) /\ Stored(k)' = Stored(k) /\ AsStored(k)'
  BY DEF Calls, Stored, AsStored
<1>2. ASSUME NEW p \in Calls(k), CallOK(p, k) PROVE CallOK(p, k)'
  <2>1. pc[p] \notin {"dial", "install", "start"}
    BY FreeMutex DEF Calls
  <2> QED BY <1>1, <1>2, <2>1 DEF CallOK
<1> QED BY <1>1, <1>2 DEF StoredFor

\* StopForwardConfig and StopAll.
LEMMA StopStored ==
  ASSUME IInv, StoredInv, StopAll \/ \E k \in Configs : StopForwardConfig(k)
  PROVE  StoredInv'
<1> SUFFICES ASSUME NEW j \in Configs PROVE StoredFor(j)'
  BY DEF StoredInv
<1>0. StoredFor(j)
  BY DEF StoredInv
<1>1. CASE StopAll
  <2>1. /\ mu = None /\ running' = [r \in Rules |-> None]
        /\ UNCHANGED <<config, ruleOf, pc, conf, asset, rules, overlapped>>
    BY <1>1 DEF StopAll, dbVars, callVars
  <2>2. Ran(j)' = {}
    BY <2>1 DEF Ran
  <2> QED BY <1>0, <2>1, <2>2, StoppedKeeps
<1>2. ASSUME NEW k \in Configs, StopForwardConfig(k) PROVE StoredFor(j)'
  <2>1. /\ mu = None /\ stopConfigLocked(k)
        /\ overlapped' = IF Calls(k) = {} THEN overlapped \ {k} ELSE overlapped
        /\ UNCHANGED <<config, ruleOf, pc, conf, asset, rules>>
    BY <1>2 DEF StopForwardConfig, dbVars, callVars
  <2>2. CASE j = k
    <3>1. Ran(j)' = {}
      BY <2>1, <2>2, StopRan
    <3>2. j \notin overlapped' => j \notin overlapped \/ Calls(j) = {}
      BY <2>1, <2>2
    <3> QED BY <1>0, <2>1, <3>1, <3>2, StoppedKeeps
  <2>3. CASE j # k
    <3>1. Ran(j)' = Ran(j) /\ \A r \in Ran(j) : running'[r] = running[r]
      BY <2>1, <2>3, StopRan
    <3>2. SameFor(j)
      BY <2>1, <2>3, <3>1 DEF SameFor, Stored, Calls
    <3> QED BY <1>0, <3>2, FrameKeeps
  <2> QED BY <2>2, <2>3
<1> QED BY <1>1, <1>2

-----------------------------------------------------------------------------
(***************************************************************************)
(* The theorem.                                                            *)
(***************************************************************************)

\* Nothing is stored and nothing runs at the start.
LEMMA InitStored == Init => StoredInv
<1> SUFFICES ASSUME Init, NEW k \in Configs PROVE StoredFor(k)
  BY DEF StoredInv
<1>1. Stored(k) = {}
  <2>1. k # "new"
    BY ForwardAssumption
  <2> QED BY <2>1 DEF Init, Stored
<1>2. Ran(k) = {} /\ Calls(k) = {}
  BY DEF Init, Ran, Calls
<1> QED BY <1>1, <1>2 DEF StoredFor, AsStored

\* Every step keeps it.
LEMMA StepStored ==
  ASSUME IInv, StoredInv, [Next]_vars
  PROVE  StoredInv'
<1>1. ASSUME NEW p \in Procs, StartStep(p) \/ EditStep(p) PROVE StoredInv'
  <2> SUFFICES ASSUME NEW k \in Configs PROVE StoredFor(k)'
    BY DEF StoredInv
  <2>1. StoredFor(k)
    BY DEF StoredInv
  <2>2. CASE conf[p] = k
    BY <1>1, <2>1, <2>2, OwnStart, OwnEdit
  <2>3. CASE conf[p] # k
    <3>1. SameFor(k)
      BY <1>1, <2>3, OtherStart, OtherEdit
    <3> QED BY <2>1, <3>1, FrameKeeps
  <2> QED BY <2>2, <2>3
<1>2. ASSUME UNCHANGED <<config, ruleOf, running, pc, conf, asset, rules, overlapped>>
      PROVE  StoredInv'
  <2> SUFFICES ASSUME NEW k \in Configs PROVE StoredFor(k)'
    BY DEF StoredInv
  <2>1. SameFor(k)
    BY <1>2 DEF SameFor, Stored, Ran, Calls
  <2> QED BY <2>1, FrameKeeps DEF StoredInv
<1>3. CASE UNCHANGED vars
  BY <1>2, <1>3 DEF vars, dbVars, runVars, callVars
<1>4. ASSUME NEW l \in Listeners, CloseListener(l) PROVE StoredInv'
  BY <1>2, <1>4 DEF CloseListener, dbVars, callVars
<1>5. ASSUME NEW c \in Clients, Drop(c) PROVE StoredInv'
  BY <1>2, <1>5 DEF Drop, dbVars, callVars
<1>6. ASSUME NEW p \in Procs, BeginCall(p) PROVE StoredInv'
  BY <1>6, BeginStored
<1>7. CASE StopAll \/ \E k \in Configs : StopForwardConfig(k)
  BY <1>7, StopStored
<1> QED BY <1>1, <1>3, <1>4, <1>5, <1>6, <1>7, Zenon DEF Next

\* A configuration for which no call is under way, and no two calls have met since
\* it was last stopped, runs the rules that are stored for it on the asset that is
\* stored, or nothing: an update, a deletion and a start leave each other no
\* half-applied state.
THEOREM RunsStored == Spec => []RunsWhatIsStored
<1>1. Init => IInv /\ StoredInv
  BY InitOK, InitStored
<1>2. IInv /\ StoredInv /\ [Next]_vars => IInv' /\ StoredInv'
  BY StepOK, StepStored
<1>3. StoredInv => RunsWhatIsStored
  BY DEF StoredInv, StoredFor, RunsWhatIsStored
<1> QED BY <1>1, <1>2, <1>3, PTL DEF Spec
=============================================================================
