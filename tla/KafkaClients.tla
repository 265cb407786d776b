---------------------------- MODULE KafkaClients ----------------------------
(***************************************************************************)
(* KafkaClientManager (internal/connpool/kafka.go): Kafka clients shared   *)
(* by the requests of the UI and of the AI tools, counted per entry.  An   *)
(* entry that is evicted while it is borrowed is marked closing, and the   *)
(* last borrower closes it.                                                *)
(*                                                                         *)
(* A key is an asset with a fingerprint of its configuration.  Every       *)
(* critical section of m.mu is one action, except that the eviction loop   *)
(* after an insertion is a step of its own with the mutex kept (mu).       *)
(***************************************************************************)
EXTENDS Naturals, FiniteSets

CONSTANTS Keys, Assets, assetOf,  \* map keys, and the asset of each
          Procs,    \* goroutines that call Acquire, CloseAsset or Close
          Clients,  \* clients a run may dial
          Max,      \* m.max
          None

ASSUME KafkaAssumption == /\ assetOf \in [Keys -> Assets]
                          /\ Max \in Nat
                          /\ IsFiniteSet(Procs) /\ IsFiniteSet(Keys)
                          /\ None \notin Keys \cup Procs \cup Clients

VARIABLES
  clients,  \* m.clients: [Keys -> Clients \cup {None}]
  life,     \* "fresh" before the dial, "open", then "closed"
  refs,     \* entry.refs
  closing,  \* entry.closing
  stale,    \* now.Sub(entry.lastUsed) > m.ttl
  mu,       \* who keeps m.mu across steps, or None
  pc, want, conn, dup,  \* a goroutine's place, key, client and duplicate dial
  toClose   \* what its CloseAsset or Close took out unborrowed and has to close

connVars == <<life, refs, closing, stale>>
procVars == <<pc, want, conn, dup, toClose>>
vars == <<clients, connVars, mu, procVars>>

TypeOK ==
  /\ clients \in [Keys -> Clients \cup {None}]
  /\ life \in [Clients -> {"fresh", "open", "closed"}]
  /\ refs \in [Clients -> Nat]
  /\ closing \in [Clients -> BOOLEAN]
  /\ stale \in [Clients -> BOOLEAN]
  /\ mu \in Procs \cup {None}
  /\ pc \in [Procs -> {"idle", "dial", "insert", "evict", "discard", "using", "close", "closeAll"}]
  /\ want \in [Procs -> Keys \cup {None}]
  /\ conn \in [Procs -> Clients \cup {None}]
  /\ dup \in [Procs -> Clients \cup {None}]
  /\ toClose \in [Procs -> SUBSET Clients]

Init ==
  /\ clients = [k \in Keys |-> None]
  /\ life = [c \in Clients |-> "fresh"]
  /\ refs = [c \in Clients |-> 0]
  /\ closing = [c \in Clients |-> FALSE]
  /\ stale = [c \in Clients |-> FALSE]
  /\ mu = None
  /\ pc = [p \in Procs |-> "idle"]
  /\ want = [p \in Procs |-> None]
  /\ conn = [p \in Procs |-> None]
  /\ dup = [p \in Procs |-> None]
  /\ toClose = [p \in Procs |-> {}]

Goto(p, l) == pc' = [pc EXCEPT ![p] = l]
Mapped == {k \in Keys : clients[k] # None}
Under(keys) == {clients[k] : k \in keys \cap Mapped}
Unborrowed(keys) == {c \in Under(keys) : refs[c] = 0}

\* Entries leave the map and are marked.
TakeOut(keys) ==
  /\ clients' = [k \in Keys |-> IF k \in keys THEN None ELSE clients[k]]
  /\ closing' = [c \in Clients |-> closing[c] \/ c \in Under(keys)]

Shut(cs) == life' = [c \in Clients |-> IF c \in cs THEN "closed" ELSE life[c]]

Borrow(p, c) ==
  /\ refs' = [refs EXCEPT ![c] = @ + 1]
  /\ stale' = [stale EXCEPT ![c] = FALSE]
  /\ conn' = [conn EXCEPT ![p] = c]

-----------------------------------------------------------------------------
(* Acquire *)

\* closeStaleLocked: entries past their time to live, and those of the asset
\* under another configuration, leave the map; the unborrowed ones are closed.
Outdated(k) == {j \in Mapped : stale[clients[j]] \/ (assetOf[j] = assetOf[k] /\ j # k)}

Acquire(p, k) ==
  /\ pc[p] = "idle" /\ mu = None
  /\ want' = [want EXCEPT ![p] = k]
  /\ TakeOut(Outdated(k))
  /\ Shut(Unborrowed(Outdated(k)))
  /\ IF k \in Mapped \ Outdated(k)
       THEN Borrow(p, clients[k]) /\ Goto(p, "using")
       ELSE Goto(p, "dial") /\ UNCHANGED <<refs, stale, conn>>
  /\ UNCHANGED <<mu, dup, toClose>>

\* The dial runs without the mutex; a client that does not answer the ping is
\* closed by DialKafka.
DialOk(p) ==
  /\ pc[p] = "dial"
  /\ \E c \in Clients : /\ life[c] = "fresh"
                        /\ life' = [life EXCEPT ![c] = "open"]
                        /\ conn' = [conn EXCEPT ![p] = c]
  /\ Goto(p, "insert")
  /\ UNCHANGED <<clients, refs, closing, stale, mu, want, dup, toClose>>

DialFails(p) ==
  /\ pc[p] = "dial"
  /\ Goto(p, "idle")
  /\ UNCHANGED <<clients, connVars, mu, want, conn, dup, toClose>>

\* Mutant: the entry another goroutine inserted is overwritten.
InsertUnchecked(p) ==
  /\ pc[p] = "insert" /\ mu = None
  /\ clients' = [clients EXCEPT ![want[p]] = conn[p]]
  /\ Borrow(p, conn[p])
  /\ mu' = p /\ Goto(p, "evict")
  /\ UNCHANGED <<life, closing, want, dup, toClose>>

Insert(p) ==
  /\ pc[p] = "insert" /\ mu = None
  /\ IF clients[want[p]] # None
       THEN /\ Borrow(p, clients[want[p]])
            /\ dup' = [dup EXCEPT ![p] = conn[p]]
            /\ Goto(p, "discard")
            /\ UNCHANGED <<clients, mu>>
       ELSE /\ clients' = [clients EXCEPT ![want[p]] = conn[p]]
            /\ Borrow(p, conn[p])
            /\ mu' = p
            /\ Goto(p, "evict")
            /\ UNCHANGED dup
  /\ UNCHANGED <<life, closing, want, toClose>>

\* Mutant: eviction closes the client whoever borrows it.
EvictBorrowed(p) ==
  /\ pc[p] = "evict" /\ Cardinality(Mapped) > Max
  /\ \E k \in Mapped : TakeOut({k}) /\ Shut(Under({k}))
  /\ UNCHANGED <<refs, stale, mu, procVars>>

\* evictOverflowLocked.  The oldest entry may be any of them, the new one too:
\* its stamp was taken before its dial.
Evict(p) ==
  /\ pc[p] = "evict" /\ Cardinality(Mapped) > Max
  /\ \E k \in Mapped : TakeOut({k}) /\ Shut(Unborrowed({k}))
  /\ UNCHANGED <<refs, stale, mu, procVars>>

\* Mutant: the loop stops one too early.
EvictedAtOnce(p) ==
  /\ pc[p] = "evict"
  /\ mu' = None
  /\ Goto(p, "using")
  /\ UNCHANGED <<clients, connVars, want, conn, dup, toClose>>

Evicted(p) ==
  /\ pc[p] = "evict" /\ Cardinality(Mapped) <= Max
  /\ mu' = None
  /\ Goto(p, "using")
  /\ UNCHANGED <<clients, connVars, want, conn, dup, toClose>>

\* Mutant: the duplicate stays open.
DiscardNothing(p) ==
  /\ pc[p] = "discard"
  /\ Goto(p, "using")
  /\ UNCHANGED <<clients, connVars, mu, want, conn, dup, toClose>>

Discard(p) ==
  /\ pc[p] = "discard"
  /\ Shut({dup[p]})
  /\ Goto(p, "using")
  /\ UNCHANGED <<clients, refs, closing, stale, mu, want, conn, dup, toClose>>

-----------------------------------------------------------------------------
(* The release function, CloseAsset and Close *)

Release(p) ==
  /\ pc[p] = "using" /\ mu = None
  /\ refs' = [refs EXCEPT ![conn[p]] = @ - 1]
  /\ Goto(p, IF closing[conn[p]] /\ refs[conn[p]] = 1 THEN "close" ELSE "idle")
  /\ UNCHANGED <<clients, life, closing, stale, mu, want, conn, dup, toClose>>

\* The last borrower of an evicted client closes it, without the mutex.
Close(p) ==
  /\ pc[p] = "close"
  /\ Shut({conn[p]})
  /\ Goto(p, "idle")
  /\ UNCHANGED <<clients, refs, closing, stale, mu, want, conn, dup, toClose>>

CloseKeys(p, keys) ==
  /\ pc[p] = "idle" /\ mu = None
  /\ TakeOut(keys)
  /\ toClose' = [toClose EXCEPT ![p] = Unborrowed(keys)]
  /\ Goto(p, "closeAll")
  /\ UNCHANGED <<life, refs, stale, mu, want, conn, dup>>

CloseAsset(p, a) == CloseKeys(p, {k \in Keys : assetOf[k] = a})
CloseManager(p) == CloseKeys(p, Keys)

\* Mutant: the loop over the entries does not advance.
CloseNextAgain(p) ==
  /\ pc[p] = "closeAll"
  /\ \E c \in toClose[p] : Shut({c})
  /\ UNCHANGED <<clients, refs, closing, stale, mu, procVars>>

CloseNext(p) ==
  /\ pc[p] = "closeAll"
  /\ \E c \in toClose[p] : /\ Shut({c})
                           /\ toClose' = [toClose EXCEPT ![p] = @ \ {c}]
  /\ UNCHANGED <<clients, refs, closing, stale, mu, pc, want, conn, dup>>

CloseDone(p) ==
  /\ pc[p] = "closeAll" /\ toClose[p] = {}
  /\ Goto(p, "idle")
  /\ UNCHANGED <<clients, connVars, mu, want, conn, dup, toClose>>

\* m.ttl passes without the entry being acquired.
Expire(c) ==
  /\ life[c] = "open" /\ ~stale[c]
  /\ stale' = [stale EXCEPT ![c] = TRUE]
  /\ UNCHANGED <<clients, life, refs, closing, mu, procVars>>

-----------------------------------------------------------------------------
AcquireStep(p) == DialOk(p) \/ DialFails(p) \/ Insert(p) \/ Evict(p) \/ Evicted(p) \/ Discard(p)
EndStep(p) == Release(p) \/ Close(p) \/ CloseNext(p) \/ CloseDone(p)
Begin(p) == (\E k \in Keys : Acquire(p, k)) \/ (\E a \in Assets : CloseAsset(p, a)) \/ CloseManager(p)

Next == \/ \E p \in Procs : Begin(p) \/ AcquireStep(p) \/ EndStep(p)
        \/ \E c \in Clients : Expire(c)

\* Goroutines run, sync.Mutex is handed over, dials and requests end by their
\* timeouts (withClient).  Nobody has to call.
Fairness == \A p \in Procs : SF_vars(AcquireStep(p) \/ EndStep(p))

Spec == Init /\ [][Next]_vars /\ Fairness

-----------------------------------------------------------------------------
(* What the manager is relied on for *)

\* p is counted in refs[c].
Borrows(p, c) == pc[p] \in {"evict", "discard", "using"} /\ conn[p] = c
Borrowers(c) == {p \in Procs : Borrows(p, c)}

\* p has a client of its own to install or to close.
Owes(p, c) == \/ pc[p] \in {"insert", "close"} /\ conn[p] = c
              \/ pc[p] = "discard" /\ dup[p] = c
              \/ c \in toClose[p]

\* A request never works with a closed client, whatever is evicted, closed with
\* its asset or replaced by a new configuration meanwhile.
BorrowedOpen == \A p \in Procs, c \in Clients : Borrows(p, c) => life[c] = "open"

\* refs counts the borrowers exactly, before and after the eviction.
RefsExact == \A c \in Clients : refs[c] = Cardinality(Borrowers(c))

\* An open client is in the map, borrowed and marked closing, or owed a close:
\* nothing is left open for nobody.
NothingLost ==
  \A c \in Clients : life[c] = "open" =>
    \/ \E k \in Keys : clients[k] = c
    \/ closing[c] /\ refs[c] > 0
    \/ \E p \in Procs : Owes(p, c)

\* The map outgrows its limit only while an insertion keeps the mutex.
Bounded == Cardinality(Mapped) <= (IF mu = None THEN Max ELSE Max + 1)

\* Acquire, the release and both closes return.
CallsReturn == \A p \in Procs : pc[p] # "idle" ~> pc[p] = "idle"

\* The life ConnSlots gives a client.
Stage == [c \in Clients |->
            IF life[c] # "open" THEN life[c]
            ELSE IF \E k \in Keys : clients[k] = c THEN "shared"
            ELSE IF \E p \in Procs : Owes(p, c) /\ ~closing[c] THEN "private"
            ELSE "retired"]

\* The manager implements the cache contract, reclaiming included.
Slots == INSTANCE ConnSlots WITH Conns <- Clients, slot <- clients, stage <- Stage
SlotsSafety == Slots!Safety
SlotsReclaimed == Slots!Reclaimed

-----------------------------------------------------------------------------
(* The inductive invariant *)

\* Where a goroutine stands tells which of its locals are set.
LocalsOK ==
  \A p \in Procs :
    /\ pc[p] \in {"dial", "insert"} => want[p] \in Keys
    /\ pc[p] \in {"insert", "evict", "discard", "using", "close"} => conn[p] \in Clients
    /\ pc[p] = "discard" => dup[p] \in Clients
    /\ pc[p] # "closeAll" => toClose[p] = {}
    /\ pc[p] = "evict" <=> mu = p

\* A client in the map is open, under one key, and not marked.
MappedOpen ==
  \A k \in Mapped : /\ life[clients[k]] = "open" /\ ~closing[clients[k]]
                    /\ \A j \in Keys : clients[j] = clients[k] => j = k

\* A client owed a close, or an installation, is open and has no borrower, no
\* key and no second debtor; it is marked once it has been in the map.
OwedAlone ==
  \A p \in Procs, c \in Clients : Owes(p, c) =>
    /\ life[c] = "open" /\ refs[c] = 0
    /\ \A k \in Keys : clients[k] # c
    /\ \A q \in Procs : Owes(q, c) => q = p
    /\ closing[c] <=> pc[p] \in {"close", "closeAll"}

MarkedDialled == \A c \in Clients : closing[c] => life[c] # "fresh"

\* The counts are exact, so that the release that sees 1 is the last one, and
\* an unborrowed client that leaves the map has exactly one debtor.
IInv == /\ TypeOK
        /\ LocalsOK
        /\ RefsExact
        /\ BorrowedOpen
        /\ MappedOpen
        /\ OwedAlone
        /\ MarkedDialled
        /\ NothingLost
=============================================================================
