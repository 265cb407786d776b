------------------------------ MODULE SSHPool ------------------------------
(***************************************************************************)
(* internal/sshpool/pool.go: the reference-counted pool of SSH clients     *)
(* shared by the opsctl proxy handlers, the database, Redis, MongoDB and   *)
(* Kafka tunnels and the extensions.  A pool entry and its *ssh.Client are *)
(* created and closed together, so one identity stands for both.           *)
(*                                                                         *)
(* Locks.  p.mu guards the map; most of its critical sections are one map  *)
(* operation and are one action here.  cleanupIdle and Close keep it       *)
(* across several entries: pmu is then their name and no other map         *)
(* operation is enabled.  An entry's own mutex is held across a network    *)
(* round trip by isAlive only; emu records that holder.                    *)
(***************************************************************************)
EXTENDS Integers, FiniteSets

CONSTANTS Assets,   \* asset ids: the keys of the map
          Procs,    \* goroutines that call Get, use the client and Release it
          Clients,  \* clients a run may dial; DialFails is all that is left after them
          Frail,    \* clients whose connection may drop, or go unused for idleTime
          None

ASSUME PoolAssumption == /\ Frail \subseteq Clients
                         /\ None \notin Clients
                         /\ None \notin Procs
                         /\ None \notin Assets
                         /\ IsFiniteSet(Procs)

VARIABLES
  entries,   \* p.entries: [Assets -> Clients \cup {None}]
  life,      \* "fresh" before the dial, "open", then "closed" (entry.closed)
  up,        \* whether the transport under the client still answers
  asset,     \* entry.assetID
  ref,       \* entry.refCount
  expired,   \* time.Since(entry.lastUsed) > idleTime
  emu,       \* who holds entry.mu across steps
  pmu,       \* who holds p.mu across steps: "free", "sweep" or "drain"
  todo,      \* keys cleanupIdle has to examine, or Close to close
  doomed,    \* toRemove of cleanupIdle
  pool,      \* "running", then "closing" (done is closed), then "closed"
  cleaner,   \* whether cleanupLoop runs
  pc, want, ent, own, retTo,  \* a goroutine's place, argument and locals
  evicted,   \* history: assets whose map entry has been taken out at least once
  installed  \* history: clients that have been in the map

connVars == <<life, up, asset, ref, expired>>
lockVars == <<emu, pmu, todo, doomed>>
procVars == <<pc, want, ent, own, retTo>>
vars == <<entries, connVars, lockVars, pool, cleaner, procVars, evicted, installed>>

\* Inside Get: lookup probe probing acquire remove close dial insert discard.
\* After it: using, then release and decrement; remove and close serve both.
PCs == {"idle", "lookup", "probe", "probing", "acquire", "remove", "close",
        "dial", "insert", "discard", "using", "release", "decrement"}

TypeOK ==
  /\ entries \in [Assets -> Clients \cup {None}]
  /\ life \in [Clients -> {"fresh", "open", "closed"}]
  /\ up \in [Clients -> BOOLEAN]
  /\ asset \in [Clients -> Assets \cup {None}]
  /\ ref \in [Clients -> Int]
  /\ expired \in [Clients -> BOOLEAN]
  /\ emu \in [Clients -> Procs \cup {None}]
  /\ pmu \in {"free", "sweep", "drain"}
  /\ todo \in SUBSET Assets
  /\ doomed \in SUBSET Assets
  /\ pool \in {"running", "closing", "closed"}
  /\ cleaner \in {"running", "exited"}
  /\ pc \in [Procs -> PCs]
  /\ want \in [Procs -> Assets \cup {None}]
  /\ ent \in [Procs -> Clients \cup {None}]
  /\ own \in [Procs -> Clients \cup {None}]
  /\ retTo \in [Procs -> {"dial", "lookup", "release"}]
  /\ evicted \in SUBSET Assets
  /\ installed \in SUBSET Clients

Init ==
  /\ entries = [a \in Assets |-> None]
  /\ life = [c \in Clients |-> "fresh"]
  /\ up = [c \in Clients |-> FALSE]
  /\ asset = [c \in Clients |-> None]
  /\ ref = [c \in Clients |-> 0]
  /\ expired = [c \in Clients |-> FALSE]
  /\ emu = [c \in Clients |-> None]
  /\ pmu = "free" /\ todo = {} /\ doomed = {}
  /\ pool = "running" /\ cleaner = "running"
  /\ pc = [p \in Procs |-> "idle"]
  /\ want = [p \in Procs |-> None]
  /\ ent = [p \in Procs |-> None]
  /\ own = [p \in Procs |-> None]
  /\ retTo = [p \in Procs |-> "release"]
  /\ evicted = {} /\ installed = {}

Goto(p, l) == pc' = [pc EXCEPT ![p] = l]
Mapped == {a \in Assets : entries[a] # None}

\* client.Close and, with it, everything the entry holds.
CloseClient(c) == /\ life' = [life EXCEPT ![c] = "closed"]
                  /\ up' = [up EXCEPT ![c] = FALSE]

-----------------------------------------------------------------------------
(* Get *)

Call(p, a) ==
  /\ pc[p] = "idle"
  /\ want' = [want EXCEPT ![p] = a]
  /\ Goto(p, "lookup")
  /\ UNCHANGED <<entries, connVars, lockVars, pool, cleaner, ent, own, retTo, evicted, installed>>

\* The map is read under p.mu and the entry used after the unlock.
Lookup(p) ==
  /\ pc[p] = "lookup" /\ pmu = "free"
  /\ ent' = [ent EXCEPT ![p] = entries[want[p]]]
  /\ retTo' = [retTo EXCEPT ![p] = "dial"]
  /\ Goto(p, IF entries[want[p]] = None THEN "dial" ELSE "probe")
  /\ UNCHANGED <<entries, connVars, lockVars, pool, cleaner, want, own, evicted, installed>>

\* isAlive takes entry.mu and waits for the keepalive reply with it held.
ProbeStart(p) ==
  /\ pc[p] = "probe"
  /\ emu[ent[p]] = None
  /\ emu' = [emu EXCEPT ![ent[p]] = p]
  /\ Goto(p, "probing")
  /\ UNCHANGED <<entries, connVars, pmu, todo, doomed, pool, cleaner,
                 want, ent, own, retTo, evicted, installed>>

ProbeEnd(p) ==
  /\ pc[p] = "probing"
  /\ emu' = [emu EXCEPT ![ent[p]] = None]
  /\ Goto(p, IF life[ent[p]] = "open" /\ up[ent[p]] THEN "acquire" ELSE "remove")
  /\ UNCHANGED <<entries, connVars, pmu, todo, doomed, pool, cleaner,
                 want, ent, own, retTo, evicted, installed>>

\* Mutant: the cached client is returned uncounted.
AcquireUncounted(p) ==
  /\ pc[p] = "acquire"
  /\ own' = [own EXCEPT ![p] = ent[p]]
  /\ ent' = [ent EXCEPT ![p] = None]
  /\ retTo' = [retTo EXCEPT ![p] = "release"]
  /\ Goto(p, "using")
  /\ UNCHANGED <<entries, connVars, lockVars, pool, cleaner, want, evicted, installed>>

\* entry.acquire(): a critical section of its own, after isAlive has unlocked.
Acquire(p) ==
  /\ pc[p] = "acquire"
  /\ emu[ent[p]] = None
  /\ ref' = [ref EXCEPT ![ent[p]] = @ + 1]
  /\ expired' = [expired EXCEPT ![ent[p]] = FALSE]
  /\ own' = [own EXCEPT ![p] = ent[p]]
  /\ ent' = [ent EXCEPT ![p] = None]
  /\ retTo' = [retTo EXCEPT ![p] = "release"]
  /\ Goto(p, "using")
  /\ UNCHANGED <<entries, life, up, asset, lockVars, pool, cleaner, want, evicted, installed>>

\* Mutant: the new entry starts with refCount 0.
DialOkUncounted(p) ==
  /\ pc[p] = "dial"
  /\ \E c \in Clients :
       /\ life[c] = "fresh"
       /\ life' = [life EXCEPT ![c] = "open"]
       /\ up' = [up EXCEPT ![c] = TRUE]
       /\ asset' = [asset EXCEPT ![c] = want[p]]
       /\ own' = [own EXCEPT ![p] = c]
  /\ Goto(p, "insert")
  /\ UNCHANGED <<entries, ref, expired, lockVars, pool, cleaner, want, ent, retTo, evicted, installed>>

\* The dialer either returns a connected client, wrapped in an entry with
\* refCount 1 and a keepalive goroutine, or an error that ends Get.
DialOk(p) ==
  /\ pc[p] = "dial"
  /\ \E c \in Clients :
       /\ life[c] = "fresh"
       /\ life' = [life EXCEPT ![c] = "open"]
       /\ up' = [up EXCEPT ![c] = TRUE]
       /\ asset' = [asset EXCEPT ![c] = want[p]]
       /\ ref' = [ref EXCEPT ![c] = 1]
       /\ own' = [own EXCEPT ![p] = c]
  /\ Goto(p, "insert")
  /\ UNCHANGED <<entries, expired, lockVars, pool, cleaner, want, ent, retTo, evicted, installed>>

\* Mutant: Get dials again for as long as the dial fails.
DialFailsAgain(p) ==
  /\ pc[p] = "dial"
  /\ Goto(p, "lookup")
  /\ UNCHANGED <<entries, connVars, lockVars, pool, cleaner, want, ent, own, retTo, evicted, installed>>

DialFails(p) ==
  /\ pc[p] = "dial"
  /\ want' = [want EXCEPT ![p] = None]
  /\ Goto(p, "idle")
  /\ UNCHANGED <<entries, connVars, lockVars, pool, cleaner, ent, own, retTo, evicted, installed>>

\* Mutant: the map is not looked at again after the dial.
InsertUnchecked(p) ==
  /\ pc[p] = "insert" /\ pmu = "free"
  /\ entries' = [entries EXCEPT ![want[p]] = own[p]]
  /\ installed' = installed \cup {own[p]}
  /\ retTo' = [retTo EXCEPT ![p] = "release"]
  /\ Goto(p, "using")
  /\ UNCHANGED <<connVars, lockVars, pool, cleaner, want, ent, own, evicted>>

\* Another goroutine may have installed a client during the dial.
Insert(p) ==
  /\ pc[p] = "insert" /\ pmu = "free"
  /\ IF entries[want[p]] = None
       THEN /\ entries' = [entries EXCEPT ![want[p]] = own[p]]
            /\ installed' = installed \cup {own[p]}
            /\ retTo' = [retTo EXCEPT ![p] = "release"]
            /\ Goto(p, "using")
            /\ UNCHANGED ent
       ELSE /\ ent' = [ent EXCEPT ![p] = entries[want[p]]]
            /\ Goto(p, "discard")
            /\ UNCHANGED <<entries, installed, retTo>>
  /\ UNCHANGED <<connVars, lockVars, pool, cleaner, want, own, evicted>>

\* The duplicate is closed and the existing entry probed; if that one is dead
\* too it is removed and Get starts again.
Discard(p) ==
  /\ pc[p] = "discard"
  /\ CloseClient(own[p])
  /\ own' = [own EXCEPT ![p] = None]
  /\ retTo' = [retTo EXCEPT ![p] = "lookup"]
  /\ Goto(p, "probe")
  /\ UNCHANGED <<entries, asset, ref, expired, lockVars, pool, cleaner,
                 want, ent, evicted, installed>>

-----------------------------------------------------------------------------
(* Remove: the entry of the asset, whichever it is by now, leaves the map
   under p.mu and is closed after the unlock. *)

\* Mutant: the entry is deleted and not closed.
RemoveUnclosed(p) ==
  /\ pc[p] = "remove" /\ pmu = "free"
  /\ entries' = [entries EXCEPT ![want[p]] = None]
  /\ evicted' = evicted \cup {want[p]}
  /\ Goto(p, retTo[p])
  /\ UNCHANGED <<connVars, lockVars, pool, cleaner, want, ent, own, retTo, installed>>

Remove(p) ==
  /\ pc[p] = "remove" /\ pmu = "free"
  /\ ent' = [ent EXCEPT ![p] = entries[want[p]]]
  /\ IF entries[want[p]] = None
       THEN /\ Goto(p, retTo[p])
            /\ UNCHANGED <<entries, evicted>>
       ELSE /\ entries' = [entries EXCEPT ![want[p]] = None]
            /\ evicted' = evicted \cup {want[p]}
            /\ Goto(p, "close")
  /\ UNCHANGED <<connVars, lockVars, pool, cleaner, want, own, retTo, installed>>

Close(p) ==
  /\ pc[p] = "close"
  /\ emu[ent[p]] = None
  /\ CloseClient(ent[p])
  /\ ent' = [ent EXCEPT ![p] = None]
  /\ Goto(p, retTo[p])
  /\ UNCHANGED <<entries, asset, ref, expired, lockVars, pool, cleaner,
                 want, own, retTo, evicted, installed>>

-----------------------------------------------------------------------------
(* The caller: it uses the client, and Release looks the entry up again by
   asset id before it decrements. *)

Finish(p) ==
  /\ pc[p] = "using"
  /\ Goto(p, "release")
  /\ UNCHANGED <<entries, connVars, lockVars, pool, cleaner,
                 want, ent, own, retTo, evicted, installed>>

\* handleSSHError: opening a session on a dead client fails with a connection
\* error, which removes the asset's entry before the deferred Release.
SessionError(p) ==
  /\ pc[p] = "using"
  /\ ~up[own[p]]
  /\ Goto(p, "remove")
  /\ UNCHANGED <<entries, connVars, lockVars, pool, cleaner,
                 want, ent, own, retTo, evicted, installed>>

Return(p) == /\ own' = [own EXCEPT ![p] = None]
             /\ want' = [want EXCEPT ![p] = None]
             /\ Goto(p, "idle")

Release(p) ==
  /\ pc[p] = "release" /\ pmu = "free"
  /\ ent' = [ent EXCEPT ![p] = entries[want[p]]]
  /\ IF entries[want[p]] = None
       THEN /\ Return(p)
       ELSE /\ Goto(p, "decrement")
            /\ UNCHANGED <<want, own>>
  /\ UNCHANGED <<entries, connVars, lockVars, pool, cleaner, retTo, evicted, installed>>

Decrement(p) ==
  /\ pc[p] = "decrement"
  /\ emu[ent[p]] = None
  /\ ref' = [ref EXCEPT ![ent[p]] = @ - 1]
  /\ expired' = [expired EXCEPT ![ent[p]] = FALSE]
  /\ ent' = [ent EXCEPT ![p] = None]
  /\ Return(p)
  /\ UNCHANGED <<entries, life, up, asset, lockVars, pool, cleaner, retTo, evicted, installed>>

-----------------------------------------------------------------------------
(* cleanupLoop and cleanupIdle: p.mu is held from the scan to the last close,
   entry.mu is taken once to examine an entry and again to close it. *)

SweepStart ==
  /\ cleaner = "running" /\ pmu = "free"
  /\ pmu' = "sweep"
  /\ todo' = Mapped
  /\ UNCHANGED <<entries, connVars, emu, doomed, pool, cleaner, procVars, evicted, installed>>

IsIdle(c) == ref[c] <= 0 /\ expired[c]

SweepCheck(a) ==
  /\ pmu = "sweep" /\ a \in todo
  /\ emu[entries[a]] = None
  /\ todo' = todo \ {a}
  /\ doomed' = IF IsIdle(entries[a]) THEN doomed \cup {a} ELSE doomed
  /\ UNCHANGED <<entries, connVars, emu, pmu, pool, cleaner, procVars, evicted, installed>>

\* The entry is closed and its key vacated within one hold of p.mu.
CloseMapped(a) ==
  /\ emu[entries[a]] = None
  /\ CloseClient(entries[a])
  /\ entries' = [entries EXCEPT ![a] = None]
  /\ evicted' = evicted \cup {a}
  /\ UNCHANGED <<asset, ref, expired, emu, pmu, pool, cleaner, procVars, installed>>

SweepClose(a) ==
  /\ pmu = "sweep" /\ todo = {} /\ a \in doomed
  /\ doomed' = doomed \ {a}
  /\ CloseMapped(a)
  /\ UNCHANGED todo

SweepEnd ==
  /\ pmu = "sweep" /\ todo = {} /\ doomed = {}
  /\ pmu' = "free"
  /\ UNCHANGED <<entries, connVars, emu, todo, doomed, pool, cleaner, procVars, evicted, installed>>

-----------------------------------------------------------------------------
(* Pool.Close: stop cleanupLoop, wait for it, then close every entry. *)

CloseBegin ==
  /\ pool = "running"
  /\ pool' = "closing"
  /\ UNCHANGED <<entries, connVars, lockVars, cleaner, procVars, evicted, installed>>

\* Mutant: cleanupLoop does not select on done.
CleanerStays ==
  /\ pool = "closing" /\ cleaner = "running" /\ pmu = "free"
  /\ UNCHANGED vars

CleanerExit ==
  /\ pool = "closing" /\ cleaner = "running" /\ pmu = "free"
  /\ cleaner' = "exited"
  /\ UNCHANGED <<entries, connVars, lockVars, pool, procVars, evicted, installed>>

DrainStart ==
  /\ pool = "closing" /\ cleaner = "exited" /\ pmu = "free"
  /\ pmu' = "drain"
  /\ todo' = Mapped
  /\ UNCHANGED <<entries, connVars, emu, doomed, pool, cleaner, procVars, evicted, installed>>

DrainClose(a) ==
  /\ pmu = "drain" /\ a \in todo
  /\ todo' = todo \ {a}
  /\ CloseMapped(a)
  /\ UNCHANGED doomed

DrainEnd ==
  /\ pmu = "drain" /\ todo = {}
  /\ pmu' = "free"
  /\ pool' = "closed"
  /\ UNCHANGED <<entries, connVars, emu, todo, doomed, cleaner, procVars, evicted, installed>>

-----------------------------------------------------------------------------
(* Environment *)

\* The server or the network drops a connection.
Drop(c) ==
  /\ c \in Frail /\ life[c] = "open" /\ up[c]
  /\ up' = [up EXCEPT ![c] = FALSE]
  /\ UNCHANGED <<entries, life, asset, ref, expired, lockVars, pool, cleaner,
                 procVars, evicted, installed>>

\* idleTime passes without an acquire or a release of the entry.
Expire(c) ==
  /\ c \in Frail /\ life[c] = "open" /\ ~expired[c]
  /\ expired' = [expired EXCEPT ![c] = TRUE]
  /\ UNCHANGED <<entries, life, up, asset, ref, lockVars, pool, cleaner,
                 procVars, evicted, installed>>

GetStep(p) == \/ Lookup(p) \/ ProbeStart(p) \/ ProbeEnd(p) \/ Acquire(p)
              \/ DialOk(p) \/ DialFails(p) \/ Insert(p) \/ Discard(p)
              \/ Remove(p) \/ Close(p)
ReleaseStep(p) == Release(p) \/ Decrement(p)
CallerStep(p) == (\E a \in Assets : Call(p, a)) \/ Finish(p) \/ SessionError(p)
SweepStep == SweepEnd \/ \E a \in Assets : SweepCheck(a) \/ SweepClose(a)
DrainStep == DrainStart \/ DrainEnd \/ \E a \in Assets : DrainClose(a)

Next == \/ \E p \in Procs : GetStep(p) \/ ReleaseStep(p) \/ CallerStep(p)
        \/ SweepStart \/ SweepStep
        \/ CloseBegin \/ CleanerExit \/ DrainStep
        \/ \E c \in Clients : Drop(c) \/ Expire(c)

\* Goroutines run, and a sync.Mutex hands itself to a waiter that has waited
\* too long (its starvation mode): a step that keeps becoming possible is
\* taken.  Nothing obliges a caller to call, to finish with its client or to
\* meet an error, the user to close the pool, or a connection to fail; a sweep
\* is fair once it holds p.mu, its ticker is not relied on.
Fairness == /\ \A p \in Procs : SF_vars(GetStep(p) \/ ReleaseStep(p))
            /\ SF_vars(SweepStep)
            /\ SF_vars(CleanerExit \/ DrainStep)

Spec == Init /\ [][Next]_vars /\ Fairness

-----------------------------------------------------------------------------
(* What the pool is relied on for *)

\* p has been given own[p] by Get and has not applied its Release yet.
Holds(p) == \/ pc[p] \in {"using", "release", "decrement"}
            \/ pc[p] \in {"remove", "close"} /\ retTo[p] = "release"

Holders(a) == {p \in Procs : Holds(p) /\ want[p] = a}

\* p has dialled own[p] and not yet installed or discarded it.
Private(p) == pc[p] \in {"insert", "discard"}

\* p has taken ent[p] out of the map and owes it a close.
Closing(p) == pc[p] = "close"

\* No connection leaks: every open client is in the map under its own asset,
\* or one goroutine is still about to install it or to close it (Get, Remove).
NoOrphan ==
  \A c \in Clients : life[c] = "open" =>
    \/ asset[c] \in Assets /\ entries[asset[c]] = c
    \/ \E p \in Procs : Private(p) /\ own[p] = c
    \/ \E p \in Procs : Closing(p) /\ ent[p] = c

\* A client that can be looked up has not been closed, whatever removals, idle
\* sweeps and duplicate dials are under way, and sits under its own asset.
MappedOpen ==
  \A a \in Assets : entries[a] # None => /\ life[entries[a]] = "open"
                                         /\ asset[entries[a]] = a

\* A client is closed by one goroutine only: two Removes, or a Remove and a
\* discarded duplicate, never owe the same client a close.
OneCloser ==
  \A p, q \in Procs : /\ Closing(p) /\ Closing(q) /\ p # q => ent[p] # ent[q]
                      /\ Closing(p) /\ Private(q) => ent[p] # own[q]

\* Until an asset's entry is first taken out of the map, every goroutine that got
\* a client for the asset holds that entry's, and its refCount is exactly their
\* number: no path of Get or Release counts twice or not at all.
RefExactUntilEvicted ==
  \A a \in Assets \ evicted : entries[a] # None =>
    /\ \A p \in Holders(a) : own[p] = entries[a]
    /\ ref[entries[a]] = Cardinality(Holders(a))

\* The references of the entries an asset has had in the map, one by one: those
\* above zero, and those an entry released too often has gone below it.  The
\* reference of a duplicate that never got there is nobody's and does not count.
EntriesOf(a) == {c \in installed : asset[c] = a}
Credits(a) == UNION {{c} \X (1..ref[c]) : c \in EntriesOf(a)}
Debts(a) == UNION {{c} \X (1..-ref[c]) : c \in EntriesOf(a)}
Balance(a) == Cardinality(Credits(a)) - Cardinality(Debts(a))

\* Release by asset id may hit a younger entry than the one acquired, but the
\* references of one asset are never fewer, in total, than its holders.
RefsNeverLost == \A a \in Assets : Balance(a) >= Cardinality(Holders(a))

\* p waits for the mutex of the entry it found.
AwaitsEntry(p) == /\ pc[p] \in {"probe", "acquire", "close", "decrement"}
                  /\ emu[ent[p]] # None

\* p ends its wait for the network with c's mutex, and with nothing else, to free.
Probes(p, c) == p \in Procs /\ pc[p] = "probing" /\ ent[p] = c

\* Nobody waits in a circle.  Whoever wants an entry's mutex waits for another
\* goroutine, which waits for the network only; whoever wants p.mu waits for the
\* cleanup goroutine or for Close, which waits for such probes only; and Close
\* does not wait for a cleanup goroutine that waits for it.
NoMutualWait ==
  /\ \A p \in Procs : AwaitsEntry(p) => emu[ent[p]] # p /\ Probes(emu[ent[p]], ent[p])
  /\ \A a \in todo \cup doomed :
       emu[entries[a]] # None => Probes(emu[entries[a]], entries[a])
  /\ pmu = "sweep" => cleaner = "running"
  /\ pmu = "drain" => pool = "closing" /\ cleaner = "exited"

\* A client taken out of the map never comes back (isAlive, Get's retry).
NoRevival ==
  [][\A a \in Assets : entries'[a] \notin {entries[a], None} =>
       \E p \in Procs : pc[p] = "insert" /\ own[p] = entries'[a]
                        /\ entries[a] = None]_vars

\* Get, Remove and Release return although they wait for p.mu, for an entry's
\* mutex and for another goroutine's probe, and Get may start again.
CallsReturn ==
  \A p \in Procs : (pc[p] \notin {"idle", "using"}) ~> (pc[p] \in {"idle", "using"})

\* Pool.Close terminates: it waits for the cleanup goroutine and takes p.mu
\* and each entry's mutex while goroutines go on calling Get.
CloseCompletes == (pool = "closing") ~> (pool = "closed")

\* Where each client is in the life ConnSlots gives it.
Stage == [c \in Clients |->
            IF life[c] # "open" THEN life[c]
            ELSE IF asset[c] \in Assets /\ entries[asset[c]] = c THEN "shared"
            ELSE IF \E p \in Procs : Private(p) /\ own[p] = c THEN "private"
            ELSE "retired"]

\* The pool implements the cache contract, reclaiming included.
Slots == INSTANCE ConnSlots WITH Keys <- Assets, Conns <- Clients,
                                 slot <- entries, stage <- Stage
SlotsSafety == Slots!Safety
SlotsReclaimed == Slots!Reclaimed

-----------------------------------------------------------------------------
(* The inductive invariant: ownership, and what it takes to keep it *)

\* Where a goroutine stands tells which of its locals are set.
LocalsOK ==
  \A p \in Procs :
    /\ pc[p] # "idle" => want[p] \in Assets
    /\ pc[p] \in {"probe", "probing", "acquire", "discard", "close", "decrement"}
         => ent[p] \in Clients
    /\ Private(p) \/ Holds(p) => own[p] \in Clients
    /\ pc[p] \in {"probe", "probing"} => retTo[p] # "release"

\* What a sweep or a drain still has to visit is in the map; p.mu keeps it there.
VisitsMapped == /\ todo \cup doomed \subseteq Mapped
                /\ pmu = "free" => todo = {}
                /\ pmu # "sweep" => doomed = {}

\* A dialled client belongs to one goroutine and is in nobody's slot.
PrivateOwned ==
  \A p \in Procs : Private(p) =>
    /\ life[own[p]] = "open" /\ asset[own[p]] = want[p]
    /\ \A a \in Assets : entries[a] # own[p]
    /\ \A q \in Procs : q # p /\ Private(q) => own[q] # own[p]

\* So does a client taken out of the map and not yet closed.
RemovedOwned ==
  \A p \in Procs : Closing(p) =>
    /\ life[ent[p]] = "open"
    /\ \A a \in Assets : entries[a] # ent[p]

\* Between any two steps of the pool each open client has one owner: the map,
\* the goroutine that dialled it, or the goroutine that took it out.
OwnInv == /\ TypeOK
          /\ LocalsOK
          /\ VisitsMapped
          /\ MappedOpen
          /\ PrivateOwned
          /\ RemovedOwned
          /\ OneCloser
          /\ NoOrphan

\* A Get leaves its goroutine with a Release to come.
ReleaseToCome ==
  \A p \in Procs : pc[p] \in {"using", "release", "decrement"} => retTo[p] = "release"

\* What a goroutine found in the map is of its asset, and there until the first eviction.
Found(p) == pc[p] \in {"probe", "probing", "acquire", "discard", "decrement"}
FoundStays ==
  \A p \in Procs : Found(p) => /\ life[ent[p]] # "fresh" /\ asset[ent[p]] = want[p]
                               /\ want[p] \notin evicted => entries[want[p]] = ent[p]

\* A client that has not been in the map has the one reference of its Get still;
\* whatever is or was found in the map has been there.
InstalledOnce ==
  /\ \A c \in installed : life[c] # "fresh"
  /\ \A p \in Procs : Private(p) => own[p] \notin installed /\ ref[own[p]] = 1
  /\ \A a \in Mapped : entries[a] \in installed
  /\ \A p \in Procs : Found(p) => ent[p] \in installed

\* Before the first eviction nobody holds a client of an asset that has none.
VacantUnheld == \A a \in Assets \ evicted : entries[a] = None => Holders(a) = {}

\* With IInv, what keeps the counts exact until an eviction.
CountInv == /\ ReleaseToCome
            /\ FoundStays
            /\ InstalledOnce
            /\ VacantUnheld
            /\ RefExactUntilEvicted

\* With OwnInv and CountInv, what keeps the total large enough after evictions too.
BalanceInv == /\ \A a \in Assets : IsFiniteSet(Credits(a)) /\ IsFiniteSet(Debts(a))
              /\ RefsNeverLost

\* An entry's mutex is kept by a goroutine that probes this entry, p.mu by the
\* cleanup goroutine as long as it runs and by Close once that has exited.
LocksHeld ==
  /\ \A c \in Clients : emu[c] # None => pc[emu[c]] = "probing" /\ ent[emu[c]] = c
  /\ \A p \in Procs : pc[p] = "probing" => emu[ent[p]] = p
  /\ pmu = "sweep" => cleaner = "running"
  /\ pmu = "drain" => pool = "closing" /\ cleaner = "exited"

\* All of it: the inductive invariant of the pool.
IInv == OwnInv /\ CountInv /\ BalanceInv /\ LocksHeld

-----------------------------------------------------------------------------
(* What the comments say and the code does not keep *)

\* pool.go: a refCount counts the goroutines that hold that connection ("each
\* connection holds its own pool reference", connpool/tunnel.go).  Release
\* decrements whichever entry the asset has by then.
RefCoversHolders ==
  \A a \in Assets : entries[a] # None =>
    ref[entries[a]] >= Cardinality({p \in Procs : Holds(p) /\ own[p] = entries[a]})
=============================================================================
