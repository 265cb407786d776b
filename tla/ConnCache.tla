----------------------------- MODULE ConnCache -----------------------------
(***************************************************************************)
(* internal/ai/conn_cache.go, the connection cache one AI send shares among *)
(* its tool calls, driven by its busiest user (runCommandWithCache in       *)
(* tool_handlers_exec.go) and by stopEntry, which cancels the send and      *)
(* closes the cache.                                                        *)
(*                                                                          *)
(* A connection is the client with the tunnel (the jump host chain) that    *)
(* its dial returned as an extra closer; the two are closed separately.     *)
(* c.mu covers single map operations, each part of one action; the dial     *)
(* runs inside singleflight, which keeps the calls of one asset together.   *)
(***************************************************************************)
EXTENDS Naturals, FiniteSets

CONSTANTS Assets, Calls, Clients, None

ASSUME CacheAssumption == /\ None \notin Assets
                          /\ None \notin Calls
                          /\ None \notin Clients

VARIABLES
  clients,  \* c.clients, with c.closers beside it: [Assets -> Clients \cup {None}]
  client,   \* a client: "fresh" before its dial, "open", then "closed"
  tunnel,   \* its extra closer: likewise
  flight,   \* singleflight: the call that runs the function for an asset
  pc, want, conn, try,  \* a tool call: its place, asset, connection and attempt
  send,     \* the send: "running", "cancelled", "closing" (Close has swapped the maps), "closed"
  victims   \* connections Close took out and has not closed yet

callVars == <<pc, want, conn, try>>
vars == <<clients, client, tunnel, flight, callVars, send, victims>>

PCs == {"idle", "lookup", "join", "await", "recheck", "dial", "install",
        "run", "failed", "forget", "remove", "close", "done"}

TypeOK ==
  /\ clients \in [Assets -> Clients \cup {None}]
  /\ client \in [Clients -> {"fresh", "open", "closed"}]
  /\ tunnel \in [Clients -> {"fresh", "open", "closed"}]
  /\ flight \in [Assets -> Calls \cup {None}]
  /\ pc \in [Calls -> PCs]
  /\ want \in [Calls -> Assets \cup {None}]
  /\ conn \in [Calls -> Clients \cup {None}]
  /\ try \in [Calls -> {1, 2}]
  /\ send \in {"running", "cancelled", "closing", "closed"}
  /\ victims \in SUBSET Clients

Init ==
  /\ clients = [a \in Assets |-> None]
  /\ client = [c \in Clients |-> "fresh"]
  /\ tunnel = [c \in Clients |-> "fresh"]
  /\ flight = [a \in Assets |-> None]
  /\ pc = [t \in Calls |-> "idle"]
  /\ want = [t \in Calls |-> None]
  /\ conn = [t \in Calls |-> None]
  /\ try = [t \in Calls |-> 1]
  /\ send = "running"
  /\ victims = {}

Goto(t, l) == pc' = [pc EXCEPT ![t] = l]
Cancelled == send # "running"

CloseBoth(c) == /\ client' = [client EXCEPT ![c] = "closed"]
                /\ tunnel' = [tunnel EXCEPT ![c] = "closed"]

-----------------------------------------------------------------------------
(* GetOrDial *)

\* The runner starts tool calls until it is cancelled.
Start(t, a) ==
  /\ pc[t] = "idle" /\ ~Cancelled
  /\ want' = [want EXCEPT ![t] = a]
  /\ Goto(t, "lookup")
  /\ UNCHANGED <<clients, client, tunnel, flight, conn, try, send, victims>>

\* A hit ends GetOrDial; a miss goes to singleflight.
Lookup(t) ==
  /\ pc[t] = "lookup"
  /\ conn' = [conn EXCEPT ![t] = clients[want[t]]]
  /\ Goto(t, IF clients[want[t]] = None THEN "join" ELSE "run")
  /\ UNCHANGED <<clients, client, tunnel, flight, want, try, send, victims>>

\* Mutant: every call runs the function itself.
JoinNobody(t) ==
  /\ pc[t] = "join"
  /\ flight' = [flight EXCEPT ![want[t]] = t]
  /\ Goto(t, "recheck")
  /\ UNCHANGED <<clients, client, tunnel, want, conn, try, send, victims>>

\* sf.Do: the first call runs the function, those that find it running wait.
Join(t) ==
  /\ pc[t] = "join"
  /\ IF flight[want[t]] = None
       THEN flight' = [flight EXCEPT ![want[t]] = t] /\ Goto(t, "recheck")
       ELSE Goto(t, "await") /\ UNCHANGED flight
  /\ UNCHANGED <<clients, client, tunnel, want, conn, try, send, victims>>

Followers(t) == {u \in Calls : pc[u] = "await" /\ want[u] = want[t]} \cup {t}

\* The function has returned: its client, or its error, is the result of every
\* call that joined it.
Land(t, c) ==
  /\ flight' = [flight EXCEPT ![want[t]] = None]
  /\ conn' = [u \in Calls |-> IF u \in Followers(t) THEN c ELSE conn[u]]
  /\ pc' = [u \in Calls |-> IF u \notin Followers(t) THEN pc[u]
                            ELSE IF c = None THEN "done" ELSE "run"]

\* Mutant: the slot is not looked at again.
RecheckSkipped(t) ==
  /\ pc[t] = "recheck"
  /\ Goto(t, "dial")
  /\ UNCHANGED <<clients, client, tunnel, flight, want, conn, try, send, victims>>

\* A client may have been installed since the lookup.
Recheck(t) ==
  /\ pc[t] = "recheck"
  /\ IF clients[want[t]] # None
       THEN Land(t, clients[want[t]])
       ELSE Goto(t, "dial") /\ UNCHANGED <<flight, conn>>
  /\ UNCHANGED <<clients, client, tunnel, want, try, send, victims>>

DialOk(t) ==
  /\ pc[t] = "dial"
  /\ \E c \in Clients :
       /\ client[c] = "fresh"
       /\ client' = [client EXCEPT ![c] = "open"]
       /\ tunnel' = [tunnel EXCEPT ![c] = "open"]
       /\ conn' = [conn EXCEPT ![t] = c]
  /\ Goto(t, "install")
  /\ UNCHANGED <<clients, flight, want, try, send, victims>>

\* Mutant: the calls that joined are not told.
DialFailsAlone(t) ==
  /\ pc[t] = "dial"
  /\ flight' = [flight EXCEPT ![want[t]] = None]
  /\ Goto(t, "done")
  /\ UNCHANGED <<clients, client, tunnel, want, conn, try, send, victims>>

DialFails(t) ==
  /\ pc[t] = "dial"
  /\ Land(t, None)
  /\ UNCHANGED <<clients, client, tunnel, want, try, send, victims>>

\* The map takes the client whether or not Close has been through meanwhile.
Install(t) ==
  /\ pc[t] = "install"
  /\ clients' = [clients EXCEPT ![want[t]] = conn[t]]
  /\ Land(t, conn[t])
  /\ UNCHANGED <<client, tunnel, want, try, send, victims>>

-----------------------------------------------------------------------------
(* runSSHCommand, and what runCommandWithCache makes of its error *)

RunOk(t) ==
  /\ pc[t] = "run" /\ client[conn[t]] = "open"
  /\ Goto(t, "done")
  /\ UNCHANGED <<clients, client, tunnel, flight, want, conn, try, send, victims>>

\* The command ran and exited non-zero, or the connection was closed under it.
RunFails(t) ==
  /\ pc[t] = "run"
  /\ Goto(t, "failed")
  /\ UNCHANGED <<clients, client, tunnel, flight, want, conn, try, send, victims>>

\* On cancellation runSSHCommand closes the client to wake its reader.
RunCancelled(t) ==
  /\ pc[t] = "run" /\ Cancelled
  /\ client' = [client EXCEPT ![conn[t]] = "closed"]
  /\ Goto(t, "failed")
  /\ UNCHANGED <<clients, tunnel, flight, want, conn, try, send, victims>>

\* After the first attempt the error is put down to the context or to the
\* connection; after the second the entry is removed either way.
Judge(t) ==
  /\ pc[t] = "failed"
  /\ Goto(t, IF try[t] = 1 /\ Cancelled THEN "forget" ELSE "remove")
  /\ UNCHANGED <<clients, client, tunnel, flight, want, conn, try, send, victims>>

\* Forget drops the entry of the asset, tunnel included, and closes nothing.
Forget(t) ==
  /\ pc[t] = "forget"
  /\ clients' = [clients EXCEPT ![want[t]] = None]
  /\ Goto(t, "done")
  /\ UNCHANGED <<client, tunnel, flight, want, conn, try, send, victims>>

Again(t) == IF try[t] = 1 THEN "lookup" ELSE "done"

\* Mutant: the entry is taken out and not closed.
RemoveUnclosed(t) ==
  /\ pc[t] = "remove"
  /\ clients' = [clients EXCEPT ![want[t]] = None]
  /\ Goto(t, Again(t)) /\ try' = [try EXCEPT ![t] = 2]
  /\ UNCHANGED <<client, tunnel, flight, want, conn, send, victims>>

\* Remove takes the entry out under c.mu, whichever it is by now, and closes it
\* after the unlock; the first attempt is followed by a second.
Remove(t) ==
  /\ pc[t] = "remove"
  /\ conn' = [conn EXCEPT ![t] = clients[want[t]]]
  /\ clients' = [clients EXCEPT ![want[t]] = None]
  /\ IF clients[want[t]] = None
       THEN Goto(t, Again(t)) /\ try' = [try EXCEPT ![t] = 2]
       ELSE Goto(t, "close") /\ UNCHANGED try
  /\ UNCHANGED <<client, tunnel, flight, want, send, victims>>

Close(t) ==
  /\ pc[t] = "close"
  /\ CloseBoth(conn[t])
  /\ Goto(t, Again(t))
  /\ try' = [try EXCEPT ![t] = 2]
  /\ UNCHANGED <<clients, flight, want, conn, send, victims>>

-----------------------------------------------------------------------------
(* stopEntry: cancel, wait for the event loop or three seconds, Close *)

Cancel ==
  /\ send = "running"
  /\ send' = "cancelled"
  /\ UNCHANGED <<clients, client, tunnel, flight, callVars, victims>>

\* Close swaps the maps for empty ones under c.mu; the wait before it may have
\* ended by its timeout.
CloseSwap ==
  /\ send = "cancelled"
  /\ send' = "closing"
  /\ victims' = {clients[a] : a \in Assets} \ {None}
  /\ clients' = [a \in Assets |-> None]
  /\ UNCHANGED <<client, tunnel, flight, callVars>>

CloseVictim(c) ==
  /\ c \in victims
  /\ CloseBoth(c)
  /\ victims' = victims \ {c}
  /\ UNCHANGED <<clients, flight, callVars, send>>

CloseEnd ==
  /\ send = "closing" /\ victims = {}
  /\ send' = "closed"
  /\ UNCHANGED <<clients, client, tunnel, flight, callVars, victims>>

-----------------------------------------------------------------------------
GetStep(t) == Lookup(t) \/ Join(t) \/ Recheck(t) \/ DialOk(t) \/ DialFails(t) \/ Install(t)
RunStep(t) == RunOk(t) \/ RunFails(t) \/ RunCancelled(t)
EndStep(t) == Judge(t) \/ Forget(t) \/ Remove(t) \/ Close(t)
StopStep == CloseSwap \/ CloseEnd \/ \E c \in Clients : CloseVictim(c)

Next == \/ \E t \in Calls : (\E a \in Assets : Start(t, a)) \/ GetStep(t) \/ RunStep(t) \/ EndStep(t)
        \/ Cancel \/ StopStep

\* Goroutines run, dials and commands end; nobody has to cancel.
Fairness == /\ \A t \in Calls : WF_vars(GetStep(t) \/ RunStep(t) \/ EndStep(t))
            /\ WF_vars(StopStep)

Spec == Init /\ [][Next]_vars /\ Fairness

-----------------------------------------------------------------------------
(* What holds *)

Dialling(t) == pc[t] \in {"dial", "install"}

\* singleflight: an asset has at most one dial under way, and the function runs
\* with its slot empty, so that installing never drops an open client.
OneDial ==
  \A t \in Calls : Dialling(t) =>
    /\ flight[want[t]] = t
    /\ clients[want[t]] = None
    /\ \A u \in Calls : Dialling(u) /\ want[u] = want[t] => u = t

\* A client is never lost without its tunnel, and only by Forget or by an
\* install after Close: as long as the send every open connection is in
\* the map, being installed, or owed a close by the call that took it out.
NoLeakWhileRunning ==
  ~Cancelled => \A c \in Clients : client[c] = "open" \/ tunnel[c] = "open" =>
                  \/ \E a \in Assets : clients[a] = c
                  \/ \E t \in Calls : pc[t] \in {"install", "close"} /\ conn[t] = c

\* Every tool call ends, those that joined another's dial included.
CallsEnd == \A t \in Calls : pc[t] # "idle" ~> pc[t] = "done"

\* The cache contract.  A client closed in its slot counts as shared until it
\* leaves the slot.
Stage == [c \in Clients |->
            IF client[c] = "fresh" THEN "fresh"
            ELSE IF \E a \in Assets : clients[a] = c THEN "shared"
            ELSE IF client[c] = "closed" THEN "closed"
            ELSE IF \E t \in Calls : pc[t] = "install" /\ conn[t] = c THEN "private"
            ELSE "retired"]

Slots == INSTANCE ConnSlots WITH Keys <- Assets, Conns <- Clients,
                                 slot <- clients, stage <- Stage
SlotsSafety == Slots!Safety

-----------------------------------------------------------------------------
(* The inductive invariant *)

\* Where a call stands tells which of its locals are set; what it holds was dialled.
LocalsOK ==
  \A t \in Calls :
    /\ pc[t] # "idle" => want[t] \in Assets
    /\ pc[t] \in {"install", "run", "failed", "forget", "remove", "close"} => conn[t] \in Clients
    /\ conn[t] \in Clients => client[conn[t]] # "fresh"
    /\ pc[t] = "forget" => Cancelled

\* Whoever runs the function of an asset is the one singleflight knows.
FlightOwned ==
  \A t \in Calls : pc[t] \in {"recheck", "dial", "install"} => flight[want[t]] = t

\* A call that joined another's dial waits for one that is under way for its
\* asset; singleflight knows a call only while it runs the function.  A call can
\* wait in vain only if its dial does not end.
JoinersServed ==
  /\ \A t \in Calls : pc[t] = "await" => flight[want[t]] # None
  /\ \A a \in Assets : flight[a] # None =>
       want[flight[a]] = a /\ pc[flight[a]] \in {"recheck", "dial", "install"}

\* A client has a tunnel from the start and one slot at most.
SlotsDistinct ==
  /\ \A c \in Clients : client[c] = "fresh" <=> tunnel[c] = "fresh"
  /\ \A a \in Assets : clients[a] \in Clients =>
       /\ client[clients[a]] # "fresh"
       /\ \A b \in Assets : clients[b] = clients[a] => b = a

\* A client about to be installed is open, in nobody's hands and in no slot yet.
InstallAlone ==
  \A t \in Calls : pc[t] = "install" =>
    /\ client[conn[t]] = "open"
    /\ \A a \in Assets : clients[a] # conn[t]
    /\ \A u \in Calls : conn[u] = conn[t] => u = t
    /\ conn[t] \notin victims

\* What somebody took out to close it is not in the map again.
TakenOut ==
  /\ \A c \in victims : client[c] # "fresh" /\ \A a \in Assets : clients[a] # c
  /\ \A t \in Calls : pc[t] = "close" => \A a \in Assets : clients[a] # conn[t]

IInv == /\ TypeOK
        /\ LocalsOK
        /\ FlightOwned
        /\ JoinersServed
        /\ OneDial
        /\ SlotsDistinct
        /\ InstallAlone
        /\ TakenOut
        /\ NoLeakWhileRunning
=============================================================================
