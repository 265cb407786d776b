-------------------------- MODULE ConnCacheProofs --------------------------
(***************************************************************************)
(* Theorems about ConnCache for any number of assets, calls and dials.     *)
(* singleflight leaves one call per asset between its second look at the   *)
(* map and its Install (FlightOwned), and that call alone knows the client *)
(* it dialled (InstallAlone); both follow the client from owner to owner.  *)
(***************************************************************************)
EXTENDS ConnCache, TLAPS

-----------------------------------------------------------------------------
(* The inductive invariant *)

\* A new cache is empty and no call has begun.
LEMMA InitIInv == Init => IInv
<1> SUFFICES ASSUME Init PROVE IInv
  OBVIOUS
<1> USE CacheAssumption DEF Init
<1>1. TypeOK
  BY DEF TypeOK, PCs
<1>2. LocalsOK /\ FlightOwned /\ JoinersServed /\ OneDial /\ InstallAlone
  BY DEF LocalsOK, FlightOwned, JoinersServed, OneDial, Dialling, InstallAlone
<1>3. SlotsDistinct /\ TakenOut /\ NoLeakWhileRunning
  BY DEF SlotsDistinct, TakenOut, NoLeakWhileRunning
<1>4. QED
  BY <1>1, <1>2, <1>3 DEF IInv

\* What the end of the function does to its caller and to the calls that joined it.
LEMMA Landed ==
  ASSUME TypeOK, NEW t \in Calls, NEW c \in Clients \cup {None}, want[t] \in Assets, Land(t, c)
  PROVE  /\ flight' = [flight EXCEPT ![want[t]] = None]
         /\ conn' \in [Calls -> Clients \cup {None}] /\ pc' \in [Calls -> PCs]
         /\ conn'[t] = c /\ pc'[t] = IF c = None THEN "done" ELSE "run"
         /\ \A u \in Calls : \/ conn'[u] = conn[u] /\ pc'[u] = pc[u] /\ u # t
                             \/ /\ conn'[u] = c /\ pc'[u] = IF c = None THEN "done" ELSE "run"
                                /\ want[u] = want[t]
                                /\ pc[u] = "await" \/ u = t
         /\ \A u \in Calls : pc'[u] = "await" => pc[u] = "await" /\ want[u] # want[t]
BY DEF TypeOK, PCs, Land, Followers

\* Every action keeps the types.
LEMMA TypeStep == TypeOK /\ LocalsOK /\ [Next]_vars => TypeOK'
<1> SUFFICES ASSUME TypeOK, LocalsOK, [Next]_vars PROVE TypeOK'
  OBVIOUS
<1> USE DEF TypeOK, PCs, Goto, callVars
<1>1. ASSUME NEW t \in Calls, NEW a \in Assets, Start(t, a) PROVE TypeOK'
  BY <1>1 DEF Start
<1>2. ASSUME NEW t \in Calls, GetStep(t) PROVE TypeOK'
  <2>1. CASE Lookup(t) BY <2>1 DEF Lookup, LocalsOK
  <2>2. CASE Join(t)   BY <2>2 DEF Join, LocalsOK
  <2>3. CASE Recheck(t)
    <3>1. want[t] \in Assets BY <2>3 DEF Recheck, LocalsOK
    <3>2. CASE clients[want[t]] # None BY <2>3, <3>1, <3>2, Landed DEF Recheck
    <3>3. CASE clients[want[t]] = None BY <2>3, <3>1, <3>3 DEF Recheck
    <3>4. QED BY <3>2, <3>3
  <2>4. CASE DialOk(t) BY <2>4 DEF DialOk
  <2>5. CASE DialFails(t)
    <3>1. want[t] \in Assets BY <2>5 DEF DialFails, LocalsOK
    <3>2. QED BY <2>5, <3>1, Landed DEF DialFails
  <2>6. CASE Install(t)
    <3>1. want[t] \in Assets /\ conn[t] \in Clients BY <2>6 DEF Install, LocalsOK
    <3>2. QED BY <2>6, <3>1, Landed DEF Install
  <2>7. QED BY <1>2, <2>1, <2>2, <2>3, <2>4, <2>5, <2>6 DEF GetStep
<1>3. ASSUME NEW t \in Calls, RunStep(t) PROVE TypeOK'
  BY <1>3 DEF RunStep, RunOk, RunFails, RunCancelled
<1>4. ASSUME NEW t \in Calls, EndStep(t) PROVE TypeOK'
  <2>1. CASE Judge(t)  BY <2>1 DEF Judge
  <2>2. CASE Forget(t) BY <2>2 DEF Forget
  <2>3. CASE Remove(t) BY <2>3 DEF Remove, Again, LocalsOK
  <2>4. CASE Close(t)  BY <2>4 DEF Close, CloseBoth, Again
  <2>5. QED BY <1>4, <2>1, <2>2, <2>3, <2>4 DEF EndStep
<1>5. CASE Cancel BY <1>5 DEF Cancel
<1>6. CASE StopStep
  <2>1. CASE CloseSwap BY <2>1 DEF CloseSwap
  <2>2. CASE CloseEnd  BY <2>2 DEF CloseEnd
  <2>3. ASSUME NEW c \in Clients, CloseVictim(c) PROVE TypeOK'
    BY <2>3 DEF CloseVictim, CloseBoth
  <2>4. QED BY <1>6, <2>1, <2>2, <2>3 DEF StopStep
<1>7. CASE UNCHANGED vars BY <1>7 DEF vars
<1>8. QED
  BY <1>1, <1>2, <1>3, <1>4, <1>5, <1>6, <1>7 DEF Next

\* The function ends with connection c, or with None for an error.
Arrived(t, c) ==
  /\ want[t] \in Assets
  /\ flight' = [flight EXCEPT ![want[t]] = None]
  /\ conn'[t] = c /\ pc'[t] = IF c = None THEN "done" ELSE "run"
  /\ \A u \in Calls : \/ conn'[u] = conn[u] /\ pc'[u] = pc[u] /\ u # t
                      \/ /\ conn'[u] = c /\ pc'[u] = IF c = None THEN "done" ELSE "run"
                         /\ want[u] = want[t]
                         /\ pc[u] = "await" \/ u = t
  /\ \A u \in Calls : pc'[u] = "await" => pc[u] = "await" /\ want[u] # want[t]

\* The second look at the map found a client.
LEMMA HitLands ==
  ASSUME TypeOK, LocalsOK, NEW t \in Calls, Recheck(t), clients[want[t]] # None
  PROVE  /\ Arrived(t, clients[want[t]]) /\ clients[want[t]] \in Clients
         /\ pc[t] = "recheck"
         /\ UNCHANGED <<clients, client, tunnel, want, try, send, victims>>
<1>1. want[t] \in Assets /\ Land(t, clients[want[t]])
  BY DEF Recheck, LocalsOK
<1>2. clients[want[t]] \in Clients
  BY <1>1 DEF TypeOK
<1>3. QED BY <1>1, <1>2, Landed DEF Recheck, Arrived

\* The dial failed.
LEMMA FailureLands ==
  ASSUME TypeOK, LocalsOK, NEW t \in Calls, DialFails(t)
  PROVE  /\ Arrived(t, None) /\ pc[t] = "dial"
         /\ UNCHANGED <<clients, client, tunnel, want, try, send, victims>>
<1>1. want[t] \in Assets
  BY DEF DialFails, LocalsOK
<1>2. QED BY <1>1, Landed DEF DialFails, Arrived

\* The dialled client was put into the map.
LEMMA InstallLands ==
  ASSUME TypeOK, LocalsOK, NEW t \in Calls, Install(t)
  PROVE  /\ Arrived(t, conn[t]) /\ conn[t] \in Clients /\ pc[t] = "install"
         /\ clients' = [clients EXCEPT ![want[t]] = conn[t]]
         /\ UNCHANGED <<client, tunnel, want, try, send, victims>>
<1>1. want[t] \in Assets /\ conn[t] \in Clients
  BY DEF Install, LocalsOK
<1>2. QED BY <1>1, Landed DEF Install, Arrived

\* Every action keeps locals and places together.
LEMMA LocalsStep == TypeOK /\ LocalsOK /\ SlotsDistinct /\ TypeOK' /\ [Next]_vars => LocalsOK'
<1> SUFFICES ASSUME TypeOK, LocalsOK, SlotsDistinct, TypeOK', [Next]_vars PROVE LocalsOK'
  OBVIOUS
<1> USE CacheAssumption DEF TypeOK, Goto, callVars, LocalsOK, SlotsDistinct, Cancelled
<1>1. ASSUME NEW t \in Calls, NEW a \in Assets, Start(t, a) PROVE LocalsOK'
  BY <1>1 DEF Start
<1>2. ASSUME NEW t \in Calls, GetStep(t) PROVE LocalsOK'
  <2>1. CASE Lookup(t) BY <2>1 DEF Lookup
  <2>2. CASE Join(t) BY <2>2 DEF Join
  <2>3. CASE Recheck(t)
    <3>1. CASE clients[want[t]] = None BY <2>3, <3>1 DEF Recheck
    <3>2. CASE clients[want[t]] # None BY <2>3, <3>2, HitLands DEF Arrived
    <3>3. QED BY <3>1, <3>2
  <2>4. CASE DialOk(t) BY <2>4 DEF DialOk
  <2>5. CASE DialFails(t) BY <2>5, FailureLands DEF Arrived
  <2>6. CASE Install(t) BY <2>6, InstallLands DEF Arrived
  <2>7. QED BY <1>2, <2>1, <2>2, <2>3, <2>4, <2>5, <2>6 DEF GetStep
<1>3. ASSUME NEW t \in Calls, RunStep(t) PROVE LocalsOK'
  <2>1. CASE RunOk(t) BY <2>1 DEF RunOk
  <2>2. CASE RunFails(t) BY <2>2 DEF RunFails
  <2>3. CASE RunCancelled(t) BY <2>3 DEF RunCancelled
  <2>4. QED BY <1>3, <2>1, <2>2, <2>3 DEF RunStep
<1>4. ASSUME NEW t \in Calls, EndStep(t) PROVE LocalsOK'
  <2>1. CASE Judge(t) BY <2>1 DEF Judge
  <2>2. CASE Forget(t) BY <2>2 DEF Forget
  <2>3. CASE Remove(t) BY <2>3 DEF Remove, Again
  <2>4. CASE Close(t) BY <2>4 DEF Close, CloseBoth, Again
  <2>5. QED BY <1>4, <2>1, <2>2, <2>3, <2>4 DEF EndStep
<1>5. CASE Cancel BY <1>5 DEF Cancel
<1>6. CASE StopStep
  <2>1. CASE CloseSwap BY <2>1 DEF CloseSwap
  <2>2. CASE CloseEnd BY <2>2 DEF CloseEnd
  <2>3. ASSUME NEW c \in Clients, CloseVictim(c) PROVE LocalsOK'
    BY <2>3 DEF CloseVictim, CloseBoth
  <2>4. QED BY <1>6, <2>1, <2>2, <2>3 DEF StopStep
<1>7. CASE UNCHANGED vars BY <1>7 DEF vars
<1> HIDE DEF TypeOK, LocalsOK, SlotsDistinct, Cancelled
<1>8. QED
  BY <1>1, <1>2, <1>3, <1>4, <1>5, <1>6, <1>7 DEF Next

\* No action takes the function of an asset from the call that runs it.
LEMMA FlightStep == TypeOK /\ LocalsOK /\ FlightOwned /\ TypeOK' /\ [Next]_vars => FlightOwned'
<1> SUFFICES ASSUME TypeOK, LocalsOK, FlightOwned, TypeOK', [Next]_vars PROVE FlightOwned'
  OBVIOUS
<1> USE CacheAssumption DEF TypeOK, Goto, callVars, LocalsOK, FlightOwned
<1>1. ASSUME NEW t \in Calls, NEW a \in Assets, Start(t, a) PROVE FlightOwned'
  BY <1>1 DEF Start
<1>2. ASSUME NEW t \in Calls, GetStep(t) PROVE FlightOwned'
  <2>1. CASE Lookup(t) BY <2>1 DEF Lookup
  <2>2. CASE Join(t) BY <2>2 DEF Join
  <2>3. CASE Recheck(t)
    <3>1. CASE clients[want[t]] = None BY <2>3, <3>1 DEF Recheck
    <3>2. CASE clients[want[t]] # None BY <2>3, <3>2, HitLands DEF Arrived
    <3>3. QED BY <3>1, <3>2
  <2>4. CASE DialOk(t) BY <2>4 DEF DialOk
  <2>5. CASE DialFails(t) BY <2>5, FailureLands DEF Arrived
  <2>6. CASE Install(t) BY <2>6, InstallLands DEF Arrived
  <2>7. QED BY <1>2, <2>1, <2>2, <2>3, <2>4, <2>5, <2>6 DEF GetStep
<1>3. ASSUME NEW t \in Calls, RunStep(t) PROVE FlightOwned'
  <2>1. CASE RunOk(t) BY <2>1 DEF RunOk
  <2>2. CASE RunFails(t) BY <2>2 DEF RunFails
  <2>3. CASE RunCancelled(t) BY <2>3 DEF RunCancelled
  <2>4. QED BY <1>3, <2>1, <2>2, <2>3 DEF RunStep
<1>4. ASSUME NEW t \in Calls, EndStep(t) PROVE FlightOwned'
  <2>1. CASE Judge(t) BY <2>1 DEF Judge
  <2>2. CASE Forget(t) BY <2>2 DEF Forget
  <2>3. CASE Remove(t) BY <2>3 DEF Remove, Again
  <2>4. CASE Close(t) BY <2>4 DEF Close, CloseBoth, Again
  <2>5. QED BY <1>4, <2>1, <2>2, <2>3, <2>4 DEF EndStep
<1>5. CASE Cancel BY <1>5 DEF Cancel
<1>6. CASE StopStep
  <2>1. CASE CloseSwap BY <2>1 DEF CloseSwap
  <2>2. CASE CloseEnd BY <2>2 DEF CloseEnd
  <2>3. ASSUME NEW c \in Clients, CloseVictim(c) PROVE FlightOwned'
    BY <2>3 DEF CloseVictim, CloseBoth
  <2>4. QED BY <1>6, <2>1, <2>2, <2>3 DEF StopStep
<1>7. CASE UNCHANGED vars BY <1>7 DEF vars
<1> HIDE DEF TypeOK, LocalsOK, FlightOwned
<1>8. QED
  BY <1>1, <1>2, <1>3, <1>4, <1>5, <1>6, <1>7 DEF Next

\* Nobody joins a dial that has ended: the end of the function tells the calls
\* that joined it and leaves singleflight empty.
LEMMA JoinersStep ==
  TypeOK /\ LocalsOK /\ FlightOwned /\ JoinersServed /\ TypeOK' /\ [Next]_vars => JoinersServed'
<1> SUFFICES ASSUME TypeOK, LocalsOK, FlightOwned, JoinersServed, TypeOK', [Next]_vars PROVE JoinersServed'
  OBVIOUS
<1> USE CacheAssumption DEF TypeOK, Goto, callVars, LocalsOK, FlightOwned, JoinersServed
<1>1. ASSUME NEW t \in Calls, NEW a \in Assets, Start(t, a) PROVE JoinersServed'
  BY <1>1 DEF Start
<1>2. ASSUME NEW t \in Calls, GetStep(t) PROVE JoinersServed'
  <2>1. CASE Lookup(t) BY <2>1 DEF Lookup
  <2>2. CASE Join(t) BY <2>2 DEF Join
  <2>3. CASE Recheck(t)
    <3>1. CASE clients[want[t]] = None BY <2>3, <3>1 DEF Recheck
    <3>2. CASE clients[want[t]] # None BY <2>3, <3>2, HitLands DEF Arrived
    <3>3. QED BY <3>1, <3>2
  <2>4. CASE DialOk(t) BY <2>4 DEF DialOk
  <2>5. CASE DialFails(t) BY <2>5, FailureLands DEF Arrived
  <2>6. CASE Install(t) BY <2>6, InstallLands DEF Arrived
  <2>7. QED BY <1>2, <2>1, <2>2, <2>3, <2>4, <2>5, <2>6 DEF GetStep
<1>3. ASSUME NEW t \in Calls, RunStep(t) PROVE JoinersServed'
  <2>1. CASE RunOk(t) BY <2>1 DEF RunOk
  <2>2. CASE RunFails(t) BY <2>2 DEF RunFails
  <2>3. CASE RunCancelled(t) BY <2>3 DEF RunCancelled
  <2>4. QED BY <1>3, <2>1, <2>2, <2>3 DEF RunStep
<1>4. ASSUME NEW t \in Calls, EndStep(t) PROVE JoinersServed'
  <2>1. CASE Judge(t) BY <2>1 DEF Judge
  <2>2. CASE Forget(t) BY <2>2 DEF Forget
  <2>3. CASE Remove(t) BY <2>3 DEF Remove, Again
  <2>4. CASE Close(t) BY <2>4 DEF Close, CloseBoth, Again
  <2>5. QED BY <1>4, <2>1, <2>2, <2>3, <2>4 DEF EndStep
<1>5. CASE Cancel BY <1>5 DEF Cancel
<1>6. CASE StopStep
  <2>1. CASE CloseSwap BY <2>1 DEF CloseSwap
  <2>2. CASE CloseEnd BY <2>2 DEF CloseEnd
  <2>3. ASSUME NEW c \in Clients, CloseVictim(c) PROVE JoinersServed'
    BY <2>3 DEF CloseVictim, CloseBoth
  <2>4. QED BY <1>6, <2>1, <2>2, <2>3 DEF StopStep
<1>7. CASE UNCHANGED vars BY <1>7 DEF vars
<1> HIDE DEF TypeOK, LocalsOK, FlightOwned, JoinersServed
<1>8. QED
  BY <1>1, <1>2, <1>3, <1>4, <1>5, <1>6, <1>7 DEF Next

\* No action fills or leaves the slot of a dial but the dial itself.
LEMMA DialStep == TypeOK /\ LocalsOK /\ FlightOwned /\ OneDial /\ FlightOwned' /\ TypeOK' /\ [Next]_vars => OneDial'
<1> SUFFICES ASSUME TypeOK, LocalsOK, FlightOwned, OneDial, FlightOwned', TypeOK', [Next]_vars PROVE OneDial'
  OBVIOUS
<1> USE CacheAssumption DEF TypeOK, Goto, callVars, LocalsOK, FlightOwned, OneDial, Dialling
<1>1. ASSUME NEW t \in Calls, NEW a \in Assets, Start(t, a) PROVE OneDial'
  BY <1>1 DEF Start
<1>2. ASSUME NEW t \in Calls, GetStep(t) PROVE OneDial'
  <2>1. CASE Lookup(t) BY <2>1 DEF Lookup
  <2>2. CASE Join(t) BY <2>2 DEF Join
  <2>3. CASE Recheck(t)
    <3>1. CASE clients[want[t]] = None BY <2>3, <3>1 DEF Recheck
    <3>2. CASE clients[want[t]] # None BY <2>3, <3>2, HitLands DEF Arrived
    <3>3. QED BY <3>1, <3>2
  <2>4. CASE DialOk(t) BY <2>4 DEF DialOk
  <2>5. CASE DialFails(t) BY <2>5, FailureLands DEF Arrived
  <2>6. CASE Install(t) BY <2>6, InstallLands DEF Arrived
  <2>7. QED BY <1>2, <2>1, <2>2, <2>3, <2>4, <2>5, <2>6 DEF GetStep
<1>3. ASSUME NEW t \in Calls, RunStep(t) PROVE OneDial'
  <2>1. CASE RunOk(t) BY <2>1 DEF RunOk
  <2>2. CASE RunFails(t) BY <2>2 DEF RunFails
  <2>3. CASE RunCancelled(t) BY <2>3 DEF RunCancelled
  <2>4. QED BY <1>3, <2>1, <2>2, <2>3 DEF RunStep
<1>4. ASSUME NEW t \in Calls, EndStep(t) PROVE OneDial'
  <2>1. CASE Judge(t) BY <2>1 DEF Judge
  <2>2. CASE Forget(t) BY <2>2 DEF Forget
  <2>3. CASE Remove(t) BY <2>3 DEF Remove, Again
  <2>4. CASE Close(t) BY <2>4 DEF Close, CloseBoth, Again
  <2>5. QED BY <1>4, <2>1, <2>2, <2>3, <2>4 DEF EndStep
<1>5. CASE Cancel BY <1>5 DEF Cancel
<1>6. CASE StopStep
  <2>1. CASE CloseSwap BY <2>1 DEF CloseSwap
  <2>2. CASE CloseEnd BY <2>2 DEF CloseEnd
  <2>3. ASSUME NEW c \in Clients, CloseVictim(c) PROVE OneDial'
    BY <2>3 DEF CloseVictim, CloseBoth
  <2>4. QED BY <1>6, <2>1, <2>2, <2>3 DEF StopStep
<1>7. CASE UNCHANGED vars BY <1>7 DEF vars
<1> HIDE DEF TypeOK, LocalsOK, FlightOwned, OneDial, Dialling
<1>8. QED
  BY <1>1, <1>2, <1>3, <1>4, <1>5, <1>6, <1>7 DEF Next

\* A client gets its slot once, with its tunnel.
LEMMA SlotsStep == TypeOK /\ LocalsOK /\ SlotsDistinct /\ InstallAlone /\ TypeOK' /\ [Next]_vars => SlotsDistinct'
<1> SUFFICES ASSUME TypeOK, LocalsOK, SlotsDistinct, InstallAlone, TypeOK', [Next]_vars PROVE SlotsDistinct'
  OBVIOUS
<1> USE CacheAssumption DEF TypeOK, Goto, callVars, LocalsOK, SlotsDistinct, InstallAlone
<1>1. ASSUME NEW t \in Calls, NEW a \in Assets, Start(t, a) PROVE SlotsDistinct'
  BY <1>1 DEF Start
<1>2. ASSUME NEW t \in Calls, GetStep(t) PROVE SlotsDistinct'
  <2>1. CASE Lookup(t) BY <2>1 DEF Lookup
  <2>2. CASE Join(t) BY <2>2 DEF Join
  <2>3. CASE Recheck(t)
    <3>1. CASE clients[want[t]] = None BY <2>3, <3>1 DEF Recheck
    <3>2. CASE clients[want[t]] # None BY <2>3, <3>2, HitLands DEF Arrived
    <3>3. QED BY <3>1, <3>2
  <2>4. CASE DialOk(t) BY <2>4 DEF DialOk
  <2>5. CASE DialFails(t) BY <2>5, FailureLands DEF Arrived
  <2>6. CASE Install(t) BY <2>6, InstallLands DEF Arrived
  <2>7. QED BY <1>2, <2>1, <2>2, <2>3, <2>4, <2>5, <2>6 DEF GetStep
<1>3. ASSUME NEW t \in Calls, RunStep(t) PROVE SlotsDistinct'
  <2>1. CASE RunOk(t) BY <2>1 DEF RunOk
  <2>2. CASE RunFails(t) BY <2>2 DEF RunFails
  <2>3. CASE RunCancelled(t) BY <2>3 DEF RunCancelled
  <2>4. QED BY <1>3, <2>1, <2>2, <2>3 DEF RunStep
<1>4. ASSUME NEW t \in Calls, EndStep(t) PROVE SlotsDistinct'
  <2>1. CASE Judge(t) BY <2>1 DEF Judge
  <2>2. CASE Forget(t) BY <2>2 DEF Forget
  <2>3. CASE Remove(t) BY <2>3 DEF Remove, Again
  <2>4. CASE Close(t) BY <2>4 DEF Close, CloseBoth, Again
  <2>5. QED BY <1>4, <2>1, <2>2, <2>3, <2>4 DEF EndStep
<1>5. CASE Cancel BY <1>5 DEF Cancel
<1>6. CASE StopStep
  <2>1. CASE CloseSwap BY <2>1 DEF CloseSwap
  <2>2. CASE CloseEnd BY <2>2 DEF CloseEnd
  <2>3. ASSUME NEW c \in Clients, CloseVictim(c) PROVE SlotsDistinct'
    BY <2>3 DEF CloseVictim, CloseBoth
  <2>4. QED BY <1>6, <2>1, <2>2, <2>3 DEF StopStep
<1>7. CASE UNCHANGED vars BY <1>7 DEF vars
<1> HIDE DEF TypeOK, LocalsOK, SlotsDistinct, InstallAlone
<1>8. QED
  BY <1>1, <1>2, <1>3, <1>4, <1>5, <1>6, <1>7 DEF Next

\* Nobody touches what another call is about to install.
LEMMA InstallStep == TypeOK /\ LocalsOK /\ FlightOwned /\ SlotsDistinct /\ InstallAlone /\ TakenOut /\ TypeOK' /\ [Next]_vars => InstallAlone'
<1> SUFFICES ASSUME TypeOK, LocalsOK, FlightOwned, SlotsDistinct, InstallAlone, TakenOut, TypeOK', [Next]_vars PROVE InstallAlone'
  OBVIOUS
<1> USE CacheAssumption DEF TypeOK, Goto, callVars, LocalsOK, FlightOwned, SlotsDistinct, InstallAlone, TakenOut
<1>1. ASSUME NEW t \in Calls, NEW a \in Assets, Start(t, a) PROVE InstallAlone'
  BY <1>1 DEF Start
<1>2. ASSUME NEW t \in Calls, GetStep(t) PROVE InstallAlone'
  <2>1. CASE Lookup(t) BY <2>1 DEF Lookup
  <2>2. CASE Join(t) BY <2>2 DEF Join
  <2>3. CASE Recheck(t)
    <3>1. CASE clients[want[t]] = None BY <2>3, <3>1 DEF Recheck
    <3>2. CASE clients[want[t]] # None BY <2>3, <3>2, HitLands DEF Arrived
    <3>3. QED BY <3>1, <3>2
  <2>4. CASE DialOk(t) BY <2>4 DEF DialOk
  <2>5. CASE DialFails(t) BY <2>5, FailureLands DEF Arrived
  <2>6. CASE Install(t) BY <2>6, InstallLands DEF Arrived
  <2>7. QED BY <1>2, <2>1, <2>2, <2>3, <2>4, <2>5, <2>6 DEF GetStep
<1>3. ASSUME NEW t \in Calls, RunStep(t) PROVE InstallAlone'
  <2>1. CASE RunOk(t) BY <2>1 DEF RunOk
  <2>2. CASE RunFails(t) BY <2>2 DEF RunFails
  <2>3. CASE RunCancelled(t) BY <2>3 DEF RunCancelled
  <2>4. QED BY <1>3, <2>1, <2>2, <2>3 DEF RunStep
<1>4. ASSUME NEW t \in Calls, EndStep(t) PROVE InstallAlone'
  <2>1. CASE Judge(t) BY <2>1 DEF Judge
  <2>2. CASE Forget(t) BY <2>2 DEF Forget
  <2>3. CASE Remove(t) BY <2>3 DEF Remove, Again
  <2>4. CASE Close(t) BY <2>4 DEF Close, CloseBoth, Again
  <2>5. QED BY <1>4, <2>1, <2>2, <2>3, <2>4 DEF EndStep
<1>5. CASE Cancel BY <1>5 DEF Cancel
<1>6. CASE StopStep
  <2>1. CASE CloseSwap BY <2>1 DEF CloseSwap
  <2>2. CASE CloseEnd BY <2>2 DEF CloseEnd
  <2>3. ASSUME NEW c \in Clients, CloseVictim(c) PROVE InstallAlone'
    BY <2>3 DEF CloseVictim, CloseBoth
  <2>4. QED BY <1>6, <2>1, <2>2, <2>3 DEF StopStep
<1>7. CASE UNCHANGED vars BY <1>7 DEF vars
<1> HIDE DEF TypeOK, LocalsOK, FlightOwned, SlotsDistinct, InstallAlone, TakenOut
<1>8. QED
  BY <1>1, <1>2, <1>3, <1>4, <1>5, <1>6, <1>7 DEF Next

\* What was taken out stays out.
LEMMA TakenOutStep == TypeOK /\ LocalsOK /\ SlotsDistinct /\ InstallAlone /\ TakenOut /\ TypeOK' /\ [Next]_vars => TakenOut'
<1> SUFFICES ASSUME TypeOK, LocalsOK, SlotsDistinct, InstallAlone, TakenOut, TypeOK', [Next]_vars PROVE TakenOut'
  OBVIOUS
<1> USE CacheAssumption DEF TypeOK, Goto, callVars, LocalsOK, SlotsDistinct, InstallAlone, TakenOut
<1>1. ASSUME NEW t \in Calls, NEW a \in Assets, Start(t, a) PROVE TakenOut'
  BY <1>1 DEF Start
<1>2. ASSUME NEW t \in Calls, GetStep(t) PROVE TakenOut'
  <2>1. CASE Lookup(t) BY <2>1 DEF Lookup
  <2>2. CASE Join(t) BY <2>2 DEF Join
  <2>3. CASE Recheck(t)
    <3>1. CASE clients[want[t]] = None BY <2>3, <3>1 DEF Recheck
    <3>2. CASE clients[want[t]] # None BY <2>3, <3>2, HitLands DEF Arrived
    <3>3. QED BY <3>1, <3>2
  <2>4. CASE DialOk(t) BY <2>4 DEF DialOk
  <2>5. CASE DialFails(t) BY <2>5, FailureLands DEF Arrived
  <2>6. CASE Install(t) BY <2>6, InstallLands DEF Arrived
  <2>7. QED BY <1>2, <2>1, <2>2, <2>3, <2>4, <2>5, <2>6 DEF GetStep
<1>3. ASSUME NEW t \in Calls, RunStep(t) PROVE TakenOut'
  <2>1. CASE RunOk(t) BY <2>1 DEF RunOk
  <2>2. CASE RunFails(t) BY <2>2 DEF RunFails
  <2>3. CASE RunCancelled(t) BY <2>3 DEF RunCancelled
  <2>4. QED BY <1>3, <2>1, <2>2, <2>3 DEF RunStep
<1>4. ASSUME NEW t \in Calls, EndStep(t) PROVE TakenOut'
  <2>1. CASE Judge(t) BY <2>1 DEF Judge
  <2>2. CASE Forget(t) BY <2>2 DEF Forget
  <2>3. CASE Remove(t) BY <2>3 DEF Remove, Again
  <2>4. CASE Close(t) BY <2>4 DEF Close, CloseBoth, Again
  <2>5. QED BY <1>4, <2>1, <2>2, <2>3, <2>4 DEF EndStep
<1>5. CASE Cancel BY <1>5 DEF Cancel
<1>6. CASE StopStep
  <2>1. CASE CloseSwap BY <2>1 DEF CloseSwap
  <2>2. CASE CloseEnd BY <2>2 DEF CloseEnd
  <2>3. ASSUME NEW c \in Clients, CloseVictim(c) PROVE TakenOut'
    BY <2>3 DEF CloseVictim, CloseBoth
  <2>4. QED BY <1>6, <2>1, <2>2, <2>3 DEF StopStep
<1>7. CASE UNCHANGED vars BY <1>7 DEF vars
<1> HIDE DEF TypeOK, LocalsOK, SlotsDistinct, InstallAlone, TakenOut
<1>8. QED
  BY <1>1, <1>2, <1>3, <1>4, <1>5, <1>6, <1>7 DEF Next

\* While the send runs a client changes hands and is never dropped.
LEMMA LeakStep == TypeOK /\ LocalsOK /\ OneDial /\ SlotsDistinct /\ NoLeakWhileRunning /\ TypeOK' /\ [Next]_vars => NoLeakWhileRunning'
<1> SUFFICES ASSUME TypeOK, LocalsOK, OneDial, SlotsDistinct, NoLeakWhileRunning, TypeOK', [Next]_vars PROVE NoLeakWhileRunning'
  OBVIOUS
<1> USE CacheAssumption DEF TypeOK, Goto, callVars, LocalsOK, OneDial, SlotsDistinct, NoLeakWhileRunning, Cancelled, Dialling
<1>1. ASSUME NEW t \in Calls, NEW a \in Assets, Start(t, a) PROVE NoLeakWhileRunning'
  BY <1>1 DEF Start
<1>2. ASSUME NEW t \in Calls, GetStep(t) PROVE NoLeakWhileRunning'
  <2>1. CASE Lookup(t) BY <2>1 DEF Lookup
  <2>2. CASE Join(t) BY <2>2 DEF Join
  <2>3. CASE Recheck(t)
    <3>1. CASE clients[want[t]] = None BY <2>3, <3>1 DEF Recheck
    <3>2. CASE clients[want[t]] # None BY <2>3, <3>2, HitLands DEF Arrived
    <3>3. QED BY <3>1, <3>2
  <2>4. CASE DialOk(t) BY <2>4 DEF DialOk
  <2>5. CASE DialFails(t) BY <2>5, FailureLands DEF Arrived
  <2>6. CASE Install(t) BY <2>6, InstallLands DEF Arrived
  <2>7. QED BY <1>2, <2>1, <2>2, <2>3, <2>4, <2>5, <2>6 DEF GetStep
<1>3. ASSUME NEW t \in Calls, RunStep(t) PROVE NoLeakWhileRunning'
  <2>1. CASE RunOk(t) BY <2>1 DEF RunOk
  <2>2. CASE RunFails(t) BY <2>2 DEF RunFails
  <2>3. CASE RunCancelled(t) BY <2>3 DEF RunCancelled
  <2>4. QED BY <1>3, <2>1, <2>2, <2>3 DEF RunStep
<1>4. ASSUME NEW t \in Calls, EndStep(t) PROVE NoLeakWhileRunning'
  <2>1. CASE Judge(t) BY <2>1 DEF Judge
  <2>2. CASE Forget(t) BY <2>2 DEF Forget
  <2>3. CASE Remove(t) BY <2>3 DEF Remove, Again
  <2>4. CASE Close(t) BY <2>4 DEF Close, CloseBoth, Again
  <2>5. QED BY <1>4, <2>1, <2>2, <2>3, <2>4 DEF EndStep
<1>5. CASE Cancel BY <1>5 DEF Cancel
<1>6. CASE StopStep
  <2>1. CASE CloseSwap BY <2>1 DEF CloseSwap
  <2>2. CASE CloseEnd BY <2>2 DEF CloseEnd
  <2>3. ASSUME NEW c \in Clients, CloseVictim(c) PROVE NoLeakWhileRunning'
    BY <2>3 DEF CloseVictim, CloseBoth
  <2>4. QED BY <1>6, <2>1, <2>2, <2>3 DEF StopStep
<1>7. CASE UNCHANGED vars BY <1>7 DEF vars
<1> HIDE DEF TypeOK, LocalsOK, OneDial, SlotsDistinct, NoLeakWhileRunning, Cancelled, Dialling
<1>8. QED
  BY <1>1, <1>2, <1>3, <1>4, <1>5, <1>6, <1>7 DEF Next

\* Init establishes the invariant and every action keeps it.
THEOREM Inductive == Spec => []IInv
<1>1. IInv /\ [Next]_vars => IInv'
  BY TypeStep, LocalsStep, FlightStep, JoinersStep, DialStep, SlotsStep, InstallStep, TakenOutStep, LeakStep
     DEF IInv
<1>2. QED
  BY InitIInv, <1>1, PTL DEF Spec

\* The variables keep their types, for any number of assets, calls and dials.
THEOREM TypeCorrect == Spec => []TypeOK
BY Inductive, PTL DEF IInv

\* An asset is never dialled twice at a time, and a dial never finds its slot taken.
THEOREM DialsOnce == Spec => []OneDial
BY Inductive, PTL DEF IInv

\* A call that waits for another's dial waits for one that goes on for its asset:
\* the function of singleflight never ends without telling those who joined it.
THEOREM JoinersAreServed == Spec => []JoinersServed
BY Inductive, PTL DEF IInv

\* Until the send is cancelled no client and no tunnel is lost track of.
THEOREM NothingLeaks == Spec => []NoLeakWhileRunning
BY Inductive, PTL DEF IInv

-----------------------------------------------------------------------------
(* The refinement *)

Installing(c) == \E t \in Calls : pc[t] = "install" /\ conn[t] = c

\* Steps that leave the map, the clients and the private dials alone.
LEMMA Stutter ==
  ASSUME UNCHANGED <<clients, client>>,
         \A t \in Calls : pc'[t] = "install" <=> pc[t] = "install",
         \A t \in Calls : pc[t] = "install" => conn'[t] = conn[t]
  PROVE  Slots!Next \/ UNCHANGED <<clients, Stage>>
<1>1. \A c \in Clients : (\E t \in Calls : pc'[t] = "install" /\ conn'[t] = c)
                         <=> (\E t \in Calls : pc[t] = "install" /\ conn[t] = c)
  OBVIOUS
<1>2. QED BY <1>1 DEF Stage

\* A step that changes one client's stage only.
LEMMA Moved ==
  ASSUME NEW c \in Clients, NEW st, Stage'[c] = st,
         \A d \in Clients \ {c} : Stage'[d] = Stage[d]
  PROVE  Stage' = [Stage EXCEPT ![c] = st]
<1>1. Stage = [d \in Clients |-> Stage[d]]
  BY DEF Stage
<1>2. Stage' = [d \in Clients |-> Stage'[d]]
  BY DEF Stage
<1>3. QED BY <1>1, <1>2

\* Closing a client that nobody is installing is Discard, unless it is closed already or
\* still has its slot.
LEMMA CloseRefines ==
  ASSUME TypeOK, NEW c \in Clients, client[c] # "fresh", ~Installing(c),
         clients' = clients, client' = [client EXCEPT ![c] = "closed"],
         \A d \in Clients : Installing(d)' <=> Installing(d)
  PROVE  Slots!Next \/ UNCHANGED <<clients, Stage>>
<1>1. \A d \in Clients \ {c} : Stage'[d] = Stage[d]
  BY DEF Stage, TypeOK, Installing
<1>2. CASE client[c] = "closed" \/ \E a \in Assets : clients[a] = c
  <2>1. Stage'[c] = Stage[c]
    BY <1>2 DEF Stage, TypeOK
  <2>2. Stage' = Stage
    BY <1>1, <2>1 DEF Stage
  <2>3. QED BY <2>2
<1>3. CASE client[c] = "open" /\ \A a \in Assets : clients[a] # c
  <2>1. Stage[c] = "retired"
    BY <1>3 DEF Stage, Installing
  <2>2. Stage'[c] = "closed"
    BY <1>3 DEF Stage, TypeOK
  <2>3. Stage' = [Stage EXCEPT ![c] = "closed"]
    BY <1>1, <2>2, Moved
  <2>4. QED BY <2>1, <2>3 DEF Slots!Next, Slots!Discard
<1>4. QED BY <1>2, <1>3 DEF TypeOK

\* Taking an entry out of the map is Retire, or Evict if its client was closed in its slot.
LEMMA EmptyRefines ==
  ASSUME TypeOK, SlotsDistinct, InstallAlone, NEW a \in Assets,
         clients' = [clients EXCEPT ![a] = None], client' = client,
         \A d \in Clients : Installing(d)' <=> Installing(d)
  PROVE  Slots!Next \/ UNCHANGED <<clients, Stage>>
<1>1. CASE clients[a] = None
  <2>1. clients' = clients
    BY <1>1 DEF TypeOK
  <2>2. Stage' = Stage
    BY <2>1 DEF Stage, Installing
  <2>3. QED BY <2>1, <2>2
<1>2. CASE clients[a] # None
  <2> DEFINE c == clients[a]
  <2>1. c \in Clients /\ client[c] \in {"open", "closed"} /\ \A b \in Assets : clients[b] = c => b = a
    BY <1>2 DEF TypeOK, SlotsDistinct
  <2>2. ~Installing(c)
    BY DEF Installing, InstallAlone
  <2>3. c # None
    BY <1>2
  <2>4. Stage[c] = "shared"
    BY <2>1 DEF Stage
  <2>5. \A b \in Assets : clients'[b] # c
    BY <2>1, <2>3 DEF TypeOK
  <2>6. Stage'[c] = IF client[c] = "closed" THEN "closed" ELSE "retired"
    BY <2>1, <2>2, <2>5 DEF Stage, Installing
  <2>7. \A d \in Clients \ {c} : (\E b \in Assets : clients'[b] = d) <=> (\E b \in Assets : clients[b] = d)
    BY CacheAssumption DEF TypeOK
  <2>8. \A d \in Clients \ {c} : Stage'[d] = Stage[d]
    BY <2>7 DEF Stage, Installing
  <2>9. Stage' = [Stage EXCEPT ![c] = IF client[c] = "closed" THEN "closed" ELSE "retired"]
    BY <2>1, <2>6, <2>8, Moved
  <2>10. QED
    BY <2>1, <2>4, <2>9 DEF Slots!Next, Slots!Retire, Slots!Evict
<1>3. QED BY <1>1, <1>2

\* A successful dial is Open.
LEMMA DialOkRefines ==
  ASSUME TypeOK, LocalsOK, SlotsDistinct, NEW t \in Calls, DialOk(t)
  PROVE  Slots!Next \/ UNCHANGED <<clients, Stage>>
<1>1. PICK c \in Clients : /\ client[c] = "fresh" /\ client' = [client EXCEPT ![c] = "open"]
                           /\ conn' = [conn EXCEPT ![t] = c]
  BY DEF DialOk
<1>2. clients' = clients /\ pc[t] = "dial" /\ pc' = [pc EXCEPT ![t] = "install"]
  BY DEF DialOk, Goto
<1>3. Stage[c] = "fresh"
  BY <1>1 DEF Stage
<1>4. \A a \in Assets : clients[a] # c
  BY <1>1 DEF SlotsDistinct
<1>5. Stage'[c] = "private"
  BY <1>1, <1>2, <1>4 DEF Stage, TypeOK
<1>6. \A d \in Clients \ {c} : Installing(d)' <=> Installing(d)
  BY <1>1, <1>2 DEF Installing, TypeOK
<1>7. \A d \in Clients \ {c} : Stage'[d] = Stage[d]
  BY <1>1, <1>2, <1>6 DEF Stage, Installing, TypeOK
<1>8. Stage' = [Stage EXCEPT ![c] = "private"]
  BY <1>5, <1>7, Moved
<1>9. QED
  BY <1>2, <1>3, <1>8 DEF Slots!Next, Slots!Open

\* Putting the dialled client into the map is Install.
LEMMA InstallRefines ==
  ASSUME TypeOK, LocalsOK, OneDial, InstallAlone, NEW t \in Calls, Install(t)
  PROVE  Slots!Next \/ UNCHANGED <<clients, Stage>>
<1> DEFINE c == conn[t]
           a == want[t]
<1>1. /\ a \in Assets /\ c \in Clients /\ pc[t] = "install" /\ client' = client
      /\ clients' = [clients EXCEPT ![a] = c]
      /\ pc'[t] # "install"
      /\ \A u \in Calls \ {t} : pc'[u] = "install" <=> pc[u] = "install"
      /\ \A u \in Calls \ {t} : pc[u] = "install" => conn'[u] = conn[u]
  BY InstallLands DEF Arrived
<1>2. clients[a] = None
  BY <1>1 DEF OneDial, Dialling
<1>3. client[c] = "open" /\ \A b \in Assets : clients[b] # c
  BY <1>1 DEF InstallAlone
<1>4. Stage[c] = "private"
  BY <1>1, <1>3 DEF Stage
<1>5. Stage'[c] = "shared"
  BY <1>1, <1>3 DEF Stage, TypeOK
<1>6. \A d \in Clients \ {c} : Installing(d)' <=> Installing(d)
  BY <1>1 DEF Installing
<1>7. \A d \in Clients \ {c} : (\E b \in Assets : clients'[b] = d) <=> (\E b \in Assets : clients[b] = d)
  BY <1>1, <1>2, CacheAssumption DEF TypeOK
<1>8. \A d \in Clients \ {c} : Stage'[d] = Stage[d]
  BY <1>1, <1>6, <1>7 DEF Stage, Installing
<1>9. Stage' = [Stage EXCEPT ![c] = "shared"]
  BY <1>1, <1>5, <1>8, Moved
<1>10. QED
  BY <1>1, <1>2, <1>4, <1>9 DEF Slots!Next, Slots!Install

\* Close's exchange of the maps is Clear; what was closed in its slot counts as closed.
LEMMA SwapRefines ==
  ASSUME TypeOK, InstallAlone, CloseSwap
  PROVE  Slots!Next \/ UNCHANGED <<clients, Stage>>
<1> DEFINE shut == {c \in Clients : client[c] = "closed"}
<1>1. /\ clients' = [a \in Assets |-> None]
      /\ UNCHANGED <<client, pc, conn>>
  BY DEF CloseSwap, callVars
<1>2. clients' = [k \in Assets |-> IF k \in Assets THEN None ELSE clients[k]]
  BY <1>1
<1>3. ASSUME NEW c \in Clients
      PROVE  Stage'[c] = IF Stage[c] # "shared" \/ \A k \in Assets : clients[k] # c THEN Stage[c]
                         ELSE IF c \in shut THEN "closed" ELSE "retired"
  <2>1. \A k \in Assets : clients'[k] # c
    BY <1>1, CacheAssumption
  <2>2. CASE \A k \in Assets : clients[k] # c
    BY <1>1, <2>1, <2>2 DEF Stage
  <2>3. CASE client[c] = "fresh"
    BY <1>1, <2>3 DEF Stage
  <2>4. CASE client[c] # "fresh" /\ \E k \in Assets : clients[k] = c
    <3>1. ~Installing(c)
      BY <2>4 DEF Installing, InstallAlone
    <3>2. Stage[c] = "shared"
      BY <2>4 DEF Stage
    <3>3. Stage'[c] = IF client[c] = "closed" THEN "closed" ELSE "retired"
      BY <1>1, <2>1, <2>4, <3>1 DEF Stage, Installing
    <3>4. QED BY <2>4, <3>2, <3>3
  <2>5. QED BY <2>2, <2>3, <2>4
<1>4. Stage' = [c \in Clients |->
                  IF Stage[c] # "shared" \/ \A k \in Assets : clients[k] # c THEN Stage[c]
                  ELSE IF c \in shut THEN "closed" ELSE "retired"]
  BY <1>3 DEF Stage
<1>5. Slots!Clear(Assets, shut)
  BY <1>2, <1>4 DEF Slots!Clear
<1>6. QED
  BY <1>5 DEF Slots!Next

\* Every step of the cache is a step of the contract, or none.
LEMMA RefineStep == IInv /\ [Next]_vars => [Slots!Next]_(Slots!vars)
<1> SUFFICES ASSUME IInv, [Next]_vars
             PROVE  Slots!Next \/ UNCHANGED <<clients, Stage>>
  BY DEF Slots!vars
<1> DEFINE Refined == Slots!Next \/ UNCHANGED <<clients, Stage>>
<1> USE DEF IInv, Goto, callVars
<1>1. ASSUME NEW t \in Calls, NEW a \in Assets, Start(t, a) PROVE Refined
  BY <1>1, Stutter DEF Start, TypeOK
<1>2. ASSUME NEW t \in Calls, GetStep(t) PROVE Refined
  <2>1. CASE Lookup(t) BY <2>1, Stutter DEF Lookup, TypeOK
  <2>2. CASE Join(t)   BY <2>2, Stutter DEF Join, TypeOK
  <2>3. CASE Recheck(t)
    <3>1. CASE clients[want[t]] = None BY <2>3, <3>1, Stutter DEF Recheck, TypeOK
    <3>2. CASE clients[want[t]] # None BY <2>3, <3>2, HitLands, Stutter DEF Arrived
    <3>3. QED BY <3>1, <3>2
  <2>4. CASE DialFails(t) BY <2>4, FailureLands, Stutter DEF Arrived
  <2>5. QED BY <1>2, <2>1, <2>2, <2>3, <2>4, DialOkRefines, InstallRefines DEF GetStep
<1>3. ASSUME NEW t \in Calls, RunStep(t) PROVE Refined
  <2>1. CASE RunOk(t)    BY <2>1, Stutter DEF RunOk, TypeOK
  <2>2. CASE RunFails(t) BY <2>2, Stutter DEF RunFails, TypeOK
  <2>3. CASE RunCancelled(t)
    <3>1. conn[t] \in Clients /\ client[conn[t]] # "fresh" /\ ~Installing(conn[t])
      BY <2>3 DEF RunCancelled, LocalsOK, InstallAlone, Installing
    <3>2. \A d \in Clients : Installing(d)' <=> Installing(d)
      BY <2>3 DEF RunCancelled, Installing, TypeOK
    <3>3. QED BY <2>3, <3>1, <3>2, CloseRefines DEF RunCancelled
  <2>4. QED BY <1>3, <2>1, <2>2, <2>3 DEF RunStep
<1>4. ASSUME NEW t \in Calls, EndStep(t) PROVE Refined
  <2>1. CASE Judge(t) BY <2>1, Stutter DEF Judge, TypeOK
  <2>2. CASE Forget(t)
    <3>1. want[t] \in Assets
      BY <2>2 DEF Forget, LocalsOK
    <3>2. \A d \in Clients : Installing(d)' <=> Installing(d)
      BY <2>2 DEF Forget, Installing, TypeOK
    <3>3. QED BY <2>2, <3>1, <3>2, EmptyRefines DEF Forget
  <2>3. CASE Remove(t)
    <3>1. want[t] \in Assets
      BY <2>3 DEF Remove, LocalsOK
    <3>2. \A d \in Clients : Installing(d)' <=> Installing(d)
      BY <2>3 DEF Remove, Again, Installing, TypeOK
    <3>3. QED BY <2>3, <3>1, <3>2, EmptyRefines DEF Remove
  <2>4. CASE Close(t)
    <3>1. conn[t] \in Clients /\ client[conn[t]] # "fresh" /\ ~Installing(conn[t])
      BY <2>4 DEF Close, LocalsOK, InstallAlone, Installing
    <3>2. \A d \in Clients : Installing(d)' <=> Installing(d)
      BY <2>4 DEF Close, Again, Installing, TypeOK
    <3>3. QED BY <2>4, <3>1, <3>2, CloseRefines DEF Close, CloseBoth
  <2>5. QED BY <1>4, <2>1, <2>2, <2>3, <2>4 DEF EndStep
<1>5. CASE Cancel BY <1>5, Stutter DEF Cancel
<1>6. CASE StopStep
  <2>1. CASE CloseEnd BY <2>1, Stutter DEF CloseEnd
  <2>2. ASSUME NEW c \in Clients, CloseVictim(c) PROVE Refined
    <3>1. client[c] # "fresh" /\ ~Installing(c)
      BY <2>2 DEF CloseVictim, TakenOut, InstallAlone, Installing
    <3>2. \A d \in Clients : Installing(d)' <=> Installing(d)
      BY <2>2 DEF CloseVictim, Installing
    <3>3. QED BY <2>2, <3>1, <3>2, CloseRefines DEF CloseVictim, CloseBoth
  <2>3. QED BY <1>6, <2>1, <2>2, SwapRefines DEF StopStep
<1>7. CASE UNCHANGED vars BY <1>7, Stutter DEF vars
<1> HIDE DEF IInv
<1>8. QED
  BY <1>1, <1>2, <1>3, <1>4, <1>5, <1>6, <1>7 DEF Next

\* The cache of a send implements the cache contract: a client is shared under one asset,
\* installed only into an empty slot, and never shared again once it has left it.
THEOREM Refinement == Spec => SlotsSafety
<1>1. Init => Slots!Init
  BY CacheAssumption DEF Init, Slots!Init, Stage
<1>2. QED
  BY Inductive, <1>1, RefineStep, PTL DEF Spec, SlotsSafety, Slots!Safety
=============================================================================
