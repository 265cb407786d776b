--------------------------- MODULE SSHPoolProofs ---------------------------
(***************************************************************************)
(* Theorems about SSHPool for any number of assets, goroutines and dials.  *)
(* The invariant that carries them is ownership: an open client has one    *)
(* owner, the map, the goroutine that dialled it, or the goroutine that    *)
(* took it out of the map (PrivateOwned and RemovedOwned in SSHPool). On   *)
(* it rest the counts up to an eviction (CountInv), the totals after one   *)
(* (BalanceInv) and who keeps which lock (LocksHeld).                      *)
(***************************************************************************)
EXTENDS SSHPool, FiniteSetTheorems, TLAPS

-----------------------------------------------------------------------------

\* The pool starts with no client, which nobody owns.
LEMMA InitOwnInv == Init => OwnInv
<1> SUFFICES ASSUME Init PROVE OwnInv
  OBVIOUS
<1> USE PoolAssumption
<1>1. TypeOK
  BY DEF Init, TypeOK, PCs
<1>2. QED
  BY <1>1 DEF Init, OwnInv, LocalsOK, VisitsMapped, MappedOpen, PrivateOwned,
              RemovedOwned, OneCloser, NoOrphan, Private, Closing, Holds, Mapped

\* Every action keeps the types.
LEMMA TypeStep == TypeOK /\ LocalsOK /\ VisitsMapped /\ [Next]_vars => TypeOK'
<1> SUFFICES ASSUME TypeOK, LocalsOK, VisitsMapped, [Next]_vars PROVE TypeOK'
  OBVIOUS
<1> USE PoolAssumption DEF TypeOK, PCs, Goto, connVars, lockVars, procVars
<1>1. ASSUME NEW p \in Procs, GetStep(p) PROVE TypeOK'
  <2>1. CASE Lookup(p)     BY <2>1 DEF Lookup, LocalsOK
  <2>2. CASE ProbeStart(p) BY <2>2 DEF ProbeStart
  <2>3. CASE ProbeEnd(p)   BY <2>3 DEF ProbeEnd
  <2>4. CASE Acquire(p)    BY <2>4 DEF Acquire, LocalsOK
  <2>5. CASE DialOk(p)     BY <2>5 DEF DialOk
  <2>6. CASE DialFails(p)  BY <2>6 DEF DialFails
  <2>7. CASE Insert(p)     BY <2>7 DEF Insert, LocalsOK, Private
  <2>8. CASE Discard(p)    BY <2>8 DEF Discard, CloseClient
  <2>9. CASE Remove(p)     BY <2>9 DEF Remove, LocalsOK
  <2>10. CASE Close(p)     BY <2>10 DEF Close, CloseClient
  <2>11. QED
    BY <1>1, <2>1, <2>2, <2>3, <2>4, <2>5, <2>6, <2>7, <2>8, <2>9, <2>10 DEF GetStep
<1>2. ASSUME NEW p \in Procs, ReleaseStep(p) PROVE TypeOK'
  <2>1. CASE Release(p)   BY <2>1 DEF Release, Return, LocalsOK
  <2>2. CASE Decrement(p) BY <2>2 DEF Decrement, Return, LocalsOK
  <2>3. QED BY <1>2, <2>1, <2>2 DEF ReleaseStep
<1>3. ASSUME NEW p \in Procs, CallerStep(p) PROVE TypeOK'
  <2>1. CASE \E a \in Assets : Call(p, a) BY <2>1 DEF Call
  <2>2. CASE Finish(p)       BY <2>2 DEF Finish
  <2>3. CASE SessionError(p) BY <2>3 DEF SessionError
  <2>4. QED BY <1>3, <2>1, <2>2, <2>3 DEF CallerStep
<1>4. CASE SweepStart BY <1>4 DEF SweepStart, Mapped
<1>5. CASE SweepStep
  <2>1. CASE SweepEnd BY <2>1 DEF SweepEnd
  <2>2. ASSUME NEW a \in Assets, SweepCheck(a) PROVE TypeOK'
    BY <2>2 DEF SweepCheck
  <2>3. ASSUME NEW a \in Assets, SweepClose(a) PROVE TypeOK'
    BY <2>3 DEF SweepClose, CloseMapped, CloseClient
  <2>4. QED BY <1>5, <2>1, <2>2, <2>3 DEF SweepStep
<1>6. CASE CloseBegin \/ CleanerExit BY <1>6 DEF CloseBegin, CleanerExit
<1>7. CASE DrainStep
  <2>1. CASE DrainStart BY <2>1 DEF DrainStart, Mapped
  <2>2. CASE DrainEnd   BY <2>2 DEF DrainEnd
  <2>3. ASSUME NEW a \in Assets, DrainClose(a) PROVE TypeOK'
    BY <2>3 DEF DrainClose, CloseMapped, CloseClient
  <2>4. QED BY <1>7, <2>1, <2>2, <2>3 DEF DrainStep
<1>8. ASSUME NEW c \in Clients, Drop(c) \/ Expire(c) PROVE TypeOK'
  BY <1>8 DEF Drop, Expire
<1>9. CASE UNCHANGED vars BY <1>9 DEF vars
<1>10. QED
  BY <1>1, <1>2, <1>3, <1>4, <1>5, <1>6, <1>7, <1>8, <1>9 DEF Next

\* The rest of the invariant.
Owned == /\ LocalsOK /\ VisitsMapped /\ MappedOpen
         /\ PrivateOwned /\ RemovedOwned /\ OneCloser /\ NoOrphan

\* Every action keeps it.
LEMMA OwnStep == OwnInv /\ TypeOK' /\ [Next]_vars => Owned'
<1> SUFFICES ASSUME OwnInv, TypeOK', [Next]_vars PROVE Owned'
  OBVIOUS
<1> USE PoolAssumption
    DEF OwnInv, Owned, TypeOK, PCs, LocalsOK, VisitsMapped, MappedOpen, PrivateOwned,
        RemovedOwned, OneCloser, NoOrphan, Goto, connVars, lockVars, procVars,
        Private, Closing, Holds, Mapped
<1>1. ASSUME NEW p \in Procs, GetStep(p) PROVE Owned'
  <2>1. CASE Lookup(p)
    <3>1. LocalsOK'     BY <2>1 DEF Lookup
    <3>2. VisitsMapped' BY <2>1 DEF Lookup
    <3>3. MappedOpen'   BY <2>1 DEF Lookup
    <3>4. PrivateOwned' BY <2>1 DEF Lookup
    <3>5. RemovedOwned' BY <2>1 DEF Lookup
    <3>6. OneCloser'    BY <2>1 DEF Lookup
    <3>7. NoOrphan'     BY <2>1 DEF Lookup
    <3>8. QED BY <3>1, <3>2, <3>3, <3>4, <3>5, <3>6, <3>7
  <2>2. CASE ProbeStart(p) BY <2>2 DEF ProbeStart
  <2>3. CASE ProbeEnd(p)   BY <2>3 DEF ProbeEnd
  <2>4. CASE Acquire(p)
    <3>1. LocalsOK'     BY <2>4 DEF Acquire
    <3>2. VisitsMapped' BY <2>4 DEF Acquire
    <3>3. MappedOpen'   BY <2>4 DEF Acquire
    <3>4. PrivateOwned' BY <2>4 DEF Acquire
    <3>5. RemovedOwned' BY <2>4 DEF Acquire
    <3>6. OneCloser'    BY <2>4 DEF Acquire
    <3>7. NoOrphan'     BY <2>4 DEF Acquire
    <3>8. QED BY <3>1, <3>2, <3>3, <3>4, <3>5, <3>6, <3>7
  <2>5. CASE DialOk(p)
    <3>1. LocalsOK'     BY <2>5 DEF DialOk
    <3>2. VisitsMapped' BY <2>5 DEF DialOk
    <3>3. MappedOpen'   BY <2>5 DEF DialOk
    <3>4. PrivateOwned' BY <2>5 DEF DialOk
    <3>5. RemovedOwned' BY <2>5 DEF DialOk
    <3>6. OneCloser'    BY <2>5 DEF DialOk
    <3>7. NoOrphan'     BY <2>5 DEF DialOk
    <3>8. QED BY <3>1, <3>2, <3>3, <3>4, <3>5, <3>6, <3>7
  <2>6. CASE DialFails(p)  BY <2>6 DEF DialFails
  <2>7. CASE Insert(p)
    <3>1. LocalsOK'     BY <2>7 DEF Insert
    <3>2. VisitsMapped' BY <2>7 DEF Insert
    <3>3. MappedOpen'   BY <2>7 DEF Insert
    <3>4. PrivateOwned' BY <2>7 DEF Insert
    <3>5. RemovedOwned' BY <2>7 DEF Insert
    <3>6. OneCloser'    BY <2>7 DEF Insert
    <3>7. NoOrphan'
      <4> SUFFICES ASSUME NEW c \in Clients, life[c] = "open"
                   PROVE  \/ asset[c] \in Assets /\ entries'[asset[c]] = c
                          \/ \E q \in Procs : Private(q)' /\ own[q] = c
                          \/ \E q \in Procs : Closing(q)' /\ ent'[q] = c
        BY <2>7 DEF Insert
      <4>1. CASE own[p] = c
        <5>1. asset[c] = want[p] /\ want[p] \in Assets BY <2>7, <4>1 DEF Insert
        <5>2. QED BY <2>7, <4>1, <5>1 DEF Insert
      <4>2. CASE asset[c] \in Assets /\ entries[asset[c]] = c BY <2>7, <4>2 DEF Insert
      <4>3. CASE \E q \in Procs \ {p} : Private(q) /\ own[q] = c BY <2>7, <4>3 DEF Insert
      <4>4. CASE \E q \in Procs \ {p} : Closing(q) /\ ent[q] = c BY <2>7, <4>4 DEF Insert
      <4>5. QED BY <2>7, <4>1, <4>2, <4>3, <4>4 DEF Insert
    <3>8. QED BY <3>1, <3>2, <3>3, <3>4, <3>5, <3>6, <3>7
  <2>8. CASE Discard(p)
    <3>1. LocalsOK'     BY <2>8 DEF Discard, CloseClient
    <3>2. VisitsMapped' BY <2>8 DEF Discard, CloseClient
    <3>3. MappedOpen'   BY <2>8 DEF Discard, CloseClient
    <3>4. PrivateOwned' BY <2>8 DEF Discard, CloseClient
    <3>5. RemovedOwned' BY <2>8 DEF Discard, CloseClient
    <3>6. OneCloser'    BY <2>8 DEF Discard, CloseClient
    <3>7. NoOrphan'     BY <2>8 DEF Discard, CloseClient
    <3>8. QED BY <3>1, <3>2, <3>3, <3>4, <3>5, <3>6, <3>7
  <2>9. CASE Remove(p)
    <3>1. LocalsOK'     BY <2>9 DEF Remove
    <3>2. VisitsMapped' BY <2>9 DEF Remove
    <3>3. MappedOpen'   BY <2>9 DEF Remove
    <3>4. PrivateOwned' BY <2>9 DEF Remove
    <3>5. RemovedOwned'
      <4>1. CASE entries[want[p]] = None BY <2>9, <4>1 DEF Remove
      <4>2. CASE entries[want[p]] # None
        <5>1. /\ ent'[p] = entries[want[p]] /\ life[ent'[p]] = "open"
              /\ \A a \in Assets : entries'[a] # ent'[p]
          BY <2>9, <4>2 DEF Remove
        <5>2. QED BY <2>9, <4>2, <5>1 DEF Remove
      <4>3. QED BY <4>1, <4>2
    <3>6. OneCloser'    BY <2>9 DEF Remove
    <3>7. NoOrphan'     BY <2>9 DEF Remove
    <3>8. QED BY <3>1, <3>2, <3>3, <3>4, <3>5, <3>6, <3>7
  <2>10. CASE Close(p)
    <3>1. LocalsOK'     BY <2>10 DEF Close, CloseClient
    <3>2. VisitsMapped' BY <2>10 DEF Close, CloseClient
    <3>3. MappedOpen'   BY <2>10 DEF Close, CloseClient
    <3>4. PrivateOwned' BY <2>10 DEF Close, CloseClient
    <3>5. RemovedOwned' BY <2>10 DEF Close, CloseClient
    <3>6. OneCloser'    BY <2>10 DEF Close, CloseClient
    <3>7. NoOrphan'     BY <2>10 DEF Close, CloseClient
    <3>8. QED BY <3>1, <3>2, <3>3, <3>4, <3>5, <3>6, <3>7
  <2>11. QED
    BY <1>1, <2>1, <2>2, <2>3, <2>4, <2>5, <2>6, <2>7, <2>8, <2>9, <2>10 DEF GetStep
<1>2. ASSUME NEW p \in Procs, ReleaseStep(p) PROVE Owned'
  <2>1. CASE Release(p)
    <3>1. LocalsOK'     BY <2>1 DEF Release, Return
    <3>2. VisitsMapped' BY <2>1 DEF Release, Return
    <3>3. MappedOpen'   BY <2>1 DEF Release, Return
    <3>4. PrivateOwned' BY <2>1 DEF Release, Return
    <3>5. RemovedOwned' BY <2>1 DEF Release, Return
    <3>6. OneCloser'    BY <2>1 DEF Release, Return
    <3>7. NoOrphan'     BY <2>1 DEF Release, Return
    <3>8. QED BY <3>1, <3>2, <3>3, <3>4, <3>5, <3>6, <3>7
  <2>2. CASE Decrement(p) BY <2>2 DEF Decrement, Return
  <2>3. QED BY <1>2, <2>1, <2>2 DEF ReleaseStep
<1>3. ASSUME NEW p \in Procs, CallerStep(p) PROVE Owned'
  <2>1. ASSUME NEW a \in Assets, Call(p, a) PROVE Owned'
    <3>1. LocalsOK'     BY <2>1 DEF Call
    <3>2. VisitsMapped' BY <2>1 DEF Call
    <3>3. MappedOpen'   BY <2>1 DEF Call
    <3>4. PrivateOwned' BY <2>1 DEF Call
    <3>5. RemovedOwned' BY <2>1 DEF Call
    <3>6. OneCloser'    BY <2>1 DEF Call
    <3>7. NoOrphan'     BY <2>1 DEF Call
    <3>8. QED BY <3>1, <3>2, <3>3, <3>4, <3>5, <3>6, <3>7
  <2>2. CASE Finish(p)
    <3>1. LocalsOK'     BY <2>2 DEF Finish
    <3>2. VisitsMapped' BY <2>2 DEF Finish
    <3>3. MappedOpen'   BY <2>2 DEF Finish
    <3>4. PrivateOwned' BY <2>2 DEF Finish
    <3>5. RemovedOwned' BY <2>2 DEF Finish
    <3>6. OneCloser'    BY <2>2 DEF Finish
    <3>7. NoOrphan'     BY <2>2 DEF Finish
    <3>8. QED BY <3>1, <3>2, <3>3, <3>4, <3>5, <3>6, <3>7
  <2>3. CASE SessionError(p) BY <2>3 DEF SessionError
  <2>4. QED BY <1>3, <2>1, <2>2, <2>3 DEF CallerStep
<1>4. CASE SweepStart BY <1>4 DEF SweepStart
<1>5. CASE SweepStep
  <2>1. CASE SweepEnd BY <2>1 DEF SweepEnd
  <2>2. ASSUME NEW a \in Assets, SweepCheck(a) PROVE Owned'
    BY <2>2 DEF SweepCheck
  <2>3. ASSUME NEW a \in Assets, SweepClose(a) PROVE Owned'
    BY <2>3 DEF SweepClose, CloseMapped, CloseClient
  <2>4. QED BY <1>5, <2>1, <2>2, <2>3 DEF SweepStep
<1>6. CASE CloseBegin  BY <1>6 DEF CloseBegin
<1>7. CASE CleanerExit BY <1>7 DEF CleanerExit
<1>8. CASE DrainStep
  <2>1. CASE DrainStart BY <2>1 DEF DrainStart
  <2>2. CASE DrainEnd   BY <2>2 DEF DrainEnd
  <2>3. ASSUME NEW a \in Assets, DrainClose(a) PROVE Owned'
    BY <2>3 DEF DrainClose, CloseMapped, CloseClient
  <2>4. QED BY <1>8, <2>1, <2>2, <2>3 DEF DrainStep
<1>9. ASSUME NEW c \in Clients, Drop(c) \/ Expire(c) PROVE Owned'
  <2>1. CASE Drop(c)   BY <2>1 DEF Drop
  <2>2. CASE Expire(c) BY <2>2 DEF Expire
  <2>3. QED BY <1>9, <2>1, <2>2
<1>10. CASE UNCHANGED vars BY <1>10 DEF vars
<1> HIDE DEF OwnInv, Owned, TypeOK
<1>11. QED
  BY <1>1, <1>2, <1>3, <1>4, <1>5, <1>6, <1>7, <1>8, <1>9, <1>10 DEF Next

\* The ownership invariant holds of every behaviour.
THEOREM Ownership == Spec => []OwnInv
<1>1. OwnInv /\ [Next]_vars => OwnInv'
  BY TypeStep, OwnStep DEF OwnInv, Owned
<1>2. QED
  BY InitOwnInv, <1>1, PTL DEF Spec

\* The variables keep their types, for any number of assets, goroutines and dials.
THEOREM TypeCorrect == Spec => []TypeOK
BY Ownership, PTL DEF OwnInv

\* No connection of the pool is ever lost track of while it is open.
THEOREM NothingOrphaned == Spec => []NoOrphan
BY Ownership, PTL DEF OwnInv

\* What Get, Release and Remove find in the map is open and of the right asset.
THEOREM MapHoldsOpen == Spec => []MappedOpen
BY Ownership, PTL DEF OwnInv

\* No two goroutines owe one client a close.
THEOREM ClosedOnce == Spec => []OneCloser
BY Ownership, PTL DEF OwnInv

-----------------------------------------------------------------------------
(* The refinement *)

\* Steps that leave the map, the clients' lives and the private dials alone.
LEMMA Stutter ==
  ASSUME entries' = entries, life' = life, asset' = asset,
         \A q \in Procs : Private(q)' <=> Private(q),
         \A q \in Procs : Private(q) => own'[q] = own[q]
  PROVE  Stage' = Stage
<1>1. \A c \in Clients : (\E q \in Procs : Private(q)' /\ own'[q] = c)
                         <=> (\E q \in Procs : Private(q) /\ own[q] = c)
  OBVIOUS
<1>2. QED BY <1>1 DEF Stage

\* A step that changes one client's stage only.
LEMMA Moved ==
  ASSUME NEW c \in Clients, NEW st, Stage'[c] = st,
         \A d \in Clients \ {c} : Stage'[d] = Stage[d]
  PROVE  Stage' = [Stage EXCEPT ![c] = st]
<1>1. Stage = [d \in Clients |-> Stage[d]]
  BY DEF Stage
<1>2. Stage' = [d \in Clients |-> Stage'[d]]
  BY DEF Stage
<1>3. QED BY <1>1, <1>2

\* A successful dial is Open.
LEMMA DialOkRefines ==
  ASSUME OwnInv, OwnInv', NEW p \in Procs, DialOk(p)
  PROVE  Slots!Next \/ UNCHANGED <<entries, Stage>>
<1> USE PoolAssumption
    DEF OwnInv, TypeOK, PCs, LocalsOK, Goto, connVars, lockVars, procVars, Private
<1>1. PICK c \in Clients : /\ life[c] = "fresh"
     /\ life' = [life EXCEPT ![c] = "open"]
     /\ asset' = [asset EXCEPT ![c] = want[p]]
     /\ own' = [own EXCEPT ![p] = c]
  BY DEF DialOk
<1>2. entries' = entries /\ pc[p] = "dial" /\ pc' = [pc EXCEPT ![p] = "insert"]
  BY DEF DialOk
<1>3. Stage[c] = "fresh"
  BY <1>1 DEF Stage
<1>4. Stage'[c] = "private"
  BY <1>1, <1>2 DEF Stage, MappedOpen
<1>5. \A d \in Clients \ {c} : Stage'[d] = Stage[d]
  BY <1>1, <1>2 DEF Stage
<1>6. Stage' = [Stage EXCEPT ![c] = "private"]
  BY <1>4, <1>5, Moved
<1>7. QED
  BY <1>2, <1>3, <1>6 DEF Slots!Next, Slots!Open

\* Installing the dialled client is Install; finding another one there is no step.
LEMMA InsertRefines ==
  ASSUME OwnInv, OwnInv', NEW p \in Procs, Insert(p)
  PROVE  Slots!Next \/ UNCHANGED <<entries, Stage>>
<1> USE PoolAssumption
    DEF OwnInv, TypeOK, PCs, LocalsOK, Goto, connVars, lockVars, procVars, Private
<1>1. CASE entries[want[p]] # None
  BY <1>1, Stutter DEF Insert
<1>2. CASE entries[want[p]] = None
  <2> DEFINE c == own[p]
  <2>1. /\ c \in Clients /\ life[c] = "open" /\ asset[c] = want[p] /\ want[p] \in Assets
        /\ \A a \in Assets : entries[a] # c
        /\ \A q \in Procs \ {p} : Private(q) => own[q] # c
    BY DEF Insert, PrivateOwned
  <2>2. entries' = [entries EXCEPT ![want[p]] = c]
        /\ pc' = [pc EXCEPT ![p] = "using"] /\ own' = own /\ life' = life /\ asset' = asset /\ pc[p] = "insert"
    BY <1>2 DEF Insert
  <2>3. Stage[c] = "private"
    BY <2>1, <2>2 DEF Stage
  <2>4. Stage'[c] = "shared"
    BY <2>1, <2>2 DEF Stage
  <2>5. \A d \in Clients \ {c} : Stage'[d] = Stage[d]
    BY <1>2, <2>1, <2>2 DEF Stage
  <2>6. Stage' = [Stage EXCEPT ![c] = "shared"]
    BY <2>1, <2>4, <2>5, Moved
  <2>7. QED
    BY <1>2, <2>1, <2>2, <2>3, <2>6 DEF Slots!Next, Slots!Install
<1>3. QED BY <1>1, <1>2

\* Closing the duplicate of a dial is Discard.
LEMMA DiscardRefines ==
  ASSUME OwnInv, OwnInv', NEW p \in Procs, Discard(p)
  PROVE  Slots!Next \/ UNCHANGED <<entries, Stage>>
<1> USE PoolAssumption
    DEF OwnInv, TypeOK, PCs, LocalsOK, Goto, connVars, lockVars, procVars, Private
<1> DEFINE c == own[p]
<1>1. /\ c \in Clients /\ life[c] = "open" /\ asset[c] = want[p] /\ want[p] \in Assets
      /\ \A a \in Assets : entries[a] # c
  BY DEF Discard, PrivateOwned
<1>2. /\ entries' = entries /\ asset' = asset /\ life' = [life EXCEPT ![c] = "closed"]
      /\ pc' = [pc EXCEPT ![p] = "probe"] /\ own' = [own EXCEPT ![p] = None] /\ pc[p] = "discard"
  BY DEF Discard, CloseClient
<1>3. Stage[c] = "private"
  BY <1>1, <1>2 DEF Stage
<1>4. Stage'[c] = "closed"
  BY <1>1, <1>2 DEF Stage
<1>5. \A d \in Clients \ {c} : Stage'[d] = Stage[d]
  BY <1>1, <1>2 DEF Stage
<1>6. Stage' = [Stage EXCEPT ![c] = "closed"]
  BY <1>1, <1>4, <1>5, Moved
<1>7. QED
  BY <1>1, <1>2, <1>3, <1>6 DEF Slots!Next, Slots!Discard

\* Taking an entry out of the map is Retire.
LEMMA RemoveRefines ==
  ASSUME OwnInv, OwnInv', NEW p \in Procs, Remove(p)
  PROVE  Slots!Next \/ UNCHANGED <<entries, Stage>>
<1> USE PoolAssumption
    DEF OwnInv, TypeOK, PCs, LocalsOK, Goto, connVars, lockVars, procVars, Private
<1>1. CASE entries[want[p]] = None
  BY <1>1, Stutter DEF Remove
<1>2. CASE entries[want[p]] # None
  <2> DEFINE c == entries[want[p]]
  <2>1. /\ c \in Clients /\ life[c] = "open" /\ asset[c] = want[p] /\ want[p] \in Assets
        /\ \A a \in Assets : entries[a] = c => a = want[p]
        /\ \A q \in Procs : Private(q) => own[q] # c
    BY <1>2 DEF Remove, MappedOpen, PrivateOwned
  <2>2. /\ entries' = [entries EXCEPT ![want[p]] = None]
        /\ pc' = [pc EXCEPT ![p] = "close"] /\ own' = own /\ life' = life /\ asset' = asset /\ pc[p] = "remove"
    BY <1>2 DEF Remove
  <2>3. Stage[c] = "shared"
    BY <2>1 DEF Stage
  <2>4. Stage'[c] = "retired"
    BY <2>1, <2>2 DEF Stage
  <2>5. \A d \in Clients \ {c} : Stage'[d] = Stage[d]
    BY <2>1, <2>2 DEF Stage
  <2>6. Stage' = [Stage EXCEPT ![c] = "retired"]
    BY <2>1, <2>4, <2>5, Moved
  <2>7. QED
    BY <2>1, <2>2, <2>3, <2>6 DEF Slots!Next, Slots!Retire
<1>3. QED BY <1>1, <1>2

\* The close owed to a removed client is Discard.
LEMMA CloseRefines ==
  ASSUME OwnInv, OwnInv', NEW p \in Procs, Close(p)
  PROVE  Slots!Next \/ UNCHANGED <<entries, Stage>>
<1> USE PoolAssumption
    DEF OwnInv, TypeOK, PCs, LocalsOK, Goto, connVars, lockVars, procVars, Private
<1> DEFINE c == ent[p]
<1>1. /\ c \in Clients /\ life[c] = "open"
      /\ \A a \in Assets : entries[a] # c
      /\ \A q \in Procs : Private(q) => own[q] # c
  BY DEF Close, RemovedOwned, OneCloser, Closing
<1>2. /\ entries' = entries /\ asset' = asset /\ own' = own
      /\ life' = [life EXCEPT ![c] = "closed"]
      /\ pc' = [pc EXCEPT ![p] = retTo[p]] /\ pc[p] = "close"
  BY DEF Close, CloseClient
<1>3. Stage[c] = "retired"
  BY <1>1, <1>2 DEF Stage
<1>4. Stage'[c] = "closed"
  BY <1>1, <1>2 DEF Stage
<1>5. \A d \in Clients \ {c} : Stage'[d] = Stage[d]
  BY <1>1, <1>2 DEF Stage
<1>6. Stage' = [Stage EXCEPT ![c] = "closed"]
  BY <1>1, <1>4, <1>5, Moved
<1>7. QED
  BY <1>1, <1>2, <1>3, <1>6 DEF Slots!Next, Slots!Discard

\* A close under p.mu, by the sweep or by Pool.Close, is Evict.
LEMMA CloseMappedRefines ==
  ASSUME OwnInv, OwnInv', NEW a \in Assets, a \in Mapped, CloseMapped(a)
  PROVE  Slots!Next \/ UNCHANGED <<entries, Stage>>
<1> USE PoolAssumption
    DEF OwnInv, TypeOK, PCs, LocalsOK, Goto, connVars, lockVars, procVars, Private
<1> DEFINE c == entries[a]
<1>1. /\ c \in Clients /\ life[c] = "open" /\ asset[c] = a
      /\ \A b \in Assets : entries[b] = c => b = a
      /\ \A q \in Procs : Private(q) => own[q] # c
  BY DEF MappedOpen, PrivateOwned, Mapped
<1>2. /\ entries' = [entries EXCEPT ![a] = None] /\ asset' = asset
      /\ own' = own /\ pc' = pc /\ life' = [life EXCEPT ![c] = "closed"]
  BY DEF CloseMapped, CloseClient
<1>3. Stage[c] = "shared"
  BY <1>1 DEF Stage
<1>4. Stage'[c] = "closed"
  BY <1>1, <1>2 DEF Stage
<1>5. \A d \in Clients \ {c} : Stage'[d] = Stage[d]
  BY <1>1, <1>2 DEF Stage
<1>6. Stage' = [Stage EXCEPT ![c] = "closed"]
  BY <1>1, <1>4, <1>5, Moved
<1>7. QED
  BY <1>1, <1>2, <1>3, <1>6 DEF Slots!Next, Slots!Evict

\* Every step of the pool is a step of the cache contract, or none.
LEMMA RefineStep == OwnInv /\ OwnInv' /\ [Next]_vars => [Slots!Next]_(Slots!vars)
<1> SUFFICES ASSUME OwnInv, OwnInv', [Next]_vars
             PROVE  Slots!Next \/ UNCHANGED <<entries, Stage>>
  BY DEF Slots!vars
<1> DEFINE Refined == Slots!Next \/ UNCHANGED <<entries, Stage>>
<1> USE DEF Goto, connVars, lockVars, procVars, Private
<1>1. ASSUME NEW p \in Procs, GetStep(p) PROVE Refined
  <2> USE DEF OwnInv, TypeOK
  <2>1. CASE Lookup(p)     BY <2>1, Stutter DEF Lookup
  <2>2. CASE ProbeStart(p) BY <2>2, Stutter DEF ProbeStart
  <2>3. CASE ProbeEnd(p)   BY <2>3, Stutter DEF ProbeEnd
  <2>4. CASE Acquire(p)    BY <2>4, Stutter DEF Acquire
  <2>5. CASE DialFails(p)  BY <2>5, Stutter DEF DialFails
  <2>6. QED
    BY <1>1, <2>1, <2>2, <2>3, <2>4, <2>5, DialOkRefines, InsertRefines,
       DiscardRefines, RemoveRefines, CloseRefines DEF GetStep
<1>2. ASSUME NEW p \in Procs, ReleaseStep(p) PROVE Refined
  <2> USE DEF OwnInv, TypeOK
  <2>1. CASE Release(p)   BY <2>1, Stutter DEF Release, Return
  <2>2. CASE Decrement(p) BY <2>2, Stutter DEF Decrement, Return
  <2>3. QED BY <1>2, <2>1, <2>2 DEF ReleaseStep
<1>3. ASSUME NEW p \in Procs, CallerStep(p) PROVE Refined
  <2> USE DEF OwnInv, TypeOK
  <2>1. CASE \E a \in Assets : Call(p, a) BY <2>1, Stutter DEF Call
  <2>2. CASE Finish(p)       BY <2>2, Stutter DEF Finish
  <2>3. CASE SessionError(p) BY <2>3, Stutter DEF SessionError
  <2>4. QED BY <1>3, <2>1, <2>2, <2>3 DEF CallerStep
<1>4. CASE SweepStart BY <1>4, Stutter DEF SweepStart
<1>5. CASE SweepStep
  <2>1. CASE SweepEnd BY <2>1, Stutter DEF SweepEnd
  <2>2. ASSUME NEW a \in Assets, SweepCheck(a) PROVE Refined
    BY <2>2, Stutter DEF SweepCheck
  <2>3. ASSUME NEW a \in Assets, SweepClose(a) PROVE Refined
    BY <2>3, CloseMappedRefines DEF SweepClose, OwnInv, VisitsMapped
  <2>4. QED BY <1>5, <2>1, <2>2, <2>3 DEF SweepStep
<1>6. CASE CloseBegin \/ CleanerExit BY <1>6, Stutter DEF CloseBegin, CleanerExit
<1>7. CASE DrainStep
  <2>1. CASE DrainStart BY <2>1, Stutter DEF DrainStart
  <2>2. CASE DrainEnd   BY <2>2, Stutter DEF DrainEnd
  <2>3. ASSUME NEW a \in Assets, DrainClose(a) PROVE Refined
    BY <2>3, CloseMappedRefines DEF DrainClose, OwnInv, VisitsMapped
  <2>4. QED BY <1>7, <2>1, <2>2, <2>3 DEF DrainStep
<1>8. CASE \E c \in Clients : Drop(c) \/ Expire(c) BY <1>8, Stutter DEF Drop, Expire
<1>9. CASE UNCHANGED vars BY <1>9, Stutter DEF vars
<1>10. QED
  BY <1>1, <1>2, <1>3, <1>4, <1>5, <1>6, <1>7, <1>8, <1>9 DEF Next

\* The pool implements the cache contract: a client is shared at most once,
\* never after it has left the map, and closed only by whoever took it out.
THEOREM Refinement == Spec => SlotsSafety
<1>1. Init => Slots!Init
  BY PoolAssumption DEF Init, Slots!Init, Stage
<1>2. QED
  BY Ownership, <1>1, RefineStep, PTL DEF Spec, SlotsSafety, Slots!Safety

\* A client that has left the map is not seen in it again: only an Insert of
\* the goroutine that dialled it fills a slot, and only a vacant one.
THEOREM NeverRevived == Spec => NoRevival
<1> DEFINE Filled == \A a \in Assets : entries'[a] \notin {entries[a], None} =>
                       \E p \in Procs : pc[p] = "insert" /\ own[p] = entries'[a]
                                        /\ entries[a] = None
<1>1. TypeOK /\ LocalsOK /\ [Next]_vars => Filled
  <2> SUFFICES ASSUME TypeOK, LocalsOK, [Next]_vars PROVE Filled
    OBVIOUS
  <2>1. CASE entries' = entries
    BY <2>1
  <2>2. ASSUME NEW p \in Procs, Insert(p) PROVE Filled
    BY <2>2 DEF Insert, TypeOK, LocalsOK
  <2>3. ASSUME NEW p \in Procs, Remove(p) PROVE Filled
    BY <2>3 DEF Remove, TypeOK
  <2>4. ASSUME NEW a \in Assets, CloseMapped(a) PROVE Filled
    BY <2>4 DEF CloseMapped, TypeOK
  <2>5. ASSUME NEW p \in Procs, GetStep(p) PROVE Filled
    BY <2>1, <2>2, <2>3, <2>5
       DEF GetStep, Lookup, ProbeStart, ProbeEnd, Acquire, DialOk, DialFails, Discard, Close
  <2>6. ASSUME NEW p \in Procs, ReleaseStep(p) \/ CallerStep(p) PROVE Filled
    BY <2>1, <2>6 DEF ReleaseStep, CallerStep, Release, Decrement, Call, Finish, SessionError
  <2>7. CASE SweepStep \/ DrainStep
    BY <2>1, <2>4, <2>7
       DEF SweepStep, DrainStep, SweepCheck, SweepClose, SweepEnd, DrainStart, DrainClose, DrainEnd
  <2>8. CASE SweepStart \/ CloseBegin \/ CleanerExit
    BY <2>1, <2>8 DEF SweepStart, CloseBegin, CleanerExit
  <2>9. CASE \E c \in Clients : Drop(c) \/ Expire(c)
    BY <2>1, <2>9 DEF Drop, Expire
  <2>10. CASE UNCHANGED vars
    BY <2>1, <2>10 DEF vars
  <2>11. QED
    BY <2>5, <2>6, <2>7, <2>8, <2>9, <2>10 DEF Next
<1>2. QED
  BY Ownership, <1>1, PTL DEF Spec, OwnInv, NoRevival

-----------------------------------------------------------------------------
(* The counts *)

\* What VacantUnheld and RefExactUntilEvicted say of one asset's count.
Exact(a) == IF entries[a] = None THEN Holders(a) = {} ELSE ref[entries[a]] = Cardinality(Holders(a))

\* What they say of one goroutine: it holds the client that is in the map.
SharesEntry(p) == Holds(p) /\ want[p] \notin evicted => own[p] = entries[want[p]]

\* The two conjuncts about counts, one asset and one goroutine at a time.
LEMMA ExactEach ==
  OwnInv => (VacantUnheld /\ RefExactUntilEvicted <=> /\ \A a \in Assets \ evicted : Exact(a)
                                                     /\ \A p \in Procs : SharesEntry(p))
BY DEF OwnInv, LocalsOK, VacantUnheld, RefExactUntilEvicted, Exact, SharesEntry, Holders, Holds

\* A step that leaves the asset's entry, its count and its holders alone.
LEMMA ExactKept ==
  ASSUME NEW a \in Assets, Exact(a), entries'[a] = entries[a],
         entries[a] # None => ref'[entries[a]] = ref[entries[a]],
         \A q \in Procs : Holds(q)' /\ want'[q] = a <=> Holds(q) /\ want[q] = a
  PROVE  Exact(a)'
<1>1. Holders(a)' = Holders(a)
  BY DEF Holders
<1>2. QED
  BY <1>1 DEF Exact

\* A goroutine that joins the holders with a reference of its own.
LEMMA ExactJoined ==
  ASSUME NEW a \in Assets, NEW p \in Procs, entries'[a] # None,
         ref'[entries'[a]] = Cardinality(Holders(a)) + 1,
         ~(Holds(p) /\ want[p] = a), Holds(p)' /\ want'[p] = a,
         \A q \in Procs \ {p} : Holds(q)' /\ want'[q] = a <=> Holds(q) /\ want[q] = a
  PROVE  Exact(a)'
<1>1. Holders(a)' = Holders(a) \cup {p} /\ p \notin Holders(a) /\ IsFiniteSet(Holders(a))
  BY PoolAssumption, FS_Subset DEF Holders
<1>2. QED
  BY <1>1, FS_AddElement DEF Exact

\* A goroutine that leaves the holders and takes its reference along.
LEMMA ExactLeft ==
  ASSUME NEW a \in Assets, NEW p \in Procs, entries'[a] # None,
         ref'[entries'[a]] = Cardinality(Holders(a)) - 1,
         Holds(p) /\ want[p] = a, ~(Holds(p)' /\ want'[p] = a),
         \A q \in Procs \ {p} : Holds(q)' /\ want'[q] = a <=> Holds(q) /\ want[q] = a
  PROVE  Exact(a)'
<1>1. Holders(a)' = Holders(a) \ {p} /\ p \in Holders(a) /\ IsFiniteSet(Holders(a))
  BY PoolAssumption, FS_Subset DEF Holders
<1>2. QED
  BY <1>1, FS_RemoveElement DEF Exact

\* Every action leaves a goroutine that holds a client with its Release to come.
LEMMA ReleaseToComeStep == TypeOK /\ LocalsOK /\ ReleaseToCome /\ [Next]_vars => ReleaseToCome'
<1> SUFFICES ASSUME TypeOK, LocalsOK, ReleaseToCome, [Next]_vars PROVE ReleaseToCome'
  OBVIOUS
<1> USE DEF TypeOK, ReleaseToCome, Goto, procVars
<1>1. ASSUME NEW p \in Procs, GetStep(p) PROVE ReleaseToCome'
  <2>1. CASE Lookup(p) \/ ProbeStart(p) \/ ProbeEnd(p) \/ Acquire(p) \/ DialOk(p) \/ DialFails(p)
    BY <2>1 DEF Lookup, ProbeStart, ProbeEnd, Acquire, DialOk, DialFails
  <2>2. CASE Insert(p) \/ Discard(p) \/ Remove(p) \/ Close(p)
    BY <2>2 DEF Insert, Discard, Remove, Close
  <2>3. QED
    BY <1>1, <2>1, <2>2 DEF GetStep
<1>2. ASSUME NEW p \in Procs, ReleaseStep(p) \/ CallerStep(p) PROVE ReleaseToCome'
  BY <1>2 DEF ReleaseStep, CallerStep, Release, Decrement, Return, Call, Finish, SessionError
<1>3. ASSUME UNCHANGED procVars PROVE ReleaseToCome'
  BY <1>3
<1>4. CASE SweepStep \/ DrainStep
  BY <1>3, <1>4 DEF SweepStep, DrainStep, SweepCheck, SweepClose, SweepEnd, DrainStart, DrainClose, DrainEnd,
                    CloseMapped
<1>5. CASE SweepStart \/ CloseBegin \/ CleanerExit
  BY <1>3, <1>5 DEF SweepStart, CloseBegin, CleanerExit
<1>6. CASE \E c \in Clients : Drop(c) \/ Expire(c)
  BY <1>3, <1>6 DEF Drop, Expire
<1>7. CASE UNCHANGED vars
  BY <1>3, <1>7 DEF vars
<1>8. QED
  BY <1>1, <1>2, <1>4, <1>5, <1>6, <1>7 DEF Next

\* Every action leaves what a goroutine found in the map where it was, or evicts it.
LEMMA FoundStaysStep == OwnInv /\ FoundStays /\ [Next]_vars => FoundStays'
<1> SUFFICES ASSUME OwnInv, FoundStays, [Next]_vars PROVE FoundStays'
  OBVIOUS
<1> USE DEF OwnInv, TypeOK, FoundStays, Found, Goto, connVars, lockVars, procVars
<1>1. ASSUME NEW p \in Procs, GetStep(p) PROVE FoundStays'
  <2>1. CASE Lookup(p)
    BY <2>1 DEF Lookup, LocalsOK, MappedOpen
  <2>2. CASE ProbeStart(p) \/ ProbeEnd(p) \/ Acquire(p) \/ DialFails(p)
    BY <2>2 DEF ProbeStart, ProbeEnd, Acquire, DialFails
  <2>3. CASE DialOk(p)
    BY <2>3, PoolAssumption DEF DialOk, LocalsOK
  <2>4. CASE Insert(p)
    BY <2>4, PoolAssumption DEF Insert, LocalsOK, MappedOpen
  <2>5. CASE Discard(p)
    BY <2>5 DEF Discard, CloseClient
  <2>6. CASE Remove(p)
    BY <2>6 DEF Remove, LocalsOK
  <2>7. CASE Close(p)
    BY <2>7 DEF Close, CloseClient
  <2>8. QED
    BY <1>1, <2>1, <2>2, <2>3, <2>4, <2>5, <2>6, <2>7 DEF GetStep
<1>2. ASSUME NEW p \in Procs, ReleaseStep(p) \/ CallerStep(p) PROVE FoundStays'
  <2>1. CASE Release(p)
    BY <2>1 DEF Release, Return, LocalsOK, MappedOpen
  <2>2. CASE Decrement(p)
    BY <2>2 DEF Decrement, Return
  <2>3. CASE CallerStep(p)
    BY <2>3 DEF CallerStep, Call, Finish, SessionError
  <2>4. QED
    BY <1>2, <2>1, <2>2, <2>3 DEF ReleaseStep
<1>3. ASSUME NEW a \in Assets, CloseMapped(a) PROVE FoundStays'
  BY <1>3 DEF CloseMapped, CloseClient
<1>4. ASSUME UNCHANGED <<entries, life, asset, procVars, evicted>> PROVE FoundStays'
  BY <1>4
<1>5. CASE SweepStep \/ DrainStep
  BY <1>3, <1>4, <1>5 DEF SweepStep, DrainStep, SweepCheck, SweepClose, SweepEnd, DrainStart, DrainClose, DrainEnd
<1>6. CASE SweepStart \/ CloseBegin \/ CleanerExit
  BY <1>4, <1>6 DEF SweepStart, CloseBegin, CleanerExit
<1>7. CASE \E c \in Clients : Drop(c) \/ Expire(c)
  BY <1>4, <1>7 DEF Drop, Expire
<1>8. CASE UNCHANGED vars
  BY <1>4, <1>8 DEF vars
<1>9. QED
  BY <1>1, <1>2, <1>5, <1>6, <1>7, <1>8 DEF Next

\* Every action leaves a client that has not been in the map with the reference of its dial.
LEMMA InstalledOnceStep == OwnInv /\ InstalledOnce /\ [Next]_vars => InstalledOnce'
<1> SUFFICES ASSUME OwnInv, InstalledOnce, [Next]_vars PROVE InstalledOnce'
  OBVIOUS
<1> USE DEF OwnInv, TypeOK, InstalledOnce, Private, Found, Mapped, Goto, connVars, lockVars, procVars
<1>1. ASSUME NEW p \in Procs, GetStep(p) PROVE InstalledOnce'
  <2>1. CASE Acquire(p)
    BY <2>1 DEF Acquire, LocalsOK
  <2>2. CASE DialOk(p)
    BY <2>2 DEF DialOk, LocalsOK, PrivateOwned
  <2>3. CASE Lookup(p)
    BY <2>3 DEF Lookup, LocalsOK
  <2>4. CASE ProbeStart(p) \/ ProbeEnd(p) \/ DialFails(p)
    BY <2>4 DEF ProbeStart, ProbeEnd, DialFails
  <2>5. CASE Insert(p)
    BY <2>5 DEF Insert, LocalsOK, PrivateOwned
  <2>6. CASE Discard(p)
    BY <2>6 DEF Discard, CloseClient
  <2>7. CASE Remove(p)
    BY <2>7 DEF Remove, LocalsOK
  <2>8. CASE Close(p)
    BY <2>8 DEF Close, CloseClient
  <2>9. QED
    BY <1>1, <2>1, <2>2, <2>3, <2>4, <2>5, <2>6, <2>7, <2>8 DEF GetStep
<1>2. ASSUME NEW p \in Procs, ReleaseStep(p) PROVE InstalledOnce'
  <2>1. CASE Release(p)
    BY <2>1 DEF Release, Return, LocalsOK
  <2>2. CASE Decrement(p)
    BY <2>2 DEF Decrement, Return, LocalsOK
  <2>3. QED
    BY <1>2, <2>1, <2>2 DEF ReleaseStep
<1>3. ASSUME NEW p \in Procs, CallerStep(p) PROVE InstalledOnce'
  BY <1>3 DEF CallerStep, Call, Finish, SessionError
<1>4. ASSUME NEW a \in Assets, CloseMapped(a) PROVE InstalledOnce'
  BY <1>4 DEF CloseMapped, CloseClient
<1>5. ASSUME UNCHANGED <<entries, life, ref, procVars, installed>> PROVE InstalledOnce'
  BY <1>5
<1>6. CASE SweepStep \/ DrainStep
  BY <1>4, <1>5, <1>6 DEF SweepStep, DrainStep, SweepCheck, SweepClose, SweepEnd, DrainStart, DrainClose, DrainEnd
<1>7. CASE SweepStart \/ CloseBegin \/ CleanerExit
  BY <1>5, <1>7 DEF SweepStart, CloseBegin, CleanerExit
<1>8. CASE \E c \in Clients : Drop(c) \/ Expire(c)
  BY <1>5, <1>8 DEF Drop, Expire
<1>9. CASE UNCHANGED vars
  BY <1>5, <1>9 DEF vars
<1>10. QED
  BY <1>1, <1>2, <1>3, <1>6, <1>7, <1>8, <1>9 DEF Next

\* Every action keeps the count of an asset whose entry is not evicted.
LEMMA ExactStep ==
  ASSUME OwnInv, CountInv, [Next]_vars, NEW a \in Assets, a \notin evicted'
  PROVE  Exact(a)'
<1> USE DEF OwnInv, TypeOK, Goto, connVars, lockVars, procVars, Holds
<1>0. a \notin evicted /\ Exact(a)
  <2>1. evicted \subseteq evicted'
    BY DEF Next, GetStep, ReleaseStep, CallerStep, SweepStep, DrainStep, Lookup, ProbeStart, ProbeEnd, Acquire,
           DialOk, DialFails, Insert, Discard, Remove, Close, Release, Decrement, Call, Finish, SessionError,
           SweepStart, SweepEnd, SweepCheck, SweepClose, CloseBegin, CleanerExit, DrainStart, DrainEnd, DrainClose,
           CloseMapped, Drop, Expire, vars
  <2>2. QED
    BY <2>1, ExactEach DEF CountInv, OwnInv
<1>1. ASSUME NEW p \in Procs, GetStep(p) PROVE Exact(a)'
  <2>1. CASE Acquire(p)
    <3>1. ent[p] \in Clients /\ want[p] \in Assets /\ asset[ent[p]] = want[p]
          /\ (want[p] \notin evicted => entries[want[p]] = ent[p])
      BY <2>1 DEF Acquire, CountInv, FoundStays, Found, LocalsOK
    <3>2. CASE want[p] = a
      BY <1>0, <2>1, <3>1, <3>2, ExactJoined, PoolAssumption DEF Acquire, Exact
    <3>3. CASE want[p] # a
      BY <1>0, <2>1, <3>1, <3>3, ExactKept DEF Acquire, MappedOpen
    <3>4. QED
      BY <3>2, <3>3
  <2>2. CASE DialOk(p)
    <3>1. entries[a] # None => ref'[entries[a]] = ref[entries[a]]
      BY <2>2 DEF DialOk, MappedOpen
    <3>2. entries' = entries /\ want' = want /\ pc[p] = "dial" /\ pc' = [pc EXCEPT ![p] = "insert"] /\ retTo' = retTo
      BY <2>2 DEF DialOk
    <3>3. QED
      BY <1>0, <3>1, <3>2, ExactKept
  <2>3. CASE Insert(p)
    <3>1. own[p] \in Clients /\ want[p] \in Assets
      BY <2>3 DEF Insert, LocalsOK, Private
    <3>2. CASE want[p] = a /\ entries[a] = None
      <4>1. Holders(a) = {} /\ ref[own[p]] = 1
        BY <1>0, <2>3, <3>2 DEF Insert, Exact, CountInv, InstalledOnce, Private
      <4>2. /\ entries' = [entries EXCEPT ![a] = own[p]] /\ ref' = ref /\ want' = want
            /\ pc[p] = "insert" /\ pc' = [pc EXCEPT ![p] = "using"]
            /\ retTo' = [retTo EXCEPT ![p] = "release"]
        BY <2>3, <3>2 DEF Insert
      <4>3. ref'[entries'[a]] = Cardinality(Holders(a)) + 1 /\ entries'[a] # None
        BY <3>1, <4>1, <4>2, FS_EmptySet, PoolAssumption
      <4>4. QED
        BY <3>2, <4>2, <4>3, ExactJoined
    <3>3. CASE want[p] # a \/ entries[a] # None
      BY <1>0, <2>3, <3>1, <3>3, ExactKept DEF Insert
    <3>4. QED
      BY <3>2, <3>3
  <2>4. CASE Remove(p)
    BY <1>0, <2>4, ExactKept DEF Remove
  <2>5. CASE Close(p)
    BY <1>0, <2>5, ExactKept DEF Close
  <2>6. CASE Lookup(p) \/ ProbeStart(p) \/ ProbeEnd(p)
    BY <1>0, <2>6, ExactKept DEF Lookup, ProbeStart, ProbeEnd, LocalsOK
  <2>7. CASE DialFails(p) \/ Discard(p)
    BY <1>0, <2>7, ExactKept DEF DialFails, Discard
  <2>8. QED
    BY <1>1, <2>1, <2>2, <2>3, <2>4, <2>5, <2>6, <2>7 DEF GetStep
<1>2. ASSUME NEW p \in Procs, ReleaseStep(p) PROVE Exact(a)'
  <2>1. CASE Decrement(p)
    <3>1. ent[p] \in Clients /\ want[p] \in Assets /\ asset[ent[p]] = want[p]
          /\ (want[p] \notin evicted => entries[want[p]] = ent[p])
      BY <2>1 DEF Decrement, CountInv, FoundStays, Found, LocalsOK
    <3>2. CASE want[p] = a
      BY <1>0, <2>1, <3>1, <3>2, ExactLeft, PoolAssumption DEF Decrement, Return, Exact
    <3>3. CASE want[p] # a
      BY <1>0, <2>1, <3>1, <3>3, ExactKept DEF Decrement, Return, MappedOpen
    <3>4. QED
      BY <3>2, <3>3
  <2>2. CASE Release(p)
    <3>1. want[p] = a => entries[a] # None
      BY <1>0, <2>2 DEF Release, Exact, Holders
    <3>2. QED
      BY <1>0, <2>2, <3>1, ExactKept DEF Release, Return
  <2>3. QED
    BY <1>2, <2>1, <2>2 DEF ReleaseStep
<1>3. ASSUME NEW p \in Procs, CallerStep(p) PROVE Exact(a)'
  BY <1>0, <1>3, ExactKept DEF CallerStep, Call, Finish, SessionError, CountInv, ReleaseToCome
<1>4. ASSUME NEW b \in Assets, CloseMapped(b) PROVE Exact(a)'
  BY <1>0, <1>4, ExactKept DEF CloseMapped
<1>5. ASSUME UNCHANGED <<entries, ref, procVars>> PROVE Exact(a)'
  BY <1>0, <1>5, ExactKept
<1>6. CASE SweepStep \/ DrainStep
  BY <1>4, <1>5, <1>6 DEF SweepStep, DrainStep, SweepCheck, SweepClose, SweepEnd, DrainStart, DrainClose, DrainEnd
<1>7. CASE SweepStart \/ CloseBegin \/ CleanerExit
  BY <1>5, <1>7 DEF SweepStart, CloseBegin, CleanerExit
<1>8. CASE \E c \in Clients : Drop(c) \/ Expire(c)
  BY <1>5, <1>8 DEF Drop, Expire
<1>9. CASE UNCHANGED vars
  BY <1>5, <1>9 DEF vars
<1>10. QED
  BY <1>1, <1>2, <1>3, <1>6, <1>7, <1>8, <1>9 DEF Next

\* Every action leaves a holder with the client in the map, or evicts that.
LEMMA SharesStep ==
  ASSUME OwnInv, CountInv, [Next]_vars
  PROVE  \A p \in Procs : SharesEntry(p)'
<1>0. \A p \in Procs : SharesEntry(p)
  BY ExactEach DEF CountInv
<1> USE DEF OwnInv, TypeOK, SharesEntry, Holds, Goto, connVars, lockVars, procVars
<1>1. ASSUME NEW q \in Procs, GetStep(q), NEW p \in Procs PROVE SharesEntry(p)'
  <2>1. CASE Acquire(q)
    BY <1>0, <2>1 DEF Acquire, CountInv, FoundStays, Found
  <2>2. CASE Insert(q)
    BY <1>0, <2>2, PoolAssumption DEF Insert, LocalsOK, Private
  <2>3. CASE Lookup(q) \/ ProbeStart(q) \/ ProbeEnd(q) \/ DialOk(q) \/ DialFails(q)
    BY <1>0, <2>3 DEF Lookup, ProbeStart, ProbeEnd, DialOk, DialFails, LocalsOK
  <2>4. CASE Discard(q)
    BY <1>0, <2>4 DEF Discard
  <2>5. CASE Remove(q)
    BY <1>0, <2>5 DEF Remove, LocalsOK
  <2>6. CASE Close(q)
    BY <1>0, <2>6 DEF Close
  <2>7. QED
    BY <1>1, <2>1, <2>2, <2>3, <2>4, <2>5, <2>6 DEF GetStep
<1>2. ASSUME NEW q \in Procs, ReleaseStep(q) \/ CallerStep(q), NEW p \in Procs PROVE SharesEntry(p)'
  BY <1>0, <1>2 DEF ReleaseStep, CallerStep, Release, Decrement, Return, Call, Finish, SessionError,
                    CountInv, ReleaseToCome
<1>3. ASSUME NEW b \in Assets, CloseMapped(b), NEW p \in Procs PROVE SharesEntry(p)'
  BY <1>0, <1>3 DEF CloseMapped
<1>4. ASSUME UNCHANGED <<entries, procVars, evicted>>, NEW p \in Procs PROVE SharesEntry(p)'
  BY <1>0, <1>4
<1>5. CASE SweepStep \/ DrainStep
  BY <1>3, <1>4, <1>5 DEF SweepStep, DrainStep, SweepCheck, SweepClose, SweepEnd, DrainStart, DrainClose, DrainEnd
<1>6. CASE SweepStart \/ CloseBegin \/ CleanerExit
  BY <1>4, <1>6 DEF SweepStart, CloseBegin, CleanerExit
<1>7. CASE \E c \in Clients : Drop(c) \/ Expire(c)
  BY <1>4, <1>7 DEF Drop, Expire
<1>8. CASE UNCHANGED vars
  BY <1>4, <1>8 DEF vars
<1>9. QED
  BY <1>1, <1>2, <1>5, <1>6, <1>7, <1>8 DEF Next

\* The pool starts with nothing counted.
LEMMA InitCounts == Init => CountInv
BY PoolAssumption
   DEF Init, CountInv, ReleaseToCome, FoundStays, Found, InstalledOnce, Private, Mapped,
       VacantUnheld, RefExactUntilEvicted, Holders, Holds

\* Every action keeps the counts.
LEMMA CountStep == OwnInv /\ OwnInv' /\ CountInv /\ [Next]_vars => CountInv'
<1> SUFFICES ASSUME OwnInv, OwnInv', CountInv, [Next]_vars PROVE CountInv'
  OBVIOUS
<1>1. ReleaseToCome' /\ FoundStays' /\ InstalledOnce'
  BY ReleaseToComeStep, FoundStaysStep, InstalledOnceStep DEF CountInv, OwnInv
<1>2. \A a \in Assets \ evicted' : Exact(a)'
  BY ExactStep
<1>3. VacantUnheld' /\ RefExactUntilEvicted'
  BY <1>2, SharesStep DEF OwnInv, LocalsOK, VacantUnheld, RefExactUntilEvicted, Exact, SharesEntry, Holders, Holds
<1>4. QED
  BY <1>1, <1>3 DEF CountInv

-----------------------------------------------------------------------------
(* The total of an asset's references *)

\* A count that may be negative, as the pairs that stand for its units.
Units(f, a) == {x \in Clients \X (Nat \ {0}) : x[1] \in EntriesOf(a) /\ x[2] <= f[x[1]]}
Short == [c \in Clients |-> -ref[c]]

\* The two sets of Balance are the units of the counts and of what they are short of.
LEMMA SumsAreUnits ==
  ref \in [Clients -> Int] /\ installed \in SUBSET Clients =>
    \A a \in Assets : Credits(a) = Units(ref, a) /\ Debts(a) = Units(Short, a)
<1>1. \A a, x : x \in Credits(a) <=> \E c \in EntriesOf(a) : \E n \in 1..ref[c] : x = <<c, n>>
  BY DEF Credits
<1>2. \A a, x : x \in Debts(a) <=> \E c \in EntriesOf(a) : \E n \in 1..-ref[c] : x = <<c, n>>
  BY DEF Debts
<1>3. installed \in SUBSET Clients => \A a : EntriesOf(a) \subseteq Clients
  BY DEF EntriesOf
<1>4. QED
  BY <1>1, <1>2, <1>3 DEF Units, Short

\* The same after a step.
LEMMA SumsAreUnitsNext ==
  (ref \in [Clients -> Int] /\ installed \in SUBSET Clients)' =>
    (\A a \in Assets : Credits(a) = Units(ref, a) /\ Debts(a) = Units(Short, a))'
BY SumsAreUnits, PTL

\* A count that rises by one gains a unit, unless it stays below one.
LEMMA UnitsRise ==
  ASSUME NEW f \in [Clients -> Int], NEW g \in [Clients -> Int], NEW c \in Clients, NEW a \in Assets,
         c \in EntriesOf(a), g[c] = f[c] + 1, \A x \in Clients \ {c} : g[x] = f[x]
  PROVE  /\ f[c] >= 0 => \E e : e \notin Units(f, a) /\ Units(g, a) = Units(f, a) \cup {e}
         /\ f[c] < 0 => Units(g, a) = Units(f, a)
<1>1. \A x \in Clients \X (Nat \ {0}) : x[1] \in Clients /\ x[2] \in Nat \ {0} /\ f[x[1]] \in Int /\ g[x[1]] \in Int
  OBVIOUS
<1>2. f[c] \in Int
  OBVIOUS
<1>3. CASE f[c] >= 0
  <2> DEFINE e == <<c, f[c] + 1>>
  <2>1. /\ e \in Clients \X (Nat \ {0}) /\ e[1] = c /\ e[2] = f[c] + 1
        /\ \A x \in Clients \X (Nat \ {0}) : x[1] = c /\ x[2] = f[c] + 1 => x = e
    BY <1>3
  <2> HIDE DEF e
  <2>2. \A x \in Clients \X (Nat \ {0}) :
          x[1] \in EntriesOf(a) /\ x[2] <= g[x[1]] <=> (x[1] \in EntriesOf(a) /\ x[2] <= f[x[1]]) \/ x = e
    BY <1>1, <2>1
  <2>3. ~(e[2] <= f[e[1]])
    BY <2>1
  <2>4. e \notin Units(f, a) /\ Units(g, a) = Units(f, a) \cup {e}
    BY <2>1, <2>2, <2>3, Zenon DEF Units
  <2>5. QED
    BY <1>3, <2>4
<1>4. CASE f[c] < 0
  <2>1. \A x \in Clients \X (Nat \ {0}) : x[2] <= g[x[1]] <=> x[2] <= f[x[1]]
    BY <1>1, <1>4
  <2>2. QED
    BY <1>4, <2>1 DEF Units
<1>5. QED
  BY <1>2, <1>3, <1>4

\* What that does to the number of units, read in either direction.
LEMMA UnitsCounted ==
  ASSUME NEW f \in [Clients -> Int], NEW g \in [Clients -> Int], NEW c \in Clients, NEW a \in Assets,
         c \in EntriesOf(a), g[c] = f[c] + 1, \A x \in Clients \ {c} : g[x] = f[x]
  PROVE  /\ f[c] \in Int
         /\ IsFiniteSet(Units(f, a)) <=> IsFiniteSet(Units(g, a))
         /\ IsFiniteSet(Units(f, a)) =>
              /\ Cardinality(Units(f, a)) \in Nat
              /\ f[c] >= 0 => Cardinality(Units(g, a)) = Cardinality(Units(f, a)) + 1
              /\ f[c] < 0 => Cardinality(Units(g, a)) = Cardinality(Units(f, a))
<1>1. CASE f[c] >= 0
  <2>1. PICK e : e \notin Units(f, a) /\ Units(g, a) = Units(f, a) \cup {e}
    BY <1>1, UnitsRise
  <2> DEFINE U == Units(f, a)
  <2>2. Units(g, a) \ {e} = U
    BY <2>1
  <2>3. ASSUME IsFiniteSet(U)
        PROVE  /\ IsFiniteSet(U \cup {e}) /\ Cardinality(U \cup {e}) = Cardinality(U) + 1
               /\ Cardinality(U) \in Nat
    BY <2>1, <2>3, FS_AddElement, FS_CardinalityType
  <2>4. ASSUME IsFiniteSet(Units(g, a)) PROVE IsFiniteSet(U)
    BY <2>2, <2>4, FS_RemoveElement
  <2>5. QED
    BY <1>1, <2>1, <2>3, <2>4
<1>2. CASE f[c] < 0
  <2>1. Units(g, a) = Units(f, a)
    BY <1>2, UnitsRise
  <2>2. QED
    BY <1>2, <2>1, FS_CardinalityType
<1>3. f[c] \in Int
  OBVIOUS
<1>4. QED
  BY <1>1, <1>2, <1>3

\* An acquire adds one to the total of its asset, a release takes one off.
LEMMA BalanceMoves ==
  ASSUME ref \in [Clients -> Int], ref' \in [Clients -> Int], installed \in SUBSET Clients,
         NEW c \in Clients, NEW a \in Assets, c \in EntriesOf(a), NEW d \in {1, -1}, ref'[c] = ref[c] + d,
         \A x \in Clients \ {c} : ref'[x] = ref[x], UNCHANGED <<asset, installed>>,
         IsFiniteSet(Credits(a)), IsFiniteSet(Debts(a))
  PROVE  /\ IsFiniteSet(Credits(a)') /\ IsFiniteSet(Debts(a)')
         /\ Balance(a) \in Int /\ Balance(a)' = Balance(a) + d
<1>1. Short \in [Clients -> Int] /\ Short' \in [Clients -> Int]
      /\ Short[c] = -ref[c] /\ Short'[c] = -ref'[c]
  BY DEF Short
<1>2. /\ Credits(a) = Units(ref, a) /\ Debts(a) = Units(Short, a)
      /\ Credits(a)' = Units(ref', a) /\ Debts(a)' = Units(Short', a)
  BY <1>1, SumsAreUnits, SumsAreUnitsNext DEF Units, EntriesOf
<1>3. \A x \in Clients \ {c} : ref'[x] = ref[x] /\ Short'[x] = Short[x]
  BY DEF Short
<1>4. CASE d = 1
  <2>1. ref'[c] = ref[c] + 1 /\ Short[c] = Short'[c] + 1
    BY <1>1, <1>4
  <2>2. /\ IsFiniteSet(Units(ref', a)) /\ IsFiniteSet(Units(ref, a))
        /\ Cardinality(Units(ref, a)) \in Nat
        /\ ref[c] >= 0 => Cardinality(Units(ref', a)) = Cardinality(Units(ref, a)) + 1
        /\ ref[c] < 0 => Cardinality(Units(ref', a)) = Cardinality(Units(ref, a))
    BY <1>1, <1>2, <1>3, <2>1, UnitsCounted
  <2>3. /\ IsFiniteSet(Units(Short, a)) /\ IsFiniteSet(Units(Short', a))
        /\ Cardinality(Units(Short', a)) \in Nat
        /\ Short'[c] >= 0 => Cardinality(Units(Short, a)) = Cardinality(Units(Short', a)) + 1
        /\ Short'[c] < 0 => Cardinality(Units(Short, a)) = Cardinality(Units(Short', a))
    BY <1>1, <1>2, <1>3, <2>1, UnitsCounted
  <2>4. ref[c] \in Int
    OBVIOUS
  <2>5. QED
    BY <1>1, <1>2, <1>4, <2>1, <2>2, <2>3, <2>4 DEF Balance
<1>5. CASE d = -1
  <2>1. ref[c] = ref'[c] + 1 /\ Short'[c] = Short[c] + 1
    BY <1>1, <1>5
  <2>2. /\ IsFiniteSet(Units(ref, a)) /\ IsFiniteSet(Units(ref', a))
        /\ Cardinality(Units(ref', a)) \in Nat
        /\ ref'[c] >= 0 => Cardinality(Units(ref, a)) = Cardinality(Units(ref', a)) + 1
        /\ ref'[c] < 0 => Cardinality(Units(ref, a)) = Cardinality(Units(ref', a))
    BY <1>1, <1>2, <1>3, <2>1, UnitsCounted
  <2>3. /\ IsFiniteSet(Units(Short', a)) /\ IsFiniteSet(Units(Short, a))
        /\ Cardinality(Units(Short, a)) \in Nat
        /\ Short[c] >= 0 => Cardinality(Units(Short', a)) = Cardinality(Units(Short, a)) + 1
        /\ Short[c] < 0 => Cardinality(Units(Short', a)) = Cardinality(Units(Short, a))
    BY <1>1, <1>2, <1>3, <2>1, UnitsCounted
  <2>4. ref[c] \in Int
    OBVIOUS
  <2>5. QED
    BY <1>1, <1>2, <1>5, <2>1, <2>2, <2>3, <2>4 DEF Balance
<1>6. QED
  BY <1>4, <1>5

\* A client comes into the map with the one reference of its dial.
LEMMA BalanceGains ==
  ASSUME NEW c \in Clients, NEW a \in Assets, c \notin installed, asset[c] = a, ref[c] = 1,
         UNCHANGED <<asset, ref>>, installed' = installed \cup {c},
         IsFiniteSet(Credits(a)), IsFiniteSet(Debts(a))
  PROVE  /\ IsFiniteSet(Credits(a)') /\ IsFiniteSet(Debts(a)')
         /\ Balance(a) \in Int /\ Balance(a)' = Balance(a) + 1
<1>1. EntriesOf(a)' = EntriesOf(a) \cup {c} /\ c \notin EntriesOf(a)
  BY DEF EntriesOf
<1>2. Credits(a)' = Credits(a) \cup ({c} \X (1..1))
  BY <1>1 DEF Credits
<1>3. Debts(a)' = Debts(a) \cup ({c} \X (1..-1))
  BY <1>1 DEF Debts
<1>4. {c} \X (1..1) = {<<c, 1>>} /\ {c} \X (1..-1) = {}
  OBVIOUS
<1>5. <<c, 1>> \notin Credits(a)
  BY <1>1 DEF Credits
<1>6. IsFiniteSet(Credits(a)') /\ Cardinality(Credits(a)') = Cardinality(Credits(a)) + 1
  <2> DEFINE e == <<c, 1>>
  <2> HIDE DEF e
  <2>1. Credits(a)' = Credits(a) \cup {e} /\ e \notin Credits(a)
    BY <1>2, <1>4, <1>5 DEF e
  <2>2. QED
    BY <2>1, FS_AddElement
<1>7. Debts(a)' = Debts(a)
  BY <1>3, <1>4
<1>8. QED
  BY <1>6, <1>7, FS_CardinalityType DEF Balance

\* A step that leaves the entries of an asset and their counts alone.
LEMMA BalanceKept ==
  ASSUME NEW a \in Assets, EntriesOf(a)' = EntriesOf(a), \A x \in EntriesOf(a) : ref'[x] = ref[x]
  PROVE  Credits(a)' = Credits(a) /\ Debts(a)' = Debts(a) /\ Balance(a)' = Balance(a)
<1>1. EntriesOf(a)' = EntriesOf(a) /\ \A x \in EntriesOf(a) : ref'[x] = ref[x]
  OBVIOUS
<1>2. Credits(a)' = Credits(a) /\ Debts(a)' = Debts(a)
  BY <1>1 DEF Credits, Debts
<1>3. QED
  BY <1>2 DEF Balance

\* What BalanceInv says of one asset.
Enough(a) == /\ IsFiniteSet(Credits(a)) /\ IsFiniteSet(Debts(a))
             /\ Balance(a) >= Cardinality(Holders(a))
HoldsOf(p, a) == Holds(p) /\ want[p] = a

\* Goroutines are finitely many, so those that hold a client can be counted.
LEMMA HoldersFinite ==
  ASSUME NEW a
  PROVE  Holders(a) = {q \in Procs : HoldsOf(q, a)} /\ IsFiniteSet(Holders(a)) /\ Cardinality(Holders(a)) \in Nat
BY PoolAssumption, FS_Subset, FS_CardinalityType DEF Holders, HoldsOf

\* The same after a step.
LEMMA HoldersFiniteNext ==
  \A a : (Holders(a) = {q \in Procs : HoldsOf(q, a)} /\ IsFiniteSet(Holders(a)) /\ Cardinality(Holders(a)) \in Nat)'
BY PoolAssumption, FS_Subset, FS_CardinalityType DEF Holders, HoldsOf

\* No goroutine joins the holders, and no reference is added or taken.
LEMMA EnoughKept ==
  ASSUME NEW a \in Assets, Enough(a),
         EntriesOf(a)' = EntriesOf(a), \A x \in EntriesOf(a) : ref'[x] = ref[x],
         \A q \in Procs : HoldsOf(q, a)' => HoldsOf(q, a)
  PROVE  Enough(a)'
<1>1. Credits(a)' = Credits(a) /\ Debts(a)' = Debts(a) /\ Balance(a)' = Balance(a)
  BY BalanceKept
<1>2. Holders(a)' \subseteq Holders(a)
  BY HoldersFinite, HoldersFiniteNext
<1>3. Cardinality(Holders(a)') <= Cardinality(Holders(a))
  BY <1>2, HoldersFinite, FS_Subset
<1>4. Balance(a) \in Int
  BY FS_CardinalityType DEF Balance, Enough
<1>5. QED
  BY <1>1, <1>3, <1>4, HoldersFinite, HoldersFiniteNext DEF Enough

\* One holder more, and one reference.
LEMMA EnoughAdded ==
  ASSUME NEW a \in Assets, NEW p \in Procs, Enough(a), IsFiniteSet(Credits(a)'), IsFiniteSet(Debts(a)'),
         Balance(a) \in Int, Balance(a)' = Balance(a) + 1,
         \A q \in Procs \ {p} : HoldsOf(q, a)' => HoldsOf(q, a)
  PROVE  Enough(a)'
<1>1. Holders(a)' \subseteq Holders(a) \cup {p}
  BY HoldersFinite, HoldersFiniteNext
<1>2. Cardinality(Holders(a) \cup {p}) <= Cardinality(Holders(a)) + 1 /\ IsFiniteSet(Holders(a) \cup {p})
      /\ Cardinality(Holders(a) \cup {p}) \in Nat
  <2> DEFINE O == Holders(a)
  <2>1. IsFiniteSet(O) /\ Cardinality(O) \in Nat
    BY HoldersFinite
  <2> HIDE DEF O
  <2>2. IsFiniteSet(O \cup {p})
    BY <2>1, FS_AddElement
  <2>3. Cardinality(O \cup {p}) = IF p \in O THEN Cardinality(O) ELSE Cardinality(O) + 1
    BY <2>1, FS_AddElement, Zenon
  <2>4. Cardinality(O \cup {p}) \in Nat /\ Cardinality(O \cup {p}) <= Cardinality(O) + 1
    BY <2>1, <2>3
  <2>5. QED
    BY <2>2, <2>4 DEF O
<1>3. Cardinality(Holders(a)') <= Cardinality(Holders(a) \cup {p})
  BY <1>1, <1>2, FS_Subset
<1>4. QED
  BY <1>2, <1>3, HoldersFinite, HoldersFiniteNext DEF Enough

\* One holder less, and one reference.
LEMMA EnoughTaken ==
  ASSUME NEW a \in Assets, NEW p \in Procs, Enough(a), IsFiniteSet(Credits(a)'), IsFiniteSet(Debts(a)'),
         Balance(a) \in Int, Balance(a)' = Balance(a) - 1, HoldsOf(p, a), ~HoldsOf(p, a)',
         \A q \in Procs : HoldsOf(q, a)' => HoldsOf(q, a)
  PROVE  Enough(a)'
<1>1. Holders(a)' \subseteq Holders(a) \ {p} /\ p \in Holders(a)
  BY HoldersFinite, HoldersFiniteNext
<1>2. Cardinality(Holders(a) \ {p}) = Cardinality(Holders(a)) - 1 /\ IsFiniteSet(Holders(a) \ {p})
  BY <1>1, HoldersFinite, FS_RemoveElement
<1>3. Cardinality(Holders(a)') <= Cardinality(Holders(a) \ {p})
  BY <1>1, <1>2, FS_Subset
<1>4. QED
  BY <1>2, <1>3, HoldersFinite, HoldersFiniteNext DEF Enough

\* Every action keeps the references of an asset sufficient.
LEMMA EnoughStep ==
  ASSUME OwnInv, CountInv, [Next]_vars, NEW a \in Assets, Enough(a)
  PROVE  Enough(a)'
<1> USE DEF OwnInv, TypeOK, HoldsOf, Holds, Goto, connVars, lockVars, procVars
<1>0. IsFiniteSet(Credits(a)) /\ IsFiniteSet(Debts(a))
  BY DEF Enough
<1>1. ASSUME UNCHANGED <<asset, ref, installed>>, \A q \in Procs : HoldsOf(q, a)' => HoldsOf(q, a)
      PROVE  Enough(a)'
  BY <1>1, EnoughKept DEF EntriesOf
<1>2. ASSUME NEW p \in Procs, Acquire(p) PROVE Enough(a)'
  <2>1. /\ ent[p] \in Clients /\ ent[p] \in installed /\ asset[ent[p]] = want[p] /\ UNCHANGED <<asset, installed>>
        /\ ref'[ent[p]] = ref[ent[p]] + 1 /\ \A x \in Clients \ {ent[p]} : ref'[x] = ref[x]
        /\ want' = want /\ pc[p] = "acquire" /\ \A q \in Procs \ {p} : pc'[q] = pc[q] /\ retTo'[q] = retTo[q]
        /\ ref' \in [Clients -> Int]
    BY <1>2 DEF Acquire, CountInv, FoundStays, InstalledOnce, Found, LocalsOK
  <2>2. CASE want[p] = a
    <3>1. /\ IsFiniteSet(Credits(a)') /\ IsFiniteSet(Debts(a)')
          /\ Balance(a) \in Int /\ Balance(a)' = Balance(a) + 1
      BY <1>0, <2>1, <2>2, BalanceMoves DEF EntriesOf
    <3>2. QED
      BY <2>1, <3>1, EnoughAdded
  <2>3. CASE want[p] # a
    <3>1. EntriesOf(a)' = EntriesOf(a) /\ \A x \in EntriesOf(a) : ref'[x] = ref[x]
      BY <2>1, <2>3 DEF EntriesOf
    <3>2. QED
      BY <2>1, <2>3, <3>1, EnoughKept
  <2>4. QED
    BY <2>2, <2>3
<1>3. ASSUME NEW p \in Procs, DialOk(p) PROVE Enough(a)'
  <2>1. PICK c \in Clients : life[c] = "fresh" /\ asset' = [asset EXCEPT ![c] = want[p]] /\ ref' = [ref EXCEPT ![c] = 1]
    BY <1>3 DEF DialOk
  <2>2. c \notin installed /\ installed' = installed
    BY <1>3, <2>1 DEF DialOk, CountInv, InstalledOnce
  <2>3. EntriesOf(a)' = EntriesOf(a) /\ \A x \in EntriesOf(a) : ref'[x] = ref[x]
    BY <2>1, <2>2 DEF EntriesOf
  <2>4. QED
    BY <1>3, <2>3, EnoughKept DEF DialOk
<1>4. ASSUME NEW p \in Procs, Insert(p) PROVE Enough(a)'
  <2>1. CASE entries[want[p]] # None
    BY <1>1, <1>4, <2>1 DEF Insert
  <2>2. CASE entries[want[p]] = None
    <3>1. /\ own[p] \in Clients /\ own[p] \notin installed /\ asset[own[p]] = want[p] /\ ref[own[p]] = 1
          /\ UNCHANGED <<asset, ref, want>> /\ installed' = installed \cup {own[p]}
          /\ \A q \in Procs \ {p} : pc'[q] = pc[q] /\ retTo'[q] = retTo[q]
      BY <1>4, <2>2 DEF Insert, CountInv, InstalledOnce, PrivateOwned, Private, LocalsOK
    <3>2. CASE want[p] = a
      <4>1. /\ IsFiniteSet(Credits(a)') /\ IsFiniteSet(Debts(a)')
            /\ Balance(a) \in Int /\ Balance(a)' = Balance(a) + 1
        BY <1>0, <3>1, <3>2, BalanceGains
      <4>2. QED
        BY <3>1, <4>1, EnoughAdded
    <3>3. CASE want[p] # a
      <4>1. EntriesOf(a)' = EntriesOf(a) /\ \A x \in EntriesOf(a) : ref'[x] = ref[x]
        BY <3>1, <3>3 DEF EntriesOf
      <4>2. QED
        BY <3>1, <3>3, <4>1, EnoughKept
    <3>4. QED
      BY <3>2, <3>3
  <2>3. QED
    BY <2>1, <2>2
<1>5. ASSUME NEW p \in Procs, GetStep(p) PROVE Enough(a)'
  <2>1. CASE Lookup(p) \/ ProbeStart(p) \/ ProbeEnd(p) \/ DialFails(p)
    BY <1>1, <2>1 DEF Lookup, ProbeStart, ProbeEnd, DialFails, LocalsOK
  <2>2. CASE Discard(p)
    BY <1>1, <2>2 DEF Discard
  <2>3. CASE Remove(p) \/ Close(p)
    BY <1>1, <2>3 DEF Remove, Close
  <2>4. QED
    BY <1>2, <1>3, <1>4, <1>5, <2>1, <2>2, <2>3 DEF GetStep
<1>6. ASSUME NEW p \in Procs, ReleaseStep(p) PROVE Enough(a)'
  <2>1. CASE Decrement(p)
    <3>1. /\ ent[p] \in Clients /\ ent[p] \in installed /\ asset[ent[p]] = want[p] /\ UNCHANGED <<asset, installed>>
          /\ ref'[ent[p]] = ref[ent[p]] + -1 /\ \A x \in Clients \ {ent[p]} : ref'[x] = ref[x]
          /\ pc[p] = "decrement" /\ pc'[p] = "idle" /\ ref' \in [Clients -> Int]
          /\ \A q \in Procs \ {p} : pc'[q] = pc[q] /\ retTo'[q] = retTo[q] /\ want'[q] = want[q]
      BY <2>1 DEF Decrement, Return, CountInv, FoundStays, InstalledOnce, Found, LocalsOK
    <3>2. CASE want[p] = a
      <4>1. /\ IsFiniteSet(Credits(a)') /\ IsFiniteSet(Debts(a)')
            /\ Balance(a) \in Int /\ Balance(a)' = Balance(a) + -1
        BY <1>0, <3>1, <3>2, BalanceMoves DEF EntriesOf
      <4>2. Balance(a)' = Balance(a) - 1
        BY <4>1
      <4>3. QED
        BY <3>1, <3>2, <4>1, <4>2, EnoughTaken
    <3>3. CASE want[p] # a
      <4>1. EntriesOf(a)' = EntriesOf(a) /\ \A x \in EntriesOf(a) : ref'[x] = ref[x]
        BY <3>1, <3>3 DEF EntriesOf
      <4>2. QED
        BY <3>1, <4>1, EnoughKept
    <3>4. QED
      BY <3>2, <3>3
  <2>2. CASE Release(p)
    BY <1>1, <2>2 DEF Release, Return
  <2>3. QED
    BY <1>6, <2>1, <2>2 DEF ReleaseStep
<1>7. ASSUME NEW p \in Procs, CallerStep(p) PROVE Enough(a)'
  BY <1>1, <1>7 DEF CallerStep, Call, Finish, SessionError, CountInv, ReleaseToCome
<1>8. ASSUME UNCHANGED <<asset, ref, procVars, installed>> PROVE Enough(a)'
  BY <1>1, <1>8
<1>9. CASE SweepStep \/ DrainStep
  BY <1>8, <1>9 DEF SweepStep, DrainStep, SweepCheck, SweepClose, SweepEnd, DrainStart, DrainClose, DrainEnd,
                    CloseMapped
<1>10. CASE SweepStart \/ CloseBegin \/ CleanerExit
  BY <1>8, <1>10 DEF SweepStart, CloseBegin, CleanerExit
<1>11. CASE \E c \in Clients : Drop(c) \/ Expire(c)
  BY <1>8, <1>11 DEF Drop, Expire
<1>12. CASE UNCHANGED vars
  BY <1>8, <1>12 DEF vars
<1>13. QED
  BY <1>5, <1>6, <1>7, <1>9, <1>10, <1>11, <1>12 DEF Next

\* The pool starts with no reference and no holder.
LEMMA InitBalance == Init => BalanceInv
<1> SUFFICES ASSUME Init, NEW a \in Assets PROVE Enough(a)
  BY DEF BalanceInv, RefsNeverLost, Enough
<1>1. EntriesOf(a) = {} /\ Holders(a) = {}
  BY PoolAssumption DEF Init, EntriesOf, Holders, Holds
<1>2. Credits(a) = {} /\ Debts(a) = {}
  BY <1>1 DEF Credits, Debts
<1>3. QED
  BY <1>1, <1>2, FS_EmptySet DEF Balance, Enough

\* Every action keeps the totals.
LEMMA BalanceStep == OwnInv /\ CountInv /\ BalanceInv /\ [Next]_vars => BalanceInv'
BY EnoughStep DEF BalanceInv, RefsNeverLost, Enough

-----------------------------------------------------------------------------
(* The locks *)

\* Every action leaves each lock with somebody on the way to its release.
LEMMA LocksStep == OwnInv /\ LocksHeld /\ [Next]_vars => LocksHeld'
<1> SUFFICES ASSUME OwnInv, LocksHeld, [Next]_vars PROVE LocksHeld'
  OBVIOUS
<1> USE PoolAssumption DEF OwnInv, TypeOK, LocksHeld, Goto, connVars, lockVars, procVars
<1>1. ASSUME NEW p \in Procs, GetStep(p) PROVE LocksHeld'
  <2>1. CASE Lookup(p)     BY <2>1 DEF Lookup
  <2>2. CASE ProbeStart(p) BY <2>2 DEF ProbeStart, LocalsOK
  <2>3. CASE ProbeEnd(p)   BY <2>3 DEF ProbeEnd, LocalsOK
  <2>4. CASE Acquire(p)    BY <2>4 DEF Acquire
  <2>5. CASE DialOk(p)     BY <2>5 DEF DialOk
  <2>6. CASE DialFails(p)  BY <2>6 DEF DialFails
  <2>7. CASE Insert(p)     BY <2>7 DEF Insert
  <2>8. CASE Discard(p)    BY <2>8 DEF Discard, CloseClient
  <2>9. CASE Remove(p)     BY <2>9 DEF Remove
  <2>10. CASE Close(p)     BY <2>10 DEF Close, CloseClient
  <2>11. QED
    BY <1>1, <2>1, <2>2, <2>3, <2>4, <2>5, <2>6, <2>7, <2>8, <2>9, <2>10 DEF GetStep
<1>2. ASSUME NEW p \in Procs, ReleaseStep(p) \/ CallerStep(p) PROVE LocksHeld'
  BY <1>2 DEF ReleaseStep, CallerStep, Release, Decrement, Return, Call, Finish, SessionError
<1>3. CASE SweepStart \/ SweepStep
  BY <1>3 DEF SweepStart, SweepStep, SweepCheck, SweepClose, SweepEnd, CloseMapped, CloseClient
<1>4. CASE CloseBegin \/ CleanerExit \/ DrainStep
  BY <1>4 DEF CloseBegin, CleanerExit, DrainStep, DrainStart, DrainClose, DrainEnd, CloseMapped, CloseClient
<1>5. CASE \E c \in Clients : Drop(c) \/ Expire(c)
  BY <1>5 DEF Drop, Expire
<1>6. CASE UNCHANGED vars
  BY <1>6 DEF vars
<1>7. QED
  BY <1>1, <1>2, <1>3, <1>4, <1>5, <1>6 DEF Next

-----------------------------------------------------------------------------
(* The whole invariant *)

\* Owners, counts, totals and locks, for any assets, goroutines and dials.
THEOREM Inductive == Spec => []IInv
<1>1. Init => IInv
  <2>1. Init => LocksHeld
    BY DEF Init, LocksHeld
  <2>2. QED
    BY <2>1, InitOwnInv, InitCounts, InitBalance DEF IInv
<1>2. IInv /\ [Next]_vars => IInv'
  <2>1. OwnInv /\ [Next]_vars => OwnInv'
    BY TypeStep, OwnStep DEF OwnInv, Owned
  <2>2. QED
    BY <2>1, CountStep, BalanceStep, LocksStep DEF IInv
<1>3. QED
  BY <1>1, <1>2, PTL DEF Spec

\* Until an asset's entry is first evicted its refCount is the number of its
\* holders, however Gets, Releases and duplicate dials interleave.
THEOREM CountsExactUntilEvicted == Spec => []RefExactUntilEvicted
BY Inductive, PTL DEF IInv, CountInv

\* Releases may count on the wrong entry after an eviction, but no reference of
\* the asset is lost: in total there are as many as goroutines that hold a client.
THEOREM ReferencesSuffice == Spec => []RefsNeverLost
BY Inductive, PTL DEF IInv, BalanceInv

\* No circle of waits: the safety half of the calls' return and of Close's end.
THEOREM NobodyWaitsInACircle == Spec => []NoMutualWait
<1>1. IInv => NoMutualWait
  BY PoolAssumption
     DEF IInv, OwnInv, TypeOK, LocalsOK, VisitsMapped, Mapped, LocksHeld, NoMutualWait, AwaitsEntry, Probes
<1>2. QED
  BY Inductive, <1>1, PTL
=============================================================================
