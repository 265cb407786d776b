------------------------- MODULE KafkaClientsProofs -------------------------
(***************************************************************************)
(* Theorems about KafkaClients for any number of keys, goroutines and      *)
(* dials.  What carries them is that the reference counts are exact        *)
(* (RefsExact): a client with count 0 has no borrower, so that closing it  *)
(* is safe, and a release that sees 1 is the last.                         *)
(***************************************************************************)
EXTENDS KafkaClients, FiniteSetTheorems, TLAPS

-----------------------------------------------------------------------------
(* Counting borrowers *)

\* A client has finitely many borrowers.
LEMMA BorrowersFinite ==
  ASSUME NEW c PROVE IsFiniteSet(Borrowers(c)) /\ Cardinality(Borrowers(c)) \in Nat
BY KafkaAssumption, FS_Subset, FS_CardinalityType DEF Borrowers

\* With exact counts, 0 means no borrower and 1 means a single one.
LEMMA CountTells ==
  ASSUME RefsExact, NEW c \in Clients
  PROVE  /\ refs[c] \in Nat
         /\ refs[c] = 0 <=> \A p \in Procs : ~Borrows(p, c)
         /\ refs[c] = 1 => \A p, q \in Procs : Borrows(p, c) /\ Borrows(q, c) => p = q
<1>1. refs[c] = Cardinality(Borrowers(c))
  BY DEF RefsExact
<1>2. refs[c] = 0 <=> Borrowers(c) = {}
  BY <1>1, BorrowersFinite, FS_EmptySet
<1>3. refs[c] = 1 => \E x : Borrowers(c) = {x}
  BY <1>1, BorrowersFinite, FS_Singleton
<1>4. QED
  BY <1>1, <1>2, <1>3, BorrowersFinite DEF Borrowers

\* Nobody borrows or returns: the counts stay exact.
LEMMA CountKept ==
  ASSUME RefsExact, refs' = refs,
         \A q \in Procs, d \in Clients : Borrows(q, d)' <=> Borrows(q, d)
  PROVE  RefsExact'
<1>1. \A d \in Clients : Borrowers(d)' = Borrowers(d)
  BY DEF Borrowers
<1>2. QED
  BY <1>1 DEF RefsExact

\* One goroutine becomes a borrower of c.
LEMMA CountUp ==
  ASSUME RefsExact, TypeOK, NEW p \in Procs, NEW c \in Clients,
         refs' = [refs EXCEPT ![c] = @ + 1],
         ~Borrows(p, c), Borrows(p, c)',
         \A q \in Procs, d \in Clients : q # p \/ d # c => (Borrows(q, d)' <=> Borrows(q, d))
  PROVE  RefsExact'
<1>1. Borrowers(c)' = Borrowers(c) \cup {p}
  BY DEF Borrowers
<1>2. \A d \in Clients \ {c} : Borrowers(d)' = Borrowers(d)
  BY DEF Borrowers
<1>3. Cardinality(Borrowers(c)') = Cardinality(Borrowers(c)) + 1
  <2>1. p \notin Borrowers(c) BY DEF Borrowers
  <2>2. QED BY <1>1, <2>1, BorrowersFinite, FS_AddElement
<1>4. QED
  BY <1>2, <1>3 DEF RefsExact, TypeOK

\* One goroutine stops being a borrower of c.
LEMMA CountDown ==
  ASSUME RefsExact, TypeOK, NEW p \in Procs, NEW c \in Clients,
         refs' = [refs EXCEPT ![c] = @ - 1],
         Borrows(p, c), ~Borrows(p, c)',
         \A q \in Procs, d \in Clients : q # p \/ d # c => (Borrows(q, d)' <=> Borrows(q, d))
  PROVE  RefsExact'
<1>1. Borrowers(c)' = Borrowers(c) \ {p}
  BY DEF Borrowers
<1>2. \A d \in Clients \ {c} : Borrowers(d)' = Borrowers(d)
  BY DEF Borrowers
<1>3. Cardinality(Borrowers(c)') = Cardinality(Borrowers(c)) - 1
  <2>1. p \in Borrowers(c) BY DEF Borrowers
  <2>2. QED BY <1>1, <2>1, BorrowersFinite, FS_RemoveElement
<1>4. QED
  BY <1>2, <1>3 DEF RefsExact, TypeOK

-----------------------------------------------------------------------------
(* The inductive invariant *)

\* The manager starts without clients.
LEMMA InitIInv == Init => IInv
<1> SUFFICES ASSUME Init PROVE IInv
  OBVIOUS
<1> USE KafkaAssumption
<1>1. TypeOK
  BY DEF Init, TypeOK
<1>2. RefsExact
  <2>1. \A c \in Clients : Borrowers(c) = {}
    BY DEF Init, Borrowers, Borrows
  <2>2. QED
    BY <2>1, FS_EmptySet DEF Init, RefsExact
<1>3. QED
  BY <1>1, <1>2 DEF Init, IInv, LocalsOK, BorrowedOpen, MappedOpen, OwedAlone,
                    MarkedDialled, NothingLost, Borrows, Owes, Mapped

\* A borrow keeps the types of what it assigns.
LEMMA BorrowTypes ==
  ASSUME TypeOK, NEW p \in Procs, NEW c \in Clients, Borrow(p, c)
  PROVE  /\ refs' \in [Clients -> Nat]
         /\ stale' \in [Clients -> BOOLEAN]
         /\ conn' \in [Procs -> Clients \cup {None}]
BY DEF TypeOK, Borrow

\* Every action keeps the types; a release finds a count of at least 1.
LEMMA TypeStep == IInv /\ [Next]_vars => TypeOK'
<1> SUFFICES ASSUME IInv, [Next]_vars PROVE TypeOK'
  OBVIOUS
<1> USE KafkaAssumption DEF IInv, TypeOK, Goto, connVars, procVars
<1>1. ASSUME NEW p \in Procs, Begin(p) PROVE TypeOK'
  <2>1. ASSUME NEW k \in Keys, Acquire(p, k) PROVE TypeOK'
    <3>1. /\ clients' \in [Keys -> Clients \cup {None}]
          /\ closing' \in [Clients -> BOOLEAN]
          /\ life' \in [Clients -> {"fresh", "open", "closed"}]
      BY <2>1 DEF Acquire, TakeOut, Shut
    <3>2. /\ refs' \in [Clients -> Nat]
          /\ stale' \in [Clients -> BOOLEAN]
          /\ conn' \in [Procs -> Clients \cup {None}]
      <4>1. CASE k \in Mapped \ Outdated(k)
        <5>1. clients[k] \in Clients
          BY <4>1 DEF Mapped
        <5>2. Borrow(p, clients[k])
          BY <2>1, <4>1 DEF Acquire
        <5>3. QED
          BY <5>1, <5>2, BorrowTypes
      <4>2. CASE k \notin Mapped \ Outdated(k)
        BY <2>1, <4>2 DEF Acquire
      <4>3. QED
        BY <4>1, <4>2
    <3>3. /\ pc' \in [Procs -> {"idle", "dial", "insert", "evict", "discard", "using", "close", "closeAll"}]
          /\ want' \in [Procs -> Keys \cup {None}]
      BY <2>1 DEF Acquire
    <3>4. UNCHANGED <<mu, dup, toClose>>
      BY <2>1 DEF Acquire
    <3>5. QED
      BY <3>1, <3>2, <3>3, <3>4
  <2>2. ASSUME NEW keys, CloseKeys(p, keys) PROVE TypeOK'
    BY <2>2 DEF CloseKeys, TakeOut, Unborrowed, Under, Mapped
  <2>3. QED
    BY <1>1, <2>1, <2>2 DEF Begin, CloseAsset, CloseManager
<1>2. ASSUME NEW p \in Procs, AcquireStep(p) PROVE TypeOK'
  <2>1. CASE DialOk(p)    BY <2>1 DEF DialOk
  <2>2. CASE DialFails(p) BY <2>2 DEF DialFails
  <2>3. CASE Insert(p)
    <3>1. want[p] \in Keys /\ conn[p] \in Clients
      BY <2>3 DEF Insert, LocalsOK
    <3>2. CASE clients[want[p]] # None
      <4>1. clients[want[p]] \in Clients /\ Borrow(p, clients[want[p]])
        BY <2>3, <3>1, <3>2 DEF Insert
      <4>2. QED
        BY <2>3, <3>1, <3>2, <4>1, BorrowTypes DEF Insert
    <3>3. CASE clients[want[p]] = None
      <4>1. Borrow(p, conn[p])
        BY <2>3, <3>3 DEF Insert
      <4>2. QED
        BY <2>3, <3>1, <3>3, <4>1, BorrowTypes DEF Insert
    <3>4. QED
      BY <3>2, <3>3
  <2>4. CASE Evict(p)     BY <2>4 DEF Evict, TakeOut, Shut
  <2>5. CASE Evicted(p)   BY <2>5 DEF Evicted
  <2>6. CASE Discard(p)   BY <2>6 DEF Discard, Shut
  <2>7. QED
    BY <1>2, <2>1, <2>2, <2>3, <2>4, <2>5, <2>6 DEF AcquireStep
<1>3. ASSUME NEW p \in Procs, EndStep(p) PROVE TypeOK'
  <2>1. CASE Release(p)
    <3>1. conn[p] \in Clients /\ Borrows(p, conn[p])
      BY <2>1 DEF Release, LocalsOK, Borrows
    <3>2. refs[conn[p]] - 1 \in Nat
      BY <3>1, CountTells
    <3>3. QED
      BY <2>1, <3>1, <3>2 DEF Release
  <2>2. CASE Close(p)     BY <2>2 DEF Close, Shut
  <2>3. CASE CloseNext(p) BY <2>3 DEF CloseNext, Shut
  <2>4. CASE CloseDone(p) BY <2>4 DEF CloseDone
  <2>5. QED
    BY <1>3, <2>1, <2>2, <2>3, <2>4 DEF EndStep
<1>4. ASSUME NEW c \in Clients, Expire(c) PROVE TypeOK'
  BY <1>4 DEF Expire
<1>5. CASE UNCHANGED vars
  BY <1>5 DEF vars
<1>6. QED
  BY <1>1, <1>2, <1>3, <1>4, <1>5 DEF Next

\* The entries that leave the map at once: each had one key, was open and not
\* marked, and nobody owed it anything.
LEMMA UnderFacts ==
  ASSUME IInv, NEW keys \in SUBSET Keys, NEW c \in Under(keys)
  PROVE  /\ c \in Clients /\ life[c] = "open" /\ ~closing[c]
         /\ \A k \in Keys : clients[k] = c => k \in keys
         /\ \A p \in Procs : ~Owes(p, c)
<1>1. PICK k \in keys \cap Mapped : c = clients[k]
  BY DEF Under
<1>2. c \in Clients
  BY <1>1 DEF IInv, TypeOK, Mapped
<1>3. life[c] = "open" /\ ~closing[c] /\ \A j \in Keys : clients[j] = c => j = k
  BY <1>1 DEF IInv, MappedOpen
<1>4. QED
  BY <1>1, <1>2, <1>3 DEF IInv, OwedAlone

\* Taking entries out and closing unborrowed ones of them disturbs nobody else.
LEMMA TakenOut ==
  ASSUME IInv, NEW keys \in SUBSET Keys, TakeOut(keys),
         NEW cs \in SUBSET Unborrowed(keys), Shut(cs)
  PROVE  /\ MappedOpen' /\ MarkedDialled'
         /\ \A p \in Procs, c \in Clients : Borrows(p, c) => life'[c] = "open"
         /\ \A p \in Procs, c \in Clients : Owes(p, c) =>
              /\ life'[c] = "open" /\ closing'[c] = closing[c]
              /\ \A k \in Keys : clients'[k] # c
         /\ \A c \in Clients : life'[c] = "open" =>
              \/ \E k \in Keys : clients'[k] = c
              \/ closing'[c] /\ refs[c] > 0
              \/ \E p \in Procs : Owes(p, c)
              \/ c \in Unborrowed(keys) \ cs
<1> USE KafkaAssumption
<1>t. TypeOK
  BY DEF IInv
<1>0. \A c \in Clients : closing'[c] = (closing[c] \/ c \in Under(keys))
  BY DEF TakeOut
<1>1. \A c \in Clients : life'[c] = IF c \in cs THEN "closed" ELSE life[c]
  BY DEF Shut
<1>2. cs \subseteq Under(keys) /\ \A c \in Unborrowed(keys) : refs[c] = 0
  BY DEF Unborrowed
<1>3. \A k \in Keys : clients'[k] = IF k \in keys THEN None ELSE clients[k]
  BY DEF TakeOut
<1>4. ASSUME NEW k \in Keys, clients'[k] # None
      PROVE  k \in Mapped /\ clients'[k] = clients[k] /\ clients[k] \notin Under(keys)
  BY <1>3, <1>4, UnderFacts DEF Mapped
<1>5. MappedOpen'
  BY <1>t, <1>0, <1>1, <1>2, <1>3, <1>4 DEF IInv, MappedOpen, Mapped, TypeOK
<1>6. MarkedDialled'
  BY <1>0, <1>1, <1>2, UnderFacts DEF IInv, MarkedDialled
<1>7. ASSUME NEW p \in Procs, NEW c \in Clients, Borrows(p, c) PROVE life'[c] = "open"
  <2>1. life[c] = "open" /\ refs[c] # 0
    BY <1>7, CountTells DEF IInv, BorrowedOpen
  <2>2. QED
    BY <1>1, <1>2, <2>1
<1>8. ASSUME NEW p \in Procs, NEW c \in Clients, Owes(p, c)
      PROVE  /\ life'[c] = "open" /\ closing'[c] = closing[c]
             /\ \A k \in Keys : clients'[k] # c
  <2>1. c \notin Under(keys) /\ life[c] = "open" /\ \A k \in Keys : clients[k] # c
    BY <1>8, UnderFacts DEF IInv, OwedAlone
  <2>2. closing'[c] = closing[c]
    BY <2>1 DEF TakeOut, IInv, TypeOK
  <2>3. QED
    BY <1>1, <1>2, <1>3, <2>1, <2>2
<1>9. ASSUME NEW c \in Clients, life'[c] = "open"
      PROVE  \/ \E k \in Keys : clients'[k] = c
             \/ closing'[c] /\ refs[c] > 0
             \/ \E p \in Procs : Owes(p, c)
             \/ c \in Unborrowed(keys) \ cs
  <2>1. life[c] = "open" /\ c \notin cs
    BY <1>1, <1>9
  <2>2. CASE c \in Under(keys)
    <3>1. closing'[c]
      BY <1>0, <2>2
    <3>2. refs[c] = 0 \/ refs[c] > 0
      BY <1>t DEF TypeOK
    <3>3. QED
      BY <2>1, <2>2, <3>1, <3>2 DEF Unborrowed
  <2>3. CASE c \notin Under(keys)
    <3>1. CASE \E k \in Keys : clients[k] = c
      BY <1>3, <2>3, <3>1 DEF Under, Mapped
    <3>2. CASE ~\E k \in Keys : clients[k] = c
      BY <1>0, <1>1, <2>1, <3>2 DEF IInv, NothingLost
    <3>3. QED
      BY <3>1, <3>2
  <2>4. QED
    BY <2>2, <2>3
<1>10. QED
  BY <1>5, <1>6, <1>7, <1>8, <1>9

\* IInv without the types, which TypeStep keeps.
Exact == /\ LocalsOK
         /\ RefsExact
         /\ BorrowedOpen
         /\ MappedOpen
         /\ OwedAlone
         /\ MarkedDialled
         /\ NothingLost

\* A step that moves no client, no count and no debt.
LEMMA QuietStep ==
  ASSUME IInv, UNCHANGED <<clients, life, refs, closing>>, LocalsOK',
         \A q \in Procs, c \in Clients :
           /\ Borrows(q, c)' <=> Borrows(q, c)
           /\ Owes(q, c)' <=> Owes(q, c)
           /\ Owes(q, c) => (pc'[q] \in {"close", "closeAll"} <=> pc[q] \in {"close", "closeAll"})
  PROVE  Exact'
<1>1. RefsExact'
  BY CountKept DEF IInv
<1>2. BorrowedOpen' /\ MappedOpen' /\ MarkedDialled' /\ NothingLost'
  BY DEF IInv, BorrowedOpen, MappedOpen, Mapped, MarkedDialled, NothingLost
<1>3. OwedAlone'
  BY DEF IInv, OwedAlone
<1>4. QED
  BY <1>1, <1>2, <1>3 DEF Exact

\* The first half of Acquire: a hit borrows the client it found, a miss goes to dial.
LEMMA AcquireKeeps ==
  ASSUME IInv, NEW p \in Procs, NEW k \in Keys, Acquire(p, k), TypeOK'
  PROVE  Exact'
<1> USE DEF Goto
<1>t. TypeOK /\ pc[p] = "idle" /\ toClose[p] = {}
  BY DEF Acquire, IInv, LocalsOK
<1>1. Outdated(k) \in SUBSET Keys /\ TakeOut(Outdated(k)) /\ Shut(Unborrowed(Outdated(k)))
  BY DEF Acquire, Outdated, Mapped
<1> DEFINE after == clients[k]
           hit == k \in Mapped \ Outdated(k)
<1>2. \A q \in Procs, c \in Clients :
        /\ Owes(q, c)' <=> Owes(q, c)
        /\ Owes(q, c) => q # p /\ pc'[q] = pc[q]
        /\ q # p => (Borrows(q, c)' <=> Borrows(q, c))
        /\ ~Borrows(p, c)
        /\ Borrows(p, c)' <=> hit /\ c = after
  <2>1. CASE hit
    BY <1>t, <2>1 DEF Acquire, Borrow, Owes, Borrows, TypeOK, IInv
  <2>2. CASE ~hit
    BY <1>t, <2>2 DEF Acquire, Owes, Borrows, TypeOK, IInv
  <2>3. QED
    BY <2>1, <2>2
<1>3. hit => after \in Clients /\ life[after] = "open" /\ clients'[k] = after
  BY <1>1, <1>t DEF Mapped, TypeOK, IInv, MappedOpen, TakeOut
<1>4. RefsExact'
  <2>1. CASE hit
    BY <1>2, <1>3, <1>t, <2>1, CountUp DEF Acquire, Borrow, IInv
  <2>2. CASE ~hit
    BY <1>2, <2>2, CountKept DEF Acquire, IInv
  <2>3. QED
    BY <2>1, <2>2
<1>5. LocalsOK'
  <2>1. CASE hit
    BY <1>t, <1>3, <2>1 DEF Acquire, Borrow, TypeOK, IInv, LocalsOK
  <2>2. CASE ~hit
    BY <1>t, <2>2 DEF Acquire, TypeOK, IInv, LocalsOK
  <2>3. QED
    BY <2>1, <2>2
<1>6. \A c \in Clients : /\ refs'[c] \in Nat /\ refs[c] \in Nat /\ refs'[c] >= refs[c]
                         /\ refs'[c] # refs[c] => hit /\ c = after
  <2>1. CASE hit
    BY <1>t, <1>3, <2>1 DEF Acquire, Borrow, TypeOK
  <2>2. CASE ~hit
    BY <1>t, <2>2 DEF Acquire, TypeOK
  <2>3. QED
    BY <2>1, <2>2
<1>7. BorrowedOpen'
  <2>1. hit => life'[after] = "open"
    BY <1>1, <1>3, TakenOut, <1>t DEF Shut, Unborrowed, Under, IInv, MappedOpen, Mapped, TypeOK
  <2>2. QED
    BY <1>1, <1>2, <2>1, TakenOut DEF BorrowedOpen
<1>8. MappedOpen' /\ MarkedDialled'
  BY <1>1, TakenOut
<1>9. OwedAlone'
  <2>1. ASSUME NEW q \in Procs, NEW c \in Clients, Owes(q, c)
        PROVE  /\ life'[c] = "open" /\ refs'[c] = 0
               /\ \A j \in Keys : clients'[j] # c
               /\ closing'[c] = closing[c] /\ pc'[q] = pc[q]
    <3>1. life'[c] = "open" /\ closing'[c] = closing[c] /\ \A j \in Keys : clients'[j] # c
      BY <1>1, <2>1, TakenOut
    <3>2. refs[c] = 0
      BY <2>1 DEF IInv, OwedAlone
    <3>3. ~(hit /\ c = after)
      BY <1>3, <3>1
    <3>4. QED
      BY <1>2, <1>6, <2>1, <3>1, <3>2, <3>3
  <2>2. QED
    BY <1>2, <2>1 DEF IInv, OwedAlone
<1>10. NothingLost'
  <2>1. ASSUME NEW c \in Clients, life'[c] = "open"
        PROVE  \/ \E j \in Keys : clients'[j] = c
               \/ closing'[c] /\ refs'[c] > 0
               \/ \E q \in Procs : Owes(q, c)'
    <3>1. \/ \E j \in Keys : clients'[j] = c
          \/ closing'[c] /\ refs[c] > 0
          \/ \E q \in Procs : Owes(q, c)
      BY <1>1, <2>1, TakenOut
    <3>2. refs[c] > 0 => refs'[c] > 0
      BY <1>6
    <3>3. QED
      BY <1>2, <3>1, <3>2
  <2>2. QED
    BY <2>1 DEF NothingLost
<1>11. QED
  BY <1>4, <1>5, <1>7, <1>8, <1>9, <1>10 DEF Exact

\* A dial that succeeded: the fresh client belongs to the goroutine alone.
LEMMA DialOkKeeps ==
  ASSUME IInv, NEW p \in Procs, DialOk(p), TypeOK'
  PROVE  Exact'
<1> USE DEF Goto
<1>1. PICK d \in Clients : /\ life[d] = "fresh"
                           /\ life' = [life EXCEPT ![d] = "open"]
                           /\ conn' = [conn EXCEPT ![p] = d]
  BY DEF DialOk
<1>t. TypeOK /\ pc[p] = "dial" /\ toClose[p] = {} /\ pc'[p] = "insert" /\ conn'[p] = d
  BY <1>1 DEF DialOk, IInv, LocalsOK, TypeOK
<1>u. UNCHANGED <<clients, refs, closing, toClose, mu, want, dup>>
  BY DEF DialOk
<1>2. /\ \A c \in Clients : life'[c] = IF c = d THEN "open" ELSE life[c]
      /\ \A q \in Procs : q # p => pc'[q] = pc[q] /\ conn'[q] = conn[q]
  BY <1>1, <1>t DEF DialOk, TypeOK
<1>3. \A q \in Procs, c \in Clients :
        /\ Borrows(q, c)' <=> Borrows(q, c)
        /\ Owes(q, c)' <=> Owes(q, c) \/ (q = p /\ c = d)
        /\ ~Owes(p, c)
  BY <1>t, <1>u, <1>2 DEF Borrows, Owes
<1>4. /\ \A q \in Procs : ~Borrows(q, d) /\ ~Owes(q, d)
      /\ refs[d] = 0 /\ ~closing[d] /\ \A k \in Keys : clients[k] # d
  <2>1. \A q \in Procs : ~Borrows(q, d) /\ ~Owes(q, d)
    BY <1>1 DEF IInv, BorrowedOpen, OwedAlone
  <2>2. refs[d] = 0
    BY <2>1, CountTells DEF IInv
  <2>3. ~closing[d]
    BY <1>1 DEF IInv, MarkedDialled
  <2>4. \A k \in Keys : clients[k] # d
    BY <1>1, KafkaAssumption DEF IInv, MappedOpen, Mapped
  <2>5. QED
    BY <2>1, <2>2, <2>3, <2>4
<1>5. LocalsOK'
  BY <1>t, <1>u, <1>2 DEF IInv, LocalsOK
<1>6. RefsExact'
  BY <1>u, <1>3, CountKept DEF IInv
<1>7. BorrowedOpen'
  BY <1>2, <1>3 DEF IInv, BorrowedOpen
<1>8. MappedOpen'
  BY <1>t, <1>u, <1>2, <1>4 DEF IInv, MappedOpen, Mapped, TypeOK
<1>9. OwedAlone'
  BY <1>t, <1>u, <1>2, <1>3, <1>4 DEF IInv, OwedAlone
<1>10. MarkedDialled'
  BY <1>u, <1>2 DEF IInv, MarkedDialled
<1>11. NothingLost'
  BY <1>u, <1>2, <1>3 DEF IInv, NothingLost
<1>12. QED
  BY <1>5, <1>6, <1>7, <1>8, <1>9, <1>10, <1>11 DEF Exact

\* Two goroutines dialled: the later borrows what the earlier inserted, and owes
\* its own client a close.
LEMMA DuplicateKeeps ==
  ASSUME IInv, NEW p \in Procs, Insert(p), clients[want[p]] # None, TypeOK'
  PROVE  Exact'
<1> USE DEF Goto
<1> DEFINE c0 == clients[want[p]]
           d0 == conn[p]
<1>t. /\ TypeOK /\ pc[p] = "insert" /\ toClose[p] = {}
      /\ want[p] \in Keys /\ d0 \in Clients /\ c0 \in Clients
  BY DEF Insert, IInv, LocalsOK, TypeOK
<1>u. UNCHANGED <<clients, life, closing, toClose, mu, want>>
  BY DEF Insert
<1>1. /\ refs' = [refs EXCEPT ![c0] = @ + 1]
      /\ conn' = [conn EXCEPT ![p] = c0]
      /\ dup' = [dup EXCEPT ![p] = d0]
      /\ pc' = [pc EXCEPT ![p] = "discard"]
  BY DEF Insert, Borrow
<1>2. /\ pc'[p] = "discard" /\ conn'[p] = c0 /\ dup'[p] = d0
      /\ \A q \in Procs : q # p => pc'[q] = pc[q] /\ conn'[q] = conn[q] /\ dup'[q] = dup[q]
  BY <1>1, <1>t DEF TypeOK
<1>3. \A c \in Clients : c # c0 => refs'[c] = refs[c]
  BY <1>1, <1>t DEF TypeOK
<1>4. /\ life[c0] = "open" /\ ~closing[c0]
      /\ c0 # d0 /\ \A q \in Procs : ~Owes(q, c0)
  <2>1. life[c0] = "open" /\ ~closing[c0]
    BY <1>t DEF IInv, MappedOpen, Mapped
  <2>2. \A q \in Procs : ~Owes(q, c0)
    BY <1>t DEF IInv, OwedAlone
  <2>3. Owes(p, d0)
    BY <1>t DEF Owes
  <2>4. QED
    BY <2>1, <2>2, <2>3
<1>5. \A q \in Procs, c \in Clients :
        /\ Owes(q, c)' <=> Owes(q, c)
        /\ ~Borrows(p, c)
        /\ Borrows(q, c)' <=> Borrows(q, c) \/ (q = p /\ c = c0)
  BY <1>t, <1>u, <1>2 DEF Owes, Borrows
<1>6. LocalsOK'
  BY <1>t, <1>u, <1>2 DEF IInv, LocalsOK
<1>7. RefsExact'
  <2>1. PICK c \in Clients : c = c0
    BY <1>t
  <2>2. /\ ~Borrows(p, c) /\ Borrows(p, c)'
        /\ \A q \in Procs, e \in Clients : q # p \/ e # c => (Borrows(q, e)' <=> Borrows(q, e))
    BY <1>5, <2>1
  <2>3. refs' = [refs EXCEPT ![c] = @ + 1]
    BY <1>1, <2>1
  <2>4. QED
    BY <2>2, <2>3, CountUp DEF IInv
<1>8. BorrowedOpen'
  BY <1>u, <1>4, <1>5 DEF IInv, BorrowedOpen
<1>9. MappedOpen' /\ MarkedDialled'
  BY <1>u DEF IInv, MappedOpen, Mapped, MarkedDialled
<1>10. OwedAlone'
  BY <1>t, <1>u, <1>2, <1>3, <1>4, <1>5 DEF IInv, OwedAlone
<1>11. NothingLost'
  BY <1>t, <1>u, <1>3, <1>4, <1>5 DEF IInv, NothingLost
<1>12. QED
  BY <1>6, <1>7, <1>8, <1>9, <1>10, <1>11 DEF Exact

\* The dialled client enters the map under a vacant key, with its borrower.
LEMMA InsertKeeps ==
  ASSUME IInv, NEW p \in Procs, Insert(p), clients[want[p]] = None, TypeOK'
  PROVE  Exact'
<1> USE DEF Goto
<1> DEFINE d == conn[p]
           k == want[p]
<1>t. /\ TypeOK /\ pc[p] = "insert" /\ toClose[p] = {} /\ mu = None
      /\ k \in Keys /\ d \in Clients
  BY DEF Insert, IInv, LocalsOK, TypeOK
<1>u. UNCHANGED <<life, closing, toClose, want, dup>>
  BY DEF Insert
<1>1. /\ refs' = [refs EXCEPT ![d] = @ + 1]
      /\ conn' = [conn EXCEPT ![p] = d]
      /\ clients' = [clients EXCEPT ![k] = d]
      /\ pc' = [pc EXCEPT ![p] = "evict"]
      /\ mu' = p
  BY DEF Insert, Borrow
<1>2. /\ pc'[p] = "evict" /\ conn'[p] = d
      /\ \A q \in Procs : q # p => pc'[q] = pc[q] /\ conn'[q] = conn[q]
      /\ \A j \in Keys : clients'[j] = IF j = k THEN d ELSE clients[j]
  BY <1>1, <1>t DEF TypeOK
<1>3. \A c \in Clients : c # d => refs'[c] = refs[c]
  BY <1>1, <1>t DEF TypeOK
<1>4. Owes(p, d) /\ \A c \in Clients : Owes(p, c) => c = d
  BY <1>t DEF Owes
<1>5. /\ life[d] = "open" /\ ~closing[d] /\ \A j \in Keys : clients[j] # d
      /\ \A q \in Procs : Owes(q, d) => q = p
  BY <1>t, <1>4 DEF IInv, OwedAlone
<1>6. \A q \in Procs, c \in Clients :
        /\ Owes(q, c)' <=> Owes(q, c) /\ q # p
        /\ ~Borrows(p, c)
        /\ Borrows(q, c)' <=> Borrows(q, c) \/ (q = p /\ c = d)
  BY <1>t, <1>u, <1>2 DEF Owes, Borrows
<1>7. LocalsOK'
  BY <1>t, <1>u, <1>1, <1>2, KafkaAssumption DEF IInv, LocalsOK
<1>8. RefsExact'
  BY <1>t, <1>1, <1>6, CountUp DEF IInv
<1>9. BorrowedOpen'
  BY <1>u, <1>5, <1>6 DEF IInv, BorrowedOpen
<1>10. MappedOpen'
  BY <1>t, <1>u, <1>2, <1>5, KafkaAssumption DEF IInv, MappedOpen, Mapped, TypeOK
<1>11. MarkedDialled'
  BY <1>u DEF IInv, MarkedDialled
<1>12. OwedAlone'
  BY <1>t, <1>u, <1>2, <1>3, <1>4, <1>5, <1>6 DEF IInv, OwedAlone
<1>13. NothingLost'
  <2>1. ASSUME NEW c \in Clients, c # d, life[c] = "open"
        PROVE  \/ \E j \in Keys : clients'[j] = c
               \/ closing[c] /\ refs'[c] > 0
               \/ \E q \in Procs : Owes(q, c)'
    <3>1. CASE \E j \in Keys : clients[j] = c
      BY <1>2, <1>t, <2>1, <3>1, KafkaAssumption
    <3>2. CASE ~\E j \in Keys : clients[j] = c
      BY <1>3, <1>4, <1>6, <2>1, <3>2 DEF IInv, NothingLost
    <3>3. QED
      BY <3>1, <3>2
  <2>2. clients'[k] = d
    BY <1>2, <1>t
  <2>3. QED
    BY <1>t, <1>u, <2>1, <2>2 DEF NothingLost
<1>14. QED
  BY <1>7, <1>8, <1>9, <1>10, <1>11, <1>12, <1>13 DEF Exact

\* The eviction loop: any entry may go; it is closed if nobody borrows it.
LEMMA EvictKeeps ==
  ASSUME IInv, NEW p \in Procs, Evict(p), TypeOK'
  PROVE  Exact'
<1>1. PICK k \in Mapped : TakeOut({k}) /\ Shut(Unborrowed({k}))
  BY DEF Evict
<1>2. {k} \in SUBSET Keys
  BY DEF Mapped
<1>u. UNCHANGED <<refs, mu, pc, want, conn, dup, toClose>>
  BY DEF Evict, procVars
<1>3. \A q \in Procs, c \in Clients : /\ Borrows(q, c)' <=> Borrows(q, c)
                                      /\ Owes(q, c)' <=> Owes(q, c)
  BY <1>u DEF Borrows, Owes
<1>4. LocalsOK'
  BY <1>u DEF IInv, LocalsOK
<1>5. RefsExact'
  BY <1>u, <1>3, CountKept DEF IInv
<1>6. MappedOpen' /\ MarkedDialled' /\ BorrowedOpen'
  BY <1>1, <1>2, <1>3, TakenOut DEF BorrowedOpen
<1>7. OwedAlone'
  <2>1. ASSUME NEW q \in Procs, NEW c \in Clients, Owes(q, c)
        PROVE  /\ life'[c] = "open" /\ closing'[c] = closing[c]
               /\ \A j \in Keys : clients'[j] # c
    BY <1>1, <1>2, <2>1, TakenOut
  <2>2. QED
    BY <1>u, <1>3, <2>1 DEF IInv, OwedAlone
<1>8. NothingLost'
  BY <1>1, <1>2, <1>3, <1>u, TakenOut DEF NothingLost
<1>9. QED
  BY <1>4, <1>5, <1>6, <1>7, <1>8 DEF Exact

\* CloseAsset and Close: the unborrowed entries taken out are the caller's to close.
LEMMA CloseKeysKeeps ==
  ASSUME IInv, NEW p \in Procs, NEW keys \in SUBSET Keys, CloseKeys(p, keys), TypeOK'
  PROVE  Exact'
<1> USE DEF Goto
<1>t. /\ TypeOK /\ pc[p] = "idle" /\ toClose[p] = {}
      /\ toClose' = [toClose EXCEPT ![p] = Unborrowed(keys)]
      /\ pc' = [pc EXCEPT ![p] = "closeAll"]
  BY DEF CloseKeys, IInv, LocalsOK
<1>u. UNCHANGED <<life, refs, mu, want, conn, dup>>
  BY DEF CloseKeys
<1>1. TakeOut(keys) /\ Shut({})
  <2>1. life' = [c \in Clients |-> life[c]]
    BY <1>t, <1>u DEF TypeOK
  <2>2. QED
    BY <2>1 DEF Shut, CloseKeys
<1>2. /\ pc'[p] = "closeAll" /\ toClose'[p] = Unborrowed(keys)
      /\ \A q \in Procs : q # p => pc'[q] = pc[q] /\ toClose'[q] = toClose[q]
  BY <1>t DEF TypeOK
<1>3. \A q \in Procs, c \in Clients :
        /\ Borrows(q, c)' <=> Borrows(q, c)
        /\ q # p => (Owes(q, c)' <=> Owes(q, c))
        /\ ~Owes(p, c)
        /\ Owes(p, c)' <=> c \in Unborrowed(keys)
  BY <1>t, <1>u, <1>2 DEF Owes, Borrows
<1>4. \A c \in Unborrowed(keys) :
        /\ c \in Clients /\ life[c] = "open" /\ refs[c] = 0 /\ closing'[c]
        /\ \A k \in Keys : clients'[k] # c
        /\ \A q \in Procs : ~Owes(q, c)
  <2>1. ASSUME NEW c \in Unborrowed(keys)
        PROVE  /\ c \in Clients /\ life[c] = "open" /\ refs[c] = 0
               /\ \A q \in Procs : ~Owes(q, c)
               /\ \A k \in Keys : clients[k] = c => k \in keys
    BY UnderFacts DEF Unborrowed
  <2>2. ASSUME NEW c \in Unborrowed(keys)
        PROVE  closing'[c]
    BY <1>1, <2>1 DEF TakeOut, Unborrowed
  <2>3. ASSUME NEW c \in Unborrowed(keys), NEW k \in Keys
        PROVE  clients'[k] # c
    BY <1>1, <2>1, KafkaAssumption DEF TakeOut
  <2>4. QED
    BY <2>1, <2>2, <2>3
<1>5. LocalsOK'
  BY <1>t, <1>u, <1>2, KafkaAssumption DEF IInv, LocalsOK
<1>6. RefsExact'
  BY <1>u, <1>3, CountKept DEF IInv
<1>7. MappedOpen' /\ MarkedDialled' /\ BorrowedOpen'
  BY <1>1, <1>3, TakenOut DEF BorrowedOpen
<1>8. OwedAlone'
  <2>1. ASSUME NEW q \in Procs, NEW c \in Clients, q # p, Owes(q, c)
        PROVE  /\ life'[c] = "open" /\ closing'[c] = closing[c]
               /\ \A j \in Keys : clients'[j] # c
    BY <1>1, <2>1, TakenOut
  <2>2. QED
    BY <1>u, <1>2, <1>3, <1>4, <2>1 DEF IInv, OwedAlone
<1>9. NothingLost'
  <2>1. ASSUME NEW c \in Clients, life'[c] = "open"
        PROVE  \/ \E k \in Keys : clients'[k] = c
               \/ closing'[c] /\ refs[c] > 0
               \/ \E q \in Procs : Owes(q, c)'
    BY <1>1, <1>3, <2>1, TakenOut
  <2>2. QED
    BY <1>u, <2>1 DEF NothingLost
<1>10. QED
  BY <1>5, <1>6, <1>7, <1>8, <1>9 DEF Exact

\* Closing a client that p alone owes: nobody borrows it and no key leads to it.
LEMMA ShutKeeps ==
  ASSUME IInv, NEW p \in Procs, NEW c \in Clients, Owes(p, c), Shut({c}),
         UNCHANGED <<clients, refs, closing>>, LocalsOK',
         \A q \in Procs, d \in Clients :
           /\ Borrows(q, d)' <=> Borrows(q, d)
           /\ Owes(q, d)' <=> Owes(q, d) /\ ~(q = p /\ d = c)
           /\ Owes(q, d)' => (pc'[q] \in {"close", "closeAll"} <=> pc[q] \in {"close", "closeAll"})
  PROVE  Exact'
<1>1. \A d \in Clients : life'[d] = IF d = c THEN "closed" ELSE life[d]
  BY DEF Shut
<1>2. /\ life[c] = "open" /\ refs[c] = 0 /\ \A k \in Keys : clients[k] # c
      /\ \A q \in Procs : Owes(q, c) => q = p
  BY DEF IInv, OwedAlone
<1>3. \A q \in Procs : ~Borrows(q, c)
  BY <1>2, CountTells DEF IInv
<1>4. RefsExact'
  BY CountKept DEF IInv
<1>5. BorrowedOpen'
  BY <1>1, <1>3 DEF IInv, BorrowedOpen
<1>6. MappedOpen'
  BY <1>1, <1>2 DEF IInv, MappedOpen, Mapped, TypeOK
<1>7. OwedAlone'
  BY <1>1, <1>2 DEF IInv, OwedAlone
<1>8. MarkedDialled'
  BY <1>1 DEF IInv, MarkedDialled
<1>9. NothingLost'
  BY <1>1, <1>2 DEF IInv, NothingLost
<1>10. QED
  BY <1>4, <1>5, <1>6, <1>7, <1>8, <1>9 DEF Exact

\* A release: the last one of a marked client owes its close.
LEMMA ReleaseKeeps ==
  ASSUME IInv, NEW p \in Procs, Release(p), TypeOK'
  PROVE  Exact'
<1> USE DEF Goto
<1>1. PICK c \in Clients : c = conn[p]
  BY DEF Release, IInv, LocalsOK
<1> DEFINE last == closing[c] /\ refs[c] = 1
<1>t. /\ TypeOK /\ pc[p] = "using" /\ toClose[p] = {}
      /\ refs' = [refs EXCEPT ![c] = @ - 1]
      /\ pc' = [pc EXCEPT ![p] = IF last THEN "close" ELSE "idle"]
  BY <1>1 DEF Release, IInv, LocalsOK
<1>u. UNCHANGED <<clients, life, closing, mu, want, conn, dup, toClose>>
  BY DEF Release
<1>2. /\ pc'[p] = IF last THEN "close" ELSE "idle"
      /\ \A q \in Procs : q # p => pc'[q] = pc[q]
      /\ \A d \in Clients : d # c => refs'[d] = refs[d]
      /\ refs'[c] = refs[c] - 1 /\ refs[c] \in Nat /\ refs'[c] \in Nat
  BY <1>t DEF TypeOK
<1>3. Borrows(p, c) /\ \A d \in Clients : Borrows(p, d) => d = c
  BY <1>t, <1>1 DEF Borrows
<1>4. life[c] = "open" /\ refs[c] # 0
  BY <1>3, CountTells DEF IInv, BorrowedOpen
<1>5. \A q \in Procs : ~Owes(q, c)
  BY <1>4 DEF IInv, OwedAlone
<1>6. \A q \in Procs, d \in Clients :
        /\ Borrows(q, d)' <=> Borrows(q, d) /\ q # p
        /\ ~Owes(p, d)
        /\ Owes(q, d)' <=> Owes(q, d) \/ (q = p /\ d = c /\ last)
  BY <1>t, <1>u, <1>1, <1>2 DEF Borrows, Owes
<1>7. LocalsOK'
  BY <1>t, <1>u, <1>2 DEF IInv, LocalsOK
<1>8. RefsExact'
  <2>1. /\ ~Borrows(p, c)'
        /\ \A q \in Procs, d \in Clients : q # p \/ d # c => (Borrows(q, d)' <=> Borrows(q, d))
    BY <1>3, <1>6
  <2>2. QED
    BY <1>t, <1>3, <2>1, CountDown DEF IInv
<1>9. BorrowedOpen' /\ MappedOpen' /\ MarkedDialled'
  BY <1>u, <1>6 DEF IInv, BorrowedOpen, MappedOpen, Mapped, MarkedDialled
<1>10. OwedAlone'
  <2>1. ASSUME NEW q \in Procs, NEW d \in Clients, Owes(q, d)
        PROVE  q # p /\ d # c /\ refs'[d] = 0
    <3>1. q # p /\ d # c
      BY <1>5, <1>6, <2>1
    <3>2. refs[d] = 0
      BY <2>1 DEF IInv, OwedAlone
    <3>3. QED
      BY <1>2, <3>1, <3>2
  <2>2. last => refs'[c] = 0 /\ closing[c] /\ pc'[p] = "close"
    BY <1>2
  <2>3. closing[c] => \A k \in Keys : clients[k] # c
    BY <1>1, <1>t, KafkaAssumption DEF IInv, MappedOpen, Mapped
  <2>4. QED
    BY <1>u, <1>2, <1>4, <1>6, <2>1, <2>2, <2>3 DEF IInv, OwedAlone
<1>11. NothingLost'
  <2>1. CASE last
    BY <1>u, <1>2, <1>6, <2>1 DEF IInv, NothingLost
  <2>2. CASE ~last
    <3>1. closing[c] => refs'[c] > 0
      BY <1>2, <1>4, <2>2
    <3>2. QED
      BY <1>u, <1>2, <1>5, <1>6, <3>1 DEF IInv, NothingLost
  <2>3. QED
    BY <2>1, <2>2
<1>12. QED
  BY <1>7, <1>8, <1>9, <1>10, <1>11 DEF Exact

\* Every action keeps the rest of IInv.
LEMMA ExactStep == IInv /\ [Next]_vars => Exact'
<1> SUFFICES ASSUME IInv, [Next]_vars, TypeOK' PROVE Exact'
  BY TypeStep
<1> USE DEF Goto, connVars, procVars
<1>t. TypeOK /\ LocalsOK
  BY DEF IInv
<1>1. ASSUME NEW p \in Procs, Begin(p) PROVE Exact'
  <2>1. CASE \E k \in Keys : Acquire(p, k)
    BY <2>1, AcquireKeeps
  <2>2. CASE \E a \in Assets : CloseAsset(p, a)
    <3>1. PICK a \in Assets : CloseAsset(p, a)
      BY <2>2
    <3>2. {k \in Keys : assetOf[k] = a} \in SUBSET Keys
      OBVIOUS
    <3>3. QED
      BY <3>1, <3>2, CloseKeysKeeps DEF CloseAsset
  <2>3. CASE CloseManager(p)
    BY <2>3, CloseKeysKeeps DEF CloseManager
  <2>4. QED
    BY <1>1, <2>1, <2>2, <2>3 DEF Begin
<1>2. ASSUME NEW p \in Procs, DialFails(p) \/ Evicted(p) \/ CloseDone(p) PROVE Exact'
  <2>1. /\ UNCHANGED <<clients, life, refs, closing, want, conn, dup, toClose>>
        /\ pc[p] \in {"dial", "evict", "closeAll"} /\ pc'[p] \in {"idle", "using"}
        /\ pc[p] = "evict" <=> pc'[p] = "using"
        /\ pc[p] = "closeAll" => toClose[p] = {}
        /\ \A q \in Procs : q # p => pc'[q] = pc[q]
    BY <1>2, <1>t DEF DialFails, Evicted, CloseDone, TypeOK
  <2>2. mu' = IF pc[p] = "evict" THEN None ELSE mu
    BY <1>2 DEF DialFails, Evicted, CloseDone
  <2>3. LocalsOK'
    BY <1>t, <2>1, <2>2, KafkaAssumption DEF LocalsOK
  <2>4. \A q \in Procs, c \in Clients :
          /\ Borrows(q, c)' <=> Borrows(q, c)
          /\ Owes(q, c)' <=> Owes(q, c)
          /\ Owes(q, c) => q # p
    BY <1>t, <2>1 DEF Borrows, Owes, LocalsOK
  <2>5. QED
    BY <2>1, <2>3, <2>4, QuietStep
<1>3. ASSUME NEW p \in Procs, Insert(p) PROVE Exact'
  BY <1>3, DuplicateKeeps, InsertKeeps
<1>4. ASSUME NEW p \in Procs, Discard(p) PROVE Exact'
  <2>1. /\ UNCHANGED <<clients, refs, closing, mu, want, conn, dup, toClose>>
        /\ pc[p] = "discard" /\ pc'[p] = "using" /\ toClose[p] = {}
        /\ dup[p] \in Clients /\ Shut({dup[p]})
        /\ \A q \in Procs : q # p => pc'[q] = pc[q]
    BY <1>4, <1>t DEF Discard, LocalsOK, TypeOK
  <2>2. LocalsOK'
    BY <1>t, <2>1 DEF LocalsOK
  <2>3. Owes(p, dup[p])
    BY <2>1 DEF Owes
  <2>4. \A q \in Procs, d \in Clients :
          /\ Borrows(q, d)' <=> Borrows(q, d)
          /\ Owes(q, d)' <=> Owes(q, d) /\ ~(q = p /\ d = dup[p])
          /\ Owes(q, d)' => q # p
    BY <2>1 DEF Borrows, Owes
  <2>5. QED
    BY <2>1, <2>2, <2>3, <2>4, ShutKeeps
<1>5. ASSUME NEW p \in Procs, Close(p) PROVE Exact'
  <2>1. /\ UNCHANGED <<clients, refs, closing, mu, want, conn, dup, toClose>>
        /\ pc[p] = "close" /\ pc'[p] = "idle" /\ toClose[p] = {}
        /\ conn[p] \in Clients /\ Shut({conn[p]})
        /\ \A q \in Procs : q # p => pc'[q] = pc[q]
    BY <1>5, <1>t DEF Close, LocalsOK, TypeOK
  <2>2. LocalsOK'
    BY <1>t, <2>1 DEF LocalsOK
  <2>3. Owes(p, conn[p])
    BY <2>1 DEF Owes
  <2>4. \A q \in Procs, d \in Clients :
          /\ Borrows(q, d)' <=> Borrows(q, d)
          /\ Owes(q, d)' <=> Owes(q, d) /\ ~(q = p /\ d = conn[p])
          /\ Owes(q, d)' => q # p
    BY <2>1 DEF Borrows, Owes
  <2>5. QED
    BY <2>1, <2>2, <2>3, <2>4, ShutKeeps
<1>6. ASSUME NEW p \in Procs, CloseNext(p) PROVE Exact'
  <2>1. PICK c \in toClose[p] : Shut({c}) /\ toClose' = [toClose EXCEPT ![p] = @ \ {c}]
    BY <1>6 DEF CloseNext
  <2>2. /\ UNCHANGED <<clients, refs, closing, mu, pc, want, conn, dup>>
        /\ pc[p] = "closeAll" /\ c \in Clients
        /\ toClose'[p] = toClose[p] \ {c}
        /\ \A q \in Procs : q # p => toClose'[q] = toClose[q]
    BY <1>6, <1>t, <2>1 DEF CloseNext, TypeOK
  <2>3. LocalsOK'
    BY <1>t, <2>2 DEF LocalsOK
  <2>4. Owes(p, c)
    BY DEF Owes
  <2>5. \A q \in Procs, d \in Clients :
          /\ Borrows(q, d)' <=> Borrows(q, d)
          /\ Owes(q, d)' <=> Owes(q, d) /\ ~(q = p /\ d = c)
    BY <2>2 DEF Borrows, Owes
  <2>6. QED
    BY <2>1, <2>2, <2>3, <2>4, <2>5, ShutKeeps
<1>7. ASSUME NEW p \in Procs, AcquireStep(p) PROVE Exact'
  BY <1>2, <1>3, <1>4, <1>7, DialOkKeeps, EvictKeeps DEF AcquireStep
<1>8. ASSUME NEW p \in Procs, EndStep(p) PROVE Exact'
  BY <1>2, <1>5, <1>6, <1>8, ReleaseKeeps DEF EndStep
<1>9. ASSUME UNCHANGED vars \/ \E c \in Clients : Expire(c) PROVE Exact'
  <2>1. UNCHANGED <<clients, life, refs, closing, mu, pc, want, conn, dup, toClose>>
    BY <1>9 DEF vars, Expire
  <2>2. LocalsOK'
    BY <1>t, <2>1 DEF LocalsOK
  <2>3. QED
    BY <2>1, <2>2, QuietStep DEF Borrows, Owes
<1>10. QED
  BY <1>1, <1>7, <1>8, <1>9 DEF Next

\* The counts stay exact, clients in the map stay open and every other open
\* client keeps exactly one goroutine that will close it, for any number of
\* keys, goroutines and dials.
THEOREM Counted == Spec => []IInv
<1>1. IInv /\ [Next]_vars => IInv'
  BY TypeStep, ExactStep DEF Exact, IInv
<1>2. QED
  BY InitIInv, <1>1, PTL DEF Spec

\* The manager's state keeps its types; no count drops below zero.
THEOREM TypeCorrect == Spec => []TypeOK
BY Counted, PTL DEF IInv

\* A request never works with a closed client.
THEOREM NeverUsedClosed == Spec => []BorrowedOpen
BY Counted, PTL DEF IInv

\* refs is the number of borrowers, evicted clients included.
THEOREM CountsExact == Spec => []RefsExact
BY Counted, PTL DEF IInv

\* No open client is left to nobody.
THEOREM NothingLeaks == Spec => []NothingLost
BY Counted, PTL DEF IInv

\* Mapped is finite, and loses or gains at most what a step says.
LEMMA MappedCount ==
  /\ IsFiniteSet(Mapped) /\ Cardinality(Mapped) \in Nat
  /\ IsFiniteSet(Mapped') /\ Cardinality(Mapped') \in Nat
  /\ Mapped' \subseteq Mapped => Cardinality(Mapped') <= Cardinality(Mapped)
  /\ \A k \in Keys : Mapped' \subseteq Mapped \cup {k}
       => Cardinality(Mapped') <= Cardinality(Mapped) + 1
<1>1. Mapped \subseteq Keys /\ Mapped' \subseteq Keys
  BY DEF Mapped
<1>2. IsFiniteSet(Mapped) /\ IsFiniteSet(Mapped')
  BY <1>1, KafkaAssumption, FS_Subset
<1>3. ASSUME Mapped' \subseteq Mapped PROVE Cardinality(Mapped') <= Cardinality(Mapped)
  BY <1>2, <1>3, FS_Subset
<1>4. ASSUME NEW k \in Keys, Mapped' \subseteq Mapped \cup {k}
      PROVE  Cardinality(Mapped') <= Cardinality(Mapped) + 1
  <2>1. /\ IsFiniteSet(Mapped \cup {k})
        /\ Cardinality(Mapped \cup {k}) \in {Cardinality(Mapped), Cardinality(Mapped) + 1}
    BY <1>2, FS_AddElement
  <2>2. Cardinality(Mapped') <= Cardinality(Mapped \cup {k})
    BY <1>4, <2>1, FS_Subset
  <2>3. QED
    BY <1>2, <2>1, <2>2, FS_CardinalityType
<1>5. QED
  BY <1>2, <1>3, <1>4, FS_CardinalityType

\* Outside an insertion that keeps the mutex the map is within its limit.
THEOREM WithinLimit == Spec => []Bounded
<1> USE KafkaAssumption
<1>1. Init => Bounded
  <2> SUFFICES ASSUME Init PROVE Bounded
    OBVIOUS
  <2>1. Mapped = {} /\ mu = None
    BY DEF Init, Mapped
  <2>2. Cardinality(Mapped) = 0
    BY <2>1, FS_EmptySet, Zenon
  <2>3. Max \in Nat /\ 0 <= Max
    OBVIOUS
  <2>4. QED
    BY <2>1, <2>2, <2>3 DEF Bounded
<1>2. IInv /\ Bounded /\ [Next]_vars => Bounded'
  <2> SUFFICES ASSUME IInv, Bounded, [Next]_vars PROVE Bounded'
    OBVIOUS
  <2>1. CASE \E p \in Procs : Insert(p)
    <3>1. PICK p \in Procs : Insert(p)
      BY <2>1
    <3>2. mu = None /\ pc[p] = "insert" /\ want[p] \in Keys
      BY <3>1 DEF Insert, IInv, LocalsOK
    <3>3. CASE clients[want[p]] # None
      BY <3>1, <3>2, <3>3 DEF Insert, Bounded, Mapped
    <3>4. CASE clients[want[p]] = None
      <4>1. mu' = p /\ clients' = [clients EXCEPT ![want[p]] = conn[p]]
        BY <3>1, <3>4 DEF Insert
      <4>2. Mapped' \subseteq Mapped \cup {want[p]}
        BY <4>1 DEF Mapped, IInv, TypeOK
      <4>3. Cardinality(Mapped') <= Cardinality(Mapped) + 1 /\ mu' # None
        BY <3>2, <4>1, <4>2, MappedCount
      <4>4. QED
        BY <3>2, <4>3, MappedCount DEF Bounded
    <3>5. QED
      BY <3>3, <3>4
  <2>2. CASE \E p \in Procs : Evicted(p)
    BY <2>2 DEF Evicted, Bounded, Mapped
  <2>3. CASE ~(\E p \in Procs : Insert(p) \/ Evicted(p))
    <3>1. mu' = mu /\ \A k \in Keys : clients'[k] # None => clients[k] # None
      BY <2>3 DEF Next, Begin, AcquireStep, EndStep, Acquire, TakeOut, DialOk, DialFails, Evict,
                  Discard, Release, Close, CloseAsset, CloseManager, CloseKeys, CloseNext,
                  CloseDone, Expire, vars, connVars, procVars
    <3>2. Mapped' \subseteq Mapped
      BY <3>1 DEF Mapped
    <3>3. QED
      BY <3>1, <3>2, MappedCount DEF Bounded
  <2>4. QED
    BY <2>1, <2>2, <2>3
<1>3. QED
  BY Counted, <1>1, <1>2, PTL DEF Spec

-----------------------------------------------------------------------------
(* The manager implements ConnSlots *)

HeldBy(c) == \E k \in Keys : clients[k] = c
Unshared(c) == (\E p \in Procs : Owes(p, c)) /\ ~closing[c]

\* What Stage says of one client.
LEMMA StageIs ==
  ASSUME NEW c \in Clients
  PROVE  /\ life[c] # "open" => Stage[c] = life[c]
         /\ life[c] = "open" /\ HeldBy(c) => Stage[c] = "shared"
         /\ life[c] = "open" /\ ~HeldBy(c) /\ Unshared(c) => Stage[c] = "private"
         /\ life[c] = "open" /\ ~HeldBy(c) /\ ~Unshared(c) => Stage[c] = "retired"
BY DEF Stage, HeldBy, Unshared

\* The same after a step.
LEMMA StageIsNext ==
  ASSUME NEW c \in Clients
  PROVE  /\ life'[c] # "open" => Stage'[c] = life'[c]
         /\ life'[c] = "open" /\ HeldBy(c)' => Stage'[c] = "shared"
         /\ life'[c] = "open" /\ ~HeldBy(c)' /\ Unshared(c)' => Stage'[c] = "private"
         /\ life'[c] = "open" /\ ~HeldBy(c)' /\ ~Unshared(c)' => Stage'[c] = "retired"
BY DEF Stage, HeldBy, Unshared

\* A client whose life, keys and debts are what they were keeps its stage.
LEMMA StageSame ==
  ASSUME NEW c \in Clients, life'[c] = life[c],
         HeldBy(c)' <=> HeldBy(c), Unshared(c)' <=> Unshared(c)
  PROVE  Stage'[c] = Stage[c]
BY StageIs, StageIsNext

\* A stage function is known by its values.
LEMMA StageExt ==
  /\ (\A c \in Clients : Stage'[c] = Stage[c]) => Stage' = Stage
  /\ \A c \in Clients : \A s : (\A d \in Clients : Stage'[d] = IF d = c THEN s ELSE Stage[d])
       => Stage' = [Stage EXCEPT ![c] = s]
<1>1. Stage = [d \in Clients |-> Stage[d]]
  BY DEF Stage
<1>2. Stage' = [d \in Clients |-> Stage'[d]]
  BY DEF Stage
<1>3. QED BY <1>1, <1>2

\* Taking entries out is Clear, with those closed that are closed at once.
LEMMA TakeOutRefines ==
  ASSUME IInv, NEW keys \in SUBSET Keys, TakeOut(keys),
         NEW cs \in SUBSET Unborrowed(keys), Shut(cs),
         \A q \in Procs, c \in Clients \ Under(keys) : Owes(q, c)' <=> Owes(q, c)
  PROVE  Slots!Clear(keys, cs)
<1> USE KafkaAssumption
<1>1. \A c \in Clients : /\ closing'[c] = (closing[c] \/ c \in Under(keys))
                         /\ life'[c] = IF c \in cs THEN "closed" ELSE life[c]
  BY DEF TakeOut, Shut
<1>2. \A k \in Keys : clients'[k] = IF k \in keys THEN None ELSE clients[k]
  BY DEF TakeOut
<1>3. cs \subseteq Under(keys)
  BY DEF Unborrowed
<1>4. \A c \in Clients : c \in Under(keys) <=> \E k \in keys : clients[k] = c
  BY DEF Under, Mapped
<1>5. ASSUME NEW c \in Clients, c \notin Under(keys) PROVE Stage'[c] = Stage[c]
  <2>1. HeldBy(c)' <=> HeldBy(c)
    BY <1>2, <1>4, <1>5 DEF HeldBy
  <2>2. life'[c] = life[c]
    BY <1>1, <1>3, <1>5
  <2>3. closing'[c] <=> closing[c]
    BY <1>1, <1>5
  <2>4. QED
    BY <1>5, <2>1, <2>2, <2>3, StageSame DEF Unshared
<1>6. ASSUME NEW c \in Clients, c \in Under(keys)
      PROVE  Stage[c] = "shared" /\ Stage'[c] = IF c \in cs THEN "closed" ELSE "retired"
  <2>1. life[c] = "open" /\ \A k \in Keys : clients[k] = c => k \in keys
    BY <1>6, UnderFacts
  <2>2. HeldBy(c) /\ ~HeldBy(c)'
    BY <1>2, <1>4, <1>6, <2>1 DEF HeldBy
  <2>3. ~Unshared(c)'
    BY <1>1, <1>6 DEF Unshared
  <2>4. QED
    BY <1>1, <2>1, <2>2, <2>3, StageIs, StageIsNext
<1>7. Stage' = [c \in Clients |->
                  IF Stage[c] # "shared" \/ \A k \in keys : clients[k] # c THEN Stage[c]
                  ELSE IF c \in cs THEN "closed" ELSE "retired"]
  <2>1. \A c \in Clients : Stage'[c] = IF Stage[c] # "shared" \/ \A k \in keys : clients[k] # c THEN Stage[c]
                                       ELSE IF c \in cs THEN "closed" ELSE "retired"
    BY <1>4, <1>5, <1>6
  <2>2. QED
    BY <2>1 DEF Stage
<1>8. QED
  BY <1>7 DEF Slots!Clear, TakeOut

\* Closing an owed client is Discard.
LEMMA ShutRefines ==
  ASSUME IInv, NEW p \in Procs, NEW c \in Clients, Owes(p, c), Shut({c}),
         UNCHANGED <<clients, closing>>,
         \A q \in Procs, d \in Clients : d # c => (Owes(q, d)' <=> Owes(q, d))
  PROVE  Slots!Discard(c)
<1>1. \A d \in Clients : life'[d] = IF d = c THEN "closed" ELSE life[d]
  BY DEF Shut
<1>2. life[c] = "open" /\ ~HeldBy(c)
  BY DEF IInv, OwedAlone, HeldBy
<1>3. Stage[c] \in {"private", "retired"} /\ Stage'[c] = "closed"
  BY <1>1, <1>2, StageIs, StageIsNext
<1>4. \A d \in Clients : d # c => Stage'[d] = Stage[d]
  BY <1>1, StageSame DEF HeldBy, Unshared
<1>5. Stage' = [Stage EXCEPT ![c] = "closed"]
  BY <1>3, <1>4, StageExt
<1>6. QED
  BY <1>3, <1>5 DEF Slots!Discard

\* A step without effect on the map, the lives and the debts of unmarked clients.
LEMMA StageKept ==
  ASSUME UNCHANGED <<clients, life, closing>>,
         \A q \in Procs, c \in Clients : closing[c] \/ (Owes(q, c)' <=> Owes(q, c))
  PROVE  UNCHANGED <<clients, Stage>>
BY StageSame, StageExt DEF HeldBy, Unshared

\* A successful dial is Open.
LEMMA DialOkRefines ==
  ASSUME IInv, IInv', NEW p \in Procs, DialOk(p)
  PROVE  \E c \in Clients : Slots!Open(c)
<1>1. PICK d \in Clients : /\ life[d] = "fresh"
                           /\ life' = [life EXCEPT ![d] = "open"]
                           /\ conn' = [conn EXCEPT ![p] = d]
  BY DEF DialOk
<1>2. /\ pc[p] = "dial" /\ pc'[p] = "insert" /\ conn'[p] = d /\ toClose[p] = {}
      /\ UNCHANGED <<clients, closing, dup, toClose>>
      /\ \A q \in Procs : q # p => pc'[q] = pc[q] /\ conn'[q] = conn[q]
      /\ \A c \in Clients : life'[c] = IF c = d THEN "open" ELSE life[c]
  BY <1>1 DEF DialOk, Goto, IInv, LocalsOK, TypeOK
<1>3. Owes(p, d)' /\ \A q \in Procs, c \in Clients : c # d => (Owes(q, c)' <=> Owes(q, c))
  BY <1>2 DEF Owes
<1>4. ~HeldBy(d)' /\ Unshared(d)'
  BY <1>2, <1>3 DEF IInv, OwedAlone, HeldBy, Unshared
<1>5. Stage[d] = "fresh" /\ Stage'[d] = "private"
  BY <1>1, <1>2, <1>4, StageIs, StageIsNext
<1>6. \A c \in Clients : c # d => Stage'[c] = Stage[c]
  BY <1>2, <1>3, StageSame DEF HeldBy, Unshared
<1>7. Stage' = [Stage EXCEPT ![d] = "private"]
  BY <1>5, <1>6, StageExt
<1>8. QED
  BY <1>2, <1>5, <1>7 DEF Slots!Open

\* Inserting the dialled client is Install; finding another one there is no step.
LEMMA InsertRefines ==
  ASSUME IInv, IInv', NEW p \in Procs, Insert(p)
  PROVE  Slots!Next \/ UNCHANGED <<clients, Stage>>
<1>1. PICK k \in Keys, d \in Clients : k = want[p] /\ d = conn[p]
  BY DEF Insert, IInv, LocalsOK
<1>2. pc[p] = "insert" /\ toClose[p] = {} /\ UNCHANGED <<life, closing, toClose>>
  BY DEF Insert, IInv, LocalsOK
<1>3. Owes(p, d)
  BY <1>1, <1>2 DEF Owes
<1>4. CASE clients[k] # None
  <2>1. /\ UNCHANGED clients /\ pc'[p] = "discard" /\ dup'[p] = d
        /\ \A q \in Procs : q # p => pc'[q] = pc[q] /\ conn'[q] = conn[q] /\ dup'[q] = dup[q]
    BY <1>1, <1>4 DEF Insert, Borrow, Goto, IInv, TypeOK
  <2>2. \A q \in Procs, c \in Clients : Owes(q, c)' <=> Owes(q, c)
    BY <1>1, <1>2, <2>1 DEF Owes
  <2>3. QED
    BY <1>2, <2>1, <2>2, StageKept
<1>5. CASE clients[k] = None
  <2>1. /\ clients' = [clients EXCEPT ![k] = d] /\ pc'[p] = "evict"
        /\ \A j \in Keys : clients'[j] = IF j = k THEN d ELSE clients[j]
        /\ \A q \in Procs : q # p => pc'[q] = pc[q] /\ conn'[q] = conn[q]
        /\ UNCHANGED dup
    BY <1>1, <1>5 DEF Insert, Borrow, Goto, IInv, TypeOK
  <2>2. \A q \in Procs, c \in Clients : c # d => (Owes(q, c)' <=> Owes(q, c))
    BY <1>1, <1>2, <2>1 DEF Owes
  <2>3. life[d] = "open" /\ ~HeldBy(d) /\ ~closing[d]
    BY <1>2, <1>3 DEF IInv, OwedAlone, HeldBy
  <2>4. HeldBy(d)' /\ \A c \in Clients : c # d => (HeldBy(c)' <=> HeldBy(c))
    BY <1>5, <2>1, KafkaAssumption DEF HeldBy
  <2>5. Stage[d] = "private" /\ Stage'[d] = "shared"
    BY <1>2, <1>3, <2>3, <2>4, StageIs, StageIsNext DEF Unshared
  <2>6. \A c \in Clients : c # d => Stage'[c] = Stage[c]
    BY <1>2, <2>2, <2>4, StageSame DEF Unshared
  <2>7. Stage' = [Stage EXCEPT ![d] = "shared"]
    BY <2>5, <2>6, StageExt
  <2>8. QED
    BY <1>5, <2>1, <2>5, <2>7 DEF Slots!Next, Slots!Install
<1>6. QED
  BY <1>4, <1>5

\* Every step of the manager is one of ConnSlots, or invisible to it.
LEMMA RefineStep == IInv /\ IInv' /\ [Next]_vars => [Slots!Next]_(Slots!vars)
<1> SUFFICES ASSUME IInv, IInv', [Next]_vars
             PROVE  Slots!Next \/ UNCHANGED <<clients, Stage>>
  BY DEF Slots!vars
<1> DEFINE Refined == Slots!Next \/ UNCHANGED <<clients, Stage>>
<1>0. ASSUME NEW keys \in SUBSET Keys, NEW cs \in SUBSET Clients, Slots!Clear(keys, cs) PROVE Refined
  BY <1>0 DEF Slots!Next
<1>t. TypeOK /\ LocalsOK
  BY DEF IInv
<1>c. \A keys : Unborrowed(keys) \subseteq Clients
  BY <1>t DEF Unborrowed, Under, Mapped, TypeOK
<1> HIDE DEF Refined
<1>1. ASSUME NEW p \in Procs, NEW k \in Keys, Acquire(p, k) PROVE Refined
  <2>1. Outdated(k) \in SUBSET Keys /\ TakeOut(Outdated(k)) /\ Shut(Unborrowed(Outdated(k)))
    BY <1>1 DEF Acquire, Outdated, Mapped
  <2>2. /\ pc[p] = "idle" /\ pc'[p] \in {"dial", "using"} /\ UNCHANGED <<dup, toClose>>
        /\ \A q \in Procs : q # p => pc'[q] = pc[q] /\ conn'[q] = conn[q]
    BY <1>1, <1>t DEF Acquire, Borrow, Goto, TypeOK
  <2>3. \A q \in Procs, c \in Clients : Owes(q, c)' <=> Owes(q, c)
    BY <2>2 DEF Owes
  <2>4. QED
    BY <1>0, <1>c, <2>1, <2>3, TakeOutRefines
<1>2. ASSUME NEW p \in Procs, NEW keys \in SUBSET Keys, CloseKeys(p, keys) PROVE Refined
  <2>1. TakeOut(keys) /\ Shut({})
    <3>1. life' = [c \in Clients |-> life[c]]
      BY <1>2, <1>t DEF CloseKeys, TypeOK
    <3>2. QED
      BY <1>2, <3>1 DEF CloseKeys, Shut
  <2>2. /\ pc[p] = "idle" /\ pc'[p] = "closeAll" /\ UNCHANGED <<conn, dup>>
        /\ toClose[p] = {} /\ toClose'[p] = Unborrowed(keys)
        /\ \A q \in Procs : q # p => pc'[q] = pc[q] /\ toClose'[q] = toClose[q]
    BY <1>2, <1>t DEF CloseKeys, Goto, TypeOK, LocalsOK
  <2>3. \A q \in Procs, c \in Clients \ Under(keys) : Owes(q, c)' <=> Owes(q, c)
    BY <2>2 DEF Owes, Unborrowed
  <2>4. QED
    BY <1>0, <2>1, <2>3, TakeOutRefines
<1>3. ASSUME NEW p \in Procs, Begin(p) PROVE Refined
  BY <1>1, <1>2, <1>3 DEF Begin, CloseAsset, CloseManager
<1>4. ASSUME NEW p \in Procs, DialOk(p) PROVE Refined
  BY <1>4, DialOkRefines DEF Refined, Slots!Next
<1>5. ASSUME NEW p \in Procs, Insert(p) PROVE Refined
  BY <1>5, InsertRefines DEF Refined
<1>6. ASSUME NEW p \in Procs, Evict(p) PROVE Refined
  <2>1. PICK k \in Mapped : TakeOut({k}) /\ Shut(Unborrowed({k}))
    BY <1>6 DEF Evict
  <2>2. {k} \in SUBSET Keys
    BY DEF Mapped
  <2>3. \A q \in Procs, c \in Clients : Owes(q, c)' <=> Owes(q, c)
    BY <1>6 DEF Evict, procVars, Owes
  <2>4. QED
    BY <1>0, <1>c, <2>1, <2>2, <2>3, TakeOutRefines
<1>7. ASSUME NEW p \in Procs, NEW c \in Clients, Slots!Discard(c) PROVE Refined
  BY <1>7 DEF Refined, Slots!Next
<1>8. ASSUME NEW p \in Procs, Discard(p) \/ Close(p) PROVE Refined
  <2> DEFINE c == IF pc[p] = "discard" THEN dup[p] ELSE conn[p]
  <2>1. /\ pc[p] \in {"discard", "close"} /\ pc'[p] \in {"using", "idle"}
        /\ toClose[p] = {} /\ c \in Clients /\ Shut({c})
        /\ UNCHANGED <<clients, closing, conn, dup, toClose>>
        /\ \A q \in Procs : q # p => pc'[q] = pc[q]
    BY <1>8, <1>t DEF Discard, Close, Goto, LocalsOK, TypeOK
  <2>2. Owes(p, c) /\ \A q \in Procs, d \in Clients : d # c => (Owes(q, d)' <=> Owes(q, d))
    BY <2>1 DEF Owes
  <2>3. Slots!Discard(c)
    BY <2>1, <2>2, ShutRefines
  <2>4. QED
    BY <1>7, <2>1, <2>3
<1>9. ASSUME NEW p \in Procs, CloseNext(p) PROVE Refined
  <2>1. PICK c \in toClose[p] : Shut({c}) /\ toClose' = [toClose EXCEPT ![p] = @ \ {c}]
    BY <1>9 DEF CloseNext
  <2>2. /\ c \in Clients /\ UNCHANGED <<clients, closing, pc, conn, dup>>
        /\ toClose'[p] = toClose[p] \ {c} /\ \A q \in Procs : q # p => toClose'[q] = toClose[q]
    BY <1>9, <1>t, <2>1 DEF CloseNext, TypeOK
  <2>3. Owes(p, c) /\ \A q \in Procs, d \in Clients : d # c => (Owes(q, d)' <=> Owes(q, d))
    BY <2>2 DEF Owes
  <2>4. QED
    BY <1>7, <2>1, <2>2, <2>3, ShutRefines
<1>10. ASSUME NEW p \in Procs, Release(p) PROVE Refined
  <2>1. /\ pc[p] = "using" /\ conn[p] \in Clients /\ UNCHANGED <<clients, life, closing, conn, dup, toClose>>
        /\ pc'[p] = IF closing[conn[p]] /\ refs[conn[p]] = 1 THEN "close" ELSE "idle"
        /\ \A q \in Procs : q # p => pc'[q] = pc[q]
    BY <1>10, <1>t DEF Release, Goto, LocalsOK, TypeOK
  <2>2. \A q \in Procs, c \in Clients : closing[c] \/ (Owes(q, c)' <=> Owes(q, c))
    BY <2>1 DEF Owes
  <2>3. QED
    BY <2>1, <2>2, StageKept DEF Refined
<1>11. ASSUME NEW p \in Procs, DialFails(p) \/ Evicted(p) \/ CloseDone(p) PROVE Refined
  <2>1. /\ pc[p] \in {"dial", "evict", "closeAll"} /\ pc'[p] \in {"idle", "using"}
        /\ UNCHANGED <<clients, life, closing, conn, dup, toClose>>
        /\ \A q \in Procs : q # p => pc'[q] = pc[q]
    BY <1>11, <1>t DEF DialFails, Evicted, CloseDone, Goto, connVars, TypeOK
  <2>2. \A q \in Procs, c \in Clients : Owes(q, c)' <=> Owes(q, c)
    BY <2>1 DEF Owes
  <2>3. QED
    BY <2>1, <2>2, StageKept DEF Refined
<1>12. ASSUME UNCHANGED vars \/ \E c \in Clients : Expire(c) PROVE Refined
  <2>1. UNCHANGED <<clients, life, closing, pc, conn, dup, toClose>>
    BY <1>12 DEF vars, connVars, procVars, Expire
  <2>2. QED
    BY <2>1, StageKept DEF Owes, Refined
<1>13. Refined
  BY <1>3, <1>4, <1>5, <1>6, <1>8, <1>9, <1>10, <1>11, <1>12 DEF Next, AcquireStep, EndStep
<1>14. QED
  BY <1>13 DEF Refined

\* The Kafka client manager implements the safety part of the cache contract.
THEOREM Refinement == Spec => SlotsSafety
<1>1. Init => Slots!Init
  BY KafkaAssumption DEF Init, Slots!Init, Stage
<1>2. QED
  BY Counted, <1>1, RefineStep, PTL DEF Spec, SlotsSafety, Slots!Safety
=============================================================================
