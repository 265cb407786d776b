--------------------------- MODULE ApprovalProofs ---------------------------
(***************************************************************************)
(* Theorems about Approval for any number of requests and sessions.  The   *)
(* argument follows an answer: a request raises one event, which becomes   *)
(* one dialog (DialogOnce), so what the user said there stays said         *)
(* (SaidStays); the channel that takes it belongs to a handler with the    *)
(* same id (PendingIsLive, AnswerOK), whose verdict and grants follow it.  *)
(* Backwards, what is answered, stored or let through goes to requests of  *)
(* its own session that were put to the app (Provenance).                  *)
(***************************************************************************)
EXTENDS Approval, Integers, TLAPS

-----------------------------------------------------------------------------
(* Ids and sequences *)

\* The id of a single or batch request is its own; a grant shares the id of its
\* session with the other grants of the session, and with nothing else.
LEMMA Keys ==
  /\ \A r \in Reqs : Key(r) \in Reqs \cup Sessions
  /\ \A d, r \in Asked : Key(d) = Key(r) =>
       IF r \in Grants THEN d \in Grants /\ sessionOf[d] = sessionOf[r] ELSE d = r
BY ApprovalAssumption DEF Key, Reqs, Asked

\* Adding what is not in a sequence keeps it free of repetitions.
LEMMA AppendOnce ==
  ASSUME NEW S, NEW q \in Seq(S), NEW x \in S
  PROVE  /\ Append(q, x) \in Seq(S)
         /\ \A d : In(Append(q, x), d) <=> In(q, d) \/ d = x
         /\ Once(q) /\ ~In(q, x) => Once(Append(q, x))
<1> DEFINE a == Append(q, x)
<1>1. a \in Seq(S) /\ Len(a) = Len(q) + 1 /\ DOMAIN q = 1..Len(q) /\ DOMAIN a = 1..(Len(q) + 1) /\ Len(q) \in Nat
  OBVIOUS
<1>2. a[Len(q) + 1] = x /\ \A i \in DOMAIN q : a[i] = q[i]
  OBVIOUS
<1>3. \A i \in DOMAIN a : i \in DOMAIN q \/ i = Len(q) + 1
  BY <1>1
<1>4. \A i \in DOMAIN q : i \in DOMAIN a
  BY <1>1
<1>5. Len(q) + 1 \in DOMAIN a
  BY <1>1
<1> HIDE DEF a
<1>6. QED
  BY <1>1, <1>2, <1>3, <1>4, <1>5 DEF In, Once, a

\* Taking the head of a sequence free of repetitions removes it.
LEMMA TailOnce ==
  ASSUME NEW S, NEW q \in Seq(S), q # <<>>
  PROVE  /\ Tail(q) \in Seq(S) /\ Head(q) \in S /\ In(q, Head(q))
         /\ \A d : In(Tail(q), d) => In(q, d)
         /\ Once(q) => Once(Tail(q)) /\ ~In(Tail(q), Head(q))
<1> DEFINE t == Tail(q)
<1>1. t \in Seq(S) /\ Head(q) = q[1] /\ Len(t) = Len(q) - 1 /\ Len(q) \in Nat /\ Len(q) > 0
  OBVIOUS
<1>2. DOMAIN q = 1..Len(q) /\ DOMAIN t = 1..(Len(q) - 1)
  BY <1>1
<1>3. \A i \in DOMAIN t : i \in Int /\ i + 1 \in DOMAIN q /\ t[i] = q[i + 1] /\ i + 1 # 1
  BY <1>1, <1>2
<1>4. 1 \in DOMAIN q /\ q[1] \in S
  BY <1>1, <1>2
<1>5. \A i, j \in DOMAIN t : i + 1 = j + 1 => i = j
  BY <1>3
<1> HIDE DEF t
<1>6. Once(q) => Once(t) /\ ~In(t, q[1])
  BY <1>3, <1>4, <1>5 DEF Once, In
<1>7. QED
  BY <1>1, <1>3, <1>4, <1>6 DEF In, t

-----------------------------------------------------------------------------
(* The inductive invariant *)

\* Nothing has been asked yet.
LEMMA InitIInv == Init => IInv
<1> SUFFICES ASSUME Init PROVE IInv
  OBVIOUS
<1> USE DEF Init
<1>1. TypeOK
  BY DEF TypeOK, PCs, Decisions
<1>2. Places /\ SaidOK /\ AnswerOK
  BY DEF Places, SaidOK, AnswerOK, Reqs, Asked
<1>3. DialogOnce
  BY DEF DialogOnce, Once, In
<1>4. VerdictFromChannel /\ AutoNeedsConsent /\ PendingIsLive
  BY DEF VerdictFromChannel, AutoNeedsConsent, PendingIsLive, Reqs, Asked
<1>5. Provenance
  BY DEF Provenance, In, Reqs, Asked
<1>6. QED
  BY <1>1, <1>2, <1>3, <1>4, <1>5 DEF IInv

\* A dialog sends items of the kind the grants are made of.
LEMMA ShownItem == ASSUME TypeOK, NEW d \in Asked PROVE Shown(d) \in Items
BY ApprovalAssumption DEF TypeOK, Shown, Items, Reqs, Asked

\* Every action keeps the types.
LEMMA TypeStep == TypeOK /\ Places /\ VerdictFromChannel /\ [Next]_vars => TypeOK'
<1> SUFFICES ASSUME TypeOK, Places, VerdictFromChannel, [Next]_vars PROVE TypeOK'
  OBVIOUS
<1> USE DEF TypeOK, PCs, dbVars, uiVars, Goto, Decide
<1>1. ASSUME NEW r \in Reqs, Check(r) \/ Connect(r) \/ Decode(r) \/ ToolReturns(r) PROVE TypeOK'
  BY <1>1 DEF Check, Connect, Decode, ToolReturns
<1>2. ASSUME NEW r \in Reqs, HandlerStep(r) PROVE TypeOK'
  <2>1. r \in Asked => sessionOf[r] \in Sessions /\ Item(r) \in Items /\ Key(r) \in Reqs \cup Sessions
    BY ApprovalAssumption, Keys DEF Item, Items
  <2>2. CASE OpenSession(r) BY <2>1, <2>2 DEF OpenSession, Places, Asked
  <2>3. CASE CreateItems(r) BY <2>1, <2>3 DEF CreateItems, Places, Asked
  <2>4. CASE CreateFails(r) BY <2>4 DEF CreateFails
  <2>5. CASE Emit(r)
    <3>1. r \in Asked BY <2>5 DEF Emit, Places
    <3>2. events' \in Seq(Asked) BY <2>5, <3>1, AppendOnce DEF Emit
    <3>3. QED BY <2>5, <3>2 DEF Emit
  <2>6. CASE Store(r) BY <2>1, <2>6 DEF Store, Places
  <2>7. CASE Receive(r) BY <2>7 DEF Receive
  <2>8. CASE Abort(r) BY <2>8 DEF Abort
  <2>9. CASE EnsureSession(r) BY <2>1, <2>9 DEF EnsureSession, Places, Asked
  <2>10. CASE SavePattern(r) \/ RefillItems(r)
    <3>1. r \in Asked /\ chan[r] \in Reqs
      BY <2>10 DEF SavePattern, RefillItems, Places, VerdictFromChannel, Asked, Reqs
    <3>2. said[chan[r]].rows \subseteq Items BY <3>1
    <3>3. items' = [items EXCEPT ![sessionOf[r]] = @ \cup said[chan[r]].rows]
      BY <2>10 DEF SavePattern, RefillItems
    <3>4. items' \in [Sessions -> SUBSET Items] BY <2>1, <3>1, <3>2, <3>3
    <3>5. QED BY <2>10, <3>4 DEF SavePattern, RefillItems
  <2>11. CASE SetStatus(r) BY <2>1, <2>11 DEF SetStatus, Places, Asked
  <2>12. CASE WipeItems(r) BY <2>1, <2>12 DEF WipeItems, Places, Asked
  <2>13. CASE Delete(r) BY <2>1, <2>13 DEF Delete, Places
  <2>14. QED
    BY <1>2, <2>2, <2>3, <2>4, <2>5, <2>6, <2>7, <2>8, <2>9, <2>10, <2>11, <2>12, <2>13 DEF HandlerStep
<1>3. CASE Show
  <2>1. Head(events) \in Asked /\ Tail(events) \in Seq(Asked) BY <1>3, TailOnce DEF Show
  <2>2. Append(queue, Head(events)) \in Seq(Asked) BY <2>1, AppendOnce
  <2>3. QED BY <1>3, <2>1, <2>2 DEF Show
<1>4. CASE Answer
  <2>1. Head(queue) \in Asked /\ Tail(queue) \in Seq(Asked) BY <1>4, TailOnce DEF Answer
  <2>2. Shown(Head(queue)) \in Items BY <2>1, ShownItem
  <2>3. Choices(Head(queue)) \subseteq Decisions BY DEF Choices, Decisions
  <2>4. said' \in [Reqs -> [decision : Decisions, rows : SUBSET Items]]
    BY <1>4, <2>1, <2>2, <2>3 DEF Answer, Asked, Reqs
  <2>5. calls' \in SUBSET Asked /\ queue' \in Seq(Asked) /\ edits' \in [Sessions -> Grants \cup {None}]
    BY <1>4, <2>1 DEF Answer
  <2>6. QED BY <1>4, <2>4, <2>5 DEF Answer
<1>5. ASSUME NEW d \in Asked, Respond(d) PROVE TypeOK'
  BY <1>5 DEF Respond
<1>6. CASE CloseShutdownCh \/ StopServer \/ ServerStopped
  BY <1>6 DEF CloseShutdownCh, StopServer, ServerStopped
<1>7. CASE UNCHANGED vars
  BY <1>7 DEF vars
<1>8. QED
  BY <1>1, <1>2, <1>3, <1>4, <1>5, <1>6, <1>7 DEF Next

\* What the user said in a dialog stays said: an answer is written once.
LEMMA SaidStep ==
  TypeOK /\ DialogOnce /\ [Next]_vars =>
    \A d \in Asked : said[d].decision # "none" => said'[d] = said[d]
<1> SUFFICES ASSUME TypeOK, DialogOnce, [Next]_vars, NEW d \in Asked, said[d].decision # "none"
             PROVE said'[d] = said[d]
  OBVIOUS
<1>1. ASSUME NEW r \in Reqs, Check(r) \/ Connect(r) \/ Decode(r) \/ ToolReturns(r) PROVE said' = said
  BY <1>1 DEF Check, Connect, Decode, ToolReturns, uiVars
<1>2. ASSUME NEW r \in Reqs, HandlerStep(r) PROVE said' = said
  BY <1>2 DEF HandlerStep, OpenSession, CreateItems, CreateFails, Emit, Store, Receive, Abort, EnsureSession,
              SavePattern, SetStatus, WipeItems, RefillItems, Delete, uiVars
<1>3. CASE Answer
  <2>1. Head(queue) \in Asked /\ In(queue, Head(queue)) BY <1>3, TailOnce DEF Answer, TypeOK
  <2>2. d # Head(queue) BY <2>1 DEF DialogOnce
  <2>3. QED BY <1>3, <2>2 DEF Answer, TypeOK, Asked, Reqs
<1>4. ASSUME Show \/ CloseShutdownCh \/ StopServer \/ ServerStopped PROVE said' = said
  BY <1>4 DEF Show, CloseShutdownCh, StopServer, ServerStopped, uiVars
<1>5. ASSUME NEW r \in Asked, Respond(r) PROVE said' = said
  BY <1>5 DEF Respond
<1>6. ASSUME UNCHANGED vars PROVE said' = said
  BY <1>6 DEF vars, uiVars
<1>7. QED
  BY <1>1, <1>2, <1>3, <1>4, <1>5, <1>6 DEF Next

\* A request is where its kind may be, whatever a step does.
LEMMA PlacesStep == TypeOK /\ Places /\ DialogOnce /\ AnswerOK /\ [Next]_vars => Places'
<1> SUFFICES ASSUME TypeOK, Places, DialogOnce, AnswerOK, [Next]_vars PROVE Places'
  OBVIOUS
<1> USE DEF Places, Goto, Decide
<1>0. \A r \in Reqs : r \in Singles /\ said[r].decision = "allowAll" => said'[r].decision = "allowAll"
  BY SaidStep DEF Asked, Reqs
<1>1. ASSUME UNCHANGED <<pc, verdict>> PROVE Places'
  BY <1>0, <1>1
<1>2. ASSUME NEW r \in Reqs, Check(r) \/ Connect(r) \/ Decode(r) \/ ToolReturns(r) PROVE Places'
  BY <1>2 DEF TypeOK, Check, Connect, Decode, ToolReturns, uiVars, Reqs, Asked
<1>3. ASSUME NEW r \in Reqs, HandlerStep(r) PROVE Places'
  <2>1. said' = said
    BY <1>3 DEF HandlerStep, OpenSession, CreateItems, CreateFails, Emit, Store, Receive, Abort, EnsureSession,
                SavePattern, SetStatus, WipeItems, RefillItems, Delete, uiVars
  <2>2. CASE OpenSession(r) \/ CreateItems(r) \/ CreateFails(r) \/ Emit(r) \/ Store(r)
    BY <2>1, <2>2 DEF TypeOK, OpenSession, CreateItems, CreateFails, Emit, Store, Asked
  <2>3. CASE Receive(r)
    <3>1. r \in Asked /\ (r \in Singles => chan[r] = r)
      BY <2>3, Keys, ApprovalAssumption DEF Receive, AnswerOK, TypeOK, Asked, Reqs
    <3>2. QED
      BY <2>1, <2>3, <3>1 DEF TypeOK, Receive, Asked
  <2>4. CASE Abort(r)
    BY <2>1, <2>4 DEF TypeOK, Abort, Asked
  <2>5. CASE EnsureSession(r) \/ SavePattern(r) \/ SetStatus(r) \/ WipeItems(r) \/ RefillItems(r) \/ Delete(r)
    BY <2>1, <2>5 DEF TypeOK, EnsureSession, SavePattern, SetStatus, WipeItems, RefillItems, Delete, Asked
  <2>6. QED
    BY <1>3, <2>2, <2>3, <2>4, <2>5 DEF HandlerStep
<1>4. CASE Show \/ Answer \/ CloseShutdownCh \/ StopServer \/ ServerStopped \/ \E d \in Asked : Respond(d)
  BY <1>1, <1>4 DEF Show, Answer, CloseShutdownCh, StopServer, ServerStopped, Respond
<1>5. CASE UNCHANGED vars
  BY <1>1, <1>5 DEF vars
<1>6. QED
  BY <1>2, <1>3, <1>4, <1>5 DEF Next

\* A step asks a request once: what has been asked is not unasked again.
LEMMA AskedOnce ==
  TypeOK /\ [Next]_vars => \A d \in Asked : ~Unasked(d) => ~Unasked(d)'
<1> SUFFICES ASSUME TypeOK, [Next]_vars, NEW d \in Asked, ~Unasked(d) PROVE ~Unasked(d)'
  OBVIOUS
<1> USE DEF Unasked, Goto
<1>0. pc \in [Reqs -> PCs] /\ d \in Reqs
  BY DEF TypeOK, Asked, Reqs
<1>1. ASSUME UNCHANGED pc PROVE ~Unasked(d)'
  BY <1>1
<1>2. ASSUME NEW r \in Reqs, Check(r) \/ Connect(r) \/ Decode(r) \/ ToolReturns(r) PROVE ~Unasked(d)'
  BY <1>0, <1>2 DEF Check, Connect, Decode, ToolReturns
<1>3. ASSUME NEW r \in Reqs, HandlerStep(r) PROVE ~Unasked(d)'
  <2>1. CASE OpenSession(r) \/ CreateItems(r) \/ CreateFails(r) \/ Emit(r) \/ Store(r)
    BY <1>0, <2>1 DEF OpenSession, CreateItems, CreateFails, Emit, Store
  <2>2. CASE Receive(r) \/ Abort(r)
    BY <1>0, <2>2 DEF Receive, Abort
  <2>3. CASE EnsureSession(r) \/ SavePattern(r) \/ SetStatus(r) \/ WipeItems(r) \/ RefillItems(r) \/ Delete(r)
    BY <1>0, <2>3 DEF EnsureSession, SavePattern, SetStatus, WipeItems, RefillItems, Delete
  <2>4. QED
    BY <1>3, <2>1, <2>2, <2>3 DEF HandlerStep
<1>4. CASE Show \/ Answer \/ CloseShutdownCh \/ StopServer \/ ServerStopped \/ \E r \in Asked : Respond(r)
  BY <1>1, <1>4 DEF Show, Answer, CloseShutdownCh, StopServer, ServerStopped, Respond
<1>5. CASE UNCHANGED vars
  BY <1>1, <1>5 DEF vars
<1>6. QED
  BY <1>2, <1>3, <1>4, <1>5 DEF Next

\* Only Emit, Show and Answer touch the events, the dialogs and the answers.
LEMMA DialogsSame ==
  [Next]_vars => \/ UNCHANGED <<events, queue, said>>
                 \/ \E r \in Reqs : Emit(r)
                 \/ Show
                 \/ Answer
<1> SUFFICES ASSUME [Next]_vars, ~Show, ~Answer, \A r \in Reqs : ~Emit(r) PROVE UNCHANGED <<events, queue, said>>
  OBVIOUS
<1> USE DEF uiVars
<1>1. ASSUME NEW r \in Reqs, Check(r) \/ Connect(r) \/ Decode(r) \/ ToolReturns(r)
      PROVE  UNCHANGED <<events, queue, said>>
  BY <1>1 DEF Check, Connect, Decode, ToolReturns
<1>2. ASSUME NEW r \in Reqs, HandlerStep(r) PROVE UNCHANGED <<events, queue, said>>
  BY <1>2 DEF HandlerStep, OpenSession, CreateItems, CreateFails, Store, Receive, Abort, EnsureSession,
              SavePattern, SetStatus, WipeItems, RefillItems, Delete
<1>3. CASE CloseShutdownCh \/ StopServer \/ ServerStopped \/ \E d \in Asked : Respond(d)
  BY <1>3 DEF CloseShutdownCh, StopServer, ServerStopped, Respond
<1>4. CASE UNCHANGED vars
  BY <1>4 DEF vars
<1>5. QED
  BY <1>1, <1>2, <1>3, <1>4 DEF Next

\* A request is in one place at most, and out of both once it is answered.
LEMMA DialogOnceStep == TypeOK /\ Places /\ DialogOnce /\ SaidOK /\ [Next]_vars => DialogOnce'
<1> SUFFICES ASSUME TypeOK, Places, DialogOnce, SaidOK, [Next]_vars PROVE DialogOnce'
  OBVIOUS
<1>0. \A d \in Asked : ~Unasked(d) => ~Unasked(d)'
  BY AskedOnce
<1>1. CASE UNCHANGED <<events, queue, said>>
  BY <1>0, <1>1 DEF DialogOnce
<1>2. ASSUME NEW r \in Reqs, Emit(r) PROVE DialogOnce'
  <2>1. /\ r \in Asked /\ Unasked(r) /\ ~Unasked(r)'
        /\ events' = Append(events, r) /\ queue' = queue /\ said' = said
    BY <1>2 DEF Emit, Places, Unasked, Goto, TypeOK
  <2>2. ~In(events, r) /\ ~In(queue, r) /\ said[r].decision = "none"
    BY <2>1 DEF DialogOnce, SaidOK
  <2>3. Once(events') /\ \A d : In(events', d) <=> In(events, d) \/ d = r
    BY <2>1, <2>2, AppendOnce DEF TypeOK, DialogOnce
  <2>4. QED
    BY <1>0, <2>1, <2>2, <2>3 DEF DialogOnce
<1>3. CASE Show
  <2> DEFINE r == Head(events)
  <2>1. /\ r \in Asked /\ In(events, r)
        /\ Once(events') /\ ~In(events', r)
        /\ \A d : In(events', d) => In(events, d)
    BY <1>3, TailOnce DEF Show, TypeOK, DialogOnce
  <2>2. queue' = queue \/ queue' = Append(queue, r)
    BY <1>3 DEF Show
  <2>3. said' = said
    BY <1>3 DEF Show
  <2> HIDE DEF r
  <2>4. Once(queue') /\ \A d : In(queue', d) => In(queue, d) \/ d = r
    <3>1. Once(queue) /\ ~In(queue, r) /\ queue \in Seq(Asked)
      BY <2>1 DEF TypeOK, DialogOnce
    <3>2. Once(Append(queue, r)) /\ \A d : In(Append(queue, r), d) => In(queue, d) \/ d = r
      BY <2>1, <3>1, AppendOnce
    <3>3. QED
      BY Zenon, <2>2, <3>1, <3>2
  <2>5. QED
    BY <1>0, <2>1, <2>3, <2>4 DEF DialogOnce
<1>4. CASE Answer
  <2> DEFINE d0 == Head(queue)
  <2>1. /\ d0 \in Asked /\ In(queue, d0)
        /\ Once(queue') /\ ~In(queue', d0)
        /\ \A d : In(queue', d) => In(queue, d)
    BY <1>4, TailOnce DEF Answer, TypeOK, DialogOnce
  <2>2. events' = events /\ \A d \in Asked : d # d0 => said'[d] = said[d]
    BY <1>4 DEF Answer, TypeOK, Asked, Reqs
  <2> HIDE DEF d0
  <2>3. QED
    BY <1>0, <2>1, <2>2 DEF DialogOnce
<1>5. QED
  BY <1>1, <1>2, <1>3, <1>4, DialogsSame

\* A dialog offers its choices, and only after its Emit.
LEMMA SaidOKStep == TypeOK /\ DialogOnce /\ SaidOK /\ [Next]_vars => SaidOK'
<1> SUFFICES ASSUME TypeOK, DialogOnce, SaidOK, [Next]_vars PROVE SaidOK'
  OBVIOUS
<1>0. \A d \in Asked : ~Unasked(d) => ~Unasked(d)'
  BY AskedOnce
<1>1. CASE said' = said
  BY <1>0, <1>1 DEF SaidOK, Choices
<1>2. CASE Answer
  <2> DEFINE d0 == Head(queue)
  <2>1. d0 \in Asked /\ ~Unasked(d0)
    BY <1>2, TailOnce DEF Answer, TypeOK, DialogOnce
  <2>2. said'[d0].decision \in Choices(d0) /\ \A d \in Asked : d # d0 => said'[d] = said[d]
    BY <1>2, <2>1 DEF Answer, TypeOK, Asked, Reqs
  <2> HIDE DEF d0
  <2>3. QED
    BY <1>0, <2>1, <2>2 DEF SaidOK, Choices
<1>3. QED
  BY <1>1, <1>2, DialogsSame DEF Emit, Show

\* A channel takes one answer: Respond drops the next.
LEMMA ChannelStays ==
  TypeOK /\ [Next]_vars =>
    \/ UNCHANGED <<chan, calls>>
    \/ Answer /\ chan' = chan
    \/ \E d \in calls : /\ Respond(d) /\ UNCHANGED <<pc, verdict, pending, status, said>>
                        /\ \/ chan' = chan
                           \/ /\ pending[Key(d)] # None /\ chan[pending[Key(d)]] = None
                              /\ chan' = [chan EXCEPT ![pending[Key(d)]] = d]
<1> SUFFICES ASSUME TypeOK, [Next]_vars, ~Answer, \A d \in Asked : ~Respond(d) PROVE UNCHANGED <<chan, calls>>
  BY DEF Answer, Respond, TypeOK, dbVars
<1> USE DEF uiVars
<1>1. ASSUME NEW r \in Reqs, Check(r) \/ Connect(r) \/ Decode(r) \/ ToolReturns(r) PROVE UNCHANGED <<chan, calls>>
  BY <1>1 DEF Check, Connect, Decode, ToolReturns
<1>2. ASSUME NEW r \in Reqs, HandlerStep(r) PROVE UNCHANGED <<chan, calls>>
  BY <1>2 DEF HandlerStep, OpenSession, CreateItems, CreateFails, Emit, Store, Receive, Abort, EnsureSession,
              SavePattern, SetStatus, WipeItems, RefillItems, Delete
<1>3. CASE Show \/ CloseShutdownCh \/ StopServer \/ ServerStopped
  BY <1>3 DEF Show, CloseShutdownCh, StopServer, ServerStopped
<1>4. CASE UNCHANGED vars
  BY <1>4 DEF vars
<1>5. QED
  BY <1>1, <1>2, <1>3, <1>4 DEF Next

\* An answer reaches the channel of a handler with its id.
LEMMA AnswerOKStep == TypeOK /\ DialogOnce /\ AnswerOK /\ PendingIsLive /\ [Next]_vars => AnswerOK'
<1> SUFFICES ASSUME TypeOK, DialogOnce, AnswerOK, PendingIsLive, [Next]_vars PROVE AnswerOK'
  OBVIOUS
<1>0. \A d \in Asked : said[d].decision # "none" => said'[d] = said[d]
  BY SaidStep
<1>1. \A r \in Asked : chan[r] \in Asked \cup {None}
  BY DEF TypeOK, Asked, Reqs
<1>2. calls \subseteq Asked
  BY DEF TypeOK
<1>3. CASE UNCHANGED <<chan, calls>>
  BY <1>0, <1>1, <1>2, <1>3 DEF AnswerOK, Key
<1>4. CASE Answer /\ chan' = chan
  <2> DEFINE d0 == Head(queue)
  <2>1. d0 \in Asked
    BY <1>4, TailOnce DEF Answer, TypeOK
  <2>2. calls' = calls \cup {d0} /\ said'[d0].decision # "none"
    BY <1>4, <2>1 DEF Answer, TypeOK, Choices, Asked, Reqs
  <2> HIDE DEF d0
  <2>3. QED
    BY <1>0, <1>1, <1>2, <1>4, <2>1, <2>2 DEF AnswerOK, Key
<1>5. ASSUME NEW d \in calls, Respond(d), said' = said,
             \/ chan' = chan
             \/ /\ pending[Key(d)] # None
                /\ chan' = [chan EXCEPT ![pending[Key(d)]] = d]
      PROVE  AnswerOK'
  <2>1. calls' \subseteq calls
    BY <1>5 DEF Respond
  <2>2. CASE chan' = chan
    BY <1>5, <2>1, <2>2 DEF AnswerOK, Key
  <2>3. CASE pending[Key(d)] # None /\ chan' = [chan EXCEPT ![pending[Key(d)]] = d]
    <3>1. Key(d) \in DOMAIN pending /\ Key(pending[Key(d)]) = Key(d)
      BY <1>2, <2>3, Keys DEF TypeOK, PendingIsLive, Asked, Reqs
    <3>2. \A r \in Asked : chan'[r] = chan[r] \/ (chan'[r] = d /\ r = pending[Key(d)])
      BY <2>3 DEF TypeOK, Asked, Reqs
    <3>3. QED
      BY <1>5, <2>1, <3>1, <3>2 DEF AnswerOK, Key
  <2>4. QED
    BY <1>5, <2>2, <2>3
<1>6. QED
  BY <1>3, <1>4, <1>5, ChannelStays

\* A verdict is taken from the channel, which keeps what it holds.
LEMMA VerdictFromChannelStep ==
  /\ TypeOK /\ Places /\ DialogOnce /\ AnswerOK /\ VerdictFromChannel /\ [Next]_vars
  => VerdictFromChannel'
<1> SUFFICES ASSUME TypeOK, Places, DialogOnce, AnswerOK, VerdictFromChannel, [Next]_vars
             PROVE  VerdictFromChannel'
  OBVIOUS
<1>1. \A r \in Asked : chan[r] # None => chan'[r] = chan[r]
  BY ChannelStays DEF TypeOK, Asked, Reqs
<1>2. \A r \in Asked : chan[r] # None => chan[r] \in Asked /\ said'[chan[r]] = said[chan[r]]
  <2>1. \A r \in Asked : chan[r] # None => chan[r] \in Asked /\ said[chan[r]].decision # "none"
    BY DEF TypeOK, AnswerOK, Asked, Reqs
  <2>2. QED
    BY <2>1, SaidStep
<1> DEFINE Good(r) == /\ verdict'[r] = "approved" => chan[r] # None /\ Allows(chan[r])
                      /\ verdict'[r] = "denied" => chan[r] # None /\ said[chan[r]].decision = "deny"
<1>3. ASSUME \A r \in Asked : Good(r) PROVE VerdictFromChannel'
  BY <1>1, <1>2, <1>3 DEF VerdictFromChannel, Allows
<1>4. ASSUME verdict' = verdict PROVE \A r \in Asked : Good(r)
  BY <1>4 DEF VerdictFromChannel
<1>5. ASSUME NEW r \in Reqs, Check(r) \/ Connect(r) \/ Decode(r) \/ CreateFails(r) \/ Abort(r)
      PROVE  \A q \in Asked : Good(q)
  BY <1>5 DEF VerdictFromChannel, TypeOK, Check, Connect, Decode, CreateFails, Abort, Decide, Asked, Reqs
<1>6. ASSUME NEW r \in Reqs, ToolReturns(r) PROVE \A q \in Asked : Good(q)
  BY <1>6, ApprovalAssumption DEF VerdictFromChannel, TypeOK, Places, ToolReturns, Decide, Reqs
<1>7. ASSUME NEW r \in Reqs, Receive(r) PROVE \A q \in Asked : Good(q)
  <2>1. r \in Asked /\ chan[r] # None /\ said[chan[r]].decision \in Decisions \ {"none"}
    BY <1>7, <1>2 DEF Receive, Places, TypeOK, AnswerOK, Asked, Reqs
  <2>2. verdict' = [verdict EXCEPT ![r] = IF said[chan[r]].decision = "deny" THEN "denied" ELSE "approved"]
    BY <1>7 DEF Receive, Decide
  <2>3. QED
    BY <2>1, <2>2 DEF VerdictFromChannel, TypeOK, Allows, Decisions, Asked, Reqs
<1>8. ASSUME NEW r \in Reqs, HandlerStep(r), ~CreateFails(r), ~Abort(r), ~Receive(r) PROVE verdict' = verdict
  BY <1>8 DEF HandlerStep, OpenSession, CreateItems, Emit, Store, EnsureSession,
              SavePattern, SetStatus, WipeItems, RefillItems, Delete
<1>9. ASSUME Show \/ Answer \/ CloseShutdownCh \/ StopServer \/ ServerStopped \/ \E d \in Asked : Respond(d)
      PROVE  verdict' = verdict
  BY <1>9 DEF Show, Answer, CloseShutdownCh, StopServer, ServerStopped, Respond
<1>10. ASSUME UNCHANGED vars PROVE verdict' = verdict
  BY <1>10 DEF vars
<1> HIDE DEF Good
<1>11. QED
  BY <1>3, <1>4, <1>5, <1>6, <1>7, <1>8, <1>9, <1>10 DEF Next

\* Only Store and Delete change what an id leads to; the other steps of a
\* handler that waits, or is finishing, leave it between the two.
LEMMA PendingStep == TypeOK /\ Places /\ PendingIsLive /\ [Next]_vars => PendingIsLive'
<1> DEFINE Live == {"wait", "ensure", "save", "status", "wipe", "refill", "delete"}
<1> SUFFICES ASSUME TypeOK, Places, PendingIsLive, [Next]_vars PROVE PendingIsLive'
  OBVIOUS
<1> USE DEF Goto
<1>0. /\ pc \in [Reqs -> PCs] /\ pending \in [Reqs \cup Sessions -> Asked \cup {None}]
      /\ None \notin Asked /\ Asked \subseteq Reqs /\ Singles \cup Batches \subseteq Asked
      /\ \A r \in Reqs : Key(r) \in Reqs \cup Sessions
      /\ \A r \in Singles \cup Batches : Key(r) = r
  BY Keys, ApprovalAssumption DEF TypeOK, Asked, Reqs, Key
<1>a. \A q \in Singles \cup Batches, r \in Asked : Key(r) = q => r = q
  <2>1. \A q \in Singles \cup Batches : q \notin Grants /\ q \in Asked
    BY ApprovalAssumption DEF Asked
  <2>2. QED
    BY <1>0, <2>1, Keys
<1>1. ASSUME pending' = pending,
             \A r \in Asked : \/ pc'[r] = pc[r]
                              \/ pc[r] \in Live /\ pc'[r] \in Live \ {"wait"}
                              \/ pc[r] \notin Live /\ pc'[r] # "wait"
      PROVE  PendingIsLive'
  <2>1. \A r \in Singles \cup Batches : pc'[r] = "wait" => pending'[r] = r
    BY <1>0, <1>1 DEF PendingIsLive
  <2>2. ASSUME NEW k \in DOMAIN pending, pending[k] # None
        PROVE  Key(pending[k]) = k /\ pc'[pending[k]] \in Live
    BY <1>0, <1>1, <2>2 DEF PendingIsLive
  <2>3. QED
    BY <1>1, <2>1, <2>2 DEF PendingIsLive, Key
<1>2. ASSUME NEW r \in Reqs, Check(r) \/ Connect(r) \/ Decode(r) \/ ToolReturns(r) PROVE PendingIsLive'
  BY <1>0, <1>1, <1>2 DEF Check, Connect, Decode, ToolReturns
<1>3. ASSUME NEW r \in Reqs, HandlerStep(r) PROVE PendingIsLive'
  <2>1. CASE OpenSession(r) \/ CreateItems(r) \/ CreateFails(r) \/ Emit(r)
    BY <1>0, <1>1, <2>1 DEF OpenSession, CreateItems, CreateFails, Emit
  <2>2. CASE Store(r)
    <3>1. r \in Asked /\ pending' = [pending EXCEPT ![Key(r)] = r] /\ pc' = [pc EXCEPT ![r] = "wait"]
      BY <2>2 DEF Store, Places
    <3>2. ASSUME NEW q \in Singles \cup Batches, pc'[q] = "wait" PROVE pending'[q] = q
      <4>1. q \in Reqs /\ Key(q) = q /\ (q # r => Key(r) # q)
        BY <1>0, <1>a, <3>1
      <4>2. q # r => pending[q] = q
        BY <3>1, <3>2, <4>1, <1>0 DEF PendingIsLive
      <4>3. QED
        BY <1>0, <3>1, <4>1, <4>2
    <3>3. ASSUME NEW k \in DOMAIN pending, pending'[k] # None
          PROVE  Key(pending'[k]) = k /\ pc'[pending'[k]] \in Live
      BY <1>0, <3>1, <3>3 DEF PendingIsLive
    <3>4. QED
      BY <1>0, <3>1, <3>2, <3>3 DEF PendingIsLive, Key
  <2>3. CASE Receive(r) \/ Abort(r)
    BY <1>0, <1>1, <2>3 DEF Receive, Abort
  <2>4. CASE EnsureSession(r) \/ SavePattern(r) \/ SetStatus(r) \/ WipeItems(r) \/ RefillItems(r)
    BY <1>0, <1>1, <2>4 DEF EnsureSession, SavePattern, SetStatus, WipeItems, RefillItems
  <2>5. CASE Delete(r)
    <3>1. r \in Asked /\ pending' = [pending EXCEPT ![Key(r)] = None] /\ pc' = [pc EXCEPT ![r] = "done"]
      BY <2>5 DEF Delete, Places
    <3>2. ASSUME NEW q \in Singles \cup Batches, pc'[q] = "wait" PROVE pending'[q] = q
      <4>1. q \in Reqs /\ Key(q) = q /\ (q # r => Key(r) # q)
        BY <1>0, <1>a, <3>1
      <4>2. q # r => pending[q] = q
        BY <3>1, <3>2, <4>1, <1>0 DEF PendingIsLive
      <4>3. QED
        BY <1>0, <3>1, <3>2, <4>1, <4>2
    <3>3. ASSUME NEW k \in DOMAIN pending, pending'[k] # None
          PROVE  Key(pending'[k]) = k /\ pc'[pending'[k]] \in Live
      <4>1. k # Key(r) /\ pending'[k] = pending[k]
        BY <1>0, <3>1, <3>3
      <4>2. pending[k] # r /\ pending[k] \in Asked
        BY <1>0, <3>3, <4>1 DEF PendingIsLive
      <4>3. QED
        BY <1>0, <3>1, <3>3, <4>1, <4>2 DEF PendingIsLive
    <3>4. QED
      BY <1>0, <3>1, <3>2, <3>3 DEF PendingIsLive, Key
  <2>6. QED
    BY <1>3, <2>1, <2>2, <2>3, <2>4, <2>5 DEF HandlerStep
<1>4. CASE Show \/ Answer \/ CloseShutdownCh \/ StopServer \/ ServerStopped \/ \E d \in Asked : Respond(d)
  BY <1>1, <1>4 DEF Show, Answer, CloseShutdownCh, StopServer, ServerStopped, Respond
<1>5. CASE UNCHANGED vars
  BY <1>1, <1>5 DEF vars
<1>6. QED
  BY <1>2, <1>3, <1>4, <1>5 DEF Next

\* A request that reached its handler stays there or is done: it is never
\* again one that skips its dialog or finds the app gone.
LEMMA ReachedStays == TypeOK /\ [Next]_vars => \A d \in Reqs : Reached(d) => Reached(d)'
<1> SUFFICES ASSUME TypeOK, [Next]_vars, NEW d \in Reqs, Reached(d) PROVE Reached(d)'
  OBVIOUS
<1> USE DEF Reached, Goto, Decide
<1>0. /\ pc \in [Reqs -> PCs]
      /\ verdict \in [Reqs -> {"none", "auto", "approved", "denied", "shutdown", "offline", "failed"}]
  BY DEF TypeOK
<1>1. ASSUME UNCHANGED <<pc, verdict>> PROVE Reached(d)'
  BY <1>1
<1>2. ASSUME NEW r \in Reqs, Check(r) \/ Connect(r) \/ Decode(r) \/ ToolReturns(r) PROVE Reached(d)'
  BY <1>0, <1>2 DEF Check, Connect, Decode, ToolReturns
<1>3. ASSUME NEW r \in Reqs, HandlerStep(r) PROVE Reached(d)'
  <2>1. CASE OpenSession(r) \/ CreateItems(r) \/ CreateFails(r) \/ Emit(r) \/ Store(r)
    BY <1>0, <2>1 DEF OpenSession, CreateItems, CreateFails, Emit, Store
  <2>2. CASE Receive(r) \/ Abort(r)
    BY <1>0, <2>2 DEF Receive, Abort
  <2>3. CASE EnsureSession(r) \/ SavePattern(r) \/ SetStatus(r) \/ WipeItems(r) \/ RefillItems(r) \/ Delete(r)
    BY <1>0, <2>3 DEF EnsureSession, SavePattern, SetStatus, WipeItems, RefillItems, Delete
  <2>4. QED
    BY <1>3, <2>1, <2>2, <2>3 DEF HandlerStep
<1>4. CASE Show \/ Answer \/ CloseShutdownCh \/ StopServer \/ ServerStopped \/ \E r \in Asked : Respond(r)
  BY <1>1, <1>4 DEF Show, Answer, CloseShutdownCh, StopServer, ServerStopped, Respond
<1>5. CASE UNCHANGED vars
  BY <1>1, <1>5 DEF vars
<1>6. QED
  BY <1>2, <1>3, <1>4, <1>5 DEF Next

\* Nobody takes back having asked for an item.
LEMMA FromSessionStays ==
  TypeOK /\ [Next]_vars => \A s, item : FromSession(s, item) => FromSession(s, item)'
<1> SUFFICES ASSUME TypeOK, [Next]_vars, NEW s, NEW item, FromSession(s, item) PROVE FromSession(s, item)'
  OBVIOUS
<1>1. \A d \in Grants \cup Singles : Reached(d) => Reached(d)'
  BY ReachedStays DEF Reqs
<1>2. QED
  BY <1>1 DEF FromSession

\* A dialog sends the targets of one request with the commands of another of
\* the same session, both of which have reached their handlers.
LEMMA ShownFromSession ==
  ASSUME TypeOK, Provenance, NEW d \in Grants \cup Singles, Reached(d)
  PROVE  FromSession(sessionOf[d], Shown(d))
<1>1. d \in Grants => sessionOf[d] \in Sessions
  BY ApprovalAssumption DEF Reqs
<1>2. CASE d \in Grants /\ edits[sessionOf[d]] # None
  <2>1. edits[sessionOf[d]] \in Grants
    BY <1>1, <1>2 DEF TypeOK
  <2>2. sessionOf[edits[sessionOf[d]]] = sessionOf[d] /\ Reached(edits[sessionOf[d]])
    BY <1>1, <1>2 DEF Provenance
  <2>3. Shown(d) = [asset |-> assetOf[d], command |-> commandOf[edits[sessionOf[d]]]]
    BY <1>2 DEF Shown
  <2>4. QED
    BY <2>1, <2>2, <2>3 DEF FromSession
<1>3. CASE ~(d \in Grants /\ edits[sessionOf[d]] # None)
  BY <1>3 DEF Shown, FromSession
<1>4. QED
  BY <1>2, <1>3

\* What a handler takes from its channel was asked for in its session.
LEMMA RowsFromSession ==
  ASSUME TypeOK, Provenance, AnswerOK, NEW r \in Grants \cup Singles, chan[r] # None
  PROVE  \A row \in said[chan[r]].rows : FromSession(sessionOf[r], row)
<1>1. r \in Asked /\ chan[r] \in Asked /\ Key(chan[r]) = Key(r)
  BY DEF AnswerOK, TypeOK, Asked, Reqs
<1>2. sessionOf[chan[r]] = sessionOf[r]
  BY <1>1, Keys
<1>3. QED
  BY <1>1, <1>2 DEF Provenance

\* Only the handler of a grant, or of a single request the user chose to
\* remember, adds to the items of a session, and only what was asked for.
LEMMA ItemsStep ==
  TypeOK /\ Places /\ AnswerOK /\ VerdictFromChannel /\ Provenance /\ [Next]_vars =>
    \A s \in Sessions : \A item \in items'[s] : FromSession(s, item)
<1> DEFINE Good == \A s \in Sessions : \A item \in items'[s] : FromSession(s, item)
<1> SUFFICES ASSUME TypeOK, Places, AnswerOK, VerdictFromChannel, Provenance, [Next]_vars PROVE Good
  OBVIOUS
<1> USE DEF dbVars, uiVars
<1>0. items \in [Sessions -> SUBSET Items] /\ \A r \in Reqs : sessionOf[r] \in Sessions
  BY ApprovalAssumption DEF TypeOK
<1>1. ASSUME items' = items PROVE Good
  BY <1>1 DEF Provenance
<1>2. ASSUME NEW r \in Reqs, NEW new, \A item \in new : FromSession(sessionOf[r], item),
             items' = [items EXCEPT ![sessionOf[r]] = @ \cup new]
      PROVE  Good
  BY <1>0, <1>2 DEF Provenance
<1>3. ASSUME NEW r \in Reqs, CreateItems(r) PROVE Good
  <2>1. r \in Grants /\ Reached(r)
    BY <1>3 DEF CreateItems, Places, Provenance, Reached
  <2> DEFINE new == {Item(r)}
  <2>2. \A item \in new : FromSession(sessionOf[r], item)
    BY <2>1 DEF FromSession, Item
  <2>3. items' = [items EXCEPT ![sessionOf[r]] = @ \cup new]
    BY <1>3 DEF CreateItems
  <2> HIDE DEF new
  <2>4. QED
    BY <1>2, <2>2, <2>3
<1>4. ASSUME NEW r \in Reqs, SavePattern(r) \/ RefillItems(r) PROVE Good
  <2>1. r \in Grants \cup Singles /\ chan[r] # None
    BY <1>4 DEF SavePattern, RefillItems, Places, VerdictFromChannel, Asked
  <2>2. \A item \in said[chan[r]].rows : FromSession(sessionOf[r], item)
    BY <2>1, RowsFromSession
  <2>3. items' = [items EXCEPT ![sessionOf[r]] = @ \cup said[chan[r]].rows]
    BY <1>4 DEF SavePattern, RefillItems
  <2>4. QED
    BY <1>2, <2>2, <2>3
<1>5. ASSUME NEW r \in Reqs, WipeItems(r) PROVE Good
  BY <1>0, <1>5 DEF WipeItems, Provenance
<1>6. ASSUME NEW r \in Reqs, Check(r) \/ Connect(r) \/ Decode(r) \/ ToolReturns(r) PROVE items' = items
  BY <1>6 DEF Check, Connect, Decode, ToolReturns
<1>7. ASSUME NEW r \in Reqs, HandlerStep(r), ~CreateItems(r), ~SavePattern(r), ~RefillItems(r), ~WipeItems(r)
      PROVE  items' = items
  BY <1>7 DEF HandlerStep, OpenSession, CreateFails, Emit, Store, Receive, Abort, EnsureSession, SetStatus, Delete
<1>8. ASSUME Show \/ Answer \/ CloseShutdownCh \/ StopServer \/ ServerStopped \/ \E d \in Asked : Respond(d)
      PROVE  items' = items
  BY <1>8 DEF Show, Answer, CloseShutdownCh, StopServer, ServerStopped, Respond
<1>9. ASSUME UNCHANGED vars PROVE items' = items
  BY <1>9 DEF vars
<1> HIDE DEF Good
<1>10. QED
  BY <1>1, <1>3, <1>4, <1>5, <1>6, <1>7, <1>8, <1>9 DEF Next

\* Only a request that is done has skipped its dialog or found the app gone.
LEMMA SkippedStep ==
  TypeOK /\ Provenance /\ [Next]_vars =>
    \A d \in Reqs : verdict'[d] \in {"auto", "offline"} => pc'[d] = "done"
<1> SUFFICES ASSUME TypeOK, Provenance, [Next]_vars, NEW d \in Reqs, verdict'[d] \in {"auto", "offline"}
             PROVE  pc'[d] = "done"
  OBVIOUS
<1> USE DEF Goto, Decide
<1>0. /\ pc \in [Reqs -> PCs]
      /\ verdict \in [Reqs -> {"none", "auto", "approved", "denied", "shutdown", "offline", "failed"}]
      /\ verdict[d] \in {"auto", "offline"} => pc[d] = "done"
  BY DEF TypeOK, Provenance
<1>1. ASSUME UNCHANGED <<pc, verdict>> PROVE pc'[d] = "done"
  BY <1>0, <1>1
<1>2. ASSUME NEW r \in Reqs, Check(r) \/ Connect(r) \/ Decode(r) \/ ToolReturns(r) PROVE pc'[d] = "done"
  BY <1>0, <1>2 DEF Check, Connect, Decode, ToolReturns
<1>3. ASSUME NEW r \in Reqs, HandlerStep(r) PROVE pc'[d] = "done"
  <2>1. CASE OpenSession(r) \/ CreateItems(r) \/ CreateFails(r) \/ Emit(r) \/ Store(r)
    BY <1>0, <2>1 DEF OpenSession, CreateItems, CreateFails, Emit, Store
  <2>2. CASE Receive(r) \/ Abort(r)
    BY <1>0, <2>2 DEF Receive, Abort
  <2>3. CASE EnsureSession(r) \/ SavePattern(r) \/ SetStatus(r) \/ WipeItems(r) \/ RefillItems(r) \/ Delete(r)
    BY <1>0, <2>3 DEF EnsureSession, SavePattern, SetStatus, WipeItems, RefillItems, Delete
  <2>4. QED
    BY <1>3, <2>1, <2>2, <2>3 DEF HandlerStep
<1>4. CASE Show \/ Answer \/ CloseShutdownCh \/ StopServer \/ ServerStopped \/ \E r \in Asked : Respond(r)
  BY <1>1, <1>4 DEF Show, Answer, CloseShutdownCh, StopServer, ServerStopped, Respond
<1>5. CASE UNCHANGED vars
  BY <1>1, <1>5 DEF vars
<1>6. QED
  BY <1>2, <1>3, <1>4, <1>5 DEF Next

\* An event is raised by a handler; a dialog comes from an event, an answer from
\* a dialog.
LEMMA KnownStep ==
  TypeOK /\ Places /\ DialogOnce /\ Provenance /\ [Next]_vars =>
    \A d \in Asked : In(events', d) \/ In(queue', d) \/ said'[d].decision # "none" => Reached(d)
<1> DEFINE Known(d) == In(events, d) \/ In(queue, d) \/ said[d].decision # "none"
           Shows(d) == In(events', d) \/ In(queue', d) \/ said'[d].decision # "none"
<1> SUFFICES ASSUME TypeOK, Places, DialogOnce, Provenance, [Next]_vars, NEW d \in Asked, Shows(d)
             PROVE  Reached(d)
  OBVIOUS
<1>0. \A r \in Asked : Known(r) => Reached(r)
  BY DEF Provenance
<1>1. ASSUME Known(d) PROVE Reached(d)
  BY <1>0, <1>1
<1>2. CASE UNCHANGED <<events, queue, said>>
  BY <1>1, <1>2
<1>3. ASSUME NEW r \in Reqs, Emit(r) PROVE Reached(d)
  <2>1. r \in Asked /\ Reached(r)
    BY <1>3 DEF Emit, Places, Provenance, Reached
  <2>2. events' = Append(events, r) /\ queue' = queue /\ said' = said
    BY <1>3 DEF Emit
  <2>3. In(events', d) => In(events, d) \/ d = r
    BY <2>1, <2>2, AppendOnce DEF TypeOK
  <2>4. QED
    BY <1>1, <2>1, <2>2, <2>3
<1>4. CASE Show
  <2> DEFINE r == Head(events)
  <2>1. r \in Asked /\ In(events, r) /\ (In(events', d) => In(events, d))
    BY <1>4, TailOnce DEF Show, TypeOK
  <2>2. (queue' = queue \/ queue' = Append(queue, r)) /\ said' = said
    BY <1>4 DEF Show
  <2> HIDE DEF r
  <2>3. In(queue', d) => In(queue, d) \/ d = r
    <3>1. queue \in Seq(Asked)
      BY DEF TypeOK
    <3>2. In(Append(queue, r), d) => In(queue, d) \/ d = r
      BY <2>1, <3>1, AppendOnce
    <3>3. QED
      BY Zenon, <2>2, <3>2
  <2>4. QED
    BY <1>1, <2>1, <2>2, <2>3
<1>5. CASE Answer
  <2> DEFINE r == Head(queue)
  <2>1. r \in Asked /\ In(queue, r) /\ (In(queue', d) => In(queue, d))
    BY <1>5, TailOnce DEF Answer, TypeOK
  <2>2. events' = events /\ (d # r => said'[d] = said[d])
    BY <1>5 DEF Answer, TypeOK, Asked, Reqs
  <2> HIDE DEF r
  <2>3. QED
    BY <1>1, <2>1, <2>2
<1>6. QED
  BY <1>2, <1>3, <1>4, <1>5, DialogsSame

\* The edit state of a session is that of a grant of the session whose event
\* arrived.
LEMMA EditsStep ==
  TypeOK /\ Provenance /\ [Next]_vars =>
    \A s \in Sessions : edits'[s] # None => sessionOf[edits'[s]] = s /\ Reached(edits'[s])
<1> DEFINE Good == \A s \in Sessions : edits'[s] # None => sessionOf[edits'[s]] = s /\ Reached(edits'[s])
<1> SUFFICES ASSUME TypeOK, Provenance, [Next]_vars PROVE Good
  OBVIOUS
<1> USE DEF uiVars
<1>1. ASSUME edits' = edits PROVE Good
  BY <1>1 DEF Provenance
<1>2. ASSUME Show PROVE Good
  <2> DEFINE r == Head(events)
  <2>1. r \in Asked /\ In(events, r)
    BY <1>2, TailOnce DEF Show, TypeOK
  <2>2. edits' = IF r \in Grants THEN [edits EXCEPT ![sessionOf[r]] = r] ELSE edits
    BY <1>2 DEF Show
  <2>3. edits \in [Sessions -> Grants \cup {None}]
    BY DEF TypeOK
  <2> HIDE DEF r
  <2>4. QED
    BY <2>1, <2>2, <2>3 DEF Provenance
<1>3. ASSUME Answer PROVE Good
  <2> DEFINE r == Head(queue)
  <2>1. edits' = IF r \in Grants THEN [edits EXCEPT ![sessionOf[r]] = None] ELSE edits
    BY <1>3 DEF Answer
  <2>2. edits \in [Sessions -> Grants \cup {None}]
    BY DEF TypeOK
  <2> HIDE DEF r
  <2>3. QED
    BY <2>1, <2>2 DEF Provenance
<1>4. ASSUME NEW r \in Reqs, Check(r) \/ Connect(r) \/ Decode(r) \/ ToolReturns(r) PROVE edits' = edits
  BY <1>4 DEF Check, Connect, Decode, ToolReturns
<1>5. ASSUME NEW r \in Reqs, HandlerStep(r) PROVE edits' = edits
  BY <1>5 DEF HandlerStep, OpenSession, CreateItems, CreateFails, Emit, Store, Receive, Abort, EnsureSession,
              SavePattern, SetStatus, WipeItems, RefillItems, Delete
<1>6. ASSUME CloseShutdownCh \/ StopServer \/ ServerStopped \/ \E d \in Asked : Respond(d) PROVE edits' = edits
  BY <1>6 DEF CloseShutdownCh, StopServer, ServerStopped, Respond
<1>7. ASSUME UNCHANGED vars PROVE edits' = edits
  BY <1>7 DEF vars
<1> HIDE DEF Good
<1>8. QED
  BY <1>1, <1>2, <1>3, <1>4, <1>5, <1>6, <1>7 DEF Next

\* An answer carries what its dialog shows, or nothing.
LEMMA SaidRowsStep ==
  TypeOK /\ Provenance /\ [Next]_vars =>
    \A d \in Asked : \A row \in said'[d].rows : d \in Grants \cup Singles /\ FromSession(sessionOf[d], row)
<1> DEFINE Good(d) == \A row \in said'[d].rows : d \in Grants \cup Singles /\ FromSession(sessionOf[d], row)
<1> SUFFICES ASSUME TypeOK, Provenance, [Next]_vars, NEW d \in Asked PROVE Good(d)
  OBVIOUS
<1>1. ASSUME said'[d] = said[d] PROVE Good(d)
  BY <1>1 DEF Provenance
<1>2. CASE Answer
  <2> DEFINE r == Head(queue)
  <2>1. r \in Asked /\ In(queue, r)
    BY <1>2, TailOnce DEF Answer, TypeOK
  <2>2. PICK c \in Choices(r) : \E rows \in IF SendsItems(r, c) THEN {{Shown(r)}, {}} ELSE {{}} :
               said' = [said EXCEPT ![r] = [decision |-> c, rows |-> rows]]
    BY <1>2 DEF Answer
  <2>3. PICK rows \in IF SendsItems(r, c) THEN {{Shown(r)}, {}} ELSE {{}} :
               said' = [said EXCEPT ![r] = [decision |-> c, rows |-> rows]]
    BY <2>2
  <2>4. rows # {} => r \in Grants \cup Singles /\ rows = {Shown(r)}
    BY <2>3 DEF SendsItems
  <2>5. r \in Grants \cup Singles => FromSession(sessionOf[r], Shown(r))
    <3>1. Reached(r)
      BY <2>1 DEF Provenance
    <3>2. QED
      BY <3>1, ShownFromSession
  <2>6. \A row \in rows : r \in Grants \cup Singles /\ FromSession(sessionOf[r], row)
    BY <2>4, <2>5
  <2>7. said' = [said EXCEPT ![r] = [decision |-> c, rows |-> rows]] /\ r \in Reqs /\ d \in Reqs
    BY <2>1, <2>3 DEF Asked, Reqs
  <2> HIDE DEF r
  <2>8. d = r => said'[d].rows = rows
    BY <2>7 DEF TypeOK
  <2>9. d # r => said'[d] = said[d]
    BY <2>7 DEF TypeOK
  <2>10. QED
    BY <1>1, <2>6, <2>8, <2>9
<1>3. QED
  BY <1>1, <1>2, DialogsSame DEF Emit, Show

\* Events, dialogs, edit states, answers and grants all go back to requests of
\* their own session that reached their handlers.
LEMMA ProvenanceStep ==
  TypeOK /\ Places /\ DialogOnce /\ AnswerOK /\ VerdictFromChannel /\ Provenance /\ [Next]_vars => Provenance'
<1> SUFFICES ASSUME TypeOK, Places, DialogOnce, AnswerOK, VerdictFromChannel, Provenance, [Next]_vars
             PROVE  Provenance'
  OBVIOUS
<1>1. /\ \A d \in Reqs : Reached(d) => Reached(d)'
      /\ \A s, item : FromSession(s, item) => FromSession(s, item)'
      /\ Asked \subseteq Reqs /\ Grants \subseteq Reqs
  BY ReachedStays, FromSessionStays DEF Asked, Reqs
<1>2. (\A r \in Reqs : verdict[r] \in {"auto", "offline"} => pc[r] = "done")'
  BY SkippedStep
<1>3. (\A d \in Asked : In(events, d) \/ In(queue, d) \/ said[d].decision # "none" => Reached(d))'
  BY <1>1, KnownStep DEF In
<1>4. (\A s \in Sessions : edits[s] # None => sessionOf[edits[s]] = s /\ Reached(edits[s]))'
  <2>1. \A s \in Sessions : edits'[s] \in Grants \cup {None}
    BY TypeStep DEF TypeOK
  <2>2. \A s \in Sessions : edits'[s] # None => edits'[s] \in Reqs
    BY <1>1, <2>1
  <2>3. QED
    BY <1>1, <2>2, EditsStep DEF Reached
<1>5. (\A d \in Asked : \A row \in said[d].rows :
         d \in Grants \cup Singles /\ FromSession(sessionOf[d], row))'
  BY <1>1, SaidRowsStep
<1>6. (\A s \in Sessions : \A item \in items[s] : FromSession(s, item))'
  BY <1>1, ItemsStep
<1>7. QED
  BY <1>2, <1>3, <1>4, <1>5, <1>6 DEF Provenance

\* A session is approved by the grant the user allowed, or by the single
\* request the user chose to remember; a check that asks nobody relies on one.
LEMMA AutoNeedsConsentStep ==
  /\ TypeOK /\ Places /\ DialogOnce /\ SaidOK /\ AnswerOK /\ VerdictFromChannel /\ AutoNeedsConsent
  /\ Provenance /\ [Next]_vars
  => AutoNeedsConsent'
<1> SUFFICES ASSUME TypeOK, Places, DialogOnce, SaidOK, AnswerOK, VerdictFromChannel, AutoNeedsConsent,
                    Provenance, [Next]_vars
             PROVE  AutoNeedsConsent'
  OBVIOUS
<1>0. /\ Grants \cup Singles \subseteq Asked /\ Asked \subseteq Reqs
      /\ status \in [Sessions -> {"absent", "pending", "approved", "rejected"}]
      /\ verdict \in [Reqs -> {"none", "auto", "approved", "denied", "shutdown", "offline", "failed"}]
      /\ \A r \in Reqs : sessionOf[r] \in Sessions
  BY ApprovalAssumption DEF TypeOK, Asked, Reqs
<1>1. \A s \in Sessions : Consented(s) => Consented(s)'
  BY <1>0, SaidStep DEF Consented
<1>a. \A s, item : FromSession(s, item) => FromSession(s, item)'
  BY FromSessionStays
<1>b. \A r \in Reqs : FromSession(sessionOf[r], Item(r)) => FromSession(sessionOf[r], Item(r))'
  BY <1>a
<1> DEFINE Granted(r) == Consented(sessionOf[r]) /\ FromSession(sessionOf[r], Item(r))
<1>2. ASSUME \A s \in Sessions : status'[s] = "approved" => status[s] = "approved" \/ Consented(s),
             \A r \in Reqs : verdict'[r] = "auto" => verdict[r] = "auto" \/ Granted(r)
      PROVE  AutoNeedsConsent'
  BY <1>0, <1>1, <1>b, <1>2 DEF AutoNeedsConsent
<1>3. ASSUME UNCHANGED <<status, verdict>> PROVE AutoNeedsConsent'
  BY <1>2, <1>3
<1>4. ASSUME NEW r \in Reqs, Check(r) PROVE AutoNeedsConsent'
  <2>1. status' = status
    BY <1>4 DEF Check, dbVars
  <2>2. CASE Item(r) \in ApprovedItems(sessionOf[r])
    <3>1. Granted(r)
      <4>1. status[sessionOf[r]] = "approved" /\ Item(r) \in items[sessionOf[r]]
        BY <2>2 DEF ApprovedItems
      <4>2. QED
        BY <1>0, <4>1 DEF AutoNeedsConsent, Provenance
    <3>2. \A q \in Reqs : verdict'[q] = verdict[q] \/ q = r
      BY <1>0, <1>4 DEF Check, Decide
    <3>3. QED
      BY <1>2, <2>1, <3>1, <3>2
  <2>3. CASE Item(r) \notin ApprovedItems(sessionOf[r])
    BY <1>3, <1>4, <2>1, <2>3 DEF Check
  <2>4. QED
    BY <2>2, <2>3
<1>5. ASSUME NEW r \in Reqs, Connect(r) \/ Decode(r) \/ ToolReturns(r) PROVE AutoNeedsConsent'
  BY <1>0, <1>2, <1>5 DEF Connect, Decode, ToolReturns, Decide, dbVars
<1>6. ASSUME NEW r \in Reqs, HandlerStep(r) PROVE AutoNeedsConsent'
  <2>1. CASE OpenSession(r)
    BY <1>0, <1>2, <2>1 DEF OpenSession
  <2>2. CASE CreateFails(r) \/ Receive(r) \/ Abort(r)
    BY <1>0, <1>2, <2>2 DEF CreateFails, Receive, Abort, Decide, dbVars
  <2>3. CASE EnsureSession(r)
    <3>1. Consented(sessionOf[r])
      BY <1>0, <2>3, ApprovalAssumption DEF EnsureSession, Places, Consented
    <3>2. QED
      BY <1>0, <1>2, <2>3, <3>1 DEF EnsureSession
  <2>4. CASE SetStatus(r)
    <3>1. r \in Grants
      BY <2>4 DEF SetStatus, Places
    <3>2. CASE verdict[r] = "approved"
      <4>1. chan[r] \in Asked /\ Key(chan[r]) = Key(r) /\ Allows(chan[r])
        BY <1>0, <3>1, <3>2 DEF VerdictFromChannel, AnswerOK, TypeOK
      <4>2. chan[r] \in Grants /\ sessionOf[chan[r]] = sessionOf[r]
        BY <1>0, <3>1, <4>1, Keys
      <4>3. said[chan[r]].decision = "allow"
        BY <1>0, <4>1, <4>2, ApprovalAssumption DEF SaidOK, Choices, Allows
      <4>4. Consented(sessionOf[r])
        BY <4>2, <4>3 DEF Consented
      <4>5. QED
        BY <1>0, <1>2, <2>4, <4>4 DEF SetStatus
    <3>3. CASE verdict[r] # "approved"
      BY <1>0, <1>2, <2>4, <3>3 DEF SetStatus
    <3>4. QED
      BY <3>2, <3>3
  <2>5. CASE CreateItems(r) \/ Emit(r) \/ Store(r) \/ SavePattern(r) \/ WipeItems(r) \/ RefillItems(r) \/ Delete(r)
    BY <1>3, <2>5 DEF CreateItems, Emit, Store, SavePattern, WipeItems, RefillItems, Delete, dbVars
  <2>6. QED
    BY <1>6, <2>1, <2>2, <2>3, <2>4, <2>5 DEF HandlerStep
<1>7. CASE Show \/ Answer \/ CloseShutdownCh \/ StopServer \/ ServerStopped \/ \E d \in Asked : Respond(d)
  BY <1>3, <1>7 DEF Show, Answer, CloseShutdownCh, StopServer, ServerStopped, Respond, dbVars
<1>8. CASE UNCHANGED vars
  BY <1>3, <1>8 DEF vars, dbVars
<1>9. QED
  BY <1>4, <1>5, <1>6, <1>7, <1>8 DEF Next

\* Every step keeps the invariant.
LEMMA NextIInv == IInv /\ [Next]_vars => IInv'
BY TypeStep, PlacesStep, DialogOnceStep, SaidOKStep, AnswerOKStep, VerdictFromChannelStep, PendingStep,
   ProvenanceStep, AutoNeedsConsentStep DEF IInv

\* A verdict taken from a channel was said by the user under the same id.
LEMMA VerdictSaid == IInv => VerdictIsTheUsers
BY DEF IInv, TypeOK, AnswerOK, VerdictFromChannel, VerdictIsTheUsers, Asked, Reqs

-----------------------------------------------------------------------------
(* The theorems *)

\* The inductive invariant holds in every behaviour of the round trip.
THEOREM Inductive == Spec => []IInv
BY InitIInv, NextIInv, PTL DEF Spec

\* Requests, channels, grants and dialogs keep their types.
THEOREM TypeCorrect == Spec => []TypeOK
<1>1. IInv => TypeOK
  BY DEF IInv
<1>2. QED
  BY <1>1, Inductive, PTL

\* An operation is approved only by an answer that allows it, and denied only by
\* one that denies it, given in a dialog with the id of the request: of the
\* handlers of app_approval.go, whatever the order of events, answers and the
\* shutdown.
THEOREM UserDecides == Spec => []VerdictIsTheUsers
BY Inductive, VerdictSaid, PTL

\* No session is approved, and no request skips its dialog, unless the user
\* allowed a grant of the session or chose to remember one of its requests; and
\* the target and the command of a request that skips it were asked for by
\* requests of that session which did go through the app.
THEOREM NoGrantUnasked == Spec => []AutoNeedsConsent
<1>1. IInv => AutoNeedsConsent
  BY DEF IInv
<1>2. QED
  BY <1>1, Inductive, PTL

\* An id in pendingOpsctlApprovals leads to a handler that has yet to delete it,
\* and a waiting single or batch request can be reached.
THEOREM AnswersReachHandlers == Spec => []PendingIsLive
<1>1. IInv => PendingIsLive
  BY DEF IInv
<1>2. QED
  BY <1>1, Inductive, PTL

\* What the user said in a dialog is never replaced: a second event, a second
\* dialog with the same id or a late call cannot answer it again.
THEOREM AnsweredForGood ==
  Spec => [][\A d \in Asked : said[d].decision # "none" => said'[d] = said[d]]_vars
<1>1. IInv /\ [Next]_vars => [\A d \in Asked : said[d].decision # "none" => said'[d] = said[d]]_vars
  BY SaidStep DEF IInv
<1>2. QED
  BY <1>1, Inductive, PTL DEF Spec
=============================================================================
