---------------------------- MODULE AISendProofs ----------------------------
(***************************************************************************)
(* Theorems about AISend for any number of sends, stops and switches.  The *)
(* webview's flag is the only thing that keeps sends apart: the invariant  *)
(* says which send has it, at each stage of the send's life.               *)
(***************************************************************************)
EXTENDS AISend, TLAPS

\* Every action keeps the types.
LEMMA TypeStep == TypeOK /\ [Next]_vars => TypeOK'
<1> SUFFICES ASSUME TypeOK, [Next]_vars PROVE TypeOK'
  OBVIOUS
<1> USE SendAssumption
    DEF TypeOK, Callers, Goto, callVars, entryVars, uiVars, Issue, AfterStop
<1>1. ASSUME NEW s \in Sends, UserSend(s) \/ ReplaySend(s) \/ Rejected(s) PROVE TypeOK'
  <2>1. events' = events
    BY <1>1 DEF UserSend, ReplaySend, Rejected
  <2>2. CASE UserSend(s) \/ ReplaySend(s)
    BY <2>2 DEF UserSend, ReplaySend
  <2>3. CASE Rejected(s)
    BY <2>1, <2>3 DEF Rejected
  <2>4. QED
    BY <1>1, <2>2, <2>3
<1>2. ASSUME NEW s \in Sends, SendStep(s) \/ TurnEnds(s) PROVE TypeOK'
  <2>1. CASE BuildFails(s)
    BY <2>1 DEF BuildFails
  <2>2. CASE Store(s) \/ StartTurn(s) \/ StartFails(s)
    BY <2>2 DEF Store, StartTurn, StartFails
  <2>3. CASE Undo(s)
    BY <2>3 DEF Undo
  <2>4. CASE TurnEnds(s)
    BY <2>4 DEF TurnEnds
  <2>5. QED
    BY <1>2, <2>1, <2>2, <2>3, <2>4 DEF SendStep
<1>3. ASSUME NEW t \in Stops, UserStop(t) \/ Replay(t) PROVE TypeOK'
  BY <1>3 DEF UserStop, Replay
<1>4. ASSUME NEW w \in Switches, UserSwitch(w) PROVE TypeOK'
  BY <1>4 DEF UserSwitch
<1>5. ASSUME NEW x \in Callers, CallStep(x) PROVE TypeOK'
  <2>1. CASE Take(x) \/ Drop(x)
    BY <2>1 DEF Take, Drop
  <2>2. CASE Cancel(x) \/ Await(x) \/ Close(x)
    BY <2>2 DEF Cancel, Await, Close
  <2>3. QED
    BY <1>5, <2>1, <2>2 DEF CallStep
<1>6. CASE Deliver
  <2>1. events' \in Seq(Sends)
    BY <1>6 DEF Deliver
  <2>2. sending' \in BOOLEAN
    BY <1>6, Zenon DEF Deliver
  <2>3. QED
    BY <1>6, <2>1, <2>2 DEF Deliver
<1>7. CASE UNCHANGED vars
  BY <1>7 DEF vars
<1>8. QED
  BY <1>1, <1>2, <1>3, <1>4, <1>5, <1>6, <1>7 DEF Next

\* Every action keeps what a call's place says of it.
LEMMA LocalsStep == TypeOK /\ LocalsOK /\ [Next]_vars => LocalsOK'
<1> SUFFICES ASSUME TypeOK, LocalsOK, [Next]_vars PROVE LocalsOK'
  OBVIOUS
<1> USE DEF TypeOK, LocalsOK, Callers, Goto, callVars, Issue, AfterStop
<1>1. ASSUME NEW s \in Sends, UserSend(s) \/ ReplaySend(s) \/ Rejected(s) PROVE LocalsOK'
  BY <1>1 DEF UserSend, ReplaySend, Rejected
<1>2. ASSUME NEW s \in Sends, SendStep(s) \/ TurnEnds(s) PROVE LocalsOK'
  BY <1>2 DEF SendStep, TurnEnds, BuildFails, Store, StartTurn, StartFails, Undo
<1>3. ASSUME NEW t \in Stops, UserStop(t) \/ Replay(t) PROVE LocalsOK'
  BY <1>3 DEF UserStop, Replay
<1>4. ASSUME NEW w \in Switches, UserSwitch(w) PROVE LocalsOK'
  BY <1>4 DEF UserSwitch
<1>5. ASSUME NEW x \in Callers, CallStep(x) PROVE LocalsOK'
  BY <1>5 DEF CallStep, Take, Drop, Cancel, Await, Close
<1>6. CASE Deliver
  BY <1>6 DEF Deliver
<1>7. CASE UNCHANGED vars
  BY <1>7 DEF vars
<1>8. QED
  BY <1>1, <1>2, <1>3, <1>4, <1>5, <1>6, <1>7 DEF Next

\* Every action leaves it on record that a replay awaits its Stop.
LEMMA ReplayStep == ReplayKnown /\ [Next]_vars => ReplayKnown'
BY DEF ReplayKnown, Next, vars, callVars, entryVars, uiVars, Issue, UserSend, ReplaySend, Rejected, SendStep,
       TurnEnds, BuildFails, Store, StartTurn, StartFails, Undo, UserStop, Replay, UserSwitch,
       CallStep, Take, Drop, Cancel, Await, Close, Deliver

\* What OneTurn presupposes is not restored by any action.
LEMMA Disturbs == TypeOK /\ [Next]_vars /\ Undisturbed' => Undisturbed
<1> SUFFICES ASSUME TypeOK, [Next]_vars, ~Undisturbed PROVE ~Undisturbed'
  OBVIOUS
<1> USE SendAssumption
    DEF TypeOK, Undisturbed, Failing, Callers, Goto, callVars, entryVars, uiVars, Issue, AfterStop
<1>1. ASSUME NEW s \in Sends, UserSend(s) \/ ReplaySend(s) \/ Rejected(s) PROVE ~Undisturbed'
  BY <1>1 DEF UserSend, ReplaySend, Rejected
<1>2. ASSUME NEW s \in Sends, SendStep(s) \/ TurnEnds(s) PROVE ~Undisturbed'
  BY <1>2 DEF SendStep, TurnEnds, BuildFails, Store, StartTurn, StartFails, Undo
<1>3. ASSUME NEW t \in Stops, UserStop(t) \/ Replay(t) PROVE ~Undisturbed'
  BY <1>3 DEF UserStop, Replay
<1>4. ASSUME NEW w \in Switches, UserSwitch(w) PROVE ~Undisturbed'
  BY <1>4 DEF UserSwitch
<1>5. ASSUME NEW x \in Callers, CallStep(x) PROVE ~Undisturbed'
  BY <1>5 DEF CallStep, Take, Drop, Cancel, Await, Close
<1>6. CASE Deliver
  BY <1>6 DEF Deliver
<1>7. CASE UNCHANGED vars
  BY <1>7 DEF vars
<1>8. QED
  BY <1>1, <1>2, <1>3, <1>4, <1>5, <1>6, <1>7 DEF Next

\* An event that is emitted is the one announcement more, or the only one.
LEMMA Emitted ==
  ASSUME TypeOK, NEW s \in Sends, events' = Append(events, s)
  PROVE  /\ Len(events)' = Len(events) + 1
         /\ \A q \in Sends : Announced(q)' <=> Announced(q) \/ q = s
<1>1. events \in Seq(Sends)
  BY DEF TypeOK
<1>2. /\ Len(events') = Len(events) + 1 /\ Len(events) \in Nat
      /\ DOMAIN events = 1..Len(events) /\ DOMAIN events' = 1..Len(events')
      /\ events'[Len(events) + 1] = s
      /\ \A i \in 1..Len(events) : events'[i] = events[i]
  BY <1>1
<1>3. QED
  BY <1>2 DEF Announced

\* A step that moves no send between the stages of its life and leaves the flag.
LEMMA Quiet ==
  ASSUME InOrder, FlagTaken, events' = events, sending' = sending, turn' = turn,
         \A q \in Sends : /\ Calling(q)' => Calling(q)
                          /\ turn[q] # "none" => pc'[q] = pc[q]
  PROVE  InOrder' /\ FlagTaken'
<1>1. \A q \in Sends : Announced(q)' <=> Announced(q)
  BY DEF Announced
<1>2. QED
  BY <1>1 DEF InOrder, FlagTaken, Active

\* Every action keeps the flag with the one send that is active.
LEMMA FlagStep ==
  ASSUME TypeOK, LocalsOK, ReplayKnown, Undisturbed, Undisturbed', InOrder, FlagTaken, [Next]_vars
  PROVE  InOrder' /\ FlagTaken'
<1> USE SendAssumption
    DEF TypeOK, Callers, Goto, callVars, entryVars, uiVars, AfterStop, Calling
<1>1. ASSUME NEW s \in Sends, UserSend(s) PROVE InOrder' /\ FlagTaken'
  <2>1. \A q \in Sends : ~Active(q)
    BY <1>1 DEF UserSend, FlagTaken
  <2>2. \A q \in Sends : Announced(q)' <=> Announced(q)
    BY <1>1 DEF UserSend, Announced
  <2>3. QED
    BY <1>1, <2>1, <2>2 DEF UserSend, Issue, InOrder, FlagTaken, Active
<1>2. ASSUME NEW s \in Sends, ReplaySend(s) \/ Rejected(s) \/ BuildFails(s) \/ StartFails(s) \/ Undo(s)
      PROVE  FALSE
  BY <1>2 DEF ReplaySend, Rejected, BuildFails, StartFails, Undo, Issue, ReplayKnown, Undisturbed, Failing
<1>3. ASSUME NEW s \in Sends, Store(s) PROVE InOrder' /\ FlagTaken'
  BY <1>3, Quiet DEF Store, InOrder
<1>4. ASSUME NEW s \in Sends, StartTurn(s) PROVE InOrder' /\ FlagTaken'
  <2>1. \A q \in Sends : Announced(q)' <=> Announced(q)
    BY <1>4 DEF StartTurn, Announced
  <2>2. pc[s] = "start" /\ turn[s] = "none" /\ ~Announced(s) /\ Active(s)
    BY <1>4 DEF StartTurn, InOrder, Active
  <2>3. \A q \in Sends : Active(q)' => Active(q)
    BY <1>4, <2>1, <2>2 DEF StartTurn, Active
  <2>4. QED
    BY <1>4, <2>1, <2>2, <2>3 DEF StartTurn, InOrder, FlagTaken
<1>5. ASSUME NEW s \in Sends, TurnEnds(s) PROVE InOrder' /\ FlagTaken'
  <2>1. Active(s) /\ ~Announced(s) /\ pc[s] = "returned"
    BY <1>5 DEF TurnEnds, Active, InOrder
  <2>2. Len(events) = 0
    <3>1. Len(events) # 1
      <4>1. Len(events) = 1 => events[1] \in Sends /\ Announced(events[1])
        BY DEF Announced
      <4>2. QED
        BY <2>1, <4>1, Zenon DEF FlagTaken, Active
    <3>2. Len(events) \in Nat /\ Len(events) <= 1
      BY DEF FlagTaken
    <3>3. \A n \in Nat : n <= 1 /\ n # 1 => n = 0
      OBVIOUS
    <3>4. QED
      BY <3>1, <3>2, <3>3, Zenon
  <2>3. /\ Len(events)' = Len(events) + 1
        /\ \A q \in Sends : Announced(q)' <=> Announced(q) \/ q = s
    BY <1>5, Emitted DEF TurnEnds
  <2>4. \A q \in Sends : Active(q)' => Active(q)
    BY <1>5, <2>1, <2>3 DEF TurnEnds, Active
  <2>5. QED
    BY <1>5, <2>1, <2>2, <2>3, <2>4 DEF TurnEnds, InOrder, FlagTaken
<1>6. ASSUME NEW t \in Stops, UserStop(t) PROVE InOrder' /\ FlagTaken'
  BY <1>6, Quiet DEF UserStop
<1>7. ASSUME NEW t \in Stops, Replay(t) PROVE FALSE
  BY <1>7 DEF Replay, Undisturbed
<1>8. ASSUME NEW w \in Switches, UserSwitch(w) PROVE FALSE
  BY <1>8 DEF UserSwitch, Undisturbed
<1>9. ASSUME NEW x \in Callers, CallStep(x) PROVE InOrder' /\ FlagTaken'
  <2>1. /\ UNCHANGED <<events, sending, turn>>
        /\ pc[x] \in {"take", "cancel", "wait", "close"}
        /\ \E l \in {"drop", "cancel", "wait", "close", "build", "returned"} : pc' = [pc EXCEPT ![x] = l]
    BY <1>9 DEF CallStep, Take, Drop, Cancel, Await, Close, LocalsOK, Undisturbed
  <2>2. QED
    BY <2>1, Quiet DEF InOrder
<1>10. CASE Deliver
  <2>1. events' = <<>>
    BY <1>10 DEF Deliver, FlagTaken
  <2>2. \A q \in Sends : ~Announced(q)'
    BY <2>1 DEF Announced
  <2>3. events[1] \in Sends /\ Announced(events[1])
    BY <1>10 DEF Deliver, Announced
  <2>4. \A q \in Sends : ~Active(q)'
    BY <1>10, <2>2, <2>3 DEF Deliver, FlagTaken, InOrder, Active
  <2>5. QED
    BY <1>10, <2>1, <2>2, <2>4 DEF Deliver, InOrder, FlagTaken
<1>11. CASE UNCHANGED vars
  BY <1>11, Quiet DEF vars
<1>12. QED
  BY <1>1, <1>2, <1>3, <1>4, <1>5, <1>6, <1>7, <1>8, <1>9, <1>10, <1>11 DEF Next, SendStep

\* Every action leaves the active send's turn where Stop finds it, or being stopped.
LEMMA ReachStep ==
  ASSUME TypeOK, LocalsOK, Undisturbed, Undisturbed', InOrder, FlagTaken, Reachable, [Next]_vars
  PROVE  Reachable'
<1> USE SendAssumption
    DEF TypeOK, Callers, Goto, callVars, entryVars, uiVars, AfterStop
<1> DEFINE Kept == /\ \A q \in Sends : (pc'[q] = "start" \/ turn'[q] = "running")
                                         => (pc[q] = "start" \/ turn[q] = "running")
                   /\ UNCHANGED <<runner, victim>>
<1>1. ASSUME Kept PROVE Reachable'
  BY <1>1 DEF Reachable
<1>2. ASSUME NEW s \in Sends, UserSend(s) \/ ReplaySend(s) \/ Rejected(s) PROVE Kept
  BY <1>2 DEF UserSend, ReplaySend, Rejected, Issue
<1>3. ASSUME NEW s \in Sends, SendStep(s) \/ TurnEnds(s) PROVE Reachable'
  <2>1. CASE BuildFails(s) \/ StartTurn(s) \/ StartFails(s) \/ TurnEnds(s)
    <3>1. Kept
      BY <2>1 DEF BuildFails, StartTurn, StartFails, TurnEnds
    <3>2. QED
      BY <1>1, <3>1
  <2>2. CASE Store(s)
    <3>1. \A q \in Sends \ {s} : pc[q] # "start" /\ turn[q] # "running"
      BY <2>2 DEF Store, FlagTaken, Active, Calling
    <3>2. QED
      BY <2>2, <3>1 DEF Store, Reachable
  <2>3. CASE Undo(s)
    BY <2>3 DEF Undo, Undisturbed, Failing
  <2>4. QED
    BY <1>3, <2>1, <2>2, <2>3 DEF SendStep
<1>4. ASSUME NEW t \in Stops, UserStop(t) \/ Replay(t) PROVE Kept
  BY <1>4 DEF UserStop, Replay
<1>5. ASSUME NEW w \in Switches, UserSwitch(w) PROVE Kept
  BY <1>5 DEF UserSwitch
<1>6. ASSUME NEW x \in Callers, CallStep(x) PROVE Reachable'
  <2>1. CASE Take(x)
    <3>1. victim' = [victim EXCEPT ![x] = runner] /\ victim[x] = None /\ turn' = turn
          /\ \A q \in Sends : pc'[q] = "start" => pc[q] = "start"
      BY <2>1 DEF Take, LocalsOK
    <3>2. \A q \in Sends : (\E y \in Callers : victim[y] = q) => \E y \in Callers : victim'[y] = q
      BY <3>1
    <3>3. \A q \in Sends : runner = q => victim'[x] = q
      BY <3>1
    <3>4. QED
      BY <3>1, <3>2, <3>3 DEF Reachable
  <2>2. CASE Drop(x)
    BY <2>2 DEF Drop, LocalsOK, Undisturbed
  <2>3. CASE Cancel(x) \/ Await(x) \/ Close(x)
    <3>1. Kept
      BY <2>3 DEF Cancel, Await, Close
    <3>2. QED
      BY <1>1, <3>1
  <2>4. QED
    BY <1>6, <2>1, <2>2, <2>3 DEF CallStep
<1>7. CASE Deliver
  <2>1. Kept
    BY <1>7 DEF Deliver
  <2>2. QED
    BY <1>1, <2>1
<1>8. CASE UNCHANGED vars
  <2>1. Kept
    BY <1>8 DEF vars
  <2>2. QED
    BY <1>1, <2>1
<1>9. QED
  BY <1>1, <1>2, <1>3, <1>4, <1>5, <1>6, <1>7, <1>8 DEF Next

\* The inductive invariant: as long as nothing has been replayed, failed or switched, the
\* flag belongs to the one active send, and its turn can be stopped.
THEOREM Inductive == Spec => []IInv
<1>1. Init => IInv
  <2> SUFFICES ASSUME Init PROVE IInv
    OBVIOUS
  <2>1. TypeOK /\ LocalsOK /\ ReplayKnown
    <3>1. TypeOK
      <4>1. events \in Seq(Sends)
        BY DEF Init
      <4>2. QED
        BY <4>1, Zenon DEF Init, TypeOK
    <3>2. LocalsOK
      BY DEF Init, LocalsOK
    <3>3. ReplayKnown
      BY DEF Init, ReplayKnown
    <3>4. QED
      BY <3>1, <3>2, <3>3
  <2>2. \A s \in Sends : pc[s] = "idle" /\ turn[s] = "none"
    BY DEF Init, Callers
  <2>3. events = <<>>
    BY DEF Init
  <2>4. QED
    BY <2>1, <2>2, <2>3 DEF IInv, InOrder, FlagTaken, Reachable, Active, Calling, Announced
<1>2. IInv /\ [Next]_vars => IInv'
  <2> SUFFICES ASSUME IInv, [Next]_vars PROVE IInv'
    OBVIOUS
  <2>1. TypeOK' /\ LocalsOK' /\ ReplayKnown'
    BY TypeStep, LocalsStep, ReplayStep DEF IInv
  <2>2. ASSUME Undisturbed' PROVE InOrder' /\ FlagTaken' /\ Reachable'
    <3>1. Undisturbed /\ InOrder /\ FlagTaken /\ Reachable
      BY <2>2, Disturbs DEF IInv
    <3>2. QED
      BY <2>2, <3>1, FlagStep, ReachStep DEF IInv
  <2>3. QED
    BY <2>1, <2>2 DEF IInv
<1>3. QED
  BY <1>1, <1>2, PTL DEF Spec

\* The variables keep their types.
THEOREM TypeCorrect == Spec => []TypeOK
BY Inductive, PTL DEF IInv

\* As long as nothing is replayed, no send fails and the provider stays, one turn runs
\* at a time, under the conversation's key or in the hands of a call that stops it.
THEOREM OneTurnOnly == Spec => []OneTurn
<1>1. IInv => OneTurn
  BY DEF IInv, OneTurn, Undisturbed, FlagTaken, Active, Reachable, Live
<1>2. QED
  BY Inductive, <1>1, PTL
=============================================================================
