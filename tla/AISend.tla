------------------------------- MODULE AISend -------------------------------
(***************************************************************************)
(* One AI conversation, in the webview (_sendForConversation, the stream    *)
(* listener and replayConversation of aiStore.ts) and in the app            *)
(* (SendAIMessage, StopAIGeneration, DeleteConversation and the provider    *)
(* switch of app_ai.go, with the runners map and stopEntry they share).     *)
(*                                                                          *)
(* A send is identified with its runnerEntry and the turn its runner runs.  *)
(* Of the stream only the event that ends it is kept: its name is that of   *)
(* the conversation and it does not say which send it belongs to.  Messages *)
(* queued into a running turn, and a second replay during the first, are    *)
(* left out.                                                                *)
(***************************************************************************)
EXTENDS Integers, Sequences

CONSTANTS Sends,     \* SendAIMessage calls
          Stops,     \* StopAIGeneration or DeleteConversation calls
          Switches,  \* activateProvider calls
          None

Callers == Sends \cup Stops \cup Switches

ASSUME SendAssumption == /\ Sends \cap Stops = {} /\ Sends \cap Switches = {}
                         /\ Stops \cap Switches = {}
                         /\ None \notin Callers

VARIABLES
  pc,        \* where a call is
  victim,    \* the entry it took out of the map and stops
  runner,    \* a.runners of the conversation: the send of its entry, or None
  turn,      \* the runner of a send: "none", "running", "over" (entry.done closed)
  cancelled, \* its turn has been cancelled while running
  closed,    \* its runner, system and caches are closed
  events,    \* end events on their way to the webview: the send of each
  sending,   \* conversationStreaming.sending
  listening, \* a listener is registered and of the current generation
  replay,    \* the Stop a replay awaits, or None
  replayed   \* history: whether the user has edited or regenerated anything

callVars == <<pc, victim>>
entryVars == <<turn, cancelled, closed>>
uiVars == <<sending, listening, replay>>
vars == <<callVars, runner, entryVars, events, uiVars, replayed>>

TypeOK ==
  /\ pc \in [Callers -> {"idle", "take", "drop", "cancel", "wait", "close", "build",
                         "start", "undo", "failed", "rejected", "returned"}]
  /\ victim \in [Callers -> Sends \cup {None}]
  /\ runner \in Sends \cup {None}
  /\ turn \in [Sends -> {"none", "running", "over"}]
  /\ cancelled \in [Sends -> BOOLEAN] /\ closed \in [Sends -> BOOLEAN]
  /\ events \in Seq(Sends)
  /\ sending \in BOOLEAN /\ listening \in BOOLEAN
  /\ replay \in Stops \cup {None} /\ replayed \in BOOLEAN

Init ==
  /\ pc = [x \in Callers |-> "idle"]
  /\ victim = [x \in Callers |-> None]
  /\ runner = None
  /\ turn = [s \in Sends |-> "none"]
  /\ cancelled = [s \in Sends |-> FALSE] /\ closed = [s \in Sends |-> FALSE]
  /\ events = <<>>
  /\ sending = FALSE /\ listening = FALSE /\ replay = None /\ replayed = FALSE

Goto(x, l) == pc' = [pc EXCEPT ![x] = l]

-----------------------------------------------------------------------------
(* The webview *)

\* _sendForConversation on an idle conversation: flag, listener, call.
Issue(s) ==
  /\ pc[s] = "idle"
  /\ sending' = TRUE /\ listening' = TRUE
  /\ Goto(s, "take")

\* Mutant: a send does not look at the flag.
UserSendAnyway(s) ==
  /\ Issue(s)
  /\ UNCHANGED <<victim, runner, entryVars, events, replay, replayed>>

\* While a send is under way the text is queued instead.
UserSend(s) ==
  /\ ~sending
  /\ Issue(s)
  /\ UNCHANGED <<victim, runner, entryVars, events, replay, replayed>>

UserStop(t) ==
  /\ pc[t] = "idle"
  /\ Goto(t, "take")
  /\ UNCHANGED <<victim, runner, entryVars, events, uiVars, replayed>>

UserSwitch(w) ==
  /\ pc[w] = "idle"
  /\ Goto(w, "take")
  /\ UNCHANGED <<victim, runner, entryVars, events, uiVars, replayed>>

\* replayConversation: the listener and the flag go first, then Stop is awaited.
Replay(t) ==
  /\ sending /\ replay = None /\ pc[t] = "idle"
  /\ sending' = FALSE /\ listening' = FALSE
  /\ replay' = t /\ replayed' = TRUE
  /\ Goto(t, "take")
  /\ UNCHANGED <<victim, runner, entryVars, events>>

\* Once Stop has returned the transcript and the flag are reset, whatever was
\* sent during the wait, and the new branch is sent.  What the app emitted before
\* Stop returned arrives before its result; an event emitted after the return
\* is as well emitted after this step.
ReplaySend(s) ==
  /\ replay # None /\ pc[replay] = "returned" /\ events = <<>>
  /\ replay' = None
  /\ Issue(s)
  /\ UNCHANGED <<victim, runner, entryVars, events, replayed>>

\* done, stopped or error: the listener clears the flag.
Deliver ==
  /\ events # <<>>
  /\ events' = Tail(events)
  /\ sending' = IF listening THEN FALSE ELSE sending
  /\ UNCHANGED <<callVars, runner, entryVars, listening, replay, replayed>>

\* SendAIMessage rejected, after its event: the flag and the listener of the
\* conversation go.
Rejected(s) ==
  /\ pc[s] = "failed" /\ \A i \in DOMAIN events : events[i] # s
  /\ sending' = FALSE /\ listening' = FALSE
  /\ Goto(s, "rejected")
  /\ UNCHANGED <<victim, runner, entryVars, events, replay, replayed>>

-----------------------------------------------------------------------------
(* The app: taking an entry and stopping it *)

AfterStop(x) == IF x \in Sends THEN "build" ELSE "returned"

\* LoadAndDelete; resetRunners reads the entry in a Range and deletes the key
\* afterwards.  The place of a switch is that of its stopEntry goroutine, for
\* which resetRunners itself waits three seconds at most.
Take(x) ==
  /\ pc[x] = "take"
  /\ victim' = [victim EXCEPT ![x] = runner]
  /\ runner' = IF x \in Switches THEN runner ELSE None
  /\ Goto(x, IF runner = None THEN AfterStop(x) ELSE IF x \in Switches THEN "drop" ELSE "cancel")
  /\ UNCHANGED <<entryVars, events, uiVars, replayed>>

Drop(x) ==
  /\ pc[x] = "drop"
  /\ runner' = None
  /\ Goto(x, "cancel")
  /\ UNCHANGED <<victim, entryVars, events, uiVars, replayed>>

\* stopEntry.  Cancel acts on a turn that runs.
Cancel(x) ==
  /\ pc[x] = "cancel"
  /\ cancelled' = [cancelled EXCEPT ![victim[x]] = @ \/ turn[victim[x]] = "running"]
  /\ Goto(x, "wait")
  /\ UNCHANGED <<victim, runner, turn, closed, events, uiVars, replayed>>

\* Mutant: no timer beside entry.done.
AwaitDone(x) ==
  /\ pc[x] = "wait" /\ turn[victim[x]] = "over"
  /\ Goto(x, "close")
  /\ UNCHANGED <<victim, runner, entryVars, events, uiVars, replayed>>

\* entry.done or three seconds, whichever is first.
Await(x) ==
  /\ pc[x] = "wait"
  /\ Goto(x, "close")
  /\ UNCHANGED <<victim, runner, entryVars, events, uiVars, replayed>>

\* Mutant: the runner is left open once the wait is over.
CloseNothing(x) ==
  /\ pc[x] = "close"
  /\ Goto(x, AfterStop(x))
  /\ UNCHANGED <<victim, runner, entryVars, events, uiVars, replayed>>

Close(x) ==
  /\ pc[x] = "close"
  /\ closed' = [closed EXCEPT ![victim[x]] = TRUE]
  /\ Goto(x, AfterStop(x))
  /\ UNCHANGED <<victim, runner, turn, cancelled, events, uiVars, replayed>>

-----------------------------------------------------------------------------
(* The app: building and starting the turn of a send *)

\* A failure is told twice, by an event and by the result of the call.
BuildFails(s) ==
  /\ pc[s] = "build"
  /\ events' = Append(events, s)
  /\ Goto(s, "failed")
  /\ UNCHANGED <<victim, runner, entryVars, uiVars, replayed>>

\* The system has been built; the new entry takes the key, whatever it holds.
Store(s) ==
  /\ pc[s] = "build"
  /\ runner' = s
  /\ Goto(s, "start")
  /\ UNCHANGED <<victim, entryVars, events, uiVars, replayed>>

StartTurn(s) ==
  /\ pc[s] = "start" /\ ~closed[s]
  /\ turn' = [turn EXCEPT ![s] = "running"]
  /\ Goto(s, "returned")
  /\ UNCHANGED <<victim, runner, cancelled, closed, events, uiVars, replayed>>

\* runner.Send may fail, and does on a closed runner; the error path deletes the
\* entry of the conversation, whichever it is.
StartFails(s) ==
  /\ pc[s] = "start"
  /\ turn' = [turn EXCEPT ![s] = "over"]
  /\ Goto(s, "undo")
  /\ UNCHANGED <<victim, runner, cancelled, closed, events, uiVars, replayed>>

Undo(s) ==
  /\ pc[s] = "undo"
  /\ runner' = None
  /\ closed' = [closed EXCEPT ![s] = TRUE]
  /\ events' = Append(events, s)
  /\ Goto(s, "failed")
  /\ UNCHANGED <<victim, turn, cancelled, uiVars, replayed>>

\* The turn ends by itself, or because it was cancelled or its runner closed; the
\* consumer forwards the last event and closes entry.done.
TurnEnds(s) ==
  /\ turn[s] = "running"
  /\ turn' = [turn EXCEPT ![s] = "over"]
  /\ events' = Append(events, s)
  /\ UNCHANGED <<callVars, runner, cancelled, closed, uiVars, replayed>>

-----------------------------------------------------------------------------
CallStep(x) == Take(x) \/ Drop(x) \/ Cancel(x) \/ Await(x) \/ Close(x)
SendStep(s) == BuildFails(s) \/ Store(s) \/ StartTurn(s) \/ StartFails(s) \/ Undo(s)

Next ==
  \/ \E s \in Sends : UserSend(s) \/ ReplaySend(s) \/ Rejected(s) \/ SendStep(s) \/ TurnEnds(s)
  \/ \E t \in Stops : UserStop(t) \/ Replay(t)
  \/ \E w \in Switches : UserSwitch(w)
  \/ \E x \in Callers : CallStep(x)
  \/ Deliver

\* Calls run and timers fire; a turn ends once it is cancelled or its runner is
\* closed; events arrive.  The user does nothing by obligation, and a turn left
\* alone may go on.
Fairness ==
  /\ \A x \in Callers : WF_vars(CallStep(x))
  /\ \A s \in Sends : /\ WF_vars(SendStep(s))
                      /\ WF_vars((cancelled[s] \/ closed[s]) /\ TurnEnds(s))
  /\ WF_vars(Deliver)

Spec == Init /\ [][Next]_vars /\ Fairness

-----------------------------------------------------------------------------
(* What holds *)

Live(s) == turn[s] = "running" /\ ~cancelled[s] /\ ~closed[s]

Failing(s) == pc[s] \in {"undo", "failed", "rejected"}

\* As long as nothing is replayed, no send fails and the provider stays, the flag
\* of the webview is enough: one turn runs at a time, and it is under the
\* conversation's key, where Stop finds it, or a caller is already stopping it.
\* (A failure is told by an event and by a rejection; a send issued between the
\* two loses its flag.  A switch may delete the key of a newer entry.)
OneTurn ==
  ~replayed /\ (\A s \in Sends : ~Failing(s)) /\ (\A w \in Switches : pc[w] = "idle") =>
    /\ \A s1, s2 \in Sends : Live(s1) /\ Live(s2) => s1 = s2
    /\ \A s \in Sends : Live(s) => runner = s \/ \E x \in Callers : victim[x] = s

\* Send, Stop and a provider switch return, even when a turn ignores its
\* cancellation.
CallsReturn == \A x \in Callers : pc[x] # "idle" ~> pc[x] \in {"returned", "failed", "rejected"}

\* A turn that a caller has set out to stop ends, whether its runner was still
\* to be started or already running.
TakenTurnsEnd == \A s \in Sends : (\E x \in Callers : victim[x] = s) ~> turn[s] = "over"

-----------------------------------------------------------------------------
(* The inductive invariant of OneTurn: the flag belongs to one send at a time *)

\* What OneTurn presupposes; once broken it stays broken.
Undisturbed ==
  ~replayed /\ (\A s \in Sends : ~Failing(s)) /\ (\A w \in Switches : pc[w] = "idle")

\* A send has the flag from its issue until its last event has been delivered: while
\* its call is under way, then while its turn runs, then while the event travels.
Calling(s) == pc[s] \in {"take", "cancel", "wait", "close", "build", "start"}
Announced(s) == \E i \in DOMAIN events : events[i] = s
Active(s) == Calling(s) \/ turn[s] = "running" \/ Announced(s)

\* It goes through the three one after the other.
InOrder ==
  \A s \in Sends : /\ turn[s] # "none" => pc[s] = "returned"
                   /\ Announced(s) => turn[s] = "over"

\* The flag is up for an active send, and nobody else is active.
FlagTaken ==
  /\ \A s \in Sends : Active(s) => sending
  /\ \A s1, s2 \in Sends : (Active(s1) /\ Active(s2)) => s1 = s2
  /\ Len(events) <= 1

\* Its entry is where Stop finds it, or with the caller that took it out of the map.
Reachable ==
  \A s \in Sends : (pc[s] = "start" \/ turn[s] = "running") =>
    runner = s \/ \E x \in Callers : victim[x] = s

\* A call has looked at the map before it has a victim; only a switch deletes in a
\* step of its own.
LocalsOK ==
  \A x \in Callers : /\ pc[x] \in {"idle", "take"} => victim[x] = None
                     /\ pc[x] = "drop" => x \in Switches
ReplayKnown == replay # None => replayed

IInv == /\ TypeOK
        /\ LocalsOK
        /\ ReplayKnown
        /\ Undisturbed => (InOrder /\ FlagTaken /\ Reachable)

-----------------------------------------------------------------------------
(* What the comments say, and the code does not keep *)

\* app_ai.go: each send replaces the entry, "an old entry, if any, is cancelled
\* and released first": no turn runs outside the map with nobody stopping it.
OldEntryReleased ==
  \A s \in Sends : Live(s) => runner = s \/ \E x \in Callers : victim[x] = s
=============================================================================
