------------------------------ MODULE Approval ------------------------------
(***************************************************************************)
(* The round trip of an approval: an opsctl process checks the grants in   *)
(* the database, connects to the desktop app's socket and blocks; the      *)
(* app's handler raises an event, the dialog queues it, the user answers,  *)
(* RespondOpsctlApproval hands the answer to the handler through a         *)
(* buffered channel found in pendingOpsctlApprovals, and the handler       *)
(* writes the outcome to the grant tables.                                 *)
(*                                                                         *)
(* A grant item is what it covers, [asset, command]; how a pattern matches *)
(* a command is left to equality.  Each request asks for one item.  A      *)
(* database statement is one action; the failure of one that follows the   *)
(* answer, which the code logs and ignores, is left out.                   *)
(***************************************************************************)
EXTENDS Sequences, FiniteSets

CONSTANTS Singles, Batches, Grants, Tools,  \* requests by type; Tools are ext_tool
          Sessions, Assets, Commands,
          sessionOf, assetOf, commandOf,    \* what each request carries
          None

Reqs == Singles \cup Batches \cup Grants \cup Tools
Asked == Singles \cup Batches \cup Grants   \* the requests that raise a dialog
Items == [asset : Assets, command : Commands]

ASSUME ApprovalAssumption ==
  /\ Singles \cap Batches = {} /\ Grants \cap (Singles \cup Batches) = {}
  /\ Tools \cap Asked = {}
  /\ sessionOf \in [Reqs -> Sessions]
  /\ assetOf \in [Reqs -> Assets]
  /\ commandOf \in [Reqs -> Commands]
  /\ None \notin Reqs /\ Sessions \cap Reqs = {}

VARIABLES
  pc,       \* where a request is, first in opsctl, then in its handler
  verdict,  \* how it ended for opsctl
  pending,  \* pendingOpsctlApprovals: whose channel an id leads to
  chan,     \* the one-place channel of a handler: the dialog answered, or None
  status,   \* grant_sessions.status, or "absent"
  items,    \* grant_items of a session
  events,   \* events on their way to the webview, in order
  queue,    \* the dialogs of OpsctlApprovalDialog; the first is shown
  edits,    \* editState of a session: the request whose commands it holds
  said,     \* the user's answer in a dialog: decision and edited items
  calls,    \* dialogs whose RespondOpsctlApproval call has not run yet
  app       \* "running", "shutdown" (shutdownCh closed), "stopping", "stopped"

dbVars == <<status, items>>
uiVars == <<events, queue, edits, said, calls>>
vars == <<pc, verdict, pending, chan, dbVars, uiVars, app>>

PCs == {"idle", "connect", "decode", "session", "create", "emit", "store", "wait", "tool",
        "ensure", "save", "status", "wipe", "refill", "delete", "done"}
Decisions == {"none", "allow", "allowAll", "deny"}

\* A grant is known to the map and to the dialog by its session id; the
\* confirm id of any other request is its own.
Key(r) == IF r \in Grants THEN sessionOf[r] ELSE r

TypeOK ==
  /\ pc \in [Reqs -> PCs]
  /\ verdict \in [Reqs -> {"none", "auto", "approved", "denied", "shutdown", "offline", "failed"}]
  /\ pending \in [Reqs \cup Sessions -> Asked \cup {None}]
  /\ chan \in [Reqs -> Asked \cup {None}]
  /\ status \in [Sessions -> {"absent", "pending", "approved", "rejected"}]
  /\ items \in [Sessions -> SUBSET Items]
  /\ events \in Seq(Asked)
  /\ queue \in Seq(Asked)
  /\ edits \in [Sessions -> Grants \cup {None}]
  /\ said \in [Reqs -> [decision : Decisions, rows : SUBSET Items]]
  /\ calls \in SUBSET Asked
  /\ app \in {"running", "shutdown", "stopping", "stopped"}

Init ==
  /\ pc = [r \in Reqs |-> "idle"]
  /\ verdict = [r \in Reqs |-> "none"]
  /\ pending = [k \in Reqs \cup Sessions |-> None]
  /\ chan = [r \in Reqs |-> None]
  /\ status = [s \in Sessions |-> "absent"]
  /\ items = [s \in Sessions |-> {}]
  /\ events = <<>> /\ queue = <<>>
  /\ edits = [s \in Sessions |-> None]
  /\ said = [r \in Reqs |-> [decision |-> "none", rows |-> {}]]
  /\ calls = {}
  /\ app = "running"

Goto(r, l) == pc' = [pc EXCEPT ![r] = l]
Decide(r, v) == verdict' = [verdict EXCEPT ![r] = v]
Item(r) == [asset |-> assetOf[r], command |-> commandOf[r]]

\* ListApprovedItems: what the next permission check of a session matches.
ApprovedItems(s) == IF status[s] = "approved" THEN items[s] ELSE {}

-----------------------------------------------------------------------------
(* opsctl *)

\* requireApproval and the batch pre-check consult the grants first; a grant
\* submission and an extension call do not.
Check(r) ==
  /\ pc[r] = "idle"
  /\ IF r \in Singles \cup Batches /\ Item(r) \in ApprovedItems(sessionOf[r])
       THEN Decide(r, "auto") /\ Goto(r, "done")
       ELSE Goto(r, "connect") /\ UNCHANGED verdict
  /\ UNCHANGED <<pending, chan, dbVars, uiVars, app>>

\* Once the listener is closed the dial fails.
Connect(r) ==
  /\ pc[r] = "connect"
  /\ IF app \in {"running", "shutdown"}
       THEN Goto(r, "decode") /\ UNCHANGED verdict
       ELSE Decide(r, "offline") /\ Goto(r, "done")
  /\ UNCHANGED <<pending, chan, dbVars, uiVars, app>>

-----------------------------------------------------------------------------
(* The handler, in the goroutine of handleConn *)

Decode(r) ==
  /\ pc[r] = "decode"
  /\ Goto(r, IF r \in Grants THEN "session" ELSE IF r \in Tools THEN "tool" ELSE "emit")
  /\ UNCHANGED <<verdict, pending, chan, dbVars, uiVars, app>>

\* handleExtToolExec: the plugin call is not cut short by shutdownCh.
ToolReturns(r) ==
  /\ pc[r] = "tool"
  /\ Decide(r, "approved")
  /\ Goto(r, "done")
  /\ UNCHANGED <<pending, chan, dbVars, uiVars, app>>

\* CreateSession fails on an existing id and GetSession then succeeds.
OpenSession(r) ==
  /\ pc[r] = "session"
  /\ status' = [status EXCEPT ![sessionOf[r]] = IF @ = "absent" THEN "pending" ELSE @]
  /\ Goto(r, "create")
  /\ UNCHANGED <<verdict, pending, chan, items, uiVars, app>>

CreateItems(r) ==
  /\ pc[r] = "create"
  /\ items' = [items EXCEPT ![sessionOf[r]] = @ \cup {Item(r)}]
  /\ Goto(r, "emit")
  /\ UNCHANGED <<verdict, pending, chan, status, uiVars, app>>

\* The grant cannot be written down: it is refused without asking.
CreateFails(r) ==
  /\ pc[r] \in {"session", "create"}
  /\ Decide(r, "failed")
  /\ Goto(r, "done")
  /\ UNCHANGED <<pending, chan, dbVars, uiVars, app>>

\* The event leaves before the channel is in the map.
Emit(r) ==
  /\ pc[r] = "emit"
  /\ events' = Append(events, r)
  /\ Goto(r, "store")
  /\ UNCHANGED <<verdict, pending, chan, dbVars, queue, edits, said, calls, app>>

Store(r) ==
  /\ pc[r] = "store"
  /\ pending' = [pending EXCEPT ![Key(r)] = r]
  /\ Goto(r, "wait")
  /\ UNCHANGED <<verdict, chan, dbVars, uiVars, app>>

\* Mutant: a denial is not one of the cases handled.
ReceiveUnlessDenied(r) ==
  /\ pc[r] = "wait" /\ chan[r] # None /\ said[chan[r]].decision # "deny"
  /\ Decide(r, "approved")
  /\ Goto(r, IF r \in Grants THEN "status" ELSE "delete")
  /\ UNCHANGED <<pending, chan, dbVars, uiVars, app>>

\* The select takes the answer, or notices the shutdown; both may be ready.
Receive(r) ==
  /\ pc[r] = "wait" /\ chan[r] # None
  /\ LET answer == said[chan[r]]
     IN /\ Decide(r, IF answer.decision = "deny" THEN "denied" ELSE "approved")
        /\ Goto(r, IF r \in Grants THEN "status"
                   ELSE IF r \in Singles /\ answer.decision = "allowAll" /\ answer.rows # {}
                   THEN "ensure" ELSE "delete")
  /\ UNCHANGED <<pending, chan, dbVars, uiVars, app>>

\* Mutant: handleBatchApproval does not select on shutdownCh.
AbortUnlessBatch(r) ==
  /\ pc[r] = "wait" /\ app # "running" /\ r \notin Batches
  /\ Decide(r, "shutdown")
  /\ Goto(r, IF r \in Grants THEN "status" ELSE "delete")
  /\ UNCHANGED <<pending, chan, dbVars, uiVars, app>>

\* Mutant: shutdownCh falls through to the approval below the select.
AbortApproves(r) ==
  /\ pc[r] = "wait" /\ app # "running"
  /\ Decide(r, "approved")
  /\ Goto(r, "delete")
  /\ UNCHANGED <<pending, chan, dbVars, uiVars, app>>

Abort(r) ==
  /\ pc[r] = "wait" /\ app # "running"
  /\ Decide(r, "shutdown")
  /\ Goto(r, IF r \in Grants THEN "status" ELSE "delete")
  /\ UNCHANGED <<pending, chan, dbVars, uiVars, app>>

\* SaveGrantPattern: create the session if there is none, then add the item.
EnsureSession(r) ==
  /\ pc[r] = "ensure"
  /\ status' = [status EXCEPT ![sessionOf[r]] = IF @ = "absent" THEN "approved" ELSE @]
  /\ Goto(r, "save")
  /\ UNCHANGED <<verdict, pending, chan, items, uiVars, app>>

SavePattern(r) ==
  /\ pc[r] = "save"
  /\ items' = [items EXCEPT ![sessionOf[r]] = @ \cup said[chan[r]].rows]
  /\ Goto(r, "delete")
  /\ UNCHANGED <<verdict, pending, chan, status, uiVars, app>>

\* Mutant: only a denial rejects the session.
SetStatusUnlessDenied(r) ==
  /\ pc[r] = "status"
  /\ status' = [status EXCEPT ![sessionOf[r]] =
                  IF verdict[r] = "denied" THEN "rejected" ELSE "approved"]
  /\ Goto(r, "delete")
  /\ UNCHANGED <<verdict, pending, chan, items, uiVars, app>>

\* UpdateSessionStatus; an approval that carries items then replaces all those
\* of the session, in two statements and no transaction.
SetStatus(r) ==
  /\ pc[r] = "status"
  /\ status' = [status EXCEPT ![sessionOf[r]] =
                  IF verdict[r] = "approved" THEN "approved" ELSE "rejected"]
  /\ Goto(r, IF verdict[r] = "approved" /\ said[chan[r]].rows # {} THEN "wipe" ELSE "delete")
  /\ UNCHANGED <<verdict, pending, chan, items, uiVars, app>>

WipeItems(r) ==
  /\ pc[r] = "wipe"
  /\ items' = [items EXCEPT ![sessionOf[r]] = {}]
  /\ Goto(r, "refill")
  /\ UNCHANGED <<verdict, pending, chan, status, uiVars, app>>

RefillItems(r) ==
  /\ pc[r] = "refill"
  /\ items' = [items EXCEPT ![sessionOf[r]] = @ \cup said[chan[r]].rows]
  /\ Goto(r, "delete")
  /\ UNCHANGED <<verdict, pending, chan, status, uiVars, app>>

\* Mutant: the id stays in the map.
DeleteForgotten(r) ==
  /\ pc[r] = "delete"
  /\ Goto(r, "done")
  /\ UNCHANGED <<verdict, pending, chan, dbVars, uiVars, app>>

\* The deferred Delete removes whatever the id leads to; the response follows.
Delete(r) ==
  /\ pc[r] = "delete"
  /\ pending' = [pending EXCEPT ![Key(r)] = None]
  /\ Goto(r, "done")
  /\ UNCHANGED <<verdict, chan, dbVars, uiVars, app>>

-----------------------------------------------------------------------------
(* OpsctlApprovalDialog and its user *)

\* A dialog whose id is already queued is not queued again, but the commands of
\* a grant replace the edit state of its session all the same.
Show ==
  /\ events # <<>>
  /\ LET r == Head(events)
     IN /\ queue' = IF \E i \in DOMAIN queue : Key(queue[i]) = Key(r)
                      THEN queue ELSE Append(queue, r)
        /\ edits' = IF r \in Grants THEN [edits EXCEPT ![sessionOf[r]] = r] ELSE edits
  /\ events' = Tail(events)
  /\ UNCHANGED <<pc, verdict, pending, chan, dbVars, said, calls, app>>

\* What the dialog of d sends as edited_items if the text is left as it is: the
\* targets it shows, with the commands of the edit state.
Shown(d) ==
  LET e == IF d \in Grants /\ edits[sessionOf[d]] # None THEN edits[sessionOf[d]] ELSE d
  IN [asset |-> assetOf[d], command |-> commandOf[e]]

Choices(d) == IF d \in Singles THEN {"allow", "allowAll", "deny"} ELSE {"allow", "deny"}
SendsItems(d, c) == (d \in Grants /\ c = "allow") \/ (d \in Singles /\ c = "allowAll")

\* The user answers the dialog shown; the text may also have been cleared.
Answer ==
  /\ queue # <<>>
  /\ LET d == Head(queue)
     IN /\ \E c \in Choices(d) :
             \E rows \in IF SendsItems(d, c) THEN {{Shown(d)}, {}} ELSE {{}} :
               said' = [said EXCEPT ![d] = [decision |-> c, rows |-> rows]]
        /\ calls' = calls \cup {d}
        /\ edits' = IF d \in Grants THEN [edits EXCEPT ![sessionOf[d]] = None] ELSE edits
  /\ queue' = Tail(queue)
  /\ UNCHANGED <<pc, verdict, pending, chan, dbVars, events, app>>

\* RespondOpsctlApproval: an id nobody waits on, or a full channel, drops it.
Respond(d) ==
  /\ d \in calls
  /\ calls' = calls \ {d}
  /\ LET h == pending[Key(d)]
     IN chan' = IF h # None /\ chan[h] = None THEN [chan EXCEPT ![h] = d] ELSE chan
  /\ UNCHANGED <<pc, verdict, pending, dbVars, events, queue, edits, said, app>>

-----------------------------------------------------------------------------
(* App.Cleanup: shutdownCh is closed first; much later Server.Stop closes the
   listener and waits for the handlers. *)

CloseShutdownCh ==
  /\ app = "running"
  /\ app' = "shutdown"
  /\ UNCHANGED <<pc, verdict, pending, chan, dbVars, uiVars>>

StopServer ==
  /\ app = "shutdown"
  /\ app' = "stopping"
  /\ UNCHANGED <<pc, verdict, pending, chan, dbVars, uiVars>>

Handled(r) == pc[r] \in {"idle", "connect", "done"}

ServerStopped ==
  /\ app = "stopping"
  /\ \A r \in Reqs : Handled(r)
  /\ app' = "stopped"
  /\ UNCHANGED <<pc, verdict, pending, chan, dbVars, uiVars>>

-----------------------------------------------------------------------------
HandlerStep(r) ==
  \/ OpenSession(r) \/ CreateItems(r) \/ CreateFails(r) \/ Emit(r) \/ Store(r)
  \/ Receive(r) \/ Abort(r) \/ EnsureSession(r) \/ SavePattern(r)
  \/ SetStatus(r) \/ WipeItems(r) \/ RefillItems(r) \/ Delete(r)

Next ==
  \/ \E r \in Reqs : Check(r) \/ Connect(r) \/ Decode(r) \/ HandlerStep(r) \/ ToolReturns(r)
  \/ Show \/ Answer \/ \E d \in Asked : Respond(d)
  \/ CloseShutdownCh \/ StopServer \/ ServerStopped

\* Goroutines and the webview run, a client that has connected sends its
\* request, Cleanup goes on.  Nothing makes a user answer, a plugin return, a
\* process start or the app quit.
Fairness ==
  /\ \A r \in Reqs : WF_vars(Connect(r)) /\ WF_vars(Decode(r)) /\ WF_vars(HandlerStep(r))
  /\ WF_vars(Show)
  /\ \A d \in Asked : WF_vars(Respond(d))
  /\ WF_vars(StopServer) /\ WF_vars(ServerStopped)

Spec == Init /\ [][Next]_vars /\ Fairness

-----------------------------------------------------------------------------
(* What holds *)

Allows(d) == said[d].decision \in {"allow", "allowAll"}

\* An operation goes ahead only because the user said yes, and is refused as
\* denied only because the user said no, in a dialog with the same id; for a
\* single or batch request that is its own dialog.
VerdictIsTheUsers ==
  \A r \in Asked :
    /\ verdict[r] = "approved" => \E d \in Asked : Key(d) = Key(r) /\ Allows(d)
    /\ verdict[r] = "denied" => \E d \in Asked : Key(d) = Key(r) /\ said[d].decision = "deny"

\* A request that got as far as its handler.
Reached(r) == pc[r] \notin {"idle", "connect", "decode"} /\ verdict[r] \notin {"auto", "offline"}

\* An item that grants and single requests of a session have asked for.  The
\* dialog may send the targets of one with the commands of another.
FromSession(s, item) ==
  \E d, e \in Grants \cup Singles :
    /\ sessionOf[d] = s /\ Reached(d) /\ assetOf[d] = item.asset
    /\ sessionOf[e] = s /\ Reached(e) /\ commandOf[e] = item.command

\* Grants take effect, and skip the dialog of later requests, only in a session
\* where the user allowed a grant or chose to remember a single request.
Consented(s) ==
  \E d \in Grants \cup Singles :
    /\ sessionOf[d] = s
    /\ said[d].decision = IF d \in Grants THEN "allow" ELSE "allowAll"

AutoNeedsConsent ==
  /\ \A s \in Sessions : status[s] = "approved" => Consented(s)
  /\ \A r \in Reqs : verdict[r] = "auto" =>
       Consented(sessionOf[r]) /\ FromSession(sessionOf[r], Item(r))

\* A handler waiting for a single or batch answer can be reached, and an id
\* leads to a handler only while that handler is between its Store and Delete:
\* an answer goes to a live handler or nowhere.
PendingIsLive ==
  /\ \A r \in Singles \cup Batches : pc[r] = "wait" => pending[r] = r
  /\ \A k \in DOMAIN pending :
       pending[k] # None =>
         /\ Key(pending[k]) = k
         /\ pc[pending[k]] \in {"wait", "ensure", "save", "status", "wipe", "refill", "delete"}

\* Quitting ends: every handler is released and the server's Stop returns, unless
\* an extension call is what it waits for.
StopCompletes ==
  app = "shutdown" ~> app = "stopped" \/ \E r \in Tools : pc[r] = "tool"

\* An answer that reached a handler's channel, or a shutdown, ends the request.
WaitersReleased ==
  \A r \in Asked : pc[r] = "wait" /\ (chan[r] # None \/ app # "running") ~> pc[r] = "done"

-----------------------------------------------------------------------------
(* The inductive invariant: a request raises one event, which becomes one
   dialog, which is answered once; so what the user said is never replaced, and
   what a channel holds was said under its own id. *)

\* Which requests can be where.
Places ==
  \A r \in Reqs :
    /\ pc[r] = "tool" => r \in Tools
    /\ pc[r] \in {"emit", "store", "wait", "delete"} => r \in Asked
    /\ pc[r] \in {"session", "create", "status", "wipe", "refill"} => r \in Grants
    /\ pc[r] \in {"ensure", "save"} => r \in Singles /\ said[r].decision = "allowAll"
    /\ pc[r] \in {"ensure", "save", "wipe", "refill"} => verdict[r] = "approved"

In(q, d) == \E i \in DOMAIN q : q[i] = d
Once(q) == \A i, j \in DOMAIN q : q[i] = q[j] => i = j
Unasked(r) == pc[r] \in {"idle", "connect", "decode", "session", "create", "emit"}

\* A request is at most once in the events and the queue together, only after
\* its Emit, and no longer once its dialog is answered.
DialogOnce ==
  /\ Once(events) /\ Once(queue)
  /\ \A d \in Asked : ~(In(events, d) /\ In(queue, d))
  /\ \A d \in Asked : In(events, d) \/ In(queue, d) => ~Unasked(d) /\ said[d].decision = "none"

\* A dialog is answered with one of the choices it offers, once it was asked.
SaidOK ==
  \A d \in Asked :
    /\ said[d].decision \in Choices(d) \cup {"none"}
    /\ Unasked(d) => said[d].decision = "none"

\* What a call carries, or a channel holds, has been said; in a channel, under
\* the id of its handler.
AnswerOK ==
  /\ \A d \in calls : said[d].decision # "none"
  /\ \A r \in Asked : chan[r] # None => Key(chan[r]) = Key(r) /\ said[chan[r]].decision # "none"

\* A verdict is what the channel of its handler holds.
VerdictFromChannel ==
  \A r \in Asked :
    /\ verdict[r] = "approved" => chan[r] # None /\ Allows(chan[r])
    /\ verdict[r] = "denied" => chan[r] # None /\ said[chan[r]].decision = "deny"

\* What is shown, answered or stored was asked for in its own session.
Provenance ==
  /\ \A r \in Reqs : verdict[r] \in {"auto", "offline"} => pc[r] = "done"
  /\ \A d \in Asked : In(events, d) \/ In(queue, d) \/ said[d].decision # "none" => Reached(d)
  /\ \A s \in Sessions : edits[s] # None => sessionOf[edits[s]] = s /\ Reached(edits[s])
  /\ \A d \in Asked : \A row \in said[d].rows :
       d \in Grants \cup Singles /\ FromSession(sessionOf[d], row)
  /\ \A s \in Sessions : \A item \in items[s] : FromSession(s, item)

IInv == /\ TypeOK /\ Provenance
        /\ Places /\ DialogOnce /\ SaidOK /\ AnswerOK /\ VerdictFromChannel
        /\ PendingIsLive /\ AutoNeedsConsent
=============================================================================
