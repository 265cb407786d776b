------------------------------ MODULE DirSync ------------------------------
(***************************************************************************)
(* Directory sync of one SSH terminal session (ssh_svc/dirsync.go, and the  *)
(* parts of ssh.go and app_ssh.go that drive it).  The backend injects a    *)
(* hook into the user's shell (EnableSync); the shell then prints a marker  *)
(* with its directory at every prompt, and a loop of probes over a second   *)
(* channel confirms what the markers cannot.  Calls of ChangeSSHDirectory   *)
(* and EnableSSHSync, the reader of the output, the probe loop, the user's  *)
(* typing and Close meet in the fields behind syncMu: each action below is  *)
(* one critical section, or one wait, of one of them.                       *)
(*                                                                          *)
(* Tokens and nonces are numbers: tokens count the enables, and the nonces  *)
(* of each token start at 1, those of different tokens never being equal    *)
(* (they are random); the marker of a prompt carries the nonce n and        *)
(* announces n + 1.  Writes to the shell do not block, and fail only when   *)
(* the session is closed; markers reach the reader whole and in order.  The *)
(* events that tell the webview of each new state are left out.             *)
(***************************************************************************)
EXTENDS Integers, Sequences, FiniteSets, SequencesExt

CONSTANTS Changers,    \* ChangeSSHDirectory calls
          Enablers,    \* EnableSSHSync calls
          Dirs,        \* directories of the remote host
          Home,        \* where the shell starts
          target,      \* [Changers -> Dirs]: what each call asks for
          Loops,       \* names for probe loops; one is enough if OneLoop holds
          Writes,      \* how often the user types
          ProbesFail,  \* whether a probe may fail or see no directory
          MaxUnusable, \* syncProbeMaxUnusableResults
          None

Calls == Changers \cup Enablers

ASSUME DirSyncAssumption ==
  /\ Changers \cap Enablers = {} /\ None \notin Calls \cup Dirs
  /\ Home \in Dirs /\ target \in [Changers -> Dirs]
  /\ Writes \in Nat /\ MaxUnusable \in Nat \ {0}

VARIABLES
  s,        \* the session: the fields behind syncMu, and closed
  enableMu, \* syncEnableMu: the call that holds it, or None
  pc,       \* where a call is
  chan,     \* resultCh of a ChangeDirectoryTo, all that was sent to it: None for an
            \* error, and for nil the directory that was taken for its target
  result,   \* what a call returned
  loop,     \* a probe loop: its step, snapshot, probe and unusableResults
  reader,   \* readOutput: its step, marker and probe
  closer,   \* Session.Close
  typed,    \* number of user writes so far
  user,     \* Session.Write has to call ensureSyncProbe
  shell,    \* the remote shell: directory, hook's token and nonce
  stdin,    \* lines the shell has not run yet
  stdout    \* markers the reader has not seen yet

vars == <<s, enableMu, pc, chan, result, loop, reader, closer, typed, user,
          shell, stdin, stdout>>

Marker == [kind : {"init", "prompt"}, token : Nat, nonce : Nat, cwd : Dirs]
Line == [kind : {"hook"}, token : Nat] \cup [kind : {"cd"}, dir : Dirs] \cup [kind : {"user"}]
Probe == [cwd : Dirs \cup {None}, prompt : BOOLEAN]
NoProbe == [cwd |-> None, prompt |-> FALSE]
NoLoop == [pc |-> "none", pending |-> None, probe |-> NoProbe, bad |-> 0]
Reading == [pc |-> "read", marker |-> None, probe |-> NoProbe]

Session ==
  [Supported : BOOLEAN, Cwd : Dirs \cup {None}, PromptReady : BOOLEAN, PromptClean : BOOLEAN,
   Busy : BOOLEAN, syncDirty : BOOLEAN, shellPID : {0, 1}, syncToken : Nat, promptNonce : Nat,
   promptPendingNonce : Nat, syncBootstrapCh : Calls \cup {None},
   pendingDirChange : Changers \cup {None}, syncProbeActive : BOOLEAN,
   shellType : {"", "bash", "unsupported"}, tokens : Nat, closed : BOOLEAN]

TypeOK ==
  /\ s \in Session
  /\ enableMu \in Calls \cup {None}
  /\ pc \in [Calls -> {"idle", "enable", "inject", "boot", "prepare",
                       "write", "ensure", "wait", "returned"}]
  /\ chan \in [Changers -> Seq(Dirs \cup {None})]
  /\ result \in [Calls -> {None, "ok", "error"}]
  /\ loop \in [Loops -> [pc : {"none", "top", "stop", "probe", "got", "finish"},
                         pending : Changers \cup {None}, probe : Probe, bad : 0..MaxUnusable]]
  /\ reader \in [pc : {"read", "init", "ensure", "probe", "got", "note"},
                 marker : Marker \cup {None}, probe : Probe]
  /\ closer \in {"idle", "close", "done"}
  /\ typed \in 0..Writes /\ user \in BOOLEAN
  /\ shell \in [cwd : Dirs, token : Nat, nonce : Nat]
  /\ stdin \in Seq(Line)
  /\ stdout \in Seq(Marker)

\* createSession calls initSyncState with no shell and no support.
initSyncState ==
  [Supported |-> FALSE, Cwd |-> None, PromptReady |-> FALSE, PromptClean |-> TRUE,
   Busy |-> FALSE, syncDirty |-> FALSE, shellPID |-> 0, syncToken |-> 0, promptNonce |-> 0,
   promptPendingNonce |-> 0, syncBootstrapCh |-> None, pendingDirChange |-> None,
   syncProbeActive |-> FALSE, shellType |-> "", tokens |-> 0, closed |-> FALSE]

Init ==
  /\ s = initSyncState
  /\ enableMu = None
  /\ pc = [c \in Calls |-> "idle"]
  /\ chan = [c \in Changers |-> <<>>]
  /\ result = [c \in Calls |-> None]
  /\ loop = [l \in Loops |-> NoLoop]
  /\ reader = Reading
  /\ closer = "idle" /\ typed = 0 /\ user = FALSE
  /\ shell = [cwd |-> Home, token |-> 0, nonce |-> 0]
  /\ stdin = <<>> /\ stdout = <<>>

Goto(c, l) == pc' = [pc EXCEPT ![c] = l]
Return(c, r) == Goto(c, "returned") /\ result' = [result EXCEPT ![c] = r]

-----------------------------------------------------------------------------
(* What the critical sections of syncMu do to the session's fields *)

NoPending(t) == [t EXCEPT !.pendingDirChange = None]
NoProbing(t) == [t EXCEPT !.syncProbeActive = FALSE]

\* Mutant: a half-typed line does not make the session busy.
markUserInputIdle(newline) ==
  IF s.Supported /\ s.PromptReady
  THEN [s EXCEPT !.PromptClean = FALSE, !.PromptReady = ~newline,
                 !.Cwd = IF newline THEN None ELSE @, !.syncDirty = newline \/ @]
  ELSE s

\* markUserInput, for input with or without a newline.
markUserInput(newline) ==
  IF s.Supported /\ s.PromptReady
  THEN [s EXCEPT !.PromptClean = FALSE, !.Busy = TRUE, !.PromptReady = ~newline,
                 !.Cwd = IF newline THEN None ELSE @, !.syncDirty = newline \/ @]
  ELSE s

\* notePrompt: the shell is at a prompt in directory d.
notePrompt(d) ==
  IF s.Supported
  THEN [s EXCEPT !.Cwd = d, !.PromptReady = TRUE, !.PromptClean = TRUE, !.Busy = FALSE,
                 !.syncDirty = FALSE]
  ELSE s

\* noteObservedCwd: a probe saw directory d.
noteObservedCwd(d) == IF s.Supported THEN [s EXCEPT !.Cwd = d, !.syncDirty = FALSE] ELSE s

\* finishDirectoryChange(nil, d): whatever change is pending ends well.
finishDirectoryChange(d) ==
  [s EXCEPT !.pendingDirChange = None, !.Cwd = d, !.PromptReady = TRUE,
            !.PromptClean = TRUE, !.Busy = FALSE, !.syncDirty = FALSE]

\* rollbackSyncBootstrapLocked.
Rollback ==
  [s EXCEPT !.syncBootstrapCh = None, !.shellPID = 0, !.syncToken = 0, !.promptNonce = 0,
            !.promptPendingNonce = 0, !.syncDirty = FALSE, !.Supported = FALSE, !.Cwd = None,
            !.PromptReady = FALSE, !.PromptClean = TRUE, !.Busy = FALSE]

\* EnableSync's first section: new token and nonce, and a channel to wait for the shell.
Bootstrap(c, type) ==
  [s EXCEPT !.shellType = type, !.tokens = @ + 1, !.syncToken = s.tokens + 1, !.promptNonce = 1,
            !.promptPendingNonce = 0, !.shellPID = 0, !.Supported = TRUE, !.Cwd = None,
            !.PromptReady = FALSE, !.PromptClean = TRUE, !.Busy = TRUE, !.syncDirty = TRUE,
            !.syncBootstrapCh = c]

\* prepareDirectoryChange: the change of call c is pending.
prepareDirectoryChange(c) ==
  [s EXCEPT !.pendingDirChange = c, !.PromptReady = FALSE, !.PromptClean = FALSE, !.Cwd = None,
            !.Busy = TRUE, !.syncDirty = TRUE]

\* Answering the pending call, whichever it is.
Answer(a) ==
  chan' = IF s.pendingDirChange = None THEN chan
          ELSE [chan EXCEPT ![s.pendingDirChange] = Append(@, a)]

\* Mutant: a failed change stays pending.
failPendingKept ==
  /\ Answer(None)
  /\ UNCHANGED s

\* failPendingDirectoryChange: whatever change is pending fails.
failPendingDirectoryChange ==
  /\ Answer(None)
  /\ s' = NoPending(s)

FreeLoop == CHOOSE l \in Loops : loop[l].pc = "none"

\* Mutant: no look at syncProbeActive.
ensureSyncProbeAnyway ==
  IF ~s.Supported \/ s.shellPID = 0
  THEN UNCHANGED <<s, loop>>
  ELSE /\ loop' = [loop EXCEPT ![FreeLoop] = [NoLoop EXCEPT !.pc = "top"]]
       /\ s' = [s EXCEPT !.syncProbeActive = TRUE]

\* ensureSyncProbe: start a loop unless the flag says there is one.
ensureSyncProbe ==
  IF s.syncProbeActive \/ ~s.Supported \/ s.shellPID = 0
  THEN UNCHANGED <<s, loop>>
  ELSE /\ loop' = [loop EXCEPT ![FreeLoop] = [NoLoop EXCEPT !.pc = "top"]]
       /\ s' = [s EXCEPT !.syncProbeActive = TRUE]

\* What probeShellState may return now: an error, the shell's directory, or none where
\* there is no /proc; prompt is the terminal's mode, set after the marker is printed.
probeShellState ==
  [cwd : {shell.cwd} \cup (IF ProbesFail THEN {None} ELSE {}), prompt : BOOLEAN]

-----------------------------------------------------------------------------
(* ChangeSSHDirectory and EnableSSHSync *)

\* The session is found (a closed one may be deleted already) and its state read.
Start(c) ==
  /\ pc[c] = "idle"
  /\ \/ /\ Goto(c, IF c \in Enablers \/ ~s.Supported THEN "enable" ELSE "prepare")
        /\ UNCHANGED result
     \/ s.closed /\ Return(c, "error")
  /\ UNCHANGED <<s, enableMu, chan, loop, reader, closer, typed, user, shell, stdin, stdout>>

\* EnableSync returns: a change goes on, or fails.
Enabled(c) ==
  /\ enableMu' = None
  /\ IF c \in Enablers THEN Return(c, "ok") ELSE Goto(c, "prepare") /\ UNCHANGED result
EnableFails(c) == enableMu' = None /\ Return(c, "error")

\* EnableSync: syncEnableMu, shell detection on first use, and the first section.
EnableSync(c) ==
  /\ pc[c] = "enable" /\ enableMu = None
  /\ \/ s.Supported /\ s.shellPID > 0 /\ Enabled(c) /\ UNCHANGED s
     \/ /\ ~(s.Supported /\ s.shellPID > 0)
        /\ \E type \in IF s.shellType = "" THEN {"bash", "unsupported"} ELSE {s.shellType} :
             IF type = "unsupported"
             THEN EnableFails(c) /\ s' = [s EXCEPT !.shellType = type]
             ELSE /\ s' = Bootstrap(c, type)
                  /\ enableMu' = c
                  /\ Goto(c, "inject")
                  /\ UNCHANGED result
  /\ UNCHANGED <<chan, loop, reader, closer, typed, user, shell, stdin, stdout>>

\* The hook is written to the shell's stdin.
Inject(c) ==
  /\ pc[c] = "inject"
  /\ IF s.closed
     THEN /\ s' = IF s.syncBootstrapCh = c THEN Rollback ELSE s
          /\ EnableFails(c)
          /\ UNCHANGED stdin
     ELSE /\ stdin' = Append(stdin, [kind |-> "hook", token |-> s.tokens])
          /\ Goto(c, "boot")
          /\ UNCHANGED <<s, enableMu, result>>
  /\ UNCHANGED <<chan, loop, reader, closer, typed, user, shell, stdout>>

\* waitForSyncBootstrap times out: only the owner of the channel rolls back.
BootTimeout(c) ==
  /\ pc[c] = "boot" /\ s.syncBootstrapCh = c
  /\ s' = Rollback
  /\ EnableFails(c)
  /\ UNCHANGED <<chan, loop, reader, closer, typed, user, shell, stdin, stdout>>

\* The channel is closed, or the timer lost against the marker: the state tells which.
\* The wait for a first directory that follows ends by itself and changes nothing.
Booted(c) ==
  /\ pc[c] = "boot" /\ s.syncBootstrapCh # c
  /\ IF s.Supported /\ s.shellPID > 0 THEN Enabled(c) ELSE EnableFails(c)
  /\ UNCHANGED <<s, chan, loop, reader, closer, typed, user, shell, stdin, stdout>>

\* GetSyncState and ResolveDirectory, which may fail, then prepareDirectoryChange, which
\* repeats the look at the directory.
Prepare(c) ==
  /\ pc[c] = "prepare"
  /\ \/ /\ s.Supported /\ s.Cwd # None /\ s.pendingDirChange = None /\ s.PromptReady /\ s.PromptClean
        /\ s' = prepareDirectoryChange(c)
        /\ Goto(c, "write")
        /\ UNCHANGED result
     \/ Return(c, "error") /\ UNCHANGED s
  /\ UNCHANGED <<enableMu, chan, loop, reader, closer, typed, user, shell, stdin, stdout>>

\* writeInternal: a closed session refuses.
Write(c) ==
  /\ pc[c] = "write"
  /\ IF s.closed
     THEN failPendingDirectoryChange /\ Return(c, "error") /\ UNCHANGED stdin
     ELSE /\ stdin' = Append(stdin, [kind |-> "cd", dir |-> target[c]])
          /\ Goto(c, "ensure")
          /\ UNCHANGED <<s, chan, result>>
  /\ UNCHANGED <<enableMu, loop, reader, closer, typed, user, shell, stdout>>

Ensure(c) ==
  /\ pc[c] = "ensure"
  /\ ensureSyncProbe
  /\ Goto(c, "wait")
  /\ UNCHANGED <<enableMu, chan, result, reader, closer, typed, user, shell, stdin, stdout>>

Wait(c) ==
  /\ pc[c] = "wait" /\ chan[c] # <<>>
  /\ Return(c, IF chan[c][1] = None THEN "error" ELSE "ok")
  /\ UNCHANGED <<s, enableMu, chan, loop, reader, closer, typed, user, shell, stdin, stdout>>

\* Mutant: the wait has no timer.
TimeoutNever(c) == pc[c] = "wait" /\ FALSE /\ UNCHANGED vars

\* The four seconds are over: whatever change is pending fails.
Timeout(c) ==
  /\ pc[c] = "wait"
  /\ failPendingDirectoryChange
  /\ Return(c, "error")
  /\ UNCHANGED <<enableMu, loop, reader, closer, typed, user, shell, stdin, stdout>>

-----------------------------------------------------------------------------
(* The probe loop *)

Again(l, bad) == loop' = [loop EXCEPT ![l] = [NoLoop EXCEPT !.pc = "top", !.bad = bad]]
Inactive == s' = NoProbing(s)
loopSame == <<enableMu, pc, result, reader, closer, typed, user, shell, stdin, stdout>>

\* Mutant: a closed session is waited for, not left.
LoopTopWaits(l) ==
  /\ loop[l].pc = "top" /\ ~s.closed
  /\ IF ~s.Supported \/ s.shellPID = 0
     THEN Inactive /\ loop' = [loop EXCEPT ![l] = NoLoop]
     ELSE /\ loop' = [loop EXCEPT ![l] = [@ EXCEPT !.pending = s.pendingDirChange,
                        !.pc = IF s.syncDirty \/ s.pendingDirChange # None THEN "probe" ELSE "stop"]]
          /\ UNCHANGED s
  /\ UNCHANGED <<loopSame, chan>>

\* IsClosed, then one section.  What is pending is read here and used after the probe.
LoopTop(l) ==
  /\ loop[l].pc = "top"
  /\ IF s.closed \/ ~s.Supported \/ s.shellPID = 0
     THEN Inactive /\ loop' = [loop EXCEPT ![l] = NoLoop]
     ELSE /\ loop' = [loop EXCEPT ![l] = [@ EXCEPT !.pending = s.pendingDirChange,
                        !.pc = IF s.syncDirty \/ s.pendingDirChange # None THEN "probe" ELSE "stop"]]
          /\ UNCHANGED s
  /\ UNCHANGED <<loopSame, chan>>

\* Nothing to do: the flag is cleared in a section of its own.
LoopStop(l) ==
  /\ loop[l].pc = "stop"
  /\ Inactive /\ loop' = [loop EXCEPT ![l] = NoLoop]
  /\ UNCHANGED <<loopSame, chan>>

LoopProbe(l) ==
  /\ loop[l].pc = "probe"
  /\ \E d \in {p.cwd : p \in probeShellState} :
       loop' = [loop EXCEPT ![l] = [@ EXCEPT !.pc = "got", !.probe = [cwd |-> d, prompt |-> FALSE]]]
  /\ UNCHANGED <<loopSame, s, chan>>

\* Too many probes without a directory.
disableDirectorySync ==
  /\ Answer(None)
  /\ s' = NoProbing(NoPending(Rollback))

LoopUnusable(l) ==
  /\ loop[l].pc = "got" /\ loop[l].probe.cwd = None
  /\ IF loop[l].bad + 1 >= MaxUnusable
     THEN disableDirectorySync /\ loop' = [loop EXCEPT ![l] = NoLoop]
     ELSE /\ Again(l, loop[l].bad + 1)
          /\ UNCHANGED <<s, chan>>
  /\ UNCHANGED loopSame

\* Mutant: the directory is not compared with the one asked for.
LoopUsableUncompared(l) ==
  /\ loop[l].pc = "got" /\ loop[l].probe.cwd # None
  /\ \/ loop[l].pending = None /\ s' = noteObservedCwd(loop[l].probe.cwd) /\ Again(l, 0)
     \/ /\ loop[l].pending # None /\ UNCHANGED s
        /\ IF s.pendingDirChange = loop[l].pending
           THEN loop' = [loop EXCEPT ![l].pc = "finish"]
           ELSE Again(l, 0)
  /\ UNCHANGED <<loopSame, chan>>

\* Without a pending change the directory is noted; with one,
\* finishPendingDirectoryChangeProbe compares nonce and directory.
LoopUsable(l) ==
  /\ loop[l].pc = "got" /\ loop[l].probe.cwd # None
  /\ \/ loop[l].pending = None /\ s' = noteObservedCwd(loop[l].probe.cwd) /\ Again(l, 0)
     \/ /\ loop[l].pending # None /\ UNCHANGED s
        /\ IF s.pendingDirChange = loop[l].pending /\ loop[l].probe.cwd = target[loop[l].pending]
           THEN loop' = [loop EXCEPT ![l].pc = "finish"]
           ELSE Again(l, 0)
  /\ UNCHANGED <<loopSame, chan>>

\* finishDirectoryChange takes the lock anew.
LoopFinish(l) ==
  /\ loop[l].pc = "finish"
  /\ Answer(loop[l].probe.cwd)
  /\ s' = finishDirectoryChange(loop[l].probe.cwd)
  /\ Again(l, 0)
  /\ UNCHANGED <<loopSame>>

Loop(l) == \/ LoopTop(l) \/ LoopStop(l) \/ LoopProbe(l)
           \/ LoopUnusable(l) \/ LoopUsable(l) \/ LoopFinish(l)

-----------------------------------------------------------------------------
(* The reader of the output *)

readerSame == <<enableMu, pc, chan, result, closer, typed, user, shell, stdin>>
Read(to) == reader' = IF to = "read" THEN Reading ELSE [reader EXCEPT !.pc = to]

\* The nonce of a marker is one of those expected; it tells the token, too.
ValidNonce(m) == m.token = s.syncToken /\ m.nonce \in {s.promptNonce, s.promptPendingNonce} \ {0}

\* The token of an init marker is that of the enable that waits.
InitMarker(m) == m.kind = "init" /\ m.token = s.syncToken

\* A prompt marker counts if its nonce is the one expected; the token check and the
\* section that reads the nonces are one step, for a nonce belongs to one token only.
PromptMarker(m) == m.kind = "prompt" /\ s.Supported /\ s.shellPID > 0 /\ ValidNonce(m)

\* filterOutput hands on the next marker to handleSyncPayload, which may ignore it.
ReadMarker ==
  /\ reader.pc = "read" /\ stdout # <<>>
  /\ LET m == Head(stdout) IN
       \/ InitMarker(m) /\ Read("init")
       \/ PromptMarker(m) /\ reader' = [reader EXCEPT !.pc = "probe", !.marker = m]
       \/ ~InitMarker(m) /\ ~PromptMarker(m) /\ UNCHANGED reader
  /\ stdout' = Tail(stdout)
  /\ UNCHANGED <<readerSame, s, loop>>

\* The init marker is accepted in a section of its own, which does not look at the token
\* again: since then the enable may have been rolled back, and a new one be waiting.
ReadInit ==
  /\ reader.pc = "init"
  /\ IF s.syncBootstrapCh # None /\ s.Supported /\ s.shellPID = 0
     THEN /\ s' = [s EXCEPT !.shellPID = 1, !.syncDirty = TRUE, !.syncBootstrapCh = None]
          /\ Read("ensure")
     ELSE Read("read") /\ UNCHANGED s
  /\ UNCHANGED <<readerSame, loop, stdout>>

ReadEnsure ==
  /\ reader.pc = "ensure"
  /\ ensureSyncProbe
  /\ Read("read")
  /\ UNCHANGED <<readerSame, stdout>>

ReadProbe ==
  /\ reader.pc = "probe"
  /\ \E p \in probeShellState : reader' = [reader EXCEPT !.pc = "got", !.probe = p]
  /\ UNCHANGED <<readerSame, s, loop, stdout>>

\* Mutant: without proof of a prompt nothing moves on.
ReadProbedUnmoved ==
  /\ reader.pc = "got"
  /\ IF ValidNonce(reader.marker) /\ reader.probe.prompt
     THEN /\ s' = [s EXCEPT !.promptNonce = reader.marker.nonce + 1, !.promptPendingNonce = 0]
          /\ Read("note")
     ELSE Read("read") /\ UNCHANGED s
  /\ UNCHANGED <<readerSame, loop, stdout>>

\* Without proof of a prompt only the chain of nonces moves on; with it the marker is
\* accepted, unless its nonce has become stale during the probe.
ReadProbed ==
  /\ reader.pc = "got"
  /\ IF ValidNonce(reader.marker)
     THEN IF reader.probe.prompt
          THEN /\ s' = [s EXCEPT !.promptNonce = reader.marker.nonce + 1, !.promptPendingNonce = 0]
               /\ Read("note")
          ELSE s' = [s EXCEPT !.promptPendingNonce = reader.marker.nonce + 1] /\ Read("read")
     ELSE Read("read") /\ UNCHANGED s
  /\ UNCHANGED <<readerSame, loop, stdout>>

\* The probe's directory comes before the marker's.
ReadNote ==
  /\ reader.pc = "note"
  /\ s' = notePrompt(IF reader.probe.cwd # None THEN reader.probe.cwd ELSE reader.marker.cwd)
  /\ Read("read")
  /\ UNCHANGED <<readerSame, loop, stdout>>

ReadHandle == ReadInit \/ ReadEnsure \/ ReadProbe \/ ReadProbed \/ ReadNote

-----------------------------------------------------------------------------
(* Close, the user and the shell *)

\* Disconnect, or the reader's deferred call: what is pending fails first.
CloseBegin ==
  /\ closer = "idle"
  /\ failPendingDirectoryChange
  /\ closer' = "close"
  /\ UNCHANGED <<enableMu, pc, result, loop, reader, typed, user, shell, stdin, stdout>>

CloseEnd ==
  /\ closer = "close"
  /\ s' = [s EXCEPT !.closed = TRUE]
  /\ closer' = "done"
  /\ UNCHANGED <<enableMu, pc, chan, result, loop, reader, typed, user, shell, stdin, stdout>>

\* Session.Write of a key or of a line: markUserInput and stdin.Write, in one step, for
\* only the shell sees the line; the code keeps s.mu, for which Close waits, over a
\* remote write that may block, which is left out.
UserWrite(newline) ==
  /\ ~s.closed /\ typed < Writes /\ ~user
  /\ s' = markUserInput(newline)
  /\ typed' = typed + 1 /\ user' = newline
  /\ stdin' = IF newline THEN Append(stdin, [kind |-> "user"]) ELSE stdin
  /\ UNCHANGED <<enableMu, pc, chan, result, loop, reader, closer, shell, stdout>>

UserEnsure ==
  /\ user
  /\ ensureSyncProbe
  /\ user' = FALSE
  /\ UNCHANGED <<enableMu, pc, chan, result, reader, closer, typed, shell, stdin, stdout>>

\* What the shell prints after a line: a hook announces itself, and then every prompt.
Printed(hook, tok, n, d) ==
  (IF hook THEN <<[kind |-> "init", token |-> tok, nonce |-> 0, cwd |-> d]>> ELSE <<>>)
  \o (IF tok > 0 THEN <<[kind |-> "prompt", token |-> tok, nonce |-> n, cwd |-> d]>> ELSE <<>>)

\* The shell runs a line and prints its next prompt; a program in the foreground may
\* have swallowed the line, a cd may fail, and the user's line may go anywhere.
ShellRuns ==
  /\ stdin # <<>>
  /\ stdin' = Tail(stdin)
  /\ LET line == Head(stdin)
         hook == line.kind = "hook"
         tok == IF hook THEN line.token ELSE shell.token
         n == IF hook THEN 1 ELSE shell.nonce IN
       \E d \in {shell.cwd} \cup (IF line.kind = "cd" THEN {line.dir} ELSE {})
                           \cup (IF line.kind = "user" THEN Dirs ELSE {}) :
         /\ shell' = [cwd |-> d, token |-> tok, nonce |-> n + 1]
         /\ stdout' = stdout \o Printed(hook, tok, n, d)
  /\ UNCHANGED <<s, enableMu, pc, chan, result, loop, reader, closer, typed, user>>

ShellSwallows ==
  /\ stdin # <<>>
  /\ stdin' = Tail(stdin)
  /\ UNCHANGED <<s, enableMu, pc, chan, result, loop, reader, closer, typed, user, shell, stdout>>

Call(c) == \/ EnableSync(c) \/ Inject(c) \/ BootTimeout(c) \/ Booted(c)
           \/ (c \in Changers /\ (Prepare(c) \/ Write(c) \/ Ensure(c) \/ Wait(c) \/ Timeout(c)))

Next == \/ \E c \in Calls : Start(c) \/ Call(c)
        \/ \E l \in Loops : Loop(l)
        \/ ReadMarker \/ ReadHandle \/ CloseBegin \/ CloseEnd
        \/ \E newline \in BOOLEAN : UserWrite(newline)
        \/ UserEnsure \/ ShellRuns \/ ShellSwallows

\* Calls, the reader, the loop and Close do not stop in the middle: their waits have
\* timers, the mutexes are held for finitely many steps, and a remote command ends with
\* its connection at the latest.  Nobody has to type, the shell may be stuck, and its
\* output may end at any time.
Spec == /\ Init /\ [][Next]_vars
        /\ \A c \in Calls : WF_vars(Call(c))
        /\ \A l \in Loops : WF_vars(Loop(l))
        /\ WF_vars(ReadHandle) /\ WF_vars(UserEnsure) /\ WF_vars(CloseEnd)

-----------------------------------------------------------------------------
(* Properties *)

\* Timer, probe, Close and a failed write race to answer a change: it gets one answer,
\* never a second one (a send on a closed channel would panic).
AnsweredOnce == \A c \in Changers : Len(chan[c]) <= 1

\* syncProbeActive is cleared and tested in several places: still there is never more
\* than one loop probing the shell.
OneLoop == Cardinality({l \in Loops : loop[l].pc # "none"}) <= 1

\* A change that succeeds without any change having been given up was confirmed by a
\* probe that saw the directory asked for.
ConfirmedUnlessGivenUp ==
  (\A c \in Changers : None \notin Range(chan[c]))
    => \A c \in Changers : chan[c] # <<>> => chan[c][1] = target[c]

\* An enable that was rolled back leaves its hook in the shell, and a late init marker of
\* it may even boot the next enable.  Still the chain of nonces is that of the newest hook:
\* it does not move before that hook has run, and from then on the next prompt marker,
\* read late or yet to be printed, has a nonce that is expected, however many markers came
\* without proof of a prompt.
Looking == reader.pc \in {"probe", "got"}
Expected == {s.promptNonce, s.promptPendingNonce} \ {0}
Unread == {i \in 1..Len(stdout) : stdout[i].kind = "prompt" /\ stdout[i].token = s.syncToken}
ChainFollowsShell ==
  s.syncToken > 0 /\ ~Looking =>
    IF shell.token # s.syncToken
    THEN s.promptNonce = 1 /\ s.promptPendingNonce = 0
    ELSE /\ Unread = {} => shell.nonce \in Expected
         /\ \A i \in Unread : (\A j \in Unread : i <= j) => stdout[i].nonce \in Expected

\* Ready, clean, busy and the directory are set in ten places: a prompt that is ready
\* has a directory, and the session is busy exactly when it is supported and not ready.
Coherent ==
  /\ s.PromptReady => s.Supported /\ s.Cwd # None
  /\ s.Busy = (s.Supported /\ ~(s.PromptReady /\ s.PromptClean))

\* Every call returns, whatever the shell does or fails to do.
CallsReturn == \A c \in Calls : pc[c] # "idle" ~> pc[c] = "returned"

\* After Close no probe loop is left, and none starts for good.
LoopsEnd == s.closed ~> [](\A l \in Loops : loop[l].pc = "none")

-----------------------------------------------------------------------------
(* The inductive invariant *)

\* syncEnableMu is kept from the first section of EnableSync to its return.
EnableAlone == \A c \in Calls : pc[c] \in {"inject", "boot"} => enableMu = c

\* The sync is supported as long as it has a token; then a bootstrap waits exactly while
\* the shell is not known yet.
BootWaits ==
  /\ s.Supported <=> s.syncToken > 0
  /\ IF s.syncToken > 0
     THEN s.promptNonce > 0 /\ (s.syncBootstrapCh # None <=> s.shellPID = 0)
     ELSE /\ s.syncBootstrapCh = None /\ s.shellPID = 0
          /\ s.promptNonce = 0 /\ s.promptPendingNonce = 0

\* What a reader that left the top of its loop looks at is a marker.
ReaderOK == reader.pc \in {"probe", "got", "note"} => reader.marker \in Marker

\* Only one loop at a time is past its start, and the flag says so; while it works, the
\* shell it works for stays known.
LoopsOK ==
  /\ \A l \in Loops : /\ loop[l].pc # "none" => s.syncProbeActive
                      /\ loop[l].pc \notin {"none", "top"} => s.Supported /\ s.shellPID = 1
                      /\ loop[l].pc = "finish" => loop[l].probe.cwd # None
  /\ \A l, m \in Loops : loop[l].pc # "none" /\ loop[m].pc # "none" => l = m

\* A pending change has not been answered, one that is not prepared yet neither.
PendingOK ==
  \A c \in Changers :
    /\ s.pendingDirChange = c => chan[c] = <<>>
    /\ pc[c] \in {"idle", "enable", "inject", "boot", "prepare"} =>
         chan[c] = <<>> /\ s.pendingDirChange # c

\* Before the first answer that gave up, the loop that is about to confirm a change
\* confirms the one that is pending.
ConfirmsPending ==
  (\A c \in Changers : None \notin Range(chan[c])) =>
    \A l \in Loops : loop[l].pc = "finish" =>
      /\ loop[l].pending \in Changers /\ s.pendingDirChange = loop[l].pending
      /\ loop[l].probe.cwd = target[loop[l].pending]

\* Hooks run in the order of their tokens, the newest last; what the shell has run is
\* older than what it has yet to run.
IsHook(i) == i \in 1..Len(stdin) /\ stdin[i].kind = "hook"
HooksOrdered ==
  /\ \A i, j \in 1..Len(stdin) : IsHook(i) /\ IsHook(j) /\ i < j => stdin[i].token < stdin[j].token
  /\ \A i \in 1..Len(stdin) : IsHook(i) => shell.token < stdin[i].token /\ stdin[i].token <= s.tokens
  /\ shell.token <= s.tokens

\* The token of a hook that is not written yet is newer than all others.
HookUnwritten ==
  (\E c \in Calls : pc[c] = "inject") =>
    /\ shell.token < s.tokens
    /\ \A i \in 1..Len(stdin) : IsHook(i) => stdin[i].token < s.tokens

\* The session expects its newest hook or none.
TokenCurrent == s.syncToken \in {0, s.tokens}

\* What is unread is in the order of the tokens; the markers of the hook that runs come
\* last: its init marker, then its prompts, numbered up to the next one.
UnreadInit == \E i \in 1..Len(stdout) : stdout[i].kind = "init" /\ stdout[i].token = s.syncToken
OutputOrdered ==
  /\ \A i \in 1..Len(stdout) : 0 < stdout[i].token /\ stdout[i].token <= shell.token
  /\ \A i \in 1..Len(stdout) : stdout[i].token = shell.token =>
       IF stdout[i].kind = "init"
       THEN /\ shell.nonce = Len(stdout) - i + 1
            /\ \A j \in i + 1..Len(stdout) : stdout[j].kind = "prompt" /\ stdout[j].token = shell.token
       ELSE stdout[i].nonce = shell.nonce - (Len(stdout) - i + 1)
  /\ Looking => reader.marker.token <= shell.token

\* Before the newest hook runs and while its init marker is unread the chain is at its
\* start, and no marker of it is looked at; then all that is unread are its prompts, the
\* marker being looked at comes right before them, and the shell is known or about to be.
ChainOK ==
  s.syncToken > 0 =>
    IF shell.token # s.syncToken \/ UnreadInit
    THEN /\ s.promptNonce = 1 /\ s.promptPendingNonce = 0
         /\ Looking => reader.marker.token # s.syncToken
    ELSE /\ Unread = 1..Len(stdout)
         /\ s.shellPID = 1 \/ reader.pc = "init"
         /\ IF Looking /\ reader.marker.token = s.syncToken
            THEN /\ reader.marker.nonce \in Expected
                 /\ reader.marker.nonce + 1 = shell.nonce - Len(stdout)
            ELSE shell.nonce - Len(stdout) \in Expected

IInv == /\ TypeOK
        /\ EnableAlone /\ BootWaits /\ ReaderOK /\ LoopsOK
        /\ Coherent
        /\ PendingOK /\ AnsweredOnce
        /\ ConfirmsPending /\ ConfirmedUnlessGivenUp
        /\ HooksOrdered /\ HookUnwritten /\ TokenCurrent
        /\ OutputOrdered /\ ChainOK /\ ChainFollowsShell
=============================================================================
