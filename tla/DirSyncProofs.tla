--------------------------- MODULE DirSyncProofs ---------------------------
(***************************************************************************)
(* Theorems about DirSync for any number of calls, directories, keystrokes *)
(* and useless probes.  Three facts carry them: the probe loop is alone    *)
(* and its shell stays known while it works (LoopsOK), a change leaves     *)
(* pendingDirChange with its answer (PendingOK), and hooks, markers and    *)
(* nonces come in the order they were made (HooksOrdered, OutputOrdered),  *)
(* so that the chain of nonces stays one marker ahead (ChainOK).           *)
(***************************************************************************)
EXTENDS DirSync, FiniteSetTheorems, TLAPS

-----------------------------------------------------------------------------
(* What the critical sections do to the types *)

\* The operators that give the session's next value keep its type.
LEMMA SectionTypes ==
  ASSUME s \in Session, None \notin Dirs
  PROVE  /\ \A newline \in BOOLEAN : markUserInput(newline) \in Session
         /\ \A d \in Dirs : /\ notePrompt(d) \in Session
                            /\ noteObservedCwd(d) \in Session
         /\ \A d \in Dirs \cup {None} : finishDirectoryChange(d) \in Session
         /\ Rollback \in Session
         /\ NoPending(s) \in Session /\ NoProbing(s) \in Session
         /\ [s EXCEPT !.syncProbeActive = TRUE] \in Session
<1>1. ASSUME NEW newline \in BOOLEAN PROVE markUserInput(newline) \in Session
  <2>1. CASE s.Supported /\ s.PromptReady
    <3>1. \A ready \in BOOLEAN, d \in Dirs \cup {None}, dirty \in BOOLEAN :
            [s EXCEPT !.PromptClean = FALSE, !.Busy = TRUE, !.PromptReady = ready, !.Cwd = d,
                      !.syncDirty = dirty] \in Session
      BY Zenon DEF Session
    <3>2. (newline \/ s.syncDirty) \in BOOLEAN /\ (~newline) \in BOOLEAN
      BY Zenon
    <3>3. (IF newline THEN None ELSE s.Cwd) \in Dirs \cup {None}
      BY Zenon DEF Session
    <3>4. QED BY <2>1, <3>1, <3>2, <3>3, Zenon DEF markUserInput
  <2>2. CASE ~(s.Supported /\ s.PromptReady)
    BY <2>2 DEF markUserInput
  <2>3. QED BY <2>1, <2>2
<1>2. \A d \in Dirs : notePrompt(d) \in Session
  BY Zenon DEF notePrompt, Session
<1>3. \A d \in Dirs : noteObservedCwd(d) \in Session
  BY Zenon DEF noteObservedCwd, Session
<1>4. \A d \in Dirs \cup {None} : finishDirectoryChange(d) \in Session
  BY Zenon DEF finishDirectoryChange, Session
<1>5. Rollback \in Session
  BY Zenon DEF Rollback, Session
<1>6. NoPending(s) \in Session /\ NoProbing(s) \in Session
  BY Zenon DEF NoPending, NoProbing, Session
<1>7. [s EXCEPT !.syncProbeActive = TRUE] \in Session
  BY Zenon DEF Session
<1>8. QED
  BY <1>1, <1>2, <1>3, <1>4, <1>5, <1>6, <1>7

-----------------------------------------------------------------------------
(* Types *)

LoopType == [pc : {"none", "top", "stop", "probe", "got", "finish"},
             pending : Changers \cup {None}, probe : Probe, bad : 0..MaxUnusable]

\* A loop that begins anew is a loop.
LEMMA NewLoops ==
  /\ NoProbe \in Probe
  /\ NoLoop \in LoopType
  /\ [NoLoop EXCEPT !.pc = "top"] \in LoopType
  /\ \A b \in 0..MaxUnusable : [NoLoop EXCEPT !.pc = "top", !.bad = b] \in LoopType
<1>1. 0 \in 0..MaxUnusable
  BY DirSyncAssumption
<1>2. NoProbe \in Probe
  BY DEF NoProbe, Probe
<1>3. NoLoop \in LoopType /\ [NoLoop EXCEPT !.pc = "top"] \in LoopType
  BY <1>1, <1>2 DEF NoLoop, LoopType
<1>4. \A b \in 0..MaxUnusable : [NoLoop EXCEPT !.pc = "top", !.bad = b] \in LoopType
  BY <1>2 DEF NoLoop, LoopType
<1>5. QED BY Zenon, <1>2, <1>3, <1>4

\* An answer goes to the pending call, if there is one.
LEMMA AnswerTypes ==
  ASSUME TypeOK, NEW a \in Dirs \cup {None}, Answer(a)
  PROVE  chan' \in [Changers -> Seq(Dirs \cup {None})]
<1>1. s.pendingDirChange \in Changers \cup {None}
  BY Zenon DEF TypeOK, Session
<1>2. QED
  BY <1>1 DEF TypeOK, Answer

\* ensureSyncProbe keeps the types.
LEMMA EnsureTypes ==
  ASSUME TypeOK, ensureSyncProbe
  PROVE  s' \in Session /\ loop' \in [Loops -> LoopType]
<1>1. s \in Session /\ loop \in [Loops -> LoopType]
  BY DEF TypeOK, LoopType
<1>2. [s EXCEPT !.syncProbeActive = TRUE] \in Session
  BY <1>1, SectionTypes, DirSyncAssumption
<1>3. QED
  BY Zenon, <1>1, <1>2, NewLoops DEF ensureSyncProbe

\* A line is added to the shell's input.
LEMMA LineAdded ==
  ASSUME stdin \in Seq(Line), NEW line \in Line, stdin' = Append(stdin, line)
  PROVE  stdin' \in Seq(Line)
OBVIOUS

\* So do the sections of EnableSync and of prepareDirectoryChange.
LEMMA CallSectionTypes ==
  ASSUME s \in Session, NEW c \in Calls
  PROVE  /\ \A type \in {"bash", "unsupported"} : /\ [s EXCEPT !.shellType = type] \in Session
                                                 /\ Bootstrap(c, type) \in Session
         /\ c \in Changers => prepareDirectoryChange(c) \in Session
<1>0. s.tokens + 1 \in Nat /\ 0 \in {0, 1} /\ 0 \in Nat /\ 1 \in Nat
  <2>1. s.tokens \in Nat BY Zenon DEF Session
  <2>2. QED BY <2>1
<1> USE DEF Session
<1>1. ASSUME NEW type \in {"bash", "unsupported"}
      PROVE  [s EXCEPT !.shellType = type] \in Session /\ Bootstrap(c, type) \in Session
  <2>1. [s EXCEPT !.shellType = type] \in Session
    <3>1. type \in {"", "bash", "unsupported"}
      BY Zenon
    <3>2. QED BY <3>1, Zenon
  <2>2. Bootstrap(c, type) \in Session
    <3>1. type \in {"", "bash", "unsupported"} /\ None \in Dirs \cup {None} /\ c \in Calls \cup {None}
      BY Zenon
    <3>2. QED BY <1>0, <3>1, Zenon DEF Bootstrap
  <2>3. QED BY Zenon, <2>1, <2>2
<1>2. c \in Changers => prepareDirectoryChange(c) \in Session
  BY Zenon DEF prepareDirectoryChange
<1>3. QED BY Zenon, <1>1, <1>2

\* The steps of a call keep the types.
LEMMA CallTypes ==
  ASSUME TypeOK, NEW c \in Calls, Start(c) \/ Call(c)
  PROVE  TypeOK'
<1>0. s \in Session /\ None \notin Dirs /\ Rollback \in Session /\ NoPending(s) \in Session
  BY SectionTypes, DirSyncAssumption DEF TypeOK
<1>1. CASE Start(c)
  BY <1>1 DEF TypeOK, Start, Goto, Return
<1>2. CASE EnableSync(c)
  <2>1. s' \in Session
    <3>1. s.shellType \in {"", "bash", "unsupported"}
      BY Zenon, <1>0 DEF Session
    <3>2. CASE s.Supported /\ s.shellPID > 0
      BY Zenon, <1>0, <1>2, <3>2 DEF EnableSync
    <3>3. CASE ~(s.Supported /\ s.shellPID > 0)
      <4>1. \E type \in {"bash", "unsupported"} : s' = [s EXCEPT !.shellType = type]
                                                  \/ s' = Bootstrap(c, type)
        BY Zenon, <1>2, <3>1, <3>3 DEF EnableSync
      <4>2. QED BY <1>0, <4>1, CallSectionTypes
    <3>4. QED BY <3>2, <3>3
  <2>2. enableMu' \in Calls \cup {None} /\ result' \in [Calls -> {None, "ok", "error"}]
    BY Zenon, <1>2 DEF TypeOK, EnableSync, Enabled, EnableFails, Goto, Return
  <2>3. pc' \in [Calls -> {"idle", "enable", "inject", "boot", "prepare",
                           "write", "ensure", "wait", "returned"}]
    <3>1. \E l \in {"inject", "prepare", "returned"} : pc' = [pc EXCEPT ![c] = l]
      BY <1>2, Zenon DEF EnableSync, Enabled, EnableFails, Goto, Return
    <3>2. QED BY <3>1 DEF TypeOK
  <2>4. QED BY Zenon, <1>2, <2>1, <2>2, <2>3 DEF TypeOK, EnableSync
<1>3. CASE Inject(c)
  <2>1. [kind |-> "hook", token |-> s.tokens] \in Line
    BY Zenon, <1>0 DEF Session, Line
  <2>2. stdin' \in Seq(Line)
    <3>1. CASE s.closed
      BY <1>3, <3>1 DEF Inject, TypeOK
    <3>2. CASE ~s.closed
      <4>1. stdin' = Append(stdin, [kind |-> "hook", token |-> s.tokens])
        BY <1>3, <3>2 DEF Inject
      <4>2. QED BY <2>1, <4>1, LineAdded DEF TypeOK
    <3>3. QED BY <3>1, <3>2
  <2>3. QED BY <1>0, <1>3, <2>2 DEF TypeOK, Inject, EnableFails, Goto, Return
<1>4. CASE BootTimeout(c)
  BY <1>0, <1>4 DEF TypeOK, BootTimeout, EnableFails, Goto, Return
<1>5. CASE Booted(c)
  BY <1>5 DEF TypeOK, Booted, Enabled, EnableFails, Goto, Return
<1>6. CASE c \in Changers /\ Prepare(c)
  <2>1. s' \in Session
    BY <1>0, <1>6, CallSectionTypes DEF Prepare
  <2>2. QED BY <1>6, <2>1 DEF TypeOK, Prepare, Goto, Return
<1>7. CASE c \in Changers /\ Write(c)
  <2>1. CASE s.closed
    <3>1. chan' \in [Changers -> Seq(Dirs \cup {None})]
      BY <1>7, <2>1, AnswerTypes DEF Write, failPendingDirectoryChange
    <3>2. QED
      BY <1>0, <1>7, <2>1, <3>1 DEF TypeOK, Write, failPendingDirectoryChange, Goto, Return
  <2>2. CASE ~s.closed
    <3>1. [kind |-> "cd", dir |-> target[c]] \in Line
      BY <1>7, DirSyncAssumption DEF Line
    <3>2. stdin' \in Seq(Line)
      <4>1. stdin' = Append(stdin, [kind |-> "cd", dir |-> target[c]])
        BY <1>7, <2>2 DEF Write
      <4>2. QED BY <3>1, <4>1, LineAdded DEF TypeOK
    <3>3. QED BY <1>7, <2>2, <3>2 DEF TypeOK, Write, Goto
  <2>3. QED BY <2>1, <2>2
<1>8. CASE c \in Changers /\ Ensure(c)
  <2>1. s' \in Session /\ loop' \in [Loops -> LoopType]
    BY <1>8, EnsureTypes DEF Ensure
  <2>2. QED BY <1>8, <2>1 DEF TypeOK, LoopType, Ensure, Goto
<1>9. CASE c \in Changers /\ Wait(c)
  BY <1>9 DEF TypeOK, Wait, Goto, Return
<1>10. CASE c \in Changers /\ Timeout(c)
  <2>1. chan' \in [Changers -> Seq(Dirs \cup {None})]
    BY <1>10, AnswerTypes DEF Timeout, failPendingDirectoryChange
  <2>2. QED
    BY <1>0, <1>10, <2>1 DEF TypeOK, Timeout, failPendingDirectoryChange, Goto, Return
<1>11. QED
  BY <1>1, <1>2, <1>3, <1>4, <1>5, <1>6, <1>7, <1>8, <1>9, <1>10 DEF Call

\* Giving everything up keeps the type of the session.
LEMMA DisableTypes ==
  ASSUME s \in Session
  PROVE  NoProbing(NoPending(Rollback)) \in Session
<1>1. Rollback \in Session
  BY Zenon DEF Rollback, Session
<1>2. NoPending(Rollback) \in Session
  BY Zenon, <1>1 DEF NoPending, Session
<1>3. QED
  BY Zenon, <1>2 DEF NoProbing, Session

\* The steps of a probe loop keep the types.
LEMMA LoopTypes ==
  ASSUME TypeOK, NEW l \in Loops, Loop(l)
  PROVE  TypeOK'
<1>0. /\ s \in Session /\ None \notin Dirs
      /\ NoProbing(s) \in Session /\ NoProbing(NoPending(Rollback)) \in Session
      /\ \A d \in Dirs : noteObservedCwd(d) \in Session
      /\ \A d \in Dirs \cup {None} : finishDirectoryChange(d) \in Session
  BY SectionTypes, DisableTypes, DirSyncAssumption DEF TypeOK
<1>1. /\ loop \in [Loops -> LoopType] /\ s.pendingDirChange \in Changers \cup {None}
      /\ loop[l].probe \in Probe /\ loop[l].bad \in 0..MaxUnusable
      /\ chan \in [Changers -> Seq(Dirs \cup {None})]
  <2>1. s.pendingDirChange \in Changers \cup {None}
    BY <1>0, Zenon DEF Session
  <2>2. loop \in [Loops -> LoopType] /\ chan \in [Changers -> Seq(Dirs \cup {None})]
    BY Zenon DEF TypeOK, LoopType
  <2>3. QED BY <2>1, <2>2 DEF LoopType
<1>2. UNCHANGED loopSame
  BY Zenon DEF Loop, LoopTop, LoopStop, LoopProbe, LoopUnusable, LoopUsable, LoopFinish
<1>3. SUFFICES /\ s' \in Session /\ loop' \in [Loops -> LoopType]
               /\ chan' \in [Changers -> Seq(Dirs \cup {None})]
  BY <1>2 DEF TypeOK, LoopType, loopSame
<1>4. CASE LoopTop(l)
  <2>1. CASE s.closed \/ ~s.Supported \/ s.shellPID = 0
    BY Zenon, <1>0, <1>1, <1>4, <2>1, NewLoops DEF LoopTop, Inactive
  <2>2. CASE ~(s.closed \/ ~s.Supported \/ s.shellPID = 0)
    <3>1. UNCHANGED <<s, chan>>
      BY <1>4, <2>2, Zenon DEF LoopTop
    <3>2. PICK p \in {"probe", "stop"} :
            loop' = [loop EXCEPT ![l] = [loop[l] EXCEPT !.pending = s.pendingDirChange, !.pc = p]]
      BY <1>4, <2>2 DEF LoopTop
    <3>3. [loop[l] EXCEPT !.pending = s.pendingDirChange, !.pc = p] \in LoopType
      BY <1>1 DEF LoopType
    <3>4. QED BY <1>0, <1>1, <3>1, <3>2, <3>3
  <2>3. QED BY <2>1, <2>2
<1>5. CASE LoopStop(l)
  BY Zenon, <1>0, <1>1, <1>5, NewLoops DEF LoopStop, Inactive
<1>6. CASE LoopProbe(l)
  <2>1. PICK d \in Dirs \cup {None} :
          loop' = [loop EXCEPT ![l] = [loop[l] EXCEPT !.pc = "got", !.probe = [cwd |-> d, prompt |-> FALSE]]]
    <3>1. shell.cwd \in Dirs
      BY DEF TypeOK
    <3>2. {p.cwd : p \in probeShellState} \subseteq Dirs \cup {None}
      BY <3>1 DEF probeShellState
    <3>3. QED BY Zenon, <1>6, <3>2 DEF LoopProbe
  <2>2. [cwd |-> d, prompt |-> FALSE] \in Probe
    BY DEF Probe
  <2>3. UNCHANGED <<s, chan>>
    BY <1>6 DEF LoopProbe
  <2>4. [loop[l] EXCEPT !.pc = "got", !.probe = [cwd |-> d, prompt |-> FALSE]] \in LoopType
    BY <1>1, <2>2 DEF LoopType
  <2>5. QED BY <1>0, <1>1, <2>1, <2>3, <2>4
<1>7. CASE LoopUnusable(l)
  <2>1. CASE loop[l].bad + 1 >= MaxUnusable
    <3>1. chan' \in [Changers -> Seq(Dirs \cup {None})]
      BY <1>7, <2>1, AnswerTypes DEF LoopUnusable, disableDirectorySync
    <3>2. QED BY Zenon, <1>0, <1>1, <1>7, <2>1, <3>1, NewLoops DEF LoopUnusable, disableDirectorySync
  <2>2. CASE ~(loop[l].bad + 1 >= MaxUnusable)
    <3>1. loop[l].bad + 1 \in 0..MaxUnusable
      BY <1>1, <2>2, DirSyncAssumption
    <3>2. QED BY Zenon, <1>0, <1>1, <1>7, <2>2, <3>1, NewLoops DEF LoopUnusable, Again
  <2>3. QED BY <2>1, <2>2
<1>8. CASE LoopUsable(l)
  <2>1. loop[l].probe.cwd \in Dirs /\ 0 \in 0..MaxUnusable
    BY <1>1, <1>8, DirSyncAssumption DEF LoopUsable, Probe
  <2>2. UNCHANGED chan /\ s' \in Session
    BY <1>0, <1>8, <2>1 DEF LoopUsable
  <2>3. CASE Again(l, 0)
    BY Zenon, <1>1, <2>1, <2>2, <2>3, NewLoops DEF Again
  <2>4. CASE loop' = [loop EXCEPT ![l].pc = "finish"]
    <3>1. [loop[l] EXCEPT !.pc = "finish"] \in LoopType
      BY <1>1 DEF LoopType
    <3>2. loop' = [loop EXCEPT ![l] = [loop[l] EXCEPT !.pc = "finish"]]
      BY <2>4
    <3>3. QED BY <1>1, <2>2, <3>1, <3>2
  <2>5. QED BY <1>8, <2>3, <2>4, Zenon DEF LoopUsable
<1>9. CASE LoopFinish(l)
  <2>1. loop[l].probe.cwd \in Dirs \cup {None} /\ 0 \in 0..MaxUnusable
    BY <1>1, DirSyncAssumption DEF Probe
  <2>2. chan' \in [Changers -> Seq(Dirs \cup {None})]
    BY <1>9, <2>1, AnswerTypes DEF LoopFinish
  <2>3. finishDirectoryChange(loop[l].probe.cwd) \in Session
    BY <1>0, <2>1
  <2>4. QED BY Zenon, <1>1, <1>9, <2>1, <2>2, <2>3, NewLoops DEF LoopFinish, Again
<1>10. QED
  BY <1>4, <1>5, <1>6, <1>7, <1>8, <1>9, Zenon DEF Loop

\* So do the sections of the reader.
LEMMA ReaderSectionTypes ==
  ASSUME s \in Session, None \notin Calls
  PROVE  /\ [s EXCEPT !.shellPID = 1, !.syncDirty = TRUE, !.syncBootstrapCh = None] \in Session
         /\ \A n \in Nat :
              /\ [s EXCEPT !.promptNonce = n, !.promptPendingNonce = 0] \in Session
              /\ [s EXCEPT !.promptPendingNonce = n] \in Session
BY Zenon DEF Session

\* What a probe sees is a directory of the host, or nothing.
LEMMA ProbeTypes ==
  ASSUME TypeOK
  PROVE  probeShellState \subseteq Probe
BY DEF TypeOK, probeShellState, Probe

\* The steps of the reader keep the types.
LEMMA ReadTypes ==
  ASSUME TypeOK, ReaderOK, ReadMarker \/ ReadHandle
  PROVE  TypeOK'
<1>0. /\ s \in Session /\ None \notin Dirs /\ None \notin Calls
      /\ reader \in [pc : {"read", "init", "ensure", "probe", "got", "note"},
                     marker : Marker \cup {None}, probe : Probe]
      /\ Reading \in [pc : {"read", "init", "ensure", "probe", "got", "note"},
                      marker : Marker \cup {None}, probe : Probe]
  BY Zenon, NewLoops, DirSyncAssumption DEF TypeOK, Reading
<1>1. UNCHANGED readerSame
  BY Zenon DEF ReadMarker, ReadHandle, ReadInit, ReadEnsure, ReadProbe, ReadProbed, ReadNote
<1>2. SUFFICES /\ s' \in Session /\ loop' \in [Loops -> LoopType] /\ stdout' \in Seq(Marker)
               /\ reader' \in [pc : {"read", "init", "ensure", "probe", "got", "note"},
                               marker : Marker \cup {None}, probe : Probe]
  BY <1>1 DEF TypeOK, LoopType, readerSame
<1>3. CASE ReadMarker
  <2>1. Head(stdout) \in Marker /\ stdout' \in Seq(Marker)
    BY <1>3 DEF ReadMarker, TypeOK
  <2>2. loop' \in [Loops -> LoopType]
    BY <1>3 DEF ReadMarker, TypeOK, LoopType
  <2>3. CASE UNCHANGED s /\ Read("init")
    BY <1>0, <2>1, <2>2, <2>3 DEF Read
  <2>4. CASE UNCHANGED s /\ reader' = [reader EXCEPT !.pc = "probe", !.marker = Head(stdout)]
    BY <1>0, <2>1, <2>2, <2>4
  <2>5. CASE UNCHANGED <<s, reader>>
    BY <1>0, <2>1, <2>2, <2>5
  <2>6. QED BY <1>3, <2>3, <2>4, <2>5, Zenon DEF ReadMarker
<1>a. CASE ReadInit
  <2>1. s' \in Session
    BY Zenon, <1>0, <1>a, ReaderSectionTypes DEF ReadInit
  <2>2. reader' = Reading \/ reader' = [reader EXCEPT !.pc = "ensure"]
    BY <1>a DEF ReadInit, Read
  <2>3. QED BY <1>0, <1>a, <2>1, <2>2 DEF ReadInit, TypeOK, LoopType
<1>4. CASE ReadEnsure
  <2>1. s' \in Session /\ loop' \in [Loops -> LoopType]
    BY <1>4, EnsureTypes DEF ReadEnsure
  <2>2. QED BY <1>0, <1>4, <2>1 DEF ReadEnsure, Read, TypeOK
<1>5. CASE ReadProbe
  <2>1. PICK p \in Probe : reader' = [reader EXCEPT !.pc = "got", !.probe = p]
    BY Zenon, <1>5, ProbeTypes DEF ReadProbe
  <2>2. QED BY <1>0, <1>5, <2>1 DEF ReadProbe, TypeOK, LoopType
<1>6. CASE ReadProbed
  <2>1. reader.marker.nonce + 1 \in Nat
    BY <1>6 DEF ReadProbed, ReaderOK, Marker
  <2>2. s' \in Session
    BY Zenon, <1>0, <1>6, <2>1, ReaderSectionTypes DEF ReadProbed
  <2>3. reader' = Reading \/ reader' = [reader EXCEPT !.pc = "note"]
    BY <1>6 DEF ReadProbed, Read
  <2>4. QED BY <1>0, <1>6, <2>2, <2>3 DEF ReadProbed, TypeOK, LoopType
<1>7. CASE ReadNote
  <2>1. PICK d \in Dirs : s' = notePrompt(d)
    BY <1>0, <1>7 DEF ReadNote, ReaderOK, Marker, Probe
  <2>2. s' \in Session
    BY <1>0, <2>1, SectionTypes
  <2>3. QED BY <1>0, <1>7, <2>2 DEF ReadNote, Read, TypeOK, LoopType
<1>8. QED
  BY <1>a, <1>3, <1>4, <1>5, <1>6, <1>7, Zenon DEF ReadHandle

\* What a line of each kind carries.
LEMMA LineKinds ==
  ASSUME NEW line \in Line
  PROVE  /\ line.kind = "hook" => line.token \in Nat
         /\ line.kind = "cd" => line.dir \in Dirs
BY DEF Line

\* Two markers one after the other.
LEMMA TwoMarkers ==
  ASSUME NEW m \in Marker, NEW n \in Marker
  PROVE  /\ <<m>> \o <<n>> \in Seq(Marker) /\ Len(<<m>> \o <<n>>) = 2
         /\ (<<m>> \o <<n>>)[1] = m /\ (<<m>> \o <<n>>)[2] = n
<1>1. <<m>> \in Seq(Marker) /\ <<n>> \in Seq(Marker) /\ Len(<<m>>) = 1 /\ Len(<<n>>) = 1
  OBVIOUS
<1>2. QED BY <1>1

\* A shell with a hook prints markers: when the hook runs its init marker and the first
\* prompt, and with every other line a prompt.
Prints(out, hook, tok, n) ==
  \E init, prompt \in Marker :
    /\ init.kind = "init" /\ init.token = tok
    /\ prompt.kind = "prompt" /\ prompt.token = tok /\ prompt.nonce = n
    /\ hook /\ tok > 0 => Len(out) = 2 /\ out[1] = init /\ out[2] = prompt
    /\ ~hook /\ tok > 0 => Len(out) = 1 /\ out[1] = prompt
    /\ ~hook /\ ~(tok > 0) => out = <<>>
\* What is printed are markers, of that form.
LEMMA PrintedMarkers ==
  ASSUME NEW hook \in BOOLEAN, NEW tok \in Nat, NEW n \in Nat, NEW d \in Dirs,
         NEW out, out = Printed(hook, tok, n, d)
  PROVE  /\ out \in Seq(Marker)
         /\ Prints(out, hook, tok, n)
<1> DEFINE init == [kind |-> "init", token |-> tok, nonce |-> 0, cwd |-> d]
           prompt == [kind |-> "prompt", token |-> tok, nonce |-> n, cwd |-> d]
<1>1. init \in Marker /\ prompt \in Marker
  BY DEF Marker
<1>2. /\ init.kind = "init" /\ init.token = tok
      /\ prompt.kind = "prompt" /\ prompt.token = tok /\ prompt.nonce = n
  OBVIOUS
<1>3. out = (IF hook THEN <<init>> ELSE <<>>) \o (IF tok > 0 THEN <<prompt>> ELSE <<>>)
  BY DEF Printed
<1> HIDE DEF init, prompt
<1>4. hook /\ tok > 0 => out \in Seq(Marker) /\ Len(out) = 2 /\ out[1] = init /\ out[2] = prompt
  <2>1. hook /\ tok > 0 => out = <<init>> \o <<prompt>>
    BY <1>3, Zenon
  <2>2. ASSUME NEW q, q = <<init>> \o <<prompt>>
        PROVE  q \in Seq(Marker) /\ Len(q) = 2 /\ q[1] = init /\ q[2] = prompt
    BY <1>1, <2>2, TwoMarkers
  <2>3. QED BY <2>1, <2>2, Zenon
<1>5. ~hook /\ tok > 0 => out \in Seq(Marker) /\ Len(out) = 1 /\ out[1] = prompt
  BY <1>1, <1>3
<1>6. ~hook /\ ~(tok > 0) => out \in Seq(Marker) /\ out = <<>>
  BY <1>3
<1>7. hook /\ ~(tok > 0) => out \in Seq(Marker)
  BY <1>1, <1>3
<1>8. QED BY <1>1, <1>2, <1>4, <1>5, <1>6, <1>7, Zenon DEF Prints

\* What running a line does, for every kind of line.
LEMMA LineRan ==
  ASSUME TypeOK, ShellRuns
  PROVE  /\ stdin # <<>> /\ stdin' = Tail(stdin) /\ Head(stdin) \in Line
         /\ \E hook \in BOOLEAN, tok \in Nat, n \in Nat, d \in Dirs :
              /\ hook = (Head(stdin).kind = "hook")
              /\ tok = IF hook THEN Head(stdin).token ELSE shell.token
              /\ n = IF hook THEN 1 ELSE shell.nonce
              /\ shell' = [cwd |-> d, token |-> tok, nonce |-> n + 1]
              /\ stdout' = stdout \o Printed(hook, tok, n, d)
         /\ UNCHANGED <<s, enableMu, pc, chan, result, loop, reader, closer, typed, user>>
<1> DEFINE line == Head(stdin)
           hook == line.kind = "hook"
           tok == IF hook THEN line.token ELSE shell.token
           n == IF hook THEN 1 ELSE shell.nonce
<1>1. /\ line \in Line /\ stdin # <<>> /\ stdin' = Tail(stdin)
      /\ UNCHANGED <<s, enableMu, pc, chan, result, loop, reader, closer, typed, user>>
  BY DEF ShellRuns, TypeOK
<1>2. shell.cwd \in Dirs /\ shell.token \in Nat /\ shell.nonce \in Nat
  BY DEF TypeOK
<1>3. hook \in BOOLEAN /\ tok \in Nat /\ n \in Nat
  BY <1>1, <1>2, LineKinds
<1>4. PICK d \in Dirs : /\ shell' = [cwd |-> d, token |-> tok, nonce |-> n + 1]
                        /\ stdout' = stdout \o Printed(hook, tok, n, d)
  <2>1. \E d \in {shell.cwd} \cup (IF line.kind = "cd" THEN {line.dir} ELSE {})
                             \cup (IF line.kind = "user" THEN Dirs ELSE {}) :
          /\ shell' = [cwd |-> d, token |-> tok, nonce |-> n + 1]
          /\ stdout' = stdout \o Printed(hook, tok, n, d)
    BY Zenon DEF ShellRuns
  <2>2. line.kind = "cd" => line.dir \in Dirs
    BY <1>1, LineKinds
  <2> HIDE DEF line, hook, tok, n
  <2>3. QED BY <1>2, <2>1, <2>2
<1>5. QED
  BY <1>1, <1>3, <1>4, Zenon

\* Closing, typing and the shell keep the types.
LEMMA OtherTypes ==
  ASSUME TypeOK,
         \/ CloseBegin \/ CloseEnd \/ \E newline \in BOOLEAN : UserWrite(newline)
         \/ UserEnsure \/ ShellRuns \/ ShellSwallows
  PROVE  TypeOK'
<1>0. /\ s \in Session /\ None \notin Dirs /\ NoPending(s) \in Session
      /\ [s EXCEPT !.closed = TRUE] \in Session
  <2>1. s \in Session /\ None \notin Dirs
    BY DirSyncAssumption DEF TypeOK
  <2>2. [s EXCEPT !.closed = TRUE] \in Session
    BY Zenon, <2>1 DEF Session
  <2>3. QED BY <2>1, <2>2, SectionTypes
<1>1. CASE CloseBegin
  <2>1. chan' \in [Changers -> Seq(Dirs \cup {None})]
    BY <1>1, AnswerTypes DEF CloseBegin, failPendingDirectoryChange
  <2>2. QED BY <1>0, <1>1, <2>1 DEF TypeOK, CloseBegin, failPendingDirectoryChange
<1>2. CASE CloseEnd
  BY <1>0, <1>2 DEF TypeOK, CloseEnd
<1>3. ASSUME NEW newline \in BOOLEAN, UserWrite(newline) PROVE TypeOK'
  <2>1. [kind |-> "user"] \in Line
    BY DEF Line
  <2>2. stdin' \in Seq(Line)
    <3>1. CASE newline
      BY <1>3, <2>1, <3>1, LineAdded DEF TypeOK, UserWrite
    <3>2. CASE ~newline
      BY <1>3, <3>2 DEF TypeOK, UserWrite
    <3>3. QED BY <3>1, <3>2
  <2>3. s' \in Session
    BY <1>0, <1>3, SectionTypes DEF UserWrite
  <2>4. typed' \in 0..Writes /\ user' \in BOOLEAN
    BY <1>3, DirSyncAssumption DEF TypeOK, UserWrite
  <2>5. QED BY <1>3, <2>2, <2>3, <2>4 DEF TypeOK, UserWrite
<1>4. CASE UserEnsure
  <2>1. s' \in Session /\ loop' \in [Loops -> LoopType]
    BY <1>4, EnsureTypes DEF UserEnsure
  <2>2. QED BY <1>4, <2>1 DEF TypeOK, LoopType, UserEnsure
<1>5. CASE ShellRuns
  <2>1. PICK hook \in BOOLEAN, tok \in Nat, n \in Nat, d \in Dirs :
          /\ shell' = [cwd |-> d, token |-> tok, nonce |-> n + 1]
          /\ stdout' = stdout \o Printed(hook, tok, n, d)
    BY <1>5, LineRan
  <2>2. shell' \in [cwd : Dirs, token : Nat, nonce : Nat]
    BY <2>1
  <2>3. stdout' \in Seq(Marker)
    BY <2>1, PrintedMarkers DEF TypeOK
  <2>4. stdin' \in Seq(Line)
    <3>1. stdin \in Seq(Line) /\ stdin # <<>> /\ stdin' = Tail(stdin)
      BY <1>5, LineRan DEF TypeOK
    <3>2. QED BY <3>1
  <2>5. QED BY <1>5, <2>2, <2>3, <2>4, LineRan DEF TypeOK
<1>6. CASE ShellSwallows
  BY <1>6 DEF TypeOK, ShellSwallows
<1>7. QED
  BY <1>1, <1>2, <1>3, <1>4, <1>5, <1>6

\* Every action keeps the types.
LEMMA TypeStep == TypeOK /\ ReaderOK /\ [Next]_vars => TypeOK'
<1> SUFFICES ASSUME TypeOK, ReaderOK, [Next]_vars PROVE TypeOK'
  OBVIOUS
<1>1. ASSUME NEW c \in Calls, Start(c) \/ Call(c) PROVE TypeOK'
  BY <1>1, CallTypes
<1>2. ASSUME NEW l \in Loops, Loop(l) PROVE TypeOK'
  BY <1>2, LoopTypes
<1>3. CASE ReadMarker \/ ReadHandle
  BY <1>3, ReadTypes
<1>4. CASE \/ CloseBegin \/ CloseEnd \/ \E newline \in BOOLEAN : UserWrite(newline)
           \/ UserEnsure \/ ShellRuns \/ ShellSwallows
  BY <1>4, OtherTypes
<1>5. CASE UNCHANGED vars
  BY <1>5 DEF vars, TypeOK
<1>6. QED
  BY <1>1, <1>2, <1>3, <1>4, <1>5, Zenon DEF Next
-----------------------------------------------------------------------------
(* What the critical sections do to the fields *)

\* The fields a bootstrap of the shell works on, the chain of nonces among them.
Enabling(t) == <<t.Supported, t.shellPID, t.syncToken, t.tokens, t.syncBootstrapCh,
                 t.promptNonce, t.promptPendingNonce>>
KeepsEnabling(t) == Enabling(t) = Enabling(s)

\* The sections of the user's writes, the prompts, the probes and the changes leave the
\* shell's bootstrap alone, and so does clearing a pending change or the probe flag.
LEMMA SameEnabling ==
  ASSUME s \in Session
  PROVE  /\ \A newline \in BOOLEAN : KeepsEnabling(markUserInput(newline))
         /\ \A d \in Dirs \cup {None} : /\ KeepsEnabling(notePrompt(d))
                                        /\ KeepsEnabling(noteObservedCwd(d))
                                        /\ KeepsEnabling(finishDirectoryChange(d))
         /\ \A c \in Calls : KeepsEnabling(prepareDirectoryChange(c))
         /\ KeepsEnabling(NoPending(s))
         /\ KeepsEnabling(NoProbing(s))
         /\ KeepsEnabling([s EXCEPT !.syncProbeActive = TRUE])
         /\ KeepsEnabling([s EXCEPT !.closed = TRUE])
         /\ \A type : KeepsEnabling([s EXCEPT !.shellType = type])
BY Zenon DEF KeepsEnabling, Enabling, Session, markUserInput, notePrompt, noteObservedCwd, finishDirectoryChange,
       prepareDirectoryChange, NoPending, NoProbing

\* The sections that move the bootstrap.
LEMMA NewEnabling ==
  ASSUME s \in Session
  PROVE  /\ \A c \in Calls, type \in {"bash", "unsupported"} :
              Enabling(Bootstrap(c, type)) = <<TRUE, 0, s.tokens + 1, s.tokens + 1, c, 1, 0>>
         /\ Enabling(Rollback) = <<FALSE, 0, 0, s.tokens, None, 0, 0>>
         /\ Enabling(NoProbing(NoPending(Rollback))) = <<FALSE, 0, 0, s.tokens, None, 0, 0>>
         /\ Enabling([s EXCEPT !.shellPID = 1, !.syncDirty = TRUE, !.syncBootstrapCh = None])
              = <<s.Supported, 1, s.syncToken, s.tokens, None, s.promptNonce, s.promptPendingNonce>>
         /\ \A n : /\ Enabling([s EXCEPT !.promptNonce = n, !.promptPendingNonce = 0])
                        = <<s.Supported, s.shellPID, s.syncToken, s.tokens, s.syncBootstrapCh, n, 0>>
                   /\ Enabling([s EXCEPT !.promptPendingNonce = n])
                        = <<s.Supported, s.shellPID, s.syncToken, s.tokens, s.syncBootstrapCh,
                            s.promptNonce, n>>
BY Zenon DEF Enabling, Session, Bootstrap, Rollback, NoPending, NoProbing

\* The change that is pending and the flag of the probe loop.
Work(t, change, flag) == t.pendingDirChange = change /\ t.syncProbeActive = flag
KeepsWork(t) == Work(t, s.pendingDirChange, s.syncProbeActive)

\* What each section makes of them.
LEMMA SectionWork ==
  ASSUME s \in Session
  PROVE  /\ \A newline \in BOOLEAN : KeepsWork(markUserInput(newline))
         /\ \A d \in Dirs : KeepsWork(notePrompt(d)) /\ KeepsWork(noteObservedCwd(d))
         /\ \A c \in Calls, type \in {"bash", "unsupported"} : KeepsWork(Bootstrap(c, type))
         /\ \A type : KeepsWork([s EXCEPT !.shellType = type])
         /\ KeepsWork(Rollback)
         /\ KeepsWork([s EXCEPT !.closed = TRUE])
         /\ KeepsWork([s EXCEPT !.shellPID = 1, !.syncDirty = TRUE, !.syncBootstrapCh = None])
         /\ \A n : /\ KeepsWork([s EXCEPT !.promptNonce = n, !.promptPendingNonce = 0])
                   /\ KeepsWork([s EXCEPT !.promptPendingNonce = n])
         /\ \A c \in Calls : Work(prepareDirectoryChange(c), c, s.syncProbeActive)
         /\ \A d \in Dirs \cup {None} : Work(finishDirectoryChange(d), None, s.syncProbeActive)
         /\ Work(NoPending(s), None, s.syncProbeActive)
         /\ Work(NoProbing(s), s.pendingDirChange, FALSE)
         /\ Work(NoProbing(NoPending(Rollback)), None, FALSE)
         /\ Work([s EXCEPT !.syncProbeActive = TRUE], s.pendingDirChange, TRUE)
BY Zenon DEF KeepsWork, Work, Session, markUserInput, notePrompt, noteObservedCwd, finishDirectoryChange,
       prepareDirectoryChange, NoPending, NoProbing, Bootstrap, Rollback

\* Coherent, of one state of the session.
CoherentOf(t) ==
  /\ t.PromptReady => t.Supported /\ t.Cwd # None
  /\ t.Busy = (t.Supported /\ ~(t.PromptReady /\ t.PromptClean))

\* Every section keeps the session coherent; a change is prepared, and ends, for a
\* supported shell.
LEMMA CoherentSections ==
  ASSUME s \in Session, CoherentOf(s), None \notin Dirs
  PROVE  /\ \A newline \in BOOLEAN : CoherentOf(markUserInput(newline))
         /\ \A d \in Dirs : CoherentOf(notePrompt(d)) /\ CoherentOf(noteObservedCwd(d))
         /\ s.Supported => \A d \in Dirs : CoherentOf(finishDirectoryChange(d))
         /\ s.Supported => \A c \in Calls : CoherentOf(prepareDirectoryChange(c))
         /\ \A c \in Calls, type \in {"bash", "unsupported"} : CoherentOf(Bootstrap(c, type))
         /\ \A type : CoherentOf([s EXCEPT !.shellType = type])
         /\ CoherentOf(Rollback)
         /\ CoherentOf(NoPending(s))
         /\ CoherentOf(NoProbing(s))
         /\ CoherentOf(NoProbing(NoPending(Rollback)))
         /\ CoherentOf([s EXCEPT !.syncProbeActive = TRUE])
         /\ CoherentOf([s EXCEPT !.closed = TRUE])
         /\ CoherentOf([s EXCEPT !.shellPID = 1, !.syncDirty = TRUE, !.syncBootstrapCh = None])
         /\ \A n : /\ CoherentOf([s EXCEPT !.promptNonce = n, !.promptPendingNonce = 0])
                   /\ CoherentOf([s EXCEPT !.promptPendingNonce = n])
<1> USE DEF CoherentOf, Session
<1>1. \A newline \in BOOLEAN : CoherentOf(markUserInput(newline))
  BY Zenon DEF markUserInput
<1>2. \A d \in Dirs : CoherentOf(notePrompt(d)) /\ CoherentOf(noteObservedCwd(d))
  BY Zenon DEF notePrompt, noteObservedCwd
<1>3. s.Supported => \A d \in Dirs : CoherentOf(finishDirectoryChange(d))
  BY Zenon DEF finishDirectoryChange
<1>4. s.Supported => \A c \in Calls : CoherentOf(prepareDirectoryChange(c))
  BY Zenon DEF prepareDirectoryChange
<1>5. \A c \in Calls, type \in {"bash", "unsupported"} : CoherentOf(Bootstrap(c, type))
  BY Zenon DEF Bootstrap
<1>6. CoherentOf(Rollback)
  BY Zenon DEF Rollback
<1>7. CoherentOf(NoPending(s)) /\ CoherentOf(NoProbing(s)) /\ CoherentOf(NoProbing(NoPending(Rollback)))
  BY Zenon DEF Rollback, NoPending, NoProbing
<1>8. /\ \A type : CoherentOf([s EXCEPT !.shellType = type])
      /\ CoherentOf([s EXCEPT !.syncProbeActive = TRUE])
      /\ CoherentOf([s EXCEPT !.closed = TRUE])
  BY Zenon
<1>9. /\ CoherentOf([s EXCEPT !.shellPID = 1, !.syncDirty = TRUE, !.syncBootstrapCh = None])
      /\ \A n : /\ CoherentOf([s EXCEPT !.promptNonce = n, !.promptPendingNonce = 0])
                /\ CoherentOf([s EXCEPT !.promptPendingNonce = n])
  BY Zenon
<1>10. QED
  BY Zenon, <1>1, <1>2, <1>3, <1>4, <1>5, <1>6, <1>7, <1>8, <1>9
-----------------------------------------------------------------------------
(* The steps of the session *)

\* The sections that leave the shell's bootstrap alone.
Plain ==
  \/ UNCHANGED s
  \/ \E newline \in BOOLEAN : s' = markUserInput(newline)
  \/ \E d \in Dirs : s' = notePrompt(d) \/ s' = noteObservedCwd(d)
  \/ \E d \in Dirs : s.Supported /\ s' = finishDirectoryChange(d)
  \/ \E c \in Changers : s.Supported /\ s' = prepareDirectoryChange(c)
  \/ s' = NoPending(s)
  \/ s' = NoProbing(s)
  \/ s' = [s EXCEPT !.syncProbeActive = TRUE]
  \/ s' = [s EXCEPT !.closed = TRUE]
  \/ \E type : s' = [s EXCEPT !.shellType = type]

\* The sections that move it: an enable begins, an enable or the loop gives up, the
\* awaited marker comes, the marker of a prompt moves the chain of nonces.
Begins(c) == /\ EnableSync(c) /\ enableMu = None /\ pc[c] = "enable" /\ pc' = [pc EXCEPT ![c] = "inject"]
             /\ ~(s.Supported /\ s.shellPID > 0)
             /\ \E type \in {"bash", "unsupported"} : s' = Bootstrap(c, type)
GivesUp == s.syncBootstrapCh # None /\ s' = Rollback
Disables(l) == LoopUnusable(l) /\ disableDirectorySync /\ loop' = [loop EXCEPT ![l] = NoLoop]
Boots == /\ ReadInit /\ s.syncBootstrapCh # None /\ s.Supported /\ s.shellPID = 0
         /\ s' = [s EXCEPT !.shellPID = 1, !.syncDirty = TRUE, !.syncBootstrapCh = None]
Moves == /\ ReadProbed /\ ValidNonce(reader.marker)
         /\ \/ s' = [s EXCEPT !.promptNonce = reader.marker.nonce + 1, !.promptPendingNonce = 0]
            \/ s' = [s EXCEPT !.promptPendingNonce = reader.marker.nonce + 1]

\* The first section of EnableSync notes the kind of the shell and fails, or begins.
LEMMA EnableSection ==
  ASSUME TypeOK, NEW c \in Calls, EnableSync(c), ~(Enabled(c) /\ UNCHANGED s)
  PROVE  /\ ~(s.Supported /\ s.shellPID > 0)
         /\ \E type \in {"bash", "unsupported"} :
              \/ s' = [s EXCEPT !.shellType = type] /\ EnableFails(c)
              \/ s' = Bootstrap(c, type) /\ enableMu' = c /\ Goto(c, "inject")
<1>1. ~(s.Supported /\ s.shellPID > 0)
  BY Zenon DEF EnableSync
<1>2. PICK type \in IF s.shellType = "" THEN {"bash", "unsupported"} ELSE {s.shellType} :
        IF type = "unsupported"
        THEN EnableFails(c) /\ s' = [s EXCEPT !.shellType = type]
        ELSE s' = Bootstrap(c, type) /\ enableMu' = c /\ Goto(c, "inject")
  BY <1>1, Zenon DEF EnableSync
<1>3. s.shellType \in {"", "bash", "unsupported"}
  BY Zenon DEF TypeOK, Session
<1>4. type \in {"bash", "unsupported"}
  BY Zenon, <1>2, <1>3
<1>5. QED
  BY <1>1, <1>2, <1>4, Zenon

\* A call does one of these to the session.
LEMMA CallSession ==
  ASSUME TypeOK, NEW c \in Calls, Start(c) \/ Call(c)
  PROVE  Plain \/ Begins(c) \/ GivesUp
<1> USE DEF Plain
<1>1. CASE Start(c) BY <1>1 DEF Start
<1>2. CASE EnableSync(c)
  <2>1. CASE UNCHANGED s BY <2>1
  <2>2. CASE s' # s
    <3>1. PICK type \in {"bash", "unsupported"} :
            \/ s' = [s EXCEPT !.shellType = type]
            \/ s' = Bootstrap(c, type) /\ Goto(c, "inject")
      BY <1>2, <2>2, EnableSection
    <3>2. ~(s.Supported /\ s.shellPID > 0)
      BY <1>2, <2>2, EnableSection
    <3>3. CASE s' = [s EXCEPT !.shellType = type]
      BY <3>3, Zenon
    <3>4. CASE s' = Bootstrap(c, type) /\ Goto(c, "inject")
      BY <1>2, <3>2, <3>4, Zenon DEF Begins, EnableSync, Goto
    <3>5. QED BY Zenon, <3>1, <3>3, <3>4
  <2>3. QED BY Zenon, <2>1, <2>2
<1>3. CASE Inject(c)
  BY Zenon, <1>3, DirSyncAssumption DEF Inject, GivesUp, Calls
<1>4. CASE BootTimeout(c)
  BY Zenon, <1>4, DirSyncAssumption DEF BootTimeout, GivesUp, Calls
<1>5. CASE Booted(c) BY <1>5 DEF Booted
<1>6. CASE c \in Changers /\ Prepare(c) BY <1>6, Zenon DEF Prepare
<1>7. CASE c \in Changers /\ Write(c) BY <1>7, Zenon DEF Write, failPendingDirectoryChange
<1>8. CASE c \in Changers /\ Ensure(c) BY <1>8, Zenon DEF Ensure, ensureSyncProbe
<1>9. CASE c \in Changers /\ Wait(c) BY <1>9, Zenon DEF Wait
<1>10. CASE c \in Changers /\ Timeout(c) BY <1>10, Zenon DEF Timeout, failPendingDirectoryChange
<1>11. QED
  BY Zenon, <1>1, <1>2, <1>3, <1>4, <1>5, <1>6, <1>7, <1>8, <1>9, <1>10 DEF Call

\* A loop does one of these.
LEMMA LoopSession ==
  ASSUME TypeOK, LoopsOK, NEW l \in Loops, Loop(l)
  PROVE  Plain \/ Disables(l)
<1> USE DEF Plain
<1>0. loop[l].probe \in Probe
  BY DEF TypeOK
<1>1. CASE LoopTop(l) BY <1>1, Zenon DEF LoopTop, Inactive
<1>2. CASE LoopStop(l) BY <1>2, Zenon DEF LoopStop, Inactive
<1>3. CASE LoopProbe(l) BY <1>3, Zenon DEF LoopProbe
<1>4. CASE LoopUnusable(l) BY <1>4, Zenon DEF LoopUnusable, Disables
<1>5. CASE LoopUsable(l)
  <2>1. loop[l].probe.cwd \in Dirs
    BY <1>0, <1>5 DEF LoopUsable, Probe
  <2>2. QED BY <1>5, <2>1, Zenon DEF LoopUsable
<1>6. CASE LoopFinish(l)
  <2>1. loop[l].probe.cwd \in Dirs /\ s.Supported
    BY <1>0, <1>6 DEF LoopFinish, Probe, LoopsOK
  <2>2. QED BY <1>6, <2>1, Zenon DEF LoopFinish
<1>7. QED
  BY <1>1, <1>2, <1>3, <1>4, <1>5, <1>6, Zenon DEF Loop

\* Every step does one of these.
LEMMA SessionSteps ==
  ASSUME TypeOK, ReaderOK, LoopsOK, [Next]_vars
  PROVE  \/ Plain \/ GivesUp \/ Boots \/ Moves
         \/ \E c \in Calls : Begins(c)
         \/ \E l \in Loops : Disables(l)
<1>1. ASSUME NEW c \in Calls, Start(c) \/ Call(c) PROVE Plain \/ Begins(c) \/ GivesUp
  BY <1>1, CallSession
<1>2. ASSUME NEW l \in Loops, Loop(l) PROVE Plain \/ Disables(l)
  BY <1>2, LoopSession
<1>3. CASE ReadMarker BY <1>3, Zenon DEF Plain, ReadMarker
<1>4. CASE ReadHandle
  <2>a. CASE ReadInit BY <2>a, Zenon DEF Plain, Boots, ReadInit
  <2>1. CASE ReadEnsure BY <2>1, Zenon DEF Plain, ReadEnsure, ensureSyncProbe
  <2>2. CASE ReadProbe BY <2>2, Zenon DEF Plain, ReadProbe
  <2>3. CASE ReadProbed BY <2>3, Zenon DEF Plain, Moves, ReadProbed
  <2>4. CASE ReadNote
    <3>1. reader.marker \in Marker /\ reader.probe \in Probe
      BY <2>4 DEF ReadNote, ReaderOK, TypeOK
    <3>2. PICK d \in Dirs : s' = notePrompt(d)
      BY <2>4, <3>1 DEF ReadNote, Marker, Probe
    <3>3. QED BY <3>2, Zenon DEF Plain
  <2>5. QED BY <1>4, <2>a, <2>1, <2>2, <2>3, <2>4, Zenon DEF ReadHandle
<1>5. CASE CloseBegin BY <1>5, Zenon DEF Plain, CloseBegin, failPendingDirectoryChange
<1>6. CASE CloseEnd BY <1>6, Zenon DEF Plain, CloseEnd
<1>7. CASE \E newline \in BOOLEAN : UserWrite(newline) BY <1>7, Zenon DEF Plain, UserWrite
<1>8. CASE UserEnsure BY <1>8, Zenon DEF Plain, UserEnsure, ensureSyncProbe
<1>9. CASE ShellRuns \/ ShellSwallows BY <1>9, Zenon DEF Plain, ShellRuns, ShellSwallows
<1>10. CASE UNCHANGED vars BY <1>10, Zenon DEF Plain, vars
<1>11. QED
  BY <1>1, <1>2, <1>3, <1>4, <1>5, <1>6, <1>7, <1>8, <1>9, <1>10, Zenon DEF Next

\* A section that leaves the bootstrap alone leaves its fields alone.
LEMMA PlainEnabling ==
  ASSUME s \in Session, Plain
  PROVE  KeepsEnabling(s')
<1>1. Changers \subseteq Calls /\ Dirs \subseteq Dirs \cup {None}
  BY DEF Calls
<1>2. CASE UNCHANGED s
  BY <1>2 DEF KeepsEnabling
<1>3. CASE s' # s
  BY <1>1, <1>3, SameEnabling, Zenon DEF Plain
<1>4. QED BY <1>2, <1>3

\* What the fields of the bootstrap become.
Become(supported, pid, token, tokens, ch, nonce, pending) ==
  /\ s'.Supported = supported /\ s'.shellPID = pid /\ s'.syncToken = token
  /\ s'.tokens = tokens /\ s'.syncBootstrapCh = ch
  /\ s'.promptNonce = nonce /\ s'.promptPendingNonce = pending
MovesTo(nonce, pending) ==
  Become(s.Supported, s.shellPID, s.syncToken, s.tokens, s.syncBootstrapCh, nonce, pending)

\* What each kind of step makes of the fields of the bootstrap.
LEMMA EnablingStep ==
  ASSUME TypeOK, ReaderOK, LoopsOK, [Next]_vars
  PROVE  \/ Plain /\ MovesTo(s.promptNonce, s.promptPendingNonce)
         \/ /\ Moves
            /\ \/ MovesTo(reader.marker.nonce + 1, 0)
               \/ MovesTo(s.promptNonce, reader.marker.nonce + 1)
         \/ GivesUp /\ Become(FALSE, 0, 0, s.tokens, None, 0, 0)
         \/ /\ Boots
            /\ Become(s.Supported, 1, s.syncToken, s.tokens, None, s.promptNonce, s.promptPendingNonce)
         \/ \E c \in Calls : Begins(c) /\ Become(TRUE, 0, s.tokens + 1, s.tokens + 1, c, 1, 0)
         \/ \E l \in Loops : Disables(l) /\ Become(FALSE, 0, 0, s.tokens, None, 0, 0)
<1>0. ASSUME NEW a, NEW b, NEW c, NEW d, NEW e, NEW f, NEW g, Enabling(s') = <<a, b, c, d, e, f, g>>
      PROVE  Become(a, b, c, d, e, f, g)
  BY <1>0 DEF Enabling, Become
<1>1. s \in Session
  BY DEF TypeOK
<1>2. ASSUME Plain PROVE MovesTo(s.promptNonce, s.promptPendingNonce)
  BY <1>0, <1>1, <1>2, PlainEnabling DEF Enabling, KeepsEnabling, MovesTo
<1>3. ASSUME GivesUp PROVE Become(FALSE, 0, 0, s.tokens, None, 0, 0)
  BY <1>0, <1>1, <1>3, NewEnabling, Zenon DEF GivesUp
<1>4. ASSUME Boots
      PROVE  Become(s.Supported, 1, s.syncToken, s.tokens, None, s.promptNonce, s.promptPendingNonce)
  BY <1>0, <1>1, <1>4, NewEnabling, Zenon DEF Boots
<1>5. ASSUME NEW c \in Calls, Begins(c)
      PROVE  Become(TRUE, 0, s.tokens + 1, s.tokens + 1, c, 1, 0)
  BY <1>0, <1>1, <1>5, NewEnabling, Zenon DEF Begins
<1>6. ASSUME NEW l \in Loops, Disables(l) PROVE Become(FALSE, 0, 0, s.tokens, None, 0, 0)
  BY <1>0, <1>1, <1>6, NewEnabling, Zenon DEF Disables, disableDirectorySync
<1>7. ASSUME Moves
      PROVE  MovesTo(reader.marker.nonce + 1, 0) \/ MovesTo(s.promptNonce, reader.marker.nonce + 1)
  BY <1>0, <1>1, <1>7, NewEnabling, Zenon DEF Moves, MovesTo
<1>8. QED
  BY <1>2, <1>3, <1>4, <1>5, <1>6, <1>7, SessionSteps, Zenon

\* Ready, clean, busy, supported and the directory stay coherent.
LEMMA CoherentStep == TypeOK /\ ReaderOK /\ LoopsOK /\ Coherent /\ [Next]_vars => Coherent'
<1> SUFFICES ASSUME TypeOK, ReaderOK, LoopsOK, Coherent, [Next]_vars PROVE CoherentOf(s')
  BY DEF Coherent, CoherentOf
<1>1. s \in Session /\ CoherentOf(s) /\ None \notin Dirs /\ Changers \subseteq Calls
  BY DirSyncAssumption DEF TypeOK, Coherent, CoherentOf, Calls
<1>2. CASE Plain
  <2>1. CASE UNCHANGED s
    BY <1>1, <2>1
  <2>2. CASE s' # s
    BY <1>1, <1>2, <2>2, CoherentSections, Zenon DEF Plain
  <2>3. QED BY <2>1, <2>2
<1>3. CASE GivesUp BY <1>1, <1>3, CoherentSections, Zenon DEF GivesUp
<1>4. CASE Boots BY <1>1, <1>4, CoherentSections, Zenon DEF Boots
<1>a. CASE Moves BY <1>1, <1>a, CoherentSections, Zenon DEF Moves
<1>5. ASSUME NEW c \in Calls, Begins(c) PROVE CoherentOf(s')
  BY <1>1, <1>5, CoherentSections, Zenon DEF Begins
<1>6. ASSUME NEW l \in Loops, Disables(l) PROVE CoherentOf(s')
  BY <1>1, <1>6, CoherentSections, Zenon DEF Disables, disableDirectorySync
<1>7. QED
  BY <1>2, <1>3, <1>4, <1>a, <1>5, <1>6, SessionSteps, Zenon

\* The sync is supported while it has a token, and a bootstrap waits while no shell is
\* known.
LEMMA BootWaitsStep == TypeOK /\ ReaderOK /\ LoopsOK /\ BootWaits /\ [Next]_vars => BootWaits'
<1> SUFFICES ASSUME TypeOK, ReaderOK, LoopsOK, BootWaits, [Next]_vars PROVE BootWaits'
  OBVIOUS
<1>0. /\ s.tokens \in Nat /\ s.syncToken \in Nat /\ s.promptNonce \in Nat
      /\ s.shellPID \in {0, 1} /\ None \notin Calls
  BY Zenon, DirSyncAssumption DEF TypeOK, Session
<1>1. CASE MovesTo(s.promptNonce, s.promptPendingNonce)
  BY <1>1 DEF MovesTo, Become, BootWaits
<1>2. CASE Moves /\ \/ MovesTo(reader.marker.nonce + 1, 0)
                    \/ MovesTo(s.promptNonce, reader.marker.nonce + 1)
  <2>1. reader.marker.nonce \in Nat /\ s.syncToken > 0
    <3>0. ReadProbed /\ ValidNonce(reader.marker)
      BY <1>2 DEF Moves
    <3>1. reader.pc = "got" /\ ValidNonce(reader.marker)
      BY <3>0 DEF ReadProbed
    <3>a. reader.marker \in Marker
      BY <3>1 DEF ReaderOK
    <3>2. s.syncToken = 0 => s.promptNonce = 0 /\ s.promptPendingNonce = 0
      BY DEF BootWaits
    <3>3. QED BY <1>0, <3>1, <3>a, <3>2 DEF Marker, ValidNonce
  <2>2. QED BY <1>2, <2>1 DEF MovesTo, Become, BootWaits
<1>3. CASE Become(FALSE, 0, 0, s.tokens, None, 0, 0)
  BY <1>3 DEF Become, BootWaits
<1>4. CASE Boots /\ Become(s.Supported, 1, s.syncToken, s.tokens, None, s.promptNonce, s.promptPendingNonce)
  BY <1>0, <1>4 DEF Boots, Become, BootWaits
<1>5. ASSUME NEW c \in Calls, Become(TRUE, 0, s.tokens + 1, s.tokens + 1, c, 1, 0) PROVE BootWaits'
  BY <1>0, <1>5 DEF Become, BootWaits
<1>6. QED BY <1>1, <1>2, <1>3, <1>4, <1>5, EnablingStep, Zenon

\* syncEnableMu is held by the call that began until that call returns.
LEMMA EnableAloneStep == TypeOK /\ EnableAlone /\ [Next]_vars => EnableAlone'
<1> SUFFICES ASSUME TypeOK, EnableAlone, [Next]_vars PROVE EnableAlone'
  OBVIOUS
<1>0. pc \in [Calls -> {"idle", "enable", "inject", "boot", "prepare",
                        "write", "ensure", "wait", "returned"}]
  BY Zenon DEF TypeOK
<1> USE DEF EnableAlone, Goto, Return
<1>1. ASSUME NEW c \in Calls, Start(c) \/ Call(c) PROVE EnableAlone'
  <2>1. CASE Start(c) BY <1>0, <2>1 DEF Start
  <2>2. CASE EnableSync(c)
    <3>1. /\ enableMu = None /\ pc' = [pc EXCEPT ![c] = pc'[c]]
          /\ pc'[c] \in {"inject", "boot"} => enableMu' = c
      BY Zenon, <1>0, <2>2 DEF EnableSync, Enabled, EnableFails
    <3>2. \A d \in Calls : pc[d] \notin {"inject", "boot"}
      BY <3>1, DirSyncAssumption DEF Calls
    <3>3. QED BY <1>0, <3>1, <3>2
  <2>3. CASE Inject(c) BY <1>0, <2>3 DEF Inject, EnableFails
  <2>4. CASE BootTimeout(c) BY <1>0, <2>4 DEF BootTimeout, EnableFails
  <2>5. CASE Booted(c) BY <1>0, <2>5 DEF Booted, Enabled, EnableFails
  <2>6. CASE c \in Changers /\ (Prepare(c) \/ Write(c) \/ Ensure(c) \/ Wait(c) \/ Timeout(c))
    <3>1. enableMu' = enableMu /\ \E l \in {"write", "returned", "ensure", "wait"} : pc' = [pc EXCEPT ![c] = l]
      BY <2>6, Zenon DEF Prepare, Write, Ensure, Wait, Timeout
    <3>2. QED BY <1>0, <3>1
  <2>7. QED BY <1>1, <2>1, <2>2, <2>3, <2>4, <2>5, <2>6 DEF Call
<1>2. ASSUME UNCHANGED <<enableMu, pc>> PROVE EnableAlone'
  BY <1>2
<1>3. ASSUME NEW l \in Loops, Loop(l) PROVE UNCHANGED <<enableMu, pc>>
  BY <1>3, Zenon DEF Loop, LoopTop, LoopStop, LoopProbe, LoopUnusable, LoopUsable, LoopFinish, loopSame
<1>4. CASE \/ ReadMarker \/ ReadHandle \/ CloseBegin \/ CloseEnd
           \/ \E newline \in BOOLEAN : UserWrite(newline)
           \/ UserEnsure \/ ShellRuns \/ ShellSwallows
  BY <1>2, <1>4, Zenon DEF ReadMarker, ReadHandle, ReadInit, ReadEnsure, ReadProbe, ReadProbed, ReadNote, readerSame,
     CloseBegin, CloseEnd, UserWrite, UserEnsure, ShellRuns, ShellSwallows
<1>5. CASE UNCHANGED vars BY <1>5 DEF vars
<1>6. QED BY <1>1, <1>2, <1>3, <1>4, <1>5, Zenon DEF Next

\* A reader that left the top of its loop has a marker.
LEMMA ReaderStep == TypeOK /\ ReaderOK /\ [Next]_vars => ReaderOK'
<1> SUFFICES ASSUME TypeOK, ReaderOK, [Next]_vars PROVE ReaderOK'
  OBVIOUS
<1>0. /\ reader \in [pc : {"read", "init", "ensure", "probe", "got", "note"},
                     marker : Marker \cup {None}, probe : Probe]
      /\ stdout \in Seq(Marker)
  BY Zenon DEF TypeOK
<1>1. CASE ReadMarker
  <2>1. Head(stdout) \in Marker
    BY <1>0, <1>1 DEF ReadMarker
  <2>2. \/ reader' = [reader EXCEPT !.pc = "probe", !.marker = Head(stdout)]
        \/ reader' = [reader EXCEPT !.pc = "init"]
        \/ reader' = reader
    BY <1>1 DEF ReadMarker, Read
  <2>3. QED BY <1>0, <2>1, <2>2 DEF ReaderOK, Reading
<1>2. CASE ReadHandle
  <2>a. CASE ReadInit BY <1>0, <2>a DEF ReadInit, Read, Reading, ReaderOK
  <2>1. CASE ReadEnsure BY <2>1 DEF ReadEnsure, Read, Reading, ReaderOK
  <2>2. CASE ReadProbe BY <1>0, <2>2 DEF ReadProbe, ReaderOK
  <2>3. CASE ReadProbed BY <1>0, <2>3 DEF ReadProbed, Read, Reading, ReaderOK
  <2>4. CASE ReadNote BY <2>4 DEF ReadNote, Read, Reading, ReaderOK
  <2>5. QED BY <1>2, <2>a, <2>1, <2>2, <2>3, <2>4 DEF ReadHandle
<1>3. ASSUME UNCHANGED reader PROVE ReaderOK'
  BY <1>3 DEF ReaderOK
<1>4. ASSUME NEW c \in Calls, Start(c) \/ Call(c) PROVE UNCHANGED reader
  BY <1>4, Zenon DEF Call, Start, EnableSync, Inject, BootTimeout, Booted, Prepare, Write, Ensure, Wait, Timeout
<1>5. ASSUME NEW l \in Loops, Loop(l) PROVE UNCHANGED reader
  BY <1>5, Zenon DEF Loop, LoopTop, LoopStop, LoopProbe, LoopUnusable, LoopUsable, LoopFinish, loopSame
<1>6. CASE \/ CloseBegin \/ CloseEnd \/ \E newline \in BOOLEAN : UserWrite(newline)
           \/ UserEnsure \/ ShellRuns \/ ShellSwallows
  BY <1>3, <1>6, Zenon DEF CloseBegin, CloseEnd, UserWrite, UserEnsure, ShellRuns, ShellSwallows
<1>7. CASE UNCHANGED vars BY <1>3, <1>7 DEF vars
<1>8. QED BY <1>1, <1>2, <1>3, <1>4, <1>5, <1>6, <1>7, Zenon DEF Next

-----------------------------------------------------------------------------
(* The probe loop is alone *)

\* A loop begins.
Starts == /\ ~s.syncProbeActive /\ s.Supported /\ s.shellPID # 0
          /\ loop' = [loop EXCEPT ![FreeLoop] = [NoLoop EXCEPT !.pc = "top"]]
          /\ s' = [s EXCEPT !.syncProbeActive = TRUE]

\* What becomes of the pending change: nothing, it is given up, or there is one now.
Kept == s'.pendingDirChange = s.pendingDirChange /\ UNCHANGED chan
GivenUp == s'.pendingDirChange = None /\ Answer(None)
Prepared(c) == /\ pc[c] = "prepare" /\ pc' = [pc EXCEPT ![c] = "write"]
               /\ s.pendingDirChange = None /\ s'.pendingDirChange = c /\ UNCHANGED chan

\* ensureSyncProbe starts a loop or does nothing.
LEMMA Ensured ==
  ASSUME s \in Session, ensureSyncProbe, UNCHANGED chan
  PROVE  Kept /\ \/ UNCHANGED loop /\ s'.syncProbeActive = s.syncProbeActive
                 \/ Starts
<1>1. CASE UNCHANGED <<s, loop>>
  BY <1>1 DEF Kept
<1>2. CASE ~UNCHANGED <<s, loop>>
  <2>1. Starts
    BY <1>2, Zenon DEF ensureSyncProbe, Starts
  <2>2. Work(s', s.pendingDirChange, TRUE)
    BY <2>1, SectionWork, Zenon DEF Starts
  <2>3. QED BY <2>1, <2>2 DEF Kept, Work
<1>3. QED BY <1>1, <1>2

\* A step that is not one of a loop leaves the loops and their flag alone, or starts one.
LEMMA WorkStep ==
  ASSUME TypeOK, ReaderOK, [Next]_vars
  PROVE  \/ \E l \in Loops : Loop(l)
         \/ Starts /\ Kept
         \/ /\ UNCHANGED loop /\ s'.syncProbeActive = s.syncProbeActive
            /\ Kept \/ GivenUp \/ \E c \in Changers : Prepared(c)
<1> DEFINE Goal == \/ Starts /\ Kept
                   \/ /\ UNCHANGED loop /\ s'.syncProbeActive = s.syncProbeActive
                      /\ Kept \/ GivenUp \/ \E c \in Changers : Prepared(c)
<1>0. s \in Session /\ \A c \in Changers : c \in Calls
  BY DEF TypeOK, Calls
<1>1. ASSUME UNCHANGED <<loop, chan>>, KeepsWork(s') PROVE Goal
  BY <1>1 DEF Kept, KeepsWork, Work
<1>2. ASSUME UNCHANGED <<loop, chan, s>> PROVE Goal
  BY <1>2 DEF Kept
<1>3. ASSUME UNCHANGED loop, failPendingDirectoryChange PROVE Goal
  <2>1. Work(s', None, s.syncProbeActive)
    BY Zenon, <1>0, <1>3, SectionWork DEF failPendingDirectoryChange
  <2>2. QED BY <1>3, <2>1 DEF GivenUp, Work, failPendingDirectoryChange
<1>4. ASSUME ensureSyncProbe, UNCHANGED chan PROVE Goal
  BY <1>0, <1>4, Ensured
<1> HIDE DEF Goal
<1>5. ASSUME NEW c \in Calls, Start(c) \/ Call(c) PROVE Goal
  <2>1. CASE Start(c) BY <1>2, <2>1 DEF Start
  <2>2. CASE EnableSync(c)
    <3>1. CASE UNCHANGED s BY Zenon, <1>2, <2>2, <3>1 DEF EnableSync
    <3>2. CASE s' # s
      <4>1. \E type \in {"bash", "unsupported"} :
              s' = [s EXCEPT !.shellType = type] \/ s' = Bootstrap(c, type)
        BY <2>2, <3>2, EnableSection
      <4>2. KeepsWork(s')
        BY <1>0, <4>1, SectionWork, Zenon
      <4>3. QED BY Zenon, <1>1, <2>2, <4>2 DEF EnableSync
    <3>3. QED BY <3>1, <3>2
  <2>3. CASE Inject(c)
    <3>1. KeepsWork(s')
      <4>1. CASE UNCHANGED s BY <4>1 DEF KeepsWork, Work
      <4>2. CASE s' # s BY <1>0, <2>3, <4>2, SectionWork, Zenon DEF Inject
      <4>3. QED BY <4>1, <4>2
    <3>2. QED BY <1>1, <2>3, <3>1 DEF Inject
  <2>4. CASE BootTimeout(c)
    <3>1. KeepsWork(s')
      BY <1>0, <2>4, SectionWork, Zenon DEF BootTimeout
    <3>2. QED BY <1>1, <2>4, <3>1 DEF BootTimeout
  <2>5. CASE Booted(c) BY <1>2, <2>5 DEF Booted
  <2>6. CASE c \in Changers /\ Prepare(c)
    <3>1. CASE UNCHANGED s BY <1>2, <2>6, <3>1 DEF Prepare
    <3>2. CASE s' # s
      <4>1. /\ s' = prepareDirectoryChange(c) /\ s.pendingDirChange = None
            /\ pc[c] = "prepare" /\ pc' = [pc EXCEPT ![c] = "write"] /\ UNCHANGED <<loop, chan>>
        BY <2>6, <3>2, Zenon DEF Prepare, Goto
      <4>2. Work(s', c, s.syncProbeActive)
        BY <1>0, <4>1, SectionWork, Zenon
      <4>3. QED BY <2>6, <4>1, <4>2 DEF Goal, Prepared, Work
    <3>3. QED BY <3>1, <3>2
  <2>7. CASE c \in Changers /\ Write(c)
    <3>1. CASE s.closed BY <1>3, <2>7, <3>1 DEF Write
    <3>2. CASE ~s.closed BY <1>2, <2>7, <3>2 DEF Write
    <3>3. QED BY <3>1, <3>2
  <2>8. CASE c \in Changers /\ Ensure(c) BY <1>4, <2>8 DEF Ensure
  <2>9. CASE c \in Changers /\ Wait(c) BY <1>2, <2>9 DEF Wait
  <2>10. CASE c \in Changers /\ Timeout(c) BY <1>3, <2>10 DEF Timeout
  <2>11. QED
    BY <1>5, <2>1, <2>2, <2>3, <2>4, <2>5, <2>6, <2>7, <2>8, <2>9, <2>10, Zenon DEF Call
<1>6. ASSUME ReadMarker PROVE Goal
  BY <1>2, <1>6 DEF ReadMarker, readerSame
<1>7. ASSUME ReadHandle PROVE Goal
  <2>a. CASE ReadInit
    <3>1. CASE UNCHANGED s BY <1>2, <2>a, <3>1 DEF ReadInit, readerSame
    <3>2. CASE s' # s
      <4>1. KeepsWork(s')
        BY <1>0, <2>a, <3>2, SectionWork, Zenon DEF ReadInit
      <4>2. QED BY <1>1, <2>a, <4>1 DEF ReadInit, readerSame
    <3>3. QED BY <3>1, <3>2
  <2>1. CASE ReadEnsure BY <1>4, <2>1 DEF ReadEnsure, readerSame
  <2>2. CASE ReadProbe BY <1>2, <2>2 DEF ReadProbe, readerSame
  <2>3. CASE ReadProbed
    <3>1. KeepsWork(s')
      <4>1. CASE UNCHANGED s BY <4>1 DEF KeepsWork, Work
      <4>2. CASE s' # s BY <1>0, <2>3, <4>2, SectionWork, Zenon DEF ReadProbed
      <4>3. QED BY <4>1, <4>2
    <3>2. QED BY <1>1, <2>3, <3>1 DEF ReadProbed, readerSame
  <2>4. CASE ReadNote
    <3>1. reader.marker \in Marker /\ reader.probe \in Probe
      BY <2>4 DEF ReadNote, ReaderOK, TypeOK
    <3>2. PICK d \in Dirs : s' = notePrompt(d)
      BY <2>4, <3>1 DEF ReadNote, Marker, Probe
    <3>3. KeepsWork(s')
      BY <1>0, <3>2, SectionWork, Zenon
    <3>4. QED BY <1>1, <2>4, <3>3 DEF ReadNote, readerSame
  <2>5. QED BY <1>7, <2>a, <2>1, <2>2, <2>3, <2>4, Zenon DEF ReadHandle
<1>8. ASSUME CloseBegin PROVE Goal
  BY <1>3, <1>8 DEF CloseBegin
<1>9. ASSUME CloseEnd PROVE Goal
  <2>1. KeepsWork(s')
    BY <1>0, <1>9, SectionWork, Zenon DEF CloseEnd
  <2>2. QED BY <1>1, <1>9, <2>1 DEF CloseEnd
<1>10. ASSUME NEW newline \in BOOLEAN, UserWrite(newline) PROVE Goal
  <2>1. KeepsWork(s')
    BY <1>0, <1>10, SectionWork, Zenon DEF UserWrite
  <2>2. QED BY <1>1, <1>10, <2>1 DEF UserWrite
<1>11. ASSUME UserEnsure PROVE Goal
  BY <1>4, <1>11 DEF UserEnsure
<1>12. ASSUME ShellRuns \/ ShellSwallows PROVE Goal
  BY <1>2, <1>12 DEF ShellRuns, ShellSwallows
<1>13. ASSUME UNCHANGED vars PROVE Goal
  BY <1>2, <1>13 DEF vars
<1>14. Goal \/ \E l \in Loops : Loop(l)
  BY <1>5, <1>6, <1>7, <1>8, <1>9, <1>10, <1>11, <1>12, <1>13, Zenon DEF Next
<1>15. QED BY <1>14, Zenon DEF Goal

\* A moving loop is the only one to move; it ends, begins anew or goes on, and only its
\* last probe or a confirmation touches the pending change.
Ends(l) == loop'[l].pc = "none" /\ s'.syncProbeActive = FALSE /\ (Kept \/ GivenUp)
Confirms(l) == /\ loop[l].pc = "finish" /\ s'.pendingDirChange = None /\ Answer(loop[l].probe.cwd)
BeginsAnew(l) == /\ loop'[l].pc = "top" /\ s'.syncProbeActive = s.syncProbeActive
                 /\ Kept \/ Confirms(l)
GoesOn(l) ==
  /\ UNCHANGED <<s, chan>>
  /\ \/ loop'[l].pc \in {"stop", "probe"} /\ s.Supported /\ s.shellPID # 0
     \/ loop'[l].pc = "got" /\ loop[l].pc = "probe"
     \/ /\ loop'[l].pc = "finish" /\ loop[l].pc = "got"
        /\ loop'[l].pending = loop[l].pending /\ loop'[l].probe = loop[l].probe
        /\ loop[l].probe.cwd # None
        /\ loop[l].pending # None /\ s.pendingDirChange = loop[l].pending
        /\ loop[l].probe.cwd = target[loop[l].pending]
LEMMA LoopMoves ==
  ASSUME TypeOK, NEW l \in Loops, Loop(l)
  PROVE  /\ loop[l].pc # "none"
         /\ \A m \in Loops \ {l} : loop'[m] = loop[m]
         /\ Ends(l) \/ BeginsAnew(l) \/ GoesOn(l)
<1>0. /\ loop \in [Loops -> LoopType] /\ s \in Session /\ NoLoop.pc = "none"
      /\ loop[l] \in LoopType
  BY DEF TypeOK, LoopType, NoLoop
<1>a. \A p \in 0..MaxUnusable : [NoLoop EXCEPT !.pc = "top", !.bad = p].pc = "top"
  BY DEF NoLoop
<1>1. CASE LoopTop(l)
  <2>1. CASE s.closed \/ ~s.Supported \/ s.shellPID = 0
    <3>1. s' = NoProbing(s) /\ loop' = [loop EXCEPT ![l] = NoLoop] /\ UNCHANGED chan
      BY <1>1, <2>1 DEF LoopTop, Inactive
    <3>2. Work(s', s.pendingDirChange, FALSE)
      BY <1>0, <3>1, SectionWork, Zenon
    <3>3. QED BY <1>0, <1>1, <3>1, <3>2 DEF LoopTop, Ends, Kept, Work
  <2>2. CASE ~(s.closed \/ ~s.Supported \/ s.shellPID = 0)
    <3>1. PICK p \in {"probe", "stop"} :
            loop' = [loop EXCEPT ![l] = [loop[l] EXCEPT !.pending = s.pendingDirChange, !.pc = p]]
      BY <1>1, <2>2 DEF LoopTop
    <3>2. UNCHANGED <<s, chan>> /\ s.Supported /\ s.shellPID # 0 /\ loop[l].pc = "top"
      BY <1>1, <2>2, Zenon DEF LoopTop
    <3>3. QED BY <1>0, <3>1, <3>2 DEF LoopType, GoesOn
  <2>3. QED BY <2>1, <2>2
<1>2. CASE LoopStop(l)
  <2>1. Work(s', s.pendingDirChange, FALSE)
    BY <1>0, <1>2, SectionWork, Zenon DEF LoopStop, Inactive
  <2>2. QED BY <1>0, <1>2, <2>1 DEF LoopStop, Ends, Kept, Work
<1>3. CASE LoopProbe(l)
  <2>1. PICK d : loop' = [loop EXCEPT ![l] = [loop[l] EXCEPT !.pc = "got", !.probe = [cwd |-> d, prompt |-> FALSE]]]
    BY <1>3, Zenon DEF LoopProbe
  <2>2. loop[l].pc = "probe" /\ UNCHANGED <<s, chan>>
    BY <1>3, Zenon DEF LoopProbe
  <2>3. QED BY <1>0, <2>1, <2>2 DEF LoopType, GoesOn
<1>4. CASE LoopUnusable(l)
  <2>1. CASE loop[l].bad + 1 >= MaxUnusable
    <3>1. Answer(None) /\ s' = NoProbing(NoPending(Rollback)) /\ loop' = [loop EXCEPT ![l] = NoLoop]
      BY <1>4, <2>1 DEF LoopUnusable, disableDirectorySync
    <3>2. Work(s', None, FALSE)
      BY <1>0, <3>1, SectionWork, Zenon
    <3>3. QED BY <1>0, <1>4, <3>1, <3>2 DEF LoopUnusable, Ends, GivenUp, Work
  <2>2. CASE ~(loop[l].bad + 1 >= MaxUnusable)
    <3>1. loop[l].bad + 1 \in 0..MaxUnusable
      BY <1>0, <2>2, DirSyncAssumption DEF LoopType
    <3>2. QED BY <1>0, <1>a, <1>4, <2>2, <3>1 DEF LoopUnusable, Again, BeginsAnew, Kept
  <2>3. QED BY <2>1, <2>2
<1>5. CASE LoopUsable(l)
  <2>0. 0 \in 0..MaxUnusable /\ loop[l].probe.cwd \in Dirs
    BY <1>0, <1>5, DirSyncAssumption DEF LoopUsable, LoopType, Probe
  <2>1. CASE Again(l, 0)
    <3>1. s' = s \/ s' = noteObservedCwd(loop[l].probe.cwd)
      BY <1>5, Zenon DEF LoopUsable
    <3>2. KeepsWork(s')
      BY <1>0, <2>0, <3>1, SectionWork DEF KeepsWork, Work
    <3>3. QED BY <1>0, <1>a, <1>5, <2>0, <2>1, <3>2 DEF Again, LoopUsable, KeepsWork, Work, BeginsAnew, Kept
  <2>2. CASE ~Again(l, 0)
    BY <1>0, <1>5, <2>2 DEF LoopUsable, LoopType, GoesOn
  <2>3. QED BY <2>1, <2>2
<1>6. CASE LoopFinish(l)
  <2>1. loop[l].probe.cwd \in Dirs \cup {None} /\ 0 \in 0..MaxUnusable
    BY <1>0, DirSyncAssumption DEF LoopType, Probe
  <2>2. Work(s', None, s.syncProbeActive)
    BY <1>0, <1>6, <2>1, SectionWork, Zenon DEF LoopFinish
  <2>3. QED BY <1>0, <1>a, <1>6, <2>1, <2>2 DEF LoopFinish, Again, Work, BeginsAnew, Confirms
<1>7. QED
  BY <1>1, <1>2, <1>3, <1>4, <1>5, <1>6, Zenon DEF Loop

\* A step leaves the shell that is known alone while a loop works for it, unless it is
\* the loop that gives it up.
LEMMA ShellKept ==
  ASSUME TypeOK, ReaderOK, LoopsOK, BootWaits, [Next]_vars, s.Supported, s.shellPID = 1
  PROVE  \/ s'.Supported /\ s'.shellPID = 1
         \/ \E l \in Loops : Disables(l)
<1>1. ~Boots BY DEF Boots
<1>2. ~GivesUp BY DEF GivesUp, BootWaits
<1>3. \A c \in Calls : ~Begins(c) BY DEF Begins
<1>4. QED BY <1>1, <1>2, <1>3, EnablingStep, Zenon DEF Become, MovesTo

\* There is one loop at most, the flag knows it, and its shell stays known.
LEMMA LoopsOKStep ==
  TypeOK /\ ReaderOK /\ LoopsOK /\ BootWaits /\ TypeOK' /\ [Next]_vars => LoopsOK'
<1> SUFFICES ASSUME TypeOK, ReaderOK, LoopsOK, BootWaits, TypeOK', [Next]_vars PROVE LoopsOK'
  OBVIOUS
<1>0. /\ loop \in [Loops -> LoopType] /\ loop' \in [Loops -> LoopType]
      /\ s.shellPID \in {0, 1} /\ s'.syncProbeActive \in BOOLEAN
  BY Zenon DEF TypeOK, LoopType, Session
<1>1. CASE UNCHANGED loop /\ s'.syncProbeActive = s.syncProbeActive
  <2>1. CASE \E l \in Loops : Disables(l)
    BY <1>0, <1>1, <2>1 DEF Disables, LoopUnusable, NoLoop
  <2>2. CASE ~\E l \in Loops : Disables(l)
    BY <1>1, <2>2, ShellKept DEF LoopsOK
  <2>3. QED BY <2>1, <2>2
<1>2. CASE Starts
  <2>1. [NoLoop EXCEPT !.pc = "top"].pc = "top" BY DEF NoLoop
  <2>2. \A l \in Loops : loop[l].pc = "none" BY <1>2 DEF Starts, LoopsOK
  <2>3. \A l \in Loops : loop'[l].pc # "none" => l = FreeLoop /\ loop'[l].pc = "top"
    BY <1>0, <1>2, <2>1, <2>2 DEF Starts
  <2>4. s'.syncProbeActive
    BY <1>2, SectionWork, Zenon DEF Starts, Work, TypeOK
  <2>5. QED BY <2>3, <2>4 DEF LoopsOK
<1>3. ASSUME NEW l \in Loops, Loop(l) PROVE LoopsOK'
  <2>1. /\ loop[l].pc # "none" /\ \A m \in Loops \ {l} : loop'[m] = loop[m]
        /\ Ends(l) \/ BeginsAnew(l) \/ GoesOn(l)
    BY <1>3, LoopMoves
  <2>2. \A m \in Loops \ {l} : loop'[m].pc = "none"
    BY <2>1 DEF LoopsOK
  <2>3. CASE Ends(l) BY <2>2, <2>3 DEF Ends, LoopsOK
  <2>4. CASE BeginsAnew(l) BY <2>1, <2>2, <2>4 DEF BeginsAnew, LoopsOK
  <2>5. CASE GoesOn(l) BY <1>0, <2>1, <2>2, <2>5 DEF GoesOn, LoopsOK
  <2>6. QED BY <2>1, <2>3, <2>4, <2>5
<1>4. QED BY <1>1, <1>2, <1>3, WorkStep, Zenon

-----------------------------------------------------------------------------
(* The pending change gets one answer *)

Before == {"idle", "enable", "inject", "boot", "prepare"}

\* A call that is past prepareDirectoryChange does not come back to it.
LEMMA CallsAdvance ==
  ASSUME TypeOK, [Next]_vars, NEW c \in Calls, pc'[c] \in Before
  PROVE  pc[c] \in Before
<1>0. pc \in [Calls -> {"idle", "enable", "inject", "boot", "prepare",
                        "write", "ensure", "wait", "returned"}]
  BY Zenon DEF TypeOK
<1>1. ASSUME NEW d \in Calls, Start(d) \/ Call(d) PROVE pc[c] \in Before
  <2>1. \E l : pc' = [pc EXCEPT ![d] = l] /\ (l \in Before => pc[d] \in Before)
    <3>1. CASE Start(d) BY <1>0, <3>1 DEF Start, Goto, Return, Before
    <3>2. CASE EnableSync(d) BY Zenon, <3>2 DEF EnableSync, Enabled, EnableFails, Goto, Return, Before
    <3>3. CASE Inject(d) BY <3>3 DEF Inject, EnableFails, Goto, Return, Before
    <3>4. CASE BootTimeout(d) BY <3>4 DEF BootTimeout, EnableFails, Goto, Return, Before
    <3>5. CASE Booted(d) BY <3>5 DEF Booted, Enabled, EnableFails, Goto, Return, Before
    <3>6. CASE Prepare(d) BY <3>6 DEF Prepare, Goto, Return, Before
    <3>7. CASE Write(d) \/ Ensure(d) \/ Wait(d) \/ Timeout(d)
      <4>1. \E l \in {"ensure", "wait", "returned"} : pc' = [pc EXCEPT ![d] = l]
        BY <3>7, Zenon DEF Write, Ensure, Wait, Timeout, Goto, Return
      <4>2. QED BY <4>1 DEF Before
    <3>8. QED BY <1>1, <3>1, <3>2, <3>3, <3>4, <3>5, <3>6, <3>7, Zenon DEF Call
  <2>2. QED BY <1>0, <2>1
<1>2. ASSUME UNCHANGED pc PROVE pc[c] \in Before
  BY <1>2
<1>3. ASSUME NEW l \in Loops, Loop(l) PROVE UNCHANGED pc
  BY <1>3, Zenon DEF Loop, LoopTop, LoopStop, LoopProbe, LoopUnusable, LoopUsable, LoopFinish, loopSame
<1>4. CASE \/ ReadMarker \/ ReadHandle \/ CloseBegin \/ CloseEnd
           \/ \E newline \in BOOLEAN : UserWrite(newline)
           \/ UserEnsure \/ ShellRuns \/ ShellSwallows
  BY <1>2, <1>4, Zenon DEF ReadMarker, ReadHandle, ReadInit, ReadEnsure, ReadProbe, ReadProbed, ReadNote, readerSame,
     CloseBegin, CloseEnd, UserWrite, UserEnsure, ShellRuns, ShellSwallows
<1>5. CASE UNCHANGED vars BY <1>2, <1>5 DEF vars
<1>6. QED BY <1>1, <1>2, <1>3, <1>4, <1>5, Zenon DEF Next

\* An answer is one more element for the pending call.
LEMMA Answered ==
  ASSUME TypeOK, NEW a, Answer(a), NEW c \in Changers
  PROVE  /\ c # s.pendingDirChange => chan'[c] = chan[c]
         /\ c = s.pendingDirChange => chan'[c] = Append(chan[c], a)
BY DirSyncAssumption DEF TypeOK, Answer, Calls

\* Every step keeps the pending change, gives it up, confirms it, or makes one pending.
LEMMA ChangeStep ==
  ASSUME TypeOK, ReaderOK, [Next]_vars
  PROVE  \/ Kept \/ GivenUp
         \/ \E c \in Changers : Prepared(c) /\ UNCHANGED loop
         \/ \E l \in Loops : /\ Confirms(l) /\ loop'[l].pc = "top"
                             /\ \A m \in Loops \ {l} : loop'[m] = loop[m]
<1>1. ASSUME NEW l \in Loops, Loop(l)
      PROVE  \/ Kept \/ GivenUp
             \/ /\ Confirms(l) /\ loop'[l].pc = "top"
                /\ \A m \in Loops \ {l} : loop'[m] = loop[m]
  BY <1>1, LoopMoves DEF Ends, BeginsAnew, GoesOn, Kept
<1>2. QED BY <1>1, WorkStep, Zenon

\* The pending change is unanswered, and so is one that is not prepared.
LEMMA PendingOKStep ==
  TypeOK /\ ReaderOK /\ PendingOK /\ TypeOK' /\ [Next]_vars => PendingOK'
<1> SUFFICES ASSUME TypeOK, ReaderOK, PendingOK, TypeOK', [Next]_vars, NEW c \in Changers
             PROVE  /\ s'.pendingDirChange = c => chan'[c] = <<>>
                    /\ pc'[c] \in Before => chan'[c] = <<>> /\ s'.pendingDirChange # c
  BY DEF PendingOK, Before
<1>0. /\ s.pendingDirChange = c => chan[c] = <<>>
      /\ pc[c] \in Before => chan[c] = <<>> /\ s.pendingDirChange # c
      /\ pc'[c] \in Before => pc[c] \in Before
      /\ c # None /\ c \in Calls
  BY CallsAdvance, DirSyncAssumption DEF PendingOK, Before, Calls
<1>1. CASE Kept BY <1>0, <1>1 DEF Kept
<1>2. ASSUME NEW a, Answer(a), s'.pendingDirChange = None
      PROVE  /\ s'.pendingDirChange = c => chan'[c] = <<>>
             /\ pc'[c] \in Before => chan'[c] = <<>> /\ s'.pendingDirChange # c
  BY <1>0, <1>2, Answered
<1>3. CASE GivenUp BY <1>2, <1>3 DEF GivenUp
<1>4. ASSUME NEW d \in Changers, Prepared(d)
      PROVE  /\ s'.pendingDirChange = c => chan'[c] = <<>>
             /\ pc'[c] \in Before => chan'[c] = <<>> /\ s'.pendingDirChange # c
  <2>1. CASE d = c BY <1>0, <1>4, <2>1 DEF Prepared, Before, TypeOK
  <2>2. CASE d # c BY <1>0, <1>4, <2>2 DEF Prepared
  <2>3. QED BY <2>1, <2>2
<1>5. ASSUME NEW l \in Loops, Confirms(l)
      PROVE  /\ s'.pendingDirChange = c => chan'[c] = <<>>
             /\ pc'[c] \in Before => chan'[c] = <<>> /\ s'.pendingDirChange # c
  BY <1>2, <1>5 DEF Confirms
<1>6. QED BY <1>1, <1>3, <1>4, <1>5, ChangeStep, Zenon

\* What a step adds to the answers.
LEMMA AnswerStep ==
  ASSUME TypeOK, ReaderOK, PendingOK, [Next]_vars, NEW c \in Changers
  PROVE  \/ chan'[c] = chan[c]
         \/ chan[c] = <<>> /\ chan'[c] = <<None>>
         \/ /\ chan[c] = <<>> /\ c = s.pendingDirChange
            /\ \E l \in Loops : Confirms(l) /\ chan'[c] = <<loop[l].probe.cwd>>
<1>1. CASE Kept BY <1>1 DEF Kept
<1>2. ASSUME NEW a, Answer(a)
      PROVE  \/ chan'[c] = chan[c]
             \/ chan[c] = <<>> /\ chan'[c] = <<a>> /\ c = s.pendingDirChange
  <2>1. CASE c = s.pendingDirChange
    <3>1. chan[c] = <<>> BY <2>1 DEF PendingOK
    <3>2. chan'[c] = Append(<<>>, a) BY <1>2, <2>1, <3>1, Answered
    <3>3. QED BY <2>1, <3>1, <3>2
  <2>2. CASE c # s.pendingDirChange BY <1>2, <2>2, Answered
  <2>3. QED BY <2>1, <2>2
<1>3. CASE GivenUp BY <1>2, <1>3 DEF GivenUp
<1>4. ASSUME NEW d \in Changers, Prepared(d) PROVE chan'[c] = chan[c]
  BY <1>4 DEF Prepared
<1>5. ASSUME NEW l \in Loops, Confirms(l)
      PROVE  \/ chan'[c] = chan[c]
             \/ chan[c] = <<>> /\ chan'[c] = <<loop[l].probe.cwd>> /\ c = s.pendingDirChange
  BY <1>2, <1>5 DEF Confirms
<1>6. QED BY <1>1, <1>3, <1>4, <1>5, ChangeStep, Zenon

\* No second answer.
LEMMA AnsweredOnceStep ==
  TypeOK /\ ReaderOK /\ PendingOK /\ AnsweredOnce /\ [Next]_vars => AnsweredOnce'
<1> SUFFICES ASSUME TypeOK, ReaderOK, PendingOK, AnsweredOnce, [Next]_vars, NEW c \in Changers
             PROVE  Len(chan'[c]) <= 1
  BY DEF AnsweredOnce
<1>1. CASE chan'[c] = chan[c] BY <1>1 DEF AnsweredOnce
<1>2. ASSUME NEW a, chan'[c] = <<a>> PROVE Len(chan'[c]) <= 1
  BY <1>2
<1>3. QED BY <1>1, <1>2, AnswerStep

\* Nothing has been given up so far.
NoneGivenUp == \A c \in Changers : None \notin Range(chan[c])

\* What was given up stays given up.
LEMMA GivenUpStays ==
  ASSUME TypeOK, ReaderOK, PendingOK, [Next]_vars, NoneGivenUp'
  PROVE  NoneGivenUp
<1> SUFFICES ASSUME NEW c \in Changers PROVE None \notin Range(chan[c])
  BY DEF NoneGivenUp
<1>1. None \notin Range(chan'[c])
  BY DEF NoneGivenUp
<1>2. CASE chan'[c] = chan[c] BY <1>1, <1>2
<1>3. CASE chan[c] = <<>> BY <1>3 DEF Range
<1>4. QED BY <1>2, <1>3, AnswerStep

\* Giving up a change that is pending is noticed.
LEMMA GivingUpShows ==
  ASSUME TypeOK, PendingOK, GivenUp, s.pendingDirChange # None
  PROVE  ~NoneGivenUp'
<1> DEFINE p == s.pendingDirChange
<1>1. p \in Changers
  BY Zenon DEF TypeOK, Session
<1>2. chan[p] = <<>> /\ chan'[p] = Append(<<>>, None)
  BY <1>1, Answered DEF PendingOK, GivenUp
<1>3. chan'[p] = <<None>>
  BY <1>2
<1>4. None \in Range(chan'[p])
  BY <1>3 DEF Range
<1>5. QED BY <1>1, <1>4, Zenon DEF NoneGivenUp

\* Until something is given up, the loop that confirms confirms what is pending.
LEMMA ConfirmsPendingStep ==
  TypeOK /\ ReaderOK /\ LoopsOK /\ PendingOK /\ ConfirmsPending /\ [Next]_vars => ConfirmsPending'
<1> DEFINE Ready(l) == /\ loop[l].pending \in Changers /\ s.pendingDirChange = loop[l].pending
                       /\ loop[l].probe.cwd = target[loop[l].pending]
<1> SUFFICES ASSUME TypeOK, ReaderOK, LoopsOK, PendingOK, ConfirmsPending, [Next]_vars, NoneGivenUp',
                    NEW l \in Loops, loop'[l].pc = "finish"
             PROVE  Ready(l)'
  BY DEF ConfirmsPending, NoneGivenUp
<1>0. loop \in [Loops -> LoopType] /\ None \notin Changers
  BY DirSyncAssumption, Zenon DEF TypeOK, LoopType, Calls
<1>1. loop[l].pc = "finish" => Ready(l)
  BY GivenUpStays, Zenon DEF ConfirmsPending, NoneGivenUp
<1>2. CASE loop'[l] = loop[l] /\ s'.pendingDirChange = s.pendingDirChange
  BY <1>1, <1>2
<1>3. ASSUME NEW m \in Loops, Loop(m) PROVE Ready(l)'
  <2>1. /\ loop[m].pc # "none" /\ \A n \in Loops \ {m} : loop'[n] = loop[n]
        /\ Ends(m) \/ BeginsAnew(m) \/ GoesOn(m)
    BY <1>3, LoopMoves
  <2>2. l = m
    BY <2>1 DEF LoopsOK
  <2>3. GoesOn(l)
    BY <2>1, <2>2 DEF Ends, BeginsAnew
  <2>4. QED BY <1>0, <2>3 DEF GoesOn, LoopType
<1>4. CASE Starts /\ Kept
  <2>1. [NoLoop EXCEPT !.pc = "top"].pc = "top" BY DEF NoLoop
  <2>2. loop'[l] = loop[l] BY <1>0, <1>4, <2>1 DEF Starts
  <2>3. QED BY <1>2, <1>4, <2>2 DEF Kept
<1>5. CASE UNCHANGED loop /\ Kept
  BY <1>2, <1>5 DEF Kept
<1>6. CASE UNCHANGED loop /\ (GivenUp \/ \E c \in Changers : Prepared(c))
  <2>1. s.pendingDirChange # None
    BY <1>0, <1>1, <1>6
  <2>2. QED BY <1>6, <2>1, GivingUpShows DEF Prepared
<1>7. QED BY <1>3, <1>4, <1>5, <1>6, WorkStep, Zenon

\* A change that succeeded was confirmed, until something is given up.
LEMMA ConfirmedStep ==
  TypeOK /\ ReaderOK /\ PendingOK /\ ConfirmsPending /\ ConfirmedUnlessGivenUp /\ [Next]_vars
    => ConfirmedUnlessGivenUp'
<1> SUFFICES ASSUME TypeOK, ReaderOK, PendingOK, ConfirmsPending, ConfirmedUnlessGivenUp, [Next]_vars,
                    NoneGivenUp', NEW c \in Changers, chan'[c] # <<>>
             PROVE  chan'[c][1] = target[c]
  BY DEF ConfirmedUnlessGivenUp, NoneGivenUp
<1>1. NoneGivenUp
  BY GivenUpStays
<1>2. CASE chan'[c] = chan[c]
  BY <1>1, <1>2, Zenon DEF ConfirmedUnlessGivenUp, NoneGivenUp
<1>3. CASE chan'[c] = <<None>>
  <2>1. None \in Range(chan'[c]) BY <1>3 DEF Range
  <2>2. QED BY <2>1, Zenon DEF NoneGivenUp
<1>4. ASSUME NEW l \in Loops, Confirms(l), c = s.pendingDirChange, chan'[c] = <<loop[l].probe.cwd>>
      PROVE  chan'[c][1] = target[c]
  <2>1. s.pendingDirChange = loop[l].pending /\ loop[l].probe.cwd = target[loop[l].pending]
    BY <1>1, <1>4, Zenon DEF Confirms, ConfirmsPending, NoneGivenUp
  <2>2. QED BY <1>4, <2>1
<1>5. QED BY <1>2, <1>3, <1>4, AnswerStep, Zenon

-----------------------------------------------------------------------------
(* Hooks reach the shell in the order of their tokens *)

Hook(q, i) == i \in 1..Len(q) /\ q[i].kind = "hook"

\* A line that is added comes last; a line that is taken is the first.
LEMMA Added ==
  ASSUME stdin \in Seq(Line), NEW line, stdin' = Append(stdin, line), NEW i \in 1..Len(stdin')
  PROVE  \/ i \in 1..Len(stdin) /\ stdin'[i] = stdin[i]
         \/ i = Len(stdin) + 1 /\ stdin'[i] = line
OBVIOUS

LineTaken == stdin # <<>> /\ stdin' = Tail(stdin)

\* The lines behind the first move up.
LEMMA Taken ==
  ASSUME stdin \in Seq(Line), LineTaken
  PROVE  /\ 1 \in 1..Len(stdin) /\ Head(stdin) = stdin[1]
         /\ \A i \in 1..Len(stdin') : i + 1 \in 1..Len(stdin) /\ stdin'[i] = stdin[i + 1]
<1>1. Len(stdin) \in Nat /\ Len(stdin) > 0
  BY DEF LineTaken
<1>2. Len(stdin') = Len(stdin) - 1 /\ Head(stdin) = stdin[1]
  BY <1>1 DEF LineTaken
<1>3. \A i \in 1..Len(stdin') : i + 1 \in 1..Len(stdin) /\ stdin'[i] = stdin[i + 1]
  BY <1>1, <1>2 DEF LineTaken
<1>4. QED BY <1>1, <1>2, <1>3

\* What a step does to the shell, its input and its output.
Hooks(c) == /\ pc[c] = "inject" /\ pc' = [pc EXCEPT ![c] = "boot"]
            /\ stdin' = Append(stdin, [kind |-> "hook", token |-> s.tokens])
            /\ UNCHANGED <<s, shell, stdout>>
Queues == /\ \E line \in Line : line.kind # "hook" /\ stdin' = Append(stdin, line)
          /\ UNCHANGED <<shell, stdout>>
LEMMA ShellSteps ==
  ASSUME TypeOK, [Next]_vars
  PROVE  \/ UNCHANGED <<shell, stdin, stdout>>
         \/ UNCHANGED <<shell, stdin>> /\ stdout # <<>> /\ stdout' = Tail(stdout)
         \/ \E c \in Calls : Hooks(c)
         \/ Queues
         \/ ShellRuns \/ ShellSwallows
<1>1. ASSUME NEW c \in Calls, Start(c) \/ Call(c)
      PROVE  UNCHANGED <<shell, stdin, stdout>> \/ Hooks(c) \/ Queues
  <2>1. CASE Inject(c)
    BY <2>1, Zenon DEF Inject, Hooks, Goto
  <2>2. CASE c \in Changers /\ Write(c)
    <3>1. CASE s.closed BY <2>2, <3>1, Zenon DEF Write
    <3>2. CASE ~s.closed
      <4>1. [kind |-> "cd", dir |-> target[c]] \in Line
        BY <2>2, DirSyncAssumption DEF Line
      <4>2. stdin' = Append(stdin, [kind |-> "cd", dir |-> target[c]]) /\ UNCHANGED <<shell, stdout>>
        BY <2>2, <3>2, Zenon DEF Write
      <4>3. QED BY <4>1, <4>2 DEF Queues
    <3>3. QED BY <3>1, <3>2
  <2>3. CASE ~Inject(c) /\ ~(c \in Changers /\ Write(c))
    BY <1>1, <2>3, Zenon DEF Call, Start, EnableSync, BootTimeout, Booted, Prepare, Ensure, Wait, Timeout
  <2>4. QED BY <2>1, <2>2, <2>3
<1>2. ASSUME NEW l \in Loops, Loop(l) PROVE UNCHANGED <<shell, stdin, stdout>>
  BY <1>2, Zenon DEF Loop, LoopTop, LoopStop, LoopProbe, LoopUnusable, LoopUsable, LoopFinish, loopSame
<1>3. CASE ReadMarker BY <1>3, Zenon DEF ReadMarker, readerSame
<1>4. ASSUME ReadHandle \/ CloseBegin \/ CloseEnd \/ UserEnsure
      PROVE  UNCHANGED <<shell, stdin, stdout>>
  BY <1>4, Zenon DEF ReadHandle, ReadInit, ReadEnsure, ReadProbe, ReadProbed, ReadNote, readerSame,
     CloseBegin, CloseEnd, UserEnsure
<1>5. ASSUME NEW newline \in BOOLEAN, UserWrite(newline)
      PROVE  UNCHANGED <<shell, stdin, stdout>> \/ Queues
  <2>1. CASE newline
    <3>1. [kind |-> "user"] \in [kind : {"user"}] /\ [kind |-> "user"].kind = "user"
      BY Zenon
    <3>2. [kind |-> "user"] \in Line /\ [kind |-> "user"].kind # "hook"
      BY <3>1 DEF Line
    <3>3. stdin' = Append(stdin, [kind |-> "user"]) /\ UNCHANGED <<shell, stdout>>
      BY <1>5, <2>1, Zenon DEF UserWrite
    <3>4. QED BY <3>2, <3>3, Zenon DEF Queues
  <2>2. CASE ~newline
    BY <1>5, <2>2, Zenon DEF UserWrite
  <2>3. QED BY <1>5, <2>1, <2>2
<1>6. CASE UNCHANGED vars BY <1>6, Zenon DEF vars
<1>7. QED BY <1>1, <1>2, <1>3, <1>4, <1>5, <1>6, Zenon DEF Next

\* Tokens only grow.
LEMMA TokensGrow ==
  ASSUME TypeOK, ReaderOK, LoopsOK, [Next]_vars
  PROVE  s.tokens \in Nat /\ s'.tokens \in Nat /\ s.tokens <= s'.tokens
<1>1. s.tokens \in Nat
  BY Zenon DEF TypeOK, Session
<1>2. s'.tokens = s.tokens \/ s'.tokens = s.tokens + 1
  BY EnablingStep, Zenon DEF Become, MovesTo
<1>3. QED BY <1>1, <1>2

\* What the parts of HooksOrdered say of one line, or of two.
LEMMA HookFacts ==
  ASSUME TypeOK, HooksOrdered
  PROVE  /\ shell.token \in Nat /\ shell.token <= s.tokens
         /\ \A i : Hook(stdin, i) => /\ stdin[i].token \in Nat
                                     /\ shell.token < stdin[i].token /\ stdin[i].token <= s.tokens
         /\ \A i, j : Hook(stdin, i) /\ Hook(stdin, j) /\ i < j => stdin[i].token < stdin[j].token
<1>1. \A i \in 1..Len(stdin) : stdin[i] \in Line
  BY DEF TypeOK
<1>2. \A i \in 1..Len(stdin) : stdin[i].kind = "hook" => stdin[i].token \in Nat
  BY <1>1, LineKinds
<1>3. shell.token \in Nat
  BY DEF TypeOK
<1>4. QED BY <1>2, <1>3 DEF HooksOrdered, IsHook, Hook

\* A line that runs: its token, if it is a hook, becomes the shell's.
LEMMA RunsHook ==
  ASSUME TypeOK, HooksOrdered, ShellRuns
  PROVE  /\ LineTaken /\ UNCHANGED <<s, pc>>
         /\ \E hook \in BOOLEAN, n \in Nat, d \in Dirs :
              /\ hook = Hook(stdin, 1)
              /\ shell'.token = IF hook THEN stdin[1].token ELSE shell.token
              /\ n = IF hook THEN 1 ELSE shell.nonce
              /\ shell'.nonce = n + 1
              /\ stdout' = stdout \o Printed(hook, shell'.token, n, d)
         /\ shell'.token \in Nat /\ shell.token <= shell'.token
         /\ Hook(stdin, 1) => shell.token < shell'.token
<1>1. LineTaken /\ stdin \in Seq(Line) /\ UNCHANGED <<s, pc>>
  BY LineRan DEF LineTaken, TypeOK
<1>2. 1 \in 1..Len(stdin) /\ Head(stdin) = stdin[1]
  BY <1>1, Taken
<1>3. PICK hook \in BOOLEAN, tok \in Nat, n \in Nat, d \in Dirs :
        /\ hook = (Head(stdin).kind = "hook")
        /\ tok = IF hook THEN Head(stdin).token ELSE shell.token
        /\ n = IF hook THEN 1 ELSE shell.nonce
        /\ shell' = [cwd |-> d, token |-> tok, nonce |-> n + 1]
        /\ stdout' = stdout \o Printed(hook, tok, n, d)
  BY LineRan
<1>4. hook = Hook(stdin, 1)
  BY <1>2, <1>3 DEF Hook
<1>5. shell'.token = tok /\ tok = IF hook THEN stdin[1].token ELSE shell.token
  BY <1>2, <1>3
<1>6. shell.token \in Nat /\ shell.token <= tok /\ (Hook(stdin, 1) => shell.token < tok)
  BY <1>3, <1>4, <1>5, HookFacts
<1>7. QED
  BY <1>1, <1>3, <1>4, <1>5, <1>6

\* The waiting hooks stay in the order of their tokens, newer than the shell's.
LEMMA StdinStep ==
  ASSUME TypeOK, ReaderOK, LoopsOK, HooksOrdered, HookUnwritten, TypeOK', [Next]_vars
  PROVE  /\ \A i, j : Hook(stdin', i) /\ Hook(stdin', j) /\ i < j => stdin'[i].token < stdin'[j].token
         /\ \A i : Hook(stdin', i) => shell'.token < stdin'[i].token /\ stdin'[i].token <= s'.tokens
         /\ shell'.token <= s'.tokens
<1>0. /\ s.tokens \in Nat /\ s'.tokens \in Nat /\ s.tokens <= s'.tokens
      /\ shell.token \in Nat /\ shell.token <= s.tokens
      /\ \A i : Hook(stdin, i) => /\ stdin[i].token \in Nat
                                  /\ shell.token < stdin[i].token /\ stdin[i].token <= s.tokens
      /\ \A i, j : Hook(stdin, i) /\ Hook(stdin, j) /\ i < j => stdin[i].token < stdin[j].token
  BY TokensGrow, HookFacts
<1>1. stdin \in Seq(Line)
  BY DEF TypeOK
<1> DEFINE Goal == /\ \A i, j : Hook(stdin', i) /\ Hook(stdin', j) /\ i < j => stdin'[i].token < stdin'[j].token
                   /\ \A i : Hook(stdin', i) => shell'.token < stdin'[i].token /\ stdin'[i].token <= s'.tokens
                   /\ shell'.token <= s'.tokens
<1>2. ASSUME UNCHANGED <<shell, stdin>> PROVE Goal
  BY <1>0, <1>2
<1>3. ASSUME NEW c \in Calls, Hooks(c) PROVE Goal
  <2> DEFINE line == [kind |-> "hook", token |-> s.tokens]
  <2>1. /\ stdin' = Append(stdin, line) /\ line.token = s.tokens
        /\ UNCHANGED shell /\ s'.tokens = s.tokens /\ pc[c] = "inject"
    BY <1>3 DEF Hooks
  <2>2. /\ shell.token < s.tokens
        /\ \A i : Hook(stdin, i) => stdin[i].token < s.tokens
    BY <2>1 DEF HookUnwritten, IsHook, Hook
  <2> HIDE DEF line
  <2>3. \A i : Hook(stdin', i) => /\ i \in Nat
                                  /\ \/ Hook(stdin, i) /\ stdin'[i] = stdin[i] /\ i <= Len(stdin)
                                     \/ i = Len(stdin) + 1 /\ stdin'[i] = line
    BY <1>1, <2>1, Added DEF Hook
  <2>4. Len(stdin) \in Nat
    BY <1>1
  <2>5. ASSUME NEW i, NEW j, Hook(stdin', i), Hook(stdin', j), i < j
        PROVE  stdin'[i].token < stdin'[j].token
    <3>1. Hook(stdin, i) /\ stdin'[i] = stdin[i]
      BY <2>3, <2>4, <2>5
    <3>2. CASE Hook(stdin, j) /\ stdin'[j] = stdin[j]
      BY <1>0, <2>5, <3>1, <3>2
    <3>3. CASE stdin'[j] = line
      BY <2>1, <2>2, <3>1, <3>3
    <3>4. QED BY <2>3, <2>5, <3>2, <3>3
  <2>6. ASSUME NEW i, Hook(stdin', i)
        PROVE  shell'.token < stdin'[i].token /\ stdin'[i].token <= s'.tokens
    BY <1>0, <2>1, <2>2, <2>3, <2>6
  <2>7. QED BY <1>0, <2>1, <2>5, <2>6
<1>4. ASSUME Queues PROVE Goal
  <2>1. PICK line \in Line : line.kind # "hook" /\ stdin' = Append(stdin, line)
    BY <1>4 DEF Queues
  <2>2. \A i : Hook(stdin', i) => Hook(stdin, i) /\ stdin'[i] = stdin[i]
    BY <1>1, <2>1, Added DEF Hook
  <2>3. UNCHANGED shell
    BY <1>4 DEF Queues
  <2>4. QED BY <1>0, <2>2, <2>3
<1>5. ASSUME LineTaken
      PROVE  \A i : Hook(stdin', i) => i \in Int /\ i > 0 /\ Hook(stdin, i + 1) /\ stdin'[i] = stdin[i + 1]
  BY <1>1, <1>5, Taken DEF Hook
<1>6. ASSUME LineTaken
      PROVE  \A i, j : Hook(stdin', i) /\ Hook(stdin', j) /\ i < j => stdin'[i].token < stdin'[j].token
  <2>1. ASSUME NEW i, NEW j, Hook(stdin', i), Hook(stdin', j), i < j
        PROVE  stdin'[i].token < stdin'[j].token
    <3>1. /\ Hook(stdin, i + 1) /\ stdin'[i] = stdin[i + 1]
          /\ Hook(stdin, j + 1) /\ stdin'[j] = stdin[j + 1] /\ i + 1 < j + 1
      BY <1>5, <1>6, <2>1
    <3>2. QED BY <1>0, <3>1
  <2>2. QED BY <2>1
<1>7. ASSUME ShellRuns PROVE Goal
  <2>1. /\ LineTaken /\ UNCHANGED s
        /\ shell'.token = IF Hook(stdin, 1) THEN stdin[1].token ELSE shell.token
    BY <1>7, RunsHook
  <2>2. ASSUME NEW i, Hook(stdin', i)
        PROVE  shell'.token < stdin'[i].token /\ stdin'[i].token <= s'.tokens
    <3>1. Hook(stdin, i + 1) /\ stdin'[i] = stdin[i + 1] /\ 1 < i + 1
      BY <1>5, <2>1, <2>2
    <3>2. QED BY <1>0, <2>1, <3>1
  <2>3. QED BY <1>0, <1>6, <2>1, <2>2
<1>8. ASSUME ShellSwallows PROVE Goal
  <2>1. LineTaken /\ UNCHANGED <<s, shell>>
    BY <1>8 DEF ShellSwallows, LineTaken
  <2>2. ASSUME NEW i, Hook(stdin', i)
        PROVE  shell'.token < stdin'[i].token /\ stdin'[i].token <= s'.tokens
    <3>1. Hook(stdin, i + 1) /\ stdin'[i] = stdin[i + 1]
      BY <1>5, <2>1, <2>2
    <3>2. QED BY <1>0, <2>1, <3>1
  <2>3. QED BY <1>0, <1>6, <2>1, <2>2
<1> HIDE DEF Goal
<1>9. Goal
  BY <1>2, <1>3, <1>4, <1>7, <1>8, ShellSteps, Zenon
<1>10. QED BY <1>9 DEF Goal

\* Hooks stay in order.
LEMMA HooksOrderedStep ==
  TypeOK /\ ReaderOK /\ LoopsOK /\ HooksOrdered /\ HookUnwritten /\ TypeOK' /\ [Next]_vars => HooksOrdered'
<1> SUFFICES ASSUME TypeOK, ReaderOK, LoopsOK, HooksOrdered, HookUnwritten, TypeOK', [Next]_vars
             PROVE  HooksOrdered'
  OBVIOUS
<1>1. /\ \A i, j : Hook(stdin', i) /\ Hook(stdin', j) /\ i < j => stdin'[i].token < stdin'[j].token
      /\ \A i : Hook(stdin', i) => shell'.token < stdin'[i].token /\ stdin'[i].token <= s'.tokens
      /\ shell'.token <= s'.tokens
  BY StdinStep
<1>2. QED BY <1>1 DEF HooksOrdered, IsHook, Hook

\* A call comes to its hook by a bootstrap only.
LEMMA ToInject ==
  ASSUME TypeOK, [Next]_vars, NEW c \in Calls, pc'[c] = "inject"
  PROVE  pc[c] = "inject" \/ Begins(c)
<1>0. pc \in [Calls -> {"idle", "enable", "inject", "boot", "prepare",
                        "write", "ensure", "wait", "returned"}]
  BY Zenon DEF TypeOK
<1>1. ASSUME NEW d \in Calls, Start(d) \/ Call(d) PROVE pc[c] = "inject" \/ Begins(c)
  <2>1. CASE EnableSync(d)
    <3>1. CASE Enabled(d) BY <1>0, <3>1 DEF Enabled, Goto, Return
    <3>2. CASE ~Enabled(d)
      <4>1. PICK type \in {"bash", "unsupported"} :
              \/ EnableFails(d)
              \/ s' = Bootstrap(d, type) /\ Goto(d, "inject")
        BY <2>1, <3>2, EnableSection
      <4>2. CASE EnableFails(d) BY <1>0, <4>2 DEF EnableFails, Return, Goto
      <4>3. CASE s' = Bootstrap(d, type) /\ Goto(d, "inject")
        <5>1. CASE c = d
          <6>1. ~(s.Supported /\ s.shellPID > 0)
            BY <2>1, <3>2, EnableSection
          <6>2. QED BY <2>1, <4>3, <5>1, <6>1, Zenon DEF Begins, EnableSync, Goto
        <5>2. CASE c # d BY <1>0, <4>3, <5>2 DEF Goto
        <5>3. QED BY <5>1, <5>2
      <4>4. QED BY <4>1, <4>2, <4>3
    <3>3. QED BY <3>1, <3>2
  <2>2. ASSUME NEW l, l # "inject", pc' = [pc EXCEPT ![d] = l] PROVE pc[c] = "inject"
    BY <1>0, <2>2
  <2>3. CASE Start(d) BY <2>2, <2>3 DEF Start, Goto, Return
  <2>4. CASE Inject(d) \/ BootTimeout(d) \/ Booted(d)
    <3>1. \E l \in {"boot", "returned", "prepare"} : pc' = [pc EXCEPT ![d] = l]
      BY <2>4, Zenon DEF Inject, BootTimeout, Booted, Enabled, EnableFails, Goto, Return
    <3>2. QED BY <2>2, <3>1
  <2>5. CASE Prepare(d) \/ Write(d) \/ Ensure(d) \/ Wait(d) \/ Timeout(d)
    <3>1. \E l \in {"write", "ensure", "wait", "returned"} : pc' = [pc EXCEPT ![d] = l]
      BY <2>5, Zenon DEF Prepare, Write, Ensure, Wait, Timeout, Goto, Return
    <3>2. QED BY <2>2, <3>1
  <2>6. QED BY <1>1, <2>1, <2>3, <2>4, <2>5, Zenon DEF Call
<1>2. ASSUME UNCHANGED pc PROVE pc[c] = "inject"
  BY <1>2
<1>3. ASSUME NEW l \in Loops, Loop(l) PROVE UNCHANGED pc
  BY <1>3, Zenon DEF Loop, LoopTop, LoopStop, LoopProbe, LoopUnusable, LoopUsable, LoopFinish, loopSame
<1>4. CASE \/ ReadMarker \/ ReadHandle \/ CloseBegin \/ CloseEnd
           \/ \E newline \in BOOLEAN : UserWrite(newline)
           \/ UserEnsure \/ ShellRuns \/ ShellSwallows
  BY <1>2, <1>4, Zenon DEF ReadMarker, ReadHandle, ReadInit, ReadEnsure, ReadProbe, ReadProbed, ReadNote, readerSame,
     CloseBegin, CloseEnd, UserWrite, UserEnsure, ShellRuns, ShellSwallows
<1>5. CASE UNCHANGED vars BY <1>2, <1>5 DEF vars
<1>6. QED BY <1>1, <1>2, <1>3, <1>4, <1>5, Zenon DEF Next

\* A token that is not written yet is the newest.
LEMMA HookUnwrittenStep ==
  /\ TypeOK /\ ReaderOK /\ LoopsOK /\ EnableAlone /\ HooksOrdered /\ HookUnwritten /\ TypeOK' /\ [Next]_vars
    => HookUnwritten'
<1> SUFFICES ASSUME TypeOK, ReaderOK, LoopsOK, EnableAlone, HooksOrdered, HookUnwritten, TypeOK', [Next]_vars,
                    NEW c \in Calls, pc'[c] = "inject"
             PROVE  /\ shell'.token < s'.tokens
                    /\ \A i : Hook(stdin', i) => stdin'[i].token < s'.tokens
  BY DEF HookUnwritten, IsHook, Hook
<1>0. /\ s.tokens \in Nat
      /\ shell.token \in Nat /\ shell.token <= s.tokens
      /\ \A i : Hook(stdin, i) => /\ stdin[i].token \in Nat
                                  /\ shell.token < stdin[i].token /\ stdin[i].token <= s.tokens
  BY TokensGrow, HookFacts
<1>1. stdin \in Seq(Line)
  BY DEF TypeOK
<1>2. ASSUME NEW d \in Calls, Begins(d)
      PROVE  /\ shell'.token < s'.tokens
             /\ \A i : Hook(stdin', i) => stdin'[i].token < s'.tokens
  <2>1. UNCHANGED <<shell, stdin>>
    BY <1>2, Zenon DEF Begins, EnableSync
  <2>2. s'.tokens = s.tokens + 1
    <3>1. s \in Session BY DEF TypeOK
    <3>2. Enabling(s') = <<TRUE, 0, s.tokens + 1, s.tokens + 1, d, 1, 0>>
      BY <1>2, <3>1, NewEnabling, Zenon DEF Begins
    <3>3. QED BY <3>2 DEF Enabling
  <2>3. QED BY <1>0, <2>1, <2>2
<1>3. CASE pc[c] = "inject" /\ s'.tokens = s.tokens
  <2>0. /\ shell.token < s.tokens
        /\ \A i : Hook(stdin, i) => stdin[i].token < s.tokens
    BY <1>3 DEF HookUnwritten, IsHook, Hook
  <2>1. CASE UNCHANGED <<shell, stdin>> BY <1>3, <2>0, <2>1
  <2>2. ASSUME NEW d \in Calls, Hooks(d) PROVE FALSE
    <3>1. c = d BY <1>3, <2>2 DEF EnableAlone, Hooks
    <3>2. pc'[c] = "boot" BY <2>2, <3>1 DEF Hooks, TypeOK
    <3>3. QED BY <3>2
  <2>3. CASE Queues
    <3>1. PICK line \in Line : line.kind # "hook" /\ stdin' = Append(stdin, line)
      BY <2>3 DEF Queues
    <3>2. \A i : Hook(stdin', i) => Hook(stdin, i) /\ stdin'[i] = stdin[i]
      BY <1>1, <3>1, Added DEF Hook
    <3>3. UNCHANGED shell
      BY <2>3 DEF Queues
    <3>4. QED BY <1>3, <2>0, <3>2, <3>3
  <2>4. CASE ShellRuns \/ ShellSwallows
    <3>1. /\ LineTaken
          /\ \/ shell'.token = shell.token
             \/ Hook(stdin, 1) /\ shell'.token = stdin[1].token
      <4>1. CASE ShellRuns BY <4>1, RunsHook
      <4>2. CASE ShellSwallows BY <4>2 DEF ShellSwallows, LineTaken
      <4>3. QED BY <2>4, <4>1, <4>2
    <3>2. \A i : Hook(stdin', i) => Hook(stdin, i + 1) /\ stdin'[i] = stdin[i + 1]
      BY <1>1, <3>1, Taken DEF Hook
    <3>3. QED BY <1>3, <2>0, <3>1, <3>2
  <2>5. QED BY <2>1, <2>2, <2>3, <2>4, ShellSteps, Zenon
<1>4. pc[c] = "inject" \/ Begins(c)
  BY ToInject
<1>5. s'.tokens = s.tokens \/ \E d \in Calls : Begins(d)
  BY EnablingStep, Zenon DEF Become, MovesTo
<1>6. QED BY <1>2, <1>3, <1>4, <1>5

\* The session expects its newest hook or none.
LEMMA TokenCurrentStep ==
  TypeOK /\ ReaderOK /\ LoopsOK /\ TokenCurrent /\ [Next]_vars => TokenCurrent'
<1> SUFFICES ASSUME TypeOK, ReaderOK, LoopsOK, TokenCurrent, [Next]_vars PROVE TokenCurrent'
  OBVIOUS
<1>1. \/ s'.syncToken = s.syncToken /\ s'.tokens = s.tokens
      \/ s'.syncToken = 0
      \/ s'.syncToken = s'.tokens
  BY EnablingStep, Zenon DEF Become, MovesTo
<1>2. QED BY <1>1 DEF TokenCurrent

-----------------------------------------------------------------------------
(* The chain of nonces follows the shell *)

\* Who touches the shell's state, its output and the marker being read.
LEMMA OutputSteps ==
  ASSUME TypeOK, [Next]_vars
  PROVE  UNCHANGED <<shell, stdout, reader>> \/ ReadMarker \/ ReadHandle \/ ShellRuns
<1>1. ASSUME NEW c \in Calls, Start(c) \/ Call(c) PROVE UNCHANGED <<shell, stdout, reader>>
  BY <1>1, Zenon DEF Call, Start, EnableSync, Inject, BootTimeout, Booted, Prepare, Write, Ensure, Wait, Timeout
<1>2. ASSUME NEW l \in Loops, Loop(l) PROVE UNCHANGED <<shell, stdout, reader>>
  BY <1>2, Zenon DEF Loop, LoopTop, LoopStop, LoopProbe, LoopUnusable, LoopUsable, LoopFinish, loopSame
<1>3. CASE \/ CloseBegin \/ CloseEnd \/ \E newline \in BOOLEAN : UserWrite(newline)
           \/ UserEnsure \/ ShellSwallows
  BY <1>3, Zenon DEF CloseBegin, CloseEnd, UserWrite, UserEnsure, ShellSwallows
<1>4. CASE UNCHANGED vars BY <1>4, Zenon DEF vars
<1>5. QED BY <1>1, <1>2, <1>3, <1>4, Zenon DEF Next

\* What a line prints: nothing that was printed before is lost.
Keeps == \A i \in 1..Len(stdout) : stdout'[i] = stdout[i]
New(i, kind) == stdout'[i].kind = kind /\ stdout'[i].token = shell'.token
HookPrints == /\ shell.token < shell'.token /\ shell'.nonce = 2
              /\ Len(stdout') = Len(stdout) + 2 /\ Keeps
              /\ New(Len(stdout) + 1, "init") /\ New(Len(stdout) + 2, "prompt")
              /\ stdout'[Len(stdout) + 2].nonce = 1
LinePrints == /\ shell.token > 0 /\ shell'.token = shell.token /\ shell'.nonce = shell.nonce + 1
              /\ Len(stdout') = Len(stdout) + 1 /\ Keeps
              /\ New(Len(stdout) + 1, "prompt")
              /\ stdout'[Len(stdout) + 1].nonce = shell.nonce
NothingPrinted == shell.token = 0 /\ shell'.token = 0 /\ UNCHANGED stdout

\* What is appended comes behind.
LEMMA Appended ==
  ASSUME NEW p \in Seq(Marker), NEW q \in Seq(Marker)
  PROVE  /\ Len(p \o q) = Len(p) + Len(q)
         /\ \A i \in 1..Len(p) : (p \o q)[i] = p[i]
         /\ \A i \in 1..Len(q) : (p \o q)[Len(p) + i] = q[i]
         /\ q = <<>> => p \o q = p
OBVIOUS

\* A hook prints its init marker and a prompt, another line a prompt, unless no hook has
\* run yet.
LEMMA ShellPrints ==
  ASSUME TypeOK, HooksOrdered, ShellRuns
  PROVE  HookPrints \/ LinePrints \/ NothingPrinted
<1>1. PICK hook \in BOOLEAN, n \in Nat, d \in Dirs :
        /\ hook = Hook(stdin, 1)
        /\ n = IF hook THEN 1 ELSE shell.nonce
        /\ shell'.token = IF hook THEN stdin[1].token ELSE shell.token
        /\ shell'.nonce = n + 1
        /\ stdout' = stdout \o Printed(hook, shell'.token, n, d)
  BY RunsHook
<1>2. /\ shell.token \in Nat /\ shell'.token \in Nat /\ stdout \in Seq(Marker)
      /\ hook => shell.token < shell'.token
  BY <1>1, RunsHook DEF TypeOK
<1>3. PICK tok \in Nat, out \in {Printed(hook, shell'.token, n, d)} :
        tok = shell'.token /\ out = Printed(hook, tok, n, d)
  BY <1>2
<1>a. out \in Seq(Marker) /\ Prints(out, hook, tok, n)
  BY <1>3, PrintedMarkers
<1>b. PICK init \in Marker, prompt \in Marker :
        /\ init.kind = "init" /\ init.token = tok
        /\ prompt.kind = "prompt" /\ prompt.token = tok /\ prompt.nonce = n
        /\ hook /\ tok > 0 => Len(out) = 2 /\ out[1] = init /\ out[2] = prompt
        /\ ~hook /\ tok > 0 => Len(out) = 1 /\ out[1] = prompt
        /\ ~hook /\ ~(tok > 0) => out = <<>>
  BY <1>a, Zenon DEF Prints
<1>c. /\ Len(stdout') = Len(stdout) + Len(out) /\ Keeps
      /\ \A i \in 1..Len(out) : stdout'[Len(stdout) + i] = out[i]
      /\ out = <<>> => UNCHANGED stdout
  <2>1. stdout' = stdout \o out
    BY <1>1, <1>3
  <2>2. QED BY <1>2, <1>a, <2>1, Appended DEF Keeps
<1>4. CASE hook
  <2>1. /\ shell.token < shell'.token /\ n = 1 /\ shell'.nonce = 2
        /\ Len(out) = 2 /\ out[1] = init /\ out[2] = prompt
    BY <1>1, <1>2, <1>3, <1>b, <1>4
  <2>2. 1 \in 1..Len(out) /\ 2 \in 1..Len(out)
    BY <2>1
  <2>3. QED BY <1>3, <1>b, <1>c, <2>1, <2>2 DEF HookPrints, New
<1>5. CASE ~hook /\ tok > 0
  <2>1. /\ shell'.token = shell.token /\ n = shell.nonce /\ shell'.nonce = shell.nonce + 1
        /\ Len(out) = 1 /\ out[1] = prompt
    BY <1>1, <1>b, <1>5
  <2>2. 1 \in 1..Len(out)
    BY <2>1
  <2>3. QED BY <1>3, <1>b, <1>c, <1>5, <2>1, <2>2 DEF LinePrints, New
<1>6. CASE ~hook /\ ~(tok > 0)
  BY <1>1, <1>2, <1>3, <1>b, <1>c, <1>6 DEF NothingPrinted
<1>7. QED BY <1>4, <1>5, <1>6

\* What is unread moves up when a marker is read.
LEMMA MarkerTaken ==
  ASSUME TypeOK, ReadMarker
  PROVE  /\ stdout # <<>> /\ 1 \in 1..Len(stdout) /\ Head(stdout) = stdout[1]
         /\ Len(stdout') = Len(stdout) - 1
         /\ \A i \in 1..Len(stdout') : i + 1 \in 1..Len(stdout) /\ stdout'[i] = stdout[i + 1]
         /\ UNCHANGED <<s, shell>>
<1>1. stdout \in Seq(Marker) /\ stdout # <<>> /\ stdout' = Tail(stdout) /\ UNCHANGED <<s, shell>>
  BY DEF ReadMarker, readerSame, TypeOK
<1>2. Len(stdout) \in Nat /\ Len(stdout) > 0 /\ Len(stdout') = Len(stdout) - 1 /\ Head(stdout) = stdout[1]
  BY <1>1
<1>3. \A i \in 1..Len(stdout') : i + 1 \in 1..Len(stdout) /\ stdout'[i] = stdout[i + 1]
  BY <1>1, <1>2
<1>4. QED BY <1>1, <1>2, <1>3

\* What handling a marker does to the reader: it looks at the same marker, or at none.
LEMMA MarkerHandled ==
  ASSUME TypeOK, ReadHandle
  PROVE  /\ UNCHANGED <<shell, stdout>>
         /\ Looking' => Looking /\ reader'.marker = reader.marker
<1>1. reader \in [pc : {"read", "init", "ensure", "probe", "got", "note"},
                  marker : Marker \cup {None}, probe : Probe]
  BY Zenon DEF TypeOK
<1>2. UNCHANGED <<shell, stdout>>
  BY Zenon DEF ReadHandle, ReadInit, ReadEnsure, ReadProbe, ReadProbed, ReadNote, readerSame
<1>3. CASE ReadProbe
  BY <1>1, <1>2, <1>3 DEF ReadProbe, Looking
<1>4. CASE ~ReadProbe
  <2>1. reader' = Reading \/ \E p \in {"ensure", "note"} : reader' = [reader EXCEPT !.pc = p]
    BY <1>4, Zenon DEF ReadHandle, ReadInit, ReadEnsure, ReadProbed, ReadNote, Read
  <2>2. QED BY <1>1, <1>2, <2>1 DEF Reading, Looking
<1>5. QED BY <1>3, <1>4

\* Every unread marker has a token and a nonce.
LEMMA UnreadTypes ==
  ASSUME TypeOK, ReaderOK
  PROVE  /\ Len(stdout) \in Nat /\ shell.token \in Nat /\ shell.nonce \in Nat
         /\ \A i \in 1..Len(stdout) : /\ stdout[i] \in Marker /\ stdout[i].kind \in {"init", "prompt"}
                                      /\ stdout[i].token \in Nat /\ stdout[i].nonce \in Nat
         /\ Looking => reader.marker.token \in Nat /\ reader.marker.nonce \in Nat
<1>1. stdout \in Seq(Marker) /\ shell.token \in Nat /\ shell.nonce \in Nat /\ (Looking => reader.marker \in Marker)
  BY DEF TypeOK, ReaderOK, Looking
<1>2. \A i \in 1..Len(stdout) : stdout[i] \in Marker
  BY <1>1
<1>3. \A m \in Marker : m.kind \in {"init", "prompt"} /\ m.token \in Nat /\ m.nonce \in Nat
  BY DEF Marker
<1>4. QED BY <1>1, <1>2, <1>3

\* The output stays in the order of the tokens, and its prompts numbered.
LEMMA OutputOrderedStep ==
  TypeOK /\ ReaderOK /\ HooksOrdered /\ OutputOrdered /\ TypeOK' /\ [Next]_vars => OutputOrdered'
<1> SUFFICES ASSUME TypeOK, ReaderOK, HooksOrdered, OutputOrdered, TypeOK', [Next]_vars PROVE OutputOrdered'
  OBVIOUS
<1>0. /\ Len(stdout) \in Nat /\ shell.token \in Nat /\ shell.nonce \in Nat
      /\ \A i \in 1..Len(stdout) : stdout[i].token \in Nat /\ stdout[i].kind \in {"init", "prompt"}
      /\ Looking => reader.marker.token \in Nat
      /\ shell'.token \in Nat
  BY UnreadTypes DEF TypeOK
<1>1. CASE UNCHANGED <<shell, stdout, reader>>
  BY <1>1 DEF OutputOrdered, Looking
<1>2. CASE ReadHandle
  BY <1>2, MarkerHandled DEF OutputOrdered
<1>3. CASE ReadMarker
  <2>1. /\ 1 \in 1..Len(stdout) /\ Len(stdout') = Len(stdout) - 1 /\ UNCHANGED shell
        /\ \A i \in 1..Len(stdout') : i + 1 \in 1..Len(stdout) /\ stdout'[i] = stdout[i + 1]
    BY <1>3, MarkerTaken
  <2>2. \A i \in 1..Len(stdout') : 0 < stdout'[i].token /\ stdout'[i].token <= shell'.token
    BY <2>1 DEF OutputOrdered
  <2>3. ASSUME NEW i \in 1..Len(stdout'), stdout'[i].token = shell'.token
        PROVE  IF stdout'[i].kind = "init"
               THEN /\ shell'.nonce = Len(stdout') - i + 1
                    /\ \A j \in i + 1..Len(stdout') : stdout'[j].kind = "prompt" /\ stdout'[j].token = shell'.token
               ELSE stdout'[i].nonce = shell'.nonce - (Len(stdout') - i + 1)
    <3>1. i + 1 \in 1..Len(stdout) /\ stdout'[i] = stdout[i + 1] /\ stdout[i + 1].token = shell.token
      BY <2>1, <2>3
    <3>2. Len(stdout') - i + 1 = Len(stdout) - (i + 1) + 1
      BY <1>0, <2>1
    <3>3. CASE stdout'[i].kind = "init"
      <4>1. /\ shell.nonce = Len(stdout) - (i + 1) + 1
            /\ \A j \in i + 2..Len(stdout) : stdout[j].kind = "prompt" /\ stdout[j].token = shell.token
        BY <3>1, <3>3 DEF OutputOrdered
      <4>2. \A j \in i + 1..Len(stdout') : j \in 1..Len(stdout') /\ j + 1 \in i + 2..Len(stdout)
        BY <1>0, <2>1
      <4>3. QED BY <2>1, <3>2, <3>3, <4>1, <4>2
    <3>4. CASE stdout'[i].kind # "init"
      BY <2>1, <3>1, <3>2, <3>4 DEF OutputOrdered
    <3>5. QED BY <3>3, <3>4
  <2>4. Looking' => reader'.marker.token <= shell'.token
    <3>1. Looking' => reader'.marker = stdout[1]
      <4>1. Head(stdout) = stdout[1] /\ reader.pc = "read"
        BY <1>3, MarkerTaken DEF ReadMarker
      <4>2. \/ reader' = [reader EXCEPT !.pc = "init"]
            \/ reader' = [reader EXCEPT !.pc = "probe", !.marker = Head(stdout)]
            \/ reader' = reader
        BY <1>3, Zenon DEF ReadMarker, Read
      <4>3. QED BY <4>1, <4>2 DEF TypeOK, Looking
    <3>2. QED BY <2>1, <3>1 DEF OutputOrdered
  <2>5. QED BY <2>2, <2>3, <2>4 DEF OutputOrdered
<1>4. CASE ShellRuns
  <2>0. UNCHANGED reader
    BY <1>4 DEF ShellRuns
  <2>1. CASE NothingPrinted
    <3>1. Len(stdout') = 0
      BY <1>0, <2>1 DEF NothingPrinted, OutputOrdered
    <3>2. QED BY <2>0, <2>1, <3>1 DEF NothingPrinted, OutputOrdered, Looking
  <2>2. CASE HookPrints
    <3>1. \A i \in 1..Len(stdout') : \/ i \in 1..Len(stdout) /\ stdout'[i] = stdout[i]
                                     \/ i = Len(stdout) + 1
                                     \/ i = Len(stdout) + 2
      BY <1>0, <2>2 DEF HookPrints, Keeps
    <3>2. \A i \in 1..Len(stdout) : stdout[i].token < shell'.token /\ 0 < stdout[i].token
      BY <1>0, <2>2 DEF HookPrints, OutputOrdered
    <3>3. /\ shell'.token > 0 /\ shell'.nonce = 2 /\ Len(stdout') = Len(stdout) + 2
          /\ stdout'[Len(stdout) + 1].kind = "init" /\ stdout'[Len(stdout) + 1].token = shell'.token
          /\ stdout'[Len(stdout) + 2].kind = "prompt" /\ stdout'[Len(stdout) + 2].token = shell'.token
          /\ stdout'[Len(stdout) + 2].nonce = 1
      BY <1>0, <2>2 DEF HookPrints, New
    <3>4. \A i \in 1..Len(stdout') : 0 < stdout'[i].token /\ stdout'[i].token <= shell'.token
      <4>1. ASSUME NEW i \in 1..Len(stdout'), i \in 1..Len(stdout), stdout'[i] = stdout[i]
            PROVE  0 < stdout'[i].token /\ stdout'[i].token <= shell'.token
        BY <1>0, <3>2, <4>1
      <4>2. QED BY <1>0, <3>1, <3>3, <4>1
    <3>5. Looking' => reader'.marker.token <= shell'.token
      BY <1>0, <2>0, <2>2 DEF HookPrints, OutputOrdered, Looking
    <3>6. ASSUME NEW i \in 1..Len(stdout'), stdout'[i].token = shell'.token
          PROVE  IF stdout'[i].kind = "init"
                 THEN /\ shell'.nonce = Len(stdout') - i + 1
                      /\ \A j \in i + 1..Len(stdout') : stdout'[j].kind = "prompt" /\ stdout'[j].token = shell'.token
                 ELSE stdout'[i].nonce = shell'.nonce - (Len(stdout') - i + 1)
      <4>1. i = Len(stdout) + 1 \/ i = Len(stdout) + 2
        BY <1>0, <3>1, <3>2, <3>6
      <4>2. CASE i = Len(stdout) + 1
        <5>1. \A j \in i + 1..Len(stdout') : j = Len(stdout) + 2
          BY <1>0, <3>3, <4>2
        <5>2. QED BY <1>0, <3>3, <4>2, <5>1
      <4>3. CASE i = Len(stdout) + 2
        BY <1>0, <3>3, <4>3
      <4>4. QED BY <4>1, <4>2, <4>3
    <3>7. QED BY <3>4, <3>5, <3>6 DEF OutputOrdered
  <2>3. CASE LinePrints
    <3>1. \A i \in 1..Len(stdout') : \/ i \in 1..Len(stdout) /\ stdout'[i] = stdout[i]
                                     \/ i = Len(stdout) + 1
      BY <1>0, <2>3 DEF LinePrints, Keeps
    <3>2. /\ shell.token > 0 /\ shell'.token = shell.token /\ shell'.nonce = shell.nonce + 1
          /\ Len(stdout') = Len(stdout) + 1
          /\ stdout'[Len(stdout) + 1].kind = "prompt" /\ stdout'[Len(stdout) + 1].token = shell.token
          /\ stdout'[Len(stdout) + 1].nonce = shell.nonce
      BY <2>3 DEF LinePrints, New
    <3>3. \A i \in 1..Len(stdout') : 0 < stdout'[i].token /\ stdout'[i].token <= shell'.token
      BY <1>0, <3>1, <3>2 DEF OutputOrdered
    <3>4. Looking' => reader'.marker.token <= shell'.token
      BY <2>0, <3>2 DEF OutputOrdered, Looking
    <3>5. ASSUME NEW i \in 1..Len(stdout'), stdout'[i].token = shell'.token
          PROVE  IF stdout'[i].kind = "init"
                 THEN /\ shell'.nonce = Len(stdout') - i + 1
                      /\ \A j \in i + 1..Len(stdout') : stdout'[j].kind = "prompt" /\ stdout'[j].token = shell'.token
                 ELSE stdout'[i].nonce = shell'.nonce - (Len(stdout') - i + 1)
      <4>1. CASE i = Len(stdout) + 1
        BY <1>0, <3>2, <4>1
      <4>2. CASE i \in 1..Len(stdout) /\ stdout'[i] = stdout[i] /\ stdout[i].kind # "init"
        <5>1. stdout[i].nonce = shell.nonce - (Len(stdout) - i + 1)
          BY <3>2, <3>5, <4>2 DEF OutputOrdered
        <5>2. stdout'[i].kind # "init" /\ stdout'[i].nonce = shell.nonce - (Len(stdout) - i + 1)
          BY <4>2, <5>1
        <5>3. shell.nonce - (Len(stdout) - i + 1) = shell'.nonce - (Len(stdout') - i + 1)
          <6>1. i \in Int /\ Len(stdout) \in Int /\ shell.nonce \in Int
            BY <1>0, <4>2
          <6>2. shell'.nonce = shell.nonce + 1 /\ Len(stdout') = Len(stdout) + 1
            BY <3>2
          <6>3. QED BY <6>1, <6>2
        <5>4. QED BY <5>2, <5>3
      <4>3. CASE i \in 1..Len(stdout) /\ stdout'[i] = stdout[i] /\ stdout[i].kind = "init"
        <5>1. /\ shell.nonce = Len(stdout) - i + 1
              /\ \A j \in i + 1..Len(stdout) : stdout[j].kind = "prompt" /\ stdout[j].token = shell.token
          BY <3>2, <3>5, <4>3 DEF OutputOrdered
        <5>2. \A j \in i + 1..Len(stdout') : \/ j \in i + 1..Len(stdout) /\ stdout'[j] = stdout[j]
                                             \/ j = Len(stdout) + 1
          BY <1>0, <3>1, <3>2, <4>3
        <5>3. QED BY <1>0, <3>2, <4>3, <5>1, <5>2
      <4>4. QED BY <3>1, <4>1, <4>2, <4>3
    <3>6. QED BY <3>3, <3>4, <3>5 DEF OutputOrdered
  <2>4. QED BY <1>4, <2>1, <2>2, <2>3, ShellPrints
<1>5. QED BY <1>1, <1>2, <1>3, <1>4, OutputSteps

\* At its start the chain expects the first prompt of the newest hook, none of whose
\* markers is being looked at.
AtStart == /\ s.promptNonce = 1 /\ s.promptPendingNonce = 0
           /\ Looking => reader.marker.token # s.syncToken
\* After that what is expected next is the first unread prompt, or the one to come, unless
\* the marker before it is still being looked at.
Running ==
  /\ Unread = 1..Len(stdout)
  /\ s.shellPID = 1 \/ reader.pc = "init"
  /\ IF Looking /\ reader.marker.token = s.syncToken
     THEN reader.marker.nonce \in Expected /\ reader.marker.nonce + 1 = shell.nonce - Len(stdout)
     ELSE shell.nonce - Len(stdout) \in Expected
Starting == shell.token # s.syncToken \/ UnreadInit
\* ChainOK is one or the other, before a step and after it.
LEMMA ChainParts ==
  /\ ChainOK <=> (s.syncToken > 0 => IF Starting THEN AtStart ELSE Running)
  /\ ChainOK' <=> (s'.syncToken > 0 => IF Starting' THEN AtStart' ELSE Running')
BY DEF ChainOK, Starting, AtStart, Running

\* Reading a marker: the init marker of the newest hook sets the prompts going, and the
\* first unread prompt is the one that is expected.
LEMMA ChainRead ==
  ASSUME TypeOK, ReaderOK, BootWaits, HooksOrdered, TokenCurrent, OutputOrdered, ReadMarker,
         s.syncToken > 0, IF Starting THEN AtStart ELSE Running
  PROVE  IF Starting' THEN AtStart' ELSE Running'
<1>0. /\ Len(stdout) \in Nat /\ shell.token \in Nat /\ shell.nonce \in Nat
      /\ \A i \in 1..Len(stdout) : /\ stdout[i].token \in Nat /\ stdout[i].nonce \in Nat
                                   /\ stdout[i].kind \in {"init", "prompt"}
  BY UnreadTypes
<1>1. /\ 1 \in 1..Len(stdout) /\ Len(stdout') = Len(stdout) - 1 /\ UNCHANGED <<s, shell>>
      /\ Head(stdout) = stdout[1]
      /\ \A i \in 1..Len(stdout') : i + 1 \in 1..Len(stdout) /\ stdout'[i] = stdout[i + 1]
  BY MarkerTaken
<1> DEFINE m == stdout[1]
<1>2. /\ reader.pc = "read"
      /\ \/ InitMarker(m) /\ reader'.pc = "init" /\ reader'.marker = reader.marker
         \/ PromptMarker(m) /\ reader'.pc = "probe" /\ reader'.marker = m
         \/ ~InitMarker(m) /\ ~PromptMarker(m) /\ UNCHANGED reader
  <2>1. \/ InitMarker(m) /\ reader' = [reader EXCEPT !.pc = "init"]
        \/ PromptMarker(m) /\ reader' = [reader EXCEPT !.pc = "probe", !.marker = m]
        \/ ~InitMarker(m) /\ ~PromptMarker(m) /\ UNCHANGED reader
    BY <1>1, Zenon DEF ReadMarker, Read
  <2>2. QED BY <2>1 DEF ReadMarker, TypeOK
<1>3. UnreadInit' => UnreadInit
  BY <1>1 DEF UnreadInit
<1>4. CASE shell.token # s.syncToken
  <2>1. m.token # s.syncToken
    <3>1. s.syncToken = s.tokens /\ shell.token <= s.tokens
      BY DEF TokenCurrent, HooksOrdered
    <3>2. s.tokens \in Nat
      BY Zenon DEF TypeOK, Session
    <3>3. QED BY <1>0, <1>1, <1>4, <3>1, <3>2 DEF OutputOrdered
  <2>2. QED BY <1>1, <1>2, <1>4, <2>1 DEF Starting, AtStart, InitMarker, PromptMarker, ValidNonce, Looking
<1>5. CASE shell.token = s.syncToken /\ UnreadInit'
  <2>1. PICK k \in 1..Len(stdout') : stdout'[k].kind = "init" /\ stdout'[k].token = s.syncToken
    BY <1>1, <1>5 DEF UnreadInit
  <2>2. k + 1 \in 1..Len(stdout) /\ stdout[k + 1].kind = "init" /\ stdout[k + 1].token = shell.token
    BY <1>1, <1>5, <2>1
  <2>3. shell.nonce = Len(stdout) - (k + 1) + 1
    BY <2>2 DEF OutputOrdered
  <2>4. ASSUME m.token = s.syncToken PROVE FALSE
    <3>1. CASE m.kind = "init"
      <4>1. stdout[k + 1].kind = "prompt"
        BY <1>0, <1>1, <1>5, <2>1, <2>2, <2>4, <3>1 DEF OutputOrdered
      <4>2. QED BY <2>2, <4>1
    <3>2. CASE m.kind # "init"
      <4>1. m.nonce = shell.nonce - Len(stdout)
        BY <1>0, <1>1, <1>5, <2>4, <3>2 DEF OutputOrdered
      <4>2. QED BY <1>0, <1>1, <2>1, <2>3, <4>1
    <3>3. QED BY <3>1, <3>2
  <2>5. QED BY <1>1, <1>2, <1>3, <1>5, <2>4 DEF Starting, AtStart, InitMarker, PromptMarker, ValidNonce, Looking
<1>6. CASE shell.token = s.syncToken /\ UnreadInit /\ ~UnreadInit'
  <2>1. PICK k \in 1..Len(stdout) : stdout[k].kind = "init" /\ stdout[k].token = s.syncToken
    BY <1>6 DEF UnreadInit
  <2>2. k = 1
    <3>1. k # 1 => k - 1 \in 1..Len(stdout') /\ stdout'[k - 1] = stdout[k]
      BY <1>0, <1>1, <2>1
    <3>2. QED BY <1>1, <1>6, <2>1, <3>1 DEF UnreadInit
  <2>3. /\ shell.nonce = Len(stdout)
        /\ \A j \in 2..Len(stdout) : stdout[j].kind = "prompt" /\ stdout[j].token = s.syncToken
    BY <1>0, <1>1, <1>6, <2>1, <2>2 DEF OutputOrdered
  <2>4. Unread' = 1..Len(stdout')
    <3>1. \A i \in 1..Len(stdout') : i + 1 \in 2..Len(stdout)
      BY <1>0, <1>1
    <3>2. QED BY <1>1, <2>3, <3>1 DEF Unread
  <2>5. reader'.pc = "init"
    BY <1>2, <2>1, <2>2 DEF InitMarker, PromptMarker
  <2>6. shell'.nonce - Len(stdout') \in {s'.promptNonce, s'.promptPendingNonce} \ {0}
    BY <1>0, <1>1, <1>6, <2>3 DEF Starting, AtStart
  <2>7. ~Starting'
    BY <1>1, <1>6 DEF Starting
  <2>8. QED BY <2>4, <2>5, <2>6, <2>7 DEF Running, Looking, Expected
<1>7. CASE shell.token = s.syncToken /\ ~UnreadInit
  <2>1. /\ Running /\ s.shellPID = 1 /\ shell.nonce - Len(stdout) \in Expected /\ Unread = 1..Len(stdout)
    BY <1>2, <1>7 DEF Starting, Running, Looking
  <2>2. \A i \in 1..Len(stdout) : stdout[i].kind = "prompt" /\ stdout[i].token = s.syncToken
    BY <2>1 DEF Unread
  <2>3. m.nonce = shell.nonce - Len(stdout)
    BY <1>0, <1>1, <1>7, <2>2 DEF OutputOrdered
  <2>4. PromptMarker(m) /\ ~InitMarker(m)
    BY <1>1, <2>1, <2>2, <2>3 DEF PromptMarker, InitMarker, ValidNonce, Expected, BootWaits
  <2>5. reader'.pc = "probe" /\ reader'.marker = m
    BY <1>2, <2>4
  <2>6. Unread' = 1..Len(stdout')
    BY <1>1, <2>2 DEF Unread
  <2>7. (reader.marker.nonce \in Expected)' /\ reader'.marker.nonce + 1 = shell'.nonce - Len(stdout')
    BY <1>0, <1>1, <2>1, <2>3, <2>5 DEF Expected
  <2>8. ~Starting'
    BY <1>1, <1>3, <1>7 DEF Starting
  <2>9. QED BY <1>1, <1>0, <2>1, <2>2, <2>5, <2>6, <2>7, <2>8 DEF Running, Looking
<1>8. QED BY <1>3, <1>4, <1>5, <1>6, <1>7

\* Handling a marker: the shell becomes known at the latest by the init marker of its own
\* hook, and the chain moves from a prompt to the next.
LEMMA ChainHandled ==
  ASSUME TypeOK, ReaderOK, LoopsOK, BootWaits, TypeOK', [Next]_vars, ReadHandle,
         s.syncToken > 0, IF Starting THEN AtStart ELSE Running
  PROVE  IF Starting' THEN AtStart' ELSE Running'
<1>0. /\ s.promptNonce \in Nat /\ s.promptPendingNonce \in Nat /\ s.shellPID \in {0, 1}
      /\ Len(stdout) \in Nat /\ shell.nonce \in Nat
      /\ Looking => reader.marker.nonce \in Nat
  BY UnreadTypes, Zenon DEF TypeOK, Session
<1>1. /\ UNCHANGED <<shell, stdout>>
      /\ Looking' => Looking /\ reader'.marker = reader.marker
  BY MarkerHandled
<1>2. CASE ReadInit
  <2>1. reader.pc = "init" /\ reader'.pc \in {"read", "ensure"}
    BY <1>2 DEF ReadInit, Read, Reading, TypeOK
  <2>2. s'.syncToken = s.syncToken /\ s'.promptNonce = s.promptNonce /\ s'.promptPendingNonce = s.promptPendingNonce
        /\ s'.shellPID = 1
    <3>1. CASE s.shellPID = 1
      BY <1>2, <3>1 DEF ReadInit
    <3>2. CASE s.shellPID = 0
      <4>1. s.syncBootstrapCh # None /\ s.Supported
        BY <3>2 DEF BootWaits
      <4>2. s' = [s EXCEPT !.shellPID = 1, !.syncDirty = TRUE, !.syncBootstrapCh = None]
        BY <1>2, <3>2, <4>1 DEF ReadInit
      <4>3. Enabling(s') = <<s.Supported, 1, s.syncToken, s.tokens, None, s.promptNonce, s.promptPendingNonce>>
        BY <4>2, NewEnabling, Zenon DEF TypeOK
      <4>4. QED BY <4>3 DEF Enabling
    <3>3. QED BY <1>0, <3>1, <3>2
  <2>3. QED BY <1>1, <2>1, <2>2 DEF Starting, UnreadInit, AtStart, Running, Unread, Expected, Looking
<1>3. CASE ReadProbed
  <2>1. Looking /\ reader.pc = "got" /\ reader'.pc \in {"read", "note"}
    <3>1. reader.pc = "got" /\ \/ reader' = Reading
                               \/ reader' = [reader EXCEPT !.pc = "note"]
      BY <1>3, Zenon DEF ReadProbed, Read
    <3>2. QED BY <3>1 DEF Reading, TypeOK, Looking
  <2>2. CASE ValidNonce(reader.marker)
    <3>1. reader.marker.token = s.syncToken /\ reader.marker.nonce \in Expected
      BY <2>2 DEF ValidNonce, Expected
    <3>2. ~Starting /\ reader.marker.nonce + 1 = shell.nonce - Len(stdout)
          /\ Unread = 1..Len(stdout) /\ s.shellPID = 1
      BY <2>1, <3>1 DEF AtStart, Running
    <3>3. Moves
      BY <1>3, <2>2, Zenon DEF Moves, ReadProbed
    <3>4. MovesTo(reader.marker.nonce + 1, 0) \/ MovesTo(s.promptNonce, reader.marker.nonce + 1)
      <4>1. /\ Enabling([s EXCEPT !.promptNonce = reader.marker.nonce + 1, !.promptPendingNonce = 0])
                 = <<s.Supported, s.shellPID, s.syncToken, s.tokens, s.syncBootstrapCh, reader.marker.nonce + 1, 0>>
            /\ Enabling([s EXCEPT !.promptPendingNonce = reader.marker.nonce + 1])
                 = <<s.Supported, s.shellPID, s.syncToken, s.tokens, s.syncBootstrapCh,
                     s.promptNonce, reader.marker.nonce + 1>>
        BY NewEnabling, Zenon DEF TypeOK
      <4>2. QED BY <3>3, <4>1 DEF Moves, Enabling, MovesTo, Become
    <3>5. /\ s'.syncToken = s.syncToken /\ s'.shellPID = s.shellPID
          /\ reader.marker.nonce + 1 \in {s'.promptNonce, s'.promptPendingNonce} \ {0}
      BY <1>0, <2>1, <3>4 DEF MovesTo, Become
    <3>6. QED BY <1>1, <2>1, <3>2, <3>5 DEF Starting, UnreadInit, Running, Unread, Expected, Looking
  <2>3. CASE ~ValidNonce(reader.marker)
    <3>1. UNCHANGED s
      BY <1>3, <2>3 DEF ReadProbed
    <3>2. ~Starting => reader.marker.token # s.syncToken
      BY <2>1, <2>3 DEF Running, ValidNonce, Expected, Looking
    <3>3. QED BY <1>1, <2>1, <3>1, <3>2 DEF Starting, UnreadInit, AtStart, Running, Unread, Expected, Looking
  <2>4. QED BY <2>2, <2>3
<1>4. CASE ReadProbe
  <2>1. UNCHANGED s /\ reader.pc = "probe" /\ reader'.pc = "got" /\ reader'.marker = reader.marker
    BY <1>4 DEF ReadProbe, TypeOK
  <2>2. QED BY <1>1, <2>1 DEF Starting, UnreadInit, AtStart, Running, Unread, Expected, Looking
<1>5. CASE ReadEnsure \/ ReadNote
  <2>1. reader.pc \in {"ensure", "note"} /\ reader'.pc = "read"
    BY <1>5 DEF ReadEnsure, ReadNote, Read, Reading
  <2>2. MovesTo(s.promptNonce, s.promptPendingNonce)
    <3>1. Plain
      <4>1. CASE ReadEnsure BY <4>1, Zenon DEF Plain, ReadEnsure, ensureSyncProbe
      <4>2. CASE ReadNote
        <5>1. reader.marker \in Marker /\ reader.probe \in Probe
          BY <4>2 DEF ReadNote, ReaderOK, TypeOK
        <5>2. PICK d \in Dirs : s' = notePrompt(d)
          BY <4>2, <5>1 DEF ReadNote, Marker, Probe
        <5>3. QED BY <5>2, Zenon DEF Plain
      <4>3. QED BY <1>5, <4>1, <4>2
    <3>2. KeepsEnabling(s')
      BY <3>1, PlainEnabling DEF TypeOK
    <3>3. QED BY <3>2 DEF KeepsEnabling, Enabling, MovesTo, Become
  <2>3. s'.syncToken = s.syncToken /\ s'.promptNonce = s.promptNonce /\ s'.promptPendingNonce = s.promptPendingNonce
        /\ s'.shellPID = s.shellPID
    BY <2>2 DEF MovesTo, Become
  <2>4. QED BY <1>1, <2>1, <2>3 DEF Starting, UnreadInit, AtStart, Running, Unread, Expected, Looking
<1>6. QED BY <1>2, <1>3, <1>4, <1>5, Zenon DEF ReadHandle

\* The shell prints: a newer hook is unread at first, and a prompt moves the next one and
\* the end of the output by one.
LEMMA ChainPrinted ==
  ASSUME TypeOK, ReaderOK, HooksOrdered, TokenCurrent, OutputOrdered, HooksOrdered', ShellRuns,
         s.syncToken > 0, IF Starting THEN AtStart ELSE Running
  PROVE  IF Starting' THEN AtStart' ELSE Running'
<1>0. /\ Len(stdout) \in Nat /\ shell.token \in Nat /\ shell.nonce \in Nat
      /\ s.syncToken = s.tokens /\ shell.token <= s.tokens /\ s.tokens \in Nat
  <2>1. s.syncToken = s.tokens /\ shell.token <= s.tokens
    BY DEF TokenCurrent, HooksOrdered
  <2>2. s.tokens \in Nat
    BY Zenon DEF TypeOK, Session
  <2>3. QED BY <2>1, <2>2, UnreadTypes
<1>1. UNCHANGED <<s, reader>>
  BY DEF ShellRuns
<1>2. CASE HookPrints
  <2>1. shell.token < shell'.token /\ shell'.token <= s.tokens
    BY <1>1, <1>2 DEF HookPrints, HooksOrdered
  <2>2. Starting /\ AtStart
    BY <1>0, <2>1, RunsHook DEF Starting
  <2>3. shell'.token = s.syncToken => UnreadInit'
    <3>1. Len(stdout) + 1 \in 1..Len(stdout')
      BY <1>0, <1>2 DEF HookPrints
    <3>2. QED BY <1>1, <1>2, <3>1 DEF HookPrints, New, UnreadInit
  <2>4. QED BY <1>1, <2>2, <2>3 DEF Starting, AtStart, Looking
<1>3. CASE LinePrints
  <2>1. \A i \in 1..Len(stdout') : \/ i \in 1..Len(stdout) /\ stdout'[i] = stdout[i]
                                   \/ i = Len(stdout) + 1
    BY <1>0, <1>3 DEF LinePrints, Keeps
  <2>2. /\ shell'.token = shell.token /\ shell'.nonce = shell.nonce + 1
        /\ Len(stdout') = Len(stdout) + 1
        /\ stdout'[Len(stdout) + 1].kind = "prompt" /\ stdout'[Len(stdout) + 1].token = shell.token
    BY <1>3 DEF LinePrints, New
  <2>3. UnreadInit' <=> UnreadInit
    <3>1. UnreadInit' => UnreadInit
      BY <1>1, <2>1, <2>2 DEF UnreadInit
    <3>2. \A i \in 1..Len(stdout) : i \in 1..Len(stdout') /\ stdout'[i] = stdout[i]
      BY <1>0, <1>3 DEF LinePrints, Keeps
    <3>3. QED BY <1>1, <3>1, <3>2 DEF UnreadInit
  <2>4. CASE Starting
    BY <1>1, <2>2, <2>3, <2>4 DEF Starting, AtStart, Looking
  <2>5. CASE ~Starting
    <3>1. Unread' = 1..Len(stdout')
      <4>1. \A i \in 1..Len(stdout) : stdout[i].kind = "prompt" /\ stdout[i].token = s.syncToken
        BY <2>5 DEF Running, Unread
      <4>2. QED BY <1>1, <2>1, <2>2, <2>5, <4>1 DEF Starting, Unread
    <3>2. shell'.nonce - Len(stdout') = shell.nonce - Len(stdout)
      BY <1>0, <2>2
    <3>3. QED BY <1>1, <2>2, <2>3, <2>5, <3>1, <3>2 DEF Starting, Running, Expected, Looking
  <2>6. QED BY <2>4, <2>5
<1>4. CASE NothingPrinted
  BY <1>0, <1>1, <1>4 DEF NothingPrinted, Starting, AtStart, Looking
<1>5. QED BY <1>2, <1>3, <1>4, ShellPrints

\* The chain of nonces stays the newest hook's.
LEMMA ChainStep ==
  TypeOK /\ ReaderOK /\ LoopsOK /\ BootWaits /\ HooksOrdered /\ TokenCurrent /\ OutputOrdered
  /\ ChainOK /\ TypeOK' /\ HooksOrdered' /\ [Next]_vars
  => ChainOK'
<1> SUFFICES ASSUME TypeOK, ReaderOK, LoopsOK, BootWaits, HooksOrdered, TokenCurrent, OutputOrdered,
                    ChainOK, TypeOK', HooksOrdered', [Next]_vars
             PROVE  ChainOK'
  OBVIOUS
<1> SUFFICES ASSUME s'.syncToken > 0 PROVE IF Starting' THEN AtStart' ELSE Running'
  BY ChainParts
<1>0. /\ s.tokens \in Nat /\ s.syncToken \in Nat
      /\ s.syncToken > 0 => IF Starting THEN AtStart ELSE Running
  BY ChainParts, Zenon DEF TypeOK, Session
<1>1. ASSUME NEW c \in Calls, Begins(c), Become(TRUE, 0, s.tokens + 1, s.tokens + 1, c, 1, 0)
      PROVE  IF Starting' THEN AtStart' ELSE Running'
  <2>1. UNCHANGED <<shell, reader>>
    BY <1>1, Zenon DEF Begins, EnableSync
  <2>2. /\ shell.token \in Nat /\ shell.token <= s.tokens
        /\ Looking => reader.marker.token \in Nat /\ reader.marker.token <= shell.token
    BY UnreadTypes DEF HooksOrdered, OutputOrdered
  <2>3. QED BY <1>0, <1>1, <2>1, <2>2 DEF Become, Starting, AtStart, Looking
<1>2. CASE s.syncToken > 0 /\ ReadMarker
  BY <1>0, <1>2, ChainRead
<1>3. CASE s.syncToken > 0 /\ ReadHandle
  BY <1>0, <1>3, ChainHandled
<1>4. CASE s.syncToken > 0 /\ ShellRuns
  BY <1>0, <1>4, ChainPrinted
<1>5. CASE UNCHANGED <<shell, stdout, reader>> /\ MovesTo(s.promptNonce, s.promptPendingNonce)
  <2>1. /\ s'.syncToken = s.syncToken /\ s'.shellPID = s.shellPID
        /\ s'.promptNonce = s.promptNonce /\ s'.promptPendingNonce = s.promptPendingNonce
    BY <1>5 DEF MovesTo, Become
  <2>2. QED
    BY <1>0, <1>5, <2>1 DEF Starting, UnreadInit, AtStart, Running, Unread, Expected, Looking
<1>6. CASE s'.syncToken = s.syncToken /\ ~(UNCHANGED <<shell, stdout, reader>>)
  BY <1>2, <1>3, <1>4, <1>6, OutputSteps
<1>7. ASSUME Boots \/ Moves PROVE ReadHandle
  BY <1>7 DEF Boots, Moves, ReadHandle
<1>8. CASE s'.syncToken = s.syncToken /\ (Boots \/ Moves)
  BY <1>3, <1>7, <1>8
<1>9. QED
  <2>1. \/ MovesTo(s.promptNonce, s.promptPendingNonce)
        \/ s'.syncToken = s.syncToken /\ (Boots \/ Moves)
        \/ s'.syncToken = 0
        \/ \E c \in Calls : Begins(c) /\ Become(TRUE, 0, s.tokens + 1, s.tokens + 1, c, 1, 0)
    BY EnablingStep, Zenon DEF Become, MovesTo
  <2>2. MovesTo(s.promptNonce, s.promptPendingNonce) => s'.syncToken = s.syncToken
    BY DEF MovesTo, Become
  <2>3. CASE MovesTo(s.promptNonce, s.promptPendingNonce)
    BY <1>5, <1>6, <2>2, <2>3, Zenon
  <2>4. s'.syncToken # 0
    OBVIOUS
  <2>5. QED BY <1>1, <1>8, <2>1, <2>3, <2>4, Zenon

\* A chain that is kept like this expects the next prompt.
LEMMA ChainFollows == TypeOK /\ ReaderOK /\ OutputOrdered /\ ChainOK => ChainFollowsShell
<1> SUFFICES ASSUME TypeOK, ReaderOK, OutputOrdered, ChainOK, s.syncToken > 0, ~Looking
             PROVE  IF shell.token # s.syncToken
                    THEN s.promptNonce = 1 /\ s.promptPendingNonce = 0
                    ELSE /\ Unread = {} => shell.nonce \in Expected
                         /\ \A i \in Unread : (\A j \in Unread : i <= j) => stdout[i].nonce \in Expected
  BY DEF ChainFollowsShell
<1>0. /\ Len(stdout) \in Nat /\ shell.token \in Nat /\ shell.nonce \in Nat
      /\ \A i \in 1..Len(stdout) : stdout[i].token \in Nat /\ stdout[i].nonce \in Nat
  BY UnreadTypes
<1>1. IF Starting THEN AtStart ELSE Running
  BY ChainParts
<1>2. CASE shell.token # s.syncToken
  BY <1>1, <1>2 DEF Starting, AtStart
<1>3. CASE shell.token = s.syncToken /\ UnreadInit
  <2>1. PICK k \in 1..Len(stdout) : stdout[k].kind = "init" /\ stdout[k].token = s.syncToken
    BY <1>3 DEF UnreadInit
  <2>2. /\ shell.nonce = Len(stdout) - k + 1
        /\ \A j \in k + 1..Len(stdout) : stdout[j].kind = "prompt" /\ stdout[j].token = s.syncToken
    BY <1>3, <2>1 DEF OutputOrdered
  <2>3. 1 \in Expected
    BY <1>1, <1>3 DEF Starting, AtStart, Expected
  <2>4. \A j \in k + 1..Len(stdout) : j \in Unread
    BY <1>0, <2>1, <2>2 DEF Unread
  <2>5. ASSUME Unread = {} PROVE shell.nonce \in Expected
    <3>1. ~(k + 1 <= Len(stdout))
      <4>1. k + 1 <= Len(stdout) => k + 1 \in k + 1..Len(stdout)
        BY <1>0
      <4>2. QED BY <2>4, <2>5, <4>1
    <3>2. QED BY <1>0, <2>2, <2>3, <3>1
  <2>6. ASSUME NEW i \in Unread, \A j \in Unread : i <= j PROVE stdout[i].nonce \in Expected
    <3>1. i \in 1..Len(stdout) /\ stdout[i].kind = "prompt" /\ stdout[i].token = shell.token
      BY <1>3, <2>6 DEF Unread
    <3>2. stdout[i].nonce = shell.nonce - (Len(stdout) - i + 1)
      BY <3>1 DEF OutputOrdered
    <3>3. i > k
      BY <1>0, <2>1, <2>2, <3>1, <3>2
    <3>4. i = k + 1
      <4>1. k + 1 \in k + 1..Len(stdout)
        BY <1>0, <3>1, <3>3
      <4>2. i <= k + 1
        BY <2>4, <2>6, <4>1
      <4>3. QED BY <3>1, <3>3, <4>2
    <3>5. QED BY <1>0, <2>2, <2>3, <3>2, <3>4
  <2>7. QED BY <1>3, <2>5, <2>6
<1>4. CASE shell.token = s.syncToken /\ ~UnreadInit
  <2>1. Unread = 1..Len(stdout) /\ shell.nonce - Len(stdout) \in Expected
    BY <1>1, <1>4 DEF Starting, Running
  <2>2. Unread = {} => shell.nonce \in Expected
    <3>1. Unread = {} => Len(stdout) = 0
      <4>1. Len(stdout) > 0 => 1 \in 1..Len(stdout)
        BY <1>0
      <4>2. QED BY <1>0, <2>1, <4>1
    <3>2. QED BY <1>0, <2>1, <3>1
  <2>3. ASSUME NEW i \in Unread, \A j \in Unread : i <= j PROVE stdout[i].nonce \in Expected
    <3>1. i \in 1..Len(stdout) /\ 1 \in 1..Len(stdout)
      BY <1>0, <2>1, <2>3
    <3>2. i = 1
      BY <2>1, <2>3, <3>1
    <3>3. stdout[i].nonce = shell.nonce - (Len(stdout) - i + 1)
      BY <1>4, <2>3, <3>1 DEF OutputOrdered, Unread
    <3>4. QED BY <1>0, <2>1, <3>2, <3>3
  <2>4. QED BY <1>4, <2>2, <2>3
<1>5. QED BY <1>2, <1>3, <1>4

-----------------------------------------------------------------------------
(* The theorems *)

\* The invariant holds in a new session.
LEMMA InitIInv == Init => IInv
<1> SUFFICES ASSUME Init PROVE IInv
  OBVIOUS
<1>1. s \in Session
  <2>1. initSyncState \in Session
    BY DEF initSyncState, Session
  <2>2. QED BY <2>1, Zenon DEF Init
<1>2. TypeOK
  <2>1. shell \in [cwd : Dirs, token : Nat, nonce : Nat] /\ typed \in 0..Writes
    BY DirSyncAssumption DEF Init
  <2>2. loop \in [Loops -> LoopType]
    BY Zenon, NewLoops DEF Init
  <2>3. /\ enableMu \in Calls \cup {None} /\ chan \in [Changers -> Seq(Dirs \cup {None})]
        /\ stdin \in Seq(Line) /\ stdout \in Seq(Marker)
    BY DEF Init
  <2>4. reader \in [pc : {"read", "init", "ensure", "probe", "got", "note"}, marker : Marker \cup {None}, probe : Probe]
    BY Zenon, NewLoops DEF Init, Reading
  <2>5. QED BY <1>1, <2>1, <2>2, <2>3, <2>4 DEF Init, TypeOK, LoopType
<1>3. /\ s.syncBootstrapCh = None /\ s.pendingDirChange = None /\ s.shellPID = 0
      /\ s.syncToken = 0 /\ s.tokens = 0 /\ s.promptNonce = 0 /\ s.promptPendingNonce = 0
      /\ s.Supported = FALSE /\ s.PromptReady = FALSE /\ s.Busy = FALSE
  BY Zenon DEF Init, initSyncState
<1>4. EnableAlone /\ ReaderOK
  BY DEF Init, EnableAlone, ReaderOK, Reading
<1>5. BootWaits /\ TokenCurrent
  BY <1>3 DEF BootWaits, TokenCurrent
<1>a. OutputOrdered /\ ChainOK /\ ChainFollowsShell
  BY <1>3 DEF Init, Reading, OutputOrdered, ChainOK, ChainFollowsShell, Looking
<1>6. LoopsOK /\ ConfirmsPending
  BY DEF Init, LoopsOK, ConfirmsPending, NoLoop
<1>7. Coherent
  BY <1>3 DEF Coherent
<1>8. \A c \in Changers : chan[c] = <<>> /\ c # None
  BY DirSyncAssumption DEF Init, Calls
<1>9. PendingOK /\ AnsweredOnce /\ ConfirmedUnlessGivenUp
  BY <1>3, <1>8 DEF PendingOK, AnsweredOnce, ConfirmedUnlessGivenUp
<1>10. HooksOrdered /\ HookUnwritten
  BY <1>3 DEF Init, HooksOrdered, HookUnwritten, IsHook
<1>11. QED
  BY <1>2, <1>4, <1>5, <1>a, <1>6, <1>7, <1>9, <1>10 DEF IInv

\* The inductive invariant: of calls, loops, reader, user and shell no step breaks it.
THEOREM Inductive == Spec => []IInv
<1>1. IInv /\ [Next]_vars => IInv'
  <2> SUFFICES ASSUME IInv, [Next]_vars PROVE IInv'
    OBVIOUS
  <2>1. /\ TypeOK /\ EnableAlone /\ BootWaits /\ ReaderOK /\ LoopsOK /\ Coherent
        /\ PendingOK /\ AnsweredOnce /\ ConfirmsPending /\ ConfirmedUnlessGivenUp
        /\ HooksOrdered /\ HookUnwritten /\ TokenCurrent /\ OutputOrdered /\ ChainOK
    BY DEF IInv
  <2>2. TypeOK'
    BY <2>1, TypeStep
  <2>3. EnableAlone' /\ BootWaits' /\ ReaderOK'
    BY <2>1, EnableAloneStep, BootWaitsStep, ReaderStep
  <2>4. LoopsOK' /\ Coherent'
    BY <2>1, <2>2, LoopsOKStep, CoherentStep
  <2>5. PendingOK' /\ AnsweredOnce'
    BY <2>1, <2>2, PendingOKStep, AnsweredOnceStep
  <2>6. ConfirmsPending' /\ ConfirmedUnlessGivenUp'
    BY <2>1, ConfirmsPendingStep, ConfirmedStep
  <2>7. HooksOrdered' /\ HookUnwritten'
    BY <2>1, <2>2, HooksOrderedStep, HookUnwrittenStep
  <2>8. TokenCurrent' /\ OutputOrdered'
    BY <2>1, <2>2, TokenCurrentStep, OutputOrderedStep
  <2>9. ChainOK'
    BY <2>1, <2>2, <2>7, ChainStep
  <2>10. (TypeOK /\ ReaderOK /\ OutputOrdered /\ ChainOK => ChainFollowsShell)'
    BY ChainFollows, PTL
  <2>11. QED
    BY <2>2, <2>3, <2>4, <2>5, <2>6, <2>7, <2>8, <2>9, <2>10, Zenon DEF IInv
<1>2. QED
  BY InitIInv, <1>1, PTL DEF Spec

\* The variables keep their types, the session's sixteen fields among them.
THEOREM TypeCorrect == Spec => []TypeOK
BY Inductive, PTL DEF IInv

\* The flag that says whether a probe loop runs is never wrong in the direction that
\* would start a second one: there is one loop at most.
THEOREM OneLoopOnly == Spec => []OneLoop
<1>1. LoopsOK => OneLoop
  <2> SUFFICES ASSUME LoopsOK PROVE OneLoop
    OBVIOUS
  <2> DEFINE running == {l \in Loops : loop[l].pc # "none"}
  <2>1. CASE running = {}
    BY <2>1, FS_EmptySet DEF OneLoop
  <2>2. CASE running # {}
    <3>1. PICK l \in running : TRUE
      BY <2>2
    <3>2. running = {l}
      BY <3>1 DEF LoopsOK
    <3>3. Cardinality(running) = 1
      BY <3>2, FS_Singleton
    <3>4. QED BY <3>3 DEF OneLoop
  <2>3. QED BY <2>1, <2>2
<1>2. QED
  BY Inductive, <1>1, PTL DEF IInv

\* A ready prompt has a directory, and busy is always what the other fields imply.
THEOREM AlwaysCoherent == Spec => []Coherent
BY Inductive, PTL DEF IInv

\* However timer, probe, Close and failed writes race, a change gets no second answer.
THEOREM OneAnswer == Spec => []AnsweredOnce
BY Inductive, PTL DEF IInv

\* As long as no change was given up, a change that succeeded reached its directory.
THEOREM SuccessConfirmed == Spec => []ConfirmedUnlessGivenUp
BY Inductive, PTL DEF IInv

\* The next prompt of the newest hook is always expected, whatever was rolled back, came
\* late or went without proof: as long as markers arrive the chain of nonces is not lost.
THEOREM ChainKept == Spec => []ChainFollowsShell
BY Inductive, PTL DEF IInv
=============================================================================
