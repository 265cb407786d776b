# A TLA+ model of OpsKat

OpsKat is a desktop program for operations work: a Go application behind a webview (Wails), a
command line tool `opsctl` that talks to it over Unix sockets, an AI assistant that runs tools on
the same assets, and plugins. This directory models the parts of it in which several goroutines,
processes or the webview act on shared state: TLA+ modules, the configurations that check them
with TLC, and proofs checked by TLAPS. Every definition is a translation of the Go or TypeScript
code; `PROJECT.json` gives the lines of each one.

- [The system](#the-system): components, their state, operations and interactions
- [The modules](#the-modules): what models what
- [The runs](#the-runs), [bounds](#bounds) and [fairness](#fairness)
- [What is proved](#what-is-proved)
- [Where the code and its comments part](#where-the-code-and-its-comments-part)
- [What is not modelled](#what-is-not-modelled) and [the plan](#the-plan)

## The system

    opsctl process ──approval.sock──▶ approval.Server ─▶ App handlers ──event──▶ webview dialogs
          │                                │    ▲                                  │
          │                                ▼    └── pendingOpsctlApprovals ◀─ RespondOpsctlApproval
          │                          grant tables (SQLite)
          └──────proxy.sock──────▶ sshpool.Server ─▶ sshpool.Pool ─▶ SSH servers
                                                      ▲
    webview panels ─▶ query caches, Kafka manager ────┘ (tunnels)
    webview AI chat ─▶ SendAIMessage ─▶ runner (library) ─▶ tools ─▶ per-send caches

Components, with the state each keeps, its operations, what is hard about it and what makes it
correct:

| component | state | operations | hard behaviour | correct when |
|---|---|---|---|---|
| SSH client pool (`internal/sshpool/pool.go`, `connpool/tunnel.go`) | map asset → entry (client, refCount, lastUsed, closed), `p.mu`, a mutex per entry, cleaner goroutine | Get, Release, Remove, Close, idle sweep | Get spans three critical sections and a dial; the keepalive probe keeps the entry's mutex over the network; Remove closes after its unlock | no client leaks or is closed twice, the map holds open clients only, nothing comes back, Close ends |
| Proxy server (`sshpool/server.go`) | listener, handlers | exec, upload, download, copy | each holds a client of the pool; removes it on a connection error and still releases it | every Get is matched, Stop returns |
| Approval broker (`internal/approval`, `app_approval.go`, `grant_repo`, `OpsctlApprovalDialog.tsx`) | grant sessions and items, `pendingOpsctlApprovals`, queue and edit state of the dialog | single, batch, grant, ext_tool requests; respond; Cleanup | event and map are written in two steps; grants of one session share a key; the tables outlive a request | verdicts are the user's, grants take effect with consent, no handler outlives the shutdown |
| AI send cache (`ai/conn_cache.go`, `tool_handlers_exec.go`) | map asset → client, closers, singleflight | GetOrDial, Remove, Forget, Close | parallel tool calls, retry, cancellation, closing under running calls | one dial, no leak, calls end |
| AI send (`app_ai.go`, `aiStore.ts`) | `runners` map, entry per send, listener and flag of the conversation | send, stop, delete, provider switch, edit and regenerate | two maps of truth (webview flag, runners), LoadAndDelete far from Store, three second timeouts, late events | one turn at a time, stoppable, calls return |
| Kafka clients (`connpool/kafka.go`) | map asset:fingerprint → entry (refs, closing, lastUsed) | Acquire, release, CloseAsset, Close | eviction while borrowed, duplicate dials, limit | borrowed clients are open, counts exact, no leak |
| Query panel connections (`app/query_conn_cache.go`) | map → connection, evictor | GetOrDial, Drop, Close | evictor and Close against queries, dial in flight at Close | no leak; none in use closed |
| AI in-app approvals (`app_ai_approval.go`, `ai/local_tool_gate.go`) | pending map, remembered patterns | confirm, grant, local tool, respond | emit before store; unlocked read-copy-write | as for the broker |
| Permission decision (`ai/permission.go`, `command_policy.go`, `command_rule.go`, `command_shell.go`, policies) | policies of assets and groups, policy groups, grants of a session | CheckPermission per asset type, TestPolicy, confirm, remember, grant | precedence of deny, allow and grants over compound commands, written again for each of six types and for the tester; what is remembered must match later | deny wins; allowed only as a whole by one authority; the tester predicts the decision |
| Port forwarding (`forward_manager.go`) | configurations and rules in the database, running rules, clients counted per asset | create, update, delete, start, stop, StopAll | configuration read before the lock, database changed in steps, counts by asset, listeners closed later by goroutines | counts exact, clients closed with their last rule, status true, what is stored is what runs |
| Directory sync of a terminal (`ssh_svc/dirsync.go`) | the state shown, pending change, bootstrap of the hook, chain of prompt nonces, probe loop | change directory, enable, type, prompts, probes, close | probe, timer, prompt and Close race for one change; a given-up hook goes on printing; the loop ends in two steps | one answer per change, the right directory, one loop, none after Close |
| Terminal sessions (`ssh_svc/ssh.go`) | sessions, sharedClient references | connect, split, write, disconnect | last release against a split | client closed with its last session only |
| Serial sessions, SFTP | sessions, readers, transfers | open, callbacks, close; transfer, cancel | callback timeout | reader stops at close |
| Extensions (`extension_svc`, `pkg/extension`) | loaded plugins, bridge registrations | install, upgrade, enable, reload, uninstall, call | partial failure of an upgrade, debounce after Close | registry and loaded plugins agree |
| Shutdown (`app.go`) | shutdownCh, servers, managers | Startup, Cleanup | order of the stops, handlers in flight | Cleanup returns, nothing is dialled after it |
| Backup, self update, credentials, assets, groups, snippets, import, sort order | database rows, files | single statements, file replacement | crash between steps of an update | files complete or untouched |
| Webview stores (`terminalStore`, `queryStore`, `sftpStore`, …) | tabs, sessions on screen | user actions, events | answers out of order | screen and app agree |
| Redis, Kafka, SQL, Kubernetes panels; repositories; development server | none of their own | requests | remote failures | pass-through |

How they interact: the approval server, the proxy server and the AI tools are callers of the
permission decision, which reads the grant tables the broker writes. The pool is shared by the
proxy handlers and every tunnel (database, Redis, MongoDB, Kafka); each tunnel owns one reference
and releases it on Close. `stopEntry` closes the caches of a send while its tool calls may still
run. `Cleanup` closes `shutdownCh`, then stops the servers and managers, and the pool among the last.

## The modules

| module | models | abstract specification it implements |
|---|---|---|
| `ConnSlots` | no code: what every keyed connection cache promises. A connection is private, shared under one key, retired, closed; it is shared once, and does not stay open out of its slot | |
| `SSHPool` | `sshpool.Pool` with both kinds of mutex, its callers and the cleaner | `ConnSlots` (`SlotsSafety`, `SlotsReclaimed`) |
| `SSHPoolProofs` | theorems about `SSHPool` | |
| `KafkaClients` | `KafkaClientManager` | `ConnSlots` (`SlotsSafety`, `SlotsReclaimed`) |
| `KafkaClientsProofs` | theorems about `KafkaClients` | |
| `Forward` | `ForwardManager` with the database statements of its callers, listeners and broken connections | `ConnSlots` (`SlotsSafety`) |
| `ForwardProofs` | theorems about `Forward` | |
| `ConnCache` | `ConnCache` of an AI send with `runCommandWithCache` and `stopEntry` | `ConnSlots` (`SlotsSafety`) |
| `ConnCacheProofs` | theorems about `ConnCache` | |
| `Approval` | opsctl, approval handlers, dialog, grant tables, shutdown | |
| `ApprovalProofs` | theorems about `Approval` | |
| `AISend` | one conversation in the webview and in the app | |
| `AISendProofs` | theorems about `AISend` | |
| `DirSync` | directory sync of one terminal session: calls, reader, probe loop, typing, Close and the remote shell | |
| `DirSyncProofs` | theorems about `DirSync` | |
| `Permission` | the permission decision, the policy tester, confirmations, and the grant session with its items | |
| `PermissionProofs` | theorems about `Permission` | |
| `MC…` | instances of the above for TLC | |

Conventions: a variable `pc[p]` is the place of a goroutine (request, tool call, send); names of
variables are the fields of the code where there is one. A critical section is one action; where
the code keeps a mutex over several steps a variable says who has it. A definition preceded by
"Mutant" is a wrong version of the definition after it, named in `PROJECT.json`: it shows that
a property would notice the bug, and no specification uses it.

### SSHPool

`entries`, `ref`, `expired` are `p.entries`, `refCount`, and `lastUsed` older than `idleTime`. A
pool entry and its `*ssh.Client` are made and closed together, so one identity stands for both,
`life` being `closed`. `pmu` is `p.mu` where it is kept across steps (`cleanupIdle` and `Close` walk
the map); `emu` is `entry.mu`, which `isAlive` keeps during its keepalive. Get is
`Lookup ProbeStart ProbeEnd Acquire` or `Remove Close`, then `DialOk|DialFails Insert [Discard]`; after use,
`Finish` or, for the proxy on a connection error, `SessionError` with a `Remove`, and then
`Release Decrement`: Release finds the entry by asset id under `p.mu` and decrements it after.
`SweepStart … SweepEnd` is `cleanupIdle`, `CloseBegin … DrainEnd` is `Close` with its wait for the
cleaner. `Drop` (the transport fails) and `Expire` are the environment.

### KafkaClients

A key is an asset with a fingerprint of its configuration; `assetOf` gives the asset. `refs` and
`closing` are the entry's, `stale` says that `lastUsed` is older than `ttl`. `Acquire` is its first
critical section with `closeStaleLocked`; `DialOk`, `Insert` and `Discard` (the duplicate of a concurrent
dial) the rest, and `Evict` one round of `evictOverflowLocked` with the mutex kept (`mu`). Which entry
is oldest is left open: the stamp is taken before the dial, so it may even be the new one. `Release`
is the closure Acquire returns, `Close` the close it may owe; `CloseAsset` and `CloseManager` are
the same critical section over some or all keys, followed by `CloseNext`.

### ConnCache

A connection is a client and the tunnel (`closers`) its dial returned. `flight` is singleflight, an
outside library: who runs the function for an asset; `Land` gives its result to all who joined.
`Judge`, `Forget` and `Remove` are what `runCommandWithCache` does with an error: cancelled → Forget,
otherwise Remove and one more attempt. `Cancel`, `CloseSwap`, `CloseVictim` are `stopEntry` with the cache's `Close`;
its three second timer is why `CloseSwap` waits for nobody.

### Approval

A request is a grant, a single, a batch or an extension call. `Check` is the look at the grants in
the opsctl process; `Connect` and `Decode` lead to the handler; `OpenSession`, `CreateItems`, `Emit`,
`Store`, `Receive` or `Abort`, then `EnsureSession SavePattern` (Allow Session of a single) or
`SetStatus WipeItems RefillItems` (a grant), then `Delete` (the deferred one). `Show`, `Answer` and `Respond`
are the dialog, its user and the bound call. What a pattern matches is equality of `[asset, command]`.
An operation, its audit entry and its output are left out, and so are database failures after
the answer, which the code logs and ignores.

### AISend

A send, its `runnerEntry` and its turn are one identity. `Take Cancel Await Close` is `stopEntry` with the
LoadAndDelete before it, for sends, stops and deletions, and provider switches (which read and delete
in two steps, `Drop`). `Store`, `StartTurn` and the failing variants are the rest of `SendAIMessage`. The webview
has a `sending` flag and one listener; `events` are the last events of turns, in order. The early
return of a send whose context was cancelled while it was built, messages queued into a
running turn, and a second replay during the first are left out.

### Forward

`config` and `ruleOf` are the two tables; an id is new, stored or deleted, and none is used twice (the
page passes no rule ids on update). `clients` and `refs` are `m.clients` with `fc.refs`, `running` is
`m.running`, `listeners` what is listened on, `cancelled` those whose context is cancelled and whose goroutine has
not closed them yet (`CloseListener`). StartConfig is `FindConfig ListRulesByConfigID`, both before the lock,
then `Lock` (with `stopConfigLocked`), `Reuse` or `DialAsset Install` and one `StartRule` for each rule, all with
`mu` kept; a rule may always fail to start, and does when its address is `Busy`. Update is
`IsConfigRunning StopConfig UpdateConfig ReplaceRules` and the start again; delete is the stop, `DeleteRulesByConfigID` and
`DeleteConfig`; each statement may fail, and ReplaceRules may fail half way. `Drop` breaks a connection: its remote
listeners end, local ones stay. The order in which the rules of one configuration start is left open. A SOCKS5
rule is a local one; what a listener does with a connection changes nothing here. `StopAll` has no caller in the
program yet; it is modelled all the same. `overlapped` is a history variable: configurations of which two calls
met since they were last stopped.

### DirSync

`s` is the session with the fields behind `syncMu`; an action is one critical section or one wait.
A change is `Start [EnableSync Inject Booted|BootTimeout] Prepare Write Ensure Wait|Timeout`, an enable the
bracket alone. The reader takes the next marker and compares its token (`ReadMarker`). An init marker is accepted in a
critical section of its own, which does not look at the token again (`ReadInit ReadEnsure`); for a prompt marker with the
nonce expected the reader probes the terminal's mode, and accepts or only moves the chain on (`ReadProbe ReadProbed ReadNote`;
a nonce tells its token, so that its two looks are one step). A probe loop is
`LoopTop LoopProbe LoopUsable|LoopUnusable [LoopFinish]` or `LoopStop`; what is pending is read at the top and
used after the probe. `CloseBegin CloseEnd` is Close or the reader's end, `UserWrite UserEnsure` the user's typing,
`ShellRuns ShellSwallows` the remote shell, which may fail a `cd`, or be busy with a program that reads the line.
Tokens and nonces are numbers, fresh when generated. Writes to the shell do not block: that `Session.Write` and `writeInternal` keep
`s.mu` over `stdin.Write` (`ssh.go:109-117`, `164-172`), for which Close waits, is left out, and so are markers lost in the parser. A second injected hook makes bash print two markers for a
prompt; the model prints one.

### Permission

A command is what its parser makes of it: whether it parses, its units (sub-commands, statements), its own
text. `match[m][r]` is the set of units a matcher `m` finds a rule `r` to match, so nothing depends on the grammar
of rules. `CheckPermission` follows each type's own function: how policies of the asset and its chain of groups are
collected (deny lists add up, the inner allow list replaces the outer ones, except for ssh and serial), which
defaults are added, the generic policies of the groups, the grants of the session. `TestPolicy` is the tester
of the settings page, which does all of it again in code of its own. The state is the asset's type, group and
policy, the policies of the groups, the grant session (`status`) with its `items`, the confirmations that are open, and what
the user allowed for good (`NormalizeGrantPatterns` says what is kept of it); all of it may change at any time.

Grants neither only grow nor always count. `ListApprovedItems` returns the items while the session is approved.
`SaveGrantPatterns` (of `AnswerRemember` and `SubmitGrant`) creates a session as approved but leaves the status of one that
exists. `OpsctlGrant` is `handleGrantApproval` as far as the session and its items go: `GrantAsked` stores the items before the
user is asked, `GrantDenied` (or the shutdown) rejects the whole session, `GrantApproved` approves it, and with items from the dialog
`GrantItemsDeleted GrantItemsCreated`, the two statements of `UpdateItems`, replace all of them, remembered patterns included.
`Approval` models the same handler with its dialog and several grants at once; here one is under way at a time.

## The runs

| run | expects | what it shows |
|---|---|---|
| `pool` | pass | one owner per open client, one keeper per lock; references exact until an eviction and never short in total; `ConnSlots` with reclaiming; Get, Remove, Release and Close return despite the mutex kept over the probe |
| `pool_refs` | violation | a Release takes the reference of a holder of the next client |
| `kafka_sharing` | pass | no borrowed client is closed, the limit, returns, `ConnSlots` with reclaiming |
| `cache_sharing` | pass | one dial per asset, no leak as long as the send runs, calls end, `ConnSlots` |
| `forward` | pass | exact counts, no idle client, true status, what runs is what is stored, `ConnSlots` |
| `approval_safety` | pass | verdicts are the user's, grants need consent and cover what their session asked for, ids lead to live handlers or nowhere |
| `approval_liveness` | pass | quitting releases every handler and Stop returns; answers end requests |
| `send` | pass | one live turn; calls return; a turn somebody set out to stop ends |
| `send_replay` | violation | two overlapping sends leave a turn nobody can stop |
| `dirsync` | pass | two changes, the first of which enables the sync: one answer each, the right directory, a chain of nonces that survives given-up hooks and their late markers, calls return, no probe loop after Close |
| `dirsync_user` | pass | a change, an enable and a user who types, probes that fail: one probe loop, and a state shown that is coherent |
| `permission` | pass | deny wins; allowed as a whole by one authority; the tester agrees; what was remembered is not asked again as long as the session keeps it |

What the less obvious properties say:

- `RefExactUntilEvicted` and `RefsNeverLost` (pool) are what is left of exact counting when Release
  works by asset id. Until an asset's first eviction its count is exact; afterwards a Release may hit the
  next client, but the counts of the clients an asset has had in the map (`installed`; a discarded duplicate, whose count
  nobody takes back, is not among them) never sum to less than its holders. `RefCoversHolders`, the
  claim per client, fails. The sum is written as a difference of two cardinalities, `Credits` (references above
  zero) and `Debts` (those an entry released too often has gone below it).
- `AutoNeedsConsent` says two things of a request that skips its dialog: somebody consented in its session, and its target and
  its command come from requests of that session which went through the app (`FromSession`). They may come from two
  different requests, because the dialog may send the targets of one grant with the commands of another, and
  the user need not have decided about either: consent belongs to the session.
- `VerdictIsTheUsers` allows a grant to receive the answer of another grant of its session, since they
  share an id; for every other request the answer is its own.
- `OneTurn` holds until a branch is replayed, as long as no send fails and no provider switch has begun. The premises
  are needed: `send_replay` shows the first, and a failed send is announced twice, so that a send issued
  between the two loses its flag; a switch deletes the entry it has read, or the one stored since.
- `NoLeakWhileRunning` stops at the cancellation: a dial that ends after the cache's Close still installs
  its client in the emptied map, and Forget drops tunnels.
- `ConfirmedUnlessGivenUp`: as long as no change was given up (by its timer, Close or too many useless probes), a change that
  succeeds was answered with the directory it asked for. Afterwards it may not be, see below.
- `RunsWhatIsStored` is about configurations of which no two calls have met since they were last stopped: a
  start that overlaps a delete runs what was deleted.
- `StatusIsTrue` has one exception, which is the program's: the rule of a listener on a server whose connection
  broke is still shown as running.
- `AllowIsCovered` names the authorities of a decision: the typed rules, the generic rules of the groups, the grants.
- `RememberedHolds` speaks of commands whose patterns can match at all (`Keepable`); which cannot is listed below. It holds for
  good in a session for which opsctl asks for no grant, as that of a conversation. In one for which it does, it holds while the session is
  approved, since a pending or rejected one has no effect, and until a grant replaces the items: `remembered` is emptied then, with them.
- `ChainFollowsShell` is what an enable can rely on after others were rolled back. Their hooks stay in the shell, and an init marker of
  one may even boot the next enable (see below). Still the session's nonces do not move before its own hook has run, and from then on the next
  prompt marker is one that is expected. The exception is while a marker is being looked at, which is the one before.
- `RefsExact`, `NothingLost` (Kafka), `NoOrphan`, `MappedOpen`, `OneCloser`, `NoRevival` (pool) are proved and no run repeats them;
  nor do runs repeat `NoMutualWait` (pool), `JoinersServed` (cache of a send), `DeniesTighten` and `GrantsLiftConfirm` (permission), which
  are stated and proved for every step or state. `TypeOK` is proved for every module. In `pool` the run
  checks the whole `IInv`: owners, counts, totals and locks.

### Bounds

Every bound is a constant of a configuration; no counter had to be capped, since the connections
a run may dial (`Clients`) are a finite set and dials fail after them.

- `SSHPool`: one asset, two goroutines, two clients, one of which may drop or expire (`Frail`). The pool does
  nothing across assets but iterate; two goroutines give every pair of steps, and a frail client is what makes entries
  go and a second one come while the first is still held. What would need more (a client replaced twice) is covered by the
  proofs, which bound nothing. A longer supply of frail clients only adds connections lost faster than calls finish.
- `KafkaClients`: two configurations of one asset and a second asset (stale by configuration, evicted by
  the other asset), limit one, two goroutines, two clients.
- `ConnCache`: two calls of one asset, four dials: both attempts of both calls can dial.
- `Approval`: one session, as in one conversation; two grants for different items and a single request
  that asks for what the second grant does; for liveness one batch, one grant and one extension call.
- `AISend`: two sends, a stop and a provider switch; a second stop meets the entry like the first.
- `Forward`: a local and a remote rule, two configurations, one asset, two dials, two calls at a time, one of which
  (`Editors`) may create, update and delete: rules of one configuration or of two share a client, and every call meets a
  start. A configuration that is edited to another asset is left to the proofs. Listeners have different addresses, so that a rule finds only its own former listener in its way.
- `DirSync`: two calls, so that one enable may be rolled back and another follow; two names for loops (the second would show `OneLoop` broken); in one run probes work and nobody
  types, in the other one change meets an enable, one line or key typed, and one useless probe (`MaxUnusable`) that
  ends the sync. The first run has two directories; the second, where no directory is compared, has one. The full product of
  both does not finish.
- `Permission`: a command of one unit, one of two units whose text matches nothing, one that does not parse, a wildcard, a policy group of each of two
  types, a chain of two groups, every combination of two policies of the asset with two for each group, one confirmation and one grant of opsctl at
  a time. `MaxGrants` stops further items once there is one; answering a confirmation and asking through opsctl may add one more, so that a remembered
  pattern meets a grant that rejects or replaces it. Statements of the database do not fail here.

`CHECK_DEADLOCK FALSE` stands where a run ends by itself: every request, call or send has been used.
The pool and the Kafka manager never stop, and their runs check deadlock.

Symmetry is used in `forward`, over clients, assets and configurations; its properties name none of
them. No run of a liveness property uses symmetry.

### Fairness

- Goroutines of the Go program run when they can: weak fairness of their steps.
- A `sync.Mutex` hands itself to a waiter of more than a millisecond (starvation mode), so that a
  goroutine that waits for `p.mu`, `entry.mu` or `m.mu` again and again gets it: strong fairness in `SSHPool` and
  `KafkaClients`.
- Dials, keepalives and commands end, by their timeouts or with the connection; requests to Kafka run under
  a timeout (`withClient`), so that borrowers release.
- Timers fire (`Await` after three seconds, `Timeout` after four), events arrive, the webview handles them.
- A turn ends once it has been cancelled or its runner is closed, the promise of the runner library; a turn left alone need not.
- Nothing is assumed of users, of plugins (`ToolReturns`), of the start of opsctl processes,
  of a decision to quit, or of the remote shell: the calls of `DirSync` return although it may be stuck.
- `Forward` and `Permission` have safety properties only.

## What is proved

Eight modules hold proofs. What they show holds for every value of the constants, and without fairness, which is
not needed for safety. The four caches have the same shape of argument:

| theorem | pool | Kafka manager | forward manager | cache of a send |
|---|---|---|---|---|
| inductive invariant | `Ownership`: `OwnInv`; `Inductive`: `IInv` | `Counted`: `IInv` | `Inductive`: `IInv` | `Inductive`: `IInv` |
| types | `TypeCorrect` | `TypeCorrect` (no count falls below zero) | `TypeCorrect` | `TypeCorrect` |
| no leak | `NothingOrphaned` | `NothingLeaks` | `NothingIdle` | `NothingLeaks` |
| closed or in use | `MapHoldsOpen`, `ClosedOnce`, `NeverRevived` | `NeverUsedClosed` | `StatusTrue` | |
| counts, limits | `CountsExactUntilEvicted`, `ReferencesSuffice` | `CountsExact`, `WithinLimit` | `CountsExact` | `DialsOnce` |
| who waits for whom | `NobodyWaitsInACircle` | | | `JoinersAreServed` |
| what runs is what is stored | | | `RunsStored` | |
| implements the safety of `ConnSlots` | `Refinement` | `Refinement` | `Refinement` | `Refinement` |

The other four modules prove, besides `TypeCorrect` and an inductive invariant:

- `PermissionProofs`: `DenyAlwaysWins`, `AllowedAsAWhole`, `TesterPredicts`, `RememberedForGood`, and of its steps
  `DenyRulesTighten` (an edit that only adds deny rules loosens no decision) and `GrantsOnlyLift` (patterns and grants
  turn confirm into allow and back, never touch a deny, and take an allow back only when the session is rejected or its items replaced).
- `ApprovalProofs`: `UserDecides` (`VerdictIsTheUsers`), `NoGrantUnasked` (`AutoNeedsConsent`),
  `AnswersReachHandlers` (`PendingIsLive`), `AnsweredForGood` (an answer is never replaced).
- `AISendProofs`: `OneTurnOnly` (`OneTurn`).
- `DirSyncProofs`: `OneLoopOnly`, `AlwaysCoherent`, `OneAnswer`, `SuccessConfirmed`, `ChainKept`, for the five
  invariants of the two runs.

Assumptions, beside `None` differing from everything that may take its place:

- `PoolAssumption`: goroutines are finitely many.
- `KafkaAssumption`: each key has an asset, the limit is a natural number, goroutines and keys are finitely many.
- `ForwardAssumption`: the marks of ids differ from ids, rules are finitely many and of one kind each.
- `CacheAssumption`: nothing else. `SendAssumption`: a call is a send, a stop or a switch. `DirSyncAssumption`: a change is not an enable, its target and the home
  directory are directories, two bounds are natural numbers.
- `ApprovalAssumption`: a request is of one kind and has a session, an asset and a command; request ids are no session ids.
- The assumptions of `Permission` type its constants: rules, what they match, policies, defaults, parents.

*The pool.* "No open client is lost" is not inductive: a step of one goroutine could close or
install the client of another. `OwnInv` says that each open client has one owner: the map (`MappedOpen`), the
goroutine that dialled it (`PrivateOwned`), or the one that took it out (`RemovedOwned`, `OneCloser`).
`LocalsOK` ties locals to places, `VisitsMapped` says that what a sweep or a Close has yet to visit stays in the
map while `p.mu` is kept. Each action moves one client between owners. For the refinement the
owner gives the stage, and each action is one action of `ConnSlots` or invisible to it.

*The pool's counts.* `CountInv` joins `OwnInv` for `CountsExactUntilEvicted`. Release finds its entry by asset, so
that exactness needs the entry to be the one acquired: `FoundStays` says that what a goroutine found in the map
is there until the asset's first eviction, `InstalledOnce` that a dialled client arrives with the one reference of its own Get, and
`VacantUnheld` that a Release never finds the slot of an asset empty before then, which would lose its decrement. Per step an
asset's holders and its count are left alone (`ExactKept`) or change together (`ExactJoined`, `ExactLeft`).

*The pool's totals.* After an eviction a count may be short, so `ReferencesSuffice` speaks of all entries an asset has had in the map. Sums
over sets are defined by induction, out of reach here; the references are counted as elements instead: the pairs of an entry and a
number up to its count are `Credits`, those of an entry below zero are `Debts`, and one more or less reference adds or takes one pair.
Two parts of `CountInv` carry the bound. `InstalledOnce` says that a client nobody could find yet has the reference of its dial
and no other, so that its `Insert` adds one reference together with one holder, and a duplicate, which the map never shows,
adds neither; `FoundStays` says that what is acquired or decremented is of the goroutine's own asset. A Release that meets a
younger entry takes away one credit or adds one debt, one that meets none takes nothing, and either way one holder is gone.

*The pool's locks.* `isAlive` keeps `entry.mu` over the network, the sweep and Close keep `p.mu` while they wait for entries.
`LocksHeld` says who keeps what: an entry's mutex a goroutine that probes this entry, `p.mu` the cleaner as long as it
runs, Close once that has exited. `NobodyWaitsInACircle` follows: each chain of waits ends at a probe, which ends with
the network. That the waits do end is `CallsReturn` and `CloseCompletes`, which the run checks.

*The Kafka manager.* What makes closing safe is arithmetic: `refs = 0` must mean that nobody borrows and
`refs = 1` in a release that it is the last. Hence `RefsExact` (refs is the cardinality of the
borrowers) is part of the invariant, and the lemmas `CountTells`, `CountUp`, `CountDown` carry it. `OwedAlone` says
that a client somebody owes a close has no borrower, no key and no second debtor. `TakenOut` says
once what taking entries out of the map leaves alone; Acquire, eviction and both closes use it. `WithinLimit`
needs the mutex in the model: the map may exceed its limit by one while the insertion keeps it.

*The forward manager.* A release finds the client by asset and closes it when its count drops to zero. That
this is the last rule's release is `RefsExact`: the count is the cardinality of the rules recorded for the asset. It is
inductive only with `HolderOK` (what the holder of `m.mu` dialled is nobody else's, its rules do not run yet),
`ClientsOK` (a client has one asset), `InUse` (a client in the map has a rule or is about to get one) and `RulesOwned`
(a rule has one configuration, in the database, in a call that read it before the lock, and while it runs:
otherwise two starts could record one rule twice and count it twice). `StatusIsTrue` joins the invariant since
a start must not find a live listener of its own.

*The connection cache.* Singleflight runs one function per asset, and `FlightOwned` says that the call inside it is
the one singleflight knows: hence `DialsOnce`. Its second look at the map is what makes the install safe: nobody else
can fill the slot between that look and the install, so an install never overwrites an open client; and what it installs
is in nobody else's hands (`InstallAlone`). What is taken out to be closed does not come back (`TakenOut`).
Cancelling breaks `NothingLeaks` on purpose: Forget drops clients, so it speaks of running sends only. `JoinersServed` is the
other half of singleflight: a waiting call has a call under way for its asset, since `Land` tells all that joined in the step
that empties the flight. What remains for `CallsEnd` is that dials end.

*What a configuration runs.* `RunsStored` is about the callers as much as about the manager: a start reads the database
before it takes the mutex, and an update or a deletion stops, writes and starts again in separate steps. Its invariant is
`StoredInv`, one `StoredFor(k)` for each configuration, on top of `IInv`. As long as no two calls for `k` have met, the
one call there may be knows at each place (`CallOK`) what is stored and what runs: nothing between the stop and the
start, what was read while it starts, rule by rule. The proof has two halves: a step for another
configuration leaves everything `StoredFor(k)` speaks of alone (`SameFor`: no rule that starts ran for another, by `HolderOK`), and a step for
`k` itself moves the call from one `CallOK` to the next or ends it with `AsStored`. A stop from outside (StopForwardConfig,
StopAll) needs the mutex: it cannot come between the stop and the start of a StartConfig.

*The permission decision.* Its invariants but one are about what the functions compute in any state, so that
their proofs go from definition to definition, one type at a time: what a deny list hits stays hit when lists are collected
(`CollectPolicies`), expanded and completed by defaults; a result is only ever changed from confirm to allow. `TesterPredicts` compares
the two collections, list by list. `RememberedForGood` rests on `RememberedInv`: the items of every remembered command are in the session, since
the one step that removes items empties `remembered` with them, and a session opsctl never asked a grant for is absent or approved. When it is
approved the items cover what was asked, whatever is edited later, and lead to allow unless a deny hits. The two theorems about steps compare
the decisions before and after one: what a deny list hits grows with the list, through the chain of groups, merges, expansion
and the defaults of each type (`CollectMore`, `ExpandMore`, `RulesTighten`), and each type's order of tests never lets
a larger deny list loosen its result (`SettleTightens`). For SQL the first statement that decides ends the search;
a new deny can only make an earlier statement decide, as deny.

*The approval broker.* A verdict is read from a channel long after the user clicked, and channels of one session share
a key. The invariant follows an answer back: a verdict is what the handler's channel holds (`VerdictFromChannel`), a channel holds
what was said under its key (`AnswerOK`), and what was said stays said, because a request raises one event, which becomes
one dialog, which is answered once (`DialogOnce`, `SaidOK`). `AutoNeedsConsent` joins the invariant: an automatic approval rests on
items of a session that some answer approved, and `Places` says which handlers can write those. `Provenance` follows the items back
to where they came from: events, queued dialogs, edit states, answers and stored items all belong to requests of their own session that got to
a handler (`Reached`), so that no request is let through by itself or by another session, although ids, edit states and
items are shared between the grants of a session.

*The send.* Nothing in the app keeps two turns of a conversation apart; the webview's flag does. The invariant says whose
the flag is: a send has it while its call is under way, then while its turn runs, then while its last event travels
(`Active`, in that order by `InOrder`), and no second send is active (`FlagTaken`). Its turn is where Stop finds it or was taken by a call
that stops it (`Reachable`). All three are under the premise of `OneTurn`, and `Disturbs` shows that no step restores a broken premise.

*Directory sync.* `LoopsOK` (one loop past its start, with the flag set and its shell known) gives `OneLoop`. `PendingOK`
(a pending change has no answer yet) with the channel's owner gives `AnsweredOnce`. Success is true while nothing was given up,
because the loop that is about to confirm a change confirms the pending one (`ConfirmsPending`). That the chain of nonces is kept is a matter of
order: hooks are run in the order of their tokens (`HooksOrdered`, `HookUnwritten`), `syncEnableMu` keeps writers apart
(`EnableAlone`), and the session expects its newest token or none (`TokenCurrent`). The output is in the same order, the markers of the newest hook
last: its init marker, then its prompts, numbered without a gap (`OutputOrdered`). `ChainOK` says where the chain stands in it:
at its start until that init marker is read, which may find the shell known already by an older hook's; then at the first prompt that is
unread, or one before it while that one is being looked at. A marker without proof of a prompt adds a second nonce, it never
takes away the one expected. `ChainFollowsShell` follows from both.

Left to TLC: all liveness (fairness and ENABLED are beyond the prover). Every invariant and action property that a
passing run checks is stated by a theorem; of the two `ConnSlots` properties the safety part is proved, and `SlotsReclaimed`, which is
liveness, is checked.

## Where the code and its comments part

Two disagreements have a run (`findings` in `PROJECT.json`):

1. `pool.go:181`: Release decrements the entry the asset has by then, not the one acquired.
2. `app_ai.go:453`: the old entry is looked for long before the new one is stored.

Others were met while modelling. The models contain the behaviour, unless an item says that it is not modelled, and no run is spent on them:

- `app_approval.go:186`: grant items are stored before the user is asked, under a status that belongs to the
  whole session; `ListApprovedItems`, against `grant_repo/grant.go:20`, returns them once anything approves the session.
- `conn_cache.go:121`: on cancellation `tool_handlers_exec.go:115` has closed the client only; Forget drops the closer of the jump
  hosts with it, against `resolver.go:266-267`, or drops a younger client that is open, against 118-119.
- `pool.go:251`: the sweep may close a client between another goroutine's `isAlive` and `acquire`, or
  one whose reference another Release has taken.
- `pool.go:134`: Get's `Remove(assetID)` on a dead entry may close the healthy one installed meanwhile.
- `app_approval.go:215`: grants of one session share a key; a Store overwrites a channel and the
  first Delete removes the other's, whose handler then waits until shutdown (a comment at 166 expects several
  requests per session).
- `permission.go:459`: a pattern saved by Allow Session has no effect in a pending or rejected session, against its own comment at 447
  (saved as an approved item), and is replaced by a later grant's items, against `cmd/opsctl/command/session.go:194-196`.
- `app_approval.go:304`: an extension call does not select on `shutdownCh`; `Cleanup` waits for the plugin, against `app.go:214`.
- `tool_handlers_exec.go:119`: a command that exited non-zero is run again, though the comment above it
  wants to avoid that.
- `app_ai.go:144`: stopEntry goes on after three seconds; the caches are closed under running calls, against 147-148.
- `aiStore.ts:1551`: events do not say which send they belong to; a late one reaches the next listener, against 929.
- `app_ai.go:427`: a send copies the provider before it stores its entry, and a switch in between misses it, against 103.
- `app_ai.go:458`: the error path deletes the entry by conversation, which may be that of a newer send.

Port forwarding:

- `forward_manager.go:80`: configuration and rules are read before the lock; what a concurrent update or delete changes is
  not seen, and rules of a deleted configuration may run on.
- `forward_manager.go:96`: a restart ("先停掉已有的") cancels the old listeners, which close later in goroutines of
  their own (274): the new rule may find its own address in use and be recorded as failed. The page does so on every
  change of an asset (`PortForwardPage.tsx:140-158`: update, which restarts, then start). TLC finds it within 16 steps.
- `forward_manager.go:220`: a client whose connection broke stays in the map and is reused until its last rule stops.
- `forward_manager.go:93`: `m.mu` is kept over the dial, and every other call, the status shown by the page included, waits for it.
- `forward_manager.go:512-541`: an update that fails after its stop leaves a running configuration stopped, or without rules;
  `Save` (repository, 62-64) writes a row again that was deleted meanwhile.
- `app.go:214`: Cleanup does not stop the forwards; StopAll has no caller.

Directory sync:

- `dirsync.go:585-608`: the token of an init marker is compared in one critical section, and the marker accepted in another that does not
  look at it again. If the enable times out in between, is rolled back, and a waiting call begins the next one, the old hook's marker boots that:
  "init:pid confirms the shell ran our injection" (771) is then not so, and `EnableSync` may return before its hook has run. TLC finds it in a trace of ten states.
- `dirsync.go:430-446`: the nonce is compared in one critical section and the change answered in another: after a timeout in between
  the next change is answered with another's directory.
- `dirsync.go:112-114`: the timeout of a call fails whatever change is pending by then.
- `dirsync.go:395-408`: the loop decides to end in one critical section and clears `syncProbeActive` in another; a change that comes
  in between finds the flag set, starts no loop, and times out.
- `dirsync.go:647`: a prompt marker that is lost, or has no directory, breaks the chain of nonces: later prompts are not
  recognised, and EnableSync returns early as the sync is on. Markers are not lost in the model.
- `dirsync.go:422`: a probe that was slow may overwrite the directory of a newer prompt.
- `ssh.go:109-117`: Write keeps the session's mutex over the remote write, as does writeInternal (164-172), and Close (135-139) waits for it.
  Not modelled: a write that blocks keeps its own call, Close and whoever writes next from returning.

Permission decision:

- `permission.go:398-412`: serial commands are remembered unsplit, though they are matched by sub-command (56-72): a compound
  one is asked about again. So are database commands of several statements, and the items of request_permission
  (`app_ai_approval.go:95-111`), which are of a type of their own.
- `permission.go:421-435`: a command of several lines is split at the lines first; a loop or a heredoc does not parse line by
  line and is asked about again, which the comment (399-401) does not say.
- `command_rule.go:62`: a command with an environment prefix does not match its own saved pattern.
- `query_policy.go:113-144`: with several statements the first unlisted one ends the search with confirm, which a generic
  rule or a grant lifts although a later statement is denied.
- `policy_tester.go:447-478`: the tester on a group starts at its parent and leaves out the group's own generic policy.
- `tool_handler_batch.go:166,195`: items approved together are checked, and asked about, again one by one.
- `policy_group_resolve.go:138-147`: a database error drops the rules of policy groups, deny rules included. Not modelled.
- A policy edited to deny while a confirmation is open does not stop the confirmed command.

## What is not modelled

- Terminal emulation, rendering, formatting, encodings, translations, generated bindings, examples and the development server.
- Drivers and protocols: SSH, Kafka, SQL, Redis, MongoDB, Kubernetes clients, and the agent runner. They appear as outcomes
  (a dial succeeds or fails, a transport drops).
- Single-statement database services (assets, groups, credentials, snippets, conversations); only the grant
  tables take part in a protocol and are modelled.
- The glob and shell grammars of command rules (a rule is the set of texts it matches), policies of extensions, and
  database failures during a decision.
- Writes to a remote shell that block (`ssh.go:109-117`, `164-172`).
- `DisableSync`, which has no caller, the overflow of the marker parser, shell syntax of hooks and probes, and the events that tell
  the webview of a new state.
- What forwarded connections carry, the SOCKS5 handshake, the list of configurations with their formatted status.
- Frames and stream copying of the proxy.
- Token authentication and the notifications of the approval socket.

## The plan

Modules, in order, each with the runs and theorems it is for. The project keeps to a dozen runs, so that
a new module's run takes the place of a weaker one or shares an instance.

1. done: `ConnSlots`, `SSHPool`, `Approval`, `ConnCache`, `AISend`, `KafkaClients`, `Forward`, `DirSync`, `Permission`, and
   the proofs about all of them.
2. `Shutdown`: `Cleanup` composed of `shutdownCh`, the two servers, the caches and the pool: Cleanup returns; what is
   dialled after a Close stays open. Composes with `SSHPool` and the handlers of the proxy.
3. `PanelCache` (`query_conn_cache.go`): GetOrDial, Drop, evictor, Close, one more refinement of `ConnSlots`.
4. `LocalToolGate` and the in-app approvals, sharing the broker's shape.
5. `Terminals`: sharedClient references and split; `Serial`.
6. `Extensions`: install, upgrade, reload over service, manager and bridge with failing steps.
