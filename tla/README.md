# TLA+ models of bothearth

This directory holds TLA+ models of bothearth: the daemon with its tasks,
approvals, human takeovers and routines, the computers it builds, pauses and
connects to, what is kept on the machine, and the pages a person works with.
TLC checks the models on small instances; TLAPS proves most of their safety
properties for every instance. `PROJECT.json` maps each definition to the
lines it stands for, and lists the runs, the hazards, the mutants and the
theorems. Line numbers are those of the commit the models were written from.

1. Inventory: the system's parts
2. The modules: state and actions against the code
3. The runs: instances, bounds, properties, fairness
4. Where the code does otherwise than it says
5. The proofs
6. What is not modelled
7. What could come next

## 1. Inventory

| Component | State it keeps | Operations | Talks to | Module |
|---|---|---|---|---|
| Takeover state machine (`src/protocol/takeover.ts`) | none (a table) | eight events over six states | shared by rows and gates | `TakeoverProtocol` |
| Takeover handlers of the daemon (`daemon/server.ts`, `store.ts`) | takeover rows, lease timers, pending-sync set, one chain of control changes per computer | request, acquire, release, clear, decline, expiry, renewal, live input, cancellation | computer client, guest runner, pages | `Takeover` |
| Gate of the computer-server (`takeover-gate.ts`, `dispatch.ts`, `rpc-loop.ts`) | per role: session (state, id, epoch), acts in flight, live stream | gate every method; request, sync, grant, release, validate, decline, ttl, blank | daemon over stdio | `Takeover` |
| Computer client (`computer-client/exec-client.ts`) | a transport per role, the live subscription | `both()`: browser, then shell; serialized subscriptions | computer-server | `Takeover`, `LiveView` |
| Dispatcher and approvals (`daemon/dispatcher.ts`, `store.ts`, `policy/approvals.ts`) | approval rows, remembered sites, the task row | gate a call, raise a card, answer, expire, spend | harness, person, computer | `Approvals` |
| Policy gate (`policy/gate.ts`, `signals.ts`, `tos.ts`, `protocol/origin.ts`) | grants of a task, armed gates, the kill switch | classify a call, observe a page, remember a site | dispatcher | `GatePolicy` |
| Task runs (`daemon/server.ts` runStoredTask, `agent-loop.ts`, `codex-runner.ts`, `store.ts`) | the row, its runs, messages, outcome events, the receipt | start, turn, hold, message, stop, resume, finish, shut down, restart | computer, audit, pages | `Tasks` |
| Transcript of the agent loop (`agent-loop.ts`, `compact.ts`) | stored steps, the conversation in memory | observe, call, answer, pause, resume, prune, compact | provider | `Transcript` |
| Routines scheduler (`src/scheduler`, `daemon/routines.ts`, `cli/routine.ts`) | routines, next run, history, failures counted | tick, run now, add, remove, fatigue, recovery | task runs | `Scheduler` |
| Idle pause and lifecycle requests (`sandbox/idle-pause.ts`, `server.ts`) | last activity, paused set, pauses and wakes in flight; the computer's row | wake, sweep, start, stop, wipe, recreate | Docker | `Computers` |
| Building of computers (`sandbox/lifecycle.ts`, `flags.ts`, `compose.ts`) | subnet, network, containers, volumes | build, rebuild, remove, overlap, die | Docker | `Provision` |
| Harness budget (`store.ts`, `dispatcher.ts`, `server.ts` callTool) | binding, calls counted, cap, one reserved denial record | bind, count, refuse, record once, raise | audit | `HarnessBudget` |
| Audit chain (`src/audit`, `server.ts` emit) | log, head, sequence number, previous hash | append, anchor, start, verify | file system, key provider | `AuditLog` |
| Vault (`src/vault`, `cli/vault.ts`, `cli/init.ts`) | file and key item per home, one older item of the machine | open, set, remove, rotate, init, reset | key store | `Vault` |
| Egress proxy (`src/proxy`) | slots, requests, access log; a verdict per destination | plain request, CONNECT, lookup, end | network | `Egress`, `Destinations` |
| Browser session (`computer-server/src/browser`) | tabs, action, live and relay target, snapshots | open, follow, refuse popups, cap, crash, recover, act by reference | pages of the web | `BrowserTabs` |
| Files (`session.ts` downloads, `out-files.ts`, `jail.ts`, `store.ts` receipts) | quarantine, workspace, receipt | download, promote, write, list, repair, open, pack | task runs | `Files` |
| Provider sign-ins (`daemon/codex-connection.ts`) | generation, sign-in, CLI per provider | begin, join, cancel, adopt, revoke | CLI | `Connections` |
| Connectors (`daemon/connectors.ts`, `mcp/client.ts`) | client, discovered tools, approvals in memory and on disk | discover, approve, call, drop, restart | MCP server | `Connectors` |
| Remote deployment (`src/deploy`, `cli/deploy.ts`) | record, hosts, servers, firewalls | deploy over SSH or to the cloud, destroy, repeat | SSH, cloud | `Remotes` |
| macOS shell (`apps/macos` DaemonSupervisor, `cli/start.ts`) | child, record, restart budget, timers | launch, report, restart, Try again, quit | daemon | `Supervisor` |
| Sessions and live input (`daemon/auth.ts`, `server.ts` handleUpgrade, `live-key.ts`) | links, sessions, sockets, relay queues, what is held down | pair, revoke, send, wake, relay, coalesce, reset | computer | `Sessions` |
| Live view (`exec-client.ts`, `server.ts`, `ui/live/session.ts`) | gate, subscription, sockets, frames, pages | subscribe, restart, acknowledge, reconnect | computer-server, pages | `LiveView` |
| Task page (`ui/task.ts`, `live/panel.ts`, `takeover.ts`) | the task shown, revision, reads, panel | load, go on, reload, take over | daemon | `TaskPage`, `TaskFeed` |
| Home and readiness (`daemon/runtime.ts`, `ui/runtime.ts`, `ui/home.ts`) | readiness ladder, build, queued start | probe, build, poll, press | daemon | `Home` |
| Sign-in pane (`ui/connection.ts`) | provider, revision, poll, owed connect | refresh, press, cancel, connect | daemon | `SignIn` |
| Attention (`ui/native.ts`, `takeover-pings.ts`, `AppDelegate.swift`) | items, rounds of reads, banners | event, reconcile, announce, expire | daemon | `Attention` |
| QR code of a pairing link (`ui/devices.ts`) | the code drawn | version, Reed-Solomon, interleave, place | none | `QrCode` |
| Codecs, MCP bridge, licence, accounts, website, phone app, editor plugin | | | | none, see section 6 |

What is hard, and what makes each part correct:

* **Takeover.** Operators' requests, the lease timer, the task's cancellation, the
  model's calls and live input interleave at every `await`, over two processes that
  are told one after the other. Nobody acts beside a person; the guest's own model
  processes are frozen while a person drives and thawed afterwards; rows and gates
  tell the same story; a page a person typed into returns through validation; input
  reaches only the hold it was typed for; nobody waits for ever.
* **Approvals and gates.** A card is read, answered, spent and expired by different
  parties, across crashes, while a call that the harness gave up goes on. Nothing
  gated runs without consent, *allow once* buys one call, a remembered site was
  allowed for the task and covers that site only, the stored answer is the
  person's, nothing starts after a stop, consent does not outlive a hold.
* **Tasks.** Stops, resumes, messages and ends of the daemon meet a run at every
  await. One run acts; one outcome stands, is told to the log and is in the receipt.
* **Computers.** A wake against a pause in flight; a sweep against a long call; a
  wipe or a recreation against a task that starts.
* **Scheduler.** Single flight, the missed-run window judged by the time of the tick,
  a crash between any two writes of a firing.
* **Budget, audit, vault, files, remotes.** A step of several fails or the process
  dies between two: no budget is overdrawn, a chain links, a vault opens, a download
  is whole somewhere, a server that is paid for is on record.
* **Proxy and network.** A name stands for another address a moment later; a slot is
  given back once on every way a request ends; two computers are built at once.
* **Browser, sessions, pages.** Popups, closed tabs and blanked pages move the target
  of a person's input; answers arrive in any order; a socket is lost with a key held
  down; a device is revoked with input queued.

The 40 hazards, each at its line and with the properties that catch it, are in
`PROJECT.json`.

## 2. The modules

    TakeoverProtocol   the transition table of protocol/takeover.ts
    CaptureBarrier     abstract: what a takeover promises
    Takeover           daemon, both gates and the freeze          EXTENDS TakeoverProtocol
                       Barrier == INSTANCE CaptureBarrier WITH ...
    Approvals          cards, grants and calls

    Tasks Computers Scheduler Transcript HarnessBudget GatePolicy       side by side in MCDaemon
    BrowserTabs Egress Destinations Provision Vault AuditLog Remotes
      Connections Connectors Supervisor Files                           side by side in MCHost
    LiveView TaskPage TaskFeed Home SignIn Attention Sessions QrCode    side by side in MCPages
    Tasks Computers Scheduler Connections LiveView Home SignIn
      Supervisor Attention Sessions                                     once more in MCProgress

    MCTakeover MCApprovals MCVault                                      instances of one module

    Takeover_proofs  <- Capture_proofs          EXTENDS Takeover
    Approvals_proofs                            EXTENDS Approvals
    Tasks_proofs (tasks, budget, scheduler) <- Daemon_proofs            EXTENDS MCDaemon
    Network_proofs (tabs, proxy, destinations, builds) <- Host_proofs   EXTENDS MCHost
    Pages_proofs                                EXTENDS MCPages

In all of them the daemon is single-threaded: what the code runs between two
awaits is one step, and a handler is a small program whose place is kept in a
variable. A process that dies loses what is in memory and nothing that is stored.

### CaptureBarrier

What a takeover promises, without rows, leases or messages: a person takes the
desktop only when both doors are shut and no act is in flight, doors open only
when nobody drives, an act starts only through an open door, and only the
driver's typing makes a page private. A process that is replaced has an open
door and an empty page, which is why a driver loses the desktop with it.
`ImplementsBarrier` says that every step of `Takeover` is one of these, or none
of their business. The mapping: the driver is the device recorded with the
current hold while the browser gate is `human`; a door is shut while its gate
is in a busy state.

### Takeover

One computer and one task that runs in it.

| Variable | Code |
|---|---|
| `row`, `task` | tables `takeovers`, `tasks` (durable) |
| `nextId`, `timers`, `needsSync` | ids minted, `takeoverTimers`, `pendingTakeoverComputerSync` |
| `control` | the promise chain of `changeControl` (`server.ts:1052`) |
| `op[h]` | the continuation of one HTTP request, of the lease timer, or of a cancellation's call |
| `cancel`, `call`, `input` | `runCancelTeardown`, the model's tool call, a live frame |
| `gate`, `epoch`, `acting`, `wire` | per process: `TakeoverSession`, its epoch, acts in flight, takeover requests received and not served |
| `frozen`, `page`, `driver` | the guest's processes; whether the page shows what a person typed; history: who took the hold |

A handler is a little program: an action per stretch between two awaits
(`Observe`, `Recheck`, `Blank`, `Freeze`, `Status`, `Sync`, `Browser`, `Shell`,
`Inspect`, `StillSensitive`, `Thaw`, `Ask`, `Undo`, `Refused`, `Commit`), shared
by acquire, release, clear, decline and expiry, which differ in the event they
work toward and in where they go after acceptance (`AfterAcceptance`) and
refusal (`AfterRefusal`).

Abstractions, and why they lose nothing the properties see:

* An exchange with a process (send, serve, receive) is one step, taken when the
  process is free: it serves requests one at a time, in order. Takeover requests
  that may outlive their caller stay on `wire`. Status reads of the shell do not
  wait for the shell's acts: only the holder of `control` moves the shell's gate.
* A live frame that was sent may be overtaken by later requests; the pipe is
  FIFO, so this allows more than the code does.
* Events emitted between two writes of the same handler are left out; a lease
  renewal keeps the lease `running`.
* The page is one bit, the owner of a row a device, an id a small number.
* `needsSync` is in memory, like the set it stands for.

Accidents are chosen per instance in `Enabled`: `timeout` (the caller of a tool or
of a takeover request stops waiting and the call goes on), `slowCancel` (the bounded
waits of a cancellation run out), `cancel`, `nativeFails` (a freeze or thaw fails),
`lostBrowser` and `lostShell` (a transport fails; the next call starts a fresh
process). They are parameters, so that a run and a theorem can say which of them
a property survives.

### Approvals

One task on its computer. `Caller` are the calls that may be in progress at once:
the harness aborts a call (`raceHarnessMcpToolCall`, `server.ts:522`) while the
dispatcher goes on with it, and repeats it.

| Variable | Code |
|---|---|
| `card`, `answer` | table `approvals`, and as history what the person said to each card |
| `grants` | table `task_origin_grants` |
| `call` | one dispatch each: the epoch and the remembered sites captured at `Start`, the card it found |
| `takeover`, `rows`, `rowEpoch` | table `takeovers`: the state of the newest row, how many there are, the control epoch written into each |
| `counter` | the epoch of the gate in the browser's process (`takeover-gate.ts`) |
| `task`, `stopped` | the task's row; history: the person's stop |
| `counted`, `life`, `period` | history: by which process each row's epoch was counted, how often the count has started anew, how many human holds there have been |
| `used`, `cut` | history: cards on which a call has acted, and those whose call a crash cut off before it spent them |

From the policy decision to the card or the call there is no await, so each
outcome of finding a card (`FindExpired`, `FindUnallowed`, `FindApproved`,
`FindNone`) is one step with it. `Act` is the computer having acted, or perhaps
having acted: the dispatcher treats both the same. `Crash` loses every call in
progress and no row. Arguments, page and origin are bound into a card by a hash;
they are part of the model's action.

The epoch a card is bound to is that of the newest takeover row, and every way in
which that number moves is an action: the gate counts a request and a decline
(`ModelAsks`, `Heard`, `Decline`), the row of a person's request is there before its
epoch is (`PersonAsks`) and the row of one that was refused or never answered keeps
0 (`Refused`, `ModelAsksInVain`), a grant asks again for what was not heard (`Take`),
and a fresh process of the browser counts from 1 (`LoseBrowser`, `Crash`). So a
takeover that is asked for and declined changes the epoch with no human hold, and the
epochs of two processes may agree.

### The daemon that keeps tasks

| Module | State | Actions | What is abstracted |
|---|---|---|---|
| `Tasks` | `task` (row), `attempt` (runs, each at one of its awaits), `entry`, `aborted`, `pending` messages, `resume`, `stop`, `log`, `receipt`, `life` of the daemon | `RunStep` (the loop: `LoopTop` … `LoopHeld`; a native run: `NativeBegins` … `Judges`), `ResumeMarks`, `ResumeStarts`, `StopRevokes`, `TearsDown`, `StopTells`, `PostMessage`, `JobCloses`, `JobDies`, `Boots` | prompts and adapters; a tool call is one step; an audit event is in `log` when its append is over |
| `Computers` | `box`, `row`, and the idle pause's `lapsed`, `known`, `reconciled`, `flight`, `sweep`, `waking`; `call`, `op`, `cancelling`, `posted` | `WakeBegins`, `CallChecks`, `Unpauses`, `Woken`, `SweepBegins`, `SweepPauses`, `SweepEnds`, start, stop, delete, `ForgetWipes`, `Refreshes`, `PostBegins` … `PostMarks` | a Docker command takes effect in one step, its handler goes on later; a takeover counts as a task |
| `Scheduler` | `routine`, `history`, `tick` in progress, `routineRun`, `clock` | add, remove, `Tick`, its rows one by one, run by hand, record, fatigue, recovery, crash, graceful stop | time in minutes; an expression is the set of minutes it matches |
| `HarnessBudget` | binding, `status`, `cap`, `used`, `budgetDenied`, `reserved`, `claimed`, callers | bind, count, dispatch, give up, refuse, write, raise, restart | the two caps are one, in calls |
| `Transcript` | `rows`, `messages`, `phase`, `todo` | turn, call, answer, word, pause, resume, prune, compact | a message is its kind and its calls |
| `GatePolicy` | `mode`, `declared`, `armed`, `killed`, `granted`, the last decision `told` | `GateDecides`, `AllowsForTask`, `SetsPolicy` | words of controls and commands are the class their pattern gives them; a host is its labels |

### The machine and its accounts

| Module | State | Actions | What is abstracted |
|---|---|---|---|
| `BrowserTabs` | `tab`, `actionTab`, `liveTab`, `relayTab`, `mode`, `gate`, `snaps`, the request `req` | `PageOpens`, `Attaches`, `AttachFails`, `Follows`, `PageCrashes`, `PageLoads`; `ResolveRef`, `ActOnRef`, `TabNew`, `TabSelect`, `Recover`; `HoldGranted` … `HoldExpires`, `BlankTab` | a document has a number; references are looked up as Playwright does |
| `Egress` | `proxyReq` (each request with its sockets), `active`, `answer` | `ProxyAsks`, `LooksUp`, `ConnectsByName`, `ProxyConnects`, `UpstreamFails`, `UpstreamEnds`, `TimesOut`, `ClientLeaves`, `NameChanges` | which addresses are refused is a constant |
| `Destinations` | the last decision | decide on host and port | an address is its bytes; digits are left out |
| `Provision` | `plan`, `net`, `taken`, `boxes`, `profile`, `image`, `job` | `NetBegins`, `Probes`, `Plans`, `MakesNetwork`, `ComposeUp`, `Makes`, `NetStarts`, `NetDies`, `OthersTake`, `Rebuilt` | a subnet is one octet |
| `Vault` | `file`, `store`, `machine`, `run` of each process | open, find the key, adopt, set, remove, rotate, init, reset, die | encryption is an equality of keys |
| `AuditLog` | `chainLog`, `head`, `torn`, `mem`, `logTail`, `append`, `check` | `Emits`, `LogBegins`, `AwaitsAuditKey`, `LogAppends`, `WritesHead`, `Refers`, `LogStops`, `LogStarts`, `ReadsLog`, `ReadsHead` | a hash is a number |
| `Remotes` | `remote`, `hosts`, `servers`, `firewalls`, `command` | each step of deploy (`Preflight` … `SavesHost`; `HostLooksUp` … `SavesServer`) and of destroy (`StopsUnit` … `Forgets`), its failure, a lost answer, the end of the command | the cloud is external |
| `Connections` | `generation`, `login`, `dying`, `signedIn`, `configured`, `ask`, `adopt` | prepare, launch, end; begin, join, cancel, adopt, revoke | a probe reads when it ends |
| `Connectors` | `server`, `brokerSession`, `clients`, `discovered`, `approvals`, `disk`, `request` | discover, approve, call, drop, save, restart | a manifest is a name |
| `Supervisor` | `daemons`, `shell`, `shellView`, `shellSaid`, `ended`, `record` | `ShellStart`, `ShellReady`, `ShellEnded`, `Restart`, `NotReadyInTime`, `TryAgain`, `PageFails`, `ShutsDown`, `Exits`, `ShellDies` | backoffs end at any moment |
| `Files` | `shelf` (quarantine), `copying`, `workspace`, `call`, `promoted`, `asked`, `landed`, `receipt` | `PromoteCreates`, `PromoteWrites`, `PromoteUnlinks`, `PromoteFails`; `WriteCalled` … `WriteAnswered`; `Freezes`, `DaemonStarts` (the sweep), `ServerDies`, `HandChanges` | a file is whole or a part |

### The pages and what they talk to

| Module | State | Actions | What is abstracted |
|---|---|---|---|
| `LiveView` | `viewGate`, `viewRow`, `subscribed`, `viewStream`, `tail`, sockets, `view` of each window | wake, start, stop, frame, acknowledge, lose, find out, reconnect | a frame is the control it shows |
| `TaskPage` | `pageStatus`, `hold`, `events`, `rev`, `reads`, `page`, `panel` | read, answer in any order, event, navigate, resume, take over | one computer per task |
| `TaskFeed` | `begun`, `called`, `done`, `stack`, `feedHistory`, `feedWire`, `feed`, `alias`, `meter` | the three reports of a call, `FeedTold`, `AsksHistory`, `HistoryComes`, `Gap`, `Spends` | all calls are of one tool |
| `Home` | engine, image, account, `build`, `kept`, `probing`, `ui` | probe, build, poll, read the choices, press, queue, start | timers fire at any moment |
| `SignIn` | `accounts`, `using`, `pane`, `read`, `signCalls`, `owed` | `ReadTaken`, `ReadAnswered`, `SignTimerFires`, `PressesAction`, `SignCancels`, `CallTaken`, `CallAnswered`, `PersonAtProvider` | timers fire at any moment |
| `Attention` | rows, `stream`, `news`, rounds of reads, `items`, banners | event, round, announce, hand back, expire, reload, restart | histories are not cut |
| `Sessions` | links and sessions, sockets, `queue`, `authHead`, `wire`, `held`, `lease` | pair, revoke, move, press, let go, `Starts`, `AuthWoken`, `ComputerDoes`, reset | a session is its link; a lease is taken as a whole |
| `QrCode` | the scan, the divisor, the remainder, the interleaving | one step of each loop | a byte is the set of its bits |

## 3. The runs

| Run | Instance | Question | States |
|---|---|---|---|
| `takeover_races` | 2 devices, 2 requests at once, 1 id, timeouts | do handlers, timer and model keep people and model apart, rows and gates together, and thaw what they freeze? | 0.34 M |
| `takeover_renewal` | 2 devices, 1 request, 2 ids, thaws and freezes fail | does the second hold see anything of the first? is every step one of the barrier's? | 1.2 M |
| `takeover_cancel` | 1 device, 1 request, 1 id, cancellation with late answers, thaws that fail, lost browser | does the barrier survive a cancellation at any point? does a validated page come back clean? | 1.7 M |
| `takeover_liveness` | 1 device, 1 request, 1 id, timeouts, fairness | does everybody get an answer, and a lapsed hold an end? | 25 k |
| `approvals` | 2 actions, 2 sites, 3 calls at once, 2 cards, 1 remembered site, crashes | is what runs allowed, what is remembered granted, what is stored true, what is stopped stopped? does *allow once* buy one call? | 0.6 M |
| `approvals_control` | 1 action, 2 calls at once, 2 cards, 2 takeovers, 2 processes of the browser, refusals and late answers, up to the stop of the task | is consent only of its period? is a person asked once while nobody asks for control? | 2.6 M |
| `daemon` | six parts: tasks, computers, routines, transcript, budget, gates | what the daemon keeps of a task, and does not do to it | 1.8 M |
| `host` | twelve parts: the eleven modules of `MCHost`, tabs twice | what is kept of the machine and its accounts, through failures and deaths | 1.7 M |
| `pages` | eight parts: the modules of `MCPages` | is what a page shows so, whatever answers late | 1.4 M |
| `progress` | ten parts, under fairness | is whoever waits served, and in order? | 0.3 M |
| `cancel_thaw` | 1 device, 1 request, 1 id, cancellation, late answers | a violation, see section 4 | |
| `rotate_cut` | 2 homes, 3 commands, 1 death | a violation, see section 4 | |

**Parts.** `MCDaemon`, `MCHost`, `MCPages` and `MCProgress` put several
components into one run. The variable `part` is chosen at the start and never
changes; the step of a component is allowed only when `part` names it, and every
other component rests in one first state. The components share no variable, so
the behaviours of such a run are those of its components, one after the other,
and a property of one component holds in the run exactly if it holds of that
component. What a run shows of *two* components together is what one of them
models of the other: the sweep and the tasks of `Computers`, the daemon of
`Supervisor`, the hold of `BrowserTabs`. Each `...Safe` property is the
conjunction of what its components promise:

| Property | Its parts, and what they say |
|---|---|
| `TaskSafe` | `RunsSafe`: one run acts (`OneActs`), turns stay within the limit over resumes (`TurnsWithinLimit`), the log tells the outcome the row has (`EventOfOutcome`), a receipt was frozen with the outcome on the way to the log (`ReceiptSeesOutcome`), a row that says running has a run (`RunningHasRun`). `GateSafe`: a grant covers the site it was given for (`GrantsStayHome`), nobody is asked again for what they allowed (`AskedOnce`), strict mode and armed gates only ask more (`StrictAllowsLess`, `ArmingOnlyAsks`), every way to press Enter has one verdict (`EntersAgree`), what is typed into a secret field is masked (`SecretsAreMasked`) |
| `ComputerSafe` | a paused container is known to be (`PausedIsKnown`), one live task (`OneLiveTask`), none while logins are wiped (`WipedAlone`) |
| `RoutineSafe` | one run of a routine (`SingleFlight`), a firing runs once (`FiresOnce`), a row that says running has its run (`RunningRowsRun`) |
| `BudgetSafe` | the cap holds (`BudgetHolds`), each call acts for the task that paid (`ActsForWhoPaid`), a claim has a holder (`ClaimHasHolder`), what is marked was written (`ReservedIsAudited`), one writer (`OneWriter`) |
| `TranscriptSafe` | no request leaves a call open (`NoCallIsOpen`), compaction keeps calls with their answers (`CompactionKeepsPairs`), two screenshots at most (`TwoScreens`) |
| `DaemonSteps` | no tool call after a stop (`NothingAfterStop`), an outcome stands (`OutcomeStands`), a call let in finds the computer awake (`CallsFindItAwake`), no firing within its window is passed by without a row (`NoFiringLost`), a routine goes off only after as many failures as the limit (`OffOnlyWhenTired`) |
| `TabSafe` | the cap (`TabsCapped`), no popup of the agent stays (`NoAgentPopup`), a reference acts on its snapshot's tab (`RefOnItsTab`) |
| `NetworkSafe` | a slot is given back once and its line written with it (`SlotsAddUp`), connections go to vetted addresses (`OnlyWhatWasVetted`), what is allowed is outside what is refused (`AllowedIsOutside`), one verdict in all spellings (`OneVerdict`), strict mode is narrower (`StrictIsNarrower`), the recorded subnet is Docker's (`PlanIsTheNetwork`), a build leaves nothing old (`BuiltIsNew`) |
| `KeepsSafe` | a vault opens at its home (`OpensAtHome`), what was said to be set is kept (`SetIsKept`), records link up (`ChainHolds`), an anchor names the record before it (`AnchorNamesPrevious`), a download is whole somewhere (`DownloadIsKept`), a receipt names what an outcome named (`ReceiptIsOutcome`), what opens is offered (`WhatOpensIsOffered`) |
| `NothingLeftBehind` | a cancelled sign-in's CLI is told to end (`CancelledIsTold`), a shell that quits leaves no daemon, except one for each reload to an error and each kill of a shell (`QuitTakesDaemonDown`) |
| `HostSteps` | a person's input stays on its tab (`InputStays`), the page they act on is not closed (`HumanTabKept`), a deployment is forgotten when it is gone (`DestroyedIsGone`), one that is recorded serves what it brought (`UpdateTakesEffect`), no provider connects by a cancelled sign-in (`NothingConnectsLate`), a changed connector is asked about again (`ReconsentAfterChange`), the sweep spares true entries (`SweepSparesTheTrue`) |
| `PagesSafe` | a picture is of the control the page knows (`ReadyIsCurrent`), a page shows its own task (`ShowsItsTask`), one ping for a request (`OnePing`), an answered request stays down (`AnsweredStaysDown`) |
| `FeedSafe` | no call is hidden (`NoCallIsHidden`), none that finished is shown as going on (`FinishedIsSettled`) |
| `NothingLeftHeld`, `InOrder` | with the last socket of who drives no key stays down; acts happen in the order they were done |
| `QrSafe` | every bit has a place in every version (`EveryBitHasAPlace`), the divisor has the roots so far (`RootsSoFar`), a block is a multiple of it (`BlockIsMultiple`), all is sent (`AllIsSent`) |
| `PagesSteps` | a task starts only when asked (`OnlyWhatWasAsked`), a provider connects only for a sign-in (`ConnectsOnlyForASignIn`), a replay adds no row (`ReplayAddsNothing`), a revoked device is out (`RevokedIsOut`) |
| `WhoWaitsIsServed` | a stopped run ends, a message is read, a call gets in, a due routine runs, a cancellation is answered, a picture comes, a queued start starts, a sign-in connects, the daemon comes up or says why not, a request is shown and taken down, a person's last move arrives |

Of the takeover and the approvals: `NoModelActWhileHuman` nobody acts beside a
person; `FrozenWhileHuman` and `ThawedAtRest` the guest's processes follow the
hold; `RowsMatchGate` rows and gates agree once every handler has answered;
`ClosedRowsStayClosed` nothing late reopens a closed takeover; `OnlyHolderTypes`
input reaches the hold it was typed for; `ValidatedIsClean` a validated page
shows nothing private; `ImplementsBarrier`; `HandlersAnswer`, `LapsedHoldEnds`;
`EveryEffectWasAllowed`, `GrantsWereGiven`, `RecordIsTheAnswer`,
`NothingStartsAfterStop`, `OnceBuysOneCall`, `OneCard`, `ConsentIsOfThisPeriod`.
`CaptureInv` and `ConsentInv` are inductive invariants of the proofs.

**Bounds.** Two devices and two requests make every pair of handlers meet; a
third request only waits behind `changeControl`. Two ids are what a renewal needs
(the expired and the new hold); one is enough wherever the question is about one
hold. Two calls at once and two cards allow a call, its repeat and the card between
them; the third call of `approvals` is one that begins while another is between its
act and the spending of its card. Two takeovers and two processes of the browser
are what it takes for an epoch to come twice; `approvals_control` ends with the stop of
the task (`BeforeStop`), after which no call starts or goes out. Everywhere else the same rule was followed: two of what can overlap (runs
of a task, resumes, callers, requests of the proxy, computers being built, sign-in
requests, sockets), one of each accident and two where the second meets the repair
of the first (stops of the audit's daemon, pauses of a run), and limits (`MaxTabs`,
`LinkLimit`, `Caps`, `MaxConcurrent`, `FatigueLimit`) small enough to be reached.
`PublicSuffixes`, `DefaultDeny` and the destinations are those of the code, with
the two ends of every refused range and what is next to them, each in all its
spellings; the QR run has all twenty versions. Some order constraints, named in
the MC modules, leave out behaviours that differ from others only in the order of
independent steps or in names, or split a component in two questions:
`SettingsOrder` (settings change before anything is granted), `Popups` and
`References` (many tabs without snapshots, few tabs with them), `VaultOrder`
(commands begin in their order, homes are alike), `FilesOrder` (downloads or written
files), `FeedOrder` (the meter is read, the socket lost, while the history is short),
`OneTrouble` (a stream is cut or a page reloaded). The models stop when their
bounds are used up, so deadlock is not checked (`CHECK_DEADLOCK FALSE`); that nobody
waits for ever is `HandlersAnswer` and `WhoWaitsIsServed`. Devices and slots are
interchangeable in `takeover_races` and `takeover_renewal`, calls in `approvals`:
symmetry is used there, and never where liveness is checked.

**Fairness.** `LiveSpec` of `Takeover`: a process serves what it has received in order,
so a handler that waits for a process is not overtaken for ever (strong fairness of
each handler's step). The event loop runs every continuation, the two-second bound
of a request included, acts end, for the tools have deadlines (weak fairness). A
timer is armed and re-armed by renewals, and fires (strong fairness). `MCProgress`
states its own per part (`TasksGoOn` … `SessionsGoOn`): weak fairness of each
continuation, timer, Docker command and read, one by one where two could starve each
other, because the event loop runs what is ready, Docker's commands end or time out,
and a timer that was set fires. Nothing is assumed of persons (nobody has to answer a
hold, finish a sign-in or press a button), of models (none has to call a tool), of the
network, or of a daemon coming up.

## 4. Where the code does otherwise than it says

Two runs look for a violation, and find it. Each is listed under `findings` with
the sentence of the repository it disagrees with.

* `cancel_thaw`: the thaw of a cancellation does not wait its turn and frees
  the guest's processes under a person (`server.ts:1861`; `docs/ARCHITECTURE.md:43`).
* `rotate_cut`: a rotation of the vault's key that dies between the key store and
  the file leaves a file that no stored key opens (`vault.ts:134`; `file.ts:102`
  says the original stays readable).

More was met while modelling. Each is a definition at the end of its module, under
"What is written of the code and is not so", with the sentence it disagrees with;
no run lists it, for a run has one violated property and there are more of these
than runs. To see the counterexample, name it as the only `INVARIANT` (`PROPERTY`
where it is an action formula) of the component's run.

| Module | Definition | What happens |
|---|---|---|
| `Takeover` | `ReleaseRetriesThaw`, `HandbackIsValidated`, `RequestCanBeDeclined` | a handback whose thaw failed cannot be retried; a paused hold is declined with a private page on the screen; a request that renews an expired hold cannot be declined |
| `Approvals` | `NoSecondCall`, `ConsentIsOfOneHold` | two calls of one action that are in progress together both run on one *allow once*, or one after a crash runs on the card of the one it cut off; after a hold and a lost browser, or a refused request, the epoch is an earlier one again and an approval of before the hold is used |
| `Scheduler` | `SkipsAreRecorded` | the next run of a routine is set before the skip is recorded: a crash between the two leaves a firing beyond its window without a row |
| `Tasks` | `FrozenIsComplete`, `NoTurnAfterStop` | a receipt is frozen before the outcome is in the log; a stop between a resume's mark and its start finds nothing to abort |
| `Computers` | `RecreatedIdle` | a refresh recreates the computer under a task that began meanwhile |
| `GatePolicy` | `NewlineIsEnter` | text that ends with a newline is no Enter for `browser_type` |
| `Transcript` | `HeardOnce` | a message sent to a run that then pauses is in a request twice |
| `BrowserTabs` | `HumanTabSurvives`, `RefIsFresh` | a tab of a hold beyond the cap is closed after the handback; a stale reference is looked up in the new document |
| `Egress`, `Destinations` | `QuietIsNotCut`, `SlotsComeBack`; `NeverInAnySpelling` | the connection timeout stays on after the connection; a request whose client left while its name was looked up keeps its slot when it times out or its tunnel ends; the never-list compares spellings |
| `Supervisor` | `QuitTakesAllDown` | a page reloaded while a daemon boots offers *Try again*, which launches a second one and forgets the first; a killed shell's daemon is reclaimed only on the preferred port |
| `AuditLog` | `HonestLogVerifies`, `FreshHasHead` | verification beside a daemon that appends may fail an honest log; a first start that dies early leaves a log without a head |
| `Remotes` | `NothingForgotten` | a record is overwritten while its server exists |
| `Connections`, `Connectors` | `NeverOverrides`; `PinHolds`, `FileIsMemory`, `OneClient` | an adoption overrides a provider connected meanwhile; nothing asks a server again after the first answer, two saves end in either order, two requests both connect |
| `Files` | `OfferedOpens`, `PromotedIsWhole`, `CutIsForgotten`, `LandedIsWhole` | see the comments in the module |
| `TaskPage`, `TaskFeed`, `Home` | `HoldIsOfThisTask`, `OneRowPerCall`, `SetupComes` | late alerts of another task are taken; a start that comes after its call makes a second row; a build is announced that never comes |

Two hazards have no property. A cancellation settles rows at once and the gates
later, so an acquire on its way writes a human row over a gate in `agent`
(`server.ts:1878`): `RowsMatchGate` is checked without a cancellation. A refresh
that looks for tasks and then recreates (`server.ts:1257`) is `RecreatedIdle` above.

## 5. The proofs

Everything below holds for every value of the constants: any set of devices,
requests, calls, routines, providers, sites, any caps and any bounds. The
assumptions are the named `ASSUME`s of the modules (`TakeoverAssumption`,
`TaskAssumption`, ...), which say what kind of thing each constant is and are
evaluated by TLC in every run, and the hypotheses stated in a theorem:

| Theorem | Hypothesis | Why it is needed |
|---|---|---|
| `CaptureCorrect`, `NoModelActWhileHumanCorrect`, `BarrierCorrect` | `"lostShell" \notin Enabled` | a fresh shell process is open while the browser may be `human`; the daemon does not reconcile the two |
| `FrozenWhileHumanCorrect` | `"cancel" \notin Enabled` | `cancel_thaw` |
| `OnlyHolderTypesCorrect` | `"lostBrowser" \notin Enabled` | a fresh browser counts epochs from 1, so a frame's epoch may match by chance |
| `RowsMatchGateCorrect`, `ThawedAtRestCorrect`, `ClosedRowsStayClosedCorrect` | `Enabled \subseteq {"timeout"}` | a lost process, a thaw that fails and a cancellation leave a row, a gate or the guest behind until the daemon restarts, which is not modelled; `takeover_races`, which checks the three, switches on the same |
| `GatesAreSafe`, `TaskIsSafe` | `SuffixesHaveNoWww` | a site is remembered with its `www` sibling: were that a public suffix, the sibling would be nobody's. No rule of the list of `tldts` makes `www.` before a name somebody owns a suffix, wildcards like `*.kawasaki.jp` apart, which the model's list leaves out |
| `VaultsOpen`, `KeptIsSafe` | `Alone`, `Homes # {}` | the file has no lock: of two commands in one home the later write loses the earlier's entry; a command has a home |

All other theorems have none. The instance that a run checks satisfies the
hypotheses of the theorems about it.

**What is proved.**

* *Takeover* (`Takeover_proofs`, `Capture_proofs`). `TypeOK`; `CaptureInv`;
  `NoModelActWhileHuman`, `FrozenWhileHuman`, `ValidatedIsClean`, `OnlyHolderTypes`;
  and that every step implements `CaptureBarrier`. The type of `op` and `call` is more
  than a range: a handler in a step of its own has a takeover and an event to work
  toward, a waiting call the id it minted. No act in flight while a person holds the
  browser gate is not inductive: the gate of the *shell* must be shut too, and it is
  another exchange that shuts it. `CaptureInv` adds what keeps it shut: an act in
  flight is behind an open gate; while the browser gate is `human` or
  `resume_validating` the shell's is busy; a handler between a gate and the next one
  holds the computer, so there is one at most; a handler about to grant the browser
  has shut the shell; one about to return the shell has returned the browser. The
  frozen guest, the clean page and the holder's input rest on the same queue of
  control changes, each with what a handler in each of its places has established
  so far. The refinement goes action by action: each is a step of the barrier or
  leaves its four variables alone.
* *Rows and gates* (`Capture_proofs`). `RowsMatchGate`, `ThawedAtRest`,
  `ClosedRowsStayClosed`. In between the three are false at almost every step: a grant has
  opened one gate and not the other, a handback has freed the browser while its row says
  `human`, an expired hold is closed in one place and open in another. `RowsIInv` says who
  answers for each such lag: a handler that lets a person in, checks, reverts, ends or
  thaws (`Lets`, `Checks`, `Reverts`, `Ends`, `Thaws`), with what its place promises
  about its row and both gates (`WorkOk`, `UntakenOk`, `GatesOk`). Only one handler has
  the computer, so only one lag is open at a time, and at rest there is nobody to answer
  and so nothing lags. `SpentInv` and `MintedInv` keep ids apart: a hold a person had is
  not asked for again, and nothing is known of an id before it is minted. `ClosedInv`
  then adds what may still come for a closed row: no request on the wire, none in the
  gate, and no handler between its check and its write.
* *Approvals* (`Approvals_proofs`). `TypeOK`, `ConsentInv` and its corollaries
  (`EveryEffectWasAllowed`, `GrantsWereGiven`, `RecordIsTheAnswer`,
  `NothingStartsAfterStop`): `ConsentInv` adds what a call carries between finding its
  card and spending it. `ConsentIsOfThisPeriod` from an invariant that ties the epochs
  of calls and cards to the takeovers they are of (`EpochInv`): within one count of a
  browser process a later row has a greater epoch (`Counting`); what is stamped with a
  row has that row's epoch for good, for calls start only once the row is closed, and
  all that is stamped with one row is of one period (`Stamping`); a call that acts on
  a card has the card's epoch (`Matching`). `OneCard` is inductive once cards are
  raised in order (`CardsInv`). `OnceBuysOneCall` needs besides that every spent card
  was answered with an allow, so no answer makes a spent card approved once more
  (`Spending`). None has a hypothesis: the cases in which the code lets consent
  through are in the statements.
* *Tasks, budget and gates* (`Tasks_proofs`, `Daemon_proofs`). `RunsSafe`, `NothingAfterStop`,
  `OutcomeStands`: one run at most can still write the row (`OneEngaged`), a paused task
  has none, a resume about to start one is alone (`ResumedAlone`); a run of the loop
  counts a step no earlier run counted (`TurnsCounted`); what a run is about to tell is
  what the row says; an outcome that the log does not tell yet is owed by somebody who
  will. `BudgetSafe`: a computer is bound anew only while no call is under way, so every
  call paid for the task that is bound; the refusal stands exactly while the count has
  reached the budget; the writers of a refusal hold the claim or have marked it.
  `GatesAreSafe`: `GateSafe` holds of every state because each decision is a function of
  the state and the call; the lemmas compare the decisions of two policies, of two hosts
  and of two ways to press a key, and say that a registrable name is a suffix of its host
  and nobody's public suffix. `TaskIsSafe` puts it beside `RunsSafe`.
* *Scheduler* (`Tasks_proofs`). `RoutineSafe`, `NoFiringLost`, `OffOnlyWhenTired`: a
  row of the tick in progress is of the firing its routine still waits for, so a firing
  whose row is written lies behind the routine's next one; a run has a row of its
  routine; the failures a run has counted are still in the history.
* *Computers* (`Daemon_proofs`). `ComputerSafe`, `CallsFindItAwake`: while anybody waits for
  the computer it is not idle, so no pause begins (`NotIdle`); a pause on its way is in
  `inFlight` or was forgotten (`PauseInFlight`); what was thawed stays so until it is
  noted (`StaysThawed`).
* *The daemon's steps as a whole* (`Daemon_proofs`, `DaemonStepsHold`): every behaviour of
  `MCDaemon` is, part by part, one of `TasksSpec`, `ComputerSpec` and `SchedulerSpec`
  (`DaemonHasParts`), and so `Spec => DaemonSteps` for any constants.
* *Tabs* (`Network_proofs`): `TabSafe`, `InputStays`, `HumanTabKept`, from where the action, live
  and relay targets may point in each mode and what a request has resolved.
  *Files* (`Host_proofs`): `DownloadIsKept`, `ReceiptIsOutcome`, `WhatOpensIsOffered`, `SweepSparesTheTrue`.
  *Sign-ins*: `CancelledIsTold`, `NothingConnectsLate`, for any overlap of
  requests. *Connectors*: `ReconsentAfterChange` (an approval that was dropped is in no
  memory, no file and no request under way). *Shell*: `QuitTakesDaemonDown` (a child, the
  handling of its end, a restart that is due and a button that is shown are one turn that
  is handed on, `OneTurn`; only a reload to an error or a kill of the shell makes another). *Remotes*: `DestroyedIsGone`,
  `UpdateTakesEffect` (what each step of a command has established, for SSH hosts and for
  the cloud).
* *Network* (`Network_proofs`, `NetworkIsSafe` in `Host_proofs`). Proxy: `EgressSafe`, with
  slots counted by the cardinality of the requests that hold one. Destinations
  (`DestinationsAreSafe`): the address of a mapped or translated IPv6 form is the IPv4
  address in its last bytes, in whichever spelling, and an address is in a range when
  their bits agree up to its prefix, which is arithmetic on bytes (`Power` is a function,
  with its first values as lemmas). Builds (`BuildsHold`): what each ensure in flight has
  probed, planned, made and started, and that the image only grows.
* *Vault* (`Host_proofs`): `OpensAtHome`, `SetIsKept`. What a process has read of the file is
  still so, since no other works in its home; the key it goes on with is its home's, or the
  machine's that the home is about to adopt; between the two halves of a rotation or a
  reset the home is `midway`, and a death there is what `OpensAtHome` sets aside
  (`rotate_cut` shows it).
  *Audit log*: `ChainHolds`, `AnchorNamesPrevious`: a daemon that runs stands at the end of
  the file, and a record or an anchor about to be written names that end.
* *The host as a whole* (`Host_proofs`, `HostStepsHold`, `NothingIsLeftBehind`, `KeptIsSafe`): in
  the same way `Spec => HostSteps`, `Spec => []NothingLeftBehind` and `Spec => []KeepsSafe` of
  `MCHost`.
* *Sessions* (`Pages_proofs`): `NothingLeftHeld`, `InOrder`, `RevokedIsOut`: the computer takes
  input of the lease there is only; a tab's input has growing numbers, above what was done
  of it; what is on its way is the first of its tab, once; what is held down will be let
  go by a frame on its way or is known to who will.
* *The pages* (`Pages_proofs`): `Spec => []PagesSafe` of `MCPages`, `OnlyWhatWasAsked` and
  `ConnectsOnlyForASignIn`, each from an invariant of its module. *Live view*: a window that is
  ready or decodes a frame has been told who controls, so a frame is held against a mode that is
  known. *Task page*: every read carries a revision, none above the counter, and the newest is of
  the task the page is at: an answer that passes the guard is of that task, and a panel of another
  was taken off. *Home*: a page has one start at the daemon and none armed beside it, and each was
  wished for: no step makes a page wish but the press. *Sign-in*: a pane that wants to connect is
  owed a sign-in, so the call it makes by itself has one. *Attention*: one round of reads is
  current; it has read requests that were made, and what was taken down since is past its time;
  what was taken down is of a request that is closed; what was pinged in a browser is in the
  tab's history.

**How they are laid out.** A module begins with the inductive invariant as named
conjuncts, then a lemma that it implies the property, that it holds at first, and a
lemma per action or per kind of step that it is kept; the theorem's last step
combines them. Steps that change none of an invariant's variables are one lemma.
Each candidate was checked by TLC as an invariant before it was proved.

**What is only model-checked, and why.**

* Liveness (`HandlersAnswer`, `LapsedHoldEnds`, `WhoWaitsIsServed`): fairness needs
  `ENABLED`, which the prover does not handle.
* What recursive operators of the library compute: `FeedSafe` and, of `PagesSteps`,
  `ReplayAddsNothing` (`SelectSeq` and folds over a log), `TranscriptSafe` (sorting,
  `SelectSeq`), `QrSafe` (polynomials). Their induction theorems
  take an operator as a parameter, which the provers cannot instantiate.

## 6. What is not modelled

* Takeover: the daemon's restart (`reconcileHumanHolds`, `pauseNativeForRestart`,
  `restoreTakeoverExpiries`), `closeForeignTakeover`, `takeover.goto`, the google-account
  route, failing observations, a re-ask of an acquire that times out, a timed-out blank
  in a cancellation, a computer without a shell, several computers or tasks, and the
  model's call that is served after its caller gave up (only its takeover requests are).
* Takeover: a release or a lapse of a lease whose cleanup (`resetLiveKeys`,
  `stopScreencast`, `dispatch.ts:320`) throws after the gate has moved: the model's
  processes move the gate and accept, or refuse and leave it.
* Approvals: the consent for a navigation that the guard blocked and its second
  execution, `deflectRepeatAsk`, failing observations, calls under an `mcp:` id that is
  bound to no task, the renewal of an expired hold, two tasks on one computer. `GatePolicy` leaves out captcha markers, the evidence rows of
  a held field and `categories.json`, which no decision reads.
* Runners: the CLIs' protocols, the retry at a provider's limit. Prompts, wire formats of
  adapters and the details of loop detection are data.
* Sandbox: memory limits, ownership of homes, flags. Proxy: the DNS sinkhole and log
  rotation. Vault: the passphrase and the CI variable, which keep no key.
* MCP bridge: only that a harness gives up a call and starts another. Origins, cookies,
  CSRF and framing are guards with no state of their own.
* Codecs (`protocol/stdio.ts`, `live.ts`): pure functions with contract tests; messages are
  delivered whole and in order, as a pipe and one socket do.
* Browser: screencast frames, redaction, the desktop, the profile lock. Connectors: what a
  result is cut to; notification senders keep nothing.
* macOS: bridge, menus, windows, downloads. UI: palette, settings pane, routes, formatting.
* Command line: `doctor`, `status`, `connect`, `pair`, `image`, `tokens` read, print, call the
  API or edit another program's file.
* Licence, accounts service, website, phone app, editor plugin: a certificate checked once,
  a small server around a database, static pages, a web view, scripts that call the API.

## 7. What could come next

The daemon's restart as actions of `Takeover`: which of the odd states of section 4 does it
repair?
