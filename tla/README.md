# Testnizer in TLA+

Testnizer (`src/`) is an Electron application for testing APIs. Its main
process sends requests, runs collections and schedules, keeps connections of
the realtime protocols, serves mocks, and stores projects in SQLite; its window
(React, zustand) edits and shows them over IPC. This directory holds models of
the parts whose correctness depends on the order of events, the TLC runs that
check them and TLAPS proofs of their most important properties.

To check: `tlc -config <cfg> <MC module>` for a run, `tlapm <module>` for the
proofs; the runs are listed in `PROJECT.json`. Paths below are relative to
`src/src/`.

## The system

| Part | State it keeps | Operations and interaction | What is hard |
|---|---|---|---|
| Collection runner: `main/ipc/runner.handler.ts`, `shared/runner-verdict.ts`, `shared/runner-summary.ts` | `activeRuns`: per run the stop flags, the abort controller of the request in flight; the report being written | `runner:start` runs setup, the flow (iterations, jumps, critical requests), cleanup, scripts of the run; `runner:stop` sets flags and aborts | a stop at any await; cleanup exactly once on every path; two ways to count |
| Scheduler: `main/ipc/scheduler.handler.ts` | `scheduled_tasks` rows, `activeTimers`, `runningTasks` | CRUD, toggle, run by hand, a timer per task, the epilogue of a run; calls the runner; rows disappear with their project | captured rows against edits, re-arming on every path, restarts, clock arithmetic |
| Realtime connections: `main/protocols/{websocket,sse,mqtt,socketio,graphql-ws}.engine.ts`, their handlers and `renderer/stores/*` | connections and pending handshakes in main; a slice per tab in the window | connect, cancel, disconnect, reconnect; events pushed to every window listener | two processes with messages in flight; a handshake that ends as it is given up |
| gRPC, HTTP, SOAP, GraphQL: `main/protocols`, `main/ipc/request.handler.ts` | requests in flight by id | send, cancel | late cancel |
| MCP client: `renderer/stores/mcp.store.ts`, `main/protocols/mcp.engine.ts` | a slice per tab; connections, handshakes, calls and elicitations in main | connect, call, answer input and elicitations, cancel, disconnect | a cancel that crosses an answer, questions of the server whose asker is gone |
| MCP authorization: `main/protocols/mcp-oauth*.ts` | tokens, a loopback listener | login in a browser, refresh | concurrent refresh |
| AI chat: `main/protocols/ai-chat-loop.ts`, `main/ipc/ai-chat.handler.ts`, `renderer/stores/ai-chat*.ts` | the turn on screen; streams, approvals and trust questions in main; one loop per Send | model turns, tool calls with approval, Stop, MCP sessions of the turn | Stop at any await of the loop, an answer to a question that is no longer asked, the limit of rounds at its edge |
| Mock servers: `main/mock`, `main/mock-mcp` | listeners by project, sessions | start, stop, sync after an edit | restart while stopping |
| Project files, merge, git: `main/lib/project-*.ts`, `main/ipc/{git,save}.handler.ts` | the rows of a project, its file, a clone of its repository | commit all or some, push, pull, switch, create and merge branches, import | three copies of every row (database, file, remote), an import that does not come, deletions against edits |
| Database: `main/db`, `main/index.ts` | SQLite file, copies of it, markers of what ran once | copy, migrations, quarantine, the steps of an upgrade, repositories | a crash between any two steps; steps that share the app with its user |
| Import, export, keystores, SAML, JOSE, OTP, TLS tools | none between calls | pure conversions and library calls | formats |
| Window: `renderer` | stores per tab and project | editing, saving, showing | unsaved state across tabs |

`PROJECT.json` lists each part with its status and every hazard at its line.

What makes each part correct, in a sentence each: a run settles every request
once and tells one story of itself; a task runs when due, never twice at once,
never from an outdated row; a connection belongs to exactly one tab and dies
with it; a call has exactly one answer, also when it is cancelled or times out;
a conversation stops when told to and within its limits; a mock server listens
exactly while it should; a merge loses nothing and asks when it must; a crash
during a migration leaves a database that can be restored.

## Modules

| Module | Stands for | With |
|---|---|---|
| `Runner` | one run of a collection | `RunPromise` (abstract), `MCRunner`, `RunnerProofs` |
| `Scheduler` | the tasks of one project, their timers and runs | `MCScheduler`, `SchedulerProofs` |
| `WebSocket` | tabs of the window, both IPC channels, the engine and its sockets | `MCWebSocket`, `WebSocketProofs` |
| `AiChat` | one tab of the AI chat: store, handlers, the loop, its MCP sessions | `MCAiChat`, `AiChatProofs` |
| `McpSession` | one tab of the MCP client: store, handlers, engine | `MCMcpSession`, `McpSessionProofs` |
| `Startup` | the start of the app up to an open database | `MCStartup`, `StartupProofs` |
| `Upgrade` | what runs once after that: environments, files, masking, sealing | `MCUpgrade`, `UpgradeProofs` |
| `ProjectFile` | the rows of a project: merge, selection, import (operators) | `GitSyncProofs` |
| `GitSync` | machines that share a project over a remote, over `ProjectFile` | `MCGitSync`, `GitSyncProofs` |

The MC modules only give values to constants. Definitions whose name has an underscore (`Send_Unchecked`) are
deliberately wrong variants of the definition after them: each of them breaks
the property it is listed with in `PROJECT.json`, which shows that the property
can fail. They are used nowhere else.

### Runner

`executeCollection` in `main/ipc/runner.handler.ts` with `runEndpointStep`,
`recordStep`, `runTeardownPhase`, the run's scripts and the handler of
`runner:stop`; the readers of the rows in `shared/runner-verdict.ts` and
`shared/runner-summary.ts`.

The main process has one thread, so the stop handler runs only while the run is
in an await. `phase` says in which part of `executeCollection` the run is and
`at` at which await of that part (`scripts`, `wire`, `tests`, `delay`,
`iterationDelay`), or at a synchronous point (`head` of a loop, `step`), where
no stop can arrive (`Suspended`). This is the granularity at which the code can
be interleaved, no finer and no coarser.

| In the model | In the code |
|---|---|
| `phase`, `at`, `j`, `iter`, `visits` | the program counter, the loop indices, `flowVisits` |
| `shouldStop`, `abortTeardown`, `directStop`, `teardownStarted`, `teardownSkipped` | the flags of `RunState` |
| `cancelInFlight`, `cancelledOnWire` | `runState.cancelInFlight`, and what calling it does to the request |
| `results`, `totals`, `emitted` | the rows, the counters of `recordStep`, the progress events |
| `Begin`, `SetupHookEnds`, `LeaveSetup`, `SetupDone`, `FlowCancelled`, `BudgetExhausted`, `IterationEnds`, `DelayEnds`, `FlowThrows` | the body of `executeCollection` up to its `finally` |
| `BeginStep` … `StepScored`, with `FinishStep` | `runEndpointStep` and what its caller does with the row |
| `CleanupAbandoned`, `CleanupDone`, `TeardownHookEnds`, `FailHookBegins`, `FailHookEnds`, `Close` | `runTeardownPhase`, the scripts after it, the report |
| `StopGracefully`, `StopNow` | `runner:stop` without and with `immediate` |

A row keeps what its readers tell apart: phase, position, iteration, the kind of
its status text, passed or not, and whether it stopped the run.

`RunPromise` is what a user may rely on, without steps, scripts or awaits: a
run has a flow, then its cleanup, then it is closed; the verdict can turn red
during the flow only; cleanup settles its requests in order, each once, and is
given up only after a hard stop. `Runner!Promise` maps a run to it.

### Scheduler

`main/ipc/scheduler.handler.ts` and the deletion of a project. Every handler is
synchronous and is one action; between them time passes (`Tick`), runs end
(`RunEnds`), timers fire, the app quits (`Quit`) and starts again (`Startup`).
`rows` is the table and survives the app; `timers` (`activeTimers`), `running`
(`runningTasks`) and `flights` (runs that have not ended, each with the row it
captured) do not. A timer keeps the row it was armed with, as the closure does.
`computeNextRunFor` is abstracted to its two kinds: an interval counts from now,
a calendar time (daily, weekly, cron) is the next one after now. `FiresAt`
includes what `setTimeout` does with a delay above 2^31 - 1 ms.

### WebSocket

The store of the window (`renderer/stores/websocket.store.ts`,
`renderer/lib/realtime-connections.ts`) and the engine
(`main/protocols/websocket.engine.ts`, `main/ipc/websocket.handler.ts`) are two
processes with a channel in each direction. What follows an await in the store
is a step of its own (`SettingsLoaded`, `ConnectSucceeds`, `ConnectFails`,
`DisconnectGoesOn`); what the function captured before the await travels in
`then`. One number per attempt stands for the store's `pendingConnectId` and the
engine's `connectionId`, since each attempt makes one of each.

| In the model | In the code |
|---|---|
| `tab` | a slice: `connectionState`, `connectionId`, `_pendingConnectId`, `_unsubscribe` |
| `listening`, `loading` | the listeners on the event channel, `connect()` waiting for the proxy settings |
| `connections`, `pendingConnects`, `attempts`, `userClosed` | the maps of the engine and the fields of a connection |
| `sock` | the state of the `ws` object, or the retry timer in its place |
| `Connect`, `ConnectRefused`, `Disconnect`, `CloseTab`, `LeaveProject` | the buttons, closing a tab, switching projects |
| `MainConnects`, `MainCancels`, `MainDisconnects` | the three IPC handlers |
| `HandshakeOpens` … `ReconnectFails` | the socket's events, `onSocketClosed`, `reconnect` |

`sock` is `ending` while the first socket of a connection closes after a close by
the user: its `error` listener is still there, so that a bad frame is still
reported (`SocketErrs`). The sockets of `reconnect` have a listener that swallows
errors.

`forgotten` is not in the code: it records the connections that `disconnect()` or
`connect()` dropped from the slice that held them, for `OpenIsSomebodys`.

Taken from outside the source: IPC keeps the order in each direction; to
terminate a socket that is still connecting makes the `ws` package emit an error
and a close, in one turn of the event loop (the reply of the cancel handler may
come before or between what they send); an error on a socket that is open or
closing is followed by its close.

### AiChat

The same two processes and channels as `WebSocket`, and in the main process a
loop whose awaits are its steps: `loop.at` names the await (`isTrusted`,
`opening`, `streaming`, `calling`, ...) or the synchronous stretch up to the next
one.

| In the model | In the code |
|---|---|
| `tab`, `shown`, `cards`, `granted` | the slice of the tab: the turn's state, its tool calls, the trust cards, `allowedTools` |
| `SendPrompt`, `Prepared`, `Stop`, `AnswerCall`, `AnswerTrust`, `ClearConversation`, `CloseTab` | the functions of the store; `Prepared` is what follows the await for the servers' settings |
| `entry`, `aborted`, `approvals`, `gates`, `recording`, `trusted` | `activeStreams`, the signal, the two maps of waiting questions, `trustStdioServer` under way and done |
| `MainSends`, `MainApproves`, `MainResolvesTrust`, `MainCancels`, `WindowGone` | the handlers of `aichat:*` and the window's `destroyed` event |
| `ServersStep` ... `SessionFails` | opening the sessions, one server after the other |
| `StartRound` ... `CallsDone`, `StartCall`, `CallAnswered`, `ToolAnswers`, `ToolAborted` | a round: the model's answer, its calls in order, each asked for, run and answered |
| `CloseSession`, `TurnEnds` | the `finally` of the turn |

`asked` and `said` are not in the code: how many calls the model asked for, and
what the user clicked. The id of a call is the provider's followed by the suffix
the loop adds to one it has seen (`UniqueId`).

Simplified: a server offers one tool, so a server is also the key of a grant; the
loop goes on while fewer than `Backlog` events wait for the window; the reply of
`aichat:send` comes before the events of its turn; a Stop before the message id
is known does nothing, as in the code; recording the trust of a server succeeds.

### McpSession

| In the model | In the code |
|---|---|
| `state`, `pending`, `conn`, `slot`, `input`, `cards` | the slice: connection, the call that owns the tab per kind, the card of an `input_required` answer, `pendingElicitations` |
| `calls` | the code of each call in the window: its scripts, the request, its checks |
| `phase`, `pendingConnects`, `dropped`, `trusting` | where `mcpConnect` is with each attempt; cancelled or closed while it was there; the trust of a command being recorded |
| `requests`, `inflight`, `elicits` | requests of the SDK, `inflightCalls`, the engine's `pendingElicitations` |
| `Call`, `RespondInput`, `CancelCall`, `RespondElicitation`, ... | the functions of the store, up to their first await |
| `ScriptsEnd`, `CallReply`, `ChecksEnd`, `ConnectReply`, `ElicitationReply` | what follows the awaits |
| `MainConnect`, `HandshakeDone`, `Listening`, `Established`, `Trusted` | `mcpConnect` and its handler |
| `HandleClose`, `ServerCloses`, `MainDisconnect`, `Closed` | a connection that ends, from either side |

Simplified: a resource call stands for a prompt, which differs in nothing the
model has; the retry of an HTTP handshake with the older transport is inside the
handshake.

### Startup

One action per step of `initDatabase`, `backupBeforeMigration` and
`openAndMigrate`, so that a crash (`Stops`) comes between any two. What a
database holds is the number of edits, the builds that touched it and whether it
has plaintext secrets: enough to tell a copy that can be restored from one that
cannot. Copies are in the order of their names, which are timestamps: the clock
does not go back.

### Upgrade

The four steps of `main/index.ts` after the database is open, each with its
marker in the settings table. Environments and files are seen to before the
handlers exist; masking and sealing run beside the user (`ChooseFiles`,
`SaveSecret`, `DeleteRow`, ...), who may change or delete what they have not
visited yet. `settled`, `noEnv` and `refused` record what the user decided. The
keychain is there or not for a whole start; which table a secret is in, and
secrets that stop being secret, are left out.

### ProjectFile and GitSync

A document gives every row the time of its last edit and the row it belongs to.
Which column a reference is in follows from the kinds of the two rows, as in the
schema; `Drop` is what the foreign keys do on a deletion, `Upsert`, `Replace` and
`MergeIn` what an import does, `Pick` and `Repair` the merge driver, `Requires`
and `Apply` a commit of some changes.

`GitSync` has a database and a clone per machine and one remote. Commits carry
their file and the set of commits before them; `Merges` gives what `git merge`
may leave. A pull, switch or merge changes the repository first (`Pull`,
`Switch`, `Merge`) and imports into the database afterwards (`Import`), as
`reimportProjectFromDir` does; the user may edit in between, and the import may
not come at all (`ImportLost`). `edited`, `gone` and `lost` record what the users
and the network did.

An edit may move a row to another folder, but a case stays with its request: no
operation of the code gives it another.

Simplified: the clocks of the machines agree; a merge always goes through the
merge driver, since both sides of a conflict differ in `exportedAt`, so the text
is never merged by git alone; when a criss-cross leaves several best common
ancestors, the base git makes of them is no project file, which the driver takes
for none; the branches of the constants that are not local are on the remote.

## What the runs show

| Run | Shows | Size |
|---|---|---|
| `run_safety` | Counters and rows agree (`TalliesMatchRows`); the stop reason is what the rows show (`StopReasonMatchesRows`); every request of the flow has exactly one row (`FlowReportedOnce`); cleanup leaves the verdict alone (`CleanupKeepsVerdict`); after a hard stop nothing is sent and nothing is cleaned up (`HardStopSendsNothing`, `HardStopSkipsCleanup`); a stop aborts what is in flight and nothing else (`AbortHandleIsCurrent`); the fail script runs for red runs only (`FailScriptForRedRuns`) | 396,615 states |
| `run_ends` | With jumps: every run ends (`RunEnds`), also by a hard stop alone (`HardStopEndsRun`), and implements `RunPromise` (`KeepsPromise`), in which cleanup is settled once | 82,713 states |
| `sched_safety` | No overlap (`NeverOverlaps`); a timer stands for its row as it is (`TimersFollowRows`), for a time that is not over, and what a closed app missed is not caught up (`TimersAreOnTime`); silence after the project is deleted (`GoneProjectArmsNothing`); a due task moves on (`DueTasksMoveOn`) | 418,392 states |
| `ws` | The maps match the sockets (`MapsMatchSockets`); an open connection is held by its tab, coming to it, being closed, or one its slice dropped (`OpenIsSomebodys`); what the user closed is not opened again (`UserClosedStaysClosed`); no attempt is left pending (`AttemptsAreSettled`) | 167,566 states |
| `ws_f_cancel` | a finding below | |
| `ai_safety` | No tool runs and no command is started without a click that said so (`ConsentFirst`); every question main waits for can still be answered by the tab (`QuestionsCanBeAnswered`); a turn that is over leaves no question, session or unfinished call behind (`TurnIsSettled`); after a Stop no tool is called and no further round is asked for (`NothingAfterStop`); `TypeOK` | 3.55 million states |
| `ai_live` | A Stop ends its turn (`StopEndsTurn`); closing the tab ends what it started (`NothingOutlivesTheTab`) | 269,884 states |
| `mcp_safety` | With nothing under way: a call that holds its tab is somewhere that will release it (`EveryCallIsAnswered`), a question of the server is on a card (`QuestionHasItsCard`), tab and engine agree on what is connected (`ConnectionsMatch`) | 3.87 million states |
| `startup` | However often a build fails to migrate, the copy from before it touched the database stays (`CleanCopyStays`); a copy made with a keychain has no plaintext secret (`CopiesAreSealed`); copies are lost only to newer ones (`OnlyOldCopiesGo`) | 3.11 million states |
| `upgrade` | What the upgrade decided is decided once, and the user's choice stands (`ChoicesStay`); the marker of the masking (`MaskMarkMeansMasked`) and of the sealing (`SealMarkMeansClean`) mean what they say | 599,709 states up to symmetry |
| `git_safety` | Every file and every database resolves its references (`FilesResolve`); a machine that did not edit has what its HEAD has (`InSync`); what a push replaces on the remote is kept or was deleted by a user (`PushedWorkStays`); a pull keeps rows that were never shared (`UnpushedRowsStay`) | 1.25 million states |
| `git_f_edits` | a finding below | |

**Bounds of the runner.** One setup request, two main and two teardown requests:
two are the fewest that have a first, a last, a request left over when the run
stops, and a jump backwards. Two iterations for the pause between them and for
rows of an iteration that never began. `run_safety` has every way a step can end
and no jumps (with jumps the rows of the flow are a finding); `run_ends` has
every jump with `VisitBudget` = 4 in place of `NMain * 10 + 50`: enough for a
cycle of two requests to close twice before the budget ends it. The steps of the
two loops do not depend on the numbers otherwise.

**Bounds of the scheduler.** Two tasks that share the clock, the project and the
app. `Horizon` = 3 ticks with an interval of one tick and a calendar time every
second tick: due times before, at and after now, missed times during a closed
app, a schedule that changes under a run. `MaxDelay` is out of the way in
`sched_safety`.

**Bounds of the connections.** Two attempts of one tab, in turn: one in flight
while another starts is what every race of this code needs. `Backlog` = 2 limits
the messages under way when the user or a server acts, not what handlers send in
response, so a click always meets a message that crosses it. One retry, so that
both a retry and giving up happen. `MaxAttempts` bounds the clicks on Connect.
`ws_f_cancel` needs one attempt. The safety properties were also checked with two
tabs (1.32 million states up to symmetry), which take minutes; symmetry is used in
`upgrade` only, where no liveness is checked.

**Bounds of the AI chat.** One server of any kind, one raw id, so that every
second call of a turn meets an id that is taken; two rounds, so that the limit
is met and a round follows another; two calls in an answer (one in `ai_live`), so
that a call waits behind another; one Send. A click meets at most one message
under way.

**Bounds of the MCP client.** Two attempts (one given up while another starts)
and two calls: two of different kinds at the same time, or one after another,
on one connection or two.

**Bounds of the start and the upgrade.** Three builds with `Keep` = 1: the copy
of a build is pushed out by the next, and a build comes back. Four starts: a
failed one of each build and one more. In `upgrade` two of everything make
"some but not all" possible at each crash; two starts are a crash and what
follows it.

**Bounds of git.** Two machines, one of which uses branches and may lose one
import; a folder, a request and a case, the chain along which references break;
two edits, four commits (the shared one, one of each machine, a merge). What three
edits add is left to the proofs (`PushedWorkIsKept`). One
folder cannot be moved into a loop, so the guard of `Import` on loops is not
exercised.

Where bounded clicks, starts or edits can be used up the system may stop: all
runs but those of the runner and the scheduler do without the check for deadlock.

**Fairness.** `Runner`: the run's own steps happen, since timers, reads of the
database and aborted requests settle. That scripts end is an assumption on them:
the code gives them no time limit, so a script that loops, or that waits for a
request of its own which no server answers, holds the run for as long. The server
of a step's request need not answer, and only `RunEnds` assumes that it does, in
its statement.
`Scheduler`: a due timer fires and a run ends (`RunEnds` is the reason to believe
it, as long as servers answer); users, quitting, starting and the clock are not
fair. `WebSocket`: messages arrive, the settings load, handshakes (they have a
time limit), retry delays and closing sockets come to an end; the user and the
server of an open connection are not fair. `AiChat`: messages arrive, waits for
the disk and the settings end, the loop goes on when it can; the user, the
servers and the model are not fair, so that `StopEndsTurn` rests on the abort
signal alone. `McpSession` states the same of its messages, scripts, checks,
handshakes and closes; no run uses it yet.

## Findings

- `ws_f_cancel`: Cancel is clicked while the handshake ends. `disconnect()` has
  read that the tab has no connection (`renderer/stores/websocket.store.ts:474`)
  and waits for `cancelConnect`, which comes too late; meanwhile the reply of
  `connect()` gives the tab its connection (447). `disconnect()` does not look
  again (494) and resets the slice (504): the connection stays open and no tab can
  close it, although the comment at 437 says that a connection given up as its
  handshake finished is closed. `OpenIsSomebodys` is what does hold: no other
  crossing leaves such a connection, but for the one of `connect()` below.
- `git_f_edits`: a pull imports every row of the file, changed by the pull or not,
  over the rows of the database. An edit that was not committed is overwritten
  with the old content, a deletion is undone (`main/ipc/save.handler.ts:862`),
  although the comment at line 713 says that a pull "must not discard unpushed
  work". Rows that were never in the file do stay (`UnpushedRowsStay`).

Met while modelling, without a run of their own.

- *Runner* (`main/ipc/runner.handler.ts`): once cleanup has begun, Stop now during
  the pre-request script of a teardown request does not keep the request from
  being sent (2115, against the comment at 2112); NOT_RUN rows stand for requests
  that ran after a jump backwards (3411, against 1653); a read that throws before
  the `try` leaves the run registered (3187); Stop now during the last teardown
  request leaves no stop reason; `runner:stop` without an id picks a run (3780);
  scripts have no time limit (1959). The skipped count includes cleanup rows and
  the total does not (`shared/runner-summary.ts:59`).
- *Scheduler* (`main/ipc/scheduler.handler.ts`): a task with an empty list fires
  again and again (284); an edit during a run loses its next time to the old
  schedule (315, 348); a next time more than 24.8 days away fires at once (360).
- *WebSocket*: a tab without a connection id takes events of every connection
  (`renderer/stores/websocket.store.ts:340`); the failure of an older attempt
  clears the pending one (453); Connect while the engine is about to open a lost
  connection again puts the new connection in its place (447), so that the old one
  is opened again with no tab to close it.
- *MCP client*: a stdio server that exits right after its handshake is shown as
  connected (`main/protocols/mcp.engine.ts:1689`), which is why
  `ConnectionsMatch` speaks of HTTP there; cancelling one call cancels the
  elicitations of all calls of the connection (1047); an elicitation that arrives
  after its call ended opens a card nobody can answer with effect
  (`renderer/stores/mcp.store.ts:1078`).
- *AI chat*: any error with "aborted" in its text counts as a Stop
  (`main/protocols/ai-chat-loop.ts:202`).
- *Upgrade*: when a write of the settings store failed, a later start allows files
  again for a project its user switched off in between; when the transaction of
  the environments failed, a later start activates one over "No environment" (the
  properties exclude both by `refused` and `settled`); VACUUM does not run when no
  sealed value is left.
- *Git* (`main/ipc/git.handler.ts`): a database whose import was lost is exported
  over the merge by the next push; after a lost import of a switch, a pull keeps
  rows that are on the old branch only, against "recoverable" at 992; edits
  between a switch or merge and its import are lost (1063); the deletions that
  emptied a project are not recorded by a switch; folders and cases carry no time,
  so of two edits "ours" wins silently, and a deletion that saw only ours removes
  both; a case that was edited goes with its deleted request and stays away when a
  merge of another branch brings the request back; a request deleted after its
  newest edit comes back with an older edit of another branch
  (`main/lib/project-merge.ts:130`); two machines that move a folder into each
  other make a loop (`shared/suite-order.ts:133`).

## What is proved

The theorems hold for every value of the constants that satisfies the assumption
of the module: any number of requests, tasks, tabs, servers, builds, machines,
rows. The assumptions only say what kind of value a constant is, with two
exceptions that a theorem names where it needs them: `DelaysFit` in
`SchedulerProofs` and `NoJumps` in `RunnerProofs` (below); of the project shared
first, that it is whole and older than every edit. Each inductive
invariant was first checked by TLC on the bounds of the runs.

`RunnerProofs`
- `TypeCorrect`, from lemmas on the rows the operators build.
- `HardStopSafe` (`HardStopSkipsCleanup`) and `AbortHandleSafe`
  (`AbortHandleIsCurrent`) from the inductive invariant `CleanupInv`. Neither is
  inductive alone: that cleanup records nothing after a direct stop needs that
  such a run never leaves the head of the cleanup loop, which needs that the
  phases tell whether cleanup began, and that a direct stop precedes it.
- `HardStopSilent` (`HardStopSendsNothing`): only `Send` reaches the wire, and it
  reads the flag.
- `VerdictSettled` (`CleanupKeepsVerdict`): every row that is added once cleanup
  has begun is one that does not count.
- `TalliesAgree` (`TalliesMatchRows`) from `TalliesInv`, which states the counters
  as the cardinalities of the sets of places a reader would count; what
  `recordStep` appends moves one counter by one, and a row it appends without
  counting is in no such set.
- `FailScriptIsDue` (`FailScriptForRedRuns`) from `FailScriptInv`: the script waits
  in the one phase that follows cleanup, and the run is red there.
- `StopReasonIsTrue` (`StopReasonMatchesRows`) from `ReasonInv`: what each reason
  says of the flags and the position while the run is under way, and which rows
  are already there. It needs `PositionInv`, where in setup, flow or cleanup the
  run is in each phase, and that a row once recorded stays.
- `PromiseKept` (`KeepsPromise`): a run implements `RunPromise`. The initial state
  maps to its initial state and each step to one of its steps or a stutter, by
  `SettledInv`: the cleanup rows are those of the first requests of cleanup, in
  order, up to where the run is.
- `FlowIsReportedOnce` (`FlowReportedOnce`) from `FlowInv`, that the rows so far are
  those of the positions before the run's. It assumes `NoJumps`: no script calls
  `setNextRequest`, and the budget of visits lets the flow be visited once, as ten
  times its length does. With jumps the statement is false (Findings).

`SchedulerProofs`: `SchedulerTypeCorrect`, and from the inductive invariant
`SchedulerInv` (for each task, `TaskInv`): `TaskNeverOverlaps` and
`TimersAreCurrent`; `GoneProjectIsSilent` follows from each action. `TaskInv` adds
to the properties what a closed app and a deleted project look like and that an
enabled task has a next time, not before the app started: without the last a
timer armed by the epilogue of a run could be an old one. `TimersFireOnTime`
(`TimersAreOnTime`) is proved from `TimeInv` under `DelaysFit`, that no schedule
reaches beyond what `setTimeout` can wait: without it the statement is false.

`WebSocketProofs`: `WebSocketTypeCorrect`; `MapsAreCurrent` (`MapsMatchSockets`)
and `UserCloseIsFinal` (`UserClosedStaysClosed`: never opened again, and main says
of it only that it failed or is closed) from the inductive invariant `EngineInv`. The maps are right only if a call to connect finds an attempt that
has no socket yet; so the invariant follows an attempt on its way
(`ConnectsAreFresh`): it waits for the settings or is in exactly one call, and
has no socket in either case. `ClosedAreClosed` says the rest: what the user
closed has a socket that is closing or closed. `OpenHasAnOwner`
(`OpenIsSomebodys`) adds to it that the close of a connection is the last main
says of it (`ClosesAreLast`), so that a slice that lets go of a connection on
hearing its close lets go of one that is not in the maps any more.

`AiChatProofs`
- `CommandsNeedTrust` (the half `CommandsAreTrusted` of `ConsentFirst`) and
  `StopIsHeeded` (`NothingAfterStop`) from `ConsentInv`. That a command runs only
  with a click needs the click followed on its way: from the card into the
  message, the record of the trust and the step of the loop that opens the
  session; `ConsentInv` says so of each place.
- `ChatTypeCorrect` (`TypeOK`) from `TypeInv`, which adds what the loop holds at
  each of its steps (`StepInv`): a call while it waits for one, a round within the
  limit, a server of the list.
- `ConsentComesFirst` (`ConsentFirst`), `QuestionsAnswerable`
  (`QuestionsCanBeAnswered`) and `TurnSettles` (`TurnIsSettled`) from `ChatInv`, in
  parts that rest on each other. `TurnInv`: window and main are in the same turn,
  with one `aichat:send` on its way at most, the reply first and the end last
  among its events; a tab that is ready finds main done. `AskInv`: one question
  and one answer, those of the loop's step. `IdInv`: an id stands for one call
  among those to do, on their way and on screen, and there are as many as calls
  were asked for. `WordInv`: the click for a call, or the grant of its tool, is
  behind every message, grant and answer that lets it run; ids make it this call,
  `TurnInv` this turn. `ScreenInv`: what the screen will show when the events
  under way have arrived; a status that asks or works is followed by a final one
  unless it is the loop's own, a result comes after its call, and every call that
  is not to be done any more has its result. The actions of the loop are first
  sorted into the ten ways they change the rest (`LoopKind`), and each part of the
  invariant is proved once per way.

`McpSessionProofs`: `SessionTypeCorrect`, `CallsAreAnswered` (`EveryCallIsAnswered`),
`QuestionsHaveCards` (`QuestionHasItsCard`) and `ConnectionsAgree`
(`ConnectionsMatch`) from `SessionInv`, proved for channels of any length. The
properties speak of a session with nothing under way; the invariant says the
same of every state, with the message that will settle what is open: a call that
holds its tab is a message, a request or an answer (`CallInv`), an elicitation is
announced, on a card, or about to be answered or cancelled (`QuestionInv`), an
open connection is the tab's or about to be (`OpenInv`). `TabInv`, `MadeInv` and
`PhaseInv` say that messages are about calls that were made and attempts that
began once; `HttpInv`, that of an HTTP server the tab hears "connected" before
"closed", is what `ConnectionsMatch` rests on and what a stdio server breaks.

`StartupProofs`: `StartupTypeCorrect`; `CleanCopyIsKept`, `CopiesHoldNoPlaintext`
and `OldCopiesOnly` from `CopyInv`, which adds that a copy is only made by a build
that has none, that before pruning the newest copy is this build's, and clean if
`clean` rests on it, and that what gets its name with a keychain at hand is sealed.

`UpgradeProofs`: `UpgradeTypeCorrect`; `ChoicesAreKept`, `MaskingIsDone` and
`SealingIsDone` from `UpgradeInv`: what is still raw is what the masking has still
to visit, and between the VACUUM and its marker there is no plaintext and no trace
of it.

`GitSyncProofs`. About any documents: `MergeResolves`, `SelectionResolves` and
`ImportResolves` (a merge, a commit of some changes and an import have no dangling
reference when what they start from has none), `ReplaceIsExact` and
`MergeInIsExact` (the database is the file afterwards), `UnsharedRowsSurvive`.

About the machines: `GitTypeCorrect`; `FilesAlwaysResolve`, `DatabasesInSync` and
`UnpushedRowsSurvive` from `GitInv`, which cites those theorems for each operation.
`InSync` alone is not inductive: between an operation and its import the database
of a machine that did not edit is the file of the import's base (`SyncOf`).

`PushedWorkIsKept` (`PushedWorkStays`) from `HistoryInv`: every commit keeps what
each commit before it has, and a database with no operation under way what the
commits of its branch have. For a merge this is `MergeKeeps`: the base may be any
common ancestor, or none, and both sides keep what it has. Two more facts are needed of all
files and databases together (`OneProject`): no content is newer than the last
edit, and a case belongs to the same request in all of them, so that the request
the repair misses is the one somebody deleted. Looking for the proof corrected the
property. It used to ask that a folder is deleted knowing its newest edit, and that
a case only goes while its request is away; both are false from three edits on,
one more than the run has, and are now listed under Findings. TLC checked
`HistoryInv` on the bounds of `git_safety`, and with three edits on one branch and
on two.

**Only model-checked.** All liveness (`RunEnds`, `HardStopEndsRun`, `DueTasksMoveOn`,
`AttemptsAreSettled`, `StopEndsTurn`, `NothingOutlivesTheTab`):
TLAPS proves neither liveness under fairness nor facts about ENABLED. What a
recursive definition computes for every input is out of its reach too; no
property of the runs needs it.

## What is not modelled

In the modelled parts: what a row stores of request and response, the values of
variables, the history row, `runner:stop` choosing among several runs, requests a
script sends by itself (`Runner`); the arithmetic of calendars (`Scheduler`); the
messages on an open connection and their limits, the log of a tab (`WebSocket`);
what models and tools say, the history of a conversation, other tabs (`AiChat`);
the lists of tools and resources, logs, progress, tokens (`McpSession`); what a
migration does to the tables (`Startup`); rows other than folders, requests and
cases, the credentials of the remote, conflicts git reports in other files
(`ProjectFile`, `GitSync`).
Formats, cryptography, rendering, the updater and the build have no state whose
order matters. Every other part is listed in `PROJECT.json` with its reason.

## Plan

1. The registry of runs: several runs, the live views and which run a stop
   reaches, over `Runner`.
2. The other realtime connections on the pattern of `WebSocket`: server-sent
   events with resumption, MQTT with its subscriptions, GraphQL over WebSocket,
   Socket.IO; what they share becomes an abstract connection each implements.
3. The life cycle of the mock servers and their delayed syncs; the authorization
   of the MCP client with its refresh of tokens.
4. Two folders in `GitSync`, for moves that loop; several tabs in `AiChat`.
5. Proofs: every safety property of the runs is a theorem; each new component
   should come with its own. What remains with TLC is liveness.
