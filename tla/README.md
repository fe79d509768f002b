# dbchat: specification and verification

dbchat is a database client with an AI assistant: a Bun/Effect server
(`src/apps/server`) that keeps connections, runs SQL and runs chat turns of a
model; a React client (`src/apps/web`) that talks to it over a streaming RPC
socket; and an Electron shell (`src/apps/desktop`) that starts the server as a
sidecar. This directory holds TLA+ modules that model the parts of it where
several things happen at once, TLC configurations that check them on small
instances, and proofs, checked by TLAPS, of the properties that matter most for
every instance.

Paths below are relative to `src/apps/server/src` (server), `src/apps/web/src`
(web) and `src/apps/desktop/src` (desktop).

## 1. The system

| Component | State | Operations | What makes it hard | What makes it correct |
|---|---|---|---|---|
| **Agent service, sessions** `Layers/AgentServiceLive.ts`, `agent/session.ts`, `agent/repo.ts` | `activeTurns`, `pendingApprovals`; tables `threads`, `messages`, `approvals` | `send`, `events`, `abort`, `resolveApproval`; `runTurn`, `proposeWrite`; deletion of threads | a turn outlives the call that started it; answer, timeout, abort and deletion race for one Deferred; sqlite may fail between any two steps; the server may stop | one turn per thread; no write without permission; a "no" is final; rows, cards and the database agree; a thread does not stay busy |
| **AI write gate** `agent/writeGate.ts` | none: reads thread, approval and connection afresh | `executeWrite` | the policy may change between proposal and execution | permission is checked on what is stored at that moment; one plain write per approval |
| **Providers** `agent/codexDriver.ts`, `opencodeDriver.ts`, Claude SDK, `mcpBridge.ts` | child processes, the Codex callback chain, tokens | start, interrupt, end of a turn | tool calls are chained (Codex), parallel (OpenCode) or inline (Claude); a turn may end before its calls | interrupt ends a turn; what is saved reflects settled calls |
| **Turn events** `agent/hub.ts`, `agent/events.ts`, `rpc/chat.ts` | PubSub | `publish`, `subscribe`, the feed of a send | subscribers come and go; a feed ends at the first terminal event | order per thread; a feed ends |
| **Driver registry** `Layers/DriverRegistryLive.ts`, `rpc/connection.ts` | `open`, `failures`, one semaphore | `acquire`, `release`, `status`, `test` | opening is slow and can be interrupted; closing waits for queries inside the lock | one pool per connection, none lost, status is true, drivers match the stored row |
| **Connection store** `Layers/ConnectionStoreLive.ts`, `db/secrets.ts` | rows and secrets | `create`, `update`, `remove`, `get`, `getSecret` | row and secret are separate statements; no ordering with the registry | a driver never mixes old and new |
| **Schema cache** `db/schemaCache.ts`, `rpc/schema.ts` | `Map` by connection | `get`, `invalidate` | a slow load may outlive its driver | the cache shows the database that is open |
| **SQL runs, history** `rpc/sql.ts`, `sql/runRegistry.ts`, `sql/store.ts` | running fibers by run id, `history`, `saved_queries` | `run`, `cancel`, `explain`, history and saved queries | a cancel racing the start or the end of its run | every run is recorded once, cancel reaches the run it names |
| **Database drivers** `db/postgres.ts`, `mysql.ts`, `sqlite.ts`, `bigquery.ts`, `db/pgTypes.ts` | pools, the backend ids of running queries, the name cache of types, one sqlite handle, jobs | `query`, `write`, `cancel`, `introspect`, `describeTable`, `rows`, `close` | cancel by backend id; read-only sessions; a table that changes between two queries of one call; a job that runs on without its caller | read-only stays read-only, a cancel hits its own query, a failed write leaves nothing, an answer is about one table, no job is left |
| **Classification and SQL text** `db/classify.ts`, `sql/statements.ts`, `db/queryBuilder.ts`, web `components/sql/split.ts` | none | pure functions | three splitters with three ideas of a quote | never calls a write a read; the readers of a text agree; every slot is bound |
| **CLI provider processes** `agent/codexDriver.ts`, `opencodeDriver.ts`, `mcpBridge.ts`, `claudeRuntime.ts` | a child, unanswered requests, the callback chain, tokens; the runtime settings | start, lines, exit, interrupt, tool calls over HTTP; get, set, probe | "exit" comes before the last lines; a process may be silent; an interrupt before a turn id | nobody waits for a process that is gone; nothing is admitted after the end |
| **Models, provider sessions, context** `agent/models.ts`, `providerSessions.ts`, first half of `session.ts`, web `rpc/ai.ts` | the catalog; `sdk_session_id` of a thread; the cached schema summary | `resolveModel`, pick, default, save a session | ids that are gone from the catalog, callbacks after the turn, a summary of a connection that was edited | a turn runs on what was shown; sessions are not mixed; a stale summary ends |
| **Threads, history, saved queries** `agent/repo.ts`, `rpc/chat.ts`, `sql/store.ts` | tables `threads`, `messages`, `query_history`, `saved_queries` | create, list, delete, title; record, prune, list; save, delete | two statements with other calls in between | lists are true, titles are of the first message, answers hold |
| **Agent tools** `agent/tools.ts` | none | seven tools | arguments nobody checked | bounds hold, the user sees what the model is told |
| **Web chat client** `lib/chat-store.ts`, `rpc/client.ts`, `components/chat`, `components/screens/chat.tsx` | per thread: messages, `streaming`, `loaded`; a stream handle with `refs`, `mode`, `stop` | `attach`, `detach`, `load`, `send`, `retry`, `abort`, `resolveApproval`, `reset`, `applyEvent` | two views of one store, two kinds of stream, reloads against live events, optimistic updates | one stream at a time, each event once, cards tell the truth, spinners end, what is shown is what is saved |
| **SQL editor** `components/screens/sql-editor.tsx` | buffer, drafts, runs, suggestion, read-only switch | type, save, load, run, cancel, suggest | answers that arrive after the user went on | no text is lost, writes are confirmed, the toolbar tells what runs |
| **Table view and grid** `components/screens/table-view.tsx`, `shared/data-grid.tsx` | paging, sort, filters, cached pages, selection, menu | page, sort, filter, select, act on rows | the old page stays on screen under the new key | actions hit what is shown, pages are aligned, filters survive reopening |
| **Workspace** `lib/store.ts`, `nav.ts`, `components/workspace.tsx`, `screens/connections.tsx` | tab strips, drafts, the route | open, close, enter, delete, reload | routes, effects and the store follow each other | strips are sound, closed tabs stay closed, nothing of a deleted connection is left |
| **Connection form** `connections/connection-form-dialog.tsx`, `lib/connection-url.ts` | dialog, form, late credentials | open, edit, switch mode, test, save | secrets that arrive for an earlier dialog; fields against URL | secrets stay with their row; what is saved is what was tested |
| **Desktop sidecar** `sidecar.ts`, `main.ts` | the child, a restart counter, `stopping`, `quitting` | start, health, exit, restart, stop, quit | stop against a pending restart; a quit during start-up; crash loops | nothing runs after stop; a crash is handled |
| **Desktop updater** `updater.ts` | a state and a busy flag, the staged bundle | check, download, install | dialogs and checks overlapping; releases that move on | one call works at a time; installs what was shown, behind the app |

They interact like this. A window calls `chat.send`; the server claims the
thread, subscribes the feed to the hub and forks `runTurn`, which publishes to
the hub and calls a provider; the provider calls tools; `propose_write` puts an
approval into `pendingApprovals`, into sqlite and on the hub and waits; a window
answers with `chat.approval.resolve`; the write goes through the gate, which
reads the connection again and takes a driver from the registry. Connection
updates and deletions release that driver and invalidate the schema cache. All
server state is in memory but for sqlite, so a crash is a cut between any two
steps. The server is one JavaScript thread: what lies between two awaits (`yield*`
of something asynchronous) is atomic, and everything else interleaves.

`PROJECT.json` lists every component with what is modelled of it, and every
hazard at its line with the properties that would notice it.

## 2. The modules

| Module | Models |
|---|---|
| `AiWriteAuthorization` | the promise: a write the model proposes changes the database at most once, by the user's first yes or by a policy that is off |
| `AgentTurn` | turns, tool calls, the gate, sqlite's tables and crashes |
| `AgentTurnProofs` | theorems about `AgentTurn`, with the refinement of `AiWriteAuthorization` |
| `MCAgentTurn` | instances of `AgentTurn` for TLC |
| `DriverRegistry` | registry, connection store, schema cache, and the handlers of `rpc/connection.ts` and `rpc/schema.ts` that call them |
| `DriverRegistryProofs`, `MCDriverRegistry` | its theorems and instances |
| `ChatClient` | the store of every window of a thread, with the hub and the server as windows see it |
| `ChatClientProofs`, `MCChatClient` | its theorems and instances |
| `SqlRun` | `sql.run` and `sql.cancel`, the registry of running fibers, history, and the pooled sessions of postgres and mysql |
| `SqlExecution` | what a run of SQL promises, without fibers, sessions and transactions: implemented by `SqlRun` |
| `SqlRunProofs`, `MCSqlRun` | the theorems of `SqlRun`, with the refinement of `SqlExecution`, and its instances |
| `Sidecar`, `Updater`, `Desktop` | the server child of the desktop app, its updater, and both in one process with the swap script behind the exit |
| `DesktopProofs` | theorems about `Desktop` |
| `SqliteDriver`, `SqlText`, `TableReads`, `PgTypes`, `BigQueryJobs` | the drivers' parts without a pool, and what is read out of a SQL text |
| `CliTurn`, `TurnParts`, `TurnContext`, `ClaudeRuntime`, `AgentTools` | a turn from the side of its provider |
| `History`, `SavedQueries`, `Threads` | what the server keeps |
| `SqlEditor`, `TableView`, `Workspace`, `ConnectionForm`, `ModelChoice` | the screens of the web app |
| `Parts`, `MCParts` | the last eighteen in one specification, and their instance |
| `ArrayFilter` | `Array.prototype.filter` as a function of how far its scan has come, used by `TableView` and `Workspace` |
| `ServerPartsProofs` | an inductive invariant for each of the eleven parts of the server and of the drivers but `SqlText` |
| `ScreenPartsProofs` | induction over an interval, what a filter returns, and an inductive invariant for `Threads`, `ModelChoice`, `ConnectionForm`, `SqlEditor`, `TableView`, `Workspace` and `SqlText` |
| `PartsProofs` | the theorems of `Parts`, from these eighteen invariants |

### AgentTurn

A turn is named by its message id, a proposed write by its approval id. `turn[m]`
is the point `send` and `runTurn` have reached (`claimed` between the claim and
the fork, `running` while the provider works, `settled` once it stopped, ...),
`call[c]` the point in `proposeWrite` and `executeWrite`. One action is the code
between two awaits: `SendClaim` is the check and the claim of
`AgentServiceLive.ts:99`, `CreateApproval` the insertion into the map and the
insert into sqlite, `Wake`/`Timeout`/`Settle` the three ways `Deferred.await` and
its `ensuring` end, `GateLoad`/`GateCheck`/`AcquireDriver`/`RunWrite` the steps of
the gate, `RecordStatus`/`ShowStatus` the row and the event behind it. Codex
calls have `before`, the calls ahead of them in `callbackChain`; `barrier` is
what `done` waits for. With `StoreMayFail` any sqlite statement may die, which
ends the turn through `catchCause` and the call through its provider. `Crash`
loses memory and keeps the tables and the user's database.

Abstracted: the text of SQL (a call is a single plain write or it is not, the
verdict of the classifier being an input), text streaming, read-only tools,
titles and models.

### DriverRegistry

An operation `o` is one handler call. `pc[o]` follows it through lock, row,
secret, ping, use and release; `open`, `failures` and `lock` are the registry's,
`builtRow[o]` and `builtSecret[o]` remember what a driver was made from, `live` is
the set of pools that exist, `cache` the schema cache by the call that filled it.
`Interrupt` may hit a call anywhere: `withPermits` releases the lock, a first
ping that is cut leaves its pool. `update` reads row and secret, then writes row
and secret, in separate steps; the two reads are merged because nothing tells
them apart. The Effect semaphore may hand its permit to whoever comes next, so
waiters are a set.

Not modelled: the finalizer (nothing runs after it), `touch`/`lastUsedAt`.

### ChatClient

`handles`, `mode`, `stop`, `attached` are the stream handle of a window; a stream
is a slot with a state (`asked`, `open`, `ended`, `refused`, or `orphan`: a send
its window gave up before the server saw it). The hub is the log of what was
published for the thread and a subscription is a position in it, so a delivery
may be late by any amount, and a subscription misses what was published before
it. `ReduceMessages` and `ReduceCard` are `reduceEvent` on what the properties
tell apart: which messages there are, and the status of the approval cards of a
turn. The server side (`AcceptSend`, `PublishUser`, `RequestApproval`, ...) is
`AgentTurn` without its inside: at most one approval per turn, statuses and
their events in one step.

Assumptions: interrupting a fiber from the outside calls none of its handlers
(`streamRpc` interrupts and both handlers sit behind the interrupted effect);
`chat.abort` makes nothing happen that may not happen anyway in this model, since
providers may stop and approvals may be answered no at any time. Text and tool
parts (`TurnParts`), drafts without a thread and the model picker (`ModelChoice`)
are left out. A card that a
late event would add to a message which has it already counts as one card with
the newer status.

### SqlRun

A run has three parts that move on their own. `pc[r]` is the handler `runQuery`
(acquire, await, record, done; `gone` when its client went away), `fiber[r]` the
fiber of `collect` with the places of the driver's `query` stream (`connect`,
`begin`, `read`, `types`, `kill`, `unwind`), and `writer[r]` the promise inside
`runWrite`, which nothing interrupts. `intr[r]` says that the fiber was asked to
stop: it takes the interrupt where Effect lets it, never inside the acquisition
or the finalizers of `acquireRelease`, and from then on its result is
"canceled". `running` is the registry: a stack of fibers for every run id, as in
`sql/runRegistry.ts`. Of a session, `holder` is the run that checked it out, `tx`
its transaction, and `busy` says that the server executes a read on it, which
may outlast the fiber's interest in it (`StatementEnds`); ROLLBACK queues behind
it (`Unwind`). `Kill` hits whatever the session executes at that moment, and in
mysql needs a free session of the same pool to be sent at all.

`SqlExecution` is what all this has to look like from outside: a run is asked for,
may be stopped, changes the data at one point or not at all, has one result, and
that result is reported. Its variables are mapped in `Execution`, of which only
`result` is not a variable of `SqlRun`: the `exit` of a fiber counts from its end on,
and `Refuse`, where `acquire` fails, is a result and its report in one step.

The five kinds of request stand for what the code tells apart: a `select`; a
`hidden` one, a read for the classifier that calls a function with side effects,
so that only the READ ONLY transaction protects the data; an `update` the
classifier blocks; a `batch` that `guardMultiStatement` refuses; and a `write`.

Abstracted: batches between the first and the last (they change nothing here),
the order in which a pool serves who waits, the statements of a write, timeouts
(a statement that ends with an error). The lookup of type names in postgres asks
the cache or a second session, and gives up after `connectionTimeoutMillis`: it
is one step that always comes back. One driver of one connection is modelled
while it is open; that it can be released meanwhile belongs to `DriverRegistry`.
sqlite and bigquery have no sessions of this kind (`SqliteDriver`,
`BigQueryJobs`); `explain`, a read with a prefix, is left out.

### Desktop

`Sidecar` follows `sidecar.ts` and the start-up and quit handlers of `main.ts`:
`main` is the process, `child` the server, `timer` a spawn that is due, `restarts`
the counter that ends the app at `MAX_RESTARTS`. A quit, a crash, a closed window
and the smoke test may come at any point of a start. `Updater` follows the calls
of `check` and `download`: `place[c]` is the await a call is at, and releases move
on (`Publish`) while it waits. `Desktop` composes them: an install goes through
`before-quit` like any quit, and the swap script acts once the process is gone.
Times are not modelled; the two margins that are used stand in the head of
`Sidecar`.

### The parts

Eighteen modules share no state, so `Parts` lets one of them act in a behaviour
(`component`) while the others rest in an initial state. A run of `Parts` is the
sum of eighteen small explorations, not their product, and a property of a part
says what it says of that part alone. Each part has its own variables, `Init` and
`Next`, and its properties stand at its end; `Parts` groups them by what a caller
or user is owed.

| Part | State and actions | Properties |
|---|---|---|
| `SqliteDriver` | the table as a number of rows, `changes()`, `query_only`; scripts in one step, a read of an in-memory database in three | `CountIsTrue`, `QueryOnlyEnds`, `NothingCutSilently`, `ScriptIsAtomic`, `ReadsChangeNothing` |
| `SqlText` | texts of tokens and row filters written step by step; the three splitters as one lexer with different settings, the classifier, the guard, the editor's guess, slots and parameters of `queryBuilder.ts` | `SplittersAgree`, `ReadsLookLikeReads`, `EditorAsksForWrites`, `SlotsAreBound` |
| `TableReads` | a table that is altered, filled and analysed between the queries of `introspect`, `describeTable` and `rows`, in the order each driver asks them | `NotFoundIsTrue`, `PageIsLabelled`, `TotalIsHonest` |
| `PgTypes` | the name cache of a pool: built-in names, one sweep, a query for the rest | `KnownTypesAreNamed` |
| `BigQueryJobs` | a call and its job, each on its own; creation and cancel may be lost | `NoJobIsLeft` |
| `CliTurn` | the process of codex or opencode: start-up, requests, the callback chain, end, interrupt, exit, MCP calls and their token | `NobodyWaitsForTheDead`, `OnlySilenceHoldsInterrupt`, `DoneIsDone`, `ToolsEndWithTurn` |
| `TurnParts` | the parts of a message built twice, by the server to save and by the client to show, for every provider | `SavedIsShown`, `ToolsAreSaved` |
| `TurnContext` | sessions per provider saved by turns and by late callbacks; the schema summary with its time to live | `SessionsAreKept`, `StaleSummariesEnd` |
| `ClaudeRuntime` | the settings file, the form, saves and probes that overlap | `StatusIsOfTheNextTurn`, `CleanMeansSaved` |
| `History` | rows inserted at the end of a run, pruned by a second statement | `HistoryIsTheNewest`, `HistoryIsBounded` |
| `SavedQueries` | two windows, each call a SELECT and then a write | `AnswersAreKept` |
| `AgentTools` | overlapping tool calls with any arguments, the grid before the answer | `ToolsKeepTheirSpec`, `GridBeforeAnswer` |
| `SqlEditor` | buffer, drafts, saves, runs, confirmations, suggestions of one connection | `TypedTextIsKept`, `WritesAreConfirmed`, `RunningIsShown`, `SuggestionFits` |
| `TableView` | toolbar state as the key of a cached query, the page that stays on screen, selection by place, the row menu | `ActsOnWhatIsShown`, `PagingIsAligned`, `ReapplyKeepsFilters` |
| `Workspace` | store calls as operators from state to state; navigations take place later, effects run at a commit | `StripsAreSound`, `NothingOfTheDeleted`, `ClosedTabsStayClosed` |
| `ConnectionForm` | dialogs, late credentials, fields against URL, a save of two statements | `RowsKeepTheirSecrets`, `SavedIsTested`, `UntouchedIsUnchanged` |
| `ModelChoice` | the catalog of a server that restarts, the client's copy, defaults, picks, turns | `TurnsRunWhatWasShown`, `DefaultsAgree`, `PickerRemembers` |
| `Threads` | rows, messages and titles, overlapping mutations and refetches of the list, deletion of thread and connection under a turn | `ListIsTrue`, `TitleIsOfTheFirstMessage`, `NothingWithoutConnection` |

Data is abstract throughout: a text is a fresh number (`SqlEditor`) or a sequence
of token classes (`SqlText`), a schema a version, a result its number of rows.
Numbers of the code are scaled down (a limit of 500 rows becomes 2) with what
lies on either side of them. History variables, which the code does not have,
are marked "history" where they are declared; they only serve properties.

`SqlText` finds that the three lexers do differ: on what dialects escape, on `#`,
dollar and backtick quotes, on comments in comments. `GuardContested` and
`Contested` say where, and the properties say that they agree everywhere else.
The other parts have exceptions too, each a history variable or a named condition
(`raced`, `swapped`, `merged`, `overtaken`, `straddled`, `overlapped`, `late`, `disturbed`): these
are the races the code leaves open, and the property says there is no other.

## 3. What is checked

| Run | Instance | Shows |
|---|---|---|
| `agent_writes` | 1 thread, 1 turn, 2 calls, Codex, failing statements, 1 crash, all user operations | `NoMeansNo`, `RowTellsTheTruth`, `CardFollowsRow`, `CodexSavesSettledCards`, `PendingHasWaiter`, `DecisionsAreFinal`, and that the module implements `AiWriteAuthorization` (`WritesAreAuthorized`) |
| `agent_turns` | 1 thread, 2 turns, 1 call, OpenCode, failing statements, deletion | `OneTurnPerThread`, `DoneImpliesSaved`, and that an abort ends an OpenCode turn (`AbortEndsOpenCodeTurn`) |
| `agent_live` | 1 turn, 2 calls, Claude and Codex | `NothingWaitsForEver`: every approval settles, and a turn whose provider stopped frees its thread |
| `agent_busy` | 2 turns, Claude, failing statements | **violated** (`BusyMeansRunning`): a send that dies between claim and fork leaves the thread busy |
| `registry` | 2 connections, 3 calls of any of 8 kinds, interrupts | `StatusIsTrue`, `PoolsAccountedFor`, `StaleOnlyIfRaced`, `CacheFollowsDriver` |
| `registry_live` | 2 connections, 3 calls, use and disconnect, interrupts | `CallsEnd`: no call waits for ever on the lock |
| `chat` | 1 window with 2 views, 1 turn, 4 user operations of 7 kinds, failing turns | `OneStream`, `AppliedOnce`, `NoDuplicateMessages`, `ExecutedIsTrue` |
| `chat_live` | 1 window, 1 turn, 3 user operations, broken connections, late cards | `IndicatorsEnd`: a thread stops streaming, a card stops executing |
| `chat_failed` | 2 windows, 5 user operations | **violated** (`FailedMeansRolledBack`): a card says "Rolled back." over a write that was executed |
| `sql` | 2 runs of any kind, 2 sessions, 2 cancels, 2 run ids, postgres and mysql, clients that go away | `RegistryHoldsWaitingRuns`, `PoolIsClean`, `KillsHitTheirRun`, `ReadOnlyChangesNothing`, `CancelIsComplete`, `OnlyKillsBlock`, and that the module implements `SqlExecution` (`RunsAreAtomic`) |
| `desktop` | 3 restarts, 3 update calls, 2 new versions, both platforms, crashes and quits anywhere | `ServerIsManaged`, `OneCallWorks`, `SwapIsSafe`, and that a crash or a quit comes to an end (`CrashIsHandled`) |
| `parts` | the constants of `Parts.cfg`, every part for itself | `SqliteIsHonest`, `TextIsUnderstood`, `AnswersAreTrue`, `TurnsAreKept`, `RecordsAreKept`, `ScreensActOnWhatTheyShow`, `ChoicesAreKept`: the invariants of the table above, grouped; `StepsAreSafe`: its action properties |

The type invariants are proved (section 4) rather than run. The parts have none of
their own: where one has theorems, its invariant states the types.

Each property is paired in `PROJECT.json` with a mutant: a definition changed the
way a bug would change it (the timeout that approves, the claim that does not
check, the lock that is not given back, the stream that is not stopped), under
which the same run fails. The mutated forms stand in the modules beside what
they replace, marked "Mutant".

**Bounds.** `Turns`, `Calls`, `Ops`, `Windows`, `Views` are finite sets; `MaxCrashes`,
`MaxOps` (user operations in one behaviour), `MaxSlots` (streams at once) and
`MaxPending` (optimistic messages) bound the rest. Two calls are what it takes to
have one waiting behind another, an approval answered while the other runs, and
a policy that changes between them; a third repeats the second. Two turns make
every race for a claim. Three calls of the registry are an opener, a releaser
and a user of what one of them hands on. In `chat`, two slots hold a stream and
the abandoned send beside it, four operations reach a send, its refusal or
abort, a second send and a detach in every order. In `sql`, two runs over two
sessions are one that is killed and another that could be hit in its place, or
two that exhaust the pool by their kills; two cancels may want the same run, and
two ids tell a run under the same id from another. In `desktop`, three restarts
are the code's own limit, and three calls are one that works, one that is refused
and one that comes after the first let go. In `parts`, two actors (readers,
queries, windows, tool calls, connections) of whatever can overlap, three tokens
of a text from alphabets that hold every class the lexers tell apart, two
versions beyond the first of whatever changes, and three to five operations of a
user: enough for a request, what overtakes it, and what follows its answer. (The
tabs take five, since the last exception of `StripsAreSound` needs two tabs closed
before one navigation arrives.) The
state spaces are explored completely; the larger ones have about a million states.

**Fairness.** In `AgentTurn` the server's own fibers and timers run (weak fairness
of every step of a turn and of a call, and sqlite and the write come back: the
executor has a 30 s limit). Users owe nothing, providers owe nothing, except that
an OpenCode process that was killed exits. In `DriverRegistry` calls proceed and
queries come back, and a pool has to close only once nobody uses its driver
(`pool.end` waits). In `ChatClient` requests, replies and events arrive, the
server settles approvals (its ten-minute limit), runs writes and ends a turn
whose provider stopped; a broken connection is never owed. `IndicatorsEnd`
names its exceptions: an event the window has missed for good, a
card event behind the `TurnDone` of its turn, a card saved as approved.
`PoolsAccountedFor` and `StaleOnlyIfRaced` name theirs in the same way.

In `Desktop` a timer fires, a health check ends (it has a limit of its own) and
SIGKILL ends a child; users, crashes and failing spawns owe nothing.

`Parts` states no fairness: its properties are about safety. `SqlRun` needs none:
every step of its server and of its database is progress, none can be undone, so
that it is enough that some step can be taken while anything is under way. That is
`OnlyKillsBlock`; it assumes, as the drivers' statement timeouts do, that a database
ends every statement, and names the one state in which nothing can go on. `Ready`
says that a step can be taken without ENABLED, by the guards the actions themselves
use (`MayKill`, `StatementIsOver`, `FiberIsOver` and the others), so that it can be
proved about; TLC finds no state of the instance in which it differs from
`ENABLED System`.

**Deadlock** is not checked: behaviours end when the users, the message ids or
the calls are used up.

## 4. What is proved

For every value of the constants (under the `ConstantsAssumption` of each module,
which TLC evaluates in every run):

- `AgentTurnProofs`: `TypeCorrect`, `NoIsFinal` (`NoMeansNo`), `RowsAreTrue`
  (`RowTellsTheTruth`), `OneTurn` (`OneTurnPerThread`), `FinalDecisions`
  (`DecisionsAreFinal`) and `Refinement` (`AgentTurn` implements
  `AiWriteAuthorization`). None of these is inductive: whether a write may be in
  the database depends on the phase its call is in. `IInv` says, for every phase
  of a call, what it implies about the decision, the outcome, the row, the grant
  and the database (`CallInv`), and that a turn in progress holds the claim on
  its thread (`TurnInv`). One lemma per group of actions shows that a step keeps
  `CallInv` of the call it moves and leaves the others alone.
- `DriverRegistryProofs`: `TypeCorrect`, `StatusTheorem`, `PoolsTheorem`,
  `StaleTheorem`, `CacheTheorem`, `MutualExclusion`. The invariant has a part for
  the lock (who is inside the critical section holds it), the drivers handed out,
  the map, pools that live, connections in use, and drivers being opened; every
  part is kept with the help of the others.
- `ChatClientProofs`: `OneStreamTheorem`, `AppliedOnceTheorem`,
  `ExecutedIsTrueTheorem`. The argument of the first two: a handle without a mode
  has no stop, every stream that is alive is the one `stop` names, and an open
  subscription is ahead of everything applied (`AheadInv`), since it begins at the
  end of the log after the earlier one is gone. The third: the log and the saved
  card are the only sources of "executed", both tell the truth, and what is
  executed stays so because nothing still waits for its answer (`CardInv`).

- `SqlRunProofs`: `SqlRunTypes`, `PoolStaysClean`, `KillsHitOnlyTheirRun`,
  `ReadOnlyIsSafe`, `HistoryAgrees`, `CancelsAreComplete`, `RegistryIsExact`,
  `OnlyKillsStop` (`OnlyKillsBlock`) and `RunsRefine` (`SqlRun` implements
  `SqlExecution`), the whole of what the run checks. A kill is sent to a number, so the argument is about who holds what: `FiberInv` says at which
  places a run holds its session and in which transaction, `SessionInv` that a
  session that is held belongs to a run at one of these places and that a
  statement runs on it only under a READ ONLY transaction, `OutcomeInv` that
  nothing is answered or recorded before the fiber ended. The registry has an
  invariant of its own over lemmas about what push, pop and splice do to a stack
  that holds every run once (`PushProperties`, `PopProperties`, `DropProperties`).
  That nothing but kills blocks needs one more invariant (`ForkedInv`: a handler waits
  only for a fiber that was forked, a fiber in `write` only for a promise that was
  made); then, if no session is free, each is held by a run whose place has a step
  of its own, unless all of them are at `kill`.
  For the refinement the result of a run is that of its fiber once it has ended, or
  what the guard or `acquire` answered (`Result`). A step of a fiber then shows at its
  end only (`FiberRefines`), a promise at its commit (`WriteRefines`), the handler when
  it reports (`HandlerRefines`). `ResultInv` says why that end is the only one, and why
  a promise that still works has a fiber that waits for it or was told to stop. What
  the answer and the history say of each other follows, and is proved by itself, too
  (`HistoryAgrees`: `HistoryIsTrue`).

- `AgentTurnProofs`, on messages and cards: `CardsFollowRows` (`CardFollowsRow`),
  `SavedCardsAreSettled` (`CodexSavesSettledCards`), `PendingIsAwaited`
  (`PendingHasWaiter`) and `DoneIsSaved` (`DoneImpliesSaved`). `JInv` adds to `IInv`
  what the row, the hub, the parts and the saved message of a call say of each
  other (`CardInv`), and what a turn that is over has stored (`MessageInv`): a card
  changes only behind its row, and a turn saves its parts only after the calls its
  end waits for.
- `ChatClientProofs`, on messages: `EachMessageOnce` (`NoDuplicateMessages`) and
  `TypeCorrect`. `RowsInv` says which rows a turn has in which phase, each once;
  `MessagesInv` that no list of a window holds a message of a turn twice, whether
  it came with a reload, an event or a retry.
- `DesktopProofs`: `TypeCorrect`, `ServersAreManaged` (`ServerIsManaged`), `OneWorks`
  (`OneCallWorks`) and `SwapsAreSafe` (`SwapIsSafe`), from an invariant for each
  half: `SidecarInv`, what child, timer, start and quit imply of each other, and
  `UpdaterInv`, who owns the busy flag and what is staged.
- `PartsProofs`: `AnswersHold` (`AnswersAreTrue`), `SqliteHonest`
  (`SqliteIsHonest`), `TurnsKept` (`TurnsAreKept`), `RecordsKept` (`RecordsAreKept`),
  `ScreensKept` (`ScreensActOnWhatTheyShow`), `ChoicesKept` (`ChoicesAreKept`) and
  `StepsSafe` (`StepsAreSafe`) and `TextUnderstood` (`TextIsUnderstood`): all the run
  `parts` checks; and, for a single part each, `CliTurnsEnd`, `ToolsEnd`, `SessionsKept`, `SummariesEnd`,
  `SavedAnswersKept`, `ScriptsAreAtomic`, `ReadsOnlyRead` and `ClosedTabsGone`.
  `Invariance`, `DataInvariance` and `ScreenInvariance` put eighteen inductive
  invariants together. Each is written in the same way in `ServerPartsProofs` or
  `ScreenPartsProofs`: what its part starts with (`...Start`), that a step of the part
  keeps it (`...Step`, with a lemma per group of actions), that a part at rest keeps
  it (`...Rest`), and what it says of the properties (`...Keeps`).

The longer arguments among the parts:

- `TableReads`: what a call saw so far is one of the states there were during it
  (`during`), whatever DDL comes between two queries.
- `SqliteDriver` (`SqliteInv`): a script is a function of how many of its statements ran.
  Its induction (`CountedState`, `RunWriteResult`) says that the count reported is at
  least what the data statements changed; another (`BatchesAre`, `CollectResult`)
  that reading in batches up to a limit keeps the first rows and leaves none out
  in silence.
- `SqlText` (`TextKeeps`): none of this is about steps, all of it about texts of any
  length. Two lexers that agree on every token of a text are behind the same mark
  everywhere (`SameReading`); that the handler's and the editor's differ from the
  driver's by contested tokens only are two uses of it (`GuardReads`, `PlainReads`).
  Behind a semicolon in code a lexer starts afresh, so a piece reads alone as it does
  in its text (`PieceReads`), and what the run key sends is one statement (`SentIsOne`).
  A read has no word that writes in its code (`DenyFree`); one that is hidden in a
  quote or a comment begins what the editor compares only if comments of both kinds
  are there to uncover it (`HiddenWord`), and the first word of the code is the first
  of what is left without comments (`FirstWord`). `WherePairs` pairs the slots of a
  row query with its parameters, filter by filter.
- `TurnParts` (`TurnPartsInv`): the two lists of parts differ by merged text only, so
  that what stays of either without its text (`Solid`) is the same; every update of
  a part is shown to commute with `Solid`.
- `History` (`HistoryInv`): the rows ahead of a row are counted (`AheadCounts`); the rows
  that were pruned are behind as many rows as the list shows, and stay there.
- `ConnectionForm` (`FormInv`): what a save is about to write agrees with the row and
  the secret the dialog was opened on (`StoreFits`, `DialogFits`, `SavesFit`), whichever
  of the late credentials arrived.
- `TableView` (`ViewInv`): what the WHERE text is parsed to and what the builder drops as
  incomplete fit together, so that a filter put back gives the query it came from.
- `Workspace` (`TabInv`): the store follows the effects that ran (`FollowInv`); a leaf whose
  effects ran is the active tab, or was closed, or is being left (`HereInv`); and
  nothing that is kept names a connection that was deleted (`KeptInv`).

**Induction.** The library's induction theorems take an operator as a parameter, which
none of the provers can instantiate, but its theorem of least elements (`WFMin`)
takes a set. `ScreenPartsProofs` begins with what follows from it: a set of numbers
has a least element (`LeastElement`), so a property of an interval, written as a set,
is shown by its first counterexample (`IntervalInduction`), a function given step
by step exists (`StepFunction`) and is the only one (`SameSteps`). These are what
`KeptResult` (a filter keeps exactly the elements asked for, in their order), the
scripts and batches of sqlite, the lexers and the WHERE clause of `SqlText`, the parts
of a turn and the conditions of the grid rest on. `SelectSeq` of the standard modules is beyond their reach; `ArrayFilter`
takes its place.

**Assumptions.** `ConstantsAssumption` of `AgentTurn`, `DriverRegistry`, `ChatClient` and
`SqlRun`; `MaxRestartsIsNat` and `MaxVersionIsNat` (`Desktop`); and for the parts
`DriversAreKnown`, `ContextAssumption`, `HistoryAssumption`, `SqliteAssumption`,
`ToolsAssumption`, `RuntimeAssumption`, `PickAssumption`, `EditorAssumption`,
`FormAssumption`, `ViewAssumption` and `TabAssumption`. They say that limits are
numbers (a page size, a batch and the limits of rows are not zero), that ids differ
from the words that stand for "none", that the first provider has a model, and
that the home tab is a chat.

**Only model-checked.** The liveness properties `NothingWaitsForEver`,
`AbortEndsOpenCodeTurn`, `CallsEnd`, `IndicatorsEnd` and `CrashIsHandled`: fairness is
outside what the prover handles. Every invariant and every safety property of a step
that a passing run checks is a theorem. That `Ready` says what ENABLED would is
checked on the instance, not proved.

**What the proofs found.** Six definitions that TLC had passed on the earlier bounds
could not be proved about for a reason that lies in the code or the model, and
were corrected:

- `StripsAreSound` excepted the last tab closed. With two tabs closed before a
  navigation arrives and a connect answer behind them, the route ends at the first
  of them, with no tab open: five user operations, one more than the run allowed.
  `closed` is now the set of tabs closed since the last route, and the run allows five.
- `UntouchedIsUnchanged` is false of two saves of one connection that overlap, since
  row and secret are two statements: the second may write its row between them.
  The property now speaks of saves that nothing overlapped (`overlapped`).
- `ToolsAreSaved` spoke of positions in two lists of different length; it now compares
  what is left of them without the text.
- In `SqliteDriver`, a CREATE under `query_only` matched two cases of `Executed`, of which
  TLC takes the first; it now matches the one that fails, as sqlite does.
- `ReadsLookLikeReads` said that the editor never asks before what the read-only mode
  accepts. It does before `-- /* nl select ' */ nl insert '`, eight tokens where the
  run has three: the guess (`web/components/screens/sql-editor.tsx:59`) cuts block
  comments wherever they seem to be, and what is left begins with the quoted word. The
  property names the texts this takes (`MixesComments`), and `HiddenWord` proves that
  there are no others.
- `EditorAsksForWrites` excepted several statements and texts with an empty one. The
  proof had no use for either; the property holds without them.

## 5. What the checks found

1. `agent_busy`: the claim of `send` is given back by the forked turn only. A
   `setThreadModel` that fails, or a client that disconnects before the fork,
   leaves the thread "busy: a turn is already running on this thread" for good.
2. `chat_failed`: any failure of `chat.approval.resolve` marks the card failed,
   shown as "Rolled back.", also when the answer came second and the first one
   has been carried out.

The other disagreements are exceptions that a property names, so that the run
shows there is no further one:

- The comment at `agent/session.ts:186` says that an interrupt releases every tool
  call that waits, so that the chain is not blocked for ten minutes. The next call
  of a Codex chain creates its approval after the interrupt and waits for its own
  timeout (`NothingWaitsForEver` holds because that one comes).
- `connection.update` drops the driver *before* it writes, so a call in between
  opens one from the old row or secret, which stays (`StaleOnlyIfRaced`).
- Cancelling a write, or losing its client, interrupts the fiber and not the
  transaction: the client is told "canceled", the history says so, and the write
  may commit afterwards (`CancelIsComplete` and `RunsAreAtomic` say what still
  holds; a read really is over).
- `KILL QUERY` of mysql goes through the pool: as many cancelled reads as the pool
  has connections wait for each other for ever (`PoolExhaustedByKills`).
- Two reads of an in-memory sqlite database take `query_only` from each other
  (`ReadsChangeNothing`), and a statement that is no DML reports the count of the
  last one that was (`CountIsTrue`).
- A draft in the SQL editor is cleared by a save that began before the last
  keystrokes (`TypedTextIsKept`); of two runs that overlap, the first answer takes
  the Cancel button from the other (`RunningIsShown`).
- The editor's guess at what is a write looks for comments in quotes, and for block
  comments in line comments: it may ask before a read, and behind such a text it may
  not ask before a write (`ReadsLookLikeReads`, `EditorAsksForWrites`).
- A schema summary that is being read while its connection is edited is stored for
  five more minutes (`StaleSummariesEnd`).
- Two saves of one connection that overlap may leave the row of one with the secret
  of the other (`UntouchedIsUnchanged`).
- A connect answer that arrives after the user has closed the tabs it found takes the
  route to one of them; no tab is active until the next navigation (`StripsAreSound`).
- A quit while `Sidecar.start` is still waiting leaves a server behind: `main.ts`
  does not know it yet (`ServerIsManaged` speaks of servers that were started).
- Claude's blocks of one kind in a row share a part, whose saved text is not the
  one that was shown (`SavedIsShown`).

Smaller things, stated in the hazards: a comment in
`web/lib/chat-store.ts:381` says that interrupting a send aborts the turn, while
`AgentServiceLive.ts:136` lets it live; an event stream that fails is not taken up
again while its view stays; a card event behind `TurnDone` turns the streaming
flag on for good; `components/screens/chat.tsx:147` says of a picked model that the
server persists it on the thread, which happens at the next send, while `TurnDone`
puts the model of the running turn in its place (`lib/chat-store.ts:335`).

## 6. Not modelled, and what could follow

Not modelled: the vendored `components/ui`, rendering, themes and key bindings; the
contracts, which are types; start-up and wiring of the server; Electron's windows,
menus and protocol; formatting of values (`mysqlTypes.ts`, `jsonSafe.ts`), `explain`,
encryption of secrets, wording of prompts and suggestions, SSL and the SQL of the
catalog queries. These have no state another step could find changed, or belong
to libraries.

What would add most: `CliTurn` shown to provide what `AgentTurn` assumes of
`ProviderStops`, `barrier` and `Interrupt`, which today are two views of one code that
share no variables; and the same abstract runs for sqlite and BigQuery, whose
statements `SqliteDriver` and `BigQueryJobs` model without `sql.run` around them.
