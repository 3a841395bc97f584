# A TLA+ model of mcpshield

mcpshield is a gateway between MCP clients and upstream tool servers. It
authenticates clients, evaluates a policy on every `tools/call`, routes the call
to an upstream, and writes an audit event with the decision and the outcome to a
hash-chained SQLite table.

1. The system and its parts
2. The modules and how they correspond to the code
3. The runs
4. Fairness
5. What is proved
6. What is only model-checked, and what is not modelled
7. Disagreements between the code and its documentation
8. Known limits of the code that the models show
9. Plan

## 1. The system and its parts

| part | source | state it keeps | operations | status |
|---|---|---|---|---|
| Audit logger | `internal/audit/logger.go` | bounded channel, batch, chain tip, `dbFailed`, drop counter | `Log` (4 modes), `run`, `flushBatch`, `runRetention`, `Close` | modelled, proved |
| Audit store, hash chain | `sqlite_store.go`, `hashchain.go` | table `audit_events` | `InsertBatch`, `LastHash`, `DeleteBefore`, `TrimToSize`, `ResealChain`, `VerifyChain` | modelled, proved in part |
| Session table | `gateway.go:581-660` | sessions with expiry, gauge, eviction counters | bind, lookup (renews), expire, evict | modelled, proved |
| Gateway pipeline | `internal/gateway/gateway.go` | per request only | `ServeHTTP`, `handleInitialize`, `handleToolsList`, `handleToolsCall` | modelled, proved |
| Upstream manager | `internal/upstream/manager.go` | tool cache, `loading`, `bgRefresh` | `Warmup`, `ToolsList`, `ToolsCall`, `InvalidateCache`, refresh | modelled, proved |
| MCP HTTP client | `internal/transport/mcp_http_client.go` | next request id, two counters | `call` and its checks | modelled, proved |
| Policy loader, evaluator | `internal/policy/loader.go`, `validator.go` | none | `compile`, `evaluate`, `Validate` | modelled, proved |
| Policy engine, rate limiter | `engine.go`, `ratelimit.go` | policy pointer, buckets | `Swap`, `Evaluate`, `IsToolAllowed`, `Allow` | modelled, proved |
| Policy hot reload | `cmd/mcpshield/main.go` | signal channel of capacity 1 | SIGHUP, read, compile, swap | modelled, proved |
| Server life cycle | `cmd/mcpshield/main.go` | context, deferred calls | construction, signals, drain, closing | modelled, proved in part |
| Configuration | `pkg/config/config.go` | none | `BuildRuntime`: defaults, ranges, shared limits | modelled, proved |
| Authentication | `internal/auth`, `main.go` | table of digests | `buildAuth`, `NewAPIKeyAuthenticator`, `Authenticate` | modelled, proved |
| HTTP server construction | `internal/transport/http.go` | none | checks of its timeouts | modelled |
| Audit export and replay | `export.go`, `replay.go` | a replay's own limiter | `ReplayReadOnly`, `ReplayPolicyCheck`; not export | partly, replay proved |
| stdout and no-op loggers | `internal/audit/logger.go` | a channel of 256 | when each is chosen | partly |
| Command line | `cmd/mcpshield/main.go` | none | `serve`, `replay` | partly |
| Metrics and logging | `internal/observability` | counters | those the parts above rely on | partly |
| Stub upstream manager, message types, mock upstream | | none | | not modelled |

How the parts meet. A handler goroutine runs one request. It authenticates the
caller, resolves the session (a map under `sessionMu`), evaluates the policy (one
atomic load, then the buckets of the limiter, each under its own mutex), calls
the upstream through the manager (cache under a mutex, network without it), hands
an event to the audit logger (a channel) and answers. Beside the handlers run the
writer goroutine of the logger, at most one background refresh of the manager,
the warmup loop, and the reload goroutine that swaps the policy on SIGHUP. On
SIGTERM the HTTP server waits for its handlers, and a deferred call closes the
logger.

What is hard in each part, and what makes it correct:

* **Audit logger.** Many handlers and one writer, failing transactions, crashes.
  Every event must be in exactly one place, lost events counted once, the chain
  unbroken across failed batches, retention and restarts, and everything
  accepted must settle. Time stamps are taken before the upstream call and
  events are chained after it, so two orders exist side by side.
* **Session table.** The clock is read outside the lock, room is made before the
  insertion, four code paths remove sessions and each keeps the metrics itself.
  Capacity, the length of a lease and who is served must survive any interleaving.
* **Gateway.** The tool runs before the log can refuse its event, and while its
  handler waits the server may be told to stop; the policy may be swapped between
  two looks at it; the log must not be closed under a handler.
  What callers are told, what ran, and what the log says have to agree.
* **MCP HTTP client.** Concurrent calls, late and swapped answers, a limit on the
  bytes read that is judged after the decoder has stopped. A call must return its
  own result or none, run at most once, and be refused for its size only when it
  is too large.
* **Upstream manager.** The first load is shared by several goroutines, refreshes
  run in the background, an upstream may fail half way through a refresh, and
  `InvalidateCache` may come at any moment. The cache must only advance, and the
  gateway must become ready and stop.
* **Policy.** Deny rules with validators read the other way round from allow
  rules; a file that does not compile must leave the old policy whole; a signal
  that comes during a reload must not be lost.
* **Rate limiter.** Handlers race to create a bucket and reach it with clock
  readings older than its window. No token may be lost, given twice or charged to
  somebody else.
* **Server life cycle.** Eight parts are built one after the other, each may fail,
  and a signal may come between any two of them. What was opened must be closed on
  every way out, the limits that the configuration lets through must not be refused by
  a part that checks them again, and nobody may get in whom the file does not name.
* **Replay.** A recorded session is judged by a new engine with an empty limiter
  and another clock. It must not promise more than the policy would keep.

The file-and-line list of these hazards, each with the properties that watch it,
is under `hazards` in `PROJECT.json`.

## 2. The modules and how they correspond to the code

Common conventions. One variable per field or shared object of the code; `pc`
says where a goroutine is between two points at which others may run (a lock, a
channel, a network or a database call). A group of statements under one lock is
one action. Variables under "History" are read by properties only. A definition
whose name has an underscore, such as `BatchFull_OffByOne`, is a deliberate bug
in the definition it is named after; no specification uses it, and it documents
which property notices that bug.

### AuditLogger, AuditTrail; AuditLogger_proofs

`AuditLogger` models the SQLite logger, the store and `VerifyChain`. A handler
takes its stamp (`Stamp`, `gateway.go:442`), enters `Log` (`LogEnter`,
`LogRefuse`) and sends (`LogSend`) or gives up (`LogDrop`: the context, the
100 ms timer, or a full channel, by mode). The writer's `wpc` is the point in
`run`: `select` with its four cases (`Receive`, `ChannelClosed`, `BatchTick`,
`RetentionTick`), a flush (`FlushNothing`, `FlushOk`, `FlushFail`) and the steps
of `runRetention`, one per transaction. `Restart` is a new process on the same
database after `Close` or after a kill.

Data. An event is its position in the `(ts, event_id)` order in which the store
scans. A hash is the sequence of events it covers, so that two hashes are equal
exactly when SHA-256 over the same chain would be. Stamps are strictly
increasing. The counters `writeFails` and the log lines are left out. `Close`
requires that no handler is inside `Log`: that is what `ClosedLast` of `Gateway`
establishes for a shutdown by signal.

`AuditTrail` is the promise: an unbounded FIFO in front of a table; queued events
leave a whole prefix at a time and become rows or are reported, never both; rows
go oldest first. `TrailSpec` is the refinement (queue = batch \o ch).

### Sessions, SessionLease; Sessions_proofs

`Sessions` has one action per critical section: `BindEvict` and `BindInsert` are
the two halves of `bindSession` (it reads the clock twice; the lock is held
across, which `Unlocked` expresses), `LookupUnknown`, `LookupExpired` and
`LookupFound` the three ends of `lookupSessionClient`, which acts on a reading of
the clock up to `MaxStall` old. `Victims` leaves the choice among equally old
sessions open, as map iteration does. Left out: the counter of rejected sessions
and a request with no session header, which touch no shared state.

`SessionLease` is the promise to clients, in true time: a session is a lease that
is granted once, renewed by use, served to its holder only, and ends when it has
been idle for its time to live or when it is among the least recently used of a
full table; all within `Slack`, the longest time a request waits for the lock.

### UpstreamManager; UpstreamManager_proofs

The warmup loop (`Warm`), the shared first load with its `loading` channel
(`WarmupLead` ... `WarmupClose`), `getCache` (`GetCache`, then `StartRefresh` or
`LeaveRefresh` by the compare-and-swap on `bgRefresh`, which happens after the
lock is released) and the background refresh (`Refresh`). `doRefresh` asks the
upstreams one after the other (`FetchOk`, `FetchFails`), so their lists may come
from different moments. A tool list is a version number and `Offers` says what
names it holds. Time is not counted: a fresh cache may expire at any moment
(`Expire`), and the expiry of a new one may have passed already (`Publish`). A
call to an upstream times out only when the upstream is `down`.

### MCPClient, UpstreamCall; MCPClient_proofs

`MCPClient` is `call`. `Send` takes the next id and posts the request; `GiveUp`
is the request timeout before the headers; `ReadWhole` and `ReadCut` read a body
to its end or to the byte at which it stops, and `Judged` is every check that
follows, in the order of the code, with its metric. Around the client are
`Run` and `Respond`: a request may be lost, run after its caller has given up, and
be answered with a response that belongs to another request, is broken in one of
the ways of `Forms`, and has any length. A body is three lengths: the end of its
JSON object, its end, and the first byte after the object that is no blank. That
is all the size limit, the decoder and `NothingFollows` can tell apart.

`UpstreamCall` is what a caller may count on: a call is sent once and runs at most
once, perhaps after it was given up; it succeeds only when it has run, and with
its own result. `Gateway` uses a call in that sense: `Forward` hands it over, the
tool runs at any time after that or never (`RunTool`), and `ToolReturns` gives the
handler an error at any time, but a result only when the tool has run.

### PolicyRules, Limiter, PolicyReload, PolicyEngine; PolicyEngine_proofs

`PolicyRules` has no state: `Valid` and `Compile` are `compile` with all its
checks, `Evaluate` is `evaluate`, `Passes` is `Validate`. A regular expression is
the set of strings it matches, YAML decoding the flag `wellFormed`.

`PolicyReload` adds the file, the signal channel of capacity 1 and the reload
goroutine: `ReadFile`, then `SwapPolicy` or `KeepPolicy`. Without a configured
file the engine never has a policy, and signals are ignored (`IgnoreSignal`).

`Limiter` has no state either: the key of a bucket, the rotation of its window,
and `EvaluateIn`, one whole `Evaluate` with nobody else at work. `PolicyEngine`
runs it among other handlers. `Begin` is the part of `Evaluate` up to the
limits (one load of the policy, one reading of the clock); then, for every
limited allow rule that covers the tool, `LoadOrStore` and the part of `Allow`
under the bucket's mutex (`Granted`, `Limited`). The tokens a call took from
earlier rules stay taken when a later one denies it, as in the code. Names are
sequences of the parts between their colons, so that `KeyOf` can say what
`fmt.Sprintf` makes of them; the names of the run have none.

### Configuration, Serve, Replay, Commands; Commands_proofs, Folding

`Configuration` has no state. A section of limits is a function on the settings the
file gives; `InRange` is the check of the parsers, `Runtime` what `BuildRuntime`
makes of a file, `Accepts` the `validate` function of each part that is built
from it. `KeyMap` and `KeyTables` are the two maps a list of keys goes through:
the second is indexed by digest and filled in the order in which Go iterates over
the first, so two spellings of one digest leave a choice.

`Serve` is `runServe`. `phase` is the part that is built next or a stage after
that; `Build` has one action per part, `Fail` is an error returned from it, with
what was deferred by then. `Catches` says in which phases a signal has a handler;
in the others it ends the process (`Killed`). While the process serves, its policy
is reloaded by the actions of `PolicyReload`. What its handlers do is in `Gateway`,
the warmup loop in `UpstreamManager`.

`Replay` is `runReplayTo`: `ShowEvent` prints, `JudgeEvent` asks an engine of its
own, whose clock (`Elapse`) is that of the replay. `Commands` chooses between
`serve` and `replay` by the first argument. In a recording the calls of a session
are all of one client, except that the event of a caller who was turned away
(`logSessionReject`) names that caller and no tool (`NoTool`): `RecordingsAssumption`.

Loops of the code that append to a list or carry a value along it are folds
(`FoldLeft`). `Folding` has no counterpart in the code; it holds the facts about
folds that the proofs need (section 5).

### Gateway; Gateway_proofs

All handlers from admission to the answer, on top of the other parts: the audit
logger is present as `AuditTrail` (`Trail == INSTANCE AuditTrail`), the policy as
`PolicyRules`; a session may vanish at any lookup (`Sessions` says when); the
limiter and the upstreams may answer anything. `Submit` is the call of `Log` with
the complete event, `LogAccepts`, `LogDrops` and `LogRefuses` its return,
`Reply` everything a handler does after it: bind the session, count the request,
answer. A call goes through `EvaluateAllows`, `Forward` (or `ForwardFails`, when the
gateway is not ready or has no such tool) and `ToolReturns`; between the last two the
handler waits, and anything may happen: a reload, a shutdown, the run of the tool
itself, which is a step of the upstream (`RunTool`) and may come even after the
handler has given up or this process has ended. `FilterTool` is one turn of the loop in `handleToolsList`, which asks the
engine about each tool on its own. The life of the server is `Shutdown`,
`CloseAudit`, `ServerError` and `Exit`. After `CloseAudit` or `ServerError` a
handler that still sends panics on the closed channel (`LogPanics`).

Left out: what the decoder does with bytes (one flag per way to fail), the probe
endpoints, metrics other than the request counter, and requests that open
connections bring after the listener has failed.

## 3. The runs

Each run uses the smallest instance in which all of its interesting cases meet.

| run | instance | shows |
|---|---|---|
| `audit_accounting` | fail_closed, 2 handlers, channel 1, batch 2, 6 events, both retention rules, failing inserts and deletes, no restart | `TypeOK`, `Accounting`, `DroppedIsExact`, `LossBounded`, `ChainIsLinear`, the refinement `TrailSpec` |
| `audit_sequential` | block, 1 handler, channel 1, batch 2, 5 events, both retention rules, failing inserts, deletes, trims and reseals, restarts after Close and after a kill, fair | `LogVerifies`, `TailVerifies`, `AcceptedSettles`, `OperationsReturn` |
| `session_table` | 2 handlers, 2 clients, 3 sessions, room for 2, TTL 3, stall 1, clock to 3 | `MetricsExact`, `CapacityRespected`, `LeaseBounds`, `HandlersApart`, the refinement `LeaseSpec` |
| `upstream` | 2 warmers, 1 caller, 2 workers, 2 upstreams (one changes once, one fails), invalidation, shutdown, fair | `OneRefresh`, `SnapshotsCurrent`, `StableRoutes`, `CacheAdvances`, `BecomesReady`, `WarmupStops` |
| `mcp_client` | 2 calls, limit 1 byte, replies of up to 3, ten forms of reply, fair | `LimitHonest`, the refinement `PromiseSpec`, `CallsReturn` |
| `policy_engine` | 2 handlers, 2 clients, 4 calls, clock to 3, stall 1, two policies swapped at will | `CountExact`, `RateBounded`, `DenialEarned`, `WindowsAdvance` |
| `gateway` | 2 handlers, 2 clients, 3 requests, 1 session, 2 policies, 1 swap, all modes | `AnswersAudited`, `ExecutedLawfully`, `ListingHonest`, `SessionsTraced`, `ClosedLast` |
| `commands` | some 80 configuration files; policy files of up to 2 rules of a menu of 7 at the start, edited with 3 rules while serving; recordings of up to 3 events, 3 policy files, replays of up to 2 ticks; fair | `PolicyMeansFile`, `DoorShut`, `ChecksAgree`, `LogClosed`, `ReplayHonest`, `InterruptEnds`, `ReloadNotLost` |
| `audit_verify_concurrent`, `audit_trim_fail`, `audit_stuck_closed`, `policy_first_match` | | violations, section 7 |

What the properties say is written above each of them in its module.

Why the bounds are enough. *Audit*: six events fill a batch of two and the channel,
let two handlers wait, and leave a good write after a failed one; with a single
handler five events give a batch that fails, one that is trimmed and one that is
linked to what remains. *Sessions*: three sessions for two places force an eviction
while another handler is about to insert; a clock of 3 with TTL 3 lets a session
expire, and one be renewed from a late reading. *Upstream*: two upstreams are
enough for a refresh to fail half way and for a name that both list; a second
version lets a refresh install an older list after a newer one. *Client*: with a
limit of one byte, replies of one, two and three bytes are within the limit, at the
byte the reader may still see, and past it. *Limiter*: with windows of 2 and a
clock of 3 a window is replaced while a handler holds an older reading. *Gateway*:
three requests, so that two run at once under one session; the first has to be the
initialize (before it no request gets past its session). The writer's steps before
`Close` are bounded by 0 there: whether an event is in the queue, in the table or
reported is the same to every property, and `AuditLogger` covers the writer.
*Commands*: one file is in order and every other differs from it in one section,
since no check of the code looks at two sections; the policy files hold an allow and a deny
rule for one tool in both orders, with and without validators; three events are
enough to use up a limit of two, or one of two limits on the same tool. The policy file
may hold any rules of the menu (`Menu`) at the start, and the three of `Additions`
are enough for edits, since a reload forgets all it had.

Deadlock is checked except in `audit_accounting` (a closed logger stops for good,
since no restart is configured), `mcp_client` (all calls return), `gateway` and
`commands` (the process ends).

Two things no run of the audit logger contains. Restarts with two handlers make the
state space too large; `Accounting` and `TrailSpec` are proved for them (section
5). The faults `uuid`, `reload` and `open` are in the model and the proofs only.

## 4. Fairness

*AuditLogger.* Go's `select` picks among ready cases at random, so a case that is
ready again and again is taken: strong fairness for `Receive`, `BatchTick` and
`ChannelClosed`. Store calls return, because their contexts have deadlines, but
nothing says that they succeed: weak fairness for `Flush` and `RunRetention` as
wholes. A goroutine blocked in a send waits in the channel's FIFO queue: strong
fairness for `LogSend`. No fairness for `Stamp`, `Close`, `RetentionTick`,
`Restart` or `LogDrop`: handlers return in block mode even if no context ends.

*UpstreamManager.* Every goroutine is scheduled and a call to an upstream ends
(each has a timeout): weak fairness for `Warm`, `Refresh` and `Serve`, and for
giving up a wait once the server shuts down. Nothing makes an upstream recover:
`BecomesReady` assumes it in its premise.

*MCPClient.* Every call has a timer (`http.Client.Timeout`, which covers the body):
weak fairness for `GiveUp` and `ReadCut`. Nothing makes an upstream answer.

*Commands.* The goroutines of `serve` are scheduled and its calls return: weak
fairness for `Process` (construction, drain and closing; a drain ends because
every handler has a request timeout) and for `ReloadPolicy`. No signal, edit or
failing listener is assumed.

The other specifications state safety only and have no fairness.

## 5. What is proved

For every number of handlers, clients, events, sessions, upstreams, calls and
rules, every capacity, mode and choice of failing calls. The proofs rest on the
named assumptions on the constants in each module (finite sets of goroutines,
positive capacities, lists that are lists), which TLC evaluates on every run, and on
the premises that five theorems state themselves (`Maintained`, `Alone`,
`PlainNames`). The assumptions say of data what its Go type says (a list is a list, a
parsed setting a number: `SettingsAssumption`, `KeysAssumption`,
`GivenFilesAssumption`), that the marks `Nothing` and `NoToken` are not values
(`NothingAssumption`, `KeysAssumption`), that two choices of a run lie in a third
(`MenuAssumption`, `PoliciesAssumption`, `EditedAssumption`), what a recording is
(`RecordingsAssumption`), and what a policy that `compile` has accepted is
(`CompiledAssumption`: rules in a list, limits with a positive measure and window).

**AuditLogger_proofs.** The inductive invariant is
`IInv == TypeOK /\ Accounting /\ DroppedIsExact`. `Accounting` cannot be proved
alone: that a flush moves a whole batch needs the types of queue and rows, that
the count stays exact needs that a lost event was not reported before. One lemma
per action; the actions that only move the writer share `WriterMoves` and
`NothingMoves`. `ResealedFacts` shows that resealing keeps exactly the stamps,
through `RankOnto`, that `Ascending` enumerates a finite set of numbers.

* `TypeCorrect`, `EveryEventAccountedFor`, `DropCountExact`: the three parts.
* `ImplementsTrail`: every step of the logger is a step of `AuditTrail` or
  a stutter. `FlushOk` is `Record` of the whole batch, `FlushFail` `Lose`,
  deletions are `Expire` (for which `OldestFirst` shows that a trimmed chunk is
  older than what stays).
* `LossIsBounded`: `LossBounded` is not inductive. `BudgetInv` bounds what is
  *at risk* in an outage: the events lost so far, the batch, the channel and the
  handlers past the check add up to at most batch + channel + handlers while
  `dbFailed` is set, since no handler passes the check any more.
* `TheChainIsLinear`: `ChainIsLinear` for a logger that is not
  restarted and whose `TrimToSize`, `ResealChain` and reload of the tip do not fail
  (`Maintained`); inserts and deletes may, and requests may overlap at will.
  `ChainInv` says that the rows are one chain until rows are deleted and from the
  reseal on. `ChainGrows` is one more batch, `ResealedIsChain` the chain that
  `ResealChain` writes, `TipOfChain` that `LastHash` finds its tip. The premise is
  needed: with one of those faults the chain breaks (section 8).
* `TheLogVerifies` and `TheTailVerifies`: `LogVerifies` and `TailVerifies` for
  requests that come one at a time and a tip that can be read (`Alone`), across
  restarts and kills, failed writes, deletions, trims and reseals. `Linked` says of
  rows and tip together that every row names the one before it and the next one
  will name the last. A flush keeps it because its batch is later than every row
  (`InTime`: events queue up and become rows in the order of their stamps, for which
  one handler at a time is needed), a deletion because it takes the oldest rows
  (`TrimmedLinks`), a reseal because it writes a chain in that order (`SortedChain`).
  The run `audit_verify_concurrent` shows that two handlers are one too many.

**Sessions_proofs.** `IInv` is the conjunction of the five invariants. That
`BindInsert` respects the capacity needs `HandlersApart` (room is still there);
that the refinement grants a fresh lease needs that ids are not shared;
`LeaseBounds` is what turns "expires first" into "least recently used, within
the slack".

* `TypeCorrect`, `MetricsAreExact`, `CapacityIsRespected`, `ExpiryIsBounded`,
  `HandlersStayApart`: the five parts.
* `ImplementsLease`: `Sessions` implements `SessionLease`.

**Gateway_proofs.** Each of the five properties speaks of what happened to a request
over its life, so the invariant is mostly about what a handler carries: `Apart`
(request numbers and the session ids of running initializes are unique and new),
`Owned` (a handler past `ResolveSession` has a session of its client that was
published), `Recorded` (events and requests agree; an event is held by one handler,
or taken, or refused), `Opened` (each published session's initialize event was
answered by the log), `Known` (the policy in force is among those each running
request has met) and `Handed` (a call that was handed over had a policy that allows it,
a session of its client, and has a handler that waits or an event that was submitted).
`Handed` speaks of every call handed over and not only of those that ran, because a tool
may run at any later time. That a shutdown by signal waits for the handler of a tool
that has run follows from `Handed` and `ClosedLast` together.

* `AnswersAreAudited`, `ExecutionIsLawful`, `ListingIsHonest`,
  `SessionsAreTraced`, `ClosingIsLast`: the five properties of the run.

**UpstreamManager_proofs.** `IInv == Typed /\ Single /\ AllCurrent /\ Ahead`.
`Single` ties the holder of `loading` and of `bgRefresh` to the goroutine that is
at work; without it a second refresh could overwrite what the first found.
`AllCurrent` follows the lists from the moment they are fetched to the cache and to
the caller that still holds it, and `Ahead` says that a refresh at work has nothing
older than the cache.

* `TypeCorrect`, `RefreshesAreSingle`, `SnapshotsAreCurrent`, `RoutesAreStable`,
  `TheCacheAdvances`.

**MCPClient_proofs.** `IInv == TypeOK /\ RunsOnce /\ ResultsOwned`. That a call
returns its own result rests on ids that no two calls share, and that a call runs
at most once on a request that leaves the wire when it runs.

* `TypeCorrect`: types, and that the two metrics count the rejected responses.
* `ImplementsPromise`: `MCPClient` implements `UpstreamCall`.
* `TheLimitIsHonest`: `LimitHonest`, for every limit and length (`Measured`: the
  lengths of a reply are in order).

**PolicyEngine_proofs.** `IInv` is `TypeOK`, finitely many tokens, `JobsTyped`,
`GrantsPast` (no token is from a window later than its bucket's) and `CountExact`.
A window that opens is later than every window its bucket had, so no token counts
in it yet; a token given is a new one, because it is numbered among the tokens of
its instant. `LimitsInOrder` says what the limits are that a handler has to ask, by the
facts of `Folding` on the loop that gathers them.

* `TypeCorrect`, `CountIsExact`, `WindowsOnlyAdvance`.
* `DenialIsEarned`: only for names without a colon, which it states as its premise,
  since `KeyOf` maps different names with colons to one bucket (section 8).
* `RateIsBounded`: two windows of one bucket start at least the shortest window
  apart and no token is given for a window more than `MaxStall` after the next one
  has begun (`Spaced`), and no window gives more than the most generous limit
  (`Filled`); so a stretch of time touches two windows at most.

**Folding.** What a fold computes, for every list. The library defines `FoldLeft` by
recursion over sets of positions, and its induction theorems cannot be used here.
`UpTo` gives induction over `0..n` for a *set* of numbers instead of a predicate; it rests
on `LargestOne`, which takes from the theorem on well-founded sets of finite sets that
some of the numbers is the largest. With it `FoldSteps` shows that a fold has one value
before each element, each made of the one before, and `Gathered` what a loop gathers
that appends some of the elements: those, in their order, each once. The operator that
is folded is a constant of the module, so each use is an `INSTANCE`.

**Commands_proofs.**

* `TheLogIsClosed`: no logger exists before its phase, and from then on every return
  leads through the deferred `Close` (`LogInv`), until which the database stays open.
* `TheDoorIsShut`: the door is one `NewAPIKeyAuthenticator` may build for the keys of
  the file (`DoorInv`), and `BuiltDoorIsShut` follows a token back through both maps
  to a key of the file; of the entries with one hash the last one counts.
* `TheChecksAgree`: from the moment a file is loaded `runtime` is what `BuildRuntime`
  makes of a valid file (`RuntimeInv`), and the four constructors that check its limits
  again accept that (`AllAccept`). What the authenticator, the policy loader and the
  audit logger check is checked there only, and is no part of the theorem.
  `StrictestShared` says of the loop over the upstreams that its minimum is at most,
  and one of, what the upstreams ask for, so what they share is the strictest limit.
* `ThePolicyMeansItsFile`: the engine's policy was compiled from the file in
  `swapped` (`PolicyInv`: also while a new one is being read). `CompiledRules` shows
  that `compile` keeps the allow and the deny rules, in order, and
  `AllowedMeansPermitted` that `evaluate` over both lists permits what the file,
  read rule by rule, permits.
* `TheReplayIsHonest`: that the check is never ahead of the live engine cannot be said
  of one bucket. Live windows rotate and those of a quick check do not, so a count may
  be lower live than in the check. But a call that the check refuses is not counted in the
  limits after the one that refused it, and live, where that one has rotated, it is; so
  a count may also be higher. `CheckInv` says for each call of
  the session: while the check is quick, either some limit on its tool is used up
  in the check (`Blocked`), and stays so, or no limit on it counts more live than in the
  check (`Below`). `OneVerdict` is the step, by the sequence of limits one call asks
  (`AsksAnyhow`, `AsksQuickly`). The premise keeps rules, tools and clients from sharing
  buckets; it also says that no rule is about the tool with the empty name, for under such
  a rule callers who were turned away would count in the session.

## 6. What is only model-checked, and what is not modelled

Only model-checked. All liveness (`AcceptedSettles`, `OperationsReturn`, `BecomesReady`,
`WarmupStops`, `CallsReturn`, `InterruptEnds`, `ReloadNotLost`), which is out of the
prover's reach, as is `ENABLED`. Every invariant, every action property and every
refinement of a passing run is proved. What the premises of five theorems
exclude (names with colons, a rule about a tool without a name, failing maintenance,
overlapping requests) is where the code does not keep these properties: sections 7 and 8.

Not modelled, and why:

* *Audit export* writes every row since an instant as JSON. It changes nothing, and
  a scan is one SQL statement.
* *stdout and no-op loggers*: when they are chosen is in `Configuration`. The stdout
  logger hands its events to one goroutine over a channel of 256 and drops them
  silently when it is full; the no-op logger does nothing.
* *Metrics*: the Prometheus library. The counters that parts keep right (session
  gauge and evictions, dropped events, requests, refused responses) are state of
  those parts.
* *Command line*: `validate-policy`, `validate-upstream` and `audit verify` call
  functions that are modelled (`compile`; `BuildRuntime`, `Warmup`, `ToolsList`;
  `VerifyChain`) and print what they return.
* *Stub upstream manager*, *message types*, *mock upstream*: constants, data types
  and an example server.
* Reading of files, environment variables, YAML and JSON decoding are one flag each;
  HTTP redirects, which the client of the standard library follows, are left out.

## 7. Disagreements between the code and its documentation

* `audit_verify_concurrent`: two overlapping requests and no failure give a log
  that `audit verify` rejects. The chain is linked in the order in which events
  reach the writer, but verified in the order of time stamps taken before the
  upstream call; the comment on `VerifyChain` says insertion order.
* `audit_trim_fail`: when `TrimToSize` fails after its first chunk, rows are gone
  and the chain is not resealed, against the comment on `runRetention`.
* `audit_stuck_closed`: in fail_closed mode a failed write of the last queued
  event closes the gate for good, since `Log` refuses before it enqueues and
  only a successful write clears `dbFailed`. A test's comment promises recovery.
* `policy_first_match`: the README says "First match wins"; the code asks all
  deny rules before all allow rules, and every allow rule that covers the tool.

## 8. Known limits of the code that the models show

*Audit.*

* A kill, or a failing `ResealChain`, between the deletion of rows and the reseal
  leaves a log that does not verify until a later retention pass deletes something;
  `TailVerifies` says that only the first link is broken. `audit verify` run against
  a live server in between fails the same way.
* After a restart the tip is the row with the latest time stamp, not the last one
  inserted. With overlapping requests the chain then forks; `ChainIsLinear` holds
  within one process. A tip that cannot be read again after a reseal, or at the
  start, breaks the chain in the middle.
* In fail_closed mode the tool has run before `Log` can refuse the event.
  `ExecutedLawfully` therefore promises an event that was *submitted*, not one that
  was written; the caller is told "audit logging failed" and may repeat a call that
  has run.
* While a handler waits for its upstream the tool may already have run. A shutdown by
  signal waits for that handler; when the listener fails the process ends at once, and
  the tool may have run without any event. A tool may also run after its handler has
  logged an error.
* Calls without a tool name are not logged; requests rejected for their session are
  logged as denials.

*Sessions, policy, limiter.*

* A lookup renews a session before it compares the client, so a request that is
  refused keeps another client's session alive. `SessionLease` says so in `Use`.
* The fixed window admits up to twice its limit around a window's edge
  (`RateBounded`), and `RetryAfterMs` is the whole window and not the time until
  it ends. Names that hold colons can share a bucket.
* `requests_total` counts successful lists and calls and denials, not errors,
  initializations or refused requests (`CountsAgree`, a part of `AnswersAudited`).
* README.md:74-79 lists the rate limit before the allow list and the deny rules; the
  code takes a token only after both.
* A policy check of a recorded session judges it as one burst: a session that spans
  many windows shows denials it never met, where README.md:399 promises the calls
  "the new policy would have blocked".
  `ReplayHonest` promises the other direction only.

*Upstreams.*

* A reply whose object fits but whose trailing blanks pass `max_response_bytes` is
  accepted or refused depending on the chunks in which it arrives, and what follows
  one byte past the limit is never seen. `LimitHonest` leaves this range open.
* A body that times out counts as a protocol error. `"result": null` is a result.
* A configuration without upstreams gives a manager that is ready with no tools.

*Configuration and life cycle.*

* A comment (config.go:39) calls `none`, which accepts all requests, the default of
  `auth.type`; `buildAuth` refuses an empty type, and `none` without
  `insecure_allow_anonymous`, which neither the full reference in the README nor
  `examples/config.yaml` sets: neither of them starts. An omitted `audit.write.mode`
  does not start either.
* README.md:202 says that explicit durations must be greater than zero; a
  `batch_max_delay` of 0 or less is accepted and panics the writer goroutine
  (`WriterPanics`); one that cannot be parsed becomes 100 ms. A negative
  `vacuum_interval` switches retention off.
* The default `write_timeout` (30 s) is shorter than the default `request_timeout`
  (60 s), so a slow call is cut off before its own timeout.
* Key hashes that cannot be decoded are skipped without a word; of two spellings of
  one digest either client may be the one that counts (`KeyTables`).
* SIGHUP while the server is being built or drained, and SIGINT while the log is being
  closed (the deferred `stop` of `NotifyContext` runs before the deferred `Close`),
  end the process without closing the log (`Killed`; `LogClosed` speaks of a
  process that returns).
* When the listener fails the log is closed at once, while handlers may still be
  running and log (`LogPanics`); `ClosedLast` speaks of shutdown by signal, and
  `LogClosed` of the database and not of who uses it.

## 9. Plan

What the plan of this project named is modelled, and its safety properties are proved.
What is left, in this order:

1. `ChainIsLinear` per process, for a logger that is restarted.
2. The drain of the stdout logger on `Close`, and export against a retention pass
   that runs at the same time.
