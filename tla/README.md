# A verification of ps2Api

ps2Api is a gateway: OpenAI, Anthropic and Responses clients on one side, a pool
of Postman AI accounts on the other. A client sends its whole message list each
time; the gateway finds the server-side conversation that list continues, picks
the account that owns it or another one, calls it, and retries on the same or
the next account until the request is delivered or its budget is spent. Several
requests run at once, on one table of accounts, one pool and one conversation
store, next to background jobs and an operator's dashboard.

This directory models that core and the parts around it that keep state (the
account jobs, the HTTP/2 client, the answer stream, keys and cache, the Redis
store, the toolsets path, the WAF probe) in TLA+, checks them with TLC on small
instances and proves, with TLAPS and for every instance, every safety property those runs check.

Paths below are relative to the repository's `internal/` unless they say otherwise.

## 1. Inventory

| component | state it keeps | operations | what makes it correct |
|---|---|---|---|
| account table (`store/store.go`) | SQLite rows: status, enabled, last use, plan, quota, cycle | single-statement reads and updates, one connection | writers that read first do not undo one another |
| account pool (`pool/pool.go`) | `last`, `inFlight`, `gatewayCooldown`, `reservedUntil` under one lock | `Next`, `Done`, `Reserve`, `MarkGatewayBlocked`, status writers | counters equal the calls in flight; rounds and tie-breaks are respected on stale listings |
| retry loop (`router/route_loop.go`, `account.go`) | per request: attempt, bound, excluded set, pinned account, egress number | select, call, synchronise, branch on the result | ends; never answers twice; a dead account costs no attempt; a continuation stays with its session |
| conversation continuation (`provider/conversation.go`, `convstore.go`, `seed.go`, ends of `postman.go`) | (account, prefix) -> conversation, prefix -> account, tool call -> group | look up, remember, invalidate, seed | no conversation crosses accounts or clients; a corrupt one is not used again |
| quota refresh (`router/billing_refresh.go`, `quota_probe.go`, `observability.go`) | debounce table, rows | schedule, ping, fetch, write status and snapshot, refill the cycle | one refresh per mark, marks are released; nothing but a hand switches an account on |
| trial extension and daily jobs (`trial_extend.go`, `free_cleanup.go`, `log_cleanup.go`, `model_refresh.go`) | none of their own | scan and act on rows, look at a slot and start it | no base trial is cut short, no count goes back, deletions leave no mark behind |
| API keys (`api/apikeys.go`, `middleware.go`) | slots per key, usage in the table | resolve, admit, check, charge, release; create, edit, delete, expire | counters are the holders; the overrun of a quota is bounded |
| response cache (`router/cache.go`, `cache_probe.go`) | LRU list and map with expiry, counters of the probe | get, put | nothing stale or foreign is replayed |
| HTTP/2 client (`tlsfp/h2client.go`, `roundtripper.go`) | stream table, windows, GOAWAY flag; the pooled connection of an authority | open a stream, write, read, one reader goroutine; look up, dial, store, drop, retry | windows hold, streams do not leak, sleepers are woken, no reset reads as a complete body; a request is written at most once |
| stream reader and simulated tools (`provider/sse.go`, `toolsim.go`, ends of `postman.go`, `router/stream.go`) | flags, tool numbers, partial markers held back | feed, split, finish, try again | the client reads what the single answer would say, and the end it is told is true |
| streaming front ends (`api/openai.go`, `anthropic.go`, `responses_stream.go`) | open items, indexes | one Delta at a time, end, failure | every item closes once, in turn |
| Redis store (`provider/redisstore.go`) | conversations, owners and an index of owners, with TTLs | as the in-memory store, in separate commands that may fail | a sweep removes what it should and spares the rest |
| toolsets path (`api/toolsets*.go`, `provider/toolsets.go`) | a table of rewritten tool names shared by all | pick, rewrite, post with retries, relay | one answer or one error; no account twice; the client sees its own tool names |
| WAF probe (`api/waf_probe.go`) | the current job | start, status, abort; control, leaves, bisection | one request at a time; what is concluded is true |
| request parsing, vision, WAF rewriting, TLS profiles, dashboard | little or none | translation and I/O | see section 7 |

How they meet. A handler calls `Router.Chat` or `Stream`. `runAttempts` asks
`selectAccount`, which consults the pinned account, then `Provider.StickyAccount`,
then `Pool.Next`; `Pool.Next` reads the table *before* it takes its lock. The
provider's `Chat`/`StreamChat` looks the conversation up, perhaps seeds a new one,
streams, and records the outcome in the store; the loop returns the slot, writes
quota and status to the table from the row *it read at selection*, and branches.
Billing refreshes, daily jobs and the dashboard write the same rows.

What is hard here: rows and listings that are stale when used, two store writes
that readers see half done, a loop whose bound grows while it runs, results that
may come after output was flushed, restarts that empty memory while clients keep
their histories, answers that reach the upstream's memory but not the client, goroutines
that hold a row another one deletes, a connection shared by calls that end for different
reasons at once, and text that is cut in the middle of what must not be shown.
`PROJECT.json` lists each such hazard at its line.

## 2. Modules

```
AccountStore            the rows and their UPDATE statements
  QuotaWrites           what a call's quota and usage state do to a row
  Pool                  the pool's state, one operator per method
    PoolClients         concurrent callers: list | take | return | report
    RouteLoop           (with QuotaWrites) the retry loop: select | call | synchronise | branch
  AccountJobs           (with QuotaWrites) refreshes, probes, trials, clean-up, the operator
Conversation            lookup, remember, invalidate, seed; clients and upstream
RedisStore              the same store as commands on a server several gateways share
FrontEnds               the three streaming protocols, as operators on a front end's state
  AnswerStream          reader, hold-back, last Deltas, retry, on top of a front end
H2Conn                  one HTTP/2 connection
H2Pool                  the pooled connection of an authority; implements OneSend
OneSend                 abstract: a request is written at most once and has one end
ApiKeys  ResponseCache  rows and slots; list and expiry
  Gateway               a request from the door to the answer, over both
Toolsets                the pass-through with its own rounds, retries and name table
WafProbe                the bisection job
```

`MC*.tla` give constants their values. `*_proofs.tla` hold theorems.

**AccountStore** reduces a row to what decisions read. Quota is `unknown`
(limit <= 0), `left` or `spent`; the plan is its prefix; each SQL statement is an
operator on the table, so a handler that issues several composes them in one
expression or spreads them over actions, as the code's interleaving points demand.

**Pool** is `pool.go`. Every method holds the mutex from start to end and is one step.
The argument `view` is the slice `ActiveAccounts` returned. `PickIndex` states
the scan without a loop: `IsBestOf` is the minimum of the order `Better` with the
rotation as tie-break, and `StopsAt` is the early break, so the chosen account is
the best of the scanned prefix that ends at the first stop. Deadlines become the
set of accounts whose window is open; the clock closes one at a time.

**PoolClients** adds the window between the listing and the lock. Requests pair
`Next` with `Done`. Borrowers are the callers in the code that do not
(`model_refresh.go`, `api.go` `refreshModels`, `toolsets.go`).

**RouteLoop** is `runAttempts`. Its four steps per turn are the points where other
goroutines can act: after selection, after the call, after the synchronisation,
after the branch. A branch is guarded by its place in the code's order, so the order of
the checks (`BLOCKED` before quota, `MarkTransient` before `abort` in one branch
and after it in others) is part of the model. The upstream's result is
nondeterministic over `Result`, which pairs a kind with the usage states the
reader can produce with it (`sse.go` ends the stream at `EXCEEDED`, `UNAVAILABLE`
and `BLOCKED`, so these come with the quota kind or with a client that is gone).
`dead` and `changes` are history variables; no guard of the loop reads
`dead`, and `changes` only bounds the environment. `persistQuota`, `applyUsageState` and
`markOffline` are in **QuotaWrites**, because the jobs call them too.

**AccountJobs** is everything else that writes account rows. A task is a goroutine with the
row it read when it began (`seen`), its program counter and what the upstream last told it
(`got`). A step is one answer of the upstream or one re-read of the store, with the writes
that follow at once, so that every other goroutine, the operator (add, import, toggle,
delete) and the upstream itself (quota turns, trials age) can act in between. Chats enter as
what `runAttempts` does around them: they are marked used, report usage and schedule the
debounced refresh, which sleeps in `wait`. The 22:00 and 23:10 jobs, the panel's refresh
and `ProbeQuotas` start tasks from a queue, as their loops do. `Restarts` loses tasks, queue
and debounce table and keeps the rows.

**Conversation** is about prefixes. A fingerprint is taken to be the prefix itself, as far as
`conversationFingerprint` sees it: role, text and the ids of tool calls. So a plain reply is its text, and the replies of two
conversations are the same message when they say the same (`PlainReply`); a reply that calls a tool carries an id the upstream
made up for it (`CallingReply`). Normalisation and hash collisions are left out. A client's history is a sequence of messages; an assistant message it returns is `exact` or
reshaped, which is what decides whether the longer of the two remembered keys
will match. The store's maps are functions, each `Put` a step. `Fail` performs the
invalidation, and what `RememberConversation` has to write afterwards is the queue
`todo`, so that its four writes interleave with other calls. Chat returns on an
error before it remembers; StreamChat does not. The upstream (external) keeps for each conversation
its account, its users, the tool calls it waits for and whether it is corrupt.
`told` and `forgotten` are history variables.

**RedisStore** has the operations of Conversation's store at the grain of Redis' commands:
a put of an owner is two writes, a reset is SMEMBERS, a GET per fingerprint, a DEL, and a
scan; an invalidation scans, reads and deletes. A command that fails is logged and the operation goes on as the code does
(`Stumbles`): a failed SCAN or DEL ends the scan but not the reset, a failed GET of an owner spares the owner while the index goes all the
same, only a failed SMEMBERS returns. An operation ends where it is with its process, or when the pipeline of a put breaks (`Breaks`).
Any key may expire, and several instances run at once. `torn` (what an index has missed), `old*`, `mine`, `hurt` and `failed` are history.

**H2Conn** has four kinds of goroutine: callers (`Reserves`, `WritesHeaders`, the select of
`roundTrip`, the body's `Read` and `Close`), body writers, the deadline, and the read loop. The
loop is the peer: each of its actions is a frame the peer may legally send then, and while
it holds DATA nobody has taken (`loop`) it can do nothing else, as `io.Pipe` makes it. The
select of `roundTrip` is the choice among the actions that are enabled together. A caller that has the body is `holding` it until it calls
`Read` (`AsksMore`) or `Close`; what it does in between, such as writing to its own client, is not the connection's affair and may take for ever.
`mu` and `wmu` are two locks, and what the code does under one and then the other is two steps: an id is reserved
and its HEADERS go out; a chunk is charged to the windows (`Debits`) and its DATA goes out (`WritesData`, `hand` in between); SETTINGS are
applied and acknowledged (`Acks`, the loop being `AckDue`). Any write may fail on a connection nobody has yet seen closed. `sent`, `sentAll`, the
`granted`, `peerWin` (what the peer must allow for: the larger window until it has the ACK) and `overtaken` (chunks charged before the last ACK and not yet
written) are history.

**H2Pool** is one authority of the round tripper. `on` and `kept` are pointers that outlive what
they point to; `onClose` is set when a connection is stored and not before, so a connection
that ends in between is stored dead and must be found so. **OneSend** is what a caller that is
charged by the call expects; `WrittenOnce` is its specification under a refinement mapping.

**FrontEnds** gives each protocol the same vocabulary: an item is opened (`add`), grows
and is closed (`stop`); what differs is who closes what when (`BeforeTool`, `BlocksAtThinking`,
`Deferred`, `CloseAll`, `Failed`). `written` is the list of events the client has read.
The `error` end of Messages stands for its `error` event and the `message_stop` after it.

**AnswerStream** feeds a reader. Text is a sequence of pieces, cut where a model may cut it:
prose, the start of a tool marker, and the two ways the marker may go on. `SafeLength` is
`splitStreamSafe`: everything before the first position that may still become a marker.
`received` and `fragments` are history: what the upstream said in this attempt. `cut` says whether a read failed, before the end of its
context (an error) or after it: then `streamInternal` does not look at the error (`stream.go:256`) and judges what it has like a whole answer.

**ApiKeys**, **ResponseCache** and **Gateway**: a request passes `traceChat` (resolve the key, take
a slot), `auth` (resolve again and check the quota), the probe, the cache, the upstream, the
charge and the release. Each is a step; the dashboard acts between any two. The upstream is
one step with any cost. A released slot is found by the key's id alone, whether or not one was taken. The cache has both of the code's structures, the
list of keys and the index, which `get` and `put` change separately; `latest` is history.

**Toolsets**: `nameMap` is the one table of all requests, written with the tools a request declares and with those its history names; a tool has a clean
form, two tools may have the same. **WafProbe**: the firewall is a set of lines per leaf that trip it together, and in
bad weather any request may fail; a job that was told to stop goes on until it looks.

## 3. Runs

| run | instance | question |
|---|---|---|
| `pool` | 3 accounts (one solo-trial, one perhaps never used), 2 requests, 1 borrower | do counters drift; do stale listings break rounds or tie-breaks |
| `route` | 1 streaming continuation, 3 accounts, all results, 1 environment step | every path through the loop, and that it ends |
| `route_shared` | 2 requests, 2 accounts, the six results that write shared state | slots, budget and dead accounts under interference |
| `conversation` | Chat and StreamChat clients with the same opening and the same replies, 2 accounts, 2 conversations, 3 messages, 1 event | isolation between accounts and clients, owner and mapping in step |
| `jobs` | 1 account, 2 triggered and 2 spawned tasks, 3 events | what concurrent refreshes, trials, clean-up and edits do to one row, and that marks are released |
| `transport` | 2 calls with bodies of 1 unit, windows 0, 1 and 2, 2 frames of the peer; 3 requests on 2 connections | windows, leaks, clean ends; who may keep a body writer or the read loop waiting; written at most once |
| `services` | five parts, each on its own, one of them twice (below) | one question for each part |
| `in_flight_leak`, `preferred_plan`, `transient_revives`, `corrupt_resent`, `invalidate_healthy` | as small as shows it | the five findings of section 6 |

Why the bounds are enough to be interesting.

* `pool`: three accounts are the fewest for which the rotation's start, the early
  break and a better account behind it are three different places. Two requests
  make a listing stale; one borrower makes a slot that never returns.
  `RunsOut`/`Refreshed`/`Failed` change one account's row and `Blocked` cools another.
  A request has excluded nothing yet, or the two accounts it failed on before: with the third
  gone from the listing it is refused (`NoAccountsError`).
* `route`: with `RetryCount = 2` and three accounts a request meets two dead
  accounts, the gateway retry and a second failure within one life, in any order.
  The one environment step may be an operator's toggle, a refresh or a window that closes.
* `route_shared`: two requests on two accounts, one of them the continuation's owner; both kinds of death,
  exhaustion, an upstream failure, the gateway retry and success. `MaxChanges = 0`, because
  `DeadStaysOut` is about what requests do to each other; `BudgetExact` and
  `SlotsMatchCalls` are proved with any number of changes.
* `conversation`: three messages are a user message, a reply and a follow-up or tool result,
  the shortest history that can be continued. `SeedThreshold` is 3 in place of 7 so that
  such a history is long enough to be seeded. Two conversations are one for each client, or two for
  one of them after it changed account. `MaxEvents` allows one restart, account drop-out
  or lost answer. All plain replies say the same (`Texts` has one member), so that nothing but the id of a call tells the clients apart. The streaming client calls tools without groups and returns
  results as Anthropic blocks; the other one uses groups and native tool responses.

* `jobs`: one account, because no step of the code relates two; two tasks of each kind are two
  starters between each other's look and start, or a refresh that outlives its mark. Its plan is free at first, or
  `FREE_USER`, the value of an earlier bug that the clean-up still looks for. Three events
  are enough for a chat, a restart or deletion, and a second chat; or for a trial that turns between two starters.
* `transport` joins two modules that share no variable: a behaviour is one of either (`level`). Two bodies
  on a connection window of one unit make the writers wait for one another; the stream window begins at 2, SETTINGS lower it to 0, below what was sent or is in a
  writer's hand, and raise it again. `MaxFrames = 2` bounds the frames the peer sends: headers and data, headers and a reset, two SETTINGS, a WINDOW_UPDATE for the second body. Three requests and two connections are a live connection,
  its replacement and a late drop of the first. Longer bodies, other windows and more frames are the matter of the proofs, which have no bounds.
* `services` joins five modules in the same way (`part`). *answer*: four events and two attempts allow a marker cut in
  the middle after thinking and before a failure, and the attempt after it, in all three protocols; the three ids are a function, a custom tool
and a translated call whose arguments cannot be parsed, which differ in when and how their arguments are shown. *gateway*: one
  key with limit 0 or 1 and quota 1, two requests, one edit; answers of two prices, the dearer one above the quota. *cache*: the gateway once more, without a key and with three requests: one stores, another replays or
  stores again, a third finds out; one entry makes the second fingerprint evict the first, and with TTL 1 an entry lives one tick and is gone after the second. The three are
  interchangeable and do not move in the other parts, so they are permuted (`ServicesSymmetry`). *probe*: two leaves of one and two lines, two jobs, two repetitions. *redis*: two instances, two accounts,
  two fingerprints, two puts and one sweep, in which any command may fail. *toolsets*: two requests whose tools differ, one of which is renamed on its way out, and
  a history that names two tools with one clean form; two accounts, three rounds, two posts.

`CHECK_DEADLOCK FALSE` stands in `MCRouteLoop*.cfg`, where every request finishes, in
the Conversation instances, where histories reach `MaxMessages`, and in the runs of the transport and the services, where calls, jobs, visits
and operations end.

Properties, by the question they answer:

* *Resources.* `InFlightAccounted`, `SlotsMatchCalls`: a slot is returned exactly once on
  each of a dozen ways out, and only by calls that took one.
* *Choice.* `RoundsRespected`, `BestOfItsPlan`: judged on the caller's own listing.
* *Budget and termination.* `BudgetExact`, `FailedOnTheLiving`, `EveryRequestEnds`.
* *Output and sessions.* `NoTurnAfterOutput`, `ContinuationStays`.
* *Interference.* `DeadStaysOut`: stale snapshots cannot switch a dead account on.
* *Isolation.* `NoForeignConversation`, `CallsTellApart` (from the first tool call on; before it clients with the same words and the same replies are one, section 6), `OwnerHasConversation`, `SweepsAreExact`.
* *Jobs.* `OneRefreshWhilePending`, `PendingEnds` (a mark is held by exactly one task and released), `BaseNotCutShort`,
  `CountNeverFalls`, `JobsSwitchNothingOn`.
* *Transport.* `WithinWindows`, `NoStreamLeak`, `CleanEnd`, `WriterFollowsItsCall`, `LoopMovesOn`; `WrittenOnce`, `UsableStaysPooled`.
* *Answers.* `ClientSeesTheAnswer` compares what the client read with a reference definition, the non-streaming answer to the same
  events (`ChatText`, `ChatCalls`); `WellFormed` parses the events against the protocol; `ToolsetsAnswer`.
* *Admission and cache.* `SlotsAreHolders`, `OverrunBounded`; `ReplayIsFresh` compares a replay with a history of what was stored last.
* *Probe.* `DoneIsTrue`, `OneProbeAtATime`.

Next to some definitions stands a mutant: the same definition with a bug someone could have written. Each property
is violated by at least one of them. A property with several parts has several; besides those
`PROJECT.json` lists, `CompleteOnly`, `LastIdNone`, `WholeWithoutOutput` and `FailedAsDone` violate `ClientSeesTheAnswer`,
`BlocksAtThinkingKept` violates `WellFormed`, `ExcludedNone` and `MayTurnAlways` `ToolsetsAnswer`,
`DropAny` `UsableStaysPooled` and `AllIndexed` `SweepsAreExact`.

## 4. Fairness

What bounds an upstream call in the code is its context, and the context is looked at until the response headers only: after them the body's `Read` is a pipe
read (`h2client.go:622`), the client has no timeout (`postman.go:24`), and the server sets no write timeout on what it sends its own clients (`main.go:60`).
So a silent upstream, or a client that has stopped reading, may hold a call for ever, and no fairness here says that an upstream call returns.

`RouteLoop` assumes weak fairness of a request's own steps (`OwnStep`: selecting, synchronising, branching), which is the scheduler's: the pool's lock and the
store's connection are held for one method at a time, and no request waits for another. The call's return is not among them. `EveryRequestEnds` therefore says: a request ends
unless one of its calls stays under way for ever; retries, free turns and the gateway retry cannot keep it going.

`AccountJobs` likewise assumes weak fairness of what a task does by itself (`time.Sleep` ends, the store answers, the semaphores of the
loops are taken before a task begins) and nothing of the upstream's answers. `PendingEnds` says that a mark is released, restarts or not, unless a billing call of its account
never returns (`AsksBilling`); a call that hangs in its body keeps the mark until the next restart.

`H2Conn` assumes weak fairness of what `roundTrip` and a `Read` under way do by themselves (the deadline passes, a ready case is taken), of the body writers, of the loop's ACK, and of the loop that must give
up on a pipe that was closed. A write on the TCP connection is taken to return, with an error if need be; no deadline is set on it, so this is an assumption about the
network. The peer owes nothing, and neither does a caller that has a body: it may stay `holding` for ever. `WriterFollowsItsCall` holds all the same; `LoopMovesOn` says that the loop is
stuck with a call only while that caller is busy elsewhere, which is what a slow client does to all the streams of the connection.

Nothing is assumed of the operator, of upstream changes, of failures or of the clock. The other modules state safety only.

## 5. Proofs

All constants are arbitrary: any finite set of accounts (naturals, since listings are ordered by id), any finite set of callers or
clients, any number of gateways, tools, leaves and lines, any settings and bounds. The assumptions are the named ones of the modules
(`AccountsAssumption`, `CallersAssumption`, `RouteAssumption`, `ConversationAssumption`, `JobsAssumption`, `H2Assumption`, `H2PoolAssumption`,
`RedisAssumption`, `ToolsetsAssumption`, `ProbeAssumption`, `KeysAssumption`, `CacheAssumption`, `GatewayAssumption`, `AnswerAssumption`), which TLC evaluates in the runs.

Every proof has the same frame: an inductive invariant, one lemma for each action that can disturb it, and the
property from the invariant, by a temporal step. What follows says what each invariant adds to its property, and why.

`Pool_proofs` has lemmas about the pool's operators: the store's writes keep the
table's type, an index is below the listing's length, the best of a set is unique, and
whatever `PickIndex` returns is unbeaten within its plan *even when the scan stops early*
(`PickUnbeaten`).

`PoolClients_proofs`:

* `TypeCorrect`, `CountersExact`: `InFlightAccounted` is inductive together with the type
  invariant. The heart is that `Take` adds the caller to exactly one account's holders and `Return`
  removes it from exactly one, so `Done`'s clamp at zero is never reached with a call in flight.
* `RoundsAlwaysRespected`, `AlwaysBestOfItsPlan`: action properties, from the type invariant and `PickUnbeaten`;
  every step that gives an account out is a `Take`.

`RouteLoop_proofs`:

* `TypeCorrect`, `SlotsAlwaysMatch`: as above, with calls that bypass the pool.
* `BudgetAlwaysExact`, `AlwaysFailsOnTheLiving`, `TurnsAlwaysBounded`: neither of the first two is inductive. `InBudget`
  adds that a request that has not finished has no verdict and has turns left; it is proved request by request
  (`Budget(r)`), with one lemma for the way a turn continues and one for each way the bound grows: an account
  joins `dead` only if it was not excluded, hence was not in it, so the cardinality grows
  by exactly the one the bound grows by. `TurnsAlwaysBounded` concludes that a request takes at most
  attempts + accounts + 1 turns: the safety half of termination, for every instance.
* `DeadAlwaysStayOut`: `OutOfReach` adds that a snapshot in use was read of an enabled account, and that
  after the synchronisation of a `BLOCKED` result the row is disabled. Since
  snapshots are of enabled rows, `EnabledUnless(.., TRUE)` never writes: that is why no late
  `AVAILABLE` revives an account.
* `NeverTurnsAfterOutput`: `OutputSettles` adds that no call is under way either once output was flushed; a branch that could
  go on asks `emitted` first, and only a returning call sets it.
* `ContinuationsAlwaysStay`: `StaysPut` adds that the account of a call under way is not excluded, and that a continuation which
  selects after a failure the account is not to blame for has it pinned and not excluded: then `SelectPinned` is the only selection.

`Conversation_proofs`:

* `SpecTypeOK`, `SpecNoForeignConversation`: `Phases` relates how far a call is to what it holds (a call that still stores has a
  conversation, and nothing else has anything to store), `Own` says that the conversation of a call's result is its account's and that the
  client is in it. `ConvOwn`, the store's half of the property, needs both, since the writer pairs its account with its result's conversation one step at a time.
* `SpecOwnerHasConversation`: `HalfDone` is what holds between the two writes of `setConversationID`. The first write may already have been undone
  by another call's invalidation, which is why the invariant allows `forgotten` in its place.
* `SpecCallsTellApart`: an action property that no invariant of the protocol's state alone gives. `Marks` are the ids of tool calls in a list of
  messages. A call's id is new when it arrives (`MarksMinted`), so no two clients share one (`MarksApart`), what a call has still to store has marks of its
  own client only (`MarksKept`), and hence a key of the store with a client's mark leads to a conversation the client is in (`MarksLead`). User messages and plain
  replies have no mark, which is exactly the case the property leaves out. `LookupConversation` takes the longest match: `MaxIsGreatest`.

`AccountJobs_proofs`: a task acts on a row it read some steps ago, so an invariant about rows alone is not inductive. `Fit(up, x)` says what a task's
snapshot is still worth, in terms of what the upstream never takes back: an extension once opened, a base trial once in its last hour.

* `SpecOneRefreshWhilePending`: `RefreshInv` states the property without a cardinality (some refresh, only while marked, no two), which
  each step preserves or moves to another task; the count of one follows at the end.
* `SpecBaseNotCutShort`: a task that is about to start a trial has seen the base trial in its last hour or later, and trials only age.
* `SpecCountNeverFalls`: a task that writes a slot it found unused had read a count of zero itself, and who writes a count of one
  has seen the slot used; `Counts` is the table's half.
* `SpecJobsSwitchNothingOn`: a task that may switch an account on by its answer has read the row as enabled, except those started by hand.

`Transport_proofs` (connection, pool, and both together):

* `H2Inv` is the types plus what relates the table to the streams: nothing exists of a call before it has an id
  (`Untouched`), a finished stream is out of the table of a live connection (`FinishedIsOut`), and a pipe that was closed with end of
  file, or the last DATA on its way to it, is of a stream the peer ended (`EndedByPeer`). `NoStreamLeak` is not inductive alone, because
  the caller may leave on a flag another goroutine set, nor is `CleanEnd`, because the reader sees what the read loop left in the pipe
  earlier. From it `H2TypesCorrect`, `StreamsNeverLeak`, `EndsAlwaysClean`.
* `AlwaysWithinWindows`: `WinInv` says what the two windows the code keeps *are*: what the peer allowed minus what was charged, written or not. For the connection that is `sentAll` and
  the chunks charged and not yet written by all writers together; for each stream in the table, what the peer allows (`peerWin`) or is about to (an ACK is due). It would not hold of a stream
  that left the table, which later SETTINGS no longer shift; so it adds that a writer whose stream is out of the table charges nothing more. `HandAllowed` is the point: what is in a writer's hand was allowed when it was charged, and
  still is unless an ACK has overtaken it. The connection's window has no such exception.
* `PoolInv` is the types plus two facts: a request that is not waiting yet was written nowhere, one that waits was written
  on one connection (`WrittenBy`), and whoever is about to write or store a connection holds one that was dialled (`Holds`).
* `WrittenAtMostOnce`: the refinement. Under `PoolInv`, each step of the pool is a `Send`, an `Answer`, a `Fail` or a stutter of
  `OneSend`: the retry leaves `pooled` for `dialing` only when nothing was written. `UsableAlwaysStays` is an action
  property from the same invariant.
* `TransportIsBoth`: the joined specification that the run checks implies that of each part, so all of these hold of it; `TransportTypesCorrect` is its type invariant.

`AnswerStream_proofs`: what a client reads is defined by folds over the events (`TextSeen`, `ArgsSeen`), what it should read by a fold over the upstream's
pieces (`ChatText`, `ChatCalls`), and neither is a state. So the invariant `AInv` relates three parties, and its bulk is about the events written so far.

* The front end (`FrontInv` for Messages and Responses, `ChunksInv` for chat completions): every event belongs to an item whose stage, from not opened
  to closed, is what the front end's fields say; an item is opened once, closed after it was opened, written to only in between; in Messages no two are open at once; and nothing
  ends the stream. Each operator of `FrontEnds` writes its events one after the other (`Wrote`), so the lemmas of this part are about one event more (`StageStep`, `Says`).
* What it has shown (`Shows`): the text the client would have read, the number of calls, and the arguments *together with those the front end still keeps back* for tools
  it announces only at the end (`LateArgs`). One Delta keeps this up (`OnDeltaShows`); at the end the calls are closed one after the other, and what was kept back of each is
  read then (`ClosedTo`).
* The reader (`Reading`, `TextHeld`): its ids are distinct and number the calls from one; what was received is what was sent followed by what is held back, and *no marker begins in
  what was sent and ends in what is held back* (`NoCallBefore`). This is what `SafeLength` is for, and without it the simulated calls cut out at the end are not those of the whole text.
* `cut` and `reader.err` agree while an attempt runs, and a read that failed in time is an error: so success is told only of what `streamInternal` itself took for whole.
* An attempt that failed holds nothing back and is no whole answer; unless something was emitted the front end is as new, which is why another attempt may use it.

`AlwaysWellFormed`, `ClientAlwaysSeesTheAnswer` and `AnswerTypesOK` follow. A fold has no induction principle here that could be cited with an operator, so the first lemmas
(`DeltasInTurn`, `ToolsInTurn`, `PiecesInTurn`) unfold each fold into the function of its intermediate results, and induction is over the numbers of that function's domain, with the property as a set (`UpTo`).
Before the proof TLC checked `AInv` as an invariant, with four events and three ids (232,608 states). Two things came of it: an assumption that was missing, `NoId \notin ToolIds`
(an id of a call is never the mark of no id), and an error of the model, in which a call whose arguments cannot be parsed repeated them when it was closed in every protocol; only the fallback of
the Responses API shows them there, and there for the first time (`responses_stream.go:166`).

`Services_proofs` (gateway, Redis store, toolsets path, WAF probe, and their composition with the answer stream):

* `RedisSpecSweepsAreExact`: `Fits` is what an operation that is between two commands knows of a store others change meanwhile. What a reset found and has not
  deleted yet lies ahead of its cursor, or is in what it read of the index; whatever it may still delete is or was the account's own. This survives other
  operations because every put takes its fingerprint out of what an operation answers for and into what it may delete, and every expiry only removes (`FitsFading`).
  `Indexed` is why the index suffices: what an account owns is in it or about to be written, unless a put broke between the two writes or a reset took the index from an owner it could not
  read or that was put since (`torn`). What a reset has removed is claimed of resets none of whose commands failed, since after a failure it goes on and returns with anything left; that no sweep removes what
  was never its own is claimed of all of them.
* `ToolsetsKeepTheirPromise`: that the accounts asked are those excluded and the current one (`AskedFits`); that a stream that began is past its last turn (`TurnFits`); that an entry of
  the shared table names a tool some request declared, or named in its history, under that clean form (`TableFits`), so the name a client reads is its own unless two tools share the form. `ToolsetsTypesCorrect`.
* `ProbesOneAtATime`: an aborted job counts as running until it has noticed, and no other begins before. `DoneJobsAreTrue`: `Knows` is conditional on fair weather and no cancellation,
  since a cancelled job's outcomes are worth nothing: then what is judged agrees with the wall, the lines left still hold what trips the leaf, and hits and conclusions so far are right. That a
  cancelled job never ends `done` is the other half. The list of hits is reasoned about by its indexes. `ProbeTypesCorrect`.
* `SlotsAlwaysHolders`: needs `Agree`. As long as nobody set or lifted a key's limit around its requests, either all of
  them were counted or none was; hence a release gives back what its own request took.
* `OverrunAlwaysBounded`: `Budget(k)` bounds what was used *and* what the admitted requests may still cost together: used +
  admitted x the dearest answer < quota + limit x the dearest answer. Admission preserves it because the check reads
  `used < quota` with the slot already taken, so admitted requests are among at most `limit` holders; a charge moves
  cost from one summand to the other; a release follows the charge.
* `ReplayAlwaysFresh`: `CacheHolds` says that list and index are the same set, without repetition and within the bound, and that the index keeps for each key the answer stored last, with its
  age, though `latest` knows nothing of moves, evictions and removals. Each of `CacheGet`, `CachePut` and `Ticks` keeps it (`GetHolds`, `PutHolds`, `TicksHold`); the list enters by `OthersDistinct` and `InFront`.
* `GatewayTypesOK`: the types of the gateway say more than types. List and index agree, by `CacheHolds`. `Counted`: a request leaves the probe with its answer, so the
  counter of a fingerprint is the number of requests in it, although the setting may be switched between entry and exit.
* `ServicesAreTheirParts`: the joined specification of the run implies those of its five parts; hence `ServicesTypesOK` and `ServicesKeepTheirPromises`, every invariant of the run, and `ReplayIsFresh`.

Only model-checked:

* liveness (`EveryRequestEnds`, `PendingEnds`, `WriterFollowsItsCall`, `LoopMovesOn`), which needs fairness and `ENABLED`;
* the five findings, which are violated.

## 6. Where the code and its own documentation disagree

1. `in_flight_leak`: three callers of `Pool.Next` never call `Done`; `pool.go:22` says the counter is positive only while a
   request is in flight.
2. `preferred_plan`: the early break of `pickIndex` can end the scan on another plan's idle
   account; `pool.go:174` and a test's text promise the preferred plan first.
3. `transient_revives`: after an upstream failure "only the error text is recorded"
   (`route_loop.go:236`), but the status is written too.
4. `corrupt_resent`: StreamChat remembers the conversation it has just invalidated, so the client is led back
   into it; `stream.go:304` says the retry starts anew. The retry of the same messages does, the next message does not.
5. `invalidate_healthy`: the conversation to forget is looked up after the failure instead of taken from the call;
   `conversation.go:176` says no healthy conversation is ever hit.

Seen while modelling, each stated in the model as it is in the code, without a run of its own:

* "Timeouts are controlled with the context" (`postman.go:21`), but after the response headers nobody looks at it: `roundTrip` does until then (`h2client.go:213-216`), the body's `Read` is a pipe read
  (`:622`). A peer that sends nothing more and keeps the connection holds the call, its slot, or a refresh and its mark. Hence no fairness of section 4 lets an upstream call return.
* Clients with the same opening are said to mix only if the more precise key with the reply misses (`conversation.go:142`). That key is made of role, text and ids of tool calls (`:28-34`): after the
  same plain reply it is the same too, hits, and leads one client into the other's conversation. Hence `BearsID` in `CallsTellApart`; without it TLC finds the violation.
* `writeData` is said to respect the send windows (`h2client.go:321`), but it charges a chunk under one lock (`:338-350`) and writes it under another (`:352-356`); `handleSettings` may close
  the window and acknowledge that in between (`:450-473`). Hence `overtaken` in `WithinWindows`; without it TLC finds the violation.
* A reset checks each owner so as not to delete one another account has taken over (`redisstore.go:156`), in a command (`:166`) before the one that deletes (`:171`). Hence `SweepSpares` speaks of what was the
  account's own at some time of the reset, and not of what is when it is deleted.
* A read that fails after the end of its context is ignored (`stream.go:256`). If there was any text or call until then the answer is told to be complete, and remembered: hence
  the exception of `cut = "late"` in `EndIsTrue`.
* A Redis command that fails in a reset or invalidation is passed over with a line in the log, as the comment above `InvalidateConversation` allows; the reset of an account deletes the index
  of an owner it could not read, which no later reset finds again: hence `failed` and `torn` in `ResetForgets`.
* A comment of the probe has any step that fails set the job to `error` and end it (`waf_probe.go:366`); a send that fails counts as one that did not trip the wall, and the job goes on to
  its conclusion. Hence `DoneIsTrue` is about jobs in whose time no send failed.
* `apikeys.go:23` says of the slot counter that it refuses whatever exceeds the limit. A request admitted without a limit takes no slot; if a limit is
  set meanwhile its release takes one from another request, and the key then exceeds its limit. This is why `SlotsAreHolders` leaves
  out the keys in `switched`; without the exception TLC finds the violation in a few steps.
* A comment (`h2client.go:586`) has `closeWithErr` end the remaining streams with an error. When the peer closes the connection the error
  is `io.EOF`, and a truncated body reads as complete: hence `\/ closed` in `CleanEnd`.
* DATA for a stream that has left the table is dropped without giving its receive window back (`h2client.go:519`).
* `storeConn` (`roundtripper.go:175`) is said to close the connection it does not keep; it leaves it open for the request that dialled it.
* When a toolsets stream brought no event, `StreamChat` classifies a body its scanner has already consumed
  (`provider/toolsets.go:669`), so the kinds the comment above it names are not told apart; and a stream that ends early counts as a success (`:673`).
* Rewritten tool names are said to be unique (`provider/toolsets.go:351`: "保证唯一"); only those that were cut carry a hash, others may
  collide: hence `Confused` in `NamesReturn`.
* `CacheKey` (`provider/cachekey.go`) leaves out the effort of the output configuration: two requests that differ only in it share an entry. Fingerprints
  are model values here, so this is not a property.
* A key that is created between the two resolutions of a request is checked but not charged, and deleting the last key opens the gateway.
* Billing refreshes of an account that was disabled switch it on when somebody refreshes it by hand; no job does.
* `RefreshDueQuotas` and `StartDailyQuotaRefresh` have no caller outside tests; comments of the trial extension count on them.

## 7. Abstractions and what is not modelled

* Text, folding, capping, WAF rewriting, headers, fingerprints of the TLS client, back-off sleeps, traces and logs change no state
  the properties read. That on a hit only the newest message is sent (`messages.go:298`) is listed as a hazard: it needs
  a model of what the upstream has been told.
* `NextByQuota` and its comparators: `preferQuota` is false at every call site.
* In `RouteLoop` and `PoolClients` accounts are neither inserted nor deleted (`AccountJobs` does both); `retry_count` and the other settings do not change within a request
  (the code reads them once, or, for the reservation window, at success).
* In `RouteLoop` listing and lock are one step (`PoolClients` has the window), and a billing refresh is one step (`AccountJobs` has its steps).
* In `Conversation` the router is reduced to its choice of an account; the retry of a failed call is the client resending.
  A client's next call starts after the last store write of the previous one.
* In `AccountJobs` a trial's dates are "running" or "in its last hour"; a date that cannot be parsed, is empty or in another zone (`trial_extend.go:116,205`) is not distinguished.
* In `RedisStore` the keys of tool groups are left out: each is written and read by one command.
* In `H2Conn` a window unit stands for a frame's payload; HPACK, PING, padding, priorities and HTTP/1.1 bodies are left out.
* In `AnswerStream` a marker is two pieces; the JSON inside one (`normalizeToolJSON`) is either a call to a declared tool or not. A stream the
  upstream breaks off is an end of its own. Thinking is one Delta.
* The runs `transport` and `services` join modules that share no state. Their interaction in the code is by calls only: a
  round trip is one result of `RouteLoop`'s or `Toolsets`' call, an answer is `Return` with or without output.
* Not modelled: request parsing and the non-streaming JSON of the front ends, folding and capping of messages, WAF rewriting of texts, the vision bridge, TLS
  dialling and fingerprints, proxies, login, dashboard, operations API, analytics, request logs. They are
  conversions, I/O, views or single-statement edits without a state that a step of another actor could break.

## 8. Plan

Done: all modules of section 2 and the proofs of section 5. What would add most next:

1. `Conversation` with what the upstream has been told, for the hazard of a matched prefix that is shorter than the history
   minus one, and with a client that starts at the finish delta.
2. `Conversation` over `RedisStore`: the store's operations as its commands, and an abstract store both implement.
3. `RouteLoop`'s call as `AnswerStream`'s attempt, so that "emitted" is derived and not chosen.
