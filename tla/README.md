# A TLA+ verification of jabr

jabr is a TypeScript/Bun program that runs an *orchestrator* agent (Jabir) and
specialist agents. The orchestrator takes a task over HTTP (the A2A protocol),
picks an agent for it, delegates it over HTTP, follows handovers from agent to
agent, and keeps every task in SQLite. Around that loop stand webhook servers,
plugins, a realtime server, payments, an OAuth server, tool calls and a bridge
to an editor. This directory models the parts in which order, failure and
concurrency matter, checks the models with TLC and proves properties of them
with TLAPS.

    tlc -config Orchestrator.cfg MCOrchestrator      # one of the runs below
    tlapm OrchestratorProofs.tla                     # the proofs, minutes a module

## 1. Inventory

Each process runs one JavaScript thread: what lies between two `await`s is
atomic, and whatever is awaited lets every other request run. Two things are
outside that thread: a process can die at any instruction, and
`scripts/task-dlq.ts` is a second process on the same database file.

### Modelled

| Part | State | Operations | Talks to |
|---|---|---|---|
| `JabirAgent` (`core/jabir.ts`), `handover-chain.ts` | per task: the locals of `executeWithDepth` and where it awaits | `execute`, recursion for handovers, the catch block | task store, `ToolRouter`, other executions (recursive await) |
| `ToolRouter` (`core/tool-router.ts`, in part) | none that outlives a call, apart from metrics | `routeTask`, `delegateTask`, `shouldVerifyTask`, `runVerification`, `executeConsensus`, `emitTask*`, `syncToKanban` | agents over HTTP, event bus |
| `CognitiveLoop`, `VerificationAgent.verify` | none | scores, threshold, synthesis | the answers gathered by their caller |
| Task stores (`sqlite-task-store.ts`, `sqlite-db.ts`, `task-memory.ts`) | tasks, messages, artifacts, transitions, dead letters; subscribers | `TaskStorePort` | subscribers (synchronous callbacks) |
| `scripts/task-dlq.ts` | the list it selected, its current row | `--retry`, `--retry-all`, `--purge` | the database, statement by statement |
| `A2AServer` (`adapters/http/a2a-server.ts`) | in-flight counters, shutdown flag, drain waiters, abort controllers, open streams, push configurations | SendMessage (blocking, push, streaming), SubscribeToTask, CancelTask, push configurations, `shutdown`, `stop`; JSON-RPC and REST | the agent behind it (`onTask`), a task store, limiter, keys, tokens, payments |
| Rate limiter | per caller the times of its requests | `check`, the snapshot that prunes | asked by `A2AServer.fetch` before anything else |
| OAuth server, token store, JWT, API keys, `auth-middleware.ts` | refresh token records by thumbprint | both grants, rotation, revocation, scope checks | requests of `A2AServer` |
| Wire format (`a2a/serialize.ts`, `types/a2a-v1.ts`) | none | write and read each type | every request and reply |
| x402 (`settlement-ledger.ts`, `x402-client.ts`, `x402-server.ts`) | mint records, receipts, balances; prices and cards cached | mint, refill, pay, check, verify | a chain endpoint (awaited), the agent's card |
| Webhook server, Telegram, WhatsApp and GitHub bots, `webhook-to-a2a-bridge.ts`, idempotency lock | locks with their times; a server and its registration | receive, admit, forward, answer, start, stop | providers that redeliver, agents |
| `PluginRegistry`, `PluginLoader`, event bus, `lifecycle.ts` | plugin states, subscriptions, handlers | load, register, `initializeAll`, `shutdown`, `shutdownAll`, emit | plugins' own code (awaited) |
| Realtime adapter | connections, rooms | open, close, join, leave, broadcast, ping, start, stop | clients, event bus |
| Specialist agents, `serve.ts`, `runtime/agents`, `skill-fs.ts` | per task where `execute` awaits; skill documents; draining | `execute` of each agent, `onTask`, signal handlers | LLM, search, tools, memory, board |
| Elicitation port, MCP client | connection, open questions, timers, the terminal | `callTool`, `elicit` of three ports, `resolveRequest` | MCP server, user, Hermes |
| Stdio bridge (`stdio-bridge.ts`) | sessions and their history, the current session | messages, session commands, diffs | editor, orchestrator |

What makes each of them correct, and what is hard about it:

* **Execution loop.** A task may leave the loop by nine paths and between any
  two awaits other executions run. Correct: nobody leaves a task "working"
  behind; events balance; retries and handovers are bounded; the caller's
  permissions and the chain of agents follow the work through handovers; a task
  that has ended is not touched again.
* **Task store.** A port operation is several SQL statements without a
  transaction; some writes notify followers and some do not; the script edits
  the same rows. Correct: history and state agree, followers are not left
  behind, dead letters are about the task as it is and are not lost.
* **A2A server.** Five kinds of request share two counters and one map of
  controllers. Correct: the counters count, a drained shutdown leaves nobody at
  work, no waiter sleeps for ever, a stream ends with a final frame when its
  task ends, a cancellation reaches the handler.
* **The way in.** Authentication, payment, body and scope are checked with
  awaits between them, on two bindings. Correct: no window holds more requests
  than allowed; one refresh token of a family at most can be exchanged, though
  exchanges overlap; a token never exceeds its key; what is written is what is
  read, in every spelling a peer may use.
* **Webhooks.** Providers redeliver; two servers answer before they handle.
  Correct: an event is handled once per TTL, only duplicates are refused as
  duplicates, a message marked as read was offered to the agent, Telegram's
  registration follows the server although its calls are not awaited.
* **Payments.** Correct: a receipt pays for one request, balances are what was
  minted less what was paid, a payment is lost only where the server goes by
  another price than the client knew.
* **Plugins and realtime.** Registry operations await foreign code between
  reading and writing; sockets break at any moment. Correct: a subscription
  does not outlive its plugin, a plugin hears each event once, rooms hold live
  connections.
* **Agents, consensus, tools, editor.** Correct: every task is answered and
  over whatever fails around its agent; verdicts rest on the answers; "accept"
  was said by the user, to this question; a session's history is made of whole
  exchanges.

### Not modelled

| Part | Why it is left out |
|---|---|
| MCP resources (`mcp-resources.ts`), subscription manager | planned; see the observations in section 6 |
| A2A client, MCP server | one request and one reply, registration with an SDK; the outcomes are choices of `Orchestrator` |
| Keyword routing of `ToolRouter`, contents of kanban cards, agent cards, posting of push notifications | text, or requests nobody waits for |
| Dynamic registry, `core/rushd.ts` | a discovery loop nothing starts; a copy of `core/oracle.ts` nothing imports |
| TLS, Pollinations wallet, configuration | read once, or look-ups of an external account |
| Memory stores, mem-palace, context compressor, headroom budget, hermes kanban | insertions, look-ups, counters and text; what the loop awaits of them is modelled as an await |
| GunJS, IPFS, LLM, search and image adapters, observability, scripts other than `task-dlq.ts`, example plugins, docs, brand, spec | wrappers of external services, read-once data, command line front ends |

`PROJECT.json` lists the hazards found, each at its line, with the properties
that cover it.

## 2. The modules

    TaskRows ── TaskStore ┬─ MCTaskStore            TaskLifecycle
        │                 └─ TaskStoreProofs              ▲ implements
        └───── Orchestrator ── MCOrchestrator ────────────┘
                     └── OrchestratorProofs ── OrchestratorHistory
    A2AServer ─┬─ MCA2AServer
               └─ A2AServerProofs
              TokenChains
                   ▲ implements
    TokenStore, PushConfigs ── FrontDoor ─┐
    RateLimit ────────────────────────────┼─ Gateway ─┬─ MCGateway
    WireSchema ──────────────┬─ Wire ─────┘           └─ GatewayProofs
    JsonValues ── WireLevel ─┘
    IdempotencyLock ── Webhooks ─┬─ MCWebhooks
                                 └─ WebhooksProofs
    SettlementLedger ── X402 ─────────┐
    Plugins, Realtime, Consensus,     ├─ Runtime ─┬─ MCRuntime
    Specialists, Elicitation,         │           └─ RuntimeProofs
    StdioBridge ──────────────────────┘

**TaskRows** – one task as a `TaskStorePort` keeps it and, as an operator, what
each port operation makes of it. It covers both stores: `Backend` selects
`SqliteTaskStore` or `TaskMemory`, which differ in the transition history, the
dead letter queue and what creating an id again throws away. A row has a count
of messages and the kind of the last one, not their text.

**TaskStore** – a store at work: an action for every writing port operation,
subscriptions and what each subscriber was last handed, a restart of the
process, a death between the two statements of `updateState` and of
`retryFromDLQ`, and `task-dlq.ts` as a second process: a select, then for each
row a DELETE and an UPDATE, killed anywhere. `dead`, `torn` and `kills` are
history variables.

**Orchestrator** – the execution loop. `exec[t].pc` says at which await the
execution of task *t* is; an action is the code from one await to the next:

| Action | Code of `executeWithDepth` |
|---|---|
| `Submit` | from `onTask` to the first await (announced, working) |
| `Route` | the routed agent and the ACL check on it |
| `Resolve` | `getAgentUrl`, `getCard`, `budget.consume` |
| `DelegateReturns`, `DelegateReturnsForVerification`, `DelegateThrows` | the reply of `delegateTask`: an answer or a handover, one to be verified, an error |
| `AskPeer` | `runVerification` asks a second agent, the first of the other available ones, without an ACL check (tool-router.ts:300) |
| `Verify` | `runVerification` has returned, contested (only if a peer answered) or not |
| `Complete`, `RejectCircular`, `HandOver` | (by `Conclude`) what follows: the completed tail, a cycle, the new child task |
| `Transfer` | the child's first step, run synchronously by the recursive call |
| `Resume` | the parent after its child has settled |
| `Sync` | `syncToKanban` has returned |
| `Throw` | the catch block: put back, dead letter or failed |
| `OperatorRetry`, `OperatorPurge` | `task-dlq.ts`, as one step |
| `Redispatch` | *external*: the dispatcher that comments in the code speak of; switched by the constant `Dispatcher` |
| `Crash` | the process dies at an await; rows stay, executions are gone |

**TaskLifecycle** – the abstract specification: state, who is worked on, who is
in the dead letter queue. A task is worked on at most once at a time, only work
ends it, a task that has ended stays as it is, and the one way back is an
operator's retry of a dead letter. `Orchestrator` implements it under
`state <- rows[t].state`, `live <- the running executions`, `dead <- the tasks
with a dead letter` (`ImplementsLifecycle`).

**A2AServer** – requests, counters, controllers, the task store's states as the
server sees them, and the calls of `shutdown()`. A request is `arrived` while
its body, authentication and payment are awaited; the handler's core then runs
to its next await in one action. `StoreWrite` is the agent behind the server
updating a task, with the frames it causes on every subscribed stream.
`CancelTask` aborts first and looks at the store second, as the code does.
`ShutdownReturns` is the continuation that stops the server.

**FrontDoor** – what a request passes before its method: key or token
(`AuthenticateAndPay`), body, scope and route (`Dispatch`, `TurnedAway`). The
OAuth routes run in the same process: a grant is two actions with the await of
the signature between them (`ClientCredentials`/`RefreshTokenStored`,
`RefreshGrant`/`Rotate`), so another exchange of the same token, a revocation,
the expiry or a restart may come between. `Routes` holds every route of both
bindings with the method whose scope it asks for and the one it calls.
**TokenStore** and **PushConfigs** are the two stores as values with operations.

**TokenChains** – the abstract specification of refresh tokens: chains, each
begun once, for one subject, going on from one token at a time, and over for
good once it ended. It has no clock, no requests in progress and no records of
what was used up. `FrontDoor` implements it under `given <- GivenOut`, the
refresh tokens that were signed, and `chain <- Continued(store)`, of each family
the token that can still be exchanged (`ImplementsChains`).

**RateLimit** – the sliding window of each caller, and what prunes it. Its clock
is `performance.now`, not the one tokens expire by.

**WireSchema** – for each A2A type its fields: key written, keys looked for, the
key A2A v1.0 gives it (`sent`, where that is none of those), whether it is
needed. **WireLevel** – how the fields and variants of one type
are written and read (`ToWire`, `FromWire`), given how the types inside it are:
the unions, damaged fields, and the spellings: what this program writes, what
peers write in camelCase, in snake_case or with keys in both, with enumerations
by their protocol-buffer names, and the old form of parts. `AsRead` says what
comes out, losses included. It is
parameterised by the table and by the operators for the types inside, and says
what is proved of one level. **JsonValues** are the values. **Wire**
– the table, five instances of `WireLevel`, each the inside of the next
(`Format` is the outermost: the types nest no deeper), and a letter that is
written, perhaps damaged, and read.

**Gateway** – composes `FrontDoor`, `RateLimit` and `Wire`. `MCGateway` says
which values the letters hold.

**Webhooks** – one of four servers, chosen at Init with its configuration.
A delivery is admitted in one step (`Receive`: there is no await between body
and lock) and then handled message by message; `Returns` and `Throws` end each
await. `Start`, `Stop` and `CallDone` are Telegram's registration.
**IdempotencyLock** is the table of locks as a value.

**SettlementLedger** – the ledger as a value; **X402** – clients that pay and
servers that check. A card has a price of its own and a settlement price;
`UpdateFromCard` hands a card to the server in front of an agent, with or
without its settlement pricing (runtime/orchestrator.ts:161 passes it),
`PublishCard` changes the one the client fetches. `Pay`/`SendAfterRefill` and
`Check`/`ChainAnswers` are split at their awaits. `waived`, what a payment did
not take because it was not there, is history.

**Plugins** – registry, loader, bus and the events. A call of `initializeAll`,
`shutdown` or `shutdownAll` holds the one plugin it awaits; up to `MaxCalls` of
them overlap. `EmitOnce` and `EmitBridged` are events that reach the bus once
and twice.

**Realtime** – sockets, known connections, rooms. `astray` is history: the
connections the server forgot while they were open.

**Consensus** – the scores, exact in ten-thousandths, the ranking, and the three
callers that draw a verdict from it: two compare with the configured threshold,
`executeConsensus` with none.

**Specialists** – for each agent and branch of its `execute` the calls it
awaits (`OracleAwaits`, …, `JarvisAwaits`), which failures are absorbed
(`Absorbs`), what follows (`Goes`), and the process with its signals.

**Elicitation** – tool calls, the connection, questions through three ports.
`decider` is history: the question whose answer decided this one.
**StdioBridge** – the lines of an editor and the sessions.

**Runtime** – composes the last seven.

A behaviour of `Gateway` or `Runtime` exercises one of the composed services,
chosen at Init. They share no state, and where they meet one calls another
within one tick (a payment checked on the way in is an outcome of
`AuthenticateAndPay`; an agent's event is broadcast and dispatched in
`EmitBridged`), so a joint behaviour is an interleaving of theirs, and an
invariant of one of them cannot tell it from that service alone.

Each module has one type invariant. Those of the loop and the store are proved;
the others are left to TLC when a module changes, not to a run of their own. The operators marked *Fault* are deliberate mistakes, used to
confirm that the properties notice them; no specification uses them.

## 3. What TLC checks

| Run | Result | Shows |
|---|---|---|
| `TaskStoreSqlite` | pass (about 470 000 states) | audit trail (`TrailRecorded`, `TrailConnected`), followers (`FollowersUpToDate`) and dead letters (`DeadLettersBelongToTask`, `DeadLettersLostOnlyByDying`) survive every interleaving of store, script and deaths |
| `TaskStoreMemory` | **violation** of `TrailRecorded` | the in-memory store records no transition, though CANONICAL.md:349 says it does |
| `Orchestrator` | pass (about 596 000 states) | `WorkingHasRunner`, `EventBalance`, `DeadLettersExhausted`, `HandoverBounded`, `NoReturn`, `CallerRespected`, `TrailStopsAtEnd`, and that the loop implements `TaskLifecycle` |
| `OrchestratorLive` | pass | `WorkEnds`: no task stays working for ever |
| `OrchestratorRetry` | **violation** of `RetriedTaskRuns` | a task put back under the comment "re-dispatch" (jabir.ts:395, 400) is never executed again |
| `OrchestratorSelf` | **violation** of `SelfHandoverRejected` | an agent that hands over to itself is executed again: the chain searched lacks the agent that answered |
| `A2AServer` | pass | `CountersMatch`, `DrainedShutdownLeavesNobody`, `WaiterHasSomethingToWaitFor`, `StreamsTellTheEnd`, `CancelReachesHandler` |
| `A2ASubscribe` | **violation** of `SubscriptionEndsAtFinal` | subscribing to a task that has already ended throws in the store's synchronous callback and stays counted |
| `Gateway` | pass (about 150 000 states) | the window of the limiter (`RateBound`), refresh token families (`RefreshFamilies`), that the grants implement `TokenChains` (`ImplementsChains`), what a token may say (`TokensInheritTheKey`), who changes push configurations (`ConfigsChangedByKeyHolders`), and that what is written is read, but for named losses (`ReadAsWritten`) |
| `Webhooks` | pass | `HandledOncePerTtl`, `DuplicatesWereAdmitted`, `ReadMessagesOffered`, `RegistrationFollowsServer` |
| `Runtime` | pass (about 345 000 states) | plugins (`SubscriptionsTracked`, `EventsHeardAsDue`), rooms (`RoomMembersConnected`), payments (`ReceiptPaysOnce`, `BalancesAccounted`, `LostPaymentWasStale`), consensus (`VerdictsRestOnAnswers`), agents (`TasksEndAnswered`), elicitation (`AcceptanceWasGiven`), editor sessions (`SessionsHoldExchanges`) |
| `Elicitation` | **violation** of `AnsweredQuestionsSettle` | a question answered at the terminal stays open for ever: the wrapper that the answer reaches resolves a promise nobody awaits (elicitation-port.ts:122) |

Each property is stated, and explained, in its module. Some are deliberately
weaker than one might wish, because the code is:

* `TrailRecorded` and `FollowersUpToDate` except "submitted": the requeue is a
  raw UPDATE that records nothing and tells nobody.
* `DeadLettersLostOnlyByDying` admits one lost dead letter per death: the two
  statements of a retry are no transaction.
* `CountersMatch` counts the subscriptions that broke after they were counted,
  and is stated up to `stop()`, which zeroes the counters under running handlers.
* `CancelReachesHandler` speaks of a task that one request ran: a second
  request on the same id replaces the controller, and either removes it.
* `DrainedShutdownLeavesNobody` leaves out push tasks, which the server neither
  counts nor refuses.
* `ReceiptPaysOnce` promises one request per token only without a chain: with
  one, the receipt is looked for before an await and written after it.
* `LostPaymentWasStale` admits a payment that is used up and refused, when the
  server goes by a card with a higher settlement price than the client knew, or
  was given the card alone and the card's own price is higher.
* `CallerRespected` is about the executions a caller asked for: a replay has no
  caller, and nobody asks whether he may invoke the peer of a verification.
* `NoReturn` is about agents named in a handover; the code looks for no cycle
  when the child is routed.
* `ReadAsWritten` admits five losses, each named in `AsRead`: a file's media
  type in camelCase, a list filtered by a state's protocol-buffer name, a file
  without a uri (as a peer writes it and as this program does), a function call
  or response in snake_case.
* `SubscriptionsTracked` leaves out plugins on which two registry calls
  overlapped: such a subscription may stay on the bus for good.
* `EventsHeardAsDue` leaves out plugins on which two registry calls overlapped,
  or which another plugin's `unsubscribeAll` reached.
* `RoomMembersConnected` admits connections the server forgot while their
  sockets were open.
* `ReadMessagesOffered` admits one message per broken batch that its sender
  sees as read and no agent answered.
* `RegistrationFollowsServer` excepts failed and overlapping calls: `stop` does
  not await the one that removes the registration.
* `TasksEndAnswered` admits tasks lost to a SIGTERM, and to a drain that timed
  out; agents whose model or disk fails throw.
* `VerdictsRestOnAnswers` excepts the router's verdict on a single answer.
* `AcceptanceWasGiven` admits a form on the Hermes board accepted by the answer
  to another one, open or long timed out: all of them share one key.

### Bounds

* *Store*: two tasks (one touched by the script, another beside it), one
  follower, two state changes, one message, one retry, two dead letters (the
  same task filed twice, or two tasks), one death. A third task or follower
  would behave as the second: operations touch one row and one subscription.
  The states written are "submitted" and "failed", one of each class the
  properties tell apart.
* *Loop*: three tasks, so that there is a handover of a handover and two
  independent executions beside each other; two agents and a stranger that
  does not resolve, enough for A to B to A; `MaxDepth` 2 (3 in the code) makes
  the handover that is one too many happen with three tasks; `MaxRetries` 1
  (3 in the code) lets a task use them up within `MaxRuns` = 3 executions; one
  crash; one caller without limits and one limited to one agent.
* *Liveness*: two tasks, depth 1, no symmetry.
* *Server*: three requests of any kind on one task (two that interfere and one
  that came later), two overlapping calls of `shutdown`. A second task id would
  only separate requests that the counters count together anyway.
* *Gateway*: one key with an allowlist, two requests at a time, two payments;
  five tokens are the two of a grant, the two of a rotation and one that a
  competing exchange still has to ask room for; time 2 with lifetimes of 1 lets
  tokens expire. The client asks for one default scope and for "admin". One
  configuration with two urls. The limiter has two callers, since the snapshot
  one takes prunes the other, a window of 3 in a time of 5, and two requests.
  Letters are the values of every type that depart in at most two fields from
  the one that holds nothing optional or from the one that holds all, in every
  spelling, intact or with one field damaged.
* *Webhooks*: two events, batches of two, three deliveries of whichever, a TTL
  of 2 in a time of 3, three starts and stops, one restart.
* *Runtime*: two plugins and three registry calls, so that two overlap and
  one comes later; one event; two connections in two rooms; two delegations, or
  one and a header sent again to the worker or to the delegator's own server,
  with three mints, a refill among them; two cards whose own and settlement
  prices are 0 and 2 the one way and the other, and one change of card, so that
  client and server go by different ones; a threshold of 0.7 and up to two
  answers to a verdict; two tasks of an agent; two tool calls; three lines in
  two sessions.

The theorems of section 4 have none of these bounds. Symmetry is declared for
values that specification and properties treat alike, and not in the liveness
run. Deadlock is not checked in any run, for each system really stops: bounded
tasks, requests, deliveries and calls are used up.

### Fairness

Weak fairness on `Step(t)` for every task of the loop, and nothing else: each
await settles. Requests to agents end in an answer, an error or the platform's
timeout, and the other awaited calls are local. Nothing is assumed of callers,
operators, the dispatcher or crashes. All other properties are safety
properties and need none; in particular nothing says that a handler returns,
which is why `shutdown` has a timeout. `AnsweredQuestionsSettle` is one too:
a step that reads the user's answer decides the question or never will.

## 4. What is proved

Every theorem holds for all values of the constants that the named assumptions
allow: any number of tasks, agents, requests, tokens, connections, any bounds.

| Theorem | Module | Statement |
|---|---|---|
| `TypesHold` | `TaskStoreProofs` | `Spec => []TypeOK` |
| `TrailsAreRecorded` | | `Spec => []TrailRecorded`, for SQLite |
| `TrailsConnect` | | `Spec => []TrailConnected` |
| `FollowersKeepUp` | | `Spec => []FollowersUpToDate` |
| `DeadLettersHaveTasks` | | `Spec => []DeadLettersBelongToTask`, for SQLite |
| `LossesAreDeaths` | | `Spec => []DeadLettersLostOnlyByDying` |
| `Invariance` | `OrchestratorProofs` | `Spec => []Inv` |
| `TypeCorrect` | | `Spec => []TypeOK` |
| `NoWorkWithoutRunner` | | `Spec => []WorkingHasRunner` |
| `RetriesBounded` | | `Spec => []DeadLettersExhausted` |
| `HandoversBounded` | | `Spec => []HandoverBounded` |
| `PermissionsFollowTheWork` | `OrchestratorHistory` | `Spec => []CallerRespected` |
| `NoWorkReturns` | | `Spec => []NoReturn` |
| `LoopImplementsLifecycle` | | `Spec => ImplementsLifecycle` |
| `EventsAddUp` | | `Spec => []EventBalance` |
| `TrailsStop` | | `Spec => []TrailStopsAtEnd` |
| `CountersCount` | `A2AServerProofs` | `Spec => []CountersMatch` |
| `DrainIsSound` | | `Spec => []DrainedShutdownLeavesNobody` |
| `NobodyWaitsInVain` | | `Spec => []WaiterHasSomethingToWaitFor` |
| `StreamsSayHowItEnded` | | `Spec => []StreamsTellTheEnd` |
| `CancellationArrives` | | `Spec => CancelReachesHandler` |
| `FamiliesHaveOneLiveToken` | `GatewayProofs` | `Spec => []RefreshFamilies` |
| `RenewalKeepsTheKey` | | `Spec => []TokensInheritTheKey` |
| `ConfigsNeedAKey` | | `Spec => ConfigsChangedByKeyHolders` |
| `GrantsImplementChains` | | `Spec => ImplementsChains` |
| `RatesAreBounded` | | `LimiterSpec => []RateBound` |
| `LettersReadAsWritten` | | `WireSpec => []ReadAsWritten` |
| `GatewayIsItsParts` | | `GatewaySpec => Spec /\ LimiterSpec /\ WireSpec` |
| `GatewayImplementsChains` | | `GatewaySpec => ImplementsChains` |
| `LevelReads` | `WireLevel` | a value is read as `AsRead` says, if those inside are |
| `LevelSpares` | | a damaged field costs that field alone, if what is inside is read so |
| `EventsHandledOnce` | `WebhooksProofs` | `Spec => []HandledOncePerTtl` |
| `RefusalsAreDuplicates` | | `Spec => []DuplicatesWereAdmitted` |
| `BatchesLoseOne` | | `Spec => []ReadMessagesOffered` |
| `RegistrationsFollow` | | `Spec => []RegistrationFollowsServer` |
| `PaymentsHold` | `RuntimeProofs` | `Spec => []ReceiptPaysOnce`, for `X402` alone |
| `PaymentsKept` | | `RuntimeSpec => []ReceiptPaysOnce` |
| `OnlyStalePaymentsAreLost` | | `RuntimeSpec => []LostPaymentWasStale` |
| `BalancesAddUp` | | `RuntimeSpec => []BalancesAccounted` |
| `RoomsHoldConnections` | | `RuntimeSpec => []RoomMembersConnected` |
| `VerdictsRest` | | `RuntimeSpec => []VerdictsRestOnAnswers` |
| `SubscriptionsAreTracked` | | `RuntimeSpec => []SubscriptionsTracked` |
| `PluginsHearTheirEvents` | | `RuntimeSpec => []EventsHeardAsDue` |
| `TasksAreAnswered` | | `RuntimeSpec => []TasksEndAnswered` |
| `AcceptanceIsTheUsers` | | `RuntimeSpec => []AcceptanceWasGiven` |
| `HistoriesHoldExchanges` | | `RuntimeSpec => []SessionsHoldExchanges` |

**The store** (from `TaskRows`' and `TaskStore`'s assumptions). Every step
touches one row in one of a few ways (`EveryStepTouches`) and each subscriber in
one of a few (`EveryStepTells`); the invariants are proved against those ways.
That a trail ends in the state of its row (`Recorded`) and that it reads as one
walk (`Connected`) need each other, since a transition is recorded from the
state the row is in. Two theorems are about SQLite only: `TaskMemory` records
nothing, as the run `TaskStoreMemory` shows, and has no dead letters; where a
theorem names no store, it holds of both. `LossesCounted` bounds the lost dead
letters by the deaths counted: a letter is lost only in a step that dies.

**The loop** (from `OrchestratorAssumption` and `BackendAssumption`). Three of
its properties are proved from `Inv`. The step that begins a child (`Transfer`)
sets a row to "working" whose own execution did nothing so far, and needs to
know that this row still waits and was never retried (`NewChildWaits`), and that
no second parent is about to begin the same child (`NewChildHasOneParent`). The
step that hands over appends the current agent to the chain, so an execution
past its routing must know its agent (`AgentKnown`). The proof has three layers:
what each operator of `TaskRows` does to the fields the invariant reads; what
happens to `Inv` when an execution begins, moves, or ends, for any row and
execution with the right fields; and one lemma per action.

*Kinship.* `CallerRespected` and `NoReturn` compare an execution with those
above it, and nothing keeps them together but what the handover gave the child:
`KinInv` says that a child that is awaited was begun with its parent's caller
and permissions, and with the parent's chain and agent as its chain
(`AwaitedIsKin`), and that the parent checked its own chain before it handed
over (`NoCycleAhead`). `CallerRespected` is about the history variable `caller`,
the permissions of the request at the root; that the permissions an execution
goes by are those is `Permitted`. By `AwaitedIsKin` a chain names the agents of
all executions above, so `NoReturn` is about each of them, not only about the
next two.

*Refinement.* `RowMaps` and `LiveMaps` say which fields the mapping reads. A
step that moves an execution on is a stutter; one that begins or ends it is the
step of `TaskLifecycle` of that name, and takes from `Inv` that the row was
submitted, or working.

*History.* `EventBalance` is not inductive alone: a task that a crash cut short
must still look like work and a task without a row must not have been announced
(`Accounted`). Trails are append-only, and what is appended leaves a state that
is not final (`TrailOpen`).

**The server.** `ServerInv` adds to the types what each phase of a request says
of its fields (`InOrder`), that a call of `shutdown` that has not timed out
waits exactly while the counters are not zero (`CallInOrder`), and that a
running handler owns the controller of a task only it named
(`ControllersKept`). The counters are cardinalities of sets of requests;
`CountedChanges` says what one request's move does to such a set, from the
library's facts about finite sets.

**The way in** (from `FrontDoorAssumption`, `TokenStoreAssumption`,
`LimiterAssumption`, `SchemaAssumption` and `LettersAssumption`). `FamiliesInOrder` is about the store as a value: families
keep one subject, have one live token and none once spoiled, and are no older
than the tokens issued; one lemma for each operation of `TokenStore` says that
it is preserved. A revocation for a subject spoils a family only because the
whole family is that subject's. `DoorInv` adds that a request between its awaits
still has what its first step found: an enabled key, a stored token
(`HandlerInOrder`). Configurations need a key because no token has the scope
"admin" (`Inherits`) and every route that changes one asks for it.

*The limiter.* A window is what is left of the times the caller was allowed at
when its first entries are dropped (`IsRest`), and what was dropped is out of
date (`Dropped`); pruning keeps that true because the times are sorted
(`PrunedRest`). So an entry that is recorded lies a window after the one
`MaxRequests` places before it (`Spaced`), and as many entries do not fit into
one window (`WindowHolds`).

*Chains.* The abstract chain is what `Continued` computes from the store with a
CHOOSE, so it has to be shown to be a function of the families at all:
`Continues` says what it is without a choice, and two values that satisfy it are
equal (`ContinuedOnly`), because a family has one live token (`OneLive`, from
`FamiliesInOrder`). Then each operation of the store maps to what it does to the
chains: storing begins one, rotating moves one on, revoking ends one or all of a
subject (`RevokingContinues`), and the steps in which a grant waits for its
signature are stutters. That a grant begins a chain that never was needs one
more conjunct: a family was given out when its first token was (`FamiliesGiven`).

*The format.* `LevelReads` and `LevelSpares` are about one level, any schema that
is in order (`SchemaInOrder`) and any reader and writer of the inner types that
read as `AsRead` says of those (`InnerReads`). In order means what a reader of
`serialize.ts` has to look for: no two fields of a type share a key in any
spelling, the key written is one of those looked for, every variant of a
union has a key by which it, and none before it, is found, and the keys that
are sent and not looked for are where the losses are said to be
(`LossesInOrder`). The field is found
under its own keys (`OwnKeys`), whatever else the object holds, and read as what
was written there. `Wire` then cites the two theorems once per level: strings
are read as they are written, so each level's `InnerReads` is the theorem of the level
inside. That the program's schema is in order is `SchemaAssumption`, a formula
about the constant tables of `WireSchema`, which the run of `Gateway` evaluates.
`LetterInOrder` says what each phase of a letter holds. The theorem is for any
set `Letters` of values of the types, lists and maps of any length included.

*The gateway.* Its parts share no variable, so a behaviour of it is one of each
part (`GatewayIsItsParts`), and the theorems above hold of the whole.

**Webhooks** (from `WebhooksAssumption`). What is true of one delivery
(`OneAtATime`): its messages are begun one by one, and it is answered before its
handler ends unless the server waits for it. Of two deliveries: whichever was
admitted last left a lock of its time or later behind, so another one of the
same process is a TTL away; and what is refused found such a lock.
`RegistrationInv`: undisturbed, at most one call to Telegram is under way, and
it says what the server last did.

**Payments and balances.** `PaymentsInv`: a receipt belongs to a request that
was settled and a settled request to a receipt (`ReceiptsSettled`), without a
chain to one (`SettledOnce`). The balances are compared with sums over the mint
records. A payment debits what the token says, the sum adds up what the record
says: `BooksInv` has every signed token of this ledger say the same as its
record (`Genuine`), which a header that is sent again, damaged or made by
another ledger does not break. The sum is a recursive function; that it changes
by one summand when one summand changes (`SumChanges`) is proved by induction
for a set of numbers, from the well-foundedness of the naturals, which needs no
operator as a parameter.

**The other services of `Runtime`** (from `RuntimeAssumption` and the
components' own). Each is proved of the component and lifted: the others leave
its variables alone.

* *Rooms.* An open connection is known, or astray (`OpenIsKnown`).
* *Consensus.* `BallotInv`; that the ranking's first entry is one nobody beats
  (`FirstIsBest`) rests on the existence of a least position. A verdict is what
  `EvaluatedRests` and `ThresholdedRests` say of any answers.
* *Plugins.* The registry awaits plugins' code in the middle of a loop, so each
  action is two halves: a call leaves the plugin it waited for, and comes to the
  next one. `RegistryInv` (every subscription in its owner's entry, no id in two)
  holds between the halves too. That a plugin hears its events once is
  `Subscribed`: a plugin only one call is at has one subscription if it runs and
  none otherwise.
* *Specialists.* `JobInOrder`: a job at work has answered nothing, and only a
  failure that was absorbed is noted as one.
* *Questions.* What is kept under an id on the board was asked there, under that
  id (`KeptUnderItsId`), so an answer reaches the question it is for, or a form;
  what was accepted stays accepted (`AcceptedStays`), so who decided it does.
* *Sessions.* What is in a history was answered, and the session an answered
  line is filed under no longer changes.

Only model-checked: `WorkEnds`, which is liveness, and the violations, each a
counterexample. That the schema is in order is evaluated by TLC, not proved: it
is one formula about a table of some hundred fields. The type invariants other
than those of the loop and the store are parts of the inductive invariants
above and are not stated as theorems of their own. Nothing uses ENABLED.

## 5. Limits of the models

* A crash in `Orchestrator` happens at awaits only; deaths between two
  statements are in `TaskStore`.
* Store writes do not fail: the database waits five seconds for a lock.
* The agents are a static configuration, so an agent of the registry always has
  a URL; an empty registry is not modelled.
* Without the dispatcher, which the repository does not have, no task gets a
  second retry, so the dead letter queue stays empty; the properties of dead
  letters are checked with it, as a conservative assumption. It calls
  `execute` without a caller, because none is stored.
* The server is modelled with a task store. `runtime/orchestrator.ts` passes it
  none, in which case CancelTask and subscriptions are error replies.
* A client that hangs up a stream has no action in `A2AServer`: `cancel()` drops
  the stream's controller and nothing else, so the handler runs on, the request
  stays counted until its task ends, and later frames, the final one included,
  are sent to nobody. "Carried a final frame" in `StreamsTellTheEnd` is said of
  what the server sends.
* Signatures are whether they match; texts, prompts and formatting are
  abstracted everywhere.

## 6. Observations

What the models show of the code and no document contradicts; each is modelled
as it is.

* A parent is completed after a handover even if its child failed
  (jabir.ts:330); a contested verification makes a handover undecodable
  (jabir.ts:210).
* The peer that `runVerification` asks is the first available agent, whether or
  not the caller may invoke it (tool-router.ts:300).
* An agent's event reaches the plugins directly and again through the realtime
  bridge (lifecycle.ts:168).
* Push tasks are not counted, so a shutdown does not wait for them. SIGTERM
  skips the drain of an agent's server.
* PATCH on a push configuration asks for the scope of its deletion.
* A webhook's lock stays after a handler failed, so the provider's next attempt
  is refused as a duplicate.
* A payment is used up before its amount is compared with the price; with a
  chain, two checks of one token can both succeed. A server that is given a card
  without its settlement pricing goes by the card's `costPerTask`
  (x402-server.ts:103), the client by the settlement's (x402-client.ts:155).
* A plugin whose shutdown awaits `onShutdown` while `initializeAll` subscribes it
  ends shut down with a live subscription, and every later shutdown returns
  before it would remove it (plugin-registry.ts:378).
* "Parse: lenient (camelCase + snake_case + legacy discriminators)"
  (serialize.ts:4) has gaps: see `ReadAsWritten` above (serialize.ts:148, 252,
  723, and `parsePart` on `function_call`).
* `executeConsensus` reports the best answer whatever its score. A single answer
  makes the router report a consensus of 0.5; an agent without
  a success rate on its card cannot reach the threshold of 0.7; the
  verification agent's answer loses a contested verdict.
* The librarian reports a skill as saved even if it existed; a diff is answered
  "completed" when it failed.
* An MCP client whose first connection failed never connects again.
* All forms of the Hermes port share one key, so an answer that comes after its
  form timed out decides the form that was filed next (elicitation-port.ts:240).
* The poll of `mcp-resources.ts`, said to be called every second
  (mcp-resources.ts:178), is dropped by `protocols/mcp/server/tools.ts`.

## 7. What comes next

1. Abstract specifications of more components, in the way of `TaskLifecycle` and
   `TokenChains`: the ledger as accounts, the plugin bus as a set of hearers.
2. A module for the MCP resources with the subscription manager: subscribers
   and the poll nobody calls.
3. The posting of push notifications by `A2AServer`, which nobody waits for.
