# A TLA+ model of the confidential model router

The router is a reverse proxy in front of inference enclaves. It verifies each enclave by
remote attestation before it uses it, spreads requests over the verified enclaves of a
model, rejects them when a backend is overloaded, lowers the priority of keys above their
rate, bills the tokens the backends report, and runs the code interpreter for the models
that call it.

This directory holds the TLA+ modules that model it, the TLC configurations that check
them on small instances, the proofs that TLAPS checks for instances of any size, and
`PROJECT.json`, which maps every definition to the lines it models. Each module comes
from one part of the code:

| module | code | checked by | proved in |
|---|---|---|---|
| `EnclaveRegistry` | `manager/manager.go`, tail of the handler in `main.go` | `registry_*` | `EnclaveRegistryProofs` |
| `OverloadMetrics` | `manager/metrics.go`, gauges of `prometheus.go` | `overload_control` | `OverloadMetricsProofs` |
| `RequestTracker`, `FixedWindow` | `ratelimit/tracker.go`, `shouldDemotePriority` | `tracker_window` | `RequestTrackerProofs` |
| `BillingCollector` | `billing/events.go`, shutdown in `main.go` | `billing_collector` | `BillingCollectorProofs` |
| `ProxyResponse` | `manager/proxy.go`, `tokencount/extractor.go`, `usage_writer.go` | `proxy_*` | `ProxyResponseProofs` |
| `SandboxSession` | `builtins/codeinterpreter/*`, cleanup in `openaiapi/chat_runner.go` | `sandbox_*` | `SandboxSessionProofs` |
| `RequestPlan` | `main.go`, `openaiapi/plan.go`, `request.go`, `runner.go`, `Prepare` of both tools | `request_handler` | `RequestHandlerProofs` |
| `ResponsesLoop` | `openaiapi/responses_runner.go` | `request_handler`, `handler_incomplete` | `RequestHandlerProofs`, `ToolCallsProofs` |
| `ChatTools` | `openaiapi/chat_runner.go` | `request_handler` | `RequestHandlerProofs`, `ToolCallsProofs` |
| `UpstreamCall` | `manager/upstream.go`, `openaiapi/util.go` | `request_handler` | `RequestHandlerProofs` |
| `RequestHandler`, `ClientExchange` | the four above, composed; what they promise the client | `request_handler` | `RequestHandlerProofs`, `ToolCallsProofs` |

`MC<module>` gives the constants of a module their values for TLC; the `.cfg` files choose
the instance.

## Inventory: the parts of the system

**Model registry and sync worker** (`manager/manager.go`). State: for each model its
repository, release tag, source measurement, overload and rate settings, and the pool of
enclaves by host; the errors of the last round. One goroutine (`StartWorker`) runs a round
per refresh interval: it loads the configuration and the hardware measurements, then
starts a goroutine per model, which looks for a new release, replaces the measurement and
empties the pool, applies the settings, removes hosts, and attests each host under the
model's lock. Requests read the pool (`NextEnclave`) under the read lock and use the entry
afterwards. The status page encodes all of it. Hard: a round against requests, the status
page and the shutdown; failures of each external service at each step; a host that
restarts with another key or other code.
Correct when: only enclaves verified against the current release are in the pool; answers
come from such code; every listed host is accounted for; the pools converge.

**Overload control** (`manager/metrics.go`). State of each pool entry: settings, latest
sample with its time, overload flag, a poller goroutine with its cancel function; two
gauges shared by all entries of a host. `setConfig` and `shutdown` cancel the poller and
wait for it, the first with two locks held. Hard: a scrape in flight while the settings
change; `select` between a due tick and the cancellation; samples that grow old.
Correct when: a rejection rests on a sample that is recent enough, polling that is off
leaves nothing behind, and nobody waits for a poller for ever.

**Rate tracker** (`ratelimit/tracker.go`). State: a bucket per key and model with the
minute it counts, and the time of the last cleanup. Hard: the clock is read before the
lock, so calls are recorded out of order and late; cleanup is lazy; limits change.
Correct when: it answers as a plain counter per minute, and forgets unused buckets.

**Billing collector** (`billing/events.go`). State: the queue, the batch in submission, the
sender goroutine, the quit channel. Hard: handlers append while the sender copies and
truncates; submissions fail; the process stops while streams still report usage.
Correct when: no event is sent twice or vanishes silently, and `Stop` flushes.

**Proxy answer and token extraction** (`manager/proxy.go`, `tokencount/extractor.go`,
`manager/usage_writer.go`). State of one request: the reader and the goroutine of a stream,
the pipe between them, the recorded usage, whether usage was billed, the trailer. Hard: the
client leaves at any moment; usage arrives in pieces, hidden from some clients; two
places may bill; the trailer is written by another goroutine than the one that knows it.
Correct when: the client gets what the backend sent, each answer is billed as it should
be, and the header agrees with the bill.

**Code interpreter container** (`builtins/codeinterpreter/`). State of one request: the
runtime, its container or sandbox and its credential. Sandboxes are created, polled,
attested, claimed, used and deleted over HTTP. Hard: every step may fail after it has taken
effect; the check for a container and its installation are two critical sections; the
cleanup has a context of its own.
Correct when: code runs in one container, attested and claimed once; what was created is
deleted, but never under a running call.

**HTTP front end and request plan** (`main.go`, `openaiapi/plan.go`, `request.go`, `runner.go`,
`builtins/websearch/`, `Prepare` in `builtins/codeinterpreter/tool.go`). State of one request:
the model that is called, the body that is sent, who has asked for usage. The front end
takes the model from the subdomain, a query, a form or a body; a JSON request gets a plan,
which rewrites priority, usage options and tools, and is then proxied or handed to a
runner. On SIGTERM `server.Shutdown` waits 10 s for the handlers, then
`EnclaveManager.Shutdown` stops the collector and the pollers. Hard: many steps rewrite
one body, each from fields of its own, on paths that differ in which of them apply.
Correct when: the enclave gets the client's request with the router's decisions in it, and
nothing of the client's is lost.

**Responses tool loop** (`openaiapi/responses_runner.go`). State of one request: the input of the
next hop, the public output, the accumulated usage, the sequence number; of a hop: the calls
announced, whether there was one, the completed response. The model is called up to twelve
times; after each answer its calls of the tool run, and their outputs go into the next
input. Hard: one answer, one bill and one stream are put together from those of several
hops; each hop may fail after others have been used; the client may own some of the calls.
Correct when: the model's input is a conversation it can continue, the output has each
execution once, the stream is one stream, and usage, header and bill agree.

**Chat tool runner** (`openaiapi/chat_runner.go`). State of one request: the calls put together
so far by choice and index, the last usage. Hard: a call arrives in pieces, mixed with those
of others; the calls run in the random order of two maps after the stream has ended.
Correct when: each call runs once with its own arguments and its result stands at its place.

**Upstream invoker** (`manager/upstream.go`): the calls of a runner to the one enclave chosen for
the request, and a billing event for each answer. No state of its own.

**The rest**: configuration loading (`config/`), the Prometheus counters, the
result decoding of the interpreter, the command line client and the load test keep no state
that outlives a call. `PROJECT.json` says of each what is modelled.

Interaction: the front end calls the registry for an enclave, the enclave's overload control
for a verdict, the tracker for a priority and the enclave's proxy for the answer; the proxy
and the runners add events to the collector; the registry's worker creates, configures and
stops the overload control of its entries. Each module models one of these parts and the
calls it gets from the others; what they share is small: a pool entry
(`EnclaveRegistry` keeps its settings and whether its poller runs, `OverloadMetrics` all
of it), an event (`ProxyResponse` and `RequestHandler` say which are added, `BillingCollector`
what becomes of them), the verdict of the rate limit (`RequestTracker` gives it,
`RequestPlan` takes any) and an execution (`SandboxSession` says where it runs,
`ResponsesLoop` and `ChatTools` that it succeeds or fails).

## How the modules correspond to the code

**EnclaveRegistry.** `config`, `service`, `release` and `host` are the environment: the
configuration file, the three services, the latest release of each model and, per host, how
it answers, what code it runs and how often it has booted. The boot number stands for the
TLS key, made inside the enclave at each boot: an attestation binds key and measurement, and
the proxy's transport accepts that key only. `tag`, `source`, `settings`, `pool` are the
fields of `Model`. The goroutine of a model has a program counter (`syncpc`) whose steps end
where other goroutines may interleave: `Delisted`, `RepoChanged`, `FetchLatestTag`,
`FetchMeasurement`, `InstallMeasurement`, `ApplyConfig`, `BeginAdd`, `ProbeKey`, `Attest`,
`EndModel`. The model's lock is held from `BeginAdd` to the end of `addEnclave` (`Locked`);
other critical sections are one step. Requests take `NextEnclave`, then `Reject` or
`Serve`. The order of Go's maps is random, so `NextEnclave` may choose any entry and the
hosts come in any order. A map that is written while the status page ranges over it is
undefined in Go: `MapWrite` allows both outcomes of the runtime's detection.

**OverloadMetrics.** One host and the entries (`Objects`) it has over time. `op` is the
`setConfig` or `shutdown` under way, split at `wg.Wait`: the cancellation is in the step
that starts it, `FinishSet` and `FinishStop` are enabled when the poller has returned. A
scrape is `Send`, `Answer` or `Fail`, `Store`; a request reads the settings and the sample
in two steps. Time is in poll intervals: `IntervalEnds` lets every sample grow older and
every ticker fire; ages are capped just above the staleness limit, which loses nothing
because only "not older than the limit" and "one more" are told apart.

**RequestTracker.** A time is a minute and a tick in it. `ReadClock` and `Record` are the
parts before and under the lock. `FixedWindow` is the promise: a counter per key that is
reset at the minute. The refinement maps the table to `Used`, the number of calls of the
present minute, and the calls to their stages.

**BillingCollector.** `queue`, `batch` and `sender` are the collector; `main` and `drain`
are the shutdown; a handler may end, or leave a stream goroutine behind (`Disconnect`),
which adds its event whenever it likes. `Mode` is "log" without a control plane.

**ProxyResponse.** `proxy` is the handler, `extractor` the goroutine of a stream. A line is
a kind and the usage it reports; a body is what it reports and whether it is above the
buffering limit. JSON, SSE framing and header formats are abstracted to that. The library's
reverse proxy is external: it copies, closes the body, and aborts when the client is gone.

**SandboxSession.** One request. `mode` is the runtime chosen by `newRuntime`; "shared"
lets two calls run at a time, which the lock of `SandboxManager` is written for although
the handlers call it one by one. `box` is what exists at the service. `faults` records
which kinds of failures have happened, so that properties can say what they cover.

**RequestHandler** is one request from its arrival to its end. `step` is where its handler is; the
three modules add the steps of their part of it, and `UpstreamCall` declares what they
share: what the client has got (`status`, `out`, `shown`) and what is billed (`billed`).

`RequestPlan`: `request` is what the client has sent, `body` what is made of it, both as the
fields the router reads or changes: each step of the plan is an action, and what a tool
makes of a body (`SearchPrepare`, `InterpreterPrepare`) is an operator with a verdict. When a
runner takes over, the request is reduced to what the runners read (`call`).

`ResponsesLoop`: an item is its hop, its place and its kind: a message, a function of the client
("user"), a call of the tool, with or without an item id ("anon"). `input` is
`internalInput`, `public` is `publicOutput`. One iteration of `processResponsesOutput` is a
step, so is one event of a stream (`ReadEvent`) and each event that is written (`WriteEvent`),
as the client may leave, a write fail or the stream break between any two. All events of a
message or of a function of the client are one event. `executed` and `reported` are history.

`ChatTools`: a call of the model is its choice, its index, its name and a number of pieces, which
arrive in any order of the calls. Usage may be reported with each chunk. The order of the
executions is that of Go's maps: any choice, then any call of it.

`ClientExchange` is what a client may rely on: one status line that never changes, a stream that
begins with 200 and is closed by its end or an error, a hand-over to the reverse proxy only
while nothing is written, and an end. `ImplementsExchange` maps `step` and `status` to it.

History variables (`expected`, `answered`, `granted`, `lastSeen`, `sent`, `claims`, `ran`,
`faults`, `executed`, `chatRan` and the like) are read by properties and never by a guard of the modelled code.

Definitions that begin with a comment "Mutant" are not part of the model. Each is a copy of
a definition with a plausible bug; `PROJECT.json` names, for every property, one such
bug that breaks it under the same configuration.

## What the runs check

* `registry_safety` - `PoolVerified`: a pool holds enclaves of the current release only, one
  per host. `ServedVerified`: the answer comes from code of the release in force when the
  enclave was chosen, although the entry is used without the lock. `SettingsApplied`,
  `RoundAccounted`, and the action property `FrozenUnlessListed`: a delisted model keeps
  its enclaves through the round. One model, two hosts, two releases, four configurations,
  a request, two changes of the environment at any time. One model suffices as models share
  nothing but the round; two changes are enough for a change and its reversal, or for two
  services to change within a round.
* `registry_liveness` - `Converges`: when the environment comes to rest with everything up,
  a listed model reaches the latest verifiable release, the settings, and all of its good
  hosts for good. `ShutdownEnds`. With the status page and an unverifiable release. The
  configuration may delist the model, which stops the pollers of its pool, and list it again:
  then the entries that have stayed must get the settings and their pollers back.
* `overload_control` - `RejectionJustified`: a rejected request met a queue of the
  configured length within the staleness limit and one interval, however the settings
  changed between the two reads. `DisabledIsClean`, `ShutdownIsQuiet`: late scrapes leave no
  trace, and the gauge agrees with the flag. `RejectionEnds`: the enclave stops turning
  requests away for good when its queue stays short, and also when from some time on no poll
  succeeds, or none but on a short queue, however long the queue is. `OperationsReturn`:
  `setConfig` and `shutdown` return although `select` may take a due tick after the
  cancellation; the locks are not modelled, so that the poller needs neither of those that
  `setConfig` holds while it waits (`mu` and the model's) is read from the code: it takes
  `cfgMu` and `latestMu` only (`metrics.go:191-205`). Deadlock is checked.
  One entry and its full life; with a second entry of the same host the state space is
  beyond a quick run, and what it adds, gauges that two pollers write, is described below.
* `tracker_window` - `ImplementsFixedWindow`; `BudgetRespected`: under a limit of n at most
  n - 1 calls keep their priority; `BucketsExpire`. Five minutes of two ticks let a bucket
  become stale and a cleanup meet it; three calls let two contend while a third is late.
* `billing_collector` - `Conserved`: an event is queued, in the batch, delivered or lost, and
  in one of these only; queue and batch are sets here, so that the two do not share an array
  (`events.go:159-163` copies) is read from the code. `StopFlushes`, and `SenderServes`: the queue drains and
  `Stop` returns. Three requests: one queued, one in the batch, one late.
* `proxy_response` - `PassesThrough`: the lines reach the client in order, without gaps but for
  the hidden ones, and all of them if nobody breaks off; `BilledOnce`, `HeaderMatchesBill`;
  `StreamEnds`: neither the goroutine of a stream nor its client is left waiting. Three lines allow a hidden chunk, its
  blank line and another line, or three reports that overwrite each other.
* `sandbox_session` - `OneContainer`, `NoLeak`, `RouterKeepsInstalled`, `DisconnectEnds` in
  all modes, with two calls and a spare box. `DisconnectEnds` says that a request ends when its
  client has left, also while it polls, provided that the attestation of its sandboxes ends.
* `request_handler` - one request of every kind (964 of them: every path, host, key and
  model; every combination of priority, usage options and stream; twelve sets of tools with
  every tool choice and container). `BodyIsRewritten`: what is sent is the client's request
  but for what the router decides; two functions of the client show that their order is kept.
  Of the priority it says that the client's own never survives, not which the router
  sets. `ReplayAnswered`: the input of each hop answers each call
  once and repeats nothing. `UsageAddsUp`: answer, usage header and bill agree over all hops
  and reports, and code runs for billed answers only. `ExecutedIsReported`: the output has the
  executions of all hops once and in order. `StreamWellFormed`: consecutive numbers, the
  events of an execution in order and before the end of the response, and nothing but an error
  after that end. The end is `response.completed`, or the `response.incomplete` of a hop
  that has not called the tool; the `response.incomplete` of a hop that has is passed on as
  well, and behind it come only later hops, their end or an error. `CallsRunOnce`: each chat call
  runs once, whole, and its patch stands under its index. `ImplementsExchange`, with
  liveness. Three hops instead of twelve: one without tools before it, one in the middle and
  one at the limit; up to two items per hop, which covers a call beside a message, a call of
  the client or another call; three chat calls over two choices, of up to two pieces, so that
  pieces interleave; usage 0 and 3, so that a report may be missing.

Where a run says `CHECK_DEADLOCK FALSE`, the system may stop: the process exits, a request
ends, the environment has used up its changes.

### Bounds

`MaxChanges` (changes of the environment or of limits), `MaxMinute`, `MaxStall` (ticks a
call may be suspended; two ticks are a minute), `MaxLines`, `MaxChunks` (chunks
of a chat stream without a piece of a call), and the sizes of the sets. They bound inputs; no
guard of the modelled code depends on them but those of the inputs and of `ScanLine`, where a
stream ends after `MaxLines` lines. `MaxHops` is a limit of the code, with a smaller value.

### Fairness

A goroutine that can run runs (weak fairness of its steps), tickers fire, and a `select` that
is offered a ready channel again and again takes it at some time (strong fairness of
`OnQuit`, `Return`). A lock that is free again and again is obtained (strong fairness of
`ShutdownModel`; Go's `RWMutex` prevents starvation). A cancelled read returns. Nothing is
assumed of backends that stay silent, of clients that neither read nor leave, of signals,
or of changes of the environment. The hosts of the liveness run answer or fail: the one that
neither answers nor fails is discussed below. In `RequestHandler` the handler goes on (weak
fairness of its steps, which include the answers it waits for): a runner passes the context of
the client's request to each call, so a call ends with an answer, with an error, or with the
client's leaving. The exception is the attestation of a sandbox: `Bootstrap` calls `NewClient`
without the context (`sandbox_bootstrapper.go:34`), and the time-out is set when the attested
client is there (`client.go:115-120`). A sandbox that accepts the connection and stays silent
keeps a request alive after its client has left. So `DisconnectEnds` has the end of each
attestation as its antecedent, while the polling, which only the client's context ends, may go on for
ever; and the fairness of `ImplementsExchange` covers an attestation in its executions only
under the same assumption. For a client that stays connected to a silent model nothing is claimed: such
a request has no time-out in the code.

## What is proved

TLAPS checks these theorems for all values of the constants that satisfy the named
assumptions of the modules. These state the types of the constants, and that a host's
reports include one of some tokens (`ProxyResponse`) and a request has finitely many calls
(`SandboxSession`). Two theorems have a hypothesis of their own, named below. Every safety
invariant and action property that a passing run checks is stated by one of the theorems.
Most invariants are not inductive as they stand; the strengthening of each module, `IInv`
unless named otherwise, is at its end, and TLC has found each true on the instances of the
runs before its proof. The proofs go action by action.

* `EnclaveRegistryProofs`: `TypeCorrect`, `PoolAlwaysVerified`, `SettingsAlwaysApplied`,
  `AnswersAlwaysVerified`, `RoundsAlwaysAccounted`, and `UnlistedStaysFrozen`, an action
  property. `LocalsLoaded` says which locals of a model's goroutine hold a value at which step,
  so that `Attest` is known to follow a fetched measurement. `KeyBindsCode` says that an
  entry, in a pool or in the hands of a request, never has a boot number its host has not
  reached, and has the host's measurement when it has the host's boot number: that is why
  a host that restarts between `NextEnclave` and `Serve` cannot answer with other code.
  `Accounting` follows the hosts of a round through `todo`, `current`, the pool and the
  errors. Steps that leave the model alone have lemmas of their own (`QuietSafe`,
  `QuietAccounting`).
* `RequestTrackerProofs`: `TypeCorrect`, `BudgetAlwaysRespected`, `BucketsAlwaysExpire` and
  `TrackerImplementsFixedWindow`, the refinement. The invariant `IInv` adds that no bucket
  and no call is ahead of the clock and that calls which kept their priority have been
  counted (`GrantedIsUsed`). `CurrentNotStale` is the heart: a bucket of the present minute
  is never stale for a caller's time, so no cleanup deletes it; `RecordEffect` and
  `RecordUsed` say what one call does to the table and to its abstraction. `BucketsAlwaysExpire`
  assumes `MaxStall <= LastTick + 1`: a call that reads the clock, waits for the lock longer
  than a minute and stores its old minute leaves a bucket that was stale at the last cleanup.
* `BillingCollectorProofs`: `TypeCorrect`, `EventsConserved`, `StopAlwaysFlushes`, from
  `Placement` (where an event can be) and `Phases` (how the sender, the quit channel and
  the end of the process belong together).
* `SandboxSessionProofs`: `TypeCorrect`, `AlwaysOneContainer`, `NeverLeaks`, and the action
  property `InstalledIsKept`. A call sets up a box that is its own (`OwnBox`), with as many
  claims as its position says (`ClaimedBeforeInstalled`); two calls are at work in the mode
  "shared" only (`OneAtATime`). `NothingForgotten` is what `NeverLeaks` needs before the end:
  what lives at the service is installed or being set up.
* `OverloadMetricsProofs`: `TypeCorrect`, `DisabledAlwaysClean`, `RejectionsJustified`, and
  `ShutdownStaysQuiet`, an action property. `SamplesSeen` relates what a poller has read,
  or a sample keeps, to the last interval in which the backend had that queue; with
  `Deciding`, what a request has read so far, it makes a rejection justified. For the
  others, only the poller of the operation under way is cancelled (`OneOperation`), an
  object without a configuration is clean (`CleanUntilConfigured`), and the gauges
  agree with the flag while the host has had one object (`GaugeAgrees`, `PollsInPool`).
* `ProxyResponseProofs`: `TypeCorrect`, `LinesPassThrough`, `AnswersBilledOnce`,
  `HeaderAlwaysMatchesBill`. `Stages` says which positions of handler, goroutine and pipe go
  together; `Recorded`, that the recorded usage is the last one reported of each field;
  `StreamBill` and `BodyBill`, what has been billed and noted at which position; and
  `Delivery`, that the client lacks no more than the line that is being written.
* `RequestHandlerProofs`: `TypeCorrect`, `UsageAlwaysAddsUp`, `BodyAlwaysRewritten`, and
  `StepsOfTheExchange`: the handler starts in a state of `ClientExchange` and each of its steps
  is one of its steps or a stutter, which is `ImplementsExchange` without the fairness.
  `Ownership` says which part of the router has the request, `PlanReady` what it is handed,
  `StreamPlace`, `Beginning` and `NothingCounted` where a stream is and what the client has
  got of it by then, `UsedIsBilled` and `FinalIsTotal` that billed and reported tokens are
  the used ones at every position, `Queued` and `Arriving` what is about to be written and
  to arrive. `BodyGrows` gives the difference between body and request after each of the three
  plans; lemmas about `Only` (`OnlySame`, `OnlyTwice`, `OnlyAppend`) say that dropping
  some tools and adding another keeps the rest in its order, for any list of tools.
* `ToolCallsProofs`: `ReplayAlwaysAnswered`, `ExecutedAlwaysReported`, `CallsAlwaysRunOnce` and
  `StreamAlwaysWellFormed`, for any number of hops. `ReplayGrows`: the items of a hop are told
  apart by hop and place, and none is in the input before its hop ends. `RunIsPublic`: what
  has run is what the output so far reports, and a hop without a call of the tool adds none.
  `RunsOwn`: a builder is what has arrived of its call, and what has run is
  a call of the tool, whole. `StreamGrows` is about the events written and those queued behind
  them (`Said`): as much has been told of a call as the model has sent of it (`Sent`), all of
  it once the hop has ended, and nothing is queued behind the final event, nor written but an
  error (`FinalTold`, `FinalLast`). `EndsGrow` is the same for `response.incomplete`: it is the
  last event of its hop, written or queued alone, so the output of that hop is empty
  (`IncompleteWritten`, `IncompleteQueued`); when its hop has called the tool, the call is in
  the stream before it (`HopShown`, `InStream`), and otherwise the stream ends with it
  (`Stops`, `StopTold`, `StopLast`). `CallsAlwaysRunOnce`
  assumes `CallsDistinct`: two calls of an answer differ in choice or index.

Only model-checked, as the prover does not reach liveness and fairness: `Converges`,
`ShutdownEnds`, `RejectionEnds`, `OperationsReturn`, `SenderServes`, `StreamEnds`,
`DisconnectEnds`, and the fairness of `ImplementsExchange`. The four violations below are TLC's
counterexamples.

## Where code and comments disagree

Four runs (`expect: violation`) show a disagreement; `PROJECT.json` quotes the lines.

* `registry_status`: the status page reads the pools without their lock
  (`manager.go:199`).
* `proxy_longline`: a line above 64 KB ends a stream as if it were complete
  (`extractor.go:171`).
* `sandbox_cleanup`: the 30 s of the cleanup start with the request, so a longer request
  does not delete its container (`chat_runner.go:266`).
* `handler_incomplete`: a hop of a Responses stream that calls the tool and ends with
  `response.incomplete` is neither billed nor counted (`responses_runner.go:278`); its calls
  are dropped, and the model is asked again with the same input.

Met while modelling, and not given a run:

* `addEnclave` is to replace an entry "if the TLS key fingerprint is different"
  (`manager.go:122`), but an entry whose host has another key by now stays in the pool when
  the new attestation is rejected (`manager.go:166`), and the requests that get it fail.
* An orderly shutdown can leave an event in the queue (`events.go:142`): the goroutine of a
  stream whose client has left bills after the final batch.
* A Responses stream whose last hop calls no tool and ends without `response.completed`
  panics on a nil map when an earlier hop has had output (`responses_runner.go:304`): the
  connection is dropped.
* A hop of a Responses stream that calls the tool and ends with `response.incomplete` passes that
  terminal event on (`responses_runner.go:290`), but the loop goes on: the client gets the
  events of the next hop and a second end behind it, and the calls announced never run.
  `StreamWellFormed` states what holds of it; `handler_incomplete` shows what it costs.
* The attestation of a sandbox has neither the request's context nor a time-out
  (`sandbox_bootstrapper.go:34`): see Fairness.
* "tool_choice={type:"code_interpreter"} is rewritten to force function calling"
  (`tests/e2e/responses_ci_test.go:518`), where `Prepare` sends "auto" (`tool.go:461-467`) and
  says why. `InterpreterPrepare` is what the code does.
* An error after the first event of a stream is written into the stream as JSON
  (`plan.go:134`), and so is the answer of a later hop with status 400 or above
  (`responses_runner.go:200`). `ClientExchange` describes it: the status stays 200.
* `RecordUsage` "emits a billing event for a successful direct invocation" (`upstream.go:73`), but
  the JSON runners call it before they look at the status (`responses_runner.go:74`,
  `chat_runner.go:54`), so failed answers are billed too. A chat stream that breaks is not
  billed, although it may have reported usage (`chat_runner.go:207`).
* A chat stream that ends without `[DONE]` is taken for a complete one; a call of which only
  some pieces have come is executed with them (`chat_runner.go:207`).
* The output index of a hop's events starts again at 0, so events of several hops share
  indices (`responses_runner.go:222`).
* A pool without an enclave is 503 for a proxied request and 404 for one with a tool
  (`plan.go:120`).
* Priority, rate limit and usage options apply to the JSON API on the router's own host only:
  a request by subdomain, for audio, conversion or realtime is passed on as it is
  (`main.go:357`).
* `attestationFetch` has no timeout (`manager.go:103`) and is called with the model's lock
  held (`manager.go:132`): a host that accepts a connection and never answers stops the
  model's requests, all later rounds, and `Shutdown`, whatever `REFRESH_INTERVAL` says.
* "NextEnclave gets the next sequential enclave" (`manager.go:263`), but the slice it indexes
  is filled in the random order of a map (`manager.go:275`).
* The gauges of a removed enclave keep their last values (`metrics.go:152`), although they
  are said to show "whether a backend is currently in overload state"
  (`prometheus.go:37`).
* A replaced entry is not shut down (`manager.go:169`): its poller goes on, and writes the
  gauges of its successor's host.
* The call that reaches the limit is demoted already (`tracker.go:89`), where the comments
  speak of keys that have exceeded it (`tracker.go:49`, `config.go:17`). `FixedWindow`
  states what the code does.
* A JSON body above the buffering limit is not wrapped (`proxy.go:197`), so it is not billed,
  although `proxy.go:49` speaks of an event for answers without usage. `BilledOnce` excludes
  this case.

## Not modelled

The contents of attestations, signatures and certificates (libraries); JSON, SSE and HTTP
formats beyond what properties tell apart; WebSocket traffic after the upgrade; logging and
counters; the command line client; the load test. `GetEvents` and `Clear` of the collector,
which only tests call. How the interpreter's results are decoded into outputs. In
`RequestHandler`: two streams that share an output index, code that is empty, and answers to a
client that the reverse proxy gives (they are `ProxyResponse`'s).

## Plan

Done: all modules named in the table, their runs, and the proofs of every safety property and
action property of a passing run.

Next, proofs:

1. A refinement of `SandboxSession`: an abstract container that is claimed once, used and
   deleted, which the session implements in its sandboxed modes, first as a property of
   `sandbox_session` and then step by step.
2. `ResponsesLoop` without its bound on hops in the argument: which of the lemmas on `Said` hold
   of any queue of events, so that a change of the announcements needs fewer of them.

Next, modelling, where a later change of the code asks for it: a composition of
`EnclaveRegistry` and `OverloadMetrics` with several entries of a host, for the pollers of
replaced entries.
