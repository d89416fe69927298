# Verification of mcp-toolkit

TLA+ models of the packages of `github.com/giantswarm/mcp-toolkit`, the TLC
configurations that check them, and proofs of their properties for TLAPS. The source is the reference; line numbers are
those of the files under `src/`.

To check a model: `tlc -config MCHttpxRun.cfg MCHttpxRun`; to check a proof:
`tlapm HttpxRunProofs.tla`. `PROJECT.json` lists the runs, which lines every
definition models, a mutation that breaks each property, the hazards and the
theorems.

## 1. Inventory

The toolkit is a library: a program (an MCP server) composes its parts. Most of
them keep little state of their own; what is hard is what they do with the
contexts, goroutines, servers, results and SDK objects they are handed.

| Component | State | Operations | Interacts with | What is hard | What makes it correct |
|---|---|---|---|---|---|
| `httpx` | a channel, a goroutine, a shutdown context per call | `Run` | `http.Server` (calls), the caller's context, kubelet's grace period | cancel racing a failed bind, Shutdown before the listener is there, deadline racing the drain, a server that is reused | nil means drained; failures surface; nothing left running; always returns |
| `middleware/timeout` | one child context per layer and call | `New`, the wrapped handler | the caller's context, other layers, the tool handler | two reads of two contexts, parent and child ending in either order, stacked layers, a handler that does not listen | the layer that is blamed is the one that fired; a caller's own cancel passes through; answers are final; contexts are released |
| `middleware/responsecap` | none; edits the handler's result in place | `New`, the wrapped handler | the result (shared memory), other middlewares, three callbacks | zero and negative limits, stacked caps, results shared by calls | what is too big never gets through; the rest is untouched |
| `health` | one atomic flag | `SetReady`, `IsReady`, two handlers, `Mount` | the program's start and stop, probes | order of `SetReady(false)` and the shutdown | not ready before start or after the cancel |
| a server built from the toolkit | the order of its main, calls in flight, time | start, warm-up, SIGTERM, cancel, `Run`'s return, flush, exit | all of the above, the platform's probes and its kill | several timeouts that must fit in each other; calls and spans on the way out | no call cut or refused but for a named reason; no span lost; an exit ahead of the kill |
| `tracing`, `metrics`, `logging.Init`, `internal/otel` | the process-wide providers and propagator; the exporter while nobody owns it | `Init` (`initWithReader`, `initWithExporter`), `Configured`, `Build` | environment, SDK, each other through the globals, the program's deferred Shutdowns | failing half way, being called twice, independence of the three signals | no pipeline without an owner; globals export through live pipelines; a failure is local |
| `logging` options | a config, while `Init` runs | the `With…` options, the choice of sinks | environment, `log/slog` | options in any order that read each other's results; the same sink twice | each record goes once to each sink that was asked for, at its level |
| `logging` handlers | immutable trees of handlers; records that share arrays | `Handle`, `Enabled`, `WithAttrs`, `WithGroup` of the fan-out and of the trace wrapper | `log/slog`, sinks | copies of a record that share memory, one failing sink, groups | every sink gets the record, and its own |
| `logging.RedactHost` | none | string rewriting | | regular expressions | unit tests |
| `tooldesc` descriptions | the prefix map of one `Check` | `Describe`, `Description`, `Summary`, `Check`, `CheckServer` | the server's tools, muster's discovery | the server lists tools in any order; schemas whose names look like keywords | exactly the faulty tools, in one order; `Describe` and `Check` agree |
| `tooldesc` page | none | `RenderDoc`, `RenderServerDoc` | the server's tools | fences around text with fences, ties in the order | the page reads back as the tools |
| `tooldesctest` | a file | `AssertDoc`, `AssertServerDoc` | the file system | an update that fails half way | an assertion passes exactly when the file holds the page |
| `brand`, root package, build | none | | | | |

Modelled here: everything but `RedactHost`, `brand`, the root package and the
build (section 5).

## 2. Modules

| Module | Models | Abstracts |
|---|---|---|
| `GracefulServe` | the contract of `httpx.Run`: the three phases of a call, the connections the server holds, what a result may hide | everything inside |
| `HttpxRun` | `Run`'s two goroutines, its channel, its two contexts, its `select`; of `http.Server` the shutdown flag, one listener, the connections, and the polling of `Shutdown` | bytes, TLS, hijacked and new connections |
| `HttpxRunProofs` | theorems about `HttpxRun`, the refinement of `GracefulServe` among them | |
| `ToolTimeout` | one call through N stacked layers; contexts as package context makes them: a timer only where the parent does not end earlier, ends that travel from parent to child in steps of their own | the text of the result |
| `ToolTimeoutProofs` | theorems about `ToolTimeout` | |
| `ToolCall` | calls through a stack that mixes caps and timeouts, on the way out: the in-place edit of the result one read or write at a time, over memory that calls may share | texts, but for their size and who wrote them; when a timeout fires (that is `ToolTimeout`'s) |
| `ToolCallProofs` | theorems about `ToolCall` | |
| `ServerLifecycle` | a program that composes `health`, `Run` (as `GracefulServe` promises it), calls with a timeout and the tracer's Shutdown, from start to exit, in time | which request is which; the metrics' and logs' Shutdowns, which run like the tracer's |
| `ServerLifecycleProofs` | theorems about `ServerLifecycle` | |
| `SignalInit` | the three `Init`s, step by step, in any order, and a program that defers their Shutdowns | attributes, exporters' protocols |
| `SignalInitProofs` | theorems about `SignalInit` | |
| `LogFanout` | the options one at a time, the sinks they and the environment make, and one record through those sinks while loggers are derived | what is printed: an attribute is its key under its groups |
| `LogFanoutProofs` | theorems about `LogFanout` | |
| `ToolDesc` | building a server's tools, their order, `Check`'s loop | wording of the errors |
| `ToolSchema` | the input schemas of those tools as JSON values, and `checkSchema`'s walk over them | any JSON value may stand under any key; numbers, booleans and null are one value, a text is its length |
| `ToolDoc` | extends `ToolDesc` with the page of the tools and the file it is asserted against | markdown's wording; an indented schema is one line |
| `ToolDescProofs` | theorems about `ToolDesc`, `ToolSchema` and `ToolDoc` | |
| `SeqLemmas` | lemmas about the community modules' `FlattenSeq`, for the proofs about options and pages | |

The `MC…` modules give the constants their values. Every module also holds,
marked as such, the plausible bugs its properties are tested against.

How they compose: `HttpxRun` implements `GracefulServe` (checked and proved), and
`ServerLifecycle` moves `Run` by the actions of `GracefulServe` only, so whatever
it shows of a server rests on the contract and not on `http.Server`. `ToolCall`
takes from `ToolTimeout` only what a layer may do to a result: replace an error,
or nothing. `LogFanout` starts where `SignalInit`'s `LoggingInit` ends.

### How state and actions correspond to the code

**HttpxRun.** `pc` is the caller's goroutine: `select` (line 42), `close` to
`wait` (inside `srv.Shutdown`, 52), `recv` (55), `done`. `gpc` is the goroutine of
lines 34-40, `serverErr` the channel of capacity one, `deadline` the shutdown
context. `SelectServer` and `SelectCtx` are the branches of the `select`; both may
be enabled. `Recv` is lines 55-60 with the deferred `cancel`. `Listen`, `Track`,
`Accept…`, `Poll…` and the connections are `net/http`'s as `Run` depends on them:
`ListenAndServe` looks at the shutdown flag before it binds and again before it
registers the listener; `Shutdown` sets the flag and closes the listeners, waits
until `Serve` has let go of them, and then alternates closing idle connections
with waiting for a tick or its deadline.

**ToolTimeout.** `EnterWrapped` and `EnterDisabled` are lines 32-41 of a layer;
`Keep`, `Suspect`, `Blame` and `Absolve` are lines 51-58 split where the code reads
twice: `ctx.Err()` first, `parent.Err()` later, and anything may end in between.
Each way out includes the deferred `cancel`. One call is modelled because layers
share nothing between calls.

**ToolCall.** Layers are numbered from the outermost; a call comes back through
them from the last to the first. `CapPasses` is the early returns of
`responsecap.go:85-94`; `CapLooks` enters the loop of
lines 95-111; `KeepItem`, `RejectItem`, `ReplaceItem` and `SetIsError` are one
iteration, cut at every access to the result, because the result belongs to the
handler: `contents[k]` and `flagged` are memory cells, cell 0 the one that a
handler hands out again and again, when it does (`share`). The length of the
slice never changes, so reading it once is reading it always. `TimeoutReplaces`
and `TimeoutPasses` are what a timeout layer may do to what it is handed.

**ServerLifecycle.** `main` is the program counter of a main as README.md and the
doc of `health` describe one; it is not under `src/`, nor is the platform. Of the
toolkit: `SetReady`, `Liveness`, `Readiness` and `Mount` are `health.go`;
`CloseServer`, `Drained`, `DrainedAfterFailure`, `OutOfGrace` and `ServerFails`
are `Run`'s steps and results as `GracefulServe` has them; `Answer` is a call that
ends, at the latest when its timeout has passed unless its handler is `stubborn`;
`RunReturns` and `Exit` begin and end the deferred Shutdown. Time is a tick that
ages every clock that runs, and no tick passes over something that is due.

**SignalInit.** `TracingInit`, `MetricsInit` and `LoggingInit` go as far as the
exporter; `NewExporter` is autoexport's success or failure; `Build` is
`internal/otel/resource.go` with the release of the exporter in the deferred
function when it fails; `InstallTracerProvider` and its two siblings make the
provider, hand the exporter over, set the global and return. A pipeline is
`exporter` (nobody owns it), `provider` or `closed`. The program is the one of the
README and the examples: it defers the Shutdown it gets, and after an error leaves
or goes on.

**LogFanout.** `ApplyOption` is one turn of the loop at `init.go:77-79`,
`InitReturns` the rest of `Init` up to `compose`: the primary first, then the
extras in the order of their options, then the mirror. `call` is one run of
`fanoutHandler.Handle` with its loop index and errors; `HandleChild` and
`SkipChild` are an iteration. A record is `log/slog`'s: a few attributes by value,
the others in a slice with length and capacity over an array that copies share.
`AddAttrs` appends in place when there is room, the way slog does, which is what
`Clone` is there to prevent. `WithAttrs` and `WithGroup` add a slice of derived
handlers and may run at any time.

**ToolDesc, ToolSchema.** `Describe` and `AddRawTool` build the server; `CheckServer` lists
the tools in an arbitrary order, as a Go map does, picks a budget and sorts the
tools, stably; `CheckTool` is one iteration of `Check`. A schema is a constant: the
JSON value that `schemaJSON` gives, an object being a function from its keys and an
array a sequence. `walkSchema` is the code's recursion over such values, written as
a recursive function so that it can be proved about; it takes any JSON value under
any key, as the code does, and gives the paths in the order in which the code reports
them, one error for each (`InOrder` goes through an object's keys in `Keys`' order,
which is that of `sort.Strings`). What the walk is held to is `Positions`: a schema
and the schemas in it by the keywords of JSON Schema that hold some (`NamedSchemas`,
`ListedSchemas`, `SingleSchemas`), whatever the walk does with those keywords.
`Overlong` are those with too long a description; `NoSchemasIn` are the paths to what
is no schema, a default or an example, which the walk enters all the same. What a JSON
value is, is `ValuesAssumption`; that it is nested to some depth, less than what
holds it, is `NestingAssumption`. Paths are sequences of keys and indices, where the
code joins them to strings. The map of prefixes, `prefixes`, is a function from
openings to names. `sortedByName` puts every tool at the place of its rank: the tools
before it, those that tie and were listed earlier included, which is what
`sort.SliceStable` promises.

**ToolDoc.** `RenderDoc` is the page as a sequence of lines: header, table, and a
section per tool with its description fenced (`FenceLength`) and its schema;
`RenderFails` is `json.Indent`'s error. `assertDoc` is `tooldesctest.go:47-72`:
render, perhaps write (`Update`, which may leave the file as it was or half
written), read, compare. `wrote` records what became of the write, whatever the
verdict says of it. `AssertServerDoc` hands it the server's tools in any
order, `AssertDoc` a caller's own list, in which two tools may share a name.

## 3. Runs

| Run | Bounds | Shows |
|---|---|---|
| `httpx_run` | two connections, two calls of `Run`, timeouts negative, zero and positive, an owner who may shut down | a nil result after a cancel means drained; failed binds and accepts surface; nothing is left; only a negative timeout gives no grace; `Run` returns; it implements `GracefulServe` |
| `httpx_reuse` (violation) | the same, nobody but `Run` shuts down | a second `Run` on the same server returns nil unasked |
| `tool_timeout` | three layers, each disabled, defaulted or short; a caller with or without a deadline; clock to 3 | blame, pass-through, finality, release, and that a call ends |
| `tool_timeout_hung` (violation) | one layer | a handler that ignores its context is not cut |
| `tool_timeout_late_error` (violation) | one layer | a handler's own error is replaced by the timeout |
| `tool_call` | all stacks of up to two of seven layers and some of three; limits -1, 0, 2 and 4 around a default of 6 and a rejection of 3; up to two items; two calls that share nothing, their content or their result | nothing oversized gets through; with fresh results, exactly what the caller sees |
| `lifecycle` | two calls, six setups of grace, lame duck, call timeout, flush and kill | a call is cut, or refused, for a named reason only; which spans are exported; the exit comes ahead of the kill when the times add up |
| `signal_init` | three pipelines, three Shutdowns held, all 128 environments | ownership, globals, propagators, and that an Init that fails leaves no trace |
| `log_fanout` | eighteen lists of options, up to five sinks, three levels, two derived loggers, up to two attributes, with and without spare room | no crosstalk, every sink asked for reached once and in order, errors joined |
| `log_trace_key` (violation) | two sinks, one group | `trace_id` ends up inside the group |
| `tool_desc` | three tools of up to three runes, four budgets; 1180 schemas of depth two, some descriptions over the limit and some not, among them defaults, keywords with values they cannot have, and values that are no objects; pages of up to two tools, with backticks; two assertions | the report is exact and does not depend on order, nor do the paths in one schema; the page reads back as the tools, and does not depend on order either; an assertion is exact, also after an update that failed half way |
| `tool_desc_defs` (violation) | one tool, a type named `description` | its descriptions are not checked |

Why the bounds are enough. Two connections make "one drained, one not"; two calls
of `Run` make reuse. Three layers make an outer and an inner neighbour of a
disabled layer, the only place where `Parent` skips; the clock needs to pass the
longest effective duration after the last layer is entered, and `MaxEnterTime`
lets layers be entered at different times. For the caps, two items make "the one
replaced and the one after it"; the limits lie below, between and above the size
of a rejection, with texts exactly at each of them and one over them all; two calls make every interleaving of
two editors, and calls that share nothing are independent, so one stands for all.
The six setups have a lame duck shorter and longer than the probe's period, a
grace that is default, given, none, shorter and longer than a call may take, and a
kill that comes during the drain and during the flush. Three pipelines allow each
signal once or one signal three times. The option lists hold every pair of options
that could read each other's result, in the order that would go wrong; up to five
sinks give one before and one after the one that misbehaves; one attribute fits by
value and the second does not. Three tools are the least for which "the first
tool of a prefix" and "the tool before" differ; two assertions make an update and
what a later run finds. The schemas have a name that is no keyword and two that are
(`description`, `items`), and one path that leads to two descriptions.

Deadlock is checked in `lifecycle`, where `Ended` is the only state that may stay.
`CHECK_DEADLOCK FALSE` is set in all others because every system there ends: a
call returns, a program leaves, a check is done.

### Fairness

`HttpxRun`: the goroutines are scheduled, time passes, and nothing is assumed of
clients, handlers or the caller's cancel. `ShutdownDeadline` has strong fairness:
`Shutdown` waits in a `select` on its ticker and its context over and over, and a
context that has expired is ready at every turn, while the tick is not. Without it
Go's random choice could take the tick for ever. `ToolTimeout`: the middleware
runs, the clock advances, timers fire, and a handler that honours its context
notices its end (`HandlerGivesUp` is disabled for one that does not, which is the
violation run). `ServerLifecycle`: weak fairness of `Next`, no more: something
happens as long as something can. That suffices because nothing but time can go on
for ever there, and `Tick` waits for whatever is due; clients, answers of stubborn
handlers and SIGTERM itself are never forced. The other modules have only safety
properties and no fairness.

### Findings

1. `httpx.Run` on a server that has been shut down before returns nil at once
   (`httpx.go:36`), though the doc keeps nil for a graceful shutdown.
2. The timeout is looked at only once the handler has returned (`timeout.go:43`):
   a handler that ignores its context is a silent hang after all.
3. Any error of the handler is replaced by the timeout when the deadline fires
   before `ctx.Err()` is read (`timeout.go:51`).
4. `WithTraceContextAttrs` adds attributes, so under `WithGroup` the ids are
   nested in the group (`traceattrs.go:41`).
5. `walkSchema` takes names for keywords in maps such as `$defs`
   (`tooldesc.go:169`).

What a reader of the code may want to know besides, none of it contradicting a doc:

- `ListenAndServe` returns as soon as its listener is closed, not after the drain
  as the comment at `httpx.go:53-54` suggests. Harmless, since the receive comes
  after `Shutdown`.
- When a server fails by itself (a failed accept), `Run` returns at once and drains
  nothing: `NoCallCut` names it as one of the three ways a call can be cut.
- The default grace of 5 s is shorter than the 30 s a call may take by default, so
  with the defaults a long call is cut by a rollout. `NoCallCut` says that this is
  the only kind of well-behaved call the grace cuts.
- A limit below the size of a rejection makes the rejection itself exceed it, and an
  outer cap then reports the rejection's size in place of the tool's:
  `ResultIsExact` needs `Roomy`.
- `doc.go:9-11` asks handlers for a fresh result. One that returns a fresh result
  around the same content slice gets later calls a rejection without `IsError`.
  `NothingOversized` holds even then.
- `Check` decodes one JSON value and so passes a raw schema with something behind
  it; `RenderDoc` refuses the same schema.
- The docs of the three `Init`s warn that after a second call the first pipeline
  cannot be shut down. `NoOrphan` holds even then, for a program that kept
  the first Shutdown.
- `walkSchema` looks under every key (`tooldesc.go:182-183`), so a `description` in a
  default or an example counts as a parameter's too. `EveryDescriptionCapped` allows
  that, and nothing else, beyond the descriptions of schemas.

## 4. Proofs

Every proof goes the same way: the safety properties are not inductive alone, so
each model ends with the parts of an invariant `IInv` that is; `IInv` was checked
with TLC first; one lemma per action or per part shows that it is kept, and the
theorems follow from `Invariance`.

**HttpxRun**, for any set of connections, any integer timeouts, any number of
calls, from `TimeoutsAssumption`, `DefaultAssumption`, `MaxRunsAssumption` and
`OwnerAssumption`. That a nil result means drained needs to know that once
`Shutdown` has seen no connection none can come, hence that the accept loop is
over, hence what the flag and the listener say of the goroutine. `IInv` adds
`RoutineInv` (goroutine and channel: exactly one of "running" and "value sent"),
`ListenerInv` (flag, listener and accept loop), `DrainInv` (what `Shutdown` has
established) and `ResultInv` (where a result comes from). From `IInv` follow
`TypeCorrect`, `CleanShutdown`, `Failures`, `NothingLeft`, `GraceIsGiven`, and
`ContractHolds`: every step is a step of `GracefulServe` or a stutter.

**ToolTimeout**, for any depth, durations, default and deadlines, from
`DepthAssumption`, `DurationsAssumption`, `DefaultTimeoutAssumption` and
`ClockAssumption`. `IInv` adds `ShapeInv` (the chain of contexts), `CauseInv` (a
context that has ended did so by its own timer, which was due, or after its
parent) and `VerdictInv` (what has been said of a call on its way out). The key
step is `Blame`: the layer's context has ended with a deadline and its parent has
not ended, so by `CauseInv` the cause is the layer's own timer. From `IInv` follow
`TypeCorrect`, `BlameIsHonest`, `BareErrorIsTheCallers`, `NothingLeaks` and
`AnswersAreFinal`.

**ToolCall**, for any number of calls at once, any stacks, limits and answers, from
`CallsAssumption`, `SizesAssumption`, `StacksAssumption` and `AnswersAssumption`.
`IInv` adds `PlaceInv` (a call edits the shared cell or its own, and only where a
layer caps it) and `PassedInv` (what the layers already passed would turn away is
gone, and what the layer at work would turn away is gone up to the item it looks
at). That every other call's edit keeps it is the point: a rejection put over an
item, by whichever call, is no text of the tool's. From it follow `TypeCorrect` and
`OversizedNeverPasses`. `ResultsAreExact` needs more: `ExactInv` says, of a call
with fresh results and roomy limits, that each item is at every moment what the
layers passed so far make of the tool's, and that `IsError` is set just when the
tool set it or an item was replaced, but for the one whose flag is still to come.

**ServerLifecycle**, for any calls and any setups, from `TimesAssumption`. `IInv`
adds `RunInv` (where main is, `Run` is, and which clocks go), `RoutedInv` (the
platform stops routing by its next probe after SIGTERM), `AgeInv` (a call that
heeds its context is no older than it may be, and at least as old as the stop it
lives through) and `ExitInv` (what the exit will cut and export). The key steps:
`Cancel` after a lame duck longer than the probe's period finds nothing routed, so
no call can meet a closed listener (`NoCallIsRefused`); `OutOfGrace` finds every
running call at least as old as the grace, so it is no longer than the call's own
timeout (`NoCallIsCut`); `Drained` finds no call running, so no span can end after
the flush has begun (`SpansAreExported`).

**SignalInit**, for any number of pipelines, from `MaxInitsAssumption`. `IInv` adds
`PlaceInv` (only a running program is inside an Init), `MakingInv` (there the
newest pipeline is the Init's own), `OwnerInv` (at most the newest pipeline is
unowned, and only inside an Init; every other one that runs has a provider and its
Shutdown is among the deferred), `HeldInv` and `TraceInv`, which compare what there is with
`before`, what the Init found when it was called: until its provider is installed it
has changed nothing but the propagators and its own pipeline. From it follow
`TypeCorrect`, `NothingOrphaned`, `GlobalsExport`, `PropagatorsStay` and
`FailuresAreLocal`. A program leaves only when it has run every Shutdown it holds, so
`NothingOrphaned` says of it that it has drained every pipeline it ever made.

**LogFanout**, for any options, sinks, levels, number of attributes and size of a
record's front, from `BoundsAssumption` and `OptionsAssumption`. `IInv` adds
`DerivedInv` (a logger's handlers are what was asked of it), `RecordInv` (the
record being handed out is the call's, and nobody has written behind it before the
first sink) and `KeptInv` (what a sink was given reads as it should, now). The key
lemma is `Adds`: `AddAttrs` on a record changes no other record as long as the
record is clipped to its length or nobody shares its spare room; a fan-out clips,
and a sole sink shares with nobody. From it follow `TypeCorrect`,
`RecordsAreTheirOwn` and `NoErrorIsLost`. That every sink is reached needs what
`Init` did, too: `DInv` adds `OptionsInv` (the config is what the options applied
so far ask for: of each kind the last, and the extras of all in order) and
`ReachedInv` (the sinks are what `LoggingInit` makes of that config, and the record
has been given to those among the first `call.next - 1` that accept it). Each
iteration extends the flattened list of the accepting sinks by one item or by none,
which is `FlattenStep` of `SeqLemmas`. From `DInv` follows
`RecordsReachTheirSinks`, for any list of options. The proof corrected the
property: an explicit `WithFormat(auto)` after another format goes back to the
environment's choice, which the eighteenth list of the run has.

**ToolDesc**, for any names, texts, raw tools, budgets and schemas, from
`NamesAssumption`, `TextsAssumption`, `RawToolsAssumption` and `BudgetsAssumption`,
which say what kind of value each constant is. `CheckInv` says of the loop: what is left to do is
sorted, strictly by name, and lies behind what is done (`TodoInv`); the map holds,
for every opening met, the first of the tools done that has it (`PrefixesInv`); the
errors are exactly the faults of the tools done, in their order and without a
repetition, but for two descriptions at one path (`ErrsInv`). The steps that carry it: `Sorting`, that placing by rank is
a stable sort, for which `TextLess` must be a strict total order
(`TextLessTransitive`, `TextLessTotal`); `OpeningsMeet`, that two tools have the
same key in the map just when their descriptions open alike; and `ErrsNext`, that
one more tool adds its own faults to those of the tools done and takes none away,
because a tool later by name never becomes the first of its opening. `Describes`
shows that `FirstLine` after `Description` gives the trimmed summary back. From
`CheckInv` follow `TypeCorrect`, `ReportExact` and `DescribedFit`.

`DescriptionsCapped` says what the paths in a report are, for any JSON schemas of any
size and nesting, from `ValuesAssumption` and `NestingAssumption` besides. Both the walk
and `Positions` are recursive functions: what each gives at a value depends on less
nested ones only (`WalkLocally`, `PositionsLocally`), so each exists (`WalkExists`,
`PositionsExist`) and obeys its equation (`WalkIs`, `PositionsIs`). `WalkFinds` is what
relates them: the walk finds every overlong position, and what else it finds lies at
or beneath a path of `NoSchemasIn`. It is shown for a value from those below it, by
the kinds of keyword (`SubschemasFind`, `PropertiesFind`), and a least nested value
where it fails cannot be. The theorem assumes `PlainDefs`: no entry of a map of named
schemas but `properties` itself is called `description`, `properties` or `items`. That
is exactly where the code is wrong (finding 5); under `properties` any name is allowed,
which is the reason for the walk's case of that keyword. `PlainDefs` holds in
`tool_desc`, whose definitions are called `a`, and not in `tool_desc_defs`.

**ToolDoc**, for any header and pages, from `HeaderAssumption`. A step of `DocSpec` is
one of `ToolDesc` or leaves its variables (`DocIsServer`), so the theorems above hold
there. `AssertExact` relates the verdict to what the file holds, what was rendered and
what became of the write: `FileInv` says what the file may be, the state after a
write that failed half way included, and `AssertEnds` takes the ways out of an
assertion one by one. A stale file comes down to `FirstDiff`: the first line where two
different pages part exists and is what `firstDiff` returns, also when one of them
just ends. `PageStable` says that a page found current stays so however its tools are
listed. What makes it true is that the order of names and descriptions is a strict
total one: two lists of the same tools that are sorted strictly by it are one list
(`OneSorted`, the first place where they part having a tool that neither can put
later), the sort of a list without repetitions is such a list (`StrictlySorted`), and
so two listings have one page (`SamePage`). `PageInv` says that the
page of a verdict is the one rendered from its list, and from it follows `PageReads`,
in four steps. No line of a description closes its fence (`NoLineCloses`): such a
line would be a run of backticks longer than the longest. The reader is a recursive
function over the places of the page; it exists, since what it reads at a place
depends on later places only (`ReadLocally`, `ReadsExists`). So a section is read as
its tool (`ReadOne`), and, from the last section to the first, all of them are
(`ReadAll`). The order is `Sorting`'s, the one the reports of `Check` rest on.

**SeqLemmas.** `FlattenSeq` is a recursive function of the community modules. What
the library's induction theorems cannot give, a least counterexample can: `LeastNat`
takes the least of any non-empty set of naturals (from the well-foundedness of `<`
on them), and with it follow that the recursive function exists and that flattening
goes one item at a time.

Only model-checked: `ParamsInOrder`, the order of the paths within one schema, and all liveness (`CancelledRunReturns`, `ServeReturnEndsRun`,
`BoundedCallEnds`, `ExitsInTime`, and the fairness part of the refinement):
ENABLED and liveness under fairness are out of the prover's reach. The five properties of violation runs are what the code does not do.

## 5. Not modelled

- `RedactHost`: one pure rewriting of a string, by two regular expressions and
  `net/url`, which the unit tests enumerate. A model of it would be those
  expressions over again.
- `brand` (an SVG as a data URI), the root package, the Makefiles and CI: no state.
- Which attributes a resource carries, views, the exemplar filter: data handed to
  the SDK.
- What SDKs do inside: batching, retries, an exporter shut down with a context
  that is already done (`tracing.go:96`).
- The order of keys and the indentation in a rendered schema: `encoding/json`'s.

## 6. Plan

Done, in this order: `HttpxRun` with its contract and proofs, `ToolTimeout` with
its proofs, `SignalInit`, `LogFanout`, `ToolDesc`; then `ToolCall`,
`ServerLifecycle`, `ToolDoc`, the options of the logger, and the proofs of
`SignalInit`, `ToolCall`, `ServerLifecycle` and `LogFanout`; then the delivery
through any options, the proofs of `ToolDesc` and `ToolDoc`, and that of the walk
over a schema.
What is left:

1. A refinement of `ServerLifecycle` that puts `HttpxRun` itself in the place of
   its contract, for a liveness result without an assumption about `Run`.
