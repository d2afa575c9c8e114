# LangECS in TLA+

LangECS runs agents as an entity-component system: *systems* are asynchronous
functions matched to entities by the components they carry, and the engine
(`packages/core/src/world.ts`) runs all *pending pairs* (system, entity) of a
step concurrently, buffers what they do, and applies it at a barrier.  Around the
engine sit persistence adapters, model middleware, a standard library of chat
systems, devtools and telemetry bridges.

This directory holds TLA+ modules translated from that code, TLC configurations
that check them on small instances, and proofs checked by TLAPS.

    tlc -config World_core.cfg MCWorld        # a run: model, configuration
    tlapm WorldProofs.tla                     # proofs of a module

Section 1 lists the system's parts, 2 the modules, 3 the runs with their bounds
and fairness, 4 the limits of the code the models show, 5 the proofs, 6 what is
not modelled.  Every definition that models code is listed in `PROJECT.json`,
"map", with the lines it stands for.  A definition named `X_Variant` is `X` with
a plausible defect; each property is violated when one of them takes X's place.

## 1. Inventory

| component | state it keeps | operations | what is hard, what makes it correct |
|---|---|---|---|
| world engine `core/src/world.ts` | entities and components, registered systems, pending pairs (`dirt`), match sets, step and id counters, revision, cancellation, pair executions in flight | `use`, `spawn`, external writes/removes/despawns, `run`, `resume`, `send`, `cancel`; the loop, guards, bodies, timeouts, barrier | bodies, timers and callers interleave; a wakeup must not be lost or invented; a discarded execution must leave no effect; a cancellation must be stamped once and stop the run; ids must be fresh |
| snapshots, load, migrations `world.ts` | the committed boundary as data, flight recorder, migrations, opaque components | `snapshot`, `load`, `canLoad`, `migration` | a load replaces everything or nothing; the recorder never mixes timelines; a build forgets nothing it does not know; the gate says what a load would do |
| persistence `persistence.ts`, `persist-fs` | snapshots per step, `latest.json` | `save`, `load`, `loadStep`, `history` | crashes and failures between two writes; rewinding; never older than the last acknowledged save |
| run handle `events.ts` | buffered events, parked notifiers, outcome | async iteration, `then`, emit, settle | late and concurrent iterators see every event once, and end |
| observers `observe.ts` | list of observers | `observe`, `wrapSystemRun` | told in order; they come and go in the middle of a run |
| cancellation helpers `cancel.ts` | timers, listeners | `delay`, `throwIfAborted`, `anySignal` | no wait outlives its signal |
| model middleware `middleware.ts`, `model.ts` | permits, queue, last start, cache and its stamps, script cursor | `withRetry`, `withTimeout`, `withFallback`, `withRateLimit`, `withCost`, `withCache`, `scriptedModel` | permits are neither lost nor doubled under aborts; nothing is tried after a cancel or spliced into a stream; a deadline ends a call; a turn, an entry or a cost is not lost when calls overlap |
| recording and replay `recording.ts` | entries, the replay window | `recordingModel`, `replayModel` | concurrent requests get the answer recorded for them |
| chat systems `stdlib/src/systems.ts`, `react.ts`, `tools.ts` | conversation, tool-call and approval components | `callLLM`, `executeTools`, `toolApproval`, `retry` | composed over the engine: every tool call answered exactly once, approvals not stale |
| budget watchdog `stdlib/src/budget.ts` | ledger, brake | guard, brake, stamps | spenders that report late, recruits that join late |
| context window `stdlib/src/context.ts` | - | `recentMessages`, `withMessageWindow` | what is left of a conversation is one a model takes |
| devtools server `devtools/src/server.ts` | clients, span buffer, history cache, broadcast flag | commands, broadcasts, span receiver | commands interleave with runs; loads and reads after an await |
| devtools page `devtools/ui/src` | socket, requests under way, what is shown | reconnect, request, reducer, span tree | messages lost with a socket; replays; caps; the page must end up with the present state |
| OpenTelemetry bridge `otel/src` | open spans per run and pair, patched `register` | attach, detach, observer calls | two executions of one pair overlap after a timeout; several bridges |
| examples `examples/` | components of each program | their systems | stages, fan-out and fan-in, re-arming, brakes: who wakes whom, and does it end |
| model adapters `ai-sdk`, `langchain` | - | message conversions | stateless |

Components interact in four ways.  Systems call the engine through `ctx`
(buffered operations, eager id allocation, events, timeouts).  The engine calls
user code: guards and bodies, reducers and `serialize`/`deserialize` hooks,
observers (the devtools server and the bridge are two), the persistence adapter
(awaited).  The application, and the devtools server on behalf of a page, calls
the world, while it is idle for everything except `cancel()`.  Chat systems call
models through the middleware chain, with the pair's abort signal.

The hard behaviours are therefore: concurrent bodies settling in any order; a
timeout racing a late answer; `cancel()` at every point of a run; a barrier that
throws half-way; a save that fails or is interrupted; a process that dies and
loads what is stored; rewinding to earlier steps; builds that take turns at one
store; sockets that are lost; systems that wake each other.  `PROJECT.json`,
"hazards", lists each at the line where it bites, with the properties that cover
it or the reason why none does.

## 2. Modules

| module | models | what one action is |
|---|---|---|
| `EcsData` | components, queries, pairs, buffered operations (`builtins.ts`, `system.ts`, `world.ts`) | - (data and operators) |
| `World` | `world.ts`: the run loop, pair executions, timeouts, cancellation, barrier, saves at the cadence, external mutations | one synchronous stretch between two awaits |
| `Durability` | `world.ts` save and load, `persistence.ts`, `persist-fs` | a commit, a file write, a load, a crash |
| `Deploy` | `world.ts` `snapshot`, `migration`, `canLoad`, `load`; `component.ts` registry | a deploy, a load, a change, a save |
| `RateLimit` | `middleware.ts` `withRateLimit`, `cancel.ts` `delay` | one stretch of `gate()`, a timer, an abort |
| `Recording` | `recording.ts` | a call's start or end, a replayed call |
| `ModelStack` (over `Recording`) | `middleware.ts` retry, timeout, fallback, cache, cost; `model.ts` `scriptedModel` | a descent to a model, one layer on the way up, a timer, a cancel |
| `ReactAgent` | `stdlib`: `callLLM`, `toolApproval`, `executeTools`, `retry` over the engine, for one entity | a call of the application, a step, a save, a crash |
| `ContextWindow` | `stdlib/src/context.ts` | - (operators) |
| `AgentWindow` (over `ReactAgent`, `ContextWindow`) | the request `callLLM` builds, and the window `withMessageWindow` cuts of it | - (operators) |
| `EventLog` | what iterating a run promises (abstract) | growth, close, delivery |
| `RunStream` | `events.ts`; implements `EventLog` | an emit, a settlement, one turn of an iterator |
| `OtelSpans` (over `RunStream`) | the loop as observers hear it, `otel/src/instrument-world.ts` | a stretch of the loop, a body or a deadline, attach, detach |
| `SpanRows` | `devtools/ui/src/store.ts`: `groupTraces`, `spanTreeRows` | - (operators) |
| `Timeline` (over `OtelSpans` and `SpanRows`) | the spans an exporter has sent, in the trace tab | as `OtelSpans` |
| `DevtoolsServer` | `devtools/src/server.ts`, `state.ts` | a world step, a command, a read landing, an export |
| `Devtools` (over `DevtoolsServer`) | `ui/src/ws.ts`, `main.tsx`, `store.ts` | a connection, a request, a timeout, a message |
| `Blackboard`, `Workflow` | the barrier on component values, and a program run step by step | a step, a send |
| `OrderPipeline`, `Supervisor`, `ResearchTeam`, `SupportDesk`, `ReviewCrew`, `ContentPipeline`, `RagQa`, `Reflection`, `ToolLoop`, `JobWorker`, `ResearchBatch`; `Workflows` | one example program each; all of them | as `Workflow` |
| `MCWorld`, `MCDurability`, `MCModelStack`, `MCReactAgent`, `MCOtelSpans`, `MCDevtools`, `MCDeploy` | small instances for TLC | |
| `WorldProofs`, `DurabilityProofs`, `DeployProofs`, `RateLimitProofs`, `ModelStackProofs`, `ReactAgentProofs`, `OtelSpansProofs`, `DevtoolsProofs` | theorems | |

### World

State: `alive`, `comps` (committed components), `registered`, `matched`, `dirt`,
`nextId`, the run's `phase`, `steps`, cancellation flags, and `exec`, one record
per pair in flight (its state, its buffer, the step-start state its guard saw).
`last` and the other history variables remember what each pair saw when its dirt
was consumed; they guide no action.

JavaScript interleaves only at awaits.  Bodies are the exception that matters:
each operation a body buffers is an action (`PushOp`) because other bodies,
timers and `cancel()` may run between two of them; only `ctx.spawn` touches
shared state (`nextId`).  The loop is `StepStart`, `BarrierCommit` or
`BarrierReject`, `CadenceSave`, then again, until `Quiescent`, `AllVetoed`,
`LimitBreak` or `StampStep`; `FinalSave`, `LateStamp`, `LateSave`, `RunEnd` end a
run.  `BarrierCommit` is the whole of `applyBarrier`: replay in system, entity
and operation order over a staged overlay, conflict scan, invalidations, error
records and their clearing, dirt consumption, and the match-set refresh.

A component's value is a set of tokens, each naming the execution that wrote it.
That is what the properties tell apart: whose write is in the state, and whether
a merge kept the contributions of others.

Choices of the model:
- the order in which systems were registered is a constant (`Index`), the order
  of replay follows it;
- `send` and `resume` are the idle mutations they consist of, followed by `Run`;
- guards and reducers are opaque: a guard gives either verdict, a reducer may
  throw when `UserCodeThrows`; that a value cannot be copied while a barrier is staged
  is not modelled beside it: it too rejects before anything is committed;
- what a body does after it was settled by its deadline is modelled
  (`ZombieSpawn`, `ZombieSettle`), since those continuations still hold `ctx`;
  continuations a body never awaited, after a normal return, are not;
- a guard that calls `cancel()` is not modelled; observers that do are, as
  `CancelMidRun` at the neighbouring boundary;
- components kept as opaque data by a non-strict load are `Deploy`'s subject; dirt
  reasons, traces and resources have no counterpart.

### Durability

`World` stops at "a save was requested": here one number stands for the committed
boundary (entities, pending pairs, id counter) and the store is spelled out: the
map of `MemoryAdapter`, or the step files and `latest.json` of the file adapter,
each replaced atomically by a rename, with a crash or an error possible before,
between and after.  `changed`, the comparison `revision === savedRevision`, says
whether `persist()` will skip.  `Restart` is `load()` in a new process, `Rewind`
`loadStep()` in the same one, `LoadThrows` a `deserialize` hook that throws
during either, `SpawnThrows` an external spawn that throws when the entity is in the
world and nothing is marked yet.  For `MemoryAdapter`, which lives in the process, `Crash` is a
`World` object that is dropped and made anew over the same adapter.
Serialisation itself is assumed to round-trip.  `fileAdapter`, chosen initially from `Adapters`,
says which adapter the world has; `torn` remembers a load or a spawn that threw
half-way until something is saved or loaded.

### Deploy

`Durability` says when a snapshot reaches the store, `Deploy` what it says there.
Builds (program versions) define different components, register different
systems and have different migrations to their own `recipeVersion`; they take
turns at one stored snapshot.  `known` is the registry of `defineComponent`,
`preserved` the opaque values a non-strict load keeps, `truth` a history
variable: the world as every change so far left it, whoever made it, in the
current build's recipe.  The verdicts are operators, `LoadError` for
`load` and `CanLoad` for `canLoad`, written from the two functions separately.
Values are tokens; a migration renames a component or a system, or throws.

### RateLimit

`active`, `waiting` and `lastStart` are the variables of the closure; `pc` says
where each caller's `gate()` stands.  The state that matters is `"granted"`: the
permit has been handed over inside `release()` and the waiter runs a microtask
later.  The listeners and timers of `delay` are steps of the call that sleeps.

### ModelStack and Recording

One chain, recording over cost over cache over retry over fallback, with
`withTimeout` around the whole or around the first model only; the initial state
chooses.  `call[c]` holds the frames of one call: where it stands, what is on its
way up, how often a model was asked, whether a chunk was emitted, and why its
derived signal was aborted.  Going down to a model is one synchronous stretch;
each layer on the way up is an action, because timers, cancels and the other call
fall between them.  Models may answer, fail, stream and then fail, hang, or
ignore their signal.  `slot`, `cursor`, `released` and `spent` are the closure of
`scriptedModel`, `store` the cache in insertion order.  A chunk is delivered with the
answer: an abort between two chunks of `scriptedModel.stream`, which its consumer
would have to raise from inside `onChunk`, is left out (the code spends the turn then,
as `model.ts:131` says).  Recording fixes an index
at a call's start and adds the entry at its end; replay asks again in another
order, with edited prompts, strictly or not.

### ReactAgent

The engine restricted to one entity, with the four queries and guards of the
chat systems written out.  The components are a record: `msgs` is the
conversation, `pending` is `PendingToolCalls`, `asked` the calls listed in
`AwaitingHuman`, `response` is `HumanResponse`, `errors` the number of
`SystemError` records.  A tool call is named by the reply that asked for it and
by whether its tool needs approval.  All tool messages of one execution are one
message.  Only `callLLM` fails: `executeTools` turns tool errors into messages,
and the two others do not throw.  Saves do not fail here; that is `Durability`'s
subject.  `retry`'s sleep lies inside a step.

`Resume` is `world.resume`, which does not look whether anything is asked: a repeated
or unprompted answer is a `HumanResponse` like any other.  The response `"unasked"` is
a yes given to no question, and the history variable `blind` the calls that ran on one.

A crash may come after any subset of a step's tools has run: tools run at least
once, and approvals are not spent by a run that died.

`AgentWindow` sends each request of the agent through `recentMessages`
(`ContextWindow`) with every pair of bounds in `Windows`, a constant.  A request is
the conversation with one tool message per call (`RequestMessages`).  The agent's
`SystemPrompt` travels beside the messages (`req.system`), and `recentMessages` does
not see it; what it pins is a system message among them, with which an application
may have opened the conversation.  Both are tried (`Openings`).  `Estimate`, what
messages cost, is a constant operator: `Cost` in the runs, anything in the proofs.

### RunStream, EventLog, OtelSpans, SpanRows, Timeline

`RunStream` is the class of `events.ts`: `at[r]` and `reader[r]` are the local
variables of one iterator's generator, `notifiers` the resolvers it parks.
Between checking for an event and parking there is no await, so `Park` is one
action, and its guard is what keeps a wakeup from being lost.  A refinement
mapping takes it to `EventLog`, where a reader is a cursor on a log.  `OtelSpans`
drives it with the events of a run: each action of the loop emits its events, and
what the bridge does when it is told (`OnRunStart` to `OnRunOver` for `onEvent`,
`OnWrap` and `Unwrapped` for the wrapper of `wrapSystemRun`) is part of the action.
The observers are told one after the other, in one synchronous stretch, and each
has its own spans and `RunState`; a handler is therefore written for all of them at
once, and for all the pairs of a step's first burst.  A pair's body may outlive its deadline, and the same pair may run in the next step
meanwhile.  `register` is the stack of patches bridges put on `world.register`.  `SpanRows` is
the trace tab: a span is told from another by its place in the list, since an exporter
may repeat an id; `InOrder` is `Array.sort`, which leaves equal keys as they are; and
the recursion of `visit` is a list of what is left to visit, from whose head `Visit`
takes one.  `Timeline` sends the spans that have ended as an exporter would, a pair's
before its step's and a step's before its run's (`Exported`, external), and
`MCOtelSpans` also tries `spanTreeRows` on any three spans.

### DevtoolsServer and Devtools

The world is reduced to what the server shows: a version number of its content,
the step, whether it runs, and the flight recorder.  `down` and `up` are the
messages under way on the current socket; losing the socket loses them.
`refreshes` and `loading` are continuations behind an await: history reads and
`load-step` commands.  What is done in a microtask (`flush`) comes before any
further message.  The page keeps requests until a result, a timeout or the end
of the socket settles them; `ui` is the reducer's state.  `main.tsx` keeps the
messages that come within a frame and reduces them together, in their order;
`Receive` reduces each when it arrives, so a page that is up to date is one whose
frame has been dispatched.  The snapshot command only reads and is left out, as are
the other views.

Some changes are announced to nobody.  A load that throws in a `deserialize` hook, a
spawn that throws half-way, and a run whose last candidates are all vetoed (its trace
entry is pushed without a `step:applied`) leave the server as it was; the history
variable `untold` says so, until something is sent that shows them.

### The example programs

`Workflow` runs a program one step per action on the barrier of `Blackboard`
(every interleaving inside a step is `World`'s subject; here steps are atomic,
which is what isolation makes of them): which pairs are pending, which guards
let through, any choice of failing bodies, the buffered calls of all of them
replayed in order, error records, dirt.  A program is data for it: systems in
registration order, queries, guards, bodies with the choices models and humans
have, initial worlds and what callers may send.  Each program module states its
own `Sound` (true at every barrier) and `Settled` (true at rest).
`ReviewCrew` takes two titles of one place as always similar: the code's
`similarTitle` (`crew.ts:108`, half the shorter title's words) need not be
transitive, so "one entry per place" says that no issue is entered twice, and
nothing of titles that resemble a third one but not each other.

## 3. Runs

Times are for two workers.  Bounds are the constants commented `bound`.

| run | module, cfg | distinct states | time | shows |
|---|---|---|---|---|
| core | MCWorld, World_core | 174,607 | 9 s | `TypeOK`, `NoMissedInput`, `StatusIsTrue`, `CancelStopsScheduling`, `FailureRecorded`, `RunTerminates`: two systems that feed each other, a guard, timeouts, cancellation at every point, failing saves |
| writers | MCWorld, World_writers | 391,696 | 8 s | `NoDiscardedEffect`, `NoStaleError`, `MergesAllLand` with conflicting writers, merges, throwing reducers, unknown names |
| spawn | MCWorld, World_spawn | 432,694 | 20 s | `NoPhantomDirt`, `FreshSpawns` while entities and systems come and go and external spawns throw half-way |
| file | MCDurability, Durability_file | 3,518,827 | 28 s | `TypeOK`, `SavedIsStored`, `TraceIsOneTimeline`, `QuiescedIsPersisted`, `RestartLosesNothingAcked` for both adapters, under failing writes, rejected barriers, hooks and external spawns that throw half-way, crashes, and rewinds of the file adapter |
| builds | MCDeploy, Deploy_builds | 515,724 | 51 s | `NothingForgotten`, `GateTellsTruth`, `RecipesAscend`, `RetiredNamesGone` while three builds take turns at one store |
| gate | RateLimit, RateLimit_gate | 467,986 | 31 s | `GateSafety`, `WaitersServed` |
| stack | MCModelStack, ModelStack_stack | 1,796,086 | 67 s | `AnswersAreTrue`, `BooksBalance`, `NoAttemptAfterStop`, `ChainDeadlineEnds` for two overlapping calls, one streamed, then replayed |
| careful | MCReactAgent, ReactAgent_careful | 4,874,284 | 126 s | `ChatSafety`, `TurnsAreAccountedFor`, `WindowIsValid` |
| otel | MCOtelSpans, OtelSpans_otel | 415,126 | 81 s | `SpansAreTrue`, `TimelineShowsAll`, `StreamIsLog` (the refinement), `ReadersEnd` |
| page | MCDevtools, Devtools_page | 12,565,600 | 84 s | `PageSafety`, `SpansShownOnce`, `RequestsSettle` |
| examples | Workflows, Workflows_examples | 11,661 | 50 s | `StagesHold`, `RestIsAnswered`, `ComesToRest` for eleven programs |
| approval | ReactAgent, ReactAgent_approval | violated | | `OnlyApprovedRun` with a careless application: a sensitive tool runs for a call that no human was shown |

*approval* checks a sentence of the repository's own documents;
`PROJECT.json`, "findings", quotes it.

Why the bounds are enough to meet the cases:
- *core*: two systems in a cycle (one guarded, both with a timeout), one entity,
  two runs of up to two steps: a second run inherits the dirt, the error records
  and the `Cancelled` component of the first, and a limit falls inside a cycle.
  Each body buffers at most one operation, since operations within a buffer only
  matter for conflicts, which *writers* has (two operations).
- *writers*: `right` has a timeout and can be abandoned after buffering; `Limit`
  1 with two runs gives four barriers at most, enough for a record to be written,
  kept and cleared.
- *spawn*: ids up to 3: the parent, an external spawn and a child.
- *file*: three steps and six contents: a rewind needs two saved steps and a
  third that reuses a step number; a failed or torn save followed by a rewind or
  a restart needs two more contents.
- *builds*: two builds of one recipe that know different components, and a newer
  one that renames a component and a system over two hops, or over one hop whose
  migration throws; two ids and two values, so that a live value can replace an
  opaque one.
- *gate*: two permits and four calls: two in flight, two queued; an abort of
  either waiter at every point; interval two so that a sleep spans a clock tick.
  The clock is capped, but for a call that sleeps.
- *stack*: two calls with equal, different or uncopyable requests; one retry, one
  cache entry (so the second call evicts the first's), one tick for an entry to
  age, one scripted turn for two callers; deadlines around the chain or around
  one model.
- *careful*: two replies, two messages, three failures: a failure in each of the
  three attempts `RetryMax` = 1 allows or would wrongly allow, and a denial or a
  restart in a turn that follows another.  `Limit` 5 is reached by a turn with a
  retry.  Windows of 1 to 6 messages, of a few units, or of both cut its conversations
  everywhere.  Resumes are not bounded.
- *otel*: two bridges and one pair over two steps: the body of the first step may
  end during the second, where the pair runs again; one iterator.
- *page*: two sockets one after the other, two requests, one run and two contents,
  two exports of one or two spans with a server buffer of one.  The page's cap of 2
  drops events and the server's buffer spans; the page's cap for spans drops none here,
  and that it never leads to a span shown twice is proved for every cap.  The server
  does no more while a message is unread (`MaxUnread`): a step's own messages come on
  top, so up to three are under way; since the socket is first in, first out, more of
  them delay what arrives and do not change its order.
  Spans are symmetric.
- *examples*: four failures (more than any retry or heal allows one system) and two
  sends after rest.

`CHECK_DEADLOCK FALSE` is stated where the system stops: an application that has
used its runs, calls or messages does nothing more.

### Fairness

*core* uses `FairSpec`: weak fairness of the loop's actions (JavaScript runs a
continuation whose promise is settled, and the adapter answers each save, with
success or failure) and of `Timeout` for every pair.  There is no fairness for
bodies: they may hang for ever, which is why all systems of that run have a
timeout.  *gate* uses weak fairness of each caller's own continuations, of time,
and of the model's answer; without the last a permit is held for ever and nobody
behind it is served, which the code does not prevent (`withTimeout` is the layer
that bounds a call).  *stack* has weak fairness of every layer's continuation, of
armed deadlines, and of a model rejecting once its signal is aborted; a model may
hang otherwise.  *otel* is fair to each iterator (its consumer keeps asking), not
to the run.  *examples* is fair to the engine's next step, whose liveness *core*
shows; callers owe nothing.  `ReactAgent` states no liveness: whether a turn ends
is up to the application and the model; `NoTurnStranded` says what must be true
where it stopped.

### What the properties say, in short

- **The scheduler loses nothing** (`NoMissedInput`): a matching pair that is not
  pending has seen every value of its inputs that others wrote.
- **Discarded work leaves no trace** (`NoDiscardedEffect`): not a
  failed, aborted, timed-out or rejected execution's.  Spawned ids are new
  (`FreshSpawns`).
- **Cancellation** is stamped whenever a run says `'cancelled'`, and no pair starts
  after it; a run that says `'quiescent'` or `'limit'` is so (`StatusIsTrue`,
  `CancelStopsScheduling`).  Failures are recorded, and cleared when they are past
  (`FailureRecorded`, `NoStaleError`).
- **Saving** (`SavedIsStored`, `QuiescedIsPersisted`, `RestartLosesNothingAcked`):
  what the engine skips is stored and a run that resolved is stored, unless a load or
  an external spawn threw half-way since the last save; and a restart
  starts from nothing older than the last acknowledged save.
- **Deploys** (`NothingForgotten`, `GateTellsTruth`, `RecipesAscend`,
  `RetiredNamesGone`): a build that does not know a component hands it on, `canLoad`
  says what `load` would do, no rollback writes an older recipe over a newer one, and
  a name that a migration retired does not come back.
- **Permits** are neither lost nor doubled, callers are served in order, the pace
  is kept and nobody waits for ever (`GateSafety`, whose parts are named,
  `WaitersServed`).
- **Model calls**: an answer is the caller's own and in one piece
  (`AnswersAreTrue`), what the layers keep agrees with what happened
  (`BooksBalance`), nothing is tried after a stop (`NoAttemptAfterStop`), and a
  deadline around the chain ends a call (`ChainDeadlineEnds`).
- **Chat** (`ChatSafety`, `TurnsAreAccountedFor`): for an application that sends
  only when the previous turn is closed, and un-cancels only when nothing is open.  It
  may resume whenever it likes; what then runs on an answer to no question (`blind`) is
  the exception `OnlyApprovedRun` makes.
  `ChatSafety` joins `OnlyApprovedRun`, `QuestionIsCurrent`, `RequestsAreComplete`
  and `NoCallLost`.  Every request, cut by any window, is one a model takes
  (`WindowIsValid`).
- **Watching**: an iterator gets the log of the run and ends (`StreamIsLog`,
  `ReadersEnd`); spans tell the run as it went, but for the failure of a timed-out pair (`SpansAreTrue`), and the page's tree
  shows each once (`TimelineShowsAll`); once its messages have arrived the page
  shows the world and the recorder as last announced (section 4 names what is announced to nobody) and the events in order and once
  (`PageSafety` joins `ViewIsCurrent`, `TraceIsCurrentOrEmptied` and
  `EventsInOrder`) and no span twice (`SpansShownOnce`), and each request has one
  true outcome (`RequestsSettle` joins `AcksAreTrue` and `NoRequestStranded`).
- **Programs** keep their stages in order (`StagesHold`), leave an answer, a
  recorded reason, or neither in the ways each program's `Settled` names (`RestIsAnswered`), and come to rest (`ComesToRest`).

## 4. Known limits the models show

Besides *approval*, these are formulas that do not hold, with the reason; where a
name is given the formula stands in that module, for whoever changes the code.

- *World*.  `ResolvedRunKeepsCancel`: a `cancel()` after the loop's last look at
  `pendingCancel`, while `running` is still true, is dropped (`world.ts:1320`,
  SPEC R50).  `MutationsMarked`: an external spawn that throws half-way changes
  entities and the id counter and bumps no revision (`world.ts:845`, SPEC R58).
  `MergesAllLand` excepts spawns: a spawn is replayed as a set on the id it
  allocated, which other bodies of the step may know already, so it overwrites what
  an earlier pair merged there (`world.ts:1792`).
- *Durability*.  A cancel during a step whose barrier rejects is dropped with the
  run (`world.ts:1007`, SPEC R50).  A run rejected in its first step leaves the
  message that was sent unsaved until the next run ends.  After an external
  spawn that threw half-way (`world.ts:845`) the boundary has changed and the revision
  has not, so a run that commits nothing resolves without saving it, contrary to "a
  quiesced world is never unpersisted" (`world.ts:111`, SPEC R58).  With `MemoryAdapter`
  and rewinds, `load` returns the greatest step, not the newest save
  (`persistence.ts:42`), which may be of the abandoned timeline.  With the file
  adapter, rewinding to a step file that was never acknowledged and then running
  without a step skips the save (`world.ts:2302`): a later restart loads the older
  `latest.json`.  `RestartUsesNewestFile`: after a crash between the step file
  and `latest.json`, the restart uses the older `latest.json`, although the guide
  (`docs/guides/persistence-and-time-travel.md:234`) says it falls back to the
  newest step file.  `FailedLoadKeepsTrace`: a load that throws in a
  `deserialize` hook has already emptied the trace (comment at `world.ts:2242`).
- *RateLimit*.  `minIntervalMs` spaces *reserved* starts.  A timer that is late can
  bring two actual starts closer together; `PaceKept` is the rate that holds
  nevertheless.  With two or more permits a newcomer may reserve its start
  before a waiter that was granted but has not run yet.
- *Recording*.  A replay in another order than the recorded one finds a call's own
  prompt only as far as the match window reaches (16 entries by default,
  `recording.ts:144`, `:180`); a longer recording may answer a call with the entry
  of another prompt, unless it is strict.  `RepliesAreOwn` says `inReach`.
- *ReactAgent* with a careless application (`Careful` FALSE): the model may be
  called with unanswered tool calls, a reply's calls may be dropped
  (`executeTools` removes `PendingToolCalls` in the step in which `callLLM` sets
  it), and `retry` may re-arm `callLLM` in the step in which it succeeds.
  `OnlyShownRun` does not hold for a careful one either: `resume()` (`world.ts:1041`)
  does not look whether anything is asked, so an unprompted or a second answer leaves a
  `HumanResponse` nobody consumes; it vetoes `toolApproval` (`systems.ts:121`) at the
  next sensitive call, and `executeTools` (`systems.ts:143`) takes it for the approval.
- *MCReactAgent*.  `WindowHasAMessage`: the walk of `recentMessages` keeps a newest
  message that exceeds the token budget alone, "dropping it would send an empty
  conversation" (`context.ts:89`), but when it is a tool result it is dropped right
  after as an orphan (`context.ts:97`), which leaves nothing but the system messages.
  A count no larger than the number of tool results at the end does the same.
- *Devtools*.  A load that throws in a `deserialize` hook has replaced part of the world
  and emptied the recorder (`world.ts:2244`); the command is answered with an error and
  nothing is broadcast (`server.ts:458`), so the page shows the world before it until
  the next change, step or run; likewise a spawn of the program that throws half-way.
  A run that ends with every candidate vetoed adds to the recorder (`world.ts:1235`) and
  announces no step, so its entry is not sent before the next step or greeting
  (`server.ts:358`).  `ViewIsCurrent` and `TraceIsCurrentOrEmptied` except these
  (`untold`).  And after `load-step` the server broadcasts the world
  and not the trace (`server.ts:340`, `:452`), so a page shows the steps of the old
  timeline until the next step (`TimeTravelTab.tsx:54` says that entities and trace
  are replaced).  Two history reads may land in either order, and the list of
  steps then lacks the newest until the next read.  The page's cap can drop a
  span that the server's buffer still has.
- *OtelSpans*.  `DetachEndsSpans`: a pair that timed out has left the bridge's
  books, so a detach does not end its span; the late body does, if it ever ends
  (`instrument-world.ts:124`).  `EndedWithError`: when the deadline's `system:error` comes
  the bridge drops it, since a span the wrapper opened "was already ended (with ERROR)"
  (`instrument-world.ts:257`); after a deadline it is still open, ends OK if the late body
  returns, and the pair's failure is on no span.
- *Examples*.  In the supervisor, a request whose worker is given up on leaves
  `Dispatched` behind, and a second request never aggregates.  In devtools-demo one
  send starts one job: a second queued job waits for the next send.  In the
  research team an empty plan rests with neither answer nor error, and a model
  call that throws loses what it had metered.  `extractJson` shows the model a schema and
  checks nothing unless it is given a validator (`extract.ts:14`): a content pipeline
  whose outline has no section rests unpublished (`pipeline.ts:79`), and a support ticket
  whose category, given with confidence, is nobody's lane rests with no reply and no
  human asked (`desk.ts:79`, `:113`).  In rag-qa a second question on the same entity is
  never taken up.

## 5. Proofs

| theorem | module | for every value of the constants |
|---|---|---|
| `TypeCorrect` | WorldProofs | `TypeOK` |
| `IdsAreNeverReused` | WorldProofs | `FreshSpawns` |
| `PendingPairsExist` | WorldProofs | `NoPhantomDirt` |
| `MatchSetsAreCurrent` | WorldProofs | `MatchedCurrent`, if no external call throws half-way |
| `NothingIsMissed` | WorldProofs | `NoMissedInput` |
| `DiscardedLeavesNoTrace` | WorldProofs | `NoDiscardedEffect` |
| `StatusTellsTheTruth` | WorldProofs | `StatusIsTrue` |
| `CancelledRunsStartNothing` | WorldProofs | `CancelStopsScheduling` |
| `MergesLand` | WorldProofs | `MergesAllLand` |
| `FailuresAreRecorded` | WorldProofs | `FailureRecorded` |
| `ErrorsAreCurrent` | WorldProofs | `NoStaleError`, if only the engine adds error records |
| `DurabilityTyped` | DurabilityProofs | `TypeOK` |
| `UnchangedIsStored` | DurabilityProofs | `SavedIsStored` |
| `ResolvedMeansStored` | DurabilityProofs | `QuiescedIsPersisted` |
| `RestartIsSafe` | DurabilityProofs | `RestartLosesNothingAcked`, both adapters, if the memory adapter is not rewound (as in *file*) |
| `TraceHasOneHistory` | DurabilityProofs | `TraceIsOneTimeline` |
| `NothingIsForgotten` | DeployProofs | `NothingForgotten` |
| `TheGateTellsTruth` | DeployProofs | `GateTellsTruth` |
| `RecipesOnlyAscend` | DeployProofs | `RecipesAscend` |
| `GateIsSafe` | RateLimitProofs | `GateSafety`, from `GateTyped`, `PermitsAreBalanced`, `NobodyWaitsInVain`, `QueueStaysExact`, `NobodyOvertakes`, `PaceIsKept` |
| `NobodyOvertakes` | RateLimitProofs | `NoOvertaking`, the conjunct of `GateSafety` about order |
| `TheAnswersAreTrue` | ModelStackProofs | `AnswersAreTrue` |
| `TheBooksBalance` | ModelStackProofs | `BooksBalance` |
| `StopsAreFinal` | ModelStackProofs | `NoAttemptAfterStop` |
| `ChatIsSafe` | ReactAgentProofs | `ChatSafety`, if `Careful`, from `AgentTyped`, `OnlyTheApprovedRun`, `TheQuestionIsCurrent`, `NoCallIsLost`, `TheModelSeesNoOpenCall` |
| `TurnsAreAccounted` | ReactAgentProofs | `TurnsAreAccountedFor`, if `Careful`, from `NoTurnIsStranded`, `RetriesAreBounded` |
| `WindowKeepsPairs` | ReactAgentProofs | what `recentMessages` leaves of any conversation |
| `WindowsStayPaired` | ReactAgentProofs | the same of the agent's conversation in every state, if `Careful` |
| `EveryWindowIsValid` | ReactAgentProofs | `WindowIsValid`, if `Careful`, for every window and every estimate |
| `PageIsSafe` | DevtoolsProofs | `PageSafety`, from `PageTyped`, `ViewStaysCurrent`, `TraceStaysCurrent`, `EventsStayInOrder` |
| `SpansAreShownOnce` | DevtoolsProofs | `SpansShownOnce` |
| `RequestsAreSettled` | DevtoolsProofs | `RequestsSettle` |
| `StreamNoLostWakeup` | OtelSpansProofs | `NoLostWakeup` |
| `StreamRefinesLog` | OtelSpansProofs | `StreamIsLog`: `RunStream` implements `EventLog` |
| `ExportedSpansAreTrue` | OtelSpansProofs | `SpansAreTrue` |
| `RunRefinesLog` | OtelSpansProofs | `StreamIsLog` for the run's own events: `OtelSpans` implements `EventLog` |
| `RowsShowAll` | OtelSpansProofs | `Shows`, of the rows of any list of spans |
| `EverySpanIsShown` | OtelSpansProofs | `TimelineShowsAll` |

Each rests on the module's named assumptions about its constants only.

*World.*  Types come first (`TypeCorrect`), with one lemma per group of actions.
`CommitCases` then says which actions touch committed state at all; every
invariant about that state is proved for `Commit`, the operator through which
they all go, and carried to the actions.  `NoMissedInput` is inductive relative
to the types: a commit either keeps a pair pending, or what it shows to a clean
pair was there when the pair's dirt was consumed, or a foreign change makes it
pending.  `NoDiscardedEffect` is not inductive; it is proved from an invariant
on where execution ids can be: unused ids are larger than every id in the state,
running ids are in one place only, and discarded ids are in no committed value.

What a run reports rests on two invariants about the loop.  `StampInv` follows a
cancellation from the request to the stamp: while steps may still run it is
pending, and a run that is about to report it has stamped every entity, also when
the cancel came during the save at the run's end.  `RestInv` says where the loop may
stop with work left: at the limit or for a cancellation.  The error records need
two facts that no property states: a record of the engine names a step that is over
(`StampsPast`), so the record a barrier adds is told from every earlier one, and
the record on an entity is that of a system whose latest execution there failed
(`ErrorInv`).  The latter holds only if the program does not write `SystemError`
itself; `EngineOwnsErrors` says so of the menus of operations (a body may still
remove records).  `MergesLand` follows the replay of a barrier position by
position: what a position adds stays until a later one of the same step touches it.

*Durability.*  `SavesAreOrdered` is the strengthening: a step file holds a
boundary of its own step, and a write in progress is the current boundary with
its finished part already in the store.  After a load or a spawn that threw half-way
the engine is wrong about the store; `torn` marks these states, and only these.  From it follow `SavedIsStored` and
`QuiescedIsPersisted`.  `StoreKeepsAcked` says that what a restart would load is
always among the boundaries it may load; `RestartIsSafe` follows.  For the memory
adapter, whose `load` returns the greatest step and not the newest save, it needs
`MemoryAhead`: while the engine is up no stored step is above the world's, so the save
that ends next is the greatest.  That is what a rewind of that adapter would break, hence
`FALSE \notin Rewinding`.
`TracedOrder` says that what a step appends to the recorder keeps it sorted, dropped
entries included; `TraceHasOneHistory` rests on it and on no step exceeding the
world's own.  The theorems
cover every cadence, `'quiescence'` (`SaveEvery` = 0) too.

*Deploy.*  `DeployInv`: a loaded world's snapshot is the world as every change left
it, its recipe is not below the stored one, and live and opaque values are typed.
It rests on algebra about the two maps (`RoundTrip`: splitting a record by the known
names and laying one part over the other gives it back; `WriteOver`: so does a write
to both parts), and on `MigrateChain` ending in a snapshot: a chain is a recursive
function on 0 .. n, and that such a function exists and stays typed is shown by
`Iteration`, with a least counterexample in place of induction.

*RateLimit.*  Permits, queue and idle permits are one invariant, `GateOK`: none of
its parts is inductive alone, since a release hands its permit to the head of the
queue.  `OrderOK` adds that tickets grow along the queue and that whoever holds a
permit came before everyone in it; an abort in the middle keeps both because it
removes one place and moves nobody past another.  `PaceOK` numbers the reserved
starts: the k-th lies at least k - 1 intervals after the first, and a call reaches
the model only at or after its reservation.

*ModelStack.*  `StackInv` joins four invariants.  `FrameInv` is one call's: how
many models it may have asked, that the chunks its consumer saw are of the last of
them, that a cancellation is the caller's, that an armed controller follows it, and
that a failure above the fallback has tried the second model; `IndexInv` says that
the indices given out are 1, 2, ... without a gap; `ScriptInv` that the slots held,
given back and delivered partition those claimed; `BooksInv` that the cache is a map
within its limit and that reports and entries are of calls that are done, under the
index and prompt they began with.  `StopsAreFinal` is an action property: an
action that asks a model has looked at the signal in the same synchronous stretch
(`AskedQuietly`).  Replay needs one more, `ReplayInv`: entries handed out can be
paired with calls of the same prompt, one call each.  So when a call comes whose
prompt was recorded, its entries cannot all be gone (`OneLeft`, by counting), and one
is within the window when the recording is; in the recorded order exactly the
entries before the call's are consumed, and its own is the earliest (`TakeInOrder`).

*ReactAgent.*  `ReactInv` speaks of a pair of committed components and pending
systems (`Sound`, `Agreed`), and says it of the pair in memory and of the pair
last saved, because a crash replaces the one by the other.  Its heart: while
`callLLM` is pending no tool call is, and `retry` and `callLLM` are never pending
together.  Hence a step either calls the model (`ModelStep`) or runs tools
(`ToolStep`), a `HumanResponse` is a denial, a yes to the calls that are pending now, or one given
when nothing was asked (`Agreed`), and a reply never replaces calls that are still open.  `Careful`, the hypothesis
on the application, is used in two places, the sends and the un-cancelling; the
run *approval* shows that it is needed.
`TurnInv` adds where a turn can stand (`Armed`): an open turn has `callLLM` pending,
or tool calls with the system pending that takes them next, or an error record; it
too is said of memory and of the save.  A run that ends by itself has no system that
could run, and so the turn is `Accounted` for.  `RetryInv` bounds the row of failures
by the error records, which a success clears and `retry` reads.
A window keeps a tool result with its call whatever the limits and the estimate
(`WindowKeepsPairs`): it is the pinned prompt and an end of the conversation that does
not begin with a result, and results follow their call with only results in between
(`Paired`).  Where the walk of `recentMessages` stops is a least position
(`LongestRun`), so no induction over the conversation is needed.  That the agent's
conversation is `Paired` takes an invariant too (`PairInv`): the calls that wait are
those of the last message, in memory and in the save.  `Sends` says what a provider is
sent for a conversation, a message per call; `SendingKeepsPairs` takes the pairs there.
That `RequestMessages` sends it (`SentIs`) is a fact about a flattening, a recursive
function: `FlattenIs` says that it joins the sequences one after the other, and
`LaidOut`, what the first messages have become, is carried along that join by a least
counterexample (`RequestIs`).  `EveryWindowIsValid` puts the parts together.

*RunStream.*  `StreamInv` says that an iterator is never ahead of the buffer, that one
which has left had read all of it and left with the run's outcome, and
(`NoLostWakeup`) that a parked iterator is registered and none is parked once the
run has settled.  It is needed twice: `Yield` delivers only what the log has, and
`Finish` may map to `Leave` only because nothing is emitted after settlement.
`StepRefines` takes each step of the stream to one of the log or, for `Park`, to
none.

*OtelSpans.*  What a span should say depends on the loop, on who is attached and on
the `RunState` the bridge keeps, so `OtelInv` relates the three.  `RunStatesOK`: a
`RunState` exists for exactly the attached observers that saw the run begin, names the
step that is going on, and lists the pairs that run and have not been reported; this
is why an error for a pair that is not listed can only be a guard's.  `SpansOK`: which
spans there are, so that a new step or pair never meets a span of its name.
`LivesOK`: how often each has been ended and whether with an error, from what became
of its body; a pair's span is the one that may outlive its step and, for an observer
that left, be ended twice.  Every handler is described once (`OnWrapIs`,
`OnSystemErrorIs`, `RunOverIs`, ...), most of them as closing a set of spans
(`Closes`), and each action's lemma puts the descriptions together.  `OrderOK` is
about the two lists: `splice` and `restoreRegister` keep the order of those that stay.
That a model is wrapped once is a fact about a recursive function along `register`;
that such a function exists, and stays where it should, follows from a least
counterexample (`Iterated`, `Throughout`).  `StreamSteps` shows that the loop uses
the stream as `RunStream` says: nothing is emitted after the settlement, and there is
one; so the refinement holds of the events the run really tells.

*The trace tab.*  A position's rank is one to one, since the sort is along a total
order, so `InOrder` lists each position once and by its key.  The walk has an invariant
(`WalkOK`): the rows so far form a tree, every span has a row or is left to visit, and
what is left hangs below the rows at depths that do not increase.  `N * (N - n)` plus
what is left, for `n` rows of `N` spans, falls with every visit (`VisitKeeps`), so
`Visits` of them end the walk even where parents form a cycle (`WalkEnds`).  Where they
do not (`Levelled`), `MarginOK` follows what hangs below the roots: a span that is
neither shown nor left there waits for its parent, and once the roots' trees are done
none can (`NothingWaits`); hence no other span is at the margin.  The exported spans
are levelled, because `OtelInv` has each below a span of the kind above it, and
finitely many, because instrumentations are (`InstrumentsAreFinite`).

*Devtools.*  What the page will show is decided by the messages under way, so the
invariant speaks of them: the newest message of a type is the present state
(`NewestIs`), and where there is none the page has it already (`ViewOK`, `TraceOK`);
the events under way are consecutive and the first of them comes after all those
shown (`NextIs`, `EventsOK`), and the gaps shown plus the one to come are fewer than
the sockets; a command that waits, in the socket or for the adapter, has had no
effect (`CommandsOK`), and an acknowledgement under way is of one that had
(`ResultsOK`).  Every step of the server is first shown to be a burst of messages
that says what it changed (`Tells`, `ServerTells`); from there a sequence is only
extended at its end (`NewestCat`, `NextIsCat`) or shortened at its head
(`NewestTail`, `NextIsTail`).  A change that a microtask has yet to broadcast, or a run
in progress, is where the view may be old, and there only, but for what nobody is told
of (`untold`): with it the invariant speaks of what was announced (`Told`).  When the page's cap drops
its oldest event the gaps move down by one place and none is added (`GapsShifted`).
For the spans it says that none is shown twice and, while the page is below its cap,
that what the buffer holds is shown or under way (`SpansOK`); the merge is a recursive
function, and that it repeats nothing follows from a least counterexample.

Only model-checked: liveness (`RunTerminates`, `WaitersServed`,
`ChainDeadlineEnds`, `ReadersEnd`, `ComesToRest`), which needs `ENABLED`, out of
the prover's reach; `RetiredNamesGone`, which holds of the migrations of the run and
not of every choice of names (a later migration may take a retired name again); and
the properties of `Workflows`.  Induction over data takes an operator as a parameter,
which no installed prover can instantiate.  For the recursive functions of
`ContextWindow`, `Deploy`, `Devtools`, `SpanRows` and `Timeline` a least counterexample
stands in for it.  The same was not tried for `Workflows`: its eleven programs are
fixed, but for two bounds, and their barrier is a fold of `Blackboard` whose argument is
an operator; what they promise is checked on those programs and not proved.

## 6. Not modelled

- `ctx.emit` and custom events, step traces beyond their order, dirt reasons,
  resources, introspection (`queryStats`, `systemsMatching`): read only, or data no
  property is about.
- Values and their serialisation; the request hash of `hash.ts` (it is taken to
  separate unequal requests); token estimates, usage, prices, backoff lengths.
- `anySignal`'s removal of listeners; `warnAt` of the budget watchdog.
- `history()` of the adapters and the encoding of world ids in file names.
- Spans of single model and tool calls, metrics and attributes of the bridge.
- The snapshot command, HTTP, static files and the OTLP decoder of the devtools
  server; the React views, selection and filters of the page.
- JSON parsing in `extract.ts`, narration, error classes, the message conversions
  of the `ai-sdk` and `langchain` adapters: stateless, sequential, and covered by
  unit tests.
- The remaining examples (hello-world, react-agent, sql-agent, human-in-the-loop,
  context-window, time-travel), which run the chat systems and adapters modelled
  here, the slides and the build scripts.
- A world with several chat agents: `ReactAgent` restricts the engine to one
  entity, and the interleavings of many are `World`'s, with abstract values.
