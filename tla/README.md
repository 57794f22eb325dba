# DataSynth in TLA+

A verification project for DataSynth (`src/`), a generator of synthetic
enterprise accounting data written in Rust. Most of the workspace computes data:
distributions, documents, ledgers, statistics. This project is about the part
of it that is a *system*: threads that hand items to each other, clients that
pause, stop and abandon streams, requests that share counters and flags, a guard
that many callers ask, a session that must survive its own interruption, a
pipeline of nearly sixty phases over one ledger, an engine that walks procedures
through their state machines.

## 1. The system's components

| component | state it keeps | operations | interacts with | module |
|---|---|---|---|---|
| bounded channel, `datasynth-core/src/streaming/channel.rs` | deque under a mutex, two condition variables, atomic closed flag and counters | send, send_timeout, recv, recv_timeout, try_recv, close | the streaming orchestrator's two threads | `BoundedChannel`, `FifoChannel` |
| streaming orchestrator, `datasynth-runtime/src/streaming_orchestrator.rs` | phase, item counts, progress, control flags | run_generation and its phases; pause, resume, cancel; the consumer's loop | the channel, whoever holds the control handle | `StreamingOrchestrator`, `StreamProtocol` |
| server streams, `datasynth-server/src/grpc/service.rs`, `rest/websocket.rs`, `rest/routes.rs` | `ServerState`: active_streams, stream_stopped, stream_paused; one task per stream | stream_data, event sockets, bulk_generate, control, start_stream | clients, each other through the flags | `StreamService` |
| resource guard, `datasynth-core/src/resource_guard.rs`, `degradation.rs`, `memory_guard.rs`, `disk_guard.rs` | degradation level, check counter | check, check_now | orchestrators and the server's requests | `ResourceGuard` |
| generation session, `datasynth-runtime/src/generation_session.rs`, `datasynth-core/src/models/generation_session.rs` | period cursor, balances, document counters, log; `session.dss` | new, resume, generate_all, generate_delta, save | the `generate` command, the output directories | `GenerationSession` |
| stream pipeline and rate limiter, `datasynth-runtime/src/stream_pipeline.rs`, `datasynth-core/src/rate_limit/limiter.rs`, `datasynth-server/src/rest/routes.rs` | sequence number, token bucket, counts of the sink; a tokio channel | emit, acquire, refill, stream_ndjson; the client's reads | REST NDJSON streams | `RateLimiter`, `NdjsonStream` |
| enhanced orchestrator, `datasynth-runtime/src/enhanced_orchestrator.rs` | the ledger (journal entries and their marks), statistics, the captured degradation actions, the products derived so far | generate and its phases | the guard, the phase sink, sessions | `GenerationLedger` |
| audit engine, `datasynth-audit-fsm/src/engine.rs`, `loader.rs` | execution order, state of every procedure, iteration and self-loop counts, completed phases | run_engagement | blueprints and overlays | `AuditEngine` |
| request rate limit, `datasynth-server/src/rest/rate_limit*.rs`, `redis_rate_limit.rs` | window start and count of each client | check_rate_limit | every REST request | not modelled, section 9 |
| calibration loop, `datasynth-eval/src/calibration/` | knobs, history, best value, damping; history file | step, run, save, apply_to | nobody runs it | not modelled, section 9 |
| group engine, `datasynth-group/` | manifest, shard outputs | manifest, shard, aggregate | separate processes over files | not modelled, section 9 |
| everything else | | | | not modelled, section 9 |

`PROJECT.json` lists all components, the ones without a module too, each with
the reason.

What makes each modelled component correct:

* **channel**: the bound of the strategy is never exceeded; every accepted item
  is received, evicted or still queued; one sender's items stay in order; no
  wake-up is lost but the one a close can miss; calls return and say what happened.
* **orchestrator**: the client sees a well-formed stream whose summary agrees
  with what it received, or accounts for what it lost; a cancellation takes
  effect at once; the summary arrives.
* **server**: `active_streams` counts streams; `max_events` is a limit; a stop
  stops, also a paused stream; a stream with a limit ends, also without a client.
* **guard**: the level covers what was measured; it recovers gradually, with a
  margin, and does recover.
* **session**: periods follow one another through the span; what is saved, what is in memory and what
  is on disk describe the same run, whatever was interrupted or repeated; no two
  periods share a directory.
* **rate limited stream**: no window of time lets through more than burst and
  rate allow; the body has no gap, and its last line says how it went; the task
  ends although the client may not.
* **enhanced orchestrator**: what two places say about one entry agrees at the
  end (document and entry, entry and event); what is derived from the final
  ledger is derived after its last change; nothing is done to an entry twice.
* **audit engine**: procedures follow their preconditions; circles are refused;
  steps are complete where the guard nobody evaluates asks for it; every
  engagement ends.

## 2. What is hard

Steps of two threads in an order no test produces (close against a wait, a
permit check against the start of a stream), values read before a lock or an
await and used after it, notifications that reach the wrong waiter, flags that
are global and owned by nobody, a consumer that goes away, a crash between
writing output and saving the session, a second command over the remains of the
first; and, where one thread runs a long pipeline, the order itself: a product
derived before a later phase changes what it was derived from, a mark that
travels along a reference which another phase corrupts. The list, each at the line where it bites and with the properties aimed
at it, is `hazards` in `PROJECT.json`.

## 3. Modules

Every definition that models code is listed in `PROJECT.json` under `map` with
the lines it stands for. A definition commented as a mutant, or named after a
definition with a suffix (`SendFull`, `SendFullUncounted`), is a plausible
mistake in that code; section 5 uses them.

### FifoChannel, BoundedChannel

`FifoChannel` is what a channel promises: an atomic queue; each call has one
effect between its call and its return, and its result says which.
`BoundedChannel` is the code. A thread is described by the point it has reached
(`pc`), `owner` is the mutex, `notFull` and `notEmpty` are the wait sets of the
two condition variables. What a method does under the mutex is one action, as
nobody else can look in between, except that testing a wait predicate and
parking are two (`SendMustWait`, `SendParks`): close does not take the mutex
and may run between them. `notify_one` follows the unlock and is a step of its
own that may wake any waiter; waiters may wake spuriously; a deadline may pass
whenever its thread is parked or about to look at the clock. `strategy` is
chosen when the channel is created, so one run covers all strategies.

### StreamProtocol, StreamingOrchestrator

`StreamProtocol` is what a client may observe when nothing is dropped: items of
the configured phases in order, a marker after each, one summary with the exact
total, the end. Of the items it keeps how much they count for together and the
phase of the last one, which is all that an order and a total need. `StreamingOrchestrator` is the generation thread, the consumer
and the control handle. The queue between the threads is the atomic one that
`BoundedChannel` implements; for safety it may be used in its place because there
is one sender, which is also the only one to close. A refinement of safety says
nothing about waking up, so the queue has, in `reader`, the way in which `recv`
falls asleep: between its test (`RecvMustWait`) and its wait (`RecvWaits`) a send
cannot run, as it takes the mutex, while a close can, and its notification is then
lost. Between two looks at the control
flags the thread only sends: the events of such a stretch are put in `outbox` at
once and sent one at a time. An item is its phase and how much it counts for
(the chart of accounts is one event that counts for all accounts, an anomaly
label counts for nothing). The four generating phases have the shapes of their
functions: one shot, record by record, chain by chain with a pause test, batches
of journal entries with pause and cancel tests inside the batch. A batch is
sent in the order of the code: its labels (`SendLabels`), then entry by entry
with the reports that fall between them (`SendEntry`), then its share is taken
off what remains (`EndBatch`).

### StreamService

`ServerState` and everything that reads and writes it: `stream_data` calls (an
admission check, then separate steps for the counter and the two flags, because
awaits and other tasks come between), event sockets, bulk calls, control
commands, and the REST handler that clears the flags. A task's loop is its tests
in the code's order. A generation yields some number of entries; sending one
waits for room in the response channel and fails when the client is gone.

### ResourceGuard

`check` counts and, at every `CheckInterval`th call, measures; `check_now` asks
the memory guard, the disk guard and the degradation controller. The controller
loads the level (`LoadLevel`) and swaps in what it calculated (`SwapLevel`):
two steps, between which another thread may do the same. `Calculate` is
`calculate_level`, with recovery one step at a time under hysteresis.

### GenerationSession

One command at a time over a directory and `session.dss`. `Plan` is
`compute_periods` over a real calendar: a date is a month and a day of it, and
`AddMonths` moves a day back that the target month lacks, as `add_months` does.
`generate` starts a fresh session, `--append` resumes from the file and extends
the plan. Beginning and finishing a period, truncating and writing the file are
separate steps, and the command may fail or die at any of them (`FailOrDie`), in
which case what was in memory is gone. Of a directory the model keeps which
period and configuration it holds and whether it is complete; of the balances,
the net of the income accounts; of the document counters, one. The model
covers the directories and files the session itself is responsible for: what
the orchestrator exports inside them is data.

### RateLimiter, NdjsonStream

`RateLimiter` is the token bucket in exact arithmetic: `Unit` units make a
token, `Rate` units come in with a tick, the bucket knows the ticks since its
last refill. `acquire` either takes a token (`AcquireNow`) or works out a sleep
(`AcquireSleeps`) and takes the token after it without looking (`WakeUp`). The
variable `window` observes: it starts at any moment and counts ticks and grants.
`NdjsonStream` extends it by the request: the blocking task draws a number, asks
the bucket, writes to the channel of the response, writes progress lines (where the
code does: after item N + 1); the generation may fail at any point, and the client reads, stalls or hangs up.

### GenerationLedger

`EnhancedOrchestrator::generate` from the first phase to the last, one action
for each; `at` is the phase that runs next, and each action has the branches of
its phase (configuration, degradation, resource check, errors that are logged,
errors that end the run). An entry is represented by the kind of phase that
writes it (twelve kinds) with the marks that phases put on it and on the
document and events it is linked to. `stale` collects what was derived before
the ledger changed again.

### AuditEngine

`topological_sort_with_preconditions` step by step, with its counters and queue,
and the loop of `run_engagement` over the order it returns: the choice of a
transition, the iteration limit, the limit on self-loops with its forced way
out, the steps executed on entering the work state, exit gates at the end, continuous
phases aside. A state machine is given by its edges in the order of the blueprint,
as that order decides which one is "forward".

`MC*` modules give TLC the sets its configurations need; `*_proofs` modules hold
the theorems of section 7.

## 4. Runs

| run | instance | what it shows |
|---|---|---|
| `channel_atomic` | all four strategies; 2 senders with both methods, 2 receivers with all three, 2 items each, capacity 1, overflow 1, close by either | `NoLostWakeUp`, `WithinLimit`, `Conservation`, and that the channel implements `FifoChannel` |
| `channel_pipeline` | all four strategies; 2 senders of 2 items, of which one closes the channel while the other may be waiting, 1 receiver in recv, capacity 1; fairness | `BufferDrains`, `SendReturns` |
| `orchestrator_block` | all four phases, 2 to 5 items each, batches of 2, queue of 3; fairness | `CancelBounds`, `FollowsProtocol` (refines `StreamProtocol`), `SummaryArrives` |
| `orchestrator_lossy` | DropOldest and DropNewest, a skipped phase, one label per entry, a consumer that may leave; fairness | `LossesAccountedFor`, `EndsWithSummary`, `GeneratorEnds` |
| `server_shared` | a call, a socket, a bulk call, a REST start, all commands, failures, generations of 1 or 2 entries; fairness | `ActiveAccountsForStreams`, `OneBatchAfterStop`, `LimitedStreamsEnd`, `StandingStopEndsStreams` |
| `guard_single` | one caller, values on both sides of every default threshold; fairness | `LevelCoversMeasurement`, `StepsDownOneAtATime`, `RecoversWithMargin`, `Recovers` |
| `session_years` | a calendar of four years from a leap year on; spans of whole years, and of 30 months from 29 February; one period, two volumes, one config whose hash is not stable; appends of one or two years; fairness | `PlanCoversSpan`, `StateDescribesPeriods`, `OneDirectoryPerPeriod`, `CommandsEnd` |
| `ledger_result` | every configuration, any two of the twelve kinds of entries, every captured degradation level, a failure anywhere | `DocumentAgreesWithEntry`, `FinalProductsAreCurrent`, `FlagsReachEventLog`, `BiasedOnOneWay`, `EmittedAtMostOnce`, `StatisticsMissOnlyLateEntries` |
| `ndjson_body` | up to 5 items, limited (burst 2, two thirds of a token per tick) or not, progress every 2 items, a channel of 2; fairness | `WindowBound`, `NoDebt`, `StreamIsWhole`, `AttemptsAccountedFor`, `TaskEnds` |
| `audit_engagement` | 3 procedures of the shapes of the built-in blueprints, every precondition graph, every exclusion, phases with gates, without one, and continuous; fairness | `RefusesCycles`, `FollowsPreconditions`, `GuardsHold`, `SelfLoopsBounded`, `EngagementEnds` |

The two runs that expect a violation are in section 6.

Bounds. Two senders suffice for a woken sender to compete with a fresh one, two
receivers for a notification to reach the wrong one; capacity 1 makes every
second send wait and capacity 2 lets order matter; two items per sender let a
waiter find the buffer full again. The orchestrator's five entries in batches of
two leave a last, short batch; an interval of two falls inside batches and
between them. The server's limit of one event is exceeded by a generation of two;
admission at 2 is reached and left. The guard's values surround each threshold
of the default configuration in twentieths of the limit. The session's 30 months
at 12 leave a rest of 6 and begin on 29 February, which the next two years lack, and commands may follow each other without bound: the
cursor and the log stay finite because a resumed plan is one append long; appends
of one and of two years let a command plan anew over what another has counted.
Two kinds of entries at a time let one phase's entry meet another's, and every
pair occurs; a kind stands for all entries its phase writes, as the phases treat
them alike. The bucket's rate does not divide its unit, so sleeps are rounded; a
window of eight ticks lets a burst, an idle stretch and a sleep fall into one;
`MaxIdle` is as long as a bucket needs to fill up from empty and one more token
(the assumption `MaxIdleAssumption`), so that longer stretches differ in nothing.
Three procedures allow a chain, a fork, a join and circles of each length; seven
iterations let the reviewed machine be revised twice and the limit be hit.

Deadlock is checked where the system never stops. The channel's threads may all
have finished: a sender has offered `MaxItems`, a receiver was told that the
stream is over (or, as `channel_lost_close` shows, sleeps). `generate`, an
engagement and an NDJSON task return once and for all.

Fairness. `FairSpec` of the channel: threads are scheduled and a thread that
keeps asking for the mutex gets it (strong fairness, as the mutex is taken and
freed by others in between); a deadline passes; a receiver that was not told
that the stream is over calls again; the closing thread closes. The liveness
properties fail without the last two, and they are what the orchestrator's
threads do. `StreamingOrchestrator`: both threads run; nobody has to resume or
cancel, so `SummaryArrives` has that as its premise. A send takes the mutex, so
it is asked for strongly; a sleeping consumer need not wake up by itself, and an
event wakes it, but it may sleep through the close: that the stream ends is not
claimed (section 6). `StreamService`: tasks run,
their sleeps end, a client that is there reads; no command has to come.
`ResourceGuard`: callers go on calling and measurements finish; `Recovers`
assumes that resources become plentiful for good. `GenerationSession`: a running
process takes steps; it may also die, which ends the command. `NdjsonStream`:
the task runs, the clock ticks, a client is told that the body has ended;
nobody has to read, so `TaskEnds` has that as its premise. `AuditEngine`: one
thread, which runs; its random choices are free, and no fairness is asked of
them. `GenerationLedger` has safety properties only.

## 5. Every property against a mistake

For each property of each passing run `PROJECT.json` names a mutant: one
definition replaced by a variant a programmer could have written (a missing
notification, a test after the wait instead of around it, a counter that is not
undone on one path, a plan with one period too many), with which TLC finds the
property violated under the same configuration.

## 6. Where the code and its documentation part

Two runs check a statement of the documentation and TLC finds a behaviour of
the code that violates it.

| run | statement | what happens |
|---|---|---|
| `channel_lost_close` | recv "returns `None` if the channel is closed and empty" | close notifies without the mutex; a receiver between its test and its wait sleeps for ever |
| `session_twice` | `--append --months N` "adds more periods to an existing session" | resume plans from the configuration alone but takes the saved cursor, so the second append generates nothing and reports success |

Further configurations are kept beside these. Each violates the property it
names; some belong to a precondition or an exclusion of a passing run, some to
another statement of a comment or a test:

| configuration | property | what happens |
|---|---|---|
| `MCStreamingOrchestrator_cancel` | `CancelIsSeen` | cancel "requests cancellation of the stream", but under Block a generation thread whose consumer stopped reading waits in send and never looks at the flag |
| `MCStreamingOrchestrator_end` | `StreamEnds` | the orchestrator's consumer meets the same lost notification of close: it has the summary and waits for a `None` that never comes |
| `MCNdjsonStream_progress` | `ProgressEveryInterval` | "Emit a _progress event every N items" (`routes.rs:1037`, `stream_pipeline.rs:223`): numbers start at 0 and 0 is passed over, so progress comes after item N + 1 with an `items_emitted` of N, and a generation of a multiple of N items has one report less; `test_rate_limited_pipeline_emits_progress` emits 10 items at an interval of 5 and looks only at the count of items, so it does not see that one report was made. `AttemptsAccountedFor` counts progress lines as the code writes them |
| `MCStreamService_leak` | `ActiveIsLive` | the gauge is the "number of active streaming connections"; a task whose orchestrator cannot be created returns before the decrement |
| `MCGenerationLedger_statistics` | `StatisticsMatchResult` | a test compares total_entries with the entries of the result (`enhanced_orchestrator.rs:16517`); treasury, tax, provision and, without a close, drift entries come after the count |
| `MCGenerationLedger_links` | `EveryEntryIsLinked` | "so every JournalEntry carries at least one ocpm_event_ids link" (`:3351`); treasury and tax entries are written after that pass |
| `MCGenerationLedger_bias` | `EveryFraudIsBiased` | "guarantees every is_fraud entry ... has bias applied" (`:3441`); an entry that is fraud and then gets an error is passed over by both sweeps |
| `MCBoundedChannel_overflow_mixed` | `WakeUpsReach` | under Buffer, send and send_timeout wait on one condition variable with different thresholds; `notify_one` is spent on the wrong one |
| `MCBoundedChannel_stranded` | `NothingStranded` | with two senders, send tests closed before it locks: an item is accepted after the last receiver was told that the stream is over |
| `MCStreamService_hangup` | `HungUpStreamsEnd` | the break after a failed send leaves the inner loop; an unlimited stream generates for nobody, for ever |
| `MCStreamService_restart` | `StopEndsStreams` | starting a stream resets the stop flag of all |
| `MCResourceGuard_race` | `StepsDownOneAtATime` | two callers: the level jumps from Emergency to Normal |
| `MCGenerationSession_lengths` | `StateDescribesPeriods` | an append of half a year, then one of two years: the second plans a full year where the first generated half of one, and goes on behind it |
| `MCGenerationSession_late` | `PlanCoversEntireSpan` | "A `Vec<GenerationPeriod>` covering the entire span" (`models/generation_session.rs:47`): twelve months from 2024-08-31 in fiscal years of six. The second period begins on 2025-02-28, as `add_months` clamps, and `compute_periods` goes on from there, so the plan ends on 2025-08-27, three days short |
| `MCGenerationSession_labels` | `OneSubdirectoryPerPeriod` | "One sub-directory per period" (`generation_session.rs:26`): periods shorter than a year share the directory of that year |
| `MCGenerationSession_rest` | `OneSubdirectoryPerPeriod` | 30 months and an append: the last half year and the first appended year begin in the same year, and the append writes over the directory of the half year |
| `MCGenerationSession_gap` | `PeriodsFollowOneAnother` | an append begins a month after the last day, not on the next day |
| `MCGenerationSession_mixed` | `AppendedOutputIsWhole` | after an interrupted repetition of generate, an append goes on from the older session over half-written directories |
| `MCGenerationSession_torn` | `AppendLeavesCheckpoint` | save truncates in place: a crash leaves no session to resume |

Met while reading, visible in the models, and not stated as properties because a
single line shows them: send_timeout does not update `max_buffer_size`
(`channel.rs:233`) and ignores the overflow of Buffer (`channel.rs:184`);
progress reports inside a phase carry the count of that phase between cumulative
ones (`streaming_orchestrator.rs:681`); a phase cut short by a cancellation is
announced and listed as completed (`:345`); the concurrency limit is compared
with a counter that is raised later, and never by bulk calls (`service.rs:132`);
with `auto_recovery = false` the level recovers at once and without margin
(`degradation.rs:333`); a check between two measurements answers Ok above the
hard limit (`resource_guard.rs:168`); retained earnings add cumulative balances
in every period (`generation_session.rs:264`); the document counters are stored
and read by nobody (`:267`); nothing is saved until all periods are generated
(`:289`); the configuration hash depends on the iteration order of maps (`:358`);
a single-period generate writes no `session.dss` (`main.rs:1561`).

A remark of the same kind without a configuration: entries marked through
their document are said to be "exempt from subsequent line-level flag
overwrites" (`enhanced_orchestrator.rs:2795`), and the injector marks them like
any other.

## 7. Proofs

TLAPS proves, for every value of the constants that the named assumptions of
the modules admit (TLC evaluates the assumptions in the runs):

| module | theorem | statement |
|---|---|---|
| `BoundedChannel_proofs` | `ChannelIsQueue` | the channel refines `FifoChannel` (`ImplementsFifo`): locks, waits, notifications, time-outs and close in any interleaving look like an atomic queue to its callers |
| | `TypeCorrect`, `MutexIsRespected` | types; one holder of the mutex, and the wait sets are exactly the parked threads |
| | `BufferBounded`, `ItemsConserved` | `WithinLimit`, `Conservation`, for any numbers of threads, any capacity (0 included) and any overflow |
| | `WakeUpsAreNotLost` | `NoLostWakeUp`, for any finite numbers of senders, receivers and closers |
| `StreamingOrchestrator_proofs` | `StreamFollowsProtocol` | where only Block (or Buffer, which differs in `Limit`) may be configured, the orchestrator refines `StreamProtocol` (`FollowsProtocol`) |
| | `TypeCorrect`, `LossesAreAccountedFor` | types; `LossesAccountedFor`, whichever strategy drops whatever it drops |
| | `CancellationTakesOneStep`, `StreamEndsWithSummary` | `CancelBounds`, `EndsWithSummary`, for any phases, sizes, batches and strategies |
| `StreamService_proofs` | `StreamTypeCorrect`, `CounterAccountsForStreams`, `StopCostsOneBatch` | types, `ActiveAccountsForStreams`, `OneBatchAfterStop`, for any finite set of streams |
| `ResourceGuard_proofs` | `TypeCorrect`, `LevelCovers` | types; the level covers the measurement behind it, for any number of threads |
| | `OneThreadStepsDown`, `OneThreadRecoversWithMargin` | with one thread and automatic recovery, `StepsDownOneAtATime` and `RecoversWithMargin` |
| `GenerationSession_proofs` | `SessionTypeCorrect`, `PlansCoverTheirSpans` | types, `PlanCoversSpan`, for every calendar, span, start and fiscal year |
| | `StateIsOfItsPeriods` | `StateDescribesPeriods`, if the appends are all of one length or whole fiscal years (`AppendsAgree`) |
| | `PeriodsAreOnDisk` | `OneDirectoryPerPeriod`, for the periods of all commands of a session, if those of its configuration last a year or longer (`YearLong`, a premise of the property) |
| `NdjsonStream_proofs` | `BucketTypeCorrect`, `RateIsKept`, `BucketIsNeverInDebt` | types, `WindowBound`, `NoDebt`, for any rate, burst and window |
| | `StreamDrivesBucket`, `StreamKeepsRate`, `StreamNeverInDebt` | each step of the stream is a step of the bucket or leaves it alone, so both results hold of the stream |
| | `StreamTypeCorrect`, `AttemptsAreAccountedFor`, `BodyIsWhole` | types, `AttemptsAccountedFor`, `StreamIsWhole`, for any number of items, interval and capacity |
| `GenerationLedger_proofs` | `LedgerTypeCorrect` and one theorem for each property of `ledger_result` | for any set of kinds and any number of them in one run |
| `AuditEngine_proofs` | `AuditTypeCorrect`, `OrderFollowsPreconditions`, `CyclesAreRefused`, `GuardsHoldUnchecked`, `SelfLoopsStayBounded` | for any finite set of procedures, any machines and preconditions (the last two with a hypothesis on the machines, below) |

The inductive invariants, and why the properties need them:

* **Channel.** `TypeOK` alone is not inductive: that an item pushed is in
  `Senders \X 1..MaxItems` needs that a sender inside a method has offered one
  (`Calling`), and that a woken thread goes on at a point of its own kind needs
  that wait sets hold parked threads only (`Waiting`); `TypeInv` is their
  conjunction. `BufferSteps` says once what any step does to the buffer and the
  counters, which preserves the bound and the accounts without looking at threads.
  For the wake-ups, "somebody is about to notify" is not inductive either, since
  one notification wakes one of several waiters. `WakeInv` counts: while a
  receiver is parked, the buffer holds no more items than there are threads about
  to announce or to take one (`ItemsAnnounced`); while a sender is parked, free
  slots are matched in the same way (`SlotsAnnounced`); and once the channel is
  closed and its waiters were woken, at most one sender that read `closed` too
  early is inside a wait (`OneLateWaiter`). The counts are cardinalities, hence
  the assumption that `Threads` is finite. The refinement needs no more than
  `TypeInv` and that a thread is in a method only if that method is in use
  (`MethodsInUse`): one lemma for each action of the queue says which changes of
  the channel are that action, and one for each step of the code picks the lemma.
* **Streaming orchestrator.** `PhasesInOrder`: the phase worked on is in the list
  and all before it are completed, a skipped phase begins no step. `OneLateStep`:
  after a step that was done under a cancellation the thread is at a point from
  which it tests the flag before the next. `SummaryOnItsWay`: from `Finish` on,
  the summary waits to be sent, is the *last* event of the queue (so only a
  receive can take it, as drops take the first of a full queue before something
  is appended), or has arrived; that nothing is sent after it comes from the
  program points. What is on its way is one stream, the queue and the outbox behind
  it, and sums over it would be induction over data. `Leads(m, s, a, b)` says
  instead that there *is* a table of values from `a` to `b` along `s`, one event
  after the other (`Moves`), and a send, a receipt, an eviction or a refusal each
  move one end of such a table (`LeadsAppend`, `LeadsTail`, `LeadsFurther`).
  `Balance` uses it for amounts (from what was received or lost to what the thread
  has produced) and `Ordered` for phases (from the markers the client has seen to
  the phases completed; data must be of the phase between). `SummaryTrue`: the
  summary is the last event of all, so what it says is still so when it arrives,
  but for the drop that sending it caused.
* **Server streams.** `StreamInv`: types, `FinishedHaveEnded`, the account itself,
  and `OnTheWayOut` (a stream that began a generation under a stop meets the test
  at the top of its loop before it can begin another).
* **Guard.** `TypeInv` adds to the types what a thread carries between its steps:
  what it measured, the level it loaded, and that what it calculated covers what it
  measured. With one thread, what was loaded is still the current level when it is
  swapped (`LoadedIsCurrent`), which both recovery theorems rest on.
* **Session.** `SessionInv`: the plan in memory is that of the command, as
  `compute_periods` and `resume` build it, the cursor went from where the command
  began towards its end, and a checkpoint is past the periods of its configuration
  (`Planned`). `DescribesInv` says of memory and file that balance, counter and log
  are those of the first `cursor` periods of *every* plan the configuration can
  have, as the next command may plan anew; plans of different appends share those
  periods only under `AppendsAgree`, and `MCGenerationSession_lengths.cfg` shows
  what happens without it. `OnDisk`: what this command generated is complete under
  its label. That labels differ is arithmetic on years: they rise along a plan whose
  periods are a year long at least (`LabelsRise`), also from the last period of the
  configuration to the first appended one. Where a period starts is a recursion over
  the periods before it, as days lost in a short month stay lost; what the proofs
  need of it (that such a table of starts exists, that its days never grow and its
  months are those of the span) is shown by the argument of the least number that
  fails it, in the place of induction.
* **Bucket.** `BucketInv`: what was granted in the window, with what is in the
  bucket, is covered by burst and rate (`Paid`); the bucket is within its bounds
  (`WithinBucket`); a sleeper will have rested for as long as its token needs
  (`Rested`).
* **NDJSON stream.** `CountInv`: the two counters, the task's and the sink's, and
  where between its lines the task is. `WholeInv` adds the body. `InOrder`
  relates each line to the number of items before it, a cardinality, so a line at
  the end changes no count but its own (`ItemsInAppended`); a bound on the progress
  lines so far says that the next one rises; and the body is such a list, with the
  closing line behind it once the task is done (`Closed`).
* **Ledger.** `LedgerInv`: one conjunct per property, stated at every point of the
  pipeline instead of at its end. A point is told from the others by the landmarks
  it has passed (`UpToCount`, ..., `UpToSweep`), and `Forward` says once that no
  phase jumps over a landmark, so that a phase that does not touch a conjunct needs
  no proof of its own.
* **Audit.** `AuditInv`: `Order` relates the unmet preconditions, the queue and the
  order found so far as Kahn's algorithm does (a procedure is in one of the two
  exactly when nothing it depends on is still to be sorted; no part of the order
  waits for itself in a circle); `Walks` says how far the walks are.
  `GuardsHoldUnchecked` assumes `WorkComesFirst`: a machine starts in its first
  state, which leads to the second only. `SelfLoopsStayBounded` assumes
  `LoopsAreLeftForGood`: the count of self-loops starts again whenever a state is
  left, so the limit holds of a procedure as a whole when no state with a self-loop
  is entered after one was left; `CountIsAll` then says that the count is all there
  is. The shapes in `MCAuditEngine` are those of the built-in blueprints and satisfy
  both.

Only model-checked: every liveness property (`BufferDrains`, `SendReturns`,
`SummaryArrives`, `GeneratorEnds`, `LimitedStreamsEnd`, `StandingStopEndsStreams`,
`Recovers`, `CommandsEnd`, `TaskEnds`, `EngagementEnds`), as the provers have no
ENABLED to reason about fairness with. Every safety invariant, action property and
refinement that a passing run checks is a theorem.

## 8. Plan

1. Done: all modules of section 3, the runs of section 4, the proofs of section 7.
2. `RequestLimit`: the windows of the in-memory and of the Redis backend against
   one abstract limit (hazard `rate_limit.rs:98`).
3. Proofs: that the orchestrator over `BoundedChannel` itself, instead of over the
   queue it refines, is the composition that section 3 argues for.
4. The group engine: a manifest, shards generated in any order and repeated, and
   the aggregation over what is there.

Each new component trades against configurations of section 6, so that the set of
listed runs stays small enough to be read.

## 9. Not modelled

* Generators, banking, standards, process mining, graphs, evaluation: seeded
  random data and statistics, no protocol.
* What the phases of the enhanced orchestrator compute: amounts, dates, names and
  distributions. Most of the workspace's lines are such code, or tables and schemas
  for it, which is why the map covers a small part of them: it has no state that
  another step depends on but the ledger's, and that is in `GenerationLedger`.
* The calibration loop: the command line "constructs (but does not run)" it
  (`datasynth-cli/src/main.rs:6590`).
* The request rate limit and the group engine: next in the plan.
* Scenario, causal and methodology engines, fingerprints, lineage and manifests,
  sinks: functions from data to data, or records that are built once and written.
* The job queue: the server never creates one and nothing runs its jobs. The
  privacy ledger and the back-pressure producer: nothing outside their tests
  calls them.
* Authentication, request validation, TLS: one decision per request.
* Inside the modelled components: conversions to protobuf and JSON, statistics
  that only accessors read, `send_blocks` and `receive_blocks`, forced levels of
  the guard, an unreadable disk, panics of generators (a panicking generation
  thread leaves its channel open), receivable and payable totals, the
  Batch output mode that only library callers reach.
* Data the models narrow: a generation of a server stream has entries (one of none
  would not bring a limited stream nearer to its limit); a sleep of the rate limiter
  is as long as its token needs or longer (`Duration::from_secs_f64` rounds to the
  nearest nanosecond, so it may be half a nanosecond short); of the ledger's kinds
  only standalone entries are fraud by themselves (`enhanced_orchestrator.rs:3433`
  names more); blueprints have distinct identifiers and name only procedures they
  contain; `field_required` and the approval guards of blueprints, which the engine
  does not evaluate either, speak of things it does not keep.
