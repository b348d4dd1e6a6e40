# lionagi: TLA+ models of the core

lionagi runs language-model agents: a user's program, the command line or the
studio daemon builds graphs of operations, executes them with bounded
concurrency, lets agents write to each other, queues work durably in a SQL
database and reports its outcome.  This directory holds TLA+ models of the parts
whose correctness depends on interleavings, crashes, clocks and retries, the TLC
configurations that check them on small instances, and TLAPS proofs of what
matters most for every value of the constants.  Every definition is translated
from the source; `PROJECT.json` maps each to its file and lines.

Paths below are relative to `src/lionagi/` unless they begin with `docs/`.

## 1. Inventory

### Modelled

**Dispatch outbox** (`dispatch/outbox.py`, ADR-0059).
*State*: rows of `dispatch_outbox`: status, attempt, next_attempt_at,
expires_at, what the producer asked for.
*Operations*: enqueue with a deduplication key; `deliver_due_dispatches` (select
due rows, then for each: expire, or claim, run the transport, settle);
acknowledge; operator retry; purge.
*Interactions*: the studio daemon scans on every tick and the command line scans
when asked, so scans of several processes overlap on one table; consumers
acknowledge at any time; the task worker is one of the producers.
*Hard*: a scan works from a snapshot and a `now` that age while earlier rows
are sent; the claim, the settle and the backoff are separate transactions; the
process may die anywhere, and leaves its transport command running; a lease brings
claims of dead scans back.
*Correct if*: claims of one attempt exclude each other, two scans do not send one
row at once, a row is neither lost nor sent beyond its budget, what is expired is
not sent later than a batch explains, and a settled status means what the producer
is told it means.

**Ad-hoc task queue** (`studio/services/task_applications.py`,
`studio/scheduler/admit.py`, `studio/scheduler/worker.py`, ADR-0071).
*State*: `schedule_runs` rows: status, leased_by, lease_expires_at,
lease_attempts, and the concurrency key, duration, capabilities and parking
flag of the application.
*Operations*: submit, cancel, and the worker tick: reap lapsed leases, then per
candidate admit, claim, execute, settle, or reject and notify.
*Interactions*: workers share the table only; a rejection enqueues a dispatch.
*Hard*: every step of a tick is its own transaction against a `now` and a
candidate list read earlier; executions outlive leases; the reaper of one
worker races the settle of another.
*Correct if*: a lease names one claim, an outcome is final, a live lease is left
alone, handing out is bounded, a key has one running task, and tasks end.

**Flow executor** (`operations/flow.py`, ADR-0023, ADR-0069).
*State*: the graph, the status of each operation, completion events, results,
the skipped, failed and vetoed sets, spawn accounting, the pause gate, what the
progress callback was told.
*Operations*: one task per operation walks edges, waits for dependencies, the
gate and the limiter, runs and settles; `pause`, `resume`, `inject`; requests and
escalations of running operations; cancellation and task-group failure.
*Interactions*: operations call the model service and emit requests on the
session bus; the command line restores graphs from checkpoints and listens to
progress.
*Hard*: the graph grows while tasks wait on snapshots of its edges; every exit
path must set an event others wait for; one operation's cancellation or error can
end the task group of all; three accounts of the outcome (signals,
events, lists) are written in different places.
*Correct if*: nothing starts before its dependencies, nothing below a refusing
gate starts, the accounts agree, whoever was told "queued" hears the end, a pause
holds, and the run ends.

**Exchange** (`session/exchange.py`, ADR-0017).
*State*: a mailbox per owner (outbox, one inbox per sender), the registry of
owners, mail in flight, the stop flag.
*Operations*: register, unregister, send, collect (two phases), collect_all,
run and stop, the synchronous twins, peek, drain, pop.
*Interactions*: the messenger tool sends and reads for an agent; the team round
check (`cli/orchestrate/_orchestration.py`) collects, peeks and drains; the
orchestrator runs the loop and collects once more at the end
(`cli/orchestrate/flow.py:1868`, `1911`).
*Hard*: between the phases of a collection mail is in neither box; collectors
are cancelled there; synchronous callers overtake them; owners leave; the last
collection happens once.
*Correct if*: no mail is lost or seen twice, a team is not declared quiet over
mail, a drained worker reads in order, and mail leaves its outbox.

**Circuit breaker** (`service/resilience.py`).
*State*: state, failure count, time of the last failure, half-open permits.
*Operations*: `execute` around an endpoint call: admit, probe, reject, report.
*Interactions*: shared by all calls of an endpoint
(`service/connections/endpoint.py:205`), with the retry loop inside it.
*Hard*: a call reports in a different state than it was admitted in, or never.
*Correct if*: a closed circuit is below its threshold, a half-open one waits for
one of its own probes, and an open circuit opens up again.

**Model calls** (`service/imodel.py`, `protocols/generic/processor.py`,
`service/rate_limited_processor.py`; in part).
*State*: per model one processor: the queue, the available capacity, the requests
and tokens left, the semaphore; per call an event with its status.
*Operations*: `invoke` (append, forward, wait at most ten seconds), `close`, the cycle
of `process`, the replenisher that resets the limits and drives the queue.
*Interactions*: every caller runs a cycle over the queue of all; what it grants
goes to the endpoint, in the caller's task group, through the breaker.
*Hard*: cycles overlap and share the capacity, which each refills; an event is in
the hand of a cycle while it waits for the lock; a cancelled caller takes the calls
of others along; what is deferred depends on the replenisher.
*Correct if*: no more is granted than the limits allow, a call is not lost, nor
run twice, the capacity comes back, and every call gets its turn.

**Schedule engine** (`studio/scheduler/engine.py`, ADR-0070; in part).
*State*: the schedule's row (`enabled`, `next_fire_at`); the runs' rows in
`schedule_runs` (status, `dispatched_at`, chain depth and parent); in memory, and lost
with the process, the map of running schedules, the claims on `max_runs`, the
global slots, and a task per fire.
*Operations*: start with three repair passes (undispatched orphans, dispatched
orphans, missed instants); the tick; a manual trigger; the fire from occurrence to
child, confirmation, end, effects and chained fire; the stale-run reaper; stop.
*Interactions*: the tick hands fires off and goes on; fires spawn child
processes, which outlive the daemon; a second daemon may share the database.
*Hard*: the decision, the admission (with an awaited count of the rows in its
middle), the commit, the launch and its confirmation are separate steps; a crash anywhere leaves a row that the next start has to
understand; five parties finalize rows.
*Correct if*: an instant and a unit of budget are spent once, a launched run is not
launched again, the first outcome stays and is acted on once, no end of a fire
keeps what it held, and every run ends.

### Not modelled

`PROJECT.json` lists every other component with the reason.  The ones with a
protocol of their own that the plan comes to: the lifecycle service
(`state/lifecycle/service.py`: versions, idempotency keys, history) and operator
approvals.  Of the model service, streams are left out (they put their id into
the executor's list of pending events and are consumed past the processor), and
with them the piles; hooks around events, the cache and the adapters.  Of the
schedule engine these parts are left out: `github_poll` triggers, rate limits, budgets in
money and tokens, thresholds, the rows of invocations, signals, skipped
occurrences, time zones and daylight saving, and pruning.  The rest is
sequential, or I/O, or a pure function of configuration and text (prompt
assembly, parsers, adapters, the HTTP layer, the user interfaces, LNDL), or is not
used by the Python package (the Rust kernel under `src/lionrs`).

## 2. Plan

In order of how much of the system rests on the part and how hard it is to test:

1. `DispatchOutbox`, its contract `DispatchContract`, its proofs. *Done.*
2. `TaskWorker`, the lease protocol, and its proofs. *Done.*
3. `FlowExecutor`, both executors in one module, and its proofs. *Done.*
4. `Exchange` and its proofs. *Done.*
5. `CircuitBreaker` and its proofs. *Done.*
6. `Lifecycle`: guarded transition with version, idempotency key, history and
   notification, as the abstract specification that the status moves of the
   outbox and of the task queue implement (a refinement as in 1).
7. `ScheduleEngine`: fire, cursor claim, occurrence, dispatch mark, orphan
   recovery, and its proofs. *Done.*
8. `ModelCalls`: queue, limits, capacity and cancellation of a model's processor,
   composed with `CircuitBreaker` behind it, and its proofs. *Done.*

`Lifecycle` is what the plan has left.  Every invariant and every action property of
the runs that pass is stated by a theorem (section 5), some under an assumption
named there.  Worth proving next: that the outbox and the queue implement
`Lifecycle`; that the queue implements an abstract lease; what of the outbox's timing
holds when operators retry.

## 3. Modules

| Module | Models | Kind |
| --- | --- | --- |
| `DispatchOutbox` | `dispatch/outbox.py` with the policy and compare-and-swap of `state/` | component |
| `DispatchContract` | what the outbox promises a producer | abstract specification |
| `DispatchOutboxProofs` | | theorems |
| `TaskWorker` | `task_applications.py`, `admit.py`, `worker.py` | component |
| `TaskWorkerProofs` | | theorems |
| `FlowExecutor` | `operations/flow.py` | component |
| `FlowExecutorProofs` | | theorems |
| `Exchange` | `session/exchange.py` and its callers in the team round | component |
| `ExchangeProofs` | | theorems |
| `Enumeration` | the ascending order of a set of numbers, a sequence without some members | operators |
| `EnumerationProofs` | | lemmas |
| `CircuitBreaker` | `service/resilience.py` | component |
| `CircuitBreakerProofs` | | theorems |
| `ModelCalls` | `iModel.invoke`, `Executor.forward`, `Processor.process`, `RateLimitedAPIProcessor`, with `CircuitBreaker` behind them | composition |
| `ModelCallsProofs` | | theorems |
| `ScheduleEngine` | `studio/scheduler/engine.py` with the writes of `state/db.py` it rests on | component |
| `ScheduleEngineProofs` | | theorems |
| `MCDispatchOutbox`, `MCTaskWorker`, `MCFlowExecutor`, `MCExchange`, `MCModelCalls`, `MCScheduleEngine` | the requests, applications and graphs TLC is given | instances |

The unit of atomicity is the code's: one database transaction in the outbox and
the queue, one stretch without an `await` in the flow executor, the exchange and
the breaker.  A read and a write in different transactions are different
actions, with the snapshot kept in between.  Definitions whose comment begins
with "Broken variant" are plausible mistakes in the definition they precede; no
specification uses them.  Each property is known to fail under one of them.

### DispatchOutbox

A scanner's `pc` follows `deliver_due_dispatches` and `_deliver_one_due_row`: `Scan`
(the SELECT), then per row `ExpireRow`, `Claim` or `SkipRow`, then `Launch` or
`NoTransport`, `TransportOk` or `TransportFails`, and one of `SettleSuccess`,
`DeadLetter`, `RequeueFailed` followed by `SetBackoff`.  `Enqueue`, `Ack`, `Retry` and
`Purge` are other processes.  Times are kept relative to now (`wait`, `ttl`, `age`),
which needs no bound on the clock; what counts down stops at 0 and what counts
up stops where nothing can tell the difference (`AgeCap`, `NotifyTimeout`).  `ttl` goes
on below 0, so that a launch after the deadline is seen with its delay.  `Crash` is a
scan that dies, is cancelled or is aborted by the database: its transport command,
which only the handler of `TimeoutError` kills (`outbox.py:155`), stays in `strays` until
it ends by itself (`StrayEnds`), and need never end.
Abstracted: `last_error`, the payload, a wrong token (nothing changes), the order
within a batch (any).  `Ack` and `Retry` read and write in one action: the write
names the status that was read, so a stale read writes nothing.  A missing
template and a command that cannot be spawned are both `NoTransport`.

### TaskWorker

Rows are numbered in queue order.  `Check` and `Insert` are the two halves of
`submit_task`; a worker's tick is `Begin`, `Reap` per lapsed lease, `BeginClaims`, and
per candidate `Admit`, then `Reject` and `Notify`, or `NoSlot`, or `Claim`, `Exit` and
`Settle`.  Abstracted: the heartbeat row (a tick writes it with the now it
compares it with), paging (one page holds all rows), the two reads of `admit()`
(one action), the reason codes, `reserve_slot` (it may refuse when
`SlotsContended`).  The notice is an enqueue into the outbox, which may fail.

### FlowExecutor

One task per scheduled operation: `ready`, `edges` (`CheckEdge` per head), `deps`, `gate`,
`limiter`, `invoke`, `tail`, `ended`; `due` are tasks `alcall` has not made yet.  The
static and the reactive executor differ in `flow.reactive`.  Results are
abstracted to what later steps look at: completed, completed with a malformed
context, failed, a gate's verdict.  Conditions are nondeterministic.  A node
restored from a checkpoint has its status and, for a gate, its saved verdict.
The tail of a task has no `await` that lets others in (`NoTail`).  A cancellation
reaches a task at its next `await`.

A run ends in one of four ways.  `ended`: all tasks are through.  `cancelled`: the caller
cancelled it, and `execute()` sweeps.  `stopped`: an operation ended in a cancellation of
its own (`ReturnCancelled`), which `Event.invoke` and `_execute_operation` raise again; the
task group takes it for its own end, cancels the other tasks (`Abandon`) and exits
without an exception, so that `execute()` returns a result and does not sweep.
`crashed`: an exception ended the group, from a callback (`Crash`; `Escapes` says where
nothing catches it) or from `retry_timeout` (`Timeout`).  Tasks `alcall` had not created by
then never are (`never`).  `alcall_params` can keep an error from the group, by retries
or a default, and a cancellation as well, by `return_exceptions`: `flow.takes`.

What can come up in a run at all (a pause, a cancellation, a raising condition, a
raising callback, an escalation, a timeout, an operation that cancels itself) is part
of the instance (`flow.may`), so that a run can combine many graphs with few causes.
A callback on progress that raises is taken to raise after the executor wrote what it
reports.  Left out: allocation and cloning of branches, context merging, wording.

### Exchange

Three kinds of task collect.  `Loop` is `run()`: `BeginSync` while nobody has stopped it.
`Final` is who stopped it: once the loop is over it calls `collect_all()`, one single time
(`BeginFinal`, `cli/orchestrate/flow.py:1911`), and a cancellation cuts that short for good.
The others collect one outbox at a time when they like (`CollectOne`).  `TakeOutbox` is
phase one of `collect()` and ends with the mail noted as in flight; `Deliver` is its gather: the tasks are created together and do not await, so they
run together.  `CheckRound` is `collect_all_sync()` and the peeks after it, one
synchronous stretch.  Messages are numbers in the order of sending.  Abstracted:
contents, channels, `receive()` (a read), failures to copy a message or to write an
inbox.  What was routed, read or lost with its mailbox is history.  `InOrder` of
`Enumeration` is the order in which an outbox is emptied.

### CircuitBreaker

`Admit`, `Probe` and `Reject` are `_check_state()`; `Succeed`, `Fail` and `Vanish` the ends
of `execute()`, the last one for an excluded exception or a cancellation, which
`except Exception` does not see.  The retry loop runs inside one call.  The clock
is monotone and metrics are left out.

### ModelCalls

Extends `CircuitBreaker`: the tasks that call the breaker are the calls, some past
the processor (`Direct`, any user of the endpoint), some through it.  A cycle is one
run of `process()`, by a caller or by the replenisher (`Timer`): `Look` is the head of
its loop, `Grant` and `Defer` what follows when it gets the lock of the limits, `Finish`
the end of its task group.  Nothing awaits between `Invoke` and that lock, so a
caller's append, forward and first look are one action, and without limits a whole
cycle up to its task group is (`Sweep`).  `Start` and `End` are the task of a granted call:
semaphore, breaker, endpoint.  `Back` stands for both ends of the wait in `invoke`, since
a call whose caller has given up is still in the queue and run when its turn
comes.  `Cut` is the cancellation of a driver inside its task group; `Close` the end of
the replenisher, which nothing creates again.  Waiters of the lock are served in
any order here, in the code in the order of asking; the semaphore is first come
first served in both.  A configuration says who calls how, so that one run holds
the breaker's instance and the processor's side by side.

### ScheduleEngine

One schedule, since schedules share only the global slots.  A daemon is one start
of the process: `Start` reads the undispatched orphans, `RecoverRow` treats one,
`RecoverDone` reads the dispatched ones, `ReconcileRow` treats one, `ReconcileDone`
decides about a missed instant, `PassMissed` or `OweMissed` takes it from there.  The tick
is `Tick` (the snapshot), then `Gate` or `SkipOverlap`.  A missed instant, a tick and a
manual trigger (`FireNow`) then reserve a unit of `max_runs` in the code's steps: `Reserve`
takes the lock and reads the claims, `CountRows` is the awaited count, and
`RecoverMissed`, `Admission` or `Trigger` decides, writes back the number it read, one
higher, and takes a slot; commits and ends of other fires come in between, and give
their claim back without the lock.  A fire is a task: `begun`, then `Commit` (the occurrence: row and cursor, or
orphan and replacement, in one transaction) or `Abandon` when the transaction is
refused; `Launch`, `Confirm`, `Finish` or `Deadline`, `Settle`, `Close`.  `SetupFails`,
`NeverBegins` and `LeaveUndispatched` are its failures, `Stop` and `Crash` take the
daemon's memory and tasks away, `ChildEnds` is the child.

What one action merges: a start and its first scan; the decision about `max_runs` with
the slot and the hand-off (no await lets another in after the count); the row of a skipped occurrence and the write of
the cursor, as nothing reads such a row; the guarded write of a reconciled row and
its effects, which follow without the tick, that starts later.  Time is in
instants: the trigger fires at every unit, `NextFire(t)` is the first instant after
`t`, and clock and cursor begin at 1.  `Horizon` stands for all later times, so
the deadline and the age of a stale run (hours) are reached only there; the
recomputation of cron cursors at a start finds what is there already.  The tick
loop catches every `Exception`, so a tick loop that ends is a process that ends.
Bounds show in two places: `Tick` and `ReconcileDone` do not begin what the bound on
fires would cut off, and an admission that finds the bound reached in between takes it
for a lack of slots (`HasSlot`).

## 4. Runs

| Run | Question | Instance and why it is enough |
| --- | --- | --- |
| `outbox_race` | Do races settle a row wrongly? | Two scanners, one row (rows share only the deduplication key), both acknowledgement modes, a deadline, one retry, one crash, every step delayed at will, and fair scanning for `EveryRowSettles`. Two claims, a retry between them and a purge fit. |
| `outbox_prompt` | Does the lease do its work when the process is prompt? | Two scanners and two rows, so that a row waits behind another in a batch and a row's claim meets a scan that read it before; time passes only inside the transport and nobody retries; budgets of 0 and 2 attempts, with and without deadline, two crashes that leave their commands running; the lease covers a batch (3 against 2 times 1; in the code 15 s against 10 s, a batch of one row); backoff of up to four units. |
| `worker_race` | Can a late worker or reaper do harm? | Two workers, two tasks, four kinds of application, a horizon of two leases, one pass cut short. |
| `worker_alone` | Does one daemon bound retries, keep keys exclusive and finish? | One worker, as many crashes as a task has leases, horizon long enough for both to lapse. |
| `flow_wild` | Order, vetoes, accounts and answers, whatever comes up | Thirty-three instances, fixed and reactive, of up to four operations: a diamond, a veto two hops away, aggregation without an edge, every restored status, every way a task group ends (cancelled, ended by an operation's own cancellation, by a timeout, by a callback) with what `alcall_params` keep from it; two spawns, two pauses, capacity two. |
| `flow_ends` | Does every run end? | The graphs where a task waits on several events, with pauses, cancellation, raising conditions and callbacks, timeouts, and operations that cancel themselves. |
| `flow_bad_escalate` | Is everything announced answered? | Violated: finding below. |
| `flow_bad_gate` | Does a gate refused before a resume still veto? | Violated: finding below. |
| `exchange_mail` | Is mail lost, doubled, reordered, overlooked or stuck? | Two owners, two messages (direct, to oneself and broadcast), the loop, the last collection and a session's collector, one cancellation of any of them, one owner that leaves and may return. An overtake needs two messages of one sender. |
| `breaker_calls` | Do late reports break the breaker, and overlapping cycles the processor? | Seven models. One with four callers at the endpoint, threshold two, two probes: two probes and two late calls at once. One with two callers who call it again and again through the processor. Five without a breaker and with two or three calls, so that two cycles of callers and one of the replenisher overlap: no limits with capacity one and two, one request per interval, requests and tokens with three costs (one call without), a call that costs too much; a cancellation, a close. `MaxCount` cuts off failures no guard tells apart. |
| `schedule_daemon` | Does a scheduler fire, budget, recover and end runs as it should? | Eight schedules, each picked for one contention: a budget of one claimed by tick, trigger and recovery; the same where nothing fails; a chain under that budget through two faults and three starts; a chain that could be longer; missed instants with overlap `skip`; an `at` trigger; a budget of two with a manual trigger, so that a fire commits while another reservation counts; two peers. Four ids are two fires and what replaces or follows each; two instants, two slots, so that a second admission can come between the admission and the commit of a first, chain depth one. |
| `schedule_bad_chain` | Is a run chained once? | Violated: finding below. |

Named bounds: `starts`, `fires`, `manual`, `faults`, `peers` (of a schedule's configuration),
`MaxRows`, `MaxCrashes`, `MaxRetries`, `Horizon`, `MaxSpawn` (the code's own),
`MaxPauses`, `MaxSent`, `MaxCancels`, `MaxLeaves`, `MaxCount`, and `cancels` and `closes` of a
model's configuration.

### Fairness

*Outbox and queue*: the daemon's tick loop starts a scan or a pass whenever none
runs (`WF` on `Scan`, `Begin`), a started one goes on (`WF` on `Work`; a crash is a
step of its own, and bounded), and time passes.  Nobody needs to submit,
acknowledge, retry, cancel or purge.  *Flow*: the event loop resumes every task
that can go on, operations return, a cancellation reaches every task, and the
controller that paused resumes; without the last a paused run waits, as it
should.  *Exchange*: the loop polls until it is stopped (`WF` on `BeginSync`), who
stopped it comes to collect, once (`WF` on `BeginFinal`, which happens one time), and a
collection under way goes on.  Nobody need stop the loop, and nobody else need
collect.  *Breaker*: calls end (the transports have timeouts), time
passes, and callers keep calling; no breaker changes state without a call.  *Model
calls*: besides, cycles that got the lock go on, the replenisher wakes up, and
`invoke` returns.  Calls are used up in most models, so the run does not check for
deadlock; `EveryCallEnds` says what must not be left behind.  *Scheduler*: the daemon's loop and
the tasks of its fires go on while it is up, and a stopped daemon is started again
as long as `starts` allows (`WF` on `Daemon`, `Fires`); every tick runs the stale-run
reaper before it looks at schedules (one `SF` on `Reap` by any daemon of any row, as
other steps interleave);
children end or meet their deadline (`WF` on the two together), and time passes.
The bounded world stops when fires, starts and time are used up, so the scheduler's
runs do not check for deadlock; `EveryRunEnds` and `DueIsHandled` say what must not
be left behind.

### What the runs found

* `engine.py:2446`: an executor that loses its row goes on with `max_runs` and the
  chained action; the reconcile pass does so for the rows it wins, and its comment
  (`engine.py:948`) relies on the loser to stop.  The pass does not except the runs
  of its own process, so a run that is triggered while the passes of a start are
  under way, and whose child ends before the pass comes to it, is chained twice
  (`schedule_bad_chain`).
* `flow.py:1276`: the `higher_tier` child of an escalation is accepted and announced
  and no task is started for it (`flow_bad_escalate`).
* `flow.py:536`: a gate restored as completed never has its verdict recorded, so
  after a resume the dependents of a refusing gate run (`flow_bad_gate`).

### Disagreements without a run

Met while modelling, visible from a few lines, and reflected in the wording of
the properties:

* *Outbox.* The claim does not compare `attempt` with `max_attempts`, so every crash
  between claim and settle can cost one launch more (`SendsWithinBudget`).  The
  lease is counted from the `now` of the scan, so a late row of a slow batch can be
  claimed with a lease already over; `NoOverlappingSends` is checked and proved for a
  prompt process whose lease covers a batch, which 15 s and 10 s do for one row only.
  A scan that dies or is cancelled leaves its transport command running
  (`outbox.py:155` kills it on `TimeoutError` only): a command that hangs overlaps the
  send of the next claim, though `outbox.py:343` says of lease and counter that
  "overlapping scans can't double-deliver"; `NoOverlappingSends` excepts commands
  without a scan that are past the timeout.  `outbox.py:407` compares `expires_at`
  with the `now` of the scan, so a row behind others is launched after its deadline,
  where `docs/adr/ADR-0059-durable-dispatch-outbox.md:369` says "Expiry wins before a new
  attempt even if attempts remain"; `LateByTheBatchOnly` bounds the delay.  `retry_dispatch` resets the counter to a value an
  old snapshot may still hold, so an old scan can claim in its place (the attempt
  numbers repeat; hence the epoch in `OneClaimPerAttempt`).  A retried row that had
  expired keeps `expires_at` and expires at the next scan.
  `outbox.py:557`: the backoff after a failed attempt is a second, unguarded UPDATE.
  If another scanner has claimed the row between the two, its lease is
  overwritten, and if that scanner dies the row waits the backoff (up to half an
  hour) instead of the lease of `_CLAIM_LEASE_SECONDS` (`outbox.py:57`); hence
  `RecoverableWithinLease` is checked for a prompt process only.
* *Queue.* `worker.py:428`: the holder of a key is read before, and outside of, the
  claim's transaction, which is guarded by the row's own status; two workers run
  two tasks of one key, which the comment at `admit.py:45` excludes.  The daemon runs
  one worker per process, so it takes two processes; `OneRunningPerKey` is checked
  for one.  `lease_attempts` is written from the snapshot of the pass
  (`worker.py:466`); with two workers a claim from an old snapshot lowers it, so
  `HandOutsBounded` is checked for one worker.  The lease is counted from the start
  of the tick (`worker.py:465`): a later candidate of a sequential pass may be
  recovered while it executes well within its allowed time; `ExclusiveWithinLease`
  speaks of the lease as it is counted.
* *Flow.* `flow.py:186` says of announced operations that each "is owed a terminal
  signal, whether or not execution ever reached it", and line 232 that every entry
  point that announces must sweep.  Only a cancellation by the caller sweeps
  (`flow.py:231`, `1076`).  When an operation ends in a cancellation of its own
  (`event.py:291`, `flow.py:704`) the task group ends without an exception and `execute()`
  returns a result; when a callback or `retry_timeout` raises, it ends with one.  In
  both cases operations `alcall` had no task for yet, a throttle being set, stay
  queued: `AnnouncedIsAnswered` excepts exactly these.  ADR-0023 (line 260) says that a
  condition-skipped node "currently reports `failed`" to the progress callback; the code
  reports `skipped` (`flow.py:597`), as the model does.  A task that times out while it
  reads its edges and that the parameters of `alcall` let the run survive is answered
  as cancelled, and a veto above it is not passed on (`AVetoIsAbsolute` excepts it).
  An operation whose condition raises gets no terminal signal
  (`flow.py:706`), and a veto above it is not passed on by it.  The pause gate is
  passed before the limiter: what waits for capacity when the pause comes still
  starts (`PauseHoldsTheRest` excepts exactly those).  An operation injected again
  while it runs sets the completion event early, and what waits for it starts too soon:
  with `Copies = 2` `StartsAfterDependencies` is violated, so `Copies` is one in all runs.
* *Exchange.* `collect_sync` can write newer mail into an inbox while older mail of
  the same sender is in flight; readers by `pop_message` then see the newer first.
  The round's drain delivers what is in flight, which is why `DrainsKeepOrder`
  holds for it.  The one `collect_all()` after `stop()` is not repeated: cancelled
  (`cli/orchestrate/flow.py:1911`), or not reached because the graph of a fan-out raised
  (`cli/orchestrate/fanout.py:490`, where it follows the task group), it leaves the last
  mail in its outbox.  `EveryMailLeaves` excepts exactly this.
* *Breaker.* A probe that ends in an excluded exception or a cancellation keeps
  its half-open permit.  When all permits are gone that way the circuit rejects
  every call for ever: `HalfOpenAwaitsVerdict` and `HalfOpenEnds` name the case.
* *Model calls.* `processor.py:112` reads the capacity before the wait for the lock and
  line 155 takes from it afterwards, so cycles that ask together grant more events
  than `queue_capacity` and drive it below zero; each cycle refills it to the full
  while others still hold theirs.  The docstring says "up to available capacity".
  Without limits (`rate_limited_processor.py:114`) an event is granted only if at most
  `queue_capacity` are queued, and a denied one goes back: once more are queued none
  is granted ever again, though `handle_denied` calls it a deferral.  A cancelled cycle
  leaves out line 158, so the capacity it took is gone until another cycle that
  makes progress ends, and if nothing was left no cycle can.  It also cancels the calls of others
  that it had granted, and loses the event in its hand and those of its group that
  wait for the semaphore: their callers wait ten seconds for nothing.  `close()` ends
  the replenisher and a later `invoke` starts the processor without one, so limits
  are never reset.  `Jammed`, `dropped` and `timer = "dead"` in `EveryCallEnds`, and the fault-free
  histories of `CapacityComesBack`, except exactly these.  Beyond the model: a stream
  (`operations/run/run.py:151`) leaves its id in `pending`; the next `forward` consumes the
  stream a second time, or raises when it is over, failing an unrelated call.
* *Scheduler.* A tick or a recovery that `max_runs` refuses disables the schedule for
  good (`engine.py:1101`, `1864`), also when the unit is held by a claim that will be
  given back, by a run that is counted as claim and as row because it commits during
  the count, or by an orphan and its replacement.  `docs/internals/studio.md:94` says that
  "the sum can only ever over-count (a spurious refusal, self-correcting on the next
  tick)" and `engine.py:1562` that "summing the two counts each fire exactly once":
  after such a refusal there is no next tick for the schedule, and an instant that is
  due is never handled with the budget unspent.  With a budget of one it takes a
  manual trigger, a failure or a crash; `DueIsHandled` excepts the schedules with a
  budget where it can happen (`SpuriousRefusals`), and takes a disabled schedule for an
  answer only if the runs on record have used the budget up.  `engine.py:1571` writes
  `inflight + 1` from the number read before the awaited count.  A claim given back
  during it is counted again, for the life of the process: with a budget of two or
  more a schedule loses a unit that way and is disabled a run early.  Hence
  `ClaimsMatchFires` asks that no claim be missing, and for exact claims only of budgets
  of at most one, where no reservation succeeds while a claim is held.  An orphan closed after such a refusal is not
  retried.  Manual, chained and missed fires write `next_fire_at` with no claim on
  it: a late one moves the cursor back and an instant may be fired again
  (`OneRunPerInstant` excepts it), an early one passes over an instant that was
  due.  `_running.pop` (`engine.py:2705`) drops the entry of another live run of the
  schedule, and the overlap gate then lets a further one through.  A failed write of
  `dispatched_at` is swallowed, and the run is fired again by the next start.  With
  two daemons the second one's start takes the first one's launching rows for
  orphans; `docs/internals/studio.md:85` asks for one process, hence `peers = 1` in
  `BudgetHolds`, `ConfirmedOnce` and `ChainedOnce`.

## 5. Proofs

Checked by TLAPS for all rows, scanners, callers and timing constants that
satisfy `ParameterAssumption` of the module, by SMT, Zenon and, for the temporal
steps, LS4.  No bound of an instance is used; the named bounds on crashes,
retries and counted failures are constants like the others.  What a theorem
assumes beyond `ParameterAssumption` is a named definition in its statement:
`ScanFits` and `LeaseCovers` (outbox), `Alone` (queue), `Copies = 1` and `Innocent` (flow).
Each is satisfied by the instance of the run that checks the same property.

**DispatchOutboxProofs**
* `TypeCorrect`: `TypeOK` is inductive.  Each action of a scanner has a lemma,
  grouped by which variables it may touch.
* `OneClaimPerAttemptHolds`: two claims with one attempt number cannot coexist.
  The property itself is not inductive: a fresh claim must differ from those in
  flight.  `ClaimInv` adds why: a claim in flight never carries a number above its
  row's counter, unless a retry reset the counter since (its epoch is older), and
  a new claim takes the counter plus one.
* `SettledAsPromisedHolds`: a delivered row's command exited zero.  `SettleInv` adds
  that a scanner about to settle a success has seen its exit code, and that rows
  in flight were enqueued (so their request can no longer change).
* `OutboxImplementsContract`: under the mapping `phaseOf`, `needsAckOf`, every step is a
  step of `DispatchContract` or leaves its variables unchanged, given the two
  invariants above.
* `SendsNeverOverlap`, `SendsAreBounded`, `ClaimsAreRecoverable` under `LeaseCovers`: the
  process is prompt (time passes only inside the transport), a whole batch of
  transports fits into a lease (`ScanFits`), and no operator retries.  The code's 15 s
  and 10 s satisfy it for a table of one row.  The clock enters through `OnTime`: the age of a
  scan and what the rows left may still take make up at most the time of a whole
  batch.  With it `LeaseInv` says that one claim of a row is in flight at a time
  (`OneAtATime`), that its row is leased until the scan is over, or gone for good
  (`HoldsWell`), and that what other scans have read of the row is `Stale`: it carries
  an attempt number that the guard of the claim rejects.  A retry sets the
  counter back, and an old snapshot then matches again, hence no retries; the run
  has none either.  `BudgetInv` adds that sends never outnumber attempts, and that a
  claim leaves attempts over, ends the row, or is charged to a scan that died;
  `LeasedInv` that no backoff is ever written into a claimed row.
  `StrayInv`, for the commands of scans that died: until one has run for the timeout,
  its row is leased for at least what is left of it, or gone for good (`Resting`), and
  whatever other scans have read of the row is `Stale`.
* `LateLaunchesAreBounded` under `ScanFits`, with retries at will and any number of
  rows.  `DeadlineInv`: a row the scan read as not expired has, since then, passed its
  deadline by less than the scan is old, and `OnTime` bounds that age by the transports
  of the rows before it.

**TaskWorkerProofs**
* `QueueTypeCorrect`: `TypeOK` is inductive.
* `OutcomeStaysFinal`: from the lemma `RowSteps`, which lists what one step can do to
  one row: nothing, a move of the submitter or a refusal, a claim, a reap, or the
  settle of the worker that owns the lease.  No item starts from a terminal status.
* `LeaseNamesItsClaim`, `LeaseIsExclusive`, `LiveLeaseStays` from `LeaseInv`: whoever
  executes a task holds its lease or the lease has lapsed, only the last claim can
  hold it, and what a reaper has in hand had lapsed when it was read.  The last
  two parts are needed for the first: a lease is taken from a living worker only
  by a reaper that compares the expiry it read with the row's.
* `KeysAreExclusive`, `HandOutsAreBounded`, both under the assumption `Alone`: there is
  one worker.  The invariant `AloneInv` says that everything the one worker read is
  still true of the rows when it acts on it, but for submissions and cancellations,
  which only add or end waiting rows: the holder of a key it saw stays one until it
  settles or reaps it, and the counter of a row is the number of its claims.  With two workers both
  fail, as the section on disagreements says.

**FlowExecutorProofs**
* `FlowTypeCorrect`: `TypeOK` with `Shape`: the graph only grows, a task belongs to a
  node, and only the reactive executor crashes.  Without the second, a task could
  settle an operation that is not in the graph.
* `PauseHolds`: while a gate is up, a task at the limiter is one that was there when
  it came up (`GateInv`).
* `AnnouncedAreAnswered`, `AccountsDoAgree`, `DependenciesComeFirst` assume `Copies = 1`: no
  operation is scheduled twice, as when nobody injects a node again.  Then where
  its task is tells everything recorded about an operation (`Ledger`): before the
  end nothing, at the end one of four consistent accounts, that of an operation
  which was cancelled, by its own doing, by a timeout or with its group, among them.  The
  first holds however the run ends; what it excepts (a static operation whose task was
  never created in a run that stopped or crashed) is exactly what stays unanswered in
  the code.  The second speaks of all runs that return a result, those an operation's
  own cancellation stopped included.  Both properties leave out runs in which a condition
  may raise or an operation escalates, where they are false.
* `DependenciesComeFirst` adds `Order`: what is done is settled, what a task awaits is
  what the operation depends on, and what a task past the wait depends on is done.
  It rests on two lemmas about all steps: a settled operation stays settled, and
  an operation that has a task gets no further dependency, since a new edge always ends at the
  node that is added with it.
* `AVetoIsAbsolute` assumes `Copies = 1` and `Innocent`: no condition raises, no timeout is
  survived by retries, the checkpoint restores no refusing gate (`flow_bad_gate` is that case) and nothing whose
  predecessor it does not restore.  The
  property follows paths, which no step can; `UprightInv` is local: an operation that
  is past its edges without a veto has only heads that ran to a yes, found no way to
  be reached, or were restored, none of them vetoed or refusing.  An operation that
  started is then not below a refusal, edge by edge, also when edges were
  added since.

**EnumerationProofs** holds what `Exchange` and `ModelCalls` need of sequences without
repetition: what they hold after an append, a join, a split, a tail, and after some
members were taken out, and that every finite set of numbers has an ascending
order.  The last takes an induction, which is done by the least number for which it
fails (`LeastNumber`), so that no induction rule with an operator is needed.

**ExchangeProofs**, for any owners and collectors and any number of messages,
cancellations and departures
* `TypeCorrect`: `TypeOK` is inductive.
* `EachCopyOnceHolds` from `EachInv`: what was routed is in flight, in an inbox, read
  or lost with its mailbox, each copy in one of the four and at one place of one
  inbox.  `Fresh` is needed beside it: what has left an outbox is older than what is in it, so
  that nothing is routed twice.
* `QuietHolds` from `QuietInv`: once a round check found nothing for an owner, there is no
  mail for it in any outbox, in flight or in an inbox until somebody sends some.
* `DrainsKeepOrderHolds` from `ReadInv`: an owner that reads by drains only has read what is older
  than all of the same sender that is in flight or in its inbox.

**CircuitBreakerProofs**
* `BreakerTypeCorrect`, `ClosedStaysBelowThreshold`, `HalfOpenHasProbes` from one
  inductive invariant, `BreakerInv`.  It adds to the three properties only that each
  probe of the current episode took a permit (`Cardinality(probing) <= probes`),
  without which the limit on concurrent probes is not inductive: probes of former
  episodes are still out and report into this one.

**ModelCallsProofs**
* `CallsImplementBreaker`: every step of a call through the processor is a step of
  `CircuitBreaker` or none, so `CallsAwaitVerdict` follows from `HalfOpenHasProbes`.
* `CallsTypeCorrect`, `LimitsAreKept`, `CapacityIsRefilled` from `CallsInv`, for any number of
  callers, any limits and costs.  A cycle begins only where none is under way
  (`DriversDrive`), so no driver forgets what it took; what was granted and what is left
  make up the limit (`BudgetAgrees`); and without a fault, capacity that is missing is
  owed by a cycle under way that made progress (`CapacityIsOwed`).
* `EachHasOnePlace` from `PlaceInv`: queue, hands of the cycles and task groups hold no call
  twice and share none (`Apart`); a hand is empty unless its cycle is asking; what is in one of
  them is what is pending and not dropped, and a caller that has not come is in none.
  `Apart` is moved along by one lemma per kind of move (`QueueGains` to `QueueSweeps`), and
  `OnePlace`, which counts, follows from it.

**ScheduleEngineProofs**
* `ScheduleTypeCorrect`: `TypeOK` is inductive; each kind of record update has a lemma.
* `OutcomeStays`: the first outcome of a run stays.  All finalizers ask for `running`
  except the one that writes a new row, so the invariant needed is `Fresh`: a fire
  that has begun has no row yet.
* `InstantsOnce`: one run per instant, for any number of daemons.  The property
  speaks of rows; the invariant `InstantInv` extends it to fires of missed instants,
  which move the cursor before they have a row (`Taken`), adds that the cursor is
  past all instants taken, and that what a tick has read or a fire claims is not
  later than its time, so that writing `NextFire` moves the cursor past it.
* `ClaimsAreCounted` from `ClaimsInv`: the slots in use are those that fires hold and never
  exceed their number; the claims cover the fires that hold one, exactly with a budget
  of at most one (`Covers`).  What makes the first inductive is `Noted`: whoever holds
  the lock has read no fewer claims than there are, since they only go back meanwhile,
  so that writing the number back cannot lose one.  What makes the second so: with a
  budget of one nobody passes the count while a claim is held.
* `ConfirmedIsNotRefired`, for one daemon at a time (as the property says), from `OrphanInv`:
  what a recovery pass has in hand has no task any more and gets none, as the process
  that fired it is down, and no row on record replaces one whose launch is known.
* `BudgetIsKept`, for one daemon at a time, from `BudgetInv`: the runs that are spent and the
  fires that hold a unit (`Counted`) together stay within `max_runs`.  `Spent` alone is not
  inductive: between the count of the rows and the row of a fire admitted earlier
  its claim must stand in for the row.  `Ready` adds that an occurrence that will count
  holds a unit, that a run and what replaces it count once, and `Seen`: the claims read
  before the count and the rows counted after it are together no fewer than what
  counts, though fires move from the one to the other in between.  Read in the other
  order (`Exhausted_ReadLate`) a fire is in neither, and the budget is exceeded.  Chained runs take no
  unit, as in the code.

The type invariants of the outbox, the queue, the flow and the breaker with its
processor are proved and in no run.  So are two more, of the queue and of the
breaker, as another property of the same run fails whenever they do:
`LiveLeaseNotReaped` (with `ExclusiveWithinLease`) and `ClosedIsBelowThreshold` (with
`HalfOpenAwaitsVerdict`).

Only model-checked are the liveness properties (`EveryRowSettles`, `EveryTaskEnds`, `RunEnds`,
`EveryMailLeaves`, `OpenEnds`, `HalfOpenEnds`, `EveryCallEnds`, `EveryRunEnds`, `DueIsHandled`), as
liveness under fairness is out of the prover's reach.

## 6. Reproducing

    tlc -workers 2 -config outbox_race.cfg MCDispatchOutbox
    tlapm DispatchOutboxProofs.tla

and likewise for the other `.cfg` files (`outbox_*`, `worker_*`, `flow_*`, `exchange_*`,
`breaker_*`, `schedule_*` with `MCDispatchOutbox`, `MCTaskWorker`, `MCFlowExecutor`,
`MCExchange`, `MCModelCalls`, `MCScheduleEngine`) and for the other modules whose
name ends in `Proofs`.  A run whose name contains `bad` is expected to report a
violation.  The largest takes about two and a half minutes.
