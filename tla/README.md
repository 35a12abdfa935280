# A TLA+ model of the KING gateway

KING deploys **OmniRoute**, a TypeScript gateway that routes chat requests to
many LLM providers (`src/omniroute`), together with a small Python
**agent-sidecar** (`src/agent-sidecar`) and deployment files. This project
models the parts of the gateway in which several requests, timers or processes
meet: admission, circuit breaking, concurrency limits, the refresh of rotating
tokens, the batch processor and the supervisor of embedded services. TLC checks
small instances of the models, and TLAPS proves the main invariants, action
properties, four refinements and three liveness properties for every value of the
constants.

Paths below leave out the leading `src/omniroute/` where they begin with
`open-sse/` or `src/`.

## 1. The system

### The path of a request

```
 chat route
   │  admitChatRequest / -Structure  budget for heavy bodies          BodyAdmission
   ▼
 handleChat
   │  chatAdmission / runtime        lease from the adaptive controller   Admission
   │                                   └─ waits in FairCostQueue or a lane  FairQueue
   ▼
 combo router
   │  round-robin limiter            slot per target, FIFO      RateLimitSemaphore
   ▼
 handleSingleModelChat (alone, or as a target of the combo router)
   │  checkPipelineGates             provider breaker canExecute()  ProviderBreaker
   │  getCircuitBreaker + execute    takes a probe, counts the result    "
   ▼
 handleChatCore
   │  account semaphore              slot per connection, FIFO     AccountSemaphore
   │  executor                       HTTP call to the provider  (a choice of outcomes)
   │  401/403: getAccessToken        refresh in the group's lane       TokenRefresh
   ▼
 back up: release slot, _onSuccess/_onFailure, combo's own report, release lease

 beside it:  batch poller and jobs   lines of a file, one by one     BatchProcessor
             embedded services       start, stop, health          ServiceSupervisor
```

Everything runs in one Node process. A stretch of code without an `await` is
atomic; what interleaves is the stretches of different requests, the timers,
and, for what is kept in SQLite or in other processes, the time before and after
a restart. So an action of a module is such a stretch: a call up to its next
`await`, or one timer callback. Where a crash inside a stretch leaves a different
database behind, the module has an action for that crash.

### Components

| Component | State | Operations | Hard behaviour | What makes it correct |
|---|---|---|---|---|
| Account semaphore (`open-sse/services/accountSemaphore.ts`) | per key: counter, cap, FIFO queue, block, cleanup timer | acquire, release function, timeout, abort, markBlocked, cleanup, reset | a callback finds the gate *by key* and may meet another one; several ways out of the queue race; a read changes the block; the cap changes at every call | counter = slots held; a waiter is in the queue once, with a timer; no grant over the cap; waiters are answered |
| Rate-limit semaphore (`open-sse/services/rateLimitSemaphore.ts`) | per key: counter, cap, FIFO queue, rate limit; timers | acquire, release function, timeout, markRateLimited, unblock timers | the gate is deleted when idle, its timers are not; marking installs the default cap; a read clears the limit | no grant over the cap; whoever waits has a wake-up to come |
| Provider breaker (`src/shared/utils/circuitBreaker.ts`) | state, failure count, last failure, cycle count, probes left; registry; database row | lookup, canExecute, execute, `_onSuccess`, `_onFailure`, reset, sweep, restore | results arrive late; outcomes are counted twice by design; lazy recovery in reads; restart; eviction | count and state agree; the row has what a restart needs; a half-open period gives out its probes and no more; an open breaker ends |
| Breaker callers (`src/sse/handlers/chat*.ts`, `open-sse/services/accountFallback.ts`) | a reference kept across awaits, connections tried | gate, hold, execute, report, combo's own report | check and use are separated by awaits | as above |
| Fair queue (`open-sse/services/admission/queue.ts`) | buckets per tenant, turn order, cursor, skip counts | canAccept, enqueue, dequeue, removeById, drain | cursor arithmetic when buckets vanish; reservation of capacity for passed heads | turn order = buckets; turns are taken; reservations are kept |
| Adaptive admission (`open-sse/services/admission/controller.ts`, `adaptation.ts`) | limit, leases, shared queue, lanes, virtual queue, window | acquire, release, expire, abort, tick, observePressure, updateConfig, shutdown | limit falls below what is active; deadline passed but timer not fired; lane eviction; mode changes with leases out | no grant over the limit; capacity is not left idle; every waiter has one place and gets one answer; budgets add up |
| Body admission (`src/shared/middleware/chatBodyAdmission.ts`) | heavy slots, waiters per session key, cursor, queued bytes | admit by bytes, admit by structure, dispatchFair, deadline, abort, release | a woken waiter takes its slot in a later microtask, if a newcomer has not | a free slot has woken somebody; the bytes charged are those that wait |
| Batch processor (`open-sse/services/batchProcessor.ts`) | batches, checkpoint rows and files in the database; the set of active batches | create, cancel, delete, poll, dispatch, checkpoint, recover, finalise | crash between dispatch and checkpoint, inside a poll and inside finalisation; cancellation by another actor | no line is sent twice by two processes; the files are complete; an ended batch stays ended; every batch ends |
| Token refresh (`open-sse/services/tokenRefresh.ts`, `refreshSerializer.ts`) | refresh in flight per connection, lane per rotation group, rotation map, stored tokens | refresh, line up, persist with compare-and-swap, give up waiting | credentials read before an await and used after it; answers lost on the way or in a restart; a caller inside the lane | one refresh of a group at a time; no token is presented twice; the lane moves on |
| Service supervisor (`src/lib/services/ServiceSupervisor.ts`, `healthCheck.ts`, `portProbe.ts`) | child, pid, state, adoption, operation lock, poller | start, stop, restart, adopt, poll, exit and error callbacks | callbacks of an earlier child; answers of a poll after it was stopped; processes that outlive the gateway | a running service has its child on record and is polled; the lock is released |
| Job registry, request dedup, rolling rate gate, quota-share in-flight counter, A2A tasks, agent-sidecar, session pool | small tables | | re-entrancy, timeouts, late decrements and results | not modelled, see §7 |
| Combo strategies, fallback tables, handlers, quota engine, translators, executors, compression, MCP, guardrails, dashboard, CLI, deployment | | | data without bound, text, or plain I/O | not modelled, see §7 |

`PROJECT.json` has the full list, with status and the reason for each, and the
hazards of this code, each at its line with the properties that watch it.

## 2. The modules

| Module | What it is |
|---|---|
| `SlotPool` | abstract: holders, waiters and a limit that may change; implemented by both semaphores and by the slots for heavy bodies |
| `AccountSemaphore` | one key of the account semaphore; `PoolSpec` says that it implements `SlotPool` |
| `RateLimitSemaphore` | one key of the round-robin limiter; its `PoolSpec` says the same of it |
| `ProbeGate` | abstract: passing, blocked, or probing with a budget |
| `Breaker` | one `CircuitBreaker` object as a record, its methods as operators |
| `ProviderBreaker` | registry, database row and the requests that use a breaker; `GateSpec` says that it implements `ProbeGate` |
| `FairQueue` | `FairCostQueue` as a record and operators |
| `FairQueueRounds` | the queue on its own: join, serve, leave, with the history its properties need |
| `Admission` | the controller, built on `FairQueue` |
| `BodyAdmission` | the budget for heavy bodies; `PoolSpec` says that its heavy slots implement `SlotPool` |
| `TokenRefresh` | callers, refreshes and the lane of one rotation group, with the provider that issues the tokens |
| `BatchProcessor` | API, poll, jobs and crashes over the tables of batches |
| `ServiceSupervisor` | operations, poller and child processes of one embedded service |
| `WaitingRooms` | gate, limiter, queue, controller and bodies side by side, *one of which moves in a behaviour* |
| `MCBreakers` | instance: a breaker with overlapping requests, and one that the registry drops; one moves in a behaviour |
| `MCBreakerStreak` | instance of the breaker with a history of failures in a row |
| `MCWaitingRooms`, `MCAccountSemaphore`, `MCProviderBreaker`, `MCFairQueue`, `MCAdmission`, `MCBatchProcessor`, `MCTokenRefresh`, `MCServiceSupervisor` | sets and functions for the configurations |
| `QueueLemmas` | lemmas on sequences without repetition, shared by the proofs |
| `WaitingRoomsProofs` (account semaphore, and the five places together), `RateLimitSemaphoreProofs`, `ProviderBreakerProofs`, `AdmissionProofs` (queue, controller and bodies), `BatchProcessorProofs`, `TokenRefreshProofs`, `ServiceSupervisorProofs` | theorems |

`Admission` composes `FairQueue` and lanes; `ProviderBreaker` composes breaker
objects, registry, row and requests; `TokenRefresh` composes mutex, lane, rotation
map, row and callers. `WaitingRooms` puts five places side by side that share no
state; no order matters between them, so one of them moves in a behaviour, one run
asks five questions, and its states are the sum of theirs. It extends the account
semaphore and has the others as instances of the modules with their proofs
(`Limiter`, `Rounds` the queue, `Doors` the controller, `Doors!Heavy` the bodies), so
that theorems about them can be cited in it; `MCWaitingRooms` only gives values. A request that passes through all of them holds a
lease while it waits for a slot, which either model sees as a holder that may
take any time.

Each definition's source lines are in `PROJECT.json` under `map`. Operators
whose comment begins with "Mutant" are slips one could make in the code; with
one of them in the place of the true definition, a named property fails. They
show that the properties can fail, and are otherwise unused.

### AccountSemaphore

`live, running, cap, queue, block, cleanup` are the fields of the gate in the
map; `status` is what each caller sees, `armed` its queue timeout. `block` keeps
of the clock what the code asks of it: null, in the future, or past.
`wake`/`stale` are pending unblock timers, of the last `markBlocked` and of
earlier ones: the code never cancels one. `Release` runs on whatever gate the key
has *now*. One key is enough: keys share nothing.

### RateLimitSemaphore

`running, max, queue, limit` are the gate, `max = 0` meaning that the key has
none; `holding` are the callers that have their release function. `timers` counts
the unblock timers: of the last mark, of earlier marks of the same gate, and of
gates that were deleted. The code's timer captures its gate and then drains *by
key*, so a timer of a deleted gate that finds an elapsed limit drains the gate
the key has by then (`StrayTimer`). `Drain` is the whole of `drainQueue`, its
loop and the deletion at its end. Only a holder marks the limit, as the combo
router does after a transient error and before it releases.

### Breaker, ProviderBreaker

A breaker is a record; `age` is the time since the last failure, in ticks up to
`AgeBound`, and `null` is "old enough". `profiled` says whether the object has
been looked up with the provider's profile (its own thresholds and cooldown) or
only bare, with the constructor's defaults: after a restart the counters come
back from the row and the configuration does not.

A request goes through `Gate` (checkPipelineGates), `Hold` (second lookup, kept
as a reference), `Enter` (execute takes it in), one of `Returned`, `Threw`,
`ThrewLocal`, and the reports `ReportSuccess`, `ReportFailure` or
`EndUnreported`; `TryNext` starts over with another connection. Combo targets
add `ComboSuccess`, `ComboFailure` or `ComboSilent`; forced connections `Bypass`
the breaker and still report. What decides among these (statuses, cooldowns of
connections, error texts) is a choice. `Look` is any read, `Evict` the
registry's sweep, `Restart` the end of the process.

Left out: `kindThresholds`, which nothing sets; transition history and change
callback; success counts, which decide nothing; operators who edit a profile
while requests run.

### FairQueue, FairQueueRounds, Admission

The queue is a record of turn order, cursor (from 0 as in the code), buckets and
skip counts. `enqueuedAt` is the position in a sequence `arrived`: no two
requests arrive in the same millisecond. `peek()` has no caller and is left out.
`FairQueueRounds` puts it to work: requests join, leave, and capacity for cost 1
or 2 becomes free.

The controller is one object whose methods run to completion, so its state is
one record `c` and each method takes `c` to the next; the loops of `dispatch`
are folds. `due` is the set of requests whose deadline has passed while their
timer has not run: `dispatch` treats these as expired, and the timer still
comes. The utilization class and the steepness of the latency gradient are
choices, except that a window in which no lease was out is idle and one without a
completed request has no gradient. Any number of the lanes longest unused may be
past their TTL when a lane timer or a window runs. By default a waiter's deadline
(5 s) comes before the TTL (60 s); `maxWaitMs` may be set up to 24 h, so lanes
with waiters are evicted in the model too. The non-waiting probe of a combo
target (`maxWaitMs` 0) either gets its lease at once or changes nothing.

Left out: counters and snapshots; grants in off mode, of which no account is
kept; the `aborted` check inside dispatch, which the abort listener makes
unreachable.

### BodyAdmission

`activeHeavy` and `activeHealthy` are the slots of the two stages, `waiting` the
queues per session key with the rotation of keys and its cursor, `queuedBytes` the
charge. `stage` says where each request is: parked in a queue, woken, with its
race over because the client went away, or a holder. `Try` is one round of the
loop of `acquireHeavyWithin`, and what makes the component hard is that `Resume`
comes after `Wakes`, in a microtask of its own, with other arrivals and releases
in between. `lost` remembers that a wake went to a waiter whose client had gone
in the same turn. `MaxCursor` bounds the cursor, which in the code only grows.

### TokenRefresh

A refresh token is the number of its rotation: the provider accepts the latest
once and revokes the family when it sees an earlier one. `row` is the database,
`job` the refresh under way per connection (`connectionRefreshMutex`), `rotated`
the rotation map, `tail` the promise at the end of the group's lane and `ahead`
what each promise in it waits for; `task` is a caller with the token it read
before its last wait. The five `Kinds` of callers differ in who stores the
result, whether the compare-and-swap guards it, and whether they ask for the
refresh from within the lane. A task goes `Load`, then `Join`, `UseMap`, `UseRow`
or `Refresh`; the refresh goes `Call`, then `Rotate`, `Lose`, `Refuse` or `Fail`,
then `Settle`. `TimeOut` is a caller that gives up while its refresh goes on,
`Restart` the loss of everything but rows and provider.

What may fail: the call before the provider takes the token (`Fail`), or after it
has issued the next (`Lose`: a dropped connection, a timeout, a 5xx or an
unreadable body, for all of which `codex.ts` returns `null`); the read of the
staleness check (`RefreshBlind`: the token in memory is presented); and the write
of a result (`WritesFail`, `Leave`). No callback that stores a result in the mutex
throws: `updateProviderCredentials` returns `false`, and the health check's catches
and stores once more. So a failed write leaves the rotation recorded, the row
behind and the token with all who share it, and the `throw` at
`tokenRefresh.ts:552` is not reached.

Two variables are history and enable nothing. `lost`: a token that was issued did
not arrive, by `Lose` or in a restart. `spoiled`: a token was kept out of the row,
by the compare-and-swap or a failed write, or the row was overwritten by a caller
that stored an older one, or could not be read.

Left out: a failing reread of the compare-and-swap (the result is then stored),
deactivation of a connection after a refusal, providers that do not
rotate, callers without a connection id, the refresh's own circuit breaker, and
operators who edit tokens.

### BatchProcessor

`status`, `mark` (the checkpoint row of each line), `files` and `input` are
tables and survive a crash; `job` is memory: the line a job is at, its attempts,
and the results it has collected. `Poll` is the whole of `processPendingBatches`,
from recovery over the starts to confirmations and expiry. A job goes `Begin`,
`Wake` (the throttle's delay is over; its request leaves), then `Answer`,
`NoAnswer` or `Refuse` and `Retry`; what it does up to its next wait, passing
lines that already have a result, sending the next or finalising, is `Advance`.
`Crash` falls between two stretches, `CrashPolling` inside a poll and
`DieFinalizing` between `markFinalizing` and the last write. `past` and `sent`
are the lines sent by earlier processes and by this one, `late` those sent after
a cancellation. `Init` allows batches of a release that kept no checkpoints, any
of whose lines may have been sent.

Left out: `failBatch` after an unexpected exception in `processBatchItems`
(`batchProcessor.ts:333-336`), say of the database; it marks the batch as failed
whatever its status is, so `EndIsFinal` is about runs without one. Deletion of files
thirty days after the end, progress counts, and the dispatch itself.

### ServiceSupervisor

`child`, `pid`, `adopted`, `state` are the supervisor's fields; `active, fails,
health` the poller's, `polls` its requests that are out; `line` is the operation
lock with the operations that wait for it, and `at` says at which wait the first
of them is. The processes are external: `Listen`, `Close` and `Die` may happen at
any time, and `Reboot` of the gateway leaves them alone. `HandleExit(p)` is the
exit of *whichever* child, `Answer` that of a poll sent before or after the poller
was stopped. `told` is Node's `child.killed`. A `restart` is a stop that asks for
a start, which lines up again behind who waits.

Left out: the row in `version_manager`, written with the state; logs.

## 3. Runs

Run one with `tlc -config <cfg> <module>`.

| Run | Question | Instance | States |
|---|---|---|---|
| `waiting_rooms` | In five places where requests wait: are waiters neither lost nor doubled, are grants within the cap, does what is kept twice agree, are turns taken, is capacity offered, do both semaphores and the heavy slots implement `SlotPool`, is every waiter answered, does the limit recover? | see the bounds | 80 000 |
| `admission_enforce` | Enforce mode: is the limit kept, capacity used, is overtaking counted, is every acquire answered, through lane evictions too? | 4 requests of cost 1 to 3; shared queue with limits 1 to 3, or at most 2 lanes for 3 tenants and a request without one, limits 1 to 4; changes between the two, also after a start in shadow mode | 54 000 |
| `breaker_safety` | Do count and state agree, is the row current, does the breaker implement `ProbeGate`, does an open breaker end while the registry drops and reloads it? | a plain request, a combo target and a forced connection, restart and reset at any time; or 1 request with a retry, 2 objects, eviction | 146 000 |
| `batch_crashes` | Is no line sent again after a crash, are the files complete, does cancelling stop a batch, does every batch end? | 2 batches of 2 and 1 lines, 1 slot, 2 attempts, 2 crashes | 215 000 |
| `token_refresh` | Is one refresh of a group out at a time, is no token presented twice, does the lane move? | 2 accounts, 4 callers of different kinds, 2 rotations, lost answers, failing reads and writes | 765 000 |
| `service` | Does a running service have its child on record and a poller, has an operation at work always a step to take, is the lock released? | 2 processes, 1 operation at work and 1 waiting, 2 failed polls to an error | 559 000 |
| `account_stranded` | *Violation.* Does nobody wait at an open gate with a free slot? | 3 requests, cap 1 | |
| `breaker_streak` | *Violation.* Do enough failures in a row open the breaker? | 1 request | |
| `breaker_stuck` | *Violation.* Does a half-open breaker have a probe to offer or under way? | 2 requests | |
| `queue_starved` | *Violation.* Does everybody get a turn when capacity keeps coming? | 4 requests of 3 tenants | |
| `token_lane` | *Violation.* Does the queue of a group keep flowing? | 3 callers, one of them a usage poll | |
| `service_stop` | *Violation.* Is the child dead once a service is reported stopped? | as `service` | |

Properties worth a word:

- `OnlyResetForgets` (action): the holders the counter does not know of never
  increase except by a reset. With `SlotAccounting` it says what the lookup by key
  costs: after a reset an old release may free a *new* holder's slot, and nothing
  else does.
- `WakeupToCome`: whoever waits at the round-robin limiter has a holder whose
  release will drain the queue, or a limit whose timer is pending and will find it.
  The account semaphore breaks the same property (`account_stranded`), because
  there a read that clears the block may let nobody in.
- `LimitersArePools`: the gate is a slot pool until a reset; the limiter is one
  although marking a rate limit replaces the caller's cap by the default (the mapped
  limit is the cap stated last); and so are the slots for heavy bodies, although a
  woken waiter takes its slot later than it was woken.
- `StepAtHand`: whatever has become of its processes, an operation at work can take a
  step by itself; a stop that waited for the exit alone would break it.
- `StateMatchesCount`: four places count and three thresholds decide; whatever
  order they run in, the state is the one the count calls for.
- `Durable`: reads included, nothing changes the breaker without the row. It is
  an invariant, thus also true at the instant of a crash.
- `GateSpec`: a probe is spent in `execute`, after awaits since the check in the
  gate; every period of half-open lets in at most `HalfOpenRequests` calls, and
  spent probes return only with a new block or a restart.
- `TurnsAreTaken`: `turns[r][t]` counts how often tenant `t` was served while `r`
  was at the head of its own bucket and `t`'s bucket did not run empty; it stays
  at most 1, through removals anywhere around the cursor. It starts anew after
  a reservation, because serving a reserved head moves the cursor back.
- `JumpsAreCounted`: a newcomer who gets a lease at once while others wait brings
  one of those nearer to its reservation.
- `CapacityUsed`, and the second half of `CapacityOffered`: between calls no queued
  request whose turn it is fits. Release, expiry, window and configuration each
  have to dispatch for it to hold. The first half: while heavy bodies are parked,
  as many woken ones are on their way as there are slots free.
- `NoReplay`: a line that one process sent is not sent by a later one. It relates
  what left the process to rows written before and after, and is where crashes in
  the poll, between checkpoint and request, and in finalisation meet.
- `CancelStops`: at most *one* more line, that of a job which was waiting for the
  throttle and does not read the status again.
- `NoReuse`: a family is revoked only if a token that was issued did not arrive
  (`lost`) or did not get into the row or was replaced in it (`spoiled`); in
  particular callers with credentials of any age do not cause it. What the code does
  in those two cases is in §5.
- `PolledWhileUp`: a running service is polled and a poller runs only while the
  service comes up or runs, unless the exit of an *earlier* child or the answer to
  a poll of it came while the next start was probing the port.

### Why the bounds are enough

The semaphore's cases need a holder, a waiter that is let in, one that stays and
one that is refused or arrives: four requests with caps 0 (no limit), 1 and 2 and
a queue of 2. One stale timer beside the current one gives every order in which
timers meet a block; one reset separates holders of the old gate from those of the
new. The limiter has the same requests with caps 1 and 2, so that the default of 3
is above both, and depths 0 and 2; two timers are a current and an earlier one, or
a live and a stray one. The breaker's cases depend on how counts compare with
thresholds 2 and 3, on ages up to a doubled cooldown (2 ticks), and on three
cycles, one beyond the cap of the escalation; two probes tell "one left" from
"none". Three tenants are the fewest that leave someone before, at and after the
cursor; `MaxSkips` is 2, so that a request can be passed once without being
reserved; five requests of them, one of cost 2, with room for 1 or 2. Costs 1 to 3
against limits 1 to 4 give requests that fit, that wait, that run alone and that
never fit. The controller whose mode changes has one configuration of each mode
and three requests. The bodies are five of three session keys for two slots, one of
them asked about by structure as well; three queued bytes against weights from 0 to
2, five in all, let some wait and refuse others; `MaxCursor` 4 is more than one turn
around three keys.

A batch of two lines has a line that was sent and one that was not; a second batch
waits for the slot of the first; the second crash hits what recovery left behind.
Two rotations (`MaxToken` 3) are needed for a caller whose token is two behind, and
an account with none for a group with another member, whose refreshes fail; the
four callers are a chat request, a usage poll, an export and a health check. The fifth
kind, `check`, differs from the health check by never storing afterwards, and is
covered by the theorems. Two processes are the child and an earlier child or stranger on
its port; a threshold of 2 tells the first failed poll from the deciding one. Of
polls that are out at most one of each outcome is kept: answers of the same kind
do the same.

Failure, cycle and age counters saturate at their bounds (`FailureBound`,
`CycleBound`, `AgeBound`); resets, timers, retries, crashes, tokens and operations
in line stop at theirs (`MaxResets`, `MaxTimers`, `Accounts`, `MaxTries`,
`MaxCrashes`, `MaxToken`, `MaxLine`). The theorems hold for all values of these.

### Fairness

- `RoomsSpec`: weak fairness of each request's queue timeout at the account
  semaphore (`AccountSemaphore!TimersFire`). Node runs a timer that is due, and the
  timeout is armed as long as the request waits. And of the controller's window
  timer, for `LimitRecovers`.
- `BreakersSpec`: time passes (`Tick`), and somebody keeps reading the breaker
  (`Look`: routing and dashboards do). Nothing is assumed of requests, which may
  hang for ever or keep failing.
- `Admission!TimersFire`: a waiting request's deadline passes and its timer runs.
  It, the windows and the account semaphore's timeouts are weak fairness with the
  enabling condition written out: a timer can fire exactly when it is armed, or the
  deadline has passed. TLC's own ENABLED would unfold every dispatch loop, and the
  provers know nothing of ENABLED.
- `TokenRefresh!Fairness`: a refresh that has its turn calls, a call ends (fetches
  have a timeout), whichever way, what follows its answer runs, and a caller whose
  turn in the lane has come goes on. For the call, the settle gap and the turn this
  is written as "not for ever in the state that enables the step", which is what weak
  fairness of the actions that end it comes to. Nothing is assumed of callers outside
  the lane.
- `BatchProcessor!FairSpec`: the poll's interval and a job's timers, item timeout
  included, run while the process does. Crashes are bounded, not fair.
- `ServiceSupervisor!FairSpec`: probes, spawns and timers of the operation at work
  end. Of the processes nothing is assumed: a child may ignore every signal.
- `FairQueueRounds!BusySpec`: capacity for any request keeps becoming available
  (`Serve(2)`) and nobody gives up. It only serves the counterexample: even so, a
  tenant starves.

## 4. What is proved

TLAPS checks the seven modules `*Proofs` and `QueueLemmas`, about 13 500
obligations, for all values of the constants that satisfy the named assumptions.

**AccountSemaphore.** The inductive invariant is
`IInv == TypeOK /\ NoOrphanWaiter /\ SlotAccounting`. The parts need each other:
a drain moves the head of the queue to the holders, which keeps the counter equal
to the number of holders only if nobody is in the queue twice and nobody in the
queue already holds (`NoOrphanWaiter`); and an idle cleanup may drop the counter
because a counter of 0 without resets means that there are no holders.
`DrainStep` and `DrainShape` do the counting once for all
callers of `drainQueue`. From `Invariance` follow `TypeCorrect`, `WaitersSafe`,
`SlotsAccounted`, and, through one lemma on the shape of a step (`NextShape`), the
action properties `GrantsWithinCap` and `OnlyResetsForget`. `ImplementsPool` is
about behaviours before the first reset: after one the gate really admits more than its
cap, since it has forgotten holders. `WaitersAnswered` is liveness: by the invariant
whoever waits has its timeout armed, and a timeout that stays armed runs.

**RateLimitSemaphore**, under `LimiterConstants` (caps are positive). The invariant
is `Line /\ Slots /\ TimersKept /\ WakeupToCome`: the queue is a line of distinct
requests none of which holds a slot, the counter is the number of holders, and a
limit always has its timer, because deleting the gate forgets both. That last part
is what `WakeupToCome` needs: a read that clears an elapsed limit lets somebody in
at once, whose release drains. `TypeCorrect`, `WaitersWake` and, without any
assumption on what is marked when, `ImplementsPool`.

**ProviderBreaker.** `TypeCorrect` holds with and without eviction; its
strengthening `HoldingHeld` says that a request which is past `Hold` has a
reference. The other theorems assume `Evictable = FALSE`: with eviction a request
may report to an object that is no longer registered, and the row then follows
that one (§5). The invariant is
`CInv == Follows /\ Matches(Lookup) /\ Single`: the row is the breaker in force,
or is missing beside a fresh one; state and count agree; and every reference is
to the registered object, which was looked up with its profile. `Single` is what
makes results that come late count against the same object, with the same
thresholds, as everybody else's; without it the count may be judged by the
constructor's degradation threshold. `ImplementsGate` maps each action to a step
of the gate: execute to `Enter`, lazy recovery to `Offer`, every outcome to
`Settle`.

**FairQueue**, under `TenantsAssigned`, for any number of tenants, requests and
skips and any costs. The invariant of the queue is
`WellFormed(q) == Shape(q) /\ Ring(q) /\ Owned(q) /\ Heads(q)`: the turn order names
each tenant with a bucket once, the cursor lies within it, each request is in its
own tenant's bucket once, and only heads are marked as passed. It is shown for
`Enqueue`, `Taken` and `Removed` one by one. To it `QueueInv` adds that `arrived` lists
the members of the queue, each once, and that turns are counted along the ring:
`OneTurn` says that a tenant served while `r` waits at a head now comes after
`r`'s tenant, seen from the cursor. The ring lemmas (`RingAppend`, `RingCut`,
`RingServed`, `RingServedLast`) compute the distance from the cursor when the order
grows, loses a tenant before or after the cursor, or the cursor moves on; that is
the arithmetic a removal could get wrong. Theorems `QueueTypeCorrect`, `OrderAgrees`
(`OrderIsBuckets`), `TurnsTaken` (`TurnsAreTaken`) and `ReservedStay`
(`ReservedFirst`), which the run `waiting_rooms` checks of its instance `Rounds`.

**Admission**, for any tenants, requests, costs, lanes and configurations, under the
assumptions on them (`ConfigsValid`, `TenantsValid`, `CostPositive`,
`MaxSkipsPositive`, `MaxLanesPositive`, `IncreaseStepPositive`). The controller's
methods are loops inside loops, which the model writes as folds. A fold is a
recursive function, so it is first shown to exist (`LoopDefined`, by induction on
the size of a finite set, done once for the rounds of all loops, each a case of
`Round`); the lemmas named `...Runs` then turn each fold of the model, and each
`while` of the code, into a sequence of states, one per round, along which an
invariant of the loop can be carried. `Total` does the same for sums of costs.

`Consistent(d, left, open)` is what holds of the controller *inside* a call:
`Record` and `Settings` (fields and bounds), `Lines` (the queue and the lanes are
well-formed, no lane is kept empty), `Book` (the active cost is the sum over the
leases), `Shadow` (so is the virtual cost, and the virtual queue holds the leases
that are virtually queued), `Answers` (who waits is in one line, who holds has one
lease) and `Times` (each of them arrived once). `left` are the
requests that have left their line and not yet been answered, `open` the tenant whose
lane has just been made or emptied: they are what makes each helper provable on its
own, although it starts and ends in states no caller outside may see. Between calls
`ControllerInv` holds: `Consistent(c, {}, {})`, with `Idle` (nobody whose turn it is
fits) and `VirtualStuck` (the same of the virtual queue). There is a lemma
`...Consistent` for each helper and one `...Whole` for each method. The hard part of
`Idle` is that a call which gives nothing back, or only takes waiters away, may
skip the dispatch: `StuckStays` says that a queue in which nobody has a turn stays so
with less room and with arrivals gone, because a turn depends only on costs, skips
and order. Theorems `Invariance`, `TypeCorrect`, `WaitersQueued` (`WaitersAreQueued`),
`CapacityIsUsed` (`CapacityUsed`), `BudgetsBalance` (`BudgetsAddUp`), and the action properties
`LeasesStayWithin` (`LeasesWithinLimit`) and `JumpsCounted` (`JumpsAreCounted`), which
go through the methods once more (`...Safe`): a loop may hand out several leases, and
each of them has to fit under the limit that the method itself may just have changed.
`WaitersAnswered` is the liveness of the controller: from `...Safe` too, no step that
leaves a request waiting forgets that its deadline has passed (`StaysDue`; inside the
methods `Calm`), though requeueing after a change of configuration clears it
for some and dispatch for others; so its timer stays at hand, and ends the wait.

**BodyAdmission**, under `BodiesWeighed` (what the constructor checks, and weights that
are numbers), for any bodies, session keys and weights, as the instance `Heavy` in
`AdmissionProofs`. `BodyInv` has four parts. `Parking`: the queues are well-formed
(`Rotation`), whoever is parked is in line, and whoever is in line is parked or
leaving. `Slots` and `Charges`: counters and bytes are those of the stages. `Covered`
is `WakesCoverSlots`; it needs `Parking`, for a release wakes the head of the key
whose turn it is, which must be somebody who is still in line, and `Slots`, for
a newcomer who takes the slot of a woken waiter uses up one slot and leaves the
woken one counted until it parks again. Theorems `BodyTypeCorrect`,
`SlotsCovered` (`WakesCoverSlots`), `BytesBalance` (`BytesAddUp`), and `BudgetIsPool`,
the refinement of `SlotPool`: a step changes the stage of one body, besides those it
wakes, whose mapped state stays the same (`StepsMoveOne`), and whoever takes a heavy
slot found one free.

**The five places.** `RoomsApart` says that a behaviour of `WaitingRooms` is one of each
place: a step of one leaves the variables of the others alone. What is proved of the
places, from assumptions which `WaitingRooms` states about its own constants
(`LimiterAssumption` to `BodiesAssumption`; TLC evaluates them for the instance), then
holds of all of them: `GateKeepsPromises`, `RoomsTypeCorrect` (`RoomsTypeOK`),
`BooksBalance` (`BooksAgree`), `WakeupsCome` (`WakeupToCome`), `CapacityIsOffered`
(`CapacityOffered`), `TurnsGoRound` (`TurnsAreTaken`), `ReservedGoFirst`
(`ReservedFirst`) and `LimitersImplementPool` (`LimitersArePools`). These are the
properties of the run, for every value of its constants.

**BatchProcessor.** The invariant adds to types and `NoReplay`: a line that was sent
is marked, or its batch has no checkpoints and is known as unsafe
(`SentAreMarked`); a job's batch was started and has all its checkpoints
(`JobsAreStarted`); the line a job is about to send was not sent by another process
(`LinesOut`); and once a late line is out its job does not wait to send another
(`LateIsLast`, `LateOnce`). `AllTold` follows the results to the files: a job has
collected exactly the lines it has passed, each with the outcome of its checkpoint, and
the files of a completed batch tell every line once. Theorems
`TypeCorrect`, `NeverReplayed`, `CancellationStops`, `EndIsFinal`, `FilesAreComplete`
(`FilesComplete`).

**TokenRefresh.** `LaneOrder` says that the tickets of the lane are totally ordered
by whom they wait for, and that the tail is the last; `Heads` that who calls or
settles waits for nobody. From these `OneAtATime`. For `NeverReused` three parts
follow the tokens: they are bounded by the provider's latest (`Bounded`), a
connection that neither lost a token nor was spoiled (`Sound`) has the latest in its
row or under way in its refresh (`Current`), and a refresh knows who leads it and with which orders (`Leaders`).

**ServiceSupervisor.** `StateFollows` ties the state to how far the operation at work
has come; `QuietBeforeSpawn` says that nobody polls before a spawn, unless something
of an earlier child came late. With `RunningHasHandle` and `PolledWhileUp` these are inductive: theorems
`TypeCorrect`, `HandleKept`, `PollingMatches`.

`LockReleased` is its liveness: an operation has at most four steps of
its own ahead of it, and nothing that happens in between sends it back (`GoesForward`,
`WorkingForward`). That it can always take one is a hypothesis of the theorem,
`[]StepAtHand`, which the run `service` checks: it speaks of ENABLED.

Only model-checked are `StepAtHand`, for that reason, and the liveness properties
`DroppedOpenEnds`, `LimitRecovers`, `LaneMoves` and `BatchEnds`. What is proved of
liveness follows by temporal logic from finitely many facts about single steps; these
four need an induction over data (the age of the breaker's last failure, the distance
from the limit to its ceiling, the tickets ahead in the lane, lines and attempts) with
a temporal formula as its hypothesis, and fairness of actions whose ENABLED is not a
plain guard. The library's induction theorems take an operator as a
parameter, which no installed prover can instantiate; induction over numbers and finite
sets is therefore done with sets in the place of predicates (`NumbersUpTo`,
`FiniteInduction`).

## 5. Where code and documents disagree

Six disagreements have a run that shows them:

- `account_stranded`: the semaphore's header promises that a waiter waits until a
  slot opens or the gate is unblocked. `isBlocked()`, called by a mere reader
  (`isAccountSemaphoreFull`), forgets an elapsed block; the unblock timer then
  finds nothing to lift and does not drain, and the waiter sits beside a free slot
  until another release or its own timeout.
- `breaker_streak`: `docs/guides/TROUBLESHOOTING.md:63` says a provider that keeps
  failing will open its breaker. `execute()` counts each returned error result as
  a success before `chat.ts` counts it as a failure, and the count stays at 1.
- `breaker_stuck`: `docs/architecture/RESILIENCE_GUIDE.md:35` says of HALF_OPEN that
  a probe is allowed. A probe whose client goes away is neither success nor failure
  and is not given back.
- `queue_starved`: the queue is a "fair queue (round-robin across tenant buckets)".
  A tenant whose bucket runs empty rejoins at the end of the order, ahead of those
  before the cursor; two such tenants keep a third waiting for ever.
- `token_lane`: `refreshSerializer.ts:82-83` says that the queue keeps flowing.
  `refreshAndUpdateCredentials` asks for a Codex refresh from within the lane, and
  the refresh waits for the lane its caller holds; the group stands still until a
  restart.
- `service_stop`: `docs/frameworks/EMBEDDED-SERVICES.md:278` says "Sends SIGTERM,
  waits 15 s, then SIGKILL if still alive". Node's `child.killed` is true once the
  SIGTERM has been sent, so the second signal never is.

Met while reading, without a run of their own:

- Account semaphore: "FIFO" does not hold in the 50 ms between the end of a block
  and its timer, when a newcomer takes the free slot past the queue
  (`accountSemaphore.ts:5`, `208`).
- Round-robin limiter: `markRateLimited` sets the cap to the default of 3, so that a
  drain after the limit lets in more than a configured 1 or 2
  (`rateLimitSemaphore.ts:65`, `189`); and the release of the last holder deletes
  the gate and with it the limit just marked, where the comment at `182-183` says
  that acquisitions are blocked until the cooldown ends (`117-118`).
- Breaker: a half-open probe that returns an error result closes the breaker
  (`circuitBreaker.ts:290`); a restart restores the state and not the configured
  timeout (`circuitBreaker.ts:192`); late failure reports restart the cooldown of
  an open breaker (`circuitBreaker.ts:381`), and so may a combo target that was
  refused, since `recordProviderFailure` first refreshes an elapsed breaker to
  half-open and then reopens it (`accountFallback.ts:1078`). `DroppedOpenEnds` is
  therefore checked with a plain request; eviction separates the reference a
  request holds from the breaker others see (`circuitBreaker.ts:518`,
  `src/sse/handlers/chat.ts:1499`).
- Admission: with lanes the fast path does not look at lane waiters
  (`controller.ts:310-313`), so `JumpsAreCounted` is about configurations without lanes; lanes
  are served only when the shared queue is empty (`controller.ts:620`); the lane loop
  admits one request per lane and pass, where its comment says as many as capacity
  allows (`controller.ts:632-633`, `657`); an idle controller whose queued request
  exceeds a lowered limit cannot help it before its deadline or the recovery of the
  limit (`controller.ts:363`); and shadow mode admits virtually past its own virtual
  queue (`controller.ts:390`).
- Body admission: a key whose queue runs empty rejoins behind the others, and the
  cursor is taken modulo a changed length, so that two keys may starve a third as in
  `queue_starved` (`chatBodyAdmission.ts:383`).
- Token refresh: `chatCore.ts:3911` stores the result once more, without the
  compare-and-swap that `casGuard.ts:17-19` describes, and may set a row back to a
  token that a later refresh has used; the export and usage paths store without it
  too. `NoReuse` excepts such rows.
- Token refresh: `tokenRefresh.ts:617-623` has the rotation map redirect every caller
  with a used token, retries included. When the provider has rotated and the answer is
  lost on the way, `codex.ts:94` and `112` return `null` like for a call that never
  got there; map and row keep the used token, and `refreshWithRetry` presents it again
  (`circuitBreaker.ts:139-162`), so that the family is revoked (`Lose`, then `Refuse`).
  The same happens without a crash when the write of a new token fails and the map has
  forgotten it (`WritesFail`, `Forget`), or when it has and the row cannot be read
  (`RefreshBlind`). `NoReuse` excepts these by `lost` and `spoiled`.
- Batch processor: the throttle's delay ends in a send without another look at the
  status; if the batch was deleted meanwhile its checkpoint violates a foreign key,
  which sql.js does not enforce; and a crash in finalisation leaves files in the
  table that no batch names (`BatchProcessor!Wake`, `DieFinalizing`).
- Supervisor: a restart is two operations, and another may come between them
  (`ServiceSupervisor.ts:253-254`); a start from the state of error replaces the
  handle of a child that is still alive.
- Rolling rate gate: `RollingRpmGate` has no caller, where
  `providerDefaultRateLimit.ts:14-17` says that defaults are enforced with it.

## 6. What is left

- Candidates for further models, small and apart from the rest: the job registry,
  whose interval jobs do not look at `envFlag` when they start while cron jobs and
  `runNow` do, and whose queued run may meet one the timer has started meanwhile
  (`registry.ts:197`); the request dedup, which forgets a call in flight when its table
  is full or its timeout ends before the answer (`requestDedup.ts:185`, `197`); the
  quota-share counter, where a late release may take off the count of another request
  (`quotaShareInflight.ts:89`); late results of expired A2A tasks
  (`taskManager.ts:213`); the sidecar's slot after an import error (`server.py:297`)
  and the trimming of its journal, which may lose a line written in between
  (`outcome.py:223`); a dead web session that recovers (`session.ts:72`); the sliding
  window, which charges all scopes or none and takes back its own hits
  (`slidingWindowLimiter.ts:77`).
- Breakers under an operator who changes a profile (`circuitBreaker.ts:255`).
- The controller does not implement an abstract specification here as the semaphores
  and the breaker do. `SlotPool` does not fit: its limit falls below what is active, its
  costs differ and its order is that of tenants.

The number of runs is kept at about a dozen, so that they stay readable and quick;
parts that share no state share a run.

## 7. What is not modelled, and why

Translators, executors, compression and guardrails transform texts or do network
I/O; they keep no state that others share. The combo router's strategies score
unbounded data; what a combo does to the breaker, to leases and to the limiter is
in the models. Error classification (`accountFallback.ts`) is a table over texts
and appears as a choice among outcomes. SQLite is synchronous here, so a write is
part of the step that makes it. The dashboard, CLI, Electron shell and deployment
files drive the API or are configuration; together with the translators and
executors they are most of the repository's lines. `kindThresholds`, transition
histories, statistics, logging and HTTP wording change nothing the properties
speak of.

The small tables: each job of the registry is its own timer and flag; the rolling
gate is unused and the window limiter is used with one scope; the quota-share
counter only ranks connections, nobody waits for it; the A2A states are one table of
transitions that unit tests enumerate; the sidecar is a front of an agent runner
that is not in this repository; the session pool has three states per session and
no waiting. Of the modelled parts, what is left out is named in §2.
