# TLA+ models of taas-server-py

Specifications, model-checking runs and proofs for the reliability core of the
server: the transactional outbox, the durable scheduler and the idempotency
guard of `libs/resiliant`, the event consumer of `libs/messaging_faststream`, the saga
orchestrator and the resilient call (breaker, bulkhead, timeout) of
`libs/foundation`, and the sign-up of a root account, which crosses all of them.
Every definition names its source lines in `PROJECT.json` ("map").

Paths below are relative to `src/libs`; `R` is `resiliant/src/resiliant`, `F` is
`foundation/src/foundation`.

## 1. The system

A Python monorepo: FastAPI and Litestar applications write business data and
events, a worker process relays events from an outbox table to Kafka and fires
timers, another consumes events. The database (PostgreSQL, READ COMMITTED) is
the only state the processes share.

| Component | State | Operations | What must hold |
|---|---|---|---|
| Transactional outbox (`R/outbox`) | `outbox_events` rows: status, updated_at, retry_count; worker tasks with a claimed batch | save_event in the caller's transaction; fetch_pending_batch; publish; mark_published; reset_stale_processing; start, stop | nothing sent before the commit; at least once; duplicates only after a stale claim; PUBLISHED is final |
| Scheduler (`R/schedule`) | `scheduled_jobs` rows: status, run_count, attempts, next_run_at, claimed_at; worker copies | schedule_*; cancel; fetch_due_batch; dispatch; mark_succeeded, mark_failed; reset_stale_running | no occurrence skipped; repetitions only after a failure or a stale claim; retry budget; terminal states final; every job ends |
| Idempotency guard (`R/idempotency`) | `processed_events` rows, unique by key | guard (check, body, insert); cleanup_expired | a body that ended cleanly has its key recorded in the same transaction |
| Event consumer (`messaging_faststream`, `F/messaging/events`) | committed offset and position, messages in work, retry_count, the dynamic subscription | start, poll, decode, handle with retry, dead-letter publish, automatic commit, subscribe, stop | a crash costs no more than what was in work; handlers are called no more often than deliveries and attempts allow; exhausted retries are dead-lettered; no message waits for ever |
| Saga (`F/resiliant/saga.py`, `R/saga`) | saga instance, step statuses, persisted row | run, compensate, save | all steps or compensation in reverse order; the caller is told the truth and the row agrees; one saga per anchor; a crash leaves a usable row |
| Circuit breaker, bulkhead, resilient call (`F/resiliant`, `store_redis`) | breaker snapshot and counters, shared snapshot, slots, waiters | call, refresh, persist; acquire, release, give up | an opening is heeded; half-open probes are bounded and return; slots neither leak nor overflow |
| Sign-up (`iam_keycloak`, `iam/admin`, `iam/auth`) | organization, user, membership in Keycloak; event; root account in the database | sign up; handle UserDirectoryCreatedEvent | an undisturbed sign-up is whole; one root account; a published sign-up gets its account |
| Dead-letter table (`R/dlq`) | `dlq_events` rows | save, fetch batch, resolve, fail, abandon | no application calls it |
| Maintenance jobs (`R/maintenances`) | one recurring job | define at start-up | defined once |
| Worker process (`F/worker`) | running flag, tasks | start, signals, shutdown | stops all tasks |
| Other libraries (rest of IAM, rate limiting, Kaspa, stores, HTTP) | mostly calls to external services | | see "Not modelled" |

How they interact: business code calls the outbox with its own session, so row
and data commit together; pollers of all processes meet only in the tables,
through row locks, statuses and timestamps; the scheduler and the outbox publish
through the same messaging service; consumers may protect a handler with the
guard, again in the handler's transaction. The sign-up writes to Keycloak, then
publishes through the outbox, and a consumer's handler finishes it in the main
database. Breakers of several processes meet in a Redis snapshot, saga runs in
the rows of `saga_state`.

What is hard here: every mark is an UPDATE by id with no condition on the
status; a claim is a SELECT FOR UPDATE SKIP LOCKED followed by an UPDATE and a
commit; a publish or dispatch happens between two transactions; the stale reset
cannot tell a slow worker from a dead one; tasks are cancelled wherever they
await; commits can be lost; the consumer's client commits its position by time,
whatever has become of the messages before it; a breaker
reads and writes its shared snapshot around awaits; a sign-up and a saga change
several systems one after the other. The list of hazards, line by line, is in
`PROJECT.json`.

## 2. Modules

| Module | Models |
|---|---|
| `OutboxContract` | what an outbox promises: sends only after the commit, settled only after a send, for good |
| `OutboxRelay` | the outbox table, its producers, pollers, maintenance loop, crashes and restarts |
| `OutboxRelayProofs` | theorems about `OutboxRelay`, including that it implements `OutboxContract` |
| `MCOutboxRelay` | its instance for TLC |
| `Scheduler`, `SchedulerProofs`, `MCScheduler` | the job table, callers, pollers, maintenance loop; its theorems; its instance |
| `IdempotencyGuard`, `MCIdempotencyGuard` | the guard, the caller's transaction and the cleanup; its instance |
| `EventConsumer`, `EventConsumerProofs`, `MCEventConsumer` | the FastStream service: polling, a message's way through it, automatic commit, shutdown, crash, restart, a dynamic subscription; its theorems; its instance |
| `SagaContract`, `Saga`, `SagaProofs`, `MCSaga` | what a saga promises; the executor with its checkpoints; its theorems, including the safety part of the contract; its instance |
| `ResilientCall`, `ResilientCallProofs`, `MCResilientCall` | breaker around bulkhead around timeout, in one or several processes; its theorems; its instance |
| `Onboarding`, `OnboardingProofs`, `MCOnboarding` | the sign-up, with Keycloak, outbox, consumer and database; its theorems; its instance |

### OutboxRelay

State: `status` (the column, extended by `none`, `flushed` for a row of an open
transaction, `rolled_back`), `stale` and `old` (the outcomes of the two
comparisons with the clock), `running` per process, and per worker `pc`, the rest
`todo` of its batch and `broken` (the session sits in a failed transaction).
Histories: `deliveries`, `resets`, `failures`.

Actions follow the code's await points. The claim is two steps (`SelectBatch`
takes the row locks, `ClaimBatch` updates and commits), publishing is `PublishOk`
or `PublishError` (the broker may have the message all the same), marking is
`MarkPublished` or `MarkError` (the commit may have happened all the same; the
session may be broken for the rest of the batch). `Stop` stands for
`OutboxPoller.stop` and for a crash; `CancelWorker` ends each task of the dead
process, with or without the effect of what it awaited. An UPDATE waits for row
locks (`SetPublished` has `e \notin Locked`). An empty poll, and the pacing of
polls, change nothing the properties see.

### Scheduler

Same structure, with three differences of the code: a worker marks from the copy
it loaded at the claim (`runs`, `tries`), since sessions are created with
`expire_on_commit=False` and the SELECT in `mark_succeeded`/`mark_failed` returns
the object already in the session; an exception from a mark ends the whole batch
(`MarkError` drops it); and callers may cancel at any time. `run_count` doubles as
the number of the occurrence that `next_run_at` stands for, because one UPDATE
writes both. A worker is a process with one task, the default of
`concurrent_workers`; several tasks of a process behave like several processes
except that they stop together. Which jobs a full batch takes, and in which
order, is left open.

### IdempotencyGuard

A consumer goes through `entered` (before the check), `body`, `exited` (before
the INSERT), `marked`, and back. `Columns` are those of the table, `Values` those
that `mark_processed` fills in: `tenant_id` is only among the second, so the
statement does not compile and `MarkProcessed` raises, after the body and before
anything is sent. What would follow an INSERT (`MayInsert`, the unique index;
`Commit`, body and record together; `Cleanup`) is in the model, is not reached,
and applies once the table has the column or the statement no longer names it. `Rollback` is a raising
body, a failing statement or commit, or a dead consumer.

### EventConsumer

`position` is the client's, `committed` the broker's. `Poll` takes a record and
moves the position past it; with one worker it waits until the message is
settled, with more each record is a task that waits for room (`HasRoom`).
`Begin`, `HandlerSucceeds`, `HandlerReturnsFailure`, `HandlerRaises`, `SendToDlq`
and `SendToDlqFails` follow `_process_message` and
`EventProcessor.process_event`. The subscriber has no ack policy, so the client
commits its position by time (`AutoCommit`), at a shutdown (`Exit`, unless the
time for it runs out) and at a rebalance. `Stop` is the signal; the broker goes on
polling until `Exit`, the last thing `_do_stop` does. `Crash` loses what was in
memory. `Subscribe` adds a member to the service's own group, so the partition may
move to it; `Unsubscribe` ends it, or its `close()` raises, which the code logs and
goes on from; which of the two happens depends on the installed FastStream, and
the model has both. A message is its kind (decodable or not, with or without a
handler, tombstone); `outcomes` and `calls` are histories. One partition and one
worker process.

The other Kafka service, `AiokafkaMessagingService`, is not modelled, because it
does not run: its constructor passes `avro_schemas` to a base class that does not
take it (`messaging_kafka/src/messaging_kafka/aiokafka_messaging.py:121`) and
assigns `admin_client`, a read-only property (124); `start_consumer` assigns
`consumer`, another one (222).

### Saga and SagaContract

A run stops before each await: an action, a compensation or a save, with `then`
naming what follows the save. `Write` is the upsert by saga id, `AnchorTaken` the
unique constraint on name and key, which the upsert's conflict clause does not
cover. An action that fails may have taken effect, and so may a save. `effect` is
what is in the world. `SagaContract` says the same without rows: steps in order,
all of them, or those with a compensation taken back latest first, or a reported
break; `Phase` maps the executor onto it.

### ResilientCall

An action runs from one await to the next, under `_lock` where the code holds it
across an await (only with a repository). `Refresh` reads the shared snapshot, the
`BeforeCall...` actions decide on what was read, `HalfOpenSaved`, `ReportSaved` and
`SaveFails` persist. The bulkhead is `asyncio.Semaphore` as CPython 3.12 has it:
first come first served, with a state in which a waiter has its slot and has not
been resumed (`granted`), where it can still give up. Until it runs again it stays
in the semaphore's queue, so `locked()` is true (`Waiting`, `Locked`) although a
slot may be free: newcomers queue behind it, or are refused when `max_waiters` is
reached, and its `Resume` wakes as many of them as there are free slots (`WakeUp`).
`tripped`, `overwritten`, `known`, `period`, `admitted`, `late` are histories for
the properties. All processes read one clock.

### Onboarding

The composition. All requests are for one e-mail address and one organization
name. `at[s]` is the call to Keycloak or to the outbox a request makes next; each
call may fail with or without effect. `job[w]` is a handler between the statements
of `_create_root_account_from_directory`. Outbox and consumer appear through what
the other modules show of them: an event is sent at least once; a message a worker
took stays in `held` until the client commits its offset (`AutoCommit`), before or
after the handler is done with it; after a crash the messages in `held` come again
(`ComeAgain`), and one in work whose offset was committed is lost (`LostInWork`).
A message whose handler fails is given up. Lost and given up ones are `dropped`.

## 3. Runs

| Run | Result | Shows |
|---|---|---|
| `outbox_relay` | pass | type invariant, `PublishedWasDelivered`, `DuplicatesNeedReset`, `ExclusiveClaim`, `PublishedIsFinal`, `EventuallyPublished`, and `ContractSpec` (refinement) |
| `outbox_retries` | violation | the publish of an event fails more often than `max_retries`, and the event is not dead-lettered |
| `scheduler` | pass | type invariant, `NoOccurrenceSkipped`, `RefiresArePaid`, `ExclusiveClaim`, `RetryBudget`, `CapHolds`, `TerminalAtRest`, `EveryJobEnds` |
| `scheduler_cancel` | violation | a recurring job cancelled while it fires is SCHEDULED again by `mark_succeeded` |
| `scheduler_once` | violation | a one-time job fires twice after a reset under a slow worker |
| `idempotency_record` | violation | a guarded body ends cleanly and its key is not recorded: the INSERT raises |
| `event_consumer` | pass | type invariant, `LossIsBounded`, `CallsAreBounded`, `ExhaustedRetriesAreDeadLettered`, `EveryMessageIsSettled` |
| `event_consumer_dlq` | violation | a handler's success=False is neither retried nor dead-lettered |
| `event_consumer_crash` | violation | the position is committed past a message in work, the process dies, the message is gone |
| `saga` | pass | type invariant, `NoSilentLeftovers`, `ResumePointerIsSafe`, `ToldIsRecorded`, `OneSagaPerAnchor`, and `ContractSpec` (refinement, with liveness) |
| `resilient_call` | pass | type invariant, `ProbesAreLimited`, `HalfOpenIsNotWedged`, `SlotsAreUsed`, `TripIsHeeded` |
| `onboarding` | pass | type invariant, `SignupIsWhole`, `OneRootAccount`, `PublishedGetsAccount` |

Bounds. Outbox: two processes with a worker each, two events, batches of two,
three faults. Two workers are enough for every race between claims, marks and
resets, two events for a batch in which one fails and the other does not, and
three faults for a reset under a slow worker plus a failing mark plus a crash.
Scheduler: two workers, a one-time job with a retry budget of one and a recurring
job of two runs with a budget of two, two faults (a late worker that sets
`run_count` back needs one; two failures use up the larger budget), and a
horizon of three occurrences: a late failure can reschedule the recurring job
after its last run, and the model must let the extra run happen. Guard: two
consumers, two keys, two deliveries, which is more than the violation needs.
Consumer: three messages, so that one of them can be in work, one waiting and one
done; four deployments (one worker and two, with and without dead letters and
retries, subscribing); logs with each kind of message; one crash or shutdown and
one fault, together two ways to lose a message, so that the bound of one each is
tested. Saga: two runs, which share an id,
an anchor, both or nothing; four steps, one without a compensation between others
that have one, so that the order of compensations and the skipping matter; one
fault (a crash, or a save that fails, at any point). Resilient call: four calls,
two slots, one waiter: two calls hold slots, one waits, one is turned away;
thresholds of one and two, one probe; a recovery of one tick and two ticks, so
that a result can arrive after a whole open period. Onboarding: two requests, two
handlers, two messages per event but three in all, one fault: two messages of one
event and one of the other already meet in two handlers with one coming again. `MaxFaults`, `MaxRestarts`,
`MaxTime`, `MaxCopies`, `MaxMessages`, `Horizon` and `MaxDeliveries` exist only to keep TLC's
state space finite; the proofs hold for every value of them.

No symmetry is declared, since most runs check liveness. The saga's instance
starts from one of each set of interchangeable
assignments of ids and anchors (`MCSpec`).

Deadlock checking is off because the bounded systems really stop: once all events
are published or handled, all jobs or runs are over or all deliveries used,
nothing is left to do.

Fairness. Outbox and scheduler: a worker that can go on does (its task is
scheduled by the event loop, and its loop survives exceptions); a cancelled task
ends; a maintenance loop that finds stale rows resets them; time passes for
abandoned claims and, in the scheduler, for `next_run_at`; a process that stopped
is started again (`restart: unless-stopped` in the compose files). Failures are
not fair and at most `MaxFaults` many, so the liveness properties say what happens
once faults cease. No fairness is assumed for producers, cancellation, premature
timeouts or the passing of the seven days: `EventuallyPublished` excepts rows that
old, since the fetch never looks at them again. Consumer: the supervisor restarts
a process that has ended and the event loop runs what is ready (`Work`); handlers
end, one way or another; crashes, signals and faults are bounded and not fair, and
the automatic commit, which can only lose messages, need not happen.
Saga: a run whose await has an answer goes on (`Progress` of each run); no run need
start. Onboarding: an event is sent at least once, a message is delivered, a
handler goes on; these are what the outbox and the consumer were shown to do, the
requests themselves need not proceed. The resilient call has safety properties
only: whether a caller gets an answer is up to the handler and its timeout.

Every property has a mutant: a small change of a definition that a slip in the
code could cause (an UPDATE forgotten, a lock not taken, a comparison off by one),
under which TLC finds the property violated. The operators are in the modules,
marked "Mutant".

## 4. Findings

1. `max_retries` is not enforced by the outbox: the call of `mark_failed` is
   commented out (`R/outbox/outbox_poller.py:510`), and a publish may fail any
   number of times.
2. A recurring job cancelled while it is firing is SCHEDULED again: `mark_succeeded`
   (and `mark_failed`) write the status by id.
3. A one-time job can fire more than once; the delivery is at least once.
4. The guard cannot record a key: `mark_processed` fills in `tenant_id`
   (`R/idempotency/idempotency_repository.py:115`), which neither the table model
   nor its migration has. Every guarded body is rolled back with the exception.
   Once that is repaired, check and INSERT are still apart: two consumers may both
   find the key missing and both run the body, and the loser of the INSERT only
   logs it.
5. A handler's result with success=False is neither retried nor dead-lettered
   (`F/messaging/events/event_processor.py:165`), although the comment above it
   says it is converted for retry. With the default settings (`retry_enabled` off,
   `RETRY_MAX_RETRIES` 3) a raising handler does not reach the dead-letter topic
   either: one attempt counts one failure. `ExhaustedRetriesAreDeadLettered`
   therefore requires as many attempts as `RETRY_MAX_RETRIES`.
6. Consumption is not at least once: the subscriber has no ack policy
   (`faststream_aiokafka_impl.py:710`), and the client commits past messages in
   work. `LossIsBounded` says how much that costs a consumer with one worker.

Met while modelling, and visible in the models, without a run of their own:

* Saga: a save that fails in the middle leaves `run` without compensating
  (`F/resiliant/saga.py:198`); the contract has it as "broken". Nothing in the
  code resumes a persisted saga, though `R/saga/saga_repository.py:5` offers it;
  `ResumePointerIsSafe` says what such a resumption could rely on.
* The aiokafka service can be neither constructed nor started (section 2).
* FastStream: a dynamic subscription gets the group id of the service
  (`faststream_aiokafka_impl.py:556`; the docstring at 536 says "a unique consumer
  group"), so it shares the partitions of the main subscriber: each message goes to
  one of the two, and the main handlers miss what the subscription took.
* Bulkhead: a caller can be refused, or made to wait, while a slot is free, because
  `locked()` counts a waiter that was given its slot and has not run again
  (`F/resiliant/bulkhead.py:133`); `BulkheadFullError` (38) says "no slot is
  available". It passes with the next turn of the event loop.
* Breaker: `_on_success` and `_on_failure` persist without a refresh, so a process
  can write CLOSED over another's fresh opening; `TripIsHeeded` excepts exactly
  that. `opened_at` is the monotonic clock of one process and is compared in
  another. A call cancelled while it waits for the lock leaves its half-open place
  taken; the lock is held across awaits only with a repository, so
  `HalfOpenIsNotWedged` is about breakers without one. BulkheadFullError counts as a
  failure of the dependency.
* Sign-up: an existing organization or user of that name is deleted, where the
  docstring (`kc_iam_service.py:169`) promises the answer EXISTED; a failing
  publish leaves user and organization behind (356); neither e-mail nor user name
  is unique in the database, so `OneRootAccount` counts the races.

`mark_published` has the same form as the scheduler's marks, but is harmless:
PUBLISHED is true whoever writes it, and `PublishedIsFinal` is proved.

## 5. Proofs

`OutboxRelayProofs`, for any number of events, workers, processes and faults and
any batch size. The properties are not inductive. The invariant `StateInv` adds
what ties workers to rows: a row selected is PENDING and locked by one worker, a
batch being marked has a delivered current event, and two workers share an event
only after a reset. `DeliveriesPaid` then counts, per event, the deliveries made
and those still owed by workers that hold it and by a PENDING row, against one
plus the resets: claiming moves a debt from the row to the worker, a delivery
pays it, and only a reset creates a new one. From the two follow `TypeCorrect`,
`PublishedDelivered`, `ClaimsExclusive`, `DuplicatesPaid`, `PublishedFinal` and
`RelayKeepsContract` (initial states map to initial states; every action maps to
a step of the contract or to a stutter).

`SchedulerProofs`, for any jobs, retry budgets, caps and faults and finitely many
workers. `StateInv` is the conjunction of `SelectedRows` (a selected row is
SCHEDULED, locked by one worker, and the copy agrees with it), `HolderAlone` (a
claim is exclusive while none of the job's claims was reset), `CopiesFired` (a
copy, however old, counts only occurrences that fired; without it the late
`mark_succeeded` of a slow worker could not be followed) and
`NoOccurrenceSkipped`. It gives `SchedulerTypeCorrect`, `OccurrencesFire`,
`ClaimsExclusive` and, step by step, `FinishedStaysFinished`. `FiresPaid` is the
counting argument of the outbox per job and occurrence `k`: the fires of `k`, the
workers that may still fire it or write a `run_count` up to `k` back, and the row
if it is to run with `run_count` up to `k`, together never exceed one plus the
recorded failures plus the resets. A claim moves the row's debt to the worker, a
fire pays it, a success returns it for later occurrences, and only a recorded
failure or a reset creates a new one. `RefiresPaid` follows. `CountInv` is about
jobs whose claim was never reset: whoever has one in hand works from counts that
are still the row's (`CopiesCurrent`), and a job that may still run has a retry,
or a run, left (`RetriesLeft`, `RunsLeft`). "May still run" (`Live`) includes a
cancelled job that a worker is firing, since the mark brings it back; without
that case the invariant is not inductive. `BudgetIsKept` and `CapIsKept` follow.

`SagaProofs`, for any numbers of runs, saga ids, steps and faults. `RunInv` is about
a run alone: until a step fails, instance and effects are the prefix below the
cursor (`GoesForward`); afterwards every step between the cursor and the failed
one is compensated, or has no compensation (`GoesBack`), and a caller is told what
the run came to (`Answered`). It gives `LeftoversAreTold` and `SagaKeepsContract`,
action by action: the initial state maps to an initial state, each step to a step
of `SagaContract` or to a stutter. `RowInv` ties runs to rows: a run acts only after
its first save (`SavedFirst`), two keyed rows cannot both be there
(`AnchorsDiffer`, from the unique constraint), and the row of a run that is alone
with its id lags at most one step behind it (`RowLags`). `AnchorsActOnce`,
`AnswersAreRecorded` and `RowsCanBeResumed` follow; the last needs that the least
step not yet completed of a prefix is its length plus one.

`EventConsumerProofs`, for any log, deployments, retry settings, restarts and faults.
`LossInv` makes `LossIsBounded` inductive: with one worker at most one message is in
work, the committed offset is never past the position while the process lives, and
the messages lost are at most the interruptions that are over (`Ended`: a shutdown
under way has been counted and has not yet cost anything). A crash then adds at
most the message in work, wherever the commits have put the offset. `CallsInv` is
an account per message: the calls made, plus the attempts of a delivery that is
still to come (`Ahead`), stay within those that the interruptions so far allow
(`Allowed`) plus what the latest delivery has `Spent`; a restart or a lost commit
allows one delivery's attempts more, which the redelivery may use up. `LossStaysBounded` and `CallsStayBounded` follow.
`RaisedIsDeadLettered` is the action property, from the bound on `retry_count`.

`ResilientCallProofs`, for any processes, thresholds, limits and recovery time and
finitely many calls. Bulkhead: `SlotsAreUsed` says that at most `max_concurrent`
calls hold a slot, and that calls wait beside a free slot only while some waiter
that was given one has not yet run again. `BulkInv` adds that the semaphore's queue
has waiting calls of this process, each once, so that the slots handed over go to
calls that wait, and a call that gives up leaves no ghost behind; whoever leaves
the state `granted` wakes as many as there are free slots, which is why nobody is
forgotten. Half-open: `ProbeInv` bounds the probes out by the places taken plus the
foreign results, and the places taken by the calls under way; both directions are
needed together, since a foreign result lowers the count without ending a probe.
Openings: `TripInv` says that the repository tells of the last opening, or it was
overwritten, or the recovery time is over (`StoreTells`); that what a call has read
under the lock still does when it decides (`ReadTells`), although others save in
between; and without a repository that the breaker leaves OPEN in no other way
(`BreakerTells`). The action property `OpeningsAreHeeded` follows. The stored
snapshot's time to live matters: `Expire` keeps `StoreTells` only because it is
longer than the recovery time.

`OnboardingProofs`, for any number of requests, copies of an event and faults and
handlers. `JobInv` accounts for messages: each one due, in work or not yet
committed was sent. `QuietInv`: a request that began alone
is alone until it ends or another begins, and before it publishes Keycloak holds
its user, organization and membership; `QuietSignupIsWhole`. `RaceInv` counts the
root accounts against one plus the races: a handler about to insert, whose check
no other insert has outdated, has room for one more; `OnlyRacesDuplicate`.

Each of these inductive invariants was checked by TLC, on the instance of the
component's run, before it was proved.

Assumptions: only the ones on the constants (`RelayAssumption`,
`SchedulerAssumption`, `SagaAssumption`, `ConsumerAssumption`,
`ResilientAssumption`, `OnboardingAssumption`), which TLC evaluates in the runs:
numbers are naturals, and positive where the code's settings are; workers
and calls are finitely many where a proof counts them.
`LocalAssumption` says that without a repository all calls of a deployment are of
one process. It loses nothing: breakers of different processes then share no
variable, and the history `tripped`, which is one for the system, would mix
openings that have nothing to do with each other.

Only model-checked: liveness (`EventuallyPublished`, `EveryJobEnds`,
`EveryMessageIsSettled`, `PublishedGetsAccount`, the liveness part of the saga's
contract), which is outside the prover's reach, as is ENABLED. Every invariant and
action property of a passing run is a theorem.

## 6. Not modelled

* Poll pacing, NOTIFY wake-ups, metrics, statistics: they decide when a poll
  happens, not what it does.
* `OutboxRepository.mark_failed`: no caller.
* Partition maintenance: SQL functions in the database.
* The dead-letter table (`R/dlq`): its service is registered and no application
  calls it, so there is no behaviour to compose it with. `EventProcessorFast`,
  which would, is not used either.
* Maintenance jobs: a check and an insert at start-up; a second recurring job is
  one more job to `Scheduler`.
* Fallback (keeps no state), delays and signal handlers of the retry policy, the
  health server of the worker, the NATS adapter (a stub), channel administration.
* `AiokafkaMessagingService`, which cannot be constructed (section 2).
* Rebalances between worker processes: the one a dynamic subscription causes is
  modelled, several processes in a group are not; the broker's protocol decides
  when a partition changes hands.
* Rate limiting: a fork of a third-party extension whose counters live in an
  external limiter.
* The rest of IAM: single calls to Keycloak, or CRUD in one transaction.
* Message encoding, schema registry, HTTP layers, caches, Kaspa client: input and
  output around external services.

Most of the 67,000 lines of the repository are of this last kind: table models and
migrations, request and response schemas, reference data, settings, generated
types, HTTP adapters, command-line tools. They have no state that changes under
concurrency or failure. The map covers the parts that do.

## 7. Plan

Done: the outbox with its contract, the scheduler, the guard, the consumer, the
saga with its contract, the resilient call and the sign-up, each model-checked and
all but the guard with proofs. Next:

1. The guard's race and its purge, once its INSERT compiles: that effects and
   records commit together and that every repetition is logged.
2. The outbox's ordering hazard (events of one ordering key, a failing one
   overtaken by a later one) as a property of `OutboxRelay`, once a key is modelled.
3. Facts the proofs rest on and no run states, as theorems of their own where a
   reader would want them: that a message is due, in hand or used up (sign-up), that
   a slot handed over goes to a call that waits (bulkhead).
