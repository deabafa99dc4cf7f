---- MODULE EventConsumer ----
(***************************************************************************)
(* The event consumer of a worker process, FastStreamKafkaMessagingService *)
(* with EventProcessor: polling, the handling of one message (decode,      *)
(* dispatch, in-process retry, dead letter), the client's automatic        *)
(* commit, shutdown, crash and restart, and a dynamic subscription.  The   *)
(* subscriber sets no ack policy, so the client commits its position,      *)
(* whatever has become of the messages before it.  One partition, one      *)
(* worker process, a group that has committed before.                      *)
(***************************************************************************)
EXTENDS Integers, FiniteSets

CONSTANTS
    NumMessages,        \* length of the partition's log
    Logs,               \* the logs considered: functions from offset to kind
    Confs,              \* deployments considered: records of ConfType
    RetryMaxRetries,    \* MessagingSettings.RETRY_MAX_RETRIES
    MaxRestarts,        \* bound: crashes and requested shutdowns
    MaxFaults           \* bound: failing dead letters, lost last commits,
                        \* failing close() of a subscription

Offsets == 1..NumMessages

\* "event": decodes and has a handler; "unknown": decodes, no handler is
\* registered; "bad": does not decode; "null": a tombstone.
Kinds == {"event", "unknown", "bad", "null"}

\* workers: max_workers of the subscriber; attempts: 1 when
\* EventProcessorConfig.retry_enabled is false, otherwise the max_attempts of
\* the retry policy; subscribes: the application calls subscribe() on the
\* topic of the main subscriber (modelled for one message at a time).
ConfType == [workers: Nat \ {0}, dlq: BOOLEAN, attempts: Nat \ {0}, subscribes: BOOLEAN]

ASSUME ConsumerAssumption ==
    /\ NumMessages \in Nat \ {0}
    /\ Logs \subseteq [Offsets -> Kinds]
    /\ Confs \subseteq {c \in ConfType : c.subscribes => c.workers = 1}
    /\ RetryMaxRetries \in Nat
    /\ MaxRestarts \in Nat
    /\ MaxFaults \in Nat

VARIABLES
    conf,               \* settings of the deployment, fixed
    kind,               \* the log, fixed
    committed,          \* broker: next offset of the group
    proc,               \* "down", "up", "stopping"
    position,           \* client: next offset the consumer returns
    task,               \* offset: [pc, retry_count] of its _process_message
    sub,                \* dynamic subscription: "none", "active", "ended"
    owner,              \* the subscriber that has the partition
    outcomes,           \* history: how handling of the message ended, ever
    calls,              \* history: how often its handler was called
    restarts, faults    \* bounds

vars == <<conf, kind, committed, proc, position, task, sub, owner, outcomes, calls,
          restarts, faults>>

settings == <<conf, kind>>
subscription == <<sub, owner>>
bounds == <<restarts, faults>>

\* "waiting": taken from the client, not begun; "handler": in the handler or
\* waiting to call it again; "dlq": in send_to_dlq.
TaskPcs == {"idle", "waiting", "handler", "dlq", "done"}

Outcomes == {"handled", "deadlettered", "dropped", "undecodable", "skipped", "subscriber"}

Active == {o \in Offsets : task[o].pc \in {"waiting", "handler", "dlq"}}

Sequential == conf.workers = 1

TypeOK ==
    /\ conf \in Confs
    /\ kind \in Logs
    /\ committed \in 1..NumMessages + 1
    /\ proc \in {"down", "up", "stopping"}
    /\ position \in 1..NumMessages + 1
    /\ task \in [Offsets -> [pc: TaskPcs, retry_count: 0..conf.attempts]]
    /\ sub \in {"none", "active", "ended"}
    /\ owner \in {"main", "subscription"}
    /\ outcomes \in [Offsets -> SUBSET Outcomes]
    /\ calls \in [Offsets -> Nat]
    /\ restarts \in 0..MaxRestarts
    /\ faults \in 0..MaxFaults

NoTasks == [o \in Offsets |-> [pc |-> "idle", retry_count |-> 0]]

Init ==
    /\ conf \in Confs
    /\ kind \in Logs
    /\ committed = 1
    /\ proc = "down"
    /\ position = 1
    /\ task = NoTasks
    /\ sub = "none"
    /\ owner = "main"
    /\ outcomes = [o \in Offsets |-> {}]
    /\ calls = [o \in Offsets |-> 0]
    /\ restarts = 0
    /\ faults = 0

----------------------------------------------------------------------------
(* The process: start, polling, automatic commit, shutdown, crash.          *)

\* start_producer, start_consumer and start_consuming of a new process.
Start ==
    /\ proc = "down"
    /\ proc' = "up"
    /\ position' = committed
    /\ UNCHANGED <<settings, committed, task, subscription, outcomes, calls, bounds>>

\* Mutant: the subscriber is registered as if max_workers were not 1.
LoopNeverWaits == TRUE

\* One worker handles a message in place and then polls again; with more,
\* every record becomes a task of its own.
LoopReady == Sequential => Active = {}

\* The broker polls until it is stopped, the last thing the service does.
\* The position the client commits is already past the record.
Poll ==
    /\ proc # "down"
    /\ owner = "main"
    /\ LoopReady
    /\ position <= NumMessages
    /\ task' = [task EXCEPT ![position] = [pc |-> "waiting", retry_count |-> 0]]
    /\ position' = position + 1
    /\ UNCHANGED <<settings, committed, proc, subscription, outcomes, calls, bounds>>

\* The client commits its position, every so often.
AutoCommit ==
    /\ proc # "down"
    /\ committed # position
    /\ committed' = position
    /\ UNCHANGED <<settings, proc, position, task, subscription, outcomes, calls, bounds>>

\* A signal: the worker cancels its consumer task and calls stop().
Stop ==
    /\ proc = "up"
    /\ restarts < MaxRestarts
    /\ restarts' = restarts + 1
    /\ proc' = "stopping"
    /\ UNCHANGED <<settings, committed, position, task, subscription, outcomes, calls, faults>>

\* What a process leaves behind: nothing it had in memory.
Vanish ==
    /\ proc' = "down"
    /\ task' = NoTasks
    /\ sub' = "none"
    /\ owner' = "main"

\* The broker has stopped: its client has committed the position, unless the
\* time for it ran out; messages in work are cancelled.
Exit ==
    /\ proc = "stopping"
    /\ committed' \in {committed, position}
    /\ Vanish
    /\ UNCHANGED <<settings, position, outcomes, calls, bounds>>

\* The process dies.
Crash ==
    /\ proc # "down"
    /\ restarts < MaxRestarts
    /\ restarts' = restarts + 1
    /\ Vanish
    /\ UNCHANGED <<settings, committed, position, outcomes, calls, faults>>

----------------------------------------------------------------------------
(* _process_message and EventProcessor.process_event for one message.       *)

End(o) == task' = [task EXCEPT ![o] = [pc |-> "done", retry_count |-> 0]]

Conclude(o, how) == outcomes' = [outcomes EXCEPT ![o] = @ \union {how}]

CallHandler(o) == calls' = [calls EXCEPT ![o] = @ + 1]

\* Mutant: one failure more than RETRY_MAX_RETRIES is needed.
ExhaustedLate(r) == r > RetryMaxRetries

Exhausted(r) == r >= RetryMaxRetries

\* A result with success=False: the dead-letter topic once retry_count has
\* reached RETRY_MAX_RETRIES; otherwise the message is counted as retried, or
\* reported when there is no dead-letter topic, and nothing else is done.
Failure(o, r) ==
    \/ /\ conf.dlq
       /\ Exhausted(r)
       /\ task' = [task EXCEPT ![o] = [pc |-> "dlq", retry_count |-> r]]
       /\ UNCHANGED outcomes
    \/ /\ ~(conf.dlq /\ Exhausted(r))
       /\ End(o)
       /\ Conclude(o, "dropped")

\* Mutant: a worker is not free again after a message that was concluded.
HasRoomOnce == Cardinality({o \in Offsets : task[o].pc \in {"handler", "dlq", "done"}}) < conf.workers

\* At most max_workers messages are handled at the same time.
HasRoom == Cardinality({o \in Offsets : task[o].pc \in {"handler", "dlq"}}) < conf.workers

\* Decoding and the lookup of the handler.
Begin(o) ==
    /\ task[o].pc = "waiting"
    /\ HasRoom
    /\ \/ /\ kind[o] = "null"
          /\ End(o)
          /\ Conclude(o, "skipped")
          /\ UNCHANGED calls
       \/ /\ kind[o] = "bad"
          /\ End(o)
          /\ Conclude(o, "undecodable")
          /\ UNCHANGED calls
       \/ /\ kind[o] = "unknown"
          /\ Failure(o, 0)
          /\ UNCHANGED calls
       \/ /\ kind[o] = "event"
          /\ task' = [task EXCEPT ![o].pc = "handler"]
          /\ CallHandler(o)
          /\ UNCHANGED outcomes
    /\ UNCHANGED <<settings, committed, proc, position, subscription, bounds>>

\* The handler returns a successful result.
HandlerSucceeds(o) ==
    /\ task[o].pc = "handler"
    /\ End(o)
    /\ Conclude(o, "handled")
    /\ UNCHANGED <<settings, committed, proc, position, subscription, calls, bounds>>

\* The handler returns success=False: counted, and returned as it is.
HandlerReturnsFailure(o) ==
    /\ task[o].pc = "handler"
    /\ Failure(o, task[o].retry_count + 1)
    /\ UNCHANGED <<settings, committed, proc, position, subscription, calls, bounds>>

\* Mutant: one attempt more than max_attempts.
MayRetryOnceMore(r) == r <= conf.attempts

\* `attempt + 1 >= max_attempts` raises; r failures are counted by now.
MayRetry(r) == r < conf.attempts

\* The handler raises: counted, and called again while attempts are left.
HandlerRaises(o) ==
    LET r == task[o].retry_count + 1 IN
    /\ task[o].pc = "handler"
    /\ \/ /\ MayRetry(r)
          /\ task' = [task EXCEPT ![o].retry_count = r]
          /\ CallHandler(o)
          /\ UNCHANGED outcomes
       \/ /\ ~MayRetry(r)
          /\ Failure(o, r)
          /\ UNCHANGED calls
    /\ UNCHANGED <<settings, committed, proc, position, subscription, bounds>>

\* send_to_dlq returns when the broker has the record.
SendToDlq(o) ==
    /\ task[o].pc = "dlq"
    /\ End(o)
    /\ Conclude(o, "deadlettered")
    /\ UNCHANGED <<settings, committed, proc, position, subscription, calls, bounds>>

\* send_to_dlq raises, whether or not the broker has the record: the main
\* handler reports it, and the consumer goes on with the next message.
SendToDlqFails(o) ==
    /\ task[o].pc = "dlq"
    /\ faults < MaxFaults
    /\ faults' = faults + 1
    /\ End(o)
    /\ Conclude(o, "deadlettered") \/ UNCHANGED outcomes
    /\ UNCHANGED <<settings, committed, proc, position, subscription, calls, restarts>>

----------------------------------------------------------------------------
(* subscribe() and unsubscribe().                                           *)

\* The group rebalances: the client commits its position first, unless that
\* fails, and the member that gets the partition begins at what is committed.
Rebalance(members) ==
    /\ owner' \in members
    /\ \/ /\ committed' = position
          /\ UNCHANGED <<position, faults>>
       \/ /\ faults < MaxFaults
          /\ faults' = faults + 1
          /\ position' = committed
          /\ UNCHANGED committed

\* The consumer group is the service's own, so a second member joins it.
Subscribe ==
    /\ conf.subscribes
    /\ proc = "up"
    /\ sub = "none"
    /\ sub' = "active"
    /\ Rebalance({"main", "subscription"})
    /\ UNCHANGED <<settings, proc, task, outcomes, calls, restarts>>

\* A record goes to the subscription's handler; errors are only reported.
SubscriptionPoll ==
    /\ owner = "subscription"
    /\ proc # "down"
    /\ position <= NumMessages
    /\ position' = position + 1
    /\ Conclude(position, "subscriber")
    /\ UNCHANGED <<settings, committed, proc, task, subscription, calls, bounds>>

\* The subscriber leaves the group, or closing it raises, which is logged.
Unsubscribe ==
    /\ sub = "active"
    /\ proc = "up"
    /\ sub' = "ended"
    /\ \/ Rebalance({"main"})
       \/ /\ faults < MaxFaults
          /\ faults' = faults + 1
          /\ UNCHANGED <<owner, position, committed>>
    /\ UNCHANGED <<settings, proc, task, outcomes, calls, restarts>>

----------------------------------------------------------------------------

Step(o) ==
    \/ Begin(o)
    \/ HandlerSucceeds(o)
    \/ HandlerReturnsFailure(o)
    \/ HandlerRaises(o)
    \/ SendToDlq(o)
    \/ SendToDlqFails(o)

Next ==
    \/ Start
    \/ Poll
    \/ AutoCommit
    \/ Stop
    \/ Exit
    \/ Crash
    \/ Subscribe
    \/ SubscriptionPoll
    \/ Unsubscribe
    \/ \E o \in Offsets : Step(o)

\* What a live worker does: the supervisor restarts a process that has ended,
\* the event loop runs a coroutine that is ready.  Handlers end, one way or
\* another.  Crashes, signals, calls of the application and the automatic
\* commit are not required to happen.
Work ==
    \/ Start
    \/ Poll
    \/ Exit
    \/ SubscriptionPoll
    \/ \E o \in Offsets : Step(o)

Spec == Init /\ [][Next]_vars /\ WF_vars(Work)

----------------------------------------------------------------------------
(* Properties.                                                              *)

\* The messages the consumer has taken: up to the position while it runs, what
\* the group has committed when it does not.
Past == IF proc = "down" THEN committed ELSE position

\* Taken, not in work, and never concluded: nobody will look at it again.
Lost == {o \in Offsets : o < Past /\ o \notin Active /\ outcomes[o] = {}}

\* With one worker ("messages are processed strictly one at a time",
\* start_consuming_sequential) the automatic commit costs at most one message
\* for each crash or shutdown, and a failed dead letter one; nothing else loses
\* any, through redeliveries, rebalances and commits that come too late.
LossIsBounded == Sequential => Cardinality(Lost) <= restarts + faults

\* A handler is called at most max_attempts times for each delivery of a message,
\* and a message is delivered again only after a restart or a rebalance that
\* lost its commit: the retries of two lives add up to no more.
CallsAreBounded == \A o \in Offsets : calls[o] <= conf.attempts * (1 + restarts + faults)

\* A handler that raises on every attempt leads to the dead-letter topic, never
\* to a message silently dropped, as long as the retry policy makes as many
\* attempts as RETRY_MAX_RETRIES asks for.
ExhaustedRetriesAreDeadLettered ==
    [][conf.dlq /\ conf.attempts >= RetryMaxRetries =>
        \A o \in Offsets : HandlerRaises(o) => outcomes' = outcomes]_vars

\* No message waits for ever, neither for a worker nor for a consumer that has
\* stopped: in the end each one is concluded or among the lost.
EveryMessageIsSettled ==
    \A o \in Offsets : <>[](outcomes[o] # {} \/ o \in Lost)

\* EventProcessorSettings: failed events are "retried before being sent to the
\* DLQ", and event_processor.py: a failure result is converted "to exception
\* for retry"; with the dead-letter topic enabled no failed event is dropped.
FailuresAreDeadLettered ==
    conf.dlq => \A o \in Offsets : "dropped" \notin outcomes[o]

\* MessagingServiceT (types.py): "Pub/Sub: At-least-once delivery": the group is
\* not past a message that no life of the consumer has concluded.
DeliveredAtLeastOnce ==
    proc = "down" => \A o \in Offsets : o < committed => outcomes[o] # {}
====
