---- MODULE EventConsumerProofs ----
(***************************************************************************)
(* What the event consumer guarantees for any log, deployment, retry       *)
(* settings and number of crashes and faults.                              *)
(*                                                                         *)
(* Loss: with one worker at most one message is in work, so a life of the  *)
(* process that ends leaves at most that one behind the committed offset   *)
(* without a conclusion (LossInv); a shutdown under way has its one        *)
(* message still to lose.  Calls: the deliveries of a message are counted  *)
(* by what made each further one possible, a restart or a rebalance that   *)
(* lost its commit (CallsInv).                                             *)
(***************************************************************************)
EXTENDS EventConsumer, FiniteSetTheorems, TLAPS

\* The count of failures is zero before the handler and below the number of
\* attempts in it.
RetryInv ==
    \A o \in Offsets :
        /\ task[o].pc = "waiting" => task[o].retry_count = 0
        /\ task[o].pc = "handler" => task[o].retry_count < conf.attempts

TypeInv == TypeOK /\ RetryInv

Task == [pc: TaskPcs, retry_count: 0..conf.attempts]

\* The deployment is one of those considered.
LEMMA ConfTyped ==
  ASSUME conf \in Confs
  PROVE  /\ conf \in ConfType /\ conf.attempts \in Nat \ {0} /\ conf.workers \in Nat \ {0}
         /\ NumMessages \in Nat \ {0} /\ RetryMaxRetries \in Nat
         /\ MaxRestarts \in Nat /\ MaxFaults \in Nat
  BY ConsumerAssumption DEF ConfType, ConsumerAssumption

\* The types in the form the proofs use.
LEMMA Types ==
  ASSUME TypeInv
  PROVE  /\ conf \in Confs /\ kind \in Logs /\ committed \in 1..NumMessages + 1
         /\ proc \in {"down", "up", "stopping"} /\ position \in 1..NumMessages + 1
         /\ task \in [Offsets -> Task] /\ sub \in {"none", "active", "ended"}
         /\ owner \in {"main", "subscription"}
         /\ outcomes \in [Offsets -> SUBSET Outcomes] /\ calls \in [Offsets -> Nat]
         /\ restarts \in 0..MaxRestarts /\ faults \in 0..MaxFaults
         /\ Offsets = 1..NumMessages
         /\ \A o \in Offsets : /\ task[o].pc \in TaskPcs /\ task[o].retry_count \in 0..conf.attempts
                               /\ task[o].pc = "waiting" => task[o].retry_count = 0
                               /\ task[o].pc = "handler" => task[o].retry_count < conf.attempts
  BY DEF TypeInv, TypeOK, Task, RetryInv, Offsets

\* The types hold initially.
LEMMA TypeInvInit == Init => TypeInv
<1> SUFFICES ASSUME Init PROVE TypeInv
  OBVIOUS
<1>1. /\ conf.attempts \in Nat \ {0} /\ NumMessages \in Nat \ {0}
      /\ MaxRestarts \in Nat /\ MaxFaults \in Nat
  BY ConfTyped DEF Init
<1>2. task \in [Offsets -> [pc: TaskPcs, retry_count: 0..conf.attempts]] /\ RetryInv
  BY <1>1 DEF Init, NoTasks, TaskPcs, RetryInv
<1>3. 1 \in 1..NumMessages + 1 /\ 0 \in 0..MaxRestarts /\ 0 \in 0..MaxFaults
  BY <1>1
<1>4. outcomes \in [Offsets -> SUBSET Outcomes] /\ calls \in [Offsets -> Nat]
  BY DEF Init
<1>5. TypeOK
  BY <1>2, <1>3, <1>4 DEF Init, TypeOK
<1> QED BY <1>2, <1>5 DEF TypeInv

----------------------------------------------------------------------------
(* The shape of a step of _process_message.                                 *)

\* The message is concluded, or its dead letter failed; it goes to the
\* dead-letter topic; its handler is called, first or again.
Ends(o) ==
    /\ task'[o].pc = "done" /\ calls'[o] = calls[o]
    /\ outcomes'[o] # {} \/ faults' = faults + 1

Gives(o) == task'[o].pc = "dlq" /\ calls'[o] = calls[o]

Tries(o) ==
    /\ task'[o].pc = "handler" /\ calls'[o] = calls[o] + 1
    /\ task'[o].retry_count < conf.attempts
    /\ \/ task[o].pc = "waiting" /\ task'[o].retry_count = 0
       \/ task[o].pc = "handler" /\ task'[o].retry_count = task[o].retry_count + 1

Shape(o) ==
    /\ o \in Active
    /\ UNCHANGED <<conf, kind, committed, proc, position, sub, owner, restarts>>
    /\ task' \in [Offsets -> Task] /\ outcomes' \in [Offsets -> SUBSET Outcomes]
    /\ calls' \in [Offsets -> Nat]
    /\ \A p \in Offsets \ {o} :
          task'[p] = task[p] /\ outcomes'[p] = outcomes[p] /\ calls'[p] = calls[p]
    /\ outcomes[o] \subseteq outcomes'[o]
    /\ faults' \in {faults, faults + 1} /\ faults' <= MaxFaults
    /\ Ends(o) \/ Gives(o) \/ Tries(o)

\* A task of o that is replaced.
LEMMA TaskSet ==
  ASSUME TypeInv, NEW o \in Offsets, NEW t \in Task, task' = [task EXCEPT ![o] = t]
  PROVE  task' \in [Offsets -> Task] /\ task'[o] = t /\ \A p \in Offsets \ {o} : task'[p] = task[p]
  BY Types

\* The end of a task.
LEMMA TaskEnds ==
  ASSUME TypeInv, NEW o \in Offsets, End(o)
  PROVE  /\ task' \in [Offsets -> Task] /\ task'[o].pc = "done"
         /\ \A p \in Offsets \ {o} : task'[p] = task[p]
<1>1. [pc |-> "done", retry_count |-> 0] \in Task
  BY Types, ConfTyped DEF Task, TaskPcs
<1> QED BY <1>1, TaskSet DEF End

\* The record of a conclusion.
LEMMA Concluded ==
  ASSUME TypeInv, NEW o \in Offsets, NEW how \in Outcomes, Conclude(o, how)
  PROVE  /\ outcomes' \in [Offsets -> SUBSET Outcomes] /\ outcomes'[o] # {}
         /\ outcomes[o] \subseteq outcomes'[o]
         /\ \A p \in Offsets \ {o} : outcomes'[p] = outcomes[p]
  BY Types DEF Conclude

\* A task that ends with a conclusion.
LEMMA ConcludesShape ==
  ASSUME TypeInv, NEW o \in Active, NEW how \in Outcomes, End(o), Conclude(o, how),
         UNCHANGED <<conf, kind, committed, proc, position, sub, owner, restarts, calls, faults>>
  PROVE  Shape(o)
<1>1. o \in Offsets /\ faults <= MaxFaults
  BY Types, ConfTyped DEF Active
<1>2. Ends(o)
  BY <1>1, TaskEnds, Concluded DEF Ends
<1> QED BY <1>1, <1>2, TaskEnds, Concluded, Types DEF Shape

\* A failure result, dead-lettered or dropped.
LEMMA FailureShape ==
  ASSUME TypeInv, NEW o \in Active, NEW r \in 0..conf.attempts, Failure(o, r),
         UNCHANGED <<conf, kind, committed, proc, position, sub, owner, restarts, calls, faults>>
  PROVE  Shape(o)
<1>0. o \in Offsets /\ faults <= MaxFaults
  BY Types, ConfTyped DEF Active
<1>1. CASE conf.dlq /\ Exhausted(r)
  <2>1. task' = [task EXCEPT ![o] = [pc |-> "dlq", retry_count |-> r]] /\ outcomes' = outcomes
    BY <1>1 DEF Failure
  <2>2. [pc |-> "dlq", retry_count |-> r] \in Task
    BY DEF Task, TaskPcs
  <2>3. task' \in [Offsets -> Task] /\ task'[o].pc = "dlq" /\ \A p \in Offsets \ {o} : task'[p] = task[p]
    BY <1>0, <2>1, <2>2, TaskSet
  <2>4. Gives(o)
    BY <2>3 DEF Gives
  <2> QED BY <1>0, <2>1, <2>3, <2>4, Types DEF Shape
<1>2. CASE ~(conf.dlq /\ Exhausted(r))
  <2>1. End(o) /\ Conclude(o, "dropped") /\ "dropped" \in Outcomes
    BY <1>2 DEF Failure, Outcomes
  <2> QED BY <2>1, ConcludesShape
<1> QED BY <1>1, <1>2

\* The handler is called, first or again.
LEMMA TriesShape ==
  ASSUME TypeInv, NEW o \in Active, NEW t \in Task, task' = [task EXCEPT ![o] = t],
         t.pc = "handler", t.retry_count < conf.attempts, CallHandler(o),
         \/ task[o].pc = "waiting" /\ t.retry_count = 0
         \/ task[o].pc = "handler" /\ t.retry_count = task[o].retry_count + 1,
         UNCHANGED <<conf, kind, committed, proc, position, sub, owner, restarts, outcomes, faults>>
  PROVE  Shape(o)
<1>0. o \in Offsets /\ faults <= MaxFaults
  BY Types, ConfTyped DEF Active
<1>1. task' \in [Offsets -> Task] /\ task'[o] = t /\ \A p \in Offsets \ {o} : task'[p] = task[p]
  BY <1>0, TaskSet
<1>2. /\ calls' \in [Offsets -> Nat] /\ calls'[o] = calls[o] + 1
      /\ \A p \in Offsets \ {o} : calls'[p] = calls[p]
  BY <1>0, Types DEF CallHandler
<1>3. Tries(o)
  BY <1>1, <1>2 DEF Tries
<1> QED BY <1>0, <1>1, <1>2, <1>3, Types DEF Shape

\* Every step of _process_message has this shape.
LEMMA StepShape ==
  ASSUME TypeInv, NEW o \in Offsets, Step(o)
  PROVE  Shape(o)
<1> USE DEF settings, subscription, bounds
<1>0. conf.attempts \in Nat \ {0} /\ task[o] \in Task /\ task[o].retry_count \in Nat
  BY Types, ConfTyped
<1>a. o \in Active
  BY DEF Step, Begin, HandlerSucceeds, HandlerReturnsFailure, HandlerRaises, SendToDlq,
     SendToDlqFails, Active
<1>1. CASE Begin(o)
  <2>1. CASE kind[o] = "null" \/ kind[o] = "bad"
    <3>1. PICK how \in {"skipped", "undecodable"} : End(o) /\ Conclude(o, how)
      BY <1>1, <2>1 DEF Begin
    <3>2. how \in Outcomes
      BY DEF Outcomes
    <3>3. UNCHANGED calls
      BY <1>1, <2>1 DEF Begin
    <3> QED BY <1>1, <1>a, <3>1, <3>2, <3>3, ConcludesShape DEF Begin
  <2>2. CASE kind[o] = "unknown"
    <3>1. 0 \in 0..conf.attempts /\ Failure(o, 0) /\ UNCHANGED calls
      BY <1>0, <1>1, <2>2 DEF Begin
    <3> QED BY <1>1, <1>a, <3>1, FailureShape DEF Begin
  <2>3. CASE kind[o] = "event"
    <3> DEFINE t == [task[o] EXCEPT !.pc = "handler"]
    <3>1. /\ task' = [task EXCEPT ![o] = t] /\ CallHandler(o) /\ outcomes' = outcomes
          /\ task[o].pc = "waiting"
      BY <1>1, <2>3 DEF Begin
    <3>2. t \in Task /\ t.pc = "handler" /\ t.retry_count = task[o].retry_count
      BY <1>0 DEF Task, TaskPcs
    <3>3. t.retry_count = 0 /\ t.retry_count < conf.attempts
      BY <1>0, <3>1, <3>2, Types
    <3>4. UNCHANGED <<conf, kind, committed, proc, position, sub, owner, restarts, faults>>
      BY <1>1 DEF Begin
    <3> HIDE DEF t
    <3> QED BY <1>a, <3>1, <3>2, <3>3, <3>4, TriesShape
  <2> QED BY <1>1, <2>1, <2>2, <2>3 DEF Begin
<1>2. CASE HandlerSucceeds(o)
  <2>1. "handled" \in Outcomes
    BY DEF Outcomes
  <2> QED BY <1>2, <1>a, <2>1, ConcludesShape DEF HandlerSucceeds
<1>r. task[o].pc = "handler" => task[o].retry_count + 1 \in 0..conf.attempts
  BY <1>0, Types
<1>3. CASE HandlerReturnsFailure(o)
  BY <1>3, <1>a, <1>r, FailureShape DEF HandlerReturnsFailure
<1>4. CASE HandlerRaises(o)
  <2>1. CASE MayRetry(task[o].retry_count + 1)
    <3> DEFINE t == [task[o] EXCEPT !.retry_count = task[o].retry_count + 1]
    <3>1. /\ task' = [task EXCEPT ![o] = t] /\ CallHandler(o) /\ outcomes' = outcomes
          /\ task[o].pc = "handler"
      BY <1>4, <2>1 DEF HandlerRaises
    <3>2. t \in Task /\ t.pc = task[o].pc /\ t.retry_count = task[o].retry_count + 1
      BY <1>0, <1>r, <3>1 DEF Task
    <3>3. t.retry_count < conf.attempts
      BY <2>1, <3>2 DEF MayRetry
    <3> HIDE DEF t
    <3> QED BY <1>0, <1>4, <1>a, <3>1, <3>2, <3>3, TriesShape DEF HandlerRaises
  <2>2. CASE ~MayRetry(task[o].retry_count + 1)
    BY <1>4, <1>a, <1>r, <2>2, FailureShape DEF HandlerRaises
  <2> QED BY <2>1, <2>2
<1>5. CASE SendToDlq(o)
  <2>1. "deadlettered" \in Outcomes
    BY DEF Outcomes
  <2> QED BY <1>5, <1>a, <2>1, ConcludesShape DEF SendToDlq
<1>6. CASE SendToDlqFails(o)
  <2>1. /\ outcomes' \in [Offsets -> SUBSET Outcomes] /\ outcomes[o] \subseteq outcomes'[o]
        /\ \A p \in Offsets \ {o} : outcomes'[p] = outcomes[p]
    <3>1. "deadlettered" \in Outcomes
      BY DEF Outcomes
    <3> QED BY <1>6, <3>1, Concluded, Types DEF SendToDlqFails
  <2>2. faults' = faults + 1 /\ faults' <= MaxFaults
    BY <1>6, Types, ConfTyped DEF SendToDlqFails
  <2>3. /\ task' \in [Offsets -> Task] /\ task'[o].pc = "done"
        /\ \A p \in Offsets \ {o} : task'[p] = task[p]
    BY <1>6, TaskEnds DEF SendToDlqFails
  <2>4. Ends(o)
    BY <1>6, <2>2, <2>3 DEF Ends, SendToDlqFails
  <2> QED BY <1>6, <1>a, <2>1, <2>2, <2>3, <2>4, Types DEF Shape, SendToDlqFails
<1> QED BY <1>1, <1>2, <1>3, <1>4, <1>5, <1>6 DEF Step

----------------------------------------------------------------------------
(* Types.                                                                   *)

\* A rebalance keeps the types, and the position it leaves is committed.
LEMMA RebalanceType ==
  ASSUME TypeInv, NEW M \in SUBSET {"main", "subscription"}, Rebalance(M)
  PROVE  /\ owner' \in {"main", "subscription"} /\ committed' \in 1..NumMessages + 1
         /\ position' \in 1..NumMessages + 1 /\ faults' \in 0..MaxFaults
         /\ committed' = position'
         /\ \/ position' = position /\ faults' = faults
            \/ position' = committed /\ faults' = faults + 1
  BY Types, ConfTyped DEF Rebalance

\* No task is left of a process that is gone.
LEMMA VanishType ==
  ASSUME TypeInv, Vanish, conf' = conf
  PROVE  /\ task' \in [Offsets -> Task] /\ \A o \in Offsets : task'[o].pc = "idle"
         /\ proc' = "down" /\ sub' = "none" /\ owner' = "main"
<1>1. NoTasks \in [Offsets -> Task] /\ \A o \in Offsets : NoTasks[o].pc = "idle"
  BY Types, ConfTyped DEF NoTasks, Task, TaskPcs
<1> QED BY <1>1 DEF Vanish

\* Every step of the process, a task and the broker keeps the types.
LEMMA TypeInvStep == TypeInv /\ [Next]_vars => TypeInv'
<1> SUFFICES ASSUME TypeInv, [Next]_vars PROVE TypeInv'
  OBVIOUS
<1> USE DEF settings, subscription, bounds
<1>0. /\ conf.attempts \in Nat \ {0} /\ NumMessages \in Nat \ {0}
      /\ MaxRestarts \in Nat /\ MaxFaults \in Nat
  BY Types, ConfTyped
<1>t. TypeOK /\ RetryInv
  BY DEF TypeInv
<1>1. CASE Start \/ AutoCommit \/ Stop \/ UNCHANGED vars
  BY <1>0, <1>t, <1>1 DEF Start, AutoCommit, Stop, vars, TypeInv, TypeOK, RetryInv
<1>2. CASE Poll
  <2>0. position \in Offsets
    BY <1>0, <1>2, Types DEF Poll
  <2>1. [pc |-> "waiting", retry_count |-> 0] \in Task
    BY <1>0 DEF Task, TaskPcs
  <2>2. /\ task' \in [Offsets -> Task] /\ task'[position] = [pc |-> "waiting", retry_count |-> 0]
        /\ \A p \in Offsets \ {position} : task'[p] = task[p]
    BY <1>2, <2>0, <2>1, TaskSet DEF Poll
  <2>3. RetryInv'
    BY <1>0, <1>2, <1>t, <2>0, <2>2 DEF RetryInv, Poll
  <2>4. position' \in 1..NumMessages + 1
    BY <1>0, <1>2, Types DEF Poll
  <2> QED BY <1>2, <1>t, <2>2, <2>3, <2>4 DEF Poll, TypeInv, TypeOK, Task
<1>3. CASE Exit \/ Crash
  <2>1. /\ task' \in [Offsets -> Task] /\ \A o \in Offsets : task'[o].pc = "idle"
        /\ proc' = "down" /\ sub' = "none" /\ owner' = "main"
    BY <1>3, VanishType DEF Exit, Crash
  <2>2. RetryInv'
    BY <2>1 DEF RetryInv
  <2>3. committed' \in 1..NumMessages + 1 /\ restarts' \in 0..MaxRestarts
    BY <1>0, <1>3, Types DEF Exit, Crash
  <2> QED BY <1>3, <1>t, <2>1, <2>2, <2>3 DEF Exit, Crash, TypeInv, TypeOK, Task
<1>4. CASE Subscribe
  <2>1. /\ owner' \in {"main", "subscription"} /\ committed' \in 1..NumMessages + 1
        /\ position' \in 1..NumMessages + 1 /\ faults' \in 0..MaxFaults
    BY <1>4, RebalanceType DEF Subscribe
  <2> QED BY <1>4, <1>t, <2>1 DEF Subscribe, TypeInv, TypeOK, RetryInv
<1>5. CASE SubscriptionPoll
  <2>0. position \in Offsets /\ "subscriber" \in Outcomes
    BY <1>0, <1>5, Types DEF SubscriptionPoll, Outcomes
  <2>1. position' \in 1..NumMessages + 1 /\ outcomes' \in [Offsets -> SUBSET Outcomes]
    BY <1>0, <1>5, <2>0, Types, Concluded DEF SubscriptionPoll
  <2> QED BY <1>5, <1>t, <2>1 DEF SubscriptionPoll, TypeInv, TypeOK, RetryInv
<1>6. CASE Unsubscribe
  <2>1. /\ owner' \in {"main", "subscription"} /\ committed' \in 1..NumMessages + 1
        /\ position' \in 1..NumMessages + 1 /\ faults' \in 0..MaxFaults
    <3>1. CASE Rebalance({"main"})
      BY <3>1, RebalanceType
    <3> QED BY <1>0, <1>6, <3>1, Types DEF Unsubscribe
  <2> QED BY <1>6, <1>t, <2>1 DEF Unsubscribe, TypeInv, TypeOK, RetryInv
<1>7. ASSUME NEW o \in Offsets, Step(o) PROVE TypeInv'
  <2>1. Shape(o)
    BY <1>7, StepShape
  <2>2. RetryInv'
    BY <1>0, <2>1, <1>t DEF Shape, Ends, Gives, Tries, RetryInv
  <2>3. faults' \in 0..MaxFaults
    BY <1>0, <2>1, Types DEF Shape
  <2> QED BY <1>t, <2>1, <2>2, <2>3 DEF Shape, TypeInv, TypeOK, Task
<1> QED BY <1>1, <1>2, <1>3, <1>4, <1>5, <1>6, <1>7 DEF Next

\* Types hold throughout.
LEMMA TypesHold == Spec => []TypeInv
  BY TypeInvInit, TypeInvStep, PTL DEF Spec

\* Type correctness of the consumer, the count of attempts included.
THEOREM ConsumerTypeCorrect == Spec => []TypeOK
  BY TypesHold, PTL DEF TypeInv

\* A handler that raises until its attempts are used up has failed often enough
\* for the dead-letter topic, when the policy has RETRY_MAX_RETRIES attempts.
THEOREM RaisedIsDeadLettered == Spec => ExhaustedRetriesAreDeadLettered
<1>1. ASSUME TypeInv, conf.dlq, conf.attempts >= RetryMaxRetries, NEW o \in Offsets, HandlerRaises(o)
      PROVE  outcomes' = outcomes
  <2> DEFINE r == task[o].retry_count + 1
  <2>1. r \in Nat /\ conf.attempts \in Nat /\ RetryMaxRetries \in Nat
    BY <1>1, Types, ConfTyped, SMTT(30)
  <2>2. CASE MayRetry(r)
    BY <1>1, <2>2 DEF HandlerRaises
  <2>3. CASE ~MayRetry(r)
    <3>1. Exhausted(r)
      BY <1>1, <2>1, <2>3 DEF MayRetry, Exhausted
    <3> QED BY <1>1, <2>3, <3>1 DEF HandlerRaises, Failure
  <2> QED BY <2>2, <2>3
<1>2. TypeInv /\ [Next]_vars =>
        [conf.dlq /\ conf.attempts >= RetryMaxRetries =>
            \A o \in Offsets : HandlerRaises(o) => outcomes' = outcomes]_vars
  BY <1>1
<1> QED BY <1>2, TypesHold, PTL DEF Spec, ExhaustedRetriesAreDeadLettered

----------------------------------------------------------------------------
(* Messages lost.                                                           *)

\* Lives that have ended, and faults: a shutdown is counted when it is over.
Ended == restarts + faults - IF proc = "stopping" THEN 1 ELSE 0

\* A process that is down has no task, one that runs has not committed past its
\* position; with one worker there is one message in work, and each end of a
\* life and each fault has cost one message at most.
LossInv ==
    /\ proc = "down" => Active = {}
    /\ proc # "down" => committed <= position
    /\ Sequential => /\ \A a, b \in Active : a = b
                     /\ Cardinality(Lost) <= Ended

\* Sets of messages are finite; one message more is one more.
LEMMA CountMessages ==
  ASSUME TypeInv, NEW S \in SUBSET Offsets, NEW T \in SUBSET Offsets
  PROVE  /\ Cardinality(S) \in Nat /\ Cardinality(T) \in Nat
         /\ T \subseteq S => Cardinality(T) <= Cardinality(S)
         /\ \A x : T \subseteq S \union {x} => Cardinality(T) <= Cardinality(S) + 1
<1>1. IsFiniteSet(Offsets)
  BY Types, ConfTyped, FS_Interval
<1>2. IsFiniteSet(S) /\ IsFiniteSet(T)
  BY <1>1, FS_Subset
<1>3. Cardinality(S) \in Nat /\ Cardinality(T) \in Nat
  BY <1>2, FS_CardinalityType
<1>4. T \subseteq S => Cardinality(T) <= Cardinality(S)
  BY <1>2, FS_Subset
<1>5. ASSUME NEW x, T \subseteq S \union {x} PROVE Cardinality(T) <= Cardinality(S) + 1
  <2>1. IsFiniteSet(S \union {x}) /\ Cardinality(S \union {x}) \in {Cardinality(S), Cardinality(S) + 1}
    BY <1>2, <1>3, FS_AddElement
  <2>2. Cardinality(T) <= Cardinality(S \union {x})
    BY <1>5, <2>1, FS_Subset
  <2> QED BY <1>3, <2>1, <2>2
<1> QED BY <1>3, <1>4, <1>5

\* At most one message more is lost when one more life or fault is counted.
LEMMA LossStep ==
  ASSUME TypeInv, TypeInv', Sequential, Cardinality(Lost) <= Ended,
         \/ Lost' \subseteq Lost /\ Ended' >= Ended
         \/ (\E x : Lost' \subseteq Lost \union {x}) /\ Ended' >= Ended + 1
  PROVE  Cardinality(Lost') <= Ended'
<1>1. Lost \in SUBSET Offsets /\ Lost' \in SUBSET Offsets
  BY DEF Lost, Offsets
<1>2. Ended \in Int /\ Ended' \in Int
  <2>1. TypeOK /\ TypeOK'
    BY DEF TypeInv
  <2>2. restarts \in Int /\ faults \in Int /\ restarts' \in Int /\ faults' \in Int
    BY <2>1 DEF TypeOK
  <2> QED BY <2>2 DEF Ended
<1> DEFINE l == Cardinality(Lost)
           m == Cardinality(Lost')
<1>3. l \in Nat /\ m \in Nat /\ l <= Ended
  BY <1>1, CountMessages
<1>4. \/ m <= l /\ Ended' >= Ended
      \/ m <= l + 1 /\ Ended' >= Ended + 1
  BY <1>1, CountMessages
<1> HIDE DEF l, m
<1>5. m <= Ended'
  BY <1>2, <1>3, <1>4
<1> QED BY <1>5 DEF m

\* A message lost after a step was lost before it, when the step only takes
\* messages that it concludes or has in work.
LEMMA LostBefore ==
  ASSUME TypeInv, Past \in Nat, Past' \in Nat, NEW X,
         \A p \in Offsets \ X : /\ p < Past' => p < Past
                                /\ p \notin Active' => p \notin Active
                                /\ outcomes'[p] = {} => outcomes[p] = {}
  PROVE  Lost' \subseteq Lost \union (X \intersect Lost')
<1> SUFFICES ASSUME NEW p \in Lost', p \notin X PROVE p \in Lost
  OBVIOUS
<1>1. p \in Offsets \ X /\ p < Past' /\ p \notin Active' /\ outcomes'[p] = {}
  BY DEF Lost, Offsets
<1> QED BY <1>1 DEF Lost

\* No message is in work or lost at the start.
LEMMA LossInvInit == Init => LossInv
<1> SUFFICES ASSUME Init PROVE LossInv
  OBVIOUS
<1>1. Active = {} /\ Lost = {}
  BY ConfTyped DEF Init, Active, NoTasks, Lost, Past, Offsets
<1>2. Cardinality(Lost) = 0
  BY <1>1, FS_EmptySet
<1> QED BY <1>1, <1>2 DEF LossInv, Init, Ended

\* The steps that end no life and lose no message.
LEMMA LossInvQuiet ==
  ASSUME TypeInv, TypeInv', LossInv, conf' = conf, Active' = Active, Lost' \subseteq Lost,
         Ended' >= Ended, proc' = "down" => proc = "down",
         proc' # "down" => committed' <= position'
  PROVE  LossInv'
<1>1. proc' = "down" => Active' = {}
  BY DEF LossInv
<1>2. ASSUME Sequential PROVE (\A a, b \in Active' : a = b) /\ Cardinality(Lost') <= Ended'
  BY <1>2, LossStep DEF LossInv
<1>3. Sequential' <=> Sequential
  BY DEF Sequential
<1> QED BY <1>1, <1>2, <1>3 DEF LossInv

\* Every step keeps the account of lost messages.
LEMMA LossInvStep == TypeInv /\ TypeInv' /\ LossInv /\ [Next]_vars => LossInv'
<1> SUFFICES ASSUME TypeInv, TypeInv', LossInv, [Next]_vars PROVE LossInv'
  OBVIOUS
<1> USE DEF settings, subscription, bounds
<1>0. /\ committed \in Nat /\ position \in Nat /\ restarts \in Nat /\ faults \in Nat
      /\ Offsets \subseteq Nat /\ NumMessages \in Nat
      /\ proc = "down" => Active = {}
      /\ proc # "down" => committed <= position
  BY Types, ConfTyped DEF LossInv
<1>1. CASE Start
  <2>1. Active' = Active /\ Lost' = Lost /\ Ended' = Ended
    BY <1>1 DEF Start, Active, Lost, Past, Ended
  <2>2. Ended \in Int
    BY <1>0 DEF Ended
  <2> QED BY <1>0, <1>1, <2>1, <2>2, LossInvQuiet DEF Start
<1>2. CASE AutoCommit
  <2>1. Active' = Active /\ Lost' = Lost /\ Ended' = Ended
    BY <1>2 DEF AutoCommit, Active, Lost, Past, Ended
  <2>2. Ended \in Int
    BY <1>0 DEF Ended
  <2> QED BY <1>0, <1>2, <2>1, <2>2, LossInvQuiet DEF AutoCommit
<1>3. CASE Stop
  <2>1. Active' = Active /\ Lost' = Lost
    BY <1>3 DEF Stop, Active, Lost, Past
  <2>2. Ended' >= Ended
    BY <1>0, <1>3 DEF Stop, Ended
  <2> QED BY <1>0, <1>3, <2>1, <2>2, LossInvQuiet DEF Stop
<1>4. CASE UNCHANGED vars
  <2>1. Active' = Active /\ Lost' = Lost /\ Ended' = Ended
    BY <1>4 DEF vars, Active, Lost, Past, Ended
  <2>2. Ended \in Int
    BY <1>0 DEF Ended
  <2> QED BY <1>0, <1>4, <2>1, <2>2, LossInvQuiet DEF vars
<1>5. CASE Poll
  <2>0. position \in Offsets /\ position' = position + 1
    BY <1>0, <1>5, Types DEF Poll
  <2>1. Active' = Active \union {position}
    BY <1>5, <2>0, Types DEF Poll, Active
  <2>2. Lost' \subseteq Lost
    <3>1. Past = position /\ Past' = position + 1 /\ outcomes' = outcomes
      BY <1>5, <2>0 DEF Poll, Past
    <3>2. \A p \in Offsets \ {position} : p < position + 1 => p < position
      BY <1>0
    <3>3. position + 1 \in Nat
      BY <1>0
    <3>4. Lost' \subseteq Lost \union ({position} \intersect Lost')
      BY <1>0, <2>1, <3>1, <3>2, <3>3, LostBefore
    <3> QED BY <2>1, <3>4 DEF Lost
  <2>3. Ended' = Ended /\ Ended \in Int
    BY <1>0, <1>5 DEF Poll, Ended
  <2>4. ASSUME Sequential PROVE (\A a, b \in Active' : a = b) /\ Cardinality(Lost') <= Ended'
    <3>1. Active = {}
      BY <1>5, <2>4 DEF Poll, LoopReady
    <3> QED BY <2>1, <2>2, <2>3, <2>4, <3>1, LossStep DEF LossInv
  <2>5. proc' # "down" /\ committed' <= position'
    BY <1>0, <1>5, <2>0 DEF Poll
  <2> QED BY <1>5, <2>4, <2>5 DEF LossInv, Poll, Sequential
<1>6. CASE Exit \/ Crash
  <2>1. (\A o \in Offsets : task'[o].pc = "idle") /\ proc' = "down" /\ conf' = conf /\ outcomes' = outcomes
    BY <1>6, VanishType DEF Exit, Crash
  <2>2. Active' = {}
    BY <2>1 DEF Active, Offsets
  <2>3. committed' \in Nat /\ committed' <= position
    BY <1>0, <1>6 DEF Exit, Crash
  <2>4. Lost' \subseteq Lost \union Active
    <3>1. Past = position
      BY <1>6 DEF Exit, Crash, Past
    <3>2. Past' = committed'
      BY <2>1 DEF Past
    <3>3. Lost' \subseteq Lost \union (Active \intersect Lost')
      BY <1>0, <2>1, <2>3, <3>1, <3>2, LostBefore
    <3> QED BY <3>3
  <2>5. Ended' >= Ended + 1
    BY <1>0, <1>6, <2>1 DEF Exit, Crash, Ended
  <2>6. ASSUME Sequential PROVE Cardinality(Lost') <= Ended'
    <3>1. \E x : Active \subseteq {x}
      BY <2>6 DEF LossInv
    <3>2. \E x : Lost' \subseteq Lost \union {x}
      BY <2>4, <3>1
    <3> QED BY <2>5, <2>6, <3>2, LossStep DEF LossInv
  <2> QED BY <2>1, <2>2, <2>6 DEF LossInv, Sequential
<1>7. CASE Subscribe \/ Unsubscribe
  <2>1. /\ committed' <= position' /\ position' <= position /\ position' \in Nat
        /\ faults' >= faults /\ faults' \in Nat
    <3>1. CASE Subscribe
      BY <1>0, <3>1, RebalanceType DEF Subscribe
    <3>2. CASE Unsubscribe
      <4>1. CASE Rebalance({"main"})
        BY <1>0, <3>2, <4>1, RebalanceType DEF Unsubscribe
      <4> QED BY <1>0, <3>2, <4>1 DEF Unsubscribe
    <3> QED BY <1>7, <3>1, <3>2
  <2>2. Active' = Active
    BY <1>7 DEF Subscribe, Unsubscribe, Active
  <2>3. Lost' \subseteq Lost
    <3>1. Past = position /\ Past' = position' /\ outcomes' = outcomes
      BY <1>7 DEF Subscribe, Unsubscribe, Past
    <3>2. Past \in Nat /\ Past' \in Nat
      BY <1>0, <2>1, <3>1
    <3>3. \A p \in Offsets : p < Past' => p < Past
      BY <1>0, <2>1, <3>1 DEF Offsets
    <3>4. Lost' \subseteq Lost \union ({} \intersect Lost')
      BY <2>2, <3>1, <3>2, <3>3, LostBefore
    <3> QED BY <3>4
  <2>4. Ended' >= Ended
    BY <1>0, <1>7, <2>1 DEF Subscribe, Unsubscribe, Ended
  <2> QED BY <1>7, <2>1, <2>2, <2>3, <2>4, LossInvQuiet DEF Subscribe, Unsubscribe
<1>8. CASE SubscriptionPoll
  <2>0. position \in Offsets /\ position' = position + 1 /\ "subscriber" \in Outcomes
    BY <1>0, <1>8, Types DEF SubscriptionPoll, Outcomes
  <2>1. Active' = Active
    BY <1>8 DEF SubscriptionPoll, Active
  <2>2. outcomes'[position] # {} /\ \A p \in Offsets \ {position} : outcomes'[p] = outcomes[p]
    BY <1>8, <2>0, Concluded DEF SubscriptionPoll
  <2>3. Lost' \subseteq Lost
    <3>1. Past = position /\ Past' = position + 1
      BY <1>8, <2>0 DEF SubscriptionPoll, Past
    <3>2. \A p \in Offsets \ {position} : p < position + 1 => p < position
      BY <1>0
    <3>3. position + 1 \in Nat
      BY <1>0
    <3>4. Lost' \subseteq Lost \union ({position} \intersect Lost')
      BY <1>0, <2>1, <2>2, <3>1, <3>2, <3>3, LostBefore
    <3> QED BY <2>2, <3>4 DEF Lost
  <2>4. Ended' = Ended /\ Ended \in Int
    BY <1>0, <1>8 DEF SubscriptionPoll, Ended
  <2>5. committed' <= position'
    BY <1>0, <1>8, <2>0 DEF SubscriptionPoll
  <2> QED BY <1>8, <2>1, <2>3, <2>4, <2>5, LossInvQuiet DEF SubscriptionPoll
<1>9. ASSUME NEW o \in Offsets, Step(o) PROVE LossInv'
  <2>1. Shape(o)
    BY <1>9, StepShape
  <2>2. Active' \subseteq Active
    BY <2>1 DEF Shape, Active
  <2>3. Past' = Past /\ faults' \in Nat
    BY <1>0, <2>1 DEF Shape, Past
  <2>4. Ended' >= Ended /\ (faults' = faults + 1 => Ended' >= Ended + 1)
    <3>1. restarts' = restarts /\ proc' = proc /\ faults' \in {faults, faults + 1}
      BY <2>1 DEF Shape
    <3> DEFINE d == IF proc = "stopping" THEN 1 ELSE 0
    <3>2. d \in Nat /\ Ended = restarts + faults - d /\ Ended' = restarts + faults' - d
      BY <3>1 DEF Ended
    <3> HIDE DEF d
    <3>3. restarts \in Nat /\ faults \in Nat /\ (faults' = faults \/ faults' = faults + 1)
      BY <1>0, <3>1
    <3> QED BY <3>2, <3>3
  <2>5. Lost' \subseteq Lost \/ (Lost' \subseteq Lost \union {o} /\ faults' = faults + 1)
    <3>1. o \in Active' \/ outcomes'[o] # {} \/ faults' = faults + 1
      BY <2>1 DEF Shape, Ends, Gives, Tries, Active
    <3>2. \A p \in Offsets \ {o} : p \in Lost' => p \in Lost
      BY <2>1, <2>3 DEF Shape, Lost, Active
    <3>3. Lost' \subseteq Offsets
      BY DEF Lost, Offsets
    <3>4. o \in Active' \/ outcomes'[o] # {} => o \notin Lost'
      BY DEF Lost
    <3> QED BY <3>1, <3>2, <3>3, <3>4
  <2>6. ASSUME Sequential PROVE Cardinality(Lost') <= Ended'
    BY <2>4, <2>5, <2>6, LossStep DEF LossInv
  <2> QED BY <2>1, <2>2, <2>6 DEF LossInv, Shape, Sequential
<1> QED BY <1>1, <1>2, <1>3, <1>4, <1>5, <1>6, <1>7, <1>8, <1>9 DEF Next

\* The account of lost messages is right throughout.
LEMMA LossHolds == Spec => []LossInv
  BY TypesHold, LossInvInit, LossInvStep, PTL DEF Spec

\* With one worker, automatic commits cost at most one message for each crash,
\* shutdown and fault, however these interleave with handling and rebalances.
THEOREM LossStaysBounded == Spec => []LossIsBounded
<1>1. TypeInv /\ LossInv => LossIsBounded
  <2> SUFFICES ASSUME TypeInv, LossInv, Sequential PROVE Cardinality(Lost) <= restarts + faults
    BY DEF LossIsBounded
  <2>1. Lost \in SUBSET Offsets
    BY DEF Lost
  <2>2. Cardinality(Lost) \in Nat /\ restarts \in Nat /\ faults \in Nat
    <3>1. Cardinality(Lost) \in Nat
      BY <2>1, CountMessages
    <3> QED BY <3>1, Types, ConfTyped
  <2>3. Cardinality(Lost) <= Ended
    BY DEF LossInv
  <2> QED BY <2>2, <2>3 DEF Ended
<1> QED BY <1>1, TypesHold, LossHolds, PTL

----------------------------------------------------------------------------
(* Calls of a handler.                                                      *)

\* Calls a delivery has had at most: none before it begins, one and one for
\* each failure in the handler, all of its attempts when it is over.
Spent(o) ==
    IF task[o].pc = "waiting" THEN 0
    ELSE IF task[o].pc = "handler" THEN task[o].retry_count + 1 ELSE conf.attempts

\* A message that is (again) ahead of the position has a delivery to come.
Ahead(o) == IF position <= o THEN conf.attempts ELSE 0

\* The attempts of the deliveries that ended lives and faults allow.
Allowed == conf.attempts * Ended

CallsInv ==
    \A o \in Offsets :
        /\ proc = "down" => calls[o] <= Allowed
        /\ proc # "down" => calls[o] + Ahead(o) <= Allowed + Spent(o)

\* One more life allows all attempts once more, and none takes any back.
LEMMA Multiples ==
  ASSUME NEW a \in Nat, NEW d \in Int, NEW e \in Int
  PROVE  /\ a * d \in Int /\ a * e \in Int
         /\ d <= e => a * d <= a * e
         /\ d + 1 <= e => a * d + a <= a * e
<1>1. a * d \in Int /\ a * e \in Int /\ a * (e - d) \in Int /\ a * e = a * d + a * (e - d)
  BY SMT
<1>2. e - d >= 0 => a * (e - d) >= 0
  BY SMT
<1>3. e - d >= 1 => a * (e - d) >= a
  <2> DEFINE f == e - d - 1
  <2>1. f \in Int /\ a * (e - d) = a * f + a
    BY SMT
  <2>2. f >= 0 => a * f >= 0
    BY <2>1, SMT
  <2> QED BY <2>1, <2>2
<1> DEFINE x == a * d
           y == a * e
           z == a * (e - d)
<1> HIDE DEF x, y, z
<1>4. x \in Int /\ y \in Int /\ z \in Int /\ y = x + z /\ (e - d >= 0 => z >= 0) /\ (e - d >= 1 => z >= a)
  BY <1>1, <1>2, <1>3 DEF x, y, z
<1>5. (d <= e => x <= y) /\ (d + 1 <= e => x + a <= y)
  BY <1>4
<1> QED BY <1>1, <1>5 DEF x, y

\* The numbers of the account.
LEMMA CallsTypes ==
  ASSUME TypeInv
  PROVE  /\ conf.attempts \in Nat \ {0} /\ Ended \in Int /\ Allowed \in Int
         /\ \A o \in Offsets : /\ calls[o] \in Nat /\ o \in Nat /\ Spent(o) \in 0..conf.attempts
                               /\ Ahead(o) \in {0, conf.attempts}
<1>1. /\ conf.attempts \in Nat \ {0} /\ restarts \in Nat /\ faults \in Nat /\ position \in Nat
      /\ \A o \in Offsets : /\ calls[o] \in Nat /\ o \in Nat /\ task[o].retry_count \in Nat
                            /\ task[o].pc = "handler" => task[o].retry_count < conf.attempts
  BY Types, ConfTyped
<1>2. Ended \in Int
  BY <1>1 DEF Ended
<1>3. Allowed \in Int
  BY <1>1, <1>2, Multiples DEF Allowed
<1>4. \A o \in Offsets : Spent(o) \in 0..conf.attempts /\ Ahead(o) \in {0, conf.attempts}
  BY <1>1 DEF Spent, Ahead
<1> QED BY <1>1, <1>2, <1>3, <1>4

\* What a step that counts lives or faults does to the allowance.
LEMMA AllowedGrows ==
  ASSUME TypeInv, TypeInv', conf' = conf
  PROVE  /\ Allowed' \in Int /\ \A o \in Offsets : Ahead(o)' \in {0, conf.attempts}
         /\ Ended' >= Ended => Allowed' >= Allowed
         /\ Ended' >= Ended + 1 => Allowed' >= Allowed + conf.attempts
<1>1. conf.attempts \in Nat /\ Ended \in Int /\ Allowed \in Int
  BY CallsTypes
<1>2. Ended' \in Int
  <2>1. restarts' \in Int /\ faults' \in Int
    BY DEF TypeInv, TypeOK
  <2> QED BY <2>1 DEF Ended
<1> DEFINE a == conf.attempts
           d == Ended
           e == Ended'
<1>3. Allowed = a * d /\ Allowed' = a * e
  BY DEF Allowed
<1> HIDE DEF a, d, e
<1>4. /\ d <= e => a * d <= a * e
      /\ d + 1 <= e => a * d + a <= a * e
      /\ a * d \in Int /\ a * e \in Int
  BY <1>1, <1>2, Multiples DEF a, d, e
<1>5. \A o \in Offsets : Ahead(o)' \in {0, conf.attempts}
  BY DEF Ahead
<1> QED BY <1>1, <1>2, <1>3, <1>4, <1>5 DEF a, d, e

\* Steps that leave the calls, the tasks and the position of messages alone, or
\* take a message away from what is ahead without a call.
LEMMA CallsInvQuiet ==
  ASSUME TypeInv, TypeInv', CallsInv, conf' = conf, calls' = calls, proc # "down", proc' # "down",
         \A o \in Offsets : Spent(o)' = Spent(o) /\ Ahead(o)' <= Ahead(o),
         Ended' >= Ended
  PROVE  CallsInv'
<1> SUFFICES ASSUME NEW o \in Offsets PROVE calls'[o] + Ahead(o)' <= Allowed' + Spent(o)'
  BY DEF CallsInv, Offsets
<1>1. /\ calls[o] \in Nat /\ Spent(o) \in Nat /\ Ahead(o) \in Nat /\ Allowed \in Int
      /\ calls[o] + Ahead(o) <= Allowed + Spent(o)
  BY CallsTypes DEF CallsInv
<1>2. Allowed' \in Int /\ Allowed' >= Allowed
  BY AllowedGrows
<1>3. Ahead(o)' \in Nat
  BY AllowedGrows, CallsTypes
<1>4. Spent(o)' = Spent(o) /\ Ahead(o)' <= Ahead(o) /\ calls'[o] = calls[o]
  OBVIOUS
<1> QED BY <1>1, <1>2, <1>3, <1>4

\* No call has been made at the start.
LEMMA CallsInvInit == Init => CallsInv
<1> SUFFICES ASSUME Init PROVE CallsInv
  OBVIOUS
<1>1. conf.attempts \in Nat /\ Ended = 0
  BY ConfTyped DEF Init, Ended
<1>2. Allowed = 0
  BY <1>1 DEF Allowed
<1> QED BY <1>2 DEF CallsInv, Init

\* Every step keeps the account of calls.
LEMMA CallsInvStep == TypeInv /\ TypeInv' /\ LossInv /\ CallsInv /\ [Next]_vars => CallsInv'
<1> SUFFICES ASSUME TypeInv, TypeInv', LossInv, CallsInv, [Next]_vars PROVE CallsInv'
  OBVIOUS
<1> USE DEF settings, subscription, bounds
<1>0. /\ committed \in Nat /\ position \in Nat /\ restarts \in Nat /\ faults \in Nat
      /\ Offsets \subseteq Nat /\ NumMessages \in Nat /\ conf.attempts \in Nat
      /\ Ended \in Int /\ Allowed \in Int
      /\ proc = "down" => Active = {}
      /\ proc # "down" => committed <= position
  BY Types, ConfTyped, CallsTypes DEF LossInv
<1>1. CASE Start
  <2> SUFFICES ASSUME NEW o \in Offsets PROVE calls'[o] + Ahead(o)' <= Allowed' + Spent(o)'
    BY <1>1 DEF CallsInv, Offsets, Start
  <2>1. calls' = calls /\ calls[o] <= Allowed /\ Allowed' = Allowed /\ calls[o] \in Nat
    BY <1>1, CallsTypes DEF Start, CallsInv, Allowed, Ended
  <2>2. task'[o].pc \notin {"waiting", "handler"}
    BY <1>0, <1>1 DEF Start, Active
  <2>3. Spent(o)' = conf.attempts
    BY <1>1, <2>2 DEF Start, Spent
  <2>4. Ahead(o)' \in {0, conf.attempts}
    BY <1>1, AllowedGrows DEF Start
  <2> QED BY <1>0, <2>1, <2>3, <2>4
<1>2. CASE AutoCommit \/ Stop \/ UNCHANGED vars
  <2>1. CASE proc = "down"
    BY <1>2, <2>1 DEF AutoCommit, Stop, vars, CallsInv, Allowed, Ended
  <2>2. CASE proc # "down"
    <3>1. \A o \in Offsets : Spent(o)' = Spent(o) /\ Ahead(o)' = Ahead(o)
      BY <1>2 DEF AutoCommit, Stop, vars, Spent, Ahead
    <3>2. Ended' >= Ended
      BY <1>0, <1>2 DEF AutoCommit, Stop, vars, Ended
    <3>3. \A o \in Offsets : Ahead(o) \in Nat
      BY CallsTypes
    <3>4. conf' = conf /\ calls' = calls /\ proc' # "down"
      BY <1>2, <2>2 DEF AutoCommit, Stop, vars
    <3> QED BY <2>2, <3>1, <3>2, <3>3, <3>4, CallsInvQuiet
  <2> QED BY <2>1, <2>2
<1>3. CASE Poll
  <2> SUFFICES ASSUME NEW o \in Offsets PROVE calls'[o] + Ahead(o)' <= Allowed' + Spent(o)'
    BY <1>3 DEF CallsInv, Offsets, Poll
  <2>0. position \in Offsets /\ position' = position + 1 /\ conf' = conf /\ calls' = calls
    BY <1>0, <1>3, Types DEF Poll
  <2>1. /\ calls[o] \in Nat /\ Spent(o) \in 0..conf.attempts /\ Ahead(o) \in {0, conf.attempts}
        /\ calls[o] + Ahead(o) <= Allowed + Spent(o)
    BY <1>3, CallsTypes DEF CallsInv, Poll
  <2>2. Allowed' = Allowed
    BY <1>3 DEF Poll, Allowed, Ended
  <2>3. CASE o = position
    <3>1. Ahead(o) = conf.attempts /\ Ahead(o)' = 0
      BY <1>0, <2>0, <2>3 DEF Ahead
    <3>2. task'[o].pc = "waiting"
      BY <1>3, <2>3, Types DEF Poll
    <3>3. Spent(o)' = 0
      BY <3>2 DEF Spent
    <3> QED BY <1>0, <2>0, <2>1, <2>2, <3>1, <3>3
  <2>4. CASE o # position
    <3>1. Ahead(o)' = Ahead(o)
      BY <1>0, <2>0, <2>4 DEF Ahead
    <3>2. task'[o] = task[o]
      BY <1>3, <2>0, <2>4, Types DEF Poll
    <3>3. Spent(o)' = Spent(o)
      BY <2>0, <3>2 DEF Spent
    <3> QED BY <1>0, <2>0, <2>1, <2>2, <3>1, <3>3
  <2> QED BY <2>3, <2>4
<1>4. CASE Exit \/ Crash
  <2> SUFFICES ASSUME NEW o \in Offsets PROVE calls'[o] <= Allowed'
    BY <1>4 DEF CallsInv, Offsets, Exit, Crash, Vanish
  <2>1. /\ calls[o] \in Nat /\ Spent(o) \in 0..conf.attempts /\ Ahead(o) \in {0, conf.attempts}
        /\ calls[o] + Ahead(o) <= Allowed + Spent(o)
    BY <1>4, CallsTypes DEF CallsInv, Exit, Crash
  <2>2. Ended' >= Ended + 1
    BY <1>0, <1>4 DEF Exit, Crash, Vanish, Ended
  <2>3. conf' = conf /\ calls' = calls
    BY <1>4 DEF Exit, Crash
  <2>4. Allowed' >= Allowed + conf.attempts /\ Allowed' \in Int
    BY <2>2, <2>3, AllowedGrows
  <2> QED BY <1>0, <2>1, <2>3, <2>4
<1>5. CASE Subscribe \/ Unsubscribe
  <2>0. conf' = conf /\ calls' = calls /\ task' = task /\ proc # "down" /\ proc' # "down" /\ restarts' = restarts
        /\ proc' = proc
    BY <1>5 DEF Subscribe, Unsubscribe
  <2>1. \/ position' = position /\ faults' \in {faults, faults + 1}
        \/ position' = committed /\ faults' = faults + 1
    <3>1. CASE Subscribe
      BY <3>1, RebalanceType DEF Subscribe
    <3>2. CASE Unsubscribe
      <4>1. CASE Rebalance({"main"})
        BY <4>1, RebalanceType
      <4> QED BY <3>2, <4>1 DEF Unsubscribe
    <3> QED BY <1>5, <3>1, <3>2
  <2>2. CASE position' = position /\ faults' \in {faults, faults + 1}
    <3>1. \A o \in Offsets : Spent(o)' = Spent(o) /\ Ahead(o)' = Ahead(o) /\ Ahead(o) \in Nat
      BY <2>0, <2>2, CallsTypes DEF Spent, Ahead
    <3>2. Ended' >= Ended
      <4>1. faults' = faults \/ faults' = faults + 1
        BY <2>2
      <4> QED BY <1>0, <2>0, <4>1 DEF Ended
    <3> QED BY <2>0, <3>1, <3>2, CallsInvQuiet
  <2>3. CASE faults' = faults + 1
    <3> SUFFICES ASSUME NEW o \in Offsets PROVE calls'[o] + Ahead(o)' <= Allowed' + Spent(o)'
      BY <2>0 DEF CallsInv, Offsets
    <3>1. /\ calls[o] \in Nat /\ Spent(o) \in 0..conf.attempts /\ Ahead(o) \in {0, conf.attempts}
          /\ calls[o] + Ahead(o) <= Allowed + Spent(o)
      BY <2>0, CallsTypes DEF CallsInv
    <3>2. Ended' >= Ended + 1
      BY <1>0, <2>0, <2>3 DEF Ended
    <3>3. /\ Allowed' >= Allowed + conf.attempts /\ Allowed' \in Int
          /\ Ahead(o)' \in {0, conf.attempts}
      BY <2>0, <3>2, AllowedGrows
    <3>4. Spent(o)' = Spent(o)
      BY <2>0 DEF Spent
    <3> QED BY <1>0, <2>0, <3>1, <3>3, <3>4
  <2> QED BY <2>1, <2>2, <2>3
<1>6. CASE SubscriptionPoll
  <2>1. position' = position + 1 /\ conf' = conf /\ calls' = calls /\ task' = task /\ proc' = proc /\ proc # "down"
    BY <1>6 DEF SubscriptionPoll
  <2>2. \A o \in Offsets : Spent(o)' = Spent(o) /\ Ahead(o)' <= Ahead(o)
    BY <1>0, <2>1 DEF Spent, Ahead
  <2>3. Ended' >= Ended
    BY <1>0, <1>6 DEF SubscriptionPoll, Ended
  <2> QED BY <2>1, <2>2, <2>3, CallsInvQuiet
<1>7. ASSUME NEW o \in Offsets, Step(o) PROVE CallsInv'
  <2>0. Shape(o)
    BY <1>7, StepShape
  <2>1. proc # "down" /\ proc' # "down" /\ conf' = conf /\ position' = position
    BY <1>0, <2>0 DEF Shape
  <2> SUFFICES ASSUME NEW p \in Offsets PROVE calls'[p] + Ahead(p)' <= Allowed' + Spent(p)'
    BY <2>1 DEF CallsInv, Offsets
  <2>2. /\ calls[p] \in Nat /\ Spent(p) \in 0..conf.attempts /\ Ahead(p) \in {0, conf.attempts}
        /\ calls[p] + Ahead(p) <= Allowed + Spent(p)
    BY <2>1, CallsTypes DEF CallsInv
  <2>3. Ended' >= Ended
    <3>1. restarts' = restarts /\ proc' = proc /\ (faults' = faults \/ faults' = faults + 1)
      BY <2>0 DEF Shape
    <3> QED BY <1>0, <3>1 DEF Ended
  <2>4. Allowed' >= Allowed /\ Allowed' \in Int
    BY <2>1, <2>3, AllowedGrows
  <2>5. Ahead(p)' = Ahead(p)
    BY <2>1 DEF Ahead
  <2>6. CASE p # o
    <3>1. task'[p] = task[p] /\ calls'[p] = calls[p]
      BY <2>0, <2>6 DEF Shape
    <3>2. Spent(p)' = Spent(p)
      BY <2>1, <3>1 DEF Spent
    <3> QED BY <1>0, <2>2, <2>4, <2>5, <3>1, <3>2
  <2>7. CASE p = o /\ (Ends(o) \/ Gives(o))
    <3>1. task'[p].pc \in {"done", "dlq"} /\ calls'[p] = calls[p]
      BY <2>7 DEF Ends, Gives
    <3>2. Spent(p)' = conf.attempts
      BY <2>1, <3>1 DEF Spent
    <3> QED BY <1>0, <2>2, <2>4, <2>5, <3>1, <3>2
  <2>8. CASE p = o /\ Tries(o)
    <3>1. calls'[p] = calls[p] + 1
      BY <2>8 DEF Tries
    <3>2. task[p].retry_count \in Nat
      BY Types, ConfTyped
    <3>3. Spent(p)' = Spent(p) + 1
      BY <2>1, <2>8, <3>2 DEF Tries, Spent
    <3> QED BY <1>0, <2>2, <2>4, <2>5, <3>1, <3>3
  <2> QED BY <2>0, <2>6, <2>7, <2>8 DEF Shape
<1> QED BY <1>1, <1>2, <1>3, <1>4, <1>5, <1>6, <1>7 DEF Next

\* The account of calls is right throughout.
LEMMA CallsHold == Spec => []CallsInv
  BY TypesHold, LossHolds, CallsInvInit, CallsInvStep, PTL DEF Spec

\* A handler is called at most max_attempts times for each delivery, and a
\* delivery more needs an ended life or a fault.
THEOREM CallsStayBounded == Spec => []CallsAreBounded
<1>1. TypeInv /\ CallsInv => CallsAreBounded
  <2> SUFFICES ASSUME TypeInv, CallsInv, NEW o \in Offsets
               PROVE  calls[o] <= conf.attempts * (1 + restarts + faults)
    BY DEF CallsAreBounded
  <2>1. /\ conf.attempts \in Nat /\ Ended \in Int /\ Allowed \in Int /\ restarts \in Nat /\ faults \in Nat
        /\ calls[o] \in Nat /\ Spent(o) \in 0..conf.attempts /\ Ahead(o) \in {0, conf.attempts}
    BY CallsTypes, Types, ConfTyped
  <2>2. calls[o] <= Allowed + conf.attempts
    BY <2>1 DEF CallsInv
  <2> DEFINE a == conf.attempts
             n == 1 + restarts + faults
  <2>3. n \in Int /\ Ended + 1 <= n
    BY <2>1 DEF Ended
  <2>4. Allowed + a <= a * n /\ a * n \in Int
    <3> HIDE DEF n
    <3> QED BY <2>1, <2>3, Multiples DEF Allowed
  <2>5. calls[o] <= a * n
    <3> HIDE DEF n
    <3> QED BY <2>1, <2>2, <2>4
  <2> QED BY <2>5
<1> QED BY <1>1, TypesHold, CallsHold, PTL
====
