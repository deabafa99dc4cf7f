---- MODULE OutboxRelay ----
(***************************************************************************)
(* The transactional outbox: producers write rows inside their business    *)
(* transaction (OutboxService), poller workers claim batches of rows with  *)
(* FOR UPDATE SKIP LOCKED, publish them one after the other and mark them  *)
(* (OutboxPoller, OutboxRepository), and a maintenance loop returns rows   *)
(* whose claim has timed out.                                              *)
(*                                                                         *)
(* Time is abstracted to the two comparisons the code makes: `stale` says  *)
(* updated_at < now - processing_timeout, `old` says created_at is outside *)
(* the seven days the fetch looks at.  Events are numbered in the order of *)
(* their created_at, the order in which a batch is fetched and published.  *)
(***************************************************************************)
EXTENDS Integers, FiniteSets

CONSTANTS
    NumEvents,          \* events the producers emit
    BatchSize,          \* OutboxConfig.batch_size
    MaxRetries,         \* OutboxConfig.max_retries
    Procs,              \* outbox_worker processes
    Workers,            \* their worker tasks (concurrent_workers of each)
    ProcOf,             \* ProcOf[w]: the process that runs worker w
    MaxFaults           \* bound: failures, stops and premature timeouts

ASSUME RelayAssumption ==
    /\ NumEvents \in Nat
    /\ BatchSize \in Nat \ {0}
    /\ MaxRetries \in Nat \ {0}
    /\ IsFiniteSet(Workers)
    /\ ProcOf \in [Workers -> Procs]
    /\ MaxFaults \in Nat

Events == 1..NumEvents

VARIABLES
    status,             \* row: OutboxEventTable.status, or its life before
    stale,              \* rows PROCESSING for longer than the timeout
    old,                \* rows with created_at before the seven-day cutoff
    running,            \* processes with OutboxPoller._running
    pc,                 \* worker: where it waits
    todo,               \* worker: rows of the fetched batch still to publish
    broken,             \* workers whose session needs a rollback
    deliveries,         \* history: messages the broker received, per event
    resets,             \* history: claims of the event returned as stale
    failures,           \* history: publishes of the event that raised
    faults              \* bound: faults so far

rowVars == <<status, stale, old>>
workerVars == <<pc, todo, broken>>
histVars == <<deliveries, resets, failures>>
vars == <<rowVars, running, workerVars, histVars, faults>>

OutboxStatus == {"PENDING", "PROCESSING", "PUBLISHED", "FAILED", "DEAD_LETTER"}
RowStates == OutboxStatus \cup {"none", "flushed", "rolled_back"}
PcStates == {"idle", "claiming", "publishing", "marking"}

TypeOK ==
    /\ status \in [Events -> RowStates]
    /\ stale \in SUBSET Events
    /\ old \in SUBSET Events
    /\ running \in SUBSET Procs
    /\ pc \in [Workers -> PcStates]
    /\ todo \in [Workers -> SUBSET Events]
    /\ broken \in SUBSET Workers
    /\ deliveries \in [Events -> Nat]
    /\ resets \in [Events -> Nat]
    /\ failures \in [Events -> Nat]
    /\ faults \in Nat

Init ==
    /\ status = [e \in Events |-> "none"]
    /\ stale = {}
    /\ old = {}
    /\ running = Procs
    /\ pc = [w \in Workers |-> "idle"]
    /\ todo = [w \in Workers |-> {}]
    /\ broken = {}
    /\ deliveries = [e \in Events |-> 0]
    /\ resets = [e \in Events |-> 0]
    /\ failures = [e \in Events |-> 0]
    /\ faults = 0

\* Something goes wrong; MaxFaults bounds how often.
Fault == faults < MaxFaults /\ faults' = faults + 1

----------------------------------------------------------------------------
(* Producers *)

\* Mutant: the row is written with a status that is not one of OutboxStatus.
SaveEventBadStatus(e) ==
    /\ status[e] = "none"
    /\ status' = [status EXCEPT ![e] = "CREATED"]
    /\ UNCHANGED <<stale, old, running, workerVars, histVars, faults>>

\* save_event / save_raw_message: the row is flushed in the caller's
\* transaction and invisible to everyone else.
SaveEvent(e) ==
    /\ status[e] = "none"
    /\ \A f \in Events : f < e => status[f] # "none"
    /\ status' = [status EXCEPT ![e] = "flushed"]
    /\ UNCHANGED <<stale, old, running, workerVars, histVars, faults>>

\* The business transaction ends, and the row with it.
EndTransaction(e) ==
    /\ status[e] = "flushed"
    /\ \E s \in {"PENDING", "rolled_back"} : status' = [status EXCEPT ![e] = s]
    /\ UNCHANGED <<stale, old, running, workerVars, histVars, faults>>

----------------------------------------------------------------------------
(* Claiming a batch: OutboxRepository.fetch_pending_batch *)

Up(w) == ProcOf[w] \in running

\* Mutant: use_skip_locked off, the SELECT takes no lock.
LockedNothing == {}

\* Rows locked by a SELECT ... FOR UPDATE whose transaction is still open.
Locked == UNION {todo[w] : w \in {v \in Workers : pc[v] = "claiming"}}

\* retry_count is written as 0 by save_event, and mark_failed, the only code
\* that increments it, has no caller.
retry_count == 0

\* Mutant: the fetch sees rows of open transactions.
DueUncommitted(e) == status[e] \in {"flushed", "PENDING"} /\ e \notin old

\* The WHERE clause of the fetch.
Due(e) == status[e] = "PENDING" /\ retry_count < MaxRetries /\ e \notin old

\* ORDER BY created_at LIMIT batch_size.
IsBatch(S, F) ==
    /\ Cardinality(S) <= BatchSize
    /\ S = F \/ Cardinality(S) = BatchSize
    /\ \A e \in S, f \in F \ S : e < f

\* The SELECT.  An empty result changes nothing and is left to stuttering.
SelectBatch(w) ==
    /\ Up(w)
    /\ pc[w] = "idle"
    /\ \E S \in SUBSET {e \in Events : Due(e) /\ e \notin Locked} :
        /\ S # {}
        /\ IsBatch(S, {e \in Events : Due(e) /\ e \notin Locked})
        /\ todo' = [todo EXCEPT ![w] = S]
    /\ pc' = [pc EXCEPT ![w] = "claiming"]
    /\ UNCHANGED <<rowVars, running, broken, histVars, faults>>

\* Mutant: the fetch forgets to mark the rows PROCESSING.
ClaimNothing(S) == UNCHANGED <<status, stale>>

\* The UPDATE by id and its commit.
ClaimRows(S) ==
    /\ status' = [e \in Events |-> IF e \in S THEN "PROCESSING" ELSE status[e]]
    /\ stale' = stale \ S

ClaimBatch(w) ==
    /\ Up(w)
    /\ pc[w] = "claiming"
    /\ ClaimRows(todo[w])
    /\ pc' = [pc EXCEPT ![w] = "publishing"]
    /\ UNCHANGED <<old, running, todo, broken, histVars, faults>>

----------------------------------------------------------------------------
(* Publishing: OutboxPoller._poll_and_publish and _publish_event *)

\* The event the worker is busy with: the oldest one left of its batch.
Current(w, e) == e \in todo[w] /\ \A f \in todo[w] : e <= f

\* Drop the worker's transaction and batch.
Drop(w) ==
    /\ pc' = [pc EXCEPT ![w] = "idle"]
    /\ todo' = [todo EXCEPT ![w] = {}]
    /\ broken' = broken \ {w}

\* On to the next event of the batch, or back to the worker loop, which
\* closes the session.
Advance(w, e, sessionBroken) ==
    IF todo[w] = {e}
    THEN Drop(w)
    ELSE /\ pc' = [pc EXCEPT ![w] = "publishing"]
         /\ todo' = [todo EXCEPT ![w] = @ \ {e}]
         /\ broken' = IF sessionBroken THEN broken \cup {w} ELSE broken \ {w}

Deliver(e) == deliveries' = [deliveries EXCEPT ![e] = @ + 1]

PublishOk(w, e) ==
    /\ Up(w)
    /\ pc[w] = "publishing" /\ Current(w, e)
    /\ Deliver(e)
    /\ pc' = [pc EXCEPT ![w] = "marking"]
    /\ UNCHANGED <<rowVars, running, todo, broken, resets, failures, faults>>

\* Mutant: the error handler falls through to mark_published.
PublishErrorMarks(w, e) ==
    /\ Up(w)
    /\ pc[w] = "publishing" /\ Current(w, e)
    /\ Fault
    /\ failures' = [failures EXCEPT ![e] = @ + 1]
    /\ Deliver(e) \/ UNCHANGED deliveries
    /\ pc' = [pc EXCEPT ![w] = "marking"]
    /\ UNCHANGED <<rowVars, running, todo, broken, resets>>

\* publish raises, before or after the broker has the message.  The handler
\* only logs and counts: the row stays PROCESSING.
PublishError(w, e) ==
    /\ Up(w)
    /\ pc[w] = "publishing" /\ Current(w, e)
    /\ Fault
    /\ failures' = [failures EXCEPT ![e] = @ + 1]
    /\ Deliver(e) \/ UNCHANGED deliveries
    /\ Advance(w, e, w \in broken)
    /\ UNCHANGED <<rowVars, running, resets>>

\* mark_published: an UPDATE by id, whatever the row's status, which waits for
\* a lock that another worker's SELECT holds on the row.
SetPublished(e) ==
    /\ e \notin Locked
    /\ status' = [status EXCEPT ![e] = "PUBLISHED"]
    /\ stale' = stale \ {e}

MarkPublished(w, e) ==
    /\ Up(w)
    /\ pc[w] = "marking" /\ Current(w, e)
    /\ w \notin broken
    /\ SetPublished(e)
    /\ Advance(w, e, FALSE)
    /\ UNCHANGED <<old, running, histVars, faults>>

\* mark_published raises.  The statement or its commit failed, and a lost
\* commit may have happened all the same; the session may be left in a failed
\* transaction, in which every later UPDATE of the batch fails as well.
MarkError(w, e) ==
    /\ Up(w)
    /\ pc[w] = "marking" /\ Current(w, e)
    /\ \/ /\ w \in broken
          /\ Advance(w, e, TRUE)
          /\ UNCHANGED <<status, stale, faults>>
       \/ /\ w \notin broken
          /\ Fault
          /\ SetPublished(e) \/ UNCHANGED <<status, stale>>
          /\ \E b \in BOOLEAN : Advance(w, e, b)
    /\ UNCHANGED <<old, running, histVars>>

\* The claim fails: the poll gives up; a lost commit may have happened.
ClaimError(w) ==
    /\ Up(w)
    /\ pc[w] = "claiming"
    /\ Fault
    /\ ClaimRows(todo[w]) \/ UNCHANGED <<status, stale>>
    /\ Drop(w)
    /\ UNCHANGED <<old, running, histVars>>

----------------------------------------------------------------------------
(* Stop, crash and restart of a process *)

\* OutboxPoller.stop, or a crash of the process.
Stop(p) ==
    /\ p \in running
    /\ Fault
    /\ running' = running \ {p}
    /\ UNCHANGED <<rowVars, workerVars, histVars>>

\* The worker is cancelled in whatever it awaits; what it had asked the
\* database or the broker for may have happened.
CancelWorker(w) ==
    /\ ~Up(w)
    /\ pc[w] # "idle"
    /\ \/ UNCHANGED <<status, stale, deliveries>>
       \/ /\ pc[w] = "claiming"
          /\ ClaimRows(todo[w])
          /\ UNCHANGED deliveries
       \/ /\ pc[w] = "publishing"
          /\ \E e \in Events : Current(w, e) /\ Deliver(e)
          /\ UNCHANGED <<status, stale>>
       \/ /\ pc[w] = "marking" /\ w \notin broken
          /\ \E e \in Events : Current(w, e) /\ SetPublished(e)
          /\ UNCHANGED deliveries
    /\ Drop(w)
    /\ UNCHANGED <<old, running, resets, failures, faults>>

\* A process starts once the workers of its last life are gone.
Start(p) ==
    /\ p \in Procs \ running
    /\ \A w \in Workers : ProcOf[w] = p => pc[w] = "idle"
    /\ running' = running \cup {p}
    /\ UNCHANGED <<rowVars, workerVars, histVars, faults>>

----------------------------------------------------------------------------
(* Maintenance and the passing of time *)

\* Mutant: the maintenance loop recovers FAILED rows instead.
StaleFailedRows == {e \in Events : status[e] = "FAILED" /\ e \in stale}

\* The rows reset_stale_processing updates.
StaleRows == {e \in Events : status[e] = "PROCESSING" /\ e \in stale}

\* reset_stale_processing, from the maintenance loop of a running process.
ResetStale(p) ==
    /\ p \in running
    /\ StaleRows # {}
    /\ status' = [e \in Events |-> IF e \in StaleRows THEN "PENDING" ELSE status[e]]
    /\ stale' = stale \ StaleRows
    /\ resets' = [e \in Events |-> IF e \in StaleRows THEN resets[e] + 1 ELSE resets[e]]
    /\ UNCHANGED <<old, running, workerVars, deliveries, failures, faults>>

\* A worker of some process still has the event in its claimed batch.
Held(e) == \E w \in Workers : pc[w] \in {"publishing", "marking"} /\ e \in todo[w]

GoStale(e) ==
    /\ status[e] = "PROCESSING" /\ e \notin stale
    /\ stale' = stale \cup {e}
    /\ UNCHANGED <<status, old, running, workerVars, histVars>>

\* The processing timeout passes for a claim nobody works on any more...
TimeoutAbandoned(e) == ~Held(e) /\ GoStale(e) /\ UNCHANGED faults

\* ... or for one a slow worker is still busy with.
TimeoutHeld(e) == Held(e) /\ GoStale(e) /\ Fault

\* Seven days pass since the event was created.
Expire(e) ==
    /\ status[e] \notin {"none", "rolled_back"} /\ e \notin old
    /\ \A f \in Events : f < e => f \in old \/ status[f] = "rolled_back"
    /\ old' = old \cup {e}
    /\ UNCHANGED <<status, stale, running, workerVars, histVars, faults>>

----------------------------------------------------------------------------

\* What a worker does when nothing fails.
Work(w) ==
    \/ SelectBatch(w)
    \/ ClaimBatch(w)
    \/ \E e \in Events : PublishOk(w, e) \/ MarkPublished(w, e) \/ MarkError(w, e)

Next ==
    \/ \E e \in Events :
        \/ SaveEvent(e)
        \/ EndTransaction(e)
        \/ TimeoutAbandoned(e)
        \/ TimeoutHeld(e)
        \/ Expire(e)
    \/ \E w \in Workers :
        \/ SelectBatch(w)
        \/ ClaimBatch(w)
        \/ ClaimError(w)
        \/ CancelWorker(w)
    \/ \E w \in Workers, e \in Events :
        \/ PublishOk(w, e)
        \/ PublishError(w, e)
        \/ MarkPublished(w, e)
        \/ MarkError(w, e)
    \/ \E p \in Procs :
        \/ Stop(p)
        \/ Start(p)
        \/ ResetStale(p)

Spec == Init /\ [][Next]_vars

\* Tasks and maintenance loops that can run do run, cancelled tasks end,
\* processes that died are started again by their supervisor, and time passes.
Fairness ==
    /\ \A w \in Workers : WF_vars(Work(w)) /\ WF_vars(CancelWorker(w))
    /\ \A p \in Procs : WF_vars(ResetStale(p)) /\ WF_vars(Start(p))
    /\ \A e \in Events : WF_vars(TimeoutAbandoned(e))

FairSpec == Spec /\ Fairness

----------------------------------------------------------------------------
(* Properties *)

\* A row says PUBLISHED only for an event the broker has received, whatever
\* failed, was cancelled or came late (_publish_event marks after publish).
PublishedWasDelivered ==
    \A e \in Events : status[e] = "PUBLISHED" => deliveries[e] > 0

\* Every extra delivery is paid for by a stale claim: SKIP LOCKED and the
\* PROCESSING status let a row be published once per time it became PENDING.
DuplicatesNeedReset ==
    \A e \in Events : deliveries[e] <= resets[e] + 1

\* Two live workers have the same event in hand only if its claim was returned
\* by the maintenance loop in between.
ExclusiveClaim ==
    \A e \in Events : \A v, w \in Workers :
        e \in todo[v] /\ e \in todo[w] /\ v # w => resets[e] > 0

\* PUBLISHED is final: no claim, reset or late worker brings the row back,
\* though all their updates are by id and without a look at the status.
PublishedIsFinal ==
    [][\A e \in Events : status[e] = "PUBLISHED" => status'[e] = "PUBLISHED"]_vars

\* A committed event ends PUBLISHED once the faults stop, unless seven days
\* have passed: a PENDING row outside that window is never fetched again.
EventuallyPublished ==
    \A e \in Events :
        (status[e] = "PENDING") ~> (status[e] = "PUBLISHED" \/ e \in old)

\* The outbox keeps the contract: phases by status, sends by deliveries.
Phase(s) ==
    CASE s = "none" -> "unborn"
      [] s = "flushed" -> "open"
      [] s = "rolled_back" -> "aborted"
      [] s \in {"PENDING", "PROCESSING", "FAILED", "DEAD_LETTER"} -> "committed"
      [] s = "PUBLISHED" -> "settled"

Contract == INSTANCE OutboxContract
    WITH phase <- [e \in Events |-> Phase(status[e])], sent <- deliveries

ContractSpec == Contract!Spec

\* What the documentation of OutboxConfig.max_retries says: an event whose
\* publish has failed more often than that is in the dead letters.
RetriesEndInDeadLetter ==
    \A e \in Events : failures[e] > MaxRetries => status[e] = "DEAD_LETTER"
====
