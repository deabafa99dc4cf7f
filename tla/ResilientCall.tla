---- MODULE ResilientCall ----
(***************************************************************************)
(* ResilientExecutor.call: circuit breaker around bulkhead around timeout  *)
(* around the handler.  Each process has one CircuitBreakerService and one *)
(* BulkheadService for the dependency, and many calls of one event loop go *)
(* through them; with an ICircuitBreakerRepository (Redis) the processes   *)
(* share the breaker's snapshot.  An action runs from one await to the     *)
(* next.  All processes read the same clock.                               *)
(***************************************************************************)
EXTENDS Integers, Sequences, FiniteSets, SequencesExt

CONSTANTS
    Procs, Calls,
    Deployments,        \* [shared, home, failure_threshold, max_waiters]: whether
                        \* the breakers have a repository; the process that makes
                        \* each call; two of the settings below
    SuccessThreshold, HalfOpenMaxCalls,                     \* CircuitBreakerConfig
    Recovery,           \* recovery_timeout_seconds, in ticks
    MaxConcurrent,                                          \* BulkheadConfig
    MaxTime,            \* bound: ticks
    MaxFaults           \* bound: failing reads and saves, cancelled reports

ASSUME ResilientAssumption ==
    /\ IsFiniteSet(Calls)
    /\ Deployments \subseteq [shared: BOOLEAN, home: [Calls -> Procs],
                             failure_threshold: Nat \ {0}, max_waiters: Nat]
    /\ {SuccessThreshold, HalfOpenMaxCalls, MaxConcurrent} \subseteq Nat \ {0}
    /\ {Recovery, MaxTime, MaxFaults} \subseteq Nat

\* Without a repository the breakers of two processes have nothing in common:
\* the calls of one process are all there is to see.
ASSUME LocalAssumption ==
    \A d \in Deployments : d.shared \/ \A c, e \in Calls : d.home[c] = d.home[e]

None == -1

VARIABLES
    deployment,         \* one of Deployments, fixed
    store,              \* the snapshot in the repository
    stored,             \* whether the repository has one
    snapshot,           \* _snapshot of each process
    halfOpenInFlight,   \* _half_open_in_flight of each process
    lock,               \* the calls that hold _lock over an await
    read,               \* read[c]: what its _refresh got
    pc, failure,        \* where a call is; whether it will report a failure
    waiters,            \* semaphore queue of each process, first come first
    now, faults,
    tripped,            \* history: latest opened_at every process could know of
    overwritten,        \* history: it was replaced in the repository
    known,              \* history: the opening in force when a call refreshed
    period, admitted,   \* history: HALF_OPEN periods; the one a call was let in
    late                \* history: results of other calls counted in the period

vars == <<deployment, store, stored, snapshot, halfOpenInFlight, lock, read,
          pc, failure, waiters, now, faults, tripped, overwritten, known, period,
          admitted, late>>

breaker == <<snapshot, halfOpenInFlight, period, late>>
repository == <<deployment, store, stored>>
bounds == <<now, faults>>
trip == <<tripped, overwritten>>
seen == <<read, known>>

shared == deployment.shared
Home == deployment.home
FailureThreshold == deployment.failure_threshold
MaxWaiters == deployment.max_waiters

CircuitState == {"closed", "open", "half_open"}

Closed == [state |-> "closed", failure_count |-> 0, success_count |-> 0,
           opened_at |-> None]

\* "new": before _before_call; "refreshing": in its repository.get;
\* "half_opening": saving HALF_OPEN; "queued",
\* "granted": waiting for a slot, given one and not yet resumed; "running": in
\* the handler; "reporting": before _on_success or _on_failure; "saving": in
\* their save; "done": result, error or rejection is with the caller.
Pcs == {"new", "refreshing", "half_opening", "queued", "granted", "running", "reporting",
        "saving", "done"}

TypeOK ==
    /\ deployment \in Deployments /\ stored \in BOOLEAN
    /\ snapshot \in [Procs ->
           [state: CircuitState, failure_count: 0..(FailureThreshold - 1),
            success_count: 0..(SuccessThreshold - 1), opened_at: {None} \cup Nat]]
    /\ halfOpenInFlight \in [Procs -> 0..HalfOpenMaxCalls]
    /\ lock \subseteq Calls
    /\ \A c \in Calls : read[c].state \in CircuitState
    /\ pc \in [Calls -> Pcs]
    /\ failure \in [Calls -> BOOLEAN]
    /\ waiters \in [Procs -> Seq(Calls)]
    /\ now \in 0..MaxTime /\ faults \in 0..MaxFaults
    /\ tripped \in {None} \cup 0..MaxTime /\ overwritten \in BOOLEAN

Init ==
    /\ deployment \in Deployments
    /\ store = Closed /\ stored = FALSE
    /\ snapshot = [p \in Procs |-> Closed]
    /\ halfOpenInFlight = [p \in Procs |-> 0]
    /\ lock = {}
    /\ read = [c \in Calls |-> Closed]
    /\ pc = [c \in Calls |-> "new"]
    /\ failure = [c \in Calls |-> FALSE]
    /\ waiters = [p \in Procs |-> <<>>]
    /\ now = 0 /\ faults = 0
    /\ tripped = None /\ overwritten = FALSE
    /\ known = [c \in Calls |-> None]
    /\ period = [p \in Procs |-> 0]
    /\ admitted = [c \in Calls |-> 0]
    /\ late = [p \in Procs |-> 0]

LockFree(p) == \A c \in lock : Home[c] # p

\* The end of `async with self._lock`, whichever way it is left.
Unlock(c) == lock' = lock \ {c}

-----------------------------------------------------------------------------
(* The bulkhead: an asyncio.Semaphore and a count of waiters *)

At(p, pcs) == {c \in Calls : Home[c] = p /\ pc[c] \in pcs}

Holding(p) == At(p, {"granted", "running"})

\* A waiter is in the semaphore's queue until it runs again, granted or not.
Waiting(p) == waiters[p] # <<>> \/ At(p, {"granted"}) # {}

\* Semaphore.locked(): no slot is free, or somebody came first.
Locked(p) == Cardinality(Holding(p)) >= MaxConcurrent \/ Waiting(p)

\* The BulkheadFullError of _acquire; the breaker counts it as a failure.
Full(p) == Cardinality(At(p, {"queued", "granted"})) >= MaxWaiters /\ Locked(p)

\* _acquire up to its first await; no other call runs in between.
EnterBulkhead(c, p) ==
    \/ /\ Full(p)
       /\ pc' = [pc EXCEPT ![c] = "reporting"]
       /\ failure' = [failure EXCEPT ![c] = TRUE]
       /\ UNCHANGED waiters
    \/ /\ ~Full(p) /\ ~Locked(p)
       /\ pc' = [pc EXCEPT ![c] = "running"]
       /\ UNCHANGED <<failure, waiters>>
    \/ /\ ~Full(p) /\ Locked(p)
       /\ pc' = [pc EXCEPT ![c] = "queued"]
       /\ waiters' = [waiters EXCEPT ![p] = Append(@, c)]
       /\ UNCHANGED failure

\* c moves on, and the first waiters of the queue are granted the free slots.
WakeUp(c, next, queue, free) ==
    LET n == IF free < Len(queue) THEN free ELSE Len(queue) IN
    /\ pc' = [d \in Calls |->
           IF d = c THEN next
           ELSE IF \E i \in 1..n : queue[i] = d THEN "granted" ELSE pc[d]]
    /\ waiters' = [waiters EXCEPT ![Home[c]] = SubSeq(queue, n + 1, Len(queue))]

\* Semaphore._value, once c has given back a slot it may hold.
Value(c) == MaxConcurrent - Cardinality(Holding(Home[c]) \ {c})

\* Semaphore.acquire goes on; callers may have queued behind it while slots
\* were free, and it wakes as many as there are slots.
Resume(c) ==
    /\ pc[c] = "granted"
    /\ WakeUp(c, "running", waiters[Home[c]], Value(c) - 1)
    /\ UNCHANGED <<seen, repository, breaker, lock, failure, bounds, trip, admitted>>

\* acquire_timeout_seconds elapses, or the caller is cancelled: a slot already
\* granted is given back, and acquire wakes as many as there are slots.
GiveUpWaiting(c) ==
    /\ pc[c] \in {"queued", "granted"}
    /\ failure' = [failure EXCEPT ![c] = TRUE]
    /\ \/ /\ pc[c] = "granted"
          /\ WakeUp(c, "reporting", waiters[Home[c]], Value(c))
       \/ /\ pc[c] = "queued"
          /\ \E i \in DOMAIN waiters[Home[c]] :
                /\ waiters[Home[c]][i] = c
                /\ WakeUp(c, "reporting", RemoveAt(waiters[Home[c]], i), Value(c))
    /\ UNCHANGED <<seen, repository, breaker, lock, bounds, trip, admitted>>

\* Mutant: the slot is not released when the handler ends.
HandlerEndsUnreleased(c) ==
    /\ pc[c] = "running"
    /\ \E failed \in BOOLEAN : failure' = [failure EXCEPT ![c] = failed]
    /\ WakeUp(c, "reporting", waiters[Home[c]], 0)
    /\ UNCHANGED <<seen, repository, breaker, lock, bounds, trip, admitted>>

\* The handler returns, raises, runs into the timeout or is cancelled;
\* Semaphore.release wakes one waiter.
HandlerEnds(c) ==
    /\ pc[c] = "running"
    /\ \E failed \in BOOLEAN : failure' = [failure EXCEPT ![c] = failed]
    /\ WakeUp(c, "reporting", waiters[Home[c]], 1)
    /\ UNCHANGED <<seen, repository, breaker, lock, bounds, trip, admitted>>

-----------------------------------------------------------------------------
(* CircuitBreakerService._before_call *)

\* Mutant: the repository is written and never read.
RefreshedNever(p) == snapshot[p]

\* _refresh: the snapshot in the repository, if there is one.
Refreshed(p) == IF shared /\ stored THEN store ELSE snapshot[p]

\* The opening that snap tells of, if it is the latest.
Tripped(snap) ==
    IF snap.state = "open" /\ snap.opened_at > tripped THEN snap.opened_at ELSE tripped

\* _persist: the snapshot of this process, over whatever is there.
Persist(p) ==
    /\ store' = snapshot[p] /\ stored' = TRUE
    /\ tripped' = Tripped(snapshot[p])
    /\ overwritten' = (snapshot[p].state # "open" \/ snapshot[p].opened_at < tripped')

Recovered(snap) == now - snap.opened_at >= Recovery

\* Mutant: `>` for `>=` against half_open_max_calls.
NoProbeLeftLate(p, n) == n > HalfOpenMaxCalls

NoProbeLeft(p, n) == n >= HalfOpenMaxCalls

Reject(c) ==
    /\ pc' = [pc EXCEPT ![c] = "done"]
    /\ UNCHANGED <<failure, waiters, admitted>>

\* The call passes as a probe of the current HALF_OPEN period.
AdmitProbe(c, p, inFlight, number) ==
    /\ ~NoProbeLeft(p, inFlight)
    /\ halfOpenInFlight' = [halfOpenInFlight EXCEPT ![p] = inFlight + 1]
    /\ admitted' = [admitted EXCEPT ![c] = number]
    /\ EnterBulkhead(c, p)

RejectProbe(c, p, inFlight) ==
    /\ NoProbeLeft(p, inFlight)
    /\ halfOpenInFlight' = [halfOpenInFlight EXCEPT ![p] = inFlight]
    /\ Reject(c)

\* `async with self._lock: await self._refresh()`: the snapshot is read, and
\* the call waits for the answer with the lock held.
Refresh(c) ==
    LET p == Home[c] IN
    /\ pc[c] = "new" /\ shared /\ LockFree(p)
    /\ lock' = lock \cup {c}
    /\ read' = [read EXCEPT ![c] = Refreshed(p)]
    /\ known' = [known EXCEPT ![c] = IF overwritten THEN None ELSE tripped]
    /\ pc' = [pc EXCEPT ![c] = "refreshing"]
    /\ UNCHANGED <<repository, breaker, failure, waiters, bounds, trip, admitted>>

\* What _before_call decides on.  Without a repository nothing is awaited.
Enters(c) ==
    /\ pc[c] = IF shared THEN "refreshing" ELSE "new"
    /\ shared \/ LockFree(Home[c])

Snap(c) == IF shared THEN read[c] ELSE snapshot[Home[c]]

\* The answer is used up.
Forget(c) == read' = [read EXCEPT ![c] = Closed]

BeforeCallClosed(c) ==
    LET p == Home[c] IN
    /\ Enters(c) /\ Snap(c).state = "closed"
    /\ snapshot' = [snapshot EXCEPT ![p] = Snap(c)]
    /\ admitted' = [admitted EXCEPT ![c] = 0]
    /\ EnterBulkhead(c, p)
    /\ Unlock(c) /\ Forget(c)
    /\ UNCHANGED <<repository, halfOpenInFlight, bounds, trip, known, period, late>>

BeforeCallOpen(c) ==
    LET p == Home[c] IN
    /\ Enters(c) /\ Snap(c).state = "open" /\ ~Recovered(Snap(c))
    /\ snapshot' = [snapshot EXCEPT ![p] = Snap(c)]
    /\ Reject(c)
    /\ Unlock(c) /\ Forget(c)
    /\ UNCHANGED <<repository, halfOpenInFlight, bounds, trip, known, period, late>>

BeforeCallHalfOpen(c) ==
    LET p == Home[c] IN
    /\ Enters(c) /\ Snap(c).state = "half_open"
    /\ snapshot' = [snapshot EXCEPT ![p] = Snap(c)]
    /\ \/ AdmitProbe(c, p, halfOpenInFlight[p], period[p])
       \/ RejectProbe(c, p, halfOpenInFlight[p])
    /\ Unlock(c) /\ Forget(c)
    /\ UNCHANGED <<repository, bounds, trip, known, period, late>>

\* OPEN for long enough: HALF_OPEN in memory, then `await self._persist()`
\* with the lock held, if there is a repository.
BeforeCallRecovers(c) ==
    LET p == Home[c] IN
    /\ Enters(c) /\ Snap(c).state = "open" /\ Recovered(Snap(c))
    /\ snapshot' = [snapshot EXCEPT ![p] =
           [Closed EXCEPT !.state = "half_open", !.opened_at = Snap(c).opened_at]]
    /\ period' = [period EXCEPT ![p] = @ + 1]
    /\ late' = [late EXCEPT ![p] = 0]
    /\ IF shared
       THEN /\ pc' = [pc EXCEPT ![c] = "half_opening"]
            /\ halfOpenInFlight' = [halfOpenInFlight EXCEPT ![p] = 0]
            /\ UNCHANGED <<failure, waiters, admitted>>
       ELSE AdmitProbe(c, p, 0, period[p] + 1)
    /\ Forget(c)
    /\ UNCHANGED <<repository, lock, bounds, trip, known>>

HalfOpenSaved(c) ==
    LET p == Home[c] IN
    /\ pc[c] = "half_opening"
    /\ Persist(p)
    /\ Unlock(c)
    /\ AdmitProbe(c, p, 0, period[p])
    /\ UNCHANGED <<deployment, seen, snapshot, bounds, period, late>>

-----------------------------------------------------------------------------
(* _on_success, _on_failure *)

\* _open
Open(p) ==
    /\ snapshot' = [snapshot EXCEPT ![p] =
           [Closed EXCEPT !.state = "open", !.opened_at = now]]
    /\ halfOpenInFlight' = [halfOpenInFlight EXCEPT ![p] = 0]

\* Mutant: a probe's success leaves its place taken.
ProbeReturnsForgotten(p) == halfOpenInFlight[p]

\* max(in_flight - 1, 0), whether or not the caller was a probe
ProbeReturns(p) == IF halfOpenInFlight[p] > 0 THEN halfOpenInFlight[p] - 1 ELSE 0

OnSuccess(p) ==
    LET snap == snapshot[p] IN
    \/ /\ snap.state = "half_open"
       /\ halfOpenInFlight' = [halfOpenInFlight EXCEPT ![p] = ProbeReturns(p)]
       /\ snapshot' = [snapshot EXCEPT ![p] =
              IF snap.success_count + 1 >= SuccessThreshold THEN Closed
              ELSE [snap EXCEPT !.success_count = @ + 1]]
    \/ /\ snap.state = "closed"
       /\ snapshot' = [snapshot EXCEPT ![p].failure_count = 0]
       /\ UNCHANGED halfOpenInFlight
    \/ /\ snap.state = "open"
       /\ UNCHANGED <<snapshot, halfOpenInFlight>>

\* Mutant: the threshold is missed by one.
ReachesThresholdLate(n) == n > FailureThreshold

ReachesThreshold(n) == n >= FailureThreshold

\* A failure that arrives in OPEN is counted too, and may open it again.
OnFailure(p) ==
    LET snap == snapshot[p] IN
    IF snap.state = "half_open" \/ ReachesThreshold(snap.failure_count + 1)
    THEN Open(p)
    ELSE /\ snapshot' = [snapshot EXCEPT ![p].failure_count = @ + 1]
         /\ UNCHANGED halfOpenInFlight

Report(c) ==
    LET p == Home[c] IN
    /\ pc[c] = "reporting" /\ LockFree(p)
    /\ IF failure[c] THEN OnFailure(p) ELSE OnSuccess(p)
    /\ late' = [late EXCEPT ![p] =
           IF snapshot[p].state = "half_open" /\ admitted[c] # period[p]
           THEN @ + 1 ELSE @]
    /\ IF shared
       THEN /\ lock' = lock \cup {c} /\ pc' = [pc EXCEPT ![c] = "saving"]
            /\ UNCHANGED trip
       ELSE /\ pc' = [pc EXCEPT ![c] = "done"]
            /\ tripped' = Tripped(snapshot'[p])
            /\ UNCHANGED <<lock, overwritten>>
    /\ UNCHANGED <<seen, repository, failure, waiters, bounds, period, admitted>>

ReportSaved(c) ==
    /\ pc[c] = "saving"
    /\ Persist(Home[c])
    /\ Unlock(c)
    /\ pc' = [pc EXCEPT ![c] = "done"]
    /\ UNCHANGED <<seen, deployment, breaker, failure, waiters, bounds, admitted>>

\* repository.get raises or is cancelled: the call ends, and counts for nothing.
RefreshFails(c) ==
    /\ pc[c] = "refreshing"
    /\ faults < MaxFaults /\ faults' = faults + 1
    /\ pc' = [pc EXCEPT ![c] = "done"]
    /\ Unlock(c) /\ Forget(c)
    /\ UNCHANGED <<repository, known, breaker, failure, waiters, now, trip, admitted>>

\* The save raises or is cancelled, applied or not; the lock is released.
SaveFails(c) ==
    /\ pc[c] \in {"half_opening", "saving"}
    /\ faults < MaxFaults /\ faults' = faults + 1
    /\ Persist(Home[c]) \/ UNCHANGED <<store, stored, trip>>
    /\ Unlock(c)
    /\ pc' = [pc EXCEPT ![c] = "done"]
    /\ UNCHANGED <<seen, deployment, breaker, failure, waiters, now, admitted>>

\* Cancelled while another call holds the lock: nothing is counted, and the
\* place of a probe stays taken.
ReportCancelled(c) ==
    /\ pc[c] = "reporting" /\ ~LockFree(Home[c])
    /\ faults < MaxFaults /\ faults' = faults + 1
    /\ pc' = [pc EXCEPT ![c] = "done"]
    /\ UNCHANGED <<seen, repository, breaker, lock, failure, waiters, now, trip, admitted>>

\* The time to live of the stored snapshot ends: longer than the recovery time
\* after it was saved.
Expire ==
    /\ stored /\ lock = {}
    /\ ~(store.state = "open" /\ now - store.opened_at <= Recovery)
    /\ faults < MaxFaults /\ faults' = faults + 1
    /\ stored' = FALSE
    /\ UNCHANGED <<deployment, store, seen, breaker, lock, pc, failure, waiters, now, trip,
                   admitted>>

Tick ==
    /\ now < MaxTime
    /\ now' = now + 1
    /\ UNCHANGED <<seen, repository, breaker, lock, pc, failure, waiters, faults, trip, admitted>>

-----------------------------------------------------------------------------

Progress(c) ==
    \/ Refresh(c) \/ BeforeCallClosed(c) \/ BeforeCallOpen(c)
    \/ BeforeCallHalfOpen(c) \/ BeforeCallRecovers(c) \/ HalfOpenSaved(c)
    \/ Resume(c) \/ HandlerEnds(c) \/ Report(c) \/ ReportSaved(c)

Next ==
    \/ \E c \in Calls :
          \/ Progress(c) \/ GiveUpWaiting(c)
          \/ RefreshFails(c) \/ SaveFails(c) \/ ReportCancelled(c)
    \/ Expire \/ Tick

Spec == Init /\ [][Next]_vars

-----------------------------------------------------------------------------
(* Properties *)

InFlight(p) == At(p, {"queued", "granted", "running", "reporting"})

\* Probes that are out in the HALF_OPEN period of p: at most half_open_max_calls
\* (circuit_breaker.py:192), and one more for each result of a call from an
\* earlier state, which _on_success takes for a probe's (line 200).
ProbesAreLimited ==
    \A p \in Procs : (~shared /\ snapshot[p].state = "half_open") =>
        Cardinality({c \in InFlight(p) : admitted[c] = period[p]})
            <= HalfOpenMaxCalls + late[p]

\* A HALF_OPEN breaker that turns callers away has a call under way whose result
\* will give a place back or change the state: HALF_OPEN has no time limit, so a
\* place that is never given back would shut the dependency off for good.
HalfOpenIsNotWedged ==
    \A p \in Procs :
        (/\ ~shared /\ snapshot[p].state = "half_open"
         /\ halfOpenInFlight[p] >= HalfOpenMaxCalls) => InFlight(p) # {}

\* The bulkhead never runs more than max_concurrent handlers, and keeps a caller
\* waiting beside a free slot only until a waiter that has been granted one runs
\* again, through timeouts, cancellations and callers that come in between.
SlotsAreUsed ==
    \A p \in Procs :
        /\ Cardinality(Holding(p)) <= MaxConcurrent
        /\ waiters[p] # <<>> =>
               Cardinality(Holding(p)) = MaxConcurrent \/ At(p, {"granted"}) # {}

BeforeCall == {"new", "refreshing", "half_opening"}

Admits(c) == pc[c] \in BeforeCall /\ pc'[c] \notin BeforeCall \cup {"done"}

\* The opening that a call must heed: the one in force when it read the state.
Heeded(c) == IF shared THEN known[c] ELSE tripped

\* "OPEN - calls fail fast until recovery_timeout_seconds elapses"
\* (circuit_breaker.py:10), and of a repository "when one worker trips a breaker
\* OPEN, every other worker sees it OPEN and fails fast too"
\* (circuit_breaker_repository.py:5): a call that read the state after an opening
\* was known to all is not let through within the recovery time, whatever
\* results of earlier calls come in - unless a process had saved an older
\* snapshot over it, since _on_success and _on_failure persist without a refresh.
TripIsHeeded ==
    [][\A c \in Calls :
         Admits(c) => Heeded(c) = None \/ now - Heeded(c) >= Recovery]_vars
====
