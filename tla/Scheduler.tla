---- MODULE Scheduler ----
(***************************************************************************)
(* Durable timers: ScheduleService inserts jobs, poller workers claim due  *)
(* jobs with FOR UPDATE SKIP LOCKED, dispatch them one after the other and *)
(* reschedule or finish them (SchedulerPoller, ScheduleRepository), callers*)
(* cancel them, and a maintenance loop returns claims that timed out.      *)
(*                                                                         *)
(* A worker marks a job from the row it loaded when it claimed it: the     *)
(* session keeps that object (expire_on_commit is off), and the SELECT of  *)
(* mark_succeeded and mark_failed returns it unrefreshed.  run_count is    *)
(* also the number of the occurrence next_run_at stands for: both are      *)
(* written by the same UPDATE, from the same copy.                         *)
(*                                                                         *)
(* A worker here is a process with one worker task, the default of         *)
(* concurrent_workers.  Time is abstracted to the two comparisons the code *)
(* makes: `due` (next_run_at <= now) and `stale` (claimed_at < threshold). *)
(***************************************************************************)
EXTENDS Integers, FiniteSets

CONSTANTS
    Jobs,               \* jobs the callers schedule
    Workers,            \* poller processes
    Recurring,          \* the jobs of kind INTERVAL or CRON; the others are ONCE
    MaxRuns,            \* MaxRuns[j]: max_runs, or NoCap
    MaxRetries,         \* MaxRetries[j]: max_retries of the job
    BatchSize,          \* ScheduleConfig.batch_size
    Horizon,            \* bound: occurrences of a job
    MaxFaults           \* bound: failures, stops and premature timeouts

NoCap == -1

ASSUME SchedulerAssumption ==
    /\ IsFiniteSet(Workers)
    /\ Recurring \subseteq Jobs
    /\ MaxRuns \in [Jobs -> Nat \cup {NoCap}]
    /\ MaxRetries \in [Jobs -> Nat]
    /\ BatchSize \in Nat \ {0}
    /\ Horizon \in Nat
    /\ MaxFaults \in Nat

VARIABLES
    status,             \* row: ScheduledJobTable.status, "none" before the insert
    run_count,          \* row
    attempts,           \* row
    due,                \* rows with next_run_at <= now
    stale,              \* RUNNING rows claimed before the claim timeout
    up,                 \* workers whose process runs
    hand,               \* hand[w][j]: what the worker is doing with the job
    runs,               \* runs[w][j]: run_count of the copy the worker loaded
    tries,              \* tries[w][j]: attempts of that copy
    fires,              \* history: dispatches of each occurrence of a job
    failures,           \* history: failed fires recorded for the job
    resets,             \* history: claims of the job returned as stale
    faults              \* bound: faults so far

rowVars == <<status, run_count, attempts, due, stale>>
workerVars == <<hand, runs, tries>>
histVars == <<fires, failures, resets>>
vars == <<rowVars, up, workerVars, histVars, faults>>

Occurrences == 0..Horizon
Terminal == {"DONE", "FAILED", "CANCELLED"}
Statuses == Terminal \cup {"none", "SCHEDULED", "RUNNING"}
Stages == {"none", "selected", "claimed", "fired", "raised"}

TypeOK ==
    /\ status \in [Jobs -> Statuses]
    /\ run_count \in [Jobs -> Nat]
    /\ attempts \in [Jobs -> Nat]
    /\ due \in SUBSET Jobs
    /\ stale \in SUBSET Jobs
    /\ up \in SUBSET Workers
    /\ hand \in [Workers -> [Jobs -> Stages]]
    /\ runs \in [Workers -> [Jobs -> Nat]]
    /\ tries \in [Workers -> [Jobs -> Nat]]
    /\ fires \in [Jobs -> [Occurrences -> Nat]]
    /\ failures \in [Jobs -> Nat]
    /\ resets \in [Jobs -> Nat]
    /\ faults \in Nat

Init ==
    /\ status = [j \in Jobs |-> "none"]
    /\ run_count = [j \in Jobs |-> 0]
    /\ attempts = [j \in Jobs |-> 0]
    /\ due = {}
    /\ stale = {}
    /\ up = Workers
    /\ hand = [w \in Workers |-> [j \in Jobs |-> "none"]]
    /\ runs = [w \in Workers |-> [j \in Jobs |-> 0]]
    /\ tries = [w \in Workers |-> [j \in Jobs |-> 0]]
    /\ fires = [j \in Jobs |-> [k \in Occurrences |-> 0]]
    /\ failures = [j \in Jobs |-> 0]
    /\ resets = [j \in Jobs |-> 0]
    /\ faults = 0

\* Something goes wrong; MaxFaults bounds how often.
Fault == faults < MaxFaults /\ faults' = faults + 1

----------------------------------------------------------------------------
(* Callers: ScheduleService *)

\* Mutant: the job is inserted with a status that is not one of the enum.
CreateBadStatus(j) ==
    /\ status[j] = "none"
    /\ status' = [status EXCEPT ![j] = "PENDING"]
    /\ UNCHANGED <<run_count, attempts, due, stale, up, workerVars, histVars, faults>>

\* schedule_once, schedule_after, schedule_interval, schedule_cron: the row
\* appears with the caller's commit.
Create(j) ==
    /\ status[j] = "none"
    /\ status' = [status EXCEPT ![j] = "SCHEDULED"]
    /\ UNCHANGED <<run_count, attempts, due, stale, up, workerVars, histVars, faults>>

\* Rows locked by a SELECT ... FOR UPDATE whose transaction is still open.
Locked == {j \in Jobs : \E w \in Workers : hand[w][j] = "selected"}

\* cancel: one conditional UPDATE.
Cancel(j) ==
    /\ status[j] \in {"SCHEDULED", "RUNNING"}
    /\ j \notin Locked
    /\ status' = [status EXCEPT ![j] = "CANCELLED"]
    /\ stale' = stale \ {j}
    /\ UNCHANGED <<run_count, attempts, due, up, workerVars, histVars, faults>>

\* next_run_at is reached.
Elapse(j) ==
    /\ status[j] = "SCHEDULED" /\ j \notin due
    /\ run_count[j] < Horizon
    /\ due' = due \cup {j}
    /\ UNCHANGED <<status, run_count, attempts, stale, up, workerVars, histVars, faults>>

----------------------------------------------------------------------------
(* Claiming a batch: ScheduleRepository.fetch_due_batch *)

Idle(w) == \A j \in Jobs : hand[w][j] = "none"

\* Mutant: the fetch also takes jobs that are RUNNING.
ClaimableRunning == {j \in due : status[j] \in {"SCHEDULED", "RUNNING"}} \ Locked

\* The WHERE clause, without the rows SKIP LOCKED skips.
Claimable == {j \in due : status[j] = "SCHEDULED"} \ Locked

\* The SELECT, which loads the rows.  An empty result changes nothing and is
\* left to stuttering; which rows a full batch has is left open.
SelectDue(w) ==
    /\ w \in up
    /\ Idle(w)
    /\ \E S \in SUBSET Claimable :
        /\ S # {}
        /\ Cardinality(S) <= BatchSize
        /\ S = Claimable \/ Cardinality(S) = BatchSize
        /\ hand' = [hand EXCEPT ![w] = [j \in Jobs |-> IF j \in S THEN "selected" ELSE "none"]]
        /\ runs' = [runs EXCEPT ![w] = [j \in Jobs |-> IF j \in S THEN run_count[j] ELSE 0]]
        /\ tries' = [tries EXCEPT ![w] = [j \in Jobs |-> IF j \in S THEN attempts[j] ELSE 0]]
    /\ UNCHANGED <<rowVars, up, histVars, faults>>

Selected(w) == {j \in Jobs : hand[w][j] = "selected"}

\* Mutant: the fetch forgets to mark the rows RUNNING.
ClaimNothing(S) == UNCHANGED <<status, stale>>

\* The UPDATE by id and its commit.
ClaimRows(S) ==
    /\ status' = [j \in Jobs |-> IF j \in S THEN "RUNNING" ELSE status[j]]
    /\ stale' = stale \ S

ClaimDue(w) ==
    /\ w \in up
    /\ Selected(w) # {}
    /\ ClaimRows(Selected(w))
    /\ hand' = [hand EXCEPT ![w] =
                   [j \in Jobs |-> IF hand[w][j] = "selected" THEN "claimed" ELSE "none"]]
    /\ UNCHANGED <<run_count, attempts, due, up, runs, tries, histVars, faults>>

\* The worker loop leaves the session and forgets the batch.
Drop(w) ==
    /\ hand' = [hand EXCEPT ![w] = [j \in Jobs |-> "none"]]
    /\ runs' = [runs EXCEPT ![w] = [j \in Jobs |-> 0]]
    /\ tries' = [tries EXCEPT ![w] = [j \in Jobs |-> 0]]

\* The claim fails: the poll gives up; a lost commit may have happened.
ClaimError(w) ==
    /\ w \in up
    /\ Selected(w) # {}
    /\ Fault
    /\ ClaimRows(Selected(w)) \/ UNCHANGED <<status, stale>>
    /\ Drop(w)
    /\ UNCHANGED <<run_count, attempts, due, up, histVars>>

----------------------------------------------------------------------------
(* Firing: SchedulerPoller._fire and _dispatch *)

\* The worker may dispatch j next: it marks one job before it takes another.
Ready(w, j) ==
    /\ hand[w][j] = "claimed"
    /\ \A i \in Jobs : hand[w][i] \notin {"fired", "raised"}

\* The channel or the callback gets occurrence runs[w][j] of the job.
Fire(w, j) == fires' = [fires EXCEPT ![j][runs[w][j]] = @ + 1]

DispatchOk(w, j) ==
    /\ w \in up
    /\ Ready(w, j)
    /\ Fire(w, j)
    /\ hand' = [hand EXCEPT ![w][j] = "fired"]
    /\ UNCHANGED <<rowVars, up, runs, tries, failures, resets, faults>>

\* Mutant: the handler of a failed dispatch falls through to mark_succeeded.
DispatchErrorPasses(w, j) ==
    /\ w \in up
    /\ Ready(w, j)
    /\ Fault
    /\ Fire(w, j) \/ UNCHANGED fires
    /\ hand' = [hand EXCEPT ![w][j] = "fired"]
    /\ UNCHANGED <<rowVars, up, runs, tries, failures, resets>>

\* The dispatch raises, before or after the job took effect.
DispatchError(w, j) ==
    /\ w \in up
    /\ Ready(w, j)
    /\ Fault
    /\ Fire(w, j) \/ UNCHANGED fires
    /\ hand' = [hand EXCEPT ![w][j] = "raised"]
    /\ UNCHANGED <<rowVars, up, runs, tries, failures, resets>>

\* compute_next_run returns None.
NoNextRun(j) == j \notin Recurring

\* Mutant: max_runs is compared with the count before this run.
LastRunOffByOne(w, j) ==
    NoNextRun(j) \/ (MaxRuns[j] # NoCap /\ runs[w][j] >= MaxRuns[j])

\* The job has no next run, or the cap is reached.
LastRun(w, j) ==
    NoNextRun(j) \/ (MaxRuns[j] # NoCap /\ runs[w][j] + 1 >= MaxRuns[j])

\* mark_succeeded: an UPDATE by id, whatever the row's status, computed from
\* the copy; it waits for a lock another worker's SELECT holds.
SetSucceeded(w, j) ==
    /\ j \notin Locked
    /\ status' = [status EXCEPT ![j] = IF LastRun(w, j) THEN "DONE" ELSE "SCHEDULED"]
    /\ run_count' = [run_count EXCEPT ![j] = runs[w][j] + 1]
    /\ attempts' = [attempts EXCEPT ![j] = 0]
    /\ due' = due \ {j}
    /\ stale' = stale \ {j}

\* Mutant: the budget is compared with the attempts before this one.
ExhaustedOffByOne(w, j) == tries[w][j] >= MaxRetries[j]

Exhausted(w, j) == tries[w][j] + 1 >= MaxRetries[j]

\* mark_failed: likewise; the job is retried later, or fails for good.
SetFailed(w, j) ==
    /\ j \notin Locked
    /\ status' = [status EXCEPT ![j] = IF Exhausted(w, j) THEN "FAILED" ELSE "SCHEDULED"]
    /\ attempts' = [attempts EXCEPT ![j] = tries[w][j] + 1]
    /\ due' = due \ {j}
    /\ stale' = stale \ {j}
    /\ failures' = [failures EXCEPT ![j] = @ + 1]
    /\ UNCHANGED run_count

\* The job is done with; on to the next one of the batch.
Release(w, j) ==
    /\ hand' = [hand EXCEPT ![w][j] = "none"]
    /\ runs' = [runs EXCEPT ![w][j] = 0]
    /\ tries' = [tries EXCEPT ![w][j] = 0]

MarkSucceeded(w, j) ==
    /\ w \in up
    /\ hand[w][j] = "fired"
    /\ SetSucceeded(w, j)
    /\ Release(w, j)
    /\ UNCHANGED <<up, histVars, faults>>

MarkFailed(w, j) ==
    /\ w \in up
    /\ hand[w][j] = "raised"
    /\ SetFailed(w, j)
    /\ Release(w, j)
    /\ UNCHANGED <<up, fires, resets, faults>>

\* Whichever mark the job is up for, applied.
SetMarked(w, j) ==
    \/ hand[w][j] = "fired" /\ SetSucceeded(w, j) /\ UNCHANGED failures
    \/ hand[w][j] = "raised" /\ SetFailed(w, j)

\* compute_next_run or a mark raises, and the exception ends the poll: the
\* rest of the batch is left RUNNING.  A lost commit may have happened.
MarkError(w, j) ==
    /\ w \in up
    /\ hand[w][j] \in {"fired", "raised"}
    /\ Fault
    /\ SetMarked(w, j) \/ UNCHANGED <<rowVars, failures>>
    /\ Drop(w)
    /\ UNCHANGED <<up, fires, resets>>

----------------------------------------------------------------------------
(* Stop, crash and restart; maintenance; the claim timeout *)

\* SchedulerPoller.stop, or a crash of the process.
Stop(w) ==
    /\ w \in up
    /\ Fault
    /\ up' = up \ {w}
    /\ UNCHANGED <<rowVars, workerVars, histVars>>

\* The worker is cancelled in whatever it awaits; what it had asked the
\* database or the channel for may have happened.
CancelWorker(w) ==
    /\ w \notin up
    /\ ~Idle(w)
    /\ \/ UNCHANGED <<rowVars, fires, failures>>
       \/ /\ Selected(w) # {}
          /\ ClaimRows(Selected(w))
          /\ UNCHANGED <<run_count, attempts, due, fires, failures>>
       \/ \E j \in Jobs : Ready(w, j) /\ Fire(w, j) /\ UNCHANGED <<rowVars, failures>>
       \/ \E j \in Jobs : SetMarked(w, j) /\ UNCHANGED fires
    /\ Drop(w)
    /\ UNCHANGED <<up, resets, faults>>

\* The supervisor starts the process again.
Start(w) ==
    /\ w \notin up
    /\ Idle(w)
    /\ up' = up \cup {w}
    /\ UNCHANGED <<rowVars, workerVars, histVars, faults>>

\* Mutant: the reset looks at claimed_at only, and takes it as never cleared.
StaleJobsAnyStatus == {j \in Jobs : status[j] \notin {"none", "SCHEDULED"}}

\* Mutant: the reset looks for FAILED jobs instead.
StaleJobsFailed == {j \in stale : status[j] = "FAILED"}

\* The rows reset_stale_running updates.
StaleJobs == {j \in stale : status[j] = "RUNNING"}

\* reset_stale_running, from the maintenance loop of a running process.
ResetStale(w) ==
    /\ w \in up
    /\ StaleJobs # {}
    /\ status' = [j \in Jobs |-> IF j \in StaleJobs THEN "SCHEDULED" ELSE status[j]]
    /\ stale' = stale \ StaleJobs
    /\ resets' = [j \in Jobs |-> IF j \in StaleJobs THEN resets[j] + 1 ELSE resets[j]]
    /\ UNCHANGED <<run_count, attempts, due, up, workerVars, fires, failures, faults>>

\* A worker still has the claimed job in its batch.
Held(j) == \E w \in Workers : hand[w][j] \in {"claimed", "fired", "raised"}

GoStale(j) ==
    /\ status[j] = "RUNNING" /\ j \notin stale
    /\ stale' = stale \cup {j}
    /\ UNCHANGED <<status, run_count, attempts, due, up, workerVars, histVars>>

\* The claim timeout passes for a claim nobody works on any more...
TimeoutAbandoned(j) == ~Held(j) /\ GoStale(j) /\ UNCHANGED faults

\* ... or for one a slow worker is still busy with.
TimeoutHeld(j) == Held(j) /\ GoStale(j) /\ Fault

----------------------------------------------------------------------------

\* What a worker does when nothing fails.
Work(w) ==
    \/ SelectDue(w)
    \/ ClaimDue(w)
    \/ \E j \in Jobs : DispatchOk(w, j) \/ MarkSucceeded(w, j) \/ MarkFailed(w, j)

Next ==
    \/ \E j \in Jobs :
        \/ Create(j)
        \/ Cancel(j)
        \/ Elapse(j)
        \/ TimeoutAbandoned(j)
        \/ TimeoutHeld(j)
    \/ \E w \in Workers :
        \/ SelectDue(w)
        \/ ClaimDue(w)
        \/ ClaimError(w)
        \/ Stop(w)
        \/ CancelWorker(w)
        \/ Start(w)
        \/ ResetStale(w)
    \/ \E w \in Workers, j \in Jobs :
        \/ DispatchOk(w, j)
        \/ DispatchError(w, j)
        \/ MarkSucceeded(w, j)
        \/ MarkFailed(w, j)
        \/ MarkError(w, j)

Spec == Init /\ [][Next]_vars

\* Tasks and maintenance loops that can run do run, cancelled tasks end,
\* processes that died are started again by their supervisor, and time passes.
Fairness ==
    /\ \A w \in Workers :
        /\ WF_vars(Work(w)) /\ WF_vars(CancelWorker(w))
        /\ WF_vars(ResetStale(w)) /\ WF_vars(Start(w))
    /\ \A j \in Jobs : WF_vars(Elapse(j)) /\ WF_vars(TimeoutAbandoned(j))

FairSpec == Spec /\ Fairness

----------------------------------------------------------------------------
(* Properties *)

\* run_count counts occurrences that really fired: none is skipped, though
\* late workers write the count back from copies (mark_succeeded).
NoOccurrenceSkipped ==
    \A j \in Jobs : \A k \in Occurrences : k < run_count[j] => fires[j][k] > 0

\* An occurrence fires again only after a failed fire or a stale claim, even
\* when a late worker sets run_count and next_run_at back.
RefiresArePaid ==
    \A j \in Jobs : \A k \in Occurrences :
        fires[j][k] <= 1 + failures[j] + resets[j]

\* Two workers have the same job in hand only if its claim was returned by the
\* maintenance loop in between.
ExclusiveClaim ==
    \A j \in Jobs : \A v, w \in Workers :
        hand[v][j] # "none" /\ hand[w][j] # "none" /\ v # w => resets[j] > 0

\* With no stale claim, a job fails for good exactly when its retry budget is
\* used up, and is not tried again after that (mark_failed).
RetryBudget ==
    \A j \in Jobs : resets[j] = 0 /\ j \notin Recurring =>
        /\ failures[j] <= MaxRetries[j] \/ failures[j] = 1
        /\ status[j] = "FAILED" => failures[j] >= MaxRetries[j]

\* A capped job fires no occurrence beyond max_runs, unless a stale claim let a
\* late failure reschedule the job after its last run.
CapHolds ==
    \A j \in Recurring : \A k \in Occurrences :
        MaxRuns[j] # NoCap /\ k >= MaxRuns[j] /\ k > 0 /\ fires[j][k] > 0 => resets[j] > 0

\* A finished job that no worker holds stays finished: no claim, retry or
\* reset brings it back.
TerminalAtRest ==
    [][\A j \in Jobs : status[j] \in Terminal /\ ~Held(j) =>
            status'[j] = status[j] /\ ~Held(j)']_vars

\* A capped or one-time job comes to an end once the faults stop, wherever a
\* crash, a lost mark or a slow worker left it.
EveryJobEnds ==
    \A j \in Jobs : j \notin Recurring \/ MaxRuns[j] # NoCap =>
        (status[j] = "SCHEDULED") ~> (status[j] \in Terminal)

\* What ScheduleJobStatus says of CANCELLED, it is terminal: no step, and no
\* late mark of the worker that was firing the job, puts a cancelled job back
\* among those the pollers claim and fire.
CancelledIsTerminal ==
    [][\A j \in Jobs :
        status[j] = "CANCELLED" => status'[j] \notin {"SCHEDULED", "RUNNING"}]_vars

\* Half of what the documentation of schedule_once promises ("exactly once"): a
\* one-time job never fires twice.
FiresExactlyOnce ==
    \A j \in Jobs \ Recurring : fires[j][0] <= 1
====
