---- MODULE Saga ----
(***************************************************************************)
(* The orchestration saga of the resilience library: SagaService.run with  *)
(* its compensation, and the SagaRepository that checkpoints the instance  *)
(* in the saga_state table.  Runs execute concurrently, in one process or  *)
(* in several, and may name the same saga id or the same business anchor   *)
(* (context['saga_key']).  Nothing reads a row back to resume it.          *)
(***************************************************************************)
EXTENDS Integers, FiniteSets, FiniteSetsExt

CONSTANTS
    Runs,               \* calls of SagaService.run
    Ids,                \* saga ids: generated, or passed by the caller
    NumSteps,           \* length of the definition
    Compensable,        \* steps whose compensation is not None
    MaxFaults           \* bound: failed saves and crashes

ASSUME SagaAssumption ==
    /\ NumSteps \in Nat \ {0}
    /\ Compensable \subseteq 1..NumSteps
    /\ MaxFaults \in Nat

Steps == 1..NumSteps

VARIABLES
    pc,                 \* where the run is: before which await
    id, keyed,          \* arguments: the saga id; whether it has the anchor
    inst,               \* the SagaInstance in memory
    cursor,             \* index of the step in hand, in either direction
    then,               \* what follows the save in progress
    told,               \* how the run ended for its caller
    row,                \* saga_state by saga id: [present, keyed, inst]
    effect,             \* the steps of the run with an effect in the world
    failed,             \* history: the step that failed, 0 if none
    faults              \* bound

vars == <<pc, id, keyed, inst, cursor, then, told, row, effect, failed, faults>>

args == <<id, keyed>>

SagaStatus == {"running", "completed", "compensating", "aborted", "failed"}
SagaStepStatus == {"pending", "completed", "compensated", "failed"}
SagaInstance == [status: SagaStatus, steps: [Steps -> SagaStepStatus]]

\* "action", "compensation": before that await; "saving": before a save.
Pcs == {"idle", "action", "compensation", "saving", "ended"}
Told == {"none", "completed", "aborted", "failed", "save_error", "lost"}

Created == [status |-> "running", steps |-> [s \in Steps |-> "pending"]]

TypeOK ==
    /\ pc \in [Runs -> Pcs]
    /\ id \in [Runs -> Ids]
    /\ keyed \in [Runs -> BOOLEAN]
    /\ inst \in [Runs -> SagaInstance]
    /\ cursor \in [Runs -> 1..(NumSteps + 1)]
    /\ then \in [Runs -> {"action", "compensation", "completed", "aborted", "failed"}]
    /\ told \in [Runs -> Told]
    /\ row \in [Ids -> [present: BOOLEAN, keyed: BOOLEAN, inst: SagaInstance]]
    /\ effect \in [Runs -> SUBSET Steps]
    /\ failed \in [Runs -> 0..NumSteps]
    /\ faults \in 0..MaxFaults

Init ==
    /\ pc = [r \in Runs |-> "idle"]
    /\ id \in [Runs -> Ids]
    /\ keyed \in [Runs -> BOOLEAN]
    /\ inst = [r \in Runs |-> Created]
    /\ cursor = [r \in Runs |-> 1]
    /\ then = [r \in Runs |-> "action"]
    /\ told = [r \in Runs |-> "none"]
    /\ row = [i \in Ids |-> [present |-> FALSE, keyed |-> FALSE, inst |-> Created]]
    /\ effect = [r \in Runs |-> {}]
    /\ failed = [r \in Runs |-> 0]
    /\ faults = 0

-----------------------------------------------------------------------------
(* The repository *)

\* save: INSERT ... ON CONFLICT (saga_id) DO UPDATE, in its own transaction.
Write(r) ==
    row' = [row EXCEPT ![id[r]] =
        [present |-> TRUE, inst |-> inst[r],
         keyed |-> IF @.present THEN @.keyed ELSE keyed[r]]]

\* Mutant: without the unique constraint on (name, saga_key).
AnchorNeverTaken(r) == FALSE

\* uq_saga_name_key: the anchor belongs to the row of another id.  The
\* conflict clause names saga_id alone, so the INSERT raises.
AnchorTaken(r) ==
    /\ keyed[r] /\ ~row[id[r]].present
    /\ \E i \in Ids : row[i].present /\ row[i].keyed

\* _current_step: the first step that is not completed, NumSteps + 1 if none.
CurrentStep(steps) ==
    Min({s \in Steps : steps[s] # "completed"} \cup {NumSteps + 1})

-----------------------------------------------------------------------------
(* SagaService.run *)

End(r, how) ==
    /\ pc' = [pc EXCEPT ![r] = "ended"]
    /\ told' = [told EXCEPT ![r] = how]

\* The coroutine stops before `await save(instance)`; next says what follows.
SaveThen(r, instance, next) ==
    /\ inst' = [inst EXCEPT ![r] = instance]
    /\ then' = [then EXCEPT ![r] = next]
    /\ pc' = [pc EXCEPT ![r] = "saving"]

Start(r) ==
    /\ pc[r] = "idle"
    /\ SaveThen(r, Created, "action")
    /\ UNCHANGED <<args, cursor, told, row, effect, failed, faults>>

\* A save that ends the run returns or raises there; any other goes on.
Continue(r) ==
    IF then[r] \in {"action", "compensation"}
    THEN pc' = [pc EXCEPT ![r] = then[r]] /\ UNCHANGED told
    ELSE End(r, then[r])

SaveSucceeds(r) ==
    /\ pc[r] = "saving"
    /\ ~AnchorTaken(r)
    /\ Write(r)
    /\ Continue(r)
    /\ UNCHANGED <<args, inst, cursor, then, effect, failed, faults>>

\* The exception leaves run (or _compensate) without any compensation.
SaveRefused(r) ==
    /\ pc[r] = "saving"
    /\ AnchorTaken(r)
    /\ End(r, "save_error")
    /\ UNCHANGED <<args, inst, cursor, then, row, effect, failed, faults>>

\* The database fails, or the task is cancelled in the save; the row may
\* have been written before the answer was lost.
SaveFails(r) ==
    /\ pc[r] = "saving" /\ ~AnchorTaken(r)
    /\ faults < MaxFaults
    /\ faults' = faults + 1
    /\ Write(r) \/ UNCHANGED row
    /\ End(r, "save_error")
    /\ UNCHANGED <<args, inst, cursor, then, effect, failed>>

\* Mutant: the loop over the steps runs once more.
HasStepOneMore(r) == cursor[r] <= NumSteps + 1

HasStep(r) == cursor[r] <= NumSteps

\* Mutant: the loop goes on to the next step without a checkpoint.
StepDoneUnsaved(r) ==
    /\ inst' = [inst EXCEPT ![r].steps[cursor[r]] = "completed"]
    /\ UNCHANGED <<pc, then>>

StepDone(r) ==
    SaveThen(r, [inst[r] EXCEPT !.steps[cursor[r]] = "completed"], "action")

ActionSucceeds(r) ==
    /\ pc[r] = "action" /\ HasStep(r)
    /\ effect' = [effect EXCEPT ![r] = @ \cup {cursor[r]}]
    /\ cursor' = [cursor EXCEPT ![r] = @ + 1]
    /\ StepDone(r)
    /\ UNCHANGED <<args, told, row, failed, faults>>

\* `except BaseException`: an error or a cancellation, before or after the
\* action took effect.
ActionFails(r) ==
    /\ pc[r] = "action" /\ HasStep(r)
    /\ effect' \in {effect, [effect EXCEPT ![r] = @ \cup {cursor[r]}]}
    /\ failed' = [failed EXCEPT ![r] = cursor[r]]
    /\ SaveThen(r, [inst[r] EXCEPT !.steps[cursor[r]] = "failed",
                                   !.status = "compensating"], "compensation")
    /\ UNCHANGED <<args, cursor, told, row, faults>>

AllStepsDone(r) ==
    /\ pc[r] = "action" /\ ~HasStep(r)
    /\ SaveThen(r, [inst[r] EXCEPT !.status = "completed"], "completed")
    /\ UNCHANGED <<args, cursor, told, row, effect, failed, faults>>

-----------------------------------------------------------------------------
(* SagaService._compensate *)

\* The steps range(failed_index - 1, -1, -1) has left and does not skip.
Undoable(r) ==
    {s \in Compensable : s < cursor[r] /\ inst[r].steps[s] = "completed"}

\* Mutant: the compensations run first step first.
OldestUndoable(r) == Min(Undoable(r))

NextUndoable(r) == Max(Undoable(r))

\* Mutant: the loop ends when one compensation is left.
NothingLeftEarly(r) == Cardinality(Undoable(r)) <= 1

NothingLeft(r) == Undoable(r) = {}

CompensationSucceeds(r) ==
    /\ pc[r] = "compensation" /\ ~NothingLeft(r)
    /\ LET s == NextUndoable(r) IN
        /\ effect' = [effect EXCEPT ![r] = @ \ {s}]
        /\ cursor' = [cursor EXCEPT ![r] = s]
        /\ inst' = [inst EXCEPT ![r].steps[s] = "compensated"]
    /\ UNCHANGED <<args, pc, then, told, row, failed, faults>>

\* The record keeps its status; SagaCompensationError follows the save.
CompensationFails(r) ==
    /\ pc[r] = "compensation" /\ ~NothingLeft(r)
    /\ effect' \in {effect, [effect EXCEPT ![r] = @ \ {NextUndoable(r)}]}
    /\ SaveThen(r, [inst[r] EXCEPT !.status = "failed"], "failed")
    /\ UNCHANGED <<args, cursor, told, row, failed, faults>>

\* Mutant: ABORTED is set in memory and returned, and not saved.
AbortUnsaved(r) ==
    /\ inst' = [inst EXCEPT ![r].status = "aborted"]
    /\ End(r, "aborted")
    /\ UNCHANGED then

Abort(r) ==
    /\ SaveThen(r, [inst[r] EXCEPT !.status = "aborted"], "aborted")
    /\ UNCHANGED told

\* SagaAbortedError, or the instance when raise_on_abort is false, follows.
CompensationEnds(r) ==
    /\ pc[r] = "compensation" /\ NothingLeft(r)
    /\ Abort(r)
    /\ UNCHANGED <<args, cursor, row, effect, failed, faults>>

-----------------------------------------------------------------------------

\* The process dies; a save it had sent may still be applied.
Crash(r) ==
    /\ pc[r] \notin {"idle", "ended"}
    /\ faults < MaxFaults
    /\ faults' = faults + 1
    /\ \/ UNCHANGED row
       \/ pc[r] = "saving" /\ ~AnchorTaken(r) /\ Write(r)
    /\ End(r, "lost")
    /\ UNCHANGED <<args, inst, cursor, then, effect, failed>>

Progress(r) ==
    \/ SaveSucceeds(r) \/ SaveRefused(r)
    \/ ActionSucceeds(r) \/ ActionFails(r) \/ AllStepsDone(r)
    \/ CompensationSucceeds(r) \/ CompensationFails(r) \/ CompensationEnds(r)

Next == \E r \in Runs : Start(r) \/ Progress(r) \/ SaveFails(r) \/ Crash(r)

\* The event loop resumes a run whose await has an answer; actions,
\* compensations and saves do answer.  No run need ever be started.
Fairness == \A r \in Runs : WF_vars(Progress(r))

Spec == Init /\ [][Next]_vars /\ Fairness

-----------------------------------------------------------------------------
(* Properties *)

\* A caller that is told COMPLETED finds the effects of all steps; one that is
\* told ABORTED finds none but those of steps without a compensation and of
\* the step that failed, which _compensate never visits (saga.py:212).  Any
\* other leftover comes with an exception or a dead process.
NoSilentLeftovers ==
    \A r \in Runs :
        /\ told[r] = "completed" => effect[r] = Steps
        /\ told[r] = "aborted" => effect[r] \cap Compensable \subseteq {failed[r]}

SoleRun(r) == \A q \in Runs \ {r} : id[q] # id[r] \/ pc[q] = "idle"

\* What a crash leaves to whoever would resume the saga from its row: while it
\* says RUNNING, every step before the resume pointer current_step has its
\* effect, and of the others only the one it names can have one, if no other
\* run has that saga id.
ResumePointerIsSafe ==
    \A r \in Runs :
        LET saved == row[id[r]] IN
        (SoleRun(r) /\ saved.present /\ saved.inst.status = "running") =>
            LET p == CurrentStep(saved.inst.steps) IN
            /\ 1..(p - 1) \subseteq effect[r]
            /\ effect[r] \subseteq 1..p

\* The row of a run that ended by itself says what its caller was told: the
\* last save of run and of _compensate precedes the return or the exception,
\* unless another run with that saga id has written since.
ToldIsRecorded ==
    \A r \in Runs :
        (told[r] \in {"completed", "aborted", "failed"} /\ SoleRun(r)) =>
            /\ row[id[r]].present
            /\ row[id[r]].inst = inst[r]
            /\ inst[r].status = told[r]

\* "One live saga per (name, key)": of two runs for one business anchor under
\* different saga ids at most one ever takes effect, whatever becomes of the
\* first; the other is refused at its first save.
OneSagaPerAnchor ==
    \A r, q \in Runs :
        (keyed[r] /\ keyed[q] /\ id[r] # id[q] /\ SoleRun(r) /\ SoleRun(q))
            => effect[r] = {} \/ effect[q] = {}

\* How far a run is, in the terms of SagaContract.
Phase(r) ==
    IF pc[r] = "idle" THEN "new"
    ELSE IF pc[r] = "ended"
         THEN IF told[r] \in {"completed", "aborted"} THEN told[r] ELSE "broken"
    ELSE IF failed[r] = 0 THEN "forward" ELSE "undoing"

Contract == INSTANCE SagaContract WITH
    phase <- [r \in Runs |-> Phase(r)], done <- effect

\* Each run, in step with the others and under crashes and failing saves,
\* implements the promise of saga.py:4: all steps in order, or the completed
\* ones compensated in reverse, or a reported break; and it gets there.
ContractSpec == Contract!Spec
====
