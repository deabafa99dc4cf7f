---- MODULE SagaContract ----
(***************************************************************************)
(* What a saga promises its caller, without rows, checkpoints or retries:  *)
(* the steps take effect in order; either all of them do, or the run gives *)
(* up and takes the effects back, latest first, except those of steps that *)
(* cannot be compensated and of the step that failed; or the run breaks    *)
(* and says so, or dies.  A run that has begun does not stay undecided.    *)
(*                                                                         *)
(* Saga (the executor and its checkpoints) is shown to implement this.     *)
(***************************************************************************)
EXTENDS Naturals

CONSTANTS
    Runs,               \* executions of a saga definition
    NumSteps,           \* length of the definition
    Compensable         \* the steps with a compensation

Steps == 1..NumSteps

VARIABLES
    phase,              \* phase[r]: how far the run is
    done,               \* done[r]: the steps whose effect is in the world
    failed              \* failed[r]: the step that failed, 0 if none

vars == <<phase, done, failed>>

Decided == {"completed", "aborted", "broken"}

Init ==
    /\ phase = [r \in Runs |-> "new"]
    /\ done = [r \in Runs |-> {}]
    /\ failed = [r \in Runs |-> 0]

Become(r, from, to) ==
    /\ phase[r] = from
    /\ phase' = [phase EXCEPT ![r] = to]

Begin(r) == Become(r, "new", "forward") /\ UNCHANGED <<done, failed>>

\* The steps before s have taken effect and s has not.
Upcoming(r, s) == done[r] = 1..(s - 1)

Do(r, s) ==
    /\ phase[r] = "forward"
    /\ Upcoming(r, s)
    /\ done' = [done EXCEPT ![r] = @ \cup {s}]
    /\ UNCHANGED <<phase, failed>>

\* A failing step may or may not have left its effect.
GiveUp(r, s) ==
    /\ Become(r, "forward", "undoing")
    /\ Upcoming(r, s)
    /\ failed' = [failed EXCEPT ![r] = s]
    /\ done' \in {done, [done EXCEPT ![r] = @ \cup {s}]}

Owed(r) == (done[r] \cap Compensable) \ {failed[r]}

Undo(r, s) ==
    /\ phase[r] = "undoing"
    /\ s \in Owed(r)
    /\ \A t \in Owed(r) : t <= s
    /\ done' = [done EXCEPT ![r] = @ \ {s}]
    /\ UNCHANGED <<phase, failed>>

Complete(r) ==
    /\ Become(r, "forward", "completed")
    /\ done[r] = Steps
    /\ UNCHANGED <<done, failed>>

Abort(r) ==
    /\ Become(r, "undoing", "aborted")
    /\ Owed(r) = {}
    /\ UNCHANGED <<done, failed>>

\* A compensation or a checkpoint fails, or the process dies.
Break(r) ==
    /\ phase[r] \notin Decided
    /\ phase' = [phase EXCEPT ![r] = "broken"]
    /\ UNCHANGED <<done, failed>>

Next ==
    \E r \in Runs :
        \/ Begin(r) \/ Complete(r) \/ Abort(r) \/ Break(r)
        \/ \E s \in Steps : Do(r, s) \/ GiveUp(r, s) \/ Undo(r, s)

Live == \A r \in Runs : phase[r] \in {"forward", "undoing"} ~> phase[r] \in Decided

Spec == Init /\ [][Next]_vars /\ Live
====
