---- MODULE SagaProofs ----
(***************************************************************************)
(* What the saga orchestrator guarantees for any number of runs, saga ids, *)
(* steps and faults, and the safety part of its refinement of SagaContract.*)
(*                                                                         *)
(* RunInv is about one run and no row: until a step fails the instance and *)
(* the effects are the prefix below the cursor (GoesForward), afterwards   *)
(* what lies between the cursor and the failed step has been taken back    *)
(* (GoesBack).  RowInv ties the runs to the table: who may write a row,    *)
(* and how far the row of a run that is alone with its id lags behind.     *)
(***************************************************************************)
EXTENDS Saga, WellFoundedInduction, TLAPS

\* The instance of a run that has completed the steps before k.
Prefix(k) == [s \in Steps |-> IF s < k THEN "completed" ELSE "pending"]

GoesForward(r) ==
    /\ pc[r] # "compensation"
    /\ inst[r].steps = Prefix(cursor[r])
    /\ effect[r] = 1..(cursor[r] - 1)
    /\ pc[r] = "idle" => cursor[r] = 1
    /\ \/ then[r] = "action" /\ inst[r].status = "running"
       \/ /\ then[r] = "completed" /\ inst[r].status = "completed"
          /\ pc[r] \in {"saving", "ended"} /\ cursor[r] = NumSteps + 1

\* What has become of a step before the failed one.
Unwound(r, s) ==
    IF s < cursor[r] \/ s \notin Compensable
    THEN inst[r].steps[s] = "completed" ELSE inst[r].steps[s] = "compensated"

GoesBack(r) ==
    /\ pc[r] \in {"compensation", "saving", "ended"}
    /\ cursor[r] <= failed[r]
    /\ inst[r].steps[failed[r]] = "failed"
    /\ \A s \in 1..(failed[r] - 1) : Unwound(r, s)
    /\ effect[r] \subseteq 1..failed[r]
    /\ inst[r].status # "failed" =>
        \A s \in 1..(failed[r] - 1) : s \in effect[r] <=> inst[r].steps[s] = "completed"
    /\ \/ then[r] = "compensation" /\ inst[r].status = "compensating"
       \/ /\ then[r] = "aborted" /\ inst[r].status = "aborted"
          /\ pc[r] \in {"saving", "ended"} /\ Undoable(r) = {}
       \/ /\ then[r] = "failed" /\ inst[r].status = "failed"
          /\ pc[r] \in {"saving", "ended"}

Answered(r) ==
    /\ pc[r] # "ended" => told[r] = "none"
    /\ pc[r] = "ended" => told[r] \in {then[r], "save_error", "lost"}
    /\ told[r] \notin {"action", "compensation"}

RunOK(r) ==
    /\ failed[r] = 0 => GoesForward(r)
    /\ failed[r] # 0 => GoesBack(r)
    /\ Answered(r)

RunInv == \A r \in Runs : RunOK(r)

\* A row is there because a run with its id has started.
RowHasWriter ==
    \A i \in Ids : row[i].present => \E q \in Runs : id[q] = i /\ pc[q] # "idle"

\* A run acts only after its row was saved.
SavedFirst ==
    \A r \in Runs :
        (pc[r] \in {"action", "compensation"} \/ effect[r] # {}) => row[id[r]].present

AnchorsDiffer ==
    \A i, j \in Ids :
        (row[i].present /\ row[i].keyed /\ row[j].present /\ row[j].keyed) => i = j

\* The row tells the anchor of the run that is alone with its id.
RowOfSoleRun ==
    \A r \in Runs : (SoleRun(r) /\ row[id[r]].present) => row[id[r]].keyed = keyed[r]

\* How far that row is behind the run.
RowLags(r) ==
    /\ pc[r] = "action" => row[id[r]].inst = inst[r]
    /\ pc[r] = "compensation" => row[id[r]].inst.status # "running"
    /\ told[r] \in {"completed", "aborted", "failed"} => row[id[r]].inst = inst[r]
    /\ row[id[r]].inst.status = "running" =>
        \E k \in 1..(NumSteps + 1) :
            /\ row[id[r]].inst.steps = Prefix(k)
            /\ 1..(k - 1) \subseteq effect[r]
            /\ effect[r] \subseteq 1..k

RowInv ==
    /\ RowHasWriter
    /\ SavedFirst
    /\ AnchorsDiffer
    /\ RowOfSoleRun
    /\ \A r \in Runs : told[r] \in {"completed", "aborted", "failed"} => row[id[r]].present
    /\ \A r \in Runs : (SoleRun(r) /\ row[id[r]].present) => RowLags(r)

----------------------------------------------------------------------------

\* A set of steps that is not empty has a greatest element, which Max returns.
LEMMA MaxOfSteps ==
  ASSUME NEW S, S \subseteq Steps, S # {}
  PROVE  Max(S) \in S /\ \A y \in S : y <= Max(S)
<1> DEFINE T == {NumSteps - y : y \in S}
<1>0. NumSteps \in Nat
  BY SagaAssumption DEF SagaAssumption
<1>1. T \subseteq Nat /\ T # {}
  <2>1. PICK y \in S : TRUE
    OBVIOUS
  <2>2. NumSteps - y \in T
    BY <2>1
  <2>3. T \subseteq Nat
    BY <1>0 DEF Steps
  <2> QED BY <2>2, <2>3
<1> DEFINE R == {p \in Nat \X Nat : p[1] < p[2]}
<1>a. IsWellFoundedOn(R, Nat)
  BY NatLessThanWellFounded DEF OpToRel
<1>2. PICK t \in T : \A u \in T : ~(<<u, t>> \in R)
  <2> HIDE DEF T, R
  <2> QED BY <1>1, <1>a, WFMin
<1>3. \A u \in T : ~(u < t)
  BY <1>1, <1>2
<1>4. PICK x \in S : t = NumSteps - x
  BY <1>2
<1>5. \A y \in S : x >= y
  BY <1>0, <1>3, <1>4 DEF Steps
<1>6. Max(S) \in S /\ \A y \in S : Max(S) >= y
  BY <1>5 DEF Max
<1> QED BY <1>0, <1>6 DEF Steps

\* Completing the next step extends the prefix.
LEMMA PrefixExtends ==
  ASSUME NEW k \in Steps
  PROVE  [Prefix(k) EXCEPT ![k] = "completed"] = Prefix(k + 1)
<1>0. NumSteps \in Nat
  BY SagaAssumption DEF SagaAssumption
<1>1. \A s \in Steps : s < k + 1 <=> s < k \/ s = k
  BY <1>0 DEF Steps
<1> QED BY <1>1 DEF Prefix

\* The resume pointer of a prefix is the first step after it.
LEMMA CurrentStepOfPrefix ==
  ASSUME NEW k \in 1..(NumSteps + 1)
  PROVE  CurrentStep(Prefix(k)) = k
<1> DEFINE S == {s \in Steps : Prefix(k)[s] # "completed"} \cup {NumSteps + 1}
<1>0. NumSteps \in Nat
  BY SagaAssumption DEF SagaAssumption
<1>1. S = k..(NumSteps + 1)
  BY <1>0 DEF Steps, Prefix
<1>2. k \in S /\ \A y \in S : k <= y
  BY <1>0, <1>1
<1>3. \A x \in S : (\A y \in S : x <= y) => x = k
  BY <1>0, <1>1
<1>4. Min(S) = k
  BY <1>2, <1>3 DEF Min
<1> QED BY <1>4 DEF CurrentStep

----------------------------------------------------------------------------

\* The type invariant holds initially.
LEMMA TypeInit == Init => TypeOK
  BY SagaAssumption
  DEF Init, TypeOK, SagaAssumption, Pcs, Told, Created, SagaInstance, SagaStatus,
      SagaStepStatus, Steps

\* Marking an instance gives an instance.
LEMMA MarkStatus ==
  ASSUME NEW x \in SagaInstance, NEW st \in SagaStatus
  PROVE  /\ [x EXCEPT !.status = st] \in SagaInstance
         /\ [x EXCEPT !.status = st].status = st
         /\ [x EXCEPT !.status = st].steps = x.steps
  BY DEF SagaInstance

\* The same for one of its steps.
LEMMA MarkStep ==
  ASSUME NEW x \in SagaInstance, NEW s \in Steps, NEW v \in SagaStepStatus
  PROVE  /\ [x EXCEPT !.steps[s] = v] \in SagaInstance
         /\ [x EXCEPT !.steps[s] = v].status = x.status
         /\ [x EXCEPT !.steps[s] = v].steps = [x.steps EXCEPT ![s] = v]
  BY DEF SagaInstance

\* Writing a row keeps the table well-typed.
LEMMA WriteType ==
  ASSUME TypeOK, NEW r \in Runs, Write(r)
  PROVE  row' \in [Ids -> [present: BOOLEAN, keyed: BOOLEAN, inst: SagaInstance]]
  BY DEF TypeOK, Write

\* Every step of a run, of the table and of a failing process preserves it.
LEMMA TypeStep == TypeOK /\ [Next]_vars => TypeOK'
<1> SUFFICES ASSUME TypeOK, [Next]_vars PROVE TypeOK'
  OBVIOUS
<1>0. NumSteps \in Nat \ {0} /\ MaxFaults \in Nat
  BY SagaAssumption DEF SagaAssumption
<1> USE DEF args, Pcs, Told
<1>1. ASSUME NEW r \in Runs, Start(r) PROVE TypeOK'
  <2>1. Created \in SagaInstance
    BY DEF Created, SagaInstance, SagaStatus, SagaStepStatus
  <2> QED BY <1>1, <2>1 DEF TypeOK, Start, SaveThen
<1>2. ASSUME NEW r \in Runs, SaveSucceeds(r) PROVE TypeOK'
  BY <1>2, WriteType DEF TypeOK, SaveSucceeds, Continue, End
<1>3. ASSUME NEW r \in Runs, SaveRefused(r) PROVE TypeOK'
  BY <1>3 DEF TypeOK, SaveRefused, End
<1>4. ASSUME NEW r \in Runs, SaveFails(r) PROVE TypeOK'
  BY <1>0, <1>4, WriteType DEF TypeOK, SaveFails, End
<1>5. ASSUME NEW r \in Runs, ActionSucceeds(r) PROVE TypeOK'
  <2>1. cursor[r] \in Steps
    BY <1>0, <1>5 DEF TypeOK, ActionSucceeds, HasStep, Steps
  <2>2. [inst[r] EXCEPT !.steps[cursor[r]] = "completed"] \in SagaInstance
    BY <2>1, MarkStep DEF TypeOK, SagaStepStatus
  <2> QED BY <1>0, <1>5, <2>1, <2>2
          DEF TypeOK, ActionSucceeds, StepDone, SaveThen, Steps
<1>6. ASSUME NEW r \in Runs, ActionFails(r) PROVE TypeOK'
  <2>1. cursor[r] \in Steps
    BY <1>0, <1>6 DEF TypeOK, ActionFails, HasStep, Steps
  <2>2. [inst[r] EXCEPT !.steps[cursor[r]] = "failed", !.status = "compensating"]
            \in SagaInstance
    BY <2>1, MarkStep, MarkStatus DEF TypeOK, SagaStepStatus, SagaStatus
  <2> QED BY <1>0, <1>6, <2>1, <2>2 DEF TypeOK, ActionFails, SaveThen, Steps
<1>7. ASSUME NEW r \in Runs, AllStepsDone(r) PROVE TypeOK'
  <2>1. [inst[r] EXCEPT !.status = "completed"] \in SagaInstance
    BY MarkStatus DEF TypeOK, SagaStatus
  <2> QED BY <1>7, <2>1 DEF TypeOK, AllStepsDone, SaveThen
<1>8. ASSUME NEW r \in Runs, CompensationSucceeds(r) PROVE TypeOK'
  <2>1. NextUndoable(r) \in Steps
    BY <1>8, MaxOfSteps, SagaAssumption
    DEF CompensationSucceeds, NothingLeft, NextUndoable, Undoable, SagaAssumption, Steps
  <2>2. [inst[r] EXCEPT !.steps[NextUndoable(r)] = "compensated"] \in SagaInstance
    BY <2>1, MarkStep DEF TypeOK, SagaStepStatus
  <2>3. inst' = [inst EXCEPT ![r] = [inst[r] EXCEPT !.steps[NextUndoable(r)] = "compensated"]]
    BY <1>8 DEF CompensationSucceeds
  <2>4. NextUndoable(r) \in 1..(NumSteps + 1)
    BY <1>0, <2>1 DEF Steps
  <2> QED BY <1>8, <2>2, <2>3, <2>4 DEF TypeOK, CompensationSucceeds
<1>9. ASSUME NEW r \in Runs, CompensationFails(r) PROVE TypeOK'
  <2>1. [inst[r] EXCEPT !.status = "failed"] \in SagaInstance
    BY MarkStatus DEF TypeOK, SagaStatus
  <2> QED BY <1>9, <2>1 DEF TypeOK, CompensationFails, SaveThen
<1>10. ASSUME NEW r \in Runs, CompensationEnds(r) PROVE TypeOK'
  <2>1. [inst[r] EXCEPT !.status = "aborted"] \in SagaInstance
    BY MarkStatus DEF TypeOK, SagaStatus
  <2> QED BY <1>10, <2>1 DEF TypeOK, CompensationEnds, Abort, SaveThen
<1>11. ASSUME NEW r \in Runs, Crash(r) PROVE TypeOK'
  BY <1>0, <1>11, WriteType DEF TypeOK, Crash, End
<1>12. CASE UNCHANGED vars
  BY <1>12 DEF TypeOK, vars
<1> QED
  BY <1>1, <1>2, <1>3, <1>4, <1>5, <1>6, <1>7, <1>8, <1>9, <1>10, <1>11, <1>12
  DEF Next, Progress

\* Type correctness of the orchestrator, its checkpoints and its compensation.
THEOREM SagaTypeCorrect == Spec => []TypeOK
  BY TypeInit, TypeStep, PTL DEF Spec

----------------------------------------------------------------------------

\* A step of r leaves every other run alone, and no run becomes idle again.
OnlyMoves(r) ==
    /\ UNCHANGED args
    /\ pc'[r] # "idle"
    /\ \A q \in Runs \ {r} :
        /\ pc'[q] = pc[q] /\ inst'[q] = inst[q] /\ cursor'[q] = cursor[q]
        /\ then'[q] = then[q] /\ told'[q] = told[q] /\ effect'[q] = effect[q]
        /\ failed'[q] = failed[q]

\* Every action of a run is such a step.
LEMMA StepMovesOne ==
  ASSUME TypeOK, NEW r \in Runs, Start(r) \/ Progress(r) \/ SaveFails(r) \/ Crash(r)
  PROVE  OnlyMoves(r)
  BY DEF TypeOK, OnlyMoves, args, Start, Progress, SaveSucceeds, SaveRefused, SaveFails,
         ActionSucceeds, ActionFails, AllStepsDone, CompensationSucceeds,
         CompensationFails, CompensationEnds, Crash, SaveThen, Continue, End, StepDone,
         Abort

\* A run that does not move stays as it was.
LEMMA RunFrame ==
  ASSUME NEW q \in Runs, RunOK(q),
         pc'[q] = pc[q], inst'[q] = inst[q], cursor'[q] = cursor[q],
         then'[q] = then[q], told'[q] = told[q], effect'[q] = effect[q],
         failed'[q] = failed[q]
  PROVE  RunOK(q)'
  BY DEF RunOK, GoesForward, GoesBack, Unwound, Undoable, Answered

\* The properties of single runs hold initially.
LEMMA RunInvInit == Init => RunInv
<1> SUFFICES ASSUME Init, NEW r \in Runs PROVE RunOK(r)
  BY DEF RunInv
<1>1. inst[r].steps = Prefix(cursor[r]) /\ inst[r].status = "running"
  BY SagaAssumption DEF Init, Created, Prefix, SagaAssumption, Steps
<1>2. effect[r] = 1..(cursor[r] - 1)
  BY DEF Init
<1> QED BY <1>1, <1>2 DEF Init, RunOK, GoesForward, Answered

\* A run that ends, told by its last save or broken off, keeps its effects.
LEMMA RunEnds ==
  ASSUME TypeOK, NEW r \in Runs, RunOK(r), pc[r] \notin {"idle", "ended"},
         NEW how, End(r, how),
         \/ how \in {"save_error", "lost"}
         \/ how = then[r] /\ how \notin {"action", "compensation"},
         UNCHANGED <<inst, cursor, then, effect, failed>>
  PROVE  RunOK(r)'
  BY DEF TypeOK, RunOK, GoesForward, GoesBack, Unwound, Undoable, Answered, End, Pcs

\* Every step keeps the properties of single runs: a step forward extends the
\* prefix, a failure turns round at the cursor, a compensation takes the
\* greatest step that is left.
LEMMA RunInvStep == TypeOK /\ RunInv /\ [Next]_vars => RunInv'
<1> SUFFICES ASSUME TypeOK, RunInv, [Next]_vars PROVE RunInv'
  OBVIOUS
<1>0. NumSteps \in Nat \ {0} /\ Compensable \subseteq Steps
  BY SagaAssumption DEF SagaAssumption, Steps
<1>1. ASSUME NEW r \in Runs, NEW q \in Runs, q # r,
             Start(r) \/ Progress(r) \/ SaveFails(r) \/ Crash(r)
      PROVE  RunOK(q)'
  BY <1>1, StepMovesOne, RunFrame DEF RunInv, OnlyMoves
<1> SUFFICES ASSUME NEW r \in Runs, Start(r) \/ Progress(r) \/ SaveFails(r) \/ Crash(r)
             PROVE  RunOK(r)'
  <2>1. CASE UNCHANGED vars
    BY <2>1, RunFrame DEF vars, RunInv
  <2>2. CASE Next
    BY <1>1, <2>2 DEF Next, RunInv
  <2> QED BY <2>1, <2>2
<1>2. RunOK(r)
  BY DEF RunInv
<1>i. inst[r] \in SagaInstance /\ inst[r].steps \in [Steps -> SagaStepStatus]
  BY DEF TypeOK, SagaInstance
<1>3. CASE Start(r)
  <2>1. inst'[r] = Created /\ then'[r] = "action" /\ pc'[r] = "saving"
    BY <1>3 DEF TypeOK, Start, SaveThen
  <2>2. failed[r] = 0 /\ cursor[r] = 1
    BY <1>2, <1>3 DEF RunOK, GoesForward, GoesBack, Start
  <2>3. Created.steps = Prefix(1) /\ Created.status = "running"
    BY <1>0 DEF Created, Prefix, Steps
  <2> QED BY <1>2, <1>3, <2>1, <2>2, <2>3 DEF Start, RunOK, GoesForward, Answered
<1>4. CASE SaveSucceeds(r)
  <2>1. CASE then[r] \in {"action", "compensation"}
    BY <1>2, <1>4, <2>1
    DEF TypeOK, SaveSucceeds, Continue, RunOK, GoesForward, GoesBack, Unwound, Undoable,
        Answered
  <2>2. CASE then[r] \notin {"action", "compensation"}
    BY <1>2, <1>4, <2>2, RunEnds DEF SaveSucceeds, Continue
  <2> QED BY <2>1, <2>2
<1>5. CASE SaveRefused(r) \/ SaveFails(r)
  BY <1>2, <1>5, RunEnds DEF SaveRefused, SaveFails
<1>6. CASE Crash(r)
  BY <1>2, <1>6, RunEnds DEF Crash
<1>7. CASE ActionSucceeds(r)
  <2>1. cursor[r] \in Steps /\ pc[r] = "action"
    BY <1>0, <1>7 DEF TypeOK, ActionSucceeds, HasStep, Steps
  <2>2. failed[r] = 0 /\ GoesForward(r)
    BY <1>2, <2>1 DEF RunOK, GoesBack
  <2>3. /\ inst'[r].steps = [inst[r].steps EXCEPT ![cursor[r]] = "completed"]
        /\ inst'[r].status = inst[r].status
        /\ pc'[r] = "saving" /\ then'[r] = "action" /\ cursor'[r] = cursor[r] + 1
        /\ effect'[r] = effect[r] \cup {cursor[r]}
        /\ failed' = failed /\ told' = told
    BY <1>7, <1>i, <2>1, MarkStep DEF TypeOK, ActionSucceeds, StepDone, SaveThen, SagaStepStatus
  <2>4. inst'[r].steps = Prefix(cursor'[r])
    BY <2>1, <2>2, <2>3, PrefixExtends DEF GoesForward
  <2>5. effect'[r] = 1..(cursor'[r] - 1)
    BY <1>0, <2>1, <2>2, <2>3 DEF GoesForward, Steps
  <2>6. inst[r].status = "running" /\ told[r] = "none"
    BY <1>2, <2>1, <2>2 DEF GoesForward, RunOK, Answered
  <2>7. cursor'[r] # 1
    BY <1>0, <2>1, <2>3 DEF Steps
  <2> QED BY <2>2, <2>3, <2>4, <2>5, <2>6 DEF RunOK, GoesForward, Answered
<1>8. CASE ActionFails(r)
  <2>1. cursor[r] \in Steps /\ pc[r] = "action"
    BY <1>0, <1>8 DEF TypeOK, ActionFails, HasStep, Steps
  <2>2. failed[r] = 0 /\ GoesForward(r)
    BY <1>2, <2>1 DEF RunOK, GoesBack
  <2>3. /\ inst'[r].steps = [inst[r].steps EXCEPT ![cursor[r]] = "failed"]
        /\ inst'[r].status = "compensating"
    BY <1>8, <1>i, <2>1, MarkStep, MarkStatus
    DEF TypeOK, ActionFails, SaveThen, SagaStepStatus, SagaStatus
  <2>4. /\ pc'[r] = "saving" /\ then'[r] = "compensation" /\ cursor' = cursor
        /\ effect'[r] \in {effect[r], effect[r] \cup {cursor[r]}}
        /\ failed'[r] = cursor[r] /\ told' = told
    BY <1>8 DEF TypeOK, ActionFails, SaveThen
  <2>5. \A s \in 1..(cursor[r] - 1) : inst'[r].steps[s] = "completed"
    BY <1>0, <1>i, <2>1, <2>2, <2>3 DEF GoesForward, Prefix, Steps
  <2>6. inst'[r].steps[cursor[r]] = "failed"
    BY <1>i, <2>1, <2>3
  <2>7. /\ effect'[r] \subseteq 1..cursor[r]
        /\ \A s \in 1..(cursor[r] - 1) : s \in effect'[r]
    BY <1>0, <2>1, <2>2, <2>4 DEF GoesForward, Steps
  <2>8. \A s \in 1..(cursor[r] - 1) : s < cursor[r]
    BY <1>0, <2>1 DEF Steps
  <2>9. told[r] = "none" /\ cursor[r] # 0 /\ cursor[r] <= cursor[r]
    BY <1>0, <1>2, <2>1 DEF RunOK, Answered, Steps
  <2> QED BY <2>3, <2>4, <2>5, <2>6, <2>7, <2>8, <2>9 DEF RunOK, GoesBack, Unwound, Answered
<1>9. CASE AllStepsDone(r)
  <2>1. cursor[r] = NumSteps + 1 /\ pc[r] = "action"
    BY <1>0, <1>9 DEF TypeOK, AllStepsDone, HasStep
  <2>2. failed[r] = 0 /\ GoesForward(r)
    BY <1>2, <2>1 DEF RunOK, GoesBack
  <2>3. inst'[r].steps = inst[r].steps /\ inst'[r].status = "completed"
    BY <1>9, <1>i, MarkStatus DEF TypeOK, AllStepsDone, SaveThen, SagaStatus
  <2>4. /\ pc'[r] = "saving" /\ then'[r] = "completed" /\ cursor' = cursor
        /\ effect' = effect /\ failed' = failed /\ told' = told
    BY <1>9 DEF TypeOK, AllStepsDone, SaveThen
  <2> QED BY <1>2, <2>1, <2>2, <2>3, <2>4 DEF RunOK, GoesForward, Answered
<1>10. CASE CompensationSucceeds(r)
  <2> DEFINE s == NextUndoable(r)
  <2>1. pc[r] = "compensation" /\ failed[r] # 0 /\ GoesBack(r)
    BY <1>2, <1>10 DEF CompensationSucceeds, RunOK, GoesForward
  <2>2. s \in Undoable(r) /\ (\A y \in Undoable(r) : y <= s) /\ s \in Steps
    BY <1>0, <1>10, MaxOfSteps DEF CompensationSucceeds, NothingLeft, NextUndoable, Undoable
  <2> HIDE DEF s
  <2>3. /\ inst'[r].steps = [inst[r].steps EXCEPT ![s] = "compensated"]
        /\ inst'[r].status = inst[r].status
    BY <1>10, <1>i, <2>2, MarkStep DEF TypeOK, CompensationSucceeds, SagaStepStatus, s
  <2>4. /\ cursor'[r] = s /\ effect'[r] = effect[r] \ {s}
        /\ pc' = pc /\ then' = then /\ told' = told /\ failed' = failed
    BY <1>10 DEF TypeOK, CompensationSucceeds, s
  <2>5. s < cursor[r] /\ s \in Compensable /\ inst[r].steps[s] = "completed"
    BY <2>2 DEF Undoable
  <2>6. cursor[r] \in 1..(NumSteps + 1) /\ failed[r] \in 1..NumSteps /\ cursor[r] <= failed[r]
    BY <1>0, <2>1 DEF TypeOK, GoesBack
  <2>7. inst'[r].steps[failed[r]] = "failed"
    BY <1>0, <1>i, <2>1, <2>2, <2>3, <2>5, <2>6 DEF GoesBack, Steps
  <2>8. \A t \in 1..(failed[r] - 1) : Unwound(r, t)'
    <3> SUFFICES ASSUME NEW t \in 1..(failed[r] - 1) PROVE Unwound(r, t)'
      OBVIOUS
    <3>1. Unwound(r, t) /\ t \in Steps
      BY <1>0, <2>1, <2>6 DEF GoesBack, Steps
    <3>2. CASE t = s
      BY <1>0, <1>i, <2>2, <2>3, <2>4, <2>5, <3>2 DEF Unwound, Steps
    <3>3. CASE t # s
      <4>1. inst'[r].steps[t] = inst[r].steps[t]
        BY <1>i, <2>3, <3>1, <3>3
      <4>2. t < s => t < cursor[r]
        BY <1>0, <2>2, <2>5, <2>6, <3>1 DEF Steps
      <4>3. ~(t < s) /\ t < cursor[r] => t \notin Compensable
        BY <1>0, <2>2, <2>6, <3>1, <3>3 DEF Unwound, Undoable, Steps
      <4> QED BY <2>4, <3>1, <4>1, <4>2, <4>3 DEF Unwound
    <3> QED BY <3>2, <3>3
  <2>9. \A t \in 1..(failed[r] - 1) : t \in effect'[r] <=> inst'[r].steps[t] = "completed"
    BY <1>0, <1>i, <2>1, <2>2, <2>3, <2>4, <2>6 DEF GoesBack, Steps
  <2>10. s <= failed[r]
    BY <1>0, <2>2, <2>5, <2>6 DEF Steps
  <2> QED BY <1>2, <2>1, <2>3, <2>4, <2>7, <2>8, <2>9, <2>10 DEF RunOK, GoesBack, Answered
<1>11. CASE CompensationFails(r)
  <2>1. pc[r] = "compensation" /\ failed[r] # 0 /\ GoesBack(r)
    BY <1>2, <1>11 DEF CompensationFails, RunOK, GoesForward
  <2>2. inst'[r].steps = inst[r].steps /\ inst'[r].status = "failed"
    BY <1>11, <1>i, MarkStatus DEF TypeOK, CompensationFails, SaveThen, SagaStatus
  <2>3. /\ pc'[r] = "saving" /\ then'[r] = "failed" /\ cursor' = cursor
        /\ effect'[r] \subseteq effect[r] /\ failed' = failed /\ told' = told
    BY <1>11 DEF TypeOK, CompensationFails, SaveThen
  <2> QED BY <1>2, <2>1, <2>2, <2>3 DEF RunOK, GoesBack, Unwound, Answered
<1>12. CASE CompensationEnds(r)
  <2>1. pc[r] = "compensation" /\ failed[r] # 0 /\ GoesBack(r) /\ Undoable(r) = {}
    BY <1>2, <1>12 DEF CompensationEnds, NothingLeft, RunOK, GoesForward
  <2>2. inst'[r].steps = inst[r].steps /\ inst'[r].status = "aborted"
    BY <1>12, <1>i, MarkStatus DEF TypeOK, CompensationEnds, Abort, SaveThen, SagaStatus
  <2>3. /\ pc'[r] = "saving" /\ then'[r] = "aborted" /\ cursor' = cursor
        /\ effect' = effect /\ failed' = failed /\ told' = told
    BY <1>12 DEF TypeOK, CompensationEnds, Abort, SaveThen
  <2>4. inst[r].status # "failed"
    BY <2>1 DEF GoesBack
  <2> QED BY <1>2, <2>1, <2>2, <2>3, <2>4 DEF RunOK, GoesBack, Unwound, Undoable, Answered
<1> QED
  BY <1>3, <1>4, <1>5, <1>6, <1>7, <1>8, <1>9, <1>10, <1>11, <1>12 DEF Progress

\* Single runs, in every state of the orchestrator.
LEMMA RunsKeepOrder == Spec => []RunInv
  BY RunInvInit, RunInvStep, SagaTypeCorrect, PTL DEF Spec

\* A caller that is told COMPLETED finds every step done, one that is told
\* ABORTED only what cannot be compensated and the failed step's effect.
THEOREM LeftoversAreTold == Spec => []NoSilentLeftovers
<1>1. TypeOK /\ RunInv => NoSilentLeftovers
  <2> SUFFICES ASSUME TypeOK, RunInv, NEW r \in Runs
               PROVE  /\ told[r] = "completed" => effect[r] = Steps
                      /\ told[r] = "aborted" => effect[r] \cap Compensable \subseteq {failed[r]}
    BY DEF NoSilentLeftovers
  <2>0. NumSteps \in Nat \ {0} /\ Compensable \subseteq Steps
    BY SagaAssumption DEF SagaAssumption, Steps
  <2>1. told[r] \in {"completed", "aborted"} => then[r] = told[r]
    BY DEF RunInv, RunOK, Answered
  <2>2. CASE told[r] = "completed"
    <3>1. failed[r] = 0 /\ GoesForward(r) /\ cursor[r] = NumSteps + 1
      BY <2>1, <2>2 DEF RunInv, RunOK, GoesForward, GoesBack
    <3> QED BY <2>0, <2>2, <3>1 DEF GoesForward, Steps
  <2>3. CASE told[r] = "aborted"
    <3>1. GoesBack(r) /\ Undoable(r) = {} /\ inst[r].status # "failed"
      BY <2>1, <2>3 DEF RunInv, RunOK, GoesForward, GoesBack
    <3>2. failed[r] \in 0..NumSteps
      BY DEF TypeOK
    <3>3. ASSUME NEW s \in effect[r], s \in Compensable, s # failed[r] PROVE FALSE
      <4>1. s \in 1..(failed[r] - 1)
        BY <2>0, <3>1, <3>2, <3>3 DEF GoesBack
      <4>2. inst[r].steps[s] = "completed" /\ Unwound(r, s)
        BY <3>1, <3>3, <4>1 DEF GoesBack
      <4>3. s < cursor[r]
        BY <3>3, <4>2 DEF Unwound
      <4> QED BY <3>1, <3>3, <4>2, <4>3 DEF Undoable
    <3> QED BY <2>3, <3>3
  <2> QED BY <2>2, <2>3
<1> QED BY <1>1, SagaTypeCorrect, RunsKeepOrder, PTL

----------------------------------------------------------------------------
(* The table *)

\* A run alone with its id after a step was so before.
LEMMA SoleBefore ==
  ASSUME NEW r \in Runs, OnlyMoves(r), NEW q \in Runs, SoleRun(q)'
  PROVE  SoleRun(q) /\ (q # r => id[q] # id[r])
  BY DEF OnlyMoves, SoleRun, args

\* The properties of the table hold initially.
LEMMA RowInvInit == Init => RowInv
<1> SUFFICES ASSUME Init PROVE RowInv
  OBVIOUS
<1>1. \A i \in Ids : ~row[i].present
  BY DEF Init
<1>2. \A r \in Runs : id[r] \in Ids /\ pc[r] = "idle" /\ effect[r] = {} /\ told[r] = "none"
  BY DEF Init
<1> QED BY <1>1, <1>2 DEF RowInv, RowHasWriter, SavedFirst, AnchorsDiffer, RowOfSoleRun

\* A run whose state and whose row a step leaves alone.
LEMMA RowLagsFrame ==
  ASSUME NEW r \in Runs, OnlyMoves(r), NEW q \in Runs, q # r, RowLags(q),
         row'[id[q]] = row[id[q]]
  PROVE  RowLags(q)'
  BY DEF OnlyMoves, RowLags, args

\* A save: the row becomes the instance of the run, which is a prefix or says
\* that it goes back.
LEMMA RowInvWrite ==
  ASSUME TypeOK, RunInv, RowInv, NEW r \in Runs, OnlyMoves(r),
         pc[r] = "saving", ~AnchorTaken(r), Write(r),
         pc'[r] \in {then[r], "ended"},
         UNCHANGED <<inst, cursor, effect, failed>>
  PROVE  RowInv'
<1>0. id[r] \in Ids /\ \A q \in Runs : id[q] \in Ids
  BY DEF TypeOK
<1>1. /\ row'[id[r]].present /\ row'[id[r]].inst = inst[r]
      /\ row'[id[r]].keyed = IF row[id[r]].present THEN row[id[r]].keyed ELSE keyed[r]
      /\ \A i \in Ids \ {id[r]} : row'[i] = row[i]
  BY <1>0 DEF TypeOK, Write
<1>2. id' = id /\ keyed' = keyed /\ pc'[r] # "idle"
  BY DEF OnlyMoves, args
<1>3. RowHasWriter'
  BY <1>0, <1>1, <1>2 DEF RowInv, RowHasWriter, OnlyMoves
<1>4. SavedFirst'
  BY <1>0, <1>1, <1>2 DEF RowInv, SavedFirst, OnlyMoves
<1>5. AnchorsDiffer'
  BY <1>0, <1>1 DEF RowInv, AnchorsDiffer, AnchorTaken
<1>6. RowOfSoleRun'
  BY <1>0, <1>1, <1>2, SoleBefore DEF RowInv, RowOfSoleRun
<1>7. \A q \in Runs : told'[q] \in {"completed", "aborted", "failed"} => row'[id[q]].present
  BY <1>0, <1>1 DEF RowInv, OnlyMoves
<1>8. ASSUME NEW q \in Runs, SoleRun(q)', row'[id[q]].present PROVE RowLags(q)'
  <2>1. CASE q # r
    BY <1>0, <1>1, <1>8, <2>1, SoleBefore, RowLagsFrame DEF RowInv
  <2>2. CASE q = r
    <3>1. pc'[r] = "action" => then[r] = "action"
      OBVIOUS
    <3>2. pc'[r] = "compensation" => inst[r].status = "compensating"
      BY DEF RunInv, RunOK, GoesForward, GoesBack
    <3>3. inst[r].status = "running" => GoesForward(r)
      BY DEF RunInv, RunOK, GoesBack
    <3>4. inst[r].status = "running" =>
            \E k \in 1..(NumSteps + 1) :
                inst[r].steps = Prefix(k) /\ 1..(k - 1) \subseteq effect[r] /\ effect[r] \subseteq 1..k
      <4> SUFFICES ASSUME inst[r].status = "running"
                   PROVE  /\ cursor[r] \in 1..(NumSteps + 1)
                          /\ inst[r].steps = Prefix(cursor[r])
                          /\ 1..(cursor[r] - 1) \subseteq effect[r]
                          /\ effect[r] \subseteq 1..cursor[r]
        OBVIOUS
      <4>1. cursor[r] \in 1..(NumSteps + 1) /\ NumSteps \in Nat
        BY SagaAssumption DEF TypeOK, SagaAssumption
      <4> QED BY <3>3, <4>1 DEF GoesForward
    <3> QED BY <1>1, <1>2, <2>2, <3>1, <3>2, <3>4 DEF RowLags
  <2> QED BY <2>1, <2>2
<1> QED BY <1>2, <1>3, <1>4, <1>5, <1>6, <1>7, <1>8 DEF RowInv

\* A step without a save keeps the properties of the table if its run stays
\* as close to its row as before.
LEMMA RowInvKept ==
  ASSUME TypeOK, RowInv, NEW r \in Runs, OnlyMoves(r), row' = row,
         told'[r] \in {"completed", "aborted", "failed"} => told[r] = told'[r],
         (pc'[r] \in {"action", "compensation"} \/ effect'[r] # {}) => row[id[r]].present,
         (SoleRun(r) /\ row[id[r]].present /\ RowLags(r)) => RowLags(r)'
  PROVE  RowInv'
<1>2. id' = id /\ keyed' = keyed /\ pc'[r] # "idle"
  BY DEF OnlyMoves, args
<1>3. RowHasWriter'
  BY <1>2 DEF RowInv, RowHasWriter, OnlyMoves
<1>4. SavedFirst'
  BY <1>2 DEF RowInv, SavedFirst, OnlyMoves
<1>5. AnchorsDiffer'
  BY DEF RowInv, AnchorsDiffer
<1>6. RowOfSoleRun'
  BY <1>2, SoleBefore DEF RowInv, RowOfSoleRun
<1>7. \A q \in Runs : told'[q] \in {"completed", "aborted", "failed"} => row[id[q]].present
  BY DEF RowInv, OnlyMoves
<1>8. ASSUME NEW q \in Runs, SoleRun(q)', row[id[q]].present PROVE RowLags(q)'
  <2>1. CASE q # r
    BY <1>8, <2>1, SoleBefore, RowLagsFrame DEF RowInv
  <2>2. CASE q = r
    BY <1>8, <2>2, SoleBefore DEF RowInv
  <2> QED BY <2>1, <2>2
<1> QED BY <1>2, <1>3, <1>4, <1>5, <1>6, <1>7, <1>8 DEF RowInv

\* Every step keeps the properties of the table.
LEMMA RowInvStep == TypeOK /\ RunInv /\ RowInv /\ [Next]_vars => RowInv'
<1> SUFFICES ASSUME TypeOK, RunInv, RowInv, [Next]_vars PROVE RowInv'
  OBVIOUS
<1>0. NumSteps \in Nat \ {0}
  BY SagaAssumption DEF SagaAssumption
<1>1. CASE UNCHANGED vars
  BY <1>1
  DEF vars, RowInv, RowHasWriter, SavedFirst, AnchorsDiffer, RowOfSoleRun, RowLags, SoleRun
<1> SUFFICES ASSUME NEW r \in Runs, Start(r) \/ Progress(r) \/ SaveFails(r) \/ Crash(r)
             PROVE  RowInv'
  BY <1>1 DEF Next
<1>2. OnlyMoves(r) /\ id' = id /\ keyed' = keyed
  BY StepMovesOne DEF OnlyMoves, args
<1>3. CASE Start(r)
  <2>1. SoleRun(r) => ~row[id[r]].present
    BY <1>3 DEF Start, RowInv, RowHasWriter, SoleRun, TypeOK
  <2>2. pc'[r] = "saving" /\ row' = row /\ told' = told /\ effect' = effect
    BY <1>3 DEF TypeOK, Start, SaveThen
  <2>3. effect[r] = {} \/ row[id[r]].present
    BY DEF RowInv, SavedFirst
  <2> QED BY <1>2, <2>1, <2>2, <2>3, RowInvKept
<1>4. CASE SaveSucceeds(r)
  <2>1. pc'[r] \in {then[r], "ended"}
    BY <1>4 DEF TypeOK, SaveSucceeds, Continue, End
  <2> QED BY <1>2, <1>4, <2>1, RowInvWrite DEF SaveSucceeds
<1>5. ASSUME pc'[r] = "ended", told'[r] \in {"save_error", "lost"},
             UNCHANGED <<inst, cursor, effect, row>>
      PROVE  RowInv'
  <2>1. effect[r] = {} \/ row[id[r]].present
    BY DEF RowInv, SavedFirst
  <2>2. RowLags(r) => RowLags(r)'
    BY <1>2, <1>5 DEF RowLags
  <2> QED BY <1>2, <1>5, <2>1, <2>2, RowInvKept
<1>6. CASE SaveRefused(r)
  BY <1>5, <1>6 DEF TypeOK, SaveRefused, End
<1>7. CASE SaveFails(r) \/ Crash(r)
  <2>1. pc'[r] = "ended" /\ told'[r] \in {"save_error", "lost"}
    BY <1>7 DEF TypeOK, SaveFails, Crash, End
  <2>2. UNCHANGED <<inst, cursor, effect, failed>>
    BY <1>7 DEF SaveFails, Crash
  <2>3. row' = row \/ (pc[r] = "saving" /\ ~AnchorTaken(r) /\ Write(r))
    BY <1>7 DEF SaveFails, Crash
  <2> QED BY <1>2, <1>5, <2>1, <2>2, <2>3, RowInvWrite
<1>8. CASE ActionSucceeds(r) \/ ActionFails(r)
  <2>1. /\ cursor[r] \in Steps /\ pc[r] = "action" /\ row' = row /\ told' = told
        /\ pc'[r] = "saving"
        /\ effect'[r] \in {effect[r], effect[r] \cup {cursor[r]}}
    BY <1>0, <1>8
    DEF TypeOK, ActionSucceeds, ActionFails, HasStep, StepDone, SaveThen, Steps
  <2>2. row[id[r]].present /\ told[r] = "none"
    BY <2>1 DEF RowInv, SavedFirst, RunInv, RunOK, Answered
  <2>3. failed[r] = 0 /\ GoesForward(r)
    BY <2>1 DEF RunInv, RunOK, GoesBack
  <2>4. ASSUME RowLags(r) PROVE RowLags(r)'
    <3>1. row[id[r]].inst = inst[r]
      BY <2>1, <2>4 DEF RowLags
    <3>2. /\ cursor[r] \in 1..(NumSteps + 1)
          /\ row[id[r]].inst.steps = Prefix(cursor[r])
          /\ 1..(cursor[r] - 1) \subseteq effect'[r]
          /\ effect'[r] \subseteq 1..cursor[r]
      BY <1>0, <2>1, <2>3, <3>1 DEF GoesForward, Steps
    <3> QED BY <1>2, <2>1, <2>2, <3>2 DEF RowLags
  <2> QED BY <1>2, <2>1, <2>2, <2>4, RowInvKept
<1>9. CASE AllStepsDone(r)
  <2>1. /\ pc[r] = "action" /\ pc'[r] = "saving"
        /\ row' = row /\ told' = told /\ effect' = effect
    BY <1>9 DEF TypeOK, AllStepsDone, SaveThen
  <2>2. row[id[r]].present /\ told[r] = "none"
    BY <2>1 DEF RowInv, SavedFirst, RunInv, RunOK, Answered
  <2>3. RowLags(r) => RowLags(r)'
    BY <1>2, <2>1, <2>2 DEF RowLags
  <2> QED BY <1>2, <2>1, <2>2, <2>3, RowInvKept
<1>10. CASE CompensationSucceeds(r) \/ CompensationFails(r) \/ CompensationEnds(r)
  <2>1. /\ pc[r] = "compensation" /\ pc'[r] \in {"compensation", "saving"}
        /\ row' = row /\ told' = told
    BY <1>10
    DEF TypeOK, CompensationSucceeds, CompensationFails, CompensationEnds, Abort, SaveThen
  <2>2. row[id[r]].present /\ told[r] = "none"
    BY <2>1 DEF RowInv, SavedFirst, RunInv, RunOK, Answered
  <2>3. RowLags(r) => RowLags(r)'
    BY <1>2, <2>1, <2>2 DEF RowLags
  <2> QED BY <1>2, <2>1, <2>2, <2>3, RowInvKept
<1> QED
  BY <1>3, <1>4, <1>6, <1>7, <1>8, <1>9, <1>10 DEF Progress

\* Rows and runs, in every state of the orchestrator.
LEMMA RowsFollowRuns == Spec => []RowInv
  BY RowInvInit, RowInvStep, SagaTypeCorrect, RunsKeepOrder, PTL DEF Spec

\* A row left RUNNING by a crash or a failing save points at the only step
\* whose effect is in doubt.
THEOREM RowsCanBeResumed == Spec => []ResumePointerIsSafe
<1>1. RowInv => ResumePointerIsSafe
  <2> SUFFICES ASSUME RowInv, NEW r \in Runs, SoleRun(r), row[id[r]].present,
                      row[id[r]].inst.status = "running"
               PROVE  LET p == CurrentStep(row[id[r]].inst.steps) IN
                      1..(p - 1) \subseteq effect[r] /\ effect[r] \subseteq 1..p
    BY DEF ResumePointerIsSafe
  <2>1. PICK k \in 1..(NumSteps + 1) :
            /\ row[id[r]].inst.steps = Prefix(k)
            /\ 1..(k - 1) \subseteq effect[r]
            /\ effect[r] \subseteq 1..k
    BY DEF RowInv, RowLags
  <2>2. CurrentStep(row[id[r]].inst.steps) = k
    BY <2>1, CurrentStepOfPrefix
  <2> QED BY <2>1, <2>2
<1> QED BY <1>1, RowsFollowRuns, PTL

\* What a caller was told by a run that ended by itself is what its row says.
THEOREM AnswersAreRecorded == Spec => []ToldIsRecorded
<1>1. RunInv /\ RowInv => ToldIsRecorded
  <2> SUFFICES ASSUME RunInv, RowInv, NEW r \in Runs, SoleRun(r),
                      told[r] \in {"completed", "aborted", "failed"}
               PROVE  /\ row[id[r]].present
                      /\ row[id[r]].inst = inst[r]
                      /\ inst[r].status = told[r]
    BY DEF ToldIsRecorded
  <2>1. row[id[r]].present /\ row[id[r]].inst = inst[r]
    BY DEF RowInv, RowLags
  <2>2. inst[r].status = told[r]
    BY DEF RunInv, RunOK, Answered, GoesForward, GoesBack
  <2> QED BY <2>1, <2>2
<1> QED BY <1>1, RunsKeepOrder, RowsFollowRuns, PTL

\* Of two runs for one business anchor under different ids at most one acts.
THEOREM AnchorsActOnce == Spec => []OneSagaPerAnchor
<1>1. TypeOK /\ RowInv => OneSagaPerAnchor
  BY DEF TypeOK, RowInv, SavedFirst, AnchorsDiffer, RowOfSoleRun, OneSagaPerAnchor
<1> QED BY <1>1, SagaTypeCorrect, RowsFollowRuns, PTL

----------------------------------------------------------------------------
(* The refinement of SagaContract *)

PhaseMap == [q \in Runs |-> Phase(q)]

\* The mapped phase changes where the run moves, and nowhere else.
LEMMA PhaseOfStep ==
  ASSUME NEW r \in Runs, OnlyMoves(r)
  PROVE  PhaseMap' = [PhaseMap EXCEPT ![r] = Phase(r)']
<1>1. \A q \in Runs \ {r} : Phase(q)' = Phase(q)
  BY DEF OnlyMoves, Phase
<1> QED BY <1>1 DEF PhaseMap

\* While a run goes back, the contract owes what the loop has left.
LEMMA OwedIsUndoable ==
  ASSUME TypeOK, NEW r \in Runs, GoesBack(r), failed[r] # 0, inst[r].status # "failed"
  PROVE  Contract!Owed(r) = Undoable(r)
<1>0. NumSteps \in Nat \ {0} /\ Compensable \subseteq Steps
  BY SagaAssumption DEF SagaAssumption, Steps
<1>1. failed[r] \in 1..NumSteps /\ cursor[r] \in 1..(NumSteps + 1) /\ cursor[r] <= failed[r]
  BY <1>0 DEF TypeOK, GoesBack
<1>2. ASSUME NEW s \in Contract!Owed(r) PROVE s \in Undoable(r)
  <2>1. s \in effect[r] /\ s \in Compensable /\ s # failed[r]
    BY <1>2 DEF Contract!Owed
  <2>2. s \in 1..(failed[r] - 1)
    BY <1>0, <1>1, <2>1 DEF GoesBack
  <2>3. inst[r].steps[s] = "completed" /\ Unwound(r, s)
    BY <2>1, <2>2 DEF GoesBack
  <2> QED BY <2>1, <2>3 DEF Undoable, Unwound
<1>3. ASSUME NEW s \in Undoable(r) PROVE s \in Contract!Owed(r)
  <2>1. s \in Compensable /\ s < cursor[r] /\ inst[r].steps[s] = "completed"
    BY <1>3 DEF Undoable
  <2>2. s \in 1..(failed[r] - 1) /\ s # failed[r]
    BY <1>0, <1>1, <2>1 DEF Steps
  <2>3. s \in effect[r]
    BY <2>1, <2>2 DEF GoesBack
  <2> QED BY <2>1, <2>2, <2>3 DEF Contract!Owed
<1> QED BY <1>2, <1>3

\* A step that changes neither the phase nor the effects of its run is invisible
\* to the contract.
LEMMA StutterStep ==
  ASSUME NEW r \in Runs, OnlyMoves(r), Phase(r)' = Phase(r), UNCHANGED <<effect, failed>>
  PROVE  UNCHANGED Contract!vars
<1>1. PhaseMap' = PhaseMap
  BY PhaseOfStep DEF PhaseMap
<1> QED BY <1>1 DEF PhaseMap, Contract!vars

\* Any other step changes the phase in the way of the contract.
LEMMA BecomeStep ==
  ASSUME NEW r \in Runs, OnlyMoves(r)
  PROVE  Contract!Become(r, Phase(r), Phase(r)')
<1>1. PhaseMap[r] = Phase(r)
  BY DEF PhaseMap
<1> QED BY <1>1, PhaseOfStep DEF PhaseMap, Contract!Become

\* The executor with its checkpoints keeps the safety part of the contract:
\* each of its steps is a step of SagaContract or invisible to the caller.
THEOREM SagaKeepsContract == Spec => Contract!Init /\ [][Contract!Next]_(Contract!vars)
<1>1. Init => Contract!Init
  BY DEF Init, Contract!Init, Phase
<1>2. TypeOK /\ RunInv /\ [Next]_vars => [Contract!Next]_(Contract!vars)
  <2> SUFFICES ASSUME TypeOK, RunInv, [Next]_vars
               PROVE  Contract!Next \/ UNCHANGED Contract!vars
    OBVIOUS
  <2>0. NumSteps \in Nat \ {0} /\ Compensable \subseteq Steps /\ Contract!Steps = Steps
    BY SagaAssumption DEF SagaAssumption, Steps, Contract!Steps
  <2>1. CASE UNCHANGED vars
    BY <2>1 DEF vars, Contract!vars, Phase
  <2> SUFFICES ASSUME NEW r \in Runs, Start(r) \/ Progress(r) \/ SaveFails(r) \/ Crash(r)
               PROVE  Contract!Next \/ UNCHANGED Contract!vars
    BY <2>1 DEF Next
  <2>2. OnlyMoves(r) /\ RunOK(r)
    BY StepMovesOne DEF RunInv
  <2>m. PhaseMap[r] = Phase(r)
    BY DEF PhaseMap
  <2>3. CASE Start(r)
    <3>1. Phase(r) = "new" /\ Phase(r)' = "forward"
      BY <2>2, <2>3 DEF TypeOK, Start, SaveThen, Phase, RunOK, GoesBack
    <3>2. Contract!Begin(r)
      BY <2>2, <2>3, <3>1, BecomeStep DEF Start, Contract!Begin
    <3> QED BY <3>2 DEF Contract!Next
  <2>4. ASSUME pc[r] \notin {"idle", "ended"}, Phase(r)' = "broken",
               UNCHANGED <<effect, failed>>
        PROVE  Contract!Next
    <3>1. Phase(r) \notin Contract!Decided
      BY <2>4 DEF Phase, Contract!Decided
    <3>2. Contract!Break(r)
      BY <2>2, <2>4, <2>m, <3>1, PhaseOfStep DEF PhaseMap, Contract!Break
    <3> QED BY <3>2 DEF Contract!Next
  <2>5. CASE SaveRefused(r) \/ SaveFails(r) \/ Crash(r)
    <3>1. /\ pc[r] \notin {"idle", "ended"} /\ UNCHANGED <<effect, failed>>
          /\ pc'[r] = "ended" /\ told'[r] \in {"save_error", "lost"}
      BY <2>5 DEF TypeOK, SaveRefused, SaveFails, Crash, End
    <3>2. Phase(r)' = "broken"
      BY <3>1 DEF Phase
    <3> QED BY <2>4, <3>1, <3>2
  <2>6. CASE SaveSucceeds(r)
    <3>0. pc[r] = "saving" /\ UNCHANGED <<inst, cursor, then, effect, failed>>
      BY <2>6 DEF SaveSucceeds
    <3>1. CASE then[r] \in {"action", "compensation"}
      <4>1. pc'[r] = then[r]
        BY <2>6, <3>1 DEF TypeOK, SaveSucceeds, Continue
      <4>2. Phase(r)' = Phase(r)
        BY <3>0, <3>1, <4>1 DEF Phase
      <4> QED BY <2>2, <3>0, <4>2, StutterStep
    <3>2. CASE then[r] \notin {"action", "compensation"}
      <4>1. pc'[r] = "ended" /\ told'[r] = then[r]
        BY <2>6, <3>2 DEF TypeOK, SaveSucceeds, Continue, End
      <4>2. CASE then[r] = "completed"
        <5>1. failed[r] = 0 /\ effect[r] = Steps
          BY <2>0, <2>2, <4>2 DEF RunOK, GoesForward, GoesBack, Steps
        <5>2. Phase(r) = "forward" /\ Phase(r)' = "completed"
          BY <3>0, <4>1, <4>2, <5>1 DEF Phase
        <5>3. Contract!Complete(r)
          BY <2>0, <2>2, <3>0, <5>1, <5>2, BecomeStep DEF Contract!Complete
        <5> QED BY <5>3 DEF Contract!Next
      <4>3. CASE then[r] = "aborted"
        <5>1. failed[r] # 0 /\ GoesBack(r) /\ Undoable(r) = {} /\ inst[r].status # "failed"
          BY <2>2, <4>3 DEF RunOK, GoesForward, GoesBack
        <5>2. Phase(r) = "undoing" /\ Phase(r)' = "aborted"
          BY <3>0, <4>1, <4>3, <5>1 DEF Phase
        <5>3. Contract!Owed(r) = {}
          BY <5>1, OwedIsUndoable
        <5>4. Contract!Abort(r)
          BY <2>2, <3>0, <5>2, <5>3, BecomeStep DEF Contract!Abort
        <5> QED BY <5>4 DEF Contract!Next
      <4>4. CASE then[r] = "failed"
        BY <2>4, <3>0, <4>1, <4>4 DEF Phase
      <4> QED BY <3>2, <4>2, <4>3, <4>4 DEF TypeOK
    <3> QED BY <3>1, <3>2
  <2>7. CASE ActionSucceeds(r) \/ ActionFails(r)
    <3>1. pc[r] = "action" /\ pc'[r] = "saving" /\ cursor[r] \in Steps
      BY <2>0, <2>7
      DEF TypeOK, ActionSucceeds, ActionFails, HasStep, StepDone, SaveThen, Steps
    <3>2. failed[r] = 0 /\ effect[r] = 1..(cursor[r] - 1)
      BY <2>2, <3>1 DEF RunOK, GoesForward, GoesBack
    <3>3. Contract!Upcoming(r, cursor[r]) /\ Phase(r) = "forward"
      BY <3>1, <3>2 DEF Contract!Upcoming, Phase
    <3>4. CASE ActionSucceeds(r)
      <4>1. failed' = failed /\ effect' = [effect EXCEPT ![r] = @ \cup {cursor[r]}]
        BY <3>4 DEF ActionSucceeds
      <4>2. Phase(r)' = "forward"
        BY <3>1, <3>2, <4>1 DEF Phase
      <4>3. PhaseMap' = PhaseMap
        BY <2>2, <3>3, <4>2, PhaseOfStep DEF PhaseMap
      <4>4. Contract!Do(r, cursor[r])
        BY <2>m, <3>3, <4>1, <4>3 DEF PhaseMap, Contract!Do
      <4> QED BY <2>0, <3>1, <4>4 DEF Contract!Next
    <3>5. CASE ActionFails(r)
      <4>1. /\ failed' = [failed EXCEPT ![r] = cursor[r]]
            /\ effect' \in {effect, [effect EXCEPT ![r] = @ \cup {cursor[r]}]}
        BY <3>5 DEF ActionFails
      <4>2. Phase(r)' = "undoing"
        BY <2>0, <3>1, <4>1 DEF Phase, TypeOK, Steps
      <4>3. Contract!GiveUp(r, cursor[r])
        BY <2>2, <3>3, <4>1, <4>2, BecomeStep DEF Contract!GiveUp
      <4> QED BY <2>0, <3>1, <4>3 DEF Contract!Next
    <3> QED BY <2>7, <3>4, <3>5
  <2>8. CASE AllStepsDone(r) \/ CompensationEnds(r)
    <3>1. /\ pc[r] \in {"action", "compensation"} /\ pc'[r] = "saving"
          /\ UNCHANGED <<effect, failed>>
      BY <2>8 DEF TypeOK, AllStepsDone, CompensationEnds, Abort, SaveThen
    <3>2. Phase(r)' = Phase(r)
      BY <3>1 DEF Phase
    <3> QED BY <2>2, <3>1, <3>2, StutterStep
  <2>9. CASE CompensationSucceeds(r) \/ CompensationFails(r)
    <3> DEFINE s == NextUndoable(r)
    <3>1. /\ pc[r] = "compensation" /\ pc'[r] \in {"compensation", "saving"}
          /\ failed' = failed
          /\ effect' \in {effect, [effect EXCEPT ![r] = @ \ {s}]}
      BY <2>9 DEF TypeOK, CompensationSucceeds, CompensationFails, SaveThen
    <3>2. failed[r] # 0 /\ GoesBack(r) /\ inst[r].status # "failed"
      BY <2>2, <3>1 DEF RunOK, GoesForward, GoesBack
    <3>3. Phase(r) = "undoing" /\ Phase(r)' = "undoing"
      BY <3>1, <3>2 DEF Phase
    <3>4. s \in Undoable(r) /\ (\A t \in Undoable(r) : t <= s) /\ s \in Steps
      BY <2>0, <2>9, MaxOfSteps
      DEF CompensationSucceeds, CompensationFails, NothingLeft, NextUndoable, Undoable
    <3> HIDE DEF s
    <3>5. Contract!Owed(r) = Undoable(r)
      BY <3>2, OwedIsUndoable
    <3>6. PhaseMap' = PhaseMap
      BY <2>2, <3>3, PhaseOfStep DEF PhaseMap
    <3>7. CASE effect' = effect
      BY <3>1, <3>6, <3>7 DEF PhaseMap, Contract!vars
    <3>8. CASE effect' = [effect EXCEPT ![r] = @ \ {s}]
      <4>1. Contract!Undo(r, s)
        BY <2>m, <3>1, <3>3, <3>4, <3>5, <3>6, <3>8 DEF PhaseMap, Contract!Undo
      <4> QED BY <2>0, <3>4, <4>1 DEF Contract!Next
    <3> QED BY <3>1, <3>7, <3>8
  <2> QED
    BY <2>3, <2>5, <2>6, <2>7, <2>8, <2>9 DEF Progress
<1> QED BY <1>1, <1>2, SagaTypeCorrect, RunsKeepOrder, PTL DEF Spec
====
