---- MODULE SchedulerProofs ----
(***************************************************************************)
(* What the scheduler guarantees for any jobs, workers, budgets, caps and  *)
(* numbers of faults.                                                      *)
(*                                                                         *)
(* SelectedRows says what the row locks protect between SELECT and UPDATE, *)
(* HolderAlone what a claim means while no claim of the job was reset, and *)
(* CopiesFired that a worker's copy, however old, never counts an          *)
(* occurrence that did not fire.  FiresPaid counts, per job and occurrence,*)
(* the fires made and those still to come from workers and from the row,   *)
(* against one plus the recorded failures plus the resets.  CountInv says  *)
(* that a job whose claim was never reset and that may still run has a     *)
(* retry, or a run, left.                                                  *)
(***************************************************************************)
EXTENDS Scheduler, FiniteSetTheorems, TLAPS

\* The stages of a job a worker has claimed and not yet let go of.
Working == {"claimed", "fired", "raised"}

\* Between SELECT and UPDATE the row is locked by one worker, and the copy agrees
\* with it (fetch_due_batch).
SelectedRows ==
    \A w \in Workers, j \in Jobs : hand[w][j] = "selected" =>
        /\ status[j] = "SCHEDULED"
        /\ runs[w][j] = run_count[j]
        /\ \A v \in Workers : hand[v][j] = "selected" => v = w

\* While no claim of the job was reset, one worker holds it and the row shows it.
HolderAlone ==
    \A w \in Workers, j \in Jobs : resets[j] = 0 /\ hand[w][j] \in Working =>
        /\ status[j] \notin {"none", "SCHEDULED"}
        /\ \A v \in Workers : hand[v][j] \in Working => v = w

\* A copy counts only occurrences that fired; after a dispatch that returned,
\* its own too.
CopiesFired ==
    \A w \in Workers, j \in Jobs, k \in Occurrences :
        \/ hand[w][j] # "none" /\ k < runs[w][j]
        \/ hand[w][j] = "fired" /\ k = runs[w][j]
        => fires[j][k] > 0

\* The inductive invariant of the scheduler.
StateInv ==
    /\ TypeOK
    /\ SelectedRows
    /\ HolderAlone
    /\ CopiesFired
    /\ NoOccurrenceSkipped

----------------------------------------------------------------------------
(* What the parts of the actions do, pointwise *)

\* A worker that drops its batch has no job in hand, and the others keep theirs.
LEMMA DropPoint ==
  ASSUME TypeOK, NEW w \in Workers, Drop(w)
  PROVE  /\ hand' \in [Workers -> [Jobs -> Stages]]
         /\ runs' \in [Workers -> [Jobs -> Nat]]
         /\ tries' \in [Workers -> [Jobs -> Nat]]
         /\ \A v \in Workers, j \in Jobs :
              hand'[v][j] = "none" \/ (v # w /\ hand'[v][j] = hand[v][j] /\ runs'[v][j] = runs[v][j]
                                     /\ tries'[v][j] = tries[v][j])
  BY DEF TypeOK, Drop, Stages

\* A worker that releases a job keeps the others.
LEMMA ReleasePoint ==
  ASSUME TypeOK, NEW w \in Workers, NEW j \in Jobs, Release(w, j)
  PROVE  /\ hand' \in [Workers -> [Jobs -> Stages]]
         /\ runs' \in [Workers -> [Jobs -> Nat]]
         /\ tries' \in [Workers -> [Jobs -> Nat]]
         /\ hand'[w][j] = "none"
         /\ \A v \in Workers, i \in Jobs :
              ~(v = w /\ i = j) => hand'[v][i] = hand[v][i] /\ runs'[v][i] = runs[v][i]
                                    /\ tries'[v][i] = tries[v][i]
  BY DEF TypeOK, Release, Stages

\* A dispatch counts one fire of the copy's occurrence.
LEMMA FirePoint ==
  ASSUME TypeOK, NEW w \in Workers, NEW j \in Jobs, Fire(w, j)
  PROVE  /\ fires' \in [Jobs -> [Occurrences -> Nat]]
         /\ \A i \in Jobs, k \in Occurrences :
              fires'[i][k] = IF i = j /\ k = runs[w][j] THEN fires[i][k] + 1 ELSE fires[i][k]
  <1> DEFINE n == runs[w][j]
             row == [fires[j] EXCEPT ![n] = fires[j][n] + 1]
  <1>1. fires \in [Jobs -> [Occurrences -> Nat]]
    BY DEF TypeOK
  <1>2. fires' = [fires EXCEPT ![j] = row]
    BY <1>1 DEF Fire
  <1>3. fires[j] \in [Occurrences -> Nat]
    BY <1>1
  <1>4. /\ row \in [Occurrences -> Nat]
        /\ \A k \in Occurrences : row[k] = IF k = n THEN fires[j][k] + 1 ELSE fires[j][k]
    <2> HIDE DEF n
    <2>1. CASE n \in Occurrences
      <3>1. fires[j][n] + 1 \in Nat
        BY <1>3, <2>1
      <3> QED BY <1>3, <2>1, <3>1
    <2>2. CASE n \notin Occurrences
      <3>1. row = fires[j]
        BY <1>3, <2>2
      <3> HIDE DEF row
      <3> QED BY <1>3, <2>2, <3>1
    <2> QED BY <2>1, <2>2
  <1>5. fires'[j] = row /\ \A i \in Jobs : i # j => fires'[i] = fires[i]
    <2> HIDE DEF row
    <2> QED BY <1>1, <1>2
  <1>6. fires' \in [Jobs -> [Occurrences -> Nat]]
    <2> HIDE DEF row
    <2> QED BY <1>1, <1>2, <1>4
  <1> QED BY <1>4, <1>5, <1>6

\* The UPDATE of a claim.
LEMMA ClaimRowsPoint ==
  ASSUME TypeOK, NEW S \in SUBSET Jobs, ClaimRows(S)
  PROVE  /\ status' \in [Jobs -> Statuses] /\ stale' \in SUBSET Jobs
         /\ \A j \in Jobs : status'[j] = IF j \in S THEN "RUNNING" ELSE status[j]
  BY DEF TypeOK, ClaimRows, Statuses

\* The UPDATE of mark_succeeded.
LEMMA SucceededPoint ==
  ASSUME TypeOK, NEW w \in Workers, NEW j \in Jobs, SetSucceeded(w, j)
  PROVE  /\ status' \in [Jobs -> Statuses] /\ run_count' \in [Jobs -> Nat]
         /\ attempts' \in [Jobs -> Nat] /\ due' \in SUBSET Jobs /\ stale' \in SUBSET Jobs
         /\ status'[j] \in {"DONE", "SCHEDULED"} /\ run_count'[j] = runs[w][j] + 1
         /\ \A i \in Jobs : i # j => status'[i] = status[i] /\ run_count'[i] = run_count[i]
         /\ \A v \in Workers : hand[v][j] # "selected"
  BY DEF TypeOK, SetSucceeded, Statuses, Terminal, Locked

\* The UPDATE of mark_failed.
LEMMA FailedPoint ==
  ASSUME TypeOK, NEW w \in Workers, NEW j \in Jobs, SetFailed(w, j)
  PROVE  /\ status' \in [Jobs -> Statuses] /\ run_count' = run_count
         /\ attempts' \in [Jobs -> Nat] /\ due' \in SUBSET Jobs /\ stale' \in SUBSET Jobs
         /\ failures' \in [Jobs -> Nat]
         /\ status'[j] \in {"FAILED", "SCHEDULED"} /\ failures'[j] = failures[j] + 1
         /\ \A i \in Jobs : i # j => status'[i] = status[i] /\ failures'[i] = failures[i]
         /\ \A v \in Workers : hand[v][j] # "selected"
  BY DEF TypeOK, SetFailed, Statuses, Terminal, Locked

----------------------------------------------------------------------------
(* The state invariant *)

\* Hands only let go of jobs.
HandsShrink ==
    \A v \in Workers, i \in Jobs :
        hand'[v][i] = "none" \/ (hand'[v][i] = hand[v][i] /\ runs'[v][i] = runs[v][i])

\* No fire is forgotten.
FiresGrow == \A i \in Jobs, k \in Occurrences : fires'[i][k] >= fires[i][k]

\* A row that nobody has a lock or, without a reset, a claim on: it may get any
\* status, and a count of occurrences that did fire.
RowFreed(i) ==
    /\ \A v \in Workers : hand'[v][i] # "selected"
    /\ resets'[i] = 0 => \/ status'[i] \notin {"none", "SCHEDULED"}
                         \/ \A v \in Workers : hand'[v][i] \notin Working
    /\ \A k \in Occurrences : k < run_count'[i] => fires'[i][k] > 0

\* A row the step leaves alone.
RowKept(i) == status'[i] = status[i] /\ run_count'[i] = run_count[i]

\* The invariant holds initially.
LEMMA StateInvInit == Init => StateInv
  <1> SUFFICES ASSUME Init PROVE StateInv
    OBVIOUS
  <1>1. TypeOK
    BY DEF Init, TypeOK, Statuses, Terminal, Stages
  <1>2. SelectedRows /\ HolderAlone
    BY DEF Init, SelectedRows, HolderAlone, Working
  <1>3. CopiesFired
    BY DEF Init, CopiesFired
  <1>4. NoOccurrenceSkipped
    BY SchedulerAssumption DEF Init, NoOccurrenceSkipped, Occurrences, SchedulerAssumption
  <1> QED BY <1>1, <1>2, <1>3, <1>4 DEF StateInv

\* A step in which workers only let go of jobs, and every row is kept or free,
\* preserves the invariant.
LEMMA ShrinkKeepsInv ==
  ASSUME StateInv, TypeOK', HandsShrink, FiresGrow,
         \A i \in Jobs : resets'[i] = 0 => resets[i] = 0,
         \A i \in Jobs : RowKept(i) \/ RowFreed(i)
  PROVE  StateInv'
  <1>1. SelectedRows'
    BY DEF StateInv, SelectedRows, HandsShrink, RowKept, RowFreed
  <1>2. HolderAlone'
    BY DEF StateInv, HolderAlone, HandsShrink, RowKept, RowFreed, Working
  <1>3. CopiesFired'
    <2> SUFFICES ASSUME NEW w \in Workers, NEW j \in Jobs, NEW k \in Occurrences,
                        \/ hand'[w][j] # "none" /\ k < runs'[w][j]
                        \/ hand'[w][j] = "fired" /\ k = runs'[w][j]
                 PROVE  fires'[j][k] > 0
      BY DEF CopiesFired
    <2>1. hand'[w][j] = hand[w][j] /\ runs'[w][j] = runs[w][j]
      BY DEF HandsShrink
    <2>2. fires[j][k] > 0
      BY <2>1 DEF StateInv, CopiesFired
    <2>3. fires[j][k] \in Nat /\ fires'[j][k] \in Nat
      BY DEF StateInv, TypeOK
    <2> QED BY <2>2, <2>3 DEF FiresGrow
  <1>4. NoOccurrenceSkipped'
    <2> SUFFICES ASSUME NEW j \in Jobs, NEW k \in Occurrences, k < run_count'[j]
                 PROVE  fires'[j][k] > 0
      BY DEF NoOccurrenceSkipped
    <2>1. CASE RowKept(j)
      <3>1. fires[j][k] > 0
        BY <2>1 DEF StateInv, NoOccurrenceSkipped, RowKept
      <3>2. fires[j][k] \in Nat /\ fires'[j][k] \in Nat
        BY DEF StateInv, TypeOK
      <3> QED BY <3>1, <3>2 DEF FiresGrow
    <2>2. CASE RowFreed(j)
      BY <2>2 DEF RowFreed
    <2> QED BY <2>1, <2>2
  <1> QED BY <1>1, <1>2, <1>3, <1>4 DEF StateInv

\* An unchanged history loses no fire.
LEMMA FiresUnchanged == TypeOK /\ UNCHANGED fires => FiresGrow
  BY DEF TypeOK, FiresGrow

\* A dispatch loses no fire either.
LEMMA FiresAfterFire ==
  ASSUME TypeOK, NEW w \in Workers, NEW j \in Jobs, Fire(w, j)
  PROVE  FiresGrow
  <1>1. \A i \in Jobs, k \in Occurrences : fires[i][k] \in Nat
    BY DEF TypeOK
  <1> QED BY <1>1, FirePoint DEF FiresGrow

\* A mark writes a free row, once the worker has let go of the job.
LEMMA MarkFreesRow ==
  ASSUME StateInv, NEW w \in Workers, NEW j \in Jobs, SetMarked(w, j),
         HandsShrink, hand'[w][j] = "none", UNCHANGED <<fires, resets>>
  PROVE  /\ \A i \in Jobs : RowKept(i) \/ RowFreed(i)
         /\ status' \in [Jobs -> Statuses] /\ run_count' \in [Jobs -> Nat]
         /\ attempts' \in [Jobs -> Nat] /\ due' \in SUBSET Jobs /\ stale' \in SUBSET Jobs
         /\ failures' \in [Jobs -> Nat]
  <1> USE DEF StateInv
  <1>1. hand[w][j] \in Working
    BY DEF SetMarked, Working
  <1>2. resets[j] = 0 => \A v \in Workers : hand'[v][j] \notin Working
    BY <1>1 DEF HolderAlone, HandsShrink, Working
  <1>3. CASE hand[w][j] = "fired" /\ SetSucceeded(w, j) /\ UNCHANGED failures
    <2>1. ASSUME NEW k \in Occurrences, k < run_count'[j] PROVE fires'[j][k] > 0
      <3>1. k \in Nat /\ runs[w][j] \in Nat
        BY SchedulerAssumption DEF Occurrences, SchedulerAssumption, TypeOK
      <3>2. run_count'[j] = runs[w][j] + 1
        BY <1>3, SucceededPoint
      <3>3. k <= runs[w][j]
        BY <2>1, <3>1, <3>2
      <3>4. k < runs[w][j] \/ k = runs[w][j]
        BY <3>1, <3>3
      <3> QED BY <1>3, <3>4 DEF CopiesFired
    <2>2. \A v \in Workers : hand'[v][j] # "selected"
      BY <1>3, SucceededPoint DEF HandsShrink
    <2>3. RowFreed(j)
      BY <1>2, <2>1, <2>2 DEF RowFreed
    <2>4. \A i \in Jobs : i # j => RowKept(i)
      BY <1>3, SucceededPoint DEF RowKept
    <2> QED BY <1>3, <2>3, <2>4, SucceededPoint DEF TypeOK
  <1>4. CASE hand[w][j] = "raised" /\ SetFailed(w, j)
    <2>1. \A k \in Occurrences : k < run_count'[j] => fires'[j][k] > 0
      BY <1>4, FailedPoint DEF NoOccurrenceSkipped
    <2>2. \A v \in Workers : hand'[v][j] # "selected"
      BY <1>4, FailedPoint DEF HandsShrink
    <2>3. RowFreed(j)
      BY <1>2, <2>1, <2>2 DEF RowFreed
    <2>4. \A i \in Jobs : i # j => RowKept(i)
      BY <1>4, FailedPoint DEF RowKept
    <2> QED BY <1>4, <2>3, <2>4, FailedPoint DEF TypeOK
  <1> QED BY <1>3, <1>4 DEF SetMarked

\* A claim whose answer is lost writes the rows the dropped worker had locked.
LEMMA LostClaimFreesRows ==
  ASSUME StateInv, NEW w \in Workers, ClaimRows(Selected(w)), HandsShrink,
         \A j \in Jobs : hand'[w][j] = "none",
         UNCHANGED <<run_count, fires>>
  PROVE  /\ \A i \in Jobs : RowKept(i) \/ RowFreed(i)
         /\ status' \in [Jobs -> Statuses] /\ stale' \in SUBSET Jobs
  <1> USE DEF StateInv
  <1>1. Selected(w) \in SUBSET Jobs
    BY DEF Selected
  <1>2. ASSUME NEW i \in Jobs, i \in Selected(w) PROVE RowFreed(i)
    <2>1. status'[i] = "RUNNING"
      BY <1>1, <1>2, ClaimRowsPoint
    <2>2. \A v \in Workers : hand'[v][i] # "selected"
      BY <1>2 DEF SelectedRows, HandsShrink, Selected
    <2> QED BY <2>1, <2>2 DEF RowFreed, NoOccurrenceSkipped
  <1>3. ASSUME NEW i \in Jobs, i \notin Selected(w) PROVE RowKept(i)
    BY <1>1, <1>3, ClaimRowsPoint DEF RowKept
  <1> QED BY <1>1, <1>2, <1>3, ClaimRowsPoint

\* Selecting due rows preserves the invariant.
LEMMA SelectKeepsInv ==
  ASSUME StateInv, NEW w \in Workers, SelectDue(w) PROVE StateInv'
  <1> USE DEF StateInv
  <1>1. PICK S \in SUBSET Claimable :
          /\ hand' = [hand EXCEPT ![w] = [j \in Jobs |-> IF j \in S THEN "selected" ELSE "none"]]
          /\ runs' = [runs EXCEPT ![w] = [j \in Jobs |-> IF j \in S THEN run_count[j] ELSE 0]]
          /\ tries' = [tries EXCEPT ![w] = [j \in Jobs |-> IF j \in S THEN attempts[j] ELSE 0]]
    BY DEF SelectDue
  <1>2. TypeOK'
    BY <1>1 DEF SelectDue, rowVars, histVars, TypeOK, Stages
  <1>3. /\ \A j \in Jobs : hand'[w][j] = (IF j \in S THEN "selected" ELSE "none")
        /\ \A j \in Jobs : j \in S => runs'[w][j] = run_count[j]
        /\ \A v \in Workers, j \in Jobs : v # w => hand'[v][j] = hand[v][j] /\ runs'[v][j] = runs[v][j]
    BY <1>1 DEF TypeOK
  <1>4. \A j \in S : j \in Jobs /\ status[j] = "SCHEDULED" /\ \A v \in Workers : hand[v][j] # "selected"
    BY <1>1 DEF Claimable, Locked, TypeOK
  <1>5. UNCHANGED <<status, run_count, fires, resets>>
    BY DEF SelectDue, rowVars, histVars
  <1>6. SelectedRows'
    BY <1>3, <1>4, <1>5 DEF SelectedRows
  <1>7. HolderAlone'
    BY <1>3, <1>5 DEF HolderAlone, Working
  <1>8. CopiesFired'
    BY <1>3, <1>5 DEF CopiesFired, NoOccurrenceSkipped
  <1>9. NoOccurrenceSkipped'
    BY <1>5 DEF NoOccurrenceSkipped
  <1> QED BY <1>2, <1>6, <1>7, <1>8, <1>9

\* So does claiming the selected rows.
LEMMA ClaimKeepsInv ==
  ASSUME StateInv, NEW w \in Workers, ClaimDue(w) PROVE StateInv'
  <1> USE DEF StateInv
  <1>1. /\ hand' \in [Workers -> [Jobs -> Stages]]
        /\ \A j \in Jobs : hand'[w][j] = (IF hand[w][j] = "selected" THEN "claimed" ELSE "none")
        /\ \A v \in Workers, j \in Jobs : v # w => hand'[v][j] = hand[v][j]
    BY DEF ClaimDue, TypeOK, Stages
  <1>2. Selected(w) \in SUBSET Jobs /\ ClaimRows(Selected(w))
    BY DEF ClaimDue, Selected
  <1>3. /\ status' \in [Jobs -> Statuses] /\ stale' \in SUBSET Jobs
        /\ \A j \in Jobs : status'[j] = IF hand[w][j] = "selected" THEN "RUNNING" ELSE status[j]
    BY <1>2, ClaimRowsPoint DEF Selected
  <1>4. UNCHANGED <<run_count, attempts, due, up, runs, tries, fires, failures, resets, faults>>
    BY DEF ClaimDue, histVars
  <1>5. TypeOK'
    BY <1>1, <1>3, <1>4 DEF TypeOK
  <1>6. SelectedRows'
    BY <1>1, <1>3, <1>4 DEF SelectedRows
  <1>7. HolderAlone'
    BY <1>1, <1>3, <1>4 DEF HolderAlone, SelectedRows, Working
  <1>8. CopiesFired'
    BY <1>1, <1>4 DEF CopiesFired
  <1>9. NoOccurrenceSkipped'
    BY <1>4 DEF NoOccurrenceSkipped
  <1> QED BY <1>5, <1>6, <1>7, <1>8, <1>9

\* So does a dispatch, which leaves the job "fired" (and then it did fire) or
\* "raised".
LEMMA DispatchKeepsInv ==
  ASSUME StateInv, NEW w \in Workers, NEW j \in Jobs, NEW s \in {"fired", "raised"},
         hand[w][j] = "claimed", hand' = [hand EXCEPT ![w][j] = s],
         Fire(w, j) \/ (s = "raised" /\ UNCHANGED fires),
         UNCHANGED <<status, run_count, attempts, due, stale, up, runs, tries, failures, resets>>,
         faults' \in Nat
  PROVE  StateInv'
  <1> USE DEF StateInv
  <1>1. s \in Stages
    BY DEF Stages
  <1>2. /\ hand' \in [Workers -> [Jobs -> Stages]]
        /\ hand'[w][j] = s
        /\ \A v \in Workers, i \in Jobs : ~(v = w /\ i = j) => hand'[v][i] = hand[v][i]
    BY <1>1 DEF TypeOK
  <1>3. fires' \in [Jobs -> [Occurrences -> Nat]]
    BY FirePoint DEF TypeOK
  <1>4. FiresGrow
    BY FiresAfterFire, FiresUnchanged
  <1>5. \A i \in Jobs, k \in Occurrences : fires[i][k] > 0 => fires'[i][k] > 0
    <2>1. \A i \in Jobs, k \in Occurrences : fires[i][k] \in Nat /\ fires'[i][k] \in Nat
      BY <1>3 DEF TypeOK
    <2> QED BY <1>4, <2>1 DEF FiresGrow
  <1>6. ASSUME NEW k \in Occurrences, s = "fired", k = runs[w][j] PROVE fires'[j][k] > 0
    <2>1. fires[j][k] \in Nat
      BY DEF TypeOK
    <2>2. fires'[j][k] = fires[j][k] + 1
      BY <1>6, FirePoint
    <2> QED BY <2>1, <2>2
  <1>7. TypeOK'
    BY <1>2, <1>3 DEF TypeOK
  <1>8. SelectedRows'
    BY <1>2 DEF SelectedRows
  <1>9. HolderAlone'
    BY <1>2 DEF HolderAlone, Working
  <1>10. CopiesFired'
    <2> SUFFICES ASSUME NEW v \in Workers, NEW i \in Jobs, NEW k \in Occurrences,
                        \/ hand'[v][i] # "none" /\ k < runs'[v][i]
                        \/ hand'[v][i] = "fired" /\ k = runs'[v][i]
                 PROVE  fires'[i][k] > 0
      BY DEF CopiesFired
    <2>1. CASE v = w /\ i = j
      BY <2>1, <1>2, <1>5, <1>6 DEF CopiesFired
    <2>2. CASE ~(v = w /\ i = j)
      BY <2>2, <1>2, <1>5 DEF CopiesFired
    <2> QED BY <2>1, <2>2
  <1>11. NoOccurrenceSkipped'
    BY <1>5 DEF NoOccurrenceSkipped
  <1> QED BY <1>7, <1>8, <1>9, <1>10, <1>11

\* A cancelled worker keeps the invariant, whatever its last request did.
LEMMA CancelWorkerKeepsInv ==
  ASSUME StateInv, NEW w \in Workers, CancelWorker(w) PROVE StateInv'
  <1> USE DEF StateInv
  <1>1. Drop(w) /\ UNCHANGED <<up, resets, faults>>
    BY DEF CancelWorker
  <1>2. /\ HandsShrink /\ \A j \in Jobs : hand'[w][j] = "none"
        /\ hand' \in [Workers -> [Jobs -> Stages]]
        /\ runs' \in [Workers -> [Jobs -> Nat]]
        /\ tries' \in [Workers -> [Jobs -> Nat]]
    BY <1>1, DropPoint DEF HandsShrink
  <1>3. CASE UNCHANGED <<rowVars, fires, failures>>
    <2>1. TypeOK'
      BY <1>1, <1>2, <1>3 DEF rowVars, TypeOK
    <2>2. \A i \in Jobs : RowKept(i)
      BY <1>3 DEF rowVars, RowKept
    <2> QED BY <1>1, <1>2, <1>3, <2>1, <2>2, FiresUnchanged, ShrinkKeepsInv
  <1>4. CASE /\ ClaimRows(Selected(w))
             /\ UNCHANGED <<run_count, attempts, due, fires, failures>>
    <2>1. (\A i \in Jobs : RowKept(i) \/ RowFreed(i)) /\ status' \in [Jobs -> Statuses] /\ stale' \in SUBSET Jobs
      BY <1>2, <1>4, LostClaimFreesRows
    <2>2. TypeOK'
      BY <1>1, <1>2, <1>4, <2>1 DEF TypeOK
    <2> QED BY <1>1, <1>2, <1>4, <2>1, <2>2, FiresUnchanged, ShrinkKeepsInv
  <1>5. ASSUME NEW j \in Jobs, Fire(w, j), UNCHANGED <<rowVars, failures>> PROVE StateInv'
    <2>1. fires' \in [Jobs -> [Occurrences -> Nat]]
      BY <1>5, FirePoint
    <2>2. TypeOK'
      BY <1>1, <1>2, <1>5, <2>1 DEF rowVars, TypeOK
    <2>3. \A i \in Jobs : RowKept(i)
      BY <1>5 DEF rowVars, RowKept
    <2> QED BY <1>1, <1>2, <1>5, <2>2, <2>3, FiresAfterFire, ShrinkKeepsInv
  <1>6. ASSUME NEW j \in Jobs, SetMarked(w, j), UNCHANGED fires PROVE StateInv'
    <2>1. /\ \A i \in Jobs : RowKept(i) \/ RowFreed(i)
          /\ status' \in [Jobs -> Statuses] /\ run_count' \in [Jobs -> Nat]
          /\ attempts' \in [Jobs -> Nat] /\ due' \in SUBSET Jobs /\ stale' \in SUBSET Jobs
          /\ failures' \in [Jobs -> Nat]
      BY <1>1, <1>2, <1>6, MarkFreesRow
    <2>2. TypeOK'
      BY <1>1, <1>2, <1>6, <2>1 DEF TypeOK
    <2> QED BY <1>1, <1>2, <1>6, <2>1, <2>2, FiresUnchanged, ShrinkKeepsInv
  <1> QED BY <1>3, <1>4, <1>5, <1>6 DEF CancelWorker

\* Every step preserves the invariant.
LEMMA StateInvStep == StateInv /\ [Next]_vars => StateInv'
  <1> SUFFICES ASSUME StateInv, [Next]_vars PROVE StateInv'
    OBVIOUS
  <1> USE DEF StateInv
  <1>f. Fault => faults' \in Nat
    BY DEF Fault, TypeOK
  <1>h. UNCHANGED workerVars => HandsShrink
    BY DEF workerVars, HandsShrink
  <1>1. ASSUME NEW j \in Jobs, Create(j) PROVE StateInv'
    <2>1. TypeOK' /\ HandsShrink /\ FiresGrow
      BY <1>1, <1>h, FiresUnchanged DEF Create, workerVars, histVars, TypeOK, Statuses, Terminal
    <2>2. RowFreed(j)
      BY <1>1 DEF Create, workerVars, histVars, RowFreed, SelectedRows, HolderAlone, NoOccurrenceSkipped, TypeOK
    <2>3. \A i \in Jobs : i # j => RowKept(i)
      BY <1>1 DEF Create, RowKept, TypeOK
    <2> QED BY <1>1, <2>1, <2>2, <2>3, ShrinkKeepsInv DEF Create, histVars
  <1>2. ASSUME NEW j \in Jobs, Cancel(j) PROVE StateInv'
    <2>1. TypeOK' /\ HandsShrink /\ FiresGrow
      BY <1>2, <1>h, FiresUnchanged DEF Cancel, workerVars, histVars, TypeOK, Statuses, Terminal
    <2>2. RowFreed(j)
      BY <1>2 DEF Cancel, workerVars, histVars, RowFreed, Locked, NoOccurrenceSkipped, TypeOK
    <2>3. \A i \in Jobs : i # j => RowKept(i)
      BY <1>2 DEF Cancel, RowKept, TypeOK
    <2> QED BY <1>2, <2>1, <2>2, <2>3, ShrinkKeepsInv DEF Cancel, histVars
  <1>3. ASSUME NEW j \in Jobs, Elapse(j) PROVE StateInv'
    BY <1>3, <1>h, FiresUnchanged, ShrinkKeepsInv
      DEF Elapse, workerVars, histVars, TypeOK, RowKept
  <1>4. ASSUME NEW j \in Jobs, TimeoutAbandoned(j) \/ TimeoutHeld(j) PROVE StateInv'
    <2>1. GoStale(j) /\ faults' \in Nat
      BY <1>4, <1>f DEF TimeoutAbandoned, TimeoutHeld, TypeOK
    <2> QED BY <2>1, <1>h, FiresUnchanged, ShrinkKeepsInv
          DEF GoStale, workerVars, histVars, TypeOK, RowKept
  <1>5. ASSUME NEW w \in Workers, SelectDue(w) PROVE StateInv'
    BY <1>5, SelectKeepsInv
  <1>6. ASSUME NEW w \in Workers, ClaimDue(w) PROVE StateInv'
    BY <1>6, ClaimKeepsInv
  <1>7. ASSUME NEW w \in Workers, ClaimError(w) PROVE StateInv'
    <2>1. Drop(w) /\ UNCHANGED <<run_count, attempts, due, up, fires, failures, resets>> /\ faults' \in Nat
      BY <1>7, <1>f DEF ClaimError, histVars
    <2>2. /\ HandsShrink /\ \A j \in Jobs : hand'[w][j] = "none"
          /\ hand' \in [Workers -> [Jobs -> Stages]]
          /\ runs' \in [Workers -> [Jobs -> Nat]]
          /\ tries' \in [Workers -> [Jobs -> Nat]]
      BY <2>1, DropPoint DEF HandsShrink
    <2>3. (\A i \in Jobs : RowKept(i) \/ RowFreed(i)) /\ status' \in [Jobs -> Statuses] /\ stale' \in SUBSET Jobs
      <3>1. CASE ClaimRows(Selected(w))
        BY <2>1, <2>2, <3>1, LostClaimFreesRows
      <3>2. CASE UNCHANGED <<status, stale>>
        BY <2>1, <3>2 DEF RowKept, TypeOK
      <3> QED BY <1>7, <3>1, <3>2 DEF ClaimError
    <2>4. TypeOK'
      BY <2>1, <2>2, <2>3 DEF TypeOK
    <2> QED BY <2>1, <2>2, <2>3, <2>4, FiresUnchanged, ShrinkKeepsInv
  <1>8. ASSUME NEW w \in Workers, Stop(w) \/ Start(w) PROVE StateInv'
    <2>1. faults' \in Nat /\ UNCHANGED <<rowVars, workerVars, histVars>> /\ up' \in SUBSET Workers
      BY <1>8, <1>f DEF Stop, Start, TypeOK
    <2> QED BY <2>1, <1>h, FiresUnchanged, ShrinkKeepsInv
          DEF rowVars, workerVars, histVars, TypeOK, RowKept
  <1>9. ASSUME NEW w \in Workers, CancelWorker(w) PROVE StateInv'
    BY <1>9, CancelWorkerKeepsInv
  <1>10. ASSUME NEW w \in Workers, ResetStale(w) PROVE StateInv'
    <2>1. TypeOK' /\ HandsShrink /\ FiresGrow
      BY <1>10, <1>h, FiresUnchanged
        DEF ResetStale, StaleJobs, workerVars, TypeOK, Statuses, Terminal
    <2>2. ASSUME NEW i \in Jobs, i \in StaleJobs PROVE RowFreed(i)
      BY <1>10, <2>2 DEF ResetStale, StaleJobs, workerVars, RowFreed, SelectedRows, NoOccurrenceSkipped, TypeOK
    <2>3. ASSUME NEW i \in Jobs, i \notin StaleJobs PROVE RowKept(i)
      BY <1>10, <2>3 DEF ResetStale, RowKept
    <2>4. \A i \in Jobs : resets'[i] = 0 => resets[i] = 0
      BY <1>10 DEF ResetStale, TypeOK
    <2> QED BY <2>1, <2>2, <2>3, <2>4, ShrinkKeepsInv
  <1>11. ASSUME NEW w \in Workers, NEW j \in Jobs, DispatchOk(w, j) PROVE StateInv'
    <2>1. /\ hand[w][j] = "claimed" /\ hand' = [hand EXCEPT ![w][j] = "fired"] /\ Fire(w, j)
          /\ UNCHANGED <<status, run_count, attempts, due, stale, up, runs, tries, failures, resets>>
          /\ faults' \in Nat
      BY <1>11 DEF DispatchOk, Ready, rowVars, TypeOK
    <2> QED BY <2>1, DispatchKeepsInv
  <1>12. ASSUME NEW w \in Workers, NEW j \in Jobs, DispatchError(w, j) PROVE StateInv'
    <2>1. /\ hand[w][j] = "claimed" /\ hand' = [hand EXCEPT ![w][j] = "raised"]
          /\ Fire(w, j) \/ UNCHANGED fires
          /\ UNCHANGED <<status, run_count, attempts, due, stale, up, runs, tries, failures, resets>>
          /\ faults' \in Nat
      BY <1>12, <1>f DEF DispatchError, Ready, rowVars
    <2> QED BY <2>1, DispatchKeepsInv
  <1>13. ASSUME NEW w \in Workers, NEW j \in Jobs,
                MarkSucceeded(w, j) \/ MarkFailed(w, j) \/ MarkError(w, j)
         PROVE  StateInv'
    <2>1. Release(w, j) \/ Drop(w)
      BY <1>13 DEF MarkSucceeded, MarkFailed, MarkError
    <2>2. /\ HandsShrink /\ hand'[w][j] = "none"
          /\ hand' \in [Workers -> [Jobs -> Stages]]
          /\ runs' \in [Workers -> [Jobs -> Nat]]
          /\ tries' \in [Workers -> [Jobs -> Nat]]
      BY <2>1, ReleasePoint, DropPoint DEF HandsShrink
    <2>3. UNCHANGED <<up, fires, resets>> /\ faults' \in Nat
      BY <1>13, <1>f DEF MarkSucceeded, MarkFailed, MarkError, histVars, TypeOK
    <2>4. SetMarked(w, j) \/ UNCHANGED <<rowVars, failures>>
      BY <1>13 DEF MarkSucceeded, MarkFailed, MarkError, SetMarked, histVars
    <2>5. /\ \A i \in Jobs : RowKept(i) \/ RowFreed(i)
          /\ status' \in [Jobs -> Statuses] /\ run_count' \in [Jobs -> Nat]
          /\ attempts' \in [Jobs -> Nat] /\ due' \in SUBSET Jobs /\ stale' \in SUBSET Jobs
          /\ failures' \in [Jobs -> Nat]
      <3>1. CASE SetMarked(w, j)
        BY <2>2, <2>3, <3>1, MarkFreesRow
      <3>2. CASE UNCHANGED <<rowVars, failures>>
        BY <3>2 DEF rowVars, RowKept, TypeOK
      <3> QED BY <2>4, <3>1, <3>2
    <2>6. TypeOK'
      BY <2>2, <2>3, <2>5 DEF TypeOK
    <2> QED BY <2>2, <2>3, <2>5, <2>6, FiresUnchanged, ShrinkKeepsInv
  <1>14. CASE UNCHANGED vars
    BY <1>14, <1>h, FiresUnchanged, ShrinkKeepsInv
      DEF vars, rowVars, workerVars, histVars, TypeOK, RowKept
  <1> QED
    BY <1>1, <1>2, <1>3, <1>4, <1>5, <1>6, <1>7, <1>8, <1>9, <1>10, <1>11,
       <1>12, <1>13, <1>14 DEF Next

----------------------------------------------------------------------------
(* Counting the fires of an occurrence *)

\* Workers that may still fire occurrence k of job j, or bring the row to it.
Owers(j, k) ==
    {w \in Workers : \/ hand[w][j] = "claimed" /\ runs[w][j] <= k
                     \/ hand[w][j] = "fired" /\ runs[w][j] < k}

\* The row may still lead to a fire of occurrence k.
RowOwes(j, k) ==
    IF status[j] \in {"none", "SCHEDULED"} /\ run_count[j] <= k THEN 1 ELSE 0

\* Fires made and still to come, against the failures and resets that explain
\* them.
Paid(j, k) ==
    fires[j][k] + Cardinality(Owers(j, k)) + RowOwes(j, k) <= 1 + failures[j] + resets[j]

FiresPaid == \A j \in Jobs, k \in Occurrences : Paid(j, k)

\* The workers that owe a fire are finitely many, now and after a step.
LEMMA OwersFinite ==
  ASSUME NEW j, NEW k
  PROVE  /\ IsFiniteSet(Owers(j, k)) /\ Cardinality(Owers(j, k)) \in Nat
         /\ IsFiniteSet(Owers(j, k)') /\ Cardinality(Owers(j, k)') \in Nat
  <1>1. Owers(j, k) \subseteq Workers /\ Owers(j, k)' \subseteq Workers
    BY DEF Owers
  <1>2. IsFiniteSet(Owers(j, k)) /\ IsFiniteSet(Owers(j, k)')
    BY <1>1, SchedulerAssumption, FS_Subset DEF SchedulerAssumption
  <1> QED BY <1>2, FS_CardinalityType

\* The numbers in Paid, and their types.
LEMMA PaidTypes ==
  ASSUME TypeOK, TypeOK', NEW j \in Jobs, NEW k \in Occurrences
  PROVE  /\ fires[j][k] \in Nat /\ failures[j] \in Nat /\ resets[j] \in Nat
         /\ fires'[j][k] \in Nat /\ failures'[j] \in Nat /\ resets'[j] \in Nat
         /\ RowOwes(j, k) \in {0, 1} /\ RowOwes(j, k)' \in {0, 1}
  BY DEF TypeOK, RowOwes

\* Nobody new owes, and what the row newly owes is a failure or a reset.
LEMMA PaidByFault ==
  ASSUME TypeOK, TypeOK', NEW j \in Jobs, NEW k \in Occurrences, Paid(j, k),
         Owers(j, k)' \subseteq Owers(j, k), fires'[j][k] = fires[j][k],
         \/ RowOwes(j, k)' <= RowOwes(j, k) /\ failures'[j] = failures[j] /\ resets'[j] = resets[j]
         \/ failures'[j] = failures[j] + 1 /\ resets'[j] = resets[j]
         \/ failures'[j] = failures[j] /\ resets'[j] = resets[j] + 1
  PROVE  Paid(j, k)'
  <1>1. Cardinality(Owers(j, k)') <= Cardinality(Owers(j, k))
    BY OwersFinite, FS_Subset
  <1> QED BY <1>1, OwersFinite, PaidTypes DEF Paid

\* A worker that owed does no more, and one fire or the row's debt takes its
\* place.
LEMMA PaidByWorker ==
  ASSUME TypeOK, TypeOK', NEW j \in Jobs, NEW k \in Occurrences, Paid(j, k),
         NEW w \in Owers(j, k), Owers(j, k)' \subseteq Owers(j, k) \ {w},
         fires'[j][k] + RowOwes(j, k)' <= fires[j][k] + RowOwes(j, k) + 1,
         failures'[j] = failures[j], resets'[j] = resets[j]
  PROVE  Paid(j, k)'
  <1>1. /\ IsFiniteSet(Owers(j, k) \ {w})
        /\ Cardinality(Owers(j, k) \ {w}) = Cardinality(Owers(j, k)) - 1
    BY OwersFinite, FS_RemoveElement
  <1>2. Cardinality(Owers(j, k)') <= Cardinality(Owers(j, k) \ {w})
    BY <1>1, FS_Subset
  <1> QED BY <1>1, <1>2, OwersFinite, PaidTypes DEF Paid

\* One element more is at most one more in number.
LEMMA OneMore ==
  ASSUME NEW S, NEW x, IsFiniteSet(S)
  PROVE  IsFiniteSet(S \cup {x}) /\ Cardinality(S \cup {x}) <= Cardinality(S) + 1
  <1>1. Cardinality(S) \in Nat
    BY FS_CardinalityType
  <1>2. CASE x \in S
    <2>1. S \cup {x} = S
      BY <1>2
    <2>2. Cardinality(S) <= Cardinality(S) + 1
      BY <1>1
    <2> QED BY <2>1, <2>2
  <1>3. CASE x \notin S
    <2>1. IsFiniteSet(S \cup {x}) /\ Cardinality(S \cup {x}) = Cardinality(S) + 1
      BY <1>3, FS_AddElement
    <2> QED BY <1>1, <2>1
  <1> QED BY <1>2, <1>3

\* A claim moves the row's debt to the worker.
LEMMA PaidByRow ==
  ASSUME TypeOK, TypeOK', NEW j \in Jobs, NEW k \in Occurrences, Paid(j, k),
         NEW w \in Workers, Owers(j, k)' \subseteq Owers(j, k) \cup {w},
         fires'[j][k] = fires[j][k], RowOwes(j, k) = 1, RowOwes(j, k)' = 0,
         failures'[j] = failures[j], resets'[j] = resets[j]
  PROVE  Paid(j, k)'
  <1>1. /\ IsFiniteSet(Owers(j, k) \cup {w})
        /\ Cardinality(Owers(j, k) \cup {w}) <= Cardinality(Owers(j, k)) + 1
    BY OwersFinite, OneMore
  <1>2. /\ Cardinality(Owers(j, k)') <= Cardinality(Owers(j, k) \cup {w})
        /\ Cardinality(Owers(j, k) \cup {w}) \in Nat
    BY <1>1, FS_Subset, FS_CardinalityType
  <1> QED BY <1>1, <1>2, OwersFinite, PaidTypes DEF Paid

\* Hands that only let go owe no more.
LEMMA ShrinkOwes ==
  ASSUME HandsShrink, NEW j \in Jobs, NEW k \in Occurrences
  PROVE  Owers(j, k)' \subseteq Owers(j, k)
  BY DEF HandsShrink, Owers

\* Initially only the row owes.
LEMMA PaidInit == Init => FiresPaid
  <1> SUFFICES ASSUME Init, NEW j \in Jobs, NEW k \in Occurrences PROVE Paid(j, k)
    BY DEF FiresPaid
  <1>1. Owers(j, k) = {}
    BY DEF Init, Owers
  <1>2. Cardinality(Owers(j, k)) = 0
    BY <1>1, FS_EmptySet
  <1>3. fires[j][k] = 0 /\ failures[j] = 0 /\ resets[j] = 0
    BY DEF Init
  <1> QED BY <1>2, <1>3 DEF Paid, RowOwes

\* A mark pays for what the row owes after it: with a failure, or with the
\* debt of the worker, which then is done with the job.
LEMMA PaidByMark ==
  ASSUME TypeOK, TypeOK', FiresPaid, NEW w \in Workers, NEW j \in Jobs, SetMarked(w, j),
         HandsShrink, hand'[w][j] = "none", UNCHANGED <<fires, resets>>
  PROVE  FiresPaid'
  <1> SUFFICES ASSUME NEW i \in Jobs, NEW k \in Occurrences PROVE Paid(i, k)'
    BY DEF FiresPaid
  <1>1. Paid(i, k) /\ Owers(i, k)' \subseteq Owers(i, k)
    BY ShrinkOwes DEF FiresPaid
  <1>2. CASE i # j
    <2>1. status'[i] = status[i] /\ run_count'[i] = run_count[i] /\ failures'[i] = failures[i]
      BY <1>2, SucceededPoint, FailedPoint DEF SetMarked
    <2>2. RowOwes(i, k)' <= RowOwes(i, k)
      BY <2>1 DEF RowOwes
    <2> QED BY <1>1, <2>1, <2>2, PaidByFault
  <1>3. CASE i = j /\ hand[w][j] = "raised" /\ SetFailed(w, j)
    <2>1. failures'[i] = failures[i] + 1
      BY <1>3, FailedPoint
    <2> QED BY <1>1, <2>1, PaidByFault
  <1>4. CASE i = j /\ hand[w][j] = "fired" /\ SetSucceeded(w, j) /\ UNCHANGED failures
    <2>0. run_count'[j] = runs[w][j] + 1
      BY <1>4, SucceededPoint
    <2>1. runs[w][j] \in Nat /\ k \in Int
      BY SchedulerAssumption DEF TypeOK, Occurrences, SchedulerAssumption
    <2>2. CASE runs[w][j] < k
      <3>1. w \in Owers(i, k)
        BY <1>4, <2>2 DEF Owers
      <3>2. w \notin Owers(i, k)'
        BY <1>4 DEF Owers
      <3>3. fires'[i][k] + RowOwes(i, k)' <= fires[i][k] + RowOwes(i, k) + 1
        BY PaidTypes
      <3> QED BY <1>1, <1>4, <3>1, <3>2, <3>3, PaidByWorker
    <2>3. CASE ~(runs[w][j] < k)
      <3>1. ~(run_count'[i] <= k)
        BY <1>4, <2>0, <2>1, <2>3
      <3>2. RowOwes(i, k)' <= RowOwes(i, k)
        BY <3>1 DEF RowOwes
      <3> QED BY <1>1, <1>4, <3>2, PaidByFault
    <2> QED BY <2>2, <2>3
  <1> QED BY <1>2, <1>3, <1>4 DEF SetMarked

\* A step that fires nothing, lets go of jobs and writes no row back to
\* SCHEDULED keeps the account.
LEMMA PaidByQuiet ==
  ASSUME TypeOK, TypeOK', FiresPaid, HandsShrink, UNCHANGED <<fires, failures, resets, run_count>>,
         \A j \in Jobs : \/ status'[j] = status[j]
                         \/ status'[j] \notin {"none", "SCHEDULED"}
                         \/ status[j] \in {"none", "SCHEDULED"}
  PROVE  FiresPaid'
  <1> SUFFICES ASSUME NEW j \in Jobs, NEW k \in Occurrences PROVE Paid(j, k)'
    BY DEF FiresPaid
  <1>1. Paid(j, k) /\ Owers(j, k)' \subseteq Owers(j, k)
    BY ShrinkOwes DEF FiresPaid
  <1>2. RowOwes(j, k)' <= RowOwes(j, k)
    BY DEF RowOwes
  <1> QED BY <1>1, <1>2, PaidByFault

\* A dispatch is paid by the worker that made it, which moves on or drops the
\* job.
LEMMA PaidByDispatch ==
  ASSUME TypeOK, TypeOK', FiresPaid, NEW w \in Workers, NEW j \in Jobs,
         hand[w][j] = "claimed", Fire(w, j),
         hand'[w][j] \in {"fired", "raised", "none"},
         hand'[w][j] = "fired" => runs'[w][j] = runs[w][j],
         \A v \in Workers, i \in Jobs : ~(v = w /\ i = j) =>
            hand'[v][i] = "none" \/ (hand'[v][i] = hand[v][i] /\ runs'[v][i] = runs[v][i]),
         UNCHANGED <<status, run_count, failures, resets>>
  PROVE  FiresPaid'
  <1> SUFFICES ASSUME NEW i \in Jobs, NEW k \in Occurrences PROVE Paid(i, k)'
    BY DEF FiresPaid
  <1>1. Paid(i, k) /\ RowOwes(i, k)' = RowOwes(i, k)
    BY DEF FiresPaid, RowOwes
  <1>2. runs[w][j] \in Nat /\ k \in Int
    BY SchedulerAssumption DEF TypeOK, Occurrences, SchedulerAssumption
  <1>3. Owers(i, k)' \subseteq Owers(i, k)
    BY <1>2 DEF Owers
  <1>4. CASE i = j /\ k = runs[w][j]
    <2>1. w \in Owers(i, k) /\ w \notin Owers(i, k)'
      BY <1>2, <1>4 DEF Owers
    <2>2. fires'[i][k] = fires[i][k] + 1
      BY <1>4, FirePoint
    <2>3. fires'[i][k] + RowOwes(i, k)' <= fires[i][k] + RowOwes(i, k) + 1
      BY <1>1, <2>2, PaidTypes
    <2> QED BY <1>1, <1>3, <2>1, <2>3, PaidByWorker
  <1>5. CASE ~(i = j /\ k = runs[w][j])
    <2>1. fires'[i][k] = fires[i][k]
      BY <1>5, FirePoint
    <2>2. RowOwes(i, k)' <= RowOwes(i, k)
      BY <1>1 DEF RowOwes
    <2> QED BY <1>1, <1>3, <2>1, <2>2, PaidByFault
  <1> QED BY <1>4, <1>5

\* Selecting rows makes nobody owe: the row still does.
LEMMA PaidBySelect ==
  ASSUME TypeOK, TypeOK', FiresPaid, NEW w \in Workers, SelectDue(w)
  PROVE  FiresPaid'
  <1> SUFFICES ASSUME NEW j \in Jobs, NEW k \in Occurrences PROVE Paid(j, k)'
    BY DEF FiresPaid
  <1>1. /\ hand'[w][j] \in {"selected", "none"}
        /\ \A v \in Workers : v # w => hand'[v][j] = hand[v][j] /\ runs'[v][j] = runs[v][j]
    BY DEF SelectDue, TypeOK
  <1>2. Owers(j, k)' \subseteq Owers(j, k)
    BY <1>1 DEF Owers
  <1>3. UNCHANGED <<status, run_count, fires, failures, resets>>
    BY DEF SelectDue, rowVars, histVars
  <1>4. Paid(j, k) /\ RowOwes(j, k)' <= RowOwes(j, k)
    BY <1>3 DEF FiresPaid, RowOwes
  <1> QED BY <1>2, <1>3, <1>4, PaidByFault

\* Claiming them moves the debt of each row to the worker.
LEMMA PaidByClaim ==
  ASSUME TypeOK, TypeOK', SelectedRows, FiresPaid, NEW w \in Workers, ClaimDue(w)
  PROVE  FiresPaid'
  <1> SUFFICES ASSUME NEW j \in Jobs, NEW k \in Occurrences PROVE Paid(j, k)'
    BY DEF FiresPaid
  <1>1. /\ hand'[w][j] = (IF hand[w][j] = "selected" THEN "claimed" ELSE "none")
        /\ \A v \in Workers : v # w => hand'[v][j] = hand[v][j]
    BY DEF ClaimDue, TypeOK
  <1>2. UNCHANGED <<run_count, runs, fires, failures, resets>>
    BY DEF ClaimDue, histVars
  <1>3. status'[j] = IF hand[w][j] = "selected" THEN "RUNNING" ELSE status[j]
    BY ClaimRowsPoint DEF ClaimDue, Selected
  <1>4. Paid(j, k) /\ RowOwes(j, k)' <= RowOwes(j, k)
    BY <1>2, <1>3 DEF FiresPaid, RowOwes
  <1>5. CASE hand[w][j] = "selected" /\ run_count[j] <= k
    <2>1. RowOwes(j, k) = 1 /\ RowOwes(j, k)' = 0
      BY <1>3, <1>5 DEF SelectedRows, RowOwes
    <2>2. Owers(j, k)' \subseteq Owers(j, k) \cup {w}
      BY <1>1, <1>2 DEF Owers
    <2> QED BY <1>2, <1>4, <2>1, <2>2, PaidByRow
  <1>6. CASE ~(hand[w][j] = "selected" /\ run_count[j] <= k)
    <2>1. Owers(j, k)' \subseteq Owers(j, k)
      BY <1>1, <1>2, <1>6 DEF Owers, SelectedRows
    <2> QED BY <1>2, <1>4, <2>1, PaidByFault
  <1> QED BY <1>5, <1>6

\* A reset of stale claims pays for each row it returns.
LEMMA PaidByReset ==
  ASSUME TypeOK, TypeOK', FiresPaid, NEW w \in Workers, ResetStale(w)
  PROVE  FiresPaid'
  <1> SUFFICES ASSUME NEW j \in Jobs, NEW k \in Occurrences PROVE Paid(j, k)'
    BY DEF FiresPaid
  <1>1. UNCHANGED <<run_count, hand, runs, fires, failures>>
    BY DEF ResetStale, workerVars
  <1>2. Paid(j, k) /\ Owers(j, k)' \subseteq Owers(j, k)
    BY <1>1 DEF FiresPaid, Owers
  <1>3. CASE j \in StaleJobs
    <2>1. resets'[j] = resets[j] + 1
      BY <1>3 DEF ResetStale
    <2> QED BY <1>1, <1>2, <2>1, PaidByFault
  <1>4. CASE j \notin StaleJobs
    <2>1. resets'[j] = resets[j] /\ status'[j] = status[j]
      BY <1>4 DEF ResetStale
    <2>2. RowOwes(j, k)' <= RowOwes(j, k)
      BY <1>1, <2>1 DEF RowOwes
    <2> QED BY <1>1, <1>2, <2>1, <2>2, PaidByFault
  <1> QED BY <1>3, <1>4

\* A dispatch that raises before the job took effect ends the worker's debt.
LEMMA PaidByRaise ==
  ASSUME TypeOK, TypeOK', FiresPaid, NEW w \in Workers, NEW j \in Jobs,
         hand' = [hand EXCEPT ![w][j] = "raised"],
         UNCHANGED <<status, run_count, runs, fires, failures, resets>>
  PROVE  FiresPaid'
  <1> SUFFICES ASSUME NEW i \in Jobs, NEW k \in Occurrences PROVE Paid(i, k)'
    BY DEF FiresPaid
  <1>1. hand'[w][j] = "raised" /\ \A v \in Workers, l \in Jobs : ~(v = w /\ l = j) => hand'[v][l] = hand[v][l]
    BY DEF TypeOK
  <1>2. Owers(i, k)' \subseteq Owers(i, k)
    BY <1>1 DEF Owers
  <1>3. Paid(i, k) /\ RowOwes(i, k)' <= RowOwes(i, k)
    BY DEF FiresPaid, RowOwes
  <1> QED BY <1>2, <1>3, PaidByFault

\* A worker that is cancelled leaves the account balanced, whatever of its
\* last request happened.
LEMMA PaidByCancelWorker ==
  ASSUME TypeOK, TypeOK', FiresPaid, NEW w \in Workers, CancelWorker(w)
  PROVE  FiresPaid'
  <1>1. Drop(w) /\ UNCHANGED resets
    BY DEF CancelWorker
  <1>2. HandsShrink /\ \A j \in Jobs : hand'[w][j] = "none"
    BY <1>1, DropPoint DEF HandsShrink
  <1>3. CASE UNCHANGED <<rowVars, fires, failures>>
    BY <1>1, <1>2, <1>3, PaidByQuiet DEF rowVars
  <1>4. CASE ClaimRows(Selected(w)) /\ UNCHANGED <<run_count, fires, failures>>
    <2>1. \A j \in Jobs : status'[j] = "RUNNING" \/ status'[j] = status[j]
      BY <1>4, ClaimRowsPoint DEF Selected
    <2> QED BY <1>1, <1>2, <1>4, <2>1, PaidByQuiet
  <1>5. ASSUME NEW j \in Jobs, Ready(w, j), Fire(w, j), UNCHANGED <<rowVars, failures>>
        PROVE  FiresPaid'
    <2>1. hand[w][j] = "claimed" /\ UNCHANGED <<status, run_count, failures, resets>>
      BY <1>1, <1>5 DEF Ready, rowVars
    <2> QED BY <1>2, <1>5, <2>1, PaidByDispatch DEF HandsShrink
  <1>6. ASSUME NEW j \in Jobs, SetMarked(w, j), UNCHANGED fires
        PROVE  FiresPaid'
    BY <1>1, <1>2, <1>6, PaidByMark
  <1> QED BY <1>3, <1>4, <1>5, <1>6 DEF CancelWorker

\* Every step keeps the account.
LEMMA PaidStep == StateInv /\ StateInv' /\ FiresPaid /\ [Next]_vars => FiresPaid'
  <1> SUFFICES ASSUME StateInv, StateInv', FiresPaid, [Next]_vars PROVE FiresPaid'
    OBVIOUS
  <1>t. TypeOK /\ TypeOK' /\ SelectedRows
    BY DEF StateInv
  <1>h. UNCHANGED workerVars => HandsShrink
    BY DEF workerVars, HandsShrink
  <1>1. ASSUME NEW j \in Jobs,
               Create(j) \/ Cancel(j) \/ Elapse(j) \/ TimeoutAbandoned(j) \/ TimeoutHeld(j)
        PROVE  FiresPaid'
    <2>1. UNCHANGED workerVars /\ UNCHANGED <<fires, failures, resets, run_count>>
      BY <1>1 DEF Create, Cancel, Elapse, TimeoutAbandoned, TimeoutHeld, GoStale, histVars
    <2>2. \A i \in Jobs : \/ status'[i] = status[i]
                          \/ status'[i] \notin {"none", "SCHEDULED"}
                          \/ status[i] \in {"none", "SCHEDULED"}
      BY <1>t, <1>1 DEF Create, Cancel, Elapse, TimeoutAbandoned, TimeoutHeld, GoStale, TypeOK
    <2> QED BY <1>t, <1>h, <2>1, <2>2, PaidByQuiet
  <1>2. ASSUME NEW w \in Workers, SelectDue(w) PROVE FiresPaid'
    BY <1>t, <1>2, PaidBySelect
  <1>3. ASSUME NEW w \in Workers, ClaimDue(w) PROVE FiresPaid'
    BY <1>t, <1>3, PaidByClaim
  <1>4. ASSUME NEW w \in Workers, ClaimError(w) PROVE FiresPaid'
    <2>1. Drop(w) /\ UNCHANGED <<run_count, fires, failures, resets>>
      BY <1>4 DEF ClaimError, histVars
    <2>2. HandsShrink
      BY <1>t, <2>1, DropPoint DEF HandsShrink
    <2>3. \A j \in Jobs : status'[j] = "RUNNING" \/ status'[j] = status[j]
      BY <1>t, <1>4, ClaimRowsPoint DEF ClaimError, Selected
    <2> QED BY <1>t, <2>1, <2>2, <2>3, PaidByQuiet
  <1>5. ASSUME NEW w \in Workers, Stop(w) \/ Start(w) PROVE FiresPaid'
    BY <1>t, <1>h, <1>5, PaidByQuiet DEF Stop, Start, rowVars, histVars
  <1>6. ASSUME NEW w \in Workers, CancelWorker(w) PROVE FiresPaid'
    BY <1>t, <1>6, PaidByCancelWorker
  <1>7. ASSUME NEW w \in Workers, ResetStale(w) PROVE FiresPaid'
    BY <1>t, <1>7, PaidByReset
  <1>8. ASSUME NEW w \in Workers, NEW j \in Jobs, DispatchOk(w, j) \/ DispatchError(w, j)
        PROVE  FiresPaid'
    <2>1. /\ hand[w][j] = "claimed"
          /\ UNCHANGED <<status, run_count, runs, failures, resets>>
          /\ \E s \in {"fired", "raised"} : hand' = [hand EXCEPT ![w][j] = s]
          /\ Fire(w, j) \/ (hand' = [hand EXCEPT ![w][j] = "raised"] /\ UNCHANGED fires)
      BY <1>8 DEF DispatchOk, DispatchError, Ready, rowVars
    <2>2. CASE Fire(w, j)
      <3>0. PICK s \in {"fired", "raised"} : hand' = [hand EXCEPT ![w][j] = s]
        BY <2>1
      <3>1. /\ hand'[w][j] = s
            /\ \A v \in Workers, i \in Jobs : ~(v = w /\ i = j) => hand'[v][i] = hand[v][i]
        BY <1>t, <3>0 DEF TypeOK
      <3> QED BY <1>t, <2>1, <2>2, <3>1, PaidByDispatch
    <2>3. CASE hand' = [hand EXCEPT ![w][j] = "raised"] /\ UNCHANGED fires
      BY <1>t, <2>1, <2>3, PaidByRaise
    <2> QED BY <2>1, <2>2, <2>3
  <1>9. ASSUME NEW w \in Workers, NEW j \in Jobs,
               MarkSucceeded(w, j) \/ MarkFailed(w, j) \/ MarkError(w, j)
        PROVE  FiresPaid'
    <2>1. Release(w, j) \/ Drop(w)
      BY <1>9 DEF MarkSucceeded, MarkFailed, MarkError
    <2>2. HandsShrink /\ hand'[w][j] = "none"
      BY <1>t, <2>1, ReleasePoint, DropPoint DEF HandsShrink
    <2>3. UNCHANGED <<fires, resets>>
      BY <1>9 DEF MarkSucceeded, MarkFailed, MarkError, histVars
    <2>4. SetMarked(w, j) \/ UNCHANGED <<rowVars, failures>>
      BY <1>9 DEF MarkSucceeded, MarkFailed, MarkError, SetMarked, histVars
    <2>5. CASE SetMarked(w, j)
      BY <1>t, <2>2, <2>3, <2>5, PaidByMark
    <2>6. CASE UNCHANGED <<rowVars, failures>>
      BY <1>t, <2>2, <2>3, <2>6, PaidByQuiet DEF rowVars
    <2> QED BY <2>4, <2>5, <2>6
  <1>10. CASE UNCHANGED vars
    BY <1>t, <1>h, <1>10, PaidByQuiet DEF vars, rowVars, histVars
  <1> QED
    BY <1>1, <1>2, <1>3, <1>4, <1>5, <1>6, <1>7, <1>8, <1>9, <1>10 DEF Next

----------------------------------------------------------------------------
(* Retries and runs that are left, while no claim of the job was reset *)

\* The job may still run.
Live(j) ==
    \/ status[j] \in {"none", "SCHEDULED", "RUNNING"}
    \/ \E w \in Workers : hand[w][j] \in Working

\* Whoever has the job in hand works from counts that are still the row's.
CopiesCurrent(j) ==
    \A w \in Workers : hand[w][j] # "none" =>
        runs[w][j] = run_count[j] /\ tries[w][j] = attempts[j]

RetriesLeft(j) ==
    failures[j] = attempts[j] /\ (failures[j] = 0 \/ failures[j] < MaxRetries[j])

RunsLeft(j) == MaxRuns[j] = NoCap \/ run_count[j] = 0 \/ run_count[j] < MaxRuns[j]

\* RetryBudget and CapHolds for one job, and what carries them: a job that may
\* still run has a retry, or a run, left.
BudgetKept(j) ==
    /\ Live(j) => RetriesLeft(j)
    /\ failures[j] <= MaxRetries[j] \/ failures[j] = 1
    /\ status[j] = "FAILED" => failures[j] >= MaxRetries[j]

CapKept(j) ==
    /\ Live(j) => RunsLeft(j)
    /\ \A k \in Occurrences : MaxRuns[j] # NoCap /\ k >= MaxRuns[j] /\ k > 0 => ~(fires[j][k] > 0)

CountKept(j) ==
    /\ CopiesCurrent(j)
    /\ j \notin Recurring => BudgetKept(j)
    /\ j \in Recurring => CapKept(j)

CountInv == \A j \in Jobs : resets[j] = 0 => CountKept(j)

\* A step that leaves the counts of a job alone, brings it back from nowhere,
\* and fires at most its current occurrence.
LEMMA CountsStay ==
  ASSUME TypeOK, NEW j \in Jobs, CountKept(j), CopiesCurrent(j)',
         run_count'[j] = run_count[j], attempts'[j] = attempts[j], failures'[j] = failures[j],
         Live(j)' => Live(j), status'[j] = "FAILED" => status[j] = "FAILED",
         \A k \in Occurrences : \/ fires'[j][k] = fires[j][k]
                                \/ Live(j) /\ k = run_count[j]
  PROVE  CountKept(j)'
  <1>1. ASSUME j \notin Recurring PROVE BudgetKept(j)'
    BY <1>1 DEF CountKept, BudgetKept, RetriesLeft
  <1>2. ASSUME j \in Recurring PROVE CapKept(j)'
    <2>1. CapKept(j)
      BY <1>2 DEF CountKept
    <2>2. Live(j)' => RunsLeft(j)'
      BY <2>1 DEF CapKept, RunsLeft
    <2>3. ASSUME NEW k \in Occurrences, MaxRuns[j] # NoCap, k >= MaxRuns[j], k > 0
          PROVE  ~(fires'[j][k] > 0)
      <3>1. k \in Nat /\ MaxRuns[j] \in Nat
        BY <2>3, SchedulerAssumption DEF SchedulerAssumption, Occurrences
      <3>2. ~(Live(j) /\ k = run_count[j])
        BY <2>1, <2>3, <3>1 DEF CapKept, RunsLeft
      <3>3. ~(fires[j][k] > 0)
        BY <2>1, <2>3 DEF CapKept
      <3> QED BY <3>2, <3>3
    <2> QED BY <2>2, <2>3 DEF CapKept
  <1> QED BY <1>1, <1>2 DEF CountKept

\* Hands that only let go keep the copies they have.
LettingGo ==
    \A v \in Workers, i \in Jobs :
        \/ hand'[v][i] = "none"
        \/ hand'[v][i] = hand[v][i] /\ runs'[v][i] = runs[v][i] /\ tries'[v][i] = tries[v][i]

\* The same for a step in which hands only let go, job by job.
LEMMA CountsQuiet ==
  ASSUME TypeOK, CountInv, LettingGo, UNCHANGED <<run_count, attempts, failures>>,
         \A j \in Jobs : resets'[j] = 0 => resets[j] = 0,
         \A j \in Jobs : resets'[j] = 0 =>
            \/ status'[j] = status[j] \/ status'[j] = "CANCELLED"
            \/ status'[j] \in {"SCHEDULED", "RUNNING"} /\ status[j] \in {"none", "SCHEDULED"},
         \A j \in Jobs, k \in Occurrences :
            \/ fires'[j][k] = fires[j][k]
            \/ \E w \in Workers : hand[w][j] \in Working /\ k = runs[w][j]
  PROVE  CountInv'
  <1> SUFFICES ASSUME NEW j \in Jobs, resets'[j] = 0 PROVE CountKept(j)'
    BY DEF CountInv
  <1>1. CountKept(j) /\ CopiesCurrent(j)
    BY DEF CountInv, CountKept
  <1>2. CopiesCurrent(j)'
    BY <1>1 DEF CopiesCurrent, LettingGo
  <1>3. Live(j)' => Live(j)
    BY DEF Live, LettingGo, Working
  <1>4. \A k \in Occurrences : \/ fires'[j][k] = fires[j][k]
                               \/ Live(j) /\ k = run_count[j]
    BY <1>1 DEF CopiesCurrent, Live, Working
  <1> QED BY <1>1, <1>2, <1>3, <1>4, CountsStay

\* A mark by the one worker that holds the job: a failure uses up a retry, a
\* run counts against the cap, and the last of either ends the job.
LEMMA CountsMarked ==
  ASSUME StateInv, CountInv, NEW w \in Workers, NEW j \in Jobs, SetMarked(w, j),
         LettingGo, hand'[w][j] = "none", UNCHANGED <<fires, resets>>
  PROVE  CountInv'
  <1>t. /\ TypeOK /\ status \in [Jobs -> Statuses] /\ attempts \in [Jobs -> Nat]
        /\ failures \in [Jobs -> Nat] /\ run_count \in [Jobs -> Nat]
    BY DEF StateInv, TypeOK
  <1>0. hand[w][j] \in {"fired", "raised"}
    BY DEF SetMarked
  <1>1. ASSUME NEW i \in Jobs, i # j, resets'[i] = 0 PROVE CountKept(i)'
    <2>1. CountKept(i) /\ CopiesCurrent(i)
      BY <1>1 DEF CountInv, CountKept
    <2>2. /\ status'[i] = status[i] /\ run_count'[i] = run_count[i]
          /\ attempts'[i] = attempts[i] /\ failures'[i] = failures[i]
      BY <1>t, <1>1 DEF SetMarked, SetSucceeded, SetFailed
    <2>3. CopiesCurrent(i)' /\ (Live(i)' => Live(i))
      BY <2>1, <2>2 DEF CopiesCurrent, LettingGo, Live, Working
    <2> QED BY <1>t, <2>1, <2>2, <2>3, CountsStay
  <1>2. ASSUME resets'[j] = 0 PROVE CountKept(j)'
    <2>1. /\ CountKept(j) /\ runs[w][j] = run_count[j] /\ tries[w][j] = attempts[j] /\ Live(j)
          /\ attempts[j] \in Nat /\ failures[j] \in Nat /\ run_count[j] \in Nat /\ MaxRetries[j] \in Nat
          /\ MaxRuns[j] \in Nat \cup {NoCap}
      BY <1>t, <1>0, <1>2, SchedulerAssumption
      DEF CountInv, CountKept, CopiesCurrent, Live, Working, SchedulerAssumption
    <2>2. \A v \in Workers : hand'[v][j] = "none"
      <3>1. \A v \in Workers : hand[v][j] \in Working => v = w
        BY <1>0, <1>2 DEF StateInv, HolderAlone, Working
      <3>2. \A v \in Workers : hand[v][j] # "selected"
        BY DEF SetMarked, SetSucceeded, SetFailed, Locked
      <3>3. \A v \in Workers : hand[v][j] \in Working \cup {"selected", "none"}
        BY <1>t DEF TypeOK, Stages, Working
      <3> QED BY <3>1, <3>2, <3>3 DEF LettingGo
    <2>3. CopiesCurrent(j)' /\ (Live(j)' => status'[j] \in {"none", "SCHEDULED", "RUNNING"})
      BY <2>2 DEF CopiesCurrent, Live, Working
    <2>4. CASE SetSucceeded(w, j) /\ UNCHANGED failures
      <3>1. /\ status'[j] = IF LastRun(w, j) THEN "DONE" ELSE "SCHEDULED"
            /\ run_count'[j] = run_count[j] + 1
        BY <1>t, <2>1, <2>4 DEF SetSucceeded
      <3>2. ASSUME j \notin Recurring PROVE BudgetKept(j)'
        <4>1. status'[j] = "DONE"
          BY <3>1, <3>2 DEF LastRun, NoNextRun
        <4> QED BY <2>1, <2>3, <2>4, <3>2, <4>1 DEF CountKept, BudgetKept
      <3>3. ASSUME j \in Recurring PROVE CapKept(j)'
        <4>1. Live(j)' => RunsLeft(j)'
          BY <2>1, <2>3, <3>1 DEF LastRun, RunsLeft
        <4> QED BY <2>1, <3>3, <4>1 DEF CountKept, CapKept
      <3> QED BY <2>3, <3>2, <3>3 DEF CountKept
    <2>5. CASE SetFailed(w, j)
      <3>1. /\ status'[j] = IF Exhausted(w, j) THEN "FAILED" ELSE "SCHEDULED"
            /\ attempts'[j] = attempts[j] + 1 /\ failures'[j] = failures[j] + 1
            /\ run_count' = run_count
        BY <1>t, <2>1, <2>5 DEF SetFailed
      <3>2. ASSUME j \notin Recurring PROVE BudgetKept(j)'
        <4>1. failures[j] = attempts[j] /\ (failures[j] = 0 \/ failures[j] < MaxRetries[j])
          BY <2>1, <3>2 DEF CountKept, BudgetKept, RetriesLeft
        <4>2. Exhausted(w, j) <=> failures'[j] >= MaxRetries[j]
          BY <2>1, <3>1, <4>1 DEF Exhausted
        <4>3. failures'[j] <= MaxRetries[j] \/ failures'[j] = 1
          BY <2>1, <3>1, <4>1
        <4>4. status'[j] = "FAILED" => failures'[j] >= MaxRetries[j]
          BY <3>1, <4>2
        <4>5. Live(j)' => RetriesLeft(j)'
          BY <2>1, <2>3, <3>1, <4>1, <4>2 DEF RetriesLeft
        <4> QED BY <4>3, <4>4, <4>5 DEF BudgetKept
      <3>3. ASSUME j \in Recurring PROVE CapKept(j)'
        BY <2>1, <3>1, <3>3 DEF CountKept, CapKept, RunsLeft
      <3> QED BY <2>3, <3>2, <3>3 DEF CountKept
    <2> QED BY <2>4, <2>5 DEF SetMarked
  <1> QED BY <1>1, <1>2 DEF CountInv

\* A claimed batch has the counts of the rows.
LEMMA CountsSelected ==
  ASSUME StateInv, CountInv, NEW w \in Workers, SelectDue(w)
  PROVE  CountInv'
  <1>t. TypeOK
    BY DEF StateInv
  <1>1. PICK S \in SUBSET Claimable :
          /\ hand' = [hand EXCEPT ![w] = [j \in Jobs |-> IF j \in S THEN "selected" ELSE "none"]]
          /\ runs' = [runs EXCEPT ![w] = [j \in Jobs |-> IF j \in S THEN run_count[j] ELSE 0]]
          /\ tries' = [tries EXCEPT ![w] = [j \in Jobs |-> IF j \in S THEN attempts[j] ELSE 0]]
    BY DEF SelectDue
  <1>2. UNCHANGED <<status, run_count, attempts, fires, failures, resets>>
    BY DEF SelectDue, rowVars, histVars
  <1> SUFFICES ASSUME NEW j \in Jobs, resets'[j] = 0 PROVE CountKept(j)'
    BY DEF CountInv
  <1>3. CountKept(j) /\ CopiesCurrent(j)
    BY <1>2 DEF CountInv, CountKept
  <1>4. /\ hand'[w][j] = (IF j \in S THEN "selected" ELSE "none")
        /\ j \in S => runs'[w][j] = run_count[j] /\ tries'[w][j] = attempts[j]
        /\ \A v \in Workers \ {w} : /\ hand'[v][j] = hand[v][j] /\ runs'[v][j] = runs[v][j]
                                    /\ tries'[v][j] = tries[v][j]
    BY <1>t, <1>1 DEF TypeOK
  <1>5. CopiesCurrent(j)' /\ (Live(j)' => Live(j))
    BY <1>2, <1>3, <1>4 DEF CopiesCurrent, Live, Working
  <1> QED BY <1>t, <1>2, <1>3, <1>5, CountsStay

\* Claiming the selected rows changes no count.
LEMMA CountsClaimed ==
  ASSUME StateInv, CountInv, NEW w \in Workers, ClaimDue(w)
  PROVE  CountInv'
  <1>t. TypeOK
    BY DEF StateInv
  <1>1. /\ \A j \in Jobs : hand'[w][j] = (IF hand[w][j] = "selected" THEN "claimed" ELSE "none")
        /\ \A v \in Workers, j \in Jobs : v # w => hand'[v][j] = hand[v][j]
    BY <1>t DEF ClaimDue, TypeOK
  <1>2. UNCHANGED <<run_count, attempts, runs, tries, fires, failures, resets>>
    BY DEF ClaimDue, histVars
  <1>3. \A j \in Jobs : status'[j] = IF hand[w][j] = "selected" THEN "RUNNING" ELSE status[j]
    BY <1>t, ClaimRowsPoint DEF ClaimDue, Selected
  <1> SUFFICES ASSUME NEW j \in Jobs, resets'[j] = 0 PROVE CountKept(j)'
    BY DEF CountInv
  <1>4. CountKept(j) /\ CopiesCurrent(j)
    BY <1>2 DEF CountInv, CountKept
  <1>5. hand[w][j] = "selected" => status[j] = "SCHEDULED"
    BY DEF StateInv, SelectedRows
  <1>6. CopiesCurrent(j)'
    BY <1>1, <1>2, <1>4 DEF CopiesCurrent
  <1>7. Live(j)' => Live(j)
    BY <1>1, <1>3, <1>5 DEF Live, Working
  <1> QED BY <1>t, <1>2, <1>3, <1>4, <1>5, <1>6, <1>7, CountsStay

\* A dispatch fires the occurrence the row is at.
LEMMA CountsDispatched ==
  ASSUME StateInv, CountInv, NEW w \in Workers, NEW j \in Jobs, DispatchOk(w, j) \/ DispatchError(w, j)
  PROVE  CountInv'
  <1>t. TypeOK
    BY DEF StateInv
  <1>1. /\ hand[w][j] = "claimed" /\ (Fire(w, j) \/ UNCHANGED fires)
        /\ UNCHANGED <<status, run_count, attempts, runs, tries, failures, resets>>
    BY DEF DispatchOk, DispatchError, Ready, rowVars
  <1>2. PICK s \in {"fired", "raised"} : hand' = [hand EXCEPT ![w][j] = s]
    BY DEF DispatchOk, DispatchError
  <1>3. \A v \in Workers, i \in Jobs : hand'[v][i] = IF v = w /\ i = j THEN s ELSE hand[v][i]
    BY <1>t, <1>2 DEF TypeOK
  <1> SUFFICES ASSUME NEW i \in Jobs, resets'[i] = 0 PROVE CountKept(i)'
    BY DEF CountInv
  <1>4. CountKept(i) /\ CopiesCurrent(i)
    BY <1>1 DEF CountInv, CountKept
  <1>5. CopiesCurrent(i)' /\ (Live(i)' => Live(i))
    <2>1. hand'[w][i] # "none" => hand[w][i] # "none"
      BY <1>1, <1>3
    <2>2. hand'[w][i] \in Working => hand[w][i] \in Working
      BY <1>1, <1>3 DEF Working
    <2>3. \A v \in Workers \ {w} : hand'[v][i] = hand[v][i]
      BY <1>3
    <2>4. CopiesCurrent(i)'
      BY <1>1, <1>4, <2>1, <2>3 DEF CopiesCurrent
    <2>5. Live(i)' => Live(i)
      BY <1>1, <2>2, <2>3 DEF Live
    <2> QED BY <2>4, <2>5
  <1>6. \A k \in Occurrences : \/ fires'[i][k] = fires[i][k]
                               \/ Live(i) /\ k = run_count[i]
    BY <1>t, <1>1, <1>4, FirePoint DEF CopiesCurrent, Live, Working
  <1> QED BY <1>t, <1>1, <1>4, <1>5, <1>6, CountsStay

\* Initially nothing has run.
LEMMA CountInit == Init => CountInv
  <1> SUFFICES ASSUME Init, NEW j \in Jobs PROVE CountKept(j)
    BY DEF CountInv
  <1>1. MaxRetries[j] \in Nat
    BY SchedulerAssumption DEF SchedulerAssumption
  <1>2. failures[j] = 0 /\ attempts[j] = 0 /\ run_count[j] = 0 /\ status[j] = "none"
        /\ \A k \in Occurrences : fires[j][k] = 0
    BY DEF Init
  <1>3. CopiesCurrent(j)
    BY DEF Init, CopiesCurrent
  <1>4. BudgetKept(j) /\ CapKept(j)
    BY <1>1, <1>2 DEF BudgetKept, CapKept, RetriesLeft, RunsLeft
  <1> QED BY <1>3, <1>4 DEF CountKept

\* Every step keeps the counts.
LEMMA CountStep == StateInv /\ CountInv /\ [Next]_vars => CountInv'
  <1> SUFFICES ASSUME StateInv, CountInv, [Next]_vars PROVE CountInv'
    OBVIOUS
  <1>t. TypeOK
    BY DEF StateInv
  <1>h. UNCHANGED workerVars => LettingGo
    BY DEF workerVars, LettingGo
  <1>d. ASSUME NEW w \in Workers, Drop(w) PROVE LettingGo /\ \A j \in Jobs : hand'[w][j] = "none"
    BY <1>t, <1>d, DropPoint DEF LettingGo
  <1>1. ASSUME NEW j \in Jobs,
               Create(j) \/ Cancel(j) \/ Elapse(j) \/ TimeoutAbandoned(j) \/ TimeoutHeld(j)
        PROVE  CountInv'
    <2>1. UNCHANGED workerVars /\ UNCHANGED <<fires, failures, resets, run_count, attempts>>
      BY <1>1 DEF Create, Cancel, Elapse, TimeoutAbandoned, TimeoutHeld, GoStale, histVars
    <2>2. \A i \in Jobs : \/ status'[i] = status[i] \/ status'[i] = "CANCELLED"
                          \/ status'[i] = "SCHEDULED" /\ status[i] = "none"
      BY <1>t, <1>1 DEF Create, Cancel, Elapse, TimeoutAbandoned, TimeoutHeld, GoStale, TypeOK
    <2> QED BY <1>t, <1>h, <2>1, <2>2, CountsQuiet
  <1>2. ASSUME NEW w \in Workers, ClaimError(w) PROVE CountInv'
    <2>1. LettingGo /\ UNCHANGED <<run_count, attempts, fires, failures, resets>>
      BY <1>2, <1>d DEF ClaimError, histVars
    <2>2. \A j \in Jobs : \/ status'[j] = status[j]
                          \/ status'[j] = "RUNNING" /\ status[j] = "SCHEDULED"
      BY <1>t, <1>2, ClaimRowsPoint DEF ClaimError, Selected, StateInv, SelectedRows
    <2> QED BY <1>t, <2>1, <2>2, CountsQuiet
  <1>3. ASSUME NEW w \in Workers, Stop(w) \/ Start(w) PROVE CountInv'
    BY <1>t, <1>h, <1>3, CountsQuiet DEF Stop, Start, rowVars, histVars
  <1>4. ASSUME NEW w \in Workers, CancelWorker(w) PROVE CountInv'
    <2>1. LettingGo /\ (\A j \in Jobs : hand'[w][j] = "none") /\ UNCHANGED resets
      BY <1>4, <1>d DEF CancelWorker
    <2>2. CASE UNCHANGED <<rowVars, fires, failures>>
      BY <1>t, <2>1, <2>2, CountsQuiet DEF rowVars
    <2>3. CASE ClaimRows(Selected(w)) /\ UNCHANGED <<run_count, attempts, due, fires, failures>>
      <3>1. \A j \in Jobs : \/ status'[j] = status[j]
                            \/ status'[j] = "RUNNING" /\ status[j] = "SCHEDULED"
        BY <1>t, <2>3, ClaimRowsPoint DEF Selected, StateInv, SelectedRows
      <3> QED BY <1>t, <2>1, <2>3, <3>1, CountsQuiet
    <2>4. ASSUME NEW j \in Jobs, Ready(w, j), Fire(w, j), UNCHANGED <<rowVars, failures>> PROVE CountInv'
      <3>1. \A i \in Jobs, k \in Occurrences :
               \/ fires'[i][k] = fires[i][k]
               \/ \E v \in Workers : hand[v][i] \in Working /\ k = runs[v][i]
        BY <1>t, <2>4, FirePoint DEF Ready, Working
      <3> QED BY <1>t, <2>1, <2>4, <3>1, CountsQuiet DEF rowVars
    <2>5. ASSUME NEW j \in Jobs, SetMarked(w, j), UNCHANGED fires PROVE CountInv'
      BY <2>1, <2>5, CountsMarked
    <2> QED BY <1>4, <2>2, <2>3, <2>4, <2>5 DEF CancelWorker
  <1>5. ASSUME NEW w \in Workers, ResetStale(w) PROVE CountInv'
    <2>1. UNCHANGED workerVars /\ UNCHANGED <<fires, failures, run_count, attempts>>
      BY <1>5 DEF ResetStale
    <2>2. \A j \in Jobs : resets'[j] = 0 => resets[j] = 0 /\ status'[j] = status[j]
      BY <1>t, <1>5 DEF ResetStale, TypeOK
    <2> QED BY <1>t, <1>h, <2>1, <2>2, CountsQuiet
  <1>6. ASSUME NEW w \in Workers, NEW j \in Jobs,
               MarkSucceeded(w, j) \/ MarkFailed(w, j) \/ MarkError(w, j)
        PROVE  CountInv'
    <2>1. LettingGo /\ hand'[w][j] = "none"
      BY <1>t, <1>6, ReleasePoint, DropPoint DEF MarkSucceeded, MarkFailed, MarkError, LettingGo
    <2>2. UNCHANGED <<fires, resets>>
      BY <1>6 DEF MarkSucceeded, MarkFailed, MarkError, histVars
    <2>3. SetMarked(w, j) \/ UNCHANGED <<rowVars, failures>>
      BY <1>6 DEF MarkSucceeded, MarkFailed, MarkError, SetMarked, histVars
    <2>4. CASE SetMarked(w, j)
      BY <2>1, <2>2, <2>4, CountsMarked
    <2>5. CASE UNCHANGED <<rowVars, failures>>
      BY <1>t, <2>1, <2>2, <2>5, CountsQuiet DEF rowVars
    <2> QED BY <2>3, <2>4, <2>5
  <1>7. CASE UNCHANGED vars
    BY <1>t, <1>h, <1>7, CountsQuiet DEF vars, rowVars, histVars
  <1> QED
    BY <1>1, <1>2, <1>3, <1>4, <1>5, <1>6, <1>7, CountsSelected, CountsClaimed, CountsDispatched DEF Next

----------------------------------------------------------------------------
(* The theorems *)

\* Every reachable state satisfies the invariant.
LEMMA StateInvAlways == Spec => []StateInv
  BY StateInvInit, StateInvStep, PTL DEF Spec

\* Every row, copy and counter keeps its type (ScheduledJobTable).
THEOREM SchedulerTypeCorrect == Spec => []TypeOK
  <1>1. StateInv => TypeOK
    BY DEF StateInv
  <1> QED BY <1>1, StateInvAlways, PTL

\* run_count never counts an occurrence that did not fire, for any number of
\* workers, crashes and stale copies (mark_succeeded).
THEOREM OccurrencesFire == Spec => []NoOccurrenceSkipped
  <1>1. StateInv => NoOccurrenceSkipped
    BY DEF StateInv
  <1> QED BY <1>1, StateInvAlways, PTL

\* Two workers share a job only after a reset of its claim (fetch_due_batch).
THEOREM ClaimsExclusive == Spec => []ExclusiveClaim
  <1>1. StateInv => ExclusiveClaim
    <2> SUFFICES ASSUME StateInv, NEW j \in Jobs, NEW v \in Workers, NEW w \in Workers,
                        hand[v][j] # "none", hand[w][j] # "none", v # w, ~(resets[j] > 0)
                 PROVE  FALSE
      BY DEF ExclusiveClaim
    <2>1. resets[j] = 0
      BY DEF StateInv, TypeOK
    <2>2. hand[v][j] \in Working \cup {"selected"} /\ hand[w][j] \in Working \cup {"selected"}
      BY DEF StateInv, TypeOK, Stages, Working
    <2> QED BY <2>1, <2>2 DEF StateInv, SelectedRows, HolderAlone
  <1> QED BY <1>1, StateInvAlways, PTL

\* An occurrence fires at most once more than failures were recorded and claims
\* reset, for any number of workers and faults (_fire, reset_stale_running).
THEOREM RefiresPaid == Spec => []RefiresArePaid
  <1>1. Init => StateInv /\ FiresPaid
    BY StateInvInit, PaidInit
  <1>2. StateInv /\ FiresPaid /\ [Next]_vars => (StateInv /\ FiresPaid)'
    BY StateInvStep, PaidStep
  <1>3. StateInv /\ FiresPaid => RefiresArePaid
    <2> SUFFICES ASSUME StateInv, FiresPaid, NEW j \in Jobs, NEW k \in Occurrences
                 PROVE  fires[j][k] <= 1 + failures[j] + resets[j]
      BY DEF RefiresArePaid
    <2>1. fires[j][k] \in Nat /\ failures[j] \in Nat /\ resets[j] \in Nat /\ RowOwes(j, k) \in {0, 1}
      BY DEF StateInv, TypeOK, RowOwes
    <2> QED BY <2>1, OwersFinite DEF FiresPaid, Paid
  <1> QED BY <1>1, <1>2, <1>3, PTL DEF Spec

\* The counts hold together with the state invariant.
LEMMA CountAlways == Spec => [](StateInv /\ CountInv)
  <1>1. Init => StateInv /\ CountInv
    BY StateInvInit, CountInit
  <1>2. StateInv /\ CountInv /\ [Next]_vars => (StateInv /\ CountInv)'
    BY StateInvStep, CountStep
  <1> QED BY <1>1, <1>2, PTL DEF Spec

\* A one-time job whose claim was never reset fails for good exactly when its
\* retry budget is used up (mark_failed).
THEOREM BudgetIsKept == Spec => []RetryBudget
  <1>1. CountInv => RetryBudget
    BY DEF CountInv, CountKept, BudgetKept, RetryBudget
  <1> QED BY <1>1, CountAlways, PTL

\* A recurring job fires no occurrence beyond max_runs unless a claim of it was
\* reset (mark_succeeded).
THEOREM CapIsKept == Spec => []CapHolds
  <1>1. StateInv /\ CountInv => CapHolds
    <2> SUFFICES ASSUME StateInv, CountInv, NEW j \in Recurring, NEW k \in Occurrences,
                        MaxRuns[j] # NoCap, k >= MaxRuns[j], k > 0, fires[j][k] > 0
                 PROVE  resets[j] > 0
      BY DEF CapHolds
    <2>1. j \in Jobs /\ resets[j] \in Nat
      BY SchedulerAssumption DEF SchedulerAssumption, StateInv, TypeOK
    <2>2. resets[j] # 0
      BY <2>1 DEF CountInv, CountKept, CapKept
    <2> QED BY <2>1, <2>2
  <1> QED BY <1>1, CountAlways, PTL

\* A finished job that no worker holds stays finished, and unclaimed.
THEOREM FinishedStaysFinished == Spec => TerminalAtRest
  <1> DEFINE Rest(j) == status[j] \in Terminal /\ ~Held(j) =>
                           status'[j] = status[j] /\ ~Held(j)'
  <1>1. ASSUME StateInv, Next, NEW j \in Jobs PROVE Rest(j)
    <2> SUFFICES ASSUME status[j] \in Terminal, ~Held(j)
                 PROVE  status'[j] = status[j] /\ ~Held(j)'
      OBVIOUS
    <2> USE DEF Terminal
    <2>t. TypeOK
      BY <1>1 DEF StateInv
    <2>n. \A v \in Workers : hand[v][j] = "none"
      BY <1>1 DEF StateInv, TypeOK, Stages, SelectedRows, Held
    <2>h. (\A v \in Workers : hand'[v][j] \in {"none", "selected"}) => ~Held(j)'
      BY DEF Held
    <2>s. HandsShrink => ~Held(j)'
      BY <2>n, <2>h DEF HandsShrink
    <2>1. ASSUME NEW i \in Jobs,
                 Create(i) \/ Cancel(i) \/ Elapse(i) \/ TimeoutAbandoned(i) \/ TimeoutHeld(i)
          PROVE  status'[j] = status[j] /\ ~Held(j)'
      <3>1. UNCHANGED hand
        BY <2>1 DEF Create, Cancel, Elapse, TimeoutAbandoned, TimeoutHeld, GoStale, workerVars
      <3>2. status'[j] = status[j]
        BY <2>t, <2>1 DEF Create, Cancel, Elapse, TimeoutAbandoned, TimeoutHeld, GoStale, TypeOK
      <3> QED BY <3>1, <3>2, <2>n, <2>h
    <2>2. ASSUME NEW w \in Workers, SelectDue(w) PROVE status'[j] = status[j] /\ ~Held(j)'
      <3>1. \A v \in Workers : hand'[v][j] \in {"none", "selected"}
        BY <2>t, <2>n, <2>2 DEF SelectDue, TypeOK
      <3> QED BY <3>1, <2>2, <2>h DEF SelectDue, rowVars
    <2>3. ASSUME NEW S \in SUBSET Jobs, ClaimRows(S), j \notin S PROVE status'[j] = status[j]
      BY <2>t, <2>3, ClaimRowsPoint
    <2>4. ASSUME NEW w \in Workers PROVE Selected(w) \in SUBSET Jobs /\ j \notin Selected(w)
      BY <2>n DEF Selected
    <2>5. ASSUME NEW w \in Workers, ClaimDue(w) PROVE status'[j] = status[j] /\ ~Held(j)'
      <3>1. \A v \in Workers : hand'[v][j] = "none"
        BY <2>t, <2>n, <2>5 DEF ClaimDue, TypeOK
      <3>2. status'[j] = status[j]
        BY <2>3, <2>4, <2>5 DEF ClaimDue
      <3> QED BY <3>1, <3>2, <2>h
    <2>6. ASSUME NEW w \in Workers, NEW i \in Jobs, SetMarked(w, i) PROVE status'[j] = status[j]
      <3>1. i # j
        BY <2>n, <2>6 DEF SetMarked
      <3> QED BY <2>t, <2>6, <3>1, SucceededPoint, FailedPoint DEF SetMarked
    <2>7. ASSUME NEW w \in Workers, ClaimError(w) \/ CancelWorker(w)
          PROVE  status'[j] = status[j] /\ ~Held(j)'
      <3>1. Drop(w)
        BY <2>7 DEF ClaimError, CancelWorker
      <3>2. HandsShrink
        BY <2>t, <3>1, DropPoint DEF HandsShrink
      <3>3. UNCHANGED status \/ ClaimRows(Selected(w)) \/ \E i \in Jobs : SetMarked(w, i)
        BY <2>7 DEF ClaimError, CancelWorker, rowVars
      <3>4. status'[j] = status[j]
        BY <3>3, <2>3, <2>4, <2>6
      <3> QED BY <3>2, <3>4, <2>s
    <2>8. ASSUME NEW w \in Workers, Stop(w) \/ Start(w) PROVE status'[j] = status[j] /\ ~Held(j)'
      BY <2>8, <2>n, <2>h DEF Stop, Start, rowVars, workerVars
    <2>9. ASSUME NEW w \in Workers, ResetStale(w) PROVE status'[j] = status[j] /\ ~Held(j)'
      BY <2>9, <2>n, <2>h DEF ResetStale, StaleJobs, workerVars
    <2>10. ASSUME NEW w \in Workers, NEW i \in Jobs, DispatchOk(w, i) \/ DispatchError(w, i)
           PROVE  status'[j] = status[j] /\ ~Held(j)'
      <3>1. i # j /\ UNCHANGED status
        BY <2>n, <2>10 DEF DispatchOk, DispatchError, Ready, rowVars
      <3>2. \A v \in Workers : hand'[v][j] = hand[v][j]
        <4>1. PICK s \in {"fired", "raised"} : hand' = [hand EXCEPT ![w][i] = s]
          BY <2>10 DEF DispatchOk, DispatchError
        <4> QED BY <2>t, <3>1, <4>1 DEF TypeOK
      <3> QED BY <3>1, <3>2, <2>n, <2>h
    <2>11. ASSUME NEW w \in Workers, NEW i \in Jobs,
                  MarkSucceeded(w, i) \/ MarkFailed(w, i) \/ MarkError(w, i)
           PROVE  status'[j] = status[j] /\ ~Held(j)'
      <3>1. Release(w, i) \/ Drop(w)
        BY <2>11 DEF MarkSucceeded, MarkFailed, MarkError
      <3>2. HandsShrink
        BY <2>t, <3>1, ReleasePoint, DropPoint DEF HandsShrink
      <3>3. SetMarked(w, i) \/ UNCHANGED status
        BY <2>11 DEF MarkSucceeded, MarkFailed, MarkError, SetMarked, histVars, rowVars
      <3> QED BY <3>2, <3>3, <2>6, <2>s
    <2> QED
      BY <1>1, <2>1, <2>2, <2>5, <2>7, <2>8, <2>9, <2>10, <2>11 DEF Next
  <1>2. StateInv /\ [Next]_vars => [\A j \in Jobs : Rest(j)]_vars
    BY <1>1
  <1> QED BY <1>2, StateInvAlways, PTL DEF Spec, TerminalAtRest
====
