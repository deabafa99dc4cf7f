---- MODULE OutboxRelayProofs ----
(***************************************************************************)
(* Proofs, for every number of events, processes and workers, every batch  *)
(* size and every fault budget, of the safety properties of OutboxRelay    *)
(* and of its refinement of OutboxContract.                                *)
(***************************************************************************)
EXTENDS OutboxRelay, FiniteSetTheorems, TLAPS

----------------------------------------------------------------------------
(* The inductive invariant *)

\* The rows a worker is about to claim are still PENDING: its locks keep
\* late mark_published calls and other claims away.
ClaimingPending ==
    \A w \in Workers :
        pc[w] = "claiming" => \A e \in todo[w] : status[e] = "PENDING"

\* Two open claims never share a row (SKIP LOCKED).
ClaimsDisjoint ==
    \A v, w \in Workers :
        v # w /\ pc[v] = "claiming" /\ pc[w] = "claiming" => todo[v] \cap todo[w] = {}

\* A batch holds only rows whose transaction has committed.
BatchCommitted ==
    \A w \in Workers : \A e \in todo[w] :
        status[e] \in {"PENDING", "PROCESSING", "PUBLISHED"}

\* An idle worker has nothing in hand.
IdleEmpty == \A w \in Workers : pc[w] = "idle" => todo[w] = {}

\* The event a worker is about to mark has reached the broker.
MarkingDelivered ==
    \A w \in Workers, e \in Events :
        pc[w] = "marking" /\ Current(w, e) => deliveries[e] > 0

\* The statuses in which a row still waits for its next claim.
Fresh == {"none", "flushed", "PENDING"}

\* The workers that have claimed the event and not yet sent it.
Owing(e) ==
    {w \in Workers :
        /\ e \in todo[w]
        /\ \/ pc[w] = "publishing"
           \/ pc[w] = "marking" /\ ~Current(w, e)}

\* Deliveries made, deliveries owed and the delivery a waiting row will yet
\* cause are covered by the first claim and the stale claims returned.
Paid(e) ==
    deliveries[e] + Cardinality(Owing(e)) + (IF status[e] \in Fresh THEN 1 ELSE 0)
        <= resets[e] + 1

DeliveriesPaid == \A e \in Events : Paid(e)

\* Until a claim of the event is returned, a waiting row has no claimant.
FreshUnclaimed ==
    \A e \in Events, w \in Workers :
        resets[e] = 0 /\ status[e] \in Fresh /\ e \in todo[w] => pc[w] = "claiming"

StateInv ==
    /\ TypeOK
    /\ ClaimingPending
    /\ ClaimsDisjoint
    /\ BatchCommitted
    /\ IdleEmpty
    /\ MarkingDelivered
    /\ FreshUnclaimed
    /\ ExclusiveClaim
    /\ PublishedWasDelivered

IInv == StateInv /\ DeliveriesPaid

----------------------------------------------------------------------------
(* Type correctness *)

USE DEF rowVars, workerVars, histVars

\* Every variable keeps its type under every action of the producers, the
\* pollers, the maintenance loop and the clock.
THEOREM TypeCorrect == Spec => []TypeOK
<1>1. Init => TypeOK
  BY DEF Init, TypeOK, RowStates, PcStates
<1>2. TypeOK /\ [Next]_vars => TypeOK'
  <2> SUFFICES ASSUME TypeOK, [Next]_vars
               PROVE  TypeOK'
    OBVIOUS
  <2> USE RelayAssumption DEF TypeOK, RowStates, OutboxStatus, PcStates
  <2>1. ASSUME NEW e \in Events, SaveEvent(e) \/ EndTransaction(e)
        PROVE  TypeOK'
    BY <2>1 DEF SaveEvent, EndTransaction
  <2>2. ASSUME NEW e \in Events, TimeoutAbandoned(e) \/ TimeoutHeld(e) \/ Expire(e)
        PROVE  TypeOK'
    BY <2>2 DEF TimeoutAbandoned, TimeoutHeld, GoStale, Fault, Expire
  <2>3. ASSUME NEW w \in Workers, SelectBatch(w)
        PROVE  TypeOK'
    BY <2>3 DEF SelectBatch
  <2>4. ASSUME NEW w \in Workers, ClaimBatch(w) \/ ClaimError(w)
        PROVE  TypeOK'
    BY <2>4 DEF ClaimBatch, ClaimError, ClaimRows, Drop, Fault
  <2>5. ASSUME NEW w \in Workers, CancelWorker(w)
        PROVE  TypeOK'
    BY <2>5 DEF CancelWorker, ClaimRows, Drop, Deliver, SetPublished
  <2>6. ASSUME NEW w \in Workers, NEW e \in Events, PublishOk(w, e) \/ PublishError(w, e)
        PROVE  TypeOK'
    BY <2>6 DEF PublishOk, PublishError, Deliver, Advance, Drop, Fault
  <2>7. ASSUME NEW w \in Workers, NEW e \in Events, MarkPublished(w, e)
        PROVE  TypeOK'
    BY <2>7 DEF MarkPublished, SetPublished, Advance, Drop
  <2>8. ASSUME NEW w \in Workers, NEW e \in Events, MarkError(w, e)
        PROVE  TypeOK'
    BY <2>8 DEF MarkError, SetPublished, Advance, Drop, Fault
  <2>9. ASSUME NEW p \in Procs, Stop(p) \/ Start(p)
        PROVE  TypeOK'
    BY <2>9 DEF Stop, Start, Fault
  <2>10. ASSUME NEW p \in Procs, ResetStale(p)
         PROVE  TypeOK'
    BY <2>10 DEF ResetStale
  <2>11. CASE UNCHANGED vars
    BY <2>11 DEF vars
  <2>12. QED
    BY <2>1, <2>2, <2>3, <2>4, <2>5, <2>6, <2>7, <2>8, <2>9, <2>10, <2>11 DEF Next
<1>3. QED
  BY <1>1, <1>2, PTL DEF Spec

----------------------------------------------------------------------------
(* The claims: who may hold which row, and what a marked row has seen *)

\* No row is claimed and nothing is in hand when the pollers start.
LEMMA StateInvInit == Init => StateInv
BY RelayAssumption
DEF Init, StateInv, TypeOK, RowStates, PcStates, ClaimingPending, ClaimsDisjoint,
    BatchCommitted, IdleEmpty, MarkingDelivered, FreshUnclaimed, ExclusiveClaim,
    PublishedWasDelivered, Current

\* A step in which worker w gives up rows of its batch and at most marks rows
\* that nobody has locked and that the broker has received.
LEMMA ReleaseKeepsClaims ==
    ASSUME StateInv, TypeOK', NEW w \in Workers,
           \A v \in Workers : v # w => pc'[v] = pc[v] /\ todo'[v] = todo[v],
           todo'[w] \subseteq todo[w],
           pc[w] # "claiming" \/ todo'[w] = {},
           pc'[w] # "claiming",
           pc'[w] = "idle" => todo'[w] = {},
           \A e \in Events : pc'[w] = "marking" /\ Current(w, e)' => deliveries'[e] > 0,
           \A e \in Events : deliveries'[e] >= deliveries[e],
           resets' = resets,
           \A e \in Events :
               \/ status'[e] = status[e]
               \/ status'[e] = "PUBLISHED" /\ e \notin Locked /\ deliveries'[e] > 0
    PROVE  StateInv'
<1> USE DEF StateInv, TypeOK, Locked
<1>1. ClaimingPending' /\ ClaimsDisjoint' /\ BatchCommitted' /\ IdleEmpty'
  BY DEF ClaimingPending, ClaimsDisjoint, BatchCommitted, IdleEmpty
<1>2. MarkingDelivered'
  <2> SUFFICES ASSUME NEW v \in Workers, NEW e \in Events, pc'[v] = "marking", Current(v, e)'
               PROVE  deliveries'[e] > 0
    BY DEF MarkingDelivered
  <2>1. CASE v = w
    BY <2>1
  <2>2. CASE v # w
    BY <2>2 DEF MarkingDelivered, Current
  <2>3. QED
    BY <2>1, <2>2
<1>3. FreshUnclaimed' /\ ExclusiveClaim'
  BY DEF FreshUnclaimed, Fresh, ExclusiveClaim
<1>4. PublishedWasDelivered'
  BY DEF PublishedWasDelivered
<1>5. QED
  BY <1>1, <1>2, <1>3, <1>4

\* Every action keeps the claims in order.
LEMMA StateInvStep == StateInv /\ TypeOK' /\ [Next]_vars => StateInv'
<1> SUFFICES ASSUME StateInv, TypeOK', [Next]_vars
             PROVE  StateInv'
  OBVIOUS
<1> USE RelayAssumption
    DEF StateInv, TypeOK, RowStates, OutboxStatus, PcStates, ClaimingPending,
        ClaimsDisjoint, BatchCommitted, IdleEmpty, MarkingDelivered, Fresh,
        FreshUnclaimed, ExclusiveClaim, PublishedWasDelivered, Current, Locked
<1>1. ASSUME NEW e \in Events, SaveEvent(e) \/ EndTransaction(e)
      PROVE  StateInv'
  BY <1>1 DEF SaveEvent, EndTransaction
<1>2. ASSUME NEW e \in Events, TimeoutAbandoned(e) \/ TimeoutHeld(e) \/ Expire(e)
      PROVE  StateInv'
  BY <1>2 DEF TimeoutAbandoned, TimeoutHeld, GoStale, Expire
<1>3. ASSUME NEW w \in Workers, SelectBatch(w)
      PROVE  StateInv'
  BY <1>3 DEF SelectBatch, Due
<1>4. ASSUME NEW w \in Workers, ClaimBatch(w)
      PROVE  StateInv'
  BY <1>4 DEF ClaimBatch, ClaimRows
<1>5. ASSUME NEW w \in Workers, ClaimError(w)
      PROVE  StateInv'
  BY <1>5 DEF ClaimError, ClaimRows, Drop
<1>6. ASSUME NEW w \in Workers, CancelWorker(w)
      PROVE  StateInv'
  <2>1. CASE pc[w] = "claiming" /\ ClaimRows(todo[w])
    BY <1>6, <2>1 DEF CancelWorker, ClaimRows, Drop
  <2>2. CASE ~(pc[w] = "claiming" /\ ClaimRows(todo[w]))
    <3>1. /\ \A v \in Workers : v # w => pc'[v] = pc[v] /\ todo'[v] = todo[v]
          /\ pc'[w] = "idle" /\ todo'[w] = {} /\ resets' = resets
      BY <1>6 DEF CancelWorker, Drop
    <3>2. /\ \A e \in Events : deliveries'[e] >= deliveries[e]
          /\ \A e \in Events :
               \/ status'[e] = status[e]
               \/ status'[e] = "PUBLISHED" /\ e \notin Locked /\ deliveries'[e] > 0
      BY <1>6, <2>2 DEF CancelWorker, Deliver, SetPublished
    <3>3. QED
      BY <3>1, <3>2, ReleaseKeepsClaims
  <2>3. QED
    BY <2>1, <2>2
<1>7. ASSUME NEW w \in Workers, NEW e \in Events, PublishOk(w, e)
      PROVE  StateInv'
  <2>1. /\ \A v \in Workers : v # w => pc'[v] = pc[v] /\ todo'[v] = todo[v]
        /\ pc'[w] = "marking" /\ todo' = todo /\ resets' = resets /\ status' = status
        /\ pc[w] = "publishing"
    BY <1>7 DEF PublishOk
  <2>2. /\ \A f \in Events : deliveries'[f] >= deliveries[f]
        /\ deliveries'[e] > 0
    BY <1>7 DEF PublishOk, Deliver
  <2>3. \A f \in Events : Current(w, f)' => f = e
    BY <1>7, <2>1 DEF PublishOk, Events
  <2>4. QED
    BY <2>1, <2>2, <2>3, ReleaseKeepsClaims
<1>8. ASSUME NEW w \in Workers, NEW e \in Events, PublishError(w, e)
      PROVE  StateInv'
  <2>1. /\ \A v \in Workers : v # w => pc'[v] = pc[v] /\ todo'[v] = todo[v]
        /\ pc[w] = "publishing" /\ resets' = resets /\ status' = status
        /\ todo'[w] \subseteq todo[w]
        /\ pc'[w] \in {"idle", "publishing"}
        /\ pc'[w] = "idle" => todo'[w] = {}
    BY <1>8 DEF PublishError, Advance, Drop
  <2>2. \A f \in Events : deliveries'[f] >= deliveries[f]
    BY <1>8 DEF PublishError, Deliver
  <2>3. \A f \in Events : pc'[w] = "marking" /\ Current(w, f)' => deliveries'[f] > 0
    BY <2>1
  <2>4. pc[w] # "claiming" /\ pc'[w] # "claiming"
    BY <2>1
  <2>5. QED
    BY <2>1, <2>2, <2>3, <2>4, ReleaseKeepsClaims
<1>9. ASSUME NEW w \in Workers, NEW e \in Events, MarkPublished(w, e) \/ MarkError(w, e)
      PROVE  StateInv'
  <2>1. /\ \A v \in Workers : v # w => pc'[v] = pc[v] /\ todo'[v] = todo[v]
        /\ pc[w] = "marking" /\ resets' = resets /\ deliveries' = deliveries
        /\ todo'[w] \subseteq todo[w]
        /\ pc'[w] \in {"idle", "publishing"}
        /\ pc'[w] = "idle" => todo'[w] = {}
    BY <1>9 DEF MarkPublished, MarkError, Advance, Drop
  <2>2. \A f \in Events :
           \/ status'[f] = status[f]
           \/ status'[f] = "PUBLISHED" /\ f \notin Locked /\ deliveries'[f] > 0
    <3>1. deliveries'[e] > 0
      BY <1>9, <2>1 DEF MarkPublished, MarkError
    <3>2. \/ status' = status
          \/ e \notin Locked /\ status' = [status EXCEPT ![e] = "PUBLISHED"]
      BY <1>9 DEF MarkPublished, MarkError, SetPublished
    <3>3. QED
      BY <3>1, <3>2
  <2>3. \A f \in Events : deliveries'[f] >= deliveries[f]
    BY <2>1
  <2>4. QED
    BY <2>1, <2>2, <2>3, ReleaseKeepsClaims
<1>11. ASSUME NEW p \in Procs, Stop(p) \/ Start(p)
       PROVE  StateInv'
  BY <1>11 DEF Stop, Start
<1>12. ASSUME NEW p \in Procs, ResetStale(p)
       PROVE  StateInv'
  BY <1>12 DEF ResetStale, StaleRows
<1>13. CASE UNCHANGED vars
  BY <1>13 DEF vars
<1>14. QED
  BY <1>1, <1>2, <1>3, <1>4, <1>5, <1>6, <1>7, <1>8, <1>9, <1>11, <1>12, <1>13
  DEF Next

----------------------------------------------------------------------------
(* Counting deliveries *)

\* The workers that owe a message are finitely many.
LEMMA OwingFinite ==
    \A e : IsFiniteSet(Owing(e)) /\ Cardinality(Owing(e)) \in Nat
BY RelayAssumption, FS_Subset, FS_CardinalityType DEF Owing

\* ... and so are those of the next state.
LEMMA OwingFiniteNext ==
    \A e : IsFiniteSet(Owing(e)') /\ Cardinality(Owing(e)') \in Nat
BY RelayAssumption, FS_Subset, FS_CardinalityType DEF Owing

\* Nothing is sent and nobody starts to owe: the account stays covered.
LEMMA PaidByRelease ==
    ASSUME TypeOK, TypeOK', NEW e \in Events, Paid(e),
           Owing(e)' \subseteq Owing(e),
           deliveries'[e] = deliveries[e],
           status'[e] \in Fresh => status[e] \in Fresh,
           resets'[e] = resets[e]
    PROVE  Paid(e)'
<1>1. Cardinality(Owing(e)') <= Cardinality(Owing(e))
  BY OwingFinite, FS_Subset
<1>2. QED
  BY <1>1, OwingFinite, OwingFiniteNext DEF Paid, TypeOK

\* A worker that owes the message stops owing it and sends it at most once.
LEMMA PaidBySending ==
    ASSUME TypeOK, TypeOK', NEW e \in Events, Paid(e),
           NEW w \in Owing(e),
           Owing(e)' \subseteq Owing(e) \ {w},
           deliveries'[e] <= deliveries[e] + 1,
           status'[e] = status[e],
           resets'[e] = resets[e]
    PROVE  Paid(e)'
<1>1. /\ IsFiniteSet(Owing(e) \ {w})
      /\ Cardinality(Owing(e) \ {w}) = Cardinality(Owing(e)) - 1
  BY OwingFinite, FS_RemoveElement
<1>2. Cardinality(Owing(e)') <= Cardinality(Owing(e) \ {w})
  BY <1>1, FS_Subset
<1>3. QED
  BY <1>1, <1>2, OwingFinite, OwingFiniteNext DEF Paid, TypeOK

\* Initially nothing is sent and every event is due one delivery.
LEMMA PaidInit == Init => DeliveriesPaid
<1> SUFFICES ASSUME Init, NEW e \in Events
             PROVE  Paid(e)
  BY DEF DeliveriesPaid
<1>1. Owing(e) = {}
  BY DEF Init, Owing
<1>2. Cardinality(Owing(e)) = 0
  BY <1>1, FS_EmptySet
<1>3. QED
  BY <1>2 DEF Init, Paid, Fresh

\* Every action keeps every event's account covered.
LEMMA PaidStep ==
    StateInv /\ DeliveriesPaid /\ TypeOK' /\ [Next]_vars => DeliveriesPaid'
<1> SUFFICES ASSUME StateInv, DeliveriesPaid, TypeOK', [Next]_vars, NEW f \in Events
             PROVE  Paid(f)'
  BY DEF DeliveriesPaid
<1>0. TypeOK /\ Paid(f)
  BY DEF StateInv, DeliveriesPaid
<1>1. ASSUME NEW e \in Events, SaveEvent(e) \/ EndTransaction(e)
      PROVE  Paid(f)'
  <2>1. Owing(f)' = Owing(f) /\ deliveries' = deliveries /\ resets' = resets
    BY <1>1 DEF SaveEvent, EndTransaction, Owing, Current
  <2>2. status'[f] \in Fresh => status[f] \in Fresh
    BY <1>0, <1>1 DEF SaveEvent, EndTransaction, Fresh, TypeOK
  <2>3. QED
    BY <1>0, <2>1, <2>2, PaidByRelease
<1>2. ASSUME NEW e \in Events, TimeoutAbandoned(e) \/ TimeoutHeld(e) \/ Expire(e)
      PROVE  Paid(f)'
  BY <1>0, <1>2 DEF TimeoutAbandoned, TimeoutHeld, GoStale, Expire, Paid, Owing, Current
<1>3. ASSUME NEW w \in Workers, SelectBatch(w)
      PROVE  Paid(f)'
  <2>1. deliveries' = deliveries /\ resets' = resets /\ status' = status
    BY <1>3 DEF SelectBatch
  <2>2. Owing(f)' \subseteq Owing(f)
    BY <1>0, <1>3 DEF SelectBatch, Owing, Current, TypeOK
  <2>3. QED
    BY <1>0, <2>1, <2>2, PaidByRelease
<1>4. ASSUME NEW w \in Workers, ClaimBatch(w)
      PROVE  Paid(f)'
  <2>1. deliveries' = deliveries /\ resets' = resets
    BY <1>4 DEF ClaimBatch
  <2>2. CASE f \in todo[w]
    <3>1. status[f] = "PENDING" /\ status'[f] = "PROCESSING"
      BY <1>0, <1>4, <2>2 DEF ClaimBatch, ClaimRows, StateInv, ClaimingPending
    <3>2. Owing(f)' = Owing(f) \cup {w} /\ w \notin Owing(f)
      BY <1>0, <1>4, <2>2 DEF ClaimBatch, Owing, Current, TypeOK
    <3>3. Cardinality(Owing(f)') = Cardinality(Owing(f)) + 1
      BY <3>2, OwingFinite, FS_AddElement
    <3>4. QED
      BY <1>0, <2>1, <3>1, <3>3, OwingFinite DEF Paid, Fresh, TypeOK
  <2>3. CASE f \notin todo[w]
    <3>1. Owing(f)' \subseteq Owing(f) /\ status'[f] = status[f]
      BY <1>0, <1>4, <2>3 DEF ClaimBatch, ClaimRows, Owing, Current, TypeOK
    <3>2. QED
      BY <1>0, <2>1, <3>1, PaidByRelease
  <2>4. QED
    BY <2>2, <2>3
<1>5. ASSUME NEW w \in Workers, ClaimError(w)
      PROVE  Paid(f)'
  <2>1. deliveries' = deliveries /\ resets' = resets /\ Owing(f)' \subseteq Owing(f)
    BY <1>0, <1>5 DEF ClaimError, Drop, Owing, Current, TypeOK
  <2>2. status'[f] \in Fresh => status[f] \in Fresh
    BY <1>0, <1>5 DEF ClaimError, ClaimRows, Fresh, TypeOK
  <2>3. QED
    BY <1>0, <2>1, <2>2, PaidByRelease
<1>6. ASSUME NEW w \in Workers, CancelWorker(w)
      PROVE  Paid(f)'
  <2>1. resets' = resets /\ Owing(f)' \subseteq Owing(f) \ {w}
    BY <1>0, <1>6 DEF CancelWorker, Drop, Owing, Current, TypeOK
  <2>2. CASE deliveries'[f] = deliveries[f]
    <3>1. status'[f] \in Fresh => status[f] \in Fresh
      BY <1>0, <1>6 DEF CancelWorker, ClaimRows, SetPublished, Fresh, TypeOK
    <3>2. QED
      BY <1>0, <2>1, <2>2, <3>1, PaidByRelease
  <2>3. CASE deliveries'[f] # deliveries[f]
    <3>1. /\ pc[w] = "publishing" /\ f \in todo[w] /\ status' = status
          /\ deliveries'[f] = deliveries[f] + 1
      BY <1>0, <1>6, <2>3 DEF CancelWorker, Deliver, Current, TypeOK
    <3>2. w \in Owing(f)
      BY <3>1 DEF Owing
    <3>3. QED
      BY <1>0, <2>1, <3>1, <3>2, PaidBySending DEF TypeOK
  <2>4. QED
    BY <2>2, <2>3
<1>7. ASSUME NEW w \in Workers, NEW e \in Events, PublishOk(w, e) \/ PublishError(w, e)
      PROVE  Paid(f)'
  <2>1. resets' = resets /\ status' = status
    BY <1>7 DEF PublishOk, PublishError
  <2>2. CASE f = e
    <3>1. w \in Owing(f) /\ deliveries'[f] <= deliveries[f] + 1
      BY <1>0, <1>7, <2>2 DEF PublishOk, PublishError, Owing, Current, Deliver, TypeOK
    <3>2. Owing(f)' \subseteq Owing(f) \ {w}
      BY <1>0, <1>7, <2>2 DEF PublishOk, PublishError, Advance, Drop, Owing, Current, TypeOK
    <3>3. QED
      BY <1>0, <2>1, <3>1, <3>2, PaidBySending
  <2>3. CASE f # e
    <3>1. deliveries'[f] = deliveries[f]
      BY <1>0, <1>7, <2>3 DEF PublishOk, PublishError, Deliver, TypeOK
    <3>2. Owing(f)' \subseteq Owing(f)
      BY <1>0, <1>7 DEF PublishOk, PublishError, Advance, Drop, Owing, Current, TypeOK
    <3>3. QED
      BY <1>0, <2>1, <3>1, <3>2, PaidByRelease
  <2>4. QED
    BY <2>2, <2>3
<1>8. ASSUME NEW w \in Workers, NEW e \in Events, MarkPublished(w, e) \/ MarkError(w, e)
      PROVE  Paid(f)'
  <2>1. resets' = resets /\ deliveries' = deliveries
    BY <1>8 DEF MarkPublished, MarkError
  <2>2. status'[f] \in Fresh => status[f] \in Fresh
    BY <1>0, <1>8 DEF MarkPublished, MarkError, SetPublished, Fresh, TypeOK
  <2>3. /\ pc[w] = "marking" /\ Current(w, e)
        /\ todo'[w] \subseteq todo[w] \ {e}
        /\ \A v \in Workers : v # w => pc'[v] = pc[v] /\ todo'[v] = todo[v]
    BY <1>0, <1>8 DEF MarkPublished, MarkError, Advance, Drop, TypeOK
  <2>4. Owing(f)' \subseteq Owing(f)
    <3>1. ASSUME NEW v \in Workers, v \in Owing(f)', v # w PROVE v \in Owing(f)
      BY <2>3, <3>1 DEF Owing, Current
    <3>2. ASSUME w \in Owing(f)' PROVE w \in Owing(f)
      <4>1. f \in todo[w] /\ f # e
        BY <2>3, <3>2 DEF Owing
      <4>2. e \in Int /\ f \in Int
        BY DEF Events
      <4>3. ~Current(w, f)
        BY <2>3, <4>1, <4>2 DEF Current
      <4>4. QED
        BY <2>3, <4>1, <4>3 DEF Owing
    <3>3. Owing(f)' \subseteq Workers
      BY DEF Owing
    <3>4. QED
      BY <3>1, <3>2, <3>3
  <2>5. QED
    BY <1>0, <2>1, <2>2, <2>4, PaidByRelease
<1>9. ASSUME NEW p \in Procs, Stop(p) \/ Start(p)
      PROVE  Paid(f)'
  BY <1>0, <1>9 DEF Stop, Start, Paid, Owing, Current
<1>10. ASSUME NEW p \in Procs, ResetStale(p)
       PROVE  Paid(f)'
  <2>1. Owing(f)' = Owing(f) /\ deliveries' = deliveries
    BY <1>10 DEF ResetStale, Owing, Current
  <2>2. CASE f \in StaleRows
    <3>1. status[f] = "PROCESSING" /\ resets'[f] = resets[f] + 1
      BY <1>10, <2>2 DEF ResetStale, StaleRows
    <3>2. QED
      BY <1>0, <2>1, <3>1, OwingFinite DEF Paid, Fresh, TypeOK
  <2>3. CASE f \notin StaleRows
    BY <1>0, <1>10, <2>1, <2>3 DEF ResetStale, Paid
  <2>4. QED
    BY <2>2, <2>3
<1>11. CASE UNCHANGED vars
  BY <1>0, <1>11 DEF vars, Paid, Owing, Current
<1>12. QED
  BY <1>1, <1>2, <1>3, <1>4, <1>5, <1>6, <1>7, <1>8, <1>9, <1>10, <1>11 DEF Next

----------------------------------------------------------------------------
(* The safety theorems *)

\* The claims are always in order.
THEOREM ClaimsInOrder == Spec => []StateInv
<1>1. StateInv /\ TypeOK' /\ [Next]_vars => StateInv'
  BY StateInvStep
<1>2. QED
  BY <1>1, StateInvInit, TypeCorrect, PTL DEF Spec

\* A row marked PUBLISHED has reached the broker, whatever failed in between:
\* publish, mark_published, the process, or the claim's timeout.
THEOREM PublishedDelivered == Spec => []PublishedWasDelivered
<1>1. StateInv => PublishedWasDelivered
  BY DEF StateInv
<1>2. QED
  BY <1>1, ClaimsInOrder, PTL

\* Two workers hold the same event only after the maintenance loop took the
\* first one's claim back.
THEOREM ClaimsExclusive == Spec => []ExclusiveClaim
<1>1. StateInv => ExclusiveClaim
  BY DEF StateInv
<1>2. QED
  BY <1>1, ClaimsInOrder, PTL

\* The broker receives an event at most once more than the number of times
\* reset_stale_processing returned it.
THEOREM DuplicatesPaid == Spec => []DuplicatesNeedReset
<1>1. StateInv /\ DeliveriesPaid => DuplicatesNeedReset
  BY OwingFinite DEF StateInv, TypeOK, DeliveriesPaid, Paid, DuplicatesNeedReset
<1>2. DeliveriesPaid /\ StateInv /\ TypeOK' /\ [Next]_vars => DeliveriesPaid'
  BY PaidStep
<1>3. QED
  BY <1>1, <1>2, PaidInit, ClaimsInOrder, TypeCorrect, PTL DEF Spec

\* No step takes a row out of PUBLISHED, though claims, marks and resets never
\* test for it in their UPDATE by id.
THEOREM PublishedFinal == Spec => PublishedIsFinal
<1>1. StateInv /\ [Next]_vars =>
        [\A e \in Events : status[e] = "PUBLISHED" => status'[e] = "PUBLISHED"]_vars
  <2> SUFFICES ASSUME StateInv, Next, NEW e \in Events, status[e] = "PUBLISHED"
               PROVE  status'[e] = "PUBLISHED"
    OBVIOUS
  <2> USE DEF StateInv, TypeOK, ClaimingPending
  <2>1. ASSUME NEW f \in Events, SaveEvent(f) \/ EndTransaction(f)
        PROVE  status'[e] = "PUBLISHED"
    BY <2>1 DEF SaveEvent, EndTransaction
  <2>2. ASSUME NEW f \in Events, TimeoutAbandoned(f) \/ TimeoutHeld(f) \/ Expire(f)
        PROVE  status'[e] = "PUBLISHED"
    BY <2>2 DEF TimeoutAbandoned, TimeoutHeld, GoStale, Expire
  <2>3. ASSUME NEW w \in Workers, SelectBatch(w) \/ ClaimBatch(w) \/ ClaimError(w)
        PROVE  status'[e] = "PUBLISHED"
    BY <2>3 DEF SelectBatch, ClaimBatch, ClaimError, ClaimRows
  <2>4. ASSUME NEW w \in Workers, CancelWorker(w)
        PROVE  status'[e] = "PUBLISHED"
    BY <2>4 DEF CancelWorker, ClaimRows, SetPublished
  <2>5. ASSUME NEW w \in Workers, NEW f \in Events,
               \/ PublishOk(w, f) \/ PublishError(w, f)
               \/ MarkPublished(w, f) \/ MarkError(w, f)
        PROVE  status'[e] = "PUBLISHED"
    BY <2>5 DEF PublishOk, PublishError, MarkPublished, MarkError, SetPublished
  <2>6. ASSUME NEW p \in Procs, Stop(p) \/ Start(p) \/ ResetStale(p)
        PROVE  status'[e] = "PUBLISHED"
    BY <2>6 DEF Stop, Start, ResetStale, StaleRows
  <2>7. QED
    BY <2>1, <2>2, <2>3, <2>4, <2>5, <2>6 DEF Next
<1>2. QED
  BY <1>1, ClaimsInOrder, PTL DEF Spec, PublishedIsFinal

----------------------------------------------------------------------------
(* Refinement of the contract *)

\* A step that changes no phase and sends nothing is a stutter of the contract.
LEMMA StutterStep ==
    ASSUME TypeOK, deliveries' = deliveries,
           \A e \in Events : Phase(status'[e]) = Phase(status[e])
    PROVE  UNCHANGED Contract!vars
BY DEF Contract!vars

\* Writing one row's status moves that event's phase alone.
LEMMA BecomeStep ==
    ASSUME TypeOK, NEW e \in Events, NEW s, deliveries' = deliveries,
           status' = [status EXCEPT ![e] = s]
    PROVE  Contract!Become(e, Phase(status[e]), Phase(s))
<1>1. \A f \in Events : Phase(status'[f]) = IF f = e THEN Phase(s) ELSE Phase(status[f])
  BY DEF TypeOK
<1>2. [f \in Events |-> Phase(status'[f])]
        = [[f \in Events |-> Phase(status[f])] EXCEPT ![e] = Phase(s)]
  BY <1>1
<1>3. QED
  BY <1>2 DEF Contract!Become

\* The table, the pollers and the maintenance loop implement OutboxContract:
\* nothing is sent before its transaction commits, nothing settles unsent.
THEOREM RelayKeepsContract == Spec => ContractSpec
<1>1. Init => Contract!Init
  BY DEF Init, Contract!Init, Phase
<1>2. StateInv /\ TypeOK' /\ [Next]_vars => [Contract!Next]_(Contract!vars)
  <2> SUFFICES ASSUME StateInv, TypeOK', [Next]_vars
               PROVE  Contract!Next \/ UNCHANGED Contract!vars
    OBVIOUS
  <2>0. TypeOK
    BY DEF StateInv
  <2>1. ASSUME NEW e \in Events, SaveEvent(e)
        PROVE  Contract!Emit(e)
    <3>1. Contract!Become(e, Phase("none"), Phase("flushed"))
      BY <2>0, <2>1, BecomeStep DEF SaveEvent
    <3>2. QED
      BY <3>1 DEF Contract!Emit, Phase
  <2>2. ASSUME NEW e \in Events, EndTransaction(e)
        PROVE  Contract!Commit(e) \/ Contract!Rollback(e)
    <3>1. \/ Contract!Become(e, Phase("flushed"), Phase("PENDING"))
          \/ Contract!Become(e, Phase("flushed"), Phase("rolled_back"))
      BY <2>0, <2>2, BecomeStep DEF EndTransaction
    <3>2. QED
      BY <3>1 DEF Contract!Commit, Contract!Rollback, Phase
  <2>3. ASSUME NEW e \in Events, NEW w \in Workers, Current(w, e), Deliver(e), status' = status
        PROVE  Contract!Send(e)
    BY <2>0, <2>3
    DEF StateInv, BatchCommitted, Current, Deliver, Contract!Send, Phase, TypeOK
  <2>4. ASSUME NEW e \in Events, NEW w \in Workers, Current(w, e), pc[w] = "marking",
               SetPublished(e), deliveries' = deliveries
        PROVE  Contract!Settle(e) \/ UNCHANGED Contract!vars
    <3>1. status[e] \in {"PENDING", "PROCESSING", "PUBLISHED"} /\ deliveries[e] > 0
      BY <2>0, <2>4 DEF StateInv, BatchCommitted, MarkingDelivered, Current, TypeOK
    <3>2. CASE status[e] = "PUBLISHED"
      BY <2>0, <2>4, <3>2, StutterStep DEF SetPublished, TypeOK
    <3>3. CASE status[e] # "PUBLISHED"
      <4>1. Contract!Become(e, Phase(status[e]), Phase("PUBLISHED"))
        BY <2>0, <2>4, BecomeStep DEF SetPublished
      <4>2. Phase(status[e]) = "committed" /\ Phase("PUBLISHED") = "settled"
        BY <3>1, <3>3 DEF Phase
      <4>3. QED
        BY <3>1, <4>1, <4>2 DEF Contract!Settle
    <3>4. QED
      BY <3>2, <3>3
  <2>5. ASSUME NEW w \in Workers, pc[w] = "claiming", ClaimRows(todo[w]),
               deliveries' = deliveries
        PROVE  UNCHANGED Contract!vars
    BY <2>0, <2>5, StutterStep DEF StateInv, ClaimingPending, ClaimRows, Phase, TypeOK
  <2>6. CASE status' = status /\ deliveries' = deliveries
    BY <2>0, <2>6, StutterStep
  <2>7. ASSUME NEW w \in Workers, ClaimBatch(w) \/ ClaimError(w) \/ CancelWorker(w)
        PROVE  Contract!Next \/ UNCHANGED Contract!vars
    BY <2>3, <2>4, <2>5, <2>6, <2>7 DEF ClaimBatch, ClaimError, CancelWorker, Contract!Next
  <2>8. ASSUME NEW w \in Workers, NEW e \in Events, PublishOk(w, e) \/ PublishError(w, e)
        PROVE  Contract!Next \/ UNCHANGED Contract!vars
    BY <2>3, <2>6, <2>8 DEF PublishOk, PublishError, Contract!Next
  <2>9. ASSUME NEW w \in Workers, NEW e \in Events, MarkPublished(w, e) \/ MarkError(w, e)
        PROVE  Contract!Next \/ UNCHANGED Contract!vars
    BY <2>4, <2>6, <2>9 DEF MarkPublished, MarkError, Contract!Next
  <2>10. ASSUME NEW p \in Procs, ResetStale(p)
         PROVE  UNCHANGED Contract!vars
    BY <2>0, <2>10, StutterStep DEF ResetStale, StaleRows, Phase, TypeOK
  <2>11. CASE \/ \E e \in Events : TimeoutAbandoned(e) \/ TimeoutHeld(e) \/ Expire(e)
              \/ \E w \in Workers : SelectBatch(w)
              \/ \E p \in Procs : Stop(p) \/ Start(p)
              \/ UNCHANGED vars
    BY <2>6, <2>11
    DEF TimeoutAbandoned, TimeoutHeld, GoStale, Expire, SelectBatch, Stop, Start, vars
  <2>12. QED
    BY <2>1, <2>2, <2>7, <2>8, <2>9, <2>10, <2>11 DEF Next, Contract!Next
<1>3. QED
  BY <1>1, <1>2, ClaimsInOrder, TypeCorrect, PTL DEF Spec, ContractSpec, Contract!Spec
====
