---- MODULE ResilientCallProofs ----
(***************************************************************************)
(* What the resilient call guarantees for any number of processes and      *)
(* calls and any thresholds, limits and recovery time.                     *)
(*                                                                         *)
(* Bulkhead: the semaphore's queue has distinct waiting calls, so each     *)
(* slot that is granted goes to a call that waits (BulkInv).               *)
(* Breaker: the places taken in a HALF_OPEN period bound the probes from   *)
(* above, up to the foreign results counted in it, and the calls under way *)
(* from below (ProbeInv).  Opening: what a call has read still tells of    *)
(* the opening in force then, or the recovery time is over (TripInv).      *)
(***************************************************************************)
EXTENDS ResilientCall, FiniteSetTheorems, SequenceTheorems, TLAPS

Times == {None} \cup 0..MaxTime

Snapshots == [state: CircuitState, failure_count: 0..(FailureThreshold - 1),
              success_count: 0..(SuccessThreshold - 1), opened_at: Times]

TypeInv ==
    /\ TypeOK
    /\ snapshot \in [Procs -> Snapshots] /\ store \in Snapshots
    /\ read \in [Calls -> Snapshots] /\ known \in [Calls -> Times]
    /\ period \in [Procs -> Nat] /\ late \in [Procs -> Nat] /\ admitted \in [Calls -> Nat]

\* The queue of the semaphore has the calls that wait, each once.
QueueInv ==
    \A p \in Procs :
        /\ \A i \in 1..Len(waiters[p]) :
              pc[waiters[p][i]] = "queued" /\ Home[waiters[p][i]] = p
        /\ \A i, j \in 1..Len(waiters[p]) : waiters[p][i] = waiters[p][j] => i = j

BulkInv == QueueInv /\ SlotsAreUsed

\* Without a repository nothing is awaited under the lock.
LocalInv ==
    ~shared => lock = {} /\ \A c \in Calls : pc[c] \notin {"refreshing", "half_opening", "saving"}

Probes(p) == {c \in InFlight(p) : admitted[c] = period[p]}

ProbeInv ==
    ~shared =>
        /\ \A c \in Calls : admitted[c] <= period[Home[c]]
        /\ \A p \in Procs : snapshot[p].state = "half_open" =>
              /\ Cardinality(Probes(p)) <= halfOpenInFlight[p] + late[p]
              /\ halfOpenInFlight[p] <= Cardinality(InFlight(p))

\* The recovery time of an opening is over.
Passed(t) == t # None => now - t >= Recovery

\* The repository tells of the last opening, unless it was overwritten.
StoreTells ==
    \/ overwritten \/ Passed(tripped)
    \/ stored /\ store.state = "open" /\ store.opened_at = tripped

\* So does what a call that has refreshed decides on.
ReadTells(c) ==
    /\ pc[c] = "refreshing" => \/ Passed(known[c])
                               \/ read[c].state = "open" /\ read[c].opened_at = known[c]
    /\ pc[c] = "half_opening" => Passed(known[c])

\* And the breaker itself, where there is no repository.
BreakerTells(c) ==
    IF snapshot[Home[c]].state = "open" THEN snapshot[Home[c]].opened_at = tripped
    ELSE Passed(tripped)

TripInv ==
    /\ shared => StoreTells /\ \A c \in Calls : ReadTells(c)
    /\ ~shared => tripped <= now /\ \A c \in Calls : BreakerTells(c)

----------------------------------------------------------------------------
(* Types.                                                                   *)

\* The parameters of the deployment.
LEMMA Parameters ==
  ASSUME deployment \in Deployments
  PROVE  /\ shared \in BOOLEAN /\ Home \in [Calls -> Procs] /\ FailureThreshold \in Nat \ {0}
         /\ SuccessThreshold \in Nat \ {0} /\ HalfOpenMaxCalls \in Nat \ {0}
         /\ MaxConcurrent \in Nat \ {0} /\ Recovery \in Nat /\ MaxWaiters \in Nat
         /\ MaxTime \in Nat /\ MaxFaults \in Nat /\ IsFiniteSet(Calls) /\ None \in Int
  BY ResilientAssumption DEF ResilientAssumption, shared, Home, FailureThreshold, MaxWaiters, None

\* A breaker that is closed, half open since an earlier opening, or opened.
LEMMA SnapshotForms ==
  ASSUME deployment \in Deployments
  PROVE  /\ Closed \in Snapshots /\ Closed.state = "closed"
         /\ \A st \in CircuitState, t \in Times :
               /\ [Closed EXCEPT !.state = st, !.opened_at = t] \in Snapshots
               /\ [Closed EXCEPT !.state = st, !.opened_at = t].state = st
               /\ [Closed EXCEPT !.state = st, !.opened_at = t].opened_at = t
<1>1. 0 \in 0..(FailureThreshold - 1) /\ 0 \in 0..(SuccessThreshold - 1) /\ None \in Times
  BY Parameters DEF Times
<1>2. Closed \in Snapshots /\ Closed.state = "closed"
  BY <1>1 DEF Closed, Snapshots, CircuitState
<1>3. ASSUME NEW x \in Snapshots, NEW st \in CircuitState, NEW t \in Times
      PROVE  /\ [x EXCEPT !.state = st, !.opened_at = t] \in Snapshots
             /\ [x EXCEPT !.state = st, !.opened_at = t].state = st
             /\ [x EXCEPT !.state = st, !.opened_at = t].opened_at = t
  BY DEF Snapshots
<1> QED BY <1>2, <1>3

\* Initially all breakers are closed and nothing is known.
LEMMA TypeInvInit == Init => TypeInv
<1> SUFFICES ASSUME Init PROVE TypeInv
  OBVIOUS
<1>1. /\ HalfOpenMaxCalls \in Nat \ {0} /\ MaxTime \in Nat /\ MaxFaults \in Nat
      /\ Closed \in Snapshots /\ deployment \in Deployments
  BY Parameters, SnapshotForms DEF Init
<1>2. /\ snapshot \in [Procs -> Snapshots] /\ store \in Snapshots
      /\ read \in [Calls -> Snapshots] /\ known \in [Calls -> Times]
      /\ period \in [Procs -> Nat] /\ late \in [Procs -> Nat] /\ admitted \in [Calls -> Nat]
  BY <1>1 DEF Init, Times
<1>3. /\ \A c \in Calls : read[c].state \in CircuitState
      /\ snapshot \in [Procs ->
             [state: CircuitState, failure_count: 0..(FailureThreshold - 1),
              success_count: 0..(SuccessThreshold - 1), opened_at: {None} \cup Nat]]
  <2>1. Snapshots \subseteq
           [state: CircuitState, failure_count: 0..(FailureThreshold - 1),
            success_count: 0..(SuccessThreshold - 1), opened_at: {None} \cup Nat]
    BY <1>1 DEF Snapshots, Times
  <2>2. \A x \in Snapshots : x.state \in CircuitState
    BY DEF Snapshots
  <2> QED BY <1>2, <2>1, <2>2
<1>4. waiters \in [Procs -> Seq(Calls)]
  BY DEF Init
<1>5. /\ halfOpenInFlight \in [Procs -> 0..HalfOpenMaxCalls] /\ pc \in [Calls -> Pcs]
      /\ failure \in [Calls -> BOOLEAN]
  BY <1>1 DEF Init, Pcs
<1>6. /\ now \in 0..MaxTime /\ faults \in 0..MaxFaults /\ lock \subseteq Calls
      /\ tripped \in {None} \cup 0..MaxTime /\ overwritten \in BOOLEAN /\ stored \in BOOLEAN
  <2>1. 0 \in 0..MaxTime /\ 0 \in 0..MaxFaults
    BY <1>1
  <2>2. lock = {} /\ overwritten = FALSE /\ stored = FALSE /\ now = 0 /\ faults = 0 /\ tripped = None
    BY DEF Init
  <2> QED BY <2>1, <2>2
<1>7. TypeOK
  BY <1>1, <1>3, <1>4, <1>5, <1>6 DEF TypeOK
<1> QED BY <1>2, <1>7 DEF TypeInv

\* The type invariant of the next state, variable by variable.
LEMMA TypeFrame ==
  ASSUME TypeInv, deployment' = deployment, stored' \in BOOLEAN,
         snapshot' \in [Procs -> Snapshots], store' \in Snapshots,
         halfOpenInFlight' \in [Procs -> 0..HalfOpenMaxCalls], lock' \subseteq Calls,
         read' \in [Calls -> Snapshots], known' \in [Calls -> Times],
         pc' \in [Calls -> Pcs], failure' \in [Calls -> BOOLEAN],
         waiters' \in [Procs -> Seq(Calls)], now' \in 0..MaxTime, faults' \in 0..MaxFaults,
         tripped' \in Times, overwritten' \in BOOLEAN,
         period' \in [Procs -> Nat], late' \in [Procs -> Nat], admitted' \in [Calls -> Nat]
  PROVE  TypeInv'
<1>1. MaxTime \in Nat
  BY Parameters DEF TypeInv, TypeOK
<1>2. Snapshots' = Snapshots /\ Times' = Times
  BY DEF Snapshots, FailureThreshold, Times
<1>3. \A x \in Snapshots :
         /\ x.state \in CircuitState
         /\ x \in [state: CircuitState, failure_count: 0..(FailureThreshold - 1),
                   success_count: 0..(SuccessThreshold - 1), opened_at: {None} \cup Nat]
  BY <1>1 DEF Snapshots, Times
<1>4. /\ \A c \in Calls : read'[c].state \in CircuitState
      /\ snapshot' \in [Procs ->
             [state: CircuitState, failure_count: 0..(FailureThreshold - 1),
              success_count: 0..(SuccessThreshold - 1), opened_at: {None} \cup Nat]]
  BY <1>3
<1>5. TypeOK'
  BY <1>4 DEF TypeInv, TypeOK, FailureThreshold, Times
<1> QED BY <1>2, <1>5 DEF TypeInv

\* The unprimed types in the form the proofs use.
LEMMA Types ==
  ASSUME TypeInv
  PROVE  /\ deployment \in Deployments /\ stored \in BOOLEAN
         /\ snapshot \in [Procs -> Snapshots] /\ store \in Snapshots
         /\ halfOpenInFlight \in [Procs -> 0..HalfOpenMaxCalls] /\ lock \subseteq Calls
         /\ read \in [Calls -> Snapshots] /\ known \in [Calls -> Times]
         /\ pc \in [Calls -> Pcs] /\ failure \in [Calls -> BOOLEAN]
         /\ waiters \in [Procs -> Seq(Calls)] /\ now \in 0..MaxTime /\ faults \in 0..MaxFaults
         /\ tripped \in Times /\ overwritten \in BOOLEAN
         /\ period \in [Procs -> Nat] /\ late \in [Procs -> Nat] /\ admitted \in [Calls -> Nat]
  BY DEF TypeInv, TypeOK, Times

\* Entering the bulkhead.
LEMMA EnterType ==
  ASSUME TypeInv, NEW c \in Calls, NEW p \in Procs, EnterBulkhead(c, p)
  PROVE  /\ pc' \in [Calls -> Pcs] /\ failure' \in [Calls -> BOOLEAN]
         /\ waiters' \in [Procs -> Seq(Calls)]
<1>1. {"reporting", "running", "queued"} \subseteq Pcs
  BY DEF Pcs
<1>2. Append(waiters[p], c) \in Seq(Calls)
  BY Types, AppendProperties
<1> QED BY <1>1, <1>2, Types DEF EnterBulkhead

\* What is left of a sequence when one element is taken out.
LEMMA RemoveAtProperties ==
  ASSUME NEW S, NEW s \in Seq(S), NEW i \in 1..Len(s)
  PROVE  /\ RemoveAt(s, i) \in Seq(S) /\ Len(RemoveAt(s, i)) = Len(s) - 1
         /\ \A k \in 1..(Len(s) - 1) : RemoveAt(s, i)[k] = IF k < i THEN s[k] ELSE s[k + 1]
<1> DEFINE a == SubSeq(s, 1, i - 1)
           b == SubSeq(s, i + 1, Len(s))
<1>0. Len(s) \in Nat /\ \A k \in 1..Len(s) : s[k] \in S
  OBVIOUS
<1>1. a \in Seq(S) /\ Len(a) = i - 1 /\ \A k \in 1..(i - 1) : a[k] = s[k]
  <2>1. \A k \in 1..(i - 1) : s[k] \in S
    BY <1>0
  <2> QED BY <1>0, <2>1, SubSeqProperties
<1>2. b \in Seq(S) /\ Len(b) = Len(s) - i /\ \A k \in 1..(Len(s) - i) : b[k] = s[i + k]
  <2>1. \A k \in (i + 1)..Len(s) : s[k] \in S
    BY <1>0
  <2> QED BY <1>0, <2>1, SubSeqProperties
<1> HIDE DEF a, b
<1>3. /\ a \o b \in Seq(S) /\ Len(a \o b) = Len(a) + Len(b)
      /\ \A k \in 1..Len(a) + Len(b) : (a \o b)[k] = IF k <= Len(a) THEN a[k] ELSE b[k - Len(a)]
  BY <1>1, <1>2, ConcatProperties
<1>4. RemoveAt(s, i) = a \o b
  BY DEF RemoveAt, a, b
<1>5. ASSUME NEW k \in 1..(Len(s) - 1) PROVE (a \o b)[k] = IF k < i THEN s[k] ELSE s[k + 1]
  <2>1. CASE k < i
    BY <1>0, <1>1, <1>2, <1>3, <2>1
  <2>2. CASE ~(k < i)
    <3>1. (a \o b)[k] = b[k - (i - 1)]
      BY <1>0, <1>1, <1>2, <1>3, <2>2
    <3>2. k - (i - 1) \in 1..(Len(s) - i) /\ i + (k - (i - 1)) = k + 1
      BY <1>0, <2>2
    <3>3. b[k - (i - 1)] = s[i + (k - (i - 1))]
      BY <1>2, <3>2
    <3> QED BY <2>2, <3>1, <3>2, <3>3
  <2> QED BY <2>1, <2>2
<1> QED BY <1>0, <1>1, <1>2, <1>3, <1>4, <1>5

\* Deciding on a probe.
LEMMA AdmitType ==
  ASSUME TypeInv, NEW c \in Calls, NEW p \in Procs, NEW n \in 0..HalfOpenMaxCalls, NEW k \in Nat,
         AdmitProbe(c, p, n, k) \/ RejectProbe(c, p, n)
  PROVE  /\ halfOpenInFlight' \in [Procs -> 0..HalfOpenMaxCalls] /\ admitted' \in [Calls -> Nat]
         /\ pc' \in [Calls -> Pcs] /\ failure' \in [Calls -> BOOLEAN]
         /\ waiters' \in [Procs -> Seq(Calls)]
<1>0. HalfOpenMaxCalls \in Nat \ {0} /\ "done" \in Pcs
  BY Parameters, Types DEF Pcs
<1>1. CASE AdmitProbe(c, p, n, k)
  <2>1. n + 1 \in 0..HalfOpenMaxCalls
    BY <1>0, <1>1 DEF AdmitProbe, NoProbeLeft
  <2> QED BY <1>1, <2>1, EnterType, Types DEF AdmitProbe
<1>2. CASE RejectProbe(c, p, n)
  BY <1>0, <1>2, Types DEF RejectProbe, Reject
<1> QED BY <1>1, <1>2

\* Saving a snapshot.
LEMMA PersistType ==
  ASSUME TypeInv, NEW p \in Procs, Persist(p)
  PROVE  /\ store' \in Snapshots /\ stored' \in BOOLEAN
         /\ tripped' \in Times /\ overwritten' \in BOOLEAN
<1>1. snapshot[p] \in Snapshots /\ snapshot[p].opened_at \in Times /\ tripped \in Times
  BY Types DEF Snapshots
<1>2. Tripped(snapshot[p]) \in Times
  BY <1>1 DEF Tripped
<1> QED BY <1>1, <1>2 DEF Persist

\* Counting a result.
LEMMA ResultType ==
  ASSUME TypeInv, NEW p \in Procs, OnFailure(p) \/ OnSuccess(p)
  PROVE  /\ snapshot' \in [Procs -> Snapshots]
         /\ halfOpenInFlight' \in [Procs -> 0..HalfOpenMaxCalls]
<1>0. /\ FailureThreshold \in Nat \ {0} /\ SuccessThreshold \in Nat \ {0} /\ HalfOpenMaxCalls \in Nat \ {0}
      /\ MaxTime \in Nat /\ deployment \in Deployments
  BY Parameters, Types
<1>t. /\ snapshot \in [Procs -> Snapshots] /\ snapshot[p] \in Snapshots
      /\ halfOpenInFlight \in [Procs -> 0..HalfOpenMaxCalls] /\ now \in Times
  BY Types DEF Times
<1>f. snapshot[p].failure_count \in Nat /\ snapshot[p].success_count \in Nat
  BY <1>0, <1>t DEF Snapshots
<1>1. ASSUME NEW x \in Snapshots, snapshot' = [snapshot EXCEPT ![p] = x]
      PROVE  snapshot' \in [Procs -> Snapshots]
  BY <1>1, <1>t
<1>2. CASE Open(p)
  <2>1. halfOpenInFlight' \in [Procs -> 0..HalfOpenMaxCalls]
    BY <1>0, <1>2, <1>t DEF Open
  <2> QED BY <1>0, <1>1, <1>2, <1>t, <2>1, SnapshotForms DEF Open, CircuitState
<1>3. CASE OnFailure(p)
  <2>1. CASE ~Open(p)
    <3> DEFINE x == [snapshot[p] EXCEPT !.failure_count = @ + 1]
    <3>1. /\ ~ReachesThreshold(snapshot[p].failure_count + 1)
          /\ snapshot' = [snapshot EXCEPT ![p] = x] /\ halfOpenInFlight' = halfOpenInFlight
      BY <1>3, <2>1 DEF OnFailure
    <3>2. snapshot[p].failure_count + 1 \in 0..(FailureThreshold - 1)
      BY <1>0, <1>f, <3>1 DEF ReachesThreshold
    <3>3. x \in Snapshots
      BY <1>t, <3>2 DEF Snapshots
    <3> HIDE DEF x
    <3> QED BY <1>1, <1>t, <3>1, <3>3
  <2> QED BY <1>2, <2>1
<1>4. CASE OnSuccess(p)
  <2>1. CASE snapshot[p].state = "half_open"
    <3> DEFINE x == IF snapshot[p].success_count + 1 >= SuccessThreshold THEN Closed
                    ELSE [snapshot[p] EXCEPT !.success_count = @ + 1]
    <3>1. /\ snapshot' = [snapshot EXCEPT ![p] = x]
          /\ halfOpenInFlight' = [halfOpenInFlight EXCEPT ![p] = ProbeReturns(p)]
      BY <1>4, <2>1 DEF OnSuccess
    <3>2. x \in Snapshots
      <4>1. CASE snapshot[p].success_count + 1 >= SuccessThreshold
        BY <1>0, <4>1, SnapshotForms
      <4>2. CASE ~(snapshot[p].success_count + 1 >= SuccessThreshold)
        <5>1. snapshot[p].success_count + 1 \in 0..(SuccessThreshold - 1)
          BY <1>0, <1>f, <4>2
        <5>2. [snapshot[p] EXCEPT !.success_count = @ + 1] \in Snapshots
          BY <1>t, <5>1 DEF Snapshots
        <5> QED BY <4>2, <5>2
      <4> QED BY <4>1, <4>2
    <3>3. ProbeReturns(p) \in 0..HalfOpenMaxCalls
      BY <1>0, <1>t DEF ProbeReturns
    <3> HIDE DEF x
    <3> QED BY <1>1, <1>t, <3>1, <3>2, <3>3
  <2>2. CASE snapshot[p].state = "closed"
    <3> DEFINE x == [snapshot[p] EXCEPT !.failure_count = 0]
    <3>1. snapshot' = [snapshot EXCEPT ![p] = x] /\ halfOpenInFlight' = halfOpenInFlight
      BY <1>4, <2>2 DEF OnSuccess
    <3>2. 0 \in 0..(FailureThreshold - 1)
      BY <1>0
    <3>3. x \in Snapshots
      BY <1>t, <3>2 DEF Snapshots
    <3> HIDE DEF x
    <3> QED BY <1>1, <1>t, <3>1, <3>3
  <2>3. CASE snapshot[p].state = "open"
    BY <1>4, <1>t, <2>3 DEF OnSuccess
  <2> QED BY <1>4, <2>1, <2>2, <2>3 DEF OnSuccess
<1> QED BY <1>3, <1>4

\* The snapshot a call decides on.
LEMMA SnapType ==
  ASSUME TypeInv, NEW c \in Calls
  PROVE  /\ Home[c] \in Procs /\ Snap(c) \in Snapshots /\ Snap(c).opened_at \in Times
         /\ Refreshed(Home[c]) \in Snapshots
<1>1. Home[c] \in Procs
  BY Parameters, Types
<1>2. Snap(c) \in Snapshots /\ Refreshed(Home[c]) \in Snapshots
  BY <1>1, Types DEF Snap, Refreshed
<1> QED BY <1>1, <1>2 DEF Snapshots

----------------------------------------------------------------------------
(* Granting slots.                                                          *)

\* Sets of calls are finite.
LEMMA CallsFinite ==
  ASSUME NEW S \in SUBSET Calls
  PROVE  IsFiniteSet(S) /\ Cardinality(S) \in Nat
  BY ResilientAssumption, FS_Subset, FS_CardinalityType DEF ResilientAssumption

\* Calls that wait at p, each once, and c is none of them.
QueueOf(queue, p, c) ==
    /\ queue \in Seq(Calls)
    /\ \A i \in 1..Len(queue) : pc[queue[i]] = "queued" /\ Home[queue[i]] = p /\ queue[i] # c
    /\ \A i, j \in 1..Len(queue) : queue[i] = queue[j] => i = j

\* Who holds a slot when c moves on, before others are woken.
Still(c, next) == (Holding(Home[c]) \ {c}) \cup (IF next = "running" THEN {c} ELSE {})

\* As many slots as are granted are free, and some are unless all are taken.
Fits(c, next, free) ==
    /\ Cardinality(Still(c, next)) + free <= MaxConcurrent
    /\ free >= 1 \/ Cardinality(Still(c, next)) = MaxConcurrent

\* The queue of the home of a call that does not wait.
LEMMA QueueOfHome ==
  ASSUME TypeInv, BulkInv, NEW c \in Calls, pc[c] # "queued"
  PROVE  QueueOf(waiters[Home[c]], Home[c], c)
<1>1. Home[c] \in Procs /\ waiters[Home[c]] \in Seq(Calls)
  BY SnapType, Types
<1> QED BY <1>1 DEF QueueOf, BulkInv, QueueInv

\* What is left of it when a waiter is taken out.
LEMMA QueueWithout ==
  ASSUME TypeInv, BulkInv, NEW c \in Calls, NEW k \in DOMAIN waiters[Home[c]],
         waiters[Home[c]][k] = c
  PROVE  QueueOf(RemoveAt(waiters[Home[c]], k), Home[c], c)
<1> DEFINE q == waiters[Home[c]]
           r == RemoveAt(q, k)
           old(i) == IF i < k THEN i ELSE i + 1
<1>0. Home[c] \in Procs /\ q \in Seq(Calls) /\ k \in 1..Len(q) /\ Len(q) \in Nat
  BY SnapType, Types, LenProperties
<1>1. /\ r \in Seq(Calls) /\ Len(r) = Len(q) - 1
      /\ \A j \in 1..(Len(q) - 1) : r[j] = IF j < k THEN q[j] ELSE q[j + 1]
  BY <1>0, RemoveAtProperties
<1>2. /\ \A i \in 1..Len(q) : pc[q[i]] = "queued" /\ Home[q[i]] = Home[c]
      /\ \A i, j \in 1..Len(q) : q[i] = q[j] => i = j
  BY <1>0 DEF BulkInv, QueueInv
<1>3. q[k] = c
  OBVIOUS
<1> HIDE DEF q, r
<1>4. ASSUME NEW i \in 1..Len(r)
      PROVE  old(i) \in 1..Len(q) /\ old(i) # k /\ r[i] = q[old(i)]
  BY <1>0, <1>1
<1>5. ASSUME NEW i \in 1..Len(r)
      PROVE  pc[r[i]] = "queued" /\ Home[r[i]] = Home[c] /\ r[i] # c
  <2>1. old(i) \in 1..Len(q) /\ old(i) # k /\ r[i] = q[old(i)]
    BY <1>4
  <2> HIDE DEF old
  <2> QED BY <1>0, <1>2, <1>3, <2>1
<1>6. ASSUME NEW i \in 1..Len(r), NEW j \in 1..Len(r), r[i] = r[j] PROVE i = j
  <2>1. old(i) = old(j)
    <3>1. old(i) \in 1..Len(q) /\ r[i] = q[old(i)] /\ old(j) \in 1..Len(q) /\ r[j] = q[old(j)]
      BY <1>4
    <3> HIDE DEF old
    <3> QED BY <1>2, <1>6, <3>1
  <2>2. i \in Int /\ j \in Int /\ k \in Int
    BY <1>0, <1>1
  <2> QED BY <2>1, <2>2
<1>7. QueueOf(r, Home[c], c)
  BY <1>1, <1>5, <1>6 DEF QueueOf
<1> QED BY <1>7 DEF q, r

\* The slots a call that gives up waiting, ends or resumes leaves to others.
LEMMA FreeSlots ==
  ASSUME TypeInv, BulkInv, NEW c \in Calls
  PROVE  /\ Value(c) \in Nat /\ Fits(c, "reporting", Value(c))
         /\ pc[c] \in {"granted", "running"} =>
               /\ Value(c) - 1 \in Nat /\ Fits(c, "running", Value(c) - 1)
               /\ Fits(c, "reporting", 1)
<1> DEFINE H == Holding(Home[c])
<1>0. MaxConcurrent \in Nat \ {0} /\ Home[c] \in Procs
  BY Parameters, Types, SnapType
<1>1. IsFiniteSet(H) /\ Cardinality(H) \in Nat /\ Cardinality(H) <= MaxConcurrent
  BY <1>0, CallsFinite DEF Holding, At, BulkInv, SlotsAreUsed
<1>2. IsFiniteSet(H \ {c}) /\ Cardinality(H \ {c}) \in Nat
      /\ Cardinality(H \ {c}) = IF c \in H THEN Cardinality(H) - 1 ELSE Cardinality(H)
  BY <1>1, FS_RemoveElement, FS_CardinalityType
<1>3. pc[c] \in {"granted", "running"} => c \in H
  BY DEF Holding, At
<1>4. Still(c, "reporting") = H \ {c} /\ Still(c, "running") = (H \ {c}) \cup {c}
  BY DEF Still
<1>5. Cardinality((H \ {c}) \cup {c}) = Cardinality(H \ {c}) + 1
  BY <1>2, FS_AddElement
<1> HIDE DEF H
<1>6. Value(c) = MaxConcurrent - Cardinality(H \ {c})
  BY DEF Value, H
<1>7. Cardinality(Still(c, "reporting")) = Cardinality(H \ {c})
      /\ Cardinality(Still(c, "running")) = Cardinality(H \ {c}) + 1
  BY <1>4, <1>5
<1> QED BY <1>0, <1>1, <1>2, <1>3, <1>6, <1>7 DEF Fits

\* Resuming, ending and giving up are alike: c moves on, and those who wait at
\* its home get the free slots.
LEMMA Wakes ==
  ASSUME TypeInv, BulkInv, NEW c \in Calls, Resume(c) \/ HandlerEnds(c) \/ GiveUpWaiting(c)
  PROVE  \E next \in {"running", "reporting"}, queue \in Seq(Calls), free \in Nat :
            WakeUp(c, next, queue, free) /\ QueueOf(queue, Home[c], c) /\ Fits(c, next, free)
<1>1. CASE Resume(c)
  BY <1>1, QueueOfHome, FreeSlots DEF Resume, QueueOf
<1>2. CASE HandlerEnds(c)
  <2>1. 1 \in Nat
    OBVIOUS
  <2> QED BY <1>2, <2>1, QueueOfHome, FreeSlots DEF HandlerEnds, QueueOf
<1>3. CASE GiveUpWaiting(c)
  <2>1. CASE pc[c] = "granted"
    BY <1>3, <2>1, QueueOfHome, FreeSlots DEF GiveUpWaiting, QueueOf
  <2>2. CASE pc[c] = "queued"
    <3>1. PICK i \in DOMAIN waiters[Home[c]] :
             /\ waiters[Home[c]][i] = c
             /\ WakeUp(c, "reporting", RemoveAt(waiters[Home[c]], i), Value(c))
      BY <1>3, <2>2 DEF GiveUpWaiting
    <3>2. QueueOf(RemoveAt(waiters[Home[c]], i), Home[c], c)
      BY <3>1, QueueWithout
    <3> QED BY <3>1, <3>2, FreeSlots DEF QueueOf
  <2> QED BY <1>3, <2>1, <2>2 DEF GiveUpWaiting
<1> QED BY <1>1, <1>2, <1>3

\* The first n of the queue are granted slots, and the rest is what is left.
GrantsTo(c, next, queue, free, n) ==
    /\ n <= free /\ (n = free \/ n = Len(queue))
    /\ pc'[c] = next /\ (next \in Pcs => pc' \in [Calls -> Pcs])
    /\ \A e \in Calls \ {c} :
          pc'[e] = IF \E i \in 1..n : queue[i] = e THEN "granted" ELSE pc[e]
    /\ waiters' \in [Procs -> Seq(Calls)]
    /\ \A q \in Procs \ {Home[c]} : waiters'[q] = waiters[q]
    /\ Len(waiters'[Home[c]]) = Len(queue) - n
    /\ \A i \in 1..(Len(queue) - n) : waiters'[Home[c]][i] = queue[n + i]

\* Waking grants the slots, all of them or to all that wait.
LEMMA Woken ==
  ASSUME TypeInv, NEW c \in Calls, NEW next, NEW queue \in Seq(Calls), NEW free \in Nat,
         WakeUp(c, next, queue, free)
  PROVE  \E n \in 0..Len(queue) : GrantsTo(c, next, queue, free, n)
<1> DEFINE n == IF free < Len(queue) THEN free ELSE Len(queue)
           rest == SubSeq(queue, n + 1, Len(queue))
<1>0. Len(queue) \in Nat /\ Home[c] \in Procs /\ waiters \in [Procs -> Seq(Calls)]
      /\ pc \in [Calls -> Pcs] /\ "granted" \in Pcs
  BY SnapType, Types, LenProperties DEF Pcs
<1>1. n \in 0..Len(queue) /\ n <= free /\ (n = free \/ n = Len(queue))
  BY <1>0
<1>2. /\ pc' = [d \in Calls |->
           IF d = c THEN next
           ELSE IF \E i \in 1..n : queue[i] = d THEN "granted" ELSE pc[d]]
      /\ waiters' = [waiters EXCEPT ![Home[c]] = rest]
  BY DEF WakeUp
<1> HIDE DEF n
<1>3. \A i \in (n + 1)..Len(queue) : queue[i] \in Calls
  BY <1>0, <1>1, ElementOfSeq
<1>4. /\ rest \in Seq(Calls) /\ Len(rest) = Len(queue) - n
      /\ \A i \in 1..(Len(queue) - n) : rest[i] = queue[n + i]
  <2>1. /\ rest \in Seq(Calls) /\ Len(rest) = IF n + 1 <= Len(queue) THEN Len(queue) - (n + 1) + 1 ELSE 0
        /\ \A i \in 1..(Len(queue) - (n + 1) + 1) : rest[i] = queue[(n + 1) + i - 1]
    BY <1>0, <1>1, <1>3, SubSeqProperties
  <2> HIDE DEF rest
  <2>2. Len(queue) - (n + 1) + 1 = Len(queue) - n /\ \A i \in Int : (n + 1) + i - 1 = n + i
    BY <1>0, <1>1
  <2>3. n \in Int /\ Len(queue) \in Int /\ n <= Len(queue)
    BY <1>0, <1>1
  <2>4. Len(rest) = Len(queue) - n
    BY <2>1, <2>3
  <2>5. ASSUME NEW i \in 1..(Len(queue) - n) PROVE rest[i] = queue[n + i]
    <3>1. i \in 1..(Len(queue) - (n + 1) + 1) /\ (n + 1) + i - 1 = n + i
      BY <2>2, <2>3
    <3> QED BY <2>1, <3>1
  <2> QED BY <2>1, <2>4, <2>5
<1> HIDE DEF rest
<1>5. waiters' \in [Procs -> Seq(Calls)] /\ waiters'[Home[c]] = rest
      /\ \A q \in Procs \ {Home[c]} : waiters'[q] = waiters[q]
  BY <1>0, <1>2, <1>4
<1>6. pc'[c] = next /\ (next \in Pcs => pc' \in [Calls -> Pcs])
      /\ \A e \in Calls \ {c} :
            pc'[e] = IF \E i \in 1..n : queue[i] = e THEN "granted" ELSE pc[e]
  BY <1>0, <1>2
<1>7. GrantsTo(c, next, queue, free, n)
  BY <1>1, <1>4, <1>5, <1>6 DEF GrantsTo
<1> QED BY <1>1, <1>7

----------------------------------------------------------------------------
(* Types, continued.                                                        *)

\* Every step keeps the types.
LEMMA TypeInvStep == TypeInv /\ BulkInv /\ [Next]_vars => TypeInv'
<1> SUFFICES ASSUME TypeInv, BulkInv, [Next]_vars PROVE TypeInv'
  OBVIOUS
<1> USE DEF breaker, repository, bounds, trip, seen
<1>0. /\ HalfOpenMaxCalls \in Nat \ {0} /\ MaxTime \in Nat /\ MaxFaults \in Nat
      /\ deployment \in Deployments
  BY Parameters, Types
<1>p. {"refreshing", "half_opening", "running", "reporting", "saving", "done"} \subseteq Pcs
  BY DEF Pcs
<1>f. faults < MaxFaults /\ faults' = faults + 1 => faults' \in 0..MaxFaults
  BY <1>0, Types
<1>m. ASSUME NEW c \in Calls, NEW l \in Pcs, pc' = [pc EXCEPT ![c] = l]
      PROVE  pc' \in [Calls -> Pcs]
  BY <1>m, Types
<1>r. ASSUME NEW c \in Calls, Forget(c)
      PROVE  read' \in [Calls -> Snapshots]
  BY <1>0, <1>r, Types, SnapshotForms DEF Forget
<1>1. ASSUME NEW c \in Calls, Refresh(c) PROVE TypeInv'
  <2>1. /\ read' \in [Calls -> Snapshots] /\ known' \in [Calls -> Times] /\ lock' \subseteq Calls
        /\ pc' \in [Calls -> Pcs]
    BY <1>1, <1>m, <1>p, SnapType, Types DEF Refresh, Times
  <2> QED BY <1>1, <2>1, Types, TypeFrame DEF Refresh
<1>2. ASSUME NEW c \in Calls, BeforeCallClosed(c) PROVE TypeInv'
  <2>1. /\ snapshot' \in [Procs -> Snapshots] /\ admitted' \in [Calls -> Nat] /\ lock' \subseteq Calls
        /\ read' \in [Calls -> Snapshots]
    BY <1>2, <1>r, SnapType, Types DEF BeforeCallClosed, Unlock
  <2> QED BY <1>2, <2>1, SnapType, EnterType, Types, TypeFrame DEF BeforeCallClosed
<1>3. ASSUME NEW c \in Calls, BeforeCallOpen(c) PROVE TypeInv'
  <2>1. /\ snapshot' \in [Procs -> Snapshots] /\ lock' \subseteq Calls
        /\ read' \in [Calls -> Snapshots] /\ pc' \in [Calls -> Pcs]
    BY <1>3, <1>m, <1>p, <1>r, SnapType, Types DEF BeforeCallOpen, Unlock, Reject
  <2> QED BY <1>3, <2>1, Types, TypeFrame DEF BeforeCallOpen, Reject
<1>4. ASSUME NEW c \in Calls, BeforeCallHalfOpen(c) PROVE TypeInv'
  <2>1. /\ snapshot' \in [Procs -> Snapshots] /\ lock' \subseteq Calls
        /\ read' \in [Calls -> Snapshots]
    BY <1>4, <1>r, SnapType, Types DEF BeforeCallHalfOpen, Unlock
  <2>2. /\ halfOpenInFlight' \in [Procs -> 0..HalfOpenMaxCalls] /\ admitted' \in [Calls -> Nat]
        /\ pc' \in [Calls -> Pcs] /\ failure' \in [Calls -> BOOLEAN]
        /\ waiters' \in [Procs -> Seq(Calls)]
    <3>1. halfOpenInFlight[Home[c]] \in 0..HalfOpenMaxCalls /\ period[Home[c]] \in Nat
      BY SnapType, Types
    <3> QED BY <1>4, <3>1, SnapType, AdmitType DEF BeforeCallHalfOpen
  <2> QED BY <1>4, <2>1, <2>2, Types, TypeFrame DEF BeforeCallHalfOpen
<1>5. ASSUME NEW c \in Calls, BeforeCallRecovers(c) PROVE TypeInv'
  <2>1. [Closed EXCEPT !.state = "half_open", !.opened_at = Snap(c).opened_at] \in Snapshots
    BY <1>0, SnapType, SnapshotForms DEF CircuitState
  <2>2. /\ snapshot' \in [Procs -> Snapshots] /\ read' \in [Calls -> Snapshots]
        /\ period' \in [Procs -> Nat] /\ late' \in [Procs -> Nat]
    BY <1>5, <1>r, <2>1, SnapType, Types DEF BeforeCallRecovers
  <2>3. /\ halfOpenInFlight' \in [Procs -> 0..HalfOpenMaxCalls] /\ admitted' \in [Calls -> Nat]
        /\ pc' \in [Calls -> Pcs] /\ failure' \in [Calls -> BOOLEAN]
        /\ waiters' \in [Procs -> Seq(Calls)]
    <3>0. 0 \in 0..HalfOpenMaxCalls /\ period[Home[c]] + 1 \in Nat
      BY <1>0, SnapType, Types
    <3>1. CASE shared
      <4>1. /\ pc' = [pc EXCEPT ![c] = "half_opening"]
            /\ halfOpenInFlight' = [halfOpenInFlight EXCEPT ![Home[c]] = 0]
            /\ UNCHANGED <<failure, waiters, admitted>>
        BY <1>5, <3>1 DEF BeforeCallRecovers
      <4>2. pc' \in [Calls -> Pcs] /\ halfOpenInFlight' \in [Procs -> 0..HalfOpenMaxCalls]
        BY <1>m, <1>p, <3>0, <4>1, Types
      <4> QED BY <4>1, <4>2, Types
    <3>2. CASE ~shared
      BY <1>5, <3>0, <3>2, SnapType, AdmitType DEF BeforeCallRecovers
    <3> QED BY <3>1, <3>2
  <2> QED BY <1>5, <2>2, <2>3, Types, TypeFrame DEF BeforeCallRecovers
<1>6. ASSUME NEW c \in Calls, HalfOpenSaved(c) PROVE TypeInv'
  <2>1. /\ store' \in Snapshots /\ stored' \in BOOLEAN /\ tripped' \in Times
        /\ overwritten' \in BOOLEAN /\ lock' \subseteq Calls
    BY <1>6, SnapType, PersistType, Types DEF HalfOpenSaved, Unlock
  <2>2. /\ halfOpenInFlight' \in [Procs -> 0..HalfOpenMaxCalls] /\ admitted' \in [Calls -> Nat]
        /\ pc' \in [Calls -> Pcs] /\ failure' \in [Calls -> BOOLEAN]
        /\ waiters' \in [Procs -> Seq(Calls)]
    <3>1. 0 \in 0..HalfOpenMaxCalls /\ period[Home[c]] \in Nat
      BY <1>0, SnapType, Types
    <3> QED BY <1>6, <3>1, SnapType, AdmitType DEF HalfOpenSaved
  <2> QED BY <1>6, <2>1, <2>2, Types, TypeFrame DEF HalfOpenSaved
<1>7. ASSUME NEW c \in Calls, Resume(c) \/ HandlerEnds(c) \/ GiveUpWaiting(c) PROVE TypeInv'
  <2>1. failure' \in [Calls -> BOOLEAN]
    BY <1>7, Types DEF Resume, HandlerEnds, GiveUpWaiting
  <2>2. PICK next \in {"running", "reporting"}, queue \in Seq(Calls), free \in Nat :
           WakeUp(c, next, queue, free)
    BY <1>7, Wakes
  <2>3. next \in Pcs
    BY DEF Pcs
  <2>4. pc' \in [Calls -> Pcs] /\ waiters' \in [Procs -> Seq(Calls)]
    BY <2>2, <2>3, Woken DEF GrantsTo
  <2> QED BY <1>7, <2>1, <2>4, Types, TypeFrame DEF Resume, HandlerEnds, GiveUpWaiting
<1>9. ASSUME NEW c \in Calls, Report(c) PROVE TypeInv'
  <2>1. snapshot' \in [Procs -> Snapshots] /\ halfOpenInFlight' \in [Procs -> 0..HalfOpenMaxCalls]
    BY <1>9, SnapType, ResultType DEF Report
  <2>2. late' \in [Procs -> Nat]
    BY <1>9, SnapType, Types DEF Report
  <2>3. lock' \subseteq Calls /\ pc' \in [Calls -> Pcs]
    BY <1>9, <1>m, <1>p, Types DEF Report
  <2>4. tripped' \in Times /\ overwritten' \in BOOLEAN
    <3>1. snapshot'[Home[c]].opened_at \in Times
      BY <2>1, SnapType DEF Snapshots
    <3> QED BY <1>9, <3>1, Types DEF Report, Tripped
  <2> QED BY <1>9, <2>1, <2>2, <2>3, <2>4, Types, TypeFrame DEF Report
<1>10. ASSUME NEW c \in Calls, ReportSaved(c) \/ SaveFails(c) PROVE TypeInv'
  <2>1. /\ store' \in Snapshots /\ stored' \in BOOLEAN /\ tripped' \in Times
        /\ overwritten' \in BOOLEAN /\ lock' \subseteq Calls
    BY <1>10, SnapType, PersistType, Types DEF ReportSaved, SaveFails, Unlock
  <2>2. pc' \in [Calls -> Pcs] /\ faults' \in 0..MaxFaults
    BY <1>10, <1>f, <1>m, <1>p, Types DEF ReportSaved, SaveFails
  <2> QED BY <1>10, <2>1, <2>2, Types, TypeFrame DEF ReportSaved, SaveFails
<1>12. ASSUME NEW c \in Calls, RefreshFails(c) \/ ReportCancelled(c) PROVE TypeInv'
  <2>1. /\ pc' \in [Calls -> Pcs] /\ faults' \in 0..MaxFaults /\ lock' \subseteq Calls
        /\ read' \in [Calls -> Snapshots]
    BY <1>12, <1>f, <1>m, <1>p, <1>r, Types DEF RefreshFails, ReportCancelled, Unlock
  <2> QED BY <1>12, <2>1, Types, TypeFrame DEF RefreshFails, ReportCancelled
<1>13. CASE Expire
  <2>1. faults' \in 0..MaxFaults /\ stored' \in BOOLEAN
    BY <1>13, <1>f DEF Expire
  <2> QED BY <1>13, <2>1, Types, TypeFrame DEF Expire
<1>14. CASE Tick
  <2>1. now' \in 0..MaxTime
    BY <1>0, <1>14, Types DEF Tick
  <2> QED BY <1>14, <2>1, Types, TypeFrame DEF Tick
<1>15. CASE UNCHANGED vars
  BY <1>15, Types, TypeFrame DEF vars
<1> QED
  BY <1>1, <1>2, <1>3, <1>4, <1>5, <1>6, <1>7, <1>9, <1>10, <1>12, <1>13, <1>14, <1>15
  DEF Next, Progress

----------------------------------------------------------------------------
(* The bulkhead.                                                            *)

\* A step that neither moves a waiter nor takes or frees a slot.
LEMMA BulkFrame ==
  ASSUME BulkInv, deployment' = deployment, waiters' = waiters,
         \A e \in Calls : pc[e] = "queued" => pc'[e] = "queued",
         \A e \in Calls : pc'[e] = "granted" <=> pc[e] = "granted",
         \A e \in Calls : pc'[e] = "running" <=> pc[e] = "running",
         TypeInv
  PROVE  BulkInv'
<1>1. \A p \in Procs : Holding(p)' = Holding(p) /\ At(p, {"granted"})' = At(p, {"granted"})
  BY DEF Holding, At, Home
<1>2. \A p \in Procs : \A i \in 1..Len(waiters[p]) : waiters[p][i] \in Calls
  BY Types, ElementOfSeq
<1> QED BY <1>1, <1>2 DEF BulkInv, QueueInv, SlotsAreUsed, Home

\* A call enters: refused, with a slot of its own, or at the end of the queue.
LEMMA BulkEnters ==
  ASSUME TypeInv, BulkInv, NEW c \in Calls, NEW p \in Procs, Home[c] = p,
         pc[c] \notin {"queued", "granted", "running"},
         EnterBulkhead(c, p), deployment' = deployment
  PROVE  BulkInv'
<1>0. MaxConcurrent \in Nat \ {0} /\ pc \in [Calls -> Pcs] /\ waiters \in [Procs -> Seq(Calls)]
      /\ Home' = Home
  BY Parameters, Types DEF Home
<1>1. CASE Full(p)
  <2>1. waiters' = waiters /\ pc' = [pc EXCEPT ![c] = "reporting"]
    BY <1>1 DEF EnterBulkhead
  <2> QED BY <1>0, <2>1, BulkFrame
<1>w. \A q \in Procs : \A i \in 1..Len(waiters[q]) : waiters[q][i] \in Calls /\ waiters[q][i] # c
  BY <1>0, ElementOfSeq DEF BulkInv, QueueInv
<1>2. CASE ~Full(p) /\ ~Locked(p)
  <2>1. waiters' = waiters /\ pc' = [pc EXCEPT ![c] = "running"] /\ waiters[p] = <<>>
        /\ ~(Cardinality(Holding(p)) >= MaxConcurrent)
    BY <1>2 DEF EnterBulkhead, Locked, Waiting
  <2>2. pc'[c] = "running" /\ \A e \in Calls \ {c} : pc'[e] = pc[e]
    BY <1>0, <2>1
  <2>3. QueueInv'
    BY <1>0, <1>w, <2>1, <2>2 DEF BulkInv, QueueInv
  <2>4. Holding(p)' = Holding(p) \union {c} /\ c \notin Holding(p)
    BY <1>0, <2>2 DEF Holding, At
  <2>5. IsFiniteSet(Holding(p)) /\ Cardinality(Holding(p)) \in Nat
    BY CallsFinite DEF Holding, At
  <2>6. Cardinality(Holding(p)') = Cardinality(Holding(p)) + 1
    BY <2>4, <2>5, FS_AddElement
  <2>7. \A q \in Procs \ {p} : Holding(q)' = Holding(q) /\ At(q, {"granted"})' = At(q, {"granted"})
    BY <1>0, <2>2 DEF Holding, At
  <2>8. Cardinality(Holding(p)') <= MaxConcurrent
    BY <1>0, <2>1, <2>5, <2>6
  <2>9. SlotsAreUsed'
    BY <2>1, <2>7, <2>8 DEF BulkInv, SlotsAreUsed
  <2> QED BY <2>3, <2>9 DEF BulkInv
<1>3. CASE ~Full(p) /\ Locked(p)
  <2>1. waiters' = [waiters EXCEPT ![p] = Append(waiters[p], c)] /\ pc' = [pc EXCEPT ![c] = "queued"]
    BY <1>3 DEF EnterBulkhead
  <2>2. pc'[c] = "queued" /\ \A e \in Calls \ {c} : pc'[e] = pc[e]
    BY <1>0, <2>1
  <2>3. \A q \in Procs : Holding(q)' = Holding(q) /\ At(q, {"granted"})' = At(q, {"granted"})
    BY <1>0, <2>2 DEF Holding, At
  <2>4. waiters'[p] = Append(waiters[p], c) /\ \A q \in Procs \ {p} : waiters'[q] = waiters[q]
    BY <1>0, <2>1
  <2>5. /\ Len(waiters'[p]) = Len(waiters[p]) + 1 /\ Len(waiters[p]) \in Nat
        /\ \A i \in 1..Len(waiters[p]) : waiters'[p][i] = waiters[p][i]
        /\ waiters'[p][Len(waiters[p]) + 1] = c
    BY <1>0, <2>4, AppendProperties, LenProperties
  <2>6. QueueInv'
    <3>1. ASSUME NEW i \in 1..Len(waiters'[p])
          PROVE  i \in 1..Len(waiters[p]) \/ i = Len(waiters[p]) + 1
      BY <2>5
    <3>2. ASSUME NEW i \in 1..Len(waiters'[p])
          PROVE  pc'[waiters'[p][i]] = "queued" /\ Home[waiters'[p][i]] = p
      BY <1>w, <2>2, <2>5, <3>1 DEF BulkInv, QueueInv
    <3>3. ASSUME NEW i \in 1..Len(waiters'[p]), NEW j \in 1..Len(waiters'[p]),
                 waiters'[p][i] = waiters'[p][j]
          PROVE  i = j
      <4>1. \A k, l \in 1..Len(waiters[p]) : waiters[p][k] = waiters[p][l] => k = l
        BY DEF BulkInv, QueueInv
      <4>2. \A k \in 1..Len(waiters[p]) : waiters'[p][k] # c
        BY <1>w, <2>5
      <4>3. CASE i \in 1..Len(waiters[p]) /\ j \in 1..Len(waiters[p])
        BY <2>5, <3>3, <4>1, <4>3
      <4>4. CASE i = Len(waiters[p]) + 1 /\ j = Len(waiters[p]) + 1
        BY <4>4
      <4>5. CASE i \in 1..Len(waiters[p]) /\ j = Len(waiters[p]) + 1
        BY <2>5, <3>3, <4>2, <4>5
      <4>6. CASE i = Len(waiters[p]) + 1 /\ j \in 1..Len(waiters[p])
        BY <2>5, <3>3, <4>2, <4>6
      <4> QED BY <3>1, <4>3, <4>4, <4>5, <4>6
    <3>4. ASSUME NEW q \in Procs \ {p}, NEW i \in 1..Len(waiters'[q])
          PROVE  pc'[waiters'[q][i]] = "queued" /\ Home[waiters'[q][i]] = q
      BY <1>w, <2>2, <2>4 DEF BulkInv, QueueInv
    <3>5. ASSUME NEW q \in Procs \ {p}, NEW i \in 1..Len(waiters'[q]), NEW j \in 1..Len(waiters'[q]),
                 waiters'[q][i] = waiters'[q][j]
          PROVE  i = j
      BY <2>4, <3>5 DEF BulkInv, QueueInv
    <3>6. \A q \in Procs : \A i \in 1..Len(waiters'[q]) :
            pc'[waiters'[q][i]] = "queued" /\ Home[waiters'[q][i]] = q
      BY <3>2, <3>4
    <3>7. \A q \in Procs : \A i, j \in 1..Len(waiters'[q]) : waiters'[q][i] = waiters'[q][j] => i = j
      BY <3>3, <3>5
    <3> QED BY <1>0, <3>6, <3>7 DEF QueueInv
  <2>7. Cardinality(Holding(p)) = MaxConcurrent \/ At(p, {"granted"}) # {}
    <3>1. Cardinality(Holding(p)) \in Nat /\ Cardinality(Holding(p)) <= MaxConcurrent
      BY CallsFinite DEF Holding, At, BulkInv, SlotsAreUsed
    <3> QED BY <1>0, <1>3, <3>1 DEF Locked, Waiting, BulkInv, SlotsAreUsed
  <2>8. SlotsAreUsed'
    BY <2>3, <2>4, <2>7 DEF BulkInv, SlotsAreUsed
  <2> QED BY <2>6, <2>8 DEF BulkInv
<1> QED BY <1>1, <1>2, <1>3

\* A call moves on and the first waiters get the free slots.
LEMMA BulkWakes ==
  ASSUME TypeInv, BulkInv, NEW c \in Calls, deployment' = deployment,
         NEW p \in Procs, Home[c] = p,
         NEW next \in {"running", "reporting"}, NEW queue \in Seq(Calls), NEW free \in Nat,
         WakeUp(c, next, queue, free), QueueOf(queue, p, c), Fits(c, next, free)
  PROVE  BulkInv'
<1>0. /\ MaxConcurrent \in Nat \ {0} /\ pc \in [Calls -> Pcs] /\ waiters \in [Procs -> Seq(Calls)]
      /\ Home' = Home /\ Len(queue) \in Nat
  BY Parameters, Types, LenProperties DEF Home
<1>g. PICK n \in 0..Len(queue) : GrantsTo(c, next, queue, free, n)
  BY Woken
<1>1. /\ n <= free /\ (n = free \/ n = Len(queue)) /\ pc'[c] = next
      /\ \A e \in Calls \ {c} :
            pc'[e] = IF \E i \in 1..n : queue[i] = e THEN "granted" ELSE pc[e]
      /\ \A q \in Procs \ {p} : waiters'[q] = waiters[q]
      /\ Len(waiters'[p]) = Len(queue) - n /\ waiters'[p] \in Seq(Calls)
      /\ \A i \in 1..(Len(queue) - n) : waiters'[p][i] = queue[n + i]
  BY <1>0, <1>g DEF GrantsTo
<1> DEFINE W == {e \in Calls : \E i \in 1..n : queue[i] = e}
           B == Still(c, next)
<1>e. /\ \A i \in 1..Len(queue) : queue[i] \in Calls /\ pc[queue[i]] = "queued"
                                  /\ Home[queue[i]] = p /\ queue[i] # c
      /\ \A i, j \in 1..Len(queue) : queue[i] = queue[j] => i = j
  BY ElementOfSeq DEF QueueOf
<1>w. /\ W \subseteq Calls /\ c \notin W /\ \A e \in W : pc[e] = "queued" /\ Home[e] = p
      /\ \A e \in Calls \ {c} : pc'[e] = IF e \in W THEN "granted" ELSE pc[e]
  <2>1. \A i \in 1..n : i \in 1..Len(queue)
    BY <1>0
  <2>2. \A e \in Calls : e \in W <=> \E i \in 1..n : queue[i] = e
    OBVIOUS
  <2>3. \A e \in Calls \ {c} : pc'[e] = IF e \in W THEN "granted" ELSE pc[e]
    BY <1>1, <2>2
  <2>4. W \subseteq Calls /\ c \notin W /\ \A e \in W : pc[e] = "queued" /\ Home[e] = p
    BY <1>e, <2>1
  <2> QED BY <2>3, <2>4
<1>2. QueueInv'
  <2>1. ASSUME NEW i \in 1..Len(waiters'[p])
        PROVE  /\ n + i \in 1..Len(queue) /\ waiters'[p][i] = queue[n + i]
               /\ queue[n + i] \notin W
    <3>1. n + i \in 1..Len(queue) /\ waiters'[p][i] = queue[n + i]
      BY <1>0, <1>1
    <3>2. ASSUME NEW j \in 1..n, queue[j] = queue[n + i] PROVE FALSE
      <4>1. j \in 1..Len(queue) /\ j # n + i
        BY <1>0
      <4> QED BY <1>e, <3>1, <3>2, <4>1
    <3> QED BY <3>1, <3>2
  <2> HIDE DEF W
  <2>2. ASSUME NEW i \in 1..Len(waiters'[p])
        PROVE  pc'[waiters'[p][i]] = "queued" /\ Home[waiters'[p][i]] = p
    <3>1. n + i \in 1..Len(queue) /\ waiters'[p][i] = queue[n + i] /\ queue[n + i] \notin W
      BY <2>1
    <3>2. /\ queue[n + i] \in Calls \ {c} /\ pc[queue[n + i]] = "queued"
          /\ Home[queue[n + i]] = p
      BY <1>e, <3>1
    <3> QED BY <1>w, <3>1, <3>2
  <2>3. ASSUME NEW i \in 1..Len(waiters'[p]), NEW j \in 1..Len(waiters'[p]),
               waiters'[p][i] = waiters'[p][j]
        PROVE  i = j
    <3>1. n + i \in 1..Len(queue) /\ n + j \in 1..Len(queue) /\ queue[n + i] = queue[n + j]
      BY <2>1, <2>3
    <3>2. n + i = n + j
      BY <1>e, <3>1
    <3>3. i \in Int /\ j \in Int /\ n \in Int
      BY <1>0, <1>1
    <3> QED BY <3>2, <3>3
  <2>4. ASSUME NEW q \in Procs \ {p}, NEW i \in 1..Len(waiters'[q])
        PROVE  pc'[waiters'[q][i]] = "queued" /\ Home[waiters'[q][i]] = q
    <3>1. waiters'[q] = waiters[q] /\ waiters[q][i] \in Calls
      BY <1>0, <1>1, ElementOfSeq
    <3>2. pc[waiters[q][i]] = "queued" /\ Home[waiters[q][i]] = q
      BY <3>1 DEF BulkInv, QueueInv
    <3>3. waiters[q][i] # c /\ waiters[q][i] \notin W
      BY <1>w, <3>2
    <3> QED BY <1>w, <3>1, <3>2, <3>3
  <2>5. ASSUME NEW q \in Procs \ {p}, NEW i \in 1..Len(waiters'[q]), NEW j \in 1..Len(waiters'[q]),
               waiters'[q][i] = waiters'[q][j]
        PROVE  i = j
    BY <1>1, <2>5 DEF BulkInv, QueueInv
  <2>6. \A q \in Procs : \A i \in 1..Len(waiters'[q]) :
          pc'[waiters'[q][i]] = "queued" /\ Home[waiters'[q][i]] = q
    BY <2>2, <2>4
  <2>7. \A q \in Procs : \A i, j \in 1..Len(waiters'[q]) : waiters'[q][i] = waiters'[q][j] => i = j
    BY <2>3, <2>5
  <2> QED BY <1>0, <2>6, <2>7 DEF QueueInv
<1>3. Cardinality(W) <= n /\ Cardinality(W) \in Nat /\ IsFiniteSet(W)
  <2>1. IsFiniteSet(1..n) /\ Cardinality(1..n) = n
    BY <1>0, FS_Interval
  <2> DEFINE g == [i \in 1..n |-> queue[i]]
  <2>2. g \in Surjection(1..n, W)
    <3>1. \A i \in 1..n : queue[i] \in W
      BY <1>0, <1>e
    <3>2. \A e \in W : \E i \in 1..n : g[i] = e
      OBVIOUS
    <3>3. g \in [1..n -> W]
      BY <3>1
    <3> QED BY <3>2, <3>3 DEF Surjection
  <2> HIDE DEF W, g
  <2>4. IsFiniteSet(W) /\ Cardinality(W) <= Cardinality(1..n)
    BY <2>1, <2>2, FS_Surjection
  <2>5. Cardinality(W) \in Nat
    BY <2>4, FS_CardinalityType
  <2> QED BY <2>1, <2>4, <2>5
<1> HIDE DEF W
<1>4. Holding(p)' = B \cup W
  BY <1>0, <1>1, <1>w DEF Holding, At, Still
<1>5. /\ Cardinality(B) + free <= MaxConcurrent /\ (free >= 1 \/ Cardinality(B) = MaxConcurrent)
      /\ IsFiniteSet(B) /\ Cardinality(B) \in Nat
  <2>1. B \in SUBSET Calls
    BY DEF Still, Holding, At
  <2> QED BY <2>1, CallsFinite DEF Fits
<1>6. \A q \in Procs \ {p} : Holding(q)' = Holding(q) /\ At(q, {"granted"})' = At(q, {"granted"})
  BY <1>0, <1>w DEF Holding, At
<1> HIDE DEF B
<1>7. Cardinality(Holding(p)') <= MaxConcurrent
  <2>1. Cardinality(B \cup W) = Cardinality(B) + Cardinality(W) - Cardinality(B \cap W)
        /\ IsFiniteSet(B \cap W)
    BY <1>3, <1>5, FS_Union, FS_Intersection
  <2>2. Cardinality(B \cap W) \in Nat
    BY <2>1, FS_CardinalityType
  <2> QED BY <1>0, <1>1, <1>3, <1>4, <1>5, <2>1, <2>2
<1>8. waiters'[p] # <<>> => Cardinality(Holding(p)') = MaxConcurrent \/ At(p, {"granted"})' # {}
  <2> SUFFICES ASSUME waiters'[p] # <<>>
               PROVE  Cardinality(Holding(p)') = MaxConcurrent \/ At(p, {"granted"})' # {}
    OBVIOUS
  <2>1. n < Len(queue)
    <3>1. Len(waiters'[p]) # 0
      BY <1>1, EmptySeq
    <3> QED BY <1>0, <1>1, <3>1
  <2>2. n = free
    BY <1>0, <1>1, <2>1
  <2>3. CASE free >= 1
    <3>1. 1 \in 1..n /\ 1 \in 1..Len(queue)
      BY <1>0, <2>1, <2>2, <2>3
    <3>2. queue[1] \in W
      BY <1>e, <3>1 DEF W
    <3>3. queue[1] \in Calls \ {c} /\ Home[queue[1]] = p /\ pc'[queue[1]] = "granted"
      BY <1>w, <3>2
    <3> QED BY <1>0, <3>3 DEF At
  <2>4. CASE free = 0 /\ Cardinality(B) = MaxConcurrent
    <3>1. W = {}
      BY <2>2, <2>4 DEF W
    <3> QED BY <1>4, <2>4, <3>1
  <2> QED BY <1>5, <2>3, <2>4
<1>9. SlotsAreUsed'
  <2>1. \A q \in Procs \ {p} : Cardinality(Holding(q)') <= MaxConcurrent
          /\ (waiters'[q] # <<>> => Cardinality(Holding(q)') = MaxConcurrent \/ At(q, {"granted"})' # {})
    BY <1>1, <1>6 DEF BulkInv, SlotsAreUsed
  <2> QED BY <1>7, <1>8, <2>1 DEF SlotsAreUsed
<1> QED BY <1>2, <1>9 DEF BulkInv

\* A call moves outside the bulkhead.
LEMMA BulkMove ==
  ASSUME TypeInv, BulkInv, NEW c \in Calls, NEW l,
         pc[c] \notin {"queued", "granted", "running"}, l \notin {"queued", "granted", "running"},
         pc' = [pc EXCEPT ![c] = l], waiters' = waiters, deployment' = deployment
  PROVE  BulkInv'
<1>1. pc'[c] = l /\ \A e \in Calls \ {c} : pc'[e] = pc[e]
  BY Types
<1> QED BY <1>1, BulkFrame

\* Initially nobody runs or waits.
LEMMA BulkInit == Init => BulkInv
<1> SUFFICES ASSUME Init PROVE BulkInv
  OBVIOUS
<1>1. MaxConcurrent \in Nat \ {0}
  BY Parameters DEF Init
<1>2. \A p \in Procs : Holding(p) = {} /\ waiters[p] = <<>>
  BY DEF Init, Holding, At
<1>3. Cardinality({}) = 0
  BY FS_EmptySet
<1>4. \A p \in Procs : 1..Len(waiters[p]) = {}
  <2>1. Len(<<>>) = 0 /\ 1..0 = {}
    OBVIOUS
  <2> QED BY <1>2, <2>1
<1>5. QueueInv
  BY <1>4 DEF QueueInv
<1>6. SlotsAreUsed
  <2>1. \A p \in Procs : Cardinality(Holding(p)) = 0
    BY <1>2, <1>3
  <2>2. 0 <= MaxConcurrent
    BY <1>1
  <2>3. \A p \in Procs : Cardinality(Holding(p)) <= MaxConcurrent
    BY <2>1, <2>2
  <2> HIDE DEF Holding
  <2> QED BY <1>2, <2>3 DEF SlotsAreUsed
<1> QED BY <1>5, <1>6 DEF BulkInv

\* Every step keeps slots and queue in order.
LEMMA BulkStep == TypeInv /\ BulkInv /\ [Next]_vars => BulkInv'
<1> SUFFICES ASSUME TypeInv, BulkInv, [Next]_vars PROVE BulkInv'
  OBVIOUS
<1> USE DEF breaker, repository, bounds, trip, seen
<1>1. ASSUME NEW c \in Calls,
             Refresh(c) \/ BeforeCallOpen(c) \/ Report(c) \/ ReportSaved(c) \/ RefreshFails(c)
             \/ SaveFails(c) \/ ReportCancelled(c)
      PROVE  BulkInv'
  <2>1. pc[c] \notin {"queued", "granted", "running"} /\ waiters' = waiters /\ deployment' = deployment
    BY <1>1 DEF Refresh, BeforeCallOpen, Enters, Reject, Report, ReportSaved, RefreshFails,
       SaveFails, ReportCancelled
  <2>2. PICK l \in {"refreshing", "done", "saving"} : pc' = [pc EXCEPT ![c] = l]
    BY <1>1 DEF Refresh, BeforeCallOpen, Reject, Report, ReportSaved, RefreshFails, SaveFails,
       ReportCancelled
  <2> QED BY <2>1, <2>2, BulkMove
<1>2. ASSUME NEW c \in Calls, NEW p \in Procs, NEW n, NEW k, Home[c] = p, deployment' = deployment,
             pc[c] \notin {"queued", "granted", "running"},
             EnterBulkhead(c, p) \/ AdmitProbe(c, p, n, k) \/ RejectProbe(c, p, n)
      PROVE  BulkInv'
  <2>1. CASE EnterBulkhead(c, p)
    BY <1>2, <2>1, BulkEnters
  <2>2. CASE RejectProbe(c, p, n)
    BY <1>2, <2>2, BulkMove DEF RejectProbe, Reject
  <2> QED BY <1>2, <2>1, <2>2 DEF AdmitProbe
<1>3. ASSUME NEW c \in Calls, BeforeCallClosed(c) \/ BeforeCallHalfOpen(c) \/ HalfOpenSaved(c)
      PROVE  BulkInv'
  <2>1. pc[c] \notin {"queued", "granted", "running"} /\ deployment' = deployment /\ Home[c] \in Procs
    BY <1>3, SnapType DEF BeforeCallClosed, BeforeCallHalfOpen, HalfOpenSaved, Enters
  <2> QED BY <1>2, <1>3, <2>1 DEF BeforeCallClosed, BeforeCallHalfOpen, HalfOpenSaved
<1>4. ASSUME NEW c \in Calls, BeforeCallRecovers(c) PROVE BulkInv'
  <2>1. pc[c] \notin {"queued", "granted", "running"} /\ deployment' = deployment /\ Home[c] \in Procs
    BY <1>4, SnapType DEF BeforeCallRecovers, Enters
  <2>2. CASE shared
    BY <1>4, <2>1, <2>2, BulkMove DEF BeforeCallRecovers
  <2>3. CASE ~shared
    BY <1>2, <1>4, <2>1, <2>3 DEF BeforeCallRecovers
  <2> QED BY <2>2, <2>3
<1>5. ASSUME NEW c \in Calls, Resume(c) \/ HandlerEnds(c) \/ GiveUpWaiting(c) PROVE BulkInv'
  <2>1. deployment' = deployment
    BY <1>5 DEF Resume, HandlerEnds, GiveUpWaiting
  <2>2. Home[c] \in Procs
    BY SnapType
  <2> QED BY <1>5, <2>1, <2>2, Wakes, BulkWakes
<1>8. CASE Expire \/ Tick \/ UNCHANGED vars
  BY <1>8, BulkFrame DEF Expire, Tick, vars
<1> QED BY <1>1, <1>3, <1>4, <1>5, <1>8 DEF Next, Progress

\* Types, queue and slots hold together.
LEMMA BulkHolds == Spec => [](TypeInv /\ BulkInv)
<1>1. Init => TypeInv /\ BulkInv
  BY TypeInvInit, BulkInit
<1>2. TypeInv /\ BulkInv /\ [Next]_vars => (TypeInv /\ BulkInv)'
  BY TypeInvStep, BulkStep
<1> QED BY <1>1, <1>2, PTL DEF Spec

\* Type correctness: counters stay below their thresholds, and the places of
\* probes within half_open_max_calls.
THEOREM ResilientTypeCorrect == Spec => []TypeOK
<1>1. TypeInv => TypeOK
  BY DEF TypeInv
<1> QED BY <1>1, BulkHolds, PTL

\* The bulkhead runs at most max_concurrent handlers, and a caller waits only
\* while all slots are taken or a waiter that was granted one has yet to run,
\* through every order of timeouts, cancellations, releases and arrivals.
THEOREM BulkheadKeepsSlots == Spec => []SlotsAreUsed
<1>1. BulkInv => SlotsAreUsed
  BY DEF BulkInv
<1> QED BY <1>1, BulkHolds, PTL

----------------------------------------------------------------------------
(* Who moves in a step.                                                     *)

StepOf(c) ==
    \/ Progress(c) \/ GiveUpWaiting(c)
    \/ RefreshFails(c) \/ SaveFails(c) \/ ReportCancelled(c)

FlightPcs == {"queued", "granted", "running", "reporting"}

\* In a step of c another call is given a slot at most.
LEMMA OthersStay ==
  ASSUME TypeInv, BulkInv, NEW c \in Calls, StepOf(c), NEW e \in Calls \ {c}
  PROVE  pc'[e] = pc[e] \/ (pc[e] = "queued" /\ pc'[e] = "granted")
<1> USE DEF breaker, repository, bounds, trip, seen
<1>0. pc \in [Calls -> Pcs] /\ Home[c] \in Procs
  BY Types, SnapType
<1>1. CASE Resume(c) \/ HandlerEnds(c) \/ GiveUpWaiting(c)
  <2>1. PICK next \in {"running", "reporting"}, queue \in Seq(Calls), free \in Nat :
           WakeUp(c, next, queue, free) /\ QueueOf(queue, Home[c], c)
    BY <1>1, Wakes
  <2>g. PICK n \in 0..Len(queue) : GrantsTo(c, next, queue, free, n)
    BY <2>1, Woken
  <2>2. pc'[e] = IF \E i \in 1..n : queue[i] = e THEN "granted" ELSE pc[e]
    BY <2>g DEF GrantsTo
  <2>3. \A i \in 1..n : i \in 1..Len(queue)
    BY LenProperties
  <2> QED BY <2>1, <2>2, <2>3 DEF QueueOf
<1>2. CASE ~(Resume(c) \/ HandlerEnds(c) \/ GiveUpWaiting(c))
  <2>1. \E l : pc' = [pc EXCEPT ![c] = l]
    BY <1>2 DEF StepOf, Progress, Refresh, BeforeCallClosed, BeforeCallOpen, BeforeCallHalfOpen,
       BeforeCallRecovers, HalfOpenSaved, Report, ReportSaved,
       RefreshFails, SaveFails, ReportCancelled, EnterBulkhead, AdmitProbe, RejectProbe, Reject
  <2> QED BY <1>0, <2>1
<1> QED BY <1>1, <1>2

\* A call that resumes, ends or gives up moves to the handler or to its report.
LEMMA WakerMoves ==
  ASSUME TypeInv, BulkInv, NEW c \in Calls, Resume(c) \/ HandlerEnds(c) \/ GiveUpWaiting(c)
  PROVE  pc'[c] \in {"running", "reporting"} /\ pc[c] \in {"queued", "granted", "running"}
<1>1. PICK next \in {"running", "reporting"}, queue \in Seq(Calls), free \in Nat :
         WakeUp(c, next, queue, free)
  BY Wakes
<1>2. pc'[c] = next
  BY <1>1, Woken DEF GrantsTo
<1> QED BY <1>2 DEF Resume, HandlerEnds, GiveUpWaiting

\* Where entering the bulkhead leads.
LEMMA EntersFlight ==
  ASSUME TypeInv, NEW c \in Calls, NEW p \in Procs, EnterBulkhead(c, p)
  PROVE  pc'[c] \in {"reporting", "running", "queued"}
  BY Types DEF EnterBulkhead

\* Where a call may go from where it is.
LEMMA OwnMove ==
  ASSUME TypeInv, BulkInv, LocalInv, NEW c \in Calls, StepOf(c)
  PROVE  /\ deployment' = deployment
         /\ ~shared => pc'[c] \notin {"refreshing", "half_opening", "saving"} /\ lock' \subseteq lock
         /\ pc'[c] = "refreshing" => Refresh(c)
         /\ pc'[c] = "half_opening" => BeforeCallRecovers(c)
<1> USE DEF breaker, repository, bounds, trip, seen
<1>0. pc \in [Calls -> Pcs] /\ Home[c] \in Procs
  BY Types, SnapType
<1>1. CASE Refresh(c)
  BY <1>0, <1>1 DEF Refresh
<1>2. CASE BeforeCallClosed(c) \/ BeforeCallHalfOpen(c) \/ HalfOpenSaved(c)
  <2>1. pc'[c] \in {"reporting", "running", "queued", "done"}
    BY <1>0, <1>2, EntersFlight
    DEF BeforeCallClosed, BeforeCallHalfOpen, HalfOpenSaved, AdmitProbe, RejectProbe, Reject
  <2> QED BY <1>2, <2>1 DEF BeforeCallClosed, BeforeCallHalfOpen, HalfOpenSaved, Unlock
<1>3. CASE BeforeCallRecovers(c)
  <2>1. CASE shared
    BY <1>0, <1>3, <2>1 DEF BeforeCallRecovers
  <2>2. CASE ~shared
    <3>1. pc'[c] \in {"reporting", "running", "queued"}
      BY <1>0, <1>3, <2>2, EntersFlight DEF BeforeCallRecovers, AdmitProbe
    <3> QED BY <1>3, <2>2, <3>1 DEF BeforeCallRecovers
  <2> QED BY <2>1, <2>2
<1>4. CASE BeforeCallOpen(c) \/ ReportSaved(c) \/ RefreshFails(c) \/ SaveFails(c)
           \/ ReportCancelled(c)
  BY <1>0, <1>4
  DEF BeforeCallOpen, Reject, ReportSaved, RefreshFails, SaveFails, ReportCancelled, Unlock
<1>5. CASE Resume(c) \/ HandlerEnds(c) \/ GiveUpWaiting(c)
  <2>1. pc'[c] \in {"running", "reporting"}
    BY <1>5, WakerMoves
  <2> QED BY <1>5, <2>1 DEF Resume, HandlerEnds, GiveUpWaiting
<1>6. CASE Report(c)
  BY <1>0, <1>6 DEF Report
<1> QED BY <1>1, <1>2, <1>3, <1>4, <1>5, <1>6 DEF StepOf, Progress

\* Without a repository the lock is never held over an await.
LEMMA LocalStep == TypeInv /\ BulkInv /\ LocalInv /\ [Next]_vars => LocalInv'
<1> SUFFICES ASSUME TypeInv, BulkInv, LocalInv, [Next]_vars PROVE LocalInv'
  OBVIOUS
<1>1. ASSUME NEW c \in Calls, StepOf(c) PROVE LocalInv'
  <2> SUFFICES ASSUME ~shared'
               PROVE  lock' = {} /\ \A e \in Calls : pc'[e] \notin {"refreshing", "half_opening", "saving"}
    BY DEF LocalInv
  <2>1. ~shared /\ lock = {} /\ \A e \in Calls : pc[e] \notin {"refreshing", "half_opening", "saving"}
    BY <1>1, OwnMove DEF LocalInv, shared
  <2>2. pc'[c] \notin {"refreshing", "half_opening", "saving"} /\ lock' = {}
    BY <1>1, <2>1, OwnMove
  <2>3. \A e \in Calls \ {c} : pc'[e] \notin {"refreshing", "half_opening", "saving"}
    BY <1>1, <2>1, OthersStay
  <2> QED BY <2>2, <2>3
<1>2. CASE Expire \/ Tick \/ UNCHANGED vars
  BY <1>2 DEF Expire, Tick, vars, LocalInv, shared, repository, breaker
<1> QED BY <1>1, <1>2 DEF Next, StepOf

----------------------------------------------------------------------------
(* Probes of a HALF_OPEN breaker, without a repository.                     *)

\* The part of ProbeInv that is about one process.
Places(p) ==
    snapshot[p].state = "half_open" =>
        /\ Cardinality(Probes(p)) <= halfOpenInFlight[p] + late[p]
        /\ halfOpenInFlight[p] <= Cardinality(InFlight(p))

\* ProbeInv, process by process.
LEMMA ProbeParts ==
  ProbeInv <=> (~shared => /\ \A c \in Calls : admitted[c] <= period[Home[c]]
                           /\ \A p \in Procs : Places(p))
  BY DEF ProbeInv, Places

\* Nothing changes at a process that the step is not about.
LEMMA PlacesStay ==
  ASSUME deployment' = deployment, NEW q \in Procs, Places(q), InFlight(q)' = InFlight(q),
         snapshot'[q] = snapshot[q], halfOpenInFlight'[q] = halfOpenInFlight[q],
         late'[q] = late[q], period'[q] = period[q],
         \A e \in InFlight(q) : admitted'[e] = admitted[e]
  PROVE  Places(q)'
<1>1. Probes(q)' = Probes(q)
  BY DEF Probes
<1> QED BY <1>1 DEF Places

\* The calls under way after a step of c.
LEMMA FlightMoves ==
  ASSUME TypeInv, BulkInv, NEW c \in Calls, NEW p \in Procs, Home[c] = p, StepOf(c),
         deployment' = deployment
  PROVE  /\ \A q \in Procs \ {p} : InFlight(q)' = InFlight(q)
         /\ pc'[c] \in FlightPcs => InFlight(p)' = InFlight(p) \union {c}
         /\ pc'[c] \notin FlightPcs => InFlight(p)' = InFlight(p) \ {c}
<1>1. \A e \in Calls \ {c} : pc'[e] \in FlightPcs <=> pc[e] \in FlightPcs
  BY OthersStay DEF FlightPcs
<1>2. Home' = Home
  BY DEF Home
<1> QED BY <1>1, <1>2 DEF InFlight, At, FlightPcs

\* Calls under way, and probes among them, can be counted.
LEMMA FlightFinite ==
  ASSUME NEW p
  PROVE  /\ IsFiniteSet(InFlight(p)) /\ Cardinality(InFlight(p)) \in Nat
         /\ IsFiniteSet(Probes(p)) /\ Cardinality(Probes(p)) \in Nat
<1>1. InFlight(p) \in SUBSET Calls /\ Probes(p) \in SUBSET Calls
  BY DEF Probes, InFlight, At
<1> QED BY <1>1, CallsFinite

\* A probe is let in: one place and one call more.
LEMMA PlacesAdmit ==
  ASSUME TypeInv, BulkInv, NEW c \in Calls, NEW p \in Procs, Home[c] = p, StepOf(c),
         deployment' = deployment, pc[c] \notin FlightPcs, pc'[c] \in FlightPcs,
         admitted' = [admitted EXCEPT ![c] = period'[p]],
         NEW n \in Nat, NEW m \in Nat, halfOpenInFlight'[p] = n + 1, late'[p] = m,
         Cardinality({e \in InFlight(p) : admitted[e] = period'[p]}) <= n + m,
         n <= Cardinality(InFlight(p))
  PROVE  Places(p)'
<1>1. InFlight(p)' = InFlight(p) \union {c} /\ c \notin InFlight(p)
  BY FlightMoves DEF InFlight, At, FlightPcs
<1> DEFINE P == {e \in InFlight(p) : admitted[e] = period'[p]}
<1>2. admitted'[c] = period'[p] /\ \A e \in Calls \ {c} : admitted'[e] = admitted[e]
  BY Types
<1>3. InFlight(p) \subseteq Calls
  BY DEF InFlight, At
<1>4. Probes(p)' = P \union {c} /\ c \notin P
  BY <1>1, <1>2, <1>3 DEF Probes
<1>5. IsFiniteSet(P) /\ Cardinality(P) \in Nat
  BY <1>3, CallsFinite
<1> HIDE DEF P
<1>6. Cardinality(Probes(p)') = Cardinality(P) + 1
  BY <1>4, <1>5, FS_AddElement
<1>7. Cardinality(InFlight(p)') = Cardinality(InFlight(p)) + 1 /\ Cardinality(InFlight(p)) \in Nat
  <2>1. IsFiniteSet(InFlight(p)) /\ Cardinality(InFlight(p)) \in Nat
    BY FlightFinite
  <2>2. Cardinality(InFlight(p) \cup {c}) = Cardinality(InFlight(p)) + 1
    BY <1>1, <2>1, FS_AddElement
  <2> QED BY <1>1, <2>1, <2>2
<1>8. Cardinality(P) <= n + m
  BY DEF P
<1>9. Cardinality(Probes(p)') <= halfOpenInFlight'[p] + late'[p]
  BY <1>5, <1>6, <1>8
<1>10. halfOpenInFlight'[p] <= Cardinality(InFlight(p)')
  BY <1>7
<1> QED BY <1>9, <1>10 DEF Places

\* A step of a call in the bulkhead or in front of it leaves the breaker alone.
LEMMA PlacesUntouched ==
  ASSUME TypeInv, BulkInv, ProbeInv, NEW c \in Calls, StepOf(c), deployment' = deployment,
         pc[c] \in FlightPcs <=> pc'[c] \in FlightPcs, UNCHANGED <<breaker, admitted>>
  PROVE  ProbeInv'
<1>1. \A q \in Procs : InFlight(q)' = InFlight(q)
  <2>1. PICK p \in Procs : Home[c] = p
    BY SnapType
  <2>2. c \in InFlight(p) <=> pc[c] \in FlightPcs
    BY <2>1 DEF InFlight, At, FlightPcs
  <2>3. InFlight(p)' = InFlight(p)
    BY <2>1, <2>2, FlightMoves
  <2> QED BY <2>1, <2>3, FlightMoves
<1>2. shared' = shared /\ Home' = Home
  BY DEF shared, Home
<1>3. \A q \in Procs : Probes(q)' = Probes(q)
  BY <1>1 DEF Probes, breaker
<1> QED BY <1>1, <1>2, <1>3 DEF ProbeInv, breaker

\* A result is counted.
LEMMA PlacesReport ==
  ASSUME TypeInv, BulkInv, ProbeInv, LocalInv, NEW c \in Calls, Report(c), ~shared
  PROVE  ProbeInv'
<1> USE DEF breaker, repository, bounds, trip, seen
<1>p. PICK p \in Procs : Home[c] = p
  BY SnapType
<1>0. /\ deployment' = deployment /\ StepOf(c) /\ pc'[c] = "done"
      /\ UNCHANGED <<period, admitted>> /\ c \in InFlight(p) /\ shared' = shared /\ Home' = Home
  BY <1>p, Types DEF Report, StepOf, Progress, InFlight, At, shared, Home
<1>t. /\ halfOpenInFlight \in [Procs -> 0..HalfOpenMaxCalls] /\ snapshot \in [Procs -> Snapshots]
      /\ late \in [Procs -> Nat] /\ HalfOpenMaxCalls \in Nat \ {0}
  BY Types, Parameters
<1>a. (\A e \in Calls : admitted[e] <= period[Home[e]]) /\ \A q \in Procs : Places(q)
  BY ProbeParts
<1>1. /\ \A q \in Procs \ {p} : InFlight(q)' = InFlight(q)
      /\ InFlight(p)' = InFlight(p) \ {c}
  BY <1>0, <1>p, FlightMoves DEF FlightPcs
<1>2. \A q \in Procs \ {p} : /\ snapshot'[q] = snapshot[q] /\ late'[q] = late[q]
                             /\ halfOpenInFlight'[q] = halfOpenInFlight[q]
  BY <1>p, <1>t DEF Report, OnFailure, Open, OnSuccess
<1>3. ASSUME NEW q \in Procs \ {p} PROVE Places(q)'
  BY <1>0, <1>1, <1>2, <1>a, PlacesStay
<1>4. Places(p)'
  <2> SUFFICES ASSUME snapshot'[p].state = "half_open" PROVE Places(p)'
    BY DEF Places
  <2>1. CASE failure[c]
    <3>1. ~Open(p)
      <4>1. now \in Times /\ deployment \in Deployments
        BY Types DEF Times
      <4>2. [Closed EXCEPT !.state = "open", !.opened_at = now].state = "open"
        BY <4>1, SnapshotForms DEF CircuitState
      <4> QED BY <1>0, <1>t, <4>2 DEF Open
    <3>2. OnFailure(p)
      BY <1>p, <2>1 DEF Report
    <3>3. /\ snapshot[p].state # "half_open"
          /\ snapshot' = [snapshot EXCEPT ![p] = [snapshot[p] EXCEPT !.failure_count = @ + 1]]
      BY <3>1, <3>2 DEF OnFailure
    <3>4. [snapshot[p] EXCEPT !.failure_count = @ + 1].state = snapshot[p].state
      BY <1>0, <1>t DEF Snapshots
    <3> QED BY <1>0, <1>t, <3>3, <3>4
  <2>2. CASE ~failure[c]
    <3>1. OnSuccess(p)
      BY <1>p, <2>2 DEF Report
    <3>2. snapshot[p].state = "half_open"
      <4>1. CASE snapshot[p].state = "closed"
        <5>1. snapshot' = [snapshot EXCEPT ![p] = [snapshot[p] EXCEPT !.failure_count = 0]]
          BY <3>1, <4>1 DEF OnSuccess
        <5>2. [snapshot[p] EXCEPT !.failure_count = 0].state = snapshot[p].state
          BY <1>0, <1>t DEF Snapshots
        <5> QED BY <1>0, <1>t, <4>1, <5>1, <5>2
      <4>2. CASE snapshot[p].state = "open"
        BY <3>1, <4>2 DEF OnSuccess
      <4> QED BY <3>1, <4>1, <4>2 DEF OnSuccess
    <3>3. /\ halfOpenInFlight'[p] = ProbeReturns(p)
          /\ late'[p] = IF admitted[c] # period[p] THEN late[p] + 1 ELSE late[p]
      BY <1>p, <1>t, <3>1, <3>2 DEF OnSuccess, Report
    <3>4. /\ Cardinality(InFlight(p)') = Cardinality(InFlight(p)) - 1
          /\ Cardinality(InFlight(p)) \in Nat /\ Cardinality(InFlight(p)') \in Nat
      <4>1. IsFiniteSet(InFlight(p)) /\ Cardinality(InFlight(p)) \in Nat
        BY FlightFinite
      <4>2. /\ IsFiniteSet(InFlight(p) \ {c})
            /\ Cardinality(InFlight(p) \ {c}) = Cardinality(InFlight(p)) - 1
        BY <1>0, <4>1, FS_RemoveElement
      <4>3. Cardinality(InFlight(p) \ {c}) \in Nat
        BY <4>2, FS_CardinalityType
      <4> QED BY <1>1, <4>1, <4>2, <4>3
    <3>5. Probes(p)' = Probes(p) \ {c}
      BY <1>0, <1>1 DEF Probes
    <3>6. /\ Cardinality(Probes(p)) \in Nat /\ Cardinality(Probes(p)') \in Nat
          /\ Cardinality(Probes(p)') = IF admitted[c] = period[p]
                                         THEN Cardinality(Probes(p)) - 1 ELSE Cardinality(Probes(p))
      <4>1. IsFiniteSet(Probes(p)) /\ Cardinality(Probes(p)) \in Nat
        BY FlightFinite
      <4>2. /\ IsFiniteSet(Probes(p) \ {c})
            /\ Cardinality(Probes(p) \ {c}) = IF c \in Probes(p)
                                                THEN Cardinality(Probes(p)) - 1
                                                ELSE Cardinality(Probes(p))
        BY <4>1, FS_RemoveElement
      <4>3. Cardinality(Probes(p) \ {c}) \in Nat
        BY <4>2, FS_CardinalityType
      <4>4. c \in Probes(p) <=> admitted[c] = period[p]
        BY <1>0 DEF Probes
      <4> QED BY <3>5, <4>1, <4>2, <4>3, <4>4
    <3>7. /\ Cardinality(Probes(p)) <= halfOpenInFlight[p] + late[p]
          /\ halfOpenInFlight[p] <= Cardinality(InFlight(p))
          /\ halfOpenInFlight[p] \in Nat /\ late[p] \in Nat
      BY <1>0, <1>a, <1>t, <3>2 DEF Places
    <3>8. ProbeReturns(p) \in Nat /\ ProbeReturns(p) >= halfOpenInFlight[p] - 1
          /\ (ProbeReturns(p) = 0 \/ ProbeReturns(p) = halfOpenInFlight[p] - 1)
      BY <3>7 DEF ProbeReturns
    <3>9. Cardinality(Probes(p)') <= halfOpenInFlight'[p] + late'[p]
      <4>1. CASE admitted[c] = period[p]
        BY <3>3, <3>6, <3>7, <3>8, <4>1
      <4>2. CASE admitted[c] # period[p]
        BY <3>3, <3>6, <3>7, <3>8, <4>2
      <4> QED BY <4>1, <4>2
    <3>10. halfOpenInFlight'[p] <= Cardinality(InFlight(p)')
      BY <3>3, <3>4, <3>7, <3>8
    <3> QED BY <1>0, <3>9, <3>10 DEF Places
  <2> QED BY <2>1, <2>2
<1>5. \A e \in Calls : admitted'[e] <= period'[Home'[e]]
  BY <1>0, <1>a
<1>6. \A q \in Procs : Places(q)'
  BY <1>3, <1>4
<1> QED BY <1>5, <1>6 DEF ProbeInv, Places

\* Initially no breaker is half open.
LEMMA ProbeInit == Init => LocalInv /\ ProbeInv
<1> SUFFICES ASSUME Init PROVE LocalInv /\ ProbeInv
  OBVIOUS
<1>1. deployment \in Deployments /\ Home \in [Calls -> Procs] /\ Closed.state = "closed"
  BY Parameters, SnapshotForms DEF Init
<1>2. \A p \in Procs : snapshot[p].state # "half_open" /\ period[p] = 0
  BY <1>1 DEF Init
<1>3. \A c \in Calls : admitted[c] = 0
  BY DEF Init
<1>4. ProbeInv
  BY <1>1, <1>2, <1>3 DEF ProbeInv
<1> QED BY <1>4 DEF Init, LocalInv

\* _before_call decides: let in while CLOSED, turned away, or let in as a probe.
LEMMA PlacesBeforeCall ==
  ASSUME TypeInv, BulkInv, ProbeInv, LocalInv, ~shared, NEW c \in Calls,
         BeforeCallClosed(c) \/ BeforeCallHalfOpen(c) \/ BeforeCallRecovers(c)
  PROVE  ProbeInv'
<1> USE DEF breaker, repository, bounds, trip, seen
<1>p. PICK p \in Procs : Home[c] = p
  BY SnapType
<1>0. /\ deployment' = deployment /\ StepOf(c) /\ pc[c] = "new" /\ shared' = shared /\ Home' = Home
      /\ Snap(c) = snapshot[p] /\ pc[c] \notin FlightPcs
  BY <1>p DEF BeforeCallClosed, BeforeCallHalfOpen, BeforeCallRecovers, StepOf, Progress, Enters,
     shared, Home, Snap, FlightPcs
<1>t. /\ halfOpenInFlight \in [Procs -> 0..HalfOpenMaxCalls] /\ snapshot \in [Procs -> Snapshots]
      /\ late \in [Procs -> Nat] /\ period \in [Procs -> Nat] /\ admitted \in [Calls -> Nat]
      /\ HalfOpenMaxCalls \in Nat \ {0} /\ Home \in [Calls -> Procs] /\ pc \in [Calls -> Pcs]
  BY Types, Parameters
<1>a. (\A e \in Calls : admitted[e] <= period[Home[e]]) /\ \A q \in Procs : Places(q)
  BY ProbeParts
<1>f. \A q \in Procs \ {p} : InFlight(q)' = InFlight(q)
  BY <1>0, <1>p, FlightMoves
<1>h. \A q \in Procs \ {p} : \A e \in InFlight(q) : e # c /\ e \in Calls
  BY <1>p DEF InFlight, At
<1>1. CASE BeforeCallClosed(c)
  <2>1. snapshot' = snapshot /\ snapshot[p].state = "closed"
    BY <1>0, <1>1, <1>p, <1>t DEF BeforeCallClosed
  <2>2. admitted'[c] = 0 /\ \A e \in Calls \ {c} : admitted'[e] = admitted[e]
    BY <1>1, <1>t DEF BeforeCallClosed
  <2>3. UNCHANGED <<halfOpenInFlight, late, period>>
    BY <1>1 DEF BeforeCallClosed
  <2>4. \A q \in Procs \ {p} : Places(q)'
    BY <1>0, <1>a, <1>f, <1>h, <2>1, <2>2, <2>3, PlacesStay
  <2>5. Places(p)'
    BY <2>1 DEF Places
  <2>6. \A e \in Calls : admitted'[e] <= period'[Home'[e]]
    BY <1>0, <1>a, <1>t, <2>2, <2>3
  <2> QED BY <2>4, <2>5, <2>6 DEF ProbeInv, Places
<1>2. CASE BeforeCallHalfOpen(c)
  <2>1. snapshot' = snapshot /\ snapshot[p].state = "half_open" /\ UNCHANGED <<late, period>>
    BY <1>0, <1>2, <1>p, <1>t DEF BeforeCallHalfOpen
  <2>2. CASE RejectProbe(c, p, halfOpenInFlight[p])
    <3>1. UNCHANGED <<breaker, admitted>> /\ pc'[c] = "done"
      BY <1>t, <2>1, <2>2 DEF RejectProbe, Reject
    <3> QED BY <1>0, <3>1, PlacesUntouched DEF FlightPcs
  <2>3. CASE AdmitProbe(c, p, halfOpenInFlight[p], period[p])
    <3>1. /\ pc'[c] \in FlightPcs /\ admitted' = [admitted EXCEPT ![c] = period'[p]]
          /\ halfOpenInFlight'[p] = halfOpenInFlight[p] + 1
          /\ \A q \in Procs \ {p} : halfOpenInFlight'[q] = halfOpenInFlight[q]
      BY <1>t, <2>1, <2>3, EntersFlight DEF AdmitProbe, FlightPcs
    <3>2. /\ Cardinality({e \in InFlight(p) : admitted[e] = period'[p]}) <= halfOpenInFlight[p] + late[p]
          /\ halfOpenInFlight[p] <= Cardinality(InFlight(p))
      BY <1>a, <2>1 DEF Places, Probes
    <3>3. halfOpenInFlight[p] \in Nat /\ late[p] \in Nat /\ late'[p] = late[p]
      BY <1>t, <2>1
    <3>4. Places(p)'
      BY <1>0, <1>p, <3>1, <3>2, <3>3, PlacesAdmit
    <3>5. admitted'[c] = period[p] /\ \A e \in Calls \ {c} : admitted'[e] = admitted[e]
      BY <1>t, <2>1, <3>1
    <3>6. \A q \in Procs \ {p} : Places(q)'
      BY <1>0, <1>a, <1>f, <1>h, <2>1, <3>1, <3>5, PlacesStay
    <3>7. \A e \in Calls : admitted'[e] <= period'[Home'[e]]
      BY <1>0, <1>a, <1>p, <1>t, <2>1, <3>5
    <3> QED BY <3>4, <3>6, <3>7 DEF ProbeInv, Places
  <2> QED BY <1>2, <1>p, <2>2, <2>3 DEF BeforeCallHalfOpen
<1>3. CASE BeforeCallRecovers(c)
  <2>1. /\ AdmitProbe(c, p, 0, period[p] + 1)
        /\ period' = [period EXCEPT ![p] = @ + 1] /\ late' = [late EXCEPT ![p] = 0]
    BY <1>3, <1>p DEF BeforeCallRecovers
  <2>2. /\ period'[p] = period[p] + 1 /\ late'[p] = 0
        /\ \A q \in Procs \ {p} : period'[q] = period[q] /\ late'[q] = late[q] /\ snapshot'[q] = snapshot[q]
    BY <1>3, <1>p, <1>t, <2>1 DEF BeforeCallRecovers
  <2>3. /\ pc'[c] \in FlightPcs /\ admitted' = [admitted EXCEPT ![c] = period'[p]]
        /\ halfOpenInFlight'[p] = 0 + 1
        /\ \A q \in Procs \ {p} : halfOpenInFlight'[q] = halfOpenInFlight[q]
    BY <1>t, <2>1, <2>2, EntersFlight DEF AdmitProbe, FlightPcs
  <2>4. {e \in InFlight(p) : admitted[e] = period'[p]} = {}
    <3>1. \A e \in InFlight(p) : e \in Calls /\ Home[e] = p
      BY DEF InFlight, At
    <3>2. \A e \in InFlight(p) : admitted[e] \in Nat /\ admitted[e] <= period[p]
      BY <1>a, <1>t, <3>1
    <3>3. period[p] \in Nat
      BY <1>t
    <3> QED BY <2>2, <3>2, <3>3
  <2>n. PICK n \in Nat : n = 0
    OBVIOUS
  <2>5. Cardinality({e \in InFlight(p) : admitted[e] = period'[p]}) <= n + n
    BY <2>4, <2>n, FS_EmptySet
  <2>6. n <= Cardinality(InFlight(p)) /\ halfOpenInFlight'[p] = n + 1 /\ late'[p] = n
    BY <2>2, <2>3, <2>n, FlightFinite
  <2>7. Places(p)'
    BY <1>0, <1>p, <2>3, <2>5, <2>6, PlacesAdmit
  <2>8. admitted'[c] = period'[p] /\ \A e \in Calls \ {c} : admitted'[e] = admitted[e]
    BY <1>t, <2>3
  <2>9. \A q \in Procs \ {p} : Places(q)'
    BY <1>0, <1>a, <1>f, <1>h, <2>2, <2>3, <2>8, PlacesStay
  <2>10. \A e \in Calls : admitted'[e] <= period'[Home'[e]]
    <3> SUFFICES ASSUME NEW e \in Calls PROVE admitted'[e] <= period'[Home[e]]
      BY <1>0
    <3>1. Home[e] \in Procs /\ period[Home[e]] \in Nat /\ admitted[e] \in Nat /\ period[p] \in Nat
          /\ admitted[e] <= period[Home[e]]
      BY <1>a, <1>t
    <3>2. CASE e = c
      BY <1>p, <2>2, <2>8, <3>1, <3>2
    <3>3. CASE e # c /\ Home[e] = p
      BY <2>2, <2>8, <3>1, <3>3
    <3>4. CASE e # c /\ Home[e] # p
      BY <2>2, <2>8, <3>1, <3>4
    <3> QED BY <3>2, <3>3, <3>4
  <2> QED BY <2>7, <2>9, <2>10 DEF ProbeInv, Places
<1> QED BY <1>1, <1>2, <1>3

\* Every step keeps the count of probes.
LEMMA ProbeStep == TypeInv /\ BulkInv /\ LocalInv /\ ProbeInv /\ [Next]_vars => ProbeInv'
<1> SUFFICES ASSUME TypeInv, BulkInv, LocalInv, ProbeInv, [Next]_vars, ~shared' PROVE ProbeInv'
  BY DEF ProbeInv
<1> USE DEF breaker, repository, bounds, trip, seen
<1>1. ASSUME NEW c \in Calls, StepOf(c) PROVE ProbeInv'
  <2>0. /\ deployment' = deployment /\ ~shared /\ lock = {}
        /\ pc[c] \notin {"refreshing", "half_opening", "saving"} /\ pc \in [Calls -> Pcs]
    BY <1>1, OwnMove, Types DEF LocalInv, shared
  <2>1. CASE BeforeCallClosed(c) \/ BeforeCallHalfOpen(c) \/ BeforeCallRecovers(c)
    BY <2>0, <2>1, PlacesBeforeCall
  <2>2. CASE Report(c)
    BY <2>0, <2>2, PlacesReport
  <2>3. CASE BeforeCallOpen(c)
    <3>1. pc[c] = "new" /\ pc'[c] = "done" /\ UNCHANGED <<halfOpenInFlight, period, late, admitted>>
      BY <2>0, <2>3 DEF BeforeCallOpen, Enters, Reject
    <3>2. snapshot' = snapshot
      BY <2>0, <2>3, SnapType, Types DEF BeforeCallOpen, Snap
    <3> QED BY <1>1, <2>0, <3>1, <3>2, PlacesUntouched DEF FlightPcs
  <2>4. CASE Resume(c) \/ HandlerEnds(c) \/ GiveUpWaiting(c)
    <3>1. pc'[c] \in FlightPcs /\ pc[c] \in FlightPcs
      BY <2>4, WakerMoves DEF FlightPcs
    <3> QED BY <1>1, <2>0, <2>4, <3>1, PlacesUntouched DEF Resume, HandlerEnds, GiveUpWaiting
  <2> QED BY <1>1, <2>0, <2>1, <2>2, <2>3, <2>4
    DEF StepOf, Progress, Refresh, HalfOpenSaved, ReportSaved, RefreshFails, SaveFails,
        ReportCancelled, LockFree
<1>2. CASE Expire \/ Tick \/ UNCHANGED vars
  <2>1. UNCHANGED <<deployment, pc, breaker, admitted>>
    BY <1>2 DEF Expire, Tick, vars
  <2>2. \A p \in Procs : InFlight(p)' = InFlight(p) /\ Probes(p)' = Probes(p)
    BY <2>1 DEF Probes, InFlight, At, Home
  <2> QED BY <2>1, <2>2 DEF ProbeInv, shared, Home
<1> QED BY <1>1, <1>2 DEF Next, StepOf

\* All of it holds together.
LEMMA ProbesHold == Spec => [](TypeInv /\ BulkInv /\ LocalInv /\ ProbeInv)
<1>1. Init => TypeInv /\ BulkInv /\ LocalInv /\ ProbeInv
  BY TypeInvInit, BulkInit, ProbeInit
<1>2. TypeInv /\ BulkInv /\ LocalInv /\ ProbeInv /\ [Next]_vars
        => (TypeInv /\ BulkInv /\ LocalInv /\ ProbeInv)'
  BY TypeInvStep, BulkStep, LocalStep, ProbeStep
<1> QED BY <1>1, <1>2, PTL DEF Spec

\* The probes out in a HALF_OPEN period are at most half_open_max_calls, and
\* one more for each result of another call that was counted as a probe's.
THEOREM ProbesKeepLimit == Spec => []ProbesAreLimited
<1>1. TypeInv /\ ProbeInv => ProbesAreLimited
  <2> SUFFICES ASSUME TypeInv, ProbeInv, NEW p \in Procs, ~shared, snapshot[p].state = "half_open"
               PROVE  Cardinality({c \in InFlight(p) : admitted[c] = period[p]})
                         <= HalfOpenMaxCalls + late[p]
    BY DEF ProbesAreLimited
  <2>1. /\ Cardinality(Probes(p)) <= halfOpenInFlight[p] + late[p]
        /\ Cardinality(Probes(p)) \in Nat
    BY FlightFinite DEF ProbeInv
  <2>2. halfOpenInFlight[p] \in 0..HalfOpenMaxCalls /\ late[p] \in Nat /\ HalfOpenMaxCalls \in Nat
    BY Types, Parameters
  <2>3. Cardinality(Probes(p)) <= HalfOpenMaxCalls + late[p]
    BY <2>1, <2>2
  <2> QED BY <2>3 DEF Probes
<1> QED BY <1>1, ProbesHold, PTL

\* A HALF_OPEN breaker without a place left has a call under way: the places
\* taken never outnumber the calls, so none is lost for good.
THEOREM HalfOpenFindsOut == Spec => []HalfOpenIsNotWedged
<1>1. TypeInv /\ ProbeInv => HalfOpenIsNotWedged
  <2> SUFFICES ASSUME TypeInv, ProbeInv, NEW p \in Procs, ~shared, snapshot[p].state = "half_open",
                      halfOpenInFlight[p] >= HalfOpenMaxCalls, InFlight(p) = {}
               PROVE  FALSE
    BY DEF HalfOpenIsNotWedged
  <2>1. halfOpenInFlight[p] <= Cardinality(InFlight(p))
    BY DEF ProbeInv
  <2>2. Cardinality(InFlight(p)) = 0
    BY FS_EmptySet
  <2>3. halfOpenInFlight[p] \in 0..HalfOpenMaxCalls /\ HalfOpenMaxCalls \in Nat \ {0}
    BY Types, Parameters
  <2> QED BY <2>1, <2>2, <2>3
<1> QED BY <1>1, ProbesHold, PTL

----------------------------------------------------------------------------
(* Openings.                                                                *)

\* Saving a snapshot: it is the last opening, or the repository lost it.
LEMMA PersistTells ==
  ASSUME TypeInv, NEW p \in Procs, Persist(p)
  PROVE  StoreTells'
<1>1. snapshot[p].opened_at \in Int /\ tripped \in Int
  <2>1. snapshot[p].opened_at \in Times /\ tripped \in Times
    BY Types DEF Snapshots
  <2>2. MaxTime \in Nat /\ None \in Int
    BY Types, Parameters
  <2> QED BY <2>1, <2>2 DEF Times
<1>2. snapshot[p].state = "open" => snapshot[p].opened_at <= tripped'
  BY <1>1 DEF Persist, Tripped
<1>3. tripped' \in Int
  BY <1>1 DEF Persist, Tripped
<1>4. CASE snapshot[p].state # "open" \/ snapshot[p].opened_at < tripped'
  <2>1. overwritten' = TRUE
    BY <1>4 DEF Persist
  <2> QED BY <2>1 DEF StoreTells
<1>5. CASE snapshot[p].state = "open" /\ ~(snapshot[p].opened_at < tripped')
  <2>1. snapshot[p].opened_at = tripped'
    BY <1>1, <1>2, <1>3, <1>5
  <2>2. store' = snapshot[p] /\ stored' = TRUE
    BY DEF Persist
  <2>3. stored' /\ store'.state = "open" /\ store'.opened_at = tripped'
    BY <1>5, <2>1, <2>2
  <2> QED BY <2>3 DEF StoreTells
<1> QED BY <1>4, <1>5

\* What a step of c leaves alone.
LEMMA TripFrame ==
  ASSUME TypeInv, NEW c \in Calls, StepOf(c)
  PROVE  /\ now' = now
         /\ \A e \in Calls \ {c} : read'[e] = read[e] /\ known'[e] = known[e]
         /\ Refresh(c) \/ known' = known
         /\ shared => \/ UNCHANGED <<store, stored, tripped, overwritten>>
                      \/ Persist(Home[c])
<1> USE DEF breaker, repository, bounds, trip, seen
<1>0. read \in [Calls -> Snapshots] /\ known \in [Calls -> Times]
  BY Types
<1>1. CASE Refresh(c)
  BY <1>0, <1>1 DEF Refresh
<1>2. CASE BeforeCallClosed(c) \/ BeforeCallOpen(c) \/ BeforeCallHalfOpen(c) \/ BeforeCallRecovers(c)
  BY <1>0, <1>2
  DEF BeforeCallClosed, BeforeCallOpen, BeforeCallHalfOpen, BeforeCallRecovers, Forget
<1>3. CASE HalfOpenSaved(c) \/ ReportSaved(c) \/ SaveFails(c)
  BY <1>3 DEF HalfOpenSaved, ReportSaved, SaveFails
<1>4. CASE Resume(c) \/ HandlerEnds(c) \/ GiveUpWaiting(c) \/ ReportCancelled(c)
  BY <1>4 DEF Resume, HandlerEnds, GiveUpWaiting, ReportCancelled
<1>5. CASE Report(c)
  BY <1>5 DEF Report
<1>6. CASE RefreshFails(c)
  BY <1>0, <1>6 DEF RefreshFails, Forget
<1> QED BY <1>1, <1>2, <1>3, <1>4, <1>5, <1>6 DEF StepOf, Progress

\* With a repository: what is stored and what was read go on telling of the
\* opening in force.
LEMMA SharedTrip ==
  ASSUME TypeInv, BulkInv, LocalInv, TripInv, shared, NEW c \in Calls, StepOf(c)
  PROVE  StoreTells' /\ \A e \in Calls : ReadTells(e)'
<1>0. /\ StoreTells /\ \A e \in Calls : ReadTells(e)
      /\ now' = now /\ Home[c] \in Procs
  BY TripFrame, SnapType DEF TripInv
<1>1. StoreTells'
  <2>1. CASE Persist(Home[c])
    BY <1>0, <2>1, PersistTells
  <2>2. CASE UNCHANGED <<store, stored, tripped, overwritten>>
    BY <1>0, <2>2 DEF StoreTells, Passed
  <2> QED BY <2>1, <2>2, TripFrame
<1>2. ASSUME NEW e \in Calls \ {c} PROVE ReadTells(e)'
  <2>1. read'[e] = read[e] /\ known'[e] = known[e]
    BY TripFrame
  <2>2. pc'[e] = pc[e] \/ pc'[e] = "granted"
    BY OthersStay
  <2> QED BY <1>0, <2>1, <2>2 DEF ReadTells, Passed
<1>3. ReadTells(c)'
  <2>1. CASE Refresh(c)
    <3>1. /\ pc'[c] = "refreshing" /\ read'[c] = Refreshed(Home[c])
          /\ known'[c] = IF overwritten THEN None ELSE tripped
      BY <2>1, Types DEF Refresh
    <3>2. CASE overwritten
      BY <3>1, <3>2 DEF ReadTells, Passed
    <3>3. CASE ~overwritten /\ Passed(tripped)
      BY <1>0, <3>1, <3>3 DEF ReadTells, Passed
    <3>4. CASE stored /\ store.state = "open" /\ store.opened_at = tripped /\ ~overwritten
      BY <3>1, <3>4 DEF ReadTells, Refreshed
    <3> QED BY <1>0, <3>2, <3>3, <3>4 DEF StoreTells
  <2>2. CASE BeforeCallRecovers(c)
    <3>1. /\ pc'[c] = "half_opening" /\ known' = known /\ pc[c] = "refreshing"
          /\ read[c].state = "open" /\ now - read[c].opened_at >= Recovery
      BY <2>2, Types DEF BeforeCallRecovers, Enters, Snap, Recovered
    <3> QED BY <1>0, <3>1 DEF ReadTells, Passed
  <2>3. CASE pc'[c] \notin {"refreshing", "half_opening"}
    BY <2>3 DEF ReadTells
  <2> QED BY <2>1, <2>2, <2>3, OwnMove
<1> QED BY <1>1, <1>2, <1>3

\* Counting a result, without a repository: an opening is now, and the breaker
\* leaves OPEN for nothing else.
LEMMA ReportTells ==
  ASSUME TypeInv, NEW p \in Procs, tripped <= now, OnFailure(p) \/ OnSuccess(p),
         tripped' = Tripped(snapshot'[p]), now' = now,
         IF snapshot[p].state = "open" THEN snapshot[p].opened_at = tripped ELSE Passed(tripped)
  PROVE  /\ tripped' <= now
         /\ IF snapshot'[p].state = "open" THEN snapshot'[p].opened_at = tripped'
            ELSE Passed(tripped)'
<1>0. /\ snapshot \in [Procs -> Snapshots] /\ snapshot[p] \in Snapshots /\ deployment \in Deployments
      /\ now \in 0..MaxTime /\ now \in Times /\ now \in Int /\ tripped \in Int
      /\ Closed.state = "closed"
  <2>1. MaxTime \in Nat /\ None \in Int /\ tripped \in Times /\ now \in 0..MaxTime
    BY Types, Parameters
  <2>2. now \in Times /\ now \in Int /\ tripped \in Int
    BY <2>1 DEF Times
  <2> QED BY <2>2, Types, SnapshotForms
<1>1. CASE Open(p)
  <2> DEFINE x == [Closed EXCEPT !.state = "open", !.opened_at = now]
  <2>1. snapshot' = [snapshot EXCEPT ![p] = x]
    BY <1>1 DEF Open
  <2>2. x.state = "open" /\ x.opened_at = now
    BY <1>0, SnapshotForms DEF CircuitState
  <2> HIDE DEF x
  <2>3. snapshot'[p] = x
    BY <1>0, <2>1
  <2> QED BY <1>0, <2>2, <2>3 DEF Tripped
<1>2. CASE /\ snapshot'[p].state = snapshot[p].state
           /\ snapshot'[p].opened_at = snapshot[p].opened_at
  BY <1>0, <1>2 DEF Tripped, Passed
<1>3. CASE snapshot[p].state # "open" /\ snapshot'[p].state # "open"
  BY <1>0, <1>3 DEF Tripped, Passed
<1>4. ASSUME NEW n, snapshot' = [snapshot EXCEPT ![p] = [snapshot[p] EXCEPT !.failure_count = n]]
      PROVE  /\ snapshot'[p].state = snapshot[p].state
             /\ snapshot'[p].opened_at = snapshot[p].opened_at
  BY <1>0, <1>4 DEF Snapshots
<1>5. ASSUME NEW n, snapshot' = [snapshot EXCEPT ![p] = [snapshot[p] EXCEPT !.success_count = n]]
      PROVE  snapshot'[p].state = snapshot[p].state
  BY <1>0, <1>5 DEF Snapshots
<1>6. CASE OnFailure(p)
  BY <1>1, <1>2, <1>4, <1>6 DEF OnFailure
<1>7. CASE OnSuccess(p)
  <2>1. CASE snapshot[p].state = "half_open"
    <3>1. CASE snapshot[p].success_count + 1 >= SuccessThreshold
      <4>1. snapshot' = [snapshot EXCEPT ![p] = Closed]
        BY <1>7, <2>1, <3>1 DEF OnSuccess
      <4>2. snapshot'[p].state = "closed"
        BY <1>0, <4>1
      <4> QED BY <1>3, <2>1, <4>2
    <3>2. CASE ~(snapshot[p].success_count + 1 >= SuccessThreshold)
      <4>1. snapshot' = [snapshot EXCEPT ![p] =
                           [snapshot[p] EXCEPT !.success_count = snapshot[p].success_count + 1]]
        BY <1>7, <2>1, <3>2 DEF OnSuccess
      <4> QED BY <1>3, <1>5, <2>1, <4>1
    <3> QED BY <3>1, <3>2
  <2>2. CASE snapshot[p].state = "closed"
    <3>1. snapshot' = [snapshot EXCEPT ![p] = [snapshot[p] EXCEPT !.failure_count = 0]]
      BY <1>7, <2>2 DEF OnSuccess
    <3> QED BY <1>2, <1>4, <3>1
  <2>3. CASE snapshot[p].state = "open"
    BY <1>2, <1>7, <2>3 DEF OnSuccess
  <2> QED BY <1>7, <2>1, <2>2, <2>3 DEF OnSuccess
<1> QED BY <1>6, <1>7

\* Without a repository: the breaker of the one process in sight goes on
\* telling of its last opening.
LEMMA LocalTrip ==
  ASSUME TypeInv, BulkInv, LocalInv, TripInv, ~shared, NEW c \in Calls, StepOf(c)
  PROVE  tripped' <= now' /\ \A e \in Calls : BreakerTells(e)'
<1> USE DEF breaker, repository, bounds, trip, seen
<1>p. PICK p \in Procs : Home[c] = p
  BY SnapType
<1>0. /\ tripped <= now /\ now' = now /\ Home' = Home /\ lock = {}
      /\ snapshot \in [Procs -> Snapshots] /\ now \in 0..MaxTime /\ deployment \in Deployments
      /\ pc[c] \notin {"refreshing", "half_opening", "saving"}
      /\ IF snapshot[p].state = "open" THEN snapshot[p].opened_at = tripped ELSE Passed(tripped)
  BY <1>p, TripFrame, OwnMove, Types DEF TripInv, BreakerTells, LocalInv, Home
<1>1. \A e \in Calls : Home[e] = p
  BY <1>0, <1>p, LocalAssumption DEF LocalAssumption, shared, Home
<1>2. SUFFICES /\ tripped' <= now'
               /\ IF snapshot'[p].state = "open" THEN snapshot'[p].opened_at = tripped'
                  ELSE Passed(tripped)'
  BY <1>0, <1>1 DEF BreakerTells
<1>3. CASE UNCHANGED <<snapshot, tripped>>
  BY <1>0, <1>3 DEF Passed
<1>4. CASE Report(c)
  <2>1. (OnFailure(p) \/ OnSuccess(p)) /\ tripped' = Tripped(snapshot'[p])
    BY <1>4, <1>p DEF Report
  <2> QED BY <1>0, <2>1, ReportTells
<1>5. CASE BeforeCallClosed(c) \/ BeforeCallOpen(c) \/ BeforeCallHalfOpen(c)
  <2>1. snapshot' = [snapshot EXCEPT ![p] = snapshot[p]] /\ tripped' = tripped
    BY <1>5, <1>p DEF BeforeCallClosed, BeforeCallOpen, BeforeCallHalfOpen, Snap
  <2>2. snapshot' = snapshot
    BY <1>0, <2>1
  <2> QED BY <1>3, <2>1, <2>2
<1>6. CASE BeforeCallRecovers(c)
  <2> DEFINE x == [Closed EXCEPT !.state = "half_open", !.opened_at = Snap(c).opened_at]
  <2>1. /\ snapshot' = [snapshot EXCEPT ![p] = x] /\ tripped' = tripped
        /\ snapshot[p].state = "open" /\ now - snapshot[p].opened_at >= Recovery
    BY <1>6, <1>p DEF BeforeCallRecovers, Snap, Recovered
  <2>2. x.state = "half_open"
    BY <1>0, SnapType, SnapshotForms DEF CircuitState
  <2> HIDE DEF x
  <2>3. snapshot'[p] = x
    BY <1>0, <2>1
  <2> QED BY <1>0, <2>1, <2>2, <2>3 DEF Passed
<1>7. CASE Resume(c) \/ HandlerEnds(c) \/ GiveUpWaiting(c) \/ ReportCancelled(c)
  BY <1>3, <1>7 DEF Resume, HandlerEnds, GiveUpWaiting, ReportCancelled
<1> QED BY <1>0, <1>4, <1>5, <1>6, <1>7
  DEF StepOf, Progress, Refresh, HalfOpenSaved, ReportSaved, RefreshFails, SaveFails

\* Initially there was no opening.
LEMMA TripInit == Init => TripInv
<1> SUFFICES ASSUME Init PROVE TripInv
  OBVIOUS
<1>1. /\ deployment \in Deployments /\ Home \in [Calls -> Procs] /\ Closed.state = "closed"
      /\ tripped = None /\ now = 0 /\ snapshot = [p \in Procs |-> Closed]
      /\ pc = [c \in Calls |-> "new"]
  BY Parameters, SnapshotForms DEF Init
<1>2. Passed(tripped) /\ tripped <= now
  BY <1>1 DEF Passed, None
<1> QED BY <1>1, <1>2 DEF TripInv, StoreTells, ReadTells, BreakerTells

\* Every step keeps it: time only makes openings older, and a stored opening
\* does not expire before the recovery time is over.
LEMMA TripStep == TypeInv /\ BulkInv /\ LocalInv /\ TripInv /\ [Next]_vars => TripInv'
<1> SUFFICES ASSUME TypeInv, BulkInv, LocalInv, TripInv, [Next]_vars PROVE TripInv'
  OBVIOUS
<1> USE DEF breaker, repository, bounds, trip, seen
<1>t. now \in Int /\ tripped \in Int /\ Recovery \in Int /\ \A c \in Calls : known[c] \in Int
  BY Types, Parameters DEF Times, None
<1>1. ASSUME NEW c \in Calls, StepOf(c) PROVE TripInv'
  <2>1. shared' = shared
    BY <1>1, OwnMove DEF shared
  <2>2. CASE shared
    BY <1>1, <2>1, <2>2, SharedTrip DEF TripInv
  <2>3. CASE ~shared
    BY <1>1, <2>1, <2>3, LocalTrip DEF TripInv
  <2> QED BY <2>2, <2>3
<1>2. CASE Expire
  <2>1. UNCHANGED <<deployment, snapshot, read, known, pc, now, tripped, overwritten, store>>
    BY <1>2 DEF Expire
  <2>2. (store.state = "open" /\ store.opened_at = tripped) => Passed(tripped)
    BY <1>2, <1>t DEF Expire, Passed
  <2>3. StoreTells => StoreTells'
    BY <2>1, <2>2 DEF StoreTells, Passed
  <2>4. \A c \in Calls : (ReadTells(c) => ReadTells(c)') /\ (BreakerTells(c) => BreakerTells(c)')
    BY <2>1 DEF ReadTells, BreakerTells, Passed, Home
  <2> QED BY <2>1, <2>3, <2>4 DEF TripInv, shared
<1>3. CASE Tick
  <2>1. /\ UNCHANGED <<deployment, snapshot, read, known, pc, tripped, overwritten, store, stored>>
        /\ now' = now + 1
    BY <1>3 DEF Tick
  <2>2. (Passed(tripped) => Passed(tripped)') /\ \A c \in Calls : Passed(known[c]) => Passed(known[c])'
    BY <1>t, <2>1 DEF Passed
  <2>3. StoreTells => StoreTells'
    BY <2>1, <2>2 DEF StoreTells
  <2>4. \A c \in Calls : (ReadTells(c) => ReadTells(c)') /\ (BreakerTells(c) => BreakerTells(c)')
    BY <2>1, <2>2 DEF ReadTells, BreakerTells, Home
  <2> QED BY <1>t, <2>1, <2>3, <2>4 DEF TripInv, shared
<1>4. CASE UNCHANGED vars
  BY <1>4 DEF vars, TripInv, StoreTells, ReadTells, BreakerTells, Passed, shared, Home
<1> QED BY <1>1, <1>2, <1>3, <1>4 DEF Next, StepOf

\* A call that its own step lets in has found the recovery time over.
LEMMA AdmitsLate ==
  ASSUME TypeInv, BulkInv, LocalInv, TripInv, NEW c \in Calls, StepOf(c), Admits(c)
  PROVE  Passed(Heeded(c))
<1>0. pc \in [Calls -> Pcs]
  BY Types
<1>1. \/ BeforeCallClosed(c) \/ BeforeCallHalfOpen(c) \/ BeforeCallRecovers(c) \/ HalfOpenSaved(c)
  BY <1>0 DEF StepOf, Progress, Admits, BeforeCall, Refresh, BeforeCallOpen, Reject, Resume, HandlerEnds,
     Report, ReportSaved, GiveUpWaiting, RefreshFails, SaveFails, ReportCancelled
<1>2. CASE shared
  <2>1. ReadTells(c)
    BY <1>2 DEF TripInv
  <2>2. CASE HalfOpenSaved(c)
    BY <1>2, <2>1, <2>2 DEF HalfOpenSaved, ReadTells, Heeded
  <2>3. CASE BeforeCallClosed(c) \/ BeforeCallHalfOpen(c)
    BY <1>2, <2>1, <2>3 DEF BeforeCallClosed, BeforeCallHalfOpen, Enters, Snap, ReadTells, Heeded
  <2>4. CASE BeforeCallRecovers(c)
    BY <1>0, <1>2, <2>4 DEF BeforeCallRecovers, Admits, BeforeCall
  <2> QED BY <1>1, <2>2, <2>3, <2>4
<1>3. CASE ~shared
  <2>1. BreakerTells(c) /\ pc[c] # "half_opening" /\ Snap(c) = snapshot[Home[c]] /\ Heeded(c) = tripped
    BY <1>3 DEF TripInv, LocalInv, Snap, Heeded
  <2>2. CASE BeforeCallClosed(c) \/ BeforeCallHalfOpen(c)
    BY <2>1, <2>2 DEF BeforeCallClosed, BeforeCallHalfOpen, BreakerTells
  <2>3. CASE BeforeCallRecovers(c)
    BY <2>1, <2>3 DEF BeforeCallRecovers, BreakerTells, Recovered, Passed
  <2> QED BY <1>1, <2>1, <2>2, <2>3 DEF HalfOpenSaved
<1> QED BY <1>2, <1>3

\* After an opening that every process could know of, no call that read the
\* state since is let through before the recovery time is over.
THEOREM OpeningsAreHeeded == Spec => TripIsHeeded
<1>1. Init => TypeInv /\ BulkInv /\ LocalInv /\ TripInv
  BY TypeInvInit, BulkInit, ProbeInit, TripInit
<1>2. TypeInv /\ BulkInv /\ LocalInv /\ TripInv /\ [Next]_vars
        => (TypeInv /\ BulkInv /\ LocalInv /\ TripInv)'
  BY TypeInvStep, BulkStep, LocalStep, TripStep
<1>3. TypeInv /\ BulkInv /\ LocalInv /\ TripInv /\ [Next]_vars
        => [\A c \in Calls : Admits(c) => Heeded(c) = None \/ now - Heeded(c) >= Recovery]_vars
  <2> SUFFICES ASSUME TypeInv, BulkInv, LocalInv, TripInv, Next, NEW c \in Calls, Admits(c)
               PROVE  Passed(Heeded(c))
    BY DEF Passed
  <2> USE DEF breaker, repository, bounds, trip, seen
  <2>1. ASSUME NEW d \in Calls, StepOf(d) PROVE d = c
    BY <2>1, OthersStay DEF Admits, BeforeCall
  <2>2. ~(Expire \/ Tick)
    BY DEF Expire, Tick, Admits, BeforeCall
  <2> QED BY <2>1, <2>2, AdmitsLate DEF Next, StepOf
<1> QED BY <1>1, <1>2, <1>3, PTL DEF Spec, TripIsHeeded
====
