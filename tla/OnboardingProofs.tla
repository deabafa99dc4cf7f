---- MODULE OnboardingProofs ----
(***************************************************************************)
(* What sign-up guarantees for any number of requests, workers, copies of  *)
(* an event and faults.                                                    *)
(*                                                                         *)
(* Every message due, in work or held by a process is of a published event *)
(* (JobInv), so a crash brings nothing else back and loses nothing else.   *)
(* A request that began alone stays alone until it ends or the next begins   *)
(* (QuietInv).  A worker about to insert whose check no insert has         *)
(* outdated leaves room for one account more (RaceInv).                    *)
(***************************************************************************)
EXTENDS Onboarding, FiniteSetTheorems, TLAPS

JobInv ==
    /\ \A w \in Workers :
          /\ job[w].pc # "idle" => job[w].event \in published
          /\ job[w].pc = "delete" => job[w].existing \in Signups
          /\ \A m \in held[w] : m[1] \in published
    /\ \A m \in due : m[1] \in published

QuietInv ==
    \A s \in Signups : quiet[s] =>
        /\ \A r \in Signups \ {s} : ~Active(r)
        /\ at[s] \in {"publish", "done"} => kcUser = s /\ kcOrg = s /\ s \in members
        /\ at[s] = "done" => s \in published

\* The root accounts in the main database, one by one.
Rows == UNION {{<<s, n>> : n \in 1..accounts[s]} : s \in Signups}

RaceInv ==
    /\ IsFiniteSet(Rows)
    /\ Cardinality(Rows) <= 1 + races
    /\ \A w \in Workers \ stale : job[w].pc = "insert" => Cardinality(Rows) <= races

----------------------------------------------------------------------------
(* Types, and the messages of an event.                                     *)

TypeInv == TypeOK /\ JobInv

Jobs == [pc: {"idle", "check", "delete", "insert"},
         event: Signups \cup {NoOne}, copy: 0..MaxCopies, existing: Signups \cup {NoOne}]

\* Initially nothing is there.
LEMMA TypeInvInit == Init => TypeInv
<1> SUFFICES ASSUME Init PROVE TypeInv
  OBVIOUS
<1>1. MaxCopies \in Nat /\ MaxFaults \in Nat /\ NoOne \notin Signups
  BY OnboardingAssumption DEF OnboardingAssumption
<1>2. TypeOK
  BY <1>1 DEF Init, TypeOK, Idle
<1>3. JobInv
  BY DEF Init, Idle, JobInv
<1> QED BY <1>2, <1>3 DEF TypeInv

\* A step that leaves messages and handlers alone leaves what is known of them.
LEMMA JobFrame ==
  ASSUME JobInv, UNCHANGED <<job, held, due>>, published \subseteq published'
  PROVE  JobInv'
  BY DEF JobInv

\* A handler goes on with the same event.
LEMMA JobGoesOn ==
  ASSUME TypeInv, NEW w \in Workers, NEW j \in Jobs, job[w].pc # "idle",
         job' = [job EXCEPT ![w] = j],
         j.event = job[w].event, j.pc # "idle", j.pc = "delete" => j.existing \in Signups,
         UNCHANGED <<held, due, published>>
  PROVE  JobInv' /\ job' \in [Workers -> Jobs]
<1>1. job \in [Workers -> Jobs]
  BY DEF TypeInv, TypeOK, Jobs
<1>2. job' \in [Workers -> Jobs] /\ job'[w] = j /\ \A v \in Workers \ {w} : job'[v] = job[v]
  BY <1>1
<1> QED BY <1>2 DEF TypeInv, JobInv

\* The handler of an event is done with it, or the process is gone and what it
\* held comes again.
LEMMA JobEnds ==
  ASSUME TypeInv, NEW w \in Workers, job' = [job EXCEPT ![w] = Idle], published' = published,
         \/ UNCHANGED <<due, held>>
         \/ due' = due \cup held[w] /\ held' = [held EXCEPT ![w] = {}]
  PROVE  /\ JobInv' /\ job' \in [Workers -> Jobs] /\ due' \subseteq Messages
         /\ held' \in [Workers -> SUBSET Messages]
<1>0. MaxCopies \in Nat
  BY OnboardingAssumption DEF OnboardingAssumption
<1>1. /\ job \in [Workers -> Jobs] /\ due \subseteq Messages
      /\ held \in [Workers -> SUBSET Messages] /\ JobInv
  BY DEF TypeInv, TypeOK, Jobs
<1>2. Idle \in Jobs /\ Idle.pc = "idle"
  BY <1>0 DEF Idle, Jobs
<1>3. job' \in [Workers -> Jobs] /\ job'[w] = Idle /\ \A v \in Workers \ {w} : job'[v] = job[v]
  BY <1>1, <1>2
<1>4. /\ due' \subseteq due \cup held[w] /\ held' \in [Workers -> SUBSET Messages]
      /\ \A v \in Workers : held'[v] \subseteq held[v]
  BY <1>1
<1>5. JobInv'
  BY <1>1, <1>2, <1>3, <1>4 DEF JobInv
<1> QED BY <1>1, <1>3, <1>4, <1>5

\* Every step of a request keeps the types.
LEMMA RequestType ==
  ASSUME TypeInv, NEW s \in Signups, Begin(s) \/ Request(s) \/ Abandon(s)
  PROVE  TypeInv'
<1> USE DEF keycloak, events, database
<1>0. MaxFaults \in Nat /\ NoOne \notin Signups
  BY OnboardingAssumption DEF OnboardingAssumption
<1>t. TypeOK /\ JobInv
  BY DEF TypeInv
<1>j. UNCHANGED <<job, copies, due, held>> /\ published \subseteq published'
  BY DEF Begin, Request, ListOrgs, DeleteOrgs, ListUsers, DeleteUsers, CreateOrg, CreateUser, Join,
         Publish, Abandon
<1>a. \A call \in Calls \cup {"new", "done", "failed"} :
        Go(s, call) => at' \in [Signups -> Calls \cup {"new", "done", "failed"}]
  BY <1>t DEF Go, TypeOK
<1>c. {"list_orgs", "delete_orgs", "list_users", "delete_users",
       "create_org", "create_user", "join", "publish", "done", "failed"}
         \subseteq Calls \cup {"new", "done", "failed"}
  BY DEF Calls
<1>f. Fault => faults' \in 0..MaxFaults
  BY <1>0, <1>t DEF Fault, TypeOK
<1>1. TypeOK'
  <2>1. CASE Begin(s)
    BY <1>t, <1>a, <1>c, <2>1 DEF Begin, TypeOK
  <2>2. CASE ListOrgs(s)
    BY <1>t, <1>a, <1>c, <1>f, <2>2 DEF ListOrgs, TypeOK
  <2>3. CASE DeleteOrgs(s)
    BY <1>t, <1>a, <1>c, <1>f, <2>3 DEF DeleteOrgs, TypeOK
  <2>4. CASE ListUsers(s)
    BY <1>t, <1>a, <1>c, <1>f, <2>4 DEF ListUsers, TypeOK
  <2>5. CASE DeleteUsers(s)
    BY <1>t, <1>a, <1>c, <1>f, <2>5 DEF DeleteUsers, TypeOK
  <2>6. CASE CreateOrg(s)
    BY <1>t, <1>a, <1>c, <1>f, <2>6 DEF CreateOrg, TypeOK
  <2>7. CASE CreateUser(s)
    BY <1>t, <1>a, <1>c, <1>f, <2>7 DEF CreateUser, TypeOK
  <2>8. CASE Join(s)
    BY <1>t, <1>a, <1>c, <1>f, <2>8 DEF Join, AfterJoinError, TypeOK
  <2>9. CASE Publish(s)
    BY <1>t, <1>a, <1>c, <1>f, <2>9 DEF Publish, TypeOK
  <2>10. CASE Abandon(s)
    BY <1>t, <1>a, <1>c, <1>f, <2>10 DEF Abandon, TypeOK
  <2> QED BY <2>1, <2>2, <2>3, <2>4, <2>5, <2>6, <2>7, <2>8, <2>9, <2>10 DEF Request
<1> QED BY <1>t, <1>j, <1>1, JobFrame DEF TypeInv

\* What a step of a handler leaves alone, and the types of the rest.
LEMMA HandlerFrame ==
  ASSUME TypeInv, JobInv', job' \in [Workers -> Jobs], due' \subseteq Messages,
         held' \in [Workers -> SUBSET Messages],
         accounts' \in [Signups -> Nat], stale' \subseteq Workers, races' \in Nat,
         faults' \in 0..MaxFaults, dropped' \subseteq published,
         UNCHANGED <<testMode, at, found, keycloak, published, copies, quiet>>
  PROVE  TypeInv'
  BY DEF TypeInv, TypeOK, Jobs, keycloak

\* An insert keeps the types.
LEMMA InsertType ==
  ASSUME TypeInv, NEW w \in Workers, Insert(w)
  PROVE  accounts' \in [Signups -> Nat] /\ stale' \subseteq Workers /\ races' \in Nat
<1>1. job[w].event \in Signups
  BY DEF TypeInv, TypeOK, JobInv, Insert
<1> QED BY <1>1 DEF TypeInv, TypeOK, Insert

\* So does every step of relay and worker.
LEMMA WorkerType ==
  ASSUME TypeInv,
         \/ \E s \in Signups : Send(s)
         \/ \E w \in Workers : Handle(w) \/ HandlerFails(w) \/ AutoCommit(w) \/ Crash(w)
         \/ \E w \in Workers, s \in Signups : Deliver(w, s)
  PROVE  TypeInv'
<1> USE DEF keycloak, events, database
<1>0. MaxFaults \in Nat /\ MaxCopies \in Nat /\ NoOne \notin Signups
  BY OnboardingAssumption DEF OnboardingAssumption
<1>t. TypeOK /\ JobInv
  BY DEF TypeInv
<1>k. /\ job \in [Workers -> Jobs] /\ due \subseteq Messages
      /\ held \in [Workers -> SUBSET Messages]
      /\ copies \in [Signups -> 0..MaxCopies] /\ accounts \in [Signups -> Nat]
      /\ stale \subseteq Workers /\ races \in Nat /\ faults \in 0..MaxFaults
      /\ dropped \subseteq published /\ published \subseteq Signups
  BY <1>t DEF TypeOK, Jobs
<1>f. Fault => faults' \in 0..MaxFaults
  BY <1>0, <1>k DEF Fault
<1>1. ASSUME NEW s \in Signups, Send(s) PROVE TypeInv'
  <2> DEFINE m == <<s, copies[s] + 1>>
  <2>1. copies[s] + 1 \in 1..MaxCopies /\ s \in published
    BY <1>0, <1>1, <1>k DEF Send
  <2>2. m \in Messages /\ m[1] = s /\ due' = due \cup {m}
    BY <1>1, <2>1 DEF Send, Messages
  <2> HIDE DEF m
  <2>3. JobInv'
    <3>1. UNCHANGED <<job, held, published>>
      BY <1>1 DEF Send
    <3> QED BY <1>t, <2>1, <2>2, <3>1 DEF JobInv
  <2>4. copies' \in [Signups -> 0..MaxCopies] /\ due' \subseteq Messages
    BY <1>0, <1>1, <1>k, <2>1, <2>2 DEF Send
  <2> QED BY <1>1, <1>t, <2>3, <2>4 DEF Send, TypeInv, TypeOK
<1>2. ASSUME NEW w \in Workers, NEW s \in Signups, Deliver(w, s) PROVE TypeInv'
  <2>1. PICK n \in 1..MaxCopies :
          /\ <<s, n>> \in due /\ due' = due \ {<<s, n>>}
          /\ held' = [held EXCEPT ![w] = @ \cup {<<s, n>>}]
          /\ job' = [job EXCEPT ![w] = [pc |-> "check", event |-> s, copy |-> n, existing |-> NoOne]]
    BY <1>2 DEF Deliver
  <2> DEFINE j == [pc |-> "check", event |-> s, copy |-> n, existing |-> NoOne]
             m == <<s, n>>
  <2>2. j \in Jobs /\ j.pc = "check" /\ j.event = s /\ m[1] = s
    <3>1. n \in 0..MaxCopies
      BY <1>0
    <3> QED BY <3>1 DEF Jobs
  <2>3. /\ job' = [job EXCEPT ![w] = j] /\ m \in due /\ due' = due \ {m}
        /\ held' = [held EXCEPT ![w] = @ \cup {m}]
    BY <2>1
  <2> HIDE DEF j, m
  <2>4. job' \in [Workers -> Jobs] /\ job'[w] = j /\ \A v \in Workers \ {w} : job'[v] = job[v]
    BY <1>k, <2>2, <2>3
  <2>5. /\ held' \in [Workers -> SUBSET Messages] /\ held'[w] = held[w] \cup {m}
        /\ \A v \in Workers \ {w} : held'[v] = held[v]
    BY <1>k, <2>3
  <2>6. s \in published
    BY <1>t, <2>2, <2>3 DEF JobInv
  <2>7. JobInv'
    <3>1. published' = published
      BY <1>2 DEF Deliver
    <3> QED BY <1>t, <2>2, <2>3, <2>4, <2>5, <2>6, <3>1 DEF JobInv
  <2>8. due' \subseteq Messages
    BY <1>k, <2>3
  <2> QED BY <1>2, <1>k, <2>4, <2>5, <2>7, <2>8, HandlerFrame DEF Deliver
<1>3. ASSUME NEW w \in Workers, CheckFindsNone(w) \/ DeleteExisting(w) PROVE TypeInv'
  <2> DEFINE j == [job[w] EXCEPT !.pc = "insert"]
  <2>1. j \in Jobs /\ j.pc = "insert" /\ j.event = job[w].event /\ job' = [job EXCEPT ![w] = j]
    BY <1>3, <1>k DEF CheckFindsNone, DeleteExisting, Jobs
  <2> HIDE DEF j
  <2>2. JobInv' /\ job' \in [Workers -> Jobs]
    BY <1>3, <2>1, JobGoesOn DEF CheckFindsNone, DeleteExisting
  <2>3. accounts' \in [Signups -> Nat]
    <3>1. CASE DeleteExisting(w)
      <4>1. job[w].existing \in Signups
        BY <1>t, <3>1 DEF DeleteExisting, JobInv
      <4>2. accounts[job[w].existing] - 1 \in Nat
        BY <1>k, <3>1, <4>1 DEF DeleteExisting, StillThere
      <4> QED BY <1>k, <3>1, <4>1, <4>2 DEF DeleteExisting
    <3> QED BY <1>3, <1>k, <3>1 DEF CheckFindsNone
  <2> QED BY <1>3, <1>k, <2>2, <2>3, HandlerFrame DEF CheckFindsNone, DeleteExisting
<1>4. ASSUME NEW w \in Workers, CheckFindsOne(w) PROVE TypeInv'
  <2>1. PICK s \in Existing : job' = [job EXCEPT ![w].pc = "delete", ![w].existing = s]
    BY <1>4 DEF CheckFindsOne
  <2> DEFINE j == [job[w] EXCEPT !.pc = "delete", !.existing = s]
  <2>2. s \in Signups
    BY DEF Existing
  <2>3. /\ j \in Jobs /\ j.pc = "delete" /\ j.event = job[w].event /\ j.existing = s
        /\ job' = [job EXCEPT ![w] = j]
    BY <1>k, <2>1, <2>2 DEF Jobs
  <2> HIDE DEF j
  <2>4. JobInv' /\ job' \in [Workers -> Jobs]
    BY <1>4, <2>2, <2>3, JobGoesOn DEF CheckFindsOne
  <2> QED BY <1>4, <1>k, <2>4, HandlerFrame DEF CheckFindsOne
<1>5. ASSUME NEW w \in Workers, CommitAccount(w) PROVE TypeInv'
  <2>1. JobInv' /\ job' \in [Workers -> Jobs]
    BY <1>5, JobEnds DEF CommitAccount
  <2> QED BY <1>5, <1>k, <2>1, HandlerFrame, InsertType DEF CommitAccount
<1>6. ASSUME NEW w \in Workers, CheckRefuses(w) \/ DeleteExistingFails(w) \/ HandlerFails(w)
      PROVE  TypeInv'
  <2>1. job[w].pc # "idle" /\ Drop(w)
    BY <1>6 DEF CheckRefuses, DeleteExistingFails, HandlerFails
  <2>2. job[w].event \in published
    BY <1>t, <2>1 DEF JobInv
  <2>3. /\ JobInv' /\ job' \in [Workers -> Jobs] /\ due' \subseteq Messages
        /\ held' \in [Workers -> SUBSET Messages]
    <3>1. published' = published
      BY <2>1 DEF Drop
    <3> QED BY <2>1, <3>1, JobEnds DEF Drop
  <2>4. /\ accounts' \in [Signups -> Nat] /\ stale' \subseteq Workers /\ races' \in Nat
        /\ faults' \in 0..MaxFaults
    BY <1>6, <1>k, <1>f, InsertType DEF CheckRefuses, DeleteExistingFails, HandlerFails
  <2> QED BY <1>6, <1>k, <2>1, <2>2, <2>3, <2>4, HandlerFrame
    DEF CheckRefuses, DeleteExistingFails, HandlerFails, Drop
<1>7. ASSUME NEW w \in Workers, AutoCommit(w) PROVE TypeInv'
  <2>1. held' \in [Workers -> SUBSET Messages] /\ \A v \in Workers : held'[v] \subseteq held[v]
    BY <1>7, <1>k DEF AutoCommit
  <2>2. JobInv'
    BY <1>7, <1>t, <2>1 DEF AutoCommit, JobInv
  <2> QED BY <1>7, <1>k, <2>1, <2>2, HandlerFrame DEF AutoCommit
<1>8. ASSUME NEW w \in Workers, Crash(w) PROVE TypeInv'
  <2>1. /\ JobInv' /\ job' \in [Workers -> Jobs] /\ due' \subseteq Messages
        /\ held' \in [Workers -> SUBSET Messages]
    BY <1>8, JobEnds DEF Crash, ComeAgain
  <2>2. LostInWork(w) \subseteq published
    BY <1>t DEF LostInWork, JobInv
  <2> QED BY <1>8, <1>k, <1>f, <2>1, <2>2, HandlerFrame DEF Crash
<1> QED BY <1>1, <1>2, <1>3, <1>4, <1>5, <1>6, <1>7, <1>8 DEF Handle

\* Every step keeps the types.
LEMMA TypeInvStep == TypeInv /\ [Next]_vars => TypeInv'
<1>1. ASSUME TypeInv, UNCHANGED vars PROVE TypeInv'
  BY <1>1, JobFrame DEF vars, TypeInv, TypeOK
<1> QED BY <1>1, RequestType, WorkerType DEF Next

\* Type correctness: no row is deleted twice, and only published events are
\* dropped or lost, whatever a crash brings back.
THEOREM OnboardingTypeCorrect == Spec => []TypeOK
<1>1. TypeInv => TypeOK
  BY DEF TypeInv
<1> QED BY <1>1, TypeInvInit, TypeInvStep, PTL DEF Spec

----------------------------------------------------------------------------
(* A request that is alone.                                                 *)

\* Initially no request has begun.
LEMMA QuietInit == Init => QuietInv
  BY DEF Init, QuietInv

\* Steps outside the API leave a quiet request alone.
LEMMA QuietFrame ==
  ASSUME QuietInv, UNCHANGED <<at, quiet, kcOrg, kcUser, members>>, published \subseteq published'
  PROVE  QuietInv'
  BY DEF QuietInv, Active

\* A step of request s: the others stay where they are, and Keycloak changes
\* only if s is active, so no other request is quiet.
LEMMA QuietMove ==
  ASSUME TypeInv, QuietInv, NEW s \in Signups, Active(s), quiet' = quiet,
         NEW call, Go(s, call), published \subseteq published',
         (call \in {"publish", "done"} /\ quiet[s]) =>
             kcUser' = s /\ kcOrg' = s /\ s \in members',
         call = "done" => s \in published'
  PROVE  QuietInv'
<1>1. at'[s] = call /\ \A r \in Signups \ {s} : at'[r] = at[r]
  BY DEF Go, TypeInv, TypeOK
<1>2. ASSUME NEW q \in Signups, quiet[q] PROVE q = s
  BY <1>2 DEF QuietInv
<1> QED BY <1>1, <1>2 DEF QuietInv, Active

\* Every step of a request keeps quiet requests whole.
LEMMA QuietRequest ==
  ASSUME TypeInv, QuietInv, NEW s \in Signups, Begin(s) \/ Request(s) \/ Abandon(s)
  PROVE  QuietInv'
<1> USE DEF keycloak, events, database
<1>1. CASE Begin(s)
  <2>1. at'[s] = "list_orgs" /\ \A r \in Signups \ {s} : at'[r] = at[r]
    BY <1>1 DEF Begin, Go, TypeInv, TypeOK
  <2>2. \A q \in Signups : quiet'[q] => q = s /\ \A r \in Signups : ~Active(r)
    BY <1>1 DEF Begin
  <2> QED BY <2>1, <2>2 DEF QuietInv, Active
<1>2. CASE Publish(s)
  <2>1. Active(s) /\ quiet' = quiet /\ published \subseteq published' /\ UNCHANGED <<kcOrg, kcUser, members>>
    BY <1>2 DEF Publish, Active, Calls
  <2>2. quiet[s] => kcUser = s /\ kcOrg = s /\ s \in members
    BY <1>2 DEF Publish, QuietInv
  <2>3. CASE published' = published \cup {s} /\ Go(s, "done")
    BY <2>1, <2>2, <2>3, QuietMove
  <2>4. CASE Go(s, "failed")
    BY <2>1, <2>4, QuietMove
  <2> QED BY <1>2, <2>3, <2>4 DEF Publish
<1>3. CASE Join(s)
  <2>1. Active(s) /\ quiet' = quiet /\ published' = published
    BY <1>3 DEF Join, Active, Calls
  <2>2. CASE kcOrg = s /\ kcUser = s /\ members' = members \cup {s} /\ Go(s, "publish")
    <3>1. kcOrg' = s /\ kcUser' = s /\ s \in members'
      BY <1>3, <2>2 DEF Join
    <3> QED BY <2>1, <2>2, <3>1, QuietMove
  <2>3. CASE Go(s, AfterJoinError)
    BY <2>1, <2>3, QuietMove DEF AfterJoinError
  <2> QED BY <1>3, <2>2, <2>3 DEF Join
<1>4. CASE ~Begin(s) /\ ~Publish(s) /\ ~Join(s)
  <2>1. Active(s) /\ quiet' = quiet /\ published' = published
    BY <1>4 DEF Request, ListOrgs, DeleteOrgs, ListUsers, DeleteUsers, CreateOrg, CreateUser,
       Abandon, Active, Calls
  <2>2. PICK call \in {"list_users", "delete_orgs", "create_org", "delete_users", "create_user",
                       "join", "failed"} : Go(s, call)
    BY <1>4 DEF Request, ListOrgs, DeleteOrgs, ListUsers, DeleteUsers, CreateOrg, CreateUser, Abandon
  <2> QED BY <2>1, <2>2, QuietMove
<1> QED BY <1>1, <1>2, <1>3, <1>4

\* So does every other step.
LEMMA QuietStep == TypeInv /\ QuietInv /\ [Next]_vars => QuietInv'
<1> SUFFICES ASSUME TypeInv, QuietInv, [Next]_vars PROVE QuietInv'
  OBVIOUS
<1> USE DEF keycloak, events, database
<1>1. CASE \/ \E s \in Signups : Send(s)
           \/ \E w \in Workers : Handle(w) \/ HandlerFails(w) \/ AutoCommit(w) \/ Crash(w)
           \/ \E w \in Workers, s \in Signups : Deliver(w, s)
           \/ UNCHANGED vars
  <2>1. UNCHANGED <<at, quiet, kcOrg, kcUser, members, published>>
    BY <1>1 DEF Send, Handle, HandlerFails, Crash, Deliver, CheckFindsNone, CheckRefuses,
       CheckFindsOne, DeleteExisting, DeleteExistingFails, CommitAccount, AutoCommit, Drop, vars
  <2> QED BY <2>1, QuietFrame
<1> QED BY <1>1, QuietRequest DEF Next

\* A sign-up that succeeds while no other is active leaves its user, its
\* organization, the membership and the event, whatever half-done requests had
\* left in Keycloak and whichever calls failed before.
THEOREM QuietSignupIsWhole == Spec => []SignupIsWhole
<1>1. Init => TypeInv /\ QuietInv
  BY TypeInvInit, QuietInit
<1>2. TypeInv /\ QuietInv /\ [Next]_vars => (TypeInv /\ QuietInv)'
  BY TypeInvStep, QuietStep
<1>3. QuietInv => SignupIsWhole
  BY DEF QuietInv, SignupIsWhole
<1> QED BY <1>1, <1>2, <1>3, PTL DEF Spec

----------------------------------------------------------------------------
(* Root accounts and outdated checks.                                       *)

\* Which rows there are.
LEMMA RowsOf ==
  ASSUME NEW x
  PROVE  x \in Rows <=> \E s \in Signups : \E n \in 1..accounts[s] : x = <<s, n>>
  BY DEF Rows

\* The same after a step.
LEMMA RowsOfNext ==
  ASSUME NEW x
  PROVE  x \in Rows' <=> \E s \in Signups : \E n \in 1..accounts'[s] : x = <<s, n>>
  BY DEF Rows

\* An insert adds one row.
LEMMA InsertRow ==
  ASSUME TypeOK, IsFiniteSet(Rows), NEW s \in Signups,
         accounts' = [accounts EXCEPT ![s] = @ + 1]
  PROVE  IsFiniteSet(Rows') /\ Cardinality(Rows') <= Cardinality(Rows) + 1
<1> DEFINE row == <<s, accounts[s] + 1>>
<1>1. accounts \in [Signups -> Nat]
  BY DEF TypeOK
<1>2. accounts'[s] = accounts[s] + 1 /\ \A r \in Signups \ {s} : accounts'[r] = accounts[r]
  BY <1>1
<1>3. Rows' \subseteq Rows \union {row}
  <2> SUFFICES ASSUME NEW x \in Rows', x # row PROVE x \in Rows
    OBVIOUS
  <2>1. PICK r \in Signups : \E n \in 1..accounts'[r] : x = <<r, n>>
    BY RowsOfNext
  <2>2. PICK n \in 1..accounts'[r] : x = <<r, n>>
    BY <2>1
  <2>3. n \in 1..accounts[r]
    BY <1>1, <1>2, <2>2
  <2> QED BY <2>2, <2>3, RowsOf
<1> HIDE DEF row
<1>4. IsFiniteSet(Rows \union {row}) /\ Cardinality(Rows \union {row}) <= Cardinality(Rows) + 1
  <2>1. Cardinality(Rows) \in Nat
    BY FS_CardinalityType
  <2>2. /\ IsFiniteSet(Rows \union {row})
        /\ Cardinality(Rows \union {row}) \in {Cardinality(Rows), Cardinality(Rows) + 1}
    BY FS_AddElement
  <2> QED BY <2>1, <2>2
<1>5. IsFiniteSet(Rows') /\ Cardinality(Rows') <= Cardinality(Rows \union {row})
  BY <1>3, <1>4, FS_Subset
<1>6. Cardinality(Rows') \in Nat /\ Cardinality(Rows) \in Nat /\ Cardinality(Rows \union {row}) \in Nat
  BY <1>4, <1>5, FS_CardinalityType
<1> QED BY <1>4, <1>5, <1>6

\* A deletion takes one away.
LEMMA DeleteRow ==
  ASSUME TypeOK, IsFiniteSet(Rows), NEW s \in Signups, accounts[s] > 0,
         accounts' = [accounts EXCEPT ![s] = @ - 1]
  PROVE  IsFiniteSet(Rows') /\ Cardinality(Rows') <= Cardinality(Rows) - 1
<1> DEFINE row == <<s, accounts[s]>>
<1>1. accounts \in [Signups -> Nat]
  BY DEF TypeOK
<1>2. accounts'[s] = accounts[s] - 1 /\ \A r \in Signups \ {s} : accounts'[r] = accounts[r]
  BY <1>1
<1>3. row \in Rows
  <2>1. accounts[s] \in 1..accounts[s]
    BY <1>1
  <2> QED BY <2>1, RowsOf
<1>4. Rows' \subseteq Rows \ {row}
  <2> SUFFICES ASSUME NEW x \in Rows' PROVE x \in Rows /\ x # row
    OBVIOUS
  <2>1. PICK r \in Signups : \E n \in 1..accounts'[r] : x = <<r, n>>
    BY RowsOfNext
  <2>2. PICK n \in 1..accounts'[r] : x = <<r, n>>
    BY <2>1
  <2>3. n \in 1..accounts[r] /\ (r = s => n # accounts[s])
    BY <1>1, <1>2
  <2> QED BY <2>2, <2>3, RowsOf
<1> HIDE DEF row
<1>5. IsFiniteSet(Rows \ {row}) /\ Cardinality(Rows \ {row}) = Cardinality(Rows) - 1
  BY <1>3, FS_RemoveElement
<1> QED BY <1>4, <1>5, FS_Subset

\* Initially there is no account.
LEMMA RaceInit == Init => RaceInv
<1> SUFFICES ASSUME Init PROVE RaceInv
  OBVIOUS
<1>1. Rows = {}
  BY DEF Init, Rows
<1>2. IsFiniteSet({}) /\ Cardinality({}) = 0
  BY FS_EmptySet
<1> QED BY <1>1, <1>2 DEF Init, Idle, RaceInv

\* Steps that leave the accounts alone and bring no handler before its insert.
LEMMA RaceFrame ==
  ASSUME RaceInv, UNCHANGED <<accounts, races>>,
         \A w \in Workers \ stale' :
             job'[w].pc = "insert" => w \notin stale /\ job[w].pc = "insert"
  PROVE  RaceInv'
<1>1. Rows' = Rows
  BY DEF Rows
<1> QED BY <1>1 DEF RaceInv

\* Every step of a handler keeps the count.
LEMMA RaceHandler ==
  ASSUME TypeInv, RaceInv, NEW w \in Workers,
         Handle(w) \/ HandlerFails(w) \/ AutoCommit(w) \/ Crash(w)
  PROVE  RaceInv'
<1> USE DEF keycloak, events, database
<1>k. /\ job \in [Workers -> Jobs] /\ races \in Nat /\ TypeOK /\ JobInv
      /\ IsFiniteSet(Rows) /\ Cardinality(Rows) \in Nat /\ Cardinality(Rows) <= 1 + races
  BY FS_CardinalityType DEF TypeInv, TypeOK, Jobs, RaceInv
<1>o. ASSUME NEW j, job' = [job EXCEPT ![w] = j]
      PROVE  job'[w] = j /\ \A v \in Workers \ {w} : job'[v] = job[v]
  BY <1>k, <1>o
<1>1. CASE CheckFindsNone(w)
  <2>1. Rows' = {}
    <3>1. \A s \in Signups : accounts'[s] = 0
      BY <1>1, <1>k DEF CheckFindsNone, NoAccount, Existing, TypeOK
    <3>2. \A s \in Signups : 1..accounts'[s] = {}
      BY <3>1
    <3> QED BY <3>2, RowsOfNext
  <2>2. IsFiniteSet({}) /\ Cardinality({}) = 0
    BY FS_EmptySet
  <2> QED BY <1>1, <1>k, <2>1, <2>2 DEF CheckFindsNone, RaceInv
<1>2. CASE CheckRefuses(w) \/ DeleteExistingFails(w) \/ Crash(w)
  <2>1. job' = [job EXCEPT ![w] = Idle] /\ UNCHANGED <<accounts, races, stale>>
    BY <1>2 DEF CheckRefuses, DeleteExistingFails, Crash, Drop
  <2>2. Idle.pc # "insert"
    BY DEF Idle
  <2> QED BY <1>o, <2>1, <2>2, RaceFrame
<1>3. CASE CheckFindsOne(w)
  <2>1. PICK s \in Existing : job' = [job EXCEPT ![w].pc = "delete", ![w].existing = s]
    BY <1>3 DEF CheckFindsOne
  <2> DEFINE j == [job[w] EXCEPT !.pc = "delete", !.existing = s]
  <2>2. j.pc = "delete" /\ job' = [job EXCEPT ![w] = j]
    BY <1>k, <2>1 DEF Jobs
  <2> HIDE DEF j
  <2> QED BY <1>3, <1>o, <2>2, RaceFrame DEF CheckFindsOne
<1>4. CASE DeleteExisting(w)
  <2>1. job[w].existing \in Signups
    BY <1>4, <1>k DEF DeleteExisting, JobInv
  <2>2. IsFiniteSet(Rows') /\ Cardinality(Rows') <= Cardinality(Rows) - 1
    BY <1>4, <1>k, <2>1, DeleteRow DEF DeleteExisting, StillThere
  <2>3. Cardinality(Rows') \in Nat
    BY <2>2, FS_CardinalityType
  <2>4. Cardinality(Rows') <= races /\ races' = races
    BY <1>4, <1>k, <2>2, <2>3 DEF DeleteExisting
  <2> QED BY <1>k, <2>2, <2>3, <2>4 DEF RaceInv
<1>5. ASSUME Insert(w), NEW j, job' = [job EXCEPT ![w] = j], j.pc # "insert" PROVE RaceInv'
  <2>1. job[w].event \in Signups
    BY <1>5, <1>k DEF Insert, JobInv, TypeOK
  <2>2. IsFiniteSet(Rows') /\ Cardinality(Rows') <= Cardinality(Rows) + 1
    BY <1>5, <1>k, <2>1, InsertRow DEF Insert
  <2>3. Cardinality(Rows') \in Nat
    BY <2>2, FS_CardinalityType
  <2>4. Cardinality(Rows') <= 1 + races'
    <3>1. CASE w \in stale
      BY <1>5, <1>k, <2>2, <2>3, <3>1 DEF Insert
    <3>2. CASE w \notin stale
      <4>1. Cardinality(Rows) <= races /\ races' = races
        BY <1>5, <3>2 DEF Insert, RaceInv
      <4> QED BY <1>k, <2>2, <2>3, <4>1
    <3> QED BY <3>1, <3>2
  <2>5. \A v \in Workers \ stale' : job'[v].pc # "insert"
    BY <1>5, <1>o DEF Insert
  <2> QED BY <2>2, <2>4, <2>5 DEF RaceInv
<1>6. CASE CommitAccount(w)
  <2>1. Insert(w) /\ job' = [job EXCEPT ![w] = Idle] /\ Idle.pc # "insert"
    BY <1>6 DEF CommitAccount, Idle
  <2> QED BY <1>5, <2>1
<1>7. CASE HandlerFails(w)
  <2>1. job' = [job EXCEPT ![w] = Idle] /\ Idle.pc # "insert"
    BY <1>7 DEF HandlerFails, Drop, Idle
  <2>2. CASE Insert(w)
    BY <1>5, <2>1, <2>2
  <2>3. CASE UNCHANGED <<accounts, stale, races>>
    BY <1>o, <2>1, <2>3, RaceFrame
  <2> QED BY <1>7, <2>2, <2>3 DEF HandlerFails
<1>8. CASE AutoCommit(w)
  BY <1>8, RaceFrame DEF AutoCommit
<1> QED BY <1>1, <1>2, <1>3, <1>4, <1>6, <1>7, <1>8 DEF Handle

\* So does every other step.
LEMMA RaceStep == TypeInv /\ RaceInv /\ [Next]_vars => RaceInv'
<1> SUFFICES ASSUME TypeInv, RaceInv, [Next]_vars PROVE RaceInv'
  OBVIOUS
<1> USE DEF keycloak, events, database
<1>1. CASE \/ \E s \in Signups : Begin(s) \/ Request(s) \/ Abandon(s) \/ Send(s)
           \/ UNCHANGED vars
  <2>1. UNCHANGED <<accounts, races, stale, job>>
    BY <1>1 DEF Begin, Request, ListOrgs, DeleteOrgs, ListUsers, DeleteUsers, CreateOrg,
       CreateUser, Join, Publish, Abandon, Send, vars
  <2> QED BY <2>1, RaceFrame
<1>2. ASSUME NEW w \in Workers, NEW s \in Signups, Deliver(w, s) PROVE RaceInv'
  <2>0. PICK n \in 1..MaxCopies :
          job' = [job EXCEPT ![w] = [pc |-> "check", event |-> s, copy |-> n, existing |-> NoOne]]
    BY <1>2 DEF Deliver
  <2> DEFINE j == [pc |-> "check", event |-> s, copy |-> n, existing |-> NoOne]
  <2>1. j.pc = "check" /\ job' = [job EXCEPT ![w] = j] /\ job \in [Workers -> Jobs]
    BY <2>0 DEF Idle, TypeInv, TypeOK, Jobs
  <2> HIDE DEF j
  <2>2. job'[w] = j /\ \A v \in Workers \ {w} : job'[v] = job[v]
    BY <2>1
  <2> QED BY <1>2, <2>1, <2>2, RaceFrame DEF Deliver
<1> QED BY <1>1, <1>2, RaceHandler DEF Next

\* However many workers, deliveries and crashes: the root accounts for one
\* address outnumber one by at most the inserts whose check another insert had
\* outdated; nothing else duplicates an account.
THEOREM OnlyRacesDuplicate == Spec => []OneRootAccount
<1>1. Init => TypeInv /\ RaceInv
  BY TypeInvInit, RaceInit
<1>2. TypeInv /\ RaceInv /\ [Next]_vars => (TypeInv /\ RaceInv)'
  BY TypeInvStep, RaceStep
<1>3. RaceInv => OneRootAccount
  BY DEF RaceInv, OneRootAccount, Total, Rows
<1> QED BY <1>1, <1>2, <1>3, PTL DEF Spec
====
