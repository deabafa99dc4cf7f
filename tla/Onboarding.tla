---- MODULE Onboarding ----
(***************************************************************************)
(* Sign-up of a root account, across the services that take part: the API  *)
(* creates an organization and a user in Keycloak and publishes a          *)
(* UserDirectoryCreatedEvent through the outbox; a worker handles it and   *)
(* creates tenant and user in the main database, with two more events in   *)
(* the same transaction.  Every request is for one e-mail address and one  *)
(* organization name, so that the requests meet.  Outbox and consumer are  *)
(* here what OutboxRelay and EventConsumer make of them: an event is sent  *)
(* at least once; the client of a worker process commits by itself what    *)
(* the process has taken, so after a crash a message may come again,       *)
(* handled or not, and the one in work may be lost; an event is dropped    *)
(* after an error (retry_enabled is off by default).                       *)
(***************************************************************************)
EXTENDS Integers, FiniteSets

CONSTANTS
    Signups,            \* requests of POST sign-up; each names what it creates
    Workers,            \* worker processes, each handling one message at a time
    NoOne,              \* nothing found, nobody there
    TestModes,          \* values of SIGNUP_TEST_MODE considered
    MaxCopies,          \* bound: messages the relay sends for one event
    MaxMessages,        \* bound: messages it sends in all
    MaxFaults           \* bound: failing calls and crashes

ASSUME OnboardingAssumption ==
    /\ NoOne \notin Signups
    /\ TestModes \subseteq BOOLEAN
    /\ {MaxCopies, MaxMessages, MaxFaults} \subseteq Nat

VARIABLES
    testMode,           \* SIGNUP_TEST_MODE, fixed
    at,                 \* at[s]: the call a request makes next
    found,              \* found[s]: what its last listing returned
    kcOrg, kcUser,      \* Keycloak: who created the organization of that name,
                        \* the user with that address
    members,            \* Keycloak: the requests whose user is in its organization
    published,          \* events committed to the outbox
    copies,             \* copies[s]: messages sent for the event
    due,                \* messages that wait for a handler
    held,               \* held[w]: messages taken by w, their offsets not committed
    job,                \* job[w]: [pc, event, copy, existing] of
                        \* _create_root_account_from_directory
    accounts,           \* accounts[s]: root accounts in the main database built
                        \* from the event of s
    dropped,            \* history: events given up after an error, or lost with
                        \* a process that had their offset committed
    quiet,              \* history: no other request was active since s began
    stale,              \* history: workers whose check an insert has outdated
    races,              \* history: inserts after an outdated check
    faults

vars == <<testMode, at, found, kcOrg, kcUser, members, published, copies, due,
          held, job, accounts, dropped, quiet, stale, races, faults>>

keycloak == <<kcOrg, kcUser, members>>
events == <<published, copies, due, held, dropped>>
database == <<job, accounts, stale, races>>

Calls == {"list_orgs", "delete_orgs", "list_users", "delete_users",
          "create_org", "create_user", "join", "publish"}

\* The n-th message sent for an event.
Messages == Signups \X (1..MaxCopies)

TypeOK ==
    /\ testMode \in TestModes
    /\ at \in [Signups -> Calls \cup {"new", "done", "failed"}]
    /\ found \in [Signups -> Signups \cup {NoOne}]
    /\ {kcOrg, kcUser} \subseteq Signups \cup {NoOne}
    /\ members \subseteq Signups
    /\ published \subseteq Signups /\ dropped \subseteq published
    /\ copies \in [Signups -> 0..MaxCopies]
    /\ due \subseteq Messages
    /\ held \in [Workers -> SUBSET Messages]
    /\ job \in [Workers -> [pc: {"idle", "check", "delete", "insert"},
                            event: Signups \cup {NoOne}, copy: 0..MaxCopies,
                            existing: Signups \cup {NoOne}]]
    /\ accounts \in [Signups -> Nat]
    /\ stale \subseteq Workers /\ races \in Nat
    /\ quiet \in [Signups -> BOOLEAN] /\ faults \in 0..MaxFaults

Idle == [pc |-> "idle", event |-> NoOne, copy |-> 0, existing |-> NoOne]

Init ==
    /\ testMode \in TestModes
    /\ at = [s \in Signups |-> "new"]
    /\ found = [s \in Signups |-> NoOne]
    /\ kcOrg = NoOne /\ kcUser = NoOne /\ members = {}
    /\ published = {} /\ dropped = {}
    /\ copies = [s \in Signups |-> 0]
    /\ due = {}
    /\ held = [w \in Workers |-> {}]
    /\ job = [w \in Workers |-> Idle]
    /\ accounts = [s \in Signups |-> 0]
    /\ quiet = [s \in Signups |-> FALSE]
    /\ stale = {} /\ races = 0 /\ faults = 0

-----------------------------------------------------------------------------
(* KeycloakIamService._create_directory_user *)

Active(s) == at[s] \in Calls

Go(s, call) == at' = [at EXCEPT ![s] = call]

Fault == faults < MaxFaults /\ faults' = faults + 1

Begin(s) ==
    /\ at[s] = "new"
    /\ Go(s, "list_orgs")
    /\ quiet' = [q \in Signups |-> q = s /\ \A r \in Signups : ~Active(r)]
    /\ UNCHANGED <<testMode, found, keycloak, events, database, faults>>

\* A listing that fails is reported and returns []; then the deletion is skipped.
ListOrgs(s) ==
    /\ at[s] = "list_orgs"
    /\ \/ found' = [found EXCEPT ![s] = kcOrg] /\ UNCHANGED faults
       \/ found' = [found EXCEPT ![s] = NoOne] /\ Fault
    /\ Go(s, IF found'[s] = NoOne THEN "list_users" ELSE "delete_orgs")
    /\ UNCHANGED <<testMode, keycloak, events, database, quiet>>

\* The organization may be gone or the call fail: delete_organizations returns
\* False and nobody looks.
DeleteOrgs(s) ==
    /\ at[s] = "delete_orgs"
    /\ \/ /\ kcOrg = found[s]
          /\ kcOrg' = NoOne /\ members' = members \ {found[s]}
          /\ UNCHANGED faults
       \/ kcOrg # found[s] /\ UNCHANGED <<kcOrg, members, faults>>
       \/ Fault /\ UNCHANGED <<kcOrg, members>>
    /\ Go(s, "list_users")
    /\ UNCHANGED <<testMode, found, kcUser, events, database, quiet>>

\* a_get_users is called directly: an error leaves the request.
ListUsers(s) ==
    /\ at[s] = "list_users"
    /\ \/ /\ found' = [found EXCEPT ![s] = kcUser]
          /\ Go(s, IF kcUser = NoOne THEN "create_org" ELSE "delete_users")
          /\ UNCHANGED faults
       \/ Fault /\ Go(s, "failed") /\ UNCHANGED found
    /\ UNCHANGED <<testMode, keycloak, events, database, quiet>>

DeleteUsers(s) ==
    /\ at[s] = "delete_users"
    /\ \/ /\ kcUser = found[s]
          /\ kcUser' = NoOne /\ members' = members \ {found[s]}
          /\ UNCHANGED faults
       \/ kcUser # found[s] /\ UNCHANGED <<kcUser, members, faults>>
       \/ Fault /\ UNCHANGED <<kcUser, members>>
    /\ Go(s, "create_org")
    /\ UNCHANGED <<testMode, found, kcOrg, events, database, quiet>>

\* Keycloak refuses a second organization of the same name.  A call that fails
\* may have been carried out; nothing that was created is taken back.
CreateOrg(s) ==
    /\ at[s] = "create_org"
    /\ \/ kcOrg = NoOne /\ kcOrg' = s /\ Go(s, "create_user") /\ UNCHANGED faults
       \/ kcOrg # NoOne /\ Go(s, "failed") /\ UNCHANGED <<kcOrg, faults>>
       \/ /\ Fault /\ Go(s, "failed")
          /\ kcOrg' \in {kcOrg, IF kcOrg = NoOne THEN s ELSE kcOrg}
    /\ UNCHANGED <<testMode, found, kcUser, members, events, database, quiet>>

\* exist_ok=False: a user with that address makes a_create_user raise.
CreateUser(s) ==
    /\ at[s] = "create_user"
    /\ \/ kcUser = NoOne /\ kcUser' = s /\ Go(s, "join") /\ UNCHANGED faults
       \/ kcUser # NoOne /\ Go(s, "failed") /\ UNCHANGED <<kcUser, faults>>
       \/ /\ Fault /\ Go(s, "failed")
          /\ kcUser' \in {kcUser, IF kcUser = NoOne THEN s ELSE kcUser}
    /\ UNCHANGED <<testMode, found, kcOrg, members, events, database, quiet>>

\* Mutant: an error of add_user_to_organization is only reported.
AfterJoinErrorGoesOn == "publish"

\* The error leaves the request.
AfterJoinError == "failed"

\* add_user_to_organization: both must (still) exist.
Join(s) ==
    /\ at[s] = "join"
    /\ \/ /\ kcOrg = s /\ kcUser = s
          /\ members' = members \cup {s}
          /\ Go(s, "publish") /\ UNCHANGED faults
       \/ /\ ~(kcOrg = s /\ kcUser = s)
          /\ Go(s, AfterJoinError) /\ UNCHANGED <<members, faults>>
       \/ Fault /\ Go(s, AfterJoinError) /\ UNCHANGED members
    /\ UNCHANGED <<testMode, found, kcOrg, kcUser, events, database, quiet>>

\* publish_event with a session of its own: INSERT into the outbox and commit.
\* An error is reported and raised, user and organization stay.
Publish(s) ==
    /\ at[s] = "publish"
    /\ \/ published' = published \cup {s} /\ Go(s, "done") /\ UNCHANGED faults
       \/ Fault /\ Go(s, "failed") /\ published' \in {published, published \cup {s}}
    /\ UNCHANGED <<testMode, found, keycloak, copies, due, held, dropped, database, quiet>>

\* The API process dies; the client may send the next request.
Abandon(s) ==
    /\ Active(s)
    /\ Fault /\ Go(s, "failed")
    /\ UNCHANGED <<testMode, found, keycloak, events, database, quiet>>

-----------------------------------------------------------------------------
(* InternalUserSetupHandler, AdminService._create_root_account_from_directory *)

\* The relay sends the event, once or more than once.
Send(s) ==
    /\ s \in published /\ copies[s] < MaxCopies
    /\ Cardinality({m \in Messages : m[2] <= copies[m[1]]}) < MaxMessages
    /\ copies' = [copies EXCEPT ![s] = @ + 1]
    /\ due' = due \cup {<<s, copies[s] + 1>>}
    /\ UNCHANGED <<testMode, at, found, keycloak, published, held, dropped, database,
                   quiet, faults>>

Deliver(w, s) ==
    /\ job[w].pc = "idle"
    /\ \E n \in 1..MaxCopies :
          /\ <<s, n>> \in due
          /\ due' = due \ {<<s, n>>}
          /\ held' = [held EXCEPT ![w] = @ \cup {<<s, n>>}]
          /\ job' = [job EXCEPT ![w] =
                 [pc |-> "check", event |-> s, copy |-> n, existing |-> NoOne]]
    /\ stale' = stale \ {w}
    /\ UNCHANGED <<testMode, at, found, keycloak, published, copies, dropped,
                   accounts, races, quiet, faults>>

Existing == {s \in Signups : accounts[s] > 0}

\* Several rows match: get_one_or_none raises MultipleResultsFound.
Ambiguous == Cardinality(Existing) > 1 \/ \E s \in Existing : accounts[s] > 1

\* The handler raises; the consumer gives the message up.
Drop(w) ==
    /\ job' = [job EXCEPT ![w] = Idle]
    /\ dropped' = dropped \cup {job[w].event}
    /\ UNCHANGED <<published, copies, due, held>>

\* Mutant: the look for an existing user is skipped.
NoAccountUnchecked == TRUE

\* get_one_or_none by e-mail and user name finds no row.
NoAccount == Existing = {}

CheckFindsNone(w) ==
    /\ job[w].pc = "check"
    /\ NoAccount
    /\ job' = [job EXCEPT ![w].pc = "insert"]
    /\ stale' = stale \ {w}
    /\ UNCHANGED <<testMode, at, found, keycloak, events, accounts, races, quiet, faults>>

\* "... already exists", or several of them do.
Refuses == Ambiguous \/ ~testMode

CheckRefuses(w) ==
    /\ job[w].pc = "check"
    /\ ~NoAccount /\ Refuses
    /\ Drop(w)
    /\ UNCHANGED <<testMode, at, found, keycloak, accounts, stale, races, quiet, faults>>

CheckFindsOne(w) ==
    /\ job[w].pc = "check"
    /\ ~NoAccount /\ ~Refuses
    /\ \E s \in Existing :
          job' = [job EXCEPT ![w].pc = "delete", ![w].existing = s]
    /\ stale' = stale \ {w}
    /\ UNCHANGED <<testMode, at, found, keycloak, events, accounts, races, quiet, faults>>

\* Mutant: the tenant of the user is not looked up before the deletion.
StillThereUnchecked(w) == TRUE

\* tenant_repo.get raises when another worker has deleted the account meanwhile.
StillThere(w) == accounts[job[w].existing] > 0

\* delete_root_account(user=...): in the session of the context, which it commits.
DeleteExisting(w) ==
    /\ job[w].pc = "delete" /\ StillThere(w)
    /\ accounts' = [accounts EXCEPT ![job[w].existing] = @ - 1]
    /\ job' = [job EXCEPT ![w].pc = "insert"]
    /\ UNCHANGED <<testMode, at, found, keycloak, events, stale, races, quiet, faults>>

DeleteExistingFails(w) ==
    /\ job[w].pc = "delete" /\ ~StillThere(w)
    /\ Drop(w)
    /\ UNCHANGED <<testMode, at, found, keycloak, accounts, stale, races, quiet, faults>>

\* Tenant, user, UserRegisteredEvent and TenantCreatedEvent in one transaction.
\* Neither table has a unique constraint that a second account would meet.
Insert(w) ==
    /\ job[w].pc = "insert"
    /\ accounts' = [accounts EXCEPT ![job[w].event] = @ + 1]
    /\ races' = IF w \in stale THEN races + 1 ELSE races
    /\ stale' = {v \in Workers \ {w} : job[v].pc \in {"delete", "insert"}}

CommitAccount(w) ==
    /\ Insert(w)
    /\ job' = [job EXCEPT ![w] = Idle]
    /\ UNCHANGED <<testMode, at, found, keycloak, events, quiet, faults>>

\* The client commits its position: past what is handled, and past what is not.
AutoCommit(w) ==
    /\ held[w] # {}
    /\ held' = [held EXCEPT ![w] = {}]
    /\ UNCHANGED <<testMode, at, found, keycloak, published, copies, due, dropped, database,
                   quiet, faults>>

\* The handler raises and the transaction is rolled back, or its commit is
\* carried out and the answer lost.
HandlerFails(w) ==
    /\ job[w].pc \in {"check", "delete", "insert"}
    /\ Fault
    /\ Insert(w) \/ UNCHANGED <<accounts, stale, races>>
    /\ Drop(w)
    /\ UNCHANGED <<testMode, at, found, keycloak, quiet>>

\* Mutant: the next process begins at the end of the log.
ComeAgainNever(w) == {}

\* What the next owner of the partition begins with.
ComeAgain(w) == held[w]

\* The message in work, when its offset is committed: it does not come again.
LostInWork(w) ==
    {s \in Signups : /\ job[w].pc # "idle" /\ job[w].event = s
                     /\ <<s, job[w].copy>> \notin held[w]}

\* The worker process dies; its transaction is rolled back.
Crash(w) ==
    /\ job[w].pc # "idle" \/ held[w] # {}
    /\ Fault
    /\ job' = [job EXCEPT ![w] = Idle]
    /\ due' = due \cup ComeAgain(w)
    /\ held' = [held EXCEPT ![w] = {}]
    /\ dropped' = dropped \cup LostInWork(w)
    /\ UNCHANGED <<testMode, at, found, keycloak, published, copies, accounts, stale, races,
                   quiet>>

-----------------------------------------------------------------------------

Request(s) ==
    \/ ListOrgs(s) \/ DeleteOrgs(s) \/ ListUsers(s) \/ DeleteUsers(s)
    \/ CreateOrg(s) \/ CreateUser(s) \/ Join(s) \/ Publish(s)

Handle(w) ==
    \/ CheckFindsNone(w) \/ CheckRefuses(w) \/ CheckFindsOne(w)
    \/ DeleteExisting(w) \/ DeleteExistingFails(w)
    \/ CommitAccount(w)

Next ==
    \/ \E s \in Signups : Begin(s) \/ Request(s) \/ Abandon(s) \/ Send(s)
    \/ \E w \in Workers :
          \/ Handle(w) \/ HandlerFails(w) \/ AutoCommit(w) \/ Crash(w)
          \/ \E s \in Signups : Deliver(w, s)

\* An event is sent at last, a message delivered, and a handler that runs goes
\* on; further copies, commits, errors and crashes need not happen.
Fairness ==
    /\ \A s \in Signups : WF_vars(copies[s] = 0 /\ Send(s))
    /\ \A s \in Signups : WF_vars(\E w \in Workers : Deliver(w, s))
    /\ \A w \in Workers : WF_vars(Handle(w))

Spec == Init /\ [][Next]_vars /\ Fairness

-----------------------------------------------------------------------------
(* Properties *)

\* A sign-up that succeeds while no other is active leaves Keycloak whole: its
\* user, its organization and the membership, and its event in the outbox,
\* whatever earlier requests left behind when they failed or died half-way.
SignupIsWhole ==
    \A s \in Signups : (at[s] = "done" /\ quiet[s]) =>
        kcUser = s /\ kcOrg = s /\ s \in members /\ s \in published

Total == LET Count(s) == {<<s, n>> : n \in 1..accounts[s]}
         IN  Cardinality(UNION {Count(s) : s \in Signups})

\* One root account for an address, as the check of _admin.py:46 intends: each
\* further one comes from handlers that both made that check before either
\* committed, there being no unique constraint behind it.
OneRootAccount == Total <= 1 + races

\* Once a sign-up is published the address has a root account at last, through
\* crashes and repeated deliveries and although a handler in test mode commits
\* the deletion of the account before it inserts the next - unless the consumer
\* gave an event up or lost it in a crash, its offset committed already.
PublishedGetsAccount == published # {} ~> (Total > 0 \/ dropped # {})
====
