---- MODULE OutboxContract ----
(***************************************************************************)
(* What a transactional outbox promises its users, without saying how: an  *)
(* event belongs to a business transaction, nothing is sent before that    *)
(* transaction commits, a sent event may be sent again (at-least-once),    *)
(* and an event is only ever settled after it has been sent, for good.     *)
(*                                                                         *)
(* OutboxRelay (the table, the pollers and the maintenance loop) is shown  *)
(* to implement this specification.                                        *)
(***************************************************************************)
EXTENDS Naturals

CONSTANT Events         \* the events the producers emit

VARIABLES
    phase,              \* phase[e]: where the event is in its life
    sent                \* sent[e]: how often the broker has received it

vars == <<phase, sent>>

Phases == {"unborn", "open", "aborted", "committed", "settled"}

TypeOK ==
    /\ phase \in [Events -> Phases]
    /\ sent \in [Events -> Nat]

Init ==
    /\ phase = [e \in Events |-> "unborn"]
    /\ sent = [e \in Events |-> 0]

Become(e, from, to) ==
    /\ phase[e] = from
    /\ phase' = [phase EXCEPT ![e] = to]
    /\ UNCHANGED sent

Emit(e) == Become(e, "unborn", "open")

Commit(e) == Become(e, "open", "committed")

Rollback(e) == Become(e, "open", "aborted")

\* The broker receives the event, for the first time or once more.
Send(e) ==
    /\ phase[e] \in {"committed", "settled"}
    /\ sent' = [sent EXCEPT ![e] = @ + 1]
    /\ UNCHANGED phase

Settle(e) ==
    /\ sent[e] > 0
    /\ Become(e, "committed", "settled")

Next ==
    \E e \in Events :
        Emit(e) \/ Commit(e) \/ Rollback(e) \/ Send(e) \/ Settle(e)

Spec == Init /\ [][Next]_vars
====
