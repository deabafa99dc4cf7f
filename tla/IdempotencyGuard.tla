---- MODULE IdempotencyGuard ----
(***************************************************************************)
(* IdempotencyService.guard: a consumer checks whether the key of a message*)
(* is recorded, runs the handler body in its transaction, and on a clean   *)
(* exit records the key with INSERT ... ON CONFLICT DO NOTHING, for the    *)
(* caller to commit with the effects of the body.  The INSERT names a      *)
(* column the table does not have, so it is never sent.                    *)
(***************************************************************************)
EXTENDS Naturals

CONSTANTS
    Keys,               \* idempotency keys: one per (handler, message)
    Consumers,          \* tasks or processes that handle deliveries
    MaxDeliveries       \* bound: deliveries of the message of a key

VARIABLES
    recorded,           \* committed rows of ProcessedEventTable
    expired,            \* rows with created_at before the time to live
    pc,                 \* consumer: where its guard is
    key,                \* consumer: the key of the message it handles
    inserted,           \* consumer: rows inserted by its open transaction
    delivered           \* bound: deliveries so far

vars == <<recorded, expired, pc, key, inserted, delivered>>

\* "entered": before the check; "body": in the block; "exited": the block
\* ended cleanly, before mark_processed; "marked": before the caller's commit.
PcStates == {"idle", "entered", "body", "exited", "marked"}

Init ==
    /\ recorded = {}
    /\ expired = {}
    /\ pc = [c \in Consumers |-> "idle"]
    /\ key \in {[c \in Consumers |-> k] : k \in Keys}
    /\ inserted = [c \in Consumers |-> {}]
    /\ delivered = [k \in Keys |-> 0]

Goto(c, l) == pc' = [pc EXCEPT ![c] = l]

----------------------------------------------------------------------------

\* A delivery, the first or a repeated one, reaches a consumer, which opens a
\* session and enters the guard.
Deliver(c, k) ==
    /\ pc[c] = "idle"
    /\ delivered[k] < MaxDeliveries
    /\ delivered' = [delivered EXCEPT ![k] = @ + 1]
    /\ key' = [key EXCEPT ![c] = k]
    /\ Goto(c, "entered")
    /\ UNCHANGED <<recorded, expired, inserted>>

\* is_processed: a duplicate raises DuplicateEventError or yields False, and
\* either way the body is skipped.
Check(c) ==
    /\ pc[c] = "entered"
    /\ Goto(c, IF key[c] \in recorded THEN "idle" ELSE "body")
    /\ UNCHANGED <<recorded, expired, key, inserted, delivered>>

\* The body ends cleanly.
BodyOk(c) ==
    /\ pc[c] = "body"
    /\ Goto(c, "exited")
    /\ UNCHANGED <<recorded, expired, key, inserted, delivered>>

\* The columns of ProcessedEventTable.
Columns == {"id", "idempotency_key", "event_id", "event_type", "handler_name",
            "saga_id", "correlation_id", "extra_metadata", "created_at"}

\* The columns mark_processed gives values to.
Values == {"idempotency_key", "event_id", "event_type", "handler_name",
           "saga_id", "correlation_id", "tenant_id", "extra_metadata"}

\* The statement compiles: no value is for an unknown column.
Compiles == Values \subseteq Columns

\* The unique index makes an INSERT wait for the transaction that inserted the
\* same key, until it commits or rolls back.
MayInsert(c) == \A d \in Consumers \ {c} : key[c] \notin inserted[d]

\* The transaction of the consumer ends without a trace.
Abandon(c) ==
    /\ inserted' = [inserted EXCEPT ![c] = {}]
    /\ Goto(c, "idle")
    /\ UNCHANGED <<recorded, expired, key, delivered>>

\* mark_processed.  A row that is there already stays, and the lost race is
\* logged; an INSERT that does not compile raises out of the guard.
MarkProcessed(c) ==
    /\ pc[c] = "exited"
    /\ \/ /\ Compiles
          /\ MayInsert(c)
          /\ inserted' = [inserted EXCEPT ![c] = {key[c]} \ recorded]
          /\ Goto(c, "marked")
          /\ UNCHANGED <<recorded, expired, key, delivered>>
       \/ /\ ~Compiles
          /\ Abandon(c)

\* The caller commits the body's changes and the record.
Commit(c) ==
    /\ pc[c] = "marked"
    /\ recorded' = recorded \cup inserted[c]
    /\ inserted' = [inserted EXCEPT ![c] = {}]
    /\ Goto(c, "idle")
    /\ UNCHANGED <<expired, key, delivered>>

\* The body raises, another statement or the commit fails, or the consumer
\* dies: the transaction is rolled back, and the message may come again.
Rollback(c) ==
    /\ pc[c] # "idle"
    /\ Abandon(c)

\* The time to live of a record passes.
Expire(k) ==
    /\ k \in recorded \ expired
    /\ expired' = expired \cup {k}
    /\ UNCHANGED <<recorded, pc, key, inserted, delivered>>

\* cleanup_expired, one row of its batch.
Cleanup(k) ==
    /\ k \in recorded \cap expired
    /\ recorded' = recorded \ {k}
    /\ expired' = expired \ {k}
    /\ UNCHANGED <<pc, key, inserted, delivered>>

Next ==
    \/ \E c \in Consumers, k \in Keys : Deliver(c, k)
    \/ \E c \in Consumers :
        \/ Check(c)
        \/ BodyOk(c)
        \/ MarkProcessed(c)
        \/ Commit(c)
        \/ Rollback(c)
    \/ \E k \in Keys : Expire(k) \/ Cleanup(k)

Spec == Init /\ [][Next]_vars

----------------------------------------------------------------------------
(* Properties *)

\* What the documentation of the guard says: "on clean exit of a fresh key the
\* key is recorded atomically".  The step that leaves the guard after a body
\* that ended cleanly has the row in the open transaction, or finds it there.
CleanExitIsRecorded ==
    [][\A c \in Consumers :
        MarkProcessed(c) => key[c] \in recorded \cup inserted'[c]]_vars
====
