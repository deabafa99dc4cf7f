---- MODULE MCEventConsumer ----
(* Small instances of EventConsumer for TLC. *)
EXTENDS EventConsumer

Deployment(w, d, a, s) == [workers |-> w, dlq |-> d, attempts |-> a, subscribes |-> s]

\* One worker and two, with and without a dead-letter topic, with and without
\* in-process retries, and one that subscribes.
MCConfs == {Deployment(1, TRUE, 2, FALSE),
            Deployment(1, FALSE, 1, FALSE),
            Deployment(2, TRUE, 2, FALSE),
            Deployment(1, TRUE, 1, TRUE)}

\* Messages of every kind, before and after ordinary ones; all ordinary.
MCLogs == {<<"event", "event", "event">>,
           <<"event", "bad", "event">>,
           <<"null", "unknown", "event">>}

\* One worker with a dead-letter topic and retries.
DlqConfs == {Deployment(1, TRUE, 2, FALSE)}
EventLogs == {<<"event", "event">>}
====
