---- MODULE MCOutboxRelay ----
(* Two processes with one worker each (concurrent_workers defaults to 1). *)
EXTENDS OutboxRelay

CONSTANTS p1, p2, w1, w2

MCProcs == {p1, p2}
MCWorkers == {w1, w2}
MCProcOf == [w \in MCWorkers |-> IF w = w1 THEN p1 ELSE p2]
====
