---- MODULE MCIdempotencyGuard ----
(* Two consumers, two keys, messages delivered up to two times. *)
EXTENDS IdempotencyGuard

CONSTANTS k1, k2, c1, c2

MCKeys == {k1, k2}
MCConsumers == {c1, c2}
====
