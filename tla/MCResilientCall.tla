---- MODULE MCResilientCall ----
(* A small instance of ResilientCall for TLC. *)
EXTENDS ResilientCall

Alone == [c \in Calls |-> 1]
Split == [c \in Calls |-> 1 + (c % 2)]

Deployment(s, h, t, w) ==
    [shared |-> s, home |-> h, failure_threshold |-> t, max_waiters |-> w]

\* One process without a repository makes all the calls; two processes with a
\* repository make half of them each.
MCDeployments ==
    {Deployment(FALSE, Alone, 1, 1), Deployment(FALSE, Alone, 2, 2),
     Deployment(TRUE, Split, 1, 1)}
====
