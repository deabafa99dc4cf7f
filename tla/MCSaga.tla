---- MODULE MCSaga ----
(* A small instance of Saga for TLC. *)
EXTENDS Saga

\* A step without a compensation between steps with one, and a last step
\* that fails after three others.
MCCompensable == {1, 3, 4}

MCRuns == 1..2
MCIds == 1..2

\* Runs and ids are interchangeable: one assignment of each kind is enough.
MCInit == Init /\ id[1] = 1 /\ (keyed[2] => keyed[1])

MCSpec == MCInit /\ [][Next]_vars /\ Fairness
====
