---- MODULE MCScheduler ----
(* A one-time job and an interval job of two runs, two poller processes. *)
EXTENDS Scheduler

CONSTANTS once, every, w1, w2

MCJobs == {once, every}
MCRecurring == {every}
MCWorkers == {w1, w2}
MCMaxRuns == [j \in MCJobs |-> IF j = every THEN 2 ELSE NoCap]
MCMaxRetries == [j \in MCJobs |-> IF j = every THEN 2 ELSE 1]
====
