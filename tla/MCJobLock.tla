----------------------------- MODULE MCJobLock -----------------------------
(* Two processes, two executions of the job in the first and two in the    *)
(* second, a ttl of two ticks.                                             *)
EXTENDS JobLock

CONSTANTS p1, p2

MCProcessus == {p1, p2}
MCExecutions == 1..4
MCDe == [e \in 1..4 |-> IF e <= 2 THEN p1 ELSE p2]
=============================================================================
