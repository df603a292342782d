-------------------------- MODULE MCDatabaseTasks --------------------------
(* Instances of DatabaseTasks for TLC.                                     *)
EXTENDS QueueRefinement, TLC

CONSTANT Urgent   \* the tasks that are first in the order of the queue

MCRank == [t \in Tasks |-> IF t \in Urgent THEN 0 ELSE 1]

\* Threads that poll are interchangeable, and so are callers; tasks are not
\* (Rank and Delayed tell them apart).
Symmetry == Permutations(Workers) \cup Permutations(Callers)
=============================================================================
