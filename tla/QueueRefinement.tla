-------------------------- MODULE QueueRefinement --------------------------
(* The table of tasks implements the queue it promises to be.              *)
EXTENDS DatabaseTasks

\* Who a RUNNING row is with.
Holder(t) ==
  IF row[t].status = "RUNNING" /\ \E r \in Runners : Runs(r, t)
  THEN CHOOSE r \in Runners : Runs(r, t)
  ELSE NoOne

Queue == INSTANCE TaskQueue WITH
  Nobody <- NoOne,
  status <- [t \in Tasks |-> row[t].status],
  holder <- [t \in Tasks |-> Holder(t)]

\* Every step of the code is a step of the abstract queue, or none: locks,
\* stale copies of rows and conditional updates included, a task is claimed
\* when READY, finished by its holder, recovered only when its holder is gone.
ImplementsQueue == Queue!Spec

=============================================================================
