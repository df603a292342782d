----------------------------- MODULE TaskQueue -----------------------------
(***************************************************************************)
(* What the table of tasks promises, without saying how: a task is handed  *)
(* to one runner at a time, its outcome is written by the runner that      *)
(* holds it, and a task is put back in the queue or given up on only when  *)
(* nobody holds it any more.                                               *)
(***************************************************************************)
CONSTANTS Tasks, Runners, Nobody   \* Nobody is not one of the Runners

VARIABLES
  status,   \* the status of each task
  holder    \* the runner a RUNNING task is with, Nobody once it has died

vars == <<status, holder>>

Init ==
  /\ status = [t \in Tasks |-> "NEW"]
  /\ holder = [t \in Tasks |-> Nobody]

Enqueue(t) ==
  /\ status[t] = "NEW"
  /\ status' = [status EXCEPT ![t] = "READY"]
  /\ UNCHANGED holder

Claim(r, t) ==
  /\ status[t] = "READY"
  /\ \A u \in Tasks : holder[u] # r
  /\ status' = [status EXCEPT ![t] = "RUNNING"]
  /\ holder' = [holder EXCEPT ![t] = r]

Finish(t, outcome) ==
  /\ holder[t] # Nobody
  /\ status' = [status EXCEPT ![t] = outcome]
  /\ holder' = [holder EXCEPT ![t] = Nobody]

\* The runner of t dies.
Lose(t) ==
  /\ holder[t] # Nobody
  /\ holder' = [holder EXCEPT ![t] = Nobody]
  /\ UNCHANGED status

\* The tasks in again go back to the queue, those in failed are given up on.
Recover(again, failed) ==
  /\ \A t \in again \cup failed : status[t] = "RUNNING" /\ holder[t] = Nobody
  /\ status' = [t \in Tasks |-> IF t \in again THEN "READY"
                                ELSE IF t \in failed THEN "FAILED" ELSE status[t]]
  /\ UNCHANGED holder

Retry(t) ==
  /\ status[t] = "FAILED"
  /\ status' = [status EXCEPT ![t] = "READY"]
  /\ UNCHANGED holder

Remove(S) ==
  /\ \A t \in S : status[t] \in {"SUCCESSFUL", "FAILED"}
  /\ status' = [t \in Tasks |-> IF t \in S THEN "DELETED" ELSE status[t]]
  /\ UNCHANGED holder

Next ==
  \/ \E t \in Tasks : Enqueue(t) \/ Lose(t) \/ Retry(t)
  \/ \E r \in Runners, t \in Tasks : Claim(r, t)
  \/ \E t \in Tasks, outcome \in {"SUCCESSFUL", "FAILED"} : Finish(t, outcome)
  \/ \E again, failed \in SUBSET Tasks : Recover(again, failed)
  \/ \E S \in SUBSET Tasks : Remove(S)

Spec == Init /\ [][Next]_vars

=============================================================================
