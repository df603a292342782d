------------------------ MODULE DatabaseTasksProofs ------------------------
(***************************************************************************)
(* Proofs about DatabaseTasks, for any tasks, threads and options: who     *)
(* holds a row, what no step does to a row or to a runner, and that the    *)
(* table of tasks implements the queue it promises to be.                  *)
(***************************************************************************)
EXTENDS QueueRefinement, TLAPS

USE DEF Runners

LEMMA RowTypes == NoRow \in Row /\ Idle \in Runner
BY DEF NoRow, Row, Status, Stored, Idle, Runner, PCs

\* What a row becomes is a row, and these are the fields the proofs look at.
LEMMA RowEdits ==
  ASSUME NEW x \in Row
  PROVE  /\ \A n \in Nat : Claimed(x, n) \in Row /\ Failed(x, n) \in Row
         /\ Succeeded(x) \in Row /\ Requeued(x) \in Row
         /\ \A n \in Nat : [x EXCEPT !.worker_ids = n] \in Row
BY DEF Row, Claimed, Failed, Succeeded, Requeued, Status, Stored, Completed

LEMMA RowFields ==
  ASSUME NEW x \in Row, NEW n
  PROVE  /\ Claimed(x, n).status = "RUNNING" /\ Claimed(x, n).worker_ids = n
         /\ Failed(x, n).status = "FAILED" /\ Failed(x, n).worker_ids = x.worker_ids
         /\ Succeeded(x).status = "SUCCESSFUL" /\ Succeeded(x).worker_ids = x.worker_ids
         /\ Requeued(x).status = "READY" /\ Requeued(x).worker_ids = x.worker_ids
BY DEF Row, Claimed, Failed, Succeeded, Requeued

LEMMA RowSucceeded ==
  ASSUME NEW x \in Row
  PROVE  Succeeded(x).status = "SUCCESSFUL" /\ Succeeded(x).worker_ids = x.worker_ids
BY DEF Row, Succeeded

LEMMA RowFinished ==
  ASSUME NEW x \in Row, NEW n
  PROVE  /\ Claimed(x, n).finished <=> x.finished
         /\ Succeeded(x).finished
         /\ Failed(x, n).finished
         /\ ~Requeued(x).finished
<1>1. Claimed(x, n).finished <=> x.finished
  BY DEF Row, Claimed
<1>2. Succeeded(x).finished
  BY DEF Row, Succeeded
<1>3. Failed(x, n).finished
  BY DEF Row, Failed
<1>4. ~Requeued(x).finished
  BY DEF Row, Requeued
<1> QED
  BY <1>1, <1>2, <1>3, <1>4

\* The variable runner, after one runner has moved.
LEMMA RunnerMoves ==
  ASSUME TypeOK, NEW r \in Runners, NEW pc \in PCs \ {"idle"}, NEW t \in Tasks, NEW db \in Row,
         Take(r, pc, t, db)
  PROVE  /\ runner' \in [Runners -> Runner]
         /\ \A s \in Runners : runner'[s].task = NoTask <=> runner'[s].pc = "idle"
BY ActorsAssumption DEF TypeOK, Take, Runner

LEMMA RunnerLeaves ==
  ASSUME TypeOK, NEW r \in Runners, Leave(r)
  PROVE  /\ runner' \in [Runners -> Runner]
         /\ \A s \in Runners : runner'[s].task = NoTask <=> runner'[s].pc = "idle"
BY RowTypes DEF TypeOK, Leave, Idle

LEMMA EmptyBatch == IsBatch([t \in {} |-> NoRow])
BY DEF IsBatch

LEMMA TypeInit == Init => TypeOK
BY EmptyBatch, RowTypes, ActorsAssumption, OptionsAssumption DEF Init, TypeOK, Idle

LEMMA TypeStep == TypeOK /\ [Next]_vars => TypeOK'
<1> SUFFICES ASSUME TypeOK, [Next]_vars PROVE TypeOK'
  OBVIOUS
<1> USE ActorsAssumption, OptionsAssumption
<1> USE DEF TypeOK
<1>1. ASSUME NEW t \in Tasks, Enqueue(t) PROVE TypeOK'
  BY <1>1 DEF Enqueue, Row, Status, Stored
<1>2. ASSUME NEW t \in Tasks, BecomeDue(t) PROVE TypeOK'
  BY <1>2 DEF BecomeDue
<1>3. ASSUME NEW w \in Workers, NEW t \in Tasks, FetchTask(w, t) PROVE TypeOK'
  BY <1>3, RunnerMoves DEF FetchTask, Acquire, PCs
<1>4. ASSUME NEW c \in Callers, NEW t \in Tasks, RunById(c, t) PROVE TypeOK'
  BY <1>4, RunnerMoves DEF RunById, Acquire, PCs
<1>5. ASSUME NEW a \in Admins, NEW t \in Tasks, AdminRun(a, t) PROVE TypeOK'
  BY <1>5, RunnerMoves DEF AdminRun, PCs
<1>6. ASSUME NEW a \in Admins, NEW t \in Tasks, AdminRead(a, t) PROVE TypeOK'
  BY <1>6, RunnerMoves DEF AdminRead, PCs
<1>7. ASSUME NEW r \in Runners, FetchReturn(r) PROVE TypeOK'
  BY <1>7, RunnerMoves DEF FetchReturn, Goto, Release, PCs, Runner
<1>8. ASSUME NEW r \in Runners, ResetAndRun(r) PROVE TypeOK'
  <2> DEFINE t == runner[r].task
             db == runner[r].db
  <2>1. t \in Tasks /\ db \in Row /\ row[t] \in Row /\ lock' \in [Tasks -> Runners \cup Recoverers \cup {NoOne}]
    BY <1>8 DEF ResetAndRun, Runner, Release
  <2>2. row' \in [Tasks -> Row] /\ retries' \in Nat
    <3>1. Requeued(row[t]) \in Row
      BY <2>1, RowEdits
    <3> QED
      BY <2>1, <3>1, <1>8 DEF ResetAndRun
  <2>3. CASE Leave(r)
    BY <2>1, <2>2, <2>3, <1>8, RunnerLeaves DEF ResetAndRun
  <2>4. CASE Goto(r, "fetched", db)
    BY <2>1, <2>2, <2>4, <1>8, RunnerMoves DEF ResetAndRun, Goto, PCs
  <2>5. CASE Goto(r, "fetched", Requeued(db))
    BY <2>1, <2>2, <2>5, <1>8, RunnerMoves, RowEdits DEF ResetAndRun, Goto, PCs
  <2> QED
    BY <2>3, <2>4, <2>5, <1>8 DEF ResetAndRun
<1>9. ASSUME NEW r \in Runners, ClaimSelect(r) PROVE TypeOK'
  <2> DEFINE db == [runner[r].db EXCEPT !.worker_ids = StoredIds(r)]
  <2>1. runner[r].task \in Tasks /\ runner[r].db \in Row
    BY <1>9 DEF ClaimSelect, Runner
  <2>2. StoredIds(r) \in Nat
    BY <2>1 DEF StoredIds, Row
  <2>3. db \in Row
    BY <2>1, <2>2, RowEdits
  <2> QED
    BY <2>1, <2>3, <1>9, RunnerMoves DEF ClaimSelect, Goto, Acquire, PCs
<1>10. ASSUME NEW r \in Runners, ClaimMiss(r) PROVE TypeOK'
  BY <1>10, RunnerLeaves DEF ClaimMiss
<1>11. ASSUME NEW r \in Runners, ClaimUpdate(r) PROVE TypeOK'
  <2> DEFINE t == runner[r].task
             db == [runner[r].db EXCEPT !.worker_ids = @ + 1]
  <2>1. t \in Tasks /\ runner[r].db \in Row /\ row[t] \in Row
    BY <1>11 DEF ClaimUpdate, Runner
  <2>2. runner[r].db.worker_ids + 1 \in Nat
    BY <2>1 DEF Row
  <2>3. db \in Row /\ db.worker_ids \in Nat
    BY <2>1, <2>2, RowEdits DEF Row
  <2>4. Claimed(row[t], db.worker_ids) \in Row
    BY <2>1, <2>2, <2>3, RowEdits
  <2>5. row' \in [Tasks -> Row]
    BY <2>1, <2>4, <1>11 DEF ClaimUpdate
  <2>6. lock' \in [Tasks -> Runners \cup Recoverers \cup {NoOne}]
    BY <2>1, <1>11 DEF ClaimUpdate, Release
  <2>7. CASE Leave(r)
    BY <2>5, <2>6, <2>7, <1>11, RunnerLeaves DEF ClaimUpdate
  <2>8. CASE Goto(r, "claimed", db)
    BY <2>1, <2>3, <2>5, <2>6, <2>8, <1>11, RunnerMoves DEF ClaimUpdate, Goto, PCs
  <2> QED
    BY <2>7, <2>8, <1>11 DEF ClaimUpdate
<1>12. ASSUME NEW r \in Runners, StartTask(r) PROVE TypeOK'
  BY <1>12, RunnerMoves DEF StartTask, Goto, PCs, Runner
<1>13. ASSUME NEW r \in Runners, TaskReturns(r) PROVE TypeOK'
  <2> DEFINE t == runner[r].task
  <2>1. t \in Tasks /\ runner[r].db \in Row /\ row[t] \in Row
    BY <1>13 DEF TaskReturns, Runner
  <2>2. Succeeded(row[t]) \in Row
    BY <2>1, RowEdits
  <2>3. row' \in [Tasks -> Row]
    BY <2>1, <2>2, <1>13 DEF TaskReturns
  <2>4. \E pc \in {"saved", "failing"} : Take(r, pc, t, runner[r].db)
    BY <1>13 DEF TaskReturns, Goto
  <2> QED
    BY <2>1, <2>3, <2>4, <1>13, RunnerMoves DEF TaskReturns, PCs
<1>14. ASSUME NEW r \in Runners, TaskRaises(r) PROVE TypeOK'
  BY <1>14, RunnerMoves DEF TaskRaises, Goto, PCs, Runner
<1>15. ASSUME NEW r \in Runners, TaskFinished(r) PROVE TypeOK'
  <2> DEFINE t == runner[r].task
  <2>1. t \in Tasks /\ runner[r].db \in Row /\ row[t] \in Row
    BY <1>15 DEF TaskFinished, Runner
  <2>2. Leave(r) \/ \E db \in Row : Take(r, "failing", t, db)
    BY <2>1, <1>15 DEF TaskFinished, Goto
  <2> QED
    BY <2>1, <2>2, <1>15, RunnerMoves, RunnerLeaves DEF TaskFinished, PCs
<1>16. ASSUME NEW r \in Runners, RecordError(r) PROVE TypeOK'
  <2> DEFINE t == runner[r].task
  <2>1. t \in Tasks /\ runner[r].db.errors + 1 \in Nat /\ row[t] \in Row
    BY <1>16 DEF RecordError, Runner, Row
  <2>2. Failed(row[t], runner[r].db.errors + 1) \in Row
    BY <2>1, RowEdits
  <2>3. row' \in [Tasks -> Row]
    BY <2>1, <2>2, <1>16 DEF RecordError
  <2> QED
    BY <2>3, <1>16, RunnerLeaves DEF RecordError
<1>17. ASSUME NEW r \in Runners, AdminRetry(r) PROVE TypeOK'
  <2> DEFINE db == [status |-> "RUNNING", finished |-> FALSE, errors |-> 0,
                    worker_ids |-> runner[r].db.worker_ids + 1]
  <2>1. runner[r].task \in Tasks /\ db \in Row
    BY <1>17 DEF AdminRetry, Runner, Row, Status, Stored
  <2> QED
    BY <2>1, <1>17, RunnerMoves DEF AdminRetry, Goto, PCs
<1>18. ASSUME NEW r \in Runners, AdminRetryCommit(r) PROVE TypeOK'
  <2> DEFINE t == runner[r].task
             db == runner[r].db
  <2>1. t \in Tasks /\ Failed(db, 1) \in Row /\ Succeeded(db) \in Row
    BY <1>18, RowEdits DEF AdminRetryCommit, Runner
  <2>2. row' \in [Tasks -> Row]
    BY <2>1, <1>18 DEF AdminRetryCommit
  <2> QED
    BY <2>1, <2>2, <1>18, RunnerLeaves DEF AdminRetryCommit, Release
<1>19. ASSUME NEW r \in Runners, AdminRetryRollback(r) PROVE TypeOK'
  BY <1>19, RunnerLeaves DEF AdminRetryRollback, Release
<1>20. ASSUME NEW r \in Runners, AdminRequeue(r) PROVE TypeOK'
  <2>1. row' \in [Tasks -> Row]
    BY <1>20, RowEdits DEF AdminRequeue
  <2> QED
    BY <2>1, <1>20, RunnerLeaves DEF AdminRequeue
<1>21. ASSUME NEW r \in Runners, Crash(r) PROVE TypeOK'
  <2>1. runner[r].task \in Tasks
    BY <1>21 DEF Crash, Runner
  <2> QED
    BY <2>1, <1>21, RunnerLeaves DEF Crash, Release
<1>22. ASSUME NEW q \in Recoverers, NEW S \in SUBSET Tasks, RecoverSelect(q, S) PROVE TypeOK'
  <2>1. IsBatch([t \in S |-> row[t]])
    BY DEF IsBatch
  <2> QED
    BY <2>1, <1>22 DEF RecoverSelect
<1>23. ASSUME NEW q \in Recoverers, RecoverCommit(q) PROVE TypeOK'
  <2>1. ASSUME NEW t \in DOMAIN batch[q]
        PROVE  Requeued(row[t]) \in Row /\ GivenUp(row[t], batch[q][t]) \in Row
    <3>1. t \in Tasks /\ batch[q][t].errors + 1 \in Nat
      BY <2>1 DEF IsBatch, Row
    <3> QED
      BY <3>1, RowEdits DEF GivenUp
  <2>2. row' \in [Tasks -> Row]
    BY <2>1, <1>23 DEF RecoverCommit
  <2> QED
    BY <2>2, <1>23, EmptyBatch DEF RecoverCommit, RecoverEnd
<1>24. ASSUME NEW q \in Recoverers, RecoverCrash(q) PROVE TypeOK'
  BY <1>24, EmptyBatch DEF RecoverCrash, RecoverEnd
<1>25. ASSUME NEW p \in Purgers, NEW S \in SUBSET Tasks, PurgeSelect(p, S) PROVE TypeOK'
  BY <1>25 DEF PurgeSelect
<1>26. ASSUME NEW p \in Purgers, PurgeDelete(p) PROVE TypeOK'
  <2>1. row' \in [Tasks -> Row]
    BY <1>26 DEF PurgeDelete, NoRow, Row, Status
  <2> QED
    BY <2>1, <1>26 DEF PurgeDelete
<1>27. CASE UNCHANGED vars
  BY <1>27 DEF vars
<1> QED
  BY <1>1, <1>2, <1>3, <1>4, <1>5, <1>6, <1>7, <1>8, <1>9, <1>10, <1>11, <1>12, <1>13, <1>14,
    <1>15, <1>16, <1>17, <1>18, <1>19, <1>20, <1>21, <1>22, <1>23, <1>24, <1>25, <1>26,
    <1>27 DEF Next, RunnerStep, Quiet

\* Every variable keeps its type.
THEOREM TypeCorrect == Spec => []TypeOK
BY TypeInit, TypeStep, PTL DEF Spec

-----------------------------------------------------------------------------
\* A runner that moves leaves the others where they are.
LEMMA Moved ==
  ASSUME TypeOK, NEW r \in Runners, NEW pc, NEW t, NEW db, Take(r, pc, t, db)
  PROVE  /\ runner'[r].pc = pc /\ runner'[r].task = t /\ runner'[r].db = db
         /\ \A s \in Runners \ {r} : runner'[s] = runner[s]
BY DEF TypeOK, Take

LEMMA Left ==
  ASSUME TypeOK, NEW r \in Runners, Leave(r)
  PROVE  /\ runner'[r].pc = "idle" /\ runner'[r].task = NoTask
         /\ \A s \in Runners \ {r} : runner'[s] = runner[s]
BY DEF TypeOK, Leave, Idle

LEMMA ExclusiveInit == Init => Exclusive
BY ActorsAssumption DEF Init, Exclusive, OneRunner, RunsUnfinished, ResetHoldsRow, BatchHoldsRows,
   BatchIsDead, AdminOnlyRuns, Runs, Executing, Idle

LEMMA ExclusiveStep ==
  ASSUME RowLocks, ~Premature, AdminActions \subseteq {"run"}
  PROVE  TypeOK /\ Exclusive /\ [Next]_vars => Exclusive'
<1> SUFFICES ASSUME TypeOK, Exclusive, [Next]_vars PROVE Exclusive'
  OBVIOUS
<1> USE ActorsAssumption
<1> USE DEF Exclusive, OneRunner, RunsUnfinished, ResetHoldsRow, BatchHoldsRows, BatchIsDead,
      AdminOnlyRuns, Runs, Executing
<1>0. /\ row \in [Tasks -> Row] /\ lock \in [Tasks -> Runners \cup Recoverers \cup {NoOne}]
      /\ runner \in [Runners -> Runner] /\ DOMAIN batch = Recoverers
      /\ \A q \in Recoverers : DOMAIN batch[q] \subseteq Tasks
      /\ \A r \in Runners : runner[r].pc # "idle" => runner[r].task \in Tasks
  BY DEF TypeOK, IsBatch, Runner
<1>1. ASSUME NEW t \in Tasks, Enqueue(t) PROVE Exclusive'
  BY <1>0, <1>1 DEF Enqueue
<1>2. ASSUME NEW t \in Tasks, BecomeDue(t) PROVE Exclusive'
  BY <1>0, <1>2 DEF BecomeDue
<1>3. ASSUME NEW w \in Workers, NEW t \in Tasks, FetchTask(w, t) PROVE Exclusive'
  BY <1>0, <1>3, Moved DEF FetchTask, Acquire, Selectable, Free, Fetchable
<1>4. ASSUME NEW c \in Callers, NEW t \in Tasks, RunById(c, t) PROVE Exclusive'
  BY <1>0, <1>4, Moved DEF RunById, Acquire, Selectable, Free
<1>5. ASSUME NEW a \in Admins, NEW t \in Tasks, AdminRun(a, t) PROVE Exclusive'
  BY <1>0, <1>5, Moved DEF AdminRun
<1>6. ASSUME NEW a \in Admins, NEW t \in Tasks, AdminRead(a, t) PROVE Exclusive'
  BY <1>0, <1>6 DEF AdminRead
<1>7. ASSUME NEW r \in Runners, FetchReturn(r) PROVE Exclusive'
  BY <1>0, <1>7, Moved DEF FetchReturn, Goto, Release
<1>8. ASSUME NEW r \in Runners, ResetAndRun(r) PROVE Exclusive'
  BY <1>0, <1>8, Moved, Left, RowFields, SMTT(30) DEF ResetAndRun, Goto, Release, Free
<1>9. ASSUME NEW r \in Runners, ClaimSelect(r) PROVE Exclusive'
  BY <1>0, <1>9, Moved DEF ClaimSelect, Goto, Acquire, Claimable, Selectable, Free
<1>10. ASSUME NEW r \in Runners, ClaimMiss(r) PROVE Exclusive'
  BY <1>0, <1>10, Left DEF ClaimMiss
<1>11. ASSUME NEW r \in Runners, ClaimUpdate(r) PROVE Exclusive'
  <2> DEFINE t == runner[r].task
             db == [runner[r].db EXCEPT !.worker_ids = @ + 1]
  <2>0. t \in Tasks
    BY <1>0, <1>11 DEF ClaimUpdate
  <2>1. CASE Leave(r) /\ UNCHANGED row
    BY <1>0, <2>0, <2>1, <1>11, Left DEF ClaimUpdate, Release
  <2>2. CASE StillReady(t) /\ Goto(r, "claimed", db)
    <3>1. /\ runner'[r].pc = "claimed" /\ runner'[r].task = t
          /\ \A s \in Runners \ {r} : runner'[s] = runner[s]
      BY <2>2, Moved DEF Goto
    <3>0. row' = [row EXCEPT ![t] = Claimed(@, db.worker_ids)]
      BY <1>11, <2>2 DEF ClaimUpdate
    <3>2. row'[t].status = "RUNNING" /\ \A u \in Tasks \ {t} : row'[u] = row[u]
      BY <1>0, <2>0, <3>0, RowFields
    <3>3. \A s \in Runners : ~Runs(s, t)
      BY <2>0, <2>2 DEF StillReady
    <3>4. OneRunner' /\ RunsUnfinished' /\ AdminOnlyRuns'
      BY <3>1, <3>2, <3>3, <2>0
    <3>5. \A s \in Runners \ {r} : runner[s].pc = "resetting" => runner[s].task # t
      BY <1>0, <1>11 DEF ClaimUpdate, Free
    <3>6. ResetHoldsRow'
      BY <1>0, <1>11, <3>1, <3>2, <3>5 DEF ClaimUpdate, Release
    <3>7. \A q \in Recoverers : t \notin DOMAIN batch[q]
      BY <2>0, <2>2 DEF StillReady
    <3>8. BatchHoldsRows' /\ BatchIsDead'
      BY <1>0, <1>11, <3>1, <3>2, <3>7 DEF ClaimUpdate, Release
    <3> QED
      BY <3>4, <3>6, <3>8
  <2> QED
    BY <2>1, <2>2, <1>11 DEF ClaimUpdate
<1>12. ASSUME NEW r \in Runners, StartTask(r) PROVE Exclusive'
  BY <1>0, <1>12, Moved DEF StartTask, Goto
<1>13. ASSUME NEW r \in Runners, TaskReturns(r) PROVE Exclusive'
  <2> DEFINE t == runner[r].task
  <2>1. t \in Tasks /\ Runs(r, t)
    BY <1>0, <1>13 DEF TaskReturns
  <2>2. PICK pc \in {"saved", "failing"} : Take(r, pc, t, runner[r].db)
    BY <1>13 DEF TaskReturns, Goto
  <2>3. /\ runner'[r].pc = pc /\ runner'[r].task = t
        /\ \A s \in Runners \ {r} : runner'[s] = runner[s]
    BY <2>2, Moved
  <2>4. /\ row'[t].status \in {"SUCCESSFUL", "DELETED"}
        /\ \A u \in Tasks \ {t} : row'[u] = row[u]
    <3>1. CASE row[t].status \in Stored
      <4>1. row' = [row EXCEPT ![t] = Succeeded(@)]
        BY <1>13, <3>1 DEF TaskReturns
      <4> QED
        BY <1>0, <2>1, <4>1, RowSucceeded
    <3>2. CASE row[t].status \notin Stored
      BY <1>0, <1>13, <2>1, <3>2 DEF TaskReturns, Stored, Completed
    <3> QED
      BY <3>1, <3>2
  <2>5. OneRunner' /\ RunsUnfinished' /\ AdminOnlyRuns'
    BY <2>1, <2>3, <2>4
  <2>6. \A s \in Runners : runner[s].pc = "resetting" => runner[s].task # t
    BY <1>0, <1>13, <2>1
  <2>7. ResetHoldsRow'
    BY <1>0, <1>13, <2>3, <2>4, <2>6 DEF TaskReturns
  <2>8. BatchHoldsRows' /\ BatchIsDead'
    BY <1>0, <1>13, <2>1, <2>3, <2>4 DEF TaskReturns
  <2> QED
    BY <2>5, <2>7, <2>8
<1>14. ASSUME NEW r \in Runners, TaskRaises(r) PROVE Exclusive'
  BY <1>0, <1>14, Moved, SMTT(30) DEF TaskRaises, Goto
<1>15. ASSUME NEW r \in Runners, TaskFinished(r) PROVE Exclusive'
  <2>1. UNCHANGED <<row, lock, batch>> /\ Runs(r, runner[r].task)
    BY <1>15 DEF TaskFinished
  <2>2. /\ runner'[r].pc \in {"idle", "failing"}
        /\ runner'[r].pc = "failing" => runner'[r].task = runner[r].task
        /\ \A s \in Runners \ {r} : runner'[s] = runner[s]
    BY <1>15, Moved, Left DEF TaskFinished, Goto
  <2>3. \A s \in Runners, t \in Tasks : Runs(s, t)' => Runs(s, t)
    BY <2>1, <2>2
  <2>4. OneRunner' /\ RunsUnfinished' /\ BatchIsDead'
    BY <1>0, <2>1, <2>3
  <2>5. ResetHoldsRow' /\ BatchHoldsRows' /\ AdminOnlyRuns'
    BY <1>0, <2>1, <2>2
  <2> QED
    BY <2>4, <2>5
<1>16. ASSUME NEW r \in Runners, RecordError(r) PROVE Exclusive'
  BY <1>0, <1>16, Left, RowFields DEF RecordError, Free, Stored, Completed
<1>17. ASSUME NEW r \in Runners, AdminRetry(r) PROVE Exclusive'
  BY <1>0, <1>17 DEF AdminRetry
<1>18. ASSUME NEW r \in Runners, AdminRetryCommit(r) PROVE Exclusive'
  BY <1>0, <1>18 DEF AdminRetryCommit
<1>19. ASSUME NEW r \in Runners, AdminRetryRollback(r) PROVE Exclusive'
  BY <1>0, <1>19 DEF AdminRetryRollback
<1>20. ASSUME NEW r \in Runners, AdminRequeue(r) PROVE Exclusive'
  BY <1>0, <1>20 DEF AdminRequeue
<1>21. ASSUME NEW r \in Runners, Crash(r) PROVE Exclusive'
  BY <1>0, <1>21, Left DEF Crash, Release
<1>22. ASSUME NEW q \in Recoverers, NEW S \in SUBSET Tasks, RecoverSelect(q, S) PROVE Exclusive'
  BY <1>0, <1>22 DEF RecoverSelect, Selectable, Free, Stale
<1>23. ASSUME NEW q \in Recoverers, RecoverCommit(q) PROVE Exclusive'
  <2>1. \A t \in Tasks : row'[t] # row[t] => t \in DOMAIN batch[q]
    BY <1>0, <1>23 DEF RecoverCommit
  <2>2. RunsUnfinished'
    BY <1>0, <1>23, <2>1 DEF RecoverCommit
  <2>3. \A s \in Runners : runner[s].pc = "resetting" => runner[s].task \notin DOMAIN batch[q]
    BY <1>0
  <2>4. ResetHoldsRow'
    BY <1>0, <1>23, <2>1, <2>3 DEF RecoverCommit, RecoverEnd
  <2>5. batch'[q] = [t \in {} |-> NoRow] /\ \A s \in Recoverers \ {q} : batch'[s] = batch[s]
    BY <1>0, <1>23 DEF RecoverCommit, RecoverEnd
  <2>6. \A s \in Recoverers \ {q} : DOMAIN batch[s] \cap DOMAIN batch[q] = {}
    OBVIOUS
  <2>7. BatchHoldsRows' /\ BatchIsDead'
    BY <1>0, <1>23, <2>1, <2>5, <2>6 DEF RecoverCommit, RecoverEnd
  <2>8. OneRunner' /\ AdminOnlyRuns'
    BY <1>23 DEF RecoverCommit
  <2> QED
    BY <2>2, <2>4, <2>7, <2>8
<1>24. ASSUME NEW q \in Recoverers, RecoverCrash(q) PROVE Exclusive'
  BY <1>0, <1>24 DEF RecoverCrash, RecoverEnd
<1>25. ASSUME NEW p \in Purgers, NEW S \in SUBSET Tasks, PurgeSelect(p, S) PROVE Exclusive'
  BY <1>0, <1>25 DEF PurgeSelect
<1>26. ASSUME NEW p \in Purgers, PurgeDelete(p) PROVE Exclusive'
  BY <1>0, <1>26 DEF PurgeDelete, NoRow
<1>27. CASE UNCHANGED vars
  BY <1>27 DEF vars
<1> QED
  BY <1>1, <1>2, <1>3, <1>4, <1>5, <1>6, <1>7, <1>8, <1>9, <1>10, <1>11, <1>12, <1>13, <1>14,
    <1>15, <1>16, <1>17, <1>18, <1>19, <1>20, <1>21, <1>22, <1>23, <1>24, <1>25, <1>26,
    <1>27 DEF Next, RunnerStep, Quiet

\* Where rows can be locked, recovery waits longer than any task runs and
\* the admin neither retries nor requeues, no two threads ever run the same
\* task: not a fetch, a delivery, a retry by id nor a recovery of one task,
\* in any order and with any deaths in between, hands it to a second thread.
THEOREM RunnersExclusive ==
  ASSUME RowLocks, ~Premature, AdminActions \subseteq {"run"}
  PROVE  Spec => []OneRunner
<1>1. Spec => []Exclusive
  BY TypeInit, TypeStep, ExclusiveInit, ExclusiveStep, PTL DEF Spec
<1>2. Exclusive => OneRunner
  BY DEF Exclusive
<1> QED
  BY <1>1, <1>2, PTL

-----------------------------------------------------------------------------
LEMMA CountedInit == ~AllowRetry /\ Init => Counted
BY ActorsAssumption, OptionsAssumption DEF Init, Counted, WithinAttempts, ReadyHasAttempt,
  ClaimHoldsRow,
   CallersTakeReady, BatchHoldsRows, AdminOnlyRuns, Idle, NoRow

LEMMA CountedStep ==
  ASSUME RowLocks, ~AllowRetry, AdminActions \subseteq {"run"}
  PROVE  TypeOK /\ Counted /\ [Next]_vars => Counted'
<1> SUFFICES ASSUME TypeOK, Counted, [Next]_vars PROVE Counted'
  OBVIOUS
<1> USE ActorsAssumption, OptionsAssumption
<1> USE DEF Counted, WithinAttempts, ReadyHasAttempt, ClaimHoldsRow, CallersTakeReady,
      BatchHoldsRows, AdminOnlyRuns
<1>0. /\ row \in [Tasks -> Row] /\ lock \in [Tasks -> Runners \cup Recoverers \cup {NoOne}]
      /\ runner \in [Runners -> Runner] /\ DOMAIN batch = Recoverers
      /\ \A q \in Recoverers : DOMAIN batch[q] \subseteq Tasks
      /\ \A r \in Runners : runner[r].pc # "idle" => runner[r].task \in Tasks
      /\ \A t \in Tasks : row[t].worker_ids \in Nat
  BY DEF TypeOK, IsBatch, Runner, Row
<1>1. ASSUME NEW t \in Tasks, Enqueue(t) PROVE Counted'
  BY <1>0, <1>1 DEF Enqueue
<1>2. ASSUME NEW t \in Tasks, BecomeDue(t) PROVE Counted'
  BY <1>0, <1>2 DEF BecomeDue
<1>3. ASSUME NEW w \in Workers, NEW t \in Tasks, FetchTask(w, t) PROVE Counted'
  BY <1>0, <1>3, Moved DEF FetchTask, Acquire, Selectable, Free, Fetchable
<1>4. ASSUME NEW c \in Callers, NEW t \in Tasks, RunById(c, t) PROVE Counted'
  BY <1>0, <1>4, Moved DEF RunById, Acquire, Selectable, Free
<1>5. ASSUME NEW a \in Admins, NEW t \in Tasks, AdminRun(a, t) PROVE Counted'
  BY <1>0, <1>5, Moved DEF AdminRun
<1>6. ASSUME NEW a \in Admins, NEW t \in Tasks, AdminRead(a, t) PROVE Counted'
  BY <1>0, <1>6 DEF AdminRead
<1>7. ASSUME NEW r \in Runners, FetchReturn(r) PROVE Counted'
  BY <1>0, <1>7, Moved DEF FetchReturn, Goto, Release
<1>8. ASSUME NEW r \in Runners, ResetAndRun(r) PROVE Counted'
  BY <1>0, <1>8, Moved, Left, RowFields, SMTT(30) DEF ResetAndRun, Goto, Release, Free
<1>9. ASSUME NEW r \in Runners, ClaimSelect(r) PROVE Counted'
  <2> DEFINE t == runner[r].task
             db == [runner[r].db EXCEPT !.worker_ids = row[t].worker_ids]
  <2>1. t \in Tasks /\ runner[r].db \in Row
    BY <1>0, <1>9 DEF ClaimSelect, Runner
  <2>2. db.worker_ids = row[t].worker_ids /\ lock' = [lock EXCEPT ![t] = r]
    BY <2>1, <1>9 DEF ClaimSelect, Acquire, Row
  <2>3. /\ runner'[r].pc = "claiming" /\ runner'[r].task = t /\ runner'[r].db = db
        /\ \A s \in Runners \ {r} : runner'[s] = runner[s]
    BY <1>9, Moved DEF ClaimSelect, Goto, StoredIds
  <2>4. lock[t] \in {NoOne, r}
    BY <1>9 DEF ClaimSelect, Claimable, Selectable, Free
  <2>5. ClaimHoldsRow' /\ CallersTakeReady' /\ AdminOnlyRuns'
    <3>1. ASSUME NEW s \in Runners \ {r}, runner[s].pc = "claiming"
          PROVE  runner[s].task \in Tasks \ {t}
      BY <1>0, <2>4, <3>1
    <3>2. runner[r].pc = "fetched" /\ row' = row
      BY <1>9 DEF ClaimSelect
    <3>3. ClaimHoldsRow'
      <4> SUFFICES ASSUME NEW s \in Runners, runner'[s].pc = "claiming"
                   PROVE  /\ lock'[runner'[s].task] = s
                          /\ runner'[s].db.worker_ids = row'[runner'[s].task].worker_ids
        OBVIOUS
      <4> HIDE DEF db, Counted, BatchHoldsRows
      <4>1. CASE s = r
        BY <1>0, <2>1, <2>2, <2>3, <3>2, <4>1
      <4>2. CASE s # r
        BY <1>0, <2>2, <2>3, <3>1, <3>2, <4>2 DEF Counted
      <4> QED
        BY <4>1, <4>2
    <3> QED
      BY <2>3, <3>2, <3>3
  <2>6. BatchHoldsRows'
    BY <1>0, <1>9, <2>1, <2>2, <2>4 DEF ClaimSelect
  <2> QED
    BY <2>5, <2>6, <1>9 DEF ClaimSelect
<1>10. ASSUME NEW r \in Runners, ClaimMiss(r) PROVE Counted'
  BY <1>0, <1>10, Left DEF ClaimMiss
<1>11. ASSUME NEW r \in Runners, ClaimUpdate(r) PROVE Counted'
  <2> DEFINE t == runner[r].task
             db == [runner[r].db EXCEPT !.worker_ids = @ + 1]
  <2>1. t \in Tasks /\ runner[r].db \in Row /\ row[t] \in Row
    BY <1>0, <1>11 DEF ClaimUpdate, Runner
  <2>2. lock[t] = r /\ runner[r].db.worker_ids = row[t].worker_ids
    BY <1>11 DEF ClaimUpdate
  <2>3. CASE Leave(r) /\ UNCHANGED row
    BY <1>0, <2>1, <2>3, <1>11, Left DEF ClaimUpdate, Release
  <2>4. CASE StillReady(t) /\ Goto(r, "claimed", db)
    <3>1. /\ runner'[r].pc = "claimed"
          /\ \A s \in Runners \ {r} : runner'[s] = runner[s]
      BY <2>4, Moved DEF Goto
    <3>2. row' = [row EXCEPT ![t] = Claimed(@, db.worker_ids)]
      BY <1>11, <2>4 DEF ClaimUpdate
    <3>3. /\ row'[t].status = "RUNNING" /\ row'[t].worker_ids = row[t].worker_ids + 1
          /\ \A u \in Tasks \ {t} : row'[u] = row[u]
      BY <1>0, <2>1, <2>2, <3>2, RowFields
    <3>4. WithinAttempts' /\ ReadyHasAttempt'
      BY <1>0, <2>1, <2>4, <3>3 DEF StillReady
    <3>5. ClaimHoldsRow' /\ CallersTakeReady' /\ AdminOnlyRuns'
      BY <1>0, <1>11, <2>1, <2>2, <3>1, <3>3, SMTT(30) DEF ClaimUpdate, Release
    <3>6. BatchHoldsRows'
      BY <1>0, <1>11, <2>1, <2>2, <3>3 DEF ClaimUpdate, Release
    <3> QED
      BY <3>4, <3>5, <3>6
  <2> QED
    BY <2>3, <2>4, <1>11 DEF ClaimUpdate
<1>12. ASSUME NEW r \in Runners, StartTask(r) PROVE Counted'
  BY <1>0, <1>12, Moved DEF StartTask, Goto
<1>13. ASSUME NEW r \in Runners, TaskReturns(r) PROVE Counted'
  <2> DEFINE t == runner[r].task
  <2>1. t \in Tasks /\ row[t] \in Row /\ lock[t] \in {NoOne, r}
    BY <1>0, <1>13 DEF TaskReturns, Free
  <2>2. /\ runner'[r].pc \in {"saved", "failing"}
        /\ \A s \in Runners \ {r} : runner'[s] = runner[s]
    BY <1>13, Moved DEF TaskReturns, Goto
  <2>3. CASE UNCHANGED row
    BY <1>0, <1>13, <2>2, <2>3 DEF TaskReturns
  <2>4. CASE row' = [row EXCEPT ![t] = Succeeded(@)]
    <3>1. /\ row'[t].status = "SUCCESSFUL" /\ row'[t].worker_ids = row[t].worker_ids
          /\ \A u \in Tasks \ {t} : row'[u] = row[u]
      BY <1>0, <2>1, <2>4, RowSucceeded
    <3>2. WithinAttempts' /\ ReadyHasAttempt'
      BY <1>0, <2>1, <3>1
    <3>3. ClaimHoldsRow' /\ CallersTakeReady' /\ AdminOnlyRuns'
      <4>1. ASSUME NEW s \in Runners \ {r}, runner[s].pc = "claiming"
            PROVE  runner[s].task \in Tasks \ {t}
        BY <1>0, <2>1, <4>1
      <4> QED
        BY <1>13, <2>2, <3>1, <4>1 DEF TaskReturns
    <3>4. BatchHoldsRows'
      BY <1>0, <1>13, <2>1, <3>1 DEF TaskReturns
    <3> QED
      BY <3>2, <3>3, <3>4
  <2> QED
    BY <2>3, <2>4, <1>13 DEF TaskReturns
<1>14. ASSUME NEW r \in Runners, TaskRaises(r) PROVE Counted'
  BY <1>0, <1>14, Moved DEF TaskRaises, Goto
<1>15. ASSUME NEW r \in Runners, TaskFinished(r) PROVE Counted'
  BY <1>0, <1>15, Moved, Left, SMTT(30) DEF TaskFinished, Goto, Stored, Completed
<1>16. ASSUME NEW r \in Runners, RecordError(r) PROVE Counted'
  BY <1>0, <1>16, Left, RowFields DEF RecordError, Free
<1>17. ASSUME NEW r \in Runners, AdminRetry(r) PROVE Counted'
  BY <1>0, <1>17 DEF AdminRetry
<1>18. ASSUME NEW r \in Runners, AdminRetryCommit(r) PROVE Counted'
  BY <1>0, <1>18 DEF AdminRetryCommit
<1>19. ASSUME NEW r \in Runners, AdminRetryRollback(r) PROVE Counted'
  BY <1>0, <1>19 DEF AdminRetryRollback
<1>20. ASSUME NEW r \in Runners, AdminRequeue(r) PROVE Counted'
  BY <1>0, <1>20 DEF AdminRequeue
<1>21. ASSUME NEW r \in Runners, Crash(r) PROVE Counted'
  BY <1>0, <1>21, Left DEF Crash, Release
<1>22. ASSUME NEW q \in Recoverers, NEW S \in SUBSET Tasks, RecoverSelect(q, S) PROVE Counted'
  BY <1>0, <1>22 DEF RecoverSelect, Selectable, Free, Stale
<1>23. ASSUME NEW q \in Recoverers, RecoverCommit(q) PROVE Counted'
  <2>1. /\ \A t \in Tasks : row'[t] # row[t] => t \in DOMAIN batch[q]
        /\ \A t \in Tasks : row'[t].worker_ids = row[t].worker_ids
        /\ \A t \in Tasks :
             row'[t] # row[t] /\ MaxAttempts > 0 /\ row'[t].status \in {"NEW", "READY"} =>
               row[t].worker_ids < MaxAttempts
    <3>1. ASSUME NEW t \in DOMAIN batch[q], NEW mark_failed \in MarkFailed,
                 ~IsGivenUpOn(batch[q][t], mark_failed), MaxAttempts > 0
          PROVE  row[t].worker_ids < MaxAttempts
      BY <1>0, <3>1 DEF IsGivenUpOn
    <3>2. ASSUME NEW x \in Row, NEW y \in Row
          PROVE  /\ Requeued(x).worker_ids = x.worker_ids
                 /\ GivenUp(x, y).worker_ids = x.worker_ids
                 /\ GivenUp(x, y).status = "FAILED"
      BY RowFields DEF GivenUp
    <3>3. \A t \in DOMAIN batch[q] : t \in Tasks /\ row[t] = batch[q][t] /\ row[t] \in Row
      BY <1>0
    <3> QED
      BY <1>0, <1>23, <3>1, <3>2, <3>3 DEF RecoverCommit
  <2>2. WithinAttempts' /\ ReadyHasAttempt'
    <3> SUFFICES ASSUME MaxAttempts > 0, NEW t \in Tasks
                 PROVE  /\ row'[t].worker_ids <= MaxAttempts
                        /\ row'[t].status \in {"NEW", "READY"} => row'[t].worker_ids < MaxAttempts
      OBVIOUS
    <3>1. /\ row'[t].worker_ids = row[t].worker_ids
          /\ row'[t] # row[t] /\ row'[t].status \in {"NEW", "READY"} => row[t].worker_ids < MaxAttempts
      BY <2>1
    <3>2. row[t].worker_ids <= MaxAttempts
      OBVIOUS
    <3>3. row[t].status \in {"NEW", "READY"} => row[t].worker_ids < MaxAttempts
      OBVIOUS
    <3> HIDE DEF Counted, WithinAttempts, ReadyHasAttempt, BatchHoldsRows
    <3>4. CASE row'[t] = row[t]
      BY <3>2, <3>3, <3>4
    <3>5. CASE row'[t] # row[t]
      BY <3>1, <3>2, <3>5
    <3> QED
      BY <3>4, <3>5
  <2>3. ClaimHoldsRow' /\ CallersTakeReady' /\ AdminOnlyRuns'
    BY <1>0, <1>23, <2>1 DEF RecoverCommit, RecoverEnd
  <2>4. batch'[q] = [t \in {} |-> NoRow] /\ \A s \in Recoverers \ {q} : batch'[s] = batch[s]
    BY <1>0, <1>23 DEF RecoverCommit, RecoverEnd
  <2>5. \A s \in Recoverers \ {q} : DOMAIN batch[s] \cap DOMAIN batch[q] = {}
    OBVIOUS
  <2>6. BatchHoldsRows'
    BY <1>0, <1>23, <2>1, <2>4, <2>5 DEF RecoverCommit, RecoverEnd
  <2> QED
    BY <2>2, <2>3, <2>6
<1>24. ASSUME NEW q \in Recoverers, RecoverCrash(q) PROVE Counted'
  BY <1>0, <1>24 DEF RecoverCrash, RecoverEnd
<1>25. ASSUME NEW p \in Purgers, NEW S \in SUBSET Tasks, PurgeSelect(p, S) PROVE Counted'
  BY <1>0, <1>25 DEF PurgeSelect
<1>26. ASSUME NEW p \in Purgers, PurgeDelete(p) PROVE Counted'
  BY <1>0, <1>26 DEF PurgeDelete, NoRow
<1>27. CASE UNCHANGED vars
  BY <1>27 DEF vars
<1> QED
  BY <1>1, <1>2, <1>3, <1>4, <1>5, <1>6, <1>7, <1>8, <1>9, <1>10, <1>11, <1>12, <1>13, <1>14,
    <1>15, <1>16, <1>17, <1>18, <1>19, <1>20, <1>21, <1>22, <1>23, <1>24, <1>25, <1>26,
    <1>27 DEF Next, RunnerStep, Quiet

\* Where rows can be locked and nobody retries by hand, no task is handed to
\* more than max_attempts workers, be the recovery ever so hasty.
THEOREM AttemptsBounded ==
  ASSUME RowLocks, ~AllowRetry, AdminActions \subseteq {"run"}
  PROVE  Spec => []WithinAttempts
<1>1. Spec => []Counted
  BY TypeInit, TypeStep, CountedInit, CountedStep, PTL DEF Spec
<1>2. Counted => WithinAttempts
  BY DEF Counted
<1> QED
  BY <1>1, <1>2, PTL

-----------------------------------------------------------------------------
LEMMA FinishedInit == Init => FinishedWhenCompleted
BY DEF Init, FinishedWhenCompleted, NoRow, Completed

LEMMA FinishedStep == TypeOK /\ FinishedWhenCompleted /\ [Next]_vars => FinishedWhenCompleted'
<1> SUFFICES ASSUME TypeOK, FinishedWhenCompleted, [Next]_vars PROVE FinishedWhenCompleted'
  OBVIOUS
<1> USE DEF FinishedWhenCompleted, Completed
<1>0. /\ row \in [Tasks -> Row] /\ runner \in [Runners -> Runner]
      /\ \A r \in Runners : runner[r].pc # "idle" => runner[r].task \in Tasks
  BY DEF TypeOK, Runner, Row
<1>1. ASSUME NEW t \in Tasks, Enqueue(t) PROVE FinishedWhenCompleted'
  BY <1>0, <1>1 DEF Enqueue
<1>2. ASSUME NEW r \in Runners, ResetAndRun(r) PROVE FinishedWhenCompleted'
  <2> DEFINE t == runner[r].task
  <2>1. t \in Tasks /\ row[t] \in Row /\ runner[r].db \in Row
    BY <1>0, <1>2 DEF ResetAndRun, Runner
  <2>2. UNCHANGED row \/ row' = [row EXCEPT ![t] = Requeued(@)]
    BY <1>2 DEF ResetAndRun
  <2> QED
    BY <1>0, <2>1, <2>2, RowFields, RowFinished
<1>3. ASSUME NEW r \in Runners, ClaimUpdate(r) PROVE FinishedWhenCompleted'
  <2> DEFINE t == runner[r].task
  <2>1. t \in Tasks /\ row[t] \in Row /\ runner[r].db \in Row
    BY <1>0, <1>3 DEF ClaimUpdate, Runner
  <2>2. UNCHANGED row \/ (row[t].status = "READY" /\ \E n : row' = [row EXCEPT ![t] = Claimed(@, n)])
    BY <1>3 DEF ClaimUpdate, StillReady
  <2> QED
    BY <1>0, <2>1, <2>2, RowFields, RowFinished
<1>4. ASSUME NEW r \in Runners, TaskReturns(r) PROVE FinishedWhenCompleted'
  <2> DEFINE t == runner[r].task
  <2>1. t \in Tasks /\ row[t] \in Row /\ runner[r].db \in Row
    BY <1>0, <1>4 DEF TaskReturns, Runner
  <2>2. UNCHANGED row \/ row' = [row EXCEPT ![t] = Succeeded(@)]
    BY <1>4 DEF TaskReturns
  <2> QED
    BY <1>0, <2>1, <2>2, RowFields, RowFinished, SMTT(30)
<1>5. ASSUME NEW r \in Runners, RecordError(r) PROVE FinishedWhenCompleted'
  <2> DEFINE t == runner[r].task
  <2>1. t \in Tasks /\ row[t] \in Row /\ runner[r].db \in Row
    BY <1>0, <1>5 DEF RecordError, Runner
  <2>2. UNCHANGED row \/ \E n : row' = [row EXCEPT ![t] = Failed(@, n)]
    BY <1>5 DEF RecordError
  <2> QED
    BY <1>0, <2>1, <2>2, RowFields, RowFinished
<1>6. ASSUME NEW r \in Runners, AdminRetryCommit(r) PROVE FinishedWhenCompleted'
  <2> DEFINE t == runner[r].task
  <2>1. t \in Tasks /\ row[t] \in Row /\ runner[r].db \in Row
    BY <1>0, <1>6 DEF AdminRetryCommit, Runner
  <2>2. UNCHANGED row \/ \E x \in {Failed(runner[r].db, 1), Succeeded(runner[r].db)} : row' = [row EXCEPT ![t] = x]
    BY <1>6 DEF AdminRetryCommit
  <2> QED
    BY <1>0, <2>1, <2>2, RowFields, RowFinished
<1>7. ASSUME NEW r \in Runners, AdminRequeue(r) PROVE FinishedWhenCompleted'
  <2> DEFINE t == runner[r].task
  <2>1. t \in Tasks /\ row[t] \in Row /\ runner[r].db \in Row
    BY <1>0, <1>7 DEF AdminRequeue, Runner
  <2>2. UNCHANGED row \/ row' = [row EXCEPT ![t] = Requeued(@)]
    BY <1>7 DEF AdminRequeue
  <2> QED
    BY <1>0, <2>1, <2>2, RowFields, RowFinished
<1>8. ASSUME NEW q \in Recoverers, RecoverCommit(q) PROVE FinishedWhenCompleted'
  <2> SUFFICES ASSUME NEW t \in Tasks
               PROVE  row'[t].finished <=> row'[t].status \in Completed
    OBVIOUS
  <2>1. \/ row'[t] = row[t] \/ row'[t] = Requeued(row[t])
        \/ \E n : row'[t] = Failed(row[t], n)
    BY <1>8 DEF RecoverCommit, GivenUp
  <2>2. row[t] \in Row
    BY <1>0
  <2> QED
    BY <2>1, <2>2, RowFields, RowFinished
<1>9. ASSUME NEW p \in Purgers, PurgeDelete(p) PROVE FinishedWhenCompleted'
  BY <1>0, <1>9 DEF PurgeDelete, NoRow
<1>10. CASE UNCHANGED row
  BY <1>10
<1> QED
  BY <1>1, <1>2, <1>3, <1>4, <1>5, <1>6, <1>7, <1>8, <1>9, <1>10 DEF
    Next, RunnerStep, Quiet, vars, BecomeDue, FetchTask, RunById, AdminRun, AdminRead,
    FetchReturn, ClaimSelect, ClaimMiss, StartTask, TaskRaises, TaskFinished, AdminRetry,
    AdminRetryRollback, Crash, RecoverSelect, RecoverCrash, PurgeSelect

\* Whatever the options and the database: a row has finished_at set exactly
\* when it is completed, so a purge by age sees every completed row.
THEOREM FinishedIsCompleted == Spec => []FinishedWhenCompleted
BY TypeInit, TypeStep, FinishedInit, FinishedStep, PTL DEF Spec

-----------------------------------------------------------------------------
(* What no step does to a row or to a runner.                              *)

\* What a runner has in hand is a task, unless it is idle.
LEMMA Typed ==
  ASSUME TypeOK
  PROVE  /\ row \in [Tasks -> Row] /\ lock \in [Tasks -> Runners \cup Recoverers \cup {NoOne}]
         /\ runner \in [Runners -> Runner] /\ DOMAIN batch = Recoverers
         /\ \A q \in Recoverers : DOMAIN batch[q] \subseteq Tasks
         /\ \A r \in Runners : /\ runner[r].pc # "idle" => runner[r].task \in Tasks
                               /\ runner[r].db \in Row
         /\ doomed \in [Purgers -> SUBSET Tasks]
BY DEF TypeOK, IsBatch, Runner

-----------------------------------------------------------------------------
(* Nobody runs a task without having claimed it.                           *)

Begins(r, t) == ~Runs(r, t) /\ Runs(r, t)'

Retries(r, t) == Runs(r, t) /\ runner[r].pc = "retrying"

BeginsAlone(r, t) ==
  /\ BeginsByClaim(t) \/ BeginsByRetry(r)
  /\ \A s \in Runners \ {r} : (Runs(s, t)' => Runs(s, t)) /\ ~Retries(s, t)

\* The admin's retry has read a FAILED row, and holds the row it retries.
RetryHolds ==
  \A r \in Runners :
    /\ runner[r].pc = "retry_read" => runner[r].db.status = "FAILED"
    /\ runner[r].pc = "retrying" => lock[runner[r].task] = r

LEMMA RetryHoldsInit == Init => RetryHolds
BY DEF Init, RetryHolds, Idle

\* What may happen to the lock of a row in a step of the thread r: another
\* holder keeps it.
LockKept(r) == \A s \in Runners \ {r}, t \in Tasks : lock[t] = s => lock'[t] = s

LEMMA LocksKept ==
  ASSUME TypeOK, NEW r \in Runners \cup Recoverers, NEW t \in Tasks,
         \/ UNCHANGED lock \/ lock' = Release(t, r)
         \/ lock[t] \in {NoOne, r} /\ lock' = [lock EXCEPT ![t] = r]
         \/ Selectable(t, r) /\ lock' = Acquire(t, r)
  PROVE  LockKept(r)
BY ActorsAssumption, Typed DEF LockKept, Release, Acquire, Selectable, Free

\* A thread that moves on, not to "retrying", leaves the others what they hold.
LEMMA OthersHold ==
  ASSUME TypeOK, RetryHolds, NEW r \in Runners, LockKept(r), NEW pc, NEW u, NEW db,
         Take(r, pc, u, db) \/ (Leave(r) /\ pc = "idle"),
         pc \notin {"retry_read", "retrying"}
  PROVE  RetryHolds'
<1>1. runner'[r].pc = pc /\ \A s \in Runners \ {r} : runner'[s] = runner[s]
  BY Moved, Left
<1> QED
  BY <1>1, Typed DEF RetryHolds, LockKept

LEMMA RetryHoldsStep == TypeOK /\ RetryHolds /\ [Next]_vars => RetryHolds'
<1> SUFFICES ASSUME TypeOK, RetryHolds, [Next]_vars PROVE RetryHolds'
  OBVIOUS
<1>0. \A r \in Runners : runner[r].pc # "idle" => runner[r].task \in Tasks
  BY Typed
<1>1. CASE UNCHANGED <<runner, lock>>
  BY <1>1 DEF RetryHolds
<1>2. ASSUME NEW w \in Workers, NEW t \in Tasks, FetchTask(w, t) PROVE RetryHolds'
  BY <1>2, LocksKept, OthersHold DEF FetchTask, Fetchable, Runners
<1>3. ASSUME NEW c \in Callers, NEW t \in Tasks, RunById(c, t) PROVE RetryHolds'
  BY <1>3, LocksKept, OthersHold DEF RunById, Runners
<1>4. ASSUME NEW a \in Admins, NEW t \in Tasks, AdminRun(a, t) PROVE RetryHolds'
  BY <1>4, LocksKept, OthersHold DEF AdminRun, Runners
<1>5. ASSUME NEW a \in Admins, NEW t \in Tasks, AdminRead(a, t) PROVE RetryHolds'
  <2>1. PICK pc \in {"retry_read", "requeue_read"} :
          Take(a, pc, t, row[t]) /\ (pc = "retry_read" => row[t].status = "FAILED")
    BY <1>5 DEF AdminRead
  <2>2. /\ runner'[a].pc = pc /\ runner'[a].db = row[t] /\ lock' = lock
        /\ \A s \in Runners \ {a} : runner'[s] = runner[s]
    BY <1>5, <2>1, Moved DEF AdminRead, Runners
  <2> QED
    BY <2>1, <2>2 DEF RetryHolds
<1>6. ASSUME NEW r \in Runners, FetchReturn(r) \/ ResetAndRun(r) PROVE RetryHolds'
  BY <1>0, <1>6, LocksKept, OthersHold DEF FetchReturn, ResetAndRun, Goto
<1>7. ASSUME NEW r \in Runners, ClaimSelect(r) PROVE RetryHolds'
  <2>1. LockKept(r)
    BY <1>0, <1>7, LocksKept DEF ClaimSelect, Claimable
  <2>2. PICK db : Take(r, "claiming", runner[r].task, db)
    BY <1>7 DEF ClaimSelect, Goto
  <2> QED
    BY <2>1, <2>2, OthersHold
<1>8. ASSUME NEW r \in Runners, ClaimMiss(r) \/ ClaimUpdate(r) PROVE RetryHolds'
  BY <1>0, <1>8, LocksKept, OthersHold DEF ClaimMiss, ClaimUpdate, Goto
<1>9. ASSUME NEW r \in Runners,
             StartTask(r) \/ TaskReturns(r) \/ TaskRaises(r) \/ TaskFinished(r) \/ RecordError(r)
      PROVE  RetryHolds'
  BY <1>0, <1>9, LocksKept, OthersHold
     DEF StartTask, TaskReturns, TaskRaises, TaskFinished, RecordError, Goto
<1>10. ASSUME NEW r \in Runners, AdminRetry(r) PROVE RetryHolds'
  <2>1. /\ runner'[r].pc = "retrying" /\ runner'[r].task = runner[r].task
        /\ runner[r].task \in Tasks /\ lock' = [lock EXCEPT ![runner[r].task] = r]
        /\ lock[runner[r].task] \in {NoOne, r}
        /\ \A s \in Runners \ {r} : runner'[s] = runner[s]
    BY <1>0, <1>10, Moved DEF AdminRetry, Goto, Free
  <2>2. LockKept(r)
    BY <2>1, LocksKept
  <2> QED
    BY <1>0, <2>1, <2>2, Typed DEF RetryHolds, LockKept
<1>11. ASSUME NEW r \in Runners,
              AdminRetryCommit(r) \/ AdminRetryRollback(r) \/ AdminRequeue(r) \/ Crash(r)
       PROVE  RetryHolds'
  BY <1>0, <1>11, LocksKept, OthersHold
     DEF AdminRetryCommit, AdminRetryRollback, AdminRequeue, Crash
<1>12. ASSUME NEW q \in Recoverers,
              \/ \E S \in SUBSET Tasks : RecoverSelect(q, S)
              \/ RecoverCommit(q) \/ RecoverCrash(q)
       PROVE  RetryHolds'
  <2>1. runner' = runner
    BY <1>12 DEF RecoverSelect, RecoverCommit, RecoverCrash
  <2>2. \A t \in Tasks : lock[t] \in Runners => lock'[t] = lock[t]
    BY <1>12, Typed, ActorsAssumption
       DEF RecoverSelect, RecoverCommit, RecoverCrash, RecoverEnd, Selectable, Free
  <2> QED
    BY <1>0, <2>1, <2>2 DEF RetryHolds
<1> QED
  BY <1>1, <1>2, <1>3, <1>4, <1>5, <1>6, <1>7, <1>8, <1>9, <1>10, <1>11, <1>12 DEF Next, RunnerStep,
     Quiet, vars, Enqueue, BecomeDue, PurgeSelect, PurgeDelete

\* A step that moves one runner to where it runs nothing begins nothing, nor
\* does one of a runner that ran its task already.
LEMMA BeginsNothing ==
  ASSUME TypeOK, NEW r \in Runners, NEW pc, NEW u, NEW db,
         Take(r, pc, u, db) \/ (Leave(r) /\ pc = "idle"),
         pc \in Executing \cup {"saved", "retrying"} => Runs(r, u)
  PROVE  \A s \in Runners, t \in Tasks : ~Begins(s, t)
<1>1. runner'[r].pc = pc /\ \A s \in Runners \ {r} : runner'[s] = runner[s]
  BY Moved, Left
<1>2. pc \in Executing \cup {"saved", "retrying"} => runner'[r].task = u
  BY Moved DEF Executing
<1>3. \A t \in Tasks : ~Begins(r, t)
  BY <1>1, <1>2 DEF Begins, Runs
<1>4. \A s \in Runners \ {r}, t \in Tasks : ~Begins(s, t)
  BY <1>1 DEF Begins, Runs
<1> QED
  BY <1>3, <1>4

LEMMA ClaimsStep ==
  TypeOK /\ RetryHolds /\ [Next]_vars =>
    \A r \in Runners, t \in Tasks : Begins(r, t) => BeginsAlone(r, t)
<1> DEFINE Good == \A r \in Runners, t \in Tasks : Begins(r, t) => BeginsAlone(r, t)
           None == \A r \in Runners, t \in Tasks : ~Begins(r, t)
<1> SUFFICES ASSUME TypeOK, RetryHolds, [Next]_vars PROVE Good
  OBVIOUS
<1>0. None => Good
  OBVIOUS
<1>00. ASSUME NEW r \in Runners, Free(runner[r].task, r)
       PROVE  \A s \in Runners \ {r} : ~Retries(s, runner[r].task)
  BY <1>00, ActorsAssumption DEF RetryHolds, Free, Retries, Runs
<1> HIDE DEF None
<1>1. CASE UNCHANGED runner
  BY <1>1 DEF None, Begins, Runs
<1>2. ASSUME NEW w \in Workers, NEW t \in Tasks, FetchTask(w, t) PROVE None
  BY <1>2, BeginsNothing DEF FetchTask, Executing, None
<1>3. ASSUME NEW c \in Callers, NEW t \in Tasks, RunById(c, t) PROVE None
  BY <1>3, BeginsNothing DEF RunById, Executing, None
<1>4. ASSUME NEW a \in Admins, NEW t \in Tasks, AdminRun(a, t) \/ AdminRead(a, t) PROVE None
  BY <1>4, BeginsNothing DEF AdminRun, AdminRead, Executing, None
<1>5. ASSUME NEW r \in Runners,
             FetchReturn(r) \/ ResetAndRun(r) \/ ClaimSelect(r) \/ ClaimMiss(r)
      PROVE  None
  BY <1>5, BeginsNothing DEF FetchReturn, ResetAndRun, ClaimSelect, ClaimMiss, Goto, Executing, None
<1>6. ASSUME NEW r \in Runners, ClaimUpdate(r) PROVE Good
  <2> DEFINE t == runner[r].task
             db == [runner[r].db EXCEPT !.worker_ids = @ + 1]
  <2>1. CASE Leave(r)
    BY <1>0, <2>1, BeginsNothing DEF Executing, None
  <2>2. CASE StillReady(t) /\ Goto(r, "claimed", db)
    <3>1. /\ row[t].status = "READY" /\ row' = [row EXCEPT ![t] = Claimed(@, db.worker_ids)]
          /\ t \in Tasks /\ row[t] \in Row
      BY <1>6, <2>2, Typed DEF ClaimUpdate, StillReady
    <3>2. row'[t].status = "RUNNING"
      BY <3>1, Typed, RowFields
    <3>3. runner'[r].task = t /\ \A s \in Runners \ {r} : runner'[s] = runner[s]
      BY <2>2, Moved DEF Goto
    <3>4. \A s \in Runners \ {r} : ~Retries(s, t)
      BY <1>6, <1>00 DEF ClaimUpdate
    <3> QED
      BY <3>1, <3>2, <3>3, <3>4 DEF Begins, BeginsAlone, BeginsByClaim, Runs
  <2> QED
    BY <1>6, <2>1, <2>2 DEF ClaimUpdate
<1>7. ASSUME NEW r \in Runners,
             StartTask(r) \/ TaskReturns(r) \/ TaskRaises(r) \/ TaskFinished(r) \/ RecordError(r)
      PROVE  None
  BY <1>7, BeginsNothing
     DEF StartTask, TaskReturns, TaskRaises, TaskFinished, RecordError, Goto, Runs, Executing, None
<1>8. ASSUME NEW r \in Runners, AdminRetry(r) PROVE Good
  <2>1. /\ runner'[r].task = runner[r].task /\ BeginsByRetry(r)
        /\ \A s \in Runners \ {r} : runner'[s] = runner[s]
    BY <1>8, Moved DEF AdminRetry, Goto, BeginsByRetry, RetryHolds
  <2>2. \A s \in Runners \ {r} : ~Retries(s, runner[r].task)
    BY <1>8, <1>00 DEF AdminRetry
  <2> QED
    BY <2>1, <2>2 DEF Begins, BeginsAlone, Runs
<1>9. ASSUME NEW r \in Runners,
             AdminRetryCommit(r) \/ AdminRetryRollback(r) \/ AdminRequeue(r) \/ Crash(r)
      PROVE  None
  BY <1>9, BeginsNothing DEF AdminRetryCommit, AdminRetryRollback, AdminRequeue, Crash, Executing,
    None
<1> QED
  BY <1>0, <1>1, <1>2, <1>3, <1>4, <1>5, <1>6, <1>7, <1>8, <1>9 DEF Next, RunnerStep, Quiet, vars,
     Enqueue, BecomeDue, RecoverSelect, RecoverCommit, RecoverCrash, PurgeSelect, PurgeDelete

\* Whatever the database, the options and the other threads do, the admin's
\* retry apart: a thread begins to run a task only by making its row RUNNING
\* when it was READY.  The retry begins with a row it read as FAILED, and while
\* it runs nobody else begins the task.
THEOREM RunsOnlyWhatItClaimed == Spec => RunsWhatItClaimed
<1>1. TypeOK /\ RetryHolds /\ [Next]_vars => [\A r \in Runners, t \in Tasks :
        ~Runs(r, t) /\ Runs(r, t)' =>
          /\ BeginsByClaim(t) \/ BeginsByRetry(r)
          /\ \A s \in Runners \ {r} : /\ Runs(s, t)' => Runs(s, t)
                                     /\ ~(Runs(s, t) /\ runner[s].pc = "retrying")]_vars
  BY ClaimsStep DEF Begins, BeginsAlone, Retries
<1>2. Spec => []RetryHolds
  BY RetryHoldsInit, RetryHoldsStep, TypeCorrect, PTL DEF Spec
<1> QED
  BY <1>1, <1>2, TypeCorrect, PTL DEF Spec, RunsWhatItClaimed

-----------------------------------------------------------------------------
(* No attempt is forgotten.  Where rows can be locked and the admin does   *)
(* not save a copy of its own, what a claim has counted is still in the    *)
(* row when the claim is written.                                          *)

NoAdminRetry == \A r \in Runners : runner[r].pc \notin {"retry_read", "retrying"}

ClaimsCount == ClaimHoldsRow /\ NoAdminRetry

KeepsAttempts(t) ==
  row[t].status \in Stored /\ row'[t].status \in Stored =>
    row'[t].worker_ids = row[t].worker_ids +
      (IF row[t].status = "READY" /\ row'[t].status = "RUNNING" THEN 1 ELSE 0)

LEMMA ClaimsCountInit == Init => ClaimsCount
BY ActorsAssumption DEF Init, ClaimsCount, ClaimHoldsRow, NoAdminRetry, Idle

\* None of what a row becomes, other than by a claim, looks like a claim.
NoClaim(x, y) ==
  y.worker_ids = x.worker_ids /\ (x.status = "READY" => y.status # "RUNNING")

LEMMA EditsAreNoClaims ==
  ASSUME NEW x \in Row
  PROVE  /\ NoClaim(x, x) /\ NoClaim(x, Requeued(x)) /\ NoClaim(x, Succeeded(x))
         /\ \A n : NoClaim(x, Failed(x, n))
<1>1. NoClaim(x, x) /\ NoClaim(x, Requeued(x))
  BY RowFields DEF NoClaim
<1>2. NoClaim(x, Succeeded(x))
  BY RowSucceeded DEF NoClaim
<1>3. ASSUME NEW n PROVE NoClaim(x, Failed(x, n))
  BY RowFields DEF NoClaim
<1> QED
  BY <1>1, <1>2, <1>3

\* A row with the number of claims it had, in a status that is no claim.
LEMMA SameAttempts ==
  ASSUME NEW t \in Tasks, TypeOK, NoClaim(row[t], row'[t])
  PROVE  KeepsAttempts(t)
BY Typed DEF KeepsAttempts, NoClaim, Row

LEMMA ClaimsCountStep ==
  ASSUME RowLocks, "retry" \notin AdminActions
  PROVE  TypeOK /\ ClaimsCount /\ [Next]_vars =>
           ClaimsCount' /\ \A t \in Tasks : KeepsAttempts(t)
<1> SUFFICES ASSUME TypeOK, ClaimsCount, [Next]_vars
             PROVE  ClaimsCount' /\ \A t \in Tasks : KeepsAttempts(t)
  OBVIOUS
<1> USE ActorsAssumption
<1> DEFINE Good == ClaimsCount' /\ \A t \in Tasks : KeepsAttempts(t)
<1>0. /\ row \in [Tasks -> Row] /\ lock \in [Tasks -> Runners \cup Recoverers \cup {NoOne}]
      /\ runner \in [Runners -> Runner] /\ DOMAIN batch = Recoverers
      /\ \A q \in Recoverers : DOMAIN batch[q] \subseteq Tasks
      /\ \A r \in Runners : runner[r].pc # "idle" => runner[r].task \in Tasks
      /\ \A r \in Runners : runner[r].db \in Row
      /\ \A t \in Tasks : row[t] \in Row
      /\ \A t \in Tasks : row[t].worker_ids \in Nat
  BY Typed DEF Row
<1>00. UNCHANGED row => \A t \in Tasks : KeepsAttempts(t)
  BY <1>0, SameAttempts, EditsAreNoClaims
<1> USE DEF ClaimsCount, ClaimHoldsRow, NoAdminRetry
<1>1. ASSUME NEW t \in Tasks, Enqueue(t) PROVE Good
  BY <1>0, <1>1 DEF Enqueue, KeepsAttempts, Stored, Completed
<1>2. ASSUME NEW t \in Tasks, BecomeDue(t) PROVE Good
  BY <1>0, <1>00, <1>2 DEF BecomeDue
<1>3. ASSUME NEW w \in Workers, NEW t \in Tasks, FetchTask(w, t) PROVE Good
  BY <1>0, <1>00, <1>3, Moved DEF FetchTask, Acquire, Selectable, Free, Fetchable
<1>4. ASSUME NEW c \in Callers, NEW t \in Tasks, RunById(c, t) PROVE Good
  BY <1>0, <1>00, <1>4, Moved DEF RunById, Acquire, Selectable, Free
<1>5. ASSUME NEW a \in Admins, NEW t \in Tasks, AdminRun(a, t) PROVE Good
  BY <1>0, <1>00, <1>5, Moved DEF AdminRun
<1>6. ASSUME NEW a \in Admins, NEW t \in Tasks, AdminRead(a, t) PROVE Good
  BY <1>0, <1>00, <1>6, Moved DEF AdminRead
<1>7. ASSUME NEW r \in Runners, FetchReturn(r) PROVE Good
  BY <1>0, <1>00, <1>7, Moved DEF FetchReturn, Goto, Release
<1>8. ASSUME NEW r \in Runners, ResetAndRun(r) PROVE Good
  <2> DEFINE t == runner[r].task
  <2>1. t \in Tasks /\ row[t] \in Row /\ lock[t] \in {NoOne, r} /\ lock' = Release(t, r)
    BY <1>0, <1>8 DEF ResetAndRun, Free
  <2>2. /\ runner'[r].pc \in {"fetched", "idle"}
        /\ \A s \in Runners \ {r} : runner'[s] = runner[s]
    BY <1>8, Moved, Left DEF ResetAndRun, Goto
  <2>3. UNCHANGED row \/ row' = [row EXCEPT ![t] = Requeued(@)]
    BY <1>8 DEF ResetAndRun
  <2>4. \A u \in Tasks : NoClaim(row[u], row'[u])
    BY <1>0, <2>1, <2>3, EditsAreNoClaims
  <2>5. ClaimsCount'
    BY <1>0, <2>1, <2>2, <2>4 DEF Release, NoClaim
  <2> QED
    BY <2>4, <2>5, SameAttempts
<1>9. ASSUME NEW r \in Runners, ClaimSelect(r) PROVE Good
  <2> DEFINE t == runner[r].task
             db == [runner[r].db EXCEPT !.worker_ids = row[t].worker_ids]
  <2>1. t \in Tasks /\ runner[r].db \in Row /\ row' = row
    BY <1>0, <1>9 DEF ClaimSelect
  <2>2. db.worker_ids = row[t].worker_ids /\ lock' = [lock EXCEPT ![t] = r] /\ lock[t] \in {NoOne, r}
    BY <2>1, <1>9 DEF ClaimSelect, Acquire, Row, Claimable, Selectable, Free
  <2>3. /\ runner'[r].pc = "claiming" /\ runner'[r].task = t /\ runner'[r].db = db
        /\ \A s \in Runners \ {r} : runner'[s] = runner[s]
    BY <1>9, Moved DEF ClaimSelect, Goto, StoredIds
  <2> HIDE DEF db
  <2>4. \A s \in Runners \ {r} : runner[s].pc = "claiming" => runner[s].task \in Tasks \ {t}
    BY <1>0, <2>2
  <2>5. ClaimsCount'
    BY <1>0, <2>1, <2>2, <2>3, <2>4
  <2> QED
    BY <1>00, <2>1, <2>5
<1>10. ASSUME NEW r \in Runners, ClaimMiss(r) PROVE Good
  BY <1>0, <1>00, <1>10, Left DEF ClaimMiss
<1>11. ASSUME NEW r \in Runners, ClaimUpdate(r) PROVE Good
  <2> DEFINE t == runner[r].task
             db == [runner[r].db EXCEPT !.worker_ids = @ + 1]
  <2>1. t \in Tasks /\ runner[r].db \in Row /\ row[t] \in Row
    BY <1>0, <1>11 DEF ClaimUpdate
  <2>2. lock[t] = r /\ lock' = Release(t, r) /\ db.worker_ids = row[t].worker_ids + 1
    BY <1>11, <2>1 DEF ClaimUpdate, Row
  <2>3. /\ runner'[r].pc # "claiming" /\ runner'[r].pc \notin {"retry_read", "retrying"}
        /\ \A s \in Runners \ {r} : runner'[s] = runner[s]
    BY <1>11, Moved, Left DEF ClaimUpdate, Goto
  <2> HIDE DEF db
  <2>4. \A s \in Runners \ {r} : runner[s].pc = "claiming" => runner[s].task \in Tasks \ {t}
    BY <1>0, <2>2
  <2>5. CASE UNCHANGED row
    BY <1>0, <1>00, <2>1, <2>2, <2>3, <2>4, <2>5, SMTT(30) DEF Release
  <2>6. CASE row[t].status = "READY" /\ row' = [row EXCEPT ![t] = Claimed(@, db.worker_ids)]
    <3>1. /\ row'[t].status = "RUNNING" /\ row'[t].worker_ids = row[t].worker_ids + 1
          /\ \A u \in Tasks \ {t} : row'[u] = row[u]
      BY <1>0, <2>1, <2>2, <2>6, RowFields
    <3>2. ClaimsCount'
      BY <1>0, <2>1, <2>2, <2>3, <2>4, <3>1 DEF Release
    <3> QED
      BY <1>0, <2>6, <3>1, <3>2, SameAttempts, EditsAreNoClaims, SMTT(30) DEF KeepsAttempts
  <2> QED
    BY <1>11, <2>5, <2>6 DEF ClaimUpdate, StillReady, db
<1>12. ASSUME NEW r \in Runners, StartTask(r) \/ TaskRaises(r) PROVE Good
  BY <1>0, <1>00, <1>12, Moved DEF StartTask, TaskRaises, Goto
<1>13. ASSUME NEW r \in Runners, TaskReturns(r) \/ RecordError(r) PROVE Good
  <2> DEFINE t == runner[r].task
  <2>1. t \in Tasks /\ row[t] \in Row /\ lock[t] \in {NoOne, r} /\ lock' = lock
    BY <1>0, <1>13 DEF TaskReturns, RecordError, Free
  <2>2. /\ runner'[r].pc \in {"saved", "failing", "idle"}
        /\ \A s \in Runners \ {r} : runner'[s] = runner[s]
    BY <1>13, Moved, Left DEF TaskReturns, RecordError, Goto
  <2>3. \/ UNCHANGED row \/ row' = [row EXCEPT ![t] = Succeeded(@)]
        \/ \E n : row' = [row EXCEPT ![t] = Failed(@, n)]
    BY <1>13 DEF TaskReturns, RecordError
  <2>4. \A u \in Tasks : NoClaim(row[u], row'[u])
    BY <1>0, <2>1, <2>3, EditsAreNoClaims
  <2>5. ClaimsCount'
    BY <1>0, <2>1, <2>2, <2>4 DEF NoClaim
  <2> QED
    BY <2>4, <2>5, SameAttempts
<1>14. ASSUME NEW r \in Runners, TaskFinished(r) PROVE Good
  BY <1>0, <1>00, <1>14, Moved, Left DEF TaskFinished, Goto
<1>15. ASSUME NEW r \in Runners, AdminRetry(r) \/ AdminRetryCommit(r) \/ AdminRetryRollback(r) PROVE Good
  BY <1>15 DEF AdminRetry, AdminRetryCommit, AdminRetryRollback
<1>16. ASSUME NEW r \in Runners, AdminRequeue(r) PROVE Good
  <2> DEFINE t == runner[r].task
  <2>1. t \in Tasks /\ row[t] \in Row /\ lock' = lock
    BY <1>0, <1>16 DEF AdminRequeue
  <2>2. /\ runner'[r].pc = "idle" /\ \A s \in Runners \ {r} : runner'[s] = runner[s]
    BY <1>16, Left DEF AdminRequeue
  <2>3. UNCHANGED row \/ row' = [row EXCEPT ![t] = Requeued(@)]
    BY <1>16 DEF AdminRequeue
  <2>4. \A u \in Tasks : NoClaim(row[u], row'[u])
    BY <1>0, <2>1, <2>3, EditsAreNoClaims
  <2>5. ClaimsCount'
    BY <1>0, <2>1, <2>2, <2>4 DEF NoClaim
  <2> QED
    BY <2>4, <2>5, SameAttempts
<1>17. ASSUME NEW r \in Runners, Crash(r) PROVE Good
  BY <1>0, <1>00, <1>17, Left DEF Crash, Release
<1>18. ASSUME NEW q \in Recoverers, NEW S \in SUBSET Tasks, RecoverSelect(q, S) PROVE Good
  BY <1>0, <1>00, <1>18 DEF RecoverSelect, Selectable, Free
<1>19. ASSUME NEW q \in Recoverers, RecoverCommit(q) PROVE Good
  <2>1. ASSUME NEW t \in Tasks
        PROVE  \/ row'[t] = row[t]
               \/ row'[t] = Requeued(row[t]) \/ \E n : row'[t] = Failed(row[t], n)
    BY <1>19 DEF RecoverCommit, GivenUp
  <2>2. \A u \in Tasks : NoClaim(row[u], row'[u])
    BY <1>0, <2>1, EditsAreNoClaims
  <2>3. ClaimsCount'
    BY <1>0, <1>19, <2>2 DEF RecoverCommit, RecoverEnd, NoClaim
  <2> QED
    BY <2>2, <2>3, SameAttempts
<1>20. ASSUME NEW q \in Recoverers, RecoverCrash(q) PROVE Good
  BY <1>0, <1>00, <1>20 DEF RecoverCrash, RecoverEnd
<1>21. ASSUME NEW p \in Purgers, NEW S \in SUBSET Tasks, PurgeSelect(p, S) PROVE Good
  BY <1>0, <1>00, <1>21 DEF PurgeSelect
<1>22. ASSUME NEW p \in Purgers, PurgeDelete(p) PROVE Good
  <2>1. \A t \in Tasks : row'[t] = row[t] \/ (row'[t].status = "DELETED" /\ lock[t] = NoOne)
    BY <1>0, <1>22, Typed DEF PurgeDelete, NoRow
  <2>2. ClaimsCount'
    BY <1>0, <1>22, <2>1 DEF PurgeDelete
  <2>3. \A t \in Tasks : KeepsAttempts(t)
    BY <1>0, <2>1, SameAttempts, EditsAreNoClaims DEF KeepsAttempts, Stored, Completed
  <2> QED
    BY <2>2, <2>3
<1>23. CASE UNCHANGED vars
  BY <1>00, <1>23 DEF vars
<1> QED
  BY <1>1, <1>2, <1>3, <1>4, <1>5, <1>6, <1>7, <1>8, <1>9, <1>10, <1>11, <1>12, <1>13, <1>14,
    <1>15, <1>16, <1>17, <1>18, <1>19, <1>20, <1>21, <1>22, <1>23 DEF Next, RunnerStep, Quiet

\* Where rows can be locked and the admin does not retry: whatever recovery,
\* callers and purges do, worker_ids counts every claim and forgets none.
THEOREM AttemptsAreKept ==
  ASSUME RowLocks, "retry" \notin AdminActions
  PROVE  Spec => AttemptsKept
<1>1. TypeOK /\ ClaimsCount /\ [Next]_vars => ClaimsCount'
  BY ClaimsCountStep
<1>2. TypeOK /\ ClaimsCount /\ [Next]_vars => [\A t \in Tasks :
        row[t].status \in Stored /\ row'[t].status \in Stored =>
          row'[t].worker_ids = row[t].worker_ids +
            (IF row[t].status = "READY" /\ row'[t].status = "RUNNING" THEN 1 ELSE 0)]_vars
  BY ClaimsCountStep DEF KeepsAttempts
<1> QED
  BY <1>1, <1>2, ClaimsCountInit, TypeCorrect, PTL DEF Spec, AttemptsKept

-----------------------------------------------------------------------------
(* A success is final.  A thread that has yet to write an outcome holds a  *)
(* task that has none, so nobody's outcome is written over another's.      *)

OutcomeIsOpen ==
  \A r \in Runners : runner[r].pc \in Executing =>
    row[runner[r].task].status \in {"RUNNING", "DELETED"}

StaysSuccessful(t) ==
  row[t].status = "SUCCESSFUL" => row'[t] = row[t] \/ row'[t].status = "DELETED"

LEMMA OpenInit == Init => OutcomeIsOpen
BY DEF Init, OutcomeIsOpen, Executing, Idle

LEMMA OpenStep ==
  ASSUME ~SignalRaises
  PROVE  TypeOK /\ Exclusive /\ OutcomeIsOpen /\ [Next]_vars =>
           OutcomeIsOpen' /\ \A t \in Tasks : StaysSuccessful(t)
<1> SUFFICES ASSUME TypeOK, Exclusive, OutcomeIsOpen, [Next]_vars
             PROVE  OutcomeIsOpen' /\ \A t \in Tasks : StaysSuccessful(t)
  OBVIOUS
<1> DEFINE Good == OutcomeIsOpen' /\ \A t \in Tasks : StaysSuccessful(t)
<1> USE DEF OutcomeIsOpen, Executing, StaysSuccessful
<1>0. /\ row \in [Tasks -> Row] /\ runner \in [Runners -> Runner] /\ DOMAIN batch = Recoverers
      /\ \A q \in Recoverers : DOMAIN batch[q] \subseteq Tasks
      /\ \A r \in Runners : runner[r].pc # "idle" => runner[r].task \in Tasks
      /\ \A t \in Tasks : row[t] \in Row
  BY Typed
\* A runner that moves where it runs nothing, or runs on, leaves it as it is.
<1>m. ASSUME NEW r \in Runners, NEW pc, NEW u, NEW db, UNCHANGED row,
             Take(r, pc, u, db) \/ (Leave(r) /\ pc = "idle"),
             pc \in Executing => runner[r].pc \in Executing /\ u = runner[r].task
      PROVE  Good
  <2>1. runner'[r].pc = pc /\ \A s \in Runners \ {r} : runner'[s] = runner[s]
    BY <1>m, Moved, Left
  <2>2. pc \in Executing => runner'[r].task = u
    BY <1>m, Moved
  <2> QED
    BY <1>m, <2>1, <2>2
\* Nor does it matter what becomes of a row that nobody runs.
<1>n. ASSUME NEW t \in Tasks, row[t].status \notin {"SUCCESSFUL", "RUNNING", "DELETED"},
             \A u \in Tasks \ {t} : row'[u] = row[u],
             \A s \in Runners : runner'[s].pc \in Executing => runner'[s] = runner[s]
      PROVE  Good
  BY <1>0, <1>n
<1>1. ASSUME NEW t \in Tasks, Enqueue(t) PROVE Good
  BY <1>0, <1>1 DEF Enqueue
<1>2. CASE UNCHANGED <<row, runner>>
  BY <1>2
<1>3. ASSUME NEW w \in Workers, NEW t \in Tasks, FetchTask(w, t) PROVE Good
  BY <1>3, <1>m DEF FetchTask
<1>4. ASSUME NEW c \in Callers, NEW t \in Tasks, RunById(c, t) PROVE Good
  BY <1>4, <1>m DEF RunById
<1>5. ASSUME NEW a \in Admins, NEW t \in Tasks, AdminRun(a, t) \/ AdminRead(a, t) PROVE Good
  BY <1>5, <1>m DEF AdminRun, AdminRead
<1>6. ASSUME NEW r \in Runners,
             \/ FetchReturn(r) \/ ClaimSelect(r) \/ ClaimMiss(r) \/ Crash(r)
      PROVE  Good
  BY <1>6, <1>m DEF FetchReturn, ClaimSelect, ClaimMiss, Crash, Goto
<1>7. ASSUME NEW r \in Runners, ResetAndRun(r) PROVE Good
  <2> DEFINE t == runner[r].task
  <2>1. CASE UNCHANGED row
    BY <1>7, <1>m, <2>1 DEF ResetAndRun, Goto
  <2>2. CASE row[t].status = "FAILED" /\ row' = [row EXCEPT ![t] = Requeued(@)]
    <3>1. t \in Tasks /\ \A s \in Runners : runner'[s].pc \in Executing => runner'[s] = runner[s]
      BY <1>0, <1>7, Moved, Left DEF ResetAndRun, Goto
    <3> QED
      BY <1>0, <1>n, <2>2, <3>1
  <2> QED
    BY <1>7, <2>1, <2>2 DEF ResetAndRun, Exclusive, ResetHoldsRow
<1>8. ASSUME NEW r \in Runners, ClaimUpdate(r) PROVE Good
  <2> DEFINE t == runner[r].task
             db == [runner[r].db EXCEPT !.worker_ids = @ + 1]
  <2>1. CASE Leave(r) /\ UNCHANGED row
    BY <1>m, <2>1
  <2>2. CASE StillReady(t) /\ Goto(r, "claimed", db)
    <3>1. /\ t \in Tasks /\ row[t].status = "READY"
          /\ row' = [row EXCEPT ![t] = Claimed(@, db.worker_ids)]
      BY <1>0, <1>8, <2>2 DEF ClaimUpdate, StillReady
    <3>2. runner'[r].task = t /\ \A s \in Runners \ {r} : runner'[s] = runner[s]
      BY <2>2, Moved DEF Goto
    <3>3. row'[t].status = "RUNNING" /\ \A u \in Tasks \ {t} : row'[u] = row[u]
      BY <1>0, <3>1, RowFields
    <3> QED
      BY <1>0, <3>1, <3>2, <3>3
  <2> QED
    BY <1>8, <2>1, <2>2 DEF ClaimUpdate
<1>9. ASSUME NEW r \in Runners, StartTask(r) \/ TaskRaises(r) PROVE Good
  BY <1>9, <1>m DEF StartTask, TaskRaises, Goto
<1>10. ASSUME NEW r \in Runners, TaskReturns(r) \/ RecordError(r) PROVE Good
  <2> DEFINE t == runner[r].task
  <2>1. t \in Tasks /\ row[t].status \in {"RUNNING", "DELETED"} /\ Runs(r, t)
    BY <1>0, <1>10 DEF TaskReturns, RecordError, Runs
  <2>2. CASE UNCHANGED row
    BY <1>10, <1>m, <2>2 DEF TaskReturns, RecordError, Goto
  <2>3. CASE row[t].status = "RUNNING" /\ ~UNCHANGED row
    <3>1. /\ runner'[r].pc \notin Executing /\ \A s \in Runners \ {r} : runner'[s] = runner[s]
          /\ \A u \in Tasks \ {t} : row'[u] = row[u]
      BY <1>0, <1>10, <2>1, <2>3, Moved, Left DEF TaskReturns, RecordError, Goto
    <3>2. \A s \in Runners \ {r} : runner[s].pc \in Executing => runner[s].task # t
      BY <2>1 DEF Exclusive, OneRunner, Runs
    <3> QED
      BY <1>0, <2>1, <2>3, <3>1, <3>2
  <2>4. row[t].status = "DELETED" => UNCHANGED row
    BY <1>10 DEF TaskReturns, RecordError, Stored, Completed
  <2> QED
    BY <2>1, <2>2, <2>3, <2>4
<1>11. ASSUME NEW r \in Runners, TaskFinished(r) PROVE Good
  <2> DEFINE t == runner[r].task
  <2>1. t \in Tasks /\ Runs(r, t) /\ UNCHANGED row
    BY <1>0, <1>11 DEF TaskFinished, Runs
  <2>2. CASE Leave(r)
    BY <1>m, <2>1, <2>2
  <2>3. CASE row[t].status \notin Stored /\ Goto(r, "failing", runner[r].db)
    <3>1. row[t].status = "DELETED"
      BY <2>1, <2>3 DEF Exclusive, RunsUnfinished, Stored, Completed
    <3>2. runner'[r].task = t /\ \A s \in Runners \ {r} : runner'[s] = runner[s]
      BY <2>3, Moved DEF Goto
    <3> QED
      BY <2>1, <3>1, <3>2
  <2> QED
    BY <1>11, <2>2, <2>3 DEF TaskFinished
<1>12. ASSUME NEW r \in Runners,
              \/ AdminRetry(r) \/ AdminRetryCommit(r) \/ AdminRetryRollback(r) \/ AdminRequeue(r)
       PROVE  Good
  BY <1>12 DEF AdminRetry, AdminRetryCommit, AdminRetryRollback, AdminRequeue, Exclusive,
    AdminOnlyRuns
<1>13. ASSUME NEW q \in Recoverers, RecoverCommit(q) PROVE Good
  <2>1. \A t \in Tasks : row'[t] = row[t] \/ t \in DOMAIN batch[q]
    BY <1>13 DEF RecoverCommit
  <2>2. \A t \in DOMAIN batch[q] : row[t].status = "RUNNING" /\ \A r \in Runners : ~Runs(r, t)
    BY DEF Exclusive, BatchHoldsRows, BatchIsDead
  <2> QED
    BY <1>0, <1>13, <2>1, <2>2 DEF RecoverCommit, Runs
<1>14. ASSUME NEW p \in Purgers, PurgeDelete(p) PROVE Good
  <2>1. \A t \in Tasks : row'[t] = row[t] \/ row'[t].status = "DELETED"
    BY <1>0, <1>14 DEF PurgeDelete, NoRow
  <2> QED
    BY <1>0, <1>14, <2>1 DEF PurgeDelete
<1> QED
  BY <1>1, <1>2, <1>3, <1>4, <1>5, <1>6, <1>7, <1>8, <1>9, <1>10, <1>11, <1>12, <1>13, <1>14 DEF
    Next, RunnerStep, Quiet, vars, BecomeDue, RecoverSelect, RecoverCrash, PurgeSelect

\* Under the hypotheses of RunnersExclusive, and if no receiver of
\* task_finished raises: a task that succeeded is not touched until purged.
THEOREM SuccessStands ==
  ASSUME RowLocks, ~Premature, AdminActions \subseteq {"run"}, ~SignalRaises
  PROVE  Spec => SuccessIsFinal
<1>1. TypeOK /\ Exclusive /\ OutcomeIsOpen /\ [Next]_vars => OutcomeIsOpen'
  BY OpenStep
<1>2. TypeOK /\ Exclusive /\ OutcomeIsOpen /\ [Next]_vars => [\A t \in Tasks :
        row[t].status = "SUCCESSFUL" => row'[t] = row[t] \/ row'[t].status = "DELETED"]_vars
  BY OpenStep DEF StaysSuccessful
<1>3. Spec => []Exclusive
  BY TypeInit, TypeStep, ExclusiveInit, ExclusiveStep, PTL DEF Spec
<1> QED
  BY <1>1, <1>2, <1>3, OpenInit, TypeCorrect, PTL DEF Spec, SuccessIsFinal

-----------------------------------------------------------------------------
(* A purge takes completed tasks only: where no caller makes a FAILED row  *)
(* READY again, a row that was completed when a purge selected it still is *)
(* when the purge deletes it.                                              *)

DoomedAreCompleted ==
  /\ \A p \in Purgers : \A t \in doomed[p] : row[t].status \in Completed \cup {"DELETED"}
  /\ CallersTakeReady

PurgedWhenCompleted(t) ==
  row[t].status # "DELETED" /\ row'[t].status = "DELETED" => row[t].status \in Completed

LEMMA DoomedInit == Init => DoomedAreCompleted
BY DEF Init, DoomedAreCompleted, CallersTakeReady, Idle

LEMMA DoomedStep ==
  ASSUME ~AllowRetry
  PROVE  TypeOK /\ DoomedAreCompleted /\ [Next]_vars =>
           DoomedAreCompleted' /\ \A t \in Tasks : PurgedWhenCompleted(t)
<1> SUFFICES ASSUME TypeOK, DoomedAreCompleted, [Next]_vars
             PROVE  DoomedAreCompleted' /\ \A t \in Tasks : PurgedWhenCompleted(t)
  OBVIOUS
<1> DEFINE Good == DoomedAreCompleted' /\ \A t \in Tasks : PurgedWhenCompleted(t)
<1> USE DEF DoomedAreCompleted, CallersTakeReady, PurgedWhenCompleted
<1>0. /\ row \in [Tasks -> Row] /\ runner \in [Runners -> Runner] /\ DOMAIN batch = Recoverers
      /\ \A q \in Recoverers : DOMAIN batch[q] \subseteq Tasks
      /\ \A r \in Runners : runner[r].pc # "idle" => runner[r].task \in Tasks
      /\ \A r \in Runners : runner[r].db \in Row
      /\ \A t \in Tasks : row[t] \in Row
      /\ doomed \in [Purgers -> SUBSET Tasks]
  BY Typed
\* A row stays completed, and nothing but a purge deletes it.
<1> DEFINE Kept(t) == /\ row[t].status \in Completed \cup {"DELETED"} => row'[t].status \in Completed \cup {"DELETED"}
                      /\ row'[t].status = "DELETED" => row[t].status = "DELETED"
<1>k. ASSUME UNCHANGED doomed, \A t \in Tasks : row'[t] = row[t] \/ Kept(t),
             \A r \in Runners : runner'[r].pc = "resetting" => runner'[r].db.status = "READY"
      PROVE  Good
  BY <1>0, <1>k
\* A thread that moves, other than into a caller's transaction.
<1>m. ASSUME NEW r \in Runners, NEW pc, NEW u, NEW db,
             Take(r, pc, u, db) \/ (Leave(r) /\ pc = "idle"), pc # "resetting"
      PROVE  \A s \in Runners : runner'[s].pc = "resetting" => runner'[s].db.status = "READY"
  BY <1>m, Moved, Left
<1>1. ASSUME NEW t \in Tasks, Enqueue(t) PROVE Good
  BY <1>0, <1>1 DEF Enqueue, Completed
<1>2. CASE UNCHANGED <<row, runner, doomed>>
  BY <1>2
<1>3. ASSUME NEW w \in Workers, NEW t \in Tasks, FetchTask(w, t) PROVE Good
  BY <1>3, <1>k, <1>m DEF FetchTask
<1>4. ASSUME NEW c \in Callers, NEW t \in Tasks, RunById(c, t) PROVE Good
  <2>1. \A s \in Runners : runner'[s].pc = "resetting" => runner'[s].db.status = "READY"
    BY <1>4, Moved DEF RunById
  <2> QED
    BY <1>4, <1>k, <2>1 DEF RunById
<1>5. ASSUME NEW a \in Admins, NEW t \in Tasks, AdminRun(a, t) \/ AdminRead(a, t) PROVE Good
  BY <1>5, <1>k, <1>m DEF AdminRun, AdminRead
<1>6. ASSUME NEW r \in Runners,
             \/ FetchReturn(r) \/ ClaimSelect(r) \/ ClaimMiss(r) \/ Crash(r)
             \/ StartTask(r) \/ TaskRaises(r) \/ TaskFinished(r)
             \/ AdminRetry(r) \/ AdminRetryRollback(r)
      PROVE  Good
  BY <1>6, <1>k, <1>m DEF FetchReturn, ClaimSelect, ClaimMiss, Crash, StartTask, TaskRaises,
     TaskFinished, AdminRetry, AdminRetryRollback, Goto
<1>7. ASSUME NEW r \in Runners, ResetAndRun(r) PROVE Good
  <2>1. UNCHANGED row
    BY <1>7 DEF ResetAndRun
  <2> QED
    BY <1>7, <1>k, <1>m, <2>1 DEF ResetAndRun, Goto
<1>8. ASSUME NEW r \in Runners, ClaimUpdate(r) PROVE Good
  <2> DEFINE t == runner[r].task
  <2>1. t \in Tasks /\ row[t] \in Row
    BY <1>0, <1>8 DEF ClaimUpdate
  <2>2. UNCHANGED row \/ (row[t].status = "READY" /\ \E n : row' = [row EXCEPT ![t] = Claimed(@, n)])
    BY <1>8 DEF ClaimUpdate, StillReady
  <2>3. \A u \in Tasks : row'[u] = row[u] \/ Kept(u)
    BY <1>0, <2>1, <2>2, RowFields DEF Completed
  <2> QED
    BY <1>8, <1>k, <1>m, <2>3 DEF ClaimUpdate, Goto
<1>9. ASSUME NEW r \in Runners, TaskReturns(r) \/ RecordError(r) \/ AdminRetryCommit(r) PROVE Good
  <2> DEFINE t == runner[r].task
  <2>1. t \in Tasks /\ row[t] \in Row /\ runner[r].db \in Row
    BY <1>0, <1>9 DEF TaskReturns, RecordError, AdminRetryCommit
  <2>2. UNCHANGED row \/ \E x \in Row : /\ \/ row' = [row EXCEPT ![t] = Succeeded(x)]
                                           \/ \E n : row' = [row EXCEPT ![t] = Failed(x, n)]
    BY <1>9, <2>1 DEF TaskReturns, RecordError, AdminRetryCommit
  <2>3. \A u \in Tasks : row'[u] = row[u] \/ Kept(u)
    <3>1. ASSUME NEW x \in Row
          PROVE  Succeeded(x).status \in Completed /\ \A n : Failed(x, n).status \in Completed
      BY RowFields, RowSucceeded DEF Completed
    <3>2. UNCHANGED row \/ \E y : row' = [row EXCEPT ![t] = y] /\ y.status \in Completed
      BY <2>2, <3>1
    <3> QED
      BY <1>0, <2>1, <3>2 DEF Completed
  <2> QED
    BY <1>9, <1>k, <1>m, <2>3 DEF TaskReturns, RecordError, AdminRetryCommit, Goto
<1>10. ASSUME NEW r \in Runners, AdminRequeue(r) PROVE Good
  <2> DEFINE t == runner[r].task
  <2>1. t \in Tasks /\ row[t] \in Row
    BY <1>0, <1>10 DEF AdminRequeue
  <2>2. UNCHANGED row \/ (row[t].status = "RUNNING" /\ row' = [row EXCEPT ![t] = Requeued(@)])
    BY <1>10 DEF AdminRequeue
  <2>3. \A u \in Tasks : row'[u] = row[u] \/ Kept(u)
    BY <1>0, <2>1, <2>2, RowFields DEF Completed
  <2> QED
    BY <1>10, <1>k, <1>m, <2>3 DEF AdminRequeue
<1>11. ASSUME NEW q \in Recoverers, RecoverCommit(q) PROVE Good
  <2>1. ASSUME NEW t \in Tasks
        PROVE  \/ row'[t] = row[t]
               \/ /\ row[t].status = "RUNNING"
                  /\ row'[t] = Requeued(row[t]) \/ \E n : row'[t] = Failed(row[t], n)
    BY <1>11 DEF RecoverCommit, GivenUp
  <2>2. ASSUME NEW t \in Tasks PROVE row'[t] = row[t] \/ Kept(t)
    <3>1. row[t] \in Row
      BY <1>0
    <3>2. Requeued(row[t]).status = "READY" /\ \A n : Failed(row[t], n).status = "FAILED"
      BY <3>1, RowFields
    <3> QED
      BY <2>1, <3>2 DEF Completed
  <2> QED
    BY <1>11, <1>k, <2>2 DEF RecoverCommit
<1>12. ASSUME NEW p \in Purgers, NEW S \in SUBSET Tasks, PurgeSelect(p, S) PROVE Good
  BY <1>0, <1>12 DEF PurgeSelect, Purgeable
<1>13. ASSUME NEW p \in Purgers, PurgeDelete(p) PROVE Good
  <2>1. /\ \A t \in Tasks : IF t \in doomed[p] THEN row'[t].status = "DELETED" ELSE row'[t] = row[t]
        /\ \A s \in Purgers : doomed'[s] \subseteq doomed[s]
    BY <1>0, <1>13 DEF PurgeDelete, NoRow
  <2> QED
    BY <1>0, <1>13, <2>1 DEF PurgeDelete
<1> QED
  BY <1>1, <1>2, <1>3, <1>4, <1>5, <1>6, <1>7, <1>8, <1>9, <1>10, <1>11, <1>12, <1>13 DEF
    Next, RunnerStep, Quiet, vars, BecomeDue, RecoverSelect, RecoverCrash

\* If no caller asks for retries, a purge deletes completed tasks only; the
\* admin may do what it likes, and rows need not be locked.
THEOREM PurgesCompleted ==
  ASSUME ~AllowRetry
  PROVE  Spec => OnlyCompletedPurged
<1>1. TypeOK /\ DoomedAreCompleted /\ [Next]_vars => DoomedAreCompleted'
  BY DoomedStep
<1>2. TypeOK /\ DoomedAreCompleted /\ [Next]_vars => [\A t \in Tasks :
        row[t].status # "DELETED" /\ row'[t].status = "DELETED" => row[t].status \in Completed]_vars
  BY DoomedStep DEF PurgedWhenCompleted
<1> QED
  BY <1>1, <1>2, DoomedInit, TypeCorrect, PTL DEF Spec, OnlyCompletedPurged

-----------------------------------------------------------------------------
(* The table of tasks implements the queue.                                *)

Held(r, t) == row[t].status = "RUNNING" /\ Runs(r, t)

\* Of those a row can be with, Holder names the right one, or nobody.
HolderIsRight ==
  \A t \in Tasks : /\ \A r \in Runners : Held(r, t) => Holder(t) = r
                   /\ (\A r \in Runners : ~Held(r, t)) => Holder(t) = NoOne

LEMMA HolderFacts == OneRunner => HolderIsRight
BY DEF OneRunner, HolderIsRight, Holder, Held

DoomedCompleted ==
  \A p \in Purgers : \A t \in doomed[p] : row[t].status \in Completed \cup {"DELETED"}

Orderly == TypeOK /\ Exclusive /\ OutcomeIsOpen /\ DoomedCompleted

LEMMA OrderlyHolder == (Orderly => HolderIsRight) /\ (Orderly' => HolderIsRight')
<1>1. Orderly => HolderIsRight
  BY HolderFacts DEF Orderly, Exclusive
<1> QED
  BY <1>1, PTL

Same == UNCHANGED Queue!vars

\* A step that changes no status, and takes no row from who holds it, nor
\* gives one to anybody.
LEMMA Stutters ==
  ASSUME Orderly, Orderly', \A t \in Tasks : row'[t].status = row[t].status,
         \A r \in Runners, t \in Tasks : Held(r, t)' <=> Held(r, t)
  PROVE  Same
<1>1. \A t \in Tasks : Holder(t)' = Holder(t)
  BY OrderlyHolder DEF HolderIsRight
<1> QED
  BY <1>1 DEF Same, Queue!vars

\* A runner that moves without beginning or ending anything.
LEMMA MoveStutters ==
  ASSUME Orderly, Orderly', UNCHANGED row, NEW r \in Runners, NEW pc, NEW u, NEW db,
         Take(r, pc, u, db),
         pc \in Executing \cup {"saved", "retrying"} <=> runner[r].pc \in Executing \cup {"saved", "retrying"},
         pc \in Executing \cup {"saved", "retrying"} => u = runner[r].task
  PROVE  Same
<1>1. /\ runner'[r].pc = pc /\ runner'[r].task = u
      /\ \A s \in Runners \ {r} : runner'[s] = runner[s]
  BY Moved DEF Orderly
<1>2. \A s \in Runners, t \in Tasks : Runs(s, t)' <=> Runs(s, t)
  BY <1>1 DEF Runs
<1> QED
  BY <1>2, Stutters DEF Held

\* A runner that leaves without writing anything loses the task it holds.
LEMMA LeaveLoses ==
  ASSUME Orderly, Orderly', UNCHANGED row, NEW r \in Runners, Leave(r)
  PROVE  Same \/ \E t \in Tasks : Queue!Lose(t)
<1> DEFINE t == runner[r].task
<1>1. runner'[r].pc = "idle" /\ \A s \in Runners \ {r} : runner'[s] = runner[s]
  BY Left DEF Orderly
<1>2. \A s \in Runners, u \in Tasks : Runs(s, u)' <=> Runs(s, u) /\ s # r
  BY <1>1 DEF Runs, Executing
<1>3. CASE t \in Tasks /\ Held(r, t)
  <2>1. \A s \in Runners, u \in Tasks : Held(s, u)' <=> Held(s, u) /\ u # t
    BY <1>2, <1>3 DEF Held, Runs, Orderly, Exclusive, OneRunner
  <2>2. \A u \in Tasks : Holder(u)' = IF u = t THEN NoOne ELSE Holder(u)
    BY <2>1, OrderlyHolder DEF HolderIsRight
  <2>3. Holder(t) = r /\ r # NoOne
    BY <1>3, OrderlyHolder, ActorsAssumption DEF HolderIsRight
  <2>4. Queue!Lose(t)
    BY <1>3, <2>2, <2>3 DEF Queue!Lose
  <2> QED
    BY <1>3, <2>4
<1>4. CASE ~(t \in Tasks /\ Held(r, t))
  <2>1. \A s \in Runners, u \in Tasks : Held(s, u)' <=> Held(s, u)
    BY <1>2, <1>4 DEF Held, Runs
  <2> QED
    BY <2>1, Stutters
<1> QED
  BY <1>3, <1>4

\* A row that changes while nobody holds it, before or after.
LEMMA HoldersStay ==
  ASSUME Orderly, Orderly', NEW S \in SUBSET Tasks,
         \A t \in Tasks \ S : row'[t] = row[t],
         \A t \in S : /\ row'[t].status # "RUNNING"
                      /\ row[t].status # "RUNNING" \/ \A r \in Runners : ~Runs(r, t),
         \A r \in Runners, t \in Tasks : Runs(r, t)' <=> Runs(r, t)
  PROVE  /\ \A t \in Tasks : Holder(t)' = Holder(t)
         /\ \A t \in S : Holder(t) = NoOne
<1>1. \A r \in Runners, t \in Tasks : Held(r, t)' <=> Held(r, t)
  BY DEF Held
<1>2. \A r \in Runners, t \in S : ~Held(r, t)
  BY DEF Held
<1> QED
  BY <1>1, <1>2, OrderlyHolder DEF HolderIsRight

LEMMA QueueInit == Init => Queue!Init
<1> SUFFICES ASSUME Init PROVE Queue!Init
  OBVIOUS
<1>1. \A t \in Tasks : row[t].status = "NEW"
  BY DEF Init, NoRow
<1>2. \A t \in Tasks : Holder(t) = NoOne
  BY <1>1 DEF Holder
<1> QED
  BY <1>1, <1>2 DEF Queue!Init

LEMMA QueueStep ==
  ASSUME ~SignalRaises
  PROVE  Orderly /\ Orderly' /\ [Next]_vars => [Queue!Next]_(Queue!vars)
<1> SUFFICES ASSUME Orderly, Orderly', [Next]_vars PROVE Queue!Next \/ Same
  BY DEF Same
<1> DEFINE Good == Queue!Next \/ Same
<1> USE ActorsAssumption
<1>0. /\ row \in [Tasks -> Row] /\ runner \in [Runners -> Runner] /\ DOMAIN batch = Recoverers
      /\ \A q \in Recoverers : DOMAIN batch[q] \subseteq Tasks
      /\ \A r \in Runners : runner[r].pc # "idle" => runner[r].task \in Tasks
      /\ \A t \in Tasks : row[t] \in Row
      /\ doomed \in [Purgers -> SUBSET Tasks]
  BY Typed DEF Orderly
<1>01. Exclusive /\ OneRunner /\ RunsUnfinished /\ OutcomeIsOpen /\ DoomedCompleted
  BY DEF Orderly, Exclusive
<1>1. ASSUME NEW t \in Tasks, Enqueue(t) PROVE Good
  <2>1. row[t].status = "NEW" /\ row'[t].status = "READY" /\ \A u \in Tasks \ {t} : row'[u] = row[u]
    BY <1>0, <1>1 DEF Enqueue
  <2>2. {t} \in SUBSET Tasks /\ \A s \in Runners, u \in Tasks : Runs(s, u)' <=> Runs(s, u)
    BY <1>1 DEF Enqueue, Runs
  <2>3. /\ \A u \in Tasks \ {t} : row'[u] = row[u]
        /\ \A u \in {t} : row'[u].status # "RUNNING" /\ row[u].status # "RUNNING"
    BY <2>1
  <2>4. \A u \in Tasks : Holder(u)' = Holder(u)
    BY <2>2, <2>3, HoldersStay
  <2>5. Queue!Enqueue(t)
    BY <2>1, <2>4 DEF Queue!Enqueue
  <2> QED
    BY <2>5 DEF Queue!Next
<1>2. CASE UNCHANGED <<row, runner>>
  BY <1>2, Stutters DEF Held, Runs
<1>3. ASSUME NEW w \in Workers, NEW t \in Tasks, FetchTask(w, t) PROVE Good
  BY <1>3, MoveStutters DEF FetchTask, Executing
<1>4. ASSUME NEW c \in Callers, NEW t \in Tasks, RunById(c, t) PROVE Good
  BY <1>4, MoveStutters DEF RunById, Executing
<1>5. ASSUME NEW a \in Admins, NEW t \in Tasks, AdminRun(a, t) \/ AdminRead(a, t) PROVE Good
  BY <1>5, MoveStutters DEF AdminRun, AdminRead, Executing
<1>6. ASSUME NEW r \in Runners,
             FetchReturn(r) \/ ClaimSelect(r) \/ StartTask(r) \/ TaskRaises(r)
      PROVE  Good
  BY <1>6, MoveStutters DEF FetchReturn, ClaimSelect, StartTask, TaskRaises, Goto, Executing
<1>7. ASSUME NEW r \in Runners, UNCHANGED row, Leave(r) PROVE Good
  BY <1>7, LeaveLoses DEF Queue!Next
<1>8. ASSUME NEW r \in Runners, ClaimMiss(r) \/ Crash(r) PROVE Good
  BY <1>7, <1>8 DEF ClaimMiss, Crash
<1>9. ASSUME NEW r \in Runners, ResetAndRun(r) PROVE Good
  <2>0. PICK t \in Tasks : t = runner[r].task
    BY <1>0, <1>9 DEF ResetAndRun
  <2>1. row[t].status = runner[r].db.status
    BY <1>01, <1>9, <2>0 DEF ResetAndRun, Exclusive, ResetHoldsRow
  <2>2. CASE UNCHANGED row
    BY <1>7, <1>9, <2>2, MoveStutters DEF ResetAndRun, Goto, Executing
  <2>3. CASE /\ row[t].status = "FAILED"
            /\ row' = [row EXCEPT ![t] = Requeued(@)]
            /\ Goto(r, "fetched", Requeued(runner[r].db))
    <3>1. row'[t].status = "READY" /\ \A u \in Tasks \ {t} : row'[u] = row[u]
      BY <1>0, <2>1, <2>3, RowFields
    <3>2. \A s \in Runners, u \in Tasks : Runs(s, u)' <=> Runs(s, u)
      <4>1. runner'[r].pc = "fetched" /\ \A s \in Runners \ {r} : runner'[s] = runner[s]
        BY <2>3, Moved DEF Goto, Orderly
      <4> QED
        BY <1>9, <4>1 DEF ResetAndRun, Runs, Executing
    <3>3. {t} \in SUBSET Tasks /\ \A u \in {t} : row'[u].status # "RUNNING" /\ row[u].status # "RUNNING"
      BY <2>3, <3>1
    <3>4. \A u \in Tasks : Holder(u)' = Holder(u)
      BY <3>1, <3>2, <3>3, HoldersStay
    <3>5. row[t].status = "FAILED"
      BY <2>3
    <3>6. Queue!Retry(t)
      BY <3>1, <3>4, <3>5 DEF Queue!Retry
    <3> QED
      BY <2>1, <3>6 DEF Queue!Next
  <2> QED
    BY <1>7, <1>9, <2>0, <2>1, <2>2, <2>3 DEF ResetAndRun
<1>10. ASSUME NEW r \in Runners, ClaimUpdate(r) PROVE Good
  <2> DEFINE db == [runner[r].db EXCEPT !.worker_ids = @ + 1]
  <2>0. PICK t \in Tasks : t = runner[r].task
    BY <1>0, <1>10 DEF ClaimUpdate
  <2>1. CASE Leave(r) /\ UNCHANGED row
    BY <1>7, <2>1
  <2>2. CASE StillReady(t) /\ Goto(r, "claimed", db)
    <3>1. /\ row[t].status = "READY"
          /\ row' = [row EXCEPT ![t] = Claimed(@, db.worker_ids)]
      BY <1>10, <2>0, <2>2 DEF ClaimUpdate, StillReady
    <3>2. /\ runner'[r].task = t /\ runner'[r].pc = "claimed"
          /\ \A s \in Runners \ {r} : runner'[s] = runner[s]
      BY <2>0, <2>2, Moved DEF Goto, Orderly
    <3>3. row'[t].status = "RUNNING" /\ \A u \in Tasks \ {t} : row'[u] = row[u]
      BY <1>0, <3>1, RowFields
    <3>4. \A u \in Tasks : ~Runs(r, u) /\ ~Held(r, u)
      BY <1>10 DEF ClaimUpdate, Runs, Executing, Held
    <3>5. \A s \in Runners, u \in Tasks : Held(s, u)' <=> IF u = t THEN s = r ELSE Held(s, u)
      <4>1. Held(r, t)' /\ Orderly'
        BY <3>2, <3>3 DEF Held, Runs, Executing
      <4>2. \A s \in Runners \ {r} : ~Held(s, t)'
        BY <3>1, <4>1 DEF Held, Orderly, Exclusive, OneRunner
      <4>3. \A s \in Runners, u \in Tasks \ {t} : Held(s, u)' <=> Held(s, u)
        BY <3>2, <3>3, <3>4 DEF Held, Runs
      <4> QED
        BY <4>1, <4>2, <4>3
    <3>6. \A u \in Tasks : Holder(u)' = IF u = t THEN r ELSE Holder(u)
      BY <3>5, OrderlyHolder DEF HolderIsRight
    <3>7. \A u \in Tasks : Holder(u) # r
      BY <3>4, OrderlyHolder DEF HolderIsRight
    <3>8. row[t].status = "READY"
      BY <3>1
    <3>9. Queue!Claim(r, t)
      BY <3>3, <3>6, <3>7, <3>8 DEF Queue!Claim
    <3> QED
      BY <3>1, <3>9 DEF Queue!Next
  <2> QED
    BY <1>10, <2>0, <2>1, <2>2 DEF ClaimUpdate
<1>11. ASSUME NEW r \in Runners, TaskReturns(r) \/ RecordError(r) PROVE Good
  <2> DEFINE t == runner[r].task
  <2>1. t \in Tasks /\ row[t] \in Row /\ row[t].status \in {"RUNNING", "DELETED"} /\ Runs(r, t)
    BY <1>0, <1>01, <1>11 DEF TaskReturns, RecordError, Runs, OutcomeIsOpen, Executing
  <2>2. CASE row[t].status = "DELETED"
    BY <1>7, <1>11, <2>2, MoveStutters DEF TaskReturns, RecordError, Stored, Completed, Goto,
      Executing
  <2>3. CASE row[t].status = "RUNNING"
    <3>1. PICK outcome \in {"SUCCESSFUL", "FAILED"} :
            row'[t].status = outcome /\ \A u \in Tasks \ {t} : row'[u] = row[u]
      BY <1>0, <1>11, <2>1, <2>3, RowFields, RowSucceeded DEF TaskReturns, RecordError, Stored
    <3>2. \A s \in Runners \ {r} : runner'[s] = runner[s]
      BY <1>11, Moved, Left DEF TaskReturns, RecordError, Goto, Orderly
    <3>3. \A s \in Runners, u \in Tasks : Held(s, u)' <=> Held(s, u) /\ u # t
      <4>1. \A s \in Runners, u \in Tasks \ {t} : Runs(s, u)' <=> Runs(s, u)
        BY <1>11, <3>2, Moved, Left DEF TaskReturns, RecordError, Goto, Orderly, Runs, Executing
      <4> QED
        BY <3>1, <4>1 DEF Held
    <3>4. \A u \in Tasks : Holder(u)' = IF u = t THEN NoOne ELSE Holder(u)
      BY <3>3, OrderlyHolder DEF HolderIsRight
    <3>5. Holder(t) = r /\ r # NoOne
      BY <2>1, <2>3, OrderlyHolder DEF HolderIsRight, Held
    <3>6. Queue!Finish(t, outcome)
      BY <2>1, <3>1, <3>4, <3>5 DEF Queue!Finish
    <3> QED
      BY <2>1, <3>6 DEF Queue!Next
  <2> QED
    BY <2>1, <2>2, <2>3
<1>12. ASSUME NEW r \in Runners, TaskFinished(r) PROVE Good
  BY <1>7, <1>12, MoveStutters DEF TaskFinished, Goto, Executing
<1>13. ASSUME NEW r \in Runners,
              \/ AdminRetry(r) \/ AdminRetryCommit(r) \/ AdminRetryRollback(r) \/ AdminRequeue(r)
       PROVE  Good
  BY <1>01, <1>13 DEF AdminRetry, AdminRetryCommit, AdminRetryRollback, AdminRequeue, Exclusive,
    AdminOnlyRuns
<1>14. ASSUME NEW q \in Recoverers, RecoverCommit(q) PROVE Good
  <2>0. PICK S \in SUBSET Tasks : S = DOMAIN batch[q]
    BY <1>0
  <2>1. PICK mark_failed \in MarkFailed :
          row' = [t \in Tasks |->
                    IF t \notin S \/ row[t].status # "RUNNING" THEN row[t]
                    ELSE IF IsGivenUpOn(batch[q][t], mark_failed) THEN GivenUp(row[t], batch[q][t])
                    ELSE Requeued(row[t])]
    BY <1>14, <2>0 DEF RecoverCommit
  <2>2. PICK failed \in SUBSET Tasks : failed = {t \in S : IsGivenUpOn(batch[q][t], mark_failed)}
    OBVIOUS
  <2>3. PICK again \in SUBSET Tasks : again = S \ failed
    OBVIOUS
  <2>4. \A t \in S : row[t].status = "RUNNING" /\ \A r \in Runners : ~Runs(r, t)
    BY <1>0, <1>01, <2>0 DEF Exclusive, BatchHoldsRows, BatchIsDead
  <2>5. /\ \A t \in Tasks \ S : row'[t] = row[t]
        /\ \A t \in failed : row'[t] = GivenUp(row[t], batch[q][t])
        /\ \A t \in again : row'[t] = Requeued(row[t])
    BY <1>0, <2>1, <2>4, <2>2, <2>3
  <2>6. /\ \A t \in failed : row'[t].status = "FAILED"
        /\ \A t \in again : row'[t].status = "READY"
    BY <1>0, <2>5, RowFields DEF GivenUp
  <2>7. \A s \in Runners, u \in Tasks : Runs(s, u)' <=> Runs(s, u)
    BY <1>14 DEF RecoverCommit, Runs
  <2>8. again \cup failed = S /\ again \cap failed = {}
    BY <2>2, <2>3
  <2>9. (\A t \in Tasks : Holder(t)' = Holder(t)) /\ \A t \in S : Holder(t) = NoOne
    BY <2>4, <2>5, <2>6, <2>7, <2>8, HoldersStay
  <2>10. Queue!Recover(again, failed)
    BY <2>4, <2>5, <2>6, <2>8, <2>9 DEF Queue!Recover
  <2> QED
    BY <2>10 DEF Queue!Next
<1>15. ASSUME NEW p \in Purgers, PurgeDelete(p) PROVE Good
  <2>0. PICK S \in SUBSET Tasks : S = {t \in doomed[p] : row[t].status # "DELETED"}
    BY <1>0
  <2>1. \A t \in S : row[t].status \in Completed
    BY <1>01, <2>0 DEF DoomedCompleted
  <2>2. \A t \in Tasks : row'[t].status = IF t \in S THEN "DELETED" ELSE row[t].status
    BY <1>0, <1>15, <2>0 DEF PurgeDelete, NoRow
  <2>3. \A t \in Tasks : row[t].status = "RUNNING" <=> row'[t].status = "RUNNING"
    BY <2>1, <2>2 DEF Completed
  <2>4. \A s \in Runners, u \in Tasks : Held(s, u)' <=> Held(s, u)
    BY <1>15, <2>3 DEF PurgeDelete, Held, Runs
  <2>5. \A t \in Tasks : Holder(t)' = Holder(t)
    BY <2>4, OrderlyHolder DEF HolderIsRight
  <2>6. Queue!Remove(S)
    BY <2>1, <2>2, <2>5 DEF Queue!Remove, Completed
  <2> QED
    BY <2>1, <2>6 DEF Queue!Next
<1> QED
  BY <1>1, <1>2, <1>3, <1>4, <1>5, <1>6, <1>8, <1>9, <1>10, <1>11, <1>12, <1>13, <1>14, <1>15 DEF
    Next, RunnerStep, Quiet, vars, BecomeDue, RecoverSelect, RecoverCrash, PurgeSelect

\* Where rows can be locked, recovery waits long enough, the admin only runs
\* tasks and no receiver raises, and if either callers do not retry or
\* nothing is purged: every step of the code is a step of the abstract queue.
THEOREM TableImplementsQueue ==
  ASSUME RowLocks, ~Premature, AdminActions \subseteq {"run"}, ~SignalRaises,
         ~AllowRetry \/ Purgers = {}
  PROVE  Spec => ImplementsQueue
<1>1. Spec => []Exclusive
  BY TypeInit, TypeStep, ExclusiveInit, ExclusiveStep, PTL DEF Spec
<1>2. Spec => []OutcomeIsOpen
  BY <1>1, TypeCorrect, OpenInit, OpenStep, PTL DEF Spec
<1>3. Spec => []DoomedCompleted
  <2>1. CASE ~AllowRetry
    <3>1. TypeOK /\ DoomedAreCompleted /\ [Next]_vars => DoomedAreCompleted'
      BY <2>1, DoomedStep
    <3>2. DoomedAreCompleted => DoomedCompleted
      BY DEF DoomedAreCompleted, DoomedCompleted
    <3> QED
      BY <3>1, <3>2, DoomedInit, TypeCorrect, PTL DEF Spec
  <2>2. CASE Purgers = {}
    <3>1. DoomedCompleted
      BY <2>2 DEF DoomedCompleted
    <3> QED
      BY <3>1, PTL
  <2> QED
    BY <2>1, <2>2
<1>4. Spec => []Orderly
  BY <1>1, <1>2, <1>3, TypeCorrect, PTL DEF Orderly
<1>5. Orderly /\ Orderly' /\ [Next]_vars => [Queue!Next]_(Queue!vars)
  BY QueueStep
<1> QED
  BY <1>4, <1>5, QueueInit, PTL DEF Spec, ImplementsQueue, Queue!Spec

=============================================================================
