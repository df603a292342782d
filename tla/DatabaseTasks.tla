--------------------------- MODULE DatabaseTasks ---------------------------
(***************************************************************************)
(* The table of tasks and every piece of code that reads or writes a row:  *)
(* polling workers (process_one_task), callers of run_task_by_id, the      *)
(* actions of the admin site, the recovery of stale tasks and the purge.   *)
(*                                                                         *)
(* A step is one statement sent to the database, or one transaction that   *)
(* nothing can observe in the middle.  Rows are read at the isolation the  *)
(* code relies on, READ COMMITTED: a statement sees what is committed, an  *)
(* UPDATE or DELETE waits for a locked row, and SELECT ... FOR UPDATE SKIP *)
(* LOCKED passes over it.  A database without row locks (SQLite) ignores   *)
(* FOR UPDATE; RowLocks = FALSE is that database.                          *)
(***************************************************************************)
EXTENDS Integers, FiniteSets

CONSTANTS
  Tasks,         \* ids of the rows that are ever enqueued
  Workers,       \* threads of control that poll: process_one_task
  Callers,       \* threads of control that call run_task_by_id
  Admins,        \* requests that run an action of the admin site
  Recoverers,    \* runs of requeue_stale_tasks
  Purgers,       \* runs of a purge
  NoTask,        \* "no task in hand"
  NoOne,         \* "no lock"
  Rank,          \* place of a row in ORDER BY -priority, enqueued_at
  Delayed,       \* tasks enqueued with a run_after in the future
  RowLocks,      \* does FOR UPDATE SKIP LOCKED lock rows?
  AllowRetry,    \* do the callers pass allow_retry=True?
  AdminActions,  \* the actions the admins use
  MaxAttempts,   \* max_attempts of the recovery, 0 for no limit
  MarkFailed,    \* the values of mark_failed the recovery is run with
  Premature,     \* may older_than be shorter than a task takes to run?
  SignalRaises,  \* may a task_finished receiver raise?
  MaxCrashes,    \* bound: processes that die
  MaxRetries     \* bound: resets of a task by hand or by a caller

Runners == Workers \cup Callers \cup Admins

ASSUME ActorsAssumption ==
  /\ NoTask \notin Tasks
  /\ NoOne \notin Runners \cup Recoverers
  /\ Workers \cap Callers = {}
  /\ Workers \cap Admins = {}
  /\ Callers \cap Admins = {}
  /\ Runners \cap Recoverers = {}

ASSUME OptionsAssumption ==
  /\ Rank \in [Tasks -> Nat]
  /\ Delayed \subseteq Tasks
  /\ RowLocks \in BOOLEAN
  /\ AllowRetry \in BOOLEAN
  /\ AdminActions \subseteq {"run", "retry", "requeue"}
  /\ MaxAttempts \in Nat
  /\ MarkFailed \subseteq BOOLEAN
  /\ Premature \in BOOLEAN
  /\ SignalRaises \in BOOLEAN
  /\ MaxCrashes \in Nat
  /\ MaxRetries \in Nat

VARIABLES
  row,      \* the table, as committed
  due,      \* tasks whose run_after is null or has passed
  lock,     \* who holds the lock of a row
  runner,   \* a thread that may run tasks: where it is, what it has in hand
  batch,    \* rows a recovery run has selected, as it read them
  doomed,   \* ids a purge has selected
  crashes,  \* processes that have died
  retries   \* resets of a task that was FAILED or RUNNING, other than recovery

vars == <<row, due, lock, runner, batch, doomed, crashes, retries>>

Completed == {"SUCCESSFUL", "FAILED"}
Stored == {"READY", "RUNNING"} \cup Completed
Status == {"NEW", "DELETED"} \cup Stored

\* worker_ids and errors are lists; what is modelled of each is its length.
Row == [status: Status, worker_ids: Nat, errors: Nat, finished: BOOLEAN]

NoRow == [status |-> "NEW", worker_ids |-> 0, errors |-> 0, finished |-> FALSE]

\* Where a runner is.  "claimed" and what follows it run the task.
PCs == {"idle", "fetching", "resetting", "fetched", "claiming",
        "claimed", "running", "saved", "failing",
        "retry_read", "retrying", "requeue_read"}

Runner == [pc: PCs, task: Tasks \cup {NoTask}, db: Row]

\* Some rows, as they were read.
IsBatch(b) == DOMAIN b \subseteq Tasks /\ b \in [DOMAIN b -> Row]

Idle == [pc |-> "idle", task |-> NoTask, db |-> NoRow]

\* r still runs t, or has yet to write what came of it.
Executing == {"claimed", "running", "failing"}
Runs(r, t) == runner[r].task = t /\ runner[r].pc \in Executing \cup {"saved", "retrying"}

(* An operator whose name ends in Mutant is a plausible slip in the code     *)
(* the operator after it models; no definition uses it.                      *)

\* What a row becomes.
Claimed(x, ids) == [x EXCEPT !.status = "RUNNING", !.worker_ids = ids]
SucceededMutant(x) == [x EXCEPT !.status = "COMPLETED", !.finished = TRUE]
Succeeded(x) == [x EXCEPT !.status = "SUCCESSFUL", !.finished = TRUE]
Failed(x, errors) == [x EXCEPT !.status = "FAILED", !.errors = errors, !.finished = TRUE]
RequeuedMutant(x) == [x EXCEPT !.finished = FALSE]
Requeued(x) == [x EXCEPT !.status = "READY", !.finished = FALSE]

Free(t, a) == lock[t] \in {NoOne, a}           \* a's UPDATE need not wait
Selectable(t, a) == RowLocks => Free(t, a)     \* SKIP LOCKED does not skip t
AcquireMutant(t, a) == lock
Acquire(t, a) == IF RowLocks THEN [lock EXCEPT ![t] = a] ELSE lock
Release(t, a) == IF lock[t] = a THEN [lock EXCEPT ![t] = NoOne] ELSE lock

Take(r, pc, t, db) == runner' = [runner EXCEPT ![r] = [pc |-> pc, task |-> t, db |-> db]]
Goto(r, pc, db) == Take(r, pc, runner[r].task, db)
Leave(r) == runner' = [runner EXCEPT ![r] = Idle]

Init ==
  /\ row = [t \in Tasks |-> NoRow]
  /\ due = Tasks \ Delayed
  /\ lock = [t \in Tasks |-> NoOne]
  /\ runner = [r \in Runners |-> Idle]
  /\ batch = [q \in Recoverers |-> [t \in {} |-> NoRow]]
  /\ doomed = [p \in Purgers |-> {}]
  /\ crashes = 0
  /\ retries = 0

-----------------------------------------------------------------------------
(* Enqueueing, and the clock as far as run_after goes.                     *)

Enqueue(t) ==
  /\ row[t].status = "NEW"
  /\ row' = [row EXCEPT ![t].status = "READY"]
  /\ UNCHANGED <<due, lock, runner, batch, doomed, crashes, retries>>

BecomeDue(t) ==
  /\ t \in Tasks \ due
  /\ due' = due \cup {t}
  /\ UNCHANGED <<row, lock, runner, batch, doomed, crashes, retries>>

-----------------------------------------------------------------------------
(* Getting hold of a row: fetch_task, run_task_by_id, the admin's list.    *)

Fetchable(w, t) == row[t].status = "READY" /\ t \in due /\ Selectable(t, w)

FetchTask(w, t) ==
  /\ runner[w].pc = "idle"
  /\ Fetchable(w, t)
  /\ \A u \in Tasks : Fetchable(w, u) => Rank[t] <= Rank[u]
  /\ lock' = Acquire(t, w)
  /\ Take(w, "fetching", t, row[t])
  /\ UNCHANGED <<row, due, batch, doomed, crashes, retries>>

FetchReturn(w) ==
  /\ runner[w].pc = "fetching"
  /\ lock' = Release(runner[w].task, w)
  /\ Goto(w, "fetched", runner[w].db)
  /\ UNCHANGED <<row, due, batch, doomed, crashes, retries>>

RunById(c, t) ==
  /\ runner[c].pc = "idle"
  /\ \/ row[t].status = "READY"
     \/ row[t].status = "FAILED" /\ AllowRetry /\ retries < MaxRetries
  /\ Selectable(t, c)
  /\ lock' = Acquire(t, c)
  /\ Take(c, "resetting", t, row[t])
  /\ UNCHANGED <<row, due, batch, doomed, crashes, retries>>

\* The end of run_task_by_id's transaction.  The save names the row by its
\* primary key alone, and raises when the row is gone.
ResetAndRun(c) ==
  LET t == runner[c].task
      db == runner[c].db
      failed == db.status = "FAILED"
  IN /\ runner[c].pc = "resetting"
     /\ Free(t, c)
     /\ lock' = Release(t, c)
     /\ \/ /\ ~failed
           /\ Goto(c, "fetched", db)
           /\ UNCHANGED <<row, retries>>
        \/ /\ failed /\ row[t].status \in Stored
           /\ row' = [row EXCEPT ![t] = Requeued(@)]
           /\ Goto(c, "fetched", Requeued(db))
           /\ retries' = retries + 1
        \/ /\ failed /\ row[t].status \notin Stored
           /\ Leave(c)
           /\ UNCHANGED <<row, retries>>
     /\ UNCHANGED <<due, batch, doomed, crashes>>

\* run_selected_tasks reads its list of READY rows without locking them.
AdminRun(a, t) ==
  /\ "run" \in AdminActions
  /\ runner[a].pc = "idle"
  /\ row[t].status = "READY"
  /\ Take(a, "fetched", t, row[t])
  /\ UNCHANGED <<row, due, lock, batch, doomed, crashes, retries>>

-----------------------------------------------------------------------------
(* run_task: claim the row, run the function, write what came of it.  The  *)
(* fields of db that no later step reads are left as they were read.       *)

StillReadyMutant(t) == TRUE
StillReady(t) == row[t].status = "READY"

StoredIdsMutant(r) == runner[r].db.worker_ids
StoredIds(r) == row[runner[r].task].worker_ids

Claimable(r) == row[runner[r].task].status = "READY" /\ Selectable(runner[r].task, r)

ClaimSelect(r) ==
  LET t == runner[r].task
  IN /\ runner[r].pc = "fetched"
     /\ Claimable(r)
     /\ lock' = Acquire(t, r)
     /\ Goto(r, "claiming", [runner[r].db EXCEPT !.worker_ids = StoredIds(r)])
     /\ UNCHANGED <<row, due, batch, doomed, crashes, retries>>

ClaimMiss(r) ==
  /\ runner[r].pc = "fetched"
  /\ ~Claimable(r)
  /\ Leave(r)
  /\ UNCHANGED <<row, due, lock, batch, doomed, crashes, retries>>

ClaimUpdate(r) ==
  LET t == runner[r].task
      db == [runner[r].db EXCEPT !.worker_ids = @ + 1]
  IN /\ runner[r].pc = "claiming"
     /\ Free(t, r)
     /\ lock' = Release(t, r)
     /\ \/ /\ StillReady(t)
           /\ row' = [row EXCEPT ![t] = Claimed(@, db.worker_ids)]
           /\ Goto(r, "claimed", db)
        \/ /\ ~StillReady(t)
           /\ Leave(r)
           /\ UNCHANGED row
     /\ UNCHANGED <<due, batch, doomed, crashes, retries>>

\* The function is imported and task_started sent; either may raise.
StartTask(r) ==
  /\ runner[r].pc = "claimed"
  /\ \E pc \in {"running", "failing"} : Goto(r, pc, runner[r].db)
  /\ UNCHANGED <<row, due, lock, batch, doomed, crashes, retries>>

\* The save does not look at the status it overwrites.  It raises when the
\* row is gone.
TaskReturns(r) ==
  LET t == runner[r].task
  IN /\ runner[r].pc = "running"
     /\ Free(t, r)
     /\ IF row[t].status \in Stored
        THEN /\ row' = [row EXCEPT ![t] = Succeeded(@)]
             /\ Goto(r, "saved", runner[r].db)
        ELSE /\ Goto(r, "failing", runner[r].db)
             /\ UNCHANGED row
     /\ UNCHANGED <<due, lock, batch, doomed, crashes, retries>>

TaskRaises(r) ==
  /\ runner[r].pc = "running"
  /\ Goto(r, "failing", runner[r].db)
  /\ UNCHANGED <<row, due, lock, batch, doomed, crashes, retries>>

\* refresh_from_db and task_finished, still inside the block that turns an
\* exception into a FAILED task.
TaskFinished(r) ==
  LET t == runner[r].task
  IN /\ runner[r].pc = "saved"
     /\ \/ row[t].status \in Stored /\ Leave(r)
        \/ row[t].status \in Stored /\ SignalRaises /\ Goto(r, "failing", row[t])
        \/ row[t].status \notin Stored /\ Goto(r, "failing", runner[r].db)
     /\ UNCHANGED <<row, due, lock, batch, doomed, crashes, retries>>

\* errors is the list db_task was loaded with, one entry longer.
RecordError(r) ==
  LET t == runner[r].task
  IN /\ runner[r].pc = "failing"
     /\ Free(t, r)
     /\ row' = IF row[t].status \in Stored
               THEN [row EXCEPT ![t] = Failed(@, runner[r].db.errors + 1)]
               ELSE row
     /\ Leave(r)
     /\ UNCHANGED <<due, lock, batch, doomed, crashes, retries>>

\* The process dies, or the task raises what "except Exception" lets past:
\* an open transaction is rolled back, a row that is RUNNING stays so.
Crash(r) ==
  /\ runner[r].pc # "idle"
  /\ crashes < MaxCrashes
  /\ crashes' = crashes + 1
  /\ lock' = Release(runner[r].task, r)
  /\ Leave(r)
  /\ UNCHANGED <<row, due, batch, doomed, retries>>

-----------------------------------------------------------------------------
(* The recovery of tasks whose worker died.  One batch is one transaction; *)
(* its updates are of rows it holds, so they take effect at its commit.    *)

\* last_attempted_at is older than the cutoff.  Unless older_than is too
\* short, a task that still runs is not that old.
StaleMutant(t) == row[t].status = "RUNNING"
Stale(t) == row[t].status = "RUNNING" /\ (Premature \/ \A r \in Runners : ~Runs(r, t))

IsGivenUpOnMutant(db, mark_failed) ==
  mark_failed \/ (MaxAttempts > 0 /\ db.worker_ids > MaxAttempts)
IsGivenUpOn(db, mark_failed) ==
  mark_failed \/ (MaxAttempts > 0 /\ db.worker_ids >= MaxAttempts)

GivenUpMutant(r, db) == [r EXCEPT !.status = "FAILED", !.errors = db.errors + 1]
GivenUp(r, db) == Failed(r, db.errors + 1)

RecoverSelect(q, S) ==
  /\ DOMAIN batch[q] = {} /\ S # {}
  /\ \A t \in S : Stale(t) /\ Selectable(t, q)
  /\ lock' = IF RowLocks THEN [t \in Tasks |-> IF t \in S THEN q ELSE lock[t]] ELSE lock
  /\ batch' = [batch EXCEPT ![q] = [t \in S |-> row[t]]]
  /\ UNCHANGED <<row, due, runner, doomed, crashes, retries>>

RecoverEnd(q) ==
  /\ lock' = [t \in Tasks |-> IF lock[t] = q THEN NoOne ELSE lock[t]]
  /\ batch' = [batch EXCEPT ![q] = [t \in {} |-> NoRow]]

RecoverCommit(q) ==
  LET read == batch[q]
  IN /\ DOMAIN read # {}
     /\ \A t \in DOMAIN read : Free(t, q)
     /\ \E mark_failed \in MarkFailed :
          row' = [t \in Tasks |->
                    IF t \notin DOMAIN read \/ row[t].status # "RUNNING" THEN row[t]
                    ELSE IF IsGivenUpOn(read[t], mark_failed) THEN GivenUp(row[t], read[t])
                    ELSE Requeued(row[t])]
     /\ RecoverEnd(q)
     /\ UNCHANGED <<due, runner, doomed, crashes, retries>>

RecoverCrash(q) ==
  /\ DOMAIN batch[q] # {}
  /\ crashes < MaxCrashes
  /\ crashes' = crashes + 1
  /\ RecoverEnd(q)
  /\ UNCHANGED <<row, due, runner, doomed, retries>>

-----------------------------------------------------------------------------
(* The admin's other actions.  Each reads its list of rows first, without  *)
(* locking them, and then deals with one row after another.                *)

AdminRead(a, t) ==
  /\ runner[a].pc = "idle"
  /\ retries < MaxRetries
  /\ \E pc \in {"retry_read", "requeue_read"} :
       /\ \/ pc = "retry_read" /\ "retry" \in AdminActions /\ row[t].status = "FAILED"
          \/ pc = "requeue_read" /\ "requeue" \in AdminActions /\ Stale(t)
       /\ Take(a, pc, t, row[t])
  /\ UNCHANGED <<row, due, lock, batch, doomed, crashes, retries>>

\* retry_failed_tasks saves every field of its copy, whatever the row is now
\* (a row that was deleted is inserted again), and claims and runs the task
\* in the same transaction: nobody sees any of it before the commit.
AdminRetry(a) ==
  LET t == runner[a].task
  IN /\ runner[a].pc = "retry_read"
     /\ Free(t, a)
     /\ lock' = [lock EXCEPT ![t] = a]
     /\ Goto(a, "retrying", [status |-> "RUNNING", finished |-> FALSE, errors |-> 0,
                              worker_ids |-> runner[a].db.worker_ids + 1])
     /\ retries' = retries + 1
     /\ UNCHANGED <<row, due, batch, doomed, crashes>>

AdminRetryCommit(a) ==
  LET t == runner[a].task
  IN /\ runner[a].pc = "retrying"
     /\ \E outcome \in Completed :
          row' = [row EXCEPT ![t] = IF outcome = "FAILED" THEN Failed(runner[a].db, 1)
                                    ELSE Succeeded(runner[a].db)]
     /\ lock' = Release(t, a)
     /\ Leave(a)
     /\ UNCHANGED <<due, batch, doomed, crashes, retries>>

\* A task_finished receiver that raises for a failed task leaves the
\* transaction by an exception.
AdminRetryRollback(a) ==
  /\ runner[a].pc = "retrying" /\ SignalRaises
  /\ lock' = Release(runner[a].task, a)
  /\ Leave(a)
  /\ UNCHANGED <<row, due, batch, doomed, crashes, retries>>

AdminRequeue(a) ==
  LET t == runner[a].task
  IN /\ runner[a].pc = "requeue_read"
     /\ Free(t, a)
     /\ row' = IF row[t].status = "RUNNING" THEN [row EXCEPT ![t] = Requeued(@)] ELSE row
     /\ retries' = retries + 1
     /\ Leave(a)
     /\ UNCHANGED <<due, lock, batch, doomed, crashes>>

-----------------------------------------------------------------------------
(* A purge: the ids of a batch are selected, then deleted by id.           *)

PurgeableMutant(t) == row[t].status \in Stored \ {"READY"}
Purgeable(t) == row[t].status \in Completed

PurgeSelect(p, S) ==
  /\ doomed[p] = {} /\ S # {}
  /\ \A t \in S : Purgeable(t)
  /\ doomed' = [doomed EXCEPT ![p] = S]
  /\ UNCHANGED <<row, due, lock, runner, batch, crashes, retries>>

PurgeDelete(p) ==
  /\ doomed[p] # {}
  /\ \A t \in doomed[p] : lock[t] = NoOne
  /\ row' = [t \in Tasks |-> IF t \in doomed[p] THEN [NoRow EXCEPT !.status = "DELETED"]
                             ELSE row[t]]
  /\ doomed' = [doomed EXCEPT ![p] = {}]
  /\ UNCHANGED <<due, lock, runner, batch, crashes, retries>>

-----------------------------------------------------------------------------

\* What a runner does with the row it has taken, up to being idle again.
RunnerStep(r) ==
  \/ FetchReturn(r) \/ ResetAndRun(r)
  \/ ClaimSelect(r) \/ ClaimMiss(r) \/ ClaimUpdate(r)
  \/ StartTask(r) \/ TaskReturns(r) \/ TaskRaises(r) \/ TaskFinished(r) \/ RecordError(r)
  \/ AdminRetry(r) \/ AdminRetryCommit(r) \/ AdminRetryRollback(r) \/ AdminRequeue(r)

\* Nothing is left to do; the workers poll an empty queue.
Quiet ==
  /\ \A r \in Runners : runner[r].pc = "idle"
  /\ \A q \in Recoverers : DOMAIN batch[q] = {}
  /\ \A t \in Tasks : row[t].status \in Completed \cup {"DELETED"}
  /\ UNCHANGED vars

Next ==
  \/ \E t \in Tasks : Enqueue(t) \/ BecomeDue(t)
  \/ \E w \in Workers, t \in Tasks : FetchTask(w, t)
  \/ \E c \in Callers, t \in Tasks : RunById(c, t)
  \/ \E a \in Admins, t \in Tasks : AdminRun(a, t) \/ AdminRead(a, t)
  \/ \E r \in Runners : RunnerStep(r) \/ Crash(r)
  \/ \E q \in Recoverers : \/ \E S \in SUBSET Tasks : RecoverSelect(q, S)
                           \/ RecoverCommit(q) \/ RecoverCrash(q)
  \/ \E p \in Purgers : \/ \E S \in SUBSET Tasks : PurgeSelect(p, S)
                        \/ PurgeDelete(p)
  \/ Quiet

Spec == Init /\ [][Next]_vars

-----------------------------------------------------------------------------
(* What a deployment keeps doing: workers poll, the clock moves, recovery  *)
(* is run again and again, a thread that has a row goes on with it.        *)
(* Strong fairness is for the two steps that another's short-lived lock    *)
(* can turn away: polling threads do not stay in lockstep for ever.        *)

Recovering(q, t) == \E S \in SUBSET Tasks : t \in S /\ RecoverSelect(q, S)

Fairness ==
  /\ \A t \in Tasks : WF_vars(BecomeDue(t))
  /\ \A w \in Workers : SF_vars(\E t \in Tasks : FetchTask(w, t))
  /\ \A r \in Runners : WF_vars(RunnerStep(r)) /\ SF_vars(ClaimSelect(r))
  /\ \A q \in Recoverers :
       /\ \A t \in Tasks : WF_vars(Recovering(q, t))
       /\ WF_vars(RecoverCommit(q))
  /\ \A p \in Purgers : WF_vars(PurgeDelete(p))

FairSpec == Spec /\ Fairness

-----------------------------------------------------------------------------

\* Every variable has its type.
TypeOK ==
  /\ row \in [Tasks -> Row]
  /\ due \subseteq Tasks
  /\ lock \in [Tasks -> Runners \cup Recoverers \cup {NoOne}]
  /\ runner \in [Runners -> Runner]
  /\ \A r \in Runners : runner[r].task = NoTask <=> runner[r].pc = "idle"
  /\ DOMAIN batch = Recoverers
  /\ \A q \in Recoverers : IsBatch(batch[q])
  /\ doomed \in [Purgers -> SUBSET Tasks]
  /\ crashes \in Nat
  /\ retries \in Nat

\* "Two workers never run the same task": at no time do two threads run it
\* or have its outcome still to write, however fetch, claim, recovery and
\* retry interleave (run_task, requeue_stale_tasks, run_task_by_id).
OneRunner ==
  \A t \in Tasks : \A r, s \in Runners : Runs(r, t) /\ Runs(s, t) => r = s

\* Why it holds where rows can be locked, recovery waits long enough and the
\* admin's retry and requeue are not used: a task that runs is in no status
\* a claim, a caller or the recovery starts from, and whoever is about to
\* write a status it has read holds the row until it has.
RunsUnfinished ==
  \A r \in Runners, t \in Tasks :
    Runs(r, t) => row[t].status \in {"RUNNING", "SUCCESSFUL", "DELETED"}

ResetHoldsRow ==
  \A r \in Runners : runner[r].pc = "resetting" =>
    /\ lock[runner[r].task] = r
    /\ row[runner[r].task].status = runner[r].db.status
    /\ runner[r].db.status \in {"READY", "FAILED"}

BatchHoldsRows ==
  \A q \in Recoverers : \A t \in DOMAIN batch[q] :
    /\ lock[t] = q
    /\ row[t] = batch[q][t] /\ row[t].status = "RUNNING"

BatchIsDead ==
  \A q \in Recoverers : \A t \in DOMAIN batch[q] : \A r \in Runners : ~Runs(r, t)

AdminOnlyRuns ==
  \A r \in Runners : runner[r].pc \notin {"retry_read", "retrying", "requeue_read"}

Exclusive ==
  /\ OneRunner /\ RunsUnfinished /\ ResetHoldsRow
  /\ BatchHoldsRows /\ BatchIsDead /\ AdminOnlyRuns

\* finished_at is set exactly on the rows that are completed, or the purge
\* by age (_completed_tasks) would miss a row or take one that is pending.
FinishedWhenCompleted ==
  \A t \in Tasks : row[t].finished <=> row[t].status \in Completed

\* A task that kills its worker is not handed out for ever: no more than
\* max_attempts workers get it (_is_given_up_on, _claim_task).
WithinAttempts ==
  MaxAttempts > 0 => \A t \in Tasks : row[t].worker_ids <= MaxAttempts

\* Why: where rows can be locked, what a claim and the recovery count is what
\* the row still holds when they write, and a row is READY only with an
\* attempt left.
ClaimHoldsRow ==
  \A r \in Runners : runner[r].pc = "claiming" =>
    /\ lock[runner[r].task] = r
    /\ runner[r].db.worker_ids = row[runner[r].task].worker_ids

CallersTakeReady ==
  \A r \in Runners : runner[r].pc = "resetting" => runner[r].db.status = "READY"

ReadyHasAttempt ==
  MaxAttempts > 0 => \A t \in Tasks :
    row[t].status \in {"NEW", "READY"} => row[t].worker_ids < MaxAttempts

Counted ==
  /\ WithinAttempts /\ ReadyHasAttempt /\ ClaimHoldsRow /\ CallersTakeReady
  /\ BatchHoldsRows /\ AdminOnlyRuns

\* Where a thread may begin to run a task: by the step that takes the row
\* from READY to RUNNING, or in the admin's retry, from the copy it read as
\* FAILED and saves as READY over whatever the row has become.
BeginsByClaim(t) == row[t].status = "READY" /\ row'[t].status = "RUNNING"
BeginsByRetry(r) == runner[r].pc = "retry_read" /\ runner[r].db.status = "FAILED"

\* No thread but the admin's retry begins to run a task in any other way than
\* by the claim: of two that hold the same READY row one gets it, and it is
\* run once for each time it is made READY (claim_task).  The retry does not
\* keep to that: it may begin a task another thread is running.  But no step
\* makes two threads begin, and nobody begins a task that a retry is running
\* (its transaction holds the row).
RunsWhatItClaimed ==
  [][\A r \in Runners, t \in Tasks :
       ~Runs(r, t) /\ Runs(r, t)' =>
         /\ BeginsByClaim(t) \/ BeginsByRetry(r)
         /\ \A s \in Runners \ {r} : /\ Runs(s, t)' => Runs(s, t)
                                    /\ ~(Runs(s, t) /\ runner[s].pc = "retrying")]_vars

\* worker_ids counts the claims: it grows by one with each, and neither a
\* retry nor the recovery nor a stale copy of the row takes one back.
AttemptsKept ==
  [][\A t \in Tasks : row[t].status \in Stored /\ row'[t].status \in Stored =>
       row'[t].worker_ids = row[t].worker_ids +
         (IF row[t].status = "READY" /\ row'[t].status = "RUNNING" THEN 1 ELSE 0)]_vars

\* A task that succeeded is not run again nor reported as failed: its row
\* stays as it is until it is purged.
SuccessIsFinal ==
  [][\A t \in Tasks : row[t].status = "SUCCESSFUL" =>
       row'[t] = row[t] \/ row'[t].status = "DELETED"]_vars

\* A purge deletes only completed tasks: deleting one that is READY or
\* RUNNING "would lose work" (purge_completed_tasks).
OnlyCompletedPurged ==
  [][\A t \in Tasks : row[t].status # "DELETED" /\ row'[t].status = "DELETED" =>
       row[t].status \in Completed]_vars

\* A task that was enqueued, or whose worker died, is in the end completed
\* (or purged after it was).
Completes ==
  \A t \in Tasks : row[t].status \in {"READY", "RUNNING"} ~>
                     row[t].status \in Completed \cup {"DELETED"}

=============================================================================
