# Verification of django-database-task

This directory holds TLA+ models of `django_database_task`, the TLC
configurations that model-check them, and TLAPS proofs about the eight
specifications of its parts. Paths such as `executor.py:400` are relative to
`src/django_database_task/`.

    tlc -workers 2 -config DatabaseTasks_workers.cfg MCDatabaseTasks
    tlapm DatabaseTasksProofs.tla

Each configuration `X.cfg` belongs to the module `MC<part of X before "_">`.

## 1. The system

A Django project enqueues tasks; each is a row of the table `DatabaseTask`.
Worker processes, HTTP requests, queue deliveries and the admin site look for
rows to run, run the function a row names, and write the outcome to the row.
The row is the only truth: a message of a broker only says "look at row t".

| Component | State | Operations | Where |
|---|---|---|---|
| Task table | status, `worker_ids`, `errors_json`, `run_after`, `finished_at`, ... of each row | - | `models.py` |
| Task backend | none of its own; the copy of a row in memory | `enqueue`, `claim_task`, `run_task`, `run_claimed_task`, `_record_error`, `notify_broker` | `backends.py` |
| Executor functions | none | `fetch_task`, `process_one_task`, `run_task_by_id`, `requeue_stale_tasks`, `purge_completed_tasks` | `executor.py`, two commands |
| Admin site | the list of selected rows | run, retry, requeue | `admin.py` |
| Broker protocol, SQS | messages, visible or hidden | `notify`, `receive`, `ack`, `nack` | `brokers/`, `sqs/` |
| PostgreSQL broker | the connection that listens | the same, over LISTEN/NOTIFY | `postgres/` |
| Worker loop | tasks processed, messages in hand, busy executors | `_process_tasks` and what it calls | `management/commands/run_database_tasks.py` |
| Executor threads | idle list, inboxes, results | `acquire`, `release`, `submit`, `collect`, `stop` | `threads.py` |
| Supervisor | slots, pending scaling, exit codes | `_supervise`, `_reap`, `_apply_scaling`, `_check_failing`, `_stop_workers` | `supervisor.py` |
| Graceful shutdown | event, count, lock, timer | `set`, signal handlers, timeout | `shutdown.py` |
| HTTP endpoints | none | run one, run a batch, execute by id, purge, status | `views.py` |
| Cloud Tasks broker | deliveries in a queue | `notify`; the queue calls execute by id | `cloudtasks/` |
| Authentication | none; the handlers a backend configures | accept or reject one request | `auth.py`, `cloudtasks/auth.py` |

How they interact: through the table (statements and row locks), through the
queue (at-least-once messages), through two thread-safe queues and an inbox per
executor inside one worker, and through signals and exit codes between the
supervisor and its workers.

What is hard, and what makes each part correct:

* **Table.** Threads that hold copies of the same row interleave statement by
  statement; row locks are taken by some of them, and not at all on SQLite;
  workers die; recovery, retry, admin and purge act on rows others still use.
  Correct: one runner at a time, no attempt forgotten, a success is final,
  nothing pending is purged, everything is completed in the end.
* **Delivery.** Messages may be sent before the commit, not at all, or be
  delivered again; a message that arrives at the wrong moment is acknowledged.
  Correct: a task whose row is READY is never left without anything that will
  look at it.
* **Wake-ups and pushes.** A notification reaches those who listen and nobody
  else; a push queue repeats a request that is late, beside the first one.
  Correct: no worker sleeps on work it could have known of; a repeated request
  does not run a task beside itself; a failure is tried again.
* **Worker loop and threads.** The cap of `--max-tasks`, the number of idle
  executors and what is under way must agree while results arrive in between.
  Correct: the cap holds, no executor is given two jobs, each outcome is counted
  once, the loop ends.
* **Supervisor.** Exits, restarts, scaling and signals meet in one slot list.
  Correct: no process is left behind, the last worker stays, one signal does not
  cut tasks, crashes are reported, shutdown ends.
* **Endpoints.** Requests run tasks and delete rows beside each other and beside
  workers, and name the backend whose handlers let them in.
  Correct: who is let in is what that backend's configuration says, an answer says
  what happened to the table, and everything is answered.
* **Shutdown.** Python runs signal handlers on top of the code they interrupt, and
  only inside the context that installs them.
  Correct: a second signal and the timeout end the process, with one timer, and
  none once the context is left.

## 2. The modules

| Module | What it models | Composes |
|---|---|---|
| `TaskQueue` | the abstract queue: what the table promises | |
| `DatabaseTasks` | the table and every statement that changes a row | |
| `QueueRefinement` | the mapping under which `DatabaseTasks` implements `TaskQueue` | both |
| `DatabaseTasksProofs` | theorems: types, one runner, attempts, `finished_at`, what no step does to a row, and that the table implements the queue | `QueueRefinement` |
| `BrokerWorkers` | workers with any broker, over a coarser table; no specification of its own | |
| `BrokerDelivery`, `BrokerDeliveryProofs` | the same fed by an SQS queue, and by the table too | `BrokerWorkers` |
| `PostgresDelivery`, `PostgresDeliveryProofs` | the same woken by LISTEN/NOTIFY | `BrokerWorkers` |
| `PushDelivery`, `PushDeliveryProofs` | requests of Cloud Tasks and of a cron job | |
| `RequestAuth` | the handlers of a backend and what each says of a request; operators only | |
| `HttpEndpoints`, `HttpEndpointsProofs` | the five endpoints, served at once beside other workers | `RequestAuth` |
| `WorkerLoop`, `WorkerLoopProofs` | one worker process: its loop and its executor threads | |
| `Supervisor`, `SupervisorProofs` | the supervisor of several worker processes | |
| `GracefulShutdown`, `GracefulShutdownProofs` | the signal handling of one worker | |
| `MC*` | instances for TLC | |

The modules meet at these seams: the claim of `DatabaseTasks` (a conditional
`UPDATE`) is one step in `BrokerWorkers`, `PushDelivery` and `HttpEndpoints`; what
the queue makes of an answer of `HttpEndpoints` is in `PushDelivery`; what a worker does with one row or
message there is one step, `Run`, of `WorkerLoop`; how a worker reacts to a
first and a second signal in `GracefulShutdown` is `Signalled` in `Supervisor`.

### DatabaseTasks

A step is one SQL statement, or one transaction that nothing can observe in the
middle. `row` is the committed table; `lock` says who holds which row; the copy
a thread has in memory is `runner[r].db`, and it is stale whenever the code's
would be. The life of a runner follows the code:

| `pc` | at | next step |
|---|---|---|
| `idle` | polling, or no call | `FetchTask` (`executor.py:51-85`), `RunById` (`270-327`), `AdminRun`, `AdminRead` (`admin.py`) |
| `fetching` | `fetch_task` holds the row | `FetchReturn`: the transaction ends, the lock is gone, the copy stays |
| `resetting` | `run_task_by_id` holds the row | `ResetAndRun`: a FAILED task is made READY again |
| `fetched` | `run_task` was called | `ClaimSelect` or `ClaimMiss` (`backends.py:591-609`) |
| `claiming` | about to `UPDATE ... WHERE status = READY` | `ClaimUpdate` (`backends.py:611-633`) |
| `claimed`, `running` | `run_claimed_task` | `StartTask`, `TaskReturns`, `TaskRaises` |
| `saved` | the success is saved, the signal is yet to be sent | `TaskFinished` |
| `failing` | in the `except` block | `RecordError` (`backends.py:561-589`) |
| `retry_read`, `retrying`, `requeue_read` | the admin's other actions | `AdminRetry`, `AdminRetryCommit`, `AdminRetryRollback`, `AdminRequeue` |

`Crash` may happen anywhere between; it releases the locks the thread has and
leaves a RUNNING row as it is. `RecoverSelect`/`RecoverCommit` are one batch of
`requeue_stale_tasks`, `PurgeSelect`/`PurgeDelete` the two statements of a purge.

Abstractions. `worker_ids` and `errors_json` are lists of which the length is
kept. The queryset of a batch (recovery, purge) is filtered and cut to a batch
size by options: any nonempty subset of the rows that qualify stands for it. The
admin deals with a list of rows one after another: one request of the model
deals with one. A guard that fails without changing state (an unknown id, a row
that is not READY) is a stuttering step. `Premature = FALSE` says that
`older_than` is longer than any task runs, so that a row whose runner is alive
is never stale; `TRUE` makes every RUNNING row stale.

### TaskQueue and QueueRefinement

The abstract queue has a status and a holder per task and no locks, copies or
conditions: claim, finish, lose, recover, retry, remove. The mapping gives a
RUNNING row to the runner that has its task in hand. That every step of the code
is one of these or none says, for example, that recovery never touches a task
somebody holds and that an outcome is written by the holder alone.

### BrokerWorkers, BrokerDelivery

`Insert` and `Notified` are the two halves of `enqueue`; with a transaction of
the application around it the row is committed, or not, after the broker was
told. `Received` begins a round of messages, `OpenMessage` is
`_run_broker_message` up to the answer of the locked `SELECT`, `Answered` ends it
(`_ack`, `_nack`). `RunFails` is its `except Exception`: a database error at the
claim, at the save of the outcome or before either commits, which leaves the row as
the statements before it have left it and gives the message back; the first `SELECT`
fails in `OpenMessage`. `round` is where the loop of `_process_tasks` is among its
sources. `Requeue` and `Announced` are `requeue_stale_tasks` with the notification
of the broker; `RecoveryDies` is its death between the commit of a batch and the
notifications. A broker is added by saying how each of these goes with it.

`BrokerDelivery` adds the SQS queue: `Send`, `Receive`, `Ack`, `Nack` are the
methods of `SQSBroker`. The queue itself is not in the repository; of it the model
has what SQS documents and the broker relies on: a message that was received is
hidden until it is deleted, made visible, or its visibility timeout runs out.

### PostgresDelivery

`listening` and `heard` are the connections that `get_connection` opens and what
waits to be read on each. `Send` is `notify`: what is sent in a transaction is
delivered to those who listen when it commits, and a deferred task is not
announced. `ReceiveFails` is the `except` of `receive`, which closes the
connection. `Ack` and `Nack` do nothing, as in the code.

### PushDelivery

A request is one of Cloud Tasks (`Deliver`, with the parameters
`fail_on_error` and `allow_retry` that `CloudTasksBroker.notify` puts into the
URL) or one that works for a cron job at `/tasks/run/` (`Fetch`); what a batch
does with several tasks one after another is several of the latter. `Select` to
`Claim` are `run_task_by_id`, `Code` is what `ExecuteTaskView` answers. The queue
is not in the repository: `TryAgain` says that it repeats what was answered with
an error, or not in time (`Deadline`), up to `MaxAttempts` times. A receiver of
`task_finished` that raises ends in FAILED as a task that raises, and is not
distinguished.

### RequestAuth and HttpEndpoints

`Handlers` is `get_auth_handlers`: the handlers that are asked, by their position;
the broker's is at 0, before those configured for the endpoint. `Verdict` is what one of them says: it accepts, rejects with 401 or
403, or raises (a secret that is missing, no session middleware). A secret, a token
or a signature matches or does not; a timestamp has an age in seconds, so that the
edges of `MAX_AGE` are there.

`Dispatch`, `TryHandler` and `NoHandlerLeft` are `BackendAuthMixin.dispatch`, one
handler a step. `PostRun` to `GetOrPostPurge` are the methods up to where they look
at the table, with what they refuse (400, 404, 405) and what leaves them as an
exception (500). `Fetch`, `Unlock` and `Claim` are `process_tasks` and `run_task_by_id` up to the
claim; `Finish` saves the outcome, `RecordError` makes a failure of a success whose
receiver raises, and `Report` is `refresh_from_db` with what is answered of it: the row
may have been retried or deleted in between (`NotFound`). `PurgeSelect` and `PurgeDelete` the rounds of
`_delete_in_batches`. `Raise` is a statement that fails, or the save of an outcome
whose row is gone. A body of a request is an object, other JSON or not JSON. `claims`
counts what the request has really claimed; only the properties read it. `deleted`
says, row by row, how often a request has counted it; the answer is their sum.

### WorkerLoop

`StartLoop` is what `handle` refuses, and the limit with its jitter; `Source` is
`_resolve_source`. `pc` then names the places of `_process_tasks`; `round` is the
loop over messages. An executor takes a job from its `inbox` (`Begin`), puts a
result (`PutResult`), then itself into the idle list (`PutIdle`): the main thread
may run between any two. A job is `"claimed"` (a row that the main thread has
claimed) or a `"message"`. What running a job comes to is `Run`: it counts or does
not, fails or does not, the function was called or not, according to which
exceptions may be raised. `failed` is `_count_failure`, which executors call and the
main thread too, and `exit_code` what `_exit_code` makes of it or the exception that
ended the loop; `trouble` remembers, for the properties, whether something failed. With
`options.purged`, rows may be deleted before their outcome is read back: a failed task
then leaves `run_task` as one that does not exist, which a message drops uncounted
(`run_database_tasks.py:832-838`).
The table and the broker are counters.

### Supervisor

`workers` is the slot list, a function from the index of each slot, which gives the
list its order; `next_index` is `_next_index`. `proc` is the processes; `Top` to `EndOfRound` are the
calls of one round of `_supervise`, in order; `Forward` to `KillWorkers` are
`_stop_workers`. Handlers only count, and may run between any two steps.
The clock appears as `Stabilize` (a process has run for `stable_after`),
`BackoffEnds` and the deadline. A process that has no handlers yet dies of a
signal; one that has stops after its task; at a second signal it gives it up.
`_pending_scale += 1` is one step: handlers run in the thread they interrupt.

### GracefulShutdown

`main` is where the main thread is: it installs the handlers (`Install`,
`Entered`), runs tasks (`Loop`, `TaskEnds`), restores the handlers (`Restore`) and
cancels the timer (`Cancel`, `Leave`). A signal without a handler ends the process.
`frames` is the stack of handlers that have begun; only the last one runs.
`AcquireLock`, `Count`, `SetEvent`, `StartTimer` and `Decide` are the lines of
`set` and `_handle_signal`. `overlap` says whether a signal is delivered while a
handler runs, which Python does. `signal.signal` runs handlers that are due before
it changes one, which is why `Install` and `Restore` wait for `tripped`.

How a command was called, or how things are deployed, is the variable `options`
of `BrokerWorkers`, `PushDelivery`, `HttpEndpoints`, `WorkerLoop` and `Supervisor`: `Init` takes it from a set
that the configuration names, no step changes it, and one run covers several
ways to run the system.

## 3. What the runs check

All runs end in less than two minutes. Deadlock is checked except for
`GracefulShutdown`, where the process can hang.

| Run | Instance | Shows |
|---|---|---|
| `DatabaseTasks_workers` | 2 rows, 2 workers, 1 caller with `allow_retry`, 2 recoveries, 2 deaths, row locks | `OneRunner`, `AttemptsKept`, `SuccessIsFinal`, and the refinement `ImplementsQueue` |
| `DatabaseTasks_maintained` | 2 rows, one deferred, 2 workers, a hasty recovery with and without `--mark-failed`, a purge, 1 death, fairness | `WithinAttempts`, `OnlyCompletedPurged`, `Completes` |
| `DatabaseTasks_adverse` | 1 row, no row locks, all admin actions, a caller, recovery, purge, receivers that raise, a death | `RunsWhatItClaimed`, of the admin's retry too, and `FinishedWhenCompleted` hold even then |
| `BrokerDelivery_dependable` | 2 tasks, 1 worker with everything that can go wrong, sweep and recovery, and a death or a database error; 2 workers with nothing but messages, which come back during the processing; 2 whose messages do not, with a database error and recovery | `ReadyIsCovered`, `NothingIsLost` |
| `PostgresDelivery_usual` | 2 tasks, one in a transaction, one deferred: 2 workers that nothing happens to; 1 worker with everything that can go wrong, a database error in a run too | `HearsInTime`, `NothingIsLost`, also when a recovery dies before it notifies |
| `PushDelivery_usual` | 2 tasks: 2 requests of the queue alone, with a death and recovery; 2 with late answers, lost sends and a cron job; 1 with all of it | `NoOverlap`, `StillDelivered`, `NothingIsLost` |
| `WorkerLoop_usual` | 2 executors from both sources with a limit of 2, the same with exceptions and `SystemExit`, a single run over the table, tasks run inline from each source, several messages a round, with a jitter, rows deleted before they are read back (inline and with executors), and four commands that are refused | `WithinMaxTasks`, `SlotsAccounted`, `ReportsWhatItDid`, `Stops` |
| `Supervisor_usual` | 2 workers that crash and stop; 1 that hangs; 1 scaled; 1 run once, scaled twice, not to be started | `SlotsKept`, `NothingCut`, `CrashReported`, `OutageTold`, `Stops`, `StaysStaffed` |
| `GracefulShutdown_usual` | 2 kinds of signal, 4 sent, before, inside and after the context, all values of the options | `OneTimer`, `LeftInPeace`, `EndsWhenTold` |
| `HttpEndpoints_usual` | 5 deployments of 2 or 3 requests that meet on 2 tasks, where outcomes are retried or deleted before they are read back; 16 requests, each with one thing wrong or none; 8 configurations of the handlers with 22 callers each | `LetInAsConfigured`, `AnswersTruthfully`, `Answered` |

Two runs show where the program does not do what its documentation or a comment
says:

* `DatabaseTasks_purge_race`: deleting a READY or RUNNING task "would lose work"
  (`executor.py:588-589`). The purge deletes by id what it selected in an earlier
  statement; a retry in between makes it lose exactly that.
* `GracefulShutdown_reentry`: "a second signal exits the process immediately"
  (`shutdown.py:84-85`). The handler takes a lock that is not reentrant; a second
  handler that interrupts the first while it holds the lock waits for ever.

Further limits of the program that the models take as they are:

* "Two workers never run the same task" (`README.md:990-991`) does not hold beside
  the admin's retry: it saves a stale copy of the row, status included, without a
  lock or a condition (`admin.py:189`); a caller that has retried the task meanwhile
  is still running it when it is made READY and run again. `OneRunner` is checked
  and proved for an admin that only runs tasks. `RunsWhatItClaimed` says what is left
  with the retry: it may start a task whose row is RUNNING, from the copy it read as
  FAILED, but while its transaction runs the task nobody else starts it.
* `WithinMaxTasks`, and of `ReportsWhatItDid` the part about `processed`, suppose
  that a task that was started is counted. One that raises out of `run_task` (a
  receiver of `task_finished` that raises) or exits its executor is not
  (`threads.py:140-155`, `run_database_tasks.py:850`), so more than `--max-tasks`
  may start. A task that exits a worker without executors ends it, and does no harm.
* A task that fails and whose row is deleted between the save and `refresh_from_db`
  (`backends.py:543`) leaves `run_task` as `DoesNotExist`. The worker takes its
  message for one of a task that never was: it counts neither a task nor a failure
  (`run_database_tasks.py:832-838`), so the limit may be passed and the exit code may
  not tell of the failure. `ExecuteTaskView` answers 404 for a task it has claimed and
  run (`views.py:431-432`). `WithinMaxTasks` and `ReportsWhatItDid` say what holds
  where rows are purged that soon, `AnswersTruthfully` that 404 after a claim is only
  said of a row that is gone. A task that is retried in that moment is reported with
  the status that is read.
* A recovery that dies between its commit and its notifications (`executor.py:436`)
  leaves a READY row no message names. `NothingIsLost` of `PostgresDelivery` holds
  with such deaths because the deployment that has them sweeps the table.
* A message whose row is READY but locked by somebody else is acknowledged
  (`executor.py:309-327`, `run_database_tasks.py:852`). If the holder dies before
  it claims, no message is left; with the sweep the task is still found. This is
  why the deployment of `BrokerDelivery_dependable` whose messages come back during
  the processing has neither deaths nor errors.
* The same goes for a database error: the message is given back
  (`run_database_tasks.py:849`), but if the queue has redelivered it to a worker that
  met the lock and acknowledged it, an error at the claim leaves a READY row without
  a message; and an error at the save of the outcome (`backends.py:510`, then `586`)
  leaves the row RUNNING, where the message, when it comes back, is acknowledged too.
  `ReadyIsCovered` without the sweep needs a visibility timeout that is long enough
  wherever errors happen, and `NothingIsLost` recovery.
* `errors_json` is written from the copy loaded before the claim
  (`backends.py:575`): an error recorded in between is lost. It takes a caller that
  retries a task beside a polling worker. No other decision reads the list.
* The delay of an SQS message is cut to whole seconds (`sqs/broker.py:139`) and
  `run_task_by_id` does not ask for `run_after`: a deferred task may be run up to a
  second early. Time has no units in the models.
* "A worker that dies mid-task leaves the message to reappear ..., so nothing is
  lost" (`README.md:2455-2456`): the message reappears, finds the row RUNNING and
  is acknowledged. `NothingIsLost` of `BrokerDelivery` needs `recovery`, that is
  `requeue_stale_tasks`, wherever a worker may die.
* The `except` branch of `run` counts as a shutdown request
  (`supervisor.py:333-338`), so that one signal during it kills the workers; and
  `_stop_workers` signals a worker that is retiring a second time
  (`supervisor.py:572`), which makes it give its task up. `NothingCut` leaves both
  out.
* A push queue gives a delivery up when it is answered with success, and
  `ExecuteTaskView` does so for a task that is RUNNING (`views.py:434-437`). If
  that run fails, and its own request was given up as late, or it was one of the
  cron job, nothing tries the task again. `StillDelivered` therefore supposes that
  the queue waits long enough and has the tasks to itself. The broker reads the
  option `RETRY_CONFIG` (`cloudtasks/broker.py:78`) and does not use it: the
  number of attempts is that of the queue.

### Bounds

Two rows, two workers and two recoveries are enough for every pair of actors to
meet on one row and for a batch to hold a row somebody else wants; the
properties are about one row at a time, and the order of rows matters only to
`Completes`, for which the rows differ in rank and in `run_after`.
`MaxAttempts = 2` makes the limit a number of claims that deaths reach;
`MaxCrashes` and `MaxRetries` cap what could otherwise go on for ever. Where a
property needs a longer story (recovery that is premature needs no death at all)
the run gives it. Two messages per task are enough for a duplicate;
`MaxReceive = 2` for a round with several. In `PushDelivery` two attempts are one
retry, and two requests are enough for a late one to meet its repetition. In `WorkerLoop` a limit of 2 with 3
arrivals and 2 executors reaches the cap with work left and results under way, and a limit of 2 with a
jitter of 1 makes the two differ.
In `Supervisor` there are up to three processes for up to three slots, and
`MaxFailures = 1` because the number of failures is only asked whether it is 0.
In `GracefulShutdown` four signals of two kinds nest up to four handlers.
In `HttpEndpoints` two tasks let a batch lose one and take the other, a batch size
of 1 makes a purge take two rounds, and three requests are a purge, a retry and a
batch at once; limits and ages are at their edges (-1, 0, 2 and 101 tasks, 300 and
301 seconds either way).

### Fairness

* `DatabaseTasks`: the clock moves; a thread that has a row goes on; recovery is
  run again and again (the documentation schedules it); a purge that has begun
  ends. Polling a row and claiming it are strongly fair: another's lock, held for
  one statement, can turn a worker away now and then, but threads that poll with
  intervals do not meet in lockstep for ever. A purge need never be started, a
  task need never be enqueued, nobody need die.
* `BrokerDelivery`: the same for workers; visibility timeouts run out; and the
  queue does not answer "empty" for ever while it has a message to give.
* `PostgresDelivery`: the same for workers; nothing is said of when, or whether,
  a notification is read, for `receive` may time out first.
* `PushDelivery`: servers go on with their requests, the cron job posts again and
  again; nothing is supposed of the queue.
* `HttpEndpoints`: servers go on with their requests; a claim that another request's
  lock, held for one statement, turns away is not turned away for ever.
* `WorkerLoop`: threads are scheduled, tasks end, waits time out.
* `Supervisor`: the loop is scheduled and back-offs end. A worker that was told
  to stop does so if its tasks end or its timeout is on; the deadline is strongly
  fair because the loop looks at it between looks at the children.
* `GracefulShutdown`: handlers and the timer run; a task need never end.

## 4. What is proved

For any number of rows, threads, workers, requests, processes and signals, and any
bounds, each invariant that a run checks, each action property and the refinement is
also a theorem, under the hypotheses given:

| Module | Theorem | Hypotheses | Says |
|---|---|---|---|
| `DatabaseTasksProofs` | `TypeCorrect` | none | `TypeOK` |
| | `RunnersExclusive` | row locks; not `Premature`; the admin at most runs tasks | `OneRunner` |
| | `AttemptsBounded` | row locks; callers do not retry; the admin at most runs tasks | `WithinAttempts`, even if recovery is premature |
| | `FinishedIsCompleted` | none | `FinishedWhenCompleted` |
| | `RunsOnlyWhatItClaimed` | none | `RunsWhatItClaimed` of every step |
| | `AttemptsAreKept` | row locks; the admin does not retry | `AttemptsKept` of every step |
| | `SuccessStands` | as `RunnersExclusive`; no receiver raises | `SuccessIsFinal` of every step |
| | `PurgesCompleted` | callers do not retry | `OnlyCompletedPurged` of every step |
| | `TableImplementsQueue` | as `SuccessStands`; callers do not retry, or nothing is purged | `ImplementsQueue`: every step is one of the queue or none |
| `BrokerDeliveryProofs` | `BrokerTypeOK` | none | `TypeOK` |
| | `AlwaysReadyIsCovered` | `MaxSends > 0`; where the table is not swept: no transaction around `enqueue`, no task deferred too far, calls to the queue do not fail, and either no worker dies or meets an error, or messages reappear only when nobody has them and recovery sends none | `ReadyIsCovered` |
| `PostgresDeliveryProofs` | `PostgresTypeOK` | none | `TypeOK` |
| | `WakesInTime` | `MaxSends > 0` | `HearsInTime` |
| `PushDeliveryProofs` | `PushTypeOK` | none | `TypeOK` |
| | `PushRunsOnce` | none | `NoOverlap` |
| | `AlwaysStillDelivered` | where the property says anything, fewer deaths than `MaxSends` | `StillDelivered` |
| `HttpEndpointsProofs` | `HttpEndpointsTypeOK` | none | `TypeOK` |
| | `AlwaysLetInAsConfigured` | none | `LetInAsConfigured` |
| | `AlwaysAnswersTruthfully` | none | `AnswersTruthfully`, of states and of steps |
| `WorkerLoopProofs` | `WorkerLoopTypeOK` | none | `TypeOK` |
| | `SlotsAlwaysAccounted` | none | `SlotsAccounted` |
| | `AlwaysWithinMaxTasks` | none | `WithinMaxTasks` |
| | `AlwaysReportsWhatItDid` | none | `ReportsWhatItDid` |
| `SupervisorProofs` | `SupervisorTypeOK` | none | `TypeOK` |
| | `SlotsAlwaysKept` | none | `SlotsKept` |
| | `NothingEverCut` | none | `NothingCut` |
| | `CrashAlwaysReported` | none | `CrashReported` |
| | `OutageAlwaysTold` | none | `OutageTold` |
| `GracefulShutdownProofs` | `ShutdownTypeOK` | none | `TypeOK` |
| | `TimerStartsOnce` | none | `OneTimer` |
| | `LeavesInPeace` | none | `LeftInPeace` |

besides the assumptions the modules state on their constants (the kinds of actor
are disjoint, options have their types, executors and processes are finite in number,
a queue tries at least once). The hypotheses are the ones the code
needs: without locks two claims can both see READY and count the same list
(SQLite), the admin's retry is the race above, and a caller's retry beside a purge
is `DatabaseTasks_purge_race`. `MaxSends` is a bound of the models and not of the
code: the hypotheses on it say that it lets a notification, or one for every death,
be sent at all. Without a sweep a message is all a task has: one that is sent before
its row can be seen, or not at all, is the case the documentation has the sweep for.

*One runner.* `OneRunner` is not inductive: nothing in it keeps a second thread
from claiming. `Exclusive` adds why none can. A task that runs has a row that is
RUNNING, SUCCESSFUL or DELETED, never READY or FAILED (`RunsUnfinished`), so
neither a claim nor a caller's reset starts from it; a caller between its
`SELECT` and its save holds the row and has its status right (`ResetHoldsRow`);
recovery between `SELECT` and commit holds its rows, unchanged (`BatchHoldsRows`),
and nobody runs them (`BatchIsDead`).

*Attempts.* `Counted` adds to `WithinAttempts` that a row that is READY has an
attempt left (`ReadyHasAttempt`) and that the number a claim or a recovery has
read is the number still in the row (`ClaimHoldsRow`, `BatchHoldsRows`).

*Finished.* `FinishedWhenCompleted` is inductive given `TypeOK`.

*Claims.* `RunsOnlyWhatItClaimed` needs, beside `TypeOK`, that whoever is in a retry of
the admin holds its row (`RetryHolds`): no step takes that lock away (`LocksKept`), and
nobody else begins a task whose row is locked (`BeginsAlone`). Every step but
`ClaimUpdate` and `AdminRetry` moves no thread to where it runs; the first has the
condition on the status, the second a copy read as FAILED. This is what holds on SQLite
and beside the admin too.

*History.* For `AttemptsAreKept`, `ClaimsCount` says that the list a claim writes is
one longer than the one still in the row. For `SuccessStands`, `OutcomeIsOpen` says
that whoever has yet to write an outcome has a row that is RUNNING or deleted; with
one runner, nobody else's outcome is there to be overwritten. For `PurgesCompleted`,
`DoomedAreCompleted` says that rows that were completed when a purge selected them
still are: no caller makes them READY again, and what the admin retries is in a
transaction until it has an outcome.

*Refinement.* By `HolderFacts` the mapping's holder is the one runner of a RUNNING
row. `Orderly` joins the invariants above, and each action is then shown to be a
claim, a finish, a loss, a recovery, a retry or a removal of the queue, or a stutter.

*Push.* `Orderly` of `PushDeliveryProofs`: a request that is at a task holds its row
locked, with the status it selected, until the transaction ends; a request that runs
has a row that is RUNNING. A claim asks for READY, so nobody else runs it then.

*Wake-ups.* `Base` holds in every deployment: rows are there once committed, locks
belong to a select, and what is heard of is there. As long as nothing has failed,
`Quiet` adds that a worker listens once it is past its first poll, that a RUNNING row
is run by somebody alive, that nothing waits to be announced, and that a row that is
READY before a worker waits was announced to it, is in hand, or is yet to be swept.

*Shutdown.* At most one handler is between acquiring the lock and releasing it, so at
most one reads the event unset; what a handler has read stays true until it acts on
it; and once the timer is cancelled no handler is left, installed or begun.

*Covered.* `Base` of `BrokerDeliveryProofs` gives the types in every deployment. Where
only messages bring tasks, `Firm` adds why a message may be given up: a worker at a
task has opened a message about it (`Attached`), the row was there before the message
(`Known`), and one that acknowledges a message whose task is still READY has met the
lock of somebody who is about to claim it (`AckedIsDone`). Where nobody dies or
meets an error, what is RUNNING is being run and never comes back (`RunningIsRun`).
Otherwise that somebody could fail too; but then a task has one message, which one
worker at most has (`Single`), so that whoever holds the lock is the one with the
message, and nobody acknowledges it before the claim.

*Still delivered.* In a deployment of the queue alone every request has a delivery
that waits for its answer (`Tended`). `Covered` follows a task that is owed a run from
the delivery that waits to the request that was made of it, and back when it fails.
`Accounted` counts: a task was announced once by `enqueue` and once more for each
death, so that the bound on what is sent never hides a delivery that is due.

*Loop.* `Orderly` of `WorkerLoopProofs`: `Placed` says where an executor, its job and its
slot may be together; `Room` that whoever hands out a job finds an idle executor;
`Balanced` that `busy` is the jobs in inboxes, the executors at work and the results
not yet collected, by cardinalities; `UnderLimit` that what is processed, out and in
hand never passes the limit, and is short of it where the loop looks for more;
`Counted` that what was started is somewhere in that sum, if nothing leaves its run
uncounted; `Finished`, `Told` and `Reported` carry the failures to the exit code: what
is told has happened, and what has happened is told unless rows are purged.

*Supervisor.* `Orderly` of `SupervisorProofs`: `Owned` pairs processes and slots one to
one; `Numbered` gives a new slot an index nobody has; `Staffed` keeps a slot that is not
retiring; `Emptied` and `Unhurried` say who may be told to stop, and when; `CrashHeld`
finds the code of a crash in a dead process until it is reaped, and in `codes` after;
`CleanIsNew` says that during an outage a slot that has just exited well has no
failures.

*Endpoints.* `Orderly` of `HttpEndpointsProofs`: the handlers tried are the first ones of
those that are asked, and have all rejected the request (`Asking`); whatever is past the
gate was let in (`Passed`); a request in the middle of a task asks for it (`Placed`);
the claims it made are the results it will report, with the one under way (`Tallied`);
one that was told "not found" after a claim has a row that is gone for good (`NotThere`);
and a row that is gone is counted by exactly one purge (`CountedOnce`).

*Types.* Most types come with the invariants above. What they leave are the counters and
the bounds: `Booked` (attempts, deliveries), `Bounds` (faults, deaths, and that only an
open connection has something to read), `RestTyped` (the signals and the lock).

What the attempts to prove showed of the models, and was corrected:

* `WithinMaxTasks` held in the run but not always: a task that exits its executor is
  not counted, so that executors whose tasks exit, but raise nothing else, pass the
  limit; no deployment of the run was of that kind. The property now leaves such tasks
  out, except for a worker without executors, which they end; and it says apart that
  the limit is one the jitter allows.
* `AnswersAddUp` bounded the claims of a batch by its `max_tasks`, which fails for a
  negative one: the request then claims nothing. The run has such a request now.
* `StillDelivered` fails for a queue that tries zero times: `PushAssumption` says that
  a queue tries at least once.
* The slots of `Supervisor`, the handlers of `RequestAuth` and the deletions of a purge were
  sequences and a sum. As functions from an index, a position and a row they are closer
  to what the code does with them, and can be reasoned about.

Only model-checked: liveness (`Completes`, `NothingIsLost`, `Answered`, `Stops`,
`StaysStaffed`, `EndsWhenTold`), which the prover does not handle.

## 5. Not modelled

* Inside modelled components: log records, progress output, log fields, the names
  of worker ids, translations, the lists and filters of the admin, queries that only
  count (`get_queue_stats`, `get_result`, the answer of `/status/`), dry runs of the
  two maintenance commands. They change no state another part reads.
* Parsing of command options and settings, `parse_older_than`, and the arguments a
  worker process is started with: values, not behaviour.
* SQS: urls of queues, parsing of messages, the dead-letter policy (which is the
  queue's), detection of the environment. PostgreSQL: payloads, the filter by queue,
  the settings of the connection. Cloud Tasks: the verification of a token inside
  Google's library, the decorator `verify_cloud_tasks_oidc` for a project's own views,
  detection of the environment.
* Admin: the change form, in which the status of a row can be edited
  (`admin.py:44-47`), and the deletion of rows by hand: both write over whatever a
  worker does, at the will of who is logged in.
* Workers: `close_old_connections` that raises (`threads.py:157`), which would end the
  executor before its result is put; a PostgreSQL broker whose `DATABASE` is not the
  database of the tasks, so that notifications do not go out with the commit of a task.
* Endpoints: the age of completed tasks (`days` is checked, not compared), the order
  of the queue (in `DatabaseTasks`), the text of answers.
* Shutdown: `set()` from another thread, a timer that already fires while it is
  cancelled, contexts inside each other.
* `apps.py` and the examples: no state.

## 6. Plan

Done: the table and the queue it implements, delivery by each broker, the endpoints
and their authentication, the loop with its options and exit code, the supervisor,
the shutdown; and a theorem for every safety property of a run. What is left:

1. An abstract promise for delivery, one level above the three brokers, and the part of
   it that is safety proved of each as `TableImplementsQueue` is of the table.
2. The list of errors in the row of `DatabaseTasks`, instead of its length.
3. Delays in whole seconds and `combine_exit_codes`, each against a reference
   definition.
