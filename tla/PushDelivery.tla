---------------------------- MODULE PushDelivery ----------------------------
(***************************************************************************)
(* Tasks that a push queue has executed: CloudTasksBroker tells the queue  *)
(* of a task, the queue posts to /tasks/execute/<id>/ until it gets a      *)
(* success, and that endpoint runs the task, or one that failed before     *)
(* (ExecuteTaskView with the parameters the broker puts into its URL).     *)
(* Beside it a cron job may post to /tasks/run/ (RunTasksView).            *)
(*                                                                         *)
(* The queue is a service outside the repository: it repeats a delivery    *)
(* that was answered with an error, not at all, or too late, up to a       *)
(* number of attempts.  An operator whose name ends in Mutant is a         *)
(* plausible slip in the code the operator after it models; no definition  *)
(* uses it.                                                                *)
(***************************************************************************)
EXTENDS Integers, FiniteSets

CONSTANTS
  Tasks, Requests, NoOne, NoDelivery, NoTask,
  MaxSends,       \* bound: deliveries asked for, for one task
  MaxAttempts,    \* attempts of the queue at one delivery
  Deployments     \* the ways to run it all that are looked at

Deliveries == Tasks \X (1 .. MaxSends)

ASSUME PushAssumption ==
  /\ NoOne \notin Requests
  /\ NoDelivery \notin Deliveries
  /\ NoTask \notin Tasks
  /\ MaxSends \in Nat /\ MaxAttempts \in Nat \ {0}   \* a queue tries at least once
  /\ Deployments \subseteq
       [requests: SUBSET Requests,    \* requests that are served at a time
        in_transaction: SUBSET Tasks, \* enqueued in a transaction of the application
        far: SUBSET Tasks,            \* deferred
        batches: BOOLEAN,             \* does a cron job post to /tasks/run/?
        deadlines: BOOLEAN,           \* may a request take longer than the queue waits?
        calls_may_fail: BOOLEAN,      \* may the creation of a delivery fail?
        recovery: BOOLEAN,            \* is requeue_stale_tasks run, notifying the broker?
        max_crashes: Nat]             \* bound: servers that die in a request

VARIABLES
  options,     \* the deployment: it never changes
  app,         \* how far enqueue has got with a task
  status,      \* the status of its row, as committed; "NONE" without a row
  due,         \* tasks whose run_after has passed
  lock,        \* who holds the lock of a row
  sent,        \* deliveries asked for
  waiting,     \* deliveries the queue is to make, at first or again
  attempts,    \* attempts made
  request,     \* what each request that is served does
  unannounced, \* tasks requeued whose broker is yet to be notified
  crashes

table == <<app, status, due, lock>>
queue == <<sent, waiting, attempts>>
vars == <<options, table, queue, request, unannounced, crashes>>

\* awaited: does the queue still wait for the answer?
Request == [pc: {"none", "select", "selected", "claim", "run", "answer"},
            delivery: Deliveries \cup {NoDelivery}, task: Tasks \cup {NoTask},
            code: {200, 404, 500}, awaited: BOOLEAN]

None == [pc |-> "none", delivery |-> NoDelivery, task |-> NoTask, code |-> 200,
         awaited |-> FALSE]

Served == options.requests
Set(r, x) == request' = [request EXCEPT ![r] = x]
Goto(r, pc) == Set(r, [request[r] EXCEPT !.pc = pc])

\* The request is answered; one of the cron job goes on with the next task.
Answer(r, code) ==
  Set(r, IF request[r].delivery = NoDelivery THEN None
         ELSE [request[r] EXCEPT !.pc = "answer", !.code = code])

Init ==
  /\ options \in Deployments
  /\ app = [t \in Tasks |-> "new"]
  /\ status = [t \in Tasks |-> "NONE"]
  /\ due = Tasks \ options.far
  /\ lock = [t \in Tasks |-> NoOne]
  /\ sent = [t \in Tasks |-> 0]
  /\ waiting = {}
  /\ attempts = [d \in Deliveries |-> 0]
  /\ request = [r \in Served |-> None]
  /\ unannounced = {} /\ crashes = 0

-----------------------------------------------------------------------------
(* Enqueueing, and the queue.                                              *)

Insert(t) ==
  /\ app[t] = "new"
  /\ app' = [app EXCEPT ![t] = "inserted"]
  /\ status' = IF t \in options.in_transaction THEN status ELSE [status EXCEPT ![t] = "READY"]
  /\ UNCHANGED <<options, due, lock, queue, request, unannounced, crashes>>

\* A failure is swallowed by notify_broker.
Send(t) ==
  /\ UNCHANGED attempts
  /\ \/ sent[t] < MaxSends /\ sent' = [sent EXCEPT ![t] = @ + 1]
                           /\ waiting' = waiting \cup {<<t, sent'[t]>>}
     \/ (sent[t] = MaxSends \/ options.calls_may_fail) /\ UNCHANGED <<sent, waiting>>

Notify(t) ==
  /\ app[t] = "inserted"
  /\ app' = [app EXCEPT ![t] = "notified"]
  /\ Send(t)
  /\ UNCHANGED <<options, status, due, lock, request, unannounced, crashes>>

EndTransaction(t) ==
  /\ app[t] = "notified" /\ t \in options.in_transaction
  /\ \/ app' = [app EXCEPT ![t] = "committed"] /\ status' = [status EXCEPT ![t] = "READY"]
     \/ app' = [app EXCEPT ![t] = "rolled back"] /\ UNCHANGED status
  /\ UNCHANGED <<options, due, lock, queue, request, unannounced, crashes>>

BecomeDue(t) ==
  /\ t \in Tasks \ due
  /\ due' = due \cup {t}
  /\ UNCHANGED <<options, app, status, lock, queue, request, unannounced, crashes>>

\* schedule_time holds a delivery back until its task is due.
Deliver(r, d) ==
  /\ request[r] = None
  /\ d \in waiting /\ d[1] \in due
  /\ waiting' = waiting \ {d}
  /\ attempts' = [attempts EXCEPT ![d] = @ + 1]
  /\ Set(r, [pc |-> "select", delivery |-> d, task |-> d[1], code |-> 200, awaited |-> TRUE])
  /\ UNCHANGED <<options, table, sent, unannounced, crashes>>

\* What the queue does with a delivery that has not succeeded.
TryAgain(r) ==
  waiting' = IF request[r].awaited /\ attempts[request[r].delivery] < MaxAttempts
             THEN waiting \cup {request[r].delivery} ELSE waiting

GetAnswer(r) ==
  /\ request[r].pc = "answer"
  /\ IF request[r].code = 200 THEN UNCHANGED waiting ELSE TryAgain(r)
  /\ Set(r, None)
  /\ UNCHANGED <<options, table, sent, attempts, unannounced, crashes>>

\* The queue waits no longer; the server goes on with the request.
Deadline(r) ==
  /\ options.deadlines /\ request[r].awaited
  /\ TryAgain(r)
  /\ Set(r, [request[r] EXCEPT !.awaited = FALSE])
  /\ UNCHANGED <<options, table, sent, attempts, unannounced, crashes>>

-----------------------------------------------------------------------------
(* The endpoints.                                                          *)

AllowedMutant == {"READY", "FAILED", "RUNNING"}
Allowed == {"READY", "FAILED"}

\* run_task_by_id with allow_retry=True, up to the answer of its select.
Select(r) ==
  LET t == request[r].task
  IN /\ request[r].pc = "select"
     /\ \/ /\ status[t] = "NONE"
           /\ Answer(r, 404) /\ UNCHANGED lock
        \/ /\ status[t] \in Allowed /\ lock[t] = NoOne
           /\ Goto(r, "selected") /\ lock' = [lock EXCEPT ![t] = r]
        \/ /\ status[t] # "NONE" /\ ~(status[t] \in Allowed /\ lock[t] = NoOne)
           /\ Answer(r, 200) /\ UNCHANGED lock
     /\ UNCHANGED <<options, app, status, due, queue, unannounced, crashes>>

\* process_tasks for the cron job: fetch_task.
FetchableMutant(t) == status[t] = "READY" /\ t \notin due /\ lock[t] = NoOne
Fetchable(t) == status[t] = "READY" /\ t \in due /\ lock[t] = NoOne

Fetch(r, t) ==
  /\ options.batches
  /\ request[r] = None
  /\ Fetchable(t)
  /\ lock' = [lock EXCEPT ![t] = r]
  /\ Set(r, [None EXCEPT !.pc = "selected", !.task = t])
  /\ UNCHANGED <<options, app, status, due, queue, unannounced, crashes>>

\* The transaction ends; a task that has failed is READY again.
UnlockMutant(r) ==
  /\ request[r].pc = "selected"
  /\ status' = [status EXCEPT ![request[r].task] = "READY"]
  /\ Goto(r, "claim")
  /\ UNCHANGED <<options, app, due, lock, queue, unannounced, crashes>>
Unlock(r) ==
  LET t == request[r].task
  IN /\ request[r].pc = "selected"
     /\ status' = [status EXCEPT ![t] = "READY"]
     /\ lock' = [lock EXCEPT ![t] = NoOne]
     /\ Goto(r, "claim")
     /\ UNCHANGED <<options, app, due, queue, unannounced, crashes>>

Claimable(r) == status[request[r].task] = "READY" /\ lock[request[r].task] = NoOne

Claim(r) ==
  LET t == request[r].task
  IN /\ request[r].pc = "claim"
     /\ \/ /\ Claimable(r)
           /\ status' = [status EXCEPT ![t] = "RUNNING"]
           /\ Goto(r, "run")
        \/ /\ ~Claimable(r)
           /\ Answer(r, 200)
           /\ UNCHANGED status
     /\ UNCHANGED <<options, app, due, lock, queue, unannounced, crashes>>

\* fail_on_error=true: the queue is to try again what failed.
CodeMutant(outcome) == 200
Code(outcome) == IF outcome = "FAILED" THEN 500 ELSE 200

Finish(r) ==
  /\ request[r].pc = "run"
  /\ \E outcome \in {"SUCCESSFUL", "FAILED"} :
       /\ status' = [status EXCEPT ![request[r].task] = outcome]
       /\ Answer(r, Code(outcome))
  /\ UNCHANGED <<options, app, due, lock, queue, unannounced, crashes>>

\* The server dies in a request: the queue gets an error.
Crash(r) ==
  /\ request[r].pc # "none" /\ crashes < options.max_crashes
  /\ crashes' = crashes + 1
  /\ lock' = [t \in Tasks |-> IF lock[t] = r THEN NoOne ELSE lock[t]]
  /\ TryAgain(r)
  /\ Set(r, None)
  /\ UNCHANGED <<options, app, status, due, sent, attempts, unannounced>>

-----------------------------------------------------------------------------
(* requeue_stale_tasks --notify-broker, for a task whose server has died.  *)

Running(r, t) == request[r].pc = "run" /\ request[r].task = t

Requeue(t) ==
  /\ options.recovery
  /\ status[t] = "RUNNING" /\ \A r \in Served : ~Running(r, t)
  /\ status' = [status EXCEPT ![t] = "READY"]
  /\ unannounced' = unannounced \cup {t}
  /\ UNCHANGED <<options, app, due, lock, queue, request, crashes>>

Announce(t) ==
  /\ t \in unannounced
  /\ unannounced' = unannounced \ {t}
  /\ Send(t)
  /\ UNCHANGED <<options, table, request, crashes>>

-----------------------------------------------------------------------------

Serve(r) == Select(r) \/ Unlock(r) \/ Claim(r) \/ Finish(r) \/ GetAnswer(r)

\* The queue has tried a delivery of t as often as it does.
GivenUp(t) == \E d \in Deliveries : d[1] = t /\ attempts[d] = MaxAttempts

\* The queue is empty and no request is served.
Quiet ==
  /\ waiting = {} /\ unannounced = {}
  /\ \A r \in Served : request[r] = None
  /\ UNCHANGED vars

Next ==
  \/ \E t \in Tasks : \/ Insert(t) \/ Notify(t) \/ EndTransaction(t) \/ BecomeDue(t)
                      \/ Requeue(t) \/ Announce(t)
  \/ \E r \in Served : \/ \E d \in Deliveries : Deliver(r, d)
                       \/ \E t \in Tasks : Fetch(r, t)
                       \/ Serve(r) \/ Deadline(r) \/ Crash(r)
  \/ Quiet

Spec == Init /\ [][Next]_vars

\* The application goes on with what it began, a server with its requests,
\* the clock and the recovery with theirs; the cron job posts again and again.
\* Nothing is supposed of the queue.
Fairness ==
  /\ \A t \in Tasks :
       /\ WF_vars(Notify(t) \/ EndTransaction(t) \/ BecomeDue(t) \/ Requeue(t) \/ Announce(t))
       /\ SF_vars(\E r \in Served : Fetch(r, t))
  /\ \A r \in Requests :
       /\ WF_vars(r \in Served /\ Serve(r))
       /\ SF_vars(r \in Served /\ request[r].pc = "claim" /\ Claimable(r) /\ Claim(r))

FairSpec == Spec /\ Fairness

-----------------------------------------------------------------------------

\* Every variable has its type, and a row is locked only by a request that
\* has just selected it (run_task_by_id, fetch_task).
TypeOK ==
  /\ options \in Deployments
  /\ app \in [Tasks -> {"new", "inserted", "notified", "committed", "rolled back"}]
  /\ status \in [Tasks -> {"NONE", "READY", "RUNNING", "SUCCESSFUL", "FAILED"}]
  /\ due \subseteq Tasks
  /\ lock \in [Tasks -> Served \cup {NoOne}]
  /\ \A t \in Tasks, r \in Served : lock[t] = r => request[r].pc = "selected" /\ request[r].task = t
  /\ sent \in [Tasks -> 0 .. MaxSends]
  /\ waiting \subseteq Deliveries
  /\ attempts \in [Deliveries -> 0 .. MaxAttempts]
  /\ request \in [Served -> Request]
  /\ unannounced \subseteq Tasks
  /\ crashes \in 0 .. options.max_crashes

\* A delivery that is repeated while the first attempt still runs, a retry
\* and the cron job never make two requests run one task at once
\* (run_task_by_id, ExecuteTaskView).
NoOverlap ==
  \A t \in Tasks : \A r, s \in Served : Running(r, t) /\ Running(s, t) => r = s

\* "Cloud Tasks handles retry with the task ID": a task that is READY or has
\* FAILED is still to be delivered, or a request is at it whose answer makes
\* the queue try again, until the queue has used its attempts up.  It
\* supposes that the queue waits long enough and has the tasks to itself.
StillDelivered ==
  ~options.deadlines /\ ~options.batches /\ ~options.calls_may_fail =>
    \A t \in Tasks :
      status[t] \in {"READY", "FAILED"} /\ app[t] # "inserted" =>
        \/ \E d \in waiting : d[1] = t
        \/ t \in unannounced
        \/ \E r \in Served : /\ request[r].task = t /\ request[r].awaited
                             /\ request[r].pc = "answer" => request[r].code # 200
        \/ GivenUp(t)

\* Every task whose row is there is in the end run to an outcome, if the
\* cron job and the recovery are run, whatever the queue does (RunTasksView).
NothingIsLost ==
  options.batches =>
    \A t \in Tasks : status[t] \in {"READY", "RUNNING"} ~> status[t] \in {"SUCCESSFUL", "FAILED"}

=============================================================================
