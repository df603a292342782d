----------------------------- MODULE BrokerWorkers -----------------------------
(***************************************************************************)
(* What workers that have a broker share, whichever broker it is: the rows *)
(* as far as the broker matters, and the loop of run_database_tasks with   *)
(* --source broker or both.  A message only names a task; the row says     *)
(* whether it may still run.  The modules that extend this one add the     *)
(* broker and say how each step here goes with it.                         *)
(*                                                                         *)
(* The table is the one of DatabaseTasks with the claim as a single step.  *)
(* An operator whose name ends in Mutant is a plausible slip in the code   *)
(* the operator after it models; no definition uses it.                    *)
(***************************************************************************)
EXTENDS Integers, FiniteSets

CONSTANTS
  Tasks, Processes, NoOne, NoMessage, NoTask,
  MaxReceive,       \* messages asked for at once
  MaxSends,         \* bound: messages sent for one task
  Deployments       \* the ways to run it all that are looked at

Messages == Tasks \X (1 .. MaxSends)

ASSUME DeliveryAssumption ==
  /\ NoOne \notin Processes
  /\ NoMessage \notin Messages
  /\ NoTask \notin Tasks
  /\ {MaxReceive, MaxSends} \subseteq Nat
  /\ Deployments \subseteq
       [workers: SUBSET Processes,
        sweeps: BOOLEAN,              \* --source both: is the table polled too?
        in_transaction: SUBSET Tasks, \* enqueued in a transaction of the application
        far: SUBSET Tasks,            \* deferred further than the broker holds a message
        calls_may_fail: BOOLEAN,      \* may a call to the broker fail?
        short_visibility: BOOLEAN,    \* may a message come back during the processing?
        recovery: BOOLEAN,            \* is requeue_stale_tasks run, notifying the broker?
        max_faults: Nat,              \* bound: errors met by workers
        max_crashes: Nat]             \* bound: workers that die

VARIABLES
  options,   \* the deployment: it never changes
  app,       \* how far enqueue has got with a task
  status,    \* the status of its row, as committed; "NONE" without a row
  due,       \* tasks whose run_after has passed
  lock,      \* who holds the lock of a row
  sent,      \* messages sent for a task
  worker,    \* the state of each worker's loop
  unannounced, \* tasks requeued whose broker is yet to be notified
  faults, crashes

table == <<app, status, due, lock>>
bounds == <<faults, crashes>>

Workers == options.workers

\* round: which of its sources the loop is at; hand: messages received and
\* not yet looked at; current: the message being worked on; ran: whether a
\* task was run in this round.
Worker == [pc: {"loop", "work", "selected", "claim", "run", "ack", "nack"},
           round: {"poll", "sweep", "wait"},
           hand: SUBSET Messages, current: Messages \cup {NoMessage},
           task: Tasks \cup {NoTask}, ran: BOOLEAN]

Start(round) == [pc |-> "loop", round |-> round, hand |-> {}, current |-> NoMessage,
                 task |-> NoTask, ran |-> FALSE]

Set(w, x) == worker' = [worker EXCEPT ![w] = x]
LetGo(w) == lock' = [t \in Tasks |-> IF lock[t] = w THEN NoOne ELSE lock[t]]
Goto(w, pc) == Set(w, [worker[w] EXCEPT !.pc = pc])

WorkersInit ==
  /\ options \in Deployments
  /\ app = [t \in Tasks |-> "new"]
  /\ status = [t \in Tasks |-> "NONE"]
  /\ due = Tasks \ options.far
  /\ lock = [t \in Tasks |-> NoOne]
  /\ sent = [t \in Tasks |-> 0]
  /\ worker = [w \in Workers |-> Start("poll")]
  /\ unannounced = {}
  /\ faults = 0 /\ crashes = 0

-----------------------------------------------------------------------------
(* Enqueueing: the row is inserted and the broker told at once, although a *)
(* transaction of the caller may still be open.                            *)

Insert(t) ==
  /\ app[t] = "new"
  /\ app' = [app EXCEPT ![t] = "inserted"]
  /\ status' = IF t \in options.in_transaction THEN status ELSE [status EXCEPT ![t] = "READY"]
  /\ UNCHANGED <<options, due, lock, sent, worker, unannounced, bounds>>

\* notify_broker has come back to enqueue().
Notified(t) ==
  /\ app[t] = "inserted"
  /\ app' = [app EXCEPT ![t] = "notified"]
  /\ UNCHANGED <<options, status, due, lock, worker, unannounced, bounds>>

Commit(t) ==
  /\ app[t] = "notified" /\ t \in options.in_transaction
  /\ app' = [app EXCEPT ![t] = "committed"]
  /\ status' = [status EXCEPT ![t] = "READY"]
  /\ UNCHANGED <<options, due, lock, sent, worker, unannounced, bounds>>

Rollback(t) ==
  /\ app[t] = "notified" /\ t \in options.in_transaction
  /\ app' = [app EXCEPT ![t] = "rolled back"]
  /\ UNCHANGED <<options, status, due, lock, sent, worker, unannounced, bounds>>

BecomeDue(t) ==
  /\ t \in Tasks \ due
  /\ due' = due \cup {t}
  /\ UNCHANGED <<options, app, status, lock, sent, worker, unannounced, bounds>>

-----------------------------------------------------------------------------
(* The worker's loop (_process_tasks, _receive_and_run).                   *)

\* receive has answered.
Received(w, M) ==
  /\ worker[w].pc = "loop" /\ worker[w].round \in {"poll", "wait"}
  /\ Cardinality(M) <= MaxReceive
  /\ Set(w, [worker[w] EXCEPT !.pc = "work", !.hand = M, !.ran = FALSE])
  /\ UNCHANGED <<options, table, sent, unannounced, crashes>>

\* The table gets its turn when the messages of the round ran no task.
AfterMessagesMutant(w) ==
  IF options.sweeps /\ worker[w].round = "poll" /\ worker[w].ran THEN "sweep" ELSE "poll"
AfterMessages(w) ==
  IF options.sweeps /\ worker[w].round = "poll" /\ ~worker[w].ran THEN "sweep" ELSE "poll"

EndRound(w) ==
  /\ worker[w].pc = "work" /\ worker[w].hand = {}
  /\ Set(w, Start(AfterMessages(w)))
  /\ UNCHANGED <<options, table, sent, unannounced, bounds>>

\* fetch_task
Fetchable(t) == status[t] = "READY" /\ t \in due /\ lock[t] = NoOne

Sweep(w, t) ==
  /\ worker[w].pc = "loop" /\ worker[w].round = "sweep"
  /\ Fetchable(t)
  /\ lock' = [lock EXCEPT ![t] = w]
  /\ Set(w, [worker[w] EXCEPT !.pc = "selected", !.task = t])
  /\ UNCHANGED <<options, app, status, due, sent, unannounced, bounds>>

SweepNothing(w) ==
  /\ worker[w].pc = "loop" /\ worker[w].round = "sweep"
  /\ \A t \in Tasks : ~Fetchable(t)
  /\ Set(w, Start("wait"))
  /\ UNCHANGED <<options, table, sent, unannounced, bounds>>

\* _run_broker_message up to the answer of run_task_by_id's select: a row
\* that is missing, not READY or locked means that the message is not needed.
Selectable(t) == status[t] = "READY" /\ lock[t] = NoOne

OnErrorMutant == "ack"
OnError == "nack"

OpenMessage(w, m) ==
  LET t == m[1]
      next(pc) == Set(w, [worker[w] EXCEPT !.pc = pc, !.hand = @ \ {m},
                                           !.current = m, !.task = t])
  IN /\ worker[w].pc = "work" /\ m \in worker[w].hand
     /\ \/ /\ Selectable(t)
           /\ lock' = [lock EXCEPT ![t] = w]
           /\ next("selected")
           /\ UNCHANGED faults
        \/ /\ ~Selectable(t)
           /\ next("ack")
           /\ UNCHANGED <<lock, faults>>
        \/ /\ faults < options.max_faults
           /\ faults' = faults + 1
           /\ next(OnError)
           /\ UNCHANGED lock
     /\ UNCHANGED <<options, app, status, due, sent, unannounced, crashes>>

\* What follows a run, or an answer that nothing was run.
Done(w, ran, pc) ==
  Set(w, IF worker[w].current = NoMessage THEN Start("poll")
         ELSE [worker[w] EXCEPT !.pc = pc, !.ran = @ \/ ran])

Unlock(w) ==
  /\ worker[w].pc = "selected"
  /\ lock' = [lock EXCEPT ![worker[w].task] = NoOne]
  /\ Goto(w, "claim")
  /\ UNCHANGED <<options, app, status, due, sent, unannounced, bounds>>

Claim(w) ==
  LET t == worker[w].task
  IN /\ worker[w].pc = "claim"
     /\ \/ /\ Selectable(t)
           /\ status' = [status EXCEPT ![t] = "RUNNING"]
           /\ Goto(w, "run")
        \/ /\ ~Selectable(t)
           /\ Done(w, FALSE, "ack")
           /\ UNCHANGED status
     /\ UNCHANGED <<options, app, due, lock, sent, unannounced, bounds>>

\* A receiver of task_finished that raises makes the message come back, and
\* so does an error after the save.
Finish(w) ==
  /\ worker[w].pc = "run"
  /\ status' = [status EXCEPT ![worker[w].task] = "COMPLETED"]
  /\ Done(w, TRUE, "ack") \/ Done(w, FALSE, "nack")
  /\ UNCHANGED <<options, app, due, lock, sent, unannounced, bounds>>

\* A database error on the way through run_task_by_id, or run_task, from the
\* end of the first transaction to the save of the outcome, which is tried
\* once more as the save of the error: what was committed stays, so a row that
\* was claimed stays RUNNING, and the message is given back.  (fetch_task is
\* not covered: an error there ends the process, which is a Crash.)
RunFails(w) ==
  /\ worker[w].pc \in {"claim", "run"} \/
       (worker[w].pc = "selected" /\ worker[w].current # NoMessage)
  /\ faults < options.max_faults
  /\ faults' = faults + 1
  /\ LetGo(w)
  /\ Done(w, FALSE, OnError)
  /\ UNCHANGED <<options, app, status, due, sent, unannounced, crashes>>

\* ack or nack has answered, or failed, which is swallowed.
Answered(w, pc) ==
  /\ worker[w].pc = pc
  /\ Set(w, [worker[w] EXCEPT !.pc = "work", !.current = NoMessage, !.task = NoTask])
  /\ UNCHANGED <<options, table, sent, unannounced, bounds>>

Crash(w) ==
  /\ worker[w] # Start("poll")
  /\ crashes < options.max_crashes
  /\ crashes' = crashes + 1
  /\ LetGo(w)
  /\ Set(w, Start("poll"))
  /\ UNCHANGED <<options, app, status, due, sent, unannounced, faults>>

-----------------------------------------------------------------------------
(* requeue_stale_tasks --notify-broker, for a task whose worker has died.  *)

Requeue(t) ==
  /\ options.recovery
  /\ status[t] = "RUNNING"
  /\ \A w \in Workers : ~(worker[w].pc = "run" /\ worker[w].task = t)
  /\ status' = [status EXCEPT ![t] = "READY"]
  /\ unannounced' = unannounced \cup {t}
  /\ UNCHANGED <<options, app, due, lock, sent, worker, bounds>>

Announced(t) ==
  /\ t \in unannounced
  /\ unannounced' = unannounced \ {t}
  /\ UNCHANGED <<options, table, worker, bounds>>

\* It dies between the commit of its batch and the notifications.
RecoveryDies ==
  /\ unannounced # {}
  /\ crashes < options.max_crashes
  /\ crashes' = crashes + 1
  /\ unannounced' = {}
  /\ UNCHANGED <<options, table, sent, worker, faults>>

-----------------------------------------------------------------------------

\* Steps that the broker does not notice.
TableStep ==
  \/ RecoveryDies
  \/ \E t \in Tasks : Insert(t) \/ Rollback(t) \/ BecomeDue(t) \/ Requeue(t)
  \/ \E w \in Workers, t \in Tasks : Sweep(w, t)

WorkerStep(w) ==
  \/ EndRound(w) \/ SweepNothing(w) \/ Unlock(w) \/ Claim(w) \/ Finish(w)
  \/ \E m \in Messages : OpenMessage(w, m)

\* Somebody is about to claim t.
Handled(t) ==
  \E w \in Workers : worker[w].task = t /\ worker[w].pc \in {"selected", "claim"}

\* Every variable above has its type.
WorkersTypeOK ==
  /\ options \in Deployments
  /\ app \in [Tasks -> {"new", "inserted", "notified", "committed", "rolled back"}]
  /\ status \in [Tasks -> {"NONE", "READY", "RUNNING", "COMPLETED"}]
  /\ due \subseteq Tasks
  /\ lock \in [Tasks -> Workers \cup {NoOne}]
  /\ sent \in [Tasks -> 0 .. MaxSends]
  /\ worker \in [Workers -> Worker]
  /\ unannounced \subseteq Tasks
  /\ faults \in 0 .. options.max_faults /\ crashes \in 0 .. options.max_crashes

\* Every task whose row is there is in the end completed, however messages
\* and workers come and go (_process_tasks).
NothingIsLost ==
  \A t \in Tasks : status[t] \in {"READY", "RUNNING"} ~> status[t] = "COMPLETED"

=============================================================================
