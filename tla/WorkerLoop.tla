----------------------------- MODULE WorkerLoop -----------------------------
(***************************************************************************)
(* One process of run_database_tasks: what it makes of its options         *)
(* (handle), the loop that looks for work in the table and at the broker   *)
(* (_process_tasks), with --threads the executors it hands that work to    *)
(* (ExecutorThreads), and what it reports in the end.  The main thread and *)
(* the executors share two queues, the idle list and the results, and an   *)
(* inbox for each executor.                                                *)
(*                                                                         *)
(* Of the table only the number of rows that can be claimed matters here,  *)
(* of the broker the number of messages it has ready: DatabaseTasks and    *)
(* BrokerDelivery say what becomes of each.  An operator whose name ends   *)
(* in Mutant is a plausible slip in the code the operator after it models; *)
(* no definition uses it.                                                  *)
(***************************************************************************)
EXTENDS Integers, FiniteSets

CONSTANTS
  Executors,     \* ids of executor threads
  NoThread,
  Commands       \* the ways to call the command that are looked at

ASSUME LoopAssumption ==
  /\ NoThread \notin Executors /\ IsFiniteSet(Executors)
  /\ Commands \subseteq
       [threads: SUBSET Executors,  \* --threads; none when tasks are run inline
        sqlite: BOOLEAN,            \* is the database one without row locks?
        source: {"auto", "db", "broker", "both"},       \* --source
        pull_broker: BOOLEAN,       \* has the backend a broker to receive from?
        max_messages: Int,          \* --max-messages
        wait_time: BOOLEAN,         \* is --wait-time positive?
        continuous: BOOLEAN,        \* --continuous
        max_tasks: Nat,             \* --max-tasks, 0 for no limit
        max_tasks_jitter: Int,      \* --max-tasks-jitter
        fails: BOOLEAN,    \* may a task fail?
        raises: BOOLEAN,   \* may fetching, claiming or run_task raise an Exception?
        exits: BOOLEAN,    \* may a task raise SystemExit?
        purged: BOOLEAN,   \* may a row be deleted before its outcome is read back?
        max_arrivals: Nat] \* bound: tasks and messages that turn up

VARIABLES
  options,    \* how the command was called: it never changes
  limit,      \* --max-tasks with its jitter
  pc,         \* where the main thread is
  round,      \* messages in hand, counted so far, and where they came from
  slot,       \* the executor acquired for a row
  processed,  \* tasks_processed
  busy,       \* executors._busy
  shutdown,   \* the shutdown event
  idle,       \* the idle list
  inbox,      \* the job in each executor's inbox
  thread,     \* what each executor does
  results,    \* outcomes to collect: true ones and the others
  failing,    \* executors whose job is one that failed, yet to be counted
  failed,     \* is tasks_failed positive?
  trouble,    \* has a task failed, or could one not be run?
  exit_code,  \* how the command ends, "none" before
  table, messages,   \* rows READY, messages visible
  started,    \* tasks whose function this process has called
  arrivals

command == <<options, limit>>
main == <<pc, round, slot, processed, busy>>
queues == <<idle, inbox, results>>
report == <<failing, failed, trouble, exit_code>>
world == <<table, messages, started, arrivals>>
vars == <<command, main, shutdown, queues, thread, report, world>>

Least(a, b) == IF a < b THEN a ELSE b
Threads == options.threads
Inline == Threads = {}

\* _resolve_source.
Source == IF options.source = "auto" THEN IF options.pull_broker THEN "both" ELSE "db"
          ELSE options.source
UsesBroker == Source \in {"broker", "both"}
UsesDatabase == Source \in {"db", "both"}
Outstanding == 0 .. 2 * Cardinality(Threads)

Init ==
  /\ options \in Commands
  /\ limit = 0
  /\ pc = "start"
  /\ round = [hand |-> 0, count |-> 0, from |-> "poll"]
  /\ slot = NoThread
  /\ processed = 0 /\ busy = 0
  /\ shutdown = FALSE
  /\ idle = Threads
  /\ inbox = [e \in Threads |-> "empty"]
  /\ thread = [e \in Threads |-> "waiting"]
  /\ results = [counted |-> 0, other |-> 0]
  /\ failing = {} /\ failed = FALSE /\ trouble = FALSE /\ exit_code = "none"
  /\ table = 0 /\ messages = 0 /\ started = 0 /\ arrivals = 0

-----------------------------------------------------------------------------
(* The world outside: tasks and messages turn up, other workers take them, *)
(* and somebody asks for a shutdown.                                       *)

Arrive ==
  /\ arrivals < options.max_arrivals
  /\ arrivals' = arrivals + 1
  /\ \/ table' = table + 1 /\ messages' \in messages .. messages + 1
     \/ messages' = messages + 1 /\ UNCHANGED table      \* delivered again
  /\ UNCHANGED <<command, main, shutdown, queues, thread, started, report>>

TakenByAnother ==
  /\ table > 0
  /\ table' = table - 1
  /\ UNCHANGED <<command, main, shutdown, queues, thread, messages, started, arrivals, report>>

RequestShutdown ==
  /\ pc # "start" /\ ~shutdown
  /\ shutdown' = TRUE
  /\ UNCHANGED <<command, main, queues, thread, world, report>>

-----------------------------------------------------------------------------
(* What running a job comes to: counts says whether it reports that it ran *)
(* a task, fails whether there is a failure, of the task or of the worker  *)
(* that could not run it, and told whether that is counted as one.  A      *)
(* "claimed" row was claimed by the main thread, a "row" or the task of a  *)
(* "message" is claimed by whoever runs it.  A message whose task has run, *)
(* but whose row was purged before the outcome was read back, is an error  *)
(* if the task had succeeded, and otherwise taken for one whose task was   *)
(* never there.                                                            *)

Call(claims) ==
  /\ started' = started + 1
  /\ IF claims THEN table > 0 /\ table' = table - 1 ELSE UNCHANGED table

\* The row that was fetched is another's by the time it is claimed.
LosesRow == table' = IF table = 0 THEN 0 ELSE table - 1

Run(job, counts, fails, told) ==
  \/ /\ told = fails
     /\ \/ counts /\ (fails => options.fails) /\ Call(job # "claimed")
        \/ ~counts /\ ~fails /\ job = "row" /\ LosesRow /\ UNCHANGED started
        \/ ~counts /\ ~fails /\ job = "message" /\ UNCHANGED <<table, started>>    \* not needed
        \/ options.raises /\ fails /\ counts = (job # "message") /\ UNCHANGED <<table, started>>
        \/ /\ options.raises \/ options.purged
           /\ fails /\ ~counts /\ job = "message" /\ Call(TRUE)
        \/ options.exits /\ ~fails /\ ~counts /\ ~Inline /\ Call(job # "claimed")
  \/ /\ options.purged /\ options.fails
     /\ fails /\ ~told /\ ~counts /\ job = "message" /\ Call(TRUE)

\* _count_failure, of what happened in the main thread.
CountFailure(fails, told) ==
  /\ failed' = (failed \/ told)
  /\ trouble' = (trouble \/ fails)
  /\ UNCHANGED <<failing, exit_code>>

-----------------------------------------------------------------------------
(* The executors (_run).                                                   *)

Begin(e) ==
  /\ thread[e] = "waiting" /\ inbox[e] \in {"claimed", "message"}
  /\ inbox' = [inbox EXCEPT ![e] = "empty"]
  /\ \E counts, fails, told \in BOOLEAN :
       /\ Run(inbox[e], counts, fails, told)
       /\ thread' = [thread EXCEPT ![e] = IF counts THEN "running" ELSE "missing"]
       /\ failing' = IF told THEN failing \cup {e} ELSE failing
       /\ trouble' = (trouble \/ fails)
  /\ UNCHANGED <<command, main, shutdown, idle, results, messages, arrivals, failed, exit_code>>

PutResult(e) ==
  /\ thread[e] \in {"running", "missing"}
  /\ results' = IF thread[e] = "running" THEN [results EXCEPT !.counted = @ + 1]
                ELSE [results EXCEPT !.other = @ + 1]
  /\ thread' = [thread EXCEPT ![e] = "reported"]
  /\ failed' = (failed \/ e \in failing)
  /\ failing' = failing \ {e}
  /\ UNCHANGED <<command, main, shutdown, idle, inbox, world, trouble, exit_code>>

PutIdle(e) ==
  /\ thread[e] = "reported"
  /\ idle' = idle \cup {e}
  /\ thread' = [thread EXCEPT ![e] = "waiting"]
  /\ UNCHANGED <<command, main, shutdown, inbox, results, world, report>>

Exit(e) ==
  /\ thread[e] = "waiting" /\ inbox[e] = "stop"
  /\ thread' = [thread EXCEPT ![e] = "exited"]
  /\ UNCHANGED <<command, main, shutdown, queues, world, report>>

-----------------------------------------------------------------------------
(* The main thread.                                                        *)

LimitMutant == options.max_messages
Limit == IF Inline THEN options.max_messages ELSE Least(options.max_messages, Cardinality(idle))
RemainingMutant == IF limit = 0 THEN Limit ELSE Least(Limit, limit - processed)
Remaining == IF limit = 0 THEN Limit ELSE Least(Limit, limit - processed - busy)

ReachedMax(n) == limit > 0 /\ n >= limit

CollectMutant ==
  /\ processed' = processed + results.counted
  /\ busy' = busy - results.counted
  /\ results' = [counted |-> 0, other |-> 0]
CollectAgainMutant ==
  /\ processed' = processed + results.counted
  /\ busy' = busy - results.counted - results.other
  /\ UNCHANGED results
Collect ==
  /\ processed' = processed + results.counted
  /\ busy' = busy - results.counted - results.other
  /\ results' = [counted |-> 0, other |-> 0]

Goto(l) == pc' = l

\* What handle refuses before it runs anything, of one process.
Refused ==
  \/ options.max_messages < 1 \/ options.max_tasks_jitter < 0
  \/ Source \in {"broker", "both"} /\ ~options.pull_broker
  \/ ~Inline /\ options.sqlite

StartLoop ==
  /\ pc = "start"
  /\ IF Refused
     THEN Goto("ended") /\ exit_code' = "refused" /\ UNCHANGED limit
     ELSE /\ \E jitter \in 0 .. options.max_tasks_jitter :
               limit' = IF options.max_tasks = 0 THEN 0 ELSE options.max_tasks + jitter
          /\ Goto("top") /\ UNCHANGED exit_code
  /\ UNCHANGED <<options, round, slot, processed, busy, shutdown, queues, thread, world,
                 failing, failed, trouble>>

Top ==
  /\ pc = "top"
  /\ IF shutdown
     THEN Goto("drain") /\ UNCHANGED <<processed, busy, results>>
     ELSE Goto("collected") /\ Collect
  /\ UNCHANGED <<command, round, slot, shutdown, idle, inbox, thread, world, report>>

AllBusy == ~Inline /\ idle = {}

FindWork ==
  /\ pc = "collected"
  /\ Goto(IF AllBusy THEN "full" ELSE IF UsesBroker THEN "poll" ELSE "fetch")
  /\ UNCHANGED <<command, round, slot, processed, busy, shutdown, queues, thread, world, report>>

\* collect(wait=True), which may time out.
Full ==
  /\ pc = "full"
  /\ Goto("top") /\ Collect
  /\ UNCHANGED <<command, round, slot, shutdown, idle, inbox, thread, world, report>>

\* An error of the broker is swallowed: it is an empty answer.
Receive ==
  /\ pc \in {"poll", "wait"}
  /\ \E n \in 0 .. Least(messages, IF Remaining < 1 THEN 0 ELSE Remaining) :
       /\ messages' = messages - n
       /\ round' = [hand |-> n, count |-> IF Inline THEN 0 ELSE n, from |-> pc]
  /\ Goto("messages")
  /\ UNCHANGED <<command, slot, processed, busy, shutdown, queues, thread, table, started, arrivals, report>>

Submit(e, job) ==
  /\ inbox' = [inbox EXCEPT ![e] = job]
  /\ busy' = busy + 1

HandOut ==
  /\ pc = "messages" /\ round.hand > 0 /\ ~Inline
  /\ \E e \in idle :
       /\ inbox[e] = "empty"
       /\ idle' = idle \ {e}
       /\ Submit(e, "message")
  /\ round' = [round EXCEPT !.hand = @ - 1]
  /\ UNCHANGED <<command, pc, slot, processed, shutdown, results, thread, world, report>>

RunMessage ==
  /\ pc = "messages" /\ round.hand > 0 /\ Inline
  /\ \E counts, fails, told \in BOOLEAN :
       /\ Run("message", counts, fails, told) /\ CountFailure(fails, told)
       /\ round' = [round EXCEPT !.hand = @ - 1, !.count = @ + (IF counts THEN 1 ELSE 0)]
  /\ UNCHANGED <<command, pc, slot, processed, busy, shutdown, queues, thread, messages, arrivals>>

\* Where a round goes once its messages are dealt with.
AfterMessages(n) ==
  CASE ReachedMax(n) -> "drain"
    [] ~ReachedMax(n) /\ round.from = "wait" -> "top"
    [] ~ReachedMax(n) /\ round.from = "poll" /\ shutdown -> "drain"
    [] OTHER -> IF round.count > 0 THEN "top"
                ELSE IF UsesDatabase THEN "fetch" ELSE "idle"

EndOfMessages ==
  /\ pc = "messages" /\ round.hand = 0
  /\ processed' = processed + (IF Inline THEN round.count ELSE 0)
  /\ Goto(AfterMessages(processed' + busy))
  /\ UNCHANGED <<command, round, slot, busy, shutdown, queues, thread, world, report>>

\* By an exception, which is what the command ends with.
LeaveLoop(how) == Goto("stop") /\ exit_code' = how

\* fetch_task, and acquire() for the row it returns.
Fetch ==
  /\ pc = "fetch"
  /\ \/ /\ table = 0
        /\ Goto("idle") /\ UNCHANGED <<slot, idle>>
     \/ /\ table > 0 /\ Inline
        /\ Goto("row") /\ UNCHANGED <<slot, idle>>
     \/ /\ table > 0 /\ ~Inline
        /\ \E e \in idle : inbox[e] = "empty" /\ slot' = e /\ idle' = idle \ {e}
        /\ Goto("row")
     \/ /\ options.raises
        /\ LeaveLoop("raised") /\ UNCHANGED <<slot, idle>>
  /\ pc' # "stop" => UNCHANGED exit_code
  /\ UNCHANGED <<command, round, processed, busy, shutdown, inbox, results, thread, world,
                 failing, failed, trouble>>

RunRow ==
  /\ pc = "row" /\ Inline
  /\ \E counts, fails, told \in BOOLEAN :
       /\ Run("row", counts, fails, told) /\ CountFailure(fails, told)
       /\ processed' = processed + (IF counts THEN 1 ELSE 0)
  /\ Goto(IF ReachedMax(processed') THEN "drain" ELSE "top")
  /\ UNCHANGED <<command, round, slot, busy, shutdown, queues, thread, messages, arrivals>>

\* _dispatch_database_task from its claim on.
Dispatch ==
  /\ pc = "row" /\ ~Inline
  /\ \/ /\ table > 0                                  \* claimed
        /\ table' = table - 1
        /\ Submit(slot, "claimed")
        /\ UNCHANGED <<idle, processed, report>>
     \/ /\ LosesRow
        /\ idle' = idle \cup {slot}
        /\ UNCHANGED <<inbox, busy, processed, report>>
     \/ /\ options.raises                             \* the claim failed
        /\ idle' = idle \cup {slot}
        /\ processed' = processed + 1
        /\ CountFailure(TRUE, TRUE)
        /\ UNCHANGED <<inbox, busy, table>>
  /\ slot' = NoThread
  /\ Goto(IF ReachedMax(processed' + busy') THEN "drain" ELSE "top")
  /\ UNCHANGED <<command, round, shutdown, results, thread, messages, started, arrivals>>

\* SystemExit of a task that is run inline leaves the loop at once.
ExitInline ==
  /\ options.exits /\ Inline
  /\ pc = "row" \/ (pc = "messages" /\ round.hand > 0)
  /\ Call(TRUE)
  /\ LeaveLoop("exited")
  /\ UNCHANGED <<command, round, slot, processed, busy, shutdown, queues, thread, messages, arrivals,
                 failing, failed, trouble>>

IdleRound ==
  /\ pc = "idle"
  /\ Goto(IF ~options.continuous THEN "drain"
          ELSE IF options.wait_time /\ UsesBroker
               THEN IF UsesDatabase THEN "wait" ELSE "top"
          ELSE IF shutdown THEN "drain" ELSE "top")
  /\ UNCHANGED <<command, round, slot, processed, busy, shutdown, queues, thread, world, report>>

\* The tasks already handed out finish first.
DrainMutant ==
  /\ pc = "drain"
  /\ Goto("stop")
  /\ UNCHANGED <<command, round, slot, processed, busy, shutdown, queues, thread, world, report>>
Drain ==
  /\ pc = "drain"
  /\ IF busy > 0
     THEN Collect /\ UNCHANGED pc
     ELSE Goto("stop") /\ UNCHANGED <<processed, busy, results>>
  /\ UNCHANGED <<command, round, slot, shutdown, idle, inbox, thread, world, report>>

\* ExecutorThreads.stop: the exit stack calls it however the loop ended, and
\* an inbox that is full makes it wait.
Stop ==
  /\ pc = "stop"
  /\ \A e \in Threads : inbox[e] = "empty"
  /\ inbox' = [e \in Threads |-> "stop"]
  /\ Goto("join")
  /\ UNCHANGED <<command, round, slot, processed, busy, shutdown, idle, results, thread, world, report>>

\* _exit_code, of a command that was given codes for both.
ExitCodeMutant ==
  IF processed = 0 THEN "empty" ELSE IF failed THEN "failed" ELSE "ok"
ExitCode ==
  IF failed THEN "failed" ELSE IF processed = 0 THEN "empty" ELSE "ok"

Join ==
  /\ pc = "join"
  /\ \A e \in Threads : thread[e] = "exited"
  /\ Goto("ended")
  /\ exit_code' = IF exit_code = "none" THEN ExitCode ELSE exit_code
  /\ UNCHANGED <<command, round, slot, processed, busy, shutdown, queues, thread, world,
                 failing, failed, trouble>>

Ended == pc = "ended" /\ UNCHANGED vars

-----------------------------------------------------------------------------

MainStep ==
  \/ StartLoop \/ Top \/ FindWork \/ Full \/ Receive \/ HandOut \/ RunMessage \/ EndOfMessages
  \/ Fetch \/ RunRow \/ Dispatch \/ ExitInline \/ IdleRound \/ Drain \/ Stop \/ Join

ThreadStep(e) == Begin(e) \/ PutResult(e) \/ PutIdle(e) \/ Exit(e)

Next ==
  \/ Arrive \/ TakenByAnother \/ RequestShutdown
  \/ MainStep
  \/ \E e \in Threads : ThreadStep(e)
  \/ Ended

Spec == Init /\ [][Next]_vars

\* Threads are scheduled, waits have timeouts, and tasks come to an end.
FairSpec ==
  /\ Spec /\ WF_vars(MainStep)
  /\ \A e \in Executors : WF_vars(e \in Threads /\ ThreadStep(e))

-----------------------------------------------------------------------------

\* Every variable has its type.  What is out is at most a job of each
\* executor and a result of each that the loop has yet to collect.
TypeOK ==
  /\ options \in Commands
  /\ limit \in Nat
  /\ pc \in {"start", "top", "collected", "full", "poll", "wait", "messages", "fetch", "row",
             "idle", "drain", "stop", "join", "ended"}
  /\ round \in [hand: Nat, count: Nat, from: {"poll", "wait"}]
  /\ slot \in Threads \cup {NoThread}
  /\ processed \in Nat /\ busy \in Outstanding
  /\ shutdown \in BOOLEAN
  /\ idle \subseteq Threads
  /\ inbox \in [Threads -> {"empty", "claimed", "message", "stop"}]
  /\ thread \in [Threads -> {"waiting", "running", "missing", "reported", "exited"}]
  /\ results \in [counted: Outstanding, other: Outstanding]
  /\ failing \subseteq {e \in Threads : thread[e] \in {"running", "missing"}}
  /\ failed \in BOOLEAN /\ trouble \in BOOLEAN
  /\ exit_code \in {"none", "ok", "failed", "empty", "refused", "raised", "exited"}
  /\ table \in Nat /\ messages \in Nat /\ started \in Nat
  /\ arrivals \in 0 .. options.max_arrivals

\* "No more than --max-tasks are ever started": not in a round that receives
\* several messages, inline or for several executors, and not while results
\* are under way (remaining, reached_max), nor with the jitter added.  It
\* supposes that a task that was started is counted, which one is not that
\* exits its executor, or that is brought by a message and leaves run_task by
\* an exception: of the database, or because its row was purged.
WithinMaxTasks ==
  options.max_tasks > 0 /\ ~options.raises /\ ~options.purged /\ (options.exits => Inline) =>
    /\ started <= limit
    /\ limit > 0 => limit \in options.max_tasks .. options.max_tasks + options.max_tasks_jitter

\* "remaining() capped the receive by the idle executors, so one is free for
\* each message": acquire() never comes back empty-handed, and an executor
\* that is idle has room in its inbox (_receive_and_run, submit).
HandsOutToFree ==
  /\ pc \notin {"join", "ended"} => \A e \in idle : inbox[e] = "empty"
  /\ pc = "messages" /\ ~Inline => round.hand <= Cardinality(idle)
  /\ pc = "fetch" /\ ~Inline => idle # {}

\* busy is what it stands for, with a job in an inbox, in an executor or in
\* the results: at no time is one counted twice or forgotten.
BusyIsOut ==
  busy = Cardinality({e \in Threads : inbox[e] \in {"claimed", "message"}})
         + Cardinality({e \in Threads : thread[e] \in {"running", "missing"}})
         + results.counted + results.other

SlotsAccounted == HandsOutToFree /\ BusyIsOut

\* "The tasks already handed out finish first": what the command reports as
\* processed when it ends is every task it has started, if each is counted.
\* The exit code speaks of a failure only when there was one, and whenever
\* there was one, also in an executor and also when nothing was processed: "a
\* failure wins over an idle run" (_process_tasks, _exit_code).  Where rows may
\* be purged before their outcome is read back, a failure can go unnoticed.
ReportsWhatItDid ==
  pc = "ended" /\ exit_code # "refused" =>
    /\ ~options.raises /\ ~options.exits /\ ~options.purged => processed = started
    /\ \A e \in Threads : thread[e] = "exited"
    /\ exit_code \notin {"raised", "exited"} =>
         /\ exit_code = "failed" => trouble
         /\ trouble => exit_code = "failed" \/ options.purged
         /\ exit_code = "empty" => processed = 0
         /\ processed = 0 /\ ~trouble => exit_code = "empty"

\* A worker that is told to stop, runs once or reaches its limit ends; it
\* never waits for an executor that waits for it.
Stops ==
  shutdown \/ ~options.continuous \/ ReachedMax(processed) ~> pc = "ended"

=============================================================================
