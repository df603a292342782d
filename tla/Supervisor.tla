----------------------------- MODULE Supervisor -----------------------------
(***************************************************************************)
(* run_database_tasks --workers N: the supervisor that keeps N worker      *)
(* processes running, scales them up and down, forwards a shutdown and     *)
(* turns their exit codes into its own (WorkerSupervisor).                 *)
(*                                                                         *)
(* The supervisor is one thread; its signal handlers run in it between     *)
(* any two steps, and the worker processes die, stop or hang meanwhile.    *)
(* Of the clock there is whether a process has run past stable_after, and  *)
(* whether a back-off or a deadline is over.  An operator whose name ends  *)
(* in Mutant is a plausible slip in the code the operator after it models; *)
(* no definition uses it.                                                  *)
(***************************************************************************)
EXTENDS Integers, FiniteSets

CONSTANTS
  Pids,          \* process ids; one that was reaped may be used again
  NoPid,
  MaxFailures,   \* failures are counted up to where the back-off ends
  MaxWorkers,    \* bound: slots there can ever be
  Commands       \* the ways to call the command that are looked at

ASSUME SupervisorAssumption ==
  /\ NoPid \notin Pids /\ IsFiniteSet(Pids)
  /\ MaxFailures \in Nat \ {0}
  /\ MaxWorkers \in Nat /\ MaxWorkers <= Cardinality(Pids)
  /\ Commands \subseteq
       [workers: Nat \ {0},        \* --workers
        restart: BOOLEAN,          \* restart: --continuous
        graceful: BOOLEAN,         \* graceful: not --no-graceful-shutdown
        timeout: BOOLEAN,          \* is --shutdown-timeout positive?
        tasks_end: BOOLEAN,        \* does a task a worker waits for come to an end?
        exit_codes: SUBSET {"ok", "empty", "failed", "crash"}, \* of a worker by itself
        spawn_may_fail: BOOLEAN,   \* may Popen raise?
        max_scale: Nat,            \* bound: SIGTTIN and SIGTTOU received
        max_signals: Nat]          \* bound: shutdown signals received
  /\ \A c \in Commands : "crash" \in c.exit_codes /\ c.workers + c.max_scale <= MaxWorkers

VARIABLES
  options,    \* how the command was called: it never changes
  pc,
  workers,    \* the slots by their index, which is the order of _workers
  next_index, \* _next_index
  proc,       \* the processes
  pending,    \* _pending_scale
  requests,   \* shutdown requests counted
  failing,    \* is _failing_since set?
  codes,      \* the exit codes recorded
  forced,     \* _forced
  result,     \* what run() comes to
  signals, scales,
  crashed     \* has a worker crashed by itself?

settled == <<options, next_index>>
loop == <<pc, workers, next_index, failing, codes, forced, result>>
bounds == <<signals, scales>>
vars == <<options, loop, proc, pending, requests, bounds, crashed>>

Codes == {"ok", "empty", "failed", "crash", "term", "forced", "killed"}
Live == {"booting", "up", "stopping"}

Slot == [pid: Pids \cup {NoPid}, restart: {"never", "later", "due"},
         failures: 0 .. MaxFailures, retiring: BOOLEAN, clean: BOOLEAN]
NewSlot == [pid |-> NoPid, restart |-> "due", failures |-> 0, retiring |-> FALSE, clean |-> FALSE]

Free == [state |-> "free", code |-> "ok", stable |-> FALSE]
Dead(x, code) == [x EXCEPT !.state = "dead", !.code = code]

Running(s) == s.pid # NoPid
Shutdown == requests > 0
Slots == {workers[i] : i \in DOMAIN workers}
Active == {i \in DOMAIN workers : ~workers[i].retiring}

Init ==
  /\ options \in Commands
  /\ pc = "top"
  /\ workers = [i \in 1 .. options.workers |-> NewSlot]
  /\ next_index = options.workers + 1
  /\ proc = [p \in Pids |-> Free]
  /\ pending = 0 /\ requests = 0
  /\ failing = FALSE /\ codes = {} /\ forced = FALSE /\ result = "none"
  /\ signals = 0 /\ scales = 0 /\ crashed = FALSE

-----------------------------------------------------------------------------
(* The worker processes.  One that has not installed its handlers is ended *)
(* by a signal, one that has finishes its task first, and a second signal  *)
(* makes it give its task up (GracefulShutdown).                           *)

SignalledMutant(x) ==
  IF x.state = "booting" THEN Dead(x, "term") ELSE x
Signalled(x) ==
  CASE x.state = "booting"                -> Dead(x, "term")
    [] x.state = "up" /\ options.graceful         -> [x EXCEPT !.state = "stopping"]
    [] x.state = "up" /\ ~options.graceful        -> Dead(x, "term")
    [] x.state = "stopping"               -> Dead(x, "forced")
    [] OTHER                              -> x

Boot(p) ==
  /\ proc[p].state = "booting"
  /\ proc' = [proc EXCEPT ![p].state = "up"]
  /\ UNCHANGED <<options, loop, pending, requests, bounds, crashed>>

\* Past stable_after.  Nobody asks this of a process that was told to stop.
Stabilize(p) ==
  /\ proc[p].state \in {"booting", "up"} /\ ~proc[p].stable
  /\ proc' = [proc EXCEPT ![p].stable = TRUE]
  /\ UNCHANGED <<options, loop, pending, requests, bounds, crashed>>

Die(p) ==
  /\ proc[p].state \in Live
  /\ \E code \in options.exit_codes :
       /\ proc[p].state = "booting" => code = "crash"
       /\ proc' = [proc EXCEPT ![p] = Dead(@, code)]
       /\ crashed' = (crashed \/ code = "crash")
  /\ UNCHANGED <<options, loop, pending, requests, bounds>>

\* The task that a worker was waiting for ends, or its own timeout does.
StopsByItself(p) ==
  /\ proc[p].state = "stopping"
  /\ \E code \in {"ok", "failed", "forced"} :
       /\ IF code = "forced" THEN options.timeout ELSE options.tasks_end
       /\ proc' = [proc EXCEPT ![p] = Dead(@, code)]
  /\ UNCHANGED <<options, loop, pending, requests, bounds, crashed>>

-----------------------------------------------------------------------------
(* Signals to the supervisor: the handlers only count.                     *)

RequestShutdown ==
  /\ pc \notin {"finished", "raised"} /\ signals < options.max_signals
  /\ signals' = signals + 1
  /\ requests' = requests + 1
  /\ UNCHANGED <<options, loop, proc, pending, scales, crashed>>

Scale(by) ==
  /\ pc \notin {"finished", "raised"} /\ scales < options.max_scale
  /\ scales' = scales + 1
  /\ pending' = pending + by
  /\ UNCHANGED <<options, loop, proc, requests, signals, crashed>>

-----------------------------------------------------------------------------
(* One round of _supervise.                                                *)

Goto(l) == pc' = l

Top ==
  /\ pc = "top"
  /\ Goto(IF Shutdown THEN "stop" ELSE "grow")
  /\ UNCHANGED <<settled, workers, failing, codes, forced, result, proc, pending, requests,
                 bounds, crashed>>

\* _apply_scaling: its first loop, then its second.
Grow ==
  /\ pc = "grow"
  /\ IF pending > 0
     THEN /\ workers' = [i \in DOMAIN workers \cup {next_index} |->
                         IF i = next_index THEN NewSlot ELSE workers[i]]
          /\ next_index' = next_index + 1
          /\ pending' = pending - 1
          /\ UNCHANGED pc
     ELSE /\ Goto(IF pending < 0 THEN "shrink" ELSE "reap")
          /\ UNCHANGED <<workers, next_index, pending>>
  /\ UNCHANGED <<options, failing, codes, forced, result, proc, requests, bounds, crashed>>

WithoutSlot(i) == [j \in DOMAIN workers \ {i} |-> workers[j]]

\* _retire_newest
RetireMutant(i) ==
  /\ workers' = WithoutSlot(i)
  /\ proc' = IF Running(workers[i])
             THEN [proc EXCEPT ![workers[i].pid] = Signalled(@)] ELSE proc
Retire(i) ==
  IF Running(workers[i])
  THEN /\ workers' = [workers EXCEPT ![i].retiring = TRUE]
       /\ proc' = [proc EXCEPT ![workers[i].pid] = Signalled(@)]
  ELSE /\ workers' = WithoutSlot(i)
       /\ UNCHANGED proc

MayRetireMutant == Cardinality(Active) > 0
MayRetire == Cardinality(Active) > 1

Shrink ==
  /\ pc = "shrink"
  /\ IF pending < 0
     THEN /\ pending' = pending + 1
          /\ IF MayRetire
             THEN \E i \in Active : (\A j \in Active : j <= i) /\ Retire(i)
             ELSE UNCHANGED <<workers, proc>>
          /\ UNCHANGED pc
     ELSE Goto("reap") /\ UNCHANGED <<workers, proc, pending>>
  /\ UNCHANGED <<settled, failing, codes, forced, result, requests, bounds, crashed>>

\* _reap: what becomes of a slot whose process has exited.  A worker that
\* was asked to stop and had no handler yet is a stopped worker.
Exited(s) == Running(s) /\ proc[s.pid].state = "dead"
StoppedMutant(s) == Shutdown \/ s.retiring
Stopped(s) == (Shutdown \/ s.retiring) /\ proc[s.pid].code = "term"

\* _restart_delay: a back-off unless the exit was clean or late.
FailedToStartMutant(s) == ~proc[s.pid].stable
FailedToStart(s) == proc[s.pid].code # "ok" /\ ~proc[s.pid].stable

NextFailuresMutant(n) == n + 1
NextFailures(n) == IF n < MaxFailures THEN n + 1 ELSE n

Restarted(s) ==
  IF FailedToStart(s)
  THEN [s EXCEPT !.restart = "later", !.failures = NextFailures(@)]
  ELSE [s EXCEPT !.restart = "due", !.failures = 0]

Reaped(s) ==
  LET r == [s EXCEPT !.pid = NoPid,
                     !.clean = @ \/ (failing /\ proc[s.pid].code = "ok")]
  IN IF options.restart /\ ~Shutdown
     THEN [r EXCEPT !.restart = Restarted(s).restart, !.failures = Restarted(s).failures]
     ELSE r

Reap ==
  /\ workers' = [i \in {j \in DOMAIN workers : ~(workers[j].retiring /\ Exited(workers[j]))} |->
                   IF Exited(workers[i]) THEN Reaped(workers[i]) ELSE workers[i]]
  /\ codes' = codes \cup {IF Stopped(s) THEN "ok" ELSE proc[s.pid].code :
                            s \in {x \in Slots : Exited(x)}}
  /\ proc' = [p \in Pids |-> IF \E s \in Slots : s.pid = p /\ Exited(s) THEN Free ELSE proc[p]]

ReapRound ==
  /\ pc = "reap"
  /\ Reap
  /\ Goto("check")
  /\ UNCHANGED <<settled, failing, forced, result, pending, requests, bounds, crashed>>

\* _check_failing: clean says that a slot's process exited with code 0 since
\* every worker was found failing.
Stable(s) == Running(s) /\ proc[s.pid].stable
IsFailing(s) == s.failures > 0 /\ ~Stable(s)

CheckFailing ==
  /\ pc = "check"
  /\ IF ~failing
     THEN /\ failing' = \A i \in Active : IsFailing(workers[i])
          /\ workers' = [i \in DOMAIN workers |-> [workers[i] EXCEPT !.clean = FALSE]]
     ELSE /\ failing' = \A i \in Active : ~Stable(workers[i]) /\ ~workers[i].clean
          /\ UNCHANGED workers
  /\ Goto("start")
  /\ UNCHANGED <<settled, codes, forced, result, proc, pending, requests, bounds, crashed>>

\* The back-off of a slot is over.
BackoffEnds(i) ==
  /\ workers[i].restart = "later"
  /\ workers' = [workers EXCEPT ![i].restart = "due"]
  /\ UNCHANGED <<settled, pc, failing, codes, forced, result, proc, pending, requests,
                 bounds, crashed>>

Due(s) == ~Running(s) /\ s.restart = "due"

\* _start_due: the slots that are due, one after another.
StartDue ==
  /\ pc = "start"
  /\ \E i \in DOMAIN workers :
       /\ Due(workers[i]) /\ \A j \in DOMAIN workers : Due(workers[j]) => i <= j
       /\ LET p == CHOOSE q \in Pids : proc[q].state = "free"
          IN /\ proc' = [proc EXCEPT ![p].state = "booting"]
             /\ workers' = [workers EXCEPT ![i].pid = p, ![i].restart = "never"]
  /\ UNCHANGED <<settled, pc, failing, codes, forced, result, pending, requests, bounds,
                 crashed>>

\* Popen raises: run() stops the workers before it lets the exception out.
SpawnFails ==
  /\ pc = "start" /\ options.spawn_may_fail
  /\ \E s \in Slots : Due(s)
  /\ requests' = requests + 1
  /\ result' = "exception"
  /\ Goto("stop")
  /\ UNCHANGED <<settled, workers, failing, codes, forced, proc, pending, bounds, crashed>>

\* The end of a round: nothing is left to supervise, or the next tick.
HasWorkMutant(s) == Running(s)
HasWork(s) == Running(s) \/ s.restart # "never"

EndOfRound ==
  /\ pc = "start"
  /\ \A s \in Slots : ~Due(s)
  /\ Goto(IF \E s \in Slots : HasWork(s) THEN "top" ELSE "stop")
  /\ UNCHANGED <<settled, workers, failing, codes, forced, result, proc, pending, requests,
                 bounds, crashed>>

-----------------------------------------------------------------------------
(* _stop_workers, _kill_workers and _finish.                               *)

SomeRunning == \E s \in Slots : Running(s)

Forward ==
  /\ pc = "stop"
  /\ IF Shutdown /\ SomeRunning
     THEN /\ proc' = [p \in Pids |-> IF \E s \in Slots : s.pid = p THEN Signalled(proc[p])
                                     ELSE proc[p]]
          /\ Goto("stopping")
     ELSE Goto("finish") /\ UNCHANGED proc
  /\ UNCHANGED <<settled, workers, failing, codes, forced, result, pending, requests,
                 bounds, crashed>>

ReapStopping ==
  /\ pc = "stopping"
  /\ Reap
  /\ Goto("waiting")
  /\ UNCHANGED <<settled, failing, forced, result, pending, requests, bounds, crashed>>

\* Every worker has exited, a second request kills, and so may a deadline.
MustKillAtOnceMutant == requests > 0 \/ ~options.graceful
MustKill == requests > 1 \/ ~options.graceful

WaitForWorkers ==
  /\ pc = "waiting"
  /\ \/ ~SomeRunning /\ Goto("finish")
     \/ SomeRunning /\ ~MustKill /\ Goto("stopping")
  /\ UNCHANGED <<settled, workers, failing, codes, forced, result, proc, pending, requests,
                 bounds, crashed>>

KillWorkers ==
  /\ pc = "waiting" /\ SomeRunning /\ (MustKill \/ options.timeout)
  /\ forced' = TRUE
  /\ codes' = codes \cup {IF proc[s.pid].state = "dead" THEN proc[s.pid].code ELSE "killed" :
                            s \in {x \in Slots : Running(x)}}
  /\ proc' = [p \in Pids |-> IF \E s \in Slots : s.pid = p THEN Free ELSE proc[p]]
  /\ workers' = [i \in DOMAIN workers |-> [workers[i] EXCEPT !.pid = NoPid]]
  /\ Goto("finish")
  /\ UNCHANGED <<settled, failing, result, pending, requests, bounds, crashed>>

\* combine_exit_codes: what is neither of the codes a worker reports with is
\* a crash, and is passed on.
Combined ==
  IF codes \ {"ok", "empty", "failed"} # {} THEN "abnormal"
  ELSE IF "failed" \in codes THEN "failed"
  ELSE IF codes = {"empty"} THEN "empty" ELSE "ok"

Finish ==
  /\ pc = "finish"
  /\ IF result = "exception"
     THEN Goto("raised") /\ UNCHANGED result
     ELSE Goto("finished") /\ result' = IF forced THEN "forced" ELSE Combined
  /\ UNCHANGED <<settled, workers, failing, codes, forced, proc, pending, requests, bounds,
                 crashed>>

Over == pc \in {"finished", "raised"}
Ended == Over /\ UNCHANGED vars

-----------------------------------------------------------------------------

LoopStep ==
  \/ Top \/ Grow \/ Shrink \/ ReapRound \/ CheckFailing \/ StartDue \/ EndOfRound
  \/ Forward \/ ReapStopping \/ WaitForWorkers \/ Finish

Next ==
  \/ LoopStep \/ SpawnFails \/ KillWorkers
  \/ \E i \in DOMAIN workers : BackoffEnds(i)
  \/ \E p \in Pids : Boot(p) \/ Stabilize(p) \/ Die(p) \/ StopsByItself(p)
  \/ RequestShutdown \/ Scale(1) \/ Scale(-1)
  \/ Ended

Spec == Init /\ [][Next]_vars

\* The supervisor is scheduled, back-offs and deadlines end, and so does
\* what a stopping worker waits for, if tasks end at all.  The deadline is
\* looked at again and again, between two looks at the children.
FairSpec ==
  /\ Spec /\ WF_vars(LoopStep) /\ SF_vars(KillWorkers)
  /\ \A i \in 1 .. MaxWorkers : WF_vars(i \in DOMAIN workers /\ BackoffEnds(i))
  /\ \A p \in Pids : WF_vars(Boot(p)) /\ WF_vars(StopsByItself(p))

-----------------------------------------------------------------------------

\* Every variable has its type.
TypeOK ==
  /\ options \in Commands
  /\ pc \in {"top", "grow", "shrink", "reap", "check", "start", "stop", "stopping",
             "waiting", "finish", "finished", "raised"}
  /\ DOMAIN workers \subseteq 1 .. MaxWorkers /\ workers \in [DOMAIN workers -> Slot]
  /\ next_index \in 2 .. MaxWorkers + 1
  /\ proc \in [Pids -> [state: {"free", "dead"} \cup Live, code: Codes, stable: BOOLEAN]]
  /\ pending \in Int /\ requests \in Nat
  /\ {failing, forced, crashed} \subseteq BOOLEAN
  /\ codes \subseteq Codes
  /\ result \in {"none", "exception", "forced", "abnormal", "failed", "empty", "ok"}
  /\ signals \in 0 .. options.max_signals /\ scales \in 0 .. options.max_scale

\* No process is left behind "running with nobody to stop" it: each belongs
\* to one slot, and when run() is over none is left, however scaling, exits
\* and the shutdown meet (_retire_newest, _stop_workers).
NoOrphans ==
  /\ \A p \in Pids : proc[p].state # "free" =>
       Cardinality({i \in DOMAIN workers : workers[i].pid = p}) = 1
  /\ Over => \A p \in Pids : proc[p].state = "free"

\* "The last worker is never removed", whatever exits and is scaled at once.
LastWorkerKept == Cardinality(Active) >= 1

\* Slots and processes go together while workers exit and are scaled: no
\* process without its slot, and never the last slot gone.
SlotsKept == NoOrphans /\ LastWorkerKept

\* One reason to stop and no timeout: the supervisor "waits for the workers to
\* finish their running task", and none is killed or gives its task up.  A
\* signal that meets workers which are being scaled down is a second one for
\* them, and so is one that comes after a worker could not be started.
NothingCut ==
  options.graceful /\ ~options.timeout /\ requests <= 1 /\ (requests = 0 \/ scales = 0) =>
    /\ {"forced", "killed"} \cap codes = {}
    /\ \A p \in Pids : proc[p].code # "forced"

\* A worker that crashed by itself shows in the exit code of the command,
\* whenever it happened and whatever became of its slot (combine_exit_codes).
CrashReported ==
  pc = "finished" /\ crashed => result \in {"abnormal", "forced"}

\* While no outage is reported, some worker is not failing to start: an
\* outage is told as soon as it is looked at, and not taken back while it
\* lasts (_check_failing).
OutageTold ==
  pc = "start" /\ ~failing /\ ~Shutdown => \E i \in Active : ~IsFailing(workers[i])

\* A shutdown ends: with the tasks that are running, with the timeout, or
\* with a second signal.
Stops ==
  \/ signals > 1
  \/ signals > 0 /\ (options.tasks_end \/ options.timeout \/ ~options.graceful)
  ~> Over

\* With restart there is again and again a worker that is not on its way
\* out, whatever the workers exit with, until a shutdown.
StaysStaffed ==
  []<>(~options.restart \/ signals > 0 \/ \E i \in Active : Running(workers[i]))

=============================================================================
