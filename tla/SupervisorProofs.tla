-------------------------- MODULE SupervisorProofs --------------------------
(***************************************************************************)
(* Proofs about Supervisor: every process has its slot and the last slot   *)
(* is kept, one reason to stop cuts no task short, a crash shows in the    *)
(* exit code and an outage is told, for any number of workers.             *)
(***************************************************************************)
EXTENDS Supervisor, FiniteSetTheorems, TLAPS

\* Of a process nobody has killed yet.
ProcessCodes == Codes \ {"killed"}
Process == [state: {"free", "dead"} \cup Live, code: ProcessCodes, stable: BOOLEAN]

Typed ==
  /\ options \in Commands
  /\ pc \in {"top", "grow", "shrink", "reap", "check", "start", "stop", "stopping",
             "waiting", "finish", "finished", "raised"}
  /\ workers \in [DOMAIN workers -> Slot]
  /\ proc \in [Pids -> Process]
  /\ failing \in BOOLEAN /\ forced \in BOOLEAN /\ crashed \in BOOLEAN
  /\ codes \subseteq Codes
  /\ result \in {"none", "exception", "forced", "abnormal", "failed", "empty", "ok"}

\* A slot that is added has an index of its own, and there is room for it.
Numbered ==
  /\ pending \in Int /\ requests \in Nat /\ next_index \in Nat /\ next_index > 1
  /\ signals \in 0 .. options.max_signals /\ scales \in 0 .. options.max_scale
  /\ DOMAIN workers \subseteq 1 .. next_index - 1
  /\ next_index - 1 + (IF pending > 0 THEN pending ELSE 0) <= options.workers + scales

\* Processes and slots go together, one to one.
Owned ==
  /\ \A i \in DOMAIN workers : Running(workers[i]) => proc[workers[i].pid].state # "free"
  /\ \A i, j \in DOMAIN workers :
       Running(workers[i]) /\ workers[i].pid = workers[j].pid => i = j
  /\ \A p \in Pids : proc[p].state # "free" => \E i \in DOMAIN workers : workers[i].pid = p

Staffed == Active # {}

\* Whoever leaves the loop without a request has nothing to stop, and what is
\* over has stopped it.
Emptied ==
  /\ pc \in {"finish", "finished", "raised"} => ~SomeRunning
  /\ pc = "stop" /\ ~Shutdown => ~SomeRunning
  /\ pc \in {"stopping", "waiting"} => Shutdown

\* Nobody stops unless its slot is scaled down or the shutdown was forwarded.
Unhurried ==
  /\ scales = 0 => pending = 0
  /\ \A i \in DOMAIN workers : workers[i].retiring => scales > 0
  /\ \A p \in Pids : proc[p].state = "stopping" =>
       \/ pc \in {"stopping", "waiting", "finish", "finished", "raised"}
       \/ \E i \in DOMAIN workers : workers[i].pid = p /\ workers[i].retiring

\* The code of a crash is not lost until it is reported.
CrashHeld ==
  crashed => "crash" \in codes \/ \E p \in Pids : proc[p].state = "dead" /\ proc[p].code = "crash"
CrashKept == CrashHeld /\ CrashReported

\* A slot that is remembered for a clean exit since the outage began is one
\* that has just exited, and it has no failures.
CleanIsNew ==
  /\ ~options.restart => \A i \in DOMAIN workers : workers[i].failures = 0
  /\ failing /\ ~Shutdown => \A i \in Active :
       workers[i].clean => pc = "check" /\ workers[i].failures = 0

Orderly ==
  /\ Typed /\ Numbered /\ Owned /\ Staffed /\ Emptied /\ Unhurried /\ NothingCut /\ CrashKept
  /\ CleanIsNew /\ OutageTold

USE DEF vars, loop, settled, bounds, Goto

LEMMA OptionsTyped ==
  ASSUME options \in Commands
  PROVE  /\ options.workers \in Nat \ {0} /\ options.restart \in BOOLEAN
         /\ options.graceful \in BOOLEAN /\ options.timeout \in BOOLEAN
         /\ options.exit_codes \subseteq {"ok", "empty", "failed", "crash"}
         /\ options.max_scale \in Nat /\ options.max_signals \in Nat
         /\ options.workers + options.max_scale <= MaxWorkers
BY SupervisorAssumption

LEMMA DeadProcess ==
  ASSUME NEW x \in Process, NEW code \in ProcessCodes
  PROVE  /\ Dead(x, code) \in Process /\ Dead(x, code).state = "dead"
         /\ Dead(x, code).code = code /\ Dead(x, code).stable = x.stable
BY DEF Dead, Process

\* What a signal makes of a process.
LEMMA SignalledProcess ==
  ASSUME NEW x \in Process, options \in Commands
  PROVE  /\ Signalled(x) \in Process
         /\ Signalled(x).state = "free" <=> x.state = "free"
         /\ x.state = "dead" => Signalled(x) = x
         /\ Signalled(x).stable = x.stable
         /\ Signalled(x).state = "dead" => x.state = "dead" \/ Signalled(x).code # "crash"
         /\ Signalled(x).code = "forced" => x.code = "forced" \/ x.state = "stopping"
<1>1. CASE x.state = "booting"
  <2>1. Signalled(x) = Dead(x, "term")
    BY <1>1 DEF Signalled
  <2> QED
    BY <1>1, <2>1, DeadProcess DEF ProcessCodes, Codes
<1>2. CASE x.state = "up"
  <2>1. CASE options.graceful
    <3>1. Signalled(x) = [x EXCEPT !.state = "stopping"]
      BY <1>2, <2>1 DEF Signalled
    <3> QED
      BY <1>2, <3>1 DEF Process, Live
  <2>2. CASE ~options.graceful
    <3>1. Signalled(x) = Dead(x, "term")
      BY <1>2, <2>2 DEF Signalled
    <3> QED
      BY <1>2, <3>1, DeadProcess DEF ProcessCodes, Codes
  <2> QED
    BY <2>1, <2>2
<1>3. CASE x.state = "stopping"
  <2>1. Signalled(x) = Dead(x, "forced")
    BY <1>3 DEF Signalled
  <2> QED
    BY <1>3, <2>1, DeadProcess DEF ProcessCodes, Codes
<1>4. CASE x.state \in {"free", "dead"}
  BY <1>4 DEF Signalled, Process, Live, ProcessCodes, Codes
<1> QED
  BY <1>1, <1>2, <1>3, <1>4 DEF Process, Live

\* What _reap makes of a slot whose process has exited.
LEMMA ReapedSlot ==
  ASSUME Typed, NEW s \in Slot, s.pid \in Pids
  PROVE  /\ Reaped(s) \in Slot /\ Reaped(s).pid = NoPid /\ Reaped(s).retiring = s.retiring
         /\ ~options.restart => Reaped(s).failures = s.failures
         /\ Reaped(s).clean => s.clean \/ (failing /\ proc[s.pid].code = "ok")
         /\ options.restart /\ ~Shutdown /\ proc[s.pid].code = "ok" => Reaped(s).failures = 0
<1> DEFINE t == Restarted(s)
           r == [s EXCEPT !.pid = NoPid, !.clean = s.clean \/ (failing /\ proc[s.pid].code = "ok")]
<1>1. /\ t.restart \in {"later", "due"} /\ t.failures \in 0 .. MaxFailures
      /\ proc[s.pid].code = "ok" => t.failures = 0
  <2>1. s.failures \in 0 .. MaxFailures /\ MaxFailures \in Nat \ {0}
    BY SupervisorAssumption DEF Slot
  <2>2. NextFailures(s.failures) \in 0 .. MaxFailures
    BY <2>1 DEF NextFailures
  <2>3. CASE FailedToStart(s)
    <3>1. t.restart = "later" /\ t.failures = NextFailures(s.failures)
      BY <2>3 DEF Restarted, Slot
    <3> QED
      BY <2>2, <2>3, <3>1 DEF FailedToStart
  <2>4. CASE ~FailedToStart(s)
    <3>1. t.restart = "due" /\ t.failures = 0
      BY <2>4 DEF Restarted, Slot
    <3> QED
      BY <2>1, <3>1
  <2> QED
    BY <2>3, <2>4
<1>2. /\ r \in Slot /\ r.pid = NoPid /\ r.retiring = s.retiring /\ r.failures = s.failures
      /\ r.clean => s.clean \/ (failing /\ proc[s.pid].code = "ok")
  BY DEF Typed, Slot
<1>3. Reaped(s) = IF options.restart /\ ~Shutdown
                  THEN [r EXCEPT !.restart = t.restart, !.failures = t.failures] ELSE r
  BY DEF Reaped
<1> HIDE DEF t, r
<1> DEFINE u == [r EXCEPT !.restart = t.restart, !.failures = t.failures]
<1>4. /\ u \in Slot /\ u.pid = r.pid /\ u.retiring = r.retiring /\ u.clean = r.clean
      /\ u.failures = t.failures
  BY <1>1, <1>2 DEF Slot
<1> HIDE DEF u
<1>5. Reaped(s) = IF options.restart /\ ~Shutdown THEN u ELSE r
  BY <1>3 DEF u
<1> QED
  BY <1>1, <1>2, <1>4, <1>5

\* _reap as a whole: the processes that have exited are gone, each from its
\* slot, and their codes are recorded.
LEMMA Reaps ==
  ASSUME Typed, Owned, Reap
  PROVE  /\ DOMAIN workers' = {j \in DOMAIN workers : ~(workers[j].retiring /\ Exited(workers[j]))}
         /\ workers' \in [DOMAIN workers' -> Slot]
         /\ \A i \in DOMAIN workers' :
              workers'[i] = IF Exited(workers[i]) THEN Reaped(workers[i]) ELSE workers[i]
         /\ \A i \in DOMAIN workers' :
              /\ workers'[i].retiring = workers[i].retiring
              /\ workers'[i].pid = IF Exited(workers[i]) THEN NoPid ELSE workers[i].pid
         /\ \A p \in Pids : proc'[p] = IF proc[p].state = "dead" THEN Free ELSE proc[p]
         /\ proc' \in [Pids -> Process]
         /\ codes \subseteq codes' /\ codes' \subseteq Codes
         /\ \A p \in Pids :
              proc[p].state = "dead" /\ proc[p].code # "term" => proc[p].code \in codes'
         /\ \A c \in codes' : c \in codes \/ c = "ok" \/ \E p \in Pids : proc[p].code = c
<1>1. DOMAIN workers' = {j \in DOMAIN workers : ~(workers[j].retiring /\ Exited(workers[j]))}
  BY DEF Reap
<1>2. \A i \in DOMAIN workers' :
        workers'[i] = IF Exited(workers[i]) THEN Reaped(workers[i]) ELSE workers[i]
  BY <1>1 DEF Reap
<1>3. \A i \in DOMAIN workers :
        /\ workers[i] \in Slot
        /\ Exited(workers[i]) => workers[i].pid \in Pids
  BY DEF Typed, Slot, Exited, Running
<1>4. \A i \in DOMAIN workers' :
        /\ workers'[i] \in Slot
        /\ workers'[i].retiring = workers[i].retiring
        /\ workers'[i].pid = IF Exited(workers[i]) THEN NoPid ELSE workers[i].pid
  BY <1>1, <1>2, <1>3, ReapedSlot
<1>5. workers' \in [DOMAIN workers' -> Slot]
  <2>1. workers' = [i \in DOMAIN workers' |-> workers'[i]]
    BY <1>1, <1>2 DEF Reap
  <2> QED
    BY <1>4, <2>1
<1>6. \A p \in Pids : proc[p].state = "dead" =>
        \E i \in DOMAIN workers : workers[i].pid = p /\ Exited(workers[i])
  BY SupervisorAssumption DEF Owned, Exited, Running
<1>7. \A p \in Pids : proc'[p] = IF proc[p].state = "dead" THEN Free ELSE proc[p]
  BY <1>6 DEF Reap, Slots, Exited
<1>8. proc' \in [Pids -> Process]
  <2>1. Free \in Process
    BY DEF Free, Process, ProcessCodes, Codes
  <2>2. proc' = [p \in Pids |-> proc'[p]]
    BY DEF Reap
  <2> QED
    BY <1>7, <2>1, <2>2 DEF Typed
<1>9. codes' = codes \cup {IF Stopped(s) THEN "ok" ELSE proc[s.pid].code :
                            s \in {x \in Slots : Exited(x)}}
  BY DEF Reap
<1>10. codes \subseteq codes' /\ codes' \subseteq Codes
  BY <1>3, <1>9 DEF Typed, Slots, ProcessCodes, Codes, Process
<1>11. ASSUME NEW p \in Pids, proc[p].state = "dead", proc[p].code # "term"
       PROVE  proc[p].code \in codes'
  <2>1. PICK i \in DOMAIN workers : workers[i].pid = p /\ Exited(workers[i])
    BY <1>6, <1>11
  <2>2. ~Stopped(workers[i]) /\ workers[i] \in Slots
    BY <1>11, <2>1 DEF Stopped, Slots
  <2> QED
    BY <1>9, <2>1, <2>2
<1>12. \A c \in codes' : c \in codes \/ c = "ok" \/ \E p \in Pids : proc[p].code = c
  BY <1>3, <1>9 DEF Slots
<1> QED
  BY <1>1, <1>2, <1>4, <1>5, <1>7, <1>8, <1>10, <1>11, <1>12

\* Fewer slots than process ids: there is one to start a worker with.
LEMMA FreePid ==
  ASSUME Typed, Numbered, Owned, NEW i \in DOMAIN workers, ~Running(workers[i])
  PROVE  \E q \in Pids : proc[q].state = "free"
<1> SUFFICES ASSUME \A q \in Pids : proc[q].state # "free" PROVE FALSE
  OBVIOUS
<1> DEFINE T == DOMAIN workers \ {i}
           f == [q \in Pids |-> CHOOSE j \in DOMAIN workers : workers[j].pid = q]
<1>1. \A q \in Pids : f[q] \in T /\ workers[f[q]].pid = q
  BY SupervisorAssumption DEF Owned, Running
<1>2. IsFiniteSet(T) /\ Cardinality(T) < MaxWorkers
  <2>1. next_index - 1 <= MaxWorkers
    BY OptionsTyped, SupervisorAssumption DEF Typed, Numbered
  <2>2. DOMAIN workers \subseteq 1 .. MaxWorkers
    BY <2>1, SupervisorAssumption DEF Numbered
  <2>3. IsFiniteSet(1 .. MaxWorkers) /\ Cardinality(1 .. MaxWorkers) = MaxWorkers
    <3>1. 1 \in Int /\ MaxWorkers \in Int /\ (1 > MaxWorkers => MaxWorkers = 0)
      BY SupervisorAssumption
    <3> QED
      BY <3>1, FS_Interval
  <2>4. IsFiniteSet(DOMAIN workers) /\ Cardinality(DOMAIN workers) <= MaxWorkers
    BY <2>2, <2>3, FS_Subset
  <2> QED
    <3>1. Cardinality(T) = Cardinality(DOMAIN workers) - 1 /\ IsFiniteSet(T)
      BY <2>4, FS_RemoveElement
    <3>2. Cardinality(DOMAIN workers) \in Nat /\ MaxWorkers \in Nat
      BY <2>4, FS_CardinalityType, SupervisorAssumption
    <3> HIDE DEF T
    <3> QED
      BY <2>4, <3>1, <3>2
<1>3. f \in [Pids -> T]
  BY <1>1
<1>4. Cardinality(T) < Cardinality(Pids) /\ IsFiniteSet(Pids)
  BY <1>2, SupervisorAssumption, FS_CardinalityType
<1>5. PICK x \in Pids, y \in Pids : x # y /\ f[x] = f[y]
  <2> HIDE DEF T, f
  <2> QED
    BY <1>2, <1>3, <1>4, FS_PigeonHole
<1> QED
  BY <1>1, <1>5

LEMMA Starts ==
  ASSUME Typed, Numbered, Owned, StartDue
  PROVE  \E i \in DOMAIN workers, p \in Pids :
           /\ Due(workers[i]) /\ proc[p].state = "free"
           /\ proc' = [proc EXCEPT ![p].state = "booting"]
           /\ workers' = [workers EXCEPT ![i].pid = p, ![i].restart = "never"]
<1>1. PICK i \in DOMAIN workers :
        /\ Due(workers[i])
        /\ LET p == CHOOSE q \in Pids : proc[q].state = "free"
           IN /\ proc' = [proc EXCEPT ![p].state = "booting"]
              /\ workers' = [workers EXCEPT ![i].pid = p, ![i].restart = "never"]
  BY DEF StartDue
<1>2. \E q \in Pids : proc[q].state = "free"
  BY <1>1, FreePid DEF Due
<1> QED
  BY <1>1, <1>2

\* A worker that is scaled down loses its slot or, if it runs, is signalled.
LEMMA Retires ==
  ASSUME Typed, Shrink
  PROVE  \/ UNCHANGED <<workers, proc>>
         \/ \E i \in Active :
              /\ MayRetire /\ pending < 0
              /\ \/ /\ Running(workers[i])
                    /\ workers' = [workers EXCEPT ![i].retiring = TRUE]
                    /\ proc' = [proc EXCEPT ![workers[i].pid] = Signalled(proc[workers[i].pid])]
                 \/ /\ ~Running(workers[i])
                    /\ workers' = [j \in DOMAIN workers \ {i} |-> workers[j]]
                    /\ UNCHANGED proc
BY DEF Shrink, Retire, WithoutSlot

LEMMA SlotType ==
  ASSUME Typed, NEW i \in DOMAIN workers
  PROVE  /\ workers[i] \in Slot /\ workers[i].retiring \in BOOLEAN
         /\ Running(workers[i]) => workers[i].pid \in Pids
BY DEF Typed, Slot, Running

LEMMA TypedInit == Init => Typed
<1> SUFFICES ASSUME Init PROVE Typed
  OBVIOUS
<1>1. NewSlot \in Slot /\ Free \in Process
  BY SupervisorAssumption DEF NewSlot, Slot, Free, Process, ProcessCodes, Codes
<1>2. workers \in [DOMAIN workers -> Slot] /\ proc \in [Pids -> Process]
  BY <1>1 DEF Init
<1> QED
  BY <1>2 DEF Init, Typed

LEMMA TypedNext ==
  ASSUME Typed, Numbered, Owned, [Next]_vars
  PROVE  Typed'
<1>1. CASE Top
  BY <1>1 DEF Top, Typed
<1>2. CASE Grow
  <2>1. NewSlot \in Slot
    BY SupervisorAssumption DEF NewSlot, Slot
  <2>2. workers' \in [DOMAIN workers' -> Slot]
    BY <1>2, <2>1 DEF Grow, Typed
  <2> QED
    BY <1>2, <2>2 DEF Grow, Typed
<1>3. CASE Shrink
  <2>1. UNCHANGED <<options, failing, forced, crashed, codes, result>> /\ pc' \in {pc, "reap"}
    BY <1>3 DEF Shrink
  <2>2. CASE UNCHANGED <<workers, proc>>
    BY <2>1, <2>2 DEF Typed
  <2>3. ASSUME NEW i \in Active, Running(workers[i]),
               workers' = [workers EXCEPT ![i].retiring = TRUE],
               proc' = [proc EXCEPT ![workers[i].pid] = Signalled(proc[workers[i].pid])]
        PROVE  Typed'
    <3>1. workers[i].pid \in Pids /\ workers[i] \in Slot
      BY <2>3, SlotType DEF Active
    <3>2. Signalled(proc[workers[i].pid]) \in Process
      BY <3>1, SignalledProcess DEF Typed
    <3>3. workers' \in [DOMAIN workers' -> Slot]
      BY <2>3, <3>1 DEF Typed, Slot
    <3> QED
      BY <2>1, <2>3, <3>2, <3>3 DEF Typed
  <2>4. ASSUME NEW i \in Active, workers' = [j \in DOMAIN workers \ {i} |-> workers[j]],
               UNCHANGED proc
        PROVE  Typed'
    BY <2>1, <2>4 DEF Typed
  <2> QED
    BY <1>3, <2>2, <2>3, <2>4, Retires
<1>4. CASE ReapRound
  <2>1. /\ UNCHANGED <<options, failing, forced, crashed, result>>
        /\ pc' \in {"check", "waiting"} /\ Reap
    BY <1>4 DEF ReapRound
  <2> QED
    BY <2>1, Reaps DEF Typed
<1>5. CASE CheckFailing
  <2>1. failing' \in BOOLEAN
    BY <1>5, Zenon DEF CheckFailing
  <2>2. workers' \in [DOMAIN workers' -> Slot]
    <3>1. \A i \in DOMAIN workers : [workers[i] EXCEPT !.clean = FALSE] \in Slot
      BY DEF Typed, Slot
    <3> QED
      BY <1>5, <3>1 DEF CheckFailing, Typed
  <2> QED
    BY <1>5, <2>1, <2>2 DEF CheckFailing, Typed
<1>6. CASE StartDue
  <2>1. PICK i \in DOMAIN workers, p \in Pids :
          /\ proc' = [proc EXCEPT ![p].state = "booting"]
          /\ workers' = [workers EXCEPT ![i].pid = p, ![i].restart = "never"]
    BY <1>6, Starts
  <2>2. proc' \in [Pids -> Process]
    BY <2>1 DEF Typed, Process, Live
  <2>3. workers' \in [DOMAIN workers' -> Slot]
    BY <2>1 DEF Typed, Slot
  <2> QED
    BY <1>6, <2>2, <2>3 DEF StartDue, Typed
<1>7. CASE EndOfRound
  BY <1>7 DEF EndOfRound, Typed
<1>8. CASE Forward
  <2>1. \A p \in Pids : Signalled(proc[p]) \in Process
    BY SignalledProcess DEF Typed
  <2>2. proc' \in [Pids -> Process]
    BY <1>8, <2>1 DEF Forward, Typed
  <2> QED
    BY <1>8, <2>2 DEF Forward, Typed
<1>9. CASE ReapStopping
  <2>1. /\ UNCHANGED <<options, failing, forced, crashed, result>>
        /\ pc' \in {"check", "waiting"} /\ Reap
    BY <1>9 DEF ReapStopping
  <2> QED
    BY <2>1, Reaps DEF Typed
<1>10. CASE WaitForWorkers
  BY <1>10 DEF WaitForWorkers, Typed
<1>11. CASE Finish
  BY <1>11 DEF Finish, Combined, Typed
<1>12. CASE SpawnFails
  BY <1>12 DEF SpawnFails, Typed
<1>13. CASE KillWorkers
  <2>1. \A i \in DOMAIN workers : [workers[i] EXCEPT !.pid = NoPid] \in Slot
    BY DEF Typed, Slot
  <2>2. workers' \in [DOMAIN workers' -> Slot]
    BY <1>13, <2>1 DEF KillWorkers
  <2>3. proc' \in [Pids -> Process]
    BY <1>13 DEF KillWorkers, Typed, Free, Process, ProcessCodes, Codes
  <2>4. codes' \subseteq Codes
    BY <1>13, SlotType DEF KillWorkers, Typed, Slots, Process, ProcessCodes, Codes
  <2> QED
    BY <1>13, <2>2, <2>3, <2>4 DEF KillWorkers, Typed
<1>14. CASE RequestShutdown
  BY <1>14 DEF RequestShutdown, Typed
<1>15. CASE Scale(1)
  BY <1>15 DEF Scale, Typed
<1>16. CASE Scale(-1)
  BY <1>16 DEF Scale, Typed
<1>17. ASSUME NEW i \in DOMAIN workers, BackoffEnds(i) PROVE Typed'
  <2>1. workers' \in [DOMAIN workers' -> Slot]
    BY <1>17 DEF BackoffEnds, Typed, Slot
  <2> QED
    BY <1>17, <2>1 DEF BackoffEnds, Typed
<1>18. ASSUME NEW p \in Pids, Boot(p) PROVE Typed'
  <2>1. proc' \in [Pids -> Process]
    BY <1>18 DEF Boot, Typed, Process, Live
  <2> QED
    BY <1>18, <2>1 DEF Boot, Typed
<1>19. ASSUME NEW p \in Pids, Stabilize(p) PROVE Typed'
  <2>1. proc' \in [Pids -> Process]
    BY <1>19 DEF Stabilize, Typed, Process, Live
  <2> QED
    BY <1>19, <2>1 DEF Stabilize, Typed
<1>20. ASSUME NEW p \in Pids, Die(p) PROVE Typed'
  <2>1. PICK code \in ProcessCodes :
          /\ proc' = [proc EXCEPT ![p] = Dead(proc[p], code)]
          /\ crashed' = (crashed \/ code = "crash")
    BY <1>20, OptionsTyped DEF Die, Typed, ProcessCodes, Codes
  <2>2. Dead(proc[p], code) \in Process
    BY DeadProcess DEF Typed
  <2>3. proc' \in [Pids -> Process]
    BY <2>1, <2>2 DEF Typed
  <2>4. crashed' \in BOOLEAN
    BY <2>1
  <2> QED
    BY <1>20, <2>3, <2>4 DEF Die, Typed
<1>21. ASSUME NEW p \in Pids, StopsByItself(p) PROVE Typed'
  <2>1. PICK code \in ProcessCodes : proc' = [proc EXCEPT ![p] = Dead(proc[p], code)]
    BY <1>21 DEF StopsByItself, ProcessCodes, Codes
  <2>2. Dead(proc[p], code) \in Process
    BY DeadProcess DEF Typed
  <2>3. proc' \in [Pids -> Process]
    BY <2>1, <2>2 DEF Typed
  <2> QED
    BY <1>21, <2>3 DEF StopsByItself, Typed
<1>22. CASE UNCHANGED vars
  BY <1>22 DEF Typed
<1> QED
  BY <1>1, <1>2, <1>3, <1>4, <1>5, <1>6, <1>7, <1>8, <1>9, <1>10, <1>11, <1>12, <1>13, <1>14,
    <1>15, <1>16, <1>17, <1>18, <1>19, <1>20, <1>21, <1>22 DEF Next, LoopStep, Ended

LEMMA NumberedInit == Init => Numbered
BY OptionsTyped DEF Init, Numbered

LEMMA NumberedNext ==
  ASSUME Typed, Numbered, [Next]_vars
  PROVE  Numbered'
<1>1. CASE Top
  <2>1. /\ UNCHANGED <<options, next_index, pending, requests, signals, scales>>
        /\ DOMAIN workers' \subseteq DOMAIN workers
    BY <1>1 DEF Top
  <2> QED
    BY <2>1 DEF Numbered
<1>2. CASE Grow
  <2>1. /\ UNCHANGED <<options, requests, signals, scales>>
        /\ \/ UNCHANGED <<next_index, pending, workers>>
           \/ /\ pending > 0 /\ pending' = pending - 1 /\ next_index' = next_index + 1
              /\ DOMAIN workers' = DOMAIN workers \cup {next_index}
    BY <1>2 DEF Grow
  <2>2. DOMAIN workers' \subseteq 1 .. next_index' - 1
    BY <2>1 DEF Numbered
  <2> QED
    BY <2>1, <2>2 DEF Numbered
<1>3. CASE Shrink
  <2>1. UNCHANGED <<options, next_index, requests, signals, scales>>
    BY <1>3 DEF Shrink
  <2>2. DOMAIN workers' \subseteq DOMAIN workers
    BY <1>3, Retires
  <2>3. pending' = pending \/ (pending < 0 /\ pending' = pending + 1)
    BY <1>3 DEF Shrink
  <2> QED
    BY <2>1, <2>2, <2>3 DEF Numbered
<1>4. CASE ReapRound
  <2>1. /\ UNCHANGED <<options, next_index, pending, requests, signals, scales>>
        /\ DOMAIN workers' \subseteq DOMAIN workers
    BY <1>4 DEF ReapRound, Reap
  <2> QED
    BY <2>1 DEF Numbered
<1>5. CASE CheckFailing
  <2>1. /\ UNCHANGED <<options, next_index, pending, requests, signals, scales>>
        /\ DOMAIN workers' \subseteq DOMAIN workers
    BY <1>5 DEF CheckFailing
  <2> QED
    BY <2>1 DEF Numbered
<1>6. CASE StartDue
  <2>1. /\ UNCHANGED <<options, next_index, pending, requests, signals, scales>>
        /\ DOMAIN workers' \subseteq DOMAIN workers
    BY <1>6 DEF StartDue
  <2> QED
    BY <2>1 DEF Numbered
<1>7. CASE EndOfRound
  <2>1. /\ UNCHANGED <<options, next_index, pending, requests, signals, scales>>
        /\ DOMAIN workers' \subseteq DOMAIN workers
    BY <1>7 DEF EndOfRound
  <2> QED
    BY <2>1 DEF Numbered
<1>8. CASE Forward
  <2>1. /\ UNCHANGED <<options, next_index, pending, requests, signals, scales>>
        /\ DOMAIN workers' \subseteq DOMAIN workers
    BY <1>8 DEF Forward
  <2> QED
    BY <2>1 DEF Numbered
<1>9. CASE ReapStopping
  <2>1. /\ UNCHANGED <<options, next_index, pending, requests, signals, scales>>
        /\ DOMAIN workers' \subseteq DOMAIN workers
    BY <1>9 DEF ReapStopping, Reap
  <2> QED
    BY <2>1 DEF Numbered
<1>10. CASE WaitForWorkers
  <2>1. /\ UNCHANGED <<options, next_index, pending, requests, signals, scales>>
        /\ DOMAIN workers' \subseteq DOMAIN workers
    BY <1>10 DEF WaitForWorkers
  <2> QED
    BY <2>1 DEF Numbered
<1>11. CASE Finish
  <2>1. /\ UNCHANGED <<options, next_index, pending, requests, signals, scales>>
        /\ DOMAIN workers' \subseteq DOMAIN workers
    BY <1>11 DEF Finish
  <2> QED
    BY <2>1 DEF Numbered
<1>12. CASE SpawnFails
  BY <1>12 DEF SpawnFails, Numbered
<1>13. CASE KillWorkers
  <2>1. /\ UNCHANGED <<options, next_index, pending, requests, signals, scales>>
        /\ DOMAIN workers' \subseteq DOMAIN workers
    BY <1>13 DEF KillWorkers
  <2> QED
    BY <2>1 DEF Numbered
<1>14. CASE RequestShutdown
  BY <1>14, OptionsTyped DEF RequestShutdown, Numbered, Typed
<1>15. CASE Scale(1)
  BY <1>15, OptionsTyped DEF Scale, Numbered, Typed
<1>16. CASE Scale(-1)
  BY <1>16, OptionsTyped DEF Scale, Numbered, Typed
<1>17. ASSUME NEW i \in DOMAIN workers, BackoffEnds(i) PROVE Numbered'
  <2>1. /\ UNCHANGED <<options, next_index, pending, requests, signals, scales>>
        /\ DOMAIN workers' \subseteq DOMAIN workers
    BY <1>17 DEF BackoffEnds
  <2> QED
    BY <2>1 DEF Numbered
<1>18. ASSUME NEW p \in Pids, Boot(p) PROVE Numbered'
  <2>1. /\ UNCHANGED <<options, next_index, pending, requests, signals, scales>>
        /\ DOMAIN workers' \subseteq DOMAIN workers
    BY <1>18 DEF Boot
  <2> QED
    BY <2>1 DEF Numbered
<1>19. ASSUME NEW p \in Pids, Stabilize(p) PROVE Numbered'
  <2>1. /\ UNCHANGED <<options, next_index, pending, requests, signals, scales>>
        /\ DOMAIN workers' \subseteq DOMAIN workers
    BY <1>19 DEF Stabilize
  <2> QED
    BY <2>1 DEF Numbered
<1>20. ASSUME NEW p \in Pids, Die(p) PROVE Numbered'
  <2>1. /\ UNCHANGED <<options, next_index, pending, requests, signals, scales>>
        /\ DOMAIN workers' \subseteq DOMAIN workers
    BY <1>20 DEF Die
  <2> QED
    BY <2>1 DEF Numbered
<1>21. ASSUME NEW p \in Pids, StopsByItself(p) PROVE Numbered'
  <2>1. /\ UNCHANGED <<options, next_index, pending, requests, signals, scales>>
        /\ DOMAIN workers' \subseteq DOMAIN workers
    BY <1>21 DEF StopsByItself
  <2> QED
    BY <2>1 DEF Numbered
<1>22. CASE UNCHANGED vars
  BY <1>22 DEF Numbered
<1> QED
  BY <1>1, <1>2, <1>3, <1>4, <1>5, <1>6, <1>7, <1>8, <1>9, <1>10, <1>11, <1>12, <1>13, <1>14,
    <1>15, <1>16, <1>17, <1>18, <1>19, <1>20, <1>21, <1>22 DEF Next, LoopStep, Ended

\* A step that starts no process, drops none and changes no slot's process.
Keeps ==
  /\ DOMAIN workers' = DOMAIN workers
  /\ \A i \in DOMAIN workers :
       /\ workers'[i].pid = workers[i].pid /\ workers'[i].retiring = workers[i].retiring
       /\ workers'[i].failures = workers[i].failures /\ (workers'[i].clean => workers[i].clean)
  /\ \A p \in Pids :
       /\ proc'[p].state = "free" <=> proc[p].state = "free"
       /\ proc[p].state = "dead" => proc'[p].state = "dead" /\ proc'[p].code = proc[p].code
       /\ proc[p].stable => proc'[p].stable

Quiet ==
  \/ Top \/ CheckFailing \/ EndOfRound \/ Forward \/ WaitForWorkers \/ Finish \/ SpawnFails
  \/ RequestShutdown \/ Scale(1) \/ Scale(-1) \/ UNCHANGED vars
  \/ \E i \in DOMAIN workers : BackoffEnds(i)
  \/ \E p \in Pids : Boot(p) \/ Stabilize(p) \/ Die(p) \/ StopsByItself(p)

LEMMA QuietKeeps ==
  ASSUME Typed, Quiet
  PROVE  Keeps
<1>1. CASE UNCHANGED <<workers, proc>>
  BY <1>1 DEF Keeps
<1>2. CASE CheckFailing
  <2>1. \A i \in DOMAIN workers :
          LET s == [workers[i] EXCEPT !.clean = FALSE]
          IN /\ s.pid = workers[i].pid /\ s.retiring = workers[i].retiring
             /\ s.failures = workers[i].failures /\ ~s.clean
    BY DEF Typed, Slot
  <2>2. /\ UNCHANGED proc
        /\ \/ UNCHANGED workers
           \/ workers' = [i \in DOMAIN workers |-> [workers[i] EXCEPT !.clean = FALSE]]
    BY <1>2 DEF CheckFailing
  <2> QED
    BY <2>1, <2>2 DEF Keeps
<1>3. CASE Forward
  <2>1. UNCHANGED workers /\ \A p \in Pids : proc'[p] \in {proc[p], Signalled(proc[p])}
    BY <1>3 DEF Forward, Typed
  <2> QED
    BY <2>1, SignalledProcess DEF Keeps, Typed
<1>4. ASSUME NEW i \in DOMAIN workers, BackoffEnds(i) PROVE Keeps
  BY <1>4 DEF BackoffEnds, Keeps, Typed, Slot
<1>5. ASSUME NEW p \in Pids, Boot(p) \/ Stabilize(p) PROVE Keeps
  BY <1>5 DEF Boot, Stabilize, Keeps, Typed, Process
<1>6. ASSUME NEW p \in Pids, Die(p) \/ StopsByItself(p) PROVE Keeps
  <2>1. PICK code \in ProcessCodes :
          /\ proc' = [proc EXCEPT ![p] = Dead(proc[p], code)]
          /\ UNCHANGED workers /\ proc[p].state \in Live
    BY <1>6, OptionsTyped DEF Die, StopsByItself, Typed, ProcessCodes, Codes, Live
  <2>2. Dead(proc[p], code).state = "dead" /\ Dead(proc[p], code).stable = proc[p].stable
    BY DeadProcess DEF Typed
  <2> QED
    BY <2>1, <2>2 DEF Keeps, Typed, Live
<1>7. CASE Top \/ EndOfRound \/ WaitForWorkers \/ Finish \/ SpawnFails
           \/ RequestShutdown \/ Scale(1) \/ Scale(-1) \/ UNCHANGED vars
  BY <1>1, <1>7 DEF Top, EndOfRound, WaitForWorkers, Finish, SpawnFails, RequestShutdown, Scale
<1> QED
  BY <1>2, <1>3, <1>4, <1>5, <1>6, <1>7 DEF Quiet

LEMMA NextCases ==
  ASSUME [Next]_vars
  PROVE  Quiet \/ Grow \/ Shrink \/ ReapRound \/ ReapStopping \/ StartDue \/ KillWorkers
BY DEF Next, LoopStep, Ended, Quiet

LEMMA KeepsOwned ==
  ASSUME Typed, Owned, DOMAIN workers' = DOMAIN workers,
         \A i \in DOMAIN workers : workers'[i].pid = workers[i].pid,
         \A p \in Pids : proc'[p].state = "free" <=> proc[p].state = "free"
  PROVE  Owned'
<1>1. \A i \in DOMAIN workers : Running(workers[i]) =>
        workers[i].pid \in Pids /\ proc[workers[i].pid].state # "free"
  BY SlotType DEF Owned
<1>2. \A i \in DOMAIN workers' : Running(workers'[i]) => proc'[workers'[i].pid].state # "free"
  BY <1>1 DEF Running
<1>3. \A i, j \in DOMAIN workers' :
        Running(workers'[i]) /\ workers'[i].pid = workers'[j].pid => i = j
  BY DEF Owned, Running
<1>4. \A p \in Pids : proc'[p].state # "free" => \E i \in DOMAIN workers' : workers'[i].pid = p
  BY DEF Owned
<1> QED
  BY <1>2, <1>3, <1>4 DEF Owned

LEMMA OwnedInit == Init => Owned
BY SupervisorAssumption DEF Init, Owned, NewSlot, Free, Running

\* After _reap the processes that are left are those that have not exited.
LEMMA ReapOwned ==
  ASSUME Typed, Owned, Reap
  PROVE  Owned'
<1>1. /\ DOMAIN workers' = {j \in DOMAIN workers : ~(workers[j].retiring /\ Exited(workers[j]))}
      /\ \A i \in DOMAIN workers' :
           workers'[i].pid = IF Exited(workers[i]) THEN NoPid ELSE workers[i].pid
      /\ \A p \in Pids : proc'[p] = IF proc[p].state = "dead" THEN Free ELSE proc[p]
  BY Reaps
<1>2. \A i \in DOMAIN workers' : Running(workers'[i]) =>
        workers[i].pid \in Pids /\ workers'[i].pid = workers[i].pid /\ ~Exited(workers[i])
        /\ Running(workers[i])
  BY <1>1, SlotType DEF Running
<1>3. \A i \in DOMAIN workers' : Running(workers'[i]) => proc'[workers'[i].pid].state # "free"
  BY <1>1, <1>2 DEF Owned, Exited
<1>4. \A i, j \in DOMAIN workers' :
        Running(workers'[i]) /\ workers'[i].pid = workers'[j].pid => i = j
  BY <1>1, <1>2 DEF Owned, Running
<1>5. ASSUME NEW p \in Pids, proc'[p].state # "free"
      PROVE  \E i \in DOMAIN workers' : workers'[i].pid = p
  <2>1. proc[p].state \notin {"dead", "free"}
    BY <1>1, <1>5 DEF Free
  <2>2. PICK i \in DOMAIN workers : workers[i].pid = p
    BY <2>1 DEF Owned
  <2>3. ~Exited(workers[i])
    BY <2>1, <2>2 DEF Exited
  <2> QED
    BY <1>1, <2>2, <2>3
<1> QED
  BY <1>3, <1>4, <1>5 DEF Owned

LEMMA OwnedNext ==
  ASSUME Typed, Numbered, Owned, [Next]_vars
  PROVE  Owned'
<1>1. CASE Quiet
  BY <1>1, QuietKeeps, KeepsOwned DEF Keeps
<1>2. CASE Grow
  <2>1. CASE UNCHANGED workers
    BY <1>2, <2>1 DEF Grow, Owned
  <2>2. CASE workers' = [i \in DOMAIN workers \cup {next_index} |->
                           IF i = next_index THEN NewSlot ELSE workers[i]]
    <3>1. next_index \notin DOMAIN workers /\ NewSlot.pid = NoPid /\ UNCHANGED proc
      BY <1>2 DEF Grow, Numbered, NewSlot
    <3> QED
      BY <2>2, <3>1, SupervisorAssumption DEF Owned, Running
  <2> QED
    BY <1>2, <2>1, <2>2 DEF Grow
<1>3. CASE Shrink
  <2>1. CASE UNCHANGED <<workers, proc>>
    BY <2>1 DEF Owned
  <2>2. ASSUME NEW i \in Active, Running(workers[i]),
               workers' = [workers EXCEPT ![i].retiring = TRUE],
               proc' = [proc EXCEPT ![workers[i].pid] = Signalled(proc[workers[i].pid])]
        PROVE  Owned'
    <3>1. /\ DOMAIN workers' = DOMAIN workers
          /\ \A j \in DOMAIN workers : workers'[j].pid = workers[j].pid
      BY <2>2 DEF Typed, Slot
    <3>2. \A p \in Pids : proc'[p].state = "free" <=> proc[p].state = "free"
      BY <2>2, SignalledProcess DEF Typed
    <3> QED
      BY <3>1, <3>2, KeepsOwned
  <2>3. ASSUME NEW i \in Active, ~Running(workers[i]),
               workers' = [j \in DOMAIN workers \ {i} |-> workers[j]], UNCHANGED proc
        PROVE  Owned'
    BY <2>3, SupervisorAssumption DEF Owned, Running
  <2> QED
    BY <1>3, <2>1, <2>2, <2>3, Retires
<1>4. CASE ReapRound \/ ReapStopping
  BY <1>4, ReapOwned DEF ReapRound, ReapStopping
<1>5. CASE StartDue
  <2>1. PICK i \in DOMAIN workers, p \in Pids :
          /\ Due(workers[i]) /\ proc[p].state = "free"
          /\ proc' = [proc EXCEPT ![p].state = "booting"]
          /\ workers' = [workers EXCEPT ![i].pid = p, ![i].restart = "never"]
    BY <1>5, Starts
  <2>2. /\ DOMAIN workers' = DOMAIN workers /\ workers'[i].pid = p
        /\ \A j \in DOMAIN workers : j # i => workers'[j].pid = workers[j].pid
    BY <2>1 DEF Typed, Slot
  <2>3. \A q \in Pids : q # p => proc'[q] = proc[q]
    BY <2>1 DEF Typed
  <2>4. proc'[p].state = "booting"
    BY <2>1 DEF Typed, Process
  <2>5. workers[i].pid = NoPid /\ \A j \in DOMAIN workers : workers[j].pid # p
    BY <2>1, SupervisorAssumption DEF Due, Owned, Running
  <2>6. \A j \in DOMAIN workers' : Running(workers'[j]) => proc'[workers'[j].pid].state # "free"
    BY <2>2, <2>3, <2>4, <2>5, SlotType DEF Owned, Running
  <2>7. \A j, k \in DOMAIN workers' :
          Running(workers'[j]) /\ workers'[j].pid = workers'[k].pid => j = k
    BY <2>2, <2>5 DEF Owned, Running
  <2>8. \A q \in Pids : proc'[q].state # "free" => \E j \in DOMAIN workers' : workers'[j].pid = q
    BY <2>2, <2>3, <2>5, SupervisorAssumption DEF Owned
  <2> QED
    BY <2>6, <2>7, <2>8 DEF Owned
<1>6. CASE KillWorkers
  <2>1. \A i \in DOMAIN workers : [workers[i] EXCEPT !.pid = NoPid].pid = NoPid
    BY DEF Typed, Slot
  <2>2. DOMAIN workers' = DOMAIN workers /\ \A i \in DOMAIN workers' : workers'[i].pid = NoPid
    BY <1>6, <2>1 DEF KillWorkers
  <2>3. \A p \in Pids : proc'[p].state = "free"
    BY <1>6 DEF KillWorkers, Owned, Slots, Free
  <2> QED
    BY <2>2, <2>3 DEF Owned, Running
<1> QED
  BY <1>1, <1>2, <1>3, <1>4, <1>5, <1>6, NextCases

LEMMA KeepsActive ==
  ASSUME Keeps
  PROVE  Active' = Active /\ (SomeRunning' <=> SomeRunning)
BY DEF Keeps, Active, SomeRunning, Slots, Running

LEMMA StaffedInit == Init => Staffed
<1> SUFFICES ASSUME Init PROVE Staffed
  OBVIOUS
<1>1. 1 \in DOMAIN workers /\ ~workers[1].retiring
  BY OptionsTyped DEF Init, NewSlot
<1> QED
  BY <1>1 DEF Staffed, Active

LEMMA StartedSlots ==
  ASSUME Typed, NEW i \in DOMAIN workers, NEW p \in Pids,
         workers' = [workers EXCEPT ![i].pid = p, ![i].restart = "never"]
  PROVE  /\ DOMAIN workers' = DOMAIN workers /\ workers'[i].pid = p
         /\ \A j \in DOMAIN workers :
              /\ j # i => workers'[j] = workers[j]
              /\ workers'[j].retiring = workers[j].retiring
              /\ workers'[j].failures = workers[j].failures /\ workers'[j].clean = workers[j].clean
BY DEF Typed, Slot

LEMMA KilledSlots ==
  ASSUME Typed, KillWorkers
  PROVE  /\ DOMAIN workers' = DOMAIN workers
         /\ \A j \in DOMAIN workers :
              /\ workers'[j].pid = NoPid /\ workers'[j].retiring = workers[j].retiring
              /\ workers'[j].failures = workers[j].failures /\ workers'[j].clean = workers[j].clean
<1>1. \A j \in DOMAIN workers :
        LET s == [workers[j] EXCEPT !.pid = NoPid]
        IN /\ s.pid = NoPid /\ s.retiring = workers[j].retiring
           /\ s.failures = workers[j].failures /\ s.clean = workers[j].clean
  BY DEF Typed, Slot
<1> QED
  BY <1>1 DEF KillWorkers

LEMMA RetiredSlots ==
  ASSUME Typed, NEW i \in DOMAIN workers, workers' = [workers EXCEPT ![i].retiring = TRUE]
  PROVE  /\ DOMAIN workers' = DOMAIN workers /\ workers'[i].retiring
         /\ \A j \in DOMAIN workers :
              /\ j # i => workers'[j] = workers[j]
              /\ workers'[j].pid = workers[j].pid
              /\ workers'[j].failures = workers[j].failures /\ workers'[j].clean = workers[j].clean
BY DEF Typed, Slot

LEMMA StaffedNext ==
  ASSUME Typed, Numbered, Owned, Staffed, [Next]_vars
  PROVE  Staffed'
<1>1. CASE Quiet
  BY <1>1, QuietKeeps, KeepsActive DEF Staffed
<1>2. CASE Grow
  <2>1. CASE UNCHANGED workers
    BY <2>1 DEF Staffed, Active
  <2>2. CASE workers' = [i \in DOMAIN workers \cup {next_index} |->
                           IF i = next_index THEN NewSlot ELSE workers[i]]
    BY <2>2 DEF Staffed, Active, NewSlot
  <2> QED
    BY <1>2, <2>1, <2>2 DEF Grow
<1>3. CASE Shrink
  <2>1. CASE UNCHANGED <<workers, proc>>
    BY <2>1 DEF Staffed, Active
  <2>2. ASSUME NEW i \in Active, MayRetire PROVE \E j \in Active : j # i
    <3>1. Active # {i}
      BY <2>2, FS_Singleton DEF MayRetire
    <3> QED
      BY <3>1
  <2>3. ASSUME NEW i \in Active, MayRetire, workers' = [workers EXCEPT ![i].retiring = TRUE]
        PROVE  Staffed'
    BY <2>2, <2>3, RetiredSlots DEF Staffed, Active
  <2>4. ASSUME NEW i \in Active, MayRetire,
               workers' = [j \in DOMAIN workers \ {i} |-> workers[j]]
        PROVE  Staffed'
    <3>1. PICK j \in Active : j # i
      BY <2>2, <2>4
    <3>2. j \in DOMAIN workers' /\ workers'[j] = workers[j] /\ ~workers[j].retiring
      BY <2>4, <3>1 DEF Active
    <3> QED
      BY <3>2 DEF Staffed, Active
  <2> QED
    BY <1>3, <2>1, <2>3, <2>4, Retires
<1>4. CASE ReapRound \/ ReapStopping
  BY <1>4, Reaps DEF ReapRound, ReapStopping, Staffed, Active
<1>5. CASE StartDue
  BY <1>5, Starts, StartedSlots DEF Staffed, Active
<1>6. CASE KillWorkers
  BY <1>6, KilledSlots DEF Staffed, Active
<1> QED
  BY <1>1, <1>2, <1>3, <1>4, <1>5, <1>6, NextCases

LEMMA EmptiedInit == Init => Emptied
BY DEF Init, Emptied

LEMMA EmptiedNext ==
  ASSUME Typed, Numbered, Emptied, [Next]_vars
  PROVE  Emptied'
<1>1. CASE Top
  <2>1. SomeRunning' <=> SomeRunning
    BY <1>1, QuietKeeps, KeepsActive DEF Quiet
  <2> QED
    BY <1>1, <2>1 DEF Top, Shutdown, Emptied
<1>2. CASE Grow
  <2>1. pc' \notin {"finish", "finished", "raised", "stop", "stopping", "waiting"}
    BY <1>2 DEF Grow
  <2> QED
    BY <2>1 DEF Emptied
<1>3. CASE Shrink
  <2>1. pc' \notin {"finish", "finished", "raised", "stop", "stopping", "waiting"}
    BY <1>3 DEF Shrink
  <2> QED
    BY <2>1 DEF Emptied
<1>4. CASE ReapRound
  BY <1>4 DEF ReapRound, Shutdown, Emptied
<1>5. CASE CheckFailing
  <2>1. SomeRunning' <=> SomeRunning
    BY <1>5, QuietKeeps, KeepsActive DEF Quiet
  <2> QED
    BY <1>5, <2>1 DEF CheckFailing, Shutdown, Emptied
<1>6. CASE StartDue
  <2>1. pc' \notin {"finish", "finished", "raised", "stop", "stopping", "waiting"}
    BY <1>6 DEF StartDue
  <2> QED
    BY <2>1 DEF Emptied
<1>7. CASE EndOfRound
  <2>1. UNCHANGED <<workers, requests>> /\ pc = "start"
        /\ \/ pc' = "top"
           \/ pc' = "stop" /\ ~\E s \in Slots : HasWork(s)
    BY <1>7 DEF EndOfRound
  <2> QED
    BY <2>1 DEF HasWork, SomeRunning, Slots, Shutdown, Emptied
<1>8. CASE Forward
  <2>1. SomeRunning' <=> SomeRunning
    BY <1>8, QuietKeeps, KeepsActive DEF Quiet
  <2>2. /\ UNCHANGED requests /\ pc = "stop"
        /\ \/ Shutdown /\ SomeRunning /\ pc' = "stopping"
           \/ ~(Shutdown /\ SomeRunning) /\ pc' = "finish"
    BY <1>8 DEF Forward
  <2> QED
    BY <2>1, <2>2 DEF Shutdown, Emptied
<1>9. CASE ReapStopping
  BY <1>9 DEF ReapStopping, Shutdown, Emptied
<1>10. CASE WaitForWorkers
  <2>1. SomeRunning' <=> SomeRunning
    BY <1>10, QuietKeeps, KeepsActive DEF Quiet
  <2> QED
    BY <1>10, <2>1 DEF WaitForWorkers, Shutdown, Emptied
<1>11. CASE Finish
  <2>1. SomeRunning' <=> SomeRunning
    BY <1>11, QuietKeeps, KeepsActive DEF Quiet
  <2> QED
    BY <1>11, <2>1 DEF Finish, Shutdown, Emptied
<1>12. CASE SpawnFails
  <2>1. pc' = "stop" /\ requests' > 0
    BY <1>12 DEF SpawnFails, Numbered
  <2> QED
    BY <2>1 DEF Shutdown, Emptied
<1>13. CASE KillWorkers
  <2>1. ~SomeRunning'
    BY <1>13, KilledSlots DEF SomeRunning, Slots, Running
  <2> QED
    BY <1>13, <2>1 DEF KillWorkers, Emptied
<1>14. CASE RequestShutdown
  <2>1. SomeRunning' <=> SomeRunning
    BY <1>14, QuietKeeps, KeepsActive DEF Quiet
  <2>2. UNCHANGED pc /\ requests' > 0
    BY <1>14 DEF RequestShutdown, Numbered
  <2> QED
    BY <2>1, <2>2 DEF Shutdown, Emptied
<1>15. CASE Scale(1)
  <2>1. SomeRunning' <=> SomeRunning
    BY <1>15, QuietKeeps, KeepsActive DEF Quiet
  <2> QED
    BY <1>15, <2>1 DEF Scale, Shutdown, Emptied
<1>16. CASE Scale(-1)
  <2>1. SomeRunning' <=> SomeRunning
    BY <1>16, QuietKeeps, KeepsActive DEF Quiet
  <2> QED
    BY <1>16, <2>1 DEF Scale, Shutdown, Emptied
<1>17. ASSUME NEW i \in DOMAIN workers, BackoffEnds(i) PROVE Emptied'
  <2>1. SomeRunning' <=> SomeRunning
    BY <1>17, QuietKeeps, KeepsActive DEF Quiet
  <2> QED
    BY <1>17, <2>1 DEF BackoffEnds, Shutdown, Emptied
<1>18. ASSUME NEW p \in Pids, Boot(p) PROVE Emptied'
  <2>1. SomeRunning' <=> SomeRunning
    BY <1>18, QuietKeeps, KeepsActive DEF Quiet
  <2> QED
    BY <1>18, <2>1 DEF Boot, Shutdown, Emptied
<1>19. ASSUME NEW p \in Pids, Stabilize(p) PROVE Emptied'
  <2>1. SomeRunning' <=> SomeRunning
    BY <1>19, QuietKeeps, KeepsActive DEF Quiet
  <2> QED
    BY <1>19, <2>1 DEF Stabilize, Shutdown, Emptied
<1>20. ASSUME NEW p \in Pids, Die(p) PROVE Emptied'
  <2>1. SomeRunning' <=> SomeRunning
    BY <1>20, QuietKeeps, KeepsActive DEF Quiet
  <2> QED
    BY <1>20, <2>1 DEF Die, Shutdown, Emptied
<1>21. ASSUME NEW p \in Pids, StopsByItself(p) PROVE Emptied'
  <2>1. SomeRunning' <=> SomeRunning
    BY <1>21, QuietKeeps, KeepsActive DEF Quiet
  <2> QED
    BY <1>21, <2>1 DEF StopsByItself, Shutdown, Emptied
<1>22. CASE UNCHANGED vars
  BY <1>22 DEF Emptied, Shutdown, SomeRunning, Slots, Running
<1> QED
  BY <1>1, <1>2, <1>3, <1>4, <1>5, <1>6, <1>7, <1>8, <1>9, <1>10, <1>11, <1>12, <1>13, <1>14,
    <1>15, <1>16, <1>17, <1>18, <1>19, <1>20, <1>21, <1>22 DEF Next, LoopStep, Ended

LEMMA UnhurriedInit == Init => Unhurried
BY DEF Init, Unhurried, NewSlot, Free

\* Where processes are told to stop by the shutdown, or it is all over.
Leaving == {"stopping", "waiting", "finish", "finished", "raised"}

LEMMA UnhurriedNext ==
  ASSUME Typed, Numbered, Owned, Unhurried, [Next]_vars
  PROVE  Unhurried'
<1> USE DEF Leaving
<1>1. CASE Quiet
  <2>1. Keeps
    BY <1>1, QuietKeeps
  <2>2. UNCHANGED <<scales, pending>> \/ scales' = scales + 1
    <3>1. CASE Scale(1) \/ Scale(-1)
      BY <3>1 DEF Scale
    <3> QED
      BY <1>1, <3>1 DEF Quiet, Top, CheckFailing, EndOfRound, Forward, WaitForWorkers, Finish,
        SpawnFails, RequestShutdown, BackoffEnds, Boot, Stabilize, Die, StopsByItself
  <2>3. (scales > 0 => scales' > 0) /\ (scales' = 0 => UNCHANGED <<scales, pending>>)
    <3>1. scales \in Nat
      BY OptionsTyped DEF Numbered, Typed
    <3> QED
      BY <2>2, <3>1
  <2>4. pc \in Leaving => pc' \in Leaving
    BY <1>1 DEF Quiet, Top, CheckFailing, EndOfRound, Forward, WaitForWorkers, Finish,
      SpawnFails,
      RequestShutdown, Scale, BackoffEnds, Boot, Stabilize, Die, StopsByItself
  <2>5. pc' \in Leaving \/ \A p \in Pids : proc'[p].state = "stopping" => proc[p].state = "stopping"
    <3>1. CASE UNCHANGED proc
      BY <3>1
    <3>2. CASE Forward
      BY <3>2 DEF Forward
    <3>3. ASSUME NEW q \in Pids, Boot(q) \/ Stabilize(q) PROVE <2>5
      BY <3>3 DEF Boot, Stabilize, Typed, Process
    <3>4. ASSUME NEW q \in Pids, Die(q) \/ StopsByItself(q) PROVE <2>5
      <4>1. PICK code \in ProcessCodes : proc' = [proc EXCEPT ![q] = Dead(proc[q], code)]
        BY <3>4, OptionsTyped DEF Die, StopsByItself, Typed, ProcessCodes, Codes
      <4> QED
        BY <4>1, DeadProcess DEF Typed
    <3> QED
      BY <1>1, <3>1, <3>2, <3>3, <3>4 DEF Quiet, Top, CheckFailing, EndOfRound, WaitForWorkers,
        Finish, SpawnFails, RequestShutdown, Scale, BackoffEnds
  <2>6. \A i \in DOMAIN workers' : workers'[i].retiring => scales' > 0
    BY <2>1, <2>3 DEF Keeps, Unhurried
  <2>7. ASSUME NEW p \in Pids, proc'[p].state = "stopping", pc' \notin Leaving
        PROVE  \E i \in DOMAIN workers' : workers'[i].pid = p /\ workers'[i].retiring
    BY <2>1, <2>4, <2>5, <2>7 DEF Keeps, Unhurried
  <2> QED
    BY <2>3, <2>6, <2>7 DEF Unhurried
<1>2. CASE Grow
  <2>1. CASE UNCHANGED <<workers, pending>>
    BY <1>2, <2>1 DEF Grow, Unhurried
  <2>2. CASE workers' = [i \in DOMAIN workers \cup {next_index} |->
                           IF i = next_index THEN NewSlot ELSE workers[i]] /\ pending > 0
    <3>1. /\ next_index \notin DOMAIN workers /\ ~NewSlot.retiring
          /\ UNCHANGED <<pc, proc, scales>>
      BY <1>2, <2>2 DEF Grow, Numbered, NewSlot
    <3>2. \A i \in DOMAIN workers : i \in DOMAIN workers' /\ workers'[i] = workers[i]
      BY <2>2, <3>1
    <3>3. scales > 0
      BY <2>2 DEF Unhurried, Numbered
    <3> QED
      BY <2>2, <3>1, <3>2, <3>3 DEF Unhurried
  <2> QED
    BY <1>2, <2>1, <2>2 DEF Grow
<1>3. CASE Shrink
  <2>1. UNCHANGED scales /\ pc' \notin Leaving /\ pc \notin Leaving
        /\ (pending' = pending \/ pending < 0)
    BY <1>3 DEF Shrink
  <2>2. pending < 0 => scales > 0
    BY DEF Unhurried, Numbered
  <2>3. CASE UNCHANGED <<workers, proc>>
    BY <2>1, <2>2, <2>3 DEF Unhurried, Numbered
  <2>4. ASSUME NEW i \in Active, pending < 0, Running(workers[i]),
               workers' = [workers EXCEPT ![i].retiring = TRUE],
               proc' = [proc EXCEPT ![workers[i].pid] = Signalled(proc[workers[i].pid])]
        PROVE  Unhurried'
    <3>1. \A p \in Pids : p # workers[i].pid => proc'[p] = proc[p]
      BY <2>4 DEF Typed
    <3>2. \A j \in DOMAIN workers : workers[j].retiring => workers'[j].retiring
      BY <2>4, RetiredSlots DEF Active
    <3>3. ASSUME NEW p \in Pids, proc'[p].state = "stopping"
          PROVE  \E j \in DOMAIN workers' : workers'[j].pid = p /\ workers'[j].retiring
      <4>1. CASE p = workers[i].pid
        BY <2>4, <4>1, RetiredSlots DEF Active
      <4>2. CASE p # workers[i].pid
        <5>1. PICK j \in DOMAIN workers : workers[j].pid = p /\ workers[j].retiring
          BY <2>1, <3>1, <3>3, <4>2 DEF Unhurried
        <5> QED
          BY <2>4, <3>2, <5>1, RetiredSlots DEF Active
      <4> QED
        BY <4>1, <4>2
    <3> QED
      BY <2>1, <2>2, <2>4, <3>3 DEF Unhurried
  <2>5. ASSUME NEW i \in Active, pending < 0, ~Running(workers[i]), UNCHANGED proc,
               workers' = [j \in DOMAIN workers \ {i} |-> workers[j]]
        PROVE  Unhurried'
    <3>1. \A j \in DOMAIN workers : workers[j].retiring => j \in DOMAIN workers'
      BY <2>5 DEF Active
    <3> QED
      BY <2>1, <2>2, <2>5, <3>1 DEF Unhurried
  <2> QED
    BY <1>3, <2>3, <2>4, <2>5, Retires
<1>4. CASE ReapRound \/ ReapStopping
  <2>1. UNCHANGED <<scales, pending>> /\ Reap /\ (pc \in Leaving => pc' \in Leaving)
    BY <1>4 DEF ReapRound, ReapStopping
  <2>2. ASSUME NEW p \in Pids, proc'[p].state = "stopping", pc' \notin Leaving
        PROVE  \E i \in DOMAIN workers' : workers'[i].pid = p /\ workers'[i].retiring
    <3>1. proc[p].state = "stopping"
      BY <2>1, <2>2, Reaps DEF Free
    <3>2. PICK i \in DOMAIN workers : workers[i].pid = p /\ workers[i].retiring
      BY <2>1, <2>2, <3>1 DEF Unhurried
    <3>3. ~Exited(workers[i])
      BY <3>1, <3>2 DEF Exited
    <3> QED
      BY <2>1, <3>2, <3>3, Reaps
  <2>3. \A i \in DOMAIN workers' : workers'[i].retiring => scales' > 0
    BY <2>1, Reaps DEF Unhurried
  <2> QED
    BY <2>1, <2>2, <2>3 DEF Unhurried
<1>5. CASE StartDue
  <2>1. PICK i \in DOMAIN workers, p \in Pids :
          /\ Due(workers[i]) /\ proc[p].state = "free"
          /\ proc' = [proc EXCEPT ![p].state = "booting"]
          /\ workers' = [workers EXCEPT ![i].pid = p, ![i].restart = "never"]
    BY <1>5, Starts
  <2>2. UNCHANGED <<scales, pending, pc>> /\ pc \notin Leaving
    BY <1>5 DEF StartDue
  <2>3. \A q \in Pids : proc'[q].state = "stopping" => proc[q].state = "stopping"
    BY <2>1 DEF Typed, Process
  <2>4. \A j \in DOMAIN workers : Running(workers[j]) => workers'[j] = workers[j]
    BY <2>1, StartedSlots DEF Due
  <2>5. \A q \in Pids : proc[q].state = "stopping" =>
          \E j \in DOMAIN workers : workers'[j].pid = q /\ workers'[j].retiring
    BY <2>2, <2>4, SupervisorAssumption DEF Unhurried, Running
  <2>6. DOMAIN workers' = DOMAIN workers
        /\ \A j \in DOMAIN workers : workers'[j].retiring = workers[j].retiring
    BY <2>1, StartedSlots
  <2> QED
    BY <2>2, <2>3, <2>5, <2>6 DEF Unhurried
<1>6. CASE KillWorkers
  BY <1>6, KilledSlots DEF KillWorkers, Unhurried
<1> QED
  BY <1>1, <1>2, <1>3, <1>4, <1>5, <1>6, NextCases

\* Requests and scalings are never taken back, and the command stays what it is.
LEMMA Counts ==
  ASSUME Typed, Numbered, [Next]_vars
  PROVE  /\ options' = options
         /\ requests' \in {requests, requests + 1} /\ scales' \in {scales, scales + 1}
         /\ requests \in Nat /\ scales \in Nat
<1>1. requests \in Nat /\ scales \in Nat
  BY OptionsTyped DEF Numbered, Typed
<1>2. CASE Top \/ CheckFailing \/ EndOfRound \/ Forward \/ WaitForWorkers \/ Finish \/ SpawnFails
  BY <1>1, <1>2 DEF Top, CheckFailing, EndOfRound, Forward, WaitForWorkers, Finish, SpawnFails
<1>3. CASE RequestShutdown \/ Scale(1) \/ Scale(-1) \/ UNCHANGED vars
  BY <1>1, <1>3 DEF RequestShutdown, Scale
<1>4. CASE Grow \/ Shrink \/ ReapRound \/ ReapStopping \/ StartDue \/ KillWorkers
  BY <1>1, <1>4 DEF Grow, Shrink, ReapRound, ReapStopping, StartDue, KillWorkers
<1>5. ASSUME NEW i \in DOMAIN workers, BackoffEnds(i)
      PROVE  UNCHANGED <<options, requests, scales>>
  BY <1>5 DEF BackoffEnds
<1>6. ASSUME NEW p \in Pids, Boot(p) \/ Stabilize(p) \/ Die(p) \/ StopsByItself(p)
      PROVE  UNCHANGED <<options, requests, scales>>
  BY <1>6 DEF Boot, Stabilize, Die, StopsByItself
<1> QED
  BY <1>1, <1>2, <1>3, <1>4, <1>5, <1>6, NextCases DEF Quiet

LEMMA NothingCutInit == Init => NothingCut
BY DEF Init, NothingCut, Free

LEMMA NothingCutNext ==
  ASSUME Typed, Numbered, Owned, Unhurried, NothingCut, [Next]_vars
  PROVE  NothingCut'
<1> SUFFICES ASSUME options'.graceful, ~options'.timeout, requests' <= 1,
                    requests' = 0 \/ scales' = 0
             PROVE  /\ "forced" \notin codes' /\ "killed" \notin codes'
                    /\ \A p \in Pids : proc'[p].code # "forced"
  BY DEF NothingCut
<1>1. options.graceful /\ ~options.timeout /\ requests <= 1 /\ (requests = 0 \/ scales = 0)
  BY Counts
<1>2. /\ "forced" \notin codes /\ "killed" \notin codes
      /\ \A p \in Pids : proc[p].code # "forced"
  BY <1>1 DEF NothingCut
<1>3. \A p \in Pids : proc[p] \in Process /\ proc[p].code # "killed"
  BY DEF Typed, Process, ProcessCodes
<1>4. CASE UNCHANGED <<codes, proc>>
  BY <1>2, <1>4
<1>5. CASE Forward
  <2>1. ASSUME NEW p \in Pids, Shutdown PROVE proc[p].state # "stopping"
    <3>1. scales = 0 /\ pc = "stop"
      BY <1>1, <1>5, <2>1 DEF Forward, Shutdown, Numbered
    <3> QED
      BY <3>1 DEF Unhurried
  <2>2. \A p \in Pids :
          proc'[p] \in {proc[p], Signalled(proc[p])} /\ (proc'[p] # proc[p] => Shutdown)
    BY <1>5 DEF Forward, Typed
  <2>3. UNCHANGED codes
    BY <1>5 DEF Forward
  <2>4. options \in Commands
    BY DEF Typed
  <2>5. ASSUME NEW p \in Pids PROVE proc'[p].code # "forced"
    BY <1>2, <1>3, <2>1, <2>2, <2>4, SignalledProcess
  <2> QED
    BY <1>2, <2>3, <2>5
<1>6. CASE Shrink
  <2>1. ASSUME NEW i \in Active, Running(workers[i]),
               proc' = [proc EXCEPT ![workers[i].pid] = Signalled(proc[workers[i].pid])]
        PROVE  \A p \in Pids : proc'[p].code # "forced"
    <3>1. workers[i].pid \in Pids /\ i \in DOMAIN workers /\ ~workers[i].retiring
      BY <2>1, SlotType DEF Active
    <3>2. proc[workers[i].pid].state # "stopping"
      BY <1>6, <2>1, <3>1 DEF Shrink, Unhurried, Owned
    <3>3. Signalled(proc[workers[i].pid]).code # "forced"
      BY <1>2, <1>3, <3>1, <3>2, SignalledProcess DEF Typed
    <3> QED
      BY <1>2, <2>1, <3>1, <3>3 DEF Typed
  <2>2. UNCHANGED codes
    BY <1>6 DEF Shrink
  <2>3. \A p \in Pids : proc'[p].code # "forced"
    BY <1>2, <1>6, <2>1, Retires
  <2> QED
    BY <1>2, <2>2, <2>3
<1>7. CASE ReapRound \/ ReapStopping
  <2>1. Reap
    BY <1>7 DEF ReapRound, ReapStopping
  <2> QED
    BY <1>2, <1>3, <2>1, Reaps DEF Free
<1>8. CASE StartDue
  <2>1. PICK p \in Pids : proc' = [proc EXCEPT ![p].state = "booting"]
    BY <1>8, Starts
  <2>2. UNCHANGED codes
    BY <1>8 DEF StartDue
  <2>3. \A q \in Pids : proc'[q].code = proc[q].code
    BY <2>1 DEF Typed, Process
  <2> QED
    BY <1>2, <2>2, <2>3
<1>9. CASE KillWorkers
  <2>1. ~MustKill
    BY <1>1, Counts DEF MustKill
  <2> QED
    BY <1>1, <1>9, <2>1 DEF KillWorkers
<1>10. ASSUME NEW q \in Pids, Boot(q) \/ Stabilize(q)
       PROVE  UNCHANGED codes /\ \A p \in Pids : proc'[p].code = proc[p].code
  BY <1>10 DEF Boot, Stabilize, Typed, Process
<1>11. ASSUME NEW q \in Pids, Die(q) \/ StopsByItself(q)
       PROVE  UNCHANGED codes /\ \A p \in Pids : proc'[p].code # "forced"
  <2>1. PICK code \in ProcessCodes \ {"forced"} : proc' = [proc EXCEPT ![q] = Dead(proc[q], code)]
    BY <1>1, <1>11, OptionsTyped DEF Die, StopsByItself, Typed, ProcessCodes, Codes
  <2>2. UNCHANGED codes
    BY <1>11 DEF Die, StopsByItself
  <2>3. Dead(proc[q], code).code # "forced"
    BY <1>3, DeadProcess
  <2> QED
    BY <1>2, <2>1, <2>2, <2>3 DEF Typed
<1>12. CASE Top \/ CheckFailing \/ EndOfRound \/ WaitForWorkers \/ Finish \/ SpawnFails \/ Grow
            \/ RequestShutdown \/ Scale(1) \/ Scale(-1) \/ UNCHANGED vars
  BY <1>4, <1>12 DEF Top, CheckFailing, EndOfRound, WaitForWorkers, Finish, SpawnFails, Grow,
    RequestShutdown, Scale
<1>13. ASSUME NEW i \in DOMAIN workers, BackoffEnds(i) PROVE UNCHANGED <<codes, proc>>
  BY <1>13 DEF BackoffEnds
<1> QED
  BY <1>2, <1>4, <1>5, <1>6, <1>7, <1>8, <1>9, <1>10, <1>11, <1>12, <1>13, NextCases DEF Quiet

\* Without a slot that runs there is no process.
LEMMA NobodyLeft ==
  ASSUME Owned, ~SomeRunning
  PROVE  \A p \in Pids : proc[p].state = "free"
BY SupervisorAssumption DEF Owned, SomeRunning, Slots, Running

LEMMA CrashHeldNext ==
  ASSUME Typed, Numbered, Owned, CrashHeld, [Next]_vars
  PROVE  CrashHeld'
<1>1. ASSUME UNCHANGED crashed, codes \subseteq codes',
             \A p \in Pids : proc[p].state = "dead" /\ proc[p].code = "crash" =>
               \/ proc'[p].state = "dead" /\ proc'[p].code = "crash"
               \/ "crash" \in codes'
      PROVE  CrashHeld'
  BY <1>1 DEF CrashHeld
<1>2. ASSUME Keeps, UNCHANGED <<codes, crashed>> PROVE CrashHeld'
  BY <1>1, <1>2 DEF Keeps
<1>3. CASE Top \/ CheckFailing \/ EndOfRound \/ Forward \/ WaitForWorkers \/ Finish \/ SpawnFails
           \/ RequestShutdown \/ Scale(1) \/ Scale(-1) \/ UNCHANGED vars
  <2>1. UNCHANGED <<codes, crashed>>
    BY <1>3 DEF Top, CheckFailing, EndOfRound, Forward, WaitForWorkers, Finish, SpawnFails,
      RequestShutdown, Scale
  <2> QED
    BY <1>2, <1>3, <2>1, QuietKeeps DEF Quiet
<1>4. ASSUME NEW i \in DOMAIN workers, BackoffEnds(i) PROVE CrashHeld'
  BY <1>4 DEF BackoffEnds, CrashHeld
<1>5. ASSUME NEW p \in Pids, Boot(p) \/ Stabilize(p) \/ StopsByItself(p) PROVE CrashHeld'
  <2>1. UNCHANGED <<codes, crashed>>
    BY <1>5 DEF Boot, Stabilize, StopsByItself
  <2> QED
    BY <1>2, <1>5, <2>1, QuietKeeps DEF Quiet
<1>6. ASSUME NEW p \in Pids, Die(p) PROVE CrashHeld'
  <2>1. PICK code \in ProcessCodes :
          /\ proc' = [proc EXCEPT ![p] = Dead(proc[p], code)]
          /\ crashed' = (crashed \/ code = "crash")
    BY <1>6, OptionsTyped DEF Die, Typed, ProcessCodes, Codes
  <2>2. UNCHANGED codes /\ proc[p].state # "dead"
    BY <1>6 DEF Die, Live
  <2>3. proc'[p].state = "dead" /\ proc'[p].code = code
    BY <2>1, DeadProcess DEF Typed
  <2>4. \A q \in Pids : q # p => proc'[q] = proc[q]
    BY <2>1 DEF Typed
  <2> QED
    BY <2>1, <2>2, <2>3, <2>4 DEF CrashHeld
<1>7. CASE Grow
  BY <1>7 DEF Grow, CrashHeld
<1>8. CASE Shrink
  <2>1. UNCHANGED <<codes, crashed>>
    BY <1>8 DEF Shrink
  <2>2. \A p \in Pids : proc'[p] \in {proc[p], Signalled(proc[p])}
    BY <1>8, Retires DEF Typed
  <2>3. \A p \in Pids : proc[p].state = "dead" => proc'[p] = proc[p]
    BY <2>2, SignalledProcess DEF Typed
  <2> QED
    BY <1>1, <2>1, <2>3
<1>9. CASE ReapRound \/ ReapStopping
  <2>1. Reap /\ UNCHANGED crashed
    BY <1>9 DEF ReapRound, ReapStopping
  <2> QED
    BY <1>1, <2>1, Reaps
<1>10. CASE StartDue
  <2>1. PICK p \in Pids : proc[p].state = "free" /\ proc' = [proc EXCEPT ![p].state = "booting"]
    BY <1>10, Starts
  <2>2. UNCHANGED <<codes, crashed>>
    BY <1>10 DEF StartDue
  <2>3. \A q \in Pids : proc[q].state = "dead" => proc'[q] = proc[q]
    BY <2>1 DEF Typed
  <2> QED
    BY <1>1, <2>2, <2>3
<1>11. CASE KillWorkers
  <2>1. UNCHANGED crashed
    BY <1>11 DEF KillWorkers
  <2>2. codes' = codes \cup {IF proc[s.pid].state = "dead" THEN proc[s.pid].code ELSE "killed" :
                             s \in {x \in Slots : Running(x)}}
    BY <1>11 DEF KillWorkers
  <2>3. ASSUME NEW p \in Pids, proc[p].state = "dead" PROVE proc[p].code \in codes'
    <3>1. PICK i \in DOMAIN workers : workers[i].pid = p
      BY <2>3 DEF Owned
    <3>2. Running(workers[i]) /\ workers[i] \in Slots
      BY <3>1, SupervisorAssumption DEF Running, Slots
    <3> QED
      BY <2>2, <2>3, <3>1, <3>2
  <2> QED
    BY <1>1, <2>1, <2>2, <2>3
<1> QED
  BY <1>3, <1>4, <1>5, <1>6, <1>7, <1>8, <1>9, <1>10, <1>11, NextCases DEF Quiet

LEMMA CrashKeptInit == Init => CrashKept
BY DEF Init, CrashKept, CrashHeld, CrashReported

LEMMA CrashKeptNext ==
  ASSUME Typed, Numbered, Owned, Emptied, CrashKept, [Next]_vars
  PROVE  CrashKept'
<1>1. CrashHeld'
  BY CrashHeldNext DEF CrashKept
<1>2. CASE Finish
  <2>1. SUFFICES ASSUME pc' = "finished", crashed PROVE result' \in {"abnormal", "forced"}
    BY <1>1, <1>2 DEF CrashKept, CrashReported, Finish
  <2>2. \A p \in Pids : proc[p].state = "free"
    BY <1>2, NobodyLeft DEF Finish, Emptied
  <2>3. "crash" \in codes
    BY <2>1, <2>2 DEF CrashKept, CrashHeld
  <2>4. Combined = "abnormal"
    BY <2>3 DEF Combined
  <2> QED
    BY <1>2, <2>1, <2>4 DEF Finish
<1>3. CASE pc = "finished"
  <2>1. \A p \in Pids : proc[p].state = "free"
    BY <1>3, NobodyLeft DEF Emptied
  <2>2. UNCHANGED <<pc, result, crashed>>
    <3>1. CASE UNCHANGED vars
      BY <3>1
    <3>2. ASSUME NEW i \in DOMAIN workers, BackoffEnds(i) PROVE <2>2
      BY <3>2 DEF BackoffEnds
    <3>3. ASSUME NEW p \in Pids, Boot(p) \/ Stabilize(p) \/ Die(p) \/ StopsByItself(p) PROVE <2>2
      BY <2>1, <3>3 DEF Boot, Stabilize, Die, StopsByItself, Live
    <3>4. CASE Scale(1) \/ Scale(-1) \/ RequestShutdown
      BY <1>3, <3>4 DEF Scale, RequestShutdown
    <3>5. CASE Top \/ CheckFailing \/ EndOfRound \/ Forward \/ WaitForWorkers \/ Finish \/ SpawnFails
      BY <1>3, <3>5 DEF Top, CheckFailing, EndOfRound, Forward, WaitForWorkers, Finish,
        SpawnFails
    <3>6. CASE Grow \/ Shrink \/ ReapRound \/ ReapStopping \/ StartDue \/ KillWorkers
      BY <1>3, <3>6 DEF Grow, Shrink, ReapRound, ReapStopping, StartDue, KillWorkers
    <3> QED
      BY <3>1, <3>2, <3>3, <3>4, <3>5, <3>6, NextCases DEF Quiet
  <2> QED
    BY <1>1, <2>2 DEF CrashKept, CrashReported
<1>4. CASE pc # "finished" /\ ~Finish
  <2>1. pc' # "finished"
    <3>1. CASE UNCHANGED pc
      BY <1>4, <3>1
    <3>2. CASE Top \/ CheckFailing \/ EndOfRound \/ Forward \/ WaitForWorkers \/ SpawnFails
      BY <3>2 DEF Top, CheckFailing, EndOfRound, Forward, WaitForWorkers, SpawnFails
    <3>3. CASE Grow \/ Shrink \/ ReapRound \/ ReapStopping \/ StartDue \/ KillWorkers
      BY <1>4, <3>3 DEF Grow, Shrink, ReapRound, ReapStopping, StartDue, KillWorkers
    <3>4. ASSUME NEW i \in DOMAIN workers, BackoffEnds(i) PROVE UNCHANGED pc
      BY <3>4 DEF BackoffEnds
    <3>5. ASSUME NEW p \in Pids, Boot(p) \/ Stabilize(p) \/ Die(p) \/ StopsByItself(p)
          PROVE  UNCHANGED pc
      BY <3>5 DEF Boot, Stabilize, Die, StopsByItself
    <3>6. CASE Scale(1) \/ Scale(-1) \/ RequestShutdown \/ UNCHANGED vars
      BY <3>1, <3>6 DEF Scale, RequestShutdown
    <3> QED
      BY <1>4, <3>1, <3>2, <3>3, <3>4, <3>5, <3>6, NextCases DEF Quiet
  <2> QED
    BY <1>1, <2>1 DEF CrashKept, CrashReported
<1> QED
  BY <1>2, <1>3, <1>4

LEMMA CleanIsNewInit == Init => CleanIsNew
BY DEF Init, CleanIsNew, NewSlot

\* Only _check_failing moves on from the check, and only it looks for an outage.
LEMMA QuietChecks ==
  ASSUME Quiet, ~CheckFailing, Typed, Numbered, ~Shutdown'
  PROVE  /\ UNCHANGED failing /\ ~Shutdown /\ (pc = "check" => pc' = "check")
         /\ pc' = "start" => pc = "start"
<1>1. [Next]_vars
  BY DEF Quiet, Next, LoopStep
<1>2. ~Shutdown
  BY <1>1, Counts DEF Shutdown
<1>3. CASE Top \/ EndOfRound \/ Forward \/ WaitForWorkers \/ Finish \/ SpawnFails
  BY <1>2, <1>3 DEF Top, EndOfRound, Forward, WaitForWorkers, Finish, SpawnFails
<1>4. CASE RequestShutdown \/ Scale(1) \/ Scale(-1) \/ UNCHANGED vars
  BY <1>2, <1>4 DEF RequestShutdown, Scale
<1>5. ASSUME NEW i \in DOMAIN workers, BackoffEnds(i) PROVE UNCHANGED <<pc, failing>>
  BY <1>5 DEF BackoffEnds
<1>6. ASSUME NEW p \in Pids, Boot(p) \/ Stabilize(p) \/ Die(p) \/ StopsByItself(p)
      PROVE  UNCHANGED <<pc, failing>>
  BY <1>6 DEF Boot, Stabilize, Die, StopsByItself
<1> QED
  BY <1>2, <1>3, <1>4, <1>5, <1>6 DEF Quiet

\* What the steps that are not quiet leave of a slot.
LEMMA KeptFailures ==
  ASSUME Typed, Numbered, Owned, Shrink \/ StartDue \/ KillWorkers
  PROVE  /\ DOMAIN workers' \subseteq DOMAIN workers
         /\ \A i \in DOMAIN workers' :
              /\ workers'[i].failures = workers[i].failures /\ workers'[i].clean = workers[i].clean
              /\ ~workers'[i].retiring => ~workers[i].retiring
<1>1. CASE Shrink
  <2>1. CASE UNCHANGED <<workers, proc>>
    BY <2>1
  <2>2. ASSUME NEW i \in Active, workers' = [workers EXCEPT ![i].retiring = TRUE]
        PROVE  /\ DOMAIN workers' = DOMAIN workers
               /\ \A j \in DOMAIN workers :
                    /\ workers'[j].failures = workers[j].failures
                    /\ workers'[j].clean = workers[j].clean
                    /\ ~workers'[j].retiring => ~workers[j].retiring
    BY <2>2, RetiredSlots DEF Active
  <2>3. ASSUME NEW i \in Active, workers' = [j \in DOMAIN workers \ {i} |-> workers[j]]
        PROVE  /\ DOMAIN workers' \subseteq DOMAIN workers
               /\ \A j \in DOMAIN workers' : workers'[j] = workers[j]
    BY <2>3
  <2> QED
    BY <1>1, <2>1, <2>2, <2>3, Retires
<1>2. CASE StartDue
  <2>1. PICK i \in DOMAIN workers, p \in Pids :
          workers' = [workers EXCEPT ![i].pid = p, ![i].restart = "never"]
    BY <1>2, Starts
  <2>2. /\ DOMAIN workers' = DOMAIN workers
        /\ \A j \in DOMAIN workers :
             /\ workers'[j].retiring = workers[j].retiring
             /\ workers'[j].failures = workers[j].failures /\ workers'[j].clean = workers[j].clean
    BY <2>1, StartedSlots
  <2> QED
    BY <2>2, Zenon
<1>3. CASE KillWorkers
  BY <1>3, KilledSlots
<1> QED
  BY <1>1, <1>2, <1>3

LEMMA CleanIsNewNext ==
  ASSUME Typed, Numbered, Owned, Emptied, CleanIsNew, [Next]_vars
  PROVE  CleanIsNew'
<1>1. options' = options /\ (~Shutdown' => ~Shutdown)
  BY Counts DEF Shutdown
<1>2. CASE CheckFailing
  <2>1. Keeps
    BY <1>2, QuietKeeps DEF Quiet
  <2>2. \A i \in DOMAIN workers : [workers[i] EXCEPT !.clean = FALSE].clean = FALSE
    BY DEF Typed, Slot
  <2>3. failing' => \A i \in Active : ~workers'[i].clean
    BY <1>2, <2>2 DEF CheckFailing, Active
  <2> QED
    BY <1>1, <2>1, <2>3, KeepsActive DEF CleanIsNew, Keeps
<1>3. CASE Quiet /\ ~CheckFailing
  <2>1. Keeps /\ Active' = Active
    BY <1>3, QuietKeeps, KeepsActive
  <2>2. ~options'.restart => \A i \in DOMAIN workers' : workers'[i].failures = 0
    BY <1>1, <2>1 DEF CleanIsNew, Keeps
  <2>3. ASSUME failing', ~Shutdown', NEW i \in Active', workers'[i].clean
        PROVE  pc' = "check" /\ workers'[i].failures = 0
    <3>1. failing /\ ~Shutdown /\ (pc = "check" => pc' = "check")
      BY <1>3, <2>3, QuietChecks
    <3>2. i \in Active /\ i \in DOMAIN workers
      BY <2>1, <2>3 DEF Active
    <3> QED
      BY <2>1, <2>3, <3>1, <3>2 DEF CleanIsNew, Keeps
  <2> QED
    BY <2>2, <2>3 DEF CleanIsNew
<1>4. CASE Grow
  <2>1. CASE UNCHANGED workers
    BY <1>4, <2>1 DEF Grow, CleanIsNew, Active, Shutdown
  <2>2. CASE workers' = [i \in DOMAIN workers \cup {next_index} |->
                           IF i = next_index THEN NewSlot ELSE workers[i]]
    <3>1. /\ next_index \notin DOMAIN workers /\ NewSlot.failures = 0 /\ ~NewSlot.clean
          /\ UNCHANGED <<failing, requests>> /\ pc = "grow"
      BY <1>4 DEF Grow, Numbered, NewSlot
    <3>2. /\ workers'[next_index] = NewSlot
          /\ \A i \in DOMAIN workers : workers'[i] = workers[i]
          /\ DOMAIN workers' = DOMAIN workers \cup {next_index}
      BY <2>2, <3>1
    <3> QED
      BY <1>1, <3>1, <3>2 DEF CleanIsNew, Active, Shutdown
  <2> QED
    BY <1>4, <2>1, <2>2 DEF Grow
<1>5. CASE Shrink \/ StartDue \/ KillWorkers
  <2>1. UNCHANGED failing /\ pc # "check" /\ (pc = "waiting" \/ ~KillWorkers)
    BY <1>5 DEF Shrink, StartDue, KillWorkers
  <2>2. ~options'.restart => \A i \in DOMAIN workers' : workers'[i].failures = 0
    BY <1>1, <1>5, KeptFailures DEF CleanIsNew
  <2>3. ASSUME failing', ~Shutdown', NEW i \in Active' PROVE ~workers'[i].clean
    <3>1. i \in DOMAIN workers' /\ i \in Active
      BY <1>5, <2>3, KeptFailures DEF Active
    <3>2. workers'[i].clean = workers[i].clean
      BY <1>5, <3>1, KeptFailures
    <3> QED
      BY <1>1, <2>1, <2>3, <3>1, <3>2 DEF CleanIsNew
  <2> QED
    BY <2>2, <2>3 DEF CleanIsNew
<1>6. CASE ReapRound \/ ReapStopping
  <2>1. /\ Reap /\ UNCHANGED failing /\ (ReapStopping => pc = "stopping")
        /\ ReapRound => pc = "reap" /\ pc' = "check"
    BY <1>6 DEF ReapRound, ReapStopping
  <2>2. \A i \in DOMAIN workers : Exited(workers[i]) =>
          workers[i] \in Slot /\ workers[i].pid \in Pids
    BY SlotType DEF Exited
  <2>3. \A i \in DOMAIN workers' : i \in DOMAIN workers
    BY <2>1, Reaps
  <2>4. ASSUME ~options.restart, NEW i \in DOMAIN workers' PROVE workers'[i].failures = 0
    BY <2>1, <2>2, <2>3, <2>4, Reaps, ReapedSlot DEF CleanIsNew
  <2>5. ASSUME failing', ~Shutdown', NEW i \in Active', workers'[i].clean
        PROVE  pc' = "check" /\ workers'[i].failures = 0
    <3>1. ~Shutdown /\ failing /\ pc = "reap" /\ pc' = "check"
      BY <1>1, <1>6, <2>1, <2>5 DEF Emptied
    <3>2. i \in DOMAIN workers' /\ i \in DOMAIN workers /\ i \in Active
      BY <2>1, <2>3, <2>5, Reaps DEF Active
    <3>3. ~workers[i].clean
      BY <3>1, <3>2 DEF CleanIsNew
    <3>4. Exited(workers[i]) /\ workers'[i] = Reaped(workers[i])
      BY <2>1, <2>5, <3>2, <3>3, Reaps
    <3>5. proc[workers[i].pid].code = "ok"
      BY <2>2, <2>5, <3>2, <3>3, <3>4, ReapedSlot
    <3>6. options.restart => workers'[i].failures = 0
      BY <2>2, <3>1, <3>2, <3>4, <3>5, ReapedSlot
    <3> QED
      BY <2>4, <3>1, <3>2, <3>6
  <2> QED
    BY <1>1, <2>4, <2>5 DEF CleanIsNew
<1> QED
  BY <1>2, <1>3, <1>4, <1>5, <1>6, NextCases

LEMMA OutageToldInit == Init => OutageTold
BY DEF Init, OutageTold

LEMMA OutageToldNext ==
  ASSUME Typed, Numbered, Owned, CleanIsNew, OutageTold, [Next]_vars
  PROVE  OutageTold'
<1> SUFFICES ASSUME pc' = "start", ~failing', ~Shutdown'
             PROVE  \E i \in Active' : ~IsFailing(workers[i])'
  BY DEF OutageTold
<1>1. ~Shutdown
  BY Counts DEF Shutdown
<1>2. CASE CheckFailing
  <2>1. Keeps /\ Active' = Active /\ UNCHANGED proc
    BY <1>2, QuietKeeps, KeepsActive DEF Quiet, CheckFailing
  <2>2. \A i \in Active : IsFailing(workers[i])' <=> IsFailing(workers[i])
    BY <2>1 DEF IsFailing, Stable, Running, Keeps, Active
  <2>3. CASE ~failing
    BY <1>2, <2>1, <2>2, <2>3 DEF CheckFailing
  <2>4. CASE failing
    <3>1. PICK i \in Active : Stable(workers[i]) \/ workers[i].clean
      BY <1>2, <2>4 DEF CheckFailing
    <3>2. workers[i].clean => workers[i].failures = 0
      BY <1>1, <2>4, <3>1 DEF CleanIsNew
    <3>3. ~IsFailing(workers[i])
      BY <3>1, <3>2 DEF IsFailing
    <3> QED
      BY <2>1, <2>2, <3>1, <3>3
  <2> QED
    BY <2>3, <2>4
<1>3. CASE Quiet /\ ~CheckFailing
  <2>1. Keeps /\ Active' = Active
    BY <1>3, QuietKeeps, KeepsActive
  <2>2. UNCHANGED failing /\ pc = "start"
    BY <1>3, QuietChecks
  <2>3. PICK i \in Active : ~IsFailing(workers[i])
    BY <1>1, <2>2 DEF OutageTold
  <2>4. ~IsFailing(workers[i])'
    BY <2>1, <2>3, SlotType DEF IsFailing, Stable, Running, Keeps, Active
  <2> QED
    BY <2>1, <2>3, <2>4
<1>4. CASE StartDue
  <2>1. PICK i \in DOMAIN workers, p \in Pids :
          /\ Due(workers[i]) /\ proc[p].state = "free"
          /\ proc' = [proc EXCEPT ![p].state = "booting"]
          /\ workers' = [workers EXCEPT ![i].pid = p, ![i].restart = "never"]
    BY <1>4, Starts
  <2>2. UNCHANGED failing /\ pc = "start"
    BY <1>4 DEF StartDue
  <2>3. PICK j \in Active : ~IsFailing(workers[j])
    BY <1>1, <2>2 DEF OutageTold
  <2>4. /\ DOMAIN workers' = DOMAIN workers
        /\ workers'[j].retiring = workers[j].retiring /\ workers'[j].failures = workers[j].failures
        /\ j # i => workers'[j] = workers[j]
    BY <2>1, <2>3, StartedSlots DEF Active
  <2>5. j \in Active'
    BY <2>3, <2>4 DEF Active
  <2>6. CASE ~Running(workers[j])
    <3>1. workers'[j].failures = 0
      BY <2>3, <2>4, <2>6, SlotType DEF IsFailing, Stable, Slot, Active
    <3> QED
      BY <2>5, <3>1 DEF IsFailing
  <2>7. CASE Running(workers[j])
    <3>1. j # i /\ workers[j].pid \in Pids /\ workers[j].pid # p
      BY <2>1, <2>3, <2>7, SlotType DEF Due, Owned, Active
    <3>2. proc'[workers[j].pid] = proc[workers[j].pid]
      BY <2>1, <3>1
    <3> QED
      BY <2>3, <2>4, <2>5, <3>1, <3>2 DEF IsFailing, Stable, Running
  <2> QED
    BY <2>6, <2>7
<1>5. CASE Grow \/ Shrink \/ ReapRound \/ ReapStopping \/ KillWorkers
  BY <1>5 DEF Grow, Shrink, ReapRound, ReapStopping, KillWorkers
<1> QED
  BY <1>2, <1>3, <1>4, <1>5, NextCases

LEMMA OrderlyInit == Init => Orderly
BY TypedInit, NumberedInit, OwnedInit, StaffedInit, EmptiedInit, UnhurriedInit, NothingCutInit,
  CrashKeptInit, CleanIsNewInit, OutageToldInit DEF Orderly

LEMMA OrderlyNext ==
  ASSUME Orderly, [Next]_vars
  PROVE  Orderly'
<1> USE DEF Orderly
<1>1. Typed' /\ Numbered' /\ Owned'
  BY TypedNext, NumberedNext, OwnedNext
<1>2. Staffed' /\ Emptied' /\ Unhurried'
  BY StaffedNext, EmptiedNext, UnhurriedNext
<1>3. NothingCut' /\ CrashKept' /\ CleanIsNew' /\ OutageTold'
  BY NothingCutNext, CrashKeptNext, CleanIsNewNext, OutageToldNext
<1> QED
  BY <1>1, <1>2, <1>3

\* The invariant holds for any number of workers, slots and signals.
THEOREM AlwaysOrderly == Spec => []Orderly
BY OrderlyInit, OrderlyNext, PTL DEF Spec

-----------------------------------------------------------------------------

\* Every variable of the supervisor has its type, and the slots their bound.
THEOREM SupervisorTypeOK == Spec => []TypeOK
<1>1. Orderly => TypeOK
  <2> SUFFICES ASSUME Orderly PROVE TypeOK
    OBVIOUS
  <2> USE DEF Orderly
  <2>1. proc \in [Pids -> [state: {"free", "dead"} \cup Live, code: Codes, stable: BOOLEAN]]
    BY DEF Typed, Process, ProcessCodes
  <2>2. next_index \in 2 .. MaxWorkers + 1
    BY OptionsTyped, SupervisorAssumption DEF Numbered, Typed
  <2>3. DOMAIN workers \subseteq 1 .. MaxWorkers
    BY <2>2, SupervisorAssumption DEF Numbered
  <2>4. workers \in [DOMAIN workers -> Slot] /\ {failing, forced, crashed} \subseteq BOOLEAN
    BY DEF Typed
  <2>5. /\ options \in Commands /\ codes \subseteq Codes
        /\ pc \in {"top", "grow", "shrink", "reap", "check", "start", "stop", "stopping",
                   "waiting", "finish", "finished", "raised"}
        /\ result \in {"none", "exception", "forced", "abnormal", "failed", "empty", "ok"}
    BY DEF Typed
  <2>6. /\ pending \in Int /\ requests \in Nat
        /\ signals \in 0 .. options.max_signals /\ scales \in 0 .. options.max_scale
    BY DEF Numbered
  <2> QED
    BY <2>1, <2>2, <2>3, <2>4, <2>5, <2>6 DEF TypeOK
<1> QED
  BY <1>1, AlwaysOrderly, PTL

\* Every process has the one slot it belongs to, none is left when run() is
\* over, and the last slot is never retired.
THEOREM SlotsAlwaysKept == Spec => []SlotsKept
<1>1. Orderly => SlotsKept
  <2> SUFFICES ASSUME Orderly PROVE SlotsKept
    OBVIOUS
  <2> USE DEF Orderly
  <2>1. ASSUME NEW p \in Pids, proc[p].state # "free"
        PROVE  Cardinality({i \in DOMAIN workers : workers[i].pid = p}) = 1
    <3>1. PICK i \in DOMAIN workers : workers[i].pid = p
      BY <2>1 DEF Owned
    <3>2. {j \in DOMAIN workers : workers[j].pid = p} = {i}
      BY <3>1, SupervisorAssumption DEF Owned, Running
    <3> QED
      BY <3>2, FS_Singleton
  <2>2. Over => \A p \in Pids : proc[p].state = "free"
    BY NobodyLeft DEF Over, Emptied
  <2>3. Cardinality(Active) >= 1
    <3>1. IsFiniteSet(Active)
      <4>1. IsFiniteSet(1 .. next_index - 1)
        BY FS_Interval DEF Numbered
      <4>2. Active \subseteq 1 .. next_index - 1
        BY DEF Active, Numbered
      <4> QED
        BY <4>1, <4>2, FS_Subset
    <3>2. Cardinality(Active) \in Nat /\ Cardinality(Active) # 0
      BY <3>1, FS_CardinalityType, FS_EmptySet DEF Staffed
    <3> QED
      BY <3>2
  <2> QED
    BY <2>1, <2>2, <2>3 DEF SlotsKept, NoOrphans, LastWorkerKept
<1> QED
  BY <1>1, AlwaysOrderly, PTL

\* With one reason to stop and no timeout no worker is killed and none gives
\* its task up, whenever that reason comes.
THEOREM NothingEverCut == Spec => []NothingCut
BY AlwaysOrderly, PTL DEF Orderly

\* No order of exits, scaling and shutdown hides a crash from the exit code.
THEOREM CrashAlwaysReported == Spec => []CrashReported
<1>1. Orderly => CrashReported
  BY DEF Orderly, CrashKept
<1> QED
  BY <1>1, AlwaysOrderly, PTL

\* An outage is told as soon as it is looked at.
THEOREM OutageAlwaysTold == Spec => []OutageTold
BY AlwaysOrderly, PTL DEF Orderly
=============================================================================
