-------------------------- MODULE WorkerLoopProofs --------------------------
(***************************************************************************)
(* Proofs about WorkerLoop: its slots are accounted for, it never starts   *)
(* more than --max-tasks allow, and what it reports is what it did, for    *)
(* any number of executors and any options.                                *)
(***************************************************************************)
EXTENDS WorkerLoop, FiniteSetTheorems, TLAPS

Size == Cardinality(Threads)
Handed == {e \in Threads : inbox[e] \in {"claimed", "message"}}
Held == {e \in Threads : thread[e] \in {"running", "missing"}}
Ran == {e \in Threads : thread[e] = "running"}

\* TypeOK, by what the parts are of, without the bounds on what is out, which
\* follow from the rest.
TypedMain ==
  /\ options \in Commands /\ limit \in Nat
  /\ pc \in {"start", "top", "collected", "full", "poll", "wait", "messages", "fetch", "row",
             "idle", "drain", "stop", "join", "ended"}
  /\ round.hand \in Nat /\ round.count \in Nat /\ round.from \in {"poll", "wait"}
  /\ round = [hand |-> round.hand, count |-> round.count, from |-> round.from]
  /\ slot \in Threads \cup {NoThread}
  /\ processed \in Nat /\ busy \in Nat /\ shutdown \in BOOLEAN

TypedQueues ==
  /\ idle \subseteq Threads
  /\ inbox \in [Threads -> {"empty", "claimed", "message", "stop"}]
  /\ thread \in [Threads -> {"waiting", "running", "missing", "reported", "exited"}]
  /\ results.counted \in Nat /\ results.other \in Nat
  /\ results = [counted |-> results.counted, other |-> results.other]

TypedReport ==
  /\ failing \subseteq Held
  /\ failed \in BOOLEAN /\ trouble \in BOOLEAN
  /\ exit_code \in {"none", "ok", "failed", "empty", "refused", "raised", "exited"}
  /\ table \in Nat /\ messages \in Nat /\ started \in Nat
  /\ arrivals \in 0 .. options.max_arrivals

Typed == TypedMain /\ TypedQueues /\ TypedReport

\* Where an executor may be: an idle one waits with an empty inbox, and so
\* does the one acquired for a row, which is not idle; one that has a job in
\* its inbox waits and is not idle.
Placed ==
  /\ \A e \in idle : thread[e] \in {"waiting", "exited"} /\ inbox[e] \in {"empty", "stop"}
  /\ \A e \in Handed : thread[e] = "waiting" /\ e \notin idle
  /\ slot # NoThread =>
       /\ pc = "row" /\ slot \notin idle
       /\ inbox[slot] = "empty" /\ thread[slot] = "waiting"
  /\ pc = "row" /\ ~Inline => slot # NoThread
  /\ pc \notin {"join", "ended"} =>
       \A e \in Threads : inbox[e] # "stop" /\ thread[e] # "exited"
  /\ pc \in {"start", "join", "ended"} => Handed = {}

\* Whoever hands out a job finds an executor that is free.
Room ==
  /\ pc = "messages" /\ ~Inline => round.hand <= Cardinality(idle) /\ round.hand <= round.count
  /\ pc \in {"poll", "fetch"} /\ ~Inline => idle # {}
  /\ pc = "messages" /\ round.from = "poll" /\ round.count = 0 /\ ~Inline => idle # {}

\* busy and what it stands for, by name.
Balanced == busy = Cardinality(Handed) + Cardinality(Held) + results.counted + results.other

\* What is out when the loop looks for work is no more than the executors.
Few ==
  /\ pc \in {"start", "collected", "full", "poll", "wait", "fetch", "row", "idle"} => busy <= Size
  /\ pc = "messages" => busy + (IF Inline THEN 0 ELSE round.hand) <= 2 * Size
  /\ pc = "messages" /\ round.count = 0 => busy <= Size
  /\ busy <= 2 * Size

\* A loop that looks for work has not reached its limit with what is out, and
\* one with messages in hand reaches it at most.
UnderLimit ==
  limit > 0 =>
    /\ processed + busy <= limit
    /\ pc \in {"top", "collected", "full", "poll", "wait", "fetch", "row", "idle"} =>
         processed + busy < limit
    /\ pc = "messages" =>
         processed + busy + round.hand + (IF Inline THEN round.count ELSE 0) <= limit

LimitSet ==
  /\ pc # "start" /\ exit_code # "refused" => 
        IF options.max_tasks = 0 THEN limit = 0
        ELSE limit \in options.max_tasks .. options.max_tasks + options.max_tasks_jitter
  /\ pc = "start" \/ exit_code = "refused" =>
       limit = 0 /\ started = 0 /\ processed = 0 /\ busy = 0
  /\ pc = "start" => exit_code = "none"
  /\ exit_code = "refused" => pc = "ended"

\* Each task that was started is counted once it is reported.
Counts == ~options.raises /\ ~options.purged /\ (options.exits => Inline)
Counted ==
  Counts =>
    /\ exit_code # "exited" =>
         started = processed + results.counted + Cardinality(Ran)
                   + (IF pc = "messages" /\ Inline THEN round.count ELSE 0)
    /\ exit_code = "exited" /\ limit > 0 => started <= limit

Finished ==
  /\ exit_code = "exited" => options.exits /\ pc \in {"stop", "join", "ended"}
  /\ exit_code = "raised" => options.raises /\ pc \in {"stop", "join", "ended"}
  /\ pc \notin {"stop", "join", "ended"} => exit_code = "none"
  /\ pc \in {"stop", "join"} => exit_code \in {"none", "raised", "exited"}
  /\ pc = "ended" => exit_code # "none"
  /\ pc \in {"stop", "join", "ended"} /\ exit_code \notin {"raised", "exited"} => busy = 0

\* What is reported is what went wrong, but for a failure whose row is gone.
Told ==
  /\ failed \/ failing # {} => trouble
  /\ trouble => failed \/ failing # {} \/ options.purged

Reported ==
  /\ pc = "ended" /\ exit_code # "refused" => \A e \in Threads : thread[e] = "exited"
  /\ pc = "ended" /\ exit_code \notin {"refused", "raised", "exited"} => exit_code = ExitCode

Orderly ==
  /\ Typed /\ Placed /\ Room /\ Balanced /\ Few /\ LimitSet /\ UnderLimit
  /\ Counted /\ Finished /\ Told /\ Reported

USE DEF vars, command, main, queues, report, world, Goto

LEMMA OptionsTyped ==
  ASSUME options \in Commands
  PROVE  /\ Threads \subseteq Executors /\ NoThread \notin Threads
         /\ options.sqlite \in BOOLEAN /\ options.max_messages \in Int
         /\ options.continuous \in BOOLEAN /\ options.wait_time \in BOOLEAN
         /\ options.max_tasks \in Nat /\ options.max_tasks_jitter \in Int
         /\ options.fails \in BOOLEAN /\ options.raises \in BOOLEAN
         /\ options.exits \in BOOLEAN /\ options.purged \in BOOLEAN
         /\ options.max_arrivals \in Nat
BY LoopAssumption DEF Threads

LEMMA SameThreads == UNCHANGED options => UNCHANGED <<Threads, Inline>>
BY DEF Threads, Inline

LEMMA Sizes ==
  ASSUME Typed
  PROVE  /\ IsFiniteSet(Threads) /\ IsFiniteSet(idle)
         /\ IsFiniteSet(Handed) /\ IsFiniteSet(Held) /\ IsFiniteSet(Ran)
         /\ Size \in Nat /\ Cardinality(idle) \in Nat /\ Cardinality(Handed) \in Nat
         /\ Cardinality(Held) \in Nat /\ Cardinality(Ran) \in Nat
         /\ Cardinality(idle) <= Size /\ Cardinality(Ran) <= Cardinality(Held)
         /\ Handed = {} <=> Cardinality(Handed) = 0
         /\ Held = {} <=> Cardinality(Held) = 0
         /\ idle = {} <=> Cardinality(idle) = 0
<1>1. IsFiniteSet(Threads)
  BY OptionsTyped, LoopAssumption, FS_Subset DEF Typed, TypedMain
<1>2. /\ Handed \subseteq Threads /\ Held \subseteq Threads /\ Ran \subseteq Held
      /\ idle \subseteq Threads
  BY DEF Handed, Held, Ran, Typed, TypedQueues
<1>3. IsFiniteSet(Held) /\ IsFiniteSet(Handed) /\ IsFiniteSet(idle)
  BY <1>1, <1>2, FS_Subset
<1>4. IsFiniteSet(Ran) /\ Cardinality(Ran) <= Cardinality(Held)
  BY <1>2, <1>3, FS_Subset
<1>5. Cardinality(idle) <= Size
  BY <1>1, <1>2, FS_Subset DEF Size
<1> QED
  BY <1>1, <1>3, <1>4, <1>5, FS_CardinalityType, FS_EmptySet DEF Size

LEMMA TypedInit == Init => Typed
<1> SUFFICES ASSUME Init PROVE Typed
  OBVIOUS
<1>1. TypedMain
  BY DEF Init, TypedMain
<1>2. TypedQueues
  BY DEF Init, TypedQueues
<1>3. TypedReport
  <2>1. arrivals \in 0 .. options.max_arrivals
    BY OptionsTyped DEF Init
  <2> QED
    BY <2>1 DEF Init, TypedReport
<1> QED
  BY <1>1, <1>2, <1>3 DEF Typed

LEMMA RemainingTyped ==
  ASSUME Typed
  PROVE  Remaining \in Int /\ Limit \in Int
BY OptionsTyped, Sizes DEF Remaining, Limit, Least, Typed, TypedMain

LEMMA TypedMainNext ==
  ASSUME Typed, Balanced, [Next]_vars
  PROVE  TypedMain'
<1>1. CASE Arrive
  BY <1>1, OptionsTyped, SameThreads DEF Arrive, Typed, TypedMain
<1>2. CASE TakenByAnother
  BY <1>2, OptionsTyped, SameThreads DEF TakenByAnother, Typed, TypedMain
<1>3. CASE RequestShutdown
  BY <1>3, OptionsTyped, SameThreads DEF RequestShutdown, Typed, TypedMain
<1>4. CASE StartLoop
  BY <1>4, OptionsTyped, SameThreads DEF StartLoop, Typed, TypedMain
<1>5. CASE Top
  BY <1>5, Sizes, SameThreads DEF Top, Collect, Balanced, Typed, TypedMain, TypedQueues
<1>6. CASE FindWork
  BY <1>6, OptionsTyped, SameThreads DEF FindWork, Typed, TypedMain
<1>7. CASE Full
  BY <1>7, Sizes, SameThreads DEF Full, Collect, Balanced, Typed, TypedMain, TypedQueues
<1>8. CASE Receive
  BY <1>8, OptionsTyped, SameThreads DEF Receive, Least, Remaining, Limit, Typed, TypedMain
<1>9. CASE HandOut
  BY <1>9, OptionsTyped, SameThreads DEF HandOut, Submit, Typed, TypedMain
<1>10. CASE RunMessage
  <2>1. PICK n \in Nat : round' = [round EXCEPT !.hand = @ - 1, !.count = @ + n]
    <3>1. PICK counts \in BOOLEAN :
            round' = [round EXCEPT !.hand = @ - 1, !.count = @ + (IF counts THEN 1 ELSE 0)]
      BY <1>10 DEF RunMessage
    <3>2. (IF counts THEN 1 ELSE 0) \in Nat
      OBVIOUS
    <3> QED
      BY <3>1, <3>2
  <2>2. round' = [round EXCEPT !.hand = round.hand - 1, !.count = round.count + n]
    BY <2>1
  <2>3. /\ round'.hand \in Nat /\ round'.count \in Nat /\ round'.from \in {"poll", "wait"}
        /\ round' = [hand |-> round'.hand, count |-> round'.count, from |-> round'.from]
    <3>1. round.hand > 0
      BY <1>10 DEF RunMessage
    <3>2. round.hand \in Nat /\ round.count \in Nat /\ round.from \in {"poll", "wait"}
      BY DEF Typed, TypedMain
    <3>3. round' = [hand |-> round.hand - 1, count |-> round.count + n, from |-> round.from]
      BY <2>2, Zenon DEF Typed, TypedMain
    <3> QED
      BY <3>1, <3>2, <3>3
  <2>4. UNCHANGED <<options, limit, pc, slot, processed, busy, shutdown>>
    BY <1>10 DEF RunMessage
  <2> QED
    BY <2>3, <2>4, SameThreads DEF Typed, TypedMain
<1>11. CASE EndOfMessages
  BY <1>11, OptionsTyped, SameThreads DEF EndOfMessages, AfterMessages, Typed, TypedMain
<1>12. CASE Fetch
  BY <1>12, SameThreads DEF Fetch, LeaveLoop, Typed, TypedMain, TypedQueues
<1>13. CASE RunRow
  BY <1>13, OptionsTyped, SameThreads DEF RunRow, Run, CountFailure, Call, LosesRow, Typed,
    TypedMain
<1>14. CASE Dispatch
  BY <1>14, OptionsTyped, SameThreads DEF Dispatch, Submit, CountFailure, LosesRow, Typed,
    TypedMain
<1>15. CASE ExitInline
  BY <1>15, OptionsTyped, SameThreads DEF ExitInline, Call, LeaveLoop, Typed, TypedMain
<1>16. CASE IdleRound
  BY <1>16, OptionsTyped, SameThreads DEF IdleRound, Typed, TypedMain
<1>17. CASE Drain
  BY <1>17, Sizes, SameThreads DEF Drain, Collect, Balanced, Typed, TypedMain, TypedQueues
<1>18. CASE Stop
  BY <1>18, OptionsTyped, SameThreads DEF Stop, Typed, TypedMain
<1>19. CASE Join
  BY <1>19, OptionsTyped, SameThreads DEF Join, ExitCode, Typed, TypedMain
<1>20. ASSUME NEW e \in Threads, Begin(e) PROVE TypedMain'
  BY <1>20, OptionsTyped, SameThreads DEF Begin, Run, Call, LosesRow, Typed, TypedMain
<1>21. ASSUME NEW e \in Threads, PutResult(e) PROVE TypedMain'
  BY <1>21, OptionsTyped, SameThreads DEF PutResult, Typed, TypedMain
<1>22. ASSUME NEW e \in Threads, PutIdle(e) PROVE TypedMain'
  BY <1>22, OptionsTyped, SameThreads DEF PutIdle, Typed, TypedMain
<1>23. ASSUME NEW e \in Threads, Exit(e) PROVE TypedMain'
  BY <1>23, OptionsTyped, SameThreads DEF Exit, Typed, TypedMain
<1>24. CASE UNCHANGED vars
  BY <1>24, OptionsTyped, SameThreads DEF Typed, TypedMain
<1> QED
  BY <1>1, <1>2, <1>3, <1>4, <1>5, <1>6, <1>7, <1>8, <1>9, <1>10, <1>11, <1>12, <1>13, <1>14,
    <1>15, <1>16, <1>17, <1>18, <1>19, <1>20, <1>21, <1>22, <1>23, <1>24 DEF Next, MainStep,
    ThreadStep, Ended

LEMMA TypedQueuesNext ==
  ASSUME Typed, Placed, [Next]_vars
  PROVE  TypedQueues'
<1>1. CASE Arrive
  BY <1>1, OptionsTyped, SameThreads DEF Arrive, Typed, TypedMain, TypedQueues
<1>2. CASE TakenByAnother
  BY <1>2, OptionsTyped, SameThreads DEF TakenByAnother, Typed, TypedMain, TypedQueues
<1>3. CASE RequestShutdown
  BY <1>3, OptionsTyped, SameThreads DEF RequestShutdown, Typed, TypedMain, TypedQueues
<1>4. CASE StartLoop
  BY <1>4, OptionsTyped, SameThreads DEF StartLoop, Typed, TypedMain, TypedQueues
<1>5. CASE Top
  BY <1>5, OptionsTyped, SameThreads DEF Top, Collect, Typed, TypedMain, TypedQueues
<1>6. CASE FindWork
  BY <1>6, OptionsTyped, SameThreads DEF FindWork, Typed, TypedMain, TypedQueues
<1>7. CASE Full
  BY <1>7, OptionsTyped, SameThreads DEF Full, Collect, Typed, TypedMain, TypedQueues
<1>8. CASE Receive
  BY <1>8, OptionsTyped, SameThreads DEF Receive, Least, Remaining, Limit, Typed, TypedMain,
    TypedQueues
<1>9. CASE HandOut
  <2>1. PICK e \in idle : /\ UNCHANGED <<options, results, thread>>
                         /\ idle' = idle \ {e}
                         /\ inbox' = [inbox EXCEPT ![e] = "message"]
    BY <1>9 DEF HandOut, Submit
  <2> QED
    BY <2>1, SameThreads DEF Typed, TypedMain, TypedQueues
<1>10. CASE RunMessage
  BY <1>10, OptionsTyped, SameThreads DEF RunMessage, Run, CountFailure, Call, LosesRow, Typed,
    TypedMain, TypedQueues
<1>11. CASE EndOfMessages
  BY <1>11, OptionsTyped, SameThreads DEF EndOfMessages, AfterMessages, Typed, TypedMain,
    TypedQueues
<1>12. CASE Fetch
  BY <1>12, OptionsTyped, SameThreads DEF Fetch, LeaveLoop, Typed, TypedMain, TypedQueues
<1>13. CASE RunRow
  BY <1>13, OptionsTyped, SameThreads DEF RunRow, Run, CountFailure, Call, LosesRow, Typed,
    TypedMain, TypedQueues
<1>14. CASE Dispatch
  <2>1. slot \in Threads
    BY <1>14, OptionsTyped DEF Dispatch, Inline, Placed, Typed, TypedMain
  <2> QED
    BY <1>14, <2>1, SameThreads DEF Dispatch, Submit, CountFailure, LosesRow, Typed, TypedMain,
      TypedQueues
<1>15. CASE ExitInline
  BY <1>15, OptionsTyped, SameThreads DEF ExitInline, Call, LeaveLoop, Typed, TypedMain,
    TypedQueues
<1>16. CASE IdleRound
  BY <1>16, OptionsTyped, SameThreads DEF IdleRound, Typed, TypedMain, TypedQueues
<1>17. CASE Drain
  BY <1>17, OptionsTyped, SameThreads DEF Drain, Collect, Typed, TypedMain, TypedQueues
<1>18. CASE Stop
  BY <1>18, OptionsTyped, SameThreads DEF Stop, Typed, TypedMain, TypedQueues
<1>19. CASE Join
  BY <1>19, OptionsTyped, SameThreads DEF Join, ExitCode, Typed, TypedMain, TypedQueues
<1>20. ASSUME NEW e \in Threads, Begin(e) PROVE TypedQueues'
  <2>1. /\ UNCHANGED <<options, idle, results>>
        /\ inbox' = [inbox EXCEPT ![e] = "empty"]
        /\ \E x \in {"running", "missing"} : thread' = [thread EXCEPT ![e] = x]
    BY <1>20 DEF Begin
  <2> QED
    BY <2>1, SameThreads DEF Typed, TypedMain, TypedQueues
<1>21. ASSUME NEW e \in Threads, PutResult(e) PROVE TypedQueues'
  <2>1. results' = [counted |-> results'.counted, other |-> results'.other]
        /\ results'.counted \in Nat /\ results'.other \in Nat
    BY <1>21 DEF PutResult, Typed, TypedQueues
  <2> QED
    BY <1>21, <2>1, SameThreads DEF PutResult, Typed, TypedMain, TypedQueues
<1>22. ASSUME NEW e \in Threads, PutIdle(e) PROVE TypedQueues'
  BY <1>22, OptionsTyped, SameThreads DEF PutIdle, Typed, TypedMain, TypedQueues
<1>23. ASSUME NEW e \in Threads, Exit(e) PROVE TypedQueues'
  BY <1>23, OptionsTyped, SameThreads DEF Exit, Typed, TypedMain, TypedQueues
<1>24. CASE UNCHANGED vars
  BY <1>24, OptionsTyped, SameThreads DEF Typed, TypedMain, TypedQueues
<1> QED
  BY <1>1, <1>2, <1>3, <1>4, <1>5, <1>6, <1>7, <1>8, <1>9, <1>10, <1>11, <1>12, <1>13, <1>14,
    <1>15, <1>16, <1>17, <1>18, <1>19, <1>20, <1>21, <1>22, <1>23, <1>24 DEF Next, MainStep,
    ThreadStep, Ended

LEMMA TypedReportNext ==
  ASSUME Typed, [Next]_vars
  PROVE  TypedReport'
<1>1. CASE Arrive
  BY <1>1, OptionsTyped, SameThreads DEF Arrive, Typed, TypedMain, TypedQueues, TypedReport,
    Held
<1>2. CASE TakenByAnother
  BY <1>2, OptionsTyped, SameThreads DEF TakenByAnother, Typed, TypedMain, TypedQueues,
    TypedReport, Held
<1>3. CASE RequestShutdown
  BY <1>3, OptionsTyped, SameThreads DEF RequestShutdown, Typed, TypedMain, TypedQueues,
    TypedReport, Held
<1>4. CASE StartLoop
  BY <1>4, OptionsTyped, SameThreads DEF StartLoop, Typed, TypedMain, TypedQueues, TypedReport,
    Held
<1>5. CASE Top
  BY <1>5, OptionsTyped, SameThreads DEF Top, Collect, Typed, TypedMain, TypedQueues,
    TypedReport, Held
<1>6. CASE FindWork
  BY <1>6, OptionsTyped, SameThreads DEF FindWork, Typed, TypedMain, TypedQueues, TypedReport,
    Held
<1>7. CASE Full
  BY <1>7, OptionsTyped, SameThreads DEF Full, Collect, Typed, TypedMain, TypedQueues,
    TypedReport, Held
<1>8. CASE Receive
  <2>1. PICK n \in Nat : n <= messages /\ messages' = messages - n
    <3>1. PICK n \in 0 .. Least(messages, IF Remaining < 1 THEN 0 ELSE Remaining) :
            messages' = messages - n
      BY <1>8 DEF Receive
    <3> QED
      BY <3>1, RemainingTyped DEF Least, Typed, TypedReport
  <2>2. UNCHANGED <<options, thread, failing, failed, trouble, exit_code, table, started, arrivals>>
    BY <1>8 DEF Receive
  <2> QED
    BY <2>1, <2>2, SameThreads DEF Typed, TypedMain, TypedReport, Held
<1>9. CASE HandOut
  BY <1>9, OptionsTyped, SameThreads DEF HandOut, Submit, Typed, TypedMain, TypedQueues,
    TypedReport, Held
<1>10. CASE RunMessage
  BY <1>10, OptionsTyped, SameThreads DEF RunMessage, Run, CountFailure, Call, LosesRow, Typed,
    TypedMain, TypedQueues, TypedReport, Held
<1>11. CASE EndOfMessages
  BY <1>11, OptionsTyped, SameThreads DEF EndOfMessages, AfterMessages, Typed, TypedMain,
    TypedQueues, TypedReport, Held
<1>12. CASE Fetch
  BY <1>12, OptionsTyped, SameThreads DEF Fetch, LeaveLoop, Typed, TypedMain, TypedQueues,
    TypedReport, Held
<1>13. CASE RunRow
  BY <1>13, OptionsTyped, SameThreads DEF RunRow, Run, CountFailure, Call, LosesRow, Typed,
    TypedMain, TypedQueues, TypedReport, Held
<1>14. CASE Dispatch
  BY <1>14, OptionsTyped, SameThreads DEF Dispatch, Submit, CountFailure, LosesRow, Typed,
    TypedMain, TypedQueues, TypedReport, Held
<1>15. CASE ExitInline
  BY <1>15, OptionsTyped, SameThreads DEF ExitInline, Call, LeaveLoop, Typed, TypedMain,
    TypedQueues, TypedReport, Held
<1>16. CASE IdleRound
  BY <1>16, OptionsTyped, SameThreads DEF IdleRound, Typed, TypedMain, TypedQueues, TypedReport,
    Held
<1>17. CASE Drain
  BY <1>17, OptionsTyped, SameThreads DEF Drain, Collect, Typed, TypedMain, TypedQueues,
    TypedReport, Held
<1>18. CASE Stop
  BY <1>18, OptionsTyped, SameThreads DEF Stop, Typed, TypedMain, TypedQueues, TypedReport, Held
<1>19. CASE Join
  BY <1>19, OptionsTyped, SameThreads DEF Join, ExitCode, Typed, TypedMain, TypedQueues,
    TypedReport, Held
<1>20. ASSUME NEW e \in Threads, Begin(e) PROVE TypedReport'
  <2>1. PICK counts, fails, told \in BOOLEAN :
          /\ Run(inbox[e], counts, fails, told)
          /\ thread' = [thread EXCEPT ![e] = IF counts THEN "running" ELSE "missing"]
          /\ failing' = IF told THEN failing \cup {e} ELSE failing
          /\ trouble' = (trouble \/ fails)
    BY <1>20 DEF Begin
  <2>2. table' \in Nat /\ started' \in Nat
    BY <2>1 DEF Run, Call, LosesRow, Typed, TypedReport
  <2>3. failing' \subseteq Held'
    BY <1>20, <2>1, SameThreads DEF Begin, Typed, TypedMain, TypedQueues, TypedReport, Held
  <2> QED
    BY <1>20, <2>1, <2>2, <2>3, OptionsTyped DEF Begin, Typed, TypedMain, TypedReport
<1>21. ASSUME NEW e \in Threads, PutResult(e) PROVE TypedReport'
  BY <1>21, OptionsTyped, SameThreads DEF PutResult, Typed, TypedMain, TypedQueues, TypedReport,
    Held
<1>22. ASSUME NEW e \in Threads, PutIdle(e) PROVE TypedReport'
  BY <1>22, OptionsTyped, SameThreads DEF PutIdle, Typed, TypedMain, TypedQueues, TypedReport,
    Held
<1>23. ASSUME NEW e \in Threads, Exit(e) PROVE TypedReport'
  BY <1>23, OptionsTyped, SameThreads DEF Exit, Typed, TypedMain, TypedQueues, TypedReport, Held
<1>24. CASE UNCHANGED vars
  BY <1>24, OptionsTyped, SameThreads DEF Typed, TypedMain, TypedQueues, TypedReport, Held
<1> QED
  BY <1>1, <1>2, <1>3, <1>4, <1>5, <1>6, <1>7, <1>8, <1>9, <1>10, <1>11, <1>12, <1>13, <1>14,
    <1>15, <1>16, <1>17, <1>18, <1>19, <1>20, <1>21, <1>22, <1>23, <1>24 DEF Next, MainStep,
    ThreadStep, Ended

LEMMA PlacedInit == Init => Placed
BY OptionsTyped DEF Init, Placed, Handed, Inline

LEMMA PlacedNext ==
  ASSUME Typed, Placed, [Next]_vars
  PROVE  Placed'
<1>1. CASE Arrive
  BY <1>1, SameThreads DEF Arrive, Typed, TypedMain, TypedQueues, Placed, Handed
<1>2. CASE TakenByAnother
  BY <1>2, SameThreads DEF TakenByAnother, Typed, TypedMain, TypedQueues, Placed, Handed
<1>3. CASE RequestShutdown
  BY <1>3, SameThreads DEF RequestShutdown, Typed, TypedMain, TypedQueues, Placed, Handed
<1>4. CASE StartLoop
  BY <1>4, SameThreads DEF StartLoop, Typed, TypedMain, TypedQueues, Placed, Handed
<1>5. CASE Top
  BY <1>5, SameThreads DEF Top, Collect, Typed, TypedMain, TypedQueues, Placed, Handed
<1>6. CASE FindWork
  BY <1>6, SameThreads DEF FindWork, Typed, TypedMain, TypedQueues, Placed, Handed
<1>7. CASE Full
  BY <1>7, SameThreads DEF Full, Collect, Typed, TypedMain, TypedQueues, Placed, Handed
<1>8. CASE Receive
  BY <1>8, SameThreads DEF Receive, Typed, TypedMain, TypedQueues, Placed, Handed
<1>9. CASE HandOut
  BY <1>9, SameThreads DEF HandOut, Submit, Typed, TypedMain, TypedQueues, Placed, Handed
<1>10. CASE RunMessage
  BY <1>10, SameThreads DEF RunMessage, Typed, TypedMain, TypedQueues, Placed, Handed
<1>11. CASE EndOfMessages
  BY <1>11, SameThreads DEF EndOfMessages, AfterMessages, Typed, TypedMain, TypedQueues, Placed,
    Handed
<1>12. CASE Fetch
  BY <1>12, SameThreads, OptionsTyped DEF Fetch, LeaveLoop, Typed, TypedMain, TypedQueues,
    Placed, Handed, Inline
<1>13. CASE RunRow
  BY <1>13, SameThreads DEF RunRow, Inline, Typed, TypedMain, TypedQueues, Placed, Handed
<1>14. CASE Dispatch
  BY <1>14, SameThreads DEF Dispatch, Submit, CountFailure, LosesRow, Typed, TypedMain,
    TypedQueues, Placed, Handed
<1>15. CASE ExitInline
  BY <1>15, SameThreads DEF ExitInline, LeaveLoop, Inline, Typed, TypedMain, TypedQueues,
    Placed, Handed
<1>16. CASE IdleRound
  BY <1>16, SameThreads DEF IdleRound, Typed, TypedMain, TypedQueues, Placed, Handed
<1>17. CASE Drain
  BY <1>17, SameThreads DEF Drain, Collect, Typed, TypedMain, TypedQueues, Placed, Handed
<1>18. CASE Stop
  BY <1>18, SameThreads DEF Stop, Typed, TypedMain, TypedQueues, Placed, Handed
<1>19. CASE Join
  BY <1>19, SameThreads DEF Join, ExitCode, Typed, TypedMain, TypedQueues, Placed, Handed
<1>20. ASSUME NEW e \in Threads, Begin(e) PROVE Placed'
  <2>1. /\ thread[e] = "waiting" /\ inbox[e] \in {"claimed", "message"}
        /\ inbox' = [inbox EXCEPT ![e] = "empty"]
        /\ UNCHANGED <<options, pc, slot, idle>>
    BY <1>20 DEF Begin
  <2>2. PICK x \in {"running", "missing"} : thread' = [thread EXCEPT ![e] = x]
    BY <1>20 DEF Begin
  <2>3. /\ inbox'[e] = "empty" /\ thread'[e] = x
        /\ \A d \in Threads : d # e => inbox'[d] = inbox[d] /\ thread'[d] = thread[d]
    BY <2>1, <2>2 DEF Typed, TypedQueues
  <2>4. Handed' = Handed \ {e} /\ e \in Handed
    BY <2>1, <2>3, SameThreads DEF Handed
  <2>5. e \notin idle /\ e # slot /\ pc \notin {"start", "join", "ended"}
    BY <2>1, <2>4, OptionsTyped DEF Placed, Typed, TypedMain
  <2>6. \A d \in idle' : thread'[d] \in {"waiting", "exited"} /\ inbox'[d] \in {"empty", "stop"}
    BY <2>1, <2>3, <2>5 DEF Placed, Typed, TypedQueues
  <2>7. \A d \in Handed' : thread'[d] = "waiting" /\ d \notin idle'
    BY <2>1, <2>3, <2>4 DEF Placed, Handed
  <2>8. slot' # NoThread =>
          /\ pc' = "row" /\ slot' \notin idle'
          /\ inbox'[slot'] = "empty" /\ thread'[slot'] = "waiting"
    BY <2>1, <2>3, <2>5 DEF Placed, Typed, TypedMain
  <2>9. \A d \in Threads' : inbox'[d] # "stop" /\ thread'[d] # "exited"
    BY <2>1, <2>3, <2>5, SameThreads DEF Placed
  <2> QED
    BY <2>1, <2>5, <2>6, <2>7, <2>8, <2>9, SameThreads DEF Placed
<1>21. ASSUME NEW e \in Threads, PutResult(e) PROVE Placed'
  BY <1>21, SameThreads DEF PutResult, Typed, TypedMain, TypedQueues, Placed, Handed
<1>22. ASSUME NEW e \in Threads, PutIdle(e) PROVE Placed'
  <2>1. inbox[e] \in {"empty", "stop"} /\ e # slot
    BY <1>22, OptionsTyped DEF PutIdle, Typed, TypedMain, TypedQueues, Placed, Handed
  <2> QED
    BY <1>22, <2>1, SameThreads DEF PutIdle, Typed, TypedMain, TypedQueues, Placed, Handed
<1>23. ASSUME NEW e \in Threads, Exit(e) PROVE Placed'
  BY <1>23, SameThreads DEF Exit, Typed, TypedMain, TypedQueues, Placed, Handed
<1>24. CASE UNCHANGED vars
  BY <1>24, SameThreads DEF Typed, TypedMain, TypedQueues, Placed, Handed
<1> QED
  BY <1>1, <1>2, <1>3, <1>4, <1>5, <1>6, <1>7, <1>8, <1>9, <1>10, <1>11, <1>12, <1>13, <1>14,
    <1>15, <1>16, <1>17, <1>18, <1>19, <1>20, <1>21, <1>22, <1>23, <1>24 DEF Next, MainStep,
    ThreadStep, Ended

\* How the number of executors that have a job, or hold one, changes.
LEMMA Unmoved ==
  ASSUME UNCHANGED <<options, inbox, thread>>
  PROVE  Handed' = Handed /\ Held' = Held /\ Ran' = Ran /\ Size' = Size
BY SameThreads DEF Handed, Held, Ran, Size

LEMMA Submits ==
  ASSUME Typed, Placed, NEW e \in Threads, NEW job \in {"claimed", "message"},
         inbox[e] = "empty", Submit(e, job), UNCHANGED <<options, thread>>
  PROVE  /\ Cardinality(Handed') = Cardinality(Handed) + 1
         /\ Held' = Held /\ Ran' = Ran /\ Size' = Size /\ busy' = busy + 1
<1>1. Handed' = Handed \cup {e} /\ e \notin Handed
  BY SameThreads DEF Submit, Handed, Typed, TypedQueues
<1>2. Cardinality(Handed') = Cardinality(Handed) + 1
  BY <1>1, Sizes, FS_AddElement
<1> QED
  BY <1>2, SameThreads DEF Submit, Held, Ran, Size

LEMMA Begins ==
  ASSUME Typed, Placed, NEW e \in Threads, Begin(e)
  PROVE  /\ Cardinality(Handed') = Cardinality(Handed) - 1
         /\ Cardinality(Held') = Cardinality(Held) + 1
         /\ Cardinality(Ran') = Cardinality(Ran) + (IF thread'[e] = "running" THEN 1 ELSE 0)
         /\ Size' = Size
<1>1. /\ thread[e] = "waiting" /\ inbox[e] \in {"claimed", "message"}
      /\ inbox' = [inbox EXCEPT ![e] = "empty"]
      /\ UNCHANGED options
  BY DEF Begin
<1>2. PICK x \in {"running", "missing"} : thread' = [thread EXCEPT ![e] = x]
  BY DEF Begin
<1>3. /\ Handed' = Handed \ {e} /\ e \in Handed
      /\ Held' = Held \cup {e} /\ e \notin Held
  BY <1>1, <1>2, SameThreads DEF Handed, Held, Typed, TypedQueues
<1>4. /\ e \notin Ran
      /\ Ran' = IF thread'[e] = "running" THEN Ran \cup {e} ELSE Ran
  BY <1>1, <1>2, SameThreads DEF Ran, Typed, TypedQueues
<1>5. Cardinality(Handed') = Cardinality(Handed) - 1 /\ Cardinality(Held') = Cardinality(Held) + 1
  BY <1>3, Sizes, FS_AddElement, FS_RemoveElement
<1>6. Cardinality(Ran') = Cardinality(Ran) + (IF thread'[e] = "running" THEN 1 ELSE 0)
  <2>1. Cardinality(Ran \cup {e}) = Cardinality(Ran) + 1 /\ Cardinality(Ran) \in Nat
    BY <1>4, Sizes, FS_AddElement
  <2> QED
    BY <1>4, <2>1
<1>7. Size' = Size
  BY <1>1, SameThreads DEF Size
<1> QED
  BY <1>5, <1>6, <1>7

LEMMA Puts ==
  ASSUME Typed, Placed, NEW e \in Threads, PutResult(e)
  PROVE  /\ Handed' = Handed /\ Size' = Size
         /\ Cardinality(Held') = Cardinality(Held) - 1
         /\ results'.counted + results'.other = results.counted + results.other + 1
         /\ results'.counted \in Nat /\ results'.other \in Nat
         /\ results'.counted + Cardinality(Ran') = results.counted + Cardinality(Ran)
<1>1. /\ thread[e] \in {"running", "missing"} /\ thread' = [thread EXCEPT ![e] = "reported"]
      /\ results' = IF thread[e] = "running" THEN [results EXCEPT !.counted = @ + 1]
                    ELSE [results EXCEPT !.other = @ + 1]
      /\ UNCHANGED <<options, inbox>>
  BY DEF PutResult
<1>2. Handed' = Handed /\ Size' = Size
  BY <1>1, SameThreads DEF Handed, Size
<1>3. Held' = Held \ {e} /\ e \in Held
  BY <1>1, SameThreads DEF Held, Typed, TypedQueues
<1>4. Cardinality(Held') = Cardinality(Held) - 1
  BY <1>3, Sizes, FS_RemoveElement
<1>5. CASE thread[e] = "running"
  <2>1. Ran' = Ran \ {e} /\ e \in Ran
    BY <1>1, <1>5, SameThreads DEF Ran, Typed, TypedQueues
  <2>2. Cardinality(Ran') = Cardinality(Ran) - 1
    BY <2>1, Sizes, FS_RemoveElement
  <2>3. results'.counted = results.counted + 1 /\ results'.other = results.other
    BY <1>1, <1>5 DEF Typed, TypedQueues
  <2> QED
    BY <1>2, <1>4, <2>2, <2>3, Sizes DEF Typed, TypedQueues
<1>6. CASE thread[e] = "missing"
  <2>1. Ran' = Ran
    BY <1>1, <1>6, SameThreads DEF Ran, Typed, TypedQueues
  <2>2. results'.counted = results.counted /\ results'.other = results.other + 1
    BY <1>1, <1>6 DEF Typed, TypedQueues
  <2> QED
    BY <1>2, <1>4, <2>1, <2>2, Sizes DEF Typed, TypedQueues
<1> QED
  BY <1>1, <1>5, <1>6

LEMMA Idles ==
  ASSUME Typed, Placed, NEW e \in Threads, PutIdle(e) \/ Exit(e)
  PROVE  /\ Handed' = Handed /\ Held' = Held /\ Ran' = Ran /\ Size' = Size
         /\ idle \subseteq idle' /\ IsFiniteSet(idle')
<1>1. /\ thread[e] \in {"waiting", "reported"}
      /\ \E x \in {"waiting", "exited"} : thread' = [thread EXCEPT ![e] = x]
      /\ idle' \in {idle, idle \cup {e}}
      /\ UNCHANGED <<options, inbox>>
  BY DEF PutIdle, Exit
<1>2. Handed' = Handed /\ Held' = Held /\ Ran' = Ran /\ Size' = Size
  BY <1>1, SameThreads DEF Handed, Held, Ran, Size, Typed, TypedQueues
<1>3. idle \subseteq idle' /\ IsFiniteSet(idle')
  BY <1>1, Sizes, FS_AddElement
<1> QED
  BY <1>2, <1>3

LEMMA Clears ==
  ASSUME Typed, Placed, Stop
  PROVE  Handed' = Handed /\ Held' = Held /\ Ran' = Ran /\ Size' = Size
<1>1. /\ \A e \in Threads : inbox[e] = "empty"
      /\ inbox' = [e \in Threads |-> "stop"] /\ UNCHANGED <<options, thread>>
  BY DEF Stop
<1>2. Handed' = Handed
  BY <1>1, SameThreads DEF Handed
<1> QED
  BY <1>1, <1>2, SameThreads DEF Held, Ran, Size

LEMMA BalancedInit == Init => Balanced
<1> SUFFICES ASSUME Init PROVE Balanced
  OBVIOUS
<1>1. Handed = {} /\ Held = {}
  BY DEF Init, Handed, Held
<1> QED
  BY <1>1, FS_EmptySet DEF Init, Balanced

LEMMA BalancedNext ==
  ASSUME Typed, Placed, Balanced, [Next]_vars
  PROVE  Balanced'
<1>1. CASE Top
  BY <1>1, Unmoved, Sizes DEF Top, Collect, Balanced, Typed, TypedMain, TypedQueues
<1>2. CASE Full
  BY <1>2, Unmoved, Sizes DEF Full, Collect, Balanced, Typed, TypedMain, TypedQueues
<1>3. CASE HandOut
  <2>1. PICK e \in Threads : inbox[e] = "empty" /\ Submit(e, "message")
    BY <1>3 DEF HandOut, Typed, TypedQueues
  <2> QED
    BY <1>3, <2>1, Submits, Sizes DEF HandOut, Balanced, Typed, TypedQueues
<1>4. CASE Dispatch
  <2>1. slot \in Threads /\ inbox[slot] = "empty"
    BY <1>4, OptionsTyped DEF Dispatch, Placed, Typed, TypedMain
  <2>2. CASE Submit(slot, "claimed")
    BY <1>4, <2>1, <2>2, Submits, Sizes DEF Dispatch, Balanced, Typed, TypedQueues
  <2>3. CASE UNCHANGED <<inbox, busy>>
    BY <1>4, <2>3, Unmoved DEF Dispatch, Balanced
  <2> QED
    BY <1>4, <2>2, <2>3 DEF Dispatch
<1>5. CASE Drain
  BY <1>5, Unmoved, Sizes DEF Drain, Collect, Balanced, Typed, TypedMain, TypedQueues
<1>6. CASE Stop
  BY <1>6, Clears DEF Stop, Balanced
<1>7. ASSUME NEW e \in Threads, Begin(e) PROVE Balanced'
  <2>1. UNCHANGED <<busy, results>>
    BY <1>7 DEF Begin
  <2> QED
    BY <1>7, <2>1, Begins, Sizes DEF Balanced, Typed, TypedMain, TypedQueues
<1>8. ASSUME NEW e \in Threads, PutResult(e) PROVE Balanced'
  <2>1. UNCHANGED <<busy>>
    BY <1>8 DEF PutResult
  <2> QED
    BY <1>8, <2>1, Puts, Sizes DEF Balanced, Typed, TypedMain, TypedQueues
<1>9. ASSUME NEW e \in Threads, PutIdle(e) PROVE Balanced'
  BY <1>9, Idles DEF PutIdle, Balanced
<1>10. ASSUME NEW e \in Threads, Exit(e) PROVE Balanced'
  BY <1>10, Idles DEF Exit, Balanced
<1>11. CASE Arrive \/ TakenByAnother \/ RequestShutdown \/ StartLoop \/ FindWork \/ Receive
            \/ RunMessage \/ EndOfMessages \/ Fetch \/ RunRow \/ ExitInline \/ IdleRound \/
            Join \/ UNCHANGED vars
  BY <1>11, Unmoved DEF Arrive, TakenByAnother, RequestShutdown, StartLoop, FindWork, Receive,
    RunMessage, EndOfMessages, Fetch, RunRow, ExitInline, IdleRound, Join, Balanced
<1> QED
  BY <1>1, <1>2, <1>3, <1>4, <1>5, <1>6, <1>7, <1>8, <1>9, <1>10, <1>11 DEF Next, MainStep,
    ThreadStep, Ended

LEMMA Received ==
  ASSUME Typed, Receive
  PROVE  /\ pc' = "messages" /\ pc \in {"poll", "wait"}
         /\ round'.hand \in Nat /\ round'.count = (IF Inline THEN 0 ELSE round'.hand)
         /\ round'.from = pc
         /\ ~Inline => round'.hand <= Cardinality(idle)
         /\ limit > 0 /\ round'.hand > 0 => round'.hand <= limit - processed - busy
         /\ UNCHANGED <<command, slot, processed, busy, shutdown, queues, thread>>
<1>1. PICK n \in 0 .. Least(messages, IF Remaining < 1 THEN 0 ELSE Remaining) :
        round' = [hand |-> n, count |-> IF Inline THEN 0 ELSE n, from |-> pc]
  BY DEF Receive
<1>2. n \in Nat /\ (n > 0 => n <= Remaining)
  BY <1>1, RemainingTyped DEF Least, Typed, TypedReport
<1>3. n > 0 /\ ~Inline => n <= Cardinality(idle)
  BY <1>2, RemainingTyped, OptionsTyped, Sizes DEF Remaining, Limit, Least, Typed, TypedMain
<1>4. limit > 0 /\ n > 0 => n <= limit - processed - busy
  BY <1>2, RemainingTyped DEF Remaining, Least, Typed, TypedMain
<1> QED
  BY <1>1, <1>2, <1>3, <1>4, Sizes DEF Receive

LEMMA RoomInit == Init => Room
BY DEF Init, Room

LEMMA RoomNext ==
  ASSUME Typed, Placed, Room, [Next]_vars
  PROVE  Room'
<1>1. CASE Arrive
  BY <1>1, SameThreads DEF Arrive, Room
<1>2. CASE TakenByAnother
  BY <1>2, SameThreads DEF TakenByAnother, Room
<1>3. CASE RequestShutdown
  BY <1>3, SameThreads DEF RequestShutdown, Room
<1>4. CASE StartLoop
  BY <1>4, SameThreads DEF StartLoop, Room
<1>5. CASE Top
  BY <1>5, SameThreads DEF Top, Room
<1>6. CASE FindWork
  BY <1>6, SameThreads DEF FindWork, AllBusy, Inline, Room
<1>7. CASE Full
  BY <1>7, SameThreads DEF Full, Room
<1>8. CASE Receive
  BY <1>8, Received, SameThreads, Sizes DEF Room
<1>9. CASE HandOut
  <2>1. PICK e \in idle : idle' = idle \ {e}
    BY <1>9 DEF HandOut
  <2>2. Cardinality(idle') = Cardinality(idle) - 1
    BY <2>1, Sizes, FS_RemoveElement
  <2>3. /\ round.hand > 0 /\ round'.hand = round.hand - 1 /\ round'.count = round.count
        /\ pc = "messages" /\ UNCHANGED <<pc, options>> /\ round'.from = round.from
    BY <1>9 DEF HandOut, Typed, TypedMain
  <2> QED
    BY <2>2, <2>3, SameThreads, Sizes DEF Room, Typed, TypedMain
<1>10. CASE RunMessage
  BY <1>10, SameThreads DEF RunMessage, Room
<1>11. CASE EndOfMessages
  <2>1. pc' = "fetch" => round.from = "poll" /\ round.count = 0
    BY <1>11 DEF EndOfMessages, AfterMessages, Typed, TypedMain
  <2>2. pc = "messages" /\ pc' \notin {"messages", "poll"} /\ UNCHANGED <<options, round, idle>>
    BY <1>11 DEF EndOfMessages, AfterMessages
  <2> QED
    BY <2>1, <2>2, SameThreads DEF Room
<1>12. CASE Fetch
  BY <1>12, SameThreads DEF Fetch, LeaveLoop, Room
<1>13. CASE RunRow
  BY <1>13, SameThreads DEF RunRow, Room
<1>14. CASE Dispatch
  BY <1>14, SameThreads DEF Dispatch, Room
<1>15. CASE ExitInline
  BY <1>15, SameThreads DEF ExitInline, LeaveLoop, Room
<1>16. CASE IdleRound
  BY <1>16, SameThreads DEF IdleRound, Room
<1>17. CASE Drain
  BY <1>17, SameThreads DEF Drain, Room
<1>18. CASE Stop
  BY <1>18, SameThreads DEF Stop, Room
<1>19. CASE Join
  BY <1>19, SameThreads DEF Join, ExitCode, Room
<1>20. ASSUME NEW e \in Threads, Begin(e) PROVE Room'
  <2>1. UNCHANGED <<options, pc, round, idle>>
    BY <1>20 DEF Begin
  <2> QED
    BY <2>1, SameThreads DEF Room
<1>21. ASSUME NEW e \in Threads, PutResult(e) PROVE Room'
  BY <1>21, SameThreads DEF PutResult, Room
<1>22. ASSUME NEW e \in Threads, PutIdle(e) PROVE Room'
  <2>1. idle \subseteq idle' /\ IsFiniteSet(idle') /\ UNCHANGED <<options, pc, round>>
    BY <1>22, Idles DEF PutIdle
  <2>2. Cardinality(idle) <= Cardinality(idle') /\ Cardinality(idle') \in Nat
    BY <2>1, FS_Subset, FS_CardinalityType
  <2> QED
    BY <2>1, <2>2, SameThreads, Sizes DEF Room, Typed, TypedMain
<1>23. ASSUME NEW e \in Threads, Exit(e) PROVE Room'
  BY <1>23, SameThreads DEF Exit, Room
<1>24. CASE UNCHANGED vars
  BY <1>24, SameThreads DEF Room
<1> QED
  BY <1>1, <1>2, <1>3, <1>4, <1>5, <1>6, <1>7, <1>8, <1>9, <1>10, <1>11, <1>12, <1>13, <1>14,
    <1>15, <1>16, <1>17, <1>18, <1>19, <1>20, <1>21, <1>22, <1>23, <1>24 DEF Next, MainStep,
    ThreadStep, Ended

LEMMA FewInit == Init => Few
BY OptionsTyped, LoopAssumption, FS_Subset, FS_CardinalityType DEF Init, Few, Size

LEMMA OutIsFew ==
  ASSUME Typed, Placed
  PROVE  Cardinality(Handed) + Cardinality(Held) <= Size
<1>1. Handed \cap Held = {} /\ Handed \cup Held \subseteq Threads
  BY DEF Placed, Handed, Held, Typed, TypedQueues
<1>2. Cardinality(Handed \cup Held) = Cardinality(Handed) + Cardinality(Held)
  <2>1. Cardinality(Handed \cup Held)
          = Cardinality(Handed) + Cardinality(Held) - Cardinality(Handed \cap Held)
    BY Sizes, FS_Union, Zenon
  <2>2. Cardinality(Handed \cap Held) = 0
    BY <1>1, FS_EmptySet
  <2> QED
    BY <2>1, <2>2, Sizes
<1> QED
  BY <1>1, <1>2, Sizes, FS_Subset DEF Size

LEMMA FewNext ==
  ASSUME Typed, Placed, Room, Balanced, Few, [Next]_vars
  PROVE  Few'
<1>1. CASE Arrive
  BY <1>1, SameThreads, Sizes DEF Arrive, Few, Size, Typed, TypedMain
<1>2. CASE TakenByAnother
  BY <1>2, SameThreads, Sizes DEF TakenByAnother, Few, Size, Typed, TypedMain
<1>3. CASE RequestShutdown
  BY <1>3, SameThreads, Sizes DEF RequestShutdown, Few, Size, Typed, TypedMain
<1>4. CASE StartLoop
  BY <1>4, SameThreads, Sizes DEF StartLoop, Few, Size, Typed, TypedMain
<1>5. CASE Top
  <2>1. Size' = Size /\ UNCHANGED <<options, round>>
    BY <1>5, SameThreads DEF Top, Size
  <2> QED
    BY <1>5, <2>1, OutIsFew, Sizes, SameThreads DEF Top, Collect, Few, Balanced, Typed,
      TypedMain,
      TypedQueues
<1>6. CASE FindWork
  BY <1>6, SameThreads, Sizes DEF FindWork, Few, Size, Typed, TypedMain
<1>7. CASE Full
  <2>1. Size' = Size /\ UNCHANGED <<options, round>>
    BY <1>7, SameThreads DEF Full, Size
  <2> QED
    BY <1>7, <2>1, OutIsFew, Sizes, SameThreads DEF Full, Collect, Few, Balanced, Typed,
      TypedMain,
      TypedQueues
<1>8. CASE Receive
  <2>1. UNCHANGED options
    BY <1>8 DEF Receive
  <2> QED
    BY <1>8, <2>1, Received, SameThreads, Sizes DEF Few, Size, Typed, TypedMain
<1>9. CASE HandOut
  <2>1. /\ round.hand > 0 /\ round'.hand = round.hand - 1 /\ round'.count = round.count
        /\ pc = "messages" /\ UNCHANGED <<pc, options>> /\ ~Inline
    BY <1>9 DEF HandOut, Typed, TypedMain
  <2>2. busy' = busy + 1
    BY <1>9 DEF HandOut, Submit
  <2>3. Size' = Size
    BY <2>1, SameThreads DEF Size
  <2> QED
    BY <2>1, <2>2, <2>3, SameThreads, Sizes DEF Few, Room, Typed, TypedMain
<1>10. CASE RunMessage
  <2>1. UNCHANGED <<options, pc, busy>> /\ Inline /\ Size' = Size
    BY <1>10, SameThreads DEF RunMessage, Size
  <2>2. Size = 0
    BY <2>1, FS_EmptySet DEF Size, Inline
  <2> QED
    BY <2>1, <2>2, SameThreads, Sizes DEF Few, Typed, TypedMain
<1>11. CASE EndOfMessages
  BY <1>11, SameThreads, Sizes DEF EndOfMessages, AfterMessages, Few, Size, Typed, TypedMain
<1>12. CASE Fetch
  BY <1>12, SameThreads, Sizes DEF Fetch, LeaveLoop, Few, Size, Typed, TypedMain
<1>13. CASE RunRow
  BY <1>13, SameThreads, Sizes DEF RunRow, Few, Size, Typed, TypedMain
<1>14. CASE Dispatch
  <2>1. slot \in Threads /\ Size' = Size /\ pc' \in {"drain", "top"} /\ pc = "row"
    BY <1>14, OptionsTyped, SameThreads DEF Dispatch, Placed, Typed, TypedMain, Size
  <2>2. Size # 0
    BY <2>1, Sizes, FS_EmptySet DEF Size
  <2>3. busy' \in {busy, busy + 1}
    BY <1>14 DEF Dispatch, Submit
  <2> QED
    BY <2>1, <2>2, <2>3, Sizes DEF Few, Typed, TypedMain
<1>15. CASE ExitInline
  BY <1>15, SameThreads, Sizes DEF ExitInline, Call, LeaveLoop, Few, Size, Typed, TypedMain
<1>16. CASE IdleRound
  BY <1>16, SameThreads, Sizes DEF IdleRound, Few, Size, Typed, TypedMain
<1>17. CASE Drain
  <2>1. Size' = Size /\ UNCHANGED <<options, round>>
    BY <1>17, SameThreads DEF Drain, Size
  <2> QED
    BY <1>17, <2>1, OutIsFew, Sizes, SameThreads DEF Drain, Collect, Few, Balanced, Typed,
      TypedMain,
      TypedQueues
<1>18. CASE Stop
  BY <1>18, SameThreads, Sizes DEF Stop, Few, Size, Typed, TypedMain
<1>19. CASE Join
  BY <1>19, SameThreads, Sizes DEF Join, Few, Size, Typed, TypedMain
<1>20. ASSUME NEW e \in Threads, Begin(e) PROVE Few'
  <2>1. UNCHANGED <<options, pc, round, busy>>
    BY <1>20 DEF Begin
  <2> QED
    BY <2>1, SameThreads DEF Few, Size
<1>21. ASSUME NEW e \in Threads, PutResult(e) PROVE Few'
  BY <1>21, SameThreads, Sizes DEF PutResult, Few, Size, Typed, TypedMain
<1>22. ASSUME NEW e \in Threads, PutIdle(e) PROVE Few'
  BY <1>22, SameThreads, Sizes DEF PutIdle, Few, Size, Typed, TypedMain
<1>23. ASSUME NEW e \in Threads, Exit(e) PROVE Few'
  BY <1>23, SameThreads, Sizes DEF Exit, Few, Size, Typed, TypedMain
<1>24. CASE UNCHANGED vars
  BY <1>24, SameThreads, Sizes DEF Few, Size, Typed, TypedMain
<1> QED
  BY <1>1, <1>2, <1>3, <1>4, <1>5, <1>6, <1>7, <1>8, <1>9, <1>10, <1>11, <1>12, <1>13, <1>14,
    <1>15, <1>16, <1>17, <1>18, <1>19, <1>20, <1>21, <1>22, <1>23, <1>24 DEF Next, MainStep,
    ThreadStep, Ended

LEMMA LimitSetInit == Init => LimitSet
BY DEF Init, LimitSet

LEMMA LimitSetNext ==
  ASSUME Typed, Placed, Finished, LimitSet, [Next]_vars
  PROVE  LimitSet'
<1>1. CASE Arrive
  BY <1>1 DEF Arrive, LimitSet
<1>2. CASE TakenByAnother
  BY <1>2 DEF TakenByAnother, LimitSet
<1>3. CASE RequestShutdown
  BY <1>3 DEF RequestShutdown, LimitSet
<1>4. CASE StartLoop
  <2>1. options' = options /\ started' = started /\ pc = "start"
    BY <1>4 DEF StartLoop
  <2> QED
    BY <1>4, <2>1, OptionsTyped DEF StartLoop, Refused, LimitSet, Typed, TypedMain
<1>5. CASE Top
  BY <1>5 DEF Top, LimitSet
<1>6. CASE FindWork
  BY <1>6 DEF FindWork, LimitSet
<1>7. CASE Full
  BY <1>7 DEF Full, LimitSet
<1>8. CASE Receive
  BY <1>8 DEF Receive, LimitSet
<1>9. CASE HandOut
  BY <1>9 DEF HandOut, LimitSet
<1>10. CASE RunMessage
  <2>1. /\ UNCHANGED <<options, limit, exit_code, busy>>
        /\ pc' \notin {"start", "ended"} /\ pc \notin {"start", "ended"}
    BY <1>10 DEF RunMessage, CountFailure
  <2> QED
    BY <2>1 DEF LimitSet
<1>11. CASE EndOfMessages
  BY <1>11 DEF EndOfMessages, AfterMessages, LimitSet
<1>12. CASE Fetch
  BY <1>12 DEF Fetch, LeaveLoop, LimitSet
<1>13. CASE RunRow
  <2>1. /\ UNCHANGED <<options, limit, exit_code, busy>>
        /\ pc' \notin {"start", "ended"} /\ pc \notin {"start", "ended"}
    BY <1>13 DEF RunRow, CountFailure
  <2> QED
    BY <2>1 DEF LimitSet
<1>14. CASE Dispatch
  BY <1>14 DEF Dispatch, Submit, CountFailure, LosesRow, LimitSet
<1>15. CASE ExitInline
  BY <1>15 DEF ExitInline, Call, LeaveLoop, LimitSet
<1>16. CASE IdleRound
  BY <1>16 DEF IdleRound, LimitSet
<1>17. CASE Drain
  BY <1>17 DEF Drain, LimitSet
<1>18. CASE Stop
  BY <1>18 DEF Stop, LimitSet
<1>19. CASE Join
  BY <1>19 DEF Join, ExitCode, LimitSet
<1>20. ASSUME NEW e \in Threads, Begin(e) PROVE LimitSet'
  <2>1. /\ UNCHANGED <<options, limit, pc, exit_code, busy, processed>>
        /\ e \in Handed
    BY <1>20 DEF Begin, Handed
  <2> QED
    BY <2>1 DEF LimitSet, Placed, Finished
<1>21. ASSUME NEW e \in Threads, PutResult(e) PROVE LimitSet'
  BY <1>21 DEF PutResult, LimitSet
<1>22. ASSUME NEW e \in Threads, PutIdle(e) PROVE LimitSet'
  BY <1>22 DEF PutIdle, LimitSet
<1>23. ASSUME NEW e \in Threads, Exit(e) PROVE LimitSet'
  BY <1>23 DEF Exit, LimitSet
<1>24. CASE UNCHANGED vars
  BY <1>24 DEF LimitSet
<1> QED
  BY <1>1, <1>2, <1>3, <1>4, <1>5, <1>6, <1>7, <1>8, <1>9, <1>10, <1>11, <1>12, <1>13, <1>14,
    <1>15, <1>16, <1>17, <1>18, <1>19, <1>20, <1>21, <1>22, <1>23, <1>24 DEF Next, MainStep,
    ThreadStep, Ended

LEMMA UnderLimitInit == Init => UnderLimit
BY DEF Init, UnderLimit

LEMMA UnderLimitNext ==
  ASSUME Typed, Few, LimitSet, UnderLimit, [Next]_vars
  PROVE  UnderLimit'
<1>1. CASE Arrive
  BY <1>1, SameThreads DEF Arrive, UnderLimit, Typed, TypedMain
<1>2. CASE TakenByAnother
  BY <1>2, SameThreads DEF TakenByAnother, UnderLimit, Typed, TypedMain
<1>3. CASE RequestShutdown
  BY <1>3, SameThreads DEF RequestShutdown, UnderLimit, Typed, TypedMain
<1>4. CASE StartLoop
  <2>1. /\ limit' \in Nat
        /\ limit' > 0 => processed' = 0 /\ busy' = 0 /\ pc' = "top"
    BY <1>4, OptionsTyped DEF StartLoop, LimitSet, Typed, TypedMain
  <2> QED
    BY <2>1 DEF UnderLimit
<1>5. CASE Top
  BY <1>5, SameThreads DEF Top, Collect, UnderLimit, Typed, TypedMain, TypedQueues
<1>6. CASE FindWork
  BY <1>6, SameThreads DEF FindWork, UnderLimit, Typed, TypedMain
<1>7. CASE Full
  BY <1>7, SameThreads DEF Full, Collect, UnderLimit, Typed, TypedMain, TypedQueues
<1>8. CASE Receive
  <2>1. UNCHANGED <<options, limit, processed, busy>>
    BY <1>8 DEF Receive
  <2> QED
    BY <1>8, <2>1, Received, SameThreads DEF UnderLimit, Typed, TypedMain
<1>9. CASE HandOut
  <2>1. /\ round.hand > 0 /\ round'.hand = round.hand - 1 /\ pc = "messages" /\ ~Inline
        /\ UNCHANGED <<options, limit, pc, processed>>
    BY <1>9 DEF HandOut, Typed, TypedMain
  <2>2. busy' = busy + 1
    BY <1>9 DEF HandOut, Submit
  <2> QED
    BY <2>1, <2>2, SameThreads DEF UnderLimit, Typed, TypedMain
<1>10. CASE RunMessage
  <2>1. PICK n \in {0, 1} : round' = [round EXCEPT !.hand = @ - 1, !.count = @ + n]
    BY <1>10 DEF RunMessage
  <2>2. round'.hand = round.hand - 1 /\ round'.count = round.count + n
    BY <2>1 DEF Typed, TypedMain
  <2>3. UNCHANGED <<options, limit, pc, processed, busy>> /\ pc = "messages"
    BY <1>10 DEF RunMessage
  <2> QED
    BY <2>2, <2>3, SameThreads DEF UnderLimit, Typed, TypedMain
<1>11. CASE EndOfMessages
  <2>1. /\ pc = "messages" /\ round.hand = 0 /\ UNCHANGED <<options, limit, busy>>
        /\ processed' = processed + (IF Inline THEN round.count ELSE 0)
        /\ pc' = AfterMessages(processed' + busy)
    BY <1>11 DEF EndOfMessages
  <2>2. /\ pc' # "messages"
        /\ pc' # "drain" => ~ReachedMax(processed' + busy)
    BY <2>1 DEF AfterMessages
  <2> QED
    BY <2>1, <2>2 DEF UnderLimit, ReachedMax, Typed, TypedMain
<1>12. CASE Fetch
  BY <1>12, SameThreads DEF Fetch, LeaveLoop, UnderLimit, Typed, TypedMain
<1>13. CASE RunRow
  <2>1. PICK n \in {0, 1} : processed' = processed + n
    BY <1>13 DEF RunRow
  <2>2. /\ UNCHANGED <<options, limit, busy>> /\ pc = "row"
        /\ pc' = IF ReachedMax(processed') THEN "drain" ELSE "top"
    BY <1>13 DEF RunRow
  <2>3. busy = 0
    BY <1>13, FS_EmptySet DEF RunRow, Inline, Few, Size, Typed, TypedMain
  <2> QED
    BY <2>1, <2>2, <2>3 DEF UnderLimit, ReachedMax, Typed, TypedMain
<1>14. CASE Dispatch
  <2>1. processed' + busy' \in {processed + busy, processed + busy + 1}
    <3>1. \/ processed' = processed /\ busy' \in {busy, busy + 1}
          \/ processed' = processed + 1 /\ busy' = busy
      BY <1>14 DEF Dispatch, Submit
    <3> QED
      BY <3>1 DEF Typed, TypedMain
  <2>2. /\ UNCHANGED <<options, limit>> /\ pc = "row"
        /\ pc' = IF ReachedMax(processed' + busy') THEN "drain" ELSE "top"
    BY <1>14 DEF Dispatch
  <2> QED
    BY <2>1, <2>2 DEF UnderLimit, ReachedMax, Typed, TypedMain
<1>15. CASE ExitInline
  BY <1>15, SameThreads DEF ExitInline, Call, LeaveLoop, UnderLimit, Typed, TypedMain
<1>16. CASE IdleRound
  BY <1>16, SameThreads DEF IdleRound, UnderLimit, Typed, TypedMain
<1>17. CASE Drain
  BY <1>17, SameThreads DEF Drain, Collect, UnderLimit, Typed, TypedMain, TypedQueues
<1>18. CASE Stop
  BY <1>18, SameThreads DEF Stop, UnderLimit, Typed, TypedMain
<1>19. CASE Join
  BY <1>19, SameThreads DEF Join, UnderLimit, Typed, TypedMain
<1>20. ASSUME NEW e \in Threads, Begin(e) PROVE UnderLimit'
  <2>1. UNCHANGED <<options, limit, pc, round, processed, busy>>
    BY <1>20 DEF Begin
  <2> QED
    BY <2>1, SameThreads DEF UnderLimit
<1>21. ASSUME NEW e \in Threads, PutResult(e) PROVE UnderLimit'
  BY <1>21, SameThreads DEF PutResult, UnderLimit, Typed, TypedMain
<1>22. ASSUME NEW e \in Threads, PutIdle(e) PROVE UnderLimit'
  BY <1>22, SameThreads DEF PutIdle, UnderLimit, Typed, TypedMain
<1>23. ASSUME NEW e \in Threads, Exit(e) PROVE UnderLimit'
  BY <1>23, SameThreads DEF Exit, UnderLimit, Typed, TypedMain
<1>24. CASE UNCHANGED vars
  BY <1>24, SameThreads DEF UnderLimit, Typed, TypedMain
<1> QED
  BY <1>1, <1>2, <1>3, <1>4, <1>5, <1>6, <1>7, <1>8, <1>9, <1>10, <1>11, <1>12, <1>13, <1>14,
    <1>15, <1>16, <1>17, <1>18, <1>19, <1>20, <1>21, <1>22, <1>23, <1>24 DEF Next, MainStep,
    ThreadStep, Ended

LEMMA FinishedInit == Init => Finished
BY DEF Init, Finished

LEMMA FinishedNext ==
  ASSUME Typed, LimitSet, Finished, [Next]_vars
  PROVE  Finished'
<1>1. CASE Arrive
  BY <1>1 DEF Arrive, Finished, LimitSet, Typed, TypedMain
<1>2. CASE TakenByAnother
  BY <1>2 DEF TakenByAnother, Finished, LimitSet, Typed, TypedMain
<1>3. CASE RequestShutdown
  BY <1>3 DEF RequestShutdown, Finished, LimitSet, Typed, TypedMain
<1>4. CASE StartLoop
  BY <1>4 DEF StartLoop, Finished, LimitSet, Typed, TypedMain
<1>5. CASE Top
  BY <1>5 DEF Top, Collect, Finished, LimitSet, Typed, TypedMain
<1>6. CASE FindWork
  BY <1>6 DEF FindWork, Finished, LimitSet, Typed, TypedMain
<1>7. CASE Full
  BY <1>7 DEF Full, Collect, Finished, LimitSet, Typed, TypedMain
<1>8. CASE Receive
  BY <1>8 DEF Receive, Finished, LimitSet, Typed, TypedMain
<1>9. CASE HandOut
  BY <1>9 DEF HandOut, Submit, Finished, LimitSet, Typed, TypedMain
<1>10. CASE RunMessage
  <2>1. /\ UNCHANGED <<options, exit_code, busy>>
        /\ pc \in {"messages", "row"} /\ pc' \in {"messages", "drain", "top"}
    BY <1>10 DEF RunMessage, CountFailure
  <2> QED
    BY <2>1 DEF Finished
<1>11. CASE EndOfMessages
  BY <1>11 DEF EndOfMessages, AfterMessages, Finished, LimitSet, Typed, TypedMain
<1>12. CASE Fetch
  BY <1>12 DEF Fetch, LeaveLoop, Finished, LimitSet, Typed, TypedMain
<1>13. CASE RunRow
  <2>1. /\ UNCHANGED <<options, exit_code, busy>>
        /\ pc \in {"messages", "row"} /\ pc' \in {"messages", "drain", "top"}
    BY <1>13 DEF RunRow, CountFailure
  <2> QED
    BY <2>1 DEF Finished
<1>14. CASE Dispatch
  BY <1>14 DEF Dispatch, Submit, CountFailure, Finished, LimitSet, Typed, TypedMain
<1>15. CASE ExitInline
  BY <1>15 DEF ExitInline, Call, LeaveLoop, Finished, LimitSet, Typed, TypedMain
<1>16. CASE IdleRound
  BY <1>16 DEF IdleRound, Finished, LimitSet, Typed, TypedMain
<1>17. CASE Drain
  BY <1>17 DEF Drain, Collect, Finished, LimitSet, Typed, TypedMain
<1>18. CASE Stop
  BY <1>18 DEF Stop, Finished, LimitSet, Typed, TypedMain
<1>19. CASE Join
  BY <1>19 DEF Join, ExitCode, Finished, LimitSet, Typed, TypedMain
<1>20. ASSUME NEW e \in Threads, Begin(e) PROVE Finished'
  <2>1. /\ UNCHANGED <<options, exit_code, busy>>
        /\ pc' = pc
    BY <1>20 DEF Begin, CountFailure
  <2> QED
    BY <2>1 DEF Finished
<1>21. ASSUME NEW e \in Threads, PutResult(e) PROVE Finished'
  BY <1>21 DEF PutResult, Finished, LimitSet, Typed, TypedMain
<1>22. ASSUME NEW e \in Threads, PutIdle(e) PROVE Finished'
  BY <1>22 DEF PutIdle, Finished, LimitSet, Typed, TypedMain
<1>23. ASSUME NEW e \in Threads, Exit(e) PROVE Finished'
  BY <1>23 DEF Exit, Finished, LimitSet, Typed, TypedMain
<1>24. CASE UNCHANGED vars
  BY <1>24 DEF Finished, LimitSet, Typed, TypedMain
<1> QED
  BY <1>1, <1>2, <1>3, <1>4, <1>5, <1>6, <1>7, <1>8, <1>9, <1>10, <1>11, <1>12, <1>13, <1>14,
    <1>15, <1>16, <1>17, <1>18, <1>19, <1>20, <1>21, <1>22, <1>23, <1>24 DEF Next, MainStep,
    ThreadStep, Ended

\* What counts as a failure is one, and what does not had its row purged.
LEMMA RunTells ==
  ASSUME NEW job, NEW counts \in BOOLEAN, NEW fails \in BOOLEAN, NEW told \in BOOLEAN,
         Run(job, counts, fails, told)
  PROVE  (told => fails) /\ (fails => told \/ options.purged)
BY Zenon DEF Run

LEMMA ToldInit == Init => Told
BY DEF Init, Told

LEMMA ToldNext ==
  ASSUME Told, [Next]_vars
  PROVE  Told'
<1>1. CASE Arrive
  BY <1>1 DEF Arrive, Told
<1>2. CASE TakenByAnother
  BY <1>2 DEF TakenByAnother, Told
<1>3. CASE RequestShutdown
  BY <1>3 DEF RequestShutdown, Told
<1>4. CASE StartLoop
  BY <1>4 DEF StartLoop, Told
<1>5. CASE Top
  BY <1>5 DEF Top, Collect, Told
<1>6. CASE FindWork
  BY <1>6 DEF FindWork, Told
<1>7. CASE Full
  BY <1>7 DEF Full, Collect, Told
<1>8. CASE Receive
  BY <1>8 DEF Receive, Told
<1>9. CASE HandOut
  BY <1>9 DEF HandOut, Submit, Told
<1>10. CASE RunMessage
  <2>1. PICK counts, fails, told \in BOOLEAN :
          Run("message", counts, fails, told) /\ CountFailure(fails, told)
    BY <1>10 DEF RunMessage
  <2>2. (told => fails) /\ (fails => told \/ options.purged) /\ UNCHANGED options
    BY <1>10, <2>1, RunTells DEF RunMessage
  <2> QED
    BY <2>1, <2>2 DEF CountFailure, Told
<1>11. CASE EndOfMessages
  BY <1>11 DEF EndOfMessages, Told
<1>12. CASE Fetch
  BY <1>12 DEF Fetch, Told
<1>13. CASE RunRow
  <2>1. PICK counts, fails, told \in BOOLEAN :
          Run("row", counts, fails, told) /\ CountFailure(fails, told)
    BY <1>13 DEF RunRow
  <2>2. (told => fails) /\ (fails => told \/ options.purged) /\ UNCHANGED options
    BY <1>13, <2>1, RunTells DEF RunRow
  <2> QED
    BY <2>1, <2>2 DEF CountFailure, Told
<1>14. CASE Dispatch
  <2>1. (UNCHANGED report \/ CountFailure(TRUE, TRUE)) /\ UNCHANGED options
    BY <1>14 DEF Dispatch
  <2>2. CASE UNCHANGED report
    BY <2>1, <2>2 DEF Told
  <2>3. CASE CountFailure(TRUE, TRUE)
    BY <2>1, <2>3, Zenon DEF CountFailure, Told
  <2> QED
    BY <2>1, <2>2, <2>3
<1>15. CASE ExitInline
  BY <1>15 DEF ExitInline, Call, LeaveLoop, Told
<1>16. CASE IdleRound
  BY <1>16 DEF IdleRound, Told
<1>17. CASE Drain
  BY <1>17 DEF Drain, Collect, Told
<1>18. CASE Stop
  BY <1>18 DEF Stop, Told
<1>19. CASE Join
  BY <1>19 DEF Join, ExitCode, Told
<1>20. ASSUME NEW e \in Threads, Begin(e) PROVE Told'
  <2>1. PICK counts, fails, told \in BOOLEAN :
          /\ Run(inbox[e], counts, fails, told)
          /\ failing' = IF told THEN failing \cup {e} ELSE failing
          /\ trouble' = (trouble \/ fails)
          /\ UNCHANGED <<failed, options>>
    BY <1>20 DEF Begin
  <2>2. (told => fails) /\ (fails => told \/ options.purged)
    BY <2>1, RunTells
  <2> QED
    BY <2>1, <2>2 DEF Told
<1>21. ASSUME NEW e \in Threads, PutResult(e) PROVE Told'
  BY <1>21 DEF PutResult, Told
<1>22. ASSUME NEW e \in Threads, PutIdle(e) PROVE Told'
  BY <1>22 DEF PutIdle, Told
<1>23. ASSUME NEW e \in Threads, Exit(e) PROVE Told'
  BY <1>23 DEF Exit, Told
<1>24. CASE UNCHANGED vars
  BY <1>24 DEF Told
<1> QED
  BY <1>1, <1>2, <1>3, <1>4, <1>5, <1>6, <1>7, <1>8, <1>9, <1>10, <1>11, <1>12, <1>13, <1>14,
    <1>15, <1>16, <1>17, <1>18, <1>19, <1>20, <1>21, <1>22, <1>23, <1>24 DEF Next, MainStep,
    ThreadStep, Ended

LEMMA CountedInit == Init => Counted
<1> SUFFICES ASSUME Init PROVE Counted
  OBVIOUS
<1>1. Ran = {}
  BY DEF Init, Ran
<1> QED
  BY <1>1, FS_EmptySet DEF Init, Counted

\* A run that neither raises nor exits its executor counts what it starts.
LEMMA RunCounts ==
  ASSUME Typed, Counts, NEW job, NEW counts \in BOOLEAN, NEW fails \in BOOLEAN,
         NEW told \in BOOLEAN, Run(job, counts, fails, told)
  PROVE  started' = started + (IF counts THEN 1 ELSE 0)
BY OptionsTyped DEF Run, Call, Counts, Typed, TypedMain, TypedReport

LEMMA InlineIsEmpty ==
  ASSUME Typed, Inline
  PROVE  Handed = {} /\ Held = {} /\ Ran = {}
BY DEF Inline, Handed, Held, Ran

LEMMA CountedNext ==
  ASSUME Typed, Placed, Balanced, LimitSet, UnderLimit, Finished, Counted, [Next]_vars
  PROVE  Counted'
<1>1. CASE Arrive
  BY <1>1, Unmoved, SameThreads DEF Arrive, Counted, Counts
<1>2. CASE TakenByAnother
  BY <1>2, Unmoved, SameThreads DEF TakenByAnother, Counted, Counts
<1>3. CASE RequestShutdown
  BY <1>3, Unmoved, SameThreads DEF RequestShutdown, Counted, Counts
<1>4. CASE StartLoop
  <2>1. /\ UNCHANGED <<options, processed, results, inbox, thread, started>>
        /\ pc = "start" /\ pc' \in {"top", "ended"} /\ exit_code' # "exited"
    BY <1>4 DEF StartLoop, LimitSet
  <2> QED
    BY <2>1, Unmoved, SameThreads DEF Counted, Counts, LimitSet
<1>5. CASE Top
  <2>1. /\ UNCHANGED <<options, limit, inbox, thread, started, exit_code>>
        /\ pc # "messages" /\ pc' # "messages"
        /\ processed' + results'.counted = processed + results.counted
    BY <1>5 DEF Top, Collect, Typed, TypedMain, TypedQueues
  <2> QED
    BY <2>1, Unmoved, SameThreads, Sizes DEF Counted, Counts
<1>6. CASE FindWork
  BY <1>6, Unmoved, SameThreads DEF FindWork, Counted, Counts
<1>7. CASE Full
  <2>1. /\ UNCHANGED <<options, limit, inbox, thread, started, exit_code>>
        /\ pc # "messages" /\ pc' # "messages"
        /\ processed' + results'.counted = processed + results.counted
    BY <1>7 DEF Full, Collect, Typed, TypedMain, TypedQueues
  <2> QED
    BY <2>1, Unmoved, SameThreads, Sizes DEF Counted, Counts
<1>8. CASE Receive
  <2>1. UNCHANGED <<options, limit, processed, results, inbox, thread, started, exit_code>>
    BY <1>8 DEF Receive
  <2> QED
    BY <1>8, <2>1, Received, Unmoved, SameThreads DEF Counted, Counts
<1>9. CASE HandOut
  <2>1. PICK e \in Threads : inbox[e] = "empty" /\ Submit(e, "message")
    BY <1>9 DEF HandOut, Typed, TypedQueues
  <2>2. /\ UNCHANGED <<options, limit, processed, results, thread, started, exit_code, pc>>
        /\ ~Inline
    BY <1>9 DEF HandOut
  <2>3. Ran' = Ran
    BY <2>2, SameThreads DEF Ran
  <2> QED
    BY <2>2, <2>3, SameThreads DEF Counted, Counts
<1>10. CASE RunMessage
  <2>1. PICK counts, fails, told \in BOOLEAN :
          /\ Run("message", counts, fails, told)
          /\ round' = [round EXCEPT !.hand = @ - 1, !.count = @ + (IF counts THEN 1 ELSE 0)]
    BY <1>10 DEF RunMessage
  <2>2. /\ UNCHANGED <<options, limit, processed, results, inbox, thread, pc, exit_code>>
        /\ pc = "messages" /\ Inline
    BY <1>10 DEF RunMessage, CountFailure
  <2>3. round'.count = round.count + (IF counts THEN 1 ELSE 0)
    BY <2>1 DEF Typed, TypedMain
  <2>4. exit_code # "exited"
    BY <2>2 DEF Finished
  <2>5. Counts => started' = started + (IF counts THEN 1 ELSE 0)
    BY <2>1, RunCounts
  <2> QED
    BY <2>2, <2>3, <2>4, <2>5, Unmoved, SameThreads, Sizes DEF Counted, Counts, Typed,
      TypedMain,
      TypedQueues, TypedReport
<1>11. CASE EndOfMessages
  <2>1. /\ UNCHANGED <<options, limit, results, inbox, thread, started, exit_code>>
        /\ pc = "messages" /\ pc' # "messages"
        /\ processed' = processed + (IF Inline THEN round.count ELSE 0)
    BY <1>11 DEF EndOfMessages, AfterMessages
  <2>2. exit_code # "exited"
    BY <2>1 DEF Finished
  <2> QED
    BY <2>1, <2>2, Unmoved, SameThreads, Sizes DEF Counted, Counts, Typed, TypedMain,
      TypedQueues
<1>12. CASE Fetch
  <2>1. /\ UNCHANGED <<options, limit, processed, results, inbox, thread, started>>
        /\ pc = "fetch" /\ pc' # "messages"
    BY <1>12 DEF Fetch, LeaveLoop
  <2>2. Counts => exit_code' = exit_code
    BY <1>12 DEF Fetch, LeaveLoop, Counts
  <2> QED
    BY <2>1, <2>2, Unmoved, SameThreads DEF Counted, Counts
<1>13. CASE RunRow
  <2>1. PICK counts, fails, told \in BOOLEAN :
          /\ Run("row", counts, fails, told)
          /\ processed' = processed + (IF counts THEN 1 ELSE 0)
    BY <1>13 DEF RunRow
  <2>2. /\ UNCHANGED <<options, limit, results, inbox, thread, exit_code>>
        /\ pc = "row" /\ pc' # "messages"
    BY <1>13 DEF RunRow, CountFailure
  <2>3. exit_code # "exited"
    BY <2>2 DEF Finished
  <2>4. Counts => started' = started + (IF counts THEN 1 ELSE 0)
    BY <2>1, RunCounts
  <2> QED
    BY <2>1, <2>2, <2>3, <2>4, Unmoved, SameThreads, Sizes DEF Counted, Counts, Typed,
      TypedMain,
      TypedQueues, TypedReport
<1>14. CASE Dispatch
  <2>1. /\ UNCHANGED <<options, limit, results, thread, started>>
        /\ pc = "row" /\ pc' # "messages"
    BY <1>14 DEF Dispatch
  <2>2. Counts => processed' = processed /\ exit_code' = exit_code
    BY <1>14 DEF Dispatch, Counts, CountFailure
  <2>3. Ran' = Ran
    BY <2>1, SameThreads DEF Ran
  <2> QED
    BY <2>1, <2>2, <2>3, SameThreads DEF Counted, Counts
<1>15. CASE ExitInline
  <2>1. /\ UNCHANGED <<options, limit>> /\ started' = started + 1 /\ exit_code' = "exited"
        /\ Inline /\ (pc = "row" \/ (pc = "messages" /\ round.hand > 0))
    BY <1>15 DEF ExitInline, Call, LeaveLoop
  <2>2. exit_code # "exited"
    BY <2>1 DEF Finished
  <2>3. Counts /\ limit > 0 => started + 1 <= limit
    BY <2>1, <2>2, Sizes DEF Counted, UnderLimit, Balanced, Typed, TypedMain, TypedQueues,
      TypedReport
  <2> QED
    BY <2>1, <2>3, SameThreads DEF Counted, Counts
<1>16. CASE IdleRound
  BY <1>16, Unmoved, SameThreads DEF IdleRound, Counted, Counts
<1>17. CASE Drain
  <2>1. /\ UNCHANGED <<options, limit, inbox, thread, started, exit_code>>
        /\ pc # "messages" /\ pc' # "messages"
        /\ processed' + results'.counted = processed + results.counted
    BY <1>17 DEF Drain, Collect, Typed, TypedMain, TypedQueues
  <2> QED
    BY <2>1, Unmoved, SameThreads, Sizes DEF Counted, Counts
<1>18. CASE Stop
  <2>1. /\ UNCHANGED <<options, limit, processed, results, started, exit_code>>
        /\ pc # "messages" /\ pc' # "messages"
    BY <1>18 DEF Stop
  <2> QED
    BY <1>18, <2>1, Clears, SameThreads DEF Counted, Counts
<1>19. CASE Join
  <2>1. /\ UNCHANGED <<options, limit, processed, results, inbox, thread, started>>
        /\ pc # "messages" /\ pc' # "messages"
        /\ exit_code' = "exited" <=> exit_code = "exited"
    BY <1>19 DEF Join, ExitCode
  <2> QED
    BY <2>1, Unmoved, SameThreads DEF Counted, Counts
<1>20. ASSUME NEW e \in Threads, Begin(e) PROVE Counted'
  <2>1. PICK counts, fails, told \in BOOLEAN :
          /\ Run(inbox[e], counts, fails, told)
          /\ thread' = [thread EXCEPT ![e] = IF counts THEN "running" ELSE "missing"]
    BY <1>20 DEF Begin
  <2>2. /\ UNCHANGED <<options, limit, processed, results, pc, round, exit_code>>
        /\ ~Inline
    BY <1>20 DEF Begin, Inline
  <2>3. thread'[e] = "running" <=> counts
    BY <2>1 DEF Typed, TypedQueues
  <2>4. Counts => exit_code # "exited"
    BY <2>2 DEF Counts, Finished
  <2>5. Counts => started' = started + (IF counts THEN 1 ELSE 0)
    BY <2>1, RunCounts
  <2> QED
    BY <1>20, <2>2, <2>3, <2>4, <2>5, Begins, SameThreads, Sizes DEF Counted, Counts, Typed,
      TypedMain,
      TypedQueues, TypedReport
<1>21. ASSUME NEW e \in Threads, PutResult(e) PROVE Counted'
  <2>1. /\ UNCHANGED <<options, limit, processed, pc, round, started, exit_code>>
    BY <1>21 DEF PutResult
  <2>2. results'.counted + Cardinality(Ran') = results.counted + Cardinality(Ran)
    BY <1>21, Puts
  <2>3. Cardinality(Ran') \in Nat /\ results'.counted \in Nat
    <3>1. IsFiniteSet(Ran')
      BY <1>21, Sizes, SameThreads, FS_Subset, <2>1 DEF Ran, PutResult, Typed, TypedQueues
    <3> QED
      BY <1>21, <3>1, Puts, FS_CardinalityType
  <2> QED
    BY <2>1, <2>2, <2>3, SameThreads, Sizes DEF Counted, Counts, Typed, TypedMain, TypedQueues,
      TypedReport
<1>22. ASSUME NEW e \in Threads, PutIdle(e) PROVE Counted'
  <2>1. UNCHANGED <<options, limit, processed, results, pc, round, started, exit_code>>
    BY <1>22 DEF PutIdle
  <2> QED
    BY <1>22, <2>1, Idles, SameThreads DEF Counted, Counts
<1>23. ASSUME NEW e \in Threads, Exit(e) PROVE Counted'
  <2>1. UNCHANGED <<options, limit, processed, results, pc, round, started, exit_code>>
    BY <1>23 DEF Exit
  <2> QED
    BY <1>23, <2>1, Idles, SameThreads DEF Counted, Counts
<1>24. CASE UNCHANGED vars
  BY <1>24, Unmoved, SameThreads DEF Counted, Counts
<1> QED
  BY <1>1, <1>2, <1>3, <1>4, <1>5, <1>6, <1>7, <1>8, <1>9, <1>10, <1>11, <1>12, <1>13, <1>14,
    <1>15, <1>16, <1>17, <1>18, <1>19, <1>20, <1>21, <1>22, <1>23, <1>24 DEF Next, MainStep,
    ThreadStep, Ended

LEMMA ReportedInit == Init => Reported
BY DEF Init, Reported

LEMMA ReportedNext ==
  ASSUME Typed, LimitSet, Finished, Reported, [Next]_vars
  PROVE  Reported'
<1>1. CASE Arrive
  BY <1>1, SameThreads DEF Arrive, Reported, ExitCode
<1>2. CASE TakenByAnother
  BY <1>2, SameThreads DEF TakenByAnother, Reported, ExitCode
<1>3. CASE RequestShutdown
  BY <1>3, SameThreads DEF RequestShutdown, Reported, ExitCode
<1>4. CASE StartLoop
  BY <1>4 DEF StartLoop, Reported
<1>5. CASE Top
  <2>1. pc' # "ended"
    BY <1>5 DEF Top
  <2> QED
    BY <2>1 DEF Reported
<1>6. CASE FindWork
  <2>1. pc' # "ended"
    BY <1>6 DEF FindWork
  <2> QED
    BY <2>1 DEF Reported
<1>7. CASE Full
  <2>1. pc' # "ended"
    BY <1>7 DEF Full
  <2> QED
    BY <2>1 DEF Reported
<1>8. CASE Receive
  <2>1. pc' # "ended"
    BY <1>8 DEF Receive
  <2> QED
    BY <2>1 DEF Reported
<1>9. CASE HandOut
  <2>1. pc' # "ended"
    BY <1>9 DEF HandOut
  <2> QED
    BY <2>1 DEF Reported
<1>10. CASE RunMessage
  <2>1. pc' # "ended"
    BY <1>10 DEF RunMessage
  <2> QED
    BY <2>1 DEF Reported
<1>11. CASE EndOfMessages
  <2>1. pc' # "ended"
    BY <1>11 DEF EndOfMessages, AfterMessages
  <2> QED
    BY <2>1 DEF Reported
<1>12. CASE Fetch
  <2>1. pc' # "ended"
    BY <1>12 DEF Fetch, LeaveLoop
  <2> QED
    BY <2>1 DEF Reported
<1>13. CASE RunRow
  <2>1. pc' # "ended"
    BY <1>13 DEF RunRow
  <2> QED
    BY <2>1 DEF Reported
<1>14. CASE Dispatch
  <2>1. pc' # "ended"
    BY <1>14 DEF Dispatch
  <2> QED
    BY <2>1 DEF Reported
<1>15. CASE ExitInline
  <2>1. pc' # "ended"
    BY <1>15 DEF ExitInline, LeaveLoop
  <2> QED
    BY <2>1 DEF Reported
<1>16. CASE IdleRound
  <2>1. pc' # "ended"
    BY <1>16 DEF IdleRound
  <2> QED
    BY <2>1 DEF Reported
<1>17. CASE Drain
  <2>1. pc' # "ended"
    BY <1>17 DEF Drain
  <2> QED
    BY <2>1 DEF Reported
<1>18. CASE Stop
  <2>1. pc' # "ended"
    BY <1>18 DEF Stop
  <2> QED
    BY <2>1 DEF Reported
<1>19. CASE Join
  <2>1. /\ pc = "join" /\ \A e \in Threads : thread[e] = "exited"
        /\ exit_code' = IF exit_code = "none" THEN ExitCode ELSE exit_code
        /\ UNCHANGED <<options, processed, failed, thread>>
    BY <1>19 DEF Join
  <2>2. ExitCode' = ExitCode
    BY <2>1 DEF ExitCode
  <2>3. exit_code \in {"none", "raised", "exited"}
    BY <2>1 DEF Finished
  <2> QED
    BY <2>1, <2>2, <2>3, SameThreads DEF Reported
<1>20. ASSUME NEW e \in Threads, Begin(e) PROVE Reported'
  <2>1. UNCHANGED <<pc, processed, exit_code>> /\ thread[e] # "exited"
    BY <1>20 DEF Begin
  <2> QED
    BY <2>1 DEF Reported
<1>21. ASSUME NEW e \in Threads, PutResult(e) PROVE Reported'
  <2>1. UNCHANGED <<pc, processed, exit_code>> /\ thread[e] # "exited"
    BY <1>21 DEF PutResult
  <2> QED
    BY <2>1 DEF Reported
<1>22. ASSUME NEW e \in Threads, PutIdle(e) PROVE Reported'
  <2>1. UNCHANGED <<pc, processed, exit_code>> /\ thread[e] # "exited"
    BY <1>22 DEF PutIdle
  <2> QED
    BY <2>1 DEF Reported
<1>23. ASSUME NEW e \in Threads, Exit(e) PROVE Reported'
  <2>1. UNCHANGED <<pc, processed, exit_code>> /\ thread[e] # "exited"
    BY <1>23 DEF Exit
  <2> QED
    BY <2>1 DEF Reported
<1>24. CASE UNCHANGED vars
  BY <1>24, SameThreads DEF Reported, ExitCode
<1> QED
  BY <1>1, <1>2, <1>3, <1>4, <1>5, <1>6, <1>7, <1>8, <1>9, <1>10, <1>11, <1>12, <1>13, <1>14,
    <1>15, <1>16, <1>17, <1>18, <1>19, <1>20, <1>21, <1>22, <1>23, <1>24 DEF Next, MainStep,
    ThreadStep, Ended

LEMMA OrderlyInit == Init => Orderly
BY TypedInit, PlacedInit, RoomInit, BalancedInit, FewInit, LimitSetInit, UnderLimitInit,
  CountedInit, FinishedInit, ToldInit, ReportedInit DEF Orderly

LEMMA OrderlyNext ==
  ASSUME Orderly, [Next]_vars
  PROVE  Orderly'
<1>1. Typed'
  BY TypedMainNext, TypedQueuesNext, TypedReportNext DEF Orderly, Typed
<1>2. Placed' /\ Room' /\ Balanced' /\ Few'
  BY PlacedNext, RoomNext, BalancedNext, FewNext DEF Orderly
<1>3. LimitSet' /\ UnderLimit' /\ Counted' /\ Finished'
  BY LimitSetNext, UnderLimitNext, CountedNext, FinishedNext DEF Orderly
<1>4. Told' /\ Reported'
  BY ToldNext, ReportedNext DEF Orderly
<1> QED
  BY <1>1, <1>2, <1>3, <1>4 DEF Orderly

LEMMA AlwaysOrderly == Spec => []Orderly
BY OrderlyInit, OrderlyNext, PTL DEF Spec

LEMMA OrderlyTypeOK == Orderly => TypeOK
<1> SUFFICES ASSUME Orderly PROVE TypeOK
  OBVIOUS
<1> USE DEF Orderly
<1>1. round \in [hand: Nat, count: Nat, from: {"poll", "wait"}]
  <2>1. /\ round.hand \in Nat /\ round.count \in Nat /\ round.from \in {"poll", "wait"}
        /\ round = [hand |-> round.hand, count |-> round.count, from |-> round.from]
    BY DEF Typed, TypedMain
  <2> QED
    BY <2>1
<1>2. busy \in Outstanding /\ results.counted \in Outstanding /\ results.other \in Outstanding
  BY Sizes DEF Few, Balanced, Outstanding, Size, Typed, TypedMain, TypedQueues
<1>3. results \in [counted: Outstanding, other: Outstanding]
  <2>1. results = [counted |-> results.counted, other |-> results.other]
    BY DEF Typed, TypedQueues
  <2> QED
    BY <1>2, <2>1
<1> QED
  BY <1>1, <1>2, <1>3 DEF TypeOK, Typed, TypedMain, TypedQueues, TypedReport, Held

\* Every variable has its type; what is out is bounded by the executors.
THEOREM WorkerLoopTypeOK == Spec => []TypeOK
BY AlwaysOrderly, OrderlyTypeOK, PTL

\* acquire() never comes back empty-handed, no inbox is full when a job is
\* put in it, and busy is what it stands for.
THEOREM SlotsAlwaysAccounted == Spec => []SlotsAccounted
<1>1. Orderly => SlotsAccounted
  <2> SUFFICES ASSUME Orderly PROVE SlotsAccounted
    OBVIOUS
  <2>1. HandsOutToFree
    BY DEF Orderly, HandsOutToFree, Placed, Room, Typed, TypedQueues
  <2>2. BusyIsOut
    BY DEF Orderly, BusyIsOut, Balanced, Handed, Held
  <2> QED
    BY <2>1, <2>2 DEF SlotsAccounted
<1> QED
  BY <1>1, AlwaysOrderly, PTL

\* --max-tasks, with its jitter, bounds the tasks that are started.
THEOREM AlwaysWithinMaxTasks == Spec => []WithinMaxTasks
<1>1. Orderly => WithinMaxTasks
  <2> SUFFICES ASSUME Orderly, options.max_tasks > 0, Counts
               PROVE  /\ started <= limit
                      /\ limit > 0 =>
                           limit \in options.max_tasks
                                     .. options.max_tasks + options.max_tasks_jitter
    BY DEF WithinMaxTasks, Counts
  <2> USE DEF Orderly
  <2>1. limit > 0 => started <= limit
    BY Sizes DEF Counted, UnderLimit, Balanced, Typed, TypedMain, TypedQueues, TypedReport
  <2> QED
    BY <2>1, OptionsTyped DEF LimitSet, Typed, TypedMain, TypedReport
<1> QED
  BY <1>1, AlwaysOrderly, PTL

\* What the command says in the end is what it did, and no executor is left
\* behind.
THEOREM AlwaysReportsWhatItDid == Spec => []ReportsWhatItDid
<1>1. Orderly => ReportsWhatItDid
  <2> SUFFICES ASSUME Orderly, pc = "ended", exit_code # "refused"
               PROVE  /\ ~options.raises /\ ~options.exits /\ ~options.purged => processed = started
                      /\ \A e \in Threads : thread[e] = "exited"
                      /\ exit_code \notin {"raised", "exited"} =>
                           /\ exit_code = "failed" => trouble
                           /\ trouble => exit_code = "failed" \/ options.purged
                           /\ exit_code = "empty" => processed = 0
                           /\ processed = 0 /\ ~trouble => exit_code = "empty"
    BY DEF ReportsWhatItDid
  <2> USE DEF Orderly
  <2>1. exit_code \notin {"raised", "exited"} => Ran = {} /\ Held = {} /\ results.counted = 0
    <3>1. exit_code \notin {"raised", "exited"} => busy = 0
      BY DEF Finished
    <3>2. busy = 0 => Cardinality(Ran) = 0 /\ Cardinality(Held) = 0 /\ results.counted = 0
      BY Sizes DEF Balanced, Typed, TypedQueues
    <3> QED
      BY <3>1, <3>2, Sizes, FS_EmptySet
  <2>2. ~options.raises /\ ~options.exits /\ ~options.purged => processed = started
    BY <2>1, FS_EmptySet DEF Finished, Counted, Counts, Typed, TypedMain
  <2>3. \A e \in Threads : thread[e] = "exited"
    BY DEF Reported
  <2>4. ASSUME exit_code \notin {"raised", "exited"}
        PROVE  /\ exit_code = "failed" => trouble
               /\ trouble => exit_code = "failed" \/ options.purged
               /\ exit_code = "empty" => processed = 0
               /\ processed = 0 /\ ~trouble => exit_code = "empty"
    <3>1. (failed => trouble) /\ (trouble => failed \/ options.purged)
      BY <2>1, <2>4 DEF Told, Typed, TypedReport
    <3>2. exit_code = ExitCode
      BY <2>4 DEF Reported
    <3> QED
      BY <3>1, <3>2 DEF ExitCode
  <2> QED
    BY <2>2, <2>3, <2>4
<1> QED
  BY <1>1, AlwaysOrderly, PTL

=============================================================================
