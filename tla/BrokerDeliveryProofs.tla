------------------------ MODULE BrokerDeliveryProofs ------------------------
(***************************************************************************)
(* Proofs about BrokerDelivery: the types of its state, and that a task    *)
(* that only its messages can bring to a worker keeps one of them for as   *)
(* long as it is READY, for any tasks, workers and deployments.            *)
(***************************************************************************)
EXTENDS BrokerDelivery, TLAPS

States == {"loop", "work", "selected", "claim", "run", "ack", "nack"}
Statuses == {"NONE", "READY", "RUNNING", "COMPLETED"}
Enqueued == {"new", "inserted", "notified", "committed", "rolled back"}

\* The messages a worker in state x has in hand, opened or not.
Carries(x) == x.hand \cup ({x.current} \cap Messages)

\* What a step makes of the state of a worker.
At(x, pc) == [x EXCEPT !.pc = pc]
Got(x, M) == [x EXCEPT !.pc = "work", !.hand = M, !.ran = FALSE]
Took(x, t) == [x EXCEPT !.pc = "selected", !.task = t]
Opened(x, pc, m) == [x EXCEPT !.pc = pc, !.hand = @ \ {m}, !.current = m, !.task = m[1]]
Left(x, pc, ran) == IF x.current = NoMessage THEN Start("poll")
                    ELSE [x EXCEPT !.pc = pc, !.ran = @ \/ ran]
Closed(x) == [x EXCEPT !.pc = "work", !.current = NoMessage, !.task = NoTask]

LEMMA NoMessageIsNone == NoMessage \notin Messages
BY DeliveryAssumption

LEMMA AtFields ==
  ASSUME NEW x \in Worker, NEW pc \in States
  PROVE  /\ At(x, pc) \in Worker /\ At(x, pc).pc = pc
         /\ At(x, pc).task = x.task /\ At(x, pc).current = x.current
         /\ At(x, pc).round = x.round /\ At(x, pc).hand = x.hand
BY DEF Worker, At, States

LEMMA GotFields ==
  ASSUME NEW x \in Worker, NEW M \in SUBSET Messages
  PROVE  /\ Got(x, M) \in Worker /\ Got(x, M).pc = "work" /\ Got(x, M).hand = M
         /\ Got(x, M).current = x.current /\ Got(x, M).round = x.round
<1>1. Got(x, M) \in Worker
  BY DEF Worker, Got
<1>2. Got(x, M).pc = "work" /\ Got(x, M).hand = M
  BY DEF Worker, Got
<1>3. Got(x, M).current = x.current /\ Got(x, M).round = x.round
  BY DEF Worker, Got
<1> QED
  BY <1>1, <1>2, <1>3

LEMMA TookFields ==
  ASSUME NEW x \in Worker, NEW t \in Tasks
  PROVE  /\ Took(x, t) \in Worker /\ Took(x, t).pc = "selected" /\ Took(x, t).task = t
BY DEF Worker, Took

LEMMA OpenedFields ==
  ASSUME NEW x \in Worker, NEW pc \in States, NEW m \in Messages
  PROVE  /\ Opened(x, pc, m) \in Worker
         /\ Opened(x, pc, m).pc = pc /\ Opened(x, pc, m).task = m[1]
         /\ Opened(x, pc, m).hand = x.hand \ {m} /\ Opened(x, pc, m).current = m
         /\ Opened(x, pc, m).round = x.round
<1>0. m[1] \in Tasks
  BY DEF Messages
<1>1. Opened(x, pc, m) \in Worker
  BY <1>0 DEF Worker, Opened, States
<1>2. Opened(x, pc, m).pc = pc /\ Opened(x, pc, m).task = m[1]
  BY DEF Worker, Opened
<1>3. Opened(x, pc, m).hand = x.hand \ {m} /\ Opened(x, pc, m).current = m
  BY DEF Worker, Opened
<1>4. Opened(x, pc, m).round = x.round
  BY DEF Worker, Opened
<1> QED
  BY <1>1, <1>2, <1>3, <1>4

LEMMA StartFields ==
  ASSUME NEW round \in {"poll", "sweep", "wait"}
  PROVE  /\ Start(round) \in Worker
         /\ Start(round).pc = "loop" /\ Start(round).round = round
         /\ Start(round).hand = {} /\ Start(round).current = NoMessage
         /\ Carries(Start(round)) = {}
BY NoMessageIsNone DEF Worker, Start, Carries

LEMMA ClosedFields ==
  ASSUME NEW x \in Worker
  PROVE  /\ Closed(x) \in Worker /\ Closed(x).pc = "work"
         /\ Closed(x).hand = x.hand /\ Closed(x).current = NoMessage
         /\ Closed(x).round = x.round /\ Carries(Closed(x)) = x.hand
<1>1. Closed(x) \in Worker
  BY DEF Worker, Closed
<1>2. Closed(x).pc = "work" /\ Closed(x).current = NoMessage
  BY DEF Worker, Closed
<1>3. Closed(x).hand = x.hand /\ Closed(x).round = x.round
  BY DEF Worker, Closed
<1> QED
  BY <1>1, <1>2, <1>3, NoMessageIsNone DEF Carries

\* What ends the work on a message keeps it until it is answered.
LEMMA LeftFields ==
  ASSUME NEW x \in Worker, NEW pc \in States, NEW ran \in BOOLEAN
  PROVE  /\ Left(x, pc, ran) \in Worker /\ Left(x, pc, ran).pc \in {"loop", pc}
         /\ x.round = "poll" => Left(x, pc, ran).round = "poll"
         /\ x.current # NoMessage =>
              /\ Left(x, pc, ran).pc = pc /\ Left(x, pc, ran).task = x.task
              /\ Left(x, pc, ran).current = x.current /\ Left(x, pc, ran).hand = x.hand
<1>1. CASE x.current = NoMessage
  BY <1>1, StartFields DEF Left
<1>2. CASE x.current # NoMessage
  <2> DEFINE y == [x EXCEPT !.pc = pc, !.ran = @ \/ ran]
  <2>1. y \in Worker
    BY DEF Worker, States
  <2>2. y.pc = pc /\ y.task = x.task
    BY DEF Worker
  <2>3. y.current = x.current /\ y.hand = x.hand /\ y.round = x.round
    BY DEF Worker
  <2>4. Left(x, pc, ran) = y
    BY <1>2 DEF Left
  <2> HIDE DEF y
  <2> QED
    BY <2>1, <2>2, <2>3, <2>4
<1> QED
  BY <1>1, <1>2

LEMMA CarriesMessages ==
  ASSUME NEW x \in Worker PROVE Carries(x) \subseteq Messages
BY DEF Carries, Worker

-----------------------------------------------------------------------------
(* What holds in every deployment.                                         *)

Working == {"selected", "claim", "run"}

Shaped ==
  /\ options \in Deployments /\ NoOne \notin Workers
  /\ worker \in [Workers -> Worker]
  /\ \A w \in Workers : worker[w].pc \in Working => worker[w].task \in Tasks
  /\ app \in [Tasks -> Enqueued] /\ status \in [Tasks -> Statuses]
  /\ due \subseteq Tasks /\ unannounced \subseteq Tasks
  /\ lock \in [Tasks -> Workers \cup {NoOne}] /\ sent \in [Tasks -> 0 .. MaxSends]
  /\ faults \in 0 .. options.max_faults /\ crashes \in 0 .. options.max_crashes
  /\ queue \subseteq Messages /\ visible \subseteq queue

\* A row is locked by whoever has selected it and not yet unlocked it.
LocksHeld == \A t \in Tasks, w \in Workers :
  lock[t] = w => worker[w].pc = "selected" /\ worker[w].task = t

Base == Shaped /\ LocksHeld

LEMMA ShapedIsTyped == ASSUME Shaped PROVE TypeOK
BY DEF Shaped, TypeOK, WorkersTypeOK, Enqueued, Statuses

LEMMA Bounds ==
  ASSUME options \in Deployments
  PROVE  options.max_faults \in Nat /\ options.max_crashes \in Nat /\ NoOne \notin Workers
BY DeliveryAssumption DEF Workers

LEMMA BaseInit == Init => Base
<1> SUFFICES ASSUME Init PROVE Base
  OBVIOUS
<1> USE DEF Init, WorkersInit
<1>1. options.max_faults \in Nat /\ options.max_crashes \in Nat /\ NoOne \notin Workers
  BY Bounds
<1>2. MaxSends \in Nat
  BY DeliveryAssumption
<1>3. /\ worker \in [Workers -> Worker]
      /\ \A w \in Workers : worker[w].pc = "loop"
  BY StartFields
<1>4. app \in [Tasks -> Enqueued] /\ status \in [Tasks -> Statuses]
  BY DEF Enqueued, Statuses
<1>5. lock \in [Tasks -> Workers \cup {NoOne}]
  OBVIOUS
<1>6. sent \in [Tasks -> 0 .. MaxSends]
  BY <1>2
<1>7. faults \in 0 .. options.max_faults /\ crashes \in 0 .. options.max_crashes
  BY <1>1
<1>8. Shaped
  BY <1>1, <1>3, <1>4, <1>5, <1>6, <1>7 DEF Shaped, Working
<1>9. LocksHeld
  BY <1>1 DEF LocksHeld
<1> QED
  BY <1>8, <1>9 DEF Base

LEMMA Moved ==
  ASSUME Shaped, NEW w \in Workers, NEW x \in Worker, Set(w, x), UNCHANGED options
  PROVE  /\ worker' \in [Workers -> Worker] /\ Workers' = Workers
         /\ worker'[w] = x /\ \A v \in Workers \ {w} : worker'[v] = worker[v]
BY DEF Shaped, Set, Workers

\* A step of a worker, with what it needs to keep the above.
WorkerMoves(w) ==
  /\ UNCHANGED <<options, app, due, sent, unannounced>> /\ Workers' = Workers
  /\ worker' \in [Workers -> Worker] /\ \A v \in Workers \ {w} : worker'[v] = worker[v]
  /\ worker'[w].pc \in Working => worker'[w].task \in Tasks
  /\ status' \in [Tasks -> Statuses] /\ lock' \in [Tasks -> Workers \cup {NoOne}]
  /\ faults' \in 0 .. options.max_faults /\ crashes' \in 0 .. options.max_crashes
  /\ queue' \subseteq queue /\ visible' \subseteq queue'
  /\ \A t \in Tasks : lock'[t] = w => worker'[w].pc = "selected" /\ worker'[w].task = t
  /\ \A t \in Tasks : lock'[t] # w => lock'[t] \in {lock[t], NoOne}

LEMMA BaseKept == ASSUME Base, NEW w \in Workers, WorkerMoves(w) PROVE Base'
<1>1. Shaped'
  BY DEF Base, Shaped, WorkerMoves
<1>2. LocksHeld'
  BY DEF Base, Shaped, LocksHeld, WorkerMoves
<1> QED
  BY <1>1, <1>2 DEF Base

-----------------------------------------------------------------------------
(* What holds where nothing but messages brings a task to a worker: a row  *)
(* is there before its message, no call to the queue fails, and workers    *)
(* neither die nor meet errors, or else no message comes back to a second  *)
(* worker.                                                                 *)

\* Messages do not come back while they are looked at, and are sent once.
Alone == ~options.short_visibility /\ ~options.recovery

\* No worker dies, and none meets an error.
Calm == options.max_crashes = 0 /\ options.max_faults = 0

Trusty ==
  /\ ~options.sweeps /\ options.in_transaction = {} /\ options.far = {}
  /\ ~options.calls_may_fail
  /\ Calm \/ Alone

\* A worker at a task has opened a message about it.
Attached == \A w \in Workers :
  /\ worker[w].round = "poll"
  /\ worker[w].pc \in {"selected", "claim", "run", "ack"} =>
       worker[w].current \in Messages /\ worker[w].current[1] = worker[w].task

\* A message is about a task whose row was there when it was sent.
Known ==
  /\ due = Tasks /\ unannounced = {}
  /\ \A t \in Tasks : app[t] \in {"new", "inserted"} => sent[t] = 0
  /\ \A t \in Tasks : app[t] # "new" => status[t] # "NONE"
  /\ \A m \in queue : sent[m[1]] > 0
  /\ \A w \in Workers : \A m \in Carries(worker[w]) : sent[m[1]] > 0

\* A task has one message, and one worker at most has it.
Single ==
  Alone =>
    /\ \A t \in Tasks : sent[t] <= 1
    /\ \A m \in queue : m[2] = 1
    /\ \A w \in Workers :
         /\ Carries(worker[w]) \subseteq queue \ visible
         /\ worker[w].current \notin worker[w].hand
    /\ \A w \in Workers, v \in Workers :
         v # w => Carries(worker[v]) \cap Carries(worker[w]) = {}

RunningIsRun ==
  Calm =>
    \A t \in Tasks : status[t] = "RUNNING" =>
      \E w \in Workers : worker[w].pc = "run" /\ worker[w].task = t

\* Somebody is about to claim t, and will get to do it.
Attended(t) == Calm /\ Handled(t)

AckedIsDone == \A w \in Workers :
  worker[w].pc = "ack" /\ status[worker[w].task] = "READY" => Attended(worker[w].task)

Covered == \A t \in Tasks :
  status[t] = "READY" /\ app[t] \in {"notified", "committed"} =>
    (\E m \in queue : m[1] = t) \/ Attended(t)

Firm == Trusty /\ Attached /\ Known /\ Single /\ RunningIsRun /\ AckedIsDone /\ Covered

LEMMA FirmCovers == ASSUME Shaped, options.sweeps \/ Firm PROVE ReadyIsCovered
BY DEF Firm, Trusty, Covered, Attended, ReadyIsCovered

LEMMA FirmInit == ASSUME Init, Trusty PROVE Firm
<1> USE DEF Init, WorkersInit
<1>1. /\ \A w \in Workers : worker[w] = Start("poll")
      /\ \A w \in Workers : worker[w].pc = "loop" /\ worker[w].round = "poll"
      /\ \A w \in Workers : worker[w].hand = {} /\ Carries(worker[w]) = {}
  BY StartFields
<1>2. Attached /\ RunningIsRun /\ AckedIsDone /\ Covered
  BY <1>1 DEF Attached, RunningIsRun, AckedIsDone, Covered
<1>3. Known
  BY <1>1 DEF Known, Trusty
<1>4. Single
  BY <1>1 DEF Single
<1> QED
  BY <1>2, <1>3, <1>4 DEF Firm

-----------------------------------------------------------------------------
(* The steps of a worker where only messages bring tasks.                  *)

\* What a step of w may do to messages and rows.
FirmMoves(w) ==
  /\ worker'[w].round = "poll"
  /\ worker'[w].pc \in {"selected", "claim", "run", "ack"} =>
       worker'[w].current \in Messages /\ worker'[w].current[1] = worker'[w].task
  /\ \A t \in Tasks :
       /\ status'[t] = "NONE" => status[t] = "NONE"
       /\ status'[t] = "READY" => status[t] = "READY"
       /\ status'[t] = "READY" /\ Attended(t) => Attended(t)'
       /\ Calm /\ status'[t] = "RUNNING" =>
            \/ status[t] = "RUNNING" /\ ~(worker[w].pc = "run" /\ worker[w].task = t)
            \/ worker'[w].pc = "run" /\ worker'[w].task = t
  /\ Carries(worker'[w]) \subseteq Carries(worker[w]) \cup queue
  /\ Alone =>
       /\ Carries(worker'[w]) \subseteq (Carries(worker[w]) \cup visible) \cap queue'
       /\ visible' \subseteq (visible \cup Carries(worker[w])) \ Carries(worker'[w])
       /\ queue \ queue' \subseteq Carries(worker[w])
       /\ worker'[w].current \notin worker'[w].hand
  /\ \A m \in queue \ queue' : status'[m[1]] = "READY" => Attended(m[1])'
  /\ worker'[w].pc = "ack" /\ status'[worker'[w].task] = "READY" =>
       Attended(worker[w].task)'

LEMMA FirmKept ==
  ASSUME Base, Firm, NEW w \in Workers, WorkerMoves(w), FirmMoves(w)
  PROVE  Firm'
<1>1. /\ UNCHANGED <<options, app, due, sent, unannounced>> /\ Workers' = Workers
      /\ \A v \in Workers \ {w} : worker'[v] = worker[v]
      /\ queue' \subseteq queue /\ visible' \subseteq queue'
  BY DEF WorkerMoves
<1>2. Trusty'
  BY <1>1 DEF Firm, Trusty, Alone, Calm
<1>3. Attached'
  BY <1>1 DEF Firm, Attached, FirmMoves
<1>4. Known'
  <2>1. \A v \in Workers : \A m \in Carries(worker'[v]) : sent[m[1]] > 0
    <3>1. \A m \in queue \cup Carries(worker[w]) : sent[m[1]] > 0
      BY DEF Firm, Known
    <3>2. \A m \in Carries(worker'[w]) : sent[m[1]] > 0
      BY <3>1 DEF FirmMoves
    <3> QED
      BY <1>1, <3>2 DEF Firm, Known
  <2>2. \A t \in Tasks : app[t] # "new" => status'[t] # "NONE"
    BY DEF Firm, Known, FirmMoves
  <2> QED
    BY <1>1, <2>1, <2>2 DEF Firm, Known
<1>5. Single'
  <2> SUFFICES ASSUME Alone PROVE Single'
    BY <1>1 DEF Single, Alone
  <2>1. /\ Carries(worker'[w]) \subseteq (Carries(worker[w]) \cup visible) \cap queue'
        /\ visible' \subseteq (visible \cup Carries(worker[w])) \ Carries(worker'[w])
        /\ queue \ queue' \subseteq Carries(worker[w])
        /\ worker'[w].current \notin worker'[w].hand
    BY DEF FirmMoves
  <2>2. /\ \A t \in Tasks : sent[t] <= 1
        /\ \A m \in queue : m[2] = 1
    BY DEF Firm, Single
  <2>3. \A v \in Workers : /\ Carries(worker[v]) \subseteq queue \ visible
                           /\ worker[v].current \notin worker[v].hand
    BY DEF Firm, Single
  <2>4. \A u, v \in Workers : u # v => Carries(worker[u]) \cap Carries(worker[v]) = {}
    BY DEF Firm, Single
  <2>5. ASSUME NEW v \in Workers \ {w}
        PROVE  /\ Carries(worker[v]) \cap Carries(worker'[w]) = {}
               /\ Carries(worker[v]) \subseteq queue' \ visible'
    BY <2>1, <2>3, <2>4, <2>5
  <2>6. Carries(worker'[w]) \subseteq queue' \ visible'
    BY <2>1
  <2>7. \A v \in Workers : /\ Carries(worker'[v]) \subseteq queue' \ visible'
                           /\ worker'[v].current \notin worker'[v].hand
    BY <1>1, <2>1, <2>3, <2>5, <2>6
  <2>8. \A u, v \in Workers : u # v => Carries(worker'[u]) \cap Carries(worker'[v]) = {}
    BY <1>1, <2>4, <2>5
  <2> QED
    BY <1>1, <2>2, <2>7, <2>8 DEF Single
<1>6. RunningIsRun'
  <2> SUFFICES ASSUME Calm, NEW t \in Tasks, status'[t] = "RUNNING"
               PROVE  \E v \in Workers : worker'[v].pc = "run" /\ worker'[v].task = t
    BY <1>1 DEF RunningIsRun, Calm
  <2>1. CASE worker'[w].pc = "run" /\ worker'[w].task = t
    BY <2>1
  <2>2. CASE status[t] = "RUNNING" /\ ~(worker[w].pc = "run" /\ worker[w].task = t)
    <3>1. PICK v \in Workers : worker[v].pc = "run" /\ worker[v].task = t
      BY <2>2 DEF Firm, RunningIsRun
    <3> QED
      BY <1>1, <2>2, <3>1
  <2> QED
    BY <2>1, <2>2 DEF FirmMoves
<1>7. AckedIsDone'
  <2> SUFFICES ASSUME NEW v \in Workers, worker'[v].pc = "ack",
                      NEW t \in Tasks, worker'[v].task = t, status'[t] = "READY"
               PROVE  Attended(t)'
    <3>1. \A v \in Workers : worker'[v].pc = "ack" => worker'[v].task \in Tasks
      BY <1>1, <1>3 DEF Attached, Messages
    <3> QED
      BY <1>1, <3>1 DEF AckedIsDone, Attended, Calm, Handled
  <2>1. CASE v = w
    BY <2>1 DEF FirmMoves, Attended, Calm, Handled
  <2>2. CASE v # w
    <3>1. worker[v].pc = "ack" /\ worker[v].task = t
      BY <1>1, <2>2
    <3>2. status[t] = "READY"
      BY DEF FirmMoves
    <3>3. Attended(t)
      BY <3>1, <3>2 DEF Firm, AckedIsDone
    <3> QED
      BY <3>3 DEF FirmMoves
  <2> QED
    BY <2>1, <2>2
<1>8. Covered'
  <2> SUFFICES ASSUME NEW t \in Tasks, status'[t] = "READY",
                      app[t] \in {"notified", "committed"},
                      \A m \in queue' : m[1] # t
               PROVE  Attended(t)'
    BY <1>1 DEF Covered
  <2>1. status[t] = "READY"
    BY DEF FirmMoves
  <2>2. CASE Attended(t)
    BY <2>2 DEF FirmMoves
  <2>3. CASE ~Attended(t)
    <3>1. PICK m \in queue : m[1] = t
      BY <2>1, <2>3 DEF Firm, Covered
    <3> QED
      BY <3>1 DEF FirmMoves
  <2> QED
    BY <2>2, <2>3
<1> QED
  BY <1>2, <1>3, <1>4, <1>5, <1>6, <1>7, <1>8 DEF Firm

\* Nobody has selected a row that w has a message about, unless somebody
\* else who will live to claim it.
LEMMA LockedIsAttended ==
  ASSUME Base, Firm, NEW w \in Workers, worker[w].pc # "selected",
         NEW m \in Carries(worker[w]), NEW t \in Tasks, m[1] = t,
         status[t] = "READY", ~Selectable(t)
  PROVE  /\ Calm
         /\ \E v \in Workers \ {w} : worker[v].pc = "selected" /\ worker[v].task = t
<1>1. lock[t] \in Workers
  BY DEF Selectable, Base, Shaped
<1>2. PICK v \in Workers : worker[v].pc = "selected" /\ worker[v].task = t
  BY <1>1 DEF Base, LocksHeld
<1>3. v # w
  BY <1>2
<1>4. worker[v].current \in Messages /\ worker[v].current[1] = t
  BY <1>2 DEF Firm, Attached
<1>5. worker[v].current \in Carries(worker[v])
  BY <1>4 DEF Carries
<1>6. ASSUME Alone PROVE FALSE
  <2>1. worker[v].current \in queue /\ m \in queue
    BY <1>5, <1>6 DEF Firm, Single
  <2>2. worker[v].current[2] = 1 /\ m[2] = 1
    BY <1>6, <2>1 DEF Firm, Single
  <2>3. m \in Messages
    BY <2>1 DEF Base, Shaped
  <2>4. m = worker[v].current
    BY <1>4, <2>2, <2>3 DEF Messages
  <2>5. Carries(worker[v]) \cap Carries(worker[w]) = {}
    BY <1>3, <1>6 DEF Firm, Single
  <2> QED
    BY <1>5, <2>4, <2>5
<1> QED
  BY <1>2, <1>3, <1>6 DEF Firm, Trusty

\* Attention outlives a step of somebody who does not give it.
LEMMA AttendedStays ==
  ASSUME Shaped, NEW w \in Workers, UNCHANGED options, Workers' = Workers,
         \A v \in Workers \ {w} : worker'[v] = worker[v],
         NEW t \in Tasks, Attended(t),
         \/ ~(worker[w].task = t /\ worker[w].pc \in {"selected", "claim"})
         \/ worker'[w].task = t /\ worker'[w].pc \in {"selected", "claim"}
  PROVE  Attended(t)'
<1>1. PICK v \in Workers : worker[v].task = t /\ worker[v].pc \in {"selected", "claim"}
  BY DEF Attended, Calm, Handled
<1>2. CASE v = w
  BY <1>1, <1>2 DEF Attended, Calm, Handled
<1>3. CASE v # w
  BY <1>1, <1>3 DEF Attended, Calm, Handled
<1> QED
  BY <1>2, <1>3

LEMMA Shape ==
  ASSUME Base
  PROVE  /\ Shaped /\ worker \in [Workers -> Worker] /\ status \in [Tasks -> Statuses]
         /\ lock \in [Tasks -> Workers \cup {NoOne}] /\ NoOne \notin Workers
         /\ faults \in 0 .. options.max_faults /\ crashes \in 0 .. options.max_crashes
         /\ queue \subseteq Messages /\ visible \subseteq queue
         /\ \A w \in Workers : worker[w].hand \subseteq Messages
BY DEF Base, Shaped, Worker

-----------------------------------------------------------------------------
(* Each of these steps is one of those.                                    *)

\* What is left to show of a step that begins no run, ends none and leaves
\* the rows as they are.
LEMMA RowsStay ==
  ASSUME Base, NEW w \in Workers, WorkerMoves(w), UNCHANGED status,
         worker[w].pc # "run",
         \/ worker[w].pc \notin {"selected", "claim"}
         \/ worker'[w].task = worker[w].task /\ worker'[w].pc \in {"selected", "claim"}
  PROVE  \A t \in Tasks :
           /\ status'[t] = "NONE" => status[t] = "NONE"
           /\ status'[t] = "READY" => status[t] = "READY"
           /\ status'[t] = "READY" /\ Attended(t) => Attended(t)'
           /\ Calm /\ status'[t] = "RUNNING" =>
                \/ status[t] = "RUNNING" /\ ~(worker[w].pc = "run" /\ worker[w].task = t)
                \/ worker'[w].pc = "run" /\ worker'[w].task = t
<1>1. ASSUME NEW t \in Tasks, Attended(t) PROVE Attended(t)'
  BY <1>1, AttendedStays DEF WorkerMoves, Base
<1> QED
  BY <1>1

LEMMA EndRoundMoves ==
  ASSUME Base, NEW w \in Workers, EndRound(w), UNCHANGED broker
  PROVE  WorkerMoves(w) /\ (Firm => FirmMoves(w))
<1>1. /\ worker[w].pc = "work" /\ worker[w].hand = {} /\ Set(w, Start(AfterMessages(w)))
      /\ UNCHANGED <<options, app, status, lock, due, sent, unannounced, faults, crashes,
                     queue, visible>>
      /\ AfterMessages(w) \in {"poll", "sweep"} /\ (~options.sweeps => AfterMessages(w) = "poll")
  BY DEF EndRound, broker, bounds, table, AfterMessages
<1>2. /\ worker' \in [Workers -> Worker] /\ Workers' = Workers
      /\ worker'[w] = Start(AfterMessages(w)) /\ \A v \in Workers \ {w} : worker'[v] = worker[v]
  BY <1>1, Shape, StartFields, Moved
<1>3. /\ worker'[w].pc = "loop" /\ worker'[w].round = AfterMessages(w)
      /\ worker'[w].hand = {} /\ Carries(worker'[w]) = {}
  BY <1>1, <1>2, StartFields
<1>4. \A t \in Tasks : lock[t] # w
  BY <1>1 DEF Base, LocksHeld
<1>5. WorkerMoves(w)
  BY <1>1, <1>2, <1>3, <1>4, Shape DEF WorkerMoves, Working
<1>6. ASSUME Firm PROVE FirmMoves(w)
  BY <1>1, <1>3, <1>5, <1>6, RowsStay DEF FirmMoves, Firm, Trusty, Single
<1> QED
  BY <1>5, <1>6

LEMMA SweepNothingMoves ==
  ASSUME Base, NEW w \in Workers, SweepNothing(w), UNCHANGED broker
  PROVE  WorkerMoves(w) /\ (Firm => FirmMoves(w))
<1>1. /\ worker[w].pc = "loop" /\ worker[w].round = "sweep" /\ Set(w, Start("wait"))
      /\ UNCHANGED <<options, app, status, lock, due, sent, unannounced, faults, crashes,
                     queue, visible>>
  BY DEF SweepNothing, broker, bounds, table
<1>2. /\ worker' \in [Workers -> Worker] /\ Workers' = Workers
      /\ worker'[w] = Start("wait") /\ \A v \in Workers \ {w} : worker'[v] = worker[v]
  BY <1>1, Shape, StartFields, Moved
<1>3. worker'[w].pc = "loop"
  BY <1>2, StartFields
<1>4. \A t \in Tasks : lock[t] # w
  BY <1>1 DEF Base, LocksHeld
<1>5. WorkerMoves(w)
  BY <1>1, <1>2, <1>3, <1>4, Shape DEF WorkerMoves, Working
<1>6. ~Firm
  BY <1>1 DEF Firm, Attached
<1> QED
  BY <1>5, <1>6

LEMMA SweepMoves ==
  ASSUME Base, NEW w \in Workers, NEW t \in Tasks, Sweep(w, t), UNCHANGED broker
  PROVE  WorkerMoves(w) /\ (Firm => FirmMoves(w))
<1>1. /\ worker[w].pc = "loop" /\ worker[w].round = "sweep" /\ Set(w, Took(worker[w], t))
      /\ lock' = [lock EXCEPT ![t] = w]
      /\ UNCHANGED <<options, app, status, due, sent, unannounced, faults, crashes,
                     queue, visible>>
  BY DEF Sweep, broker, bounds, Took
<1>2. /\ worker' \in [Workers -> Worker] /\ Workers' = Workers
      /\ worker'[w] = Took(worker[w], t) /\ \A v \in Workers \ {w} : worker'[v] = worker[v]
  BY <1>1, Shape, TookFields, Moved
<1>3. worker'[w].pc = "selected" /\ worker'[w].task = t
  BY <1>2, Shape, TookFields
<1>4. /\ lock' \in [Tasks -> Workers \cup {NoOne}] /\ lock'[t] = w
      /\ \A u \in Tasks \ {t} : lock'[u] = lock[u] /\ lock[u] # w
  BY <1>1, Shape DEF Base, LocksHeld
<1>5. WorkerMoves(w)
  BY <1>1, <1>2, <1>3, <1>4, Shape DEF WorkerMoves, Working
<1>6. ~Firm
  BY <1>1 DEF Firm, Attached
<1> QED
  BY <1>5, <1>6

LEMMA ReceiveMoves ==
  ASSUME Base, NEW w \in Workers, NEW M \in SUBSET visible, Receive(w, M)
  PROVE  WorkerMoves(w) /\ (Firm => FirmMoves(w))
<1>1. /\ worker[w].pc = "loop" /\ Set(w, Got(worker[w], M)) /\ visible' = visible \ M
      /\ UNCHANGED <<options, app, status, lock, due, sent, unannounced, faults, crashes, queue>>
  BY DEF Receive, Received, table, Got
<1>0. M \subseteq Messages /\ M \subseteq queue
  BY Shape
<1>2. /\ worker' \in [Workers -> Worker] /\ Workers' = Workers
      /\ worker'[w] = Got(worker[w], M) /\ \A v \in Workers \ {w} : worker'[v] = worker[v]
  BY <1>0, <1>1, Shape, GotFields, Moved
<1>3. /\ worker'[w].pc = "work" /\ worker'[w].hand = M
      /\ worker'[w].current = worker[w].current /\ worker'[w].round = worker[w].round
  <2>1. worker[w] \in Worker
    BY Shape
  <2> QED
    BY <1>0, <1>2, <2>1, GotFields
<1>4. \A t \in Tasks : lock[t] # w
  BY <1>1 DEF Base, LocksHeld
<1>5. WorkerMoves(w)
  BY <1>1, <1>2, <1>3, <1>4, Shape DEF WorkerMoves, Working
<1>6. ASSUME Firm PROVE FirmMoves(w)
  <2>1. Carries(worker'[w]) \subseteq Carries(worker[w]) \cup M
    BY <1>3 DEF Carries
  <2>2. worker[w].round = "poll"
    BY <1>6 DEF Firm, Attached
  <2>3. ASSUME Alone
        PROVE  /\ Carries(worker'[w]) \subseteq (Carries(worker[w]) \cup visible) \cap queue'
               /\ visible' \subseteq (visible \cup Carries(worker[w])) \ Carries(worker'[w])
               /\ queue \ queue' \subseteq Carries(worker[w])
               /\ worker'[w].current \notin worker'[w].hand
    <3>1. Carries(worker[w]) \subseteq queue \ visible
      BY <1>6, <2>3 DEF Firm, Single
    <3>2. worker[w].current \notin M
      <4>1. worker[w].current \in Messages => worker[w].current \in Carries(worker[w])
        BY DEF Carries
      <4> QED
        BY <1>0, <3>1, <4>1
    <3> QED
      BY <1>0, <1>1, <1>3, <2>1, <3>1, <3>2
  <2> QED
    BY <1>0, <1>1, <1>3, <1>5, <2>1, <2>2, <2>3, RowsStay DEF FirmMoves
<1> QED
  BY <1>5, <1>6

\* A message that is opened leads to its task, or back to the queue; it is
\* only given up if the task is not READY or somebody else attends to it.
LEMMA OpenMessageMoves ==
  ASSUME Base, NEW w \in Workers, NEW m \in Messages, OpenMessage(w, m), UNCHANGED broker
  PROVE  WorkerMoves(w) /\ (Firm => FirmMoves(w))
<1> DEFINE t == m[1]
<1>0. t \in Tasks
  BY DEF Messages
<1>1. PICK pc \in {"selected", "ack", "nack"} :
        /\ Set(w, Opened(worker[w], pc, m))
        /\ \/ pc = "selected" /\ Selectable(t) /\ lock' = [lock EXCEPT ![t] = w]
           \/ pc = "ack" /\ ~Selectable(t) /\ UNCHANGED lock
           \/ pc = "nack" /\ UNCHANGED lock
  BY DEF OpenMessage, Opened, OnError
<1>2. /\ worker[w].pc = "work" /\ m \in worker[w].hand
      /\ UNCHANGED <<options, app, status, due, sent, unannounced, crashes, queue, visible>>
  BY DEF OpenMessage, broker
<1>3. faults' \in 0 .. options.max_faults
  <2>1. options.max_faults \in Nat
    BY Shape, Bounds DEF Shaped
  <2>2. faults' = faults \/ (faults < options.max_faults /\ faults' = faults + 1)
    BY DEF OpenMessage
  <2>3. faults \in 0 .. options.max_faults
    BY Shape
  <2> QED
    BY <2>1, <2>2, <2>3
<1>4. /\ worker' \in [Workers -> Worker] /\ Workers' = Workers
      /\ worker'[w] = Opened(worker[w], pc, m) /\ \A v \in Workers \ {w} : worker'[v] = worker[v]
  <2>1. worker[w] \in Worker /\ pc \in States /\ Shaped
    BY Shape DEF States
  <2>2. Opened(worker[w], pc, m) \in Worker
    BY <2>1, OpenedFields
  <2> QED
    BY <1>1, <1>2, <2>1, <2>2, Moved
<1>5. /\ worker'[w].pc = pc /\ worker'[w].task = t
      /\ worker'[w].hand = worker[w].hand \ {m} /\ worker'[w].current = m
      /\ worker'[w].round = worker[w].round
  <2>1. worker[w] \in Worker /\ pc \in States
    BY Shape DEF States
  <2> QED
    BY <1>4, <2>1, OpenedFields
<1>6. \A u \in Tasks : lock[u] # w
  BY <1>2 DEF Base, LocksHeld
<1>7. /\ lock' \in [Tasks -> Workers \cup {NoOne}]
      /\ \A u \in Tasks : lock'[u] = w => pc = "selected" /\ u = t
      /\ \A u \in Tasks : lock'[u] # w => lock'[u] = lock[u]
  BY <1>0, <1>1, <1>6, Shape
<1>8. WorkerMoves(w)
  BY <1>0, <1>2, <1>3, <1>4, <1>5, <1>7, Shape DEF WorkerMoves, Working
<1>9. ASSUME Firm PROVE FirmMoves(w)
  <2>1. m \in Carries(worker[w])
    BY <1>2 DEF Carries
  <2>2. Carries(worker'[w]) \subseteq Carries(worker[w])
    BY <1>5, <2>1 DEF Carries
  <2>3. worker[w].round = "poll"
    BY <1>9 DEF Firm, Attached
  <2>4. Alone => Carries(worker[w]) \subseteq queue \ visible
    BY <1>9 DEF Firm, Single
  <2>5. ASSUME pc = "ack", status[t] = "READY" PROVE Attended(worker[w].task)'
    <3>1. ~Selectable(t)
      BY <1>1, <2>5
    <3>2. /\ Calm
          /\ \E v \in Workers \ {w} : worker[v].pc = "selected" /\ worker[v].task = t
      BY <1>0, <1>2, <1>9, <2>1, <2>5, <3>1, LockedIsAttended
    <3> QED
      BY <1>2, <1>4, <1>5, <3>2 DEF Attended, Calm, Handled
  <2> QED
    BY <1>2, <1>5, <1>8, <2>1, <2>2, <2>3, <2>4, <2>5, RowsStay DEF FirmMoves
<1> QED
  BY <1>8, <1>9

LEMMA UnlockMoves ==
  ASSUME Base, NEW w \in Workers, Unlock(w), UNCHANGED broker
  PROVE  WorkerMoves(w) /\ (Firm => FirmMoves(w))
<1>1. /\ worker[w].pc = "selected" /\ Set(w, At(worker[w], "claim"))
      /\ lock' = [lock EXCEPT ![worker[w].task] = NoOne]
      /\ UNCHANGED <<options, app, status, due, sent, unannounced, faults, crashes,
                     queue, visible>>
  BY DEF Unlock, Goto, At, broker, bounds
<1>2. worker[w] \in Worker /\ "claim" \in States /\ worker[w].task \in Tasks
  BY <1>1, Shape DEF States, Shaped, Working
<1>3. /\ worker' \in [Workers -> Worker] /\ Workers' = Workers
      /\ worker'[w] = At(worker[w], "claim") /\ \A v \in Workers \ {w} : worker'[v] = worker[v]
  BY <1>1, <1>2, Shape, AtFields, Moved
<1>4. /\ worker'[w].pc = "claim" /\ worker'[w].task = worker[w].task
      /\ worker'[w].hand = worker[w].hand /\ worker'[w].current = worker[w].current
      /\ worker'[w].round = worker[w].round
  BY <1>2, <1>3, AtFields
<1>5. /\ lock' \in [Tasks -> Workers \cup {NoOne}]
      /\ \A t \in Tasks : lock'[t] # w /\ lock'[t] \in {lock[t], NoOne}
  <2>1. \A t \in Tasks : lock[t] = w => t = worker[w].task
    BY DEF Base, LocksHeld
  <2> QED
    BY <1>1, <2>1, Shape
<1>6. WorkerMoves(w)
  BY <1>1, <1>2, <1>3, <1>4, <1>5, Shape DEF WorkerMoves
<1>7. ASSUME Firm PROVE FirmMoves(w)
  <2>1. Carries(worker'[w]) = Carries(worker[w])
    BY <1>4 DEF Carries
  <2>2. /\ worker[w].round = "poll"
        /\ worker[w].current \in Messages /\ worker[w].current[1] = worker[w].task
    BY <1>1, <1>7 DEF Firm, Attached
  <2>3. Alone => /\ Carries(worker[w]) \subseteq queue \ visible
                 /\ worker[w].current \notin worker[w].hand
    BY <1>7 DEF Firm, Single
  <2> QED
    BY <1>1, <1>4, <1>6, <2>1, <2>2, <2>3, RowsStay DEF FirmMoves
<1> QED
  BY <1>6, <1>7

\* What a worker with a message carries does not change until it answers.
LEMMA KeepsMessage ==
  ASSUME Base, Firm, NEW w \in Workers, UNCHANGED broker,
         worker'[w].current = worker[w].current, worker'[w].hand = worker[w].hand
  PROVE  /\ Carries(worker'[w]) \subseteq Carries(worker[w]) \cup queue
         /\ Alone =>
              /\ Carries(worker'[w]) \subseteq (Carries(worker[w]) \cup visible) \cap queue'
              /\ visible' \subseteq (visible \cup Carries(worker[w])) \ Carries(worker'[w])
              /\ queue \ queue' \subseteq Carries(worker[w])
              /\ worker'[w].current \notin worker'[w].hand
         /\ queue \ queue' = {}
<1>1. Carries(worker'[w]) = Carries(worker[w])
  BY DEF Carries
<1>2. Alone => /\ Carries(worker[w]) \subseteq queue \ visible
               /\ worker[w].current \notin worker[w].hand
  BY DEF Firm, Single
<1> QED
  BY <1>1, <1>2 DEF broker

LEMMA ClaimWins ==
  ASSUME Base, NEW w \in Workers, worker[w].pc = "claim",
         status' = [status EXCEPT ![worker[w].task] = "RUNNING"],
         Set(w, At(worker[w], "run")), UNCHANGED broker,
         UNCHANGED <<options, app, due, lock, sent, unannounced, bounds>>
  PROVE  WorkerMoves(w) /\ (Firm => FirmMoves(w))
<1>1. /\ worker[w] \in Worker /\ "run" \in States /\ worker[w].task \in Tasks
      /\ faults' = faults /\ crashes' = crashes /\ queue' = queue /\ visible' = visible
  BY Shape DEF States, Shaped, Working, bounds, broker
<1>2. /\ worker' \in [Workers -> Worker] /\ Workers' = Workers
      /\ worker'[w] = At(worker[w], "run") /\ \A v \in Workers \ {w} : worker'[v] = worker[v]
  BY <1>1, Shape, AtFields, Moved
<1>3. /\ worker'[w].pc = "run" /\ worker'[w].task = worker[w].task
      /\ worker'[w].hand = worker[w].hand /\ worker'[w].current = worker[w].current
      /\ worker'[w].round = worker[w].round
  BY <1>1, <1>2, AtFields
<1>4. \A t \in Tasks : lock[t] # w
  BY DEF Base, LocksHeld
<1>5. /\ status' \in [Tasks -> Statuses] /\ status'[worker[w].task] = "RUNNING"
      /\ \A t \in Tasks : t # worker[w].task => status'[t] = status[t]
  BY <1>1, Shape DEF Statuses
<1>6. WorkerMoves(w)
  BY <1>1, <1>2, <1>3, <1>4, <1>5, Shape DEF WorkerMoves
<1>7. ASSUME Firm PROVE FirmMoves(w)
  <2>1. /\ worker[w].round = "poll"
        /\ worker[w].current \in Messages /\ worker[w].current[1] = worker[w].task
    BY <1>7 DEF Firm, Attached
  <2>2. ASSUME NEW t \in Tasks, status'[t] = "READY", Attended(t) PROVE Attended(t)'
    <3>1. worker[w].task # t
      BY <1>5, <2>2
    <3> QED
      BY <1>2, <2>2, <3>1, AttendedStays DEF Base
  <2>3. \A t \in Tasks :
          /\ status'[t] = "NONE" => status[t] = "NONE"
          /\ status'[t] = "READY" => status[t] = "READY"
          /\ status'[t] = "RUNNING" =>
               \/ status[t] = "RUNNING" /\ ~(worker[w].pc = "run" /\ worker[w].task = t)
               \/ worker'[w].pc = "run" /\ worker'[w].task = t
    BY <1>3, <1>5
  <2> QED
    BY <1>3, <1>7, <2>1, <2>2, <2>3, KeepsMessage DEF FirmMoves
<1> QED
  BY <1>6, <1>7

\* Whoever loses a claim leaves the task to the one that has locked it.
LEMMA ClaimLoses ==
  ASSUME Base, NEW w \in Workers, worker[w].pc = "claim", ~Selectable(worker[w].task),
         Done(w, FALSE, "ack"), UNCHANGED broker,
         UNCHANGED <<options, app, status, due, lock, sent, unannounced, bounds>>
  PROVE  WorkerMoves(w) /\ (Firm => FirmMoves(w))
<1>1. /\ worker[w] \in Worker /\ "ack" \in States /\ worker[w].task \in Tasks
      /\ faults' = faults /\ crashes' = crashes /\ queue' = queue /\ visible' = visible
  BY Shape DEF States, Shaped, Working, bounds, broker
<1>2. Left(worker[w], "ack", FALSE) \in Worker
  BY <1>1, LeftFields
<1>3. Set(w, Left(worker[w], "ack", FALSE))
  BY DEF Done, Left
<1>4. /\ worker' \in [Workers -> Worker] /\ Workers' = Workers
      /\ worker'[w] = Left(worker[w], "ack", FALSE)
      /\ \A v \in Workers \ {w} : worker'[v] = worker[v]
  BY <1>2, <1>3, Shape, Moved
<1>5. worker'[w].pc \in {"loop", "ack"}
  BY <1>1, <1>4, LeftFields
<1>6. \A t \in Tasks : lock[t] # w
  BY DEF Base, LocksHeld
<1>7. WorkerMoves(w)
  BY <1>1, <1>4, <1>5, <1>6, Shape DEF WorkerMoves, Working
<1>8. ASSUME Firm PROVE FirmMoves(w)
  <2>1. /\ worker[w].round = "poll"
        /\ worker[w].current \in Messages /\ worker[w].current[1] = worker[w].task
    BY <1>8 DEF Firm, Attached
  <2>2. worker[w].current # NoMessage /\ worker[w].current \in Carries(worker[w])
    BY <2>1, NoMessageIsNone DEF Carries
  <2>3. /\ worker'[w].pc = "ack" /\ worker'[w].task = worker[w].task
        /\ worker'[w].current = worker[w].current /\ worker'[w].hand = worker[w].hand
        /\ worker'[w].round = "poll"
    <3> DEFINE x == worker[w]
               y == Left(x, "ack", FALSE)
    <3>1. /\ y.pc = "ack" /\ y.task = x.task /\ y.round = "poll"
          /\ y.current = x.current /\ y.hand = x.hand
      BY <1>1, <2>1, <2>2, LeftFields
    <3>2. worker'[w] = y
      BY <1>4
    <3> HIDE DEF y
    <3> QED
      BY <3>1, <3>2
  <2>4. ASSUME NEW t \in Tasks, t = worker[w].task, status[t] = "READY"
        PROVE  Attended(t)'
    <3>1. /\ Calm
          /\ \E v \in Workers \ {w} : worker[v].pc = "selected" /\ worker[v].task = t
      BY <1>8, <2>1, <2>2, <2>4, LockedIsAttended
    <3> QED
      BY <1>4, <3>1 DEF Attended, Calm, Handled
  <2>5. ASSUME NEW t \in Tasks, status[t] = "READY", Attended(t) PROVE Attended(t)'
    <3>1. CASE t = worker[w].task
      BY <2>4, <2>5, <3>1
    <3>2. CASE t # worker[w].task
      BY <1>4, <2>5, <3>2, AttendedStays DEF Base
    <3> QED
      BY <3>1, <3>2
  <2>6. status'[worker'[w].task] = "READY" => Attended(worker[w].task)'
    BY <1>1, <2>3, <2>4 DEF Attended, Calm, Handled
  <2> QED
    BY <1>8, <2>1, <2>3, <2>5, <2>6, KeepsMessage DEF FirmMoves
<1> QED
  BY <1>7, <1>8

LEMMA ClaimMoves ==
  ASSUME Base, NEW w \in Workers, Claim(w), UNCHANGED broker
  PROVE  WorkerMoves(w) /\ (Firm => FirmMoves(w))
<1>1. /\ worker[w].pc = "claim"
      /\ UNCHANGED <<options, app, due, lock, sent, unannounced, bounds>>
  BY DEF Claim
<1>2. CASE /\ status' = [status EXCEPT ![worker[w].task] = "RUNNING"]
           /\ Goto(w, "run")
  BY <1>1, <1>2, ClaimWins DEF Goto, At
<1>3. CASE ~Selectable(worker[w].task) /\ Done(w, FALSE, "ack") /\ UNCHANGED status
  BY <1>1, <1>3, ClaimLoses
<1> QED
  BY <1>2, <1>3 DEF Claim

LEMMA FinishMoves ==
  ASSUME Base, NEW w \in Workers, Finish(w), UNCHANGED broker
  PROVE  WorkerMoves(w) /\ (Firm => FirmMoves(w))
<1>1. /\ worker[w].pc = "run" /\ status' = [status EXCEPT ![worker[w].task] = "COMPLETED"]
      /\ UNCHANGED <<options, app, due, lock, sent, unannounced, faults, crashes,
                     queue, visible>>
  BY DEF Finish, bounds, broker
<1>2. PICK pc \in {"ack", "nack"}, ran \in BOOLEAN : Set(w, Left(worker[w], pc, ran))
  BY DEF Finish, Done, Left
<1>3. worker[w] \in Worker /\ pc \in States /\ worker[w].task \in Tasks
  BY <1>1, Shape DEF States, Shaped, Working
<1>4. Left(worker[w], pc, ran) \in Worker
  BY <1>3, LeftFields
<1>5. /\ worker' \in [Workers -> Worker] /\ Workers' = Workers
      /\ worker'[w] = Left(worker[w], pc, ran)
      /\ \A v \in Workers \ {w} : worker'[v] = worker[v]
  BY <1>1, <1>2, <1>4, Shape, Moved
<1>6. worker'[w].pc \in {"loop", "ack", "nack"}
  BY <1>3, <1>5, LeftFields
<1>7. \A t \in Tasks : lock[t] # w
  BY <1>1 DEF Base, LocksHeld
<1>8. /\ status' \in [Tasks -> Statuses] /\ status'[worker[w].task] = "COMPLETED"
      /\ \A t \in Tasks : t # worker[w].task => status'[t] = status[t]
  BY <1>1, <1>3, Shape DEF Statuses
<1>9. WorkerMoves(w)
  BY <1>1, <1>5, <1>6, <1>7, <1>8, Shape DEF WorkerMoves, Working
<1>10. ASSUME Firm PROVE FirmMoves(w)
  <2>1. /\ worker[w].round = "poll"
        /\ worker[w].current \in Messages /\ worker[w].current[1] = worker[w].task
    BY <1>1, <1>10 DEF Firm, Attached
  <2>2. worker[w].current # NoMessage
    BY <2>1, NoMessageIsNone
  <2>3. /\ worker'[w].task = worker[w].task /\ worker'[w].current = worker[w].current
        /\ worker'[w].hand = worker[w].hand /\ worker'[w].round = "poll"
    BY <1>3, <1>5, <2>1, <2>2, LeftFields
  <2>4. ASSUME NEW t \in Tasks, Attended(t) PROVE Attended(t)'
    BY <1>1, <1>5, <2>4, AttendedStays DEF Base
  <2>5. \A t \in Tasks :
          /\ status'[t] = "NONE" => status[t] = "NONE"
          /\ status'[t] = "READY" => status[t] = "READY"
          /\ status'[t] = "RUNNING" =>
               status[t] = "RUNNING" /\ ~(worker[w].pc = "run" /\ worker[w].task = t)
    BY <1>8
  <2>6. UNCHANGED broker
    BY <1>1 DEF broker
  <2> QED
    BY <1>6, <1>8, <1>10, <2>1, <2>3, <2>4, <2>5, <2>6, KeepsMessage DEF FirmMoves
<1> QED
  BY <1>9, <1>10

LEMMA AnsweredMoves ==
  ASSUME Base, NEW w \in Workers, NEW pc \in {"ack", "nack"}, Answered(w, pc)
  PROVE  /\ worker[w] \in Worker /\ worker' \in [Workers -> Worker] /\ Workers' = Workers
         /\ \A v \in Workers \ {w} : worker'[v] = worker[v]
         /\ worker'[w].pc = "work" /\ worker'[w].hand = worker[w].hand
         /\ worker'[w].current = NoMessage /\ worker'[w].round = worker[w].round
         /\ Carries(worker'[w]) = worker[w].hand
         /\ \A t \in Tasks : lock[t] # w
<1>1. worker[w] \in Worker /\ worker[w].pc = pc /\ Set(w, Closed(worker[w])) /\ UNCHANGED options
  BY Shape DEF Answered, Closed
<1>2. /\ worker' \in [Workers -> Worker] /\ Workers' = Workers
      /\ worker'[w] = Closed(worker[w]) /\ \A v \in Workers \ {w} : worker'[v] = worker[v]
  BY <1>1, ClosedFields, Shape, Moved
<1>3. \A t \in Tasks : lock[t] # w
  BY <1>1 DEF Base, LocksHeld
<1> QED
  BY <1>1, <1>2, <1>3, ClosedFields

\* The message that is deleted is the one that was answered; what it was
\* about is done, or somebody attends to it.
LEMMA AckMoves ==
  ASSUME Base, NEW w \in Workers, Ack(w)
  PROVE  WorkerMoves(w) /\ (Firm => FirmMoves(w))
<1>1. /\ worker[w].pc = "ack" /\ Answered(w, "ack")
      /\ UNCHANGED <<options, app, status, lock, due, sent, unannounced, faults, crashes>>
  BY DEF Ack, Answered, table, bounds
<1>2. PICK gone \in {{}, {worker[w].current}} :
        queue' = queue \ gone /\ visible' = visible \ gone
  BY DEF Ack
<1>3. /\ worker[w] \in Worker /\ worker' \in [Workers -> Worker] /\ Workers' = Workers
      /\ \A v \in Workers \ {w} : worker'[v] = worker[v]
      /\ worker'[w].pc = "work" /\ worker'[w].hand = worker[w].hand
      /\ worker'[w].current = NoMessage /\ worker'[w].round = worker[w].round
      /\ Carries(worker'[w]) = worker[w].hand
      /\ \A t \in Tasks : lock[t] # w
  BY <1>1, AnsweredMoves
<1>4. WorkerMoves(w)
  BY <1>1, <1>2, <1>3, Shape DEF WorkerMoves, Working
<1>5. ASSUME Firm PROVE FirmMoves(w)
  <2>1. /\ worker[w].round = "poll"
        /\ worker[w].current \in Messages /\ worker[w].current[1] = worker[w].task
    BY <1>1, <1>5 DEF Firm, Attached
  <2>2. worker[w].hand \subseteq Carries(worker[w]) /\ worker[w].current \in Carries(worker[w])
    BY <2>1 DEF Carries
  <2>3. ASSUME Alone
        PROVE  /\ Carries(worker'[w]) \subseteq (Carries(worker[w]) \cup visible) \cap queue'
               /\ visible' \subseteq (visible \cup Carries(worker[w])) \ Carries(worker'[w])
               /\ queue \ queue' \subseteq Carries(worker[w])
    <3>1. /\ Carries(worker[w]) \subseteq queue \ visible
          /\ worker[w].current \notin worker[w].hand
      BY <1>5, <2>3 DEF Firm, Single
    <3> QED
      BY <1>2, <1>3, <2>2, <3>1
  <2>4. worker'[w].current \notin worker'[w].hand
    BY <1>3, Shape, NoMessageIsNone
  <2>5. ASSUME NEW m \in queue \ queue', status'[m[1]] = "READY" PROVE Attended(m[1])'
    <3>1. m = worker[w].current /\ m[1] \in Tasks /\ status[m[1]] = "READY"
      BY <1>1, <1>2, <2>1, <2>5 DEF Messages
    <3> DEFINE t == m[1]
    <3>2. Attended(t)
      BY <1>1, <1>5, <2>1, <3>1 DEF Firm, AckedIsDone
    <3> HIDE DEF t
    <3>3. t \in Tasks /\ ~(worker[w].task = t /\ worker[w].pc \in {"selected", "claim"})
      BY <1>1, <3>1 DEF t
    <3>4. Attended(t)'
      BY <1>1, <1>3, <3>2, <3>3, AttendedStays DEF Base
    <3> QED
      BY <3>4 DEF t
  <2> QED
    BY <1>1, <1>3, <1>4, <2>1, <2>2, <2>3, <2>4, <2>5, RowsStay DEF FirmMoves
<1> QED
  BY <1>4, <1>5

LEMMA NackMoves ==
  ASSUME Base, NEW w \in Workers, Nack(w)
  PROVE  WorkerMoves(w) /\ (Firm => FirmMoves(w))
<1>1. /\ worker[w].pc = "nack" /\ Answered(w, "nack")
      /\ UNCHANGED <<options, app, status, lock, due, sent, unannounced, faults, crashes, queue>>
      /\ visible' \subseteq visible \cup ({worker[w].current} \cap queue)
  BY DEF Nack, Answered, table, bounds
<1>2. /\ worker[w] \in Worker /\ worker' \in [Workers -> Worker] /\ Workers' = Workers
      /\ \A v \in Workers \ {w} : worker'[v] = worker[v]
      /\ worker'[w].pc = "work" /\ worker'[w].hand = worker[w].hand
      /\ worker'[w].current = NoMessage /\ worker'[w].round = worker[w].round
      /\ Carries(worker'[w]) = worker[w].hand
      /\ \A t \in Tasks : lock[t] # w
  BY <1>1, AnsweredMoves
<1>3. WorkerMoves(w)
  BY <1>1, <1>2, Shape DEF WorkerMoves, Working
<1>4. ASSUME Firm PROVE FirmMoves(w)
  <2>1. worker[w].round = "poll"
    BY <1>4 DEF Firm, Attached
  <2>2. /\ worker[w].hand \subseteq Carries(worker[w])
        /\ {worker[w].current} \cap queue \subseteq Carries(worker[w])
    BY Shape DEF Carries
  <2>3. ASSUME Alone
        PROVE  /\ Carries(worker'[w]) \subseteq (Carries(worker[w]) \cup visible) \cap queue'
               /\ visible' \subseteq (visible \cup Carries(worker[w])) \ Carries(worker'[w])
               /\ queue \ queue' \subseteq Carries(worker[w])
    <3>1. /\ Carries(worker[w]) \subseteq queue \ visible
          /\ worker[w].current \notin worker[w].hand
      BY <1>4, <2>3 DEF Firm, Single
    <3> QED
      BY <1>1, <1>2, <2>2, <3>1
  <2>4. worker'[w].current \notin worker'[w].hand
    BY <1>2, Shape, NoMessageIsNone
  <2> QED
    BY <1>1, <1>2, <1>3, <2>1, <2>2, <2>3, <2>4, RowsStay DEF FirmMoves
<1> QED
  BY <1>3, <1>4

\* A worker that meets an error keeps its message until it has given it back.
LEMMA RunFailsMoves ==
  ASSUME Base, NEW w \in Workers, RunFails(w), UNCHANGED broker
  PROVE  WorkerMoves(w) /\ (Firm => FirmMoves(w))
<1>1. /\ worker[w].pc \in Working
      /\ faults < options.max_faults /\ faults' = faults + 1
      /\ lock' = [t \in Tasks |-> IF lock[t] = w THEN NoOne ELSE lock[t]]
      /\ \E ran \in BOOLEAN : Set(w, Left(worker[w], "nack", ran))
      /\ UNCHANGED <<options, app, status, due, sent, unannounced, crashes, queue, visible>>
  BY DEF RunFails, LetGo, Done, Left, OnError, Working, broker
<1>2. faults' \in 0 .. options.max_faults /\ ~Calm
  <2>1. options.max_faults \in Nat
    BY Shape, Bounds DEF Shaped
  <2>2. faults \in 0 .. options.max_faults
    BY Shape
  <2> QED
    BY <1>1, <2>1, <2>2 DEF Calm
<1>0. PICK ran \in BOOLEAN : Set(w, Left(worker[w], "nack", ran))
  BY <1>1
<1>3. worker[w] \in Worker /\ "nack" \in States
  BY Shape DEF States
<1>4. /\ worker' \in [Workers -> Worker] /\ Workers' = Workers
      /\ worker'[w] = Left(worker[w], "nack", ran)
      /\ \A v \in Workers \ {w} : worker'[v] = worker[v]
  BY <1>0, <1>1, <1>3, Shape, LeftFields, Moved
<1>5. worker'[w].pc \in {"loop", "nack"}
  BY <1>3, <1>4, LeftFields
<1>6. /\ lock' \in [Tasks -> Workers \cup {NoOne}]
      /\ \A t \in Tasks : lock'[t] # w /\ lock'[t] \in {lock[t], NoOne}
  BY <1>1, Shape
<1>7. WorkerMoves(w)
  BY <1>1, <1>2, <1>4, <1>5, <1>6, Shape DEF WorkerMoves, Working
<1>8. ASSUME Firm PROVE FirmMoves(w)
  <2>1. /\ worker[w].round = "poll"
        /\ worker[w].current \in Messages
    BY <1>1, <1>8 DEF Firm, Attached, Working
  <2>2. /\ worker'[w].current = worker[w].current
        /\ worker'[w].hand = worker[w].hand /\ worker'[w].round = "poll"
    <3>1. worker[w].current # NoMessage
      BY <2>1, NoMessageIsNone
    <3> QED
      BY <1>3, <1>4, <2>1, <3>1, LeftFields
  <2>3. \A t \in Tasks : ~Attended(t)
    BY <1>2 DEF Attended
  <2>4. UNCHANGED broker
    BY <1>1 DEF broker
  <2> QED
    BY <1>1, <1>2, <1>5, <1>8, <2>2, <2>3, <2>4, KeepsMessage DEF FirmMoves
<1> QED
  BY <1>7, <1>8

\* A worker that dies gives its lock back, and its messages will reappear.
LEMMA CrashMoves ==
  ASSUME Base, NEW w \in Workers, Crash(w), UNCHANGED broker
  PROVE  WorkerMoves(w) /\ (Firm => FirmMoves(w))
<1>1. /\ lock' = [t \in Tasks |-> IF lock[t] = w THEN NoOne ELSE lock[t]]
      /\ Set(w, Start("poll")) /\ crashes < options.max_crashes /\ crashes' = crashes + 1
      /\ UNCHANGED <<options, app, status, due, sent, unannounced, faults, queue, visible>>
  BY DEF Crash, LetGo, broker
<1>2. crashes' \in 0 .. options.max_crashes /\ ~Calm
  <2>1. options.max_crashes \in Nat
    BY Shape, Bounds DEF Shaped
  <2>2. crashes \in 0 .. options.max_crashes
    BY Shape
  <2> QED
    BY <1>1, <2>1, <2>2 DEF Calm
<1>3. /\ worker' \in [Workers -> Worker] /\ Workers' = Workers
      /\ worker'[w] = Start("poll") /\ \A v \in Workers \ {w} : worker'[v] = worker[v]
  BY <1>1, Shape, StartFields, Moved
<1>4. /\ worker'[w].pc = "loop" /\ worker'[w].round = "poll"
      /\ worker'[w].hand = {} /\ Carries(worker'[w]) = {}
  BY <1>3, StartFields
<1>5. /\ lock' \in [Tasks -> Workers \cup {NoOne}]
      /\ \A t \in Tasks : lock'[t] # w /\ lock'[t] \in {lock[t], NoOne}
  BY <1>1, Shape
<1>6. WorkerMoves(w)
  BY <1>1, <1>2, <1>3, <1>4, <1>5, Shape DEF WorkerMoves, Working
<1>7. ASSUME Firm PROVE FirmMoves(w)
  <2>1. \A t \in Tasks : ~Attended(t)
    BY <1>2 DEF Attended
  <2>2. Alone => visible \cap Carries(worker'[w]) = {}
    BY <1>4
  <2> QED
    BY <1>1, <1>2, <1>4, <2>1, <2>2 DEF FirmMoves
<1> QED
  BY <1>6, <1>7

-----------------------------------------------------------------------------
(* The steps of the application, of recovery and of the queue.             *)

\* A step that leaves the workers and their locks alone.
LEMMA OthersKeep ==
  ASSUME Base, UNCHANGED <<options, worker, lock, faults>>,
         app' \in [Tasks -> Enqueued], status' \in [Tasks -> Statuses],
         due' \subseteq Tasks, unannounced' \subseteq Tasks,
         sent' \in [Tasks -> 0 .. MaxSends], crashes' \in 0 .. options.max_crashes,
         queue' \subseteq Messages, visible' \subseteq queue'
  PROVE  Base'
<1>1. Workers' = Workers
  BY DEF Workers
<1>2. Shaped'
  BY <1>1 DEF Base, Shaped
<1>3. LocksHeld'
  BY <1>1 DEF Base, LocksHeld
<1> QED
  BY <1>2, <1>3 DEF Base

LEMMA Rows ==
  ASSUME Base
  PROVE  /\ app \in [Tasks -> Enqueued] /\ status \in [Tasks -> Statuses]
         /\ due \subseteq Tasks /\ unannounced \subseteq Tasks
         /\ sent \in [Tasks -> 0 .. MaxSends] /\ crashes \in 0 .. options.max_crashes
         /\ queue \subseteq Messages /\ visible \subseteq queue
BY DEF Base, Shaped

LEMMA InsertKeeps ==
  ASSUME Base, NEW t \in Tasks, Insert(t), UNCHANGED broker
  PROVE  Base' /\ (Firm => Firm')
<1>1. /\ app[t] = "new" /\ app' = [app EXCEPT ![t] = "inserted"]
      /\ status' = IF t \in options.in_transaction THEN status
                   ELSE [status EXCEPT ![t] = "READY"]
      /\ UNCHANGED <<options, due, lock, sent, worker, unannounced, faults, crashes,
                     queue, visible>>
  BY DEF Insert, bounds, broker
<1>2. /\ app' \in [Tasks -> Enqueued] /\ app'[t] = "inserted"
      /\ \A u \in Tasks \ {t} : app'[u] = app[u]
  BY <1>1, Rows DEF Enqueued
<1>3. /\ status' \in [Tasks -> Statuses] /\ \A u \in Tasks \ {t} : status'[u] = status[u]
      /\ t \notin options.in_transaction => status'[t] = "READY"
  BY <1>1, Rows DEF Statuses
<1>4. Base'
  BY <1>1, <1>2, <1>3, Rows, OthersKeep
<1>5. ASSUME Firm PROVE Firm'
  <2>1. Workers' = Workers /\ Alone' = Alone /\ \A u \in Tasks : Attended(u)' = Attended(u)
    BY <1>1 DEF Workers, Alone, Attended, Calm, Handled
  <2>2. Trusty' /\ Attached' /\ Single'
    BY <1>1, <1>5, <2>1 DEF Firm, Trusty, Attached, Single, Calm
  <2>3. t \notin options.in_transaction /\ sent[t] = 0
    BY <1>1, <1>5 DEF Firm, Trusty, Known
  <2>4. Known'
    BY <1>1, <1>2, <1>3, <1>5, <2>1, <2>3 DEF Firm, Known
  <2>5. RunningIsRun'
    BY <1>1, <1>3, <1>5, <2>1, <2>3 DEF Firm, RunningIsRun, Calm
  <2>6. AckedIsDone'
    <3> SUFFICES ASSUME NEW w \in Workers, worker[w].pc = "ack",
                        NEW u \in Tasks, u = worker[w].task, status'[u] = "READY"
                 PROVE  Attended(u)
      <4>1. \A w \in Workers : worker[w].pc = "ack" => worker[w].task \in Tasks
        BY <1>5 DEF Firm, Attached, Messages
      <4> QED
        BY <1>1, <2>1, <4>1 DEF AckedIsDone, Attended, Calm, Handled
    <3>1. u # t
      <4>1. worker[w].current \in Carries(worker[w]) /\ worker[w].current[1] = u
        BY <1>5 DEF Firm, Attached, Carries
      <4>2. sent[u] > 0
        BY <1>5, <4>1 DEF Firm, Known
      <4> QED
        BY <2>3, <4>2
    <3> QED
      BY <1>3, <1>5, <3>1 DEF Firm, AckedIsDone
  <2>7. Covered'
    BY <1>1, <1>2, <1>3, <1>5, <2>1 DEF Firm, Covered
  <2> QED
    BY <2>2, <2>4, <2>5, <2>6, <2>7 DEF Firm
<1> QED
  BY <1>4, <1>5

\* Nothing here waits for a transaction or a time, and nothing is recovered.
LEMMA EndsOfTransactionKeep ==
  ASSUME Base, NEW t \in Tasks, Commit(t) \/ Rollback(t), UNCHANGED broker
  PROVE  Base' /\ ~Firm
<1>1. /\ app' \in [Tasks -> Enqueued] /\ status' \in [Tasks -> Statuses]
      /\ UNCHANGED <<options, due, lock, sent, worker, unannounced, faults, crashes,
                     queue, visible>>
  BY Rows DEF Commit, Rollback, bounds, broker, Enqueued, Statuses
<1>2. Base'
  BY <1>1, Rows, OthersKeep
<1> QED
  BY <1>2 DEF Commit, Rollback, Firm, Trusty

LEMMA BecomeDueKeeps ==
  ASSUME Base, NEW t \in Tasks, BecomeDue(t), UNCHANGED broker
  PROVE  Base' /\ ~Firm
<1>1. /\ t \notin due /\ due' = due \cup {t}
      /\ UNCHANGED <<options, app, status, lock, sent, worker, unannounced, faults, crashes,
                     queue, visible>>
  BY DEF BecomeDue, bounds, broker
<1>2. Base'
  BY <1>1, Rows, OthersKeep
<1> QED
  BY <1>1, <1>2 DEF Firm, Known

LEMMA RequeueKeeps ==
  ASSUME Base, NEW t \in Tasks, Requeue(t), UNCHANGED broker
  PROVE  Base' /\ ~Firm
<1>1. /\ status' \in [Tasks -> Statuses] /\ unannounced' \subseteq Tasks
      /\ UNCHANGED <<options, app, due, lock, sent, worker, faults, crashes, queue, visible>>
  BY Rows DEF Requeue, bounds, broker, Statuses
<1>2. Base'
  BY <1>1, Rows, OthersKeep
<1>3. ~Firm
  BY DEF Requeue, Firm, Trusty, Alone, RunningIsRun
<1> QED
  BY <1>2, <1>3

LEMMA RecoveryDiesKeeps ==
  ASSUME Base, RecoveryDies, UNCHANGED broker
  PROVE  Base' /\ ~Firm
<1>1. /\ crashes < options.max_crashes /\ crashes' = crashes + 1 /\ unannounced' = {}
      /\ UNCHANGED <<options, app, status, due, lock, sent, worker, faults, queue, visible>>
  BY DEF RecoveryDies, table, broker
<1>2. crashes' \in 0 .. options.max_crashes
  <2>1. options.max_crashes \in Nat
    BY Shape, Bounds DEF Shaped
  <2>2. crashes \in 0 .. options.max_crashes
    BY Shape
  <2> QED
    BY <1>1, <2>1, <2>2
<1>3. Base'
  BY <1>1, <1>2, Rows, OthersKeep
<1> QED
  BY <1>3 DEF RecoveryDies, Firm, Known

LEMMA SendTyped ==
  ASSUME Base, NEW t \in Tasks, Send(t)
  PROVE  /\ sent' \in [Tasks -> 0 .. MaxSends]
         /\ queue' \subseteq Messages /\ visible' \subseteq queue'
<1>1. CASE UNCHANGED <<sent, broker>>
  BY <1>1, Rows DEF broker
<1>2. CASE /\ sent[t] # MaxSends /\ sent' = [sent EXCEPT ![t] = @ + 1]
           /\ queue' = queue \cup {<<t, sent'[t]>>}
           /\ visible' = visible \cup {<<t, sent'[t]>>}
  <2>1. MaxSends \in Nat /\ sent[t] \in 0 .. MaxSends
    BY Rows, DeliveryAssumption
  <2>2. sent[t] + 1 \in 1 .. MaxSends /\ sent[t] + 1 \in 0 .. MaxSends
    BY <1>2, <2>1
  <2>3. sent' \in [Tasks -> 0 .. MaxSends] /\ sent'[t] \in 1 .. MaxSends
    BY <1>2, <2>2, Rows
  <2>4. <<t, sent'[t]>> \in Messages
    BY <2>3 DEF Messages
  <2> QED
    BY <1>2, <2>3, <2>4, Rows
<1> QED
  BY <1>1, <1>2 DEF Send

LEMMA AnnounceKeeps ==
  ASSUME Base, NEW t \in Tasks, Announce(t)
  PROVE  Base' /\ ~Firm
<1>1. /\ t \in unannounced /\ unannounced' = unannounced \ {t} /\ Send(t)
      /\ UNCHANGED <<options, app, status, due, lock, worker, faults, crashes>>
  BY DEF Announce, Announced, table, bounds
<1>2. Base'
  BY <1>1, Rows, SendTyped, OthersKeep
<1> QED
  BY <1>1, <1>2 DEF Firm, Known

\* The broker is told of a task that is there, and now has its message.
LEMMA NotifyKeeps ==
  ASSUME Base, NEW t \in Tasks, Notify(t)
  PROVE  Base' /\ (MaxSends > 0 /\ Firm => Firm')
<1>1. /\ app[t] = "inserted" /\ app' = [app EXCEPT ![t] = "notified"] /\ Send(t)
      /\ UNCHANGED <<options, status, due, lock, worker, unannounced, faults, crashes>>
  BY DEF Notify, Notified, bounds
<1>2. /\ app' \in [Tasks -> Enqueued] /\ app'[t] = "notified"
      /\ \A u \in Tasks \ {t} : app'[u] = app[u]
  BY <1>1, Rows DEF Enqueued
<1>3. Base'
  BY <1>1, <1>2, Rows, SendTyped, OthersKeep
<1>4. ASSUME MaxSends > 0, Firm PROVE Firm'
  <2>1. /\ Workers' = Workers /\ Alone' = Alone
        /\ \A u \in Tasks : Attended(u)' = Attended(u)
    BY <1>1 DEF Workers, Alone, Attended, Calm, Handled
  <2>2. sent[t] = 0 /\ t \in due /\ ~options.calls_may_fail
    BY <1>1, <1>4 DEF Firm, Known, Trusty
  <2>3. sent[t] # MaxSends
    BY <1>4, <2>2, DeliveryAssumption
  <2>4. /\ sent' = [sent EXCEPT ![t] = @ + 1]
        /\ queue' = queue \cup {<<t, sent'[t]>>} /\ visible' = visible \cup {<<t, sent'[t]>>}
    BY <1>1, <2>2, <2>3 DEF Send
  <2>5. sent'[t] = 1 /\ \A u \in Tasks \ {t} : sent'[u] = sent[u]
    BY <2>2, <2>4, Rows
  <2> DEFINE n == <<t, 1>>
  <2>6. /\ queue' = queue \cup {n} /\ visible' = visible \cup {n}
        /\ n[1] = t /\ n[2] = 1
    BY <2>4, <2>5
  <2>7. \A w \in Workers : n \notin Carries(worker[w])
    BY <1>4, <2>2, <2>6 DEF Firm, Known
  <2> HIDE DEF n
  <2>8. Trusty' /\ Attached' /\ RunningIsRun'
    BY <1>1, <1>4, <2>1 DEF Firm, Trusty, Attached, RunningIsRun, Alone, Calm
  <2>9. Known'
    <3>1. \A u \in Tasks : sent[u] > 0 => sent'[u] > 0
      BY <2>2, <2>5
    <3>2. \A m \in queue : m[1] \in Tasks
      BY Rows DEF Messages
    <3>3. \A w \in Workers : \A m \in Carries(worker[w]) : m[1] \in Tasks
      <4>1. \A w \in Workers : worker[w] \in Worker
        BY Shape
      <4> QED
        BY <4>1, CarriesMessages DEF Messages
    <3>4. \A m \in queue' : sent'[m[1]] > 0
      BY <1>4, <2>5, <2>6, <3>1, <3>2 DEF Firm, Known
    <3>5. \A w \in Workers : \A m \in Carries(worker[w]) : sent'[m[1]] > 0
      BY <1>4, <3>1, <3>3 DEF Firm, Known
    <3>6. \A u \in Tasks : /\ app'[u] \in {"new", "inserted"} => sent'[u] = 0
                           /\ app'[u] # "new" => status[u] # "NONE"
      BY <1>1, <1>2, <1>4, <2>5 DEF Firm, Known
    <3> QED
      BY <1>1, <1>4, <2>1, <3>4, <3>5, <3>6 DEF Firm, Known
  <2>10. Single'
    <3> SUFFICES ASSUME Alone PROVE Single'
      BY <2>1 DEF Single
    <3>1. \A u \in Tasks : sent'[u] <= 1
      BY <1>4, <2>5 DEF Firm, Single
    <3>2. \A m \in queue' : m[2] = 1
      BY <1>4, <2>6 DEF Firm, Single
    <3>3. \A w \in Workers : /\ Carries(worker[w]) \subseteq queue' \ visible'
                             /\ worker[w].current \notin worker[w].hand
      BY <1>4, <2>6, <2>7 DEF Firm, Single
    <3>4. \A v, w \in Workers : v # w => Carries(worker[v]) \cap Carries(worker[w]) = {}
      BY <1>4 DEF Firm, Single
    <3> QED
      BY <1>1, <2>1, <3>1, <3>2, <3>3, <3>4 DEF Single
  <2>11. AckedIsDone'
    BY <1>1, <1>4, <2>1 DEF Firm, AckedIsDone, Attended, Calm, Handled
  <2>12. Covered'
    BY <1>1, <1>2, <1>4, <2>1, <2>6 DEF Firm, Covered
  <2> QED
    BY <2>8, <2>9, <2>10, <2>11, <2>12 DEF Firm
<1> QED
  BY <1>3, <1>4

LEMMA ReappearKeeps ==
  ASSUME Base, NEW m \in Messages, Reappear(m)
  PROVE  Base' /\ (Firm => Firm')
<1>1. /\ m \in queue /\ visible' = visible \cup {m}
      /\ UNCHANGED <<options, app, status, due, lock, sent, queue, worker, unannounced,
                     faults, crashes>>
      /\ Alone => \A w \in Workers : m \notin worker[w].hand \cup {worker[w].current}
  BY DEF Reappear, table, bounds, Alone
<1>2. Base'
  BY <1>1, Rows, OthersKeep
<1>3. ASSUME Firm PROVE Firm'
  <2>1. /\ Workers' = Workers /\ Alone' = Alone
        /\ \A u \in Tasks : Attended(u)' = Attended(u)
    BY <1>1 DEF Workers, Alone, Attended, Calm, Handled
  <2>2. Trusty' /\ Attached' /\ RunningIsRun' /\ Known'
    BY <1>1, <1>3, <2>1 DEF Firm, Trusty, Attached, RunningIsRun, Alone, Calm, Known
  <2>3. Alone => \A w \in Workers : m \notin Carries(worker[w])
    BY <1>1 DEF Carries
  <2>4. Single'
    BY <1>1, <1>3, <2>1, <2>3 DEF Firm, Single
  <2>5. AckedIsDone' /\ Covered'
    BY <1>1, <1>3, <2>1 DEF Firm, AckedIsDone, Attended, Calm, Handled, Covered
  <2> QED
    BY <2>2, <2>4, <2>5 DEF Firm
<1> QED
  BY <1>2, <1>3

-----------------------------------------------------------------------------
(* The theorems.                                                           *)

LEMMA WorkerKeeps ==
  ASSUME Base, NEW w \in Workers, WorkerMoves(w) /\ (Firm => FirmMoves(w))
  PROVE  Base' /\ (Firm => Firm')
BY BaseKept, FirmKept

LEMMA WorkerStepMoves ==
  ASSUME Base, NEW w \in Workers, WorkerStep(w) \/ RunFails(w) \/ Crash(w), UNCHANGED broker
  PROVE  Base' /\ (Firm => Firm')
<1>1. CASE EndRound(w)
  BY <1>1, EndRoundMoves, WorkerKeeps
<1>2. CASE SweepNothing(w)
  BY <1>2, SweepNothingMoves, WorkerKeeps
<1>3. CASE Unlock(w)
  BY <1>3, UnlockMoves, WorkerKeeps
<1>4. CASE Claim(w)
  BY <1>4, ClaimMoves, WorkerKeeps
<1>5. CASE Finish(w)
  BY <1>5, FinishMoves, WorkerKeeps
<1>6. CASE \E m \in Messages : OpenMessage(w, m)
  BY <1>6, OpenMessageMoves, WorkerKeeps
<1>7. CASE Crash(w)
  BY <1>7, CrashMoves, WorkerKeeps
<1>8. CASE RunFails(w)
  BY <1>8, RunFailsMoves, WorkerKeeps
<1> QED
  BY <1>1, <1>2, <1>3, <1>4, <1>5, <1>6, <1>7, <1>8 DEF WorkerStep

LEMMA TableStepKeeps ==
  ASSUME Base, TableStep, UNCHANGED broker
  PROVE  Base' /\ (Firm => Firm')
<1>1. CASE RecoveryDies
  BY <1>1, RecoveryDiesKeeps
<1>2. ASSUME NEW t \in Tasks, Insert(t) PROVE Base' /\ (Firm => Firm')
  BY <1>2, InsertKeeps
<1>3. ASSUME NEW t \in Tasks, Rollback(t) PROVE Base' /\ (Firm => Firm')
  BY <1>3, EndsOfTransactionKeep
<1>4. ASSUME NEW t \in Tasks, BecomeDue(t) PROVE Base' /\ (Firm => Firm')
  BY <1>4, BecomeDueKeeps
<1>5. ASSUME NEW t \in Tasks, Requeue(t) PROVE Base' /\ (Firm => Firm')
  BY <1>5, RequeueKeeps
<1>6. ASSUME NEW w \in Workers, NEW t \in Tasks, Sweep(w, t) PROVE Base' /\ (Firm => Firm')
  BY <1>6, SweepMoves, WorkerKeeps
<1> QED
  BY <1>1, <1>2, <1>3, <1>4, <1>5, <1>6 DEF TableStep

LEMMA StepKeeps ==
  ASSUME Base, [Next]_vars
  PROVE  Base' /\ (MaxSends > 0 /\ Firm => Firm')
<1>1. CASE TableStep /\ UNCHANGED broker
  BY <1>1, TableStepKeeps
<1>2. ASSUME NEW w \in Workers, WorkerStep(w) \/ RunFails(w) \/ Crash(w), UNCHANGED broker
      PROVE  Base' /\ (Firm => Firm')
  BY <1>2, WorkerStepMoves
<1>3. ASSUME NEW t \in Tasks, Notify(t)
      PROVE  Base' /\ (MaxSends > 0 /\ Firm => Firm')
  BY <1>3, NotifyKeeps
<1>4. ASSUME NEW t \in Tasks, Announce(t) PROVE Base' /\ (Firm => Firm')
  BY <1>4, AnnounceKeeps
<1>5. ASSUME NEW t \in Tasks, EndTransaction(t) PROVE Base' /\ (Firm => Firm')
  BY <1>5, EndsOfTransactionKeep DEF EndTransaction
<1>6. ASSUME NEW m \in Messages, Reappear(m) PROVE Base' /\ (Firm => Firm')
  BY <1>6, ReappearKeeps
<1>7. ASSUME NEW w \in Workers, NEW M \in SUBSET visible, Receive(w, M)
      PROVE  Base' /\ (Firm => Firm')
  BY <1>7, ReceiveMoves, WorkerKeeps
<1>8. ASSUME NEW w \in Workers, Ack(w) PROVE Base' /\ (Firm => Firm')
  BY <1>8, AckMoves, WorkerKeeps
<1>9. ASSUME NEW w \in Workers, Nack(w) PROVE Base' /\ (Firm => Firm')
  BY <1>9, NackMoves, WorkerKeeps
<1>10. CASE UNCHANGED vars
  <2>1. /\ UNCHANGED <<options, app, status, due, lock, sent, worker, unannounced,
                       faults, crashes, queue, visible>>
        /\ Workers' = Workers
    BY <1>10 DEF vars, table, bounds, broker, Workers
  <2>2. Base'
    BY <2>1, Rows, OthersKeep, Shape
  <2>3. Firm => Firm'
    BY <2>1 DEF Firm, Trusty, Attached, Known, Single, RunningIsRun, AckedIsDone, Covered,
                Attended, Calm, Handled, Alone
  <2> QED
    BY <2>2, <2>3
<1> QED
  BY <1>1, <1>2, <1>3, <1>4, <1>5, <1>6, <1>7, <1>8, <1>9, <1>10 DEF Next

\* Every variable has its type, and the queue shows only what it holds,
\* whatever the deployment, the queue and the workers do.
THEOREM BrokerTypeOK == Spec => []TypeOK
<1>1. Base /\ [Next]_vars => Base'
  BY StepKeeps
<1>2. Base => TypeOK
  BY ShapedIsTyped DEF Base
<1> QED
  BY <1>1, <1>2, BaseInit, PTL DEF Spec

\* Where only messages bring tasks, a task that is READY keeps a message in
\* the queue, or somebody who is about to claim it: an acknowledgement never
\* takes the last one away, however often messages are received twice or lose
\* their race for the row (_run_broker_message).  Workers may die, or meet
\* errors on the way to the claim and from there on, where no message comes
\* back to a second worker while a first one has it.  The deployments left
\* out are those whose tasks the sweep is there for.
THEOREM AlwaysReadyIsCovered ==
  ASSUME MaxSends > 0,
         \A d \in Deployments : ~d.sweeps =>
           /\ d.in_transaction = {} /\ d.far = {} /\ ~d.calls_may_fail
           /\ \/ d.max_crashes = 0 /\ d.max_faults = 0
              \/ ~d.short_visibility /\ ~d.recovery
  PROVE  Spec => []ReadyIsCovered
<1> DEFINE Inv == Base /\ (options.sweeps \/ Firm)
<1>1. Init => Inv
  <2> SUFFICES ASSUME Init PROVE Inv
    OBVIOUS
  <2>1. options.sweeps \/ Trusty
    BY DEF Init, WorkersInit, Trusty, Alone, Calm
  <2> QED
    BY <2>1, BaseInit, FirmInit
<1>2. Inv /\ [Next]_vars => Inv'
  <2> SUFFICES ASSUME Inv, [Next]_vars PROVE Inv'
    OBVIOUS
  <2>1. Base' /\ (Firm => Firm')
    BY StepKeeps
  <2>2. options' = options
    BY DEF Next, vars, TableStep, WorkerStep, RecoveryDies, Insert, Rollback, BecomeDue,
           Requeue, Sweep, EndRound, SweepNothing, Unlock, Claim, Finish, OpenMessage, RunFails,
           Crash, Notify, Notified, Announce, Announced, EndTransaction, Commit, Reappear, Receive,
           Received, Ack, Nack, Answered
  <2> QED
    BY <2>1, <2>2
<1>3. Inv => ReadyIsCovered
  BY FirmCovers DEF Base
<1> QED
  BY <1>1, <1>2, <1>3, PTL DEF Spec
=============================================================================
