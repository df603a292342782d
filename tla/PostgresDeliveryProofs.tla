----------------------- MODULE PostgresDeliveryProofs -----------------------
(***************************************************************************)
(* Proofs about PostgresDelivery: a worker that waits for a notification   *)
(* has seen every task that is READY or will hear of it, for any tasks,    *)
(* workers and deployments.                                                *)
(***************************************************************************)
EXTENDS PostgresDelivery, TLAPS

States == {"loop", "work", "selected", "claim", "run", "ack", "nack"}
Statuses == {"NONE", "READY", "RUNNING", "COMPLETED"}
Enqueued == {"new", "inserted", "notified", "committed", "rolled back"}

\* What a step makes of the state of a worker.
At(x, pc) == [x EXCEPT !.pc = pc]
Got(x, M) == [x EXCEPT !.pc = "work", !.hand = M, !.ran = FALSE]
Took(x, t) == [x EXCEPT !.pc = "selected", !.task = t]
Opened(x, pc, m) == [x EXCEPT !.pc = pc, !.hand = @ \ {m}, !.current = m, !.task = m[1]]
WentOn(x, pc, ran) == [x EXCEPT !.pc = pc, !.ran = @ \/ ran]
Closed(x) == [x EXCEPT !.pc = "work", !.current = NoMessage, !.task = NoTask]

LEMMA AtFields ==
  ASSUME NEW x \in Worker, NEW pc \in States
  PROVE  /\ At(x, pc) \in Worker
         /\ At(x, pc).pc = pc /\ At(x, pc).task = x.task /\ At(x, pc).hand = x.hand
         /\ At(x, pc).current = x.current /\ At(x, pc).round = x.round
BY DEF Worker, At, States

LEMMA GotFields ==
  ASSUME NEW x \in Worker, NEW M \in SUBSET Messages
  PROVE  /\ Got(x, M) \in Worker
         /\ Got(x, M).pc = "work" /\ Got(x, M).hand = M
         /\ Got(x, M).round = x.round /\ Got(x, M).task = x.task
<1>1. Got(x, M) \in Worker
  BY DEF Worker, Got
<1>2. Got(x, M).pc = "work" /\ Got(x, M).hand = M
  BY DEF Worker, Got
<1>3. Got(x, M).round = x.round /\ Got(x, M).task = x.task
  BY DEF Worker, Got
<1> QED
  BY <1>1, <1>2, <1>3

LEMMA TookFields ==
  ASSUME NEW x \in Worker, NEW t \in Tasks
  PROVE  /\ Took(x, t) \in Worker
         /\ Took(x, t).pc = "selected" /\ Took(x, t).task = t /\ Took(x, t).hand = x.hand
         /\ Took(x, t).round = x.round
<1>1. Took(x, t) \in Worker
  BY DEF Worker, Took
<1>2. Took(x, t).pc = "selected" /\ Took(x, t).task = t
  BY DEF Worker, Took
<1>3. Took(x, t).hand = x.hand /\ Took(x, t).round = x.round
  BY DEF Worker, Took
<1> QED
  BY <1>1, <1>2, <1>3

LEMMA OpenedFields ==
  ASSUME NEW x \in Worker, NEW pc \in States, NEW m \in Messages
  PROVE  /\ Opened(x, pc, m) \in Worker
         /\ Opened(x, pc, m).pc = pc /\ Opened(x, pc, m).task = m[1]
         /\ Opened(x, pc, m).hand = x.hand \ {m} /\ Opened(x, pc, m).current = m
         /\ Opened(x, pc, m).round = x.round
<1>0. m[1] \in Tasks
  BY DEF Messages
<1>1. Opened(x, pc, m) \in Worker
  BY <1>0 DEF Worker, Opened, States
<1>2. Opened(x, pc, m).pc = pc /\ Opened(x, pc, m).task = m[1]
  BY DEF Worker, Opened
<1>3. Opened(x, pc, m).hand = x.hand \ {m} /\ Opened(x, pc, m).current = m
  BY DEF Worker, Opened
<1>4. Opened(x, pc, m).round = x.round
  BY DEF Worker, Opened
<1> QED
  BY <1>1, <1>2, <1>3, <1>4

LEMMA WentOnFields ==
  ASSUME NEW x \in Worker, NEW pc \in States, NEW ran \in BOOLEAN
  PROVE  /\ WentOn(x, pc, ran) \in Worker
         /\ WentOn(x, pc, ran).pc = pc /\ WentOn(x, pc, ran).task = x.task
         /\ WentOn(x, pc, ran).hand = x.hand /\ WentOn(x, pc, ran).round = x.round
<1>1. WentOn(x, pc, ran) \in Worker
  BY DEF Worker, WentOn, States
<1>2. WentOn(x, pc, ran).pc = pc /\ WentOn(x, pc, ran).task = x.task
  BY DEF Worker, WentOn
<1>3. WentOn(x, pc, ran).hand = x.hand /\ WentOn(x, pc, ran).round = x.round
  BY DEF Worker, WentOn
<1> QED
  BY <1>1, <1>2, <1>3

LEMMA ClosedFields ==
  ASSUME NEW x \in Worker
  PROVE  /\ Closed(x) \in Worker
         /\ Closed(x).pc = "work" /\ Closed(x).hand = x.hand /\ Closed(x).round = x.round
<1>1. Closed(x) \in Worker
  BY DEF Worker, Closed
<1>2. Closed(x).pc = "work"
  BY DEF Worker, Closed
<1>3. Closed(x).hand = x.hand /\ Closed(x).round = x.round
  BY DEF Worker, Closed
<1> QED
  BY <1>1, <1>2, <1>3

LEMMA StartFields ==
  ASSUME NEW round \in {"poll", "sweep", "wait"}
  PROVE  /\ Start(round) \in Worker
         /\ Start(round).pc = "loop" /\ Start(round).hand = {} /\ Start(round).round = round
BY DEF Worker, Start

-----------------------------------------------------------------------------
(* What holds in every deployment.                                         *)

Shaped ==
  /\ worker \in [Workers -> Worker]
  /\ \A w \in Workers : worker[w].pc \in {"selected", "claim", "run"} => worker[w].task \in Tasks
  /\ app \in [Tasks -> Enqueued] /\ status \in [Tasks -> Statuses]
  /\ lock \in [Tasks -> Workers \cup {NoOne}] /\ sent \in [Tasks -> 0 .. MaxSends]
  /\ heard \in [Workers -> SUBSET Messages] /\ listening \subseteq Workers
  /\ unannounced \subseteq Tasks
  /\ NoOne \notin Workers /\ faults \in Nat /\ crashes \in Nat

\* The loop asks for messages, or takes a task from the table, when it has
\* no message left.
EmptyHanded ==
  \A w \in Workers :
    \/ worker[w].pc = "loop"
    \/ worker[w].pc \in {"selected", "claim", "run"} /\ worker[w].current = NoMessage
    => worker[w].hand = {}

LocksHeld == \A t \in Tasks, w \in Workers :
  lock[t] = w => worker[w].pc = "selected" /\ worker[w].task = t

\* A row is there once its transaction, if any, is committed; what has been
\* found in the table stays there.
RowsAreThere ==
  /\ \A t \in Tasks : /\ app[t] # "new" /\ t \notin options.in_transaction => status[t] # "NONE"
                      /\ app[t] = "new" => status[t] = "NONE"
                      /\ app[t] \in {"inserted", "notified"} /\ t \in options.in_transaction
                           => status[t] = "NONE"
  /\ \A t \in unannounced : status[t] # "NONE"
  /\ \A w \in Workers : worker[w].pc = "run" => status[worker[w].task] # "NONE"

Base == Shaped /\ EmptyHanded /\ LocksHeld /\ RowsAreThere /\ HearsOfWhatIsThere
          /\ Tasks \ options.far \subseteq due

LEMMA BaseInit == Init => Base
<1> SUFFICES ASSUME Init PROVE Base
  OBVIOUS
<1> USE DEF Init, WorkersInit
<1>1. NoOne \notin Workers /\ MaxSends \in Nat
  BY DeliveryAssumption DEF Workers
<1>2. /\ worker \in [Workers -> Worker]
      /\ \A w \in Workers : worker[w].pc = "loop" /\ worker[w].hand = {}
  BY StartFields
<1>3. Shaped
  <2>1. sent \in [Tasks -> 0 .. MaxSends]
    BY <1>1
  <2>2. app \in [Tasks -> Enqueued] /\ status \in [Tasks -> Statuses]
    BY DEF Enqueued, Statuses
  <2>3. heard \in [Workers -> SUBSET Messages]
    OBVIOUS
  <2> QED
    BY <1>1, <1>2, <2>1, <2>2, <2>3 DEF Shaped
<1>4. EmptyHanded /\ LocksHeld
  BY <1>1, <1>2 DEF EmptyHanded, LocksHeld
<1>5. RowsAreThere
  BY <1>2 DEF RowsAreThere
<1>6. HearsOfWhatIsThere
  BY <1>2 DEF HearsOfWhatIsThere
<1> QED
  BY <1>3, <1>4, <1>5, <1>6 DEF Base

LEMMA Moved ==
  ASSUME Shaped, NEW w \in Workers, NEW x \in Worker, Set(w, x), UNCHANGED options
  PROVE  /\ worker' \in [Workers -> Worker] /\ Workers' = Workers
         /\ worker'[w] = x /\ \A v \in Workers \ {w} : worker'[v] = worker[v]
BY DEF Shaped, Set, Workers

\* A step that a worker takes, with what it needs to keep the above.
WorkerMoves(w) ==
  /\ UNCHANGED <<options, app, due, sent, unannounced>> /\ Workers' = Workers
  /\ worker' \in [Workers -> Worker] /\ \A v \in Workers \ {w} : worker'[v] = worker[v]
  /\ status' \in [Tasks -> Statuses] /\ lock' \in [Tasks -> Workers \cup {NoOne}]
  /\ heard' \in [Workers -> SUBSET Messages] /\ listening' \subseteq Workers
  /\ faults' \in Nat /\ crashes' \in Nat
  /\ worker'[w].pc \in {"selected", "claim", "run"} => worker'[w].task \in Tasks
  /\ worker'[w].hand \subseteq worker[w].hand \cup heard[w]
  /\ \A v \in Workers : heard'[v] \subseteq heard[v]
  /\ \A t \in Tasks : status'[t] = "NONE" <=> status[t] = "NONE"
  /\ \/ worker'[w].pc = "loop"
     \/ worker'[w].pc \in {"selected", "claim", "run"} /\ worker'[w].current = NoMessage
     => worker'[w].hand = {}
  /\ worker'[w].pc = "run" => status'[worker'[w].task] # "NONE"
  /\ \A t \in Tasks : lock'[t] = w => worker'[w].pc = "selected" /\ worker'[w].task = t
  /\ \A t \in Tasks : lock'[t] # w => lock'[t] \in {lock[t], NoOne}

LEMMA BaseKept == ASSUME Base, NEW w \in Workers, WorkerMoves(w) PROVE Base'
<1>1. Shaped'
  BY DEF Base, Shaped, WorkerMoves
<1>2. EmptyHanded'
  BY DEF Base, EmptyHanded, WorkerMoves
<1>3. LocksHeld'
  BY DEF Base, Shaped, LocksHeld, WorkerMoves
<1>4. RowsAreThere'
  <2>1. \A v \in Workers : worker'[v].pc = "run" => status'[worker'[v].task] # "NONE"
    BY DEF Base, Shaped, RowsAreThere, WorkerMoves
  <2> QED
    BY <2>1 DEF Base, Shaped, RowsAreThere, WorkerMoves
<1>5. HearsOfWhatIsThere'
  <2> SUFFICES ASSUME NEW v \in Workers, NEW m \in heard'[v] \cup worker'[v].hand
               PROVE  status'[m[1]] # "NONE"
    BY DEF HearsOfWhatIsThere, WorkerMoves
  <2>1. m \in heard[v] \cup worker[v].hand
    BY DEF WorkerMoves
  <2>2. m \in Messages
    BY <2>1 DEF Base, Shaped, Worker
  <2>3. m[1] \in Tasks /\ status[m[1]] # "NONE"
    BY <2>1, <2>2 DEF Base, HearsOfWhatIsThere, Messages
  <2> QED
    BY <2>3 DEF WorkerMoves
<1> QED
  BY <1>1, <1>2, <1>3, <1>4, <1>5 DEF Base, WorkerMoves

-----------------------------------------------------------------------------
(* What holds as long as nothing has failed.                               *)

Undisturbed == faults = 0 /\ crashes = 0 /\ ~options.calls_may_fail

Awake(t) ==
  \/ Handled(t)
  \/ \E v \in Workers, m \in Messages : m[1] = t /\ m \in heard[v] \cup worker[v].hand

\* What is RUNNING is being run, so that there is nothing to recover; a worker
\* listens once it is past its first poll; and whoever waits is covered.
Quiet ==
  /\ \A t \in Tasks : status[t] = "RUNNING" =>
       \E w \in Workers : worker[w].pc = "run" /\ worker[w].task = t
  /\ unannounced = {}
  /\ \A w \in Workers :
       worker[w].pc # "loop" \/ worker[w].round # "poll" => w \in listening
  /\ \A t \in Tasks : /\ app[t] \in {"new", "inserted"} => sent[t] = 0
                      /\ app[t] = "notified" /\ t \notin options.far => sent[t] > 0
  /\ \A w \in listening, t \in Tasks \ options.far :
       /\ worker[w].pc = "loop" /\ worker[w].round = "wait"
       /\ status[t] = "READY" /\ app[t] # "inserted"
       => Awake(t)

LEMMA QuietInit == Init => Quiet
<1> SUFFICES ASSUME Init PROVE Quiet
  OBVIOUS
<1>1. \A w \in Workers : worker[w].pc = "loop" /\ worker[w].round = "poll"
  BY StartFields DEF Init, WorkersInit
<1> QED
  BY <1>1 DEF Init, WorkersInit, Quiet

\* A step of a worker that leaves nobody asleep who should not be.
QuietMoves(w) ==
  /\ UNCHANGED <<faults, crashes>> /\ listening \subseteq listening' /\ listening' \subseteq listening \cup {w}
  /\ worker'[w].pc # "loop" \/ worker'[w].round # "poll" => w \in listening'
  /\ \A t \in Tasks :
       /\ status'[t] = "RUNNING" =>
            \/ status[t] = "RUNNING" /\ ~(worker[w].pc = "run" /\ worker[w].task = t)
            \/ worker'[w].pc = "run" /\ worker'[w].task = t
       /\ status'[t] = "READY" => status[t] = "READY"
  /\ \A v \in Workers \ {w} : heard'[v] = heard[v]
  /\ \A t \in Tasks : worker[w].pc \in {"selected", "claim"} /\ worker[w].task = t
       => status'[t] # "READY" \/ Handled(t)'
  /\ \A m \in heard[w] \cup worker[w].hand :
       m \in heard'[w] \cup worker'[w].hand \/ status'[m[1]] # "READY" \/ Handled(m[1])'
  /\ worker'[w].pc = "loop" /\ worker'[w].round = "wait" =>
       \/ worker[w].pc = "loop" /\ worker[w].round = "wait"
       \/ \A t \in Tasks \ options.far : status'[t] = "READY" => Handled(t)'

LEMMA QuietKept ==
  ASSUME Base, Quiet, NEW w \in Workers, WorkerMoves(w), QuietMoves(w)
  PROVE  Quiet'
<1>1. ASSUME NEW t \in Tasks, status'[t] = "RUNNING"
      PROVE  \E v \in Workers : worker'[v].pc = "run" /\ worker'[v].task = t
  <2>1. CASE worker'[w].pc = "run" /\ worker'[w].task = t
    BY <2>1
  <2>2. CASE status[t] = "RUNNING" /\ ~(worker[w].pc = "run" /\ worker[w].task = t)
    <3>1. PICK v \in Workers : worker[v].pc = "run" /\ worker[v].task = t
      BY <2>2 DEF Quiet
    <3> QED
      BY <2>2, <3>1 DEF WorkerMoves
  <2> QED
    BY <1>1, <2>1, <2>2 DEF QuietMoves
<1>2. \A v \in Workers : worker'[v].pc # "loop" \/ worker'[v].round # "poll" => v \in listening'
  BY DEF Quiet, QuietMoves, WorkerMoves
<1>3. ASSUME NEW t \in Tasks, Awake(t), status'[t] = "READY" PROVE Awake(t)'
  <2>1. CASE Handled(t)
    <3>1. PICK v \in Workers : worker[v].task = t /\ worker[v].pc \in {"selected", "claim"}
      BY <2>1 DEF Handled
    <3>2. CASE v = w
      BY <1>3, <3>1, <3>2 DEF QuietMoves, Awake
    <3>3. CASE v # w
      BY <3>1, <3>3 DEF WorkerMoves, Awake, Handled
    <3> QED
      BY <3>2, <3>3
  <2>2. CASE ~Handled(t)
    <3>1. PICK v \in Workers, m \in Messages : m[1] = t /\ m \in heard[v] \cup worker[v].hand
      BY <1>3, <2>2 DEF Awake
    <3>2. CASE v = w
      BY <1>3, <3>1, <3>2 DEF WorkerMoves, QuietMoves, Awake
    <3>3. CASE v # w
      BY <3>1, <3>3 DEF WorkerMoves, QuietMoves, Awake
    <3> QED
      BY <3>2, <3>3
  <2> QED
    BY <2>1, <2>2
<1>4. ASSUME NEW v \in listening', NEW t \in Tasks \ options.far,
             worker'[v].pc = "loop", worker'[v].round = "wait",
             status'[t] = "READY", app[t] # "inserted"
      PROVE  Awake(t)'
  <2>1. v \in Workers /\ status[t] = "READY"
    BY <1>4 DEF WorkerMoves, QuietMoves
  <2>2. CASE worker[v].pc = "loop" /\ worker[v].round = "wait"
    <3>1. v \in listening
      BY <2>1, <2>2 DEF Quiet
    <3>2. Awake(t)
      BY <1>4, <2>1, <2>2, <3>1 DEF Quiet
    <3> QED
      BY <1>3, <1>4, <3>2
  <2>3. CASE ~(worker[v].pc = "loop" /\ worker[v].round = "wait")
    <3>1. v = w
      BY <1>4, <2>1, <2>3 DEF WorkerMoves
    <3> QED
      BY <1>4, <2>3, <3>1 DEF QuietMoves, Awake
  <2> QED
    BY <2>2, <2>3
<1>5. /\ UNCHANGED <<app, sent, unannounced>> /\ options' = options /\ Workers' = Workers
  BY DEF WorkerMoves
<1> QED
  BY <1>1, <1>2, <1>4, <1>5 DEF Quiet

-----------------------------------------------------------------------------
(* The steps of a worker, one by one.                                      *)

LEMMA Shape ==
  ASSUME Base
  PROVE  /\ Shaped /\ worker \in [Workers -> Worker] /\ status \in [Tasks -> Statuses]
         /\ lock \in [Tasks -> Workers \cup {NoOne}] /\ heard \in [Workers -> SUBSET Messages]
         /\ listening \subseteq Workers /\ faults \in Nat /\ crashes \in Nat /\ NoOne \notin Workers
         /\ \A w \in Workers : worker[w].hand \subseteq Messages
BY DEF Base, Shaped, Worker

LEMMA SweepMoves ==
  ASSUME Base, NEW w \in Workers, NEW t \in Tasks, Sweep(w, t), UNCHANGED channel
  PROVE  WorkerMoves(w) /\ (Quiet => QuietMoves(w))
<1>1. /\ worker[w].pc = "loop" /\ worker[w].round = "sweep" /\ worker[w].hand = {}
      /\ UNCHANGED <<options, app, status, due, sent, unannounced, faults, crashes, heard,
                     listening>>
      /\ lock' = [lock EXCEPT ![t] = w] /\ Set(w, Took(worker[w], t)) /\ lock[t] = NoOne
  BY DEF Sweep, Fetchable, channel, bounds, Took, Base, EmptyHanded
<1>2. /\ worker' \in [Workers -> Worker] /\ Workers' = Workers
      /\ worker'[w] = Took(worker[w], t) /\ \A v \in Workers \ {w} : worker'[v] = worker[v]
  BY <1>1, Shape, TookFields, Moved
<1>3. /\ worker'[w].pc = "selected" /\ worker'[w].task = t /\ worker'[w].hand = {}
      /\ worker'[w].round = "sweep"
  <2>1. worker[w] \in Worker
    BY Shape
  <2> QED
    BY <1>1, <1>2, <2>1, TookFields
<1>4. /\ lock' \in [Tasks -> Workers \cup {NoOne}] /\ lock'[t] = w
      /\ \A u \in Tasks \ {t} : lock'[u] = lock[u] /\ lock[u] # w
  BY <1>1, Shape DEF Base, LocksHeld
<1>5. WorkerMoves(w)
  BY <1>1, <1>2, <1>3, <1>4, Shape DEF WorkerMoves
<1>6. Quiet => QuietMoves(w)
  BY <1>1, <1>3 DEF QuietMoves, Quiet
<1> QED
  BY <1>5, <1>6

LEMMA EndRoundMoves ==
  ASSUME Base, NEW w \in Workers, EndRound(w), UNCHANGED channel
  PROVE  WorkerMoves(w) /\ (Quiet => QuietMoves(w))
<1>1. /\ worker[w].pc = "work" /\ worker[w].hand = {} /\ Set(w, Start(AfterMessages(w)))
      /\ UNCHANGED <<options, app, status, lock, due, sent, unannounced, faults, crashes, heard,
                     listening>>
      /\ AfterMessages(w) \in {"poll", "sweep"}
  BY DEF EndRound, channel, bounds, table, AfterMessages
<1>2. /\ worker' \in [Workers -> Worker] /\ Workers' = Workers
      /\ worker'[w] = Start(AfterMessages(w)) /\ \A v \in Workers \ {w} : worker'[v] = worker[v]
  BY <1>1, Shape, StartFields, Moved
<1>3. worker'[w].pc = "loop" /\ worker'[w].hand = {} /\ worker'[w].round \in {"poll", "sweep"}
  BY <1>1, <1>2, StartFields
<1>4. \A t \in Tasks : lock[t] # w
  BY <1>1 DEF Base, LocksHeld
<1>5. WorkerMoves(w)
  BY <1>1, <1>2, <1>3, <1>4, Shape DEF WorkerMoves
<1>6. Quiet => QuietMoves(w)
  BY <1>1, <1>3 DEF QuietMoves, Quiet
<1> QED
  BY <1>5, <1>6

\* Whoever finds nothing to take leaves only what another is about to claim.
LEMMA SweepNothingMoves ==
  ASSUME Base, NEW w \in Workers, SweepNothing(w), UNCHANGED channel
  PROVE  WorkerMoves(w) /\ (Quiet => QuietMoves(w))
<1>1. /\ worker[w].pc = "loop" /\ worker[w].round = "sweep" /\ worker[w].hand = {}
      /\ Set(w, Start("wait")) /\ \A t \in Tasks : ~Fetchable(t)
      /\ UNCHANGED <<options, app, status, lock, due, sent, unannounced, faults, crashes, heard,
                     listening>>
  BY DEF SweepNothing, channel, bounds, table, Base, EmptyHanded
<1>2. /\ worker' \in [Workers -> Worker] /\ Workers' = Workers
      /\ worker'[w] = Start("wait") /\ \A v \in Workers \ {w} : worker'[v] = worker[v]
  BY <1>1, Shape, StartFields, Moved
<1>3. worker'[w].pc = "loop" /\ worker'[w].hand = {} /\ worker'[w].round = "wait"
  BY <1>1, <1>2, StartFields
<1>4. \A t \in Tasks : lock[t] # w
  BY <1>1 DEF Base, LocksHeld
<1>5. WorkerMoves(w)
  BY <1>1, <1>2, <1>3, <1>4, Shape DEF WorkerMoves
<1>6. ASSUME NEW t \in Tasks \ options.far, status[t] = "READY" PROVE Handled(t)'
  <2>1. lock[t] \in Workers
    BY <1>1, <1>6, Shape DEF Fetchable, Base
  <2>2. PICK v \in Workers : worker[v].pc = "selected" /\ worker[v].task = t
    BY <2>1 DEF Base, LocksHeld
  <2> QED
    BY <1>1, <1>2, <2>2 DEF Handled
<1>7. Quiet => QuietMoves(w)
  BY <1>1, <1>3, <1>6 DEF QuietMoves, Quiet
<1> QED
  BY <1>5, <1>7

LEMMA UnlockMoves ==
  ASSUME Base, NEW w \in Workers, Unlock(w), UNCHANGED channel
  PROVE  WorkerMoves(w) /\ (Quiet => QuietMoves(w))
<1>0. PICK t \in Tasks : t = worker[w].task
  BY DEF Unlock, Base, Shaped
<1>1. /\ worker[w].pc = "selected" /\ Set(w, At(worker[w], "claim")) /\ lock' = [lock EXCEPT ![t] = NoOne]
      /\ UNCHANGED <<options, app, status, due, sent, unannounced, faults, crashes, heard,
                     listening>>
  BY <1>0 DEF Unlock, channel, bounds, Goto, At
<1>2. worker[w] \in Worker /\ "claim" \in States
  BY Shape DEF States
<1>3. /\ worker' \in [Workers -> Worker] /\ Workers' = Workers
      /\ worker'[w] = At(worker[w], "claim") /\ \A v \in Workers \ {w} : worker'[v] = worker[v]
  BY <1>1, <1>2, Shape, AtFields, Moved
<1>4. /\ worker'[w].pc = "claim" /\ worker'[w].task = t /\ worker'[w].hand = worker[w].hand
      /\ worker'[w].round = worker[w].round /\ worker'[w].current = worker[w].current
  BY <1>0, <1>2, <1>3, AtFields
<1>5. /\ lock' \in [Tasks -> Workers \cup {NoOne}] /\ lock'[t] = NoOne
      /\ \A u \in Tasks \ {t} : lock'[u] = lock[u] /\ lock[u] # w
  BY <1>0, <1>1, Shape DEF Base, LocksHeld
<1>6. worker[w].current = NoMessage => worker[w].hand = {}
  BY <1>1 DEF Base, EmptyHanded
<1>7. WorkerMoves(w)
  BY <1>1, <1>3, <1>4, <1>5, <1>6, Shape DEF WorkerMoves
<1>8. Handled(t)'
  BY <1>3, <1>4 DEF Handled
<1>9. Quiet => QuietMoves(w)
  BY <1>0, <1>1, <1>4, <1>8 DEF QuietMoves, Quiet
<1> QED
  BY <1>7, <1>9

\* What a worker that is done with a task goes on to.
LEMMA DoneMoves ==
  ASSUME Base, NEW w \in Workers, NEW ran \in BOOLEAN, NEW pc \in {"ack", "nack"}, Done(w, ran, pc),
         worker[w].pc \in {"selected", "claim", "run"}, UNCHANGED options
  PROVE  /\ worker' \in [Workers -> Worker] /\ Workers' = Workers
         /\ worker'[w].hand = worker[w].hand
         /\ worker'[w].pc = "loop" => worker'[w].hand = {} /\ worker'[w].round = "poll"
         /\ worker'[w].pc \in {"loop", "ack", "nack"}
         /\ \A v \in Workers \ {w} : worker'[v] = worker[v]
<1>0. worker[w] \in Worker /\ pc \in States
  BY Shape DEF States
<1>1. CASE worker[w].current = NoMessage
  <2>1. Set(w, Start("poll")) /\ worker[w].hand = {}
    BY <1>1 DEF Done, Base, EmptyHanded
  <2>2. Start("poll") \in Worker
    BY StartFields
  <2>3. /\ worker' \in [Workers -> Worker] /\ Workers' = Workers
        /\ worker'[w] = Start("poll") /\ \A v \in Workers \ {w} : worker'[v] = worker[v]
    BY <2>1, <2>2, Shape, Moved
  <2> QED
    BY <2>1, <2>3, StartFields
<1>2. CASE worker[w].current # NoMessage
  <2>1. Set(w, WentOn(worker[w], pc, ran))
    BY <1>2, Zenon DEF Done, WentOn
  <2>2. WentOn(worker[w], pc, ran) \in Worker
    BY <1>0, WentOnFields
  <2>3. /\ worker' \in [Workers -> Worker] /\ Workers' = Workers
        /\ worker'[w] = WentOn(worker[w], pc, ran) /\ \A v \in Workers \ {w} : worker'[v] = worker[v]
    BY <2>1, <2>2, Shape, Moved
  <2>4. worker'[w].pc = pc /\ worker'[w].hand = worker[w].hand
    BY <1>0, <2>3, WentOnFields
  <2> QED
    BY <2>3, <2>4
<1> QED
  BY <1>1, <1>2

\* A claim that comes too late leaves the task to the one that has locked it.
LEMMA ClaimMoves ==
  ASSUME Base, NEW w \in Workers, Claim(w), UNCHANGED channel
  PROVE  WorkerMoves(w) /\ (Quiet => QuietMoves(w))
<1>0. PICK t \in Tasks : t = worker[w].task
  BY DEF Claim, Base, Shaped
<1>1. /\ worker[w].pc = "claim"
      /\ UNCHANGED <<options, app, lock, due, sent, unannounced, faults, crashes, heard, listening>>
  BY DEF Claim, channel, bounds
<1>2. \A u \in Tasks : lock[u] # w
  BY <1>1 DEF Base, LocksHeld
<1>3. CASE Selectable(t) /\ status' = [status EXCEPT ![t] = "RUNNING"] /\ Goto(w, "run")
  <2>1. worker[w] \in Worker /\ "run" \in States /\ Set(w, At(worker[w], "run"))
    BY <1>3, Shape DEF States, Goto, At
  <2>2. /\ worker' \in [Workers -> Worker] /\ Workers' = Workers
        /\ worker'[w] = At(worker[w], "run") /\ \A v \in Workers \ {w} : worker'[v] = worker[v]
    BY <1>1, <2>1, Shape, AtFields, Moved
  <2>3. /\ worker'[w].pc = "run" /\ worker'[w].task = t /\ worker'[w].hand = worker[w].hand
        /\ worker'[w].round = worker[w].round /\ worker'[w].current = worker[w].current
    BY <1>0, <2>1, <2>2, AtFields
  <2>4. worker[w].current = NoMessage => worker[w].hand = {}
    BY <1>1 DEF Base, EmptyHanded
  <2>5. /\ status' \in [Tasks -> Statuses] /\ status[t] = "READY" /\ status'[t] = "RUNNING"
        /\ \A u \in Tasks \ {t} : status'[u] = status[u]
    BY <1>3, Shape DEF Selectable, Statuses
  <2>6. WorkerMoves(w)
    BY <1>1, <1>2, <2>2, <2>3, <2>4, <2>5, Shape DEF WorkerMoves
  <2>7. Quiet => QuietMoves(w)
    BY <1>0, <1>1, <2>3, <2>5 DEF QuietMoves, Quiet
  <2> QED
    BY <2>6, <2>7
<1>4. CASE ~Selectable(t) /\ Done(w, FALSE, "ack") /\ UNCHANGED status
  <2>1. /\ worker' \in [Workers -> Worker] /\ Workers' = Workers
        /\ worker'[w].hand = worker[w].hand
        /\ worker'[w].pc = "loop" => worker'[w].hand = {} /\ worker'[w].round = "poll"
        /\ worker'[w].pc \in {"loop", "ack", "nack"}
        /\ \A v \in Workers \ {w} : worker'[v] = worker[v]
    BY <1>1, <1>4, DoneMoves
  <2>2. WorkerMoves(w)
    BY <1>1, <1>2, <1>4, <2>1, Shape DEF WorkerMoves
  <2>3. status[t] # "READY" \/ Handled(t)'
    <3> SUFFICES ASSUME status[t] = "READY" PROVE Handled(t)'
      OBVIOUS
    <3>1. lock[t] \in Workers \ {w}
      BY <1>2, <1>4, Shape DEF Selectable
    <3>2. PICK v \in Workers \ {w} : worker[v].pc = "selected" /\ worker[v].task = t
      BY <3>1 DEF Base, LocksHeld
    <3> QED
      BY <2>1, <3>2 DEF Handled
  <2>4. Quiet => QuietMoves(w)
    BY <1>0, <1>1, <1>4, <2>1, <2>3 DEF QuietMoves, Quiet
  <2> QED
    BY <2>2, <2>4
<1> QED
  BY <1>0, <1>3, <1>4 DEF Claim

LEMMA FinishMoves ==
  ASSUME Base, NEW w \in Workers, Finish(w), UNCHANGED channel
  PROVE  WorkerMoves(w) /\ (Quiet => QuietMoves(w))
<1>0. PICK t \in Tasks : t = worker[w].task
  BY DEF Finish, Base, Shaped
<1>1. /\ worker[w].pc = "run" /\ status' = [status EXCEPT ![t] = "COMPLETED"]
      /\ UNCHANGED <<options, app, lock, due, sent, unannounced, faults, crashes, heard, listening>>
  BY <1>0 DEF Finish, channel, bounds
<1>2. PICK ran \in BOOLEAN, pc \in {"ack", "nack"} : Done(w, ran, pc)
  BY DEF Finish
<1>3. /\ worker' \in [Workers -> Worker] /\ Workers' = Workers
      /\ worker'[w].hand = worker[w].hand
      /\ worker'[w].pc = "loop" => worker'[w].hand = {} /\ worker'[w].round = "poll"
      /\ worker'[w].pc \in {"loop", "ack", "nack"}
      /\ \A v \in Workers \ {w} : worker'[v] = worker[v]
  BY <1>1, <1>2, DoneMoves
<1>4. \A u \in Tasks : lock[u] # w
  BY <1>1 DEF Base, LocksHeld
<1>5. /\ status' \in [Tasks -> Statuses] /\ status[t] # "NONE" /\ status'[t] = "COMPLETED"
      /\ \A u \in Tasks \ {t} : status'[u] = status[u]
  BY <1>0, <1>1, Shape DEF Base, RowsAreThere, Statuses
<1>6. WorkerMoves(w)
  BY <1>1, <1>3, <1>4, <1>5, Shape DEF WorkerMoves
<1>7. Quiet => QuietMoves(w)
  BY <1>0, <1>1, <1>3, <1>5 DEF QuietMoves, Quiet
<1> QED
  BY <1>6, <1>7

\* A message that is looked at leads to a claim, unless the task is not READY
\* or another is about to claim it.
LEMMA OpenMessageMoves ==
  ASSUME Base, NEW w \in Workers, NEW m \in Messages, OpenMessage(w, m), UNCHANGED channel
  PROVE  WorkerMoves(w) /\ (Quiet /\ faults' = faults => QuietMoves(w))
<1> DEFINE next(pc) == Set(w, [worker[w] EXCEPT !.pc = pc, !.hand = @ \ {m},
                                                !.current = m, !.task = m[1]])
<1>0. PICK t \in Tasks : t = m[1]
  BY DEF Messages
<1>1. /\ worker[w].pc = "work" /\ m \in worker[w].hand
      /\ UNCHANGED <<options, app, status, due, sent, unannounced, crashes, heard, listening>>
  BY DEF OpenMessage, channel
<1>2. worker[w] \in Worker /\ m # NoMessage /\ {"selected", "ack", "nack"} \subseteq States
  BY Shape, DeliveryAssumption DEF States
<1>3. \A u \in Tasks : lock[u] # w
  BY <1>1 DEF Base, LocksHeld
<1>4. ASSUME NEW pc \in {"selected", "ack", "nack"}, next(pc)
      PROVE  /\ worker' \in [Workers -> Worker] /\ Workers' = Workers
             /\ worker'[w].pc = pc /\ worker'[w].task = t /\ worker'[w].hand = worker[w].hand \ {m}
             /\ worker'[w].current # NoMessage /\ worker'[w].round = worker[w].round
             /\ \A v \in Workers \ {w} : worker'[v] = worker[v]
  <2>1. Set(w, Opened(worker[w], pc, m)) /\ Opened(worker[w], pc, m) \in Worker
    BY <1>2, <1>4, OpenedFields DEF Opened
  <2>2. /\ worker' \in [Workers -> Worker] /\ Workers' = Workers
        /\ worker'[w] = Opened(worker[w], pc, m) /\ \A v \in Workers \ {w} : worker'[v] = worker[v]
    BY <1>1, <2>1, Shape, Moved
  <2> QED
    BY <1>0, <1>2, <2>2, OpenedFields, SMTT(30)
<1>5. CASE Selectable(t) /\ lock' = [lock EXCEPT ![t] = w] /\ next("selected") /\ UNCHANGED faults
  <2>1. /\ worker' \in [Workers -> Worker] /\ Workers' = Workers
        /\ worker'[w].pc = "selected" /\ worker'[w].task = t /\ worker'[w].hand = worker[w].hand \ {m}
        /\ worker'[w].current # NoMessage /\ worker'[w].round = worker[w].round
        /\ \A v \in Workers \ {w} : worker'[v] = worker[v]
    BY <1>4, <1>5
  <2>2. /\ lock' \in [Tasks -> Workers \cup {NoOne}] /\ lock'[t] = w /\ lock[t] = NoOne
        /\ \A u \in Tasks \ {t} : lock'[u] = lock[u]
    BY <1>5, Shape DEF Selectable
  <2> HIDE DEF next
  <2>3. WorkerMoves(w)
    BY <1>1, <1>3, <1>5, <2>1, <2>2, Shape DEF WorkerMoves
  <2>4. Handled(t)'
    BY <2>1 DEF Handled
  <2>5. Quiet => QuietMoves(w)
    BY <1>0, <1>1, <1>5, <2>1, <2>4 DEF QuietMoves, Quiet
  <2> QED
    BY <2>3, <2>5
<1>6. ASSUME NEW pc \in {"ack", "nack"}, next(pc), UNCHANGED lock, faults' \in Nat,
             faults' = faults => ~Selectable(t)
      PROVE  WorkerMoves(w) /\ (Quiet /\ faults' = faults => QuietMoves(w))
  <2>1. /\ worker' \in [Workers -> Worker] /\ Workers' = Workers
        /\ worker'[w].pc = pc /\ worker'[w].hand = worker[w].hand \ {m}
        /\ worker'[w].current # NoMessage /\ worker'[w].round = worker[w].round
        /\ \A v \in Workers \ {w} : worker'[v] = worker[v]
    BY <1>4, <1>6
  <2> HIDE DEF next
  <2>2. WorkerMoves(w)
    BY <1>1, <1>3, <1>6, <2>1, Shape DEF WorkerMoves
  <2>3. ASSUME faults' = faults PROVE status[t] # "READY" \/ Handled(t)'
    <3> SUFFICES ASSUME status[t] = "READY" PROVE Handled(t)'
      OBVIOUS
    <3>1. lock[t] \in Workers \ {w}
      BY <1>3, <1>6, <2>3, Shape DEF Selectable
    <3>2. PICK v \in Workers \ {w} : worker[v].pc = "selected" /\ worker[v].task = t
      BY <3>1 DEF Base, LocksHeld
    <3> QED
      BY <2>1, <3>2 DEF Handled
  <2>4. Quiet /\ faults' = faults => QuietMoves(w)
    BY <1>0, <1>1, <1>6, <2>1, <2>3 DEF QuietMoves, Quiet
  <2> QED
    BY <2>2, <2>4
<1>7. \/ Selectable(t) /\ lock' = [lock EXCEPT ![t] = w] /\ next("selected") /\ UNCHANGED faults
      \/ ~Selectable(t) /\ next("ack") /\ UNCHANGED <<lock, faults>>
      \/ faults' = faults + 1 /\ next("nack") /\ UNCHANGED lock
  BY <1>0 DEF OpenMessage, OnError
<1> HIDE DEF next
<1>8. CASE ~Selectable(t) /\ next("ack") /\ UNCHANGED <<lock, faults>>
  BY <1>6, <1>8, Shape
<1>9. CASE faults' = faults + 1 /\ next("nack") /\ UNCHANGED lock
  <2>1. faults' \in Nat /\ faults' # faults
    BY <1>9, Shape
  <2> QED
    BY <1>6, <1>9, <2>1
<1> QED
  BY <1>5, <1>7, <1>8, <1>9

LEMMA ListenMoves ==
  ASSUME Base, NEW w \in Workers, Listen(w)
  PROVE  WorkerMoves(w) /\ (Quiet => QuietMoves(w))
<1>1. /\ w \notin listening /\ worker[w].pc = "loop" /\ listening' = listening \cup {w}
      /\ UNCHANGED <<options, app, status, lock, due, sent, worker, unannounced, faults, crashes,
                     heard>>
  BY DEF Listen, table, bounds
<1>2. Workers' = Workers /\ worker[w].hand = {} /\ \A t \in Tasks : lock[t] # w
  BY <1>1 DEF Workers, Base, EmptyHanded, LocksHeld
<1>3. WorkerMoves(w)
  BY <1>1, <1>2, Shape DEF WorkerMoves
<1>4. Quiet => QuietMoves(w)
  BY <1>1, <1>2 DEF QuietMoves, Quiet
<1> QED
  BY <1>3, <1>4

\* What receive answers with was heard, and is in the hand afterwards.
LEMMA ReceivedMoves ==
  ASSUME Base, NEW w \in Workers, NEW M \in SUBSET heard[w], Received(w, M),
         faults' \in Nat, listening' \subseteq Workers,
         heard' \in [Workers -> SUBSET Messages], heard'[w] \subseteq heard[w],
         \A v \in Workers \ {w} : heard'[v] = heard[v]
  PROVE  /\ WorkerMoves(w)
         /\ worker'[w].pc = "work" /\ worker'[w].hand = M /\ worker[w].hand = {}
         /\ worker[w].pc = "loop" /\ worker[w].round \in {"poll", "wait"}
         /\ UNCHANGED <<status, crashes>>
<1>1. /\ worker[w].pc = "loop" /\ worker[w].round \in {"poll", "wait"} /\ Set(w, Got(worker[w], M))
      /\ UNCHANGED <<options, app, status, lock, due, sent, unannounced, crashes>>
  BY DEF Received, table, Got
<1>2. worker[w] \in Worker /\ M \in SUBSET Messages
  BY Shape
<1>3. /\ worker' \in [Workers -> Worker] /\ Workers' = Workers
      /\ worker'[w] = Got(worker[w], M) /\ \A v \in Workers \ {w} : worker'[v] = worker[v]
  BY <1>1, <1>2, Shape, GotFields, Moved
<1>4. worker'[w].pc = "work" /\ worker'[w].hand = M
  BY <1>2, <1>3, GotFields
<1>5. worker[w].hand = {} /\ \A t \in Tasks : lock[t] # w
  BY <1>1 DEF Base, EmptyHanded, LocksHeld
<1>6. WorkerMoves(w)
  BY <1>1, <1>3, <1>4, <1>5, Shape DEF WorkerMoves
<1> QED
  BY <1>1, <1>4, <1>5, <1>6

LEMMA ReceiveMoves ==
  ASSUME Base, NEW w \in Workers, NEW M \in SUBSET heard[w], Receive(w, M)
  PROVE  WorkerMoves(w) /\ (Quiet => QuietMoves(w))
<1>1. /\ MayListen(w) => w \in listening
      /\ heard' = [heard EXCEPT ![w] = @ \ M] /\ Received(w, M) /\ UNCHANGED <<faults, listening>>
  BY DEF Receive
<1>2. /\ heard' \in [Workers -> SUBSET Messages] /\ heard'[w] = heard[w] \ M
      /\ \A v \in Workers \ {w} : heard'[v] = heard[v]
  BY <1>1, Shape
<1>3. /\ WorkerMoves(w)
      /\ worker'[w].pc = "work" /\ worker'[w].hand = M /\ worker[w].hand = {}
      /\ worker[w].pc = "loop" /\ worker[w].round \in {"poll", "wait"}
      /\ UNCHANGED <<status, crashes>>
  BY <1>1, <1>2, Shape, ReceivedMoves
<1>4. w \in listening
  BY <1>1, <1>3 DEF MayListen
<1>5. Quiet => QuietMoves(w)
  BY <1>1, <1>2, <1>3, <1>4 DEF QuietMoves, Quiet
<1> QED
  BY <1>3, <1>5

LEMMA ReceiveFailsMoves ==
  ASSUME Base, NEW w \in Workers, ReceiveFails(w)
  PROVE  WorkerMoves(w) /\ faults' > 0
<1>1. /\ faults' = faults + 1 /\ Received(w, {})
      /\ listening' = listening \ {w} /\ heard' = [heard EXCEPT ![w] = {}]
  BY DEF ReceiveFails, Hangup
<1>2. /\ heard' \in [Workers -> SUBSET Messages] /\ heard'[w] = {}
      /\ \A v \in Workers \ {w} : heard'[v] = heard[v]
      /\ listening' \subseteq Workers /\ faults' \in Nat /\ faults' > 0
  BY <1>1, Shape
<1>3. WorkerMoves(w)
  BY <1>1, <1>2, ReceivedMoves
<1> QED
  BY <1>2, <1>3

LEMMA AnsweredMoves ==
  ASSUME Base, NEW w \in Workers, Ack(w) \/ Nack(w)
  PROVE  WorkerMoves(w) /\ (Quiet => QuietMoves(w))
<1>1. /\ worker[w].pc \in {"ack", "nack"} /\ Set(w, Closed(worker[w]))
      /\ UNCHANGED <<options, app, status, lock, due, sent, unannounced, faults, crashes, heard,
                     listening>>
  BY DEF Ack, Nack, Answered, channel, table, bounds, Closed
<1>2. worker[w] \in Worker
  BY Shape
<1>3. /\ worker' \in [Workers -> Worker] /\ Workers' = Workers
      /\ worker'[w] = Closed(worker[w]) /\ \A v \in Workers \ {w} : worker'[v] = worker[v]
  BY <1>1, <1>2, Shape, ClosedFields, Moved
<1>4. worker'[w].pc = "work" /\ worker'[w].hand = worker[w].hand /\ worker'[w].round = worker[w].round
  BY <1>2, <1>3, ClosedFields
<1>5. \A t \in Tasks : lock[t] # w
  BY <1>1 DEF Base, LocksHeld
<1>6. WorkerMoves(w)
  BY <1>1, <1>3, <1>4, <1>5, Shape DEF WorkerMoves
<1>7. Quiet => QuietMoves(w)
  BY <1>1, <1>4 DEF QuietMoves, Quiet
<1> QED
  BY <1>6, <1>7

LEMMA RunFailsMoves ==
  ASSUME Base, NEW w \in Workers, RunFails(w), UNCHANGED channel
  PROVE  WorkerMoves(w) /\ faults' > 0
<1>1. /\ faults' = faults + 1 /\ worker[w].pc \in {"selected", "claim", "run"}
      /\ lock' = [t \in Tasks |-> IF lock[t] = w THEN NoOne ELSE lock[t]]
      /\ \E ran \in BOOLEAN : Done(w, ran, "nack")
      /\ UNCHANGED <<options, app, status, due, sent, unannounced, crashes, heard, listening>>
  BY DEF RunFails, LetGo, OnError, channel
<1>2. PICK ran \in BOOLEAN : Done(w, ran, "nack")
  BY <1>1
<1>3. /\ worker' \in [Workers -> Worker] /\ Workers' = Workers
      /\ worker'[w].hand = worker[w].hand
      /\ worker'[w].pc = "loop" => worker'[w].hand = {} /\ worker'[w].round = "poll"
      /\ worker'[w].pc \in {"loop", "ack", "nack"}
      /\ \A v \in Workers \ {w} : worker'[v] = worker[v]
  BY <1>1, <1>2, DoneMoves
<1>4. /\ lock' \in [Tasks -> Workers \cup {NoOne}]
      /\ \A t \in Tasks : lock'[t] # w /\ lock'[t] \in {lock[t], NoOne}
  BY <1>1, Shape
<1>5. faults' \in Nat /\ faults' > 0
  BY <1>1, Shape
<1>6. WorkerMoves(w)
  BY <1>1, <1>3, <1>4, <1>5, Shape DEF WorkerMoves
<1> QED
  BY <1>5, <1>6

LEMMA DieMoves ==
  ASSUME Base, NEW w \in Workers, Die(w)
  PROVE  WorkerMoves(w) /\ crashes' > 0
<1>1. /\ crashes' = crashes + 1 /\ Set(w, Start("poll"))
      /\ lock' = [t \in Tasks |-> IF lock[t] = w THEN NoOne ELSE lock[t]]
      /\ listening' = listening \ {w} /\ heard' = [heard EXCEPT ![w] = {}]
      /\ UNCHANGED <<options, app, status, due, sent, unannounced, faults>>
  BY DEF Die, Crash, LetGo, Hangup
<1>2. /\ heard' \in [Workers -> SUBSET Messages] /\ heard'[w] = {}
      /\ \A v \in Workers \ {w} : heard'[v] = heard[v]
      /\ listening' \subseteq Workers /\ crashes' \in Nat /\ crashes' > 0
  BY <1>1, Shape
<1>3. /\ worker' \in [Workers -> Worker] /\ Workers' = Workers
      /\ worker'[w] = Start("poll") /\ \A v \in Workers \ {w} : worker'[v] = worker[v]
  BY <1>1, Shape, StartFields, Moved
<1>4. worker'[w].pc = "loop" /\ worker'[w].hand = {}
  BY <1>3, StartFields
<1>5. /\ lock' \in [Tasks -> Workers \cup {NoOne}]
      /\ \A t \in Tasks : lock'[t] # w /\ lock'[t] \in {lock[t], NoOne}
  BY <1>1, Shape
<1>6. WorkerMoves(w)
  BY <1>1, <1>2, <1>3, <1>4, <1>5, Shape DEF WorkerMoves
<1> QED
  BY <1>2, <1>6

-----------------------------------------------------------------------------
(* Enqueueing, and the recovery.                                           *)

TableMoves ==
  /\ UNCHANGED <<options, lock, worker, listening>> /\ due \subseteq due'
  /\ app' \in [Tasks -> Enqueued] /\ status' \in [Tasks -> Statuses]
  /\ sent' \in [Tasks -> 0 .. MaxSends] /\ heard' \in [Workers -> SUBSET Messages]
  /\ faults' \in Nat /\ crashes' \in Nat
  /\ \A t \in Tasks :
       /\ status[t] # "NONE" => status'[t] # "NONE"
       /\ app'[t] # "new" /\ t \notin options.in_transaction => status'[t] # "NONE"
       /\ app'[t] = "new" => status'[t] = "NONE"
       /\ app'[t] \in {"inserted", "notified"} /\ t \in options.in_transaction
            => status'[t] = "NONE"
  /\ \A t \in unannounced' : t \in Tasks /\ status'[t] # "NONE"
  /\ \A w \in Workers : \A m \in heard'[w] : m \in heard[w] \/ status'[m[1]] # "NONE"

LEMMA TableKept == ASSUME Base, TableMoves PROVE Base'
<1> USE DEF TableMoves
<1>0. Workers' = Workers
  BY DEF Workers
<1>1. Shaped'
  BY <1>0 DEF Base, Shaped
<1>2. EmptyHanded'
  BY <1>0 DEF Base, EmptyHanded
<1>3. LocksHeld'
  BY <1>0 DEF Base, LocksHeld
<1>4. RowsAreThere'
  <2>1. \A w \in Workers : worker[w].pc = "run" => status'[worker[w].task] # "NONE"
    BY DEF Base, Shaped, RowsAreThere
  <2> QED
    BY <1>0, <2>1 DEF RowsAreThere
<1>5. HearsOfWhatIsThere'
  <2> SUFFICES ASSUME NEW w \in Workers, NEW m \in heard'[w] \cup worker[w].hand
               PROVE  status'[m[1]] # "NONE"
    BY <1>0 DEF HearsOfWhatIsThere
  <2>1. CASE m \in heard[w] \cup worker[w].hand
    <3>1. m[1] \in Tasks
      BY <2>1, Shape DEF Messages
    <3> QED
      BY <2>1, <3>1 DEF Base, HearsOfWhatIsThere
  <2>2. CASE m \notin heard[w] \cup worker[w].hand
    BY <2>2
  <2> QED
    BY <2>1, <2>2
<1> QED
  BY <1>1, <1>2, <1>3, <1>4, <1>5 DEF Base

QuietTableMoves ==
  /\ unannounced' = {} /\ \A v \in Workers : heard[v] \subseteq heard'[v]
  /\ \A t \in Tasks :
       /\ status'[t] = "RUNNING" => status[t] = "RUNNING"
       /\ app'[t] \in {"new", "inserted"} => sent'[t] = 0
       /\ app'[t] = "notified" /\ t \notin options.far => sent'[t] > 0
  /\ \A t \in Tasks \ options.far :
       status'[t] = "READY" /\ app'[t] # "inserted" =>
         \/ status[t] = "READY" /\ app[t] # "inserted"
         \/ \A w \in listening : \E m \in Messages : m[1] = t /\ m \in heard'[w]

LEMMA QuietTableKept == ASSUME Base, Quiet, TableMoves, QuietTableMoves PROVE Quiet'
<1>0. Workers' = Workers /\ UNCHANGED <<options, worker, listening>>
  BY DEF Workers, TableMoves
<1>1. \A t \in Tasks : status'[t] = "RUNNING" =>
        \E w \in Workers : worker[w].pc = "run" /\ worker[w].task = t
  BY DEF Quiet, QuietTableMoves
<1>2. ASSUME NEW t \in Tasks, Awake(t) PROVE Awake(t)'
  <2>1. CASE Handled(t)
    BY <1>0, <2>1 DEF Awake, Handled
  <2>2. CASE ~Handled(t)
    BY <1>0, <1>2, <2>2 DEF Awake, QuietTableMoves
  <2> QED
    BY <2>1, <2>2
<1>3. ASSUME NEW w \in listening, NEW t \in Tasks \ options.far,
             worker[w].pc = "loop", worker[w].round = "wait",
             status'[t] = "READY", app'[t] # "inserted"
      PROVE  Awake(t)'
  <2>1. CASE status[t] = "READY" /\ app[t] # "inserted"
    <3>1. Awake(t)
      BY <1>3, <2>1 DEF Quiet
    <3> QED
      BY <1>2, <3>1
  <2>2. CASE ~(status[t] = "READY" /\ app[t] # "inserted")
    <3>1. w \in Workers
      BY Shape
    <3>2. PICK m \in Messages : m[1] = t /\ m \in heard'[w]
      BY <1>3, <2>2 DEF QuietTableMoves
    <3> QED
      BY <1>0, <3>1, <3>2 DEF Awake
  <2> QED
    BY <2>1, <2>2
<1> QED
  BY <1>0, <1>1, <1>3 DEF Quiet, QuietTableMoves

\* A notification reaches whoever listens, unless it waits for a commit.
LEMMA SendMoves ==
  ASSUME Base, NEW t \in Tasks, NEW pending \in BOOLEAN, Send(t, pending), UNCHANGED options
  PROVE  /\ sent' \in [Tasks -> 0 .. MaxSends] /\ heard' \in [Workers -> SUBSET Messages]
         /\ UNCHANGED listening
         /\ \A w \in Workers : /\ heard[w] \subseteq heard'[w]
                               /\ \A m \in heard'[w] : m \in heard[w] \/ (m[1] = t /\ ~pending)
         /\ \A u \in Tasks \ {t} : sent'[u] = sent[u]
         /\ sent[t] # MaxSends /\ t \in due =>
              /\ sent'[t] > 0
              /\ ~pending => \A w \in listening : \E m \in Messages : m[1] = t /\ m \in heard'[w]
<1>0. sent \in [Tasks -> 0 .. MaxSends] /\ MaxSends \in Nat /\ UNCHANGED listening
  BY DeliveryAssumption DEF Base, Shaped, Send
<1>1. CASE UNCHANGED <<sent, heard>> /\ (sent[t] = MaxSends \/ t \notin due)
  BY <1>0, <1>1, Shape
<1>2. CASE /\ ~(sent[t] = MaxSends \/ t \notin due) /\ sent' = [sent EXCEPT ![t] = @ + 1]
           /\ IF pending THEN UNCHANGED heard ELSE Broadcast(<<t, sent'[t]>>)
  <2>1. /\ sent' \in [Tasks -> 0 .. MaxSends] /\ sent'[t] \in 1 .. MaxSends
        /\ \A u \in Tasks \ {t} : sent'[u] = sent[u]
    BY <1>0, <1>2
  <2>2. PICK m \in Messages : m = <<t, sent'[t]>> /\ m[1] = t
    <3>1. <<t, sent'[t]>> \in Messages /\ <<t, sent'[t]>>[1] = t
      BY <2>1 DEF Messages
    <3> QED
      BY <3>1
  <2>3. CASE pending
    BY <1>0, <1>2, <2>1, <2>3, Shape
  <2>4. CASE ~pending
    <3>1. heard' = [w \in Workers |-> IF w \in listening THEN heard[w] \cup {m} ELSE heard[w]]
      BY <1>2, <2>2, <2>4 DEF Broadcast
    <3> QED
      BY <1>0, <2>1, <2>2, <2>4, <3>1, Shape
  <2> QED
    BY <2>3, <2>4
<1> QED
  BY <1>1, <1>2 DEF Send

LEMMA Rows ==
  ASSUME Base
  PROVE  /\ app \in [Tasks -> Enqueued] /\ status \in [Tasks -> Statuses]
         /\ sent \in [Tasks -> 0 .. MaxSends] /\ unannounced \subseteq Tasks
         /\ \A t \in Tasks : /\ app[t] # "new" /\ t \notin options.in_transaction => status[t] # "NONE"
                             /\ app[t] = "new" => status[t] = "NONE"
                             /\ app[t] \in {"inserted", "notified"} /\ t \in options.in_transaction
                                  => status[t] = "NONE"
         /\ \A t \in unannounced : status[t] # "NONE"
BY DEF Base, Shaped, RowsAreThere

LEMMA InsertMoves ==
  ASSUME Base, NEW t \in Tasks, Insert(t), UNCHANGED channel
  PROVE  TableMoves /\ (Quiet => QuietTableMoves)
<1>1. /\ app[t] = "new" /\ app' = [app EXCEPT ![t] = "inserted"]
      /\ UNCHANGED <<options, due, lock, sent, worker, unannounced, faults, crashes, heard,
                     listening>>
      /\ status' = IF t \in options.in_transaction THEN status ELSE [status EXCEPT ![t] = "READY"]
  BY DEF Insert, channel, bounds
<1>2. /\ app' \in [Tasks -> Enqueued] /\ app'[t] = "inserted"
      /\ \A u \in Tasks \ {t} : app'[u] = app[u]
  BY <1>1, Rows DEF Enqueued
<1>3. /\ status' \in [Tasks -> Statuses] /\ \A u \in Tasks \ {t} : status'[u] = status[u]
      /\ status'[t] = IF t \in options.in_transaction THEN "NONE" ELSE "READY"
  BY <1>1, Rows DEF Statuses
<1>4. TableMoves
  BY <1>1, <1>2, <1>3, Rows, Shape DEF TableMoves
<1>5. Quiet => QuietTableMoves
  BY <1>1, <1>2, <1>3 DEF QuietTableMoves, Quiet
<1> QED
  BY <1>4, <1>5

LEMMA RollbackMoves ==
  ASSUME Base, NEW t \in Tasks, Rollback(t), UNCHANGED channel
  PROVE  TableMoves /\ (Quiet => QuietTableMoves)
<1>1. /\ app[t] = "notified" /\ t \in options.in_transaction /\ app' = [app EXCEPT ![t] = "rolled back"]
      /\ UNCHANGED <<options, status, due, lock, sent, worker, unannounced, faults, crashes,
                     heard, listening>>
  BY DEF Rollback, channel, bounds
<1>2. /\ app' \in [Tasks -> Enqueued] /\ app'[t] = "rolled back"
      /\ \A u \in Tasks \ {t} : app'[u] = app[u]
  BY <1>1, Rows DEF Enqueued
<1>3. TableMoves
  BY <1>1, <1>2, Rows, Shape DEF TableMoves
<1>4. Quiet => QuietTableMoves
  BY <1>1, <1>2, Rows DEF QuietTableMoves, Quiet
<1> QED
  BY <1>3, <1>4

LEMMA BecomeDueMoves ==
  ASSUME Base, NEW t \in Tasks, BecomeDue(t), UNCHANGED channel
  PROVE  TableMoves /\ (Quiet => QuietTableMoves)
<1>1. /\ due \subseteq due'
      /\ UNCHANGED <<options, app, status, lock, sent, worker, unannounced, faults, crashes,
                     heard, listening>>
  BY DEF BecomeDue, channel, bounds
<1>2. TableMoves
  BY <1>1, Rows, Shape DEF TableMoves
<1>3. Quiet => QuietTableMoves
  BY <1>1 DEF QuietTableMoves, Quiet
<1> QED
  BY <1>2, <1>3

LEMMA RequeueMoves ==
  ASSUME Base, NEW t \in Tasks, Requeue(t), UNCHANGED channel
  PROVE  TableMoves /\ ~Quiet
<1>1. /\ status[t] = "RUNNING" /\ status' = [status EXCEPT ![t] = "READY"]
      /\ unannounced' = unannounced \cup {t}
      /\ UNCHANGED <<options, app, due, lock, sent, worker, faults, crashes, heard, listening>>
      /\ \A w \in Workers : ~(worker[w].pc = "run" /\ worker[w].task = t)
  BY DEF Requeue, channel, bounds
<1>2. /\ status' \in [Tasks -> Statuses] /\ status'[t] = "READY"
      /\ \A u \in Tasks \ {t} : status'[u] = status[u]
  BY <1>1, Rows DEF Statuses
<1>3. TableMoves
  BY <1>1, <1>2, Rows, Shape DEF TableMoves
<1>4. ~Quiet
  BY <1>1 DEF Quiet
<1> QED
  BY <1>3, <1>4

LEMMA RecoveryDiesMoves ==
  ASSUME Base, RecoveryDies, UNCHANGED channel
  PROVE  TableMoves /\ crashes' > 0
<1>1. /\ crashes' = crashes + 1 /\ unannounced' = {}
      /\ UNCHANGED <<options, app, status, due, lock, sent, worker, faults, heard, listening>>
  BY DEF RecoveryDies, channel, table
<1>2. crashes' \in Nat /\ crashes' > 0
  BY <1>1, Shape
<1>3. TableMoves
  BY <1>1, <1>2, Rows, Shape DEF TableMoves
<1> QED
  BY <1>2, <1>3

\* A task that is not deferred is announced to everybody who listens, now or
\* with the commit.
LEMMA NotifyMoves ==
  ASSUME Base, NEW t \in Tasks, Notify(t)
  PROVE  TableMoves /\ (Quiet /\ MaxSends > 0 => QuietTableMoves)
<1> DEFINE pending == Pending(t)
<1>1. /\ app[t] = "inserted" /\ app' = [app EXCEPT ![t] = "notified"] /\ Send(t, pending)
      /\ UNCHANGED <<options, status, due, lock, worker, unannounced, faults, crashes>>
      /\ pending \in BOOLEAN /\ (pending <=> t \in options.in_transaction)
  BY DEF Notify, Notified, bounds, Pending
<1> HIDE DEF pending
<1>2. /\ app' \in [Tasks -> Enqueued] /\ app'[t] = "notified"
      /\ \A u \in Tasks \ {t} : app'[u] = app[u]
  BY <1>1, Rows DEF Enqueued
<1>3. /\ sent' \in [Tasks -> 0 .. MaxSends] /\ heard' \in [Workers -> SUBSET Messages]
      /\ UNCHANGED listening
      /\ \A w \in Workers : /\ heard[w] \subseteq heard'[w]
                            /\ \A m \in heard'[w] : m \in heard[w] \/ (m[1] = t /\ ~pending)
      /\ \A u \in Tasks \ {t} : sent'[u] = sent[u]
      /\ sent[t] # MaxSends /\ t \in due =>
           /\ sent'[t] > 0
           /\ ~pending => \A w \in listening : \E m \in Messages : m[1] = t /\ m \in heard'[w]
  BY <1>1, SendMoves
<1>4. /\ t \notin options.in_transaction => status[t] # "NONE"
      /\ t \in options.in_transaction => status[t] = "NONE"
  BY <1>1, Rows
<1>5. \A w \in Workers : \A m \in heard'[w] : m \in heard[w] \/ status[m[1]] # "NONE"
  BY <1>1, <1>3, <1>4
<1>6. TableMoves
  BY <1>1, <1>2, <1>3, <1>4, <1>5, Rows, Shape DEF TableMoves
<1>7. ASSUME Quiet, MaxSends > 0 PROVE QuietTableMoves
  <2>1. sent[t] # MaxSends
    BY <1>1, <1>7 DEF Quiet
  <2>2. t \notin options.far => t \in due
    BY DEF Base
  <2>3. \A u \in Tasks : /\ app'[u] \in {"new", "inserted"} => sent'[u] = 0
                         /\ app'[u] = "notified" /\ u \notin options.far => sent'[u] > 0
    BY <1>2, <1>3, <1>7, <2>1, <2>2 DEF Quiet
  <2>4. \A u \in Tasks \ options.far :
          status'[u] = "READY" /\ app'[u] # "inserted" =>
            \/ status[u] = "READY" /\ app[u] # "inserted"
            \/ \A w \in listening : \E m \in Messages : m[1] = u /\ m \in heard'[w]
    BY <1>1, <1>2, <1>3, <1>4, <2>1, <2>2
  <2>5. unannounced' = {} /\ \A v \in Workers : heard[v] \subseteq heard'[v]
    BY <1>1, <1>3, <1>7 DEF Quiet
  <2>6. \A u \in Tasks : /\ status'[u] = "RUNNING" => status[u] = "RUNNING"
                         /\ app'[u] \in {"new", "inserted"} => sent'[u] = 0
                         /\ app'[u] = "notified" /\ u \notin options.far => sent'[u] > 0
    BY <1>1, <2>3
  <2> QED
    BY <2>4, <2>5, <2>6 DEF QuietTableMoves
<1> QED
  BY <1>6, <1>7

LEMMA NotifyFailsMoves ==
  ASSUME Base, NEW t \in Tasks, NotifyFails(t)
  PROVE  TableMoves /\ options.calls_may_fail
<1>1. /\ app[t] = "inserted" /\ options.calls_may_fail
      /\ app' = [app EXCEPT ![t] = IF t \in options.in_transaction THEN "rolled back" ELSE "notified"]
      /\ UNCHANGED <<options, status, due, lock, sent, worker, unannounced, faults, crashes,
                     heard, listening>>
  BY DEF NotifyFails, channel, bounds
<1>2. /\ app' \in [Tasks -> Enqueued] /\ \A u \in Tasks \ {t} : app'[u] = app[u]
      /\ app'[t] = IF t \in options.in_transaction THEN "rolled back" ELSE "notified"
  BY <1>1, Rows DEF Enqueued
<1>3. TableMoves
  BY <1>1, <1>2, Rows, Shape DEF TableMoves
<1> QED
  BY <1>1, <1>3

LEMMA EndTransactionMoves ==
  ASSUME Base, NEW t \in Tasks, EndTransaction(t)
  PROVE  TableMoves /\ (Quiet => QuietTableMoves)
<1>1. /\ app[t] = "notified" /\ t \in options.in_transaction
      /\ app' = [app EXCEPT ![t] = "committed"] /\ status' = [status EXCEPT ![t] = "READY"]
      /\ UNCHANGED <<options, due, lock, sent, worker, unannounced, faults, crashes, listening>>
      /\ IF sent[t] > 0 THEN Broadcast(<<t, sent[t]>>) ELSE UNCHANGED heard
  BY DEF EndTransaction, Commit, Pending, bounds
<1>2. /\ app' \in [Tasks -> Enqueued] /\ app'[t] = "committed"
      /\ \A u \in Tasks \ {t} : app'[u] = app[u]
  BY <1>1, Rows DEF Enqueued
<1>3. /\ status' \in [Tasks -> Statuses] /\ status'[t] = "READY"
      /\ \A u \in Tasks \ {t} : status'[u] = status[u]
  BY <1>1, Rows DEF Statuses
<1>4. /\ heard' \in [Workers -> SUBSET Messages]
      /\ \A w \in Workers : /\ heard[w] \subseteq heard'[w]
                            /\ \A m \in heard'[w] : m \in heard[w] \/ m[1] = t
      /\ sent[t] > 0 => \A w \in listening : \E m \in Messages : m[1] = t /\ m \in heard'[w]
  <2>1. CASE ~(sent[t] > 0)
    BY <1>1, <2>1, Shape
  <2>2. CASE sent[t] > 0
    <3>1. sent[t] \in 1 .. MaxSends
      BY <2>2, Rows, DeliveryAssumption
    <3>2. PICK m \in Messages : m = <<t, sent[t]>> /\ m[1] = t
      <4>1. <<t, sent[t]>> \in Messages /\ <<t, sent[t]>>[1] = t
        BY <3>1 DEF Messages
      <4> QED
        BY <4>1
    <3>3. heard' = [w \in Workers |-> IF w \in listening THEN heard[w] \cup {m} ELSE heard[w]]
      BY <1>1, <2>2, <3>2 DEF Broadcast
    <3> QED
      BY <3>2, <3>3, Shape
  <2> QED
    BY <2>1, <2>2
<1>5. TableMoves
  BY <1>1, <1>2, <1>3, <1>4, Rows, Shape DEF TableMoves
<1>6. ASSUME Quiet PROVE QuietTableMoves
  <2>1. t \notin options.far => sent[t] > 0
    BY <1>1, <1>6 DEF Quiet
  <2>2. \A u \in Tasks \ options.far :
          status'[u] = "READY" /\ app'[u] # "inserted" =>
            \/ status[u] = "READY" /\ app[u] # "inserted"
            \/ \A w \in listening : \E m \in Messages : m[1] = u /\ m \in heard'[w]
    BY <1>2, <1>3, <1>4, <2>1
  <2> QED
    BY <1>1, <1>2, <1>3, <1>4, <1>6, <2>2 DEF QuietTableMoves, Quiet
<1> QED
  BY <1>5, <1>6

LEMMA AnnounceMoves ==
  ASSUME Base, NEW t \in Tasks, Announce(t)
  PROVE  TableMoves /\ ~Quiet
<1>1. /\ t \in unannounced /\ unannounced' = unannounced \ {t} /\ Send(t, FALSE)
      /\ UNCHANGED <<options, app, status, due, lock, worker, faults, crashes>>
  BY DEF Announce, Announced, table, bounds
<1>2. /\ sent' \in [Tasks -> 0 .. MaxSends] /\ heard' \in [Workers -> SUBSET Messages]
      /\ UNCHANGED listening
      /\ \A w \in Workers : \A m \in heard'[w] : m \in heard[w] \/ m[1] = t
  BY <1>1, SendMoves
<1>3. TableMoves
  BY <1>1, <1>2, Rows, Shape DEF TableMoves
<1>4. ~Quiet
  BY <1>1 DEF Quiet
<1> QED
  BY <1>3, <1>4

-----------------------------------------------------------------------------

LEMMA BaseStep == Base /\ [Next]_vars => Base'
<1> SUFFICES ASSUME Base, [Next]_vars PROVE Base'
  OBVIOUS
<1>1. ASSUME TableStep, UNCHANGED channel PROVE Base'
  BY <1>1, InsertMoves, RollbackMoves, BecomeDueMoves, RequeueMoves, RecoveryDiesMoves, SweepMoves,
     TableKept, BaseKept DEF TableStep
<1>2. ASSUME NEW w \in Workers, WorkerStep(w) \/ RunFails(w), UNCHANGED channel PROVE Base'
  BY <1>2, EndRoundMoves, SweepNothingMoves, UnlockMoves, ClaimMoves, FinishMoves, OpenMessageMoves,
     RunFailsMoves, BaseKept DEF WorkerStep
<1>3. ASSUME NEW t \in Tasks, Notify(t) \/ NotifyFails(t) \/ EndTransaction(t) \/ Announce(t)
      PROVE  Base'
  BY <1>3, NotifyMoves, NotifyFailsMoves, EndTransactionMoves, AnnounceMoves, TableKept
<1>4. ASSUME NEW w \in Workers,
             \/ Listen(w) \/ ReceiveFails(w) \/ Ack(w) \/ Nack(w) \/ Die(w)
             \/ \E M \in SUBSET heard[w] : Receive(w, M)
      PROVE  Base'
  BY <1>4, ListenMoves, ReceiveFailsMoves, AnsweredMoves, DieMoves, ReceiveMoves, BaseKept
<1>5. CASE UNCHANGED vars
  <2>1. UNCHANGED <<options, app, status, due, lock, sent, worker, unannounced, faults, crashes,
                    heard, listening>>
    BY <1>5 DEF vars, table, bounds, channel
  <2>2. TableMoves
    BY <2>1, Rows, Shape DEF TableMoves
  <2> QED
    BY <2>2, TableKept
<1> QED
  BY <1>1, <1>2, <1>3, <1>4, <1>5 DEF Next

LEMMA QuietStep ==
  ASSUME MaxSends > 0, Base, Quiet, [Next]_vars, faults' = 0, crashes' = 0, faults = 0,
         ~options.calls_may_fail
  PROVE  Quiet'
<1>1. ASSUME TableStep, UNCHANGED channel PROVE Quiet'
  BY <1>1, InsertMoves, RollbackMoves, BecomeDueMoves, RequeueMoves, RecoveryDiesMoves, SweepMoves,
     QuietTableKept, QuietKept DEF TableStep
<1>2. ASSUME NEW w \in Workers, WorkerStep(w) \/ RunFails(w), UNCHANGED channel PROVE Quiet'
  BY <1>2, EndRoundMoves, SweepNothingMoves, UnlockMoves, ClaimMoves, FinishMoves, OpenMessageMoves,
     RunFailsMoves, QuietKept DEF WorkerStep
<1>3. ASSUME NEW t \in Tasks, Notify(t) \/ NotifyFails(t) \/ EndTransaction(t) \/ Announce(t)
      PROVE  Quiet'
  BY <1>3, NotifyMoves, NotifyFailsMoves, EndTransactionMoves, AnnounceMoves, QuietTableKept
<1>4. ASSUME NEW w \in Workers,
             \/ Listen(w) \/ ReceiveFails(w) \/ Ack(w) \/ Nack(w) \/ Die(w)
             \/ \E M \in SUBSET heard[w] : Receive(w, M)
      PROVE  Quiet'
  BY <1>4, ListenMoves, ReceiveFailsMoves, AnsweredMoves, DieMoves, ReceiveMoves, QuietKept
<1>5. CASE UNCHANGED vars
  <2>1. UNCHANGED <<options, app, status, due, lock, sent, worker, unannounced, faults, crashes,
                    heard, listening>>
    BY <1>5 DEF vars, table, bounds, channel
  <2>2. TableMoves
    BY <2>1, Rows, Shape DEF TableMoves
  <2>3. QuietTableMoves
    BY <2>1 DEF QuietTableMoves, Quiet
  <2> QED
    BY <2>2, <2>3, QuietTableKept
<1> QED
  BY <1>1, <1>2, <1>3, <1>4, <1>5 DEF Next

\* Faults and deaths are counted, never taken back.
LEMMA StepsCounted ==
  ASSUME [Next]_vars
  PROVE  /\ options' = options
         /\ faults' \in {faults, faults + 1} /\ crashes' \in {crashes, crashes + 1}
<1>1. ASSUME TableStep
      PROVE  /\ options' = options
             /\ faults' \in {faults, faults + 1} /\ crashes' \in {crashes, crashes + 1}
  BY <1>1 DEF TableStep, RecoveryDies, Insert, Rollback, BecomeDue, Requeue, Sweep, bounds
<1>2. ASSUME NEW w \in Workers, WorkerStep(w) \/ RunFails(w)
      PROVE  /\ options' = options
             /\ faults' \in {faults, faults + 1} /\ crashes' \in {crashes, crashes + 1}
  BY <1>2 DEF WorkerStep, EndRound, SweepNothing, Unlock, Claim, Finish, OpenMessage,
                  RunFails, bounds
<1>3. ASSUME NEW t \in Tasks, Notify(t) \/ NotifyFails(t) \/ EndTransaction(t) \/ Announce(t)
      PROVE  options' = options /\ faults' = faults /\ crashes' = crashes
  BY <1>3 DEF Notify, NotifyFails, EndTransaction, Announce, Notified, Commit, Announced, bounds
<1>4. ASSUME NEW w \in Workers,
             \/ Listen(w) \/ ReceiveFails(w) \/ Ack(w) \/ Nack(w) \/ Die(w)
             \/ \E M \in SUBSET heard[w] : Receive(w, M)
      PROVE  /\ options' = options
             /\ faults' \in {faults, faults + 1} /\ crashes' \in {crashes, crashes + 1}
  BY <1>4 DEF Listen, ReceiveFails, Ack, Nack, Die, Receive, Received, Answered, Crash, bounds
<1>5. CASE UNCHANGED vars
  BY <1>5 DEF vars, bounds
<1> QED
  BY <1>1, <1>2, <1>3, <1>4, <1>5 DEF Next

LEMMA StaysDisturbed == Base /\ [Next]_vars /\ Undisturbed' => Undisturbed
<1> SUFFICES ASSUME Base, [Next]_vars PROVE Undisturbed' => Undisturbed
  OBVIOUS
<1>0. faults \in Nat /\ crashes \in Nat
  BY Shape
<1> QED
  BY <1>0, StepsCounted DEF Undisturbed

Orderly == Base /\ (Undisturbed => Quiet)

LEMMA OrderlyStep == MaxSends > 0 /\ Orderly /\ [Next]_vars => Orderly'
<1> SUFFICES ASSUME MaxSends > 0, Orderly, [Next]_vars PROVE Orderly'
  OBVIOUS
<1>1. Base /\ Base'
  BY BaseStep DEF Orderly
<1>2. ASSUME Undisturbed' PROVE Quiet'
  <2>1. Undisturbed
    BY <1>1, <1>2, StaysDisturbed
  <2>2. Quiet /\ faults = 0 /\ ~options.calls_may_fail
    BY <2>1 DEF Orderly, Undisturbed
  <2>3. faults' = 0 /\ crashes' = 0
    BY <1>2 DEF Undisturbed
  <2> QED
    BY <1>1, <2>2, <2>3, QuietStep
<1> QED
  BY <1>1, <1>2 DEF Orderly

LEMMA OrderlyIsEnough == Orderly => HearsInTime
<1> SUFFICES ASSUME Orderly PROVE HearsInTime
  OBVIOUS
<1>1. HearsOfWhatIsThere
  BY DEF Orderly, Base
<1>2. NoLostWakeup
  <2> SUFFICES ASSUME faults = 0, crashes = 0, ~options.calls_may_fail,
                      NEW w \in listening, NEW t \in Tasks \ options.far,
                      worker[w].pc = "loop", worker[w].round = "wait",
                      status[t] = "READY", app[t] # "inserted"
               PROVE  Awake(t)
    BY DEF NoLostWakeup, Awake
  <2>1. Quiet
    BY DEF Orderly, Undisturbed
  <2> QED
    BY <2>1 DEF Quiet
<1> QED
  BY <1>1, <1>2 DEF HearsInTime

\* Whatever the tasks, the workers and the deployment, if more than no
\* notification is ever sent: a worker never hears of a task it cannot see,
\* and, as long as nothing has failed, never sleeps on one that is READY; it
\* listens before it looks at the table (PostgresNotifyBroker.receive,
\* _process_tasks).
THEOREM WakesInTime == ASSUME MaxSends > 0 PROVE Spec => []HearsInTime
<1>1. Init => Orderly
  BY BaseInit, QuietInit DEF Orderly
<1>2. Orderly /\ [Next]_vars => Orderly'
  BY OrderlyStep
<1> QED
  BY <1>1, <1>2, OrderlyIsEnough, PTL DEF Spec

-----------------------------------------------------------------------------
(* Types, and what the channel may hold.                                   *)

DueTyped == due \subseteq Tasks
FaultsTyped == faults \in 0 .. options.max_faults
CrashesTyped == crashes \in 0 .. options.max_crashes

\* A connection that is closed has nothing to read: what was sent meanwhile
\* is lost, and what it had is gone with it.
OnlyOpenHear == \A w \in Workers : heard[w] # {} => w \in listening

Bounds == DueTyped /\ FaultsTyped /\ CrashesTyped /\ OnlyOpenHear

LEMMA BoundsInit == Init => Bounds
<1> SUFFICES ASSUME Init PROVE Bounds
  OBVIOUS
<1>1. options.max_faults \in Nat /\ options.max_crashes \in Nat /\ faults = 0 /\ crashes = 0
  BY DeliveryAssumption DEF Init, WorkersInit
<1>2. FaultsTyped /\ CrashesTyped
  BY <1>1 DEF FaultsTyped, CrashesTyped
<1>3. DueTyped /\ OnlyOpenHear
  BY DEF Init, WorkersInit, DueTyped, OnlyOpenHear
<1> QED
  BY <1>2, <1>3 DEF Bounds

LEMMA BoundsStep == Base /\ Bounds /\ options \in Deployments /\ [Next]_vars => Bounds'
<1> SUFFICES ASSUME Base, Bounds, options \in Deployments, [Next]_vars PROVE Bounds'
  OBVIOUS
<1>0. /\ options.max_faults \in Nat /\ options.max_crashes \in Nat
      /\ faults \in Nat /\ crashes \in Nat
      /\ faults <= options.max_faults /\ crashes <= options.max_crashes /\ due \subseteq Tasks
  BY Shape, DeliveryAssumption DEF Bounds, FaultsTyped, CrashesTyped, DueTyped
<1>1. heard \in [Workers -> SUBSET Messages] /\ OnlyOpenHear
  BY Shape DEF Bounds
<1>2. ASSUME UNCHANGED options, due' \subseteq Tasks,
             faults' = faults \/ (faults' = faults + 1 /\ faults < options.max_faults),
             crashes' = crashes \/ (crashes' = crashes + 1 /\ crashes < options.max_crashes)
      PROVE  DueTyped' /\ FaultsTyped' /\ CrashesTyped'
  <2>1. faults' \in 0 .. options.max_faults
    BY <1>0, <1>2
  <2>2. crashes' \in 0 .. options.max_crashes
    BY <1>0, <1>2
  <2> QED
    BY <1>2, <2>1, <2>2 DEF DueTyped, FaultsTyped, CrashesTyped
<1>3. ASSUME UNCHANGED <<options, channel>> PROVE OnlyOpenHear'
  BY <1>1, <1>3 DEF OnlyOpenHear, channel, Workers
<1>4. ASSUME TableStep, UNCHANGED channel PROVE Bounds'
  <2>1. /\ UNCHANGED options /\ due' \subseteq Tasks /\ faults' = faults
        /\ crashes' = crashes \/ (crashes' = crashes + 1 /\ crashes < options.max_crashes)
    BY <1>0, <1>4
       DEF TableStep, RecoveryDies, Insert, Rollback, BecomeDue, Requeue, Sweep, bounds, table
  <2> QED
    BY <1>2, <1>3, <1>4, <2>1 DEF Bounds
<1>5. ASSUME NEW w \in Workers, WorkerStep(w) \/ RunFails(w), UNCHANGED channel PROVE Bounds'
  <2>1. /\ UNCHANGED options /\ due' \subseteq Tasks /\ crashes' = crashes
        /\ faults' = faults \/ (faults' = faults + 1 /\ faults < options.max_faults)
    BY <1>0, <1>5
       DEF WorkerStep, EndRound, SweepNothing, Unlock, Claim, Finish, OpenMessage, RunFails,
           bounds, table
  <2> QED
    BY <1>2, <1>3, <1>5, <2>1 DEF Bounds
<1>6. ASSUME NEW m, Broadcast(m), UNCHANGED <<options, listening>> PROVE OnlyOpenHear'
  BY <1>1, <1>6 DEF OnlyOpenHear, Broadcast, Workers
<1>7. ASSUME NEW t \in Tasks, Notify(t) \/ Announce(t), UNCHANGED options PROVE OnlyOpenHear'
  <2>1. PICK m : m = <<t, sent'[t]>>
    OBVIOUS
  <2>2. UNCHANGED listening /\ (UNCHANGED heard \/ Broadcast(m))
    BY <1>7, <2>1 DEF Notify, Announce, Send
  <2> QED
    BY <1>3, <1>6, <1>7, <2>2 DEF channel
<1>8. ASSUME NEW t \in Tasks, Notify(t) \/ NotifyFails(t) \/ EndTransaction(t) \/ Announce(t)
      PROVE  Bounds'
  <2>1. UNCHANGED <<options, due, faults, crashes>>
    BY <1>8 DEF Notify, NotifyFails, EndTransaction, Announce, Notified, Commit, Announced, bounds,
                table
  <2>2. CASE Notify(t) \/ Announce(t)
    BY <1>0, <1>2, <1>7, <2>1, <2>2 DEF Bounds
  <2>3. CASE NotifyFails(t)
    BY <1>0, <1>2, <1>3, <2>1, <2>3 DEF Bounds, NotifyFails
  <2>4. CASE EndTransaction(t)
    <3>1. PICK m : m = <<t, sent[t]>>
      OBVIOUS
    <3>2. UNCHANGED listening /\ (Broadcast(m) \/ UNCHANGED heard)
      BY <2>4, <3>1 DEF EndTransaction
    <3>3. OnlyOpenHear'
      BY <1>3, <1>6, <2>1, <3>2 DEF channel
    <3> QED
      BY <1>0, <1>2, <2>1, <3>3 DEF Bounds
  <2> QED
    BY <1>8, <2>2, <2>3, <2>4
<1>9. ASSUME NEW w \in Workers, Hangup(w), UNCHANGED options PROVE OnlyOpenHear'
  BY <1>1, <1>9 DEF Hangup, OnlyOpenHear, Workers
<1>10. ASSUME NEW w \in Workers, NEW M \in SUBSET heard[w], Receive(w, M) PROVE Bounds'
  <2>1. /\ UNCHANGED <<options, due, faults, crashes, listening>>
        /\ heard' = [heard EXCEPT ![w] = @ \ M]
    BY <1>10 DEF Receive, Received, table
  <2>2. OnlyOpenHear'
    BY <1>1, <2>1 DEF OnlyOpenHear, Workers
  <2> QED
    BY <1>0, <1>2, <2>1, <2>2 DEF Bounds
<1>11. ASSUME NEW w \in Workers, Listen(w) PROVE Bounds'
  <2>1. UNCHANGED <<options, due, faults, crashes, heard>> /\ listening' = listening \cup {w}
    BY <1>11 DEF Listen, table, bounds
  <2>2. OnlyOpenHear'
    BY <1>1, <2>1 DEF OnlyOpenHear, Workers
  <2> QED
    BY <1>0, <1>2, <2>1, <2>2 DEF Bounds
<1>12. ASSUME NEW w \in Workers, ReceiveFails(w) \/ Die(w) PROVE Bounds'
  <2>1. /\ UNCHANGED <<options, due>> /\ Hangup(w)
        /\ faults' = faults \/ (faults' = faults + 1 /\ faults < options.max_faults)
        /\ crashes' = crashes \/ (crashes' = crashes + 1 /\ crashes < options.max_crashes)
    BY <1>12 DEF ReceiveFails, Received, Die, Crash, table
  <2> QED
    BY <1>0, <1>2, <1>9, <2>1 DEF Bounds
<1>13. ASSUME NEW w \in Workers, Ack(w) \/ Nack(w) PROVE Bounds'
  <2>1. UNCHANGED <<options, due, faults, crashes, channel>>
    BY <1>13 DEF Ack, Nack, Answered, table, bounds
  <2> QED
    BY <1>0, <1>2, <1>3, <2>1 DEF Bounds
<1>14. CASE UNCHANGED vars
  <2>1. UNCHANGED <<options, due, faults, crashes, channel>>
    BY <1>14 DEF vars, table, bounds
  <2> QED
    BY <1>0, <1>2, <1>3, <2>1 DEF Bounds
<1> QED
  BY <1>4, <1>5, <1>8, <1>10, <1>11, <1>12, <1>13, <1>14 DEF Next

LEMMA SameDeployment == options \in Deployments /\ [Next]_vars => (options \in Deployments)'
BY StepsCounted

LEMMA BoundedIsTyped == Base /\ Bounds /\ options \in Deployments => TypeOK
<1> SUFFICES ASSUME Base, Bounds, options \in Deployments PROVE TypeOK
  OBVIOUS
<1>1. WorkersTypeOK
  BY Shape, Rows DEF WorkersTypeOK, Bounds, DueTyped, FaultsTyped, CrashesTyped, Enqueued, Statuses
<1> QED
  BY <1>1, Shape DEF TypeOK, Bounds, OnlyOpenHear

\* The counts keep to their bounds, a row is locked by a worker or nobody, and
\* nothing waits on a connection that is closed (PostgresNotifyBroker,
\* close_connection).
THEOREM PostgresTypeOK == Spec => []TypeOK
<1>1. Init => options \in Deployments
  BY DEF Init, WorkersInit
<1> QED
  BY <1>1, BaseInit, BaseStep, SameDeployment, BoundsInit, BoundsStep, BoundedIsTyped, PTL DEF Spec

=============================================================================
