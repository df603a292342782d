------------------------- MODULE PushDeliveryProofs -------------------------
(***************************************************************************)
(* Proofs about PushDelivery, for any tasks, requests and deployments:     *)
(* no two requests run one task at once, whatever the queue repeats, and   *)
(* what is to be run is still to be delivered.                             *)
(***************************************************************************)
EXTENDS PushDelivery, TLAPS

Statuses == {"NONE", "READY", "RUNNING", "SUCCESSFUL", "FAILED"}
Codes == {200, 404, 500}

\* What a request works at is a task, and the rows have their values.
Shaped ==
  /\ request \in [Served -> Request]
  /\ \A r \in Served :
       request[r].pc \in {"select", "selected", "claim", "run"} => request[r].task \in Tasks
  /\ app \in [Tasks -> {"new", "inserted", "notified", "committed", "rolled back"}]
  /\ status \in [Tasks -> Statuses]
  /\ lock \in [Tasks -> Served \cup {NoOne}]

\* There is no row before enqueue, or its transaction, has come that far.
NoRowYet ==
  \A t \in Tasks :
    app[t] = "new" \/ (app[t] \in {"inserted", "notified"} /\ t \in options.in_transaction)
      => status[t] = "NONE"

\* A lock is held from the select to the end of the transaction, of a row
\* that is still what was selected.
LocksHeld == \A t \in Tasks, r \in Served :
  lock[t] = r => request[r].pc = "selected" /\ request[r].task = t

SelectedIsLocked == \A r \in Served : request[r].pc = "selected" =>
  lock[request[r].task] = r /\ status[request[r].task] \in Allowed

RunsIsRunning == \A t \in Tasks, r \in Served : Running(r, t) => status[t] = "RUNNING"

Orderly ==
  Shaped /\ NoRowYet /\ LocksHeld /\ SelectedIsLocked /\ RunsIsRunning /\ NoOverlap

LEMMA NotARequest == options \in Deployments => NoOne \notin Served
BY PushAssumption DEF Served

LEMMA NoneIsRequest ==
  None \in Request /\ None.pc = "none" /\ ~None.awaited /\ None.task = NoTask
BY DEF None, Request

\* The request that has moved has its type, the others are where they were.
LEMMA Moved ==
  ASSUME Shaped, NEW r \in Served, NEW x \in Request, Set(r, x), UNCHANGED options
  PROVE  /\ request' \in [Served -> Request] /\ Served' = Served
         /\ request'[r] = x /\ \A s \in Served \ {r} : request'[s] = request[s]
BY DEF Shaped, Set, Served

At(x, pc) == [x EXCEPT !.pc = pc]
AnsweredBy(x, code) == [x EXCEPT !.pc = "answer", !.code = code]
NotAwaited(x) == [x EXCEPT !.awaited = FALSE]

LEMMA AtFields ==
  ASSUME NEW x \in Request, NEW pc \in {"none", "select", "selected", "claim", "run", "answer"}
  PROVE  /\ At(x, pc) \in Request
         /\ At(x, pc).pc = pc
         /\ At(x, pc).task = x.task /\ At(x, pc).code = x.code
         /\ At(x, pc).delivery = x.delivery /\ At(x, pc).awaited = x.awaited
BY DEF Request, At

LEMMA AnsweredByFields ==
  ASSUME NEW x \in Request, NEW code \in Codes
  PROVE  /\ AnsweredBy(x, code) \in Request
         /\ AnsweredBy(x, code).pc = "answer" /\ AnsweredBy(x, code).code = code
         /\ AnsweredBy(x, code).task = x.task /\ AnsweredBy(x, code).delivery = x.delivery
         /\ AnsweredBy(x, code).awaited = x.awaited
<1>1. AnsweredBy(x, code) \in Request
  <2>1. PICK y \in Request : y = At(x, "answer")
    BY AtFields
  <2>2. [y EXCEPT !.code = code] \in Request
    BY DEF Request, Codes
  <2> QED
    BY <2>1, <2>2 DEF AnsweredBy, At
<1>2. /\ AnsweredBy(x, code).pc = "answer" /\ AnsweredBy(x, code).code = code
      /\ AnsweredBy(x, code).task = x.task /\ AnsweredBy(x, code).delivery = x.delivery
      /\ AnsweredBy(x, code).awaited = x.awaited
  BY DEF Request, AnsweredBy
<1> QED
  BY <1>1, <1>2

LEMMA NotAwaitedFields ==
  ASSUME NEW x \in Request
  PROVE  /\ NotAwaited(x) \in Request
         /\ NotAwaited(x).pc = x.pc
         /\ NotAwaited(x).task = x.task /\ ~NotAwaited(x).awaited
<1>1. NotAwaited(x) \in Request
  BY ZenonT(60) DEF Request, NotAwaited
<1>2. NotAwaited(x).pc = x.pc /\ NotAwaited(x).task = x.task /\ ~NotAwaited(x).awaited
  BY DEF Request, NotAwaited
<1> QED
  BY <1>1, <1>2

\* A request that goes on keeps its task.
LEMMA GoesOn ==
  ASSUME Shaped, NEW r \in Served, UNCHANGED options,
         NEW pc \in {"selected", "claim", "run"}, Goto(r, pc)
  PROVE  /\ request' \in [Served -> Request] /\ Served' = Served
         /\ request'[r].pc = pc
         /\ request'[r].task = request[r].task
         /\ request'[r].delivery = request[r].delivery /\ request'[r].awaited = request[r].awaited
         /\ \A s \in Served \ {r} : request'[s] = request[s]
<1>1. request[r] \in Request
  BY DEF Shaped
<1>2. At(request[r], pc) \in Request /\ Set(r, At(request[r], pc))
  BY <1>1, AtFields DEF Goto, At
<1>3. /\ request' \in [Served -> Request] /\ Served' = Served
      /\ request'[r] = At(request[r], pc) /\ \A s \in Served \ {r} : request'[s] = request[s]
  BY <1>2, Moved
<1> QED
  BY <1>1, <1>3, AtFields

\* One that is answered is at no task any more.
LEMMA IsAnswered ==
  ASSUME Shaped, NEW r \in Served, UNCHANGED options, NEW code \in Codes, Answer(r, code)
  PROVE  /\ request' \in [Served -> Request] /\ Served' = Served
         /\ request'[r].pc \in {"none", "answer"}
         /\ \A s \in Served \ {r} : request'[s] = request[s]
         /\ \/ request'[r] = None /\ request[r].delivery = NoDelivery
            \/ /\ request'[r].pc = "answer" /\ request'[r].code = code
               /\ request'[r].task = request[r].task
               /\ request'[r].delivery = request[r].delivery
               /\ request'[r].awaited = request[r].awaited
<1>1. CASE request[r].delivery = NoDelivery
  BY <1>1, Moved, NoneIsRequest DEF Answer
<1>2. CASE request[r].delivery # NoDelivery
  <2>1. request[r] \in Request
    BY DEF Shaped
  <2>2. AnsweredBy(request[r], code) \in Request /\ Set(r, AnsweredBy(request[r], code))
    <3>1. Set(r, AnsweredBy(request[r], code))
      BY <1>2, Zenon DEF Answer, AnsweredBy
    <3> QED
      BY <2>1, <3>1, AnsweredByFields
  <2>3. /\ request' \in [Served -> Request] /\ Served' = Served
        /\ request'[r] = AnsweredBy(request[r], code)
        /\ \A s \in Served \ {r} : request'[s] = request[s]
    BY <2>2, Moved
  <2> QED
    BY <2>1, <2>3, AnsweredByFields
<1> QED
  BY <1>1, <1>2

\* A request that is at no task holds nothing and runs nothing.
LEMMA LeavesIt ==
  ASSUME Orderly, NEW r \in Served, UNCHANGED <<options, app, status>>, Served' = Served,
         request' \in [Served -> Request],
         \A s \in Served \ {r} : request'[s] = request[s],
         request'[r].pc \in {"none", "select", "answer"},
         request'[r].pc = "select" => request'[r].task \in Tasks,
         NoOne \notin Served,
         lock' = [t \in Tasks |-> IF lock[t] = r THEN NoOne ELSE lock[t]]
  PROVE  Orderly'
<1>1. Shaped'
  BY DEF Orderly, Shaped
<1>2. NoRowYet'
  BY DEF Orderly, NoRowYet
<1>3. \A t \in Tasks, s \in Served : lock'[t] = s => s # r /\ lock[t] = s
  BY DEF Orderly, Shaped
<1>4. LocksHeld'
  BY <1>3 DEF Orderly, LocksHeld
<1>5. SelectedIsLocked'
  <2> SUFFICES ASSUME NEW s \in Served, request'[s].pc = "selected"
               PROVE  lock'[request'[s].task] = s /\ status[request'[s].task] \in Allowed
    BY DEF SelectedIsLocked, Allowed
  <2>1. s # r /\ request'[s] = request[s] /\ request[s].task \in Tasks
    BY DEF Orderly, Shaped
  <2> QED
    BY <2>1 DEF Orderly, SelectedIsLocked
<1>6. RunsIsRunning' /\ NoOverlap'
  BY DEF Orderly, RunsIsRunning, NoOverlap, Running
<1> QED
  BY <1>1, <1>2, <1>4, <1>5, <1>6 DEF Orderly

\* A request changes the row of its task, at which it alone may be, and
\* goes on to a state the row then fits.
LEMMA WorksAtIt ==
  ASSUME Orderly, NEW r \in Served, NEW t \in Tasks, UNCHANGED <<options, app>>, Served' = Served,
         NoOne \notin Served,
         request' \in [Served -> Request],
         \A s \in Served \ {r} : request'[s] = request[s],
         request[r].pc = "selected" => request[r].task = t,
         \/ request'[r].pc \in {"selected", "claim", "run"} /\ request'[r].task = t
         \/ request'[r].pc \in {"none", "answer"},
         status' \in [Tasks -> Statuses], lock' \in [Tasks -> Served \cup {NoOne}],
         \A u \in Tasks \ {t} : status'[u] = status[u] /\ lock'[u] = lock[u],
         status[t] # "NONE", lock[t] \in {r, NoOne},
         lock'[t] = IF request'[r].pc = "selected" THEN r ELSE NoOne,
         request'[r].pc = "selected" => status'[t] \in Allowed,
         request'[r].pc = "run" => status'[t] = "RUNNING",
         \A s \in Served \ {r} : ~Running(s, t)
  PROVE  Orderly'
<1>1. Shaped'
  BY DEF Orderly, Shaped
<1>2. NoRowYet'
  BY DEF Orderly, NoRowYet
<1>3. \A u \in Tasks \ {t} : lock[u] # r
  BY DEF Orderly, LocksHeld
<1>4. LocksHeld'
  <2> SUFFICES ASSUME NEW u \in Tasks, NEW s \in Served, lock'[u] = s
               PROVE  request'[s].pc = "selected" /\ request'[s].task = u
    BY DEF LocksHeld
  <2>1. CASE u = t
    <3>1. request'[r].pc = "selected" /\ s = r
      BY <2>1
    <3> QED
      BY <2>1, <3>1
  <2>2. CASE u # t
    BY <1>3, <2>2 DEF Orderly, LocksHeld
  <2> QED
    BY <2>1, <2>2
<1>5. ASSUME NEW s \in Served \ {r}, request[s].pc = "selected"
      PROVE  request[s].task \in Tasks \ {t}
  <2>1. request[s].task \in Tasks
    BY <1>5 DEF Orderly, Shaped
  <2>2. lock[request[s].task] = s
    BY <1>5 DEF Orderly, SelectedIsLocked
  <2> QED
    BY <2>1, <2>2
<1>6. SelectedIsLocked'
  <2> SUFFICES ASSUME NEW s \in Served, request'[s].pc = "selected"
               PROVE  lock'[request'[s].task] = s /\ status'[request'[s].task] \in Allowed
    BY DEF SelectedIsLocked, Allowed
  <2>1. CASE s = r
    BY <2>1
  <2>2. CASE s # r
    BY <1>5, <2>2 DEF Orderly, SelectedIsLocked
  <2> QED
    BY <2>1, <2>2
<1>7. \A s \in Served, u \in Tasks :
        Running(s, u)' => (s = r /\ u = t) \/ (s # r /\ u # t /\ Running(s, u))
  BY DEF Running
<1>8. RunsIsRunning'
  BY <1>7 DEF Orderly, RunsIsRunning, Running
<1>9. NoOverlap'
  BY <1>7 DEF Orderly, NoOverlap
<1> QED
  BY <1>1, <1>2, <1>4, <1>6, <1>8, <1>9 DEF Orderly

\* Enqueue, its transaction and the recovery change a row no request is at.
LEMMA RowAlone ==
  ASSUME Orderly, NEW t \in Tasks, UNCHANGED <<options, lock, request>>,
         app' \in [Tasks -> {"new", "inserted", "notified", "committed", "rolled back"}],
         status' \in [Tasks -> Statuses],
         \A u \in Tasks \ {t} : status'[u] = status[u] /\ app'[u] = app[u],
         status'[t] = status[t] \/ (status[t] \notin Allowed /\ \A r \in Served : ~Running(r, t)),
         app'[t] = "new" \/ (app'[t] \in {"inserted", "notified"} /\ t \in options.in_transaction)
           => status'[t] = "NONE"
  PROVE  Orderly'
<1>0. Served' = Served
  BY DEF Served
<1>1. Shaped'
  BY <1>0 DEF Orderly, Shaped
<1>2. NoRowYet'
  BY DEF Orderly, NoRowYet
<1>3. LocksHeld'
  BY <1>0 DEF Orderly, LocksHeld
<1>4. SelectedIsLocked'
  <2> SUFFICES ASSUME NEW s \in Served, request[s].pc = "selected"
               PROVE  lock[request[s].task] = s /\ status'[request[s].task] \in Allowed
    BY <1>0 DEF SelectedIsLocked, Allowed
  <2>1. request[s].task \in Tasks
    BY DEF Orderly, Shaped
  <2> QED
    BY <2>1 DEF Orderly, SelectedIsLocked
<1>6. NoOverlap'
  BY <1>0 DEF Orderly, NoOverlap, Running
<1>5. RunsIsRunning'
  BY <1>0 DEF Orderly, RunsIsRunning, Running
<1> QED
  BY <1>1, <1>2, <1>3, <1>4, <1>5, <1>6 DEF Orderly

\* A row that a request has locked or runs is at no other request.
LEMMA NobodyElse ==
  ASSUME Orderly, NEW t \in Tasks, status[t] # "RUNNING"
  PROVE  \A s \in Served : ~Running(s, t)
BY DEF Orderly, RunsIsRunning

LEMMA OrderlyInit == Init => Orderly
<1> SUFFICES ASSUME Init PROVE Orderly
  OBVIOUS
<1>1. NoOne \notin Served
  BY NotARequest DEF Init
<1>2. request \in [Served -> Request] /\ \A r \in Served : request[r].pc = "none"
  BY NoneIsRequest DEF Init
<1>3. Shaped
  BY <1>2 DEF Init, Shaped, Statuses
<1>4. NoRowYet /\ LocksHeld
  BY <1>1 DEF Init, NoRowYet, LocksHeld
<1>5. SelectedIsLocked /\ RunsIsRunning /\ NoOverlap
  BY <1>2 DEF SelectedIsLocked, RunsIsRunning, NoOverlap, Running
<1> QED
  BY <1>3, <1>4, <1>5 DEF Orderly

LEMMA OrderlyStep == Orderly /\ options \in Deployments /\ [Next]_vars => Orderly'
<1> SUFFICES ASSUME Orderly, options \in Deployments, [Next]_vars PROVE Orderly'
  OBVIOUS
<1>0. /\ Shaped /\ NoOne \notin Served
      /\ request \in [Served -> Request]
      /\ status \in [Tasks -> Statuses] /\ lock \in [Tasks -> Served \cup {NoOne}]
      /\ app \in [Tasks -> {"new", "inserted", "notified", "committed", "rolled back"}]
  BY NotARequest DEF Orderly, Shaped
<1>h. ASSUME NEW r \in Served, request[r].pc # "selected"
      PROVE  lock = [t \in Tasks |-> IF lock[t] = r THEN NoOne ELSE lock[t]]
  <2>1. \A t \in Tasks : lock[t] # r
    BY <1>h DEF Orderly, LocksHeld
  <2> QED
    BY <1>0, <2>1
<1>1. ASSUME NEW t \in Tasks, Insert(t) PROVE Orderly'
  <2>1. status[t] = "NONE"
    BY <1>1 DEF Insert, Orderly, NoRowYet
  <2>2. \A r \in Served : ~Running(r, t)
    BY <2>1, NobodyElse
  <2>3. /\ status' \in [Tasks -> Statuses] /\ \A u \in Tasks \ {t} : status'[u] = status[u]
        /\ t \in options.in_transaction => status'[t] = "NONE"
    BY <1>0, <1>1, <2>1 DEF Insert, Statuses
  <2>4. /\ app' \in [Tasks -> {"new", "inserted", "notified", "committed", "rolled back"}]
        /\ app'[t] = "inserted" /\ \A u \in Tasks \ {t} : app'[u] = app[u]
    BY <1>0, <1>1 DEF Insert
  <2>5. UNCHANGED <<options, lock, request>>
    BY <1>1 DEF Insert
  <2> QED
    BY <2>1, <2>2, <2>3, <2>4, <2>5, RowAlone DEF Allowed
<1>2. ASSUME NEW t \in Tasks, Notify(t) PROVE Orderly'
  <2>1. /\ app' \in [Tasks -> {"new", "inserted", "notified", "committed", "rolled back"}]
        /\ app'[t] = "notified" /\ \A u \in Tasks \ {t} : app'[u] = app[u]
    BY <1>0, <1>2 DEF Notify
  <2>2. t \in options.in_transaction => status[t] = "NONE"
    BY <1>2 DEF Notify, Orderly, NoRowYet
  <2>3. UNCHANGED <<options, status, lock, request>>
    BY <1>2 DEF Notify
  <2> QED
    BY <1>0, <2>1, <2>2, <2>3, RowAlone
<1>3. ASSUME NEW t \in Tasks, EndTransaction(t) PROVE Orderly'
  <2>1. status[t] = "NONE"
    BY <1>3 DEF EndTransaction, Orderly, NoRowYet
  <2>2. \A r \in Served : ~Running(r, t)
    BY <2>1, NobodyElse
  <2>3. status' \in [Tasks -> Statuses] /\ \A u \in Tasks \ {t} : status'[u] = status[u]
    BY <1>0, <1>3 DEF EndTransaction, Statuses
  <2>4. /\ app' \in [Tasks -> {"new", "inserted", "notified", "committed", "rolled back"}]
        /\ app'[t] \in {"committed", "rolled back"} /\ \A u \in Tasks \ {t} : app'[u] = app[u]
    BY <1>0, <1>3 DEF EndTransaction
  <2>5. UNCHANGED <<options, lock, request>>
    BY <1>3 DEF EndTransaction
  <2> QED
    BY <2>1, <2>2, <2>3, <2>4, <2>5, RowAlone DEF Allowed
<1>4. ASSUME NEW t \in Tasks, Requeue(t) PROVE Orderly'
  <2>1. /\ status' \in [Tasks -> Statuses] /\ \A u \in Tasks \ {t} : status'[u] = status[u]
    BY <1>0, <1>4 DEF Requeue, Statuses
  <2>2. UNCHANGED <<options, app, lock, request>> /\ status[t] \notin Allowed
    BY <1>4 DEF Requeue, Allowed
  <2>3. /\ \A r \in Served : ~Running(r, t)
        /\ ~(\/ app[t] = "new"
             \/ app[t] \in {"inserted", "notified"} /\ t \in options.in_transaction)
    BY <1>4 DEF Requeue, Orderly, NoRowYet
  <2> QED
    BY <1>0, <2>1, <2>2, <2>3, RowAlone
<1>5. ASSUME UNCHANGED <<options, app, status, lock, request>> PROVE Orderly'
  <2>1. Served' = Served
    BY <1>5 DEF Served
  <2>2. Shaped' /\ NoRowYet' /\ LocksHeld'
    BY <1>5, <2>1, ZenonT(30) DEF Orderly, Shaped, NoRowYet, LocksHeld
  <2>3. SelectedIsLocked'
    BY <1>5, <2>1 DEF Orderly, SelectedIsLocked, Allowed
  <2>4. RunsIsRunning' /\ NoOverlap'
    BY <1>5, <2>1 DEF Orderly, RunsIsRunning, NoOverlap, Running
  <2> QED
    BY <2>2, <2>3, <2>4 DEF Orderly
<1>6. ASSUME NEW r \in Served, NEW d \in Deliveries, Deliver(r, d) PROVE Orderly'
  <2> DEFINE x == [pc |-> "select", delivery |-> d, task |-> d[1], code |-> 200, awaited |-> TRUE]
  <2>1. d[1] \in Tasks
    BY DEF Deliveries
  <2>2. x \in Request /\ x.pc = "select" /\ x.task \in Tasks
    BY <2>1 DEF Request
  <2>3. UNCHANGED <<options, app, status, lock>> /\ Set(r, x) /\ request[r].pc = "none"
    BY <1>6, NoneIsRequest DEF Deliver, table
  <2> HIDE DEF x
  <2>4. /\ request' \in [Served -> Request] /\ Served' = Served
        /\ request'[r] = x /\ \A s \in Served \ {r} : request'[s] = request[s]
    BY <1>0, <2>2, <2>3, Moved
  <2> QED
    BY <1>0, <1>h, <2>2, <2>3, <2>4, LeavesIt
<1>7. ASSUME NEW r \in Served, NEW t \in Tasks, Fetch(r, t) PROVE Orderly'
  <2> DEFINE x == [None EXCEPT !.pc = "selected", !.task = t]
  <2>1. x \in Request /\ x.pc = "selected" /\ x.task = t
    BY DEF None, Request
  <2>2. /\ UNCHANGED <<options, app, status>> /\ Set(r, x) /\ request[r].pc = "none"
        /\ status[t] = "READY" /\ lock[t] = NoOne /\ lock' = [lock EXCEPT ![t] = r]
    BY <1>7, NoneIsRequest DEF Fetch, Fetchable
  <2> HIDE DEF x
  <2>3. /\ request' \in [Served -> Request] /\ Served' = Served
        /\ request'[r] = x /\ \A s \in Served \ {r} : request'[s] = request[s]
    BY <1>0, <2>1, <2>2, Moved
  <2>4. /\ lock' \in [Tasks -> Served \cup {NoOne}] /\ lock'[t] = r
        /\ \A u \in Tasks \ {t} : lock'[u] = lock[u]
    BY <1>0, <2>2
  <2>5. \A s \in Served \ {r} : ~Running(s, t)
    BY <2>2, NobodyElse
  <2> QED
    BY <1>0, <2>1, <2>2, <2>3, <2>4, <2>5, WorksAtIt DEF Allowed
<1>8. ASSUME NEW r \in Served, NEW code \in Codes, Answer(r, code),
             request[r].pc # "selected", UNCHANGED <<options, app, status, lock>>
      PROVE  Orderly'
  <2>1. /\ request' \in [Served -> Request] /\ Served' = Served
        /\ request'[r].pc \in {"none", "answer"}
        /\ \A s \in Served \ {r} : request'[s] = request[s]
    BY <1>0, <1>8, IsAnswered
  <2> QED
    BY <1>0, <1>h, <1>8, <2>1, LeavesIt
<1>9. ASSUME NEW r \in Served, Select(r) PROVE Orderly'
  <2> DEFINE t == request[r].task
  <2>1. request[r].pc = "select" /\ UNCHANGED <<options, app, status>>
    BY <1>9 DEF Select
  <2>2. t \in Tasks
    BY <2>1 DEF Orderly, Shaped
  <2>3. CASE UNCHANGED lock /\ (Answer(r, 404) \/ Answer(r, 200))
    BY <1>8, <2>1, <2>3 DEF Codes
  <2>4. CASE /\ status[t] \in Allowed /\ lock[t] = NoOne
             /\ Goto(r, "selected") /\ lock' = [lock EXCEPT ![t] = r]
    <3>1. /\ request' \in [Served -> Request] /\ Served' = Served
          /\ request'[r].pc = "selected" /\ request'[r].task = t
          /\ \A s \in Served \ {r} : request'[s] = request[s]
      BY <1>0, <2>1, <2>4, GoesOn
    <3>2. /\ lock' \in [Tasks -> Served \cup {NoOne}] /\ lock'[t] = r
          /\ \A u \in Tasks \ {t} : lock'[u] = lock[u]
      BY <1>0, <2>2, <2>4
    <3>3. status[t] # "NONE" /\ status[t] # "RUNNING"
      BY <2>4 DEF Allowed
    <3>4. \A s \in Served \ {r} : ~Running(s, t)
      BY <2>2, <3>3, NobodyElse
    <3> HIDE DEF t
    <3> QED
      BY <1>0, <2>1, <2>2, <2>4, <3>1, <3>2, <3>3, <3>4, WorksAtIt
  <2> QED
    BY <1>9, <2>3, <2>4 DEF Select
<1>10. ASSUME NEW r \in Served, Unlock(r) PROVE Orderly'
  <2>0. PICK t \in Tasks : t = request[r].task
    BY <1>10 DEF Unlock, Orderly, Shaped
  <2>1. /\ request[r].pc = "selected" /\ UNCHANGED <<options, app>> /\ Goto(r, "claim")
        /\ status' = [status EXCEPT ![t] = "READY"] /\ lock' = [lock EXCEPT ![t] = NoOne]
    BY <1>10, <2>0 DEF Unlock
  <2>2. lock[t] = r /\ status[t] \in Allowed
    BY <2>0, <2>1 DEF Orderly, SelectedIsLocked
  <2>3. /\ request' \in [Served -> Request] /\ Served' = Served
        /\ request'[r].pc = "claim" /\ request'[r].task = t
        /\ \A s \in Served \ {r} : request'[s] = request[s]
    BY <1>0, <2>0, <2>1, GoesOn
  <2>4. /\ lock' \in [Tasks -> Served \cup {NoOne}] /\ status' \in [Tasks -> Statuses]
        /\ lock'[t] = NoOne
        /\ \A u \in Tasks \ {t} : lock'[u] = lock[u] /\ status'[u] = status[u]
    BY <1>0, <2>1 DEF Statuses
  <2>5. status[t] # "NONE" /\ status[t] # "RUNNING"
    BY <2>2 DEF Allowed
  <2>6. \A s \in Served \ {r} : ~Running(s, t)
    BY <2>5, NobodyElse
  <2> QED
    BY <1>0, <2>0, <2>1, <2>2, <2>3, <2>4, <2>5, <2>6, WorksAtIt, ZenonT(30)
<1>11. ASSUME NEW r \in Served, Claim(r) PROVE Orderly'
  <2>0. PICK t \in Tasks : t = request[r].task
    BY <1>11 DEF Claim, Orderly, Shaped
  <2>1. request[r].pc = "claim" /\ UNCHANGED <<options, app, lock>>
    BY <1>11 DEF Claim
  <2>2. CASE Answer(r, 200) /\ UNCHANGED status
    BY <1>8, <2>1, <2>2 DEF Codes
  <2>3. CASE Claimable(r) /\ status' = [status EXCEPT ![t] = "RUNNING"] /\ Goto(r, "run")
    <3>1. /\ request' \in [Served -> Request] /\ Served' = Served
          /\ request'[r].pc = "run" /\ request'[r].task = t
          /\ \A s \in Served \ {r} : request'[s] = request[s]
      BY <1>0, <2>0, <2>1, <2>3, GoesOn
    <3>2. /\ status' \in [Tasks -> Statuses] /\ status'[t] = "RUNNING"
          /\ \A u \in Tasks \ {t} : status'[u] = status[u]
      BY <1>0, <2>3 DEF Statuses
    <3>3. status[t] = "READY" /\ lock[t] = NoOne
      BY <2>0, <2>3 DEF Claimable
    <3>4. \A s \in Served \ {r} : ~Running(s, t)
      BY <3>3, NobodyElse
    <3> QED
      BY <1>0, <2>0, <2>1, <3>1, <3>2, <3>3, <3>4, WorksAtIt
  <2> QED
    BY <1>11, <2>0, <2>2, <2>3 DEF Claim
<1>12. ASSUME NEW r \in Served, Finish(r) PROVE Orderly'
  <2>0. PICK t \in Tasks : t = request[r].task
    BY <1>12 DEF Finish, Orderly, Shaped
  <2>1. request[r].pc = "run" /\ UNCHANGED <<options, app, lock>>
    BY <1>12 DEF Finish
  <2>2. PICK outcome \in {"SUCCESSFUL", "FAILED"}, code \in Codes :
          status' = [status EXCEPT ![t] = outcome] /\ Answer(r, code)
    <3>1. PICK outcome \in {"SUCCESSFUL", "FAILED"} :
            status' = [status EXCEPT ![t] = outcome] /\ Answer(r, Code(outcome))
      BY <1>12, <2>0 DEF Finish
    <3>2. PICK code \in Codes : code = Code(outcome)
      BY DEF Code, Codes
    <3> QED
      BY <3>1, <3>2
  <2>3. /\ request' \in [Served -> Request] /\ Served' = Served
        /\ request'[r].pc \in {"none", "answer"}
        /\ \A s \in Served \ {r} : request'[s] = request[s]
    BY <1>0, <2>1, <2>2, IsAnswered
  <2>4. /\ status' \in [Tasks -> Statuses] /\ \A u \in Tasks \ {t} : status'[u] = status[u]
    BY <1>0, <2>2 DEF Statuses
  <2>5. Running(r, t) /\ status[t] = "RUNNING"
    BY <2>0, <2>1 DEF Orderly, RunsIsRunning, Running
  <2>6. \A s \in Served \ {r} : ~Running(s, t)
    BY <2>5 DEF Orderly, NoOverlap
  <2>7. lock[t] = NoOne
    <3>1. ASSUME NEW s \in Served, lock[t] = s PROVE FALSE
      BY <2>5, <3>1 DEF Orderly, LocksHeld, SelectedIsLocked, Allowed
    <3> QED
      BY <1>0, <3>1
  <2> QED
    BY <1>0, <2>0, <2>1, <2>3, <2>4, <2>5, <2>6, <2>7, WorksAtIt
<1>13. ASSUME NEW r \in Served, GetAnswer(r) PROVE Orderly'
  <2>1. UNCHANGED <<options, app, status, lock>> /\ request[r].pc = "answer" /\ Set(r, None)
    BY <1>13 DEF GetAnswer, table
  <2>2. /\ request' \in [Served -> Request] /\ Served' = Served
        /\ request'[r] = None /\ \A s \in Served \ {r} : request'[s] = request[s]
    BY <1>0, <2>1, NoneIsRequest, Moved
  <2> QED
    BY <1>0, <1>h, <2>1, <2>2, NoneIsRequest, LeavesIt
<1>14. ASSUME NEW r \in Served, Deadline(r) PROVE Orderly'
  <2>1. UNCHANGED <<options, app, status, lock>> /\ Set(r, NotAwaited(request[r]))
    BY <1>14 DEF Deadline, table, NotAwaited
  <2>2. request[r] \in Request
    BY <1>0
  <2>3. /\ request' \in [Served -> Request] /\ Served' = Served
        /\ request'[r] = NotAwaited(request[r]) /\ \A s \in Served \ {r} : request'[s] = request[s]
    BY <1>0, <2>1, <2>2, NotAwaitedFields, Moved
  <2>4. \A s \in Served : request'[s].pc = request[s].pc /\ request'[s].task = request[s].task
    BY <2>2, <2>3, NotAwaitedFields
  <2>5. Shaped' /\ NoRowYet'
    BY <2>1, <2>3, <2>4 DEF Orderly, Shaped, NoRowYet
  <2>6. LocksHeld' /\ SelectedIsLocked'
    BY <2>1, <2>3, <2>4 DEF Orderly, LocksHeld, SelectedIsLocked
  <2>7. RunsIsRunning' /\ NoOverlap'
    BY <2>1, <2>3, <2>4 DEF Orderly, RunsIsRunning, NoOverlap, Running
  <2> QED
    BY <2>5, <2>6, <2>7 DEF Orderly
<1>15. ASSUME NEW r \in Served, Crash(r) PROVE Orderly'
  <2>1. UNCHANGED <<options, app, status>> /\ Set(r, None)
    BY <1>15 DEF Crash
  <2>2. /\ request' \in [Served -> Request] /\ Served' = Served
        /\ request'[r] = None /\ \A s \in Served \ {r} : request'[s] = request[s]
    BY <1>0, <2>1, NoneIsRequest, Moved
  <2>3. lock' = [t \in Tasks |-> IF lock[t] = r THEN NoOne ELSE lock[t]]
    BY <1>15 DEF Crash
  <2> QED
    BY <1>0, <2>1, <2>2, <2>3, NoneIsRequest, LeavesIt
<1>16. ASSUME NEW t \in Tasks, BecomeDue(t) \/ Announce(t) PROVE Orderly'
  BY <1>5, <1>16 DEF BecomeDue, Announce, table
<1>17. CASE UNCHANGED vars
  BY <1>5, <1>17 DEF vars, table
<1> QED
  BY <1>1, <1>2, <1>3, <1>4, <1>6, <1>7, <1>9, <1>10, <1>11, <1>12, <1>13, <1>14, <1>15, <1>16,
     <1>17 DEF Next, Serve, Quiet

LEMMA SameDeployment == options \in Deployments /\ [Next]_vars => (options \in Deployments)'
BY DEF Next, vars, Serve, Quiet, Insert, Notify, EndTransaction, BecomeDue, Requeue, Announce,
       Deliver, Fetch, Select, Unlock, Claim, Finish, GetAnswer, Deadline, Crash

\* However often a delivery is repeated, while the first attempt still runs
\* or after the server of it has died, and whatever a retry, the cron job and
\* the recovery do meanwhile: no two requests run one task at once
\* (run_task_by_id, ExecuteTaskView).
THEOREM PushRunsOnce == Spec => []NoOverlap
<1>1. Init => options \in Deployments
  BY DEF Init
<1>2. Orderly => NoOverlap
  BY DEF Orderly
<1> QED
  BY <1>1, <1>2, OrderlyInit, OrderlyStep, SameDeployment, PTL DEF Spec

-----------------------------------------------------------------------------
(* What the queue has counts for what it was asked for.                    *)

Asked(d) == d \in Deliveries /\ d[2] <= sent[d[1]]

\* The queue may still try this delivery.
Pending(d) == Asked(d) /\ attempts[d] < MaxAttempts

DueTyped == due \subseteq Tasks
UnannouncedTyped == unannounced \subseteq Tasks
CrashesTyped == crashes \in 0 .. options.max_crashes
SentTyped == sent \in [Tasks -> 0 .. MaxSends]
AttemptsTyped == attempts \in [Deliveries -> 0 .. MaxAttempts]
WaitingPending == \A d \in waiting : Pending(d)
OnlyAskedTried == \A d \in Deliveries : ~Asked(d) => attempts[d] = 0
AwaitedAsked == \A r \in Served : request[r].awaited => Asked(request[r].delivery)

Queued == SentTyped /\ AttemptsTyped /\ WaitingPending /\ OnlyAskedTried
Booked == DueTyped /\ UnannouncedTyped /\ CrashesTyped /\ Queued /\ AwaitedAsked

\* A delivery that failed is waiting again, unless it has been given up.
LEMMA TriesAgain ==
  ASSUME Queued, AwaitedAsked, NEW r \in Served, TryAgain(r), UNCHANGED <<sent, attempts>>
  PROVE  /\ Queued' /\ waiting \subseteq waiting'
         /\ request[r].awaited =>
              request[r].delivery \in waiting' \/ attempts[request[r].delivery] = MaxAttempts
<1>0. PICK d : d = request[r].delivery
  OBVIOUS
<1>1. waiting' = IF request[r].awaited /\ attempts[d] < MaxAttempts
                 THEN waiting \cup {d} ELSE waiting
  BY <1>0 DEF TryAgain
<1>2. request[r].awaited => Asked(d)
  BY <1>0 DEF AwaitedAsked
<1>3. SentTyped' /\ AttemptsTyped' /\ OnlyAskedTried'
  BY DEF Queued, SentTyped, AttemptsTyped, OnlyAskedTried, Asked
<1>4. \A e \in waiting' : Pending(e)
  BY <1>1, <1>2 DEF Queued, WaitingPending, Pending
<1>5. \A e : Pending(e)' <=> Pending(e)
  BY DEF Pending, Asked
<1>6. Asked(d) => attempts[d] \in 0 .. MaxAttempts
  BY DEF Asked, Queued, AttemptsTyped
<1>7. request[r].awaited => d \in waiting' \/ attempts[d] = MaxAttempts
  BY <1>1, <1>2, <1>6, PushAssumption
<1> QED
  BY <1>0, <1>1, <1>3, <1>4, <1>5, <1>7 DEF Queued, WaitingPending

\* What is asked for waits; what was asked for stays so.
LEMMA Sends ==
  ASSUME Queued, NEW t \in Tasks, Send(t)
  PROVE  /\ Queued' /\ UNCHANGED attempts /\ waiting \subseteq waiting'
         /\ \A d : Asked(d) => Asked(d)'
         /\ \A u \in Tasks \ {t} : sent'[u] = sent[u]
         /\ sent'[t] <= sent[t] + 1
         /\ sent[t] < MaxSends /\ ~options.calls_may_fail => \E d \in waiting' : d[1] = t
<1>0. sent \in [Tasks -> 0 .. MaxSends] /\ sent[t] \in 0 .. MaxSends /\ UNCHANGED attempts
  BY DEF Queued, SentTyped, Send
<1>1. CASE UNCHANGED <<sent, waiting>> /\ (sent[t] = MaxSends \/ options.calls_may_fail)
  <2>1. \A d : (Asked(d)' <=> Asked(d)) /\ (Pending(d)' <=> Pending(d))
    BY <1>0, <1>1 DEF Asked, Pending
  <2>2. Queued'
    BY <1>0, <1>1, <2>1
       DEF Queued, SentTyped, AttemptsTyped, WaitingPending, OnlyAskedTried
  <2> QED
    BY <1>0, <1>1, <2>1, <2>2, PushAssumption
<1>2. CASE /\ sent[t] < MaxSends /\ sent' = [sent EXCEPT ![t] = @ + 1]
           /\ waiting' = waiting \cup {<<t, sent'[t]>>}
  <2>1. /\ sent' \in [Tasks -> 0 .. MaxSends] /\ sent'[t] = sent[t] + 1
        /\ sent'[t] \in 1 .. MaxSends /\ \A u \in Tasks \ {t} : sent'[u] = sent[u]
    BY <1>0, <1>2, PushAssumption
  <2>0. PICK e \in Deliveries : e = <<t, sent'[t]>>
    BY <2>1 DEF Deliveries
  <2>2. e[1] = t /\ e[2] = sent'[t] /\ waiting' = waiting \cup {e}
    BY <1>2, <2>0
  <2>3. ASSUME NEW d, Asked(d) PROVE Asked(d)'
    <3>1. d[1] \in Tasks /\ d[2] \in 1 .. MaxSends /\ d \in Deliveries /\ d[2] <= sent[d[1]]
      BY <2>3 DEF Asked, Deliveries
    <3>2. sent[d[1]] \in 0 .. MaxSends /\ sent'[d[1]] \in 0 .. MaxSends /\ sent[d[1]] <= sent'[d[1]]
      BY <1>0, <2>1, <3>1
    <3>3. d[2] <= sent'[d[1]]
      BY <3>1, <3>2, PushAssumption
    <3> QED
      BY <3>1, <3>3 DEF Asked
  <2>4. ~Asked(e) /\ Asked(e)'
    BY <1>0, <2>0, <2>1, <2>2 DEF Asked
  <2>5. attempts[e] = 0
    BY <2>2, <2>4 DEF Queued, OnlyAskedTried
  <2>6. Pending(e)'
    BY <1>0, <2>4, <2>5, PushAssumption DEF Pending
  <2>7. WaitingPending'
    <3>1. \A d \in waiting : Pending(d)'
      BY <1>0, <2>3 DEF Queued, WaitingPending, Pending
    <3> QED
      BY <2>2, <2>6, <3>1 DEF WaitingPending
  <2>8. OnlyAskedTried'
    BY <1>0, <2>3 DEF Queued, OnlyAskedTried
  <2>9. Queued'
    BY <1>0, <2>1, <2>7, <2>8 DEF Queued, SentTyped, AttemptsTyped
  <2> QED
    BY <1>0, <1>2, <2>1, <2>2, <2>3, <2>9
<1> QED
  BY <1>1, <1>2 DEF Send

\* A step of a request that the queue knows as little of as before.
LEMMA BookedRequests ==
  ASSUME Booked, UNCHANGED <<options, due, unannounced, crashes, sent>>, Queued',
         \A s \in Served : request'[s].awaited =>
           request[s].awaited /\ request'[s].delivery = request[s].delivery
  PROVE  Booked'
<1>1. Served' = Served
  BY DEF Served
<1>2. AwaitedAsked'
  BY <1>1 DEF Booked, AwaitedAsked, Asked
<1>3. DueTyped' /\ UnannouncedTyped' /\ CrashesTyped'
  BY DEF Booked, DueTyped, UnannouncedTyped, CrashesTyped
<1> QED
  BY <1>2, <1>3 DEF Booked

LEMMA QueuedUnchanged == ASSUME Queued, UNCHANGED queue PROVE Queued'
<1>1. \A d : (Asked(d)' <=> Asked(d)) /\ (Pending(d)' <=> Pending(d))
  BY DEF Asked, Pending, queue
<1> QED
  BY <1>1 DEF Queued, SentTyped, AttemptsTyped, WaitingPending, OnlyAskedTried, queue

LEMMA BookedInit == Init => Booked
<1> SUFFICES ASSUME Init PROVE Booked
  OBVIOUS
<1>1. \A r \in Served : request[r] = None
  BY DEF Init
<1>2. DueTyped /\ UnannouncedTyped
  BY DEF Init, DueTyped, UnannouncedTyped
<1>3. CrashesTyped
  BY PushAssumption DEF Init, CrashesTyped
<1>4. SentTyped /\ AttemptsTyped
  BY PushAssumption DEF Init, SentTyped, AttemptsTyped
<1>5. WaitingPending /\ OnlyAskedTried
  BY DEF Init, WaitingPending, OnlyAskedTried
<1>6. AwaitedAsked
  BY <1>1, NoneIsRequest DEF AwaitedAsked
<1> QED
  BY <1>2, <1>3, <1>4, <1>5, <1>6 DEF Booked, Queued

LEMMA BookedStep == Booked /\ Shaped /\ options \in Deployments /\ [Next]_vars => Booked'
<1> SUFFICES ASSUME Booked, Shaped, options \in Deployments, [Next]_vars PROVE Booked'
  OBVIOUS
<1>0. Queued /\ AwaitedAsked /\ request \in [Served -> Request]
  BY DEF Booked, Shaped
<1>1. ASSUME UNCHANGED <<options, request, crashes>>, due' \subseteq Tasks,
             unannounced' \subseteq Tasks, Queued', \A d : Asked(d) => Asked(d)'
      PROVE  Booked'
  <2>1. AwaitedAsked'
    BY <1>0, <1>1 DEF AwaitedAsked, Served
  <2> QED
    BY <1>1, <2>1 DEF Booked, DueTyped, UnannouncedTyped, CrashesTyped
<1>2. due \subseteq Tasks /\ unannounced \subseteq Tasks
  BY DEF Booked, DueTyped, UnannouncedTyped
<1>3. ASSUME UNCHANGED queue PROVE Queued' /\ \A d : Asked(d) => Asked(d)'
  BY <1>0, <1>3, QueuedUnchanged DEF Asked, queue
<1>4. ASSUME NEW t \in Tasks, Insert(t) \/ EndTransaction(t) \/ BecomeDue(t) \/ Requeue(t)
      PROVE  Booked'
  <2>1. UNCHANGED <<options, request, crashes>> /\ UNCHANGED queue
    BY <1>4 DEF Insert, EndTransaction, BecomeDue, Requeue
  <2>2. due' \subseteq Tasks /\ unannounced' \subseteq Tasks
    BY <1>2, <1>4 DEF Insert, EndTransaction, BecomeDue, Requeue
  <2> QED
    BY <1>1, <1>3, <2>1, <2>2
<1>5. ASSUME NEW t \in Tasks, Notify(t) \/ Announce(t) PROVE Booked'
  <2>1. UNCHANGED <<options, request, crashes, due>> /\ Send(t)
    BY <1>5 DEF Notify, Announce, table
  <2>2. unannounced' \subseteq Tasks
    BY <1>2, <1>5 DEF Notify, Announce
  <2> QED
    BY <1>0, <1>1, <1>2, <2>1, <2>2, Sends
<1>6. ASSUME NEW r \in Served, NEW d \in Deliveries, Deliver(r, d) PROVE Booked'
  <2> DEFINE x == [pc |-> "select", delivery |-> d, task |-> d[1], code |-> 200, awaited |-> TRUE]
  <2>1. d[1] \in Tasks
    BY DEF Deliveries
  <2>2. x \in Request /\ x.delivery = d
    BY <2>1 DEF Request
  <2>3. /\ UNCHANGED <<options, due, sent, unannounced, crashes>> /\ Set(r, x)
        /\ d \in waiting /\ waiting' = waiting \ {d} /\ attempts' = [attempts EXCEPT ![d] = @ + 1]
    BY <1>6 DEF Deliver, table
  <2> HIDE DEF x
  <2>4. /\ Served' = Served /\ request'[r] = x
        /\ \A s \in Served \ {r} : request'[s] = request[s]
    BY <2>2, <2>3, Moved
  <2>5. Pending(d) /\ \A e : Asked(e)' <=> Asked(e)
    BY <1>0, <2>3 DEF Queued, WaitingPending, Asked
  <2>6. attempts \in [Deliveries -> 0 .. MaxAttempts] /\ attempts[d] \in 0 .. MaxAttempts
        /\ attempts[d] < MaxAttempts
    BY <1>0, <2>5 DEF Queued, AttemptsTyped, Pending
  <2>7. /\ attempts' \in [Deliveries -> 0 .. MaxAttempts]
        /\ \A e \in Deliveries \ {d} : attempts'[e] = attempts[e]
    BY <2>3, <2>6, PushAssumption
  <2>8. WaitingPending'
    <3>1. \A e \in waiting' : Pending(e) /\ e # d
      BY <1>0, <2>3 DEF Queued, WaitingPending
    <3> QED
      BY <2>5, <2>7, <3>1 DEF WaitingPending, Pending, Asked
  <2>9. OnlyAskedTried'
    BY <1>0, <2>5, <2>7 DEF Queued, OnlyAskedTried, Pending
  <2>10. AwaitedAsked'
    BY <1>0, <2>2, <2>4, <2>5 DEF AwaitedAsked, Pending
  <2> QED
    BY <1>0, <2>3, <2>7, <2>8, <2>9, <2>10
       DEF Booked, Queued, DueTyped, UnannouncedTyped, CrashesTyped, SentTyped, AttemptsTyped
<1>7. ASSUME NEW r \in Served, UNCHANGED <<options, due, unannounced, crashes, sent>>, Queued',
             \A s \in Served \ {r} : request'[s] = request[s],
             request'[r].awaited => /\ request[r].awaited
                                    /\ request'[r].delivery = request[r].delivery
      PROVE  Booked'
  <2>1. \A s \in Served : request'[s].awaited =>
          request[s].awaited /\ request'[s].delivery = request[s].delivery
    BY <1>7
  <2> QED
    BY <1>7, <2>1, BookedRequests
<1>8. ASSUME NEW r \in Served, NEW t \in Tasks, Fetch(r, t) PROVE Booked'
  <2> DEFINE x == [None EXCEPT !.pc = "selected", !.task = t]
  <2>1. x \in Request /\ ~x.awaited
    BY DEF None, Request
  <2>2. UNCHANGED <<options, due, queue, unannounced, crashes>> /\ Set(r, x)
    BY <1>8 DEF Fetch
  <2> HIDE DEF x
  <2>3. request'[r] = x /\ \A s \in Served \ {r} : request'[s] = request[s]
    BY <2>1, <2>2, Moved
  <2> QED
    BY <1>3, <1>7, <2>1, <2>2, <2>3 DEF queue
<1>9. ASSUME NEW r \in Served, NEW code \in Codes, Answer(r, code),
             UNCHANGED <<options, due, queue, unannounced, crashes>>
      PROVE  Booked'
  <2>1. /\ \A s \in Served \ {r} : request'[s] = request[s]
        /\ request'[r].awaited => /\ request[r].awaited
                                  /\ request'[r].delivery = request[r].delivery
    BY <1>9, IsAnswered, NoneIsRequest
  <2> QED
    BY <1>3, <1>7, <1>9, <2>1 DEF queue
<1>10. ASSUME NEW r \in Served, NEW pc \in {"selected", "claim", "run"}, Goto(r, pc),
              UNCHANGED <<options, due, queue, unannounced, crashes>>
       PROVE  Booked'
  <2>1. /\ \A s \in Served \ {r} : request'[s] = request[s]
        /\ request'[r].delivery = request[r].delivery /\ request'[r].awaited = request[r].awaited
    BY <1>10, GoesOn
  <2> QED
    BY <1>3, <1>7, <1>10, <2>1 DEF queue
<1>11. ASSUME NEW r \in Served, Select(r) PROVE Booked'
  <2>1. UNCHANGED <<options, due, queue, unannounced, crashes>>
    BY <1>11 DEF Select
  <2>2. Answer(r, 404) \/ Answer(r, 200) \/ Goto(r, "selected")
    BY <1>11 DEF Select
  <2> QED
    BY <1>9, <1>10, <2>1, <2>2 DEF Codes
<1>12. ASSUME NEW r \in Served, Unlock(r) PROVE Booked'
  BY <1>10, <1>12 DEF Unlock
<1>13. ASSUME NEW r \in Served, Claim(r) PROVE Booked'
  <2>1. UNCHANGED <<options, due, queue, unannounced, crashes>>
    BY <1>13 DEF Claim
  <2>2. Answer(r, 200) \/ Goto(r, "run")
    BY <1>13 DEF Claim
  <2> QED
    BY <1>9, <1>10, <2>1, <2>2 DEF Codes
<1>14. ASSUME NEW r \in Served, Finish(r) PROVE Booked'
  <2>1. UNCHANGED <<options, due, queue, unannounced, crashes>>
    BY <1>14 DEF Finish
  <2>2. PICK code \in Codes : Answer(r, code)
    BY <1>14 DEF Finish, Code, Codes
  <2> QED
    BY <1>9, <2>1, <2>2
<1>15. ASSUME NEW r \in Served, GetAnswer(r) PROVE Booked'
  <2>1. UNCHANGED <<options, due, sent, attempts, unannounced, crashes>> /\ Set(r, None)
    BY <1>15 DEF GetAnswer, table
  <2>2. Queued'
    <3>1. CASE UNCHANGED waiting
      BY <1>0, <2>1, <3>1, QueuedUnchanged DEF queue
    <3>2. CASE TryAgain(r)
      BY <1>0, <2>1, <3>2, TriesAgain
    <3> QED
      BY <1>15, <3>1, <3>2 DEF GetAnswer
  <2>3. request'[r] = None /\ \A s \in Served \ {r} : request'[s] = request[s]
    BY <2>1, NoneIsRequest, Moved
  <2> QED
    BY <1>7, <2>1, <2>2, <2>3, NoneIsRequest
<1>16. ASSUME NEW r \in Served, Deadline(r) PROVE Booked'
  <2>1. /\ UNCHANGED <<options, due, sent, attempts, unannounced, crashes>>
        /\ Set(r, NotAwaited(request[r])) /\ TryAgain(r)
    BY <1>16 DEF Deadline, table, NotAwaited
  <2>2. request[r] \in Request
    BY <1>0
  <2>3. ~request'[r].awaited /\ \A s \in Served \ {r} : request'[s] = request[s]
    BY <2>1, <2>2, NotAwaitedFields, Moved
  <2>4. Queued'
    BY <1>0, <2>1, TriesAgain
  <2> QED
    BY <1>7, <2>1, <2>3, <2>4
<1>17. ASSUME NEW r \in Served, Crash(r) PROVE Booked'
  <2>1. /\ UNCHANGED <<options, due, sent, attempts, unannounced>> /\ Set(r, None) /\ TryAgain(r)
        /\ crashes < options.max_crashes /\ crashes' = crashes + 1
    BY <1>17 DEF Crash
  <2>2. \A s \in Served \ {r} : request'[s] = request[s]
    BY <2>1, NoneIsRequest, Moved
  <2>3. request'[r] = None
    BY <2>1, NoneIsRequest, Moved
  <2>4. Queued'
    BY <1>0, <2>1, TriesAgain
  <2>5. CrashesTyped'
    <3>1. options.max_crashes \in Nat /\ crashes \in 0 .. options.max_crashes
      BY PushAssumption DEF Booked, CrashesTyped
    <3> QED
      BY <2>1, <3>1 DEF CrashesTyped
  <2>6. Served' = Served
    BY <2>1 DEF Served
  <2>7. AwaitedAsked'
    BY <1>0, <2>1, <2>2, <2>3, <2>6, NoneIsRequest DEF AwaitedAsked, Asked
  <2> QED
    BY <2>1, <2>4, <2>5, <2>7 DEF Booked, DueTyped, UnannouncedTyped
<1>18. CASE UNCHANGED vars
  BY <1>1, <1>2, <1>3, <1>18 DEF vars, table, queue
<1> QED
  BY <1>4, <1>5, <1>6, <1>8, <1>11, <1>12, <1>13, <1>14, <1>15, <1>16, <1>17, <1>18
     DEF Next, Serve, Quiet

LEMMA BookedIsTyped == Orderly /\ Booked /\ options \in Deployments => TypeOK
<1> SUFFICES ASSUME Orderly, Booked, options \in Deployments PROVE TypeOK
  OBVIOUS
<1>1. waiting \subseteq Deliveries
  BY DEF Booked, Queued, WaitingPending, Pending, Asked
<1>2. /\ sent \in [Tasks -> 0 .. MaxSends] /\ attempts \in [Deliveries -> 0 .. MaxAttempts]
      /\ due \subseteq Tasks /\ unannounced \subseteq Tasks
      /\ crashes \in 0 .. options.max_crashes
  BY DEF Booked, Queued, SentTyped, AttemptsTyped, DueTyped, UnannouncedTyped, CrashesTyped
<1>3. /\ app \in [Tasks -> {"new", "inserted", "notified", "committed", "rolled back"}]
      /\ status \in [Tasks -> Statuses]
      /\ lock \in [Tasks -> Served \cup {NoOne}] /\ request \in [Served -> Request]
  BY DEF Orderly, Shaped
<1>4. \A t \in Tasks, r \in Served :
        lock[t] = r => request[r].pc = "selected" /\ request[r].task = t
  BY DEF Orderly, LocksHeld
<1> QED
  BY <1>1, <1>2, <1>3, <1>4 DEF TypeOK, Statuses

\* The queue is asked for no more than the bound, tries nothing it was not
\* asked for and nothing too often; a row is locked only by the request that
\* has just selected it (run_task_by_id, fetch_task).
THEOREM PushTypeOK == Spec => []TypeOK
<1>1. Init => options \in Deployments
  BY DEF Init
<1>2. Orderly => Shaped
  BY DEF Orderly
<1> QED
  BY <1>1, <1>2, OrderlyInit, OrderlyStep, SameDeployment, BookedInit, BookedStep, BookedIsTyped,
     PTL DEF Spec

-----------------------------------------------------------------------------
(* A queue that waits long enough and has the tasks to itself.             *)

Quietly == ~options.deadlines /\ ~options.batches /\ ~options.calls_may_fail

\* Every request is one of the queue, which waits for its answer.
Tended == \A r \in Served : request[r].pc # "none" =>
  /\ request[r].awaited /\ request[r].delivery \in Deliveries
  /\ request[r].task = request[r].delivery[1]

\* A task is announced by enqueue, and once more for each death.
Orphan(t) == status[t] = "RUNNING" /\ \A r \in Served : ~Running(r, t)
Requeued(t) == IF t \in unannounced THEN 1 ELSE 0
Orphaned(t) == IF Orphan(t) THEN 1 ELSE 0
Enqueued(t) == IF app[t] \in {"new", "inserted"} THEN 0 ELSE 1
Accounted ==
  \A t \in Tasks : sent[t] + Requeued(t) + Orphaned(t) <= crashes + Enqueued(t)

\* The queue has been told of the task, and it has yet to be run: its row is
\* READY or has failed, or may still be committed.
Owed(t) ==
  \/ status[t] \in Allowed /\ app[t] # "inserted"
  \/ status[t] = "NONE" /\ app[t] = "notified"

\* The answer of this request makes the queue try again, or it runs the task.
Tends(r, t) ==
  /\ request[r].task = t /\ request[r].pc \in {"select", "selected", "claim", "answer"}
  /\ request[r].pc = "answer" => request[r].code # 200
  /\ request[r].pc = "claim" => status[t] = "READY"

Cover(t) ==
  \/ \E d \in waiting : d[1] = t
  \/ t \in unannounced
  \/ \E r \in Served : Tends(r, t)
  \/ GivenUp(t)

Covered == \A t \in Tasks : Owed(t) => Cover(t)

LEMMA TendedStep ==
  Quietly /\ Tended /\ Shaped /\ options \in Deployments /\ [Next]_vars => Tended'
<1> SUFFICES ASSUME Quietly, Tended, Shaped, options \in Deployments, [Next]_vars PROVE Tended'
  OBVIOUS
<1>0. /\ request \in [Served -> Request] /\ NoDelivery \notin Deliveries
      /\ UNCHANGED options => Served' = Served
  BY PushAssumption DEF Shaped, Served
<1>1. ASSUME UNCHANGED <<options, request>> PROVE Tended'
  BY <1>1 DEF Tended, Served
<1>2. ASSUME NEW r \in Served, UNCHANGED options, \A s \in Served \ {r} : request'[s] = request[s],
             request'[r].pc # "none" =>
               /\ request'[r].awaited /\ request'[r].delivery \in Deliveries
               /\ request'[r].task = request'[r].delivery[1]
      PROVE  Tended'
  BY <1>0, <1>2 DEF Tended
<1>3. ASSUME NEW r \in Served, UNCHANGED options, Set(r, None) PROVE Tended'
  <2>1. request'[r] = None /\ \A s \in Served \ {r} : request'[s] = request[s]
    BY <1>3, NoneIsRequest, Moved
  <2> QED
    BY <1>2, <1>3, <2>1, NoneIsRequest
<1>4. ASSUME NEW r \in Served, NEW code \in Codes, Answer(r, code), request[r].pc # "none",
             UNCHANGED options
      PROVE  Tended'
  <2>1. /\ \A s \in Served \ {r} : request'[s] = request[s]
        /\ \/ request'[r] = None /\ request[r].delivery = NoDelivery
           \/ /\ request'[r].task = request[r].task
              /\ request'[r].delivery = request[r].delivery
              /\ request'[r].awaited = request[r].awaited
    BY <1>4, IsAnswered
  <2>2. /\ request[r].awaited /\ request[r].delivery \in Deliveries
        /\ request[r].task = request[r].delivery[1]
    BY <1>4 DEF Tended
  <2> QED
    BY <1>0, <1>2, <1>4, <2>1, <2>2
<1>5. ASSUME NEW r \in Served, NEW pc \in {"selected", "claim", "run"}, Goto(r, pc),
             request[r].pc # "none", UNCHANGED options
      PROVE  Tended'
  <2>1. /\ \A s \in Served \ {r} : request'[s] = request[s]
        /\ request'[r].task = request[r].task
        /\ request'[r].delivery = request[r].delivery /\ request'[r].awaited = request[r].awaited
    BY <1>5, GoesOn
  <2>2. /\ request[r].awaited /\ request[r].delivery \in Deliveries
        /\ request[r].task = request[r].delivery[1]
    BY <1>5 DEF Tended
  <2> QED
    BY <1>2, <1>5, <2>1, <2>2
<1>6. ASSUME NEW t \in Tasks,
             \/ Insert(t) \/ Notify(t) \/ EndTransaction(t) \/ BecomeDue(t) \/ Requeue(t)
             \/ Announce(t)
      PROVE  Tended'
  BY <1>1, <1>6 DEF Insert, Notify, EndTransaction, BecomeDue, Requeue, Announce
<1>7. ASSUME NEW r \in Served, NEW d \in Deliveries, Deliver(r, d) PROVE Tended'
  <2> DEFINE x == [pc |-> "select", delivery |-> d, task |-> d[1], code |-> 200, awaited |-> TRUE]
  <2>1. d[1] \in Tasks
    BY DEF Deliveries
  <2>2. x \in Request /\ x.delivery = d /\ x.task = d[1] /\ x.awaited
    BY <2>1 DEF Request
  <2>3. UNCHANGED options /\ Set(r, x)
    BY <1>7 DEF Deliver
  <2> HIDE DEF x
  <2>4. request'[r] = x /\ \A s \in Served \ {r} : request'[s] = request[s]
    BY <2>2, <2>3, Moved
  <2> QED
    BY <1>2, <2>2, <2>3, <2>4
<1>8. ASSUME NEW r \in Served, NEW t \in Tasks, Fetch(r, t) \/ Deadline(r) PROVE FALSE
  BY <1>8 DEF Fetch, Deadline, Quietly
<1>9. ASSUME NEW r \in Served, Select(r) PROVE Tended'
  <2>1. /\ UNCHANGED options /\ request[r].pc # "none"
        /\ Answer(r, 404) \/ Answer(r, 200) \/ Goto(r, "selected")
    BY <1>9 DEF Select
  <2> QED
    BY <1>4, <1>5, <2>1 DEF Codes
<1>10. ASSUME NEW r \in Served, Unlock(r) PROVE Tended'
  BY <1>5, <1>10 DEF Unlock
<1>11. ASSUME NEW r \in Served, Claim(r) PROVE Tended'
  <2>1. UNCHANGED options /\ request[r].pc # "none" /\ (Answer(r, 200) \/ Goto(r, "run"))
    BY <1>11 DEF Claim
  <2> QED
    BY <1>4, <1>5, <2>1 DEF Codes
<1>12. ASSUME NEW r \in Served, Finish(r) PROVE Tended'
  <2>1. UNCHANGED options /\ request[r].pc # "none" /\ \E code \in Codes : Answer(r, code)
    BY <1>12 DEF Finish, Code, Codes
  <2> QED
    BY <1>4, <2>1
<1>13. ASSUME NEW r \in Served, GetAnswer(r) \/ Crash(r) PROVE Tended'
  BY <1>3, <1>13 DEF GetAnswer, Crash
<1>14. CASE UNCHANGED vars
  BY <1>1, <1>14 DEF vars
<1>15. CASE \E r \in Served : \E t \in Tasks : Fetch(r, t)
  BY <1>8, <1>15
<1>16. CASE \E r \in Served : Deadline(r)
  BY <1>16 DEF Deadline, Quietly
<1> QED
  BY <1>6, <1>7, <1>9, <1>10, <1>11, <1>12, <1>13, <1>14, <1>15, <1>16 DEF Next, Serve, Quiet

\* Only a death leaves a RUNNING row without its request.
LEMMA OrphansStay ==
  ASSUME Shaped, NEW r \in Served, NEW t \in Tasks, UNCHANGED options,
         \A s \in Served \ {r} : request'[s] = request[s],
         \/ request[r].pc # "run" /\ UNCHANGED status
         \/ /\ request[r].pc = "run" => request[r].task = t
            /\ \A u \in Tasks \ {t} : status'[u] = status[u]
            /\ status'[t] # "RUNNING" \/ Running(r, t)'
  PROVE  \A u \in Tasks : Orphan(u)' => Orphan(u)
<1>1. Served' = Served
  BY DEF Served
<1> QED
  BY <1>1 DEF Orphan, Running

LEMMA AccountedStep ==
  Accounted /\ Booked /\ Shaped /\ options \in Deployments /\ [Next]_vars => Accounted'
<1> SUFFICES ASSUME Accounted, Booked, Shaped, options \in Deployments, [Next]_vars
             PROVE  Accounted'
  OBVIOUS
<1>0. /\ Queued /\ sent \in [Tasks -> 0 .. MaxSends] /\ crashes \in Int
      /\ app \in [Tasks -> {"new", "inserted", "notified", "committed", "rolled back"}]
      /\ status \in [Tasks -> Statuses]
  <2>1. options.max_crashes \in Nat /\ crashes \in 0 .. options.max_crashes
    BY PushAssumption DEF Booked, CrashesTyped
  <2>2. crashes \in Int
    BY <2>1
  <2> QED
    BY <2>2 DEF Booked, Queued, SentTyped, Shaped
<1>i. crashes \in Int
  BY <1>0
<1>1. ASSUME NEW t \in Tasks
      PROVE  /\ sent[t] \in Int /\ Requeued(t) \in Int /\ Orphaned(t) \in Int
             /\ Enqueued(t) \in Int /\ Requeued(t)' \in Int /\ Orphaned(t)' \in Int
             /\ Enqueued(t)' \in Int
             /\ 0 <= Orphaned(t) /\ Orphaned(t)' <= 1
             /\ 0 <= Requeued(t) /\ Requeued(t)' <= 1
             /\ sent[t] + Requeued(t) + Orphaned(t) <= crashes + Enqueued(t)
  <2>1. sent[t] \in 0 .. MaxSends
    BY DEF Booked, Queued, SentTyped
  <2>2. sent[t] \in Int
    BY <2>1, PushAssumption
  <2>3. sent[t] + Requeued(t) + Orphaned(t) <= crashes + Enqueued(t)
    BY DEF Accounted
  <2> QED
    BY <2>2, <2>3 DEF Requeued, Orphaned, Enqueued
<1>2. ASSUME NEW t \in Tasks, UNCHANGED <<sent, crashes>>,
             t \in unannounced' => t \in unannounced, Orphan(t)' => Orphan(t),
             app'[t] \in {"new", "inserted"} => app[t] \in {"new", "inserted"}
      PROVE  sent'[t] + Requeued(t)' + Orphaned(t)' <= crashes' + Enqueued(t)'
  <2>1. Requeued(t)' <= Requeued(t) /\ Orphaned(t)' <= Orphaned(t) /\ Enqueued(t)' >= Enqueued(t)
    BY <1>2 DEF Requeued, Orphaned, Enqueued
  <2> QED
    BY <1>i, <1>1, <1>2, <2>1
<1>3. ASSUME UNCHANGED <<sent, crashes, unannounced, app>>,
             \A t \in Tasks : Orphan(t)' => Orphan(t)
      PROVE  Accounted'
  BY <1>2, <1>3 DEF Accounted
<1>4. ASSUME NEW t \in Tasks, Insert(t) \/ EndTransaction(t) \/ BecomeDue(t) PROVE Accounted'
  <2>1. UNCHANGED <<sent, crashes, unannounced, options, request>>
    BY <1>4 DEF Insert, EndTransaction, BecomeDue, queue
  <2>2. /\ \A u \in Tasks : app'[u] \in {"new", "inserted"} => app[u] \in {"new", "inserted"}
        /\ \A u \in Tasks : status'[u] = "RUNNING" => status[u] = "RUNNING"
    BY <1>0, <1>4 DEF Insert, EndTransaction, BecomeDue
  <2>3. \A u \in Tasks : Orphan(u)' => Orphan(u)
    BY <2>1, <2>2 DEF Orphan, Running, Served
  <2> QED
    BY <1>2, <2>1, <2>2, <2>3 DEF Accounted
<1>5. ASSUME NEW t \in Tasks, Notify(t) PROVE Accounted'
  <2>1. /\ UNCHANGED <<crashes, unannounced, options, request, status>> /\ Send(t)
        /\ app[t] = "inserted" /\ app' = [app EXCEPT ![t] = "notified"]
    BY <1>5 DEF Notify
  <2>2. \A u \in Tasks : Orphan(u)' => Orphan(u)
    BY <2>1 DEF Orphan, Running, Served
  <2>3. sent'[t] <= sent[t] + 1 /\ \A u \in Tasks \ {t} : sent'[u] = sent[u]
    BY <1>0, <2>1, Sends
  <2>4. sent'[t] \in Int /\ \A u \in Tasks : app'[u] = IF u = t THEN "notified" ELSE app[u]
    <3>1. sent'[t] \in 0 .. MaxSends
      BY <1>0, <2>1, Sends DEF Queued, SentTyped
    <3>2. sent'[t] \in Int
      BY <3>1, PushAssumption
    <3> QED
      BY <1>0, <2>1, <3>2
  <2> SUFFICES ASSUME NEW u \in Tasks
               PROVE  sent'[u] + Requeued(u)' + Orphaned(u)' <= crashes' + Enqueued(u)'
    BY DEF Accounted
  <2>5. Requeued(u)' = Requeued(u) /\ Orphaned(u)' <= Orphaned(u)
    BY <2>1, <2>2 DEF Requeued, Orphaned
  <2>6. CASE u = t
    <3>1. Enqueued(t) = 0 /\ Enqueued(t)' = 1
      BY <2>1, <2>4 DEF Enqueued
    <3> QED
      BY <1>i, <1>1, <2>1, <2>3, <2>4, <2>5, <2>6, <3>1
  <2>7. CASE u # t
    <3>1. Enqueued(u)' = Enqueued(u)
      BY <2>4, <2>7 DEF Enqueued
    <3> QED
      BY <1>i, <1>1, <2>1, <2>3, <2>5, <2>7, <3>1
  <2> QED
    BY <2>6, <2>7
<1>6. ASSUME NEW t \in Tasks, Announce(t) PROVE Accounted'
  <2>1. /\ UNCHANGED <<crashes, app, options, request, status>> /\ Send(t)
        /\ t \in unannounced /\ unannounced' = unannounced \ {t}
    BY <1>6 DEF Announce, table
  <2>2. \A u \in Tasks : Orphan(u)' => Orphan(u)
    BY <2>1 DEF Orphan, Running, Served
  <2>3. sent'[t] <= sent[t] + 1 /\ \A u \in Tasks \ {t} : sent'[u] = sent[u]
    BY <1>0, <2>1, Sends
  <2>4. sent'[t] \in Int
    <3>1. sent'[t] \in 0 .. MaxSends
      BY <1>0, <2>1, Sends DEF Queued, SentTyped
    <3> QED
      BY <3>1, PushAssumption
  <2> SUFFICES ASSUME NEW u \in Tasks
               PROVE  sent'[u] + Requeued(u)' + Orphaned(u)' <= crashes' + Enqueued(u)'
    BY DEF Accounted
  <2>5. Enqueued(u)' = Enqueued(u) /\ Orphaned(u)' <= Orphaned(u)
    BY <2>1, <2>2 DEF Enqueued, Orphaned
  <2>6. CASE u = t
    <3>1. Requeued(t) = 1 /\ Requeued(t)' = 0
      BY <2>1 DEF Requeued
    <3> QED
      BY <1>i, <1>1, <2>1, <2>3, <2>4, <2>5, <2>6, <3>1
  <2>7. CASE u # t
    <3>1. Requeued(u)' = Requeued(u)
      BY <2>1, <2>7 DEF Requeued
    <3> QED
      BY <1>i, <1>1, <2>1, <2>3, <2>5, <2>7, <3>1
  <2> QED
    BY <2>6, <2>7
<1>7. ASSUME NEW t \in Tasks, Requeue(t) PROVE Accounted'
  <2>1. /\ UNCHANGED <<crashes, app, options, request, sent>>
        /\ unannounced' = unannounced \cup {t} /\ status' = [status EXCEPT ![t] = "READY"]
        /\ Orphan(t)
    BY <1>7 DEF Requeue, queue, Orphan
  <2>2. status'[t] = "READY" /\ \A u \in Tasks \ {t} : status'[u] = status[u]
    BY <1>0, <2>1
  <2> SUFFICES ASSUME NEW u \in Tasks
               PROVE  sent'[u] + Requeued(u)' + Orphaned(u)' <= crashes' + Enqueued(u)'
    BY DEF Accounted
  <2>3. CASE u = t
    <3>1. Orphaned(t) = 1 /\ Orphaned(t)' = 0 /\ Enqueued(t)' = Enqueued(t)
      BY <2>1, <2>2 DEF Orphaned, Orphan, Enqueued
    <3> QED
      BY <1>i, <1>1, <2>1, <2>3, <3>1
  <2>4. CASE u # t
    <3>1. Orphan(u)' => Orphan(u)
      BY <2>1, <2>2, <2>4 DEF Orphan, Running, Served
    <3> QED
      BY <1>2, <2>1, <2>4, <3>1
  <2> QED
    BY <2>3, <2>4
<1>8. ASSUME NEW r \in Served, NEW d \in Deliveries, Deliver(r, d) PROVE Accounted'
  <2> DEFINE x == [pc |-> "select", delivery |-> d, task |-> d[1], code |-> 200, awaited |-> TRUE]
  <2>1. d[1] \in Tasks
    BY DEF Deliveries
  <2>2. x \in Request
    BY <2>1 DEF Request
  <2>3. /\ UNCHANGED <<options, app, status, sent, unannounced, crashes>> /\ Set(r, x)
        /\ request[r].pc = "none"
    BY <1>8, NoneIsRequest DEF Deliver, table
  <2> HIDE DEF x
  <2>4. \A s \in Served \ {r} : request'[s] = request[s]
    BY <2>2, <2>3, Moved
  <2>5. \A u \in Tasks : Orphan(u)' => Orphan(u)
    BY <2>1, <2>3, <2>4, OrphansStay
  <2> QED
    BY <1>3, <2>3, <2>5
<1>9. ASSUME NEW r \in Served, NEW t \in Tasks, Fetch(r, t) PROVE Accounted'
  <2> DEFINE x == [None EXCEPT !.pc = "selected", !.task = t]
  <2>1. x \in Request
    BY DEF None, Request
  <2>2. /\ UNCHANGED <<options, app, status, sent, unannounced, crashes>> /\ Set(r, x)
        /\ request[r].pc = "none"
    BY <1>9, NoneIsRequest DEF Fetch, queue
  <2> HIDE DEF x
  <2>3. \A s \in Served \ {r} : request'[s] = request[s]
    BY <2>1, <2>2, Moved
  <2>4. \A u \in Tasks : Orphan(u)' => Orphan(u)
    BY <2>2, <2>3, OrphansStay
  <2> QED
    BY <1>3, <2>2, <2>4
<1>10. ASSUME NEW r \in Served, NEW t \in Tasks,
              UNCHANGED <<options, app, sent, unannounced, crashes>>,
              \A s \in Served \ {r} : request'[s] = request[s],
              \/ request[r].pc # "run" /\ UNCHANGED status
              \/ /\ request[r].pc = "run" => request[r].task = t
                 /\ \A u \in Tasks \ {t} : status'[u] = status[u]
                 /\ status'[t] # "RUNNING" \/ Running(r, t)'
       PROVE  Accounted'
  <2>1. \A u \in Tasks : Orphan(u)' => Orphan(u)
    BY <1>10, OrphansStay
  <2> QED
    BY <1>3, <1>10, <2>1
<1>11. ASSUME NEW r \in Served, Select(r) PROVE Accounted'
  <2>1. /\ UNCHANGED <<options, app, status, sent, unannounced, crashes>>
        /\ request[r].pc = "select" /\ (Answer(r, 404) \/ Answer(r, 200) \/ Goto(r, "selected"))
    BY <1>11 DEF Select, queue
  <2>2. request[r].task \in Tasks
    BY <2>1 DEF Shaped
  <2>3. \A s \in Served \ {r} : request'[s] = request[s]
    BY <2>1, IsAnswered, GoesOn DEF Codes
  <2> QED
    BY <1>10, <2>1, <2>2, <2>3
<1>12. ASSUME NEW r \in Served, Unlock(r) PROVE Accounted'
  <2>0. PICK t \in Tasks : t = request[r].task
    BY <1>12 DEF Unlock, Shaped
  <2>1. /\ UNCHANGED <<options, app, sent, unannounced, crashes>> /\ Goto(r, "claim")
        /\ request[r].pc = "selected" /\ status' = [status EXCEPT ![t] = "READY"]
    BY <1>12, <2>0 DEF Unlock, queue
  <2>2. status'[t] = "READY" /\ \A u \in Tasks \ {t} : status'[u] = status[u]
    BY <1>0, <2>1
  <2>3. \A s \in Served \ {r} : request'[s] = request[s]
    BY <2>1, GoesOn
  <2> QED
    BY <1>10, <2>1, <2>2, <2>3
<1>13. ASSUME NEW r \in Served, Claim(r) PROVE Accounted'
  <2>0. PICK t \in Tasks : t = request[r].task
    BY <1>13 DEF Claim, Shaped
  <2>1. /\ UNCHANGED <<options, app, sent, unannounced, crashes>> /\ request[r].pc = "claim"
        /\ \/ Answer(r, 200) /\ UNCHANGED status
           \/ status' = [status EXCEPT ![t] = "RUNNING"] /\ Goto(r, "run")
    BY <1>13, <2>0 DEF Claim, queue
  <2>2. CASE Answer(r, 200) /\ UNCHANGED status
    <3>1. \A s \in Served \ {r} : request'[s] = request[s]
      BY <2>1, <2>2, IsAnswered DEF Codes
    <3> QED
      BY <1>10, <2>1, <2>2, <3>1
  <2>3. CASE status' = [status EXCEPT ![t] = "RUNNING"] /\ Goto(r, "run")
    <3>1. /\ \A s \in Served \ {r} : request'[s] = request[s]
          /\ request'[r].pc = "run" /\ request'[r].task = t
      BY <2>0, <2>1, <2>3, GoesOn
    <3>2. Running(r, t)' /\ \A u \in Tasks \ {t} : status'[u] = status[u]
      BY <1>0, <2>3, <3>1 DEF Running
    <3> QED
      BY <1>10, <2>1, <3>1, <3>2
  <2> QED
    BY <2>1, <2>2, <2>3
<1>14. ASSUME NEW r \in Served, Finish(r) PROVE Accounted'
  <2>0. PICK t \in Tasks : t = request[r].task
    BY <1>14 DEF Finish, Shaped
  <2>1. UNCHANGED <<options, app, sent, unannounced, crashes>>
    BY <1>14 DEF Finish, queue
  <2>2. PICK outcome \in {"SUCCESSFUL", "FAILED"}, code \in Codes :
          status' = [status EXCEPT ![t] = outcome] /\ Answer(r, code)
    <3>1. PICK outcome \in {"SUCCESSFUL", "FAILED"} :
            status' = [status EXCEPT ![t] = outcome] /\ Answer(r, Code(outcome))
      BY <1>14, <2>0 DEF Finish
    <3>2. PICK code \in Codes : code = Code(outcome)
      BY DEF Code, Codes
    <3> QED
      BY <3>1, <3>2
  <2>3. status'[t] # "RUNNING" /\ \A u \in Tasks \ {t} : status'[u] = status[u]
    BY <1>0, <2>2
  <2>4. \A s \in Served \ {r} : request'[s] = request[s]
    BY <2>1, <2>2, IsAnswered
  <2> QED
    BY <1>10, <2>0, <2>1, <2>3, <2>4
<1>15. ASSUME NEW r \in Served, GetAnswer(r) PROVE Accounted'
  <2>1. /\ UNCHANGED <<options, app, status, sent, unannounced, crashes>>
        /\ request[r].pc = "answer" /\ Set(r, None)
    BY <1>15 DEF GetAnswer, table
  <2>2. \A s \in Served \ {r} : request'[s] = request[s]
    BY <2>1, NoneIsRequest, Moved
  <2>3. \A u \in Tasks : Orphan(u)' => Orphan(u)
    BY <2>1, <2>2, OrphansStay
  <2> QED
    BY <1>3, <2>1, <2>3
<1>16. ASSUME NEW r \in Served, Deadline(r) PROVE Accounted'
  <2>1. /\ UNCHANGED <<options, app, status, sent, unannounced, crashes>>
        /\ Set(r, NotAwaited(request[r]))
    BY <1>16 DEF Deadline, table, NotAwaited
  <2>2. request[r] \in Request
    BY DEF Shaped
  <2>3. /\ request'[r] = NotAwaited(request[r]) /\ \A s \in Served \ {r} : request'[s] = request[s]
        /\ Served' = Served
    BY <2>1, <2>2, NotAwaitedFields, Moved
  <2>4. \A s \in Served : request'[s].pc = request[s].pc /\ request'[s].task = request[s].task
    BY <2>2, <2>3, NotAwaitedFields
  <2>5. \A u \in Tasks : Orphan(u)' => Orphan(u)
    BY <2>1, <2>3, <2>4 DEF Orphan, Running
  <2> QED
    BY <1>3, <2>1, <2>5
<1>17. ASSUME NEW r \in Served, Crash(r) PROVE Accounted'
  <2>1. UNCHANGED <<app, sent, unannounced>> /\ crashes' = crashes + 1
    BY <1>17 DEF Crash
  <2> SUFFICES ASSUME NEW u \in Tasks
               PROVE  sent'[u] + Requeued(u)' + Orphaned(u)' <= crashes' + Enqueued(u)'
    BY DEF Accounted
  <2>2. Requeued(u)' = Requeued(u) /\ Enqueued(u)' = Enqueued(u)
    BY <2>1 DEF Requeued, Enqueued
  <2> QED
    BY <1>i, <1>1, <2>1, <2>2
<1>18. CASE UNCHANGED vars
  <2>1. UNCHANGED <<sent, crashes, unannounced, app, options, request, status>>
    BY <1>18 DEF vars, table, queue
  <2>2. \A t \in Tasks : Orphan(t)' => Orphan(t)
    BY <2>1 DEF Orphan, Running, Served
  <2> QED
    BY <1>3, <2>1, <2>2
<1> QED
  BY <1>4, <1>5, <1>6, <1>7, <1>8, <1>9, <1>11, <1>12, <1>13, <1>14, <1>15, <1>16, <1>17, <1>18
     DEF Next, Serve, Quiet

\* Every death and the first announcement fit in what may be asked for.
LEMMA RoomToSend ==
  ASSUME Accounted, Booked, Shaped, options \in Deployments, options.max_crashes < MaxSends,
         NEW t \in Tasks, app[t] = "inserted" \/ t \in unannounced
  PROVE  sent[t] < MaxSends
<1>1. sent[t] + Requeued(t) + Orphaned(t) <= crashes + Enqueued(t)
  BY DEF Accounted
<1>2. options.max_crashes \in Int /\ MaxSends \in Int
  BY PushAssumption
<1>3. crashes \in Int /\ crashes <= options.max_crashes
  BY <1>2 DEF Booked, CrashesTyped
<1>4. sent[t] \in Int
  <2>1. sent[t] \in 0 .. MaxSends
    BY DEF Booked, Queued, SentTyped
  <2> QED
    BY <1>2, <2>1
<1>5. /\ Requeued(t) \in Int /\ Orphaned(t) \in Int /\ Enqueued(t) \in Int
      /\ 0 <= Requeued(t) /\ 0 <= Orphaned(t) /\ Enqueued(t) <= 1
  BY DEF Requeued, Orphaned, Enqueued
<1>6. Enqueued(t) = 0 \/ Requeued(t) = 1
  BY DEF Enqueued, Requeued
<1> QED
  BY <1>1, <1>2, <1>3, <1>4, <1>5, <1>6

\* What covers a task goes on to do so, unless it was the request that moved.
LEMMA CoverStays ==
  ASSUME NEW u \in Tasks, Cover(u), UNCHANGED <<options, attempts>>, waiting \subseteq waiting',
         u \in unannounced => u \in unannounced',
         \A s \in Served : Tends(s, u) => Cover(u)'
  PROVE  Cover(u)'
BY DEF Cover, GivenUp

\* A request that did not move tends a task as it did.
LEMMA TendsStill ==
  ASSUME NEW u \in Tasks, NEW s \in Served, Tends(s, u), UNCHANGED options,
         request'[s] = request[s], status[u] = "READY" => status'[u] = "READY"
  PROVE  Cover(u)'
<1>1. Tends(s, u)'
  BY DEF Tends
<1> QED
  BY <1>1 DEF Cover, Served

\* Only its status and what enqueue has done decide what is owed to a task.
LEMMA OwedStays ==
  ASSUME NEW u \in Tasks, status'[u] = status[u], app'[u] = app[u]
  PROVE  Owed(u)' <=> Owed(u)
BY DEF Owed, Allowed

\* A row is locked by a request that is about to run it.
LEMMA LockedTended ==
  ASSUME Orderly, NEW u \in Tasks, lock[u] # NoOne
  PROVE  \E s \in Served : request[s].pc = "selected" /\ Tends(s, u)
<1>1. PICK s \in Served : lock[u] = s
  BY DEF Orderly, Shaped
<1>2. request[s].pc = "selected" /\ request[s].task = u
  BY <1>1 DEF Orderly, LocksHeld
<1> QED
  BY <1>2 DEF Tends

LEMMA CoveredStep ==
  ASSUME Quietly, Orderly, Booked, Tended, Accounted, Covered, options \in Deployments,
         options.max_crashes < MaxSends, [Next]_vars
  PROVE  Covered'
<1>0. /\ Shaped /\ Queued /\ AwaitedAsked /\ request \in [Served -> Request]
      /\ status \in [Tasks -> Statuses]
      /\ app \in [Tasks -> {"new", "inserted", "notified", "committed", "rolled back"}]
      /\ (UNCHANGED options => Served' = Served)
  BY DEF Orderly, Booked, Shaped, Served
<1>1. ASSUME NEW u \in Tasks, UNCHANGED <<options, attempts, request>>,
             waiting \subseteq waiting', u \in unannounced => u \in unannounced',
             app'[u] = app[u], status'[u] = status[u], Owed(u)'
      PROVE  Cover(u)'
  <2>1. Cover(u)
    BY <1>1, OwedStays DEF Covered
  <2>2. \A s \in Served : Tends(s, u) => Cover(u)'
    BY <1>1, TendsStill
  <2> QED
    BY <1>1, <2>1, <2>2, CoverStays
<1>2. ASSUME NEW t \in Tasks, Insert(t) PROVE Covered'
  <2>1. /\ UNCHANGED <<options, attempts, request, waiting, unannounced>>
        /\ app' = [app EXCEPT ![t] = "inserted"]
        /\ status' = status \/ status' = [status EXCEPT ![t] = "READY"]
    BY <1>2 DEF Insert, queue
  <2>2. /\ app'[t] = "inserted"
        /\ \A u \in Tasks \ {t} : app'[u] = app[u] /\ status'[u] = status[u]
    BY <1>0, <2>1
  <2>3. ~Owed(t)'
    BY <2>2 DEF Owed
  <2>4. \A u \in Tasks \ {t} : Owed(u)' => Cover(u)'
    BY <1>1, <2>1, <2>2
  <2> QED
    BY <2>3, <2>4 DEF Covered
<1>3. ASSUME NEW t \in Tasks, Notify(t) \/ Announce(t) PROVE Covered'
  <2>1. /\ UNCHANGED <<options, request, status>> /\ Send(t)
        /\ app[t] = "inserted" \/ t \in unannounced
        /\ \A u \in Tasks \ {t} : u \in unannounced => u \in unannounced'
    BY <1>3 DEF Notify, Announce, table
  <2>2. \A u \in Tasks \ {t} : app'[u] = app[u]
    BY <1>0, <1>3 DEF Notify, Announce, table
  <2>3. sent[t] < MaxSends
    BY <1>0, <2>1, RoomToSend
  <2>4. UNCHANGED attempts /\ waiting \subseteq waiting' /\ \E d \in waiting' : d[1] = t
    BY <1>0, <2>1, <2>3, Sends DEF Quietly
  <2>5. Cover(t)'
    BY <2>4 DEF Cover
  <2>6. \A u \in Tasks \ {t} : Owed(u)' => Cover(u)'
    BY <1>1, <2>1, <2>2, <2>4
  <2> QED
    BY <2>5, <2>6 DEF Covered
<1>4. ASSUME NEW t \in Tasks, EndTransaction(t) PROVE Covered'
  <2>1. /\ UNCHANGED <<options, attempts, request, waiting, unannounced>>
        /\ app[t] = "notified" /\ t \in options.in_transaction
        /\ \A u \in Tasks \ {t} : app'[u] = app[u] /\ status'[u] = status[u]
    BY <1>0, <1>4 DEF EndTransaction, queue
  <2>2. status[t] = "NONE"
    BY <2>1 DEF Orderly, NoRowYet
  <2>3. Cover(t)
    BY <2>1, <2>2 DEF Covered, Owed
  <2>4. \A s \in Served : Tends(s, t) => Cover(t)'
    BY <2>1, <2>2, TendsStill
  <2>5. Cover(t)'
    BY <2>1, <2>3, <2>4, CoverStays
  <2>6. \A u \in Tasks \ {t} : Owed(u)' => Cover(u)'
    BY <1>1, <2>1
  <2> QED
    BY <2>5, <2>6 DEF Covered
<1>5. ASSUME NEW t \in Tasks, Requeue(t) PROVE Covered'
  <2>1. /\ UNCHANGED <<options, attempts, request, waiting, app>>
        /\ unannounced' = unannounced \cup {t}
        /\ \A u \in Tasks \ {t} : status'[u] = status[u]
    BY <1>0, <1>5 DEF Requeue, queue
  <2>2. Cover(t)'
    BY <2>1 DEF Cover
  <2>3. \A u \in Tasks \ {t} : Owed(u)' => Cover(u)'
    BY <1>1, <2>1
  <2> QED
    BY <2>2, <2>3 DEF Covered
<1>6. ASSUME UNCHANGED <<options, app, status, queue, request, unannounced>> PROVE Covered'
  BY <1>1, <1>6 DEF Covered, queue
<1>7. ASSUME NEW r \in Served, NEW d \in Deliveries, Deliver(r, d) PROVE Covered'
  <2> DEFINE x == [pc |-> "select", delivery |-> d, task |-> d[1], code |-> 200, awaited |-> TRUE]
  <2>1. d[1] \in Tasks
    BY DEF Deliveries
  <2>2. x \in Request /\ x.pc = "select" /\ x.task = d[1]
    BY <2>1 DEF Request
  <2>3. /\ UNCHANGED <<options, app, status, unannounced>> /\ Set(r, x)
        /\ request[r].pc = "none" /\ waiting' = waiting \ {d}
        /\ attempts' = [attempts EXCEPT ![d] = @ + 1]
    BY <1>7, NoneIsRequest DEF Deliver, table
  <2> HIDE DEF x
  <2>4. /\ request'[r] = x /\ Served' = Served
        /\ \A s \in Served \ {r} : request'[s] = request[s]
    BY <1>0, <2>2, <2>3, Moved
  <2>5. Cover(d[1])'
    <3>1. Tends(r, d[1])'
      BY <2>2, <2>4 DEF Tends
    <3> QED
      BY <2>4, <3>1 DEF Cover
  <2>6. ASSUME NEW u \in Tasks, u # d[1], Owed(u)' PROVE Cover(u)'
    <3>1. Cover(u)
      BY <2>3, <2>6, OwedStays DEF Covered
    <3>2. ASSUME NEW e \in waiting, e[1] = u PROVE Cover(u)'
      BY <2>3, <2>6, <3>2 DEF Cover
    <3>3. ASSUME NEW s \in Served, Tends(s, u) PROVE Cover(u)'
      <4>1. s # r
        BY <2>3, <3>3 DEF Tends
      <4> QED
        BY <2>3, <2>4, <3>3, <4>1, TendsStill
    <3>4. ASSUME GivenUp(u) PROVE Cover(u)'
      <4>1. PICK e \in Deliveries : e[1] = u /\ attempts[e] = MaxAttempts
        BY <3>4 DEF GivenUp
      <4>2. attempts'[e] = attempts[e]
        BY <1>0, <2>3, <2>6, <4>1 DEF Queued, AttemptsTyped
      <4> QED
        BY <4>1, <4>2 DEF Cover, GivenUp
    <3>5. ASSUME u \in unannounced PROVE Cover(u)'
      BY <2>3, <3>5 DEF Cover
    <3> QED
      BY <3>1, <3>2, <3>3, <3>4, <3>5 DEF Cover
  <2> QED
    BY <2>5, <2>6 DEF Covered
<1>8. ASSUME NEW r \in Served, UNCHANGED <<options, app, attempts, unannounced>>,
             waiting \subseteq waiting',
             \A s \in Served \ {r} : request'[s] = request[s],
             \A u \in Tasks : status[u] = "READY" => status'[u] = "READY",
             \A u \in Tasks : Owed(u)' => Owed(u) \/ Cover(u)',
             \A u \in Tasks : Owed(u)' /\ Tends(r, u) => Cover(u)'
      PROVE  Covered'
  <2> SUFFICES ASSUME NEW u \in Tasks, Owed(u)', Owed(u) PROVE Cover(u)'
    BY <1>8 DEF Covered
  <2>1. Cover(u)
    BY DEF Covered
  <2>2. ASSUME NEW s \in Served, Tends(s, u) PROVE Cover(u)'
    <3>1. CASE s = r
      BY <1>8, <2>2, <3>1
    <3>2. CASE s # r
      BY <1>8, <2>2, <3>2, TendsStill
    <3> QED
      BY <3>1, <3>2
  <2> QED
    BY <1>8, <2>1, <2>2, CoverStays
<1>9. ASSUME NEW r \in Served, NEW u \in Tasks, UNCHANGED <<options, attempts, sent>>, TryAgain(r),
             Tends(r, u)
      PROVE  waiting \subseteq waiting' /\ Cover(u)'
  <2>1. request[r].awaited /\ request[r].delivery \in Deliveries /\ request[r].delivery[1] = u
    BY <1>9 DEF Tended, Tends
  <2>2. /\ waiting \subseteq waiting'
        /\ \/ request[r].delivery \in waiting'
           \/ attempts[request[r].delivery] = MaxAttempts
    BY <1>0, <1>9, <2>1, TriesAgain
  <2>3. CASE request[r].delivery \in waiting'
    BY <2>1, <2>2, <2>3 DEF Cover
  <2>4. CASE attempts[request[r].delivery] = MaxAttempts
    <3>1. PICK d \in Deliveries : d[1] = u /\ attempts[d] = MaxAttempts
      BY <2>1, <2>4
    <3>2. GivenUp(u)'
      BY <1>9, <3>1 DEF GivenUp
    <3> QED
      BY <2>2, <3>2 DEF Cover
  <2> QED
    BY <2>2, <2>3, <2>4
<1>10. ASSUME NEW r \in Served, GetAnswer(r) \/ Crash(r) PROVE Covered'
  <2>1. /\ UNCHANGED <<options, app, status, sent, attempts, unannounced>> /\ Set(r, None)
        /\ TryAgain(r) \/ (UNCHANGED waiting /\ request[r].pc = "answer" /\ request[r].code = 200)
    BY <1>10 DEF GetAnswer, Crash, table
  <2>2. \A s \in Served \ {r} : request'[s] = request[s]
    BY <1>0, <2>1, NoneIsRequest, Moved
  <2>3. waiting \subseteq waiting'
    <3>1. CASE TryAgain(r)
      BY <1>0, <2>1, <3>1, TriesAgain
    <3> QED
      BY <2>1, <3>1
  <2>4. \A u \in Tasks : Tends(r, u) => Cover(u)'
    <3> SUFFICES ASSUME NEW u \in Tasks, Tends(r, u) PROVE Cover(u)'
      OBVIOUS
    <3>1. TryAgain(r)
      BY <2>1 DEF Tends
    <3> QED
      BY <1>9, <2>1, <3>1
  <2>5. \A u \in Tasks : Owed(u)' => Owed(u)
    BY <2>1, OwedStays
  <2> QED
    BY <1>8, <2>1, <2>2, <2>3, <2>4, <2>5
<1>11. ASSUME NEW r \in Served, NEW u \in Tasks, UNCHANGED <<options, status>>,
              \A s \in Served \ {r} : request'[s] = request[s],
              request[r].pc # "selected", lock[u] # NoOne
       PROVE  Cover(u)'
  <2>1. PICK s \in Served : request[s].pc = "selected" /\ Tends(s, u)
    BY <1>11, LockedTended
  <2> QED
    BY <1>11, <2>1, TendsStill
<1>12. ASSUME NEW r \in Served, Select(r) PROVE Covered'
  <2>0. PICK t \in Tasks : t = request[r].task
    BY <1>12 DEF Select, Orderly, Shaped
  <2>1. /\ UNCHANGED <<options, app, status, sent, attempts, unannounced, waiting>>
        /\ request[r].pc = "select"
        /\ \/ status[t] = "NONE" /\ Answer(r, 404)
           \/ Goto(r, "selected")
           \/ status[t] # "NONE" /\ (status[t] \notin Allowed \/ lock[t] # NoOne) /\ Answer(r, 200)
    BY <1>12, <2>0 DEF Select, queue
  <2>2. \A u \in Tasks : Owed(u)' <=> Owed(u)
    BY <2>1, OwedStays
  <2>c. PICK found \in Codes, missing \in Codes : found = 200 /\ missing = 404 /\ missing # 200
    BY DEF Codes
  <2>d. Answer(r, missing) \/ Goto(r, "selected") \/ Answer(r, found)
    BY <2>1, <2>c
  <2>3. \A s \in Served \ {r} : request'[s] = request[s]
    BY <1>0, <2>1, <2>d, IsAnswered, GoesOn
  <2>4. request[r].delivery # NoDelivery
    BY <2>1, PushAssumption DEF Tended
  <2>5. Owed(t) => Cover(t)'
    <3>1. CASE status[t] = "NONE" /\ Answer(r, 404)
      <4>0. Answer(r, missing)
        BY <2>c, <3>1
      <4>1. request'[r].pc = "answer" /\ request'[r].code = missing /\ request'[r].task = t
        BY <1>0, <2>0, <2>1, <2>4, <4>0, IsAnswered
      <4>2. Tends(r, t)'
        BY <2>c, <4>1 DEF Tends
      <4> QED
        BY <1>0, <2>1, <4>2 DEF Cover
    <3>2. CASE Goto(r, "selected")
      <4>1. request'[r].pc = "selected" /\ request'[r].task = t
        BY <1>0, <2>0, <2>1, <3>2, GoesOn
      <4>2. Tends(r, t)'
        BY <4>1 DEF Tends
      <4> QED
        BY <1>0, <2>1, <4>2 DEF Cover
    <3>3. CASE status[t] # "NONE" /\ (status[t] \notin Allowed \/ lock[t] # NoOne)
      BY <1>11, <2>1, <2>3, <3>3 DEF Owed
    <3> QED
      BY <2>1, <3>1, <3>2, <3>3
  <2>6. \A u \in Tasks : Tends(r, u) => u = t
    BY <2>0 DEF Tends
  <2> QED
    BY <1>8, <2>1, <2>2, <2>3, <2>5, <2>6
<1>13. ASSUME NEW r \in Served, NEW t \in Tasks, t = request[r].task,
              UNCHANGED <<options, app, queue, unannounced>>,
              \A s \in Served \ {r} : request'[s] = request[s],
              \A u \in Tasks \ {t} : status'[u] = status[u],
              Owed(t)' => Cover(t)'
       PROVE  Covered'
  <2> SUFFICES ASSUME NEW u \in Tasks \ {t}, Owed(u)' PROVE Cover(u)'
    BY <1>13 DEF Covered
  <2>1. Cover(u)
    BY <1>13, OwedStays DEF Covered
  <2>2. ASSUME NEW s \in Served, Tends(s, u) PROVE Cover(u)'
    <3>1. s # r
      BY <1>13, <2>2 DEF Tends
    <3> QED
      BY <1>13, <2>2, <3>1, TendsStill
  <2> QED
    BY <1>13, <2>1, <2>2, CoverStays DEF queue
<1>14. ASSUME NEW r \in Served, Unlock(r) PROVE Covered'
  <2>0. PICK t \in Tasks : t = request[r].task
    BY <1>14 DEF Unlock, Orderly, Shaped
  <2>1. /\ UNCHANGED <<options, app, queue, unannounced>> /\ Goto(r, "claim")
        /\ status' = [status EXCEPT ![t] = "READY"]
    BY <1>14, <2>0 DEF Unlock
  <2>2. status'[t] = "READY" /\ \A u \in Tasks \ {t} : status'[u] = status[u]
    BY <1>0, <2>1
  <2>3. /\ \A s \in Served \ {r} : request'[s] = request[s]
        /\ request'[r].pc = "claim" /\ request'[r].task = t
    BY <1>0, <2>0, <2>1, GoesOn
  <2>4. Tends(r, t)'
    BY <2>2, <2>3 DEF Tends
  <2>5. Cover(t)'
    BY <1>0, <2>1, <2>4 DEF Cover
  <2> QED
    BY <1>13, <2>0, <2>1, <2>2, <2>3, <2>5
<1>15. ASSUME NEW r \in Served, Claim(r) PROVE Covered'
  <2>0. PICK t \in Tasks : t = request[r].task
    BY <1>15 DEF Claim, Orderly, Shaped
  <2>1. /\ UNCHANGED <<options, app, queue, unannounced, lock>> /\ request[r].pc = "claim"
    BY <1>15, <2>0 DEF Claim
  <2>2. CASE status' = [status EXCEPT ![t] = "RUNNING"] /\ Goto(r, "run")
    <3>1. status'[t] = "RUNNING" /\ \A u \in Tasks \ {t} : status'[u] = status[u]
      BY <1>0, <2>2
    <3>2. \A s \in Served \ {r} : request'[s] = request[s]
      BY <1>0, <2>1, <2>2, GoesOn
    <3>3. ~Owed(t)'
      BY <3>1 DEF Owed, Allowed
    <3> QED
      BY <1>13, <2>0, <2>1, <3>1, <3>2, <3>3
  <2>3. CASE /\ status[t] # "READY" \/ lock[t] # NoOne
             /\ Answer(r, 200) /\ UNCHANGED status
    <3>1. \A s \in Served \ {r} : request'[s] = request[s]
      BY <1>0, <2>1, <2>3, IsAnswered DEF Codes
    <3>2. \A u \in Tasks : Owed(u)' <=> Owed(u)
      BY <2>1, <2>3, OwedStays
    <3>3. ASSUME NEW u \in Tasks, Tends(r, u) PROVE Cover(u)'
      <4>1. u = t /\ lock[t] # NoOne
        BY <2>0, <2>1, <2>3, <3>3 DEF Tends
      <4> QED
        BY <1>11, <2>1, <2>3, <3>1, <4>1
    <3> QED
      BY <1>8, <2>1, <2>3, <3>1, <3>2, <3>3 DEF queue
  <2> QED
    BY <1>15, <2>0, <2>2, <2>3 DEF Claim, Claimable
<1>16. ASSUME NEW r \in Served, Finish(r) PROVE Covered'
  <2>0. PICK t \in Tasks : t = request[r].task
    BY <1>16 DEF Finish, Orderly, Shaped
  <2>1. UNCHANGED <<options, app, queue, unannounced>> /\ request[r].pc = "run"
    BY <1>16 DEF Finish
  <2>2. PICK outcome \in {"SUCCESSFUL", "FAILED"} :
          status' = [status EXCEPT ![t] = outcome] /\ Answer(r, Code(outcome))
    BY <1>16, <2>0 DEF Finish
  <2>3. PICK code \in Codes : code = Code(outcome) /\ (outcome = "FAILED" => code # 200)
    BY DEF Code, Codes
  <2>4. status'[t] = outcome /\ \A u \in Tasks \ {t} : status'[u] = status[u]
    BY <1>0, <2>2
  <2>5. request[r].delivery # NoDelivery
    BY <2>1, PushAssumption DEF Tended
  <2>6. /\ \A s \in Served \ {r} : request'[s] = request[s]
        /\ request'[r].pc = "answer" /\ request'[r].code = code /\ request'[r].task = t
    BY <1>0, <2>0, <2>1, <2>2, <2>3, <2>5, IsAnswered
  <2>7. Owed(t)' => Cover(t)'
    <3>1. CASE outcome = "SUCCESSFUL"
      BY <2>4, <3>1 DEF Owed, Allowed
    <3>2. CASE outcome = "FAILED"
      <4>1. Tends(r, t)'
        BY <2>3, <2>6, <3>2 DEF Tends
      <4> QED
        BY <1>0, <2>1, <4>1 DEF Cover
    <3> QED
      BY <3>1, <3>2
  <2> QED
    BY <1>13, <2>0, <2>1, <2>4, <2>6, <2>7
<1>17. ASSUME NEW t \in Tasks, BecomeDue(t) PROVE Covered'
  BY <1>6, <1>17 DEF BecomeDue
<1>18. CASE \E r \in Served : Deadline(r) \/ \E t \in Tasks : Fetch(r, t)
  BY <1>18 DEF Deadline, Fetch, Quietly
<1>19. CASE UNCHANGED vars
  BY <1>6, <1>19 DEF vars, table
<1> QED
  BY <1>2, <1>3, <1>4, <1>5, <1>7, <1>10, <1>12, <1>14, <1>15, <1>16, <1>17, <1>18, <1>19
     DEF Next, Serve, Quiet

\* In such a deployment nothing that is READY or has failed is forgotten.
Delivered == Quietly => Tended /\ Accounted /\ Covered

LEMMA DeliveredInit == Init => Delivered
<1> SUFFICES ASSUME Init PROVE Tended /\ Accounted /\ Covered
  BY DEF Delivered
<1>1. \A r \in Served : request[r].pc = "none"
  BY NoneIsRequest DEF Init
<1>2. Tended
  BY <1>1 DEF Tended
<1>3. Accounted
  <2> SUFFICES ASSUME NEW t \in Tasks
               PROVE  sent[t] + Requeued(t) + Orphaned(t) <= crashes + Enqueued(t)
    BY DEF Accounted
  <2>1. sent[t] = 0 /\ crashes = 0 /\ Requeued(t) = 0 /\ Orphaned(t) = 0 /\ Enqueued(t) = 0
    BY DEF Init, Requeued, Orphaned, Orphan, Enqueued
  <2> QED
    BY <2>1
<1>4. Covered
  BY DEF Init, Covered, Owed, Allowed
<1> QED
  BY <1>2, <1>3, <1>4

LEMMA CoveredIsDelivered == Orderly /\ Delivered => StillDelivered
<1> SUFFICES ASSUME Quietly, Tended, Covered, NEW t \in Tasks,
                    status[t] \in Allowed, app[t] # "inserted"
             PROVE  \/ \E d \in waiting : d[1] = t
                    \/ t \in unannounced
                    \/ \E r \in Served : /\ request[r].task = t /\ request[r].awaited
                                         /\ request[r].pc = "answer" => request[r].code # 200
                    \/ GivenUp(t)
  BY DEF StillDelivered, Delivered, Quietly, Allowed
<1>1. Cover(t)
  BY DEF Covered, Owed
<1>2. ASSUME NEW r \in Served, Tends(r, t)
      PROVE  /\ request[r].task = t /\ request[r].awaited
             /\ request[r].pc = "answer" => request[r].code # 200
  BY <1>2 DEF Tends, Tended
<1> QED
  BY <1>1, <1>2 DEF Cover

\* "Cloud Tasks handles retry with the task ID": whatever servers die, however
\* messages and rows overtake each other, a task that is to be run has a
\* delivery that waits, one that is about to be asked for, or a request whose
\* answer makes the queue try again, until it has used its attempts up
\* (CloudTasksBroker.notify, ExecuteTaskView).  The bound has to let every
\* death be followed by a new delivery.
THEOREM AlwaysStillDelivered ==
  ASSUME \A d \in Deployments :
           ~d.deadlines /\ ~d.batches /\ ~d.calls_may_fail => d.max_crashes < MaxSends
  PROVE  Spec => []StillDelivered
<1>1. Init => options \in Deployments
  BY DEF Init
<1>2. Orderly => Shaped
  BY DEF Orderly
<1>3. Orderly /\ Booked /\ Delivered /\ options \in Deployments /\ [Next]_vars => Delivered'
  <2> SUFFICES ASSUME Orderly, Booked, Delivered, options \in Deployments, [Next]_vars, Quietly'
               PROVE  (Tended /\ Accounted /\ Covered)'
    BY DEF Delivered
  <2>1. Quietly
    BY DEF Quietly, Next, vars, Serve, Quiet, Insert, Notify, EndTransaction, BecomeDue, Requeue,
           Announce, Deliver, Fetch, Select, Unlock, Claim, Finish, GetAnswer, Deadline, Crash
  <2>2. Tended /\ Accounted /\ Covered /\ Shaped /\ options.max_crashes < MaxSends
    BY <1>2, <2>1 DEF Delivered, Quietly
  <2> QED
    BY <2>1, <2>2, TendedStep, AccountedStep, CoveredStep
<1> QED
  BY <1>1, <1>2, <1>3, OrderlyInit, OrderlyStep, SameDeployment, BookedInit, BookedStep,
     DeliveredInit, CoveredIsDelivered, PTL DEF Spec

=============================================================================
