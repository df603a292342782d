-------------------------- MODULE PostgresDelivery --------------------------
(***************************************************************************)
(* Workers that are woken by LISTEN/NOTIFY: BrokerWorkers with             *)
(* PostgresNotifyBroker.  A notification is delivered when the transaction *)
(* of enqueue() commits, to every connection that listens at that moment;  *)
(* there it waits to be read.  It is never repeated and not acknowledged.  *)
(* PostgreSQL itself is outside the repository.                            *)
(***************************************************************************)
EXTENDS BrokerWorkers

VARIABLES
  listening,  \* workers whose listening connection is open
  heard       \* notifications that wait on each of these connections

channel == <<listening, heard>>
vars == <<options, table, sent, worker, unannounced, bounds, channel>>

Init ==
  /\ WorkersInit
  /\ listening = {}
  /\ heard = [w \in Workers |-> {}]

-----------------------------------------------------------------------------

Broadcast(m) ==
  heard' = [w \in Workers |-> IF w \in listening THEN heard[w] \cup {m} ELSE heard[w]]

\* notify.  What is sent in a transaction is not delivered before it ends; a
\* task deferred to a later time is not announced at all.
PendingMutant(t) == FALSE
Pending(t) == t \in options.in_transaction

Send(t, pending) ==
  /\ UNCHANGED listening
  /\ IF sent[t] = MaxSends \/ t \notin due
     THEN UNCHANGED <<sent, heard>>
     ELSE /\ sent' = [sent EXCEPT ![t] = @ + 1]
          /\ IF pending THEN UNCHANGED heard ELSE Broadcast(<<t, sent'[t]>>)

Notify(t) == Notified(t) /\ Send(t, Pending(t))

\* pg_notify fails, which is swallowed; the transaction around enqueue(), if
\* any, cannot be committed any more.
NotifyFails(t) ==
  /\ app[t] = "inserted" /\ options.calls_may_fail
  /\ app' = [app EXCEPT ![t] = IF t \in options.in_transaction THEN "rolled back" ELSE "notified"]
  /\ UNCHANGED <<options, status, due, lock, sent, worker, unannounced, bounds, channel>>

EndTransaction(t) ==
  /\ Commit(t)
  /\ UNCHANGED listening
  /\ IF sent[t] > 0 /\ Pending(t) THEN Broadcast(<<t, sent[t]>>) ELSE UNCHANGED heard

Announce(t) == Announced(t) /\ Send(t, FALSE)

-----------------------------------------------------------------------------

\* receive opens the connection it does not have, and then reads or waits.
\* MayListen is where the loop may open it.
MayListenMutant(w) == worker[w].round = "wait"
MayListen(w) == worker[w].round \in {"poll", "wait"}

Listen(w) ==
  /\ w \notin listening
  /\ worker[w].pc = "loop" /\ MayListen(w)
  /\ listening' = listening \cup {w}
  /\ UNCHANGED <<options, table, sent, worker, unannounced, bounds, heard>>

\* An answer that is empty is a poll, or a wait that has timed out.
Receive(w, M) ==
  /\ MayListen(w) => w \in listening
  /\ M \subseteq heard[w]
  /\ heard' = [heard EXCEPT ![w] = @ \ M]
  /\ Received(w, M)
  /\ UNCHANGED <<faults, listening>>

HangupMutant(w) == listening' = listening \ {w} /\ UNCHANGED heard
Hangup(w) ==
  /\ listening' = listening \ {w}
  /\ heard' = [heard EXCEPT ![w] = {}]

\* An error of receive closes the connection; the loop takes it for an empty
\* answer.
ReceiveFails(w) ==
  /\ faults < options.max_faults
  /\ faults' = faults + 1
  /\ Received(w, {})
  /\ Hangup(w)

\* ack and nack do nothing.
Ack(w) == Answered(w, "ack") /\ UNCHANGED channel
Nack(w) == Answered(w, "nack") /\ UNCHANGED channel

Die(w) == Crash(w) /\ Hangup(w)

-----------------------------------------------------------------------------

Next ==
  \/ (TableStep \/ \E w \in Workers : WorkerStep(w) \/ RunFails(w)) /\ UNCHANGED channel
  \/ \E t \in Tasks : Notify(t) \/ NotifyFails(t) \/ EndTransaction(t) \/ Announce(t)
  \/ \E w \in Workers : \/ Listen(w) \/ ReceiveFails(w) \/ Ack(w) \/ Nack(w) \/ Die(w)
                        \/ \E M \in SUBSET heard[w] : Receive(w, M)

Spec == Init /\ [][Next]_vars

\* As in BrokerDelivery.  Nothing is said of when a notification is read.
Fairness ==
  /\ \A t \in Tasks : /\ WF_vars(Notify(t) \/ NotifyFails(t)) /\ WF_vars(Announce(t))
                      /\ WF_vars(EndTransaction(t) \/ (Rollback(t) /\ UNCHANGED channel))
                      /\ WF_vars(BecomeDue(t) /\ UNCHANGED channel)
                      /\ WF_vars(Requeue(t) /\ UNCHANGED channel)
  /\ \A w \in Processes :
       /\ WF_vars(/\ w \in Workers
                  /\ \/ WorkerStep(w) /\ UNCHANGED channel
                     \/ Ack(w) \/ Nack(w) \/ Listen(w)
                     \/ \E M \in SUBSET heard[w] : Receive(w, M))
       /\ SF_vars(w \in Workers /\ \E t \in Tasks : Sweep(w, t) /\ UNCHANGED channel)
       /\ SF_vars(/\ w \in Workers /\ worker[w].pc = "claim"
                  /\ Selectable(worker[w].task) /\ Claim(w) /\ UNCHANGED channel)

FairSpec == Spec /\ Fairness

-----------------------------------------------------------------------------

\* Every variable has its type, and only a connection that is open has
\* something to read.
TypeOK ==
  /\ WorkersTypeOK
  /\ listening \subseteq Workers
  /\ heard \in [Workers -> SUBSET Messages]
  /\ \A w \in Workers : heard[w] # {} => w \in listening

\* "A worker never hears about a task it cannot yet see, and never hears
\* about one whose transaction was rolled back" (notify).
HearsOfWhatIsThere ==
  \A w \in Workers : \A m \in heard[w] \cup worker[w].hand : status[m[1]] # "NONE"

\* No worker sleeps on a task that is READY: the connection is opened before
\* the table is swept, so that whoever then waits on it has seen the task or
\* hears of it, unless another is at it, or something has failed
\* (_process_tasks, receive).
NoLostWakeup ==
  faults = 0 /\ crashes = 0 /\ ~options.calls_may_fail =>
    \A w \in listening, t \in Tasks \ options.far :
      /\ worker[w].pc = "loop" /\ worker[w].round = "wait"
      /\ status[t] = "READY" /\ app[t] # "inserted"
      => \/ Handled(t) \/ t \in unannounced
         \/ \E v \in Workers, m \in Messages : m[1] = t /\ m \in heard[v] \cup worker[v].hand

\* A notification comes neither too early, for a task nobody can see, nor so
\* late that a worker sleeps on a task it could have seen.
HearsInTime == HearsOfWhatIsThere /\ NoLostWakeup

=============================================================================
