--------------------------- MODULE BrokerDelivery ---------------------------
(***************************************************************************)
(* Workers that are fed by a queue of messages as well as by the table:    *)
(* BrokerWorkers with the SQS broker.                                      *)
(*                                                                         *)
(* The queue is a service outside the repository.  It is modelled from     *)
(* what the broker asks of it: a received message is hidden until it is    *)
(* deleted, made visible again, or its visibility timeout runs out.        *)
(***************************************************************************)
EXTENDS BrokerWorkers

VARIABLES
  queue,     \* messages that are not deleted
  visible    \* of these, the ones a receive may return

broker == <<queue, visible>>
vars == <<options, table, sent, worker, unannounced, bounds, broker>>

Init == WorkersInit /\ queue = {} /\ visible = {}

-----------------------------------------------------------------------------

\* A task deferred too far is not sent; a failure to send is swallowed.
Send(t) ==
  IF sent[t] = MaxSends \/ t \notin due
  THEN UNCHANGED <<sent, broker>>
  ELSE \/ /\ sent' = [sent EXCEPT ![t] = @ + 1]
          /\ queue' = queue \cup {<<t, sent'[t]>>}
          /\ visible' = visible \cup {<<t, sent'[t]>>}
       \/ options.calls_may_fail /\ UNCHANGED <<sent, broker>>

Notify(t) == Notified(t) /\ Send(t)
Announce(t) == Announced(t) /\ Send(t)

\* The transaction around enqueue() ends, after the queue was told.
EndTransaction(t) == Commit(t) /\ UNCHANGED broker

\* An empty answer, or an error that is swallowed, is M = {}.
Receive(w, M) ==
  /\ M \subseteq visible
  /\ visible' = visible \ M
  /\ Received(w, M)
  /\ UNCHANGED <<faults, queue>>

\* The visibility timeout of a message that was received runs out.
Reappear(m) ==
  /\ m \in queue \ visible
  /\ options.short_visibility \/
       \A w \in Workers : m \notin worker[w].hand \cup {worker[w].current}
  /\ visible' = visible \cup {m}
  /\ UNCHANGED <<options, table, sent, queue, worker, unannounced, bounds>>

\* Either call to the queue may fail, which is swallowed.
Ack(w) ==
  /\ Answered(w, "ack")
  /\ \E gone \in {{}, {worker[w].current}} :
       /\ (gone = {} => options.calls_may_fail)
       /\ queue' = queue \ gone
       /\ visible' = visible \ gone

NackMutant(w) ==
  /\ Answered(w, "nack")
  /\ visible' = visible \cup {worker[w].current}
  /\ UNCHANGED queue
Nack(w) ==
  /\ Answered(w, "nack")
  /\ \/ visible' = visible \cup ({worker[w].current} \cap queue)
     \/ options.calls_may_fail /\ UNCHANGED visible
  /\ UNCHANGED queue

-----------------------------------------------------------------------------

Next ==
  \/ (TableStep \/ \E w \in Workers : WorkerStep(w) \/ RunFails(w) \/ Crash(w))
       /\ UNCHANGED broker
  \/ \E t \in Tasks : Notify(t) \/ Announce(t) \/ EndTransaction(t)
  \/ \E m \in Messages : Reappear(m)
  \/ \E w \in Workers : \/ \E M \in SUBSET visible : Receive(w, M)
                        \/ Ack(w) \/ Nack(w)

Spec == Init /\ [][Next]_vars

\* The application goes on with what it began, a worker with what it has in
\* hand; the queue does not answer "empty" for ever when it is not.
Fairness ==
  /\ \A t \in Tasks : /\ WF_vars(Notify(t)) /\ WF_vars(Announce(t))
                      /\ WF_vars(EndTransaction(t) \/ (Rollback(t) /\ UNCHANGED broker))
                      /\ WF_vars(BecomeDue(t) /\ UNCHANGED broker)
                      /\ WF_vars(Requeue(t) /\ UNCHANGED broker)
  /\ \A m \in Messages : WF_vars(Reappear(m))
  /\ \A w \in Processes :
       /\ WF_vars(/\ w \in Workers
                  /\ (WorkerStep(w) /\ UNCHANGED broker) \/ Ack(w) \/ Nack(w))
       /\ WF_vars(w \in Workers /\ \E M \in SUBSET visible : Receive(w, M))
       /\ SF_vars(w \in Workers /\ \E M \in SUBSET visible : M # {} /\ Receive(w, M))
       /\ SF_vars(w \in Workers /\ \E t \in Tasks : Sweep(w, t) /\ UNCHANGED broker)
       /\ SF_vars(/\ w \in Workers /\ worker[w].pc = "claim"
                  /\ Selectable(worker[w].task) /\ Claim(w) /\ UNCHANGED broker)

FairSpec == Spec /\ Fairness

-----------------------------------------------------------------------------

\* Every variable has its type, and the queue shows what it holds.
TypeOK == WorkersTypeOK /\ queue \subseteq Messages /\ visible \subseteq queue

\* Without the sweep a task that is READY has only its messages: one is in
\* the queue, or a worker that opened one is about to claim the task.  An
\* acknowledgement must not take the last of them away (_run_broker_message).
\* Where workers die or meet errors, it needs messages that come back only when
\* nobody has them, and a recovery that does not send them again.
ReadyIsCovered ==
  ~options.sweeps =>
    \A t \in Tasks : status[t] = "READY" /\ app[t] \in {"notified", "committed"} =>
      (\E m \in queue : m[1] = t) \/ Handled(t) \/ t \in unannounced

=============================================================================
