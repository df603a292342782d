-------------------------- MODULE MCBrokerDelivery --------------------------
(* Instances of BrokerDelivery for TLC.                                    *)
EXTENDS BrokerDelivery, TLC

CONSTANTS t1, t2, w1, w2

Both ==
  [workers |-> {w1}, sweeps |-> TRUE, in_transaction |-> {t1}, far |-> {t2},
   calls_may_fail |-> TRUE, short_visibility |-> TRUE, recovery |-> TRUE,
   max_faults |-> 0, max_crashes |-> 0]

MessagesAlone ==
  [workers |-> {w1, w2}, sweeps |-> FALSE, in_transaction |-> {}, far |-> {},
   calls_may_fail |-> FALSE, short_visibility |-> TRUE, recovery |-> FALSE,
   max_faults |-> 0, max_crashes |-> 0]

\* With the table polled too and recovery, a worker that dies or meets an
\* error; two workers that have nothing but the messages, which come back
\* during the processing; and two whose messages do not, but which meet an
\* error, with recovery.
Dependable ==
  {[Both EXCEPT !.max_crashes = 1], [Both EXCEPT !.max_faults = 1],
   MessagesAlone,
   [MessagesAlone EXCEPT !.short_visibility = FALSE, !.recovery = TRUE, !.max_faults = 1]}
=============================================================================
