------------------------- MODULE MCPostgresDelivery -------------------------
(* Instances of PostgresDelivery for TLC.                                  *)
EXTENDS PostgresDelivery, TLC

CONSTANTS t1, t2, w1, w2

Pair ==
  [workers |-> {w1, w2}, sweeps |-> TRUE, in_transaction |-> {t1}, far |-> {t2},
   calls_may_fail |-> FALSE, short_visibility |-> FALSE, recovery |-> FALSE,
   max_faults |-> 0, max_crashes |-> 0]

\* Two workers that nothing happens to, with a task enqueued in a transaction
\* and one deferred; and one worker with all that can go wrong.
Usual ==
  {Pair,
   [Pair EXCEPT !.workers = {w1}, !.calls_may_fail = TRUE, !.recovery = TRUE,
                !.max_faults = 1, !.max_crashes = 2]}
=============================================================================
