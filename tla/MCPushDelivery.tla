--------------------------- MODULE MCPushDelivery ---------------------------
(* Instances of PushDelivery for TLC.                                      *)
EXTENDS PushDelivery, TLC

CONSTANTS t1, t2, r1, r2

\* The queue alone, with servers that die and recovery.
Alone ==
  [requests |-> {r1, r2}, in_transaction |-> {t1}, far |-> {t2}, batches |-> FALSE,
   deadlines |-> FALSE, calls_may_fail |-> FALSE, recovery |-> TRUE, max_crashes |-> 1]

\* Deliveries are late, repeated or not made, and a cron job is at work.
Shared ==
  [Alone EXCEPT !.in_transaction = {}, !.batches = TRUE, !.deadlines = TRUE,
                !.calls_may_fail = TRUE, !.recovery = FALSE, !.max_crashes = 0]

\* All of it at once with one request at a time.
Single ==
  [Shared EXCEPT !.requests = {r1}, !.in_transaction = {t1}, !.recovery = TRUE,
                 !.max_crashes = 1]

Usual == {Alone, Shared, Single}
=============================================================================
