---------------------------- MODULE MCSupervisor ----------------------------
(* Instances of Supervisor for TLC.                                        *)
EXTENDS Supervisor, TLC

CONSTANTS p1, p2, p3

Continuous ==
  [workers |-> 2, restart |-> TRUE, graceful |-> TRUE, timeout |-> FALSE,
   tasks_end |-> TRUE, exit_codes |-> {"ok", "crash"}, spawn_may_fail |-> FALSE,
   max_scale |-> 0, max_signals |-> 1]

\* Two workers that are stopped or crash; one that hangs, and a second
\* signal; one that is scaled up or down and restarted; and workers that are
\* run once, scaled, not to be started, or ended by the timeout.
Usual ==
  {Continuous,
   [Continuous EXCEPT !.workers = 1, !.tasks_end = FALSE, !.max_signals = 2],
   [Continuous EXCEPT !.workers = 1, !.max_scale = 1],
   [Continuous EXCEPT !.workers = 1, !.restart = FALSE, !.timeout = TRUE,
                      !.exit_codes = {"ok", "empty", "failed", "crash"},
                      !.spawn_may_fail = TRUE, !.max_scale = 2]}
=============================================================================
