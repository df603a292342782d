---------------------------- MODULE MCWorkerLoop ----------------------------
(* Instances of WorkerLoop for TLC.                                        *)
EXTENDS WorkerLoop, TLC

CONSTANTS e1, e2

Threaded ==
  [threads |-> {e1, e2}, sqlite |-> FALSE, source |-> "auto", pull_broker |-> TRUE,
   max_messages |-> 2, wait_time |-> TRUE, continuous |-> TRUE,
   max_tasks |-> 2, max_tasks_jitter |-> 0,
   fails |-> TRUE, raises |-> FALSE, exits |-> FALSE, purged |-> FALSE,
   max_arrivals |-> 3]

Inlined == [Threaded EXCEPT !.threads = {}, !.exits = TRUE, !.max_arrivals = 4]

\* Executors fed from both sources up to a limit; the same when everything
\* may raise; one run over the table without a limit; tasks run inline, from
\* both sources and from the broker alone; and what is refused.
Usual ==
  {Threaded,
   [Threaded EXCEPT !.raises = TRUE, !.exits = TRUE],
   [Threaded EXCEPT !.source = "db", !.continuous = FALSE, !.max_tasks = 0,
                    !.max_arrivals = 4],
   Inlined,
   [Inlined EXCEPT !.exits = FALSE, !.purged = TRUE],
   [Threaded EXCEPT !.source = "broker", !.purged = TRUE],
   [Inlined EXCEPT !.source = "broker", !.raises = TRUE, !.max_tasks_jitter = 1,
                   !.max_arrivals = 3],
   [Inlined EXCEPT !.pull_broker = FALSE, !.continuous = FALSE, !.exits = FALSE],
   [Inlined EXCEPT !.pull_broker = FALSE, !.source = "both"],
   [Threaded EXCEPT !.sqlite = TRUE],
   [Threaded EXCEPT !.max_messages = 0], [Threaded EXCEPT !.max_tasks_jitter = -1]}
=============================================================================
