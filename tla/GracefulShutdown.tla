-------------------------- MODULE GracefulShutdown --------------------------
(***************************************************************************)
(* The signal handling of a worker: the first signal asks it to stop after *)
(* the task that runs, a second one or a timeout ends it at once.          *)
(*                                                                         *)
(* Python runs the handlers in the main thread, between two of its steps,  *)
(* on top of whatever that thread was doing; that may be the handler of    *)
(* another signal.  A signal that arrives twice before its handler has     *)
(* begun is delivered once.  The handlers are there inside the context     *)
(* manager only: before and after it, a signal ends the process.  An       *)
(* operator whose name ends in Mutant is a plausible slip in the code the  *)
(* operator after it models; no definition uses it.                        *)
(***************************************************************************)
EXTENDS Integers, Sequences, FiniteSets

CONSTANTS
  Signals,     \* the signals handled
  Overlaps,    \* the values of overlap that are looked at
  MaxSignals,  \* bound: signals sent
  MaxTasks     \* bound: tasks there are to run

ASSUME ShutdownAssumption ==
  /\ Overlaps \subseteq BOOLEAN
  /\ {MaxSignals, MaxTasks} \subseteq Nat

VARIABLES
  force_on_repeat, timeout,   \* the options; timeout: is it positive?
  overlap,        \* may a signal be delivered while a handler runs?
  main,           \* what the main thread does below its handlers
  installed,      \* signals whose handler is installed
  frames,         \* the handlers that have begun, the one that runs last
  locked,         \* _lock
  request_count, event,
  timers,         \* timers started and not cancelled
  tripped,        \* signals that have arrived, their handlers yet to run
  sent, delivered, tasks

options == <<force_on_repeat, timeout, overlap>>
state == <<locked, request_count, event>>
counts == <<sent, delivered, tasks>>
vars == <<options, main, installed, frames, state, timers, tripped, counts>>

Over == main \in {"left", "exited", "killed"}
Top == frames[Len(frames)]
Step(pc) == frames' = [frames EXCEPT ![Len(frames)].pc = pc]
Runs(pc) == ~Over /\ frames # <<>> /\ Top.pc = pc

Init ==
  /\ force_on_repeat \in BOOLEAN /\ timeout \in BOOLEAN /\ overlap \in Overlaps
  /\ main = "entering" /\ installed = {}
  /\ frames = <<>> /\ locked = FALSE
  /\ request_count = 0 /\ event = FALSE
  /\ timers = 0 /\ tripped = {}
  /\ sent = 0 /\ delivered = 0 /\ tasks = 0

-----------------------------------------------------------------------------
(* The context, and the worker's loop inside it as far as it matters: a    *)
(* task that runs may never end.  signal.signal() runs the handlers that   *)
(* are due before it changes one.                                          *)

\* __enter__: not every handler need be installed, and none is but from the
\* main thread.
Install(s) ==
  /\ main = "entering" /\ frames = <<>> /\ tripped = {}
  /\ s \notin installed
  /\ installed' = installed \cup {s}
  /\ UNCHANGED <<options, main, frames, state, timers, tripped, counts>>

Entered ==
  /\ main = "entering" /\ frames = <<>>
  /\ main' = "between"
  /\ UNCHANGED <<options, installed, frames, state, timers, tripped, counts>>

Loop ==
  /\ main = "between" /\ frames = <<>>
  /\ \/ main' = "leaving" /\ UNCHANGED tasks
     \/ ~event /\ tasks < MaxTasks /\ main' = "task" /\ tasks' = tasks + 1
  /\ UNCHANGED <<options, installed, frames, state, timers, tripped, sent, delivered>>

\* __exit__: the handlers are restored, and then the timer is cancelled.
Restore(s) ==
  /\ main \in {"leaving", "cancelled"} /\ frames = <<>> /\ tripped = {}
  /\ s \in installed
  /\ installed' = installed \ {s}
  /\ UNCHANGED <<options, main, frames, state, timers, tripped, counts>>

MayCancelMutant == TRUE
MayCancel == installed = {}

Cancel ==
  /\ main = "leaving" /\ frames = <<>> /\ MayCancel
  /\ main' = "cancelled"
  /\ timers' = 0
  /\ UNCHANGED <<options, installed, frames, state, tripped, counts>>

Leave ==
  /\ main = "cancelled" /\ frames = <<>> /\ installed = {}
  /\ main' = "left"
  /\ UNCHANGED <<options, installed, frames, state, timers, tripped, counts>>

TaskEnds ==
  /\ main = "task" /\ frames = <<>>
  /\ main' = "between"
  /\ UNCHANGED <<options, installed, frames, state, timers, tripped, counts>>

-----------------------------------------------------------------------------
(* Signals, and the handler: set(), then what it does with the count.      *)

\* Without a handler the process ends.
Arrive(s) ==
  /\ ~Over /\ sent < MaxSignals
  /\ sent' = sent + 1
  /\ IF s \in installed THEN tripped' = tripped \cup {s} /\ UNCHANGED main
     ELSE main' = "killed" /\ UNCHANGED tripped
  /\ UNCHANGED <<options, installed, frames, state, timers, delivered, tasks>>

Deliver(s) ==
  /\ ~Over /\ s \in tripped
  /\ overlap \/ frames = <<>>
  /\ tripped' = tripped \ {s}
  /\ delivered' = delivered + 1
  /\ frames' = Append(frames, [pc |-> "acquire", count |-> 0, first |-> FALSE])
  /\ UNCHANGED <<options, main, installed, state, timers, sent, tasks>>

\* The lock is not one that its holder can take again.
CanAcquireMutant == TRUE
CanAcquire == ~locked

AcquireLock ==
  /\ Runs("acquire") /\ CanAcquire
  /\ locked' = TRUE
  /\ Step("count")
  /\ UNCHANGED <<options, main, installed, request_count, event, timers, tripped, counts>>

IsFirstMutant == event
IsFirst == ~event

Count ==
  /\ Runs("count")
  /\ request_count' = request_count + 1
  /\ frames' = [frames EXCEPT ![Len(frames)] =
                  [pc |-> "set", count |-> request_count + 1, first |-> IsFirst]]
  /\ UNCHANGED <<options, main, installed, locked, event, timers, tripped, counts>>

SetEvent ==
  /\ Runs("set")
  /\ event' = TRUE
  /\ locked' = FALSE
  /\ Step("timer")
  /\ UNCHANGED <<options, main, installed, request_count, timers, tripped, counts>>

StartTimer ==
  /\ Runs("timer")
  /\ timers' = IF Top.first /\ timeout THEN timers + 1 ELSE timers
  /\ Step("decide")
  /\ UNCHANGED <<options, main, installed, state, tripped, counts>>

\* force_exit, or back to what was interrupted.
RepeatedMutant == Top.count > 2
Repeated == Top.count > 1

Decide ==
  /\ Runs("decide")
  /\ IF Repeated /\ force_on_repeat
     THEN main' = "exited" /\ UNCHANGED frames
     ELSE frames' = SubSeq(frames, 1, Len(frames) - 1) /\ UNCHANGED main
  /\ UNCHANGED <<options, installed, state, timers, tripped, counts>>

\* _on_timeout, in a thread of its own.
Fire ==
  /\ ~Over /\ timers > 0
  /\ main' = "exited"
  /\ timers' = timers - 1
  /\ UNCHANGED <<options, installed, frames, state, tripped, counts>>

-----------------------------------------------------------------------------

Handler == AcquireLock \/ Count \/ SetEvent \/ StartTimer \/ Decide

\* The worker is over, or waits for a task or a signal.
Idle == (Over \/ (frames = <<>> /\ tripped = {})) /\ UNCHANGED vars

Next ==
  \/ Entered \/ Loop \/ TaskEnds \/ Cancel \/ Leave \/ Handler \/ Fire \/ Idle
  \/ \E s \in Signals : Install(s) \/ Restore(s) \/ Arrive(s) \/ Deliver(s)

Spec == Init /\ [][Next]_vars

\* The main thread runs and the timer goes off; a task need not end.
FairSpec ==
  /\ Spec /\ WF_vars(Entered) /\ WF_vars(Loop) /\ WF_vars(Handler) /\ WF_vars(Fire)
  /\ WF_vars(Cancel) /\ WF_vars(Leave)
  /\ \A s \in Signals : WF_vars(Deliver(s)) /\ WF_vars(Restore(s))

-----------------------------------------------------------------------------

\* Every variable has its type.
TypeOK ==
  /\ {force_on_repeat, timeout, overlap, locked, event} \subseteq BOOLEAN
  /\ main \in {"entering", "between", "task", "leaving", "cancelled",
              "left", "exited", "killed"}
  /\ installed \subseteq Signals
  /\ frames \in Seq([pc: {"acquire", "count", "set", "timer", "decide"},
                     count: Nat, first: BOOLEAN])
  /\ request_count \in Nat /\ timers \in 0 .. 1
  /\ tripped \subseteq Signals
  /\ sent \in 0 .. MaxSignals /\ delivered \in Nat /\ tasks \in 0 .. MaxTasks

\* The grace period is counted once, from the first request, also when a
\* signal interrupts the handler of another (set, _start_timer).
OneTimer ==
  /\ timers + Cardinality({i \in DOMAIN frames :
       timeout /\ frames[i].first /\ frames[i].pc \in {"set", "timer"}}) <= 1
  /\ event /\ timeout /\ ~Over /\ main # "cancelled" =>
       timers = 1 \/ \E i \in DOMAIN frames : frames[i].first

\* "Leaving the context cancels the pending forced exit", also when a signal
\* comes while the handlers are restored: no timer outlives the context and
\* ends whatever the process does next (uninstall).
LeftInPeace == main = "left" => timers = 0 /\ installed = {} /\ frames = <<>>

\* "A second signal exits the process immediately instead of waiting for the
\* current task", whatever the task does (_handle_signal).
SecondSignalExits == delivered >= 2 /\ force_on_repeat ~> Over

\* The same of signals that come one after the other, each handled before
\* the next is delivered; nor does the process outlive the timeout then,
\* whatever the task does (_handle_signal, _on_timeout).
SpacedSignalExits == ~overlap /\ delivered >= 2 /\ force_on_repeat ~> Over
TimeoutExits == ~overlap /\ delivered >= 1 /\ timeout ~> Over

EndsWhenTold == SpacedSignalExits /\ TimeoutExits

=============================================================================
