----------------------- MODULE GracefulShutdownProofs -----------------------
(***************************************************************************)
(* Proofs about GracefulShutdown: the timer of the forced exit is started  *)
(* once and does not outlive the context, for any signals and options.     *)
(***************************************************************************)
EXTENDS GracefulShutdown, FiniteSetTheorems, TLAPS

Frame == [pc: {"acquire", "count", "set", "timer", "decide"}, count: Nat, first: BOOLEAN]
Begun == [pc |-> "acquire", count |-> 0, first |-> FALSE]
At(x, pc) == [x EXCEPT !.pc = pc]

Typed ==
  /\ frames \in Seq(Frame) /\ timers \in Nat /\ request_count \in Nat
  /\ timeout \in BOOLEAN /\ event \in BOOLEAN

\* A signal is pending only while it has a handler; once the timer has been
\* cancelled there are no handlers left, neither installed nor begun.
Leaving ==
  /\ tripped \subseteq installed
  /\ main \in {"cancelled", "left"} => installed = {} /\ frames = <<>> /\ timers = 0

\* At most one handler is between the acquisition and the release.
OneHolder ==
  /\ \A i \in DOMAIN frames : frames[i].pc \in {"count", "set"} => locked
  /\ \A i, j \in DOMAIN frames :
       frames[i].pc \in {"count", "set"} /\ frames[j].pc \in {"count", "set"} => i = j

\* What a handler has read is true until it acts on it.
Fits(f) ==
  /\ f.pc \in {"acquire", "count"} => ~f.first
  /\ f.pc = "set" => (f.first <=> ~event)
  /\ f.pc \in {"timer", "decide"} => event
  /\ f.first /\ timeout /\ f.pc \in {"set", "timer"} => timers = 0
  /\ f.first /\ timeout /\ f.pc = "decide" /\ ~Over => timers = 1

HandlersFit == \A i \in DOMAIN frames : Fits(frames[i])

OneFirst ==
  \A i, j \in DOMAIN frames : frames[i].first /\ frames[j].first => i = j

Timed ==
  /\ timers <= 1
  /\ timers > 0 => event /\ timeout
  /\ event /\ timeout /\ ~Over /\ main # "cancelled" =>
       timers = 1 \/ \E i \in DOMAIN frames : frames[i].first

Orderly == Typed /\ Leaving /\ OneHolder /\ HandlersFit /\ OneFirst /\ Timed

LEMMA AtFields ==
  ASSUME NEW x \in Frame, NEW pc \in {"acquire", "count", "set", "timer", "decide"}
  PROVE  At(x, pc) \in Frame /\ At(x, pc).pc = pc /\ At(x, pc).first = x.first
<1>1. At(x, pc) \in Frame /\ At(x, pc).pc = pc
  BY DEF Frame, At
<1>2. At(x, pc).first = x.first
  BY DEF Frame, At
<1> QED
  BY <1>1, <1>2

\* The handler that runs has gone on, those below it are where they were.
LEMMA TopMoved ==
  ASSUME Typed, NEW pc \in {"acquire", "count", "set", "timer", "decide"}, frames # <<>>, Step(pc)
  PROVE  /\ frames' \in Seq(Frame) /\ Len(frames') = Len(frames)
         /\ Len(frames) \in DOMAIN frames /\ DOMAIN frames' = DOMAIN frames
         /\ Top \in Frame
         /\ frames'[Len(frames)].pc = pc
         /\ frames'[Len(frames)].first = Top.first
         /\ \A i \in DOMAIN frames : i # Len(frames) => frames'[i] = frames[i]
<1>1. frames \in Seq(Frame) /\ Len(frames) \in DOMAIN frames
  BY DEF Typed
<1>2. Top \in Frame
  BY <1>1 DEF Top
<1>3. frames' = [frames EXCEPT ![Len(frames)] = At(Top, pc)]
  BY DEF Step, At, Top
<1>4. At(Top, pc) \in Frame /\ At(Top, pc).pc = pc /\ At(Top, pc).first = Top.first
  BY <1>2, AtFields
<1> QED
  BY <1>1, <1>2, <1>3, <1>4

LEMMA OrderlyInit == Init => Orderly
<1> SUFFICES ASSUME Init PROVE Orderly
  OBVIOUS
<1>1. Typed
  <2>1. frames \in Seq(Frame) /\ timers \in Nat /\ request_count \in Nat
    BY DEF Init
  <2>2. timeout \in BOOLEAN /\ event \in BOOLEAN
    BY Zenon DEF Init
  <2> QED
    BY <2>1, <2>2 DEF Typed
<1>2. Leaving /\ OneHolder /\ HandlersFit /\ OneFirst
  BY DEF Init, Leaving, OneHolder, HandlersFit, OneFirst
<1>3. Timed
  BY DEF Init, Timed
<1> QED
  BY <1>1, <1>2, <1>3 DEF Orderly

\* Steps of the main thread, while no handler runs.
LEMMA MainMoves ==
  ASSUME Orderly, frames = <<>>, UNCHANGED <<options, frames, state>>,
         \/ main' = main \/ main' \notin {"cancelled", "left"}
         \/ main' \in {"cancelled", "left"} /\ installed' = {} /\ timers' = 0,
         main' \notin {"cancelled", "left", "exited", "killed"} =>
           main \notin {"cancelled", "left", "exited", "killed"},
         UNCHANGED timers \/ (timers' = 0 /\ main' = "cancelled"),
         tripped' \subseteq installed', main' = main => installed' \subseteq installed \/ main = "entering"
  PROVE  Orderly'
<1>1. Typed'
  BY DEF Orderly, Typed, options, state
<1>2. Leaving'
  BY DEF Orderly, Leaving
<1>3. OneHolder' /\ HandlersFit' /\ OneFirst'
  BY DEF OneHolder, HandlersFit, OneFirst
<1>4. Timed'
  BY DEF Orderly, Timed, Over, options, state
<1> QED
  BY <1>1, <1>2, <1>3, <1>4 DEF Orderly

LEMMA OrderlyStep == Orderly /\ [Next]_vars => Orderly'
<1> SUFFICES ASSUME Orderly, [Next]_vars PROVE Orderly'
  OBVIOUS
<1>0. /\ frames \in Seq(Frame) /\ timers \in Nat /\ timeout \in BOOLEAN /\ event \in BOOLEAN
      /\ Typed /\ request_count \in Nat /\ tripped \subseteq installed
  BY DEF Orderly, Typed, Leaving
<1>1. CASE Entered \/ Loop \/ TaskEnds \/ Cancel \/ Leave
  <2>1. frames = <<>> /\ UNCHANGED <<options, installed, frames, state, tripped>>
    BY <1>1 DEF Entered, Loop, TaskEnds, Cancel, Leave
  <2>2. UNCHANGED timers \/ (timers' = 0 /\ main' = "cancelled")
    BY <1>1 DEF Entered, Loop, TaskEnds, Cancel, Leave
  <2>3. \/ main' = main \/ main' \notin {"cancelled", "left"}
        \/ main' \in {"cancelled", "left"} /\ installed' = {} /\ timers' = 0
    BY <1>1 DEF Entered, Loop, TaskEnds, Cancel, Leave, MayCancel, Orderly, Leaving
  <2>4. main' \notin {"cancelled", "left", "exited", "killed"} =>
          main \notin {"cancelled", "left", "exited", "killed"}
    BY <1>1 DEF Entered, Loop, TaskEnds, Cancel, Leave
  <2> QED
    BY <1>0, <2>1, <2>2, <2>3, <2>4, MainMoves
<1>2. ASSUME NEW s \in Signals, Install(s) \/ Restore(s) PROVE Orderly'
  <2>1. /\ frames = <<>> /\ tripped' = {} /\ UNCHANGED <<options, main, frames, state, timers>>
        /\ installed' \subseteq installed \/ main = "entering"
    BY <1>2 DEF Install, Restore
  <2> QED
    BY <2>1, MainMoves
<1>3. ASSUME NEW s \in Signals, Arrive(s) PROVE Orderly'
  <2>1. UNCHANGED <<options, installed, frames, state, timers>> /\ tripped' \subseteq installed'
    BY <1>0, <1>3 DEF Arrive
  <2>2. main' = main \/ main' = "killed"
    BY <1>3 DEF Arrive
  <2>3. Typed' /\ OneHolder' /\ OneFirst'
    BY <2>1 DEF Orderly, Typed, OneHolder, OneFirst, options, state
  <2>4. Leaving'
    BY <2>1, <2>2 DEF Orderly, Leaving
  <2>5. HandlersFit'
    BY <2>1, <2>2 DEF Orderly, HandlersFit, Fits, Over, options, state
  <2>6. Timed'
    BY <2>1, <2>2 DEF Orderly, Timed, Over, options, state
  <2> QED
    BY <2>3, <2>4, <2>5, <2>6 DEF Orderly
<1>4. ASSUME NEW s \in Signals, Deliver(s) PROVE Orderly'
  <2>1. /\ UNCHANGED <<options, main, installed, state, timers>> /\ tripped' = tripped \ {s}
        /\ s \in installed /\ frames' = Append(frames, Begun)
    BY <1>0, <1>4 DEF Deliver, Begun
  <2>2. Begun \in Frame /\ Begun.pc = "acquire" /\ ~Begun.first
    BY DEF Begun, Frame
  <2> HIDE DEF Begun
  <2>3. /\ frames' \in Seq(Frame) /\ Len(frames') = Len(frames) + 1 /\ frames'[Len(frames) + 1] = Begun
        /\ DOMAIN frames' = DOMAIN frames \cup {Len(frames) + 1}
        /\ \A i \in DOMAIN frames : frames'[i] = frames[i]
    BY <1>0, <2>1, <2>2
  <2>4. Typed'
    BY <1>0, <2>1, <2>3 DEF Typed, options, state
  <2>5. Leaving'
    BY <1>0, <2>1 DEF Orderly, Leaving
  <2>6. OneHolder' /\ OneFirst'
    BY <2>1, <2>2, <2>3 DEF Orderly, OneHolder, OneFirst, state
  <2>7. HandlersFit'
    BY <2>1, <2>2, <2>3 DEF Orderly, HandlersFit, Fits, Over, options, state
  <2>8. Timed'
    BY <2>1, <2>3 DEF Orderly, Timed, Over, options, state
  <2> QED
    BY <2>4, <2>5, <2>6, <2>7, <2>8 DEF Orderly
\* The handler: nothing is left of the context that it could disturb.
<1>5. ASSUME frames # <<>>, UNCHANGED <<installed, tripped, main>> PROVE Leaving'
  BY <1>5 DEF Orderly, Leaving
<1>6. CASE AcquireLock
  <2>1. /\ frames # <<>> /\ Top.pc = "acquire" /\ ~locked /\ locked' /\ Step("count")
        /\ UNCHANGED <<options, main, installed, request_count, event, timers, tripped>>
    BY <1>6 DEF AcquireLock, Runs, CanAcquire
  <2>2. /\ frames' \in Seq(Frame) /\ Len(frames) \in DOMAIN frames /\ DOMAIN frames' = DOMAIN frames
        /\ frames'[Len(frames)].pc = "count" /\ frames'[Len(frames)].first = Top.first
        /\ \A i \in DOMAIN frames : i # Len(frames) => frames'[i] = frames[i]
    BY <1>0, <2>1, TopMoved
  <2>3. Typed'
    BY <1>0, <2>1, <2>2 DEF Typed, options
  <2>4. OneHolder'
    BY <2>1, <2>2 DEF Orderly, OneHolder
  <2>5. ~Top.first
    BY <2>1, <2>2 DEF Orderly, HandlersFit, Fits, Top
  <2>6. HandlersFit'
    BY <2>1, <2>2, <2>5 DEF Orderly, HandlersFit, Fits, Over, options
  <2>7. OneFirst'
    BY <2>2, <2>5 DEF Orderly, OneFirst
  <2>8. Timed'
    BY <2>1, <2>2, <2>5 DEF Orderly, Timed, Over, options, Top
  <2> QED
    BY <1>5, <2>1, <2>3, <2>4, <2>6, <2>7, <2>8 DEF Orderly
<1>7. CASE Count
  <2> DEFINE x == [pc |-> "set", count |-> request_count + 1, first |-> IsFirst]
  <2>1. /\ frames # <<>> /\ Top.pc = "count" /\ frames' = [frames EXCEPT ![Len(frames)] = x]
        /\ request_count' = request_count + 1
        /\ UNCHANGED <<options, main, installed, locked, event, timers, tripped>>
    BY <1>7 DEF Count, Runs
  <2>2. x \in Frame /\ x.pc = "set" /\ (x.first <=> ~event)
    <3>1. IsFirst \in BOOLEAN
      BY DEF IsFirst
    <3>2. x \in Frame
      BY <1>0, <3>1 DEF Frame
    <3>3. x.first = IsFirst
      OBVIOUS
    <3> QED
      BY <3>2, <3>3 DEF IsFirst
  <2> HIDE DEF x
  <2>3. /\ frames' \in Seq(Frame) /\ Len(frames) \in DOMAIN frames /\ DOMAIN frames' = DOMAIN frames
        /\ frames'[Len(frames)] = x
        /\ \A i \in DOMAIN frames : i # Len(frames) => frames'[i] = frames[i]
    BY <1>0, <2>1, <2>2
  <2>4. Typed'
    BY <1>0, <2>1, <2>3 DEF Typed, options
  <2>5. OneHolder'
    BY <2>1, <2>2, <2>3 DEF Orderly, OneHolder, Top
  <2>6. \A i \in DOMAIN frames : i # Len(frames) => frames[i].pc # "set"
    BY <2>1, <2>3 DEF Orderly, OneHolder, Top
  <2>7. ~event => timers = 0
    BY <1>0 DEF Orderly, Timed
  <2>8. HandlersFit'
    BY <2>1, <2>2, <2>3, <2>7 DEF Orderly, HandlersFit, Fits, Over, options
  <2>9. ~event => \A i \in DOMAIN frames : i # Len(frames) => ~frames[i].first
    <3> SUFFICES ASSUME ~event, NEW i \in DOMAIN frames, i # Len(frames) PROVE ~frames[i].first
      OBVIOUS
    <3>1. frames[i].pc \in {"acquire", "count"}
      <4>1. frames[i].pc \in {"acquire", "count", "set", "timer", "decide"}
        <5>1. frames[i] \in Frame
          BY <1>0
        <5> QED
          BY <5>1 DEF Frame
      <4> QED
        BY <2>6, <4>1 DEF Orderly, HandlersFit, Fits
    <3> QED
      BY <3>1 DEF Orderly, HandlersFit, Fits
  <2>10. OneFirst'
    BY <2>2, <2>3, <2>9 DEF Orderly, OneFirst
  <2>11. ~Top.first
    BY <2>1, <2>3 DEF Orderly, HandlersFit, Fits, Top
  <2>12. Timed'
    BY <2>1, <2>2, <2>3, <2>11 DEF Orderly, Timed, Over, options, Top
  <2> QED
    BY <1>5, <2>1, <2>4, <2>5, <2>8, <2>10, <2>12 DEF Orderly
<1>8. CASE SetEvent
  <2>1. /\ frames # <<>> /\ Top.pc = "set" /\ event' = TRUE /\ Step("timer")
        /\ UNCHANGED <<options, main, installed, request_count, timers, tripped>>
    BY <1>8 DEF SetEvent, Runs
  <2>2. /\ frames' \in Seq(Frame) /\ Len(frames) \in DOMAIN frames /\ DOMAIN frames' = DOMAIN frames
        /\ frames'[Len(frames)].pc = "timer" /\ frames'[Len(frames)].first = Top.first
        /\ \A i \in DOMAIN frames : i # Len(frames) => frames'[i] = frames[i]
    BY <1>0, <2>1, TopMoved
  <2>3. Typed'
    BY <1>0, <2>1, <2>2 DEF Typed, options
  <2>4. \A i \in DOMAIN frames : i # Len(frames) => frames[i].pc \notin {"count", "set"}
    BY <2>1, <2>2 DEF Orderly, OneHolder, Top
  <2>5. OneHolder'
    BY <2>2, <2>4 DEF OneHolder
  <2>6. Fits(Top)
    BY <2>2 DEF Orderly, HandlersFit, Top
  <2>7. HandlersFit'
    BY <2>1, <2>2, <2>4, <2>6 DEF Orderly, HandlersFit, Fits, Over, options
  <2>8. \A i \in DOMAIN frames : frames'[i].first = frames[i].first
    BY <2>2 DEF Top
  <2>9. OneFirst'
    BY <2>2, <2>8 DEF Orderly, OneFirst
  <2>10. Timed'
    BY <2>1, <2>2, <2>6, <2>8 DEF Orderly, Timed, Fits, Over, options
  <2> QED
    BY <1>5, <2>1, <2>3, <2>5, <2>7, <2>9, <2>10 DEF Orderly
<1>9. CASE StartTimer
  <2>1. /\ frames # <<>> /\ Top.pc = "timer" /\ Step("decide")
        /\ timers' = IF Top.first /\ timeout THEN timers + 1 ELSE timers
        /\ UNCHANGED <<options, main, installed, state, tripped>>
    BY <1>9 DEF StartTimer, Runs
  <2>2. /\ frames' \in Seq(Frame) /\ Len(frames) \in DOMAIN frames /\ DOMAIN frames' = DOMAIN frames
        /\ frames'[Len(frames)].pc = "decide" /\ frames'[Len(frames)].first = Top.first
        /\ \A i \in DOMAIN frames : i # Len(frames) => frames'[i] = frames[i]
    BY <1>0, <2>1, TopMoved
  <2>3. Typed'
    BY <1>0, <2>1, <2>2 DEF Typed, options, state
  <2>4. OneHolder'
    BY <2>1, <2>2 DEF Orderly, OneHolder, state
  <2>5. Fits(Top)
    BY <2>2 DEF Orderly, HandlersFit, Top
  <2>6. \A i \in DOMAIN frames : frames'[i].first = frames[i].first
    BY <2>2 DEF Top
  <2>7. OneFirst'
    BY <2>2, <2>6 DEF Orderly, OneFirst
  <2>8. Top.first => \A i \in DOMAIN frames : i # Len(frames) => ~frames[i].first
    BY <2>2 DEF Orderly, OneFirst, Top
  <2>9. Top.first /\ timeout => timers' = 1
    BY <1>0, <2>1, <2>5 DEF Fits
  <2>10. HandlersFit'
    BY <2>1, <2>2, <2>5, <2>8, <2>9 DEF Orderly, HandlersFit, Fits, Over, options, state
  <2>11. Timed'
    BY <1>0, <2>1, <2>2, <2>5, <2>6, <2>9 DEF Orderly, Timed, Fits, Over, options, state
  <2> QED
    BY <1>5, <2>1, <2>3, <2>4, <2>7, <2>10, <2>11 DEF Orderly
<1>10. CASE Decide
  <2>1. /\ frames # <<>> /\ Top.pc = "decide"
        /\ UNCHANGED <<options, installed, state, timers, tripped>>
    BY <1>10 DEF Decide, Runs
  <2>2. CASE main' = "exited" /\ UNCHANGED frames
    <3>1. Typed' /\ OneHolder' /\ OneFirst' /\ Leaving'
      BY <1>0, <2>1, <2>2 DEF Orderly, Typed, OneHolder, OneFirst, Leaving, options, state
    <3>2. HandlersFit' /\ Timed'
      BY <2>1, <2>2 DEF Orderly, HandlersFit, Fits, Timed, Over, options, state
    <3> QED
      BY <3>1, <3>2 DEF Orderly
  <2>3. CASE frames' = SubSeq(frames, 1, Len(frames) - 1) /\ UNCHANGED main
    <3>1. /\ frames' \in Seq(Frame) /\ Len(frames) \in DOMAIN frames
          /\ DOMAIN frames' = DOMAIN frames \ {Len(frames)}
          /\ \A i \in DOMAIN frames' : frames'[i] = frames[i]
      BY <1>0, <2>1, <2>3
    <3>2. Typed'
      BY <1>0, <2>1, <3>1 DEF Typed, options, state
    <3>3. OneHolder' /\ OneFirst'
      BY <2>1, <3>1 DEF Orderly, OneHolder, OneFirst, state
    <3>4. HandlersFit'
      BY <2>1, <2>3, <3>1 DEF Orderly, HandlersFit, Fits, Over, options, state
    <3>5. Fits(Top)
      BY <3>1 DEF Orderly, HandlersFit, Top
    <3>6. Timed'
      BY <2>1, <2>3, <3>1, <3>5 DEF Orderly, Timed, Fits, Over, options, state, Top
    <3> QED
      BY <1>5, <2>1, <2>3, <3>2, <3>3, <3>4, <3>6 DEF Orderly
  <2> QED
    BY <1>10, <2>2, <2>3 DEF Decide
<1>11. CASE Fire
  <2>1. /\ timers > 0 /\ timers' = timers - 1 /\ main' = "exited"
        /\ UNCHANGED <<options, installed, frames, state, tripped>>
    BY <1>11 DEF Fire
  <2>2. Typed' /\ OneHolder' /\ OneFirst' /\ Leaving'
    BY <1>0, <2>1 DEF Orderly, Typed, OneHolder, OneFirst, Leaving, options, state
  <2>3. HandlersFit'
    BY <1>0, <2>1 DEF Orderly, HandlersFit, Fits, Over, options, state
  <2>4. Timed'
    BY <1>0, <2>1 DEF Orderly, Timed, Over, options, state
  <2> QED
    BY <2>2, <2>3, <2>4 DEF Orderly
<1>12. CASE UNCHANGED vars
  BY <1>12 DEF vars, options, state, counts, Orderly, Typed, Leaving, OneHolder, HandlersFit, Fits,
               OneFirst, Timed, Over
<1> QED
  BY <1>1, <1>2, <1>3, <1>4, <1>6, <1>7, <1>8, <1>9, <1>10, <1>11, <1>12 DEF Next, Handler, Idle

LEMMA OrderlyIsEnough == Orderly => OneTimer /\ LeftInPeace
<1> SUFFICES ASSUME Orderly PROVE OneTimer /\ LeftInPeace
  OBVIOUS
<1>1. LeftInPeace
  BY DEF Orderly, Leaving, LeftInPeace
<1> DEFINE W == {i \in DOMAIN frames : timeout /\ frames[i].first /\ frames[i].pc \in {"set", "timer"}}
<1>2. timers + Cardinality(W) <= 1
  <2>1. CASE W = {}
    <3>1. timers <= 1
      BY DEF Orderly, Timed
    <3>2. Cardinality(W) = 0
      BY <2>1, FS_EmptySet
    <3> QED
      BY <3>1, <3>2 DEF Orderly, Typed
  <2>2. CASE W # {}
    <3>1. PICK i \in W : TRUE
      BY <2>2
    <3>2. W = {i}
      BY <3>1 DEF Orderly, OneFirst
    <3>3. timers = 0
      BY <3>1 DEF Orderly, HandlersFit, Fits
    <3>4. Cardinality(W) = 1
      BY <3>2, FS_Singleton
    <3> QED
      BY <3>3, <3>4
  <2> QED
    BY <2>1, <2>2
<1>3. OneTimer
  BY <1>2 DEF Orderly, Timed, OneTimer
<1> QED
  BY <1>1, <1>3

\* The grace period is counted once, from the first request, also when a
\* signal interrupts the handler of another (set, _start_timer).
THEOREM TimerStartsOnce == Spec => []OneTimer
BY OrderlyInit, OrderlyStep, OrderlyIsEnough, PTL DEF Spec

\* No forced exit outlives the context, whatever signals come while it is
\* left (uninstall).
THEOREM LeavesInPeace == Spec => []LeftInPeace
BY OrderlyInit, OrderlyStep, OrderlyIsEnough, PTL DEF Spec

-----------------------------------------------------------------------------
(* The rest of the types.                                                  *)

Places == {"entering", "between", "task", "leaving", "cancelled", "left", "exited", "killed"}

OptionsTyped == {force_on_repeat, timeout, overlap} \subseteq BOOLEAN
LockTyped == locked \in BOOLEAN
PlacesTyped == main \in Places /\ installed \subseteq Signals /\ tripped \subseteq Signals
CountsTyped == sent \in 0 .. MaxSignals /\ delivered \in Nat /\ tasks \in 0 .. MaxTasks
RestTyped == OptionsTyped /\ LockTyped /\ PlacesTyped /\ CountsTyped

LEMMA RestInit == Init => RestTyped
<1> SUFFICES ASSUME Init PROVE RestTyped
  OBVIOUS
<1>1. OptionsTyped
  BY ShutdownAssumption, Zenon DEF Init, OptionsTyped
<1>2. LockTyped
  BY Zenon DEF Init, LockTyped
<1>3. PlacesTyped
  BY DEF Init, PlacesTyped, Places
<1>4. CountsTyped
  BY ShutdownAssumption DEF Init, CountsTyped
<1> QED
  BY <1>1, <1>2, <1>3, <1>4 DEF RestTyped

LEMMA RestStep == RestTyped /\ [Next]_vars => RestTyped'
<1> SUFFICES ASSUME RestTyped, [Next]_vars PROVE RestTyped'
  OBVIOUS
<1>0. /\ main \in Places /\ installed \subseteq Signals /\ tripped \subseteq Signals
      /\ sent \in 0 .. MaxSignals /\ delivered \in Nat /\ tasks \in 0 .. MaxTasks
      /\ MaxSignals \in Nat /\ MaxTasks \in Nat
  BY ShutdownAssumption DEF RestTyped, PlacesTyped, CountsTyped
<1>1. ASSUME UNCHANGED options PROVE OptionsTyped'
  BY <1>1, Zenon DEF RestTyped, OptionsTyped, options
<1>2. ASSUME UNCHANGED locked \/ locked' = TRUE \/ locked' = FALSE PROVE LockTyped'
  BY <1>2, Zenon DEF RestTyped, LockTyped
<1>3. ASSUME UNCHANGED counts PROVE CountsTyped'
  BY <1>3 DEF RestTyped, CountsTyped, counts
<1>4. ASSUME main' \in Places, UNCHANGED <<installed, tripped>> PROVE PlacesTyped'
  BY <1>0, <1>4 DEF PlacesTyped
<1>5. CASE Entered \/ TaskEnds \/ Cancel \/ Leave
  <2>1. UNCHANGED <<options, locked, counts, installed, tripped>> /\ main' \in Places
    BY <1>5 DEF Entered, TaskEnds, Cancel, Leave, state, Places
  <2> QED
    BY <1>1, <1>2, <1>3, <1>4, <2>1 DEF RestTyped
<1>6. CASE Loop
  <2>1. UNCHANGED <<options, locked, installed, tripped, sent, delivered>> /\ main' \in Places
    BY <1>6 DEF Loop, state, Places
  <2>2. tasks' = tasks \/ (tasks < MaxTasks /\ tasks' = tasks + 1)
    BY <1>6 DEF Loop
  <2>3. tasks' \in 0 .. MaxTasks
    BY <1>0, <2>2
  <2> QED
    BY <1>0, <1>1, <1>2, <1>4, <2>1, <2>3 DEF RestTyped, CountsTyped
<1>7. ASSUME NEW s \in Signals, Install(s) \/ Restore(s) PROVE RestTyped'
  <2>1. /\ UNCHANGED <<options, locked, counts, main, tripped>>
        /\ installed' = installed \cup {s} \/ installed' = installed \ {s}
    BY <1>7 DEF Install, Restore, state
  <2>2. PlacesTyped'
    BY <1>0, <2>1 DEF PlacesTyped
  <2> QED
    BY <1>1, <1>2, <1>3, <2>1, <2>2 DEF RestTyped
<1>8. ASSUME NEW s \in Signals, Arrive(s) \/ Deliver(s) PROVE RestTyped'
  <2>1. /\ UNCHANGED <<options, locked, installed, tasks>>
        /\ tripped' \subseteq tripped \cup {s} /\ (main' = main \/ main' = "killed")
        /\ sent' = sent \/ (sent < MaxSignals /\ sent' = sent + 1)
        /\ delivered' = delivered \/ delivered' = delivered + 1
    BY <1>8 DEF Arrive, Deliver, state
  <2>2. PlacesTyped'
    BY <1>0, <2>1 DEF PlacesTyped, Places
  <2>3. sent' \in 0 .. MaxSignals /\ delivered' \in Nat
    BY <1>0, <2>1
  <2> QED
    BY <1>0, <1>1, <1>2, <2>1, <2>2, <2>3 DEF RestTyped, CountsTyped
<1>9. CASE Handler
  <2>1. /\ UNCHANGED <<options, counts, installed, tripped>> /\ (main' = main \/ main' = "exited")
        /\ UNCHANGED locked \/ locked' = TRUE \/ locked' = FALSE
    BY <1>9 DEF Handler, AcquireLock, Count, SetEvent, StartTimer, Decide, state
  <2>2. main' \in Places
    BY <1>0, <2>1 DEF Places
  <2> QED
    BY <1>1, <1>2, <1>3, <1>4, <2>1, <2>2 DEF RestTyped
<1>10. CASE Fire
  <2>1. UNCHANGED <<options, locked, counts, installed, tripped>> /\ main' \in Places
    BY <1>10 DEF Fire, state, Places
  <2> QED
    BY <1>1, <1>2, <1>3, <1>4, <2>1 DEF RestTyped
<1>11. CASE UNCHANGED vars
  <2>1. UNCHANGED <<options, locked, counts, main, installed, tripped>>
    BY <1>11 DEF vars, state
  <2> QED
    BY <1>0, <1>1, <1>2, <1>3, <1>4, <2>1 DEF RestTyped
<1> QED
  BY <1>5, <1>6, <1>7, <1>8, <1>9, <1>10, <1>11 DEF Next, Idle

LEMMA OrderlyIsTyped == Orderly /\ RestTyped => TypeOK
<1> SUFFICES ASSUME Orderly, RestTyped PROVE TypeOK
  OBVIOUS
<1>1. {force_on_repeat, timeout, overlap, locked, event} \subseteq BOOLEAN
  BY Zenon DEF Orderly, Typed, RestTyped, OptionsTyped, LockTyped
<1>2. timers \in 0 .. 1
  BY DEF Orderly, Typed, Timed
<1>3. /\ main \in Places /\ installed \subseteq Signals /\ tripped \subseteq Signals
      /\ sent \in 0 .. MaxSignals /\ delivered \in Nat /\ tasks \in 0 .. MaxTasks
  BY DEF RestTyped, PlacesTyped, CountsTyped
<1>4. frames \in Seq(Frame) /\ request_count \in Nat
  BY DEF Orderly, Typed
<1> QED
  BY <1>1, <1>2, <1>3, <1>4 DEF TypeOK, Places, Frame

\* Every variable has its type; in particular there is at most one timer.
THEOREM ShutdownTypeOK == Spec => []TypeOK
BY OrderlyInit, OrderlyStep, RestInit, RestStep, OrderlyIsTyped, PTL DEF Spec

=============================================================================
