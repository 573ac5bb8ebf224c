------------------------ MODULE EventDispatcherProofs ------------------------
(***************************************************************************)
(* Proofs about EventDispatcher, for every set of events, handles and      *)
(* queued calls: its step, with handlers that call whatever they like,     *)
(* implements the timer service.                                           *)
(***************************************************************************)
EXTENDS EventDispatcher, TimeEventsProofs

\* Whose handler can be on the stack in each phase.
RunningFitsPhase ==
  /\ phase = "idle" => running = NULL
  /\ phase \in {"call_queue", "on_empty"} => running \notin Events

\* The inductive invariant.  The event on the stack is neither queued nor
\* freed, and every handle leads to a queued event: so no handle leads to it.
DInv ==
  /\ IInv
  /\ DTypeOK
  /\ current_step <= now
  /\ RunningFitsPhase
  /\ RunningEventIsPrivate

Serving == IF running \in Events THEN running ELSE NULL
DueTimes == [e \in Queued |-> time_of_execution[e]]

-----------------------------------------------------------------------------
(* The invariant.                                                          *)

\* No handle leads to an event that is not queued.
LEMMA PrivateUnlessQueued ==
  ASSUME IInv, running \in Events => running \in allocated \ Queued
  PROVE  RunningEventIsPrivate
BY TimeEventsAssumption DEF RunningEventIsPrivate, IInv, HandlesAgree

LEMMA PrivateUnlessQueuedNext ==
  ASSUME IInv', running' \in Events => running' \in allocated' \ Queued'
  PROVE  RunningEventIsPrivate'
BY TimeEventsAssumption DEF RunningEventIsPrivate, IInv, HandlesAgree

\* The types and the phases are those of the control state; the container's
\* are in IInv.
LEMMA ControlStep ==
  ASSUME DInv, IInv', DNext
  PROVE  DTypeOK' /\ current_step' <= now' /\ RunningFitsPhase'
<1>. USE DispatcherAssumption, TimeEventsAssumption
<1>1. TypeOK'
  BY DEF IInv
<1>2. array[0] \in Events \/ ~Due
  BY DEF Due, DInv, IInv, TypeOK
<1>3. CASE Call
  <2>1. ASSUME Calling PROVE UNCHANGED <<now, current_step, phase, running>>
    BY <2>1 DEF Calling, DInv, DTypeOK
  <2>2. ASSUME NEW w \in Work, Execute(w)
        PROVE  DTypeOK' /\ current_step' <= now' /\ RunningFitsPhase'
    <3>1. Append(call_queue, w) \in Seq(Work)
      BY <2>2 DEF DInv, DTypeOK
    <3>. QED
      BY <1>1, <2>1, <2>2, <3>1 DEF Execute, DInv, DTypeOK, RunningFitsPhase
  <2>3. ASSUME NEW w \in Work, ContinueWhenEmpty(w)
        PROVE  DTypeOK' /\ current_step' <= now' /\ RunningFitsPhase'
    BY <1>1, <2>1, <2>3 DEF ContinueWhenEmpty, DInv, DTypeOK, RunningFitsPhase
  <2>4. ASSUME Calling, UNCHANGED <<call_queue, on_empty, stop>>
        PROVE  DTypeOK' /\ current_step' <= now' /\ RunningFitsPhase'
    BY <1>1, <2>1, <2>4 DEF DInv, DTypeOK, RunningFitsPhase
  <2>5. ASSUME NEW e \in Events, NEW h \in Handles \cup {NULL}, NEW d \in Diffs,
               ExecuteIn(e, h, d) \/ ExecuteInFails(e, h, d)
        PROVE  Calling /\ UNCHANGED <<call_queue, on_empty, stop>>
    BY <2>5 DEF ExecuteIn, ExecuteInFails
  <2>6. ASSUME NEW h \in Handles, EvtdCancel(h)
        PROVE  Calling /\ UNCHANGED <<call_queue, on_empty, stop>>
    BY <2>6 DEF EvtdCancel
  <2>7. ASSUME NEW h \in Handles, NEW d \in Diffs, EvtdRestart(h, d)
        PROVE  Calling /\ UNCHANGED <<call_queue, on_empty, stop>>
    BY <2>7 DEF EvtdRestart
  <2>8. CASE Stop
    BY <1>1, <2>1, <2>8 DEF Stop, DInv, DTypeOK, RunningFitsPhase
  <2>. QED
    BY <1>3, <2>2, <2>3, <2>4, <2>5, <2>6, <2>7, <2>8 DEF Call
<1>4. CASE Return
  BY <1>1, <1>4 DEF Return, TimeEventReturns, CallReturns, OnEmptyReturns,
                    DInv, DTypeOK, RunningFitsPhase
<1>5. CASE Step
  <2>1. CASE BeginStep \/ TimeEventsDone \/ EndStep
    BY <1>1, <2>1 DEF BeginStep, TimeEventsDone, EndStep, DInv, DTypeOK, RunningFitsPhase
  <2>2. CASE RunTimeEvent
    BY <1>1, <1>2, <2>2 DEF RunTimeEvent, DInv, DTypeOK, RunningFitsPhase
  <2>3. CASE RunCall
    <3>1. Head(call_queue) \in Work /\ Tail(call_queue) \in Seq(Work)
      BY <2>3 DEF RunCall, DInv, DTypeOK
    <3>. QED
      BY <1>1, <2>3, <3>1 DEF RunCall, timers, TypeOK, DInv, DTypeOK, RunningFitsPhase
  <2>4. CASE RunOnEmpty
    BY <1>1, <2>4 DEF RunOnEmpty, DInv, DTypeOK, RunningFitsPhase
  <2>. QED
    BY <1>5, <2>1, <2>2, <2>3, <2>4 DEF Step
<1>6. CASE Tick
  BY <1>1, <1>6 DEF Tick, DInv, DTypeOK, RunningFitsPhase
<1>. QED
  BY <1>3, <1>4, <1>5, <1>6 DEF DNext

\* A call keeps the container's invariant, and leaves the event on the stack
\* allocated and out of the vector.
LEMMA CallStep ==
  ASSUME DInv, Call
  PROVE  /\ IInv'
         /\ running' \in Events => running' \in allocated' \ Queued'
<1>. USE DispatcherAssumption, TimeEventsAssumption
<1>1. /\ IInv /\ TypeOK /\ current_step \in Int
      /\ running \in Events => running \in allocated \ Queued
      /\ \A h \in Handles : ptr_to_position[h] # NULL => running # ptr_to_position[h]
  BY DEF DInv, IInv, DTypeOK, RunningEventIsPrivate, TypeOK
<1>2. running' = running
  BY DEF Call, Execute, ContinueWhenEmpty, ExecuteIn, ExecuteInFails, EvtdCancel,
         EvtdRestart, Stop, Calling
<1>3. ASSUME UNCHANGED timers
      PROVE  IInv' /\ (running' \in Events => running' \in allocated' \ Queued')
  <2>1. Queued' = Queued /\ allocated' = allocated /\ UNCHANGED vars
    BY <1>3 DEF timers, vars, Queued
  <2>. QED
    BY <1>1, <1>2, <2>1, InvariantStep
<1>4. ASSUME NEW e \in Events, NEW h \in Handles \cup {NULL}, NEW d \in Diffs,
             ExecuteIn(e, h, d)
      PROVE  IInv' /\ (running' \in Events => running' \in allocated' \ Queued')
  <2>1. Add(e, h, current_step + d) /\ current_step + d \in Int
    BY <1>1, <1>4 DEF ExecuteIn
  <2>2. e \notin allocated /\ allocated' = allocated \cup {e}
    BY <2>1 DEF Add
  <2>3. IInv' /\ Queued' = Queued \cup {e}
    BY <1>1, <2>1, AddStep
  <2>. QED
    BY <1>1, <1>2, <2>2, <2>3
<1>5. ASSUME NEW e \in Events, NEW h \in Handles \cup {NULL}, NEW d \in Diffs,
             ExecuteInFails(e, h, d)
      PROVE  IInv' /\ (running' \in Events => running' \in allocated' \ Queued')
  <2>1. AddFails(e, h, current_step + d) /\ current_step + d \in Int
    BY <1>1, <1>5 DEF ExecuteInFails
  <2>2. e \notin Queued
    BY <1>1, <2>1 DEF AddFails, IInv, HandlesAgree
  <2>3. TypeOK'
    BY <1>1, <2>1 DEF AddFails, TypeOK
  <2>4. \A f \in Events : f # e => time_of_execution'[f] = time_of_execution[f]
    BY <1>1, <2>1 DEF AddFails, TypeOK
  <2>5. /\ UNCHANGED <<array, elem_no, ptr_to_position, position, time_event_handle>>
        /\ allocated' = allocated \cup {e}
    BY <2>1 DEF AddFails
  <2>6. Queued' = Queued
    BY <2>5 DEF Queued
  <2>7. IInv'
    BY <1>1, <2>2, <2>3, <2>4, <2>5, OutsideStep
  <2>. QED
    BY <1>1, <1>2, <2>5, <2>6, <2>7
<1>6. ASSUME NEW h \in Handles, EvtdCancel(h)
      PROVE  IInv' /\ (running' \in Events => running' \in allocated' \ Queued')
  <2>. DEFINE i == position[ptr_to_position[h]]
  <2>1. i \in 0..elem_no - 1 /\ TakeOut(i, {array[i]})
    BY <1>6 DEF EvtdCancel, Cancel
  <2>2. allocated' = allocated \ {array[i]} /\ array[i] \in Queued
    BY <2>1 DEF TakeOut, Release, Queued
  <2>3. IInv' /\ Queued' = Queued \ {array[i]}
    BY <1>1, <2>1, TakeOutStep
  <2>. QED
    BY <1>1, <1>2, <2>2, <2>3
<1>7. ASSUME NEW h \in Handles, NEW d \in Diffs, EvtdRestart(h, d)
      PROVE  IInv' /\ (running' \in Events => running' \in allocated' \ Queued')
  <2>1. Restart(h, current_step + d) /\ current_step + d \in Int
    BY <1>1, <1>7 DEF EvtdRestart
  <2>2. allocated' = allocated
    BY <2>1 DEF Restart
  <2>3. IInv' /\ Queued' = Queued
    BY <1>1, <2>1, RestartStep
  <2>. QED
    BY <1>1, <1>2, <2>2, <2>3
<1>8. (\E w \in Work : Execute(w) \/ ContinueWhenEmpty(w)) \/ Stop => UNCHANGED timers
  BY DEF Execute, ContinueWhenEmpty, Stop
<1>. QED
  BY <1>3, <1>4, <1>5, <1>6, <1>7, <1>8 DEF Call

\* So does every other step.
LEMMA OtherStep ==
  ASSUME DInv, Return \/ Step \/ Tick
  PROVE  /\ IInv'
         /\ running' \in Events => running' \in allocated' \ Queued'
<1>. USE DispatcherAssumption, TimeEventsAssumption
<1>1. /\ IInv /\ TypeOK
      /\ running \in Events => running \in allocated \ Queued
      /\ on_empty \notin Events
      /\ call_queue \in Seq(Work)
  BY DEF DInv, IInv, DTypeOK, RunningEventIsPrivate
<1>2. ASSUME UNCHANGED timers, running' = running \/ running' \notin Events
      PROVE  IInv' /\ (running' \in Events => running' \in allocated' \ Queued')
  <2>1. Queued' = Queued /\ allocated' = allocated /\ UNCHANGED vars
    BY <1>2 DEF timers, vars, Queued
  <2>. QED
    BY <1>1, <1>2, <2>1, InvariantStep
<1>3. CASE RunTimeEvent
  <2>1. 0 \in 0..elem_no - 1 /\ TakeOut(0, {})
    BY <1>1, <1>3 DEF RunTimeEvent, GetTop, TypeOK
  <2>2. IInv' /\ Queued' = Queued \ {array[0]}
    BY <1>1, <2>1, TakeOutStep
  <2>3. array[0] \in allocated /\ allocated' = allocated
    BY <1>1, <2>1 DEF TakeOut, Release, IInv, HandlesAgree, Queued
  <2>4. running' = array[0]
    BY <1>3 DEF RunTimeEvent
  <2>. QED
    BY <2>2, <2>3, <2>4
<1>4. ASSUME NEW fatal \in BOOLEAN, TimeEventReturns(fatal)
      PROVE  IInv' /\ running' \notin Events
  <2>1. Free(running) /\ running' = NULL
    BY <1>4 DEF TimeEventReturns
  <2>2. running \in Events /\ running \notin Queued
    BY <1>1, <2>1 DEF Free, TypeOK
  <2>. QED
    BY <1>1, <2>1, <2>2, FreeStep
<1>5. CASE RunCall
  <2>1. Head(call_queue) \in Work
    BY <1>1, <1>5 DEF RunCall
  <2>. QED
    BY <1>2, <1>5, <2>1 DEF RunCall
<1>6. CASE RunOnEmpty
  BY <1>1, <1>2, <1>6 DEF RunOnEmpty
<1>7. CASE CallReturns \/ OnEmptyReturns
  BY <1>2, <1>7 DEF CallReturns, OnEmptyReturns
<1>8. CASE BeginStep \/ TimeEventsDone \/ EndStep \/ Tick
  BY <1>2, <1>8 DEF BeginStep, TimeEventsDone, EndStep, Tick
<1>. QED
  BY <1>3, <1>4, <1>5, <1>6, <1>7, <1>8 DEF Return, Step

\* Every step keeps the invariant.
LEMMA DispatcherInvariantStep == DInv /\ [DNext]_dvars => DInv'
<1>. SUFFICES ASSUME DInv, [DNext]_dvars
              PROVE  DInv'
  OBVIOUS
<1>1. CASE DNext
  <2>1. IInv' /\ (running' \in Events => running' \in allocated' \ Queued')
    BY <1>1, CallStep, OtherStep DEF DNext
  <2>2. RunningEventIsPrivate'
    BY <2>1, PrivateUnlessQueuedNext
  <2>3. DTypeOK' /\ current_step' <= now' /\ RunningFitsPhase'
    BY <1>1, <2>1, ControlStep
  <2>. QED
    BY <2>1, <2>2, <2>3 DEF DInv
<1>2. CASE UNCHANGED dvars
  <2>1. UNCHANGED vars /\ Queued' = Queued
    BY <1>2 DEF dvars, timers, vars, Queued
  <2>2. IInv'
    BY <2>1, InvariantStep DEF DInv
  <2>3. RunningEventIsPrivate'
    BY <1>2, <2>1, <2>2, PrivateUnlessQueuedNext DEF DInv, RunningEventIsPrivate, dvars, vars
  <2>4. DTypeOK' /\ current_step' <= now' /\ RunningFitsPhase'
    BY <1>2, <2>2 DEF DInv, IInv, DTypeOK, RunningFitsPhase, dvars
  <2>. QED
    BY <2>2, <2>3, <2>4 DEF DInv
<1>. QED
  BY <1>1, <1>2

\* The initial state satisfies the invariant.
LEMMA DispatcherInvariantInit == DInit => DInv
<1>. SUFFICES ASSUME DInit
              PROVE  DInv
  OBVIOUS
<1>. USE DispatcherAssumption, TimeEventsAssumption
<1>1. IInv
  BY InvariantInit DEF DInit
<1>2. running \notin Events /\ call_queue \in Seq(Work)
  BY DEF DInit
<1>3. RunningEventIsPrivate
  BY <1>2 DEF RunningEventIsPrivate
<1>4. TypeOK
  BY <1>1 DEF IInv
<1>5. DTypeOK
  BY <1>2, <1>4 DEF DInit, DTypeOK
<1>6. current_step <= now /\ RunningFitsPhase
  BY DEF DInit, RunningFitsPhase
<1>. QED
  BY <1>1, <1>3, <1>5, <1>6 DEF DInv

\* The invariant holds in every reachable state.
LEMMA DispatcherInvariantHolds == DSpec => []DInv
BY DispatcherInvariantInit, DispatcherInvariantStep, PTL DEF DSpec

-----------------------------------------------------------------------------
(* The theorems about one state.                                           *)

\* Every variable of the dispatcher has its type: the queue of calls holds
\* calls, the event on the stack is an event, the capacity has not wrapped.
THEOREM DispatcherTypeCorrect == DSpec => []DTypeOK
<1>1. DInv => DTypeOK
  BY DEF DInv
<1>. QED
  BY <1>1, DispatcherInvariantHolds, PTL

\* Driven by the dispatcher, with handlers that add, restart and cancel events
\* while they run, the vector stays sorted, positions are indices, and handles lead
\* to queued events (iotc_time_event.c:124-125 and the assertions of restart).
THEOREM ContainerHolds == DSpec => [](Sorted /\ PositionsAgree /\ HandlesAgree)
<1>1. DInv => Sorted /\ PositionsAgree /\ HandlesAgree
  BY DEF DInv, IInv
<1>. QED
  BY <1>1, DispatcherInvariantHolds, PTL

\* While the handler of a time event runs (iotc_event_dispatcher.c:396-403),
\* whatever it and the application call, no handle and no entry of the vector
\* leads to its event: it is freed once, by the step.
THEOREM RunningAlwaysPrivate == DSpec => []RunningEventIsPrivate
<1>1. DInv => RunningEventIsPrivate
  BY DEF DInv
<1>. QED
  BY <1>1, DispatcherInvariantHolds, PTL

-----------------------------------------------------------------------------
(* The refinement.                                                         *)

\* The queued events keep their times when only other cells are written.
LEMMA SameDueTimes ==
  ASSUME Queued' = Queued,
         \A f \in Queued : time_of_execution'[f] = time_of_execution[f]
  PROVE  DueTimes' = DueTimes
BY DEF DueTimes

\* A call schedules, reschedules or cancels an event, or is none of the
\* service's business.
LEMMA CallRefines ==
  ASSUME DInv, Call
  PROVE  Timers!Next \/ UNCHANGED Timers!vars
<1>. USE DispatcherAssumption, TimeEventsAssumption
<1>1. /\ IInv /\ TypeOK /\ current_step \in Int
      /\ running \in Events => running \in allocated \ Queued
      /\ Queued \subseteq allocated /\ Queued \subseteq Events
      /\ allocated \subseteq Events
  BY DEF DInv, IInv, DTypeOK, RunningEventIsPrivate, TypeOK, HandlesAgree
<1>2. running' = running /\ current_step' = current_step
  BY DEF Call, Execute, ContinueWhenEmpty, ExecuteIn, ExecuteInFails, EvtdCancel,
         EvtdRestart, Stop, Calling
<1>3. ASSUME DueTimes' = DueTimes
      PROVE  UNCHANGED Timers!vars
  BY <1>2, <1>3 DEF DueTimes, Timers!vars
<1>4. ASSUME UNCHANGED timers
      PROVE  UNCHANGED Timers!vars
  BY <1>3, <1>4, SameDueTimes DEF timers, Queued
<1>5. ASSUME NEW e \in Events, NEW h \in Handles \cup {NULL}, NEW d \in Diffs,
             ExecuteIn(e, h, d)
      PROVE  Timers!Schedule(e)
  <2>1. Add(e, h, current_step + d) /\ current_step + d >= current_step
        /\ current_step + d \in Int
    BY <1>1, <1>5 DEF ExecuteIn
  <2>2. e \notin Queued /\ e # NULL /\ e # running
    BY <1>1, <2>1 DEF Add
  <2>3. Queued' = Queued \cup {e}
    BY <1>1, <2>1, AddStep
  <2>4. /\ time_of_execution'[e] = current_step + d
        /\ \A f \in Queued : time_of_execution'[f] = time_of_execution[f]
    BY <1>1, <2>1, <2>2 DEF Add, TypeOK
  <2>. QED
    BY <1>2, <2>1, <2>2, <2>3, <2>4 DEF Timers!Schedule, Timers!Waiting, Timers!Keeps
<1>6. ASSUME NEW e \in Events, NEW h \in Handles \cup {NULL}, NEW d \in Diffs,
             ExecuteInFails(e, h, d)
      PROVE  UNCHANGED Timers!vars
  <2>1. AddFails(e, h, current_step + d)
    BY <1>6 DEF ExecuteInFails
  <2>2. e \notin Queued /\ Queued' = Queued
    BY <1>1, <2>1 DEF AddFails, Queued
  <2>3. \A f \in Queued : time_of_execution'[f] = time_of_execution[f]
    BY <1>1, <2>1, <2>2 DEF AddFails, TypeOK
  <2>. QED
    BY <1>3, <2>2, <2>3, SameDueTimes
<1>7. ASSUME NEW h \in Handles, EvtdCancel(h)
      PROVE  Timers!Next
  <2>. DEFINE i == position[ptr_to_position[h]]
  <2>1. i \in 0..elem_no - 1 /\ TakeOut(i, {array[i]})
    BY <1>7 DEF EvtdCancel, Cancel
  <2>2. PICK e \in Queued : e = array[i]
    BY <2>1 DEF Queued
  <2>3. Queued' = Queued \ {e}
    BY <1>1, <2>1, <2>2, TakeOutStep
  <2>4. \A f \in Queued \ {e} : time_of_execution'[f] = time_of_execution[f]
    BY <1>1, <2>1, <2>2 DEF TakeOut, Release, TypeOK
  <2>5. Timers!Cancel(e)
    BY <1>2, <2>2, <2>3, <2>4 DEF Timers!Cancel, Timers!Forget, Timers!Waiting, Timers!Keeps
  <2>. QED
    BY <1>1, <2>2, <2>5 DEF Timers!Next
<1>8. ASSUME NEW h \in Handles, NEW d \in Diffs, EvtdRestart(h, d)
      PROVE  Timers!Next
  <2>1. Restart(h, current_step + d) /\ current_step + d >= current_step
        /\ current_step + d \in Int
    BY <1>1, <1>8 DEF EvtdRestart
  <2>2. PICK e \in Queued : e = array[position[ptr_to_position[h]]]
    BY <2>1 DEF Restart, Queued
  <2>3. Queued' = Queued
    BY <1>1, <2>1, RestartStep
  <2>4. time_of_execution' = [time_of_execution EXCEPT ![e] = current_step + d]
    BY <2>1, <2>2 DEF Restart
  <2>5. /\ time_of_execution'[e] = current_step + d
        /\ \A f \in Queued \ {e} : time_of_execution'[f] = time_of_execution[f]
    BY <1>1, <2>2, <2>4 DEF TypeOK
  <2>6. Timers!Reschedule(e)
    BY <1>2, <2>1, <2>2, <2>3, <2>5
    DEF Timers!Reschedule, Timers!Waiting, Timers!Keeps
  <2>. QED
    BY <1>1, <2>2, <2>6 DEF Timers!Next
<1>9. (\E w \in Work : Execute(w) \/ ContinueWhenEmpty(w)) \/ Stop => UNCHANGED timers
  BY DEF Execute, ContinueWhenEmpty, Stop
<1>. QED
  BY <1>4, <1>5, <1>6, <1>7, <1>8, <1>9 DEF Call, Timers!Next

\* The step serves the most urgent event, if it is due.
LEMMA RunTimeEventRefines ==
  ASSUME DInv, RunTimeEvent
  PROVE  \E e \in Events : Timers!Serve(e)
<1>. USE DispatcherAssumption, TimeEventsAssumption
<1>1. IInv /\ TypeOK /\ Sorted
  BY DEF DInv, IInv
<1>2. /\ 0 \in 0..elem_no - 1 /\ TakeOut(0, {})
      /\ time_of_execution[array[0]] <= current_step
      /\ running = NULL /\ running' = array[0] /\ current_step' = current_step
  BY <1>1 DEF RunTimeEvent, GetTop, Due, TypeOK
<1>3. PICK e \in Events : e = array[0]
  BY <1>1, <1>2 DEF TypeOK
<1>4. e \in Queued /\ Queued' = Queued \ {e}
  <2>1. e \in Queued
    BY <1>2, <1>3 DEF Queued
  <2>2. Queued' = Queued \ {array[0]}
    BY <1>1, <1>2, TakeOutStep
  <2>. QED
    BY <1>3, <2>1, <2>2
<1>5. \A f \in Queued \ {e} : time_of_execution'[f] = time_of_execution[f]
  BY <1>1, <1>2 DEF TakeOut, Release, TypeOK, Queued
<1>6. \A f \in Queued : time_of_execution[e] <= time_of_execution[f]
  <2>1. \A k \in 0..elem_no - 1 : time_of_execution[array[0]] <= time_of_execution[array[k]]
    BY <1>1, <1>2 DEF Sorted
  <2>. QED
    BY <1>3, <2>1 DEF Queued
<1>7. Timers!Serve(e)
  BY <1>2, <1>3, <1>4, <1>5, <1>6
  DEF Timers!Serve, Timers!Forget, Timers!Waiting, Timers!Keeps
<1>. QED
  BY <1>7

\* Every step of the dispatcher is a step of the timer service or none.
LEMMA StepRefines ==
  DInv /\ [DNext]_dvars => [Timers!Next]_(Timers!vars)
<1>. SUFFICES ASSUME DInv, [DNext]_dvars
              PROVE  Timers!Next \/ UNCHANGED Timers!vars
  OBVIOUS
<1>. USE DispatcherAssumption, TimeEventsAssumption
<1>1. /\ IInv /\ TypeOK /\ current_step <= now
      /\ Queued \subseteq Events
      /\ on_empty \notin Events
      /\ call_queue \in Seq(Work)
      /\ phase = "idle" => running = NULL
      /\ phase \in {"call_queue", "on_empty"} => running \notin Events
  BY DEF DInv, IInv, DTypeOK, TypeOK, Queued, RunningFitsPhase
<1>2. ASSUME UNCHANGED <<timers, current_step>>,
             running' = running \/ (running \notin Events /\ running' \notin Events)
      PROVE  UNCHANGED Timers!vars
  <2>1. DueTimes' = DueTimes
    BY <1>2, SameDueTimes DEF timers, Queued
  <2>. QED
    BY <1>2, <2>1 DEF DueTimes, Timers!vars
<1>3. CASE Call
  BY <1>3, CallRefines
<1>4. CASE RunTimeEvent
  BY <1>4, RunTimeEventRefines DEF Timers!Next
<1>5. ASSUME NEW fatal \in BOOLEAN, TimeEventReturns(fatal)
      PROVE  Timers!Finish
  <2>1. Free(running) /\ running' = NULL /\ current_step' = current_step
    BY <1>5 DEF TimeEventReturns
  <2>2. running \in Events /\ running \notin Queued
    BY <1>1, <2>1 DEF Free, TypeOK
  <2>3. Queued' = Queued
    BY <1>1, <2>1, <2>2, FreeStep
  <2>4. \A f \in Queued : time_of_execution'[f] = time_of_execution[f]
    BY <1>1, <2>1, <2>2 DEF Free, Release, TypeOK
  <2>5. DueTimes' = DueTimes
    BY <2>3, <2>4, SameDueTimes
  <2>. QED
    BY <2>1, <2>2, <2>5 DEF Timers!Finish, DueTimes
<1>6. CASE RunCall
  <2>1. Head(call_queue) \in Work
    BY <1>1, <1>6 DEF RunCall
  <2>. QED
    BY <1>2, <1>6, <2>1 DEF RunCall
<1>7. CASE RunOnEmpty
  BY <1>1, <1>2, <1>7 DEF RunOnEmpty
<1>8. CASE CallReturns \/ OnEmptyReturns
  BY <1>1, <1>2, <1>8 DEF CallReturns, OnEmptyReturns
<1>9. CASE BeginStep
  <2>1. running = NULL /\ running' = NULL /\ current_step' = now /\ UNCHANGED timers
    BY <1>1, <1>9 DEF BeginStep
  <2>2. DueTimes' = DueTimes
    BY <2>1, SameDueTimes DEF timers, Queued
  <2>. QED
    BY <1>1, <2>1, <2>2 DEF Timers!Next, Timers!NewStep, DueTimes
<1>10. CASE TimeEventsDone \/ EndStep \/ Tick
  <2>1. UNCHANGED <<timers, current_step>> /\ running' = running
    BY <1>10 DEF TimeEventsDone, EndStep, Tick
  <2>. QED
    BY <1>2, <2>1
<1>11. CASE UNCHANGED dvars
  <2>1. UNCHANGED <<timers, current_step>> /\ running' = running
    BY <1>11 DEF dvars
  <2>. QED
    BY <1>2, <2>1
<1>. QED
  BY <1>3, <1>4, <1>5, <1>6, <1>7, <1>8, <1>9, <1>10, <1>11
  DEF DNext, Return, Step, Timers!Next

\* The vector, the handles, the phases and handlers that call back into the
\* dispatcher together serve every timer at most once, in a step that reached
\* its time, the most urgent first and one at a time.
THEOREM Implements == DSpec => ImplementsTimerService
<1>1. DInit => Timers!Init
  <2>1. DInit => Queued = {} /\ running = NULL /\ current_step = 0
    BY DEF DInit, Init, Queued
  <2>. QED
    BY <2>1, TimeEventsAssumption DEF Timers!Init
<1>. QED
  BY <1>1, StepRefines, DispatcherInvariantHolds, PTL
  DEF DSpec, ImplementsTimerService, Timers!Spec
=============================================================================
