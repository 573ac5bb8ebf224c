--------------------------- MODULE EventDispatcher ---------------------------
(***************************************************************************)
(* The event dispatcher, iotc_event_dispatcher.c, in a build without       *)
(* threads: a container of time events, a queue of calls, an on_empty      *)
(* handler, and the step that runs them in that order of phases.           *)
(*                                                                         *)
(* A handler is opaque: between its call and its return it may call every  *)
(* operation of the dispatcher.  Between two steps the application may.    *)
(***************************************************************************)
EXTENDS TimeEvents, Sequences

CONSTANTS
  Work,         \* handlers that are posted without a time
  Diffs,        \* the delays callers ask for
  StartTime,    \* the wall clock when the dispatcher is created
  MaxTime,      \* bound: the wall clock stops here
  MaxQueue      \* bound: calls that wait in the queue

ASSUME DispatcherAssumption ==
  /\ Work \cap Events = {}
  /\ NULL \notin Work
  /\ Diffs \subseteq Nat
  /\ StartTime \in Nat /\ MaxTime \in Nat /\ MaxQueue \in Nat

VARIABLES
  now,           \* the wall clock, in seconds
  current_step,  \* instance->current_step: the wall clock at the last step
  call_queue,    \* instance->call_queue
  on_empty,      \* instance->on_empty, NULL when unset
  stop,          \* instance->stop
  phase,         \* what the dispatcher is doing
  running        \* the event or work whose handler is on the stack, or NULL

timers == <<array, elem_no, capacity, time_of_execution, position,
            time_event_handle, ptr_to_position, allocated>>

dvars == <<timers, now, current_step, call_queue, on_empty, stop, phase,
           running>>

DInit ==
  /\ Init
  /\ now = StartTime
  /\ current_step = 0
  /\ call_queue = <<>>
  /\ on_empty = NULL
  /\ stop = FALSE
  /\ phase = "idle"
  /\ running = NULL

-----------------------------------------------------------------------------
(* Operations, called by a running handler or by the application.          *)

Calling ==
  /\ phase = "idle" \/ running # NULL
  /\ UNCHANGED <<now, current_step, phase, running>>

\* iotc_evtd_execute
Execute(w) ==
  /\ Calling
  /\ Len(call_queue) < MaxQueue
  /\ call_queue' = Append(call_queue, w)
  /\ UNCHANGED <<timers, on_empty, stop>>

\* iotc_evtd_continue_when_empty
ContinueWhenEmpty(w) ==
  /\ Calling
  /\ on_empty' = w
  /\ UNCHANGED <<timers, call_queue, stop>>

\* iotc_evtd_execute_in: the delay counts from the last step.
ExecuteIn(e, h, d) ==
  /\ Calling
  /\ current_step + d <= MaxTime
  /\ Add(e, h, current_step + d)
  /\ UNCHANGED <<call_queue, on_empty, stop>>

\* iotc_evtd_execute_in when the container cannot grow: the error is returned,
\* the event stays allocated.
ExecuteInFails(e, h, d) ==
  /\ Calling
  /\ current_step + d <= MaxTime
  /\ AddFails(e, h, current_step + d)
  /\ UNCHANGED <<call_queue, on_empty, stop>>

\* iotc_evtd_cancel
EvtdCancel(h) ==
  /\ Calling
  /\ Cancel(h)
  /\ UNCHANGED <<call_queue, on_empty, stop>>

\* iotc_evtd_restart: the new delay counts from the last step.
EvtdRestart(h, d) ==
  /\ Calling
  /\ current_step + d <= MaxTime
  /\ Restart(h, current_step + d)
  /\ UNCHANGED <<call_queue, on_empty, stop>>

\* iotc_evtd_stop
Stop ==
  /\ Calling
  /\ stop' = TRUE
  /\ UNCHANGED <<timers, call_queue, on_empty>>

Call ==
  \/ \E w \in Work : Execute(w) \/ ContinueWhenEmpty(w)
  \/ \E e \in Events, h \in Handles \cup {NULL}, d \in Diffs :
       ExecuteIn(e, h, d) \/ ExecuteInFails(e, h, d)
  \/ \E h \in Handles : EvtdCancel(h)
  \/ \E h \in Handles, d \in Diffs : EvtdRestart(h, d)
  \/ Stop

-----------------------------------------------------------------------------
(* The step.                                                               *)

\* Mutant: events are compared with the wall clock.
DueByWallClock == elem_no > 0 /\ time_of_execution[array[0]] <= now

Due == elem_no > 0 /\ time_of_execution[array[0]] <= current_step

\* Mutant: the time of the step is not recorded.
BeginStepUntimed ==
  /\ phase = "idle"
  /\ ~stop
  /\ phase' = "time_events"
  /\ UNCHANGED <<timers, now, current_step, call_queue, on_empty, stop, running>>

\* The event loop calls iotc_evtd_step with the wall clock unless stopped.
BeginStep ==
  /\ phase = "idle"
  /\ ~stop
  /\ current_step' = now
  /\ phase' = "time_events"
  /\ UNCHANGED <<timers, now, call_queue, on_empty, stop, running>>

RunTimeEvent ==
  /\ phase = "time_events"
  /\ running = NULL
  /\ Due
  /\ GetTop
  /\ running' = array[0]
  /\ UNCHANGED <<now, current_step, call_queue, on_empty, stop, phase>>

\* The handler returns; a fatal result stops the dispatcher.
TimeEventReturns(fatal) ==
  /\ phase = "time_events"
  /\ running # NULL
  /\ Free(running)
  /\ running' = NULL
  /\ stop' = (stop \/ fatal)
  /\ UNCHANGED <<now, current_step, call_queue, on_empty, phase>>

TimeEventsDone ==
  /\ phase = "time_events"
  /\ running = NULL
  /\ ~Due
  /\ phase' = "call_queue"
  /\ UNCHANGED <<timers, now, current_step, call_queue, on_empty, stop,
                 running>>

\* iotc_evtd_single_step with a non-empty queue.
RunCall ==
  /\ phase = "call_queue"
  /\ running = NULL
  /\ call_queue # <<>>
  /\ running' = Head(call_queue)
  /\ call_queue' = Tail(call_queue)
  /\ UNCHANGED <<timers, now, current_step, on_empty, stop, phase>>

\* A fatal result of a queued call is only logged.
CallReturns ==
  /\ phase = "call_queue"
  /\ running # NULL
  /\ running' = NULL
  /\ UNCHANGED <<timers, now, current_step, call_queue, on_empty, stop, phase>>

RunOnEmpty ==
  /\ phase = "call_queue"
  /\ running = NULL
  /\ call_queue = <<>>
  /\ elem_no = 0
  /\ on_empty # NULL
  /\ phase' = "on_empty"
  /\ running' = on_empty
  /\ UNCHANGED <<timers, now, current_step, call_queue, on_empty, stop>>

\* The handler is disposed after its call, whatever it has put in on_empty.
OnEmptyReturns ==
  /\ phase = "on_empty"
  /\ running' = NULL
  /\ on_empty' = NULL
  /\ phase' = "idle"
  /\ UNCHANGED <<timers, now, current_step, call_queue, stop>>

EndStep ==
  /\ phase = "call_queue"
  /\ running = NULL
  /\ call_queue = <<>>
  /\ elem_no > 0 \/ on_empty = NULL
  /\ phase' = "idle"
  /\ UNCHANGED <<timers, now, current_step, call_queue, on_empty, stop,
                 running>>

Return == (\E fatal \in BOOLEAN : TimeEventReturns(fatal)) \/ CallReturns
          \/ OnEmptyReturns

Step == BeginStep \/ RunTimeEvent \/ TimeEventsDone \/ RunCall \/ RunOnEmpty
        \/ EndStep

\* Time passes between steps and while handlers run.
Tick ==
  /\ now < MaxTime
  /\ now' = now + 1
  /\ UNCHANGED <<timers, current_step, call_queue, on_empty, stop, phase,
                 running>>

DNext == Call \/ Return \/ Step \/ Tick

DSpec == DInit /\ [][DNext]_dvars

\* The loop is driven for ever, handlers return, the clock advances.
LiveSpec == DSpec /\ WF_dvars(Step) /\ WF_dvars(Return) /\ WF_dvars(Tick)

-----------------------------------------------------------------------------
(* Properties.                                                             *)

DTypeOK ==
  /\ TypeOK
  /\ now \in Nat /\ current_step \in Nat
  /\ call_queue \in Seq(Work)
  /\ on_empty \in Work \cup {NULL}
  /\ stop \in BOOLEAN
  /\ phase \in {"idle", "time_events", "call_queue", "on_empty"}
  /\ running \in Events \cup Work \cup {NULL}
 

\* The event on the stack (iotc_event_dispatcher.c:396-403) is reached by no
\* handle and by no second entry of the vector while its handler runs, so
\* that nothing the handler calls frees or serves it again.
RunningEventIsPrivate ==
  running \in Events =>
    /\ running \in allocated \ Queued
    /\ \A h \in Handles : ptr_to_position[h] # running

\* Vector, handles and phases together implement the timer service: served
\* once, not before the step it waits for, most urgent first, one at a time.
Timers == INSTANCE TimerService
            WITH due <- [e \in Queued |-> time_of_execution[e]],
                 step <- current_step,
                 serving <- IF running \in Events THEN running ELSE NULL

ImplementsTimerService == Timers!Spec

Waits(e, t) == e \in Queued /\ time_of_execution[e] = t

\* A handler that queues itself or an event that is due at once can keep a step
\* from ending (iotc_event_dispatcher.c:412).  As long as steps end, every event
\* is served for the time it waits for, or cancelled, or given another time, or
\* the dispatcher is stopped, whatever else handlers add and queue for ever.
EventIsServed(e) ==
  []<>(phase = "idle") =>
    \A t \in 0..MaxTime : Waits(e, t) ~> ~Waits(e, t) \/ stop

=============================================================================
