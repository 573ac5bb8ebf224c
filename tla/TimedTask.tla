------------------------------ MODULE TimedTask ------------------------------
(***************************************************************************)
(* Timed tasks, iotc_timed_task.c over the handle table of iotc_handle.c.  *)
(*                                                                         *)
(* A task is a heap cell with a slot in a table that never shrinks; its    *)
(* index is the handle the application gets.  The dispatcher calls the     *)
(* wrapper of a task whose time event is waiting, one at a time, and the   *)
(* wrapper calls back into the application, which may add and remove       *)
(* tasks, its own included.  When an event is due is the dispatcher's      *)
(* affair (EventDispatcher): here any waiting event may be the next.       *)
(***************************************************************************)
EXTENDS Integers

CONSTANTS
  Tasks,          \* the heap cells a task can be allocated in
  NULL,
  Periods,        \* the seconds_from_now callers ask for
  MaxTimedEvent,  \* IOTC_MAX_TIMED_EVENT, the size the table may grow to
  CanFail         \* whether scheduling a time event and growing may fail

ASSUME TimedTaskAssumption ==
  /\ NULL \notin Tasks
  /\ Periods \subseteq Nat
  /\ MaxTimedEvent \in Nat
  /\ CanFail \in BOOLEAN

VARIABLES
  slots,           \* timed_tasks_vector: of every index, a task or NULL
  elem_no,         \* the indices of slots in use
  state,           \* of every cell, "FREE" or its iotc_timed_task_state_e
  seconds_repeat,  \* of every cell: the period, 0 if the task runs once
  delayed_event,   \* the tasks whose time event is waiting
  running,         \* the task whose callback is on the stack, or NULL
  cancelled        \* history: the cells whose last task was removed

vars == <<slots, elem_no, state, seconds_repeat, delayed_event, running,
          cancelled>>

InUse == 0..elem_no - 1

Live == {t \in Tasks : state[t] # "FREE"}

Init ==
  /\ slots = [i \in 0..MaxTimedEvent - 1 |-> NULL]
  /\ elem_no = 0
  /\ state = [t \in Tasks |-> "FREE"]
  /\ seconds_repeat = [t \in Tasks |-> 0]
  /\ delayed_event = {}
  /\ running = NULL
  /\ cancelled = {}

-----------------------------------------------------------------------------
(* The handle table.                                                       *)

\* iotc_vector_find: i is the first index in use that holds the object.
Finds(object, i) ==
  /\ i \in InUse
  /\ slots[i] = object
  /\ \A k \in 0..i - 1 : slots[k] # object

Absent(object) == \A i \in InUse : slots[i] # object

\* iotc_register_handle_for_object: the first empty slot, or a new one.
Register(t, i) ==
  /\ \/ /\ Finds(NULL, i)
        /\ UNCHANGED elem_no
     \/ /\ Absent(NULL)
        /\ i = elem_no /\ elem_no < MaxTimedEvent
        /\ elem_no' = elem_no + 1
  /\ slots' = [slots EXCEPT ![i] = t]

\* Mutant: the slot is cleared through the last entry.
DeleteLast(t) ==
  \E i \in InUse : slots[i] = t /\ slots' = [slots EXCEPT ![elem_no - 1] = NULL]

\* iotc_delete_handle_for_object
Delete(t) == \E i \in InUse : Finds(t, i) /\ slots' = [slots EXCEPT ![i] = NULL]

\* The cell goes back to the heap.
Release(t) ==
  /\ state' = [state EXCEPT ![t] = "FREE"]
  /\ seconds_repeat' = [seconds_repeat EXCEPT ![t] = 0]

-----------------------------------------------------------------------------
(* The operations.                                                         *)

\* iotc_add_timed_task
Add(t, seconds_from_now, repeats_forever) ==
  /\ state[t] = "FREE"
  /\ \E i \in 0..elem_no : Register(t, i)
  /\ state' = [state EXCEPT ![t] = "SCHEDULED"]
  /\ seconds_repeat' = [seconds_repeat EXCEPT
                          ![t] = IF repeats_forever THEN seconds_from_now ELSE 0]
  /\ delayed_event' = delayed_event \cup {t}
  /\ cancelled' = cancelled \ {t}
  /\ UNCHANGED running

\* iotc_add_timed_task when the dispatcher cannot take the event: the task is
\* freed, its slot keeps pointing at it.
AddUnscheduled(t) ==
  /\ CanFail
  /\ state[t] = "FREE"
  /\ \E i \in 0..elem_no : Register(t, i)
  /\ UNCHANGED <<state, seconds_repeat, delayed_event, running, cancelled>>

\* Mutant: a running task is freed as well.
RemoveRunning(i) ==
  /\ i \in InUse /\ slots[i] # NULL
  /\ Delete(slots[i])
  /\ Release(slots[i])
  /\ delayed_event' = delayed_event \ {slots[i]}
  /\ cancelled' = cancelled \cup {slots[i]}
  /\ UNCHANGED <<elem_no, running>>

\* Mutant: a running task is left as it is.
RemoveIgnoresRunning(i) ==
  /\ i \in InUse /\ slots[i] # NULL
  /\ \/ /\ state[slots[i]] = "SCHEDULED"
        /\ delayed_event' = delayed_event \ {slots[i]}
        /\ Delete(slots[i])
        /\ Release(slots[i])
     \/ /\ state[slots[i]] = "RUNNING"
        /\ UNCHANGED <<slots, state, seconds_repeat, delayed_event>>
  /\ cancelled' = cancelled \cup {slots[i]}
  /\ UNCHANGED <<elem_no, running>>

\* iotc_remove_timed_task through a handle whose slot is taken by a task.  The
\* application has no handle to a slot left behind by AddUnscheduled, and the
\* program ends at the NULL position of a scheduled task without an event.
Remove(i) ==
  /\ i \in InUse /\ slots[i] # NULL
  /\ \/ /\ state[slots[i]] = "SCHEDULED"
        /\ slots[i] \in delayed_event
        /\ delayed_event' = delayed_event \ {slots[i]}
        /\ Delete(slots[i])
        /\ Release(slots[i])
     \/ /\ state[slots[i]] = "RUNNING"
        /\ state' = [state EXCEPT ![slots[i]] = "DELETABLE"]
        /\ UNCHANGED <<slots, seconds_repeat, delayed_event>>
  /\ cancelled' = cancelled \cup {slots[i]}
  /\ UNCHANGED <<elem_no, running>>

\* The dispatcher calls iotc_timed_task_callback_wrapper, which calls back.
Run(t) ==
  /\ running = NULL
  /\ t \in delayed_event
  /\ delayed_event' = delayed_event \ {t}
  /\ ~Absent(t)
  /\ state' = [state EXCEPT ![t] = "RUNNING"]
  /\ running' = t
  /\ UNCHANGED <<slots, elem_no, seconds_repeat, cancelled>>

\* The callback returns to the wrapper: the task is over.
FinishLast ==
  /\ running # NULL
  /\ seconds_repeat[running] = 0 \/ state[running] = "DELETABLE"
  /\ Delete(running)
  /\ Release(running)
  /\ running' = NULL
  /\ UNCHANGED <<elem_no, delayed_event, cancelled>>

\* The callback returns to the wrapper, which schedules the task again.  With
\* assertions compiled out the state is set whether or not that succeeds.
FinishRepeating ==
  /\ running # NULL
  /\ seconds_repeat[running] # 0 /\ state[running] # "DELETABLE"
  /\ \/ delayed_event' = delayed_event \cup {running}
     \/ CanFail /\ UNCHANGED delayed_event
  /\ state' = [state EXCEPT ![running] = "SCHEDULED"]
  /\ running' = NULL
  /\ UNCHANGED <<slots, elem_no, seconds_repeat, cancelled>>

Next ==
  \/ \E t \in Tasks, s \in Periods, r \in BOOLEAN : Add(t, s, r)
  \/ \E t \in Tasks : AddUnscheduled(t) \/ Run(t)
  \/ \E i \in 0..MaxTimedEvent - 1 : Remove(i)
  \/ FinishLast
  \/ FinishRepeating

Spec == Init /\ [][Next]_vars

\* Every event that is not cancelled is served (EventDispatcher!EventIsServed),
\* callbacks return.
LiveSpec ==
  /\ Spec
  /\ WF_vars(FinishLast) /\ WF_vars(FinishRepeating)
  /\ \A t \in Tasks : []<>(t \notin delayed_event) \/ []<><<Run(t)>>_vars

-----------------------------------------------------------------------------
(* Properties.                                                             *)

\* Every variable has its type.
TypeOK ==
  /\ slots \in [0..MaxTimedEvent - 1 -> Tasks \cup {NULL}]
  /\ elem_no \in 0..MaxTimedEvent
  /\ state \in [Tasks -> {"FREE", "SCHEDULED", "RUNNING", "DELETABLE"}]
  /\ seconds_repeat \in [Tasks -> Nat]
  /\ delayed_event \subseteq Tasks
  /\ running \in Tasks \cup {NULL}
  /\ cancelled \subseteq Tasks

\* A task is scheduled exactly while its time event waits, which is what the
\* assertions on iotc_evtd_cancel in iotc_remove_timed_task and on
\* iotc_evtd_execute_in in the wrapper rely on.
WaitingAgrees ==
  \A t \in Tasks : state[t] = "SCHEDULED" <=> t \in delayed_event

\* A task is running, or to be deleted after it ran, exactly while its callback
\* runs: the cell on the stack of the wrapper is never freed beneath it.
RunningAgrees ==
  \A t \in Tasks : state[t] \in {"RUNNING", "DELETABLE"} <=> t = running

\* The table holds every task that is not freed once, and nothing else, so
\* that a handle leads to its own task for as long as the task exists.
SlotsAgree ==
  /\ \A i \in InUse : slots[i] # NULL => slots[i] \in Live
  /\ \A t \in Live : \E i \in InUse :
       slots[i] = t /\ \A k \in InUse \ {i} : slots[k] # t

\* A task that was removed never starts again, be it removed by its own
\* callback, by another one, or between two calls (iotc.h: removes a
\* scheduled task).
RemovedNeverStarts ==
  [][running' # NULL /\ running' # running => running' \notin cancelled]_vars

\* The slot of a task stays the same from add to delete: handles are stable.
HandlesAreStable ==
  [][\A t \in Tasks, i \in 0..MaxTimedEvent - 1 :
       slots[i] = t /\ t \in Live /\ t \in Live' => slots'[i] = t]_vars

\* A task with a period is scheduled again when its callback returns, unless
\* it was removed (iotc.h: the callback is repeatedly executed).
RepeatsUntilRemoved ==
  [][\A t \in Tasks :
       running = t /\ running' = NULL /\ seconds_repeat[t] # 0 /\ t \notin cancelled
       => t \in delayed_event']_vars

\* A task removed while it runs is freed in the end.
RemovedIsFreed == \A t \in Tasks : t \in cancelled ~> state[t] = "FREE"
=============================================================================
