------------------------------ MODULE TimeEvents ------------------------------
(***************************************************************************)
(* The container of time events, iotc_time_event.c over iotc_vector.c.     *)
(*                                                                         *)
(* The container is a vector of pointers to events, kept sorted by time of *)
(* execution with neighbour swaps.  Every event records its own position,  *)
(* and a caller's handle points at that position field, so that cancel and *)
(* restart find their event in constant time.  A run of neighbour swaps is *)
(* modelled by what it leaves behind: one element moved, the elements it   *)
(* passed shifted by one.                                                  *)
(*                                                                         *)
(* Indices are those of the code: they start at 0 and have the width of    *)
(* iotc_vector_index_type_t, so that doubling the capacity may wrap.       *)
(***************************************************************************)
EXTENDS Integers

CONSTANTS
  Events,          \* the heap cells an event can be allocated in
  Handles,         \* the iotc_time_event_handle_t variables of the callers
  NULL,
  Times,           \* the times of execution callers ask for
  IndexMax,        \* largest iotc_vector_index_type_t: 127 for int8_t
  DefaultCapacity  \* IOTC_VECTOR_DEFAULT_CAPACITY

ASSUME TimeEventsAssumption ==
  /\ NULL \notin Events \cup Handles
  /\ Times \subseteq Int
  /\ IndexMax \in Nat
  /\ DefaultCapacity \in 1..IndexMax

VARIABLES
  array,              \* vector->array: the queued events, first to last
  elem_no,            \* vector->elem_no
  capacity,           \* vector->capacity
  time_of_execution,  \* of every event cell
  position,           \* of every event cell
  time_event_handle,  \* of every event cell: the handle it was added with
  ptr_to_position,    \* of every handle: the event whose position it points at
  allocated           \* the event cells that are allocated

vars == <<array, elem_no, capacity, time_of_execution, position,
          time_event_handle, ptr_to_position, allocated>>

Queued == {array[k] : k \in 0..elem_no - 1}

Init ==
  /\ array = [k \in 0..-1 |-> NULL]
  /\ elem_no = 0
  /\ capacity = DefaultCapacity
  /\ time_of_execution = [e \in Events |-> 0]
  /\ position = [e \in Events |-> 0]
  /\ time_event_handle = [e \in Events |-> NULL]
  /\ ptr_to_position = [h \in Handles |-> NULL]
  /\ allocated = {}

-----------------------------------------------------------------------------
(* Arithmetic and array helpers.                                           *)

\* A value stored in an iotc_vector_index_type_t.
WrapIndex(n) == IF n > IndexMax THEN n - 2 * (IndexMax + 1) ELSE n

\* The array after neighbour swaps have carried the element at i to j.
Move(a, i, j) ==
  [k \in DOMAIN a |-> IF k = j THEN a[i]
                      ELSE IF i <= k /\ k < j THEN a[k + 1]
                      ELSE IF j < k /\ k <= i THEN a[k - 1]
                      ELSE a[k]]

\* Mutant: the last swap of a run forgets to update one position.
RenumberButFirst(pos, a, lo, hi) ==
  [e \in Events |-> IF \E k \in lo + 1..hi : a[k] = e
                    THEN CHOOSE k \in lo + 1..hi : a[k] = e
                    ELSE pos[e]]

\* The position fields once the events at lo..hi were told their index.
Renumber(pos, a, lo, hi) ==
  [e \in Events |-> IF \E k \in lo..hi : a[k] = e
                    THEN CHOOSE k \in lo..hi : a[k] = e
                    ELSE pos[e]]

\* Bubbling the element at i down stops at j: it passes strictly later events.
StopsDown(a, time, i, j) ==
  /\ \A k \in j..i - 1 : time[a[k]] > time[a[i]]
  /\ j > 0 => time[a[j - 1]] <= time[a[i]]

\* Mutant: a postponed event stays where it is.
StopsUpAtOnce(a, time, i, j, last) == j = i

\* Bubbling the element at i up stops at j: it passes strictly earlier events.
StopsUp(a, time, i, j, last) ==
  /\ \A k \in i + 1..j : time[a[k]] < time[a[i]]
  /\ j < last => time[a[j + 1]] >= time[a[i]]

\* vector_push: room for one more element, doubling the capacity when full.
\* A wrapped capacity is a request no allocator can meet.
Reserve ==
  \/ /\ elem_no < capacity
     /\ UNCHANGED capacity
  \/ /\ elem_no = capacity
     /\ WrapIndex(2 * capacity) > 0
     /\ capacity' = WrapIndex(2 * capacity)

\* Mutant: the handle keeps pointing at the event.
DisposeForgotten(e) == UNCHANGED ptr_to_position

\* The event is unreachable through its handle from now on.
Dispose(e) ==
  ptr_to_position' =
    [h \in Handles |-> IF h = time_event_handle[e] THEN NULL
                       ELSE ptr_to_position[h]]

\* Freed cells are shown zeroed: iotc_alloc hands out zeroed memory.
Release(cells) ==
  /\ allocated' = allocated \ cells
  /\ time_of_execution' =
       [e \in Events |-> IF e \in cells THEN 0 ELSE time_of_execution[e]]
  /\ time_event_handle' =
       [e \in Events |-> IF e \in cells THEN NULL ELSE time_event_handle[e]]

\* Carry the element at i to the end of the vector, delete it, dispose it;
\* cells are the events freed by the same call.
TakeOut(i, cells) ==
  LET moved == Move(array, i, elem_no - 1)
  IN  /\ array' = [k \in 0..elem_no - 2 |-> moved[k]]
      /\ elem_no' = elem_no - 1
      /\ position' = [Renumber(position, moved, i, elem_no - 1)
                        EXCEPT ![array[i]] = IF array[i] \in cells THEN 0 ELSE @]
      /\ Dispose(array[i])
      /\ Release(cells)
      /\ UNCHANGED capacity

-----------------------------------------------------------------------------
(* The operations.                                                         *)

\* iotc_time_event_add of a freshly allocated event; h is NULL when the
\* caller wants no handle.
Add(e, h, t) ==
  LET pushed == [k \in 0..elem_no |-> IF k = elem_no THEN e ELSE array[k]]
      time == [time_of_execution EXCEPT ![e] = t]
  IN  /\ e \notin allocated
      /\ h # NULL => ptr_to_position[h] = NULL
      /\ Reserve
      /\ \E j \in 0..elem_no :
           /\ StopsDown(pushed, time, elem_no, j)
           /\ array' = Move(pushed, elem_no, j)
           /\ position' = Renumber([position EXCEPT ![e] = elem_no],
                                   Move(pushed, elem_no, j), j, elem_no)
      /\ elem_no' = elem_no + 1
      /\ time_of_execution' = time
      /\ time_event_handle' = [time_event_handle EXCEPT ![e] = h]
      /\ ptr_to_position' = [g \in Handles |-> IF g = h THEN e
                                               ELSE ptr_to_position[g]]
      /\ allocated' = allocated \cup {e}

\* The push finds no memory, or a wrapped capacity: the caller keeps the event.
AddFails(e, h, t) ==
  /\ e \notin allocated
  /\ h # NULL => ptr_to_position[h] = NULL
  /\ elem_no = capacity
  /\ time_of_execution' = [time_of_execution EXCEPT ![e] = t]
  /\ allocated' = allocated \cup {e}
  /\ UNCHANGED <<array, elem_no, capacity, position, time_event_handle,
                 ptr_to_position>>

\* iotc_time_event_get_top of a non-empty container: the caller frees the
\* event once its handler has run.
GetTop ==
  /\ elem_no > 0
  /\ TakeOut(0, {})

\* iotc_evtd_cancel: iotc_time_event_cancel through a handle that points at an
\* event, which is then freed.
Cancel(h) ==
  /\ ptr_to_position[h] # NULL
  /\ position[ptr_to_position[h]] \in 0..elem_no - 1
  /\ TakeOut(position[ptr_to_position[h]],
             {array[position[ptr_to_position[h]]]})

\* iotc_time_event_restart through a handle that points at an event.
Restart(h, t) ==
  LET i == position[ptr_to_position[h]]
      e == array[i]
      time == [time_of_execution EXCEPT ![e] = t]
      last == elem_no - 1
  IN  /\ ptr_to_position[h] # NULL
      /\ i \in 0..last
      /\ time_of_execution' = time
      /\ \/ /\ t < time_of_execution[e]
            /\ \E j \in 0..i :
                 /\ StopsDown(array, time, i, j)
                 /\ array' = Move(array, i, j)
                 /\ position' = Renumber(position, Move(array, i, j), j, i)
         \/ /\ t >= time_of_execution[e]
            /\ \E j \in i..last :
                 /\ StopsUp(array, time, i, j, last)
                 /\ array' = Move(array, i, j)
                 /\ position' = Renumber(position, Move(array, i, j), i, j)
      /\ UNCHANGED <<elem_no, capacity, time_event_handle, ptr_to_position,
                     allocated>>

\* The caller frees an event it got from get_top.
Free(e) ==
  /\ e \in allocated \ Queued
  /\ Release({e})
  /\ position' = [position EXCEPT ![e] = 0]
  /\ UNCHANGED <<array, elem_no, capacity, ptr_to_position>>

Next ==
  \/ \E e \in Events, h \in Handles \cup {NULL}, t \in Times :
       \/ Add(e, h, t)
       \/ AddFails(e, h, t)
  \/ GetTop
  \/ \E h \in Handles : Cancel(h)
  \/ \E h \in Handles, t \in Times : Restart(h, t)
  \/ \E e \in Events : Free(e)

Spec == Init /\ [][Next]_vars

-----------------------------------------------------------------------------
(* Properties.                                                             *)

\* Every variable has its type; the vector never holds more than its capacity
\* and no capacity has wrapped around the index type.
TypeOK ==
  /\ elem_no \in 0..capacity
  /\ capacity \in 1..IndexMax
  /\ array \in [0..elem_no - 1 -> Events]
  /\ time_of_execution \in [Events -> Int]
  /\ position \in [Events -> Int]
  /\ time_event_handle \in [Events -> Handles \cup {NULL}]
  /\ ptr_to_position \in [Handles -> Events \cup {NULL}]
  /\ allocated \in SUBSET Events

\* The container invariant of iotc_time_event.c:124-125, which lets bubbling
\* stop at the first ordered pair and get_top return the minimum.
Sorted ==
  \A i, j \in 0..elem_no - 1 :
    i <= j => time_of_execution[array[i]] <= time_of_execution[array[j]]

\* Every queued event knows where it is, which is what cancel and restart
\* index the vector with; in particular no event is queued twice.
PositionsAgree == \A k \in 0..elem_no - 1 : position[array[k]] = k

\* A handle that is not NULL points at the position of an allocated, queued
\* event which was added with that handle (the assertion in restart), and
\* a queued event with a handle is reachable through it.
HandlesAgree ==
  /\ Queued \subseteq allocated
  /\ \A h \in Handles : ptr_to_position[h] # NULL =>
       /\ ptr_to_position[h] \in Queued
       /\ time_event_handle[ptr_to_position[h]] = h
  /\ \A e \in Queued : time_event_handle[e] # NULL =>
       ptr_to_position[time_event_handle[e]] = e

\* No operation reorders two queued events unless it changes the time of one
\* of them: a cancel or get_top keeps the order of the events that stay.
OrderIsStable ==
  [][\A e, f \in Queued \cap Queued' :
       /\ time_of_execution'[e] = time_of_execution[e]
       /\ time_of_execution'[f] = time_of_execution[f]
       /\ position[e] < position[f]
       => position'[e] < position'[f]]_vars

\* An added event runs after the events already queued for the same time.
AddedRunsLast ==
  [][\A e \in Queued' \ Queued, f \in Queued :
       time_of_execution'[e] = time_of_execution[f]
       => position'[f] < position'[e]]_vars
=============================================================================
