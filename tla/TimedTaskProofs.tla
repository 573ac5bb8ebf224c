--------------------------- MODULE TimedTaskProofs ---------------------------
(***************************************************************************)
(* Theorems about TimedTask, for any set of cells, any periods and any     *)
(* size of the table.  IInv holds whether or not scheduling may fail;      *)
(* that tasks, table and waiting events agree needs that it does not.      *)
(***************************************************************************)
EXTENDS TimedTask, TLAPS

\* The slots that are not in use yet are empty.
RestIsEmpty == \A i \in 0..MaxTimedEvent - 1 : i >= elem_no => slots[i] = NULL

\* A waiting event belongs to a scheduled task.
WaitingIsScheduled == \A t \in delayed_event : state[t] = "SCHEDULED"

\* What was removed is freed, or will be as soon as its callback returns; and
\* nothing else is.
CancelledIsOver ==
  /\ \A t \in cancelled : state[t] \in {"FREE", "DELETABLE"}
  /\ \A t \in Tasks : state[t] = "DELETABLE" => t \in cancelled

IInv ==
  TypeOK /\ RestIsEmpty /\ RunningAgrees /\ WaitingIsScheduled /\ CancelledIsOver

-----------------------------------------------------------------------------
(* The handle table.                                                       *)

\* A task is registered in a slot of the table that is empty.
LEMMA RegisterTakesEmpty ==
  ASSUME IInv, NEW t \in Tasks, NEW i \in 0..elem_no, Register(t, i)
  PROVE  /\ i \in 0..MaxTimedEvent - 1
         /\ slots[i] = NULL
         /\ slots' = [slots EXCEPT ![i] = t]
         /\ elem_no' \in elem_no..MaxTimedEvent
         /\ i < elem_no'
         /\ slots' \in [0..MaxTimedEvent - 1 -> Tasks \cup {NULL}]
         /\ RestIsEmpty'
         /\ elem_no' = elem_no \/ (elem_no' = elem_no + 1 /\ i = elem_no)
<1>1. i \in 0..MaxTimedEvent - 1 /\ slots[i] = NULL
  BY TimedTaskAssumption DEF IInv, TypeOK, RestIsEmpty, Register, Finds, InUse
<1>2. elem_no' \in elem_no..MaxTimedEvent /\ i < elem_no'
  BY TimedTaskAssumption DEF IInv, TypeOK, Register, Finds, InUse
<1>3. slots' = [slots EXCEPT ![i] = t]
  BY DEF Register
<1>4. slots' \in [0..MaxTimedEvent - 1 -> Tasks \cup {NULL}]
  BY <1>3 DEF IInv, TypeOK
<1>5. RestIsEmpty'
  BY <1>2, <1>3, TimedTaskAssumption DEF IInv, TypeOK, RestIsEmpty
<1>6. elem_no' = elem_no \/ (elem_no' = elem_no + 1 /\ i = elem_no)
  BY DEF Register
<1>. QED
  BY <1>1, <1>2, <1>3, <1>4, <1>5, <1>6

\* A slot is cleared that held the task.
LEMMA DeleteClears ==
  ASSUME IInv, NEW t \in Tasks, Delete(t)
  PROVE  \E i \in InUse : /\ slots[i] = t
                          /\ slots' = [slots EXCEPT ![i] = NULL]
                          /\ i \in 0..MaxTimedEvent - 1
                          /\ slots' \in [0..MaxTimedEvent - 1 -> Tasks \cup {NULL}]
<1>1. PICK i \in InUse : Finds(t, i) /\ slots' = [slots EXCEPT ![i] = NULL]
  BY DEF Delete
<1>2. slots[i] = t
  BY <1>1 DEF Finds
<1>3. i \in 0..MaxTimedEvent - 1
  BY TimedTaskAssumption DEF IInv, TypeOK, InUse
<1>4. slots' \in [0..MaxTimedEvent - 1 -> Tasks \cup {NULL}]
  BY <1>1 DEF IInv, TypeOK
<1>. QED
  BY <1>1, <1>2, <1>3, <1>4

-----------------------------------------------------------------------------
(* The invariant.                                                          *)

LEMMA IInvInit == Init => IInv
<1>. SUFFICES ASSUME Init PROVE IInv
  OBVIOUS
<1>1. TypeOK
  BY TimedTaskAssumption DEF Init, TypeOK
<1>2. RestIsEmpty /\ RunningAgrees /\ WaitingIsScheduled /\ CancelledIsOver
  BY TimedTaskAssumption DEF Init, RestIsEmpty, RunningAgrees, WaitingIsScheduled,
     CancelledIsOver
<1>. QED
  BY <1>1, <1>2 DEF IInv

LEMMA IInvAdd ==
  ASSUME IInv, NEW t \in Tasks, NEW s \in Periods, NEW r \in BOOLEAN, Add(t, s, r)
  PROVE  IInv'
<1>1. PICK i \in 0..elem_no : Register(t, i)
  BY DEF Add
<1>2. /\ slots' \in [0..MaxTimedEvent - 1 -> Tasks \cup {NULL}]
      /\ elem_no' \in 0..MaxTimedEvent
      /\ RestIsEmpty'
  BY <1>1, RegisterTakesEmpty, TimedTaskAssumption DEF IInv, TypeOK
<1>3. seconds_repeat' \in [Tasks -> Nat]
  BY TimedTaskAssumption DEF IInv, TypeOK, Add
<1>4. TypeOK'
  BY <1>2, <1>3 DEF IInv, TypeOK, Add
<1>5. RunningAgrees' /\ WaitingIsScheduled' /\ CancelledIsOver'
  BY DEF IInv, TypeOK, Add, RunningAgrees, WaitingIsScheduled, CancelledIsOver
<1>. QED
  BY <1>2, <1>4, <1>5 DEF IInv

LEMMA IInvAddUnscheduled ==
  ASSUME IInv, NEW t \in Tasks, AddUnscheduled(t)
  PROVE  IInv'
<1>1. PICK i \in 0..elem_no : Register(t, i)
  BY DEF AddUnscheduled
<1>2. /\ slots' \in [0..MaxTimedEvent - 1 -> Tasks \cup {NULL}]
      /\ elem_no' \in 0..MaxTimedEvent
      /\ RestIsEmpty'
  BY <1>1, RegisterTakesEmpty, TimedTaskAssumption DEF IInv, TypeOK
<1>3. TypeOK'
  BY <1>2 DEF IInv, TypeOK, AddUnscheduled
<1>4. RunningAgrees' /\ WaitingIsScheduled' /\ CancelledIsOver'
  BY DEF IInv, AddUnscheduled, RunningAgrees, WaitingIsScheduled, CancelledIsOver
<1>. QED
  BY <1>2, <1>3, <1>4 DEF IInv

LEMMA IInvRemove ==
  ASSUME IInv, NEW i \in 0..MaxTimedEvent - 1, Remove(i)
  PROVE  IInv'
<1>. DEFINE t == slots[i]
<1>1. t \in Tasks
  BY DEF IInv, TypeOK, Remove
<1>2. CASE state[t] = "SCHEDULED"
  <2>1. Delete(t) /\ Release(t)
    BY <1>2 DEF Remove
  <2>2. PICK k \in InUse : /\ slots' = [slots EXCEPT ![k] = NULL]
                           /\ k \in 0..MaxTimedEvent - 1
                           /\ slots' \in [0..MaxTimedEvent - 1 -> Tasks \cup {NULL}]
    BY <1>1, <2>1, DeleteClears
  <2>3. TypeOK'
    BY <1>1, <1>2, <2>1, <2>2 DEF IInv, TypeOK, Remove, Release
  <2>4. RestIsEmpty'
    BY <2>2 DEF IInv, TypeOK, RestIsEmpty, Remove
  <2>5. RunningAgrees' /\ WaitingIsScheduled' /\ CancelledIsOver'
    BY <1>1, <1>2, <2>1 DEF IInv, TypeOK, Remove, Release, RunningAgrees,
       WaitingIsScheduled, CancelledIsOver
  <2>. QED
    BY <2>3, <2>4, <2>5 DEF IInv
<1>3. CASE state[t] = "RUNNING"
  <2>1. TypeOK'
    BY <1>1, <1>3 DEF IInv, TypeOK, Remove
  <2>2. RestIsEmpty'
    BY <1>3 DEF IInv, RestIsEmpty, Remove
  <2>3. RunningAgrees' /\ WaitingIsScheduled' /\ CancelledIsOver'
    BY <1>1, <1>3 DEF IInv, TypeOK, Remove, RunningAgrees, WaitingIsScheduled,
       CancelledIsOver
  <2>. QED
    BY <2>1, <2>2, <2>3 DEF IInv
<1>. QED
  BY <1>2, <1>3 DEF Remove

LEMMA IInvRun ==
  ASSUME IInv, NEW t \in Tasks, Run(t)
  PROVE  IInv'
<1>1. TypeOK' /\ RestIsEmpty'
  BY DEF IInv, TypeOK, RestIsEmpty, Run
<1>2. RunningAgrees' /\ WaitingIsScheduled' /\ CancelledIsOver'
  BY TimedTaskAssumption DEF IInv, TypeOK, Run, RunningAgrees, WaitingIsScheduled,
     CancelledIsOver
<1>. QED
  BY <1>1, <1>2 DEF IInv

LEMMA IInvFinishLast ==
  ASSUME IInv, FinishLast
  PROVE  IInv'
<1>1. running \in Tasks /\ running' = NULL
  BY DEF IInv, TypeOK, FinishLast
<1>2. Delete(running) /\ Release(running)
  BY DEF FinishLast
<1>3. PICK k \in InUse : /\ slots' = [slots EXCEPT ![k] = NULL]
                         /\ k \in 0..MaxTimedEvent - 1
                         /\ slots' \in [0..MaxTimedEvent - 1 -> Tasks \cup {NULL}]
  BY <1>1, <1>2, DeleteClears
<1>4. TypeOK'
  BY <1>1, <1>2, <1>3 DEF IInv, TypeOK, FinishLast, Release
<1>5. RestIsEmpty'
  BY <1>3 DEF IInv, TypeOK, RestIsEmpty, FinishLast
<1>6. RunningAgrees' /\ WaitingIsScheduled' /\ CancelledIsOver'
  BY <1>1, <1>2, TimedTaskAssumption DEF IInv, TypeOK, FinishLast, Release,
     RunningAgrees, WaitingIsScheduled, CancelledIsOver
<1>. QED
  BY <1>4, <1>5, <1>6 DEF IInv

LEMMA IInvFinishRepeating ==
  ASSUME IInv, FinishRepeating
  PROVE  IInv'
<1>1. running \in Tasks /\ state[running] = "RUNNING" /\ running' = NULL
  BY DEF IInv, TypeOK, RunningAgrees, FinishRepeating
<1>2. TypeOK' /\ RestIsEmpty'
  BY <1>1 DEF IInv, TypeOK, RestIsEmpty, FinishRepeating
<1>3. RunningAgrees' /\ WaitingIsScheduled' /\ CancelledIsOver'
  BY <1>1, TimedTaskAssumption DEF IInv, TypeOK, FinishRepeating, RunningAgrees,
     WaitingIsScheduled, CancelledIsOver
<1>. QED
  BY <1>2, <1>3 DEF IInv

LEMMA IInvStep == IInv /\ [Next]_vars => IInv'
<1>. SUFFICES ASSUME IInv, [Next]_vars PROVE IInv'
  OBVIOUS
<1>1. CASE UNCHANGED vars
  BY <1>1 DEF IInv, TypeOK, RestIsEmpty, RunningAgrees, WaitingIsScheduled,
     CancelledIsOver, vars
<1>2. CASE \E t \in Tasks, s \in Periods, r \in BOOLEAN : Add(t, s, r)
  BY <1>2, IInvAdd
<1>3. CASE \E t \in Tasks : AddUnscheduled(t) \/ Run(t)
  BY <1>3, IInvAddUnscheduled, IInvRun
<1>4. CASE \E i \in 0..MaxTimedEvent - 1 : Remove(i)
  BY <1>4, IInvRemove
<1>5. CASE FinishLast
  BY <1>5, IInvFinishLast
<1>6. CASE FinishRepeating
  BY <1>6, IInvFinishRepeating
<1>. QED
  BY <1>1, <1>2, <1>3, <1>4, <1>5, <1>6 DEF Next

LEMMA IInvAlways == Spec => []IInv
<1>. QED
  BY IInvInit, IInvStep, PTL DEF Spec

-----------------------------------------------------------------------------
(* What holds however often scheduling fails.                              *)

\* The table never outgrows IOTC_MAX_TIMED_EVENT, and every variable keeps its
\* type.
THEOREM TypeCorrect == Spec => []TypeOK
<1>1. IInv => TypeOK
  BY DEF IInv
<1>. QED
  BY IInvAlways, <1>1, PTL

\* The cell on the stack of iotc_timed_task_callback_wrapper is never freed
\* beneath it, whatever its callback removes.
THEOREM RunningAlwaysAgrees == Spec => []RunningAgrees
<1>1. IInv => RunningAgrees
  BY DEF IInv
<1>. QED
  BY IInvAlways, <1>1, PTL

\* iotc_remove_timed_task is final: the task never starts again.
THEOREM RemovedNeverRuns == Spec => RemovedNeverStarts
<1>1. IInv /\ [Next]_vars
      => [running' # NULL /\ running' # running => running' \notin cancelled]_vars
  <2>. SUFFICES ASSUME IInv, Next, running' # NULL, running' # running
                PROVE  running' \notin cancelled
    OBVIOUS
  <2>1. PICK t \in Tasks : Run(t)
    BY DEF Next, Add, AddUnscheduled, Remove, FinishLast, FinishRepeating
  <2>2. running' = t /\ t \in delayed_event
    BY <2>1 DEF Run
  <2>3. state[t] = "SCHEDULED"
    BY <2>2 DEF IInv, WaitingIsScheduled
  <2>. QED
    BY <2>2, <2>3 DEF IInv, CancelledIsOver
<1>. QED
  BY IInvAlways, <1>1, PTL DEF Spec, RemovedNeverStarts

\* The handle an application got leads to its task for as long as that exists.
THEOREM HandlesAlwaysStable == Spec => HandlesAreStable
<1>. DEFINE Stable == \A t \in Tasks, i \in 0..MaxTimedEvent - 1 :
                        slots[i] = t /\ t \in Live /\ t \in Live' => slots'[i] = t
<1>1. IInv /\ [Next]_vars => [Stable]_vars
  <2>. SUFFICES ASSUME IInv, Next,
                       NEW t \in Tasks, NEW i \in 0..MaxTimedEvent - 1,
                       slots[i] = t, t \in Live, t \in Live'
                PROVE  slots'[i] = t
    OBVIOUS
  <2>1. ASSUME NEW u \in Tasks, NEW k \in 0..elem_no, Register(u, k)
        PROVE  slots'[i] = t
    <3>1. slots[k] = NULL /\ slots' = [slots EXCEPT ![k] = u]
      BY <2>1, RegisterTakesEmpty
    <3>2. k # i
      BY <3>1, TimedTaskAssumption
    <3>. QED
      BY <3>1, <3>2 DEF IInv, TypeOK
  <2>2. ASSUME NEW u \in Tasks, Delete(u), Release(u)
        PROVE  slots'[i] = t
    <3>1. PICK k \in InUse : slots[k] = u /\ slots' = [slots EXCEPT ![k] = NULL]
      BY <2>2, DeleteClears
    <3>2. u \notin Live'
      BY <2>2 DEF Release, Live, IInv, TypeOK
    <3>3. k # i
      BY <3>1, <3>2
    <3>. QED
      BY <3>1, <3>3 DEF IInv, TypeOK
  <2>3. CASE \E u \in Tasks, s \in Periods, r \in BOOLEAN : Add(u, s, r)
    BY <2>1, <2>3 DEF Add
  <2>4. CASE \E u \in Tasks : AddUnscheduled(u)
    BY <2>1, <2>4 DEF AddUnscheduled
  <2>5. CASE \E u \in Tasks : Run(u)
    BY <2>5 DEF Run
  <2>6. ASSUME NEW k \in 0..MaxTimedEvent - 1, Remove(k)
        PROVE  slots'[i] = t
    <3>1. slots[k] \in Tasks
      BY <2>6 DEF Remove, IInv, TypeOK
    <3>2. slots' = slots \/ (Delete(slots[k]) /\ Release(slots[k]))
      BY <2>6 DEF Remove
    <3>. QED
      BY <2>2, <3>1, <3>2
  <2>7. CASE FinishLast
    <3>1. running \in Tasks /\ Delete(running) /\ Release(running)
      BY <2>7 DEF FinishLast, IInv, TypeOK
    <3>. QED
      BY <2>2, <3>1
  <2>8. CASE FinishRepeating
    BY <2>8 DEF FinishRepeating
  <2>. QED
    BY <2>3, <2>4, <2>5, <2>6, <2>7, <2>8 DEF Next
<1>. QED
  BY IInvAlways, <1>1, PTL DEF Spec, HandlesAreStable

-----------------------------------------------------------------------------
(* What holds when scheduling never fails.                                 *)

LEMMA WaitingAgreesStep ==
  ASSUME ~CanFail
  PROVE  IInv /\ WaitingAgrees /\ [Next]_vars => WaitingAgrees'
<1>. SUFFICES ASSUME IInv, WaitingAgrees, [Next]_vars PROVE WaitingAgrees'
  OBVIOUS
<1>1. CASE UNCHANGED vars
  BY <1>1 DEF WaitingAgrees, vars
<1>2. CASE \E t \in Tasks, s \in Periods, r \in BOOLEAN : Add(t, s, r)
  BY <1>2 DEF WaitingAgrees, Add, IInv, TypeOK
<1>3. CASE \E t \in Tasks : AddUnscheduled(t)
  BY <1>3 DEF AddUnscheduled
<1>4. CASE \E t \in Tasks : Run(t)
  BY <1>4 DEF WaitingAgrees, Run, IInv, TypeOK
<1>5. ASSUME NEW i \in 0..MaxTimedEvent - 1, Remove(i)
      PROVE  WaitingAgrees'
  <2>1. slots[i] \in Tasks
    BY <1>5 DEF Remove, IInv, TypeOK
  <2>. QED
    BY <1>5, <2>1 DEF WaitingAgrees, Remove, Release, IInv, TypeOK
<1>6. CASE FinishLast
  BY <1>6 DEF WaitingAgrees, FinishLast, Release, IInv, TypeOK, RunningAgrees
<1>7. CASE FinishRepeating
  BY <1>7 DEF WaitingAgrees, FinishRepeating, IInv, TypeOK
<1>. QED
  BY <1>1, <1>2, <1>3, <1>4, <1>5, <1>6, <1>7 DEF Next

\* A task that is freed leaves the table and no other does.
LEMMA DeleteKeepsSlotsAgree ==
  ASSUME IInv, SlotsAgree, NEW t \in Live, Delete(t), Release(t), UNCHANGED elem_no
  PROVE  SlotsAgree'
<1>1. t \in Tasks
  BY DEF Live
<1>2. PICK i \in InUse : /\ slots[i] = t
                         /\ slots' = [slots EXCEPT ![i] = NULL]
                         /\ i \in 0..MaxTimedEvent - 1
  BY <1>1, DeleteClears
<1>3. InUse' = InUse /\ InUse \subseteq 0..MaxTimedEvent - 1
  BY TimedTaskAssumption DEF InUse, IInv, TypeOK
<1>4. Live' = Live \ {t}
  BY <1>1 DEF Live, Release, IInv, TypeOK
<1>5. \A k \in InUse \ {i} : slots'[k] = slots[k] /\ slots[k] # t
  BY <1>2, <1>3 DEF SlotsAgree, IInv, TypeOK
<1>6. slots'[i] = NULL
  BY <1>2 DEF IInv, TypeOK
<1>7. \A k \in InUse : slots'[k] # NULL => slots'[k] \in Live'
  BY <1>4, <1>5, <1>6 DEF SlotsAgree
<1>8. ASSUME NEW u \in Live'
      PROVE  \E k \in InUse : slots'[k] = u /\ \A j \in InUse \ {k} : slots'[j] # u
  <2>1. u \in Live /\ u # t /\ u # NULL
    BY <1>4, <1>8, TimedTaskAssumption DEF Live
  <2>2. PICK k \in InUse : slots[k] = u /\ \A j \in InUse \ {k} : slots[j] # u
    BY <2>1 DEF SlotsAgree
  <2>3. k # i
    BY <1>2, <2>1, <2>2
  <2>. QED
    BY <1>5, <1>6, <2>1, <2>2, <2>3
<1>. QED
  BY <1>3, <1>7, <1>8 DEF SlotsAgree

LEMMA AddKeepsSlotsAgree ==
  ASSUME IInv, SlotsAgree, NEW t \in Tasks, NEW s \in Periods, NEW r \in BOOLEAN,
         Add(t, s, r)
  PROVE  SlotsAgree'
<1>1. PICK i \in 0..elem_no : Register(t, i)
  BY DEF Add
<1>2. /\ i \in 0..MaxTimedEvent - 1
      /\ slots[i] = NULL
      /\ slots' = [slots EXCEPT ![i] = t]
      /\ i < elem_no' /\ elem_no' \in elem_no..MaxTimedEvent
      /\ elem_no' = elem_no \/ (elem_no' = elem_no + 1 /\ i = elem_no)
  BY <1>1, RegisterTakesEmpty
<1>3. i \in InUse' /\ InUse' = InUse \cup {i} /\ InUse' \subseteq 0..MaxTimedEvent - 1
  <2>1. elem_no \in Nat /\ MaxTimedEvent \in Nat
    BY TimedTaskAssumption DEF IInv, TypeOK
  <2>2. PICK m \in elem_no..MaxTimedEvent :
          elem_no' = m /\ i < m /\ (m = elem_no \/ (m = elem_no + 1 /\ i = elem_no))
    BY <1>2
  <2>3. InUse' = 0..m - 1
    BY <2>2 DEF InUse
  <2>4. i \in 0..m - 1 /\ 0..m - 1 \subseteq 0..MaxTimedEvent - 1
    BY <2>1, <2>2
  <2>5. 0..m - 1 = (0..elem_no - 1) \cup {i}
    BY <2>1, <2>2
  <2>. QED
    BY <2>3, <2>4, <2>5 DEF InUse
<1>4. Live' = Live \cup {t} /\ t \notin Live
  BY DEF Live, Add, IInv, TypeOK
<1>5. t # NULL
  BY TimedTaskAssumption
<1>6. slots'[i] = t /\ \A k \in InUse' \ {i} : k \in InUse /\ slots'[k] = slots[k]
  BY <1>2, <1>3 DEF IInv, TypeOK
<1>7. \A k \in InUse : slots[k] # t
  BY <1>4, <1>5 DEF SlotsAgree
<1>8. \A k \in InUse' : slots'[k] # NULL => slots'[k] \in Live'
  BY <1>4, <1>6 DEF SlotsAgree
<1>9. ASSUME NEW u \in Live'
      PROVE  \E k \in InUse' : slots'[k] = u /\ \A j \in InUse' \ {k} : slots'[j] # u
  <2>1. CASE u = t
    BY <1>3, <1>6, <1>7, <2>1
  <2>2. CASE u # t
    <3>1. u \in Live /\ u # NULL
      BY <1>4, <1>9, <2>2, TimedTaskAssumption DEF Live
    <3>2. PICK k \in InUse : slots[k] = u /\ \A j \in InUse \ {k} : slots[j] # u
      BY <3>1 DEF SlotsAgree
    <3>3. k # i
      BY <1>2, <3>1, <3>2
    <3>. QED
      BY <1>3, <1>6, <2>2, <3>2, <3>3
  <2>. QED
    BY <2>1, <2>2
<1>. QED
  BY <1>8, <1>9 DEF SlotsAgree

LEMMA SlotsAgreeStep ==
  ASSUME ~CanFail
  PROVE  IInv /\ SlotsAgree /\ [Next]_vars => SlotsAgree'
<1>. SUFFICES ASSUME IInv, SlotsAgree, [Next]_vars PROVE SlotsAgree'
  OBVIOUS
<1>1. ASSUME UNCHANGED <<slots, elem_no>>, Live' = Live
      PROVE  SlotsAgree'
  BY <1>1 DEF SlotsAgree, InUse
<1>2. CASE UNCHANGED vars
  BY <1>1, <1>2 DEF vars, Live
<1>3. CASE \E t \in Tasks, s \in Periods, r \in BOOLEAN : Add(t, s, r)
  BY <1>3, AddKeepsSlotsAgree
<1>4. CASE \E t \in Tasks : AddUnscheduled(t)
  BY <1>4 DEF AddUnscheduled
<1>5. ASSUME NEW t \in Tasks, Run(t)
      PROVE  SlotsAgree'
  <2>1. Live' = Live
    BY <1>5 DEF Run, Live, IInv, TypeOK, WaitingIsScheduled
  <2>. QED
    BY <1>1, <1>5, <2>1 DEF Run
<1>6. ASSUME NEW i \in 0..MaxTimedEvent - 1, Remove(i)
      PROVE  SlotsAgree'
  <2>1. slots[i] \in Live
    BY <1>6 DEF Remove, SlotsAgree
  <2>2. CASE state[slots[i]] = "SCHEDULED"
    BY <1>6, <2>1, <2>2, DeleteKeepsSlotsAgree DEF Remove
  <2>3. CASE state[slots[i]] = "RUNNING"
    <3>1. Live' = Live /\ UNCHANGED <<slots, elem_no>>
      BY <1>6, <2>1, <2>3 DEF Remove, Live, IInv, TypeOK
    <3>. QED
      BY <1>1, <3>1
  <2>. QED
    BY <1>6, <2>2, <2>3 DEF Remove
<1>7. CASE FinishLast
  <2>1. running \in Live
    BY <1>7 DEF FinishLast, Live, IInv, TypeOK, RunningAgrees
  <2>. QED
    BY <1>7, <2>1, DeleteKeepsSlotsAgree DEF FinishLast
<1>8. CASE FinishRepeating
  <2>1. Live' = Live
    BY <1>8 DEF FinishRepeating, Live, IInv, TypeOK, RunningAgrees
  <2>. QED
    BY <1>1, <1>8, <2>1 DEF FinishRepeating
<1>. QED
  BY <1>2, <1>3, <1>4, <1>5, <1>6, <1>7, <1>8 DEF Next

\* When the dispatcher takes every event, a task is scheduled exactly while its
\* event waits.
THEOREM WaitingAlwaysAgrees == ~CanFail => (Spec => []WaitingAgrees)
<1>. SUFFICES ASSUME ~CanFail PROVE Spec => []WaitingAgrees
  OBVIOUS
<1>1. Init => WaitingAgrees
  BY DEF Init, WaitingAgrees
<1>2. IInv /\ WaitingAgrees /\ [Next]_vars => WaitingAgrees'
  BY WaitingAgreesStep
<1>. QED
  BY IInvAlways, <1>1, <1>2, PTL DEF Spec

\* When the dispatcher takes every event, the table holds every task once.
THEOREM SlotsAlwaysAgree == ~CanFail => (Spec => []SlotsAgree)
<1>. SUFFICES ASSUME ~CanFail PROVE Spec => []SlotsAgree
  OBVIOUS
<1>1. Init => SlotsAgree
  BY TimedTaskAssumption DEF Init, SlotsAgree, InUse, Live
<1>2. IInv /\ SlotsAgree /\ [Next]_vars => SlotsAgree'
  BY SlotsAgreeStep
<1>. QED
  BY IInvAlways, <1>1, <1>2, PTL DEF Spec

\* When the dispatcher takes every event, a task with a period that returns from
\* its callback is scheduled again, unless it was removed.
THEOREM RepeatingAlwaysRepeats == ~CanFail => (Spec => RepeatsUntilRemoved)
<1>. SUFFICES ASSUME ~CanFail PROVE Spec => RepeatsUntilRemoved
  OBVIOUS
<1>. DEFINE Repeats ==
       \A t \in Tasks :
         running = t /\ running' = NULL /\ seconds_repeat[t] # 0 /\ t \notin cancelled
         => t \in delayed_event'
<1>1. IInv /\ [Next]_vars => [Repeats]_vars
  <2>. SUFFICES ASSUME IInv, Next, NEW t \in Tasks, running = t, running' = NULL,
                       seconds_repeat[t] # 0, t \notin cancelled
                PROVE  t \in delayed_event'
    OBVIOUS
  <2>1. FinishLast \/ FinishRepeating
    BY TimedTaskAssumption DEF Next, Add, AddUnscheduled, Remove, Run
  <2>2. ~FinishLast
    BY DEF FinishLast, IInv, CancelledIsOver
  <2>. QED
    BY <2>1, <2>2 DEF FinishRepeating
<1>. QED
  BY IInvAlways, <1>1, PTL DEF Spec, RepeatsUntilRemoved
=============================================================================
