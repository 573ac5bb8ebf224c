---------------------------- MODULE TimerService ----------------------------
(***************************************************************************)
(* What the event dispatcher promises the users of its timers, without the *)
(* vector, the handles or the phases of a step: an event is served once,   *)
(* by a step that has reached its time, while no waiting event is more     *)
(* urgent, and one at a time.                                              *)
(***************************************************************************)
EXTENDS Integers

CONSTANTS Events, NULL

VARIABLES
  due,      \* of every waiting event: the step it waits for
  step,     \* the time of the current step
  serving   \* the event whose handler runs, or NULL

vars == <<due, step, serving>>

Waiting == DOMAIN due

Init ==
  /\ due = [e \in {} |-> 0]
  /\ step = 0
  /\ serving = NULL

Keeps(set) == \A e \in set : due'[e] = due[e]

Schedule(e) ==
  /\ e \notin Waiting
  /\ e # serving
  /\ DOMAIN due' = Waiting \cup {e}
  /\ due'[e] >= step
  /\ Keeps(Waiting)
  /\ UNCHANGED <<step, serving>>

Reschedule(e) ==
  /\ e \in Waiting
  /\ DOMAIN due' = Waiting
  /\ due'[e] >= step
  /\ Keeps(Waiting \ {e})
  /\ UNCHANGED <<step, serving>>

Forget(e) ==
  /\ e \in Waiting
  /\ DOMAIN due' = Waiting \ {e}
  /\ Keeps(Waiting \ {e})

Cancel(e) ==
  /\ Forget(e)
  /\ UNCHANGED <<step, serving>>

Serve(e) ==
  /\ serving = NULL
  /\ Forget(e)
  /\ due[e] <= step
  /\ \A f \in Waiting : due[e] <= due[f]
  /\ serving' = e
  /\ UNCHANGED step

Finish ==
  /\ serving # NULL
  /\ serving' = NULL
  /\ UNCHANGED <<due, step>>

NewStep ==
  /\ serving = NULL
  /\ step' >= step
  /\ UNCHANGED <<due, serving>>

Next ==
  \/ \E e \in Events : \/ Schedule(e)
                       \/ Reschedule(e)
                       \/ Cancel(e)
                       \/ Serve(e)
  \/ Finish
  \/ NewStep

Spec == Init /\ [][Next]_vars
=============================================================================
