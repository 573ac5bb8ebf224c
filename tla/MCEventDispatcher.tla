------------------------- MODULE MCEventDispatcher -------------------------
(* A small event dispatcher for TLC.                                       *)
EXTENDS EventDispatcher

CONSTANTS e1, e2, e3, e4, h1, w1

MCEvents == {e1, e2, e3, e4}
MCHandles == {h1}
MCWork == {w1}
MCDiffs == {0, 1}
MCTimes == {}

EventsAreServed == EventIsServed(e1)
=============================================================================
