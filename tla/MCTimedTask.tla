------------------------------ MODULE MCTimedTask ------------------------------
(* More cells than slots, so that the table fills and slots are reused.     *)
EXTENDS TimedTask

MCPeriods == {0, 1}
=============================================================================
