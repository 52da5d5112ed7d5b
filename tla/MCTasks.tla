------------------------------ MODULE MCTasks ------------------------------
(* Model checking of Tasks with an int of 5 bits and a clock that starts   *)
(* in 1970, soon after, or just before it wraps.  The first task has no    *)
(* interval, the second no topic, the third is complete.                   *)
EXTENDS Tasks

IntervalDef == <<0, 1, 3>>
NoIntervalDef == {1}
GarbageDef == {-16, 0, 15}
MalformedDef == {2}
BootDef == {0, 4, 10}

(* The instance is one that the theorems about Tasks speak of. *)
ASSUME MarginHolds == Margin
=============================================================================
