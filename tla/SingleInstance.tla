--------------------------- MODULE SingleInstance ---------------------------
(***************************************************************************)
(* What the pid file of zhbox is for: a process becomes the zhbox of the   *)
(* machine only while there is none, and it stays so until it is gone.     *)
(***************************************************************************)
CONSTANT Procs

VARIABLE owners     \* the zhbox processes of the machine

Init == owners = {}

Take(p) ==
    /\ owners = {}
    /\ owners' = {p}

Leave ==
    /\ owners # {}
    /\ owners' = {}

Next == Leave \/ \E p \in Procs : Take(p)

Spec == Init /\ [][Next]_owners
=============================================================================
