--------------------------- MODULE MCZhboxProcess ---------------------------
(* Model checking of ZhboxProcess: the processes are interchangeable. *)
EXTENDS ZhboxProcess, TLC

Symmetry == Permutations(Procs)
=============================================================================
