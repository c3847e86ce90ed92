------------------------------ MODULE MCGenCase ------------------------------
(* Model checking GenCase.tla: the threads are interchangeable. *)
EXTENDS GenCase, TLC

ThreadSymmetry == Permutations(Threads)
=============================================================================
