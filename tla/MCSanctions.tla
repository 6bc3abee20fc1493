------------------------------ MODULE MCSanctions ------------------------------
(* Sanctions on a small instance. *)
EXTENDS Sanctions, TLC

CONSTANTS c1, t1, t2, t3, a1, a2

ThreadSymmetry == Permutations(Threads)
=============================================================================
