------------------------------ MODULE MCMNotify ------------------------------
(* Instances of MNotify small enough for TLC. *)
EXTENDS MNotify, TLC

\* Threads only differ by name: every set of them may be permuted.
ThreadSymmetry == Permutations(Thread)
=============================================================================
