---------------------------- MODULE MCComputePool ----------------------------
(* Instances of ComputePool for TLC.  The callers are interchangeable. *)
EXTENDS ComputePool, TLC

CallerSymmetry == Permutations(Callers)
===============================================================================
