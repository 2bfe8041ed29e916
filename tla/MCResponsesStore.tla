--------------------------- MODULE MCResponsesStore ---------------------------
(* Instances of ResponsesStore for TLC.  The ids are interchangeable. *)
EXTENDS ResponsesStore, TLC

IdSymmetry == Permutations(Ids)
===============================================================================
