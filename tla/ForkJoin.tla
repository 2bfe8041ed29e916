------------------------------- MODULE ForkJoin -------------------------------
(***************************************************************************)
(* What a caller of ComputePool::compute and ::compute_with_chunks relies  *)
(* on: a call is opened with a set of items (thread indices for compute,   *)
(* chunk indices for compute_with_chunks), its closure is applied to each  *)
(* item once while the call is open, and the call closes only when every   *)
(* item has been applied.  Nothing is said of threads, epochs, counters or *)
(* parking: those are ComputePool's means.                                 *)
(***************************************************************************)
EXTENDS Naturals

CONSTANTS Calls,   \* identities of the calls made on the pool
          Items    \* every index a closure may be applied to

VARIABLES open,    \* calls that have begun and not returned
          wanted,  \* wanted[k]: the items call k was opened with, {} before
          applied  \* applied[k][i]: how often k's closure was applied to i

vars == <<open, wanted, applied>>

Init ==
  /\ open = {}
  /\ wanted = [k \in Calls |-> {}]
  /\ applied = [k \in Calls |-> [i \in Items |-> 0]]

Open(k) ==
  /\ k \notin open
  /\ wanted[k] = {}
  /\ \E S \in (SUBSET Items) \ {{}} :
        wanted' = [wanted EXCEPT ![k] = S]
  /\ open' = open \union {k}
  /\ UNCHANGED applied

Apply(k, i) ==
  /\ k \in open
  /\ i \in wanted[k]
  /\ applied[k][i] = 0
  /\ applied' = [applied EXCEPT ![k][i] = 1]
  /\ UNCHANGED <<open, wanted>>

Close(k) ==
  /\ k \in open
  /\ \A i \in wanted[k] : applied[k][i] = 1
  /\ open' = open \ {k}
  /\ UNCHANGED <<wanted, applied>>

Next ==
  \E k \in Calls :
     \/ Open(k)
     \/ \E i \in Items : Apply(k, i)
     \/ Close(k)

Spec == Init /\ [][Next]_vars
===============================================================================
