------------------------------ MODULE SingleSlot ------------------------------
(***************************************************************************)
(* What the generation endpoints promise, without handlers, workers, locks *)
(* or channels: one request is served at a time; a response is kept only   *)
(* while its request is served; and a client is told its outcome once,     *)
(* "done" after the response was kept (when it is to be kept), "failed"    *)
(* only if it never is.                                                    *)
(***************************************************************************)
CONSTANT Requests

VARIABLES keeps,    \* the requests whose responses are to be kept
          waiting,  \* requests not yet admitted nor turned away
          serving,  \* the requests being served
          kept,     \* the responses kept
          told      \* told[r] \in {"nothing", "done", "failed"}

vars == <<keeps, waiting, serving, kept, told>>

Init ==
  /\ keeps \subseteq Requests
  /\ waiting = Requests /\ serving = {} /\ kept = {}
  /\ told = [r \in Requests |-> "nothing"]

Admit(r) ==
  /\ r \in waiting /\ serving = {}
  /\ waiting' = waiting \ {r} /\ serving' = {r}
  /\ UNCHANGED <<keeps, kept, told>>

TurnAway(r) ==
  /\ r \in waiting
  /\ waiting' = waiting \ {r}
  /\ UNCHANGED <<keeps, serving, kept, told>>

Keep(r) ==
  /\ r \in serving /\ r \in keeps \ kept /\ told[r] = "nothing"
  /\ kept' = kept \union {r}
  /\ UNCHANGED <<keeps, waiting, serving, told>>

Release(r) ==
  /\ r \in serving
  /\ serving' = serving \ {r}
  /\ UNCHANGED <<keeps, waiting, kept, told>>

Tell(r) ==
  /\ r \notin waiting /\ told[r] = "nothing"
  /\ \/ (r \in keeps => r \in kept) /\ told' = [told EXCEPT ![r] = "done"]
     \/ r \notin kept /\ told' = [told EXCEPT ![r] = "failed"]
  /\ UNCHANGED <<keeps, waiting, serving, kept>>

Next == \E r \in Requests : Admit(r) \/ TurnAway(r) \/ Keep(r) \/ Release(r) \/ Tell(r)

Spec == Init /\ [][Next]_vars
===============================================================================
