---------------------------- MODULE DeviceMatmul ----------------------------
(***************************************************************************)
(* Quantized products on a thread pool with a device                       *)
(* (ops/kernel/q8_0/parallel.rs, matmul_q8_0_quantized_parallel_rows,      *)
(* composed with CommandStream).  Every pool thread runs the same closure  *)
(* and decides for itself, at each product, whether the device takes it:   *)
(* then the leader (thread 0) submits all rows and the others return at    *)
(* once; otherwise each thread computes its own part of the rows.  The     *)
(* decision reads GPU_BROKEN, which the leader sets when the device fails, *)
(* and so does any other user of the device, at any moment; nothing orders *)
(* that with the reads of the pool's threads.                              *)
(***************************************************************************)
EXTENDS CommandStream, Naturals

CONSTANTS Leader,    \* pool thread 0: the one that may use the device
          Workers,   \* the other pool threads
          Products   \* products in one closure

ASSUME MatmulAssumption ==
  /\ Leader \in Threads
  /\ Workers \cap Threads = {}
  /\ Products \in Nat \ {0}

Pool == {Leader} \cup Workers

VARIABLES broken,   \* GPU_BROKEN
          at,       \* at[i]: the product thread i is at, Products + 1 after
          step,     \* step[i]: "decide", "call" or "fallback"
          rows,     \* rows[n]: the threads whose part of product n is computed
          disturbed \* history, for the properties: whether another user broke
                    \* the device while this closure, or the last, was running

poolVars == <<broken, at, step, rows, disturbed>>
vars == <<streamVars, poolVars>>

Init ==
  /\ StreamInit
  /\ broken = FALSE
  /\ at = [i \in Pool |-> Products + 1]
  /\ step = [i \in Pool |-> "decide"]
  /\ rows = [n \in 1 .. Products |-> Pool]
  /\ disturbed = FALSE

Joined == \A i \in Pool: at[i] = Products + 1

\* Mutant. The closure starts before its first product.
OpenClosureAtZero ==
  /\ Joined
  /\ \E a \in Addrs: host[a] # None
  /\ at' = [i \in Pool |-> 0]
  /\ rows' = [n \in 1 .. Products |-> {}]
  /\ disturbed' = FALSE
  /\ UNCHANGED <<streamVars, broken, step>>

\* pool.compute starts a closure of a loaded model.
OpenClosure ==
  /\ Joined
  /\ \E a \in Addrs: host[a] # None
  /\ at' = [i \in Pool |-> 1]
  /\ rows' = [n \in 1 .. Products |-> {}]
  /\ disturbed' = FALSE
  /\ UNCHANGED <<streamVars, broken, step>>

\* Thread i is done with its product, and the parts of the threads in done
\* are computed.
Advance(i, done) ==
  /\ at' = [at EXCEPT ![i] = @ + 1]
  /\ step' = [step EXCEPT ![i] = "decide"]
  /\ rows' = [rows EXCEPT ![at[i]] = @ \cup done]

\* The device takes the product: the leader submits it ...
Dispatch ==
  /\ at[Leader] <= Products /\ step[Leader] = "decide"
  /\ ~broken
  /\ \E a \in Addrs: StartMatmul(Leader, a)
  /\ step' = [step EXCEPT ![Leader] = "call"]
  /\ UNCHANGED <<broken, at, rows, disturbed>>

\* ... and the others leave it to the leader.
LeaveToLeader(i) ==
  /\ i # Leader
  /\ at[i] <= Products /\ step[i] = "decide"
  /\ ~broken
  /\ Advance(i, {})
  /\ UNCHANGED <<streamVars, broken, disturbed>>

\* The device is broken: each thread computes its part.
ComputePart(i) ==
  /\ at[i] <= Products /\ step[i] = "decide"
  /\ broken
  /\ Advance(i, {i})
  /\ UNCHANGED <<streamVars, broken, disturbed>>

\* The dispatch returned: an error other than the shape breaks the device.
Returned ==
  /\ step[Leader] = "call" /\ pc[Leader] = "idle"
  /\ \/ /\ ret[Leader] = "ok"
        /\ Advance(Leader, Pool)
        /\ UNCHANGED broken
     \/ /\ ret[Leader] # "ok"
        /\ broken' = (broken \/ ret[Leader] = "error")
        /\ step' = [step EXCEPT ![Leader] = "fallback"]
        /\ UNCHANGED <<at, rows>>
  /\ UNCHANGED <<streamVars, disturbed>>

\* Mutant. After a failure the leader computes its own part.
FallbackOwnPart ==
  /\ step[Leader] = "fallback"
  /\ Advance(Leader, {Leader})
  /\ UNCHANGED <<streamVars, broken, disturbed>>

\* The leader computes all rows on the CPU.
Fallback ==
  /\ step[Leader] = "fallback"
  /\ Advance(Leader, Pool)
  /\ UNCHANGED <<streamVars, broken, disturbed>>

\* Another user of the device breaks it (mark_gpu_broken), between two
\* closures or while the pool's threads are inside one.
BrokenElsewhere ==
  /\ ~broken
  /\ broken' = TRUE
  /\ disturbed' = ~Joined
  /\ UNCHANGED <<streamVars, at, step, rows>>

\* The rest of the process uses the context; the model of a closure stays
\* loaded while it runs.
Device ==
  /\ \/ \E t \in Threads: Submission(t)
     \/ \E t \in Threads \ {Leader}: Ownership(t)
     \/ \E t \in Threads \ {Leader}, a \in Addrs: StartMatmul(t, a)
     \/ \E a \in Addrs: Load(a) \/ (Joined /\ Unload(a))
     \/ DeviceIdle \/ Shutdown
  /\ UNCHANGED poolVars

Next ==
  \/ OpenClosure \/ Dispatch \/ Returned \/ Fallback \/ BrokenElsewhere
  \/ \E i \in Pool: LeaveToLeader(i) \/ ComputePart(i)
  \/ Device

Spec == Init /\ [][Next]_vars
-----------------------------------------------------------------------------
PoolTypeOK ==
  /\ broken \in BOOLEAN
  /\ at \in [Pool -> 1 .. Products + 1]
  /\ step \in [Pool -> {"decide", "call", "fallback"}]
  /\ rows \in [1 .. Products -> SUBSET Pool]
  /\ disturbed \in BOOLEAN

TypeOK == StreamTypeOK /\ PoolTypeOK

\* When the closure has returned in every thread, every row of every product
\* is computed, on the device or on the CPU, provided the pool's own dispatches
\* are all that failed while it ran: a failure before it, by anyone, or in it,
\* by the leader, at any point of the other threads' progress.  Without the
\* proviso it is false: a user of the device outside the pool can break it
\* between the decisions of two threads, and the rows left to a leader who
\* then skips the device are computed by nobody.
RowsCompleteAlone ==
  Joined /\ ~disturbed => \A n \in 1 .. Products: rows[n] = Pool
=============================================================================
