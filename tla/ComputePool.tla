----------------------------- MODULE ComputePool -----------------------------
(***************************************************************************)
(* The thread pool of src/src/core/thread_pool.rs, for a pool of two       *)
(* threads or more: NThreads - 1 persistent workers that follow an epoch   *)
(* counter, spin, park on a condition variable and are woken; callers that *)
(* publish a closure through shared atomics (compute), or have fresh       *)
(* threads pull chunk numbers from a shared counter                        *)
(* (compute_with_chunks); and the drop of the pool.                        *)
(*                                                                         *)
(* Each atomic load, store or read-modify-write that another thread can    *)
(* observe is a step of its own.  The relaxed stores that publish a call   *)
(* sit between two SeqCst fences and before the SeqCst increment of the    *)
(* epoch, and a worker reads them after an acquire load of that epoch, so  *)
(* they are seen in order.  The one load that is not ordered with the      *)
(* publication, the relaxed load of `parked` in wake_parked, may return a  *)
(* stale value when StaleParked is TRUE.                                   *)
(***************************************************************************)
EXTENDS Integers, FiniteSets

CONSTANTS
  NThreads,    \* participants of a call: the caller is 0, the workers 1..NThreads-1
  Callers,     \* threads that share the pool (an Arc) and may call it
  MaxCalls,    \* bound on the calls of a behaviour, the final drop included
  NChunks,     \* chunks of a compute_with_chunks call
  MaxEpoch,    \* largest epoch before the counter wraps (2^32 - 1 in the code)
  Exclusive,   \* a lock of the callers' own serialises them
  StaleParked, \* the relaxed load in wake_parked may miss an increment
  Panics       \* which closures may panic, a subset of PanicSites

PanicSites == {"worker", "caller", "puller"}

ASSUME ConstantsOK ==
  /\ NThreads \in Nat /\ NThreads >= 2
  /\ MaxCalls \in Nat
  /\ NChunks \in Nat \ {0}
  /\ MaxEpoch \in Nat \ {0}
  /\ Exclusive \in BOOLEAN
  /\ StaleParked \in BOOLEAN
  /\ Panics \subseteq PanicSites

Threads == 0..NThreads-1
Workers == 1..NThreads-1
Calls   == 1..MaxCalls
Chunks  == 0..NChunks-1
Items   == Threads \union Chunks
None    == 0    \* no call (a null call_fn), or no holder of the parking lock

VARIABLES
  \* struct Inner
  callFn, callData, nComplete, epoch, shutdown, chunkCounter, parkLock, parked,
  \* the locals of worker_loop
  wpc, wEpoch, wFn, wData,
  \* the locals of the callers, and of the threads a chunked call spawns
  cpc, cur, puller, chunk,
  \* what each call is, whether what its closure borrows still exists, and how
  \* often the closure has been applied to each index
  op, live, applied

atomics    == <<callFn, callData, nComplete, epoch, shutdown, chunkCounter>>
parkVars   == <<parkLock, parked>>
workerVars == <<wpc, wEpoch, wFn, wData>>
callerVars == <<cpc, cur, puller, chunk>>
callVars   == <<op, live, applied>>
vars == <<atomics, parkVars, workerVars, callerVars, callVars>>

Wanted(k) == IF op[k] = "compute" THEN Threads
             ELSE IF op[k] = "chunks" THEN Chunks ELSE {}

\* Mutant: the counter does not wrap.
NextEpochNoWrap(e) == e + 1
NextEpoch(e) == IF e = MaxEpoch THEN 0 ELSE e + 1

\* ComputePool::new has passed its start barrier: the workers enter worker_loop.
Init ==
  /\ callFn = None /\ callData = None
  /\ nComplete = NThreads
  /\ epoch = 0
  /\ shutdown = FALSE
  /\ chunkCounter = 0
  /\ parkLock = None /\ parked = 0
  /\ wpc = [w \in Workers |-> "spin"]
  /\ wEpoch = [w \in Workers |-> 0]
  /\ wFn = [w \in Workers |-> None]
  /\ wData = [w \in Workers |-> None]
  /\ cpc = [c \in Callers |-> "out"]
  /\ cur = [c \in Callers |-> None]
  /\ puller = [c \in Callers |-> [t \in Threads |-> "none"]]
  /\ chunk = [c \in Callers |-> [t \in Threads |-> 0]]
  /\ op = [k \in Calls |-> "none"]
  /\ live = {}
  /\ applied = [k \in Calls |-> [i \in Items |-> 0]]

Worker(w, from, to) == wpc[w] = from /\ wpc' = [wpc EXCEPT ![w] = to]
Caller(c, from, to) == cpc[c] = from /\ cpc' = [cpc EXCEPT ![c] = to]

Apply(k, i) == applied' = [applied EXCEPT ![k][i] = @ + 1]

-----------------------------------------------------------------------------
(* worker_loop *)

\* `while epoch == my_epoch`: leave the loop as soon as a new epoch is seen.
SeeEpoch(w) ==
  /\ \/ epoch # wEpoch[w] /\ Worker(w, "spin", "adopt")
     \/ epoch = wEpoch[w] /\ Worker(w, "spin", "idle")
  /\ UNCHANGED <<atomics, parkVars, wEpoch, wFn, wData, callerVars, callVars>>

\* Still the old epoch: return on shutdown, else spin or yield again, or park
\* when the spins and PARK_AFTER are used up.
Idle(w) ==
  /\ \/ shutdown /\ Worker(w, "idle", "exit")
     \/ ~shutdown /\ (Worker(w, "idle", "spin") \/ Worker(w, "idle", "park"))
  /\ UNCHANGED <<atomics, parkVars, wEpoch, wFn, wData, callerVars, callVars>>

AnnouncePark(w) ==
  /\ Worker(w, "park", "lock")
  /\ parked' = parked + 1
  /\ UNCHANGED <<atomics, parkLock, wEpoch, wFn, wData, callerVars, callVars>>

TakeParkLock(w) ==
  /\ parkLock = None
  /\ Worker(w, "lock", "recheck")
  /\ parkLock' = w
  /\ UNCHANGED <<atomics, parked, wEpoch, wFn, wData, callerVars, callVars>>

\* Mutant: the worker goes to sleep without looking at the epoch again.
RecheckEpochSkipped(w) ==
  /\ Worker(w, "recheck", "recheckShutdown")
  /\ UNCHANGED <<atomics, parkVars, wEpoch, wFn, wData, callerVars, callVars>>

\* The re-check under the lock: two loads, then either the lock is dropped and
\* the loop left, or wait_timeout releases the lock and sleeps in one step.
RecheckEpoch(w) ==
  /\ \/ /\ epoch # wEpoch[w]
        /\ Worker(w, "recheck", "leave")
        /\ parkLock' = None
     \/ /\ epoch = wEpoch[w]
        /\ Worker(w, "recheck", "recheckShutdown")
        /\ UNCHANGED parkLock
  /\ UNCHANGED <<atomics, parked, wEpoch, wFn, wData, callerVars, callVars>>

RecheckShutdown(w) ==
  /\ Worker(w, "recheckShutdown", IF shutdown THEN "leave" ELSE "asleep")
  /\ parkLock' = None
  /\ UNCHANGED <<atomics, parked, wEpoch, wFn, wData, callerVars, callVars>>

\* Mutant: the early way out forgets parked.fetch_sub.
LeaveParkKeepsCount(w) ==
  /\ Worker(w, "leave", "adopt")
  /\ UNCHANGED <<atomics, parkVars, wEpoch, wFn, wData, callerVars, callVars>>

LeavePark(w) ==
  /\ Worker(w, "leave", "adopt")
  /\ parked' = parked - 1
  /\ UNCHANGED <<atomics, parkLock, wEpoch, wFn, wData, callerVars, callVars>>

\* Mutant: wait instead of wait_timeout.
ParkTimeoutNever(w) == FALSE /\ w \in Workers /\ UNCHANGED vars

\* PARK_TIMEOUT elapses (a spurious wake-up looks the same).
ParkTimeout(w) ==
  /\ Worker(w, "asleep", "woken")
  /\ UNCHANGED <<atomics, parkVars, wEpoch, wFn, wData, callerVars, callVars>>

\* wait_timeout takes the lock again; the returned guard is dropped at once.
ReturnFromWait(w) ==
  /\ parkLock = None
  /\ Worker(w, "woken", "resume")
  /\ UNCHANGED <<atomics, parkVars, wEpoch, wFn, wData, callerVars, callVars>>

Resume(w) ==
  /\ Worker(w, "resume", "spin")
  /\ parked' = parked - 1
  /\ UNCHANGED <<atomics, parkLock, wEpoch, wFn, wData, callerVars, callVars>>

AdoptEpoch(w) ==
  /\ Worker(w, "adopt", "gate")
  /\ wEpoch' = [wEpoch EXCEPT ![w] = epoch]
  /\ UNCHANGED <<atomics, parkVars, wFn, wData, callerVars, callVars>>

Gate(w) ==
  /\ Worker(w, "gate", IF shutdown THEN "exit" ELSE "fetchFn")
  /\ UNCHANGED <<atomics, parkVars, wEpoch, wFn, wData, callerVars, callVars>>

FetchFn(w) ==
  /\ Worker(w, "fetchFn", "fetchData")
  /\ wFn' = [wFn EXCEPT ![w] = callFn]
  /\ UNCHANGED <<atomics, parkVars, wEpoch, wData, callerVars, callVars>>

\* A null call_fn (the chunked path) means nothing to run.
FetchData(w) ==
  /\ Worker(w, "fetchData", IF wFn[w] = None THEN "ack" ELSE "run")
  /\ wData' = [wData EXCEPT ![w] = callData]
  /\ UNCHANGED <<atomics, parkVars, wEpoch, wFn, callerVars, callVars>>

\* f(tid, n_threads, call_data): the code is wFn's, the captures are wData's.
\* A panic unwinds worker_loop: the thread is gone and never acknowledges.
RunWorker(w) ==
  /\ \/ Worker(w, "run", "ack")
     \/ "worker" \in Panics /\ Worker(w, "run", "dead")
  /\ IF wData[w] = None THEN UNCHANGED applied ELSE Apply(wData[w], w)
  /\ UNCHANGED <<atomics, parkVars, wEpoch, wFn, wData, callerVars, op, live>>

Acknowledge(w) ==
  /\ Worker(w, "ack", "spin")
  /\ nComplete' = nComplete + 1
  /\ UNCHANGED <<callFn, callData, epoch, shutdown, chunkCounter, parkVars,
                 wEpoch, wFn, wData, callerVars, callVars>>

WorkerStep(w) ==
  \/ SeeEpoch(w) \/ Idle(w) \/ AnnouncePark(w) \/ TakeParkLock(w)
  \/ RecheckEpoch(w) \/ RecheckShutdown(w) \/ LeavePark(w)
  \/ ParkTimeout(w) \/ ReturnFromWait(w) \/ Resume(w)
  \/ AdoptEpoch(w) \/ Gate(w) \/ FetchFn(w) \/ FetchData(w)
  \/ RunWorker(w) \/ Acknowledge(w)

-----------------------------------------------------------------------------
(* compute, compute_with_chunks and drop, as one caller runs them *)

Away == {"out", "unwound"}
Dropping == \E k \in Calls : op[k] = "drop"

\* Whether a caller may start a call now.  Under Exclusive the callers hold a
\* lock of their own (Audio8's compute_lock, a text runtime's mutex); a panic
\* poisons it, and no caller gets in again.
MayEnter(c) == Exclusive => \A d \in Callers : cpc[d] = "out"

\* A call begins: its closure is boxed (compute) or put in an Arc (chunks).  The
\* pool is dropped by the last owner, when no other caller is inside.
Begin(c, what) ==
  /\ ~Dropping
  /\ IF what = "drop" THEN \A d \in Callers : cpc[d] \in Away ELSE MayEnter(c)
  /\ Caller(c, "out", "await")
  /\ \E k \in Calls :
       /\ op[k] = "none"
       /\ \A j \in Calls : j < k => op[j] # "none"
       /\ op' = [op EXCEPT ![k] = what]
       /\ cur' = [cur EXCEPT ![c] = k]
       /\ live' = IF what = "drop" THEN live ELSE live \union {k}
  /\ UNCHANGED <<atomics, parkVars, workerVars, puller, chunk, applied>>

\* wait_while(n_complete < n_threads) before anything is published.
AwaitIdle(c) ==
  /\ nComplete >= NThreads
  /\ Caller(c, "await", "reset")
  /\ UNCHANGED <<atomics, parkVars, workerVars, cur, puller, chunk, callVars>>

\* The three functions share this skeleton: where caller c goes next in its own.
ByOp(c, compute, chunks, drop) ==
  IF op[cur[c]] = "compute" THEN compute
  ELSE IF op[cur[c]] = "chunks" THEN chunks ELSE drop

\* Mutant: the caller counts itself complete when it resets the counter.
ResetCompleteCountsCaller(c) ==
  /\ Caller(c, "reset", ByOp(c, "storeFn", "spawn", "raiseShutdown"))
  /\ nComplete' = 1
  /\ UNCHANGED <<callFn, callData, epoch, shutdown, chunkCounter, parkVars,
                 workerVars, cur, puller, chunk, callVars>>

ResetComplete(c) ==
  /\ Caller(c, "reset", ByOp(c, "storeFn", "spawn", "raiseShutdown"))
  /\ nComplete' = 0
  /\ UNCHANGED <<callFn, callData, epoch, shutdown, chunkCounter, parkVars,
                 workerVars, cur, puller, chunk, callVars>>

StoreFn(c) ==
  /\ Caller(c, "storeFn", "storeData")
  /\ callFn' = cur[c]
  /\ UNCHANGED <<callData, nComplete, epoch, shutdown, chunkCounter, parkVars,
                 workerVars, cur, puller, chunk, callVars>>

StoreData(c) ==
  /\ Caller(c, "storeData", "publish")
  /\ callData' = cur[c]
  /\ UNCHANGED <<callFn, nComplete, epoch, shutdown, chunkCounter, parkVars,
                 workerVars, cur, puller, chunk, callVars>>

\* The chunked call spawns one thread for each worker; each waits on the
\* call's own barrier.
SpawnPullers(c) ==
  /\ Caller(c, "spawn", "clearCall")
  /\ puller' = [puller EXCEPT ![c] = [t \in Threads |-> IF t = 0 THEN "none" ELSE "barrier"]]
  /\ UNCHANGED <<atomics, parkVars, workerVars, cur, chunk, callVars>>

\* Mutant: chunk_counter keeps the value the previous chunked call left.
ClearCallKeepsCounter(c) ==
  /\ Caller(c, "clearCall", "publish")
  /\ callFn' = None
  /\ callData' = None
  /\ UNCHANGED <<nComplete, epoch, shutdown, chunkCounter, parkVars, workerVars,
                 cur, puller, chunk, callVars>>

\* call_fn := 0, call_data := 0, chunk_counter := 0.
ClearCall(c) ==
  /\ Caller(c, "clearCall", "publish")
  /\ callFn' = None
  /\ callData' = None
  /\ chunkCounter' = 0
  /\ UNCHANGED <<nComplete, epoch, shutdown, parkVars, workerVars, cur, puller,
                 chunk, callVars>>

\* Mutant: drop publishes an epoch without raising the flag.
RaiseShutdownForgotten(c) ==
  /\ Caller(c, "raiseShutdown", "publish")
  /\ UNCHANGED <<atomics, parkVars, workerVars, cur, puller, chunk, callVars>>

RaiseShutdown(c) ==
  /\ Caller(c, "raiseShutdown", "publish")
  /\ shutdown' = TRUE
  /\ UNCHANGED <<callFn, callData, nComplete, epoch, chunkCounter, parkVars,
                 workerVars, cur, puller, chunk, callVars>>

\* epoch.fetch_add(1): it wraps.
Publish(c) ==
  /\ Caller(c, "publish", "peek")
  /\ epoch' = NextEpoch(epoch)
  /\ UNCHANGED <<callFn, callData, nComplete, shutdown, chunkCounter, parkVars,
                 workerVars, cur, puller, chunk, callVars>>

AfterWake(c) == ByOp(c, "share", "acks", "joinWorkers")

\* wake_parked: return at once if no worker is seen parking ...
PeekParked(c) ==
  /\ \E seen \in IF StaleParked THEN {0, parked} ELSE {parked} :
       Caller(c, "peek", IF seen = 0 THEN AfterWake(c) ELSE "wake")
  /\ UNCHANGED <<atomics, parkVars, workerVars, cur, puller, chunk, callVars>>

\* ... else take the lock, notify_all, and release it.
WakeParked(c) ==
  /\ parkLock = None
  /\ Caller(c, "wake", AfterWake(c))
  /\ wpc' = [w \in Workers |-> IF wpc[w] = "asleep" THEN "woken" ELSE wpc[w]]
  /\ UNCHANGED <<atomics, parkVars, wEpoch, wFn, wData, cur, puller, chunk, callVars>>

\* The caller's own share, f(0, n_threads).  A panic unwinds the frame the
\* closure borrows from while the workers may still be in it.
RunShare(c) ==
  /\ \/ Caller(c, "share", "count") /\ UNCHANGED live
     \/ /\ "caller" \in Panics
        /\ Caller(c, "share", "unwound")
        /\ live' = live \ {cur[c]}
  /\ Apply(cur[c], 0)
  /\ UNCHANGED <<atomics, parkVars, workerVars, cur, puller, chunk, op>>

CountSelf(c) ==
  /\ Caller(c, "count", "join")
  /\ nComplete' = nComplete + 1
  /\ UNCHANGED <<callFn, callData, epoch, shutdown, chunkCounter, parkVars,
                 workerVars, cur, puller, chunk, callVars>>

\* Mutant: the bound of the chunked path's wait, one participant short.
JoinOneShort(c) ==
  /\ nComplete >= NThreads - 1
  /\ Caller(c, "join", IF op[cur[c]] = "compute" THEN "free" ELSE "clear")
  /\ UNCHANGED <<atomics, parkVars, workerVars, cur, puller, chunk, callVars>>

\* wait_while(n_complete < n_threads) at the end of the call.
Join(c) ==
  /\ nComplete >= NThreads
  /\ Caller(c, "join", IF op[cur[c]] = "compute" THEN "free" ELSE "clear")
  /\ UNCHANGED <<atomics, parkVars, workerVars, cur, puller, chunk, callVars>>

\* drop(Box::from_raw(data_ptr)), and compute returns.
FreeClosure(c) ==
  /\ Caller(c, "free", "out")
  /\ live' = live \ {cur[c]}
  /\ cur' = [cur EXCEPT ![c] = None]
  /\ UNCHANGED <<atomics, parkVars, workerVars, puller, chunk, op, applied>>

\* The chunked call waits for the workers' acknowledgements, then joins its
\* barrier: the last arrival releases every puller, and pulls chunks itself.
AwaitAcks(c) ==
  /\ nComplete >= NThreads - 1
  /\ Caller(c, "acks", "barrier")
  /\ UNCHANGED <<atomics, parkVars, workerVars, cur, puller, chunk, callVars>>

PassBarrier(c) ==
  /\ Caller(c, "barrier", "pull")
  /\ puller' = [puller EXCEPT ![c] = [t \in Threads |-> "fetch"]]
  /\ UNCHANGED <<atomics, parkVars, workerVars, cur, chunk, callVars>>

\* chunk_counter.fetch_add(1): a number below n_chunks is this thread's chunk.
FetchChunk(c, t) ==
  /\ puller[c][t] = "fetch"
  /\ puller' = [puller EXCEPT ![c][t] = IF chunkCounter < NChunks THEN "chunk" ELSE "done"]
  /\ chunk' = [chunk EXCEPT ![c][t] = chunkCounter]
  /\ chunkCounter' = chunkCounter + 1
  /\ UNCHANGED <<callFn, callData, nComplete, epoch, shutdown, parkVars,
                 workerVars, cpc, cur, callVars>>

\* A panic ends a spawned thread (its join result is ignored), and unwinds the
\* caller when it is the caller's own chunk.
RunChunk(c, t) ==
  /\ puller[c][t] = "chunk"
  /\ Apply(cur[c], chunk[c][t])
  /\ \/ puller' = [puller EXCEPT ![c][t] = "fetch"] /\ UNCHANGED cpc
     \/ /\ "puller" \in Panics
        /\ puller' = [puller EXCEPT ![c][t] = "dead"]
        /\ cpc' = IF t = 0 THEN [cpc EXCEPT ![c] = "unwound"] ELSE cpc
  /\ UNCHANGED <<atomics, parkVars, workerVars, cur, chunk, op, live>>

OwnChunksDone(c) ==
  /\ puller[c][0] = "done"
  /\ Caller(c, "pull", "count")
  /\ UNCHANGED <<atomics, parkVars, workerVars, cur, puller, chunk, callVars>>

\* The resets after a chunked call; the handles are joined next.
ClearAfter(c) ==
  /\ Caller(c, "clear", "joinPullers")
  /\ callFn' = None
  /\ callData' = None
  /\ UNCHANGED <<nComplete, epoch, shutdown, chunkCounter, parkVars, workerVars,
                 cur, puller, chunk, callVars>>

\* Mutant: the handles are dropped, not joined.
JoinPullersDetached(c) ==
  /\ Caller(c, "joinPullers", "out")
  /\ live' = live \ {cur[c]}
  /\ cur' = [cur EXCEPT ![c] = None]
  /\ puller' = [puller EXCEPT ![c] = [t \in Threads |-> "none"]]
  /\ chunk' = [chunk EXCEPT ![c] = [t \in Threads |-> 0]]
  /\ UNCHANGED <<atomics, parkVars, workerVars, op, applied>>

JoinPullers(c) ==
  /\ \A t \in Workers : puller[c][t] \in {"done", "dead"}
  /\ Caller(c, "joinPullers", "out")
  /\ live' = live \ {cur[c]}
  /\ cur' = [cur EXCEPT ![c] = None]
  /\ puller' = [puller EXCEPT ![c] = [t \in Threads |-> "none"]]
  /\ chunk' = [chunk EXCEPT ![c] = [t \in Threads |-> 0]]
  /\ UNCHANGED <<atomics, parkVars, workerVars, op, applied>>

\* Drop joins the worker threads; a thread that panicked is joined as well.
JoinWorkers(c) ==
  /\ \A w \in Workers : wpc[w] \in {"exit", "dead"}
  /\ Caller(c, "joinWorkers", "out")
  /\ cur' = [cur EXCEPT ![c] = None]
  /\ UNCHANGED <<atomics, parkVars, workerVars, puller, chunk, callVars>>

CallerStep(c) ==
  \/ AwaitIdle(c) \/ ResetComplete(c) \/ StoreFn(c) \/ StoreData(c)
  \/ SpawnPullers(c) \/ ClearCall(c) \/ RaiseShutdown(c)
  \/ Publish(c) \/ PeekParked(c) \/ WakeParked(c)
  \/ RunShare(c) \/ CountSelf(c) \/ Join(c) \/ FreeClosure(c)
  \/ AwaitAcks(c) \/ PassBarrier(c) \/ OwnChunksDone(c)
  \/ ClearAfter(c) \/ JoinPullers(c) \/ JoinWorkers(c)

PullerStep(c, t) == FetchChunk(c, t) \/ RunChunk(c, t)

Next ==
  \/ \E w \in Workers : WorkerStep(w)
  \/ \E c \in Callers : CallerStep(c)
  \/ \E c \in Callers, what \in {"compute", "chunks", "drop"} : Begin(c, what)
  \/ \E c \in Callers, t \in Threads : PullerStep(c, t)

Spec == Init /\ [][Next]_vars

\* Scheduling: every thread keeps running, a sleeping worker's timeout elapses,
\* and a thread asking for the parking lock gets it in the end (it is held for
\* two loads or one notify_all, and a worker parks at most once in 20 ms).
\* Nobody has to start a call, and nothing has to panic.
Fairness ==
  /\ \A w \in Workers : /\ WF_vars(WorkerStep(w))
                        /\ SF_vars(TakeParkLock(w))
                        /\ SF_vars(ReturnFromWait(w))
  /\ \A c \in Callers : /\ WF_vars(CallerStep(c))
                        /\ SF_vars(WakeParked(c))
                        /\ \A t \in Threads : WF_vars(PullerStep(c, t))

FairSpec == Spec /\ Fairness

-----------------------------------------------------------------------------
(* Properties *)

WorkerPCs == {"spin", "idle", "park", "lock", "recheck", "recheckShutdown",
              "leave", "asleep", "woken", "resume", "adopt", "gate", "fetchFn",
              "fetchData", "run", "ack", "exit", "dead"}
CallerPCs == {"out", "await", "reset", "storeFn", "storeData", "spawn",
              "clearCall", "raiseShutdown", "publish", "peek", "wake", "share",
              "count", "join", "free", "acks", "barrier", "pull", "clear",
              "joinPullers", "joinWorkers", "unwound"}
PullerPCs == {"none", "barrier", "fetch", "chunk", "done", "dead"}

TypeOK ==
  /\ callFn \in Calls \union {None} /\ callData \in Calls \union {None}
  /\ nComplete \in Int
  /\ epoch \in 0..MaxEpoch
  /\ shutdown \in BOOLEAN
  /\ chunkCounter \in Nat
  /\ parkLock \in Workers \union {None}
  /\ parked \in Int
  /\ wpc \in [Workers -> WorkerPCs]
  /\ wEpoch \in [Workers -> 0..MaxEpoch]
  /\ wFn \in [Workers -> Calls \union {None}]
  /\ wData \in [Workers -> Calls \union {None}]
  /\ cpc \in [Callers -> CallerPCs]
  /\ cur \in [Callers -> Calls \union {None}]
  /\ \A c \in Callers : cpc[c] # "out" => cur[c] \in Calls
  /\ puller \in [Callers -> [Threads -> PullerPCs]]
  /\ chunk \in [Callers -> [Threads -> Nat]]
  /\ op \in [Calls -> {"none", "compute", "chunks", "drop"}]
  /\ live \subseteq Calls
  /\ applied \in [Calls -> [Items -> Nat]]

\* `parked` counts exactly the workers between its increment and its decrement:
\* on no way out of the parking path is the decrement missed or made twice
\* (a usize that went below zero would make every later call take the lock, and
\* one that stayed above zero likewise; a zero too early loses the wake-up).
ParkingPCs == {"lock", "recheck", "recheckShutdown", "leave", "asleep", "woken", "resume"}
Parking == {w \in Workers : wpc[w] \in ParkingPCs}
ParkedIsExact == parked = Cardinality(Parking)

\* A worker that is inside a closure runs the code of a call with that call's
\* own captures, and the captures still exist: the box is freed, and the frame
\* it borrows from returns, only after the worker is out.  The one way to break
\* it is a panic of the caller's own share, which unwinds that frame.
Unwound == {cur[c] : c \in {d \in Callers : cpc[d] = "unwound"}}
ClosureAlive ==
  \A w \in Workers : wpc[w] = "run" =>
     /\ wFn[w] = wData[w]
     /\ wData[w] \in live \union Unwound

\* Fork-join, counted: no index of a call is ever applied twice, and when a
\* call is about to return every one of its indices has been applied, none
\* outside its range.  (A panicking closure has been applied.)
AboutToReturn(c) ==
  \/ cpc[c] = "free"
  \/ cpc[c] = "joinPullers" /\ \A t \in Workers : puller[c][t] \in {"done", "dead"}
ItemsRunOnce ==
  /\ \A k \in Calls, i \in Items :
        applied[k][i] <= IF i \in Wanted(k) THEN 1 ELSE 0
  /\ \A c \in Callers : AboutToReturn(c) =>
        \A i \in Wanted(cur[c]) : applied[cur[c]][i] = 1

\* The comments on park and wake_parked: a notification is not lost.  A worker
\* that sleeps although its epoch has passed is one the publishing caller has
\* still to wake, not one that is left to PARK_TIMEOUT.
NoSleepThroughEpoch ==
  \A w \in Workers : wpc[w] = "asleep" /\ wEpoch[w] # epoch =>
     \E c \in Callers : cpc[c] \in {"peek", "wake"}

\* What a worker reads after it has seen an epoch does not change under it: no
\* step replaces the closure, or publishes an epoch, while some worker is
\* between its look at the epoch and its acknowledgement.  (A worker that left
\* its loop because of the shutdown flag has no call to read.)
Engaged(w) == \/ wpc[w] \in {"fetchFn", "fetchData", "run", "ack"}
              \/ wpc[w] \in {"adopt", "gate"} /\ ~shutdown
CallStableWhileEngaged ==
  [][ \A w \in Workers : Engaged(w) => epoch' = epoch /\ callFn' = callFn
                                       /\ callData' = callData ]_vars

\* Every call returns: the closing spin on n_complete, the wait for the workers
\* of a chunked call, and the joins of a drop all end, whatever was parked when
\* the call was published.
EveryCallReturns == \A c \in Callers : cpc[c] = "await" ~> cpc[c] = "out"

\* After the pool is dropped no worker thread is left behind, spinning or asleep.
WorkersLeave == Dropping ~> \A w \in Workers : wpc[w] = "exit"

\* ComputePool implements fork-join.
Opened(c) == cpc[c] # "out" /\ op[cur[c]] # "drop"
FJ == INSTANCE ForkJoin WITH
        open <- {cur[c] : c \in {d \in Callers : Opened(d)}},
        wanted <- [k \in Calls |-> Wanted(k)]
ImplementsForkJoin == FJ!Spec
===============================================================================
