-------------------------- MODULE ComputePoolProofs --------------------------
(***************************************************************************)
(* Proofs about ComputePool, for every number of threads, callers, calls,  *)
(* chunks and epochs.                                                      *)
(***************************************************************************)
EXTENDS ComputePool, FiniteSetTheorems, TLAPS

-----------------------------------------------------------------------------
(* The inductive invariants *)

\* Which operation a caller at each of its program points is running, and that
\* its puller threads exist only during a chunked call.
ComputePCs == {"storeFn", "storeData", "share", "free"}
ChunkPCs   == {"spawn", "clearCall", "acks", "barrier", "pull", "clear", "joinPullers"}
DropPCs    == {"raiseShutdown", "joinWorkers"}
CallPCs    == {"count", "join", "unwound"}
Phases ==
  \A c \in Callers :
    /\ cpc[c] # "out" => op[cur[c]] # "none"
    /\ cpc[c] \in ComputePCs => op[cur[c]] = "compute"
    /\ cpc[c] \in ChunkPCs => op[cur[c]] = "chunks"
    /\ cpc[c] \in DropPCs => op[cur[c]] = "drop"
    /\ cpc[c] \in CallPCs => op[cur[c]] \in {"compute", "chunks"}
    /\ \A t \in Threads : puller[c][t] # "none" =>
          /\ cpc[c] \in CallPCs \union ChunkPCs \union {"publish", "peek", "wake"}
          /\ op[cur[c]] = "chunks"
    /\ puller[c][0] \in {"fetch", "chunk"} => cpc[c] = "pull"
TypeInv == TypeOK /\ Phases

IdlePCs == {"spin", "idle", "park", "lock", "recheck", "recheckShutdown",
            "leave", "asleep", "woken", "resume"}
Acked(w) == wpc[w] \in IdlePCs /\ wEpoch[w] = epoch
AckedSet == {w \in Workers : Acked(w)}

SettledPCs == {"out", "await", "reset", "free", "clear", "joinPullers"}
ArmedPCs   == {"storeFn", "storeData", "spawn", "clearCall", "raiseShutdown"}
RunningPCs == {"peek", "wake", "share", "acks", "barrier", "pull", "count"}
ReadingPCs == {"fetchFn", "fetchData", "run", "ack"}
AllAcked == \A w \in Workers : Acked(w)
IsDrop(c) == op[cur[c]] = "drop"

\* One caller at a time is between the start and the end of a call.
OneInside ==
  \A c, d \in Callers :
    /\ cpc[c] \notin Away /\ cpc[d] \notin Away => c = d
    /\ cpc[c] = "unwound" /\ cpc[d] # "out" =>
          c = d \/ (cpc[d] = "await" /\ IsDrop(d))

\* n_complete counts the workers that have acknowledged the current epoch, and
\* the caller once it has counted itself; it is full when nobody is in a call.
Counting ==
  /\ (\A c \in Callers : cpc[c] \in SettledPCs) /\ ~shutdown =>
        nComplete = NThreads /\ AllAcked
  /\ \A c \in Callers :
       /\ cpc[c] \in ArmedPCs \union {"publish"} => nComplete = 0 /\
            (~shutdown => AllAcked)
       /\ cpc[c] \in RunningPCs \union {"unwound"} /\ ~IsDrop(c) =>
            nComplete = Cardinality(AckedSet)
       /\ cpc[c] = "join" => nComplete = Cardinality(AckedSet) + 1

\* The shutdown flag is up exactly from drop's store on; nobody else is inside.
ShutdownPhase ==
  /\ shutdown => /\ Dropping
                 /\ \A w \in Workers : wpc[w] \notin ReadingPCs
                 /\ \A c \in Callers : cpc[c] \in
                      {"out", "publish", "peek", "wake", "joinWorkers"}
                      /\ (cpc[c] # "out" => IsDrop(c))
  /\ \A c \in Callers : cpc[c] # "out" /\ IsDrop(c) =>
        (shutdown <=> cpc[c] \in {"publish", "peek", "wake", "joinWorkers"})
  /\ ~shutdown => \A w \in Workers :
        /\ wpc[w] # "exit"
        /\ wpc[w] \in {"leave", "adopt"} => wEpoch[w] # epoch
        /\ wpc[w] \in {"gate"} \union ReadingPCs \union {"dead"} => wEpoch[w] = epoch

\* The published call is the one the workers in it read.
Published ==
  /\ \A c \in Callers :
       /\ cpc[c] # "out" /\ cpc[c] # "unwound" /\ ~IsDrop(c) => cur[c] \in live
       /\ cpc[c] \in {"storeData", "publish", "peek", "wake", "share", "count", "join", "unwound"}
             /\ op[cur[c]] = "compute" => callFn = cur[c]
       /\ cpc[c] \in {"publish", "peek", "wake", "share", "count", "join", "unwound"}
             /\ op[cur[c]] = "compute" => callData = cur[c]
       /\ cpc[c] \in {"publish", "peek", "wake", "acks", "barrier", "pull", "count", "join", "unwound"}
             /\ op[cur[c]] = "chunks" => callFn = None
  /\ \A w \in Workers :
       /\ wpc[w] \in {"fetchData", "run", "ack"} => wFn[w] = callFn
       /\ wpc[w] \in {"run", "ack"} => wData[w] = callData
       /\ wpc[w] = "run" => wFn[w] # None

IInv == OneInside /\ Counting /\ ShutdownPhase /\ Published

-----------------------------------------------------------------------------
(* Type correctness *)

LEMMA InitTypeInv == Init => TypeInv
<1> SUFFICES ASSUME Init PROVE TypeInv
  OBVIOUS
<1>1. applied \in [Calls -> [Items -> Nat]]
  BY DEF Init
<1>2. /\ puller \in [Callers -> [Threads -> PullerPCs]]
      /\ chunk \in [Callers -> [Threads -> Nat]]
  BY DEF Init, PullerPCs
<1>3. TypeOK
  <2>1. /\ callFn \in Calls \union {None} /\ callData \in Calls \union {None}
        /\ parkLock \in Workers \union {None}
    BY DEF Init
  <2>5. shutdown \in BOOLEAN
    BY DEF Init
  <2>6. /\ nComplete \in Int
        /\ epoch \in 0..MaxEpoch
        /\ chunkCounter \in Nat
        /\ parked \in Int
    BY ConstantsOK DEF Init
  <2>2. /\ wpc \in [Workers -> WorkerPCs]
        /\ wEpoch \in [Workers -> 0..MaxEpoch]
        /\ wFn \in [Workers -> Calls \union {None}]
        /\ wData \in [Workers -> Calls \union {None}]
    BY ConstantsOK DEF Init, WorkerPCs
  <2>3. /\ cpc \in [Callers -> CallerPCs]
        /\ cur \in [Callers -> Calls \union {None}]
        /\ \A c \in Callers : cpc[c] # "out" => cur[c] \in Calls
        /\ op \in [Calls -> {"none", "compute", "chunks", "drop"}]
        /\ live \subseteq Calls
    BY DEF Init, CallerPCs
  <2>4. QED BY <1>1, <1>2, <2>1, <2>2, <2>3, <2>5, <2>6 DEF TypeOK
<1>4. Phases
  BY ConstantsOK DEF Init, Phases, Threads, ComputePCs, ChunkPCs, DropPCs, CallPCs
<1>5. QED
  BY <1>3, <1>4 DEF TypeInv

\* Applying a closure keeps the counts typed, whatever the call and the index.
LEMMA ApplyType ==
  ASSUME applied \in [Calls -> [Items -> Nat]], NEW k, NEW i, Apply(k, i)
  PROVE  applied' \in [Calls -> [Items -> Nat]]
<1>1. ASSUME NEW j \in Calls PROVE applied'[j] \in [Items -> Nat]
  <2>1. CASE j = k
    <3>1. applied'[j] = [applied[j] EXCEPT ![i] = applied[j][i] + 1]
      BY <2>1 DEF Apply
    <3>2. applied[j] \in [Items -> Nat]
      OBVIOUS
    <3>3. [applied[j] EXCEPT ![i] = applied[j][i] + 1] \in [Items -> Nat]
      <4>1. CASE i \in Items
        BY <3>2, <4>1
      <4>2. CASE i \notin Items
        BY <3>2, <4>2
      <4>3. QED BY <4>1, <4>2
    <3>4. QED BY <3>1, <3>3
  <2>2. CASE j # k
    BY <2>2 DEF Apply
  <2>3. QED BY <2>1, <2>2
<1>2. applied' = [j \in Calls |-> applied'[j]]
  BY DEF Apply
<1>3. QED BY <1>1, <1>2

LEMMA TypeInvStep == TypeInv /\ [Next]_vars => TypeInv'
<1> SUFFICES ASSUME TypeInv, [Next]_vars PROVE TypeInv'
  OBVIOUS
<1> USE ConstantsOK DEF TypeInv, TypeOK
<1>1. ASSUME NEW w \in Workers, WorkerStep(w) PROVE TypeInv'
  <2>1. CASE SeeEpoch(w)
    BY <2>1 DEF SeeEpoch, Worker, WorkerPCs, Phases, atomics, parkVars, callerVars,
       callVars
  <2>2. CASE Idle(w)
    BY <2>2 DEF Idle, Worker, WorkerPCs, Phases, atomics, parkVars, callerVars,
       callVars
  <2>3. CASE AnnouncePark(w)
    BY <2>3 DEF AnnouncePark, Worker, WorkerPCs, Phases, atomics, callerVars,
       callVars
  <2>4. CASE TakeParkLock(w)
    BY <2>4 DEF TakeParkLock, Worker, WorkerPCs, Phases, atomics, callerVars,
       callVars
  <2>5. CASE RecheckEpoch(w)
    BY <2>5 DEF RecheckEpoch, Worker, WorkerPCs, Phases, atomics, callerVars,
       callVars
  <2>6. CASE RecheckShutdown(w)
    BY <2>6 DEF RecheckShutdown, Worker, WorkerPCs, Phases, atomics, callerVars,
       callVars
  <2>7. CASE LeavePark(w)
    BY <2>7 DEF LeavePark, Worker, WorkerPCs, Phases, atomics, callerVars, callVars
  <2>8. CASE ParkTimeout(w)
    BY <2>8 DEF ParkTimeout, Worker, WorkerPCs, Phases, atomics, parkVars,
       callerVars, callVars
  <2>9. CASE ReturnFromWait(w)
    BY <2>9 DEF ReturnFromWait, Worker, WorkerPCs, Phases, atomics, parkVars,
       callerVars, callVars
  <2>10. CASE Resume(w)
    BY <2>10 DEF Resume, Worker, WorkerPCs, Phases, atomics, callerVars, callVars
  <2>11. CASE AdoptEpoch(w)
    BY <2>11 DEF AdoptEpoch, Worker, WorkerPCs, Phases, atomics, parkVars,
       callerVars, callVars
  <2>12. CASE Gate(w)
    BY <2>12 DEF Gate, Worker, WorkerPCs, Phases, atomics, parkVars, callerVars,
       callVars
  <2>13. CASE FetchFn(w)
    BY <2>13 DEF FetchFn, Worker, WorkerPCs, Phases, atomics, parkVars, callerVars,
       callVars
  <2>14. CASE FetchData(w)
    BY <2>14 DEF FetchData, Worker, WorkerPCs, Phases, atomics, parkVars,
       callerVars, callVars
  <2>15. CASE RunWorker(w)
    <3>1. applied' \in [Calls -> [Items -> Nat]]
      BY <2>15, ApplyType DEF RunWorker
    <3>2. QED
      BY <2>15, <3>1 DEF RunWorker, Worker, WorkerPCs, Phases, atomics, parkVars, callerVars
  <2>16. CASE Acknowledge(w)
    BY <2>16 DEF Acknowledge, Worker, WorkerPCs, Phases, parkVars, callerVars,
       callVars
  <2>17. QED BY <1>1, <2>1, <2>2, <2>3, <2>4, <2>5, <2>6, <2>7, <2>8, <2>9, <2>10, <2>11, <2>12, <2>13, <2>14, <2>15, <2>16 DEF WorkerStep
<1>2. ASSUME NEW c \in Callers, CallerStep(c) PROVE TypeInv'
  <2>1. CASE AwaitIdle(c)
    <3>1. TypeOK'
      BY <2>1 DEF AwaitIdle, Caller, CallerPCs, atomics, parkVars, workerVars,
         callVars
    <3>2. Phases'
      BY <2>1 DEF AwaitIdle, Caller, Phases, ComputePCs, ChunkPCs, DropPCs,
         CallPCs, atomics, parkVars, workerVars, callVars
    <3>3. QED BY <3>1, <3>2
  <2>2. CASE ResetComplete(c)
    <3>1. TypeOK'
      BY <2>2 DEF ResetComplete, ByOp, Caller, CallerPCs, parkVars, workerVars,
         callVars
    <3>2. Phases'
      BY <2>2 DEF ResetComplete, ByOp, Caller, Phases, ComputePCs, ChunkPCs,
         DropPCs, CallPCs, parkVars, workerVars, callVars
    <3>3. QED BY <3>1, <3>2
  <2>3. CASE StoreFn(c)
    BY <2>3 DEF StoreFn, Caller, CallerPCs, PullerPCs, Threads, Phases, ComputePCs,
       ChunkPCs, DropPCs, CallPCs, parkVars, workerVars, callVars
  <2>4. CASE StoreData(c)
    BY <2>4 DEF StoreData, Caller, CallerPCs, PullerPCs, Threads, Phases,
       ComputePCs, ChunkPCs, DropPCs, CallPCs, parkVars, workerVars, callVars
  <2>5. CASE SpawnPullers(c)
    BY <2>5 DEF SpawnPullers, Caller, CallerPCs, PullerPCs, Threads, Phases,
       ComputePCs, ChunkPCs, DropPCs, CallPCs, atomics, parkVars, workerVars,
       callVars
  <2>6. CASE ClearCall(c)
    BY <2>6 DEF ClearCall, Caller, CallerPCs, PullerPCs, Threads, Phases,
       ComputePCs, ChunkPCs, DropPCs, CallPCs, parkVars, workerVars, callVars
  <2>7. CASE RaiseShutdown(c)
    BY <2>7 DEF RaiseShutdown, Caller, CallerPCs, PullerPCs, Threads, Phases,
       ComputePCs, ChunkPCs, DropPCs, CallPCs, parkVars, workerVars, callVars
  <2>8. CASE Publish(c)
    <3>1. TypeOK'
      BY <2>8 DEF Publish, Caller, NextEpoch, CallerPCs, parkVars, workerVars,
         callVars
    <3>2. Phases'
      BY <2>8 DEF Publish, Caller, NextEpoch, Phases, ComputePCs, ChunkPCs,
         DropPCs, CallPCs, parkVars, workerVars, callVars
    <3>3. QED BY <3>1, <3>2
  <2>9. CASE PeekParked(c)
    <3>1. TypeOK'
      BY <2>9 DEF PeekParked, Caller, AfterWake, ByOp, CallerPCs, atomics,
         parkVars, workerVars, callVars
    <3>2. Phases'
      BY <2>9 DEF PeekParked, Caller, AfterWake, ByOp, Phases, ComputePCs,
         ChunkPCs, DropPCs, CallPCs, atomics, parkVars, workerVars, callVars
    <3>3. QED BY <3>1, <3>2
  <2>10. CASE WakeParked(c)
    <3>1. TypeOK'
      BY <2>10 DEF WakeParked, Caller, AfterWake, ByOp, CallerPCs, WorkerPCs, atomics,
         parkVars, callVars
    <3>2. Phases'
      BY <2>10 DEF WakeParked, Caller, AfterWake, ByOp, Phases, ComputePCs,
         ChunkPCs, DropPCs, CallPCs, atomics, parkVars, callVars
    <3>3. QED BY <3>1, <3>2
  <2>11. CASE RunShare(c)
    <3>1. applied' \in [Calls -> [Items -> Nat]]
      BY <2>11, ApplyType DEF RunShare
    <3>2. /\ cpc[c] = "share"
          /\ \/ cpc' = [cpc EXCEPT ![c] = "count"]
             \/ cpc' = [cpc EXCEPT ![c] = "unwound"]
          /\ live' \subseteq Calls
          /\ UNCHANGED <<atomics, parkVars, workerVars, cur, puller, chunk, op>>
      BY <2>11 DEF RunShare, Caller
    <3>3. TypeOK'
      BY <3>1, <3>2 DEF CallerPCs, atomics, parkVars, workerVars
    <3>4. Phases'
      BY <3>2 DEF Phases, Threads, ComputePCs, ChunkPCs, DropPCs, CallPCs
    <3>5. QED BY <3>3, <3>4
  <2>12. CASE CountSelf(c)
    BY <2>12 DEF CountSelf, Caller, CallerPCs, PullerPCs, Threads, Phases,
       ComputePCs, ChunkPCs, DropPCs, CallPCs, parkVars, workerVars, callVars
  <2>13. CASE Join(c)
    BY <2>13 DEF Join, Caller, CallerPCs, PullerPCs, Threads, Phases, ComputePCs,
       ChunkPCs, DropPCs, CallPCs, atomics, parkVars, workerVars, callVars
  <2>14. CASE FreeClosure(c)
    BY <2>14 DEF FreeClosure, Caller, CallerPCs, PullerPCs, Threads, Phases,
       ComputePCs, ChunkPCs, DropPCs, CallPCs, atomics, parkVars, workerVars
  <2>15. CASE AwaitAcks(c)
    BY <2>15 DEF AwaitAcks, Caller, CallerPCs, PullerPCs, Threads, Phases,
       ComputePCs, ChunkPCs, DropPCs, CallPCs, atomics, parkVars, workerVars,
       callVars
  <2>16. CASE PassBarrier(c)
    BY <2>16 DEF PassBarrier, Caller, CallerPCs, PullerPCs, Threads, Phases,
       ComputePCs, ChunkPCs, DropPCs, CallPCs, atomics, parkVars, workerVars,
       callVars
  <2>17. CASE OwnChunksDone(c)
    BY <2>17 DEF OwnChunksDone, Caller, CallerPCs, PullerPCs, Threads, Phases,
       ComputePCs, ChunkPCs, DropPCs, CallPCs, atomics, parkVars, workerVars,
       callVars
  <2>18. CASE ClearAfter(c)
    BY <2>18 DEF ClearAfter, Caller, CallerPCs, PullerPCs, Threads, Phases,
       ComputePCs, ChunkPCs, DropPCs, CallPCs, parkVars, workerVars, callVars
  <2>19. CASE JoinPullers(c)
    BY <2>19 DEF JoinPullers, Caller, CallerPCs, PullerPCs, Threads, Phases,
       ComputePCs, ChunkPCs, DropPCs, CallPCs, atomics, parkVars, workerVars
  <2>20. CASE JoinWorkers(c)
    BY <2>20 DEF JoinWorkers, Caller, CallerPCs, PullerPCs, Threads, Phases,
       ComputePCs, ChunkPCs, DropPCs, CallPCs, atomics, parkVars, workerVars,
       callVars
  <2>21. QED BY <1>2, <2>1, <2>2, <2>3, <2>4, <2>5, <2>6, <2>7, <2>8, <2>9, <2>10, <2>11, <2>12, <2>13, <2>14, <2>15, <2>16, <2>17, <2>18, <2>19, <2>20 DEF CallerStep
<1>3. ASSUME NEW c \in Callers, NEW what \in {"compute", "chunks", "drop"}, Begin(c, what)
      PROVE TypeInv'
  <2>1. PICK k \in Calls :
          /\ op[k] = "none"
          /\ op' = [op EXCEPT ![k] = what]
          /\ cur' = [cur EXCEPT ![c] = k]
          /\ live' = IF what = "drop" THEN live ELSE live \union {k}
    BY <1>3 DEF Begin
  <2>2. /\ cpc[c] = "out" /\ cpc' = [cpc EXCEPT ![c] = "await"]
        /\ UNCHANGED <<atomics, parkVars, workerVars, puller, chunk, applied>>
    BY <1>3 DEF Begin, Caller
  <2>3. TypeOK'
    BY <2>1, <2>2 DEF CallerPCs, atomics, parkVars, workerVars
  <2>4. ASSUME NEW d \in Callers, cpc[d] # "out" PROVE op'[cur'[d]] = op[cur[d]]
    BY <2>1, <2>2, <2>4 DEF Phases
  <2>5. \A t \in Threads : puller[c][t] = "none"
    BY <2>2 DEF Phases, ChunkPCs, CallPCs
  <2>6. Phases'
    BY <2>1, <2>2, <2>4, <2>5 DEF Phases, Threads, ComputePCs, ChunkPCs, DropPCs, CallPCs
  <2>7. QED BY <2>3, <2>6
<1>4. ASSUME NEW c \in Callers, NEW t \in Threads, PullerStep(c, t) PROVE TypeInv'
  <2>1. CASE FetchChunk(c, t)
    BY <2>1 DEF FetchChunk, PullerPCs, Phases, parkVars, workerVars, callVars
  <2>2. CASE RunChunk(c, t)
    <3>1. applied' \in [Calls -> [Items -> Nat]]
      BY <2>2, ApplyType DEF RunChunk
    <3>2. /\ puller[c][t] = "chunk"
          /\ UNCHANGED <<atomics, parkVars, workerVars, cur, chunk, op, live>>
          /\ \/ puller' = [puller EXCEPT ![c][t] = "fetch"] /\ UNCHANGED cpc
             \/ puller' = [puller EXCEPT ![c][t] = "dead"] /\ UNCHANGED cpc /\ t # 0
             \/ puller' = [puller EXCEPT ![c][t] = "dead"] /\ cpc' = [cpc EXCEPT ![c] = "unwound"] /\ t = 0
      BY <2>2 DEF RunChunk
    <3>8. /\ cpc' \in [Callers -> CallerPCs]
          /\ puller' \in [Callers -> [Threads -> PullerPCs]]
      <4>1. puller' \in [Callers -> [Threads -> PullerPCs]]
        <5>1. ASSUME NEW v \in PullerPCs
              PROVE  [puller EXCEPT ![c][t] = v] \in [Callers -> [Threads -> PullerPCs]]
          OBVIOUS
        <5>2. "fetch" \in PullerPCs /\ "dead" \in PullerPCs
          BY DEF PullerPCs
        <5>3. QED BY <3>2, <5>1, <5>2
      <4>2. cpc' \in [Callers -> CallerPCs]
        BY <3>2 DEF CallerPCs
      <4>3. QED BY <4>1, <4>2
    <3>3. /\ cpc[c] # "out" /\ op[cur[c]] = "chunks"
          /\ cpc[c] \in CallPCs \union ChunkPCs \union {"publish", "peek", "wake"}
      BY <3>2 DEF Phases, ChunkPCs, CallPCs
    <3>4. \A d \in Callers : cpc'[d] # "out" => cpc[d] # "out"
      BY <3>2, <3>3
    <3>5. TypeOK'
      BY <3>1, <3>2, <3>4, <3>8 DEF atomics, parkVars, workerVars
    <3>6. Phases'
      <4>1. CASE puller' = [puller EXCEPT ![c][t] = "fetch"] /\ UNCHANGED cpc
        BY <4>1, <3>2, <3>3 DEF Threads, Phases
      <4>2. CASE puller' = [puller EXCEPT ![c][t] = "dead"] /\ UNCHANGED cpc
        BY <4>2, <3>2, <3>3 DEF Threads, Phases
      <4>3. CASE /\ puller' = [puller EXCEPT ![c][t] = "dead"]
                 /\ cpc' = [cpc EXCEPT ![c] = "unwound"]
                 /\ t = 0
        BY <4>3, <3>2, <3>3 DEF Threads, Phases, ComputePCs, ChunkPCs, DropPCs, CallPCs
      <4>4. QED BY <3>2, <4>1, <4>2, <4>3
    <3>7. QED BY <3>5, <3>6
  <2>3. QED BY <1>4, <2>1, <2>2 DEF PullerStep
<1>5. CASE UNCHANGED vars
  BY <1>5 DEF vars, Phases, atomics, parkVars, workerVars, callerVars, callVars
<1>6. QED
  BY <1>1, <1>2, <1>3, <1>4, <1>5 DEF Next

\* Every variable keeps its type, and a caller is only ever at a program point of
\* the operation it is running, for every instance of the constants, shared
\* pools and panicking closures included.
THEOREM TypeCorrect == Spec => []TypeOK
<1>1. Init => TypeInv
  BY InitTypeInv
<1>2. TypeInv /\ [Next]_vars => TypeInv'
  BY TypeInvStep
<1>3. TypeInv => TypeOK
  BY DEF TypeInv
<1>4. QED
  BY <1>1, <1>2, <1>3, PTL DEF Spec

-----------------------------------------------------------------------------
(* The parked counter *)

LEMMA WorkersFinite == IsFiniteSet(Workers) /\ Cardinality(Workers) = NThreads - 1
<1>1. 1 \in Int /\ NThreads - 1 \in Int /\ NThreads - 1 >= 1
  BY ConstantsOK
<1>2. IsFiniteSet(1..NThreads-1) /\ Cardinality(1..NThreads-1) = NThreads - 1
  BY <1>1, FS_Interval
<1>3. QED BY <1>2 DEF Workers

LEMMA ParkingFinite == IsFiniteSet(Parking)
  BY WorkersFinite, FS_Subset DEF Parking

\* Only the worker that steps, or the sleepers a notify_all wakes, change where
\* they are; and only the three counted transitions enter or leave the region.
LEMMA ParkingStep ==
  ASSUME TypeInv, Next
  PROVE  \/ parked' = parked /\ Parking' = Parking
         \/ \E w \in Workers \ Parking : parked' = parked + 1 /\ Parking' = Parking \union {w}
         \/ \E w \in Parking : parked' = parked - 1 /\ Parking' = Parking \ {w}
<1> USE DEF TypeInv, TypeOK
<1>1. ASSUME NEW w \in Workers, WorkerStep(w)
      PROVE  \/ parked' = parked /\ Parking' = Parking
             \/ w \notin Parking /\ parked' = parked + 1 /\ Parking' = Parking \union {w}
             \/ w \in Parking /\ parked' = parked - 1 /\ Parking' = Parking \ {w}
  <2>1. CASE AnnouncePark(w)
    BY <2>1 DEF AnnouncePark, Worker, Parking, ParkingPCs
  <2>2. CASE LeavePark(w) \/ Resume(w)
    BY <2>2 DEF LeavePark, Resume, Worker, Parking, ParkingPCs
  <2>3. CASE \/ SeeEpoch(w)
             \/ Idle(w)
             \/ TakeParkLock(w)
             \/ RecheckEpoch(w)
             \/ RecheckShutdown(w)
             \/ ParkTimeout(w)
             \/ ReturnFromWait(w)
             \/ AdoptEpoch(w)
             \/ Gate(w)
             \/ FetchFn(w)
             \/ FetchData(w)
             \/ RunWorker(w)
             \/ Acknowledge(w)
    BY <2>3 DEF SeeEpoch, Idle, TakeParkLock, RecheckEpoch, RecheckShutdown, ParkTimeout, ReturnFromWait, AdoptEpoch, Gate, FetchFn, FetchData, RunWorker, Acknowledge, Worker, Parking, ParkingPCs, parkVars
  <2>4. QED BY <1>1, <2>1, <2>2, <2>3 DEF WorkerStep
<1>2. ASSUME NEW c \in Callers, CallerStep(c) PROVE parked' = parked /\ Parking' = Parking
  <2>1. CASE WakeParked(c)
    BY <2>1 DEF WakeParked, Parking, ParkingPCs, parkVars
  <2>2. CASE \/ AwaitIdle(c)
             \/ ResetComplete(c)
             \/ StoreFn(c)
             \/ StoreData(c)
             \/ SpawnPullers(c)
             \/ ClearCall(c)
             \/ RaiseShutdown(c)
             \/ Publish(c)
             \/ PeekParked(c)
             \/ RunShare(c)
             \/ CountSelf(c)
             \/ Join(c)
             \/ FreeClosure(c)
             \/ AwaitAcks(c)
             \/ PassBarrier(c)
             \/ OwnChunksDone(c)
             \/ ClearAfter(c)
             \/ JoinPullers(c)
             \/ JoinWorkers(c)
    BY <2>2 DEF AwaitIdle, ResetComplete, StoreFn, StoreData, SpawnPullers, ClearCall, RaiseShutdown, Publish, PeekParked, RunShare, CountSelf, Join, FreeClosure, AwaitAcks, PassBarrier, OwnChunksDone, ClearAfter, JoinPullers, JoinWorkers, Parking, parkVars, workerVars
  <2>3. QED BY <1>2, <2>1, <2>2 DEF CallerStep
<1>3. ASSUME NEW c \in Callers, NEW what \in {"compute", "chunks", "drop"}, Begin(c, what)
      PROVE parked' = parked /\ Parking' = Parking
  BY <1>3 DEF Begin, Parking, parkVars, workerVars
<1>4. ASSUME NEW c \in Callers, NEW t \in Threads, PullerStep(c, t)
      PROVE parked' = parked /\ Parking' = Parking
  BY <1>4 DEF PullerStep, FetchChunk, RunChunk, Parking, parkVars, workerVars
<1>5. QED
  BY <1>1, <1>2, <1>3, <1>4 DEF Next, Parking

\* The dispatcher skips the wake-up when it reads 0: that is only right because
\* the count is exact.  It holds for shared pools and panicking closures too.
THEOREM ParkedExact == Spec => []ParkedIsExact
<1>1. Init => ParkedIsExact
  <2> SUFFICES ASSUME Init PROVE ParkedIsExact
    OBVIOUS
  <2>1. Parking = {}
    BY DEF Init, Parking, ParkingPCs
  <2>2. QED BY <2>1, FS_EmptySet DEF Init, ParkedIsExact
<1>2. TypeInv /\ ParkedIsExact /\ [Next]_vars => ParkedIsExact'
  <2> SUFFICES ASSUME TypeInv, ParkedIsExact, [Next]_vars PROVE ParkedIsExact'
    OBVIOUS
  <2>1. CASE parked' = parked /\ Parking' = Parking
    BY <2>1 DEF ParkedIsExact
  <2>2. ASSUME NEW w \in Workers \ Parking, parked' = parked + 1, Parking' = Parking \union {w}
        PROVE ParkedIsExact'
    BY <2>2, ParkingFinite, FS_AddElement DEF ParkedIsExact
  <2>3. ASSUME NEW w \in Parking, parked' = parked - 1, Parking' = Parking \ {w}
        PROVE ParkedIsExact'
    BY <2>3, ParkingFinite, FS_RemoveElement DEF ParkedIsExact
  <2>4. CASE UNCHANGED vars
    BY <2>4 DEF vars, parkVars, workerVars, ParkedIsExact, Parking
  <2>5. QED BY <2>1, <2>2, <2>3, <2>4, ParkingStep
<1>3. QED
  BY <1>1, <1>2, InitTypeInv, TypeInvStep, PTL DEF Spec

-----------------------------------------------------------------------------
(* What one step of a worker, and of a caller, can do *)

Unmoved(x) == wpc'[x] = wpc[x] /\ wEpoch'[x] = wEpoch[x] /\ wFn'[x] = wFn[x] /\ wData'[x] = wData[x]

\* The kinds of worker steps, by what the invariants can tell apart.
IdleMove(w) ==    \* within the spin and park loops
  /\ wpc[w] \in IdlePCs /\ wpc'[w] \in IdlePCs
  /\ wpc'[w] = "leave" => wEpoch[w] # epoch \/ shutdown
  /\ wEpoch'[w] = wEpoch[w] /\ nComplete' = nComplete
ToAdopt(w) ==
  /\ \/ wpc[w] = "spin" /\ wEpoch[w] # epoch
     \/ wpc[w] = "leave"
  /\ wpc'[w] = "adopt" /\ wEpoch'[w] = wEpoch[w] /\ nComplete' = nComplete
ToExit(w) ==
  /\ wpc[w] \in {"idle", "gate"} /\ shutdown
  /\ wpc'[w] = "exit" /\ wEpoch'[w] = wEpoch[w] /\ nComplete' = nComplete
ToGate(w) ==
  /\ wpc[w] = "adopt"
  /\ wpc'[w] = "gate" /\ wEpoch'[w] = epoch /\ nComplete' = nComplete
ReadMove(w) ==    \* from the gate to the acknowledgement
  /\ \/ wpc[w] = "gate" /\ ~shutdown /\ wpc'[w] = "fetchFn"
     \/ wpc[w] = "fetchFn" /\ wpc'[w] = "fetchData" /\ wFn'[w] = callFn
     \/ /\ wpc[w] = "fetchData" /\ wFn'[w] = wFn[w] /\ wData'[w] = callData
        /\ wpc'[w] = IF wFn[w] = None THEN "ack" ELSE "run"
     \/ wpc[w] = "run" /\ wpc'[w] = "ack" /\ wFn'[w] = wFn[w] /\ wData'[w] = wData[w]
     \/ wpc[w] = "run" /\ wpc'[w] = "dead"
  /\ wEpoch'[w] = wEpoch[w] /\ nComplete' = nComplete
AckMove(w) ==
  /\ wpc[w] = "ack" /\ wpc'[w] = "spin"
  /\ wEpoch'[w] = wEpoch[w] /\ nComplete' = nComplete + 1

LEMMA WorkerMoves ==
  ASSUME TypeInv, NEW w \in Workers, WorkerStep(w)
  PROVE  /\ UNCHANGED <<callFn, callData, epoch, shutdown, cpc, cur, op, live>>
         /\ \A x \in Workers \ {w} : Unmoved(x)
         /\ \/ IdleMove(w) \/ ToAdopt(w) \/ ToExit(w)
            \/ ToGate(w) \/ ReadMove(w) \/ AckMove(w)
<1> USE DEF TypeInv, TypeOK, Worker, Unmoved, atomics, parkVars, callerVars, callVars
<1>1. CASE SeeEpoch(w)
  BY <1>1 DEF SeeEpoch, IdleMove, ToAdopt, IdlePCs
<1>2. CASE Idle(w)
  BY <1>2 DEF Idle, IdleMove, ToExit, IdlePCs
<1>3. CASE AnnouncePark(w)
  BY <1>3 DEF AnnouncePark, IdleMove, IdlePCs
<1>4. CASE TakeParkLock(w)
  BY <1>4 DEF TakeParkLock, IdleMove, IdlePCs
<1>5. CASE RecheckEpoch(w)
  BY <1>5 DEF RecheckEpoch, IdleMove, IdlePCs
<1>6. CASE RecheckShutdown(w)
  BY <1>6 DEF RecheckShutdown, IdleMove, IdlePCs
<1>7. CASE LeavePark(w)
  BY <1>7 DEF LeavePark, ToAdopt
<1>8. CASE ParkTimeout(w)
  BY <1>8 DEF ParkTimeout, IdleMove, IdlePCs
<1>9. CASE ReturnFromWait(w)
  BY <1>9 DEF ReturnFromWait, IdleMove, IdlePCs
<1>10. CASE Resume(w)
  BY <1>10 DEF Resume, IdleMove, IdlePCs
<1>11. CASE AdoptEpoch(w)
  BY <1>11 DEF AdoptEpoch, ToGate
<1>12. CASE Gate(w)
  BY <1>12 DEF Gate, ReadMove, ToExit
<1>13. CASE FetchFn(w)
  BY <1>13 DEF FetchFn, ReadMove
<1>14. CASE FetchData(w)
  BY <1>14 DEF FetchData, ReadMove
<1>15. CASE RunWorker(w)
  BY <1>15 DEF RunWorker, ReadMove
<1>16. CASE Acknowledge(w)
  BY <1>16 DEF Acknowledge, AckMove
<1>17. QED
  BY WorkerStep(w), <1>1, <1>2, <1>3, <1>4, <1>5, <1>6, <1>7, <1>8, <1>9, <1>10, <1>11, <1>12, <1>13, <1>14, <1>15, <1>16 DEF WorkerStep

LEMMA CallerMoves ==
  ASSUME TypeInv, NEW c \in Callers, CallerStep(c)
  PROVE  /\ cpc[c] \notin Away
         /\ \A d \in Callers \ {c} : cpc'[d] = cpc[d] /\ cur'[d] = cur[d]
         /\ cpc[c] = "await" => AwaitIdle(c)
         /\ op' = op
  BY CallerStep(c) DEF TypeInv, TypeOK, CallerStep, Caller, Away, callVars,
     AwaitIdle, ResetComplete, StoreFn, StoreData, SpawnPullers, ClearCall, RaiseShutdown, Publish, PeekParked, WakeParked, RunShare, CountSelf, Join, FreeClosure, AwaitAcks, PassBarrier, OwnChunksDone, ClearAfter, JoinPullers, JoinWorkers

LEMMA NextEpochDiffers == \A e \in 0..MaxEpoch : NextEpoch(e) # e
  BY ConstantsOK DEF NextEpoch

\* A caller past its first wait is alone: no other is inside, and none unwound.
LEMMA Alone ==
  ASSUME OneInside, NEW c \in Callers, cpc[c] \notin Away \union {"await"},
         NEW d \in Callers \ {c}
  PROVE  cpc[d] = "out"
  BY DEF OneInside, Away

LEMMA AckedFinite ==
  /\ IsFiniteSet(AckedSet)
  /\ Cardinality(AckedSet) \in Nat
  /\ Cardinality(AckedSet) <= NThreads - 1
  /\ Cardinality(AckedSet) = NThreads - 1 => AllAcked
<1>1. AckedSet \in SUBSET Workers
  BY DEF AckedSet
<1>2. /\ IsFiniteSet(AckedSet)
      /\ Cardinality(AckedSet) <= Cardinality(Workers)
      /\ Cardinality(Workers) = Cardinality(AckedSet) => Workers = AckedSet
  BY <1>1, WorkersFinite, FS_Subset
<1>3. QED
  BY <1>2, WorkersFinite, FS_CardinalityType DEF AckedSet, AllAcked

\* While some worker has not acknowledged, a call is running, and nobody is at a
\* point where it could store a closure or publish an epoch.
LEMMA RunningWhileUnacked ==
  ASSUME TypeInv, IInv, ~shutdown, ~AllAcked
  PROVE  /\ \E c \in Callers : cpc[c] \in RunningPCs \union {"join", "unwound"} /\ ~IsDrop(c)
         /\ \A c \in Callers :
               cpc[c] \notin ArmedPCs \union {"publish", "reset", "free", "clear", "joinPullers", "joinWorkers"}
<1>1. PICK c \in Callers : cpc[c] \notin SettledPCs
  BY DEF IInv, Counting
<1>2. cpc[c] \notin ArmedPCs \union {"publish"}
  BY DEF IInv, Counting
<1>3. cpc[c] # "joinWorkers"
  BY DEF IInv, ShutdownPhase, TypeInv, Phases, DropPCs, IsDrop
<1>4. cpc[c] \in RunningPCs \union {"join", "unwound"}
  BY <1>1, <1>2, <1>3 DEF TypeInv, TypeOK, CallerPCs, SettledPCs, ArmedPCs, RunningPCs
<1>5. ~IsDrop(c)
  BY <1>4 DEF IInv, ShutdownPhase, TypeInv, Phases, ComputePCs, ChunkPCs, CallPCs, IsDrop, RunningPCs
<1>6. ASSUME NEW d \in Callers,
             cpc[d] \in ArmedPCs \union {"publish", "reset", "free", "clear", "joinPullers", "joinWorkers"}
      PROVE  FALSE
  <2>1. d # c
    BY <1>4, <1>6 DEF ArmedPCs, RunningPCs
  <2>2. cpc[c] = "out"
    BY <2>1, <1>6, Alone DEF IInv, ArmedPCs, Away
  <2>3. QED BY <2>2, <1>4 DEF RunningPCs
<1>7. QED BY <1>4, <1>5, <1>6

LEMMA PullerMoves ==
  ASSUME TypeInv, NEW c \in Callers, NEW t \in Threads, PullerStep(c, t)
  PROVE  /\ UNCHANGED <<callFn, callData, nComplete, epoch, shutdown, wpc, wEpoch,
                        wFn, wData, cur, op, live>>
         /\ \A d \in Callers \ {c} : cpc'[d] = cpc[d]
         /\ \/ cpc'[c] = cpc[c]
            \/ cpc[c] = "pull" /\ cpc'[c] = "unwound"
<1>1. CASE FetchChunk(c, t)
  BY <1>1 DEF FetchChunk, workerVars, callVars
<1>2. CASE RunChunk(c, t)
  <2>1. cpc \in [Callers -> CallerPCs]
    BY DEF TypeInv, TypeOK
  <2>2. t = 0 => cpc[c] = "pull"
    BY <1>2 DEF RunChunk, TypeInv, Phases
  <2>3. QED BY <1>2, <2>1, <2>2 DEF RunChunk, atomics, workerVars
<1>3. QED BY PullerStep(c, t), <1>1, <1>2 DEF PullerStep

LEMMA BeginMoves ==
  ASSUME TypeInv, NEW c \in Callers, NEW what \in {"compute", "chunks", "drop"},
         Begin(c, what)
  PROVE  /\ UNCHANGED <<callFn, callData, nComplete, epoch, shutdown, wpc, wEpoch,
                        wFn, wData>>
         /\ ~Dropping
         /\ cpc[c] = "out" /\ cpc'[c] = "await"
         /\ cur'[c] \in Calls /\ op'[cur'[c]] = what
         /\ what # "drop" => cur'[c] \in live'
         /\ live \subseteq live'
         /\ \A d \in Callers \ {c} :
               /\ cpc'[d] = cpc[d] /\ cur'[d] = cur[d]
               /\ cpc[d] # "out" => op'[cur[d]] = op[cur[d]]
         /\ Exclusive /\ what # "drop" => \A d \in Callers : cpc[d] = "out"
         /\ what = "drop" => \A d \in Callers : cpc[d] \in Away
<1>1. PICK k \in Calls :
        /\ op[k] = "none"
        /\ op' = [op EXCEPT ![k] = what]
        /\ cur' = [cur EXCEPT ![c] = k]
        /\ live' = IF what = "drop" THEN live ELSE live \union {k}
  BY Begin(c, what) DEF Begin
<1>2. /\ UNCHANGED <<callFn, callData, nComplete, epoch, shutdown, wpc, wEpoch,
                     wFn, wData>>
      /\ ~Dropping
      /\ cpc[c] = "out" /\ cpc' = [cpc EXCEPT ![c] = "await"]
      /\ Exclusive /\ what # "drop" => \A d \in Callers : cpc[d] = "out"
      /\ what = "drop" => \A d \in Callers : cpc[d] \in Away
  BY Begin(c, what) DEF Begin, Caller, MayEnter, atomics, workerVars
<1>3. /\ cur'[c] = k /\ op'[k] = what /\ cpc'[c] = "await"
      /\ \A d \in Callers \ {c} : cpc'[d] = cpc[d] /\ cur'[d] = cur[d]
  BY <1>1, <1>2 DEF TypeInv, TypeOK
<1>4. ASSUME NEW d \in Callers, cpc[d] # "out" PROVE op'[cur[d]] = op[cur[d]]
  BY <1>1, <1>4 DEF TypeInv, TypeOK, Phases
<1>5. QED BY <1>1, <1>2, <1>3, <1>4

-----------------------------------------------------------------------------
(* IInv is inductive when the callers are serialised *)

LEMMA InitIInv == Init => IInv
<1> SUFFICES ASSUME Init PROVE IInv
  OBVIOUS
<1>1. OneInside /\ ShutdownPhase /\ Published
  BY ConstantsOK DEF Init, OneInside, ShutdownPhase, Published, Away, ReadingPCs, Dropping, IsDrop
<1>2. Counting
  BY DEF Init, Counting, SettledPCs, ArmedPCs, RunningPCs, AllAcked, Acked, IdlePCs
<1>3. QED BY <1>1, <1>2 DEF IInv

LEMMA OneInsideStep ==
  ASSUME Exclusive, TypeInv, IInv, [Next]_vars
  PROVE  OneInside'
<1> USE DEF OneInside, IsDrop, Away
<1>0. OneInside
  BY DEF IInv
<1>1. ASSUME NEW w \in Workers, WorkerStep(w) PROVE OneInside'
  BY <1>0, <1>1, WorkerMoves
<1>2. ASSUME NEW c \in Callers, CallerStep(c) PROVE OneInside'
  <2>1. /\ cpc[c] \notin Away
        /\ \A d \in Callers \ {c} : cpc'[d] = cpc[d] /\ cur'[d] = cur[d]
        /\ cpc[c] = "await" => AwaitIdle(c)
        /\ op' = op
    BY <1>2, CallerMoves
  <2>2. CASE cpc[c] = "await"
    <3>1. nComplete >= NThreads
      BY <2>1, <2>2 DEF AwaitIdle
    <3>2. \A d \in Callers : cpc[d] # "unwound"
      <4> SUFFICES ASSUME NEW d \in Callers, cpc[d] = "unwound" PROVE FALSE
        OBVIOUS
      <4>1. nComplete = Cardinality(AckedSet)
        BY DEF IInv, Counting, TypeInv, Phases, CallPCs
      <4>2. QED BY <3>1, <4>1, AckedFinite, ConstantsOK
    <3>3. cpc'[c] = "reset"
      BY <2>1, <2>2 DEF AwaitIdle, Caller, TypeInv, TypeOK
    <3>4. QED BY <1>0, <2>1, <3>2, <3>3
  <2>3. CASE cpc[c] # "await"
    <3>1. \A d \in Callers \ {c} : cpc'[d] = "out"
      BY <2>1, <2>3, <1>0, Alone
    <3>2. QED BY <3>1
  <2>4. QED BY <2>2, <2>3
<1>3. ASSUME NEW c \in Callers, NEW what \in {"compute", "chunks", "drop"}, Begin(c, what)
      PROVE OneInside'
  <2>1. CASE what = "drop"
    BY <1>0, <1>3, <2>1, BeginMoves
  <2>2. CASE what # "drop"
    BY <1>3, <2>2, BeginMoves
  <2>3. QED BY <2>1, <2>2
<1>4. ASSUME NEW c \in Callers, NEW t \in Threads, PullerStep(c, t) PROVE OneInside'
  <2>1. CASE cpc'[c] = cpc[c]
    BY <1>0, <1>4, <2>1, PullerMoves
  <2>2. CASE cpc[c] = "pull"
    <3>1. \A d \in Callers \ {c} : cpc'[d] = "out"
      BY <1>0, <1>4, <2>2, Alone, PullerMoves
    <3>2. QED BY <3>1
  <2>3. QED BY <1>4, <2>1, <2>2, PullerMoves
<1>5. CASE UNCHANGED vars
  BY <1>0, <1>5 DEF vars, callerVars, callVars
<1>6. QED BY <1>1, <1>2, <1>3, <1>4, <1>5 DEF Next

LEMMA PublishedStep ==
  ASSUME Exclusive, TypeInv, IInv, [Next]_vars
  PROVE  Published'
<1> USE DEF Published, IsDrop
<1>0. Published /\ OneInside
  BY DEF IInv
<1>1. ASSUME NEW w \in Workers, WorkerStep(w) PROVE Published'
  <2>1. /\ UNCHANGED <<callFn, callData, cpc, cur, op, live>>
        /\ \A x \in Workers \ {w} : Unmoved(x)
        /\ \/ IdleMove(w) \/ ToAdopt(w) \/ ToExit(w)
           \/ ToGate(w) \/ ReadMove(w) \/ AckMove(w)
    BY <1>1, WorkerMoves
  <2>2. CASE ReadMove(w)
    BY <1>0, <2>1, <2>2 DEF ReadMove, Unmoved
  <2>3. CASE ~ReadMove(w)
    BY <1>0, <2>1, <2>3 DEF IdleMove, ToAdopt, ToExit, ToGate, AckMove, IdlePCs, Unmoved
  <2>4. QED BY <2>2, <2>3
<1>2. ASSUME NEW c \in Callers, CallerStep(c) PROVE Published'
  <2>1. /\ cpc[c] \notin Away
        /\ \A d \in Callers \ {c} : cpc'[d] = cpc[d] /\ cur'[d] = cur[d]
        /\ cpc[c] = "await" => AwaitIdle(c)
        /\ op' = op
    BY <1>2, CallerMoves
  <2>2. CASE AwaitIdle(c)
    BY <1>0, <2>2 DEF AwaitIdle, Caller, TypeInv, TypeOK, atomics, workerVars, callVars
  <2>3. CASE cpc[c] # "await"
    <3>1. \A d \in Callers \ {c} : cpc'[d] = "out"
      BY <2>1, <2>3, <1>0, Alone
    <3>2. SUFFICES ASSUME TRUE
          PROVE /\ cpc'[c] # "out" /\ cpc'[c] # "unwound" /\ op[cur'[c]] # "drop" => cur'[c] \in live'
                /\ cpc'[c] \in {"storeData", "publish", "peek", "wake", "share", "count", "join", "unwound"}
                      /\ op[cur'[c]] = "compute" => callFn' = cur'[c]
                /\ cpc'[c] \in {"publish", "peek", "wake", "share", "count", "join", "unwound"}
                      /\ op[cur'[c]] = "compute" => callData' = cur'[c]
                /\ cpc'[c] \in {"publish", "peek", "wake", "acks", "barrier", "pull", "count", "join", "unwound"}
                      /\ op[cur'[c]] = "chunks" => callFn' = None
                /\ \A w \in Workers :
                     /\ wpc'[w] \in {"fetchData", "run", "ack"} => wFn'[w] = callFn'
                     /\ wpc'[w] \in {"run", "ack"} => wData'[w] = callData'
                     /\ wpc'[w] = "run" => wFn'[w] # None
      BY <2>1, <3>1
    <3>3. CASE StoreFn(c) \/ StoreData(c) \/ ClearCall(c) \/ ClearAfter(c)
      <4>1. \A w \in Workers : wpc[w] \notin {"fetchData", "run", "ack"}
        <5>1. cpc[c] \in ArmedPCs \union {"clear"}
          BY <3>3 DEF StoreFn, StoreData, ClearCall, ClearAfter, Caller, ArmedPCs
        <5>2. \A w \in Workers : wpc[w] \in {"fetchData", "run", "ack"} => ~Acked(w)
          BY DEF Acked, IdlePCs
        <5>3. CASE shutdown
          BY <5>3 DEF IInv, ShutdownPhase, ReadingPCs
        <5>4. CASE ~shutdown
          BY <5>1, <5>2, <5>4, RunningWhileUnacked DEF AllAcked
        <5>5. QED BY <5>3, <5>4
      <4>2. CASE StoreFn(c)
        BY <1>0, <4>1, <4>2 DEF StoreFn, Caller, TypeInv, TypeOK, Phases, ComputePCs, workerVars, callVars
      <4>3. CASE StoreData(c)
        BY <1>0, <4>1, <4>3 DEF StoreData, Caller, TypeInv, TypeOK, Phases, ComputePCs, workerVars, callVars
      <4>4. CASE ClearCall(c)
        BY <1>0, <4>1, <4>4 DEF ClearCall, Caller, TypeInv, TypeOK, Phases, ChunkPCs, workerVars, callVars
      <4>5. CASE ClearAfter(c)
        BY <1>0, <4>1, <4>5 DEF ClearAfter, Caller, TypeInv, TypeOK, Phases, ChunkPCs, workerVars, callVars
      <4>6. QED BY <3>3, <4>2, <4>3, <4>4, <4>5
    <3>4. CASE ResetComplete(c) \/ SpawnPullers(c) \/ RaiseShutdown(c) \/ Publish(c)
      <4>1. CASE ResetComplete(c)
        BY <1>0, <4>1 DEF ResetComplete, Caller, ByOp, TypeInv, TypeOK, workerVars, callVars
      <4>2. CASE SpawnPullers(c)
        BY <1>0, <4>2 DEF SpawnPullers, Caller, TypeInv, TypeOK, atomics, workerVars, callVars
      <4>3. CASE RaiseShutdown(c)
        BY <1>0, <4>3 DEF RaiseShutdown, Caller, TypeInv, TypeOK, Phases, DropPCs, workerVars, callVars
      <4>4. CASE Publish(c)
        BY <1>0, <4>4 DEF Publish, Caller, TypeInv, TypeOK, workerVars, callVars
      <4>5. QED BY <3>4, <4>1, <4>2, <4>3, <4>4
    <3>5. CASE PeekParked(c) \/ CountSelf(c) \/ Join(c) \/ AwaitAcks(c) \/ PassBarrier(c) \/ OwnChunksDone(c)
      BY <1>0, <3>5 DEF PeekParked, CountSelf, Join, AwaitAcks, PassBarrier, OwnChunksDone, Caller, AfterWake, ByOp, TypeInv, TypeOK, Phases, ChunkPCs, CallPCs, atomics, workerVars, callVars
    <3>6. CASE WakeParked(c)
      BY <1>0, <3>6 DEF WakeParked, Caller, AfterWake, ByOp, TypeInv, TypeOK, Phases, atomics, callVars
    <3>7. CASE RunShare(c) \/ FreeClosure(c) \/ JoinPullers(c) \/ JoinWorkers(c)
      BY <1>0, <3>7 DEF RunShare, FreeClosure, JoinPullers, JoinWorkers, Caller, TypeInv, TypeOK, Phases, ComputePCs, ChunkPCs, atomics, workerVars, callVars
    <3>8. ~AwaitIdle(c)
      BY <2>3 DEF AwaitIdle, Caller
    <3>9. QED BY <1>2, <3>3, <3>4, <3>5, <3>6, <3>7, <3>8 DEF CallerStep
  <2>4. QED BY <2>1, <2>2, <2>3
<1>3. ASSUME NEW c \in Callers, NEW what \in {"compute", "chunks", "drop"}, Begin(c, what)
      PROVE Published'
  BY <1>0, <1>3, BeginMoves
<1>4. ASSUME NEW c \in Callers, NEW t \in Threads, PullerStep(c, t) PROVE Published'
  BY <1>0, <1>4, PullerMoves DEF TypeInv, Phases, ChunkPCs
<1>5. CASE UNCHANGED vars
  BY <1>0, <1>5 DEF vars, atomics, workerVars, callerVars, callVars
<1>6. QED BY <1>1, <1>2, <1>3, <1>4, <1>5 DEF Next

LEMMA ShutdownPhaseStep ==
  ASSUME Exclusive, TypeInv, IInv, [Next]_vars
  PROVE  ShutdownPhase'
<1> USE DEF ShutdownPhase, IsDrop, Dropping
<1>0. ShutdownPhase /\ OneInside
  BY DEF IInv
<1>1. ASSUME NEW w \in Workers, WorkerStep(w) PROVE ShutdownPhase'
  <2>1. /\ UNCHANGED <<epoch, shutdown, cpc, cur, op>>
        /\ \A x \in Workers \ {w} : Unmoved(x)
        /\ \/ IdleMove(w) \/ ToAdopt(w) \/ ToExit(w)
           \/ ToGate(w) \/ ReadMove(w) \/ AckMove(w)
    BY <1>1, WorkerMoves
  <2>2. CASE ReadMove(w)
    BY <1>0, <2>1, <2>2 DEF ReadMove, Unmoved, ReadingPCs
  <2>3. CASE ~ReadMove(w)
    BY <1>0, <2>1, <2>3 DEF IdleMove, ToAdopt, ToExit, ToGate, AckMove, IdlePCs, Unmoved, ReadingPCs
  <2>4. QED BY <2>2, <2>3
<1>2. ASSUME NEW c \in Callers, CallerStep(c) PROVE ShutdownPhase'
  <2>1. /\ cpc[c] \notin Away
        /\ \A d \in Callers \ {c} : cpc'[d] = cpc[d] /\ cur'[d] = cur[d]
        /\ cpc[c] = "await" => AwaitIdle(c)
        /\ op' = op
    BY <1>2, CallerMoves
  <2>2. CASE AwaitIdle(c)
    BY <1>0, <2>2 DEF AwaitIdle, Caller, TypeInv, TypeOK, atomics, workerVars, callVars
  <2>3. CASE cpc[c] # "await"
    <3>1. \A d \in Callers \ {c} : cpc'[d] = "out"
      BY <2>1, <2>3, <1>0, Alone
    <3>2. SUFFICES ASSUME TRUE
          PROVE /\ shutdown' =>
                     /\ \E k \in Calls : op[k] = "drop"
                     /\ \A w \in Workers : wpc'[w] \notin ReadingPCs
                     /\ cpc'[c] \in {"out", "publish", "peek", "wake", "joinWorkers"}
                     /\ cpc'[c] # "out" => op[cur'[c]] = "drop"
                /\ cpc'[c] # "out" /\ op[cur'[c]] = "drop" =>
                     (shutdown' <=> cpc'[c] \in {"publish", "peek", "wake", "joinWorkers"})
                /\ ~shutdown' => \A w \in Workers :
                     /\ wpc'[w] # "exit"
                     /\ wpc'[w] \in {"leave", "adopt"} => wEpoch'[w] # epoch'
                     /\ wpc'[w] \in {"gate"} \union ReadingPCs \union {"dead"} => wEpoch'[w] = epoch'
      BY <2>1, <3>1
    <3>3. CASE RaiseShutdown(c)
      <4>1. cpc[c] = "raiseShutdown" /\ op[cur[c]] = "drop" /\ cur[c] \in Calls
        BY <3>3 DEF RaiseShutdown, Caller, TypeInv, TypeOK, Phases, DropPCs
      <4>2. ~shutdown
        BY <1>0, <4>1
      <4>3. AllAcked
        BY <4>1, <4>2, RunningWhileUnacked DEF ArmedPCs
      <4>4. \A w \in Workers : wpc[w] \notin ReadingPCs
        BY <4>3 DEF AllAcked, Acked, IdlePCs, ReadingPCs
      <4>5. cpc'[c] = "publish" /\ shutdown' = TRUE /\ UNCHANGED <<wpc, cur>>
        BY <3>3 DEF RaiseShutdown, Caller, TypeInv, TypeOK, workerVars
      <4>6. QED BY <4>1, <4>4, <4>5
    <3>4. CASE Publish(c)
      <4>1. cpc[c] = "publish" /\ cpc'[c] = "peek" /\ UNCHANGED <<wpc, wEpoch, cur, shutdown>>
        BY <3>4 DEF Publish, Caller, TypeInv, TypeOK, workerVars
      <4>2. CASE shutdown
        BY <1>0, <4>1, <4>2
      <4>3. CASE ~shutdown
        <5>1. AllAcked
          BY <4>1, <4>3, RunningWhileUnacked
        <5>2. epoch' # epoch
          BY <3>4, NextEpochDiffers DEF Publish, TypeInv, TypeOK
        <5>3. QED BY <1>0, <4>1, <4>3, <5>1, <5>2 DEF AllAcked, Acked, IdlePCs, ReadingPCs
      <4>4. QED BY <4>2, <4>3
    <3>5. CASE WakeParked(c)
      BY <1>0, <3>5 DEF WakeParked, Caller, AfterWake, ByOp, TypeInv, TypeOK, Phases, ReadingPCs, atomics, callVars
    <3>6. CASE ResetComplete(c)
      BY <1>0, <3>6 DEF ResetComplete, Caller, ByOp, TypeInv, TypeOK, workerVars, callVars
    <3>7. CASE StoreFn(c) \/ StoreData(c) \/ SpawnPullers(c) \/ ClearCall(c)
      BY <1>0, <3>7 DEF StoreFn, StoreData, SpawnPullers, ClearCall, Caller, TypeInv, TypeOK, Phases, ComputePCs, ChunkPCs, atomics, workerVars, callVars
    <3>8. CASE PeekParked(c)
      BY <1>0, <3>8 DEF PeekParked, Caller, AfterWake, ByOp, TypeInv, TypeOK, atomics, workerVars, callVars
    <3>9. CASE CountSelf(c) \/ Join(c) \/ AwaitAcks(c) \/ PassBarrier(c) \/ OwnChunksDone(c) \/ ClearAfter(c)
      BY <1>0, <3>9 DEF CountSelf, Join, AwaitAcks, PassBarrier, OwnChunksDone, ClearAfter, Caller, TypeInv, TypeOK, Phases, ChunkPCs, CallPCs, atomics, workerVars, callVars
    <3>10. CASE RunShare(c) \/ FreeClosure(c) \/ JoinPullers(c) \/ JoinWorkers(c)
      BY <1>0, <3>10 DEF RunShare, FreeClosure, JoinPullers, JoinWorkers, Caller, TypeInv, TypeOK, Phases, ComputePCs, ChunkPCs, atomics, workerVars, callVars
    <3>11. ~AwaitIdle(c)
      BY <2>3 DEF AwaitIdle, Caller
    <3>12. QED BY <1>2, <3>3, <3>4, <3>5, <3>6, <3>7, <3>8, <3>9, <3>10, <3>11 DEF CallerStep
  <2>4. QED BY <2>1, <2>2, <2>3
<1>3. ASSUME NEW c \in Callers, NEW what \in {"compute", "chunks", "drop"}, Begin(c, what)
      PROVE ShutdownPhase'
  <2>1. ~shutdown
    BY <1>0, <1>3, BeginMoves
  <2>2. QED BY <1>0, <1>3, <2>1, BeginMoves
<1>4. ASSUME NEW c \in Callers, NEW t \in Threads, PullerStep(c, t) PROVE ShutdownPhase'
  BY <1>0, <1>4, PullerMoves DEF TypeInv, Phases, ChunkPCs
<1>5. CASE UNCHANGED vars
  BY <1>0, <1>5 DEF vars, atomics, workerVars, callerVars, callVars
<1>6. QED BY <1>1, <1>2, <1>3, <1>4, <1>5 DEF Next

\* A worker's step leaves the acknowledged set alone, unless it acknowledges.
LEMMA AckedSetMoves ==
  ASSUME TypeInv, IInv, ~shutdown, NEW w \in Workers, WorkerStep(w)
  PROVE  \/ AckMove(w) /\ w \notin AckedSet /\ AckedSet' = AckedSet \union {w}
         \/ ~AckMove(w) /\ nComplete' = nComplete /\ AckedSet' = AckedSet
<1>1. /\ UNCHANGED <<epoch, shutdown>>
      /\ \A x \in Workers \ {w} : Unmoved(x)
      /\ \/ IdleMove(w) \/ ToAdopt(w) \/ ToExit(w)
         \/ ToGate(w) \/ ReadMove(w) \/ AckMove(w)
  BY WorkerMoves
<1>2. \A x \in Workers \ {w} : Acked(x)' <=> Acked(x)
  BY <1>1 DEF Acked, Unmoved
<1>3. CASE AckMove(w)
  <2>1. ~Acked(w) /\ Acked(w)'
    BY <1>1, <1>3 DEF AckMove, Acked, IdlePCs, IInv, ShutdownPhase, ReadingPCs
  <2>2. QED BY <1>2, <1>3, <2>1 DEF AckedSet
<1>4. CASE ~AckMove(w)
  <2>1. nComplete' = nComplete
    BY <1>1, <1>4 DEF IdleMove, ToAdopt, ToExit, ToGate, ReadMove
  <2>2. Acked(w)' <=> Acked(w)
    BY <1>1, <1>4 DEF IdleMove, ToAdopt, ToExit, ToGate, ReadMove, Acked, IdlePCs, IInv, ShutdownPhase
  <2>3. QED BY <1>2, <1>4, <2>1, <2>2 DEF AckedSet
<1>5. QED BY <1>3, <1>4

LEMMA CountingStep ==
  ASSUME Exclusive, TypeInv, IInv, [Next]_vars
  PROVE  Counting'
<1> USE DEF IsDrop
<1>0. Counting /\ OneInside /\ ShutdownPhase
  BY DEF IInv
<1>1. ASSUME NEW w \in Workers, WorkerStep(w) PROVE Counting'
  <2>1. UNCHANGED <<epoch, shutdown, cpc, cur, op>>
    BY <1>1, WorkerMoves
  <2>2. CASE shutdown
    <3>1. nComplete' = nComplete
      BY <1>0, <1>1, <2>2, WorkerMoves
         DEF IdleMove, ToAdopt, ToExit, ToGate, ReadMove, AckMove, ShutdownPhase, ReadingPCs
    <3>2. \A c \in Callers : /\ cpc[c] # "join"
                             /\ cpc[c] # "out" => op[cur[c]] = "drop"
      BY <1>0, <2>2 DEF ShutdownPhase
    <3>3. \A c \in Callers : cpc[c] \in ArmedPCs \union {"publish"} => nComplete = 0
      BY <1>0 DEF Counting
    <3>4. QED BY <2>1, <2>2, <3>1, <3>2, <3>3 DEF Counting, RunningPCs
  <2>3. CASE ~shutdown /\ AckMove(w)
    <3>1. w \notin AckedSet /\ AckedSet' = AckedSet \union {w} /\ ~AllAcked
      BY <1>1, <2>3, AckedSetMoves DEF AllAcked, AckedSet
    <3>2. Cardinality(AckedSet') = Cardinality(AckedSet) + 1
      BY <3>1, AckedFinite, FS_AddElement
    <3>3. nComplete' = nComplete + 1 /\ nComplete \in Int /\ Cardinality(AckedSet) \in Nat
      BY <2>3, AckedFinite DEF AckMove, TypeInv, TypeOK
    <3>4. /\ \E c \in Callers : cpc[c] \notin SettledPCs
          /\ \A c \in Callers : cpc[c] \notin ArmedPCs \union {"publish"}
      BY <2>3, <3>1, RunningWhileUnacked DEF SettledPCs, RunningPCs
    <3>5. QED BY <1>0, <2>1, <3>2, <3>3, <3>4 DEF Counting
  <2>4. CASE ~shutdown /\ ~AckMove(w)
    <3>1. nComplete' = nComplete /\ AckedSet' = AckedSet
      BY <1>1, <2>4, AckedSetMoves
    <3>2. AllAcked' <=> AllAcked
      BY <3>1 DEF AckedSet, AllAcked
    <3>3. QED BY <1>0, <2>1, <3>1, <3>2 DEF Counting
  <2>5. QED BY <2>2, <2>3, <2>4
<1>2. ASSUME NEW c \in Callers, CallerStep(c) PROVE Counting'
  <2>1. /\ cpc[c] \notin Away
        /\ \A d \in Callers \ {c} : cpc'[d] = cpc[d] /\ cur'[d] = cur[d]
        /\ cpc[c] = "await" => AwaitIdle(c)
        /\ op' = op
    BY <1>2, CallerMoves
  <2>2. CASE AwaitIdle(c)
    <3>1. cpc[c] = "await" /\ cpc' = [cpc EXCEPT ![c] = "reset"]
          /\ UNCHANGED <<nComplete, epoch, shutdown, wpc, wEpoch, cur>>
      BY <2>2 DEF AwaitIdle, Caller, atomics, workerVars
    <3>2. AckedSet' = AckedSet /\ (AllAcked' <=> AllAcked)
      BY <3>1 DEF AckedSet, AllAcked, Acked
    <3>3. cpc'[c] = "reset" /\ \A d \in Callers \ {c} : cpc'[d] = cpc[d]
      BY <3>1 DEF TypeInv, TypeOK
    <3>4. QED BY <1>0, <2>1, <3>1, <3>2, <3>3 DEF Counting, SettledPCs, ArmedPCs, RunningPCs
  <2>3. CASE cpc[c] # "await"
    <3>1. \A d \in Callers \ {c} : cpc[d] = "out" /\ cpc'[d] = "out"
      BY <2>1, <2>3, <1>0, Alone
    <3>2. SUFFICES ASSUME TRUE
          PROVE /\ cpc'[c] \in SettledPCs /\ ~shutdown' => nComplete' = NThreads /\ AllAcked'
                /\ cpc'[c] \in ArmedPCs \union {"publish"} => nComplete' = 0 /\
                     (~shutdown' => AllAcked')
                /\ cpc'[c] \in RunningPCs \union {"unwound"} /\ op[cur'[c]] # "drop" =>
                     nComplete' = Cardinality(AckedSet')
                /\ cpc'[c] = "join" => nComplete' = Cardinality(AckedSet') + 1
      BY <2>1, <3>1 DEF Counting, SettledPCs, ArmedPCs, RunningPCs
    <3>3. cpc[c] \in SettledPCs /\ ~shutdown => nComplete = NThreads /\ AllAcked
      BY <1>0, <3>1 DEF Counting, SettledPCs
    <3>4. /\ cpc[c] \in ArmedPCs \union {"publish"} => nComplete = 0 /\ (~shutdown => AllAcked)
          /\ cpc[c] \in RunningPCs /\ op[cur[c]] # "drop" => nComplete = Cardinality(AckedSet)
          /\ cpc[c] = "join" => nComplete = Cardinality(AckedSet) + 1
      BY <1>0 DEF Counting
    <3>5. ~Publish(c) => AckedSet' = AckedSet /\ (AllAcked' <=> AllAcked)
      <4>1. ASSUME ~Publish(c)
            PROVE  /\ UNCHANGED <<epoch, wEpoch>>
                   /\ \A w \in Workers : wpc'[w] \in IdlePCs <=> wpc[w] \in IdlePCs
        <5>1. CASE WakeParked(c)
          BY <5>1 DEF WakeParked, IdlePCs, atomics
        <5>2. CASE ~WakeParked(c)
          BY <1>2, <4>1, <5>2 DEF CallerStep, atomics, workerVars, AwaitIdle, ResetComplete, StoreFn, StoreData, SpawnPullers, ClearCall, RaiseShutdown, PeekParked, RunShare, CountSelf, Join, FreeClosure, AwaitAcks, PassBarrier, OwnChunksDone, ClearAfter, JoinPullers, JoinWorkers
        <5>3. QED BY <5>1, <5>2
      <4>2. QED BY <4>1 DEF AckedSet, AllAcked, Acked
    <3>6. cpc[c] \in SettledPCs \union {"join", "count"} => ~shutdown
      BY <1>0, <2>1, <2>3 DEF ShutdownPhase, SettledPCs, Away
    <3>7. CASE Publish(c)
      <4>1. cpc[c] = "publish" /\ cpc'[c] = "peek" /\ nComplete' = 0 /\ cur' = cur
            /\ UNCHANGED <<wEpoch, shutdown>>
        BY <3>4, <3>7 DEF Publish, Caller, TypeInv, TypeOK, workerVars
      <4>2. ASSUME op[cur[c]] # "drop" PROVE AckedSet' = {}
        <5>1. ~shutdown
          BY <1>0, <4>1, <4>2 DEF ShutdownPhase
        <5>2. AllAcked /\ epoch' # epoch
          BY <3>4, <3>7, <4>1, <5>1, NextEpochDiffers DEF Publish, TypeInv, TypeOK
        <5>3. QED BY <4>1, <5>2 DEF AllAcked, AckedSet, Acked
      <4>3. QED BY <4>1, <4>2, FS_EmptySet DEF SettledPCs, ArmedPCs, RunningPCs
    <3>8. CASE ResetComplete(c)
      <4>1. cpc[c] = "reset" /\ cpc'[c] \in ArmedPCs /\ nComplete' = 0
        BY <3>8 DEF ResetComplete, Caller, ByOp, TypeInv, TypeOK, ArmedPCs
      <4>2. AllAcked
        BY <3>3, <3>6, <4>1 DEF SettledPCs
      <4>3. QED BY <3>5, <3>7, <4>1, <4>2 DEF SettledPCs, ArmedPCs, RunningPCs
    <3>9. CASE StoreFn(c) \/ StoreData(c) \/ SpawnPullers(c) \/ ClearCall(c)
      <4>1. /\ cpc[c] \in ArmedPCs /\ cpc'[c] \in ArmedPCs \union {"publish"}
            /\ UNCHANGED <<nComplete, shutdown>>
        BY <3>9 DEF StoreFn, StoreData, SpawnPullers, ClearCall, Caller, TypeInv, TypeOK, ArmedPCs, atomics
      <4>2. QED BY <3>4, <3>5, <3>7, <4>1 DEF SettledPCs, ArmedPCs, RunningPCs
    <3>10. CASE RaiseShutdown(c)
      <4>1. cpc[c] \in ArmedPCs /\ cpc'[c] = "publish" /\ shutdown' = TRUE /\ nComplete' = nComplete
        BY <3>10 DEF RaiseShutdown, Caller, TypeInv, TypeOK, ArmedPCs
      <4>2. QED BY <3>4, <4>1 DEF SettledPCs, ArmedPCs, RunningPCs
    <3>11. CASE PeekParked(c) \/ WakeParked(c)
      <4>1. /\ cpc[c] \in RunningPCs /\ cpc'[c] \in {"wake", "share", "acks", "joinWorkers"}
            /\ UNCHANGED <<nComplete, cur>>
        BY <3>11 DEF PeekParked, WakeParked, AfterWake, ByOp, Caller, TypeInv, TypeOK, RunningPCs, atomics
      <4>2. QED BY <3>4, <3>5, <3>7, <4>1 DEF SettledPCs, ArmedPCs, RunningPCs
    <3>12. CASE RunShare(c) \/ AwaitAcks(c) \/ PassBarrier(c) \/ OwnChunksDone(c)
      <4>1. /\ cpc[c] \in RunningPCs
            /\ cpc'[c] \in {"count", "unwound", "barrier", "pull"}
            /\ UNCHANGED <<nComplete, cur>>
        BY <3>12 DEF RunShare, AwaitAcks, PassBarrier, OwnChunksDone, Caller, TypeInv, TypeOK, RunningPCs, atomics
      <4>2. QED BY <3>4, <3>5, <3>7, <4>1 DEF SettledPCs, ArmedPCs, RunningPCs
    <3>13. CASE CountSelf(c)
      <4>1. cpc[c] = "count" /\ cpc'[c] = "join" /\ nComplete' = nComplete + 1
        BY <3>13 DEF CountSelf, Caller, TypeInv, TypeOK
      <4>2. op[cur[c]] # "drop"
        BY <4>1 DEF TypeInv, Phases, CallPCs
      <4>3. QED BY <3>4, <3>5, <3>7, <4>1, <4>2 DEF SettledPCs, ArmedPCs, RunningPCs
    <3>14. CASE Join(c)
      <4>1. /\ cpc[c] = "join" /\ cpc'[c] \in {"free", "clear"}
            /\ nComplete >= NThreads /\ nComplete' = nComplete
        BY <3>14 DEF Join, Caller, TypeInv, TypeOK, atomics
      <4>2. nComplete = NThreads /\ AllAcked
        BY <3>4, <4>1, AckedFinite, ConstantsOK
      <4>3. QED BY <3>5, <3>7, <4>1, <4>2 DEF SettledPCs, ArmedPCs, RunningPCs
    <3>15. CASE FreeClosure(c) \/ ClearAfter(c) \/ JoinPullers(c)
      <4>1. /\ cpc[c] \in SettledPCs /\ cpc'[c] \in {"joinPullers", "out"}
            /\ UNCHANGED <<nComplete, shutdown>>
        BY <3>15 DEF FreeClosure, ClearAfter, JoinPullers, Caller, TypeInv, TypeOK, SettledPCs, atomics
      <4>2. QED BY <3>3, <3>5, <3>7, <4>1 DEF SettledPCs, ArmedPCs, RunningPCs
    <3>16. CASE JoinWorkers(c)
      <4>1. cpc[c] = "joinWorkers" /\ cpc'[c] = "out" /\ UNCHANGED shutdown
        BY <3>16 DEF JoinWorkers, Caller, TypeInv, TypeOK, atomics
      <4>2. shutdown
        BY <1>0, <4>1 DEF ShutdownPhase, TypeInv, Phases, DropPCs
      <4>3. QED BY <4>1, <4>2 DEF SettledPCs, ArmedPCs, RunningPCs
    <3>17. ~AwaitIdle(c)
      BY <2>3 DEF AwaitIdle, Caller
    <3>18. QED
      BY <1>2, <3>7, <3>8, <3>9, <3>10, <3>11, <3>12, <3>13, <3>14, <3>15, <3>16, <3>17 DEF CallerStep
  <2>4. QED BY <2>1, <2>2, <2>3
<1>3. ASSUME NEW c \in Callers, NEW what \in {"compute", "chunks", "drop"}, Begin(c, what)
      PROVE Counting'
  <2>1. /\ UNCHANGED <<nComplete, epoch, shutdown, wpc, wEpoch>>
        /\ cpc[c] = "out" /\ cpc'[c] = "await"
        /\ \A d \in Callers \ {c} :
               /\ cpc'[d] = cpc[d] /\ cur'[d] = cur[d]
               /\ cpc[d] # "out" => op'[cur[d]] = op[cur[d]]
    BY <1>3, BeginMoves
  <2>2. AckedSet' = AckedSet /\ (AllAcked' <=> AllAcked)
    BY <2>1 DEF AckedSet, AllAcked, Acked
  <2>3. QED BY <1>0, <2>1, <2>2 DEF Counting, SettledPCs, ArmedPCs, RunningPCs
<1>4. ASSUME NEW c \in Callers, NEW t \in Threads, PullerStep(c, t) PROVE Counting'
  <2>1. /\ UNCHANGED <<nComplete, epoch, shutdown, wpc, wEpoch, cur, op>>
        /\ \A d \in Callers \ {c} : cpc'[d] = cpc[d]
        /\ \/ cpc'[c] = cpc[c]
           \/ cpc[c] = "pull" /\ cpc'[c] = "unwound"
    BY <1>4, PullerMoves
  <2>2. AckedSet' = AckedSet /\ (AllAcked' <=> AllAcked)
    BY <2>1 DEF AckedSet, AllAcked, Acked
  <2>3. QED BY <1>0, <2>1, <2>2 DEF Counting, SettledPCs, ArmedPCs, RunningPCs
<1>5. CASE UNCHANGED vars
  <2>1. UNCHANGED <<nComplete, epoch, shutdown, wpc, wEpoch, cpc, cur, op>>
    BY <1>5 DEF vars, atomics, workerVars, callerVars, callVars
  <2>2. AckedSet' = AckedSet /\ (AllAcked' <=> AllAcked)
    BY <2>1 DEF AckedSet, AllAcked, Acked
  <2>3. QED BY <1>0, <2>1, <2>2 DEF Counting
<1>6. QED BY <1>1, <1>2, <1>3, <1>4, <1>5 DEF Next

THEOREM Serialised == Exclusive => (Spec => [](TypeInv /\ IInv))
<1> SUFFICES ASSUME Exclusive PROVE Spec => [](TypeInv /\ IInv)
  OBVIOUS
<1>1. TypeInv /\ IInv /\ [Next]_vars => (TypeInv /\ IInv)'
  <2> SUFFICES ASSUME TypeInv, IInv, [Next]_vars PROVE (TypeInv /\ IInv)'
    OBVIOUS
  <2>1. TypeInv'
    BY TypeInvStep
  <2>2. OneInside' /\ Counting' /\ ShutdownPhase' /\ Published'
    BY OneInsideStep, CountingStep, ShutdownPhaseStep, PublishedStep
  <2>3. QED BY <2>1, <2>2 DEF IInv
<1>2. QED
  BY <1>1, InitTypeInv, InitIInv, PTL DEF Spec

-----------------------------------------------------------------------------
(* What the invariant gives *)

\* With serialised callers, every worker that is in a closure runs the published
\* call with its own captures, and they are alive (or its caller panicked).
THEOREM ClosureSafe == Exclusive => (Spec => []ClosureAlive)
<1> SUFFICES ASSUME Exclusive PROVE Spec => []ClosureAlive
  OBVIOUS
<1>1. TypeInv /\ IInv => ClosureAlive
  <2> SUFFICES ASSUME TypeInv, IInv, NEW w \in Workers, wpc[w] = "run"
               PROVE  /\ wFn[w] = wData[w]
                      /\ wData[w] \in live \union Unwound
    BY DEF ClosureAlive
  <2>1. ~shutdown /\ ~AllAcked
    BY DEF IInv, ShutdownPhase, ReadingPCs, AllAcked, Acked, IdlePCs
  <2>2. PICK c \in Callers : cpc[c] \in RunningPCs \union {"join", "unwound"} /\ ~IsDrop(c)
    BY <2>1, RunningWhileUnacked
  <2>3. wFn[w] = callFn /\ wData[w] = callData /\ callFn # None
    BY DEF IInv, Published
  <2>4. op[cur[c]] \in {"compute", "chunks"}
    BY <2>2 DEF TypeInv, TypeOK, Phases, IsDrop, RunningPCs
  <2>5. op[cur[c]] = "compute"
    BY <2>2, <2>3, <2>4 DEF IInv, Published, TypeInv, Phases, ComputePCs, RunningPCs
  <2>6. callFn = cur[c] /\ callData = cur[c]
    BY <2>2, <2>5 DEF IInv, Published, TypeInv, Phases, ChunkPCs, RunningPCs
  <2>7. cur[c] \in live \union Unwound
    <3>1. CASE cpc[c] = "unwound"
      BY <3>1 DEF Unwound
    <3>2. CASE cpc[c] # "unwound"
      BY <2>2, <3>2 DEF IInv, Published, RunningPCs
    <3>3. QED BY <3>1, <3>2
  <2>8. QED BY <2>3, <2>6, <2>7
<1>2. QED
  BY <1>1, Serialised, PTL

\* With serialised callers, no step changes the epoch or the published closure
\* while a worker is between its look at the epoch and its acknowledgement.
THEOREM CallStable == Exclusive => (Spec => CallStableWhileEngaged)
<1> SUFFICES ASSUME Exclusive PROVE Spec => CallStableWhileEngaged
  OBVIOUS
<1> DEFINE Stable == \A w \in Workers : Engaged(w) => epoch' = epoch /\ callFn' = callFn
                                                      /\ callData' = callData
<1>1. TypeInv /\ IInv /\ [Next]_vars => Stable
  <2> SUFFICES ASSUME TypeInv, IInv, [Next]_vars, NEW w \in Workers, Engaged(w)
               PROVE  epoch' = epoch /\ callFn' = callFn /\ callData' = callData
    OBVIOUS
  <2>1. ~shutdown /\ ~AllAcked
    BY DEF Engaged, IInv, ShutdownPhase, ReadingPCs, AllAcked, Acked, IdlePCs
  <2>2. \A c \in Callers : cpc[c] \notin ArmedPCs \union {"publish", "clear"}
    BY <2>1, RunningWhileUnacked
  <2>3. ASSUME NEW x \in Workers, WorkerStep(x)
        PROVE  epoch' = epoch /\ callFn' = callFn /\ callData' = callData
    BY <2>3, WorkerMoves
  <2>4. ASSUME NEW c \in Callers, CallerStep(c)
        PROVE  epoch' = epoch /\ callFn' = callFn /\ callData' = callData
    <3>1. ~(\/ StoreFn(c) \/ StoreData(c) \/ ClearCall(c) \/ Publish(c)
            \/ ClearAfter(c) \/ RaiseShutdown(c) \/ SpawnPullers(c))
      BY <2>2 DEF StoreFn, StoreData, ClearCall, Publish, ClearAfter, RaiseShutdown,
                  SpawnPullers, Caller, ArmedPCs
    <3>2. QED
      BY <2>4, <3>1 DEF CallerStep, atomics, AwaitIdle, ResetComplete, PeekParked, WakeParked, RunShare, CountSelf, Join, FreeClosure, AwaitAcks, PassBarrier, OwnChunksDone, JoinPullers, JoinWorkers
  <2>5. ASSUME NEW c \in Callers, NEW what \in {"compute", "chunks", "drop"}, Begin(c, what)
        PROVE  epoch' = epoch /\ callFn' = callFn /\ callData' = callData
    BY <2>5, BeginMoves
  <2>6. ASSUME NEW c \in Callers, NEW t \in Threads, PullerStep(c, t)
        PROVE  epoch' = epoch /\ callFn' = callFn /\ callData' = callData
    BY <2>6, PullerMoves
  <2>7. CASE UNCHANGED vars
    BY <2>7 DEF vars, atomics
  <2>8. QED BY <2>3, <2>4, <2>5, <2>6, <2>7 DEF Next
<1>2. QED
  BY <1>1, Serialised, TypeInvStep, PTL DEF Spec, CallStableWhileEngaged

-----------------------------------------------------------------------------
(* No wake-up is lost *)

\* The parking lock belongs to the worker between its taking and its release.
LockHeld == \A w \in Workers : wpc[w] \in {"recheck", "recheckShutdown"} => parkLock = w

\* A worker that has looked at the epoch, and is going to sleep or sleeps, has
\* seen the current one, or somebody is still to wake it.
GoingToSleep == {"recheckShutdown", "asleep"}
Covered ==
  \A w \in Workers : wpc[w] \in GoingToSleep /\ wEpoch[w] # epoch =>
     \E c \in Callers : cpc[c] \in {"peek", "wake"}

WakeInv == TypeInv /\ ParkedIsExact /\ LockHeld /\ Covered

\* Only the taker of the lock is between its taking and its release.
LEMMA LockHeldStep ==
  ASSUME TypeInv, LockHeld, [Next]_vars
  PROVE  LockHeld'
<1> USE DEF TypeInv, TypeOK, LockHeld, Worker, Caller, atomics, parkVars, workerVars, callerVars, callVars
<1>1. ASSUME NEW w \in Workers, WorkerStep(w) PROVE LockHeld'
  <2>1. CASE TakeParkLock(w)
    BY <2>1, ConstantsOK DEF TakeParkLock, Workers, None
  <2>2. CASE RecheckEpoch(w) \/ RecheckShutdown(w)
    BY <2>2 DEF RecheckEpoch, RecheckShutdown
  <2>3. CASE SeeEpoch(w) \/ Idle(w) \/ AnnouncePark(w) \/ LeavePark(w) \/ ParkTimeout(w) \/ ReturnFromWait(w) \/ Resume(w)
    BY <2>3 DEF SeeEpoch, Idle, AnnouncePark, LeavePark, ParkTimeout, ReturnFromWait,
       Resume
  <2>4. CASE AdoptEpoch(w) \/ Gate(w) \/ FetchFn(w) \/ FetchData(w) \/ RunWorker(w) \/ Acknowledge(w)
    BY <2>4 DEF AdoptEpoch, Gate, FetchFn, FetchData, RunWorker, Acknowledge
  <2>5. QED BY <1>1, <2>1, <2>2, <2>3, <2>4 DEF WorkerStep
<1>2. ASSUME NEW c \in Callers, CallerStep(c) PROVE LockHeld'
  <2>1. CASE WakeParked(c)
    BY <2>1 DEF WakeParked
  <2>2. CASE ~WakeParked(c)
    BY <1>2, <2>2 DEF CallerStep, AwaitIdle, ResetComplete, StoreFn, StoreData,
       SpawnPullers, ClearCall, RaiseShutdown, Publish, PeekParked, RunShare,
       CountSelf, Join, FreeClosure, AwaitAcks, PassBarrier, OwnChunksDone,
       ClearAfter, JoinPullers, JoinWorkers
  <2>3. QED BY <2>1, <2>2
<1>3. ASSUME NEW c \in Callers, NEW what \in {"compute", "chunks", "drop"}, Begin(c, what)
      PROVE LockHeld'
  BY <1>3 DEF Begin
<1>4. ASSUME NEW c \in Callers, NEW t \in Threads, PullerStep(c, t) PROVE LockHeld'
  BY <1>4 DEF PullerStep, FetchChunk, RunChunk
<1>5. CASE UNCHANGED vars
  BY <1>5 DEF vars
<1>6. QED BY <1>1, <1>2, <1>3, <1>4, <1>5 DEF Next

\* With an exact count read fresh, the caller that published finds the sleeper.
LEMMA CoveredStep ==
  ASSUME ~StaleParked, WakeInv, [Next]_vars
  PROVE  Covered'
<1> USE DEF WakeInv, TypeInv, TypeOK, Worker, Caller, GoingToSleep, atomics, parkVars, workerVars, callerVars, callVars
<1>1. ASSUME NEW w \in Workers, WorkerStep(w) PROVE Covered'
  <2>1. UNCHANGED <<epoch, cpc>> /\ \A x \in Workers \ {w} : Unmoved(x)
    BY <1>1, WorkerMoves
  <2>2. wpc'[w] \in GoingToSleep /\ wEpoch'[w] # epoch => wpc[w] \in GoingToSleep /\ wEpoch[w] # epoch
    <3>1. CASE RecheckEpoch(w) \/ RecheckShutdown(w)
      BY <3>1 DEF RecheckEpoch, RecheckShutdown
    <3>2. CASE SeeEpoch(w) \/ Idle(w) \/ AnnouncePark(w) \/ TakeParkLock(w) \/ LeavePark(w) \/ ParkTimeout(w) \/ ReturnFromWait(w) \/ Resume(w)
      BY <3>2 DEF SeeEpoch, Idle, AnnouncePark, TakeParkLock, LeavePark, ParkTimeout,
         ReturnFromWait, Resume
    <3>3. CASE AdoptEpoch(w) \/ Gate(w) \/ FetchFn(w) \/ FetchData(w) \/ RunWorker(w) \/ Acknowledge(w)
      BY <3>3 DEF AdoptEpoch, Gate, FetchFn, FetchData, RunWorker, Acknowledge
    <3>4. QED BY <1>1, <3>1, <3>2, <3>3 DEF WorkerStep
  <2>3. QED BY <2>1, <2>2 DEF Covered, Unmoved
<1>2. ASSUME NEW c \in Callers, CallerStep(c) PROVE Covered'
  <2>1. CASE Publish(c)
    BY <2>1 DEF Publish, Covered
  <2>2. CASE PeekParked(c)
    <3>1. CASE parked = 0
      <4>1. Parking = {}
        BY <3>1, ParkingFinite, FS_EmptySet DEF ParkedIsExact
      <4>2. \A w \in Workers : wpc[w] \notin GoingToSleep
        BY <4>1 DEF Parking, ParkingPCs
      <4>3. QED BY <2>2, <4>2 DEF PeekParked, Covered
    <3>2. CASE parked # 0
      BY <2>2, <3>2, ~StaleParked DEF PeekParked, Covered
    <3>3. QED BY <3>1, <3>2
  <2>3. CASE WakeParked(c)
    <3>1. \A w \in Workers : wpc[w] # "recheckShutdown"
      BY <2>3, ConstantsOK DEF WakeParked, LockHeld, Workers, None
    <3>2. QED BY <2>3, <3>1 DEF WakeParked, Covered
  <2>4. CASE ~(Publish(c) \/ PeekParked(c) \/ WakeParked(c))
    <3>1. UNCHANGED <<wpc, wEpoch, epoch>> /\ cpc[c] \notin {"peek", "wake"}
          /\ \A d \in Callers \ {c} : cpc'[d] = cpc[d]
      BY <1>2, <2>4 DEF CallerStep, AwaitIdle, ResetComplete, StoreFn, StoreData,
         SpawnPullers, ClearCall, RaiseShutdown, RunShare,
         CountSelf, Join, FreeClosure, AwaitAcks, PassBarrier, OwnChunksDone,
         ClearAfter, JoinPullers, JoinWorkers
    <3>2. QED BY <3>1 DEF Covered
  <2>5. QED BY <2>1, <2>2, <2>3, <2>4
<1>3. ASSUME NEW c \in Callers, NEW what \in {"compute", "chunks", "drop"}, Begin(c, what)
      PROVE Covered'
  BY <1>3 DEF Begin, Covered
<1>4. ASSUME NEW c \in Callers, NEW t \in Threads, PullerStep(c, t) PROVE Covered'
  <2>1. UNCHANGED <<wpc, wEpoch, epoch>>
        /\ \A d \in Callers : cpc[d] \in {"peek", "wake"} => cpc'[d] = cpc[d]
    <3>1. puller[c][0] = "chunk" => cpc[c] = "pull"
      BY DEF Phases
    <3>2. QED BY <1>4, <3>1 DEF PullerStep, FetchChunk, RunChunk
  <2>2. QED BY <2>1 DEF Covered
<1>5. CASE UNCHANGED vars
  BY <1>5 DEF vars, Covered
<1>6. QED BY <1>1, <1>2, <1>3, <1>4, <1>5 DEF Next

\* No wake-up is lost, for any number of callers, serialised or not, as long as
\* the dispatcher's read of `parked` is not stale: the run pool_lost_wakeup
\* shows that it has to be fresh.
THEOREM NoLostWakeup == ~StaleParked => (Spec => []NoSleepThroughEpoch)
<1> SUFFICES ASSUME ~StaleParked PROVE Spec => []NoSleepThroughEpoch
  OBVIOUS
<1>1. Init => LockHeld /\ Covered
  BY DEF Init, LockHeld, Covered, GoingToSleep
<1>2. LockHeld /\ TypeInv /\ [Next]_vars => LockHeld'
  BY LockHeldStep
<1>3. WakeInv /\ [Next]_vars => Covered'
  BY CoveredStep
<1>4. WakeInv => NoSleepThroughEpoch
  BY DEF WakeInv, Covered, GoingToSleep, NoSleepThroughEpoch
<1>5. TypeInv /\ [Next]_vars => TypeInv'
  BY TypeInvStep
<1>6. Spec => []TypeInv
  BY InitTypeInv, <1>5, PTL DEF Spec
<1>7. QED
  BY <1>1, <1>2, <1>3, <1>4, <1>6, ParkedExact, PTL DEF Spec, WakeInv

-----------------------------------------------------------------------------
(* A call's closure is applied to each index once, and the pool implements  *)
(* ForkJoin, for serialised callers.  Each index is followed to its         *)
(* application: a thread index through the epochs a worker acknowledges, a  *)
(* chunk through the counter and the hands of a puller.                     *)

\* A worker has run the current call's closure.
Ran(w) == Acked(w) \/ wpc[w] \in {"ack", "dead"}

\* An index is applied once, and only if the call wants it.
Bounded ==
  \A k \in Calls, i \in Items : applied[k][i] # 0 => i \in Wanted(k) /\ applied[k][i] = 1

Untouched(k) == \A i \in Items : applied[k][i] = 0

\* compute: which threads have run the closure of the call of caller c.
ComputeItems(c) ==
  /\ cpc[c] \in {"await", "reset", "storeFn", "storeData", "publish"} => Untouched(cur[c])
  /\ cpc[c] \in {"peek", "wake", "share", "count", "join", "unwound"} =>
       /\ \A w \in Workers : applied[cur[c]][w] = 1 <=> Ran(w)
       /\ applied[cur[c]][0] = 1 <=> cpc[c] \in {"count", "join", "unwound"}
  /\ cpc[c] = "free" => \A t \in Threads : applied[cur[c]][t] = 1

\* compute_with_chunks: a chunk below the counter has been run, unless a puller
\* has it in its hands, and two pullers never hold the same one.
Taken(c, i) == \E t \in Threads : puller[c][t] = "chunk" /\ chunk[c][t] = i
PullingPCs == {"pull", "count", "join", "clear", "joinPullers", "unwound"}
ChunkItems(c) ==
  /\ cpc[c] \notin PullingPCs =>
       Untouched(cur[c]) /\ \A t \in Threads : puller[c][t] \in {"none", "barrier"}
  /\ cpc[c] \in {"publish", "peek", "wake", "acks", "barrier"} => chunkCounter = 0
  /\ cpc[c] \in PullingPCs =>
       /\ \A i \in Chunks : applied[cur[c]][i] = 1 <=> i < chunkCounter /\ ~Taken(c, i)
       /\ \A t \in Threads :
            /\ puller[c][t] \in {"fetch", "chunk", "done", "dead"}
            /\ puller[c][t] = "chunk" => chunk[c][t] \in Chunks /\ chunk[c][t] < chunkCounter
            /\ puller[c][t] = "done" => chunkCounter >= NChunks
       /\ \A t, u \in Threads :
            puller[c][t] = "chunk" /\ puller[c][u] = "chunk" /\ chunk[c][t] = chunk[c][u] =>
              t = u
  /\ cpc[c] \in {"count", "join", "clear", "joinPullers"} => puller[c][0] = "done"

CallItems(c) ==
  /\ op[cur[c]] = "compute" => ComputeItems(c)
  /\ op[cur[c]] = "chunks" => ChunkItems(c)

ItemsInv ==
  /\ Bounded
  /\ \A c \in Callers : cpc[c] # "out" => CallItems(c)

-----------------------------------------------------------------------------
(* Every step preserves it *)

\* The caller is thread 0, the others are the workers.
LEMMA ThreadsSplit ==
  Threads = {0} \union Workers /\ 0 \notin Workers /\ Threads \subseteq Items /\ Chunks \subseteq Items
  BY ConstantsOK DEF Threads, Workers, Items

\* What applying a closure does to the counts.
LEMMA ApplyEffect ==
  ASSUME TypeInv, NEW k \in Calls, NEW i \in Items, Apply(k, i)
  PROVE  /\ \A j \in Calls, x \in Items : j # k \/ x # i => applied'[j][x] = applied[j][x]
         /\ applied'[k][i] = applied[k][i] + 1
  BY DEF Apply, TypeInv, TypeOK

\* An index that is wanted and has not been applied may be.
LEMMA ApplyOnce ==
  ASSUME TypeInv, Bounded, NEW k \in Calls, NEW i \in Items, Apply(k, i),
         i \in Wanted(k), applied[k][i] # 1, op' = op
  PROVE  Bounded' /\ applied[k][i] = 0
<1>1. applied[k][i] = 0
  BY DEF Bounded
<1>2. \A j \in Calls : Wanted(j)' = Wanted(j)
  BY DEF Wanted
<1>3. QED BY <1>1, <1>2, ApplyEffect DEF Bounded

\* No two callers run the same call.
LEMMA Distinct ==
  ASSUME TypeInv, IInv, NEW c \in Callers, NEW d \in Callers,
         cpc[c] # "out", cpc[d] # "out", cur[c] = cur[d]
  PROVE  c = d
<1>1. CASE cpc[c] \notin Away /\ cpc[d] \notin Away
  BY <1>1 DEF IInv, OneInside
<1>2. CASE cpc[c] = "unwound"
  BY <1>2 DEF IInv, OneInside, TypeInv, Phases, CallPCs, IsDrop
<1>3. CASE cpc[d] = "unwound"
  BY <1>3 DEF IInv, OneInside, TypeInv, Phases, CallPCs, IsDrop
<1>4. QED BY <1>1, <1>2, <1>3 DEF Away

\* A worker in a closure runs that of the one caller of a compute that is past
\* its publication.
LEMMA RunningCall ==
  ASSUME TypeInv, IInv, NEW w \in Workers, wpc[w] = "run"
  PROVE  /\ ~shutdown
         /\ \E c \in Callers : /\ cpc[c] \in {"peek", "wake", "share", "count", "join", "unwound"}
                               /\ op[cur[c]] = "compute" /\ cur[c] \in Calls
                               /\ wData[w] = cur[c]
<1>1. ~shutdown /\ ~AllAcked
  BY DEF IInv, ShutdownPhase, ReadingPCs, AllAcked, Acked, IdlePCs
<1>2. PICK c \in Callers : cpc[c] \in RunningPCs \union {"join", "unwound"} /\ ~IsDrop(c)
  BY <1>1, RunningWhileUnacked
<1>3. wFn[w] = callFn /\ wData[w] = callData /\ callFn # None
  BY DEF IInv, Published
<1>4. op[cur[c]] \in {"compute", "chunks"} /\ cur[c] \in Calls
  BY <1>2 DEF TypeInv, TypeOK, Phases, IsDrop, RunningPCs
<1>5. op[cur[c]] = "compute"
  BY <1>2, <1>3, <1>4 DEF IInv, Published, TypeInv, Phases, ComputePCs, RunningPCs
<1>6. callData = cur[c] /\ cpc[c] \in {"peek", "wake", "share", "count", "join", "unwound"}
  BY <1>2, <1>5 DEF IInv, Published, TypeInv, Phases, ChunkPCs, RunningPCs
<1>7. QED BY <1>1, <1>3, <1>4, <1>5, <1>6

\* What a worker's step changes: whether it has run the closure, when it runs it.
LEMMA RanMoves ==
  ASSUME TypeInv, IInv, ~shutdown, NEW w \in Workers, WorkerStep(w)
  PROVE  /\ \A x \in Workers \ {w} : Ran(x)' <=> Ran(x)
         /\ RunWorker(w) => ~Ran(w) /\ Ran(w)'
         /\ ~RunWorker(w) => (Ran(w)' <=> Ran(w)) \/ (wpc[w] = "fetchData" /\ wFn[w] = None)
<1>1. /\ UNCHANGED epoch
      /\ \A x \in Workers \ {w} : Unmoved(x)
      /\ IdleMove(w) \/ ToAdopt(w) \/ ToExit(w) \/ ToGate(w) \/ ReadMove(w) \/ AckMove(w)
  BY WorkerMoves
<1>2. \A x \in Workers \ {w} : Ran(x)' <=> Ran(x)
  BY <1>1 DEF Ran, Acked, Unmoved
<1>3. /\ wpc[w] \in {"leave", "adopt"} => wEpoch[w] # epoch
      /\ wpc[w] \in {"gate"} \union ReadingPCs \union {"dead"} => wEpoch[w] = epoch
  BY DEF IInv, ShutdownPhase
<1>4. CASE RunWorker(w)
  BY <1>1, <1>2, <1>4 DEF RunWorker, Worker, Ran, Acked, IdlePCs, TypeInv, TypeOK
<1>5. CASE ~RunWorker(w)
  <2>1. wpc[w] # "run"
    BY <1>5, WorkerStep(w) DEF WorkerStep, SeeEpoch, Idle, AnnouncePark, TakeParkLock,
       RecheckEpoch, RecheckShutdown, LeavePark, ParkTimeout, ReturnFromWait, Resume,
       AdoptEpoch, Gate, FetchFn, FetchData, Acknowledge, Worker
  <2>2. QED
    BY <1>1, <1>2, <1>3, <1>5, <2>1 DEF IdleMove, ToAdopt, ToExit, ToGate, ReadMove,
       AckMove, Ran, Acked, IdlePCs, ReadingPCs
<1>6. QED BY <1>4, <1>5

\* What is said of a caller whose call is not touched.
LEMMA FrameItems ==
  ASSUME NEW c \in Callers, CallItems(c),
         UNCHANGED <<cpc[c], cur[c], op[cur[c]], applied[cur[c]], puller[c], chunk[c], chunkCounter>>,
         \A w \in Workers : Ran(w)' <=> Ran(w)
  PROVE  CallItems(c)'
  BY DEF CallItems, ComputeItems, ChunkItems, Untouched, Taken

\* A worker's step keeps it: it runs the closure once between two acknowledgements.
LEMMA WorkerItems ==
  ASSUME TypeInv, IInv, ItemsInv, NEW w \in Workers, WorkerStep(w)
  PROVE  ItemsInv'
<1>1. UNCHANGED <<callFn, callData, epoch, shutdown, cpc, cur, op>>
  BY WorkerMoves
<1>2. UNCHANGED <<puller, chunk, chunkCounter>>
  BY WorkerStep(w) DEF WorkerStep, SeeEpoch, Idle, AnnouncePark, TakeParkLock,
     RecheckEpoch, RecheckShutdown, LeavePark, ParkTimeout, ReturnFromWait, Resume,
     AdoptEpoch, Gate, FetchFn, FetchData, RunWorker, Acknowledge, callerVars, atomics
<1>3. CASE RunWorker(w)
  <2>1. wpc[w] = "run"
    BY <1>3 DEF RunWorker, Worker
  <2>2. PICK c \in Callers : /\ cpc[c] \in {"peek", "wake", "share", "count", "join", "unwound"}
                             /\ op[cur[c]] = "compute" /\ cur[c] \in Calls
                             /\ wData[w] = cur[c]
    BY <2>1, RunningCall
  <2>3. ~shutdown
    BY <2>1, RunningCall
  <2>4. Apply(cur[c], w)
    BY <1>3, <2>2, ConstantsOK DEF RunWorker, Calls, None
  <2>5. w \in Items /\ w # 0 /\ w \in Wanted(cur[c])
    BY <2>2, ThreadsSplit DEF Wanted
  <2>6. ComputeItems(c)
    BY <2>2 DEF ItemsInv, CallItems
  <2>7. applied[cur[c]][w] # 1 /\ ~Ran(w) /\ Ran(w)' /\ \A x \in Workers \ {w} : Ran(x)' <=> Ran(x)
    BY <1>3, <2>2, <2>3, <2>6, RanMoves DEF ComputeItems
  <2>8. Bounded' /\ applied[cur[c]][w] = 0
    BY <1>1, <2>2, <2>4, <2>5, <2>7, ApplyOnce DEF ItemsInv
  <2>9. /\ \A j \in Calls, x \in Items : j # cur[c] \/ x # w => applied'[j][x] = applied[j][x]
        /\ applied'[cur[c]][w] = 1
    BY <2>2, <2>4, <2>5, <2>8, ApplyEffect
  <2>10. CallItems(c)'
    <3>1. ComputeItems(c)'
      BY <1>1, <2>2, <2>5, <2>6, <2>7, <2>9, ThreadsSplit DEF ComputeItems
    <3>2. QED BY <1>1, <2>2, <3>1 DEF CallItems
  <2>11. ASSUME NEW d \in Callers \ {c}, cpc[d] # "out" PROVE CallItems(d)'
    <3>1. op[cur[d]] = "drop"
      BY <2>2, <2>11 DEF IInv, OneInside, Away, IsDrop
    <3>2. QED BY <1>1, <3>1 DEF CallItems
  <2>12. QED BY <1>1, <2>8, <2>10, <2>11 DEF ItemsInv
<1>4. CASE ~RunWorker(w)
  <2>1. applied' = applied
    BY <1>4, WorkerStep(w) DEF WorkerStep, SeeEpoch, Idle, AnnouncePark, TakeParkLock,
       RecheckEpoch, RecheckShutdown, LeavePark, ParkTimeout, ReturnFromWait, Resume,
       AdoptEpoch, Gate, FetchFn, FetchData, Acknowledge, callVars
  <2>2. Bounded'
    BY <1>1, <2>1 DEF ItemsInv, Bounded, Wanted
  <2>3. ASSUME NEW c \in Callers, cpc[c] # "out" PROVE CallItems(c)'
    <3>1. CallItems(c)
      BY <2>3 DEF ItemsInv
    <3>2. CASE op[cur[c]] = "compute" /\ cpc[c] \in {"peek", "wake", "share", "count", "join", "unwound"}
      <4>1. ~shutdown
        BY <3>2 DEF IInv, ShutdownPhase, IsDrop
      <4>2. callFn = cur[c] /\ cur[c] # None
        BY <2>3, <3>2, ConstantsOK DEF IInv, Published, TypeInv, TypeOK, Calls, None
      <4>3. wpc[w] = "fetchData" => wFn[w] # None
        BY <4>2 DEF IInv, Published
      <4>4. \A x \in Workers : Ran(x)' <=> Ran(x)
        BY <1>4, <4>1, <4>3, RanMoves
      <4>5. QED BY <1>1, <1>2, <2>1, <3>1, <4>4, FrameItems
    <3>3. CASE op[cur[c]] = "compute" /\ cpc[c] \notin {"peek", "wake", "share", "count", "join", "unwound"}
      BY <1>1, <2>1, <3>1, <3>3 DEF CallItems, ComputeItems, Untouched
    <3>4. CASE op[cur[c]] # "compute"
      BY <1>1, <1>2, <2>1, <3>1, <3>4 DEF CallItems, ChunkItems, Untouched, Taken
    <3>5. QED BY <3>2, <3>3, <3>4
  <2>4. QED BY <1>1, <2>2, <2>3 DEF ItemsInv
<1>5. QED BY <1>3, <1>4

\* A call begins with nothing applied.
LEMMA BeginItems ==
  ASSUME TypeInv, IInv, ItemsInv, NEW c \in Callers,
         NEW what \in {"compute", "chunks", "drop"}, Begin(c, what)
  PROVE  ItemsInv'
<1>1. PICK k \in Calls : op[k] = "none" /\ op' = [op EXCEPT ![k] = what]
                         /\ cur' = [cur EXCEPT ![c] = k]
  BY Begin(c, what) DEF Begin
<1>2. /\ cpc[c] = "out" /\ cpc' = [cpc EXCEPT ![c] = "await"]
      /\ UNCHANGED <<applied, puller, chunk, chunkCounter, epoch, wpc, wEpoch>>
  BY Begin(c, what) DEF Begin, Caller, atomics, workerVars
<1>3. Wanted(k) = {}
  BY <1>1 DEF Wanted
<1>4. Untouched(k)
  BY <1>3 DEF ItemsInv, Bounded, Untouched
<1>5. Bounded'
  <2>1. \A j \in Calls \ {k} : Wanted(j)' = Wanted(j)
    BY <1>1 DEF Wanted, TypeInv, TypeOK
  <2>2. QED BY <1>2, <1>4, <2>1 DEF ItemsInv, Bounded, Untouched
<1>6. CallItems(c)'
  <2>1. cpc'[c] = "await" /\ cur'[c] = k
    BY <1>1, <1>2 DEF TypeInv, TypeOK
  <2>2. \A t \in Threads : puller[c][t] = "none"
    BY <1>2 DEF TypeInv, Phases, ChunkPCs, CallPCs
  <2>3. QED BY <1>2, <1>4, <2>1, <2>2 DEF CallItems, ComputeItems, ChunkItems,
     Untouched, PullingPCs
<1>7. ASSUME NEW d \in Callers \ {c}, cpc'[d] # "out" PROVE CallItems(d)'
  <2>1. cpc'[d] = cpc[d] /\ cur'[d] = cur[d] /\ op'[cur[d]] = op[cur[d]]
    BY <1>7, BeginMoves
  <2>2. CallItems(d)
    BY <1>7, <2>1 DEF ItemsInv
  <2>3. \A w \in Workers : Ran(w)' <=> Ran(w)
    BY <1>2 DEF Ran, Acked
  <2>4. QED BY <1>2, <2>1, <2>2, <2>3, FrameItems
<1>8. QED BY <1>5, <1>6, <1>7 DEF ItemsInv

\* A step of a caller past its first wait has only its own call to answer for.
LEMMA CallerItems ==
  ASSUME Exclusive, TypeInv, IInv, ItemsInv, NEW c \in Callers, CallerStep(c)
  PROVE  ItemsInv'
<1> USE DEF Caller
<1>1. /\ cpc[c] \notin Away
      /\ \A d \in Callers \ {c} : cpc'[d] = cpc[d] /\ cur'[d] = cur[d]
      /\ cpc[c] = "await" => AwaitIdle(c)
      /\ op' = op
  BY CallerMoves
<1>2. CallItems(c) /\ Bounded /\ cur[c] \in Calls /\ op[cur[c]] # "none"
  BY <1>1 DEF ItemsInv, Away, TypeInv, TypeOK, Phases
<1>3. cpc \in [Callers -> CallerPCs] /\ cur \in [Callers -> Calls \union {None}]
      /\ puller \in [Callers -> [Threads -> PullerPCs]]
      /\ wpc \in [Workers -> WorkerPCs]
  BY DEF TypeInv, TypeOK
<1>4. CASE AwaitIdle(c)
  <2>1. /\ cpc[c] = "await" /\ cpc' = [cpc EXCEPT ![c] = "reset"]
        /\ UNCHANGED <<cur, applied, puller, chunk, chunkCounter, epoch, wpc, wEpoch>>
    BY <1>4 DEF AwaitIdle, atomics, workerVars, callVars
  <2>2. \A w \in Workers : Ran(w)' <=> Ran(w)
    BY <2>1 DEF Ran, Acked
  <2>3. Bounded'
    BY <1>1, <1>2, <2>1 DEF Bounded, Wanted
  <2>4. CallItems(c)'
    BY <1>1, <1>2, <1>3, <2>1 DEF CallItems, ComputeItems, ChunkItems, Untouched,
       PullingPCs
  <2>5. ASSUME NEW d \in Callers \ {c}, cpc'[d] # "out" PROVE CallItems(d)'
    BY <1>1, <2>1, <2>2, <2>5, FrameItems DEF ItemsInv
  <2>6. QED BY <2>3, <2>4, <2>5 DEF ItemsInv
<1>5. CASE cpc[c] # "await"
  <2>1. \A d \in Callers \ {c} : cpc'[d] = "out"
    BY <1>1, <1>5, Alone DEF IInv
  <2>2. SUFFICES Bounded' /\ (cpc'[c] # "out" => CallItems(c)')
    BY <2>1 DEF ItemsInv
  <2>3. CASE RunShare(c)
    <3>1. /\ cpc[c] = "share" /\ cpc'[c] \in {"count", "unwound"}
          /\ Apply(cur[c], 0)
          /\ UNCHANGED <<cur, epoch, wpc, wEpoch>>
      BY <1>3, <2>3 DEF RunShare, workerVars, atomics
    <3>2. op[cur[c]] = "compute"
      BY <3>1 DEF TypeInv, Phases, ComputePCs
    <3>3. ComputeItems(c)
      BY <1>2, <3>2 DEF CallItems
    <3>4. 0 \in Items /\ 0 \in Wanted(cur[c]) /\ applied[cur[c]][0] # 1
      BY <3>1, <3>2, <3>3, ThreadsSplit DEF Wanted, ComputeItems
    <3>5. Bounded' /\ applied[cur[c]][0] = 0
      BY <1>1, <1>2, <3>1, <3>4, ApplyOnce
    <3>6. \A x \in Workers : applied'[cur[c]][x] = applied[cur[c]][x]
      <4>1. \A x \in Workers : x \in Items /\ x # 0
        BY ThreadsSplit
      <4>2. \A x \in Items : x # 0 => applied'[cur[c]][x] = applied[cur[c]][x]
        BY <1>2, <3>1, <3>4, ApplyEffect
      <4>3. QED BY <4>1, <4>2
    <3>7. applied'[cur[c]][0] = 1
      BY <1>2, <3>1, <3>4, <3>5, ApplyEffect
    <3>8. \A w \in Workers : Ran(w)' <=> Ran(w)
      BY <3>1 DEF Ran, Acked
    <3>9. ComputeItems(c)'
      BY <3>1, <3>3, <3>6, <3>7, <3>8 DEF ComputeItems
    <3>10. QED BY <1>1, <3>1, <3>2, <3>5, <3>9 DEF CallItems
  <2>4. CASE ~RunShare(c)
    <3>1. UNCHANGED applied
      BY <1>5, <2>4, CallerStep(c) DEF CallerStep, AwaitIdle, ResetComplete, StoreFn,
         StoreData,
         SpawnPullers, ClearCall, RaiseShutdown, Publish, PeekParked, WakeParked,
         CountSelf, Join, FreeClosure, AwaitAcks, PassBarrier, OwnChunksDone,
         ClearAfter, JoinPullers, JoinWorkers, callVars
    <3>2. Bounded'
      BY <1>1, <1>2, <3>1 DEF Bounded, Wanted
    <3>3. ASSUME ~Publish(c) PROVE \A w \in Workers : Ran(w)' <=> Ran(w)
      <4>1. UNCHANGED <<epoch, wEpoch>>
        BY <2>4, <3>3, CallerStep(c) DEF CallerStep, AwaitIdle, ResetComplete, StoreFn,
           StoreData,
         SpawnPullers, ClearCall, RaiseShutdown, PeekParked, WakeParked,
         CountSelf, Join, FreeClosure, AwaitAcks, PassBarrier, OwnChunksDone,
         ClearAfter, JoinPullers, JoinWorkers, atomics, workerVars
      <4>2. \A w \in Workers : wpc'[w] = wpc[w] \/ (wpc[w] = "asleep" /\ wpc'[w] = "woken")
        BY <1>3, <2>4, <3>3, CallerStep(c) DEF CallerStep, AwaitIdle, ResetComplete,
           StoreFn, StoreData,
         SpawnPullers, ClearCall, RaiseShutdown, PeekParked, WakeParked,
         CountSelf, Join, FreeClosure, AwaitAcks, PassBarrier, OwnChunksDone,
         ClearAfter, JoinPullers, JoinWorkers, workerVars
      <4>3. QED BY <4>1, <4>2 DEF Ran, Acked, IdlePCs
    <3>4. SUFFICES ASSUME cpc'[c] # "out" PROVE CallItems(c)'
      BY <3>2
    <3>5. UNCHANGED cur
      BY <2>4, <3>4, CallerStep(c), <1>3 DEF CallerStep, AwaitIdle, ResetComplete,
         StoreFn, StoreData,
         SpawnPullers, ClearCall, RaiseShutdown, Publish, PeekParked, WakeParked,
         CountSelf, Join, FreeClosure, AwaitAcks, PassBarrier, OwnChunksDone,
         ClearAfter, JoinPullers, JoinWorkers
    <3>6. op[cur[c]] = "compute" => ComputeItems(c)'
      <4>1. SUFFICES ASSUME op[cur[c]] = "compute" PROVE ComputeItems(c)'
        OBVIOUS
      <4>2. ComputeItems(c)
        BY <1>2, <4>1 DEF CallItems
      <4>3. cpc[c] \in ComputePCs \union CallPCs \union {"reset", "publish", "peek", "wake"}
        BY <1>1, <1>3, <1>5, <4>1 DEF TypeInv, Phases, ChunkPCs, DropPCs, ComputePCs,
           CallPCs, CallerPCs, Away
      <4>4. CASE Publish(c)
        <5>1. cpc[c] = "publish" /\ cpc'[c] = "peek" /\ UNCHANGED <<wpc, wEpoch>>
          BY <1>3, <4>4 DEF Publish, workerVars
        <5>2. AllAcked
          BY <4>1, <5>1 DEF IInv, Counting, ShutdownPhase, IsDrop
        <5>3. epoch' # epoch
          BY <4>4, NextEpochDiffers DEF Publish, TypeInv, TypeOK
        <5>4. \A w \in Workers : ~Ran(w)'
          BY <5>1, <5>2, <5>3 DEF AllAcked, Acked, Ran, IdlePCs
        <5>5. QED BY <3>1, <3>5, <4>2, <5>1, <5>4, ThreadsSplit DEF ComputeItems,
           Untouched
      <4>5. CASE Join(c)
        <5>1. cpc[c] = "join" /\ cpc'[c] = "free" /\ nComplete >= NThreads
          BY <1>3, <4>1, <4>5 DEF Join
        <5>2. AllAcked
          BY <5>1, AckedFinite, ConstantsOK DEF IInv, Counting
        <5>3. \A t \in Threads : applied[cur[c]][t] = 1
          BY <4>2, <5>1, <5>2, ThreadsSplit DEF ComputeItems, AllAcked, Ran
        <5>4. QED BY <3>1, <3>5, <5>1, <5>3 DEF ComputeItems
      <4>6. CASE ~Publish(c) /\ ~Join(c)
        <5>1. \/ cpc[c] \in {"reset", "storeFn", "storeData"} /\ cpc'[c] \in {"storeFn", "storeData", "publish"}
              \/ cpc[c] \in {"peek", "wake"} /\ cpc'[c] \in {"wake", "share"}
              \/ cpc[c] = "count" /\ cpc'[c] = "join"
          BY <1>3, <2>4, <3>4, <4>1, <4>3, <4>6, CallerStep(c) DEF CallerStep,
             AwaitIdle, ResetComplete, StoreFn, StoreData,
             SpawnPullers, ClearCall, RaiseShutdown, PeekParked, WakeParked, AfterWake, ByOp,
             CountSelf, FreeClosure, AwaitAcks, PassBarrier, OwnChunksDone,
             ClearAfter, JoinPullers, JoinWorkers, ComputePCs, CallPCs
        <5>2. QED BY <3>1, <3>3, <3>5, <4>2, <4>6, <5>1 DEF ComputeItems, Untouched
      <4>7. QED BY <4>4, <4>5, <4>6
    <3>7. op[cur[c]] = "chunks" => ChunkItems(c)'
      <4>1. SUFFICES ASSUME op[cur[c]] = "chunks" PROVE ChunkItems(c)'
        OBVIOUS
      <4>2. ChunkItems(c)
        BY <1>2, <4>1 DEF CallItems
      <4>3. cpc[c] \in ChunkPCs \union CallPCs \union {"reset", "publish", "peek", "wake"}
        BY <1>1, <1>3, <1>5, <4>1 DEF TypeInv, Phases, ChunkPCs, DropPCs, ComputePCs,
           CallPCs, CallerPCs, Away
      <4>4. CASE SpawnPullers(c)
        BY <1>3, <3>1, <3>5, <4>2, <4>4 DEF SpawnPullers, ChunkItems, Untouched,
           PullingPCs, atomics
      <4>5. CASE ClearCall(c)
        BY <1>3, <3>1, <3>5, <4>2, <4>5 DEF ClearCall, ChunkItems, Untouched, PullingPCs
      <4>6. CASE PassBarrier(c)
        <5>1. /\ cpc[c] = "barrier" /\ cpc'[c] = "pull" /\ chunkCounter' = 0
              /\ \A t \in Threads : puller'[c][t] = "fetch"
          BY <1>3, <4>2, <4>6 DEF PassBarrier, ChunkItems, atomics
        <5>2. \A i \in Chunks : applied'[cur'[c]][i] = 0 /\ ~(i < 0)
          BY <3>1, <3>5, <4>2, <5>1, ThreadsSplit, ConstantsOK DEF ChunkItems,
             Untouched, PullingPCs, Chunks
        <5>3. QED BY <5>1, <5>2 DEF ChunkItems, PullingPCs
      <4>7. CASE OwnChunksDone(c)
        BY <1>3, <3>1, <3>5, <4>2, <4>7 DEF OwnChunksDone, ChunkItems, PullingPCs,
           Taken, atomics
      <4>8. CASE ~(SpawnPullers(c) \/ ClearCall(c) \/ PassBarrier(c) \/ OwnChunksDone(c))
        <5>1. /\ \/ cpc[c] = "reset" /\ cpc'[c] = "spawn"
                 \/ cpc[c] \in {"publish", "peek", "wake", "acks"} /\ cpc'[c] \in {"peek", "wake", "acks", "barrier"}
                 \/ cpc[c] \in {"count", "join", "clear"} /\ cpc'[c] \in {"join", "clear", "joinPullers"}
              /\ UNCHANGED <<puller, chunk, chunkCounter>>
          BY <1>3, <2>4, <3>4, <4>1, <4>3, <4>8, CallerStep(c) DEF CallerStep,
             AwaitIdle, ResetComplete, StoreFn, StoreData,
             RaiseShutdown, Publish, PeekParked, WakeParked, AfterWake, ByOp,
             CountSelf, Join, FreeClosure, AwaitAcks,
             ClearAfter, JoinPullers, JoinWorkers, ChunkPCs, CallPCs, atomics
        <5>2. QED BY <3>1, <3>5, <4>2, <5>1 DEF ChunkItems, Untouched, PullingPCs, Taken
      <4>9. QED BY <4>4, <4>5, <4>6, <4>7, <4>8
    <3>8. QED BY <1>1, <3>5, <3>6, <3>7 DEF CallItems
  <2>5. QED BY <2>3, <2>4
<1>6. QED BY <1>1, <1>4, <1>5

\* A puller's step keeps it: the counter hands each chunk to one puller.
LEMMA PullerItems ==
  ASSUME TypeInv, IInv, ItemsInv, NEW c \in Callers, NEW t \in Threads, PullerStep(c, t)
  PROVE  ItemsInv'
<1>1. /\ UNCHANGED <<cur, op, epoch, wpc, wEpoch>>
      /\ \A d \in Callers \ {c} : cpc'[d] = cpc[d]
      /\ \/ cpc'[c] = cpc[c]
         \/ cpc[c] = "pull" /\ cpc'[c] = "unwound"
  BY PullerMoves
<1>2. puller[c][t] \in {"fetch", "chunk"}
  BY PullerStep(c, t) DEF PullerStep, FetchChunk, RunChunk
<1>3. cpc[c] \notin {"out", "await"} /\ op[cur[c]] = "chunks" /\ cur[c] \in Calls
  BY <1>2 DEF TypeInv, TypeOK, Phases, ChunkPCs, CallPCs
<1>4. ChunkItems(c) /\ Bounded
  BY <1>3 DEF ItemsInv, CallItems
<1>5. cpc[c] \in PullingPCs /\ cpc'[c] \in PullingPCs
  BY <1>1, <1>2, <1>4 DEF ChunkItems, PullingPCs
<1>6. ASSUME NEW d \in Callers \ {c}, cpc'[d] # "out" PROVE CallItems(d)'
  <2>1. op[cur[d]] = "drop"
    BY <1>1, <1>3, <1>6 DEF IInv, OneInside, Away, IsDrop
  <2>2. QED BY <1>1, <2>1 DEF CallItems
<1>7. SUFFICES Bounded' /\ ChunkItems(c)'
  BY <1>1, <1>3, <1>6 DEF ItemsInv, CallItems
<1>8. /\ puller \in [Callers -> [Threads -> PullerPCs]]
      /\ chunk \in [Callers -> [Threads -> Nat]]
      /\ chunkCounter \in Nat
  BY DEF TypeInv, TypeOK
<1>9. CASE FetchChunk(c, t)
  <2>1. /\ puller[c][t] = "fetch"
        /\ puller'[c] = [puller[c] EXCEPT ![t] = IF chunkCounter < NChunks THEN "chunk" ELSE "done"]
        /\ chunk'[c] = [chunk[c] EXCEPT ![t] = chunkCounter]
        /\ chunkCounter' = chunkCounter + 1
        /\ UNCHANGED <<applied, cpc>>
    BY <1>8, <1>9 DEF FetchChunk, callVars
  <2>2. Bounded'
    BY <1>1, <1>4, <2>1 DEF Bounded, Wanted
  <2>3. puller[c] \in [Threads -> PullerPCs] /\ chunk[c] \in [Threads -> Nat]
    BY <1>8
  <2>4. \A u \in Threads \ {t} : puller'[c][u] = puller[c][u] /\ chunk'[c][u] = chunk[c][u]
    BY <2>1, <2>3
  <2>5. /\ puller'[c][t] = IF chunkCounter < NChunks THEN "chunk" ELSE "done"
        /\ chunk'[c][t] = chunkCounter
    BY <2>1, <2>3
  <2>6. NChunks \in Nat /\ \A i \in Chunks : i \in Nat /\ i < NChunks
    BY ConstantsOK DEF Chunks
  <2>7. chunkCounter < NChunks => chunkCounter \in Chunks
    BY <1>8, ConstantsOK DEF Chunks
  <2>8. ASSUME NEW i \in Chunks PROVE applied'[cur'[c]][i] = 1 <=> i < chunkCounter' /\ ~Taken(c, i)'
    <3>1. applied[cur[c]][i] = 1 <=> i < chunkCounter /\ ~Taken(c, i)
      BY <1>4, <1>5 DEF ChunkItems
    <3>2. CASE i = chunkCounter
      <4>1. Taken(c, i)'
        BY <2>5, <2>6, <3>2 DEF Taken
      <4>2. QED BY <1>1, <1>8, <2>1, <3>1, <3>2, <4>1
    <3>3. CASE i # chunkCounter
      <4>1. Taken(c, i)' <=> Taken(c, i)
        BY <2>1, <2>4, <2>5, <3>3 DEF Taken
      <4>2. i < chunkCounter + 1 <=> i < chunkCounter
        <5>1. chunkCounter \in Nat /\ i \in Nat
          BY <1>8, <2>6
        <5>2. QED BY <3>3, <5>1
      <4>3. QED BY <1>1, <2>1, <3>1, <4>1, <4>2
    <3>4. QED BY <3>2, <3>3
  <2>9. ASSUME NEW u \in Threads
        PROVE  /\ puller'[c][u] \in {"fetch", "chunk", "done", "dead"}
               /\ puller'[c][u] = "chunk" => chunk'[c][u] \in Chunks /\ chunk'[c][u] < chunkCounter'
               /\ puller'[c][u] = "done" => chunkCounter' >= NChunks
    <3>1. /\ puller[c][u] \in {"fetch", "chunk", "done", "dead"}
          /\ puller[c][u] = "chunk" => chunk[c][u] \in Chunks /\ chunk[c][u] < chunkCounter
          /\ puller[c][u] = "done" => chunkCounter >= NChunks
      BY <1>4, <1>5 DEF ChunkItems
    <3>2. QED BY <1>8, <2>1, <2>3, <2>4, <2>5, <2>6, <2>7, <3>1
  <2>10. ASSUME NEW u \in Threads, NEW v \in Threads, puller'[c][u] = "chunk",
                puller'[c][v] = "chunk", chunk'[c][u] = chunk'[c][v]
         PROVE  u = v
    <3>1. \A x \in Threads \ {t} : puller'[c][x] = "chunk" => chunk'[c][x] < chunkCounter
      BY <1>4, <1>5, <2>4 DEF ChunkItems
    <3>2. QED BY <1>4, <1>5, <1>8, <2>4, <2>5, <2>10, <3>1 DEF ChunkItems
  <2>11. cpc'[c] \in {"count", "join", "clear", "joinPullers"} => puller'[c][0] = "done"
    BY <1>4, <2>1, <2>4, ThreadsSplit DEF ChunkItems
  <2>12. QED BY <1>5, <2>2, <2>8, <2>9, <2>10, <2>11 DEF ChunkItems, PullingPCs
<1>10. CASE RunChunk(c, t)
  <2>1. /\ puller[c][t] = "chunk" /\ Apply(cur[c], chunk[c][t])
        /\ \E v \in {"fetch", "dead"} : puller'[c] = [puller[c] EXCEPT ![t] = v]
        /\ UNCHANGED <<chunk, chunkCounter>>
    BY <1>8, <1>10 DEF RunChunk, atomics
  <2>2. chunk[c][t] \in Chunks /\ chunk[c][t] < chunkCounter
    BY <1>4, <1>5, <2>1 DEF ChunkItems
  <2>3. chunk[c][t] \in Items /\ chunk[c][t] \in Wanted(cur[c])
    BY <1>3, <2>2, ThreadsSplit DEF Wanted
  <2>4. applied[cur[c]][chunk[c][t]] # 1
    BY <1>4, <1>5, <2>1, <2>2 DEF ChunkItems, Taken
  <2>5. Bounded' /\ applied[cur[c]][chunk[c][t]] = 0
    BY <1>1, <1>3, <1>4, <2>1, <2>3, <2>4, ApplyOnce
  <2>6. /\ applied'[cur[c]][chunk[c][t]] = 1
        /\ \A i \in Chunks : i # chunk[c][t] => applied'[cur[c]][i] = applied[cur[c]][i]
    BY <1>3, <2>1, <2>3, <2>5, ApplyEffect, ThreadsSplit
  <2>7. /\ puller'[c][t] \in {"fetch", "dead"}
        /\ \A u \in Threads \ {t} : puller'[c][u] = puller[c][u]
    BY <1>8, <2>1
  <2>8. ASSUME NEW i \in Chunks PROVE applied'[cur'[c]][i] = 1 <=> i < chunkCounter' /\ ~Taken(c, i)'
    <3>1. applied[cur[c]][i] = 1 <=> i < chunkCounter /\ ~Taken(c, i)
      BY <1>4, <1>5 DEF ChunkItems
    <3>2. CASE i = chunk[c][t]
      <4>1. ~Taken(c, i)'
        BY <1>4, <1>5, <2>1, <2>7, <3>2 DEF Taken, ChunkItems
      <4>2. QED BY <1>1, <2>1, <2>2, <2>6, <3>2, <4>1
    <3>3. CASE i # chunk[c][t]
      <4>1. Taken(c, i)' <=> Taken(c, i)
        BY <2>1, <2>7, <3>3 DEF Taken
      <4>2. QED BY <1>1, <2>1, <2>6, <3>1, <3>3, <4>1
    <3>4. QED BY <3>2, <3>3
  <2>9. cpc'[c] \in {"count", "join", "clear", "joinPullers"} => puller'[c][0] = "done"
    BY <1>1, <1>4, <2>1, <2>7, ThreadsSplit DEF ChunkItems
  <2>10. QED BY <1>4, <1>5, <2>1, <2>5, <2>7, <2>8, <2>9 DEF ChunkItems, PullingPCs
<1>11. QED BY PullerStep(c, t), <1>9, <1>10 DEF PullerStep

\* Nothing has been applied at the start, and every step keeps the count.
THEOREM ItemsInvariant == Exclusive => (Spec => [](TypeInv /\ IInv /\ ItemsInv))
<1> SUFFICES ASSUME Exclusive PROVE Spec => [](TypeInv /\ IInv /\ ItemsInv)
  OBVIOUS
<1>1. Init => ItemsInv
  BY DEF Init, ItemsInv, Bounded
<1>2. TypeInv /\ IInv /\ ItemsInv /\ [Next]_vars => ItemsInv'
  <2> SUFFICES ASSUME TypeInv, IInv, ItemsInv, [Next]_vars PROVE ItemsInv'
    OBVIOUS
  <2>1. CASE UNCHANGED vars
    <3>1. UNCHANGED <<applied, op, cpc, cur, puller, chunk, chunkCounter, epoch, wpc, wEpoch>>
      BY <2>1 DEF vars, atomics, workerVars, callerVars, callVars
    <3>2. \A w \in Workers : Ran(w)' <=> Ran(w)
      BY <3>1 DEF Ran, Acked
    <3>3. \A c \in Callers : cpc'[c] # "out" => CallItems(c)'
      BY <3>1, <3>2, FrameItems DEF ItemsInv
    <3>4. Bounded'
      BY <3>1 DEF ItemsInv, Bounded, Wanted
    <3>5. QED BY <3>3, <3>4 DEF ItemsInv
  <2>2. QED BY <2>1, WorkerItems, CallerItems, BeginItems, PullerItems DEF Next
<1>3. QED BY <1>1, <1>2, Serialised, PTL DEF Spec

\* When a call is about to return, each of its indices has been applied.
LEMMA ItemsDone ==
  ASSUME TypeInv, ItemsInv, NEW c \in Callers, AboutToReturn(c)
  PROVE  \A i \in Wanted(cur[c]) : applied[cur[c]][i] = 1
<1>1. CallItems(c)
  BY DEF ItemsInv, AboutToReturn
<1>2. CASE cpc[c] = "free"
  <2>1. op[cur[c]] = "compute"
    BY <1>2 DEF TypeInv, Phases, ComputePCs
  <2>2. QED BY <1>1, <1>2, <2>1 DEF CallItems, ComputeItems, Wanted
<1>3. CASE cpc[c] = "joinPullers" /\ \A t \in Workers : puller[c][t] \in {"done", "dead"}
  <2>1. op[cur[c]] = "chunks"
    BY <1>3 DEF TypeInv, Phases, ChunkPCs
  <2>2. ChunkItems(c)
    BY <1>1, <2>1 DEF CallItems
  <2>3. puller[c][0] = "done" /\ chunkCounter >= NChunks
    BY <1>3, <2>2, ThreadsSplit DEF ChunkItems, PullingPCs
  <2>4. \A i \in Chunks : ~Taken(c, i)
    BY <1>3, <2>3, ThreadsSplit DEF Taken
  <2>5. \A i \in Chunks : i < chunkCounter
    <3>1. chunkCounter \in Nat /\ NChunks \in Nat
      BY ConstantsOK DEF TypeInv, TypeOK
    <3>2. QED BY <2>3, <3>1 DEF Chunks
  <2>6. QED BY <1>3, <2>1, <2>2, <2>4, <2>5 DEF ChunkItems, PullingPCs, Wanted
<1>4. QED BY <1>2, <1>3 DEF AboutToReturn

\* Fork-join, counted: with serialised callers no index is applied twice or out
\* of range, and when a call is about to return each of its indices has been.
THEOREM ItemsOnce == Exclusive => (Spec => []ItemsRunOnce)
<1> SUFFICES ASSUME Exclusive PROVE Spec => []ItemsRunOnce
  OBVIOUS
<1>1. TypeInv /\ IInv /\ ItemsInv => ItemsRunOnce
  <2> SUFFICES ASSUME TypeInv, ItemsInv PROVE ItemsRunOnce
    OBVIOUS
  <2>1. ASSUME NEW k \in Calls, NEW i \in Items
        PROVE  applied[k][i] <= IF i \in Wanted(k) THEN 1 ELSE 0
    BY DEF ItemsInv, Bounded
  <2>2. QED BY <2>1, ItemsDone DEF ItemsRunOnce
<1>2. QED BY <1>1, ItemsInvariant, PTL

-----------------------------------------------------------------------------
(* The refinement of ForkJoin *)

OpenCalls == {cur[c] : c \in {d \in Callers : Opened(d)}}

\* A step that opens, closes and applies nothing.
LEMMA StutterMaps ==
  ASSUME applied' = applied, \A k \in Calls : Wanted(k)' = Wanted(k), OpenCalls' = OpenCalls
  PROVE  UNCHANGED FJ!vars
  BY DEF FJ!vars, OpenCalls

\* The calls that are open, when no caller begins or ends one.
LEMMA SameOpen ==
  ASSUME op' = op,
         \A c \in Callers : /\ cpc'[c] # "out" <=> cpc[c] # "out"
                            /\ cpc[c] # "out" => cur'[c] = cur[c]
  PROVE  OpenCalls' = OpenCalls /\ \A k \in Calls : Wanted(k)' = Wanted(k)
<1>1. \A c \in Callers : /\ Opened(c)' <=> Opened(c)
                         /\ Opened(c) => cur'[c] = cur[c]
  BY DEF Opened
<1>2. QED BY <1>1 DEF OpenCalls, Wanted

\* Running the closure on a wanted index of an open call is an Apply.
LEMMA ApplyMaps ==
  ASSUME TypeInv, NEW c \in Callers, Opened(c), NEW i \in Items, i \in Wanted(cur[c]),
         applied[cur[c]][i] = 0, Apply(cur[c], i),
         OpenCalls' = OpenCalls, \A k \in Calls : Wanted(k)' = Wanted(k)
  PROVE  FJ!Next
<1> DEFINE k == cur[c]
<1>1. k \in Calls /\ k \in OpenCalls
  BY DEF Opened, TypeInv, TypeOK, OpenCalls
<1>2. applied' = [applied EXCEPT ![k][i] = 1]
  BY DEF Apply
<1>3. FJ!Apply(k, i)
  BY <1>1, <1>2 DEF FJ!Apply, OpenCalls
<1>4. QED BY <1>1, <1>3 DEF FJ!Next

\* A beginning compute or chunked call is an Open, a beginning drop a stutter.
LEMMA BeginMaps ==
  ASSUME TypeInv, IInv, NEW c \in Callers, NEW what \in {"compute", "chunks", "drop"},
         Begin(c, what)
  PROVE  [FJ!Next]_(FJ!vars)
<1>1. PICK k \in Calls : op[k] = "none" /\ op' = [op EXCEPT ![k] = what]
                         /\ cur' = [cur EXCEPT ![c] = k]
  BY Begin(c, what) DEF Begin
<1>2. /\ cpc[c] = "out" /\ cpc' = [cpc EXCEPT ![c] = "await"]
      /\ applied' = applied
  BY Begin(c, what) DEF Begin, Caller
<1>3. /\ \A d \in Callers \ {c} : /\ cpc'[d] = cpc[d] /\ cur'[d] = cur[d]
                                  /\ cpc[d] # "out" => op'[cur[d]] = op[cur[d]] /\ cur[d] # k
      /\ cpc'[c] = "await" /\ cur'[c] = k /\ op'[k] = what
      /\ \A j \in Calls \ {k} : op'[j] = op[j]
  BY <1>1, <1>2 DEF TypeInv, TypeOK, Phases
<1>4. \A d \in Callers \ {c} : (Opened(d)' <=> Opened(d)) /\ (Opened(d) => cur'[d] = cur[d])
  BY <1>3 DEF Opened
<1>5. ~Opened(c) /\ (Opened(c)' <=> what # "drop")
  BY <1>2, <1>3 DEF Opened
<1>6. \A j \in Calls \ {k} : Wanted(j)' = Wanted(j)
  BY <1>3 DEF Wanted
<1>7. Wanted(k) = {}
  BY <1>1 DEF Wanted
<1>8. CASE what = "drop"
  <2>1. Wanted(k)' = {}
    BY <1>3, <1>8 DEF Wanted
  <2>2. OpenCalls' = OpenCalls
    BY <1>4, <1>5, <1>8 DEF OpenCalls
  <2>3. QED BY <1>2, <1>6, <1>7, <2>1, <2>2, StutterMaps
<1>9. CASE what # "drop"
  <2>1. OpenCalls' = OpenCalls \union {k}
    BY <1>3, <1>4, <1>5, <1>9 DEF OpenCalls
  <2>2. k \notin OpenCalls
    BY <1>2, <1>3 DEF OpenCalls, Opened
  <2>3. Wanted(k)' \in (SUBSET Items) \ {{}}
    <3>1. 0 \in Threads /\ 0 \in Chunks
      BY ConstantsOK DEF Threads, Chunks
    <3>2. /\ Threads \subseteq Items /\ Threads # {}
          /\ Chunks \subseteq Items /\ Chunks # {}
      BY <3>1 DEF Items
    <3>3. Wanted(k)' = Threads \/ Wanted(k)' = Chunks
      BY <1>3, <1>9 DEF Wanted
    <3>4. QED BY <3>2, <3>3
  <2>4. [j \in Calls |-> Wanted(j)]' = [[j \in Calls |-> Wanted(j)] EXCEPT ![k] = Wanted(k)']
    BY <1>6
  <2>5. FJ!Open(k)
    BY <1>2, <1>7, <2>1, <2>2, <2>3, <2>4 DEF FJ!Open, OpenCalls
  <2>6. QED BY <2>5 DEF FJ!Next
<1>10. QED BY <1>8, <1>9

\* A call closes when it is freed or its pullers are joined: all is applied.
LEMMA CloseMaps ==
  ASSUME TypeInv, IInv, ItemsInv, NEW c \in Callers, FreeClosure(c) \/ JoinPullers(c)
  PROVE  FJ!Next
<1>0. PICK k \in Calls : k = cur[c]
  BY DEF FreeClosure, JoinPullers, Caller, TypeInv, TypeOK
<1>1. /\ AboutToReturn(c)
      /\ cpc[c] # "out" /\ cpc' = [cpc EXCEPT ![c] = "out"]
      /\ cur' = [cur EXCEPT ![c] = None] /\ UNCHANGED <<op, applied>>
  BY DEF FreeClosure, JoinPullers, Caller, AboutToReturn
<1>2. /\ \A d \in Callers \ {c} : cpc'[d] = cpc[d] /\ cur'[d] = cur[d]
      /\ cpc'[c] = "out"
  BY <1>1 DEF TypeInv, TypeOK
<1>3. Opened(c)
  BY <1>0, <1>1 DEF Opened, AboutToReturn, TypeInv, TypeOK, Phases, ComputePCs, ChunkPCs
<1>4. \A i \in Wanted(k) : applied[k][i] = 1
  BY <1>0, <1>1, ItemsDone
<1>5. /\ ~Opened(c)'
      /\ \A d \in Callers \ {c} : /\ Opened(d)' <=> Opened(d)
                                  /\ cur'[d] = cur[d]
                                  /\ Opened(d) => cur[d] # k
  BY <1>0, <1>1, <1>2, Distinct DEF Opened
<1>6. OpenCalls' = OpenCalls \ {k} /\ k \in OpenCalls
  BY <1>0, <1>3, <1>5 DEF OpenCalls
<1>7. \A j \in Calls : Wanted(j)' = Wanted(j)
  BY <1>1 DEF Wanted
<1>8. FJ!Close(k)
  BY <1>1, <1>4, <1>6, <1>7 DEF FJ!Close, OpenCalls
<1>9. QED BY <1>8 DEF FJ!Next

\* Every step of the pool is a step of fork-join or leaves it where it is.
LEMMA StepMaps ==
  ASSUME Exclusive, TypeInv, IInv, ItemsInv, [Next]_vars
  PROVE  [FJ!Next]_(FJ!vars)
<1>1. ASSUME NEW w \in Workers, WorkerStep(w) PROVE [FJ!Next]_(FJ!vars)
  <2>1. UNCHANGED <<cpc, cur, op>>
    BY <1>1, WorkerMoves
  <2>2. OpenCalls' = OpenCalls /\ \A k \in Calls : Wanted(k)' = Wanted(k)
    BY <2>1, SameOpen
  <2>3. CASE RunWorker(w)
    <3>1. wpc[w] = "run"
      BY <2>3 DEF RunWorker, Worker
    <3>2. PICK c \in Callers : /\ cpc[c] \in {"peek", "wake", "share", "count", "join", "unwound"}
                               /\ op[cur[c]] = "compute" /\ cur[c] \in Calls
                               /\ wData[w] = cur[c]
      BY <3>1, RunningCall
    <3>3. Opened(c) /\ ComputeItems(c) /\ ~shutdown
      BY <3>1, <3>2, RunningCall DEF Opened, ItemsInv, CallItems
    <3>4. Apply(cur[c], w)
      BY <2>3, <3>2, ConstantsOK DEF RunWorker, Calls, None
    <3>5. w \in Items /\ w \in Wanted(cur[c])
      BY <3>2, ThreadsSplit DEF Wanted
    <3>6. applied[cur[c]][w] # 1
      BY <1>1, <2>3, <3>2, <3>3, RanMoves DEF ComputeItems
    <3>7. applied[cur[c]][w] = 0
      BY <3>2, <3>5, <3>6 DEF ItemsInv, Bounded
    <3>8. QED BY <2>2, <3>3, <3>4, <3>5, <3>7, ApplyMaps
  <2>4. CASE ~RunWorker(w)
    <3>1. applied' = applied
      BY <1>1, <2>4 DEF WorkerStep, SeeEpoch, Idle, AnnouncePark, TakeParkLock,
         RecheckEpoch, RecheckShutdown, LeavePark, ParkTimeout, ReturnFromWait, Resume,
         AdoptEpoch, Gate, FetchFn, FetchData, Acknowledge, callVars
    <3>2. QED BY <2>2, <3>1, StutterMaps
  <2>5. QED BY <2>3, <2>4
<1>2. ASSUME NEW c \in Callers, CallerStep(c) PROVE [FJ!Next]_(FJ!vars)
  <2>1. CASE FreeClosure(c) \/ JoinPullers(c)
    BY <2>1, CloseMaps
  <2>2. CASE JoinWorkers(c)
    <3>1. /\ cpc[c] = "joinWorkers" /\ cpc' = [cpc EXCEPT ![c] = "out"]
          /\ cur' = [cur EXCEPT ![c] = None] /\ UNCHANGED <<op, applied>>
      BY <2>2 DEF JoinWorkers, Caller, callVars
    <3>2. \A d \in Callers : (Opened(d)' <=> Opened(d)) /\ (Opened(d) => cur'[d] = cur[d])
      BY <3>1 DEF Opened, TypeInv, TypeOK, Phases, DropPCs
    <3>3. OpenCalls' = OpenCalls /\ \A k \in Calls : Wanted(k)' = Wanted(k)
      BY <3>1, <3>2 DEF OpenCalls, Wanted
    <3>4. QED BY <3>1, <3>3, StutterMaps
  <2>3. CASE ~(FreeClosure(c) \/ JoinPullers(c) \/ JoinWorkers(c))
    <3>1. /\ cpc[c] # "out" /\ cpc'[c] # "out" /\ cur' = cur /\ op' = op
          /\ \A d \in Callers \ {c} : cpc'[d] = cpc[d]
      <4>1. cpc \in [Callers -> CallerPCs]
        BY DEF TypeInv, TypeOK
      <4>2. QED
        BY <1>2, <2>3, <4>1, CallerMoves DEF CallerStep, AwaitIdle, ResetComplete,
           StoreFn, StoreData,
         SpawnPullers, ClearCall, RaiseShutdown, Publish, PeekParked, WakeParked, RunShare,
         CountSelf, Join, AwaitAcks, PassBarrier, OwnChunksDone,
         ClearAfter, Caller, ByOp, AfterWake, Away
    <3>2. OpenCalls' = OpenCalls /\ \A k \in Calls : Wanted(k)' = Wanted(k)
      BY <3>1, SameOpen
    <3>3. CASE RunShare(c)
      <4>1. cpc[c] = "share" /\ Apply(cur[c], 0)
        BY <3>3 DEF RunShare, Caller
      <4>2. op[cur[c]] = "compute"
        BY <4>1 DEF TypeInv, Phases, ComputePCs
      <4>3. Opened(c) /\ ComputeItems(c) /\ cur[c] \in Calls
        BY <4>1, <4>2 DEF Opened, ItemsInv, CallItems, TypeInv, TypeOK
      <4>4. 0 \in Items /\ 0 \in Wanted(cur[c]) /\ applied[cur[c]][0] # 1
        BY <4>1, <4>2, <4>3, ThreadsSplit DEF Wanted, ComputeItems
      <4>5. applied[cur[c]][0] = 0
        BY <4>3, <4>4 DEF ItemsInv, Bounded
      <4>6. QED BY <3>2, <4>1, <4>3, <4>4, <4>5, ApplyMaps
    <3>4. CASE ~RunShare(c)
      <4>1. applied' = applied
        BY <1>2, <2>3, <3>4 DEF CallerStep, AwaitIdle, ResetComplete, StoreFn, StoreData,
         SpawnPullers, ClearCall, RaiseShutdown, Publish, PeekParked, WakeParked,
         CountSelf, Join, AwaitAcks, PassBarrier, OwnChunksDone, ClearAfter, callVars
      <4>2. QED BY <3>2, <4>1, StutterMaps
    <3>5. QED BY <3>3, <3>4
  <2>4. QED BY <2>1, <2>2, <2>3
<1>3. ASSUME NEW c \in Callers, NEW what \in {"compute", "chunks", "drop"}, Begin(c, what)
      PROVE  [FJ!Next]_(FJ!vars)
  BY <1>3, BeginMaps
<1>4. ASSUME NEW c \in Callers, NEW t \in Threads, PullerStep(c, t) PROVE [FJ!Next]_(FJ!vars)
  <2>1. /\ UNCHANGED <<cur, op>>
        /\ \A d \in Callers : cpc'[d] # "out" <=> cpc[d] # "out"
    BY <1>4, PullerMoves
  <2>2. OpenCalls' = OpenCalls /\ \A k \in Calls : Wanted(k)' = Wanted(k)
    BY <2>1, SameOpen
  <2>3. CASE FetchChunk(c, t)
    BY <2>2, <2>3, StutterMaps DEF FetchChunk, callVars
  <2>4. CASE RunChunk(c, t)
    <3>1. puller[c][t] = "chunk" /\ Apply(cur[c], chunk[c][t])
      BY <2>4 DEF RunChunk
    <3>2. cpc[c] # "out" /\ op[cur[c]] = "chunks" /\ cur[c] \in Calls
      BY <3>1 DEF TypeInv, TypeOK, Phases, ChunkPCs, CallPCs
    <3>3. Opened(c) /\ ChunkItems(c)
      BY <3>2 DEF Opened, ItemsInv, CallItems
    <3>4. chunk[c][t] \in Chunks /\ applied[cur[c]][chunk[c][t]] # 1
      BY <3>1, <3>3 DEF ChunkItems, Taken
    <3>5. chunk[c][t] \in Items /\ chunk[c][t] \in Wanted(cur[c])
      BY <3>2, <3>4, ThreadsSplit DEF Wanted
    <3>6. applied[cur[c]][chunk[c][t]] = 0
      BY <3>2, <3>4, <3>5 DEF ItemsInv, Bounded
    <3>7. QED BY <2>2, <3>1, <3>3, <3>5, <3>6, ApplyMaps
  <2>5. QED BY <1>4, <2>3, <2>4 DEF PullerStep
<1>5. CASE UNCHANGED vars
  <2>1. UNCHANGED <<applied, op, cpc, cur>>
    BY <1>5 DEF vars, callerVars, callVars
  <2>2. QED BY <2>1, SameOpen, StutterMaps
<1>6. QED BY <1>1, <1>2, <1>3, <1>4, <1>5 DEF Next

\* The pool, with its epochs, counters, parking and panics, implements fork-join
\* for callers that are serialised.
THEOREM PoolImplementsForkJoin == Exclusive => (Spec => ImplementsForkJoin)
<1> SUFFICES ASSUME Exclusive PROVE Spec => ImplementsForkJoin
  OBVIOUS
<1>1. Init => FJ!Init
  <2> SUFFICES ASSUME Init PROVE FJ!Init
    OBVIOUS
  <2>1. \A c \in Callers : ~Opened(c)
    BY DEF Init, Opened
  <2>2. \A k \in Calls : Wanted(k) = {}
    BY DEF Init, Wanted
  <2>3. QED BY <2>1, <2>2 DEF Init, FJ!Init
<1>2. TypeInv /\ IInv /\ ItemsInv /\ [Next]_vars => [FJ!Next]_(FJ!vars)
  BY StepMaps
<1>3. QED BY <1>1, <1>2, ItemsInvariant, PTL DEF Spec, ImplementsForkJoin, FJ!Spec
===============================================================================
