-------------------------- MODULE DeviceMatmulProofs --------------------------
(***************************************************************************)
(* Proofs about CommandStream and DeviceMatmul.  The inductive invariant   *)
(* of the context: the mutex is held by the thread between its begin and   *)
(* its return; an idle device is known from ~uncertain, and work is        *)
(* recorded only then; every buffer has at most one owner and lives as     *)
(* long as it has one; a cached weight is the one at its address.  The     *)
(* pool's invariant is at the end.                                         *)
(***************************************************************************)
EXTENDS DeviceMatmul, TLAPS

Inside == {"begin", "record", "io", "submit", "wait", "read"}
Known == {"record", "io", "submit", "read"}

\* The mutex, and what a job may be doing.
MutexInv ==
  \A t \in Threads:
    /\ pc[t] \in Inside <=> holder = t
    /\ pc[t] \in {"io", "read"} => job[t] \in Addrs
    /\ job[t] # None => pc[t] \in Inside \cup {"copy"}
    /\ pc[t] = "copy" => job[t] = "upload"

\* What is known of the device.
IdleInv ==
  /\ ~uncertain => running = {}
  /\ \A t \in Threads: pc[t] \in Known => ~uncertain
  /\ shutdown => \A t \in Threads: pc[t] \notin Known \cup {"wait"}
  /\ ShutdownIsFinal

Mine(t) == owned[t] \cup In(staging[t]) \cup In(target[t])
Shared == retired \cup Cached \cup In(io)

\* The context's buffers are alive and have one owner each.
SharedInv ==
  /\ Shared \subseteq live
  /\ \A a \in Addrs: cache[a] # None => cache[a] \notin retired /\ cache[a] # io
  /\ \A a, b \in Addrs: a # b /\ cache[a] # None => cache[a] # cache[b]
  /\ io \notin retired

\* The names thread t has for its buffers are different ones.
MineNamed(t) ==
  /\ staging[t] \notin owned[t] /\ target[t] \notin owned[t]
  /\ staging[t] # None => staging[t] # target[t]
  /\ pc[t] \in {"copy", "unstage", "cleanup"} \/ job[t] = "upload" =>
       staging[t] # None /\ target[t] # None /\ owned[t] = {}
  /\ staging[t] # None \/ target[t] # None =>
       pc[t] \in {"copy", "unstage", "cleanup"} \/ job[t] = "upload"

\* A thread's buffers are alive, and the context has none of them ...
MineInv ==
  \A t \in Threads:
    Mine(t) \subseteq live /\ Mine(t) \cap Shared = {} /\ MineNamed(t)

\* ... nor has another thread.
ApartInv == \A t, u \in Threads: t # u => Mine(t) \cap Mine(u) = {}

OwnerInv == SharedInv /\ MineInv /\ ApartInv

\* What is recorded, and what the device may still use.
RefsInv ==
  /\ running \subseteq live
  /\ \A t \in Threads:
       /\ pc[t] = "io" => refs = In(cache[job[t]])
       /\ pc[t] \in {"submit", "wait", "read"} => refs \subseteq Mine(t) \cup Shared
       /\ pc[t] = "unstage" => staging[t] \notin running

CacheInv ==
  /\ \A a \in Addrs: cache[a] # None => host[a] # None /\ content[a] = host[a]
  /\ \A t \in Threads: job[t] \in Addrs =>
       /\ host[job[t]] # None
       /\ pc[t] \in {"io", "submit", "wait", "read"} => cache[job[t]] # None
       /\ pc[t] \in {"submit", "wait", "read"} => cache[job[t]] \in refs

IInv == StreamTypeOK /\ MutexInv /\ IdleInv /\ OwnerInv /\ RefsInv /\ CacheInv
-----------------------------------------------------------------------------
\* Every step keeps the types.
LEMMA TypesStep ==
  ASSUME IInv, StreamNext
  PROVE  StreamTypeOK'
<1> USE StreamAssumption DEF IInv, StreamTypeOK
<1>1. ASSUME NEW t \in Threads, NEW a \in Addrs, StartMatmul(t, a)
     PROVE  StreamTypeOK'
  BY <1>1 DEF StartMatmul, Takes, Goto, submissionVars, cacheVars, sessionVars
<1>2. ASSUME NEW t \in Threads, StartSession(t)
     PROVE  StreamTypeOK'
  BY <1>2 DEF StartSession, Takes, Goto, submissionVars, cacheVars,
     sessionVars
<1>3. ASSUME NEW t \in Threads, StartCopy(t)
     PROVE  StreamTypeOK'
  BY <1>3 DEF StartCopy, Takes, Goto, submissionVars, cacheVars, sessionVars
<1>4. ASSUME NEW t \in Threads, Begin(t)
     PROVE  StreamTypeOK'
  <2>1. pc' \in [Threads -> {"idle", "copy", "begin", "record", "io", "submit",
                             "wait", "read", "unstage", "cleanup"}]
    BY <1>4 DEF Begin, Goto, Fail, Return
  <2>2. ret' \in [Threads -> {"none", "ok", "error", "unsupported"}]
    BY <1>4 DEF Begin, Goto, Fail, Return
  <2>3. job' \in [Threads -> Addrs \cup {"session", "upload", None}]
    BY <1>4 DEF Begin, Goto, Fail, Return
  <2>4. refs' \subseteq Buffers /\ holder' \in Threads \cup {None}
    BY <1>4 DEF Begin, Goto, Fail, Return
  <2>5. live' \subseteq Buffers /\ retired' \subseteq Buffers
        /\ uncertain' \in BOOLEAN
    BY <1>4 DEF Begin, Recovers, CannotRecover
  <2> QED BY <1>4, <2>1, <2>2, <2>3, <2>4, <2>5 DEF Begin, submissionVars, cacheVars, sessionVars
<1>5. ASSUME NEW t \in Threads, WeightFor(t)
     PROVE  StreamTypeOK'
  BY <1>5 DEF WeightFor, Goto, In, submissionVars, cacheVars, sessionVars
<1>6. ASSUME NEW t \in Threads, EnsureBuffer(t)
     PROVE  StreamTypeOK'
  BY <1>6 DEF EnsureBuffer, Goto, In, submissionVars, cacheVars, sessionVars
<1>7. ASSUME NEW t \in Threads, RecordFails(t)
     PROVE  StreamTypeOK'
  BY <1>7 DEF RecordFails, Fail, Return, In, submissionVars, cacheVars,
     sessionVars
<1>8. ASSUME NEW t \in Threads, Record(t)
     PROVE  StreamTypeOK'
  BY <1>8 DEF Record, Goto, OwnerInv, MineInv, MineNamed, submissionVars,
     cacheVars, sessionVars
<1>9. ASSUME NEW t \in Threads, Submit(t)
     PROVE  StreamTypeOK'
  <2>1. pc' \in [Threads -> {"idle", "copy", "begin", "record", "io", "submit",
                             "wait", "read", "unstage", "cleanup"}]
    BY <1>9 DEF Submit, Goto, Fail, Return
  <2>2. ret' \in [Threads -> {"none", "ok", "error", "unsupported"}]
    BY <1>9 DEF Submit, Goto, Fail, Return
  <2>3. job' \in [Threads -> Addrs \cup {"session", "upload", None}]
    BY <1>9 DEF Submit, Goto, Fail, Return
  <2>4. refs' \subseteq Buffers /\ holder' \in Threads \cup {None}
    BY <1>9 DEF Submit, Goto, Fail, Return
  <2> QED BY <1>9, <2>1, <2>2, <2>3, <2>4 DEF Submit, submissionVars, cacheVars, sessionVars
<1>10. ASSUME NEW t \in Threads, SubmitRefused(t)
     PROVE  StreamTypeOK'
  BY <1>10 DEF SubmitRefused, Fail, Return, submissionVars, cacheVars,
     sessionVars
<1>11. ASSUME NEW t \in Threads, FenceSignaled(t)
     PROVE  StreamTypeOK'
  <2>1. pc' \in [Threads -> {"idle", "copy", "begin", "record", "io", "submit",
                             "wait", "read", "unstage", "cleanup"}]
    BY <1>11 DEF FenceSignaled, Goto, Return
  <2>2. ret' \in [Threads -> {"none", "ok", "error", "unsupported"}]
    BY <1>11 DEF FenceSignaled, Goto, Return
  <2>3. job' \in [Threads -> Addrs \cup {"session", "upload", None}]
    BY <1>11 DEF FenceSignaled, Goto, Return
  <2>4. refs' \subseteq Buffers /\ holder' \in Threads \cup {None}
    BY <1>11 DEF FenceSignaled, Goto, Return
  <2> QED BY <1>11, <2>1, <2>2, <2>3, <2>4 DEF FenceSignaled, submissionVars, cacheVars, sessionVars
<1>12. ASSUME NEW t \in Threads, FenceTimeout(t)
     PROVE  StreamTypeOK'
  BY <1>12 DEF FenceTimeout, Fail, Return, submissionVars, cacheVars,
     sessionVars
<1>13. ASSUME NEW t \in Threads, ReadOutput(t)
     PROVE  StreamTypeOK'
  BY <1>13 DEF ReadOutput, Return, submissionVars, cacheVars, sessionVars
<1>14. ASSUME NEW t \in Threads, StartUpload(t)
     PROVE  StreamTypeOK'
  BY <1>14 DEF StartUpload, Goto, submissionVars, cacheVars, sessionVars
<1>15. ASSUME NEW t \in Threads, AllocateStatic(t)
     PROVE  StreamTypeOK'
  BY <1>15 DEF AllocateStatic, submissionVars, cacheVars, sessionVars
<1>16. ASSUME NEW t \in Threads, Unstage(t)
     PROVE  StreamTypeOK'
  BY <1>16 DEF Unstage, Goto, OwnerInv, MineInv, MineNamed, submissionVars,
     cacheVars, sessionVars
<1>17. ASSUME NEW t \in Threads, Cleanup(t)
     PROVE  StreamTypeOK'
  BY <1>17 DEF Cleanup, Goto, Recovers, CannotRecover, submissionVars,
     cacheVars, sessionVars
<1>18. ASSUME NEW t \in Threads, DropSession(t)
     PROVE  StreamTypeOK'
  BY <1>18 DEF DropSession, Recovers, CannotRecover, submissionVars, cacheVars,
     sessionVars
<1>19. ASSUME NEW a \in Addrs, Load(a)
     PROVE  StreamTypeOK'
  BY <1>19 DEF Load, submissionVars, cacheVars, sessionVars
<1>20. ASSUME NEW a \in Addrs, Unload(a)
     PROVE  StreamTypeOK'
  <2>1. /\ cache' \in [Addrs -> Buffers \cup {None}]
        /\ content' \in [Addrs -> Versions \cup {None}]
        /\ host' \in [Addrs -> Versions \cup {None}]
    BY <1>20 DEF Unload
  <2>2. retired \cup In(cache[a]) \subseteq Buffers
    BY DEF In
  <2>3. live' \subseteq Buffers /\ retired' \subseteq Buffers
        /\ uncertain' \in BOOLEAN
    BY <1>20, <2>2 DEF Unload, Recovers, CannotRecover
  <2> QED BY <1>20, <2>1, <2>3 DEF Unload, submissionVars, cacheVars, sessionVars
<1>21. ASSUME DeviceIdle
     PROVE  StreamTypeOK'
  BY <1>21 DEF DeviceIdle, submissionVars, cacheVars, sessionVars
<1>22. ASSUME Shutdown
     PROVE  StreamTypeOK'
  <2>1. cache' \in [Addrs -> Buffers \cup {None}]
    BY <1>22 DEF Shutdown
  <2>2. live' \subseteq Buffers /\ retired' \subseteq Buffers
        /\ io' \in Buffers \cup {None}
        /\ shutdown' \in BOOLEAN /\ uncertain' \in BOOLEAN
    BY <1>22 DEF Shutdown
  <2> QED BY <1>22, <2>1, <2>2 DEF Shutdown, submissionVars, cacheVars, sessionVars
<1>23. ASSUME NEW t \in Threads, LoseStatic(t)
     PROVE  StreamTypeOK'
  BY <1>23 DEF LoseStatic, submissionVars, cacheVars, sessionVars
<1> QED BY <1>1, <1>2, <1>3, <1>4, <1>5, <1>6, <1>7, <1>8, <1>9, <1>10, <1>11, <1>12, <1>13, <1>14, <1>15, <1>16, <1>17, <1>18, <1>19, <1>20, <1>21, <1>22, <1>23
     DEF StreamNext, Submission, Ownership

\* Every step keeps what is known of the mutex.
LEMMA MutexStep ==
  ASSUME IInv, StreamNext
  PROVE  MutexInv'
<1> USE StreamAssumption DEF IInv, StreamTypeOK, MutexInv, Inside
<1>1. ASSUME NEW t \in Threads, NEW a \in Addrs, StartMatmul(t, a)
     PROVE  MutexInv'
  BY <1>1 DEF StartMatmul, Takes, Goto, submissionVars, cacheVars, sessionVars
<1>2. ASSUME NEW t \in Threads, StartSession(t)
     PROVE  MutexInv'
  BY <1>2 DEF StartSession, Takes, Goto, submissionVars, cacheVars,
     sessionVars
<1>3. ASSUME NEW t \in Threads, StartCopy(t)
     PROVE  MutexInv'
  BY <1>3 DEF StartCopy, Takes, Goto, submissionVars, cacheVars, sessionVars
<1>4. ASSUME NEW t \in Threads, Begin(t)
     PROVE  MutexInv'
  BY <1>4 DEF Begin, Recovers, CannotRecover, Goto, Fail, Return,
     submissionVars, cacheVars, sessionVars
<1>5. ASSUME NEW t \in Threads, WeightFor(t)
     PROVE  MutexInv'
  BY <1>5 DEF WeightFor, Goto, In, submissionVars, cacheVars, sessionVars
<1>6. ASSUME NEW t \in Threads, EnsureBuffer(t)
     PROVE  MutexInv'
  BY <1>6 DEF EnsureBuffer, Goto, In, submissionVars, cacheVars, sessionVars
<1>7. ASSUME NEW t \in Threads, RecordFails(t)
     PROVE  MutexInv'
  BY <1>7 DEF RecordFails, Fail, Return, In, submissionVars, cacheVars,
     sessionVars
<1>8. ASSUME NEW t \in Threads, Record(t)
     PROVE  MutexInv'
  BY <1>8 DEF Record, Goto, submissionVars, cacheVars, sessionVars
<1>9. ASSUME NEW t \in Threads, Submit(t)
     PROVE  MutexInv'
  BY <1>9 DEF Submit, Goto, Fail, Return, submissionVars, cacheVars,
     sessionVars
<1>10. ASSUME NEW t \in Threads, SubmitRefused(t)
     PROVE  MutexInv'
  BY <1>10 DEF SubmitRefused, Fail, Return, submissionVars, cacheVars,
     sessionVars
<1>11. ASSUME NEW t \in Threads, FenceSignaled(t)
     PROVE  MutexInv'
  BY <1>11 DEF FenceSignaled, Goto, Return, submissionVars, cacheVars,
     sessionVars
<1>12. ASSUME NEW t \in Threads, FenceTimeout(t)
     PROVE  MutexInv'
  BY <1>12 DEF FenceTimeout, Fail, Return, submissionVars, cacheVars,
     sessionVars
<1>13. ASSUME NEW t \in Threads, ReadOutput(t)
     PROVE  MutexInv'
  BY <1>13 DEF ReadOutput, Return, submissionVars, cacheVars, sessionVars
<1>14. ASSUME NEW t \in Threads, StartUpload(t)
     PROVE  MutexInv'
  BY <1>14 DEF StartUpload, Goto, submissionVars, cacheVars, sessionVars
<1>15. ASSUME NEW t \in Threads, AllocateStatic(t)
     PROVE  MutexInv'
  BY <1>15 DEF AllocateStatic, submissionVars, cacheVars, sessionVars
<1>16. ASSUME NEW t \in Threads, Unstage(t)
     PROVE  MutexInv'
  BY <1>16 DEF Unstage, Goto, submissionVars, cacheVars, sessionVars
<1>17. ASSUME NEW t \in Threads, Cleanup(t)
     PROVE  MutexInv'
  BY <1>17 DEF Cleanup, Goto, Recovers, CannotRecover, submissionVars,
     cacheVars, sessionVars
<1>18. ASSUME NEW t \in Threads, DropSession(t)
     PROVE  MutexInv'
  BY <1>18 DEF DropSession, Recovers, CannotRecover, submissionVars, cacheVars,
     sessionVars
<1>19. ASSUME NEW a \in Addrs, Load(a)
     PROVE  MutexInv'
  BY <1>19 DEF Load, submissionVars, cacheVars, sessionVars
<1>20. ASSUME NEW a \in Addrs, Unload(a)
     PROVE  MutexInv'
  BY <1>20 DEF Unload, Recovers, CannotRecover, In, submissionVars, cacheVars,
     sessionVars
<1>21. ASSUME DeviceIdle
     PROVE  MutexInv'
  BY <1>21 DEF DeviceIdle, submissionVars, cacheVars, sessionVars
<1>22. ASSUME Shutdown
     PROVE  MutexInv'
  BY <1>22 DEF Shutdown, Cached, In, submissionVars, cacheVars, sessionVars
<1>23. ASSUME NEW t \in Threads, LoseStatic(t)
     PROVE  MutexInv'
  BY <1>23 DEF LoseStatic, submissionVars, cacheVars, sessionVars
<1> QED BY <1>1, <1>2, <1>3, <1>4, <1>5, <1>6, <1>7, <1>8, <1>9, <1>10, <1>11, <1>12, <1>13, <1>14, <1>15, <1>16, <1>17, <1>18, <1>19, <1>20, <1>21, <1>22, <1>23
     DEF StreamNext, Submission, Ownership

\* Every step keeps what is known of the device.
LEMMA IdleStep ==
  ASSUME IInv, StreamNext
  PROVE  IdleInv'
<1> USE StreamAssumption DEF IInv, StreamTypeOK, MutexInv, IdleInv, Inside,
     Known, ShutdownIsFinal
<1>1. ASSUME NEW t \in Threads, NEW a \in Addrs, StartMatmul(t, a)
     PROVE  IdleInv'
  BY <1>1 DEF StartMatmul, Takes, Goto, submissionVars, cacheVars, sessionVars
<1>2. ASSUME NEW t \in Threads, StartSession(t)
     PROVE  IdleInv'
  BY <1>2 DEF StartSession, Takes, Goto, submissionVars, cacheVars,
     sessionVars
<1>3. ASSUME NEW t \in Threads, StartCopy(t)
     PROVE  IdleInv'
  BY <1>3 DEF StartCopy, Takes, Goto, submissionVars, cacheVars, sessionVars
<1>4. ASSUME NEW t \in Threads, Begin(t)
     PROVE  IdleInv'
  BY <1>4 DEF Begin, Recovers, CannotRecover, Goto, Fail, Return,
     submissionVars, cacheVars, sessionVars
<1>5. ASSUME NEW t \in Threads, WeightFor(t)
     PROVE  IdleInv'
  BY <1>5 DEF WeightFor, Goto, In, submissionVars, cacheVars, sessionVars
<1>6. ASSUME NEW t \in Threads, EnsureBuffer(t)
     PROVE  IdleInv'
  BY <1>6 DEF EnsureBuffer, Goto, In, submissionVars, cacheVars, sessionVars
<1>7. ASSUME NEW t \in Threads, RecordFails(t)
     PROVE  IdleInv'
  BY <1>7 DEF RecordFails, Fail, Return, In, submissionVars, cacheVars,
     sessionVars
<1>8. ASSUME NEW t \in Threads, Record(t)
     PROVE  IdleInv'
  BY <1>8 DEF Record, Goto, submissionVars, cacheVars, sessionVars
<1>9. ASSUME NEW t \in Threads, Submit(t)
     PROVE  IdleInv'
  BY <1>9 DEF Submit, Goto, Fail, Return, submissionVars, cacheVars,
     sessionVars
<1>10. ASSUME NEW t \in Threads, SubmitRefused(t)
     PROVE  IdleInv'
  BY <1>10 DEF SubmitRefused, Fail, Return, submissionVars, cacheVars,
     sessionVars
<1>11. ASSUME NEW t \in Threads, FenceSignaled(t)
     PROVE  IdleInv'
  BY <1>11 DEF FenceSignaled, Goto, Return, submissionVars, cacheVars,
     sessionVars
<1>12. ASSUME NEW t \in Threads, FenceTimeout(t)
     PROVE  IdleInv'
  BY <1>12 DEF FenceTimeout, Fail, Return, submissionVars, cacheVars,
     sessionVars
<1>13. ASSUME NEW t \in Threads, ReadOutput(t)
     PROVE  IdleInv'
  BY <1>13 DEF ReadOutput, Return, submissionVars, cacheVars, sessionVars
<1>14. ASSUME NEW t \in Threads, StartUpload(t)
     PROVE  IdleInv'
  BY <1>14 DEF StartUpload, Goto, submissionVars, cacheVars, sessionVars
<1>15. ASSUME NEW t \in Threads, AllocateStatic(t)
     PROVE  IdleInv'
  BY <1>15 DEF AllocateStatic, submissionVars, cacheVars, sessionVars
<1>16. ASSUME NEW t \in Threads, Unstage(t)
     PROVE  IdleInv'
  BY <1>16 DEF Unstage, Goto, submissionVars, cacheVars, sessionVars
<1>17. ASSUME NEW t \in Threads, Cleanup(t)
     PROVE  IdleInv'
  BY <1>17 DEF Cleanup, Goto, Recovers, CannotRecover, submissionVars,
     cacheVars, sessionVars
<1>18. ASSUME NEW t \in Threads, DropSession(t)
     PROVE  IdleInv'
  BY <1>18 DEF DropSession, Recovers, CannotRecover, submissionVars, cacheVars,
     sessionVars
<1>19. ASSUME NEW a \in Addrs, Load(a)
     PROVE  IdleInv'
  BY <1>19 DEF Load, submissionVars, cacheVars, sessionVars
<1>20. ASSUME NEW a \in Addrs, Unload(a)
     PROVE  IdleInv'
  BY <1>20 DEF Unload, Recovers, CannotRecover, In, submissionVars, cacheVars,
     sessionVars
<1>21. ASSUME DeviceIdle
     PROVE  IdleInv'
  BY <1>21 DEF DeviceIdle, submissionVars, cacheVars, sessionVars
<1>22. ASSUME Shutdown
     PROVE  IdleInv'
  BY <1>22 DEF Shutdown, Cached, In, submissionVars, cacheVars, sessionVars
<1>23. ASSUME NEW t \in Threads, LoseStatic(t)
     PROVE  IdleInv'
  BY <1>23 DEF LoseStatic, submissionVars, cacheVars, sessionVars
<1> QED BY <1>1, <1>2, <1>3, <1>4, <1>5, <1>6, <1>7, <1>8, <1>9, <1>10, <1>11, <1>12, <1>13, <1>14, <1>15, <1>16, <1>17, <1>18, <1>19, <1>20, <1>21, <1>22, <1>23
     DEF StreamNext, Submission, Ownership

\* Every step keeps the context's buffers apart and alive.
LEMMA SharedStep ==
  ASSUME IInv, StreamNext
  PROVE  SharedInv'
<1> USE StreamAssumption DEF IInv, StreamTypeOK, OwnerInv, SharedInv, MineInv,
     Mine, Shared, Cached, In
<1>1. ASSUME NEW t \in Threads, NEW a \in Addrs, StartMatmul(t, a)
     PROVE  SharedInv'
  BY <1>1 DEF StartMatmul, Takes, Goto, submissionVars, cacheVars, sessionVars
<1>2. ASSUME NEW t \in Threads, StartSession(t)
     PROVE  SharedInv'
  BY <1>2 DEF StartSession, Takes, Goto, submissionVars, cacheVars,
     sessionVars
<1>3. ASSUME NEW t \in Threads, StartCopy(t)
     PROVE  SharedInv'
  BY <1>3 DEF StartCopy, Takes, Goto, submissionVars, cacheVars, sessionVars
<1>4. ASSUME NEW t \in Threads, Begin(t)
     PROVE  SharedInv'
  BY <1>4 DEF Begin, Recovers, CannotRecover, Goto, Fail, Return,
     submissionVars, cacheVars, sessionVars
<1>5. ASSUME NEW t \in Threads, WeightFor(t)
     PROVE  SharedInv'
  BY <1>5 DEF WeightFor, Goto, submissionVars, cacheVars, sessionVars
<1>6. ASSUME NEW t \in Threads, EnsureBuffer(t)
     PROVE  SharedInv'
  BY <1>6 DEF EnsureBuffer, Goto, submissionVars, cacheVars, sessionVars
<1>7. ASSUME NEW t \in Threads, RecordFails(t)
     PROVE  SharedInv'
  BY <1>7 DEF RecordFails, Fail, Return, submissionVars, cacheVars,
     sessionVars
<1>8. ASSUME NEW t \in Threads, Record(t)
     PROVE  SharedInv'
  BY <1>8 DEF Record, Goto, submissionVars, cacheVars, sessionVars
<1>9. ASSUME NEW t \in Threads, Submit(t)
     PROVE  SharedInv'
  BY <1>9 DEF Submit, Goto, Fail, Return, submissionVars, cacheVars,
     sessionVars
<1>10. ASSUME NEW t \in Threads, SubmitRefused(t)
     PROVE  SharedInv'
  BY <1>10 DEF SubmitRefused, Fail, Return, submissionVars, cacheVars,
     sessionVars
<1>11. ASSUME NEW t \in Threads, FenceSignaled(t)
     PROVE  SharedInv'
  BY <1>11 DEF FenceSignaled, Goto, Return, submissionVars, cacheVars,
     sessionVars
<1>12. ASSUME NEW t \in Threads, FenceTimeout(t)
     PROVE  SharedInv'
  BY <1>12 DEF FenceTimeout, Fail, Return, submissionVars, cacheVars,
     sessionVars
<1>13. ASSUME NEW t \in Threads, ReadOutput(t)
     PROVE  SharedInv'
  BY <1>13 DEF ReadOutput, Return, submissionVars, cacheVars, sessionVars
<1>14. ASSUME NEW t \in Threads, StartUpload(t)
     PROVE  SharedInv'
  BY <1>14 DEF StartUpload, Goto, submissionVars, cacheVars, sessionVars
<1>15. ASSUME NEW t \in Threads, AllocateStatic(t)
     PROVE  SharedInv'
  BY <1>15 DEF AllocateStatic, submissionVars, cacheVars, sessionVars
<1>16. ASSUME NEW t \in Threads, Unstage(t)
     PROVE  SharedInv'
  BY <1>16 DEF Unstage, Goto, submissionVars, cacheVars, sessionVars
<1>17. ASSUME NEW t \in Threads, Cleanup(t)
     PROVE  SharedInv'
  BY <1>17 DEF Cleanup, Goto, Recovers, CannotRecover, submissionVars,
     cacheVars, sessionVars
<1>18. ASSUME NEW t \in Threads, DropSession(t)
     PROVE  SharedInv'
  BY <1>18 DEF DropSession, Recovers, CannotRecover, submissionVars, cacheVars,
     sessionVars
<1>19. ASSUME NEW a \in Addrs, Load(a)
     PROVE  SharedInv'
  BY <1>19 DEF Load, submissionVars, cacheVars, sessionVars
<1>20. ASSUME NEW a \in Addrs, Unload(a)
     PROVE  SharedInv'
  BY <1>20 DEF Unload, Recovers, CannotRecover, submissionVars, cacheVars,
     sessionVars
<1>21. ASSUME DeviceIdle
     PROVE  SharedInv'
  BY <1>21 DEF DeviceIdle, submissionVars, cacheVars, sessionVars
<1>22. ASSUME Shutdown
     PROVE  SharedInv'
  BY <1>22 DEF Shutdown, submissionVars, cacheVars, sessionVars
<1>23. ASSUME NEW t \in Threads, LoseStatic(t)
     PROVE  SharedInv'
  BY <1>23 DEF LoseStatic, submissionVars, cacheVars, sessionVars
<1> QED BY <1>1, <1>2, <1>3, <1>4, <1>5, <1>6, <1>7, <1>8, <1>9, <1>10, <1>11, <1>12, <1>13, <1>14, <1>15, <1>16, <1>17, <1>18, <1>19, <1>20, <1>21, <1>22, <1>23
     DEF StreamNext, Submission, Ownership

\* Every step keeps each thread's buffers alive and apart from the context's.
LEMMA MineStep ==
  ASSUME IInv, StreamNext
  PROVE  MineInv'
<1> USE StreamAssumption DEF IInv, StreamTypeOK, OwnerInv, SharedInv, MineInv,
     Mine, Shared, Cached, In, MineNamed
<1>1. ASSUME NEW t \in Threads, NEW a \in Addrs, StartMatmul(t, a)
     PROVE  MineInv'
  BY <1>1 DEF StartMatmul, Takes, Goto, MutexInv, Inside, submissionVars,
     cacheVars, sessionVars
<1>2. ASSUME NEW t \in Threads, StartSession(t)
     PROVE  MineInv'
  BY <1>2 DEF StartSession, Takes, Goto, submissionVars, cacheVars,
     sessionVars
<1>3. ASSUME NEW t \in Threads, StartCopy(t)
     PROVE  MineInv'
  BY <1>3 DEF StartCopy, Takes, Goto, MutexInv, Inside, submissionVars,
     cacheVars, sessionVars
<1>4. ASSUME NEW t \in Threads, Begin(t)
     PROVE  MineInv'
  BY <1>4 DEF Begin, Recovers, CannotRecover, Goto, Fail, Return,
     submissionVars, cacheVars, sessionVars
<1>5. ASSUME NEW t \in Threads, WeightFor(t)
     PROVE  MineInv'
  BY <1>5 DEF WeightFor, Goto, submissionVars, cacheVars, sessionVars
<1>6. ASSUME NEW t \in Threads, EnsureBuffer(t)
     PROVE  MineInv'
  BY <1>6 DEF EnsureBuffer, Goto, submissionVars, cacheVars, sessionVars
<1>7. ASSUME NEW t \in Threads, RecordFails(t)
     PROVE  MineInv'
  BY <1>7 DEF RecordFails, Fail, Return, submissionVars, cacheVars,
     sessionVars
<1>8. ASSUME NEW t \in Threads, Record(t)
     PROVE  MineInv'
  BY <1>8 DEF Record, Goto, submissionVars, cacheVars, sessionVars
<1>9. ASSUME NEW t \in Threads, Submit(t)
     PROVE  MineInv'
  BY <1>9 DEF Submit, Goto, Fail, Return, submissionVars, cacheVars,
     sessionVars
<1>10. ASSUME NEW t \in Threads, SubmitRefused(t)
     PROVE  MineInv'
  BY <1>10 DEF SubmitRefused, Fail, Return, submissionVars, cacheVars,
     sessionVars
<1>11. ASSUME NEW t \in Threads, FenceSignaled(t)
     PROVE  MineInv'
  BY <1>11 DEF FenceSignaled, Goto, Return, submissionVars, cacheVars,
     sessionVars
<1>12. ASSUME NEW t \in Threads, FenceTimeout(t)
     PROVE  MineInv'
  BY <1>12 DEF FenceTimeout, Fail, Return, submissionVars, cacheVars,
     sessionVars
<1>13. ASSUME NEW t \in Threads, ReadOutput(t)
     PROVE  MineInv'
  BY <1>13 DEF ReadOutput, Return, MutexInv, Inside, submissionVars, cacheVars,
     sessionVars
<1>14. ASSUME NEW t \in Threads, StartUpload(t)
     PROVE  MineInv'
  BY <1>14 DEF StartUpload, Goto, submissionVars, cacheVars, sessionVars
<1>15. ASSUME NEW t \in Threads, AllocateStatic(t)
     PROVE  MineInv'
  BY <1>15 DEF AllocateStatic, MutexInv, Inside, submissionVars, cacheVars,
     sessionVars
<1>16. ASSUME NEW t \in Threads, Unstage(t)
     PROVE  MineInv'
  <2>1. Shared' = Shared /\ staging[t] \in Mine(t) /\ target[t] \in Mine(t)
        /\ staging[t] # target[t]
    BY <1>16 DEF Unstage, Goto, submissionVars, cacheVars, sessionVars
  <2>2. \A u \in Threads \ {t}: Mine(u)' = Mine(u) /\ staging[t] \notin Mine(u)
    BY <1>16, <2>1 DEF Unstage, Goto, ApartInv
  <2>3. Mine(t)' = {target[t]}
    BY <1>16 DEF Unstage, Goto
  <2>4. \A u \in Threads: MineNamed(u)'
    <3>1. \A u \in Threads \ {t}: MineNamed(u)'
      BY <1>16 DEF Unstage, Goto
    <3>2. MineNamed(t)'
      BY <1>16 DEF Unstage, Goto, MutexInv, Inside
    <3> QED BY <3>1, <3>2
  <2> HIDE DEF Mine, Shared, MineNamed
  <2>0. /\ Shared \subseteq live
        /\ \A u \in Threads: Mine(u) \subseteq live /\ Mine(u) \cap Shared = {}
    BY DEF OwnerInv
  <2>5. live' = live \ {staging[t]}
    BY <1>16 DEF Unstage
  <2> QED BY <2>0, <2>1, <2>2, <2>3, <2>4, <2>5 DEF MineInv
<1>17. ASSUME NEW t \in Threads, Cleanup(t)
     PROVE  MineInv'
  <2>1. Shared' \subseteq Shared /\ \A u \in Threads: Mine(u)' \subseteq Mine(u)
    BY <1>17 DEF Cleanup, Goto, Recovers, CannotRecover, submissionVars, cacheVars, sessionVars
  <2>2. \A u \in Threads: Mine(u)' \cap {staging[t], target[t]} = {}
    <3>1. Mine(t)' = owned[t] /\ {staging[t], target[t]} \subseteq Mine(t)
      BY <1>17 DEF Cleanup, Goto
    <3>2. owned[t] \cap {staging[t], target[t]} = {}
      OBVIOUS
    <3> QED BY <2>1, <3>1, <3>2 DEF OwnerInv, ApartInv
  <2>3. live \ live' \subseteq Shared \cup {staging[t], target[t]}
    BY <1>17 DEF Cleanup, Recovers, CannotRecover
  <2>4. \A u \in Threads: MineNamed(u)'
    <3>1. \A u \in Threads \ {t}: MineNamed(u)'
      BY <1>17 DEF Cleanup, Goto
    <3>2. MineNamed(t)'
      BY <1>17 DEF Cleanup, Goto, MutexInv, Inside
    <3> QED BY <3>1, <3>2
  <2> HIDE DEF Mine, Shared, MineNamed
  <2>0. /\ Shared \subseteq live
        /\ \A u \in Threads: Mine(u) \subseteq live /\ Mine(u) \cap Shared = {}
    BY DEF OwnerInv
  <2> QED BY <2>0, <2>1, <2>2, <2>3, <2>4 DEF MineInv
<1>18. ASSUME NEW t \in Threads, DropSession(t)
     PROVE  MineInv'
  <2>1. Shared' \subseteq Shared /\ \A u \in Threads: Mine(u)' \subseteq Mine(u)
    BY <1>18 DEF DropSession, Recovers, CannotRecover, submissionVars, cacheVars, sessionVars
  <2>2. \A u \in Threads: Mine(u)' \cap owned[t] = {}
    BY <1>18 DEF DropSession, ApartInv
  <2>3. live \ live' \subseteq Shared \cup owned[t]
    BY <1>18 DEF DropSession, Recovers, CannotRecover
  <2>4. \A u \in Threads: MineNamed(u)'
    BY <1>18 DEF DropSession
  <2> HIDE DEF Mine, Shared, MineNamed
  <2>0. /\ Shared \subseteq live
        /\ \A u \in Threads: Mine(u) \subseteq live /\ Mine(u) \cap Shared = {}
    BY DEF OwnerInv
  <2> QED BY <2>0, <2>1, <2>2, <2>3, <2>4 DEF MineInv
<1>19. ASSUME NEW a \in Addrs, Load(a)
     PROVE  MineInv'
  BY <1>19 DEF Load, submissionVars, cacheVars, sessionVars
<1>20. ASSUME NEW a \in Addrs, Unload(a)
     PROVE  MineInv'
  BY <1>20 DEF Unload, Recovers, CannotRecover, submissionVars, cacheVars,
     sessionVars
<1>21. ASSUME DeviceIdle
     PROVE  MineInv'
  BY <1>21 DEF DeviceIdle, submissionVars, cacheVars, sessionVars
<1>22. ASSUME Shutdown
     PROVE  MineInv'
  <2>1. Shared' \subseteq Shared /\ \A u \in Threads: Mine(u)' = Mine(u)
    BY <1>22 DEF Shutdown, submissionVars, cacheVars, sessionVars
  <2>2. live \ live' \subseteq Shared
    <3> HIDE DEF In, Cached
    <3> QED BY <1>22 DEF Shutdown
  <2>3. \A u \in Threads: MineNamed(u)'
    BY <1>22 DEF Shutdown, submissionVars, cacheVars, sessionVars
  <2> HIDE DEF Mine, Shared, MineNamed
  <2>0. /\ Shared \subseteq live
        /\ \A u \in Threads: Mine(u) \subseteq live /\ Mine(u) \cap Shared = {}
    BY DEF OwnerInv
  <2> QED BY <2>0, <2>1, <2>2, <2>3 DEF MineInv
<1>23. ASSUME NEW t \in Threads, LoseStatic(t)
     PROVE  MineInv'
  BY <1>23 DEF LoseStatic, MutexInv, Inside, submissionVars, cacheVars,
     sessionVars
<1> QED BY <1>1, <1>2, <1>3, <1>4, <1>5, <1>6, <1>7, <1>8, <1>9, <1>10, <1>11, <1>12, <1>13, <1>14, <1>15, <1>16, <1>17, <1>18, <1>19, <1>20, <1>21, <1>22, <1>23
     DEF StreamNext, Submission, Ownership

\* Every step keeps the threads' buffers apart.
LEMMA ApartStep ==
  ASSUME IInv, StreamNext
  PROVE  ApartInv'
<1> USE StreamAssumption DEF IInv, StreamTypeOK, OwnerInv, SharedInv, MineInv,
     Mine, Shared, Cached, In, ApartInv, MineNamed
<1>1. ASSUME NEW t \in Threads, NEW a \in Addrs, StartMatmul(t, a)
     PROVE  ApartInv'
  BY <1>1 DEF StartMatmul, Takes, Goto, submissionVars, cacheVars, sessionVars
<1>2. ASSUME NEW t \in Threads, StartSession(t)
     PROVE  ApartInv'
  BY <1>2 DEF StartSession, Takes, Goto, submissionVars, cacheVars,
     sessionVars
<1>3. ASSUME NEW t \in Threads, StartCopy(t)
     PROVE  ApartInv'
  BY <1>3 DEF StartCopy, Takes, Goto, submissionVars, cacheVars, sessionVars
<1>4. ASSUME NEW t \in Threads, Begin(t)
     PROVE  ApartInv'
  BY <1>4 DEF Begin, Recovers, CannotRecover, Goto, Fail, Return,
     submissionVars, cacheVars, sessionVars
<1>5. ASSUME NEW t \in Threads, WeightFor(t)
     PROVE  ApartInv'
  BY <1>5 DEF WeightFor, Goto, submissionVars, cacheVars, sessionVars
<1>6. ASSUME NEW t \in Threads, EnsureBuffer(t)
     PROVE  ApartInv'
  BY <1>6 DEF EnsureBuffer, Goto, submissionVars, cacheVars, sessionVars
<1>7. ASSUME NEW t \in Threads, RecordFails(t)
     PROVE  ApartInv'
  BY <1>7 DEF RecordFails, Fail, Return, submissionVars, cacheVars,
     sessionVars
<1>8. ASSUME NEW t \in Threads, Record(t)
     PROVE  ApartInv'
  BY <1>8 DEF Record, Goto, submissionVars, cacheVars, sessionVars
<1>9. ASSUME NEW t \in Threads, Submit(t)
     PROVE  ApartInv'
  BY <1>9 DEF Submit, Goto, Fail, Return, submissionVars, cacheVars,
     sessionVars
<1>10. ASSUME NEW t \in Threads, SubmitRefused(t)
     PROVE  ApartInv'
  BY <1>10 DEF SubmitRefused, Fail, Return, submissionVars, cacheVars,
     sessionVars
<1>11. ASSUME NEW t \in Threads, FenceSignaled(t)
     PROVE  ApartInv'
  BY <1>11 DEF FenceSignaled, Goto, Return, submissionVars, cacheVars,
     sessionVars
<1>12. ASSUME NEW t \in Threads, FenceTimeout(t)
     PROVE  ApartInv'
  BY <1>12 DEF FenceTimeout, Fail, Return, submissionVars, cacheVars,
     sessionVars
<1>13. ASSUME NEW t \in Threads, ReadOutput(t)
     PROVE  ApartInv'
  BY <1>13 DEF ReadOutput, Return, submissionVars, cacheVars, sessionVars
<1>14. ASSUME NEW t \in Threads, StartUpload(t)
     PROVE  ApartInv'
  BY <1>14 DEF StartUpload, Goto, submissionVars, cacheVars, sessionVars
<1>15. ASSUME NEW t \in Threads, AllocateStatic(t)
     PROVE  ApartInv'
  BY <1>15 DEF AllocateStatic, submissionVars, cacheVars, sessionVars
<1>16. ASSUME NEW t \in Threads, Unstage(t)
     PROVE  ApartInv'
  BY <1>16 DEF Unstage, Goto, submissionVars, cacheVars, sessionVars
<1>17. ASSUME NEW t \in Threads, Cleanup(t)
     PROVE  ApartInv'
  BY <1>17 DEF Cleanup, Goto, Recovers, CannotRecover, submissionVars,
     cacheVars, sessionVars
<1>18. ASSUME NEW t \in Threads, DropSession(t)
     PROVE  ApartInv'
  BY <1>18 DEF DropSession, Recovers, CannotRecover, submissionVars, cacheVars,
     sessionVars
<1>19. ASSUME NEW a \in Addrs, Load(a)
     PROVE  ApartInv'
  BY <1>19 DEF Load, submissionVars, cacheVars, sessionVars
<1>20. ASSUME NEW a \in Addrs, Unload(a)
     PROVE  ApartInv'
  BY <1>20 DEF Unload, Recovers, CannotRecover, submissionVars, cacheVars,
     sessionVars
<1>21. ASSUME DeviceIdle
     PROVE  ApartInv'
  BY <1>21 DEF DeviceIdle, submissionVars, cacheVars, sessionVars
<1>22. ASSUME Shutdown
     PROVE  ApartInv'
  BY <1>22 DEF Shutdown, submissionVars, cacheVars, sessionVars
<1>23. ASSUME NEW t \in Threads, LoseStatic(t)
     PROVE  ApartInv'
  BY <1>23 DEF LoseStatic, submissionVars, cacheVars, sessionVars
<1> QED BY <1>1, <1>2, <1>3, <1>4, <1>5, <1>6, <1>7, <1>8, <1>9, <1>10, <1>11, <1>12, <1>13, <1>14, <1>15, <1>16, <1>17, <1>18, <1>19, <1>20, <1>21, <1>22, <1>23
     DEF StreamNext, Submission, Ownership

\* Every step keeps what the command buffer and the device refer to alive.
LEMMA RefsStep ==
  ASSUME IInv, StreamNext
  PROVE  RefsInv'
<1> USE StreamAssumption DEF IInv, StreamTypeOK, MutexInv, IdleInv, RefsInv,
     Inside, Known
<1>1. ASSUME NEW t \in Threads, NEW a \in Addrs, StartMatmul(t, a)
     PROVE  RefsInv'
  BY <1>1 DEF StartMatmul, Takes, Goto, Mine, Shared, Cached, In,
     submissionVars, cacheVars, sessionVars
<1>2. ASSUME NEW t \in Threads, StartSession(t)
     PROVE  RefsInv'
  BY <1>2 DEF StartSession, Takes, Goto, Mine, Shared, Cached, In,
     submissionVars, cacheVars, sessionVars
<1>3. ASSUME NEW t \in Threads, StartCopy(t)
     PROVE  RefsInv'
  BY <1>3 DEF StartCopy, Takes, Goto, Mine, Shared, Cached, In, submissionVars,
     cacheVars, sessionVars
<1>4. ASSUME NEW t \in Threads, Begin(t)
     PROVE  RefsInv'
  BY <1>4 DEF Begin, Recovers, CannotRecover, Goto, Fail, Return, Mine, Shared,
     Cached, In, submissionVars, cacheVars, sessionVars
<1>5. ASSUME NEW t \in Threads, WeightFor(t)
     PROVE  RefsInv'
  BY <1>5 DEF WeightFor, Goto, In, Mine, Shared, Cached, submissionVars,
     cacheVars, sessionVars
<1>6. ASSUME NEW t \in Threads, EnsureBuffer(t)
     PROVE  RefsInv'
  BY <1>6 DEF EnsureBuffer, Goto, In, OwnerInv, SharedInv, MineInv, ApartInv,
     Mine, Shared, Cached, MineNamed, submissionVars, cacheVars, sessionVars
<1>7. ASSUME NEW t \in Threads, RecordFails(t)
     PROVE  RefsInv'
  BY <1>7 DEF RecordFails, Fail, Return, In, OwnerInv, SharedInv, MineInv,
     ApartInv, Mine, Shared, Cached, MineNamed, submissionVars, cacheVars,
     sessionVars
<1>8. ASSUME NEW t \in Threads, Record(t)
     PROVE  RefsInv'
  BY <1>8 DEF Record, Goto, OwnerInv, SharedInv, MineInv, ApartInv, Mine,
     Shared, Cached, In, MineNamed, submissionVars, cacheVars, sessionVars
<1>9. ASSUME NEW t \in Threads, Submit(t)
     PROVE  RefsInv'
  BY <1>9 DEF Submit, Goto, Fail, Return, OwnerInv, SharedInv, MineInv,
     ApartInv, Mine, Shared, Cached, In, MineNamed, submissionVars, cacheVars,
     sessionVars
<1>10. ASSUME NEW t \in Threads, SubmitRefused(t)
     PROVE  RefsInv'
  BY <1>10 DEF SubmitRefused, Fail, Return, Mine, Shared, Cached, In,
     submissionVars, cacheVars, sessionVars
<1>11. ASSUME NEW t \in Threads, FenceSignaled(t)
     PROVE  RefsInv'
  BY <1>11 DEF FenceSignaled, Goto, Return, Mine, Shared, Cached, In,
     submissionVars, cacheVars, sessionVars
<1>12. ASSUME NEW t \in Threads, FenceTimeout(t)
     PROVE  RefsInv'
  BY <1>12 DEF FenceTimeout, Fail, Return, Mine, Shared, Cached, In,
     submissionVars, cacheVars, sessionVars
<1>13. ASSUME NEW t \in Threads, ReadOutput(t)
     PROVE  RefsInv'
  BY <1>13 DEF ReadOutput, Return, Mine, Shared, Cached, In, submissionVars,
     cacheVars, sessionVars
<1>14. ASSUME NEW t \in Threads, StartUpload(t)
     PROVE  RefsInv'
  BY <1>14 DEF StartUpload, Goto, Mine, Shared, Cached, In, submissionVars,
     cacheVars, sessionVars
<1>15. ASSUME NEW t \in Threads, AllocateStatic(t)
     PROVE  RefsInv'
  BY <1>15 DEF AllocateStatic, Mine, Shared, Cached, In, submissionVars,
     cacheVars, sessionVars
<1>16. ASSUME NEW t \in Threads, Unstage(t)
     PROVE  RefsInv'
  BY <1>16 DEF Unstage, Goto, OwnerInv, SharedInv, MineInv, ApartInv, Mine,
     Shared, Cached, In, MineNamed, submissionVars, cacheVars, sessionVars
<1>17. ASSUME NEW t \in Threads, Cleanup(t)
     PROVE  RefsInv'
  BY <1>17 DEF Cleanup, Goto, Recovers, CannotRecover, submissionVars,
     cacheVars, sessionVars
<1>18. ASSUME NEW t \in Threads, DropSession(t)
     PROVE  RefsInv'
  BY <1>18 DEF DropSession, Recovers, CannotRecover, submissionVars, cacheVars,
     sessionVars
<1>19. ASSUME NEW a \in Addrs, Load(a)
     PROVE  RefsInv'
  BY <1>19 DEF Load, Mine, Shared, Cached, In, submissionVars, cacheVars,
     sessionVars
<1>20. ASSUME NEW a \in Addrs, Unload(a)
     PROVE  RefsInv'
  BY <1>20 DEF Unload, Recovers, CannotRecover, In, submissionVars, cacheVars,
     sessionVars
<1>21. ASSUME DeviceIdle
     PROVE  RefsInv'
  BY <1>21 DEF DeviceIdle, Mine, Shared, Cached, In, submissionVars, cacheVars,
     sessionVars
<1>22. ASSUME Shutdown
     PROVE  RefsInv'
  BY <1>22 DEF Shutdown, Cached, In, submissionVars, cacheVars, sessionVars
<1>23. ASSUME NEW t \in Threads, LoseStatic(t)
     PROVE  RefsInv'
  BY <1>23 DEF LoseStatic, Mine, Shared, Cached, In, submissionVars,
     cacheVars, sessionVars
<1> QED BY <1>1, <1>2, <1>3, <1>4, <1>5, <1>6, <1>7, <1>8, <1>9, <1>10, <1>11, <1>12, <1>13, <1>14, <1>15, <1>16, <1>17, <1>18, <1>19, <1>20, <1>21, <1>22, <1>23
     DEF StreamNext, Submission, Ownership

\* Every step keeps the cached weights those at their addresses.
LEMMA CacheStep ==
  ASSUME IInv, StreamNext
  PROVE  CacheInv'
<1> USE StreamAssumption DEF IInv, StreamTypeOK, MutexInv, CacheInv, Inside
<1>1. ASSUME NEW t \in Threads, NEW a \in Addrs, StartMatmul(t, a)
     PROVE  CacheInv'
  BY <1>1 DEF StartMatmul, Takes, Goto, submissionVars, cacheVars, sessionVars
<1>2. ASSUME NEW t \in Threads, StartSession(t)
     PROVE  CacheInv'
  BY <1>2 DEF StartSession, Takes, Goto, submissionVars, cacheVars,
     sessionVars
<1>3. ASSUME NEW t \in Threads, StartCopy(t)
     PROVE  CacheInv'
  BY <1>3 DEF StartCopy, Takes, Goto, submissionVars, cacheVars, sessionVars
<1>4. ASSUME NEW t \in Threads, Begin(t)
     PROVE  CacheInv'
  BY <1>4 DEF Begin, Recovers, CannotRecover, Goto, Fail, Return,
     submissionVars, cacheVars, sessionVars
<1>5. ASSUME NEW t \in Threads, WeightFor(t)
     PROVE  CacheInv'
  BY <1>5 DEF WeightFor, Goto, In, OwnerInv, SharedInv, Shared, Cached,
     submissionVars, cacheVars, sessionVars
<1>6. ASSUME NEW t \in Threads, EnsureBuffer(t)
     PROVE  CacheInv'
  BY <1>6 DEF EnsureBuffer, Goto, In, RefsInv, submissionVars, cacheVars,
     sessionVars
<1>7. ASSUME NEW t \in Threads, RecordFails(t)
     PROVE  CacheInv'
  BY <1>7 DEF RecordFails, Fail, Return, In, submissionVars, cacheVars,
     sessionVars
<1>8. ASSUME NEW t \in Threads, Record(t)
     PROVE  CacheInv'
  BY <1>8 DEF Record, Goto, submissionVars, cacheVars, sessionVars
<1>9. ASSUME NEW t \in Threads, Submit(t)
     PROVE  CacheInv'
  BY <1>9 DEF Submit, Goto, Fail, Return, submissionVars, cacheVars,
     sessionVars
<1>10. ASSUME NEW t \in Threads, SubmitRefused(t)
     PROVE  CacheInv'
  BY <1>10 DEF SubmitRefused, Fail, Return, submissionVars, cacheVars,
     sessionVars
<1>11. ASSUME NEW t \in Threads, FenceSignaled(t)
     PROVE  CacheInv'
  BY <1>11 DEF FenceSignaled, Goto, Return, submissionVars, cacheVars,
     sessionVars
<1>12. ASSUME NEW t \in Threads, FenceTimeout(t)
     PROVE  CacheInv'
  BY <1>12 DEF FenceTimeout, Fail, Return, submissionVars, cacheVars,
     sessionVars
<1>13. ASSUME NEW t \in Threads, ReadOutput(t)
     PROVE  CacheInv'
  BY <1>13 DEF ReadOutput, Return, submissionVars, cacheVars, sessionVars
<1>14. ASSUME NEW t \in Threads, StartUpload(t)
     PROVE  CacheInv'
  BY <1>14 DEF StartUpload, Goto, submissionVars, cacheVars, sessionVars
<1>15. ASSUME NEW t \in Threads, AllocateStatic(t)
     PROVE  CacheInv'
  BY <1>15 DEF AllocateStatic, submissionVars, cacheVars, sessionVars
<1>16. ASSUME NEW t \in Threads, Unstage(t)
     PROVE  CacheInv'
  BY <1>16 DEF Unstage, Goto, submissionVars, cacheVars, sessionVars
<1>17. ASSUME NEW t \in Threads, Cleanup(t)
     PROVE  CacheInv'
  BY <1>17 DEF Cleanup, Goto, Recovers, CannotRecover, submissionVars,
     cacheVars, sessionVars
<1>18. ASSUME NEW t \in Threads, DropSession(t)
     PROVE  CacheInv'
  BY <1>18 DEF DropSession, Recovers, CannotRecover, submissionVars, cacheVars,
     sessionVars
<1>19. ASSUME NEW a \in Addrs, Load(a)
     PROVE  CacheInv'
  BY <1>19 DEF Load, submissionVars, cacheVars, sessionVars
<1>20. ASSUME NEW a \in Addrs, Unload(a)
     PROVE  CacheInv'
  BY <1>20 DEF Unload, Recovers, CannotRecover, In, OwnerInv, SharedInv,
     Shared, Cached, submissionVars, cacheVars, sessionVars
<1>21. ASSUME DeviceIdle
     PROVE  CacheInv'
  BY <1>21 DEF DeviceIdle, submissionVars, cacheVars, sessionVars
<1>22. ASSUME Shutdown
     PROVE  CacheInv'
  BY <1>22 DEF Shutdown, Cached, In, submissionVars, cacheVars, sessionVars
<1>23. ASSUME NEW t \in Threads, LoseStatic(t)
     PROVE  CacheInv'
  BY <1>23 DEF LoseStatic, submissionVars, cacheVars, sessionVars
<1> QED BY <1>1, <1>2, <1>3, <1>4, <1>5, <1>6, <1>7, <1>8, <1>9, <1>10, <1>11, <1>12, <1>13, <1>14, <1>15, <1>16, <1>17, <1>18, <1>19, <1>20, <1>21, <1>22, <1>23
     DEF StreamNext, Submission, Ownership
-----------------------------------------------------------------------------
\* A fresh context satisfies the invariant ...
LEMMA StreamInitInv == StreamInit => IInv
<1> SUFFICES ASSUME StreamInit PROVE IInv
  OBVIOUS
<1> USE StreamAssumption DEF StreamInit
<1>1. StreamTypeOK
  BY DEF StreamTypeOK
<1>2. MutexInv /\ IdleInv
  BY DEF MutexInv, IdleInv, Inside, Known, ShutdownIsFinal
<1>3. Shared = {} /\ \A t \in Threads: Mine(t) = {}
  BY DEF Mine, Shared, Cached, In
<1>4. OwnerInv
  BY <1>3 DEF OwnerInv, SharedInv, MineInv, MineNamed, ApartInv
<1>5. RefsInv /\ CacheInv
  BY DEF RefsInv, CacheInv
<1> QED BY <1>1, <1>2, <1>4, <1>5 DEF IInv

\* ... and every step of it keeps the invariant.
LEMMA StreamStepInv == IInv /\ [StreamNext]_streamVars => IInv'
<1> SUFFICES ASSUME IInv, [StreamNext]_streamVars PROVE IInv'
  OBVIOUS
<1>1. CASE StreamNext
  BY <1>1, TypesStep, MutexStep, IdleStep, SharedStep, MineStep, ApartStep,
     RefsStep, CacheStep DEF IInv, OwnerInv
<1>2. CASE UNCHANGED streamVars
  BY <1>2 DEF streamVars, submissionVars, cacheVars, sessionVars, IInv,
     StreamTypeOK, MutexInv, IdleInv, OwnerInv, SharedInv, MineInv, MineNamed,
     ApartInv, RefsInv, CacheInv, ShutdownIsFinal, Mine, Shared, Cached, In
<1> QED BY <1>1, <1>2

LEMMA StreamInvariant == StreamSpec => []IInv
BY StreamInitInv, StreamStepInv, PTL DEF StreamSpec

\* The pool is one more user of the context: what holds of every use of the
\* context holds of this one.
THEOREM PoolUsesStream == Spec => StreamSpec
<1>1. Init => StreamInit
  BY DEF Init
<1>2. [Next]_vars => [StreamNext]_streamVars
  <2> SUFFICES ASSUME [Next]_vars PROVE StreamNext \/ UNCHANGED streamVars
    OBVIOUS
  <2>1. CASE Dispatch
    BY <2>1, MatmulAssumption DEF Dispatch, StreamNext
  <2>2. CASE Device
    BY <2>2 DEF Device, StreamNext
  <2>3. CASE OpenClosure \/ Returned \/ Fallback \/ BrokenElsewhere
    BY <2>3 DEF OpenClosure, Returned, Fallback, BrokenElsewhere
  <2>4. ASSUME NEW i \in Pool, LeaveToLeader(i) \/ ComputePart(i)
        PROVE  UNCHANGED streamVars
    BY <2>4 DEF LeaveToLeader, ComputePart
  <2>5. CASE UNCHANGED vars
    BY <2>5 DEF vars
  <2> QED BY <2>1, <2>2, <2>3, <2>4, <2>5 DEF Next
<1> QED BY <1>1, <1>2, PTL DEF Spec, StreamSpec

\* No buffer the device may use is destroyed, whatever failed before.
THEOREM BuffersLive == StreamSpec => []DeviceBuffersLive
<1>1. IInv => DeviceBuffersLive
  BY DEF IInv, RefsInv, DeviceBuffersLive
<1> QED BY <1>1, StreamInvariant, PTL

\* The one command buffer, fence and I/O buffer are touched only while the
\* device is idle.
THEOREM RecordsIdle == StreamSpec => []RecordedWhileIdle
<1>1. IInv => RecordedWhileIdle
  BY DEF IInv, IdleInv, Known, RecordedWhileIdle
<1> QED BY <1>1, StreamInvariant, PTL

\* A product runs on the weights at its address, however often the address
\* was used again.
THEOREM CurrentWeights == StreamSpec => []WeightsAreCurrent
<1>1. IInv => WeightsAreCurrent
  BY StreamAssumption DEF IInv, CacheInv, WeightsAreCurrent
<1> QED BY <1>1, StreamInvariant, PTL

\* A context that was shut down stays empty.
THEOREM ShutdownLast == StreamSpec => []ShutdownIsFinal
<1>1. IInv => ShutdownIsFinal
  BY DEF IInv, IdleInv
<1> QED BY <1>1, StreamInvariant, PTL

\* A step of a context that is not in doubt leaves no buffer without an owner,
\* save the failed flush of a static upload.
LEMMA LeaksStep ==
  ASSUME IInv, StreamNext, ~uncertain, ~shutdown,
         ~\E t \in Threads: LoseStatic(t)
  PROVE  Orphans' \subseteq Orphans
<1> USE StreamAssumption DEF IInv, StreamTypeOK, MutexInv, OwnerInv,
     SharedInv, MineInv, MineNamed, Mine, Orphans, Cached, In
<1>1. ASSUME NEW t \in Threads, NEW a \in Addrs, StartMatmul(t, a)
     PROVE  Orphans' \subseteq Orphans
  BY <1>1 DEF StartMatmul, Takes, Goto, submissionVars, cacheVars, sessionVars
<1>2. ASSUME NEW t \in Threads, StartSession(t)
     PROVE  Orphans' \subseteq Orphans
  BY <1>2 DEF StartSession, Takes, Goto, submissionVars, cacheVars,
     sessionVars
<1>3. ASSUME NEW t \in Threads, StartCopy(t)
     PROVE  Orphans' \subseteq Orphans
  BY <1>3 DEF StartCopy, Takes, Goto, submissionVars, cacheVars, sessionVars
<1>4. ASSUME NEW t \in Threads, Begin(t)
     PROVE  Orphans' \subseteq Orphans
  BY <1>4 DEF Begin, Recovers, CannotRecover, Goto, Fail, Return,
     submissionVars, cacheVars, sessionVars
<1>5. ASSUME NEW t \in Threads, WeightFor(t)
     PROVE  Orphans' \subseteq Orphans
  BY <1>5 DEF WeightFor, Goto, submissionVars, cacheVars, sessionVars
<1>6. ASSUME NEW t \in Threads, EnsureBuffer(t)
     PROVE  Orphans' \subseteq Orphans
  BY <1>6 DEF EnsureBuffer, Goto, submissionVars, cacheVars, sessionVars
<1>7. ASSUME NEW t \in Threads, RecordFails(t)
     PROVE  Orphans' \subseteq Orphans
  BY <1>7 DEF RecordFails, Fail, Return, submissionVars, cacheVars,
     sessionVars
<1>8. ASSUME NEW t \in Threads, Record(t)
     PROVE  Orphans' \subseteq Orphans
  BY <1>8 DEF Record, Goto, submissionVars, cacheVars, sessionVars
<1>9. ASSUME NEW t \in Threads, Submit(t)
     PROVE  Orphans' \subseteq Orphans
  BY <1>9 DEF Submit, Goto, Fail, Return, submissionVars, cacheVars,
     sessionVars
<1>10. ASSUME NEW t \in Threads, SubmitRefused(t)
     PROVE  Orphans' \subseteq Orphans
  BY <1>10 DEF SubmitRefused, Fail, Return, submissionVars, cacheVars,
     sessionVars
<1>11. ASSUME NEW t \in Threads, FenceSignaled(t)
     PROVE  Orphans' \subseteq Orphans
  BY <1>11 DEF FenceSignaled, Goto, Return, submissionVars, cacheVars,
     sessionVars
<1>12. ASSUME NEW t \in Threads, FenceTimeout(t)
     PROVE  Orphans' \subseteq Orphans
  BY <1>12 DEF FenceTimeout, Fail, Return, submissionVars, cacheVars,
     sessionVars
<1>13. ASSUME NEW t \in Threads, ReadOutput(t)
     PROVE  Orphans' \subseteq Orphans
  BY <1>13 DEF ReadOutput, Return, submissionVars, cacheVars, sessionVars
<1>14. ASSUME NEW t \in Threads, StartUpload(t)
     PROVE  Orphans' \subseteq Orphans
  <2>1. PICK s, b \in Buffers:
          /\ live' = live \cup {s, b}
          /\ staging' = [staging EXCEPT ![t] = s]
          /\ target' = [target EXCEPT ![t] = b]
    BY <1>14 DEF StartUpload
  <2>2. {s, b} \subseteq Mine(t)' /\ \A u \in Threads: Mine(u) \subseteq Mine(u)'
    BY <1>14, <2>1 DEF StartUpload, Goto, Inside
  <2>3. retired' = retired /\ Cached' = Cached /\ In(io)' = In(io)
    BY <1>14 DEF StartUpload, submissionVars, cacheVars, sessionVars
  <2>4. \A o: o \in Orphans <=> o \in live /\ o \notin retired \cup Cached \cup In(io)
               /\ \A u \in Threads: o \notin Mine(u)
    OBVIOUS
  <2>5. \A o: o \in Orphans' <=> o \in live' /\ o \notin (retired \cup Cached \cup In(io))'
               /\ \A u \in Threads: o \notin Mine(u)'
    OBVIOUS
  <2> HIDE DEF Mine, Cached, In, Orphans
  <2> QED BY <1>14, <2>1, <2>2, <2>3, <2>4, <2>5
<1>15. ASSUME NEW t \in Threads, AllocateStatic(t)
     PROVE  Orphans' \subseteq Orphans
  BY <1>15 DEF AllocateStatic, submissionVars, cacheVars, sessionVars
<1>16. ASSUME NEW t \in Threads, Unstage(t)
     PROVE  Orphans' \subseteq Orphans
  <2>1. live' = live \ {staging[t]} /\ target[t] \in Mine(t)'
    BY <1>16 DEF Unstage, Goto
  <2>2. \A u \in Threads: Mine(u) \subseteq Mine(u)' \cup {staging[t]}
    BY <1>16 DEF Unstage, Goto
  <2>3. retired' = retired /\ Cached' = Cached /\ In(io)' = In(io)
    BY <1>16 DEF Unstage, submissionVars, cacheVars, sessionVars
  <2>4. \A o: o \in Orphans <=> o \in live /\ o \notin retired \cup Cached \cup In(io)
               /\ \A u \in Threads: o \notin Mine(u)
    OBVIOUS
  <2>5. \A o: o \in Orphans' <=> o \in live' /\ o \notin (retired \cup Cached \cup In(io))'
               /\ \A u \in Threads: o \notin Mine(u)'
    OBVIOUS
  <2> HIDE DEF Mine, Cached, In, Orphans
  <2> QED BY <1>16, <2>1, <2>2, <2>3, <2>4, <2>5
<1>17. ASSUME NEW t \in Threads, Cleanup(t)
     PROVE  Orphans' \subseteq Orphans
  BY <1>17 DEF Cleanup, Goto, Recovers, CannotRecover, submissionVars,
     cacheVars, sessionVars
<1>18. ASSUME NEW t \in Threads, DropSession(t)
     PROVE  Orphans' \subseteq Orphans
  BY <1>18 DEF DropSession, Recovers, CannotRecover, submissionVars, cacheVars,
     sessionVars
<1>19. ASSUME NEW a \in Addrs, Load(a)
     PROVE  Orphans' \subseteq Orphans
  BY <1>19 DEF Load, submissionVars, cacheVars, sessionVars
<1>20. ASSUME NEW a \in Addrs, Unload(a)
     PROVE  Orphans' \subseteq Orphans
  BY <1>20 DEF Unload, Recovers, CannotRecover, submissionVars, cacheVars,
     sessionVars
<1>21. ASSUME DeviceIdle
     PROVE  Orphans' \subseteq Orphans
  BY <1>21 DEF DeviceIdle, submissionVars, cacheVars, sessionVars
<1>22. ASSUME Shutdown
     PROVE  Orphans' \subseteq Orphans
  BY <1>22 DEF Shutdown, submissionVars, cacheVars, sessionVars
<1> QED BY <1>1, <1>2, <1>3, <1>4, <1>5, <1>6, <1>7, <1>8, <1>9, <1>10, <1>11, <1>12, <1>13, <1>14, <1>15, <1>16, <1>17, <1>18, <1>19, <1>20, <1>21, <1>22
     DEF StreamNext, Submission, Ownership

\* Buffers are abandoned only in doubt, after the shutdown, or by a static
\* upload whose flush fails, which abandons the one it has just allocated.
THEOREM LeaksInDoubt == StreamSpec => LeaksOnlyInDoubt
<1>1. IInv /\ [StreamNext]_streamVars =>
        [\/ Orphans' \subseteq Orphans
         \/ uncertain \/ shutdown
         \/ \E t \in Threads: LoseStatic(t)]_streamVars
  BY LeaksStep
<1> QED BY <1>1, StreamInvariant, PTL DEF StreamSpec, LeaksOnlyInDoubt
-----------------------------------------------------------------------------
(* The pool.  Only the leader is ever inside a call.                       *)

LeaderInv ==
  \A i \in Pool: step[i] # "decide" => i = Leader /\ at[i] <= Products

\* In a closure of one product that no other user of the device disturbs, a
\* part that its thread has left undone is the leader's, who will see the
\* device work or compute all rows.
LeftInv ==
  /\ disturbed => broken
  /\ ~disturbed =>
       /\ \A i \in Pool: at[i] = 2 /\ i \notin rows[1] =>
            i # Leader /\ at[Leader] = 1 /\ (step[Leader] = "decide" => ~broken)
       /\ at[Leader] = 2 /\ ~broken => rows[1] = Pool

PoolInv == PoolTypeOK /\ LeaderInv

\* The pool keeps its types, with any number of products.
LEMMA PoolStep == PoolInv /\ [Next]_vars => PoolInv'
<1> SUFFICES ASSUME PoolInv, [Next]_vars PROVE PoolInv'
  OBVIOUS
<1> USE MatmulAssumption DEF PoolInv, PoolTypeOK, LeaderInv
<1>0. Leader \in Pool
  BY DEF Pool
<1>1. CASE OpenClosure
  <2>1. broken' = broken /\ step' = step /\ disturbed' = FALSE
    BY <1>1 DEF OpenClosure
  <2>2. at' = [i \in Pool |-> 1] /\ rows' = [n \in 1 .. Products |-> {}]
    BY <1>1 DEF OpenClosure
  <2>3. \A i \in Pool: step[i] = "decide"
    BY <1>1 DEF OpenClosure, Joined
  <2>4. at' \in [Pool -> 1 .. Products + 1] /\ rows' \in [1 .. Products -> SUBSET Pool]
    BY <2>2
  <2>5. broken' \in BOOLEAN /\ disturbed' \in BOOLEAN
    BY <2>1
  <2>6. LeaderInv'
    BY <2>1, <2>3
  <2>7. step' \in [Pool -> {"decide", "call", "fallback"}]
    BY <2>1
  <2> HIDE DEF LeaderInv
  <2> QED BY <2>4, <2>5, <2>6, <2>7
<1>2. CASE Dispatch
  BY <1>0, <1>2 DEF Dispatch
<1>3. CASE Returned
  <2>1. CASE ret[Leader] = "ok"
    <3>1. at[Leader] \in 1 .. Products /\ step[Leader] = "call"
      BY <1>0, <1>3 DEF Returned
    <3>2. rows' \in [1 .. Products -> SUBSET Pool]
      <4>1. rows' = [rows EXCEPT ![at[Leader]] = @ \cup Pool]
        BY ONLY <1>3, <2>1 DEF Returned, Advance
      <4> QED BY ONLY <3>1, <4>1, PoolInv DEF PoolInv, PoolTypeOK
    <3>3. broken' = broken /\ disturbed' = disturbed
      BY <1>3, <2>1 DEF Returned
    <3>4. broken' \in BOOLEAN /\ disturbed' \in BOOLEAN
      BY <3>3
    <3>5. /\ at' = [at EXCEPT ![Leader] = @ + 1]
          /\ step' = [step EXCEPT ![Leader] = "decide"]
      BY <1>3, <2>1 DEF Returned, Advance
    <3> QED BY <1>0, <3>1, <3>2, <3>4, <3>5
  <2>2. CASE ret[Leader] # "ok"
    BY <1>0, <1>3, <2>2 DEF Returned
  <2> QED BY <2>1, <2>2
<1>4. CASE Fallback
  BY <1>0, <1>4 DEF Fallback, Advance
<1>5. ASSUME NEW i \in Pool, LeaveToLeader(i) PROVE PoolInv'
  BY <1>5 DEF LeaveToLeader, Advance
<1>6. ASSUME NEW i \in Pool, ComputePart(i) PROVE PoolInv'
  BY <1>6 DEF ComputePart, Advance
<1>7. CASE BrokenElsewhere
  BY <1>7 DEF BrokenElsewhere
<1>8. CASE Device \/ UNCHANGED vars
  BY <1>8 DEF Device, vars, poolVars
<1> QED BY <1>1, <1>2, <1>3, <1>4, <1>5, <1>6, <1>7, <1>8 DEF Next

\* Nothing is being computed at first.
LEMMA PoolInit == Init => PoolInv
<1> SUFFICES ASSUME Init PROVE PoolInv
  OBVIOUS
<1>1. Products + 1 \in 1 .. Products + 1
  BY MatmulAssumption
<1>2. broken \in BOOLEAN /\ at \in [Pool -> 1 .. Products + 1]
  BY <1>1 DEF Init
<1>3. /\ step \in [Pool -> {"decide", "call", "fallback"}]
      /\ rows \in [1 .. Products -> SUBSET Pool]
      /\ disturbed \in BOOLEAN
  BY DEF Init
<1>4. LeaderInv
  BY DEF Init, LeaderInv
<1> QED BY <1>2, <1>3, <1>4 DEF PoolInv, PoolTypeOK

\* Every state of the composition has its types.
THEOREM Types == Spec => []TypeOK
<1>1. Init => PoolInv
  BY PoolInit
<1>2. IInv /\ PoolInv => TypeOK
  BY DEF IInv, PoolInv, TypeOK
<1> QED BY <1>1, <1>2, PoolStep, PoolUsesStream, StreamInvariant, PTL DEF Spec

\* A step of a closure of one product keeps what is known of its rows.
LEMMA LeftStep ==
  ASSUME Products = 1, PoolInv, LeftInv, [Next]_vars
  PROVE  LeftInv'
<1> USE MatmulAssumption DEF PoolInv, PoolTypeOK, LeaderInv, LeftInv
<1>0. Leader \in Pool /\ 1 .. Products = {1}
  BY DEF Pool
<1>1. CASE OpenClosure
  BY <1>0, <1>1 DEF OpenClosure, Joined
<1>2. CASE Dispatch
  BY <1>0, <1>2 DEF Dispatch
<1>3. CASE Returned
  BY <1>0, <1>3 DEF Returned, Advance
<1>4. CASE Fallback
  BY <1>0, <1>4 DEF Fallback, Advance
<1>5. ASSUME NEW i \in Pool, LeaveToLeader(i) PROVE LeftInv'
  BY <1>0, <1>5 DEF LeaveToLeader, Advance
<1>6. ASSUME NEW i \in Pool, ComputePart(i) PROVE LeftInv'
  BY <1>0, <1>6 DEF ComputePart, Advance
<1>7. CASE BrokenElsewhere
  BY <1>0, <1>7 DEF BrokenElsewhere, Joined
<1>8. CASE Device \/ UNCHANGED vars
  BY <1>8 DEF Device, vars, poolVars
<1> QED BY <1>1, <1>2, <1>3, <1>4, <1>5, <1>6, <1>7, <1>8 DEF Next

\* A closure of one product computes every row, in a pool of any size and
\* whenever the pool's dispatch fails, unless another user breaks the device
\* while it runs (then rows may be left undone); the run device_fused shows
\* that two products are not safe even without.
THEOREM OneProductComplete ==
  ASSUME Products = 1
  PROVE  Spec => []RowsCompleteAlone
<1>0. Leader \in Pool /\ 1 .. Products = {1}
  BY DEF Pool
<1>1. Init => PoolInv /\ LeftInv
  <2> SUFFICES ASSUME Init PROVE LeftInv
    BY PoolInit
  <2>1. rows[1] = Pool
    BY <1>0 DEF Init
  <2> QED BY <2>1 DEF LeftInv, Init
<1>2. PoolInv /\ LeftInv /\ [Next]_vars => PoolInv' /\ LeftInv'
  BY LeftStep, PoolStep
<1>3. PoolInv /\ LeftInv => RowsCompleteAlone
  BY <1>0 DEF PoolInv, PoolTypeOK, LeftInv, RowsCompleteAlone, Joined
<1> QED BY <1>1, <1>2, <1>3, PTL DEF Spec
===============================================================================
