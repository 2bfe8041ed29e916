---------------------------- MODULE CommandStream ----------------------------
(***************************************************************************)
(* The Vulkan context (vulkan.rs): one queue, one command buffer and one   *)
(* fence under one mutex, shared by every thread that computes on the      *)
(* device.  A submission may fail without proving that the device refused  *)
(* the work, and a fence wait may time out while the device goes on: from  *)
(* then on the context is "uncertain", and nothing the device may use is   *)
(* destroyed or recorded over until a wait for an idle device succeeds.    *)
(*                                                                         *)
(* Threads run single Q8_0 products (matmul_q8_0, which caches weights by  *)
(* their host address), submissions of a session on buffers it owns        *)
(* (TokenCommands) and uploads through a staging buffer; they drop         *)
(* sessions, unload models and shut the context down at exit.  Any call to *)
(* Vulkan may fail, and the device may hang.                               *)
(***************************************************************************)
CONSTANTS Threads,
          Buffers,   \* buffer handles
          Addrs,     \* host addresses a Q8_0 weight may have
          Versions,  \* the weights that may be there
          None

ASSUME StreamAssumption ==
  /\ None \notin Threads \cup Buffers \cup Addrs \cup Versions
  /\ {"session", "upload"} \cap (Addrs \cup {None}) = {}

VARIABLES
  holder,      \* who holds the command mutex, or None
  shutdown, uncertain, retired,   \* CommandSubmission
  live,        \* the buffers that exist
  cache,       \* weight_cache: cache[a] is the buffer for address a
  content,     \* content[a]: the weights uploaded to that buffer
  io,          \* the buffer of io_state
  host,        \* host[a]: the weights at address a, or None
  refs,        \* what the command buffer refers to
  running,     \* what the device may still read or write
  pc, job,     \* each thread's step, and what it runs
  ret,         \* what its last call returned
  owned,       \* owned[t]: the buffers of t's session
  staging, target   \* the two buffers of t's upload

submissionVars == <<shutdown, uncertain, retired>>
cacheVars == <<cache, content, io>>
sessionVars == <<owned, staging, target>>
streamVars == <<submissionVars, cacheVars, sessionVars, holder, live, host,
                refs, running, pc, job, ret>>

StreamInit ==
  /\ holder = None
  /\ shutdown = FALSE /\ uncertain = FALSE /\ retired = {}
  /\ live = {}
  /\ cache = [a \in Addrs |-> None]
  /\ content = [a \in Addrs |-> None]
  /\ io = None
  /\ host = [a \in Addrs |-> None]
  /\ refs = {} /\ running = {}
  /\ pc = [t \in Threads |-> "idle"]
  /\ job = [t \in Threads |-> None]
  /\ ret = [t \in Threads |-> "none"]
  /\ owned = [t \in Threads |-> {}]
  /\ staging = [t \in Threads |-> None]
  /\ target = [t \in Threads |-> None]

\* The buffers of a slot that may be empty.
In(slot) == {slot} \ {None}

\* The weights on the device.
Cached == UNION {In(cache[a]) : a \in Addrs}

Goto(t, from, to) == pc[t] = from /\ pc' = [pc EXCEPT ![t] = to]

Takes(t) == holder = None /\ holder' = t

\* A call gives the mutex back and returns r.
Return(t, step, r) ==
  /\ holder' = None
  /\ pc' = [pc EXCEPT ![t] = step]
  /\ job' = [job EXCEPT ![t] = None]
  /\ ret' = [ret EXCEPT ![t] = r]
  /\ refs' = {}

\* A failed upload still has its buffers.
Fail(t, error) ==
  Return(t, IF job[t] = "upload" THEN "cleanup" ELSE "idle", error)

\* Mutant. An uncertain context does not wait for the device.
RecoversAtOnce(r, dead) ==
  /\ ~shutdown
  /\ uncertain' = FALSE
  /\ retired' = {}
  /\ live' = live \ (r \cup dead)

\* Mutant. A context that was shut down recovers like any other.
RecoversAfterShutdown(r, dead) ==
  /\ uncertain => running = {}
  /\ uncertain' = FALSE
  /\ retired' = {}
  /\ live' = live \ (r \cup dead)

\* recover_commands, in a thread that may hold the mutex, with the weights r
\* retired: they are destroyed, and the buffers in dead with them, once the
\* device is known to be idle ...
Recovers(r, dead) ==
  /\ ~shutdown
  /\ uncertain => running = {}
  /\ uncertain' = FALSE
  /\ retired' = {}
  /\ live' = live \ (r \cup dead)

\* ... and nothing is when the wait fails or the context is shut down.
CannotRecover(r) ==
  /\ shutdown \/ uncertain
  /\ retired' = r
  /\ UNCHANGED <<uncertain, live>>

-----------------------------------------------------------------------------
(* A submission: lock, begin, record, submit, wait, and read or leave.     *)

\* matmul_q8_0 with the weights some loaded model has at address a.
StartMatmul(t, a) ==
  /\ Takes(t) /\ Goto(t, "idle", "begin")
  /\ host[a] # None
  /\ job' = [job EXCEPT ![t] = a]
  /\ UNCHANGED <<submissionVars, cacheVars, sessionVars, live, host, refs,
                 running, ret>>

\* TokenCommands::begin for a session.
StartSession(t) ==
  /\ Takes(t) /\ Goto(t, "idle", "begin")
  /\ owned[t] # {}
  /\ job' = [job EXCEPT ![t] = "session"]
  /\ UNCHANGED <<submissionVars, cacheVars, sessionVars, live, host, refs,
                 running, ret>>

\* The copy of an upload whose buffers are allocated.
StartCopy(t) ==
  /\ Takes(t) /\ Goto(t, "copy", "begin")
  /\ UNCHANGED <<submissionVars, cacheVars, sessionVars, live, host, refs,
                 running, job, ret>>

\* begin_commands: recover, then reset and begin the command buffer.
Begin(t) ==
  /\ pc[t] = "begin"
  /\ \/ /\ Recovers(retired, {})
        /\ \/ Goto(t, "begin", "record") /\ UNCHANGED <<holder, refs, job, ret>>
           \/ Fail(t, "error")
     \/ /\ CannotRecover(retired)
        /\ Fail(t, "error")
  /\ UNCHANGED <<shutdown, cacheVars, sessionVars, host, running>>

\* weight_for: the buffer cached for the address, or a new one.
WeightFor(t) ==
  LET a == job[t] IN
  /\ a \in Addrs
  /\ Goto(t, "record", "io")
  /\ \/ cache[a] # None /\ UNCHANGED <<live, content, cache>>
     \/ /\ cache[a] = None
        /\ \E b \in Buffers \ live:
             /\ live' = live \cup {b}
             /\ cache' = [cache EXCEPT ![a] = b]
             /\ content' = [content EXCEPT ![a] = host[a]]
  /\ refs' = In(cache'[a])
  /\ UNCHANGED <<submissionVars, sessionVars, holder, io, host, running, job,
                 ret>>

\* Mutant. A buffer that is too small is replaced and not destroyed.
EnsureBufferLeaks(t) ==
  /\ Goto(t, "io", "submit")
  /\ \/ io # None /\ UNCHANGED <<io, live>>
     \/ \E b \in Buffers \ live: live' = live \cup {b} /\ io' = b
  /\ refs' = refs \cup {io'}
  /\ UNCHANGED <<submissionVars, sessionVars, holder, content, cache, host,
                 running, job, ret>>

\* ensure_buffer: the I/O buffer, grown when it is too small.
EnsureBuffer(t) ==
  /\ Goto(t, "io", "submit")
  /\ \/ io # None /\ UNCHANGED <<io, live>>
     \/ \E b \in Buffers \ (live \ In(io)):
          /\ live' = (live \ In(io)) \cup {b}
          /\ io' = b
  /\ refs' = refs \cup {io'}
  /\ UNCHANGED <<submissionVars, sessionVars, holder, content, cache, host,
                 running, job, ret>>

\* An allocation fails, after ensure_buffer has destroyed what it would
\* grow or before, or the device cannot dispatch the shape.
RecordFails(t) ==
  /\ job[t] \in Addrs
  /\ pc[t] \in {"record", "io", "submit"}
  /\ \/ UNCHANGED <<io, live>>
     \/ pc[t] = "io" /\ io' = None /\ live' = live \ In(io)
  /\ \E error \in {"error", "unsupported"}: Fail(t, error)
  /\ UNCHANGED <<submissionVars, sessionVars, cache, content, host, running>>

\* A session records work on its own buffers, an upload its copy.
Record(t) ==
  /\ Goto(t, "record", "submit")
  /\ \/ job[t] = "session" /\ refs' = owned[t]
     \/ job[t] = "upload" /\ refs' = {staging[t], target[t]}
  /\ UNCHANGED <<submissionVars, cacheVars, sessionVars, holder, live, host,
                 running, job, ret>>

\* submit_commands: the device takes the command buffer, and queue_submit
\* may say that it did not.
Submit(t) ==
  /\ pc[t] = "submit"
  /\ uncertain' = TRUE
  /\ \/ /\ running' = refs
        /\ Goto(t, "submit", "wait")
        /\ UNCHANGED <<holder, refs, job, ret>>
     \/ running' \in {refs, running} /\ Fail(t, "error")
  /\ UNCHANGED <<shutdown, retired, cacheVars, sessionVars, live, host>>

\* end_command_buffer, reset_fences, or an error while recording.
SubmitRefused(t) ==
  /\ pc[t] \in {"record", "submit"} /\ job[t] \notin Addrs
  /\ Fail(t, "error")
  /\ UNCHANGED <<submissionVars, cacheVars, sessionVars, live, host, running>>

\* The fence is signaled.  A session may flush: begin again under the mutex.
FenceSignaled(t) ==
  /\ pc[t] = "wait" /\ running = {}
  /\ uncertain' = FALSE
  /\ \/ /\ \/ job[t] \in Addrs /\ Goto(t, "wait", "read")
           \/ job[t] = "session" /\ Goto(t, "wait", "begin")
        /\ UNCHANGED <<holder, refs, job, ret>>
     \/ job[t] = "session" /\ Return(t, "idle", "ok")
     \/ job[t] = "upload" /\ Return(t, "unstage", "ok")
  /\ UNCHANGED <<shutdown, retired, cacheVars, sessionVars, live, host,
                 running>>

\* Mutant. The failed wait leaves the context certain.
FenceTimeoutCertain(t) ==
  /\ pc[t] = "wait"
  /\ Fail(t, "error")
  /\ uncertain' = FALSE
  /\ UNCHANGED <<shutdown, retired, cacheVars, sessionVars, live, host, running>>

\* Sixty seconds pass, or the wait fails.
FenceTimeout(t) ==
  /\ pc[t] = "wait"
  /\ Fail(t, "error")
  /\ UNCHANGED <<submissionVars, cacheVars, sessionVars, live, host, running>>

\* matmul_q8_0 copies the output out of the mapped buffer.
ReadOutput(t) ==
  /\ pc[t] = "read"
  /\ Return(t, "idle", "ok")
  /\ UNCHANGED <<submissionVars, cacheVars, sessionVars, live, host, running>>

DeviceIdle ==
  /\ running # {} /\ running' = {}
  /\ UNCHANGED <<submissionVars, cacheVars, sessionVars, holder, live, host,
                 refs, pc, job, ret>>

-----------------------------------------------------------------------------
(* Uploads, sessions, models and the end.                                  *)

\* upload_device_static allocates both buffers without the mutex.
StartUpload(t) ==
  /\ owned[t] = {}
  /\ Goto(t, "idle", "copy")
  /\ job' = [job EXCEPT ![t] = "upload"]
  /\ \E s \in Buffers \ live: \E b \in Buffers \ (live \cup {s}):
       /\ live' = live \cup {s, b}
       /\ staging' = [staging EXCEPT ![t] = s]
       /\ target' = [target EXCEPT ![t] = b]
  /\ UNCHANGED <<submissionVars, cacheVars, holder, owned, host, refs,
                 running, ret>>

\* No memory on the device, or an arena in host memory: one buffer will do.
AllocateStatic(t) ==
  /\ pc[t] = "idle" /\ owned[t] = {}
  /\ \E s \in Buffers \ live:
       /\ live' = live \cup {s}
       /\ owned' = [owned EXCEPT ![t] = {s}]
  /\ UNCHANGED <<submissionVars, cacheVars, holder, staging, target, host,
                 refs, running, pc, job, ret>>

\* upload_static and upload_static_filled: the flush of the new buffer fails,
\* and they return the error without destroying it.
LoseStatic(t) ==
  /\ pc[t] = "idle"
  /\ \E s \in Buffers \ live: live' = live \cup {s}
  /\ UNCHANGED <<submissionVars, cacheVars, sessionVars, holder, host, refs,
                 running, pc, job, ret>>

\* After the copy: the staging buffer goes, without the mutex.
Unstage(t) ==
  /\ Goto(t, "unstage", "idle")
  /\ live' = live \ {staging[t]}
  /\ owned' = [owned EXCEPT ![t] = {target[t]}]
  /\ staging' = [staging EXCEPT ![t] = None]
  /\ target' = [target EXCEPT ![t] = None]
  /\ UNCHANGED <<submissionVars, cacheVars, holder, host, refs, running, job,
                 ret>>

\* After a failed copy: destroy_completed_buffers on both, or leak both.
Cleanup(t) ==
  /\ holder = None
  /\ Goto(t, "cleanup", "idle")
  /\ Recovers(retired, {staging[t], target[t]}) \/ CannotRecover(retired)
  /\ staging' = [staging EXCEPT ![t] = None]
  /\ target' = [target EXCEPT ![t] = None]
  /\ UNCHANGED <<shutdown, cacheVars, holder, owned, host, refs, running, job,
                 ret>>

\* A session is dropped: destroy_completed_buffers, or leak them.
DropSession(t) ==
  /\ holder = None
  /\ pc[t] = "idle" /\ owned[t] # {}
  /\ Recovers(retired, owned[t]) \/ CannotRecover(retired)
  /\ owned' = [owned EXCEPT ![t] = {}]
  /\ UNCHANGED <<shutdown, cacheVars, holder, staging, target, host, refs,
                 running, pc, job, ret>>

\* A model is loaded; the allocator may reuse an address.
Load(a) ==
  /\ host[a] = None
  /\ \E v \in Versions: host' = [host EXCEPT ![a] = v]
  /\ UNCHANGED <<submissionVars, cacheVars, sessionVars, holder, live, refs,
                 running, pc, job, ret>>

\* Mutant. The address is forgotten only when the context recovers.
UnloadIfIdle(a) ==
  /\ holder = None
  /\ host[a] # None
  /\ \A t \in Threads: job[t] # a
  /\ host' = [host EXCEPT ![a] = None]
  /\ \/ /\ Recovers(retired \cup In(cache[a]), {})
        /\ cache' = [cache EXCEPT ![a] = None]
        /\ content' = [content EXCEPT ![a] = None]
     \/ CannotRecover(retired) /\ UNCHANGED <<cache, content>>
  /\ UNCHANGED <<shutdown, io, sessionVars, holder, refs, running, pc, job,
                 ret>>

\* A Q8_0 kernel that nothing computes with is dropped: release_cached_weight
\* forgets the address, and recovers if it can; then the memory is free.
Unload(a) ==
  LET r == retired \cup In(cache[a]) IN
  /\ holder = None
  /\ host[a] # None
  /\ \A t \in Threads: job[t] # a
  /\ host' = [host EXCEPT ![a] = None]
  /\ cache' = [cache EXCEPT ![a] = None]
  /\ content' = [content EXCEPT ![a] = None]
  /\ Recovers(r, {}) \/ CannotRecover(r)
  /\ UNCHANGED <<shutdown, io, sessionVars, holder, refs, running, pc, job,
                 ret>>

\* shutdown, at exit: everything the context holds, once the device is idle.
Shutdown ==
  /\ holder = None /\ ~shutdown
  /\ \/ /\ running = {}
        /\ live' = live \ (retired \cup Cached \cup In(io))
        /\ retired' = {}
        /\ cache' = [a \in Addrs |-> None]
        /\ io' = None
        /\ shutdown' = TRUE /\ uncertain' = FALSE
     \/ uncertain' = TRUE /\ UNCHANGED <<shutdown, live, retired, cache, io>>
  /\ UNCHANGED <<content, sessionVars, holder, host, refs, running, pc, job,
                 ret>>

Submission(t) ==
  \/ StartSession(t) \/ StartCopy(t) \/ Begin(t) \/ WeightFor(t)
  \/ EnsureBuffer(t) \/ RecordFails(t) \/ Record(t) \/ Submit(t)
  \/ SubmitRefused(t) \/ FenceSignaled(t) \/ FenceTimeout(t) \/ ReadOutput(t)

Ownership(t) ==
  \/ StartUpload(t) \/ AllocateStatic(t) \/ LoseStatic(t) \/ Unstage(t)
  \/ Cleanup(t) \/ DropSession(t)

StreamNext ==
  \/ \E t \in Threads:
       Submission(t) \/ Ownership(t) \/ \E a \in Addrs: StartMatmul(t, a)
  \/ \E a \in Addrs: Load(a) \/ Unload(a)
  \/ DeviceIdle \/ Shutdown

StreamSpec == StreamInit /\ [][StreamNext]_streamVars
-----------------------------------------------------------------------------
StreamTypeOK ==
  /\ holder \in Threads \cup {None}
  /\ shutdown \in BOOLEAN /\ uncertain \in BOOLEAN
  /\ retired \subseteq Buffers
  /\ live \subseteq Buffers
  /\ cache \in [Addrs -> Buffers \cup {None}]
  /\ content \in [Addrs -> Versions \cup {None}]
  /\ io \in Buffers \cup {None}
  /\ host \in [Addrs -> Versions \cup {None}]
  /\ refs \subseteq Buffers /\ running \subseteq Buffers
  /\ pc \in [Threads -> {"idle", "copy", "begin", "record", "io", "submit",
                         "wait", "read", "unstage", "cleanup"}]
  /\ job \in [Threads -> Addrs \cup {"session", "upload", None}]
  /\ ret \in [Threads -> {"none", "ok", "error", "unsupported"}]
  /\ owned \in [Threads -> SUBSET Buffers]
  /\ staging \in [Threads -> Buffers \cup {None}]
  /\ target \in [Threads -> Buffers \cup {None}]

\* No buffer the device may still use has been destroyed, whichever call
\* failed before and whoever destroys: a session's drop, an upload's cleanup,
\* the unloading of a model, a growing I/O buffer or the shutdown.
DeviceBuffersLive == running \subseteq live

\* The command buffer, the fence and the I/O buffers of matmul_q8_0 are only
\* touched while the device is idle: between begin_commands and queue_submit,
\* and after the fence.  A session's own arena is not part of this: its owner
\* writes its inputs there before begin_commands.
RecordedWhileIdle ==
  \A t \in Threads:
    pc[t] \in {"record", "io", "submit", "read"} => running = {}

\* A Q8_0 product runs on the weights that are at its address now, not on
\* those of a model unloaded since, whose address was used again.  This is
\* about weights whose owner releases them when it is dropped (Unload), as the
\* Q8_0 kernels do; a slice of a vector that is freed without a release keeps
\* its entry in the cache, and is outside.
WeightsAreCurrent ==
  \A t \in Threads:
    pc[t] \in {"submit", "wait", "read"} /\ job[t] \in Addrs =>
      cache[job[t]] \in refs /\ content[job[t]] = host[job[t]]

\* The buffers nobody will ever destroy.
Orphans ==
  live \ (retired \cup Cached \cup In(io) \cup
          UNION {owned[t] \cup In(staging[t]) \cup In(target[t]) : t \in Threads})

\* No step of the context leaves a buffer without an owner, whichever call in
\* it fails, but when the device could not be shown to be idle, or after the
\* shutdown; or when the flush that ends a static upload fails, which loses the
\* buffer it was for.  (What a caller of the context does with a buffer it was
\* given, when a later call of its own fails, is not part of this.)
LeaksOnlyInDoubt ==
  [][\/ Orphans' \subseteq Orphans
     \/ uncertain \/ shutdown
     \/ \E t \in Threads: LoseStatic(t)]_streamVars

\* After the shutdown the device never runs again, and the context holds no
\* buffer that a later drop could destroy a second time.
ShutdownIsFinal ==
  shutdown =>
    /\ running = {}
    /\ retired = {} /\ io = None /\ \A a \in Addrs: cache[a] = None
=============================================================================
