--------------------------- MODULE PackagePublish ---------------------------
(***************************************************************************)
(* Exporting a GGUFRS package (format/ggufrs.rs, export_ggufrs): write a   *)
(* temporary file beside the output, make it durable, verify it through    *)
(* the same handle, and only then give it the output's name, by a rename   *)
(* when asked to overwrite and by a hard link otherwise.  Several runs may *)
(* share the directory and even a process id (a run that was killed, a     *)
(* second container), a run may be killed between any two steps, every     *)
(* call to the file system may fail, and the machine may lose power.       *)
(*                                                                         *)
(* Files are inodes: exporter e creates at most one, which is named e.     *)
(* The contents are abstracted to what the reader's checks tell apart.     *)
(*                                                                         *)
(* The code looks at what the temporary name leads to, and then renames,   *)
(* links or removes by name: another program's file may come in between.   *)
(* This is the Unix build, whose look compares inodes; the one of Windows  *)
(* compares lengths and would take a file as long as the package for it.   *)
(***************************************************************************)
EXTENDS Naturals

CONSTANTS Exporters,    \* the export runs
          Overwriters,  \* those with ExportOptions { overwrite: true }
          Pid,          \* Pid[e]: the process id of run e
          MaxId,        \* temporary names a process may try, less one
          MaxFaults,    \* kills, power losses and replaced files, together
          Prior,        \* a file at the output before any run
          Foreign,      \* a file of another program
          Absent        \* no file

ASSUME PublishAssumption ==
  /\ Overwriters \subseteq Exporters
  /\ MaxId \in Nat
  /\ MaxFaults \in Nat
  /\ Prior \notin Exporters
  /\ Foreign \notin Exporters
  /\ Absent \notin Exporters
  /\ Prior # Absent /\ Foreign # Absent /\ Prior # Foreign

Files == Exporters \cup {Prior, Foreign}
TempNames == {Pid[e] : e \in Exporters} \X (0 .. MaxId)

VARIABLES out,        \* the file the output name leads to, or Absent
          kept,       \* the files it may lead to after a power loss
          temp,       \* temp[n]: the file temporary name n leads to
          data,       \* data[e]: "none", "partial", "mismatch" or "package"
          durable,    \* the files whose contents sync_all has made durable
          pc,         \* pc[e]: the next step of run e
          id,         \* id[e]: PENDING_OUTPUT_ID of its process
          published,  \* published[e]: PendingOutput::published
          result,     \* result[e]: "none", "ok", "exists" or "error"
          faults,     \* of those so far
          swapped     \* history, for the properties: whether e's file was
                      \* replaced after e last looked, before it was to
                      \* "publish" or to "remove" it, or not ("no")

vars == <<out, kept, temp, data, durable, pc, id, published, result, faults,
          swapped>>

TempName(e) == <<Pid[e], id[e]>>

\* The temporary name leads to f.
SetTemp(e, f) == temp' = [temp EXCEPT ![TempName(e)] = f]

\* The output leads to what e's temporary name leads to; until the directory
\* is synced a power loss may bring back any earlier file.
SetOutput(e) ==
  /\ out' = temp[TempName(e)]
  /\ kept' = kept \cup {temp[TempName(e)]}

Init ==
  /\ out \in {Absent, Prior}
  /\ kept = {out}
  /\ temp = [n \in TempNames |-> Absent]
  /\ data = [e \in Exporters |-> "none"]
  /\ durable = {}
  /\ pc = [e \in Exporters |-> "start"]
  /\ id = [e \in Exporters |-> 0]
  /\ published = [e \in Exporters |-> FALSE]
  /\ result = [e \in Exporters |-> "none"]
  /\ faults = 0
  /\ swapped = [e \in Exporters |-> "no"]

Goto(e, from, to) == pc[e] = from /\ pc' = [pc EXCEPT ![e] = to]
Return(e, r) == result' = [result EXCEPT ![e] = r]

files == <<out, kept, temp, data, durable>>

\* Both looks at the output, before the sources are loaded and in create;
\* what another run publishes between them, the link finds.
OutputCheck(e) ==
  /\ \/ /\ e \notin Overwriters /\ out # Absent
        /\ Goto(e, "start", "end")
        /\ Return(e, "exists")
     \/ /\ e \in Overwriters \/ out = Absent
        /\ Goto(e, "start", "open")
        /\ UNCHANGED result
  /\ UNCHANGED <<files, id, published, faults, swapped>>

\* The sources cannot be read or planned, or the temporary file not created.
FailsEarly(e) ==
  /\ Goto(e, "open", "end")
  /\ Return(e, "error")
  /\ UNCHANGED <<files, id, published, faults, swapped>>

\* Mutant. The counter moves on once more when the name was free.
OpenTempCountsAlways(e) ==
  /\ \/ /\ temp[TempName(e)] = Absent
        /\ Goto(e, "open", "write")
        /\ SetTemp(e, e)
        /\ data' = [data EXCEPT ![e] = "partial"]
     \/ /\ temp[TempName(e)] # Absent /\ id[e] < MaxId
        /\ Goto(e, "open", "open")
        /\ UNCHANGED <<temp, data>>
  /\ id' = [id EXCEPT ![e] = @ + 1]
  /\ UNCHANGED <<out, kept, durable, published, result, faults, swapped>>

\* create_new on the next temporary name: a taken name is left alone.
OpenTemp(e) ==
  /\ \/ /\ temp[TempName(e)] = Absent
        /\ Goto(e, "open", "write")
        /\ SetTemp(e, e)
        /\ data' = [data EXCEPT ![e] = "partial"]
        /\ UNCHANGED id
     \/ /\ temp[TempName(e)] # Absent /\ id[e] < MaxId
        /\ Goto(e, "open", "open")
        /\ id' = [id EXCEPT ![e] = @ + 1]
        /\ UNCHANGED <<temp, data>>
  /\ UNCHANGED <<out, kept, durable, published, result, faults, swapped>>

\* Tables with zero hashes, the segments, then the segment table and the
\* superblock again with the hashes: the file is partial until the last of
\* them.  A source that changes under its map between the write and the hash
\* leaves a segment whose bytes are not those of its hash.
WritePackage(e) ==
  /\ Goto(e, "write", "sync")
  /\ \E d \in {"package", "mismatch"}: data' = [data EXCEPT ![e] = d]
  /\ UNCHANGED <<out, kept, temp, durable, id, published, result, faults, swapped>>

SyncFile(e) ==
  /\ Goto(e, "sync", "verify")
  /\ durable' = durable \cup {e}
  /\ UNCHANGED <<out, kept, temp, data, id, published, result, faults, swapped>>

\* Mutant. The segments are not hashed again before publishing.
VerifyIndexOnly(e) ==
  /\ temp[TempName(e)] = e
  /\ Goto(e, "verify", IF e \in Overwriters THEN "rename" ELSE "link")
  /\ UNCHANGED <<files, id, published, result, faults, swapped>>

\* Reopen through a clone of the handle, parse the index, hash every segment,
\* and compare the temporary name's inode with the handle's.
Verify(e) ==
  /\ data[e] = "package"
  /\ temp[TempName(e)] = e
  /\ Goto(e, "verify", IF e \in Overwriters THEN "rename" ELSE "link")
  /\ UNCHANGED <<files, id, published, result, faults, swapped>>

\* Mutant. Overwriting copies the package into the file that is there.
RenameCopies(e) ==
  /\ Goto(e, "rename", "syncdir")
  /\ IF out \in Exporters
     THEN /\ data' = [data EXCEPT ![out] = "partial"]
          /\ UNCHANGED <<out, kept>>
     ELSE SetOutput(e) /\ UNCHANGED data
  /\ SetTemp(e, Absent)
  /\ published' = [published EXCEPT ![e] = TRUE]
  /\ UNCHANGED <<durable, id, result, faults, swapped>>

Rename(e) ==
  /\ Goto(e, "rename", "syncdir")
  /\ SetOutput(e)
  /\ SetTemp(e, Absent)
  /\ published' = [published EXCEPT ![e] = TRUE]
  /\ UNCHANGED <<data, durable, id, result, faults, swapped>>

\* Mutant. published is set as soon as the output exists.
HardLinkPublishes(e) ==
  /\ out = Absent
  /\ Goto(e, "link", "unlink")
  /\ SetOutput(e)
  /\ published' = [published EXCEPT ![e] = TRUE]
  /\ UNCHANGED <<temp, data, durable, id, result, faults, swapped>>

\* Mutant. Publishing renames whether or not overwriting was asked for.
HardLinkClobbers(e) ==
  /\ Goto(e, "link", "unlink")
  /\ SetOutput(e)
  /\ UNCHANGED <<temp, data, durable, id, published, result, faults, swapped>>

HardLink(e) ==
  /\ out = Absent
  /\ Goto(e, "link", "unlink")
  /\ SetOutput(e)
  /\ UNCHANGED <<temp, data, durable, id, published, result, faults, swapped>>

LosesRace(e) ==
  /\ out # Absent
  /\ Goto(e, "link", "drop")
  /\ Return(e, "exists")
  /\ UNCHANGED <<files, id, published, faults, swapped>>

Unlink(e) ==
  /\ Goto(e, "unlink", "syncdir")
  /\ SetTemp(e, Absent)
  /\ published' = [published EXCEPT ![e] = TRUE]
  /\ UNCHANGED <<out, kept, data, durable, id, result, faults, swapped>>

\* Mutant. The directory is opened but not synced.
SyncDirSkipped(e) ==
  /\ Goto(e, "syncdir", "end")
  /\ Return(e, "ok")
  /\ UNCHANGED <<files, id, published, faults, swapped>>

SyncDir(e) ==
  /\ Goto(e, "syncdir", "end")
  /\ kept' = {out}
  /\ Return(e, "ok")
  /\ UNCHANGED <<out, temp, data, durable, id, published, faults, swapped>>

\* Any `?` between create and the last sync: a failed call, or a file that
\* does not verify.  It ends the run through Drop.
Fails(e) ==
  /\ pc[e] \in {"write", "sync", "verify", "rename", "link",
                "unlink", "syncdir"}
  /\ pc' = [pc EXCEPT ![e] = "drop"]
  /\ Return(e, "error")
  /\ UNCHANGED <<files, id, published, faults, swapped>>

\* Mutant. Drop removes the temporary name without comparing inodes.
DropByName(e) ==
  /\ Goto(e, "drop", IF published[e] THEN "end" ELSE "remove")
  /\ UNCHANGED <<files, id, published, result, faults, swapped>>

\* Drop looks: the temporary name is to go only when it is not published and
\* still leads to the file the handle is open on.
Drop(e) ==
  /\ Goto(e, "drop", IF ~published[e] /\ temp[TempName(e)] = e
                     THEN "remove" ELSE "end")
  /\ UNCHANGED <<files, id, published, result, faults, swapped>>

\* The removal itself is by name.
Remove(e) ==
  /\ Goto(e, "remove", "end")
  /\ SetTemp(e, Absent)
  /\ UNCHANGED <<out, kept, data, durable, id, published, result, faults, swapped>>

Fault == faults < MaxFaults /\ faults' = faults + 1

\* The process is killed: no Drop runs.
Kill(e) ==
  /\ Fault
  /\ pc[e] \notin {"start", "end", "killed"}
  /\ pc' = [pc EXCEPT ![e] = "killed"]
  /\ UNCHANGED <<files, id, published, result, swapped>>

\* Another program puts a file of its own under the temporary name, at any
\* moment: before a look, which finds it, or between a look and the step by
\* name that relies on it, which does not.
Replace(e) ==
  /\ Fault
  /\ temp[TempName(e)] = e
  /\ SetTemp(e, Foreign)
  /\ swapped' = [swapped EXCEPT ![e] =
       CASE pc[e] \in {"rename", "link"}   -> "publish"
         [] pc[e] \in {"unlink", "remove"} -> "remove"
         [] OTHER                          -> @]
  /\ UNCHANGED <<out, kept, data, durable, pc, id, published, result>>

\* Every running process dies; the output leads to one of the files it may
\* lead to; contents that were not durable are cut.  Whether a temporary name
\* survives only changes which names a later run finds taken, as Kill does.
PowerLoss ==
  /\ Fault
  /\ out' \in kept
  /\ kept' = {out'}
  /\ data' = [e \in Exporters |-> IF e \in durable \/ data[e] = "none"
                                  THEN data[e] ELSE "partial"]
  /\ pc' = [e \in Exporters |-> IF pc[e] \in {"start", "end"} THEN pc[e]
                               ELSE "killed"]
  /\ UNCHANGED <<temp, durable, id, published, result, swapped>>

Step(e) ==
  \/ OutputCheck(e) \/ FailsEarly(e) \/ OpenTemp(e) \/ WritePackage(e)
  \/ SyncFile(e) \/ Verify(e) \/ Rename(e)
  \/ HardLink(e) \/ LosesRace(e) \/ Unlink(e) \/ SyncDir(e)
  \/ Fails(e) \/ Drop(e) \/ Remove(e)

Next ==
  \/ \E e \in Exporters: Step(e) \/ Kill(e) \/ Replace(e)
  \/ PowerLoss

Spec == Init /\ [][Next]_vars
-----------------------------------------------------------------------------
TypeOK ==
  /\ out \in Files \cup {Absent}
  /\ kept \subseteq Files \cup {Absent}
  /\ temp \in [TempNames -> Files \cup {Absent}]
  /\ data \in [Exporters -> {"none", "partial", "mismatch", "package"}]
  /\ durable \subseteq Exporters
  /\ pc \in [Exporters -> {"start", "open", "write", "sync",
                           "verify", "rename", "link", "unlink", "syncdir",
                           "drop", "remove", "end", "killed"}]
  /\ id \in [Exporters -> 0 .. MaxId]
  /\ published \in [Exporters -> BOOLEAN]
  /\ result \in [Exporters -> {"none", "ok", "exists", "error"}]
  /\ faults \in 0 .. MaxFaults
  /\ swapped \in [Exporters -> {"no", "publish", "remove"}]

\* What run e may have given the output's name to: its own file, or the one
\* that took its place between path_matches_file and the rename or the link
\* by name.
PublishedBy(e, f) == f = e \/ (f = Foreign /\ swapped[e] = "publish")

\* Whatever the output name leads to, now or after a power loss at this
\* moment, is the file that was there before or a package written to its
\* last byte, verified and durable: the order write, sync, verify, publish.
\* The one exception is the file of a program that exchanged a run's
\* temporary file after the run had compared inodes and before it published
\* by name; a file exchanged at any earlier moment is never published.
OutputWhole ==
  \A f \in kept \cup {out}:
    \/ f \in {Absent, Prior}
    \/ f \in Exporters /\ data[f] = "package" /\ f \in durable
    \/ f = Foreign /\ \E e \in Exporters: PublishedBy(e, f)

\* An export that reported success can no longer be undone by a power loss:
\* the output then leads to what it published or to what an overwriting run
\* published too, never to the file before it or to nothing.
SuccessIsDurable ==
  \A e \in Exporters:
    result[e] = "ok" =>
      \A f \in kept:
        \E o \in {e} \cup {o \in Overwriters: published[o]}: PublishedBy(o, f)

\* A run that came to its end by itself leaves no temporary file of its own
\* behind, whichever call failed: between the hard link and the unlink too.
NoLitter ==
  \A e \in Exporters:
    pc[e] = "end" =>
      \A n \in TempNames: temp[n] # e

\* A run never takes another run's file from under a temporary name, whatever
\* process ids they share; and another program's only when it came between
\* the run's look at the name and the rename, unlink or removal by name that
\* follows it, the window the code leaves open.  A file put there before the
\* look (while the run writes, or before it fails) is left alone.
OthersFilesKept ==
  [][\A n \in TempNames, f \in Files:
       temp[n] = f /\ temp'[n] # f =>
         \/ temp'[n] = Foreign
         \/ f \in Exporters /\ pc'[f] # pc[f]
         \/ /\ f = Foreign
            /\ \E e \in Exporters: /\ TempName(e) = n
                                   /\ pc'[e] # pc[e]
                                   /\ swapped[e] # "no"]_vars

\* A file that has had the output's name is never written again: a reader
\* that has it mapped keeps seeing the package it opened.
MappedPackageStable ==
  [][\A e \in Exporters:
       e \in kept => data'[e] = data[e]]_vars

Promise == INSTANCE AtomicPublish
             WITH swapped <- {e \in Exporters: swapped[e] = "publish"}

\* The output name behaves as one atomic, overwrite-only-when-asked cell,
\* into which nothing but a run's package goes unless its temporary file was
\* exchanged at the last moment.
ImplementsAtomicPublish == Promise!Spec
=============================================================================
