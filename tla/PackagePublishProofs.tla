------------------------ MODULE PackagePublishProofs ------------------------
(***************************************************************************)
(* Proofs about PackagePublish, for any runs, process ids and number of    *)
(* faults.  The inductive invariant follows one package from its creation: *)
(* it is outside the output until it is whole and durable, its own and no  *)
(* other run's temporary name leads to it, or to what another program put  *)
(* there, until it is published, and from the moment a run has published,  *)
(* only overwriting runs come after it.                                    *)
(***************************************************************************)
EXTENDS PackagePublish, TLAPS

\* What the steps before publishing have established.
Written ==
  \A e \in Exporters:
    /\ pc[e] = "verify" => e \in durable
    /\ pc[e] \in {"rename", "link", "unlink", "syncdir"} =>
         data[e] = "package" /\ e \in durable

\* A package still being made is not, and never was, the output.
Fresh ==
  /\ out \in kept
  /\ \A e \in Exporters:
       pc[e] \in {"start", "open", "write", "sync", "verify", "rename", "link"} =>
         e \notin kept

\* A run's file has one temporary name, its own, while it is unpublished and
\* no other file has taken its place.
Owned ==
  \A e \in Exporters:
    /\ \A n \in TempNames:
         temp[n] = e =>
           /\ n = TempName(e)
           /\ ~published[e]
           /\ swapped[e] = "no"
           /\ pc[e] \notin {"start", "open", "syncdir", "end"}
    /\ pc[e] \in {"start", "open"} => swapped[e] = "no"
    /\ pc[e] \notin {"syncdir", "drop", "end", "killed"} => ~published[e]
    /\ pc[e] = "syncdir" => published[e]

\* A run still uses the temporary name it created.
Holds(e) ==
  \/ pc[e] \in {"write", "sync", "verify", "rename", "link", "unlink", "remove"}
  \/ pc[e] = "drop" /\ ~published[e]

\* No two runs hold one name, and a held name leads to the run's file or to
\* another program's, which the run's last look has missed only if it came
\* after that look.
Held ==
  \A e \in Exporters:
    Holds(e) =>
      /\ temp[TempName(e)] \in {e, Foreign}
      /\ \A f \in Exporters \ {e}: Holds(f) => TempName(f) # TempName(e)
      /\ pc[e] \in {"rename", "link"} /\ temp[TempName(e)] # e => swapped[e] = "publish"
      /\ pc[e] \in {"unlink", "remove"} /\ temp[TempName(e)] # e => swapped[e] # "no"

\* The runs that may have published what is at the output after run e.
Heirs(e) == {e} \cup {o \in Overwriters: published[o]}

Inherited(e, f) == \E o \in Heirs(e): PublishedBy(o, f)

Lasting ==
  \A e \in Exporters:
    /\ pc[e] = "rename" => e \in Overwriters
    /\ pc[e] \in {"unlink", "syncdir"} => Inherited(e, out)
    /\ result[e] = "ok" => \A f \in kept: Inherited(e, f)

IInv == TypeOK /\ Written /\ Fresh /\ OutputWhole /\ Owned /\ Held /\ Lasting

LEMMA InitIInv == Init => IInv
<1> SUFFICES ASSUME Init PROVE IInv
  OBVIOUS
<1>1. TypeOK
  BY PublishAssumption DEF Init, TypeOK, Files
<1>2. Written /\ Fresh /\ OutputWhole /\ Lasting
  BY PublishAssumption DEF Init, Written, Fresh, OutputWhole, Lasting
<1>3. Owned /\ Held
  BY PublishAssumption DEF Init, Owned, Held, Holds
<1>4. QED BY <1>1, <1>2, <1>3 DEF IInv

LEMMA TempNameOK ==
  ASSUME TypeOK, NEW e \in Exporters
  PROVE  TempName(e) \in TempNames
BY DEF TypeOK, TempName, TempNames

\* What one run leaves to the next at the output is never taken back.
LEMMA InheritedStays ==
  ASSUME NEW e \in Exporters, NEW f, Inherited(e, f),
         \A o \in Exporters: published[o] => published'[o],
         \A o \in Exporters: swapped[o] = "publish" => swapped'[o] = "publish"
  PROVE  Inherited(e, f)'
<1>1. PICK o \in Heirs(e): PublishedBy(o, f)
  BY DEF Inherited
<1>2. o \in Heirs(e)' /\ o \in Exporters
  BY PublishAssumption DEF Heirs
<1>3. PublishedBy(o, f)'
  BY <1>1, <1>2 DEF PublishedBy
<1>4. QED BY <1>2, <1>3 DEF Inherited

\* Steps that neither touch a file nor begin to publish one.
LEMMA QuietStep ==
  ASSUME IInv, NEW e \in Exporters,
         OutputCheck(e) \/ FailsEarly(e) \/ Verify(e) \/ LosesRace(e) \/ Fails(e)
           \/ Drop(e) \/ Kill(e)
  PROVE  IInv'
<1> USE DEF IInv, Goto, Return, files
<1>1. /\ UNCHANGED <<out, kept, temp, data, durable, id, published, swapped>>
      /\ \A f \in Exporters \ {e}: pc'[f] = pc[f] /\ result'[f] = result[f]
  BY DEF OutputCheck, FailsEarly, Verify, LosesRace, Fails, Drop, Kill, TypeOK
<1>2. TypeOK'
  <2>1. CASE Kill(e)
    BY <2>1, PublishAssumption DEF Kill, TypeOK, Fault
  <2>2. CASE OutputCheck(e) \/ FailsEarly(e) \/ Verify(e) \/ LosesRace(e) \/ Fails(e)
               \/ Drop(e)
    BY <2>2 DEF OutputCheck, FailsEarly, Verify, LosesRace, Fails, Drop, TypeOK
  <2>3. QED BY <2>1, <2>2
<1>3. Written' /\ Fresh'
  BY <1>1 DEF OutputCheck, FailsEarly, Verify, LosesRace, Fails, Drop, Kill, TypeOK, Written, Fresh
<1>4. OutputWhole'
  BY <1>1 DEF OutputWhole, PublishedBy
<1>5. Owned'
  <2>1. \A f \in Exporters: TempName(f)' = TempName(f)
    BY <1>1 DEF TempName
  <2>2. CASE Drop(e)
    <3>1. /\ pc[e] = "drop" /\ pc'[e] \in {"remove", "end"}
          /\ pc'[e] = "remove" => ~published[e]
          /\ pc'[e] = "end" => published[e] \/ temp[TempName(e)] # e
      BY <2>2 DEF Drop, TypeOK
    <3>2. QED BY <1>1, <2>1, <3>1 DEF Owned
  <2>3. CASE OutputCheck(e) \/ FailsEarly(e) \/ Verify(e) \/ LosesRace(e) \/ Fails(e)
               \/ Kill(e)
    BY <1>1, <2>1, <2>3
       DEF OutputCheck, FailsEarly, Verify, LosesRace, Fails, Kill, TypeOK, Owned
  <2>4. QED BY <2>2, <2>3
<1>6. Held'
  <2>1. \A f \in Exporters: TempName(f)' = TempName(f)
    BY <1>1 DEF TempName
  <2>2. Holds(e)' => Holds(e)
    BY <1>1 DEF Holds, Owned, OutputCheck, FailsEarly, Verify, LosesRace, Fails, Drop, Kill, TypeOK
  <2>3. \A f \in Exporters: Holds(f)' => Holds(f)
    BY <1>1, <2>2 DEF Holds
  <2>4. pc'[e] \in {"rename", "link", "unlink", "remove"} => temp[TempName(e)] = e
    BY <1>1 DEF OutputCheck, FailsEarly, Verify, LosesRace, Fails, Drop, Kill, TypeOK
  <2>5. QED BY <1>1, <2>1, <2>3, <2>4 DEF Held
<1>7. Lasting'
  <2>1. \A f \in Exporters: \A g: Inherited(f, g)' <=> Inherited(f, g)
    BY <1>1 DEF Inherited, Heirs, PublishedBy
  <2>2. /\ pc'[e] \notin {"unlink", "syncdir"}
        /\ pc'[e] = "rename" => e \in Overwriters
        /\ result'[e] = "ok" => result[e] = "ok"
    BY DEF OutputCheck, FailsEarly, Verify, LosesRace, Fails, Drop, Kill, TypeOK
  <2>3. QED BY <1>1, <2>1, <2>2 DEF Lasting
<1>8. QED BY <1>2, <1>3, <1>4, <1>5, <1>6, <1>7

LEMMA WritingStep ==
  ASSUME IInv, NEW e \in Exporters,
         OpenTemp(e) \/ WritePackage(e) \/ SyncFile(e)
  PROVE  IInv'
<1> USE DEF IInv, Goto, SetTemp
<1>0. TempName(e) \in TempNames
  BY TempNameOK
<1>1. /\ UNCHANGED <<out, kept, published, result, swapped>>
      /\ pc[e] \in {"open", "write", "sync"}
      /\ pc'[e] \in {"open", "write", "sync", "verify"}
      /\ \A f \in Exporters \ {e}: /\ pc'[f] = pc[f] /\ data'[f] = data[f]
                                   /\ id'[f] = id[f] /\ (f \in durable' <=> f \in durable)
  BY DEF OpenTemp, WritePackage, SyncFile, TypeOK
<1>2. TypeOK'
  <2>1. CASE OpenTemp(e)
    BY <1>0, <2>1, PublishAssumption DEF OpenTemp, TypeOK, Files
  <2>2. CASE WritePackage(e) \/ SyncFile(e)
    BY <2>2 DEF WritePackage, SyncFile, TypeOK
  <2>3. QED BY <2>1, <2>2
<1>3. Written' /\ Fresh'
  <2>1. pc'[e] = "verify" => e \in durable'
    BY DEF OpenTemp, WritePackage, SyncFile, TypeOK
  <2>2. QED BY <1>1, <2>1 DEF Written, Fresh
<1>4. OutputWhole'
  BY <1>1, PublishAssumption DEF OutputWhole, Fresh, PublishedBy
<1>5. Owned' /\ Held'
  <2>0. \A f \in Exporters \ {e}: TempName(f)' = TempName(f) /\ (Holds(f)' <=> Holds(f))
    BY <1>1 DEF TempName, Holds
  <2>1. CASE OpenTemp(e)
    <3>1. CASE temp[TempName(e)] = Absent
      <4>1. /\ temp' = [temp EXCEPT ![TempName(e)] = e] /\ TempName(e)' = TempName(e)
            /\ pc'[e] = "write" /\ pc[e] = "open"
        BY <2>1, <3>1 DEF OpenTemp, TypeOK, TempName
      <4>2. Owned'
        BY <1>0, <1>1, <2>0, <3>1, <4>1, PublishAssumption DEF Owned, TypeOK
      <4>3. \A f \in Exporters \ {e}: Holds(f) => TempName(f) # TempName(e)
        BY <3>1, PublishAssumption DEF Held
      <4>4. temp'[TempName(e)] = e
        BY <1>0, <4>1 DEF TypeOK
      <4>5. \A f \in Exporters \ {e}: Holds(f) => temp'[TempName(f)] = temp[TempName(f)]
        BY <4>1, <4>3
      <4>6. Held'
        BY <1>1, <2>0, <4>1, <4>3, <4>4, <4>5 DEF Held
      <4>7. QED BY <4>2, <4>6
    <3>2. CASE temp[TempName(e)] # Absent
      <4>1. UNCHANGED temp /\ pc[e] = "open" /\ pc'[e] = "open"
        BY <2>1, <3>2 DEF OpenTemp, TypeOK
      <4>2. \A n \in TempNames: temp[n] # e
        BY <4>1 DEF Owned
      <4>3. ~Holds(e)'
        BY <4>1 DEF Holds
      <4>4. QED
        BY <1>1, <2>0, <4>1, <4>2, <4>3 DEF Owned, Held
    <3>3. QED BY <3>1, <3>2
  <2>2. CASE WritePackage(e) \/ SyncFile(e)
    <3>1. /\ UNCHANGED <<temp, id>>
          /\ pc[e] \in {"write", "sync"} /\ pc'[e] \in {"sync", "verify"}
      BY <2>2 DEF WritePackage, SyncFile, TypeOK
    <3>2. TempName(e)' = TempName(e) /\ Holds(e)
      BY <3>1 DEF TempName, Holds
    <3>3. QED BY <1>1, <2>0, <3>1, <3>2 DEF Owned, Held
  <2>3. QED BY <2>1, <2>2
<1>6. Lasting'
  BY <1>1 DEF Lasting, Inherited, Heirs, PublishedBy
<1>7. QED BY <1>2, <1>3, <1>4, <1>5, <1>6

LEMMA PublishingStep ==
  ASSUME IInv, NEW e \in Exporters, Rename(e) \/ HardLink(e)
  PROVE  IInv'
<1> USE DEF IInv, Goto, SetTemp, SetOutput
<1>0. TempName(e) \in TempNames
  BY TempNameOK
<1> PICK g : g = temp[TempName(e)]
  OBVIOUS
<1>1. /\ out' = g /\ kept' = kept \cup {g}
      /\ UNCHANGED <<data, durable, id, result, swapped>>
      /\ pc[e] \in {"rename", "link"} /\ pc'[e] \in {"syncdir", "unlink"}
      /\ \A f \in Exporters \ {e}: pc'[f] = pc[f] /\ published'[f] = published[f]
  BY DEF Rename, HardLink, TypeOK
<1>2. Holds(e) /\ g \in {e, Foreign} /\ PublishedBy(e, g)
  <2>1. Holds(e)
    BY <1>1 DEF Holds
  <2>2. QED BY <1>1, <2>1 DEF Held, PublishedBy
<1>3. TypeOK'
  <2>1. out' \in Files \cup {Absent} /\ kept' \subseteq Files \cup {Absent}
    BY <1>1, <1>2 DEF TypeOK, Files
  <2>2. CASE Rename(e)
    BY <1>0, <2>1, <2>2 DEF Rename, TypeOK
  <2>3. CASE HardLink(e)
    BY <2>1, <2>3 DEF HardLink, TypeOK
  <2>4. QED BY <2>2, <2>3
<1>4. Written' /\ Fresh'
  BY <1>1, <1>2, PublishAssumption DEF Written, Fresh
<1>5. OutputWhole'
  <2>1. \A f \in kept \cup {out}:
          \/ f \in {Absent, Prior}
          \/ f \in Exporters /\ data'[f] = "package" /\ f \in durable'
          \/ f = Foreign /\ \E o \in Exporters: PublishedBy(o, f)'
    BY <1>1 DEF OutputWhole, PublishedBy
  <2>2. CASE g = e
    BY <1>1, <2>1, <2>2 DEF OutputWhole, Written
  <2>3. CASE g = Foreign
    <3>1. PublishedBy(e, g)'
      BY <1>1, <1>2 DEF PublishedBy
    <3>2. QED BY <1>1, <2>1, <2>3, <3>1 DEF OutputWhole
  <2>4. QED BY <1>2, <2>2, <2>3
<1>6. Owned' /\ Held'
  <2>0. /\ \A f \in Exporters: TempName(f)' = TempName(f)
        /\ \A f \in Exporters \ {e}: Holds(f)' <=> Holds(f)
    BY <1>1 DEF TempName, Holds
  <2>1. CASE Rename(e)
    <3>1. /\ temp' = [temp EXCEPT ![TempName(e)] = Absent] /\ published'[e]
          /\ pc[e] = "rename" /\ pc'[e] = "syncdir"
      BY <2>1 DEF Rename, TypeOK
    <3>2. Owned'
      BY <1>0, <1>1, <2>0, <3>1, PublishAssumption DEF Owned, TypeOK
    <3>3. \A f \in Exporters \ {e}: Holds(f) => temp'[TempName(f)] = temp[TempName(f)]
      BY <1>2, <3>1 DEF Held
    <3>4. ~Holds(e)'
      BY <3>1 DEF Holds
    <3>5. QED BY <1>1, <2>0, <3>2, <3>3, <3>4 DEF Held
  <2>2. CASE HardLink(e)
    <3>1. UNCHANGED <<temp, published>> /\ pc[e] = "link" /\ pc'[e] = "unlink"
      BY <2>2 DEF HardLink, TypeOK
    <3>2. Owned'
      BY <1>1, <2>0, <3>1 DEF Owned
    <3>3. QED BY <1>1, <1>2, <2>0, <3>1, <3>2 DEF Held
  <2>3. QED BY <2>1, <2>2
<1>7. Lasting'
  <2>1. \A o \in Exporters: published[o] => published'[o]
    BY <1>1 DEF Rename, HardLink, TypeOK
  <2>2. \A f \in Exporters: \A h: Inherited(f, h) => Inherited(f, h)'
    BY <1>1, <2>1, InheritedStays
  <2>3. PublishedBy(e, g)'
    BY <1>1, <1>2 DEF PublishedBy
  <2>4. CASE Rename(e)
    <3>1. e \in Overwriters /\ published'[e] /\ pc'[e] = "syncdir"
      BY <2>4 DEF Rename, TypeOK, Lasting
    <3>2. \A f \in Exporters: e \in Heirs(f)'
      BY <3>1 DEF Heirs
    <3>3. \A f \in Exporters: Inherited(f, g)'
      BY <2>3, <3>2 DEF Inherited
    <3>4. QED BY <1>1, <2>2, <3>1, <3>3 DEF Lasting
  <2>5. CASE HardLink(e)
    <3>1. out = Absent /\ UNCHANGED published /\ pc'[e] = "unlink"
      BY <2>5 DEF HardLink, TypeOK
    <3>2. \A f \in Exporters: ~Inherited(f, out)
      BY <3>1, PublishAssumption DEF Inherited, Heirs, PublishedBy
    <3>3. \A f \in Exporters: result[f] # "ok" /\ pc[f] \notin {"unlink", "syncdir"}
      BY <3>2 DEF Lasting, Fresh
    <3>4. Inherited(e, g)'
      BY <2>3 DEF Inherited, Heirs
    <3>5. QED BY <1>1, <3>1, <3>3, <3>4 DEF Lasting
  <2>6. QED BY <2>4, <2>5
<1>8. QED BY <1>3, <1>4, <1>5, <1>6, <1>7

LEMMA EndingStep ==
  ASSUME IInv, NEW e \in Exporters, Unlink(e) \/ SyncDir(e) \/ Remove(e)
  PROVE  IInv'
<1> USE DEF IInv, Goto, SetTemp, Return
<1>0. TempName(e) \in TempNames
  BY TempNameOK
<1>1. /\ UNCHANGED <<out, data, durable, id, swapped>>
      /\ \A f \in Exporters \ {e}: /\ pc'[f] = pc[f] /\ published'[f] = published[f]
                                   /\ result'[f] = result[f]
      /\ kept' = kept \/ kept' = {out}
  BY DEF Unlink, SyncDir, Remove, TypeOK
<1>2. TypeOK'
  BY <1>0 DEF Unlink, SyncDir, Remove, TypeOK, Files
<1>3. Written' /\ Fresh' /\ OutputWhole'
  <2>1. \/ pc[e] = "unlink" /\ pc'[e] = "syncdir"
        \/ pc'[e] = "end"
    BY DEF Unlink, SyncDir, Remove, TypeOK
  <2>2. QED BY <1>1, <2>1 DEF Written, Fresh, OutputWhole, PublishedBy
<1>4. Owned' /\ Held'
  <2>0. /\ \A f \in Exporters: TempName(f)' = TempName(f)
        /\ \A f \in Exporters \ {e}: Holds(f)' <=> Holds(f)
    BY <1>1 DEF TempName, Holds
  <2>1. CASE SyncDir(e)
    <3>1. UNCHANGED <<temp, published>> /\ pc[e] = "syncdir" /\ pc'[e] = "end"
      BY <2>1 DEF SyncDir, TypeOK
    <3>2. ~Holds(e)'
      BY <3>1 DEF Holds
    <3>3. QED BY <1>1, <2>0, <3>1, <3>2 DEF Owned, Held
  <2>2. CASE Unlink(e) \/ Remove(e)
    <3>1. /\ temp' = [temp EXCEPT ![TempName(e)] = Absent]
          /\ \/ pc[e] = "unlink" /\ pc'[e] = "syncdir" /\ published'[e]
             \/ pc[e] = "remove" /\ pc'[e] = "end"
      BY <2>2 DEF Unlink, Remove, TypeOK
    <3>2. Holds(e) /\ ~Holds(e)'
      BY <3>1 DEF Holds
    <3>3. Owned'
      BY <1>0, <1>1, <2>0, <3>1, PublishAssumption DEF Owned, TypeOK
    <3>4. \A f \in Exporters \ {e}: Holds(f) => temp'[TempName(f)] = temp[TempName(f)]
      BY <3>1, <3>2 DEF Held
    <3>5. QED BY <1>1, <2>0, <3>2, <3>3, <3>4 DEF Held
  <2>3. QED BY <2>1, <2>2
<1>5. Lasting'
  <2>1. \A f \in Exporters: \A g: Inherited(f, g) => Inherited(f, g)'
    <3>1. \A f \in Exporters: published[f] => published'[f]
      BY DEF Unlink, SyncDir, Remove, TypeOK
    <3>2. QED BY <1>1, <3>1, InheritedStays
  <2>2. CASE SyncDir(e)
    <3>1. pc[e] = "syncdir" /\ pc'[e] = "end" /\ kept' = {out}
      BY <2>2 DEF SyncDir, TypeOK
    <3>2. Inherited(e, out)
      BY <3>1 DEF Lasting
    <3>3. QED BY <1>1, <2>1, <3>1, <3>2 DEF Lasting, Fresh
  <2>3. CASE Unlink(e)
    <3>1. pc[e] = "unlink" /\ pc'[e] = "syncdir" /\ UNCHANGED <<kept, result>>
      BY <2>3 DEF Unlink, TypeOK
    <3>2. QED BY <1>1, <2>1, <3>1 DEF Lasting
  <2>4. CASE Remove(e)
    <3>1. pc'[e] = "end" /\ UNCHANGED <<kept, result>>
      BY <2>4 DEF Remove, TypeOK
    <3>2. QED BY <1>1, <2>1, <3>1 DEF Lasting
  <2>5. QED BY <2>2, <2>3, <2>4
<1>6. QED BY <1>2, <1>3, <1>4, <1>5

\* Another program's file comes in the place of e's.
LEMMA ReplaceStep ==
  ASSUME IInv, NEW e \in Exporters, Replace(e)
  PROVE  IInv'
<1> USE DEF IInv, SetTemp
<1>0. TempName(e) \in TempNames
  BY TempNameOK
<1>1. /\ UNCHANGED <<out, kept, data, durable, pc, id, published, result>>
      /\ temp' = [temp EXCEPT ![TempName(e)] = Foreign] /\ temp[TempName(e)] = e
      /\ \A f \in Exporters \ {e}: swapped'[f] = swapped[f]
  BY DEF Replace, TypeOK
<1>2. /\ pc[e] \in {"rename", "link"} => swapped'[e] = "publish"
      /\ pc[e] \in {"unlink", "remove"} => swapped'[e] = "remove"
      /\ pc[e] \notin {"rename", "link", "unlink", "remove"} => swapped'[e] = swapped[e]
  BY DEF Replace, TypeOK
<1>3. TypeOK'
  <2>1. swapped' \in [Exporters -> {"no", "publish", "remove"}]
    BY <1>2 DEF Replace, TypeOK
  <2>2. QED BY <1>0, <2>1, PublishAssumption DEF Replace, TypeOK, Files, Fault
<1>4. Written' /\ Fresh'
  BY <1>1 DEF Written, Fresh
<1>5. Owned'
  BY <1>0, <1>1, PublishAssumption DEF Owned, TypeOK, TempName
<1>6. Held'
  <2>1. \A f \in Exporters: TempName(f)' = TempName(f) /\ (Holds(f)' <=> Holds(f))
    BY <1>1 DEF TempName, Holds
  <2>2. temp'[TempName(e)] = Foreign
    BY <1>0, <1>1 DEF TypeOK
  <2>3. \A f \in Exporters \ {e}: Holds(f) => temp'[TempName(f)] = temp[TempName(f)]
    BY <1>1, PublishAssumption DEF Held
  <2>4. QED BY <1>1, <1>2, <2>1, <2>2, <2>3 DEF Held
<1>7. swapped[e] = "publish" => swapped'[e] = "publish"
  BY <1>0, <1>1 DEF Owned
<1>8. OutputWhole' /\ Lasting'
  <2>1. \A o \in Exporters: swapped[o] = "publish" => swapped'[o] = "publish"
    BY <1>1, <1>7
  <2>2. \A f \in Exporters: \A g: Inherited(f, g) => Inherited(f, g)'
    BY <1>1, <2>1, InheritedStays
  <2>3. QED BY <1>1, <2>1, <2>2 DEF OutputWhole, PublishedBy, Lasting
<1>9. QED BY <1>3, <1>4, <1>5, <1>6, <1>8

LEMMA PowerLossStep ==
  ASSUME IInv, PowerLoss
  PROVE  IInv'
<1> USE DEF IInv, PowerLoss
<1>1. /\ out' \in kept /\ kept' = {out'}
      /\ UNCHANGED <<temp, durable, id, published, result, swapped>>
      /\ \A e \in Exporters: e \in durable => data'[e] = data[e]
      /\ \A e \in Exporters: (pc'[e] = pc[e] /\ pc[e] \in {"start", "end"}) \/ pc'[e] = "killed"
  BY DEF TypeOK
<1>2. TypeOK'
  BY <1>1, PublishAssumption DEF TypeOK, Fault
<1>3. Written' /\ Fresh' /\ OutputWhole'
  BY <1>1 DEF Written, Fresh, OutputWhole, PublishedBy
<1>4. Owned' /\ Held'
  <2>1. \A e \in Exporters: ~Holds(e)'
    BY <1>1 DEF Holds
  <2>2. QED BY <1>1, <2>1 DEF Owned, TempName, Held
<1>5. Lasting'
  BY <1>1 DEF Lasting, Inherited, Heirs, PublishedBy
<1>6. QED BY <1>2, <1>3, <1>4, <1>5

LEMMA NextIInv == IInv /\ [Next]_vars => IInv'
<1> SUFFICES ASSUME IInv, [Next]_vars PROVE IInv'
  OBVIOUS
<1>1. CASE UNCHANGED vars
  BY <1>1 DEF vars, IInv, TypeOK, Written, Fresh, OutputWhole, PublishedBy, Owned, Held, Holds,
              Lasting, Inherited, Heirs, TempName
<1>2. CASE Next
  BY <1>2, QuietStep, WritingStep, PublishingStep, EndingStep, ReplaceStep, PowerLossStep
     DEF Next, Step
<1>3. QED BY <1>1, <1>2

LEMMA PackageInvariant == Spec => []IInv
BY InitIInv, NextIInv, PTL DEF Spec

-----------------------------------------------------------------------------
\* The type invariant, and that the output never leads, now or after a power
\* loss, to a package that is not whole, verified and durable.
THEOREM PublishTypes == Spec => []TypeOK
BY PackageInvariant, PTL DEF IInv

THEOREM OutputIsWhole == Spec => []OutputWhole
BY PackageInvariant, PTL DEF IInv

\* A reported success survives a power loss (the sync of the directory).
THEOREM SuccessLasts == Spec => []SuccessIsDurable
<1>1. IInv => SuccessIsDurable
  BY DEF IInv, Lasting, Inherited, Heirs, SuccessIsDurable
<1>2. QED BY <1>1, PackageInvariant, PTL

\* A run that ended by itself has left no temporary file (Drop, publish).
THEOREM NothingLeftBehind == Spec => []NoLitter
<1>1. IInv => NoLitter
  BY DEF IInv, Owned, NoLitter
<1>2. QED BY <1>1, PackageInvariant, PTL

\* No run takes another run's temporary file (create_new, Drop); another
\* program's it takes only by a step by name that follows a look at the name
\* which came before that file did (publish, Drop).
THEOREM OthersKept == Spec => OthersFilesKept
<1> DEFINE Kept == \A n \in TempNames, f \in Files:
       temp[n] = f /\ temp'[n] # f =>
         \/ temp'[n] = Foreign
         \/ f \in Exporters /\ pc'[f] # pc[f]
         \/ /\ f = Foreign
            /\ \E e \in Exporters: /\ TempName(e) = n
                                   /\ pc'[e] # pc[e]
                                   /\ swapped[e] # "no"
<1>1. IInv /\ [Next]_vars => [Kept]_vars
  <2> SUFFICES ASSUME IInv, Next PROVE Kept
    OBVIOUS
  <2> USE DEF IInv, Goto, SetTemp, files, TypeOK
  <2>1. CASE PowerLoss
    BY <2>1 DEF PowerLoss
  <2>2. ASSUME NEW e \in Exporters, Step(e) \/ Kill(e) \/ Replace(e) PROVE Kept
    <3>0. TempName(e) \in TempNames
      BY TempNameOK
    <3>1. CASE OpenTemp(e)
      BY <3>0, <3>1, PublishAssumption DEF OpenTemp, Files
    <3>2. CASE Rename(e) \/ Unlink(e) \/ Remove(e)
      <4>1. /\ pc'[e] # pc[e]
            /\ pc[e] \in {"rename", "unlink", "remove"}
            /\ temp' = [temp EXCEPT ![TempName(e)] = Absent]
        BY <3>2 DEF Rename, Unlink, Remove
      <4>2. \/ temp[TempName(e)] = e
            \/ temp[TempName(e)] = Foreign /\ swapped[e] # "no"
        BY <4>1 DEF Held, Holds
      <4>3. \A f \in Files: temp[TempName(e)] = f =>
              \/ f \in Exporters /\ pc'[f] # pc[f]
              \/ /\ f = Foreign
                 /\ \E o \in Exporters: /\ TempName(o) = TempName(e)
                                        /\ pc'[o] # pc[o]
                                        /\ swapped[o] # "no"
        BY <4>1, <4>2
      <4>4. \A n \in TempNames \ {TempName(e)}: temp'[n] = temp[n]
        BY <4>1
      <4>5. QED BY <4>3, <4>4
    <3>3. CASE Replace(e)
      BY <3>0, <3>3 DEF Replace
    <3>4. CASE UNCHANGED temp
      BY <3>4
    <3>5. QED
      BY <2>2, <3>1, <3>2, <3>3, <3>4
         DEF Step, Kill, OutputCheck, FailsEarly, WritePackage, SyncFile, Verify,
             HardLink, LosesRace, SyncDir, Fails, Drop
  <2>3. QED BY <2>1, <2>2 DEF Next
<1>2. QED BY <1>1, PackageInvariant, PTL DEF Spec, OthersFilesKept

\* A file that has had the output's name is not written again.
THEOREM MappedStable == Spec => MappedPackageStable
<1> DEFINE Same == \A e \in Exporters: e \in kept => data'[e] = data[e]
<1>1. IInv /\ [Next]_vars => [Same]_vars
  <2> SUFFICES ASSUME IInv, Next PROVE Same
    OBVIOUS
  <2> USE DEF IInv, Goto, files, TypeOK
  <2>1. CASE PowerLoss
    BY <2>1, PublishAssumption DEF PowerLoss, OutputWhole
  <2>2. ASSUME NEW e \in Exporters, Step(e) \/ Kill(e) \/ Replace(e) PROVE Same
    <3>1. CASE OpenTemp(e) \/ WritePackage(e)
      BY <3>1 DEF OpenTemp, WritePackage, Fresh
    <3>2. CASE UNCHANGED data
      BY <3>2
    <3>3. QED
      BY <2>2, <3>1, <3>2
         DEF Step, Kill, Replace, OutputCheck, FailsEarly, SyncFile, Verify, Rename,
             HardLink, LosesRace, Unlink, SyncDir, Fails, Drop, Remove
  <2>3. QED BY <2>1, <2>2 DEF Next
<1>2. QED BY <1>1, PackageInvariant, PTL DEF Spec, MappedPackageStable

\* The output is one atomic cell that changes hands only as asked, and that
\* takes nothing but packages unless one was exchanged after it was verified.
THEOREM PublishImplementsAtomic == Spec => ImplementsAtomicPublish
<1> DEFINE S == {e \in Exporters: swapped[e] = "publish"}
<1>1. Init => Promise!Init
  BY DEF Init, Promise!Init
<1>2. IInv /\ [Next]_vars => [Promise!Next]_Promise!vars
  <2> SUFFICES ASSUME IInv, [Next]_vars PROVE [Promise!Next]_Promise!vars
    OBVIOUS
  <2> USE DEF Promise!Next, Promise!vars
  <2>1. CASE UNCHANGED vars
    BY <2>1 DEF vars
  <2>2. CASE PowerLoss
    BY <2>2 DEF PowerLoss, Promise!PowerLoss
  <2>3. ASSUME NEW e \in Exporters, Step(e) \/ Kill(e) \/ Replace(e)
        PROVE  [Promise!Next]_Promise!vars
    <3>0. TempName(e) \in TempNames
      BY TempNameOK DEF IInv
    <3>1. CASE SyncDir(e)
      BY <3>1 DEF SyncDir, Promise!Settle
    <3>2. CASE Rename(e) \/ HardLink(e)
      <4>1. out = Absent \/ e \in Overwriters
        BY <3>2 DEF IInv, Lasting, Rename, HardLink, Goto
      <4>2. pc[e] \in {"rename", "link"}
        BY <3>2 DEF Rename, HardLink, Goto
      <4>3. temp[TempName(e)] = IF e \in S THEN Foreign ELSE e
        BY <3>0, <4>2, PublishAssumption DEF IInv, Owned, Held, Holds
      <4>4. out' = temp[TempName(e)] /\ kept' = kept \cup {out'} /\ S' = S
        BY <3>2 DEF Rename, HardLink, SetOutput
      <4>5. QED BY <4>1, <4>3, <4>4 DEF Promise!Put
    <3>3. CASE Replace(e)
      <4>1. UNCHANGED <<out, kept>>
        BY <3>3 DEF Replace
      <4>2. CASE pc[e] \in {"rename", "link"}
        <5>1. swapped' = [swapped EXCEPT ![e] = "publish"]
          BY <3>3, <4>2 DEF Replace
        <5>2. S' = S \cup {e}
          BY <5>1 DEF IInv, TypeOK
        <5>3. QED BY <4>1, <5>2 DEF Promise!Swap
      <4>3. CASE pc[e] \notin {"rename", "link"}
        <5>1. swapped[e] = "no"
          BY <3>0, <3>3 DEF Replace, IInv, Owned
        <5>2. swapped'[e] # "publish" /\ \A f \in Exporters \ {e}: swapped'[f] = swapped[f]
          BY <3>3, <4>3, <5>1 DEF Replace, IInv, TypeOK
        <5>3. S' = S
          BY <5>1, <5>2
        <5>4. QED BY <4>1, <5>3
      <4>4. QED BY <4>2, <4>3
    <3>4. CASE UNCHANGED <<out, kept, swapped>>
      BY <3>4
    <3>5. QED
      BY <2>3, <3>1, <3>2, <3>3, <3>4
         DEF Step, Kill, OutputCheck, FailsEarly, OpenTemp, WritePackage,
             SyncFile, Verify, LosesRace, Unlink, Fails, Drop, Remove, files
  <2>4. QED BY <2>1, <2>2, <2>3 DEF Next
<1>3. QED BY <1>1, <1>2, PackageInvariant, PTL
     DEF Spec, Promise!Spec, ImplementsAtomicPublish
=============================================================================
