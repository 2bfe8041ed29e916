--------------------------- MODULE AtomicPublish ---------------------------
(***************************************************************************)
(* What `ggufrs export` promises about the output name: at any moment it   *)
(* names nothing, the file that was there before, or one exporter's whole  *)
(* package; a package takes the place of another file only when its        *)
(* exporter was asked to overwrite; and a power loss can only bring back   *)
(* a value the name had since its directory was last made durable.  The    *)
(* promise is as good as the name the package has before it is published:  *)
(* what another program puts there at the last moment goes out instead.    *)
(***************************************************************************)
EXTENDS Naturals

CONSTANTS Exporters,    \* the export runs
          Overwriters,  \* those started with --overwrite
          Prior,        \* a file that was at the output before them
          Foreign,      \* a file of another program
          Absent        \* no file

VARIABLES out,      \* the file the output name leads to
          kept,     \* the files it may lead to after a power loss
          swapped   \* the exporters whose package was exchanged, verified
                    \* but not yet published, by another program

vars == <<out, kept, swapped>>

Init == /\ out \in {Absent, Prior}
        /\ kept = {out}
        /\ swapped = {}

\* Exporter e's package appears under the name, all at once.
Put(e) == /\ out = Absent \/ e \in Overwriters
          /\ out' = IF e \in swapped THEN Foreign ELSE e
          /\ kept' = kept \cup {out'}
          /\ UNCHANGED swapped

Swap(e) == /\ swapped' = swapped \cup {e}
           /\ UNCHANGED <<out, kept>>

\* The directory reaches the disk.
Settle == /\ kept' = {out}
          /\ UNCHANGED <<out, swapped>>

PowerLoss == /\ out' \in kept
             /\ kept' = {out'}
             /\ UNCHANGED swapped

Next == (\E e \in Exporters: Put(e) \/ Swap(e)) \/ Settle \/ PowerLoss

Spec == Init /\ [][Next]_vars
=============================================================================
