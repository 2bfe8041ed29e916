---------------------------- MODULE ResponsesStore ----------------------------
(***************************************************************************)
(* The store behind `previous_response_id` (src/src/app/server/api.rs):    *)
(* finished responses, oldest first, bounded in number and in bytes, each  *)
(* forgotten when its time to live is over.  The server shares one store   *)
(* behind a mutex, so each operation is one step.                          *)
(***************************************************************************)
EXTENDS Integers, SequencesExt

CONSTANTS
  Ids,         \* response ids
  Sizes,       \* sizes in bytes a serialised response and its history may have
  MaxRecords, MaxBytes, TTL,
  MaxTime      \* bound on the clock

ASSUME StoreConstants ==
  /\ Sizes \subseteq Nat \ {0}
  /\ MaxRecords \in Nat /\ MaxBytes \in Nat /\ TTL \in Nat \ {0} /\ MaxTime \in Nat

VARIABLES records,  \* a sequence of [id, messages, bytes, expires]
          bytes,    \* the running total
          now

storeVars == <<records, bytes, now>>

StoreInit == records = <<>> /\ bytes = 0 /\ now = 0

\* The bytes of the first n records, for every n.
Running(rs) ==
  LET sum[n \in 0 .. Len(rs)] == IF n = 0 THEN 0 ELSE sum[n - 1] + rs[n].bytes
  IN sum

Total(rs) == Running(rs)[Len(rs)]

\* retain: the records at the given positions, in their order.
Retain(rs, kept) ==
  LET among[n \in 0 .. Len(rs)] ==
        IF n = 0 THEN <<>>
        ELSE IF n \in kept THEN Append(among[n - 1], rs[n]) ELSE among[n - 1]
  IN among[Len(rs)]

\* prune
Unexpired(rs) == Retain(rs, {i \in DOMAIN rs : rs[i].expires > now})

\* remove, after its pruning: the first record of this id goes, and its bytes.
Positions(rs, id) == {i \in DOMAIN rs : rs[i].id = id}
Without(rs, id) ==
  IF Positions(rs, id) = {} THEN rs ELSE RemoveAt(rs, Min(Positions(rs, id)))
Freed(rs, id) ==
  IF Positions(rs, id) = {} THEN 0 ELSE rs[Min(Positions(rs, id))].bytes

\* Mutant: one record fewer than there may be is kept.
PopsOneMore(rs, held, size) ==
  Min({n \in 0 .. Len(rs) :
         /\ Len(rs) - n + 1 < MaxRecords
         /\ held - Running(rs)[n] + size <= MaxBytes})

\* How often insert calls pop_front: while there are too many records, or too
\* many bytes by the running total, which starts at held and goes down with
\* each record.
Pops(rs, held, size) ==
  Min({n \in 0 .. Len(rs) :
         /\ Len(rs) - n < MaxRecords
         /\ held - Running(rs)[n] + size <= MaxBytes})

Accepts(size) == size <= MaxBytes /\ MaxRecords # 0

\* insert refuses what could never fit, without pruning; otherwise it prunes,
\* removes an older record of the same id, evicts, and appends.
StoreInsert(id, messages, size) ==
  LET rest == Without(Unexpired(records), id)
      held == Total(Unexpired(records)) - Freed(Unexpired(records), id)
      pops == Pops(rest, held, size)
  IN /\ Accepts(size)
     /\ records' = Append(SubSeq(rest, pops + 1, Len(rest)),
                          [id |-> id, messages |-> messages, bytes |-> size,
                           expires |-> now + TTL])
     /\ bytes' = held - Running(rest)[pops] + size

Prune ==
  /\ records' = Unexpired(records)
  /\ bytes' = Total(Unexpired(records))

Holds(id) == \E i \in DOMAIN records : records[i].id = id /\ records[i].expires > now
Messages(id) == records[CHOOSE i \in DOMAIN records : records[i].id = id].messages

\* Mutant: the running total is not reduced.
StoreRemoveKeepsBytes(id) ==
  /\ records' = Without(Unexpired(records), id)
  /\ bytes' = Total(Unexpired(records))

\* Mutant: the record is looked up before the pruning, which may drop it too.
StoreRemoveLooksFirst(id) ==
  /\ records' = Without(Unexpired(records), id)
  /\ bytes' = Total(Unexpired(records)) - Freed(records, id)

StoreRemove(id) ==
  /\ records' = Without(Unexpired(records), id)
  /\ bytes' = Total(Unexpired(records)) - Freed(Unexpired(records), id)

Tick == now < MaxTime /\ now' = now + 1

\* The store on its own, for any use of it.
InsertResponse(id, size) == StoreInsert(id, <<id>>, size) /\ UNCHANGED now
RefuseResponse(size) == ~Accepts(size) /\ UNCHANGED storeVars
GetResponse(id) == Prune /\ UNCHANGED now
DeleteResponse(id) == StoreRemove(id) /\ UNCHANGED now

StoreNext ==
  \/ \E id \in Ids, size \in Sizes : InsertResponse(id, size)
  \/ \E size \in Sizes : RefuseResponse(size)
  \/ \E id \in Ids : GetResponse(id) \/ DeleteResponse(id)
  \/ Tick /\ UNCHANGED <<records, bytes>>

StoreSpec == StoreInit /\ [][StoreNext]_storeVars

-----------------------------------------------------------------------------
(* Properties *)

StoreTypeOK ==
  /\ \A i \in DOMAIN records :
        /\ records[i].id \in Ids /\ records[i].bytes \in Nat
        /\ records[i].expires \in 0..(MaxTime + TTL)
  /\ bytes \in Nat /\ now \in 0..MaxTime

\* The running total that eviction decides on is the true one after any mix of
\* expiry, replacement, removal and eviction, the store is within both bounds,
\* and it holds one record per id, the next to expire first.  (A total that
\* drifted upward would make insert's eviction loop pop an empty queue for ever.)
StoreConsistent ==
  /\ bytes = Total(records)
  /\ Len(records) <= MaxRecords /\ bytes <= MaxBytes
  /\ \A i, j \in DOMAIN records : i < j =>
        records[i].id # records[j].id /\ records[i].expires <= records[j].expires

\* A client that may continue from a response keeps being able to until the
\* response expires, is deleted, or a newer one needs its room: no insertion
\* drops a record it does not have to, and none out of age order.
Fits(rs, size) == Len(rs) < MaxRecords /\ Total(rs) + size <= MaxBytes
EvictsOnlyWhatItMust ==
  [][ \A id \in Ids, size \in Sizes : InsertResponse(id, size) =>
        LET live == Without(Unexpired(records), id)
            left == Front(records')
        IN /\ IsSuffix(left, live)
           /\ left # live =>
                ~Fits(SubSeq(live, Len(live) - Len(left), Len(live)), size)
    ]_storeVars
=============================================================================
