--------------------------- MODULE GenerationServer ---------------------------
(***************************************************************************)
(* The generation path of the HTTP server: src/src/app/server/api.rs       *)
(* (handle, generate, store_response, send) with the permit and the worker *)
(* task of src/src/app/server/mod.rs.                                      *)
(*                                                                         *)
(* A request is a handler (an async function, dropped where it waits when  *)
(* its client leaves) and a worker (a blocking task, which nobody can      *)
(* drop).  They share one semaphore permit, the mutex around the model's   *)
(* runtime, the response store and, for a streamed request, a bounded      *)
(* channel.                                                                *)
(*                                                                         *)
(* Kinds of request: "stream" and "plain" are text generations; "job" is   *)
(* an AuK rendering, a Hy-SimulMT translation or a WeVisOne prediction:    *)
(* the permit and a worker, no prompt and no cancellation; "jev" is a      *)
(* scoring request, which the handler runs itself.                         *)
(***************************************************************************)
EXTENDS ResponsesStore

CONSTANTS
  Wants,      \* what a request may ask: [kind, keep (store it), continue]
  ChanCap,    \* capacity of the channel to a streaming client
  MaxTokens,  \* bound on the pieces of text one generation emits
  Panics      \* whether the model's code may panic

ASSUME ServerConstants ==
  /\ Wants \subseteq [kind : {"stream", "plain", "job", "jev"}, keep : BOOLEAN, continue : BOOLEAN]
  /\ ChanCap \in Nat \ {0} /\ MaxTokens \in Nat /\ Panics \in BOOLEAN

Requests == Ids
Free == "free"   \* nobody holds the runtime's mutex

ASSUME FreeIsNobody == Free \notin Requests

VARIABLES
  want,       \* want[r]: what r asks
  hpc,        \* where r's handler is
  wpc,        \* where r's worker is
  permits,    \* generation_slot
  holding,    \* which part of r owns the permit
  cancelled,  \* the flag CancellationGuard sets
  rxOpen, txOpen, chan,   \* r's channel: its two ends, and what is in it
  got,        \* the last event r's client has read
  answer,     \* how r ended for its client
  outcome,    \* what r's worker decided
  messages,   \* the conversation r's prompt is made of, one turn a request
  pieces,     \* pieces of text emitted
  lock,       \* who holds the runtime's mutex
  poisoned,   \* a panic happened while it was held
  inserted    \* the responses that have ever entered the store

serverVars  == <<permits, holding, lock, poisoned>>
channelVars == <<rxOpen, txOpen, chan, got>>
requestVars == <<want, cancelled, messages, answer>>
workerVars  == <<outcome, pieces, inserted>>
vars == <<storeVars, serverVars, channelVars, requestVars, workerVars, hpc, wpc>>

Init ==
  /\ StoreInit
  /\ want \in [Requests -> Wants]
  /\ hpc = [r \in Requests |-> "new"]
  /\ wpc = [r \in Requests |-> "none"]
  /\ permits = 1
  /\ holding = [r \in Requests |-> "no"]
  /\ cancelled = [r \in Requests |-> FALSE]
  /\ rxOpen = [r \in Requests |-> FALSE]
  /\ txOpen = [r \in Requests |-> FALSE]
  /\ chan = [r \in Requests |-> <<>>]
  /\ got = [r \in Requests |-> "nothing"]
  /\ answer = [r \in Requests |-> "none"]
  /\ outcome = [r \in Requests |-> "none"]
  /\ messages = [r \in Requests |-> <<>>]
  /\ pieces = [r \in Requests |-> 0]
  /\ lock = Free
  /\ poisoned = FALSE
  /\ inserted = {}

Handler(r, from, to) == hpc[r] = from /\ hpc' = [hpc EXCEPT ![r] = to]
Worker(r, from, to) == wpc[r] = from /\ wpc' = [wpc EXCEPT ![r] = to]
Answer(r, a) == answer' = [answer EXCEPT ![r] = a]
Is(r, kind) == want[r].kind = kind
TakePermit(r) == permits > 0 /\ permits' = permits - 1 /\ holding' = [holding EXCEPT ![r] = "handler"]
ReleasePermit(r) == permits' = permits + 1 /\ holding' = [holding EXCEPT ![r] = "no"]

-----------------------------------------------------------------------------
(* handle, up to the worker *)

\* check_history refuses a conversation whose tool results do not match its calls.
CheckHistory(r) ==
  \/ Handler(r, "new", "slot") /\ UNCHANGED answer
  \/ Handler(r, "new", "closed") /\ Answer(r, "error")

\* resolve: the history of the previous response is copied out of the store.
\* A client may name any response whose id it can have seen.
Resolve(r) ==
  /\ want[r].kind \in {"stream", "plain"}
  /\ \/ /\ ~want[r].continue
        /\ messages' = [messages EXCEPT ![r] = <<r>>]
        /\ CheckHistory(r)
        /\ UNCHANGED storeVars
     \/ /\ want[r].continue
        /\ \E id \in Requests \ {r} :
             \/ /\ Holds(id)
                /\ messages' = [messages EXCEPT ![r] = Append(Messages(id), r)]
                /\ CheckHistory(r)
             \/ /\ ~Holds(id)
                /\ Handler(r, "new", "closed") /\ Answer(r, "404")
                /\ UNCHANGED messages
        /\ Prune /\ UNCHANGED now
  /\ UNCHANGED <<serverVars, channelVars, workerVars, want, cancelled, wpc>>

\* The other endpoints go to the slot at once, or do not use it at all.
ArriveJob(r) ==
  /\ Is(r, "job") /\ Handler(r, "new", "slot")
  /\ UNCHANGED <<storeVars, serverVars, channelVars, requestVars, workerVars, wpc>>
ArriveJev(r) ==
  /\ Is(r, "jev") /\ Handler(r, "new", "scoring")
  /\ UNCHANGED <<storeVars, serverVars, channelVars, requestVars, workerVars, wpc>>

\* jev_score runs the model inside the handler: no await, so no disconnection.
ScoreJev(r) ==
  /\ Handler(r, "scoring", "closed")
  /\ Answer(r, "done")
  /\ UNCHANGED <<storeVars, serverVars, channelVars, workerVars, want, cancelled, messages, wpc>>

\* try_acquire_owned, or 429.
Acquire(r) ==
  /\ TakePermit(r)
  /\ ~Is(r, "job")
  /\ Handler(r, "slot", "prompt")
  /\ UNCHANGED <<storeVars, lock, poisoned, channelVars, requestVars, workerVars, wpc>>
AcquireJob(r) ==
  /\ permits > 0 /\ permits' = permits - 1
  /\ holding' = [holding EXCEPT ![r] = "worker"]
  /\ Is(r, "job")
  /\ Handler(r, "slot", "await")
  /\ Worker(r, "none", "job")
  /\ UNCHANGED <<storeVars, lock, poisoned, channelVars, requestVars, workerVars>>
Refuse(r) ==
  /\ permits = 0
  /\ Handler(r, "slot", "closed")
  /\ Answer(r, "429")
  /\ UNCHANGED <<storeVars, serverVars, channelVars, workerVars, want, cancelled, messages, wpc>>

\* prompt(...).await fails: the handler returns and its permit is dropped.
PromptFails(r) ==
  /\ Handler(r, "prompt", "closed")
  /\ Answer(r, "error")
  /\ ReleasePermit(r)
  /\ UNCHANGED <<storeVars, lock, poisoned, channelVars, workerVars, want, cancelled, messages, wpc>>

\* Mutant: the permit stays with the handler, and is dropped with it.
SpawnKeepsPermit(r) ==
  /\ \/ /\ Is(r, "stream") /\ Handler(r, "prompt", "stream") /\ Worker(r, "none", "start")
        /\ rxOpen' = [rxOpen EXCEPT ![r] = TRUE]
        /\ txOpen' = [txOpen EXCEPT ![r] = TRUE]
     \/ /\ Is(r, "plain") /\ Handler(r, "prompt", "await") /\ Worker(r, "none", "generate")
        /\ UNCHANGED <<rxOpen, txOpen>>
  /\ UNCHANGED <<storeVars, permits, holding, lock, poisoned, chan, got, requestVars, workerVars>>

\* The worker is spawned and owns the permit from here on.
Spawn(r) ==
  /\ \/ /\ Is(r, "stream") /\ Handler(r, "prompt", "stream") /\ Worker(r, "none", "start")
        /\ rxOpen' = [rxOpen EXCEPT ![r] = TRUE]
        /\ txOpen' = [txOpen EXCEPT ![r] = TRUE]
     \/ /\ Is(r, "plain") /\ Handler(r, "prompt", "await") /\ Worker(r, "none", "generate")
        /\ UNCHANGED <<rxOpen, txOpen>>
  /\ holding' = [holding EXCEPT ![r] = "worker"]
  /\ UNCHANGED <<storeVars, permits, lock, poisoned, chan, got, requestVars, workerVars>>

\* Mutant: there is no CancellationGuard.
DisconnectUnguarded(r) ==
  /\ hpc[r] \in {"prompt", "await", "stream"}
  /\ hpc' = [hpc EXCEPT ![r] = "closed"]
  /\ Answer(r, "left")
  /\ IF holding[r] = "handler" THEN ReleasePermit(r) ELSE UNCHANGED <<permits, holding>>
  /\ rxOpen' = [rxOpen EXCEPT ![r] = FALSE]
  /\ chan' = [chan EXCEPT ![r] = <<>>]
  /\ UNCHANGED <<storeVars, lock, poisoned, txOpen, got, workerVars, want, cancelled, messages, wpc>>

\* Mutant: something else keeps the receiver alive.
DisconnectKeepsReceiver(r) ==
  /\ hpc[r] \in {"prompt", "await", "stream"}
  /\ hpc' = [hpc EXCEPT ![r] = "closed"]
  /\ Answer(r, "left")
  /\ IF holding[r] = "handler" THEN ReleasePermit(r) ELSE UNCHANGED <<permits, holding>>
  /\ cancelled' = [cancelled EXCEPT ![r] = hpc[r] = "await" /\ Is(r, "plain")]
  /\ UNCHANGED <<storeVars, lock, poisoned, channelVars, workerVars, want, messages, wpc>>

\* The client leaves: the handler is dropped where it waits, and with it what it
\* owns: the permit (until the worker has it), the armed guard of a plain
\* request, the receiver of a stream.
Disconnect(r) ==
  /\ hpc[r] \in {"prompt", "await", "stream"}
  /\ hpc' = [hpc EXCEPT ![r] = "closed"]
  /\ Answer(r, "left")
  /\ IF holding[r] = "handler" THEN ReleasePermit(r) ELSE UNCHANGED <<permits, holding>>
  /\ cancelled' = [cancelled EXCEPT ![r] = hpc[r] = "await" /\ Is(r, "plain")]
  /\ rxOpen' = [rxOpen EXCEPT ![r] = FALSE]
  /\ chan' = [chan EXCEPT ![r] = <<>>]
  /\ UNCHANGED <<storeVars, lock, poisoned, txOpen, got, workerVars, want, messages, wpc>>

-----------------------------------------------------------------------------
(* The worker *)

Stopped(r) == cancelled[r] \/ (Is(r, "stream") /\ ~rxOpen[r])

\* blocking_send: waits for room, and fails once the receiver is gone.  A plain
\* request has no channel: its emit always succeeds.
Send(r, event) ==
  IF ~Is(r, "stream") THEN UNCHANGED chan
  ELSE /\ rxOpen[r] /\ Len(chan[r]) < ChanCap
       /\ chan' = [chan EXCEPT ![r] = Append(@, event)]
SendFails(r) == Is(r, "stream") /\ ~rxOpen[r] /\ UNCHANGED chan

WorkerOnly == UNCHANGED <<storeVars, permits, holding, requestVars, hpc, rxOpen, txOpen, got>>

StartEvent(r) ==
  /\ \/ Send(r, "start") /\ Worker(r, "start", "generate")
     \/ SendFails(r) /\ Worker(r, "start", "release")
  /\ WorkerOnly /\ UNCHANGED <<workerVars, lock, poisoned>>

\* generate: the first look at the client, then the runtime's mutex.
Generate(r) ==
  /\ Worker(r, "generate", IF Stopped(r) THEN "fail" ELSE "lock")
  /\ WorkerOnly /\ UNCHANGED <<chan, workerVars, lock, poisoned>>

LockRuntime(r) ==
  /\ lock = Free
  /\ \/ poisoned /\ Worker(r, "lock", "fail") /\ UNCHANGED lock
     \/ ~poisoned /\ Worker(r, "lock", "token") /\ lock' = r
  /\ WorkerOnly /\ UNCHANGED <<chan, workerVars, poisoned>>

Unlock == lock' = Free

\* One token: on_token looks at the client first, then text may come out of the
\* filters and the parser.  The runtime's own end, a stop sequence or an error
\* ends the loop.
NextToken(r) ==
  /\ \/ Stopped(r) /\ Worker(r, "token", "fail") /\ Unlock
     \/ ~Stopped(r) /\ pieces[r] < MaxTokens /\ Worker(r, "token", "emit") /\ UNCHANGED lock
     \/ ~Stopped(r) /\ Worker(r, "token", "fail") /\ Unlock
     \/ Worker(r, "token", "ended") /\ UNCHANGED lock
  /\ WorkerOnly /\ UNCHANGED <<chan, workerVars, poisoned>>

\* The worker blocks here with the mutex held when a client reads too slowly.
EmitPiece(r) ==
  /\ \/ /\ Send(r, "delta") /\ Worker(r, "emit", "token") /\ UNCHANGED lock
        /\ pieces' = [pieces EXCEPT ![r] = @ + 1]
     \/ SendFails(r) /\ Worker(r, "emit", "fail") /\ Unlock /\ UNCHANGED pieces
  /\ WorkerOnly /\ UNCHANGED <<outcome, inserted, poisoned>>

Panic(r) ==
  /\ Panics
  /\ Worker(r, "token", "release")
  /\ outcome' = [outcome EXCEPT ![r] = "panic"]
  /\ poisoned' = TRUE /\ Unlock
  /\ WorkerOnly /\ UNCHANGED <<chan, pieces, inserted>>

\* The last look at the client; then what the filters still hold comes out.
AfterTokens(r) ==
  /\ \/ Stopped(r) /\ Worker(r, "ended", "fail") /\ Unlock
     \/ ~Stopped(r) /\ Worker(r, "ended", "flush") /\ UNCHANGED lock
  /\ WorkerOnly /\ UNCHANGED <<chan, workerVars, poisoned>>

Flush(r) ==
  /\ Unlock
  /\ \/ Worker(r, "flush", "finish") /\ UNCHANGED chan
     \/ Send(r, "delta") /\ Worker(r, "flush", "finish")
     \/ SendFails(r) /\ Worker(r, "flush", "fail")
     \/ UNCHANGED chan /\ Worker(r, "flush", "fail")
  /\ WorkerOnly /\ UNCHANGED <<workerVars, poisoned>>

Decide(r, what) == outcome' = [outcome EXCEPT ![r] = what]

\* Mutant: the response is only stored after the client has been told of it.
FinishUnstored(r) ==
  /\ Worker(r, "finish", "tell")
  /\ Decide(r, "done")
  /\ WorkerOnly /\ UNCHANGED <<chan, pieces, inserted, lock, poisoned>>

\* store_response: a response that does not fit fails the request.
Finish(r) ==
  /\ Worker(r, "finish", "tell")
  /\ IF want[r].keep
     THEN \E size \in Sizes :
            LET total == size + Len(messages[r])
            IN IF Accepts(total)
               THEN /\ StoreInsert(r, messages[r], total)
                    /\ inserted' = inserted \union {r}
                    /\ Decide(r, "done")
               ELSE Decide(r, "failed") /\ UNCHANGED <<records, bytes, inserted>>
     ELSE Decide(r, "done") /\ UNCHANGED <<records, bytes, inserted>>
  /\ UNCHANGED <<now, permits, holding, requestVars, hpc, channelVars, pieces, lock, poisoned>>

\* generate returned an error.  A stream whose client is gone is told nothing.
Fail(r) ==
  /\ Worker(r, "fail", IF Is(r, "stream") /\ ~rxOpen[r] THEN "release" ELSE "tell")
  /\ Decide(r, "failed")
  /\ WorkerOnly /\ UNCHANGED <<chan, pieces, inserted, lock, poisoned>>

\* Mutant: the final event is sent without waiting for room.
TellWithoutWaiting(r) ==
  /\ Worker(r, "tell", "release")
  /\ Send(r, outcome[r]) \/ (Is(r, "stream") /\ Len(chan[r]) = ChanCap /\ UNCHANGED chan) \/ SendFails(r)
  /\ WorkerOnly /\ UNCHANGED <<workerVars, lock, poisoned>>

\* The final events of a stream; a plain request returns its result.
Tell(r) ==
  /\ Worker(r, "tell", "release")
  /\ Send(r, outcome[r]) \/ SendFails(r)
  /\ WorkerOnly /\ UNCHANGED <<workerVars, lock, poisoned>>

RunJob(r) ==
  /\ Worker(r, "job", "release")
  /\ \/ \E what \in {"done", "failed"} : Decide(r, what)
     \/ Panics /\ Decide(r, "panic")
  /\ WorkerOnly /\ UNCHANGED <<chan, pieces, inserted, lock, poisoned>>

\* Mutant: the sender goes first, the permit after it.
WorkerEndsSenderFirst(r) ==
  /\ \/ /\ Worker(r, "release", "closing")
        /\ txOpen' = [txOpen EXCEPT ![r] = FALSE]
        /\ UNCHANGED <<permits, holding>>
     \/ Worker(r, "closing", "exited") /\ ReleasePermit(r) /\ UNCHANGED txOpen
  /\ UNCHANGED <<storeVars, lock, poisoned, rxOpen, chan, got, requestVars, workerVars, hpc>>

\* Mutant: the sender outlives the worker.
WorkerEndsSenderKept(r) ==
  /\ \/ Worker(r, "release", "closing") /\ ReleasePermit(r)
     \/ Worker(r, "closing", "exited") /\ UNCHANGED <<permits, holding>>
  /\ UNCHANGED <<storeVars, lock, poisoned, channelVars, requestVars, workerVars, hpc>>

\* The closure ends, by returning or unwinding: its local `_permit` is dropped,
\* then what it captured, the sender among it.
WorkerEnds(r) ==
  /\ \/ Worker(r, "release", "closing") /\ ReleasePermit(r) /\ UNCHANGED txOpen
     \/ /\ Worker(r, "closing", "exited")
        /\ txOpen' = [txOpen EXCEPT ![r] = FALSE]
        /\ UNCHANGED <<permits, holding>>
  /\ UNCHANGED <<storeVars, lock, poisoned, rxOpen, chan, got, requestVars, workerVars, hpc>>

-----------------------------------------------------------------------------
(* What the client sees *)

Receive(r) ==
  /\ hpc[r] = "stream" /\ chan[r] # <<>>
  /\ got' = [got EXCEPT ![r] = Head(chan[r])]
  /\ chan' = [chan EXCEPT ![r] = Tail(@)]
  /\ UNCHANGED <<storeVars, serverVars, rxOpen, txOpen, requestVars, workerVars, hpc, wpc>>

EndOfStream(r) ==
  /\ chan[r] = <<>> /\ ~txOpen[r]
  /\ Handler(r, "stream", "closed")
  /\ Answer(r, "ended")
  /\ UNCHANGED <<storeVars, serverVars, channelVars, workerVars, want, cancelled, messages, wpc>>

\* The awaited worker is done; a panic of it is a 500 as well.
Reply(r) ==
  /\ wpc[r] = "exited"
  /\ Handler(r, "await", "closed")
  /\ Answer(r, IF outcome[r] = "done" THEN "done" ELSE "failed")
  /\ UNCHANGED <<storeVars, serverVars, channelVars, workerVars, want, cancelled, messages, wpc>>

\* The other requests on the store, and time.
OtherStoreUse ==
  /\ \/ \E id \in Ids : StoreRemove(id) /\ UNCHANGED now
     \/ Prune /\ UNCHANGED now
     \/ Tick /\ UNCHANGED <<records, bytes>>
  /\ UNCHANGED <<serverVars, channelVars, requestVars, workerVars, hpc, wpc>>

HandlerStep(r) ==
  \/ Resolve(r) \/ ArriveJob(r) \/ ArriveJev(r) \/ ScoreJev(r)
  \/ Acquire(r) \/ AcquireJob(r) \/ Refuse(r)
  \/ PromptFails(r) \/ Spawn(r)
  \/ Receive(r) \/ EndOfStream(r) \/ Reply(r)
WorkerStep(r) ==
  \/ StartEvent(r) \/ Generate(r) \/ LockRuntime(r)
  \/ NextToken(r) \/ EmitPiece(r) \/ Panic(r) \/ AfterTokens(r) \/ Flush(r)
  \/ Finish(r) \/ Fail(r) \/ Tell(r) \/ RunJob(r)
  \/ WorkerEnds(r)

Next ==
  \/ \E r \in Requests : HandlerStep(r) \/ WorkerStep(r) \/ Disconnect(r)
  \/ OtherStoreUse

Spec == Init /\ [][Next]_vars

\* Scheduling: the runtime polls every handler that can go on and runs every
\* blocking task, and a client that stays reads what it is sent.  Nobody has to
\* make a request, to leave, or to use the store.
Proceed(r) == hpc[r] # "new" /\ HandlerStep(r)
Fairness == \A r \in Requests : WF_vars(Proceed(r)) /\ WF_vars(WorkerStep(r))

FairSpec == Spec /\ Fairness

-----------------------------------------------------------------------------
(* Properties *)

HandlerPCs == {"new", "slot", "prompt", "await", "stream", "scoring", "closed"}
ActivePCs == {"start", "generate", "lock", "token", "emit", "ended", "flush",
              "finish", "fail", "tell", "job"}
WorkerPCs == ActivePCs \union {"none", "release", "closing", "exited"}
Events == {"start", "delta", "done", "failed"}

TypeOK ==
  /\ StoreTypeOK
  /\ want \in [Requests -> Wants]
  /\ hpc \in [Requests -> HandlerPCs]
  /\ wpc \in [Requests -> WorkerPCs]
  /\ permits \in {0, 1}
  /\ holding \in [Requests -> {"no", "handler", "worker"}]
  /\ cancelled \in [Requests -> BOOLEAN]
  /\ rxOpen \in [Requests -> BOOLEAN] /\ txOpen \in [Requests -> BOOLEAN]
  /\ \A r \in Requests : chan[r] \in Seq(Events) /\ Len(chan[r]) <= ChanCap
  /\ got \in [Requests -> Events \union {"nothing"}]
  /\ answer \in [Requests -> {"none", "404", "429", "error", "left", "ended", "done", "failed"}]
  /\ outcome \in [Requests -> {"none", "done", "failed", "panic"}]
  /\ \A r \in Requests : messages[r] \in Seq(Requests)
  /\ pieces \in [Requests -> 0..MaxTokens]
  /\ lock \in Requests \union {Free}
  /\ poisoned \in BOOLEAN
  /\ inserted \subseteq Requests

\* "One active generation protects shared GPU/model state": a worker that is
\* between its start and its end owns the permit, no two requests own it, and it
\* is never lost or made twice, whoever fails, panics or leaves at any moment.
Active(r) == wpc[r] \in ActivePCs
OneGeneration ==
  /\ \A r \in Requests : Active(r) => holding[r] = "worker"
  /\ \A r, s \in Requests : holding[r] # "no" /\ holding[s] # "no" => r = s
  /\ permits = 1 <=> \A r \in Requests : holding[r] = "no"
  /\ lock # Free => Active(lock)

\* What a client is told and what the store has agree: a response that asked to
\* be kept and was reported complete has entered the store before, and one
\* reported failed never did.
Kept(r) == want[r].keep /\ want[r].kind \in {"stream", "plain"}
Told(r) == IF Is(r, "stream") THEN got[r] ELSE answer[r]
ToldMatchesStore ==
  \A r \in Requests :
    /\ Told(r) = "done" /\ Kept(r) => r \in inserted
    /\ Told(r) = "failed" => r \notin inserted

\* A client that stays to the end of its stream has read the outcome the worker
\* decided, as the last event: no event is lost between the bounded channel, the
\* closing of its ends, and the final send.  (A panicking worker ends the stream
\* with no final event.)
StreamEndsInOutcome ==
  \A r \in Requests : answer[r] = "ended" /\ outcome[r] # "panic" => got[r] = outcome[r]

\* A client that has its answer, or has seen its stream end, can make its next
\* request: its own permit is back.  (The final event alone does not say so.)
AnsweredMeansFree ==
  \A r \in Requests : answer[r] \in {"ended", "done", "failed"} => holding[r] = "no"

\* A client that leaves while tokens are still being made leaves no trace in the
\* store: its worker sees it in time, and evicts nobody's record for it.
Abandoned(r) == answer[r] = "left" /\ wpc[r] \in {"start", "generate", "lock", "token", "ended"}
AbandonedNotStored == \A r \in Requests : [](Abandoned(r) => [](r \notin inserted))

\* The permit always comes back: after an answer, an error, a panic, or a client
\* that left with the channel full.
PermitReturns == \A r \in Requests : holding[r] # "no" ~> holding[r] = "no"

\* Every request that is admitted or waits for its prompt is settled.
RequestsSettle == \A r \in Requests : hpc[r] # "new" ~> hpc[r] = "closed"

\* The server implements the promise of one slot.  A scoring request never asks
\* for the slot: it is turned away in the abstract, and answered beside it.
Final(x) == IF x \in {"done", "failed"} THEN x ELSE "nothing"
Slot == INSTANCE SingleSlot WITH
          keeps   <- {r \in Requests : Kept(r)},
          waiting <- {r \in Requests : hpc[r] \in {"new", "slot"}},
          serving <- {r \in Requests : holding[r] # "no"},
          kept    <- inserted,
          told    <- [r \in Requests |-> Final(Told(r))]
ImplementsSingleSlot == Slot!Spec

\* The comment on the prediction route: "One active generation protects shared
\* GPU/model state and bounds server memory, exactly like the chat and JEV
\* routes": no two requests compute with the model at the same time.
UsesModel(r) == hpc[r] = "scoring" \/ wpc[r] \in {"token", "emit", "job"}
OneModelUser == \A r, s \in Requests : UsesModel(r) /\ UsesModel(s) => r = s
===============================================================================
