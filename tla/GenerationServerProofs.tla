------------------------ MODULE GenerationServerProofs ------------------------
(***************************************************************************)
(* Proofs about GenerationServer, for any requests, wishes, channel        *)
(* capacity and store: the permit; what a client is told, which agrees     *)
(* with what the worker decided and with what has entered the store, and   *)
(* the promise of SingleSlot, which the server implements; a client that   *)
(* leaves; and the types, with the store as the requests use it.           *)
(***************************************************************************)
EXTENDS GenerationServer, ResponsesStoreProofs

-----------------------------------------------------------------------------
(* The permit: the inductive invariant *)

Places ==
  /\ hpc \in [Requests -> HandlerPCs]
  /\ wpc \in [Requests -> WorkerPCs]
  /\ holding \in [Requests -> {"no", "handler", "worker"}]
  /\ txOpen \in [Requests -> BOOLEAN]
  /\ answer \in [Requests -> {"none", "404", "429", "error", "left", "ended", "done", "failed"}]
  /\ permits \in {0, 1}

\* Who owns the permit is determined by where a request's two parts are.
HeldPCs == ActivePCs \union {"release"}
Stage(r) ==
  /\ hpc[r] \in {"new", "slot", "scoring"} => wpc[r] = "none" /\ holding[r] = "no"
  /\ hpc[r] = "prompt" => wpc[r] = "none" /\ holding[r] = "handler"
  /\ holding[r] = "handler" => hpc[r] = "prompt"
  /\ holding[r] = "worker" <=> wpc[r] \in HeldPCs
  /\ hpc[r] = "stream" /\ ~txOpen[r] => wpc[r] = "exited"
  /\ answer[r] # "none" => hpc[r] = "closed"
Stages == \A r \in Requests : Stage(r)

\* The permit is in the semaphore or in exactly one place.
Conserved ==
  /\ permits = 1 <=> \A r \in Requests : holding[r] = "no"
  /\ \A r, s \in Requests : holding[r] # "no" /\ holding[s] # "no" => r = s

\* The runtime's mutex is held by the worker that is inside it.
LockedPCs == {"token", "emit", "ended", "flush"}
Locked ==
  /\ lock # Free => lock \in Requests /\ wpc[lock] \in LockedPCs
  /\ \A r \in Requests : wpc[r] \in LockedPCs => lock = r

\* What an ended request has been told.
Settled ==
  \A r \in Requests : answer[r] \in {"ended", "done", "failed"} => holding[r] = "no"

PermitInv == Places /\ Stages /\ Conserved /\ Locked /\ Settled

-----------------------------------------------------------------------------
(* Every step preserves it *)

LEMMA InitPermitInv == Init => PermitInv
<1> SUFFICES ASSUME Init PROVE PermitInv
  OBVIOUS
<1>1. Places
  BY DEF Init, Places, HandlerPCs, WorkerPCs, ActivePCs
<1>2. Stages /\ Settled
  BY DEF Init, Stages, Stage, Settled, HeldPCs, ActivePCs
<1>3. Conserved /\ Locked
  BY DEF Init, Conserved, Locked, LockedPCs
<1>4. QED BY <1>1, <1>2, <1>3 DEF PermitInv

LEMMA HandlerKeepsPermit ==
  ASSUME PermitInv, NEW r \in Requests, HandlerStep(r)
  PROVE  PermitInv'
<1> USE DEF Places, Stages, Stage, Conserved, Locked, Settled, PermitInv, HandlerPCs, WorkerPCs, ActivePCs, HeldPCs, LockedPCs
<1>1. CASE Resolve(r)
  BY <1>1 DEF Resolve, CheckHistory, Handler, Answer, serverVars, channelVars, workerVars
<1>2. CASE ArriveJob(r)
  BY <1>2 DEF ArriveJob, Handler, serverVars, channelVars, requestVars, workerVars
<1>3. CASE ArriveJev(r)
  BY <1>3 DEF ArriveJev, Handler, serverVars, channelVars, requestVars, workerVars
<1>4. CASE ScoreJev(r)
  BY <1>4 DEF ScoreJev, Handler, Answer, serverVars, channelVars, workerVars
<1>5. CASE Acquire(r)
  BY <1>5 DEF Acquire, TakePermit, Handler, channelVars, requestVars, workerVars
<1>6. CASE AcquireJob(r)
  BY <1>6 DEF AcquireJob, Handler, Worker, channelVars, requestVars, workerVars
<1>7. CASE Refuse(r)
  BY <1>7 DEF Refuse, Handler, Answer, serverVars, channelVars, workerVars
<1>8. CASE PromptFails(r)
  BY <1>8 DEF PromptFails, Handler, Answer, ReleasePermit, channelVars, workerVars
<1>9. CASE Spawn(r)
  <2>1. hpc[r] = "prompt" /\ wpc[r] = "none" /\ holding[r] = "handler"
    BY <1>9 DEF Spawn, Handler, Worker
  <2>2. holding' = [holding EXCEPT ![r] = "worker"] /\ UNCHANGED <<permits, lock, answer>>
    BY <1>9 DEF Spawn, requestVars
  <2>3. \/ /\ hpc' = [hpc EXCEPT ![r] = "stream"] /\ wpc' = [wpc EXCEPT ![r] = "start"]
           /\ txOpen' = [txOpen EXCEPT ![r] = TRUE]
        \/ /\ hpc' = [hpc EXCEPT ![r] = "await"] /\ wpc' = [wpc EXCEPT ![r] = "generate"]
           /\ UNCHANGED txOpen
    BY <1>9 DEF Spawn, Handler, Worker
  <2>4. Places' /\ Conserved'
    <3>1. Places'
      BY <2>1, <2>2, <2>3
    <3>2. \A s \in Requests : holding'[s] = "no" <=> holding[s] = "no"
      BY <2>1, <2>2
    <3>3. QED BY <3>1, <3>2, <2>2
  <2>5. Stages'
    BY <2>1, <2>2, <2>3
  <2>6. Locked' /\ Settled'
    BY <2>1, <2>2, <2>3
  <2>7. QED BY <2>4, <2>5, <2>6
<1>10. CASE Receive(r)
  BY <1>10 DEF Receive, serverVars, requestVars, workerVars
<1>11. CASE EndOfStream(r)
  BY <1>11 DEF EndOfStream, Handler, Answer, serverVars, channelVars, workerVars
<1>12. CASE Reply(r)
  BY <1>12 DEF Reply, Handler, Answer, serverVars, channelVars, workerVars
<1>13. QED BY <1>1, <1>2, <1>3, <1>4, <1>5, <1>6, <1>7, <1>8, <1>9, <1>10, <1>11, <1>12 DEF HandlerStep

LEMMA WorkerKeepsPermit ==
  ASSUME PermitInv, NEW r \in Requests, WorkerStep(r)
  PROVE  PermitInv'
<1> USE DEF Places, Stages, Stage, Conserved, Locked, Settled, PermitInv, HandlerPCs, WorkerPCs, ActivePCs, HeldPCs, LockedPCs
<1>1. CASE StartEvent(r)
  BY <1>1 DEF StartEvent, Worker, WorkerOnly, requestVars
<1>2. CASE Generate(r)
  BY <1>2 DEF Generate, Worker, WorkerOnly, requestVars
<1>3. CASE LockRuntime(r)
  BY <1>3, FreeIsNobody DEF LockRuntime, Worker, WorkerOnly, requestVars
<1>4. CASE NextToken(r)
  BY <1>4 DEF NextToken, Worker, WorkerOnly, requestVars, Unlock
<1>5. CASE EmitPiece(r)
  BY <1>5 DEF EmitPiece, Worker, WorkerOnly, requestVars, Unlock
<1>6. CASE Panic(r)
  BY <1>6 DEF Panic, Worker, WorkerOnly, requestVars, Unlock
<1>7. CASE AfterTokens(r)
  BY <1>7 DEF AfterTokens, Worker, WorkerOnly, requestVars, Unlock
<1>8. CASE Flush(r)
  BY <1>8 DEF Flush, Worker, WorkerOnly, requestVars, Unlock
<1>9. CASE Finish(r)
  BY <1>9 DEF Finish, Worker, channelVars, requestVars
<1>10. CASE Fail(r)
  BY <1>10 DEF Fail, Worker, WorkerOnly, requestVars
<1>11. CASE Tell(r)
  BY <1>11 DEF Tell, Worker, WorkerOnly, requestVars
<1>12. CASE RunJob(r)
  BY <1>12 DEF RunJob, Worker, WorkerOnly, requestVars
<1>13. CASE WorkerEnds(r)
  <2> USE DEF WorkerEnds, Worker, ReleasePermit, requestVars
  <2>1. holding[r] # "no" => permits = 0
    OBVIOUS
  <2>2. Places' /\ Stages' /\ Locked'
    <3>1. CASE wpc[r] = "release"
      <4>1. permits' = 1 /\ holding[r] = "worker"
        BY <1>13, <3>1, <2>1
      <4>2. QED BY <1>13, <3>1, <4>1
    <3>2. CASE wpc[r] = "closing"
      <4>1. /\ wpc' = [wpc EXCEPT ![r] = "exited"] /\ txOpen' = [txOpen EXCEPT ![r] = FALSE]
            /\ UNCHANGED <<hpc, holding, permits, answer, lock>>
        BY <1>13, <3>2
      <4>2. Places' /\ Locked'
        BY <3>2, <4>1
      <4>3. Stages'
        BY <3>2, <4>1
      <4>4. QED BY <4>2, <4>3
    <3>3. QED BY <1>13, <3>1, <3>2
  <2>3. Conserved' /\ Settled'
    <3>1. CASE wpc[r] = "release"
      <4>1. permits' = 1 /\ holding' = [holding EXCEPT ![r] = "no"] /\ UNCHANGED answer
        BY <1>13, <3>1, <2>1
      <4>2. \A s \in Requests : holding'[s] = "no"
        BY <3>1, <4>1
      <4>3. QED BY <4>1, <4>2
    <3>2. CASE wpc[r] = "closing"
      BY <1>13, <3>2
    <3>3. QED BY <1>13, <3>1, <3>2
  <2>4. QED BY <2>2, <2>3
<1>14. QED BY <1>1, <1>2, <1>3, <1>4, <1>5, <1>6, <1>7, <1>8, <1>9, <1>10, <1>11, <1>12, <1>13 DEF WorkerStep

LEMMA DisconnectKeepsPermit ==
  ASSUME PermitInv, NEW r \in Requests, Disconnect(r)
  PROVE  PermitInv'
  BY DEF Places, Stages, Stage, Conserved, Locked, Settled, PermitInv, HandlerPCs, WorkerPCs, ActivePCs, HeldPCs, LockedPCs, Disconnect, ReleasePermit, Answer, Is, workerVars

LEMMA NextPermitInv ==
  ASSUME PermitInv, [Next]_vars
  PROVE  PermitInv'
<1> USE DEF PermitInv
<1>1. CASE \E r \in Requests : HandlerStep(r) \/ WorkerStep(r) \/ Disconnect(r)
  BY <1>1, HandlerKeepsPermit, WorkerKeepsPermit, DisconnectKeepsPermit
<1>2. CASE OtherStoreUse
  BY <1>2 DEF Places, Stages, Stage, Conserved, Locked, Settled, PermitInv, OtherStoreUse, serverVars, channelVars, requestVars
<1>3. CASE UNCHANGED vars
  BY <1>3 DEF Places, Stages, Stage, Conserved, Locked, Settled, PermitInv, vars, serverVars, channelVars, requestVars
<1>4. QED BY <1>1, <1>2, <1>3 DEF Next

THEOREM PermitInvariant == Spec => []PermitInv
<1>1. Init => PermitInv
  BY InitPermitInv
<1>2. PermitInv /\ [Next]_vars => PermitInv'
  BY NextPermitInv
<1>3. QED BY <1>1, <1>2, PTL DEF Spec

-----------------------------------------------------------------------------
(* The properties *)

\* "One active generation": two requests never own the permit, a worker that
\* is generating owns it, and it is neither lost nor made twice.
THEOREM PermitConserved == Spec => []OneGeneration
<1>1. PermitInv => OneGeneration
  BY DEF PermitInv, Places, Stages, Stage, Conserved, Locked, OneGeneration, Active,
         HeldPCs, LockedPCs, ActivePCs
<1>2. QED BY <1>1, PermitInvariant, PTL

\* A client that has its answer or the end of its stream has given the permit back.
THEOREM AnswerFrees == Spec => []AnsweredMeansFree
<1>1. PermitInv => AnsweredMeansFree
  BY DEF PermitInv, Settled, AnsweredMeansFree
<1>2. QED BY <1>1, PermitInvariant, PTL

-----------------------------------------------------------------------------
(* What clients are told.  The invariant follows an outcome: decided once, *)
(* sent last, read last.                                                   *)

Shapes ==
  /\ want \in [Requests -> Wants]
  /\ rxOpen \in [Requests -> BOOLEAN]
  /\ chan \in [Requests -> Seq(Events)]
  /\ got \in [Requests -> Events \union {"nothing"}]
  /\ outcome \in [Requests -> {"none", "done", "failed", "panic"}]
  /\ inserted \subseteq Requests

AfterPCs == {"release", "closing", "exited"}
Ends == {"done", "failed"}

\* Which kinds of request are where.
Kinds(r) ==
  /\ hpc[r] \in {"slot", "prompt"} => ~Is(r, "jev")
  /\ hpc[r] = "scoring" => Is(r, "jev")
  /\ hpc[r] = "prompt" => ~Is(r, "job")
  /\ hpc[r] = "stream" => Is(r, "stream") /\ rxOpen[r]
  /\ hpc[r] = "await" => ~Is(r, "stream")
  /\ Is(r, "jev") => wpc[r] = "none"
  /\ wpc[r] = "job" => Is(r, "job")
  /\ wpc[r] \in ActivePCs \ {"job"} => want[r].kind \in {"stream", "plain"}
  /\ wpc[r] = "start" => Is(r, "stream")

\* The worker decides once, and what it keeps is what it calls done.
Decided(r) ==
  /\ wpc[r] \notin AfterPCs \union {"tell"} => outcome[r] = "none"
  /\ wpc[r] = "tell" => outcome[r] \in Ends
  /\ r \in inserted <=> outcome[r] = "done" /\ Kept(r)

\* The outcome is the last thing in the channel, and the last thing read.
Sent(r) ==
  /\ ~Is(r, "stream") => chan[r] = <<>> /\ got[r] = "nothing"
  /\ \A i \in 1 .. Len(chan[r]) :
       chan[r][i] \in Ends =>
         i = Len(chan[r]) /\ chan[r][i] = outcome[r] /\ wpc[r] \in AfterPCs
  /\ got[r] \in Ends =>
       chan[r] = <<>> /\ got[r] = outcome[r] /\ wpc[r] \in AfterPCs
  /\ hpc[r] = "stream" /\ wpc[r] \in AfterPCs /\ outcome[r] # "panic" =>
       \/ chan[r] # <<>> /\ chan[r][Len(chan[r])] = outcome[r]
       \/ chan[r] = <<>> /\ got[r] = outcome[r]

\* An answer is given when the worker is gone, and is its outcome.
Answered(r) ==
  /\ answer[r] = "ended" =>
       wpc[r] = "exited" /\ (outcome[r] # "panic" => got[r] = outcome[r])
  /\ answer[r] \in Ends /\ ~Is(r, "jev") => wpc[r] = "exited"
  /\ answer[r] = "done" => Is(r, "jev") \/ outcome[r] = "done"
  /\ answer[r] = "failed" => outcome[r] # "done"

OutcomeInv ==
  /\ Shapes
  /\ \A r \in Requests : Kinds(r) /\ Decided(r) /\ Sent(r) /\ Answered(r)

-----------------------------------------------------------------------------
(* Every step preserves it, too *)

\* At the start no request has begun: nothing is decided, sent or answered.
LEMMA InitOutcomeInv == Init => OutcomeInv
  BY DEF Init, StoreInit, Is, OutcomeInv, Shapes, Kinds, Decided, Sent, Answered,
     AfterPCs, Ends,
         ActivePCs, Events, Kept

\* Nothing but the steps of r touches what is known of r.
LEMMA FrameOutcome ==
  ASSUME NEW r \in Requests,
         UNCHANGED <<want[r], hpc[r], wpc[r], rxOpen[r], chan[r], got[r], outcome[r], answer[r]>>,
         r \in inserted' <=> r \in inserted,
         Kinds(r), Decided(r), Sent(r), Answered(r)
  PROVE  Kinds(r)' /\ Decided(r)' /\ Sent(r)' /\ Answered(r)'
  BY DEF Kinds, Decided, Sent, Answered, Kept, Is

\* A step of r: what it leaves alone in the others.
Others(r) ==
  \A s \in Requests \ {r} :
    /\ UNCHANGED <<want[s], hpc[s], wpc[s], rxOpen[s], chan[s], got[s], outcome[s], answer[s]>>
    /\ s \in inserted' <=> s \in inserted

\* A step of r that leaves the others alone has only to keep what holds of r.
LEMMA StepOutcome ==
  ASSUME OutcomeInv, NEW r \in Requests, Others(r), Shapes',
         Kinds(r)', Decided(r)', Sent(r)', Answered(r)'
  PROVE  OutcomeInv'
  BY FrameOutcome DEF OutcomeInv, Others

\* What the invariants say of r.
Local(r) ==
  /\ hpc \in [Requests -> HandlerPCs] /\ wpc \in [Requests -> WorkerPCs]
  /\ answer \in [Requests -> {"none", "404", "429", "error", "left", "ended", "done", "failed"}]
  /\ Stage(r) /\ Shapes /\ Kinds(r) /\ Decided(r) /\ Sent(r) /\ Answered(r)

\* The two invariants say all of that, of every request.
LEMMA LocalFacts ==
  ASSUME PermitInv, OutcomeInv, NEW r \in Requests
  PROVE  Local(r)
  BY DEF PermitInv, Places, Stages, OutcomeInv, Local

\* An event is put behind the others, none of which is final.
LEMMA AppendEvent ==
  ASSUME NEW r \in Requests, NEW e \in Events, Shapes, Sent(r),
         wpc[r] \notin AfterPCs, chan' = [chan EXCEPT ![r] = Append(@, e)]
  PROVE  /\ chan' \in [Requests -> Seq(Events)]
         /\ \A s \in Requests \ {r} : chan'[s] = chan[s]
         /\ chan'[r] # <<>> /\ chan'[r][Len(chan'[r])] = e
         /\ \A i \in 1 .. Len(chan'[r]) : chan'[r][i] \in Ends => i = Len(chan'[r])
<1> USE DEF Shapes
<1>1. chan[r] \in Seq(Events) /\ chan'[r] = Append(chan[r], e)
  OBVIOUS
<1>2. /\ Append(chan[r], e) \in Seq(Events)
      /\ Len(Append(chan[r], e)) = Len(chan[r]) + 1
      /\ Append(chan[r], e)[Len(chan[r]) + 1] = e
      /\ \A i \in 1 .. Len(chan[r]) : Append(chan[r], e)[i] = chan[r][i]
  BY <1>1
<1>3. \A i \in 1 .. Len(chan[r]) : chan[r][i] \notin Ends
  BY DEF Sent
<1>4. Len(chan[r]) \in Nat
  BY <1>1
<1>5. chan' \in [Requests -> Seq(Events)] /\ \A s \in Requests \ {r} : chan'[s] = chan[s]
  BY <1>1, <1>2
<1>6. chan'[r] # <<>>
  BY <1>1, <1>2, <1>4, EmptySeq
<1>7. chan'[r][Len(chan'[r])] = e
  BY <1>1, <1>2
<1>8. \A i \in 1 .. Len(chan'[r]) : chan'[r][i] \in Ends => i = Len(chan'[r])
  BY <1>1, <1>2, <1>3, <1>4
<1>9. QED BY <1>5, <1>6, <1>7, <1>8

\* A client reads the first event: what it read before was not final.
LEMMA TakeEvent ==
  ASSUME NEW r \in Requests, Shapes, Sent(r), chan[r] # <<>>,
         chan' = [chan EXCEPT ![r] = Tail(@)]
  PROVE  /\ chan' \in [Requests -> Seq(Events)] /\ Head(chan[r]) \in Events
         /\ \A s \in Requests \ {r} : chan'[s] = chan[s]
         /\ \A i \in 1 .. Len(chan'[r]) :
              i + 1 \in 1 .. Len(chan[r]) /\ chan'[r][i] = chan[r][i + 1]
         /\ Len(chan[r]) = Len(chan'[r]) + 1 /\ Head(chan[r]) = chan[r][1]
         /\ chan'[r] = <<>> <=> Len(chan[r]) = 1
         /\ Len(chan'[r]) \in Nat /\ (chan'[r] # <<>> => Len(chan'[r]) > 0)
<1> USE DEF Shapes
<1>1. chan[r] \in Seq(Events) /\ chan'[r] = Tail(chan[r])
  OBVIOUS
<1>2. Len(chan[r]) \in Nat /\ Len(chan[r]) > 0
  BY <1>1
<1>3. /\ Tail(chan[r]) \in Seq(Events)
      /\ Len(Tail(chan[r])) = Len(chan[r]) - 1
      /\ \A i \in 1 .. Len(chan[r]) - 1 : Tail(chan[r])[i] = chan[r][i + 1]
  BY <1>1, <1>2
<1>4. Head(chan[r]) = chan[r][1] /\ chan[r][1] \in Events
  BY <1>1, <1>2
<1>5. chan' \in [Requests -> Seq(Events)] /\ \A s \in Requests \ {r} : chan'[s] = chan[s]
  BY <1>1, <1>3
<1>6. chan'[r] = <<>> <=> Len(chan[r]) = 1
  <2>1. chan'[r] \in Seq(Events) /\ Len(chan'[r]) = Len(chan[r]) - 1
    BY <1>1, <1>3
  <2>2. chan'[r] # <<>> => Len(chan'[r]) \in Nat \ {0}
    BY <2>1, EmptySeq
  <2>3. chan'[r] = <<>> => Len(chan'[r]) = 0
    BY EmptySeq
  <2>4. QED BY <1>2, <2>1, <2>2, <2>3
<1>7. Len(chan'[r]) = Len(chan[r]) - 1
  BY <1>1, <1>3
<1>8. \A i \in 1 .. Len(chan'[r]) :
        i + 1 \in 1 .. Len(chan[r]) /\ chan'[r][i] = chan[r][i + 1]
  BY <1>1, <1>2, <1>3
<1>9. QED BY <1>2, <1>4, <1>5, <1>6, <1>7, <1>8

\* A handler's step keeps it: it only reads the outcome, or answers.
LEMMA HandlerTells ==
  ASSUME PermitInv, OutcomeInv, NEW r \in Requests, HandlerStep(r)
  PROVE  OutcomeInv'
<1>0. Local(r)
  BY LocalFacts
<1> USE DEF Local, channelVars, requestVars, workerVars
<1>1. CASE Resolve(r)
  <2> USE DEF Resolve, CheckHistory, Handler, Answer
  <2>1. Shapes' /\ Others(r)
    BY <1>0, <1>1 DEF Shapes, Others, Events
  <2>2. Kinds(r)' /\ Decided(r)'
    BY <1>0, <1>1 DEF Stage, Shapes, Kinds, Decided, Is, Kept, Ends, AfterPCs, ActivePCs
  <2>3. Sent(r)' /\ Answered(r)'
    BY <1>0, <1>1 DEF Stage, Shapes, Kinds, Decided, Sent, Answered, Is, Ends, AfterPCs,
       ActivePCs, HeldPCs, Events
  <2>4. QED BY <2>1, <2>2, <2>3, StepOutcome
<1>2. CASE ArriveJob(r)
  <2> USE DEF ArriveJob, Handler
  <2>1. Shapes' /\ Others(r)
    BY <1>0, <1>2 DEF Shapes, Others, Events
  <2>2. Kinds(r)' /\ Decided(r)'
    BY <1>0, <1>2 DEF Stage, Shapes, Kinds, Decided, Is, Kept, Ends, AfterPCs, ActivePCs
  <2>3. Sent(r)' /\ Answered(r)'
    BY <1>0, <1>2 DEF Stage, Shapes, Kinds, Decided, Sent, Answered, Is, Ends, AfterPCs,
       ActivePCs, HeldPCs, Events
  <2>4. QED BY <2>1, <2>2, <2>3, StepOutcome
<1>3. CASE ArriveJev(r)
  <2> USE DEF ArriveJev, Handler
  <2>1. Shapes' /\ Others(r)
    BY <1>0, <1>3 DEF Shapes, Others, Events
  <2>2. Kinds(r)' /\ Decided(r)'
    BY <1>0, <1>3 DEF Stage, Shapes, Kinds, Decided, Is, Kept, Ends, AfterPCs, ActivePCs
  <2>3. Sent(r)' /\ Answered(r)'
    BY <1>0, <1>3 DEF Stage, Shapes, Kinds, Decided, Sent, Answered, Is, Ends, AfterPCs,
       ActivePCs, HeldPCs, Events
  <2>4. QED BY <2>1, <2>2, <2>3, StepOutcome
<1>4. CASE ScoreJev(r)
  <2> USE DEF ScoreJev, Handler, Answer
  <2>1. Shapes' /\ Others(r)
    BY <1>0, <1>4 DEF Shapes, Others, Events
  <2>2. Kinds(r)' /\ Decided(r)'
    BY <1>0, <1>4 DEF Stage, Shapes, Kinds, Decided, Is, Kept, Ends, AfterPCs, ActivePCs
  <2>3. Sent(r)' /\ Answered(r)'
    BY <1>0, <1>4 DEF Stage, Shapes, Kinds, Decided, Sent, Answered, Is, Ends, AfterPCs,
       ActivePCs, HeldPCs, Events
  <2>4. QED BY <2>1, <2>2, <2>3, StepOutcome
<1>5. CASE Acquire(r)
  <2> USE DEF Acquire, Handler
  <2>1. Shapes' /\ Others(r)
    BY <1>0, <1>5 DEF Shapes, Others, Events
  <2>2. Kinds(r)' /\ Decided(r)'
    BY <1>0, <1>5 DEF Stage, Shapes, Kinds, Decided, Is, Kept, Ends, AfterPCs, ActivePCs
  <2>3. Sent(r)' /\ Answered(r)'
    BY <1>0, <1>5 DEF Stage, Shapes, Kinds, Decided, Sent, Answered, Is, Ends, AfterPCs,
       ActivePCs, HeldPCs, Events
  <2>4. QED BY <2>1, <2>2, <2>3, StepOutcome
<1>6. CASE AcquireJob(r)
  <2> USE DEF AcquireJob, Handler, Worker
  <2>1. Shapes' /\ Others(r)
    BY <1>0, <1>6 DEF Shapes, Others, Events
  <2>2. Kinds(r)' /\ Decided(r)'
    BY <1>0, <1>6 DEF Stage, Shapes, Kinds, Decided, Is, Kept, Ends, AfterPCs, ActivePCs
  <2>3. Sent(r)' /\ Answered(r)'
    BY <1>0, <1>6 DEF Stage, Shapes, Kinds, Decided, Sent, Answered, Is, Ends, AfterPCs,
       ActivePCs, HeldPCs, Events
  <2>4. QED BY <2>1, <2>2, <2>3, StepOutcome
<1>7. CASE Refuse(r)
  <2> USE DEF Refuse, Handler, Answer
  <2>1. Shapes' /\ Others(r)
    BY <1>0, <1>7 DEF Shapes, Others, Events
  <2>2. Kinds(r)' /\ Decided(r)'
    BY <1>0, <1>7 DEF Stage, Shapes, Kinds, Decided, Is, Kept, Ends, AfterPCs, ActivePCs
  <2>3. Sent(r)' /\ Answered(r)'
    BY <1>0, <1>7 DEF Stage, Shapes, Kinds, Decided, Sent, Answered, Is, Ends, AfterPCs,
       ActivePCs, HeldPCs, Events
  <2>4. QED BY <2>1, <2>2, <2>3, StepOutcome
<1>8. CASE PromptFails(r)
  <2> USE DEF PromptFails, Handler, Answer
  <2>1. Shapes' /\ Others(r)
    BY <1>0, <1>8 DEF Shapes, Others, Events
  <2>2. Kinds(r)' /\ Decided(r)'
    BY <1>0, <1>8 DEF Stage, Shapes, Kinds, Decided, Is, Kept, Ends, AfterPCs, ActivePCs
  <2>3. Sent(r)' /\ Answered(r)'
    BY <1>0, <1>8 DEF Stage, Shapes, Kinds, Decided, Sent, Answered, Is, Ends, AfterPCs,
       ActivePCs, HeldPCs, Events
  <2>4. QED BY <2>1, <2>2, <2>3, StepOutcome
<1>9. CASE Spawn(r)
  <2> USE DEF Spawn, Handler, Worker
  <2>1. Shapes' /\ Others(r)
    BY <1>0, <1>9 DEF Shapes, Others, Events
  <2>2. Kinds(r)' /\ Decided(r)'
    BY <1>0, <1>9 DEF Stage, Shapes, Kinds, Decided, Is, Kept, Ends, AfterPCs, ActivePCs
  <2>3. Sent(r)' /\ Answered(r)'
    BY <1>0, <1>9 DEF Stage, Shapes, Kinds, Decided, Sent, Answered, Is, Ends, AfterPCs,
       ActivePCs, HeldPCs, Events
  <2>4. QED BY <2>1, <2>2, <2>3, StepOutcome
<1>10. CASE Receive(r)
  <2>1. /\ hpc[r] = "stream" /\ chan[r] # <<>>
        /\ got' = [got EXCEPT ![r] = Head(chan[r])]
        /\ chan' = [chan EXCEPT ![r] = Tail(@)]
        /\ UNCHANGED <<want, hpc, wpc, rxOpen, outcome, answer, inserted>>
    BY <1>10 DEF Receive
  <2> DEFINE before == chan[r]  after == chan'[r]
  <2>2. /\ chan' \in [Requests -> Seq(Events)] /\ before[1] \in Events
        /\ \A s \in Requests \ {r} : chan'[s] = chan[s]
        /\ \A i \in 1 .. Len(after) :
             i + 1 \in 1 .. Len(before) /\ after[i] = before[i + 1]
        /\ Len(before) = Len(after) + 1 /\ Head(before) = before[1]
        /\ after = <<>> <=> Len(before) = 1
        /\ Len(after) \in Nat /\ (after # <<>> => Len(after) > 0)
    BY <1>0, <2>1, TakeEvent
  <2>3. Shapes' /\ Others(r)
    BY <1>0, <2>1, <2>2 DEF Shapes, Others
  <2>4. got'[r] = before[1] /\ Is(r, "stream") /\ answer[r] = "none"
    BY <1>0, <2>1, <2>2 DEF Shapes, Kinds, Stage
  <2>5. Kinds(r)' /\ Decided(r)' /\ Answered(r)'
    BY <1>0, <2>1, <2>4 DEF Kinds, Decided, Answered, Is, Kept, Ends
  <2>6. Sent(r)'
    <3>1. \A i \in 1 .. Len(after) :
            after[i] \in Ends => i = Len(after) /\ after[i] = outcome[r] /\ wpc[r] \in AfterPCs
      BY <1>0, <2>2 DEF Sent
    <3>2. got'[r] \in Ends =>
            after = <<>> /\ got'[r] = outcome[r] /\ wpc[r] \in AfterPCs
      <4>1. 1 \in 1 .. Len(before)
        BY <2>2
      <4>2. before[1] \in Ends =>
              1 = Len(before) /\ before[1] = outcome[r] /\ wpc[r] \in AfterPCs
        BY <1>0, <4>1 DEF Sent
      <4>3. QED BY <2>2, <2>4, <4>2
    <3>3. wpc[r] \in AfterPCs /\ outcome[r] # "panic" =>
            \/ after # <<>> /\ after[Len(after)] = outcome[r]
            \/ after = <<>> /\ got'[r] = outcome[r]
      <4>1. wpc[r] \in AfterPCs /\ outcome[r] # "panic" => before[Len(before)] = outcome[r]
        BY <1>0, <2>1 DEF Sent
      <4>2. CASE after = <<>>
        BY <2>2, <2>4, <4>1, <4>2
      <4>3. CASE after # <<>>
        <5>1. Len(after) \in 1 .. Len(after) /\ Len(after) + 1 = Len(before)
          BY <2>2, <4>3
        <5>2. after[Len(after)] = before[Len(before)]
          BY <2>2, <5>1
        <5>3. QED BY <4>1, <4>3, <5>2
      <4>4. QED BY <4>2, <4>3
    <3>4. QED BY <2>1, <2>4, <3>1, <3>2, <3>3 DEF Sent, Is
  <2>7. QED BY <2>3, <2>5, <2>6, StepOutcome
<1>11. CASE EndOfStream(r)
  <2> USE DEF EndOfStream, Handler, Answer
  <2>1. Shapes' /\ Others(r)
    BY <1>0, <1>11 DEF Shapes, Others, Events
  <2>2. Kinds(r)' /\ Decided(r)'
    BY <1>0, <1>11 DEF Stage, Shapes, Kinds, Decided, Is, Kept, Ends, AfterPCs, ActivePCs
  <2>3. Sent(r)' /\ Answered(r)'
    BY <1>0, <1>11 DEF Stage, Shapes, Kinds, Decided, Sent, Answered, Is, Ends,
       AfterPCs, ActivePCs, HeldPCs, Events
  <2>4. QED BY <2>1, <2>2, <2>3, StepOutcome
<1>12. CASE Reply(r)
  <2> USE DEF Reply, Handler, Answer
  <2>1. Shapes' /\ Others(r)
    BY <1>0, <1>12 DEF Shapes, Others, Events
  <2>2. Kinds(r)' /\ Decided(r)'
    BY <1>0, <1>12 DEF Stage, Shapes, Kinds, Decided, Is, Kept, Ends, AfterPCs, ActivePCs
  <2>3. Sent(r)' /\ Answered(r)'
    BY <1>0, <1>12 DEF Stage, Shapes, Kinds, Decided, Sent, Answered, Is, Ends,
       AfterPCs, ActivePCs, HeldPCs, Events
  <2>4. QED BY <2>1, <2>2, <2>3, StepOutcome
<1>13. QED BY <1>1, <1>2, <1>3, <1>4, <1>5, <1>6, <1>7, <1>8, <1>9, <1>10, <1>11, <1>12
   DEF HandlerStep

\* A worker's step keeps it: it decides once, stores before it tells, and tells last.
LEMMA WorkerTells ==
  ASSUME PermitInv, OutcomeInv, NEW r \in Requests, WorkerStep(r)
  PROVE  OutcomeInv'
<1>0. Local(r)
  BY LocalFacts
<1> USE DEF Local, channelVars, requestVars, workerVars
<1>1. CASE StartEvent(r)
  <2>1. UNCHANGED <<want, hpc, rxOpen, got, outcome, answer, inserted>>
    BY <1>1 DEF StartEvent, WorkerOnly
  <2>2. wpc[r] \notin AfterPCs /\ "start" \in Events
    BY <1>0, <1>1 DEF StartEvent, Worker, AfterPCs, Events, Decided, Ends
  <2>3. CASE Is(r, "stream") /\ chan' = [chan EXCEPT ![r] = Append(@, "start")]
             /\ rxOpen[r] /\ wpc' = [wpc EXCEPT ![r] = "generate"] /\ wpc[r] \in ActivePCs \ {"job"}
             /\ (wpc[r] = "tell" <=> "generate" = "release")
    <3>1. /\ chan' \in [Requests -> Seq(Events)]
          /\ \A s \in Requests \ {r} : chan'[s] = chan[s]
          /\ chan'[r] # <<>> /\ chan'[r][Len(chan'[r])] = "start"
          /\ \A i \in 1 .. Len(chan'[r]) : chan'[r][i] \in Ends => i = Len(chan'[r])
      BY <1>0, <2>2, <2>3, AppendEvent
    <3>2. Shapes' /\ Others(r)
      BY <1>0, <2>1, <2>3, <3>1 DEF Shapes, Others
    <3>3. Kinds(r)' /\ Decided(r)' /\ Answered(r)'
      BY <1>0, <2>1, <2>2, <2>3 DEF Kinds, Decided, Answered, Is, Kept, ActivePCs,
         AfterPCs, Ends
    <3>4. Sent(r)'
      BY <1>0, <2>1, <2>2, <2>3, <3>1 DEF Sent, Decided, Is, Ends, AfterPCs
    <3>5. QED BY <3>2, <3>3, <3>4, StepOutcome
  <2>4. CASE UNCHANGED chan
    <3> USE DEF StartEvent, Worker, WorkerOnly, Send, SendFails
    <3>1. Shapes' /\ Others(r)
      BY <1>0, <1>1, <2>1, <2>4 DEF Shapes, Others
    <3>2. Kinds(r)' /\ Decided(r)'
      BY <1>0, <1>1, <2>1, <2>4 DEF Stage, Kinds, Decided, Is, Kept, Ends, AfterPCs,
         ActivePCs
    <3>3. Sent(r)' /\ Answered(r)'
      BY <1>0, <1>1, <2>1, <2>4 DEF Stage, Shapes, Kinds, Decided, Sent, Answered, Is,
         Ends, AfterPCs, ActivePCs, HeldPCs, Events
    <3>4. QED BY <3>1, <3>2, <3>3, StepOutcome
  <2>5. QED BY <1>1, <2>3, <2>4 DEF StartEvent, Worker, WorkerOnly, Send, SendFails,
     ActivePCs
<1>2. CASE Generate(r)
  <2> USE DEF Generate, Worker, WorkerOnly
  <2>1. Shapes' /\ Others(r)
    BY <1>0, <1>2 DEF Shapes, Others, Events
  <2>2. Kinds(r)' /\ Decided(r)'
    BY <1>0, <1>2 DEF Stage, Shapes, Kinds, Decided, Is, Kept, Ends, AfterPCs, ActivePCs
  <2>3. Sent(r)' /\ Answered(r)'
    BY <1>0, <1>2 DEF Stage, Shapes, Kinds, Decided, Sent, Answered, Is, Ends, AfterPCs,
       ActivePCs, HeldPCs, Events
  <2>4. QED BY <2>1, <2>2, <2>3, StepOutcome
<1>3. CASE LockRuntime(r)
  <2> USE DEF LockRuntime, Worker, WorkerOnly
  <2>1. Shapes' /\ Others(r)
    BY <1>0, <1>3 DEF Shapes, Others, Events
  <2>2. Kinds(r)' /\ Decided(r)'
    BY <1>0, <1>3 DEF Stage, Shapes, Kinds, Decided, Is, Kept, Ends, AfterPCs, ActivePCs
  <2>3. Sent(r)' /\ Answered(r)'
    BY <1>0, <1>3 DEF Stage, Shapes, Kinds, Decided, Sent, Answered, Is, Ends, AfterPCs,
       ActivePCs, HeldPCs, Events
  <2>4. QED BY <2>1, <2>2, <2>3, StepOutcome
<1>4. CASE NextToken(r)
  <2> USE DEF NextToken, Worker, WorkerOnly
  <2>1. Shapes' /\ Others(r)
    BY <1>0, <1>4 DEF Shapes, Others, Events
  <2>2. Kinds(r)' /\ Decided(r)'
    BY <1>0, <1>4 DEF Stage, Shapes, Kinds, Decided, Is, Kept, Ends, AfterPCs, ActivePCs
  <2>3. Sent(r)' /\ Answered(r)'
    BY <1>0, <1>4 DEF Stage, Shapes, Kinds, Decided, Sent, Answered, Is, Ends, AfterPCs,
       ActivePCs, HeldPCs, Events
  <2>4. QED BY <2>1, <2>2, <2>3, StepOutcome
<1>5. CASE EmitPiece(r)
  <2>1. UNCHANGED <<want, hpc, rxOpen, got, outcome, answer, inserted>>
    BY <1>5 DEF EmitPiece, WorkerOnly
  <2>2. wpc[r] \notin AfterPCs /\ "delta" \in Events
    BY <1>0, <1>5 DEF EmitPiece, Worker, AfterPCs, Events, Decided, Ends
  <2>3. CASE Is(r, "stream") /\ chan' = [chan EXCEPT ![r] = Append(@, "delta")]
             /\ rxOpen[r] /\ wpc' = [wpc EXCEPT ![r] = "token"] /\ wpc[r] \in ActivePCs \ {"job"}
             /\ (wpc[r] = "tell" <=> "token" = "release")
    <3>1. /\ chan' \in [Requests -> Seq(Events)]
          /\ \A s \in Requests \ {r} : chan'[s] = chan[s]
          /\ chan'[r] # <<>> /\ chan'[r][Len(chan'[r])] = "delta"
          /\ \A i \in 1 .. Len(chan'[r]) : chan'[r][i] \in Ends => i = Len(chan'[r])
      BY <1>0, <2>2, <2>3, AppendEvent
    <3>2. Shapes' /\ Others(r)
      BY <1>0, <2>1, <2>3, <3>1 DEF Shapes, Others
    <3>3. Kinds(r)' /\ Decided(r)' /\ Answered(r)'
      BY <1>0, <2>1, <2>2, <2>3 DEF Kinds, Decided, Answered, Is, Kept, ActivePCs,
         AfterPCs, Ends
    <3>4. Sent(r)'
      BY <1>0, <2>1, <2>2, <2>3, <3>1 DEF Sent, Decided, Is, Ends, AfterPCs
    <3>5. QED BY <3>2, <3>3, <3>4, StepOutcome
  <2>4. CASE UNCHANGED chan
    <3> USE DEF EmitPiece, Worker, WorkerOnly, Send, SendFails
    <3>1. Shapes' /\ Others(r)
      BY <1>0, <1>5, <2>1, <2>4 DEF Shapes, Others
    <3>2. Kinds(r)' /\ Decided(r)'
      BY <1>0, <1>5, <2>1, <2>4 DEF Stage, Kinds, Decided, Is, Kept, Ends, AfterPCs,
         ActivePCs
    <3>3. Sent(r)' /\ Answered(r)'
      BY <1>0, <1>5, <2>1, <2>4 DEF Stage, Shapes, Kinds, Decided, Sent, Answered, Is,
         Ends, AfterPCs, ActivePCs, HeldPCs, Events
    <3>4. QED BY <3>1, <3>2, <3>3, StepOutcome
  <2>5. QED BY <1>5, <2>3, <2>4 DEF EmitPiece, Worker, WorkerOnly, Send, SendFails,
     ActivePCs
<1>6. CASE Panic(r)
  <2> USE DEF Panic, Worker, WorkerOnly
  <2>1. Shapes' /\ Others(r)
    BY <1>0, <1>6 DEF Shapes, Others, Events
  <2>2. Kinds(r)' /\ Decided(r)'
    BY <1>0, <1>6 DEF Stage, Shapes, Kinds, Decided, Is, Kept, Ends, AfterPCs, ActivePCs
  <2>3. Sent(r)' /\ Answered(r)'
    BY <1>0, <1>6 DEF Stage, Shapes, Kinds, Decided, Sent, Answered, Is, Ends, AfterPCs,
       ActivePCs, HeldPCs, Events
  <2>4. QED BY <2>1, <2>2, <2>3, StepOutcome
<1>7. CASE AfterTokens(r)
  <2> USE DEF AfterTokens, Worker, WorkerOnly
  <2>1. Shapes' /\ Others(r)
    BY <1>0, <1>7 DEF Shapes, Others, Events
  <2>2. Kinds(r)' /\ Decided(r)'
    BY <1>0, <1>7 DEF Stage, Shapes, Kinds, Decided, Is, Kept, Ends, AfterPCs, ActivePCs
  <2>3. Sent(r)' /\ Answered(r)'
    BY <1>0, <1>7 DEF Stage, Shapes, Kinds, Decided, Sent, Answered, Is, Ends, AfterPCs,
       ActivePCs, HeldPCs, Events
  <2>4. QED BY <2>1, <2>2, <2>3, StepOutcome
<1>8. CASE Flush(r)
  <2>1. UNCHANGED <<want, hpc, rxOpen, got, outcome, answer, inserted>>
    BY <1>8 DEF Flush, WorkerOnly
  <2>2. wpc[r] \notin AfterPCs /\ "delta" \in Events
    BY <1>0, <1>8 DEF Flush, Worker, AfterPCs, Events, Decided, Ends
  <2>3. CASE Is(r, "stream") /\ chan' = [chan EXCEPT ![r] = Append(@, "delta")]
             /\ rxOpen[r] /\ wpc' = [wpc EXCEPT ![r] = "finish"] /\ wpc[r] \in ActivePCs \ {"job"}
             /\ (wpc[r] = "tell" <=> "finish" = "release")
    <3>1. /\ chan' \in [Requests -> Seq(Events)]
          /\ \A s \in Requests \ {r} : chan'[s] = chan[s]
          /\ chan'[r] # <<>> /\ chan'[r][Len(chan'[r])] = "delta"
          /\ \A i \in 1 .. Len(chan'[r]) : chan'[r][i] \in Ends => i = Len(chan'[r])
      BY <1>0, <2>2, <2>3, AppendEvent
    <3>2. Shapes' /\ Others(r)
      BY <1>0, <2>1, <2>3, <3>1 DEF Shapes, Others
    <3>3. Kinds(r)' /\ Decided(r)' /\ Answered(r)'
      BY <1>0, <2>1, <2>2, <2>3 DEF Kinds, Decided, Answered, Is, Kept, ActivePCs,
         AfterPCs, Ends
    <3>4. Sent(r)'
      BY <1>0, <2>1, <2>2, <2>3, <3>1 DEF Sent, Decided, Is, Ends, AfterPCs
    <3>5. QED BY <3>2, <3>3, <3>4, StepOutcome
  <2>4. CASE UNCHANGED chan
    <3> USE DEF Flush, Worker, WorkerOnly, Send, SendFails
    <3>1. Shapes' /\ Others(r)
      BY <1>0, <1>8, <2>1, <2>4 DEF Shapes, Others
    <3>2. Kinds(r)' /\ Decided(r)'
      BY <1>0, <1>8, <2>1, <2>4 DEF Stage, Kinds, Decided, Is, Kept, Ends, AfterPCs,
         ActivePCs
    <3>3. Sent(r)' /\ Answered(r)'
      BY <1>0, <1>8, <2>1, <2>4 DEF Stage, Shapes, Kinds, Decided, Sent, Answered, Is,
         Ends, AfterPCs, ActivePCs, HeldPCs, Events
    <3>4. QED BY <3>1, <3>2, <3>3, StepOutcome
  <2>5. QED BY <1>8, <2>3, <2>4 DEF Flush, Worker, WorkerOnly, Send, SendFails, ActivePCs
<1>9. CASE Finish(r)
  <2> USE DEF Finish, Worker, Decide
  <2>1. Shapes' /\ Others(r)
    BY <1>0, <1>9 DEF Shapes, Others, Events
  <2>2. Kinds(r)' /\ Decided(r)'
    BY <1>0, <1>9 DEF Stage, Shapes, Kinds, Decided, Is, Kept, Ends, AfterPCs, ActivePCs
  <2>3. Sent(r)' /\ Answered(r)'
    BY <1>0, <1>9 DEF Stage, Shapes, Kinds, Decided, Sent, Answered, Is, Ends, AfterPCs,
       ActivePCs, HeldPCs, Events
  <2>4. QED BY <2>1, <2>2, <2>3, StepOutcome
<1>10. CASE Fail(r)
  <2> USE DEF Fail, Worker, WorkerOnly, Decide
  <2>1. Shapes' /\ Others(r)
    BY <1>0, <1>10 DEF Shapes, Others, Events
  <2>2. Kinds(r)' /\ Decided(r)'
    BY <1>0, <1>10 DEF Stage, Shapes, Kinds, Decided, Is, Kept, Ends, AfterPCs, ActivePCs
  <2>3. Sent(r)' /\ Answered(r)'
    BY <1>0, <1>10 DEF Stage, Shapes, Kinds, Decided, Sent, Answered, Is, Ends,
       AfterPCs, ActivePCs, HeldPCs, Events
  <2>4. QED BY <2>1, <2>2, <2>3, StepOutcome
<1>11. CASE Tell(r)
  <2>1. UNCHANGED <<want, hpc, rxOpen, got, outcome, answer, inserted>>
    BY <1>11 DEF Tell, WorkerOnly
  <2>2. wpc[r] \notin AfterPCs /\ outcome[r] \in Events
    BY <1>0, <1>11 DEF Tell, Worker, AfterPCs, Events, Decided, Ends
  <2>3. CASE Is(r, "stream") /\ chan' = [chan EXCEPT ![r] = Append(@, outcome[r])]
             /\ rxOpen[r] /\ wpc' = [wpc EXCEPT ![r] = "release"] /\ wpc[r] \in ActivePCs \ {"job"}
             /\ (wpc[r] = "tell" <=> "release" = "release")
    <3>1. /\ chan' \in [Requests -> Seq(Events)]
          /\ \A s \in Requests \ {r} : chan'[s] = chan[s]
          /\ chan'[r] # <<>> /\ chan'[r][Len(chan'[r])] = outcome[r]
          /\ \A i \in 1 .. Len(chan'[r]) : chan'[r][i] \in Ends => i = Len(chan'[r])
      BY <1>0, <2>2, <2>3, AppendEvent
    <3>2. Shapes' /\ Others(r)
      BY <1>0, <2>1, <2>3, <3>1 DEF Shapes, Others
    <3>3. Kinds(r)' /\ Decided(r)' /\ Answered(r)'
      BY <1>0, <2>1, <2>2, <2>3 DEF Kinds, Decided, Answered, Is, Kept, ActivePCs,
         AfterPCs, Ends
    <3>4. Sent(r)'
      BY <1>0, <2>1, <2>2, <2>3, <3>1 DEF Sent, Decided, Is, Ends, AfterPCs
    <3>5. QED BY <3>2, <3>3, <3>4, StepOutcome
  <2>4. CASE UNCHANGED chan
    <3> USE DEF Tell, Worker, WorkerOnly, Send, SendFails
    <3>1. Shapes' /\ Others(r)
      BY <1>0, <1>11, <2>1, <2>4 DEF Shapes, Others
    <3>2. Kinds(r)' /\ Decided(r)'
      BY <1>0, <1>11, <2>1, <2>4 DEF Stage, Kinds, Decided, Is, Kept, Ends, AfterPCs,
         ActivePCs
    <3>3. Sent(r)' /\ Answered(r)'
      BY <1>0, <1>11, <2>1, <2>4 DEF Stage, Shapes, Kinds, Decided, Sent, Answered, Is,
         Ends, AfterPCs, ActivePCs, HeldPCs, Events
    <3>4. QED BY <3>1, <3>2, <3>3, StepOutcome
  <2>5. QED BY <1>11, <2>3, <2>4 DEF Tell, Worker, WorkerOnly, Send, SendFails, ActivePCs
<1>12. CASE RunJob(r)
  <2> USE DEF RunJob, Worker, WorkerOnly, Decide
  <2>1. Shapes' /\ Others(r)
    BY <1>0, <1>12 DEF Shapes, Others, Events
  <2>2. Kinds(r)' /\ Decided(r)'
    BY <1>0, <1>12 DEF Stage, Shapes, Kinds, Decided, Is, Kept, Ends, AfterPCs, ActivePCs
  <2>3. Sent(r)' /\ Answered(r)'
    BY <1>0, <1>12 DEF Stage, Shapes, Kinds, Decided, Sent, Answered, Is, Ends,
       AfterPCs, ActivePCs, HeldPCs, Events
  <2>4. QED BY <2>1, <2>2, <2>3, StepOutcome
<1>13. CASE WorkerEnds(r)
  <2> USE DEF WorkerEnds, Worker
  <2>1. Shapes' /\ Others(r)
    BY <1>0, <1>13 DEF Shapes, Others, Events
  <2>2. Kinds(r)' /\ Decided(r)'
    BY <1>0, <1>13 DEF Stage, Shapes, Kinds, Decided, Is, Kept, Ends, AfterPCs, ActivePCs
  <2>3. Sent(r)' /\ Answered(r)'
    BY <1>0, <1>13 DEF Stage, Shapes, Kinds, Decided, Sent, Answered, Is, Ends,
       AfterPCs, ActivePCs, HeldPCs, Events
  <2>4. QED BY <2>1, <2>2, <2>3, StepOutcome
<1>14. QED BY <1>1, <1>2, <1>3, <1>4, <1>5, <1>6, <1>7, <1>8, <1>9, <1>10, <1>11, <1>12,
   <1>13 DEF WorkerStep

\* A client that leaves closes its channel and nothing else.
LEMMA DisconnectTells ==
  ASSUME PermitInv, OutcomeInv, NEW r \in Requests, Disconnect(r)
  PROVE  OutcomeInv'
<1>0. Local(r)
  BY LocalFacts
<1> USE DEF Local, Disconnect, Answer, workerVars
<1>1. Shapes' /\ Others(r)
  BY <1>0 DEF Shapes, Others
<1>2. Kinds(r)' /\ Decided(r)'
  BY <1>0 DEF Kinds, Decided, Is, Kept
<1>3. Sent(r)' /\ Answered(r)'
  BY <1>0 DEF Shapes, Stage, Kinds, Decided, Sent, Answered, Is, Ends, AfterPCs
<1>4. QED BY <1>1, <1>2, <1>3, StepOutcome

\* Every step keeps it.
LEMMA NextOutcomeInv ==
  ASSUME PermitInv, OutcomeInv, [Next]_vars
  PROVE  OutcomeInv'
<1>1. CASE \E r \in Requests : HandlerStep(r) \/ WorkerStep(r) \/ Disconnect(r)
  BY <1>1, HandlerTells, WorkerTells, DisconnectTells
<1>2. CASE OtherStoreUse \/ UNCHANGED vars
  <2>1. UNCHANGED <<want, hpc, wpc, rxOpen, chan, got, outcome, answer, inserted>>
    BY <1>2 DEF OtherStoreUse, vars, channelVars, requestVars, workerVars
  <2>2. Shapes'
    BY <2>1 DEF OutcomeInv, Shapes
  <2>3. \A r \in Requests : Kinds(r)' /\ Decided(r)' /\ Sent(r)' /\ Answered(r)'
    BY <2>1, FrameOutcome DEF OutcomeInv
  <2>4. QED BY <2>2, <2>3 DEF OutcomeInv
<1>3. QED BY <1>1, <1>2 DEF Next

\* Where each request is determines what has been decided, stored, sent and answered
\* for it, in every reachable state.
THEOREM OutcomeInvariant == Spec => [](PermitInv /\ OutcomeInv)
<1>1. Init => PermitInv /\ OutcomeInv
  BY InitPermitInv, InitOutcomeInv
<1>2. PermitInv /\ OutcomeInv /\ [Next]_vars => PermitInv' /\ OutcomeInv'
  BY NextPermitInv, NextOutcomeInv
<1>3. QED BY <1>1, <1>2, PTL DEF Spec

-----------------------------------------------------------------------------
(* The properties *)

\* What a client is told and what the store has agree: "done" only after the
\* response entered the store, "failed" only if it never does.
THEOREM ToldIsStored == Spec => []ToldMatchesStore
<1>1. OutcomeInv => ToldMatchesStore
  <2> SUFFICES ASSUME OutcomeInv, NEW r \in Requests
               PROVE  /\ Told(r) = "done" /\ Kept(r) => r \in inserted
                      /\ Told(r) = "failed" => r \notin inserted
    BY DEF ToldMatchesStore
  <2>1. Shapes /\ Kinds(r) /\ Decided(r) /\ Sent(r) /\ Answered(r)
    BY DEF OutcomeInv
  <2>2. CASE Is(r, "stream")
    BY <2>1, <2>2 DEF Decided, Sent, Told, Ends
  <2>3. CASE ~Is(r, "stream")
    BY <2>1, <2>3 DEF Decided, Answered, Told, Kept, Is
  <2>4. QED BY <2>2, <2>3
<1>2. QED BY <1>1, OutcomeInvariant, PTL

\* A stream that its client has followed to the end told it the outcome.
THEOREM StreamTellsOutcome == Spec => []StreamEndsInOutcome
<1>1. OutcomeInv => StreamEndsInOutcome
  BY DEF OutcomeInv, Answered, StreamEndsInOutcome
<1>2. QED BY <1>1, OutcomeInvariant, PTL

-----------------------------------------------------------------------------
(* The refinement of SingleSlot *)

Waits(r) == hpc[r] \in {"new", "slot"}
Served(r) == holding[r] # "no"
Says(r) == Final(Told(r))

\* In the abstract, a step of r leaves the others where they are.
Apart(r) ==
  /\ UNCHANGED want
  /\ \A s \in Requests \ {r} :
       /\ Waits(s)' <=> Waits(s)
       /\ Served(s)' <=> Served(s)
       /\ s \in inserted' <=> s \in inserted
       /\ Says(s)' = Says(s)

\* What may become of r.
Stays(r) ==
  /\ Waits(r)' <=> Waits(r)
  /\ Served(r)' <=> Served(r)
  /\ r \in inserted' <=> r \in inserted
  /\ Says(r)' = Says(r)
Admitted(r) ==
  /\ Waits(r) /\ ~Waits(r)' /\ Served(r)' /\ permits = 1
  /\ r \in inserted' <=> r \in inserted
  /\ Says(r)' = Says(r)
TurnedAway(r) ==
  /\ Waits(r) /\ ~Waits(r)'
  /\ Served(r)' <=> Served(r)
  /\ r \in inserted' <=> r \in inserted
  /\ Says(r)' = Says(r)
Stored(r) ==
  /\ Waits(r)' <=> Waits(r)
  /\ Served(r) /\ Served(r)'
  /\ Kept(r) /\ r \notin inserted /\ r \in inserted'
  /\ Says(r) = "nothing" /\ Says(r)' = "nothing"
Released(r) ==
  /\ Waits(r)' <=> Waits(r)
  /\ Served(r) /\ ~Served(r)'
  /\ r \in inserted' <=> r \in inserted
  /\ Says(r)' = Says(r)
ToldNow(r) ==
  /\ ~Waits(r) /\ ~Waits(r)'
  /\ Served(r)' <=> Served(r)
  /\ r \in inserted' <=> r \in inserted
  /\ Says(r) = "nothing"
  /\ \/ Says(r)' = "done" /\ (Kept(r) => r \in inserted)
     \/ Says(r)' = "failed" /\ r \notin inserted

AbstractStep(r) ==
  Stays(r) \/ Admitted(r) \/ TurnedAway(r) \/ Stored(r) \/ Released(r) \/ ToldNow(r)

\* Each of them is a step, or a stutter, of SingleSlot.
LEMMA AbstractSteps ==
  ASSUME PermitInv, OutcomeInv, OutcomeInv', NEW r \in Requests, Apart(r), AbstractStep(r)
  PROVE  [Slot!Next]_(Slot!vars)
<1> DEFINE keeps == {s \in Requests : Kept(s)}
           waiting == {s \in Requests : Waits(s)}
           serving == {s \in Requests : Served(s)}
           told == [s \in Requests |-> Says(s)]
<1>1. keeps' = keeps
  BY DEF Apart, Kept
<1>2. inserted \subseteq Requests /\ inserted' \subseteq Requests
  BY DEF OutcomeInv, Shapes
<1>3. /\ (Waits(r)' <=> Waits(r)) => waiting' = waiting
      /\ Waits(r) /\ ~Waits(r)' => waiting' = waiting \ {r} /\ r \in waiting
  BY DEF Apart
<1>4. /\ (Served(r)' <=> Served(r)) => serving' = serving
      /\ Served(r) /\ ~Served(r)' => serving' = serving \ {r} /\ r \in serving
      /\ permits = 1 /\ Served(r)' => serving = {} /\ serving' = {r}
  BY DEF Apart, PermitInv, Conserved, Served
<1>5. /\ (r \in inserted' <=> r \in inserted) => inserted' = inserted
      /\ r \in inserted' => inserted' = inserted \union {r}
  BY <1>2 DEF Apart
<1>6. /\ told' = [told EXCEPT ![r] = Says(r)']
      /\ told[r] = Says(r)
      /\ Says(r)' = Says(r) => told' = told
  BY DEF Apart
<1> HIDE DEF keeps, waiting, serving, told
<1>7. \/ /\ UNCHANGED <<keeps, waiting, serving, inserted, told>>
      \/ /\ r \in waiting /\ serving = {}
         /\ waiting' = waiting \ {r} /\ serving' = {r}
         /\ UNCHANGED <<keeps, inserted, told>>
      \/ /\ r \in waiting /\ waiting' = waiting \ {r}
         /\ UNCHANGED <<keeps, serving, inserted, told>>
      \/ /\ r \in serving /\ r \in keeps \ inserted /\ told[r] = "nothing"
         /\ inserted' = inserted \union {r}
         /\ UNCHANGED <<keeps, waiting, serving, told>>
      \/ /\ r \in serving /\ serving' = serving \ {r}
         /\ UNCHANGED <<keeps, waiting, inserted, told>>
      \/ /\ r \notin waiting /\ told[r] = "nothing"
         /\ \/ (r \in keeps => r \in inserted) /\ told' = [told EXCEPT ![r] = "done"]
            \/ r \notin inserted /\ told' = [told EXCEPT ![r] = "failed"]
         /\ UNCHANGED <<keeps, waiting, serving, inserted>>
  <2>1. CASE Stays(r)
    BY <1>1, <1>3, <1>4, <1>5, <1>6, <2>1 DEF Stays
  <2>2. CASE Admitted(r)
    BY <1>1, <1>3, <1>4, <1>5, <1>6, <2>2 DEF Admitted
  <2>3. CASE TurnedAway(r)
    BY <1>1, <1>3, <1>4, <1>5, <1>6, <2>3 DEF TurnedAway
  <2>4. CASE Stored(r)
    <3>1. r \in serving /\ r \in keeps
      BY <2>4 DEF Stored, serving, keeps
    <3>2. QED BY <1>1, <1>3, <1>4, <1>5, <1>6, <2>4, <3>1 DEF Stored
  <2>5. CASE Released(r)
    BY <1>1, <1>3, <1>4, <1>5, <1>6, <2>5 DEF Released
  <2>6. CASE ToldNow(r)
    <3>1. r \notin waiting /\ (r \in keeps => Kept(r))
      BY <2>6 DEF ToldNow, waiting, keeps
    <3>2. QED BY <1>1, <1>3, <1>4, <1>5, <1>6, <2>6, <3>1 DEF ToldNow
  <2>7. QED BY <2>1, <2>2, <2>3, <2>4, <2>5, <2>6 DEF AbstractStep
<1>8. QED
  BY <1>7 DEF keeps, waiting, serving, told, Waits, Served, Says, Slot!Next, Slot!vars,
     Slot!Admit, Slot!TurnAway, Slot!Keep, Slot!Release, Slot!Tell

\* A handler's step is one of them: it admits, turns away, keeps nothing, or tells.
LEMMA HandlerMaps ==
  ASSUME PermitInv, OutcomeInv, OutcomeInv', NEW r \in Requests, HandlerStep(r)
  PROVE  Apart(r) /\ AbstractStep(r)
<1>0. /\ Local(r) /\ Conserved /\ permits \in {0, 1}
      /\ holding \in [Requests -> {"no", "handler", "worker"}]
  BY LocalFacts DEF PermitInv, Places
<1>a. Shapes' /\ Kinds(r)' /\ Decided(r)' /\ Sent(r)' /\ Answered(r)'
  BY DEF OutcomeInv
<1> USE DEF Local, serverVars, channelVars, requestVars, workerVars
<1>1. CASE Resolve(r)
  <2> USE DEF Resolve, CheckHistory, Handler, Answer
  <2>1. Apart(r)
    BY <1>0, <1>1 DEF Apart, Waits, Served, Says, Told, Shapes, Is
  <2>2. Stays(r) \/ TurnedAway(r)
    BY <1>0, <1>a, <1>1 DEF Stays, TurnedAway, Waits, Served, Says, Told, Final, Kept, Is,
       Shapes, Stage, Kinds, Decided, Sent, Answered, Ends, AfterPCs, ActivePCs, HeldPCs
  <2>3. QED BY <2>1, <2>2 DEF AbstractStep
<1>2. CASE ArriveJob(r)
  <2> USE DEF ArriveJob, Handler
  <2>1. Apart(r)
    BY <1>0, <1>2 DEF Apart, Waits, Served, Says, Told, Shapes, Is
  <2>2. Stays(r)
    BY <1>0, <1>a, <1>2 DEF Stays, Waits, Served, Says, Told, Final, Kept, Is,
       Shapes, Stage, Kinds, Decided, Sent, Answered, Ends, AfterPCs, ActivePCs, HeldPCs
  <2>3. QED BY <2>1, <2>2 DEF AbstractStep
<1>3. CASE ArriveJev(r)
  <2> USE DEF ArriveJev, Handler
  <2>1. Apart(r)
    BY <1>0, <1>3 DEF Apart, Waits, Served, Says, Told, Shapes, Is
  <2>2. TurnedAway(r)
    BY <1>0, <1>a, <1>3 DEF TurnedAway, Waits, Served, Says, Told, Final, Kept, Is,
       Shapes, Stage, Kinds, Decided, Sent, Answered, Ends, AfterPCs, ActivePCs, HeldPCs
  <2>3. QED BY <2>1, <2>2 DEF AbstractStep
<1>4. CASE ScoreJev(r)
  <2> USE DEF ScoreJev, Handler, Answer
  <2>1. Apart(r)
    BY <1>0, <1>4 DEF Apart, Waits, Served, Says, Told, Shapes, Is
  <2>2. ToldNow(r)
    BY <1>0, <1>a, <1>4 DEF ToldNow, Waits, Served, Says, Told, Final, Kept, Is,
       Shapes, Stage, Kinds, Decided, Sent, Answered, Ends, AfterPCs, ActivePCs, HeldPCs
  <2>3. QED BY <2>1, <2>2 DEF AbstractStep
<1>5. CASE Acquire(r)
  <2> USE DEF Acquire, Handler, TakePermit
  <2>1. Apart(r)
    BY <1>0, <1>5 DEF Apart, Waits, Served, Says, Told, Shapes, Is
  <2>2. Admitted(r)
    BY <1>0, <1>a, <1>5 DEF Admitted, Waits, Served, Says, Told, Final, Kept, Is,
       Shapes, Stage, Kinds, Decided, Sent, Answered, Ends, AfterPCs, ActivePCs, HeldPCs
  <2>3. QED BY <2>1, <2>2 DEF AbstractStep
<1>6. CASE AcquireJob(r)
  <2> USE DEF AcquireJob, Handler, Worker
  <2>1. Apart(r)
    BY <1>0, <1>6 DEF Apart, Waits, Served, Says, Told, Shapes, Is
  <2>2. Admitted(r)
    BY <1>0, <1>a, <1>6 DEF Admitted, Waits, Served, Says, Told, Final, Kept, Is,
       Shapes, Stage, Kinds, Decided, Sent, Answered, Ends, AfterPCs, ActivePCs, HeldPCs
  <2>3. QED BY <2>1, <2>2 DEF AbstractStep
<1>7. CASE Refuse(r)
  <2> USE DEF Refuse, Handler, Answer
  <2>1. Apart(r)
    BY <1>0, <1>7 DEF Apart, Waits, Served, Says, Told, Shapes, Is
  <2>2. TurnedAway(r)
    BY <1>0, <1>a, <1>7 DEF TurnedAway, Waits, Served, Says, Told, Final, Kept, Is,
       Shapes, Stage, Kinds, Decided, Sent, Answered, Ends, AfterPCs, ActivePCs, HeldPCs
  <2>3. QED BY <2>1, <2>2 DEF AbstractStep
<1>8. CASE PromptFails(r)
  <2> USE DEF PromptFails, Handler, Answer, ReleasePermit
  <2>1. Apart(r)
    BY <1>0, <1>8 DEF Apart, Waits, Served, Says, Told, Shapes, Is
  <2>2. Released(r)
    BY <1>0, <1>a, <1>8 DEF Released, Waits, Served, Says, Told, Final, Kept, Is,
       Shapes, Stage, Kinds, Decided, Sent, Answered, Ends, AfterPCs, ActivePCs, HeldPCs
  <2>3. QED BY <2>1, <2>2 DEF AbstractStep
<1>9. CASE Spawn(r)
  <2> USE DEF Spawn, Handler, Worker
  <2>1. Apart(r)
    BY <1>0, <1>9 DEF Apart, Waits, Served, Says, Told, Shapes, Is
  <2>2. Stays(r)
    BY <1>0, <1>a, <1>9 DEF Stays, Waits, Served, Says, Told, Final, Kept, Is,
       Shapes, Stage, Kinds, Decided, Sent, Answered, Ends, AfterPCs, ActivePCs, HeldPCs
  <2>3. QED BY <2>1, <2>2 DEF AbstractStep
<1>10. CASE Receive(r)
  <2> USE DEF Receive
  <2>1. Apart(r)
    BY <1>0, <1>10 DEF Apart, Waits, Served, Says, Told, Shapes, Is
  <2>2. Stays(r) \/ ToldNow(r)
    BY <1>0, <1>a, <1>10 DEF Stays, ToldNow, Waits, Served, Says, Told, Final, Kept, Is,
       Shapes, Stage, Kinds, Decided, Sent, Answered, Ends, AfterPCs, ActivePCs, HeldPCs
  <2>3. QED BY <2>1, <2>2 DEF AbstractStep
<1>11. CASE EndOfStream(r)
  <2> USE DEF EndOfStream, Handler, Answer
  <2>1. Apart(r)
    BY <1>0, <1>11 DEF Apart, Waits, Served, Says, Told, Shapes, Is
  <2>2. Stays(r)
    BY <1>0, <1>a, <1>11 DEF Stays, Waits, Served, Says, Told, Final, Kept, Is,
       Shapes, Stage, Kinds, Decided, Sent, Answered, Ends, AfterPCs, ActivePCs, HeldPCs
  <2>3. QED BY <2>1, <2>2 DEF AbstractStep
<1>12. CASE Reply(r)
  <2> USE DEF Reply, Handler, Answer
  <2>1. Apart(r)
    BY <1>0, <1>12 DEF Apart, Waits, Served, Says, Told, Shapes, Is
  <2>2. Stays(r) \/ ToldNow(r)
    BY <1>0, <1>a, <1>12 DEF Stays, ToldNow, Waits, Served, Says, Told, Final, Kept, Is,
       Shapes, Stage, Kinds, Decided, Sent, Answered, Ends, AfterPCs, ActivePCs, HeldPCs
  <2>3. QED BY <2>1, <2>2 DEF AbstractStep
<1>13. QED BY <1>1, <1>2, <1>3, <1>4, <1>5, <1>6, <1>7, <1>8, <1>9, <1>10, <1>11, <1>12
   DEF HandlerStep

\* A worker's step is one of them: it stores, tells, or frees the slot.
LEMMA WorkerMaps ==
  ASSUME PermitInv, OutcomeInv, OutcomeInv', NEW r \in Requests, WorkerStep(r)
  PROVE  Apart(r) /\ AbstractStep(r)
<1>0. /\ Local(r) /\ Conserved /\ permits \in {0, 1}
      /\ holding \in [Requests -> {"no", "handler", "worker"}]
  BY LocalFacts DEF PermitInv, Places
<1>a. Shapes' /\ Kinds(r)' /\ Decided(r)' /\ Sent(r)' /\ Answered(r)'
  BY DEF OutcomeInv
<1> USE DEF Local, serverVars, channelVars, requestVars, workerVars
<1>1. CASE StartEvent(r)
  <2> USE DEF StartEvent, Worker, WorkerOnly, Send, SendFails
  <2>1. Apart(r)
    BY <1>0, <1>1 DEF Apart, Waits, Served, Says, Told, Shapes, Is
  <2>2. Stays(r)
    BY <1>0, <1>a, <1>1 DEF Stays, Waits, Served, Says, Told, Final, Kept, Is,
       Shapes, Stage, Kinds, Decided, Sent, Answered, Ends, AfterPCs, ActivePCs, HeldPCs
  <2>3. QED BY <2>1, <2>2 DEF AbstractStep
<1>2. CASE Generate(r)
  <2> USE DEF Generate, Worker, WorkerOnly
  <2>1. Apart(r)
    BY <1>0, <1>2 DEF Apart, Waits, Served, Says, Told, Shapes, Is
  <2>2. Stays(r)
    BY <1>0, <1>a, <1>2 DEF Stays, Waits, Served, Says, Told, Final, Kept, Is,
       Shapes, Stage, Kinds, Decided, Sent, Answered, Ends, AfterPCs, ActivePCs, HeldPCs
  <2>3. QED BY <2>1, <2>2 DEF AbstractStep
<1>3. CASE LockRuntime(r)
  <2> USE DEF LockRuntime, Worker, WorkerOnly
  <2>1. Apart(r)
    BY <1>0, <1>3 DEF Apart, Waits, Served, Says, Told, Shapes, Is
  <2>2. Stays(r)
    BY <1>0, <1>a, <1>3 DEF Stays, Waits, Served, Says, Told, Final, Kept, Is,
       Shapes, Stage, Kinds, Decided, Sent, Answered, Ends, AfterPCs, ActivePCs, HeldPCs
  <2>3. QED BY <2>1, <2>2 DEF AbstractStep
<1>4. CASE NextToken(r)
  <2> USE DEF NextToken, Worker, WorkerOnly
  <2>1. Apart(r)
    BY <1>0, <1>4 DEF Apart, Waits, Served, Says, Told, Shapes, Is
  <2>2. Stays(r)
    BY <1>0, <1>a, <1>4 DEF Stays, Waits, Served, Says, Told, Final, Kept, Is,
       Shapes, Stage, Kinds, Decided, Sent, Answered, Ends, AfterPCs, ActivePCs, HeldPCs
  <2>3. QED BY <2>1, <2>2 DEF AbstractStep
<1>5. CASE EmitPiece(r)
  <2> USE DEF EmitPiece, Worker, WorkerOnly, Send, SendFails
  <2>1. Apart(r)
    BY <1>0, <1>5 DEF Apart, Waits, Served, Says, Told, Shapes, Is
  <2>2. Stays(r)
    BY <1>0, <1>a, <1>5 DEF Stays, Waits, Served, Says, Told, Final, Kept, Is,
       Shapes, Stage, Kinds, Decided, Sent, Answered, Ends, AfterPCs, ActivePCs, HeldPCs
  <2>3. QED BY <2>1, <2>2 DEF AbstractStep
<1>6. CASE Panic(r)
  <2> USE DEF Panic, Worker, WorkerOnly
  <2>1. Apart(r)
    BY <1>0, <1>6 DEF Apart, Waits, Served, Says, Told, Shapes, Is
  <2>2. Stays(r)
    BY <1>0, <1>a, <1>6 DEF Stays, Waits, Served, Says, Told, Final, Kept, Is,
       Shapes, Stage, Kinds, Decided, Sent, Answered, Ends, AfterPCs, ActivePCs, HeldPCs
  <2>3. QED BY <2>1, <2>2 DEF AbstractStep
<1>7. CASE AfterTokens(r)
  <2> USE DEF AfterTokens, Worker, WorkerOnly
  <2>1. Apart(r)
    BY <1>0, <1>7 DEF Apart, Waits, Served, Says, Told, Shapes, Is
  <2>2. Stays(r)
    BY <1>0, <1>a, <1>7 DEF Stays, Waits, Served, Says, Told, Final, Kept, Is,
       Shapes, Stage, Kinds, Decided, Sent, Answered, Ends, AfterPCs, ActivePCs, HeldPCs
  <2>3. QED BY <2>1, <2>2 DEF AbstractStep
<1>8. CASE Flush(r)
  <2> USE DEF Flush, Worker, WorkerOnly, Send, SendFails
  <2>1. Apart(r)
    BY <1>0, <1>8 DEF Apart, Waits, Served, Says, Told, Shapes, Is
  <2>2. Stays(r)
    BY <1>0, <1>a, <1>8 DEF Stays, Waits, Served, Says, Told, Final, Kept, Is,
       Shapes, Stage, Kinds, Decided, Sent, Answered, Ends, AfterPCs, ActivePCs, HeldPCs
  <2>3. QED BY <2>1, <2>2 DEF AbstractStep
<1>9. CASE Finish(r)
  <2> USE DEF Finish, Worker, Decide
  <2>1. Apart(r)
    BY <1>0, <1>9 DEF Apart, Waits, Served, Says, Told, Shapes, Is
  <2>2. Stays(r) \/ Stored(r)
    BY <1>0, <1>a, <1>9 DEF Stays, Stored, Waits, Served, Says, Told, Final, Kept, Is,
       Shapes, Stage, Kinds, Decided, Sent, Answered, Ends, AfterPCs, ActivePCs, HeldPCs
  <2>3. QED BY <2>1, <2>2 DEF AbstractStep
<1>10. CASE Fail(r)
  <2> USE DEF Fail, Worker, WorkerOnly, Decide
  <2>1. Apart(r)
    BY <1>0, <1>10 DEF Apart, Waits, Served, Says, Told, Shapes, Is
  <2>2. Stays(r)
    BY <1>0, <1>a, <1>10 DEF Stays, Waits, Served, Says, Told, Final, Kept, Is,
       Shapes, Stage, Kinds, Decided, Sent, Answered, Ends, AfterPCs, ActivePCs, HeldPCs
  <2>3. QED BY <2>1, <2>2 DEF AbstractStep
<1>11. CASE Tell(r)
  <2> USE DEF Tell, Worker, WorkerOnly, Send, SendFails
  <2>1. Apart(r)
    BY <1>0, <1>11 DEF Apart, Waits, Served, Says, Told, Shapes, Is
  <2>2. Stays(r)
    BY <1>0, <1>a, <1>11 DEF Stays, Waits, Served, Says, Told, Final, Kept, Is,
       Shapes, Stage, Kinds, Decided, Sent, Answered, Ends, AfterPCs, ActivePCs, HeldPCs
  <2>3. QED BY <2>1, <2>2 DEF AbstractStep
<1>12. CASE RunJob(r)
  <2> USE DEF RunJob, Worker, WorkerOnly, Decide
  <2>1. Apart(r)
    BY <1>0, <1>12 DEF Apart, Waits, Served, Says, Told, Shapes, Is
  <2>2. Stays(r)
    BY <1>0, <1>a, <1>12 DEF Stays, Waits, Served, Says, Told, Final, Kept, Is,
       Shapes, Stage, Kinds, Decided, Sent, Answered, Ends, AfterPCs, ActivePCs, HeldPCs
  <2>3. QED BY <2>1, <2>2 DEF AbstractStep
<1>13. CASE WorkerEnds(r)
  <2> USE DEF WorkerEnds, Worker, ReleasePermit
  <2>1. Apart(r)
    BY <1>0, <1>13 DEF Apart, Waits, Served, Says, Told, Shapes, Is
  <2>2. Stays(r) \/ Released(r)
    BY <1>0, <1>a, <1>13 DEF Stays, Released, Waits, Served, Says, Told, Final, Kept, Is,
       Shapes, Stage, Kinds, Decided, Sent, Answered, Ends, AfterPCs, ActivePCs, HeldPCs
  <2>3. QED BY <2>1, <2>2 DEF AbstractStep
<1>14. QED BY <1>1, <1>2, <1>3, <1>4, <1>5, <1>6, <1>7, <1>8, <1>9, <1>10, <1>11, <1>12,
   <1>13 DEF WorkerStep

\* A client that leaves is a stutter: nothing it was told is taken back.
LEMMA DisconnectMaps ==
  ASSUME PermitInv, OutcomeInv, NEW r \in Requests, Disconnect(r)
  PROVE  Apart(r) /\ AbstractStep(r)
<1>0. Local(r) /\ holding \in [Requests -> {"no", "handler", "worker"}]
  BY LocalFacts DEF PermitInv, Places
<1> USE DEF Local, Disconnect, Answer, ReleasePermit, workerVars
<1>1. Apart(r)
  BY <1>0 DEF Apart, Waits, Served, Says, Told, Shapes, Is
<1>2. Stays(r) \/ Released(r)
  BY <1>0 DEF Stays, Released, Waits, Served, Says, Told, Final, Is, Shapes, Stage,
     Answered, Ends
<1>3. QED BY <1>1, <1>2 DEF AbstractStep

\* The initial states are those of SingleSlot.
LEMMA InitMaps == Init => Slot!Init
  BY DEF Init, Slot!Init, Told, Final

\* The server implements the promise of one slot: one request is served at a
\* time, a response is kept only while its request is, and an outcome is told
\* once, "done" after the response was kept.
THEOREM ServerImplementsSlot == Spec => ImplementsSingleSlot
<1>1. Init => Slot!Init
  BY InitMaps
<1>2. PermitInv /\ OutcomeInv /\ OutcomeInv' /\ [Next]_vars => [Slot!Next]_(Slot!vars)
  <2> SUFFICES ASSUME PermitInv, OutcomeInv, OutcomeInv', [Next]_vars
               PROVE  [Slot!Next]_(Slot!vars)
    OBVIOUS
  <2>1. CASE \E r \in Requests : HandlerStep(r) \/ WorkerStep(r) \/ Disconnect(r)
    <3>1. PICK r \in Requests : HandlerStep(r) \/ WorkerStep(r) \/ Disconnect(r)
      BY <2>1
    <3>2. Apart(r) /\ AbstractStep(r)
      BY <3>1, HandlerMaps, WorkerMaps, DisconnectMaps
    <3>3. QED BY <3>2, AbstractSteps
  <2>2. CASE OtherStoreUse \/ UNCHANGED vars
    <3>1. UNCHANGED <<want, hpc, holding, got, answer, inserted>>
      BY <2>2 DEF OtherStoreUse, vars, serverVars, channelVars, requestVars, workerVars
    <3>2. QED BY <3>1 DEF Slot!vars, Told, Kept, Is
  <2>3. QED BY <2>1, <2>2 DEF Next
<1>3. QED BY <1>1, <1>2, OutcomeInvariant, PTL DEF Spec, ImplementsSingleSlot, Slot!Spec

-----------------------------------------------------------------------------
(* A client that leaves *)

\* Its worker can see it.
Leaving(r) ==
  answer[r] = "left" =>
    /\ Is(r, "stream") => ~rxOpen[r]
    /\ Is(r, "plain") /\ wpc[r] # "none" => cancelled[r]
LeavingInv == cancelled \in [Requests -> BOOLEAN] /\ \A r \in Requests : Leaving(r)

\* A worker that is to look at its client again before it stores, or that has
\* given up.
Doomed(r) ==
  /\ answer[r] = "left" /\ r \notin inserted
  /\ want[r].kind \in {"stream", "plain"} /\ Stopped(r)
  /\ wpc[r] \in {"start", "generate", "lock", "token", "ended", "fail", "tell"} \union AfterPCs

\* At the start nobody has left.
LEMMA InitLeaving == Init => LeavingInv
  BY DEF Init, LeavingInv, Leaving

\* Leaving is noted, and what was noted stays.
LEMMA LeavingStep ==
  ASSUME PermitInv, OutcomeInv, LeavingInv, [Next]_vars
  PROVE  LeavingInv'
<1> USE DEF LeavingInv, Leaving, Is, serverVars, channelVars, requestVars, workerVars
<1>1. ASSUME NEW r \in Requests, HandlerStep(r) \/ WorkerStep(r) \/ Disconnect(r)
      PROVE  LeavingInv'
  <2>0. Local(r)
    BY LocalFacts
  <2> USE DEF Local, Stage, Shapes, Kinds
  <2>1. CASE Resolve(r)
    BY <2>0, <2>1 DEF Resolve, CheckHistory, Handler, Answer
  <2>2. CASE ArriveJob(r)
    BY <2>0, <2>2 DEF ArriveJob, Handler
  <2>3. CASE ArriveJev(r)
    BY <2>0, <2>3 DEF ArriveJev, Handler
  <2>4. CASE ScoreJev(r)
    BY <2>0, <2>4 DEF ScoreJev, Handler, Answer
  <2>5. CASE Acquire(r)
    BY <2>0, <2>5 DEF Acquire, Handler
  <2>6. CASE AcquireJob(r)
    BY <2>0, <2>6 DEF AcquireJob, Handler, Worker
  <2>7. CASE Refuse(r)
    BY <2>0, <2>7 DEF Refuse, Handler, Answer
  <2>8. CASE PromptFails(r)
    BY <2>0, <2>8 DEF PromptFails, Handler, Answer
  <2>9. CASE Spawn(r)
    BY <2>0, <2>9 DEF Spawn, Handler, Worker
  <2>10. CASE Receive(r)
    BY <2>0, <2>10 DEF Receive
  <2>11. CASE EndOfStream(r)
    BY <2>0, <2>11 DEF EndOfStream, Handler, Answer
  <2>12. CASE Reply(r)
    BY <2>0, <2>12 DEF Reply, Handler, Answer
  <2>13. CASE Disconnect(r)
    BY <2>0, <2>13 DEF Disconnect, Answer
  <2>14. CASE WorkerStep(r)
    <3>1. UNCHANGED <<cancelled, answer, want, rxOpen>>
      BY <2>14 DEF WorkerStep, StartEvent, Generate, LockRuntime, NextToken, EmitPiece,
         Panic, AfterTokens, Flush, Finish, Fail, Tell, RunJob, WorkerEnds,
         WorkerOnly
    <3>2. wpc[r] # "none" /\ \A s \in Requests \ {r} : wpc'[s] = wpc[s]
      BY <2>0, <2>14 DEF WorkerStep, StartEvent, Generate, LockRuntime, NextToken,
         EmitPiece, Panic, AfterTokens, Flush, Finish, Fail, Tell, RunJob, WorkerEnds,
         Worker
    <3>3. QED BY <3>1, <3>2
  <2>15. QED BY <1>1, <2>1, <2>2, <2>3, <2>4, <2>5, <2>6, <2>7, <2>8, <2>9, <2>10,
     <2>11, <2>12, <2>13, <2>14 DEF HandlerStep
<1>2. CASE OtherStoreUse \/ UNCHANGED vars
  BY <1>2 DEF OtherStoreUse, vars
<1>3. QED BY <1>1, <1>2 DEF Next

\* Nothing saves a doomed worker.
LEMMA DoomedStep ==
  ASSUME PermitInv, OutcomeInv, LeavingInv, NEW r \in Requests, Doomed(r), [Next]_vars
  PROVE  Doomed(r)'
<1>0. Local(r)
  BY LocalFacts
<1>1. ASSUME NEW s \in Requests, s # r, HandlerStep(s) \/ WorkerStep(s) \/ Disconnect(s)
      PROVE  Doomed(r)'
  <2>1. Local(s)
    BY LocalFacts
  <2>2. UNCHANGED <<want[r], wpc[r], rxOpen[r], answer[r], cancelled[r]>>
        /\ (r \in inserted' <=> r \in inserted)
    <3> USE DEF Local, Shapes, serverVars, channelVars, requestVars, workerVars
    <3>1. CASE Resolve(s)
      BY <1>0, <1>1, <2>1, <3>1 DEF Resolve, CheckHistory, Handler, Answer
    <3>2. CASE ArriveJob(s)
      BY <1>0, <1>1, <2>1, <3>2 DEF ArriveJob, Handler
    <3>3. CASE ArriveJev(s)
      BY <1>0, <1>1, <2>1, <3>3 DEF ArriveJev, Handler
    <3>4. CASE ScoreJev(s)
      BY <1>0, <1>1, <2>1, <3>4 DEF ScoreJev, Handler, Answer
    <3>5. CASE Acquire(s)
      BY <1>0, <1>1, <2>1, <3>5 DEF Acquire, Handler
    <3>6. CASE AcquireJob(s)
      BY <1>0, <1>1, <2>1, <3>6 DEF AcquireJob, Handler, Worker
    <3>7. CASE Refuse(s)
      BY <1>0, <1>1, <2>1, <3>7 DEF Refuse, Handler, Answer
    <3>8. CASE PromptFails(s)
      BY <1>0, <1>1, <2>1, <3>8 DEF PromptFails, Handler, Answer
    <3>9. CASE Spawn(s)
      BY <1>0, <1>1, <2>1, <3>9 DEF Spawn, Handler, Worker
    <3>10. CASE Receive(s)
      BY <1>0, <1>1, <2>1, <3>10 DEF Receive
    <3>11. CASE EndOfStream(s)
      BY <1>0, <1>1, <2>1, <3>11 DEF EndOfStream, Handler, Answer
    <3>12. CASE Reply(s)
      BY <1>0, <1>1, <2>1, <3>12 DEF Reply, Handler, Answer
    <3>13. CASE StartEvent(s)
      BY <1>0, <1>1, <2>1, <3>13 DEF StartEvent, Worker, WorkerOnly, Send, SendFails
    <3>14. CASE Generate(s)
      BY <1>0, <1>1, <2>1, <3>14 DEF Generate, Worker, WorkerOnly
    <3>15. CASE LockRuntime(s)
      BY <1>0, <1>1, <2>1, <3>15 DEF LockRuntime, Worker, WorkerOnly
    <3>16. CASE NextToken(s)
      BY <1>0, <1>1, <2>1, <3>16 DEF NextToken, Worker, WorkerOnly
    <3>17. CASE EmitPiece(s)
      BY <1>0, <1>1, <2>1, <3>17 DEF EmitPiece, Worker, WorkerOnly, Send, SendFails
    <3>18. CASE Panic(s)
      BY <1>0, <1>1, <2>1, <3>18 DEF Panic, Worker, WorkerOnly
    <3>19. CASE AfterTokens(s)
      BY <1>0, <1>1, <2>1, <3>19 DEF AfterTokens, Worker, WorkerOnly
    <3>20. CASE Flush(s)
      BY <1>0, <1>1, <2>1, <3>20 DEF Flush, Worker, WorkerOnly, Send, SendFails
    <3>21. CASE Finish(s)
      BY <1>0, <1>1, <2>1, <3>21 DEF Finish, Worker, Decide
    <3>22. CASE Fail(s)
      BY <1>0, <1>1, <2>1, <3>22 DEF Fail, Worker, WorkerOnly, Decide
    <3>23. CASE Tell(s)
      BY <1>0, <1>1, <2>1, <3>23 DEF Tell, Worker, WorkerOnly, Send, SendFails
    <3>24. CASE RunJob(s)
      BY <1>0, <1>1, <2>1, <3>24 DEF RunJob, Worker, WorkerOnly, Decide
    <3>25. CASE WorkerEnds(s)
      BY <1>0, <1>1, <2>1, <3>25 DEF WorkerEnds, Worker
    <3>26. CASE Disconnect(s)
      BY <1>0, <1>1, <2>1, <3>26 DEF Disconnect, Answer, LeavingInv
    <3>27. QED BY <1>1, <3>1, <3>2, <3>3, <3>4, <3>5, <3>6, <3>7, <3>8, <3>9, <3>10,
       <3>11, <3>12, <3>13, <3>14, <3>15, <3>16, <3>17, <3>18, <3>19, <3>20, <3>21,
       <3>22, <3>23, <3>24, <3>25, <3>26 DEF HandlerStep, WorkerStep
  <2>3. QED BY <2>2 DEF Doomed, Stopped, Is
<1>2. ASSUME HandlerStep(r) \/ Disconnect(r)
      PROVE  Doomed(r)'
  <2>1. hpc[r] = "closed"
    BY <1>0 DEF Local, Stage, Doomed
  <2>2. QED BY <1>2, <2>1 DEF HandlerStep, Disconnect, Handler, Resolve, CheckHistory,
     ArriveJob,
           ArriveJev, ScoreJev, Acquire, AcquireJob, Refuse, PromptFails, Spawn, Receive,
           EndOfStream, Reply
<1>3. ASSUME WorkerStep(r)
      PROVE  Doomed(r)'
  <2> USE DEF Doomed, Stopped, Is, AfterPCs, Local, Shapes, Kinds, Decided, channelVars,
     requestVars, workerVars
  <2>1. CASE StartEvent(r)
    BY <1>0, <2>1 DEF StartEvent, Worker, WorkerOnly, Send, SendFails
  <2>2. CASE Generate(r)
    BY <1>0, <2>2 DEF Generate, Worker, WorkerOnly
  <2>3. CASE LockRuntime(r)
    BY <1>0, <2>3 DEF LockRuntime, Worker, WorkerOnly
  <2>4. CASE NextToken(r)
    BY <1>0, <2>4 DEF NextToken, Worker, WorkerOnly
  <2>5. CASE EmitPiece(r)
    BY <1>0, <2>5 DEF EmitPiece, Worker, WorkerOnly, Send, SendFails
  <2>6. CASE Panic(r)
    BY <1>0, <2>6 DEF Panic, Worker, WorkerOnly
  <2>7. CASE AfterTokens(r)
    BY <1>0, <2>7 DEF AfterTokens, Worker, WorkerOnly
  <2>8. CASE Flush(r)
    BY <1>0, <2>8 DEF Flush, Worker, WorkerOnly, Send, SendFails
  <2>9. CASE Finish(r)
    BY <1>0, <2>9 DEF Finish, Worker, Decide
  <2>10. CASE Fail(r)
    BY <1>0, <2>10 DEF Fail, Worker, WorkerOnly, Decide
  <2>11. CASE Tell(r)
    BY <1>0, <2>11 DEF Tell, Worker, WorkerOnly, Send, SendFails
  <2>12. CASE RunJob(r)
    BY <1>0, <2>12 DEF RunJob, Worker, WorkerOnly, Decide
  <2>13. CASE WorkerEnds(r)
    BY <1>0, <2>13 DEF WorkerEnds, Worker
  <2>14. QED BY <1>3, <2>1, <2>2, <2>3, <2>4, <2>5, <2>6, <2>7, <2>8, <2>9, <2>10,
     <2>11, <2>12, <2>13 DEF WorkerStep
<1>4. CASE OtherStoreUse \/ UNCHANGED vars
  BY <1>4 DEF OtherStoreUse, vars, channelVars, requestVars, workerVars, Doomed,
     Stopped, Is
<1>5. QED BY <1>1, <1>2, <1>3, <1>4 DEF Next

\* A client that leaves while tokens are being made leaves no trace in the store.
THEOREM AbandonedLeavesNoTrace == Spec => AbandonedNotStored
<1> SUFFICES ASSUME NEW r \in Requests
             PROVE  Spec => [](Abandoned(r) => [](r \notin inserted))
  BY DEF AbandonedNotStored
<1>1. PermitInv /\ OutcomeInv /\ LeavingInv /\ Abandoned(r) => Doomed(r)
  <2> SUFFICES ASSUME PermitInv, OutcomeInv, LeavingInv, Abandoned(r) PROVE Doomed(r)
    OBVIOUS
  <2>1. Local(r) /\ Leaving(r)
    BY LocalFacts DEF LeavingInv
  <2>2. QED BY <2>1 DEF Local, Leaving, Abandoned, Doomed, Stopped, Is, Shapes, Kinds,
     Decided, ActivePCs, AfterPCs
<1>2. Doomed(r) => r \notin inserted
  BY DEF Doomed
<1>3. PermitInv /\ OutcomeInv /\ LeavingInv /\ Doomed(r) /\ [Next]_vars => Doomed(r)'
  BY DoomedStep
<1>4. Init => LeavingInv
  BY InitLeaving
<1>5. PermitInv /\ OutcomeInv /\ LeavingInv /\ [Next]_vars => LeavingInv'
  BY LeavingStep
<1>6. Spec => []LeavingInv
  BY <1>4, <1>5, OutcomeInvariant, PTL DEF Spec
<1>7. QED BY <1>1, <1>2, <1>3, <1>6, OutcomeInvariant, PTL DEF Spec

-----------------------------------------------------------------------------
(* The store, the conversations and the bounds *)

\* A conversation that goes into the store is a sequence of turns, and it comes
\* from the store again; a worker that is to emit has a piece left; a channel is
\* never over its capacity.
Bounded ==
  /\ messages \in [Requests -> Seq(Requests)]
  /\ cancelled \in [Requests -> BOOLEAN]
  /\ pieces \in [Requests -> 0 .. MaxTokens]
  /\ \A r \in Requests : wpc[r] = "emit" => pieces[r] < MaxTokens
  /\ \A r \in Requests : Len(chan[r]) <= ChanCap
  /\ poisoned \in BOOLEAN
TypeInv == StoreInv /\ Bounded

\* Whatever leaves the store alone keeps its invariant.
LEMMA StoreUntouched ==
  ASSUME StoreInv, UNCHANGED storeVars
  PROVE  StoreInv'
  BY DEF storeVars, StoreInv, StoreConsistent, Storable, Total, Running

\* At the start the store is empty, and so is every channel.
LEMMA InitTypeInv == Init => TypeInv
<1> SUFFICES ASSUME Init PROVE TypeInv
  OBVIOUS
<1>1. StoreInv
  BY StoreInvInit DEF Init
<1>2. Len(<<>>) = 0 /\ <<>> \in Seq(Requests)
  BY EmptySeq
<1>3. Bounded
  <2>1. /\ messages = [r \in Requests |-> <<>>] /\ chan = [r \in Requests |-> <<>>]
        /\ cancelled = [r \in Requests |-> FALSE] /\ poisoned = FALSE
        /\ pieces = [r \in Requests |-> 0] /\ wpc = [r \in Requests |-> "none"]
    BY DEF Init
  <2>2. \A r \in Requests : Len(chan[r]) <= ChanCap
    BY <1>2, <2>1, ServerConstants
  <2>3. cancelled \in [Requests -> BOOLEAN] /\ poisoned \in BOOLEAN
    BY <2>1
  <2>4. messages \in [Requests -> Seq(Requests)]
    BY <1>2, <2>1
  <2>5. /\ pieces \in [Requests -> 0 .. MaxTokens]
        /\ \A r \in Requests : wpc[r] = "emit" => pieces[r] < MaxTokens
    BY <2>1, ServerConstants
  <2> QED BY <2>2, <2>3, <2>4, <2>5 DEF Bounded
<1> QED BY <1>1, <1>3 DEF TypeInv

\* A conversation copied out of the store, with one turn more.
LEMMA CopiedHistory ==
  ASSUME StoreInv, NEW id, Holds(id), NEW r \in Requests
  PROVE  Append(Messages(id), r) \in Seq(Requests)
<1> DEFINE k == CHOOSE i \in DOMAIN records : records[i].id = id
<1>1. k \in DOMAIN records
  BY DEF Holds
<1>2. records \in Seq(Storable(now)) /\ DOMAIN records = 1 .. Len(records)
  BY LenProperties DEF StoreInv
<1>3. records[k] \in Storable(now)
  <2> HIDE DEF k
  <2> QED BY <1>1, <1>2, ElementOfSeq
<1>4. Messages(id) = records[k].messages
  BY DEF Messages
<1>5. Messages(id) \in Seq(Requests)
  <2> HIDE DEF k
  <2> QED BY <1>3, <1>4 DEF Storable, Requests
<1> QED BY <1>5, AppendProperties

\* One event more, where there was room.
LEMMA SendKeepsBound ==
  ASSUME NEW r \in Requests, NEW e \in Events, Shapes, Bounded, Send(r, e) \/ SendFails(r)
  PROVE  \A s \in Requests : Len(chan'[s]) <= ChanCap
<1>1. CASE UNCHANGED chan
  BY <1>1 DEF Bounded
<1>2. CASE /\ Len(chan[r]) < ChanCap
           /\ chan' = [chan EXCEPT ![r] = Append(@, e)]
  <2>1. chan \in [Requests -> Seq(Events)]
    BY DEF Shapes
  <2>2. chan[r] \in Seq(Events)
    BY <2>1
  <2>3. Len(Append(chan[r], e)) = Len(chan[r]) + 1 /\ Len(chan[r]) \in Nat
    BY <2>2, AppendProperties, LenProperties
  <2>4. Len(chan[r]) + 1 <= ChanCap
    BY <1>2, <2>3, ServerConstants
  <2>5. chan'[r] = Append(chan[r], e) /\ \A s \in Requests \ {r} : chan'[s] = chan[s]
    BY <1>2, <2>1
  <2> QED BY <2>3, <2>4, <2>5 DEF Bounded
<1> QED BY <1>1, <1>2 DEF Send, SendFails

\* A step that leaves these alone, or gives the worker another place than where
\* it emits.
LEMMA FrameBounded ==
  ASSUME NEW r \in Requests, Bounded, wpc \in [Requests -> WorkerPCs],
         UNCHANGED <<messages, cancelled, pieces, poisoned, chan>>,
         \/ UNCHANGED wpc
         \/ \E to : wpc' = [wpc EXCEPT ![r] = to] /\ to # "emit"
  PROVE  Bounded'
  BY DEF Bounded

\* A handler's step keeps it: it prunes the store at most.
LEMMA HandlerTypes ==
  ASSUME PermitInv, OutcomeInv, TypeInv, NEW r \in Requests, HandlerStep(r)
  PROVE  TypeInv'
<1>0. StoreInv /\ Bounded /\ wpc \in [Requests -> WorkerPCs] /\ Shapes
  BY DEF TypeInv, PermitInv, Places, OutcomeInv
<1>1. CASE Resolve(r)
  <2>1. StoreInv'
    <3>1. CASE UNCHANGED storeVars
      BY <1>0, <3>1, StoreUntouched
    <3>2. CASE Prune /\ UNCHANGED now
      BY <1>0, <3>2, PruneStep
    <3> QED BY <1>1, <3>1, <3>2 DEF Resolve
  <2>2. UNCHANGED <<cancelled, pieces, poisoned, chan, wpc>>
    BY <1>1 DEF Resolve, serverVars, channelVars, workerVars
  <2>3. messages' \in [Requests -> Seq(Requests)]
    <3>1. <<r>> \in Seq(Requests)
      OBVIOUS
    <3>2. \A id \in Requests : Holds(id) => Append(Messages(id), r) \in Seq(Requests)
      BY <1>0, CopiedHistory
    <3>3. \/ messages' = [messages EXCEPT ![r] = <<r>>]
          \/ \E id \in Requests : Holds(id) /\ messages' = [messages EXCEPT ![r] = Append(Messages(id), r)]
          \/ UNCHANGED messages
      BY <1>1 DEF Resolve
    <3> QED BY <1>0, <3>1, <3>2, <3>3 DEF Bounded
  <2> QED BY <1>0, <2>1, <2>2, <2>3 DEF TypeInv, Bounded
<1>2. CASE \/ ArriveJob(r) \/ ArriveJev(r) \/ ScoreJev(r) \/ Acquire(r) \/ AcquireJob(r)
           \/ Refuse(r) \/ PromptFails(r) \/ Spawn(r) \/ EndOfStream(r) \/ Reply(r)
  <2>1. UNCHANGED storeVars /\ UNCHANGED <<messages, cancelled, pieces, poisoned, chan>>
    BY <1>2 DEF ArriveJob, ArriveJev, ScoreJev, Acquire, AcquireJob, Refuse, PromptFails,
       Spawn, EndOfStream, Reply, serverVars, channelVars, requestVars, workerVars
  <2>2. \/ UNCHANGED wpc
        \/ \E to : wpc' = [wpc EXCEPT ![r] = to] /\ to # "emit"
    BY <1>2 DEF ArriveJob, ArriveJev, ScoreJev, Acquire, AcquireJob, Refuse, PromptFails,
       Spawn, EndOfStream, Reply, Worker
  <2> QED BY <1>0, <2>1, <2>2, StoreUntouched, FrameBounded DEF TypeInv
<1>3. CASE Receive(r)
  <2>1. /\ chan[r] # <<>> /\ chan' = [chan EXCEPT ![r] = Tail(@)]
        /\ UNCHANGED storeVars /\ UNCHANGED <<messages, cancelled, pieces, poisoned, wpc>>
    BY <1>3 DEF Receive, serverVars, requestVars, workerVars
  <2>2. /\ \A s \in Requests \ {r} : chan'[s] = chan[s]
        /\ Len(chan[r]) = Len(chan'[r]) + 1 /\ Len(chan'[r]) \in Nat
    BY <1>0, <2>1, TakeEvent DEF OutcomeInv
  <2>3. \A s \in Requests : Len(chan'[s]) <= ChanCap
    <3>1. Len(chan'[r]) <= ChanCap
      BY <1>0, <2>2, ServerConstants DEF Bounded
    <3> QED BY <1>0, <2>2, <3>1 DEF Bounded
  <2>4. Bounded'
    BY <1>0, <2>1, <2>3 DEF Bounded
  <2> QED BY <1>0, <2>1, <2>4, StoreUntouched DEF TypeInv
<1> QED BY <1>1, <1>2, <1>3 DEF HandlerStep

\* A worker's step keeps it: it stores what is a conversation, of the size the
\* store has counted.
LEMMA WorkerTypes ==
  ASSUME PermitInv, OutcomeInv, TypeInv, NEW r \in Requests, WorkerStep(r)
  PROVE  TypeInv'
<1>0. StoreInv /\ Bounded /\ wpc \in [Requests -> WorkerPCs] /\ Shapes
  BY DEF TypeInv, PermitInv, Places, OutcomeInv
<1>1. CASE \/ Generate(r) \/ LockRuntime(r) \/ AfterTokens(r) \/ Fail(r) \/ RunJob(r)
           \/ WorkerEnds(r)
  <2>1. UNCHANGED storeVars /\ UNCHANGED <<messages, cancelled, pieces, poisoned, chan>>
    BY <1>1 DEF Generate, LockRuntime, AfterTokens, Fail, RunJob, WorkerEnds,
       WorkerOnly, requestVars, workerVars
  <2>2. \E to : wpc' = [wpc EXCEPT ![r] = to] /\ to # "emit"
    BY <1>1 DEF Generate, LockRuntime, AfterTokens, Fail, RunJob, WorkerEnds, Worker
  <2> QED BY <1>0, <2>1, <2>2, StoreUntouched, FrameBounded DEF TypeInv
<1>2. CASE Panic(r)
  <2>1. /\ UNCHANGED storeVars /\ UNCHANGED <<messages, cancelled, pieces, chan>>
        /\ poisoned' = TRUE /\ wpc' = [wpc EXCEPT ![r] = "release"]
    BY <1>2 DEF Panic, Worker, WorkerOnly, requestVars
  <2>2. Bounded'
    BY <1>0, <2>1 DEF Bounded
  <2> QED BY <1>0, <2>1, <2>2, StoreUntouched DEF TypeInv
<1>3. CASE NextToken(r)
  <2>1. /\ UNCHANGED storeVars /\ UNCHANGED <<messages, cancelled, pieces, poisoned, chan>>
        /\ \E to : wpc' = [wpc EXCEPT ![r] = to] /\ (to = "emit" => pieces[r] < MaxTokens)
    BY <1>3 DEF NextToken, Worker, WorkerOnly, requestVars, workerVars
  <2>2. Bounded'
    BY <1>0, <2>1 DEF Bounded
  <2> QED BY <1>0, <2>1, <2>2, StoreUntouched DEF TypeInv
<1>4. CASE StartEvent(r) \/ Flush(r) \/ Tell(r)
  <2>1. /\ UNCHANGED storeVars /\ UNCHANGED <<messages, cancelled, pieces, poisoned>>
        /\ \E to : wpc' = [wpc EXCEPT ![r] = to] /\ to # "emit"
        /\ UNCHANGED chan \/ \E e \in Events : Send(r, e) \/ SendFails(r)
    <3>1. CASE StartEvent(r)
      BY <3>1 DEF StartEvent, Worker, WorkerOnly, requestVars, workerVars, Events
    <3>2. CASE Flush(r)
      BY <3>2 DEF Flush, Worker, WorkerOnly, requestVars, workerVars, Events
    <3>3. CASE Tell(r)
      <4>1. outcome[r] \in Events
        BY <3>3 DEF OutcomeInv, Decided, Tell, Worker, Ends, Events
      <4>2. Send(r, outcome[r]) \/ SendFails(r)
        BY <3>3 DEF Tell
      <4>3. \E e \in Events : Send(r, e) \/ SendFails(r)
        BY <4>1, <4>2
      <4>4. /\ UNCHANGED storeVars /\ UNCHANGED <<messages, cancelled, pieces, poisoned>>
            /\ wpc' = [wpc EXCEPT ![r] = "release"]
        BY <3>3 DEF Tell, Worker, WorkerOnly, requestVars, workerVars
      <4>5. \E to : wpc' = [wpc EXCEPT ![r] = to] /\ to # "emit"
        <5> WITNESS "release"
        <5> QED BY <4>4
      <4> QED BY <4>3, <4>4, <4>5
    <3> QED BY <1>4, <3>1, <3>2, <3>3
  <2>2. \A s \in Requests : Len(chan'[s]) <= ChanCap
    BY <1>0, <2>1, SendKeepsBound DEF Bounded
  <2>3. Bounded'
    BY <1>0, <2>1, <2>2 DEF Bounded
  <2> QED BY <1>0, <2>1, <2>3, StoreUntouched DEF TypeInv
<1>5. CASE EmitPiece(r)
  <2>1. /\ UNCHANGED storeVars /\ UNCHANGED <<messages, cancelled, poisoned>>
        /\ \E to : wpc' = [wpc EXCEPT ![r] = to] /\ to # "emit"
        /\ wpc[r] = "emit"
        /\ Send(r, "delta") \/ SendFails(r)
        /\ \/ pieces' = [pieces EXCEPT ![r] = @ + 1]
           \/ UNCHANGED pieces
    BY <1>5 DEF EmitPiece, Worker, WorkerOnly, requestVars, workerVars, Unlock
  <2>2. \A s \in Requests : Len(chan'[s]) <= ChanCap
    BY <1>0, <2>1, SendKeepsBound DEF Events
  <2>3. pieces[r] \in Nat /\ pieces[r] + 1 \in 0 .. MaxTokens
    BY <1>0, <2>1, ServerConstants DEF Bounded
  <2>4. Bounded'
    BY <1>0, <2>1, <2>2, <2>3 DEF Bounded
  <2> QED BY <1>0, <2>1, <2>4, StoreUntouched DEF TypeInv
<1>6. CASE Finish(r)
  <2>1. /\ UNCHANGED <<now, messages, cancelled, pieces, poisoned, chan>>
        /\ wpc' = [wpc EXCEPT ![r] = "tell"]
        /\ \/ UNCHANGED <<records, bytes>>
           \/ \E size \in Sizes : StoreInsert(r, messages[r], size + Len(messages[r]))
    BY <1>6 DEF Finish, Worker, requestVars, channelVars
  <2>2. Bounded'
    BY <1>0, <2>1 DEF Bounded
  <2>3. StoreInv'
    <3>1. CASE UNCHANGED <<records, bytes>>
      BY <1>0, <2>1, <3>1, StoreUntouched DEF storeVars
    <3>2. ASSUME NEW size \in Sizes, StoreInsert(r, messages[r], size + Len(messages[r]))
          PROVE  StoreInv'
      <4>1. messages[r] \in Seq(Ids) /\ r \in Ids
        BY <1>0 DEF Bounded, Requests
      <4>2. size + Len(messages[r]) \in Nat
        BY <4>1, LenProperties, StoreConstants
      <4> QED BY <1>0, <2>1, <3>2, <4>1, <4>2, InsertStep
    <3> QED BY <2>1, <3>1, <3>2
  <2> QED BY <2>2, <2>3 DEF TypeInv
<1> QED BY <1>1, <1>2, <1>3, <1>4, <1>5, <1>6 DEF WorkerStep

\* Every step of the server keeps it.
LEMMA NextTypeInv ==
  ASSUME PermitInv, OutcomeInv, TypeInv, [Next]_vars
  PROVE  TypeInv'
<1>0. StoreInv /\ Bounded /\ wpc \in [Requests -> WorkerPCs] /\ Shapes
  BY DEF TypeInv, PermitInv, Places, OutcomeInv
<1>1. CASE \E r \in Requests : HandlerStep(r) \/ WorkerStep(r)
  BY <1>1, HandlerTypes, WorkerTypes
<1>2. ASSUME NEW r \in Requests, Disconnect(r) PROVE TypeInv'
  <2>1. /\ UNCHANGED storeVars /\ UNCHANGED <<messages, pieces, poisoned, wpc>>
        /\ cancelled' = [cancelled EXCEPT ![r] = hpc[r] = "await" /\ Is(r, "plain")]
        /\ chan' = [chan EXCEPT ![r] = <<>>]
    BY <1>2 DEF Disconnect, workerVars
  <2>2. \A s \in Requests : Len(chan'[s]) <= ChanCap
    <3>1. Len(<<>>) = 0
      BY EmptySeq
    <3> QED BY <1>0, <2>1, <3>1, ServerConstants DEF Bounded, Shapes
  <2>3. cancelled' \in [Requests -> BOOLEAN]
    BY <1>0, <2>1, Zenon DEF Bounded
  <2>4. Bounded'
    BY <1>0, <2>1, <2>2, <2>3 DEF Bounded
  <2> QED BY <1>0, <2>1, <2>4, StoreUntouched DEF TypeInv
<1>3. CASE OtherStoreUse
  <2>1. UNCHANGED <<messages, cancelled, pieces, poisoned, chan, wpc>>
    BY <1>3 DEF OtherStoreUse, serverVars, channelVars, requestVars, workerVars
  <2>2. StoreInv'
    BY <1>0, <1>3, PruneStep, RemoveStep, TickStep DEF OtherStoreUse
  <2> QED BY <1>0, <2>1, <2>2 DEF TypeInv, Bounded
<1>4. CASE UNCHANGED vars
  BY <1>0, <1>4, StoreUntouched
     DEF vars, TypeInv, Bounded, serverVars, channelVars, requestVars, workerVars
<1> QED BY <1>1, <1>2, <1>3, <1>4 DEF Next

\* The store is well formed in the running server too, where every insertion,
\* lookup and deletion comes from a request at any moment.
THEOREM ServerTypeInvariant == Spec => []TypeInv
<1> QED BY InitTypeInv, NextTypeInv, OutcomeInvariant, PTL DEF Spec

\* Every variable of the server has the values its parts of the code can give it.
THEOREM ServerTypes == Spec => []TypeOK
<1>1. PermitInv /\ OutcomeInv /\ TypeInv => TypeOK
  BY StoreInvTypes DEF TypeOK, PermitInv, Places, Locked, OutcomeInv, Shapes, TypeInv, Bounded
<1> QED BY <1>1, OutcomeInvariant, ServerTypeInvariant, PTL

\* The running total that insertion evicts on is the true one in the running
\* server, and the store is within both bounds.
THEOREM ServerStoreConsistent == Spec => []StoreConsistent
<1>1. TypeInv => StoreConsistent
  BY DEF TypeInv, StoreInv
<1> QED BY <1>1, ServerTypeInvariant, PTL
===============================================================================
