---------------------------- MODULE ResponseStream ----------------------------
(***************************************************************************)
(* One streamed response, from the model's chunks to the events on the     *)
(* wire: generate (api.rs) pushes each chunk through the text filters, the *)
(* Encoder (protocol.rs) turns what they let through into the events of    *)
(* the protocol the client speaks, and the worker ends the stream with the *)
(* final object, which it has stored before, or with a failure.            *)
(*                                                                         *)
(* How the worker shares the server is GenerationServer's; here nobody     *)
(* else acts, the client reads everything, and what is checked is what it  *)
(* reads.                                                                  *)
(***************************************************************************)
EXTENDS TextFilters

CONSTANTS Settings,  \* [protocol, arch, choice] of the requests
          Chunks,    \* pieces of text the model may emit
          MaxChunks  \* bound on the pieces of one generation

ASSUME StreamSettings ==
  /\ Settings \subseteq [protocol : {"Chat", "Anthropic", "Responses"},
                         arch : {"qwen3", "qwen35", "plain"},
                         choice : {"none", "auto", "required", "named"}]
  /\ Chunks \subseteq Text /\ MaxChunks \in Nat

VARIABLES
  protocol,
  phase,    \* of generate: "generating", "stopped", "broken", "ended"
  fed,      \* the chunks so far
  think, stop, parser,
  seen,     \* all text the parser has been given
  encoder,
  wire,     \* the events the client has read
  outcome   \* what the worker made of it: [status, text, calls]

vars == <<protocol, phase, fed, think, stop, parser, seen, encoder, wire, outcome>>

-----------------------------------------------------------------------------
(* Encoder.  Each operation leaves the events it returns in events.        *)

NewEncoder ==
  [sequence |-> 0, text |-> <<>>, textIndex |-> 0, textClosed |-> FALSE,
   next |-> 1, calls |-> <<>>, failed |-> FALSE, events |-> <<>>]

\* event: only Responses numbers what it sends.
Events(e, types, index, text) ==
  LET number(i) == IF protocol = "Responses" THEN e.sequence + i - 1 ELSE e.sequence
      event(i) == [type |-> types[i], index |-> index, text |-> text, number |-> number(i)]
  IN [e EXCEPT !.events = @ \o [i \in DOMAIN types |-> event(i)],
               !.sequence = number(Len(types) + 1)]

Event(e, type, index, text) == Events(e, <<type>>, index, text)

\* The events for a step of an item, by protocol.
Types(chat, anthropic, responses) ==
  CASE protocol = "Chat"      -> chat
    [] protocol = "Anthropic" -> anthropic
    [] protocol = "Responses" -> responses

Start(e) ==
  Events(e, Types(<<"chunk">>, <<"message_start">>, <<"created", "in_progress">>),
         0, <<>>)

OpenText(e) ==
  IF e.textIndex # 0 /\ ~(protocol = "Anthropic" /\ e.textClosed) THEN e
  ELSE Events([e EXCEPT !.textClosed = FALSE, !.textIndex = e.next, !.next = @ + 1],
              Types(<<>>, <<"open">>, <<"open", "part_added">>), e.next, <<>>)

\* Mutant. Text that is closed is closed again.
CloseTextAgain(e) ==
  IF e.textIndex = 0 THEN e
  ELSE Events([e EXCEPT !.textClosed = TRUE],
              Types(<<>>, <<"close">>, <<"text_done", "part_done", "close">>),
              e.textIndex, e.text)

CloseText(e) ==
  IF e.textIndex = 0 \/ e.textClosed THEN e
  ELSE Events([e EXCEPT !.textClosed = TRUE],
              Types(<<>>, <<"close">>, <<"text_done", "part_done", "close">>),
              e.textIndex, e.text)

CloseCall(e, k) ==
  IF k \notin DOMAIN e.calls \/ e.calls[k].closed THEN e
  ELSE Events([e EXCEPT !.calls[k].closed = TRUE],
              Types(<<>>, <<"close">>, <<"arguments_done", "close">>),
              e.calls[k].index, e.calls[k].text)

Failure(e) ==
  IF e.failed THEN e
  ELSE Events([e EXCEPT !.failed = TRUE],
              Types(<<"error", "DONE">>, <<"error">>, <<"error", "failed">>),
              0, <<>>)

TextDelta(e, d) ==
  LET o == OpenText(e) IN
  Event([o EXCEPT !.text = @ \o d.text], "text_delta", o.textIndex, d.text)

ToolStart(e) ==
  LET c == IF protocol = "Anthropic" THEN CloseText(e) ELSE e IN
  Event([c EXCEPT !.next = @ + 1,
                  !.calls = Append(@, [index |-> c.next, text |-> <<>>,
                                       closed |-> FALSE])],
        IF protocol = "Chat" THEN "tool_delta" ELSE "open", c.next, <<>>)

ToolArguments(e, d) ==
  IF d.index \notin DOMAIN e.calls THEN Failure(e)
  ELSE Event([e EXCEPT !.calls[d.index].text = @ \o d.text],
             "tool_delta", e.calls[d.index].index, d.text)

Delta(e, d) ==
  CASE e.failed -> e
    [] /\ ~e.failed /\ protocol = "Responses" /\ e.calls # <<>>
       /\ d.tag = "Text" /\ ~Blank(d.text) -> Failure(e)
    [] OTHER ->
         CASE d.tag = "Text"          -> TextDelta(e, d)
           [] d.tag = "ToolStart"     -> ToolStart(e)
           [] d.tag = "ToolArguments" -> ToolArguments(e, d)
           [] d.tag = "ToolEnd"       -> CloseCall(e, d.index)

Deltas(e, deltas) ==
  LET after[n \in 0 .. Len(deltas)] ==
        IF n = 0 THEN e ELSE Delta(after[n - 1], deltas[n])
  IN after[Len(deltas)]

CloseCalls(e) ==
  LET closed[k \in 0 .. Len(e.calls)] ==
        IF k = 0 THEN e ELSE CloseCall(closed[k - 1], k)
  IN closed[Len(e.calls)]

\* finish: every item is opened and closed, an empty response has one too.
EncoderFinish(e, limited) ==
  LET o == IF e.textIndex = 0 /\ e.calls = <<>> THEN OpenText(e) ELSE e
  IN IF e.failed THEN e
     ELSE Events(CloseCalls(CloseText(o)),
                 Types(<<"chunk", "DONE">>, <<"message_delta", "message_stop">>,
                       <<IF limited THEN "incomplete" ELSE "completed">>),
                 0, <<>>)

-----------------------------------------------------------------------------
(* generate, and the worker around it.                                     *)

\* send: the client gets the events.
Send(e) ==
  /\ wire' = wire \o e.events
  /\ encoder' = [e EXCEPT !.events = <<>>]

Init ==
  /\ \E s \in Settings:
       protocol = s.protocol /\ parser = NewParser(s.arch, s.choice)
  /\ phase = "generating" /\ fed = 0 /\ seen = <<>>
  /\ think = Thinking("Unknown", <<>>, <<>>)
  /\ stop = Stopping(<<>>, 0, <<>>)
  /\ LET e == Start(NewEncoder) IN
       wire = e.events /\ encoder = [e EXCEPT !.events = <<>>]
  /\ outcome = [status |-> "none", text |-> <<>>, calls |-> <<>>]

\* The filters on one chunk; the vision model's text is not searched for
\* reasoning.
Think(text) ==
  IF parser.arch = "plain" THEN [think EXCEPT !.out = text] ELSE ThinkPush(think, text)

\* on_token: the deltas of a chunk the parser refuses are dropped.
OnToken(chunk) ==
  /\ phase = "generating" /\ fed < MaxChunks
  /\ fed' = fed + 1
  /\ think' = Think(chunk)
  /\ stop' = StopPush(stop, think'.out)
  /\ seen' = seen \o stop'.out
  /\ parser' = ParserPush(parser, stop'.out)
  /\ phase' = CASE parser'.error -> "broken"
                [] ~parser'.error /\ stop'.hit # 0 -> "stopped"
                [] OTHER -> "generating"
  /\ Send(Deltas(encoder, parser'.deltas))
  /\ UNCHANGED <<protocol, outcome>>

\* What generate does when the model has stopped: what the filters still
\* hold goes through the ones after them.
Rest ==
  LET s == StopPush(stop, ThinkFinish(think))
      p1 == ParserPush(parser, s.out)
      p2 == ParserPush(p1, s.pending)
      p3 == ParserFinish(p2)
  IN [text |-> s.out \o s.pending, parser |-> p3,
      ok |-> ~p1.error /\ ~p2.error /\ ~p3.error,
      deltas |-> CASE p1.error -> <<>>
                   [] ~p1.error /\ p2.error -> p1.deltas
                   [] ~p1.error /\ ~p2.error /\ p3.error -> p1.deltas \o p2.deltas
                   [] OTHER -> p1.deltas \o p2.deltas \o p3.deltas]

Conclude(status) ==
  /\ phase' = "ended"
  /\ outcome' = [status |-> status, text |-> parser'.text, calls |-> parser'.calls]
  /\ UNCHANGED <<protocol, fed, think, stop>>

\* Mutant. The final events are sent before the response is stored.
FinishSendsFirst(stores) ==
  /\ phase \in {"generating", "stopped"}
  /\ \E rest \in {Rest}: \E e \in {Deltas(encoder, rest.deltas)}:
       /\ parser' = rest.parser /\ seen' = seen \o rest.text
       /\ \/ ~rest.ok /\ stores /\ Send(Failure(e)) /\ Conclude("failed")
          \/ /\ rest.ok
             /\ \E limited \in BOOLEAN: \E f \in {EncoderFinish(e, limited)}:
                  \/ stores /\ Send(f) /\ Conclude("completed")
                  \/ /\ ~stores /\ protocol = "Responses"
                     /\ Send(Failure(f)) /\ Conclude("unstored")

\* The model has stopped.  A Responses result is stored before its events
\* are sent; when it cannot be (stores is false), they are dropped.
Finish(stores) ==
  /\ phase \in {"generating", "stopped"}
  /\ \E rest \in {Rest}: \E e \in {Deltas(encoder, rest.deltas)}:
       /\ parser' = rest.parser /\ seen' = seen \o rest.text
       /\ \/ ~rest.ok /\ stores /\ Send(Failure(e)) /\ Conclude("failed")
          \/ /\ rest.ok
             /\ \E limited \in BOOLEAN: \E f \in {EncoderFinish(e, limited)}:
                  \/ stores /\ Send(f) /\ Conclude("completed")
                  \/ /\ ~stores /\ protocol = "Responses"
                     /\ Send(Failure([f EXCEPT !.events = e.events]))
                     /\ Conclude("unstored")

\* The parser refused a chunk, or the model's runtime failed.
Fail ==
  /\ phase \in {"generating", "stopped", "broken"}
  /\ Send(Failure(encoder))
  /\ UNCHANGED <<parser, seen>>
  /\ Conclude("failed")

Next ==
  \/ \E chunk \in Chunks: OnToken(chunk)
  \/ \E stores \in BOOLEAN: Finish(stores)
  \/ Fail

Spec == Init /\ [][Next]_vars
-----------------------------------------------------------------------------
\* What the client makes of the events of one type.
Said(events, type) ==
  LET after[n \in 0 .. Len(events)] ==
        IF n = 0 THEN <<>>
        ELSE IF events[n].type = type THEN after[n - 1] \o events[n].text
        ELSE after[n - 1]
  IN after[Len(events)]
Texts(type) == Said(wire, type)

\* What is held back where.  The stop filter, the parser outside a call and
\* the think filter once it has seen a tag hold the start of what they look
\* for, and no more.  A think filter that is undecided holds anything that
\* begins, after blanks, with "<", a tool call for one, and not only "while it
\* could still turn into the opener", as the comment at think.rs:18 has it.
TypeOK ==
  /\ phase \in {"generating", "stopped", "broken", "ended"}
  /\ fed \in 0 .. MaxChunks
  /\ think.state \in {"Unknown", "Open", "OrphanClose", "Passthrough"}
  /\ think.state = "Unknown" =>
       LET text == TrimStart(think.pending) IN text # <<>> => Head(text) = "<"
  /\ think.state = "Open" => IsStrictPrefix(think.pending, THINK_CLOSE)
  /\ think.state = "OrphanClose" => IsStrictPrefix(TrimStart(think.pending), THINK_OPEN)
  /\ think.state = "Passthrough" => think.pending = <<>>
  /\ stop.pending \in ProperPrefixes \cup {<<>>}
  /\ stop.hit \in 0 .. Len(Stops) /\ (stop.hit # 0 => stop.pending = <<>>)
  /\ ~parser.error /\ ~parser.inCall => IsStrictPrefix(parser.pending, OPEN)
                                        \/ IsPrefix(parser.pending, <<"<", "/">>)
  /\ encoder.events = <<>> /\ encoder.next \in Nat \ {0}

\* No stop sequence reaches the client, however the model's text was cut
\* into chunks and whatever the filters before and after hold back.
NoStopReachesClient ==
  \A s \in ToSet(Stops): Finds(Texts("text_delta"), s) = {}

\* The parser makes of its text what it would make of it in one piece: what
\* it keeps from chunk to chunk is enough.
ParsedAsWhole ==
  phase # "ended" =>
    LET whole == ParserPush(NewParser(parser.arch, parser.choice), seen) IN
    /\ parser.error = whole.error
    /\ ~parser.error =>
         [parser EXCEPT !.deltas = <<>>] = [whole EXCEPT !.deltas = <<>>]

\* A stream that ends well has said everything the result holds: its items
\* were opened in order, each once, closed once after that, and what was added
\* to one came in between; the pieces make up the result's text and calls,
\* which is what the store has.
StreamTellsResult ==
  outcome.status = "completed" =>
    LET items == Len(outcome.calls)
                   + IF outcome.text # <<>> \/ outcome.calls = <<>> THEN 1 ELSE 0
        Of(type, n) == {i \in DOMAIN wire: wire[i].type = type /\ wire[i].index = n}
    IN /\ Texts("text_delta") = outcome.text
       /\ Texts("tool_delta") = FlattenSeq(outcome.calls)
       /\ protocol # "Chat" =>
            /\ \A n \in 1 .. items: \E i, j \in DOMAIN wire:
                 /\ i < j /\ Of("open", n) = {i} /\ Of("close", n) = {j}
                 /\ Of("text_delta", n) \cup Of("tool_delta", n) \subseteq i .. j
            /\ \A i \in DOMAIN wire:
                 wire[i].type \in {"open", "close", "text_delta", "tool_delta"} =>
                   wire[i].index \in 1 .. items
            /\ \A i, j \in DOMAIN wire:
                 wire[i].type = "open" /\ wire[j].type = "open" /\ i < j =>
                   wire[i].index < wire[j].index

Terminal == {"DONE", "message_stop", "completed", "incomplete", "failed"}
            \cup (IF protocol = "Anthropic" THEN {"error"} ELSE {})

\* The stream ends with one terminal event, the right one, and a Responses
\* client can count on its numbers: none repeats, none goes back, and one is
\* missing only before the failure of a response that could not be stored.
StreamEndsOnce ==
  /\ \A i \in 1 .. Len(wire) - 1: wire[i].type \notin Terminal
  /\ phase = "ended" =>
       /\ wire[Len(wire)].type \in Terminal
       /\ outcome.status # "completed" <=> \E i \in DOMAIN wire: wire[i].type = "error"
  /\ protocol = "Responses" => \A i \in DOMAIN wire:
       /\ i = 1 => wire[i].number = 0
       /\ i > 1 =>
            \/ wire[i].number = wire[i - 1].number + 1
            \/ /\ outcome.status = "unstored" /\ wire[i].type = "error"
               /\ wire[i].number > wire[i - 1].number
=============================================================================
