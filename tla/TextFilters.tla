----------------------------- MODULE TextFilters -----------------------------
(***************************************************************************)
(* What generated text passes through on its way to a client: ThinkFilter  *)
(* (think.rs) drops a leading block of reasoning, StopFilter (stop.rs)     *)
(* cuts at the first stop sequence, OutputParser (tools.rs) separates tool *)
(* calls from text.  Each is fed chunks cut anywhere, and holds back what  *)
(* it cannot decide about yet.                                             *)
(*                                                                         *)
(* Text is a sequence of symbols that keeps what the tags have in common:  *)
(* "<" "t" "h" is <think>, "<" "/" "h" is </think>, "<" "t" "o" ">" is     *)
(* <tool_call>, "<" "/" "o" ">" is </tool_call>.  Function and parameter   *)
(* tags, the escape in a JSON string and the 1 MiB limit are left out.     *)
(***************************************************************************)
EXTENDS Naturals, SequencesExt

CONSTANTS Symbols,  \* what a text is made of
          Stops,    \* the stop sequences, a sequence
          Bodies    \* the well-formed calls: body to function name

Text == Seq(Symbols)

\* Requests with an empty stop sequence are refused.
ASSUME FilterConstants ==
  /\ {"<", "/", "t", "h", "o", ">", " ", "\""} \subseteq Symbols
  /\ Stops \in Seq(Text \ {<<>>})
  /\ DOMAIN Bodies \subseteq Text

THINK_OPEN  == <<"<", "t", "h">>
THINK_CLOSE == <<"<", "/", "h">>
OPEN        == <<"<", "t", "o", ">">>
CLOSE       == <<"<", "/", "o", ">">>
MARKERS     == {<<"<", "t", "o">>, <<"<", "/", "o">>}

\* Where s occurs in text, as the lengths before it.
Finds(text, s) ==
  {i \in 0 .. Len(text) - Len(s): SubSeq(text, i + 1, i + Len(s)) = s}

First(S) == CHOOSE i \in S: \A j \in S: i <= j
Drop(text, n) == SubSeq(text, n + 1, Len(text))
Take(text, n) == SubSeq(text, 1, n)
Blank(text) == ToSet(text) \subseteq {" "}
TrimStart(text) ==
  Drop(text, First({n \in 0 .. Len(text): n = Len(text) \/ text[n + 1] # " "}))

\* How much of text comes before its longest suffix among prefixes: what is
\* held back starts there.
HeldFrom(text, prefixes) ==
  First({n \in 0 .. Len(text): Drop(text, n) \in prefixes \cup {<<>>}})

-----------------------------------------------------------------------------
(* ThinkFilter.  Each push returns the filter and the text it lets through *)

Thinking(state, pending, out) == [state |-> state, pending |-> pending, out |-> out]

AdvanceOpen(pending) ==
  LET at == Finds(pending, THINK_CLOSE) IN
  IF at # {}
  THEN Thinking("Passthrough", <<>>, Drop(pending, First(at) + Len(THINK_CLOSE)))
  ELSE Thinking("Open", Drop(pending, HeldFrom(pending, Prefixes(THINK_CLOSE))), <<>>)

\* The text starts with "<" but with no tag: a close inside it may start the
\* block, and what follows it is dropped unless it is "<think>" at once;
\* without a close everything is held.
AdvanceEmbedded(pending) ==
  LET text == TrimStart(pending)
      at == Finds(text, THINK_CLOSE)
      after == Drop(text, First(at) + Len(THINK_CLOSE))
  IN CASE at # {} /\ IsPrefix(THINK_OPEN, after) ->
            AdvanceOpen(Drop(after, Len(THINK_OPEN)))
       [] at # {} /\ IsPrefix(TrimStart(after), THINK_OPEN) ->
            Thinking("OrphanClose", <<>>, <<>>)
       [] OTHER -> Thinking("Unknown", pending, <<>>)

AdvanceUnknown(pending) ==
  LET text == TrimStart(pending) IN
  CASE IsPrefix(THINK_OPEN, pending) ->
         AdvanceOpen(Drop(pending, Len(THINK_OPEN)))
    [] IsPrefix(THINK_CLOSE, pending) -> Thinking("OrphanClose", <<>>, <<>>)
    [] OTHER ->
         IF \E tag \in {THINK_OPEN, THINK_CLOSE}: IsPrefix(text, tag)
         THEN Thinking("Unknown", pending, <<>>)
         ELSE IF Head(text) = "<" THEN AdvanceEmbedded(pending)
              ELSE Thinking("Passthrough", <<>>, pending)

AdvanceOrphanClose(pending) ==
  LET text == TrimStart(pending) IN
  CASE IsPrefix(THINK_OPEN, text) -> AdvanceOpen(Drop(text, Len(THINK_OPEN)))
    [] IsStrictPrefix(text, THINK_OPEN) -> Thinking("OrphanClose", pending, <<>>)
    [] OTHER -> Thinking("Passthrough", <<>>, pending)

ThinkPush(f, text) ==
  CASE f.state = "Passthrough" -> Thinking("Passthrough", f.pending, text)
    [] f.state = "Unknown"     -> AdvanceUnknown(f.pending \o text)
    [] f.state = "Open"        -> AdvanceOpen(f.pending \o text)
    [] f.state = "OrphanClose" -> AdvanceOrphanClose(f.pending \o text)

\* What finish lets through: a block that never closed is dropped.
ThinkFinish(f) == IF f.state = "Open" THEN <<>> ELSE f.pending

-----------------------------------------------------------------------------
(* StopFilter.  hit is the index of the sequence found, 0 for none.        *)

Stopping(pending, hit, out) == [pending |-> pending, hit |-> hit, out |-> out]

ProperPrefixes == UNION {Prefixes(s) \ {s, <<>>} : s \in ToSet(Stops)}

\* Mutant. What may be the start of a stop sequence is let through.
StopPushHoldsNothing(f, text) ==
  LET pending == f.pending \o text
      found == UNION {Finds(pending, Stops[i]) : i \in DOMAIN Stops}
      hit == First({i \in DOMAIN Stops: First(found) \in Finds(pending, Stops[i])})
  IN CASE f.hit # 0 -> Stopping(f.pending, f.hit, <<>>)
       [] f.hit = 0 /\ found # {} ->
            Stopping(<<>>, hit, Take(pending, First(found)))
       [] OTHER -> Stopping(<<>>, 0, pending)

\* Mutant. The match stays pending after the hit.
StopPushKeepsMatch(f, text) ==
  LET pending == f.pending \o text
      found == UNION {Finds(pending, Stops[i]) : i \in DOMAIN Stops}
      hit == First({i \in DOMAIN Stops: First(found) \in Finds(pending, Stops[i])})
      kept == HeldFrom(pending, ProperPrefixes)
  IN CASE f.hit # 0 -> Stopping(f.pending, f.hit, <<>>)
       [] f.hit = 0 /\ found # {} ->
            Stopping(Drop(pending, First(found)), hit, Take(pending, First(found)))
       [] OTHER -> Stopping(Drop(pending, kept), 0, Take(pending, kept))

\* The earliest match ends the text, the first listed of those that start
\* there; otherwise what may be the start of one is held.
StopPush(f, text) ==
  LET pending == f.pending \o text
      found == UNION {Finds(pending, Stops[i]) : i \in DOMAIN Stops}
      hit == First({i \in DOMAIN Stops: First(found) \in Finds(pending, Stops[i])})
      kept == HeldFrom(pending, ProperPrefixes)
  IN CASE f.hit # 0 -> Stopping(f.pending, f.hit, <<>>)
       [] f.hit = 0 /\ found # {} ->
            Stopping(<<>>, hit, Take(pending, First(found)))
       [] OTHER -> Stopping(Drop(pending, kept), 0, Take(pending, kept))

-----------------------------------------------------------------------------
(* OutputParser.  deltas is what the last call of it returned.             *)

NewParser(arch, choice) ==
  [arch |-> arch, choice |-> choice, pending |-> <<>>, inCall |-> FALSE,
   scan |-> 0, quoted |-> FALSE, text |-> <<>>, calls |-> <<>>,
   error |-> FALSE, deltas |-> <<>>]

Broken(p) == [p EXCEPT !.error = TRUE, !.deltas = <<>>]

\* Text after a call is an error, unless it is blank.
EmitText(p, text) ==
  CASE text = <<>> -> p
    [] text # <<>> /\ p.calls = <<>> ->
         [p EXCEPT !.text = @ \o text,
                   !.deltas = Append(@, [tag |-> "Text", index |-> 0, text |-> text])]
    [] text # <<>> /\ p.calls # <<>> -> IF Blank(text) THEN p ELSE Broken(p)

\* Mutant. Each chunk of a call is scanned as if it started outside quotes.
CallCloseForgetsQuotes(p) ==
  LET quoted[i \in p.scan .. Len(p.pending)] ==
        IF i = p.scan THEN FALSE
        ELSE quoted[i - 1] # (p.arch = "qwen3" /\ p.pending[i] = "\"")
      closes == {i \in p.scan .. Len(p.pending):
                   /\ ~quoted[i]
                   /\ i < Len(p.pending) /\ p.pending[i + 1] = "<"
                   /\ \/ IsPrefix(CLOSE, Drop(p.pending, i))
                      \/ IsPrefix(Drop(p.pending, i), CLOSE)}
      stop == First(closes \cup {Len(p.pending)})
  IN [scan |-> stop, quoted |-> quoted[stop]]

\* How far call_close scans from where it left off: to a closing tag or the
\* start of one outside quotes, or to the end.
CallClose(p) ==
  LET quoted[i \in p.scan .. Len(p.pending)] ==
        IF i = p.scan THEN p.quoted
        ELSE quoted[i - 1] # (p.arch = "qwen3" /\ p.pending[i] = "\"")
      closes == {i \in p.scan .. Len(p.pending):
                   /\ ~quoted[i]
                   /\ i < Len(p.pending) /\ p.pending[i + 1] = "<"
                   /\ \/ IsPrefix(CLOSE, Drop(p.pending, i))
                      \/ IsPrefix(Drop(p.pending, i), CLOSE)}
      stop == First(closes \cup {Len(p.pending)})
  IN [scan |-> stop, quoted |-> quoted[stop]]

\* A call whose body is the first n symbols of pending.
EndCall(p, n) ==
  LET body == Take(p.pending, n)
      index == Len(p.calls) + 1
      Part(tag) == [tag |-> tag, index |-> index, text |-> body]
  IN IF body \notin DOMAIN Bodies THEN Broken(p)
     ELSE [p EXCEPT !.deltas = @ \o <<Part("ToolStart"), Part("ToolArguments"),
                                      Part("ToolEnd")>>,
                    !.calls = Append(@, body),
                    !.pending = Drop(@, n + Len(CLOSE)),
                    !.inCall = FALSE, !.scan = 0, !.quoted = FALSE]

\* drain's loop goes on when a call ends or one begins.
Markers(p) == UNION {Finds(p.pending, tag) : tag \in MARKERS}
Ends(p) ==
  ~p.error /\ p.inCall /\ IsPrefix(CLOSE, Drop(p.pending, CallClose(p).scan))
Begins(p) ==
  /\ ~p.error /\ ~p.inCall /\ p.choice # "none"
  /\ Markers(p) # {} /\ IsPrefix(OPEN, Drop(p.pending, First(Markers(p))))

Begin(p) ==
  LET before == EmitText(p, Take(p.pending, First(Markers(p)))) IN
  [before EXCEPT !.pending = Drop(@, First(Markers(p)) + Len(OPEN)),
                 !.inCall = ~before.error]

Turn(p) ==
  CASE Ends(p)   -> EndCall(p, CallClose(p).scan)
    [] Begins(p) -> Begin(p)
    [] OTHER     -> p

\* What it does in the turn that leaves the loop.
Settle(p) ==
  LET close == CallClose(p)
      at == First(Markers(p))
      held == HeldFrom(p.pending, UNION {Prefixes(tag) : tag \in MARKERS})
  IN CASE p.error -> p
       [] ~p.error /\ p.inCall -> [p EXCEPT !.scan = close.scan, !.quoted = close.quoted]
       [] ~p.error /\ ~p.inCall /\ Markers(p) = {} ->
            EmitText([p EXCEPT !.pending = Drop(@, held)], Take(p.pending, held))
       [] OTHER ->
            IF IsStrictPrefix(Drop(p.pending, at), OPEN)
            THEN EmitText([p EXCEPT !.pending = Drop(@, at)], Take(p.pending, at))
            ELSE Broken(p)

\* Every turn that goes on takes a tag out of pending.
Drain(p) ==
  LET most == Len(p.pending) \div Len(OPEN)
      turns[n \in 0 .. most] == IF n = 0 THEN p ELSE Turn(turns[n - 1])
  IN Settle(turns[most])

ParserPush(p, text) ==
  CASE p.error -> Broken(p)
    [] ~p.error /\ p.arch = "plain" -> EmitText([p EXCEPT !.deltas = <<>>], text)
    [] OTHER -> Drain([p EXCEPT !.deltas = <<>>, !.pending = @ \o text])

\* finish: a call or a tag cut short is an error, and so is a tool choice
\* that was not followed; "named" stands for a choice of the function f.
ParserFinish(p) ==
  LET d == Drain([p EXCEPT !.deltas = <<>>])
      cut == Len(d.pending) > 1 /\ \E tag \in MARKERS: IsPrefix(d.pending, tag)
      t == EmitText([d EXCEPT !.pending = <<>>], d.pending)
      unmet == \/ p.choice \in {"required", "named"} /\ t.calls = <<>>
               \/ p.choice = "named" /\ \E c \in ToSet(t.calls): Bodies[c] # "f"
  IN IF d.error \/ d.inCall \/ cut \/ unmet THEN Broken(d) ELSE t
=============================================================================
