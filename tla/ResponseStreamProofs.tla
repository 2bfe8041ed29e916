------------------------- MODULE ResponseStreamProofs -------------------------
(***************************************************************************)
(* What a streamed response tells its client, for every cut of the model's *)
(* text into chunks, all stop sequences and all calls: the invariant is    *)
(* StreamInv, in the last part.                                            *)
(*                                                                         *)
(* The argument goes up in layers.  Page says what the events of a stream  *)
(* that goes on add up to, and each event more changes that (PageMore).    *)
(* Told says that an encoder has told a text and some calls; the deltas of *)
(* a text and of a call extend it (TextTold, CallTold).  ParserTold says   *)
(* that what the parser has made of its text has been told; each turn of   *)
(* drain keeps it (EndTold, BeginTold), so a push and a finish do.  Then   *)
(* what is left is the last events, which end the stream (FinishEnds,      *)
(* FailureEnds).                                                           *)
(*                                                                         *)
(* That the cuts make no difference is proved from ChunkedParse            *)
(* (TextFiltersProofs), with StreamInv for what the parser is given.       *)
(***************************************************************************)
EXTENDS ResponseStream, TextFiltersProofs

-----------------------------------------------------------------------------
(* What an encoder adds to its events.                                     *)

Protocols == {"Chat", "Anthropic", "Responses"}
EventTypes ==
  {"chunk", "message_start", "created", "in_progress", "open", "part_added", "close",
   "text_done", "part_done", "arguments_done", "error", "DONE", "failed", "text_delta",
   "tool_delta", "message_delta", "message_stop", "incomplete", "completed"}
EventSet == [type : EventTypes, index : Nat, text : Text, number : Nat]
CallSet == [index : Nat, text : Text, closed : BOOLEAN]
Encoders ==
  [sequence : Nat, text : Text, textIndex : Nat, textClosed : BOOLEAN, next : Nat,
   calls : Seq(CallSet), failed : BOOLEAN, events : Seq(EventSet)]

\* An event of e.
TheEvent(e, type, index, text) ==
  [type |-> type, index |-> index, text |-> text, number |-> e.sequence]

\* The number after n events more.
Later(e, n) == IF protocol = "Responses" THEN e.sequence + n ELSE e.sequence

\* e with other events and another number.
With(e, events, sequence) == [e EXCEPT !.events = events, !.sequence = sequence]

\* Changing the events and the number of e leaves the rest of it.
LEMMA WithIs ==
  ASSUME NEW e \in Encoders, NEW events \in Seq(EventSet), NEW sequence \in Nat
  PROVE  /\ With(e, events, sequence) \in Encoders
         /\ With(e, events, sequence).events = events
         /\ With(e, events, sequence).sequence = sequence
         /\ With(e, events, sequence).text = e.text
         /\ With(e, events, sequence).textIndex = e.textIndex
         /\ With(e, events, sequence).textClosed = e.textClosed
         /\ With(e, events, sequence).next = e.next
         /\ With(e, events, sequence).calls = e.calls
         /\ With(e, events, sequence).failed = e.failed
         /\ \A es, n : With(With(e, events, sequence), es, n) = With(e, es, n)
         /\ With(e, e.events, e.sequence) = e
  BY DEF With, Encoders

\* The number after some events is a number, and after none the one before.
LEMMA LaterIs ==
  ASSUME NEW e \in Encoders, NEW n \in Nat
  PROVE  Later(e, n) \in Nat /\ Later(e, 0) = e.sequence
<1>1. e.sequence \in Nat
  BY DEF Encoders
<1> QED BY <1>1 DEF Later

\* The events of a step, as the model lists them.
Numbered(e, types, index, text) ==
  [i \in DOMAIN types |->
     [type |-> types[i], index |-> index, text |-> text,
      number |-> IF protocol = "Responses" THEN e.sequence + i - 1 ELSE e.sequence]]

\* Several events.
LEMMA EventsAre ==
  ASSUME NEW e \in Encoders, NEW types \in Seq(EventTypes), NEW index \in Nat, NEW text \in Text
  PROVE  /\ Numbered(e, types, index, text) \in Seq(EventSet)
         /\ Len(Numbered(e, types, index, text)) = Len(types)
         /\ e.events \o Numbered(e, types, index, text) \in Seq(EventSet)
         /\ Events(e, types, index, text) =
              With(e, e.events \o Numbered(e, types, index, text), Later(e, Len(types)))
         /\ Events(e, types, index, text) \in Encoders
<1> DEFINE number(i) == IF protocol = "Responses" THEN e.sequence + i - 1 ELSE e.sequence
           event(i) == [type |-> types[i], index |-> index, text |-> text, number |-> number(i)]
           new == [i \in DOMAIN types |-> event(i)]
<1>1. /\ e.sequence \in Nat /\ e.events \in Seq(EventSet) /\ Len(types) \in Nat
      /\ DOMAIN types = 1 .. Len(types) /\ \A i \in 1 .. Len(types) : types[i] \in EventTypes
  BY ElementOfSeq, LenProperties DEF Encoders
<1>2. \A i \in 1 .. Len(types) : number(i) \in Nat
  BY <1>1
<1>3. \A i \in 1 .. Len(types) : event(i) \in EventSet
  <2> HIDE DEF number
  <2> QED BY <1>1, <1>2 DEF EventSet
<1>4. new \in Seq(EventSet) /\ Len(new) = Len(types)
  <2> HIDE DEF event
  <2>1. new = [i \in 1 .. Len(types) |-> event(i)]
    BY <1>1
  <2> HIDE DEF new
  <2> QED BY <1>1, <1>3, <2>1, IsASeq, LenProperties
<1>5. new = Numbered(e, types, index, text)
  BY DEF Numbered
<1>6. number(Len(types) + 1) = Later(e, Len(types))
  BY <1>1 DEF Later
<1>7. Events(e, types, index, text) = With(e, e.events \o new, number(Len(types) + 1))
  BY DEF Events, With
<1>8. e.events \o new \in Seq(EventSet)
  <2> HIDE DEF new
  <2> QED BY <1>1, <1>4, ConcatProperties
<1> HIDE DEF new, number
<1>9. Events(e, types, index, text) \in Encoders
  <2> DEFINE es == e.events \o new
             k == Later(e, Len(types))
  <2>1. k \in Nat
    BY <1>1, LaterIs
  <2>2. es \in Seq(EventSet)
    BY <1>8
  <2> HIDE DEF es, k
  <2>3. With(e, es, k) \in Encoders
    BY <2>1, <2>2, WithIs
  <2> QED BY <1>6, <1>7, <2>3 DEF es, k
<1> QED BY <1>4, <1>5, <1>6, <1>7, <1>8, <1>9

\* No event.
LEMMA NoEvents ==
  ASSUME NEW e \in Encoders, NEW index \in Nat, NEW text \in Text
  PROVE  Events(e, <<>>, index, text) = e
<1> DEFINE new == Numbered(e, <<>>, index, text)
<1>1. <<>> \in Seq(EventTypes) /\ Len(<<>>) = 0
  OBVIOUS
<1>2. /\ new \in Seq(EventSet) /\ Len(new) = Len(<<>>)
      /\ Events(e, <<>>, index, text) = With(e, e.events \o new, Later(e, Len(<<>>)))
  BY <1>1, EventsAre
<1> HIDE DEF new
<1>3. new = <<>>
  BY <1>1, <1>2, EmptySeq
<1>4. e.events \o <<>> = e.events
  <2>1. e.events \in Seq(EventSet)
    BY DEF Encoders
  <2> QED BY <2>1, ConcatEmptySeq
<1>5. Later(e, Len(<<>>)) = e.sequence
  BY <1>1, LaterIs
<1>6. With(e, e.events, e.sequence) = e
  <2>1. e.events \in Seq(EventSet) /\ e.sequence \in Nat
    BY DEF Encoders
  <2> QED BY <2>1, WithIs
<1> QED BY <1>2, <1>3, <1>4, <1>5, <1>6

\* One event.
LEMMA EventIs ==
  ASSUME NEW e \in Encoders, NEW type \in EventTypes, NEW index \in Nat, NEW text \in Text
  PROVE  /\ TheEvent(e, type, index, text) \in EventSet
         /\ Append(e.events, TheEvent(e, type, index, text)) \in Seq(EventSet)
         /\ Event(e, type, index, text) =
              With(e, Append(e.events, TheEvent(e, type, index, text)), Later(e, 1))
         /\ Event(e, type, index, text) \in Encoders
<1> DEFINE new == Numbered(e, <<type>>, index, text)
           ev == TheEvent(e, type, index, text)
           es == e.events
<1>1. <<type>> \in Seq(EventTypes) /\ Len(<<type>>) = 1 /\ DOMAIN <<type>> = 1 .. 1
      /\ <<type>>[1] = type
  OBVIOUS
<1>2. /\ new \in Seq(EventSet) /\ Len(new) = Len(<<type>>)
      /\ Events(e, <<type>>, index, text) = With(e, es \o new, Later(e, Len(<<type>>)))
      /\ Events(e, <<type>>, index, text) \in Encoders
  BY <1>1, EventsAre
<1>3. e.sequence \in Nat /\ es \in Seq(EventSet)
  BY DEF Encoders
<1>4. ev \in EventSet
  BY <1>3 DEF EventSet, TheEvent
<1>5. new[1] = ev
  <2>1. new[1] = [type |-> <<type>>[1], index |-> index, text |-> text,
                  number |-> IF protocol = "Responses" THEN e.sequence + 1 - 1 ELSE e.sequence]
    BY <1>1 DEF Numbered
  <2> QED BY <1>1, <1>3, <2>1 DEF TheEvent
<1> HIDE DEF new, ev, es
<1>6. new = <<ev>>
  <2>1. <<ev>> \in Seq(EventSet) /\ Len(<<ev>>) = 1 /\ <<ev>>[1] = ev
    BY <1>4
  <2>2. Len(new) = Len(<<ev>>) /\ \A i \in 1 .. Len(new) : new[i] = <<ev>>[i]
    BY <1>1, <1>2, <1>5, <2>1
  <2>3. new \in Seq(EventSet)
    BY <1>2
  <2> QED BY <2>1, <2>2, <2>3, SeqEqual
<1>7. es \o <<ev>> = Append(es, ev) /\ Append(es, ev) \in Seq(EventSet)
  BY <1>3, <1>4, AppendIsConcat, AppendProperties
<1>8. Event(e, type, index, text) = Events(e, <<type>>, index, text)
  BY DEF Event
<1>9. Event(e, type, index, text) = With(e, Append(es, ev), Later(e, 1))
  BY <1>1, <1>2, <1>6, <1>7, <1>8
<1> QED BY <1>2, <1>4, <1>7, <1>8, <1>9 DEF ev, es

\* Events come one after another.
LEMMA EventsSplit ==
  ASSUME NEW e \in Encoders, NEW types \in Seq(EventTypes), NEW type \in EventTypes,
         NEW index \in Nat, NEW text \in Text
  PROVE  Events(e, Append(types, type), index, text) =
           Event(Events(e, types, index, text), type, index, text)
<1> DEFINE n == Len(types)
           es == e.events
           both == Append(types, type)
           mid == Events(e, types, index, text)
           new == Numbered(e, types, index, text)
           more == Numbered(e, both, index, text)
           ev == TheEvent(mid, type, index, text)
<1>1. e.sequence \in Nat /\ es \in Seq(EventSet) /\ n \in Nat /\ DOMAIN types = 1 .. n
  BY LenProperties DEF Encoders
<1>2. /\ both \in Seq(EventTypes) /\ Len(both) = n + 1 /\ both[n + 1] = type
      /\ \A i \in 1 .. n : both[i] = types[i]
  BY AppendProperties
<1>3. DOMAIN both = 1 .. n + 1
  <2> HIDE DEF both
  <2> QED BY <1>2, LenProperties
<1>4. /\ new \in Seq(EventSet) /\ Len(new) = n /\ es \o new \in Seq(EventSet)
      /\ mid \in Encoders /\ mid = With(e, es \o new, Later(e, n))
  BY EventsAre
<1>5. /\ more \in Seq(EventSet) /\ Len(more) = n + 1
      /\ Events(e, both, index, text) = With(e, es \o more, Later(e, n + 1))
  <2>1. both \in Seq(EventTypes) /\ Len(both) = n + 1
    BY <1>2
  <2> HIDE DEF both, n
  <2>2. /\ more \in Seq(EventSet) /\ Len(more) = Len(both)
        /\ Events(e, both, index, text) = With(e, es \o more, Later(e, Len(both)))
    BY <2>1, EventsAre
  <2> QED BY <2>1, <2>2
<1>6. /\ ev \in EventSet
      /\ Event(mid, type, index, text) = With(mid, Append(mid.events, ev), Later(mid, 1))
  <2>1. mid \in Encoders
    BY <1>4
  <2> HIDE DEF mid
  <2> QED BY <2>1, EventIs
<1>7. /\ \A i \in 1 .. n + 1 : more[i] =
           [type |-> both[i], index |-> index, text |-> text,
            number |-> IF protocol = "Responses" THEN e.sequence + i - 1 ELSE e.sequence]
      /\ \A i \in 1 .. n : new[i] =
           [type |-> types[i], index |-> index, text |-> text,
            number |-> IF protocol = "Responses" THEN e.sequence + i - 1 ELSE e.sequence]
  <2> HIDE DEF both
  <2> QED BY <1>1, <1>3 DEF Numbered
<1> HIDE DEF mid, es
<1>8. mid.sequence = Later(e, n) /\ mid.events = es \o new
      /\ \A s, k : With(mid, s, k) = With(e, s, k)
  <2> DEFINE ns == es \o new
             k == Later(e, n)
  <2>1. k \in Nat
    BY <1>1, LaterIs
  <2>2. ns \in Seq(EventSet) /\ mid = With(e, ns, k)
    BY <1>4
  <2> HIDE DEF ns, k
  <2>3. /\ With(e, ns, k).sequence = k /\ With(e, ns, k).events = ns
        /\ \A s, m : With(With(e, ns, k), s, m) = With(e, s, m)
    BY <2>1, <2>2, WithIs
  <2>4. mid.sequence = k /\ mid.events = ns /\ \A s, m : With(mid, s, m) = With(e, s, m)
    BY <2>2, <2>3
  <2> QED BY <2>4 DEF ns, k
<1>9. more[n + 1] = ev
  <2>1. n + 1 \in 1 .. n + 1 /\ e.sequence + (n + 1) - 1 = e.sequence + n
    BY <1>1
  <2> HIDE DEF more, both
  <2>2. more[n + 1] =
          [type |-> type, index |-> index, text |-> text,
           number |-> IF protocol = "Responses" THEN e.sequence + (n + 1) - 1 ELSE e.sequence]
    BY <1>2, <1>7, <2>1
  <2> QED BY <1>8, <2>1, <2>2 DEF TheEvent, Later
<1> HIDE DEF new, more, ev, both
<1>10. more = Append(new, ev)
  <2> DEFINE app == Append(new, ev)
  <2>1. /\ app \in Seq(EventSet) /\ Len(app) = n + 1 /\ app[n + 1] = ev
        /\ \A i \in 1 .. n : app[i] = new[i]
    BY <1>4, <1>6, AppendProperties
  <2>2. ASSUME NEW i \in 1 .. n + 1 PROVE more[i] = app[i]
    <3>1. CASE i = n + 1
      BY <1>9, <2>1, <3>1
    <3>2. CASE i # n + 1
      <4>1. i \in 1 .. n
        BY <1>1, <3>2
      <4> QED BY <1>2, <1>7, <2>1, <4>1
    <3> QED BY <3>1, <3>2
  <2> HIDE DEF app
  <2>3. more = app
    BY <1>5, <2>1, <2>2, SeqEqual
  <2> QED BY <2>3 DEF app
<1>11. es \o Append(new, ev) = Append(es \o new, ev)
  <2>1. <<ev>> \in Seq(EventSet) /\ Append(new, ev) = new \o <<ev>>
    BY <1>4, <1>6, AppendIsConcat
  <2>2. es \o (new \o <<ev>>) = (es \o new) \o <<ev>>
    <3>1. new \in Seq(EventSet) /\ <<ev>> \in Seq(EventSet)
      BY <1>4, <2>1
    <3> QED BY <1>1, <3>1, ConcatAssociative
  <2>3. (es \o new) \o <<ev>> = Append(es \o new, ev)
    BY <1>4, <1>6, AppendIsConcat
  <2> QED BY <2>1, <2>2, <2>3
<1>12. Later(mid, 1) = Later(e, n + 1)
  <2>1. mid.sequence = Later(e, n)
    BY <1>8
  <2>2. CASE protocol = "Responses"
    <3>1. Later(mid, 1) = mid.sequence + 1 /\ Later(e, n + 1) = e.sequence + (n + 1)
          /\ Later(e, n) = e.sequence + n
      BY <2>2 DEF Later
    <3>2. e.sequence \in Nat /\ n \in Nat
      BY <1>1
    <3> HIDE DEF n
    <3>3. (e.sequence + n) + 1 = e.sequence + (n + 1)
      BY <3>2
    <3> QED BY <2>1, <3>1, <3>3
  <2>3. CASE protocol # "Responses"
    <3>1. Later(mid, 1) = mid.sequence /\ Later(e, n + 1) = e.sequence
          /\ Later(e, n) = e.sequence
      BY <2>3 DEF Later
    <3> QED BY <2>1, <3>1
  <2> QED BY <2>2, <2>3
<1>13. Events(e, both, index, text) = Event(mid, type, index, text)
  BY <1>5, <1>6, <1>8, <1>10, <1>11, <1>12
<1> QED BY <1>13 DEF both, mid

\* A step of one event is that event.
LEMMA OneEvent ==
  ASSUME NEW e, NEW a, NEW index, NEW text
  PROVE  Events(e, <<a>>, index, text) = Event(e, a, index, text)
  BY DEF Event

\* A step of two events is one after the other.
LEMMA TwoEvents ==
  ASSUME NEW e \in Encoders, NEW a \in EventTypes, NEW b \in EventTypes,
         NEW index \in Nat, NEW text \in Text
  PROVE  Events(e, <<a, b>>, index, text) =
           Event(Event(e, a, index, text), b, index, text)
<1>1. <<a>> \in Seq(EventTypes) /\ <<a, b>> = Append(<<a>>, b)
  OBVIOUS
<1>2. Events(e, Append(<<a>>, b), index, text) = Event(Events(e, <<a>>, index, text), b, index, text)
  BY <1>1, EventsSplit
<1>3. Events(e, <<a>>, index, text) = Event(e, a, index, text)
  BY OneEvent
<1> QED BY <1>1, <1>2, <1>3

\* A step of three events is one after the other.
LEMMA ThreeEvents ==
  ASSUME NEW e \in Encoders, NEW a \in EventTypes, NEW b \in EventTypes, NEW c \in EventTypes,
         NEW index \in Nat, NEW text \in Text
  PROVE  Events(e, <<a, b, c>>, index, text) =
           Event(Event(Event(e, a, index, text), b, index, text), c, index, text)
<1>1. <<a, b>> \in Seq(EventTypes) /\ <<a, b, c>> = Append(<<a, b>>, c)
  OBVIOUS
<1>2. Events(e, Append(<<a, b>>, c), index, text) =
        Event(Events(e, <<a, b>>, index, text), c, index, text)
  BY <1>1, EventsSplit
<1>3. Events(e, <<a, b>>, index, text) = Event(Event(e, a, index, text), b, index, text)
  BY TwoEvents
<1> QED BY <1>1, <1>2, <1>3

-----------------------------------------------------------------------------
(* What the client has heard.                                              *)

\* What the client has made of the first n events, for every n.
Heard(events, type) ==
  LET after[n \in 0 .. Len(events)] ==
        IF n = 0 THEN <<>>
        ELSE IF events[n].type = type THEN after[n - 1] \o events[n].text
        ELSE after[n - 1]
  IN after

\* What the client has heard, event by event.
LEMMA HeardIs ==
  ASSUME NEW w \in Seq(EventSet), NEW type
  PROVE  /\ Heard(w, type)[0] = <<>>
         /\ \A n \in 1 .. Len(w) : Heard(w, type)[n] =
              IF w[n].type = type THEN Heard(w, type)[n - 1] \o w[n].text
              ELSE Heard(w, type)[n - 1]
         /\ \A n \in 0 .. Len(w) : Heard(w, type)[n] \in Seq(Symbols)
<1> DEFINE N == Len(w)
           A == Seq(Symbols)
           Say(n, x) == IF w[n].type = type THEN x \o w[n].text ELSE x
           step == [n \in 1 .. N |-> [x \in A |-> Say(n, x)]]
           Rec(f) == f = [n \in 0 .. N |->
                            IF n = 0 THEN <<>>
                            ELSE IF w[n].type = type THEN f[n - 1] \o w[n].text
                            ELSE f[n - 1]]
<1>1. N \in Nat /\ \A n \in 1 .. N : w[n].text \in A
  <2>1. N \in Nat /\ \A n \in 1 .. N : w[n] \in EventSet
    BY ElementOfSeq, LenProperties
  <2>2. \A x \in EventSet : x.text \in A
    BY DEF EventSet, Text
  <2> QED BY <2>1, <2>2
<1>2. \A n \in 1 .. N : \A x \in A : Say(n, x) \in A
  BY <1>1, ConcatProperties
<1>3. step \in [1 .. N -> [A -> A]]
  <2> HIDE DEF Say
  <2> QED BY <1>2
<1>4. PICK f \in [0 .. N -> A] : Iterates(f, <<>>, N, step)
  <2>1. <<>> \in A
    OBVIOUS
  <2> HIDE DEF step, N, A
  <2> QED BY <1>1, <1>3, <2>1, Recursion
<1>5. ASSUME NEW n \in 1 .. N PROVE f[n] = Say(n, f[n - 1])
  <2>1. n - 1 \in 0 .. N
    BY <1>1
  <2>2. f[n] = step[n][f[n - 1]]
    BY <1>4 DEF Iterates
  <2> HIDE DEF Say, A
  <2> QED BY <2>1, <2>2
<1>6. Rec(f)
  <2>1. \A n \in 0 .. N : f[n] = IF n = 0 THEN <<>> ELSE Say(n, f[n - 1])
    <3>1. TAKE n \in 0 .. N
    <3>2. CASE n = 0
      BY <1>4, <3>2 DEF Iterates
    <3>3. CASE n # 0
      <4>1. n \in 1 .. N
        BY <1>1, <3>3
      <4> HIDE DEF Say
      <4> QED BY <1>5, <3>3, <4>1
    <3> QED BY <3>2, <3>3
  <2> QED BY <2>1
<1>7. Rec(Heard(w, type))
  <2>1. Heard(w, type) = CHOOSE g : Rec(g)
    BY DEF Heard
  <2> HIDE DEF Rec
  <2> QED BY <1>6, <2>1
<1>8. /\ Heard(w, type)[0] = <<>>
      /\ \A n \in 1 .. N : Heard(w, type)[n] = Say(n, Heard(w, type)[n - 1])
  <2>1. 0 \in 0 .. N /\ \A n \in 1 .. N : n \in 0 .. N /\ n # 0
    BY <1>1
  <2> QED BY <1>7, <2>1
<1>9. \A n \in 0 .. N : Heard(w, type)[n] \in A
  <2>1. Heard(w, type)[0] \in A
    BY <1>8
  <2>2. \A n \in 1 .. N : Heard(w, type)[n - 1] \in A => Heard(w, type)[n] \in A
    <3> HIDE DEF Say, A
    <3> QED BY <1>2, <1>8
  <2> HIDE DEF N, A
  <2> QED BY <1>1, <2>1, <2>2, AllValues
<1> QED BY <1>8, <1>9

\* One more event says its text, if it is of the type.
LEMMA SaidMore ==
  ASSUME NEW w \in Seq(EventSet), NEW ev \in EventSet, NEW type
  PROVE  /\ Said(w, type) \in Text /\ Said(<<>>, type) = <<>>
         /\ Said(Append(w, ev), type) =
              IF ev.type = type THEN Said(w, type) \o ev.text ELSE Said(w, type)
<1> DEFINE N == Len(w)
           more == Append(w, ev)
           f == Heard(more, type)
           g == Heard(w, type)
<1>1. N \in Nat /\ \A s : Said(s, type) = Heard(s, type)[Len(s)]
  BY LenProperties DEF Said, Heard
<1>2. /\ more \in Seq(EventSet) /\ Len(more) = N + 1 /\ more[N + 1] = ev
      /\ \A n \in 1 .. N : more[n] = w[n]
  BY AppendProperties
<1>3. /\ g[0] = <<>>
      /\ \A n \in 1 .. N : g[n] = IF w[n].type = type THEN g[n - 1] \o w[n].text ELSE g[n - 1]
      /\ \A n \in 0 .. N : g[n] \in Seq(Symbols)
  BY HeardIs
<1>4. /\ f[0] = <<>>
      /\ \A n \in 1 .. N + 1 :
           f[n] = IF more[n].type = type THEN f[n - 1] \o more[n].text ELSE f[n - 1]
  <2> HIDE DEF more
  <2> QED BY <1>2, HeardIs
<1> HIDE DEF f, g, more
<1>5. \A n \in 0 .. N : f[n] = g[n]
  <2>1. \A n \in 1 .. N : f[n - 1] = g[n - 1] => f[n] = g[n]
    <3>1. \A n \in 1 .. N : n \in 1 .. N + 1
      BY <1>1
    <3> QED BY <1>2, <1>3, <1>4, <3>1
  <2>2. f[0] = g[0]
    BY <1>3, <1>4
  <2>3. N \in Nat
    BY <1>1
  <2> HIDE DEF N
  <2> DEFINE T == {n \in 0 .. N : f[n] = g[n]}
  <2>4. 0 \in T
    BY <2>2, <2>3
  <2>5. ASSUME NEW n \in T, n \in 0 .. N - 1 PROVE n + 1 \in T
    <3>1. n + 1 \in 1 .. N /\ n + 1 \in 0 .. N /\ (n + 1) - 1 = n
      BY <2>3, <2>5
    <3> QED BY <2>1, <3>1
  <2>6. 0 .. N \subseteq T
    <3> HIDE DEF T
    <3> QED BY <2>3, <2>4, <2>5, BoundedInduction
  <2> QED BY <2>6
<1>6. f[N + 1] = IF ev.type = type THEN g[N] \o ev.text ELSE g[N]
  <2>1. N + 1 \in 1 .. N + 1 /\ (N + 1) - 1 = N /\ N \in 0 .. N
    BY <1>1
  <2> HIDE DEF N
  <2> QED BY <1>2, <1>4, <1>5, <2>1
<1>7. Said(more, type) = f[N + 1] /\ Said(w, type) = g[N]
  BY <1>1, <1>2 DEF f, g
<1>8. Said(<<>>, type) = <<>>
  <2>1. <<>> \in Seq(EventSet) /\ Len(<<>>) = 0
    OBVIOUS
  <2>2. Heard(<<>>, type)[0] = <<>>
    BY <2>1, HeardIs
  <2> QED BY <1>1, <2>1, <2>2
<1>9. g[N] \in Seq(Symbols)
  BY <1>1, <1>3
<1> QED BY <1>6, <1>7, <1>8, <1>9 DEF more, Text

\* The flattening of a sequence of texts, from its first to its n-th.
Joining(s) ==
  LET flatten[i \in 1 .. Len(s)] == IF i = 1 THEN s[i] ELSE flatten[i - 1] \o s[i]
  IN flatten

\* The texts that are flattened so far, one by one.
LEMMA JoiningIs ==
  ASSUME NEW s \in Seq(Seq(Symbols))
  PROVE  /\ \A n \in 1 .. Len(s) :
              /\ Joining(s)[n] = IF n = 1 THEN s[n] ELSE Joining(s)[n - 1] \o s[n]
              /\ Joining(s)[n] \in Seq(Symbols)
<1> DEFINE N == Len(s)
           A == Seq(Symbols)
           step == [n \in 1 .. N |-> [x \in A |-> x \o s[n]]]
           Rec(f) == f = [n \in 1 .. N |-> IF n = 1 THEN s[n] ELSE f[n - 1] \o s[n]]
<1>1. N \in Nat /\ \A n \in 1 .. N : s[n] \in A
  BY ElementOfSeq, LenProperties
<1>2. \A n \in 1 .. N : \A x \in A : x \o s[n] \in A
  BY <1>1, ConcatProperties
<1>3. step \in [1 .. N -> [A -> A]]
  BY <1>2
<1>4. PICK f \in [0 .. N -> A] : Iterates(f, <<>>, N, step)
  <2>1. <<>> \in A
    OBVIOUS
  <2> HIDE DEF step, N, A
  <2> QED BY <1>1, <1>3, <2>1, Recursion
<1>5. f[0] = <<>> /\ \A n \in 1 .. N : f[n] \in A /\ f[n] = f[n - 1] \o s[n]
  <2>1. f[0] = <<>>
    BY <1>4 DEF Iterates
  <2>2. ASSUME NEW n \in 1 .. N PROVE f[n] \in A /\ f[n] = f[n - 1] \o s[n]
    <3>1. n - 1 \in 0 .. N /\ n \in 0 .. N
      BY <1>1
    <3>2. f[n] = step[n][f[n - 1]]
      BY <1>4 DEF Iterates
    <3> HIDE DEF A
    <3> QED BY <3>1, <3>2
  <2> QED BY <2>1, <2>2
<1> DEFINE g == [n \in 1 .. N |-> f[n]]
<1>6. Rec(g)
  <2>1. \A n \in 1 .. N : g[n] = IF n = 1 THEN s[n] ELSE g[n - 1] \o s[n]
    <3>1. TAKE n \in 1 .. N
    <3>2. CASE n = 1
      <4>0. n - 1 = 0 /\ n = 1
        BY <3>2
      <4>1. f[1] = <<>> \o s[1]
        BY <1>5, <4>0
      <4>2. <<>> \o s[1] = s[1]
        BY <1>1, <3>2, ConcatEmptySeq
      <4> QED BY <3>2, <4>1, <4>2
    <3>3. CASE n # 1
      <4>1. n - 1 \in 1 .. N
        BY <1>1, <3>3
      <4> QED BY <1>5, <3>3, <4>1
    <3> QED BY <3>2, <3>3
  <2>2. g = [n \in 1 .. N |-> g[n]]
    OBVIOUS
  <2> HIDE DEF g
  <2> QED BY <2>1, <2>2
<1>7. Rec(Joining(s))
  <2>1. Joining(s) = CHOOSE h : Rec(h)
    BY DEF Joining
  <2> HIDE DEF Rec, g
  <2> QED BY <1>6, <2>1
<1>8. \A n \in 1 .. N : Joining(s)[n] = IF n = 1 THEN s[n] ELSE Joining(s)[n - 1] \o s[n]
  BY <1>7
<1>9. \A n \in 1 .. N : Joining(s)[n] = f[n]
  <2> DEFINE T == {n \in 0 .. N : n = 0 \/ Joining(s)[n] = f[n]}
  <2>1. 0 \in T
    BY <1>1
  <2>2. ASSUME NEW n \in T, n \in 0 .. N - 1 PROVE n + 1 \in T
    <3>1. n + 1 \in 1 .. N /\ n + 1 \in 0 .. N /\ (n + 1) - 1 = n /\ n \in Nat
      BY <2>2
    <3>2. CASE n = 0
      <4>0. 1 \in 1 .. N /\ 1 - 1 = 0
        BY <3>1, <3>2
      <4>1. Joining(s)[1] = s[1] /\ f[1] = <<>> \o s[1]
        BY <1>5, <1>8, <4>0
      <4>2. <<>> \o s[1] = s[1]
        BY <1>1, <3>1, <3>2, ConcatEmptySeq
      <4> QED BY <3>1, <3>2, <4>1, <4>2
    <3>3. CASE n # 0
      <4>1. Joining(s)[n + 1] = Joining(s)[n] \o s[n + 1] /\ f[n + 1] = f[n] \o s[n + 1]
        <5> DEFINE m == n + 1
        <5>1. m \in 1 .. N /\ m - 1 = n /\ m # 1
          BY <3>1, <3>3
        <5> HIDE DEF m
        <5>2. Joining(s)[m] = Joining(s)[n] \o s[m] /\ f[m] = f[n] \o s[m]
          BY <1>5, <1>8, <5>1
        <5> QED BY <5>2 DEF m
      <4>2. Joining(s)[n] = f[n]
        BY <3>3
      <4> QED BY <3>1, <4>1, <4>2
    <3> QED BY <3>2, <3>3
  <2>3. 0 .. N \subseteq T
    <3> HIDE DEF T
    <3> QED BY <1>1, <2>1, <2>2, BoundedInduction
  <2>4. \A n \in 1 .. N : n \in 0 .. N /\ n # 0
    BY <1>1
  <2> QED BY <2>3, <2>4
<1> QED BY <1>5, <1>8, <1>9

\* Flattening one text more.
LEMMA FlattenMore ==
  ASSUME NEW s \in Seq(Text), NEW x \in Text
  PROVE  /\ FlattenSeq(<<>>) = <<>> /\ FlattenSeq(s) \in Text
         /\ FlattenSeq(Append(s, x)) = FlattenSeq(s) \o x
<1> DEFINE N == Len(s)
           more == Append(s, x)
           f == Joining(more)
           g == Joining(s)
<1>1. /\ N \in Nat /\ s \in Seq(Seq(Symbols)) /\ x \in Seq(Symbols)
      /\ \A t : FlattenSeq(t) = IF Len(t) = 0 THEN t ELSE Joining(t)[Len(t)]
  BY LenProperties DEF FlattenSeq, Joining, Text
<1>2. /\ more \in Seq(Seq(Symbols)) /\ Len(more) = N + 1 /\ more[N + 1] = x
      /\ \A n \in 1 .. N : more[n] = s[n]
  BY <1>1, AppendProperties
<1>3. \A n \in 1 .. N : /\ g[n] = IF n = 1 THEN s[n] ELSE g[n - 1] \o s[n]
                        /\ g[n] \in Seq(Symbols)
  BY <1>1, JoiningIs
<1>4. \A n \in 1 .. N + 1 : f[n] = IF n = 1 THEN more[n] ELSE f[n - 1] \o more[n]
  <2> HIDE DEF more
  <2> QED BY <1>2, JoiningIs
<1>5. FlattenSeq(<<>>) = <<>>
  <2>1. Len(<<>>) = 0
    OBVIOUS
  <2> QED BY <1>1, <2>1
<1> HIDE DEF f, g, more
<1>6. FlattenSeq(more) = f[N + 1]
  <2>1. N + 1 # 0
    BY <1>1
  <2> QED BY <1>1, <1>2, <2>1 DEF f
<1>7. CASE N = 0
  <2>1. s = <<>>
    BY <1>1, <1>7, EmptySeq
  <2>2. f[N + 1] = x
    BY <1>2, <1>4, <1>7
  <2>3. <<>> \o x = x /\ <<>> \in Seq(Symbols)
    BY <1>1, ConcatEmptySeq
  <2> QED BY <1>5, <1>6, <2>1, <2>2, <2>3 DEF more, Text
<1>8. CASE N # 0
  <2> DEFINE T == {n \in 0 .. N : n = 0 \/ f[n] = g[n]}
  <2>1. 0 \in T
    BY <1>1
  <2>2. ASSUME NEW n \in T, n \in 0 .. N - 1 PROVE n + 1 \in T
    <3>1. n + 1 \in 1 .. N /\ n + 1 \in 0 .. N /\ (n + 1) - 1 = n /\ n \in Nat
      BY <2>2
    <3>2. n + 1 \in 1 .. N + 1
      BY <1>1, <3>1
    <3>3. CASE n = 0
      BY <1>2, <1>3, <1>4, <3>1, <3>2, <3>3
    <3>4. CASE n # 0
      <4>1. g[n + 1] = g[n] \o s[n + 1] /\ f[n + 1] = f[n] \o more[n + 1] /\ more[n + 1] = s[n + 1]
        <5> DEFINE m == n + 1
        <5>1. m \in 1 .. N /\ m \in 1 .. N + 1 /\ m - 1 = n /\ m # 1
          BY <3>1, <3>2, <3>4
        <5> HIDE DEF m
        <5>2. g[m] = g[n] \o s[m] /\ f[m] = f[n] \o more[m] /\ more[m] = s[m]
          BY <1>2, <1>3, <1>4, <5>1
        <5> QED BY <5>2 DEF m
      <4>2. f[n] = g[n]
        BY <3>4
      <4> QED BY <3>1, <4>1, <4>2
    <3> QED BY <3>3, <3>4
  <2>3. 0 .. N \subseteq T
    <3>1. N \in Nat
      BY <1>1
    <3> HIDE DEF T, N
    <3> QED BY <3>1, <2>1, <2>2, BoundedInduction
  <2>4. N \in 0 .. N /\ N + 1 \in 1 .. N + 1 /\ N + 1 # 1 /\ (N + 1) - 1 = N /\ N \in 1 .. N
    BY <1>1, <1>8
  <2>5. f[N] = g[N]
    BY <1>8, <2>3, <2>4
  <2>6. f[N + 1] = g[N] \o x
    BY <1>2, <1>4, <2>4, <2>5
  <2>7. FlattenSeq(s) = g[N]
    BY <1>1, <1>8 DEF g
  <2> QED BY <1>3, <1>5, <1>6, <2>4, <2>6, <2>7 DEF more, Text
<1> QED BY <1>7, <1>8

-----------------------------------------------------------------------------
(* The items of a stream.                                                  *)

ItemTypes == {"open", "close", "text_delta", "tool_delta"}
Parts == {"text_delta", "tool_delta"}
Is(w, k, type, n) == w[k].type = type /\ w[k].index = n
IsPart(w, k, n) == w[k].type \in Parts /\ w[k].index = n
Follows(w, k, n) == IsPart(w, k, n) \/ Is(w, k, "close", n)

\* Items 1 to N have been opened in this order, each once and before its parts;
\* those in Closed have been closed, each once and after its parts.
Opened(w, n) ==
  \E i \in 1 .. Len(w) :
    /\ Is(w, i, "open", n) /\ \A k \in 1 .. Len(w) : Is(w, k, "open", n) => k = i
    /\ \A k \in 1 .. Len(w) : Follows(w, k, n) => i <= k
Closed(w, n) ==
  \E i \in 1 .. Len(w) :
    /\ Is(w, i, "close", n) /\ \A k \in 1 .. Len(w) : Is(w, k, "close", n) => k = i
    /\ \A k \in 1 .. Len(w) : IsPart(w, k, n) => k <= i
Items(w, N, done) ==
  /\ done \subseteq 1 .. N
  /\ \A k \in 1 .. Len(w) : w[k].type \in ItemTypes => w[k].index \in 1 .. N
  /\ \A j, k \in 1 .. Len(w) :
       w[j].type = "open" /\ w[k].type = "open" /\ j < k => w[j].index < w[k].index
  /\ \A n \in 1 .. N : Opened(w, n)
  /\ \A n \in done : Closed(w, n)
  /\ \A n \in (1 .. N) \ done : \A k \in 1 .. Len(w) : ~Is(w, k, "close", n)

\* What an event more does to the items.
LEMMA ItemsMore ==
  ASSUME NEW w \in Seq(EventSet), NEW ev \in EventSet, NEW N \in Nat, NEW done,
         Items(w, N, done)
  PROVE  /\ ev.type \notin ItemTypes => Items(Append(w, ev), N, done)
         /\ ev.type = "open" /\ ev.index = N + 1 => Items(Append(w, ev), N + 1, done)
         /\ ev.type = "close" /\ ev.index \in (1 .. N) \ done =>
              Items(Append(w, ev), N, done \cup {ev.index})
         /\ ev.type \in Parts /\ ev.index \in (1 .. N) \ done => Items(Append(w, ev), N, done)
<1> DEFINE L == Len(w)
           v == Append(w, ev)
<1>1. L \in Nat
  BY LenProperties
<1>2. Len(v) = L + 1 /\ v[L + 1] = ev /\ \A k \in 1 .. L : v[k] = w[k]
  BY AppendProperties
<1>3. /\ done \subseteq 1 .. N
      /\ \A k \in 1 .. L : w[k].type \in ItemTypes => w[k].index \in 1 .. N
      /\ \A j, k \in 1 .. L :
           w[j].type = "open" /\ w[k].type = "open" /\ j < k => w[j].index < w[k].index
      /\ \A n \in 1 .. N : Opened(w, n)
      /\ \A n \in done : Closed(w, n)
      /\ \A n \in (1 .. N) \ done : \A k \in 1 .. L : ~Is(w, k, "close", n)
  BY DEF Items
<1> HIDE DEF v, L
<1>4. \A k \in 1 .. L + 1 : k \in 1 .. L \/ k = L + 1
  BY <1>1
<1>5. /\ \A k \in 1 .. L : \A n : /\ IsPart(v, k, n) <=> IsPart(w, k, n)
                                  /\ \A type : Is(v, k, type, n) <=> Is(w, k, type, n)
      /\ \A n : /\ IsPart(v, L + 1, n) <=> ev.type \in Parts /\ ev.index = n
                /\ \A type : Is(v, L + 1, type, n) <=> ev.type = type /\ ev.index = n
  BY <1>2 DEF Is, IsPart
<1>6. \A k \in 1 .. L : k \in 1 .. L + 1 /\ k <= L + 1 /\ k # L + 1
  BY <1>1
<1>7. \A n : Opened(w, n) /\ (ev.type # "open" \/ ev.index # n) => Opened(v, n)
  <2>1. SUFFICES ASSUME NEW n, Opened(w, n), ev.type # "open" \/ ev.index # n PROVE Opened(v, n)
    OBVIOUS
  <2>2. PICK i \in 1 .. L : /\ Is(w, i, "open", n) /\ \A k \in 1 .. L : Is(w, k, "open", n) => k = i
                            /\ \A k \in 1 .. L : Follows(w, k, n) => i <= k
    BY <2>1 DEF Opened, L
  <2>3. Is(v, i, "open", n) /\ \A k \in 1 .. L + 1 : Is(v, k, "open", n) => k = i
    <3>1. ~Is(v, L + 1, "open", n)
      BY <1>5, <2>1
    <3>2. Is(v, i, "open", n) /\ \A k \in 1 .. L : Is(v, k, "open", n) => k = i
      BY <1>5, <2>2
    <3> QED BY <1>4, <3>1, <3>2
  <2>4. \A k \in 1 .. L + 1 : Follows(v, k, n) => i <= k
    BY <1>4, <1>5, <1>6, <2>2 DEF Follows
  <2>5. i \in 1 .. Len(v)
    BY <1>2, <1>6
  <2> QED BY <1>2, <2>3, <2>4, <2>5 DEF Opened
<1>8. \A n : Closed(w, n) /\ ((ev.type # "close" /\ ev.type \notin Parts) \/ ev.index # n) => Closed(v, n)
  <2>1. SUFFICES ASSUME NEW n, Closed(w, n), (ev.type # "close" /\ ev.type \notin Parts) \/ ev.index # n
                 PROVE  Closed(v, n)
    OBVIOUS
  <2>2. PICK i \in 1 .. L : /\ Is(w, i, "close", n) /\ \A k \in 1 .. L : Is(w, k, "close", n) => k = i
                            /\ \A k \in 1 .. L : IsPart(w, k, n) => k <= i
    BY <2>1 DEF Closed, L
  <2>3. Is(v, i, "close", n) /\ \A k \in 1 .. L + 1 : Is(v, k, "close", n) => k = i
    BY <1>4, <1>5, <2>1, <2>2
  <2>4. \A k \in 1 .. L + 1 : IsPart(v, k, n) => k <= i
    BY <1>4, <1>5, <2>1, <2>2
  <2>5. i \in 1 .. Len(v)
    BY <1>2, <1>6
  <2> QED BY <1>2, <2>3, <2>4, <2>5 DEF Closed
<1>15. \A n : (\A k \in 1 .. L : ~Is(w, k, "close", n)) /\ (ev.type # "close" \/ ev.index # n) =>
                \A k \in 1 .. Len(v) : ~Is(v, k, "close", n)
  <2>1. TAKE n
  <2>2. HAVE (\A k \in 1 .. L : ~Is(w, k, "close", n)) /\ (ev.type # "close" \/ ev.index # n)
  <2>3. ~Is(v, L + 1, "close", n)
    BY <1>5, <2>2
  <2>4. \A k \in 1 .. L : ~Is(v, k, "close", n)
    BY <1>5, <2>2
  <2> QED BY <1>2, <1>4, <2>3, <2>4
<1>9. ASSUME NEW M \in Nat, N <= M, ev.type \in ItemTypes => ev.index \in 1 .. M
      PROVE  \A k \in 1 .. Len(v) : v[k].type \in ItemTypes => v[k].index \in 1 .. M
  <2>1. TAKE k \in 1 .. Len(v)
  <2>2. CASE k \in 1 .. L
    <3>1. \A n \in 1 .. N : n \in 1 .. M
      BY <1>9
    <3> QED BY <1>2, <1>3, <2>2, <3>1
  <2>3. CASE k = L + 1
    BY <1>2, <1>9, <2>3
  <2> QED BY <1>2, <1>4, <2>2, <2>3
<1>10. ASSUME ev.type = "open" => ev.index = N + 1
       PROVE  \A j, k \in 1 .. Len(v) :
                v[j].type = "open" /\ v[k].type = "open" /\ j < k => v[j].index < v[k].index
  <2>1. SUFFICES ASSUME NEW j \in 1 .. Len(v), NEW k \in 1 .. Len(v),
                        v[j].type = "open", v[k].type = "open", j < k
                 PROVE  v[j].index < v[k].index
    OBVIOUS
  <2>2. j \in 1 .. L
    BY <1>1, <1>2, <2>1
  <2>3. CASE k \in 1 .. L
    BY <1>2, <1>3, <2>1, <2>2, <2>3
  <2>4. CASE k = L + 1
    <3>1. v[j] = w[j] /\ v[k] = ev
      BY <1>2, <2>2, <2>4
    <3>2. w[j].index \in 1 .. N /\ ev.index = N + 1
      BY <1>3, <1>10, <2>1, <2>2, <3>1 DEF ItemTypes
    <3> QED BY <3>1, <3>2
  <2> QED BY <1>2, <1>4, <2>3, <2>4
<1>11. CASE ev.type \notin ItemTypes
  <2>1. ev.type \notin Parts /\ ev.type # "open" /\ ev.type # "close"
    BY <1>11 DEF ItemTypes, Parts
  <2>2. \A n \in (1 .. N) \ done : \A k \in 1 .. Len(v) : ~Is(v, k, "close", n)
    BY <1>3, <1>15, <2>1
  <2>3. \A k \in 1 .. Len(v) : v[k].type \in ItemTypes => v[k].index \in 1 .. N
    BY <1>9, <1>11
  <2>4. Items(v, N, done)
    BY <1>3, <1>7, <1>8, <1>10, <2>1, <2>2, <2>3 DEF Items
  <2> QED BY <1>11, <2>1, <2>4 DEF v, ItemTypes
<1>12. CASE ev.type = "open" /\ ev.index = N + 1
  <2>1. ev.type \notin Parts /\ ev.type # "close" /\ ev.type \in ItemTypes
    BY <1>12 DEF ItemTypes, Parts
  <2>2. N + 1 \in Nat /\ N + 1 \notin 1 .. N /\ \A n \in 1 .. N + 1 : n \in 1 .. N \/ n = N + 1
    OBVIOUS
  <2>3. \A k \in 1 .. L : ~Is(w, k, "open", N + 1) /\ ~Is(w, k, "close", N + 1) /\ ~IsPart(w, k, N + 1)
    BY <1>3, <2>2 DEF Is, IsPart, ItemTypes, Parts
  <2>4. Opened(v, N + 1)
    <3>1. L + 1 \in 1 .. Len(v)
      BY <1>1, <1>2
    <3>2. Is(v, L + 1, "open", N + 1) /\ \A k \in 1 .. Len(v) : Is(v, k, "open", N + 1) => k = L + 1
      BY <1>2, <1>4, <1>5, <1>12, <2>3
    <3>3. \A k \in 1 .. Len(v) : ~Follows(v, k, N + 1)
      <4>1. \A k \in 1 .. L : ~IsPart(v, k, N + 1) /\ ~Is(v, k, "close", N + 1)
        BY <1>5, <2>3
      <4>2. ~IsPart(v, L + 1, N + 1) /\ ~Is(v, L + 1, "close", N + 1)
        BY <1>5, <2>1
      <4> QED BY <1>2, <1>4, <4>1, <4>2 DEF Follows
    <3> QED BY <3>1, <3>2, <3>3 DEF Opened
  <2>5. \A n \in 1 .. N + 1 : Opened(v, n)
    BY <1>3, <1>7, <1>12, <2>2, <2>4
  <2>6. \A n \in (1 .. N + 1) \ done : \A k \in 1 .. Len(v) : ~Is(v, k, "close", n)
    <3>1. TAKE n \in (1 .. N + 1) \ done
    <3>2. \A k \in 1 .. L : ~Is(w, k, "close", n)
      BY <1>3, <2>2, <2>3
    <3> QED BY <1>2, <1>4, <1>5, <2>1, <3>2
  <2>7. \A k \in 1 .. Len(v) : v[k].type \in ItemTypes => v[k].index \in 1 .. N + 1
    <3>1. N <= N + 1 /\ N + 1 \in 1 .. N + 1 /\ N + 1 \in Nat
      OBVIOUS
    <3> QED BY <1>9, <1>12, <3>1
  <2>8. done \subseteq 1 .. N + 1
    BY <1>3
  <2>9. Items(v, N + 1, done)
    BY <1>3, <1>8, <1>10, <1>12, <2>1, <2>5, <2>6, <2>7, <2>8 DEF Items
  <2> QED BY <1>12, <2>1, <2>9 DEF v
<1>13. CASE ev.type = "close" /\ ev.index \in (1 .. N) \ done
  <2>1. ev.type \notin Parts /\ ev.type # "open" /\ ev.type \in ItemTypes
    BY <1>13 DEF ItemTypes, Parts
  <2>2. Closed(v, ev.index)
    <3>1. L + 1 \in 1 .. Len(v)
      BY <1>1, <1>2
    <3>2. Is(v, L + 1, "close", ev.index)
          /\ \A k \in 1 .. Len(v) : Is(v, k, "close", ev.index) => k = L + 1
      BY <1>2, <1>3, <1>4, <1>5, <1>13
    <3>3. \A k \in 1 .. Len(v) : k <= L + 1
      BY <1>1, <1>2
    <3> QED BY <3>1, <3>2, <3>3 DEF Closed
  <2>3. \A n \in done \cup {ev.index} : Closed(v, n)
    BY <1>3, <1>8, <1>13, <2>2
  <2>4. \A n \in (1 .. N) \ (done \cup {ev.index}) : \A k \in 1 .. Len(v) : ~Is(v, k, "close", n)
    <3>1. TAKE n \in (1 .. N) \ (done \cup {ev.index})
    <3>2. n \in (1 .. N) \ done /\ ev.index # n
      OBVIOUS
    <3> QED BY <1>3, <1>15, <3>2
  <2>5. \A k \in 1 .. Len(v) : v[k].type \in ItemTypes => v[k].index \in 1 .. N
    BY <1>9, <1>13
  <2>6. done \cup {ev.index} \subseteq 1 .. N
    BY <1>3, <1>13
  <2>7. Items(v, N, done \cup {ev.index})
    BY <1>3, <1>7, <1>10, <2>1, <2>3, <2>4, <2>5, <2>6 DEF Items
  <2> QED BY <1>13, <2>1, <2>7 DEF v
<1>14. CASE ev.type \in Parts /\ ev.index \in (1 .. N) \ done
  <2>1. ev.type # "open" /\ ev.type # "close" /\ ev.type \in ItemTypes
    BY <1>14 DEF ItemTypes, Parts
  <2>2. \A n \in done : Closed(v, n)
    BY <1>3, <1>8, <1>14
  <2>3. \A n \in (1 .. N) \ done : \A k \in 1 .. Len(v) : ~Is(v, k, "close", n)
    BY <1>3, <1>15, <2>1
  <2>4. \A k \in 1 .. Len(v) : v[k].type \in ItemTypes => v[k].index \in 1 .. N
    BY <1>9, <1>14
  <2>5. Items(v, N, done)
    BY <1>3, <1>7, <1>10, <2>1, <2>2, <2>3, <2>4 DEF Items
  <2> QED BY <1>14, <2>1, <2>5 DEF v
<1> QED BY <1>11, <1>12, <1>13, <1>14

-----------------------------------------------------------------------------
(* A stream that has not ended.                                            *)

EndingTypes == {"error", "DONE", "message_stop", "completed", "incomplete", "failed"}

\* w is a stream that has not ended: its numbers go up one by one to sequence,
\* it has told the text said and the arguments told, and items 1 to N, of which
\* those in done are closed.
Page(w, sequence, N, done, said, told) ==
  /\ w \in Seq(EventSet) /\ sequence \in Nat
  /\ \A i \in 1 .. Len(w) : w[i].type \notin EndingTypes
  /\ protocol = "Responses" =>
       sequence = Len(w) /\ \A i \in 1 .. Len(w) : w[i].number = i - 1
  /\ said \in Text /\ said = Said(w, "text_delta")
  /\ told \in Text /\ told = Said(w, "tool_delta")
  /\ N \in Nat /\ (protocol = "Chat" \/ Items(w, N, done))

\* One more event.
LEMMA PageMore ==
  ASSUME NEW w, NEW q, NEW N, NEW done, NEW said, NEW told, Page(w, q, N, done, said, told),
         NEW ev \in EventSet, ev.type \notin EndingTypes, ev.number = q
  PROVE  LET v == Append(w, ev)
             r == IF protocol = "Responses" THEN q + 1 ELSE q
         IN /\ ev.type \notin ItemTypes => Page(v, r, N, done, said, told)
            /\ ev.type = "open" /\ ev.index = N + 1 => Page(v, r, N + 1, done, said, told)
            /\ ev.type = "close" /\ ev.index \in (1 .. N) \ done =>
                 Page(v, r, N, done \cup {ev.index}, said, told)
            /\ ev.type = "text_delta" /\ (protocol = "Chat" \/ ev.index \in (1 .. N) \ done) =>
                 Page(v, r, N, done, said \o ev.text, told)
            /\ ev.type = "tool_delta" /\ (protocol = "Chat" \/ ev.index \in (1 .. N) \ done) =>
                 Page(v, r, N, done, said, told \o ev.text)
<1> DEFINE L == Len(w)
           v == Append(w, ev)
           r == IF protocol = "Responses" THEN q + 1 ELSE q
           t == Said(v, "text_delta")
           a == Said(v, "tool_delta")
<1>1. /\ w \in Seq(EventSet) /\ q \in Nat /\ N \in Nat /\ L \in Nat
      /\ \A i \in 1 .. L : w[i].type \notin EndingTypes
      /\ protocol = "Responses" => q = L /\ \A i \in 1 .. L : w[i].number = i - 1
      /\ said \in Text /\ said = Said(w, "text_delta")
      /\ told \in Text /\ told = Said(w, "tool_delta")
      /\ protocol = "Chat" \/ Items(w, N, done)
  BY LenProperties DEF Page
<1>2. v \in Seq(EventSet) /\ Len(v) = L + 1 /\ v[L + 1] = ev /\ \A k \in 1 .. L : v[k] = w[k]
  BY <1>1, AppendProperties
<1>3. /\ t \in Text /\ t = IF ev.type = "text_delta" THEN said \o ev.text ELSE said
      /\ a \in Text /\ a = IF ev.type = "tool_delta" THEN told \o ev.text ELSE told
  <2>1. /\ \A type : Said(v, type) = IF ev.type = type THEN Said(w, type) \o ev.text ELSE Said(w, type)
    BY <1>1, SaidMore
  <2>2. \A type : Said(v, type) \in Text
    <3> HIDE DEF v
    <3> QED BY <1>2, SaidMore
  <2> QED BY <1>1, <2>1, <2>2
<1>4. r \in Nat
  BY <1>1
<1>5. protocol # "Chat" =>
        /\ ev.type \notin ItemTypes => Items(v, N, done)
        /\ ev.type = "open" /\ ev.index = N + 1 => Items(v, N + 1, done)
        /\ ev.type = "close" /\ ev.index \in (1 .. N) \ done => Items(v, N, done \cup {ev.index})
        /\ ev.type \in Parts /\ ev.index \in (1 .. N) \ done => Items(v, N, done)
  BY <1>1, ItemsMore
<1> HIDE DEF v
<1>6. \A i \in 1 .. L + 1 : i \in 1 .. L \/ i = L + 1
  BY <1>1
<1>7. \A i \in 1 .. Len(v) : v[i].type \notin EndingTypes
  BY <1>1, <1>2, <1>6
<1>8. protocol = "Responses" => r = Len(v) /\ \A i \in 1 .. Len(v) : v[i].number = i - 1
  <2>1. SUFFICES ASSUME protocol = "Responses"
                 PROVE  r = L + 1 /\ \A i \in 1 .. L + 1 : v[i].number = i - 1
    BY <1>2
  <2>2. (L + 1) - 1 = L /\ r = L + 1 /\ ev.number = L
    BY <1>1, <2>1
  <2>3. \A i \in 1 .. L : v[i].number = i - 1
    BY <1>1, <1>2, <2>1
  <2>4. v[L + 1].number = (L + 1) - 1
    BY <1>2, <2>2
  <2> QED BY <1>6, <2>2, <2>3, <2>4
<1> HIDE DEF r, L
<1>9. \A M \in Nat : \A now : (protocol = "Chat" \/ Items(v, M, now)) => Page(v, r, M, now, t, a)
  BY <1>2, <1>3, <1>4, <1>7, <1>8 DEF Page
<1> HIDE DEF t, a
<1>10. N + 1 \in Nat
  BY <1>1
<1>11. CASE ev.type \notin ItemTypes
  <2>1. t = said /\ a = told /\ ev.type \notin {"open", "close", "text_delta", "tool_delta"}
    BY <1>3, <1>11 DEF ItemTypes
  <2>2. Page(v, r, N, done, said, told)
    BY <1>1, <1>5, <1>9, <1>11, <2>1
  <2> QED BY <1>11, <2>1, <2>2 DEF v, r, ItemTypes
<1>12. CASE ev.type \in ItemTypes
  <2>1. ev.type \in {"open", "close", "text_delta", "tool_delta"}
    BY <1>12 DEF ItemTypes
  <2>2. ev.type = "open" /\ ev.index = N + 1 => Page(v, r, N + 1, done, said, told)
    BY <1>3, <1>5, <1>9, <1>10
  <2>3. ev.type = "close" /\ ev.index \in (1 .. N) \ done =>
          Page(v, r, N, done \cup {ev.index}, said, told)
    BY <1>1, <1>3, <1>5, <1>9
  <2>4. ev.type = "text_delta" /\ (protocol = "Chat" \/ ev.index \in (1 .. N) \ done) =>
          Page(v, r, N, done, said \o ev.text, told)
    BY <1>1, <1>3, <1>5, <1>9 DEF Parts
  <2>5. ev.type = "tool_delta" /\ (protocol = "Chat" \/ ev.index \in (1 .. N) \ done) =>
          Page(v, r, N, done, said, told \o ev.text)
    BY <1>1, <1>3, <1>5, <1>9 DEF Parts
  <2> QED BY <1>12, <2>2, <2>3, <2>4, <2>5 DEF v, r
<1> QED BY <1>11, <1>12

\* What e has sent and is about to send.
On(e, N, done, said, told) ==
  /\ e \in Encoders /\ wire \in Seq(EventSet)
  /\ Page(wire \o e.events, e.sequence, N, done, said, told)

\* f is e with other events.
Alike(e, f) ==
  /\ f.text = e.text /\ f.textIndex = e.textIndex /\ f.textClosed = e.textClosed
  /\ f.next = e.next /\ f.calls = e.calls /\ f.failed = e.failed

\* What one event more does to what e has sent.
LEMMA EventOn ==
  ASSUME NEW e, NEW N, NEW done, NEW said, NEW told, On(e, N, done, said, told),
         NEW type \in EventTypes, NEW index \in Nat, NEW text \in Text, type \notin EndingTypes
  PROVE  LET f == Event(e, type, index, text) IN
         /\ f \in Encoders /\ Alike(e, f)
         /\ type \notin ItemTypes => On(f, N, done, said, told)
         /\ type = "open" /\ index = N + 1 => On(f, N + 1, done, said, told)
         /\ type = "close" /\ index \in (1 .. N) \ done =>
              On(f, N, done \cup {index}, said, told)
         /\ type = "text_delta" /\ (protocol = "Chat" \/ index \in (1 .. N) \ done) =>
              On(f, N, done, said \o text, told)
         /\ type = "tool_delta" /\ (protocol = "Chat" \/ index \in (1 .. N) \ done) =>
              On(f, N, done, said, told \o text)
<1> DEFINE ev == TheEvent(e, type, index, text)
           es == e.events
           f == Event(e, type, index, text)
           w == wire \o es
           more == Append(es, ev)
<1>1. /\ e \in Encoders /\ wire \in Seq(EventSet) /\ es \in Seq(EventSet) /\ e.sequence \in Nat
      /\ Page(w, e.sequence, N, done, said, told)
  BY DEF On, Encoders
<1>2. ev \in EventSet /\ more \in Seq(EventSet) /\ f = With(e, more, Later(e, 1)) /\ f \in Encoders
  BY <1>1, EventIs
<1>3. ev.type = type /\ ev.index = index /\ ev.text = text /\ ev.number = e.sequence
  BY DEF TheEvent
<1>4. Later(e, 1) = IF protocol = "Responses" THEN e.sequence + 1 ELSE e.sequence
  BY DEF Later
<1>5. Later(e, 1) \in Nat
  BY <1>1, LaterIs
<1> HIDE DEF ev, es, f
<1>6. f.events = more /\ f.sequence = Later(e, 1) /\ Alike(e, f)
  <2> DEFINE k == Later(e, 1)
  <2>1. k \in Nat /\ more \in Seq(EventSet) /\ f = With(e, more, k) /\ e \in Encoders
    BY <1>1, <1>2, <1>5
  <2> HIDE DEF k, more
  <2>2. /\ With(e, more, k).events = more /\ With(e, more, k).sequence = k
        /\ Alike(e, With(e, more, k))
    BY <2>1, WithIs DEF Alike
  <2> QED BY <2>1, <2>2 DEF k
<1>7. wire \o more = Append(w, ev)
  <2>1. <<ev>> \in Seq(EventSet) /\ more = es \o <<ev>> /\ w \in Seq(EventSet)
    BY <1>1, <1>2, AppendIsConcat, ConcatProperties
  <2>2. wire \o (es \o <<ev>>) = (wire \o es) \o <<ev>>
    BY <1>1, <2>1, ConcatAssociative
  <2>3. w \o <<ev>> = Append(w, ev)
    <3> HIDE DEF w
    <3> QED BY <1>2, <2>1, AppendIsConcat
  <2> QED BY <2>1, <2>2, <2>3
<1> HIDE DEF w, more
<1> DEFINE v == Append(w, ev)
           r == IF protocol = "Responses" THEN e.sequence + 1 ELSE e.sequence
<1>8. /\ type \notin ItemTypes => Page(v, r, N, done, said, told)
      /\ type = "open" /\ index = N + 1 => Page(v, r, N + 1, done, said, told)
      /\ type = "close" /\ index \in (1 .. N) \ done =>
           Page(v, r, N, done \cup {index}, said, told)
      /\ type = "text_delta" /\ (protocol = "Chat" \/ index \in (1 .. N) \ done) =>
           Page(v, r, N, done, said \o text, told)
      /\ type = "tool_delta" /\ (protocol = "Chat" \/ index \in (1 .. N) \ done) =>
           Page(v, r, N, done, said, told \o text)
  <2>1. /\ ev.type \notin ItemTypes => Page(v, r, N, done, said, told)
        /\ ev.type = "open" /\ ev.index = N + 1 => Page(v, r, N + 1, done, said, told)
        /\ ev.type = "close" /\ ev.index \in (1 .. N) \ done =>
             Page(v, r, N, done \cup {ev.index}, said, told)
        /\ ev.type = "text_delta" /\ (protocol = "Chat" \/ ev.index \in (1 .. N) \ done) =>
             Page(v, r, N, done, said \o ev.text, told)
        /\ ev.type = "tool_delta" /\ (protocol = "Chat" \/ ev.index \in (1 .. N) \ done) =>
             Page(v, r, N, done, said, told \o ev.text)
    <3>1. ev.type \notin EndingTypes /\ ev.number = e.sequence
      BY <1>3
    <3> QED BY <1>1, <1>2, <3>1, PageMore
  <2> HIDE DEF v, r
  <2> QED BY <1>3, <2>1
<1>9. \A M, now, s, t : Page(v, r, M, now, s, t) => On(f, M, now, s, t)
  <2>1. wire \o f.events = v /\ f.sequence = r
    BY <1>4, <1>6, <1>7
  <2> HIDE DEF v, r
  <2> QED BY <1>1, <1>2, <2>1 DEF On
<1> HIDE DEF v, r
<1>10. /\ type \notin ItemTypes => On(f, N, done, said, told)
       /\ type = "open" /\ index = N + 1 => On(f, N + 1, done, said, told)
       /\ type = "close" /\ index \in (1 .. N) \ done =>
            On(f, N, done \cup {index}, said, told)
       /\ type = "text_delta" /\ (protocol = "Chat" \/ index \in (1 .. N) \ done) =>
            On(f, N, done, said \o text, told)
       /\ type = "tool_delta" /\ (protocol = "Chat" \/ index \in (1 .. N) \ done) =>
            On(f, N, done, said, told \o text)
  BY <1>8, <1>9
<1> QED BY <1>2, <1>6, <1>10 DEF f

\* What the client sees of the items of a Chat stream is nothing.
LEMMA OnChat ==
  ASSUME NEW e, NEW N, NEW done, NEW said, NEW told, On(e, N, done, said, told),
         protocol = "Chat", NEW M \in Nat, NEW now
  PROVE  On(e, M, now, said, told)
  BY DEF On, Page

\* What e has sent is in its events and its number.
LEMMA OnSame ==
  ASSUME NEW e, NEW N, NEW done, NEW said, NEW told, On(e, N, done, said, told),
         NEW f \in Encoders, f.events = e.events, f.sequence = e.sequence
  PROVE  On(f, N, done, said, told)
  BY DEF On

\* Each protocol has its own types of events for one thing that is told.
LEMMA TypesAre ==
  ASSUME NEW a, NEW b, NEW c
  PROVE  /\ protocol = "Chat" => Types(a, b, c) = a
         /\ protocol = "Anthropic" => Types(a, b, c) = b
         /\ protocol = "Responses" => Types(a, b, c) = c
  BY DEF Types

\* The text item is opened as the next one.
LEMMA OpenTextOn ==
  ASSUME protocol \in Protocols, NEW e, NEW N, NEW done, NEW said, NEW told,
         On(e, N, done, said, told), e.textIndex = 0, e.next = N + 1
  PROVE  LET o == OpenText(e) IN
         /\ On(o, N + 1, done, said, told)
         /\ o.textIndex = N + 1 /\ ~o.textClosed /\ o.next = N + 2
         /\ o.calls = e.calls /\ o.text = e.text /\ o.failed = e.failed
<1> DEFINE f == [e EXCEPT !.textClosed = FALSE, !.textIndex = e.next, !.next = @ + 1]
           o == OpenText(e)
           n == N + 1
<1>1. e \in Encoders /\ N \in Nat /\ <<>> \in Text /\ n \in Nat /\ n + 1 = N + 2
  BY EmptySeq DEF On, Page, Text
<1>2. /\ f \in Encoders /\ f.events = e.events /\ f.sequence = e.sequence
      /\ f.textIndex = n /\ ~f.textClosed /\ f.next = n + 1
      /\ f.calls = e.calls /\ f.text = e.text /\ f.failed = e.failed
  <2>1. e.next \in Nat /\ e.next + 1 \in Nat
    BY <1>1 DEF Encoders
  <2> QED BY <1>1, <2>1 DEF Encoders
<1> HIDE DEF n
<1>3. o = Events(f, Types(<<>>, <<"open">>, <<"open", "part_added">>), n, <<>>)
  <2>1. ~(e.textIndex # 0 /\ ~(protocol = "Anthropic" /\ e.textClosed))
    OBVIOUS
  <2> QED BY <2>1 DEF OpenText, n
<1> HIDE DEF f, o
<1>4. On(f, N, done, said, told)
  BY <1>2, OnSame
<1>5. "open" \in EventTypes /\ "part_added" \in EventTypes /\ "open" \notin EndingTypes
      /\ "part_added" \notin EndingTypes /\ "part_added" \notin ItemTypes
  BY DEF EventTypes, EndingTypes, ItemTypes
<1> DEFINE g == Event(f, "open", n, <<>>)
<1>6. On(g, n, done, said, told) /\ Alike(f, g) /\ g \in Encoders
  BY <1>1, <1>4, <1>5, EventOn DEF n
<1>7. CASE protocol = "Chat"
  <2>1. o = f
    BY <1>1, <1>2, <1>3, <1>7, TypesAre, NoEvents
  <2> QED BY <1>1, <1>2, <1>4, <1>7, <2>1, OnChat DEF o, n
<1>8. CASE protocol = "Anthropic"
  <2>0. Types(<<>>, <<"open">>, <<"open", "part_added">>) = <<"open">>
    BY <1>8, TypesAre
  <2>1. o = g
    BY <2>0, <1>1, <1>2, <1>3, <1>5, <1>8, OneEvent
  <2> HIDE DEF g
  <2> QED BY <1>1, <1>2, <1>6, <2>1 DEF o, n, Alike
<1>9. CASE protocol = "Responses"
  <2> DEFINE h == Event(g, "part_added", n, <<>>)
  <2>0. Types(<<>>, <<"open">>, <<"open", "part_added">>) = <<"open", "part_added">>
    BY <1>9, TypesAre
  <2>1. o = h
    BY <2>0, <1>1, <1>2, <1>3, <1>5, <1>9, TwoEvents
  <2>2. On(h, n, done, said, told) /\ Alike(g, h)
    <3> HIDE DEF g
    <3> QED BY <1>1, <1>5, <1>6, EventOn
  <2> HIDE DEF g, h
  <2> QED BY <1>1, <1>2, <1>6, <2>1, <2>2 DEF o, n, Alike
<1> QED BY <1>7, <1>8, <1>9 DEF Protocols

\* The text item is closed.
LEMMA CloseTextOn ==
  ASSUME protocol \in Protocols, NEW e, NEW N, NEW done, NEW said, NEW told,
         On(e, N, done, said, told), e.textIndex \in (1 .. N) \ done, ~e.textClosed
  PROVE  LET c == CloseText(e) IN
         /\ On(c, N, done \cup {e.textIndex}, said, told)
         /\ c.textIndex = e.textIndex /\ c.textClosed /\ c.next = e.next
         /\ c.calls = e.calls /\ c.text = e.text /\ c.failed = e.failed
<1> DEFINE n == e.textIndex
           f == [e EXCEPT !.textClosed = TRUE]
           c == CloseText(e)
           t == e.text
<1>1. e \in Encoders /\ N \in Nat /\ n \in Nat /\ n # 0 /\ t \in Text /\ n \in (1 .. N) \ done
  BY DEF On, Page, Encoders
<1>2. /\ f \in Encoders /\ f.events = e.events /\ f.sequence = e.sequence
      /\ f.textIndex = n /\ f.textClosed /\ f.next = e.next
      /\ f.calls = e.calls /\ f.text = e.text /\ f.failed = e.failed
  BY <1>1 DEF Encoders
<1>3. c = Events(f, Types(<<>>, <<"close">>, <<"text_done", "part_done", "close">>), n, t)
  BY <1>1 DEF CloseText
<1> HIDE DEF f, c, n, t
<1>4. On(f, N, done, said, told)
  BY <1>2, OnSame
<1>5. /\ "close" \in EventTypes /\ "close" \notin EndingTypes
      /\ "text_done" \in EventTypes /\ "text_done" \notin EndingTypes /\ "text_done" \notin ItemTypes
      /\ "part_done" \in EventTypes /\ "part_done" \notin EndingTypes /\ "part_done" \notin ItemTypes
  BY DEF EventTypes, EndingTypes, ItemTypes
<1>6. CASE protocol = "Chat"
  <2>1. c = f
    BY <1>1, <1>2, <1>3, <1>6, TypesAre, NoEvents
  <2> QED BY <1>1, <1>2, <1>4, <1>6, <2>1, OnChat DEF c, n
<1>7. CASE protocol = "Anthropic"
  <2> DEFINE g == Event(f, "close", n, t)
  <2>0. Types(<<>>, <<"close">>, <<"text_done", "part_done", "close">>) = <<"close">>
    BY <1>7, TypesAre
  <2>1. c = g
    BY <2>0, <1>1, <1>2, <1>3, <1>5, <1>7, OneEvent
  <2>2. On(g, N, done \cup {n}, said, told) /\ Alike(f, g)
    BY <1>1, <1>4, <1>5, EventOn
  <2> HIDE DEF g
  <2> QED BY <1>1, <1>2, <2>1, <2>2 DEF c, n, Alike
<1>8. CASE protocol = "Responses"
  <2> DEFINE g == Event(f, "text_done", n, t)
             h == Event(g, "part_done", n, t)
             k == Event(h, "close", n, t)
  <2>0. Types(<<>>, <<"close">>, <<"text_done", "part_done", "close">>) = <<"text_done", "part_done", "close">>
    BY <1>8, TypesAre
  <2>1. c = k
    BY <2>0, <1>1, <1>2, <1>3, <1>5, <1>8, ThreeEvents
  <2>2. On(g, N, done, said, told) /\ Alike(f, g)
    BY <1>1, <1>4, <1>5, EventOn
  <2>3. On(h, N, done, said, told) /\ Alike(g, h)
    <3> HIDE DEF g
    <3> QED BY <1>1, <2>2, <1>5, EventOn
  <2>4. On(k, N, done \cup {n}, said, told) /\ Alike(h, k)
    <3> HIDE DEF h
    <3> QED BY <1>1, <2>3, <1>5, EventOn
  <2> HIDE DEF g, h, k
  <2> QED BY <1>1, <1>2, <2>1, <2>2, <2>3, <2>4 DEF c, n, Alike
<1> QED BY <1>6, <1>7, <1>8 DEF Protocols

\* The calls after the kth is closed.
Closing(calls, k) == [calls EXCEPT ![k].closed = TRUE]

\* A call's item is closed.
LEMMA CloseCallOn ==
  ASSUME protocol \in Protocols, NEW e, NEW N, NEW done, NEW said, NEW told,
         On(e, N, done, said, told), NEW k \in 1 .. Len(e.calls), ~e.calls[k].closed,
         e.calls[k].index \in (1 .. N) \ done
  PROVE  LET c == CloseCall(e, k) IN
         /\ On(c, N, done \cup {e.calls[k].index}, said, told)
         /\ c.textIndex = e.textIndex /\ c.textClosed = e.textClosed /\ c.next = e.next
         /\ c.calls = Closing(e.calls, k)
         /\ c.text = e.text /\ c.failed = e.failed
<1> DEFINE n == e.calls[k].index
           f == [e EXCEPT !.calls[k].closed = TRUE]
           c == CloseCall(e, k)
           t == e.calls[k].text
           more == Closing(e.calls, k)
<1>1. e \in Encoders /\ N \in Nat /\ e.calls \in Seq(CallSet) /\ k \in DOMAIN e.calls
      /\ e.calls[k] \in CallSet
  <2>1. e \in Encoders /\ N \in Nat /\ e.calls \in Seq(CallSet)
    BY DEF On, Page, Encoders
  <2> QED BY <2>1, ElementOfSeq, LenProperties
<1>2. n \in Nat /\ t \in Text /\ n \in (1 .. N) \ done
  BY <1>1 DEF CallSet
<1>3. more \in Seq(CallSet)
  <2>1. [e.calls[k] EXCEPT !.closed = TRUE] \in CallSet
    BY <1>1 DEF CallSet
  <2>2. more = [e.calls EXCEPT ![k] = [e.calls[k] EXCEPT !.closed = TRUE]]
    BY <1>1 DEF Closing
  <2> QED BY <1>1, <2>1, <2>2, ExceptSeq
<1>4. f = [e EXCEPT !.calls = more]
  BY <1>1 DEF Encoders, Closing
<1>5. /\ f \in Encoders /\ f.events = e.events /\ f.sequence = e.sequence
      /\ f.textIndex = e.textIndex /\ f.textClosed = e.textClosed /\ f.next = e.next
      /\ f.calls = more /\ f.text = e.text /\ f.failed = e.failed
  <2> HIDE DEF f, more
  <2> QED BY <1>1, <1>3, <1>4 DEF Encoders
<1>6. c = Events(f, Types(<<>>, <<"close">>, <<"arguments_done", "close">>), n, t)
  BY <1>1 DEF CloseCall
<1> HIDE DEF f, c, n, t, more
<1>7. On(f, N, done, said, told)
  BY <1>5, OnSame
<1>8. /\ "close" \in EventTypes /\ "close" \notin EndingTypes
      /\ "arguments_done" \in EventTypes /\ "arguments_done" \notin EndingTypes
      /\ "arguments_done" \notin ItemTypes
  BY DEF EventTypes, EndingTypes, ItemTypes
<1>9. CASE protocol = "Chat"
  <2>1. c = f
    BY <1>2, <1>5, <1>6, <1>9, TypesAre, NoEvents
  <2>2. On(c, N, done \cup {n}, said, told)
    BY <1>1, <1>7, <1>9, <2>1, OnChat
  <2> QED BY <1>5, <2>1, <2>2 DEF c, n, more
<1>10. CASE protocol = "Anthropic"
  <2> DEFINE g == Event(f, "close", n, t)
  <2>0. Types(<<>>, <<"close">>, <<"arguments_done", "close">>) = <<"close">>
    BY <1>10, TypesAre
  <2>1. c = g
    BY <2>0, <1>2, <1>5, <1>6, <1>8, <1>10, OneEvent
  <2>2. On(g, N, done \cup {n}, said, told) /\ Alike(f, g)
    BY <1>2, <1>7, <1>8, EventOn
  <2> HIDE DEF g
  <2> QED BY <1>5, <2>1, <2>2 DEF c, n, more, Alike
<1>11. CASE protocol = "Responses"
  <2> DEFINE g == Event(f, "arguments_done", n, t)
             h == Event(g, "close", n, t)
  <2>0. Types(<<>>, <<"close">>, <<"arguments_done", "close">>) = <<"arguments_done", "close">>
    BY <1>11, TypesAre
  <2>1. c = h
    BY <2>0, <1>2, <1>5, <1>6, <1>8, <1>11, TwoEvents
  <2>2. On(g, N, done, said, told) /\ Alike(f, g)
    BY <1>2, <1>7, <1>8, EventOn
  <2>3. On(h, N, done \cup {n}, said, told) /\ Alike(g, h)
    <3> HIDE DEF g
    <3> QED BY <1>2, <2>2, <1>8, EventOn
  <2> HIDE DEF g, h
  <2> QED BY <1>5, <2>1, <2>2, <2>3 DEF c, n, more, Alike
<1> QED BY <1>9, <1>10, <1>11 DEF Protocols

TextItem(text) == IF text = <<>> THEN 0 ELSE 1

\* The items that are closed between two deltas: all but the text's, perhaps.
Shut(e, N) == (1 .. N) \ (IF e.textIndex # 0 /\ ~e.textClosed THEN {e.textIndex} ELSE {})

\* The encoder has told the client this text and these calls.
Told(e, text, calls) ==
  /\ text \in Text /\ calls \in Seq(Text) /\ ~e.failed
  /\ e.textIndex = TextItem(text) /\ e.next = Len(calls) + TextItem(text) + 1
  /\ e.textClosed => calls # <<>>
  /\ Len(e.calls) = Len(calls) /\ \A k \in 1 .. Len(e.calls) : e.calls[k].closed
  /\ On(e, Len(calls) + TextItem(text), Shut(e, Len(calls) + TextItem(text)),
        text, FlattenSeq(calls))

\* More text is told while there are no calls.
LEMMA TextTold ==
  ASSUME protocol \in Protocols, NEW e, NEW text, Told(e, text, <<>>),
         NEW more \in Text, more # <<>>
  PROVE  Told(Delta(e, [tag |-> "Text", index |-> 0, text |-> more]), text \o more, <<>>)
<1> DEFINE d == [tag |-> "Text", index |-> 0, text |-> more]
           o == OpenText(e)
           p == [o EXCEPT !.text = @ \o more]
           f == Event(p, "text_delta", o.textIndex, more)
           said == FlattenSeq(<<>>)
<1>1. /\ text \in Text /\ ~e.failed /\ Len(<<>>) = 0 /\ e \in Encoders
      /\ e.textIndex = TextItem(text) /\ e.next = TextItem(text) + 1
      /\ ~e.textClosed /\ Len(e.calls) = 0
      /\ On(e, TextItem(text), Shut(e, TextItem(text)), text, said)
  BY DEF Told, On, TextItem
<1>2. e.calls = <<>>
  <2>1. e.calls \in Seq(CallSet)
    BY <1>1 DEF Encoders
  <2> QED BY <1>1, <2>1, EmptySeq
<1>3. Delta(e, d) = f
  <2>1. Delta(e, d) = TextDelta(e, d)
    BY <1>1, <1>2 DEF Delta
  <2> QED BY <2>1 DEF TextDelta
<1>4. On(o, 1, {}, text, said) /\ o.textIndex = 1 /\ ~o.textClosed /\ o.next = 2
      /\ o.calls = <<>> /\ ~o.failed
  <2>1. CASE text = <<>>
    <3>1. On(e, 0, Shut(e, 0), text, said) /\ e.textIndex = 0 /\ e.next = 1
      BY <1>1, <2>1 DEF TextItem
    <3>2. Shut(e, 0) = {}
      BY DEF Shut
    <3>3. On(e, 0, {}, text, said) /\ e.next = 0 + 1
      <4> HIDE DEF said
      <4>1. On(e, 0, {}, text, said)
        BY <3>1, <3>2
      <4>2. e.next = 0 + 1
        BY <3>1
      <4> QED BY <4>1, <4>2
    <3>4. /\ On(o, 0 + 1, {}, text, said)
          /\ o.textIndex = 0 + 1 /\ ~o.textClosed /\ o.next = 0 + 2
          /\ o.calls = e.calls /\ o.failed = e.failed
      <4> HIDE DEF said
      <4> QED BY <3>1, <3>3, OpenTextOn
    <3> QED BY <1>1, <1>2, <3>4
  <2>2. CASE text # <<>>
    <3>1. On(e, 1, Shut(e, 1), text, said) /\ e.textIndex = 1 /\ e.next = 2
      BY <1>1, <2>2 DEF TextItem
    <3>2. Shut(e, 1) = {}
      BY <1>1, <3>1 DEF Shut
    <3>3. o = e
      BY <1>1, <3>1 DEF OpenText
    <3> QED BY <1>1, <1>2, <3>1, <3>2, <3>3
  <2> QED BY <2>1, <2>2
<1> HIDE DEF o, said
<1>5. o \in Encoders /\ o.text \in Text
  <2>1. o \in Encoders
    BY <1>4 DEF On
  <2> QED BY <2>1 DEF Encoders
<1>6. /\ p \in Encoders /\ p.events = o.events /\ p.sequence = o.sequence
      /\ p.textIndex = 1 /\ ~p.textClosed /\ p.next = 2 /\ p.calls = <<>> /\ ~p.failed
  <2>1. o.text \o more \in Text
    BY <1>5, ConcatProperties DEF Text
  <2> QED BY <1>4, <1>5, <2>1 DEF Encoders
<1> HIDE DEF p
<1>7. On(p, 1, {}, text, said)
  BY <1>4, <1>6, OnSame
<1>8. "text_delta" \in EventTypes /\ "text_delta" \notin EndingTypes /\ 1 \in Nat /\ 1 \in (1 .. 1) \ {}
  BY DEF EventTypes, EndingTypes
<1>9. On(f, 1, {}, text \o more, said) /\ Alike(p, f)
  <2> DEFINE g == Event(p, "text_delta", 1, more)
  <2>1. On(g, 1, {}, text \o more, said) /\ Alike(p, g)
    BY <1>7, <1>8, EventOn
  <2>2. f = g
    BY <1>4
  <2> QED BY <2>1, <2>2
<1>10. text \o more \in Text /\ text \o more # <<>>
  <2>1. text \in Seq(Symbols) /\ more \in Seq(Symbols)
    BY <1>1 DEF Text
  <2>2. Len(more) \in Nat /\ Len(more) # 0 /\ Len(text) \in Nat
    BY <2>1, EmptySeq, LenProperties
  <2>3. text \o more \in Seq(Symbols) /\ Len(text \o more) = Len(text) + Len(more)
    BY <2>1, ConcatProperties
  <2>4. Len(text \o more) # 0
    BY <2>2, <2>3
  <2> QED BY <2>3, <2>4, EmptySeq DEF Text
<1> HIDE DEF f
<1>11. /\ ~f.failed /\ f.textIndex = 1 /\ f.next = 2 /\ ~f.textClosed /\ f.calls = <<>>
  BY <1>6, <1>9 DEF Alike
<1>12. Shut(f, 1) = {}
  BY <1>11 DEF Shut
<1> DEFINE now == text \o more
<1>13. now \in Text /\ TextItem(now) = 1 /\ Len(<<>>) + 1 = 1 /\ Len(<<>>) = 0 /\ <<>> \in Seq(Text)
       /\ On(f, 1, Shut(f, 1), now, FlattenSeq(<<>>))
  BY <1>9, <1>10, <1>12 DEF TextItem, said
<1> HIDE DEF now
<1>14. Told(f, now, <<>>)
  BY <1>11, <1>13 DEF Told
<1> QED BY <1>3, <1>14 DEF now

\* A whole call is told.
LEMMA CallTold ==
  ASSUME protocol \in Protocols, NEW e, NEW text, NEW calls, Told(e, text, calls),
         NEW body \in Text
  PROVE  LET Part(tag) == [tag |-> tag, index |-> Len(calls) + 1, text |-> body]
             e1 == Delta(e, Part("ToolStart"))
             e2 == Delta(e1, Part("ToolArguments"))
             e3 == Delta(e2, Part("ToolEnd"))
         IN Told(e3, text, Append(calls, body))
<1> DEFINE K == Len(calls)
           t == TextItem(text)
           N == K + t
           flat == FlattenSeq(calls)
           Part(tag) == [tag |-> tag, index |-> K + 1, text |-> body]
           e1 == Delta(e, Part("ToolStart"))
           e2 == Delta(e1, Part("ToolArguments"))
           e3 == Delta(e2, Part("ToolEnd"))
           closes == protocol = "Anthropic" /\ t # 0 /\ ~e.textClosed
           c == IF protocol = "Anthropic" THEN CloseText(e) ELSE e
           done == IF closes THEN 1 .. N ELSE Shut(e, N)
<1>1. /\ text \in Text /\ calls \in Seq(Text) /\ ~e.failed /\ K \in Nat /\ t \in {0, 1} /\ N \in Nat
      /\ e.textIndex = t /\ e.next = N + 1 /\ (e.textClosed => calls # <<>>)
      /\ e \in Encoders /\ e.calls \in Seq(CallSet) /\ Len(e.calls) = K
      /\ \A k \in 1 .. K : e.calls[k].closed
      /\ On(e, N, Shut(e, N), text, flat)
  <2>1. /\ text \in Text /\ calls \in Seq(Text) /\ ~e.failed /\ K \in Nat /\ t \in {0, 1}
        /\ e.textIndex = t /\ e.next = N + 1 /\ (e.textClosed => calls # <<>>)
        /\ Len(e.calls) = K /\ (\A k \in 1 .. K : e.calls[k].closed)
        /\ On(e, N, Shut(e, N), text, flat)
    <3> HIDE DEF flat
    <3> QED BY LenProperties DEF Told, TextItem, flat
  <2>2. e \in Encoders
    <3> HIDE DEF flat, N
    <3> QED BY <2>1 DEF On
  <2> QED BY <2>1, <2>2 DEF Encoders
<1>2. flat \in Text
  BY <1>1, FlattenMore
<1> HIDE DEF K, t, flat
<1>3. /\ On(c, N, done, text, flat) /\ c.textIndex = t /\ c.next = N + 1
      /\ c.textClosed = (e.textClosed \/ closes)
      /\ c.calls = e.calls /\ ~c.failed
  <2>1. CASE closes
    <3>1. t = 1 /\ ~e.textClosed /\ e.textIndex = 1 /\ protocol = "Anthropic"
      BY <1>1, <2>1
    <3>2. Shut(e, N) = (1 .. N) \ {1} /\ 1 \in 1 .. N
      BY <1>1, <3>1 DEF Shut
    <3>3. 1 \in (1 .. N) \ Shut(e, N) /\ Shut(e, N) \cup {1} = 1 .. N
      BY <3>2
    <3> HIDE DEF N
    <3>4. /\ On(CloseText(e), N, Shut(e, N) \cup {e.textIndex}, text, flat)
          /\ CloseText(e).textIndex = e.textIndex /\ CloseText(e).textClosed
          /\ CloseText(e).next = e.next /\ CloseText(e).calls = e.calls
          /\ CloseText(e).failed = e.failed
      BY <1>1, <3>1, <3>3, CloseTextOn
    <3> QED BY <1>1, <2>1, <3>1, <3>3, <3>4
  <2>2. CASE ~closes
    <3>1. c = e
      BY <1>1, <2>2 DEF CloseText
    <3> HIDE DEF N, c
    <3> QED BY <1>1, <2>2, <3>1 DEF Encoders
  <2> QED BY <2>1, <2>2
<1> DEFINE new == [index |-> N + 1, text |-> <<>>, closed |-> FALSE]
           b1 == [c EXCEPT !.next = @ + 1, !.calls = Append(@, new)]
           type == IF protocol = "Chat" THEN "tool_delta" ELSE "open"
<1>4. e1 = Event(b1, type, N + 1, <<>>)
  <2>1. e1 = ToolStart(e)
    BY <1>1 DEF Delta
  <2>2. ToolStart(e) = Event(b1, type, c.next, <<>>)
    BY <1>3 DEF ToolStart
  <2> QED BY <1>3, <2>1, <2>2
<1>5. \A k \in 1 .. N + 1 : k \in 1 .. N \/ k = N + 1
  BY <1>1
<1>6. N + 1 \in Nat /\ N + 1 \in 1 .. N + 1 /\ N + 1 \notin 1 .. N /\ done \subseteq 1 .. N
      /\ <<>> \in Text /\ N + 1 \in (1 .. N + 1) \ done
  <2>1. Shut(e, N) \subseteq 1 .. N
    BY DEF Shut
  <2>2. done \subseteq 1 .. N
    BY <2>1
  <2> HIDE DEF done
  <2> QED BY <1>1, <2>2, EmptySeq DEF Text
<1> HIDE DEF c, done, closes, e1, N
<1>7. c \in Encoders /\ c.calls \in Seq(CallSet) /\ Len(c.calls) = K
  BY <1>1, <1>3 DEF On
<1>8. new \in CallSet
  BY <1>6 DEF CallSet
<1>9. /\ Append(e.calls, new) \in Seq(CallSet) /\ Len(Append(e.calls, new)) = K + 1
      /\ Append(e.calls, new)[K + 1] = new
      /\ \A k \in 1 .. K : Append(e.calls, new)[k] = e.calls[k]
  <2> DEFINE cs == e.calls
  <2>1. cs \in Seq(CallSet) /\ Len(cs) = K
    BY <1>1
  <2> HIDE DEF cs, new
  <2> QED BY <1>8, <2>1, AppendProperties DEF cs
<1> DEFINE more == Append(e.calls, new)
<1>10. /\ b1 \in Encoders /\ b1.events = c.events /\ b1.sequence = c.sequence
       /\ b1.textIndex = t /\ b1.textClosed = c.textClosed /\ b1.next = N + 2
       /\ b1.calls = more /\ ~b1.failed
  <2>1. b1 = [c EXCEPT !.next = c.next + 1, !.calls = more]
    BY <1>3, <1>7 DEF Encoders
  <2>2. c.next + 1 = N + 2 /\ N + 2 \in Nat
    BY <1>1, <1>3
  <2> HIDE DEF more, b1
  <2> QED BY <1>3, <1>7, <1>9, <2>1, <2>2 DEF Encoders, more
<1> HIDE DEF b1, new, more
<1>11. On(b1, N, done, text, flat)
  BY <1>3, <1>10, OnSame
<1>12. "open" \in EventTypes /\ "open" \notin EndingTypes
       /\ "tool_delta" \in EventTypes /\ "tool_delta" \notin EndingTypes
  BY DEF EventTypes, EndingTypes
<1>13. On(e1, N + 1, done, text, flat) /\ Alike(b1, e1) /\ e1 \in Encoders
  <2>1. CASE protocol = "Chat"
    <3>1. e1 = Event(b1, "tool_delta", N + 1, <<>>)
      BY <1>4, <2>1
    <3>2. On(e1, N, done, text, flat \o <<>>) /\ Alike(b1, e1) /\ e1 \in Encoders
      BY <1>6, <1>11, <1>12, <2>1, <3>1, EventOn
    <3>3. flat \o <<>> = flat
      BY <1>2, ConcatEmptySeq DEF Text
    <3> QED BY <1>6, <2>1, <3>2, <3>3, OnChat
  <2>2. CASE protocol # "Chat"
    <3>1. e1 = Event(b1, "open", N + 1, <<>>)
      BY <1>4, <2>2
    <3> QED BY <1>6, <1>11, <1>12, <3>1, EventOn
  <2> QED BY <2>1, <2>2
<1>14. /\ e1.textIndex = t /\ e1.textClosed = c.textClosed /\ e1.next = N + 2
       /\ e1.calls = more /\ ~e1.failed
  BY <1>10, <1>13 DEF Alike
<1> DEFINE more2 == [more EXCEPT ![K + 1] = [new EXCEPT !.text = <<>> \o body]]
           b2 == [e1 EXCEPT !.calls = more2]
<1>15. /\ K + 1 \in 1 .. K + 1 /\ more \in Seq(CallSet) /\ Len(more) = K + 1 /\ more[K + 1] = new
       /\ \A k \in 1 .. K : more[k] = e.calls[k]
  BY <1>1, <1>9 DEF more
<1>16. DOMAIN more = 1 .. K + 1
  BY <1>15, LenProperties
<1>17. /\ more2 \in Seq(CallSet) /\ Len(more2) = K + 1
       /\ more2[K + 1].index = N + 1 /\ more2[K + 1].closed = FALSE
       /\ \A k \in 1 .. K : more2[k] = e.calls[k]
  <2>1. <<>> \o body \in Text
    BY <1>6, ConcatProperties DEF Text
  <2>2. /\ [new EXCEPT !.text = <<>> \o body] \in CallSet
        /\ [new EXCEPT !.text = <<>> \o body].index = N + 1
        /\ [new EXCEPT !.text = <<>> \o body].closed = FALSE
    BY <1>6, <2>1 DEF CallSet, new
  <2> DEFINE x == [new EXCEPT !.text = <<>> \o body]
  <2> HIDE DEF x
  <2>3. x \in CallSet /\ x.index = N + 1 /\ x.closed = FALSE
    BY <2>2 DEF x
  <2> DEFINE m2 == [more EXCEPT ![K + 1] = x]
  <2>4. m2 \in Seq(CallSet) /\ Len(m2) = Len(more)
    BY <1>15, <1>16, <2>3, ExceptSeq
  <2>5. m2[K + 1] = x /\ \A k \in 1 .. K : m2[k] = more[k]
    <3>1. \A k \in 1 .. K : k \in 1 .. K + 1 /\ k # K + 1
      BY <1>1
    <3> QED BY <1>15, <1>16, <3>1
  <2>6. more2 = m2
    BY DEF x
  <2> HIDE DEF m2, more2
  <2> QED BY <1>15, <2>3, <2>4, <2>5, <2>6
<1>18. e2 = Event(b2, "tool_delta", N + 1, body)
  <2>1. e2 = ToolArguments(e1, Part("ToolArguments"))
    <3>1. Part("ToolArguments").tag = "ToolArguments"
      OBVIOUS
    <3> QED BY <1>14, <3>1 DEF Delta
  <2>2. [e1 EXCEPT !.calls[K + 1].text = @ \o body] = b2
    <3>1. e1.calls[K + 1] = new /\ new.text = <<>>
      BY <1>14, <1>15 DEF new
    <3> QED BY <1>13, <1>14, <3>1 DEF Encoders
  <2>3. e1.calls[K + 1].index = N + 1
    BY <1>14, <1>15 DEF new
  <2> HIDE DEF b2
  <2>4. ToolArguments(e1, Part("ToolArguments")) = Event(b2, "tool_delta", N + 1, body)
    BY <1>14, <1>15, <1>16, <2>2, <2>3 DEF ToolArguments
  <2> QED BY <2>1, <2>4
<1> HIDE DEF more2
<1>19. /\ b2 \in Encoders /\ b2.events = e1.events /\ b2.sequence = e1.sequence
       /\ b2.textIndex = t /\ b2.textClosed = c.textClosed /\ b2.next = N + 2
       /\ b2.calls = more2 /\ ~b2.failed
  BY <1>13, <1>14, <1>17 DEF Encoders
<1> HIDE DEF b2, e2
<1>20. On(b2, N + 1, done, text, flat)
  BY <1>13, <1>19, OnSame
<1>21. On(e2, N + 1, done, text, flat \o body) /\ Alike(b2, e2)
  BY <1>6, <1>12, <1>18, <1>20, EventOn
<1>22. /\ e2.textIndex = t /\ e2.textClosed = c.textClosed /\ e2.next = N + 2
       /\ e2.calls = more2 /\ ~e2.failed
  BY <1>19, <1>21 DEF Alike
<1>23. e3 = CloseCall(e2, K + 1)
  <2>1. Part("ToolEnd").tag = "ToolEnd" /\ Part("ToolEnd").index = K + 1
    OBVIOUS
  <2> QED BY <1>22, <2>1 DEF Delta
<1> HIDE DEF e3
<1> DEFINE m == K + 1
           n == N + 1
<1>24. /\ On(e3, N + 1, done \cup {N + 1}, text, flat \o body)
       /\ e3.textIndex = t /\ e3.textClosed = c.textClosed /\ e3.next = N + 2
       /\ e3.calls = [more2 EXCEPT ![K + 1].closed = TRUE] /\ ~e3.failed
  <2> DEFINE more3 == flat \o body
             i == e2.calls[m].index
  <2>1. /\ m \in 1 .. Len(e2.calls) /\ ~e2.calls[m].closed /\ i = n
        /\ n \in (1 .. n) \ done /\ On(e2, n, done, text, more3) /\ e3 = CloseCall(e2, m)
    BY <1>6, <1>15, <1>17, <1>21, <1>22, <1>23
  <2> HIDE DEF m, n, more3
  <2>2. On(e2, n, done, text, more3) /\ m \in 1 .. Len(e2.calls)
    BY <2>1
  <2>3. ~e2.calls[m].closed
    BY <2>1
  <2>4. e2.calls[m].index \in (1 .. n) \ done
    BY <2>1
  <2>5. /\ On(CloseCall(e2, m), n, done \cup {e2.calls[m].index}, text, more3)
        /\ CloseCall(e2, m).textIndex = e2.textIndex
        /\ CloseCall(e2, m).textClosed = e2.textClosed
        /\ CloseCall(e2, m).next = e2.next
        /\ CloseCall(e2, m).calls = Closing(e2.calls, m)
        /\ CloseCall(e2, m).text = e2.text /\ CloseCall(e2, m).failed = e2.failed
    BY ONLY protocol \in Protocols, <2>2, <2>3, <2>4, CloseCallOn
  <2> QED BY <1>22, <2>1, <2>5 DEF m, n, more3, Closing
<1>25. Len(e3.calls) = K + 1 /\ \A k \in 1 .. K + 1 : e3.calls[k].closed
  <2>1. more2[K + 1] \in CallSet /\ DOMAIN more2 = 1 .. K + 1
    BY <1>15, <1>17, ElementOfSeq, LenProperties
  <2> DEFINE y == [more2[K + 1] EXCEPT !.closed = TRUE]
             m3 == [more2 EXCEPT ![K + 1] = y]
  <2>2. y \in CallSet /\ y.closed
    BY <2>1 DEF CallSet
  <2>3. e3.calls = m3
    BY <1>24
  <2> HIDE DEF y
  <2>4. m3 \in Seq(CallSet) /\ Len(m3) = Len(more2)
    BY <1>15, <1>17, <2>1, <2>2, ExceptSeq
  <2>5. m3[K + 1] = y /\ \A k \in 1 .. K : m3[k] = e.calls[k]
    <3>1. \A k \in 1 .. K : k \in 1 .. K + 1 /\ k # K + 1
      BY <1>1
    <3> QED BY <1>15, <1>17, <2>1, <3>1
  <2> HIDE DEF m3
  <2>6. \A k \in 1 .. K + 1 : k \in 1 .. K \/ k = K + 1
    BY <1>1
  <2> QED BY <1>1, <1>17, <2>2, <2>3, <2>4, <2>5, <2>6
<1> DEFINE now == Append(calls, body)
<1>26. /\ now \in Seq(Text) /\ Len(now) = K + 1 /\ FlattenSeq(now) = flat \o body
  BY <1>1, AppendProperties, FlattenMore DEF K, flat
<1>27. now # <<>>
  <2>1. Len(now) # 0
    BY <1>1, <1>26
  <2> HIDE DEF now
  <2> QED BY <1>26, <2>1, EmptySeq
<1>28. (K + 1) + t = N + 1 /\ N + 2 = (K + 1) + t + 1
  BY <1>1 DEF N
<1>29. Shut(e3, N + 1) = done \cup {N + 1}
  <2>1. e3.textIndex # 0 /\ ~e3.textClosed <=> t # 0 /\ ~e.textClosed /\ ~closes
    BY <1>3, <1>24
  <2>2. CASE t # 0 /\ ~e.textClosed /\ ~closes
    <3>1. Shut(e3, N + 1) = (1 .. N + 1) \ {t} /\ done = (1 .. N) \ {t}
      BY <1>1, <1>24, <2>1, <2>2 DEF Shut, done
    <3>2. t \in 1 .. N /\ t # N + 1
      BY <1>1, <2>2 DEF N
    <3>3. 1 .. N + 1 = 1 .. N \cup {N + 1}
      BY <1>1
    <3> QED BY <3>1, <3>2, <3>3
  <2>3. CASE ~(t # 0 /\ ~e.textClosed /\ ~closes)
    <3>1. Shut(e3, N + 1) = 1 .. N + 1
      BY <2>1, <2>3 DEF Shut
    <3>2. done = 1 .. N
      BY <1>1, <2>3 DEF Shut, done
    <3> QED BY <1>1, <1>5, <1>6, <3>1, <3>2
  <2> QED BY <2>2, <2>3
<1> HIDE DEF now
<1>30. Told(e3, text, now)
  <2>1. On(e3, Len(now) + TextItem(text), Shut(e3, Len(now) + TextItem(text)), text, FlattenSeq(now))
    BY <1>24, <1>26, <1>28, <1>29 DEF t
  <2>2. e3.next = Len(now) + TextItem(text) + 1 /\ e3.textIndex = TextItem(text)
    BY <1>24, <1>26, <1>28 DEF t
  <2> QED BY <1>1, <1>24, <1>25, <1>26, <1>27, <2>1, <2>2 DEF Told
<1> QED BY <1>30 DEF e3, e2, e1, K, now

-----------------------------------------------------------------------------
(* A stream that ends.                                                     *)

\* w has ended, as a stream of this outcome ends.
Ending(w, status) ==
  /\ w \in Seq(EventSet) /\ Len(w) >= 1
  /\ \A i \in 1 .. Len(w) - 1 : w[i].type \notin Terminal
  /\ w[Len(w)].type \in Terminal
  /\ status # "completed" <=> \E i \in 1 .. Len(w) : w[i].type = "error"
  /\ protocol = "Responses" => \A i \in 1 .. Len(w) :
       /\ i = 1 => w[i].number = 0
       /\ i > 1 => \/ w[i].number = w[i - 1].number + 1
                   \/ /\ status = "unstored" /\ w[i].type = "error"
                      /\ w[i].number > w[i - 1].number

\* Terminal events are among the ending ones, and are no item's.
LEMMA TerminalTypes ==
  /\ Terminal \subseteq EndingTypes /\ Terminal \cap ItemTypes = {}
  /\ \A type \in ItemTypes : type \notin {"error", "chunk", "message_delta"}
  /\ "error" \in Terminal <=> protocol = "Anthropic"
  BY DEF Terminal, EndingTypes, ItemTypes

\* The last event of a stream.
LEMMA LastEvent ==
  ASSUME NEW w, NEW q, NEW N, NEW done, NEW said, NEW told, Page(w, q, N, done, said, told),
         NEW ev \in EventSet, ev.type \in Terminal, ev.number = q,
         NEW status, status # "completed" <=> ev.type = "error"
  PROVE  LET v == Append(w, ev) IN
         /\ Ending(v, status) /\ Said(v, "text_delta") = said /\ Said(v, "tool_delta") = told
         /\ protocol # "Chat" => Items(v, N, done)
<1> DEFINE L == Len(w)
           v == Append(w, ev)
<1>1. /\ w \in Seq(EventSet) /\ q \in Nat /\ N \in Nat /\ L \in Nat
      /\ \A i \in 1 .. L : w[i].type \notin EndingTypes
      /\ protocol = "Responses" => q = L /\ \A i \in 1 .. L : w[i].number = i - 1
      /\ said = Said(w, "text_delta") /\ told = Said(w, "tool_delta")
      /\ protocol = "Chat" \/ Items(w, N, done)
  BY LenProperties DEF Page
<1>2. v \in Seq(EventSet) /\ Len(v) = L + 1 /\ v[L + 1] = ev /\ \A k \in 1 .. L : v[k] = w[k]
  BY <1>1, AppendProperties
<1>3. ev.type \notin ItemTypes /\ ev.type # "text_delta" /\ ev.type # "tool_delta"
  BY TerminalTypes DEF ItemTypes
<1>4. Said(v, "text_delta") = said /\ Said(v, "tool_delta") = told
  BY <1>1, <1>3, SaidMore
<1>5. protocol # "Chat" => Items(v, N, done)
  BY <1>1, <1>3, ItemsMore
<1> HIDE DEF v, L
<1>6. \A i \in 1 .. L + 1 : i \in 1 .. L \/ i = L + 1
  BY <1>1
<1>7. (L + 1) - 1 = L /\ L + 1 >= 1 /\ L + 1 \in 1 .. L + 1 /\ (1 .. L) \subseteq 1 .. L + 1
  BY <1>1
<1>8. \A i \in 1 .. L : v[i].type \notin Terminal /\ v[i].type # "error"
  BY <1>1, <1>2, TerminalTypes DEF EndingTypes
<1>9. status # "completed" <=> \E i \in 1 .. L + 1 : v[i].type = "error"
  BY <1>2, <1>6, <1>7, <1>8
<1>10. ASSUME protocol = "Responses", NEW i \in 1 .. L + 1
       PROVE  /\ i = 1 => v[i].number = 0
              /\ i > 1 => v[i].number = v[i - 1].number + 1
  <2>1. \A k \in 1 .. L + 1 : v[k].number = k - 1
    BY <1>1, <1>2, <1>6, <1>7, <1>10
  <2>2. i > 1 => i - 1 \in 1 .. L + 1 /\ (i - 1) - 1 + 1 = i - 1
    BY <1>1
  <2> QED BY <2>1, <2>2
<1>11. Ending(v, status)
  BY <1>2, <1>7, <1>8, <1>9, <1>10 DEF Ending
<1> QED BY <1>4, <1>5, <1>11 DEF v

\* The last two, an error and what follows it.
LEMMA LastTwo ==
  ASSUME NEW w, NEW q, NEW N, NEW done, NEW said, NEW told, Page(w, q, N, done, said, told),
         Len(w) >= 1, protocol # "Anthropic",
         NEW a \in EventSet, a.type = "error", NEW b \in EventSet, b.type \in Terminal,
         NEW status \in {"failed", "unstored"},
         protocol = "Responses" =>
           /\ b.number = a.number + 1
           /\ a.number = q \/ (status = "unstored" /\ a.number > q)
  PROVE  LET v == Append(Append(w, a), b) IN
         Ending(v, status) /\ Said(v, "text_delta") = said /\ Said(v, "tool_delta") = told
<1> DEFINE L == Len(w)
           u == Append(w, a)
           v == Append(u, b)
<1>1. /\ w \in Seq(EventSet) /\ q \in Nat /\ L \in Nat /\ L >= 1
      /\ \A i \in 1 .. L : w[i].type \notin EndingTypes
      /\ protocol = "Responses" => q = L /\ \A i \in 1 .. L : w[i].number = i - 1
      /\ said = Said(w, "text_delta") /\ told = Said(w, "tool_delta")
  BY LenProperties DEF Page
<1>2. u \in Seq(EventSet) /\ Len(u) = L + 1 /\ u[L + 1] = a /\ \A k \in 1 .. L : u[k] = w[k]
  BY <1>1, AppendProperties
<1>3. Said(u, "text_delta") = said /\ Said(u, "tool_delta") = told
  BY <1>1, SaidMore
<1> HIDE DEF u, L
<1>4. /\ v \in Seq(EventSet) /\ Len(v) = (L + 1) + 1 /\ v[(L + 1) + 1] = b
      /\ \A k \in 1 .. L + 1 : v[k] = u[k]
  BY <1>2, AppendProperties
<1>5. b.type # "text_delta" /\ b.type # "tool_delta"
  BY TerminalTypes DEF ItemTypes
<1>6. Said(v, "text_delta") = said /\ Said(v, "tool_delta") = told
  BY <1>2, <1>3, <1>5, SaidMore
<1> HIDE DEF v
<1>7. /\ (L + 1) + 1 = L + 2 /\ (L + 2) - 1 = L + 1 /\ L + 2 >= 1 /\ L + 1 \in 1 .. L + 1
      /\ \A i \in 1 .. L : i \in 1 .. L + 1
      /\ \A i \in 1 .. L + 1 : (i \in 1 .. L \/ i = L + 1) /\ i \in 1 .. L + 2
      /\ \A i \in 1 .. L + 2 : i \in 1 .. L \/ i = L + 1 \/ i = L + 2
  BY <1>1
<1>8. Len(v) = L + 2 /\ v[L + 2] = b /\ v[L + 1] = a /\ \A k \in 1 .. L : v[k] = w[k]
  BY <1>2, <1>4, <1>7
<1>9. \A i \in 1 .. L + 1 : v[i].type \notin Terminal
  BY <1>1, <1>7, <1>8, TerminalTypes DEF EndingTypes
<1>10. \E i \in 1 .. L + 2 : v[i].type = "error"
  <2>1. L + 1 \in 1 .. L + 2
    BY <1>7
  <2> QED BY <1>8, <2>1
<1>11. ASSUME protocol = "Responses", NEW i \in 1 .. L + 2
       PROVE  /\ i = 1 => v[i].number = 0
              /\ i > 1 => \/ v[i].number = v[i - 1].number + 1
                          \/ /\ status = "unstored" /\ v[i].type = "error"
                             /\ v[i].number > v[i - 1].number
  <2>1. /\ \A k \in 1 .. L : v[k].number = k - 1
        /\ b.number = a.number + 1 /\ (a.number = L \/ (status = "unstored" /\ a.number > L))
    BY <1>1, <1>8, <1>11
  <2>2. a.number \in Nat
    BY DEF EventSet
  <2>3. CASE i \in 1 .. L
    <3>1. i > 1 => i - 1 \in 1 .. L /\ (i - 1) - 1 + 1 = i - 1
      BY <1>1, <2>3
    <3> QED BY <2>1, <2>3, <3>1
  <2>4. CASE i = L + 1
    <3>1. L \in 1 .. L /\ (L + 1) - 1 = L /\ L + 1 # 1
      BY <1>1
    <3>2. v[L].number = L - 1 /\ v[L + 1].type = "error" /\ v[L + 1].number = a.number
      BY <1>8, <2>1, <3>1
    <3>3. a.number = (L - 1) + 1 \/ (status = "unstored" /\ a.number > L - 1)
      BY <1>1, <2>1, <2>2
    <3> QED BY <2>4, <3>1, <3>2, <3>3
  <2>5. CASE i = L + 2
    <3>1. i - 1 = L + 1 /\ i # 1
      BY <1>1, <2>5
    <3> QED BY <1>8, <2>1, <2>5, <3>1
  <2> QED BY <1>7, <2>3, <2>4, <2>5
<1>12. v[L + 2].type \in Terminal /\ status # "completed" /\ v \in Seq(EventSet)
  BY <1>4, <1>8
<1>13. Ending(v, status)
  BY <1>7, <1>8, <1>9, <1>10, <1>11, <1>12 DEF Ending
<1> QED BY <1>6, <1>13 DEF v, u

\* An event more for the client.
LEMMA Sent ==
  ASSUME wire \in Seq(EventSet), NEW y \in Encoders, NEW type \in EventTypes
  PROVE  LET z == Event(y, type, 0, <<>>)
             ev == TheEvent(y, type, 0, <<>>)
         IN /\ z \in Encoders /\ Alike(y, z) /\ z.sequence = Later(y, 1)
            /\ ev \in EventSet /\ ev.type = type /\ ev.number = y.sequence
            /\ wire \o z.events = Append(wire \o y.events, ev)
<1> DEFINE z == Event(y, type, 0, <<>>)
           ev == TheEvent(y, type, 0, <<>>)
           es == y.events
           k == Later(y, 1)
           more == Append(es, ev)
           v == wire \o es
<1>1. ev \in EventSet /\ more \in Seq(EventSet) /\ z = With(y, more, k) /\ z \in Encoders
  <2>1. 0 \in Nat /\ <<>> \in Text
    BY EmptySeq DEF Text
  <2> QED BY <2>1, EventIs
<1>2. es \in Seq(EventSet) /\ k \in Nat
  <2>1. 1 \in Nat
    OBVIOUS
  <2> QED BY <2>1, LaterIs DEF Encoders
<1>3. ev.type = type /\ ev.number = y.sequence
  BY DEF TheEvent
<1> HIDE DEF ev, es, k, z
<1>4. z.events = more /\ Alike(y, z) /\ z.sequence = k
  <2> HIDE DEF more
  <2> QED BY <1>1, <1>2, WithIs DEF Alike
<1>5. wire \o more = Append(v, ev)
  <2>1. <<ev>> \in Seq(EventSet) /\ more = es \o <<ev>> /\ v \in Seq(EventSet)
    BY <1>1, <1>2, AppendIsConcat, ConcatProperties
  <2>2. wire \o (es \o <<ev>>) = (wire \o es) \o <<ev>>
    BY <1>2, <2>1, ConcatAssociative
  <2>3. v \o <<ev>> = Append(v, ev)
    <3> HIDE DEF v
    <3> QED BY <1>1, <2>1, AppendIsConcat
  <2> QED BY <2>1, <2>2, <2>3
<1> QED BY <1>1, <1>3, <1>4, <1>5 DEF ev, z, k, es

\* The events of a failure end a stream, after what e has sent; g is e, or what
\* became of it whose events are dropped.
LEMMA FailureEnds ==
  ASSUME protocol \in Protocols, NEW e, NEW N, NEW done, NEW said, NEW told,
         On(e, N, done, said, told), Len(wire) >= 1,
         NEW g \in Encoders, g.events = e.events, ~g.failed,
         NEW status \in {"failed", "unstored"},
         \/ g.sequence = e.sequence
         \/ status = "unstored" /\ protocol = "Responses" /\ g.sequence >= e.sequence
  PROVE  LET f == Failure(g) IN
         /\ f \in Encoders /\ f.next = g.next
         /\ Ending(wire \o f.events, status)
         /\ Said(wire \o f.events, "text_delta") = said
<1> DEFINE h == [g EXCEPT !.failed = TRUE]
           f == Failure(g)
           w == wire \o e.events
           q == e.sequence
           a == TheEvent(h, "error", 0, <<>>)
           x == Event(h, "error", 0, <<>>)
<1>1. /\ e \in Encoders /\ wire \in Seq(EventSet) /\ e.events \in Seq(EventSet) /\ q \in Nat
      /\ Page(w, q, N, done, said, told) /\ 0 \in Nat /\ <<>> \in Text
  BY EmptySeq DEF On, Encoders, Text
<1>2. /\ h \in Encoders /\ h.events = e.events /\ h.sequence = g.sequence /\ h.next = g.next
      /\ g.sequence \in Nat
  BY DEF Encoders
<1>3. f = Events(h, Types(<<"error", "DONE">>, <<"error">>, <<"error", "failed">>), 0, <<>>)
  BY DEF Failure
<1>4. "error" \in EventTypes /\ "DONE" \in EventTypes /\ "failed" \in EventTypes
      /\ "DONE" \in Terminal /\ "failed" \in Terminal
  BY DEF EventTypes, Terminal
<1>5. w \in Seq(EventSet) /\ Len(w) >= 1
  <2>1. w \in Seq(EventSet) /\ Len(w) = Len(wire) + Len(e.events)
    BY <1>1, ConcatProperties
  <2>2. Len(wire) \in Nat /\ Len(e.events) \in Nat
    BY <1>1, LenProperties
  <2> QED BY <2>1, <2>2
<1> HIDE DEF h, f
<1> HIDE DEF w
<1>7. /\ x \in Encoders /\ x.next = g.next /\ x.sequence = Later(h, 1)
      /\ a \in EventSet /\ a.type = "error" /\ a.number = g.sequence
      /\ wire \o x.events = Append(w, a)
  <2>1. wire \o h.events = w
    BY <1>2 DEF w
  <2> QED BY <1>1, <1>2, <1>4, <2>1, Sent DEF Alike
<1> HIDE DEF x, a
<1>8. ASSUME protocol # "Anthropic", NEW type \in EventTypes, type \in Terminal,
             f = Event(x, type, 0, <<>>)
      PROVE  /\ f \in Encoders /\ f.next = g.next
             /\ Ending(wire \o f.events, status)
             /\ Said(wire \o f.events, "text_delta") = said
  <2> DEFINE b == TheEvent(x, type, 0, <<>>)
             u == Append(w, a)
  <2>1. u \in Seq(EventSet)
    BY <1>5, <1>7, AppendProperties
  <2>2. /\ f \in Encoders /\ f.next = g.next
        /\ b \in EventSet /\ b.type = type /\ b.number = x.sequence
        /\ wire \o f.events = Append(u, b)
    <3> DEFINE z == Event(x, type, 0, <<>>)
    <3>1. /\ z \in Encoders /\ Alike(x, z)
          /\ b \in EventSet /\ b.type = type /\ b.number = x.sequence
          /\ wire \o z.events = Append(wire \o x.events, b)
      BY <1>1, <1>7, Sent
    <3> HIDE DEF b, z
    <3>2. f = z /\ z.next = x.next
      BY <1>8, <3>1 DEF z, Alike
    <3> QED BY <1>7, <3>1, <3>2
  <2>3. protocol = "Responses" => b.number = a.number + 1
    BY <1>2, <1>7, <2>2 DEF Later
  <2>4. protocol = "Responses" => a.number = q \/ (status = "unstored" /\ a.number > q)
    BY <1>1, <1>2, <1>7
  <2> HIDE DEF b
  <2>5. Ending(Append(u, b), status) /\ Said(Append(u, b), "text_delta") = said
    <3> HIDE DEF q
    <3> QED BY <1>1, <1>5, <1>7, <1>8, <2>2, <2>3, <2>4, LastTwo
  <2> QED BY <2>2, <2>5
<1>9. CASE protocol = "Chat"
  <2>1. Types(<<"error", "DONE">>, <<"error">>, <<"error", "failed">>) = <<"error", "DONE">>
    BY <1>9, TypesAre
  <2>2. f = Event(x, "DONE", 0, <<>>)
    BY <1>1, <1>2, <1>3, <1>4, <2>1, TwoEvents DEF x
  <2>3. protocol # "Anthropic"
    BY <1>9
  <2> QED BY <1>4, <1>8, <2>2, <2>3 DEF f
<1>10. CASE protocol = "Responses"
  <2>1. Types(<<"error", "DONE">>, <<"error">>, <<"error", "failed">>) = <<"error", "failed">>
    BY <1>10, TypesAre
  <2>2. f = Event(x, "failed", 0, <<>>)
    BY <1>1, <1>2, <1>3, <1>4, <2>1, TwoEvents DEF x
  <2>3. protocol # "Anthropic"
    BY <1>10
  <2> QED BY <1>4, <1>8, <2>2, <2>3 DEF f
<1>11. CASE protocol = "Anthropic"
  <2>1. Types(<<"error", "DONE">>, <<"error">>, <<"error", "failed">>) = <<"error">>
    BY <1>11, TypesAre
  <2>2. f = x
    BY <1>3, <2>1, OneEvent DEF x
  <2>3. a.type \in Terminal /\ a.number = q /\ (status # "completed" <=> a.type = "error")
    BY <1>2, <1>7, <1>11, TerminalTypes
  <2>4. Ending(Append(w, a), status) /\ Said(Append(w, a), "text_delta") = said
    <3> HIDE DEF q
    <3>1. Page(w, q, N, done, said, told)
      BY <1>1
    <3>2. a \in EventSet /\ a.type \in Terminal /\ a.number = q
      BY <1>7, <2>3
    <3>3. status # "completed" <=> a.type = "error"
      BY <2>3
    <3> QED BY <3>1, <3>2, <3>3, LastEvent
  <2> QED BY <1>7, <2>2, <2>4 DEF f
<1> QED BY <1>9, <1>10, <1>11 DEF Protocols

\* Events number on.
LEMMA EventsGrow ==
  ASSUME NEW e \in Encoders, NEW types \in Seq(EventTypes), NEW index \in Nat, NEW text \in Text
  PROVE  /\ Events(e, types, index, text).sequence >= e.sequence
         /\ Alike(e, Events(e, types, index, text)) /\ Events(e, types, index, text) \in Encoders
<1> DEFINE n == Len(types)
           k == Later(e, n)
           es == e.events \o Numbered(e, types, index, text)
           f == Events(e, types, index, text)
<1>1. n \in Nat /\ e.sequence \in Nat
  BY LenProperties DEF Encoders
<1>2. f = With(e, es, k) /\ es \in Seq(EventSet) /\ f \in Encoders
  BY EventsAre
<1>3. k \in Nat /\ k >= e.sequence
  BY <1>1 DEF Later
<1> HIDE DEF es, k, f
<1>4. f.sequence = k /\ Alike(e, f)
  BY <1>2, <1>3, WithIs DEF Alike
<1> QED BY <1>2, <1>3, <1>4 DEF f

\* What opening and closing the text item does to the numbers.
LEMMA TextGrows ==
  ASSUME protocol \in Protocols, NEW e \in Encoders
  PROVE  /\ OpenText(e) \in Encoders /\ OpenText(e).sequence >= e.sequence
         /\ CloseText(e) \in Encoders /\ CloseText(e).sequence >= e.sequence
<1>1. e.next \in Nat /\ e.sequence \in Nat /\ e.textIndex \in Nat /\ e.text \in Text /\ <<>> \in Text
      /\ e.next + 1 \in Nat /\ e.sequence >= e.sequence
  BY EmptySeq DEF Encoders, Text
<1>2. OpenText(e) \in Encoders /\ OpenText(e).sequence >= e.sequence
  <2> DEFINE f == [e EXCEPT !.textClosed = FALSE, !.textIndex = e.next, !.next = @ + 1]
             types == Types(<<>>, <<"open">>, <<"open", "part_added">>)
             n == e.next
  <2>1. f \in Encoders /\ f.sequence = e.sequence
    BY <1>1 DEF Encoders
  <2>2. types \in Seq(EventTypes)
    <3>1. "open" \in EventTypes /\ "part_added" \in EventTypes
      BY DEF EventTypes
    <3>2. types = <<>> \/ types = <<"open">> \/ types = <<"open", "part_added">>
      BY TypesAre DEF Protocols
    <3>3. /\ <<>> \in Seq(EventTypes) /\ <<"open">> \in Seq(EventTypes)
          /\ <<"open", "part_added">> \in Seq(EventTypes)
      BY <3>1
    <3> HIDE DEF types
    <3> QED BY <3>2, <3>3
  <2>3. OpenText(e) = e \/ OpenText(e) = Events(f, types, n, <<>>)
    BY DEF OpenText
  <2> HIDE DEF f, types, n
  <2>4. n \in Nat
    BY <1>1 DEF n
  <2>5. Events(f, types, n, <<>>) \in Encoders /\ Events(f, types, n, <<>>).sequence >= f.sequence
    BY <1>1, <2>1, <2>2, <2>4, EventsGrow
  <2> QED BY <1>1, <2>1, <2>3, <2>5
<1>3. CloseText(e) \in Encoders /\ CloseText(e).sequence >= e.sequence
  <2> DEFINE f == [e EXCEPT !.textClosed = TRUE]
             types == Types(<<>>, <<"close">>, <<"text_done", "part_done", "close">>)
             n == e.textIndex
             t == e.text
  <2>1. f \in Encoders /\ f.sequence = e.sequence
    BY <1>1 DEF Encoders
  <2>2. types \in Seq(EventTypes)
    <3>1. "close" \in EventTypes /\ "text_done" \in EventTypes /\ "part_done" \in EventTypes
      BY DEF EventTypes
    <3>2. types = <<>> \/ types = <<"close">> \/ types = <<"text_done", "part_done", "close">>
      BY TypesAre DEF Protocols
    <3>3. /\ <<>> \in Seq(EventTypes) /\ <<"close">> \in Seq(EventTypes)
          /\ <<"text_done", "part_done", "close">> \in Seq(EventTypes)
      BY <3>1
    <3> HIDE DEF types
    <3> QED BY <3>2, <3>3
  <2>3. CloseText(e) = e \/ CloseText(e) = Events(f, types, n, t)
    BY DEF CloseText
  <2> HIDE DEF f, types, n, t
  <2>4. n \in Nat /\ t \in Text
    BY <1>1 DEF n, t
  <2>5. Events(f, types, n, t) \in Encoders /\ Events(f, types, n, t).sequence >= f.sequence
    BY <2>1, <2>2, <2>4, EventsGrow
  <2> QED BY <1>1, <2>1, <2>3, <2>5
<1> QED BY <1>2, <1>3

\* A finish has no calls to close: each was closed when it ended.
LEMMA CallsClosed ==
  ASSUME NEW e \in Encoders, \A k \in 1 .. Len(e.calls) : e.calls[k].closed
  PROVE  CloseCalls(e) = e
<1> DEFINE N == Len(e.calls)
           A == {e}
           step == [k \in 1 .. N |-> [x \in A |-> CloseCall(x, k)]]
           Rec(f) == f = [k \in 0 .. N |-> IF k = 0 THEN e ELSE CloseCall(f[k - 1], k)]
           g == CHOOSE f : Rec(f)
<1>1. N \in Nat /\ e \in A
  <2>1. e.calls \in Seq(CallSet)
    BY DEF Encoders
  <2> QED BY <2>1, LenProperties
<1>2. \A k \in 1 .. N : CloseCall(e, k) = e
  BY DEF CloseCall
<1>3. step \in [1 .. N -> [A -> A]] /\ \A k \in 1 .. N : step[k][e] = e
  BY <1>2
<1> HIDE DEF step
<1>4. PICK f \in [0 .. N -> A] : Iterates(f, e, N, step)
  <2> HIDE DEF A, N
  <2> QED BY <1>1, <1>3, Recursion
<1>5. \A k \in 0 .. N : f[k] = e
  BY <1>4
<1>6. Rec(f)
  <2>1. \A k \in 0 .. N : f[k] = IF k = 0 THEN e ELSE CloseCall(f[k - 1], k)
    <3>1. TAKE k \in 0 .. N
    <3>2. CASE k = 0
      BY <1>5, <3>2
    <3>3. CASE k # 0
      <4>1. k \in 1 .. N /\ k - 1 \in 0 .. N
        BY <1>1, <3>3
      <4> QED BY <1>2, <1>5, <3>3, <4>1
    <3> QED BY <3>2, <3>3
  <2> HIDE DEF A, N
  <2> QED BY <1>4, <2>1
<1>7. Rec(g)
  <2> HIDE DEF Rec
  <2> QED BY <1>6
<1>8. CloseCalls(e) = g[N]
  BY DEF CloseCalls
<1> DEFINE T == {k \in 0 .. N : g[k] = e}
<1>9. 0 \in T
  <2>1. 0 \in 0 .. N
    BY <1>1
  <2> HIDE DEF g, N
  <2> QED BY <1>7, <2>1
<1>10. ASSUME NEW k \in T, k \in 0 .. N - 1 PROVE k + 1 \in T
  <2>1. k + 1 \in 1 .. N /\ k + 1 \in 0 .. N /\ (k + 1) - 1 = k /\ k + 1 # 0
    BY <1>1, <1>10
  <2>2. g[k + 1] = CloseCall(g[k], k + 1)
    <3> HIDE DEF g, N
    <3> QED BY <1>7, <2>1
  <2> QED BY <1>2, <2>1, <2>2
<1>11. 0 .. N \subseteq T
  <2> HIDE DEF T, N
  <2> QED BY <1>1, <1>9, <1>10, BoundedInduction
<1>12. N \in 0 .. N
  BY <1>1
<1> QED BY <1>8, <1>11, <1>12

\* The items of a whole result.
ItemsOf(text, calls) == Len(calls) + IF text # <<>> \/ calls = <<>> THEN 1 ELSE 0

\* The text item, opened if there is no other.
LEMMA FinishOpens ==
  ASSUME protocol \in Protocols, NEW e, NEW text, NEW calls, Told(e, text, calls)
  PROVE  LET o == IF e.textIndex = 0 /\ e.calls = <<>> THEN OpenText(e) ELSE e
             N == ItemsOf(text, calls)
         IN /\ On(o, N, Shut(o, N), text, FlattenSeq(calls)) /\ o.calls = e.calls /\ ~o.failed
            /\ o.next \in Nat \ {0} /\ o.sequence >= e.sequence
            /\ N \in Nat /\ (o.textIndex # 0 => o.textIndex \in 1 .. N)
<1> DEFINE o == IF e.textIndex = 0 /\ e.calls = <<>> THEN OpenText(e) ELSE e
           K == Len(calls)
           N == ItemsOf(text, calls)
           flat == FlattenSeq(calls)
           t == TextItem(text)
<1>1. /\ text \in Text /\ calls \in Seq(Text) /\ ~e.failed /\ K \in Nat
      /\ e.textIndex = t /\ e.next = K + t + 1 /\ (e.textClosed => calls # <<>>)
      /\ Len(e.calls) = K /\ On(e, K + t, Shut(e, K + t), text, flat)
  <2> HIDE DEF flat, t
  <2> QED BY LenProperties DEF Told, flat, t
<1>2. e \in Encoders /\ e.calls \in Seq(CallSet) /\ e.sequence \in Nat
  <2> HIDE DEF flat, t
  <2>1. e \in Encoders
    BY <1>1 DEF On
  <2> QED BY <2>1 DEF Encoders
<1>3. (e.calls = <<>> <=> K = 0) /\ (calls = <<>> <=> K = 0)
  BY <1>1, <1>2, EmptySeq
<1>4. N = K + (IF text # <<>> \/ calls = <<>> THEN 1 ELSE 0) /\ N \in Nat
  BY <1>1 DEF ItemsOf
<1> HIDE DEF flat, N, K
<1>5. CASE text = <<>> /\ calls = <<>>
  <2>1. t = 0 /\ K = 0 /\ N = 1 /\ e.textIndex = 0 /\ e.next = 1 /\ e.calls = <<>>
    BY <1>1, <1>3, <1>4, <1>5 DEF TextItem
  <2>2. Shut(e, 0) = {} /\ o = OpenText(e)
    BY <2>1 DEF Shut
  <2>3. On(e, 0, {}, text, flat) /\ e.next = 0 + 1
    <3>1. K + t = 0 /\ 0 + 1 = 1
      BY <2>1
    <3> HIDE DEF t
    <3> QED BY <1>1, <2>1, <2>2, <3>1
  <2> HIDE DEF o
  <2>4. /\ On(OpenText(e), 0 + 1, {}, text, flat)
        /\ OpenText(e).textIndex = 0 + 1 /\ ~OpenText(e).textClosed /\ OpenText(e).next = 0 + 2
        /\ OpenText(e).calls = e.calls /\ OpenText(e).failed = e.failed
    BY <2>1, <2>3, OpenTextOn
  <2>5. /\ On(o, 1, {}, text, flat) /\ o.textIndex = 1 /\ ~o.textClosed /\ o.next = 2
        /\ o.calls = e.calls /\ o.failed = e.failed
    BY <2>2, <2>4
  <2>6. o.sequence >= e.sequence
    BY <1>2, <2>2, TextGrows
  <2>7. Shut(o, 1) = {}
    BY <2>5 DEF Shut
  <2>8. On(o, N, Shut(o, N), text, flat) /\ N \in Nat /\ o.textIndex \in 1 .. N
    <3>1. On(o, 1, Shut(o, 1), text, flat)
      BY <2>5, <2>7
    <3>2. N \in Nat /\ o.textIndex \in 1 .. N
      BY <1>4, <2>1, <2>5
    <3>3. N = 1
      BY <2>1
    <3> QED BY <3>1, <3>2, <3>3
  <2>9. o.next \in Nat \ {0} /\ ~o.failed /\ o.calls = e.calls
    BY <1>1, <2>5
  <2> QED BY <2>6, <2>8, <2>9 DEF o, N, flat
<1>6. CASE ~(text = <<>> /\ calls = <<>>)
  <2>1. N = K + t /\ o = e
    BY <1>1, <1>3, <1>4, <1>6 DEF TextItem
  <2>2. t \in {0, 1}
    BY DEF TextItem
  <2> HIDE DEF o, t
  <2>3. e.next \in Nat \ {0} /\ e.sequence >= e.sequence /\ (e.textIndex # 0 => e.textIndex \in 1 .. N)
    BY <1>1, <1>2, <2>1, <2>2
  <2>4. On(o, N, Shut(o, N), text, flat)
    BY <1>1, <2>1
  <2> QED BY <1>1, <1>4, <2>1, <2>3, <2>4 DEF o, N, flat
<1> QED BY <1>5, <1>6

\* One event that ends what e has sent.
LEMMA EndsOn ==
  ASSUME NEW e, NEW N, NEW done, NEW said, NEW told, On(e, N, done, said, told),
         NEW type \in EventTypes, type \in Terminal, type # "error"
  PROVE  LET f == Event(e, type, 0, <<>>) IN
         /\ f \in Encoders /\ Alike(e, f) /\ Ending(wire \o f.events, "completed")
         /\ Said(wire \o f.events, "text_delta") = said
         /\ Said(wire \o f.events, "tool_delta") = told
         /\ protocol # "Chat" => Items(wire \o f.events, N, done)
<1> DEFINE f == Event(e, type, 0, <<>>)
           w == wire \o e.events
           ev == TheEvent(e, type, 0, <<>>)
           q == e.sequence
<1>1. e \in Encoders /\ wire \in Seq(EventSet) /\ Page(w, q, N, done, said, told)
  BY DEF On
<1>2. /\ f \in Encoders /\ Alike(e, f) /\ ev \in EventSet /\ ev.type = type /\ ev.number = q
      /\ wire \o f.events = Append(w, ev)
  BY <1>1, Sent
<1> HIDE DEF w, ev, q, f
<1>3. ev.type \in Terminal /\ ("completed" # "completed" <=> ev.type = "error")
  BY <1>2
<1> DEFINE v == Append(w, ev)
<1>4. /\ Ending(v, "completed") /\ Said(v, "text_delta") = said /\ Said(v, "tool_delta") = told
      /\ protocol # "Chat" => Items(v, N, done)
  BY <1>1, <1>2, <1>3, LastEvent
<1> HIDE DEF v
<1> QED BY <1>2, <1>4 DEF v, f

\* The last events of a stream that ends well: all items are closed by then.
LEMMA FinishEnds ==
  ASSUME protocol \in Protocols, NEW e, NEW text, NEW calls, Told(e, text, calls),
         NEW limited \in BOOLEAN
  PROVE  LET f == EncoderFinish(e, limited)
             w == wire \o f.events
         IN /\ f \in Encoders /\ f.next \in Nat \ {0} /\ ~f.failed /\ f.sequence >= e.sequence
            /\ Ending(w, "completed") /\ Said(w, "text_delta") = text
            /\ Said(w, "tool_delta") = FlattenSeq(calls)
            /\ protocol # "Chat" => Items(w, ItemsOf(text, calls), 1 .. ItemsOf(text, calls))
<1> DEFINE o == IF e.textIndex = 0 /\ e.calls = <<>> THEN OpenText(e) ELSE e
           N == ItemsOf(text, calls)
           flat == FlattenSeq(calls)
           c == CloseText(o)
           last == Types(<<"chunk", "DONE">>, <<"message_delta", "message_stop">>,
                         <<IF limited THEN "incomplete" ELSE "completed">>)
           f == EncoderFinish(e, limited)
           Good(x) == /\ x \in Encoders /\ Alike(c, x) /\ Ending(wire \o x.events, "completed")
                      /\ Said(wire \o x.events, "text_delta") = text
                      /\ Said(wire \o x.events, "tool_delta") = flat
                      /\ protocol # "Chat" => Items(wire \o x.events, N, 1 .. N)
<1>1. /\ On(o, N, Shut(o, N), text, flat) /\ o.calls = e.calls /\ ~o.failed
      /\ o.next \in Nat \ {0} /\ o.sequence >= e.sequence
      /\ N \in Nat /\ (o.textIndex # 0 => o.textIndex \in 1 .. N)
  BY FinishOpens
<1>2. /\ ~e.failed /\ e \in Encoders /\ Len(e.calls) = Len(calls)
      /\ \A k \in 1 .. Len(e.calls) : e.calls[k].closed
  <2>1. On(e, Len(calls) + TextItem(text), Shut(e, Len(calls) + TextItem(text)), text, flat)
    BY DEF Told
  <2>2. e \in Encoders
    <3> HIDE DEF flat
    <3> QED BY <2>1 DEF On
  <2> QED BY <2>2 DEF Told
<1> HIDE DEF o, N, flat
<1>3. o \in Encoders
  BY <1>1 DEF On
<1>4. On(c, N, 1 .. N, text, flat) /\ c.calls = e.calls /\ ~c.failed /\ c.next = o.next
  <2>1. CASE o.textIndex # 0 /\ ~o.textClosed
    <3>1. Shut(o, N) = (1 .. N) \ {o.textIndex} /\ o.textIndex \in 1 .. N
      BY <1>1, <2>1 DEF Shut
    <3>2. o.textIndex \in (1 .. N) \ Shut(o, N) /\ Shut(o, N) \cup {o.textIndex} = 1 .. N
      BY <3>1
    <3>3. /\ On(c, N, Shut(o, N) \cup {o.textIndex}, text, flat)
          /\ c.next = o.next /\ c.calls = o.calls /\ c.failed = o.failed
      BY <1>1, <2>1, <3>2, CloseTextOn
    <3> QED BY <1>1, <3>2, <3>3
  <2>2. CASE ~(o.textIndex # 0 /\ ~o.textClosed)
    <3>1. Shut(o, N) = 1 .. N
      BY <2>2 DEF Shut
    <3>2. c = o
      BY <2>2 DEF CloseText
    <3> QED BY <1>1, <3>1, <3>2
  <2> QED BY <2>1, <2>2
<1>5. c \in Encoders /\ c.sequence >= e.sequence
  <2>1. c \in Encoders /\ c.sequence >= o.sequence
    BY <1>3, TextGrows
  <2>2. c.sequence \in Nat /\ o.sequence \in Nat /\ e.sequence \in Nat
    BY <1>2, <1>3, <2>1 DEF Encoders
  <2> QED BY <1>1, <2>1, <2>2
<1> HIDE DEF c
<1>6. f = Events(c, last, 0, <<>>)
  <2>1. CloseCalls(c) = c
    BY <1>2, <1>4, <1>5, CallsClosed
  <2> QED BY <1>2, <2>1 DEF EncoderFinish, c, o
<1>7. /\ \A type \in {"chunk", "DONE", "message_delta", "message_stop", "incomplete", "completed"} :
           type \in EventTypes
      /\ \A type \in {"DONE", "message_stop", "incomplete", "completed"} :
           type \in Terminal /\ type # "error"
      /\ \A type \in {"chunk", "message_delta"} : type \notin EndingTypes /\ type \notin ItemTypes
      /\ 0 \in Nat /\ <<>> \in Text
  BY EmptySeq DEF EventTypes, Terminal, EndingTypes, ItemTypes, Text
<1>8. ASSUME NEW a \in {"chunk", "message_delta"}, NEW b \in {"DONE", "message_stop"},
             last = <<a, b>>
      PROVE  Good(f)
  <2> DEFINE x == Event(c, a, 0, <<>>)
             z == Event(x, b, 0, <<>>)
  <2>1. f = z
    BY <1>5, <1>6, <1>7, <1>8, TwoEvents
  <2>2. On(x, N, 1 .. N, text, flat) /\ Alike(c, x)
    BY <1>4, <1>7, EventOn
  <2> HIDE DEF x
  <2>3. /\ z \in Encoders /\ Alike(x, z) /\ Ending(wire \o z.events, "completed")
        /\ Said(wire \o z.events, "text_delta") = text
        /\ Said(wire \o z.events, "tool_delta") = flat
        /\ protocol # "Chat" => Items(wire \o z.events, N, 1 .. N)
    BY <1>7, <2>2, EndsOn
  <2> HIDE DEF z, f
  <2> QED BY <2>1, <2>2, <2>3 DEF Alike
<1>9. ASSUME NEW b \in {"incomplete", "completed"}, last = <<b>>
      PROVE  Good(f)
  <2> DEFINE z == Event(c, b, 0, <<>>)
  <2>1. f = z
    BY <1>6, <1>9, OneEvent
  <2>2. /\ z \in Encoders /\ Alike(c, z) /\ Ending(wire \o z.events, "completed")
        /\ Said(wire \o z.events, "text_delta") = text
        /\ Said(wire \o z.events, "tool_delta") = flat
        /\ protocol # "Chat" => Items(wire \o z.events, N, 1 .. N)
    BY <1>4, <1>7, EndsOn
  <2> HIDE DEF z, f
  <2> QED BY <2>1, <2>2
<1>10. f.sequence >= c.sequence /\ f \in Encoders
  <2>1. last \in Seq(EventTypes)
    <3>1. /\ <<"chunk", "DONE">> \in Seq(EventTypes) /\ <<"completed">> \in Seq(EventTypes)
          /\ <<"message_delta", "message_stop">> \in Seq(EventTypes)
          /\ <<"incomplete">> \in Seq(EventTypes)
      BY <1>7
    <3>2. \/ last = <<"chunk", "DONE">> \/ last = <<"message_delta", "message_stop">>
          \/ last = <<"incomplete">> \/ last = <<"completed">>
      BY TypesAre DEF Protocols
    <3> HIDE DEF last
    <3> QED BY <3>1, <3>2
  <2> HIDE DEF last, f
  <2> QED BY <1>5, <1>6, <1>7, <2>1, EventsGrow
<1>11. Good(f)
  <2>1. CASE protocol = "Chat"
    BY <1>8, <2>1, TypesAre
  <2>2. CASE protocol = "Anthropic"
    BY <1>8, <2>2, TypesAre
  <2>3. CASE protocol = "Responses"
    BY <1>9, <2>3, TypesAre
  <2> QED BY <2>1, <2>2, <2>3 DEF Protocols
<1> HIDE DEF f
<1>12. f.sequence >= e.sequence
  <2>1. f.sequence \in Nat /\ c.sequence \in Nat /\ e.sequence \in Nat
    BY <1>2, <1>5, <1>10 DEF Encoders
  <2> QED BY <1>5, <1>10, <2>1
<1> QED BY <1>1, <1>4, <1>10, <1>11, <1>12 DEF Alike, f, N, flat

-----------------------------------------------------------------------------
(* Deltas, one after another.                                              *)

\* What ends a call or the stream is told in types of events.
LEMMA TypesIn ==
  ASSUME protocol \in Protocols
  PROVE  /\ Types(<<"error", "DONE">>, <<"error">>, <<"error", "failed">>) \in Seq(EventTypes)
         /\ Types(<<>>, <<"close">>, <<"arguments_done", "close">>) \in Seq(EventTypes)
<1>1. /\ "error" \in EventTypes /\ "DONE" \in EventTypes /\ "failed" \in EventTypes
      /\ "close" \in EventTypes /\ "arguments_done" \in EventTypes
  BY DEF EventTypes
<1>2. /\ <<>> \in Seq(EventTypes) /\ <<"close">> \in Seq(EventTypes) /\ <<"error">> \in Seq(EventTypes)
      /\ <<"arguments_done", "close">> \in Seq(EventTypes)
      /\ <<"error", "DONE">> \in Seq(EventTypes) /\ <<"error", "failed">> \in Seq(EventTypes)
  BY <1>1
<1> DEFINE a == Types(<<"error", "DONE">>, <<"error">>, <<"error", "failed">>)
           b == Types(<<>>, <<"close">>, <<"arguments_done", "close">>)
<1>3. /\ a = <<"error", "DONE">> \/ a = <<"error">> \/ a = <<"error", "failed">>
      /\ b = <<>> \/ b = <<"close">> \/ b = <<"arguments_done", "close">>
  BY TypesAre DEF Protocols
<1> HIDE DEF a, b
<1> QED BY <1>2, <1>3 DEF a, b

\* e with a call changed.
LEMMA WithCall ==
  ASSUME NEW e \in Encoders, NEW k \in DOMAIN e.calls
  PROVE  /\ e.calls[k].index \in Nat /\ e.calls[k].text \in Text
         /\ [e EXCEPT !.calls[k].closed = TRUE] \in Encoders
         /\ \A t \in Text : [e EXCEPT !.calls[k].text = @ \o t] \in Encoders
<1> DEFINE cs == e.calls
<1>1. cs \in Seq(CallSet) /\ cs[k] \in CallSet
  <2>1. cs \in Seq(CallSet)
    BY DEF Encoders
  <2> QED BY <2>1, ElementOfSeq, LenProperties
<1>2. cs[k].index \in Nat /\ cs[k].text \in Text
  BY <1>1 DEF CallSet
<1>3. ASSUME NEW x \in CallSet PROVE [e EXCEPT !.calls = [cs EXCEPT ![k] = x]] \in Encoders
  <2> DEFINE new == [cs EXCEPT ![k] = x]
  <2>1. new \in Seq(CallSet)
    BY <1>1, <1>3, ExceptSeq
  <2> HIDE DEF new
  <2>2. [e EXCEPT !.calls = new] \in Encoders
    BY <2>1 DEF Encoders
  <2> QED BY <2>2 DEF new
<1>4. [e EXCEPT !.calls[k].closed = TRUE] \in Encoders
  <2>1. [cs[k] EXCEPT !.closed = TRUE] \in CallSet
    BY <1>1 DEF CallSet
  <2>2. [e EXCEPT !.calls[k].closed = TRUE] =
        [e EXCEPT !.calls = [cs EXCEPT ![k] = [cs[k] EXCEPT !.closed = TRUE]]]
    OBVIOUS
  <2> HIDE DEF cs
  <2> QED BY <1>3, <2>1, <2>2
<1>5. ASSUME NEW t \in Text PROVE [e EXCEPT !.calls[k].text = @ \o t] \in Encoders
  <2>1. cs[k].text \o t \in Text
    <3>1. cs[k].text \in Seq(Symbols) /\ t \in Seq(Symbols)
      BY <1>2 DEF Text
    <3> QED BY <3>1, ConcatProperties DEF Text
  <2>2. [cs[k] EXCEPT !.text = @ \o t] \in CallSet
    BY <1>1, <2>1 DEF CallSet
  <2>3. [e EXCEPT !.calls[k].text = @ \o t] =
        [e EXCEPT !.calls = [cs EXCEPT ![k] = [cs[k] EXCEPT !.text = @ \o t]]]
    OBVIOUS
  <2> HIDE DEF cs
  <2> QED BY <1>3, <2>2, <2>3
<1> QED BY <1>2, <1>4, <1>5

\* A delta makes an encoder of an encoder.
LEMMA DeltaIs ==
  ASSUME protocol \in Protocols, NEW e \in Encoders, NEW d \in DeltaSet
  PROVE  Delta(e, d) \in Encoders
<1>1. /\ d.tag \in {"Text", "ToolStart", "ToolArguments", "ToolEnd"} /\ d.index \in Nat
      /\ d.text \in Text /\ 0 \in Nat /\ <<>> \in Text
  BY EmptySeq DEF DeltaSet, Text
<1>2. Failure(e) \in Encoders
  <2> DEFINE f == [e EXCEPT !.failed = TRUE]
             types == Types(<<"error", "DONE">>, <<"error">>, <<"error", "failed">>)
  <2>1. f \in Encoders
    BY DEF Encoders
  <2>2. Failure(e) = e \/ Failure(e) = Events(f, types, 0, <<>>)
    BY DEF Failure
  <2>3. types \in Seq(EventTypes)
    BY TypesIn
  <2> HIDE DEF f, types
  <2> QED BY <1>1, <2>1, <2>2, <2>3, EventsGrow
<1>3. TextDelta(e, d) \in Encoders
  <2> DEFINE o == OpenText(e)
             t == d.text
             p == [o EXCEPT !.text = @ \o t]
  <2>1. o \in Encoders
    BY TextGrows
  <2> HIDE DEF o, t
  <2>2. o.text \o t \in Text
    <3>1. o.text \in Seq(Symbols) /\ t \in Seq(Symbols)
      BY <1>1, <2>1 DEF Encoders, Text, t
    <3> QED BY <3>1, ConcatProperties DEF Text
  <2>3. p \in Encoders
    BY <2>1, <2>2 DEF Encoders
  <2>4. TextDelta(e, d) = Event(p, "text_delta", o.textIndex, t)
    BY DEF TextDelta, o, t
  <2>5. "text_delta" \in EventTypes /\ o.textIndex \in Nat /\ t \in Text
    BY <1>1, <2>1 DEF EventTypes, Encoders, t
  <2> HIDE DEF p
  <2> QED BY <2>3, <2>4, <2>5, EventIs
<1>4. ToolStart(e) \in Encoders
  <2> DEFINE c == IF protocol = "Anthropic" THEN CloseText(e) ELSE e
             new == [index |-> c.next, text |-> <<>>, closed |-> FALSE]
             more == Append(c.calls, new)
             p == [c EXCEPT !.next = @ + 1, !.calls = Append(@, new)]
             type == IF protocol = "Chat" THEN "tool_delta" ELSE "open"
  <2>1. c \in Encoders
    BY TextGrows
  <2> HIDE DEF c
  <2>2. c.next \in Nat /\ c.next + 1 \in Nat /\ c.calls \in Seq(CallSet)
    BY <2>1 DEF Encoders
  <2>3. new \in CallSet
    BY <1>1, <2>2 DEF CallSet
  <2> HIDE DEF new
  <2>4. more \in Seq(CallSet)
    BY <2>2, <2>3, AppendProperties
  <2>5. p = [c EXCEPT !.next = c.next + 1, !.calls = more]
    OBVIOUS
  <2> HIDE DEF more, p
  <2>6. p \in Encoders
    BY <2>1, <2>2, <2>4, <2>5 DEF Encoders
  <2>7. ToolStart(e) = Event(p, type, c.next, <<>>)
    BY DEF ToolStart, c, p, new
  <2>8. type \in EventTypes
    BY DEF EventTypes
  <2> HIDE DEF type
  <2> QED BY <1>1, <2>2, <2>6, <2>7, <2>8, EventIs
<1>5. ToolArguments(e, d) \in Encoders
  <2> DEFINE k == d.index
             t == d.text
             p == [e EXCEPT !.calls[k].text = @ \o t]
             n == e.calls[k].index
  <2>1. CASE k \notin DOMAIN e.calls
    BY <1>2, <2>1 DEF ToolArguments
  <2>2. CASE k \in DOMAIN e.calls
    <3>1. p \in Encoders /\ n \in Nat /\ t \in Text
      <4>1. t \in Text
        BY <1>1
      <4> HIDE DEF k, t
      <4> QED BY <2>2, <4>1, WithCall
    <3>2. ToolArguments(e, d) = Event(p, "tool_delta", n, t)
      BY <2>2 DEF ToolArguments
    <3>3. "tool_delta" \in EventTypes
      BY DEF EventTypes
    <3> HIDE DEF p, n, t
    <3> QED BY <3>1, <3>2, <3>3, EventIs
  <2> QED BY <2>1, <2>2
<1>6. CloseCall(e, d.index) \in Encoders
  <2> DEFINE k == d.index
             p == [e EXCEPT !.calls[k].closed = TRUE]
             n == e.calls[k].index
             t == e.calls[k].text
             types == Types(<<>>, <<"close">>, <<"arguments_done", "close">>)
  <2>1. CASE k \notin DOMAIN e.calls \/ e.calls[k].closed
    BY <2>1 DEF CloseCall
  <2>2. CASE ~(k \notin DOMAIN e.calls \/ e.calls[k].closed)
    <3>1. p \in Encoders /\ n \in Nat /\ t \in Text
      <4> HIDE DEF k
      <4> QED BY <2>2, WithCall
    <3>2. CloseCall(e, k) = Events(p, types, n, t)
      BY <2>2 DEF CloseCall
    <3>3. types \in Seq(EventTypes)
      BY TypesIn
    <3> HIDE DEF p, n, t, types
    <3> QED BY <3>1, <3>2, <3>3, EventsGrow
  <2> QED BY <2>1, <2>2
<1>7. Delta(e, d) \in {e, Failure(e), TextDelta(e, d), ToolStart(e), ToolArguments(e, d),
                       CloseCall(e, d.index)}
  BY <1>1 DEF Delta
<1> QED BY <1>2, <1>3, <1>4, <1>5, <1>6, <1>7

\* e after the first n of some deltas, for every n.
Delted(e, ds) ==
  LET after[n \in 0 .. Len(ds)] ==
        IF n = 0 THEN e ELSE Delta(after[n - 1], ds[n])
  IN after

\* e after some deltas, delta by delta.
LEMMA DeltedIs ==
  ASSUME protocol \in Protocols, NEW e \in Encoders, NEW ds \in Seq(DeltaSet)
  PROVE  /\ Delted(e, ds)[0] = e
         /\ \A n \in 1 .. Len(ds) : Delted(e, ds)[n] = Delta(Delted(e, ds)[n - 1], ds[n])
         /\ \A n \in 0 .. Len(ds) : Delted(e, ds)[n] \in Encoders
<1> DEFINE N == Len(ds)
           A == Encoders
           step == [n \in 1 .. N |-> [x \in A |-> Delta(x, ds[n])]]
           Rec(f) == f = [n \in 0 .. N |-> IF n = 0 THEN e ELSE Delta(f[n - 1], ds[n])]
           g == CHOOSE f : Rec(f)
<1>1. N \in Nat /\ \A n \in 1 .. N : ds[n] \in DeltaSet
  BY ElementOfSeq, LenProperties
<1>2. step \in [1 .. N -> [A -> A]] /\ \A n \in 1 .. N : \A x \in A : step[n][x] = Delta(x, ds[n])
  <2>1. \A n \in 1 .. N : \A x \in A : Delta(x, ds[n]) \in A
    BY <1>1, DeltaIs
  <2> HIDE DEF A
  <2> QED BY <2>1
<1> HIDE DEF step
<1>3. PICK f \in [0 .. N -> A] : Iterates(f, e, N, step)
  <2> HIDE DEF A, N
  <2>1. e \in A
    BY DEF A
  <2> QED BY <1>1, <1>2, <2>1, Recursion
<1>4. Rec(f)
  <2>1. \A n \in 0 .. N : f[n] = IF n = 0 THEN e ELSE Delta(f[n - 1], ds[n])
    <3>1. TAKE n \in 0 .. N
    <3>2. CASE n = 0
      BY <1>3, <3>2 DEF Iterates
    <3>3. CASE n # 0
      <4>1. n \in 1 .. N /\ n - 1 \in 0 .. N
        BY <1>1, <3>3
      <4>2. f[n] = step[n][f[n - 1]] /\ f[n - 1] \in A
        <5> HIDE DEF A
        <5> QED BY <1>3, <4>1 DEF Iterates
      <4> HIDE DEF A, N
      <4> QED BY <1>2, <3>3, <4>1, <4>2
    <3> QED BY <3>2, <3>3
  <2> HIDE DEF A, N
  <2> QED BY <1>3, <2>1
<1>5. Rec(g)
  <2> HIDE DEF Rec
  <2> QED BY <1>4
<1>6. g = Delted(e, ds)
  BY DEF Delted
<1> HIDE DEF g
<1>7. g[0] = e /\ \A n \in 1 .. N : g[n] = Delta(g[n - 1], ds[n])
  <2>1. 0 \in 0 .. N /\ \A n \in 1 .. N : n \in 0 .. N /\ n # 0
    BY <1>1
  <2> HIDE DEF N
  <2> QED BY <1>5, <2>1
<1>8. \A n \in 0 .. N : g[n] \in Encoders
  <2> HIDE DEF N
  <2>1. \A n \in 1 .. N : g[n - 1] \in Encoders => g[n] \in Encoders
    BY <1>1, <1>7, DeltaIs
  <2> QED BY <1>1, <1>7, <2>1, AllValues
<1> QED BY <1>6, <1>7, <1>8

\* What deltas do, none of them and all.
LEMMA DeltasAre ==
  ASSUME protocol \in Protocols, NEW e \in Encoders, NEW ds \in Seq(DeltaSet)
  PROVE  Deltas(e, <<>>) = e /\ Deltas(e, ds) \in Encoders
<1>1. Len(ds) \in Nat /\ \A x : Deltas(e, x) = Delted(e, x)[Len(x)]
  BY LenProperties DEF Deltas, Delted
<1>2. Deltas(e, <<>>) = e
  <2>1. <<>> \in Seq(DeltaSet) /\ Len(<<>>) = 0
    OBVIOUS
  <2>2. Delted(e, <<>>)[0] = e
    BY <2>1, DeltedIs
  <2> QED BY <1>1, <2>1, <2>2
<1>3. Len(ds) \in 0 .. Len(ds)
  BY <1>1
<1> QED BY <1>1, <1>2, <1>3, DeltedIs

\* One delta more.
LEMMA DeltasMore ==
  ASSUME protocol \in Protocols, NEW e \in Encoders, NEW ds \in Seq(DeltaSet), NEW d \in DeltaSet
  PROVE  Deltas(e, Append(ds, d)) = Delta(Deltas(e, ds), d)
<1> DEFINE N == Len(ds)
           more == Append(ds, d)
           f == Delted(e, more)
           g == Delted(e, ds)
<1>1. N \in Nat /\ \A x : Deltas(e, x) = Delted(e, x)[Len(x)]
  BY LenProperties DEF Deltas, Delted
<1>2. /\ more \in Seq(DeltaSet) /\ Len(more) = N + 1 /\ more[N + 1] = d
      /\ \A n \in 1 .. N : more[n] = ds[n]
  BY AppendProperties
<1>3. g[0] = e /\ (\A n \in 1 .. N : g[n] = Delta(g[n - 1], ds[n])) /\ \A n \in 0 .. N : g[n] \in Encoders
  BY DeltedIs
<1>4. f[0] = e /\ \A n \in 1 .. N + 1 : f[n] = Delta(f[n - 1], more[n])
  <2> HIDE DEF more
  <2> QED BY <1>2, DeltedIs
<1>6. Deltas(e, ds) = g[N] /\ g[N] \in Encoders
  <2>1. N \in 0 .. N
    BY <1>1
  <2> QED BY <1>1, <1>3, <2>1
<1>7. Deltas(e, more) = f[N + 1]
  BY <1>1, <1>2
<1> HIDE DEF f, g, more, N
<1>8. \A n \in 0 .. N : f[n] = g[n]
  <2>1. \A n \in 1 .. N : f[n - 1] = g[n - 1] => f[n] = g[n]
    <3>1. \A n \in 1 .. N : n \in 1 .. N + 1
      BY <1>1
    <3> QED BY <1>2, <1>3, <1>4, <3>1
  <2>2. f[0] = g[0]
    BY <1>3, <1>4
  <2>3. N \in Nat
    BY <1>1
  <2> DEFINE T == {n \in 0 .. N : f[n] = g[n]}
  <2>4. 0 \in T
    BY <2>2, <2>3
  <2>5. ASSUME NEW n \in T, n \in 0 .. N - 1 PROVE n + 1 \in T
    <3>1. n + 1 \in 1 .. N /\ n + 1 \in 0 .. N /\ (n + 1) - 1 = n
      BY <2>3, <2>5
    <3> QED BY <2>1, <3>1
  <2>6. 0 .. N \subseteq T
    <3> HIDE DEF T
    <3> QED BY <2>3, <2>4, <2>5, BoundedInduction
  <2> QED BY <2>6
<1>9. f[N + 1] = Delta(g[N], d)
  <2> DEFINE m == N + 1
  <2>1. m \in 1 .. N + 1 /\ m - 1 = N /\ N \in 0 .. N
    BY <1>1
  <2> HIDE DEF m
  <2>2. f[m] = Delta(f[N], more[m])
    BY <1>4, <2>1
  <2> QED BY <1>2, <1>8, <2>1, <2>2 DEF m
<1> QED BY <1>6, <1>7, <1>9 DEF more

\* Some deltas, and then some more.
LEMMA DeltasJoin ==
  ASSUME protocol \in Protocols, NEW e \in Encoders, NEW a \in Seq(DeltaSet), NEW b \in Seq(DeltaSet)
  PROVE  Deltas(e, a \o b) = Deltas(Deltas(e, a), b)
<1> DEFINE N == Len(b)
           mid == Deltas(e, a)
           part(n) == Take(b, n)
           T == {n \in 0 .. N : Deltas(e, a \o part(n)) = Deltas(mid, part(n))}
<1>1. N \in Nat /\ mid \in Encoders /\ \A n \in 1 .. N : b[n] \in DeltaSet
  BY DeltasAre, ElementOfSeq, LenProperties
<1>2. \A n \in 0 .. N : part(n) \in Seq(DeltaSet) /\ Len(part(n)) = n /\ \A i \in 1 .. n : part(n)[i] = b[i]
  BY TakeDrop
<1>3. part(0) = <<>> /\ part(N) = b
  <2>1. 0 \in 0 .. N /\ N \in 0 .. N
    BY <1>1
  <2>2. part(0) \in Seq(DeltaSet) /\ Len(part(0)) = 0
    BY <1>2, <2>1
  <2>3. part(N) \in Seq(DeltaSet) /\ Len(part(N)) = N /\ \A i \in 1 .. N : part(N)[i] = b[i]
    BY <1>2, <2>1
  <2> HIDE DEF part
  <2> QED BY <2>2, <2>3, EmptySeq, SeqEqual
<1> HIDE DEF mid
<1>4. 0 \in T
  <2>1. a \o <<>> = a /\ <<>> \in Seq(DeltaSet)
    BY ConcatEmptySeq
  <2>2. Deltas(mid, <<>>) = mid
    BY <1>1, <2>1, DeltasAre
  <2>3. 0 \in 0 .. N
    BY <1>1
  <2> HIDE DEF part
  <2> QED BY <1>3, <2>1, <2>2, <2>3 DEF mid
<1>5. ASSUME NEW n \in T, n \in 0 .. N - 1 PROVE n + 1 \in T
  <2> DEFINE x == part(n)
             y == part(n + 1)
             d == b[n + 1]
  <2>1. n + 1 \in 1 .. N /\ n + 1 \in 0 .. N /\ n \in 0 .. N
    BY <1>1, <1>5
  <2>2. /\ x \in Seq(DeltaSet) /\ Len(x) = n /\ \A i \in 1 .. n : x[i] = b[i]
        /\ y \in Seq(DeltaSet) /\ Len(y) = n + 1 /\ \A i \in 1 .. n + 1 : y[i] = b[i]
        /\ d \in DeltaSet
    <3> HIDE DEF part
    <3> QED BY <1>1, <1>2, <2>1
  <2> HIDE DEF x, y
  <2>3. y = Append(x, d)
    <3> DEFINE z == Append(x, d)
    <3>1. z \in Seq(DeltaSet) /\ Len(z) = n + 1 /\ z[n + 1] = d /\ \A i \in 1 .. n : z[i] = x[i]
      BY <2>2, AppendProperties
    <3>2. \A i \in 1 .. n + 1 : y[i] = z[i]
      <4>1. \A i \in 1 .. n + 1 : i \in 1 .. n \/ i = n + 1
        BY <2>1
      <4> HIDE DEF z
      <4> QED BY <2>2, <3>1, <4>1
    <3> HIDE DEF z
    <3>3. y = z
      BY <2>2, <3>1, <3>2, SeqEqual
    <3> QED BY <3>3 DEF z
  <2>4. a \o y = Append(a \o x, d) /\ a \o x \in Seq(DeltaSet)
    <3>1. <<d>> \in Seq(DeltaSet) /\ Append(x, d) = x \o <<d>>
      BY <2>2, AppendIsConcat
    <3>2. a \o x \in Seq(DeltaSet) /\ a \o (x \o <<d>>) = (a \o x) \o <<d>>
      <4>1. x \in Seq(DeltaSet) /\ <<d>> \in Seq(DeltaSet)
        BY <2>2, <3>1
      <4> HIDE DEF d
      <4> QED BY <4>1, ConcatProperties, ConcatAssociative
    <3>3. (a \o x) \o <<d>> = Append(a \o x, d)
      BY <2>2, <3>2, AppendIsConcat
    <3> QED BY <2>3, <3>1, <3>2, <3>3
  <2> DEFINE ax == a \o x
  <2> HIDE DEF ax
  <2>5. Deltas(e, Append(ax, d)) = Delta(Deltas(e, ax), d)
    <3>1. ax \in Seq(DeltaSet) /\ d \in DeltaSet
      BY <2>2, <2>4 DEF ax
    <3> HIDE DEF d
    <3> QED BY <3>1, DeltasMore
  <2>6. Deltas(mid, Append(x, d)) = Delta(Deltas(mid, x), d)
    <3>1. d \in DeltaSet
      BY <2>2
    <3> HIDE DEF d
    <3> QED BY <1>1, <2>2, <3>1, DeltasMore
  <2>7. Deltas(e, ax) = Deltas(mid, x)
    BY DEF x, ax
  <2>8. Deltas(e, a \o y) = Deltas(mid, y)
    BY <2>3, <2>4, <2>5, <2>6, <2>7 DEF ax
  <2> QED BY <2>1, <2>8 DEF y
<1>6. 0 .. N \subseteq T
  <2> HIDE DEF T, N
  <2> QED BY <1>1, <1>4, <1>5, BoundedInduction
<1>7. N \in T
  BY <1>1, <1>6
<1> QED BY <1>3, <1>7 DEF mid

\* Nothing has been sent.
LEMMA EmptyPage ==
  Page(<<>>, 0, 0, {}, <<>>, <<>>)
<1>1. <<>> \in Seq(EventSet) /\ Len(<<>>) = 0 /\ 0 \in Nat /\ <<>> \in Text
      /\ (1 .. 0 = {}) /\ 1 .. Len(<<>>) = {}
  BY EmptySeq DEF Text
<1>2. PICK ev \in EventSet : TRUE
  <2>1. [type |-> "chunk", index |-> 0, text |-> <<>>, number |-> 0] \in EventSet
    BY <1>1 DEF EventSet, EventTypes
  <2> QED BY <2>1
<1>3. Said(<<>>, "text_delta") = <<>> /\ Said(<<>>, "tool_delta") = <<>>
  BY <1>1, <1>2, SaidMore
<1>4. Items(<<>>, 0, {})
  BY <1>1 DEF Items
<1> QED BY <1>1, <1>3, <1>4 DEF Page

\* A stream starts with nothing told, and with an event at least.
LEMMA StartTold ==
  ASSUME protocol \in Protocols, wire = Start(NewEncoder).events,
         NEW f, f = [Start(NewEncoder) EXCEPT !.events = <<>>]
  PROVE  Told(f, <<>>, <<>>) /\ f \in Encoders /\ f.events = <<>> /\ wire \in Seq(EventSet) /\ Len(wire) >= 1
<1> DEFINE n == NewEncoder
           s == Start(NewEncoder)
           Good(y) == /\ y \in Encoders /\ Alike(n, y) /\ Page(y.events, y.sequence, 0, {}, <<>>, <<>>)
<1>1. /\ 0 \in Nat /\ 1 \in Nat /\ <<>> \in Text /\ <<>> \in Seq(CallSet) /\ <<>> \in Seq(EventSet)
      /\ <<>> \in Seq(Text) /\ Len(<<>>) = 0
  BY EmptySeq DEF Text
<1>2. /\ n \in Encoders /\ n.events = <<>> /\ n.sequence = 0 /\ n.text = <<>> /\ n.textIndex = 0
      /\ ~n.textClosed /\ n.next = 1 /\ n.calls = <<>> /\ ~n.failed
  BY <1>1 DEF NewEncoder, Encoders
<1>3. Good(n)
  BY <1>2, EmptyPage DEF Alike
<1> HIDE DEF n
<1>4. ASSUME NEW y, Good(y), NEW type \in {"chunk", "message_start", "created", "in_progress"}
      PROVE  Good(Event(y, type, 0, <<>>)) /\ Len(Event(y, type, 0, <<>>).events) >= 1
  <2> DEFINE z == Event(y, type, 0, <<>>)
             ev == TheEvent(y, type, 0, <<>>)
             es == y.events
             k == Later(y, 1)
             q == y.sequence
             more == Append(es, ev)
  <2>1. type \in EventTypes /\ type \notin EndingTypes /\ type \notin ItemTypes
    BY DEF EventTypes, EndingTypes, ItemTypes
  <2>2. ev \in EventSet /\ more \in Seq(EventSet) /\ z = With(y, more, k) /\ z \in Encoders
    BY <1>1, <1>4, <2>1, EventIs
  <2>3. es \in Seq(EventSet) /\ k \in Nat /\ q \in Nat
    BY <1>1, <1>4, LaterIs DEF Encoders
  <2>4. ev.type = type /\ ev.number = q
    BY DEF TheEvent
  <2>5. Page(es, q, 0, {}, <<>>, <<>>)
    BY <1>4
  <2>6. k = IF protocol = "Responses" THEN q + 1 ELSE q
    BY DEF Later
  <2> HIDE DEF ev, es, k, z, q
  <2>7. Page(more, k, 0, {}, <<>>, <<>>)
    BY <2>1, <2>2, <2>4, <2>5, <2>6, PageMore
  <2>8. Len(more) = Len(es) + 1 /\ Len(es) \in Nat
    BY <2>2, <2>3, AppendProperties, LenProperties
  <2> HIDE DEF more
  <2>9. z.events = more /\ z.sequence = k /\ Alike(y, z)
    BY <1>4, <2>2, <2>3, WithIs DEF Alike
  <2>10. Len(z.events) >= 1
    BY <2>8, <2>9
  <2>11. Good(z)
    BY <1>4, <2>2, <2>7, <2>9 DEF Alike
  <2> QED BY <2>10, <2>11 DEF z
<1>5. Good(s) /\ Len(s.events) >= 1
  <2> DEFINE types == Types(<<"chunk">>, <<"message_start">>, <<"created", "in_progress">>)
  <2>1. s = Events(n, types, 0, <<>>)
    BY DEF Start, n
  <2>2. CASE protocol = "Chat"
    <3>1. types = <<"chunk">>
      BY <2>2, TypesAre
    <3>2. s = Event(n, "chunk", 0, <<>>)
      BY <2>1, <3>1, OneEvent
    <3> QED BY <1>3, <1>4, <3>2
  <2>3. CASE protocol = "Anthropic"
    <3>1. types = <<"message_start">>
      BY <2>3, TypesAre
    <3>2. s = Event(n, "message_start", 0, <<>>)
      BY <2>1, <3>1, OneEvent
    <3> QED BY <1>3, <1>4, <3>2
  <2>4. CASE protocol = "Responses"
    <3> DEFINE x == Event(n, "created", 0, <<>>)
    <3>1. types = <<"created", "in_progress">>
      BY <2>4, TypesAre
    <3>2. "created" \in EventTypes /\ "in_progress" \in EventTypes
      BY DEF EventTypes
    <3>3. s = Event(x, "in_progress", 0, <<>>)
      <4>1. Events(n, <<"created", "in_progress">>, 0, <<>>) = Event(x, "in_progress", 0, <<>>)
        BY <1>1, <1>2, <3>2, TwoEvents
      <4> HIDE DEF types, x, s
      <4> QED BY <2>1, <3>1, <4>1
    <3>4. Good(x)
      BY <1>3, <1>4
    <3> HIDE DEF x, s, Good
    <3> QED BY <1>4, <3>3, <3>4
  <2> QED BY <2>2, <2>3, <2>4 DEF Protocols
<1> HIDE DEF s
<1>6. /\ f \in Encoders /\ f.events = <<>> /\ f.sequence = s.sequence /\ Alike(s, f)
  BY <1>1, <1>5 DEF s, Encoders, Alike
<1>7. wire = s.events /\ wire \in Seq(EventSet)
  BY <1>5 DEF s, Encoders
<1>8. wire \o <<>> = wire
  BY <1>7, ConcatEmptySeq
<1>9. On(f, 0, {}, <<>>, <<>>)
  BY <1>5, <1>6, <1>7, <1>8 DEF On
<1>10. /\ f.textIndex = 0 /\ f.next = 1 /\ ~f.textClosed /\ f.calls = <<>> /\ ~f.failed
  BY <1>2, <1>5, <1>6 DEF Alike
<1>11. Shut(f, 0) = {} /\ TextItem(<<>>) = 0 /\ FlattenSeq(<<>>) = <<>>
  <2>1. FlattenSeq(<<>>) = <<>>
    BY <1>1, FlattenMore
  <2>2. Shut(f, 0) = {}
    BY DEF Shut
  <2> QED BY <2>1, <2>2 DEF TextItem
<1>12. Told(f, <<>>, <<>>)
  <2>1. /\ Len(<<>>) + TextItem(<<>>) = 0 /\ Len(<<>>) + TextItem(<<>>) + 1 = 1 /\ Len(f.calls) = 0
        /\ 1 .. Len(f.calls) = {}
    BY <1>1, <1>10, <1>11
  <2>2. On(f, Len(<<>>) + TextItem(<<>>), Shut(f, Len(<<>>) + TextItem(<<>>)), <<>>, FlattenSeq(<<>>))
    BY <1>9, <1>11, <2>1
  <2> QED BY <1>1, <1>10, <1>11, <2>1, <2>2 DEF Told
<1> QED BY <1>5, <1>6, <1>7, <1>12

-----------------------------------------------------------------------------
(* What the parser makes of a text is told.                                *)

\* What the parser has made of the text w: w itself, as far as it is not held
\* back, until the first call.
ParserOK(p, w) ==
  /\ p \in Parsers /\ w \in Text /\ IsPrefix(p.text, w)
  /\ p.scan <= Len(p.pending) /\ (~p.inCall => p.scan = 0)
  /\ p.calls = <<>> /\ ~p.inCall /\ ~p.error => w = p.text \o p.pending
  /\ p.arch = "plain" => p.pending = <<>> /\ ~p.inCall

\* And the client has been told of it.
ParserTold(p, w, e) ==
  ParserOK(p, w) /\ (IF p.error THEN p.deltas = <<>> ELSE Told(Deltas(e, p.deltas), p.text, p.calls))

\* Text that is emitted is told.
LEMMA EmitTold ==
  ASSUME protocol \in Protocols, NEW e \in Encoders, NEW p \in Parsers, ~p.error,
         Told(Deltas(e, p.deltas), p.text, p.calls), NEW x \in Text
  PROVE  LET t == EmitText(p, x) IN
         /\ Kept(p, t) /\ (IF t.error THEN t.deltas = <<>> ELSE Told(Deltas(e, t.deltas), t.text, t.calls))
         /\ p.calls = <<>> => ~t.error /\ t.text = p.text \o x
         /\ p.calls # <<>> => t.text = p.text
<1> DEFINE t == EmitText(p, x)
           d == [tag |-> "Text", index |-> 0, text |-> x]
           ds == p.deltas
           s == p.text
           more == Append(ds, d)
<1>1. /\ s \in Text /\ ds \in Seq(DeltaSet) /\ s \in Seq(Symbols) /\ x \in Seq(Symbols)
      /\ p.calls \in Seq(Text)
  BY DEF Parsers, Text
<1>2. s \o x \in Text /\ s \o <<>> = s
  BY <1>1, ConcatProperties, ConcatEmptySeq DEF Text
<1>3. CASE x = <<>>
  <2>1. t = p
    BY <1>3 DEF EmitText
  <2>2. s \o x = s
    BY <1>2, <1>3
  <2> QED BY <2>1, <2>2 DEF Kept
<1>4. CASE x # <<>> /\ p.calls = <<>>
  <2>1. t = [p EXCEPT !.text = s \o x, !.deltas = more]
    BY <1>4 DEF EmitText
  <2>2. d \in DeltaSet
    BY DEF DeltaSet
  <2>3. more \in Seq(DeltaSet)
    <3> HIDE DEF d
    <3> QED BY <1>1, <2>2, AppendProperties
  <2>4. Deltas(e, more) = Delta(Deltas(e, ds), d)
    <3> HIDE DEF d
    <3> QED BY <1>1, <2>2, DeltasMore
  <2>5. Told(Deltas(e, ds), s, <<>>)
    BY <1>4
  <2>6. Told(Delta(Deltas(e, ds), d), s \o x, <<>>)
    <3> HIDE DEF s, ds
    <3> QED BY <1>4, <2>5, TextTold
  <2> DEFINE now == s \o x
  <2>7. now \in Text
    BY <1>2
  <2> HIDE DEF more, now, t
  <2>8. /\ Kept(p, t) /\ ~t.error /\ t.text = now /\ t.deltas = more /\ t.calls = <<>>
    BY <1>4, <2>1, <2>3, <2>7 DEF Kept, Parsers, now
  <2> QED BY <1>4, <2>4, <2>6, <2>8 DEF now, t
<1>5. CASE x # <<>> /\ p.calls # <<>>
  <2>1. t = p \/ t = Broken(p)
    BY <1>5 DEF EmitText
  <2> QED BY <1>5, <2>1, BrokenIs DEF Kept
<1> QED BY <1>3, <1>4, <1>5

\* A call begins: what comes before its tag is told.
LEMMA BeginTold ==
  ASSUME protocol \in Protocols, NEW e \in Encoders, NEW p, NEW w, ParserTold(p, w, e), Begins(p)
  PROVE  ParserTold(Begin(p), w, e) /\ Begin(p).arch = p.arch /\ Begin(p).choice = p.choice
<1> DEFINE t == p.pending
           n == First(Markers(p))
           x == Take(t, n)
           y == Drop(t, n)
           b == EmitText(p, x)
           rest == Drop(t, n + Len(OPEN))
           q == Begin(p)
<1>1. /\ p \in Parsers /\ w \in Text /\ IsPrefix(p.text, w)
      /\ p.scan <= Len(p.pending) /\ (~p.inCall => p.scan = 0)
      /\ (p.calls = <<>> /\ ~p.inCall /\ ~p.error => w = p.text \o p.pending)
      /\ (p.arch = "plain" => p.pending = <<>> /\ ~p.inCall)
      /\ ~p.error /\ ~p.inCall /\ Markers(p) # {} /\ IsPrefix(OPEN, y)
      /\ Told(Deltas(e, p.deltas), p.text, p.calls)
  BY DEF ParserTold, ParserOK, Begins
<1>2. t \in Text /\ p.text \in Text /\ Len(t) \in Nat
  BY <1>1, LenProperties DEF Parsers, Text
<1>3. n \in 0 .. Len(t) /\ x \in Text /\ y \in Text /\ x \o y = t /\ Len(y) = Len(t) - n
  BY <1>1, MarkersAt
<1>4. /\ Kept(p, b) /\ (IF b.error THEN b.deltas = <<>> ELSE Told(Deltas(e, b.deltas), b.text, b.calls))
      /\ p.calls = <<>> => ~b.error /\ b.text = p.text \o x
      /\ p.calls # <<>> => b.text = p.text
  <2> HIDE DEF x
  <2> QED BY <1>1, <1>3, EmitTold
<1>5. q = [b EXCEPT !.pending = rest, !.inCall = ~b.error]
  <2>1. b.pending = t
    BY <1>4 DEF Kept
  <2> QED BY <2>1 DEF Begin
<1> HIDE DEF n, x, y, b, t
<1>6. n + Len(OPEN) \in 0 .. Len(t) /\ rest \in Text
  <2>1. Len(OPEN) <= Len(y) /\ Len(OPEN) \in Nat
    <3>1. OPEN \in Seq(Symbols) /\ y \in Seq(Symbols)
      BY <1>3, Tags DEF Text
    <3> QED BY <1>1, <3>1, PrefixAt, LenProperties
  <2>2. n + Len(OPEN) \in 0 .. Len(t)
    BY <1>2, <1>3, <2>1
  <2>3. t \in Seq(Symbols)
    BY <1>2 DEF Text
  <2> DEFINE m == n + Len(OPEN)
  <2> HIDE DEF m
  <2>4. Drop(t, m) \in Seq(Symbols)
    BY <2>2, <2>3, TakeDrop DEF m
  <2> QED BY <2>2, <2>4 DEF m, Text
<1> HIDE DEF rest, q
<1>7. b \in Parsers /\ b.scan = 0 /\ b.arch = p.arch /\ b.choice = p.choice /\ b.calls = p.calls
      /\ (p.arch = "plain" => t = <<>>)
  BY <1>1, <1>4 DEF Kept, t
<1>8. /\ q \in Parsers /\ q.arch = b.arch /\ q.choice = b.choice /\ q.pending = rest
      /\ q.inCall = ~b.error /\ q.scan = b.scan /\ q.text = b.text /\ q.calls = b.calls
      /\ q.error = b.error /\ q.deltas = b.deltas
  BY <1>5, <1>6, <1>7 DEF Parsers
<1>9. IsPrefix(q.text, w)
  <2>1. CASE p.calls = <<>>
    <3>1. w = p.text \o t /\ q.text = p.text \o x
      BY <1>1, <1>4, <1>8, <2>1 DEF t
    <3>2. p.text \o (x \o y) = (p.text \o x) \o y
      <4> DEFINE s == p.text
      <4>1. s \in Text
        BY <1>2
      <4> HIDE DEF s
      <4>2. s \o (x \o y) = (s \o x) \o y
        BY <1>3, <4>1, JoinThree
      <4> QED BY <4>2 DEF s
    <3>3. p.text \o x \in Text
      BY <1>2, <1>3, ConcatProperties DEF Text
    <3> DEFINE s == p.text \o x
    <3> HIDE DEF s
    <3>4. IsPrefix(s, s \o y)
      BY <1>3, <3>3, PrefixJoin DEF s
    <3> QED BY <1>3, <3>1, <3>2, <3>4 DEF s
  <2>2. CASE p.calls # <<>>
    BY <1>1, <1>4, <1>8, <2>2
  <2> QED BY <2>1, <2>2
<1>10. p.arch # "plain"
  <2>1. SUFFICES ASSUME t = <<>> PROVE FALSE
    BY <1>7
  <2>2. Len(t) = 0 /\ Len(OPEN) = 4
    BY <2>1, Tags
  <2> QED BY <1>3, <1>6, <2>2
<1>11. q.scan <= Len(q.pending)
  <2>1. Len(rest) \in Nat
    BY <1>6, LenProperties DEF Text
  <2> QED BY <1>7, <1>8, <2>1
<1>12. ParserOK(q, w)
  BY <1>1, <1>7, <1>8, <1>9, <1>10, <1>11 DEF ParserOK
<1>13. ParserTold(q, w, e)
  BY <1>4, <1>8, <1>12 DEF ParserTold
<1> QED BY <1>7, <1>8, <1>13 DEF q

\* A call ends: it is told whole, or the parser breaks.
LEMMA EndTold ==
  ASSUME protocol \in Protocols, NEW e \in Encoders, NEW p, NEW w, ParserTold(p, w, e), Ends(p)
  PROVE  LET q == EndCall(p, CallClose(p).scan) IN
         ParserTold(q, w, e) /\ q.arch = p.arch /\ q.choice = p.choice
<1> DEFINE t == p.pending
           n == CallClose(p).scan
           q == EndCall(p, n)
           body == Take(t, n)
           rest == Drop(t, n + Len(CLOSE))
           index == Len(p.calls) + 1
           Part(tag) == [tag |-> tag, index |-> index, text |-> body]
           ds == p.deltas
           s == p.text
           cs == p.calls
           added == <<Part("ToolStart"), Part("ToolArguments"), Part("ToolEnd")>>
           more == Append(cs, body)
           after == ds \o added
<1>1. /\ p \in Parsers /\ w \in Text /\ IsPrefix(s, w)
      /\ (p.arch = "plain" => t = <<>> /\ ~p.inCall)
      /\ ~p.error /\ p.inCall /\ IsPrefix(CLOSE, Drop(t, n)) /\ p.scan <= Len(t)
      /\ Told(Deltas(e, ds), s, cs)
  BY DEF ParserTold, ParserOK, Ends
<1>2. /\ t \in Seq(Symbols) /\ Len(t) \in Nat /\ s \in Text /\ cs \in Seq(Text) /\ Len(cs) \in Nat
      /\ ds \in Seq(DeltaSet)
  BY <1>1, LenProperties DEF Parsers, Text
<1>3. n \in 0 .. Len(t)
  BY <1>1, CallCloseIs
<1> HIDE DEF n, t
<1>4. body \in Text
  BY <1>2, <1>3, TakeDrop DEF Text
<1>5. rest \in Text
  <2> DEFINE y == Drop(t, n)
             m == n + Len(CLOSE)
  <2>1. y \in Seq(Symbols) /\ Len(y) = Len(t) - n
    BY <1>2, <1>3, TakeDrop
  <2>2. Len(CLOSE) \in Nat /\ Len(CLOSE) <= Len(y)
    <3>1. CLOSE \in Seq(Symbols) /\ IsPrefix(CLOSE, y)
      BY <1>1, Tags DEF Text
    <3> HIDE DEF y
    <3> QED BY <2>1, <3>1, PrefixAt, LenProperties
  <2>3. m \in 0 .. Len(t)
    <3> HIDE DEF y
    <3> QED BY <1>2, <1>3, <2>1, <2>2
  <2> HIDE DEF m
  <2>4. Drop(t, m) \in Seq(Symbols)
    BY <1>2, <2>3, TakeDrop
  <2> QED BY <2>4 DEF m, Text
<1>6. CASE body \notin DOMAIN Bodies
  <2>1. q = Broken(p)
    BY <1>6 DEF EndCall, t
  <2>2. Kept(p, q) /\ q.error /\ q.text = s /\ q.deltas = <<>>
    BY <1>1, <2>1, BrokenIs
  <2> HIDE DEF q
  <2>3. ParserOK(q, w)
    BY <1>1, <2>2 DEF Kept, ParserOK, t
  <2> QED BY <2>2, <2>3 DEF ParserTold, Kept, q, n
<1>7. CASE body \in DOMAIN Bodies
  <2>1. q = [p EXCEPT !.deltas = after, !.calls = more, !.pending = rest,
                      !.inCall = FALSE, !.scan = 0, !.quoted = FALSE]
    BY <1>7 DEF EndCall, t
  <2> DEFINE a == Part("ToolStart")
             b == Part("ToolArguments")
             c == Part("ToolEnd")
  <2> HIDE DEF body
  <2>2. a \in DeltaSet /\ b \in DeltaSet /\ c \in DeltaSet
    BY <1>2, <1>4 DEF DeltaSet
  <2>3. added = <<a, b, c>>
    OBVIOUS
  <2> HIDE DEF added, a, b, c, ds, s, cs
  <2>4. /\ Append(ds, a) \in Seq(DeltaSet) /\ Append(Append(ds, a), b) \in Seq(DeltaSet)
        /\ after = Append(Append(Append(ds, a), b), c) /\ after \in Seq(DeltaSet)
    BY <1>2, <2>2, <2>3
  <2> DEFINE d1 == Append(ds, a)
             d2 == Append(d1, b)
  <2>5. /\ Deltas(e, d1) = Delta(Deltas(e, ds), a)
        /\ Deltas(e, d2) = Delta(Deltas(e, d1), b)
        /\ Deltas(e, after) = Delta(Deltas(e, d2), c)
    <3>1. d1 \in Seq(DeltaSet) /\ d2 \in Seq(DeltaSet) /\ after = Append(d2, c)
      BY <2>4
    <3>2. Deltas(e, d1) = Delta(Deltas(e, ds), a)
      <4> HIDE DEF d2, after
      <4> QED BY <1>2, <2>2, DeltasMore
    <3>3. Deltas(e, d2) = Delta(Deltas(e, d1), b)
      <4> HIDE DEF d1, after
      <4> QED BY <2>2, <3>1, DeltasMore DEF d2
    <3>4. Deltas(e, Append(d2, c)) = Delta(Deltas(e, d2), c)
      <4> HIDE DEF d2
      <4> QED BY <2>2, <3>1, DeltasMore
    <3> HIDE DEF d1, d2, after
    <3> QED BY <3>1, <3>2, <3>3, <3>4
  <2>6. Told(Deltas(e, after), s, more)
    <3> DEFINE o == Deltas(e, ds)
    <3>1. Told(o, s, cs)
      BY <1>1 DEF ds, s, cs
    <3> HIDE DEF o
    <3>2. Told(Delta(Delta(Delta(o, a), b), c), s, Append(cs, body))
      BY <1>4, <3>1, CallTold DEF a, b, c, cs
    <3>3. Deltas(e, after) = Delta(Delta(Delta(o, a), b), c)
      <4> HIDE DEF d1, d2, after
      <4> QED BY <2>5 DEF o
    <3> HIDE DEF after
    <3> QED BY <3>2, <3>3 DEF more
  <2>7. more \in Seq(Text) /\ more # <<>>
    <3>1. more \in Seq(Text) /\ Len(more) = Len(cs) + 1
      <4> HIDE DEF after, rest, q
      <4> QED BY <1>2, <1>4, AppendProperties
    <3> HIDE DEF more
    <3> QED BY <1>2, <3>1
  <2> HIDE DEF after, more, rest, q
  <2>8. /\ q \in Parsers /\ q.arch = p.arch /\ q.choice = p.choice /\ q.text = s /\ q.calls = more
        /\ q.deltas = after /\ q.scan = 0 /\ q.pending = rest /\ ~q.inCall /\ q.error = p.error
    BY <1>1, <1>2, <1>5, <2>1, <2>4, <2>7 DEF Parsers, s
  <2>9. Len(rest) \in Nat
    BY <1>5, LenProperties DEF Text
  <2>10. ParserOK(q, w)
    BY <1>1, <2>7, <2>8, <2>9 DEF ParserOK
  <2> QED BY <1>1, <2>6, <2>8, <2>10 DEF ParserTold, q, n
<1> QED BY <1>6, <1>7

\* Text is emitted from the front of what is pending.
LEMMA CutTold ==
  ASSUME protocol \in Protocols, NEW e \in Encoders, NEW p, NEW w, ParserTold(p, w, e),
         ~p.error, ~p.inCall, NEW n \in 0 .. Len(p.pending)
  PROVE  LET q == EmitText([p EXCEPT !.pending = Drop(p.pending, n)], Take(p.pending, n)) IN
         ParserTold(q, w, e) /\ q.arch = p.arch /\ q.choice = p.choice
         /\ q.pending = Drop(p.pending, n) /\ q.inCall = p.inCall
<1> DEFINE t == p.pending
           x == Take(t, n)
           y == Drop(t, n)
           r == [p EXCEPT !.pending = y]
           q == EmitText(r, x)
           s == p.text
<1>1. /\ p \in Parsers /\ w \in Text /\ IsPrefix(s, w) /\ p.scan = 0
      /\ (p.calls = <<>> => w = s \o t) /\ (p.arch = "plain" => t = <<>>)
      /\ Told(Deltas(e, p.deltas), s, p.calls)
  BY DEF ParserTold, ParserOK
<1>2. t \in Seq(Symbols) /\ Len(t) \in Nat /\ s \in Text /\ n \in 0 .. Len(t)
  BY <1>1, LenProperties DEF Parsers, Text
<1>3. /\ x \in Text /\ y \in Text /\ x \o y = t /\ Len(y) = Len(t) - n /\ Len(y) \in Nat
  <2> HIDE DEF t
  <2> QED BY <1>2, TakeDrop, LenProperties DEF Text
<1>4. p.arch = "plain" => y = <<>>
  <2>1. SUFFICES ASSUME t = <<>> PROVE y = <<>>
    BY <1>1
  <2>2. Len(t) = 0
    BY <2>1
  <2> HIDE DEF x, y, t
  <2>3. n = 0 /\ y \in Seq(Symbols)
    BY <1>2, <1>3, <2>2 DEF Text
  <2>4. Len(y) = 0
    BY <1>3, <2>2, <2>3
  <2> QED BY <2>3, <2>4, EmptySeq
<1> HIDE DEF x, y, t
<1>5. /\ r \in Parsers /\ ~r.error /\ r.deltas = p.deltas /\ r.text = s /\ r.calls = p.calls
      /\ r.pending = y /\ r.inCall = p.inCall /\ r.scan = 0 /\ r.arch = p.arch /\ r.choice = p.choice
  BY <1>1, <1>3 DEF Parsers
<1> HIDE DEF r
<1>6. /\ Kept(r, q) /\ (IF q.error THEN q.deltas = <<>> ELSE Told(Deltas(e, q.deltas), q.text, q.calls))
      /\ (r.calls = <<>> => ~q.error /\ q.text = r.text \o x)
      /\ (r.calls # <<>> => q.text = r.text)
  <2>1. Told(Deltas(e, r.deltas), r.text, r.calls)
    BY <1>1, <1>5
  <2> QED BY <1>3, <1>5, <2>1, EmitTold
<1> HIDE DEF q
<1>7. /\ q \in Parsers /\ q.arch = p.arch /\ q.choice = p.choice /\ q.pending = y
      /\ q.inCall = p.inCall /\ q.scan = 0 /\ q.calls = p.calls
  BY <1>5, <1>6 DEF Kept
<1>8. IsPrefix(q.text, w) /\ (q.calls = <<>> => w = q.text \o y)
  <2>1. CASE p.calls # <<>>
    BY <1>1, <1>5, <1>6, <1>7, <2>1
  <2>2. CASE p.calls = <<>>
    <3>1. w = s \o (x \o y) /\ q.text = s \o x
      BY <1>1, <1>3, <1>5, <1>6, <2>2
    <3> HIDE DEF s
    <3>2. s \o (x \o y) = (s \o x) \o y
      BY <1>2, <1>3, JoinThree
    <3>3. s \o x \in Text
      BY <1>2, <1>3, ConcatProperties DEF Text
    <3> DEFINE v == s \o x
    <3> HIDE DEF v
    <3>4. IsPrefix(v, v \o y)
      BY <1>3, <3>3, PrefixJoin DEF v
    <3> QED BY <3>1, <3>2, <3>4 DEF v
  <2> QED BY <2>1, <2>2
<1>9. ParserOK(q, w)
  BY <1>1, <1>3, <1>4, <1>7, <1>8 DEF ParserOK, t
<1> QED BY <1>6, <1>7, <1>9 DEF ParserTold, q, r, x, y, t

\* The last turn tells what it lets through, and holds a tag that has begun.
LEMMA SettleTold ==
  ASSUME protocol \in Protocols, NEW e \in Encoders, NEW p, NEW w, ParserTold(p, w, e)
  PROVE  LET q == Settle(p) IN
         ParserTold(q, w, e) /\ q.arch = p.arch /\ q.choice = p.choice /\ Pend(q)
<1> DEFINE t == p.pending
           q == Settle(p)
           at == First(Markers(p))
           prefixes == UNION {Prefixes(tag) : tag \in MARKERS}
           held == HeldFrom(t, prefixes)
           cut(n) == EmitText([p EXCEPT !.pending = Drop(t, n)], Take(t, n))
<1>1. p \in Parsers /\ t \in Text /\ t \in Seq(Symbols) /\ Len(t) \in Nat
  BY LenProperties DEF ParserTold, ParserOK, Parsers, Text
<1>2. CASE p.error
  <2>1. q = p
    BY <1>2 DEF Settle
  <2> QED BY <1>2, <2>1 DEF Pend
<1>3. CASE ~p.error /\ p.inCall
  <2> DEFINE scan == CallClose(p).scan
             quoted == CallClose(p).quoted
  <2>1. q = [p EXCEPT !.scan = scan, !.quoted = quoted]
    BY <1>3 DEF Settle
  <2>2. scan \in 0 .. Len(t) /\ quoted \in BOOLEAN
    BY <1>1, CallCloseIs DEF ParserTold, ParserOK
  <2> HIDE DEF scan, quoted, q
  <2>3. /\ q \in Parsers /\ q.scan = scan /\ q.pending = t /\ q.arch = p.arch
        /\ q.choice = p.choice /\ q.inCall /\ q.text = p.text /\ q.calls = p.calls
        /\ q.error = p.error /\ q.deltas = p.deltas
    <3>1. scan \in Nat
      BY <1>1, <2>2
    <3> QED BY <1>1, <1>3, <2>1, <2>2, <3>1 DEF Parsers
  <2>4. ParserOK(q, w)
    BY <1>3, <2>2, <2>3 DEF ParserTold, ParserOK
  <2>5. ParserTold(q, w, e)
    BY <1>3, <2>3, <2>4 DEF ParserTold
  <2> QED BY <2>3, <2>5 DEF Pend, q
<1>4. CASE ~p.error /\ ~p.inCall /\ Markers(p) = {}
  <2>1. q = cut(held)
    BY <1>4 DEF Settle
  <2> DEFINE y == Drop(t, held)
  <2>2. /\ held \in 0 .. Len(t) /\ y \in prefixes \cup {<<>>}
    <3> HIDE DEF prefixes, t
    <3> QED BY <1>1, HeldIs
  <2> HIDE DEF held
  <2>3. y \in Text /\ Len(y) = Len(t) - held
    <3> HIDE DEF t
    <3> QED BY <1>1, <2>2, TakeDrop DEF Text
  <2>4. /\ ParserTold(q, w, e) /\ q.arch = p.arch /\ q.choice = p.choice
        /\ q.pending = y /\ q.inCall = p.inCall
    <3> HIDE DEF q
    <3> QED BY <1>4, <2>1, <2>2, CutTold
  <2>5. IsStrictPrefix(y, OPEN) \/ IsPrefix(y, <<"<", "/">>)
    <3>1. CASE y = <<>>
      BY <3>1, NothingHeld
    <3>2. CASE y \in prefixes
      <4>1. PICK tag \in MARKERS : y \in Prefixes(tag)
        BY <3>2
      <4>2. tag \in Seq(Symbols) /\ Len(tag) \in Nat
        BY Tags, LenProperties DEF Text
      <4>3. IsPrefix(y, tag)
        <5> HIDE DEF y
        <5> QED BY <4>1, <4>2, PrefixesAre
      <4>4. y # tag
        <5> SUFFICES ASSUME y = tag PROVE FALSE
          OBVIOUS
        <5>1. Finds(t, tag) = {}
          BY <1>4 DEF Markers
        <5>2. held \in 0 .. Len(t) - Len(tag)
          <6>1. Len(tag) = Len(t) - held
            BY <2>3
          <6> HIDE DEF t, y
          <6> QED BY <1>1, <2>2, <4>2, <6>1
        <5>3. \A k \in 1 .. Len(tag) : t[held + k] = tag[k]
          <6>1. \A k \in 1 .. Len(t) - held : y[k] = t[held + k]
            <7> HIDE DEF t
            <7> QED BY <1>1, <2>2, TakeDrop
          <6>2. Len(tag) = Len(t) - held
            BY <2>3
          <6> HIDE DEF y, t
          <6> QED BY <6>1, <6>2
        <5>4. held \in Finds(t, tag)
          <6> HIDE DEF t
          <6> QED BY <1>1, <4>2, <5>2, <5>3, FindsAt
        <5> QED BY <5>1, <5>4
      <4> HIDE DEF y
      <4> QED BY <2>3, <4>3, <4>4, MarkerStart
    <3> QED BY <2>2, <3>1, <3>2
  <2> HIDE DEF q, y
  <2> QED BY <2>4, <2>5 DEF Pend, q
<1>5. CASE ~p.error /\ ~p.inCall /\ Markers(p) # {}
  <2>1. q = IF IsStrictPrefix(Drop(t, at), OPEN) THEN cut(at) ELSE Broken(p)
    BY <1>5 DEF Settle
  <2>2. CASE IsStrictPrefix(Drop(t, at), OPEN)
    <3>1. at \in 0 .. Len(t)
      BY <1>1, <1>5, MarkersAt
    <3> HIDE DEF at
    <3>2. q = cut(at)
      BY <2>1, <2>2
    <3> HIDE DEF q
    <3>3. /\ ParserTold(q, w, e) /\ q.arch = p.arch /\ q.choice = p.choice
          /\ q.pending = Drop(t, at) /\ q.inCall = p.inCall
      BY <1>5, <3>1, <3>2, CutTold
    <3> QED BY <2>2, <3>3 DEF Pend, q
  <2>3. CASE ~IsStrictPrefix(Drop(t, at), OPEN)
    <3>1. q = Broken(p)
      BY <2>1, <2>3
    <3>2. Kept(p, q) /\ q.error /\ q.text = p.text /\ q.deltas = <<>>
      BY <1>1, <3>1, BrokenIs
    <3> HIDE DEF q
    <3>3. ParserOK(q, w)
      BY <1>5, <3>2 DEF Kept, ParserOK, ParserTold
    <3> QED BY <3>2, <3>3 DEF Kept, ParserTold, Pend, q
  <2> QED BY <2>2, <2>3
<1> QED BY <1>2, <1>3, <1>4, <1>5

\* q is p at a later time: what was asked for stays, and an error does.
Onward(p, q) == q.arch = p.arch /\ q.choice = p.choice /\ (p.error => q.error)

\* A turn of drain keeps the client told.
LEMMA TurnTold ==
  ASSUME protocol \in Protocols, NEW e \in Encoders, NEW p, NEW w, ParserTold(p, w, e)
  PROVE  ParserTold(Turn(p), w, e) /\ Onward(p, Turn(p))
<1>1. CASE Ends(p)
  <2> ~Begins(p)
    BY <1>1 DEF Ends, Begins
  <2>1. Turn(p) = EndCall(p, CallClose(p).scan)
    BY <1>1 DEF Turn
  <2> QED BY <1>1, <2>1, EndTold DEF Onward, Ends
<1>2. CASE ~Ends(p) /\ Begins(p)
  <2>1. Turn(p) = Begin(p)
    BY <1>2 DEF Turn
  <2> QED BY <1>2, <2>1, BeginTold DEF Onward, Begins
<1>3. CASE ~Ends(p) /\ ~Begins(p)
  <2>1. Turn(p) = p
    BY <1>3 DEF Turn
  <2> QED BY <2>1 DEF Onward
<1> QED BY <1>1, <1>2, <1>3

\* drain keeps the client told, and leaves pending what may be the start of a
\* tag.
LEMMA DrainTold ==
  ASSUME protocol \in Protocols, NEW e \in Encoders, NEW p, NEW w, ParserTold(p, w, e)
  PROVE  ParserTold(Drain(p), w, e) /\ Onward(p, Drain(p)) /\ Pend(Drain(p))
<1> DEFINE most == Len(p.pending) \div Len(OPEN)
           A == {q \in Parsers : ParserTold(q, w, e) /\ Onward(p, q)}
           step == [n \in 1 .. most |-> [q \in A |-> Turn(q)]]
           Rec(f) == f = [n \in 0 .. most |-> IF n = 0 THEN p ELSE Turn(f[n - 1])]
           turns == CHOOSE f : Rec(f)
<1>1. most \in Nat
  <2>1. Len(p.pending) \in Nat
    BY LenProperties DEF ParserTold, ParserOK, Parsers, Text
  <2> DEFINE n == Len(p.pending)
  <2>2. \A k \in Nat : k \div 4 \in Nat
    OBVIOUS
  <2> HIDE DEF n
  <2>3. n \div 4 \in Nat
    BY <2>1, <2>2 DEF n
  <2> QED BY <2>3, Tags DEF n
<1>2. p \in A
  BY DEF ParserTold, ParserOK, Onward
<1>3. \A q \in A : Turn(q) \in A
  BY TurnTold DEF ParserTold, ParserOK, Onward
<1>4. \E f : Rec(f)
  <2>1. step \in [1 .. most -> [A -> A]] /\ \A n \in 1 .. most : \A q \in A : step[n][q] = Turn(q)
    <3> HIDE DEF A, most
    <3> QED BY <1>3
  <2> HIDE DEF step, A, most
  <2>2. PICK f \in [0 .. most -> A] : Iterates(f, p, most, step)
    BY <1>1, <1>2, <2>1, Recursion
  <2>3. \A n \in 0 .. most : f[n] = IF n = 0 THEN p ELSE Turn(f[n - 1])
    <3>1. \A n \in 0 .. most : n # 0 => n \in 1 .. most /\ n - 1 \in 0 .. most
      BY <1>1
    <3> QED BY <2>1, <2>2, <3>1 DEF Iterates
  <2>4. f = [n \in 0 .. most |-> f[n]]
    BY <2>2
  <2>5. Rec(f)
    BY <2>3, <2>4
  <2> HIDE DEF Rec
  <2> QED BY <2>5
<1>5. Rec(turns)
  <2> HIDE DEF Rec
  <2> QED BY <1>4
<1> HIDE DEF turns
<1>6. turns[0] = p /\ \A n \in 1 .. most : turns[n] = Turn(turns[n - 1])
  <2> HIDE DEF most
  <2>1. \A n \in 1 .. most : n # 0 /\ n \in 0 .. most
    BY <1>1
  <2>2. 0 \in 0 .. most
    BY <1>1
  <2> QED BY <1>5, <2>1, <2>2
<1>7. turns[most] \in A
  <2>1. turns[0] \in A
    BY <1>2, <1>6
  <2>2. \A n \in 1 .. most : turns[n - 1] \in A => turns[n] \in A
    <3> HIDE DEF A, most
    <3> QED BY <1>3, <1>6
  <2> HIDE DEF A, most
  <2>3. \A n \in 0 .. most : turns[n] \in A
    BY <1>1, <2>1, <2>2, AllValues
  <2> QED BY <1>1, <2>3
<1>8. Drain(p) = Settle(turns[most])
  BY DEF Drain, turns
<1> DEFINE t == turns[most]
<1> HIDE DEF most, turns
<1>9. ParserTold(t, w, e) /\ Onward(p, t)
  BY <1>7
<1> HIDE DEF t
<1>10. ParserTold(Settle(t), w, e) /\ Onward(t, Settle(t)) /\ Pend(Settle(t))
  <2>1. t.error => Settle(t) = t
    BY DEF Settle
  <2> QED BY <1>9, <2>1, SettleTold DEF Onward
<1>11. Drain(p) = Settle(t)
  BY <1>8 DEF t
<1> QED BY <1>9, <1>10, <1>11 DEF Onward

\* A chunk pushed on a parser that works: the client has been told what it
\* makes of all its text, or it breaks.
LEMMA PushTold ==
  ASSUME protocol \in Protocols, NEW e \in Encoders, NEW p, NEW w, ParserOK(p, w), ~p.error,
         Told(e, p.text, p.calls), Pend(p), NEW x \in Text
  PROVE  LET q == ParserPush(p, x) IN
         ParserTold(q, w \o x, e) /\ Onward(p, q) /\ Pend(q)
<1> DEFINE t == p.pending
           r == [p EXCEPT !.deltas = <<>>]
           r1 == [p EXCEPT !.deltas = <<>>, !.pending = t \o x]
           q == ParserPush(p, x)
           v == w \o x
           s == p.text
<1>1. /\ p \in Parsers /\ w \in Text /\ IsPrefix(s, w) /\ (~p.inCall => p.scan = 0)
      /\ p.scan <= Len(t) /\ (p.calls = <<>> /\ ~p.inCall => w = s \o t)
      /\ (p.arch = "plain" => t = <<>> /\ ~p.inCall)
  BY DEF ParserOK
<1>2. t \in Text /\ s \in Text /\ v \in Text /\ t \o x \in Text /\ <<>> \in Seq(DeltaSet)
  BY <1>1, ConcatProperties DEF Parsers, Text
<1>3. IsPrefix(s, v)
  <2> HIDE DEF s
  <2> QED BY <1>1, <1>2, PrefixJoin
<1>4. Deltas(e, <<>>) = e
  BY <1>2, DeltasAre
<1>5. s \o <<>> = s
  BY <1>2, ConcatEmptySeq DEF Text
<1>6. CASE p.arch = "plain"
  <2>1. q = EmitText(r, x)
    BY <1>6 DEF ParserPush
  <2>2. /\ r \in Parsers /\ ~r.error /\ r.deltas = <<>> /\ r.text = s /\ r.calls = p.calls
        /\ r.pending = t /\ r.inCall = p.inCall /\ r.scan = p.scan
        /\ r.arch = p.arch /\ r.choice = p.choice
    BY <1>1, <1>2 DEF Parsers
  <2> HIDE DEF r
  <2>3. Told(Deltas(e, r.deltas), r.text, r.calls)
    BY <1>4, <2>2
  <2>4. /\ Kept(r, q) /\ (IF q.error THEN q.deltas = <<>> ELSE Told(Deltas(e, q.deltas), q.text, q.calls))
        /\ (r.calls = <<>> => ~q.error /\ q.text = r.text \o x)
        /\ (r.calls # <<>> => q.text = r.text)
    <3> HIDE DEF q
    <3> QED BY <2>1, <2>2, <2>3, EmitTold
  <2> HIDE DEF q
  <2>5. /\ q \in Parsers /\ q.arch = p.arch /\ q.choice = p.choice /\ q.pending = <<>>
        /\ ~q.inCall /\ q.scan = 0 /\ q.calls = p.calls /\ p.pending = <<>>
    BY <1>1, <1>6, <2>2, <2>4 DEF Kept
  <2>6. IsPrefix(q.text, v) /\ (q.calls = <<>> => v = q.text \o <<>>)
    <3>1. CASE p.calls # <<>>
      BY <1>3, <2>2, <2>4, <2>5, <3>1
    <3>2. CASE p.calls = <<>>
      <4>1. w = s
        BY <1>1, <1>5, <1>6, <3>2
      <4>2. q.text = v
        BY <2>2, <2>4, <3>2, <4>1
      <4> HIDE DEF v
      <4>3. IsPrefix(v, v) /\ v \o <<>> = v
        BY <1>2, PrefixJoin, ConcatEmptySeq DEF Text
      <4> QED BY <4>2, <4>3
    <3> QED BY <3>1, <3>2
  <2>7. Len(<<>>) = 0
    OBVIOUS
  <2> HIDE DEF v
  <2>8. ParserOK(q, v)
    BY <1>2, <2>5, <2>6, <2>7 DEF ParserOK
  <2>9. Pend(q)
    BY <1>1, <1>6, <2>5 DEF Pend
  <2> QED BY <2>4, <2>5, <2>8, <2>9 DEF ParserTold, Onward, q, v
<1>7. CASE p.arch # "plain"
  <2>1. q = Drain(r1)
    BY <1>7 DEF ParserPush
  <2> DEFINE u == t \o x
  <2>2. Len(u) \in Nat /\ Len(t) <= Len(u)
    <3>1. Len(t) \in Nat /\ Len(x) \in Nat /\ Len(u) = Len(t) + Len(x)
      BY <1>2, Joined, LenProperties DEF Text
    <3> QED BY <3>1
  <2>3. p.calls = <<>> /\ ~p.inCall => v = s \o u
    <3> SUFFICES ASSUME p.calls = <<>>, ~p.inCall PROVE v = s \o u
      OBVIOUS
    <3>1. v = (s \o t) \o x
      BY <1>1
    <3> HIDE DEF s, t
    <3> QED BY <1>2, <3>1, JoinThree, SMTT(20)
  <2>4. /\ r1 \in Parsers /\ ~r1.error /\ r1.deltas = <<>> /\ r1.text = s /\ r1.calls = p.calls
        /\ r1.pending = u /\ r1.inCall = p.inCall /\ r1.scan = p.scan
        /\ r1.arch = p.arch /\ r1.choice = p.choice
    BY <1>1, <1>2 DEF Parsers
  <2> HIDE DEF r1, u, v
  <2>5. r1.scan <= Len(r1.pending)
    <3>1. p.scan \in Nat /\ Len(t) \in Nat
      BY <1>1, <1>2, LenProperties DEF Parsers, Text
    <3> HIDE DEF t
    <3> QED BY <1>1, <2>2, <2>4, <3>1
  <2>6. ParserOK(r1, v)
    BY <1>1, <1>2, <1>3, <1>7, <2>3, <2>4, <2>5 DEF ParserOK
  <2>7. ParserTold(r1, v, e)
    BY <1>4, <2>4, <2>6 DEF ParserTold
  <2> HIDE DEF q
  <2>8. ParserTold(q, v, e) /\ Onward(r1, q) /\ Pend(q)
    BY <2>1, <2>7, DrainTold
  <2> QED BY <2>4, <2>8 DEF Onward, q, v
<1> QED BY <1>6, <1>7

\* The end of a parser that works: what it made of its text has been told, all
\* of it, or it breaks.
LEMMA EndingTold ==
  ASSUME protocol \in Protocols, NEW e \in Encoders, NEW p, NEW w, ParserOK(p, w), ~p.error,
         Told(e, p.text, p.calls), Pend(p)
  PROVE  LET q == ParserFinish(p) IN
         ParserTold(q, w, e) /\ Onward(p, q) /\ (q.error \/ q.pending = <<>>)
<1> DEFINE r == [p EXCEPT !.deltas = <<>>]
           d == Drain(r)
           y == d.pending
           b == [d EXCEPT !.pending = <<>>]
           t == EmitText(b, y)
           q == ParserFinish(p)
<1>1. Deltas(e, <<>>) = e /\ <<>> \in Seq(DeltaSet) /\ <<>> \in Text
  <2>1. <<>> \in Seq(DeltaSet) /\ <<>> \in Text
    BY DEF Text
  <2> QED BY <2>1, DeltasAre
<1>2. r \in Parsers /\ ParserOK(r, w) /\ Onward(p, r) /\ ParserTold(r, w, e)
  <2>1. /\ r \in Parsers /\ ~r.error /\ r.deltas = <<>> /\ r.text = p.text /\ r.calls = p.calls
        /\ r.pending = p.pending /\ r.inCall = p.inCall /\ r.scan = p.scan
        /\ r.arch = p.arch /\ r.choice = p.choice
    BY <1>1 DEF ParserOK, Parsers
  <2> HIDE DEF r
  <2>2. ParserOK(r, w)
    BY <2>1 DEF ParserOK
  <2> QED BY <1>1, <2>1, <2>2 DEF ParserTold, Onward
<1> HIDE DEF r
<1>3. ParserTold(d, w, e) /\ Onward(r, d) /\ d \in Parsers
  BY <1>2, DrainTold DEF ParserTold, ParserOK
<1> HIDE DEF d
<1>4. q = Broken(d) \/ (~d.error /\ ~d.inCall /\ q = t)
  BY DEF ParserFinish, d, r
<1>5. CASE q = Broken(d)
  <2>1. Kept(d, q) /\ q.error /\ q.text = d.text /\ q.deltas = <<>>
    BY <1>3, <1>5, BrokenIs
  <2> HIDE DEF q
  <2>2. ParserOK(q, w)
    BY <1>3, <2>1 DEF Kept, ParserOK, ParserTold
  <2> QED BY <1>2, <1>3, <2>1, <2>2 DEF Kept, ParserTold, Onward, q
<1>6. CASE ~d.error /\ ~d.inCall /\ q = t
  <2>1. y \in Text /\ Len(y) \in Nat /\ Len(y) \in 0 .. Len(y) /\ y \in Seq(Symbols)
    BY <1>3, LenProperties DEF Parsers, Text
  <2>2. Take(y, Len(y)) = y /\ Drop(y, Len(y)) = <<>>
    <3> HIDE DEF y
    <3>1. /\ Take(y, Len(y)) \in Seq(Symbols) /\ Len(Take(y, Len(y))) = Len(y)
          /\ \A i \in 1 .. Len(y) : Take(y, Len(y))[i] = y[i]
          /\ Drop(y, Len(y)) \in Seq(Symbols) /\ Len(Drop(y, Len(y))) = Len(y) - Len(y)
      BY <2>1, TakeDrop
    <3>2. Len(Drop(y, Len(y))) = 0
      BY <2>1, <3>1
    <3> QED BY <2>1, <3>1, <3>2, SeqEqual, EmptySeq
  <2> DEFINE n == Len(y)
  <2>3. q = EmitText([d EXCEPT !.pending = Drop(d.pending, n)], Take(d.pending, n))
    BY <1>6, <2>2
  <2>4. n \in 0 .. Len(d.pending) /\ Drop(d.pending, n) = <<>>
    BY <2>1, <2>2
  <2> HIDE DEF n, q, y
  <2>5. ParserTold(q, w, e) /\ q.arch = d.arch /\ q.choice = d.choice
       /\ q.pending = Drop(d.pending, n)
    BY <1>3, <1>6, <2>3, <2>4, CutTold
  <2> QED BY <1>2, <1>3, <2>4, <2>5 DEF Onward, q
<1> QED BY <1>4, <1>5, <1>6

\* A parser that broke stays broken.
LEMMA BrokenStays ==
  ASSUME protocol \in Protocols, NEW e \in Encoders, NEW p, NEW w, ParserOK(p, w), p.error
  PROVE  /\ ParserFinish(p).error
         /\ \A x : ParserPush(p, x).error /\ ParserOK(ParserPush(p, x), w)
<1>1. ASSUME NEW x PROVE ParserPush(p, x).error /\ ParserOK(ParserPush(p, x), w)
  <2> DEFINE q == ParserPush(p, x)
  <2>1. q = Broken(p)
    BY DEF ParserPush
  <2>2. p \in Parsers
    BY DEF ParserOK
  <2>3. Kept(p, q) /\ q.error /\ q.text = p.text
    BY <2>1, <2>2, BrokenIs
  <2> HIDE DEF q
  <2>4. ParserOK(q, w)
    BY <2>3 DEF Kept, ParserOK
  <2> QED BY <2>3, <2>4 DEF q
<1>2. ParserFinish(p).error
  <2> DEFINE r == [p EXCEPT !.deltas = <<>>]
             d == Drain(r)
  <2>1. <<>> \in Seq(DeltaSet)
    OBVIOUS
  <2>2. /\ r \in Parsers /\ r.error /\ r.deltas = <<>> /\ r.text = p.text /\ r.calls = p.calls
        /\ r.pending = p.pending /\ r.inCall = p.inCall /\ r.scan = p.scan
        /\ r.arch = p.arch /\ r.choice = p.choice
    BY <2>1 DEF ParserOK, Parsers
  <2> HIDE DEF r
  <2>3. ParserTold(r, w, e)
    BY <2>2 DEF ParserOK, ParserTold
  <2>4. d.error /\ d \in Parsers
    BY <2>2, <2>3, DrainTold DEF Onward, ParserTold, ParserOK
  <2>5. ParserFinish(p) = Broken(d)
    <3>1. d.error
      BY <2>4
    <3> QED BY <3>1 DEF ParserFinish, r
  <2> HIDE DEF d
  <2> QED BY <2>4, <2>5, BrokenIs
<1> QED BY <1>1, <1>2

-----------------------------------------------------------------------------
(* The stream.                                                             *)

\* What has been told stays so while nothing is sent.
LEMMA ToldStays ==
  ASSUME NEW e, NEW text, NEW calls, Told(e, text, calls),
         wire' = wire, protocol' = protocol
  PROVE  Told(e, text, calls)'
BY DEF Told, On, Page

\* Events are told when they are sent as before.
LEMMA SendTold ==
  ASSUME NEW e, NEW text, NEW calls, Told(e, text, calls),
         Send(e), protocol' = protocol, NEW f, f = encoder'
  PROVE  Told(f, text, calls)' /\ (wire \in Seq(EventSet))' /\ f.events = <<>> /\ f \in Encoders
         /\ f.next \in Nat \ {0} /\ Len(wire') >= Len(wire)
<1> DEFINE N == Len(calls) + TextItem(text)
           done == Shut(e, N)
<1>1. PICK w : w = wire \o e.events
  OBVIOUS
<1>2. /\ text \in Text /\ calls \in Seq(Text) /\ ~e.failed
      /\ e.textIndex = TextItem(text) /\ e.next = N + 1
      /\ (e.textClosed => calls # <<>>)
      /\ Len(e.calls) = Len(calls) /\ \A k \in 1 .. Len(e.calls) : e.calls[k].closed
      /\ e \in Encoders /\ wire \in Seq(EventSet)
      /\ Page(w, e.sequence, N, done, text, FlattenSeq(calls))
  BY <1>1 DEF Told, On
<1>3. f = [e EXCEPT !.events = <<>>] /\ wire' = w
  BY <1>1 DEF Send
<1>4. w \in Seq(EventSet)
  BY <1>2 DEF Page
<1>5. /\ f \in Encoders /\ f.text = e.text /\ f.textIndex = e.textIndex
      /\ f.textClosed = e.textClosed /\ f.next = e.next /\ f.calls = e.calls
      /\ f.failed = e.failed /\ f.events = <<>> /\ f.sequence = e.sequence
  <2>1. <<>> \in Seq(EventSet)
    OBVIOUS
  <2> QED BY <1>2, <1>3, <2>1 DEF Encoders
<1>6. Shut(f, N) = done
  BY <1>5 DEF Shut
<1>7. w \o f.events = w
  BY <1>4, <1>5, ConcatEmptySeq
<1>8. Page(w, e.sequence, N, done, text, FlattenSeq(calls))'
  <2> HIDE DEF N, done
  <2> QED BY <1>2 DEF Page
<1> HIDE DEF N, done
<1>9. On(f, N, Shut(f, N), text, FlattenSeq(calls))'
  <2>1. (wire \o f.events)' = w
    BY <1>3, <1>7
  <2>2. (wire \in Seq(EventSet))'
    BY <1>3, <1>4
  <2> QED BY <1>5, <1>6, <1>8, <2>1, <2>2 DEF On
<1>10. Told(f, text, calls)'
  BY <1>2, <1>5, <1>9 DEF Told, N
<1>11. N \in Nat /\ Len(w) \in Nat /\ Len(w) >= Len(wire)
  <2>1. Len(calls) \in Nat /\ TextItem(text) \in Nat
    BY <1>2, LenProperties DEF TextItem
  <2>2. e.events \in Seq(EventSet)
    BY <1>2 DEF Encoders
  <2> DEFINE es == e.events
  <2> HIDE DEF es
  <2>3. Len(wire \o es) = Len(wire) + Len(es) /\ Len(es) \in Nat /\ Len(wire) \in Nat
    BY <1>2, <2>2, Joined, LenProperties DEF es
  <2> QED BY <1>1, <1>4, <2>1, <2>3, LenProperties DEF N, es
<1>12. f.next \in Nat \ {0}
  BY <1>2, <1>5, <1>11
<1> QED BY <1>3, <1>4, <1>5, <1>10, <1>11, <1>12

\* What the filters still hold when the model stops: what they make of it is
\* told, up to where the parser breaks, if it does.
LEMMA RestTold ==
  ASSUME protocol \in Protocols, ThinkOK(think), StopOK(stop, seen), ParserOK(parser, seen),
         ~parser.error, Told(encoder, parser.text, parser.calls), Pend(parser)
  PROVE  LET rest == Rest
             e == Deltas(encoder, rest.deltas)
             w == seen \o rest.text
         IN /\ w \in Text /\ Clean(w) /\ Pend(rest.parser) /\ IsPrefix(seen, w)
            /\ \E text, calls : Told(e, text, calls) /\ IsPrefix(text, w)
            /\ rest.ok => Told(e, rest.parser.text, rest.parser.calls)
                          /\ IsPrefix(rest.parser.text, w)
<1> DEFINE x == ThinkFinish(think)
           s == StopPush(stop, x)
           p1 == ParserPush(parser, s.out)
           p2 == ParserPush(p1, s.pending)
           p3 == ParserFinish(p2)
           v == seen \o s.out
           w == v \o s.pending
           rest == Rest
           ds == rest.deltas
           e == Deltas(encoder, ds)
<1>1. /\ rest.text = s.out \o s.pending /\ rest.parser = p3
      /\ rest.ok = (~p1.error /\ ~p2.error /\ ~p3.error)
  BY DEF Rest
<1>2. /\ (p1.error => ds = <<>>) /\ (~p1.error /\ p2.error => ds = p1.deltas)
      /\ (~p1.error /\ ~p2.error /\ p3.error => ds = p1.deltas \o p2.deltas)
      /\ (~p1.error /\ ~p2.error /\ ~p3.error => ds = (p1.deltas \o p2.deltas) \o p3.deltas)
  BY DEF Rest
<1>3. x \in Text /\ seen \in Text
  <2>1. <<>> \in Text
    BY DEF Text
  <2> QED BY <2>1 DEF ThinkFinish, ThinkOK, StopOK
<1> HIDE DEF x
<1>4. StopOK(s, v)
  BY <1>3, StopPushOK
<1> HIDE DEF s
<1>5. s.out \in Text /\ s.pending \in Text /\ v \in Text /\ Clean(w)
  BY <1>4 DEF StopOK
<1>6. w \in Text /\ seen \o rest.text = w /\ IsPrefix(seen, v) /\ IsPrefix(seen, w) /\ IsPrefix(v, w)
  <2> DEFINE a == s.out
             b == s.pending
  <2>1. a \in Text /\ b \in Text
    BY <1>5
  <2> HIDE DEF a, b
  <2>2. seen \o (a \o b) = (seen \o a) \o b
    BY <1>3, <2>1, JoinThree
  <2>3. IsPrefix(seen, seen \o a)
    BY <1>3, <2>1, PrefixJoin
  <2> DEFINE u == seen \o a
  <2>4. u \in Text
    BY <1>5 DEF a
  <2> HIDE DEF u
  <2>5. IsPrefix(seen, u \o b) /\ IsPrefix(u, u \o b)
    BY <1>3, <2>1, <2>3, <2>4, PrefixJoin DEF u
  <2>6. u \o b \in Text
    BY <2>1, <2>4, ConcatProperties DEF Text
  <2> QED BY <1>1, <2>2, <2>3, <2>5, <2>6 DEF u, a, b
<1>7. encoder \in Encoders /\ <<>> \in Seq(DeltaSet) /\ Deltas(encoder, <<>>) = encoder
  <2>1. encoder \in Encoders /\ <<>> \in Seq(DeltaSet)
    BY DEF Told, On
  <2> QED BY <2>1, DeltasAre
<1>8. ParserTold(p1, v, encoder) /\ Pend(p1)
  BY <1>5, <1>7, PushTold
<1> HIDE DEF p1, e, ds, v, w, rest
<1>9. p1 \in Parsers /\ ParserOK(p1, v) /\ p1.deltas \in Seq(DeltaSet) /\ IsPrefix(p1.text, v) /\ p1.text \in Text
  BY <1>8 DEF ParserTold, ParserOK, Parsers
<1> DEFINE e1 == Deltas(encoder, p1.deltas)
<1>10. e1 \in Encoders
  BY <1>7, <1>9, DeltasAre
<1>11. CASE p1.error
  <2>1. ParserOK(p2, v) /\ p2.error
    BY <1>7, <1>9, <1>11, BrokenStays
  <2> HIDE DEF p2
  <2>2. p3.error
    BY <1>7, <2>1, BrokenStays
  <2>3. e = encoder
    BY <1>2, <1>7, <1>11 DEF e
  <2>4. Told(e, parser.text, parser.calls)
    BY <2>3
  <2>5. IsPrefix(parser.text, w)
    <3>1. parser.text \in Text /\ IsPrefix(parser.text, seen)
      BY DEF ParserOK, Parsers
    <3> DEFINE t == parser.text
               y == s.out \o s.pending
    <3>2. y \in Text /\ t \in Text /\ IsPrefix(t, seen)
      BY <1>5, <3>1, ConcatProperties DEF Text
    <3> HIDE DEF t, y
    <3>3. IsPrefix(t, seen \o y)
      BY <1>3, <3>2, PrefixJoin
    <3> QED BY <1>1, <1>6, <3>3 DEF t, y, rest
  <2>6. Pend(p3)
    BY <2>2 DEF Pend
  <2> QED BY <1>1, <1>5, <1>6, <2>2, <2>4, <2>5, <2>6 DEF rest, e, ds, w, v
<1>12. CASE ~p1.error
  <2>1. Told(e1, p1.text, p1.calls)
    BY <1>8, <1>12 DEF ParserTold
  <2>2. ParserTold(p2, w, e1) /\ Pend(p2)
    <3> HIDE DEF e1
    <3> QED BY <1>5, <1>8, <1>9, <1>10, <1>12, <2>1, PushTold DEF w
  <2> HIDE DEF p2
  <2>3. p2 \in Parsers /\ ParserOK(p2, w) /\ p2.deltas \in Seq(DeltaSet) /\ IsPrefix(p2.text, w)
    BY <2>2 DEF ParserTold, ParserOK, Parsers
  <2> DEFINE d1 == p1.deltas
             d2 == p2.deltas
             e2 == Deltas(encoder, d1 \o d2)
  <2>4. e2 = Deltas(e1, d2) /\ d1 \o d2 \in Seq(DeltaSet) /\ e2 \in Encoders
    <3>1. d1 \in Seq(DeltaSet) /\ d2 \in Seq(DeltaSet)
      BY <1>9, <2>3
    <3>2. Deltas(encoder, d1 \o d2) = Deltas(Deltas(encoder, d1), d2)
      <4> HIDE DEF d1, d2
      <4> QED BY <1>7, <3>1, DeltasJoin
    <3>3. d1 \o d2 \in Seq(DeltaSet)
      <4> HIDE DEF d1, d2
      <4> QED BY <3>1, ConcatProperties
    <3> DEFINE d == d1 \o d2
    <3>4. d \in Seq(DeltaSet)
      BY <3>3
    <3> HIDE DEF d
    <3>5. Deltas(encoder, d) \in Encoders
      BY <1>7, <3>4, DeltasAre
    <3> QED BY <3>2, <3>3, <3>5 DEF d
  <2>5. CASE p2.error
    <3>1. p3.error
      BY <1>10, <2>3, <2>5, BrokenStays
    <3>2. e = e1
      BY <1>2, <1>12, <2>5 DEF e
    <3>3. Told(e, p1.text, p1.calls)
      BY <2>1, <3>2
    <3>4. IsPrefix(p1.text, w)
      <4> DEFINE t == p1.text
                 b == s.pending
      <4>1. t \in Text /\ b \in Text /\ v \in Text /\ IsPrefix(t, v)
        BY <1>5, <1>9 DEF v
      <4> HIDE DEF t, b
      <4>2. IsPrefix(t, v \o b)
        BY <4>1, PrefixJoin
      <4> QED BY <4>2 DEF t, b, w
    <3>5. Pend(p3)
      BY <3>1 DEF Pend
    <3> HIDE DEF p3
    <3> QED BY <1>1, <1>5, <1>6, <3>1, <3>3, <3>4, <3>5 DEF rest, e, ds, w, v
  <2>6. CASE ~p2.error
    <3>1. Told(e2, p2.text, p2.calls)
      BY <2>2, <2>4, <2>6 DEF ParserTold
    <3>2. ParserTold(p3, w, e2) /\ (p3.error \/ p3.pending = <<>>)
      <4> HIDE DEF e2
      <4> QED BY <2>2, <2>3, <2>4, <2>6, <3>1, EndingTold
    <3> HIDE DEF p3
    <3>3. Pend(p3)
      BY <3>2, NothingHeld DEF Pend
    <3>4. CASE p3.error
      <4>1. e = e2
        BY <1>2, <1>12, <2>6, <3>4 DEF e
      <4>2. Told(e, p2.text, p2.calls) /\ IsPrefix(p2.text, w)
        BY <2>3, <3>1, <4>1
      <4> QED BY <1>1, <1>5, <1>6, <3>3, <3>4, <4>2 DEF rest, e, ds, w, v
    <3>5. CASE ~p3.error
      <4> DEFINE d == d1 \o d2
                 d3 == p3.deltas
      <4>1. d \in Seq(DeltaSet) /\ d3 \in Seq(DeltaSet) /\ ds = d \o d3
        BY <1>2, <1>12, <2>4, <2>6, <3>2, <3>5 DEF ParserTold, ParserOK, Parsers
      <4>2. Deltas(encoder, d \o d3) = Deltas(Deltas(encoder, d), d3)
        <5> HIDE DEF d, d3
        <5> QED BY <1>7, <4>1, DeltasJoin
      <4>3. e = Deltas(e2, d3)
        <5> HIDE DEF d3, d1, d2
        <5> QED BY <4>1, <4>2 DEF e
      <4>4. Told(e, p3.text, p3.calls) /\ IsPrefix(p3.text, w)
        BY <3>2, <3>5, <4>3 DEF ParserTold, ParserOK
      <4> QED BY <1>1, <1>5, <1>6, <3>3, <4>4 DEF rest, e, ds, w, v
    <3> QED BY <3>4, <3>5
  <2> QED BY <2>5, <2>6
<1> QED BY <1>11, <1>12

\* What the filters and the encoder hold, in every state.
StreamTypes ==
  /\ protocol \in Protocols /\ phase \in {"generating", "stopped", "broken", "ended"}
  /\ fed \in 0 .. MaxChunks /\ ThinkOK(think)
  /\ stop.pending \in ProperPrefixes \cup {<<>>} /\ stop.hit \in 0 .. Len(Stops)
  /\ stop.hit # 0 => stop.pending = <<>>
  /\ seen \in Text /\ Clean(seen) /\ Pend(parser)
  /\ encoder \in Encoders /\ encoder.events = <<>> /\ encoder.next \in Nat \ {0}
  /\ wire \in Seq(EventSet) /\ Len(wire) >= 1

\* e has told a text that the parser was given, and some calls.
ToldSeen(e) == \E text, calls : Told(e, text, calls) /\ IsPrefix(text, seen)

\* A stream that has ended.
StreamEnded ==
  /\ outcome.status \in {"completed", "failed", "unstored"}
  /\ Ending(wire, outcome.status) /\ IsPrefix(Texts("text_delta"), seen)
  /\ outcome.status = "completed" =>
       LET N == ItemsOf(outcome.text, outcome.calls) IN
       /\ outcome.text \in Text /\ outcome.calls \in Seq(Text)
       /\ Texts("text_delta") = outcome.text
       /\ Texts("tool_delta") = FlattenSeq(outcome.calls)
       /\ protocol # "Chat" => Items(wire, N, 1 .. N)

\* The client has been told what the parser has made of the text it was given,
\* and the stop filter has let no stop sequence through.
StreamInv ==
  /\ StreamTypes
  /\ phase # "ended" => outcome.status = "none" /\ StopOK(stop, seen) /\ ToldSeen(encoder)
  /\ phase \in {"generating", "stopped"} =>
       /\ ~parser.error /\ ParserOK(parser, seen)
       /\ Told(encoder, parser.text, parser.calls)
  /\ phase = "ended" => StreamEnded

\* The invariant holds at the start.
LEMMA StreamInit == Init => StreamInv
<1> SUFFICES ASSUME Init PROVE StreamInv
  OBVIOUS
<1>1. PICK s \in Settings : protocol = s.protocol /\ parser = NewParser(s.arch, s.choice)
  BY DEF Init
<1>2. /\ protocol \in Protocols /\ s.arch \in {"qwen3", "qwen35", "plain"}
      /\ s.choice \in {"none", "auto", "required", "named"}
  BY <1>1, StreamSettings DEF Protocols
<1>3. /\ phase = "generating" /\ fed = 0 /\ seen = <<>> /\ outcome.status = "none"
      /\ think = Thinking("Unknown", <<>>, <<>>) /\ stop = Stopping(<<>>, 0, <<>>)
  BY DEF Init
<1>4. <<>> \in Text /\ <<>> \in Seq(Text) /\ <<>> \in Seq(DeltaSet) /\ Len(<<>>) = 0
      /\ <<>> \o <<>> = <<>>
  BY DEF Text
<1>5. /\ wire = Start(NewEncoder).events /\ encoder = [Start(NewEncoder) EXCEPT !.events = <<>>]
  BY DEF Init
<1>6. /\ Told(encoder, <<>>, <<>>) /\ encoder \in Encoders /\ encoder.events = <<>>
      /\ wire \in Seq(EventSet) /\ Len(wire) >= 1
  BY <1>2, <1>5, StartTold
<1>7. encoder.next \in Nat \ {0}
  BY <1>6 DEF Told, TextItem
<1>8. ThinkOK(think)
  BY <1>3, <1>4, ThinkingOK, NothingTrimmed
<1>9. Clean(<<>>)
  <2> SUFFICES ASSUME NEW i \in DOMAIN Stops PROVE Finds(<<>>, Stops[i]) = {}
    BY DEF Clean
  <2> DEFINE y == <<>>
             x == Stops[i]
  <2>1. x \in Seq(Symbols) /\ Len(x) \in Nat \ {0} /\ y \in Seq(Symbols) /\ Len(y) = 0
    BY StopIs
  <2> HIDE DEF x, y
  <2>2. Finds(y, x) \subseteq 0 .. Len(y) - Len(x)
    BY <2>1, FindsAt
  <2>3. Finds(y, x) = {}
    BY <2>1, <2>2
  <2> QED BY <2>3 DEF x, y
<1>10. StopOK(stop, <<>>)
  <2>1. /\ stop \in [pending : Text, hit : 0 .. Len(Stops), out : Text] /\ stop.pending = <<>>
        /\ stop.hit = 0
    <3>1. 0 \in 0 .. Len(Stops)
      <4>1. Stops \in Seq(Text \ {<<>>})
        BY FilterConstants
      <4>2. Len(Stops) \in Nat
        BY <4>1, LenProperties
      <4> QED BY <4>2
    <3> QED BY <1>3, <1>4, <3>1 DEF Stopping
  <2> HIDE DEF Clean
  <2> QED BY <1>4, <1>9, <2>1 DEF StopOK
<1>11. /\ parser \in Parsers /\ ~parser.error /\ parser.pending = <<>> /\ parser.text = <<>>
       /\ parser.calls = <<>> /\ parser.scan = 0 /\ ~parser.inCall
  BY <1>1, <1>2, <1>4 DEF NewParser, Parsers
<1>12. IsPrefix(<<>>, <<>>)
  BY <1>4, PrefixJoin
<1>13. ParserOK(parser, <<>>)
  BY <1>4, <1>11, <1>12 DEF ParserOK
<1>14. Pend(parser)
  BY <1>11, NothingHeld
<1>15. 0 \in 0 .. MaxChunks
  BY StreamSettings
<1>16. StreamTypes
  BY <1>2, <1>3, <1>4, <1>6, <1>7, <1>8, <1>9, <1>10, <1>14, <1>15 DEF StreamTypes, StopOK
<1>17. ToldSeen(encoder)
  BY <1>3, <1>6, <1>12 DEF ToldSeen
<1> QED BY <1>3, <1>6, <1>10, <1>11, <1>13, <1>16, <1>17 DEF StreamInv

\* A step that does nothing keeps the invariant.
LEMMA StreamStutters == StreamInv /\ UNCHANGED vars => StreamInv'
<1> SUFFICES ASSUME StreamInv, UNCHANGED vars PROVE StreamInv'
  OBVIOUS
<1> USE DEF vars
<1>1. StreamTypes'
  BY DEF StreamInv, StreamTypes, ThinkOK, Clean, Pend
<1>2. phase # "ended" => (outcome.status = "none" /\ StopOK(stop, seen))'
  BY DEF StreamInv, StopOK, Clean
<1>3. ASSUME phase # "ended" PROVE ToldSeen(encoder)'
  <2>1. PICK text, calls : Told(encoder, text, calls) /\ IsPrefix(text, seen)
    BY <1>3 DEF StreamInv, ToldSeen
  <2>2. Told(encoder, text, calls)'
    BY <2>1, ToldStays
  <2> QED BY <2>1, <2>2 DEF ToldSeen
<1>4. ASSUME phase \in {"generating", "stopped"}
      PROVE  (~parser.error /\ ParserOK(parser, seen) /\ Told(encoder, parser.text, parser.calls))'
  <2>1. ~parser.error /\ ParserOK(parser, seen) /\ Told(encoder, parser.text, parser.calls)
    BY <1>4 DEF StreamInv
  <2>2. Told(encoder, parser.text, parser.calls)'
    BY <2>1, ToldStays
  <2> QED BY <2>1, <2>2 DEF ParserOK
<1>5. ASSUME phase = "ended" PROVE StreamEnded'
  BY <1>5 DEF StreamInv, StreamEnded, Ending, Terminal, Texts
<1> QED BY <1>1, <1>2, <1>3, <1>4, <1>5 DEF StreamInv

\* A chunk keeps the invariant.
LEMMA StreamToken == StreamInv /\ (\E chunk \in Chunks : OnToken(chunk)) => StreamInv'
<1> SUFFICES ASSUME StreamInv, NEW chunk \in Chunks, OnToken(chunk) PROVE StreamInv'
  OBVIOUS
<1>1. /\ StreamTypes /\ phase = "generating" /\ outcome.status = "none" /\ StopOK(stop, seen)
      /\ ~parser.error /\ ParserOK(parser, seen) /\ Told(encoder, parser.text, parser.calls)
      /\ protocol \in Protocols /\ ThinkOK(think) /\ Pend(parser) /\ encoder \in Encoders
      /\ chunk \in Text /\ seen \in Text
  BY StreamSettings DEF StreamInv, StreamTypes, OnToken
<1>2. PICK t : t = think'
  OBVIOUS
<1>3. PICK s : s = stop'
  OBVIOUS
<1>4. PICK q : q = parser'
  OBVIOUS
<1>5. PICK w : w = seen'
  OBVIOUS
<1>6. PICK e : e = Deltas(encoder, q.deltas)
  OBVIOUS
<1>7. PICK f : f = encoder'
  OBVIOUS
<1>8. /\ t = Think(chunk) /\ s = StopPush(stop, t.out) /\ w = seen \o s.out
      /\ q = ParserPush(parser, s.out) /\ fed' = fed + 1 /\ fed < MaxChunks
      /\ phase' \in {"broken", "stopped", "generating"}
      /\ (q.error <=> phase' = "broken")
      /\ protocol' = protocol /\ outcome' = outcome
  BY <1>2, <1>3, <1>4, <1>5 DEF OnToken
<1>9. Send(e)
  BY <1>4, <1>6 DEF OnToken
<1>10. ThinkOK(t) /\ t.out \in Text
  <2>1. CASE parser.arch = "plain"
    <3>1. t = [think EXCEPT !.out = chunk]
      BY <1>8, <2>1 DEF Think
    <3> QED BY <1>1, <3>1 DEF ThinkOK
  <2>2. CASE parser.arch # "plain"
    <3>1. t = ThinkPush(think, chunk)
      BY <1>8, <2>2 DEF Think
    <3>2. ThinkOK(t)
      BY <1>1, <3>1, ThinkPushOK
    <3> QED BY <3>2 DEF ThinkOK
  <2> QED BY <2>1, <2>2
<1>11. StopOK(s, w)
  BY <1>1, <1>8, <1>10, StopPushOK
<1>12. s.out \in Text /\ w \in Text /\ Clean(w)
  BY <1>11 DEF StopOK
<1>13. ParserTold(q, w, encoder) /\ Pend(q)
  BY <1>1, <1>8, <1>12, PushTold
<1>14. ParserOK(q, w) /\ q \in Parsers /\ IsPrefix(q.text, w)
  BY <1>13 DEF ParserTold, ParserOK
<1>15. \E text, calls : Told(e, text, calls) /\ IsPrefix(text, w)
                        /\ (~q.error => text = q.text /\ calls = q.calls)
  <2>1. CASE q.error
    <3>1. e = encoder
      <4>1. q.deltas = <<>> /\ <<>> \in Seq(DeltaSet)
        BY <1>13, <2>1 DEF ParserTold
      <4>2. Deltas(encoder, <<>>) = encoder
        BY <1>1, <4>1, DeltasAre
      <4> QED BY <1>6, <4>1, <4>2
    <3>2. IsPrefix(parser.text, w)
      <4> DEFINE x == parser.text
                 y == s.out
      <4>1. x \in Text /\ y \in Text /\ IsPrefix(x, seen)
        BY <1>1, <1>12 DEF ParserOK, Parsers
      <4> HIDE DEF x, y
      <4>2. IsPrefix(x, seen \o y)
        BY <1>1, <4>1, PrefixJoin
      <4> QED BY <1>8, <4>2 DEF x, y
    <3> QED BY <1>1, <2>1, <3>1, <3>2
  <2>2. CASE ~q.error
    BY <1>6, <1>13, <1>14, <2>2 DEF ParserTold
  <2> QED BY <2>1, <2>2
<1>16. PICK text, calls : /\ Told(e, text, calls) /\ IsPrefix(text, w)
                          /\ (~q.error => text = q.text /\ calls = q.calls)
  BY <1>15
<1>17. /\ Told(f, text, calls)' /\ (wire \in Seq(EventSet))' /\ f.events = <<>> /\ f \in Encoders
       /\ f.next \in Nat \ {0} /\ Len(wire') >= Len(wire)
  BY <1>7, <1>8, <1>9, <1>16, SendTold
<1>18. Len(wire') >= 1
  BY <1>1, <1>17, LenProperties DEF StreamTypes
<1>19. StreamTypes'
  <2>1. fed' \in 0 .. MaxChunks
    BY <1>1, <1>8, StreamSettings DEF StreamTypes
  <2>2. /\ s.pending \in ProperPrefixes \cup {<<>>} /\ s.hit \in 0 .. Len(Stops)
        /\ (s.hit # 0 => s.pending = <<>>)
    BY <1>11 DEF StopOK
  <2>3. ThinkOK(think)' /\ Clean(seen)' /\ Pend(parser)'
    BY <1>2, <1>4, <1>5, <1>10, <1>12, <1>13 DEF ThinkOK, Clean, Pend
  <2> QED BY <1>1, <1>3, <1>5, <1>7, <1>8, <1>12, <1>17, <1>18, <2>1, <2>2, <2>3 DEF StreamTypes
<1>20. (outcome.status = "none" /\ StopOK(stop, seen) /\ ToldSeen(encoder))'
  <2>1. StopOK(stop, seen)'
    BY <1>3, <1>5, <1>11 DEF StopOK, Clean
  <2>2. Told(encoder, text, calls)'
    BY <1>7, <1>17
  <2> QED BY <1>1, <1>5, <1>8, <1>16, <2>1, <2>2 DEF ToldSeen
<1>21. ASSUME phase' \in {"generating", "stopped"}
       PROVE  (~parser.error /\ ParserOK(parser, seen) /\ Told(encoder, parser.text, parser.calls))'
  <2>1. ~q.error
    BY <1>8, <1>21
  <2>2. Told(encoder, parser.text, parser.calls)'
    BY <1>4, <1>7, <1>16, <1>17, <2>1
  <2> QED BY <1>4, <1>5, <1>14, <2>1, <2>2 DEF ParserOK
<1> QED BY <1>8, <1>19, <1>20, <1>21 DEF StreamInv

\* The end of the stream keeps the invariant, however it ends.
LEMMA StreamFinish == StreamInv /\ (\E stores \in BOOLEAN : Finish(stores)) => StreamInv'
<1> SUFFICES ASSUME StreamInv, NEW stores \in BOOLEAN, Finish(stores) PROVE StreamInv'
  OBVIOUS
<1>1. /\ StreamTypes /\ phase \in {"generating", "stopped"} /\ StopOK(stop, seen)
      /\ ~parser.error /\ ParserOK(parser, seen) /\ Told(encoder, parser.text, parser.calls)
      /\ protocol \in Protocols /\ ThinkOK(think) /\ Pend(parser)
      /\ wire \in Seq(EventSet) /\ Len(wire) >= 1 /\ seen \in Text
  BY DEF StreamInv, StreamTypes, Finish
<1>2. PICK rest : rest = Rest
  OBVIOUS
<1>3. PICK e : e = Deltas(encoder, rest.deltas)
  OBVIOUS
<1>4. PICK w : w = seen \o rest.text
  OBVIOUS
<1>5. /\ w \in Text /\ Clean(w) /\ Pend(rest.parser)
      /\ \E text, calls : Told(e, text, calls) /\ IsPrefix(text, w)
      /\ rest.ok => Told(e, rest.parser.text, rest.parser.calls)
                    /\ IsPrefix(rest.parser.text, w)
  BY <1>1, <1>2, <1>3, <1>4, RestTold
<1>6. PICK f : f = encoder'
  OBVIOUS
<1>7. parser' = rest.parser /\ seen' = w
  BY <1>2, <1>4 DEF Finish
<1>8. /\ \/ ~rest.ok /\ Send(Failure(e)) /\ Conclude("failed")
         \/ /\ rest.ok
            /\ \E limited \in BOOLEAN :
                 \/ Send(EncoderFinish(e, limited)) /\ Conclude("completed")
                 \/ /\ protocol = "Responses"
                    /\ Send(Failure([EncoderFinish(e, limited) EXCEPT !.events = e.events]))
                    /\ Conclude("unstored")
  BY <1>2, <1>3 DEF Finish
<1>9. PICK text, calls : /\ Told(e, text, calls) /\ IsPrefix(text, w)
                         /\ (rest.ok => text = rest.parser.text /\ calls = rest.parser.calls)
  BY <1>5
<1> DEFINE N == Len(calls) + TextItem(text)
           done == Shut(e, N)
           told == FlattenSeq(calls)
<1>10. /\ On(e, N, done, text, told) /\ ~e.failed /\ e.next \in Nat \ {0} /\ e \in Encoders
       /\ text \in Text /\ calls \in Seq(Text)
  <2>1. Len(calls) \in Nat
    BY <1>9, LenProperties DEF Told
  <2> QED BY <1>9, <2>1 DEF Told, On, TextItem
<1> HIDE DEF N, done, told
\* What is left to show of each of the ends: the last events end the stream.
<1>11. ASSUME NEW g \in Encoders, g.next \in Nat \ {0}, Send(g), NEW status, Conclude(status),
              status \in {"completed", "failed", "unstored"},
              Ending(wire \o g.events, status), Said(wire \o g.events, "text_delta") = text,
              status = "completed" =>
                LET M == ItemsOf(text, calls)
                    v == wire \o g.events
                IN /\ text = rest.parser.text /\ calls = rest.parser.calls
                   /\ Said(v, "tool_delta") = FlattenSeq(calls)
                   /\ protocol # "Chat" => Items(v, M, 1 .. M)
       PROVE  StreamInv'
  <2>1. PICK v : v = wire \o g.events
    OBVIOUS
  <2>2. /\ wire' = v /\ f = [g EXCEPT !.events = <<>>] /\ phase' = "ended" /\ protocol' = protocol
        /\ outcome'.status = status /\ outcome'.text = rest.parser.text
        /\ outcome'.calls = rest.parser.calls
        /\ fed' = fed /\ think' = think /\ stop' = stop
    BY <1>6, <1>7, <1>11, <2>1 DEF Send, Conclude
  <2>3. /\ Ending(v, status) /\ Said(v, "text_delta") = text /\ v \in Seq(EventSet) /\ Len(v) >= 1
    BY <1>11, <2>1 DEF Ending
  <2>4. f \in Encoders /\ f.events = <<>> /\ f.next \in Nat \ {0}
    <3>1. <<>> \in Seq(EventSet)
      OBVIOUS
    <3> QED BY <1>11, <2>2, <3>1 DEF Encoders
  <2>5. StreamTypes'
    <3>1. ThinkOK(think)' /\ Clean(seen)' /\ Pend(parser)'
      BY <1>1, <1>5, <1>7, <2>2 DEF ThinkOK, Clean, Pend
    <3> QED BY <1>1, <1>5, <1>6, <1>7, <2>2, <2>3, <2>4, <3>1 DEF StreamTypes
  <2>6. Ending(wire, outcome.status)'
    BY <2>2, <2>3 DEF Ending, Terminal
  <2>7. StreamEnded'
    BY <1>7, <1>9, <1>10, <1>11, <2>1, <2>2, <2>3, <2>6 DEF StreamEnded, Texts
  <2> QED BY <2>2, <2>5, <2>7 DEF StreamInv
<1>12. CASE ~rest.ok /\ Send(Failure(e)) /\ Conclude("failed")
  <2> DEFINE g == Failure(e)
  <2>1. /\ g \in Encoders /\ g.next = e.next /\ Ending(wire \o g.events, "failed")
        /\ Said(wire \o g.events, "text_delta") = text
    BY <1>1, <1>10, FailureEnds
  <2> HIDE DEF g
  <2> QED BY <1>10, <1>11, <1>12, <2>1 DEF g
<1>13. ASSUME rest.ok, NEW limited \in BOOLEAN,
              Send(EncoderFinish(e, limited)), Conclude("completed")
       PROVE  StreamInv'
  <2> DEFINE g == EncoderFinish(e, limited)
  <2>1. /\ g \in Encoders /\ g.next \in Nat \ {0} /\ Ending(wire \o g.events, "completed")
        /\ Said(wire \o g.events, "text_delta") = text
        /\ Said(wire \o g.events, "tool_delta") = FlattenSeq(calls)
        /\ (protocol # "Chat" =>
              Items(wire \o g.events, ItemsOf(text, calls), 1 .. ItemsOf(text, calls)))
    BY <1>1, <1>9, FinishEnds
  <2> HIDE DEF g
  <2>2. Send(g) /\ Conclude("completed")
    BY <1>13 DEF g
  <2> QED BY <1>9, <1>11, <1>13, <2>1, <2>2
<1>14. ASSUME rest.ok, NEW limited \in BOOLEAN, protocol = "Responses",
              Send(Failure([EncoderFinish(e, limited) EXCEPT !.events = e.events])),
              Conclude("unstored")
       PROVE  StreamInv'
  <2> DEFINE h == EncoderFinish(e, limited)
             k == [h EXCEPT !.events = e.events]
             g == Failure(k)
  <2>1. h \in Encoders /\ h.next \in Nat \ {0} /\ ~h.failed /\ h.sequence >= e.sequence
    BY <1>1, <1>9, FinishEnds
  <2> HIDE DEF h
  <2>2. /\ k \in Encoders /\ k.next = h.next /\ ~k.failed /\ k.sequence = h.sequence
        /\ k.events = e.events
    BY <1>10, <2>1 DEF Encoders
  <2> HIDE DEF k
  <2>3. /\ g \in Encoders /\ g.next = k.next /\ Ending(wire \o g.events, "unstored")
        /\ Said(wire \o g.events, "text_delta") = text
    BY <1>1, <1>10, <1>14, <2>1, <2>2, FailureEnds
  <2>4. Send(g) /\ Conclude("unstored")
    BY <1>14 DEF g, k, h
  <2> HIDE DEF g
  <2> QED BY <1>9, <1>11, <2>1, <2>2, <2>3, <2>4
<1> QED BY <1>8, <1>12, <1>13, <1>14

\* A failure keeps the invariant.
LEMMA StreamFail == StreamInv /\ Fail => StreamInv'
<1> SUFFICES ASSUME StreamInv, Fail PROVE StreamInv'
  OBVIOUS
<1>1. /\ StreamTypes /\ phase # "ended" /\ ToldSeen(encoder) /\ protocol \in Protocols
      /\ wire \in Seq(EventSet) /\ Len(wire) >= 1
  BY DEF StreamInv, StreamTypes, Fail
<1>2. PICK text, calls : Told(encoder, text, calls) /\ IsPrefix(text, seen)
  BY <1>1 DEF ToldSeen
<1>3. PICK g : g = Failure(encoder)
  OBVIOUS
<1>4. /\ g \in Encoders /\ g.next = encoder.next /\ Ending(wire \o g.events, "failed")
      /\ Said(wire \o g.events, "text_delta") = text
  <2> DEFINE N == Len(calls) + TextItem(text)
             done == Shut(encoder, N)
             told == FlattenSeq(calls)
  <2>1. On(encoder, N, done, text, told) /\ ~encoder.failed /\ encoder \in Encoders
    BY <1>2 DEF Told, On
  <2> HIDE DEF N, done, told
  <2> QED BY <1>1, <1>3, <2>1, FailureEnds
<1>5. PICK v : v = wire \o g.events
  OBVIOUS
<1>6. PICK f : f = encoder'
  OBVIOUS
<1>7. /\ wire' = v /\ f = [g EXCEPT !.events = <<>>] /\ phase' = "ended" /\ protocol' = protocol
      /\ outcome'.status = "failed" /\ fed' = fed /\ think' = think /\ stop' = stop
      /\ parser' = parser /\ seen' = seen
  BY <1>3, <1>5, <1>6 DEF Fail, Send, Conclude
<1>8. /\ Ending(v, "failed") /\ Said(v, "text_delta") = text /\ v \in Seq(EventSet)
      /\ Len(v) >= 1
  BY <1>4, <1>5 DEF Ending
<1>9. f \in Encoders /\ f.events = <<>> /\ f.next \in Nat \ {0}
  <2>1. <<>> \in Seq(EventSet)
    OBVIOUS
  <2> QED BY <1>1, <1>4, <1>7, <2>1 DEF Encoders, StreamTypes
<1>10. StreamTypes'
  <2>1. ThinkOK(think)' /\ Clean(seen)' /\ Pend(parser)'
    BY <1>1, <1>7 DEF StreamTypes, ThinkOK, Clean, Pend
  <2> QED BY <1>1, <1>6, <1>7, <1>8, <1>9, <2>1 DEF StreamTypes
<1>11. Ending(wire, outcome.status)'
  BY <1>7, <1>8 DEF Ending, Terminal
<1>12. StreamEnded'
  BY <1>2, <1>7, <1>8, <1>11 DEF StreamEnded, Texts
<1> QED BY <1>7, <1>10, <1>12 DEF StreamInv

\* The invariant holds in every state.
THEOREM StreamInvariant == Spec => []StreamInv
<1>1. StreamInv /\ [Next]_vars => StreamInv'
  BY StreamStutters, StreamToken, StreamFinish, StreamFail DEF Next
<1> QED BY <1>1, StreamInit, PTL DEF Spec

\* Each filter holds the start of what it looks for, and no more.
THEOREM StreamTypesOK == Spec => []TypeOK
<1>1. StreamInv => TypeOK
  BY DEF StreamInv, StreamTypes, TypeOK, ThinkOK, Pend
<1> QED BY <1>1, StreamInvariant, PTL

\* The client gets the text that passed the stop filter, from its beginning: no
\* stop sequence is in it, however the model's text was cut into chunks.
THEOREM StreamStops == Spec => []NoStopReachesClient
<1>1. StreamInv => NoStopReachesClient
  <2> SUFFICES ASSUME StreamInv, NEW s \in ToSet(Stops) PROVE Finds(Texts("text_delta"), s) = {}
    BY DEF NoStopReachesClient
  <2> DEFINE t == Texts("text_delta")
  <2>1. PICK i \in DOMAIN Stops : s = Stops[i]
    BY DEF ToSet
  <2>2. wire \in Seq(EventSet) /\ seen \in Text /\ Clean(seen)
    BY DEF StreamInv, StreamTypes
  <2>3. t \in Text
    <3>1. t = Heard(wire, "text_delta")[Len(wire)]
      BY DEF Texts, Said, Heard
    <3>2. Len(wire) \in 0 .. Len(wire)
      BY <2>2, LenProperties
    <3> HIDE DEF t
    <3> QED BY <2>2, <3>1, <3>2, HeardIs DEF Text
  <2>4. IsPrefix(t, seen)
    <3>1. CASE phase = "ended"
      BY <3>1 DEF StreamInv, StreamEnded
    <3>2. CASE phase # "ended"
      <4>1. PICK text, calls : Told(encoder, text, calls) /\ IsPrefix(text, seen)
        BY <3>2 DEF StreamInv, ToldSeen
      <4>2. encoder.events = <<>>
        BY DEF StreamInv, StreamTypes
      <4>3. text = Said(wire \o encoder.events, "text_delta")
        BY <4>1 DEF Told, On, Page
      <4>4. wire \o <<>> = wire
        BY <2>2, ConcatEmptySeq
      <4> QED BY <4>1, <4>2, <4>3, <4>4 DEF Texts
    <3> QED BY <3>1, <3>2
  <2> HIDE DEF t
  <2>5. t \in Seq(Symbols) /\ seen \in Seq(Symbols) /\ s \in Seq(Symbols) /\ Len(t) \in Nat
        /\ Len(s) \in Nat /\ Len(seen) \in Nat
    BY <2>1, <2>2, <2>3, StopIs, LenProperties DEF Text
  <2>6. Len(t) <= Len(seen) /\ \A k \in 1 .. Len(t) : t[k] = seen[k]
    BY <2>4, <2>5, PrefixAt
  <2>7. ASSUME NEW n \in Finds(t, s) PROVE FALSE
    <3>1. n \in 0 .. Len(t) - Len(s) /\ \A k \in 1 .. Len(s) : t[n + k] = s[k]
      BY <2>5, <2>7, FoundAt
    <3>2. n \in 0 .. Len(seen) - Len(s)
      BY <2>5, <2>6, <3>1
    <3>3. \A k \in 1 .. Len(s) : seen[n + k] = s[k]
      <4> SUFFICES ASSUME NEW k \in 1 .. Len(s) PROVE seen[n + k] = s[k]
        OBVIOUS
      <4>1. n + k \in 1 .. Len(t)
        BY <2>5, <3>1
      <4> QED BY <2>6, <3>1, <4>1
    <3>4. n \in Finds(seen, s)
      BY <2>5, <3>2, <3>3, FindsAt
    <3> QED BY <2>1, <2>2, <3>4 DEF Clean
  <2> QED BY <2>7 DEF t
<1> QED BY <1>1, StreamInvariant, PTL

\* A stream that ends well has told the whole result: every item opened in
\* order, once, with its parts before its close, and the texts joined make up
\* the result's.
THEOREM StreamTells == Spec => []StreamTellsResult
<1>1. StreamInv => StreamTellsResult
  <2> SUFFICES ASSUME StreamInv, outcome.status = "completed" PROVE StreamTellsResult
    BY DEF StreamTellsResult
  <2> DEFINE N == ItemsOf(outcome.text, outcome.calls)
             Of(type, n) == {i \in DOMAIN wire : wire[i].type = type /\ wire[i].index = n}
  <2>1. phase = "ended"
    BY DEF StreamInv
  <2>2. /\ Texts("text_delta") = outcome.text /\ Texts("tool_delta") = FlattenSeq(outcome.calls)
        /\ (protocol # "Chat" => Items(wire, N, 1 .. N)) /\ wire \in Seq(EventSet)
    BY <2>1 DEF StreamInv, StreamEnded, StreamTypes
  <2>3. N = Len(outcome.calls) + IF outcome.text # <<>> \/ outcome.calls = <<>> THEN 1 ELSE 0
    BY DEF ItemsOf
  <2>4. DOMAIN wire = 1 .. Len(wire)
    BY <2>2, LenProperties
  <2> HIDE DEF N
  <2>5. ASSUME protocol # "Chat", NEW n \in 1 .. N
        PROVE  \E i, j \in DOMAIN wire :
                 /\ i < j /\ Of("open", n) = {i} /\ Of("close", n) = {j}
                 /\ Of("text_delta", n) \cup Of("tool_delta", n) \subseteq i .. j
    <3>1. Opened(wire, n) /\ Closed(wire, n)
      BY <2>2, <2>5 DEF Items
    <3>2. PICK i \in 1 .. Len(wire) :
            /\ Is(wire, i, "open", n) /\ \A k \in 1 .. Len(wire) : Is(wire, k, "open", n) => k = i
            /\ \A k \in 1 .. Len(wire) : Follows(wire, k, n) => i <= k
      BY <3>1 DEF Opened
    <3>3. PICK j \in 1 .. Len(wire) :
            /\ Is(wire, j, "close", n) /\ \A k \in 1 .. Len(wire) : Is(wire, k, "close", n) => k = j
            /\ \A k \in 1 .. Len(wire) : IsPart(wire, k, n) => k <= j
      BY <3>1 DEF Closed
    <3>4. i < j
      <4>1. i <= j
        BY <3>2, <3>3 DEF Follows
      <4>2. i # j
        BY <3>2, <3>3 DEF Is
      <4> QED BY <4>1, <4>2
    <3>5. Of("open", n) = {i} /\ Of("close", n) = {j}
      BY <2>4, <3>2, <3>3 DEF Is
    <3>6. ASSUME NEW k \in Of("text_delta", n) \cup Of("tool_delta", n) PROVE k \in i .. j
      <4>1. k \in 1 .. Len(wire) /\ IsPart(wire, k, n)
        BY <2>4, <3>6 DEF IsPart, Parts
      <4>2. i <= k /\ k <= j
        BY <3>2, <3>3, <4>1 DEF Follows
      <4> QED BY <4>1, <4>2
    <3> HIDE DEF Of
    <3> QED BY <2>4, <3>4, <3>5, <3>6
  <2>6. ASSUME protocol # "Chat"
        PROVE  /\ \A i \in DOMAIN wire :
                    wire[i].type \in {"open", "close", "text_delta", "tool_delta"} =>
                      wire[i].index \in 1 .. N
               /\ \A i, j \in DOMAIN wire :
                    wire[i].type = "open" /\ wire[j].type = "open" /\ i < j =>
                      wire[i].index < wire[j].index
    BY <2>2, <2>4, <2>6 DEF Items, ItemTypes
  <2> QED BY <2>2, <2>3, <2>5, <2>6 DEF StreamTellsResult
<1> QED BY <1>1, StreamInvariant, PTL

\* A stream ends with one terminal event, the one that fits its outcome, and a
\* Responses client can count on the numbers of its events.
THEOREM StreamEnds == Spec => []StreamEndsOnce
<1>1. StreamInv => StreamEndsOnce
  <2> SUFFICES ASSUME StreamInv PROVE StreamEndsOnce
    OBVIOUS
  <2>1. wire \in Seq(EventSet) /\ DOMAIN wire = 1 .. Len(wire) /\ Len(wire) \in Nat
    BY LenProperties DEF StreamInv, StreamTypes
  <2>2. CASE phase = "ended"
    <3>1. Ending(wire, outcome.status)
      BY <2>2 DEF StreamInv, StreamEnded
    <3> QED BY <2>1, <3>1 DEF Ending, StreamEndsOnce
  <2>3. CASE phase # "ended"
    <3>1. PICK text, calls : Told(encoder, text, calls)
      BY <2>3 DEF StreamInv, ToldSeen
    <3>2. wire \o encoder.events = wire
      <4>1. wire \o <<>> = wire
        BY <2>1, ConcatEmptySeq
      <4> QED BY <4>1 DEF StreamInv, StreamTypes
    <3>3. /\ \A i \in 1 .. Len(wire) : wire[i].type \notin EndingTypes
          /\ protocol = "Responses" => \A i \in 1 .. Len(wire) : wire[i].number = i - 1
      BY <3>1, <3>2 DEF Told, On, Page
    <3>4. \A i \in 1 .. Len(wire) - 1 : wire[i].type \notin Terminal
      BY <2>1, <3>3, TerminalTypes
    <3>5. ASSUME protocol = "Responses", NEW i \in 1 .. Len(wire)
          PROVE  /\ i = 1 => wire[i].number = 0
                 /\ i > 1 => wire[i].number = wire[i - 1].number + 1
      <4>1. wire[i].number = i - 1
        BY <3>3, <3>5
      <4>2. i > 1 => i - 1 \in 1 .. Len(wire) /\ wire[i - 1].number = (i - 1) - 1
        BY <2>1, <3>3, <3>5
      <4> QED BY <4>1, <4>2
    <3> QED BY <2>1, <2>3, <3>4, <3>5 DEF StreamEndsOnce
  <2> QED BY <2>2, <2>3
<1> QED BY <1>1, StreamInvariant, PTL

\* The parser has made of its text what it would have made of it in one piece.
LEMMA WholeInit == Init => ParsedAsWhole
<1> SUFFICES ASSUME Init PROVE ParsedAsWhole
  OBVIOUS
<1>1. PICK s \in Settings : parser = NewParser(s.arch, s.choice)
  BY DEF Init
<1>2. /\ s.arch \in {"qwen3", "qwen35", "plain"} /\ seen = <<>>
      /\ s.choice \in {"none", "auto", "required", "named"}
  BY StreamSettings DEF Init
<1>3. PICK p : p = parser
  OBVIOUS
<1>4. /\ p = NewParser(p.arch, p.choice) /\ Sound(p)
      /\ p.pending = <<>> /\ ~p.error /\ ~p.inCall
  <2>1. <<>> \in Text /\ <<>> \in Seq(Text) /\ <<>> \in Seq(DeltaSet) /\ Len(<<>>) = 0
    BY DEF Text
  <2> QED BY <1>1, <1>2, <1>3, <2>1 DEF NewParser, Sound, Parsers
<1>5. Same(p, ParserPush(p, <<>>))
  BY <1>4, NothingPushed, SameSame
<1> QED BY <1>2, <1>3, <1>4, <1>5 DEF ParsedAsWhole, Same

\* A chunk keeps it so: cutting the text there makes no difference.
LEMMA WholeToken ==
  ASSUME StreamInv, ParsedAsWhole, NEW chunk \in Chunks, OnToken(chunk)
  PROVE  ParsedAsWhole'
<1>1. /\ phase = "generating" /\ ThinkOK(think) /\ StopOK(stop, seen) /\ ParserOK(parser, seen)
      /\ seen \in Text /\ chunk \in Text
  BY StreamSettings DEF StreamInv, StreamTypes, OnToken
<1>2. PICK p : p = parser
  OBVIOUS
<1>3. PICK t : t = Think(chunk)
  OBVIOUS
<1>4. PICK x : x = StopPush(stop, t.out).out
  OBVIOUS
<1>5. PICK q : q = ParserPush(p, x)
  OBVIOUS
<1>6. PICK new : new = NewParser(p.arch, p.choice)
  OBVIOUS
<1>7. parser' = q /\ seen' = seen \o x
  BY <1>2, <1>3, <1>4, <1>5 DEF OnToken
<1>8. t.out \in Text
  <2>1. CASE parser.arch = "plain"
    BY <1>1, <1>3, <2>1 DEF Think, ThinkOK
  <2>2. CASE parser.arch # "plain"
    <3>1. ThinkOK(t)
      BY <1>1, <1>3, <2>2, ThinkPushOK DEF Think
    <3> QED BY <3>1 DEF ThinkOK
  <2> QED BY <2>1, <2>2
<1>9. x \in Text
  <2>1. StopOK(StopPush(stop, t.out), seen \o x)
    BY <1>1, <1>4, <1>8, StopPushOK
  <2> QED BY <1>4, <2>1 DEF StopOK
<1>10. Sound(p) /\ Sound(new)
  <2>1. Sound(p) /\ p \in Parsers
    BY <1>1, <1>2 DEF ParserOK, Sound
  <2> QED BY <1>6, <2>1, NewSound
<1>11. Same(p, ParserPush(new, seen))
  BY <1>1, <1>2, <1>6 DEF ParsedAsWhole, Same
<1>12. Same(q, ParserPush(new, seen'))
  BY <1>1, <1>5, <1>7, <1>9, <1>10, <1>11, PushOn
<1>13. new = NewParser(q.arch, q.choice)
  BY <1>5, <1>6, <1>9, <1>10, PushSound
<1> QED BY <1>7, <1>12, <1>13 DEF ParsedAsWhole, Same

\* The parser makes of its text what it would make of it in one piece, however
\* the model's text was cut into chunks: what it keeps from push to push (the
\* text pending, how far a call was scanned and whether inside quotes) is enough.
THEOREM StreamParsedAsWhole == Spec => []ParsedAsWhole
<1>1. StreamInv /\ ParsedAsWhole /\ [Next]_vars => ParsedAsWhole'
  <2> SUFFICES ASSUME StreamInv, ParsedAsWhole, [Next]_vars PROVE ParsedAsWhole'
    OBVIOUS
  <2>1. CASE UNCHANGED vars
    BY <2>1 DEF vars, ParsedAsWhole
  <2>2. CASE \E chunk \in Chunks : OnToken(chunk)
    BY <2>2, WholeToken
  <2>3. CASE (\E stores \in BOOLEAN : Finish(stores)) \/ Fail
    <3>1. phase' = "ended"
      BY <2>3 DEF Finish, Fail, Conclude
    <3> QED BY <3>1 DEF ParsedAsWhole
  <2> QED BY <2>1, <2>2, <2>3 DEF Next
<1> QED BY <1>1, WholeInit, StreamInvariant, PTL DEF Spec

\* The result of a response is what the parser makes of the whole text in one
\* piece.
ResultOfWhole ==
  outcome.status \in {"completed", "unstored"} =>
    LET whole == ParserFinish(ParserPush(NewParser(parser.arch, parser.choice), seen)) IN
    ~whole.error /\ outcome.text = whole.text /\ outcome.calls = whole.calls

\* What the filters still held when the model stopped is parsed so, too.
LEMMA WholeFinish ==
  ASSUME StreamInv, ParsedAsWhole, NEW stores \in BOOLEAN, Finish(stores)
  PROVE  ResultOfWhole'
<1>1. /\ phase # "ended" /\ ThinkOK(think) /\ StopOK(stop, seen) /\ ParserOK(parser, seen)
      /\ seen \in Text
  BY DEF StreamInv, StreamTypes, Finish
<1>2. PICK p : p = parser
  OBVIOUS
<1>3. PICK s : s = StopPush(stop, ThinkFinish(think))
  OBVIOUS
<1>4. PICK x, y : x = s.out /\ y = s.pending
  OBVIOUS
<1>5. PICK p1 : p1 = ParserPush(p, x)
  OBVIOUS
<1>6. PICK p2 : p2 = ParserPush(p1, y)
  OBVIOUS
<1>7. PICK p3 : p3 = ParserFinish(p2)
  OBVIOUS
<1>8. PICK new : new = NewParser(p.arch, p.choice)
  OBVIOUS
<1>9. PICK w : w = seen \o (x \o y)
  OBVIOUS
<1>10. /\ parser' = p3 /\ seen' = w
       /\ outcome'.text = p3.text /\ outcome'.calls = p3.calls
       /\ outcome'.status \in {"completed", "unstored"} => ~p3.error
  <2>1. Rest.parser = p3 /\ Rest.text = x \o y /\ (Rest.ok => ~p3.error)
    BY <1>2, <1>3, <1>4, <1>5, <1>6, <1>7 DEF Rest
  <2>2. PICK rest : rest = Rest
    OBVIOUS
  <2>3. /\ parser' = rest.parser /\ seen' = seen \o rest.text
        /\ outcome'.text = parser'.text /\ outcome'.calls = parser'.calls
        /\ rest.ok \/ outcome'.status = "failed"
    <3>1. /\ parser' = rest.parser /\ seen' = seen \o rest.text
          /\ \/ ~rest.ok /\ Conclude("failed")
             \/ rest.ok /\ (Conclude("completed") \/ Conclude("unstored"))
      BY <2>2 DEF Finish
    <3>2. ASSUME NEW status, Conclude(status)
          PROVE  /\ outcome'.text = parser'.text /\ outcome'.calls = parser'.calls
                 /\ outcome'.status = status
      BY <3>2 DEF Conclude
    <3>3. rest.ok \/ Conclude("failed")
      BY <3>1
    <3>4. Conclude("failed") \/ Conclude("completed") \/ Conclude("unstored")
      BY <3>1
    <3> QED BY <3>1, <3>2, <3>3, <3>4
  <2> QED BY <1>9, <2>1, <2>2, <2>3
<1>11. x \in Text /\ y \in Text
  <2>1. ThinkFinish(think) \in Text
    <3>1. <<>> \in Text
      BY DEF Text
    <3> QED BY <1>1, <3>1 DEF ThinkFinish, ThinkOK
  <2>2. StopOK(s, seen \o s.out)
    BY <1>1, <1>3, <2>1, StopPushOK
  <2> QED BY <1>4, <2>2 DEF StopOK
<1>12. Sound(p) /\ Sound(new)
  <2>1. Sound(p) /\ p \in Parsers
    BY <1>1, <1>2 DEF ParserOK, Sound
  <2> QED BY <1>8, <2>1, NewSound
<1>13. Same(p, ParserPush(new, seen))
  BY <1>1, <1>2, <1>8 DEF ParsedAsWhole, Same
<1>14. seen \o x \in Text /\ (seen \o x) \o y = w /\ w \in Text
  <2>1. seen \o x \in Text /\ x \o y \in Text
    BY <1>1, <1>11, Joined DEF Text
  <2>2. w \in Text
    BY <1>1, <1>9, <2>1, Joined DEF Text
  <2> QED BY <1>1, <1>9, <1>11, <2>1, <2>2, JoinThree, SMTT(20)
<1>15. Same(p1, ParserPush(new, seen \o x)) /\ Sound(p1)
  BY <1>1, <1>5, <1>11, <1>12, <1>13, PushOn, PushSound
<1>16. Same(p2, ParserPush(new, w)) /\ Sound(p2)
  BY <1>6, <1>11, <1>12, <1>14, <1>15, PushOn, PushSound
<1>17. PICK whole : whole = ParserFinish(ParserPush(new, w))
  OBVIOUS
<1>18. Same(p3, whole) /\ Sound(p3) /\ Sound(whole)
  BY <1>7, <1>12, <1>14, <1>16, <1>17, FinishSame, FinishSound, PushSound
<1>19. new = NewParser(p3.arch, p3.choice)
  BY <1>5, <1>6, <1>7, <1>8, <1>11, <1>12, <1>15, <1>16, FinishSound, PushSound
<1>20. ~p3.error => ~whole.error /\ p3.text = whole.text /\ p3.calls = whole.calls
  BY <1>18, SameIs DEF Sound
<1> QED BY <1>10, <1>17, <1>19, <1>20 DEF ResultOfWhole

\* However the model's text was cut into chunks, and whatever was still held
\* back when it stopped, a response's text and calls are those of its text
\* parsed at once (generate, api.rs).
THEOREM StreamResultOfWhole == Spec => []ResultOfWhole
<1>1. Init => ResultOfWhole
  BY DEF Init, ResultOfWhole
<1>2. StreamInv /\ ParsedAsWhole /\ ResultOfWhole /\ [Next]_vars => ResultOfWhole'
  <2> SUFFICES ASSUME StreamInv, ParsedAsWhole, ResultOfWhole, [Next]_vars
               PROVE  ResultOfWhole'
    OBVIOUS
  <2>1. CASE UNCHANGED vars
    BY <2>1 DEF vars, ResultOfWhole
  <2>2. CASE \E chunk \in Chunks : OnToken(chunk)
    <3>1. outcome'.status = "none"
      BY <2>2 DEF OnToken, StreamInv
    <3> QED BY <3>1 DEF ResultOfWhole
  <2>3. CASE \E stores \in BOOLEAN : Finish(stores)
    BY <2>3, WholeFinish
  <2>4. CASE Fail
    <3>1. outcome'.status = "failed"
      BY <2>4 DEF Fail, Conclude
    <3> QED BY <3>1 DEF ResultOfWhole
  <2> QED BY <2>1, <2>2, <2>3, <2>4 DEF Next
<1> QED BY <1>1, <1>2, StreamInvariant, StreamParsedAsWhole, PTL DEF Spec
===============================================================================
