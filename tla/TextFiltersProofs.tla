--------------------------- MODULE TextFiltersProofs ---------------------------
(***************************************************************************)
(* What the text filters hold and let through: the think filter keeps to   *)
(* its states, no stop sequence passes the stop filter, however the text   *)
(* was cut, and the parser holds no more than the start of a tag and makes *)
(* of a text in pieces what it makes of it at once (ChunkedParse).         *)
(*                                                                         *)
(* Every fact about a text is stated by its elements (TakeDrop, FindsAt,   *)
(* PrefixAt, ReadsAt), since the provers do not see through SubSeq.        *)
(*                                                                         *)
(* ChunkedParse compares two runs of drain of different lengths.  Its      *)
(* steps: drain takes turns until there is none to take (DrainTurn, which  *)
(* says that the model's bound on them is enough); what was returned has   *)
(* no part in any step (Same, DrainSame); more text pending changes no     *)
(* turn (TurnMore); and what is done when there is none to take makes no   *)
(* difference to what comes of more text (SettleMore).                     *)
(***************************************************************************)
EXTENDS TextFilters, NatRecursion, SequenceTheorems

\* The least element of a set of naturals.
LEMMA FirstLeast ==
  ASSUME NEW T \in SUBSET Nat, T # {}
  PROVE  First(T) \in T /\ \A j \in T : First(T) <= j
  BY LeastNat DEF First

\* A text is cut in two, at any place.
LEMMA TakeDrop ==
  ASSUME NEW S, NEW t \in Seq(S), NEW n \in 0 .. Len(t)
  PROVE  /\ Take(t, n) \in Seq(S) /\ Len(Take(t, n)) = n
         /\ \A i \in 1 .. n : Take(t, n)[i] = t[i]
         /\ Drop(t, n) \in Seq(S) /\ Len(Drop(t, n)) = Len(t) - n
         /\ \A i \in 1 .. Len(t) - n : Drop(t, n)[i] = t[n + i]
         /\ Take(t, n) \o Drop(t, n) = t
<1> DEFINE N == Len(t)
<1>1. N \in Nat /\ n \in Nat /\ \A i \in 1 .. N : t[i] \in S
  BY ElementOfSeq, LenProperties
<1>2. /\ Take(t, n) \in Seq(S) /\ Len(Take(t, n)) = n
      /\ \A i \in 1 .. n : Take(t, n)[i] = t[i]
  <2>1. \A i \in 1 .. n : t[i] \in S
    BY <1>1
  <2>2. /\ SubSeq(t, 1, n) \in Seq(S)
        /\ Len(SubSeq(t, 1, n)) = IF 1 <= n THEN n - 1 + 1 ELSE 0
        /\ \A i \in 1 .. n - 1 + 1 : SubSeq(t, 1, n)[i] = t[1 + i - 1]
    BY <1>1, <2>1, SubSeqProperties
  <2>3. \A i \in 1 .. n : i \in 1 .. n - 1 + 1 /\ 1 + i - 1 = i
    BY <1>1
  <2> QED BY <1>1, <2>2, <2>3 DEF Take
<1>3. /\ Drop(t, n) \in Seq(S) /\ Len(Drop(t, n)) = N - n
      /\ \A i \in 1 .. N - n : Drop(t, n)[i] = t[n + i]
  <2>1. \A i \in n + 1 .. N : t[i] \in S
    BY <1>1
  <2>2. /\ SubSeq(t, n + 1, N) \in Seq(S)
        /\ Len(SubSeq(t, n + 1, N)) = IF n + 1 <= N THEN N - (n + 1) + 1 ELSE 0
        /\ \A i \in 1 .. N - (n + 1) + 1 : SubSeq(t, n + 1, N)[i] = t[n + 1 + i - 1]
    BY <1>1, <2>1, SubSeqProperties
  <2>3. \A i \in 1 .. N - n : i \in 1 .. N - (n + 1) + 1 /\ n + 1 + i - 1 = n + i
    BY <1>1
  <2> QED BY <1>1, <2>2, <2>3 DEF Drop
<1> DEFINE front == Take(t, n)
           back == Drop(t, n)
<1>4. /\ front \in Seq(S) /\ Len(front) = n /\ \A i \in 1 .. n : front[i] = t[i]
      /\ back \in Seq(S) /\ Len(back) = N - n /\ \A i \in 1 .. N - n : back[i] = t[n + i]
  BY <1>2, <1>3
<1> HIDE DEF front, back
<1>5. /\ front \o back \in Seq(S) /\ Len(front \o back) = Len(front) + Len(back)
      /\ \A i \in 1 .. Len(front) + Len(back) :
           (front \o back)[i] = IF i <= Len(front) THEN front[i] ELSE back[i - Len(front)]
  BY <1>4, ConcatProperties
<1>6. Len(front \o back) = N
  BY <1>1, <1>4, <1>5
<1>7. ASSUME NEW i \in 1 .. Len(front \o back) PROVE (front \o back)[i] = t[i]
  <2>1. i \in 1 .. Len(front) + Len(back)
    BY <1>5
  <2>2. CASE i <= n
    <3>1. i \in 1 .. n
      BY <1>1, <1>6, <2>2
    <3> QED BY <1>4, <1>5, <2>1, <2>2, <3>1
  <2>3. CASE ~(i <= n)
    <3>1. i - n \in 1 .. N - n /\ n + (i - n) = i
      BY <1>1, <1>6, <2>3
    <3> QED BY <1>4, <1>5, <2>1, <2>3, <3>1
  <2> QED BY <2>2, <2>3
<1>8. front \o back = t
  BY <1>5, <1>6, <1>7, SeqEqual
<1> QED BY <1>2, <1>3, <1>8 DEF front, back

\* A text is joined of two, element by element.
LEMMA Joined ==
  ASSUME NEW S, NEW s \in Seq(S), NEW t \in Seq(S)
  PROVE  /\ s \o t \in Seq(S) /\ Len(s \o t) = Len(s) + Len(t)
         /\ \A i \in 1 .. Len(s) : (s \o t)[i] = s[i]
         /\ \A i \in 1 .. Len(t) : (s \o t)[Len(s) + i] = t[i]
<1>1. Len(s) \in Nat /\ Len(t) \in Nat
  BY LenProperties
<1>2. /\ s \o t \in Seq(S) /\ Len(s \o t) = Len(s) + Len(t)
      /\ \A i \in 1 .. Len(s) + Len(t) :
           (s \o t)[i] = IF i <= Len(s) THEN s[i] ELSE t[i - Len(s)]
  BY ConcatProperties
<1>3. \A i \in 1 .. Len(s) : i \in 1 .. Len(s) + Len(t) /\ i <= Len(s)
  BY <1>1
<1>4. \A i \in 1 .. Len(t) :
        Len(s) + i \in 1 .. Len(s) + Len(t) /\ ~(Len(s) + i <= Len(s)) /\ (Len(s) + i) - Len(s) = i
  BY <1>1
<1> QED BY <1>2, <1>3, <1>4

\* Where s occurs in t.
LEMMA FindsAt ==
  ASSUME NEW S, NEW t \in Seq(S), NEW s \in Seq(S)
  PROVE  /\ Finds(t, s) \subseteq 0 .. Len(t) - Len(s) /\ Finds(t, s) \subseteq Nat
         /\ \A i \in 0 .. Len(t) - Len(s) :
              i \in Finds(t, s) <=> \A k \in 1 .. Len(s) : t[i + k] = s[k]
<1>1. Len(t) \in Nat /\ Len(s) \in Nat /\ \A i \in 1 .. Len(t) : t[i] \in S
  BY ElementOfSeq, LenProperties
<1>2. ASSUME NEW i \in 0 .. Len(t) - Len(s)
      PROVE  i \in Finds(t, s) <=> \A k \in 1 .. Len(s) : t[i + k] = s[k]
  <2> DEFINE cut == SubSeq(t, i + 1, i + Len(s))
  <2>1. /\ i \in Nat /\ i + Len(s) \in Nat /\ i + 1 \in 1 .. i + Len(s) + 1
        /\ \A j \in i + 1 .. i + Len(s) : t[j] \in S
    BY <1>1
  <2>2. /\ cut \in Seq(S)
        /\ Len(cut) = IF i + 1 <= i + Len(s) THEN i + Len(s) - (i + 1) + 1 ELSE 0
        /\ \A k \in 1 .. i + Len(s) - (i + 1) + 1 : cut[k] = t[i + 1 + k - 1]
    BY <2>1, SubSeqProperties
  <2>3. Len(cut) = Len(s)
    BY <1>1, <2>1, <2>2
  <2>4. \A k \in 1 .. Len(s) : cut[k] = t[i + k]
    <3>1. TAKE k \in 1 .. Len(s)
    <3>2. k \in 1 .. i + Len(s) - (i + 1) + 1 /\ i + 1 + k - 1 = i + k
      BY <1>1, <2>1
    <3> QED BY <2>2, <3>2
  <2>5. i \in Finds(t, s) <=> cut = s
    BY DEF Finds
  <2> HIDE DEF cut
  <2>6. cut = s <=> \A k \in 1 .. Len(s) : cut[k] = s[k]
    <3>1. (\A k \in 1 .. Len(cut) : cut[k] = s[k]) => cut = s
      BY <2>2, <2>3, SeqEqual
    <3> QED BY <2>3, <3>1
  <2> QED BY <2>4, <2>5, <2>6
<1>3. Finds(t, s) \subseteq 0 .. Len(t) - Len(s) /\ Finds(t, s) \subseteq Nat
  BY DEF Finds
<1> QED BY <1>2, <1>3

\* A prefix, element by element.
LEMMA PrefixAt ==
  ASSUME NEW S, NEW s \in Seq(S), NEW t \in Seq(S)
  PROVE  IsPrefix(s, t) <=> Len(s) <= Len(t) /\ \A k \in 1 .. Len(s) : s[k] = t[k]
<1>1. Len(t) \in Nat /\ Len(s) \in Nat
  BY LenProperties
<1>2. CASE Len(s) <= Len(t)
  <2>1. Len(s) \in 0 .. Len(t) /\ Len(s) \in 0 .. Len(s)
    BY <1>1, <1>2
  <2>2. /\ Take(t, Len(s)) \in Seq(S) /\ Len(Take(t, Len(s))) = Len(s)
        /\ \A i \in 1 .. Len(s) : Take(t, Len(s))[i] = t[i]
    BY <2>1, TakeDrop
  <2>3. /\ Take(s, Len(s)) \in Seq(S) /\ Len(Take(s, Len(s))) = Len(s)
        /\ \A i \in 1 .. Len(s) : Take(s, Len(s))[i] = s[i]
    BY <2>1, TakeDrop
  <2> DEFINE a == Take(s, Len(s))
             b == Take(t, Len(s))
  <2>4. IsPrefix(s, t) <=> a = b
    BY <1>2 DEF IsPrefix, Take
  <2> HIDE DEF a, b
  <2>5. a = b <=> \A k \in 1 .. Len(s) : a[k] = b[k]
    <3>1. (\A k \in 1 .. Len(a) : a[k] = b[k]) => a = b
      BY <2>2, <2>3, SeqEqual DEF a, b
    <3> QED BY <2>3, <3>1 DEF a
  <2>6. (\A k \in 1 .. Len(s) : a[k] = b[k]) <=> \A k \in 1 .. Len(s) : s[k] = t[k]
    BY <2>2, <2>3 DEF a, b
  <2> QED BY <1>2, <2>4, <2>5, <2>6
<1>3. CASE ~(Len(s) <= Len(t))
  BY <1>3 DEF IsPrefix
<1> QED BY <1>2, <1>3

\* Where s has been found in t, its elements are.
LEMMA FoundAt ==
  ASSUME NEW S, NEW t \in Seq(S), NEW s \in Seq(S), NEW i \in Finds(t, s)
  PROVE  /\ i \in Nat /\ i \in 0 .. Len(t) - Len(s)
         /\ \A k \in 1 .. Len(s) : t[i + k] = s[k]
<1>1. i \in Nat /\ i \in 0 .. Len(t) - Len(s)
  BY FindsAt
<1>2. \A j \in 0 .. Len(t) - Len(s) : j \in Finds(t, s) => \A k \in 1 .. Len(s) : t[j + k] = s[k]
  BY FindsAt
<1> QED BY <1>1, <1>2, Zenon

\* Three texts are joined from the left or from the right.
LEMMA JoinThree ==
  ASSUME NEW s \in Text, NEW t \in Text, NEW u \in Text
  PROVE  s \o (t \o u) = (s \o t) \o u
<1>1. s \in Seq(Symbols) /\ t \in Seq(Symbols) /\ u \in Seq(Symbols)
  BY DEF Text
<1>2. (s \o t) \o u = s \o (t \o u)
  BY ONLY <1>1, ConcatAssociative, SMTT(20)
<1> QED BY <1>2

\* The prefixes of s.
LEMMA PrefixesAre ==
  ASSUME NEW S, NEW s \in Seq(S)
  PROVE  \A x : x \in Prefixes(s) <=> x \in Seq(S) /\ IsPrefix(x, s)
<1>1. Len(s) \in Nat
  BY LenProperties
<1>2. ASSUME NEW x \in Prefixes(s) PROVE x \in Seq(S) /\ IsPrefix(x, s)
  <2>1. PICK n \in 0 .. Len(s) : x = Take(s, n)
    BY DEF Prefixes, Take
  <2>2. x \in Seq(S) /\ Len(x) = n /\ \A i \in 1 .. n : x[i] = s[i]
    BY <2>1, TakeDrop
  <2> QED BY <1>1, <2>2, PrefixAt
<1>3. ASSUME NEW x \in Seq(S), IsPrefix(x, s) PROVE x \in Prefixes(s)
  <2>1. Len(x) \in Nat /\ Len(x) <= Len(s) /\ \A k \in 1 .. Len(x) : x[k] = s[k]
    BY <1>3, PrefixAt, LenProperties
  <2>2. Len(x) \in 0 .. Len(s)
    BY <1>1, <2>1
  <2> DEFINE y == Take(s, Len(x))
  <2>3. y \in Seq(S) /\ Len(y) = Len(x) /\ \A i \in 1 .. Len(x) : y[i] = s[i]
    BY <2>2, TakeDrop
  <2>4. y \in Prefixes(s)
    BY <2>2 DEF Prefixes, Take
  <2> HIDE DEF y
  <2>5. x = y
    BY <2>1, <2>3, SeqEqual
  <2> QED BY <2>4, <2>5
<1> QED BY <1>2, <1>3

-----------------------------------------------------------------------------
(* Tags and what is held of them.                                          *)

\* A filter holds the longest suffix of its text that is among the prefixes.
LEMMA HeldIs ==
  ASSUME NEW t \in Text, NEW prefixes
  PROVE  /\ HeldFrom(t, prefixes) \in 0 .. Len(t)
         /\ Drop(t, HeldFrom(t, prefixes)) \in prefixes \cup {<<>>}
         /\ \A n \in 0 .. Len(t) : Drop(t, n) \in prefixes => HeldFrom(t, prefixes) <= n
<1> DEFINE T == {n \in 0 .. Len(t) : Drop(t, n) \in prefixes \cup {<<>>}}
<1>1. Len(t) \in Nat /\ t \in Seq(Symbols)
  BY LenProperties DEF Text
<1>2. Len(t) \in T
  <2>1. Len(t) \in 0 .. Len(t) /\ Len(t) - Len(t) = 0
    BY <1>1
  <2>2. Drop(t, Len(t)) \in Seq(Symbols) /\ Len(Drop(t, Len(t))) = 0
    BY <1>1, <2>1, TakeDrop
  <2>3. Drop(t, Len(t)) = <<>>
    BY <2>2, EmptySeq
  <2> QED BY <2>1, <2>3
<1>3. T \in SUBSET Nat
  OBVIOUS
<1>4. HeldFrom(t, prefixes) = First(T)
  BY DEF HeldFrom
<1>5. First(T) \in T /\ \A n \in T : First(T) <= n
  <2> HIDE DEF T
  <2> QED BY <1>2, <1>3, FirstLeast
<1> QED BY <1>4, <1>5

\* The tags are texts.
LEMMA Tags ==
  /\ THINK_OPEN \in Text /\ THINK_CLOSE \in Text /\ OPEN \in Text /\ CLOSE \in Text
  /\ MARKERS \subseteq Text
  /\ Len(THINK_OPEN) = 3 /\ Len(THINK_CLOSE) = 3 /\ Len(OPEN) = 4 /\ Len(CLOSE) = 4
<1>0. {"<", "/", "t", "h", "o", ">"} \subseteq Symbols
  BY FilterConstants
<1>1. THINK_OPEN \in Seq(Symbols) /\ Len(THINK_OPEN) = 3
  BY <1>0 DEF THINK_OPEN
<1>2. THINK_CLOSE \in Seq(Symbols) /\ Len(THINK_CLOSE) = 3
  BY <1>0 DEF THINK_CLOSE
<1>3. OPEN \in Seq(Symbols) /\ Len(OPEN) = 4
  BY <1>0 DEF OPEN
<1>4. CLOSE \in Seq(Symbols) /\ Len(CLOSE) = 4
  BY <1>0 DEF CLOSE
<1>5. <<"<", "t", "o">> \in Seq(Symbols) /\ <<"<", "/", "o">> \in Seq(Symbols)
  BY <1>0
<1> QED BY <1>1, <1>2, <1>3, <1>4, <1>5 DEF Text, MARKERS

\* What comes before the first occurrence of a tag, and what after.
LEMMA Cut ==
  ASSUME NEW t \in Text, NEW tag \in Text, Finds(t, tag) # {}
  PROVE  /\ First(Finds(t, tag)) \in 0 .. Len(t)
         /\ First(Finds(t, tag)) + Len(tag) \in 0 .. Len(t)
         /\ Take(t, First(Finds(t, tag))) \in Text
         /\ Drop(t, First(Finds(t, tag))) \in Text
         /\ Drop(t, First(Finds(t, tag)) + Len(tag)) \in Text
<1> DEFINE at == Finds(t, tag)
<1>1. t \in Seq(Symbols) /\ tag \in Seq(Symbols) /\ Len(t) \in Nat /\ Len(tag) \in Nat
  BY LenProperties DEF Text
<1>2. at \subseteq 0 .. Len(t) - Len(tag) /\ at \in SUBSET Nat /\ at # {}
  BY <1>1, FindsAt
<1>3. First(at) \in at
  <2> HIDE DEF at
  <2> QED BY <1>2, FirstLeast
<1>4. First(at) \in 0 .. Len(t) /\ First(at) + Len(tag) \in 0 .. Len(t)
  <2>1. First(at) \in 0 .. Len(t) - Len(tag)
    BY <1>2, <1>3
  <2> HIDE DEF at
  <2> QED BY <1>1, <2>1
<1> QED BY <1>1, <1>4, TakeDrop DEF Text

\* Trimming leaves a text.
LEMMA TrimIsText ==
  ASSUME NEW t \in Text
  PROVE  TrimStart(t) \in Text
<1> DEFINE T == {n \in 0 .. Len(t) : n = Len(t) \/ t[n + 1] # " "}
<1>1. t \in Seq(Symbols) /\ Len(t) \in Nat
  BY LenProperties DEF Text
<1>2. Len(t) \in T /\ T \in SUBSET Nat
  <2>1. Len(t) \in 0 .. Len(t) /\ 0 .. Len(t) \subseteq Nat
    BY <1>1
  <2> QED BY <2>1
<1>3. First(T) \in 0 .. Len(t)
  <2>1. First(T) \in T
    <3> HIDE DEF T
    <3> QED BY <1>2, FirstLeast
  <2> QED BY <2>1
<1> QED BY <1>1, <1>3, TakeDrop DEF TrimStart, Text

\* A prefix of the tag is cut from the text that begins with it.
LEMMA After ==
  ASSUME NEW t \in Text, NEW tag \in Text, IsPrefix(tag, t)
  PROVE  Len(tag) \in 0 .. Len(t) /\ Drop(t, Len(tag)) \in Text
<1>1. t \in Seq(Symbols) /\ tag \in Seq(Symbols) /\ Len(t) \in Nat /\ Len(tag) \in Nat
  BY LenProperties DEF Text
<1>2. Len(tag) \in 0 .. Len(t)
  BY <1>1, PrefixAt
<1> QED BY <1>1, <1>2, TakeDrop DEF Text

-----------------------------------------------------------------------------
(* ThinkFilter.                                                            *)

\* What a think filter holds.
ThinkOK(f) ==
  /\ f \in [state : {"Unknown", "Open", "OrphanClose", "Passthrough"}, pending : Text, out : Text]
  /\ f.state = "Unknown" =>
       LET text == TrimStart(f.pending) IN text # <<>> => Head(text) = "<"
  /\ f.state = "Open" => IsStrictPrefix(f.pending, THINK_CLOSE)
  /\ f.state = "OrphanClose" => IsStrictPrefix(TrimStart(f.pending), THINK_OPEN)
  /\ f.state = "Passthrough" => f.pending = <<>>

\* There is nothing to trim from no text, which begins every tag.
LEMMA NothingTrimmed ==
  TrimStart(<<>>) = <<>> /\ IsStrictPrefix(<<>>, THINK_OPEN)
<1>1. <<>> \in Seq(Symbols) /\ <<>> \in Text /\ Len(<<>>) = 0
  BY EmptySeq DEF Text
<1>2. TrimStart(<<>>) = <<>>
  <2> DEFINE T == {n \in 0 .. Len(<<>>) : n = Len(<<>>) \/ <<>>[n + 1] # " "}
  <2>1. 0 \in T /\ T \subseteq {0}
    <3>1. 0 .. Len(<<>>) = {0} /\ 0 = Len(<<>>)
      BY <1>1
    <3>2. T \subseteq 0 .. Len(<<>>) /\ 0 \in T
      BY <3>1
    <3> QED BY <3>1, <3>2
  <2>2. First(T) = 0
    <3> HIDE DEF T
    <3>1. T \in SUBSET Nat
      BY <2>1
    <3>2. First(T) \in T
      BY <2>1, <3>1, FirstLeast
    <3> QED BY <2>1, <3>2
  <2>3. TrimStart(<<>>) = Drop(<<>>, First(T))
    BY DEF TrimStart
  <2>4. Drop(<<>>, 0) = <<>>
    BY DEF Drop
  <2> HIDE DEF T
  <2> QED BY <2>2, <2>3, <2>4
<1>3. IsStrictPrefix(<<>>, THINK_OPEN)
  <2>1. THINK_OPEN \in Seq(Symbols) /\ Len(THINK_OPEN) = 3
    BY Tags DEF Text
  <2>2. IsPrefix(<<>>, THINK_OPEN)
    <3>1. Len(<<>>) <= Len(THINK_OPEN) /\ \A k \in 1 .. Len(<<>>) : <<>>[k] = THINK_OPEN[k]
      BY <1>1, <2>1
    <3> QED BY <1>1, <2>1, <3>1, PrefixAt
  <2>3. <<>> # THINK_OPEN
    <3>1. Len(<<>>) # Len(THINK_OPEN)
      BY <1>1, <2>1
    <3> QED BY <3>1, Zenon
  <2> QED BY <2>2, <2>3 DEF IsStrictPrefix
<1> QED BY <1>2, <1>3

\* What begins a tag begins with "<".
LEMMA TagHead ==
  ASSUME NEW u \in Text, u # <<>>, NEW tag \in {THINK_OPEN, THINK_CLOSE}, IsPrefix(u, tag)
  PROVE  Head(u) = "<"
<1>1. /\ u \in Seq(Symbols) /\ tag \in Seq(Symbols) /\ Len(u) \in Nat /\ Len(u) # 0
      /\ tag[1] = "<"
  <2>1. THINK_OPEN[1] = "<" /\ THINK_CLOSE[1] = "<"
    BY DEF THINK_OPEN, THINK_CLOSE
  <2> QED BY <2>1, Tags, LenProperties, EmptySeq DEF Text
<1>2. u[1] = tag[1]
  <2>1. 1 \in 1 .. Len(u)
    BY <1>1
  <2> QED BY <1>1, <2>1, PrefixAt
<1>3. Head(u) = u[1]
  BY <1>1
<1> QED BY <1>1, <1>2, <1>3

\* What the think filter returns outside a block is well formed.
LEMMA ThinkingOK ==
  ASSUME NEW state \in {"Unknown", "OrphanClose", "Passthrough"}, NEW pending \in Text,
         NEW out \in Text, state = "Passthrough" => pending = <<>>,
         LET text == TrimStart(pending) IN
         /\ state = "Unknown" /\ text # <<>> => Head(text) = "<"
         /\ state = "OrphanClose" => IsStrictPrefix(text, THINK_OPEN)
  PROVE  ThinkOK(Thinking(state, pending, out))
  BY DEF ThinkOK, Thinking

\* Inside a block only the start of its closing tag is held.
LEMMA AdvanceOpenOK ==
  ASSUME NEW t \in Text
  PROVE  ThinkOK(AdvanceOpen(t))
<1>1. <<>> \in Text
  BY EmptySeq DEF Text
<1>2. CASE Finds(t, THINK_CLOSE) # {}
  <2>1. Drop(t, First(Finds(t, THINK_CLOSE)) + Len(THINK_CLOSE)) \in Text
    BY <1>2, Tags, Cut
  <2> QED BY <1>1, <1>2, <2>1, ThinkingOK DEF AdvanceOpen
<1>3. CASE Finds(t, THINK_CLOSE) = {}
  <2> DEFINE n == HeldFrom(t, Prefixes(THINK_CLOSE))
             held == Drop(t, n)
  <2>1. n \in 0 .. Len(t) /\ held \in Prefixes(THINK_CLOSE) \cup {<<>>}
    BY HeldIs
  <2>2. /\ t \in Seq(Symbols) /\ Len(t) \in Nat /\ THINK_CLOSE \in Seq(Symbols)
    BY Tags, LenProperties DEF Text
  <2>3. /\ held \in Seq(Symbols) /\ Len(held) = Len(t) - n
        /\ \A i \in 1 .. Len(t) - n : held[i] = t[n + i]
    BY <2>1, <2>2, TakeDrop
  <2>4. IsPrefix(held, THINK_CLOSE)
    <3>1. CASE held \in Prefixes(THINK_CLOSE)
      BY <2>2, <3>1, PrefixesAre
    <3>2. CASE held = <<>>
      <4>1. <<>> \in Seq(Symbols) /\ Len(<<>>) = 0
        BY EmptySeq
      <4>2. Len(<<>>) <= Len(THINK_CLOSE) /\ \A k \in 1 .. Len(<<>>) : <<>>[k] = THINK_CLOSE[k]
        BY <4>1, Tags
      <4>3. IsPrefix(<<>>, THINK_CLOSE)
        BY <2>2, <4>1, <4>2, PrefixAt
      <4> QED BY <3>2, <4>3
    <3> QED BY <2>1, <3>1, <3>2
  <2>5. held # THINK_CLOSE
    <3>1. SUFFICES ASSUME held = THINK_CLOSE PROVE FALSE
      OBVIOUS
    <3>2. Len(t) - n = Len(THINK_CLOSE)
      BY <2>3, <3>1
    <3> HIDE DEF n, held
    <3>3. n \in Nat /\ n \in 0 .. Len(t) - Len(THINK_CLOSE)
      BY <2>1, <2>2, <3>2, Tags
    <3>4. \A k \in 1 .. Len(THINK_CLOSE) : t[n + k] = THINK_CLOSE[k]
      BY <2>3, <3>1, <3>2
    <3>5. n \in Finds(t, THINK_CLOSE)
      BY <2>2, <3>3, <3>4, FindsAt
    <3> QED BY <1>3, <3>5
  <2> HIDE DEF n
  <2>6. AdvanceOpen(t) = Thinking("Open", held, <<>>)
    BY <1>3 DEF AdvanceOpen, n
  <2> HIDE DEF held
  <2> QED BY <1>1, <2>3, <2>4, <2>5, <2>6 DEF ThinkOK, Thinking, Text, IsStrictPrefix
<1> QED BY <1>2, <1>3

\* The filter keeps to its states, whatever the chunks.
LEMMA ThinkPushOK ==
  ASSUME NEW f, ThinkOK(f), NEW text \in Text
  PROVE  ThinkOK(ThinkPush(f, text))
<1> DEFINE t == f.pending \o text
<1>1. t \in Text /\ <<>> \in Text
  BY Joined, EmptySeq DEF Text, ThinkOK
<1> HIDE DEF t
<1>0. ThinkOK(Thinking("OrphanClose", <<>>, <<>>))
  BY <1>1, NothingTrimmed, ThinkingOK
<1>2. \A u \in Text : IsPrefix(THINK_OPEN, u) => ThinkOK(AdvanceOpen(Drop(u, Len(THINK_OPEN))))
  BY Tags, After, AdvanceOpenOK
<1>3. ASSUME TrimStart(t) # <<>> => Head(TrimStart(t)) = "<"
      PROVE  ThinkOK(AdvanceEmbedded(t))
  <2> DEFINE u == TrimStart(t)
             at == Finds(u, THINK_CLOSE)
             after == Drop(u, First(at) + Len(THINK_CLOSE))
  <2>1. u \in Text
    BY <1>1, TrimIsText
  <2>2. at # {} => after \in Text
    <3> HIDE DEF u
    <3> QED BY <2>1, Tags, Cut
  <2>3. AdvanceEmbedded(t) =
          CASE at # {} /\ IsPrefix(THINK_OPEN, after) ->
                 AdvanceOpen(Drop(after, Len(THINK_OPEN)))
            [] at # {} /\ IsPrefix(TrimStart(after), THINK_OPEN) ->
                 Thinking("OrphanClose", <<>>, <<>>)
            [] OTHER -> Thinking("Unknown", t, <<>>)
    BY DEF AdvanceEmbedded
  <2> HIDE DEF u, at, after
  <2>4. CASE at # {} /\ IsPrefix(THINK_OPEN, after)
    <3>1. AdvanceEmbedded(t) = AdvanceOpen(Drop(after, Len(THINK_OPEN)))
          \/ AdvanceEmbedded(t) = Thinking("OrphanClose", <<>>, <<>>)
      BY <2>3, <2>4
    <3> QED BY <1>0, <1>2, <2>2, <2>4, <3>1
  <2>5. CASE ~(at # {} /\ IsPrefix(THINK_OPEN, after))
    <3>1. AdvanceEmbedded(t) = Thinking("Unknown", t, <<>>)
          \/ AdvanceEmbedded(t) = Thinking("OrphanClose", <<>>, <<>>)
      BY <2>3, <2>5
    <3>2. ThinkOK(Thinking("Unknown", t, <<>>))
      BY <1>1, <1>3, ThinkingOK
    <3> QED BY <1>0, <3>1, <3>2
  <2> QED BY <2>4, <2>5
<1>4. ThinkOK(AdvanceUnknown(t))
  <2>1. CASE IsPrefix(THINK_OPEN, t)
    <3>1. AdvanceUnknown(t) \in {AdvanceOpen(Drop(t, Len(THINK_OPEN))),
                                 Thinking("OrphanClose", <<>>, <<>>)}
      BY <2>1 DEF AdvanceUnknown
    <3> QED BY <1>0, <1>1, <1>2, <2>1, <3>1
  <2>2. CASE ~IsPrefix(THINK_OPEN, t)
    <3> DEFINE u == TrimStart(t)
    <3>1. u \in Text
      BY <1>1, TrimIsText
    <3>2. \/ AdvanceUnknown(t) = Thinking("OrphanClose", <<>>, <<>>)
          \/ /\ \E tag \in {THINK_OPEN, THINK_CLOSE} : IsPrefix(u, tag)
             /\ AdvanceUnknown(t) = Thinking("Unknown", t, <<>>)
          \/ Head(u) = "<" /\ AdvanceUnknown(t) = AdvanceEmbedded(t)
          \/ AdvanceUnknown(t) = Thinking("Passthrough", <<>>, t)
      BY <2>2, Zenon DEF AdvanceUnknown
    <3>3. ASSUME \E tag \in {THINK_OPEN, THINK_CLOSE} : IsPrefix(u, tag)
          PROVE  ThinkOK(Thinking("Unknown", t, <<>>))
      <4>1. u # <<>> => Head(u) = "<"
        <5> HIDE DEF u
        <5> QED BY <3>1, <3>3, TagHead
      <4> QED BY <1>1, <4>1, ThinkingOK
    <3>4. Head(u) = "<" => ThinkOK(AdvanceEmbedded(t))
      BY <1>3
    <3>5. ThinkOK(Thinking("Passthrough", <<>>, t))
      BY <1>1, ThinkingOK
    <3> HIDE DEF u
    <3> QED BY <1>0, <3>2, <3>3, <3>4, <3>5
  <2> QED BY <2>1, <2>2
<1>5. ThinkOK(AdvanceOrphanClose(t))
  <2> DEFINE u == TrimStart(t)
  <2>1. u \in Text
    BY <1>1, TrimIsText
  <2>2. AdvanceOrphanClose(t) =
          CASE IsPrefix(THINK_OPEN, u) -> AdvanceOpen(Drop(u, Len(THINK_OPEN)))
            [] IsStrictPrefix(u, THINK_OPEN) -> Thinking("OrphanClose", t, <<>>)
            [] OTHER -> Thinking("Passthrough", <<>>, t)
    BY DEF AdvanceOrphanClose
  <2> HIDE DEF u
  <2>3. \/ IsPrefix(THINK_OPEN, u) /\ AdvanceOrphanClose(t) = AdvanceOpen(Drop(u, Len(THINK_OPEN)))
        \/ /\ IsStrictPrefix(u, THINK_OPEN)
           /\ AdvanceOrphanClose(t) = Thinking("OrphanClose", t, <<>>)
        \/ AdvanceOrphanClose(t) = Thinking("Passthrough", <<>>, t)
    BY <2>2
  <2>4. IsStrictPrefix(u, THINK_OPEN) => ThinkOK(Thinking("OrphanClose", t, <<>>))
    BY <1>1, ThinkingOK DEF u
  <2>5. ThinkOK(Thinking("Passthrough", <<>>, t))
    BY <1>1, ThinkingOK
  <2> QED BY <1>2, <2>1, <2>3, <2>4, <2>5
<1>6. CASE f.state = "Passthrough"
  <2>1. ThinkPush(f, text) = Thinking("Passthrough", f.pending, text)
    BY <1>6 DEF ThinkPush
  <2>2. f.pending = <<>>
    BY <1>6 DEF ThinkOK
  <2> QED BY <1>1, <2>1, <2>2, ThinkingOK
<1>7. CASE f.state = "Unknown"
  BY <1>4, <1>7 DEF ThinkPush, t
<1>8. CASE f.state = "Open"
  BY <1>1, <1>8, AdvanceOpenOK DEF ThinkPush, t
<1>9. CASE f.state = "OrphanClose"
  BY <1>5, <1>9 DEF ThinkPush, t
<1>10. f.state \in {"Unknown", "Open", "OrphanClose", "Passthrough"}
  BY DEF ThinkOK
<1> QED BY <1>6, <1>7, <1>8, <1>9, <1>10

-----------------------------------------------------------------------------
(* StopFilter.                                                             *)

\* No stop sequence occurs in the text.
Clean(text) == \A i \in DOMAIN Stops : Finds(text, Stops[i]) = {}

\* What has been let through, and what is held: no stop sequence has occurred
\* in them, and one that has begun is held from its beginning.
StopOK(f, w) ==
  /\ f \in [pending : Text, hit : 0 .. Len(Stops), out : Text]
  /\ f.pending \in ProperPrefixes \cup {<<>>}
  /\ f.hit # 0 => f.pending = <<>>
  /\ w \in Text /\ Clean(w) /\ Clean(w \o f.pending)
  /\ f.hit = 0 => \A n \in 0 .. Len(w \o f.pending) :
                    Drop(w \o f.pending, n) \in ProperPrefixes => n >= Len(w)

\* The stop sequences, one by one.
LEMMA StopIs ==
  ASSUME NEW i \in DOMAIN Stops
  PROVE  Stops[i] \in Seq(Symbols) /\ Len(Stops[i]) \in Nat \ {0}
<1>1. Stops[i] \in Seq(Symbols) /\ Stops[i] # <<>>
  <2>1. Stops \in Seq(Text \ {<<>>})
    BY FilterConstants
  <2>2. i \in 1 .. Len(Stops)
    BY <2>1, LenProperties
  <2>3. Stops[i] \in Text \ {<<>>}
    BY <2>1, <2>2, ElementOfSeq
  <2> QED BY <2>3 DEF Text
<1> QED BY <1>1, EmptySeq, LenProperties

\* A text that is the start of a stop sequence, and not all of it.
LEMMA ProperPrefixAt ==
  ASSUME NEW x \in Seq(Symbols)
  PROVE  x \in ProperPrefixes <=>
           \E i \in DOMAIN Stops : /\ 0 < Len(x) /\ Len(x) < Len(Stops[i])
                                   /\ \A k \in 1 .. Len(x) : x[k] = Stops[i][k]
<1>1. ToSet(Stops) = {Stops[i] : i \in DOMAIN Stops}
  BY DEF ToSet
<1>2. Len(x) \in Nat /\ (Len(x) = 0 <=> x = <<>>)
  BY EmptySeq, LenProperties
<1>3. ASSUME NEW i \in DOMAIN Stops
      PROVE  x \in Prefixes(Stops[i]) \ {Stops[i], <<>>} <=>
               /\ 0 < Len(x) /\ Len(x) < Len(Stops[i])
               /\ \A k \in 1 .. Len(x) : x[k] = Stops[i][k]
  <2> DEFINE s == Stops[i]
  <2>1. s \in Seq(Symbols) /\ Len(s) \in Nat \ {0}
    BY StopIs
  <2> HIDE DEF s
  <2>2. x \in Prefixes(s) <=> Len(x) <= Len(s) /\ \A k \in 1 .. Len(x) : x[k] = s[k]
    BY <2>1, PrefixesAre, PrefixAt
  <2>3. ASSUME x = s PROVE Len(x) = Len(s)
    BY <2>3
  <2>4. ASSUME Len(x) = Len(s), \A k \in 1 .. Len(x) : x[k] = s[k] PROVE x = s
    BY <2>1, <2>4, SeqEqual
  <2>5. x \in Prefixes(s) \ {s, <<>>} <=>
          /\ 0 < Len(x) /\ Len(x) < Len(s)
          /\ \A k \in 1 .. Len(x) : x[k] = s[k]
    BY <1>2, <2>1, <2>2, <2>3, <2>4
  <2> QED BY <2>5 DEF s
<1>4. x \in ProperPrefixes <=> \E i \in DOMAIN Stops : x \in Prefixes(Stops[i]) \ {Stops[i], <<>>}
  BY <1>1 DEF ProperPrefixes
<1> QED BY <1>3, <1>4

\* What comes next cannot complete a stop sequence in what has been let through:
\* each one that occurs now is in what was held and what came.
LEMMA NoEarlyStop ==
  ASSUME NEW w \in Text, NEW p \in Text, NEW text \in Text, Clean(w \o p),
         \A n \in 0 .. Len(w \o p) : Drop(w \o p, n) \in ProperPrefixes => n >= Len(w)
  PROVE  \A i \in DOMAIN Stops : \A n \in Finds(w \o (p \o text), Stops[i]) :
            n - Len(w) \in Finds(p \o text, Stops[i])
<1> DEFINE held == w \o p
           now == p \o text
           whole == w \o now
<1>0. w \in Seq(Symbols) /\ p \in Seq(Symbols) /\ text \in Seq(Symbols)
  BY DEF Text
<1>1. Len(w) \in Nat /\ Len(p) \in Nat /\ Len(text) \in Nat
  BY <1>0, LenProperties
<1>2. /\ held \in Seq(Symbols) /\ Len(held) = Len(w) + Len(p)
      /\ now \in Seq(Symbols) /\ Len(now) = Len(p) + Len(text)
  BY <1>0, Joined
<1>5. /\ \A i \in DOMAIN Stops : Finds(held, Stops[i]) = {}
      /\ \A n \in 0 .. Len(held) : Drop(held, n) \in ProperPrefixes => n >= Len(w)
  BY DEF Clean
<1>3. /\ whole \in Seq(Symbols) /\ Len(whole) = Len(w) + Len(now)
      /\ \A i \in 1 .. Len(w) : whole[i] = w[i]
      /\ \A i \in 1 .. Len(now) : whole[Len(w) + i] = now[i]
  <2>1. now \in Seq(Symbols)
    BY <1>2
  <2> HIDE DEF now
  <2> QED BY <1>0, <2>1, Joined
<1>4. \A i \in 1 .. Len(held) : held[i] = whole[i]
  <2>1. whole = held \o text
    BY <1>0, ConcatAssociative
  <2>0. held \in Seq(Symbols)
    BY <1>2
  <2>2. \A i \in 1 .. Len(held) : (held \o text)[i] = held[i]
    <3> HIDE DEF held
    <3> QED BY <1>0, <2>0, Joined
  <2> QED BY <2>1, <2>2
<1>6. ASSUME NEW i \in DOMAIN Stops, NEW n \in Finds(whole, Stops[i])
      PROVE  n - Len(w) \in Finds(now, Stops[i])
  <2> DEFINE s == Stops[i]
  <2>1. s \in Seq(Symbols) /\ Len(s) \in Nat \ {0}
    BY StopIs
  <2>2. n \in Nat /\ n \in 0 .. Len(whole) - Len(s) /\ \A k \in 1 .. Len(s) : whole[n + k] = s[k]
    <3> HIDE DEF whole, s
    <3>1. Finds(whole, s) \subseteq 0 .. Len(whole) - Len(s) /\ Finds(whole, s) \subseteq Nat
      BY <1>3, <2>1, FindsAt
    <3>2. n \in Finds(whole, s)
      BY DEF s
    <3>3. n \in 0 .. Len(whole) - Len(s)
      BY <3>1, <3>2
    <3>4. whole \in Seq(Symbols) /\ s \in Seq(Symbols)
      BY <1>3, <2>1
    <3>5. \A k \in 1 .. Len(s) : whole[n + k] = s[k]
      BY <3>2, <3>3, <3>4, FindsAt
    <3> QED BY <3>1, <3>2, <3>3, <3>5
  <2>3. n >= Len(w)
    <3>1. SUFFICES ASSUME n < Len(w) PROVE FALSE
      BY <1>1, <2>2
    <3>2. CASE n + Len(s) <= Len(held)
      <4> HIDE DEF held, whole
      <4>1. n \in 0 .. Len(held) - Len(s)
        BY <1>2, <2>1, <2>2, <3>2
      <4>2. \A k \in 1 .. Len(s) : n + k \in 1 .. Len(held)
        BY <1>2, <2>1, <2>2, <3>2
      <4>3. \A k \in 1 .. Len(s) : held[n + k] = s[k]
        BY <1>4, <2>2, <4>2
      <4>4. n \in Finds(held, s)
        <5> HIDE DEF s
        <5> QED BY <1>2, <2>1, <4>1, <4>3, FindsAt
      <4> QED BY <1>5, <4>4 DEF s
    <3>3. CASE ~(n + Len(s) <= Len(held))
      <4> DEFINE x == Drop(held, n)
      <4> HIDE DEF held, whole
      <4>1. n \in 0 .. Len(held) /\ Len(held) \in Nat
        BY <1>1, <1>2, <2>2, <3>1
      <4>2. x \in Seq(Symbols) /\ Len(x) = Len(held) - n
            /\ \A k \in 1 .. Len(held) - n : x[k] = held[n + k]
        <5>1. held \in Seq(Symbols)
          BY <1>2
        <5> QED BY <4>1, <5>1, TakeDrop
      <4> HIDE DEF x
      <4>3. 0 < Len(x) /\ Len(x) < Len(s)
        BY <1>1, <1>2, <2>1, <2>2, <3>1, <3>3, <4>1, <4>2
      <4>4. \A k \in 1 .. Len(x) : x[k] = s[k]
        <5>1. TAKE k \in 1 .. Len(x)
        <5>2. k \in 1 .. Len(s) /\ n + k \in 1 .. Len(held)
          BY <2>1, <4>1, <4>2, <4>3
        <5> QED BY <1>4, <2>2, <4>2, <5>2
      <4>5. x \in ProperPrefixes
        BY <4>2, <4>3, <4>4, ProperPrefixAt DEF s
      <4> QED BY <1>1, <1>5, <2>2, <3>1, <4>1, <4>5 DEF x
    <3> QED BY <3>2, <3>3
  <2> DEFINE m == n - Len(w)
  <2> HIDE DEF whole, now, s
  <2>4. m \in Nat /\ m \in 0 .. Len(now) - Len(s)
    BY <1>1, <1>2, <1>3, <2>1, <2>2, <2>3
  <2>5. \A k \in 1 .. Len(s) : now[m + k] = s[k]
    <3>1. TAKE k \in 1 .. Len(s)
    <3>2. m + k \in 1 .. Len(now) /\ Len(w) + (m + k) = n + k
      BY <1>1, <1>2, <2>1, <2>2, <2>4
    <3> QED BY <1>3, <2>2, <3>2
  <2>6. m \in Finds(now, s)
    <3> HIDE DEF m
    <3> QED BY <1>2, <2>1, <2>4, <2>5, FindsAt
  <2> QED BY <2>6 DEF s
<1> QED BY <1>6

\* What occurs in a text occurs in the text with more after it.
LEMMA FindsMore ==
  ASSUME NEW S, NEW t \in Seq(S), NEW more \in Seq(S), NEW s \in Seq(S), NEW n \in Finds(t, s)
  PROVE  n \in Finds(t \o more, s)
<1>1. Len(t) \in Nat /\ Len(more) \in Nat /\ Len(s) \in Nat
  BY LenProperties
<1>2. n \in Nat /\ n \in 0 .. Len(t) - Len(s) /\ \A k \in 1 .. Len(s) : t[n + k] = s[k]
  <2>1. Finds(t, s) \subseteq 0 .. Len(t) - Len(s) /\ Finds(t, s) \subseteq Nat
    BY FindsAt
  <2>2. n \in Nat /\ n \in 0 .. Len(t) - Len(s)
    BY <2>1
  <2>3. \A k \in 1 .. Len(s) : t[n + k] = s[k]
    BY <2>2, FindsAt
  <2> QED BY <2>2, <2>3
<1>3. /\ t \o more \in Seq(S) /\ Len(t \o more) = Len(t) + Len(more)
      /\ \A i \in 1 .. Len(t) : (t \o more)[i] = t[i]
  BY Joined
<1> DEFINE u == t \o more
<1> HIDE DEF u
<1>4. u \in Seq(S) /\ Len(u) = Len(t) + Len(more) /\ \A i \in 1 .. Len(t) : u[i] = t[i]
  BY <1>3 DEF u
<1>5. n \in 0 .. Len(u) - Len(s)
  BY <1>1, <1>2, <1>4
<1>6. \A k \in 1 .. Len(s) : u[n + k] = s[k]
  <2>1. TAKE k \in 1 .. Len(s)
  <2>2. n + k \in 1 .. Len(t)
    BY <1>1, <1>2
  <2> QED BY <1>2, <1>4, <2>2
<1>7. n \in Finds(u, s)
  BY <1>4, <1>5, <1>6, FindsAt
<1> QED BY <1>7 DEF u

\* The stop filter cuts before the first stop sequence, and otherwise lets
\* through what none can begin in, whatever the chunks.
LEMMA StopPushOK ==
  ASSUME NEW f, NEW w, StopOK(f, w), NEW text \in Text
  PROVE  StopOK(StopPush(f, text), w \o StopPush(f, text).out)
<1> DEFINE p == f.pending
           now == p \o text
           found == UNION {Finds(now, Stops[i]) : i \in DOMAIN Stops}
           hit == First({i \in DOMAIN Stops: First(found) \in Finds(now, Stops[i])})
           kept == HeldFrom(now, ProperPrefixes)
<1>0. w \in Seq(Symbols) /\ p \in Seq(Symbols) /\ text \in Seq(Symbols) /\ <<>> \in Seq(Symbols)
      /\ Len(w) \in Nat
  BY EmptySeq, LenProperties DEF StopOK, Text
<1>1. /\ f \in [pending : Text, hit : 0 .. Len(Stops), out : Text]
      /\ p \in ProperPrefixes \cup {<<>>} /\ (f.hit # 0 => p = <<>>)
      /\ Clean(w) /\ Clean(w \o p)
      /\ f.hit = 0 => \A n \in 0 .. Len(w \o p) : Drop(w \o p, n) \in ProperPrefixes => n >= Len(w)
  BY DEF StopOK
<1>2. /\ f.hit # 0 => StopPush(f, text) = Stopping(p, f.hit, <<>>)
      /\ f.hit = 0 /\ found # {} =>
           StopPush(f, text) = Stopping(<<>>, hit, Take(now, First(found)))
      /\ f.hit = 0 /\ found = {} =>
           StopPush(f, text) = Stopping(Drop(now, kept), 0, Take(now, kept))
  BY DEF StopPush
<1>3. now \in Text /\ now \in Seq(Symbols) /\ Len(now) \in Nat
      /\ w \o now \in Seq(Symbols) /\ Len(w \o now) = Len(w) + Len(now)
  <2>1. now \in Seq(Symbols)
    BY <1>0, Joined
  <2> HIDE DEF now
  <2> QED BY <1>0, <2>1, Joined, LenProperties DEF Text
<1>4. ASSUME f.hit = 0
      PROVE  \A i \in DOMAIN Stops : \A n \in Finds(w \o now, Stops[i]) :
               n - Len(w) \in Finds(now, Stops[i])
  <2>1. w \in Text /\ p \in Text
    BY <1>0 DEF Text
  <2>2. \A n \in 0 .. Len(w \o p) : Drop(w \o p, n) \in ProperPrefixes => n >= Len(w)
    BY <1>1, <1>4
  <2> HIDE DEF p
  <2> QED BY <1>1, <2>1, <2>2, NoEarlyStop
<1>5. CASE f.hit # 0
  <2>1. StopPush(f, text) = Stopping(<<>>, f.hit, <<>>)
    BY <1>1, <1>2, <1>5
  <2>2. w \o <<>> = w
    BY <1>0, ConcatEmptySeq
  <2> QED BY <1>0, <1>1, <1>5, <2>1, <2>2 DEF StopOK, Stopping, Text
<1>6. CASE f.hit = 0 /\ found # {}
  <2> DEFINE m == First(found)
             out == Take(now, m)
  <2>1. /\ \A i \in DOMAIN Stops : Finds(now, Stops[i]) \subseteq 0 .. Len(now) - Len(Stops[i])
        /\ \A i \in DOMAIN Stops : Finds(now, Stops[i]) \subseteq Nat
        /\ \A i \in DOMAIN Stops : Stops[i] \in Seq(Symbols) /\ Len(Stops[i]) \in Nat \ {0}
    <3> HIDE DEF now
    <3> QED BY <1>3, StopIs, FindsAt
  <2>2. m \in found /\ \A n \in found : m <= n
    <3>1. found \in SUBSET Nat
      BY <2>1
    <3> HIDE DEF found
    <3> QED BY <1>6, <3>1, FirstLeast
  <2>3. PICK i \in DOMAIN Stops : m \in Finds(now, Stops[i])
    BY <2>2
  <2>4. m \in 0 .. Len(now)
    <3> HIDE DEF m, now
    <3> QED BY <1>3, <2>1, <2>3
  <2>5. hit \in DOMAIN Stops
    <3> DEFINE T == {j \in DOMAIN Stops: m \in Finds(now, Stops[j])}
    <3>1. T # {}
      BY <2>3
    <3>2. T \in SUBSET Nat
      <4>1. DOMAIN Stops = 1 .. Len(Stops)
        BY FilterConstants, LenProperties
      <4> QED BY <4>1
    <3>3. First(T) \in T
      <4> HIDE DEF T
      <4> QED BY <3>1, <3>2, FirstLeast
    <3> QED BY <3>3
  <2>6. hit \in 1 .. Len(Stops)
    BY <2>5, FilterConstants, LenProperties
  <2> HIDE DEF hit
  <2>7. /\ out \in Seq(Symbols) /\ Len(out) = m
        /\ \A k \in 1 .. m : out[k] = now[k]
    <3> HIDE DEF now, m
    <3> QED BY <1>3, <2>4, TakeDrop
  <2>8. StopPush(f, text) = Stopping(<<>>, hit, out)
    BY <1>2, <1>6
  <2> HIDE DEF out, m
  <2>9. w \o out \in Seq(Symbols) /\ (w \o out) \o <<>> = w \o out
    BY <1>0, <2>7, Joined, ConcatEmptySeq
  <2>10. Clean(w \o out)
    <3>1. SUFFICES ASSUME NEW j \in DOMAIN Stops, NEW n \in Finds(w \o out, Stops[j]) PROVE FALSE
      BY DEF Clean
    <3> DEFINE s == Stops[j]
               cut == w \o out
    <3>2. s \in Seq(Symbols) /\ Len(s) \in Nat \ {0}
      BY <2>1
    <3> HIDE DEF s
    <3>3. /\ cut \in Seq(Symbols) /\ Len(cut) = Len(w) + m
          /\ \A k \in 1 .. Len(w) : cut[k] = w[k]
          /\ \A k \in 1 .. m : cut[Len(w) + k] = now[k]
      <4>1. out \in Seq(Symbols)
        BY <2>7
      <4>2. /\ cut \in Seq(Symbols) /\ Len(cut) = Len(w) + Len(out)
            /\ \A k \in 1 .. Len(w) : cut[k] = w[k]
            /\ \A k \in 1 .. Len(out) : cut[Len(w) + k] = out[k]
        BY <1>0, <4>1, Joined
      <4> HIDE DEF cut
      <4> QED BY <2>7, <4>2
    <3> HIDE DEF cut
    <3>4. n \in Finds(cut, s)
      BY DEF cut, s
    <3>5. cut \in Seq(Symbols) /\ s \in Seq(Symbols)
      BY <3>2, <3>3
    <3>6. n \in Nat /\ n \in 0 .. Len(cut) - Len(s)
      BY ONLY <3>4, <3>5, FoundAt
    <3>7. \A k \in 1 .. Len(s) : cut[n + k] = s[k]
      BY ONLY <3>4, <3>5, FoundAt
    <3> DEFINE whole == w \o now
    <3>8. /\ whole \in Seq(Symbols) /\ Len(whole) = Len(w) + Len(now)
          /\ \A k \in 1 .. Len(w) : whole[k] = w[k]
          /\ \A k \in 1 .. Len(now) : whole[Len(w) + k] = now[k]
      <4> HIDE DEF now
      <4> QED BY <1>0, <1>3, Joined
    <3> HIDE DEF whole, now
    <3>9. \A k \in 1 .. Len(cut) : cut[k] = whole[k]
      <4>1. TAKE k \in 1 .. Len(cut)
      <4>2. CASE k <= Len(w)
        BY <1>0, <3>3, <3>8, <4>2
      <4>3. CASE ~(k <= Len(w))
        <5>1. k - Len(w) \in 1 .. m /\ k - Len(w) \in 1 .. Len(now) /\ Len(w) + (k - Len(w)) = k
          BY <1>0, <1>3, <2>4, <3>3, <4>3
        <5> QED BY <3>3, <3>8, <5>1
      <4> QED BY <4>2, <4>3
    <3>10. n \in 0 .. Len(whole) - Len(s)
      BY <1>0, <1>3, <2>4, <3>2, <3>3, <3>6, <3>8
    <3>11. \A k \in 1 .. Len(s) : whole[n + k] = s[k]
      <4>1. TAKE k \in 1 .. Len(s)
      <4>2. n + k \in 1 .. Len(cut)
        BY <1>0, <2>4, <3>2, <3>3, <3>6
      <4> QED BY <3>7, <3>9, <4>2
    <3>12. n \in Finds(whole, s)
      BY <3>2, <3>8, <3>10, <3>11, FindsAt
    <3>13. n - Len(w) \in Finds(now, Stops[j])
      BY <1>4, <1>6, <3>12 DEF whole, s
    <3>14. n - Len(w) \in Nat /\ m <= n - Len(w)
      BY <2>1, <2>2, <3>13
    <3> QED BY <1>0, <2>4, <3>2, <3>3, <3>6, <3>14
  <2> HIDE DEF now, p, found
  <2> QED BY <1>0, <2>6, <2>7, <2>8, <2>9, <2>10 DEF StopOK, Stopping, Text
<1>7. CASE f.hit = 0 /\ found = {}
  <2> DEFINE out == Take(now, kept)
             rest == Drop(now, kept)
             whole == w \o now
  <2>1. /\ kept \in 0 .. Len(now) /\ rest \in ProperPrefixes \cup {<<>>}
        /\ \A n \in 0 .. Len(now) : Drop(now, n) \in ProperPrefixes => kept <= n
    <3> HIDE DEF now
    <3> QED BY <1>3, HeldIs
  <2>2. StopPush(f, text) = Stopping(rest, 0, out)
    BY <1>2, <1>7
  <2> HIDE DEF kept
  <2>3. /\ out \in Seq(Symbols) /\ Len(out) = kept /\ rest \in Seq(Symbols) /\ out \o rest = now
    <3> HIDE DEF now
    <3> QED BY <1>3, <2>1, TakeDrop
  <2> HIDE DEF out, rest
  <2>4. /\ w \o out \in Seq(Symbols) /\ Len(w \o out) = Len(w) + kept
        /\ (w \o out) \o rest = whole
    <3>1. (w \o out) \o rest = w \o (out \o rest)
      <4>1. w \in Text /\ out \in Text /\ rest \in Text
        BY <1>0, <2>3 DEF Text
      <4> QED BY ONLY <4>1, JoinThree
    <3>2. w \o out \in Seq(Symbols) /\ Len(w \o out) = Len(w) + Len(out)
      BY <1>0, <2>3, Joined
    <3> QED BY <2>3, <3>1, <3>2
  <2>5. Clean(whole)
    BY <1>4, <1>7 DEF Clean
  <2>6. Clean(w \o out)
    <3>1. SUFFICES ASSUME NEW j \in DOMAIN Stops, NEW n \in Finds(w \o out, Stops[j]) PROVE FALSE
      BY DEF Clean
    <3> DEFINE s == Stops[j]
               cut == w \o out
    <3>2. s \in Seq(Symbols) /\ Len(s) \in Nat
      BY StopIs
    <3>3. cut \in Seq(Symbols) /\ Len(cut) = Len(w) + kept /\ cut \o rest = whole
      BY <2>4
    <3> HIDE DEF s, cut, whole
    <3>4. n \in Finds(cut, s)
      BY DEF cut, s
    <3>5. n \in Finds(whole, s)
      BY <2>3, <3>2, <3>3, <3>4, FindsMore
    <3> QED BY <2>5, <3>5 DEF Clean, s
  <2>7. ASSUME NEW n \in 0 .. Len(whole), Drop(whole, n) \in ProperPrefixes
        PROVE  n >= Len(w) + kept
    <3> DEFINE x == Drop(whole, n)
    <3>1. /\ whole \in Seq(Symbols) /\ Len(whole) = Len(w) + Len(now)
          /\ \A k \in 1 .. Len(w) : whole[k] = w[k]
          /\ \A k \in 1 .. Len(now) : whole[Len(w) + k] = now[k]
      <4> HIDE DEF now
      <4> QED BY <1>0, <1>3, Joined
    <3>2. x \in Seq(Symbols) /\ Len(x) = Len(whole) - n
          /\ \A k \in 1 .. Len(whole) - n : x[k] = whole[n + k]
      <4> HIDE DEF whole
      <4> QED BY <3>1, <2>7, TakeDrop
    <3>3. CASE n >= Len(w)
      <4> DEFINE m == n - Len(w)
                 y == Drop(now, m)
      <4>1. m \in 0 .. Len(now) /\ n = Len(w) + m
        <5> HIDE DEF now, whole
        <5> QED BY <1>0, <1>3, <2>7, <3>1, <3>3
      <4> HIDE DEF now, whole, m
      <4>2. y \in Seq(Symbols) /\ Len(y) = Len(now) - m
            /\ \A k \in 1 .. Len(now) - m : y[k] = now[m + k]
        BY <1>3, <4>1, TakeDrop
      <4>3. x = y
        <5>1. Len(x) = Len(y)
          BY <1>0, <1>3, <3>1, <3>2, <4>1, <4>2
        <5>2. ASSUME NEW k \in 1 .. Len(x) PROVE x[k] = y[k]
          <6>1. k \in 1 .. Len(whole) - n /\ k \in 1 .. Len(now) - m /\ m + k \in 1 .. Len(now)
                /\ Len(w) + (m + k) = n + k
            BY <1>0, <1>3, <3>1, <3>2, <4>1, <4>2
          <6> QED BY <3>1, <3>2, <4>2, <6>1
        <5> HIDE DEF x, y
        <5> QED BY <3>2, <4>2, <5>1, <5>2, SeqEqual
      <4> QED BY <1>0, <2>1, <2>7, <4>1, <4>3
    <3>4. CASE ~(n >= Len(w))
      <4> DEFINE held == w \o p
                 z == Drop(held, n)
      <4>1. held \in Seq(Symbols) /\ Len(held) = Len(w) + Len(p) /\ Len(p) \in Nat
            /\ Len(now) = Len(p) + Len(text) /\ Len(text) \in Nat
        <5> HIDE DEF p
        <5> QED BY <1>0, Joined, LenProperties
      <4>2. \A k \in 1 .. Len(held) : held[k] = whole[k]
        <5>1. whole = held \o text
          <6>1. w \in Text /\ p \in Text /\ text \in Text
            BY <1>0 DEF Text
          <6> HIDE DEF p
          <6>2. w \o (p \o text) = (w \o p) \o text
            BY ONLY <6>1, JoinThree
          <6> QED BY ONLY <6>2 DEF held, whole, now
        <5> HIDE DEF held, whole
        <5> QED BY <1>0, <4>1, <5>1, Joined
      <4>3. n \in 0 .. Len(held) /\ n < Len(held)
        <5> HIDE DEF p, held, now, whole
        <5> QED BY <1>0, <2>7, <3>4, <4>1
      <4>4. z \in Seq(Symbols) /\ Len(z) = Len(held) - n
            /\ \A k \in 1 .. Len(held) - n : z[k] = held[n + k]
        <5> HIDE DEF held
        <5> QED BY <4>1, <4>3, TakeDrop
      <4>5. PICK i \in DOMAIN Stops : /\ 0 < Len(x) /\ Len(x) < Len(Stops[i])
                                      /\ \A k \in 1 .. Len(x) : x[k] = Stops[i][k]
        <5> HIDE DEF x
        <5> QED BY <2>7, <3>2, ProperPrefixAt DEF x
      <4> HIDE DEF x, z, held, whole, now, p
      <4>6. Len(z) <= Len(x) /\ 0 < Len(z) /\ Len(z) \in Nat
        BY <1>0, <3>1, <3>2, <4>1, <4>3, <4>4
      <4>7. Len(Stops[i]) \in Nat
        BY StopIs
      <4>8. Len(z) < Len(Stops[i])
        BY <4>5, <4>6, <4>7, <3>2, LenProperties
      <4>9. \A k \in 1 .. Len(z) : z[k] = Stops[i][k]
        <5>1. TAKE k \in 1 .. Len(z)
        <5>2. k \in 1 .. Len(x) /\ k \in 1 .. Len(whole) - n /\ k \in 1 .. Len(held) - n
              /\ n + k \in 1 .. Len(held)
          BY <1>0, <3>1, <3>2, <4>1, <4>3, <4>4, <4>6
        <5> QED BY <3>2, <4>2, <4>4, <4>5, <5>2
      <4>10. z \in ProperPrefixes
        BY <4>4, <4>6, <4>8, <4>9, ProperPrefixAt
      <4>11. n >= Len(w)
        BY <1>1, <1>7, <4>3, <4>10 DEF z, held, p
      <4> QED BY <3>4, <4>11
    <3> QED BY <3>3, <3>4
  <2> DEFINE g == Stopping(rest, 0, out)
  <2>8. 0 \in 0 .. Len(Stops)
    <3>1. Len(Stops) \in Nat
      BY FilterConstants, LenProperties
    <3> QED BY <3>1
  <2>9. g = [pending |-> rest, hit |-> 0, out |-> out]
    BY DEF Stopping
  <2> HIDE DEF whole, now, p, found, g
  <2>10. /\ g \in [pending : Text, hit : 0 .. Len(Stops), out : Text]
         /\ g.pending = rest /\ g.hit = 0 /\ g.out = out
    BY <2>3, <2>8, <2>9 DEF Text
  <2>11. w \o out \in Text
    BY <2>4 DEF Text
  <2>12. StopOK(g, w \o out)
    <3> DEFINE v == w \o out
    <3>1. /\ v \o rest = whole /\ Len(v) = Len(w) + kept /\ v \in Text /\ Clean(v) /\ Clean(whole)
          /\ \A n \in 0 .. Len(whole) : Drop(whole, n) \in ProperPrefixes => n >= Len(v)
      BY <2>4, <2>5, <2>6, <2>7, <2>11
    <3> HIDE DEF v
    <3>2. StopOK(g, v)
      BY <2>1, <2>10, <3>1 DEF StopOK
    <3> QED BY <3>2 DEF v
  <2> QED BY <2>2, <2>10, <2>12 DEF g
<1> HIDE DEF found
<1> QED BY <1>1, <1>5, <1>6, <1>7

-----------------------------------------------------------------------------
(* OutputParser.                                                           *)

DeltaSet ==
  [tag : {"Text", "ToolStart", "ToolArguments", "ToolEnd"}, index : Nat, text : Text]
Parsers ==
  [arch : {"qwen3", "qwen35", "plain"}, choice : {"none", "auto", "required", "named"},
   pending : Text, inCall : BOOLEAN, scan : Nat, quoted : BOOLEAN, text : Text,
   calls : Seq(Text), error : BOOLEAN, deltas : Seq(DeltaSet)]

\* A text begins what it is joined to, and what begins a text begins more of it.
LEMMA PrefixJoin ==
  ASSUME NEW s \in Text, NEW t \in Text, NEW u \in Text
  PROVE  /\ IsPrefix(s, s \o t) /\ IsPrefix(s, s)
         /\ IsPrefix(s, t) => IsPrefix(s, t \o u)
<1>1. s \in Seq(Symbols) /\ t \in Seq(Symbols) /\ u \in Seq(Symbols)
      /\ Len(s) \in Nat /\ Len(t) \in Nat /\ Len(u) \in Nat
  BY LenProperties DEF Text
<1>2. /\ s \o t \in Seq(Symbols) /\ Len(s \o t) = Len(s) + Len(t)
      /\ \A i \in 1 .. Len(s) : (s \o t)[i] = s[i]
  BY <1>1, Joined
<1>3. /\ t \o u \in Seq(Symbols) /\ Len(t \o u) = Len(t) + Len(u)
      /\ \A i \in 1 .. Len(t) : (t \o u)[i] = t[i]
  BY <1>1, Joined
<1>4. IsPrefix(s, s \o t)
  <2> DEFINE v == s \o t
  <2>1. v \in Seq(Symbols) /\ Len(s) <= Len(v) /\ \A i \in 1 .. Len(s) : s[i] = v[i]
    BY <1>1, <1>2
  <2> HIDE DEF v
  <2>2. IsPrefix(s, v)
    BY <1>1, <2>1, PrefixAt
  <2> QED BY <2>2 DEF v
<1>5. IsPrefix(s, s)
  BY <1>1, PrefixAt
<1>6. ASSUME IsPrefix(s, t) PROVE IsPrefix(s, t \o u)
  <2> DEFINE v == t \o u
  <2>1. Len(s) <= Len(t) /\ \A k \in 1 .. Len(s) : s[k] = t[k]
    BY <1>1, <1>6, PrefixAt
  <2>2. v \in Seq(Symbols) /\ Len(s) <= Len(v)
    BY <1>1, <1>3, <2>1
  <2>3. \A i \in 1 .. Len(s) : s[i] = v[i]
    <3>1. \A i \in 1 .. Len(s) : i \in 1 .. Len(t)
      BY <1>1, <2>1
    <3> QED BY <1>3, <2>1, <3>1
  <2> HIDE DEF v
  <2>4. IsPrefix(s, v)
    BY <1>1, <2>2, <2>3, PrefixAt
  <2> QED BY <2>4 DEF v
<1> QED BY <1>4, <1>5, <1>6

\* t is p but for its text, its deltas and its error.
Kept(p, t) ==
  /\ t \in Parsers /\ t.arch = p.arch /\ t.choice = p.choice /\ t.pending = p.pending
  /\ t.inCall = p.inCall /\ t.scan = p.scan /\ t.quoted = p.quoted /\ t.calls = p.calls

\* A parser that breaks keeps what it has.
LEMMA BrokenIs ==
  ASSUME NEW p \in Parsers
  PROVE  Kept(p, Broken(p)) /\ Broken(p).error /\ Broken(p).text = p.text
         /\ Broken(p).deltas = <<>>
<1>1. <<>> \in Seq(DeltaSet)
  OBVIOUS
<1> QED BY <1>1 DEF Kept, Broken, Parsers

\* Where a tag begins in what is pending, what comes before it and after.
LEMMA MarkersAt ==
  ASSUME NEW p \in Parsers, Markers(p) # {}
  PROVE  /\ First(Markers(p)) \in Markers(p) /\ First(Markers(p)) \in 0 .. Len(p.pending)
         /\ Take(p.pending, First(Markers(p))) \in Text
         /\ Drop(p.pending, First(Markers(p))) \in Text
         /\ Take(p.pending, First(Markers(p))) \o Drop(p.pending, First(Markers(p))) = p.pending
         /\ Len(Drop(p.pending, First(Markers(p)))) = Len(p.pending) - First(Markers(p))
<1> DEFINE t == p.pending
           M == Markers(p)
<1>1. t \in Seq(Symbols) /\ Len(t) \in Nat
  BY LenProperties DEF Parsers, Text
<1>2. M \subseteq 0 .. Len(t)
  <2>1. M = UNION {Finds(t, tag) : tag \in MARKERS}
    BY DEF Markers
  <2>2. ASSUME NEW tag \in MARKERS PROVE Finds(t, tag) \subseteq 0 .. Len(t)
    <3>1. tag \in Seq(Symbols) /\ Len(tag) \in Nat
      BY Tags, LenProperties DEF Text
    <3>2. Finds(t, tag) \subseteq 0 .. Len(t) - Len(tag)
      <4> HIDE DEF t
      <4> QED BY <1>1, <3>1, FindsAt
    <3> HIDE DEF t
    <3> QED BY <1>1, <3>1, <3>2
  <2> QED BY <2>1, <2>2
<1> HIDE DEF M, t
<1>3. First(M) \in M /\ First(M) \in 0 .. Len(t)
  <2>1. M \in SUBSET Nat
    BY <1>1, <1>2
  <2> QED BY <1>2, <2>1, FirstLeast DEF M
<1> DEFINE n == First(M)
<1> HIDE DEF n
<1>4. n \in 0 .. Len(t)
  BY <1>3 DEF n
<1>5. /\ Take(t, n) \in Seq(Symbols) /\ Drop(t, n) \in Seq(Symbols) /\ Take(t, n) \o Drop(t, n) = t
      /\ Len(Drop(t, n)) = Len(t) - n
  BY <1>1, <1>4, TakeDrop
<1> QED BY <1>3, <1>5 DEF n, M, t, Text

\* What is held outside a call is the start of a tag that is not whole.
Pend(p) ==
  ~p.error /\ ~p.inCall =>
    IsStrictPrefix(p.pending, OPEN) \/ IsPrefix(p.pending, <<"<", "/">>)

\* Nothing that is held is the start of a tag.
LEMMA NothingHeld ==
  /\ IsStrictPrefix(<<>>, OPEN)
  /\ \A p : p.pending = <<>> => Pend(p)
<1> DEFINE y == <<>>
<1>1. y \in Seq(Symbols) /\ OPEN \in Seq(Symbols) /\ Len(y) = 0 /\ Len(OPEN) = 4
  BY Tags DEF Text
<1>2. y # OPEN
  BY DEF OPEN
<1> HIDE DEF y
<1>3. Len(y) <= Len(OPEN) /\ \A k \in 1 .. Len(y) : y[k] = OPEN[k]
  BY <1>1
<1>4. IsPrefix(y, OPEN)
  BY <1>1, <1>3, PrefixAt
<1>5. IsStrictPrefix(y, OPEN)
  BY <1>2, <1>4 DEF IsStrictPrefix
<1> QED BY <1>5 DEF y, Pend

\* The start of a marker, and not all of it.
LEMMA MarkerStart ==
  ASSUME NEW y \in Text, NEW tag \in MARKERS, IsPrefix(y, tag), y # tag
  PROVE  IsStrictPrefix(y, OPEN) \/ IsPrefix(y, <<"<", "/">>)
<1>1. /\ tag \in Seq(Symbols) /\ OPEN \in Seq(Symbols) /\ <<"<", "/">> \in Seq(Symbols)
      /\ y \in Seq(Symbols) /\ Len(y) \in Nat /\ Len(tag) = 3 /\ Len(OPEN) = 4
  <2>1. "<" \in Symbols /\ "/" \in Symbols
    BY FilterConstants
  <2>2. Len(tag) = 3
    BY DEF MARKERS
  <2> QED BY <2>1, <2>2, Tags, LenProperties DEF Text
<1>2. Len(y) <= 3 /\ \A k \in 1 .. Len(y) : y[k] = tag[k]
  BY <1>1, PrefixAt
<1>3. Len(y) # 3
  <2> SUFFICES ASSUME Len(y) = 3 PROVE FALSE
    OBVIOUS
  <2>1. Len(y) = Len(tag) /\ \A k \in 1 .. Len(y) : y[k] = tag[k]
    BY <1>1, <1>2
  <2> QED BY <1>1, <2>1, SeqEqual
<1>4. CASE tag = <<"<", "t", "o">>
  <2>1. OPEN[1] = tag[1] /\ OPEN[2] = tag[2]
    BY <1>4 DEF OPEN
  <2>2. \A k \in 1 .. Len(y) : k = 1 \/ k = 2
    BY <1>1, <1>2, <1>3
  <2>3. Len(y) <= Len(OPEN) /\ \A k \in 1 .. Len(y) : y[k] = OPEN[k]
    BY <1>1, <1>2, <2>1, <2>2
  <2>4. IsPrefix(y, OPEN)
    BY <1>1, <2>3, PrefixAt
  <2>5. y # OPEN
    BY <1>1, <1>2
  <2> QED BY <2>4, <2>5 DEF IsStrictPrefix
<1>5. CASE tag = <<"<", "/", "o">>
  <2> DEFINE u == <<"<", "/">>
  <2>1. u[1] = tag[1] /\ u[2] = tag[2] /\ Len(u) = 2 /\ u \in Seq(Symbols)
    BY <1>1, <1>5
  <2>2. \A k \in 1 .. Len(y) : k = 1 \/ k = 2
    BY <1>1, <1>2, <1>3
  <2>3. Len(y) <= Len(u) /\ \A k \in 1 .. Len(y) : y[k] = u[k]
    <3> HIDE DEF u
    <3> QED BY <1>1, <1>2, <1>3, <2>1, <2>2
  <2> HIDE DEF u
  <2>4. IsPrefix(y, u)
    BY <1>1, <2>1, <2>3, PrefixAt
  <2> QED BY <2>4 DEF u
<1> QED BY <1>4, <1>5 DEF MARKERS

-----------------------------------------------------------------------------
(* What can begin where in a text, and how cuts of it go together.         *)

\* tag can begin at i in t: nothing of t speaks against it.
Reads(tag, t, i) == \A k \in 1 .. Len(tag) : i + k <= Len(t) => t[i + k] = tag[k]

\* What begins a text that is left after i symbols.
LEMMA ReadsAt ==
  ASSUME NEW t \in Text, NEW tag \in Text, NEW i \in 0 .. Len(t)
  PROVE  /\ IsPrefix(tag, Drop(t, i)) <=> i + Len(tag) <= Len(t) /\ Reads(tag, t, i)
         /\ IsPrefix(Drop(t, i), tag) <=> Len(t) <= i + Len(tag) /\ Reads(tag, t, i)
         /\ IsStrictPrefix(Drop(t, i), tag) <=> Len(t) < i + Len(tag) /\ Reads(tag, t, i)
<1> DEFINE u == Drop(t, i)
<1>1. /\ t \in Seq(Symbols) /\ tag \in Seq(Symbols) /\ Len(t) \in Nat /\ Len(tag) \in Nat /\ i \in Nat
      /\ i <= Len(t)
  BY LenProperties DEF Text
<1>2. /\ u \in Seq(Symbols) /\ Len(u) = Len(t) - i
      /\ \A k \in 1 .. Len(t) - i : u[k] = t[i + k]
  BY <1>1, TakeDrop
<1> HIDE DEF u
<1>20. u \in Seq(Symbols) /\ tag \in Seq(Symbols)
  BY <1>1, <1>2
<1>3. IsPrefix(tag, u) <=> Len(tag) <= Len(u) /\ \A k \in 1 .. Len(tag) : tag[k] = u[k]
  BY ONLY <1>20, PrefixAt
<1>4. IsPrefix(u, tag) <=> Len(u) <= Len(tag) /\ \A k \in 1 .. Len(u) : u[k] = tag[k]
  BY ONLY <1>20, PrefixAt
<1>5. ASSUME i + Len(tag) <= Len(t)
      PROVE  (\A k \in 1 .. Len(tag) : tag[k] = u[k]) <=> Reads(tag, t, i)
  <2>1. ASSUME NEW k \in 1 .. Len(tag) PROVE i + k <= Len(t) /\ u[k] = t[i + k]
    <3>1. k \in 1 .. Len(t) - i
      BY <1>1, <1>5
    <3> QED BY <1>1, <1>2, <3>1
  <2> QED BY <2>1 DEF Reads
<1>6. ASSUME Len(t) <= i + Len(tag)
      PROVE  (\A k \in 1 .. Len(u) : u[k] = tag[k]) <=> Reads(tag, t, i)
  <2>1. \A k \in 1 .. Len(u) : k \in 1 .. Len(tag) /\ i + k <= Len(t) /\ u[k] = t[i + k]
    BY <1>1, <1>2, <1>6
  <2>2. \A k \in 1 .. Len(tag) : i + k <= Len(t) => k \in 1 .. Len(u)
    BY <1>1, <1>2
  <2> QED BY <2>1, <2>2 DEF Reads
<1>7. Len(tag) <= Len(u) <=> i + Len(tag) <= Len(t)
  BY <1>1, <1>2
<1>8. Len(u) <= Len(tag) <=> Len(t) <= i + Len(tag)
  BY <1>1, <1>2
<1>9. IsPrefix(tag, u) <=> i + Len(tag) <= Len(t) /\ Reads(tag, t, i)
  BY <1>3, <1>5, <1>7
<1>10. IsPrefix(u, tag) <=> Len(t) <= i + Len(tag) /\ Reads(tag, t, i)
  BY <1>4, <1>6, <1>8
<1>11. ASSUME IsPrefix(u, tag) PROVE u = tag <=> Len(u) = Len(tag)
  <2>1. \A k \in 1 .. Len(u) : u[k] = tag[k]
    BY <1>4, <1>11
  <2> QED BY <1>1, <1>2, <2>1, SeqEqual
<1>12. IsStrictPrefix(u, tag) <=> Len(t) < i + Len(tag) /\ Reads(tag, t, i)
  <2>1. Len(u) # Len(tag) <=> Len(t) # i + Len(tag)
    BY <1>1, <1>2
  <2>2. Len(t) < i + Len(tag) <=> Len(t) <= i + Len(tag) /\ Len(t) # i + Len(tag)
    BY <1>1
  <2> QED BY <1>10, <1>11, <2>1, <2>2 DEF IsStrictPrefix
<1> QED BY <1>9, <1>10, <1>12 DEF u

\* What can begin in a text with more after it can begin in the text, and a tag
\* that is whole there is whole in both.
LEMMA ReadsMore ==
  ASSUME NEW t \in Text, NEW x \in Text, NEW tag \in Text, NEW i \in Nat
  PROVE  /\ Reads(tag, t \o x, i) => Reads(tag, t, i)
         /\ i + Len(tag) <= Len(t) /\ Reads(tag, t, i) => Reads(tag, t \o x, i)
<1> DEFINE u == t \o x
<1>1. /\ t \in Seq(Symbols) /\ x \in Seq(Symbols) /\ Len(t) \in Nat /\ Len(x) \in Nat
      /\ Len(tag) \in Nat
  BY LenProperties DEF Text
<1>2. Len(u) = Len(t) + Len(x) /\ \A k \in 1 .. Len(t) : u[k] = t[k]
  BY <1>1, Joined
<1> HIDE DEF u
<1>3. ASSUME NEW k \in 1 .. Len(tag), i + k <= Len(t) PROVE i + k <= Len(u) /\ u[i + k] = t[i + k]
  <2>1. i + k \in 1 .. Len(t)
    BY <1>1, <1>3
  <2> QED BY <1>1, <1>2, <2>1
<1>4. Reads(tag, u, i) => Reads(tag, t, i)
  BY <1>3 DEF Reads
<1>5. ASSUME i + Len(tag) <= Len(t), Reads(tag, t, i) PROVE Reads(tag, u, i)
  <2>1. \A k \in 1 .. Len(tag) : i + k <= Len(t)
    BY <1>1, <1>5
  <2> QED BY <1>3, <1>5, <2>1 DEF Reads
<1> QED BY <1>4, <1>5 DEF u

\* What can begin in the rest of a text can begin in the text.
LEMMA ReadsLater ==
  ASSUME NEW t \in Text, NEW tag \in Text, NEW n \in 0 .. Len(t), NEW i \in Nat
  PROVE  Reads(tag, Drop(t, n), i) <=> Reads(tag, t, n + i)
<1> DEFINE u == Drop(t, n)
<1>1. t \in Seq(Symbols) /\ Len(t) \in Nat /\ Len(tag) \in Nat /\ n \in Nat
  BY LenProperties DEF Text
<1>2. Len(u) = Len(t) - n /\ \A k \in 1 .. Len(t) - n : u[k] = t[n + k]
  BY <1>1, TakeDrop
<1> HIDE DEF u
<1>3. ASSUME NEW k \in 1 .. Len(tag)
      PROVE  /\ i + k <= Len(u) <=> (n + i) + k <= Len(t)
             /\ i + k <= Len(u) => u[i + k] = t[(n + i) + k]
  <2>1. i + k <= Len(u) <=> (n + i) + k <= Len(t)
    BY <1>1, <1>2
  <2>2. ASSUME i + k <= Len(u) PROVE u[i + k] = t[(n + i) + k]
    <3>1. i + k \in 1 .. Len(t) - n /\ n + (i + k) = (n + i) + k
      BY <1>1, <1>2, <2>2
    <3> QED BY <1>2, <3>1
  <2> QED BY <2>1, <2>2
<1>4. Reads(tag, u, i) <=> Reads(tag, t, n + i)
  BY <1>3 DEF Reads
<1> QED BY <1>4 DEF u

\* The parts of a text with more after it.
LEMMA CutsMore ==
  ASSUME NEW t \in Text, NEW x \in Text, NEW n \in 0 .. Len(t)
  PROVE  /\ t \o x \in Text /\ Len(t \o x) = Len(t) + Len(x) /\ n \in 0 .. Len(t \o x)
         /\ Take(t \o x, n) = Take(t, n) /\ Drop(t \o x, n) = Drop(t, n) \o x
<1> DEFINE u == t \o x
           d == Drop(t, n)
           e == Drop(u, n)
           dx == d \o x
<1>1. /\ t \in Seq(Symbols) /\ x \in Seq(Symbols) /\ Len(t) \in Nat /\ Len(x) \in Nat /\ n \in Nat
      /\ n <= Len(t)
  BY LenProperties DEF Text
<1>2. /\ u \in Seq(Symbols) /\ Len(u) = Len(t) + Len(x) /\ \A k \in 1 .. Len(t) : u[k] = t[k]
      /\ \A k \in 1 .. Len(x) : u[Len(t) + k] = x[k]
  BY <1>1, Joined
<1> HIDE DEF u
<1>3. n \in 0 .. Len(u)
  BY <1>1, <1>2
<1>4. Take(u, n) = Take(t, n)
  <2>1. /\ Take(u, n) \in Seq(Symbols) /\ Len(Take(u, n)) = n
        /\ \A k \in 1 .. n : Take(u, n)[k] = u[k]
    BY <1>2, <1>3, TakeDrop
  <2>2. /\ Take(t, n) \in Seq(Symbols) /\ Len(Take(t, n)) = n
        /\ \A k \in 1 .. n : Take(t, n)[k] = t[k]
    BY <1>1, TakeDrop
  <2> DEFINE a == Take(u, n)
             b == Take(t, n)
  <2>3. \A k \in 1 .. n : k \in 1 .. Len(t)
    BY <1>1
  <2>4. \A k \in 1 .. Len(a) : a[k] = b[k]
    BY <1>2, <2>1, <2>2, <2>3
  <2> HIDE DEF a, b
  <2>5. a \in Seq(Symbols) /\ b \in Seq(Symbols) /\ Len(a) = Len(b)
    BY <2>1, <2>2 DEF a, b
  <2>6. a = b
    BY <2>4, <2>5, SeqEqual
  <2> QED BY <2>6 DEF a, b
<1>5. e = dx
  <2>1. /\ e \in Seq(Symbols) /\ Len(e) = Len(u) - n
        /\ \A k \in 1 .. Len(u) - n : e[k] = u[n + k]
    BY <1>2, <1>3, TakeDrop
  <2>2. /\ d \in Seq(Symbols) /\ Len(d) = Len(t) - n
        /\ \A k \in 1 .. Len(t) - n : d[k] = t[n + k]
    BY <1>1, TakeDrop
  <2> HIDE DEF d, e
  <2>3. /\ dx \in Seq(Symbols) /\ Len(dx) = Len(d) + Len(x) /\ \A k \in 1 .. Len(d) : dx[k] = d[k]
        /\ \A k \in 1 .. Len(x) : dx[Len(d) + k] = x[k]
    <3>1. d \in Seq(Symbols)
      BY <2>2
    <3> QED BY ONLY <1>1, <3>1, Joined
  <2> HIDE DEF dx
  <2>4. Len(e) = Len(dx)
    BY <1>1, <1>2, <2>1, <2>2, <2>3
  <2>5. ASSUME NEW k \in 1 .. Len(e) PROVE e[k] = dx[k]
    <3>1. e[k] = u[n + k]
      BY <2>1
    <3>2. CASE k <= Len(d)
      <4>1. k \in 1 .. Len(t) - n /\ n + k \in 1 .. Len(t) /\ k \in 1 .. Len(d)
        BY <1>1, <2>2, <3>2
      <4> QED BY <1>2, <2>2, <2>3, <3>1, <4>1
    <3>3. CASE ~(k <= Len(d))
      <4>1. /\ k - Len(d) \in 1 .. Len(x) /\ Len(d) + (k - Len(d)) = k
            /\ Len(t) + (k - Len(d)) = n + k
        BY <1>1, <1>2, <2>1, <2>2, <3>3
      <4> QED BY <1>2, <2>3, <3>1, <4>1
    <3> QED BY <3>2, <3>3
  <2> QED BY <2>1, <2>3, <2>4, <2>5, SeqEqual
<1> QED BY <1>2, <1>3, <1>4, <1>5 DEF u, Text

\* A text cut at n and then m symbols later.
LEMMA CutsTwice ==
  ASSUME NEW t \in Text, NEW n \in 0 .. Len(t), NEW m \in 0 .. Len(t) - n
  PROVE  /\ n + m \in 0 .. Len(t) /\ Len(Drop(t, n)) = Len(t) - n /\ Drop(t, n) \in Text
         /\ m \in 0 .. Len(Drop(t, n))
         /\ Drop(Drop(t, n), m) = Drop(t, n + m)
         /\ Take(t, n) \o Take(Drop(t, n), m) = Take(t, n + m)
<1> DEFINE a == Take(t, n)
           u == Drop(t, n)
           b == Take(u, m)
           v == Drop(u, m)
<1>1. t \in Seq(Symbols) /\ Len(t) \in Nat /\ n \in Nat /\ m \in Nat /\ n + m \in 0 .. Len(t)
  BY LenProperties DEF Text
<1>2. a \in Seq(Symbols) /\ Len(a) = n /\ u \in Seq(Symbols) /\ Len(u) = Len(t) - n /\ a \o u = t
  BY <1>1, TakeDrop
<1> HIDE DEF a, u
<1>3. m \in 0 .. Len(u)
  BY <1>1, <1>2
<1>4. b \in Seq(Symbols) /\ Len(b) = m /\ v \in Seq(Symbols) /\ b \o v = u
  BY <1>2, <1>3, TakeDrop
<1> HIDE DEF b, v
<1> DEFINE ab == a \o b
<1>5. ab \in Seq(Symbols) /\ Len(ab) = n + m /\ t = ab \o v
  <2>1. a \o (b \o v) = (a \o b) \o v
    <3>1. a \in Text /\ b \in Text /\ v \in Text
      BY <1>2, <1>4 DEF Text
    <3> HIDE DEF ab
    <3> QED BY <3>1, JoinThree
  <2>2. ab \in Seq(Symbols) /\ Len(ab) = n + m
    BY <1>2, <1>4, Joined
  <2> QED BY <1>2, <1>4, <2>1, <2>2
<1> HIDE DEF ab
<1>6. n + m \in 0 .. Len(ab)
  BY <1>1, <1>5
<1>7. Take(t, n + m) = Take(ab, n + m) /\ Drop(t, n + m) = Drop(ab, n + m) \o v
  BY <1>4, <1>5, <1>6, CutsMore DEF Text
<1>8. Take(ab, n + m) = ab /\ Drop(ab, n + m) = <<>>
  <2> DEFINE c == Take(ab, n + m)
             d == Drop(ab, n + m)
  <2>1. d \in Seq(Symbols) /\ Len(d) = Len(ab) - (n + m) /\ c \o d = ab /\ c \in Seq(Symbols)
    BY <1>5, <1>6, TakeDrop
  <2>2. Len(ab) - (n + m) = 0
    BY <1>1, <1>5
  <2> HIDE DEF c, d
  <2>3. d = <<>>
    BY <2>1, <2>2, EmptySeq
  <2>4. c \o <<>> = c
    BY <2>1, ConcatEmptySeq
  <2> QED BY <2>1, <2>3, <2>4 DEF c, d
<1>9. <<>> \o v = v
  BY <1>4, ConcatEmptySeq
<1> QED BY <1>1, <1>2, <1>3, <1>7, <1>8, <1>9 DEF a, b, u, v, ab, Text

-----------------------------------------------------------------------------
(* How far call_close scans.                                               *)

\* How a scan for the end of a call goes on from where it left off to n: Q
\* tells which of the symbols it passes end inside quotes.
Scans(p, Q, n) ==
  /\ n \in p.scan .. Len(p.pending) /\ Q[p.scan] = p.quoted
  /\ \A i \in p.scan + 1 .. n :
       Q[i] = (Q[i - 1] # (p.arch = "qwen3" /\ p.pending[i] = "\""))
  /\ \A i \in p.scan .. n - 1 : Q[i] \/ ~Reads(CLOSE, p.pending, i)
  /\ n < Len(p.pending) => ~Q[n] /\ Reads(CLOSE, p.pending, n)

\* call_close scans.
LEMMA CallCloseScans ==
  ASSUME NEW p \in Parsers, p.scan <= Len(p.pending)
  PROVE  \E Q : Scans(p, Q, CallClose(p).scan) /\ CallClose(p).quoted = Q[CallClose(p).scan]
                /\ CallClose(p) = [scan |-> CallClose(p).scan, quoted |-> CallClose(p).quoted]
<1> DEFINE s == p.scan
           t == p.pending
           L == Len(t)
           quote(i) == p.arch = "qwen3" /\ t[i] = "\""
           Rec(f) == f = [i \in s .. L |-> IF i = s THEN p.quoted ELSE f[i - 1] # quote(i)]
           quoted == CHOOSE f : Rec(f)
           closes == {i \in s .. L:
                        /\ ~quoted[i]
                        /\ i < L /\ t[i + 1] = "<"
                        /\ \/ IsPrefix(CLOSE, Drop(t, i))
                           \/ IsPrefix(Drop(t, i), CLOSE)}
           stop == First(closes \cup {L})
<1>1. /\ s \in Nat /\ L \in Nat /\ s <= L /\ p.quoted \in BOOLEAN /\ t \in Text /\ t \in Seq(Symbols)
      /\ CLOSE \in Text /\ Len(CLOSE) = 4
  BY LenProperties, Tags DEF Parsers, Text
<1>2. CallClose(p) = [scan |-> stop, quoted |-> quoted[stop]]
  BY DEF CallClose
<1>3. /\ stop \in s .. L /\ stop \in closes \cup {L} /\ \A i \in closes \cup {L} : stop <= i
  <2> DEFINE S == closes \cup {L}
  <2>1. S \in SUBSET Nat /\ S # {} /\ S \subseteq s .. L
    <3>1. closes \subseteq s .. L
      OBVIOUS
    <3> HIDE DEF closes, s, L
    <3> QED BY <1>1, <3>1
  <2>2. First(S) \in S /\ \A i \in S : First(S) <= i
    <3> HIDE DEF S
    <3> QED BY <2>1, FirstLeast
  <2> HIDE DEF closes, L, s
  <2> QED BY <2>1, <2>2
<1>4. \E f : Rec(f)
  <2> DEFINE N == L - s
             A == BOOLEAN
             step == [n \in 1 .. N |-> [x \in A |-> x # quote(s + n)]]
  <2>1. N \in Nat /\ p.quoted \in A
    BY <1>1
  <2>2. step \in [1 .. N -> [A -> A]] /\ \A n \in 1 .. N : \A x \in A : step[n][x] = (x # quote(s + n))
    OBVIOUS
  <2> HIDE DEF step
  <2>3. PICK f \in [0 .. N -> A] : Iterates(f, p.quoted, N, step)
    <3> HIDE DEF N, A
    <3> QED BY <2>1, <2>2, Recursion
  <2> DEFINE g == [i \in s .. L |-> f[i - s]]
  <2>4. ASSUME NEW i \in s .. L PROVE g[i] = IF i = s THEN p.quoted ELSE g[i - 1] # quote(i)
    <3>1. CASE i = s
      <4>1. i - s = 0
        BY <1>1, <3>1
      <4> QED BY <2>3, <3>1, <4>1 DEF Iterates
    <3>2. CASE i # s
      <4> DEFINE n == i - s
      <4>1. n \in 1 .. N /\ n - 1 \in 0 .. N /\ i - 1 \in s .. L /\ (i - 1) - s = n - 1 /\ s + n = i
        <5> HIDE DEF s, L, g
        <5> QED BY <1>1, <3>2
      <4>2. f[n] = step[n][f[n - 1]] /\ f[n - 1] \in A
        <5> HIDE DEF n, N, A
        <5> QED BY <2>3, <4>1 DEF Iterates
      <4>3. f[n] = (f[n - 1] # quote(s + n))
        <5> HIDE DEF n, N, A
        <5> QED BY <2>2, <4>1, <4>2
      <4>4. g[i] = f[n] /\ g[i - 1] = f[n - 1]
        BY <4>1
      <4> HIDE DEF g, n, quote
      <4> QED BY <3>2, <4>1, <4>3, <4>4
    <3> QED BY <3>1, <3>2
  <2>5. g = [i \in s .. L |-> IF i = s THEN p.quoted ELSE g[i - 1] # quote(i)]
    <3>1. g = [i \in s .. L |-> g[i]]
      OBVIOUS
    <3> HIDE DEF g, quote
    <3> QED BY <2>4, <3>1
  <2>6. Rec(g)
    BY <2>5
  <2> HIDE DEF g, Rec
  <2> QED BY <2>6
<1>5. Rec(quoted)
  <2> HIDE DEF Rec
  <2> QED BY <1>4
<1> HIDE DEF quoted
<1>6. quoted[s] = p.quoted /\ \A i \in s + 1 .. L : quoted[i] = (quoted[i - 1] # quote(i))
  <2>1. \A i \in s .. L : quoted[i] = IF i = s THEN p.quoted ELSE quoted[i - 1] # quote(i)
    <3> HIDE DEF quote
    <3> QED BY <1>5
  <2>2. s \in s .. L /\ \A i \in s + 1 .. L : i \in s .. L /\ i # s
    BY <1>1
  <2> HIDE DEF quote, s, L
  <2> QED BY <2>1, <2>2
<1>7. \A i \in s .. L : i \in closes <=> ~quoted[i] /\ i < L /\ Reads(CLOSE, t, i)
  <2> SUFFICES ASSUME NEW i \in s .. L
               PROVE  i \in closes <=> ~quoted[i] /\ i < L /\ Reads(CLOSE, t, i)
    OBVIOUS
  <2>1. i \in Nat /\ i \in 0 .. L
    BY <1>1
  <2>2. /\ IsPrefix(CLOSE, Drop(t, i)) <=> i + 4 <= L /\ Reads(CLOSE, t, i)
        /\ IsPrefix(Drop(t, i), CLOSE) <=> L <= i + 4 /\ Reads(CLOSE, t, i)
    <3> HIDE DEF s, quote, closes
    <3> QED BY <1>1, <2>1, ReadsAt
  <2>3. (IsPrefix(CLOSE, Drop(t, i)) \/ IsPrefix(Drop(t, i), CLOSE)) <=> Reads(CLOSE, t, i)
    <3> HIDE DEF s, quote, closes, t, L
    <3> QED BY <1>1, <2>1, <2>2
  <2>4. ASSUME i < L, Reads(CLOSE, t, i) PROVE t[i + 1] = "<"
    <3>1. 1 \in 1 .. Len(CLOSE) /\ i + 1 <= L /\ CLOSE[1] = "<"
      BY <1>1, <2>1, <2>4 DEF CLOSE
    <3> QED BY <2>4, <3>1 DEF Reads
  <2> QED BY <2>3, <2>4
<1> HIDE DEF closes
<1> DEFINE n == stop
<1>8. n \in s .. L /\ (n = L \/ n \in closes) /\ \A i \in closes : n <= i
  BY <1>3
<1> HIDE DEF n, stop
<1>9. Scans(p, quoted, n)
  <2>1. \A i \in s + 1 .. n : i \in s + 1 .. L
    BY <1>1, <1>8
  <2>2. \A i \in s + 1 .. n : quoted[i] = (quoted[i - 1] # quote(i))
    BY <1>6, <2>1
  <2>3. ASSUME NEW i \in s .. n - 1 PROVE quoted[i] \/ ~Reads(CLOSE, t, i)
    <3>1. i \in s .. L /\ i < L /\ ~(n <= i)
      BY <1>1, <1>8
    <3>2. i \notin closes
      BY <1>8, <3>1
    <3> QED BY <1>7, <3>1, <3>2
  <2>4. n < L => ~quoted[n] /\ Reads(CLOSE, t, n)
    BY <1>1, <1>7, <1>8
  <2> QED BY <1>6, <1>8, <2>2, <2>3, <2>4 DEF Scans
<1>10. CallClose(p).scan = n /\ CallClose(p).quoted = quoted[n]
       /\ CallClose(p) = [scan |-> n, quoted |-> quoted[n]]
  BY <1>2 DEF n
<1> QED BY <1>9, <1>10

\* Where a scan for the end of a call stops.
LEMMA CallCloseIs ==
  ASSUME NEW p \in Parsers, p.scan <= Len(p.pending)
  PROVE  CallClose(p).scan \in 0 .. Len(p.pending) /\ CallClose(p).quoted \in BOOLEAN
<1> DEFINE L == Len(p.pending)
<1>1. p.scan \in Nat /\ L \in Nat /\ p.quoted \in BOOLEAN
  BY LenProperties DEF Parsers, Text
<1>2. PICK n : n = CallClose(p).scan
  OBVIOUS
<1>3. PICK Q : Scans(p, Q, n) /\ CallClose(p).quoted = Q[n]
  BY <1>2, CallCloseScans
<1>4. /\ n \in p.scan .. L /\ Q[p.scan] = p.quoted
      /\ \A i \in p.scan + 1 .. n :
           Q[i] = (Q[i - 1] # (p.arch = "qwen3" /\ p.pending[i] = "\""))
  BY <1>3 DEF Scans
<1> HIDE DEF L
<1>5. n \in 0 .. L /\ (n = p.scan \/ n \in p.scan + 1 .. n)
  <2>1. PICK s : s = p.scan
    OBVIOUS
  <2>2. s \in Nat /\ L \in Nat /\ n \in s .. L
    BY <1>1, <1>4, <2>1
  <2>3. n \in 0 .. L /\ (n = s \/ n \in s + 1 .. n)
    BY ONLY <2>2
  <2> QED BY <2>1, <2>3
<1>6. Q[n] \in BOOLEAN
  BY <1>1, <1>4, <1>5
<1> QED BY <1>2, <1>3, <1>5, <1>6 DEF L

\* There is one way to scan.
LEMMA ScansOnce ==
  ASSUME NEW p \in Parsers, NEW Q, NEW R, NEW n, NEW m, Scans(p, Q, n), Scans(p, R, m)
  PROVE  n = m /\ Q[n] = R[m]
<1> DEFINE s == p.scan
           L == Len(p.pending)
           quote(i) == p.arch = "qwen3" /\ p.pending[i] = "\""
           close(i) == Reads(CLOSE, p.pending, i)
<1>1. s \in Nat /\ L \in Nat /\ n \in s .. L /\ m \in s .. L
  BY LenProperties DEF Parsers, Text, Scans
<1>2. /\ Q[s] = R[s]
      /\ \A i \in s + 1 .. n : Q[i] = (Q[i - 1] # quote(i))
      /\ \A i \in s + 1 .. m : R[i] = (R[i - 1] # quote(i))
      /\ \A i \in s .. n - 1 : Q[i] \/ ~close(i)
      /\ \A i \in s .. m - 1 : R[i] \/ ~close(i)
      /\ n < L => ~Q[n] /\ close(n)
      /\ m < L => ~R[m] /\ close(m)
  BY DEF Scans
<1> HIDE DEF s, L, quote, close
<1>3. ASSUME NEW i \in s .. L, i <= n, i <= m PROVE Q[i] = R[i]
  <2> DEFINE T == {k \in 0 .. i - s : Q[s + k] = R[s + k]}
  <2>1. i - s \in Nat /\ s + (i - s) = i /\ s + 0 = s /\ 0 \in 0 .. i - s
    BY <1>1
  <2>2. 0 \in T
    BY <1>2, <2>1
  <2>3. ASSUME NEW k \in T, k \in 0 .. (i - s) - 1 PROVE k + 1 \in T
    <3>1. s + (k + 1) \in s + 1 .. n /\ s + (k + 1) \in s + 1 .. m /\ (s + (k + 1)) - 1 = s + k
          /\ k + 1 \in 0 .. i - s
      BY <1>1, <1>3, <2>3
    <3>2. Q[s + k] = R[s + k]
      OBVIOUS
    <3>3. Q[s + (k + 1)] = R[s + (k + 1)]
      BY <1>2, <3>1, <3>2
    <3> QED BY <3>1, <3>3
  <2>4. 0 .. i - s \subseteq T
    <3> HIDE DEF T
    <3> QED BY <2>1, <2>2, <2>3, BoundedInduction
  <2>5. i - s \in T
    BY <2>1, <2>4
  <2> QED BY <2>1, <2>5
<1>4. ~(n < m)
  <2> SUFFICES ASSUME n < m PROVE FALSE
    OBVIOUS
  <2>1. n \in s .. m - 1 /\ n < L /\ n <= n /\ n <= m
    BY <1>1
  <2> QED BY <1>1, <1>2, <1>3, <2>1
<1>5. ~(m < n)
  <2> SUFFICES ASSUME m < n PROVE FALSE
    OBVIOUS
  <2>1. m \in s .. n - 1 /\ m < L /\ m <= n /\ m <= m
    BY <1>1
  <2> QED BY <1>1, <1>2, <1>3, <2>1
<1>6. n = m /\ n <= n /\ n <= m
  BY <1>1, <1>4, <1>5
<1> QED BY <1>1, <1>3, <1>6

\* What scans is what call_close does.
LEMMA CallCloseThere ==
  ASSUME NEW p \in Parsers, NEW Q, NEW n, Scans(p, Q, n)
  PROVE  CallClose(p) = [scan |-> n, quoted |-> Q[n]]
<1>1. p.scan <= Len(p.pending)
  <2> DEFINE L == Len(p.pending)
  <2>1. p.scan \in Nat /\ L \in Nat /\ n \in p.scan .. L
    BY LenProperties DEF Parsers, Text, Scans
  <2> HIDE DEF L
  <2>2. p.scan <= L
    BY <2>1
  <2> QED BY <2>2 DEF L
<1>2. PICK R : Scans(p, R, CallClose(p).scan) /\ CallClose(p).quoted = R[CallClose(p).scan]
               /\ CallClose(p) = [scan |-> CallClose(p).scan, quoted |-> CallClose(p).quoted]
  BY <1>1, CallCloseScans
<1>3. n = CallClose(p).scan /\ Q[n] = R[CallClose(p).scan]
  BY <1>2, ScansOnce
<1> QED BY <1>2, <1>3

-----------------------------------------------------------------------------
(* Parsers that differ in what is pending, or only in what was returned.   *)

\* What every parser keeps to.
Sound(p) ==
  p \in Parsers /\ p.scan <= Len(p.pending) /\ (~p.inCall => p.scan = 0)

\* p with more text pending.
More(p, x) == [p EXCEPT !.pending = @ \o x]

\* Nothing but what was returned last tells p from q, or both are broken.
Same(p, q) ==
  /\ p.error = q.error
  /\ ~p.error => [p EXCEPT !.deltas = <<>>] = [q EXCEPT !.deltas = <<>>]

\* More text pending changes nothing else.
LEMMA MoreIs ==
  ASSUME NEW p, Sound(p), NEW x \in Text
  PROVE  /\ Sound(More(p, x)) /\ More(p, x).pending = p.pending \o x
         /\ More(p, x).error = p.error /\ More(p, x).inCall = p.inCall
         /\ More(p, x).choice = p.choice /\ More(p, x).calls = p.calls
         /\ More(p, x).scan = p.scan /\ More(p, x).quoted = p.quoted
         /\ More(p, x).arch = p.arch /\ More(p, x).text = p.text
<1> DEFINE t == p.pending
           u == t \o x
           a == More(p, x)
<1>1. p \in Parsers /\ t \in Text /\ p.scan \in Nat /\ p.scan <= Len(t) /\ (~p.inCall => p.scan = 0)
  BY DEF Sound, Parsers
<1>2. u \in Text /\ Len(u) = Len(t) + Len(x) /\ Len(t) \in Nat /\ Len(x) \in Nat
  BY <1>1, Joined, LenProperties DEF Text
<1> HIDE DEF u
<1>3. a = [p EXCEPT !.pending = u]
  BY DEF More, u
<1>4. a \in Parsers
  BY <1>1, <1>2, <1>3 DEF Parsers
<1>5. a.pending = u /\ a.error = p.error /\ a.inCall = p.inCall
      /\ a.choice = p.choice /\ a.calls = p.calls
      /\ a.scan = p.scan /\ a.quoted = p.quoted
      /\ a.arch = p.arch /\ a.text = p.text
  BY <1>1, <1>3 DEF Parsers
<1> HIDE DEF a
<1>6. p.scan <= Len(u)
  BY <1>1, <1>2
<1>7. Sound(a)
  BY <1>1, <1>4, <1>5, <1>6 DEF Sound
<1> QED BY <1>5, <1>7 DEF a, u

\* A scan that does not need more text stops where it did; one that does goes on
\* from where it left off.
LEMMA CallCloseMore ==
  ASSUME NEW p, Sound(p), NEW x \in Text
  PROVE  /\ \A r \in Parsers :
              /\ r.pending = p.pending \o x /\ r.arch = p.arch
              /\ r.scan = CallClose(p).scan /\ r.quoted = CallClose(p).quoted
              => CallClose(r) = CallClose(More(p, x))
         /\ IsPrefix(CLOSE, Drop(p.pending, CallClose(p).scan)) =>
              CallClose(More(p, x)) = CallClose(p)
<1> DEFINE t == p.pending
           u == t \o x
           a == More(p, x)
           s == p.scan
           L == Len(t)
           LU == Len(u)
           n == CallClose(p).scan
<1>1. /\ p \in Parsers /\ s \in Nat /\ s <= L /\ t \in Text /\ L \in Nat /\ CLOSE \in Text
      /\ Len(CLOSE) = 4
  BY Tags, LenProperties DEF Sound, Parsers, Text
<1>2. Sound(a) /\ a \in Parsers /\ a.pending = u /\ a.scan = s /\ a.quoted = p.quoted /\ a.arch = p.arch
  BY MoreIs DEF Sound
<1>3. PICK Q : /\ Scans(p, Q, n) /\ CallClose(p).quoted = Q[n]
               /\ CallClose(p) = [scan |-> n, quoted |-> CallClose(p).quoted]
  BY <1>1, CallCloseScans
<1>4. PICK m : m = n
  OBVIOUS
<1> HIDE DEF n
<1>5. Scans(p, Q, m) /\ CallClose(p) = [scan |-> m, quoted |-> Q[m]]
  BY <1>3, <1>4 DEF n
<1>6. /\ u \in Text /\ LU = L + Len(x) /\ Len(x) \in Nat /\ LU \in Nat
      /\ \A i \in 1 .. L : u[i] = t[i]
  BY <1>1, Joined, LenProperties DEF Text
<1>7. /\ m \in s .. L /\ Q[s] = p.quoted
      /\ \A i \in s + 1 .. m : Q[i] = (Q[i - 1] # (p.arch = "qwen3" /\ t[i] = "\""))
      /\ \A i \in s .. m - 1 : Q[i] \/ ~Reads(CLOSE, t, i)
      /\ m < L => ~Q[m] /\ Reads(CLOSE, t, m)
  BY <1>5 DEF Scans
<1> HIDE DEF s, L, LU, t, u, a
<1>8. m \in Nat /\ m \in 0 .. L /\ m \in s .. LU /\ s <= m /\ m <= L /\ m <= LU
  <2>1. m \in s .. L /\ s \in Nat /\ L \in Nat /\ Len(x) \in Nat /\ LU = L + Len(x)
    BY <1>1, <1>6, <1>7
  <2> QED BY ONLY <2>1
<1>9. \A i \in s + 1 .. m : t[i] = u[i]
  <2>1. \A i \in s + 1 .. m : i \in 1 .. L
    BY <1>1, <1>8
  <2> QED BY <1>6, <2>1
<1>10. \A i \in s .. m - 1 : Q[i] \/ ~Reads(CLOSE, u, i)
  <2>1. \A i \in s .. m - 1 : i \in Nat
    BY <1>1
  <2> QED BY <1>1, <1>7, <2>1, ReadsMore DEF u
<1>11. ASSUME NEW r \in Parsers, r.pending = u, r.arch = p.arch,
              r.scan = m, r.quoted = Q[m]
       PROVE  CallClose(r) = CallClose(a)
  <2>1. PICK k, R : Scans(r, R, k)
    <3>1. r.scan <= Len(r.pending)
      <4>1. r.scan = m /\ Len(r.pending) = LU
        BY <1>11 DEF LU
      <4> QED BY <1>8, <4>1
    <3> QED BY <3>1, CallCloseScans
  <2>2. /\ k \in m .. LU /\ R[m] = Q[m]
        /\ \A i \in m + 1 .. k : R[i] = (R[i - 1] # (p.arch = "qwen3" /\ u[i] = "\""))
        /\ \A i \in m .. k - 1 : R[i] \/ ~Reads(CLOSE, u, i)
        /\ k < LU => ~R[k] /\ Reads(CLOSE, u, k)
    BY <1>11, <2>1 DEF Scans, LU
  <2>3. k \in Nat /\ m <= k /\ s <= k /\ k \in s .. LU
    <3>1. k \in m .. LU
      BY <2>2
    <3> QED BY ONLY <1>1, <1>6, <1>8, <3>1
  <2> DEFINE W == [i \in s .. k |-> IF i < m THEN Q[i] ELSE R[i]]
  <2>4. W[s] = p.quoted
    <3>1. s \in s .. k
      BY <1>1, <2>3
    <3>2. s = m => R[s] = p.quoted
      BY <1>7, <2>2
    <3>3. s < m \/ s = m
      BY <1>1, <1>8
    <3> QED BY <1>1, <1>7, <3>1, <3>2, <3>3
  <2>5. ASSUME NEW i \in s + 1 .. k
        PROVE  W[i] = (W[i - 1] # (p.arch = "qwen3" /\ u[i] = "\""))
    <3>1. i \in s .. k /\ i - 1 \in s .. k /\ i \in Nat
      BY <1>1, <2>3
    <3>2. CASE i < m
      <4>1. i - 1 < m /\ i \in s + 1 .. m
        BY <1>8, <3>1, <3>2
      <4>2. W[i] = Q[i] /\ W[i - 1] = Q[i - 1]
        BY <3>1, <3>2, <4>1
      <4> HIDE DEF W
      <4> QED BY <1>7, <1>9, <4>1, <4>2
    <3>3. CASE i = m
      <4>1. i - 1 < m /\ i \in s + 1 .. m /\ ~(i < m)
        BY <1>8, <3>1, <3>3
      <4>2. W[i] = Q[i] /\ W[i - 1] = Q[i - 1]
        BY <2>2, <3>1, <3>3, <4>1
      <4> HIDE DEF W
      <4> QED BY <1>7, <1>9, <4>1, <4>2
    <3>4. CASE i > m
      <4>1. ~(i - 1 < m) /\ i \in m + 1 .. k /\ ~(i < m)
        BY <1>8, <3>1, <3>4
      <4>2. W[i] = R[i] /\ W[i - 1] = R[i - 1]
        BY <3>1, <4>1
      <4> HIDE DEF W
      <4> QED BY <2>2, <4>1, <4>2
    <3>5. i < m \/ i = m \/ i > m
      BY <1>8, <3>1
    <3> QED BY <3>2, <3>3, <3>4, <3>5
  <2>6. ASSUME NEW i \in s .. k - 1 PROVE W[i] \/ ~Reads(CLOSE, u, i)
    <3>1. i \in s .. k
      BY <1>1, <2>3
    <3>2. CASE i < m
      <4>1. i \in s .. m - 1 /\ W[i] = Q[i]
        BY <1>1, <1>8, <3>1, <3>2
      <4> HIDE DEF W
      <4> QED BY <1>10, <4>1
    <3>3. CASE ~(i < m)
      <4>1. i \in m .. k - 1 /\ W[i] = R[i]
        BY <1>1, <1>8, <3>1, <3>3
      <4> HIDE DEF W
      <4> QED BY <2>2, <4>1
    <3> QED BY <3>2, <3>3
  <2>7. W[k] = R[k]
    BY <1>8, <2>3
  <2> HIDE DEF W
  <2>8. Scans(a, W, k)
    BY <1>2, <2>2, <2>3, <2>4, <2>5, <2>6, <2>7 DEF Scans, LU
  <2>9. CallClose(a) = [scan |-> k, quoted |-> W[k]]
    BY <1>2, <2>8, CallCloseThere
  <2>10. CallClose(r) = [scan |-> k, quoted |-> R[k]]
    BY <2>1, CallCloseThere
  <2> QED BY <2>7, <2>9, <2>10
<1>12. ASSUME IsPrefix(CLOSE, Drop(t, m)) PROVE CallClose(a) = CallClose(p)
  <2>1. m + 4 <= L /\ Reads(CLOSE, t, m)
    BY <1>1, <1>8, <1>12, ReadsAt DEF L
  <2>2. m < L
    BY <1>1, <1>8, <2>1
  <2>3. ~Q[m] /\ Reads(CLOSE, u, m)
    BY <1>1, <1>7, <1>8, <2>1, <2>2, ReadsMore DEF L, u
  <2>4. Scans(a, Q, m)
    BY <1>2, <1>7, <1>8, <1>9, <1>10, <2>3 DEF Scans, LU
  <2> QED BY <1>2, <1>5, <2>4, CallCloseThere
<1> QED BY <1>3, <1>4, <1>11, <1>12 DEF a, t, u, n

-----------------------------------------------------------------------------
(* Markers, and what is held for one.                                      *)

\* The markers are texts of three symbols.
LEMMA MarkerTags == \A tag \in MARKERS : tag \in Text /\ Len(tag) = 3
<1>1. \A tag \in MARKERS : Len(tag) = 3
  BY DEF MARKERS
<1> QED BY <1>1, Tags

\* Where the markers are in what is pending.
LEMMA MarkersIn ==
  ASSUME NEW p \in Parsers
  PROVE  \A i : i \in Markers(p) <=> /\ i \in Nat /\ i + 3 <= Len(p.pending)
                                     /\ \E tag \in MARKERS : Reads(tag, p.pending, i)
<1> DEFINE t == p.pending
           L == Len(t)
<1>1. t \in Text /\ t \in Seq(Symbols) /\ L \in Nat
  BY LenProperties DEF Parsers, Text
<1> HIDE DEF t, L
<1>2. ASSUME NEW tag \in MARKERS, NEW i
      PROVE  i \in Finds(t, tag) <=> i \in Nat /\ i + 3 <= L /\ Reads(tag, t, i)
  <2>1. tag \in Text /\ tag \in Seq(Symbols) /\ Len(tag) = 3
    BY MarkerTags DEF Text
  <2>2. Finds(t, tag) \subseteq 0 .. Len(t) - Len(tag)
    BY ONLY <1>1, <2>1, FindsAt
  <2>5. \A j \in 0 .. Len(t) - Len(tag) :
          j \in Finds(t, tag) <=> \A k \in 1 .. Len(tag) : t[j + k] = tag[k]
    <3>1. t \in Seq(Symbols) /\ tag \in Seq(Symbols)
      BY <1>1, <2>1
    <3> QED BY ONLY <3>1, FindsAt
  <2>3. i \in 0 .. Len(t) - Len(tag) <=> i \in Nat /\ i + 3 <= L
    BY <1>1, <2>1 DEF L
  <2>4. ASSUME i \in Nat, i + 3 <= L
        PROVE  (\A k \in 1 .. Len(tag) : t[i + k] = tag[k]) <=> Reads(tag, t, i)
    <3>1. \A k \in 1 .. Len(tag) : i + k <= Len(t)
      BY <1>1, <2>1, <2>4 DEF L
    <3> QED BY <3>1 DEF Reads
  <2> QED BY <2>2, <2>3, <2>4, <2>5
<1>3. Markers(p) = UNION {Finds(t, tag) : tag \in MARKERS}
  BY DEF Markers, t
<1>4. \A i : i \in Markers(p) <=> \E tag \in MARKERS : i \in Finds(t, tag)
  BY <1>3
<1> QED BY <1>2, <1>4 DEF t, L

\* The first marker.
LEMMA FirstMarker ==
  ASSUME NEW p \in Parsers
  PROVE  /\ Markers(p) # {} => /\ First(Markers(p)) \in Markers(p)
                               /\ \A j \in Markers(p) : First(Markers(p)) <= j
         /\ \A i \in Markers(p) : (\A j \in Markers(p) : i <= j) => First(Markers(p)) = i
<1>1. Markers(p) \in SUBSET Nat
  BY MarkersIn
<1>2. Markers(p) # {} => /\ First(Markers(p)) \in Markers(p)
                         /\ \A j \in Markers(p) : First(Markers(p)) <= j
  BY <1>1, FirstLeast
<1>3. ASSUME NEW i \in Markers(p), \A j \in Markers(p) : i <= j PROVE First(Markers(p)) = i
  <2>1. First(Markers(p)) \in Markers(p) /\ First(Markers(p)) <= i
    BY <1>2
  <2>2. i <= First(Markers(p)) /\ i \in Nat /\ First(Markers(p)) \in Nat
    BY <1>1, <1>3, <2>1
  <2> QED BY <2>1, <2>2
<1> QED BY <1>2, <1>3

\* The rest of t after n symbols begins a marker.
Starts(t, n) == Len(t) <= n + 3 /\ \E tag \in MARKERS : Reads(tag, t, n)

\* What is kept of t when it has no marker.
Held(t) == HeldFrom(t, UNION {Prefixes(tag) : tag \in MARKERS})

\* The longest rest that begins a marker is held.
LEMMA HeldAt ==
  ASSUME NEW t \in Text
  PROVE  Held(t) \in 0 .. Len(t) /\ Starts(t, Held(t))
         /\ \A n \in 0 .. Len(t) : Starts(t, n) => Held(t) <= n
<1> DEFINE P == UNION {Prefixes(tag) : tag \in MARKERS}
           H == Held(t)
<1>1. Len(t) \in Nat /\ t \in Seq(Symbols)
  BY LenProperties DEF Text
<1>2. ASSUME NEW n \in 0 .. Len(t) PROVE Drop(t, n) \in P <=> Starts(t, n)
  <2>1. Drop(t, n) \in Seq(Symbols)
    BY <1>1, TakeDrop
  <2>2. ASSUME NEW tag \in MARKERS
        PROVE  Drop(t, n) \in Prefixes(tag) <=> Len(t) <= n + 3 /\ Reads(tag, t, n)
    <3>1. tag \in Text /\ tag \in Seq(Symbols) /\ Len(tag) = 3
      BY MarkerTags DEF Text
    <3>2. Drop(t, n) \in Prefixes(tag) <=> IsPrefix(Drop(t, n), tag)
      BY <2>1, <3>1, PrefixesAre
    <3>3. IsPrefix(Drop(t, n), tag) <=> Len(t) <= n + Len(tag) /\ Reads(tag, t, n)
      BY <3>1, ReadsAt
    <3> QED BY <3>1, <3>2, <3>3
  <2>3. Drop(t, n) \in P <=> \E tag \in MARKERS : Drop(t, n) \in Prefixes(tag)
    OBVIOUS
  <2> QED BY <2>2, <2>3 DEF Starts
<1> HIDE DEF P
<1>3. H = HeldFrom(t, P)
  BY DEF Held, P
<1> HIDE DEF H
<1>4. /\ H \in 0 .. Len(t) /\ Drop(t, H) \in P \cup {<<>>}
      /\ \A n \in 0 .. Len(t) : Drop(t, n) \in P => H <= n
  BY <1>3, HeldIs
<1>5. Starts(t, H)
  <2>1. CASE Drop(t, H) \in P
    BY <1>2, <1>4, <2>1
  <2>2. CASE Drop(t, H) = <<>>
    <3>1. Len(Drop(t, H)) = Len(t) - H
      BY <1>1, <1>4, TakeDrop
    <3>2. Len(Drop(t, H)) = 0
      BY <2>2
    <3>3. H = Len(t)
      BY <1>1, <1>4, <3>1, <3>2
    <3>4. PICK tag \in MARKERS : TRUE
      BY DEF MARKERS
    <3>5. Reads(tag, t, H)
      <4>1. Len(tag) = 3
        BY MarkerTags
      <4> QED BY <1>1, <3>3, <4>1 DEF Reads
    <3> QED BY <1>1, <3>3, <3>5 DEF Starts
  <2> QED BY <1>4, <2>1, <2>2
<1> QED BY <1>2, <1>4, <1>5 DEF H

\* Joined texts are blank if both are.
LEMMA BlankJoin ==
  ASSUME NEW x \in Text, NEW y \in Text
  PROVE  Blank(<<>>) /\ (Blank(x \o y) <=> Blank(x) /\ Blank(y))
<1>1. ASSUME NEW t \in Text PROVE Blank(t) <=> \A i \in 1 .. Len(t) : t[i] = " "
  <2>1. DOMAIN t = 1 .. Len(t)
    BY <1>1, LenProperties DEF Text
  <2> QED BY <2>1 DEF Blank, ToSet
<1> DEFINE t == x \o y
<1>2. /\ t \in Text /\ Len(t) = Len(x) + Len(y) /\ Len(x) \in Nat /\ Len(y) \in Nat
      /\ \A i \in 1 .. Len(x) : t[i] = x[i] 
      /\ \A i \in 1 .. Len(y) : t[Len(x) + i] = y[i]
  BY Joined, LenProperties DEF Text
<1> HIDE DEF t
<1>3. ASSUME Blank(t) PROVE Blank(x) /\ Blank(y)
  <2>1. \A i \in 1 .. Len(t) : t[i] = " "
    BY <1>1, <1>2, <1>3
  <2>2. \A i \in 1 .. Len(x) : i \in 1 .. Len(t)
    BY <1>2
  <2>3. \A i \in 1 .. Len(y) : Len(x) + i \in 1 .. Len(t)
    BY <1>2
  <2> QED BY <1>1, <1>2, <2>1, <2>2, <2>3
<1>4. ASSUME Blank(x), Blank(y) PROVE Blank(t)
  <2>1. (\A i \in 1 .. Len(x) : x[i] = " ") /\ \A i \in 1 .. Len(y) : y[i] = " "
    BY <1>1, <1>4
  <2>2. ASSUME NEW i \in 1 .. Len(t) PROVE t[i] = " "
    <3>1. CASE i <= Len(x)
      <4>1. i \in 1 .. Len(x)
        BY <1>2, <3>1
      <4> QED BY <1>2, <2>1, <4>1
    <3>2. CASE ~(i <= Len(x))
      <4>1. i - Len(x) \in 1 .. Len(y) /\ Len(x) + (i - Len(x)) = i
        BY <1>2, <3>2
      <4> QED BY <1>2, <2>1, <4>1
    <3> QED BY <3>1, <3>2
  <2> QED BY <1>1, <1>2, <2>2
<1>5. Blank(<<>>)
  <2>1. PICK z : z = <<>>
    OBVIOUS
  <2>2. z \in Text /\ Len(z) = 0
    BY <2>1 DEF Text
  <2>3. Blank(z)
    <3>1. \A i \in 1 .. Len(z) : z[i] = " "
      <4>1. 1 .. Len(z) = {}
        BY <2>2
      <4> QED BY <4>1
    <3> QED BY <1>1, <2>2, <3>1
  <2> QED BY <2>1, <2>3
<1> QED BY <1>3, <1>4, <1>5 DEF t

\* What emitting text does: it joins the text until the first call, and after
\* that breaks a parser unless it is blank.
LEMMA EmitIs ==
  ASSUME NEW p \in Parsers, NEW x \in Text
  PROVE  /\ Kept(p, EmitText(p, x))
         /\ EmitText(p, x).error = (p.error \/ (p.calls # <<>> /\ ~Blank(x)))
         /\ EmitText(p, x).text = IF p.calls = <<>> THEN p.text \o x ELSE p.text
<1> DEFINE q == EmitText(p, x)
           d == [tag |-> "Text", index |-> 0, text |-> x]
           more == Append(p.deltas, d)
           now == p.text \o x
<1>1. p.text \in Text /\ p.deltas \in Seq(DeltaSet) /\ p.error \in BOOLEAN /\ p.calls \in Seq(Text)
  BY DEF Parsers
<1>2. now \in Text
  BY <1>1, Joined DEF Text
<1>3. CASE x = <<>>
  <2>1. q = p /\ Blank(x)
    BY <1>3, BlankJoin DEF EmitText
  <2>2. p.text \o x = p.text
    BY <1>1, <1>3, ConcatEmptySeq DEF Text
  <2> QED BY <1>1, <2>1, <2>2 DEF Kept
<1>4. CASE x # <<>> /\ p.calls = <<>>
  <2>1. more \in Seq(DeltaSet)
    <3>1. d \in DeltaSet
      BY DEF DeltaSet
    <3> HIDE DEF d
    <3> QED BY <1>1, <3>1, AppendProperties
  <2>2. q = [p EXCEPT !.text = now, !.deltas = more]
    BY <1>4 DEF EmitText
  <2> HIDE DEF more, now, q
  <2>3. Kept(p, q) /\ q.error = p.error /\ q.text = now
    BY <1>2, <2>1, <2>2 DEF Kept, Parsers
  <2> QED BY <1>1, <1>4, <2>3 DEF q, now
<1>5. CASE x # <<>> /\ p.calls # <<>>
  <2>1. CASE Blank(x)
    <3>1. q = p
      BY <1>5, <2>1 DEF EmitText
    <3> QED BY <1>1, <1>5, <2>1, <3>1 DEF Kept
  <2>2. CASE ~Blank(x)
    <3>1. q = Broken(p)
      BY <1>5, <2>2 DEF EmitText
    <3>2. Kept(p, q) /\ q.error /\ q.text = p.text
      BY <3>1, BrokenIs
    <3> HIDE DEF q
    <3>3. q.error = TRUE
      BY <3>2, BrokenIs, <3>1 DEF Broken, Parsers
    <3> QED BY <1>1, <1>5, <2>2, <3>2, <3>3 DEF q
  <2> QED BY <2>1, <2>2
<1> QED BY <1>3, <1>4, <1>5

\* The fields that tell one parser from another.
LEMMA SameIs ==
  ASSUME NEW p \in Parsers, NEW q \in Parsers
  PROVE  Same(p, q) <=>
           /\ p.error = q.error
           /\ ~p.error =>
                /\ p.arch = q.arch /\ p.choice = q.choice /\ p.pending = q.pending
                /\ p.inCall = q.inCall /\ p.scan = q.scan /\ p.quoted = q.quoted
                /\ p.text = q.text /\ p.calls = q.calls
<1> DEFINE c(r) == [r EXCEPT !.deltas = <<>>]
           D == {"arch", "choice", "pending", "inCall", "scan", "quoted", "text", "calls", "error",
                 "deltas"}
<1>1. ASSUME NEW r \in Parsers
      PROVE  c(r) = [f \in D |-> IF f = "deltas" THEN <<>> ELSE r[f]]
  <2>1. r = [f \in D |-> r[f]]
    BY DEF Parsers
  <2> QED BY <2>1
<1>2. c(p) = c(q) <=> \A f \in D : f = "deltas" \/ p[f] = q[f]
  <2>1. ASSUME c(p) = c(q), NEW f \in D, f # "deltas" PROVE p[f] = q[f]
    <3>1. c(p)[f] = p[f] /\ c(q)[f] = q[f]
      <4> HIDE DEF c, D
      <4> QED BY <1>1, <2>1
    <3> HIDE DEF c
    <3> QED BY <2>1, <3>1
  <2>2. ASSUME \A f \in D : f = "deltas" \/ p[f] = q[f] PROVE c(p) = c(q)
    <3> HIDE DEF c, D
    <3>1. [f \in D |-> IF f = "deltas" THEN <<>> ELSE p[f]] = [f \in D |-> IF f = "deltas" THEN <<>> ELSE q[f]]
      BY <2>2
    <3> QED BY <1>1, <3>1
  <2> QED BY <2>1, <2>2
<1>3. c(p) = c(q) <=>
        /\ p.arch = q.arch /\ p.choice = q.choice /\ p.pending = q.pending
        /\ p.inCall = q.inCall /\ p.scan = q.scan /\ p.quoted = q.quoted
        /\ p.text = q.text /\ p.calls = q.calls /\ p.error = q.error
  <2> HIDE DEF c
  <2> QED BY <1>2
<1> QED BY <1>3 DEF Same

-----------------------------------------------------------------------------
(* A turn of drain.                                                        *)

\* A call ends: its body is parsed, and what follows its tag is left.
LEMMA EndIs ==
  ASSUME NEW p, Sound(p), NEW n \in Nat, n + 4 <= Len(p.pending)
  PROVE  LET q == EndCall(p, n)
             body == Take(p.pending, n)
         IN IF body \notin DOMAIN Bodies
            THEN q = Broken(p)
            ELSE /\ Sound(q) /\ q.arch = p.arch /\ q.choice = p.choice
                 /\ q.pending = Drop(p.pending, n + 4) /\ ~q.inCall /\ q.scan = 0 /\ ~q.quoted
                 /\ q.quoted = FALSE
                 /\ q.text = p.text /\ q.calls = Append(p.calls, body) /\ q.error = p.error
<1> DEFINE t == p.pending
           body == Take(t, n)
           rest == Drop(t, n + Len(CLOSE))
           Part(tag) == [tag |-> tag, index |-> Len(p.calls) + 1, text |-> body]
           parts == <<Part("ToolStart"), Part("ToolArguments"), Part("ToolEnd")>>
           ds == p.deltas \o parts
           cs == Append(p.calls, body)
           q == EndCall(p, n)
<1>1. /\ p \in Parsers /\ t \in Text /\ t \in Seq(Symbols) /\ Len(t) \in Nat /\ p.calls \in Seq(Text)
      /\ p.deltas \in Seq(DeltaSet) /\ Len(CLOSE) = 4 /\ Len(p.calls) \in Nat
  BY Tags, LenProperties DEF Sound, Parsers, Text
<1>2. n \in 0 .. Len(t) /\ n + 4 \in 0 .. Len(t)
  BY <1>1
<1>3. body \in Text /\ rest \in Text /\ rest = Drop(t, n + 4)
  BY <1>1, <1>2, TakeDrop DEF Text
<1>4. ds \in Seq(DeltaSet) /\ cs \in Seq(Text)
  <2> HIDE DEF body
  <2>1. Part("ToolStart") \in DeltaSet /\ Part("ToolArguments") \in DeltaSet /\ Part("ToolEnd") \in DeltaSet
    BY <1>1, <1>3 DEF DeltaSet
  <2> HIDE DEF Part
  <2>2. parts \in Seq(DeltaSet)
    BY <2>1
  <2> HIDE DEF parts
  <2> QED BY <1>1, <1>3, <2>2, ConcatProperties, AppendProperties
<1>5. CASE body \notin DOMAIN Bodies
  BY <1>5 DEF EndCall
<1>6. CASE body \in DOMAIN Bodies
  <2>1. q = [p EXCEPT !.deltas = ds, !.calls = cs, !.pending = rest, !.inCall = FALSE, !.scan = 0,
                      !.quoted = FALSE]
    BY <1>6 DEF EndCall
  <2> HIDE DEF q, ds, cs, rest, body
  <2>2. /\ q \in Parsers /\ q.arch = p.arch /\ q.choice = p.choice
        /\ q.pending = rest /\ q.inCall = FALSE /\ q.scan = 0
        /\ q.quoted = FALSE
        /\ q.text = p.text /\ q.calls = cs /\ q.error = p.error
    BY <1>1, <1>3, <1>4, <2>1 DEF Parsers
  <2>3. Len(q.pending) \in Nat
    BY <1>3, <2>2, LenProperties DEF Text
  <2>4. Sound(q)
    BY <2>2, <2>3 DEF Sound
  <2> QED BY <1>3, <1>6, <2>2, <2>4 DEF q, cs, body
<1> QED BY <1>5, <1>6

\* Where the first tag begins, and what is before it and after.
LEMMA BeginsAt ==
  ASSUME NEW p, Sound(p), Begins(p)
  PROVE  LET at == First(Markers(p)) IN
         /\ at \in Nat /\ at + 4 <= Len(p.pending) /\ at \in 0 .. Len(p.pending)
         /\ at + 4 \in 0 .. Len(p.pending) /\ Reads(OPEN, p.pending, at)
         /\ at \in Markers(p) /\ \A j \in Markers(p) : at <= j
<1> DEFINE t == p.pending
           at == First(Markers(p))
<1>1. /\ p \in Parsers /\ t \in Text /\ Len(t) \in Nat /\ Markers(p) # {} /\ IsPrefix(OPEN, Drop(t, at))
      /\ OPEN \in Text /\ Len(OPEN) = 4
  BY Tags, LenProperties DEF Sound, Begins, Parsers, Text
<1>2. at \in Markers(p) /\ \A j \in Markers(p) : at <= j
  BY <1>1, FirstMarker
<1>3. at \in Nat /\ at + 3 <= Len(t)
  BY <1>1, <1>2, MarkersIn
<1> HIDE DEF at, t
<1>4. at \in 0 .. Len(t)
  BY <1>1, <1>3
<1>5. at + 4 <= Len(t) /\ Reads(OPEN, t, at)
  BY <1>1, <1>4, ReadsAt
<1>6. at + 4 \in 0 .. Len(t)
  BY <1>1, <1>3, <1>5
<1> QED BY <1>2, <1>3, <1>4, <1>5, <1>6 DEF at, t

\* A call begins: what comes before its tag is text.
LEMMA BeginIs ==
  ASSUME NEW p, Sound(p), Begins(p)
  PROVE  LET q == Begin(p)
             at == First(Markers(p))
             x == Take(p.pending, at)
         IN /\ Sound(q) /\ q.arch = p.arch /\ q.choice = p.choice
            /\ q.pending = Drop(p.pending, at + 4) /\ x \in Text
            /\ q.error = (p.calls # <<>> /\ ~Blank(x)) /\ q.inCall = ~q.error
            /\ q.scan = p.scan /\ q.quoted = p.quoted /\ q.scan = 0
            /\ q.text = (IF p.calls = <<>> THEN p.text \o x ELSE p.text) /\ q.calls = p.calls
<1> DEFINE t == p.pending
           at == First(Markers(p))
           x == Take(t, at)
           rest == Drop(t, at + Len(OPEN))
           b == EmitText(p, x)
           q == Begin(p)
<1>1. /\ p \in Parsers /\ t \in Seq(Symbols) /\ Len(OPEN) = 4 /\ p.scan = 0 /\ ~p.error
      /\ p.error \in BOOLEAN
  BY Tags DEF Sound, Begins, Parsers, Text
<1>2. at \in 0 .. Len(t) /\ at + 4 \in 0 .. Len(t)
  BY BeginsAt
<1>3. x \in Text /\ rest \in Text /\ rest = Drop(t, at + 4)
  <2> HIDE DEF at, t
  <2> QED BY <1>1, <1>2, TakeDrop DEF Text
<1>4. q = [b EXCEPT !.pending = Drop(@, at + Len(OPEN)), !.inCall = ~b.error]
  BY DEF Begin
<1> HIDE DEF x, at
<1>5. /\ Kept(p, b) /\ b.error = (p.error \/ (p.calls # <<>> /\ ~Blank(x)))
      /\ b.text = IF p.calls = <<>> THEN p.text \o x ELSE p.text
  BY <1>1, <1>3, EmitIs
<1>6. /\ b \in Parsers /\ b.arch = p.arch /\ b.choice = p.choice /\ b.pending = t
      /\ b.scan = p.scan /\ b.quoted = p.quoted /\ b.calls = p.calls
      /\ b.error = (p.calls # <<>> /\ ~Blank(x))
  BY <1>1, <1>5 DEF Kept
<1> HIDE DEF b, t, rest, q
<1>7. /\ q \in Parsers /\ q.arch = p.arch /\ q.choice = p.choice
      /\ q.pending = rest /\ q.error = b.error /\ q.inCall = ~b.error
      /\ q.scan = p.scan /\ q.quoted = p.quoted /\ q.text = b.text /\ q.calls = p.calls
  <2>1. q = [b EXCEPT !.pending = rest, !.inCall = ~b.error]
    BY <1>4, <1>6 DEF rest, t
  <2>2. (~b.error) \in BOOLEAN
    OBVIOUS
  <2> QED BY <1>3, <1>6, <2>1, <2>2 DEF Parsers
<1>8. Len(q.pending) \in Nat
  BY <1>3, <1>7, LenProperties DEF Text
<1>9. Sound(q)
  BY <1>1, <1>7, <1>8 DEF Sound
<1> QED BY <1>1, <1>3, <1>5, <1>6, <1>7, <1>9 DEF b, t, rest, q, x, at

\* A turn that goes on takes a tag off what is pending, or breaks the parser.
LEMMA TurnIs ==
  ASSUME NEW p, Sound(p)
  PROVE  /\ Sound(Turn(p))
         /\ ~Ends(p) /\ ~Begins(p) => Turn(p) = p
         /\ Ends(p) \/ Begins(p) =>
              /\ Len(p.pending) >= 4
              /\ Turn(p).error \/ Len(Turn(p).pending) + 4 <= Len(p.pending)
<1> DEFINE t == p.pending
           L == Len(t)
<1>1. p \in Parsers /\ t \in Text /\ t \in Seq(Symbols) /\ L \in Nat /\ CLOSE \in Text /\ Len(CLOSE) = 4
  BY Tags, LenProperties DEF Sound, Parsers, Text
<1>2. CASE Ends(p)
  <2> DEFINE n == CallClose(p).scan
             q == EndCall(p, n)
             body == Take(t, n)
  <2>1. Turn(p) = q
    <3>1. ~Begins(p)
      BY <1>2 DEF Begins, Ends
    <3> QED BY <1>2, <3>1 DEF Turn
  <2>2. n \in 0 .. L /\ IsPrefix(CLOSE, Drop(t, n))
    BY <1>1, <1>2, CallCloseIs DEF Ends, Sound
  <2> HIDE DEF n
  <2>3. n + 4 <= L /\ n \in Nat
    <3>1. n + Len(CLOSE) <= Len(t)
      <4> HIDE DEF t, q, body
      <4> QED BY <1>1, <2>2, ReadsAt
    <3> HIDE DEF t, q, body
    <3> QED BY <1>1, <2>2, <3>1
  <2>4. CASE body \notin DOMAIN Bodies
    <3>1. q = Broken(p)
      BY <2>3, <2>4, EndIs
    <3>2. Kept(p, q) /\ q.error
      BY <1>1, <3>1, BrokenIs
    <3> HIDE DEF q
    <3>3. Sound(q)
      BY <3>2 DEF Kept, Sound
    <3> QED BY <1>1, <1>2, <2>1, <2>3, <3>2, <3>3
  <2>5. CASE body \in DOMAIN Bodies
    <3>1. Sound(q) /\ q.pending = Drop(t, n + 4)
      BY <2>3, <2>5, EndIs
    <3>2. n + 4 \in 0 .. L
      BY <1>1, <2>3
    <3>3. Len(Drop(t, n + 4)) = L - (n + 4)
      BY <1>1, <3>2, TakeDrop
    <3> HIDE DEF q, t, L
    <3>4. Len(q.pending) + 4 <= L /\ L >= 4
      BY <1>1, <2>3, <3>1, <3>3
    <3> QED BY <1>2, <2>1, <3>1, <3>4 DEF t, L
  <2> QED BY <2>4, <2>5
<1>3. CASE Begins(p)
  <2> DEFINE at == First(Markers(p))
             q == Begin(p)
  <2>1. Turn(p) = q
    <3>1. ~Ends(p)
      BY <1>3 DEF Begins, Ends
    <3> QED BY <1>3, <3>1 DEF Turn
  <2>2. at \in Nat /\ at + 4 \in 0 .. L
    BY <1>3, BeginsAt
  <2>3. Sound(q) /\ q.pending = Drop(t, at + 4)
    BY <1>3, BeginIs
  <2> HIDE DEF q, at
  <2>4. Len(Drop(t, at + 4)) = L - (at + 4)
    BY <1>1, <2>2, TakeDrop
  <2>5. Len(q.pending) = L - (at + 4)
    BY <2>3, <2>4
  <2> HIDE DEF t, L
  <2>6. Len(q.pending) + 4 <= L /\ L >= 4
    BY <1>1, <2>2, <2>5
  <2> QED BY <1>3, <2>1, <2>3, <2>6 DEF t, L
<1>4. CASE ~Ends(p) /\ ~Begins(p)
  BY <1>4 DEF Turn
<1> QED BY <1>2, <1>3, <1>4

-----------------------------------------------------------------------------
(* As many turns as drain is given are enough, and drain is one turn after *)
(* another.                                                                *)

\* drain's loop goes on.
Goes(p) == Ends(p) \/ Begins(p)

\* The turns of drain's loop up to the one that leaves it.
Path(p, f, m) ==
  /\ m \in Nat /\ f[0] = p
  /\ \A n \in 1 .. m : f[n] = Turn(f[n - 1])
  /\ ~Goes(f[m])

\* A turn that does not go on changes nothing.
LEMMA TurnIdle == \A p : ~Goes(p) => Turn(p) = p
BY DEF Goes, Turn

\* drain turns until its loop is left: its bound on the turns is never short.
LEMMA DrainEnds ==
  ASSUME NEW p, Sound(p)
  PROVE  \E m, f : Path(p, f, m) /\ Drain(p) = Settle(f[m])
<1> DEFINE L == Len(p.pending)
           most == L \div Len(OPEN)
           A == {q \in Parsers : Sound(q)}
           step == [n \in 1 .. most |-> [q \in A |-> Turn(q)]]
           Rec(f) == f = [n \in 0 .. most |-> IF n = 0 THEN p ELSE Turn(f[n - 1])]
           turns == CHOOSE f : Rec(f)
<1>1. L \in Nat /\ most \in Nat /\ L < 4 * most + 4
  <2>1. L \in Nat
    BY LenProperties DEF Sound, Parsers, Text
  <2>2. \A k \in Nat : k \div 4 \in Nat /\ k < 4 * (k \div 4) + 4
    OBVIOUS
  <2> HIDE DEF L
  <2>3. L \div 4 \in Nat /\ L < 4 * (L \div 4) + 4
    BY <2>1, <2>2
  <2> QED BY <2>1, <2>3, Tags
<1>2. p \in A
  BY DEF Sound
<1>3. \A q \in A : Turn(q) \in A
  BY TurnIs DEF Sound
<1>4. \E f : Rec(f)
  <2>1. step \in [1 .. most -> [A -> A]] /\ \A n \in 1 .. most : \A q \in A : step[n][q] = Turn(q)
    <3> HIDE DEF A, most
    <3> QED BY <1>3
  <2> HIDE DEF step, A, most
  <2>2. PICK f \in [0 .. most -> A] : Iterates(f, p, most, step)
    BY <1>1, <1>2, <2>1, Recursion
  <2>3. \A n \in 0 .. most : f[n] = IF n = 0 THEN p ELSE Turn(f[n - 1])
    <3>1. \A n \in 0 .. most : n # 0 => n \in 1 .. most /\ n - 1 \in 0 .. most
      BY <1>1
    <3> QED BY <2>1, <2>2, <3>1 DEF Iterates
  <2>4. f = [n \in 0 .. most |-> f[n]]
    BY <2>2
  <2>5. Rec(f)
    BY <2>3, <2>4
  <2> HIDE DEF Rec
  <2> QED BY <2>5
<1>5. Rec(turns)
  <2> HIDE DEF Rec
  <2> QED BY <1>4
<1> HIDE DEF turns
<1>6. turns[0] = p /\ \A n \in 1 .. most : turns[n] = Turn(turns[n - 1])
  <2> HIDE DEF most
  <2>1. \A n \in 1 .. most : n # 0 /\ n \in 0 .. most
    BY <1>1
  <2>2. 0 \in 0 .. most
    BY <1>1
  <2> QED BY <1>5, <2>1, <2>2
<1>7. Drain(p) = Settle(turns[most])
  BY DEF Drain, turns
<1> HIDE DEF most, L, A
<1>8. 0 .. most \subseteq {n \in 0 .. most : /\ Sound(turns[n])
                                             /\ ~Goes(turns[n]) \/ Len(turns[n].pending) + 4 * n <= L}
  <2> DEFINE T == {n \in 0 .. most : /\ Sound(turns[n])
                                     /\ ~Goes(turns[n]) \/ Len(turns[n].pending) + 4 * n <= L}
  <2>1. 0 \in T
    <3>1. Len(turns[0].pending) + 4 * 0 <= L
      BY <1>1, <1>6 DEF L
    <3> QED BY <1>1, <1>6, <3>1
  <2>2. ASSUME NEW n \in T, n \in 0 .. most - 1 PROVE n + 1 \in T
    <3>1. n + 1 \in 1 .. most /\ (n + 1) - 1 = n /\ n + 1 \in 0 .. most /\ n \in Nat
      BY <1>1, <2>2
    <3>2. turns[n + 1] = Turn(turns[n])
      BY <1>6, <3>1
    <3>3. PICK q : q = turns[n]
      OBVIOUS
    <3>4. Sound(q) /\ (~Goes(q) \/ Len(q.pending) + 4 * n <= L) /\ turns[n + 1] = Turn(q)
      BY <3>2, <3>3
    <3>5. CASE ~Goes(q)
      BY <3>1, <3>4, <3>5, TurnIdle
    <3>6. CASE Goes(q)
      <4>1. /\ Turn(q).error \/ Len(Turn(q).pending) + 4 <= Len(q.pending)
            /\ Len(q.pending) \in Nat /\ Len(Turn(q).pending) \in Nat
        BY <3>4, <3>6, TurnIs, LenProperties DEF Goes, Sound, Parsers, Text
      <4>2. Sound(Turn(q))
        BY <3>4, TurnIs
      <4>3. Turn(q).error => ~Goes(Turn(q))
        BY DEF Goes, Ends, Begins
      <4>4. Len(q.pending) + 4 * n <= L
        BY <3>4, <3>6
      <4>5. Len(Turn(q).pending) + 4 <= Len(q.pending) => Len(Turn(q).pending) + 4 * (n + 1) <= L
        <5> DEFINE i == Len(Turn(q).pending)
                   j == Len(q.pending)
        <5>1. i \in Nat /\ j \in Nat
          BY <4>1
        <5> HIDE DEF i, j, T
        <5>2. j + 4 * n <= L
          BY <4>4 DEF j
        <5>3. i + 4 <= j => i + 4 * (n + 1) <= L
          BY <1>1, <3>1, <5>1, <5>2
        <5> QED BY <5>3 DEF i, j
      <4> QED BY <3>1, <3>4, <4>1, <4>2, <4>3, <4>5
    <3> QED BY <3>5, <3>6
  <2> HIDE DEF T
  <2>3. 0 .. most \subseteq T
    BY <1>1, <2>1, <2>2, BoundedInduction
  <2> QED BY <2>3 DEF T
<1>9. ~Goes(turns[most])
  <2>1. most \in 0 .. most
    BY <1>1
  <2>2. /\ Sound(turns[most])
        /\ ~Goes(turns[most]) \/ Len(turns[most].pending) + 4 * most <= L
    BY <1>8, <2>1
  <2>3. Goes(turns[most]) => Len(turns[most].pending) >= 4 /\ Len(turns[most].pending) \in Nat
    BY <2>2, TurnIs, LenProperties DEF Goes, Sound, Parsers, Text
  <2> DEFINE j == Len(turns[most].pending)
  <2>4. Goes(turns[most]) => j >= 4 /\ j \in Nat /\ j + 4 * most <= L
    BY <2>2, <2>3
  <2> HIDE DEF j
  <2>5. ~(j >= 4 /\ j \in Nat /\ j + 4 * most <= L)
    BY <1>1
  <2> QED BY <2>4, <2>5
<1>10. Path(p, turns, most)
  BY <1>1, <1>6, <1>9 DEF Path
<1> QED BY <1>7, <1>10

\* Where a longer row of turns ends is where a shorter one does.
LEMMA PathOn ==
  ASSUME NEW p, NEW f, NEW m, NEW g, NEW n, Path(p, f, m), Path(p, g, n), m <= n
  PROVE  f[m] = g[n]
<1>1. /\ m \in Nat /\ n \in Nat /\ f[0] = g[0] /\ ~Goes(f[m])
      /\ \A k \in 1 .. m : f[k] = Turn(f[k - 1])
      /\ \A k \in 1 .. n : g[k] = Turn(g[k - 1])
  BY DEF Path
<1>2. f[m] = g[m]
  <2> DEFINE T == {k \in 0 .. m : f[k] = g[k]}
  <2>1. 0 \in T
    BY <1>1
  <2>2. ASSUME NEW k \in T, k \in 0 .. m - 1 PROVE k + 1 \in T
    <3>1. k + 1 \in 1 .. m /\ k + 1 \in 1 .. n /\ (k + 1) - 1 = k /\ k + 1 \in 0 .. m
      BY <1>1, <2>2
    <3> QED BY <1>1, <3>1
  <2>3. 0 .. m \subseteq T
    <3> HIDE DEF T
    <3> QED BY <1>1, <2>1, <2>2, BoundedInduction
  <2>4. m \in T
    BY <1>1, <2>3
  <2> QED BY <2>4
<1>3. g[n] = f[m]
  <2> DEFINE T == {k \in 0 .. n - m : g[m + k] = f[m]}
  <2>1. 0 \in T /\ n - m \in Nat /\ m + (n - m) = n
    BY <1>1, <1>2
  <2>2. ASSUME NEW k \in T, k \in 0 .. (n - m) - 1 PROVE k + 1 \in T
    <3>1. m + (k + 1) \in 1 .. n /\ (m + (k + 1)) - 1 = m + k /\ k + 1 \in 0 .. n - m
      BY <1>1, <2>2
    <3>2. g[m + (k + 1)] = Turn(g[m + k])
      BY <1>1, <3>1
    <3>3. g[m + k] = f[m]
      OBVIOUS
    <3> QED BY <1>1, <3>1, <3>2, <3>3, TurnIdle
  <2>3. 0 .. n - m \subseteq T
    <3> HIDE DEF T
    <3> QED BY <2>1, <2>2, BoundedInduction
  <2>4. n - m \in T
    BY <2>1, <2>3
  <2> QED BY <2>1, <2>4
<1> QED BY <1>3

\* drain (tools.rs) takes one turn after another, and settles when there is none
\* to take: the bound on the turns in the model's Drain cuts no run short.
THEOREM DrainTurn ==
  ASSUME NEW p, Sound(p)
  PROVE  Drain(p) = IF Goes(p) THEN Drain(Turn(p)) ELSE Settle(p)
<1>1. PICK m, f : Path(p, f, m) /\ Drain(p) = Settle(f[m])
  BY DrainEnds
<1>2. /\ m \in Nat /\ f[0] = p /\ ~Goes(f[m]) /\ \A n \in 1 .. m : f[n] = Turn(f[n - 1])
  BY <1>1 DEF Path
<1>3. CASE ~Goes(p)
  <2> DEFINE g == [n \in {0} |-> p]
  <2>1. g[0] = p /\ Path(p, g, 0)
    BY <1>3 DEF Path
  <2>2. 0 <= m
    BY <1>2
  <2> HIDE DEF g
  <2>3. g[0] = f[m]
    BY <1>1, <2>1, <2>2, PathOn
  <2> QED BY <1>1, <1>3, <2>1, <2>3
<1>4. CASE Goes(p)
  <2> DEFINE q == Turn(p)
             g == [n \in 0 .. m - 1 |-> f[n + 1]]
  <2>1. m # 0 /\ m - 1 \in Nat
    BY <1>2, <1>4
  <2>2. Path(q, g, m - 1) /\ g[m - 1] = f[m]
    <3>1. g[0] = q
      <4>1. 1 \in 1 .. m /\ 1 - 1 = 0 /\ 0 \in 0 .. m - 1 /\ 0 + 1 = 1
        BY <1>2, <2>1
      <4> QED BY <1>2, <4>1
    <3>2. g[m - 1] = f[m]
      <4>1. m - 1 \in 0 .. m - 1 /\ (m - 1) + 1 = m
        BY <2>1, <1>2
      <4> QED BY <4>1
    <3>3. ASSUME NEW n \in 1 .. m - 1 PROVE g[n] = Turn(g[n - 1])
      <4>1. /\ n \in 0 .. m - 1 /\ n - 1 \in 0 .. m - 1 /\ n + 1 \in 1 .. m
            /\ (n + 1) - 1 = n /\ (n - 1) + 1 = n
        BY <1>2, <2>1
      <4>2. f[n + 1] = Turn(f[n])
        BY <1>2, <4>1
      <4> QED BY <4>1, <4>2
    <3> HIDE DEF g, q
    <3> QED BY <1>2, <2>1, <3>1, <3>2, <3>3 DEF Path
  <2>3. Sound(q)
    BY TurnIs
  <2>4. PICK n, h : Path(q, h, n) /\ Drain(q) = Settle(h[n])
    <3> HIDE DEF q
    <3> QED BY <2>3, DrainEnds
  <2>5. h[n] = g[m - 1]
    <3>1. n \in Nat
      BY <2>4 DEF Path
    <3> HIDE DEF g, q
    <3>2. CASE n <= m - 1
      BY <2>2, <2>4, <3>2, PathOn
    <3>3. CASE m - 1 <= n
      BY <2>2, <2>4, <3>3, PathOn
    <3> QED BY <2>1, <3>1, <3>2, <3>3
  <2> QED BY <1>1, <1>4, <2>2, <2>4, <2>5
<1> QED BY <1>3, <1>4

\* What holds of a parser that turns no more, and before a turn if it holds
\* after it, holds of every parser.
LEMMA TurnInduction ==
  ASSUME NEW A,
         \A p \in Parsers : Sound(p) /\ ~Goes(p) => p \in A,
         \A p \in Parsers : Sound(p) /\ Goes(p) /\ Turn(p) \in A => p \in A
  PROVE  \A p \in Parsers : Sound(p) => p \in A
<1> DEFINE T == {n \in Nat : \A p \in Parsers : Sound(p) /\ Len(p.pending) < n => p \in A}
<1>1. ASSUME NEW p \in Parsers PROVE Len(p.pending) \in Nat
  BY LenProperties DEF Parsers, Text
<1>2. 0 \in T
  <2>1. ASSUME NEW p \in Parsers PROVE ~(Len(p.pending) < 0)
    BY <1>1
  <2> QED BY <2>1
<1>3. ASSUME NEW n \in T PROVE n + 1 \in T
  <2> SUFFICES ASSUME NEW p \in Parsers, Sound(p), Len(p.pending) < n + 1 PROVE p \in A
    OBVIOUS
  <2>1. CASE ~Goes(p)
    BY <2>1
  <2>2. CASE Goes(p)
    <3>1. PICK q : q = Turn(p)
      OBVIOUS
    <3>2. /\ Sound(q) /\ q \in Parsers
          /\ q.error \/ Len(q.pending) + 4 <= Len(p.pending)
      BY <2>2, <3>1, TurnIs DEF Goes, Sound
    <3>3. CASE q.error
      <4>1. ~Goes(q)
        BY <3>3 DEF Goes, Ends, Begins
      <4> QED BY <2>2, <3>1, <3>2, <4>1
    <3>4. CASE ~q.error
      <4>1. Len(q.pending) < n
        <5>1. Len(q.pending) \in Nat /\ Len(p.pending) \in Nat /\ n \in Nat
          BY <1>1, <3>2
        <5> QED BY <3>2, <3>4, <5>1
      <4>2. q \in A
        BY <3>2, <4>1
      <4> QED BY <2>2, <3>1, <4>2
    <3> QED BY <3>3, <3>4
  <2> QED BY <2>1, <2>2
<1>4. T = Nat
  <2>1. T \in SUBSET Nat
    OBVIOUS
  <2> HIDE DEF T
  <2> QED BY <1>2, <1>3, <2>1, Induction
<1>5. ASSUME NEW p \in Parsers, Sound(p) PROVE p \in A
  <2>1. Len(p.pending) + 1 \in T /\ Len(p.pending) < Len(p.pending) + 1
    <3>1. Len(p.pending) + 1 \in Nat /\ Len(p.pending) < Len(p.pending) + 1
      BY <1>1
    <3> HIDE DEF T
    <3> QED BY <1>4, <3>1
  <2> QED BY <1>5, <2>1
<1> QED BY <1>5

-----------------------------------------------------------------------------
(* Settling, and parsers that only differ in what was returned.            *)

\* p has let out the first n symbols of what was pending as text.
EmitCut(p, n) == EmitText([p EXCEPT !.pending = Drop(@, n)], Take(p.pending, n))

\* What letting text out leaves.
LEMMA EmitCutIs ==
  ASSUME NEW p, Sound(p), ~p.inCall, NEW n \in 0 .. Len(p.pending)
  PROVE  LET q == EmitCut(p, n)
             x == Take(p.pending, n)
         IN /\ Sound(q) /\ q.arch = p.arch /\ q.choice = p.choice
            /\ q.pending = Drop(p.pending, n) /\ x \in Text
            /\ q.error = (p.error \/ (p.calls # <<>> /\ ~Blank(x))) /\ q.inCall = p.inCall
            /\ q.scan = p.scan /\ q.quoted = p.quoted
            /\ q.text = (IF p.calls = <<>> THEN p.text \o x ELSE p.text) /\ q.calls = p.calls
<1> DEFINE t == p.pending
           x == Take(t, n)
           rest == Drop(t, n)
           b == [p EXCEPT !.pending = rest]
           q == EmitCut(p, n)
<1>1. p \in Parsers /\ t \in Seq(Symbols) /\ p.scan = 0
  BY DEF Sound, Parsers, Text
<1>2. x \in Text /\ rest \in Text
  BY <1>1, TakeDrop DEF Text
<1>3. /\ b \in Parsers /\ b.arch = p.arch /\ b.choice = p.choice /\ b.pending = rest
      /\ b.inCall = p.inCall /\ b.scan = p.scan /\ b.quoted = p.quoted /\ b.text = p.text
      /\ b.calls = p.calls /\ b.error = p.error
  <2> HIDE DEF rest
  <2> QED BY <1>1, <1>2 DEF Parsers
<1>4. q = EmitText(b, x)
  BY DEF EmitCut
<1> HIDE DEF b, x, q
<1>5. /\ Kept(b, q) /\ q.error = (b.error \/ (b.calls # <<>> /\ ~Blank(x)))
      /\ q.text = IF b.calls = <<>> THEN b.text \o x ELSE b.text
  BY <1>2, <1>3, <1>4, EmitIs
<1>6. Sound(q)
  <2>1. Len(q.pending) \in Nat
    BY <1>5, LenProperties DEF Kept, Parsers, Text
  <2> QED BY <1>1, <1>3, <1>5, <2>1 DEF Kept, Sound
<1> QED BY <1>2, <1>3, <1>5, <1>6 DEF Kept, x, q

\* Where the tag of a call that ends is.
LEMMA EndsAt ==
  ASSUME NEW p, Sound(p), Ends(p)
  PROVE  CallClose(p).scan \in Nat /\ CallClose(p).scan + 4 <= Len(p.pending)
<1> DEFINE t == p.pending
           n == CallClose(p).scan
<1>1. /\ p \in Parsers /\ t \in Text /\ Len(t) \in Nat /\ CLOSE \in Text /\ Len(CLOSE) = 4
      /\ n \in 0 .. Len(t) /\ IsPrefix(CLOSE, Drop(t, n))
  BY Tags, LenProperties, CallCloseIs DEF Sound, Parsers, Text, Ends
<1> HIDE DEF t, n
<1>2. n + Len(CLOSE) <= Len(t)
  BY <1>1, ReadsAt
<1> QED BY <1>1, <1>2 DEF t, n

\* A tag that is not whole yet at the first marker.
Half(p) ==
  /\ Len(p.pending) < First(Markers(p)) + 4
  /\ Reads(OPEN, p.pending, First(Markers(p)))

\* What drain does when it turns no more.
LEMMA SettleIs ==
  ASSUME NEW p, Sound(p), ~p.error
  PROVE  /\ p.inCall =>
              Settle(p) = [p EXCEPT !.scan = CallClose(p).scan, !.quoted = CallClose(p).quoted]
         /\ ~p.inCall /\ Markers(p) = {} => Settle(p) = EmitCut(p, Held(p.pending))
         /\ ~p.inCall /\ Markers(p) # {} =>
              /\ First(Markers(p)) \in 0 .. Len(p.pending)
              /\ Settle(p) = IF Half(p) THEN EmitCut(p, First(Markers(p))) ELSE Broken(p)
<1> DEFINE t == p.pending
           at == First(Markers(p))
<1>1. p.inCall => Settle(p) = [p EXCEPT !.scan = CallClose(p).scan, !.quoted = CallClose(p).quoted]
  BY DEF Settle
<1>2. ASSUME ~p.inCall, Markers(p) = {} PROVE Settle(p) = EmitCut(p, Held(t))
  BY <1>2 DEF Settle, EmitCut, Held
<1>3. ASSUME ~p.inCall, Markers(p) # {}
      PROVE  at \in 0 .. Len(t) /\ Settle(p) = IF Half(p) THEN EmitCut(p, at) ELSE Broken(p)
  <2>1. p \in Parsers /\ t \in Text /\ OPEN \in Text /\ Len(OPEN) = 4
    BY Tags DEF Sound, Parsers
  <2>2. at \in 0 .. Len(t)
    BY <1>3, <2>1, MarkersAt
  <2>3. IsStrictPrefix(Drop(t, at), OPEN) <=> Len(t) < at + 4 /\ Reads(OPEN, t, at)
    <3> HIDE DEF t, at
    <3> QED BY <2>1, <2>2, ReadsAt
  <2>4. Settle(p) = IF IsStrictPrefix(Drop(t, at), OPEN) THEN EmitCut(p, at) ELSE Broken(p)
    BY <1>3 DEF Settle, EmitCut
  <2> QED BY <2>2, <2>3, <2>4 DEF Half
<1> QED BY <1>1, <1>2, <1>3

\* A parser that is broken stays as it is.
LEMMA BrokenIdle ==
  ASSUME NEW p, p.error
  PROVE  ~Goes(p) /\ Settle(p) = p
BY DEF Goes, Ends, Begins, Settle

\* Settling keeps a parser sound.
LEMMA SettleSound ==
  ASSUME NEW p, Sound(p)
  PROVE  Sound(Settle(p))
<1> DEFINE t == p.pending
           close == CallClose(p)
           q == Settle(p)
<1>1. CASE p.error
  BY <1>1, BrokenIdle
<1>2. CASE ~p.error /\ p.inCall
  <2>1. q = [p EXCEPT !.scan = close.scan, !.quoted = close.quoted]
    BY <1>2, SettleIs
  <2>2. p \in Parsers /\ close.scan \in 0 .. Len(t) /\ close.quoted \in BOOLEAN /\ Len(t) \in Nat
    BY CallCloseIs, LenProperties DEF Sound, Parsers, Text
  <2>5. close.scan \in Nat /\ t = p.pending
    BY <2>2
  <2> HIDE DEF close, q, t
  <2>3. q \in Parsers /\ q.scan = close.scan /\ q.pending = t /\ q.inCall
    BY <1>2, <2>1, <2>2, <2>5 DEF Parsers
  <2>4. Sound(q)
    BY <2>2, <2>3 DEF Sound
  <2> QED BY <2>4 DEF q
<1>3. CASE ~p.error /\ ~p.inCall
  <2>1. p \in Parsers /\ t \in Text
    BY DEF Sound, Parsers
  <2>2. Markers(p) = {} => q = EmitCut(p, Held(t)) /\ Held(t) \in 0 .. Len(t)
    BY <1>3, <2>1, SettleIs, HeldAt
  <2>3. Markers(p) # {} =>
          /\ First(Markers(p)) \in 0 .. Len(t)
          /\ q = EmitCut(p, First(Markers(p))) \/ q = Broken(p)
    BY <1>3, SettleIs
  <2>4. ASSUME NEW n \in 0 .. Len(t), q = EmitCut(p, n) PROVE Sound(q)
    BY <1>3, <2>4, EmitCutIs
  <2>5. ASSUME q = Broken(p) PROVE Sound(q)
    BY <2>1, <2>5, BrokenIs DEF Kept, Sound
  <2> QED BY <2>2, <2>3, <2>4, <2>5
<1> QED BY <1>1, <1>2, <1>3

\* Draining keeps a parser sound.
LEMMA DrainSound == \A p \in Parsers : Sound(p) => Sound(Drain(p))
<1> DEFINE A == {p \in Parsers : Sound(Drain(p))}
<1>1. \A p \in Parsers : Sound(p) /\ ~Goes(p) => p \in A
  BY DrainTurn, SettleSound
<1>2. \A p \in Parsers : Sound(p) /\ Goes(p) /\ Turn(p) \in A => p \in A
  BY DrainTurn
<1>3. \A p \in Parsers : Sound(p) => p \in A
  <2> HIDE DEF A
  <2> QED BY <1>1, <1>2, TurnInduction
<1> QED BY <1>3

\* Whether drain goes on does not depend on what was returned.
LEMMA GoesSame ==
  ASSUME NEW p, NEW q, Sound(p), Sound(q), Same(p, q)
  PROVE  /\ Ends(p) = Ends(q) /\ Begins(p) = Begins(q)
         /\ ~p.error => CallClose(p) = CallClose(q) /\ Markers(p) = Markers(q)
<1>1. p \in Parsers /\ q \in Parsers
  BY DEF Sound
<1>2. CASE p.error
  <2>1. q.error
    BY <1>2 DEF Same
  <2> QED BY <1>2, <2>1 DEF Ends, Begins
<1>3. CASE ~p.error
  <2>1. /\ ~q.error /\ p.arch = q.arch /\ p.choice = q.choice /\ p.pending = q.pending
        /\ p.inCall = q.inCall /\ p.scan = q.scan /\ p.quoted = q.quoted
    BY <1>1, <1>3, SameIs
  <2>2. Markers(p) = Markers(q)
    BY <2>1 DEF Markers
  <2>3. CallClose(p) = CallClose(q)
    <3>1. PICK n, Q : Scans(p, Q, n)
      BY <1>1, CallCloseScans DEF Sound
    <3>2. Scans(q, Q, n)
      BY <2>1, <3>1 DEF Scans
    <3> QED BY <1>1, <3>1, <3>2, CallCloseThere
  <2> QED BY <1>3, <2>1, <2>2, <2>3 DEF Ends, Begins
<1> QED BY <1>2, <1>3

\* Nor does what a turn makes of the parser.
LEMMA TurnSame ==
  ASSUME NEW p, NEW q, Sound(p), Sound(q), Same(p, q)
  PROVE  Same(Turn(p), Turn(q))
<1>1. p \in Parsers /\ q \in Parsers
  BY DEF Sound
<1>2. Ends(p) = Ends(q) /\ Begins(p) = Begins(q)
  BY GoesSame
<1>3. CASE ~Goes(p)
  <2>1. ~Goes(q)
    BY <1>2, <1>3 DEF Goes
  <2> QED BY <1>3, <2>1, TurnIdle
<1>4. CASE Goes(p)
  <2>1. ~p.error
    BY <1>4 DEF Goes, Ends, Begins
  <2>2. /\ CallClose(p) = CallClose(q) /\ Markers(p) = Markers(q)
        /\ p.error = q.error /\ p.arch = q.arch /\ p.choice = q.choice /\ p.pending = q.pending
        /\ p.inCall = q.inCall /\ p.scan = q.scan /\ p.quoted = q.quoted /\ p.text = q.text
        /\ p.calls = q.calls
    BY <1>1, <2>1, GoesSame, SameIs
  <2>3. PICK a : a = Turn(p)
    OBVIOUS
  <2>4. PICK b : b = Turn(q)
    OBVIOUS
  <2>5. Sound(a) /\ Sound(b) /\ a \in Parsers /\ b \in Parsers
    BY <2>3, <2>4, TurnIs DEF Sound
  <2>6. CASE Ends(p)
    <3>1. PICK n : n = CallClose(p).scan
      OBVIOUS
    <3>2. a = EndCall(p, n) /\ b = EndCall(q, n) /\ n \in Nat /\ n + 4 <= Len(p.pending)
      <4>1. ~Begins(p)
        BY <2>6 DEF Begins, Ends
      <4> QED BY <1>2, <2>2, <2>3, <2>4, <2>6, <3>1, <4>1, EndsAt DEF Turn
    <3> DEFINE body == Take(p.pending, n)
    <3>3. CASE body \notin DOMAIN Bodies
      <4>1. a = Broken(p) /\ b = Broken(q)
        BY <2>2, <3>2, <3>3, EndIs
      <4>2. a.error = TRUE /\ b.error = TRUE
        BY <1>1, <4>1 DEF Broken, Parsers
      <4> QED BY <2>3, <2>4, <4>2 DEF Same
    <3>4. CASE body \in DOMAIN Bodies
      <4>1. /\ a.arch = p.arch /\ a.choice = p.choice
            /\ a.pending = Drop(p.pending, n + 4) /\ a.scan = 0 /\ a.quoted = FALSE
            /\ a.text = p.text /\ a.calls = Append(p.calls, body) /\ a.error = p.error /\ ~a.inCall
        BY <3>2, <3>4, EndIs
      <4>2. /\ b.arch = q.arch /\ b.choice = q.choice
            /\ b.pending = Drop(p.pending, n + 4) /\ b.scan = 0 /\ b.quoted = FALSE
            /\ b.text = q.text /\ b.calls = Append(p.calls, body) /\ b.error = q.error /\ ~b.inCall
        BY <2>2, <3>2, <3>4, EndIs
      <4>3. a.inCall = b.inCall
        BY <2>5, <4>1, <4>2 DEF Parsers
      <4> HIDE DEF body
      <4> QED BY <2>2, <2>3, <2>4, <2>5, <4>1, <4>2, <4>3, SameIs
    <3> QED BY <3>3, <3>4
  <2>7. CASE ~Ends(p)
    <3>1. Begins(p) /\ Begins(q) /\ a = Begin(p) /\ b = Begin(q)
      BY <1>2, <1>4, <2>3, <2>4, <2>7 DEF Turn, Goes
    <3> DEFINE at == First(Markers(p))
               x == Take(p.pending, at)
    <3>2. /\ a.arch = p.arch /\ a.choice = p.choice
          /\ a.pending = Drop(p.pending, at + 4)
          /\ a.error = (p.calls # <<>> /\ ~Blank(x)) /\ a.inCall = ~a.error
          /\ a.scan = p.scan /\ a.quoted = p.quoted
          /\ a.text = (IF p.calls = <<>> THEN p.text \o x ELSE p.text) /\ a.calls = p.calls
      BY <3>1, BeginIs
    <3>3. /\ b.arch = p.arch /\ b.choice = p.choice
          /\ b.pending = Drop(p.pending, at + 4)
          /\ b.error = (p.calls # <<>> /\ ~Blank(x)) /\ b.inCall = ~b.error
          /\ b.scan = p.scan /\ b.quoted = p.quoted
          /\ b.text = (IF p.calls = <<>> THEN p.text \o x ELSE p.text) /\ b.calls = p.calls
      <4> HIDE DEF at
      <4>1. at = First(Markers(q)) /\ x = Take(q.pending, at)
        BY <2>2 DEF at
      <4> QED BY <2>2, <3>1, <4>1, BeginIs DEF at
    <3> HIDE DEF at, x
    <3> QED BY <2>3, <2>4, <2>5, <3>2, <3>3, SameIs
  <2> QED BY <2>6, <2>7
<1> QED BY <1>3, <1>4

\* Letting text out does not depend on what was returned.
LEMMA CutSame ==
  ASSUME NEW p, NEW q, Sound(p), Sound(q), Same(p, q), ~p.error, ~p.inCall,
         NEW n \in 0 .. Len(p.pending)
  PROVE  Same(EmitCut(p, n), EmitCut(q, n))
<1>1. p \in Parsers /\ q \in Parsers
  BY DEF Sound
<1>2. /\ p.error = q.error /\ p.arch = q.arch /\ p.choice = q.choice /\ p.pending = q.pending
      /\ p.inCall = q.inCall /\ p.scan = q.scan /\ p.quoted = q.quoted /\ p.text = q.text
      /\ p.calls = q.calls
  BY <1>1, SameIs
<1> DEFINE a == EmitCut(p, n)
           b == EmitCut(q, n)
           x == Take(p.pending, n)
<1>3. /\ Sound(a) /\ a.arch = p.arch /\ a.choice = p.choice
      /\ a.pending = Drop(p.pending, n)
      /\ a.error = (p.error \/ (p.calls # <<>> /\ ~Blank(x))) /\ a.inCall = p.inCall
      /\ a.scan = p.scan /\ a.quoted = p.quoted
      /\ a.text = (IF p.calls = <<>> THEN p.text \o x ELSE p.text) /\ a.calls = p.calls
  BY EmitCutIs
<1>4. /\ Sound(b) /\ b.arch = q.arch /\ b.choice = q.choice
      /\ b.pending = Drop(q.pending, n)
      /\ b.error = (q.error \/ (q.calls # <<>> /\ ~Blank(x))) /\ b.inCall = q.inCall
      /\ b.scan = q.scan /\ b.quoted = q.quoted
      /\ b.text = (IF q.calls = <<>> THEN q.text \o x ELSE q.text) /\ b.calls = q.calls
  <2>1. ~q.inCall /\ n \in 0 .. Len(q.pending) /\ x = Take(q.pending, n)
    BY <1>2
  <2> QED BY <2>1, EmitCutIs
<1> HIDE DEF a, b, x
<1>5. Same(a, b)
  BY <1>2, <1>3, <1>4, SameIs DEF Sound
<1> QED BY <1>5 DEF a, b

\* Nor does settling.
LEMMA SettleSame ==
  ASSUME NEW p, NEW q, Sound(p), Sound(q), Same(p, q)
  PROVE  Same(Settle(p), Settle(q))
<1>1. p \in Parsers /\ q \in Parsers
  BY DEF Sound
<1>2. CASE p.error
  BY <1>2, BrokenIdle DEF Same
<1>3. CASE ~p.error
  <2>1. /\ CallClose(p) = CallClose(q) /\ Markers(p) = Markers(q) /\ ~q.error
        /\ p.error = q.error /\ p.arch = q.arch /\ p.choice = q.choice /\ p.pending = q.pending
        /\ p.inCall = q.inCall /\ p.scan = q.scan /\ p.quoted = q.quoted /\ p.text = q.text
        /\ p.calls = q.calls
    BY <1>1, <1>3, GoesSame, SameIs
  <2>2. CASE p.inCall
    <3>1. PICK n : n = CallClose(p).scan
      OBVIOUS
    <3>2. PICK z : z = CallClose(p).quoted
      OBVIOUS
    <3>3. n \in Nat /\ z \in BOOLEAN
      <4>1. n \in 0 .. Len(p.pending) /\ z \in BOOLEAN
        BY <1>1, <3>1, <3>2, CallCloseIs DEF Sound
      <4> QED BY <4>1
    <3>4. PICK a : a = Settle(p)
      OBVIOUS
    <3>5. PICK b : b = Settle(q)
      OBVIOUS
    <3>6. a = [p EXCEPT !.scan = n, !.quoted = z] /\ b = [q EXCEPT !.scan = n, !.quoted = z]
      BY <1>3, <2>1, <2>2, <3>1, <3>2, <3>4, <3>5, SettleIs
    <3>7. /\ a \in Parsers /\ a.arch = p.arch /\ a.choice = p.choice /\ a.pending = p.pending
          /\ a.error = p.error /\ a.inCall = p.inCall /\ a.scan = n /\ a.quoted = z
          /\ a.text = p.text /\ a.calls = p.calls
      BY <1>1, <3>3, <3>6 DEF Parsers
    <3>8. /\ b \in Parsers /\ b.arch = q.arch /\ b.choice = q.choice /\ b.pending = q.pending
          /\ b.error = q.error /\ b.inCall = q.inCall /\ b.scan = n /\ b.quoted = z
          /\ b.text = q.text /\ b.calls = q.calls
      BY <1>1, <3>3, <3>6 DEF Parsers
    <3>9. Same(a, b)
      BY <2>1, <3>7, <3>8, SameIs
    <3> QED BY <3>4, <3>5, <3>9
  <2>3. CASE ~p.inCall /\ Markers(p) = {}
    <3>1. Settle(p) = EmitCut(p, Held(p.pending)) /\ Settle(q) = EmitCut(q, Held(p.pending))
      BY <1>3, <2>1, <2>3, SettleIs
    <3>2. Held(p.pending) \in 0 .. Len(p.pending)
      BY <1>1, HeldAt DEF Parsers
    <3> QED BY <1>3, <2>3, <3>1, <3>2, CutSame
  <2>4. CASE ~p.inCall /\ Markers(p) # {}
    <3> DEFINE at == First(Markers(p))
    <3>1. /\ at \in 0 .. Len(p.pending)
          /\ Settle(p) = IF Half(p) THEN EmitCut(p, at) ELSE Broken(p)
      BY <1>3, <2>4, SettleIs
    <3>2. Settle(q) = IF Half(q) THEN EmitCut(q, at) ELSE Broken(q)
      BY <2>1, <2>4, SettleIs
    <3>3. Half(p) = Half(q)
      BY <2>1 DEF Half
    <3>4. Same(EmitCut(p, at), EmitCut(q, at))
      <4> HIDE DEF at
      <4> QED BY <1>3, <2>4, <3>1, CutSame
    <3>5. Same(Broken(p), Broken(q))
      BY <1>1 DEF Same, Broken, Parsers
    <3> HIDE DEF at
    <3> QED BY <3>1, <3>2, <3>3, <3>4, <3>5
  <2> QED BY <2>2, <2>3, <2>4
<1> QED BY <1>2, <1>3

\* Nor does draining.
LEMMA DrainSame ==
  ASSUME NEW p, NEW q, Sound(p), Sound(q), Same(p, q)
  PROVE  Same(Drain(p), Drain(q))
<1> DEFINE A == {r \in Parsers : \A s \in Parsers :
                   Sound(s) /\ Same(r, s) => Same(Drain(r), Drain(s))}
<1>1. ASSUME NEW r \in Parsers, Sound(r), ~Goes(r) PROVE r \in A
  <2> SUFFICES ASSUME NEW s \in Parsers, Sound(s), Same(r, s) PROVE Same(Drain(r), Drain(s))
    OBVIOUS
  <2>1. ~Goes(s)
    BY <1>1, GoesSame DEF Goes
  <2> QED BY <1>1, <2>1, DrainTurn, SettleSame
<1>2. ASSUME NEW r \in Parsers, Sound(r), Goes(r), Turn(r) \in A PROVE r \in A
  <2> SUFFICES ASSUME NEW s \in Parsers, Sound(s), Same(r, s) PROVE Same(Drain(r), Drain(s))
    OBVIOUS
  <2>1. Goes(s)
    BY <1>2, GoesSame DEF Goes
  <2>2. Same(Turn(r), Turn(s)) /\ Sound(Turn(s)) /\ Turn(s) \in Parsers
    BY <1>2, TurnSame, TurnIs DEF Sound
  <2>3. Same(Drain(Turn(r)), Drain(Turn(s)))
    BY <1>2, <2>2
  <2> QED BY <1>2, <2>1, <2>3, DrainTurn
<1>3. p \in Parsers /\ q \in Parsers
  BY DEF Sound
<1>4. p \in A
  <2> HIDE DEF A
  <2> QED BY <1>1, <1>2, <1>3, TurnInduction
<1> QED BY <1>3, <1>4

\* Parsers that only differ in what they returned go on alike.
LEMMA SameSame ==
  /\ \A p : Same(p, p)
  /\ \A p, q : Same(p, q) => Same(q, p)
  /\ \A p, q, r : Same(p, q) /\ Same(q, r) => Same(p, r)
BY DEF Same

\* And alike with more text.
LEMMA MoreSame ==
  ASSUME NEW p, NEW q, Sound(p), Sound(q), Same(p, q), NEW x \in Text
  PROVE  Same(More(p, x), More(q, x))
<1> DEFINE a == More(p, x)
           b == More(q, x)
<1>1. /\ Sound(a) /\ a.pending = p.pending \o x
      /\ a.error = p.error /\ a.inCall = p.inCall
      /\ a.choice = p.choice /\ a.calls = p.calls
      /\ a.scan = p.scan /\ a.quoted = p.quoted
      /\ a.arch = p.arch /\ a.text = p.text
  BY MoreIs
<1>2. /\ Sound(b) /\ b.pending = q.pending \o x
      /\ b.error = q.error /\ b.inCall = q.inCall
      /\ b.choice = q.choice /\ b.calls = q.calls
      /\ b.scan = q.scan /\ b.quoted = q.quoted
      /\ b.arch = q.arch /\ b.text = q.text
  BY MoreIs
<1> HIDE DEF a, b
<1>3. p \in Parsers /\ q \in Parsers /\ a \in Parsers /\ b \in Parsers
  BY <1>1, <1>2 DEF Sound
<1>4. /\ p.error = q.error
      /\ ~p.error =>
           /\ p.arch = q.arch /\ p.choice = q.choice /\ p.pending = q.pending
           /\ p.inCall = q.inCall /\ p.scan = q.scan /\ p.quoted = q.quoted
           /\ p.text = q.text /\ p.calls = q.calls
  BY <1>3, SameIs
<1>5. Same(a, b)
  <2>1. a.error = b.error
    BY <1>1, <1>2, <1>4
  <2>2. ASSUME ~a.error
        PROVE  /\ a.arch = b.arch /\ a.choice = b.choice /\ a.pending = b.pending
               /\ a.inCall = b.inCall /\ a.scan = b.scan /\ a.quoted = b.quoted
               /\ a.text = b.text /\ a.calls = b.calls
    BY <1>1, <1>2, <1>4, <2>2
  <2> QED BY <1>3, <2>1, <2>2, SameIs
<1> QED BY <1>5 DEF a, b

-----------------------------------------------------------------------------
(* More text changes no turn.                                              *)

\* More text leaves the markers, and a new one begins in what is held or after.
LEMMA MarkersMore ==
  ASSUME NEW p, Sound(p), NEW x \in Text
  PROVE  /\ Markers(p) \subseteq Markers(More(p, x))
         /\ \A j \in Markers(More(p, x)) : j \notin Markers(p) =>
              j > Len(p.pending) \/ (j \in 0 .. Len(p.pending) /\ j + 3 > Len(p.pending)
                                     /\ Starts(p.pending, j))
         /\ Markers(p) # {} => First(Markers(More(p, x))) = First(Markers(p))
<1> DEFINE t == p.pending
           u == t \o x
           a == More(p, x)
<1>1. p \in Parsers /\ t \in Text /\ Len(t) \in Nat
  BY LenProperties DEF Sound, Parsers, Text
<1>2. a \in Parsers /\ a.pending = u
  BY MoreIs DEF Sound
<1>3. u \in Text /\ Len(u) = Len(t) + Len(x) /\ Len(x) \in Nat
  BY <1>1, Joined, LenProperties DEF Text
<1> HIDE DEF a, u
<1>4. ASSUME NEW i \in Markers(p) PROVE i \in Markers(a)
  <2>1. i \in Nat /\ i + 3 <= Len(t)
    BY <1>1, MarkersIn
  <2>2. PICK tag \in MARKERS : Reads(tag, t, i)
    BY <1>1, MarkersIn
  <2>3. i + 3 <= Len(u)
    <3> HIDE DEF t
    <3> QED BY <1>1, <1>3, <2>1
  <2>4. Reads(tag, u, i)
    <3>1. tag \in Text /\ Len(tag) = 3
      BY MarkerTags
    <3> QED BY <1>1, <2>1, <2>2, <3>1, ReadsMore DEF u
  <2> QED BY <1>2, <2>1, <2>3, <2>4, MarkersIn
<1>5. ASSUME NEW j \in Markers(a), j \notin Markers(p)
      PROVE  j > Len(t) \/ (j \in 0 .. Len(t) /\ j + 3 > Len(t) /\ Starts(t, j))
  <2>1. j \in Nat
    BY <1>2, MarkersIn
  <2>2. PICK tag \in MARKERS : Reads(tag, u, j)
    BY <1>2, MarkersIn
  <2>3. Reads(tag, t, j)
    BY <1>1, <2>1, <2>2, MarkerTags, ReadsMore DEF u
  <2>4. ~(j + 3 <= Len(t))
    BY <1>1, <1>5, <2>1, <2>3, MarkersIn
  <2> HIDE DEF t
  <2>5. j + 3 > Len(t) /\ (j > Len(t) \/ j \in 0 .. Len(t))
    BY <1>1, <2>1, <2>4
  <2>6. Len(t) <= j + 3
    BY <1>1, <2>1, <2>4
  <2> QED BY <2>3, <2>5, <2>6 DEF Starts
<1>6. ASSUME Markers(p) # {} PROVE First(Markers(a)) = First(Markers(p))
  <2> DEFINE at == First(Markers(p))
  <2>1. at \in Markers(p) /\ \A j \in Markers(p) : at <= j
    BY <1>1, <1>6, FirstMarker
  <2>2. at \in Nat /\ at + 3 <= Len(t)
    BY <1>1, <2>1, MarkersIn
  <2> HIDE DEF at
  <2>3. ASSUME NEW j \in Markers(a) PROVE at <= j
    <3>1. CASE j \in Markers(p)
      BY <2>1, <3>1
    <3>2. CASE j \notin Markers(p)
      <4>1. j > Len(t) \/ (j \in 0 .. Len(t) /\ j + 3 > Len(t))
        BY <1>5, <3>2
      <4>2. j \in Nat
        BY <1>2, MarkersIn
      <4> HIDE DEF t
      <4> QED BY <1>1, <2>2, <4>1, <4>2
    <3> QED BY <3>1, <3>2
  <2>4. First(Markers(a)) = at
    BY <1>2, <1>4, <2>1, <2>3, FirstMarker
  <2> QED BY <2>4 DEF at
<1> QED BY <1>4, <1>5, <1>6 DEF a, t

\* More text does not change a turn that goes on.
LEMMA TurnMore ==
  ASSUME NEW p, Sound(p), Goes(p), NEW x \in Text
  PROVE  Goes(More(p, x)) /\ Same(Turn(More(p, x)), More(Turn(p), x))
<1> DEFINE t == p.pending
           u == t \o x
<1>1. p \in Parsers /\ t \in Text /\ Len(t) \in Nat /\ ~p.error /\ p.error = FALSE
  BY LenProperties DEF Sound, Parsers, Text, Goes, Ends, Begins
<1>2. PICK a : a = More(p, x)
  OBVIOUS
<1>3. /\ Sound(a) /\ a \in Parsers /\ a.pending = u
      /\ a.error = p.error /\ a.inCall = p.inCall
      /\ a.choice = p.choice /\ a.calls = p.calls
      /\ a.scan = p.scan /\ a.quoted = p.quoted
      /\ a.arch = p.arch /\ a.text = p.text
  BY <1>2, MoreIs DEF Sound
<1>4. PICK q : q = Turn(p)
  OBVIOUS
<1>5. PICK r : r = Turn(a)
  OBVIOUS
<1>6. PICK m : m = More(q, x)
  OBVIOUS
<1>7. Sound(q) /\ q \in Parsers /\ Sound(r) /\ r \in Parsers
  BY <1>3, <1>4, <1>5, TurnIs DEF Sound
<1>8. /\ m \in Parsers /\ m.pending = q.pending \o x
      /\ m.error = q.error /\ m.inCall = q.inCall
      /\ m.choice = q.choice /\ m.calls = q.calls
      /\ m.scan = q.scan /\ m.quoted = q.quoted
      /\ m.arch = q.arch /\ m.text = q.text
  BY <1>6, <1>7, MoreIs DEF Sound
<1>9. /\ u \in Text /\ Len(u) = Len(t) + Len(x) /\ Len(x) \in Nat
      /\ \A n \in 0 .. Len(t) : /\ n \in 0 .. Len(u) /\ Take(u, n) = Take(t, n)
                                /\ Drop(u, n) = Drop(t, n) \o x
  <2>1. u \in Text /\ Len(u) = Len(t) + Len(x) /\ Len(x) \in Nat
    BY <1>1, Joined, LenProperties DEF Text
  <2> HIDE DEF t
  <2> QED BY <1>1, <2>1, CutsMore
<1>10. CASE Ends(p)
  <2>1. PICK n : n = CallClose(p).scan
    OBVIOUS
  <2>2. ~Begins(p) /\ p.inCall /\ IsPrefix(CLOSE, Drop(t, n))
    BY <1>10, <2>1 DEF Begins, Ends
  <2>3. n \in Nat /\ n + 4 <= Len(t)
    BY <1>10, <2>1, EndsAt
  <2>4. CallClose(a) = CallClose(p)
    BY <1>2, <2>1, <2>2, CallCloseMore
  <2>5. IsPrefix(CLOSE, Drop(u, n))
    <3>1. CLOSE \in Text /\ Len(CLOSE) = 4
      BY Tags
    <3>2. n \in 0 .. Len(t) /\ n \in 0 .. Len(u)
      <4> HIDE DEF t, u
      <4> QED BY <1>1, <1>9, <2>3
    <3>3. Reads(CLOSE, t, n)
      BY <1>1, <2>2, <3>1, <3>2, ReadsAt
    <3>4. Reads(CLOSE, u, n)
      <4> HIDE DEF t
      <4> QED BY <1>1, <2>3, <3>1, <3>3, ReadsMore
    <3>5. n + Len(CLOSE) <= Len(u)
      <4> HIDE DEF t, u
      <4> QED BY <1>1, <1>9, <2>3, <3>1
    <3> HIDE DEF t, u
    <3> QED BY <1>9, <3>1, <3>2, <3>4, <3>5, ReadsAt
  <2>6. Ends(a) /\ ~Begins(a)
    BY <1>1, <1>3, <2>1, <2>2, <2>4, <2>5 DEF Ends, Begins
  <2>7. q = EndCall(p, n) /\ r = EndCall(a, n)
    BY <1>4, <1>5, <1>10, <2>1, <2>2, <2>4, <2>6 DEF Turn
  <2> DEFINE body == Take(t, n)
  <2>8. /\ n \in 0 .. Len(t) /\ n + 4 \in 0 .. Len(t) /\ n + 4 <= Len(u)
    <3> HIDE DEF t, u, body
    <3> QED BY <1>1, <1>9, <2>3
  <2>9. body = Take(u, n) /\ Drop(u, n + 4) = Drop(t, n + 4) \o x
    BY <1>9, <2>8
  <2>10. CASE body \notin DOMAIN Bodies
    <3>1. q = Broken(p)
      BY <2>3, <2>7, <2>10, EndIs
    <3>2. r = Broken(a)
      BY <1>3, <2>3, <2>7, <2>8, <2>9, <2>10, EndIs
    <3>3. q.error = TRUE /\ r.error = TRUE
      BY <1>1, <1>3, <3>1, <3>2 DEF Broken, Parsers
    <3>4. Same(r, m)
      BY <1>8, <3>3 DEF Same
    <3> QED BY <1>2, <1>4, <1>5, <1>6, <2>6, <3>4 DEF Goes
  <2>11. CASE body \in DOMAIN Bodies
    <3>1. /\ q.arch = p.arch /\ q.choice = p.choice
          /\ q.pending = Drop(t, n + 4) /\ ~q.inCall /\ q.scan = 0 /\ q.quoted = FALSE
          /\ q.text = p.text /\ q.calls = Append(p.calls, body) /\ q.error = p.error
      BY <2>3, <2>7, <2>11, EndIs
    <3>2. /\ r.arch = a.arch /\ r.choice = a.choice
          /\ r.pending = Drop(u, n + 4) /\ ~r.inCall /\ r.scan = 0 /\ r.quoted = FALSE
          /\ r.text = a.text /\ r.calls = Append(a.calls, body) /\ r.error = a.error
      <4>1. n + 4 <= Len(a.pending) /\ Take(a.pending, n) = body /\ a.pending = u
        BY <1>3, <2>8, <2>9
      <4>2. Sound(a) /\ n \in Nat
        BY <1>3, <2>3
      <4> HIDE DEF body, t, u
      <4>3. r = EndCall(a, n) /\ Take(a.pending, n) \in DOMAIN Bodies
        BY <2>7, <2>11, <4>1
      <4> QED BY <4>1, <4>2, <4>3, EndIs
    <3>3. q.inCall = r.inCall
      BY <1>7, <3>1, <3>2 DEF Parsers
    <3> HIDE DEF body, t, u
    <3>4. Same(r, m)
      <4>1. r.error = m.error
        BY <1>3, <1>8, <2>9, <3>1, <3>2, <3>3
      <4>2. ASSUME ~r.error
            PROVE  /\ r.arch = m.arch /\ r.choice = m.choice /\ r.pending = m.pending
                   /\ r.inCall = m.inCall /\ r.scan = m.scan /\ r.quoted = m.quoted
                   /\ r.text = m.text /\ r.calls = m.calls
        BY <1>3, <1>8, <2>9, <3>1, <3>2, <3>3
      <4> QED BY <1>7, <1>8, <4>1, <4>2, SameIs
    <3> QED BY <1>2, <1>4, <1>5, <1>6, <2>6, <3>4 DEF Goes
  <2> QED BY <2>10, <2>11
<1>11. CASE Begins(p)
  <2>1. PICK at : at = First(Markers(p))
    OBVIOUS
  <2>2. /\ at \in Nat /\ at + 4 <= Len(t) /\ at \in 0 .. Len(t) /\ at + 4 \in 0 .. Len(t)
        /\ Reads(OPEN, t, at)
    BY <1>11, <2>1, BeginsAt
  <2>3. ~p.inCall /\ p.choice # "none" /\ Markers(p) # {}
    BY <1>11 DEF Begins
  <2>4. First(Markers(a)) = at /\ Markers(a) # {}
    BY <1>2, <2>1, <2>3, MarkersMore
  <2>5. IsPrefix(OPEN, Drop(u, at))
    <3>1. OPEN \in Text /\ Len(OPEN) = 4
      BY Tags
    <3>2. at \in 0 .. Len(u) /\ at + Len(OPEN) <= Len(u)
      <4> HIDE DEF t, u
      <4> QED BY <1>1, <1>9, <2>2, <3>1
    <3>3. Reads(OPEN, u, at)
      <4> HIDE DEF t
      <4> QED BY <1>1, <2>2, <3>1, ReadsMore
    <3> HIDE DEF t, u
    <3> QED BY <1>9, <3>1, <3>2, <3>3, ReadsAt
  <2>6. Begins(a) /\ ~Ends(a) /\ ~Ends(p)
    BY <1>1, <1>3, <2>3, <2>4, <2>5 DEF Ends, Begins
  <2>7. q = Begin(p) /\ r = Begin(a)
    BY <1>4, <1>5, <1>11, <2>6 DEF Turn
  <2> DEFINE y == Take(t, at)
  <2>8. y = Take(u, at) /\ Drop(u, at + 4) = Drop(t, at + 4) \o x
    BY <1>9, <2>2
  <2>9. /\ q.arch = p.arch /\ q.choice = p.choice
        /\ q.pending = Drop(t, at + 4)
        /\ q.error = (p.calls # <<>> /\ ~Blank(y)) /\ q.inCall = ~q.error
        /\ q.scan = p.scan /\ q.quoted = p.quoted
        /\ q.text = (IF p.calls = <<>> THEN p.text \o y ELSE p.text) /\ q.calls = p.calls
    BY <1>11, <2>1, <2>7, BeginIs
  <2>10. /\ r.arch = a.arch /\ r.choice = a.choice
         /\ r.pending = Drop(u, at + 4)
         /\ r.error = (a.calls # <<>> /\ ~Blank(y)) /\ r.inCall = ~r.error
         /\ r.scan = a.scan /\ r.quoted = a.quoted
         /\ r.text = (IF a.calls = <<>> THEN a.text \o y ELSE a.text) /\ r.calls = a.calls
    <3>1. Sound(a) /\ a.pending = u
      BY <1>3
    <3> HIDE DEF y, t, u
    <3>2. /\ Take(a.pending, First(Markers(a))) = y
          /\ Drop(a.pending, First(Markers(a)) + 4) = Drop(u, at + 4)
      BY <2>4, <2>8, <3>1
    <3> QED BY <2>6, <2>7, <3>1, <3>2, BeginIs
  <2> HIDE DEF y, t, u
  <2>11. Same(r, m)
    <3>1. r.error = m.error
      BY <1>3, <1>8, <2>8, <2>9, <2>10
    <3>2. ASSUME ~r.error
          PROVE  /\ r.arch = m.arch /\ r.choice = m.choice /\ r.pending = m.pending
                 /\ r.inCall = m.inCall /\ r.scan = m.scan /\ r.quoted = m.quoted
                 /\ r.text = m.text /\ r.calls = m.calls
      BY <1>3, <1>8, <2>8, <2>9, <2>10
    <3> QED BY <1>7, <1>8, <3>1, <3>2, SameIs
  <2> QED BY <1>2, <1>4, <1>5, <1>6, <2>6, <2>11 DEF Goes
<1> QED BY <1>10, <1>11 DEF Goes

-----------------------------------------------------------------------------
(* Text may be let out early, and a call scanned on.                       *)

\* Letting text out in two pieces is letting it out in one.
LEMMA CutCut ==
  ASSUME NEW p, Sound(p), ~p.error, ~p.inCall, NEW n \in 0 .. Len(p.pending),
         NEW m \in 0 .. Len(p.pending) - n
  PROVE  LET r == EmitCut(p, n) IN
         /\ r.error => EmitCut(p, n + m).error
         /\ ~r.error => m \in 0 .. Len(r.pending) /\ Same(EmitCut(r, m), EmitCut(p, n + m))
<1> DEFINE t == p.pending
           x == Take(t, n)
           u == Drop(t, n)
           y == Take(u, m)
           xy == x \o y
<1>1. p \in Parsers /\ t \in Text /\ p.text \in Text /\ Len(t) \in Nat /\ n \in 0 .. Len(t)
  BY LenProperties DEF Sound, Parsers, Text
<1>2. /\ n + m \in 0 .. Len(t) /\ Len(u) = Len(t) - n /\ u \in Text /\ m \in 0 .. Len(u)
      /\ Drop(u, m) = Drop(t, n + m) /\ xy = Take(t, n + m)
  <2> HIDE DEF t
  <2> QED BY <1>1, CutsTwice DEF t
<1>3. x \in Text /\ y \in Text
  BY <1>1, <1>2, TakeDrop DEF Text
<1>4. PICK r : r = EmitCut(p, n)
  OBVIOUS
<1>5. PICK e : e = EmitCut(p, n + m)
  OBVIOUS
<1> HIDE DEF xy
<1>6. /\ Sound(r) /\ r.arch = p.arch /\ r.choice = p.choice
      /\ r.pending = u
      /\ r.error = (p.error \/ (p.calls # <<>> /\ ~Blank(x))) /\ r.inCall = p.inCall
      /\ r.scan = p.scan /\ r.quoted = p.quoted
      /\ r.text = (IF p.calls = <<>> THEN p.text \o x ELSE p.text) /\ r.calls = p.calls
  BY <1>4, EmitCutIs
<1>7. /\ Sound(e) /\ e.arch = p.arch /\ e.choice = p.choice
      /\ e.pending = Drop(t, n + m)
      /\ e.error = (p.error \/ (p.calls # <<>> /\ ~Blank(xy))) /\ e.inCall = p.inCall
      /\ e.scan = p.scan /\ e.quoted = p.quoted
      /\ e.text = (IF p.calls = <<>> THEN p.text \o xy ELSE p.text) /\ e.calls = p.calls
  BY <1>2, <1>5, EmitCutIs
<1>8. Blank(xy) <=> Blank(x) /\ Blank(y)
  <2> HIDE DEF x, y
  <2> QED BY <1>3, BlankJoin DEF xy
<1>9. (p.text \o x) \o y = p.text \o xy
  <2> HIDE DEF x, y
  <2> QED BY <1>1, <1>3, JoinThree DEF xy
<1>10. r.error => e.error
  BY <1>6, <1>7, <1>8
<1>11. ASSUME ~r.error PROVE m \in 0 .. Len(r.pending) /\ Same(EmitCut(r, m), e)
  <2>1. m \in 0 .. Len(r.pending) /\ ~r.inCall
    BY <1>2, <1>6
  <2>2. PICK f : f = EmitCut(r, m)
    OBVIOUS
  <2>3. /\ Sound(f) /\ f.arch = r.arch /\ f.choice = r.choice
        /\ f.pending = Drop(r.pending, m)
        /\ f.error = (r.error \/ (r.calls # <<>> /\ ~Blank(y))) /\ f.inCall = r.inCall
        /\ f.scan = r.scan /\ f.quoted = r.quoted
        /\ f.text = (IF r.calls = <<>> THEN r.text \o y ELSE r.text) /\ f.calls = r.calls
    <3>1. y = Take(r.pending, m)
      BY <1>6
    <3> HIDE DEF y
    <3> QED BY <1>6, <2>1, <2>2, <3>1, EmitCutIs
  <2> HIDE DEF x, y, u, t
  <2>4. f.error = e.error
    BY <1>6, <1>7, <1>8, <1>11, <2>3
  <2>5. f.pending = e.pending
    BY <1>2, <1>6, <1>7, <2>3
  <2>6. f.text = e.text
    BY <1>6, <1>7, <1>9, <2>3
  <2>7. Same(f, e)
    BY <1>6, <1>7, <2>3, <2>4, <2>5, <2>6, SameIs DEF Sound
  <2> QED BY <2>1, <2>2, <2>7
<1> QED BY <1>4, <1>5, <1>10, <1>11

\* What is held of the rest of a text is what is held of the text.
LEMMA HeldLater ==
  ASSUME NEW t \in Text, NEW n \in 0 .. Held(t)
  PROVE  n \in 0 .. Len(t) /\ Held(Drop(t, n)) = Held(t) - n
<1> DEFINE u == Drop(t, n)
           H == Held(t)
           K == Held(u)
<1>1. Len(t) \in Nat /\ H \in 0 .. Len(t) /\ Starts(t, H) /\ \A k \in 0 .. Len(t) : Starts(t, k) => H <= k
  BY HeldAt, LenProperties DEF Text
<1> HIDE DEF H
<1>2. n \in 0 .. Len(t) /\ n \in Nat /\ n <= H /\ H \in Nat
  BY <1>1 DEF H
<1>3. u \in Text /\ Len(u) = Len(t) - n
  BY <1>2, TakeDrop DEF Text
<1> HIDE DEF u
<1>4. Len(u) \in Nat /\ K \in 0 .. Len(u) /\ Starts(u, K) /\ \A k \in 0 .. Len(u) : Starts(u, k) => K <= k
  BY <1>3, HeldAt, LenProperties DEF Text
<1> HIDE DEF K
<1>5. ASSUME NEW k \in 0 .. Len(u) PROVE Starts(u, k) <=> Starts(t, n + k)
  <2>1. Len(u) <= k + 3 <=> Len(t) <= (n + k) + 3
    BY <1>1, <1>2, <1>3, <1>4
  <2>2. ASSUME NEW tag \in MARKERS PROVE Reads(tag, u, k) <=> Reads(tag, t, n + k)
    <3>1. k \in Nat /\ tag \in Text
      BY MarkerTags
    <3> QED BY <1>2, <3>1, ReadsLater DEF u
  <2> QED BY <2>1, <2>2 DEF Starts
<1>6. H <= n + K
  <2>1. n + K \in 0 .. Len(t)
    BY <1>1, <1>2, <1>3, <1>4
  <2> QED BY <1>1, <1>4, <1>5, <2>1
<1>7. K <= H - n
  <2>1. H - n \in 0 .. Len(u) /\ n + (H - n) = H
    BY <1>1, <1>2, <1>3, <1>4
  <2> QED BY <1>1, <1>4, <1>5, <2>1
<1>8. K = H - n
  BY <1>1, <1>2, <1>4, <1>6, <1>7
<1> QED BY <1>2, <1>8 DEF u, H, K

\* Text that no marker begins in can be let out at once.
LEMMA CutEarly ==
  ASSUME NEW a, Sound(a), ~a.error, ~a.inCall, NEW n \in 0 .. Len(a.pending),
         \A j \in Markers(a) : n <= j, Markers(a) = {} => n <= Held(a.pending)
  PROVE  Same(Drain(EmitCut(a, n)), Drain(a))
<1> DEFINE t == a.pending
           x == Take(t, n)
           u == Drop(t, n)
           at == First(Markers(a))
<1>1. /\ a \in Parsers /\ t \in Text /\ Len(t) \in Nat /\ n \in Nat /\ n <= Len(t) /\ a.text \in Text
      /\ a.error = FALSE /\ ~Ends(a)
  BY LenProperties DEF Sound, Parsers, Text, Ends
<1>2. PICK r : r = EmitCut(a, n)
  OBVIOUS
<1>3. /\ Sound(r) /\ r.arch = a.arch /\ r.choice = a.choice
      /\ r.pending = u /\ x \in Text
      /\ r.error = (a.error \/ (a.calls # <<>> /\ ~Blank(x))) /\ r.inCall = a.inCall
      /\ r.scan = a.scan /\ r.quoted = a.quoted
      /\ r.text = (IF a.calls = <<>> THEN a.text \o x ELSE a.text) /\ r.calls = a.calls
  BY <1>2, EmitCutIs
<1>4. u \in Text /\ Len(u) = Len(t) - n /\ r \in Parsers /\ ~Ends(r) /\ ~r.inCall
  BY <1>1, <1>3, TakeDrop DEF Text, Sound, Ends
<1>5. r.error => Drain(r) = r /\ r.error = TRUE
  BY <1>3, <1>4, BrokenIdle, DrainTurn DEF Parsers
<1>6. ASSUME NEW i \in Nat PROVE i \in Markers(r) <=> n + i \in Markers(a)
  <2>1. i + 3 <= Len(u) <=> (n + i) + 3 <= Len(t)
    <3> HIDE DEF t, u
    <3> QED BY <1>1, <1>4
  <2>2. ASSUME NEW tag \in MARKERS PROVE Reads(tag, u, i) <=> Reads(tag, t, n + i)
    <3>1. tag \in Text
      BY MarkerTags
    <3> HIDE DEF t
    <3> QED BY <1>1, <3>1, ReadsLater DEF t
  <2>3. n + i \in Nat
    BY <1>1
  <2>4. i \in Markers(r) <=> i + 3 <= Len(u) /\ \E tag \in MARKERS : Reads(tag, u, i)
    BY <1>3, <1>4, MarkersIn
  <2>5. n + i \in Markers(a) <=> (n + i) + 3 <= Len(t) /\ \E tag \in MARKERS : Reads(tag, t, n + i)
    BY <1>1, <2>3, MarkersIn
  <2> QED BY <2>1, <2>2, <2>4, <2>5
<1>7. Markers(a) \subseteq Nat /\ Markers(r) \subseteq Nat
  BY <1>1, <1>4, MarkersIn
<1>8. ASSUME NEW j \in Markers(a) PROVE j - n \in Markers(r) /\ j - n \in Nat
  <2>1. j - n \in Nat /\ n + (j - n) = j
    BY <1>1, <1>7
  <2> QED BY <1>6, <2>1
<1>9. CASE Markers(a) = {}
  <2> DEFINE H == Held(t)
  <2>1. H \in 0 .. Len(t) /\ n \in 0 .. H
    <3>1. H \in 0 .. Len(t) /\ n <= H
      BY <1>1, <1>9, HeldAt
    <3> QED BY <1>1, <3>1
  <2>2. ~Goes(a) /\ Drain(a) = EmitCut(a, H)
    <3>1. ~Goes(a)
      BY <1>1, <1>9 DEF Goes, Begins
    <3> QED BY <1>9, <3>1, DrainTurn, SettleIs
  <2>3. Held(u) = H - n
    BY <1>1, <2>1, HeldLater
  <2> HIDE DEF H, t, u
  <2>4. H - n \in 0 .. Len(t) - n /\ n + (H - n) = H
    BY <1>1, <2>1
  <2>5. /\ r.error => EmitCut(a, H).error
        /\ ~r.error => Same(EmitCut(r, H - n), EmitCut(a, H))
    <3>1. /\ r.error => EmitCut(a, n + (H - n)).error
          /\ ~r.error => Same(EmitCut(r, H - n), EmitCut(a, n + (H - n)))
      BY <1>2, <2>4, CutCut DEF t
    <3> QED BY <2>4, <3>1
  <2>6. CASE r.error
    <3>1. EmitCut(a, H).error = TRUE
      <4>1. Sound(EmitCut(a, H))
        BY <2>1, EmitCutIs DEF t
      <4> QED BY <2>5, <2>6, <4>1 DEF Sound, Parsers
    <3> QED BY <1>2, <1>5, <2>2, <2>6, <3>1 DEF Same
  <2>7. CASE ~r.error
    <3>1. Markers(r) = {}
      BY <1>6, <1>7, <1>9
    <3>2. ~Goes(r)
      BY <1>4, <3>1 DEF Goes, Begins
    <3>3. Drain(r) = EmitCut(r, H - n)
      <4>1. Drain(r) = Settle(r)
        BY <1>3, <3>2, DrainTurn
      <4>2. Settle(r) = EmitCut(r, Held(r.pending))
        BY <1>3, <1>4, <2>7, <3>1, SettleIs
      <4>3. r.pending = u
        BY <1>3
      <4> QED BY <2>3, <4>1, <4>2, <4>3
    <3> QED BY <1>2, <2>2, <2>5, <2>7, <3>3
  <2> QED BY <2>6, <2>7
<1>10. CASE Markers(a) # {}
  <2>1. at \in Markers(a) /\ \A j \in Markers(a) : at <= j
    BY <1>1, <1>10, FirstMarker
  <2>2. at \in Nat /\ at + 3 <= Len(t) /\ n <= at
    BY <1>1, <2>1, MarkersIn
  <2> HIDE DEF at, t, u
  <2>3. PICK m : m = at - n
    OBVIOUS
  <2>4. m \in Nat /\ n + m = at /\ m \in 0 .. Len(t) - n /\ at \in 0 .. Len(t)
    BY <1>1, <2>2, <2>3
  <2>5. m \in Markers(r) /\ First(Markers(r)) = m
    <3>1. m \in Markers(r)
      BY <1>6, <2>1, <2>4
    <3>2. ASSUME NEW j \in Markers(r) PROVE m <= j
      <4>1. j \in Nat /\ n + j \in Markers(a)
        BY <1>6, <1>7
      <4>2. at <= n + j
        BY <2>1, <4>1
      <4> QED BY <1>1, <2>4, <4>1, <4>2
    <3> QED BY <1>4, <3>1, <3>2, FirstMarker
  <2>6. /\ Reads(OPEN, u, m) <=> Reads(OPEN, t, at)
        /\ m + 4 <= Len(u) <=> at + 4 <= Len(t)
        /\ Len(u) < m + 4 <=> Len(t) < at + 4
    <3>1. Reads(OPEN, u, m) <=> Reads(OPEN, t, n + m)
      BY <1>1, <2>4, Tags, ReadsLater DEF u
    <3> QED BY <1>1, <1>4, <2>4, <3>1
  <2>7. /\ r.error => EmitCut(a, at).error
        /\ ~r.error => Same(EmitCut(r, m), EmitCut(a, at))
    <3>1. /\ r.error => EmitCut(a, n + m).error
          /\ ~r.error => Same(EmitCut(r, m), EmitCut(a, n + m))
      BY <1>2, <2>4, CutCut DEF t
    <3> QED BY <2>4, <3>1
  <2>8. PICK c : c = EmitCut(a, at)
    OBVIOUS
  <2> DEFINE y == Take(t, at)
  <2>9. /\ Sound(c) /\ c.arch = a.arch /\ c.choice = a.choice
        /\ c.pending = Drop(t, at) /\ y \in Text
        /\ c.error = (a.error \/ (a.calls # <<>> /\ ~Blank(y))) /\ c.inCall = a.inCall
        /\ c.scan = a.scan /\ c.quoted = a.quoted
        /\ c.text = (IF a.calls = <<>> THEN a.text \o y ELSE a.text) /\ c.calls = a.calls
    BY <2>4, <2>8, EmitCutIs DEF t
  <2>10. CASE Begins(a)
    <3>1. PICK b : b = Begin(a)
      OBVIOUS
    <3>2. /\ Sound(b) /\ b.arch = a.arch /\ b.choice = a.choice
          /\ b.pending = Drop(t, at + 4)
          /\ b.error = (a.calls # <<>> /\ ~Blank(y)) /\ b.inCall = ~b.error
          /\ b.scan = a.scan /\ b.quoted = a.quoted
          /\ b.text = (IF a.calls = <<>> THEN a.text \o y ELSE a.text) /\ b.calls = a.calls
      BY <2>10, <3>1, BeginIs DEF t, at
    <3>3. Turn(a) = b /\ Goes(a)
      BY <1>1, <2>10, <3>1 DEF Turn, Goes
    <3>4. Drain(a) = Drain(b)
      BY <3>3, DrainTurn
    <3> HIDE DEF y
    <3>5. CASE r.error
      <4>1. b.error /\ b.error = TRUE
        BY <1>1, <2>7, <2>8, <2>9, <3>2, <3>5
      <4>2. Drain(b) = b
        BY <3>2, <4>1, BrokenIdle, DrainTurn
      <4> QED BY <1>2, <1>5, <3>4, <3>5, <4>1, <4>2 DEF Same
    <3>6. CASE ~r.error
      <4>1. Begins(r) /\ Goes(r)
        <5>1. IsPrefix(OPEN, Drop(u, m))
          <6>1. Reads(OPEN, t, at) /\ at + 4 <= Len(t)
            BY <2>10, BeginsAt DEF t, at
          <6>2. OPEN \in Text /\ Len(OPEN) = 4
            BY Tags
          <6>3. m \in 0 .. Len(u)
            BY <1>4, <2>4
          <6> QED BY <1>4, <2>6, <6>1, <6>2, <6>3, ReadsAt
        <5>2. r.choice # "none" /\ Markers(r) # {}
          BY <1>3, <2>5, <2>10 DEF Begins
        <5> QED BY <1>3, <1>4, <2>5, <3>6, <5>1, <5>2 DEF Begins, Goes, u
      <4>2. PICK d : d = Begin(r)
        OBVIOUS
      <4> DEFINE z == Take(u, m)
      <4>3. /\ Sound(d) /\ d.arch = r.arch /\ d.choice = r.choice
            /\ d.pending = Drop(u, m + 4)
            /\ d.error = (r.calls # <<>> /\ ~Blank(z)) /\ d.inCall = ~d.error
            /\ d.scan = r.scan /\ d.quoted = r.quoted /\ z \in Text
            /\ d.text = (IF r.calls = <<>> THEN r.text \o z ELSE r.text) /\ d.calls = r.calls
        <5>1. r.pending = u
          BY <1>3
        <5> QED BY <1>3, <2>5, <4>1, <4>2, <5>1, BeginIs
      <4>4. Drain(r) = Drain(d)
        BY <1>3, <1>4, <4>1, <4>2, DrainTurn DEF Turn, u
      <4>5. Same(d, b)
        <5>1. Drop(u, m + 4) = Drop(t, at + 4)
          <6>1. at + 4 <= Len(t)
            BY <2>10, BeginsAt DEF t, at
          <6>2. m + 4 \in 0 .. Len(t) - n /\ n + (m + 4) = at + 4
            BY <1>1, <2>4, <6>1
          <6>3. t \in Text /\ n \in 0 .. Len(t)
            BY <1>1
          <6>4. Drop(Drop(t, n), m + 4) = Drop(t, n + (m + 4))
            BY <6>2, <6>3, CutsTwice
          <6> QED BY <6>2, <6>4 DEF u
        <5>2. x \o z = y
          <6>1. x \o z = Take(t, n + m)
            BY <1>1, <2>4, CutsTwice DEF u, t
          <6> QED BY <2>4, <6>1 DEF y
        <5> HIDE DEF z
        <5>3. Blank(y) <=> Blank(x) /\ Blank(z)
          <6> HIDE DEF x
          <6> QED BY <1>3, <4>3, <5>2, BlankJoin
        <5>4. (a.text \o x) \o z = a.text \o y
          <6> HIDE DEF x
          <6> QED BY <1>1, <1>3, <4>3, <5>2, JoinThree
        <5> HIDE DEF x
        <5>5. d.error = b.error
          BY <1>1, <1>3, <3>2, <3>6, <4>3, <5>3
        <5>6. d.text = b.text
          BY <1>3, <3>2, <4>3, <5>4
        <5> QED BY <1>3, <3>2, <4>3, <5>1, <5>5, <5>6, SameIs DEF Sound
      <4>6. Same(Drain(d), Drain(b))
        BY <3>2, <4>3, <4>5, DrainSame
      <4> QED BY <1>2, <3>4, <4>4, <4>6
    <3> QED BY <3>5, <3>6
  <2>11. CASE ~Begins(a)
    <3>1. ~Goes(a)
      BY <1>1, <2>11 DEF Goes
    <3>2. Drain(a) = IF Half(a) THEN c ELSE Broken(a)
      BY <1>10, <2>8, <3>1, DrainTurn, SettleIs DEF at
    <3>3. Broken(a).error = TRUE /\ c.error \in BOOLEAN
      BY <1>1, <2>9 DEF Broken, Parsers, Sound
    <3>4. CASE r.error
      BY <1>2, <1>5, <2>7, <2>8, <3>2, <3>3, <3>4 DEF Same
    <3>5. CASE ~r.error
      <4>1. ~Begins(r)
        <5>1. OPEN \in Text /\ Len(OPEN) = 4 /\ m \in 0 .. Len(u)
          BY <1>4, <2>4, Tags
        <5>2. IsPrefix(OPEN, Drop(u, m)) <=> IsPrefix(OPEN, Drop(t, at))
          BY <1>1, <1>4, <2>4, <2>6, <5>1, ReadsAt
        <5> QED BY <1>1, <1>3, <1>10, <2>5, <2>11, <5>2 DEF Begins, t, at
      <4>2. ~Goes(r)
        BY <1>4, <4>1 DEF Goes
      <4>3. Half(r) <=> Half(a)
        BY <1>3, <2>5, <2>6 DEF Half, t, at
      <4>4. Drain(r) = IF Half(r) THEN EmitCut(r, m) ELSE Broken(r)
        BY <1>3, <1>4, <2>5, <3>5, <4>2, DrainTurn, SettleIs
      <4>5. Broken(r).error = TRUE
        BY <1>4 DEF Broken, Parsers
      <4> QED BY <1>2, <2>7, <2>8, <3>2, <3>3, <3>5, <4>3, <4>4, <4>5 DEF Same
    <3> QED BY <3>4, <3>5
  <2> QED BY <2>10, <2>11
<1> QED BY <1>9, <1>10

\* Text that is let out before more comes could have been let out after.
LEMMA CutMore ==
  ASSUME NEW p, Sound(p), ~p.error, ~p.inCall, NEW x \in Text, NEW n \in 0 .. Len(p.pending),
         \A j \in Markers(More(p, x)) : n <= j,
         Markers(More(p, x)) = {} => n <= Held(p.pending \o x)
  PROVE  Same(Drain(More(EmitCut(p, n), x)), Drain(More(p, x)))
<1> DEFINE t == p.pending
           u == t \o x
           y == Take(t, n)
<1>1. p \in Parsers /\ t \in Text
  BY DEF Sound, Parsers
<1>2. /\ u \in Text /\ n \in 0 .. Len(u) /\ Take(u, n) = y /\ Drop(u, n) = Drop(t, n) \o x
  <2> HIDE DEF t
  <2> QED BY <1>1, CutsMore DEF t
<1>3. PICK a : a = More(p, x)
  OBVIOUS
<1>4. /\ Sound(a) /\ a.pending = u /\ a.error = p.error /\ a.inCall = p.inCall
      /\ a.choice = p.choice /\ a.calls = p.calls /\ a.scan = p.scan /\ a.quoted = p.quoted
      /\ a.arch = p.arch /\ a.text = p.text
  BY <1>3, MoreIs
<1>5. PICK r : r = EmitCut(p, n)
  OBVIOUS
<1>6. /\ Sound(r) /\ r.arch = p.arch /\ r.choice = p.choice /\ r.pending = Drop(t, n)
      /\ r.error = (p.error \/ (p.calls # <<>> /\ ~Blank(y))) /\ r.inCall = p.inCall
      /\ r.scan = p.scan /\ r.quoted = p.quoted
      /\ r.text = (IF p.calls = <<>> THEN p.text \o y ELSE p.text) /\ r.calls = p.calls
  BY <1>5, EmitCutIs
<1>7. PICK m : m = More(r, x)
  OBVIOUS
<1>8. /\ Sound(m) /\ m.pending = r.pending \o x /\ m.error = r.error /\ m.inCall = r.inCall
      /\ m.choice = r.choice /\ m.calls = r.calls /\ m.scan = r.scan /\ m.quoted = r.quoted
      /\ m.arch = r.arch /\ m.text = r.text
  BY <1>6, <1>7, MoreIs
<1>9. PICK e : e = EmitCut(a, n)
  OBVIOUS
<1>10. /\ Sound(e) /\ e.arch = a.arch /\ e.choice = a.choice /\ e.pending = Drop(u, n)
       /\ e.error = (a.error \/ (a.calls # <<>> /\ ~Blank(y))) /\ e.inCall = a.inCall
       /\ e.scan = a.scan /\ e.quoted = a.quoted
       /\ e.text = (IF a.calls = <<>> THEN a.text \o y ELSE a.text) /\ e.calls = a.calls
  <2>1. ~a.inCall /\ n \in 0 .. Len(a.pending) /\ Take(a.pending, n) = y
    BY <1>2, <1>4
  <2> HIDE DEF y, u
  <2> QED BY <1>4, <1>9, <2>1, EmitCutIs
<1>11. Same(m, e)
  <2> HIDE DEF t, u, y
  <2>1. m.error = e.error /\ m.pending = e.pending /\ m.text = e.text
    BY <1>2, <1>4, <1>6, <1>8, <1>10
  <2> QED BY <1>4, <1>6, <1>8, <1>10, <2>1, SameIs DEF Sound
<1>12. Same(Drain(m), Drain(e))
  BY <1>8, <1>10, <1>11, DrainSame
<1>13. Same(Drain(e), Drain(a))
  <2>1. ~a.error /\ ~a.inCall /\ n \in 0 .. Len(a.pending)
    BY <1>2, <1>4
  <2>2. (\A j \in Markers(a) : n <= j) /\ (Markers(a) = {} => n <= Held(a.pending))
    BY <1>3, <1>4
  <2> QED BY <1>4, <1>9, <2>1, <2>2, CutEarly
<1> QED BY <1>3, <1>5, <1>7, <1>12, <1>13, SameSame

\* A call that goes on is scanned on from where the scan stopped.
LEMMA ScanMore ==
  ASSUME NEW p, Sound(p), ~p.error, p.inCall, NEW x \in Text
  PROVE  Same(Drain(More(Settle(p), x)), Drain(More(p, x)))
<1> DEFINE t == p.pending
           u == t \o x
<1>1. p \in Parsers /\ t \in Text
  BY DEF Sound, Parsers
<1>2. PICK n, z : n = CallClose(p).scan /\ z = CallClose(p).quoted
  OBVIOUS
<1>3. n \in 0 .. Len(t) /\ n \in Nat /\ z \in BOOLEAN
  <2>1. n \in 0 .. Len(t) /\ z \in BOOLEAN
    BY <1>1, <1>2, CallCloseIs DEF Sound
  <2> QED BY <2>1
<1>4. PICK s : s = Settle(p)
  OBVIOUS
<1>5. s = [p EXCEPT !.scan = n, !.quoted = z]
  BY <1>2, <1>4, SettleIs
<1>6. /\ Sound(s) /\ s.arch = p.arch /\ s.choice = p.choice /\ s.pending = t
      /\ s.error = p.error /\ s.inCall = p.inCall /\ s.scan = n /\ s.quoted = z
      /\ s.text = p.text /\ s.calls = p.calls
  <2>1. Sound(s)
    BY <1>4, SettleSound
  <2> QED BY <1>1, <1>3, <1>5, <2>1 DEF Parsers
<1>7. PICK a : a = More(p, x)
  OBVIOUS
<1>8. /\ Sound(a) /\ a.pending = u /\ a.error = p.error /\ a.inCall = p.inCall
      /\ a.choice = p.choice /\ a.calls = p.calls /\ a.scan = p.scan /\ a.quoted = p.quoted
      /\ a.arch = p.arch /\ a.text = p.text
  BY <1>7, MoreIs
<1>9. PICK r : r = More(s, x)
  OBVIOUS
<1>10. /\ Sound(r) /\ r.pending = u /\ r.error = p.error /\ r.inCall = p.inCall
       /\ r.choice = p.choice /\ r.calls = p.calls /\ r.scan = n /\ r.quoted = z
       /\ r.arch = p.arch /\ r.text = p.text
  <2>1. /\ Sound(r) /\ r.pending = s.pending \o x /\ r.error = s.error /\ r.inCall = s.inCall
        /\ r.choice = s.choice /\ r.calls = s.calls /\ r.scan = s.scan /\ r.quoted = s.quoted
        /\ r.arch = s.arch /\ r.text = s.text
    BY <1>6, <1>9, MoreIs
  <2> HIDE DEF t
  <2> QED BY <1>6, <2>1
<1>11. CallClose(r) = CallClose(a)
  BY <1>2, <1>7, <1>10, CallCloseMore DEF Sound
<1>12. ~Begins(a) /\ ~Begins(r) /\ (Ends(a) <=> Ends(r))
  BY <1>8, <1>10, <1>11 DEF Begins, Ends
<1>13. CASE Ends(a)
  <2>1. PICK k : k = CallClose(a).scan
    OBVIOUS
  <2>2. k \in Nat /\ k + 4 <= Len(u)
    BY <1>8, <1>13, <2>1, EndsAt
  <2>3. PICK b : b = Turn(a)
    OBVIOUS
  <2>4. PICK c : c = Turn(r)
    OBVIOUS
  <2>5. b = EndCall(a, k) /\ c = EndCall(r, k)
    BY <1>11, <1>12, <1>13, <2>1, <2>3, <2>4 DEF Turn
  <2>6. Sound(b) /\ Sound(c) /\ b \in Parsers /\ c \in Parsers
    BY <1>8, <1>10, <2>3, <2>4, TurnIs DEF Sound
  <2> DEFINE body == Take(u, k)
  <2>7. CASE body \notin DOMAIN Bodies
    <3>1. b = Broken(a) /\ c = Broken(r)
      BY <1>8, <1>10, <2>2, <2>5, <2>7, EndIs
    <3>2. b.error = TRUE /\ c.error = TRUE
      BY <1>8, <1>10, <3>1 DEF Broken, Parsers, Sound
    <3>3. Same(c, b)
      BY <3>2 DEF Same
    <3>4. Same(Drain(c), Drain(b))
      BY <2>6, <3>3, DrainSame
    <3> QED BY <1>4, <1>7, <1>8, <1>9, <1>10, <1>12, <1>13, <2>3, <2>4, <3>4, DrainTurn DEF Goes
  <2>8. CASE body \in DOMAIN Bodies
    <3>1. /\ b.arch = p.arch /\ b.choice = p.choice
          /\ b.pending = Drop(u, k + 4) /\ ~b.inCall /\ b.scan = 0 /\ b.quoted = FALSE
          /\ b.text = p.text /\ b.calls = Append(p.calls, body) /\ b.error = p.error
      <4>1. k + 4 <= Len(a.pending) /\ Take(a.pending, k) = body
        BY <1>8, <2>2
      <4> HIDE DEF body
      <4>2. /\ b.arch = a.arch /\ b.choice = a.choice
            /\ b.pending = Drop(a.pending, k + 4) /\ ~b.inCall /\ b.scan = 0 /\ b.quoted = FALSE
            /\ b.text = a.text /\ b.calls = Append(a.calls, body) /\ b.error = a.error
        BY <1>8, <2>2, <2>5, <2>8, <4>1, EndIs
      <4> HIDE DEF u
      <4> QED BY <1>8, <4>2
    <3>2. /\ c.arch = p.arch /\ c.choice = p.choice
          /\ c.pending = Drop(u, k + 4) /\ ~c.inCall /\ c.scan = 0 /\ c.quoted = FALSE
          /\ c.text = p.text /\ c.calls = Append(p.calls, body) /\ c.error = p.error
      <4>1. k + 4 <= Len(r.pending) /\ Take(r.pending, k) = body
        BY <1>10, <2>2
      <4> HIDE DEF body
      <4>2. /\ c.arch = r.arch /\ c.choice = r.choice
            /\ c.pending = Drop(r.pending, k + 4) /\ ~c.inCall /\ c.scan = 0 /\ c.quoted = FALSE
            /\ c.text = r.text /\ c.calls = Append(r.calls, body) /\ c.error = r.error
        BY <1>10, <2>2, <2>5, <2>8, <4>1, EndIs
      <4> HIDE DEF u
      <4> QED BY <1>10, <4>2
    <3>3. b.inCall = c.inCall
      BY <2>6, <3>1, <3>2 DEF Parsers
    <3> HIDE DEF body, u
    <3>4. Same(c, b)
      <4>1. c.error = b.error
        BY <3>1, <3>2
      <4>2. /\ c.arch = b.arch /\ c.choice = b.choice /\ c.pending = b.pending
            /\ c.scan = b.scan /\ c.quoted = b.quoted
            /\ c.text = b.text /\ c.calls = b.calls
        BY <3>1, <3>2
      <4> QED BY <2>6, <3>3, <4>1, <4>2, SameIs
    <3>5. Same(Drain(c), Drain(b))
      BY <2>6, <3>4, DrainSame
    <3> QED BY <1>4, <1>7, <1>8, <1>9, <1>10, <1>12, <1>13, <2>3, <2>4, <3>5, DrainTurn DEF Goes
  <2> QED BY <2>7, <2>8
<1>14. CASE ~Ends(a)
  <2>1. PICK k, w : k = CallClose(a).scan /\ w = CallClose(a).quoted
    OBVIOUS
  <2>2. k \in Nat /\ w \in BOOLEAN
    <3>1. k \in 0 .. Len(u) /\ w \in BOOLEAN
      BY <1>8, <2>1, CallCloseIs DEF Sound
    <3> QED BY <3>1
  <2>3. PICK b : b = Settle(a)
    OBVIOUS
  <2>4. PICK c : c = Settle(r)
    OBVIOUS
  <2>5. b = Drain(a) /\ c = Drain(r)
    BY <1>8, <1>10, <1>12, <1>14, <2>3, <2>4, DrainTurn DEF Goes
  <2>6. b = [a EXCEPT !.scan = k, !.quoted = w]
    BY <1>8, <2>1, <2>3, SettleIs
  <2>7. c = [r EXCEPT !.scan = k, !.quoted = w]
    BY <1>10, <1>11, <2>1, <2>4, SettleIs
  <2>8. /\ b \in Parsers /\ b.arch = p.arch /\ b.choice = p.choice /\ b.pending = u
        /\ b.error = p.error /\ b.inCall = p.inCall /\ b.scan = k /\ b.quoted = w
        /\ b.text = p.text /\ b.calls = p.calls
    <3> HIDE DEF u
    <3> QED BY <1>8, <2>2, <2>6 DEF Sound, Parsers
  <2>9. /\ c \in Parsers /\ c.arch = p.arch /\ c.choice = p.choice /\ c.pending = u
        /\ c.error = p.error /\ c.inCall = p.inCall /\ c.scan = k /\ c.quoted = w
        /\ c.text = p.text /\ c.calls = p.calls
    <3> HIDE DEF u
    <3> QED BY <1>10, <2>2, <2>7 DEF Sound, Parsers
  <2>10. Same(c, b)
    <3>1. c.error = b.error /\ c.inCall = b.inCall
      BY <2>8, <2>9
    <3>2. /\ c.arch = b.arch /\ c.choice = b.choice /\ c.pending = b.pending
          /\ c.scan = b.scan /\ c.quoted = b.quoted
          /\ c.text = b.text /\ c.calls = b.calls
      BY <2>8, <2>9
    <3> QED BY <2>8, <2>9, <3>1, <3>2, SameIs
  <2> QED BY <1>4, <1>7, <1>9, <2>5, <2>10
<1> QED BY <1>13, <1>14

\* A parser that settles before more text comes ends up where it would have.
LEMMA SettleMore ==
  ASSUME NEW p, Sound(p), ~Goes(p), NEW x \in Text
  PROVE  Same(Drain(More(Settle(p), x)), Drain(More(p, x)))
<1> DEFINE t == p.pending
           u == t \o x
<1>1. p \in Parsers /\ t \in Text /\ Len(t) \in Nat
  BY LenProperties DEF Sound, Parsers, Text
<1>2. u \in Text /\ Len(u) = Len(t) + Len(x) /\ Len(x) \in Nat /\ Len(u) \in Nat
  BY <1>1, Joined, LenProperties DEF Text
<1>3. PICK a : a = More(p, x)
  OBVIOUS
<1>4. /\ Sound(a) /\ a \in Parsers /\ a.pending = u /\ a.error = p.error
      /\ a.inCall = p.inCall /\ a.choice = p.choice
  BY <1>3, MoreIs DEF Sound
<1>5. CASE p.error
  BY <1>5, BrokenIdle, SameSame
<1>6. CASE ~p.error /\ p.inCall
  BY <1>6, ScanMore
<1>7. CASE ~p.error /\ ~p.inCall /\ Markers(p) = {}
  <2>1. PICK n : n = Held(t)
    OBVIOUS
  <2>2. n \in 0 .. Len(t) /\ \A k \in 0 .. Len(t) : Starts(t, k) => n <= k
    BY <1>1, <2>1, HeldAt
  <2>3. Settle(p) = EmitCut(p, n)
    BY <1>7, <2>1, SettleIs
  <2>4. ASSUME NEW j \in Markers(a) PROVE n <= j
    <3>1. j > Len(t) \/ (j \in 0 .. Len(t) /\ Starts(t, j))
      BY <1>3, <1>7, MarkersMore
    <3>2. j \in Nat
      BY <1>4, MarkersIn
    <3>3. CASE j > Len(t)
      <4> HIDE DEF t
      <4> QED BY <1>1, <2>2, <3>2, <3>3
    <3> QED BY <2>2, <3>1, <3>3
  <2>5. n <= Held(u)
    <3>1. PICK h : h = Held(u)
      OBVIOUS
    <3>2. h \in 0 .. Len(u) /\ Starts(u, h)
      BY <1>2, <3>1, HeldAt
    <3>3. CASE h > Len(t)
      <4> HIDE DEF t, u
      <4> QED BY <1>1, <1>2, <2>2, <3>1, <3>2, <3>3
    <3>4. CASE h <= Len(t)
      <4>1. h \in 0 .. Len(t) /\ h \in Nat /\ Len(t) <= h + 3
        <5>1. Len(u) <= h + 3
          BY <3>2 DEF Starts
        <5> HIDE DEF t, u
        <5> QED BY <1>1, <1>2, <3>2, <3>4, <5>1
      <4>2. PICK tag \in MARKERS : Reads(tag, u, h)
        BY <3>2 DEF Starts
      <4>3. Reads(tag, t, h)
        BY <1>1, <4>1, <4>2, MarkerTags, ReadsMore
      <4> QED BY <2>2, <3>1, <4>1, <4>3 DEF Starts
    <3> QED BY <1>1, <1>2, <3>2, <3>3, <3>4
  <2> QED BY <1>3, <1>7, <2>2, <2>3, <2>4, <2>5, CutMore
<1>8. CASE ~p.error /\ ~p.inCall /\ Markers(p) # {}
  <2>1. PICK at : at = First(Markers(p))
    OBVIOUS
  <2>2. /\ at \in 0 .. Len(t) /\ at \in Nat
        /\ Settle(p) = IF Half(p) THEN EmitCut(p, at) ELSE Broken(p)
    <3>1. /\ at \in 0 .. Len(t)
          /\ Settle(p) = IF Half(p) THEN EmitCut(p, at) ELSE Broken(p)
      BY <1>8, <2>1, SettleIs
    <3> QED BY <3>1
  <2>3. Markers(a) # {} /\ First(Markers(a)) = at
    BY <1>3, <1>8, <2>1, MarkersMore
  <2>4. CASE Half(p)
    <3>1. \A j \in Markers(a) : at <= j
      BY <1>4, <2>3, FirstMarker
    <3> QED BY <1>3, <1>8, <2>2, <2>3, <2>4, <3>1, CutMore
  <2>5. CASE ~Half(p)
    <3>1. OPEN \in Text /\ Len(OPEN) = 4
      BY Tags
    <3>2. Reads(OPEN, u, at) => Reads(OPEN, t, at)
      BY <1>1, <2>2, <3>1, ReadsMore
    <3>3. Reads(OPEN, t, at) => at + 4 <= Len(t) /\ p.choice = "none"
      <4>1. ASSUME Reads(OPEN, t, at) PROVE at + 4 <= Len(t)
        <5>1. ~(Len(t) < at + 4)
          BY <2>1, <2>5, <4>1 DEF Half
        <5> HIDE DEF t
        <5> QED BY <1>1, <2>2, <5>1
      <4>2. ASSUME Reads(OPEN, t, at), at + 4 <= Len(t) PROVE p.choice = "none"
        <5>1. IsPrefix(OPEN, Drop(t, at))
          BY <1>1, <2>2, <3>1, <4>2, ReadsAt
        <5> QED BY <1>8, <2>1, <5>1 DEF Goes, Begins
      <4> QED BY <4>1, <4>2
    <3>4. ~Goes(a)
      <4>1. ASSUME Begins(a) PROVE FALSE
        <5>1. Reads(OPEN, u, at)
          BY <1>4, <2>3, <4>1, BeginsAt
        <5> QED BY <1>4, <3>2, <3>3, <4>1, <5>1 DEF Begins
      <4>2. ~Ends(a)
        BY <1>4, <1>8 DEF Ends
      <4> QED BY <4>1, <4>2 DEF Goes
    <3>5. ~Half(a)
      <4>1. ASSUME Reads(OPEN, u, at) PROVE ~(Len(u) < at + 4)
        <5>1. at + 4 <= Len(t)
          BY <3>2, <3>3, <4>1
        <5> HIDE DEF t, u
        <5> QED BY <1>1, <1>2, <2>2, <5>1
      <4> QED BY <1>4, <2>3, <4>1 DEF Half
    <3>6. Drain(a) = Broken(a)
      BY <1>4, <1>8, <2>3, <3>4, <3>5, DrainTurn, SettleIs
    <3>7. PICK s : s = Settle(p)
      OBVIOUS
    <3>8. s = Broken(p) /\ s.error = TRUE /\ Sound(s)
      <4>1. Sound(s)
        BY <3>7, SettleSound
      <4> QED BY <1>1, <2>2, <2>5, <3>7, <4>1 DEF Broken, Parsers
    <3>9. PICK m : m = More(s, x)
      OBVIOUS
    <3>10. m.error = TRUE /\ Sound(m)
      BY <3>8, <3>9, MoreIs
    <3>11. Drain(m) = m
      BY <3>10, BrokenIdle, DrainTurn
    <3>12. Broken(a).error = TRUE
      BY <1>4 DEF Broken, Parsers
    <3>13. Same(Drain(m), Drain(a))
      BY <3>6, <3>10, <3>11, <3>12 DEF Same
    <3> QED BY <1>3, <3>7, <3>9, <3>13
  <2> QED BY <2>4, <2>5
<1> QED BY <1>5, <1>6, <1>7, <1>8

-----------------------------------------------------------------------------
(* A push, and one after another.                                          *)

\* Draining before more text comes and after it does what draining once does.
LEMMA DrainMore ==
  ASSUME NEW x \in Text
  PROVE  \A p \in Parsers : Sound(p) => Same(Drain(More(Drain(p), x)), Drain(More(p, x)))
<1> DEFINE A == {p \in Parsers : Same(Drain(More(Drain(p), x)), Drain(More(p, x)))}
<1>1. ASSUME NEW p \in Parsers, Sound(p), ~Goes(p) PROVE p \in A
  BY <1>1, DrainTurn, SettleMore
<1>2. ASSUME NEW p \in Parsers, Sound(p), Goes(p), Turn(p) \in A PROVE p \in A
  <2>1. PICK q : q = Turn(p)
    OBVIOUS
  <2>2. Sound(q) /\ Drain(p) = Drain(q) /\ q \in A
    BY <1>2, <2>1, TurnIs, DrainTurn
  <2>3. Same(Drain(More(Drain(p), x)), Drain(More(q, x)))
    BY <2>2
  <2>4. PICK a : a = More(p, x)
    OBVIOUS
  <2>5. Sound(a) /\ Goes(a) /\ Same(Turn(a), More(q, x))
    BY <1>2, <2>1, <2>4, MoreIs, TurnMore
  <2>6. Sound(Turn(a)) /\ Sound(More(q, x)) /\ Drain(a) = Drain(Turn(a))
    BY <2>2, <2>5, TurnIs, MoreIs, DrainTurn
  <2>7. Same(Drain(a), Drain(More(q, x)))
    BY <2>5, <2>6, DrainSame
  <2> QED BY <2>3, <2>4, <2>7, SameSame
<1>3. \A p \in Parsers : Sound(p) => p \in A
  <2> HIDE DEF A
  <2> QED BY <1>1, <1>2, TurnInduction
<1> QED BY <1>3

\* Draining leaves what the request asked for.
LEMMA DrainKeeps ==
  \A p \in Parsers : Sound(p) =>
     Drain(p).arch = p.arch /\ Drain(p).choice = p.choice /\ (p.error => Drain(p).error)
<1> DEFINE A == {p \in Parsers : Drain(p).arch = p.arch /\ Drain(p).choice = p.choice
                                 /\ (p.error => Drain(p).error)}
<1>1. ASSUME NEW p \in Parsers, Sound(p), ~Goes(p) PROVE p \in A
  <2>1. PICK q : q = Settle(p)
    OBVIOUS
  <2>2. Drain(p) = q
    BY <1>1, <2>1, DrainTurn
  <2>3. CASE p.error
    BY <2>1, <2>2, <2>3, BrokenIdle
  <2>4. CASE ~p.error /\ p.inCall
    <3>1. q = [p EXCEPT !.scan = CallClose(p).scan, !.quoted = CallClose(p).quoted]
      BY <1>1, <2>1, <2>4, SettleIs
    <3>2. q.arch = p.arch /\ q.choice = p.choice
      BY <3>1 DEF Parsers
    <3> QED BY <2>2, <2>4, <3>2
  <2>5. CASE ~p.error /\ ~p.inCall
    <3>1. Markers(p) = {} => q = EmitCut(p, Held(p.pending)) /\ Held(p.pending) \in 0 .. Len(p.pending)
      BY <1>1, <2>1, <2>5, SettleIs, HeldAt DEF Parsers
    <3>2. Markers(p) # {} =>
            /\ First(Markers(p)) \in 0 .. Len(p.pending)
            /\ q = EmitCut(p, First(Markers(p))) \/ q = Broken(p)
      BY <1>1, <2>1, <2>5, SettleIs
    <3>3. ASSUME NEW n \in 0 .. Len(p.pending), q = EmitCut(p, n)
          PROVE  q.arch = p.arch /\ q.choice = p.choice
      BY <1>1, <2>5, <3>3, EmitCutIs
    <3>4. ASSUME q = Broken(p) PROVE q.arch = p.arch /\ q.choice = p.choice
      BY <3>4, BrokenIs DEF Kept
    <3> QED BY <2>2, <2>5, <3>1, <3>2, <3>3, <3>4
  <2> QED BY <2>3, <2>4, <2>5
<1>2. ASSUME NEW p \in Parsers, Sound(p), Goes(p), Turn(p) \in A PROVE p \in A
  <2>1. PICK q : q = Turn(p)
    OBVIOUS
  <2>2. Drain(p) = Drain(q) /\ Drain(q).arch = q.arch /\ Drain(q).choice = q.choice /\ ~p.error
    BY <1>2, <2>1, DrainTurn DEF Goes, Ends, Begins
  <2>3. q.arch = p.arch /\ q.choice = p.choice
    <3>1. CASE Ends(p)
      <4>5. ~Begins(p)
        BY <3>1 DEF Ends, Begins
      <4>1. q = EndCall(p, CallClose(p).scan)
        BY <2>1, <3>1, <4>5 DEF Turn
      <4>2. CallClose(p).scan \in Nat /\ CallClose(p).scan + 4 <= Len(p.pending)
        BY <1>2, <3>1, EndsAt
      <4>3. PICK n : n = CallClose(p).scan
        OBVIOUS
      <4>4. q = Broken(p) \/ (q.arch = p.arch /\ q.choice = p.choice)
        BY <1>2, <4>1, <4>2, <4>3, EndIs
      <4> QED BY <4>4, BrokenIs DEF Kept
    <3>2. CASE Begins(p)
      <4>1. q = Begin(p)
        BY <2>1, <3>2 DEF Turn, Ends, Begins
      <4> QED BY <1>2, <3>2, <4>1, BeginIs
    <3> QED BY <1>2, <3>1, <3>2 DEF Goes
  <2> QED BY <2>2, <2>3
<1>3. \A p \in Parsers : Sound(p) => p \in A
  <2> HIDE DEF A
  <2> QED BY <1>1, <1>2, TurnInduction
<1> QED BY <1>3

\* What a parser is given, it works on with nothing returned yet.
Fresh(p) == [p EXCEPT !.deltas = <<>>]

\* Starting to return again changes nothing else.
LEMMA FreshIs ==
  ASSUME NEW p, Sound(p)
  PROVE  Sound(Fresh(p)) /\ Same(Fresh(p), p) /\ Fresh(p).error = p.error
         /\ Fresh(p).arch = p.arch /\ Fresh(p).choice = p.choice
<1>1. p \in Parsers /\ <<>> \in Seq(DeltaSet)
  BY DEF Sound
<1>2. PICK q : q = Fresh(p)
  OBVIOUS
<1>3. /\ q \in Parsers /\ q.arch = p.arch /\ q.choice = p.choice /\ q.pending = p.pending
      /\ q.inCall = p.inCall /\ q.scan = p.scan /\ q.quoted = p.quoted /\ q.text = p.text
      /\ q.calls = p.calls /\ q.error = p.error
  BY <1>1, <1>2 DEF Fresh, Parsers
<1>4. Sound(q)
  BY <1>1, <1>3 DEF Sound
<1>5. Same(q, p)
  BY <1>1, <1>3, SameIs
<1> QED BY <1>2, <1>3, <1>4, <1>5

\* A push, by the kind of parser.
LEMMA PushIs ==
  ASSUME NEW p, Sound(p), NEW x \in Text
  PROVE  /\ p.error => ParserPush(p, x) = Broken(p)
         /\ ~p.error /\ p.arch = "plain" => ParserPush(p, x) = EmitText(Fresh(p), x)
         /\ ~p.error /\ p.arch # "plain" => ParserPush(p, x) = Drain(More(Fresh(p), x))
BY DEF ParserPush, Fresh, More

\* A push keeps a parser sound, broken if it was, and what was asked for.
LEMMA PushSound ==
  ASSUME NEW p, Sound(p), NEW x \in Text
  PROVE  LET q == ParserPush(p, x) IN
         Sound(q) /\ q.arch = p.arch /\ q.choice = p.choice /\ (p.error => q.error)
<1>1. PICK q : q = ParserPush(p, x)
  OBVIOUS
<1>2. PICK f : f = Fresh(p)
  OBVIOUS
<1>3. Sound(f) /\ f \in Parsers /\ f.error = p.error /\ f.arch = p.arch /\ f.choice = p.choice
  BY <1>2, FreshIs DEF Sound
<1>4. CASE p.error
  <2>1. q = Broken(p)
    BY <1>1, <1>4, PushIs
  <2> QED BY <1>1, <2>1, BrokenIs DEF Kept, Sound
<1>5. CASE ~p.error /\ p.arch = "plain"
  <2>1. q = EmitText(f, x)
    BY <1>1, <1>2, <1>5, PushIs
  <2>2. Kept(f, q)
    BY <1>3, <2>1, EmitIs
  <2>3. Sound(q)
    BY <1>3, <2>2 DEF Kept, Sound
  <2> QED BY <1>1, <1>3, <1>5, <2>2, <2>3 DEF Kept
<1>6. CASE ~p.error /\ p.arch # "plain"
  <2>1. PICK m : m = More(f, x)
    OBVIOUS
  <2>2. Sound(m) /\ m \in Parsers /\ m.arch = p.arch /\ m.choice = p.choice
    BY <1>3, <2>1, MoreIs DEF Sound
  <2>3. q = Drain(m)
    BY <1>1, <1>2, <1>6, <2>1, PushIs
  <2> QED BY <1>1, <1>6, <2>2, <2>3, DrainSound, DrainKeeps
<1> QED BY <1>4, <1>5, <1>6

\* Broken parsers are the same.
LEMMA BrokenSame ==
  ASSUME NEW p, NEW q, Sound(p), Sound(q), p.error, q.error
  PROVE  Same(p, q)
BY DEF Same, Sound, Parsers

\* What the push before returned has no part in the next.
LEMMA PushSame ==
  ASSUME NEW p, NEW q, Sound(p), Sound(q), Same(p, q), NEW x \in Text
  PROVE  Same(ParserPush(p, x), ParserPush(q, x))
<1>1. PICK f : f = Fresh(p)
  OBVIOUS
<1>2. PICK g : g = Fresh(q)
  OBVIOUS
<1>3. Sound(f) /\ Sound(g) /\ f \in Parsers /\ g \in Parsers /\ Same(f, p) /\ Same(g, q)
  BY <1>1, <1>2, FreshIs DEF Sound
<1>4. Same(f, g) /\ p.error = q.error /\ (~p.error => p.arch = q.arch)
  <2>1. Same(f, g)
    BY <1>3, SameSame
  <2>2. p \in Parsers /\ q \in Parsers
    BY DEF Sound
  <2> QED BY <2>1, <2>2, SameIs
<1>5. CASE p.error
  BY <1>4, <1>5, PushSound, BrokenSame
<1>6. CASE ~p.error /\ p.arch = "plain"
  <2>1. PICK a : a = EmitText(f, x)
    OBVIOUS
  <2>2. PICK b : b = EmitText(g, x)
    OBVIOUS
  <2>3. /\ Kept(f, a) /\ a.error = (f.error \/ (f.calls # <<>> /\ ~Blank(x)))
        /\ a.text = IF f.calls = <<>> THEN f.text \o x ELSE f.text
    BY <1>3, <2>1, EmitIs
  <2>4. /\ Kept(g, b) /\ b.error = (g.error \/ (g.calls # <<>> /\ ~Blank(x)))
        /\ b.text = IF g.calls = <<>> THEN g.text \o x ELSE g.text
    BY <1>3, <2>2, EmitIs
  <2>5. ~f.error /\ f.error = g.error /\ f.calls = g.calls /\ f.text = g.text
        /\ f.arch = g.arch /\ f.choice = g.choice /\ f.pending = g.pending
        /\ f.inCall = g.inCall /\ f.scan = g.scan /\ f.quoted = g.quoted
    <3>1. ~f.error
      BY <1>1, <1>6, FreshIs
    <3> QED BY <1>3, <1>4, <3>1, SameIs
  <2>6. a.error = b.error /\ a.text = b.text
    BY <2>3, <2>4, <2>5
  <2>7. Same(a, b)
    BY <2>3, <2>4, <2>5, <2>6, SameIs DEF Kept
  <2> QED BY <1>1, <1>2, <1>4, <1>6, <2>1, <2>2, <2>7, PushIs
<1>7. CASE ~p.error /\ p.arch # "plain"
  <2>1. Same(More(f, x), More(g, x)) /\ Sound(More(f, x)) /\ Sound(More(g, x))
    BY <1>3, <1>4, MoreSame, MoreIs
  <2>2. Same(Drain(More(f, x)), Drain(More(g, x)))
    BY <2>1, DrainSame
  <2>3. ParserPush(p, x) = Drain(More(f, x)) /\ ParserPush(q, x) = Drain(More(g, x))
    BY <1>1, <1>2, <1>4, <1>7, PushIs
  <2> QED BY <2>2, <2>3
<1> QED BY <1>5, <1>6, <1>7

\* A parser makes of a text what it makes of it in two pieces, wherever it is
\* cut: push and drain (tools.rs) with what is kept from push to push.
THEOREM ChunkedParse ==
  ASSUME NEW p, Sound(p), NEW w \in Text, NEW x \in Text
  PROVE  Same(ParserPush(ParserPush(p, w), x), ParserPush(p, w \o x))
<1>1. PICK y : y = w \o x
  OBVIOUS
<1>2. y \in Text
  BY <1>1, Joined DEF Text
<1>3. PICK q : q = ParserPush(p, w)
  OBVIOUS
<1>4. Sound(q) /\ q.arch = p.arch /\ (p.error => q.error)
  BY <1>3, PushSound
<1>5. PICK f : f = Fresh(p)
  OBVIOUS
<1>6. Sound(f) /\ f \in Parsers /\ f.error = p.error /\ f.arch = p.arch
  BY <1>5, FreshIs DEF Sound
<1>7. PICK g : g = Fresh(q)
  OBVIOUS
<1>8. Sound(g) /\ g \in Parsers /\ g.error = q.error /\ Same(g, q)
  BY <1>4, <1>7, FreshIs DEF Sound
<1>9. PICK r : r = ParserPush(q, x)
  OBVIOUS
<1>10. PICK s : s = ParserPush(p, y)
  OBVIOUS
<1>11. Sound(r) /\ Sound(s) /\ (q.error => r.error) /\ (p.error => s.error)
  BY <1>2, <1>4, <1>9, <1>10, PushSound
<1>12. CASE p.error
  BY <1>1, <1>3, <1>4, <1>9, <1>10, <1>11, <1>12, BrokenSame
<1>13. CASE ~p.error /\ p.arch = "plain"
  <2>1. q = EmitText(f, w) /\ s = EmitText(f, y)
    BY <1>2, <1>3, <1>5, <1>10, <1>13, PushIs
  <2>2. /\ Kept(f, q) /\ q.error = (f.error \/ (f.calls # <<>> /\ ~Blank(w)))
        /\ q.text = IF f.calls = <<>> THEN f.text \o w ELSE f.text
    BY <1>6, <2>1, EmitIs
  <2>3. /\ Kept(f, s) /\ s.error = (f.error \/ (f.calls # <<>> /\ ~Blank(y)))
        /\ s.text = IF f.calls = <<>> THEN f.text \o y ELSE f.text
    BY <1>2, <1>6, <2>1, EmitIs
  <2>4. /\ Blank(y) <=> Blank(w) /\ Blank(x)
        /\ f.text \o y = (f.text \o w) \o x
    BY <1>1, <1>6, BlankJoin, JoinThree, SMTT(20) DEF Parsers
  <2>5. CASE q.error
    <3>1. s.error
      BY <2>2, <2>3, <2>4, <2>5
    <3> QED BY <1>1, <1>3, <1>9, <1>10, <1>11, <2>5, <3>1, BrokenSame
  <2>6. CASE ~q.error
    <3>1. r = EmitText(g, x)
      BY <1>4, <1>7, <1>9, <1>13, <2>6, PushIs
    <3>2. /\ Kept(g, r) /\ r.error = (g.error \/ (g.calls # <<>> /\ ~Blank(x)))
          /\ r.text = IF g.calls = <<>> THEN g.text \o x ELSE g.text
      BY <1>8, <3>1, EmitIs
    <3>3. /\ g.arch = q.arch /\ g.choice = q.choice /\ g.pending = q.pending
          /\ g.inCall = q.inCall /\ g.scan = q.scan /\ g.quoted = q.quoted
          /\ g.text = q.text /\ g.calls = q.calls
      BY <1>8, <2>2, <2>6, SameIs DEF Kept
    <3>4. r.error = s.error
      BY <1>8, <2>2, <2>3, <2>4, <2>6, <3>2, <3>3 DEF Kept
    <3>5. r.text = s.text
      BY <2>2, <2>3, <2>4, <3>2, <3>3 DEF Kept
    <3>6. /\ r.arch = s.arch /\ r.choice = s.choice /\ r.pending = s.pending
          /\ r.inCall = s.inCall /\ r.scan = s.scan /\ r.quoted = s.quoted
          /\ r.calls = s.calls
      BY <2>2, <2>3, <3>2, <3>3 DEF Kept
    <3>7. Same(r, s)
      BY <1>11, <3>4, <3>5, <3>6, SameIs DEF Sound
    <3> QED BY <1>1, <1>3, <1>9, <1>10, <3>7
  <2> QED BY <2>5, <2>6
<1>14. CASE ~p.error /\ p.arch # "plain"
  <2>1. PICK m : m = More(f, w)
    OBVIOUS
  <2>2. Sound(m) /\ m \in Parsers /\ m.pending = f.pending \o w
    BY <1>6, <2>1, MoreIs DEF Sound
  <2>3. q = Drain(m) /\ s = Drain(More(f, y))
    BY <1>2, <1>3, <1>5, <1>10, <1>14, <2>1, PushIs
  <2>4. More(m, x) = More(f, y)
    <3>1. (f.pending \o w) \o x = f.pending \o y
      BY <1>1, <1>6, JoinThree, SMTT(20) DEF Parsers
    <3>2. [m EXCEPT !.pending = (f.pending \o w) \o x] = [f EXCEPT !.pending = (f.pending \o w) \o x]
      BY <1>6, <2>1, <2>2 DEF More, Parsers
    <3> QED BY <2>2, <3>1, <3>2 DEF More
  <2>5. Same(Drain(More(q, x)), s)
    BY <2>2, <2>3, <2>4, DrainMore
  <2>6. Same(Drain(More(g, x)), Drain(More(q, x)))
    BY <1>4, <1>8, DrainSame, MoreSame, MoreIs
  <2>7. PICK e : e = Drain(More(g, x))
    OBVIOUS
  <2>8. Same(e, s)
    BY <2>5, <2>6, <2>7, SameSame
  <2>9. CASE ~q.error
    <3>1. r = e
      BY <1>4, <1>7, <1>9, <1>14, <2>7, <2>9, PushIs
    <3> QED BY <1>1, <1>3, <1>9, <1>10, <2>8, <3>1
  <2>10. CASE q.error
    <3>1. Sound(More(g, x)) /\ More(g, x).error
      BY <1>8, <2>10, MoreIs
    <3>2. e.error
      BY <2>7, <3>1, DrainKeeps DEF Sound
    <3>3. s.error
      BY <2>8, <3>2 DEF Same
    <3> QED BY <1>1, <1>3, <1>9, <1>10, <1>11, <2>10, <3>3, BrokenSame
  <2> QED BY <2>9, <2>10
<1> QED BY <1>12, <1>13, <1>14

\* A parser that has been given nothing is as it was made.
LEMMA NothingPushed ==
  ASSUME NEW p, Sound(p), p.pending = <<>>, ~p.error, ~p.inCall
  PROVE  Same(ParserPush(p, <<>>), p)
<1>1. <<>> \in Text /\ Len(<<>>) = 0 /\ <<>> \o <<>> = <<>>
  BY DEF Text
<1>2. PICK f : f = Fresh(p)
  OBVIOUS
<1>3. Sound(f) /\ f \in Parsers /\ Same(f, p)
  BY <1>2, FreshIs DEF Sound
<1>4. /\ ~f.error /\ f.arch = p.arch /\ f.choice = p.choice /\ f.pending = <<>>
      /\ ~f.inCall
  BY <1>3, SameIs DEF Sound
<1>5. EmitText(f, <<>>) = f
  BY DEF EmitText
<1>6. CASE p.arch = "plain"
  BY <1>1, <1>2, <1>3, <1>5, <1>6, PushIs
<1>7. CASE p.arch # "plain"
  <2>1. PICK m : m = More(f, <<>>)
    OBVIOUS
  <2>2. m = f
    BY <1>1, <1>3, <1>4, <2>1 DEF More, Parsers
  <2>3. ParserPush(p, <<>>) = Drain(f)
    BY <1>1, <1>2, <1>7, <2>1, <2>2, PushIs
  <2>4. Markers(f) = {}
    BY <1>1, <1>3, <1>4, MarkersIn
  <2>5. ~Goes(f)
    BY <1>4, <2>4 DEF Goes, Begins, Ends
  <2>6. PICK h : h = Held(<<>>)
    OBVIOUS
  <2>7. h = 0
    BY <1>1, <2>6, HeldAt
  <2>8. Drain(f) = EmitCut(f, 0)
    BY <1>3, <1>4, <2>4, <2>5, <2>6, <2>7, DrainTurn, SettleIs
  <2>9. Take(<<>>, 0) = <<>> /\ Drop(<<>>, 0) = <<>>
    BY DEF Take, Drop
  <2>10. [f EXCEPT !.pending = Drop(@, 0)] = f
    BY <1>3, <1>4, <2>9 DEF Parsers
  <2>11. EmitCut(f, 0) = f
    BY <1>4, <1>5, <2>9, <2>10 DEF EmitCut
  <2> QED BY <1>3, <2>3, <2>8, <2>11
<1> QED BY <1>6, <1>7

-----------------------------------------------------------------------------
(* The end of the text.                                                    *)

\* What finish makes of what drain leaves.
FinishText(d) == EmitText([d EXCEPT !.pending = <<>>], d.pending)
FinishCut(d) == Len(d.pending) > 1 /\ \E tag \in MARKERS : IsPrefix(d.pending, tag)
FinishUnmet(choice, calls) ==
  \/ choice \in {"required", "named"} /\ calls = <<>>
  \/ choice = "named" /\ \E c \in ToSet(calls) : Bodies[c] # "f"

\* finish drains, and lets out what is left.
LEMMA FinishIs ==
  ASSUME NEW p, Sound(p)
  PROVE  LET d == Drain(Fresh(p)) IN
         /\ Sound(d) /\ d.arch = p.arch /\ d.choice = p.choice /\ (p.error => d.error)
         /\ ParserFinish(p) = IF d.error \/ d.inCall \/ FinishCut(d)
                                 \/ FinishUnmet(p.choice, FinishText(d).calls)
                              THEN Broken(d) ELSE FinishText(d)
<1>1. PICK f : f = Fresh(p)
  OBVIOUS
<1>2. Sound(f) /\ f \in Parsers /\ f.error = p.error /\ f.arch = p.arch /\ f.choice = p.choice
  BY <1>1, FreshIs DEF Sound
<1>3. Sound(Drain(f)) /\ Drain(f).arch = p.arch /\ Drain(f).choice = p.choice
      /\ (p.error => Drain(f).error)
  BY <1>2, DrainSound, DrainKeeps
<1>4. ParserFinish(p) = IF \/ Drain(f).error \/ Drain(f).inCall \/ FinishCut(Drain(f))
                           \/ FinishUnmet(p.choice, FinishText(Drain(f)).calls)
                        THEN Broken(Drain(f)) ELSE FinishText(Drain(f))
  BY <1>1 DEF ParserFinish, FinishCut, FinishUnmet, FinishText, Fresh
<1> QED BY <1>1, <1>3, <1>4

\* What is left is let out like what is cut.
LEMMA FinishTextIs ==
  ASSUME NEW d, Sound(d)
  PROVE  FinishText(d) = EmitCut(d, Len(d.pending)) /\ Len(d.pending) \in 0 .. Len(d.pending)
<1> DEFINE t == d.pending
           n == Len(t)
<1>1. t \in Seq(Symbols) /\ n \in Nat /\ n \in 0 .. n
  BY LenProperties DEF Sound, Parsers, Text
<1>2. /\ Take(t, n) \in Seq(Symbols) /\ Len(Take(t, n)) = n
      /\ \A i \in 1 .. n : Take(t, n)[i] = t[i]
      /\ Drop(t, n) \in Seq(Symbols) /\ Len(Drop(t, n)) = n - n
  <2> HIDE DEF t, n
  <2> QED BY <1>1, TakeDrop DEF n
<1>3. Take(t, n) = t
  <2>1. PICK u : u = Take(t, n)
    OBVIOUS
  <2>2. u \in Seq(Symbols) /\ Len(u) = Len(t) /\ \A i \in 1 .. Len(t) : u[i] = t[i]
    BY <1>2, <2>1
  <2> HIDE DEF t, n
  <2>3. u = t
    BY <1>1, <2>2, SeqEqual
  <2> QED BY <2>1, <2>3
<1>4. Drop(t, n) = <<>>
  <2>1. PICK u : u = Drop(t, n)
    OBVIOUS
  <2>2. u \in Seq(Symbols) /\ Len(u) = 0
    BY <1>1, <1>2, <2>1
  <2>3. u = <<>>
    BY <2>2, EmptySeq
  <2> QED BY <2>1, <2>3
<1>5. EmitCut(d, n) = EmitText([d EXCEPT !.pending = Drop(t, n)], Take(t, n))
  BY DEF EmitCut
<1> QED BY <1>1, <1>3, <1>4, <1>5 DEF FinishText

\* A finish keeps a parser sound, and what was asked for.
LEMMA FinishSound ==
  ASSUME NEW p, Sound(p)
  PROVE  LET r == ParserFinish(p) IN
         Sound(r) /\ r.arch = p.arch /\ r.choice = p.choice /\ (p.error => r.error)
<1>1. PICK d : d = Drain(Fresh(p))
  OBVIOUS
<1>2. PICK t : t = FinishText(d)
  OBVIOUS
<1>3. PICK r : r = ParserFinish(p)
  OBVIOUS
<1>4. /\ Sound(d) /\ d.arch = p.arch /\ d.choice = p.choice /\ (p.error => d.error)
      /\ r = Broken(d) \/ (~d.error /\ ~d.inCall /\ r = t)
  BY <1>1, <1>2, <1>3, FinishIs
<1>5. CASE r = Broken(d)
  <2>1. Sound(r) /\ r.arch = d.arch /\ r.choice = d.choice /\ r.error
    BY <1>4, <1>5, BrokenIs DEF Kept, Sound
  <2> QED BY <1>3, <1>4, <2>1
<1>6. CASE ~d.error /\ ~d.inCall /\ r = t
  <2>1. t = EmitCut(d, Len(d.pending)) /\ Len(d.pending) \in 0 .. Len(d.pending)
    BY <1>2, <1>4, FinishTextIs
  <2>2. Sound(t) /\ t.arch = d.arch /\ t.choice = d.choice
    BY <1>4, <1>6, <2>1, EmitCutIs
  <2> QED BY <1>3, <1>4, <1>6, <2>2
<1> QED BY <1>4, <1>5, <1>6

\* What the parser returned before has no part in finish.
LEMMA FinishSame ==
  ASSUME NEW p, NEW q, Sound(p), Sound(q), Same(p, q)
  PROVE  Same(ParserFinish(p), ParserFinish(q))
<1>1. PICK d : d = Drain(Fresh(p))
  OBVIOUS
<1>2. PICK e : e = Drain(Fresh(q))
  OBVIOUS
<1>3. PICK t : t = FinishText(d)
  OBVIOUS
<1>4. PICK u : u = FinishText(e)
  OBVIOUS
<1>5. PICK r : r = ParserFinish(p)
  OBVIOUS
<1>6. PICK s : s = ParserFinish(q)
  OBVIOUS
<1>7. /\ Sound(d) /\ (p.error => d.error)
      /\ r = IF d.error \/ d.inCall \/ FinishCut(d) \/ FinishUnmet(p.choice, t.calls)
             THEN Broken(d) ELSE t
  BY <1>1, <1>3, <1>5, FinishIs
<1>8. /\ Sound(e) /\ (q.error => e.error)
      /\ s = IF e.error \/ e.inCall \/ FinishCut(e) \/ FinishUnmet(q.choice, u.calls)
             THEN Broken(e) ELSE u
  BY <1>2, <1>4, <1>6, FinishIs
<1>9. Same(d, e)
  <2>1. Same(Fresh(p), Fresh(q)) /\ Sound(Fresh(p)) /\ Sound(Fresh(q))
    BY FreshIs, SameSame
  <2> QED BY <1>1, <1>2, <2>1, DrainSame
<1>10. Same(Broken(d), Broken(e))
  <2>1. Broken(d).error = TRUE /\ Broken(e).error = TRUE
    BY <1>7, <1>8 DEF Broken, Sound, Parsers
  <2> QED BY <2>1 DEF Same
<1>11. CASE d.error
  <2>1. e.error
    BY <1>9, <1>11 DEF Same
  <2> QED BY <1>5, <1>6, <1>7, <1>8, <1>10, <1>11, <2>1
<1>12. CASE ~d.error
  <2>1. /\ ~e.error /\ p.choice = q.choice
        /\ d.inCall = e.inCall /\ d.pending = e.pending /\ d.calls = e.calls
    <3>1. ~p.error
      BY <1>7, <1>12
    <3> QED BY <1>7, <1>8, <1>9, <1>12, <3>1, SameIs DEF Sound
  <2>2. CASE d.inCall
    BY <1>5, <1>6, <1>7, <1>8, <1>10, <2>1, <2>2
  <2>3. CASE ~d.inCall
    <3>1. PICK n : n = Len(d.pending)
      OBVIOUS
    <3>2. t = EmitCut(d, n) /\ n \in 0 .. Len(d.pending)
      BY <1>3, <1>7, <3>1, FinishTextIs
    <3>3. u = EmitCut(e, n) /\ n \in 0 .. Len(e.pending)
      BY <1>4, <1>8, <2>1, <3>1, FinishTextIs
    <3>4. Same(t, u) /\ t.calls = d.calls /\ u.calls = e.calls
      BY <1>7, <1>8, <1>9, <1>12, <2>1, <2>3, <3>2, <3>3, CutSame, EmitCutIs
    <3>5. /\ FinishCut(d) = FinishCut(e)
          /\ FinishUnmet(p.choice, t.calls) = FinishUnmet(q.choice, u.calls)
      BY <2>1, <3>4 DEF FinishCut, FinishUnmet
    <3>6. Same(r, s)
      BY <1>7, <1>8, <1>10, <1>12, <2>1, <3>4, <3>5
    <3> QED BY <1>5, <1>6, <3>6
  <2> QED BY <2>2, <2>3
<1> QED BY <1>11, <1>12

\* A parser as it is made.
LEMMA NewSound ==
  ASSUME NEW p \in Parsers
  PROVE  Sound(NewParser(p.arch, p.choice))
<1>1. <<>> \in Text /\ <<>> \in Seq(Text) /\ <<>> \in Seq(DeltaSet) /\ Len(<<>>) = 0
  BY DEF Text
<1> QED BY <1>1 DEF NewParser, Sound, Parsers

\* What has been parsed as in one piece still is after a push.
LEMMA PushOn ==
  ASSUME NEW p, NEW q, Sound(p), Sound(q), NEW w \in Text, NEW x \in Text,
         Same(p, ParserPush(q, w))
  PROVE  Same(ParserPush(p, x), ParserPush(q, w \o x))
<1>1. Same(ParserPush(p, x), ParserPush(ParserPush(q, w), x))
  BY PushSound, PushSame
<1>2. Same(ParserPush(ParserPush(q, w), x), ParserPush(q, w \o x))
  BY ChunkedParse
<1> QED BY <1>1, <1>2, SameSame
===============================================================================
