------------------------- MODULE ResponsesStoreProofs -------------------------
(***************************************************************************)
(* Proofs about ResponsesStore.                                            *)
(***************************************************************************)
EXTENDS ResponsesStore, NatRecursion, SequenceTheorems

\* The running totals start at 0 and grow by one record at a time.
LEMMA RunningDef ==
  ASSUME NEW S, \A x \in S : x.bytes \in Nat, NEW rs \in Seq(S)
  PROVE  /\ Running(rs) \in [0 .. Len(rs) -> Nat]
         /\ Running(rs)[0] = 0
         /\ \A n \in 1 .. Len(rs) : Running(rs)[n] = Running(rs)[n - 1] + rs[n].bytes
<1> DEFINE N == Len(rs)
           step == [n \in 1 .. N |-> [x \in Nat |-> x + rs[n].bytes]]
           Rec(f) == f = [n \in 0 .. N |-> IF n = 0 THEN 0 ELSE f[n - 1] + rs[n].bytes]
<1>1. N \in Nat /\ \A n \in 1 .. N : rs[n].bytes \in Nat
  BY ElementOfSeq, LenProperties
<1>2. step \in [1 .. N -> [Nat -> Nat]]
  BY <1>1
<1>3. PICK f \in [0 .. N -> Nat] : Iterates(f, 0, N, step)
  <2>1. 0 \in Nat
    OBVIOUS
  <2> HIDE DEF step, N
  <2> QED BY <1>1, <1>2, <2>1, Recursion
<1>4. ASSUME NEW n \in 1 .. N PROVE f[n] = f[n - 1] + rs[n].bytes
  <2>1. n - 1 \in 0 .. N
    BY <1>1
  <2>2. f[n] = step[n][f[n - 1]]
    BY <1>3 DEF Iterates
  <2> QED BY <2>1, <2>2
<1>5. Rec(f)
  <2>1. \A n \in 0 .. N : f[n] = IF n = 0 THEN 0 ELSE f[n - 1] + rs[n].bytes
    BY <1>1, <1>3, <1>4 DEF Iterates
  <2> QED BY <2>1
<1>6. Rec(Running(rs))
  <2>1. Running(rs) = CHOOSE g : Rec(g)
    BY DEF Running
  <2> HIDE DEF Rec
  <2> QED BY <1>5, <2>1
<1>7. /\ Running(rs)[0] = 0
      /\ \A n \in 1 .. N : Running(rs)[n] = Running(rs)[n - 1] + rs[n].bytes
  <2>1. 0 \in 0 .. N /\ \A n \in 1 .. N : n \in 0 .. N /\ n # 0
    BY <1>1
  <2> QED BY <1>6, <2>1
<1>8. \A n \in 0 .. N : Running(rs)[n] \in Nat
  <2>1. Running(rs)[0] \in Nat
    BY <1>7
  <2>2. \A n \in 1 .. N : Running(rs)[n - 1] \in Nat => Running(rs)[n] \in Nat
    BY <1>1, <1>7
  <2> HIDE DEF N
  <2> QED BY <1>1, <2>1, <2>2, AllValues
<1> QED BY <1>6, <1>7, <1>8

\* They are the only function that does.
LEMMA RunningUnique ==
  ASSUME NEW S, \A x \in S : x.bytes \in Nat, NEW rs \in Seq(S),
         NEW g, g[0] = 0, \A n \in 1 .. Len(rs) : g[n] = g[n - 1] + rs[n].bytes
  PROVE  \A n \in 0 .. Len(rs) : Running(rs)[n] = g[n]
<1> DEFINE T == {n \in 0 .. Len(rs) : Running(rs)[n] = g[n]}
<1>1. Len(rs) \in Nat
  BY LenProperties
<1>2. 0 \in T
  BY <1>1, RunningDef
<1>3. ASSUME NEW n \in T, n \in 0 .. Len(rs) - 1 PROVE n + 1 \in T
  <2>1. n + 1 \in 1 .. Len(rs) /\ (n + 1) - 1 = n /\ n + 1 \in 0 .. Len(rs)
    BY <1>1, <1>3
  <2>2. Running(rs)[n + 1] = Running(rs)[n] + rs[n + 1].bytes
    BY <2>1, RunningDef
  <2> QED BY <2>1, <2>2
<1>4. 0 .. Len(rs) \subseteq T
  <2> HIDE DEF T
  <2> QED BY <1>1, <1>2, <1>3, BoundedInduction
<1> QED BY <1>4

\* One more record adds its bytes.
LEMMA TotalAppend ==
  ASSUME NEW S, \A x \in S : x.bytes \in Nat, NEW rs \in Seq(S), NEW rec \in S
  PROVE  Total(Append(rs, rec)) = Total(rs) + rec.bytes
<1> DEFINE N == Len(rs)
           g == [n \in 0 .. N + 1 |->
                   IF n = N + 1 THEN Running(rs)[N] + rec.bytes ELSE Running(rs)[n]]
<1>1. N \in Nat
  BY LenProperties
<1>2. /\ Append(rs, rec) \in Seq(S) /\ Len(Append(rs, rec)) = N + 1
      /\ \A n \in 1 .. N : Append(rs, rec)[n] = rs[n]
      /\ Append(rs, rec)[N + 1] = rec
  BY AppendProperties
<1>3. g[0] = 0
  BY <1>1, RunningDef
<1>4. ASSUME NEW n \in 1 .. N + 1 PROVE g[n] = g[n - 1] + Append(rs, rec)[n].bytes
  <2>1. CASE n = N + 1
    BY <1>1, <1>2, <2>1
  <2>2. CASE n # N + 1
    <3>1. n \in 1 .. N /\ n - 1 \in 0 .. N + 1 /\ n - 1 # N + 1 /\ n \in 0 .. N + 1
      BY <1>1, <2>2
    <3>2. Running(rs)[n] = Running(rs)[n - 1] + rs[n].bytes
      BY <3>1, RunningDef
    <3> QED BY <1>2, <2>2, <3>1, <3>2
  <2> QED BY <2>1, <2>2
<1>5. N + 1 \in 0 .. N + 1 /\ g[N + 1] = Running(rs)[N] + rec.bytes
  BY <1>1
<1>6. Running(Append(rs, rec))[N + 1] = g[N + 1]
  <2> DEFINE more == Append(rs, rec)
  <2>1. more \in Seq(S) /\ Len(more) = N + 1
        /\ \A n \in 1 .. Len(more) : g[n] = g[n - 1] + more[n].bytes
    BY <1>2, <1>4
  <2>2. \A n \in 0 .. Len(more) : Running(more)[n] = g[n]
    <3> HIDE DEF g, more
    <3> QED BY <1>3, <2>1, RunningUnique
  <2> QED BY <1>5, <2>1, <2>2
<1> QED BY <1>2, <1>5, <1>6 DEF Total

\* What is left when the first k records go has what they had less in total.
LEMMA TotalDrop ==
  ASSUME NEW S, \A x \in S : x.bytes \in Nat, NEW rs \in Seq(S), NEW k \in 0 .. Len(rs)
  PROVE  /\ SubSeq(rs, k + 1, Len(rs)) \in Seq(S)
         /\ Len(SubSeq(rs, k + 1, Len(rs))) = Len(rs) - k
         /\ \A i \in 1 .. Len(rs) - k : SubSeq(rs, k + 1, Len(rs))[i] = rs[k + i]
         /\ Total(SubSeq(rs, k + 1, Len(rs))) = Total(rs) - Running(rs)[k]
<1> DEFINE N == Len(rs)
           left == SubSeq(rs, k + 1, N)
           g == [n \in 0 .. N - k |-> Running(rs)[k + n] - Running(rs)[k]]
<1>1. N \in Nat /\ k \in Nat
  BY LenProperties
<1>2. \A i \in k + 1 .. N : rs[i] \in S
  BY <1>1, ElementOfSeq
<1>3. /\ left \in Seq(S) /\ Len(left) = N - k
      /\ \A i \in 1 .. N - k : left[i] = rs[k + i]
  <2>1. /\ left \in Seq(S)
        /\ Len(left) = IF k + 1 <= N THEN N - (k + 1) + 1 ELSE 0
        /\ \A i \in 1 .. N - (k + 1) + 1 : left[i] = rs[k + 1 + i - 1]
    BY <1>1, <1>2, SubSeqProperties
  <2>2. Len(left) = N - k
    BY <1>1, <2>1
  <2>3. ASSUME NEW i \in 1 .. N - k PROVE left[i] = rs[k + i]
    <3>1. i \in 1 .. N - (k + 1) + 1 /\ k + 1 + i - 1 = k + i
      BY <1>1
    <3> QED BY <2>1, <3>1
  <2> QED BY <2>1, <2>2, <2>3
<1>4. \A n \in 0 .. N : Running(rs)[n] \in Nat
  BY RunningDef
<1>5. g[0] = 0
  BY <1>1, <1>4
<1>6. ASSUME NEW n \in 1 .. N - k PROVE g[n] = g[n - 1] + left[n].bytes
  <2>1. n \in 0 .. N - k /\ n - 1 \in 0 .. N - k /\ k + n \in 1 .. N /\ (k + n) - 1 = k + (n - 1)
        /\ k + n - 1 \in 0 .. N
    BY <1>1
  <2>2. Running(rs)[k + n] = Running(rs)[k + (n - 1)] + rs[k + n].bytes
    BY <2>1, RunningDef
  <2>3. Running(rs)[k + (n - 1)] \in Nat /\ Running(rs)[k] \in Nat /\ rs[k + n].bytes \in Nat
    BY <1>1, <1>4, <2>1, ElementOfSeq
  <2>4. g[n] = Running(rs)[k + n] - Running(rs)[k]
        /\ g[n - 1] = Running(rs)[k + (n - 1)] - Running(rs)[k]
    BY <2>1
  <2> QED BY <1>3, <2>2, <2>3, <2>4
<1>7. N - k \in 0 .. N - k /\ k + (N - k) = N
  BY <1>1
<1>8. g[N - k] = Total(rs) - Running(rs)[k]
  BY <1>7 DEF Total
<1>9. Running(left)[N - k] = g[N - k]
  <2>1. \A n \in 1 .. Len(left) : g[n] = g[n - 1] + left[n].bytes
    BY <1>3, <1>6
  <2>2. \A n \in 0 .. Len(left) : Running(left)[n] = g[n]
    <3> HIDE DEF g, left
    <3> QED BY <1>3, <1>5, <2>1, RunningUnique
  <2> QED BY <1>3, <1>7, <2>2
<1> QED BY <1>3, <1>8, <1>9 DEF Total

\* What is left when record k goes has its bytes less in total.
LEMMA TotalRemoveAt ==
  ASSUME NEW S, \A x \in S : x.bytes \in Nat, NEW rs \in Seq(S), NEW k \in 1 .. Len(rs)
  PROVE  /\ RemoveAt(rs, k) \in Seq(S)
         /\ Len(RemoveAt(rs, k)) = Len(rs) - 1
         /\ \A i \in 1 .. Len(rs) - 1 : RemoveAt(rs, k)[i] = rs[IF i < k THEN i ELSE i + 1]
         /\ Total(RemoveAt(rs, k)) = Total(rs) - rs[k].bytes
<1> DEFINE N == Len(rs)
           front == SubSeq(rs, 1, k - 1)
           back == SubSeq(rs, k + 1, N)
           left == RemoveAt(rs, k)
           g == [n \in 0 .. N - 1 |->
                   IF n < k THEN Running(rs)[n] ELSE Running(rs)[n + 1] - rs[k].bytes]
<1>1. N \in Nat /\ k \in 1 .. N
  BY LenProperties
<1>2. /\ front \in Seq(S) /\ Len(front) = k - 1
      /\ \A i \in 1 .. k - 1 : front[i] = rs[i]
  <2>1. \A i \in 1 .. k - 1 : rs[i] \in S
    BY <1>1, ElementOfSeq
  <2>2. /\ front \in Seq(S)
        /\ Len(front) = IF 1 <= k - 1 THEN (k - 1) - 1 + 1 ELSE 0
        /\ \A i \in 1 .. (k - 1) - 1 + 1 : front[i] = rs[1 + i - 1]
    BY <1>1, <2>1, SubSeqProperties
  <2>3. \A i \in 1 .. k - 1 : i \in 1 .. (k - 1) - 1 + 1 /\ 1 + i - 1 = i
    BY <1>1
  <2> QED BY <1>1, <2>2, <2>3
<1>3. /\ back \in Seq(S) /\ Len(back) = N - k
      /\ \A i \in 1 .. N - k : back[i] = rs[k + i]
  <2>1. k \in 0 .. Len(rs)
    BY <1>1
  <2> QED BY <2>1, TotalDrop
<1>4. /\ left \in Seq(S) /\ Len(left) = N - 1
      /\ \A i \in 1 .. N - 1 : left[i] = IF i <= k - 1 THEN front[i] ELSE back[i - (k - 1)]
  <2>1. /\ front \o back \in Seq(S) /\ Len(front \o back) = (k - 1) + (N - k)
        /\ \A i \in 1 .. (k - 1) + (N - k) :
             (front \o back)[i] = IF i <= k - 1 THEN front[i] ELSE back[i - (k - 1)]
    <3>1. /\ front \o back \in Seq(S) /\ Len(front \o back) = Len(front) + Len(back)
          /\ \A i \in 1 .. Len(front) + Len(back) :
               (front \o back)[i] = IF i <= Len(front) THEN front[i] ELSE back[i - Len(front)]
      <4> HIDE DEF front, back
      <4> QED BY <1>2, <1>3, ConcatProperties
    <3> HIDE DEF front, back
    <3> QED BY <1>2, <1>3, <3>1
  <2>2. (k - 1) + (N - k) = N - 1
    BY <1>1
  <2> QED BY <2>1, <2>2 DEF RemoveAt
<1>5. \A i \in 1 .. N - 1 : left[i] = rs[IF i < k THEN i ELSE i + 1]
  <2>1. TAKE i \in 1 .. N - 1
  <2>2. CASE i < k
    <3>1. i \in 1 .. k - 1 /\ i <= k - 1
      BY <1>1, <2>2
    <3> QED BY <1>2, <1>4, <2>2, <3>1
  <2>3. CASE ~(i < k)
    <3>1. i - (k - 1) \in 1 .. N - k /\ k + (i - (k - 1)) = i + 1 /\ ~(i <= k - 1)
      BY <1>1, <2>3
    <3> QED BY <1>3, <1>4, <2>3, <3>1
  <2> QED BY <2>2, <2>3
<1>6. \A n \in 0 .. N : Running(rs)[n] \in Nat
  BY RunningDef
<1>7. \A n \in 1 .. N : rs[n].bytes \in Nat /\ Running(rs)[n] = Running(rs)[n - 1] + rs[n].bytes
  BY RunningDef, ElementOfSeq
<1>8. g[0] = 0
  <2>1. 0 \in 0 .. N - 1 /\ 0 < k
    BY <1>1
  <2> QED BY <2>1, RunningDef
<1>9. ASSUME NEW n \in 1 .. Len(left) PROVE g[n] = g[n - 1] + left[n].bytes
  <2>1. n \in 1 .. N - 1 /\ n \in 0 .. N - 1 /\ n - 1 \in 0 .. N - 1 /\ n \in 1 .. N
        /\ n + 1 \in 1 .. N /\ (n + 1) - 1 = n /\ n \in 0 .. N
    BY <1>1, <1>4
  <2>2. CASE n < k
    <3>1. g[n] = Running(rs)[n] /\ g[n - 1] = Running(rs)[n - 1]
      BY <1>1, <2>1, <2>2
    <3> QED BY <1>5, <1>7, <2>1, <2>2, <3>1
  <2>3. CASE n = k
    <3>1. g[n] = Running(rs)[n + 1] - rs[k].bytes /\ g[n - 1] = Running(rs)[n - 1]
      BY <1>1, <2>1, <2>3
    <3>2. left[n] = rs[n + 1]
      BY <1>1, <1>5, <2>1, <2>3
    <3>3. /\ Running(rs)[n + 1] = Running(rs)[n] + rs[n + 1].bytes
          /\ Running(rs)[n] = Running(rs)[n - 1] + rs[k].bytes
          /\ rs[n + 1].bytes \in Nat /\ rs[k].bytes \in Nat
      BY <1>7, <2>1, <2>3
    <3>4. Running(rs)[n - 1] \in Nat
      <4>1. n - 1 \in 0 .. N
        BY <2>1
      <4> QED BY <1>6, <4>1
    <3> QED BY <3>1, <3>2, <3>3, <3>4
  <2>4. CASE n > k
    <3>1. g[n] = Running(rs)[n + 1] - rs[k].bytes /\ g[n - 1] = Running(rs)[n] - rs[k].bytes
      BY <1>1, <2>1, <2>4
    <3>2. left[n] = rs[n + 1]
      BY <1>1, <1>5, <2>1, <2>4
    <3>3. /\ Running(rs)[n + 1] = Running(rs)[n] + rs[n + 1].bytes
          /\ rs[n + 1].bytes \in Nat /\ Running(rs)[n] \in Nat
      BY <1>6, <1>7, <2>1
    <3>4. rs[k].bytes \in Nat
      BY <1>1, <1>7
    <3> QED BY <3>1, <3>2, <3>3, <3>4
  <2> QED BY <1>1, <2>1, <2>2, <2>3, <2>4
<1>10. \A n \in 0 .. Len(left) : Running(left)[n] = g[n]
  <2> HIDE DEF g, left
  <2> QED BY <1>4, <1>8, <1>9, RunningUnique
<1>11. g[N - 1] = Running(rs)[N] - rs[k].bytes
  <2>1. N - 1 \in 0 .. N - 1 /\ (N - 1) + 1 = N /\ N \in 1 .. N
    BY <1>1
  <2>2. CASE N - 1 < k
    <3>1. k = N
      BY <1>1, <2>2
    <3>2. g[N - 1] = Running(rs)[N - 1]
      BY <2>1, <2>2
    <3>3. Running(rs)[N] = Running(rs)[N - 1] + rs[N].bytes /\ rs[N].bytes \in Nat
      BY <1>7, <2>1
    <3>4. Running(rs)[N - 1] \in Nat
      <4>1. N - 1 \in 0 .. N
        BY <2>1
      <4> QED BY <1>6, <4>1
    <3> QED BY <3>1, <3>2, <3>3, <3>4
  <2>3. CASE ~(N - 1 < k)
    BY <2>1, <2>3
  <2> QED BY <2>2, <2>3
<1>12. Total(left) = Total(rs) - rs[k].bytes
  <2>1. N - 1 \in 0 .. Len(left)
    BY <1>1, <1>4
  <2> QED BY <1>4, <1>10, <1>11, <2>1 DEF Total
<1> QED BY <1>4, <1>5, <1>12

\* s is made of elements of rs, in their order.
Within(s, rs) ==
  \E h \in [1 .. Len(s) -> 1 .. Len(rs)] :
    /\ \A i \in 1 .. Len(s) : s[i] = rs[h[i]]
    /\ \A i, j \in 1 .. Len(s) : i < j => h[i] < h[j]

\* Retaining goes through the records once, and takes those to be kept.
LEMMA RetainDef ==
  ASSUME NEW S, NEW rs \in Seq(S), NEW kept
  PROVE  \E among \in [0 .. Len(rs) -> Seq(S)] :
           /\ Retain(rs, kept) = among[Len(rs)]
           /\ among[0] = <<>>
           /\ \A n \in 1 .. Len(rs) :
                among[n] = IF n \in kept THEN Append(among[n - 1], rs[n]) ELSE among[n - 1]
<1> DEFINE N == Len(rs)
           step == [n \in 1 .. N |-> [q \in Seq(S) |->
                      IF n \in kept THEN Append(q, rs[n]) ELSE q]]
           Rec(f) == f = [n \in 0 .. N |->
                      IF n = 0 THEN <<>>
                      ELSE IF n \in kept THEN Append(f[n - 1], rs[n]) ELSE f[n - 1]]
<1>1. N \in Nat /\ \A n \in 1 .. N : rs[n] \in S
  BY ElementOfSeq, LenProperties
<1>2. step \in [1 .. N -> [Seq(S) -> Seq(S)]]
  BY <1>1, AppendProperties
<1>3. PICK f \in [0 .. N -> Seq(S)] : Iterates(f, <<>>, N, step)
  <2>1. <<>> \in Seq(S)
    BY EmptySeq
  <2> HIDE DEF step, N
  <2> QED BY <1>1, <1>2, <2>1, Recursion
<1>4. ASSUME NEW n \in 1 .. N
      PROVE  f[n] = IF n \in kept THEN Append(f[n - 1], rs[n]) ELSE f[n - 1]
  <2>1. n - 1 \in 0 .. N
    BY <1>1
  <2>2. f[n] = step[n][f[n - 1]]
    BY <1>3 DEF Iterates
  <2> QED BY <2>1, <2>2
<1>5. Rec(f)
  <2>1. f[0] = <<>>
    BY <1>3 DEF Iterates
  <2>2. \A n \in 0 .. N : n = 0 \/ n \in 1 .. N
    BY <1>1
  <2>3. \A n \in 0 .. N : f[n] = IF n = 0 THEN <<>>
          ELSE IF n \in kept THEN Append(f[n - 1], rs[n]) ELSE f[n - 1]
    BY <1>4, <2>1, <2>2
  <2> QED BY <2>3
<1>6. PICK among : Rec(among) /\ Retain(rs, kept) = among[N]
  <2> DEFINE chosen == CHOOSE g : Rec(g)
  <2>1. Retain(rs, kept) = chosen[N]
    BY DEF Retain
  <2>2. Rec(chosen)
    <3> HIDE DEF Rec
    <3> QED BY <1>5
  <2> HIDE DEF chosen
  <2> QED BY <2>1, <2>2
<1>7. /\ among[0] = <<>>
      /\ \A n \in 1 .. N :
           among[n] = IF n \in kept THEN Append(among[n - 1], rs[n]) ELSE among[n - 1]
  <2>1. 0 \in 0 .. N /\ \A n \in 1 .. N : n \in 0 .. N /\ n # 0
    BY <1>1
  <2> QED BY <1>6, <2>1
<1>8. \A n \in 0 .. N : among[n] \in Seq(S)
  <2>1. among[0] \in Seq(S)
    BY <1>7, EmptySeq
  <2>2. \A n \in 1 .. N : among[n - 1] \in Seq(S) => among[n] \in Seq(S)
    <3>1. TAKE n \in 1 .. N
    <3>2. rs[n] \in S
      BY <1>1
    <3>3. \A q \in Seq(S) : Append(q, rs[n]) \in Seq(S)
      BY <3>2, AppendProperties
    <3> QED BY <1>7, <3>3
  <2> HIDE DEF N
  <2> QED BY <1>1, <2>1, <2>2, AllValues
<1> QED BY <1>6, <1>7, <1>8

\* h says where in the first n records of rs each element of s is.
Locates(h, s, rs, n) ==
  /\ h \in [1 .. Len(s) -> 1 .. n]
  /\ \A i \in 1 .. Len(s) : s[i] = rs[h[i]]
  /\ \A i, j \in 1 .. Len(s) : i < j => h[i] < h[j]

\* What is retained is in its old order, has no more records than before, and no
\* more bytes.
LEMMA RetainKeeps ==
  ASSUME NEW S, \A x \in S : x.bytes \in Nat, NEW rs \in Seq(S), NEW kept
  PROVE  /\ Retain(rs, kept) \in Seq(S)
         /\ Len(Retain(rs, kept)) <= Len(rs)
         /\ Total(Retain(rs, kept)) <= Total(rs)
         /\ Within(Retain(rs, kept), rs)
<1> DEFINE N == Len(rs)
<1>1. N \in Nat /\ \A n \in 1 .. N : rs[n] \in S /\ rs[n].bytes \in Nat
  BY ElementOfSeq, LenProperties
<1>2. PICK among \in [0 .. N -> Seq(S)] :
        /\ Retain(rs, kept) = among[N]
        /\ among[0] = <<>>
        /\ \A n \in 1 .. N :
             among[n] = IF n \in kept THEN Append(among[n - 1], rs[n]) ELSE among[n - 1]
  BY RetainDef
<1>3. \A n \in 0 .. N : Running(rs)[n] \in Nat
  BY RunningDef
<1>4. \A n \in 1 .. N : Running(rs)[n] = Running(rs)[n - 1] + rs[n].bytes
  BY RunningDef
<1>5. \A n \in 0 .. N : Len(among[n]) \in Nat /\ Total(among[n]) \in Nat
  <2>1. TAKE n \in 0 .. N
  <2>2. among[n] \in Seq(S)
    OBVIOUS
  <2>3. Len(among[n]) \in Nat
    BY <2>2, LenProperties
  <2>4. Running(among[n]) \in [0 .. Len(among[n]) -> Nat]
    BY <2>2, RunningDef
  <2>5. Len(among[n]) \in 0 .. Len(among[n])
    BY <2>3
  <2> QED BY <2>3, <2>4, <2>5 DEF Total
<1> DEFINE Good(n) == /\ Len(among[n]) <= n
                      /\ Total(among[n]) <= Running(rs)[n]
                      /\ \E h : Locates(h, among[n], rs, n)
           T == {n \in 0 .. N : Good(n)}
<1>6. 0 \in T
  <2>1. Len(among[0]) = 0
    BY <1>2
  <2>2. Total(among[0]) = 0
    <3>1. <<>> \in Seq(S) /\ Len(<<>>) = 0
      BY EmptySeq
    <3>2. Running(<<>>)[0] = 0
      BY <3>1, RunningDef
    <3> QED BY <1>2, <3>1, <3>2 DEF Total
  <2>3. Locates([i \in 1 .. 0 |-> 1], among[0], rs, 0)
    BY <2>1 DEF Locates
  <2>4. 0 \in 0 .. N /\ Running(rs)[0] \in Nat
    BY <1>1, <1>3
  <2>5. \E h : Locates(h, among[0], rs, 0)
    BY <2>3
  <2> QED BY <2>1, <2>2, <2>4, <2>5
<1>7. ASSUME NEW n \in T, n \in 0 .. N - 1 PROVE n + 1 \in T
  <2> DEFINE old == among[n]
             new == among[n + 1]
  <2>1. n + 1 \in 1 .. N /\ n + 1 \in 0 .. N /\ n \in 0 .. N /\ (n + 1) - 1 = n /\ n \in Nat
    BY <1>1, <1>7
  <2>2. new = IF n + 1 \in kept THEN Append(old, rs[n + 1]) ELSE old
    BY <1>2, <2>1
  <2>3. Running(rs)[n + 1] = Running(rs)[n] + rs[n + 1].bytes
    BY <1>4, <2>1
  <2>4. /\ old \in Seq(S) /\ Len(old) \in Nat /\ Total(old) \in Nat
        /\ rs[n + 1] \in S /\ rs[n + 1].bytes \in Nat /\ Running(rs)[n] \in Nat
    BY <1>1, <1>3, <1>5, <2>1
  <2>5. Len(old) <= n /\ Total(old) <= Running(rs)[n]
    OBVIOUS
  <2>6. PICK h : Locates(h, old, rs, n)
    OBVIOUS
  <2>7. CASE n + 1 \notin kept
    <3>1. new = old
      BY <2>2, <2>7
    <3>2. Locates(h, old, rs, n + 1)
      BY <2>1, <2>6 DEF Locates
    <3>3. Len(new) <= n + 1 /\ Total(new) <= Running(rs)[n + 1]
      BY <2>1, <2>3, <2>4, <2>5, <3>1
    <3>4. \E k : Locates(k, new, rs, n + 1)
      BY <3>1, <3>2
    <3> QED BY <2>1, <3>3, <3>4
  <2>8. CASE n + 1 \in kept
    <3> DEFINE k == [i \in 1 .. Len(old) + 1 |-> IF i = Len(old) + 1 THEN n + 1 ELSE h[i]]
    <3>1. new = Append(old, rs[n + 1])
      BY <2>2, <2>8
    <3>2. /\ Len(new) = Len(old) + 1
          /\ \A i \in 1 .. Len(old) : new[i] = old[i]
          /\ new[Len(old) + 1] = rs[n + 1]
      <4> HIDE DEF old, new
      <4> QED BY <2>4, <3>1, AppendProperties
    <3>3. Total(new) = Total(old) + rs[n + 1].bytes
      <4> HIDE DEF old, new
      <4> QED BY <2>4, <3>1, TotalAppend
    <3>4. Len(new) <= n + 1 /\ Total(new) <= Running(rs)[n + 1]
      BY <2>1, <2>3, <2>4, <2>5, <3>2, <3>3
    <3> HIDE DEF old, new
    <3>5. \A i \in 1 .. Len(old) + 1 : i = Len(old) + 1 \/ i \in 1 .. Len(old)
      BY <2>4
    <3>6. /\ \A i \in 1 .. Len(old) : k[i] = h[i] /\ k[i] \in 1 .. n
          /\ k[Len(old) + 1] = n + 1
      BY <2>4, <2>6 DEF Locates
    <3>7. k \in [1 .. Len(new) -> 1 .. n + 1]
      <4>1. n + 1 \in 1 .. n + 1 /\ \A m \in 1 .. n : m \in 1 .. n + 1
        BY <2>1
      <4>2. \A i \in 1 .. Len(old) + 1 : k[i] \in 1 .. n + 1
        <5> HIDE DEF k
        <5> QED BY <3>5, <3>6, <4>1
      <4>3. k \in [1 .. Len(old) + 1 -> 1 .. n + 1]
        BY <4>2
      <4> HIDE DEF k
      <4> QED BY <3>2, <4>3
    <3>8. \A i \in 1 .. Len(new) : new[i] = rs[k[i]]
      BY <2>6, <3>2, <3>5, <3>6 DEF Locates
    <3>9. ASSUME NEW i \in 1 .. Len(new), NEW j \in 1 .. Len(new), i < j PROVE k[i] < k[j]
      <4>1. i \in 1 .. Len(old)
        BY <2>4, <3>2, <3>9
      <4>2. CASE j \in 1 .. Len(old)
        BY <2>6, <3>6, <3>9, <4>1, <4>2 DEF Locates
      <4>3. CASE j = Len(old) + 1
        <5>1. k[i] \in 1 .. n /\ k[j] = n + 1
          BY <3>6, <4>1, <4>3
        <5> HIDE DEF k
        <5> QED BY <2>1, <5>1
      <4> QED BY <3>2, <3>5, <4>2, <4>3
    <3> HIDE DEF k
    <3>10. Locates(k, new, rs, n + 1)
      BY <3>7, <3>8, <3>9 DEF Locates
    <3>11. Good(n + 1)
      BY <3>4, <3>10 DEF new
    <3> QED BY <2>1, <3>11
  <2> QED BY <2>7, <2>8
<1>8. 0 .. N \subseteq T
  <2> HIDE DEF T, N
  <2> QED BY <1>1, <1>6, <1>7, BoundedInduction
<1>9. N \in 0 .. N
  BY <1>1
<1>10. Good(N)
  BY <1>8, <1>9
<1>11. Running(rs)[N] = Total(rs)
  BY DEF Total
<1>12. Within(among[N], rs)
  BY <1>10 DEF Within, Locates
<1> QED BY <1>2, <1>9, <1>10, <1>11, <1>12

-----------------------------------------------------------------------------
\* One record per id, and the next to expire first.
Ordered(rs) ==
  \A i, j \in DOMAIN rs : i < j => rs[i].id # rs[j].id /\ rs[i].expires <= rs[j].expires

\* Records taken out of an ordered sequence in their order are ordered.
LEMMA WithinOrdered ==
  ASSUME NEW S, NEW rs \in Seq(S), NEW s \in Seq(S), Within(s, rs), Ordered(rs)
  PROVE  Ordered(s)
<1>1. DOMAIN s = 1 .. Len(s) /\ DOMAIN rs = 1 .. Len(rs)
  BY LenProperties
<1>2. PICK h \in [1 .. Len(s) -> 1 .. Len(rs)] :
        /\ \A i \in 1 .. Len(s) : s[i] = rs[h[i]]
        /\ \A i, j \in 1 .. Len(s) : i < j => h[i] < h[j]
  BY DEF Within
<1>3. ASSUME NEW i \in DOMAIN s, NEW j \in DOMAIN s, i < j
      PROVE  s[i].id # s[j].id /\ s[i].expires <= s[j].expires
  <2>1. h[i] \in DOMAIN rs /\ h[j] \in DOMAIN rs /\ h[i] < h[j]
    BY <1>1, <1>2, <1>3
  <2>2. s[i] = rs[h[i]] /\ s[j] = rs[h[j]]
    BY <1>1, <1>2
  <2> QED BY <2>1, <2>2 DEF Ordered
<1> QED BY <1>3 DEF Ordered

\* Dropping the first k records keeps the order.
LEMMA DropOrdered ==
  ASSUME NEW S, \A x \in S : x.bytes \in Nat, NEW rs \in Seq(S), NEW k \in 0 .. Len(rs),
         Ordered(rs)
  PROVE  Ordered(SubSeq(rs, k + 1, Len(rs)))
<1> DEFINE left == SubSeq(rs, k + 1, Len(rs))
<1>1. /\ left \in Seq(S) /\ Len(left) = Len(rs) - k /\ Len(rs) \in Nat
      /\ \A i \in 1 .. Len(rs) - k : left[i] = rs[k + i]
  BY TotalDrop, LenProperties
<1>2. DOMAIN rs = 1 .. Len(rs) /\ DOMAIN left = 1 .. Len(rs) - k
  <2> HIDE DEF left
  <2> QED BY <1>1, LenProperties
<1>3. ASSUME NEW i \in DOMAIN left, NEW j \in DOMAIN left, i < j
      PROVE  left[i].id # left[j].id /\ left[i].expires <= left[j].expires
  <2>1. k + i \in DOMAIN rs /\ k + j \in DOMAIN rs /\ k + i < k + j
    <3>1. i \in 1 .. Len(rs) - k /\ j \in 1 .. Len(rs) - k
      BY <1>2
    <3>2. Len(rs) \in Nat /\ k \in 0 .. Len(rs)
      BY <1>1
    <3>3. k + i \in 1 .. Len(rs) /\ k + j \in 1 .. Len(rs) /\ k + i < k + j
      BY <1>3, <3>1, <3>2
    <3> QED BY <1>2, <3>3
  <2>2. left[i] = rs[k + i] /\ left[j] = rs[k + j]
    BY <1>1, <1>2
  <2> QED BY <2>1, <2>2 DEF Ordered
<1> QED BY <1>3 DEF Ordered

\* remove takes out the only record of its id, and the running total with it.
LEMMA WithoutKeeps ==
  ASSUME NEW S, \A x \in S : x.bytes \in Nat, NEW rs \in Seq(S), Ordered(rs), NEW id
  PROVE  /\ Without(rs, id) \in Seq(S)
         /\ Len(Without(rs, id)) <= Len(rs)
         /\ Freed(rs, id) \in Nat
         /\ Total(Without(rs, id)) = Total(rs) - Freed(rs, id)
         /\ Ordered(Without(rs, id))
         /\ \A i \in DOMAIN Without(rs, id) : Without(rs, id)[i].id # id
<1>1. Len(rs) \in Nat /\ DOMAIN rs = 1 .. Len(rs)
  BY LenProperties
<1>2. Running(rs)[Len(rs)] \in Nat
  <2>1. Len(rs) \in 0 .. Len(rs)
    BY <1>1
  <2> QED BY <2>1, RunningDef
<1>3. CASE Positions(rs, id) = {}
  BY <1>1, <1>2, <1>3 DEF Without, Freed, Positions, Total
<1>4. CASE Positions(rs, id) # {}
  <2> DEFINE k == Min(Positions(rs, id))
             left == RemoveAt(rs, k)
  <2>1. Positions(rs, id) \in SUBSET Nat
    BY <1>1 DEF Positions
  <2>2. \E m \in Positions(rs, id) : \A n \in Positions(rs, id) : m <= n
    BY <1>4, <2>1, LeastNat
  <2>3. k \in Positions(rs, id)
    BY <2>2 DEF Min
  <2>4. k \in 1 .. Len(rs) /\ rs[k].id = id
    BY <1>1, <2>3 DEF Positions
  <2>5. Without(rs, id) = left /\ Freed(rs, id) = rs[k].bytes
    BY <1>4 DEF Without, Freed
  <2> HIDE DEF k
  <2>6. /\ left \in Seq(S) /\ Len(left) = Len(rs) - 1
        /\ \A i \in 1 .. Len(rs) - 1 : left[i] = rs[IF i < k THEN i ELSE i + 1]
        /\ Total(left) = Total(rs) - rs[k].bytes
    BY <2>4, TotalRemoveAt
  <2>7. DOMAIN left = 1 .. Len(rs) - 1
    <3> HIDE DEF left
    <3> QED BY <2>6, LenProperties
  <2> HIDE DEF left
  <2> DEFINE at(i) == IF i < k THEN i ELSE i + 1
  <2>8. \A i \in DOMAIN left : at(i) \in DOMAIN rs /\ at(i) # k /\ left[i] = rs[at(i)]
    BY <1>1, <2>4, <2>6, <2>7
  <2>9. \A i, j \in DOMAIN left : i < j => at(i) < at(j)
    BY <1>1, <2>4, <2>7
  <2>10. Ordered(left)
    <3>1. ASSUME NEW i \in DOMAIN left, NEW j \in DOMAIN left, i < j
          PROVE  left[i].id # left[j].id /\ left[i].expires <= left[j].expires
      <4> HIDE DEF at
      <4> QED BY <2>8, <2>9, <3>1 DEF Ordered
    <3> QED BY <3>1 DEF Ordered
  <2>11. ASSUME NEW i \in DOMAIN left PROVE left[i].id # id
    <3>1. at(i) < k \/ k < at(i)
      BY <1>1, <2>4, <2>7
    <3>2. at(i) \in DOMAIN rs /\ k \in DOMAIN rs /\ left[i] = rs[at(i)]
      BY <1>1, <2>4, <2>8
    <3> HIDE DEF at
    <3> QED BY <2>4, <3>1, <3>2 DEF Ordered
  <2>12. rs[k].bytes \in Nat
    BY <2>4, ElementOfSeq
  <2>13. Len(left) <= Len(rs)
    BY <1>1, <2>6
  <2> QED BY <2>5, <2>6, <2>10, <2>11, <2>12, <2>13
<1> QED BY <1>3, <1>4

\* insert's loop ends, and it stops at the first record from which on the
\* store has room.
LEMMA PopsFirstFit ==
  ASSUME NEW S, \A x \in S : x.bytes \in Nat, NEW rs \in Seq(S), NEW size \in Nat, Accepts(size)
  PROVE  LET pops == Pops(rs, Total(rs), size)
         IN /\ pops \in 0 .. Len(rs)
            /\ Len(rs) - pops < MaxRecords
            /\ Total(rs) - Running(rs)[pops] + size <= MaxBytes
            /\ \A n \in 0 .. Len(rs) : n < pops =>
                 ~(Len(rs) - n < MaxRecords /\ Total(rs) - Running(rs)[n] + size <= MaxBytes)
<1> DEFINE fitting == {n \in 0 .. Len(rs) :
                         /\ Len(rs) - n < MaxRecords
                         /\ Total(rs) - Running(rs)[n] + size <= MaxBytes}
           pops == Min(fitting)
<1>1. Len(rs) \in Nat /\ Len(rs) \in 0 .. Len(rs)
  BY LenProperties
<1>2. Total(rs) \in Nat
  BY <1>1, RunningDef DEF Total
<1>3. Len(rs) \in fitting
  <2>1. Len(rs) - Len(rs) < MaxRecords
    BY <1>1, StoreConstants DEF Accepts
  <2>2. Total(rs) - Running(rs)[Len(rs)] + size <= MaxBytes
    BY <1>2 DEF Total, Accepts
  <2> QED BY <1>1, <2>1, <2>2
<1>4. fitting \in SUBSET Nat
  BY <1>1
<1> HIDE DEF fitting
<1>5. \E m \in fitting : \A n \in fitting : m <= n
  BY <1>3, <1>4, LeastNat
<1>6. pops \in fitting /\ \A n \in fitting : pops <= n
  BY <1>5 DEF Min
<1>7. ASSUME NEW n \in 0 .. Len(rs), n < pops PROVE n \notin fitting
  <2> HIDE DEF pops
  <2>1. pops \in Nat /\ n \in Nat
    BY <1>1, <1>4, <1>6
  <2> QED BY <1>6, <1>7, <2>1
<1>8. Pops(rs, Total(rs), size) = pops
  BY DEF Pops, fitting
<1> HIDE DEF pops
<1> QED BY <1>6, <1>7, <1>8 DEF fitting

-----------------------------------------------------------------------------
\* The inductive invariant: what StoreTypeOK says of the records, as a sequence
\* and with no expiry later than a record stored now would have, and
\* StoreConsistent.
Storable(t) == [id : Ids, messages : Seq(Ids), bytes : Nat, expires : 0 .. (t + TTL)]
StoreInv ==
  /\ now \in 0 .. MaxTime
  /\ records \in Seq(Storable(now))
  /\ StoreConsistent

\* A stored record has a size, as the lemmas on totals ask.
LEMMA StoredBytes == \A t : \A x \in Storable(t) : x.bytes \in Nat
BY DEF Storable

\* What StoreConsistent says of the order is Ordered.
LEMMA ConsistentOrdered ==
  StoreConsistent <=> /\ bytes = Total(records)
                      /\ Len(records) <= MaxRecords /\ bytes <= MaxBytes
                      /\ Ordered(records)
BY DEF StoreConsistent, Ordered

\* The invariant gives the types, for no record expires after the clock's end and
\* a time to live.
LEMMA StoreInvTypes == StoreInv => StoreTypeOK
<1> SUFFICES ASSUME StoreInv PROVE StoreTypeOK
  OBVIOUS
<1>1. records \in Seq(Storable(now)) /\ now \in 0 .. MaxTime
  BY DEF StoreInv
<1>2. Len(records) \in Nat /\ DOMAIN records = 1 .. Len(records)
  BY <1>1, LenProperties
<1>3. bytes \in Nat
  <2>1. Running(records) \in [0 .. Len(records) -> Nat]
    BY <1>1, StoredBytes, RunningDef
  <2>2. Len(records) \in 0 .. Len(records)
    BY <1>2
  <2> QED BY <2>1, <2>2 DEF StoreInv, StoreConsistent, Total
<1>4. ASSUME NEW i \in DOMAIN records
      PROVE  /\ records[i].id \in Ids /\ records[i].bytes \in Nat
             /\ records[i].expires \in 0 .. (MaxTime + TTL)
  <2>1. records[i] \in Storable(now)
    BY <1>1, <1>2, ElementOfSeq
  <2>2. records[i].id \in Ids /\ records[i].bytes \in Nat /\ records[i].expires \in 0 .. (now + TTL)
    BY <2>1 DEF Storable
  <2> QED BY <1>1, <2>2, StoreConstants
<1> QED BY <1>1, <1>3, <1>4 DEF StoreTypeOK

\* What every operation starts with: the records that have not expired.
LEMMA UnexpiredKeeps ==
  ASSUME StoreInv
  PROVE  /\ Unexpired(records) \in Seq(Storable(now))
         /\ Len(Unexpired(records)) <= MaxRecords
         /\ Total(Unexpired(records)) <= MaxBytes
         /\ Ordered(Unexpired(records))
<1> DEFINE live == Unexpired(records)
<1>1. records \in Seq(Storable(now)) /\ Ordered(records)
  BY ConsistentOrdered DEF StoreInv
<1>2. /\ live \in Seq(Storable(now)) /\ Len(live) <= Len(records)
      /\ Total(live) <= Total(records) /\ Within(live, records)
  BY <1>1, StoredBytes, RetainKeeps DEF Unexpired
<1>3. Ordered(live)
  <2> HIDE DEF live
  <2> QED BY <1>1, <1>2, WithinOrdered
<1>4. Len(live) \in Nat /\ Len(records) \in Nat /\ Len(records) <= MaxRecords
  <2> HIDE DEF live
  <2> QED BY <1>1, <1>2, LenProperties DEF StoreInv, StoreConsistent
<1>5. Total(live) \in Nat /\ Total(records) \in Nat /\ Total(records) <= MaxBytes
  <2> HIDE DEF live
  <2>1. Running(live) \in [0 .. Len(live) -> Nat] /\ Running(records) \in [0 .. Len(records) -> Nat]
    BY <1>1, <1>2, StoredBytes, RunningDef
  <2>2. Len(live) \in 0 .. Len(live) /\ Len(records) \in 0 .. Len(records)
    BY <1>4
  <2> QED BY <2>1, <2>2 DEF Total, StoreInv, StoreConsistent
<1> QED BY <1>2, <1>3, <1>4, <1>5, StoreConstants

\* Pruning, as a lookup in the store does, keeps the invariant.
LEMMA PruneStep ==
  ASSUME StoreInv, Prune, UNCHANGED now
  PROVE  StoreInv'
<1>1. /\ records' \in Seq(Storable(now)) /\ Ordered(records')
      /\ bytes' = Total(records') /\ Len(records') <= MaxRecords /\ bytes' <= MaxBytes
  BY UnexpiredKeeps DEF Prune
<1>2. Seq(Storable(now)) = Seq(Storable(now))'
  BY DEF Storable
<1>3. StoreConsistent'
  BY <1>1 DEF StoreConsistent, Ordered, Total, Running
<1> QED BY <1>1, <1>2, <1>3 DEF StoreInv

\* Deleting a response keeps the invariant, whatever has expired meanwhile.
LEMMA RemoveStep ==
  ASSUME StoreInv, NEW id, StoreRemove(id), UNCHANGED now
  PROVE  StoreInv'
<1> DEFINE live == Unexpired(records)
<1>1. /\ live \in Seq(Storable(now)) /\ Ordered(live)
      /\ Len(live) <= MaxRecords /\ Total(live) <= MaxBytes
  BY UnexpiredKeeps
<1>2. /\ records' = Without(live, id)
      /\ bytes' = Total(live) - Freed(live, id)
  BY DEF StoreRemove
<1> HIDE DEF live
<1>3. /\ records' \in Seq(Storable(now)) /\ Len(records') <= Len(live)
      /\ Freed(live, id) \in Nat /\ bytes' = Total(records') /\ Ordered(records')
  BY <1>1, <1>2, StoredBytes, WithoutKeeps
<1>4. Len(live) \in Nat /\ Len(records') \in Nat
  BY <1>1, <1>3, LenProperties
<1>5. Total(live) \in Nat
  <2>1. Running(live) \in [0 .. Len(live) -> Nat]
    BY <1>1, StoredBytes, RunningDef
  <2>2. Len(live) \in 0 .. Len(live)
    BY <1>4
  <2> QED BY <2>1, <2>2 DEF Total
<1>6. Len(records') <= MaxRecords /\ bytes' <= MaxBytes
  BY <1>1, <1>2, <1>3, <1>4, <1>5, StoreConstants
<1>7. StoreConsistent'
  BY <1>3, <1>6 DEF StoreConsistent, Ordered, Total, Running
<1>8. Seq(Storable(now)) = Seq(Storable(now))'
  BY DEF Storable
<1> QED BY <1>3, <1>7, <1>8 DEF StoreInv

\* Time that passes keeps the invariant.
LEMMA TickStep ==
  ASSUME StoreInv, Tick, UNCHANGED <<records, bytes>>
  PROVE  StoreInv'
<1>1. now' \in 0 .. MaxTime /\ now' = now + 1 /\ now \in Nat
  BY StoreConstants DEF StoreInv, Tick
<1>2. Storable(now) \subseteq Storable(now + 1)
  <2>1. 0 .. (now + TTL) \subseteq 0 .. ((now + 1) + TTL)
    BY <1>1, StoreConstants
  <2> QED BY <2>1 DEF Storable
<1>3. records \in Seq(Storable(now + 1))
  BY <1>2, SeqMonotonic DEF StoreInv
<1>4. Seq(Storable(now + 1)) = Seq(Storable(now))'
  BY <1>1 DEF Storable
<1>5. StoreConsistent'
  BY DEF StoreInv, StoreConsistent, Total, Running
<1> QED BY <1>1, <1>3, <1>4, <1>5 DEF StoreInv

\* What insert leaves of the store, before it appends: the records that live, but
\* for the one it replaces, from the first on that leaves room.
LEMMA InsertMakesRoom ==
  ASSUME StoreInv, NEW id, NEW size \in Nat, Accepts(size)
  PROVE  LET live == Unexpired(records)
             rest == Without(live, id)
             held == Total(live) - Freed(live, id)
             pops == Pops(rest, held, size)
             left == SubSeq(rest, pops + 1, Len(rest))
         IN /\ rest \in Seq(Storable(now)) /\ held = Total(rest)
            /\ pops \in 0 .. Len(rest)
            /\ left \in Seq(Storable(now)) /\ Ordered(left)
            /\ Len(left) = Len(rest) - pops /\ Len(left) < MaxRecords
            /\ Total(left) = held - Running(rest)[pops]
            /\ Total(left) + size <= MaxBytes
            /\ \A i \in DOMAIN left : left[i].id # id
            /\ \A n \in 0 .. Len(rest) : n < pops =>
                 ~Fits(SubSeq(rest, n + 1, Len(rest)), size)
<1> DEFINE live == Unexpired(records)
           rest == Without(live, id)
           held == Total(live) - Freed(live, id)
           pops == Pops(rest, held, size)
           left == SubSeq(rest, pops + 1, Len(rest))
<1>1. live \in Seq(Storable(now)) /\ Ordered(live)
  BY UnexpiredKeeps
<1>2. /\ rest \in Seq(Storable(now)) /\ held = Total(rest) /\ Ordered(rest)
      /\ \A i \in DOMAIN rest : rest[i].id # id
  <2> HIDE DEF live
  <2> QED BY <1>1, StoredBytes, WithoutKeeps
<1> HIDE DEF rest, held
<1>3. /\ pops \in 0 .. Len(rest)
      /\ Len(rest) - pops < MaxRecords
      /\ held - Running(rest)[pops] + size <= MaxBytes
      /\ \A n \in 0 .. Len(rest) : n < pops =>
           ~(Len(rest) - n < MaxRecords /\ held - Running(rest)[n] + size <= MaxBytes)
  BY <1>2, StoredBytes, PopsFirstFit
<1> HIDE DEF pops
<1>4. \A n \in 0 .. Len(rest) :
        /\ SubSeq(rest, n + 1, Len(rest)) \in Seq(Storable(now))
        /\ Len(SubSeq(rest, n + 1, Len(rest))) = Len(rest) - n
        /\ \A i \in 1 .. Len(rest) - n : SubSeq(rest, n + 1, Len(rest))[i] = rest[n + i]
        /\ Total(SubSeq(rest, n + 1, Len(rest))) = held - Running(rest)[n]
  BY <1>2, StoredBytes, TotalDrop
<1>5. Ordered(left)
  BY <1>2, <1>3, StoredBytes, DropOrdered
<1>6. \A n \in 0 .. Len(rest) : n < pops => ~Fits(SubSeq(rest, n + 1, Len(rest)), size)
  BY <1>3, <1>4 DEF Fits
<1>7. /\ left \in Seq(Storable(now)) /\ Len(left) = Len(rest) - pops
      /\ \A i \in 1 .. Len(rest) - pops : left[i] = rest[pops + i]
      /\ Total(left) = held - Running(rest)[pops]
  BY <1>3, <1>4
<1>8. \A i \in DOMAIN left : left[i].id # id
  <2>1. DOMAIN left = 1 .. Len(rest) - pops /\ DOMAIN rest = 1 .. Len(rest) /\ Len(rest) \in Nat
    <3> HIDE DEF left
    <3> QED BY <1>2, <1>7, LenProperties
  <2>2. \A i \in 1 .. Len(rest) - pops : pops + i \in 1 .. Len(rest)
    BY <1>3, <2>1
  <2> HIDE DEF left
  <2> QED BY <1>2, <1>7, <2>1, <2>2
<1>9. Len(left) < MaxRecords /\ Total(left) + size <= MaxBytes
  BY <1>3, <1>7
<1> HIDE DEF left
<1> QED BY <1>2, <1>3, <1>5, <1>6, <1>7, <1>8, <1>9 DEF live, rest, held, pops, left

\* An insertion that is accepted keeps the invariant, for any size.
LEMMA InsertStep ==
  ASSUME StoreInv, NEW id \in Ids, NEW m \in Seq(Ids), NEW size \in Nat,
         StoreInsert(id, m, size), UNCHANGED now
  PROVE  StoreInv'
<1> DEFINE live == Unexpired(records)
           rest == Without(live, id)
           held == Total(live) - Freed(live, id)
           pops == Pops(rest, held, size)
           left == SubSeq(rest, pops + 1, Len(rest))
           rec == [id |-> id, messages |-> m, bytes |-> size, expires |-> now + TTL]
<1>1. /\ records' = Append(left, rec)
      /\ bytes' = held - Running(rest)[pops] + size
      /\ Accepts(size)
  BY DEF StoreInsert
<1>2. /\ left \in Seq(Storable(now)) /\ Ordered(left) /\ Len(left) < MaxRecords
      /\ bytes' = Total(left) + size /\ bytes' <= MaxBytes
      /\ \A i \in DOMAIN left : left[i].id # id
  BY <1>1, InsertMakesRoom
<1> HIDE DEF left
<1>3. now \in Nat /\ now + TTL \in 0 .. (now + TTL)
  BY StoreConstants DEF StoreInv
<1>4. rec \in Storable(now)
  BY <1>3 DEF Storable
<1>5. rec.id = id /\ rec.bytes = size /\ rec.expires = now + TTL
  OBVIOUS
<1> HIDE DEF rec
<1>6. /\ records' \in Seq(Storable(now)) /\ Len(records') = Len(left) + 1
      /\ \A i \in 1 .. Len(left) : records'[i] = left[i]
      /\ records'[Len(left) + 1] = rec
      /\ Len(left) \in Nat /\ DOMAIN left = 1 .. Len(left)
  BY <1>1, <1>2, <1>4, AppendProperties, LenProperties
<1>7. Total(records') = Total(left) + size
  BY <1>1, <1>2, <1>4, <1>5, StoredBytes, TotalAppend
<1>8. DOMAIN records' = 1 .. Len(left) + 1
  BY <1>6, LenProperties
<1>9. \A i \in 1 .. Len(left) : left[i].expires \in 0 .. (now + TTL)
  <2>1. TAKE i \in 1 .. Len(left)
  <2>2. left[i] \in Storable(now)
    BY <1>2, ElementOfSeq
  <2> QED BY <2>2 DEF Storable
<1>10. Ordered(records')
  <2>1. SUFFICES ASSUME NEW i \in 1 .. Len(left) + 1, NEW j \in 1 .. Len(left) + 1, i < j
                 PROVE  records'[i].id # records'[j].id /\ records'[i].expires <= records'[j].expires
    BY <1>8 DEF Ordered
  <2>2. i \in 1 .. Len(left) /\ records'[i] = left[i]
    <3>1. i \in 1 .. Len(left)
      BY <1>6, <2>1
    <3> QED BY <1>6, <3>1
  <2>3. CASE j = Len(left) + 1
    <3>1. records'[j] = rec
      BY <1>6, <2>3
    <3>2. left[i].expires <= now + TTL
      BY <1>3, <1>9, <2>2, StoreConstants
    <3>3. left[i].id # id
      BY <1>2, <1>6, <2>2
    <3> QED BY <1>5, <2>2, <3>1, <3>2, <3>3
  <2>4. CASE j # Len(left) + 1
    <3>1. j \in 1 .. Len(left) /\ records'[j] = left[j]
      <4>1. j \in 1 .. Len(left)
        BY <1>6, <2>4
      <4> QED BY <1>6, <4>1
    <3> QED BY <1>2, <1>6, <2>1, <2>2, <3>1 DEF Ordered
  <2> QED BY <2>3, <2>4
<1>11. Len(records') <= MaxRecords
  BY <1>2, <1>6, StoreConstants
<1>12. StoreConsistent'
  BY <1>2, <1>7, <1>10, <1>11 DEF StoreConsistent, Ordered, Total, Running
<1>13. Seq(Storable(now)) = Seq(Storable(now))'
  BY DEF Storable
<1> QED BY <1>6, <1>12, <1>13 DEF StoreInv

\* The empty store satisfies it.
LEMMA StoreInvInit == StoreInit => StoreInv
<1> SUFFICES ASSUME StoreInit PROVE StoreInv
  OBVIOUS
<1>1. records = <<>> /\ bytes = 0 /\ now = 0
  BY DEF StoreInit
<1>2. <<>> \in Seq(Storable(now)) /\ Len(<<>>) = 0 /\ DOMAIN <<>> = 1 .. 0
  BY EmptySeq, LenProperties
<1>3. Total(<<>>) = 0
  BY <1>2, StoredBytes, RunningDef DEF Total
<1>4. Ordered(<<>>)
  BY <1>2 DEF Ordered
<1>5. StoreConsistent
  BY <1>1, <1>2, <1>3, <1>4, ConsistentOrdered, StoreConstants
<1> QED BY <1>1, <1>2, <1>5, StoreConstants DEF StoreInv

\* Every step of the store keeps it.
LEMMA StoreInvStep == StoreInv /\ [StoreNext]_storeVars => StoreInv'
<1> SUFFICES ASSUME StoreInv, [StoreNext]_storeVars PROVE StoreInv'
  OBVIOUS
<1>1. CASE \E id \in Ids, size \in Sizes : InsertResponse(id, size)
  <2>1. PICK id \in Ids, size \in Sizes : InsertResponse(id, size)
    BY <1>1
  <2>2. <<id>> \in Seq(Ids) /\ size \in Nat
    BY StoreConstants
  <2> QED BY <2>1, <2>2, InsertStep DEF InsertResponse
<1>2. CASE \E id \in Ids : GetResponse(id) \/ DeleteResponse(id)
  BY <1>2, PruneStep, RemoveStep DEF GetResponse, DeleteResponse
<1>3. CASE Tick /\ UNCHANGED <<records, bytes>>
  BY <1>3, TickStep
<1>4. CASE UNCHANGED storeVars
  BY <1>4 DEF storeVars, StoreInv, StoreConsistent, Storable, Total, Running
<1> QED BY <1>1, <1>2, <1>3, <1>4 DEF StoreNext, RefuseResponse

\* The invariant holds of every store, of any bounds, time to live and sizes.
THEOREM StoreInvariant == StoreSpec => []StoreInv
<1> QED BY StoreInvInit, StoreInvStep, PTL DEF StoreSpec

\* The running total that eviction decides on is the true one, the store is
\* within both bounds, and it holds one record per id, the next to expire first.
THEOREM StoreIsConsistent == StoreSpec => []StoreConsistent
<1>1. StoreInv => StoreConsistent
  BY DEF StoreInv
<1> QED BY <1>1, StoreInvariant, PTL

\* Every record has an id, a size and an expiry the clock can still reach.
THEOREM StoreTypes == StoreSpec => []StoreTypeOK
<1> QED BY StoreInvTypes, StoreInvariant, PTL

\* The step of EvictsOnlyWhatItMust: what insertion leaves is a suffix of the
\* records that live, and with one record more the new one would not fit.
LEMMA InsertEvicts ==
  ASSUME StoreInv, NEW id \in Ids, NEW size \in Sizes, InsertResponse(id, size)
  PROVE  LET live == Without(Unexpired(records), id)
             left == Front(records')
         IN /\ IsSuffix(left, live)
            /\ left # live => ~Fits(SubSeq(live, Len(live) - Len(left), Len(live)), size)
<1> DEFINE rest == Without(Unexpired(records), id)
           held == Total(Unexpired(records)) - Freed(Unexpired(records), id)
           pops == Pops(rest, held, size)
           left == SubSeq(rest, pops + 1, Len(rest))
           rec == [id |-> id, messages |-> <<id>>, bytes |-> size, expires |-> now + TTL]
<1>1. /\ records' = Append(left, rec) /\ Accepts(size) /\ size \in Nat
  BY StoreConstants DEF InsertResponse, StoreInsert
<1>2. /\ rest \in Seq(Storable(now)) /\ pops \in 0 .. Len(rest)
      /\ left \in Seq(Storable(now)) /\ Len(left) = Len(rest) - pops
      /\ \A n \in 0 .. Len(rest) : n < pops => ~Fits(SubSeq(rest, n + 1, Len(rest)), size)
  BY <1>1, InsertMakesRoom
<1>3. \A i \in 1 .. Len(rest) - pops : left[i] = rest[pops + i]
  <2> HIDE DEF rest, pops
  <2> QED BY <1>2, StoredBytes, TotalDrop
<1>4. Len(rest) \in Nat /\ Len(left) \in Nat
  <2> HIDE DEF rest, left
  <2> QED BY <1>2, LenProperties
<1>5. rec \in Storable(now)
  <2>1. now \in Nat /\ now + TTL \in 0 .. (now + TTL) /\ <<id>> \in Seq(Ids)
    BY StoreConstants DEF StoreInv
  <2> QED BY <1>1, <2>1 DEF Storable
<1> HIDE DEF rest, pops, left, rec
<1>6. Front(records') = left
  <2>1. /\ records' \in Seq(Storable(now)) /\ Len(records') = Len(left) + 1
        /\ \A i \in 1 .. Len(left) : records'[i] = left[i]
    BY <1>1, <1>2, <1>5, AppendProperties
  <2>2. Len(records') - 1 = Len(left)
    BY <1>4, <2>1
  <2>3. \A i \in 1 .. Len(left) : records'[i] \in Storable(now)
    BY <1>2, <2>1, ElementOfSeq
  <2> DEFINE front == SubSeq(records', 1, Len(left))
  <2>4. /\ front \in Seq(Storable(now))
        /\ Len(front) = IF 1 <= Len(left) THEN Len(left) - 1 + 1 ELSE 0
        /\ \A i \in 1 .. Len(left) - 1 + 1 : front[i] = records'[1 + i - 1]
    BY <1>4, <2>3, SubSeqProperties
  <2>5. Len(front) = Len(left)
    BY <1>4, <2>4
  <2>6. ASSUME NEW i \in 1 .. Len(front) PROVE front[i] = left[i]
    <3>1. i \in 1 .. Len(left) - 1 + 1 /\ 1 + i - 1 = i /\ i \in 1 .. Len(left)
      BY <1>4, <2>5
    <3> QED BY <2>1, <2>4, <3>1
  <2> HIDE DEF front
  <2>7. front = left
    BY <1>2, <2>4, <2>5, <2>6, SeqEqual
  <2> QED BY <2>2, <2>7 DEF Front, front
<1>7. IsSuffix(left, rest)
  <2> DEFINE L == Reverse(left)
             R == Reverse(rest)
             n == Len(left)
  <2>1. /\ L \in Seq(Storable(now)) /\ Len(L) = n /\ \A i \in 1 .. n : L[i] = left[n - i + 1]
    <3>1. \A i \in 1 .. n : left[n - i + 1] \in Storable(now)
      <4>1. \A i \in 1 .. n : n - i + 1 \in 1 .. n
        BY <1>4
      <4> QED BY <1>2, <4>1, ElementOfSeq
    <3>2. L = [i \in 1 .. n |-> left[n - i + 1]]
      BY DEF Reverse
    <3> QED BY <1>4, <3>1, <3>2
  <2>2. /\ R \in Seq(Storable(now)) /\ Len(R) = Len(rest)
        /\ \A i \in 1 .. Len(rest) : R[i] = rest[Len(rest) - i + 1]
    <3>1. \A i \in 1 .. Len(rest) : rest[Len(rest) - i + 1] \in Storable(now)
      <4>1. \A i \in 1 .. Len(rest) : Len(rest) - i + 1 \in 1 .. Len(rest)
        BY <1>4
      <4> QED BY <1>2, <4>1, ElementOfSeq
    <3>2. R = [i \in 1 .. Len(rest) |-> rest[Len(rest) - i + 1]]
      BY DEF Reverse
    <3> QED BY <1>4, <3>1, <3>2
  <2>3. n <= Len(rest) /\ n \in Nat
    BY <1>2, <1>4
  <2> HIDE DEF L, R
  <2>4. \A i \in 1 .. n : L[i] = R[i] /\ L[i] \in Storable(now) /\ R[i] \in Storable(now)
    <3>1. TAKE i \in 1 .. n
    <3>2. /\ n - i + 1 \in 1 .. Len(rest) - pops /\ pops + (n - i + 1) = Len(rest) - i + 1
          /\ i \in 1 .. Len(rest)
      BY <1>2, <1>4, <2>3
    <3>3. L[i] = R[i]
      BY <1>3, <2>1, <2>2, <3>2
    <3> QED BY <2>1, <3>3, ElementOfSeq
  <2> DEFINE LL == SubSeq(L, 1, n)
             RR == SubSeq(R, 1, n)
  <2>5. /\ LL \in Seq(Storable(now)) /\ Len(LL) = (IF 1 <= n THEN n - 1 + 1 ELSE 0)
        /\ \A i \in 1 .. n - 1 + 1 : LL[i] = L[1 + i - 1]
    BY <2>3, <2>4, SubSeqProperties
  <2>6. /\ RR \in Seq(Storable(now)) /\ Len(RR) = (IF 1 <= n THEN n - 1 + 1 ELSE 0)
        /\ \A i \in 1 .. n - 1 + 1 : RR[i] = R[1 + i - 1]
    BY <2>3, <2>4, SubSeqProperties
  <2>7. ASSUME NEW i \in 1 .. Len(LL) PROVE LL[i] = RR[i]
    <3>1. i \in 1 .. n /\ i \in 1 .. n - 1 + 1 /\ 1 + i - 1 = i
      BY <2>3, <2>5
    <3> QED BY <2>4, <2>5, <2>6, <3>1
  <2> HIDE DEF LL, RR
  <2>8. LL = RR
    BY <2>5, <2>6, <2>7, SeqEqual
  <2>9. SubSeq(L, 1, Len(L)) = SubSeq(R, 1, Len(L)) /\ Len(L) <= Len(R)
    BY <2>1, <2>2, <2>3, <2>8 DEF LL, RR
  <2> QED BY <2>9 DEF IsSuffix, IsPrefix, L, R
<1>8. ASSUME left # rest PROVE ~Fits(SubSeq(rest, Len(rest) - Len(left), Len(rest)), size)
  <2>1. pops # 0
    <3>1. SUFFICES ASSUME pops = 0 PROVE FALSE
      OBVIOUS
    <3>2. left = SubSeq(rest, 1, Len(rest))
      BY <3>1 DEF left
    <3> QED BY <1>2, <1>8, <3>2, SubSeqFull
  <2>2. /\ pops - 1 \in 0 .. Len(rest) /\ pops - 1 < pops
        /\ (pops - 1) + 1 = Len(rest) - Len(left)
    BY <1>2, <1>4, <2>1
  <2> QED BY <1>2, <2>2
<1> QED BY <1>6, <1>7, <1>8 DEF rest

\* No insertion drops a record it does not have to, and none out of age order.
THEOREM EvictsLittle == StoreSpec => EvictsOnlyWhatItMust
<1> DEFINE Must == \A id \in Ids, size \in Sizes : InsertResponse(id, size) =>
             LET live == Without(Unexpired(records), id)
                 left == Front(records')
             IN /\ IsSuffix(left, live)
                /\ left # live => ~Fits(SubSeq(live, Len(live) - Len(left), Len(live)), size)
<1>1. StoreInv /\ [StoreNext]_storeVars => [Must]_storeVars
  BY InsertEvicts
<1>2. EvictsOnlyWhatItMust <=> [][Must]_storeVars
  BY DEF EvictsOnlyWhatItMust
<1> HIDE DEF Must
<1> QED BY <1>1, <1>2, StoreInvariant, PTL DEF StoreSpec
=============================================================================
