----------------------------- MODULE NatRecursion -----------------------------
(***************************************************************************)
(* Induction and recursion over the natural numbers, stated for sets and   *)
(* functions where the library's theorems take operators: sets and         *)
(* functions can be given by an expression where a lemma is cited.         *)
(***************************************************************************)
EXTENDS Integers, WellFoundedInduction, TLAPS

\* Every set of natural numbers that is not empty has a least element.
LEMMA LeastNat ==
  ASSUME NEW T \in SUBSET Nat, T # {}
  PROVE  \E m \in T : \A n \in T : m <= n
<1> DEFINE Below == {ss \in Nat \X Nat : ss[1] < ss[2]}
<1>1. IsWellFoundedOn(Below, Nat)
  BY NatLessThanWellFounded DEF OpToRel
<1>2. ASSUME NEW x \in Nat, NEW y \in Nat, <<y, x>> \notin Below PROVE x <= y
  BY <1>2
<1>. HIDE DEF Below
<1>3. PICK x \in T : \A y \in T : ~(<<y, x>> \in Below)
  BY <1>1, WFMin
<1>4. ASSUME NEW y \in T PROVE x <= y
  <2>1. x \in Nat /\ y \in Nat /\ <<y, x>> \notin Below
    BY <1>3
  <2> QED BY <1>2, <2>1
<1> QED BY <1>4

\* Induction: a set of naturals with 0 and the successor of each of its members
\* has them all.
LEMMA Induction ==
  ASSUME NEW T \in SUBSET Nat, 0 \in T, \A n \in T : n + 1 \in T
  PROVE  T = Nat
<1>1. SUFFICES ASSUME Nat \ T # {} PROVE FALSE
  OBVIOUS
<1>2. PICK m \in Nat \ T : \A n \in Nat \ T : m <= n
  BY <1>1, LeastNat
<1>3. m # 0 /\ m - 1 \in Nat
  BY <1>2
<1>4. m - 1 \in T
  BY <1>2, <1>3
<1>5. (m - 1) + 1 = m
  OBVIOUS
<1> QED BY <1>2, <1>4, <1>5

\* Induction up to a bound.
LEMMA BoundedInduction ==
  ASSUME NEW N \in Nat, NEW T, 0 \in T, \A n \in T : n \in 0 .. N - 1 => n + 1 \in T
  PROVE  0 .. N \subseteq T
<1> DEFINE U == {n \in Nat : n <= N => n \in T}
<1>1. 0 \in U
  OBVIOUS
<1>2. ASSUME NEW n \in U PROVE n + 1 \in U
  <2>1. SUFFICES ASSUME n + 1 <= N PROVE n + 1 \in T
    OBVIOUS
  <2>2. n \in T /\ n \in 0 .. N - 1
    BY <2>1
  <2> QED BY <2>2
<1>3. U = Nat
  <2>1. U \in SUBSET Nat
    OBVIOUS
  <2> HIDE DEF U
  <2> QED BY <1>1, <1>2, <2>1, Induction
<1> QED BY <1>3

\* f starts from base, and each value is its step of the one before.
Iterates(f, base, N, step) == f[0] = base /\ \A n \in 1 .. N : f[n] = step[n][f[n - 1]]

\* Primitive recursion: a base and a step for every index determine a function
\* on 0 .. N.
LEMMA Recursion ==
  ASSUME NEW A, NEW base \in A, NEW N \in Nat, NEW step \in [1 .. N -> [A -> A]]
  PROVE  \E f \in [0 .. N -> A] : Iterates(f, base, N, step)
<1> DEFINE T == {k \in 0 .. N : \E f \in [0 .. k -> A] : Iterates(f, base, k, step)}
<1>1. 0 \in T
  <2> DEFINE f == [n \in 0 .. 0 |-> base]
  <2>1. f \in [0 .. 0 -> A] /\ f[0] = base
    OBVIOUS
  <2>2. Iterates(f, base, 0, step)
    BY <2>1 DEF Iterates
  <2> HIDE DEF f
  <2>3. \E h \in [0 .. 0 -> A] : Iterates(h, base, 0, step)
    BY <2>1, <2>2
  <2> QED BY <2>3
<1>2. ASSUME NEW k \in T, k \in 0 .. N - 1 PROVE k + 1 \in T
  <2>1. PICK f \in [0 .. k -> A] : Iterates(f, base, k, step)
    OBVIOUS
  <2> DEFINE g == [n \in 0 .. (k + 1) |-> IF n = k + 1 THEN step[k + 1][f[k]] ELSE f[n]]
  <2>2. k + 1 \in 1 .. N /\ k + 1 \in 0 .. N /\ k \in 0 .. k
    BY <1>2
  <2>3. f[k] \in A /\ step[k + 1] \in [A -> A]
    BY <2>2
  <2>4. step[k + 1][f[k]] \in A
    BY <2>3
  <2>5. ASSUME NEW n \in 0 .. (k + 1), n # k + 1 PROVE f[n] \in A
    <3>1. n \in 0 .. k
      BY <1>2, <2>5
    <3> QED BY <3>1
  <2>6. g \in [0 .. (k + 1) -> A]
    BY <2>4, <2>5
  <2>7. g[0] = base
    BY <1>2, <2>1 DEF Iterates
  <2>8. ASSUME NEW n \in 1 .. (k + 1) PROVE g[n] = step[n][g[n - 1]]
    <3>1. CASE n = k + 1
      <4>1. n - 1 = k /\ k \in 0 .. (k + 1) /\ k # k + 1 /\ n \in 0 .. (k + 1)
        BY <1>2, <3>1
      <4>2. g[n] = step[k + 1][f[k]] /\ g[k] = f[k]
        BY <3>1, <4>1
      <4> QED BY <3>1, <4>1, <4>2
    <3>2. CASE n # k + 1
      <4>1. n \in 1 .. k /\ n - 1 \in 0 .. (k + 1) /\ n - 1 # k + 1 /\ n \in 0 .. (k + 1)
        BY <1>2, <3>2
      <4>2. g[n] = f[n] /\ g[n - 1] = f[n - 1]
        BY <3>2, <4>1
      <4> QED BY <2>1, <4>1, <4>2 DEF Iterates
    <3> QED BY <3>1, <3>2
  <2>9. Iterates(g, base, k + 1, step)
    BY <2>7, <2>8 DEF Iterates
  <2> HIDE DEF g
  <2>10. \E h \in [0 .. (k + 1) -> A] : Iterates(h, base, k + 1, step)
    BY <2>6, <2>9
  <2> QED BY <2>2, <2>10
<1>3. 0 .. N \subseteq T
  <2> HIDE DEF T
  <2> QED BY <1>1, <1>2, BoundedInduction
<1>4. N \in T
  BY <1>3
<1> QED BY <1>4

\* What holds at 0 and goes from each index to the next holds of all.
LEMMA AllValues ==
  ASSUME NEW A, NEW N \in Nat, NEW f, f[0] \in A,
         \A n \in 1 .. N : f[n - 1] \in A => f[n] \in A
  PROVE  \A n \in 0 .. N : f[n] \in A
<1> DEFINE T == {n \in 0 .. N : f[n] \in A}
<1>1. 0 \in T
  OBVIOUS
<1>2. ASSUME NEW n \in T, n \in 0 .. N - 1 PROVE n + 1 \in T
  <2>1. n + 1 \in 1 .. N /\ n + 1 \in 0 .. N /\ (n + 1) - 1 = n
    BY <1>2
  <2> QED BY <2>1
<1>3. 0 .. N \subseteq T
  <2> HIDE DEF T
  <2> QED BY <1>1, <1>2, BoundedInduction
<1> QED BY <1>3
=============================================================================
