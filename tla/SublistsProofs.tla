---------------------------- MODULE SublistsProofs ----------------------------
(***************************************************************************)
(* What the operators on sequences return.  Their recursion is followed    *)
(* from left to right: that it defines something, and what holds of every  *)
(* step of it, is shown by induction over a set of numbers.                *)
(***************************************************************************)
EXTENDS Sublists, SequencesExt, FiniteSetsExt, FiniteSetTheorems, WellFoundedInduction, TLAPS

(***************************************************************************)
(* Numbers                                                                 *)
(***************************************************************************)
\* A non-empty set of numbers has a least one.
LEMMA LeastNumber == ASSUME NEW T \in SUBSET Nat, T # {} PROVE \E n \in T : \A m \in T : n <= m
  <1> DEFINE R == OpToRel(<, Nat)
  <1>1. IsWellFoundedOn(R, Nat)
    BY NatLessThanWellFounded
  <1>2. \E x \in T : \A y \in T : ~(<<y, x>> \in R)
    BY <1>1, WFMin
  <1>3. \E x \in T : \A y \in T : ~(y < x)
    BY <1>2 DEF OpToRel
  <1> QED BY <1>3

\* Induction, over a set.
LEMMA NumberSet == ASSUME NEW T \in SUBSET Nat, 0 \in T, \A n \in T : n + 1 \in T PROVE T = Nat
  <1>1. SUFFICES ASSUME Nat \ T # {} PROVE FALSE
    OBVIOUS
  <1>2. PICK n \in Nat \ T : \A m \in Nat \ T : n <= m
    BY <1>1, LeastNumber
  <1>3. n - 1 \in Nat /\ n - 1 < n /\ n = (n-1) + 1
    BY <1>2
  <1> QED BY <1>2, <1>3

\* Recursion: a first value and a step give a function.
Recurs(f, A, a, step) ==
    f \in [Nat -> A] /\ f[0] = a /\ \A n \in Nat : f[n + 1] = step[n][f[n]]

\* A function is determined by its first value and its steps.
LEMMA NumberRecursion ==
    ASSUME NEW A, NEW a \in A, NEW step \in [Nat -> [A -> A]]
    PROVE  \E f : Recurs(f, A, a, step)
  <1> DEFINE Good(n, g) == /\ g \in [0 .. n -> A] /\ g[0] = a
                           /\ \A i \in 0 .. n : i # n => g[i + 1] = step[i][g[i]]
  <1>1. \A n \in Nat : \E g : Good(n, g)
    <2> DEFINE T == {n \in Nat : \E g : Good(n, g)}
    <2>1. 0 \in T
      <3>1. Good(0, [i \in 0 .. 0 |-> a])
        OBVIOUS
      <3> QED BY <3>1
    <2>2. ASSUME NEW n \in T PROVE n + 1 \in T
      <3>1. PICK g : Good(n, g)
        BY <2>2
      <3> DEFINE h == [i \in 0 .. n + 1 |-> IF i = n + 1 THEN step[n][g[n]] ELSE g[i]]
      <3>2. h \in [0 .. n + 1 -> A] /\ h[0] = a
        BY <3>1
      <3>3. ASSUME NEW i \in 0 .. n + 1, i # n + 1 PROVE h[i + 1] = step[i][h[i]]
        <4>1. CASE i = n
          BY <4>1, <3>1
        <4>2. CASE i # n
          BY <4>2, <3>3, <3>1
        <4> QED BY <4>1, <4>2
      <3>4. Good(n + 1, h)
        BY <3>2, <3>3
      <3>5. n + 1 \in Nat
        OBVIOUS
      <3> HIDE DEF Good, h
      <3> QED BY <3>4, <3>5
    <2>3. T = Nat
      <3> HIDE DEF T
      <3>1. T \in SUBSET Nat BY DEF T
      <3> QED BY <2>1, <2>2, <3>1, NumberSet
    <2> QED BY <2>3
  <1>2. ASSUME NEW n \in Nat, NEW k \in Nat, NEW g, NEW h, Good(n, g), Good(k, h), NEW i \in 0 .. n, i <= k
        PROVE g[i] = h[i]
    <2> DEFINE T == {j \in 0 .. n : j <= k /\ g[j] # h[j]}
    <2>1. SUFFICES ASSUME T # {} PROVE FALSE
      BY <1>2
    <2>2. PICK j \in T : \A m \in T : j <= m
      <3> T \in SUBSET Nat OBVIOUS
      <3> HIDE DEF T
      <3> QED BY <2>1, LeastNumber
    <2>3. j # 0
      BY <1>2, <2>2
    <2>4. j - 1 \in 0 .. n /\ j - 1 <= k /\ j - 1 \notin T /\ j - 1 # n /\ j - 1 \in 0 .. k /\ j - 1 # k /\ j = (j - 1) + 1
      BY <2>2, <2>3
    <2>5. g[j - 1] = h[j - 1]
      BY <2>4
    <2> QED BY <1>2, <2>2, <2>4, <2>5
  <1> DEFINE G == [n \in Nat |-> CHOOSE g : Good(n, g)]
             f == [n \in Nat |-> G[n][n]]
  <1>3. ASSUME NEW n \in Nat PROVE Good(n, G[n])
    BY <1>1
  <1> HIDE DEF G
  <1>4. f \in [Nat -> A] /\ f[0] = a
    <2>1. ASSUME NEW n \in Nat PROVE G[n][n] \in A
      BY <1>3
    <2> QED BY <2>1, <1>3
  <1>5. ASSUME NEW n \in Nat PROVE f[n + 1] = step[n][f[n]]
    <2>1. G[n + 1][n + 1] = step[n][G[n + 1][n]]
      BY <1>3
    <2>2. G[n + 1][n] = G[n][n]
      <3>1. n + 1 \in Nat /\ n \in 0 .. n + 1 /\ n \in 0 .. n /\ n <= n /\ n <= n + 1
        OBVIOUS
      <3> HIDE DEF Good
      <3>2. Good(n + 1, G[n + 1]) /\ Good(n, G[n])
        BY <1>3, <3>1
      <3> QED BY <1>2, <3>1, <3>2
    <2> QED BY <2>1, <2>2
  <1>6. Recurs(f, A, a, step)
    BY <1>4, <1>5 DEF Recurs
  <1> QED BY <1>6

(***************************************************************************)
(* Sequences taken apart by their positions                                *)
(***************************************************************************)
\* The recursion of At and of Flatten, up to a number.
Climbs(f, n, A, a, step) ==
    f \in [0 .. n -> A] /\ f[0] = a /\ \A i \in 1 .. n : f[i] = step[i][f[i - 1]]

\* The same up to a bound, as the recursive functions of Sublists are written.
LEMMA UpToRecursion ==
    ASSUME NEW n \in Nat, NEW A, NEW a \in A, NEW step \in [1 .. n -> [A -> A]]
    PROVE  \E f : Climbs(f, n, A, a, step)
  <1> DEFINE next == [i \in Nat |-> IF i + 1 \in 1 .. n THEN step[i + 1] ELSE [x \in A |-> x]]
  <1>1. next \in [Nat -> [A -> A]]
    OBVIOUS
  <1>2. \A i \in 1 .. n : i - 1 \in Nat /\ (i - 1) + 1 = i /\ next[i - 1] = step[i]
    OBVIOUS
  <1> HIDE DEF next
  <1>3. PICK f : Recurs(f, A, a, next)
    BY <1>1, NumberRecursion
  <1> DEFINE g == [i \in 0 .. n |-> f[i]]
  <1>4. g \in [0 .. n -> A] /\ g[0] = a
    BY <1>3 DEF Recurs
  <1>5. ASSUME NEW i \in 1 .. n PROVE g[i] = step[i][g[i - 1]]
    <2>1. f[(i - 1) + 1] = next[i - 1][f[i - 1]]
      BY <1>2, <1>3 DEF Recurs
    <2> QED BY <1>2, <2>1
  <1>6. Climbs(g, n, A, a, step)
    BY <1>4, <1>5 DEF Climbs
  <1> QED BY <1>6

TakenUpTo(f, S, s, I) ==
    /\ f \in [0 .. Len(s) -> Seq(S)] /\ f[0] = <<>> /\ At(s, I) = f[Len(s)]
    /\ \A i \in 1 .. Len(s) : f[i] = IF i \in I THEN Append(f[i - 1], s[i]) ELSE f[i - 1]

\* At takes its sequence from left to right.
LEMMA AtSteps ==
    ASSUME NEW S, NEW s \in Seq(S), NEW I
    PROVE  \E f : TakenUpTo(f, S, s, I)
  <1> DEFINE n == Len(s)
             A == Seq(S)
             step == [i \in 1 .. n |-> [q \in A |-> IF i \in I THEN Append(q, s[i]) ELSE q]]
             Is(f) == f = [i \in 0 .. Len(s) |->
                             IF i = 0 THEN <<>>
                             ELSE IF i \in I THEN Append(f[i - 1], s[i]) ELSE f[i - 1]]
             F == CHOOSE f : Is(f)
  <1>1. n \in Nat /\ <<>> \in A /\ step \in [1 .. n -> [A -> A]]
    OBVIOUS
  <1>2. PICK g \in [0 .. n -> A] : g[0] = <<>> /\ \A i \in 1 .. n : g[i] = step[i][g[i - 1]]
    <2> HIDE DEF A, step, n
    <2>1. \E f : Climbs(f, n, A, <<>>, step)
      BY <1>1, UpToRecursion
    <2> QED BY <2>1 DEF Climbs
  <1>3. ASSUME NEW i \in 1 .. n
        PROVE  g[i] = IF i \in I THEN Append(g[i - 1], s[i]) ELSE g[i - 1]
    <2>1. g[i - 1] \in A
      BY <1>1, <1>2
    <2>2. step[i][g[i - 1]] = IF i \in I THEN Append(g[i - 1], s[i]) ELSE g[i - 1]
      BY <2>1
    <2> QED BY <1>2, <2>2
  <1>4. Is(g)
    <2>1. ASSUME NEW i \in 0 .. n
          PROVE  g[i] = IF i = 0 THEN <<>>
                        ELSE IF i \in I THEN Append(g[i - 1], s[i]) ELSE g[i - 1]
      <3>1. CASE i = 0
        BY <1>2, <3>1
      <3>2. CASE i # 0
        <4>1. i \in 1 .. n BY <1>1, <3>2
        <4> QED BY <1>3, <3>2, <4>1
      <3> QED BY <3>1, <3>2
    <2> QED BY <1>2, <2>1, Zenon
  <1>5. Is(F)
    <2> HIDE DEF Is
    <2> QED BY <1>4
  <1>6. At(s, I) = F[Len(s)]
    BY DEF At
  <1> HIDE DEF F
  <1>7. \A i \in 0 .. n : F[i] = g[i]
    <2> DEFINE T == {i \in Nat : i <= n => F[i] = g[i]}
    <2>1. 0 \in T
      BY <1>1, <1>2, <1>5
    <2>2. ASSUME NEW i \in T PROVE i + 1 \in T
      <3>1. SUFFICES ASSUME i + 1 <= n PROVE F[i + 1] = g[i + 1]
        OBVIOUS
      <3>2. i + 1 \in 1 .. n /\ i + 1 \in 0 .. n /\ i + 1 # 0 /\ (i + 1) - 1 = i /\ i <= n
        BY <1>1, <3>1
      <3>3. F[i] = g[i]
        BY <2>2, <3>2
      <3>4. F[i + 1] = IF i + 1 \in I THEN Append(F[(i + 1) - 1], s[i + 1]) ELSE F[(i + 1) - 1]
        BY <1>5, <3>2
      <3> QED BY <1>3, <3>2, <3>3, <3>4
    <2>3. T = Nat
      <3> HIDE DEF T
      <3>1. T \in SUBSET Nat BY DEF T
      <3> QED BY <2>1, <2>2, <3>1, NumberSet
    <2> QED BY <2>3, <1>1
  <1>8. TakenUpTo(g, S, s, I)
    BY <1>1, <1>2, <1>3, <1>6, <1>7 DEF TakenUpTo
  <1> QED BY <1>8

JoinedUpTo(f, S, s) ==
    /\ f \in [0 .. Len(s) -> Seq(S)] /\ f[0] = <<>> /\ Flatten(s) = f[Len(s)]
    /\ \A i \in 1 .. Len(s) : f[i] = f[i - 1] \o s[i]

\* Flatten appends the parts from left to right.
LEMMA FlattenSteps ==
    ASSUME NEW S, NEW s \in Seq(Seq(S))
    PROVE  \E f : JoinedUpTo(f, S, s)
  <1> DEFINE n == Len(s)
             A == Seq(S)
             step == [i \in 1 .. n |-> [q \in A |-> q \o s[i]]]
             Is(f) == f = [i \in 0 .. Len(s) |->
                             IF i = 0 THEN <<>>
                             ELSE f[i - 1] \o s[i]]
             F == CHOOSE f : Is(f)
  <1>1. n \in Nat /\ <<>> \in A /\ step \in [1 .. n -> [A -> A]]
    OBVIOUS
  <1>2. PICK g \in [0 .. n -> A] : g[0] = <<>> /\ \A i \in 1 .. n : g[i] = step[i][g[i - 1]]
    <2> HIDE DEF A, step, n
    <2>1. \E f : Climbs(f, n, A, <<>>, step)
      BY <1>1, UpToRecursion
    <2> QED BY <2>1 DEF Climbs
  <1>3. ASSUME NEW i \in 1 .. n
        PROVE  g[i] = g[i - 1] \o s[i]
    <2>1. g[i - 1] \in A
      <3> HIDE DEF A, n
      <3> QED BY <1>1, <1>2
    <2>2. step[i][g[i - 1]] = g[i - 1] \o s[i]
      BY <2>1
    <2> QED BY <1>2, <2>2
  <1>4. Is(g)
    <2>1. ASSUME NEW i \in 0 .. n
          PROVE  g[i] = IF i = 0 THEN <<>>
                        ELSE g[i - 1] \o s[i]
      <3>1. CASE i = 0
        BY <1>2, <3>1
      <3>2. CASE i # 0
        <4>1. i \in 1 .. n BY <1>1, <3>2
        <4> QED BY <1>3, <3>2, <4>1
      <3> QED BY <3>1, <3>2
    <2> QED BY <1>2, <2>1, Zenon
  <1>5. Is(F)
    <2> HIDE DEF Is
    <2> QED BY <1>4
  <1>6. Flatten(s) = F[Len(s)]
    BY DEF Flatten
  <1> HIDE DEF F
  <1>7. \A i \in 0 .. n : F[i] = g[i]
    <2> DEFINE T == {i \in Nat : i <= n => F[i] = g[i]}
    <2>1. 0 \in T
      BY <1>1, <1>2, <1>5
    <2>2. ASSUME NEW i \in T PROVE i + 1 \in T
      <3>1. SUFFICES ASSUME i + 1 <= n PROVE F[i + 1] = g[i + 1]
        OBVIOUS
      <3>2. i + 1 \in 1 .. n /\ i + 1 \in 0 .. n /\ i + 1 # 0 /\ (i + 1) - 1 = i /\ i <= n
        BY <1>1, <3>1
      <3>3. F[i] = g[i]
        BY <2>2, <3>2
      <3>4. F[i + 1] = F[(i + 1) - 1] \o s[i + 1]
        BY <1>5, <3>2
      <3> QED BY <1>3, <3>2, <3>3, <3>4
    <2>3. T = Nat
      <3> HIDE DEF T
      <3>1. T \in SUBSET Nat BY DEF T
      <3> QED BY <2>1, <2>2, <3>1, NumberSet
    <2> HIDE DEF n
    <2>4. \A i \in 0 .. n : i \in Nat /\ i <= n
      BY <1>1
    <2> QED BY <2>3, <2>4
  <1>8. Flatten(s) = g[n] /\ g \in [0 .. n -> Seq(S)]
    BY <1>1, <1>2, <1>6, <1>7
  <1>9. JoinedUpTo(g, S, s)
    BY <1>2, <1>3, <1>8 DEF JoinedUpTo
  <1> QED BY <1>9

\* A position of a part of a sequence is a position of the whole, in order.
Picks(t, s, I, g) ==
    /\ g \in [1 .. Len(t) -> I]
    /\ \A k \in 1 .. Len(t) : t[k] = s[g[k]]
    /\ \A k, l \in 1 .. Len(t) : k < l => g[k] < g[l]
    /\ \A i \in I : \E k \in 1 .. Len(t) : g[k] = i

\* At keeps the elements at the positions it is given, and their order.
LEMMA AtPositions ==
    ASSUME NEW S, NEW s \in Seq(S), NEW I \in SUBSET DOMAIN s
    PROVE  At(s, I) \in Seq(S) /\ \E g : Picks(At(s, I), s, I, g)
  <1>0. PICK f : TakenUpTo(f, S, s, I)
    BY AtSteps
  <1>1. /\ f \in [0 .. Len(s) -> Seq(S)] /\ f[0] = <<>> /\ At(s, I) = f[Len(s)]
        /\ \A i \in 1 .. Len(s) : f[i] = IF i \in I THEN Append(f[i - 1], s[i]) ELSE f[i - 1]
    BY <1>0 DEF TakenUpTo
  <1>n. Len(s) \in Nat /\ DOMAIN s = 1 .. Len(s)
    OBVIOUS
  <1> DEFINE Upto(i) == I \cap (1 .. i)
             P(i) == i <= Len(s) => \E g : Picks(f[i], s, Upto(i), g)
             T == {i \in Nat : P(i)}
  <1>2. P(0)
    <2>1. Picks(<<>>, s, {}, <<>>)
      BY DEF Picks
    <2>2. Upto(0) = {}
      OBVIOUS
    <2> QED BY <1>1, <2>1, <2>2
  <1>3. ASSUME NEW i \in Nat, P(i) PROVE P(i + 1)
    <2>1. SUFFICES ASSUME i + 1 <= Len(s) PROVE \E g : Picks(f[i + 1], s, Upto(i + 1), g)
      OBVIOUS
    <2>2. i \in Nat /\ i + 1 \in 1 .. Len(s) /\ i \in 0 .. Len(s) /\ (i + 1) - 1 = i /\ i <= Len(s)
      BY <1>n, <2>1
    <2>3. f[i] \in Seq(S) /\ f[i + 1] = IF i + 1 \in I THEN Append(f[i], s[i + 1]) ELSE f[i]
      BY <1>1, <2>2
    <2>4. PICK g : Picks(f[i], s, Upto(i), g)
      BY <1>3, <2>2
    <2>5. CASE i + 1 \notin I
      <3>1. Upto(i + 1) = Upto(i)
        BY <2>2, <2>5
      <3> QED BY <2>3, <2>4, <2>5, <3>1
    <2>6. CASE i + 1 \in I
      <3> DEFINE t == f[i + 1]
                 n == Len(f[i])
                 h == [k \in 1 .. n + 1 |-> IF k = n + 1 THEN i + 1 ELSE g[k]]
      <3>1. n \in Nat /\ Len(t) = n + 1 /\ t[n + 1] = s[i + 1] /\ \A k \in 1 .. n : t[k] = f[i][k]
        BY <2>3, <2>6
      <3>2. g \in [1 .. n -> Upto(i)] /\ \A k \in 1 .. n : f[i][k] = s[g[k]]
        BY <2>4 DEF Picks
      <3>3. h \in [1 .. Len(t) -> Upto(i + 1)]
        BY <2>2, <2>6, <3>1, <3>2
      <3>4. \A k \in 1 .. Len(t) : t[k] = s[h[k]]
        BY <3>1, <3>2
      <3>5. ASSUME NEW k \in 1 .. Len(t), NEW l \in 1 .. Len(t), k < l PROVE h[k] < h[l]
        <4>1. CASE l = n + 1
          <5>1. k \in 1 .. n /\ k \in 1 .. n + 1 /\ k # n + 1
            BY <3>1, <3>5, <4>1
          <5>2. h[k] = g[k] /\ g[k] \in Upto(i)
            BY <3>2, <5>1
          <5>3. h[l] = i + 1
            BY <3>1, <4>1
          <5>4. g[k] \in 1 .. i
            BY <5>2
          <5> HIDE DEF h, n, t, Upto
          <5> QED BY <2>2, <5>2, <5>3, <5>4
        <4>2. CASE l # n + 1
          <5>1. k \in 1 .. n /\ l \in 1 .. n
            BY <3>1, <3>5, <4>2
          <5> QED BY <2>4, <3>1, <3>5, <5>1 DEF Picks
        <4> QED BY <4>1, <4>2
      <3>6. ASSUME NEW m \in Upto(i + 1) PROVE \E k \in 1 .. Len(t) : h[k] = m
        <4>1. CASE m = i + 1
          BY <3>1, <4>1
        <4>2. CASE m # i + 1
          <5>1. m \in Upto(i)
            BY <2>2, <4>2
          <5>2. PICK k \in 1 .. n : g[k] = m
            BY <2>4, <5>1 DEF Picks
          <5>3. k \in 1 .. Len(t) /\ h[k] = g[k]
            BY <3>1, <5>2
          <5> QED BY <5>2, <5>3
        <4> QED BY <4>1, <4>2
      <3>7. Picks(t, s, Upto(i + 1), h)
        <4> HIDE DEF t, h, n
        <4> QED BY <3>3, <3>4, <3>5, <3>6 DEF Picks
      <3> QED BY <3>7
    <2> QED BY <2>5, <2>6
  <1>4. T = Nat
    <2> HIDE DEF P
    <2>1. T \in SUBSET Nat /\ 0 \in T /\ \A i \in T : i + 1 \in T
      BY <1>2, <1>3
    <2> HIDE DEF T
    <2> QED BY <2>1, NumberSet
  <1>5. \E g : Picks(f[Len(s)], s, Upto(Len(s)), g)
    <2>1. P(Len(s)) BY <1>4, <1>n
    <2>2. Len(s) <= Len(s) BY <1>n
    <2> QED BY <2>1, <2>2, Zenon
  <1>6. Upto(Len(s)) = I
    BY <1>n
  <1>7. At(s, I) = f[Len(s)] /\ f[Len(s)] \in Seq(S)
    BY <1>1, <1>n
  <1> QED BY <1>5, <1>6, <1>7

\* A position of a flattened sequence is one of one of its parts.
Joins(t, s, n, m) ==
    /\ m \in [1 .. Len(t) -> Nat \X Nat]
    /\ \A p \in 1 .. Len(t) : /\ m[p][1] \in 1 .. n /\ m[p][2] \in DOMAIN s[m[p][1]]
                              /\ t[p] = s[m[p][1]][m[p][2]]
    /\ \A p, q \in 1 .. Len(t) : p # q => m[p] # m[q]
    /\ \A p, q \in 1 .. Len(t) : p < q => m[p][1] <= m[q][1]
    /\ \A i \in 1 .. n : \A k \in DOMAIN s[i] : \E p \in 1 .. Len(t) : m[p] = <<i, k>>

\* Flatten keeps every element of every part, once.
LEMMA FlattenPositions ==
    ASSUME NEW S, NEW s \in Seq(Seq(S))
    PROVE  Flatten(s) \in Seq(S) /\ \E m : Joins(Flatten(s), s, Len(s), m)
  <1>0. PICK f : JoinedUpTo(f, S, s)
    BY FlattenSteps
  <1>1. /\ f \in [0 .. Len(s) -> Seq(S)] /\ f[0] = <<>> /\ Flatten(s) = f[Len(s)]
        /\ \A i \in 1 .. Len(s) : f[i] = f[i - 1] \o s[i]
    BY <1>0 DEF JoinedUpTo
  <1>n. Len(s) \in Nat /\ DOMAIN s = 1 .. Len(s)
    OBVIOUS
  <1> DEFINE P(i) == i <= Len(s) => \E m : Joins(f[i], s, i, m)
             T == {i \in Nat : P(i)}
  <1>2. P(0)
    <2>1. Joins(<<>>, s, 0, <<>>)
      BY DEF Joins
    <2> QED BY <1>1, <2>1
  <1>3. ASSUME NEW i \in Nat, P(i) PROVE P(i + 1)
    <2>1. SUFFICES ASSUME i + 1 <= Len(s) PROVE \E m : Joins(f[i + 1], s, i + 1, m)
      OBVIOUS
    <2>2. i \in Nat /\ i + 1 \in 1 .. Len(s) /\ i \in 0 .. Len(s) /\ (i + 1) - 1 = i /\ i <= Len(s)
      BY <1>n, <2>1
    <2> DEFINE u == f[i]
               v == s[i + 1]
               t == f[i + 1]
    <2>3. u \in Seq(S) /\ v \in Seq(S) /\ t = u \o v
      <3>1. f[i] \in Seq(S) /\ f[i + 1] = f[i] \o s[i + 1]
        BY <1>1, <2>2
      <3>2. s[i + 1] \in Seq(S)
        BY <1>n, <2>2
      <3> QED BY <3>1, <3>2
    <2>4. PICK m : Joins(u, s, i, m)
      BY <1>3, <2>2
    <2> DEFINE a == Len(u)
               h == [p \in 1 .. Len(t) |-> IF p <= a THEN m[p] ELSE <<i + 1, p - a>>]
    <2> HIDE DEF u, v, t
    <2>5. /\ a \in Nat /\ Len(v) \in Nat /\ Len(t) = a + Len(v) /\ DOMAIN v = 1 .. Len(v)
          /\ \A p \in 1 .. a : t[p] = u[p]
          /\ \A p \in 1 .. Len(t) : p > a => t[p] = v[p - a]
      BY <2>3
    <2>6. /\ m \in [1 .. a -> Nat \X Nat]
          /\ \A p \in 1 .. a : /\ m[p][1] \in 1 .. i /\ m[p][2] \in DOMAIN s[m[p][1]]
                               /\ u[p] = s[m[p][1]][m[p][2]]
      BY <2>4 DEF Joins
    <2>7. h \in [1 .. Len(t) -> Nat \X Nat]
      BY <2>2, <2>5, <2>6
    <2>8. ASSUME NEW p \in 1 .. Len(t)
          PROVE  /\ h[p][1] \in 1 .. i + 1 /\ h[p][2] \in DOMAIN s[h[p][1]]
                 /\ t[p] = s[h[p][1]][h[p][2]]
      <3>1. CASE p <= a
        <4>1. p \in 1 .. a /\ h[p] = m[p] BY <3>1, <2>5
        <4>2. m[p][1] \in 1 .. i /\ m[p][2] \in DOMAIN s[m[p][1]] /\ u[p] = s[m[p][1]][m[p][2]]
          BY <2>6, <4>1
        <4>3. \A k \in 1 .. i : k \in 1 .. i + 1 BY <2>2
        <4>4. t[p] = u[p] BY <2>5, <4>1
        <4>5. m[p][1] \in 1 .. i + 1 BY <4>2, <4>3
        <4> QED BY <4>1, <4>2, <4>4, <4>5
      <3>2. CASE ~(p <= a)
        <4>1. h[p] = <<i + 1, p - a>> /\ p - a \in 1 .. Len(v) BY <3>2, <2>5
        <4>2. h[p][1] = i + 1 /\ h[p][2] = p - a BY <4>1
        <4>3. t[p] = v[p - a] /\ p - a \in DOMAIN v /\ i + 1 \in 1 .. i + 1
          BY <2>2, <2>5, <3>2, <4>1
        <4> QED BY <4>2, <4>3 DEF v
      <3> QED BY <3>1, <3>2
    <2>9. ASSUME NEW p \in 1 .. Len(t), NEW q \in 1 .. Len(t), p # q PROVE h[p] # h[q]
      <3>1. CASE p <= a /\ q <= a
        BY <2>4, <2>5, <2>9, <3>1 DEF Joins
      <3>2. CASE p <= a /\ ~(q <= a)
        <4>1. p \in 1 .. a /\ h[p] = m[p] /\ m[p][1] \in 1 .. i /\ h[q] = <<i + 1, q - a>>
          BY <3>2, <2>5, <2>6
        <4>2. h[q][1] = i + 1 BY <4>1
        <4> QED BY <2>2, <4>1, <4>2
      <3>3. CASE ~(p <= a) /\ q <= a
        <4>1. q \in 1 .. a /\ h[q] = m[q] /\ m[q][1] \in 1 .. i /\ h[p] = <<i + 1, p - a>>
          BY <3>3, <2>5, <2>6
        <4>2. h[p][1] = i + 1 BY <4>1
        <4> QED BY <2>2, <4>1, <4>2
      <3>4. CASE ~(p <= a) /\ ~(q <= a)
        <4>1. h[p] = <<i + 1, p - a>> /\ h[q] = <<i + 1, q - a>> BY <3>4
        <4>2. h[p][2] = p - a /\ h[q][2] = q - a BY <4>1
        <4> QED BY <2>5, <2>9, <4>2
      <3> QED BY <3>1, <3>2, <3>3, <3>4
    <2>12. ASSUME NEW p \in 1 .. Len(t), NEW q \in 1 .. Len(t), p < q PROVE h[p][1] <= h[q][1]
      <3>1. CASE q <= a
        <4>1. p \in 1 .. a /\ q \in 1 .. a /\ h[p] = m[p] /\ h[q] = m[q]
          BY <2>5, <2>12, <3>1
        <4> QED BY <2>4, <2>12, <4>1 DEF Joins
      <3>2. CASE ~(q <= a)
        <4>1. h[q] = <<i + 1, q - a>> BY <3>2
        <4>2. h[q][1] = i + 1 BY <4>1
        <4> QED BY <2>2, <2>8, <4>2
      <3> QED BY <3>1, <3>2
    <2>10. ASSUME NEW j \in 1 .. i + 1, NEW k \in DOMAIN s[j]
           PROVE  \E p \in 1 .. Len(t) : h[p] = <<j, k>>
      <3>1. CASE j = i + 1
        <4>1. k \in 1 .. Len(v) BY <2>5, <2>10, <3>1 DEF v
        <4>2. a + k \in 1 .. Len(t) /\ ~(a + k <= a) /\ (a + k) - a = k BY <2>5, <4>1
        <4>3. h[a + k] = <<j, k>> BY <3>1, <4>2
        <4> QED BY <4>2, <4>3
      <3>2. CASE j # i + 1
        <4>1. j \in 1 .. i BY <2>2, <3>2
        <4>2. PICK p \in 1 .. a : m[p] = <<j, k>> BY <2>4, <2>10, <4>1 DEF Joins
        <4>3. p \in 1 .. Len(t) /\ h[p] = <<j, k>> BY <2>5, <4>2
        <4> QED BY <4>3
      <3> QED BY <3>1, <3>2
    <2>11. Joins(t, s, i + 1, h)
      <3> HIDE DEF h, a
      <3> QED BY <2>7, <2>8, <2>9, <2>10, <2>12 DEF Joins
    <2> QED BY <2>11 DEF t
  <1>4. T = Nat
    <2> HIDE DEF P
    <2>1. T \in SUBSET Nat /\ 0 \in T /\ \A i \in T : i + 1 \in T
      BY <1>2, <1>3
    <2> HIDE DEF T
    <2> QED BY <2>1, NumberSet
  <1>5. \E m : Joins(f[Len(s)], s, Len(s), m)
    <2>1. P(Len(s)) BY <1>4, <1>n
    <2>2. Len(s) <= Len(s) BY <1>n
    <2> QED BY <2>1, <2>2, Zenon
  <1>6. Flatten(s) = f[Len(s)] /\ f[Len(s)] \in Seq(S)
    BY <1>1, <1>n
  <1> QED BY <1>5, <1>6

\* Min of the community modules is the least number of a set.
LEMMA LeastOf ==
    ASSUME NEW I \in SUBSET Nat, I # {}
    PROVE  Min(I) \in I /\ \A j \in I : Min(I) <= j
  <1>1. \E i \in I : \A j \in I : i <= j
    BY LeastNumber
  <1> QED BY <1>1 DEF Min

\* A part of a sequence has elements of its own only where the sequence has them.
LEMMA AtElements ==
    ASSUME NEW S, NEW s \in Seq(S), NEW I \in SUBSET DOMAIN s
    PROVE  Elements(At(s, I)) = {s[i] : i \in I}
  <1>1. PICK g : Picks(At(s, I), s, I, g)
    BY AtPositions
  <1>2. At(s, I) \in Seq(S)
    BY AtPositions
  <1> DEFINE t == At(s, I)
  <1>3. DOMAIN t = 1 .. Len(t)
    BY <1>2
  <1> HIDE DEF t
  <1>4. /\ \A k \in DOMAIN t : g[k] \in I /\ t[k] = s[g[k]]
        /\ \A i \in I : \E k \in DOMAIN t : g[k] = i
    BY <1>1, <1>3 DEF Picks, t
  <1>5. Elements(t) = {s[i] : i \in I}
    BY <1>4 DEF Elements
  <1> QED BY <1>5 DEF t

\* No positions, no elements.
LEMMA AtNone == ASSUME NEW S, NEW s \in Seq(S) PROVE At(s, {}) = <<>>
  <1>1. At(s, {}) \in Seq(S) /\ \E g : Picks(At(s, {}), s, {}, g)
    BY AtPositions
  <1>2. \A k \in 1 .. Len(At(s, {})) : FALSE
    BY <1>1 DEF Picks
  <1> QED BY <1>1, <1>2

\* A list of a finite set is one of its elements, each once.
LEMMA SetToSeqOnce ==
    ASSUME NEW S, IsFiniteSet(S)
    PROVE  /\ SetToSeq(S) \in Seq(S) /\ Len(SetToSeq(S)) = Cardinality(S)
           /\ DOMAIN SetToSeq(S) = 1 .. Cardinality(S) /\ Cardinality(S) \in Nat
           /\ \A i, j \in DOMAIN SetToSeq(S) : SetToSeq(S)[i] = SetToSeq(S)[j] => i = j
  <1> DEFINE n == Cardinality(S)
  <1>1. n \in Nat /\ \E f \in [1 .. n -> S] : IsInjective(f)
    BY FS_CardinalityType DEF ExistsBijection, Bijection, Injection
  <1>2. SetToSeq(S) \in [1 .. n -> S] /\ IsInjective(SetToSeq(S))
    BY <1>1 DEF SetToSeq
  <1> QED
    BY <1>1, <1>2 DEF IsInjective

(***************************************************************************)
(* Sequences sorted                                                        *)
(***************************************************************************)
\* Every element once.
NoRepeats(s) == \A i, j \in DOMAIN s : s[i] = s[j] => i = j

\* The numbers of the elements do not fall.
Rising(s, key) == \A i, j \in DOMAIN s : i < j => key[s[i]] <= key[s[j]]

\* What is joined has the elements of both.
LEMMA JoinElements ==
    ASSUME NEW S, NEW s \in Seq(S), NEW t \in Seq(S)
    PROVE  Elements(s \o t) = Elements(s) \cup Elements(t)
  <1> DEFINE u == s \o t
  <1>1. /\ Len(s) \in Nat /\ DOMAIN s = 1 .. Len(s) /\ Len(t) \in Nat /\ DOMAIN t = 1 .. Len(t)
        /\ DOMAIN u = 1 .. Len(s) + Len(t)
        /\ \A i \in 1 .. Len(s) : u[i] = s[i]
        /\ \A i \in 1 .. Len(s) + Len(t) : i > Len(s) => u[i] = t[i - Len(s)]
    OBVIOUS
  <1>2. \A i \in DOMAIN u : u[i] \in Elements(s) \cup Elements(t)
    <2>1. ASSUME NEW i \in DOMAIN u PROVE u[i] \in Elements(s) \cup Elements(t)
      <3>1. CASE i <= Len(s)
        <4>1. i \in DOMAIN s /\ u[i] = s[i] BY <1>1, <3>1
        <4> QED BY <4>1 DEF Elements
      <3>2. CASE ~(i <= Len(s))
        <4>1. i - Len(s) \in DOMAIN t /\ u[i] = t[i - Len(s)] BY <1>1, <3>2
        <4> QED BY <4>1 DEF Elements
      <3> QED BY <3>1, <3>2
    <2> QED BY <2>1
  <1>3. \A i \in DOMAIN s : s[i] \in Elements(u)
    <2>1. \A i \in DOMAIN s : i \in DOMAIN u /\ u[i] = s[i] BY <1>1
    <2> HIDE DEF u
    <2> QED BY <2>1 DEF Elements
  <1>4. \A i \in DOMAIN t : t[i] \in Elements(u)
    <2>1. ASSUME NEW i \in DOMAIN t PROVE Len(s) + i \in DOMAIN u /\ u[Len(s) + i] = t[i]
      <3>1. Len(s) + i \in 1 .. Len(s) + Len(t) /\ Len(s) + i > Len(s) /\ (Len(s) + i) - Len(s) = i
        BY <1>1
      <3> QED BY <1>1, <3>1
    <2> HIDE DEF u
    <2> QED BY <2>1 DEF Elements
  <1> HIDE DEF u
  <1>5. Elements(u) = Elements(s) \cup Elements(t)
    BY <1>2, <1>3, <1>4 DEF Elements
  <1> QED BY <1>5 DEF u

\* Parts of a rising sequence rise, and have their elements once if it has.
LEMMA AtRising ==
    ASSUME NEW S, NEW s \in Seq(S), NEW I \in SUBSET DOMAIN s, NEW key
    PROVE  /\ Rising(s, key) => Rising(At(s, I), key)
           /\ NoRepeats(s) => NoRepeats(At(s, I))
  <1>1. PICK g : Picks(At(s, I), s, I, g)
    BY AtPositions
  <1>2. At(s, I) \in Seq(S)
    BY AtPositions
  <1> DEFINE t == At(s, I)
  <1>3. DOMAIN t = 1 .. Len(t) /\ DOMAIN s = 1 .. Len(s) /\ Len(t) \in Nat /\ Len(s) \in Nat
    BY <1>2
  <1> HIDE DEF t
  <1>4. /\ \A k \in DOMAIN t : g[k] \in DOMAIN s /\ t[k] = s[g[k]]
        /\ \A k, l \in DOMAIN t : k < l => g[k] < g[l]
    BY <1>1, <1>3 DEF Picks, t
  <1>5. ASSUME Rising(s, key) PROVE Rising(t, key)
    BY <1>4, <1>5 DEF Rising
  <1>6. ASSUME NoRepeats(s) PROVE NoRepeats(t)
    <2>1. ASSUME NEW k \in DOMAIN t, NEW l \in DOMAIN t, t[k] = t[l] PROVE k = l
      <3>1. g[k] = g[l] BY <1>4, <1>6, <2>1 DEF NoRepeats
      <3>2. g[k] \in Nat /\ g[l] \in Nat BY <1>3, <1>4
      <3>3. ~(k < l) /\ ~(l < k) BY <1>4, <3>1, <3>2
      <3> QED BY <1>3, <3>3
    <2> QED BY <2>1 DEF NoRepeats
  <1> QED BY <1>5, <1>6 DEF t

Key(s, key) == \A x \in Elements(s) : key[x] \in Nat

\* A rising sequence with one more element at its place is one.
LEMMA InsertedRises ==
    ASSUME NEW S, NEW s \in Seq(S), NEW x \in S, NEW key, Key(s, key), key[x] \in Nat, Rising(s, key)
    PROVE  /\ Inserted(s, x, key) \in Seq(S)
           /\ Elements(Inserted(s, x, key)) = Elements(s) \cup {x}
           /\ Rising(Inserted(s, x, key), key)
           /\ NoRepeats(s) /\ x \notin Elements(s) => NoRepeats(Inserted(s, x, key))
  <1> DEFINE I == {i \in DOMAIN s : key[s[i]] <= key[x]}
             J == DOMAIN s \ I
             a == At(s, I)
             b == At(s, J)
             m == <<x>>
             u == (a \o m) \o b
  <1>1. Inserted(s, x, key) = u
    BY DEF Inserted
  <1>2. a \in Seq(S) /\ b \in Seq(S) /\ Elements(a) = {s[i] : i \in I} /\ Elements(b) = {s[i] : i \in J}
    <2> I \in SUBSET DOMAIN s /\ J \in SUBSET DOMAIN s OBVIOUS
    <2> HIDE DEF I, J
    <2> QED BY AtPositions, AtElements
  <1>3. m \in Seq(S) /\ Elements(m) = {x} /\ Len(m) = 1 /\ m[1] = x
    BY DEF Elements
  <1>4. /\ Rising(a, key) /\ Rising(b, key)
        /\ NoRepeats(s) => NoRepeats(a) /\ NoRepeats(b)
    <2> I \in SUBSET DOMAIN s /\ J \in SUBSET DOMAIN s OBVIOUS
    <2> HIDE DEF I, J
    <2> QED BY AtRising
  <1>5. /\ \A y \in Elements(a) : key[y] \in Nat /\ key[y] <= key[x]
        /\ \A y \in Elements(b) : key[y] \in Nat /\ key[x] < key[y]
    <2>1. \A i \in DOMAIN s : key[s[i]] \in Nat
      BY DEF Key, Elements
    <2> QED BY <1>2, <2>1
  <1>6. Elements(a) \cup Elements(b) = Elements(s)
    BY <1>2 DEF Elements
  <1>7. NoRepeats(s) => Elements(a) \cap Elements(b) = {}
    BY <1>2 DEF NoRepeats
  <1> HIDE DEF I, J, a, b, m
  <1>8. Elements(u) = Elements(s) \cup {x} /\ u \in Seq(S)
    <2>1. Elements(a \o m) = Elements(a) \cup Elements(m) /\ a \o m \in Seq(S)
      BY <1>2, <1>3, JoinElements
    <2> DEFINE am == a \o m
    <2> HIDE DEF am
    <2>2. am \in Seq(S) /\ b \in Seq(S)
      BY <1>2, <2>1 DEF am
    <2>3. Elements(am \o b) = Elements(am) \cup Elements(b) /\ am \o b \in Seq(S)
      BY <2>2, JoinElements
    <2> QED BY <1>3, <1>6, <2>1, <2>3 DEF am
  <1> DEFINE p == Len(a)
             q == Len(b)
  <1>9. p \in Nat /\ q \in Nat /\ DOMAIN a = 1 .. p /\ DOMAIN b = 1 .. q
    BY <1>2
  <1>10. /\ DOMAIN u = 1 .. p + 1 + q
         /\ \A i \in 1 .. p : u[i] = a[i]
         /\ u[p + 1] = x
         /\ \A i \in p + 2 .. p + 1 + q : u[i] = b[i - (p + 1)]
    <2>1. Len(a \o m) = p + 1 /\ a \o m \in Seq(S) /\ (\A i \in 1 .. p : (a \o m)[i] = a[i]) /\ (a \o m)[p + 1] = x
      <3>1. m = <<x>> BY DEF m
      <3>2. a \o <<x>> \in Seq(S) /\ Len(a \o <<x>>) = Len(a) + 1 /\ (a \o <<x>>)[Len(a) + 1] = x
            /\ \A i \in 1 .. Len(a) : (a \o <<x>>)[i] = a[i]
        BY <1>2
      <3> QED BY <3>1, <3>2
    <2> DEFINE am == a \o m
    <2> HIDE DEF am
    <2>2. am \in Seq(S) /\ Len(am) = p + 1 BY <2>1 DEF am
    <2>3. /\ DOMAIN (am \o b) = 1 .. p + 1 + q
          /\ \A i \in 1 .. p + 1 : (am \o b)[i] = am[i]
          /\ \A i \in p + 2 .. p + 1 + q : (am \o b)[i] = b[i - (p + 1)]
      <3> DEFINE z == Len(am)
                 y == am \o b
      <3>1. /\ z \in Nat /\ q \in Nat /\ DOMAIN y = 1 .. z + q
            /\ \A i \in 1 .. z : y[i] = am[i]
            /\ \A i \in z + 1 .. z + q : y[i] = b[i - z]
        <4>1. am \in Seq(S) /\ b \in Seq(S) BY <1>2, <2>2
        <4>2. z \in Nat /\ q \in Nat /\ DOMAIN y = 1 .. z + q BY <4>1
        <4>3. \A i \in 1 .. z : y[i] = am[i] BY <4>1
        <4>4. \A i \in z + 1 .. z + q : y[i] = b[i - z] BY <4>1
        <4> QED BY <4>2, <4>3, <4>4
      <3>2. z = p + 1 BY <2>2
      <3> HIDE DEF z, y
      <3>3. \A i \in p + 2 .. p + 1 + q : i \in z + 1 .. z + q /\ i - z = i - (p + 1)
        BY <1>9, <3>2
      <3> QED BY <3>1, <3>2, <3>3 DEF y
    <2>4. \A i \in 1 .. p : i \in 1 .. p + 1 BY <1>9
    <2>5. p + 1 \in 1 .. p + 1 BY <1>9
    <2> QED BY <2>1, <2>3, <2>4, <2>5 DEF am
  <1> HIDE DEF u
  <1>11. ASSUME NEW i \in DOMAIN u
         PROVE  \/ i \in 1 .. p /\ u[i] = a[i] /\ a[i] \in Elements(a)
                \/ i = p + 1 /\ u[i] = x
                \/ /\ i \in p + 2 .. p + 1 + q /\ i - (p + 1) \in 1 .. q
                   /\ u[i] = b[i - (p + 1)] /\ b[i - (p + 1)] \in Elements(b)
    <2>1. CASE i \in 1 .. p
      BY <1>9, <1>10, <2>1 DEF Elements
    <2>2. CASE i = p + 1
      BY <1>10, <2>2
    <2>3. CASE i \notin 1 .. p /\ i # p + 1
      <3>1. i \in p + 2 .. p + 1 + q /\ i - (p + 1) \in 1 .. q BY <1>9, <1>10, <2>3
      <3> QED BY <1>9, <1>10, <3>1 DEF Elements
    <2> QED BY <2>1, <2>2, <2>3
  <1>12. Rising(u, key)
    <2>1. ASSUME NEW i \in DOMAIN u, NEW j \in DOMAIN u, i < j PROVE key[u[i]] <= key[u[j]]
      <3>1. CASE j \in 1 .. p
        <4>1. i \in 1 .. p BY <1>9, <1>10, <2>1, <3>1
        <4> QED BY <1>4, <1>9, <1>10, <2>1, <3>1, <4>1 DEF Rising
      <3>2. CASE j = p + 1
        <4>1. i \in 1 .. p BY <1>9, <1>10, <2>1, <3>2
        <4>2. u[j] = x /\ u[i] = a[i] /\ a[i] \in Elements(a) BY <1>9, <1>10, <3>2, <4>1 DEF Elements
        <4> QED BY <1>5, <4>2
      <3>3. CASE j \notin 1 .. p /\ j # p + 1
        <4>1. u[j] = b[j - (p + 1)] /\ b[j - (p + 1)] \in Elements(b) /\ j - (p + 1) \in 1 .. q
          BY <1>11, <3>3
        <4>2. CASE i \in 1 .. p
          <5>1. u[i] = a[i] /\ a[i] \in Elements(a) BY <1>9, <1>10, <4>2 DEF Elements
          <5> QED BY <1>5, <4>1, <5>1
        <4>3. CASE i = p + 1
          BY <1>5, <1>10, <4>1, <4>3
        <4>4. CASE i \notin 1 .. p /\ i # p + 1
          <5>1. u[i] = b[i - (p + 1)] /\ i - (p + 1) \in 1 .. q BY <1>11, <4>4
          <5>2. i - (p + 1) < j - (p + 1) BY <1>9, <1>10, <2>1
          <5> QED BY <1>4, <1>9, <4>1, <5>1, <5>2 DEF Rising
        <4> QED BY <4>2, <4>3, <4>4
      <3> QED BY <3>1, <3>2, <3>3
    <2> QED BY <2>1 DEF Rising
  <1>13. ASSUME NoRepeats(s), x \notin Elements(s) PROVE NoRepeats(u)
    <2>1. ASSUME NEW i \in DOMAIN u, NEW j \in DOMAIN u, u[i] = u[j] PROVE i = j
      <3>1. x \notin Elements(a) /\ x \notin Elements(b) /\ Elements(a) \cap Elements(b) = {}
        BY <1>6, <1>7, <1>13
      <3>2. CASE i \in 1 .. p
        <4>1. u[i] = a[i] /\ a[i] \in Elements(a) BY <1>9, <1>10, <3>2 DEF Elements
        <4>2. j \in 1 .. p /\ u[j] = a[j] BY <1>11, <2>1, <3>1, <4>1
        <4> QED BY <1>4, <1>9, <1>13, <2>1, <3>2, <4>1, <4>2 DEF NoRepeats
      <3>3. CASE i = p + 1
        <4>1. u[i] = x BY <1>10, <3>3
        <4> QED BY <1>11, <2>1, <3>1, <3>3, <4>1
      <3>4. CASE i \notin 1 .. p /\ i # p + 1
        <4>1. u[i] = b[i - (p + 1)] /\ b[i - (p + 1)] \in Elements(b) /\ i - (p + 1) \in 1 .. q
          BY <1>11, <3>4
        <4>2. u[j] = b[j - (p + 1)] /\ j - (p + 1) \in 1 .. q BY <1>11, <2>1, <3>1, <4>1
        <4>3. i - (p + 1) = j - (p + 1) BY <1>4, <1>9, <1>13, <2>1, <4>1, <4>2 DEF NoRepeats
        <4> QED BY <1>9, <1>10, <4>3
      <3> QED BY <3>2, <3>3, <3>4
    <2> QED BY <2>1 DEF NoRepeats
  <1> QED BY <1>1, <1>8, <1>12, <1>13

\* Every stage of a sort.
Stage(r, S, s, key, i) ==
    /\ r \in Seq(S) /\ Elements(r) = {s[j] : j \in 1 .. i} /\ Rising(r, key)
    /\ NoRepeats(s) => NoRepeats(r)

\* A sort keeps the elements, and puts them in the order of their numbers.
LEMMA SortedByRises ==
    ASSUME NEW S, NEW s \in Seq(S), NEW key, Key(s, key)
    PROVE  /\ SortedBy(s, key) \in Seq(S) /\ Elements(SortedBy(s, key)) = Elements(s)
           /\ Rising(SortedBy(s, key), key) /\ (NoRepeats(s) => NoRepeats(SortedBy(s, key)))
  <1> DEFINE n == Len(s)
             K == {x \in S : key[x] \in Nat}
             A == {r \in Seq(K) : Rising(r, key)}
             step == [i \in 1 .. n |-> [r \in A |-> Inserted(r, s[i], key)]]
             Is(f) == f = [i \in 0 .. Len(s) |->
                             IF i = 0 THEN <<>> ELSE Inserted(f[i - 1], s[i], key)]
             F == CHOOSE f : Is(f)
  <1>1. n \in Nat /\ DOMAIN s = 1 .. n /\ \A i \in 1 .. n : s[i] \in K
    BY DEF Key, Elements
  <1>2. <<>> \in A
    BY DEF Rising
  <1>3. ASSUME NEW r \in A, NEW i \in 1 .. n
        PROVE  /\ Inserted(r, s[i], key) \in A
               /\ Elements(Inserted(r, s[i], key)) = Elements(r) \cup {s[i]}
               /\ NoRepeats(r) /\ s[i] \notin Elements(r) => NoRepeats(Inserted(r, s[i], key))
    <2>1. r \in Seq(K) /\ Rising(r, key) /\ s[i] \in K /\ key[s[i]] \in Nat
      BY <1>1
    <2>2. \A j \in DOMAIN r : r[j] \in K
      BY <2>1
    <2> HIDE DEF A
    <2>3. Key(r, key)
      BY <2>2 DEF Key, Elements
    <2> HIDE DEF K
    <2>4. /\ Inserted(r, s[i], key) \in Seq(K)
          /\ Elements(Inserted(r, s[i], key)) = Elements(r) \cup {s[i]}
          /\ Rising(Inserted(r, s[i], key), key)
          /\ NoRepeats(r) /\ s[i] \notin Elements(r) => NoRepeats(Inserted(r, s[i], key))
      BY <2>1, <2>3, InsertedRises
    <2> QED BY <2>4 DEF A
  <1>4. step \in [1 .. n -> [A -> A]]
    <2> HIDE DEF A
    <2> QED BY <1>3
  <1>5. PICK g \in [0 .. n -> A] : g[0] = <<>> /\ \A i \in 1 .. n : g[i] = step[i][g[i - 1]]
    <2> HIDE DEF A, step, n
    <2>1. \E f : Climbs(f, n, A, <<>>, step)
      BY <1>1, <1>2, <1>4, UpToRecursion
    <2> QED BY <2>1 DEF Climbs
  <1> HIDE DEF A
  <1>6. ASSUME NEW i \in 1 .. n PROVE g[i] = Inserted(g[i - 1], s[i], key)
    <2>1. g[i - 1] \in A
      BY <1>1, <1>5
    <2>2. step[i][g[i - 1]] = Inserted(g[i - 1], s[i], key)
      BY <2>1
    <2> QED BY <1>5, <2>2
  <1>7. Is(g)
    <2>1. ASSUME NEW i \in 0 .. n
          PROVE  g[i] = IF i = 0 THEN <<>> ELSE Inserted(g[i - 1], s[i], key)
      <3>1. CASE i = 0
        BY <1>5, <3>1
      <3>2. CASE i # 0
        <4>1. i \in 1 .. n BY <1>1, <3>2
        <4> QED BY <1>6, <3>2, <4>1
      <3> QED BY <3>1, <3>2
    <2> QED BY <1>5, <2>1, Zenon
  <1>8. Is(F)
    <2> HIDE DEF Is
    <2> QED BY <1>7
  <1>9. SortedBy(s, key) = F[n]
    BY DEF SortedBy
  <1>10. F[0] = <<>> /\ \A i \in 1 .. n : F[i] = Inserted(F[i - 1], s[i], key)
    BY <1>1, <1>8
  <1> HIDE DEF F, Is, step
  <1> DEFINE P(i) == i <= n => F[i] \in A /\ Stage(F[i], S, s, key, i)
             T == {i \in Nat : P(i)}
  <1>11. P(0)
    <2>1. Elements(<<>>) = {} /\ {s[j] : j \in 1 .. 0} = {} /\ <<>> \in Seq(S) /\ NoRepeats(<<>>)
      BY DEF Elements, NoRepeats
    <2> QED BY <1>2, <1>10, <2>1 DEF Stage, A
  <1>12. ASSUME NEW i \in Nat, P(i) PROVE P(i + 1)
    <2>1. SUFFICES ASSUME i + 1 <= n PROVE F[i + 1] \in A /\ Stage(F[i + 1], S, s, key, i + 1)
      OBVIOUS
    <2>2. i + 1 \in 1 .. n /\ (i + 1) - 1 = i /\ i <= n
      BY <1>1, <2>1
    <2>3. F[i] \in A /\ Stage(F[i], S, s, key, i)
      BY <1>12, <2>2
    <2>4. F[i + 1] = Inserted(F[i], s[i + 1], key)
      BY <1>10, <2>2
    <2> DEFINE r == F[i]
               t == F[i + 1]
               x == s[i + 1]
    <2> HIDE DEF r, t, x
    <2>5. /\ t \in A /\ Elements(t) = Elements(r) \cup {x}
          /\ NoRepeats(r) /\ x \notin Elements(r) => NoRepeats(t)
      BY <1>3, <2>2, <2>3, <2>4 DEF r, t, x
    <2>6. {s[j] : j \in 1 .. i + 1} = {s[j] : j \in 1 .. i} \cup {x}
      <3>1. \A j \in 1 .. i + 1 : j \in 1 .. i \/ j = i + 1 BY <2>2
      <3>2. \A j \in 1 .. i : j \in 1 .. i + 1 BY <2>2
      <3>3. i + 1 \in 1 .. i + 1 BY <2>2
      <3> QED BY <3>1, <3>2, <3>3 DEF x
    <2>7. NoRepeats(s) => x \notin {s[j] : j \in 1 .. i}
      <3>1. \A j \in 1 .. i : j \in DOMAIN s /\ j # i + 1 BY <1>1, <2>2
      <3>2. i + 1 \in DOMAIN s BY <1>1, <2>2
      <3> QED BY <3>1, <3>2 DEF NoRepeats, x
    <2>8. t \in Seq(S) /\ Rising(t, key)
      <3>1. t \in Seq(K) /\ Rising(t, key) BY <2>5 DEF A
      <3> QED BY <3>1
    <2>9. Elements(r) = {s[j] : j \in 1 .. i} /\ (NoRepeats(s) => NoRepeats(r))
      BY <2>3 DEF Stage, r
    <2>10. Stage(t, S, s, key, i + 1)
      BY <2>5, <2>6, <2>7, <2>8, <2>9 DEF Stage
    <2> QED BY <2>5, <2>10 DEF t
  <1>13. T = Nat
    <2> HIDE DEF P
    <2>1. T \in SUBSET Nat /\ 0 \in T /\ \A i \in T : i + 1 \in T
      BY <1>11, <1>12
    <2> HIDE DEF T
    <2> QED BY <2>1, NumberSet
  <1>14. Stage(F[n], S, s, key, n)
    <2>1. P(n) BY <1>1, <1>13
    <2>2. n <= n BY <1>1
    <2> QED BY <2>1, <2>2
  <1>15. {s[j] : j \in 1 .. n} = Elements(s)
    BY <1>1 DEF Elements
  <1> QED BY <1>9, <1>14, <1>15 DEF Stage

(***************************************************************************)
(* Numbers in order                                                        *)
(***************************************************************************)
\* g lists the numbers of I, the least first.
Enlists(g, n, I) ==
    /\ g \in [1 .. n -> I]
    /\ \A k, l \in 1 .. n : k < l => g[k] < g[l]
    /\ \A i \in I : \E k \in 1 .. n : g[k] = i

\* Two such lists agree as far as both go, and the first is no longer.
LEMMA ListedAlike ==
    ASSUME NEW I \in SUBSET Nat, NEW n \in Nat, NEW m \in Nat, NEW g, NEW h,
           Enlists(g, n, I), Enlists(h, m, I)
    PROVE  \A k \in 1 .. n : k <= m /\ g[k] = h[k]
  <1>1. /\ \A k \in 1 .. n : g[k] \in I /\ g[k] \in Nat
        /\ \A k \in 1 .. m : h[k] \in I /\ h[k] \in Nat
        /\ \A k, l \in 1 .. n : k < l => g[k] < g[l]
        /\ \A k, l \in 1 .. m : k < l => h[k] < h[l]
        /\ \A i \in I : (\E k \in 1 .. n : g[k] = i) /\ \E k \in 1 .. m : h[k] = i
    BY DEF Enlists
  <1> DEFINE Alike(k) == k \in 1 .. n => k <= m /\ g[k] = h[k]
             T == {i \in Nat : \A k \in 0 .. i : Alike(k)}
  <1>2. 0 \in T
    OBVIOUS
  <1>3. ASSUME NEW i \in T PROVE i + 1 \in T
    <2>1. i \in Nat /\ \A k \in 0 .. i : Alike(k)
      OBVIOUS
    <2> DEFINE a == i + 1
    <2>2. SUFFICES ASSUME a \in 1 .. n PROVE a <= m /\ g[a] = h[a]
      <3>1. \A k \in 0 .. a : k \in 0 .. i \/ k = a
        BY <2>1
      <3> QED BY <2>1, <3>1
    <2>3. \A k \in 1 .. n : k < a => k <= m /\ g[k] = h[k]
      BY <2>1
    <2> HIDE DEF T, a
    <2>4. PICK c \in 1 .. m : h[c] = g[a]
      BY <1>1, <2>2
    <2>5. ~(c < a)
      <3>1. SUFFICES ASSUME c < a PROVE FALSE
        OBVIOUS
      <3>2. c \in 1 .. n
        BY <2>2, <3>1
      <3>3. g[c] = h[c] /\ g[c] < g[a]
        BY <1>1, <2>2, <2>3, <3>1, <3>2
      <3> QED BY <1>1, <2>2, <2>4, <3>3
    <2>6. a \in 1 .. m
      BY <2>2, <2>5
    <2>7. h[a] <= g[a]
      <3>1. a = c \/ a < c
        BY <2>5, <2>6
      <3> QED BY <1>1, <2>4, <2>6, <3>1
    <2>8. PICK d \in 1 .. n : g[d] = h[a]
      BY <1>1, <2>6
    <2>9. ~(d < a)
      <3>1. SUFFICES ASSUME d < a PROVE FALSE
        OBVIOUS
      <3>2. d <= m /\ g[d] = h[d]
        BY <2>3, <3>1
      <3>3. h[d] < h[a]
        BY <1>1, <2>6, <3>1, <3>2
      <3> QED BY <1>1, <2>6, <2>8, <3>2, <3>3
    <2>10. g[a] <= h[a]
      <3>1. a = d \/ a < d
        BY <2>2, <2>9
      <3> QED BY <1>1, <2>2, <2>8, <3>1
    <2> QED BY <1>1, <2>2, <2>6, <2>7, <2>10
  <1>4. T = Nat
    <2> HIDE DEF Alike
    <2>1. T \in SUBSET Nat
      OBVIOUS
    <2> HIDE DEF T
    <2> QED BY <1>2, <1>3, <2>1, NumberSet
  <1>5. \A k \in 1 .. n : k \in T /\ k \in 0 .. k
    BY <1>4
  <1> QED BY <1>5

\* A set of numbers is listed in one way.
LEMMA ListedOnce ==
    ASSUME NEW I \in SUBSET Nat, NEW n \in Nat, NEW m \in Nat, NEW g, NEW h,
           Enlists(g, n, I), Enlists(h, m, I)
    PROVE  n = m /\ \A k \in 1 .. n : g[k] = h[k]
  <1>1. \A k \in 1 .. n : k <= m /\ g[k] = h[k]
    BY ListedAlike
  <1>2. \A k \in 1 .. m : k <= n /\ h[k] = g[k]
    BY ListedAlike
  <1>3. n <= m
    <2>1. n = 0 \/ n \in 1 .. n
      OBVIOUS
    <2> QED BY <1>1, <2>1
  <1>4. m <= n
    <2>1. m = 0 \/ m \in 1 .. m
      OBVIOUS
    <2> QED BY <1>2, <2>1
  <1> QED BY <1>1, <1>3, <1>4

\* A list of the places that a part of a set has in a list lists that part.
LEMMA ListedPart ==
    ASSUME NEW I \in SUBSET Nat, NEW n \in Nat, NEW m \in Nat, NEW g, NEW h, NEW J \in SUBSET I,
           Enlists(g, n, I), Enlists(h, m, {k \in 1 .. n : g[k] \in J})
    PROVE  Enlists([k \in 1 .. m |-> g[h[k]]], m, J)
  <1> DEFINE K == {k \in 1 .. n : g[k] \in J}
             f == [k \in 1 .. m |-> g[h[k]]]
  <1>1. /\ \A k \in 1 .. m : h[k] \in K
        /\ \A k, l \in 1 .. m : k < l => h[k] < h[l]
        /\ \A i \in K : \E k \in 1 .. m : h[k] = i
        /\ \A k, l \in 1 .. n : k < l => g[k] < g[l]
        /\ \A i \in I : \E k \in 1 .. n : g[k] = i
    BY DEF Enlists
  <1>2. \A k \in 1 .. m : h[k] \in 1 .. n /\ g[h[k]] \in J
    BY <1>1
  <1>3. f \in [1 .. m -> J]
    BY <1>2
  <1>4. \A k, l \in 1 .. m : k < l => f[k] < f[l]
    BY <1>1, <1>2
  <1>5. ASSUME NEW i \in J PROVE \E k \in 1 .. m : f[k] = i
    <2>1. PICK k \in 1 .. n : g[k] = i
      BY <1>1
    <2>2. k \in K
      BY <2>1
    <2> QED BY <1>1, <2>1, <2>2
  <1> QED BY <1>3, <1>4, <1>5 DEF Enlists

\* K is where a list g of n numbers has those of J.
PlacedAt(K, g, n, J) == K \in SUBSET (1 .. n) /\ \A k \in 1 .. n : k \in K <=> g[k] \in J

\* The first place of a part in a list is that of its least number.
LEMMA ListedLeast ==
    ASSUME NEW I \in SUBSET Nat, NEW n \in Nat, NEW g, NEW J \in SUBSET I, Enlists(g, n, I),
           NEW K, PlacedAt(K, g, n, J)
    PROVE  /\ K = {} <=> J = {}
           /\ K # {} => Min(K) \in K /\ g[Min(K)] = Min(J)
  <1>0. K \in SUBSET (1 .. n) /\ \A k \in 1 .. n : k \in K <=> g[k] \in J
    BY DEF PlacedAt
  <1>1. /\ \A k \in 1 .. n : g[k] \in I /\ g[k] \in Nat
        /\ \A k, l \in 1 .. n : k < l => g[k] < g[l]
        /\ \A i \in I : \E k \in 1 .. n : g[k] = i
    BY DEF Enlists
  <1>2. \A i \in J : \E k \in K : g[k] = i
    <2>1. ASSUME NEW i \in J PROVE \E k \in K : g[k] = i
      <3>1. PICK k \in 1 .. n : g[k] = i
        BY <1>1
      <3> QED BY <1>0, <3>1
    <2> QED BY <2>1
  <1>3. K = {} <=> J = {}
    BY <1>0, <1>2
  <1>4. ASSUME K # {} PROVE Min(K) \in K /\ g[Min(K)] = Min(J)
    <2>1. K \in SUBSET Nat /\ J \in SUBSET Nat /\ J # {} /\ \A k \in K : k \in 1 .. n /\ g[k] \in J
      <3>1. K \in SUBSET Nat /\ J \in SUBSET Nat
        BY <1>0
      <3>2. \A k \in K : k \in 1 .. n /\ g[k] \in J
        BY <1>0
      <3> QED BY <1>3, <1>4, <3>1, <3>2
    <2>2. Min(K) \in K /\ \A k \in K : Min(K) <= k
      BY <1>4, <2>1, LeastOf
    <2>3. Min(J) \in J /\ \A i \in J : Min(J) <= i
      BY <2>1, LeastOf
    <2>4. PICK k \in K : g[k] = Min(J)
      BY <1>2, <2>3
    <2> DEFINE a == Min(K)
               b == Min(J)
    <2> HIDE DEF a, b
    <2>5. /\ a \in 1 .. n /\ k \in 1 .. n /\ a <= k /\ g[a] \in Nat /\ g[k] = b /\ b \in Nat
          /\ b <= g[a]
      BY <1>1, <2>1, <2>2, <2>3, <2>4 DEF a, b
    <2>6. a = k \/ a < k
      BY <2>5
    <2>7. g[a] <= b
      BY <1>1, <2>5, <2>6
    <2>8. g[a] = b
      BY <2>5, <2>7
    <2> QED BY <2>2, <2>8 DEF a, b
  <1> QED BY <1>3, <1>4

\* The elements of d are those of L at the numbers that g lists.
Reads(d, L, g, n) == \A p \in 1 .. n : d[p] = L[g[p]]

\* The parts of s are one element of f or none.
Optional(s, n, f, W) == DOMAIN s = 1 .. n /\ \A i \in 1 .. n : s[i] = IF i \in W THEN << f[i] >> ELSE <<>>

\* What is joined of them.
LEMMA OptionalJoined ==
    ASSUME NEW n \in Nat, NEW f, NEW W \in SUBSET (1 .. n), NEW S, \A i \in W : f[i] \in S,
           NEW s \in Seq(Seq(S)), Optional(s, n, f, W)
    PROVE  LET t == Flatten(s)
           IN t \in Seq(S) /\ \E g : Enlists(g, Len(t), W) /\ Reads(t, f, g, Len(t))
  <1> DEFINE t == Flatten(s)
  <1>1. s \in Seq(Seq(S)) /\ Len(s) = n
    BY DEF Optional
  <1>2. \A i \in 1 .. n : /\ i \in W => DOMAIN s[i] = {1} /\ s[i][1] = f[i]
                          /\ i \notin W => DOMAIN s[i] = {}
    BY DEF Optional
  <1>3. t \in Seq(S) /\ \E m : Joins(t, s, n, m)
    BY <1>1, FlattenPositions
  <1> HIDE DEF t
  <1>4. PICK m : Joins(t, s, n, m)
    BY <1>3
  <1>5. /\ \A p \in 1 .. Len(t) : /\ m[p] \in Nat \X Nat
                                  /\ m[p][1] \in 1 .. n /\ m[p][2] \in DOMAIN s[m[p][1]]
                                  /\ t[p] = s[m[p][1]][m[p][2]]
        /\ \A p, q \in 1 .. Len(t) : p # q => m[p] # m[q]
        /\ \A p, q \in 1 .. Len(t) : p < q => m[p][1] <= m[q][1]
        /\ \A i \in 1 .. n : \A k \in DOMAIN s[i] : \E p \in 1 .. Len(t) : m[p] = <<i, k>>
    BY <1>4 DEF Joins
  <1> DEFINE g == [p \in 1 .. Len(t) |-> m[p][1]]
  <1>6. ASSUME NEW p \in 1 .. Len(t)
        PROVE  g[p] \in W /\ m[p][2] = 1 /\ t[p] = f[g[p]] /\ g[p] \in Nat
    <2>1. m[p][1] \in 1 .. n /\ m[p][2] \in DOMAIN s[m[p][1]] /\ t[p] = s[m[p][1]][m[p][2]]
      BY <1>5
    <2>2. m[p][1] \in W
      BY <1>2, <2>1
    <2>3. m[p][2] = 1
      BY <1>2, <2>1, <2>2
    <2>4. t[p] = f[m[p][1]]
      BY <1>2, <2>1, <2>2, <2>3
    <2> QED BY <2>1, <2>2, <2>3, <2>4
  <1>7. ASSUME NEW p \in 1 .. Len(t), NEW q \in 1 .. Len(t), p < q PROVE g[p] < g[q]
    <2>1. Len(t) \in Nat
      BY <1>3
    <2>2. p # q
      BY <1>7, <2>1
    <2>3. m[p] # m[q] /\ m[p] \in Nat \X Nat /\ m[q] \in Nat \X Nat
      BY <1>5, <2>2
    <2>5. m[p][2] = 1 /\ m[q][2] = 1
      BY <1>6
    <2>6. m[p] = <<m[p][1], m[p][2]>> /\ m[q] = <<m[q][1], m[q][2]>>
      BY <2>3
    <2>4. m[p][1] # m[q][1]
      BY <2>3, <2>5, <2>6
    <2> QED BY <1>5, <1>6, <1>7, <2>4
  <1>8. ASSUME NEW i \in W PROVE \E p \in 1 .. Len(t) : g[p] = i
    <2>1. i \in 1 .. n /\ 1 \in DOMAIN s[i]
      BY <1>2
    <2>2. PICK p \in 1 .. Len(t) : m[p] = <<i, 1>>
      BY <1>5, <2>1
    <2> QED BY <2>2
  <1>9. Enlists(g, Len(t), W)
    BY <1>6, <1>7, <1>8 DEF Enlists
  <1> HIDE DEF g
  <1>10. \E h : Enlists(h, Len(t), W) /\ Reads(t, f, h, Len(t))
    BY <1>6, <1>9 DEF Reads
  <1> QED BY <1>3, <1>10 DEF t

\* What is joined has the elements of its parts.
LEMMA FlattenElements ==
    ASSUME NEW S, NEW s \in Seq(Seq(S))
    PROVE  \A x : x \in Elements(Flatten(s)) <=> \E i \in DOMAIN s : x \in Elements(s[i])
  <1> DEFINE t == Flatten(s)
  <1>1. t \in Seq(S) /\ \E m : Joins(t, s, Len(s), m)
    BY FlattenPositions
  <1> HIDE DEF t
  <1>2. PICK m : Joins(t, s, Len(s), m)
    BY <1>1
  <1>3. DOMAIN t = 1 .. Len(t) /\ DOMAIN s = 1 .. Len(s)
    BY <1>1
  <1>4. \A p \in DOMAIN t : \E i \in DOMAIN s : t[p] \in Elements(s[i])
    BY <1>2, <1>3 DEF Joins, Elements
  <1>5. ASSUME NEW i \in DOMAIN s, NEW k \in DOMAIN s[i] PROVE \E p \in DOMAIN t : t[p] = s[i][k]
    <2>1. PICK p \in 1 .. Len(t) : m[p] = <<i, k>>
      BY <1>2, <1>3 DEF Joins
    <2>2. t[p] = s[m[p][1]][m[p][2]]
      BY <1>2 DEF Joins
    <2> QED BY <1>3, <2>1, <2>2
  <1>6. \A x : x \in Elements(t) <=> \E i \in DOMAIN s : x \in Elements(s[i])
    BY <1>4, <1>5 DEF Elements
  <1> QED BY <1>6 DEF t
=============================================================================
