------------------------------ MODULE Iteration ------------------------------
(***************************************************************************)
(* What the proofs need of the naturals, of iterated functions, and of     *)
(* sets that grow until they are closed.                                   *)
(***************************************************************************)
EXTENDS Integers, FiniteSets, TLAPS, FiniteSetTheorems, FunctionTheorems, NaturalsInduction,
        WellFoundedInduction

-----------------------------------------------------------------------------
(* Minima, maxima, induction and iteration over the naturals.              *)

\* Every nonempty set of naturals has a least element.
LEMMA LeastExists ==
  ASSUME NEW S \in SUBSET Nat, S # {}
  PROVE  \E m \in S : \A k \in S : m <= k
<1>1. PICK m \in S : \A k \in S : ~(<<k, m>> \in OpToRel(<, Nat))
  BY WFMin, NatLessThanWellFounded, Zenon
<1>2. \A k \in S : ~(k < m)
  BY <1>1, Zenon DEF OpToRel
<1> QED BY <1>2

\* Every nonempty bounded set of naturals has a greatest element.
LEMMA GreatestExists ==
  ASSUME NEW n \in Nat, NEW S \in SUBSET (0 .. n), S # {}
  PROVE  \E m \in S : \A k \in S : k <= m
<1> DEFINE B == {u \in Nat : \A k \in S : k <= u}
<1>1. n \in B /\ B \subseteq Nat
  OBVIOUS
<1>2. PICK u \in B : \A w \in B : u <= w
  BY <1>1, LeastExists
<1>3. u \in S
  <2> SUFFICES ASSUME u \notin S PROVE FALSE
    OBVIOUS
  <2>1. PICK k \in S : TRUE
    OBVIOUS
  <2>2. u - 1 \in B
    BY <2>1
  <2> QED BY <2>2, <1>2
<1> QED BY <1>3

\* What holds of 0 and of every successor holds of every natural.
LEMMA NatSetInduction ==
  ASSUME NEW S, 0 \in S, \A n \in Nat : n \in S => n + 1 \in S
  PROVE  Nat \subseteq S
<1> DEFINE T == {n \in Nat : n \notin S}
<1> SUFFICES ASSUME T # {} PROVE FALSE
  OBVIOUS
<1>1. PICK m \in T : \A k \in T : m <= k
  BY LeastExists
<1>2. m # 0 /\ m - 1 \in Nat /\ m - 1 \in S
  BY <1>1
<1>3. (m - 1) + 1 \in S
  BY <1>2
<1> QED BY <1>3, <1>1

\* A function on a set can be iterated from any of its elements.
LEMMA Iterates ==
  ASSUME NEW S, NEW x \in S, NEW F \in [S -> S]
  PROVE  \E f \in [Nat -> S] : f[0] = x /\ \A n \in Nat : f[n + 1] = F[f[n]]
<1> DEFINE G(n) == {g \in [0 .. n -> S] : g[0] = x /\ \A k \in 0 .. (n - 1) : g[k + 1] = F[g[k]]}
<1>1. \A n \in Nat : G(n) # {}
  <2> DEFINE A == {n \in Nat : G(n) # {}}
  <2>1. 0 \in A
    <3>1. [k \in 0 .. 0 |-> x] \in G(0)
      OBVIOUS
    <3> QED BY <3>1
  <2>2. ASSUME NEW n \in Nat, n \in A PROVE n + 1 \in A
    <3>1. PICK g \in G(n) : TRUE
      BY <2>2
    <3>2. g[n] \in S /\ F[g[n]] \in S
      BY <3>1
    <3> DEFINE h == [k \in 0 .. (n + 1) |-> IF k = n + 1 THEN F[g[n]] ELSE g[k]]
    <3>3. h \in [0 .. (n + 1) -> S]
      BY <3>1, <3>2
    <3>4. h[0] = x
      BY <3>1
    <3>5. ASSUME NEW k \in 0 .. n PROVE h[k + 1] = F[h[k]]
      <4>1. CASE k = n
        BY <4>1
      <4>2. CASE k # n
        BY <4>2, <3>1
      <4> QED BY <4>1, <4>2
    <3>6. h \in G(n + 1)
      BY <3>3, <3>4, <3>5
    <3> HIDE DEF G, h
    <3> QED BY <3>6
  <2> HIDE DEF A
  <2>3. Nat \subseteq A
    BY <2>1, <2>2, NatSetInduction
  <2> QED BY <2>3 DEF A
<1>2. ASSUME NEW n \in Nat, NEW m \in Nat, n <= m, NEW g \in G(n), NEW h \in G(m)
      PROVE  g[n] = h[n]
  <2> DEFINE A == {k \in Nat : k <= n => g[k] = h[k]}
  <2>1. 0 \in A
    OBVIOUS
  <2>2. ASSUME NEW k \in Nat, k \in A PROVE k + 1 \in A
    <3> SUFFICES ASSUME k + 1 <= n PROVE g[k + 1] = h[k + 1]
      OBVIOUS
    <3>1. k \in 0 .. (n - 1) /\ k \in 0 .. (m - 1) /\ g[k] = h[k]
      BY <1>2, <2>2
    <3> QED BY <3>1, <1>2
  <2> HIDE DEF A
  <2>3. n \in A
    BY <2>1, <2>2, NatSetInduction
  <2> QED BY <2>3 DEF A
<1> DEFINE pick == [n \in Nat |-> CHOOSE g \in G(n) : TRUE]
           f == [n \in Nat |-> pick[n][n]]
<1> HIDE DEF G
<1>3. \A n \in Nat : pick[n] \in G(n)
  BY <1>1
<1> HIDE DEF pick
<1>4. f \in [Nat -> S]
  BY <1>3 DEF G
<1>5. f[0] = x
  BY <1>3 DEF G
<1>6. ASSUME NEW n \in Nat PROVE f[n + 1] = F[f[n]]
  <2>1. pick[n + 1] \in G(n + 1) /\ pick[n] \in G(n)
    BY <1>3
  <2>2. pick[n][n] = pick[n + 1][n]
    BY <2>1, <1>2
  <2>3. pick[n + 1][n + 1] = F[pick[n + 1][n]]
    BY <2>1 DEF G
  <2> QED BY <2>2, <2>3
<1> QED BY <1>4, <1>5, <1>6

\* The same, with the conditions named.
SelfMap(F, S) == F \in [S -> S]
Iterated(f, S, x, F) == f \in [Nat -> S] /\ f[0] = x /\ \A n \in Nat : f[n + 1] = F[f[n]]

LEMMA IteratesTo ==
  ASSUME NEW S, NEW x \in S, NEW F, SelfMap(F, S)
  PROVE  \E f : Iterated(f, S, x, F)
<1>1. F \in [S -> S]
  BY DEF SelfMap
<1>2. \E f \in [Nat -> S] : f[0] = x /\ \A n \in Nat : f[n + 1] = F[f[n]]
  BY <1>1, Iterates
<1> QED BY <1>2 DEF Iterated

\* A function on 0 .. n can be defined by what each value makes of the one before.
Advances(g, n, D) == \A d \in D, i \in 1 .. n : g[<<d, i>>] \in D

LEMMA PrefixRecursion ==
  ASSUME NEW n \in Nat, NEW D, NEW x \in D, NEW g, Advances(g, n, D)
  PROVE  \E f \in [0 .. n -> D] : f[0] = x /\ \A i \in 1 .. n : f[i] = g[<<f[i - 1], i>>]
<1> DEFINE Built(m) == {f \in [0 .. m -> D] : /\ f[0] = x
                                              /\ \A i \in 1 .. m : f[i] = g[<<f[i - 1], i>>]}
           A == {m \in Nat : m <= n => Built(m) # {}}
<1>1. 0 \in A
  <2>1. [i \in 0 .. 0 |-> x] \in Built(0)
    OBVIOUS
  <2> QED BY <2>1
<1>2. ASSUME NEW m \in Nat, m \in A PROVE m + 1 \in A
  <2> SUFFICES ASSUME m + 1 <= n PROVE Built(m + 1) # {}
    OBVIOUS
  <2>1. PICK f \in Built(m) : TRUE
    BY <1>2
  <2>2. f[m] \in D /\ m + 1 \in 1 .. n
    BY <2>1
  <2>3. g[<<f[m], m + 1>>] \in D
    BY <2>2 DEF Advances
  <2> DEFINE h == [i \in 0 .. (m + 1) |-> IF i = m + 1 THEN g[<<f[m], m + 1>>] ELSE f[i]]
  <2>4. h \in [0 .. (m + 1) -> D] /\ h[0] = x
    BY <2>1, <2>3
  <2>5. ASSUME NEW i \in 1 .. (m + 1) PROVE h[i] = g[<<h[i - 1], i>>]
    <3>1. CASE i = m + 1
      BY <3>1, <2>1
    <3>2. CASE i # m + 1
      <4>1. i \in 1 .. m /\ i - 1 \in 0 .. m /\ i - 1 # m + 1
        BY <3>2
      <4>2. h[i] = f[i] /\ h[i - 1] = f[i - 1]
        BY <4>1
      <4> QED BY <4>1, <4>2, <2>1
    <3> QED BY <3>1, <3>2
  <2>6. h \in Built(m + 1)
    BY <2>4, <2>5
  <2> HIDE DEF Built, h
  <2> QED BY <2>6
<1> HIDE DEF A
<1>3. n \in A
  BY <1>1, <1>2, NatSetInduction
<1> QED BY <1>3 DEF A

\* What holds wherever it holds of everything smaller holds everywhere.
LEMMA MeasuredInduction ==
  ASSUME NEW S, NEW mu \in [S -> Nat], NEW T,
         \A x \in S : (\A y \in S : mu[y] < mu[x] => y \in T) => x \in T
  PROVE  S \subseteq T
<1> DEFINE Bad == {mu[x] : x \in {y \in S : y \notin T}}
<1> SUFFICES ASSUME NEW w \in S, w \notin T PROVE FALSE
  OBVIOUS
<1>1. Bad \in SUBSET Nat /\ Bad # {}
  OBVIOUS
<1> HIDE DEF Bad
<1>2. PICK m \in Bad : \A k \in Bad : m <= k
  BY <1>1, LeastExists
<1>3. PICK x \in S : x \notin T /\ m = mu[x]
  BY <1>2 DEF Bad
<1>4. ASSUME NEW y \in S, mu[y] < mu[x] PROVE y \in T
  <2> SUFFICES ASSUME y \notin T PROVE FALSE
    OBVIOUS
  <2>1. mu[y] \in Bad /\ mu[y] \in Nat /\ mu[x] \in Nat
    BY DEF Bad
  <2> QED BY <2>1, <1>2, <1>3, <1>4
<1> QED BY <1>3, <1>4

\* A function is defined by a rule that asks of it only what is smaller.
Local(R, S, D, mu) ==
  /\ mu \in [S -> Nat]
  /\ \A f \in [S -> D], x \in S : R[<<f, x>>] \in D
  /\ \A f, h \in [S -> D], x \in S :
       (\A y \in S : mu[y] < mu[x] => f[y] = h[y]) => R[<<f, x>>] = R[<<h, x>>]

\* Such a rule has a function that obeys it.
LEMMA MeasuredRecursion ==
  ASSUME NEW S, NEW D, NEW d \in D, NEW R, NEW mu, Local(R, S, D, mu)
  PROVE  \E f \in [S -> D] : \A x \in S : f[x] = R[<<f, x>>]
<1> DEFINE M == [S -> D]
           F == [f \in M |-> [x \in S |-> R[<<f, x>>]]]
           f0 == [x \in S |-> d]
<1>0. mu \in [S -> Nat]
  BY DEF Local
<1>1. F \in [M -> M] /\ f0 \in M
  BY DEF Local
<1>2. \A f \in M, x \in S : F[f][x] = R[<<f, x>>]
  OBVIOUS
<1>3. \A f \in M : f \in [S -> D]
  OBVIOUS
<1>4. \A f, h \in M, x \in S :
        (\A y \in S : mu[y] < mu[x] => f[y] = h[y]) => R[<<f, x>>] = R[<<h, x>>]
  BY DEF Local
<1> HIDE DEF M, F, f0
<1>5. PICK g \in [Nat -> M] : g[0] = f0 /\ \A n \in Nat : g[n + 1] = F[g[n]]
  <2>1. SelfMap(F, M) /\ f0 \in M
    BY <1>1 DEF SelfMap
  <2>2. \E g : Iterated(g, M, f0, F)
    BY <2>1, IteratesTo
  <2> QED BY <2>2 DEF Iterated
<1> DEFINE Settles(n) == \A x \in S : mu[x] < n => g[n + 1][x] = g[n][x]
<1>6. \A n \in Nat : Settles(n)
  <2> DEFINE A == {n \in Nat : Settles(n)}
  <2>1. 0 \in A
    BY <1>0
  <2>2. ASSUME NEW n \in Nat, n \in A PROVE n + 1 \in A
    <3> SUFFICES ASSUME NEW x \in S, mu[x] < n + 1 PROVE g[(n + 1) + 1][x] = g[n + 1][x]
      OBVIOUS
    <3>1. g[n] \in M /\ g[n + 1] \in M /\ g[n + 1] = F[g[n]] /\ g[(n + 1) + 1] = F[g[n + 1]]
      BY <1>5
    <3>2. ASSUME NEW y \in S, mu[y] < mu[x] PROVE g[n + 1][y] = g[n][y]
      <4>1. mu[y] < n
        BY <3>2, <1>0
      <4> QED BY <4>1, <2>2
    <3>3. R[<<g[n + 1], x>>] = R[<<g[n], x>>]
      BY <3>1, <3>2, <1>4
    <3> QED BY <3>1, <3>3, <1>2
  <2> HIDE DEF A
  <2>3. Nat \subseteq A
    BY <2>1, <2>2, NatSetInduction
  <2> QED BY <2>3 DEF A
<1>7. ASSUME NEW x \in S, NEW n \in Nat, mu[x] < n PROVE g[n][x] = g[mu[x] + 1][x]
  <2> DEFINE A == {k \in Nat : mu[x] < k => g[k][x] = g[mu[x] + 1][x]}
  <2>0. mu[x] \in Nat
    BY <1>0
  <2>1. 0 \in A
    BY <2>0
  <2>2. ASSUME NEW k \in Nat, k \in A PROVE k + 1 \in A
    <3>1. CASE mu[x] < k
      BY <3>1, <2>2, <1>6
    <3>2. CASE ~(mu[x] < k)
      <4>1. mu[x] < k + 1 => k = mu[x]
        BY <3>2, <2>0
      <4> QED BY <4>1
    <3> QED BY <3>1, <3>2
  <2> HIDE DEF A
  <2>3. n \in A
    BY <2>1, <2>2, NatSetInduction
  <2> QED BY <2>3, <1>7 DEF A
<1> DEFINE f == [x \in S |-> g[mu[x] + 1][x]]
<1>8. f \in [S -> D]
  <2>1. ASSUME NEW x \in S PROVE g[mu[x] + 1][x] \in D
    <3>1. mu[x] + 1 \in Nat
      BY <1>0
    <3>2. g[mu[x] + 1] \in [S -> D]
      BY <3>1, <1>3
    <3> QED BY <3>2
  <2> QED BY <2>1
<1>9. ASSUME NEW x \in S PROVE f[x] = R[<<f, x>>]
  <2>1. mu[x] \in Nat /\ g[mu[x]] \in M /\ f \in M
    BY <1>0, <1>8 DEF M
  <2>2. g[mu[x] + 1] = F[g[mu[x]]]
    BY <2>1, <1>5
  <2>3. f[x] = R[<<g[mu[x]], x>>]
    BY <2>1, <2>2, <1>2
  <2>4. ASSUME NEW y \in S, mu[y] < mu[x] PROVE f[y] = g[mu[x]][y]
    BY <2>1, <2>4, <1>7
  <2>5. R[<<f, x>>] = R[<<g[mu[x]], x>>]
    BY <2>1, <2>4, <1>4
  <2> QED BY <2>3, <2>5
<1> QED BY <1>8, <1>9

-----------------------------------------------------------------------------
(* Growth in a finite set.                                                 *)

\* A monotone step, iterated from the empty set as often as the set has
\* elements, reaches its least fixpoint.
LEMMA ClosureReached ==
  ASSUME NEW P, IsFiniteSet(P), NEW F \in [SUBSET P -> SUBSET P],
         \A X, Y \in SUBSET P : X \subseteq Y => F[X] \subseteq F[Y],
         NEW f \in [Nat -> SUBSET P], f[0] = {}, \A n \in Nat : f[n + 1] = F[f[n]]
  PROVE  /\ F[f[Cardinality(P)]] = f[Cardinality(P)]
         /\ \A X \in SUBSET P : F[X] \subseteq X => f[Cardinality(P)] \subseteq X
<1>0. Cardinality(P) \in Nat
  BY FS_CardinalityType
<1>1. \A n \in Nat : f[n] \subseteq f[n + 1]
  <2> DEFINE A == {n \in Nat : f[n] \subseteq f[n + 1]}
  <2>1. 0 \in A
    OBVIOUS
  <2>2. ASSUME NEW n \in Nat, n \in A PROVE n + 1 \in A
    <3>1. f[n] \in SUBSET P /\ f[n + 1] \in SUBSET P /\ f[n] \subseteq f[n + 1]
      BY <2>2
    <3>2. F[f[n]] \subseteq F[f[n + 1]]
      BY <3>1
    <3>3. f[n + 1] = F[f[n]] /\ f[(n + 1) + 1] = F[f[n + 1]]
      OBVIOUS
    <3> QED BY <3>2, <3>3
  <2> HIDE DEF A
  <2>3. Nat \subseteq A
    BY <2>1, <2>2, NatSetInduction
  <2> QED BY <2>3 DEF A
<1>2. \A n \in Nat : f[n] = f[n + 1] \/ Cardinality(f[n + 1]) >= n + 1
  <2> DEFINE A == {n \in Nat : f[n] = f[n + 1] \/ Cardinality(f[n + 1]) >= n + 1}
  <2>0. \A n \in Nat : IsFiniteSet(f[n]) /\ Cardinality(f[n]) \in Nat
    BY FS_Subset, FS_CardinalityType
  <2>1. 0 \in A
    <3> SUFFICES ASSUME f[0] # f[0 + 1] PROVE Cardinality(f[0 + 1]) >= 0 + 1
      OBVIOUS
    <3>1. f[1] # {} /\ IsFiniteSet(f[1]) /\ Cardinality(f[1]) \in Nat
      BY <2>0
    <3>2. Cardinality(f[1]) # 0
      BY <3>1, FS_EmptySet
    <3> QED BY <3>1, <3>2
  <2>2. ASSUME NEW n \in Nat, n \in A PROVE n + 1 \in A
    <3> SUFFICES ASSUME f[n + 1] # f[(n + 1) + 1]
                 PROVE  Cardinality(f[(n + 1) + 1]) >= (n + 1) + 1
      OBVIOUS
    <3>1. f[n + 1] = F[f[n]] /\ f[(n + 1) + 1] = F[f[n + 1]]
      OBVIOUS
    <3>2. f[n] # f[n + 1]
      BY <3>1
    <3>3. Cardinality(f[n + 1]) >= n + 1
      BY <3>2, <2>2
    <3>4. f[n + 1] \in SUBSET f[(n + 1) + 1]
      BY <1>1
    <3>5. Cardinality(f[n + 1]) <= Cardinality(f[(n + 1) + 1])
          /\ Cardinality(f[n + 1]) # Cardinality(f[(n + 1) + 1])
      BY <3>4, <2>0, FS_Subset
    <3>6. Cardinality(f[n + 1]) \in Nat /\ Cardinality(f[(n + 1) + 1]) \in Nat
      BY <2>0
    <3>7. \A c, d \in Nat : (c >= n + 1 /\ c <= d /\ c # d) => d >= (n + 1) + 1
      OBVIOUS
    <3> QED BY <3>3, <3>5, <3>6, <3>7, Zenon
  <2> HIDE DEF A
  <2>3. Nat \subseteq A
    BY <2>1, <2>2, NatSetInduction
  <2> QED BY <2>3 DEF A
<1>3. f[Cardinality(P)] = f[Cardinality(P) + 1]
  <2> SUFFICES ASSUME f[Cardinality(P)] # f[Cardinality(P) + 1] PROVE FALSE
    OBVIOUS
  <2>1. Cardinality(f[Cardinality(P) + 1]) >= Cardinality(P) + 1
    BY <1>0, <1>2
  <2>2. f[Cardinality(P) + 1] \in SUBSET P
    BY <1>0
  <2>3. /\ Cardinality(f[Cardinality(P) + 1]) <= Cardinality(P)
        /\ IsFiniteSet(f[Cardinality(P) + 1])
    BY <2>2, FS_Subset
  <2>4. Cardinality(f[Cardinality(P) + 1]) \in Nat
    BY <2>3, FS_CardinalityType
  <2> QED BY <2>1, <2>3, <2>4, <1>0
<1>4. ASSUME NEW X \in SUBSET P, F[X] \subseteq X PROVE f[Cardinality(P)] \subseteq X
  <2> DEFINE A == {n \in Nat : f[n] \subseteq X}
  <2>1. 0 \in A
    OBVIOUS
  <2>2. ASSUME NEW n \in Nat, n \in A PROVE n + 1 \in A
    <3>1. F[f[n]] \subseteq F[X]
      BY <2>2
    <3> QED BY <3>1, <1>4
  <2> HIDE DEF A
  <2>3. Nat \subseteq A
    BY <2>1, <2>2, NatSetInduction
  <2> QED BY <2>3, <1>0 DEF A
<1> QED BY <1>0, <1>3, <1>4

\* What a monotone step adds to a set again and again: there is such a sequence,
Monotone(M, P) == /\ M \in [SUBSET P -> SUBSET P]
                  /\ \A X, Y \in SUBSET P : X \subseteq Y => M[X] \subseteq M[Y]

Grows(g, n, Z, M, P) ==
  /\ g[0] = Z
  /\ \A k \in 1 .. n : g[k - 1] \in SUBSET P => g[k] = g[k - 1] \cup M[g[k - 1]]

IsClosure(C, Z, M, P) ==
  /\ C \in SUBSET P /\ Z \subseteq C /\ M[C] \subseteq C
  /\ \A Y \in SUBSET P : (Z \subseteq Y /\ M[Y] \subseteq Y) => C \subseteq Y

LEMMA GrowthExists ==
  ASSUME NEW P, NEW n \in Nat, NEW Z \in SUBSET P, NEW M, Monotone(M, P)
  PROVE  \E g \in [0 .. n -> SUBSET P] : Grows(g, n, Z, M, P)
<1> DEFINE D == SUBSET P
           e == [p \in D \X (1 .. n) |-> p[1] \cup M[p[1]]]
<1>1. ASSUME NEW X \in D, NEW k \in 1 .. n PROVE e[<<X, k>>] = X \cup M[X] /\ e[<<X, k>>] \in D
  BY DEF Monotone
<1>2. Advances(e, n, D)
  BY <1>1 DEF Advances
<1>3. Z \in D
  OBVIOUS
<1> HIDE DEF D, e
<1>4. PICK g \in [0 .. n -> D] : g[0] = Z /\ \A k \in 1 .. n : g[k] = e[<<g[k - 1], k>>]
  BY <1>2, <1>3, PrefixRecursion
<1>5. ASSUME NEW k \in 1 .. n PROVE g[k] = g[k - 1] \cup M[g[k - 1]]
  <2>1. k - 1 \in 0 .. n
    OBVIOUS
  <2>2. g[k - 1] \in D
    BY <2>1
  <2> QED BY <2>2, <1>1, <1>4
<1> QED BY <1>4, <1>5 DEF D, Grows

\* and by the time it has as many steps as there are elements, it has closed.
LEMMA GrowthCloses ==
  ASSUME NEW P, IsFiniteSet(P), NEW Z \in SUBSET P, NEW M, Monotone(M, P),
         NEW g, Grows(g, Cardinality(P), Z, M, P)
  PROVE  IsClosure(g[Cardinality(P)], Z, M, P)
<1> DEFINE D == SUBSET P
           n == Cardinality(P)
           F == [X \in D |-> Z \cup X \cup M[X]]
<1>0. n \in Nat
  BY FS_CardinalityType
<1> DEFINE MonotoneM == /\ M \in [D -> D]
                        /\ \A X, Y \in D : X \subseteq Y => M[X] \subseteq M[Y]
<1>m. MonotoneM
  BY DEF Monotone
<1>g. g[0] = Z /\ \A k \in 1 .. n : g[k - 1] \in D => g[k] = g[k - 1] \cup M[g[k - 1]]
  BY DEF Grows
<1>1. F \in [D -> D] /\ \A X \in D : F[X] = Z \cup X \cup M[X]
  BY <1>m
<1>2. {} \in D
  OBVIOUS
<1>3. \A X, Y \in D : X \subseteq Y => F[X] \subseteq F[Y]
  BY <1>1, <1>m
<1> HIDE DEF F, MonotoneM, n
<1>4. PICK f \in [Nat -> D] : f[0] = {} /\ \A k \in Nat : f[k + 1] = F[f[k]]
  <2>1. {} \in D /\ SelfMap(F, D)
    BY <1>1, <1>2 DEF SelfMap
  <2> HIDE DEF D
  <2>2. \E f : Iterated(f, D, {}, F)
    BY <2>1, IteratesTo
  <2> QED BY <2>2 DEF Iterated
<1>5. F[f[n]] = f[n] /\ \A X \in D : F[X] \subseteq X => f[n] \subseteq X
  <2>1. F \in [SUBSET P -> SUBSET P] /\ f \in [Nat -> SUBSET P]
    BY <1>1
  <2>2. \A X, Y \in SUBSET P : X \subseteq Y => F[X] \subseteq F[Y]
    BY <1>3
  <2>3. f[0] = {} /\ \A k \in Nat : f[k + 1] = F[f[k]]
    BY <1>4
  <2>4. /\ F[f[Cardinality(P)]] = f[Cardinality(P)]
        /\ \A X \in SUBSET P : F[X] \subseteq X => f[Cardinality(P)] \subseteq X
    BY <2>1, <2>2, <2>3, ClosureReached
  <2> QED BY <2>4 DEF n
\* The sequence from Z is between the one from the empty set and the closure.
<1>6. ASSUME NEW Y \in D, Z \subseteq Y, M[Y] \subseteq Y
      PROVE  \A k \in Nat : k <= n => g[k] \in D /\ g[k] \subseteq Y
  <2> DEFINE A == {k \in Nat : k <= n => g[k] \in D /\ g[k] \subseteq Y}
  <2>1. 0 \in A
    BY <1>6, <1>g
  <2>2. ASSUME NEW k \in Nat, k \in A PROVE k + 1 \in A
    <3> SUFFICES ASSUME k + 1 <= n PROVE g[k + 1] \in D /\ g[k + 1] \subseteq Y
      OBVIOUS
    <3>1. k + 1 \in 1 .. n /\ (k + 1) - 1 = k /\ k <= n
      BY <1>0
    <3>2. g[k] \in D /\ g[k] \subseteq Y
      BY <3>1, <2>2
    <3>3. g[k + 1] = g[k] \cup M[g[k]]
      BY <3>1, <3>2, <1>g
    <3>4. M[g[k]] \subseteq M[Y]
      BY <3>2, <1>m, <1>6 DEF MonotoneM
    <3> QED BY <3>2, <3>3, <3>4, <1>6
  <2> HIDE DEF A
  <2>3. Nat \subseteq A
    BY <2>1, <2>2, NatSetInduction
  <2> QED BY <2>3 DEF A
<1>7. \A k \in Nat : k <= n => g[k] \in D /\ f[k] \subseteq g[k] /\ Z \subseteq g[k]
  <2>0. \A k \in Nat : k <= n => g[k] \in D
    <3>1. P \in D /\ Z \subseteq P /\ M[P] \subseteq P
      BY <1>m DEF MonotoneM
    <3> QED BY <3>1, <1>6
  <2> DEFINE A == {k \in Nat : k <= n => f[k] \subseteq g[k] /\ Z \subseteq g[k]}
  <2>1. 0 \in A
    BY <1>4, <1>g
  <2>2. ASSUME NEW k \in Nat, k \in A PROVE k + 1 \in A
    <3> SUFFICES ASSUME k + 1 <= n PROVE f[k + 1] \subseteq g[k + 1] /\ Z \subseteq g[k + 1]
      OBVIOUS
    <3>1. k + 1 \in 1 .. n /\ (k + 1) - 1 = k /\ k <= n
      BY <1>0
    <3>2. g[k] \in D /\ f[k] \in D /\ f[k] \subseteq g[k] /\ Z \subseteq g[k]
      BY <3>1, <2>2, <2>0, <1>4
    <3>3. g[k + 1] = g[k] \cup M[g[k]]
      BY <3>1, <3>2, <1>g
    <3>4. M[f[k]] \subseteq M[g[k]]
      BY <3>2, <1>m DEF MonotoneM
    <3>5. f[k + 1] = Z \cup f[k] \cup M[f[k]]
      BY <3>2, <1>1, <1>4
    <3> QED BY <3>2, <3>3, <3>4, <3>5
  <2> HIDE DEF A
  <2>3. Nat \subseteq A
    BY <2>1, <2>2, NatSetInduction
  <2> QED BY <2>0, <2>3 DEF A
<1>8. f[n] \in D /\ Z \subseteq f[n] /\ M[f[n]] \subseteq f[n]
  BY <1>0, <1>1, <1>4, <1>5
<1>9. g[n] = f[n]
  <2>1. n \in Nat /\ n <= n
    BY <1>0
  <2>2. f[n] \subseteq g[n]
    BY <2>1, <1>7
  <2>3. g[n] \subseteq f[n]
    BY <2>1, <1>6, <1>8
  <2> QED BY <2>2, <2>3
<1> QED BY <1>8, <1>9, <1>5, <1>6, <1>0 DEF IsClosure, n

=============================================================================
