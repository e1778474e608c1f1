--------------------------- MODULE DominatorsProofs ---------------------------
(***************************************************************************)
(* Proofs about Dominators, for every set of blocks and all their graphs.  *)
(* The search keeps SearchInv: what it has seen it can reach, each block   *)
(* once, and every block stands behind one that leads to it; so when it    *)
(* ends, the order numbers the reachable blocks and each comes after one   *)
(* of its predecessors. The sweeps keep SweepInv: the tree climbs by that  *)
(* order, the two fingers find the join of two walks up it, and no walk    *)
(* ever passes a dominator by. A sweep that changes nothing leaves every   *)
(* block below what its predecessors share, and what a walk up meets then  *)
(* cannot be avoided on any path: a walk meets the dominators, all of them *)
(* and nothing else. On such a tree, loops are least sets closed under     *)
(* predecessors up to their header, and what the loop passes rely on       *)
(* follows: they nest, they are the cycles of a reducible graph, and a     *)
(* preheader is the immediate dominator of its header.                     *)
(***************************************************************************)
EXTENDS Dominators, Iteration, SequenceTheorems

-----------------------------------------------------------------------------
(* What may be reached while a block is avoided.                           *)

\* Edges lead to blocks.
IsGraph == \A b \in Blocks : ToSet(succs[b]) \subseteq Blocks

\* From(S, avoid) is the least set that holds S and what its blocks lead to,
\* without the block avoided.
LEMMA FromIsLeast ==
  ASSUME IsGraph, NEW S \in SUBSET Blocks, NEW avoid
  PROVE  /\ From(S, avoid) \in SUBSET Blocks
         /\ S \ {avoid} \subseteq From(S, avoid)
         /\ \A b \in From(S, avoid) : ToSet(succs[b]) \ {avoid} \subseteq From(S, avoid)
         /\ \A Y \in SUBSET Blocks :
              (S \ {avoid} \subseteq Y /\ \A b \in Y : ToSet(succs[b]) \ {avoid} \subseteq Y)
                => From(S, avoid) \subseteq Y
<1> DEFINE n == Cardinality(Blocks)
           Z == S \ {avoid}
           more(X) == (UNION {ToSet(succs[b]) : b \in X}) \ {avoid}
           M == [X \in SUBSET Blocks |-> more(X)]
           Grow == CHOOSE Grow : Grow = [k \in 0 .. n |-> IF k = 0 THEN S \ {avoid}
                                                          ELSE Grow[k - 1] \cup more(Grow[k - 1])]
<1>0. n \in Nat /\ IsFiniteSet(Blocks) /\ Z \in SUBSET Blocks
  BY FS_CardinalityType, BlocksAssumption
<1>1. From(S, avoid) = Grow[n]
  BY DEF From
<1>2. Monotone(M, Blocks) /\ \A X \in SUBSET Blocks : M[X] = more(X)
  BY DEF IsGraph, Monotone
<1> HIDE DEF M, n
<1>3. PICK g \in [0 .. n -> SUBSET Blocks] : Grows(g, n, Z, M, Blocks)
  <2> HIDE DEF Z, Grow
  <2> QED BY <1>0, <1>2, GrowthExists
<1> HIDE DEF more
<1>4. \A k \in 0 .. n : g[k] = IF k = 0 THEN Z ELSE g[k - 1] \cup more(g[k - 1])
  <2>1. \A k \in 1 .. n : g[k - 1] \in SUBSET Blocks
    <3>1. \A k \in 1 .. n : k - 1 \in 0 .. n
      BY <1>0
    <3> HIDE DEF Grow, Z
    <3> QED BY <3>1, <1>3
  <2> QED BY <1>0, <1>2, <1>3, <2>1 DEF Grows
<1>5. g = [k \in 0 .. n |-> IF k = 0 THEN Z ELSE g[k - 1] \cup more(g[k - 1])]
  <2>1. g = [k \in 0 .. n |-> g[k]]
    BY <1>3
  <2> QED BY <2>1, <1>4
<1>6. Grow = [k \in 0 .. n |-> IF k = 0 THEN Z ELSE Grow[k - 1] \cup more(Grow[k - 1])]
  BY <1>5
<1> HIDE DEF Grow
<1>7. Grow[0] = Z /\ \A k \in 1 .. n : Grow[k] = Grow[k - 1] \cup more(Grow[k - 1])
  <2>1. 0 \in 0 .. n /\ \A k \in 1 .. n : k \in 0 .. n /\ k # 0
    BY <1>0
  <2>2. \A k \in 0 .. n : Grow[k] = IF k = 0 THEN Z ELSE Grow[k - 1] \cup more(Grow[k - 1])
    BY <1>6
  <2> QED BY <2>1, <2>2
<1>8. Grows(Grow, n, Z, M, Blocks)
  BY <1>2, <1>7 DEF Grows
<1>9. IsClosure(Grow[n], Z, M, Blocks)
  <2> HIDE DEF Z
  <2> QED BY <1>0, <1>2, <1>8, GrowthCloses DEF n
<1>10. \A b \in Grow[n] : ToSet(succs[b]) \ {avoid} \subseteq Grow[n]
  BY <1>2, <1>9 DEF more, IsClosure
<1>11. \A Y \in SUBSET Blocks : (\A b \in Y : ToSet(succs[b]) \ {avoid} \subseteq Y) => M[Y] \subseteq Y
  BY <1>2 DEF more
<1> HIDE DEF Z
<1>12. /\ Grow[n] \in SUBSET Blocks /\ Z \subseteq Grow[n]
       /\ \A Y \in SUBSET Blocks : (Z \subseteq Y /\ M[Y] \subseteq Y) => Grow[n] \subseteq Y
  BY <1>9 DEF IsClosure
<1>13. \A Y \in SUBSET Blocks :
         (Z \subseteq Y /\ \A b \in Y : ToSet(succs[b]) \ {avoid} \subseteq Y) => Grow[n] \subseteq Y
  BY <1>11, <1>12
<1> QED BY <1>1, <1>10, <1>12, <1>13 DEF Z

\* The block avoided is not reached.
LEMMA AvoidedIsOut ==
  ASSUME IsGraph, NEW S \in SUBSET Blocks, NEW avoid
  PROVE  avoid \notin From(S, avoid)
<1> DEFINE Y == Blocks \ {avoid}
<1>1. S \ {avoid} \subseteq Y /\ \A b \in Y : ToSet(succs[b]) \ {avoid} \subseteq Y
  BY DEF IsGraph
<1>2. From(S, avoid) \subseteq Y
  BY <1>1, FromIsLeast
<1> QED BY <1>2

\* What can be reached at all.
LEMMA ReachableIsLeast ==
  ASSUME IsGraph
  PROVE  /\ Reachable \in SUBSET Blocks /\ Start \in Reachable
         /\ \A b \in Reachable : ToSet(succs[b]) \subseteq Reachable
         /\ \A Y \in SUBSET Blocks :
              (Start \in Y /\ \A b \in Y : ToSet(succs[b]) \subseteq Y) => Reachable \subseteq Y
<1>1. {Start} \in SUBSET Blocks /\ {Start} \ {NoNode} = {Start}
  BY BlocksAssumption
<1>2. \A b \in Blocks : ToSet(succs[b]) \subseteq Blocks /\ ToSet(succs[b]) \ {NoNode} = ToSet(succs[b])
  BY BlocksAssumption DEF IsGraph
<1> DEFINE R == From({Start}, NoNode)
<1>3. /\ R \in SUBSET Blocks /\ {Start} \ {NoNode} \subseteq R
      /\ \A b \in R : ToSet(succs[b]) \ {NoNode} \subseteq R
      /\ \A Y \in SUBSET Blocks :
           ({Start} \ {NoNode} \subseteq Y /\ \A b \in Y : ToSet(succs[b]) \ {NoNode} \subseteq Y)
             => R \subseteq Y
  BY <1>1, FromIsLeast
<1>4. Reachable = R
  BY DEF Reachable
<1> HIDE DEF R
<1>5. R \in SUBSET Blocks /\ Start \in R /\ \A b \in R : ToSet(succs[b]) \subseteq R
  BY <1>1, <1>2, <1>3
<1>6. ASSUME NEW Y \in SUBSET Blocks, Start \in Y, \A b \in Y : ToSet(succs[b]) \subseteq Y
      PROVE  R \subseteq Y
  <2>1. {Start} \ {NoNode} \subseteq Y /\ \A b \in Y : ToSet(succs[b]) \ {NoNode} \subseteq Y
    BY <1>6, <1>1
  <2> QED BY <2>1, <1>3
<1> QED BY <1>4, <1>5, <1>6

\* What dominates a block dominates each predecessor, unless it is the block.
LEMMA DominatesPredecessor ==
  ASSUME IsGraph, NEW a \in Blocks, NEW b \in Blocks, NEW p \in Blocks,
         b \in ToSet(succs[p]), a # b, TrulyDominates(a, b)
  PROVE  TrulyDominates(a, p)
<1>1. {Start} \in SUBSET Blocks
  BY BlocksAssumption
<1> QED BY <1>1, FromIsLeast DEF TrulyDominates

-----------------------------------------------------------------------------
(* Walking up a tree f of immediate dominators.                            *)

Rising(f, X) == \A x \in X : f[x] \in Blocks => f[x] \in X

\* The blocks a walk from b meets: those in every set that holds b and is closed
\* under f.
Above(f, b) == {a \in Blocks : \A X \in SUBSET Blocks : (b \in X /\ Rising(f, X)) => a \in X}

\* It is the least such set.
LEMMA AboveIsLeast ==
  ASSUME NEW f, NEW b \in Blocks
  PROVE  /\ Above(f, b) \in SUBSET Blocks /\ b \in Above(f, b) /\ Rising(f, Above(f, b))
         /\ \A X \in SUBSET Blocks : (b \in X /\ Rising(f, X)) => Above(f, b) \subseteq X
BY DEF Above, Rising

\* One step up, then the walk from there.
LEMMA AboveStep ==
  ASSUME NEW f, NEW b \in Blocks
  PROVE  /\ f[b] \in Blocks => Above(f, b) = {b} \cup Above(f, f[b])
         /\ f[b] \notin Blocks => Above(f, b) = {b}
<1>1. ASSUME f[b] \in Blocks PROVE Above(f, b) = {b} \cup Above(f, f[b])
  <2>1. Above(f, f[b]) \subseteq Above(f, b)
    BY <1>1, AboveIsLeast DEF Rising
  <2> DEFINE X == {b} \cup Above(f, f[b])
  <2>2. X \in SUBSET Blocks /\ b \in X /\ Rising(f, X)
    BY <1>1, AboveIsLeast DEF Rising
  <2>3. Above(f, b) \subseteq X
    BY <2>2, AboveIsLeast
  <2> QED BY <2>1, <2>3, AboveIsLeast
<1>2. ASSUME f[b] \notin Blocks PROVE Above(f, b) = {b}
  <2>1. {b} \in SUBSET Blocks /\ Rising(f, {b})
    BY <1>2 DEF Rising
  <2> QED BY <2>1, AboveIsLeast
<1> QED BY <1>1, <1>2

\* A walk from somewhere on a walk stays on it.
LEMMA AboveTrans ==
  ASSUME NEW f, NEW b \in Blocks, NEW a \in Above(f, b)
  PROVE  a \in Blocks /\ Above(f, a) \subseteq Above(f, b)
BY AboveIsLeast

\* A change at a block that a walk does not meet leaves the walk alone.
LEMMA AboveUnchanged ==
  ASSUME NEW f, NEW g, NEW b \in Blocks, NEW c \in Blocks, b \notin Above(f, c),
         \A x \in Blocks \ {b} : g[x] = f[x]
  PROVE  Above(g, c) = Above(f, c)
<1>1. Rising(g, Above(f, c)) /\ Above(f, c) \in SUBSET Blocks /\ c \in Above(f, c)
  BY AboveIsLeast DEF Rising
<1>2. Above(g, c) \subseteq Above(f, c)
  BY <1>1, AboveIsLeast
<1>3. Rising(f, Above(g, c)) /\ Above(g, c) \in SUBSET Blocks /\ c \in Above(g, c)
  BY <1>2, AboveIsLeast DEF Rising
<1> QED BY <1>2, <1>3, AboveIsLeast

\* A change at a block that a walk meets leaves the part up to there alone.
LEMMA AboveBelow ==
  ASSUME NEW f, NEW g, NEW b \in Blocks, NEW c \in Blocks, b \in Above(f, c),
         \A x \in Blocks \ {b} : g[x] = f[x]
  PROVE  /\ b \in Above(g, c)
         /\ Above(f, c) \subseteq Above(g, c) \cup Above(f, b)
<1>1. b \in Above(g, c)
  <2> SUFFICES ASSUME b \notin Above(g, c) PROVE FALSE
    OBVIOUS
  <2>1. Above(f, c) = Above(g, c)
    BY AboveUnchanged
  <2> QED BY <2>1
<1> DEFINE X == Above(g, c) \cup Above(f, b)
<1>2. X \in SUBSET Blocks /\ c \in X
  BY AboveIsLeast
<1>3. Rising(f, X)
  <2> SUFFICES ASSUME NEW x \in X, f[x] \in Blocks PROVE f[x] \in X
    BY DEF Rising
  <2>1. CASE x \in Above(f, b)
    BY <2>1, AboveIsLeast DEF Rising
  <2>2. CASE x \in Above(g, c) /\ x # b
    <3>1. g[x] = f[x]
      BY <2>2, AboveIsLeast
    <3> QED BY <2>2, <3>1, AboveIsLeast DEF Rising
  <2>3. CASE x = b
    BY <2>3, AboveIsLeast DEF Rising
  <2> QED BY <2>1, <2>2, <2>3
<1> QED BY <1>1, <1>2, <1>3, AboveIsLeast

-----------------------------------------------------------------------------
(* The numbering, and trees that climb by it.                              *)

\* The order numbers the blocks the search has reached, the entry first, and every
\* other one behind one of its predecessors.
Numbered ==
  /\ Reached \in SUBSET Blocks /\ Start \in Reached
  /\ Len(Rpo) \in Nat
  /\ \A b \in Reached : Number(b) \in 1 .. Len(Rpo) /\ Rpo[Number(b)] = b
  /\ \A i \in 1 .. Len(Rpo) : Rpo[i] \in Reached /\ Number(Rpo[i]) = i
  /\ Number(Start) = 1
  /\ \A b \in Reached \ {Start} : \E p \in Reached : b \in ToSet(succs[p]) /\ Number(p) < Number(b)

\* Every block that has a dominator has it from earlier blocks that have one.
Climbing ==
  /\ idom[Start] = NoNode
  /\ \A b \in Placed \ {Start} : idom[b] \in Placed /\ Number(idom[b]) < Number(b)

\* Different blocks have different numbers.
LEMMA NumberInjective ==
  ASSUME Numbered, NEW a \in Reached, NEW b \in Reached
  PROVE  /\ Number(a) \in Nat /\ Number(a) >= 1 /\ (Number(a) = Number(b) => a = b)
         /\ a # Start => Number(a) > 1
<1>1. Number(a) \in 1 .. Len(Rpo) /\ Rpo[Number(a)] = a /\ Rpo[Number(b)] = b
  BY DEF Numbered
<1>2. Number(Start) = 1 /\ Rpo[Number(Start)] = Start /\ Len(Rpo) \in Nat
  BY DEF Numbered
<1> HIDE DEF Number, Rpo
<1>3. a # Start => Number(a) # 1
  BY <1>1, <1>2
<1> QED BY <1>1, <1>2, <1>3

\* A walk up meets blocks with dominators, of smaller and smaller numbers.
LEMMA WalkDescends ==
  ASSUME Numbered, Climbing, NEW b \in Placed
  PROVE  /\ b \in Blocks /\ b \in Reached /\ Above(idom, b) \in SUBSET Placed
         /\ \A a \in Above(idom, b) : Number(a) <= Number(b) /\ (a # b => Number(a) < Number(b))
<1>0. Placed \in SUBSET Reached /\ Placed \in SUBSET Blocks
  BY DEF Placed, Numbered
<1>1. \A x \in Placed : Number(x) \in Nat
  BY <1>0, NumberInjective
<1> DEFINE X == {x \in Placed : Number(x) <= Number(b)}
<1>2. b \in X /\ X \in SUBSET Blocks
  BY <1>0, <1>1
<1>3. Rising(idom, X)
  <2> SUFFICES ASSUME NEW x \in X, idom[x] \in Blocks PROVE idom[x] \in X
    BY DEF Rising
  <2>1. x # Start
    BY BlocksAssumption DEF Climbing
  <2>2. idom[x] \in Placed /\ Number(idom[x]) < Number(x)
    BY <2>1 DEF Climbing
  <2> QED BY <2>2, <1>1
<1>4. Above(idom, b) \subseteq X
  BY <1>2, <1>3, <1>0, AboveIsLeast
<1>5. \A a \in Above(idom, b) : a # b => Number(a) # Number(b)
  BY <1>4, <1>0, NumberInjective
<1> QED BY <1>0, <1>1, <1>4, <1>5

\* A block with a dominator other than the entry walks up through it.
LEMMA WalkStep ==
  ASSUME Numbered, Climbing, NEW b \in Placed
  PROVE  Above(idom, b) = IF b = Start THEN {Start} ELSE {b} \cup Above(idom, idom[b])
<1>1. b \in Blocks /\ Placed \in SUBSET Blocks
  BY DEF Placed, Numbered
<1>2. CASE b = Start
  BY <1>1, <1>2, AboveStep, BlocksAssumption DEF Climbing
<1>3. CASE b # Start
  BY <1>1, <1>3, AboveStep DEF Climbing
<1> QED BY <1>2, <1>3

-----------------------------------------------------------------------------
(* What walks up have in common.                                           *)

\* m is the first block that all walks from V meet, and every other one they all
\* meet, the walk from m meets too.
Joins(V, m) == /\ m \in Placed
               /\ \A p \in V : m \in Above(idom, p)
               /\ \A a \in Blocks : (\A p \in V : a \in Above(idom, p)) => a \in Above(idom, m)

\* The walk up from one block joins itself at once.
LEMMA JoinOfOne ==
  ASSUME Numbered, Climbing, NEW x \in Placed
  PROVE  Joins({x}, x)
<1>1. x \in Blocks
  BY WalkDescends
<1> QED BY <1>1, AboveIsLeast DEF Joins

\* The walks from two blocks meet where the walks do from the later one's
\* dominator and the other.
LEMMA CommonStep ==
  ASSUME Numbered, Climbing, NEW x \in Placed, NEW y \in Placed, Number(x) > Number(y)
  PROVE  /\ x # Start /\ idom[x] \in Placed /\ Number(idom[x]) < Number(x)
         /\ \A a : (a \in Above(idom, x) /\ a \in Above(idom, y))
                     <=> (a \in Above(idom, idom[x]) /\ a \in Above(idom, y))
<1>1. x \in Reached /\ y \in Reached
  BY WalkDescends
<1>2. Number(x) \in Nat /\ Number(y) \in Nat /\ Number(y) >= 1 /\ Number(Start) = 1
  BY <1>1, NumberInjective DEF Numbered
<1>3. x # Start
  BY <1>2
<1>4. Above(idom, x) = {x} \cup Above(idom, idom[x])
  BY <1>3, WalkStep
<1>5. x \notin Above(idom, y)
  <2> SUFFICES ASSUME x \in Above(idom, y) PROVE FALSE
    OBVIOUS
  <2>1. Number(x) <= Number(y)
    BY WalkDescends
  <2> QED BY <2>1, <1>2
<1> QED BY <1>3, <1>4, <1>5 DEF Climbing

\* Two fingers find the join of two blocks.
LEMMA IntersectJoins ==
  ASSUME Numbered, Climbing, NEW a \in Placed, NEW b \in Placed
  PROVE  Joins({a, b}, Intersect(a, b))
<1> DEFINE N(x) == Number(x)
           Eqn(M) == M = [e \in Placed \X Placed |->
                            IF e[1] = e[2] THEN e[1]
                            ELSE IF Number(e[1]) > Number(e[2]) THEN M[<<idom[e[1]], e[2]>>]
                            ELSE M[<<e[1], idom[e[2]]>>]]
           Meet == CHOOSE M : Eqn(M)
<1>1. Intersect(a, b) = Meet[<<a, b>>]
  BY DEF Intersect
<1>2. \A x \in Placed : N(x) \in Nat /\ x \in Reached /\ x \in Blocks
  BY WalkDescends, NumberInjective
<1>3. ASSUME NEW x \in Placed, NEW y \in Placed, x # y PROVE N(x) > N(y) \/ N(y) > N(x)
  <2>1. N(x) # N(y)
    BY <1>2, <1>3, NumberInjective
  <2> QED BY <2>1, <1>2
\* Any choice among what two walks have in common solves the equation.
<1> DEFINE C(x, y) == CHOOSE m \in Placed : Joins({x, y}, m)
           M0 == [e \in Placed \X Placed |-> C(e[1], e[2])]
<1>4. ASSUME NEW x \in Placed PROVE C(x, x) = x
  <2>1. Joins({x, x}, x)
    BY JoinOfOne
  <2>2. ASSUME NEW m \in Placed, Joins({x, x}, m) PROVE m = x
    <3>1. x \in Above(idom, m) /\ m \in Above(idom, x)
      BY <2>2, <1>2, AboveIsLeast DEF Joins
    <3>2. Number(x) <= Number(m) /\ Number(m) <= Number(x)
      BY <3>1, WalkDescends
    <3> QED BY <3>2, <1>2, NumberInjective
  <2> QED BY <2>1, <2>2
<1>5. ASSUME NEW x \in Placed, NEW y \in Placed, N(x) > N(y)
      PROVE  idom[x] \in Placed /\ C(x, y) = C(idom[x], y) /\ C(y, x) = C(y, idom[x])
             /\ \A m : /\ Joins({x, y}, m) <=> Joins({idom[x], y}, m)
                       /\ Joins({y, x}, m) <=> Joins({y, idom[x]}, m)
  <2>1. /\ idom[x] \in Placed
        /\ \A c : (c \in Above(idom, x) /\ c \in Above(idom, y))
                    <=> (c \in Above(idom, idom[x]) /\ c \in Above(idom, y))
    BY <1>5, CommonStep
  <2>2. \A m : /\ Joins({x, y}, m) <=> Joins({idom[x], y}, m)
               /\ Joins({y, x}, m) <=> Joins({y, idom[x]}, m)
    BY <2>1 DEF Joins
  <2> QED BY <2>1, <2>2
<1> HIDE DEF C, N
<1>6. ASSUME NEW x \in Placed, NEW y \in Placed
      PROVE  C(x, y) = IF x = y THEN x ELSE IF N(x) > N(y) THEN M0[<<idom[x], y>>] ELSE M0[<<x, idom[y]>>]
  <2>1. CASE x = y
    BY <2>1, <1>4
  <2>2. CASE x # y /\ N(x) > N(y)
    <3>1. idom[x] \in Placed /\ C(x, y) = C(idom[x], y)
      BY <2>2, <1>5
    <3>2. M0[<<idom[x], y>>] = C(idom[x], y)
      BY <3>1
    <3> QED BY <2>2, <3>1, <3>2
  <2>3. CASE x # y /\ ~(N(x) > N(y))
    <3>1. N(y) > N(x)
      BY <2>3, <1>3
    <3>2. idom[y] \in Placed /\ C(x, y) = C(x, idom[y])
      BY <3>1, <1>5
    <3>3. M0[<<x, idom[y]>>] = C(x, idom[y])
      BY <3>2
    <3> QED BY <2>3, <3>2, <3>3
  <2> QED BY <2>1, <2>2, <2>3
<1>7. \E M : Eqn(M)
  <2>1. ASSUME NEW e \in Placed \X Placed
        PROVE  M0[e] = IF e[1] = e[2] THEN e[1]
                       ELSE IF N(e[1]) > N(e[2]) THEN M0[<<idom[e[1]], e[2]>>]
                       ELSE M0[<<e[1], idom[e[2]]>>]
    BY <1>6
  <2> HIDE DEF M0
  <2>2. M0 = [e \in Placed \X Placed |-> M0[e]]
    BY DEF M0
  <2>3. M0 = [e \in Placed \X Placed |->
                IF e[1] = e[2] THEN e[1]
                ELSE IF N(e[1]) > N(e[2]) THEN M0[<<idom[e[1]], e[2]>>]
                ELSE M0[<<e[1], idom[e[2]]>>]]
    BY <2>1, <2>2
  <2>4. Eqn(M0)
    BY <2>3 DEF N
  <2> QED BY <2>4
<1>8. Eqn(Meet)
  BY <1>7
<1> HIDE DEF Meet
<1>9. ASSUME NEW x \in Placed, NEW y \in Placed
      PROVE  Meet[<<x, y>>] = IF x = y THEN x
                          ELSE IF N(x) > N(y) THEN Meet[<<idom[x], y>>] ELSE Meet[<<x, idom[y]>>]
  BY <1>8 DEF N
<1> HIDE DEF Eqn
\* Every solution does, by induction on the numbers.
<1> DEFINE A == {n \in Nat : \A x, y \in Placed : N(x) + N(y) <= n => Joins({x, y}, Meet[<<x, y>>])}
<1>10. 0 \in A
  <2>1. \A x \in Placed : N(x) >= 1
    BY <1>2, NumberInjective DEF N
  <2>2. \A x, y \in Placed : ~(N(x) + N(y) <= 0)
    BY <2>1, <1>2
  <2> QED BY <2>2
<1>11. ASSUME NEW n \in Nat, n \in A PROVE n + 1 \in A
  <2> SUFFICES ASSUME NEW x \in Placed, NEW y \in Placed, N(x) + N(y) <= n + 1
               PROVE  Joins({x, y}, Meet[<<x, y>>])
    OBVIOUS
  <2>1. CASE x = y
    <3>1. Meet[<<x, y>>] = x /\ {x, y} = {x}
      BY <2>1, <1>9
    <3> QED BY <3>1, JoinOfOne
  <2>2. CASE x # y /\ N(x) > N(y)
    <3>1. Meet[<<x, y>>] = Meet[<<idom[x], y>>] /\ idom[x] \in Placed
      BY <2>2, <1>5, <1>9
    <3>2. N(idom[x]) < N(x)
      BY <2>2, CommonStep DEF N
    <3>3. N(idom[x]) + N(y) <= n
      BY <3>1, <3>2, <1>2
    <3>4. Joins({idom[x], y}, Meet[<<idom[x], y>>])
      BY <3>1, <3>3, <1>11
    <3> QED BY <3>1, <3>4, <2>2, <1>5
  <2>3. CASE x # y /\ ~(N(x) > N(y))
    <3>0. N(y) > N(x)
      BY <2>3, <1>3
    <3>1. Meet[<<x, y>>] = Meet[<<x, idom[y]>>] /\ idom[y] \in Placed
      BY <2>3, <3>0, <1>5, <1>9
    <3>2. N(idom[y]) < N(y)
      BY <3>0, CommonStep DEF N
    <3>3. N(x) + N(idom[y]) <= n
      BY <3>1, <3>2, <1>2
    <3>4. Joins({x, idom[y]}, Meet[<<x, idom[y]>>])
      BY <3>1, <3>3, <1>11
    <3> QED BY <3>0, <3>1, <3>4, <1>5
  <2> QED BY <2>1, <2>2, <2>3
<1> HIDE DEF A
<1>12. Nat \subseteq A
  BY <1>10, <1>11, NatSetInduction
<1>13. N(a) + N(b) \in A
  BY <1>12, <1>2
<1>14. N(a) + N(b) <= N(a) + N(b)
  BY <1>2
<1> QED BY <1>13, <1>14, <1>1 DEF A

\* A listing of predecessors is a sequence of them all.
LEMMA ListingFacts ==
  ASSUME NEW S \in SUBSET Blocks, NEW ps \in Listings(S)
  PROVE  Len(ps) \in Nat /\ S = {ps[j] : j \in 1 .. Len(ps)}
<1>1. Cardinality(S) \in Nat
  BY FS_Subset, FS_CardinalityType, BlocksAssumption
<1>2. ps \in [1 .. Cardinality(S) -> S] /\ ToSet(ps) = S
  BY DEF Listings
<1>3. ps \in Seq(S) /\ Len(ps) = Cardinality(S)
  BY <1>1, <1>2
<1> QED BY <1>1, <1>2, <1>3 DEF ToSet

\* Meeting one more walk.
LEMMA JoinOfMore ==
  ASSUME Numbered, Climbing, NEW V \in SUBSET Placed, NEW m, Joins(V, m), NEW p \in Placed
  PROVE  Joins(V \cup {p}, Intersect(p, m))
<1>1. m \in Placed /\ p \in Blocks
  BY WalkDescends DEF Joins
<1>2. Joins({p, m}, Intersect(p, m))
  BY <1>1, IntersectJoins
<1> DEFINE k == Intersect(p, m)
<1> HIDE DEF k
<1>3. k \in Placed /\ k \in Above(idom, p) /\ k \in Above(idom, m)
  BY <1>2 DEF Joins, k
<1>4. ASSUME NEW q \in V PROVE k \in Above(idom, q)
  <2>1. m \in Above(idom, q) /\ q \in Blocks
    BY WalkDescends DEF Joins
  <2> QED BY <2>1, <1>3, AboveTrans
<1>5. ASSUME NEW a \in Blocks, \A q \in V \cup {p} : a \in Above(idom, q)
      PROVE  a \in Above(idom, k)
  <2>1. a \in Above(idom, m) /\ a \in Above(idom, p)
    BY <1>5 DEF Joins
  <2> QED BY <2>1, <1>2 DEF Joins, k
<1> QED BY <1>3, <1>4, <1>5 DEF Joins, k

\* A sweep gives a block the join of its predecessors that have dominators.
LEMMA NewIdomJoins ==
  ASSUME Numbered, Climbing, NEW S \in SUBSET Blocks, S \cap Placed # {}, NEW ps \in Listings(S)
  PROVE  Joins(S \cap Placed, NewIdom(ps))
<1> DEFINE n == Len(ps)
           D == Placed \cup {NoNode}
           V(i) == {ps[j] : j \in 1 .. i} \cap Placed
           g == [e \in D \X (1 .. n) |-> IF ps[e[2]] \notin Placed THEN e[1]
                                        ELSE IF e[1] = NoNode THEN ps[e[2]]
                                        ELSE Intersect(ps[e[2]], e[1])]
           Met == CHOOSE Met : Met = [i \in 0 .. n |->
                    IF i = 0 THEN NoNode
                    ELSE IF ps[i] \notin Placed THEN Met[i - 1]
                    ELSE IF Met[i - 1] = NoNode THEN ps[i] ELSE Intersect(ps[i], Met[i - 1])]
<1>1. NewIdom(ps) = Met[n]
  BY DEF NewIdom
<1>2. n \in Nat /\ S = {ps[j] : j \in 1 .. n}
  BY ListingFacts
<1>3. NoNode \notin Placed
  BY BlocksAssumption, WalkDescends
<1>4. ASSUME NEW d \in D, NEW i \in 1 .. n
      PROVE  g[<<d, i>>] \in D /\ g[<<d, i>>] = IF ps[i] \notin Placed THEN d
                                               ELSE IF d = NoNode THEN ps[i] ELSE Intersect(ps[i], d)
  <2>1. g[<<d, i>>] = IF ps[i] \notin Placed THEN d
                      ELSE IF d = NoNode THEN ps[i] ELSE Intersect(ps[i], d)
    OBVIOUS
  <2>2. ps[i] \in Placed /\ d # NoNode => Intersect(ps[i], d) \in Placed
    BY IntersectJoins DEF Joins
  <2> HIDE DEF g
  <2> QED BY <2>1, <2>2
<1> HIDE DEF g, n
<1>5. PICK f \in [0 .. n -> D] : f[0] = NoNode /\ \A i \in 1 .. n : f[i] = g[<<f[i - 1], i>>]
  <2>1. NoNode \in D
    OBVIOUS
  <2>2. Advances(g, n, D)
    BY <1>4 DEF Advances
  <2>3. n \in Nat
    BY <1>2
  <2> HIDE DEF D, Met, V
  <2> QED BY <2>1, <2>2, <2>3, PrefixRecursion
<1>6. ASSUME NEW i \in 0 .. n
      PROVE  f[i] = IF i = 0 THEN NoNode
                    ELSE IF ps[i] \notin Placed THEN f[i - 1]
                    ELSE IF f[i - 1] = NoNode THEN ps[i] ELSE Intersect(ps[i], f[i - 1])
  <2>1. CASE i = 0
    BY <1>5, <2>1
  <2>2. CASE i # 0
    <3>1. i - 1 \in 0 .. n /\ i \in 1 .. n
      BY <2>2, <1>2
    <3>2. f[i] = g[<<f[i - 1], i>>] /\ f[i - 1] \in D
      BY <3>1, <2>2, <1>5
    <3> QED BY <2>2, <3>1, <3>2, <1>4
  <2> QED BY <2>1, <2>2
<1>7. f = [i \in 0 .. n |-> IF i = 0 THEN NoNode
                            ELSE IF ps[i] \notin Placed THEN f[i - 1]
                            ELSE IF f[i - 1] = NoNode THEN ps[i] ELSE Intersect(ps[i], f[i - 1])]
  <2>1. f = [i \in 0 .. n |-> f[i]]
    BY <1>5
  <2> QED BY <2>1, <1>6
<1>8. Met = [i \in 0 .. n |-> IF i = 0 THEN NoNode
                              ELSE IF ps[i] \notin Placed THEN Met[i - 1]
                              ELSE IF Met[i - 1] = NoNode THEN ps[i] ELSE Intersect(ps[i], Met[i - 1])]
  BY <1>7
<1> HIDE DEF Met
<1>9. ASSUME NEW i \in 0 .. n
      PROVE  Met[i] = IF i = 0 THEN NoNode
                      ELSE IF ps[i] \notin Placed THEN Met[i - 1]
                      ELSE IF Met[i - 1] = NoNode THEN ps[i] ELSE Intersect(ps[i], Met[i - 1])
  BY <1>8
<1> DEFINE A == {i \in Nat : i <= n => IF V(i) = {} THEN Met[i] = NoNode ELSE Joins(V(i), Met[i])}
<1>10. 0 \in A
  <2>1. V(0) = {} /\ 0 \in 0 .. n
    BY <1>2
  <2> QED BY <2>1, <1>9
<1>11. ASSUME NEW i \in Nat, i \in A PROVE i + 1 \in A
  <2> SUFFICES ASSUME i + 1 <= n
               PROVE  IF V(i + 1) = {} THEN Met[i + 1] = NoNode ELSE Joins(V(i + 1), Met[i + 1])
    OBVIOUS
  <2>1. i + 1 \in 0 .. n /\ i + 1 # 0 /\ (i + 1) - 1 = i /\ i <= n /\ i + 1 \in 1 .. n
    BY <1>2
  <2>2. Met[i + 1] = IF ps[i + 1] \notin Placed THEN Met[i]
                     ELSE IF Met[i] = NoNode THEN ps[i + 1] ELSE Intersect(ps[i + 1], Met[i])
    BY <2>1, <1>9
  <2>3. IF V(i) = {} THEN Met[i] = NoNode ELSE Joins(V(i), Met[i])
    BY <2>1, <1>11
  <2>4. {ps[j] : j \in 1 .. (i + 1)} = {ps[j] : j \in 1 .. i} \cup {ps[i + 1]}
    <3>1. 1 .. (i + 1) = (1 .. i) \cup {i + 1}
      BY <2>1
    <3> QED BY <3>1
  <2>5. V(i) \subseteq Placed
    OBVIOUS
  <2>6. CASE ps[i + 1] \notin Placed
    <3>1. V(i + 1) = V(i)
      BY <2>4, <2>6
    <3> QED BY <3>1, <2>2, <2>3, <2>6
  <2>7. CASE ps[i + 1] \in Placed
    <3>1. V(i + 1) = V(i) \cup {ps[i + 1]}
      BY <2>4, <2>7
    <3>2. CASE V(i) = {}
      <4>1. V(i + 1) = {ps[i + 1]} /\ Met[i + 1] = ps[i + 1]
        BY <3>1, <3>2, <2>2, <2>3, <2>7
      <4> QED BY <4>1, <2>7, JoinOfOne
    <3>3. CASE V(i) # {}
      <4>1. Joins(V(i), Met[i])
        BY <3>3, <2>3
      <4>2. Met[i] # NoNode
        BY <4>1, <1>3 DEF Joins
      <4>3. Met[i + 1] = Intersect(ps[i + 1], Met[i])
        BY <4>2, <2>2, <2>7
      <4> HIDE DEF V
      <4>4. Joins(V(i) \cup {ps[i + 1]}, Intersect(ps[i + 1], Met[i]))
        BY <4>1, <2>5, <2>7, JoinOfMore
      <4>5. V(i + 1) # {}
        BY <3>1
      <4> QED BY <4>3, <4>4, <4>5, <3>1
    <3> QED BY <3>2, <3>3
  <2> QED BY <2>6, <2>7
<1> HIDE DEF A
<1>12. n \in A
  BY <1>10, <1>11, <1>2, NatSetInduction
<1>13. V(n) = S \cap Placed
  BY <1>2
<1> QED BY <1>1, <1>2, <1>12, <1>13 DEF A

-----------------------------------------------------------------------------
(* The search reaches what is reachable, and numbers it.                   *)

\* Sequences of blocks.
Listed(s) == s \in Seq(Blocks)

SearchTypes == /\ succs \in Graphs /\ phase \in {"search", "sweep", "done"}
               /\ Listed(stack) /\ Listed(post)

\* The blocks seen are on the stack or done, each once.
EachOnce == /\ seen = ToSet(stack) \cup ToSet(post)
            /\ ToSet(stack) \cap ToSet(post) = {}
            /\ \A i, j \in 1 .. Len(stack) : stack[i] = stack[j] => i = j
            /\ \A i, j \in 1 .. Len(post) : post[i] = post[j] => i = j

\* Only what is reachable is seen, and what is done leads only to blocks seen.
SeenReachable == /\ seen \in SUBSET Reachable
                 /\ \A b \in ToSet(post) : ToSet(succs[b]) \subseteq seen

\* Every block but the entry stands behind one that leads to it: on the stack, and
\* in the order.
Behind == /\ \A k \in 2 .. Len(stack) : stack[k] \in ToSet(succs[stack[k - 1]])
          /\ \A i \in 1 .. Len(post) :
               \/ post[i] = Start
               \/ \E k \in 1 .. Len(stack) : post[i] \in ToSet(succs[stack[k]])
               \/ \E j \in (i + 1) .. Len(post) : post[i] \in ToSet(succs[post[j]])

\* The entry is pushed first and done last.
EntryLast == /\ Len(stack) > 0 => stack[1] = Start
             /\ Len(stack) = 0 => Len(post) > 0 /\ post[Len(post)] = Start
             /\ phase # "search" => Len(stack) = 0

SearchInv == SearchTypes /\ EachOnce /\ SeenReachable /\ Behind /\ EntryLast

\* The graphs are graphs.
LEMMA GraphsAreGraphs ==
  ASSUME SearchTypes
  PROVE  IsGraph /\ \A b \in Blocks : succs[b] \in Seq(Blocks)
<1>1. succs \in [Blocks -> Seq(Blocks)]
  BY GraphsAssumption DEF SearchTypes
<1>2. \A s \in Seq(Blocks) : ToSet(s) \subseteq Blocks
  BY DEF ToSet
<1> QED BY <1>1, <1>2 DEF IsGraph

\* What a graph's blocks can reach depends on the graph alone.
LEMMA SameGraph ==
  ASSUME succs' = succs
  PROVE  /\ Reachable' = Reachable
         /\ \A a, b : TrulyDominates(a, b)' = TrulyDominates(a, b)
BY DEF Reachable, TrulyDominates, From

\* The elements of a sequence, and those of one made longer or shorter at its end.
LEMMA ListedFacts ==
  ASSUME NEW s, Listed(s)
  PROVE  /\ Len(s) \in Nat /\ (s # <<>> => Len(s) > 0) /\ (Len(s) = 0 => ToSet(s) = {})
         /\ \A i \in 1 .. Len(s) : s[i] \in Blocks /\ s[i] \in ToSet(s)
         /\ \A b \in ToSet(s) : \E i \in 1 .. Len(s) : b = s[i]
<1>1. s \in Seq(Blocks) /\ DOMAIN s = 1 .. Len(s) /\ Len(s) \in Nat
  BY DEF Listed
<1>2. s # <<>> => Len(s) > 0
  BY <1>1, EmptySeq
<1>3. \A i \in 1 .. Len(s) : s[i] \in Blocks
  BY <1>1, ElementOfSeq
<1>4. ToSet(s) = {s[i] : i \in 1 .. Len(s)}
  BY <1>1 DEF ToSet
<1>5. Len(s) = 0 => 1 .. Len(s) = {}
  BY <1>1
<1> HIDE DEF ToSet
<1>6. /\ \A i \in 1 .. Len(s) : s[i] \in ToSet(s)
      /\ \A b \in ToSet(s) : \E i \in 1 .. Len(s) : b = s[i]
  BY <1>4
<1>7. Len(s) = 0 => ToSet(s) = {}
  BY <1>5, <1>6
<1> QED BY <1>1, <1>2, <1>3, <1>6, <1>7

\* Longer by one block,
LEMMA ListedLonger ==
  ASSUME NEW s, Listed(s), NEW x \in Blocks
  PROVE  /\ Listed(Append(s, x)) /\ Len(Append(s, x)) = Len(s) + 1
         /\ Append(s, x)[Len(s) + 1] = x
         /\ \A i \in 1 .. Len(s) : Append(s, x)[i] = s[i]
         /\ ToSet(Append(s, x)) = ToSet(s) \cup {x}
<1> DEFINE t == Append(s, x)
           n == Len(s)
<1>1. /\ Listed(t) /\ Len(t) = n + 1 /\ t[n + 1] = x
      /\ \A i \in 1 .. n : t[i] = s[i]
  BY AppendProperties DEF Listed
<1> HIDE DEF t
<1>2. n \in Nat /\ 1 .. Len(t) = (1 .. n) \cup {n + 1}
  BY <1>1, ListedFacts
<1>3. ToSet(t) \subseteq ToSet(s) \cup {x}
  <2> SUFFICES ASSUME NEW b \in ToSet(t) PROVE b \in ToSet(s) \/ b = x
    OBVIOUS
  <2>1. PICK i \in 1 .. Len(t) : b = t[i]
    BY <1>1, ListedFacts
  <2>2. i \in 1 .. n \/ i = n + 1
    BY <1>2
  <2> QED BY <2>1, <2>2, <1>1, ListedFacts
<1>4. x \in ToSet(t)
  BY <1>1, <1>2, ListedFacts
<1>5. ToSet(s) \subseteq ToSet(t)
  <2> SUFFICES ASSUME NEW b \in ToSet(s) PROVE b \in ToSet(t)
    OBVIOUS
  <2>1. PICK i \in 1 .. n : b = s[i]
    BY ListedFacts
  <2>2. i \in 1 .. Len(t) /\ t[i] = b
    BY <2>1, <1>1, <1>2
  <2> QED BY <2>2, <1>1, ListedFacts
<1> QED BY <1>1, <1>3, <1>4, <1>5 DEF t

\* and shorter by one.
LEMMA ListedShorter ==
  ASSUME NEW s, Listed(s), Len(s) > 0
  PROVE  /\ Listed(Front(s)) /\ Len(Front(s)) = Len(s) - 1
         /\ \A i \in 1 .. (Len(s) - 1) : Front(s)[i] = s[i]
         /\ ToSet(s) = ToSet(Front(s)) \cup {s[Len(s)]}
<1> DEFINE n == Len(s)
           t == Front(s)
           w == SubSeq(s, 1, n - 1)
<1>0. n \in Nat /\ n > 0 /\ \A i \in 1 .. n : s[i] \in Blocks
  BY ListedFacts
<1>1. w \in Seq(Blocks) /\ Len(w) = n - 1 /\ \A i \in 1 .. (n - 1) : w[i] = s[i]
  <2>1. n - 1 \in Int /\ \A i \in 1 .. (n - 1) : s[i] \in Blocks
    BY <1>0
  <2> HIDE DEF n, t
  <2>2. /\ w \in Seq(Blocks)
        /\ Len(w) = IF 1 <= n - 1 THEN n - 1 - 1 + 1 ELSE 0
        /\ \A i \in 1 .. n - 1 - 1 + 1 : w[i] = s[1 + i - 1]
    BY <2>1, SubSeqProperties
  <2> HIDE DEF w
  <2>3. n - 1 - 1 + 1 = n - 1 /\ \A i \in 1 .. (n - 1) : 1 + i - 1 = i
    BY <1>0
  <2>4. Len(w) = n - 1
    BY <2>2, <1>0
  <2> QED BY <2>2, <2>3, <2>4
<1>2. Listed(t) /\ Len(t) = n - 1 /\ \A i \in 1 .. (n - 1) : t[i] = s[i]
  BY <1>1 DEF Front, Listed
<1> HIDE DEF t
<1>3. 1 .. n = (1 .. Len(t)) \cup {n}
  BY <1>0, <1>2
<1>4. ToSet(s) \subseteq ToSet(t) \cup {s[n]}
  <2> SUFFICES ASSUME NEW b \in ToSet(s) PROVE b \in ToSet(t) \/ b = s[n]
    OBVIOUS
  <2>1. PICK i \in 1 .. n : b = s[i]
    BY ListedFacts
  <2>2. CASE i = n
    BY <2>1, <2>2
  <2>3. CASE i # n
    <3>1. i \in 1 .. Len(t) /\ t[i] = b
      BY <2>1, <2>3, <1>2, <1>3
    <3> QED BY <3>1, <1>2, ListedFacts
  <2> QED BY <2>2, <2>3
<1>5. ToSet(t) \cup {s[n]} \subseteq ToSet(s)
  <2>1. s[n] \in ToSet(s)
    BY <1>0, ListedFacts
  <2>2. ASSUME NEW b \in ToSet(t) PROVE b \in ToSet(s)
    <3>1. PICK i \in 1 .. Len(t) : b = t[i]
      BY <1>2, ListedFacts
    <3>2. i \in 1 .. n /\ s[i] = b
      BY <3>1, <1>2, <1>3
    <3> QED BY <3>2, ListedFacts
  <2> QED BY <2>1, <2>2
<1> QED BY <1>2, <1>4, <1>5 DEF t

\* The search begins with the entry, seen and on the stack.
LEMMA SearchInit ==
  ASSUME Init PROVE SearchInv
<1>1. /\ stack = <<Start>> /\ seen = {Start} /\ post = <<>> /\ succs \in Graphs /\ phase = "search"
      /\ Start \in Blocks
  BY BlocksAssumption DEF Init
<1>2. /\ Listed(stack) /\ Listed(post) /\ Len(stack) = 1 /\ stack[1] = Start
      /\ Len(post) = 0
  BY <1>1 DEF Listed
<1>3. SearchTypes
  BY <1>1, <1>2 DEF SearchTypes
<1>4. ToSet(stack) = {Start} /\ ToSet(post) = {}
  <2>1. \A i \in 1 .. Len(stack) : i = 1
    BY <1>2
  <2> QED BY <2>1, <1>2, ListedFacts
<1>5. EachOnce
  BY <1>1, <1>2, <1>4 DEF EachOnce
<1>6. SeenReachable
  <2>1. Start \in Reachable
    BY <1>3, GraphsAreGraphs, ReachableIsLeast
  <2> QED BY <1>1, <1>4, <2>1 DEF SeenReachable
<1>7. Behind
  BY <1>2 DEF Behind
<1>8. EntryLast
  BY <1>1, <1>2 DEF EntryLast
<1> QED BY <1>3, <1>5, <1>6, <1>7, <1>8 DEF SearchInv

\* One block deeper: the first successor not seen.
LEMMA SearchAdvances ==
  ASSUME SearchInv, Advance PROVE SearchInv'
<1> DEFINE n == Len(stack)
           m == Len(post)
<1>1. succs \in Graphs /\ Listed(stack) /\ Listed(post) /\ IsGraph
  BY GraphsAreGraphs DEF SearchInv, SearchTypes
<1>2. /\ n \in Nat /\ m \in Nat /\ n > 0 /\ n \in 1 .. n
      /\ \A i \in 1 .. n : stack[i] \in Blocks /\ stack[i] \in ToSet(stack)
      /\ \A b \in ToSet(stack) : \E i \in 1 .. n : b = stack[i]
      /\ \A i \in 1 .. m : post[i] \in ToSet(post)
  <2>1. stack # <<>>
    BY DEF Advance
  <2>2. n > 0 /\ n \in Nat
    BY <1>1, <2>1, ListedFacts
  <2> QED BY <1>1, <2>2, ListedFacts
<1>3. PICK x : /\ x \notin seen /\ x \in ToSet(succs[stack[n]])
               /\ seen' = seen \cup {x} /\ stack' = Append(stack, x)
  <2>1. PICK i \in Unseen(stack[n]) : /\ seen' = seen \cup {succs[stack[n]][i]}
                                      /\ stack' = Append(stack, succs[stack[n]][i])
    BY DEF Advance, Last
  <2>2. succs[stack[n]][i] \notin seen /\ succs[stack[n]][i] \in ToSet(succs[stack[n]])
    BY <2>1 DEF Unseen, ToSet
  <2> QED BY <2>1, <2>2
<1>4. x \in Blocks /\ succs' = succs /\ post' = post /\ phase' = "search"
  BY <1>1, <1>2, <1>3 DEF IsGraph, Advance
<1> DEFINE t == Append(stack, x)
<1> HIDE DEF t
<1>5. /\ Listed(t) /\ Len(t) = n + 1 /\ t[n + 1] = x
      /\ \A i \in 1 .. n : t[i] = stack[i]
      /\ ToSet(t) = ToSet(stack) \cup {x}
  BY <1>1, <1>4, ListedLonger DEF t
<1>6. stack' = t
  BY <1>3 DEF t
<1>7. SearchTypes'
  BY <1>1, <1>4, <1>5, <1>6 DEF SearchTypes
<1>8. EachOnce'
  <2>0. /\ seen = ToSet(stack) \cup ToSet(post) /\ ToSet(stack) \cap ToSet(post) = {}
        /\ \A i, j \in 1 .. n : stack[i] = stack[j] => i = j
        /\ \A i, j \in 1 .. m : post[i] = post[j] => i = j
    BY DEF SearchInv, EachOnce
  <2>1. seen' = ToSet(t) \cup ToSet(post) /\ ToSet(t) \cap ToSet(post) = {}
    BY <2>0, <1>3, <1>5
  <2>2. ASSUME NEW i \in 1 .. (n + 1), NEW j \in 1 .. (n + 1), t[i] = t[j]
        PROVE  i = j
    <3>1. \A k \in 1 .. n : stack[k] # x
      BY <2>0, <1>2, <1>3
    <3>2. \A k \in 1 .. (n + 1) : k \in 1 .. n \/ k = n + 1
      BY <1>2
    <3>3. CASE i \in 1 .. n /\ j \in 1 .. n
      BY <3>3, <2>0, <2>2, <1>5
    <3>4. CASE i = n + 1 /\ j \in 1 .. n
      BY <3>4, <3>1, <2>2, <1>5
    <3>5. CASE j = n + 1 /\ i \in 1 .. n
      BY <3>5, <3>1, <2>2, <1>5
    <3> QED BY <3>2, <3>3, <3>4, <3>5
  <2> QED BY <2>0, <2>1, <2>2, <1>4, <1>5, <1>6 DEF EachOnce
<1>9. SeenReachable'
  <2>1. Reachable' = Reachable
    BY <1>4, SameGraph
  <2>2. stack[n] \in seen /\ seen \in SUBSET Reachable
    BY <1>2 DEF SearchInv, EachOnce, SeenReachable
  <2>3. x \in Reachable
    BY <2>2, <1>3, <1>1, ReachableIsLeast
  <2> QED BY <2>1, <2>2, <2>3, <1>3, <1>4 DEF SearchInv, SeenReachable
<1>10. Behind'
  <2>0. /\ \A k \in 2 .. n : stack[k] \in ToSet(succs[stack[k - 1]])
        /\ \A i \in 1 .. m :
               \/ post[i] = Start
               \/ \E k \in 1 .. n : post[i] \in ToSet(succs[stack[k]])
               \/ \E j \in (i + 1) .. m : post[i] \in ToSet(succs[post[j]])
    BY DEF SearchInv, Behind
  <2>1. ASSUME NEW k \in 2 .. (n + 1) PROVE t[k] \in ToSet(succs[t[k - 1]])
    <3>1. k - 1 \in 1 .. n /\ t[k - 1] = stack[k - 1]
      BY <1>2, <1>5
    <3>2. CASE k = n + 1
      BY <3>1, <3>2, <1>2, <1>3, <1>5
    <3>3. CASE k # n + 1
      <4>1. k \in 2 .. n /\ k \in 1 .. n
        BY <3>3, <1>2
      <4> QED BY <4>1, <3>1, <2>0, <1>5
    <3> QED BY <3>2, <3>3
  <2>2. ASSUME NEW i \in 1 .. m, NEW k \in 1 .. n, post[i] \in ToSet(succs[stack[k]])
        PROVE  \E l \in 1 .. (n + 1) : post[i] \in ToSet(succs[t[l]])
    <3>1. k \in 1 .. (n + 1) /\ t[k] = stack[k]
      BY <1>2, <1>5
    <3> QED BY <3>1, <2>2
  <2>3. \A i \in 1 .. m :
               \/ post[i] = Start
               \/ \E l \in 1 .. (n + 1) : post[i] \in ToSet(succs[t[l]])
               \/ \E j \in (i + 1) .. m : post[i] \in ToSet(succs[post[j]])
    BY <2>0, <2>2
  <2> HIDE DEF n, m
  <2>4. Len(t) = n + 1 /\ Len(post) = m
    BY <1>5 DEF m
  <2> QED BY <2>1, <2>3, <2>4, <1>4, <1>6 DEF Behind
<1>11. EntryLast'
  <2>1. t[1] = Start
    BY <1>2, <1>5 DEF SearchInv, EntryLast
  <2> QED BY <2>1, <1>2, <1>4, <1>5, <1>6 DEF EntryLast
<1> QED BY <1>7, <1>8, <1>9, <1>10, <1>11 DEF SearchInv

\* A block whose successors are all seen leaves the stack for the order.
LEMMA SearchRetreats ==
  ASSUME SearchInv, Retreat PROVE SearchInv'
<1> DEFINE n == Len(stack)
           m == Len(post)
           x == stack[n]
<1>1. succs \in Graphs /\ Listed(stack) /\ Listed(post) /\ IsGraph
  BY GraphsAreGraphs DEF SearchInv, SearchTypes
<1>2. /\ n \in Nat /\ m \in Nat /\ n > 0 /\ n \in 1 .. n
      /\ \A i \in 1 .. n : stack[i] \in Blocks /\ stack[i] \in ToSet(stack)
      /\ \A b \in ToSet(stack) : \E i \in 1 .. n : b = stack[i]
      /\ \A i \in 1 .. m : post[i] \in ToSet(post)
  <2>1. stack # <<>>
    BY DEF Retreat
  <2>2. n > 0 /\ n \in Nat
    BY <1>1, <2>1, ListedFacts
  <2> QED BY <1>1, <2>2, ListedFacts
<1>3. /\ ToSet(succs[x]) \subseteq seen /\ x \in Blocks
      /\ post' = Append(post, x) /\ stack' = Front(stack)
      /\ seen' = seen /\ succs' = succs /\ phase' = "search"
  <2>1. Unseen(x) = {} /\ post' = Append(post, x)
    BY DEF Retreat, Last
  <2>2. ToSet(succs[x]) \subseteq seen
    BY <2>1 DEF Unseen, ToSet
  <2> QED BY <2>1, <2>2, <1>2 DEF Retreat
<1> DEFINE t == Front(stack)
           p == Append(post, x)
<1> HIDE DEF t, p
<1>4. /\ Listed(t) /\ Len(t) = n - 1 /\ \A i \in 1 .. (n - 1) : t[i] = stack[i]
      /\ ToSet(stack) = ToSet(t) \cup {x}
      /\ \A b \in ToSet(t) : \E i \in 1 .. (n - 1) : b = t[i]
  <2>1. /\ Listed(t) /\ Len(t) = n - 1 /\ \A i \in 1 .. (n - 1) : t[i] = stack[i]
        /\ ToSet(stack) = ToSet(t) \cup {x}
    BY <1>1, <1>2, ListedShorter DEF t
  <2> QED BY <2>1, ListedFacts
<1>5. /\ Listed(p) /\ Len(p) = m + 1 /\ p[m + 1] = x
      /\ \A i \in 1 .. m : p[i] = post[i]
      /\ ToSet(p) = ToSet(post) \cup {x}
  BY <1>1, <1>3, ListedLonger DEF p
<1>6. stack' = t /\ post' = p
  BY <1>3 DEF t, p
<1> HIDE DEF n, m, x
<1>7. SearchTypes'
  BY <1>1, <1>3, <1>4, <1>5, <1>6 DEF SearchTypes
<1>8. /\ seen = ToSet(stack) \cup ToSet(post) /\ ToSet(stack) \cap ToSet(post) = {}
      /\ \A i, j \in 1 .. n : stack[i] = stack[j] => i = j
      /\ \A i, j \in 1 .. m : post[i] = post[j] => i = j
      /\ x = stack[n] /\ x \in ToSet(stack)
  BY <1>2 DEF SearchInv, EachOnce, n, m, x
<1>9. EachOnce'
  <2>1. \A i \in 1 .. (n - 1) : i \in 1 .. n /\ i # n /\ stack[i] # x
    BY <1>2, <1>8
  <2>2. x \notin ToSet(t)
    BY <2>1, <1>4
  <2>3. seen = ToSet(t) \cup ToSet(p) /\ ToSet(t) \cap ToSet(p) = {}
    BY <2>2, <1>4, <1>5, <1>8
  <2>4. \A i, j \in 1 .. (n - 1) : t[i] = t[j] => i = j
    BY <2>1, <1>4, <1>8
  <2>5. ASSUME NEW i \in 1 .. (m + 1), NEW j \in 1 .. (m + 1), p[i] = p[j]
        PROVE  i = j
    <3>1. \A k \in 1 .. m : post[k] # x
      BY <1>2, <1>8
    <3>2. \A k \in 1 .. (m + 1) : k \in 1 .. m \/ k = m + 1
      BY <1>2
    <3>3. CASE i \in 1 .. m /\ j \in 1 .. m
      BY <3>3, <1>8, <2>5, <1>5
    <3>4. CASE i = m + 1 /\ j \in 1 .. m
      BY <3>4, <3>1, <2>5, <1>5
    <3>5. CASE j = m + 1 /\ i \in 1 .. m
      BY <3>5, <3>1, <2>5, <1>5
    <3> QED BY <3>2, <3>3, <3>4, <3>5
  <2> QED BY <2>3, <2>4, <2>5, <1>3, <1>4, <1>5, <1>6 DEF EachOnce
<1>10. SeenReachable'
  <2>1. Reachable' = Reachable
    BY <1>3, SameGraph
  <2>2. seen \in SUBSET Reachable /\ \A b \in ToSet(post) : ToSet(succs[b]) \subseteq seen
    BY DEF SearchInv, SeenReachable
  <2>3. \A b \in ToSet(p) : ToSet(succs[b]) \subseteq seen
    BY <2>2, <1>3, <1>5 DEF x
  <2> QED BY <2>1, <2>2, <2>3, <1>3, <1>6 DEF SeenReachable
<1>11. Behind'
  <2>0. /\ \A k \in 2 .. n : stack[k] \in ToSet(succs[stack[k - 1]])
        /\ \A i \in 1 .. m :
               \/ post[i] = Start
               \/ \E k \in 1 .. n : post[i] \in ToSet(succs[stack[k]])
               \/ \E j \in (i + 1) .. m : post[i] \in ToSet(succs[post[j]])
        /\ n > 0 => stack[1] = Start
    BY DEF SearchInv, Behind, EntryLast, n, m
  <2>1. ASSUME NEW k \in 2 .. (n - 1) PROVE t[k] \in ToSet(succs[t[k - 1]])
    <3>1. k \in 2 .. n /\ k \in 1 .. (n - 1) /\ k - 1 \in 1 .. (n - 1)
      BY <1>2
    <3> QED BY <3>1, <2>0, <1>4
  <2> DEFINE Backed(i) == \/ p[i] = Start
                          \/ \E k \in 1 .. (n - 1) : p[i] \in ToSet(succs[t[k]])
                          \/ \E j \in (i + 1) .. (m + 1) : p[i] \in ToSet(succs[p[j]])
  <2>2. Backed(m + 1)
    <3>1. CASE n = 1
      BY <3>1, <2>0, <1>5, <1>8
    <3>2. CASE n # 1
      <4>1. n \in 2 .. n /\ n - 1 \in 1 .. (n - 1)
        BY <3>2, <1>2
      <4>2. stack[n] \in ToSet(succs[stack[n - 1]]) /\ t[n - 1] = stack[n - 1]
        BY <4>1, <2>0, <1>4
      <4> QED BY <4>1, <4>2, <1>5, <1>8
    <3> QED BY <3>1, <3>2
  <2>3. ASSUME NEW i \in 1 .. m PROVE Backed(i)
    <3>0. p[i] = post[i] /\ n \in Nat /\ m \in Nat
      BY <1>5, <1>2
    <3>1. ASSUME NEW k \in 1 .. n, post[i] \in ToSet(succs[stack[k]]) PROVE Backed(i)
      <4>1. CASE k = n
        <5>1. m + 1 \in (i + 1) .. (m + 1) /\ p[m + 1] = stack[k]
          BY <4>1, <3>0, <1>5, <1>8
        <5> QED BY <5>1, <3>0, <3>1
      <4>2. CASE k # n
        <5>1. k \in 1 .. (n - 1)
          BY <4>2, <3>0
        <5>2. t[k] = stack[k]
          BY <5>1, <1>4
        <5> QED BY <5>1, <5>2, <3>0, <3>1
      <4> QED BY <4>1, <4>2
    <3>2. ASSUME NEW j \in (i + 1) .. m, post[i] \in ToSet(succs[post[j]]) PROVE Backed(i)
      <4>1. j \in (i + 1) .. (m + 1) /\ j \in 1 .. m
        BY <3>0
      <4>2. p[j] = post[j]
        BY <4>1, <1>5
      <4> QED BY <4>1, <4>2, <3>0, <3>2
    <3>3. CASE post[i] = Start
      BY <3>0, <3>3
    <3> HIDE DEF Backed
    <3> QED BY <3>1, <3>2, <3>3, <2>0
  <2>4. \A i \in 1 .. (m + 1) : i \in 1 .. m \/ i = m + 1
    BY <1>2
  <2>5. \A i \in 1 .. (m + 1) : Backed(i)
    BY <2>2, <2>3, <2>4
  <2>6. Len(t) = n - 1 /\ Len(p) = m + 1
    BY <1>4, <1>5
  <2> QED BY <2>1, <2>5, <2>6, <1>3, <1>6 DEF Behind
<1>12. EntryLast'
  <2>0. n > 0 /\ n \in Nat /\ m \in Nat /\ stack[1] = Start /\ Len(t) = n - 1 /\ Len(p) = m + 1
        /\ p[m + 1] = stack[n]
    BY <1>2, <1>4, <1>5 DEF SearchInv, EntryLast, n, m, x
  <2>1. n - 1 > 0 => t[1] = stack[1]
    BY <2>0, <1>4
  <2>2. n - 1 = 0 => p[m + 1] = Start
    BY <2>0
  <2> QED BY <2>0, <2>1, <2>2, <1>3, <1>6 DEF EntryLast
<1> QED BY <1>7, <1>9, <1>10, <1>11, <1>12 DEF SearchInv

\* Nothing else touches the search.
LEMMA SearchStays ==
  ASSUME SearchInv, UNCHANGED <<succs, stack, seen, post>>,
         phase' \in {"search", "sweep", "done"}, phase' # "search" => Len(stack) = 0
  PROVE  SearchInv'
<1>1. Reachable' = Reachable
  BY SameGraph
<1>2. SearchTypes' /\ EachOnce'
  BY DEF SearchInv, SearchTypes, EachOnce
<1>3. SeenReachable'
  BY <1>1 DEF SearchInv, SeenReachable
<1>4. Behind' /\ EntryLast'
  BY DEF SearchInv, Behind, EntryLast
<1> QED BY <1>2, <1>3, <1>4 DEF SearchInv

\* Every step keeps what the search promises.
LEMMA SearchStep ==
  ASSUME SearchInv, [Next]_vars PROVE SearchInv'
<1>0. phase \in {"search", "sweep", "done"} /\ (phase # "search" => Len(stack) = 0)
  BY DEF SearchInv, SearchTypes, EntryLast
<1>1. CASE Advance
  BY <1>1, SearchAdvances
<1>2. CASE Retreat
  BY <1>2, SearchRetreats
<1>3. CASE BeginSweeps
  <2>1. Len(stack) = 0
    BY <1>3 DEF BeginSweeps
  <2> QED BY <1>3, <2>1, SearchStays DEF BeginSweeps
<1>4. CASE Climb
  BY <1>0, <1>4, SearchStays DEF Climb
<1>5. CASE NextSweep
  BY <1>0, <1>5, SearchStays DEF NextSweep, SweepAgain
<1>6. CASE Finish
  BY <1>0, <1>6, SearchStays DEF Finish
<1>7. CASE UNCHANGED vars
  BY <1>0, <1>7, SearchStays DEF vars
<1> QED BY <1>1, <1>2, <1>3, <1>4, <1>5, <1>6, <1>7 DEF Next

\* After the search, the order numbers the reachable blocks.
LEMMA SearchNumbers ==
  ASSUME SearchInv, phase # "search"
  PROVE  Numbered /\ Reached = Reachable
<1> DEFINE m == Len(post)
<1>1. IsGraph /\ Listed(post) /\ Listed(stack) /\ Len(stack) = 0
  BY GraphsAreGraphs DEF SearchInv, SearchTypes, EntryLast
<1>2. /\ m \in Nat /\ m > 0 /\ post[m] = Start /\ m \in 1 .. m
      /\ \A i \in 1 .. m : post[i] \in Blocks /\ post[i] \in Reached
      /\ \A b \in Reached : \E i \in 1 .. m : b = post[i]
      /\ ToSet(stack) = {}
  <2>1. m > 0 /\ post[m] = Start /\ m \in Nat
    BY <1>1, ListedFacts DEF SearchInv, EntryLast
  <2> QED BY <1>1, <2>1, ListedFacts DEF Reached
<1>3. /\ seen = Reached /\ \A i, j \in 1 .. m : post[i] = post[j] => i = j
  BY <1>2 DEF SearchInv, EachOnce, Reached
<1>4. Reached = Reachable
  <2>1. Reached \in SUBSET Reachable /\ \A b \in Reached : ToSet(succs[b]) \subseteq Reached
    BY <1>3 DEF SearchInv, SeenReachable, Reached
  <2>2. Start \in Reached /\ Reached \in SUBSET Blocks
    BY <1>2
  <2> QED BY <2>1, <2>2, <1>1, ReachableIsLeast
<1>5. /\ Len(Rpo) = m /\ DOMAIN Rpo = 1 .. m
      /\ \A i \in 1 .. m : Rpo[i] = post[m - i + 1] /\ m - i + 1 \in 1 .. m
  <2>1. Rpo = [i \in 1 .. m |-> post[(m - i) + 1]]
    BY DEF Rpo, Reverse
  <2>2. \A i \in 1 .. m : (m - i) + 1 \in 1 .. m /\ (m - i) + 1 = m - i + 1
    BY <1>2
  <2> HIDE DEF Rpo, m
  <2>3. Rpo \in [1 .. m -> Blocks]
    BY <2>1, <2>2, <1>2
  <2>4. Len(Rpo) = m
    BY <2>3, <1>2
  <2> QED BY <2>1, <2>2, <2>4
<1> HIDE DEF m
<1>6. \A i, j \in 1 .. m : Rpo[i] = Rpo[j] => i = j
  <2> SUFFICES ASSUME NEW i \in 1 .. m, NEW j \in 1 .. m, Rpo[i] = Rpo[j] PROVE i = j
    OBVIOUS
  <2>1. m - i + 1 = m - j + 1
    BY <1>3, <1>5
  <2> QED BY <2>1, <1>2
<1>7. \A i \in 1 .. m : Rpo[i] \in Reached /\ Number(Rpo[i]) = i
  BY <1>2, <1>5, <1>6 DEF Number
<1>8. \A k \in 1 .. m : Rpo[m - k + 1] = post[k] /\ m - k + 1 \in 1 .. m
  <2> SUFFICES ASSUME NEW k \in 1 .. m PROVE Rpo[m - k + 1] = post[k] /\ m - k + 1 \in 1 .. m
    OBVIOUS
  <2>1. m - k + 1 \in 1 .. m /\ m - (m - k + 1) + 1 = k
    BY <1>2
  <2> QED BY <2>1, <1>5
<1>9. \A k \in 1 .. m : Number(post[k]) = m - k + 1 /\ Number(post[k]) \in 1 .. m
  BY <1>7, <1>8
<1>10. \A b \in Reached : Number(b) \in 1 .. m /\ Rpo[Number(b)] = b
  BY <1>2, <1>8, <1>9
<1>11. Number(Start) = 1
  <2>1. m \in 1 .. m /\ m - m + 1 = 1
    BY <1>2
  <2> QED BY <2>1, <1>2, <1>9
<1>12. ASSUME NEW b \in Reached \ {Start}
       PROVE  \E p \in Reached : b \in ToSet(succs[p]) /\ Number(p) < Number(b)
  <2>1. PICK i \in 1 .. m : b = post[i]
    BY <1>2
  <2>2. PICK j \in (i + 1) .. m : post[i] \in ToSet(succs[post[j]])
    BY <2>1, <1>1 DEF SearchInv, Behind, m
  <2>3. j \in 1 .. m /\ m - j + 1 < m - i + 1
    BY <1>2
  <2>4. post[j] \in Reached
    BY <2>3, <1>2
  <2> QED BY <2>1, <2>2, <2>3, <2>4, <1>9
<1>13. Reached \in SUBSET Blocks /\ Start \in Reached
  BY <1>2
<1> QED BY <1>2, <1>4, <1>5, <1>7, <1>10, <1>11, <1>12, <1>13 DEF Numbered

-----------------------------------------------------------------------------
(* The sweeps never climb past a dominator.                                *)

\* What dominates a block and comes before its immediate dominator dominates that.
Inherits == \A b \in Placed \ {Start}, a \in Reached :
              Number(a) < Number(idom[b]) /\ TrulyDominates(a, b) => TrulyDominates(a, idom[b])

\* A walk up meets every dominator.
NeverPasses == \A b \in Placed, a \in Reached : TrulyDominates(a, b) => a \in Above(idom, b)

\* The blocks this sweep has done have dominators,
PlacedBefore == \A i \in 1 .. Len(Rpo) : i < cur => Rpo[i] \in Placed

\* and, when it has changed nothing, those all their predecessors lie below.
Settled == ~changed => \A i \in 1 .. Len(Rpo) :
              i < cur /\ Rpo[i] # Start =>
                \A p \in Preds(Rpo[i]) \cap Placed : idom[Rpo[i]] \in Above(idom, p)

SweepTypes == /\ idom \in [Blocks -> Blocks \cup {NoNode, Unset}]
              /\ cur \in Nat \ {0} /\ changed \in BOOLEAN
              /\ phase = "search" => \A b \in Blocks : idom[b] = Unset

Sweeping == Climbing /\ Inherits /\ NeverPasses /\ PlacedBefore /\ Settled

SweepInv == /\ SweepTypes
            /\ phase # "search" => Sweeping
            /\ phase = "done" => ~changed /\ cur > Len(Rpo)

IInv == SearchInv /\ SweepInv

\* What dominates a block dominates what the walk up meets after it.
LEMMA DominatesAbove ==
  ASSUME Numbered, Climbing, Inherits, NEW a \in Reached, NEW c \in Placed,
         TrulyDominates(a, c), NEW b \in Above(idom, c), Number(a) < Number(b)
  PROVE  TrulyDominates(a, b)
<1>0. c \in Blocks /\ Placed \in SUBSET Blocks /\ Placed \in SUBSET Reached
  BY DEF Placed, Numbered
<1>1. \A x \in Reached : Number(x) \in Nat
  BY NumberInjective
<1> DEFINE X == {x \in Placed : Number(a) < Number(x) => TrulyDominates(a, x)}
<1>2. c \in X /\ X \in SUBSET Blocks
  BY <1>0
<1>3. Rising(idom, X)
  <2> SUFFICES ASSUME NEW x \in X, idom[x] \in Blocks PROVE idom[x] \in X
    BY DEF Rising
  <2>1. x # Start
    BY BlocksAssumption DEF Climbing
  <2>2. idom[x] \in Placed /\ Number(idom[x]) < Number(x) /\ x \in Placed \ {Start}
    BY <2>1 DEF Climbing
  <2>3. ASSUME Number(a) < Number(idom[x]) PROVE TrulyDominates(a, idom[x])
    <3>1. Number(a) < Number(x)
      BY <2>2, <2>3, <1>0, <1>1
    <3> QED BY <3>1, <2>2, <2>3 DEF Inherits
  <2> QED BY <2>2, <2>3
<1>4. b \in X
  BY <1>2, <1>3, <1>0, AboveIsLeast
<1> QED BY <1>4

\* What a sweep finds for a block is the join of its predecessors that have
\* dominators, of which there are some, and comes before it.
LEMMA ClimbFinds ==
  ASSUME Numbered, Climbing, PlacedBefore, cur \in Nat, cur >= 1, Climb,
         NEW b, b = Rpo[cur], b # Start
  PROVE  /\ b \in Reached /\ Number(b) = cur /\ \E p \in Preds(b) : p \in Placed
         /\ \E r : /\ Joins(Preds(b) \cap Placed, r) /\ Number(r) < Number(b)
                   /\ idom' = [idom EXCEPT ![b] = r] /\ (changed' <=> (changed \/ idom[b] # r))
<1>1. cur \in 1 .. Len(Rpo) /\ Len(Rpo) \in Nat
  BY DEF Climb, Numbered
<1>2. b \in Reached /\ Number(b) = cur /\ b \in Reached \ {Start}
  BY <1>1 DEF Numbered
<1>3. PICK p \in Reached : b \in ToSet(succs[p]) /\ Number(p) < Number(b)
  BY <1>2 DEF Numbered
<1>4. p \in Preds(b) /\ Number(p) \in 1 .. Len(Rpo) /\ Rpo[Number(p)] = p
  BY <1>3 DEF Preds, Numbered
<1>5. p \in Placed
  BY <1>2, <1>3, <1>4 DEF PlacedBefore
<1>6. PICK ps \in Listings(Preds(b)) : /\ idom' = [idom EXCEPT ![b] = NewIdom(ps)]
                                       /\ (changed' <=> (changed \/ idom[b] # NewIdom(ps)))
  BY DEF Climb
<1> DEFINE r == NewIdom(ps)
<1>7. Joins(Preds(b) \cap Placed, r)
  <2>1. Preds(b) \in SUBSET Blocks /\ Preds(b) \cap Placed # {}
    BY <1>4, <1>5 DEF Preds
  <2> QED BY <2>1, NewIdomJoins
<1> HIDE DEF r
<1>8. r \in Above(idom, p) /\ r \in Placed
  BY <1>4, <1>5, <1>7 DEF Joins
<1>9. Number(r) <= Number(p) /\ r \in Reached
  BY <1>8, <1>5, WalkDescends
<1>10. Number(r) \in Nat /\ Number(p) \in Nat /\ Number(b) \in Nat
  BY <1>2, <1>9, <1>3, NumberInjective
<1>11. Number(r) < Number(b)
  BY <1>3, <1>9, <1>10
<1>12. idom' = [idom EXCEPT ![b] = r] /\ (changed' <=> (changed \/ idom[b] # r))
  BY <1>6 DEF r
<1> QED BY <1>2, <1>4, <1>5, <1>7, <1>11, <1>12

\* Giving a block that join keeps the tree climbing, and keeps it below every
\* dominator.
LEMMA JoinKeepsTree ==
  ASSUME IsGraph, Numbered, Climbing, Inherits, NeverPasses, idom \in [Blocks -> Blocks \cup {NoNode, Unset}],
         NEW b \in Reached, b # Start, NEW r, Joins(Preds(b) \cap Placed, r), Number(r) < Number(b),
         \E p \in Preds(b) : p \in Placed,
         idom' = [idom EXCEPT ![b] = r], UNCHANGED <<succs, post>>
  PROVE  /\ Placed' = Placed \cup {b}
         /\ Climbing' /\ Inherits' /\ NeverPasses'
<1> DEFINE f == idom
           g == idom'
<1>0. /\ Reached \in SUBSET Blocks /\ Placed \in SUBSET Reached /\ r \in Placed /\ b \in Blocks
      /\ \A p \in Preds(b) \cap Placed : r \in Above(f, p)
      /\ \A a \in Blocks : (\A p \in Preds(b) \cap Placed : a \in Above(f, p)) => a \in Above(f, r)
  BY DEF Placed, Numbered, Joins
<1>1. g[b] = r /\ (\A x \in Blocks \ {b} : g[x] = f[x]) /\ g[Start] = f[Start]
  BY <1>0, BlocksAssumption
<1> HIDE DEF g
<1>2. Reached' = Reached /\ (\A x : Number(x)' = Number(x))
      /\ (\A x, y : TrulyDominates(x, y)' = TrulyDominates(x, y))
  BY SameGraph DEF Reached, Number, Rpo
<1>3. Placed' = Placed \cup {b}
  <2>1. r # Unset
    BY <1>0, BlocksAssumption
  <2>2. Placed' = {x \in Reached : g[x] # Unset}
    BY <1>2 DEF Placed, g
  <2>3. \A x \in Reached : g[x] # Unset <=> (x \in Placed \/ x = b)
    BY <1>0, <1>1, <2>1 DEF Placed
  <2> QED BY <2>2, <2>3, <1>0
<1>4. \A x \in Reached : Number(x) \in Nat
  BY NumberInjective
<1>5. /\ b \notin Above(f, r) /\ Above(f, r) \in SUBSET Placed
      /\ \A a \in Above(f, r) : a \in Reached /\ Number(a) <= Number(r)
  <2>1. \A a \in Above(f, r) : a \in Placed /\ a \in Reached /\ Number(a) <= Number(r)
    BY <1>0, WalkDescends
  <2> QED BY <2>1, <1>0, <1>4
<1>6. Above(g, r) = Above(f, r)
  BY <1>0, <1>1, <1>5, AboveUnchanged
<1>7. Above(g, b) = {b} \cup Above(f, r)
  BY <1>0, <1>1, <1>6, AboveStep
<1>8. Climbing'
  <2>1. ASSUME NEW x \in Placed' \ {Start}
        PROVE  g[x] \in Placed' /\ Number(g[x]) < Number(x)
    <3>1. CASE x = b
      BY <3>1, <1>0, <1>1, <1>3
    <3>2. CASE x # b
      <4>1. x \in Placed \ {Start} /\ x \in Blocks
        BY <3>2, <1>0, <1>3
      <4>2. g[x] = f[x]
        BY <3>2, <4>1, <1>1
      <4> QED BY <4>1, <4>2, <1>3 DEF Climbing
    <3> QED BY <3>1, <3>2
  <2>2. g[Start] = NoNode
    BY <1>1 DEF Climbing
  <2> QED BY <2>1, <2>2, <1>2 DEF Climbing, g
\* What dominates b dominates its predecessors, and what stands before r on them.
<1>9. ASSUME NEW a \in Reached, a # b, TrulyDominates(a, b)
      PROVE  /\ a \in Above(f, r)
             /\ Number(a) < Number(r) => TrulyDominates(a, r)
  <2>1. \A p \in Preds(b) : p \in Blocks /\ TrulyDominates(a, p)
    BY <1>0, <1>9, DominatesPredecessor DEF Preds
  <2>2. \A p \in Preds(b) \cap Placed : a \in Above(f, p)
    BY <2>1 DEF NeverPasses
  <2>3. a \in Above(f, r)
    BY <2>2, <1>0
  <2>4. PICK p \in Preds(b) : p \in Placed
    OBVIOUS
  <2>5. Number(a) < Number(r) => TrulyDominates(a, r)
    BY <2>1, <2>4, <1>0, DominatesAbove
  <2> QED BY <2>3, <2>5
<1>10. Inherits'
  <2>1. ASSUME NEW x \in Placed' \ {Start}, NEW a \in Reached,
               Number(a) < Number(g[x]), TrulyDominates(a, x)
        PROVE  TrulyDominates(a, g[x])
    <3>1. CASE x = b
      <4>1. g[x] = r /\ Number(a) < Number(r)
        BY <3>1, <2>1, <1>1
      <4>2. a # b
        BY <4>1, <1>0, <1>4
      <4> QED BY <4>1, <4>2, <3>1, <2>1, <1>9
    <3>2. CASE x # b
      <4>1. x \in Placed \ {Start} /\ x \in Blocks
        BY <3>2, <1>0, <1>3
      <4>2. g[x] = f[x]
        BY <3>2, <4>1, <1>1
      <4> QED BY <4>1, <4>2, <2>1 DEF Inherits
    <3> QED BY <3>1, <3>2
  <2> QED BY <2>1, <1>2 DEF Inherits, g
<1>11. NeverPasses'
  <2>1. ASSUME NEW a \in Reached, TrulyDominates(a, b) PROVE a \in Above(g, b)
    BY <2>1, <1>7, <1>9
  <2>2. ASSUME NEW x \in Placed', NEW a \in Reached, TrulyDominates(a, x)
        PROVE  a \in Above(g, x)
    <3>1. CASE x = b
      BY <3>1, <2>1, <2>2
    <3>2. CASE x # b
      <4>1. x \in Placed /\ x \in Blocks
        BY <3>2, <1>0, <1>3
      <4>2. a \in Above(f, x)
        BY <4>1, <2>2 DEF NeverPasses
      <4>3. CASE b \notin Above(f, x)
        <5>1. Above(g, x) = Above(f, x)
          BY <4>1, <4>3, <1>0, <1>1, AboveUnchanged
        <5> QED BY <4>2, <5>1
      <4>4. CASE b \in Above(f, x)
        <5>1. /\ b \in Above(g, x)
              /\ Above(f, x) \subseteq Above(g, x) \cup Above(f, b)
          BY <4>1, <4>4, <1>0, <1>1, AboveBelow
        <5>2. CASE a \in Above(g, x)
          BY <5>2
        <5>3. CASE a \in Above(f, b) /\ a # b
          <6>1. b \in Placed
            BY <4>1, <4>4, WalkDescends
          <6>2. Number(a) < Number(b)
            BY <6>1, <5>3, WalkDescends
          <6>3. TrulyDominates(a, b)
            BY <6>2, <4>1, <4>4, <2>2, DominatesAbove
          <6>4. a \in Above(g, b)
            BY <6>3, <2>1
          <6> QED BY <6>4, <5>1, <4>1, AboveTrans
        <5>4. CASE a = b
          BY <5>1, <5>4
        <5> QED BY <4>2, <5>1, <5>2, <5>3, <5>4
      <4> QED BY <4>3, <4>4
    <3> QED BY <3>1, <3>2
  <2> QED BY <2>1, <2>2, <1>2 DEF NeverPasses, g
<1> QED BY <1>3, <1>8, <1>10, <1>11

\* A tree that stays is as good as before.
LEMMA TreeStays ==
  ASSUME Climbing, Inherits, NeverPasses, UNCHANGED <<succs, post, idom>>
  PROVE  Placed' = Placed /\ Rpo' = Rpo /\ Climbing' /\ Inherits' /\ NeverPasses'
<1>1. Reached' = Reached /\ Rpo' = Rpo /\ (\A x : Number(x)' = Number(x))
      /\ (\A x, y : TrulyDominates(x, y)' = TrulyDominates(x, y))
  BY SameGraph DEF Reached, Number, Rpo
<1>2. Placed' = Placed
  BY <1>1 DEF Placed
<1>3. Climbing'
  BY <1>1, <1>2 DEF Climbing
<1>4. Inherits'
  BY <1>1, <1>2 DEF Inherits
<1>5. NeverPasses'
  BY <1>1, <1>2 DEF NeverPasses
<1> QED BY <1>1, <1>2, <1>3, <1>4, <1>5

\* A step of a sweep keeps the invariant of the sweeps.
LEMMA SweepClimbs ==
  ASSUME IInv, Climb PROVE SweepInv'
<1>1. /\ phase = "sweep" /\ phase' = "sweep" /\ cur <= Len(Rpo) /\ cur' = cur + 1
      /\ UNCHANGED <<succs, post>>
  BY DEF Climb
<1>2. /\ IsGraph /\ Numbered
      /\ idom \in [Blocks -> Blocks \cup {NoNode, Unset}] /\ cur \in Nat /\ cur >= 1
      /\ changed \in BOOLEAN
      /\ Climbing /\ Inherits /\ NeverPasses /\ PlacedBefore /\ Settled
  BY <1>1, SearchNumbers, GraphsAreGraphs DEF IInv, SearchInv, SweepInv, SweepTypes, Sweeping
<1>3. Rpo' = Rpo /\ \A x : Preds(x)' = Preds(x)
  BY <1>1 DEF Rpo, Preds
<1>4. \A i \in 1 .. Len(Rpo) : i < cur + 1 => i < cur \/ i = cur
  BY <1>2
<1> DEFINE b == Rpo[cur]
<1>5. CASE b = Start
  <2>1. idom' = idom /\ changed' = changed
    BY <1>5 DEF Climb
  <2>2. Placed' = Placed /\ Climbing' /\ Inherits' /\ NeverPasses'
    BY <1>1, <1>2, <2>1, TreeStays
  <2>3. b \in Placed
    BY <1>2, <1>5, BlocksAssumption DEF Placed, Climbing, Numbered
  <2>4. PlacedBefore'
    BY <1>1, <1>2, <1>3, <1>4, <2>2, <2>3 DEF PlacedBefore
  <2>5. Settled'
    <3> SUFFICES ASSUME ~changed', NEW i \in 1 .. Len(Rpo), i < cur + 1, Rpo[i] # Start,
                        NEW p \in Preds(Rpo[i]) \cap Placed
                 PROVE  idom[Rpo[i]] \in Above(idom, p)
      BY <1>1, <1>3, <2>1, <2>2 DEF Settled
    <3>1. i < cur
      BY <1>4, <1>5
    <3> QED BY <3>1, <2>1, <1>2 DEF Settled
  <2>6. SweepTypes'
    BY <1>1, <1>2, <2>1 DEF SweepTypes
  <2> QED BY <1>1, <2>2, <2>4, <2>5, <2>6 DEF SweepInv, Sweeping
<1>6. CASE b # Start
  <2>1. /\ b \in Reached /\ \E p \in Preds(b) : p \in Placed
        /\ \E r : /\ Joins(Preds(b) \cap Placed, r) /\ Number(r) < Number(b)
                  /\ idom' = [idom EXCEPT ![b] = r] /\ (changed' <=> (changed \/ idom[b] # r))
    BY <1>2, <1>6, ClimbFinds
  <2>2. PICK r : /\ Joins(Preds(b) \cap Placed, r) /\ Number(r) < Number(b)
                 /\ idom' = [idom EXCEPT ![b] = r] /\ (changed' <=> (changed \/ idom[b] # r))
    BY <2>1
  <2> HIDE DEF b
  <2>3. Placed' = Placed \cup {b} /\ Climbing' /\ Inherits' /\ NeverPasses'
    BY <1>1, <1>2, <1>6, <2>1, <2>2, JoinKeepsTree
  <2>4. PlacedBefore'
    BY <1>1, <1>2, <1>3, <1>4, <2>3 DEF PlacedBefore, b
  <2>5. r \in Blocks /\ r # Unset
    BY <2>2, <1>2, BlocksAssumption DEF Joins, Placed, Numbered
  <2>6. Settled'
    <3> SUFFICES ASSUME ~changed' PROVE Settled'
      BY DEF Settled
    <3>1. ~changed /\ idom[b] = r /\ idom' = idom
      BY <2>2, <1>2
    <3>2. b \in Placed
      BY <2>1, <2>5, <3>1 DEF Placed
    <3>3. Placed' = Placed
      BY <2>3, <3>2
    <3>4. \A p \in Preds(b) \cap Placed : idom[b] \in Above(idom, p)
      BY <2>2, <3>1 DEF Joins
    <3> QED BY <1>1, <1>2, <1>3, <1>4, <3>1, <3>3, <3>4 DEF Settled, b
  <2>7. SweepTypes'
    <3>1. idom' \in [Blocks -> Blocks \cup {NoNode, Unset}] /\ changed' \in BOOLEAN
      BY <1>2, <2>2, <2>5 DEF Climb
    <3> QED BY <1>1, <1>2, <3>1 DEF SweepTypes
  <2> QED BY <1>1, <2>3, <2>4, <2>6, <2>7 DEF SweepInv, Sweeping
<1> QED BY <1>5, <1>6

\* The search leaves the tree alone.
LEMMA TreeWaits ==
  ASSUME SweepInv, phase = "search", phase' = "search", UNCHANGED <<idom, cur, changed>>
  PROVE  SweepInv'
BY DEF SweepInv, SweepTypes

\* Nothing but the entry dominates the entry.
LEMMA NothingAboveStart ==
  ASSUME IsGraph, NEW a, TrulyDominates(a, Start)
  PROVE  a = Start
<1>1. {Start} \in SUBSET Blocks
  BY BlocksAssumption
<1>2. {Start} \ {a} \subseteq From({Start}, a)
  BY <1>1, FromIsLeast
<1> QED BY <1>2 DEF TrulyDominates

\* The sweeps begin with the entry alone.
LEMMA SweepsBegin ==
  ASSUME IInv, BeginSweeps PROVE SweepInv'
<1>1. /\ phase = "search" /\ phase' = "sweep" /\ cur' = 1 /\ changed' = FALSE
      /\ idom' = [idom EXCEPT ![Start] = NoNode] /\ UNCHANGED <<succs, post>>
  BY DEF BeginSweeps
<1>2. /\ IsGraph /\ Listed(post) /\ idom \in [Blocks -> Blocks \cup {NoNode, Unset}]
      /\ \A b \in Blocks : idom[b] = Unset
  BY <1>1, GraphsAreGraphs DEF IInv, SearchInv, SearchTypes, SweepInv, SweepTypes
<1>3. Start \in Blocks /\ idom'[Start] = NoNode /\ \A b \in Blocks : b # Start => idom'[b] = Unset
  BY <1>1, <1>2, BlocksAssumption
<1>4. \A b \in Reached : b \in Blocks
  BY <1>2, ListedFacts DEF Reached
<1>5. Reached' = Reached /\ Rpo' = Rpo
      /\ (\A x, y : TrulyDominates(x, y)' = TrulyDominates(x, y))
  BY <1>1, SameGraph DEF Reached, Rpo
<1>6. \A b \in Placed' : b = Start
  BY <1>3, <1>4, <1>5 DEF Placed
<1>7. Climbing' /\ Inherits'
  BY <1>3, <1>6 DEF Climbing, Inherits
<1>8. NeverPasses'
  <2> SUFFICES ASSUME NEW b \in Placed', NEW a \in Reached, TrulyDominates(a, b)
               PROVE  a \in Above(idom', b)
    BY <1>5 DEF NeverPasses
  <2>1. b = Start /\ a = Start
    BY <1>2, <1>6, NothingAboveStart
  <2> QED BY <2>1, <1>3, AboveIsLeast
<1>9. PlacedBefore' /\ Settled'
  BY <1>1 DEF PlacedBefore, Settled
<1>10. SweepTypes'
  <2>0. idom' \in [Blocks -> Blocks \cup {NoNode, Unset}]
    BY <1>1, <1>2
  <2>1. cur' \in Nat \ {0} /\ idom' \in [Blocks -> Blocks \cup {NoNode, Unset}] /\ phase' # "search"
    <3>1. cur' = 1 /\ phase' = "sweep"
      BY <1>1
    <3> QED BY <2>0, <3>1
  <2>2. changed' \in BOOLEAN
    BY <1>1
  <2> QED BY <2>1, <2>2 DEF SweepTypes
<1> QED BY <1>1, <1>7, <1>8, <1>9, <1>10 DEF SweepInv, Sweeping

\* Another sweep, or the last one done.
LEMMA SweepEnds ==
  ASSUME IInv, NextSweep \/ Finish PROVE SweepInv'
<1>1. /\ phase = "sweep" /\ cur > Len(Rpo) /\ UNCHANGED <<succs, post, idom>>
      /\ \/ phase' = "sweep" /\ cur' = 1 /\ changed' = FALSE
         \/ phase' = "done" /\ cur' = cur /\ changed' = changed /\ ~changed
  BY DEF NextSweep, Finish, SweepAgain
<1>2. SweepTypes /\ Climbing /\ Inherits /\ NeverPasses /\ PlacedBefore /\ Settled
  BY <1>1 DEF IInv, SweepInv, Sweeping
<1>3. Placed' = Placed /\ Rpo' = Rpo /\ Climbing' /\ Inherits' /\ NeverPasses'
  BY <1>1, <1>2, TreeStays
<1>4. SweepTypes'
  <2>1. cur' \in Nat \ {0} /\ idom' \in [Blocks -> Blocks \cup {NoNode, Unset}] /\ phase' # "search"
    BY <1>1, <1>2 DEF SweepTypes
  <2>2. changed' \in BOOLEAN
    BY <1>1, <1>2, Zenon DEF SweepTypes
  <2> QED BY <2>1, <2>2 DEF SweepTypes
<1>5. PlacedBefore' /\ Settled'
  <2>1. CASE cur' = 1
    BY <2>1 DEF PlacedBefore, Settled
  <2>2. CASE cur' = cur /\ changed' = changed
    <3>1. \A x : Preds(x)' = Preds(x)
      BY <1>1 DEF Preds
    <3> QED BY <2>2, <1>1, <1>2, <1>3, <3>1 DEF PlacedBefore, Settled
  <2> QED BY <2>1, <2>2, <1>1
<1> QED BY <1>1, <1>3, <1>4, <1>5 DEF SweepInv, Sweeping

\* A step that is none keeps everything.
LEMMA SweepStutters ==
  ASSUME IInv, UNCHANGED vars PROVE SweepInv'
<1>1. UNCHANGED <<succs, post, idom, phase, cur, changed>>
  BY DEF vars
<1>2. SweepTypes' /\ (phase' = "done" => ~changed' /\ cur' > Len(Rpo)')
  BY <1>1 DEF IInv, SweepInv, SweepTypes, Rpo
<1>3. ASSUME phase # "search" PROVE Sweeping'
  <2>1. Climbing /\ Inherits /\ NeverPasses /\ PlacedBefore /\ Settled
    BY <1>3 DEF IInv, SweepInv, Sweeping
  <2>2. Placed' = Placed /\ Rpo' = Rpo /\ Climbing' /\ Inherits' /\ NeverPasses'
    BY <1>1, <2>1, TreeStays
  <2>3. \A x : Preds(x)' = Preds(x)
    BY <1>1 DEF Preds
  <2>4. PlacedBefore' /\ Settled'
    BY <1>1, <2>1, <2>2, <2>3 DEF PlacedBefore, Settled
  <2> QED BY <2>2, <2>4 DEF Sweeping
<1> QED BY <1>1, <1>2, <1>3 DEF SweepInv

-----------------------------------------------------------------------------
(* The theorem.                                                            *)

\* The invariant holds at first.
LEMMA InvInit ==
  ASSUME Init PROVE IInv
<1>1. /\ phase = "search" /\ idom = [b \in Blocks |-> Unset] /\ cur = 1 /\ changed = FALSE
  BY DEF Init
<1>2. SweepTypes
  <2>1. cur \in Nat \ {0} /\ idom \in [Blocks -> Blocks \cup {NoNode, Unset}]
        /\ \A b \in Blocks : idom[b] = Unset
    BY <1>1
  <2>2. changed \in BOOLEAN
    BY <1>1
  <2> QED BY <2>1, <2>2 DEF SweepTypes
<1>3. SweepInv
  BY <1>1, <1>2 DEF SweepInv
<1> QED BY <1>3, SearchInit DEF IInv

\* Every step keeps the invariant.
LEMMA InvStep ==
  ASSUME IInv, [Next]_vars PROVE IInv'
<1>1. SearchInv'
  BY SearchStep DEF IInv
<1>2. CASE Advance \/ Retreat
  <2>1. SweepInv /\ phase = "search" /\ phase' = "search" /\ UNCHANGED <<idom, cur, changed>>
    BY <1>2 DEF IInv, Advance, Retreat
  <2> QED BY <1>1, <2>1, TreeWaits DEF IInv
<1>3. CASE BeginSweeps
  BY <1>1, <1>3, SweepsBegin DEF IInv
<1>4. CASE Climb
  BY <1>1, <1>4, SweepClimbs DEF IInv
<1>5. CASE NextSweep \/ Finish
  BY <1>1, <1>5, SweepEnds DEF IInv
<1>6. CASE UNCHANGED vars
  BY <1>1, <1>6, SweepStutters DEF IInv
<1> QED BY <1>2, <1>3, <1>4, <1>5, <1>6 DEF Next

\* A tree whose walks up meet exactly the dominators.
TrueTree == /\ IsGraph /\ Numbered /\ Climbing
            /\ Reached = Reachable /\ Placed = Reached
            /\ \A b \in Reached : Above(idom, b) \subseteq Reached
            /\ \A b \in Reached, a \in Reached : a \in Above(idom, b) <=> TrulyDominates(a, b)

\* A finished tree is one: what a walk meets dominates its beginning, since the blocks
\* whose walks do not meet it are all that the entry leads to without it.
LEMMA SettledIsTrue ==
  ASSUME IInv, Done PROVE TrueTree
<1>1. /\ IsGraph /\ Numbered /\ Reached = Reachable
      /\ Climbing /\ Inherits /\ NeverPasses /\ PlacedBefore /\ Settled
      /\ ~changed /\ cur > Len(Rpo) /\ cur \in Nat
  BY SearchNumbers, GraphsAreGraphs DEF Done, IInv, SearchInv, SweepInv, SweepTypes, Sweeping
<1>2. \A i \in 1 .. Len(Rpo) : i < cur
  BY <1>1 DEF Numbered
<1>3. Placed = Reached /\ Reached \in SUBSET Blocks /\ Start \in Reached
  BY <1>1, <1>2 DEF PlacedBefore, Numbered, Placed
<1>4. ASSUME NEW b \in Reached, b # Start, NEW p \in Reached, b \in ToSet(succs[p])
      PROVE  idom[b] \in Above(idom, p)
  <2>1. Number(b) \in 1 .. Len(Rpo) /\ Rpo[Number(b)] = b
    BY <1>1 DEF Numbered
  <2>2. p \in Preds(b) \cap Placed
    BY <1>3, <1>4 DEF Preds
  <2> QED BY <1>1, <1>2, <1>4, <2>1, <2>2 DEF Settled
<1>5. ASSUME NEW b \in Reached, NEW a \in Above(idom, b) PROVE TrulyDominates(a, b)
  <2> DEFINE Y == {x \in Reached : a \notin Above(idom, x)}
  <2>1. Y \in SUBSET Blocks /\ {Start} \in SUBSET Blocks
    BY <1>3
  <2>2. {Start} \ {a} \subseteq Y
    <3>1. Above(idom, Start) = {Start}
      BY <1>1, <1>3, WalkStep
    <3> QED BY <3>1, <1>3
  <2>3. ASSUME NEW x \in Y, NEW s \in ToSet(succs[x]), s # a PROVE s \in Y
    <3>1. s \in Reached /\ x \in Reached
      BY <1>1, ReachableIsLeast
    <3>2. CASE s = Start
      BY <3>2, <2>2, <2>3
    <3>3. CASE s # Start
      <4>1. Above(idom, s) = {s} \cup Above(idom, idom[s])
        BY <3>1, <3>3, <1>1, <1>3, WalkStep
      <4>2. idom[s] \in Above(idom, x) /\ x \in Blocks
        BY <3>1, <3>3, <1>3, <1>4
      <4>3. Above(idom, idom[s]) \subseteq Above(idom, x)
        BY <4>2, AboveTrans
      <4> QED BY <2>3, <3>1, <4>1, <4>3
    <3> QED BY <3>2, <3>3
  <2>4. From({Start}, a) \subseteq Y
    <3>1. \A x \in Y : ToSet(succs[x]) \ {a} \subseteq Y
      BY <2>3
    <3> HIDE DEF Y
    <3> QED BY <1>1, <2>1, <2>2, <3>1, FromIsLeast
  <2>5. b \notin From({Start}, a)
    BY <2>4, <1>5
  <2> QED BY <2>5 DEF TrulyDominates
<1>6. ASSUME NEW b \in Reached PROVE Above(idom, b) \subseteq Reached
  BY <1>1, <1>3, WalkDescends
<1>7. ASSUME NEW b \in Reached, NEW a \in Reached, TrulyDominates(a, b) PROVE a \in Above(idom, b)
  BY <1>1, <1>3, <1>7 DEF NeverPasses
<1> QED BY <1>1, <1>3, <1>5, <1>6, <1>7 DEF TrueTree

\* So the block one step up is the dominator that all other dominators dominate.
LEMMA SettledIsExact ==
  ASSUME TrueTree PROVE IdomExact
<1>1. /\ IsGraph /\ Numbered /\ Climbing /\ Reached = Reachable /\ Placed = Reached
      /\ Reached \in SUBSET Blocks /\ Start \in Reached
  BY DEF TrueTree, Numbered
<1>2. ASSUME NEW b \in Reachable \ {Start}
      PROVE  /\ idom[b] \in Dominators(b)
             /\ \A a \in Dominators(b) : a = idom[b] \/ TrulyDominates(a, idom[b])
  <2>1. b \in Reached /\ b \in Placed \ {Start} /\ b \in Blocks
    BY <1>1
  <2>2. idom[b] \in Placed /\ Number(idom[b]) < Number(b) /\ idom[b] \in Reached
    BY <1>1, <2>1 DEF Climbing
  <2>3. Number(b) \in Nat
    BY <1>1, <2>1, NumberInjective
  <2>4. Above(idom, b) = {b} \cup Above(idom, idom[b]) /\ idom[b] \in Above(idom, b)
    BY <1>1, <2>1, <2>2, WalkStep, AboveIsLeast
  <2>5. idom[b] \in Dominators(b)
    BY <1>1, <2>1, <2>2, <2>3, <2>4 DEF Dominators, TrueTree
  <2>6. ASSUME NEW a \in Dominators(b) PROVE TrulyDominates(a, idom[b])
    <3>1. a \in Reached /\ a # b /\ TrulyDominates(a, b)
      BY <1>1 DEF Dominators
    <3>2. a \in Above(idom, b)
      BY <1>1, <2>1, <3>1 DEF TrueTree
    <3>3. a \in Above(idom, idom[b])
      BY <3>1, <3>2, <2>4
    <3> QED BY <3>1, <3>3, <2>2 DEF TrueTree
  <2> QED BY <2>5, <2>6
<1> QED BY <1>1, <1>2 DEF IdomExact

\* The search and the sweeps keep their invariant.
THEOREM DominatorsInvariant == Spec => []IInv
<1>1. Init => IInv
  BY InvInit
<1>2. IInv /\ [Next]_vars => IInv'
  BY InvStep
<1> QED BY <1>1, <1>2, PTL DEF Spec

\* A finished tree holds, for every block the entry reaches and in every control graph,
\* the one dominator that all its other dominators dominate.
THEOREM IdomIsExact == Spec => []IdomExact
<1>1. IInv => IdomExact
  BY SettledIsTrue, SettledIsExact DEF IdomExact
<1> QED BY <1>1, DominatorsInvariant, PTL

-----------------------------------------------------------------------------
(* What a finished tree answers.                                           *)

\* The walk a query makes is the walk up.
LEMMA ChainIsAbove ==
  ASSUME TrueTree, NEW b \in Reached
  PROVE  Chain(b) = Above(idom, b)
<1> DEFINE Eqn(U) == U = [x \in Blocks |-> {x} \cup (IF idom[x] \in Blocks THEN U[idom[x]] ELSE {})]
           Up == CHOOSE U : Eqn(U)
           U0 == [x \in Blocks |-> Above(idom, x)]
<1>1. Chain(b) = Up[b]
  BY DEF Chain
<1>2. Reached \in SUBSET Blocks /\ Reached = Placed
  BY DEF TrueTree, Numbered
<1>3. ASSUME NEW x \in Blocks
      PROVE  U0[x] = {x} \cup (IF idom[x] \in Blocks THEN U0[idom[x]] ELSE {})
  BY AboveStep
<1>4. U0 = [x \in Blocks |-> {x} \cup (IF idom[x] \in Blocks THEN U0[idom[x]] ELSE {})]
  <2>1. U0 = [x \in Blocks |-> U0[x]]
    OBVIOUS
  <2> HIDE DEF U0
  <2> QED BY <2>1, <1>3
<1>5. Eqn(Up)
  <2> HIDE DEF U0
  <2>1. Eqn(U0)
    BY <1>4
  <2> QED BY <2>1
<1> HIDE DEF Up, U0
<1>6. ASSUME NEW x \in Blocks
      PROVE  Up[x] = {x} \cup (IF idom[x] \in Blocks THEN Up[idom[x]] ELSE {})
  BY <1>5
<1> HIDE DEF Eqn
<1> DEFINE A == {n \in Nat : \A x \in Reached : Number(x) <= n => Up[x] = Above(idom, x)}
<1>7. \A x \in Reached : Number(x) \in Nat /\ Number(x) >= 1
  BY NumberInjective DEF TrueTree
<1>8. 0 \in A
  BY <1>7
<1>9. ASSUME NEW n \in Nat, n \in A PROVE n + 1 \in A
  <2> SUFFICES ASSUME NEW x \in Reached, Number(x) <= n + 1 PROVE Up[x] = Above(idom, x)
    OBVIOUS
  <2>1. CASE x = Start
    <3>1. idom[x] \notin Blocks
      BY <2>1, BlocksAssumption DEF TrueTree, Climbing
    <3> QED BY <3>1, <1>2, <1>6, AboveStep
  <2>2. CASE x # Start
    <3>1. idom[x] \in Reached /\ Number(idom[x]) < Number(x) /\ idom[x] \in Blocks
      BY <2>2, <1>2 DEF TrueTree, Climbing
    <3>2. Number(idom[x]) <= n
      BY <3>1, <1>7
    <3>3. Up[idom[x]] = Above(idom, idom[x])
      BY <3>1, <3>2, <1>9
    <3>4. x \in Blocks /\ Up[x] = {x} \cup Up[idom[x]]
      BY <3>1, <1>2, <1>6
    <3>5. Above(idom, x) = {x} \cup Above(idom, idom[x])
      BY <3>1, <3>4, AboveStep
    <3> QED BY <3>3, <3>4, <3>5
  <2> QED BY <2>1, <2>2
<1> HIDE DEF A
<1>10. Number(b) \in A
  BY <1>7, <1>8, <1>9, NatSetInduction
<1> QED BY <1>10, <1>1, <1>7 DEF A

\* a is on the walk up from b.
Dom(a, b) == a \in Above(idom, b)

\* It is what a query answers, and dominance by paths.
LEMMA DomIsDominance ==
  ASSUME TrueTree, NEW a \in Reached, NEW b \in Reached
  PROVE  (Dom(a, b) <=> Dominates(a, b)) /\ (Dom(a, b) <=> TrulyDominates(a, b)) /\ Dom(a, a)
<1>1. a \in Blocks /\ b \in Blocks
  BY DEF TrueTree, Numbered
<1>2. a \in Above(idom, a) /\ Chain(b) = Above(idom, b)
  BY <1>1, AboveIsLeast, ChainIsAbove
<1> QED BY <1>2 DEF Dominates, Dom, TrueTree

\* It is an order, its chains go through the tree, and it agrees with the numbers.
LEMMA DomIsOrder ==
  ASSUME TrueTree, NEW b \in Reached
  PROVE  /\ \A a : Dom(a, b) => a \in Reached
         /\ \A a, c : Dom(a, b) /\ Dom(c, a) => Dom(c, b)
         /\ \A a : Dom(a, b) /\ Dom(b, a) => a = b
         /\ \A a, c : Dom(a, b) /\ Dom(c, b) => Dom(a, c) \/ Dom(c, a)
         /\ \A a : Dom(a, b) /\ a # b => b # Start /\ Dom(a, idom[b]) /\ idom[b] \in Reached
         /\ \A a : Dom(a, b) => Number(a) <= Number(b)
<1>1. /\ b \in Blocks /\ Reached \in SUBSET Blocks /\ Placed = Reached /\ Numbered /\ Climbing
      /\ \A x \in Reached : Above(idom, x) \subseteq Reached
  BY DEF TrueTree, Numbered
<1>2. \A x \in Reached : Number(x) \in Nat
  BY <1>1, NumberInjective
<1>3. \A x \in Reached : \A a \in Above(idom, x) : Number(a) <= Number(x) /\ (a # x => Number(a) < Number(x))
  BY <1>1, WalkDescends
<1>4. \A a, c : Dom(a, b) /\ Dom(c, a) => Dom(c, b)
  BY <1>1, AboveTrans DEF Dom
<1>5. ASSUME NEW a, Dom(a, b), Dom(b, a) PROVE a = b
  <2>1. a \in Reached
    BY <1>1, <1>5 DEF Dom
  <2> QED BY <2>1, <1>2, <1>3, <1>5 DEF Dom
<1>6. ASSUME NEW a, NEW c, Dom(a, b), Dom(c, b) PROVE Dom(a, c) \/ Dom(c, a)
  <2> DEFINE X == {x \in Blocks : a \in Above(idom, x) \/ x \in Above(idom, a)}
  <2>0. a \in Blocks
    BY <1>1, <1>6 DEF Dom
  <2>1. b \in X
    BY <1>1, <1>6 DEF Dom
  <2>2. ASSUME NEW x \in X, idom[x] \in Blocks PROVE idom[x] \in X
    <3>1. Above(idom, x) = {x} \cup Above(idom, idom[x]) /\ idom[x] \in Above(idom, x)
      BY <2>2, AboveStep, AboveIsLeast
    <3>2. CASE x \in Above(idom, a)
      BY <3>1, <3>2, <2>0, <2>2, AboveTrans
    <3>3. CASE a \in Above(idom, x) /\ a # x
      BY <3>1, <3>3, <2>2
    <3>4. x = a => x \in Above(idom, a)
      BY <2>0, AboveIsLeast
    <3> QED BY <3>2, <3>3, <3>4
  <2>3. Above(idom, b) \subseteq X
    BY <2>1, <2>2, <1>1, AboveIsLeast DEF Rising
  <2> QED BY <2>3, <1>6 DEF Dom
<1>7. ASSUME NEW a, Dom(a, b), a # b PROVE b # Start /\ Dom(a, idom[b]) /\ idom[b] \in Reached
  <2>1. b # Start => idom[b] \in Reached
    BY <1>1 DEF Climbing
  <2> QED BY <2>1, <1>1, <1>7, WalkStep DEF Dom
<1> QED BY <1>1, <1>3, <1>4, <1>5, <1>6, <1>7 DEF Dom

\* Edges among the blocks reached, and what dominates across them.
LEMMA DomAlongEdge ==
  ASSUME TrueTree, NEW p \in Reached, NEW b \in ToSet(succs[p])
  PROVE  b \in Reached /\ p \in Preds(b) /\ \A a : Dom(a, b) /\ a # b => Dom(a, p)
<1>1. IsGraph /\ Reached = Reachable /\ Reached \in SUBSET Blocks
  BY DEF TrueTree, Numbered
<1>2. b \in Reached /\ p \in Blocks /\ b \in Blocks
  BY <1>1, ReachableIsLeast
<1>3. ASSUME NEW a, Dom(a, b), a # b PROVE Dom(a, p)
  <2>1. a \in Reached
    BY <1>2, <1>3, DomIsOrder
  <2>2. TrulyDominates(a, b)
    BY <2>1, <1>2, <1>3, DomIsDominance
  <2>3. TrulyDominates(a, p)
    BY <2>1, <2>2, <1>1, <1>2, <1>3, DominatesPredecessor
  <2> QED BY <2>1, <2>3, DomIsDominance
<1> QED BY <1>2, <1>3 DEF Preds

-----------------------------------------------------------------------------
(* Loops are collected backwards.                                          *)

\* A body is the least set that holds the latch, the header, and what leads to its
\* blocks other than the header.
LEMMA BodyIsLeast ==
  ASSUME NEW u \in Blocks, NEW h \in Blocks
  PROVE  /\ Body(u, h) \in SUBSET Blocks /\ u \in Body(u, h) /\ h \in Body(u, h)
         /\ \A x \in Body(u, h) \ {h} : Preds(x) \subseteq Body(u, h)
         /\ \A Y \in SUBSET Blocks :
              (u \in Y /\ h \in Y /\ \A x \in Y \ {h} : Preds(x) \subseteq Y) => Body(u, h) \subseteq Y
<1> DEFINE n == Cardinality(Blocks)
           Z == {u}
           more(X) == UNION {Preds(x) : x \in X \ {h}}
           M == [X \in SUBSET Blocks |-> more(X)]
           Back == CHOOSE Back : Back = [k \in 0 .. n |-> IF k = 0 THEN {u}
                                                          ELSE Back[k - 1] \cup more(Back[k - 1])]
<1>0. n \in Nat /\ IsFiniteSet(Blocks) /\ Z \in SUBSET Blocks
  BY FS_CardinalityType, BlocksAssumption
<1>1. Body(u, h) = Back[n] \cup {h}
  BY DEF Body
<1>p. \A x : Preds(x) \subseteq Blocks
  BY DEF Preds
<1>2. Monotone(M, Blocks) /\ \A X \in SUBSET Blocks : M[X] = more(X)
  BY <1>p DEF Monotone
<1> HIDE DEF M, n
<1>3. PICK g \in [0 .. n -> SUBSET Blocks] : Grows(g, n, Z, M, Blocks)
  <2> HIDE DEF Z, Back
  <2> QED BY <1>0, <1>2, GrowthExists
<1> HIDE DEF more
<1>4. \A k \in 0 .. n : g[k] = IF k = 0 THEN Z ELSE g[k - 1] \cup more(g[k - 1])
  <2>1. \A k \in 1 .. n : g[k - 1] \in SUBSET Blocks
    <3>1. \A k \in 1 .. n : k - 1 \in 0 .. n
      BY <1>0
    <3> HIDE DEF Back, Z
    <3> QED BY <3>1, <1>3
  <2> QED BY <1>0, <1>2, <1>3, <2>1 DEF Grows
<1>5. g = [k \in 0 .. n |-> IF k = 0 THEN Z ELSE g[k - 1] \cup more(g[k - 1])]
  <2>1. g = [k \in 0 .. n |-> g[k]]
    BY <1>3
  <2> QED BY <2>1, <1>4
<1>6. Back = [k \in 0 .. n |-> IF k = 0 THEN Z ELSE Back[k - 1] \cup more(Back[k - 1])]
  BY <1>5
<1> HIDE DEF Back
<1>7. Back[0] = Z /\ \A k \in 1 .. n : Back[k] = Back[k - 1] \cup more(Back[k - 1])
  <2>1. 0 \in 0 .. n /\ \A k \in 1 .. n : k \in 0 .. n /\ k # 0
    BY <1>0
  <2>2. \A k \in 0 .. n : Back[k] = IF k = 0 THEN Z ELSE Back[k - 1] \cup more(Back[k - 1])
    BY <1>6
  <2> QED BY <2>1, <2>2
<1>8. Grows(Back, n, Z, M, Blocks)
  BY <1>2, <1>7 DEF Grows
<1>9. IsClosure(Back[n], Z, M, Blocks)
  <2> HIDE DEF Z
  <2> QED BY <1>0, <1>2, <1>8, GrowthCloses DEF n
<1> DEFINE C == Back[n]
<1> HIDE DEF C
<1>10. /\ C \in SUBSET Blocks /\ u \in C
       /\ \A Y \in SUBSET Blocks : (u \in Y /\ M[Y] \subseteq Y) => C \subseteq Y
  BY <1>9 DEF IsClosure, C
<1>11. \A x \in C \ {h} : Preds(x) \subseteq C
  BY <1>2, <1>9 DEF more, IsClosure, C
<1>12. \A Y \in SUBSET Blocks : (\A x \in Y \ {h} : Preds(x) \subseteq Y) => M[Y] \subseteq Y
  BY <1>2 DEF more
<1>13. Body(u, h) = C \cup {h}
  BY <1>1 DEF C
<1> QED BY <1>10, <1>11, <1>12, <1>13

\* The loop of a header is the least set that holds the header and its latches, and
\* what leads to its blocks other than the header.
Latches(h) == {u \in Reached : <<u, h>> \in BackEdges}

\* It is that set.
LEMMA LoopIsLeast ==
  ASSUME TrueTree, NEW h \in Headers
  PROVE  /\ h \in Reached /\ h \in Blocks /\ Latches(h) # {}
         /\ LoopOf(h) \in SUBSET Blocks /\ h \in LoopOf(h) /\ Latches(h) \subseteq LoopOf(h)
         /\ \A x \in LoopOf(h) \ {h} : Preds(x) \subseteq LoopOf(h)
         /\ \A Y \in SUBSET Blocks :
              (Latches(h) \subseteq Y /\ h \in Y /\ \A x \in Y \ {h} : Preds(x) \subseteq Y)
                => LoopOf(h) \subseteq Y
<1>0. Reached \in SUBSET Blocks
  BY DEF TrueTree, Numbered
<1>1. PICK e \in BackEdges : e[2] = h
  BY DEF Headers
<1>2. e = <<e[1], h>> /\ e[1] \in Reached /\ h \in Reached
  BY <1>1 DEF BackEdges
<1>3. h \in Blocks /\ e[1] \in Latches(h) /\ Latches(h) \subseteq Blocks
  BY <1>0, <1>1, <1>2 DEF Latches
<1>4. LoopOf(h) = UNION {Body(u, h) : u \in Latches(h)}
  <2>1. \A x \in {y \in BackEdges : y[2] = h} : x[1] \in Latches(h)
    BY DEF BackEdges, Latches
  <2>2. \A u \in Latches(h) : <<u, h>> \in {y \in BackEdges : y[2] = h} /\ <<u, h>>[1] = u
    BY DEF Latches
  <2> HIDE DEF Latches, Body
  <2> QED BY <2>1, <2>2 DEF LoopOf
<1>5. \A u \in Latches(h) :
         /\ Body(u, h) \in SUBSET Blocks /\ u \in Body(u, h) /\ h \in Body(u, h)
         /\ \A x \in Body(u, h) \ {h} : Preds(x) \subseteq Body(u, h)
         /\ \A Y \in SUBSET Blocks :
              (u \in Y /\ h \in Y /\ \A x \in Y \ {h} : Preds(x) \subseteq Y) => Body(u, h) \subseteq Y
  BY <1>3, BodyIsLeast
<1> HIDE DEF Latches, Body, LoopOf
<1>6. LoopOf(h) \in SUBSET Blocks /\ h \in LoopOf(h) /\ Latches(h) \subseteq LoopOf(h)
  BY <1>3, <1>4, <1>5
<1>7. ASSUME NEW x \in LoopOf(h) \ {h} PROVE Preds(x) \subseteq LoopOf(h)
  <2>1. PICK u \in Latches(h) : x \in Body(u, h)
    BY <1>4
  <2>2. Preds(x) \subseteq Body(u, h)
    BY <2>1, <1>5
  <2> QED BY <2>2, <1>4
<1>8. ASSUME NEW Y \in SUBSET Blocks, Latches(h) \subseteq Y, h \in Y, \A x \in Y \ {h} : Preds(x) \subseteq Y
      PROVE  LoopOf(h) \subseteq Y
  <2>1. \A u \in Latches(h) : Body(u, h) \subseteq Y
    BY <1>5, <1>8
  <2> QED BY <2>1, <1>4
<1> QED BY <1>2, <1>3, <1>6, <1>7, <1>8

\* The blocks of a loop that are reached are dominated by its header.
LEMMA HeaderDominates ==
  ASSUME TrueTree, NEW h \in Headers, NEW x \in LoopOf(h), x \in Reached
  PROVE  Dom(h, x)
<1> DEFINE Y == {y \in Blocks : y \in Reached => Dom(h, y)}
<1>1. h \in Reached /\ h \in Blocks /\ Latches(h) \subseteq Blocks
  BY LoopIsLeast DEF Latches, TrueTree, Numbered
<1>2. h \in Y
  BY <1>1, DomIsDominance
<1>3. Latches(h) \subseteq Y
  <2> SUFFICES ASSUME NEW u \in Latches(h) PROVE Dom(h, u)
    BY <1>1
  <2>1. u \in Reached /\ Dominates(h, u)
    BY DEF Latches, BackEdges
  <2> QED BY <2>1, <1>1, DomIsDominance
<1>4. ASSUME NEW y \in Y \ {h}, NEW p \in Preds(y) PROVE p \in Y
  <2>1. p \in Blocks /\ y \in ToSet(succs[p])
    BY DEF Preds
  <2>2. ASSUME p \in Reached PROVE Dom(h, p)
    <3>1. y \in Reached
      BY <2>1, <2>2, DomAlongEdge
    <3> QED BY <3>1, <2>1, <2>2, <1>4, DomAlongEdge
  <2> QED BY <2>1, <2>2
<1> HIDE DEF Y
<1>5. LoopOf(h) \subseteq Y
  <2>1. Y \in SUBSET Blocks
    BY DEF Y
  <2>2. \A y \in Y \ {h} : Preds(y) \subseteq Y
    BY <1>4
  <2> QED BY <2>1, <2>2, <1>2, <1>3, LoopIsLeast
<1> QED BY <1>5 DEF Y

-----------------------------------------------------------------------------
(* Loops nest.                                                             *)

\* The entry dominates whatever is reached.
LEMMA StartDominates ==
  ASSUME TrueTree, NEW b \in Reached
  PROVE  Dom(Start, b)
<1>1. IsGraph /\ {Start} \in SUBSET Blocks /\ Start \in Reached
  BY BlocksAssumption DEF TrueTree, Numbered
<1>2. From({Start}, Start) \subseteq {}
  <2>1. {} \in SUBSET Blocks /\ {Start} \ {Start} \subseteq {}
        /\ \A x \in {} : ToSet(succs[x]) \ {Start} \subseteq {}
    OBVIOUS
  <2>2. \A Y \in SUBSET Blocks :
          ({Start} \ {Start} \subseteq Y /\ \A x \in Y : ToSet(succs[x]) \ {Start} \subseteq Y)
            => From({Start}, Start) \subseteq Y
    BY <1>1, FromIsLeast
  <2> QED BY <2>1, <2>2
<1>3. TrulyDominates(Start, b)
  BY <1>2 DEF TrulyDominates
<1> QED BY <1>1, <1>3, DomIsDominance

\* A header dominated by that of a loop it shares a block with lies in that loop.
LEMMA HeaderInside ==
  ASSUME TrueTree, NEW h \in Headers, NEW o \in Headers, Dom(h, o),
         NEW x \in Reached, x \in LoopOf(h), x \in LoopOf(o)
  PROVE  o \in LoopOf(h)
<1> SUFFICES ASSUME o \notin LoopOf(h) PROVE FALSE
  OBVIOUS
<1>0. /\ IsGraph /\ Reached = Reachable /\ Reached \in SUBSET Blocks /\ Start \in Reached
      /\ h \in Reached /\ o \in Reached /\ h \in LoopOf(h)
      /\ \A y \in LoopOf(h) \ {h} : Preds(y) \subseteq LoopOf(h)
  BY LoopIsLeast DEF TrueTree, Numbered
<1> DEFINE Z == {y \in Reached : ~(y \in LoopOf(h) /\ Dom(o, y))}
<1>1. Start \in Z
  <2> SUFFICES ASSUME Start \in LoopOf(h), Dom(o, Start) PROVE FALSE
    BY <1>0
  <2>1. Dom(Start, o)
    BY <1>0, StartDominates
  <2>2. o = Start
    BY <2>1, <1>0, DomIsOrder
  <2> QED BY <2>2
<1>2. ASSUME NEW y \in Z, NEW s \in ToSet(succs[y]) PROVE s \in Z
  <2>1. s \in Reached /\ y \in Preds(s) /\ \A a : Dom(a, s) /\ a # s => Dom(a, y)
    BY DomAlongEdge
  <2> SUFFICES ASSUME s \in LoopOf(h), Dom(o, s) PROVE FALSE
    BY <2>1
  <2>2. s # h
    <3> SUFFICES ASSUME Dom(o, h) PROVE FALSE
      OBVIOUS
    <3>1. o = h
      BY <1>0, DomIsOrder
    <3> QED BY <3>1, <1>0
  <2>3. y \in LoopOf(h)
    BY <2>1, <2>2, <1>0
  <2>4. Dom(o, y)
    <3>1. o # s
      OBVIOUS
    <3> QED BY <3>1, <2>1
  <2> QED BY <2>3, <2>4, <1>2
<1> HIDE DEF Z
<1>3. Reachable \subseteq Z
  <2>1. Z \in SUBSET Blocks
    BY <1>0 DEF Z
  <2> QED BY <2>1, <1>0, <1>1, <1>2, ReachableIsLeast
<1>4. Dom(o, x)
  BY HeaderDominates
<1> QED BY <1>0, <1>3, <1>4 DEF Z

\* Its loop then lies in that loop.
LEMMA LoopInside ==
  ASSUME TrueTree, NEW h \in Headers, NEW o \in Headers, Dom(h, o), o # h, o \in LoopOf(h)
  PROVE  LoopOf(o) \subseteq LoopOf(h)
<1>0. /\ Reached \in SUBSET Blocks /\ h \in Reached /\ o \in Reached
      /\ LoopOf(h) \in SUBSET Blocks
      /\ \A y \in LoopOf(h) \ {h} : Preds(y) \subseteq LoopOf(h)
  BY LoopIsLeast DEF TrueTree, Numbered
<1>1. /\ LoopOf(o) \in SUBSET Blocks /\ o \in LoopOf(o) /\ Latches(o) \subseteq LoopOf(o)
      /\ \A y \in LoopOf(o) \ {o} : Preds(y) \subseteq LoopOf(o)
      /\ Latches(o) \subseteq Blocks
  BY LoopIsLeast
<1> DEFINE Y == LoopOf(o) \cap {y \in Blocks : y \in LoopOf(h)}
<1>2. h \notin LoopOf(o)
  <2> SUFFICES ASSUME h \in LoopOf(o) PROVE FALSE
    OBVIOUS
  <2>1. Dom(o, h)
    BY <1>0, HeaderDominates
  <2> QED BY <2>1, <1>0, DomIsOrder
<1>3. Latches(o) \subseteq Y
  <2> SUFFICES ASSUME NEW u \in Latches(o) PROVE u \in LoopOf(h)
    BY <1>1
  <2>1. u \in Blocks /\ o \in ToSet(succs[u])
    BY <1>1 DEF Latches, BackEdges
  <2>2. u \in Preds(o)
    BY <2>1 DEF Preds
  <2> QED BY <2>2, <1>0
<1>4. ASSUME NEW y \in Y \ {o} PROVE Preds(y) \subseteq Y
  <2>1. y # h /\ y \in LoopOf(h) \ {h} /\ y \in LoopOf(o) \ {o}
    BY <1>2
  <2> QED BY <2>1, <1>0, <1>1
<1>5. Y \in SUBSET Blocks /\ o \in Y
  BY <1>0, <1>1
<1> HIDE DEF Y
<1>6. LoopOf(o) \subseteq Y
  BY <1>3, <1>4, <1>5, LoopIsLeast
<1> QED BY <1>6 DEF Y

\* Two loops that share a block reached are nested.
LEMMA LoopsShareOrNest ==
  ASSUME TrueTree, NEW h \in Headers, NEW o \in Headers,
         NEW x \in Reached, x \in LoopOf(h), x \in LoopOf(o)
  PROVE  LoopOf(h) \subseteq LoopOf(o) \/ LoopOf(o) \subseteq LoopOf(h)
<1>1. Dom(h, x) /\ Dom(o, x)
  BY HeaderDominates
<1>2. Dom(h, o) \/ Dom(o, h)
  BY <1>1, DomIsOrder
<1>3. ASSUME Dom(h, o), o # h PROVE LoopOf(o) \subseteq LoopOf(h)
  <2>1. o \in LoopOf(h)
    BY <1>3, HeaderInside
  <2> QED BY <2>1, <1>3, LoopInside
<1>4. ASSUME Dom(o, h), o # h PROVE LoopOf(h) \subseteq LoopOf(o)
  <2>1. h \in LoopOf(o)
    BY <1>4, HeaderInside
  <2> QED BY <2>1, <1>4, LoopInside
<1> QED BY <1>2, <1>3, <1>4

\* Loops are finite, and a set of headers has one whose loop is smallest.
Size(h) == Cardinality(LoopOf(h))

\* A size is at most the number of blocks.
LEMMA SizeBounded ==
  ASSUME TrueTree, NEW h \in Blocks
  PROVE  Size(h) \in 0 .. Cardinality(Blocks) /\ Cardinality(Blocks) \in Nat
<1>1. \A e \in BackEdges : e[1] \in Blocks
  BY DEF BackEdges, TrueTree, Numbered
<1>2. \A e \in BackEdges : Body(e[1], h) \in SUBSET Blocks
  BY <1>1, BodyIsLeast
<1>3. LoopOf(h) \in SUBSET Blocks
  <2> HIDE DEF Body
  <2> QED BY <1>2 DEF LoopOf
<1>4. /\ IsFiniteSet(LoopOf(h)) /\ Cardinality(LoopOf(h)) <= Cardinality(Blocks)
      /\ Cardinality(Blocks) \in Nat
  BY <1>3, BlocksAssumption, FS_Subset, FS_CardinalityType
<1>5. Cardinality(LoopOf(h)) \in Nat
  BY <1>4, FS_CardinalityType
<1> QED BY <1>4, <1>5 DEF Size

\* Headers are blocks reached.
LEMMA HeadersAreBlocks ==
  ASSUME TrueTree
  PROVE  Headers \in SUBSET Blocks /\ Headers \in SUBSET Reached
BY DEF TrueTree, Numbered, Headers, BackEdges

\* Of some headers, the smallest loop is that of one.
LEMMA SmallestExists ==
  ASSUME TrueTree, NEW S \in SUBSET Headers, S # {}
  PROVE  Smallest(S) \in S
<1> DEFINE T == {Size(h) : h \in S}
<1>1. T \in SUBSET Nat /\ T # {}
  BY SizeBounded, HeadersAreBlocks
<1> HIDE DEF T
<1>2. PICK m \in T : \A k \in T : m <= k
  BY <1>1, LeastExists
<1>3. PICK h \in S : m = Size(h)
  BY DEF T
<1>4. \A o \in S : Size(h) <= Size(o)
  BY <1>2, <1>3 DEF T
<1>5. \E x \in S : \A o \in S : Cardinality(LoopOf(x)) <= Cardinality(LoopOf(o))
  BY <1>4 DEF Size
<1> QED BY <1>5 DEF Smallest

\* A parent is a header of a larger loop, if there is any.
LEMMA ParentIsLarger ==
  ASSUME TrueTree, NEW x \in Blocks, Parent(x) # NoNode
  PROVE  Parent(x) \in Blocks /\ Size(Parent(x)) > Size(x)
<1>1. Containing(x) # {} /\ Parent(x) = Smallest(Containing(x)) /\ Containing(x) \in SUBSET Headers
  BY DEF Parent, Containing
<1>2. Parent(x) \in Containing(x)
  BY <1>1, SmallestExists
<1> HIDE DEF Parent
<1> QED BY <1>2, HeadersAreBlocks DEF Containing, Size

\* The depth of a loop is one more than that of its parent.
LEMMA DepthCounts ==
  ASSUME TrueTree, NEW h \in Blocks, Parent(h) # NoNode
  PROVE  Depth(h) = Depth(Parent(h)) + 1
<1> DEFINE P(x) == Parent(x)
           par == [x \in Blocks |-> P(x)]
           n == Cardinality(Blocks)
           Eqn(C) == C = [x \in Blocks |-> 1 + (IF Parent(x) = NoNode THEN 0 ELSE C[Parent(x)])]
           Count == CHOOSE C : Eqn(C)
           Up(x) == Above(par, x)
           C0 == [x \in Blocks |-> Cardinality(Up(x))]
<1>1. \A x : Depth(x) = Count[x]
  BY DEF Depth
<1>2. \A x \in Blocks : Size(x) \in 0 .. n /\ n \in Nat
  BY SizeBounded
<1>3. \A x \in Blocks : P(x) # NoNode => P(x) \in Blocks /\ Size(P(x)) > Size(x)
  BY ParentIsLarger
<1>4. NoNode \notin Blocks
  BY BlocksAssumption
<1>5. \A x \in Blocks : par[x] = P(x)
  OBVIOUS
<1> HIDE DEF P, par, n
<1>6. ASSUME NEW x \in Blocks
      PROVE  /\ P(x) = NoNode => Up(x) = {x}
             /\ P(x) # NoNode => Up(x) = {x} \cup Up(P(x)) /\ P(x) \in Blocks
      BY <1>3, <1>4, <1>5, AboveStep
<1>7. ASSUME NEW x \in Blocks, NEW y \in Up(x) PROVE Size(y) >= Size(x)
  <2> DEFINE X == {y1 \in Blocks : Size(y1) >= Size(x)}
  <2>1. x \in X /\ X \in SUBSET Blocks
    BY <1>2
  <2>2. Rising(par, X)
    <3> SUFFICES ASSUME NEW z \in X, par[z] \in Blocks PROVE par[z] \in X
      BY DEF Rising
    <3>1. par[z] = P(z) /\ Size(par[z]) > Size(z)
      BY <1>3, <1>4, <1>5
    <3> QED BY <3>1, <1>2
  <2> HIDE DEF X
  <2>3. Above(par, x) \subseteq X
    BY <2>1, <2>2, AboveIsLeast
  <2> QED BY <2>3, <1>7 DEF X
<1>8. ASSUME NEW x \in Blocks PROVE IsFiniteSet(Up(x)) /\ Cardinality(Up(x)) \in Nat
  <2>1. Up(x) \in SUBSET Blocks
    BY AboveIsLeast
  <2> QED BY <2>1, BlocksAssumption, FS_Subset, FS_CardinalityType
<1>9. ASSUME NEW x \in Blocks
      PROVE  C0[x] = 1 + (IF P(x) = NoNode THEN 0 ELSE C0[P(x)])
  <2>1. C0[x] = Cardinality(Up(x))
    OBVIOUS
  <2>2. CASE P(x) = NoNode
    <3>1. Up(x) = {x}
      BY <2>2, <1>6
    <3>2. Cardinality({x}) = 1
      BY FS_Singleton
    <3> QED BY <3>1, <3>2, <2>1, <2>2
  <2>3. CASE P(x) # NoNode
    <3>1. Up(x) = Up(P(x)) \cup {x} /\ P(x) \in Blocks /\ Size(P(x)) > Size(x)
      BY <2>3, <1>6, <1>3
    <3>2. x \notin Up(P(x))
      <4> SUFFICES ASSUME x \in Up(P(x)) PROVE FALSE
        OBVIOUS
      <4>1. Size(x) >= Size(P(x))
        BY <3>1, <1>7
      <4> QED BY <4>1, <3>1, <1>2
    <3> HIDE DEF Up
    <3>3. Cardinality(Up(x)) = Cardinality(Up(P(x))) + 1
      BY <3>1, <3>2, <1>8, FS_AddElement
    <3>4. Cardinality(Up(P(x))) \in Nat /\ C0[P(x)] = Cardinality(Up(P(x)))
      BY <3>1, <1>8
    <3> QED BY <3>3, <3>4, <2>1, <2>3
  <2> QED BY <2>2, <2>3
<1>10. Eqn(C0)
  <2>1. C0 = [x \in Blocks |-> C0[x]]
    OBVIOUS
  <2> HIDE DEF C0
  <2> QED BY <2>1, <1>9 DEF P
<1>11. Eqn(Count)
  <2> HIDE DEF C0, Eqn
  <2> QED BY <1>10
<1> HIDE DEF Count, C0
<1>12. \A x \in Blocks : Count[x] = 1 + (IF P(x) = NoNode THEN 0 ELSE Count[P(x)])
  BY <1>11 DEF P
<1> HIDE DEF Eqn
<1>13. ASSUME NEW x \in Blocks PROVE Count[x] \in Nat
  <2> DEFINE Bad == {y \in Blocks : Count[y] \notin Nat}
             T == {Size(y) : y \in Bad}
  <2> SUFFICES ASSUME Bad # {} PROVE FALSE
    OBVIOUS
  <2>1. T \in SUBSET (0 .. n) /\ T # {} /\ n \in Nat
    BY <1>2
  <2> HIDE DEF T
  <2>2. PICK m \in T : \A k \in T : k <= m
    BY <2>1, GreatestExists
  <2>3. PICK y \in Bad : m = Size(y)
    BY DEF T
  <2>4. \A z \in Bad : Size(z) <= Size(y)
    BY <2>2, <2>3 DEF T
  <2>5. P(y) # NoNode
    BY <1>12
  <2>6. P(y) \in Blocks /\ Size(P(y)) > Size(y)
    BY <2>5, <1>3
  <2>7. P(y) \notin Bad
    BY <2>4, <2>6, <1>2
  <2>8. Count[P(y)] \in Nat
    BY <2>6, <2>7
  <2>9. Count[y] = 1 + Count[P(y)]
    BY <2>5, <1>12
  <2> QED BY <2>8, <2>9
<1>14. P(h) # NoNode /\ P(h) \in Blocks
  BY <1>3 DEF P
<1>15. Count[h] = 1 + Count[P(h)] /\ Count[P(h)] \in Nat
  BY <1>12, <1>13, <1>14
<1>16. Count[h] = Count[P(h)] + 1
  BY <1>15
<1> QED BY <1>1, <1>16 DEF P

\* The innermost loop around a block is one of those around it.
LEMMA InnermostHolds ==
  ASSUME TrueTree, NEW b
  PROVE  /\ Innermost(b) # NoNode => Innermost(b) \in Headers /\ b \in LoopOf(Innermost(b))
         /\ \A h \in Headers : b \in LoopOf(h) => Innermost(b) # NoNode
<1> DEFINE S == {h \in Headers : b \in LoopOf(h)}
<1>1. Innermost(b) = IF S = {} THEN NoNode ELSE Smallest(S)
  BY DEF Innermost
<1>2. S # {} => Smallest(S) \in S
  BY SmallestExists
<1>3. NoNode \notin Headers
  BY HeadersAreBlocks, BlocksAssumption
<1> QED BY <1>1, <1>2, <1>3

\* So loops are nested, one level deeper than their parents, and dominated by their headers.
LEMMA TrueTreeNests ==
  ASSUME TrueTree PROVE LoopsNest
<1> SUFFICES ASSUME Reached = Blocks PROVE LoopsNest
  BY DEF LoopsNest
<1>1. ASSUME NEW h \in Headers, NEW o \in Headers
      PROVE  \/ LoopOf(h) \cap LoopOf(o) = {}
             \/ LoopOf(h) \subseteq LoopOf(o) \/ LoopOf(o) \subseteq LoopOf(h)
  <2> SUFFICES ASSUME NEW x \in LoopOf(h) \cap LoopOf(o)
               PROVE  LoopOf(h) \subseteq LoopOf(o) \/ LoopOf(o) \subseteq LoopOf(h)
    OBVIOUS
  <2>1. x \in Reached
    BY LoopIsLeast
  <2> QED BY <2>1, LoopsShareOrNest
<1>2. \A h \in Headers : Parent(h) # NoNode => Depth(h) = Depth(Parent(h)) + 1
  BY DepthCounts, HeadersAreBlocks
<1>3. ASSUME NEW b \in Blocks, Innermost(b) # NoNode PROVE Dominates(Innermost(b), b)
  <2>1. Innermost(b) \in Headers /\ b \in LoopOf(Innermost(b)) /\ Innermost(b) \in Reached
    BY <1>3, InnermostHolds, HeadersAreBlocks
  <2>2. Dom(Innermost(b), b)
    BY <2>1, HeaderDominates
  <2> QED BY <2>1, <2>2, DomIsDominance
<1> QED BY <1>1, <1>2, <1>3 DEF LoopsNest

-----------------------------------------------------------------------------
(* Preheaders dominate.                                                    *)

\* The only predecessor outside a loop is the immediate dominator of its header.
LEMMA OnlyEntryDominates ==
  ASSUME TrueTree, \A b \in Blocks : Start \notin ToSet(succs[b]),
         NEW h \in Headers, NEW p, Preds(h) \ LoopOf(h) = {p}
  PROVE  p = idom[h]
<1>0. /\ IsGraph /\ Numbered /\ Climbing /\ Reached = Reachable /\ Placed = Reached
      /\ Reached \in SUBSET Blocks /\ Start \in Reached /\ h \in Reached /\ h \in Blocks
      /\ h \in LoopOf(h) /\ Latches(h) # {}
  BY LoopIsLeast DEF TrueTree, Numbered
<1>1. h # Start
  <2>1. PICK u \in Latches(h) : TRUE
    BY <1>0
  <2>2. u \in Reached /\ h \in ToSet(succs[u])
    BY DEF Latches, BackEdges
  <2> QED BY <2>2, <1>0
\* The entry to the loop is the predecessor that comes before it.
<1>2. p \in Reached
  <2>1. PICK q \in Reached : h \in ToSet(succs[q]) /\ Number(q) < Number(h)
    BY <1>0, <1>1 DEF Numbered
  <2>2. q \in Preds(h)
    BY <2>1, <1>0 DEF Preds
  <2>3. q \notin LoopOf(h)
    <3> SUFFICES ASSUME q \in LoopOf(h) PROVE FALSE
      OBVIOUS
    <3>1. Dom(h, q)
      BY HeaderDominates
    <3>2. Number(h) <= Number(q)
      BY <3>1, DomIsOrder
    <3>3. Number(h) \in Nat /\ Number(q) \in Nat
      BY <1>0, NumberInjective
    <3> QED BY <3>2, <3>3, <2>1
  <2> QED BY <2>1, <2>2, <2>3
<1>3. p \in Blocks /\ p # h /\ h \in ToSet(succs[p]) /\ \A q \in Preds(h) : q = p \/ q \in LoopOf(h)
  BY <1>0, <1>2 DEF Preds
\* Without it the header is not reached.
<1> DEFINE Y == {y \in Reached : y # p /\ ~Dom(h, y)}
<1>4. {Start} \ {p} \subseteq Y
  <2> SUFFICES ASSUME Dom(h, Start) PROVE FALSE
    BY <1>0
  <2>1. Dom(Start, h)
    BY <1>0, StartDominates
  <2> QED BY <2>1, <1>0, <1>1, DomIsOrder
<1>5. ASSUME NEW y \in Y, NEW s \in ToSet(succs[y]), s # p PROVE s \in Y
  <2>1. s \in Reached /\ y \in Preds(s) /\ \A a : Dom(a, s) /\ a # s => Dom(a, y)
    BY DomAlongEdge
  <2> SUFFICES ASSUME Dom(h, s) PROVE FALSE
    BY <1>5, <2>1
  <2>2. s = h
    BY <2>1
  <2>3. y \in LoopOf(h)
    BY <2>1, <2>2, <1>3
  <2>4. Dom(h, y)
    BY <2>3, HeaderDominates
  <2> QED BY <2>4
<1>6. h \notin Y
  BY <1>0, DomIsDominance
<1>7. TrulyDominates(p, h)
  <2>1. Y \in SUBSET Blocks /\ {Start} \in SUBSET Blocks
    BY <1>0
  <2>2. \A y \in Y : ToSet(succs[y]) \ {p} \subseteq Y
    BY <1>5
  <2> HIDE DEF Y
  <2>3. From({Start}, p) \subseteq Y
    BY <2>1, <2>2, <1>0, <1>4, FromIsLeast
  <2> QED BY <2>3, <1>6 DEF TrulyDominates
<1>8. Dom(p, h)
  BY <1>0, <1>2, <1>7, DomIsDominance
\* The immediate dominator dominates the entry, and the entry it.
<1>9. Dom(p, idom[h]) /\ idom[h] \in Reached
  BY <1>0, <1>3, <1>8, DomIsOrder
<1>10. Dom(idom[h], h) /\ idom[h] # h
  <2>1. Number(idom[h]) < Number(h) /\ Number(h) \in Nat
    BY <1>0, <1>1, NumberInjective DEF Climbing
  <2>2. idom[h] \in Above(idom, h)
    <3>1. Rising(idom, Above(idom, h)) /\ h \in Above(idom, h)
      BY <1>0, AboveIsLeast
    <3> QED BY <3>1, <1>0, <1>9 DEF Rising
  <2> QED BY <2>1, <2>2 DEF Dom
<1>11. Dom(idom[h], p)
  BY <1>2, <1>3, <1>10, DomAlongEdge
<1> QED BY <1>9, <1>11, <1>2, DomIsOrder

\* So what is moved into a preheader runs before the loop.
LEMMA TrueTreeEnters ==
  ASSUME TrueTree, \A b \in Blocks : Start \notin ToSet(succs[b]) PROVE PreheaderDominates
<1> SUFFICES ASSUME NEW h \in Headers, Preheader(h) # NoNode PROVE Preheader(h) = idom[h]
  BY DEF PreheaderDominates
<1> DEFINE outside == Preds(h) \ LoopOf(h)
<1>1. PICK p \in outside : outside = {p}
  BY DEF Preheader
<1>2. Preheader(h) = p
  <2>1. \A q \in outside : q = p
    BY <1>1
  <2> HIDE DEF outside
  <2>2. (CHOOSE q \in outside : TRUE) = p
    BY <1>1, <2>1
  <2> QED BY <1>1, <2>2 DEF Preheader, outside
<1>3. p = idom[h]
  BY <1>1, OnlyEntryDominates
<1> QED BY <1>2, <1>3

-----------------------------------------------------------------------------
(* In a reducible graph, loops are the cycles.                             *)

\* What a block leads to, in one step or more.
After(b) == From(ToSet(succs[b]), NoNode)

\* It is the least set that holds the successors and what they lead to.
LEMMA AfterIsLeast ==
  ASSUME IsGraph, NEW b \in Blocks
  PROVE  /\ After(b) \in SUBSET Blocks /\ ToSet(succs[b]) \subseteq After(b)
         /\ \A x \in After(b) : ToSet(succs[x]) \subseteq After(b) /\ After(x) \subseteq After(b)
         /\ \A Y \in SUBSET Blocks :
              (ToSet(succs[b]) \subseteq Y /\ \A x \in Y : ToSet(succs[x]) \subseteq Y) => After(b) \subseteq Y
<1>1. \A x \in Blocks : ToSet(succs[x]) \in SUBSET Blocks /\ ToSet(succs[x]) \ {NoNode} = ToSet(succs[x])
  BY BlocksAssumption DEF IsGraph
<1>2. ASSUME NEW x \in Blocks
      PROVE  /\ After(x) \in SUBSET Blocks /\ ToSet(succs[x]) \subseteq After(x)
             /\ \A y \in After(x) : ToSet(succs[y]) \subseteq After(x)
             /\ \A Y \in SUBSET Blocks :
                  (ToSet(succs[x]) \subseteq Y /\ \A y \in Y : ToSet(succs[y]) \subseteq Y) => After(x) \subseteq Y
  <2> DEFINE S == ToSet(succs[x])
             R == From(S, NoNode)
  <2>1. S \in SUBSET Blocks /\ S \ {NoNode} = S
    BY <1>1
  <2> HIDE DEF S
  <2>2. /\ R \in SUBSET Blocks /\ S \ {NoNode} \subseteq R
        /\ \A y \in R : ToSet(succs[y]) \ {NoNode} \subseteq R
        /\ \A Y \in SUBSET Blocks :
             (S \ {NoNode} \subseteq Y /\ \A y \in Y : ToSet(succs[y]) \ {NoNode} \subseteq Y) => R \subseteq Y
    BY <2>1, FromIsLeast
  <2>3. R = After(x)
    BY DEF After, S
  <2> HIDE DEF R
  <2>4. R \in SUBSET Blocks /\ S \subseteq R /\ \A y \in R : ToSet(succs[y]) \subseteq R
    BY <1>1, <2>1, <2>2
  <2>5. ASSUME NEW Y \in SUBSET Blocks, S \subseteq Y, \A y \in Y : ToSet(succs[y]) \subseteq Y
        PROVE  R \subseteq Y
    <3>1. \A y \in Y : ToSet(succs[y]) \ {NoNode} \subseteq Y
      BY <2>5
    <3> QED BY <3>1, <2>1, <2>2, <2>5
  <2> QED BY <2>3, <2>4, <2>5 DEF S
<1>3. \A x \in After(b) : After(x) \subseteq After(b)
  BY <1>2
<1> QED BY <1>2, <1>3

\* What the edges of a block that do not lead back lead to, in one step or more.
LEMMA AheadIsClosed ==
  ASSUME IsGraph, NEW b \in Blocks
  PROVE  /\ Ahead(b) \in SUBSET Blocks /\ Forward(b) \subseteq Ahead(b)
         /\ \A x \in Ahead(b) : Forward(x) \subseteq Ahead(b)
         /\ \A Y \in SUBSET Blocks :
              (Forward(b) \subseteq Y /\ \A x \in Y : Forward(x) \subseteq Y) => Ahead(b) \subseteq Y
<1> DEFINE n == Cardinality(Blocks)
           Z == Forward(b)
           more(X) == UNION {Forward(x) : x \in X}
           M == [X \in SUBSET Blocks |-> more(X)]
           Grow == CHOOSE Grow : Grow = [k \in 0 .. n |-> IF k = 0 THEN Forward(b)
                                                          ELSE Grow[k - 1] \cup more(Grow[k - 1])]
<1>p. \A x \in Blocks : Forward(x) \subseteq Blocks
  BY DEF Forward, IsGraph
<1>0. n \in Nat /\ IsFiniteSet(Blocks) /\ Z \in SUBSET Blocks
  BY <1>p, FS_CardinalityType, BlocksAssumption
<1>1. Ahead(b) = Grow[n]
  BY DEF Ahead
<1>2. Monotone(M, Blocks) /\ \A X \in SUBSET Blocks : M[X] = more(X)
  BY <1>p DEF Monotone
<1> HIDE DEF M, n
<1>3. PICK g \in [0 .. n -> SUBSET Blocks] : Grows(g, n, Z, M, Blocks)
  <2> HIDE DEF Z, Grow
  <2> QED BY <1>0, <1>2, GrowthExists
<1> HIDE DEF more
<1>4. \A k \in 0 .. n : g[k] = IF k = 0 THEN Z ELSE g[k - 1] \cup more(g[k - 1])
  <2>1. \A k \in 1 .. n : g[k - 1] \in SUBSET Blocks
    <3>1. \A k \in 1 .. n : k - 1 \in 0 .. n
      BY <1>0
    <3> HIDE DEF Grow, Z
    <3> QED BY <3>1, <1>3
  <2> QED BY <1>0, <1>2, <1>3, <2>1 DEF Grows
<1>5. g = [k \in 0 .. n |-> IF k = 0 THEN Z ELSE g[k - 1] \cup more(g[k - 1])]
  <2>1. g = [k \in 0 .. n |-> g[k]]
    BY <1>3
  <2> QED BY <2>1, <1>4
<1>6. Grow = [k \in 0 .. n |-> IF k = 0 THEN Z ELSE Grow[k - 1] \cup more(Grow[k - 1])]
  BY <1>5
<1> HIDE DEF Grow
<1>7. Grow[0] = Z /\ \A k \in 1 .. n : Grow[k] = Grow[k - 1] \cup more(Grow[k - 1])
  <2>1. 0 \in 0 .. n /\ \A k \in 1 .. n : k \in 0 .. n /\ k # 0
    BY <1>0
  <2>2. \A k \in 0 .. n : Grow[k] = IF k = 0 THEN Z ELSE Grow[k - 1] \cup more(Grow[k - 1])
    BY <1>6
  <2> QED BY <2>1, <2>2
<1>8. Grows(Grow, n, Z, M, Blocks)
  BY <1>2, <1>7 DEF Grows
<1>9. IsClosure(Grow[n], Z, M, Blocks)
  <2> HIDE DEF Z
  <2> QED BY <1>0, <1>2, <1>8, GrowthCloses DEF n
<1>10. \A x \in Grow[n] : Forward(x) \subseteq Grow[n]
  BY <1>2, <1>9 DEF more, IsClosure
<1>11. \A Y \in SUBSET Blocks : (\A x \in Y : Forward(x) \subseteq Y) => M[Y] \subseteq Y
  BY <1>2 DEF more
<1> HIDE DEF Z
<1>12. /\ Grow[n] \in SUBSET Blocks /\ Z \subseteq Grow[n]
       /\ \A Y \in SUBSET Blocks : (Z \subseteq Y /\ M[Y] \subseteq Y) => Grow[n] \subseteq Y
  BY <1>9 DEF IsClosure
<1> QED BY <1>1, <1>10, <1>11, <1>12 DEF Z

\* A block dominated by another is led to by it.
LEMMA DominatorLeads ==
  ASSUME TrueTree, NEW b \in Reached, NEW h, Dom(h, b), h # b
  PROVE  b \in After(h)
<1>0. IsGraph /\ Reached = Reachable /\ Reached \in SUBSET Blocks /\ Start \in Reached /\ h \in Reached
  BY DomIsOrder DEF TrueTree, Numbered
<1>1. h \in Blocks /\ After(h) \in SUBSET Blocks /\ ToSet(succs[h]) \subseteq After(h)
      /\ \A x \in After(h) : ToSet(succs[x]) \subseteq After(h)
  BY <1>0, AfterIsLeast
<1> DEFINE Y == {y \in Reached : ~Dom(h, y)} \cup {h} \cup After(h)
<1>2. Start \in Y
  <2> SUFFICES ASSUME Dom(h, Start) PROVE h = Start
    BY <1>0
  <2> QED BY <1>0, StartDominates, DomIsOrder
<1>3. ASSUME NEW y \in Y, NEW s \in ToSet(succs[y]) PROVE s \in Y
  <2>1. CASE y \in Reached /\ ~Dom(h, y)
    <3>1. s \in Reached /\ \A a : Dom(a, s) /\ a # s => Dom(a, y)
      BY <2>1, DomAlongEdge
    <3>2. Dom(h, s) => s = h
      BY <3>1, <2>1
    <3> QED BY <3>1, <3>2
  <2>2. CASE y = h \/ y \in After(h)
    BY <2>2, <1>1
  <2> QED BY <2>1, <2>2
<1>4. Y \in SUBSET Blocks
  BY <1>0, <1>1
<1> HIDE DEF Y
<1>5. Reachable \subseteq Y
  BY <1>0, <1>2, <1>3, <1>4, ReachableIsLeast
<1> QED BY <1>0, <1>5 DEF Y

\* The blocks of a loop that are reached are on cycles.
LEMMA LoopsAreCycles ==
  ASSUME TrueTree, NEW h \in Headers, NEW b \in Reached, b \in LoopOf(h)
  PROVE  b \in After(b)
<1>0. IsGraph /\ Reached \in SUBSET Blocks /\ h \in Reached /\ h \in Blocks /\ b \in Blocks
      /\ Latches(h) # {} /\ Latches(h) \subseteq Reached
  BY LoopIsLeast DEF TrueTree, Numbered, Latches
<1>1. \A x \in Blocks : /\ ToSet(succs[x]) \subseteq After(x) /\ After(x) \in SUBSET Blocks
                        /\ \A y \in After(x) : ToSet(succs[y]) \subseteq After(x)
                                               /\ After(y) \subseteq After(x)
  BY <1>0, AfterIsLeast
<1>2. \A u \in Latches(h) : h \in ToSet(succs[u]) /\ Dom(h, u)
  <2> SUFFICES ASSUME NEW u \in Latches(h) PROVE h \in ToSet(succs[u]) /\ Dom(h, u)
    OBVIOUS
  <2>1. u \in Reached /\ h \in ToSet(succs[u]) /\ Dominates(h, u)
    BY DEF Latches, BackEdges
  <2> QED BY <2>1, <1>0, DomIsDominance
<1>3. h \in After(h)
  <2>1. PICK u \in Latches(h) : TRUE
    BY <1>0
  <2>2. u = h \/ u \in After(h)
    BY <1>0, <1>2, DominatorLeads
  <2> QED BY <2>1, <2>2, <1>0, <1>1, <1>2
<1> DEFINE Y == {y \in Blocks : h \in After(y)}
<1>4. Latches(h) \subseteq Y /\ h \in Y /\ Y \in SUBSET Blocks
  BY <1>0, <1>1, <1>2, <1>3
<1>5. ASSUME NEW y \in Y \ {h}, NEW p \in Preds(y) PROVE p \in Y
  <2>1. p \in Blocks /\ y \in ToSet(succs[p])
    BY DEF Preds
  <2> QED BY <2>1, <1>1
<1> HIDE DEF Y
<1>6. LoopOf(h) \subseteq Y
  <2>1. \A y \in Y \ {h} : Preds(y) \subseteq Y
    BY <1>5
  <2> QED BY <2>1, <1>4, LoopIsLeast
<1>7. h \in After(b)
  BY <1>6 DEF Y
<1>8. b = h \/ b \in After(h)
  BY <1>0, HeaderDominates, DominatorLeads
<1> QED BY <1>0, <1>1, <1>7, <1>8

\* Along an edge that does not lead back, what lies ahead shrinks.
LEMMA AheadShrinks ==
  ASSUME IsGraph, Reducible, NEW x \in Blocks, NEW y \in Forward(x), y \in Reachable
  PROVE  Cardinality(Ahead(y)) < Cardinality(Ahead(x))
<1>1. y \in Blocks /\ Ahead(x) \in SUBSET Blocks /\ y \in Ahead(x)
      /\ \A z \in Ahead(x) : Forward(z) \subseteq Ahead(x)
  BY AheadIsClosed
<1>2. Ahead(y) \subseteq Ahead(x)
  BY <1>1, AheadIsClosed
<1>3. y \notin Ahead(y)
  BY DEF Reducible
<1>4. IsFiniteSet(Ahead(x)) /\ Cardinality(Ahead(x)) \in Nat
  BY <1>1, BlocksAssumption, FS_Subset, FS_CardinalityType
<1> HIDE DEF Ahead
<1>5. /\ Cardinality(Ahead(y)) <= Cardinality(Ahead(x)) /\ IsFiniteSet(Ahead(y))
      /\ Cardinality(Ahead(y)) = Cardinality(Ahead(x)) => Ahead(y) = Ahead(x)
  BY <1>2, <1>4, FS_Subset
<1>6. Cardinality(Ahead(y)) \in Nat
  BY <1>5, FS_CardinalityType
<1>7. Cardinality(Ahead(y)) # Cardinality(Ahead(x))
  BY <1>1, <1>3, <1>5
<1> QED BY <1>4, <1>5, <1>6, <1>7

\* The blocks that lie on cycles with a block.
Tied(b) == {x \in Blocks : x \in After(b) /\ b \in After(x)}

\* They are found from it without leaving them, since what leaves them never leads back.
LEMMA TiedAreFound ==
  ASSUME IsGraph, NEW b \in Blocks, NEW W \in SUBSET Tied(b),
         \A x \in W \cup {b} : \A s \in ToSet(succs[x]) : s \in Tied(b) => s \in W
  PROVE  Tied(b) \subseteq W
<1>1. \A x \in Blocks : /\ ToSet(succs[x]) \subseteq After(x) /\ After(x) \in SUBSET Blocks
                        /\ \A y \in After(x) : ToSet(succs[y]) \subseteq After(x)
                                               /\ After(y) \subseteq After(x)
  BY AfterIsLeast
<1> DEFINE Y == W \cup {x \in Blocks : b \notin After(x)}
<1>2. ASSUME NEW x \in W \cup {b}, NEW s \in ToSet(succs[x]) PROVE s \in Y
  <2>1. (x \in After(b) \/ x = b) /\ x \in Blocks
    BY DEF Tied
  <2>2. s \in After(b) /\ s \in Blocks
    BY <2>1, <1>1
  <2> QED BY <2>2, <1>2 DEF Tied
<1>3. ASSUME NEW x \in Blocks, b \notin After(x), NEW s \in ToSet(succs[x]) PROVE s \in Y
  <2>1. s \in After(x) /\ s \in Blocks /\ After(s) \subseteq After(x)
    BY <1>1
  <2> QED BY <2>1, <1>3
<1>4. Y \in SUBSET Blocks /\ ToSet(succs[b]) \subseteq Y
  BY <1>2 DEF Tied
<1>5. \A x \in Y : ToSet(succs[x]) \subseteq Y
  BY <1>2, <1>3
<1> HIDE DEF Y
<1>6. After(b) \subseteq Y
  BY <1>4, <1>5, AfterIsLeast
<1> QED BY <1>6 DEF Y, Tied

\* A block on a cycle lies in a loop: of the blocks tied to it, the one with most ahead
\* is entered from them by edges that lead back, and is the header of a loop around it.
LEMMA CyclesAreLoops ==
  ASSUME TrueTree, Reducible, NEW b \in Reached, b \in After(b)
  PROVE  \E h \in Headers : b \in LoopOf(h)
<1>0. IsGraph /\ Reached = Reachable /\ Reached \in SUBSET Blocks /\ b \in Blocks
  BY DEF TrueTree, Numbered
<1>1. \A x \in Blocks : /\ ToSet(succs[x]) \subseteq After(x) /\ After(x) \in SUBSET Blocks
                        /\ \A y \in After(x) : ToSet(succs[y]) \subseteq After(x)
                                               /\ After(y) \subseteq After(x)
  BY <1>0, AfterIsLeast
<1> DEFINE S == Tied(b)
<1>2. b \in S /\ S \in SUBSET Blocks
  BY <1>0 DEF Tied
<1>3. S \in SUBSET Reached
  <2>1. After(b) \subseteq Reached
    <3>1. \A x \in Reached : ToSet(succs[x]) \subseteq Reached
      BY <1>0, ReachableIsLeast
    <3> QED BY <3>1, <1>0, AfterIsLeast
  <2> QED BY <2>1 DEF Tied
<1> HIDE DEF S
<1>4. PICK h \in S : \A x \in S : Cardinality(Ahead(x)) <= Cardinality(Ahead(h))
  <2> DEFINE n == Cardinality(Blocks)
             size(x) == Cardinality(Ahead(x))
             T == {size(x) : x \in S}
  <2>1. \A x \in S : size(x) \in 0 .. n
    <3> SUFFICES ASSUME NEW x \in S PROVE size(x) \in 0 .. n
      OBVIOUS
    <3>1. Ahead(x) \in SUBSET Blocks
      BY <1>0, <1>2, AheadIsClosed
    <3>2. IsFiniteSet(Ahead(x)) /\ Cardinality(Ahead(x)) <= n /\ n \in Nat
      BY <3>1, BlocksAssumption, FS_Subset, FS_CardinalityType
    <3>3. Cardinality(Ahead(x)) \in Nat
      BY <3>2, FS_CardinalityType
    <3> QED BY <3>2, <3>3
  <2>2. n \in Nat
    BY BlocksAssumption, FS_CardinalityType
  <2> HIDE DEF n, size
  <2>3. T \in SUBSET (0 .. n) /\ T # {}
    BY <2>1, <1>2
  <2> HIDE DEF T
  <2>4. PICK m \in T : \A k \in T : k <= m
    BY <2>2, <2>3, GreatestExists
  <2>5. PICK h \in S : m = size(h)
    BY DEF T
  <2>6. \A x \in S : size(x) <= size(h)
    BY <2>4, <2>5 DEF T
  <2> QED BY <2>6 DEF size
\* Edges into h from the blocks tied to it lead back to it.
<1>5. ASSUME NEW u \in S, h \in ToSet(succs[u]) PROVE u \in Latches(h) /\ h \in Headers
  <2>1. u \in Reached /\ h \in Reached /\ u \in Blocks /\ h \in Blocks
    BY <1>2, <1>3
  <2>2. TrulyDominates(h, u)
    <3> SUFFICES ASSUME ~TrulyDominates(h, u) PROVE FALSE
      OBVIOUS
    <3>1. h \in Forward(u) /\ h \in Reachable
      BY <2>1, <1>0, <1>5 DEF Forward
    <3>2. Cardinality(Ahead(h)) < Cardinality(Ahead(u))
      BY <3>1, <2>1, <1>0, AheadShrinks
    <3>3. Cardinality(Ahead(u)) <= Cardinality(Ahead(h))
      BY <1>4
    <3>4. Cardinality(Ahead(u)) \in Nat /\ Cardinality(Ahead(h)) \in Nat
      BY <2>1, <1>0, AheadIsClosed, BlocksAssumption, FS_Subset, FS_CardinalityType
    <3> QED BY <3>2, <3>3, <3>4
  <2>3. <<u, h>> \in BackEdges
    BY <2>1, <2>2, <1>5, DomIsDominance DEF BackEdges
  <2>4. h \in Headers
    BY <2>3 DEF Headers
  <2> QED BY <2>1, <2>3, <2>4 DEF Latches
<1>6. \E u \in S : h \in ToSet(succs[u])
  <2> SUFFICES ASSUME \A u \in S : h \notin ToSet(succs[u]) PROVE FALSE
    OBVIOUS
  <2> DEFINE W == S \ {h}
  <2>1. W \in SUBSET S /\ \A x \in W \cup {b} : \A s \in ToSet(succs[x]) : s \in S => s \in W
    BY <1>2
  <2> HIDE DEF W
  <2>2. S \subseteq W
    BY <2>1, <1>0, TiedAreFound DEF S
  <2> QED BY <2>2 DEF W
<1>7. /\ h \in Headers /\ h \in LoopOf(h) /\ Latches(h) \subseteq LoopOf(h)
      /\ \A x \in LoopOf(h) \ {h} : Preds(x) \subseteq LoopOf(h)
  BY <1>5, <1>6, LoopIsLeast
<1>8. b \in LoopOf(h)
  <2> SUFFICES ASSUME b \notin LoopOf(h) PROVE FALSE
    OBVIOUS
  <2> DEFINE W == S \ LoopOf(h)
  <2>1. ASSUME NEW x \in W \cup {b}, NEW s \in ToSet(succs[x]), s \in S PROVE s \in W
    <3>1. x \in S /\ x \notin LoopOf(h) /\ x \in Blocks
      BY <1>2
    <3>2. s # h
      BY <3>1, <2>1, <1>5, <1>7
    <3>3. x \in Preds(s)
      BY <3>1, <2>1 DEF Preds
    <3>4. s \notin LoopOf(h)
      BY <3>1, <3>2, <3>3, <1>7
    <3> QED BY <3>4, <2>1
  <2>2. W \in SUBSET S
    OBVIOUS
  <2> HIDE DEF W
  <2>3. S \subseteq W
    BY <2>1, <2>2, <1>0, TiedAreFound DEF S
  <2> QED BY <2>3, <1>7 DEF W
<1> QED BY <1>7, <1>8

\* So the blocks inside loops are those on cycles.
LEMMA TrueTreeFindsCycles ==
  ASSUME TrueTree PROVE CyclesFound
<1> SUFFICES ASSUME Reducible, NEW b \in Reachable PROVE OnCycle(b) <=> Innermost(b) # NoNode
  BY DEF CyclesFound
<1>1. b \in Reached /\ (OnCycle(b) <=> b \in After(b))
  BY DEF TrueTree, OnCycle, After
<1>2. ASSUME b \in After(b) PROVE Innermost(b) # NoNode
  BY <1>1, <1>2, CyclesAreLoops, InnermostHolds
<1>3. ASSUME Innermost(b) # NoNode PROVE b \in After(b)
  <2>1. Innermost(b) \in Headers /\ b \in LoopOf(Innermost(b))
    BY <1>3, InnermostHolds
  <2> QED BY <2>1, <1>1, LoopsAreCycles
<1> QED BY <1>1, <1>2, <1>3

\* The loops of a finished tree, in every control graph: in a reducible one the blocks
\* inside loops are those on cycles; when all blocks are reached, loops nest, each one
\* level deeper than its parent and dominated by its header; preheaders dominate.
THEOREM LoopsAreExact == Spec => []LoopsExact
<1>1. IInv => LoopsExact
  <2> SUFFICES ASSUME IInv PROVE LoopsExact
    OBVIOUS
  <2>1. CASE ~Done
    BY <2>1 DEF LoopsExact, CyclesFound, LoopsNest, PreheaderDominates
  <2>2. CASE Done
    <3>1. TrueTree
      BY <2>2, SettledIsTrue
    <3>2. \A b \in Blocks : Start \notin ToSet(succs[b])
      BY GraphsAssumption DEF IInv, SearchInv, SearchTypes
    <3> QED BY <3>1, <3>2, TrueTreeFindsCycles, TrueTreeNests, TrueTreeEnters DEF LoopsExact
  <2> QED BY <2>1, <2>2
<1> QED BY <1>1, DominatorsInvariant, PTL
=============================================================================
