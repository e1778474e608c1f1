--------------------------- MODULE SonMemoryProofs ---------------------------
(***************************************************************************)
(* For every set of programs of the three shapes, whatever statements      *)
(* their blocks hold: the graph the memory passes work on stays one they   *)
(* may walk, and the chain repair never finds anything to repair.          *)
(*                                                                         *)
(* The argument: every step of the builder leaves an intact graph          *)
(* (IsGraph) and, as the current memory version, a live one that is there  *)
(* in the block it builds (Ready), so the passes begin on one;             *)
(* each rewrite gives the users of what it kills a name that is there at   *)
(* every one of them, because the load or store it takes the name from is  *)
(* executed before (LoadReplaced, StoreBypassed, UpsIntact); and in an     *)
(* intact graph what is alive is its own live ancestor (NothingToRepair).  *)
(***************************************************************************)
EXTENDS SonMemory, MemoryGraphProofs

-----------------------------------------------------------------------------
(* What the builder makes of a program.                                    *)

Roots == {1, P, 4, Q, X}

\* Reading a variable.
LEMMA RootRead ==
  ASSUME NEW sh, NEW s, Ready(sh, Roots, s), NEW r \in Roots, NEW t, t = EmitLoad(s, r, FALSE, 0)
  PROVE  /\ Steps(sh, s, t) /\ Ready(sh, Roots, t)
         /\ Usable(t, Len(t.g)) /\ Len(t.g) \in Int
<1>1. Built(sh, s) /\ Usable(s, r) /\ r \in Int
  BY RootsUsable DEF Ready, Roots, P, Q, X
<1>2. Steps(sh, s, t) /\ Usable(t, Len(t.g))
  BY <1>1, PlainLoad
<1>3. Ready(sh, Roots, t)
  BY <1>2, StepsReady
<1>4. Len(t.g) \in Int
  BY <1>2 DEF Steps, Built, IsState
<1> QED BY <1>2, <1>3, <1>4

\* A statement adds nodes and leaves the graph intact.
LEMMA StatementSteps ==
  ASSUME NEW sh, NEW s, Ready(sh, Roots, s), NEW k \in Kinds, NEW t, t = Statement(s, k)
  PROVE  Steps(sh, s, t)
<1> DEFINE lp == EmitLoad(s, P, FALSE, 0)
           lq == EmitLoad(s, Q, FALSE, 0)
           a == EmitAlloc(s)
           u == EmitLoad(s, X, FALSE, 0)
<1>0. P \in Roots /\ Q \in Roots /\ X \in Roots /\ P \in Int /\ Q \in Int /\ X \in Int
      /\ Built(sh, s) /\ Rooted(Roots, s)
  BY DEF Roots, P, Q, X, Ready
<1>p. Steps(sh, s, lp) /\ Ready(sh, Roots, lp) /\ Usable(lp, Len(lp.g)) /\ Len(lp.g) \in Int
  BY <1>0, RootRead
<1>q. Steps(sh, s, lq) /\ Ready(sh, Roots, lq) /\ Usable(lq, Len(lq.g)) /\ Len(lq.g) \in Int
  BY <1>0, RootRead
<1>u. Steps(sh, s, u) /\ Ready(sh, Roots, u) /\ Usable(u, Len(u.g)) /\ Len(u.g) \in Int
  BY <1>0, RootRead
<1>a. Steps(sh, s, a) /\ Ready(sh, Roots, a) /\ Usable(a, a.mem) /\ a.mem \in Int
  <2>1. Steps(sh, s, a) /\ Usable(a, a.mem)
    BY <1>0, AllocEmitted
  <2>2. Ready(sh, Roots, a)
    BY <2>1, StepsReady
  <2>3. a.mem \in Int
    BY <2>1 DEF Steps, Built, IsState
  <2> QED BY <2>1, <2>2, <2>3
<1>r. Usable(s, X) /\ Usable(lq, P) /\ Usable(a, P)
  BY <1>0, <1>q, <1>a, RootsUsable DEF Ready
<1> HIDE DEF lp, lq, a, u
<1>l. ASSUME NEW z, NEW y, Ready(sh, Roots, z), NEW added \in BOOLEAN, NEW off \in Int,
             Usable(z, Len(z.g)), Len(z.g) \in Int, Steps(sh, s, z),
             y = EmitUse(EmitLoad(z, Len(z.g), added, off))
      PROVE  Steps(sh, s, y)
  <2> DEFINE l == EmitLoad(z, Len(z.g), added, off)
  <2>1. Built(sh, z)
    BY <1>l DEF Ready
  <2>2. Steps(sh, z, l) /\ Usable(l, Len(l.g))
    BY <1>l, <2>1, LoadEmitted
  <2>3. Built(sh, l) /\ y = EmitUse(l)
    BY <1>l, <2>2 DEF Steps
  <2> HIDE DEF l
  <2>4. Steps(sh, l, y)
    BY <2>2, <2>3, UseEmitted
  <2> QED BY <1>l, <2>2, <2>4, StepsTransitive
<1>s. ASSUME NEW y, NEW added \in BOOLEAN, NEW off \in Int,
             y = EmitStore(lp, Len(lp.g), added, off, 0)
      PROVE  Steps(sh, s, y)
  <2>1. Built(sh, lp)
    BY <1>p DEF Ready
  <2>2. Steps(sh, lp, y)
    BY <1>p, <1>s, <2>1, StoreEmitted
  <2> QED BY <1>p, <2>2, StepsTransitive
<1>1. CASE k = "x=c"
  <2>1. Writes(s, t, X, 0)
    BY <1>1 DEF Statement, Writes
  <2>2. X \in Int /\ 0 \in Int /\ (X > 0 => Usable(s, X)) /\ (0 > 0 => Usable(s, 0)) /\ Built(sh, s)
    BY <1>0, <1>r
  <2>3. Steps(sh, s, t) /\ t.mem = Len(t.g)
    BY <2>1, <2>2, PlainStore
  <2> QED BY <2>3
<1>2. CASE k = "use x"
  <2>1. t = EmitUse(u)
    BY <1>2 DEF Statement, u
  <2>2. Steps(sh, u, t)
    BY <2>1, <1>u, UseEmitted DEF Ready
  <2> QED BY <2>2, <1>u, StepsTransitive
<1>3. CASE k \in {"*p=c", "p[i]=c", "p[1]=c"}
  <2>1. PICK added \in BOOLEAN, off \in Int : t = EmitStore(lp, Len(lp.g), added, off, 0)
    <3>1. \/ t = EmitStore(lp, Len(lp.g), FALSE, 0, 0) \/ t = EmitStore(lp, Len(lp.g), TRUE, 0, 0)
          \/ t = EmitStore(lp, Len(lp.g), TRUE, 1, 0)
      BY <1>3 DEF Statement, lp
    <3>2. FALSE \in BOOLEAN /\ TRUE \in BOOLEAN /\ 0 \in Int /\ 1 \in Int
      OBVIOUS
    <3> QED BY <3>1, <3>2, Zenon
  <2> QED BY <2>1, <1>s
<1>4. CASE k \in {"use *p", "use p[i]", "use p[1]"}
  <2>1. PICK added \in BOOLEAN, off \in Int : t = EmitUse(EmitLoad(lp, Len(lp.g), added, off))
    <3>1. \/ t = EmitUse(EmitLoad(lp, Len(lp.g), FALSE, 0))
          \/ t = EmitUse(EmitLoad(lp, Len(lp.g), TRUE, 0))
          \/ t = EmitUse(EmitLoad(lp, Len(lp.g), TRUE, 1))
      BY <1>4 DEF Statement, lp
    <3>2. FALSE \in BOOLEAN /\ TRUE \in BOOLEAN /\ 0 \in Int /\ 1 \in Int
      OBVIOUS
    <3> QED BY <3>1, <3>2, Zenon
  <2> QED BY <2>1, <1>p, <1>l
<1>5. CASE k = "use *q"
  <2>1. t = EmitUse(EmitLoad(lq, Len(lq.g), FALSE, 0))
    BY <1>5 DEF Statement, lq
  <2>2. FALSE \in BOOLEAN /\ 0 \in Int
    OBVIOUS
  <2> QED BY <2>1, <2>2, <1>q, <1>l, Zenon
<1>6. CASE k = "p=q"
  <2>1. Writes(lq, t, P, Len(lq.g))
    BY <1>6 DEF Statement, lq, Writes
  <2>2. Steps(sh, lq, t)
    BY <2>1, <1>0, <1>q, <1>r, PlainStore DEF Ready
  <2> QED BY <2>2, <1>q, StepsTransitive
<1>7. CASE k = "p=new"
  <2>1. Writes(a, t, P, a.mem)
    BY <1>7 DEF Statement, a, Writes
  <2>2. Steps(sh, a, t)
    BY <2>1, <1>0, <1>a, <1>r, PlainStore DEF Ready
  <2> QED BY <2>2, <1>a, StepsTransitive
<1>8. CASE k = "f(p)"
  <2>1. Calls(lp, t, Len(lp.g))
    BY <1>8 DEF Statement, lp, Calls
  <2>2. Steps(sh, lp, t)
    BY <2>1, <1>p, CallEmitted DEF Ready
  <2> QED BY <2>2, <1>p, StepsTransitive
<1> QED BY <1>1, <1>2, <1>3, <1>4, <1>5, <1>6, <1>7, <1>8 DEF Kinds

\* What a block makes: the states after each of its statements.
Afters(x, stmts) ==
  CHOOSE A : A = [k \in 0 .. Len(stmts) |-> IF k = 0 THEN x ELSE Statement(A[k - 1], stmts[k])]

\* A block ends in the state after its last statement.
LEMMA BlockIsAfters ==
  ASSUME NEW s, NEW b, NEW m, NEW stmts, NEW x, Moves(s, x, b, m)
  PROVE  Block(Statement, s, b, m, stmts) = Afters(x, stmts)[Len(stmts)]
BY DEF Block, Afters, Moves

\* What a block has added to what was there.
Follows(s, t, b) ==
  /\ DOMAIN s.g \subseteq DOMAIN t.g /\ t.blk = b
  /\ \A i \in DOMAIN s.g : t.g[i] = s.g[i]
  /\ \A i \in DOMAIN t.g : i \notin DOMAIN s.g => t.g[i].blk = b /\ t.g[i].op # "Phi"

\* The states of a block are all ready, for as many statements as it has.
LEMMA AftersExist ==
  ASSUME NEW sh, NEW x, Ready(sh, Roots, x), NEW stmts \in Seq(Kinds)
  PROVE  Ready(sh, Roots, Afters(x, stmts)[Len(stmts)]) /\ Steps(sh, x, Afters(x, stmts)[Len(stmts)])
<1> DEFINE n == Len(stmts)
           D == {y \in [g : Seq(NodeType), mem : Nat, blk : 0 .. 3] : Ready(sh, Roots, y) /\ Steps(sh, x, y)}
           F == [y \in D \X (1 .. n) |-> Statement(y[1], stmts[y[2]])]
           A == Afters(x, stmts)
<1>0. n \in Nat /\ \A i \in 1 .. n : stmts[i] \in Kinds
  OBVIOUS
<1>1. x \in D
  <2>1. IsState(x) /\ Built(sh, x)
    BY DEF Ready, Built
  <2>2. Steps(sh, x, x)
    BY <2>1 DEF Steps, Grown
  <2> QED BY <2>1, <2>2 DEF IsState
<1>2. ASSUME NEW d \in D, NEW k \in Kinds PROVE Statement(d, k) \in D
  <2> DEFINE y == Statement(d, k)
  <2>1. Ready(sh, Roots, d) /\ Steps(sh, x, d)
    OBVIOUS
  <2>2. Steps(sh, d, y)
    BY <2>1, StatementSteps
  <2> HIDE DEF y
  <2>3. Ready(sh, Roots, y) /\ Steps(sh, x, y)
    BY <2>1, <2>2, StepsReady, StepsTransitive
  <2>4. y \in [g : Seq(NodeType), mem : Nat, blk : 0 .. 3]
    BY <2>2 DEF Steps, Built, IsState
  <2> QED BY <2>3, <2>4 DEF y
<1> HIDE DEF D
<1>3. ASSUME NEW d \in D, NEW i \in 1 .. n
      PROVE  F[<<d, i>>] = Statement(d, stmts[i]) /\ F[<<d, i>>] \in D
  <2>1. F[<<d, i>>] = Statement(d, stmts[i])
    OBVIOUS
  <2>2. stmts[i] \in Kinds
    BY <1>0
  <2> HIDE DEF F
  <2> QED BY <2>1, <2>2, <1>2
<1> HIDE DEF F
<1>4. Advances(F, n, D)
  BY <1>3 DEF Advances
<1>5. PICK f \in [0 .. n -> D] : f[0] = x /\ \A i \in 1 .. n : f[i] = F[<<f[i - 1], i>>]
  <2> HIDE DEF n
  <2> QED BY <1>0, <1>1, <1>4, PrefixRecursion
<1>6. ASSUME NEW i \in 1 .. n PROVE f[i] = Statement(f[i - 1], stmts[i])
  <2>1. f[i - 1] \in D
    BY <1>0, <1>5
  <2> QED BY <2>1, <1>3, <1>5
<1>7. f = [k \in 0 .. n |-> IF k = 0 THEN x ELSE Statement(f[k - 1], stmts[k])]
  <2>1. \A k \in 0 .. n : f[k] = IF k = 0 THEN x ELSE Statement(f[k - 1], stmts[k])
    BY <1>0, <1>5, <1>6
  <2> QED BY <2>1, <1>5
<1>8. A = [k \in 0 .. n |-> IF k = 0 THEN x ELSE Statement(A[k - 1], stmts[k])]
  <2>1. \E B : B = [k \in 0 .. n |-> IF k = 0 THEN x ELSE Statement(B[k - 1], stmts[k])]
    BY <1>7, Zenon
  <2> QED BY <2>1, Zenon DEF Afters
<1> HIDE DEF A
<1> DEFINE T == {k \in Nat : k <= n => A[k] \in D}
<1>9. 0 \in T
  BY <1>0, <1>1, <1>8
<1>10. ASSUME NEW k \in Nat, k \in T PROVE k + 1 \in T
  <2> SUFFICES ASSUME k + 1 <= n PROVE A[k + 1] \in D
    OBVIOUS
  <2>1. k + 1 \in 1 .. n /\ A[k] \in D /\ (k + 1) - 1 = k
    BY <1>0, <1>10
  <2>2. A[k + 1] = Statement(A[k], stmts[k + 1])
    BY <2>1, <1>8
  <2> QED BY <2>1, <2>2, <1>0, <1>2
<1> HIDE DEF T
<1>11. n \in T
  BY <1>0, <1>9, <1>10, NatSetInduction
<1>12. A[n] \in D
  BY <1>0, <1>11 DEF T
<1> QED BY <1>12 DEF D, A

\* A block that may begin ends ready.
LEMMA BlockReady ==
  ASSUME NEW sh, NEW s, NEW b, NEW m, MayBegin(sh, Roots, s, b, m), NEW stmts \in Seq(Kinds),
         NEW t, t = Block(Statement, s, b, m, stmts)
  PROVE  Ready(sh, Roots, t) /\ Follows(s, t, b)
<1> DEFINE x == [s EXCEPT !.blk = b, !.mem = m]
<1>1. Moves(s, x, b, m)
  BY DEF Moves
<1> HIDE DEF x
<1>2. Ready(sh, Roots, x) /\ x.g = s.g /\ x.blk = b
  BY <1>1, BlockBegins
<1>3. t = Afters(x, stmts)[Len(stmts)]
  BY <1>1, BlockIsAfters
<1>4. Ready(sh, Roots, t) /\ Steps(sh, x, t)
  BY <1>2, <1>3, AftersExist
<1>5. Grown(x, t)
  BY <1>4 DEF Steps
<1> QED BY <1>2, <1>4, <1>5 DEF Grown, Follows

\* Every program begins with its five variables.
LEMMA PrefixReady ==
  ASSUME NEW sh
  PROVE  Entry(sh, Roots, Prefix, 7)
<1> DEFINE s0 == [g |-> <<>>, mem |-> 0, blk |-> 0]
           s1 == EmitAlloc(s0)
           s2 == EmitAlloc(s1)
           s3 == EmitStore(s2, P, FALSE, 0, 1)
           s4 == EmitAlloc(s3)
           s5 == EmitAlloc(s4)
           s6 == EmitStore(s5, Q, FALSE, 0, 4)
           s7 == EmitAlloc(s6)
<1>p. Prefix = s7
  BY DEF Prefix
<1>1. Entry(sh, {1}, s1, 1)
  BY FirstAlloc
<1> HIDE DEF s1
<1>2. Entry(sh, {1, 2}, s2, 2)
  <2>1. Entry(sh, {1} \cup {1 + 1}, s2, 1 + 1)
    BY <1>1, RootAdded
  <2>2. {1} \cup {1 + 1} = {1, 2} /\ 1 + 1 = 2
    OBVIOUS
  <2> QED BY <2>1, <2>2
<1> HIDE DEF s2
<1>3. Entry(sh, {1, 2}, s3, 3)
  <2>1. Writes(s2, s3, 2, 1) /\ 2 \in {1, 2} /\ 1 \in Int /\ 1 \in {1, 2}
    BY DEF Writes, P
  <2>2. Entry(sh, {1, 2}, s3, 2 + 1)
    BY <1>2, <2>1, EntryStored
  <2>3. 2 + 1 = 3
    OBVIOUS
  <2> HIDE DEF s3
  <2> QED BY <2>2, <2>3
<1> HIDE DEF s3
<1>4. Entry(sh, {1, 2, 4}, s4, 4)
  <2>1. Entry(sh, {1, 2} \cup {3 + 1}, s4, 3 + 1)
    BY <1>3, RootAdded
  <2>2. {1, 2} \cup {3 + 1} = {1, 2, 4} /\ 3 + 1 = 4
    OBVIOUS
  <2> QED BY <2>1, <2>2
<1> HIDE DEF s4
<1>5. Entry(sh, {1, 2, 4, 5}, s5, 5)
  <2>1. Entry(sh, {1, 2, 4} \cup {4 + 1}, s5, 4 + 1)
    BY <1>4, RootAdded
  <2>2. {1, 2, 4} \cup {4 + 1} = {1, 2, 4, 5} /\ 4 + 1 = 5
    OBVIOUS
  <2> QED BY <2>1, <2>2
<1> HIDE DEF s5
<1>6. Entry(sh, {1, 2, 4, 5}, s6, 6)
  <2>1. Writes(s5, s6, 5, 4) /\ 5 \in {1, 2, 4, 5} /\ 4 \in Int /\ 4 \in {1, 2, 4, 5}
    BY DEF Writes, Q
  <2>2. Entry(sh, {1, 2, 4, 5}, s6, 5 + 1)
    BY <1>5, <2>1, EntryStored
  <2>3. 5 + 1 = 6
    OBVIOUS
  <2> HIDE DEF s6
  <2> QED BY <2>2, <2>3
<1> HIDE DEF s6
<1>7. Entry(sh, {1, 2, 4, 5, 7}, s7, 7)
  <2>1. Entry(sh, {1, 2, 4, 5} \cup {6 + 1}, s7, 6 + 1)
    BY <1>6, RootAdded
  <2>2. {1, 2, 4, 5} \cup {6 + 1} = {1, 2, 4, 5, 7} /\ 6 + 1 = 7
    OBVIOUS
  <2> QED BY <2>1, <2>2
<1> QED BY <1>p, <1>7 DEF Roots, P, Q, X

\* The source programs: what a body is.
IsBody(body) == \A j \in 1 .. 4 : body[j] \in Seq(Kinds)

\* At the entry, the next block may begin where the last one ended.
LEMMA ReadyMayBegin ==
  ASSUME NEW sh, NEW S, NEW s, Ready(sh, S, s), s.blk = 0
  PROVE  MayBegin(sh, S, s, 0, s.mem)
BY DEF Ready, Built, MayBegin, IsState

\* The three shapes of control: one block after another,
LEMMA LineReady ==
  ASSUME NEW sh, NEW body, IsBody(body), NEW t, t = Line(Statement, Prefix, body)
  PROVE  Ready(sh, Roots, t) /\ AtEntry(t)
<1>1. Ready(sh, Roots, Prefix) /\ AtEntry(Prefix) /\ Prefix.blk = 0
  BY PrefixReady DEF Entry, AtEntry
<1>2. t = Block(Statement, Prefix, 0, Prefix.mem, body[1]) /\ body[1] \in Seq(Kinds)
  BY DEF Line, IsBody
<1>3. MayBegin(sh, Roots, Prefix, 0, Prefix.mem)
  BY <1>1, ReadyMayBegin
<1>4. Ready(sh, Roots, t) /\ Follows(Prefix, t, 0)
  BY <1>2, <1>3, BlockReady
<1>5. AtEntry(t)
  BY <1>1, <1>4 DEF AtEntry, Follows
<1> QED BY <1>4, <1>5

\* two ways that join,
LEMMA DiamondReady ==
  ASSUME NEW body, IsBody(body), NEW t, t = Diamond(Statement, Prefix, body)
  PROVE  Ready("diamond", Roots, t)
<1> DEFINE sh == "diamond"
           s0 == Line(Statement, Prefix, body)
           s1 == Block(Statement, s0, 1, s0.mem, body[2])
           s2 == Block(Statement, s1, 2, s0.mem, body[3])
           s3 == Merge(s2, 3, s1.mem, s2.mem)
<1>1. Ready(sh, Roots, s0) /\ AtEntry(s0)
  BY LineReady
<1>b. body[2] \in Seq(Kinds) /\ body[3] \in Seq(Kinds) /\ body[4] \in Seq(Kinds)
  BY DEF IsBody
<1>t. t = Block(Statement, s3, 3, s3.mem, body[4])
  BY DEF Diamond
<1> HIDE DEF s0
<1>2. /\ s0.mem \in DOMAIN s0.g /\ s0.g[s0.mem].op \in MemOps /\ s0.g[s0.mem].blk = 0
      /\ IsState(s0) /\ IsGraph(sh, s0.g) /\ Rooted(Roots, s0)
  BY <1>1 DEF Ready, Built, AtEntry
<1>3. MayBegin(sh, Roots, s0, 1, s0.mem)
  BY <1>2 DEF MayBegin, Above
<1>4. Ready(sh, Roots, s1) /\ Follows(s0, s1, 1)
  BY <1>3, <1>b, BlockReady
<1> HIDE DEF s1
<1>5. /\ s1.mem \in DOMAIN s1.g /\ s1.g[s1.mem].op \in MemOps /\ s1.g[s1.mem].blk \in {0, 1}
      /\ s0.mem \in DOMAIN s1.g /\ s1.g[s0.mem] = s0.g[s0.mem]
      /\ IsState(s1) /\ IsGraph(sh, s1.g) /\ Rooted(Roots, s1)
  BY <1>1, <1>2, <1>4 DEF Ready, Built, Follows, AtEntry
<1>6. MayBegin(sh, Roots, s1, 2, s0.mem)
  BY <1>2, <1>5 DEF MayBegin, Above
<1>7. Ready(sh, Roots, s2) /\ Follows(s1, s2, 2)
  BY <1>6, <1>b, BlockReady
<1> HIDE DEF s2
<1>8. /\ s2.mem \in DOMAIN s2.g /\ s2.g[s2.mem].op \in MemOps /\ s2.g[s2.mem].blk \in {0, 2}
      /\ s1.mem \in DOMAIN s2.g /\ s2.g[s1.mem] = s1.g[s1.mem]
      /\ IsState(s2) /\ IsGraph(sh, s2.g) /\ Rooted(Roots, s2)
  BY <1>5, <1>7 DEF Ready, Built, Follows, Above
<1>9. MayMerge(sh, Roots, s2, 3, s1.mem, s2.mem)
  BY <1>5, <1>8 DEF MayMerge
<1>10. Ready(sh, Roots, s3) /\ s3.blk = 3
  BY <1>9, MergeReady
<1> HIDE DEF s3
<1>11. MayBegin(sh, Roots, s3, 3, s3.mem)
  BY <1>10 DEF MayBegin, Ready, Built
<1>12. Ready(sh, Roots, t)
  BY <1>11, <1>b, <1>t, BlockReady
<1> QED BY <1>12

\* and a loop.
LEMMA LoopReady ==
  ASSUME NEW body, IsBody(body), NEW t, t = Loop(Statement, Prefix, body)
  PROVE  Ready("loop", Roots, t)
<1> DEFINE sh == "loop"
           s0 == Line(Statement, Prefix, body)
           m == s0.mem
           h == Len(s0.g) + 1
           s1 == EmitEffect([s0 EXCEPT !.blk = 1], [Node("Phi", 0) EXCEPT !.ins = <<s0.mem, h>>])
           s2 == Block(Statement, s1, 2, h, body[2])
           s3 == [s2 EXCEPT !.g[h].ins = <<s0.mem, s2.mem>>]
           s4 == Block(Statement, s3, 3, h, body[4])
<1>1. Ready(sh, Roots, s0) /\ AtEntry(s0)
  BY LineReady
<1>b. body[2] \in Seq(Kinds) /\ body[3] \in Seq(Kinds) /\ body[4] \in Seq(Kinds)
  BY DEF IsBody
<1>t. \/ t = s4
      \/ Drops(s4, t, h, m)
  BY DEF Loop, Drops
<1>2. Joins(s0, s1, 1, s0.mem, h)
  BY DEF Joins
<1> HIDE DEF s0, s1
<1>0. h = Len(s0.g) + 1
  OBVIOUS
<1>3. /\ Joined(s0, s1, 1, s0.mem, h) /\ MayBegin(sh, Roots, s1, 2, h)
      /\ s0.mem \in DOMAIN s0.g /\ s1.g[s0.mem].blk = 0 /\ s1.g[s0.mem].op \in MemOps
  <2> HIDE DEF h
  <2> QED BY <1>0, <1>1, <1>2, LoopOpened
<1>4. Header(s1, h, m)
  <2>1. /\ s1.mem = h /\ h \in Nat /\ DOMAIN s1.g = 1 .. h
        /\ DOMAIN s0.g = 1 .. Len(s0.g) /\ \A i \in DOMAIN s0.g : s1.g[i] = s0.g[i]
        /\ s1.g[h].op = "Phi" /\ s1.g[h].blk = 1 /\ s1.g[h].mem = m
    BY <1>3 DEF Joined
  <2>2. m \in DOMAIN s1.g /\ m < h /\ h \in DOMAIN s1.g
    BY <1>3, <2>1
  <2>3. \A i \in DOMAIN s1.g : s1.g[i].op = "Phi" => i = h
    BY <1>1, <2>1 DEF AtEntry
  <2> QED BY <1>3, <2>1, <2>2, <2>3 DEF Header
<1> HIDE DEF h, m
<1>5. Ready(sh, Roots, s2) /\ Follows(s1, s2, 2)
  BY <1>3, <1>b, BlockReady
<1> HIDE DEF s2
<1>6. Header(s2, h, m)
  BY <1>4, <1>5 DEF Header, Follows
<1>7. Closes(s2, s3, h, m)
  BY DEF Closes, m
<1> HIDE DEF s3
<1>8. MayBegin(sh, Roots, s3, 3, h) /\ Header(s3, h, m)
  BY <1>5, <1>6, <1>7, LoopClosed
<1>9. Ready(sh, Roots, s4) /\ Follows(s3, s4, 3)
  BY <1>8, <1>b, BlockReady
<1> HIDE DEF s4
<1>10. Header(s4, h, m)
  BY <1>8, <1>9 DEF Header, Follows
<1>11. Drops(s4, t, h, m) => Ready(sh, Roots, t)
  BY <1>9, <1>10, LoopDropped
<1> QED BY <1>t, <1>9, <1>11

\* The programs are of one of these.
LEMMA ShapeReady ==
  ASSUME NEW p \in Programs, NEW t, t = Shape(Statement, Prefix, p.shape, p.body)
  PROVE  Ready(p.shape, Roots, t)
<1>1. p.shape \in {"line", "diamond", "loop"} /\ IsBody(p.body)
  BY ProgramsAssumption DEF IsBody
<1>2. CASE p.shape = "line"
  <2>1. t = Line(Statement, Prefix, p.body)
    BY <1>2 DEF Shape
  <2> QED BY <2>1, <1>1, LineReady
<1>3. CASE p.shape = "diamond"
  <2>1. t = Diamond(Statement, Prefix, p.body)
    BY <1>3 DEF Shape
  <2> QED BY <2>1, <1>1, <1>3, DiamondReady
<1>4. CASE p.shape = "loop"
  <2>1. t = Loop(Statement, Prefix, p.body)
    BY <1>4 DEF Shape
  <2> QED BY <2>1, <1>1, <1>4, LoopReady
<1> QED BY <1>1, <1>2, <1>3, <1>4

\* The builder makes an intact graph of every program.
LEMMA BuildIntact ==
  ASSUME NEW p \in Programs
  PROVE  IsGraph(p.shape, Build(p))
<1> DEFINE s == Shape(Statement, Prefix, p.shape, p.body)
           l == EmitLoad(s, P, FALSE, 0)
           r == IF p.ret THEN l ELSE s
           v == IF p.ret THEN Len(r.g) ELSE 0
           t == EmitEffect(r, [Node("Return", 0) EXCEPT !.val = v])
<1>1. Ready(p.shape, Roots, s)
  BY ShapeReady
<1>2. Returns(r, t, v) /\ Build(p) = t.g
  BY DEF Returns, Build
<1> HIDE DEF s, t
<1>3. /\ Ready(p.shape, Roots, l) /\ Usable(l, Len(l.g)) /\ Len(l.g) \in Int
  <2>1. P \in Roots
    BY DEF Roots
  <2> QED BY <1>1, <2>1, RootRead
<1> HIDE DEF l
<1>4. Built(p.shape, r) /\ v \in Int /\ (v > 0 => Usable(r, v))
  BY <1>1, <1>3 DEF Ready
<1> HIDE DEF r, v
<1> QED BY <1>2, <1>4, ReturnEmitted

-----------------------------------------------------------------------------
(* What the passes make of it.                                             *)

IInv == prog \in Programs /\ at \in Nat \ {0} /\ IsGraph(prog.shape, g)

\* The least of a set is in it.
LEMMA LeastIsLeast ==
  ASSUME NEW S \in SUBSET Nat, S # {}
  PROVE  Least(S) \in S
<1>1. \E m \in S : \A k \in S : m <= k
  BY LeastExists
<1> QED BY <1>1 DEF Least

\* The passes begin on an intact graph.
LEMMA InitIntact ==
  ASSUME Init
  PROVE  IInv
BY BuildIntact DEF Init, IInv

\* The node a pass rewrites is a load, or a store, of the graph.
LEMMA HitsIntact ==
  ASSUME IInv, Hits # {}
  PROVE  /\ Least(Hits) \in DOMAIN g /\ Least(Hits) + 1 \in Nat \ {0}
         /\ Pass = 21 => g[Least(Hits)].op = "Load" /\ DominatingLoads(g, Least(Hits)) # {}
         /\ Pass = 22 => g[Least(Hits)].op = "Load" /\ ReachingStore(g, Least(Hits)) # 0
         /\ Pass = 23 => g[Least(Hits)].op = "Store"
<1>1. DOMAIN g = 1 .. Len(g) /\ Len(g) \in Nat /\ at \in Nat \ {0}
  BY DEF IInv, IsGraph
<1>2. Hits \in SUBSET Nat /\ Hits \subseteq at .. Len(g)
  BY <1>1 DEF Hits
<1>3. Least(Hits) \in Hits
  BY <1>2, LeastIsLeast
<1> DEFINE l == Least(Hits)
<1> HIDE DEF l
<1>4. l \in Hits
  BY <1>3 DEF l
<1>5. /\ l \in at .. Len(g)
      /\ \/ Pass = 21 /\ g[l].op = "Load" /\ DominatingLoads(g, l) # {}
         \/ Pass = 22 /\ g[l].op = "Load" /\ Forwards(l)
         \/ Pass = 23 /\ g[l].op = "Store" /\ DeadStore(g, locals, l)
  BY <1>4 DEF Hits
<1>6. Forwards(l) => ReachingStore(g, l) # 0
  BY DEF Forwards
<1> QED BY <1>1, <1>5, <1>6 DEF l

\* Pass 21 keeps it intact: the earlier load is executed before every use of the later one;
LEMMA RedundantLoadIntact ==
  ASSUME IInv, RedundantLoad
  PROVE  IInv'
<1> DEFINE l == Least(Hits)
           o == Least(DominatingLoads(g, l))
<1>1. /\ Pass = 21 /\ Hits # {} /\ g' = Kill(ReplaceAllUses(g, l, o), l)
      /\ at' = l + 1 /\ prog' = prog
  BY DEF RedundantLoad, Rewrite, Keep
<1>2. l \in DOMAIN g /\ l + 1 \in Nat \ {0} /\ g[l].op = "Load" /\ DominatingLoads(g, l) # {}
  BY <1>1, HitsIntact
<1>3. IsGraph(prog.shape, g) /\ prog \in Programs /\ DOMAIN g = 1 .. Len(g) /\ Len(g) \in Nat
  BY DEF IInv, IsGraph
<1> HIDE DEF l
<1>4. o \in DominatingLoads(g, l)
  <2>1. DominatingLoads(g, l) \in SUBSET Nat
    BY <1>2, <1>3 DEF DominatingLoads
  <2> QED BY <1>2, <2>1, LeastIsLeast
<1> HIDE DEF o
<1>5. o \in Int /\ o < l /\ g[o].op = "Load" /\ Dominates(g[o].blk, g[l].blk)
  BY <1>2, <1>3, <1>4 DEF DominatingLoads
<1>6. ValueIntact(g, l, o)
  BY <1>5 DEF ValueIntact, ValueOps
<1>7. IsGraph(prog.shape, g')
  BY <1>1, <1>2, <1>3, <1>5, <1>6, LoadReplaced
<1> QED BY <1>1, <1>2, <1>3, <1>7 DEF IInv

\* so does pass 22: the forwarded value was there at the store, which is executed before the load;
LEMMA ForwardStoreIntact ==
  ASSUME IInv, ForwardStore
  PROVE  IInv'
<1> DEFINE l == Least(Hits)
           d == ReachingStore(g, l)
           v == g[d].val
<1>1. /\ Pass = 22 /\ Hits # {} /\ g' = Kill(ReplaceAllUses(g, l, v), l)
      /\ at' = l + 1 /\ prog' = prog
  BY DEF ForwardStore, Rewrite, Keep
<1>2. l \in DOMAIN g /\ l + 1 \in Nat \ {0} /\ g[l].op = "Load" /\ d # 0
  BY <1>1, HitsIntact
<1>3. IsGraph(prog.shape, g) /\ prog \in Programs
  BY DEF IInv
<1> HIDE DEF l
<1>4. v \in Int /\ ValueIntact(g, l, v)
  BY <1>2, <1>3, ReachingIntact
<1> HIDE DEF d, v
<1>5. IsGraph(prog.shape, g')
  BY <1>1, <1>2, <1>3, <1>4, LoadReplaced
<1> QED BY <1>1, <1>2, <1>3, <1>5 DEF IInv

\* and pass 23: what took the store's version gets the one before it.
LEMMA EliminateStoreIntact ==
  ASSUME IInv, EliminateStore
  PROVE  IInv'
<1> DEFINE s == Least(Hits)
<1>1. /\ Pass = 23 /\ Hits # {} /\ g' = Kill(ReplaceUsesAsMemory(g, s, g[s].mem), s)
      /\ at' = s + 1 /\ prog' = prog
  BY DEF EliminateStore, Rewrite, Keep
<1>2. s \in DOMAIN g /\ s + 1 \in Nat \ {0} /\ g[s].op = "Store"
  BY <1>1, HitsIntact
<1>3. IsGraph(prog.shape, g) /\ prog \in Programs
  BY DEF IInv
<1> HIDE DEF s
<1>4. IsGraph(prog.shape, g')
  BY <1>1, <1>2, <1>3, StoreBypassed
<1> QED BY <1>1, <1>2, <1>3, <1>4 DEF IInv

-----------------------------------------------------------------------------
(* The chain repair.                                                       *)

\* LiveAncestor is that walk, in the graph the repair finds.
LEMMA AncestorIsFollowed ==
  ASSUME NEW gr, NEW m
  PROVE  LiveAncestor(gr, m) = Followed(gr)[m]
BY DEF LiveAncestor, Followed, FollowRule

\* What is alive, or the start, is its own live ancestor.
LEMMA LiveIsOwnAncestor ==
  ASSUME NEW sh, NEW gr, IsGraph(sh, gr), NEW m \in 0 .. Len(gr), m # 0 => gr[m].op # "Dead"
  PROVE  LiveAncestor(gr, m) = m
<1>1. Followed(gr)[m] = FollowRule(gr, Followed(gr), m)
  BY FollowedExists
<1> QED BY <1>1, AncestorIsFollowed DEF FollowRule

\* In an intact graph the repair changes nothing,
LEMMA NothingToRepair ==
  ASSUME NEW sh, NEW gr, IsGraph(sh, gr)
  PROVE  Repaired(gr) = gr
<1>1. /\ gr \in Seq(NodeType) /\ DOMAIN gr = 1 .. Len(gr) /\ Len(gr) \in Nat
      /\ \A i \in DOMAIN gr : gr[i] \in NodeType
      /\ gr = [i \in DOMAIN gr |-> gr[i]]
  BY DEF IsGraph
<1>2. ASSUME NEW i \in DOMAIN gr, gr[i].op # "Dead"
      PROVE  [gr[i] EXCEPT !.mem = LiveAncestor(gr, @),
                !.ins = [k \in DOMAIN gr[i].ins |-> LiveAncestor(gr, gr[i].ins[k])]] = gr[i]
  <2>1. ChainIntact(sh, gr, i) /\ LiveIntact(sh, gr, i) /\ i \in Nat
    BY <1>1, <1>2 DEF IsGraph
  <2>2. LiveAncestor(gr, gr[i].mem) = gr[i].mem
    <3>1. gr[i].mem \in 0 .. Len(gr) /\ (gr[i].mem # 0 => gr[gr[i].mem].op # "Dead")
      BY <2>1, <1>1 DEF ChainIntact, LiveIntact, VersionIntact
    <3> QED BY <3>1, LiveIsOwnAncestor
  <2> DEFINE I == [k \in DOMAIN gr[i].ins |-> LiveAncestor(gr, gr[i].ins[k])]
  <2>3. gr[i].ins \in Seq(Int) /\ gr[i] \in NodeType
    <3>1. gr[i] \in NodeType
      BY <1>1
    <3> QED BY <3>1 DEF NodeType
  <2>4. \A k \in DOMAIN gr[i].ins : LiveAncestor(gr, gr[i].ins[k]) = gr[i].ins[k]
    <3> SUFFICES ASSUME NEW k \in DOMAIN gr[i].ins
                 PROVE  LiveAncestor(gr, gr[i].ins[k]) = gr[i].ins[k]
      OBVIOUS
    <3>1. gr[i].op = "Phi"
      BY <2>1, <2>3 DEF LiveIntact
    <3>2. gr[i].ins[k] \in DOMAIN gr /\ gr[gr[i].ins[k]].op \in MemOps
      BY <2>1, <3>1 DEF LiveIntact, PhiIntact
    <3>3. gr[i].ins[k] \in 0 .. Len(gr) /\ gr[gr[i].ins[k]].op # "Dead"
      BY <3>2, <1>1 DEF MemOps
    <3> QED BY <3>3, LiveIsOwnAncestor
  <2>5. I = gr[i].ins
    BY <2>3, <2>4
  <2> HIDE DEF I
  <2>6. [gr[i] EXCEPT !.mem = gr[i].mem, !.ins = gr[i].ins] = gr[i]
    BY <2>3 DEF NodeType
  <2> QED BY <2>2, <2>5, <2>6 DEF I
<1>3. Repaired(gr) = [i \in DOMAIN gr |-> gr[i]]
  BY <1>2 DEF Repaired
<1> QED BY <1>1, <1>3

\* and so it changes nothing here.
LEMMA RepairIntact ==
  ASSUME IInv, Repair
  PROVE  IInv' /\ g' = g
<1>1. g' = Repaired(g) /\ at' = Len(g) + 1 /\ prog' = prog
  BY DEF Repair, Rewrite, Keep
<1>2. IsGraph(prog.shape, g) /\ prog \in Programs /\ Len(g) \in Nat
  BY DEF IInv, IsGraph
<1>3. g' = g
  BY <1>1, <1>2, NothingToRepair
<1> QED BY <1>1, <1>2, <1>3 DEF IInv

-----------------------------------------------------------------------------
(* Every step keeps the graph intact, and so it is always.                 *)

\* One case for each action.
LEMMA NextIntact ==
  ASSUME IInv, [Next]_vars
  PROVE  IInv'
<1>1. CASE RedundantLoad
  BY <1>1, RedundantLoadIntact
<1>2. CASE ForwardStore
  BY <1>2, ForwardStoreIntact
<1>3. CASE EliminateStore
  BY <1>3, EliminateStoreIntact
<1>4. CASE Repair
  BY <1>4, RepairIntact
<1>5. CASE NextStoreRound
  BY <1>5 DEF NextStoreRound, Keep, IInv
<1>6. CASE NextPass
  BY <1>6 DEF NextPass, Keep, IInv
<1>7. CASE UNCHANGED vars
  BY <1>7 DEF vars, IInv
<1> QED BY <1>1, <1>2, <1>3, <1>4, <1>5, <1>6, <1>7 DEF Next

\* The invariant holds in every state.
LEMMA AlwaysIntact == Spec => []IInv
<1>1. Init => IInv
  BY InitIntact
<1>2. IInv /\ [Next]_vars => IInv'
  BY NextIntact
<1> QED BY <1>1, <1>2, PTL DEF Spec

\* The invariant implies what the run checks.
LEMMA IntactSuffices ==
  ASSUME IInv
  PROVE  GraphIntact
<1>1. /\ \A i \in DOMAIN g : g[i] \in NodeType /\ i \in Nat
      /\ DOMAIN g = Ids /\ Ids = 1 .. Len(g) /\ Len(g) \in Nat
      /\ \A i \in DOMAIN g : ChainIntact(prog.shape, g, i)
                             /\ (g[i].op # "Dead" => LiveIntact(prog.shape, g, i))
  BY DEF IInv, IsGraph, Ids
<1>2. ChainStaysLive
  <2> SUFFICES ASSUME NEW i \in Ids, g[i].op # "Dead", NEW m \in {g[i].mem} \cup ToSet(g[i].ins), m # 0
               PROVE  g[m].op # "Dead"
    BY DEF ChainStaysLive
  <2>1. LiveIntact(prog.shape, g, i)
    BY <1>1
  <2>2. CASE m = g[i].mem
    BY <2>1, <2>2 DEF LiveIntact, VersionIntact
  <2>3. CASE m \in ToSet(g[i].ins)
    <3>1. PICK k \in DOMAIN g[i].ins : m = g[i].ins[k]
      BY <2>3 DEF ToSet
    <3>2. g[i].op = "Phi"
      BY <2>1, <3>1 DEF LiveIntact
    <3> QED BY <2>1, <3>1, <3>2 DEF LiveIntact, PhiIntact, MemOps
  <2> QED BY <2>2, <2>3
<1>3. DefinedBeforeUse
  <2> SUFFICES ASSUME NEW i \in Ids, g[i].op # "Dead", NEW v \in {g[i].addr, g[i].val}, v > 0
               PROVE  v < i /\ g[v].op # "Dead" /\ Dominates(g[v].blk, g[i].blk)
    BY DEF DefinedBeforeUse
  <2>1. LiveIntact(prog.shape, g, i)
    BY <1>1
  <2>2. ValueIntact(g, i, v)
    BY <2>1 DEF LiveIntact
  <2> QED BY <2>2 DEF ValueIntact, ValueOps
<1> QED BY <1>2, <1>3 DEF GraphIntact

\* Whatever program is optimised, every live node always takes its memory from a live
\* operation, or two, and its values from live nodes that are executed before it.
THEOREM GraphStaysIntact == Spec => []GraphIntact
<1>1. IInv => GraphIntact
  BY IntactSuffices
<1> QED BY <1>1, AlwaysIntact, PTL

\* The chain repair, run once in the main run and again in every cleanup sweep, never
\* finds anything to repair: the passes before it bypass what they kill themselves.
THEOREM RepairIsIdle == Spec => [][Repair => UNCHANGED g]_vars
<1>1. IInv /\ [Next]_vars => [Repair => UNCHANGED g]_vars
  BY RepairIntact
<1> QED BY <1>1, AlwaysIntact, PTL DEF Spec

=============================================================================
