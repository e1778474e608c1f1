--------------------------- MODULE PromotionProofs ---------------------------
(***************************************************************************)
(* For every set of programs of the three shapes, whatever statements      *)
(* their blocks hold: scalar replacement takes every variable out of       *)
(* memory, and never gives an allocation up half way.                      *)
(*                                                                         *)
(* The argument: the builder leaves an intact graph in which no node but   *)
(* the loads and stores of a variable names its address, and all memory    *)
(* versions but the declarations' own are made after it (Sound, Beyond);   *)
(* so each variable is Guarded, and what is guarded passes the test        *)
(* (GuardedPromotable).  Forwarding and each promotion of another variable *)
(* keep it so, since what a load is replaced by is a stored value, and no  *)
(* store stores the address of a guarded variable (HeldSourced).  Every    *)
(* version of a linked graph leads up the chain to the allocation, to one  *)
(* of its stores or to the memory phi; so every load has a value           *)
(* (AlwaysResolvable), and the pass, which takes the candidates in order,  *)
(* meets every variable while it is still guarded (IInv).                  *)
(***************************************************************************)
EXTENDS Promotion, MemoryGraphProofs

-----------------------------------------------------------------------------
(* What the builder makes of a program.                                    *)

Roots == Slots \cup {Heap}

\* The nodes of the declarations, each the version that the next one takes; after
\* them, a version is one of theirs at the earliest, and no value is one of their nodes.
Declares(n, j) ==
  /\ n.mem = j - 1 /\ n.op = IF j \in Roots THEN "Alloc" ELSE "Store"
  /\ n.op = "Alloc" => n.val = 0
  /\ n.op = "Store" => n.addr = j - 1 /\ n.val = IF j = 9 THEN Heap ELSE -j
Later(n) ==
  /\ n.mem >= 9 /\ (n.val <= 0 \/ n.val > 9)
  /\ n.op # "Value" /\ (n.op = "Store" => n.val # 0)
Beyond(gr) ==
  /\ 9 \in DOMAIN gr /\ \A j \in 1 .. 9 : Declares(gr[j], j)
  /\ \A i \in DOMAIN gr : i > 9 => Later(gr[i])
Over(s) == Beyond(s.g) /\ s.mem >= 9
Sound(sh, s) == Ready(sh, Roots, s) /\ Over(s)

\* What emitting a node does, field by field.
Adds(s, t, n) ==
  /\ Len(s.g) \in Nat /\ DOMAIN s.g = 1 .. Len(s.g)
  /\ DOMAIN t.g = 1 .. Len(s.g) + 1 /\ Len(t.g) = Len(s.g) + 1
  /\ \A i \in DOMAIN s.g : t.g[i] = s.g[i]
  /\ t.g[Len(t.g)].op = n.op /\ t.g[Len(t.g)].mem = s.mem
  /\ t.g[Len(t.g)].addr = n.addr /\ t.g[Len(t.g)].val = n.val
  /\ t.mem \in {s.mem, Len(t.g)}

\* A node is emitted without an effect on memory,
LEMMA EmitAdds ==
  ASSUME NEW s, IsState(s), NEW n \in NodeType, NEW t, t = Emit(s, n)
  PROVE  Adds(s, t, n) /\ IsState(t) /\ t.mem = s.mem
<1> DEFINE m == [n EXCEPT !.mem = s.mem, !.blk = s.blk]
           G == Append(s.g, m)
<1>1. /\ s \in [g : Seq(NodeType), mem : Nat, blk : 0 .. 3]
      /\ DOMAIN s.g = 1 .. Len(s.g) /\ Len(s.g) \in Nat /\ s.g \in Seq(NodeType)
      /\ s.mem \in Nat /\ s.blk \in 0 .. 3
  BY DEF IsState
<1>2. m \in NodeType /\ m.op = n.op /\ m.mem = s.mem /\ m.addr = n.addr /\ m.val = n.val
  BY <1>1 DEF NodeType
<1> HIDE DEF m
<1>3. /\ G \in Seq(NodeType) /\ DOMAIN G = 1 .. Len(s.g) + 1 /\ Len(G) = Len(s.g) + 1
      /\ G[Len(s.g) + 1] = m /\ \A i \in DOMAIN s.g : G[i] = s.g[i]
  BY <1>1, <1>2
<1>4. t = [s EXCEPT !.g = G]
  BY DEF Emit, m
<1> HIDE DEF G
<1>5. t.g = G /\ t.mem = s.mem /\ t.blk = s.blk /\ IsState(t)
  <2> HIDE DEF NodeType
  <2> QED BY <1>1, <1>3, <1>4 DEF IsState
<1> QED BY <1>1, <1>2, <1>3, <1>5 DEF Adds

\* or with one.
LEMMA EffectAdds ==
  ASSUME NEW s, IsState(s), NEW n \in NodeType, NEW t, t = EmitEffect(s, n)
  PROVE  Adds(s, t, n) /\ IsState(t) /\ t.mem = Len(t.g)
<1> DEFINE u == Emit(s, n)
<1>1. u = Emit(s, n) /\ t = [u EXCEPT !.mem = Len(s.g) + 1]
  BY DEF EmitEffect
<1> HIDE DEF u
<1>2. Adds(s, u, n) /\ IsState(u) /\ u.mem = s.mem
  BY <1>1, EmitAdds
<1>3. Len(s.g) + 1 \in Nat
  BY <1>2 DEF Adds
<1>4. t.g = u.g /\ t.mem = Len(s.g) + 1 /\ IsState(t)
  <2> HIDE DEF NodeType
  <2> QED BY <1>1, <1>2, <1>3 DEF IsState
<1> QED BY <1>2, <1>4 DEF Adds

\* The builder stays beyond the declarations.
LEMMA AddedOver ==
  ASSUME NEW s, NEW t, NEW n \in NodeType, Over(s), IsState(s), Adds(s, t, n),
         n.op # "Value", n.op = "Store" => n.val # 0, n.val <= 0 \/ n.val > 9
  PROVE  Over(t) /\ Len(t.g) > 9
<1>1. /\ Len(s.g) \in Nat /\ DOMAIN s.g = 1 .. Len(s.g)
      /\ DOMAIN t.g = 1 .. Len(s.g) + 1 /\ Len(t.g) = Len(s.g) + 1
      /\ \A i \in DOMAIN s.g : t.g[i] = s.g[i]
      /\ t.mem \in {s.mem, Len(t.g)} /\ s.mem \in Nat
  BY DEF Adds, IsState
<1>2. 9 \in DOMAIN s.g /\ s.mem >= 9 /\ \A i \in 1 .. 9 : i \in DOMAIN s.g /\ Declares(s.g[i], i)
  BY <1>1 DEF Over, Beyond
<1>3. Later(t.g[Len(t.g)])
  BY <1>2 DEF Adds, Later
<1>4. \A i \in DOMAIN t.g : i \in DOMAIN s.g \/ i = Len(t.g)
  BY <1>1
<1>5. \A i \in DOMAIN t.g : i > 9 => Later(t.g[i])
  BY <1>1, <1>3, <1>4 DEF Over, Beyond
<1>6. 9 \in DOMAIN t.g /\ t.mem >= 9 /\ Len(t.g) > 9
  BY <1>1, <1>2
<1>7. \A i \in 1 .. 9 : Declares(t.g[i], i)
  BY <1>1, <1>2
<1> QED BY <1>5, <1>6, <1>7 DEF Over, Beyond

-----------------------------------------------------------------------------
(* The statements.                                                         *)

\* The nodes of a load and of a store have the type.
LEMMA LoadTyped ==
  ASSUME NEW a \in Int, NEW added \in BOOLEAN, NEW off \in Int,
         NEW n, n = [Node("Load", 0) EXCEPT !.addr = a, !.added = added, !.off = off]
  PROVE  n \in NodeType /\ n.op = "Load" /\ n.val = 0
<1> DEFINE e == Node("Load", 0)
<1>1. e \in NodeType /\ e.op = "Load" /\ e.val = 0
  BY NodeTyped DEF Simple
<1> HIDE DEF e
<1>2. [e EXCEPT !.addr = a, !.added = added, !.off = off] \in NodeType
  BY <1>1 DEF NodeType
<1> QED BY <1>1, <1>2 DEF NodeType, e

StoreNode(n, a, added, off, v) ==
  n = [Node("Store", 0) EXCEPT !.addr = a, !.added = added, !.off = off, !.val = v]

\* A store is a node.
LEMMA StoreTyped ==
  ASSUME NEW a \in Int, NEW added \in BOOLEAN, NEW off \in Int, NEW v \in Int,
         NEW n, StoreNode(n, a, added, off, v)
  PROVE  n \in NodeType /\ n.op = "Store" /\ n.val = v /\ n.addr = a
<1> DEFINE e == Node("Store", 0)
<1>1. e \in NodeType /\ e.op = "Store"
  BY NodeTyped DEF Simple
<1> HIDE DEF e
<1>2. [e EXCEPT !.addr = a, !.added = added, !.off = off, !.val = v] \in NodeType
  BY <1>1 DEF NodeType
<1>3. n = [e EXCEPT !.addr = a, !.added = added, !.off = off, !.val = v]
  BY DEF StoreNode, e
<1> QED BY <1>1, <1>2, <1>3 DEF NodeType

\* A load of a variable or through a pointer,
LEMMA LoadSound ==
  ASSUME NEW sh, NEW s, Sound(sh, s), NEW a \in Int, a > 0 => Usable(s, a),
         NEW t, t = EmitLoad(s, a, FALSE, 0)
  PROVE  /\ Sound(sh, t) /\ Steps(sh, s, t) /\ Usable(t, Len(t.g))
         /\ Len(t.g) \in Int /\ Len(t.g) > 9
<1> DEFINE n == [Node("Load", 0) EXCEPT !.addr = a, !.added = FALSE, !.off = 0]
<1>1. Built(sh, s) /\ Ready(sh, Roots, s) /\ IsState(s) /\ Over(s)
  BY DEF Sound, Ready, Built
<1>2. Steps(sh, s, t) /\ Usable(t, Len(t.g))
  BY <1>1, PlainLoad
<1>3. n \in NodeType /\ n.op = "Load" /\ n.val = 0
  <2>1. ASSUME NEW added \in BOOLEAN, NEW off \in Int,
               NEW m, m = [Node("Load", 0) EXCEPT !.addr = a, !.added = added, !.off = off]
        PROVE  m \in NodeType /\ m.op = "Load" /\ m.val = 0
    BY <2>1, LoadTyped
  <2>2. FALSE \in BOOLEAN /\ 0 \in Int
    OBVIOUS
  <2> QED BY <2>1, <2>2, Zenon
<1>4. t = Emit(s, n)
  BY DEF EmitLoad
<1> HIDE DEF n
<1>5. Adds(s, t, n)
  BY <1>1, <1>3, <1>4, EmitAdds
<1>6. Len(t.g) \in Int
  BY <1>5 DEF Adds
<1>7. n.op # "Value" /\ (n.op = "Store" => n.val # 0) /\ (n.val <= 0 \/ n.val > 9)
  BY <1>3
<1>8. Over(t) /\ Len(t.g) > 9
  BY <1>1, <1>3, <1>5, <1>7, AddedOver
<1>9. Ready(sh, Roots, t)
  BY <1>1, <1>2, StepsReady
<1> QED BY <1>2, <1>6, <1>8, <1>9 DEF Sound

\* a store of a constant or of a value read before,
LEMMA StoreSound ==
  ASSUME NEW sh, NEW s, Sound(sh, s), NEW a \in Int, a > 0 => Usable(s, a),
         NEW v \in Int, v > 0 => Usable(s, v), v <= 0 \/ v > 9, NEW t, Writes(s, t, a, v)
  PROVE  Sound(sh, t) /\ Steps(sh, s, t)
<1> DEFINE w == IF v = 0 THEN -(Len(s.g) + 1) ELSE v
           n == [Node("Store", 0) EXCEPT !.addr = a, !.added = FALSE, !.off = 0, !.val = w]
<1>1. Built(sh, s) /\ Ready(sh, Roots, s) /\ IsState(s) /\ Over(s) /\ Len(s.g) \in Nat
  BY DEF Sound, Ready, Built, IsState
<1>2. Steps(sh, s, t)
  BY <1>1, PlainStore
<1>3. w \in Int /\ w # 0 /\ (w <= 0 \/ w > 9)
  BY <1>1
<1>4. t = EmitEffect(s, n)
  BY DEF Writes, EmitStore
<1> HIDE DEF w
<1>5. n \in NodeType /\ n.op = "Store" /\ n.val = w
  <2>1. StoreNode(n, a, FALSE, 0, w)
    BY DEF StoreNode
  <2> HIDE DEF n
  <2>2. FALSE \in BOOLEAN /\ 0 \in Int /\ w \in Int
    BY <1>3
  <2>3. ASSUME NEW added \in BOOLEAN, NEW off \in Int, NEW x \in Int, StoreNode(n, a, added, off, x)
        PROVE  n \in NodeType /\ n.op = "Store" /\ n.val = x
    BY <2>3, StoreTyped, SMT
  <2> QED BY <2>1, <2>2, <2>3, Zenon
<1> HIDE DEF n
<1>6. Adds(s, t, n)
  BY <1>1, <1>4, <1>5, EffectAdds
<1>7. Over(t)
  BY <1>1, <1>3, <1>5, <1>6, AddedOver
<1>8. Ready(sh, Roots, t)
  BY <1>1, <1>2, StepsReady
<1> QED BY <1>2, <1>7, <1>8 DEF Sound

\* an allocation,
LEMMA AllocSound ==
  ASSUME NEW sh, NEW s, Sound(sh, s), NEW t, t = EmitAlloc(s)
  PROVE  Sound(sh, t) /\ Steps(sh, s, t) /\ Usable(t, t.mem) /\ t.mem \in Int /\ t.mem > 9
<1> DEFINE n == Node("Alloc", 0)
<1>1. Built(sh, s) /\ Ready(sh, Roots, s) /\ IsState(s) /\ Over(s)
  BY DEF Sound, Ready, Built
<1>2. Steps(sh, s, t) /\ Usable(t, t.mem) /\ t.mem = Len(t.g)
  BY <1>1, AllocEmitted
<1>3. n \in NodeType /\ n.op = "Alloc" /\ n.val = 0
  BY NodeTyped DEF Simple
<1>4. t = EmitEffect(s, n)
  BY DEF EmitAlloc
<1> HIDE DEF n
<1>5. Adds(s, t, n)
  BY <1>1, <1>3, <1>4, EffectAdds
<1>6. Over(t) /\ Len(t.g) > 9
  BY <1>1, <1>3, <1>5, AddedOver
<1>7. Ready(sh, Roots, t)
  BY <1>1, <1>2, StepsReady
<1>8. Len(t.g) \in Int
  BY <1>5 DEF Adds
<1> QED BY <1>2, <1>6, <1>7, <1>8 DEF Sound

\* a call that gets the value just read,
LEMMA CallSound ==
  ASSUME NEW sh, NEW s, Sound(sh, s), NEW v \in Int, Usable(s, v), v > 9, NEW t, Calls(s, t, v)
  PROVE  Sound(sh, t) /\ Steps(sh, s, t)
<1> DEFINE n == [Node("Call", 0) EXCEPT !.val = v]
<1>1. Built(sh, s) /\ Ready(sh, Roots, s) /\ IsState(s) /\ Over(s)
  BY DEF Sound, Ready, Built
<1>2. Steps(sh, s, t)
  BY <1>1, CallEmitted
<1>3. n \in NodeType /\ n.op = "Call" /\ n.val = v
  <2> DEFINE e == Node("Call", 0)
  <2>1. e \in NodeType /\ e.op = "Call"
    BY NodeTyped DEF Simple
  <2> HIDE DEF e
  <2>2. [e EXCEPT !.val = v] \in NodeType
    BY <1>1, <2>1 DEF NodeType
  <2> QED BY <2>1, <2>2 DEF NodeType, e
<1>4. t = EmitEffect(s, n)
  BY DEF Calls
<1> HIDE DEF n
<1>5. Adds(s, t, n)
  BY <1>1, <1>3, <1>4, EffectAdds
<1>6. Over(t)
  BY <1>1, <1>3, <1>5, AddedOver
<1>7. Ready(sh, Roots, t)
  BY <1>1, <1>2, StepsReady
<1> QED BY <1>2, <1>6, <1>7 DEF Sound

\* a use of it,
LEMMA UseSound ==
  ASSUME NEW sh, NEW s, Sound(sh, s), Usable(s, Len(s.g)), Len(s.g) > 9, NEW t, t = EmitUse(s)
  PROVE  Sound(sh, t) /\ Steps(sh, s, t)
<1> DEFINE n == [Node("Use", 0) EXCEPT !.val = Len(s.g)]
<1>1. Built(sh, s) /\ Ready(sh, Roots, s) /\ IsState(s) /\ Over(s) /\ Len(s.g) \in Nat
  BY DEF Sound, Ready, Built, IsState
<1>2. Steps(sh, s, t)
  BY <1>1, UseEmitted
<1>3. n \in NodeType /\ n.op = "Use" /\ n.val = Len(s.g)
  <2> DEFINE e == Node("Use", 0)
  <2>1. e \in NodeType /\ e.op = "Use"
    BY NodeTyped DEF Simple
  <2> HIDE DEF e
  <2>2. [e EXCEPT !.val = Len(s.g)] \in NodeType
    BY <1>1, <2>1 DEF NodeType
  <2> QED BY <2>1, <2>2 DEF NodeType, e
<1>4. t = Emit(s, n)
  BY DEF EmitUse
<1> HIDE DEF n
<1>5. Adds(s, t, n)
  BY <1>1, <1>3, <1>4, EmitAdds
<1>6. Over(t)
  BY <1>1, <1>3, <1>5, AddedOver
<1>7. Ready(sh, Roots, t)
  BY <1>1, <1>2, StepsReady
<1> QED BY <1>2, <1>6, <1>7 DEF Sound

\* and its increment.
Increments(s, t) == t = Emit(s, [Node("Inc", 0) EXCEPT !.val = Len(s.g)])

\* The increment is emitted beyond the declarations.
LEMMA IncSound ==
  ASSUME NEW sh, NEW s, Sound(sh, s), Usable(s, Len(s.g)), Len(s.g) > 9, NEW t, Increments(s, t)
  PROVE  /\ Sound(sh, t) /\ Steps(sh, s, t) /\ Usable(t, Len(t.g))
         /\ Len(t.g) \in Int /\ Len(t.g) > 9
<1> DEFINE n == [Node("Inc", 0) EXCEPT !.val = Len(s.g)]
<1>1. Built(sh, s) /\ Ready(sh, Roots, s) /\ IsState(s) /\ Over(s) /\ Len(s.g) \in Nat
  BY DEF Sound, Ready, Built, IsState
<1>3. n \in NodeType /\ n.op = "Inc" /\ n.val = Len(s.g) /\ n.ins = <<>> /\ n.addr = 0
  <2> DEFINE e == Node("Inc", 0)
  <2>1. e \in NodeType /\ e.op = "Inc" /\ e.ins = <<>> /\ e.addr = 0
    BY NodeTyped DEF Simple
  <2> HIDE DEF e
  <2>2. [e EXCEPT !.val = Len(s.g)] \in NodeType
    BY <1>1, <2>1 DEF NodeType
  <2> QED BY <2>1, <2>2 DEF NodeType, e
<1>4. t = Emit(s, n)
  BY DEF Increments
<1> HIDE DEF n
<1>5. MayEmit(sh, s, n)
  BY <1>1, <1>3 DEF MayEmit, Simple
<1>6. Emits(sh, s, n, t)
  BY <1>4, <1>5, Emitted, Zenon
<1>7. /\ Steps(sh, s, t) /\ DOMAIN t.g = 1 .. Len(t.g) /\ Len(t.g) \in Nat \ {0}
      /\ t.g[Len(t.g)].op = "Inc" /\ t.g[Len(t.g)].blk = t.blk
  BY <1>3, <1>6 DEF Emits, Grown, Steps
<1>8. Usable(t, Len(t.g))
  BY <1>7, LastUsable DEF ValueOps
<1>9. Adds(s, t, n)
  BY <1>1, <1>3, <1>4, EmitAdds
<1>10. Over(t) /\ Len(t.g) > 9
  BY <1>1, <1>3, <1>9, AddedOver
<1>11. Ready(sh, Roots, t)
  BY <1>1, <1>7, StepsReady
<1> QED BY <1>7, <1>8, <1>10, <1>11 DEF Sound

\* The variables' addresses can be used at any time.
LEMMA RootsSound ==
  ASSUME NEW sh, NEW s, Sound(sh, s), NEW r \in Roots
  PROVE  r \in Int /\ Usable(s, r) /\ Built(sh, s)
<1>1. Ready(sh, Roots, s) /\ Built(sh, s)
  BY DEF Sound, Ready
<1>2. r \in Int
  BY DEF Roots, Slots, Slot, P, Heap
<1> QED BY <1>1, <1>2, RootsUsable DEF Ready

\* Two pieces of a statement in a row.
LEMMA SoundTransitive ==
  ASSUME NEW sh, NEW s, NEW l, NEW t, Steps(sh, s, l), Sound(sh, t) /\ Steps(sh, l, t)
  PROVE  Sound(sh, t) /\ Steps(sh, s, t)
BY StepsTransitive

\* What statements are made of.
LEMMA KindsKnown ==
  ASSUME NEW k \in Kinds
  PROVE  \/ k[1] \in {"set", "inc", "use"} /\ k[2] \in Names
         \/ k[1] = "copy" /\ k[2] \in Names /\ k[3] \in Names
         \/ k[1] \in {"*p=c", "use *p", "p=new", "f(p)"}
<1> DEFINE One == {"set", "inc", "use"} \X Names
           Two == {<<"copy", z[1], z[2]>> : z \in Names \X Names}
           Bare == {<<"*p=c">>, <<"use *p">>, <<"p=new">>, <<"f(p)">>}
<1>1. CASE k \in One
  BY <1>1
<1>2. CASE k \in Two
  <2>1. PICK z \in Names \X Names : k = <<"copy", z[1], z[2]>>
    BY <1>2
  <2>2. ASSUME NEW S, NEW y \in S \X S PROVE y[1] \in S /\ y[2] \in S
    OBVIOUS
  <2>3. z[1] \in Names /\ z[2] \in Names
    BY <2>2, Zenon
  <2> QED BY <2>1, <2>3
<1>3. CASE k \in Bare
  <2>1. ASSUME NEW c, k = <<c>> PROVE k[1] = c
    BY <2>1
  <2>2. k = <<"*p=c">> \/ k = <<"use *p">> \/ k = <<"p=new">> \/ k = <<"f(p)">>
    BY <1>3, Zenon
  <2> QED BY <2>1, <2>2, Zenon
<1>4. Kinds = One \cup Two \cup Bare
  BY DEF Kinds
<1> HIDE DEF One, Two, Bare
<1> QED BY <1>1, <1>2, <1>3, <1>4

\* The variables are among the addresses that are there from the start.
LEMMA SlotsAreRoots ==
  ASSUME NEW x \in Names
  PROVE  Slot[x] \in Roots
BY DEF Slot, Roots, Slots, Names

\* A statement stays beyond the declarations.
LEMMA StatementSound ==
  ASSUME NEW sh, NEW s, Sound(sh, s), NEW k \in Kinds, NEW t, t = Statement(s, k)
  PROVE  Sound(sh, t) /\ Steps(sh, s, t)
<1> DEFINE lp == EmitLoad(s, P, FALSE, 0)
           Read1(x) == EmitLoad(s, Slot[x], FALSE, 0)
           a == EmitAlloc(s)
           Yields(l) == /\ Sound(sh, l) /\ Steps(sh, s, l) /\ Usable(l, Len(l.g))
                        /\ Len(l.g) \in Int /\ Len(l.g) > 9
<1>0. P \in Roots
  BY DEF Roots, Slots
<1>1. ASSUME NEW r \in Roots, NEW l, l = EmitLoad(s, r, FALSE, 0)
      PROVE  Yields(l)
  <2>1. r \in Int /\ Usable(s, r)
    BY RootsSound
  <2> QED BY <1>1, <2>1, LoadSound
<1>2. Yields(lp)
  BY <1>0, <1>1
<1>3. Sound(sh, a) /\ Steps(sh, s, a) /\ Usable(a, a.mem) /\ a.mem \in Int /\ a.mem > 9
  BY AllocSound
<1>4. ASSUME NEW x \in Names PROVE Yields(Read1(x))
  BY <1>1, SlotsAreRoots
<1> HIDE DEF lp, Read1, a
<1>5. ASSUME NEW l, Sound(sh, l), NEW r \in Roots, NEW v \in Int, v > 0 => Usable(l, v), v <= 0 \/ v > 9,
             Writes(l, t, r, v)
      PROVE  Sound(sh, t) /\ Steps(sh, l, t)
  <2>1. r \in Int /\ Usable(l, r)
    BY <1>5, RootsSound
  <2> QED BY <1>5, <2>1, StoreSound
<1>6. CASE k[1] = "set" /\ k[2] \in Names
  <2>1. Writes(s, t, Slot[k[2]], 0)
    BY <1>6 DEF Statement, Writes
  <2>2. Slot[k[2]] \in Roots
    BY <1>6, SlotsAreRoots
  <2> QED BY <1>5, <2>1, <2>2
<1>7. CASE k[1] = "copy" /\ k[2] \in Names /\ k[3] \in Names
  <2> DEFINE l == Read1(k[3])
  <2>1. Writes(l, t, Slot[k[2]], Len(l.g))
    BY <1>7 DEF Statement, Writes, Read1
  <2>2. Yields(l) /\ Slot[k[2]] \in Roots
    BY <1>4, <1>7, SlotsAreRoots
  <2> HIDE DEF l
  <2>3. Sound(sh, t) /\ Steps(sh, l, t)
    BY <1>5, <2>1, <2>2
  <2> QED BY <2>2, <2>3, SoundTransitive
<1>8. CASE k[1] = "inc" /\ k[2] \in Names
  <2> DEFINE l == Read1(k[2])
             i == Emit(l, [Node("Inc", 0) EXCEPT !.val = Len(l.g)])
  <2>1. Writes(i, t, Slot[k[2]], Len(i.g))
    BY <1>8 DEF Statement, Writes, Read1
  <2>2. Yields(l) /\ Slot[k[2]] \in Roots
    BY <1>4, <1>8, SlotsAreRoots
  <2>3. Increments(l, i)
    BY DEF Increments
  <2> HIDE DEF l, i
  <2>4. /\ Sound(sh, i) /\ Steps(sh, l, i) /\ Usable(i, Len(i.g))
        /\ Len(i.g) \in Int /\ Len(i.g) > 9
    BY <2>2, <2>3, IncSound
  <2>5. Sound(sh, t) /\ Steps(sh, i, t)
    BY <1>5, <2>1, <2>2, <2>4
  <2> QED BY <2>2, <2>4, <2>5, SoundTransitive
<1>9. CASE k[1] = "use" /\ k[2] \in Names
  <2> DEFINE l == Read1(k[2])
  <2>1. t = EmitUse(l)
    BY <1>9 DEF Statement, Read1
  <2>2. Yields(l)
    BY <1>4, <1>9
  <2> HIDE DEF l
  <2>3. Sound(sh, t) /\ Steps(sh, l, t)
    BY <2>1, <2>2, UseSound
  <2> QED BY <2>2, <2>3, SoundTransitive
<1>10. CASE k[1] = "*p=c"
  <2>1. Writes(lp, t, Len(lp.g), 0)
    BY <1>10 DEF Statement, Writes, lp
  <2>2. Sound(sh, t) /\ Steps(sh, lp, t)
    BY <1>2, <2>1, StoreSound
  <2> QED BY <1>2, <2>2, SoundTransitive
<1>11. CASE k[1] = "use *p"
  <2> DEFINE l == EmitLoad(lp, Len(lp.g), FALSE, 0)
  <2>1. t = EmitUse(l)
    BY <1>11 DEF Statement, lp
  <2>2. Sound(sh, l) /\ Steps(sh, lp, l) /\ Usable(l, Len(l.g)) /\ Len(l.g) \in Int /\ Len(l.g) > 9
    BY <1>2, LoadSound
  <2> HIDE DEF l
  <2>3. Sound(sh, t) /\ Steps(sh, l, t)
    BY <2>1, <2>2, UseSound
  <2> QED BY <1>2, <2>2, <2>3, SoundTransitive
<1>12. CASE k[1] = "p=new"
  <2>1. Writes(a, t, P, a.mem)
    BY <1>12 DEF Statement, Writes, a
  <2>2. Sound(sh, t) /\ Steps(sh, a, t)
    BY <1>0, <1>3, <1>5, <2>1
  <2> QED BY <1>3, <2>2, SoundTransitive
<1>13. CASE k[1] = "f(p)"
  <2>1. Calls(lp, t, Len(lp.g))
    BY <1>13 DEF Statement, Calls, lp
  <2>2. Sound(sh, t) /\ Steps(sh, lp, t)
    BY <1>2, <2>1, CallSound
  <2> QED BY <1>2, <2>2, SoundTransitive
<1> QED BY <1>6, <1>7, <1>8, <1>9, <1>10, <1>11, <1>12, <1>13, KindsKnown

-----------------------------------------------------------------------------
(* The declarations.                                                       *)

\* The nodes so far.
Declaring(s, k) ==
  /\ IsState(s) /\ s.mem = k /\ Len(s.g) = k /\ k \in Nat
  /\ \A j \in 1 .. k : Declares(s.g[j], j)

\* One more allocation,
LEMMA AllocDeclared ==
  ASSUME NEW s, NEW k, Declaring(s, k), k + 1 \in Roots, NEW t, t = EmitAlloc(s)
  PROVE  Declaring(t, k + 1)
<1> DEFINE n == Node("Alloc", 0)
<1>1. IsState(s) /\ s.mem = k /\ Len(s.g) = k /\ k \in Nat /\ \A j \in 1 .. k : Declares(s.g[j], j)
  BY DEF Declaring
<1>2. n \in NodeType /\ n.op = "Alloc" /\ n.val = 0
  BY NodeTyped DEF Simple
<1>3. t = EmitEffect(s, n)
  BY DEF EmitAlloc
<1> HIDE DEF n
<1>4. Adds(s, t, n) /\ IsState(t) /\ t.mem = Len(t.g)
  BY <1>1, <1>2, <1>3, EffectAdds
<1>5. /\ Len(t.g) = k + 1 /\ k + 1 \in Nat /\ \A j \in 1 .. k : t.g[j] = s.g[j]
      /\ t.g[k + 1].op = "Alloc" /\ t.g[k + 1].val = 0 /\ t.g[k + 1].mem = k
  BY <1>1, <1>2, <1>4 DEF Adds
<1>6. Declares(t.g[k + 1], k + 1)
  BY <1>1, <1>5 DEF Declares
<1>7. ASSUME NEW j \in 1 .. k + 1 PROVE Declares(t.g[j], j)
  <2>1. j = k + 1 \/ j \in 1 .. k
    BY <1>1
  <2> QED BY <2>1, <1>1, <1>5, <1>6
<1> QED BY <1>4, <1>5, <1>7 DEF Declaring

\* and one more store to the allocation just made.
LEMMA StoreDeclared ==
  ASSUME NEW s, NEW k, Declaring(s, k), k \in Nat \ {0}, k + 1 \notin Roots,
         NEW v, v = IF k + 1 = 9 THEN Heap ELSE 0, NEW t, Writes(s, t, k, v)
  PROVE  Declaring(t, k + 1)
<1> DEFINE w == IF v = 0 THEN -(Len(s.g) + 1) ELSE v
           n == [Node("Store", 0) EXCEPT !.addr = k, !.added = FALSE, !.off = 0, !.val = w]
<1>1. IsState(s) /\ s.mem = k /\ Len(s.g) = k /\ k \in Nat /\ \A j \in 1 .. k : Declares(s.g[j], j)
  BY DEF Declaring
<1>2. w \in Int /\ w = IF k + 1 = 9 THEN Heap ELSE -(k + 1)
  BY <1>1 DEF Heap
<1>3. t = EmitEffect(s, n)
  BY DEF Writes, EmitStore
<1> HIDE DEF w
<1>4. n \in NodeType /\ n.op = "Store" /\ n.val = w /\ n.addr = k
  <2>1. StoreNode(n, k, FALSE, 0, w)
    BY DEF StoreNode
  <2> HIDE DEF n
  <2>2. FALSE \in BOOLEAN /\ 0 \in Int /\ w \in Int /\ k \in Int
    BY <1>1, <1>2
  <2>3. ASSUME NEW a \in Int, NEW added \in BOOLEAN, NEW off \in Int, NEW x \in Int,
               StoreNode(n, a, added, off, x)
        PROVE  n \in NodeType /\ n.op = "Store" /\ n.val = x /\ n.addr = a
    BY <2>3, StoreTyped, SMT
  <2> QED BY <2>1, <2>2, <2>3, Zenon
<1> HIDE DEF n
<1>5. Adds(s, t, n) /\ IsState(t) /\ t.mem = Len(t.g)
  BY <1>1, <1>3, <1>4, EffectAdds
<1>6. /\ Len(t.g) = k + 1 /\ k + 1 \in Nat /\ \A j \in 1 .. k : t.g[j] = s.g[j]
      /\ t.g[k + 1].op = "Store" /\ t.g[k + 1].val = w /\ t.g[k + 1].mem = k /\ t.g[k + 1].addr = k
  BY <1>1, <1>4, <1>5 DEF Adds
<1>7. Declares(t.g[k + 1], k + 1)
  BY <1>1, <1>2, <1>6 DEF Declares
<1>8. ASSUME NEW j \in 1 .. k + 1 PROVE Declares(t.g[j], j)
  <2>1. j = k + 1 \/ j \in 1 .. k
    BY <1>1
  <2> QED BY <2>1, <1>1, <1>6, <1>7
<1> QED BY <1>5, <1>6, <1>8 DEF Declaring

Empty == [g |-> <<>>, mem |-> 0, blk |-> 0]

\* Before the first declaration nothing has been emitted.
LEMMA EmptyDeclared == Declaring(Empty, 0)
<1> DEFINE N == Seq(NodeType)
           e == <<>>
<1>1. e \in N /\ Len(e) = 0
  OBVIOUS
<1>2. Empty = [g |-> e, mem |-> 0, blk |-> 0]
  BY DEF Empty
<1> HIDE DEF N, e
<1>3. Empty \in [g : N, mem : Nat, blk : 0 .. 3] /\ Empty.g = e /\ Empty.mem = 0
  BY <1>1, <1>2
<1> QED BY <1>1, <1>3 DEF Declaring, IsState, N

\* Every program begins with the declarations.
LEMMA DeclaredSound ==
  ASSUME NEW sh
  PROVE  Sound(sh, Declared) /\ AtEntry(Declared)
<1> DEFINE s1 == EmitAlloc(Empty)
           s2 == EmitStore(s1, s1.mem, FALSE, 0, 0)
           s3 == EmitAlloc(s2)
           s4 == EmitStore(s3, s3.mem, FALSE, 0, 0)
           s5 == EmitAlloc(s4)
           s6 == EmitStore(s5, s5.mem, FALSE, 0, 0)
           s7 == EmitAlloc(s6)
           s8 == EmitAlloc(s7)
           s9 == EmitStore(s8, P, FALSE, 0, Heap)
<1>p. Declared = s9
  BY DEF Declared, Empty
<1>1. Entry(sh, {1}, s1, 1) /\ Declaring(s1, 1)
  <2>1. Entry(sh, {1}, s1, 1)
    BY FirstAlloc DEF Empty
  <2>2. 0 + 1 \in Roots /\ 0 + 1 = 1
    BY DEF Roots, Slots, Slot
  <2> HIDE DEF s1
  <2>3. Declaring(s1, 0 + 1)
    BY <2>2, EmptyDeclared, AllocDeclared DEF s1
  <2> QED BY <2>1, <2>2, <2>3
<1> HIDE DEF s1
<1>a. ASSUME NEW s, NEW S, NEW k \in {1, 3, 5}, Entry(sh, S, s, k), Declaring(s, k), k \in S,
             NEW t, t = EmitStore(s, s.mem, FALSE, 0, 0)
      PROVE  Entry(sh, S, t, k + 1) /\ Declaring(t, k + 1)
  <2>1. s.mem = k /\ k \in Nat \ {0} /\ k + 1 \notin Roots /\ k + 1 # 9 /\ 0 \in Int
    BY <1>a DEF Declaring, Roots, Slots, Slot, Heap, P
  <2>2. Writes(s, t, k, 0)
    BY <1>a, <2>1 DEF Writes
  <2>0. 0 \in Int /\ (0 > 0 => 0 \in S)
    OBVIOUS
  <2>3. Entry(sh, S, t, k + 1)
    BY <1>a, <2>0, <2>2, EntryStored
  <2>4. Declaring(t, k + 1)
    BY <1>a, <2>1, <2>2, StoreDeclared
  <2> QED BY <2>3, <2>4
<1>b. ASSUME NEW s, NEW S, NEW k \in {2, 4, 6, 7}, Entry(sh, S, s, k), Declaring(s, k),
             NEW t, t = EmitAlloc(s)
      PROVE  Entry(sh, S \cup {k + 1}, t, k + 1) /\ Declaring(t, k + 1)
  <2>1. k + 1 \in Roots
    BY DEF Roots, Slots, Slot, Heap, P
  <2>2. Entry(sh, S \cup {k + 1}, t, k + 1)
    BY <1>b, RootAdded
  <2>3. Declaring(t, k + 1)
    BY <1>b, <2>1, AllocDeclared
  <2> QED BY <2>2, <2>3
<1>2. Entry(sh, {1}, s2, 2) /\ Declaring(s2, 2)
  <2>1. Entry(sh, {1}, s2, 1 + 1) /\ Declaring(s2, 1 + 1)
    BY <1>1, <1>a
  <2> HIDE DEF s2
  <2> QED BY <2>1
<1> HIDE DEF s2
<1>3. Entry(sh, {1, 3}, s3, 3) /\ Declaring(s3, 3)
  <2>1. Entry(sh, {1} \cup {2 + 1}, s3, 2 + 1) /\ Declaring(s3, 2 + 1)
    BY <1>2, <1>b
  <2>2. {1} \cup {2 + 1} = {1, 3} /\ 2 + 1 = 3
    OBVIOUS
  <2> HIDE DEF s3
  <2> QED BY <2>1, <2>2
<1> HIDE DEF s3
<1>4. Entry(sh, {1, 3}, s4, 4) /\ Declaring(s4, 4)
  <2>0. 3 \in {1, 3, 5} /\ 3 \in {1, 3} /\ s4 = EmitStore(s3, s3.mem, FALSE, 0, 0)
    OBVIOUS
  <2> HIDE DEF s4
  <2>1. Entry(sh, {1, 3}, s4, 3 + 1) /\ Declaring(s4, 3 + 1)
    BY <1>3, <1>a, <2>0
  <2> HIDE DEF s4
  <2> QED BY <2>1
<1> HIDE DEF s4
<1>5. Entry(sh, {1, 3, 5}, s5, 5) /\ Declaring(s5, 5)
  <2>1. Entry(sh, {1, 3} \cup {4 + 1}, s5, 4 + 1) /\ Declaring(s5, 4 + 1)
    BY <1>4, <1>b
  <2>2. {1, 3} \cup {4 + 1} = {1, 3, 5} /\ 4 + 1 = 5
    OBVIOUS
  <2> HIDE DEF s5
  <2> QED BY <2>1, <2>2
<1> HIDE DEF s5
<1>6. Entry(sh, {1, 3, 5}, s6, 6) /\ Declaring(s6, 6)
  <2>0. 5 \in {1, 3, 5} /\ 5 \in {1, 3, 5} /\ s6 = EmitStore(s5, s5.mem, FALSE, 0, 0)
    OBVIOUS
  <2> HIDE DEF s6
  <2>1. Entry(sh, {1, 3, 5}, s6, 5 + 1) /\ Declaring(s6, 5 + 1)
    BY <1>5, <1>a, <2>0
  <2> HIDE DEF s6
  <2> QED BY <2>1
<1> HIDE DEF s6
<1>7. Entry(sh, {1, 3, 5, 7}, s7, 7) /\ Declaring(s7, 7)
  <2>1. Entry(sh, {1, 3, 5} \cup {6 + 1}, s7, 6 + 1) /\ Declaring(s7, 6 + 1)
    BY <1>6, <1>b
  <2>2. {1, 3, 5} \cup {6 + 1} = {1, 3, 5, 7} /\ 6 + 1 = 7
    OBVIOUS
  <2> HIDE DEF s7
  <2> QED BY <2>1, <2>2
<1> HIDE DEF s7
<1>8. Entry(sh, {1, 3, 5, 7, 8}, s8, 8) /\ Declaring(s8, 8)
  <2>1. Entry(sh, {1, 3, 5, 7} \cup {7 + 1}, s8, 7 + 1) /\ Declaring(s8, 7 + 1)
    BY <1>7, <1>b
  <2>2. {1, 3, 5, 7} \cup {7 + 1} = {1, 3, 5, 7, 8} /\ 7 + 1 = 8
    OBVIOUS
  <2> HIDE DEF s8
  <2> QED BY <2>1, <2>2
<1> HIDE DEF s8
<1>9. Entry(sh, Roots, s9, 9) /\ Declaring(s9, 9)
  <2>1. Roots = {1, 3, 5, 7, 8}
    BY DEF Roots, Slots, Slot, Heap, P
  <2>2. Writes(s8, s9, 8, Heap) /\ 8 \in Roots /\ Heap \in Int /\ Heap \in Roots
    BY <2>1 DEF Writes, P, Heap
  <2> HIDE DEF s9
  <2>3. Entry(sh, Roots, s9, 8 + 1)
    BY <1>8, <2>1, <2>2, EntryStored
  <2>4. 8 + 1 \notin Roots /\ 8 \in Nat \ {0} /\ 8 + 1 = 9
    BY <2>1
  <2>5. Declaring(s9, 8 + 1)
    BY <1>8, <2>2, <2>4, StoreDeclared
  <2> QED BY <2>3, <2>4, <2>5
<1> HIDE DEF s9
<1>10. DOMAIN s9.g = 1 .. 9 /\ s9.mem = 9 /\ \A j \in 1 .. 9 : Declares(s9.g[j], j)
  BY <1>9 DEF Declaring, IsState
<1>11. Over(s9)
  BY <1>10 DEF Over, Beyond
<1> QED BY <1>9, <1>11, <1>p DEF Entry, Sound

-----------------------------------------------------------------------------
(* The shapes of control.                                                  *)

\* What a block makes: the states after each of its statements.
Afters(x, stmts) ==
  CHOOSE A : A = [k \in 0 .. Len(stmts) |-> IF k = 0 THEN x ELSE Statement(A[k - 1], stmts[k])]

\* A block ends in the state after its last statement.
LEMMA BlockIsAfters ==
  ASSUME NEW s, NEW b, NEW m, NEW stmts, NEW x, Moves(s, x, b, m)
  PROVE  Block(Statement, s, b, m, stmts) = Afters(x, stmts)[Len(stmts)]
BY DEF Block, Afters, Moves

\* What a block has added to what was there.
Follows(s, t, b) ==
  /\ DOMAIN s.g \subseteq DOMAIN t.g /\ t.blk = b
  /\ \A i \in DOMAIN s.g : t.g[i] = s.g[i]
  /\ \A i \in DOMAIN t.g : i \notin DOMAIN s.g => t.g[i].blk = b /\ t.g[i].op # "Phi"

\* The states of a block are all ready, for as many statements as it has.
LEMMA AftersExist ==
  ASSUME NEW sh, NEW x, Sound(sh, x), NEW stmts \in Seq(Kinds)
  PROVE  Sound(sh, Afters(x, stmts)[Len(stmts)]) /\ Steps(sh, x, Afters(x, stmts)[Len(stmts)])
<1> DEFINE n == Len(stmts)
           D == {y \in [g : Seq(NodeType), mem : Nat, blk : 0 .. 3] : Sound(sh, y) /\ Steps(sh, x, y)}
           F == [y \in D \X (1 .. n) |-> Statement(y[1], stmts[y[2]])]
           A == Afters(x, stmts)
<1>0. n \in Nat /\ \A i \in 1 .. n : stmts[i] \in Kinds
  OBVIOUS
<1>1. x \in D
  <2>1. IsState(x) /\ Built(sh, x)
    BY DEF Sound, Ready, Built
  <2>2. Steps(sh, x, x)
    BY <2>1 DEF Steps, Grown
  <2> QED BY <2>1, <2>2 DEF IsState
<1>2. ASSUME NEW d \in D, NEW k \in Kinds PROVE Statement(d, k) \in D
  <2> DEFINE y == Statement(d, k)
  <2>1. Sound(sh, d) /\ Steps(sh, x, d)
    OBVIOUS
  <2>2. Sound(sh, y) /\ Steps(sh, d, y)
    BY <2>1, StatementSound
  <2> HIDE DEF y
  <2>3. Sound(sh, y) /\ Steps(sh, x, y)
    BY <2>1, <2>2, StepsTransitive
  <2>4. y \in [g : Seq(NodeType), mem : Nat, blk : 0 .. 3]
    BY <2>2 DEF Steps, Built, IsState
  <2> QED BY <2>3, <2>4 DEF y
<1> HIDE DEF D
<1>3. ASSUME NEW d \in D, NEW i \in 1 .. n
      PROVE  F[<<d, i>>] = Statement(d, stmts[i]) /\ F[<<d, i>>] \in D
  <2>1. F[<<d, i>>] = Statement(d, stmts[i])
    OBVIOUS
  <2>2. stmts[i] \in Kinds
    BY <1>0
  <2> HIDE DEF F
  <2> QED BY <2>1, <2>2, <1>2
<1> HIDE DEF F
<1>4. Advances(F, n, D)
  BY <1>3 DEF Advances
<1>5. PICK f \in [0 .. n -> D] : f[0] = x /\ \A i \in 1 .. n : f[i] = F[<<f[i - 1], i>>]
  <2> HIDE DEF n
  <2> QED BY <1>0, <1>1, <1>4, PrefixRecursion
<1>6. ASSUME NEW i \in 1 .. n PROVE f[i] = Statement(f[i - 1], stmts[i])
  <2>1. f[i - 1] \in D
    BY <1>0, <1>5
  <2> QED BY <2>1, <1>3, <1>5
<1>7. f = [k \in 0 .. n |-> IF k = 0 THEN x ELSE Statement(f[k - 1], stmts[k])]
  <2>1. \A k \in 0 .. n : f[k] = IF k = 0 THEN x ELSE Statement(f[k - 1], stmts[k])
    BY <1>0, <1>5, <1>6
  <2> QED BY <2>1, <1>5
<1>8. A = [k \in 0 .. n |-> IF k = 0 THEN x ELSE Statement(A[k - 1], stmts[k])]
  <2>1. \E B : B = [k \in 0 .. n |-> IF k = 0 THEN x ELSE Statement(B[k - 1], stmts[k])]
    BY <1>7, Zenon
  <2> QED BY <2>1, Zenon DEF Afters
<1> HIDE DEF A
<1> DEFINE T == {k \in Nat : k <= n => A[k] \in D}
<1>9. 0 \in T
  BY <1>0, <1>1, <1>8
<1>10. ASSUME NEW k \in Nat, k \in T PROVE k + 1 \in T
  <2> SUFFICES ASSUME k + 1 <= n PROVE A[k + 1] \in D
    OBVIOUS
  <2>1. k + 1 \in 1 .. n /\ A[k] \in D /\ (k + 1) - 1 = k
    BY <1>0, <1>10
  <2>2. A[k + 1] = Statement(A[k], stmts[k + 1])
    BY <2>1, <1>8
  <2> QED BY <2>1, <2>2, <1>0, <1>2
<1> HIDE DEF T
<1>11. n \in T
  BY <1>0, <1>9, <1>10, NatSetInduction
<1>12. A[n] \in D
  BY <1>0, <1>11 DEF T
<1> QED BY <1>12 DEF D, A

\* A block may begin at a version behind the declarations.
MayContinue(sh, s, b, m) == MayBegin(sh, Roots, s, b, m) /\ Beyond(s.g) /\ m >= 9

\* A block that begins so stays beyond the declarations.
LEMMA BlockBeginsSound ==
  ASSUME NEW sh, NEW s, NEW b, NEW m, MayContinue(sh, s, b, m), NEW x, Moves(s, x, b, m)
  PROVE  Sound(sh, x) /\ x.g = s.g /\ x.blk = b
<1>1. Ready(sh, Roots, x) /\ x.g = s.g /\ x.blk = b
  BY BlockBegins DEF MayContinue
<1>2. x.mem = m
  <2>1. IsState(s) /\ b \in 0 .. 3 /\ m \in Nat
    BY DEF MayContinue, MayBegin, IsState
  <2> QED BY <2>1, MovedState
<1> QED BY <1>1, <1>2 DEF MayContinue, Sound, Over

\* A block that may begin ends behind the declarations.
LEMMA BlockSound ==
  ASSUME NEW sh, NEW s, NEW b, NEW m, MayContinue(sh, s, b, m), NEW stmts \in Seq(Kinds),
         NEW t, t = Block(Statement, s, b, m, stmts)
  PROVE  Sound(sh, t) /\ Follows(s, t, b)
<1> DEFINE x == [s EXCEPT !.blk = b, !.mem = m]
<1>1. Moves(s, x, b, m)
  BY DEF Moves
<1> HIDE DEF x
<1>2. Sound(sh, x) /\ x.g = s.g /\ x.blk = b
  BY <1>1, BlockBeginsSound
<1>3. t = Afters(x, stmts)[Len(stmts)]
  BY <1>1, BlockIsAfters
<1>4. Sound(sh, t) /\ Steps(sh, x, t)
  BY <1>2, <1>3, AftersExist
<1>5. Grown(x, t)
  BY <1>4 DEF Steps
<1> QED BY <1>2, <1>4, <1>5 DEF Grown, Follows

\* What a state is that is sound.
LEMMA SoundMeans ==
  ASSUME NEW sh, NEW s, Sound(sh, s)
  PROVE  /\ IsState(s) /\ IsGraph(sh, s.g) /\ Rooted(Roots, s) /\ Beyond(s.g) /\ s.mem >= 9
         /\ s.mem \in DOMAIN s.g /\ s.g[s.mem].op \in MemOps /\ Above(sh, s.g[s.mem].blk, s.blk)
         /\ ~(sh = "loop" /\ s.blk = 1) /\ s.blk \in 0 .. 3 /\ Ready(sh, Roots, s)
<1>1. s.blk \in 0 .. 3
  BY DEF Sound, Ready, Built, IsState
<1> QED BY <1>1 DEF Sound, Ready, Built, Over

\* The bodies of the programs.
IsBody(body) == \A j \in 1 .. 4 : body[j] \in Seq(Kinds)

\* The three shapes of control: one block after another,
LEMMA LineSound ==
  ASSUME NEW sh, NEW body, IsBody(body), NEW t, t = Line(Statement, Declared, body)
  PROVE  Sound(sh, t) /\ AtEntry(t)
<1>1. Sound(sh, Declared) /\ AtEntry(Declared) /\ Declared.blk = 0
  BY DeclaredSound DEF AtEntry
<1>2. t = Block(Statement, Declared, 0, Declared.mem, body[1]) /\ body[1] \in Seq(Kinds)
  BY DEF Line, IsBody
<1>3. MayContinue(sh, Declared, 0, Declared.mem)
  BY <1>1, SoundMeans DEF MayContinue, MayBegin
<1>4. Sound(sh, t) /\ Follows(Declared, t, 0)
  BY <1>2, <1>3, BlockSound
<1>5. AtEntry(t)
  BY <1>1, <1>4 DEF AtEntry, Follows
<1> QED BY <1>4, <1>5

\* A merge of memory is as late as any other node.
LEMMA MergeOver ==
  ASSUME NEW s, Over(s), IsState(s), NEW b \in 0 .. 3, NEW m1 \in Nat, NEW m2 \in Nat,
         NEW t, Joins(s, t, b, m1, m2)
  PROVE  Over(t)
<1> DEFINE n == [Node("Phi", 0) EXCEPT !.ins = <<m1, m2>>]
           r == [s EXCEPT !.blk = b]
<1>1. n \in NodeType /\ n.op = "Phi" /\ n.val = 0
  <2> DEFINE e == Node("Phi", 0)
             I == <<m1, m2>>
  <2>1. e \in NodeType /\ e.op = "Phi" /\ e.val = 0
    BY NodeTyped DEF MemOps
  <2>2. I \in Seq(Int)
    OBVIOUS
  <2> HIDE DEF e, I
  <2>3. [e EXCEPT !.ins = I] \in NodeType
    BY <2>1, <2>2 DEF NodeType
  <2> QED BY <2>1, <2>3 DEF NodeType, e, I
<1>2. IsState(r) /\ r.g = s.g /\ r.mem = s.mem
  <2> DEFINE N == Seq(NodeType)
  <2>1. s \in [g : N, mem : Nat, blk : 0 .. 3]
    BY DEF IsState
  <2> HIDE DEF N
  <2>2. r \in [g : N, mem : Nat, blk : 0 .. 3] /\ r.g = s.g /\ r.mem = s.mem
    BY <2>1
  <2> QED BY <2>2 DEF IsState, N
<1>3. t = EmitEffect(r, n)
  BY DEF Joins
<1> HIDE DEF n, r
<1>4. Adds(r, t, n) /\ IsState(t)
  BY <1>1, <1>2, <1>3, EffectAdds
<1>5. Over(r)
  BY <1>2 DEF Over
<1> QED BY <1>1, <1>2, <1>4, <1>5, AddedOver

\* two ways that join,
LEMMA DiamondSound ==
  ASSUME NEW body, IsBody(body), NEW t, t = Diamond(Statement, Declared, body)
  PROVE  Sound("diamond", t)
<1> DEFINE sh == "diamond"
           s0 == Line(Statement, Declared, body)
           s1 == Block(Statement, s0, 1, s0.mem, body[2])
           s2 == Block(Statement, s1, 2, s0.mem, body[3])
           s3 == Merge(s2, 3, s1.mem, s2.mem)
<1>1. Sound(sh, s0) /\ AtEntry(s0)
  BY LineSound
<1>b. body[2] \in Seq(Kinds) /\ body[3] \in Seq(Kinds) /\ body[4] \in Seq(Kinds)
  BY DEF IsBody
<1>t. t = Block(Statement, s3, 3, s3.mem, body[4])
  BY DEF Diamond
<1> HIDE DEF s0
<1>2. /\ s0.mem \in DOMAIN s0.g /\ s0.g[s0.mem].op \in MemOps /\ s0.g[s0.mem].blk = 0
      /\ IsState(s0) /\ IsGraph(sh, s0.g) /\ Rooted(Roots, s0) /\ Beyond(s0.g) /\ s0.mem >= 9
  BY <1>1, SoundMeans DEF AtEntry
<1>3. MayContinue(sh, s0, 1, s0.mem)
  BY <1>2 DEF MayContinue, MayBegin, Above
<1>4. Sound(sh, s1) /\ Follows(s0, s1, 1)
  BY <1>3, <1>b, BlockSound
<1> HIDE DEF s1
<1>5. /\ s1.mem \in DOMAIN s1.g /\ s1.g[s1.mem].op \in MemOps /\ s1.g[s1.mem].blk \in {0, 1}
      /\ s0.mem \in DOMAIN s1.g /\ s1.g[s0.mem] = s0.g[s0.mem]
      /\ IsState(s1) /\ IsGraph(sh, s1.g) /\ Rooted(Roots, s1) /\ Beyond(s1.g) /\ s1.mem >= 9
  <2>1. s1.blk = 1
    BY <1>4 DEF Follows
  <2> QED BY <1>1, <1>2, <1>4, <2>1, SoundMeans DEF Follows, AtEntry, Above
<1>6. MayContinue(sh, s1, 2, s0.mem)
  BY <1>2, <1>5 DEF MayContinue, MayBegin, Above
<1>7. Sound(sh, s2) /\ Follows(s1, s2, 2)
  BY <1>6, <1>b, BlockSound
<1> HIDE DEF s2
<1>8. /\ s2.mem \in DOMAIN s2.g /\ s2.g[s2.mem].op \in MemOps /\ s2.g[s2.mem].blk \in {0, 2}
      /\ s1.mem \in DOMAIN s2.g /\ s2.g[s1.mem] = s1.g[s1.mem]
      /\ IsState(s2) /\ IsGraph(sh, s2.g) /\ Rooted(Roots, s2) /\ Beyond(s2.g) /\ s2.mem >= 9
  <2>1. s2.blk = 2
    BY <1>7 DEF Follows
  <2> QED BY <1>5, <1>7, <2>1, SoundMeans DEF Follows, Above
<1>9. MayMerge(sh, Roots, s2, 3, s1.mem, s2.mem)
  BY <1>5, <1>8 DEF MayMerge
<1>10. Ready(sh, Roots, s3) /\ s3.blk = 3
  BY <1>9, MergeReady
<1>11. Over(s3)
  <2>1. s1.mem \in Nat /\ s2.mem \in Nat
    BY <1>5, <1>8 DEF IsState
  <2>2. CASE s1.mem = s2.mem
    <3>1. Moves(s2, s3, 3, s1.mem)
      BY <2>2 DEF Merge, Moves
    <3> HIDE DEF s3
    <3>2. s3.g = s2.g /\ s3.mem = s1.mem
      BY <1>8, <2>1, <3>1, MovedState
    <3> QED BY <1>5, <1>8, <3>2 DEF Over
  <2>3. CASE s1.mem # s2.mem
    <3>1. Joins(s2, s3, 3, s1.mem, s2.mem)
      BY <2>3 DEF Merge, Joins
    <3> HIDE DEF s3
    <3>2. Over(s2)
      BY <1>8 DEF Over
    <3> QED BY <1>8, <2>1, <3>1, <3>2, MergeOver
  <2> QED BY <2>2, <2>3
<1> HIDE DEF s3
<1>12. MayContinue(sh, s3, 3, s3.mem)
  <2>1. Sound(sh, s3)
    BY <1>10, <1>11 DEF Sound
  <2> QED BY <1>10, <2>1, SoundMeans DEF MayContinue, MayBegin
<1>13. Sound(sh, t)
  BY <1>12, <1>b, <1>t, BlockSound
<1> QED BY <1>13

\* What the header's version is when the loop begins.
LEMMA HeaderBegins ==
  ASSUME NEW sh, NEW s0, Sound(sh, s0), NEW s1, NEW h, h = Len(s0.g) + 1,
         Joins(s0, s1, 1, s0.mem, h)
  PROVE  Over(s1) /\ h > 9 /\ h \in Nat /\ s0.mem >= 9
<1>1. IsState(s0) /\ Over(s0) /\ s0.mem \in Nat /\ Len(s0.g) \in Nat /\ DOMAIN s0.g = 1 .. Len(s0.g)
  BY SoundMeans DEF IsState, Over
<1>2. h \in Nat /\ 1 \in 0 .. 3 /\ s0.mem >= 9
  BY <1>1 DEF Over
<1>3. Over(s1)
  BY <1>1, <1>2, MergeOver
<1>4. 9 \in DOMAIN s0.g
  BY <1>1 DEF Over, Beyond
<1>5. h > 9
  BY <1>1, <1>4
<1> QED BY <1>2, <1>3, <1>5

\* Giving the header its second version leaves it beyond the declarations,
LEMMA ClosedOver ==
  ASSUME NEW s, IsState(s), Beyond(s.g), NEW h \in DOMAIN s.g, NEW m \in Nat, NEW t, Closes(s, t, h, m)
  PROVE  Beyond(t.g)
<1>1. /\ DOMAIN t.g = DOMAIN s.g
      /\ \A i \in DOMAIN s.g : i # h => t.g[i] = s.g[i]
      /\ t.g[h].op = s.g[h].op /\ t.g[h].mem = s.g[h].mem
      /\ t.g[h].addr = s.g[h].addr /\ t.g[h].val = s.g[h].val
  BY ClosedFields
<1>2. \A i \in DOMAIN s.g : /\ t.g[i].op = s.g[i].op /\ t.g[i].mem = s.g[i].mem
                            /\ t.g[i].addr = s.g[i].addr /\ t.g[i].val = s.g[i].val
  BY <1>1
<1>3. DOMAIN s.g = 1 .. Len(s.g) /\ Len(s.g) \in Nat
  BY DEF IsState
<1>4. 9 \in DOMAIN s.g /\ \A i \in 1 .. 9 : i \in DOMAIN s.g /\ Declares(s.g[i], i)
  BY <1>3 DEF Beyond
<1>5. \A i \in 1 .. 9 : Declares(t.g[i], i)
  BY <1>2, <1>4 DEF Declares
<1>6. \A i \in DOMAIN t.g : i > 9 => Later(t.g[i])
  BY <1>1, <1>2 DEF Beyond, Later
<1> QED BY <1>1, <1>4, <1>5, <1>6 DEF Beyond

\* and so does dropping it.
LEMMA DroppedOver ==
  ASSUME NEW s, IsState(s), Over(s), NEW h \in DOMAIN s.g, h > 9, NEW m \in Nat, m >= 9,
         NEW t, Drops(s, t, h, m)
  PROVE  Over(t)
<1>1. Dropped(s, t, h, m)
  BY DroppedFields
<1>2. /\ DOMAIN t.g = DOMAIN s.g /\ t.mem = IF s.mem = h THEN m ELSE s.mem
      /\ \A i \in DOMAIN s.g :
           /\ t.g[i].op = IF i = h THEN "Dead" ELSE s.g[i].op
           /\ t.g[i].addr = s.g[i].addr /\ t.g[i].val = s.g[i].val
           /\ t.g[i].mem = IF i # h /\ s.g[i].mem = h THEN m ELSE s.g[i].mem
  BY <1>1 DEF Dropped
<1>3. DOMAIN s.g = 1 .. Len(s.g) /\ Len(s.g) \in Nat
  BY DEF IsState
<1>4. 9 \in DOMAIN s.g /\ \A i \in 1 .. 9 : i \in DOMAIN s.g /\ Declares(s.g[i], i)
  BY <1>3 DEF Over, Beyond
<1>5. ASSUME NEW i \in 1 .. 9 PROVE Declares(t.g[i], i)
  <2>1. i \in DOMAIN s.g /\ i # h /\ s.g[i].mem = i - 1 /\ i - 1 # h
    BY <1>4 DEF Declares
  <2>2. t.g[i].op = s.g[i].op /\ t.g[i].mem = s.g[i].mem /\ t.g[i].addr = s.g[i].addr
        /\ t.g[i].val = s.g[i].val
    BY <1>2, <2>1
  <2> QED BY <1>4, <2>2 DEF Declares
<1>6. ASSUME NEW i \in DOMAIN t.g, i > 9 PROVE Later(t.g[i])
  <2>1. Later(s.g[i]) /\ i \in DOMAIN s.g
    BY <1>2, <1>6 DEF Over, Beyond
  <2> QED BY <1>2, <2>1 DEF Later
<1>7. t.mem >= 9
  BY <1>2 DEF Over
<1> QED BY <1>2, <1>4, <1>5, <1>6, <1>7 DEF Over, Beyond

\* and a loop.
LEMMA LoopSound ==
  ASSUME NEW body, IsBody(body), NEW t, t = Loop(Statement, Declared, body)
  PROVE  Sound("loop", t)
<1> DEFINE sh == "loop"
           s0 == Line(Statement, Declared, body)
           m == s0.mem
           h == Len(s0.g) + 1
           s1 == EmitEffect([s0 EXCEPT !.blk = 1], [Node("Phi", 0) EXCEPT !.ins = <<s0.mem, h>>])
           s2 == Block(Statement, s1, 2, h, body[2])
           s3 == [s2 EXCEPT !.g[h].ins = <<s0.mem, s2.mem>>]
           s4 == Block(Statement, s3, 3, h, body[4])
<1>1. Sound(sh, s0) /\ AtEntry(s0)
  BY LineSound
<1>r. Ready(sh, Roots, s0)
  BY <1>1 DEF Sound
<1>b. body[2] \in Seq(Kinds) /\ body[4] \in Seq(Kinds)
  BY DEF IsBody
<1>t. \/ t = s4
      \/ Drops(s4, t, h, m)
  BY DEF Loop, Drops
<1>2. Joins(s0, s1, 1, s0.mem, h)
  BY DEF Joins
<1> HIDE DEF s0, s1
<1>0. h = Len(s0.g) + 1
  OBVIOUS
<1>3. /\ Joined(s0, s1, 1, s0.mem, h) /\ MayBegin(sh, Roots, s1, 2, h)
      /\ s0.mem \in DOMAIN s0.g /\ s1.g[s0.mem].blk = 0 /\ s1.g[s0.mem].op \in MemOps
      /\ Over(s1) /\ h > 9 /\ h \in Nat /\ s0.mem >= 9
  <2> HIDE DEF h
  <2>1. /\ Joined(s0, s1, 1, s0.mem, h) /\ MayBegin(sh, Roots, s1, 2, h)
        /\ s0.mem \in DOMAIN s0.g /\ s1.g[s0.mem].blk = 0 /\ s1.g[s0.mem].op \in MemOps
    BY <1>0, <1>1, <1>r, <1>2, LoopOpened
  <2>2. Over(s1) /\ h > 9 /\ h \in Nat /\ s0.mem >= 9
    BY <1>0, <1>1, <1>2, HeaderBegins
  <2> QED BY <2>1, <2>2
<1>4. Header(s1, h, m)
  <2>1. /\ s1.mem = h /\ h \in Nat /\ DOMAIN s1.g = 1 .. h
        /\ DOMAIN s0.g = 1 .. Len(s0.g) /\ \A i \in DOMAIN s0.g : s1.g[i] = s0.g[i]
        /\ s1.g[h].op = "Phi" /\ s1.g[h].blk = 1 /\ s1.g[h].mem = m
    BY <1>3 DEF Joined
  <2>2. m \in DOMAIN s1.g /\ m < h /\ h \in DOMAIN s1.g
    BY <1>3, <2>1
  <2>3. \A i \in DOMAIN s1.g : s1.g[i].op = "Phi" => i = h
    BY <1>1, <2>1 DEF AtEntry
  <2> QED BY <1>3, <2>1, <2>2, <2>3 DEF Header
<1>n. m \in Nat /\ m >= 9
  BY <1>1, <1>3, SoundMeans DEF IsState
<1>c. MayContinue(sh, s1, 2, h)
  BY <1>3 DEF MayContinue, Over
<1> HIDE DEF h, m
<1>5. Sound(sh, s2) /\ Follows(s1, s2, 2)
  BY <1>c, <1>b, BlockSound
<1> HIDE DEF s2
<1>6. Header(s2, h, m) /\ Ready(sh, Roots, s2) /\ IsState(s2) /\ Beyond(s2.g)
  BY <1>4, <1>5, SoundMeans DEF Header, Follows
<1>7. Closes(s2, s3, h, m)
  BY DEF Closes, m
<1> HIDE DEF s3
<1>8. MayBegin(sh, Roots, s3, 3, h) /\ Header(s3, h, m)
  BY <1>6, <1>7, LoopClosed
<1>9. Beyond(s3.g)
  <2>1. h \in DOMAIN s2.g
    BY <1>6 DEF Header
  <2> QED BY <1>6, <1>7, <1>n, <2>1, ClosedOver
<1>10. MayContinue(sh, s3, 3, h)
  BY <1>3, <1>8, <1>9 DEF MayContinue
<1>11. Sound(sh, s4) /\ Follows(s3, s4, 3)
  BY <1>10, <1>b, BlockSound
<1> HIDE DEF s4
<1>12. Header(s4, h, m) /\ Ready(sh, Roots, s4) /\ IsState(s4) /\ Over(s4)
  BY <1>8, <1>11, SoundMeans DEF Header, Follows, Sound
<1>13. Drops(s4, t, h, m) => Sound(sh, t)
  <2> SUFFICES ASSUME Drops(s4, t, h, m) PROVE Sound(sh, t)
    OBVIOUS
  <2>1. Ready(sh, Roots, t)
    BY <1>12, LoopDropped
  <2>2. h \in DOMAIN s4.g
    BY <1>12 DEF Header
  <2>3. Over(t)
    BY <1>3, <1>12, <1>n, <2>2, DroppedOver
  <2> QED BY <2>1, <2>3 DEF Sound
<1> QED BY <1>t, <1>11, <1>13

\* The programs are of one of these.
LEMMA ShapeSound ==
  ASSUME NEW p \in Programs, NEW t, t = Shape(Statement, Declared, p.shape, p.body)
  PROVE  Sound(p.shape, t)
<1>1. p.shape \in {"line", "diamond", "loop"} /\ IsBody(p.body)
  BY ProgramsAssumption DEF IsBody
<1>2. CASE p.shape = "line"
  <2>1. t = Line(Statement, Declared, p.body)
    BY <1>2 DEF Shape
  <2> QED BY <2>1, <1>1, LineSound
<1>3. CASE p.shape = "diamond"
  <2>1. t = Diamond(Statement, Declared, p.body)
    BY <1>3 DEF Shape
  <2> QED BY <2>1, <1>1, <1>3, DiamondSound
<1>4. CASE p.shape = "loop"
  <2>1. t = Loop(Statement, Declared, p.body)
    BY <1>4 DEF Shape
  <2> QED BY <2>1, <1>1, <1>4, LoopSound
<1> QED BY <1>1, <1>2, <1>3, <1>4

\* The builder makes an intact graph of every program, beyond its declarations.
LEMMA BuildSound ==
  ASSUME NEW p \in Programs
  PROVE  IsGraph(p.shape, Build(p)) /\ Beyond(Build(p))
<1> DEFINE s == Shape(Statement, Declared, p.shape, p.body)
           n == Node("Return", 0)
           t == EmitEffect(s, n)
<1>1. Sound(p.shape, s)
  BY ShapeSound
<1>2. Build(p) = t.g
  BY DEF Build
<1> HIDE DEF s
<1>3. n \in NodeType /\ n.op = "Return" /\ n.val = 0
  BY NodeTyped DEF Simple
<1>4. n = [n EXCEPT !.val = 0]
  BY <1>3 DEF NodeType
<1>5. Returns(s, t, 0)
  BY <1>4 DEF Returns
<1> HIDE DEF n
<1>6. Built(p.shape, s) /\ IsState(s) /\ Over(s)
  BY <1>1 DEF Sound, Ready, Built
<1>7. Adds(s, t, n)
  BY <1>3, <1>6, EffectAdds
<1>8. Over(t)
  BY <1>3, <1>6, <1>7, AddedOver
<1>9. 0 \in Int /\ (0 > 0 => Usable(s, 0))
  OBVIOUS
<1> HIDE DEF t
<1>10. IsGraph(p.shape, t.g)
  BY <1>5, <1>6, <1>9, ReturnEmitted
<1> QED BY <1>2, <1>8, <1>10 DEF Over

-----------------------------------------------------------------------------
(* What the passes keep.                                                   *)

\* A slot nobody else's value names: it is initialised at once, and whatever is
\* executed later stands behind it in the memory chain.
Guarded(gr, s) ==
  /\ s \in DOMAIN gr /\ s + 1 \in DOMAIN gr
  /\ gr[s].op = "Alloc" /\ gr[s + 1].op = "Store" /\ gr[s + 1].addr = s
  /\ \A i \in DOMAIN gr : gr[i].val # s
  /\ \A i \in DOMAIN gr : i > s + 1 /\ gr[i].op # "Value" => gr[i].mem > s
  /\ \A i \in DOMAIN gr : gr[i].op = "Value" => \A k \in DOMAIN gr[i].ins : gr[i].ins[k] # s

\* Versions lead up the chain, those of live nodes to live ones; stores have values,
\* and values are made earlier, or by value phis.
IsValue(gr, v) == v \in DOMAIN gr /\ gr[v].op = "Value"
IsVersion(gr, m) == m = 0 \/ (m \in DOMAIN gr /\ gr[m].op \in MemOps)
LinkedAt(gr, i) ==
  /\ gr[i].mem \in 0 .. i - 1
  /\ gr[i].mem # 0 => gr[gr[i].mem].op \in MemOps \cup {"Dead"}
  /\ gr[i].op # "Dead" =>
       /\ IsVersion(gr, gr[i].mem)
       /\ gr[i].op = "Phi" => \A k \in DOMAIN gr[i].ins : IsVersion(gr, gr[i].ins[k])
       /\ gr[i].val < i \/ IsValue(gr, gr[i].val)
       /\ gr[i].op = "Store" => gr[i].val # 0
Linked(gr) == gr \in Seq(NodeType) /\ \A i \in DOMAIN gr : LinkedAt(gr, i)

\* Before the first promotion, all slots are guarded in an intact graph.
StoresNamed(gr) == \A i \in DOMAIN gr : gr[i].op = "Store" => gr[i].val # 0
Carried(sh, gr) == IsGraph(sh, gr) /\ StoresNamed(gr) /\ \A s \in Slots : Guarded(gr, s)

\* The four variables, each followed by its first store.
LEMMA SlotValues ==
  ASSUME NEW s \in Slots
  PROVE  s \in {1, 3, 5, 8} /\ s \in Roots /\ s + 1 \in 1 .. 9 /\ s + 1 \notin Roots /\ s # Heap
BY DEF Slots, Slot, P, Roots, Heap

\* The builder guards the slots,
LEMMA BeyondGuarded ==
  ASSUME NEW gr, DOMAIN gr = 1 .. Len(gr), Len(gr) \in Nat, Beyond(gr),
         \A i \in DOMAIN gr : gr[i].val \in Int /\ gr[i].mem \in Nat,
         NEW s \in Slots
  PROVE  Guarded(gr, s)
<1>1. s \in {1, 3, 5, 8} /\ s \in Roots /\ s + 1 \in 1 .. 9 /\ s + 1 \notin Roots /\ s # Heap
  BY SlotValues
<1>2. 9 \in DOMAIN gr /\ \A i \in 1 .. 9 : i \in DOMAIN gr /\ Declares(gr[i], i)
  BY DEF Beyond
<1>3. \A i \in DOMAIN gr : (i \in 1 .. 9 /\ Declares(gr[i], i)) \/ (i > 9 /\ Later(gr[i]))
  BY <1>2 DEF Beyond
<1>4. s \in DOMAIN gr /\ s + 1 \in DOMAIN gr /\ gr[s].op = "Alloc" /\ gr[s + 1].op = "Store"
      /\ gr[s + 1].addr = s
  <2>1. s \in 1 .. 9 /\ (s + 1) - 1 = s
    BY <1>1
  <2>2. Declares(gr[s], s) /\ Declares(gr[s + 1], s + 1)
    BY <1>1, <1>2, <2>1
  <2> QED BY <1>1, <1>2, <2>1, <2>2 DEF Declares
<1>5. ASSUME NEW i \in DOMAIN gr
      PROVE  /\ gr[i].val # s /\ gr[i].op # "Value"
             /\ i > s + 1 => gr[i].mem > s
  <2>1. CASE i \in 1 .. 9 /\ Declares(gr[i], i)
    <3>1. gr[i].op = "Alloc" \/ gr[i].op = "Store"
      BY <2>1 DEF Declares
    <3>2. gr[i].val # s
      BY <1>1, <2>1, <3>1 DEF Declares, Heap
    <3>3. gr[i].mem = i - 1
      BY <2>1 DEF Declares
    <3> QED BY <1>1, <2>1, <3>1, <3>2, <3>3
  <2>2. CASE i > 9 /\ Later(gr[i])
    BY <1>1, <2>2 DEF Later
  <2> QED BY <1>3, <2>1, <2>2
<1> QED BY <1>4, <1>5 DEF Guarded

\* so the passes begin with all slots guarded.
LEMMA BuildCarried ==
  ASSUME NEW p \in Programs
  PROVE  Carried(p.shape, Build(p))
<1> DEFINE gr == Build(p)
<1>1. IsGraph(p.shape, gr) /\ Beyond(gr)
  BY BuildSound
<1> HIDE DEF gr
<1>2. /\ DOMAIN gr = 1 .. Len(gr) /\ Len(gr) \in Nat /\ \A i \in DOMAIN gr : gr[i] \in NodeType
  BY <1>1 DEF IsGraph
<1>3. \A i \in DOMAIN gr : gr[i].val \in Int /\ gr[i].mem \in Nat
  BY <1>2 DEF NodeType
<1>4. \A s \in Slots : Guarded(gr, s)
  BY <1>1, <1>2, <1>3, BeyondGuarded
<1>5. ASSUME NEW i \in DOMAIN gr, gr[i].op = "Store" PROVE gr[i].val # 0
  <2>1. CASE i \in 1 .. 9
    <3>1. Declares(gr[i], i)
      BY <1>1, <2>1 DEF Beyond
    <3> QED BY <1>5, <2>1, <3>1 DEF Declares, Heap
  <2>2. CASE i > 9
    BY <1>1, <1>5, <2>2 DEF Beyond, Later
  <2> QED BY <1>2, <2>1, <2>2
<1> QED BY <1>1, <1>4, <1>5 DEF Carried, StoresNamed, gr

\* An intact graph whose stores have values is linked.
LEMMA CarriedLinked ==
  ASSUME NEW sh, NEW gr, Carried(sh, gr)
  PROVE  Linked(gr)
<1>1. /\ gr \in Seq(NodeType) /\ DOMAIN gr = 1 .. Len(gr) /\ Len(gr) \in Nat
      /\ \A i \in DOMAIN gr : gr[i] \in NodeType /\ ChainIntact(sh, gr, i)
                              /\ (gr[i].op # "Dead" => LiveIntact(sh, gr, i))
  BY DEF Carried, IsGraph
<1>2. ASSUME NEW i \in DOMAIN gr PROVE LinkedAt(gr, i)
  <2>1. /\ gr[i].mem \in 0 .. i - 1 /\ (gr[i].mem # 0 => gr[gr[i].mem].op \in MemOps \cup {"Dead"})
        /\ i \in Nat \ {0} /\ gr[i].val \in Int
    <3>1. gr[i].val \in Int
      BY <1>1 DEF NodeType
    <3>2. i \in Nat \ {0} /\ ChainIntact(sh, gr, i)
      BY <1>1
    <3> QED BY <3>1, <3>2 DEF ChainIntact
  <2>2. gr[i].mem # 0 => gr[i].mem \in DOMAIN gr
    BY <1>1, <2>1
  <2>3. ASSUME gr[i].op # "Dead" PROVE IsVersion(gr, gr[i].mem)
    BY <1>1, <2>1, <2>2, <2>3 DEF LiveIntact, VersionIntact, IsVersion
  <2>4. ASSUME gr[i].op = "Phi", NEW k \in DOMAIN gr[i].ins PROVE IsVersion(gr, gr[i].ins[k])
    BY <1>1, <2>4 DEF LiveIntact, PhiIntact, IsVersion
  <2>5. ASSUME gr[i].op # "Dead" PROVE gr[i].val < i
    BY <1>1, <2>1, <2>5 DEF LiveIntact, ValueIntact
  <2>6. gr[i].op = "Store" => gr[i].val # 0
    BY DEF Carried, StoresNamed
  <2> QED BY <2>1, <2>3, <2>4, <2>5, <2>6 DEF LinkedAt
<1> QED BY <1>1, <1>2 DEF Linked

-----------------------------------------------------------------------------
(* Forwarding.                                                             *)

\* A forwarded load: its uses get a value that is not a slot's address.
LEMMA ForwardCarried ==
  ASSUME NEW sh, NEW gr, Carried(sh, gr), NEW l \in DOMAIN gr, gr[l].op = "Load",
         NEW d, d = ReachingStore(gr, l), d # 0, NEW v, v = gr[d].val,
         NEW h, h = Kill(ReplaceAllUses(gr, l, v), l)
  PROVE  Carried(sh, h) /\ DOMAIN h = DOMAIN gr
<1>1. IsGraph(sh, gr) /\ gr \in Seq(NodeType) /\ DOMAIN gr = 1 .. Len(gr)
      /\ \A i \in DOMAIN gr : gr[i] \in NodeType
  BY DEF Carried, IsGraph
<1>2. d \in DOMAIN gr /\ gr[d].op = "Store" /\ v \in Int /\ ValueIntact(gr, l, v)
  BY <1>1, ReachingIntact
<1>3. v # 0 /\ \A s \in Slots : v # s
  BY <1>2 DEF Carried, StoresNamed, Guarded
<1>4. IsGraph(sh, h)
  BY <1>1, <1>2, LoadReplaced
<1>5. Replaced(h, gr, l, v)
  BY <1>1, <1>2, ReplacedFields
<1>6. DOMAIN h = DOMAIN gr
  BY <1>5 DEF Replaced
<1>7. /\ \A i \in DOMAIN gr :
           /\ h[i].op = IF i = l THEN "Dead" ELSE gr[i].op
           /\ h[i].mem = Swap(gr[i].mem, l, v) /\ h[i].addr = Swap(gr[i].addr, l, v)
           /\ h[i].val = Swap(gr[i].val, l, v)
  BY <1>5 DEF Replaced
<1>8. StoresNamed(h)
  BY <1>3, <1>6, <1>7 DEF Carried, StoresNamed, Swap
<1>9. ASSUME NEW s \in Slots PROVE Guarded(h, s)
  <2>1. Guarded(gr, s) /\ s \in Int /\ l \in Int
    BY <1>1, SlotValues DEF Carried
  <2>2. s # l /\ s + 1 # l /\ s \in DOMAIN gr /\ s + 1 \in DOMAIN gr
    BY <2>1 DEF Guarded
  <2>3. h[s].op = "Alloc" /\ h[s + 1].op = "Store" /\ h[s + 1].addr = s
    BY <1>7, <2>1, <2>2 DEF Guarded, Swap
  <2>4. \A i \in DOMAIN h : h[i].val # s
    BY <1>3, <1>6, <1>7, <2>1 DEF Guarded, Swap
  <2>5. ASSUME NEW i \in DOMAIN gr PROVE gr[i].mem # l
    <3>1. ChainIntact(sh, gr, i)
      BY <1>1 DEF IsGraph
    <3> QED BY <1>1, <3>1 DEF ChainIntact, MemOps
  <2>6. \A i \in DOMAIN gr : h[i].mem = gr[i].mem
    BY <1>7, <2>5 DEF Swap
  <2>7. \A i \in DOMAIN h : i > s + 1 /\ h[i].op # "Value" => h[i].mem > s
    BY <1>6, <1>7, <2>1, <2>6 DEF Guarded
  <2>8. ASSUME NEW i \in DOMAIN h, h[i].op = "Value", NEW k \in DOMAIN h[i].ins PROVE h[i].ins[k] # s
    <3>1. h[i].ins = <<>>
      BY <1>4, <2>8 DEF IsGraph, LiveIntact
    <3> QED BY <2>8, <3>1
  <2> QED BY <1>6, <2>2, <2>3, <2>4, <2>7, <2>8 DEF Guarded
<1> QED BY <1>4, <1>6, <1>8, <1>9 DEF Carried

\* What forwarding does at one node.
Visited(h, l) ==
  IF h[l].op # "Load" THEN h
  ELSE IF ReachingStore(h, l) = 0 \/ h[ReachingStore(h, l)].val = l THEN h
  ELSE Kill(ReplaceAllUses(h, l, h[ReachingStore(h, l)].val), l)
Visits(gr) ==
  CHOOSE A : A = [k \in 0 .. Len(gr) |-> IF k = 0 THEN gr ELSE Visited(A[k - 1], k)]

\* Forwarding visits the nodes in order.
LEMMA ForwardedIsVisits ==
  ASSUME NEW gr
  PROVE  Forwarded(gr) = Visits(gr)[Len(gr)]
BY DEF Forwarded, Visits, Visited

\* Forwarding leaves the slots guarded.
LEMMA ForwardedCarried ==
  ASSUME NEW sh, NEW gr, Carried(sh, gr)
  PROVE  Carried(sh, Forwarded(gr))
<1> DEFINE n == Len(gr)
           D == {y \in Seq(NodeType) : Carried(sh, y) /\ DOMAIN y = 1 .. n}
           F == [y \in D \X (1 .. n) |-> Visited(y[1], y[2])]
           A == Visits(gr)
<1>0. n \in Nat /\ DOMAIN gr = 1 .. n /\ gr \in D
  BY DEF Carried, IsGraph
<1>2. ASSUME NEW d \in D, NEW l \in 1 .. n PROVE Visited(d, l) \in D
  <2> DEFINE r == ReachingStore(d, l)
             v == d[r].val
             y == Kill(ReplaceAllUses(d, l, v), l)
  <2>1. Carried(sh, d) /\ DOMAIN d = 1 .. n /\ l \in DOMAIN d
    OBVIOUS
  <2>2. CASE d[l].op = "Load" /\ r # 0
    <3>1. Carried(sh, y) /\ DOMAIN y = DOMAIN d
      <4> HIDE DEF r
      <4>1. r = ReachingStore(d, l)
        BY DEF r
      <4> HIDE DEF y, v
      <4>2. v = d[r].val /\ y = Kill(ReplaceAllUses(d, l, v), l)
        BY DEF y, v
      <4> QED BY <2>1, <2>2, <4>1, <4>2, ForwardCarried
    <3> HIDE DEF y
    <3>2. y \in D
      BY <2>1, <3>1 DEF Carried, IsGraph
    <3>3. Visited(d, l) = d \/ Visited(d, l) = y
      BY DEF Visited, y
    <3> QED BY <3>2, <3>3
  <2>3. CASE d[l].op # "Load" \/ r = 0
    BY <2>3 DEF Visited
  <2> QED BY <2>2, <2>3
<1> HIDE DEF D
<1>3. ASSUME NEW d \in D, NEW i \in 1 .. n
      PROVE  F[<<d, i>>] = Visited(d, i) /\ F[<<d, i>>] \in D
  BY <1>2
<1> HIDE DEF F
<1>4. Advances(F, n, D)
  BY <1>3 DEF Advances
<1>5. PICK f \in [0 .. n -> D] : f[0] = gr /\ \A i \in 1 .. n : f[i] = F[<<f[i - 1], i>>]
  <2> HIDE DEF n
  <2> QED BY <1>0, <1>4, PrefixRecursion
<1>6. ASSUME NEW i \in 1 .. n PROVE f[i] = Visited(f[i - 1], i)
  <2>1. f[i - 1] \in D
    BY <1>0, <1>5
  <2> QED BY <2>1, <1>3, <1>5
<1>7. f = [k \in 0 .. n |-> IF k = 0 THEN gr ELSE Visited(f[k - 1], k)]
  <2>1. \A k \in 0 .. n : f[k] = IF k = 0 THEN gr ELSE Visited(f[k - 1], k)
    BY <1>0, <1>5, <1>6
  <2> QED BY <2>1, <1>5
<1>8. A = [k \in 0 .. n |-> IF k = 0 THEN gr ELSE Visited(A[k - 1], k)]
  <2>1. \E B : B = [k \in 0 .. n |-> IF k = 0 THEN gr ELSE Visited(B[k - 1], k)]
    BY <1>7, Zenon
  <2> QED BY <2>1, Zenon DEF Visits
<1> HIDE DEF A
<1> DEFINE T == {k \in Nat : k <= n => A[k] \in D}
<1>9. 0 \in T
  BY <1>0, <1>8
<1>10. ASSUME NEW k \in Nat, k \in T PROVE k + 1 \in T
  <2> SUFFICES ASSUME k + 1 <= n PROVE A[k + 1] \in D
    OBVIOUS
  <2>1. k + 1 \in 1 .. n /\ A[k] \in D /\ (k + 1) - 1 = k
    BY <1>0, <1>10
  <2>2. A[k + 1] = Visited(A[k], k + 1)
    BY <2>1, <1>8
  <2> QED BY <2>1, <2>2, <1>2
<1> HIDE DEF T
<1>11. n \in T
  BY <1>0, <1>9, <1>10, NatSetInduction
<1>12. A[n] \in D
  BY <1>0, <1>11 DEF T
<1> QED BY <1>12, ForwardedIsVisits DEF D, A

-----------------------------------------------------------------------------
(* The rewrites of promotion.                                              *)

\* What a linked graph is, node by node.
LEMMA LinkedNodes ==
  ASSUME NEW gr, Linked(gr)
  PROVE  /\ gr \in Seq(NodeType) /\ DOMAIN gr = 1 .. Len(gr) /\ Len(gr) \in Nat
         /\ \A i \in DOMAIN gr :
              /\ gr[i] \in NodeType /\ gr[i].mem \in Nat /\ gr[i].val \in Int /\ gr[i].ins \in Seq(Int)
              /\ i \in Nat \ {0} /\ LinkedAt(gr, i)
<1>1. gr \in Seq(NodeType) /\ DOMAIN gr = 1 .. Len(gr) /\ Len(gr) \in Nat
      /\ \A i \in DOMAIN gr : gr[i] \in NodeType /\ LinkedAt(gr, i)
  BY DEF Linked
<1>2. \A i \in DOMAIN gr : gr[i].mem \in Nat /\ gr[i].val \in Int /\ gr[i].ins \in Seq(Int)
  BY <1>1 DEF NodeType
<1>3. \A i \in DOMAIN gr : i \in Nat \ {0}
  BY <1>1
<1> QED BY <1>1, <1>2, <1>3

\* A value for a load: one made before it, or by a value phi.
Answers(gr, k, v) == v \in Int /\ v # 0 /\ (v < k \/ IsValue(gr, v))

\* The uses of a load are given a value for it,
LEMMA ReplacedLinked ==
  ASSUME NEW h, Linked(h), NEW k \in DOMAIN h, h[k].op \in {"Load", "Dead"},
         \A i \in DOMAIN h : h[i].mem # k, NEW v, Answers(h, k, v),
         NEW y, y = Kill(ReplaceAllUses(h, k, v), k)
  PROVE  Linked(y) /\ Replaced(y, h, k, v) /\ \A i \in DOMAIN h : y[i].mem = h[i].mem
<1>1. /\ h \in Seq(NodeType) /\ DOMAIN h = 1 .. Len(h) /\ Len(h) \in Nat
      /\ \A i \in DOMAIN h :
           /\ h[i] \in NodeType /\ h[i].mem \in Nat /\ h[i].val \in Int /\ h[i].ins \in Seq(Int)
           /\ i \in Nat \ {0} /\ LinkedAt(h, i)
  BY LinkedNodes
<1>2. v \in Int /\ v # 0 /\ (v < k \/ IsValue(h, v))
  BY DEF Answers
<1>3. Replaced(y, h, k, v)
  BY <1>1, <1>2, ReplacedFields
<1>4. /\ DOMAIN y = DOMAIN h
      /\ \A i \in DOMAIN h :
           /\ y[i].op = IF i = k THEN "Dead" ELSE h[i].op
           /\ y[i].mem = h[i].mem /\ y[i].val = Swap(h[i].val, k, v)
           /\ y[i].ins = [j \in DOMAIN h[i].ins |-> Swap(h[i].ins[j], k, v)]
  BY <1>3 DEF Replaced, Swap
<1>5. y \in Seq(NodeType)
  <2>1. \A i \in DOMAIN h : Swap(h[i].mem, k, v) \in Nat
    BY <1>1 DEF Swap
  <2> QED BY <1>1, <1>2, <2>1, ReplacedType
<1>6. ASSUME NEW m, IsVersion(h, m) PROVE IsVersion(y, m) /\ m # k
  BY <1>1, <1>4, <1>6 DEF IsVersion, MemOps
<1>7. ASSUME NEW u, IsValue(h, u) PROVE IsValue(y, u) /\ u # k
  BY <1>4, <1>7 DEF IsValue
<1>8. ASSUME NEW i \in DOMAIN y PROVE LinkedAt(y, i)
  <2>0. LinkedAt(h, i) /\ i \in DOMAIN h /\ i \in Nat \ {0}
    BY <1>1, <1>4
  <2>1. y[i].mem \in 0 .. i - 1
    BY <1>4, <2>0 DEF LinkedAt
  <2>2. y[i].mem # 0 => y[y[i].mem].op \in MemOps \cup {"Dead"}
    <3>0. y[i].mem = h[i].mem
      BY <1>4, <2>0
    <3>1. h[i].mem # 0 => h[i].mem \in DOMAIN h
      BY <1>1, <2>0 DEF LinkedAt
    <3>2. h[i].mem # 0 => h[h[i].mem].op \in MemOps \cup {"Dead"}
      BY <2>0 DEF LinkedAt
    <3> QED BY <1>4, <3>0, <3>1, <3>2
  <2>3. ASSUME y[i].op # "Dead"
        PROVE  /\ IsVersion(y, y[i].mem)
               /\ y[i].op = "Phi" => \A j \in DOMAIN y[i].ins : IsVersion(y, y[i].ins[j])
               /\ y[i].val < i \/ IsValue(y, y[i].val)
               /\ y[i].op = "Store" => y[i].val # 0
    <3>1. i # k /\ h[i].op = y[i].op /\ h[i].op # "Dead"
      BY <1>4, <2>0, <2>3
    <3>2. IsVersion(y, y[i].mem)
      <4>1. IsVersion(h, h[i].mem) /\ y[i].mem = h[i].mem
        BY <1>4, <2>0, <3>1 DEF LinkedAt
      <4> QED BY <1>6, <4>1
    <3>3. ASSUME y[i].op = "Phi", NEW j \in DOMAIN y[i].ins PROVE IsVersion(y, y[i].ins[j])
      <4>1. j \in DOMAIN h[i].ins /\ y[i].ins[j] = Swap(h[i].ins[j], k, v)
        BY <1>4, <2>0, <3>3
      <4>2. IsVersion(h, h[i].ins[j])
        BY <2>0, <3>1, <3>3, <4>1 DEF LinkedAt
      <4> QED BY <1>6, <4>1, <4>2 DEF Swap
    <3>4. y[i].val < i \/ IsValue(y, y[i].val)
      <4>1. h[i].val < i \/ IsValue(h, h[i].val)
        BY <2>0, <3>1 DEF LinkedAt
      <4>2. y[i].val = Swap(h[i].val, k, v)
        BY <1>4, <2>0
      <4>3. CASE h[i].val = k
        <5>1. y[i].val = v /\ k < i
          BY <1>7, <4>1, <4>2, <4>3 DEF Swap
        <5>2. k \in Int /\ i \in Int
          BY <1>1, <2>0
        <5> QED BY <1>2, <1>7, <5>1, <5>2
      <4>4. CASE h[i].val # k
        <5>1. y[i].val = h[i].val
          BY <4>2, <4>4 DEF Swap
        <5> QED BY <1>7, <4>1, <5>1
      <4> QED BY <4>3, <4>4
    <3>5. y[i].op = "Store" => y[i].val # 0
      BY <1>2, <1>4, <2>0, <3>1 DEF LinkedAt, Swap
    <3> QED BY <3>2, <3>3, <3>4, <3>5
  <2> QED BY <2>1, <2>2, <2>3 DEF LinkedAt
<1> QED BY <1>3, <1>4, <1>5, <1>8 DEF Linked

\* which leaves other slots guarded.
LEMMA ReplacedGuarded ==
  ASSUME NEW h, NEW k \in DOMAIN h, h[k].op \in {"Load", "Dead"}, NEW v,
         NEW y, Replaced(y, h, k, v), \A i \in DOMAIN h : y[i].mem = h[i].mem,
         NEW s \in Slots, Guarded(h, s), v # s
  PROVE  Guarded(y, s)
<1>1. /\ DOMAIN y = DOMAIN h
      /\ \A i \in DOMAIN h :
           /\ y[i].op = IF i = k THEN "Dead" ELSE h[i].op
           /\ y[i].mem = h[i].mem /\ y[i].val = Swap(h[i].val, k, v)
           /\ y[i].addr = Swap(h[i].addr, k, v)
           /\ y[i].ins = [j \in DOMAIN h[i].ins |-> Swap(h[i].ins[j], k, v)]
  BY DEF Replaced
<1>2. s # k /\ s + 1 # k /\ s \in DOMAIN h /\ s + 1 \in DOMAIN h
  BY DEF Guarded
<1>3. y[s].op = "Alloc" /\ y[s + 1].op = "Store" /\ y[s + 1].addr = s
  BY <1>1, <1>2 DEF Guarded, Swap
<1>4. \A i \in DOMAIN y : y[i].val # s
  BY <1>1 DEF Guarded, Swap
<1>5. ASSUME NEW i \in DOMAIN y, i > s + 1, y[i].op # "Value" PROVE y[i].mem > s
  <2>1. h[i].op # "Value" /\ i \in DOMAIN h
    BY <1>1, <1>5
  <2> QED BY <1>1, <1>5, <2>1 DEF Guarded
<1>6. ASSUME NEW i \in DOMAIN y, y[i].op = "Value", NEW j \in DOMAIN y[i].ins PROVE y[i].ins[j] # s
  <2>1. h[i].op = "Value" /\ i \in DOMAIN h /\ j \in DOMAIN h[i].ins
        /\ y[i].ins[j] = Swap(h[i].ins[j], k, v)
    BY <1>1, <1>6
  <2>2. h[i].ins[j] # s
    BY <2>1 DEF Guarded
  <2> QED BY <2>1, <2>2 DEF Swap
<1> QED BY <1>1, <1>2, <1>3, <1>4, <1>5, <1>6 DEF Guarded

\* A store or an allocation leaves the chain: what took its version gets the one before,
LEMMA BypassedLinked ==
  ASSUME NEW h, Linked(h), NEW k \in DOMAIN h, h[k].op \in {"Store", "Alloc", "Dead"},
         NEW y, y = Bypass(h, k)
  PROVE  Linked(y) /\ Bypassed(y, h, k, h[k].mem)
<1> DEFINE m == h[k].mem
<1>1. /\ h \in Seq(NodeType) /\ DOMAIN h = 1 .. Len(h) /\ Len(h) \in Nat
      /\ \A i \in DOMAIN h :
           /\ h[i] \in NodeType /\ h[i].mem \in Nat /\ h[i].val \in Int /\ h[i].ins \in Seq(Int)
           /\ i \in Nat \ {0} /\ LinkedAt(h, i)
  BY LinkedNodes
<1>2. m \in Nat /\ y = Kill(ReplaceUsesAsMemory(h, k, m), k)
  BY <1>1 DEF Bypass
<1>3. m \in 0 .. k - 1 /\ (m # 0 => m \in DOMAIN h /\ h[m].op \in MemOps \cup {"Dead"}) /\ m # k
  BY <1>1 DEF LinkedAt
<1>4. h[k].op # "Dead" => IsVersion(h, m)
  BY <1>1 DEF LinkedAt
<1>5. m = h[k].mem
  OBVIOUS
<1> HIDE DEF m
<1>6. Bypassed(y, h, k, m) /\ y \in Seq(NodeType)
  BY <1>1, <1>2, BypassedFields
<1>7. /\ DOMAIN y = DOMAIN h
      /\ \A i \in DOMAIN h :
           /\ y[i].op = IF i = k THEN "Dead" ELSE h[i].op
           /\ y[i].mem = Swap(h[i].mem, k, m) /\ y[i].val = h[i].val
           /\ y[i].ins = [j \in DOMAIN h[i].ins |-> Swap(h[i].ins[j], k, m)]
  BY <1>6 DEF Bypassed
<1>8. ASSUME NEW u, IsVersion(h, u) PROVE IsVersion(y, Swap(u, k, m))
  <2>1. CASE u = k
    <3>1. h[k].op # "Dead"
      BY <1>1, <1>8, <2>1 DEF IsVersion, MemOps
    <3>2. IsVersion(y, m)
      BY <1>3, <1>4, <1>7, <3>1 DEF IsVersion
    <3> QED BY <2>1, <3>2 DEF Swap
  <2>2. CASE u # k
    BY <1>7, <1>8, <2>2 DEF IsVersion, Swap
  <2> QED BY <2>1, <2>2
<1>9. ASSUME NEW u, IsValue(h, u) PROVE IsValue(y, u)
  BY <1>7, <1>9 DEF IsValue
<1>10. ASSUME NEW i \in DOMAIN y PROVE LinkedAt(y, i)
  <2>0. LinkedAt(h, i) /\ i \in DOMAIN h /\ i \in Nat \ {0} /\ k \in Nat \ {0}
    BY <1>1, <1>7
  <2>1. h[i].mem \in 0 .. i - 1 /\ (h[i].mem # 0 => h[i].mem \in DOMAIN h)
    BY <1>1, <2>0 DEF LinkedAt
  <2>2. y[i].mem \in 0 .. i - 1
    <3>1. y[i].mem = Swap(h[i].mem, k, m)
      BY <1>7, <2>0
    <3>2. CASE h[i].mem = k
      <4>1. y[i].mem = m /\ k \in 0 .. i - 1
        BY <2>1, <3>1, <3>2 DEF Swap
      <4> QED BY <1>3, <2>0, <4>1
    <3>3. CASE h[i].mem # k
      BY <2>1, <3>1, <3>3 DEF Swap
    <3> QED BY <3>2, <3>3
  <2>3. y[i].mem # 0 => y[y[i].mem].op \in MemOps \cup {"Dead"}
    <3>1. h[i].mem # 0 => h[h[i].mem].op \in MemOps \cup {"Dead"}
      BY <2>0 DEF LinkedAt
    <3>2. y[i].mem = Swap(h[i].mem, k, m)
      BY <1>7, <2>0
    <3>3. \A z \in DOMAIN h : h[z].op \in MemOps \cup {"Dead"} => y[z].op \in MemOps \cup {"Dead"}
      BY <1>7
    <3>4. CASE h[i].mem = k
      BY <1>3, <3>2, <3>3, <3>4 DEF Swap
    <3>5. CASE h[i].mem # k
      BY <2>1, <3>1, <3>2, <3>3, <3>5 DEF Swap
    <3> QED BY <3>4, <3>5
  <2>4. ASSUME y[i].op # "Dead"
        PROVE  /\ IsVersion(y, y[i].mem)
               /\ y[i].op = "Phi" => \A j \in DOMAIN y[i].ins : IsVersion(y, y[i].ins[j])
               /\ y[i].val < i \/ IsValue(y, y[i].val)
               /\ y[i].op = "Store" => y[i].val # 0
    <3>1. i # k /\ h[i].op = y[i].op /\ h[i].op # "Dead"
      BY <1>7, <2>0, <2>4
    <3>2. IsVersion(y, y[i].mem)
      <4>1. IsVersion(h, h[i].mem)
        BY <2>0, <3>1 DEF LinkedAt
      <4>2. y[i].mem = Swap(h[i].mem, k, m)
        BY <1>7, <2>0
      <4> QED BY <1>8, <4>1, <4>2
    <3>3. ASSUME y[i].op = "Phi", NEW j \in DOMAIN y[i].ins PROVE IsVersion(y, y[i].ins[j])
      <4>1. j \in DOMAIN h[i].ins /\ y[i].ins[j] = Swap(h[i].ins[j], k, m)
        BY <1>7, <2>0, <3>3
      <4>2. IsVersion(h, h[i].ins[j])
        BY <2>0, <3>1, <3>3, <4>1 DEF LinkedAt
      <4> QED BY <1>8, <4>1, <4>2
    <3>4. y[i].val < i \/ IsValue(y, y[i].val)
      BY <1>7, <1>9, <2>0, <3>1 DEF LinkedAt
    <3>5. y[i].op = "Store" => y[i].val # 0
      BY <1>7, <2>0, <3>1 DEF LinkedAt
    <3> QED BY <3>2, <3>3, <3>4, <3>5
  <2> QED BY <2>2, <2>3, <2>4 DEF LinkedAt
<1> QED BY <1>5, <1>6, <1>7, <1>10 DEF Linked

\* and a slot that is not its stays guarded.
LEMMA BypassedGuarded ==
  ASSUME NEW h, Linked(h), NEW k \in DOMAIN h, h[k].op \in {"Store", "Alloc", "Dead"},
         NEW y, Bypassed(y, h, k, h[k].mem),
         NEW s \in Slots, Guarded(h, s), k # s, k # s + 1
  PROVE  Guarded(y, s)
<1> DEFINE m == h[k].mem
<1>1. /\ DOMAIN h = 1 .. Len(h) /\ Len(h) \in Nat /\ k \in Nat \ {0} /\ LinkedAt(h, k)
      /\ \A i \in DOMAIN h : i \in Nat \ {0} /\ h[i].mem \in Nat
  BY LinkedNodes
<1>2. /\ DOMAIN y = DOMAIN h
      /\ \A i \in DOMAIN h :
           /\ y[i].op = IF i = k THEN "Dead" ELSE h[i].op
           /\ y[i].mem = Swap(h[i].mem, k, m) /\ y[i].addr = h[i].addr /\ y[i].val = h[i].val
           /\ y[i].ins = [j \in DOMAIN h[i].ins |-> Swap(h[i].ins[j], k, m)]
  BY DEF Bypassed
<1>3. s \in {1, 3, 5, 8}
  BY SlotValues
<1>4. m \in 0 .. k - 1 /\ (k > s + 1 => m > s) /\ h[k].op # "Value"
  BY <1>1 DEF LinkedAt, Guarded
<1> HIDE DEF m
<1>5. m # s
  BY <1>1, <1>3, <1>4
<1>6. s \in DOMAIN h /\ s + 1 \in DOMAIN h
  BY DEF Guarded
<1>7. y[s].op = "Alloc" /\ y[s + 1].op = "Store" /\ y[s + 1].addr = s
  BY <1>2, <1>6 DEF Guarded
<1>8. \A i \in DOMAIN y : y[i].val # s
  BY <1>2 DEF Guarded
<1>9. ASSUME NEW i \in DOMAIN y, i > s + 1, y[i].op # "Value" PROVE y[i].mem > s
  <2>1. i \in DOMAIN h /\ h[i].op # "Value" /\ y[i].mem = Swap(h[i].mem, k, m)
    BY <1>2, <1>4, <1>9
  <2>2. h[i].mem > s
    BY <1>9, <2>1 DEF Guarded
  <2>3. CASE h[i].mem = k
    <3>1. k > s + 1
      BY <1>1, <1>3, <2>2, <2>3
    <3> QED BY <1>4, <2>1, <2>3, <3>1 DEF Swap
  <2>4. CASE h[i].mem # k
    BY <2>1, <2>2, <2>4 DEF Swap
  <2> QED BY <2>3, <2>4
<1>10. ASSUME NEW i \in DOMAIN y, y[i].op = "Value", NEW j \in DOMAIN y[i].ins PROVE y[i].ins[j] # s
  <2>1. h[i].op = "Value" /\ i \in DOMAIN h /\ j \in DOMAIN h[i].ins
        /\ y[i].ins[j] = Swap(h[i].ins[j], k, m)
    BY <1>2, <1>4, <1>10
  <2>2. h[i].ins[j] # s
    BY <2>1 DEF Guarded
  <2> QED BY <1>5, <2>1, <2>2 DEF Swap
<1> QED BY <1>2, <1>6, <1>7, <1>8, <1>9, <1>10 DEF Guarded

-----------------------------------------------------------------------------
(* What the versions of memory hold for an allocation.                     *)

HoldRule(gr, a, V, m) ==
  IF m = 0 \/ m = a THEN Zero
  ELSE IF gr[m].op = "Store" /\ gr[m].addr = a THEN gr[m].val
  ELSE CASE gr[m].op = "Phi" -> Len(gr) + 1
         [] gr[m].op \in {"Alloc", "Store", "Call"} -> V[gr[m].mem]
         [] OTHER -> NoNode
Held(gr, a) == CHOOSE V : V = [m \in 0 .. Len(gr) |-> HoldRule(gr, a, V, m)]

\* What versions hold is defined by that rule.
LEMMA HoldsIsHeld ==
  ASSUME NEW gr, NEW a
  PROVE  Holds(gr, a) = Held(gr, a)
<1>1. \A V : (V = [m \in 0 .. Len(gr) |-> HoldRule(gr, a, V, m)])
               <=> (V = [m \in 0 .. Len(gr) |->
                           IF m = 0 \/ m = a THEN Zero
                           ELSE IF gr[m].op = "Store" /\ gr[m].addr = a THEN gr[m].val
                           ELSE CASE gr[m].op = "Phi" -> Len(gr) + 1
                                  [] gr[m].op \in {"Alloc", "Store", "Call"} -> V[gr[m].mem]
                                  [] OTHER -> NoNode])
  BY DEF HoldRule
<1> QED BY <1>1 DEF Holds, Held

\* The walk up the chain goes from later to earlier versions, so it has a result.
LEMMA HeldExists ==
  ASSUME NEW gr, Linked(gr), NEW a
  PROVE  \A m \in 0 .. Len(gr) : Held(gr, a)[m] = HoldRule(gr, a, Held(gr, a), m)
<1> DEFINE S == 0 .. Len(gr)
           R == [p \in [S -> Int] \X S |-> HoldRule(gr, a, p[1], p[2])]
           mu == [m \in S |-> m]
<1>1. /\ DOMAIN gr = 1 .. Len(gr) /\ Len(gr) \in Nat
      /\ \A i \in DOMAIN gr : gr[i].val \in Int /\ gr[i].mem \in 0 .. i - 1
  BY LinkedNodes DEF LinkedAt
<1>2. ASSUME NEW f \in [S -> Int], NEW m \in S
      PROVE  /\ HoldRule(gr, a, f, m) \in Int
             /\ \A h \in [S -> Int] : (\A y \in S : mu[y] < mu[m] => f[y] = h[y])
                                         => HoldRule(gr, a, f, m) = HoldRule(gr, a, h, m)
  <2>1. CASE m = 0 \/ m = a
    BY <2>1 DEF HoldRule, Zero
  <2>2. CASE m # 0 /\ m # a
    <3>1. m \in DOMAIN gr /\ gr[m].val \in Int /\ gr[m].mem \in S /\ gr[m].mem < m /\ Len(gr) + 1 \in Int
      BY <1>1, <2>2
    <3>2. f[gr[m].mem] \in Int /\ NoNode \in Int
      BY <3>1 DEF NoNode
    <3>3. HoldRule(gr, a, f, m) \in {gr[m].val, Len(gr) + 1, f[gr[m].mem], NoNode}
      BY <2>2 DEF HoldRule
    <3>4. HoldRule(gr, a, f, m) \in Int
      BY <3>1, <3>2, <3>3
    <3>5. ASSUME NEW h \in [S -> Int], \A y \in S : mu[y] < mu[m] => f[y] = h[y]
          PROVE  HoldRule(gr, a, f, m) = HoldRule(gr, a, h, m)
      <4>1. mu[gr[m].mem] < mu[m]
        BY <3>1
      <4> HIDE DEF mu, S
      <4>2. f[gr[m].mem] = h[gr[m].mem]
        BY <3>1, <3>5, <4>1
      <4> QED BY <4>2 DEF HoldRule
    <3> QED BY <3>4, <3>5
  <2> QED BY <2>1, <2>2
<1>3. \A p \in [S -> Int] \X S : R[p] = HoldRule(gr, a, p[1], p[2])
  OBVIOUS
<1>4. \A f \in [S -> Int], m \in S : R[<<f, m>>] = HoldRule(gr, a, f, m)
  BY <1>3
<1>5. mu \in [S -> Nat]
  BY <1>1
<1> HIDE DEF R, mu, S
<1>6. Local(R, S, Int, mu)
  BY <1>2, <1>4, <1>5 DEF Local
<1>7. PICK f \in [S -> Int] : \A m \in S : f[m] = R[<<f, m>>]
  <2> DEFINE D == Int
  <2>1. 0 \in D
    OBVIOUS
  <2>2. Local(R, S, D, mu)
    BY <1>6
  <2> HIDE DEF D
  <2>3. \E f \in [S -> D] : \A m \in S : f[m] = R[<<f, m>>]
    BY <2>1, <2>2, MeasuredRecursion
  <2> QED BY <2>3 DEF D
<1>8. f = [m \in S |-> HoldRule(gr, a, f, m)]
  BY <1>4, <1>7
<1>9. Held(gr, a) = [m \in S |-> HoldRule(gr, a, Held(gr, a), m)]
  <2>1. \E V : V = [m \in S |-> HoldRule(gr, a, V, m)]
    BY <1>8, Zenon
  <2> QED BY <2>1, Zenon DEF Held, S
<1> QED BY <1>9 DEF S

\* Where what a version holds comes from: a store before it, a value phi, or the
\* value phi that will be made for the merge.
HasPhi(gr) == \E i \in Live(gr) : gr[i].op = "Phi"
Sourced(gr, m, v) ==
  /\ v \in Int /\ v # 0
  /\ (v = Len(gr) + 1 /\ HasPhi(gr)) \/ v < m \/ IsValue(gr, v)
\* It is no allocation that no node names as its value.
Avoids(gr, v) == \A s \in Slots : Guarded(gr, s) => v # s

\* Every version of memory holds something for an allocation that was made before it or by
\* a value phi, and never the address of a guarded variable.
LEMMA HeldSourced ==
  ASSUME NEW gr, Linked(gr), NEW a \in Nat, NEW m, IsVersion(gr, m)
  PROVE  Sourced(gr, m, Holds(gr, a)[m]) /\ Avoids(gr, Holds(gr, a)[m])
<1> DEFINE S == 0 .. Len(gr)
           mu == [x \in S |-> x]
           V == Held(gr, a)
           T == {x \in S : IsVersion(gr, x) => Sourced(gr, x, V[x]) /\ Avoids(gr, V[x])}
<1>1. /\ DOMAIN gr = 1 .. Len(gr) /\ Len(gr) \in Nat
      /\ \A i \in DOMAIN gr : i \in Nat \ {0} /\ gr[i].val \in Int /\ LinkedAt(gr, i)
  BY LinkedNodes
<1>2. ASSUME NEW x \in S, \A y \in S : mu[y] < mu[x] => y \in T
      PROVE  x \in T
  <2> SUFFICES ASSUME IsVersion(gr, x)
               PROVE  Sourced(gr, x, V[x]) /\ Avoids(gr, V[x])
    OBVIOUS
  <2>1. V[x] = HoldRule(gr, a, V, x)
    BY HeldExists
  <2> HIDE DEF V
  <2>2. CASE x = 0 \/ x = a
    <3>1. V[x] = Zero /\ x \in Nat
      BY <1>1, <2>1, <2>2 DEF HoldRule
    <3>2. Avoids(gr, Zero)
      BY SlotValues DEF Avoids, Zero
    <3>3. Sourced(gr, x, Zero)
      BY <3>1 DEF Sourced, Zero
    <3> QED BY <3>1, <3>2, <3>3
  <2>3. CASE x # 0 /\ x # a
    <3>0. x \in DOMAIN gr /\ gr[x].op \in MemOps /\ gr[x].op # "Dead" /\ LinkedAt(gr, x)
      BY <1>1, <2>3 DEF IsVersion, MemOps
    <3>1. CASE gr[x].op = "Store" /\ gr[x].addr = a
      <4>1. V[x] = gr[x].val
        BY <2>1, <2>3, <3>1 DEF HoldRule
      <4>2. gr[x].val # 0 /\ (gr[x].val < x \/ IsValue(gr, gr[x].val)) /\ gr[x].val \in Int
        BY <1>1, <3>0, <3>1 DEF LinkedAt
      <4>3. Avoids(gr, gr[x].val)
        BY <3>0 DEF Avoids, Guarded
      <4> QED BY <4>1, <4>2, <4>3 DEF Sourced
    <3>2. CASE gr[x].op = "Phi"
      <4>1. V[x] = Len(gr) + 1
        BY <2>1, <2>3, <3>2 DEF HoldRule
      <4>2. HasPhi(gr)
        BY <3>0, <3>2 DEF HasPhi, Live
      <4>3. Avoids(gr, Len(gr) + 1)
        BY <1>1 DEF Avoids, Guarded
      <4>4. Len(gr) + 1 \in Int /\ Len(gr) + 1 # 0
        BY <1>1
      <4> QED BY <4>1, <4>2, <4>3, <4>4 DEF Sourced
    <3>3. CASE gr[x].op \in {"Alloc", "Store", "Call"} /\ ~(gr[x].op = "Store" /\ gr[x].addr = a)
      <4> DEFINE z == gr[x].mem
      <4>1. V[x] = V[z]
        BY <2>1, <2>3, <3>3 DEF HoldRule
      <4>2. z \in 0 .. x - 1 /\ IsVersion(gr, z)
        BY <3>0 DEF LinkedAt
      <4>3. z \in S /\ z < x /\ mu[z] < mu[x]
        BY <1>1, <4>2
      <4>4. Sourced(gr, z, V[z]) /\ Avoids(gr, V[z])
        <5> HIDE DEF z, mu
        <5>1. z \in T
          BY <1>2, <4>3
        <5> QED BY <4>2, <5>1
      <4> HIDE DEF z
      <4>5. Sourced(gr, x, V[z])
        <5>1. x \in Int /\ z \in Int
          BY <4>2
        <5> QED BY <4>3, <4>4, <5>1 DEF Sourced
      <4> QED BY <4>1, <4>4, <4>5
    <3> QED BY <3>0, <3>1, <3>2, <3>3 DEF MemOps
  <2> QED BY <2>2, <2>3
<1>3. mu \in [S -> Nat] /\ m \in S
  BY <1>1 DEF IsVersion
<1> HIDE DEF mu, V
<1>4. S \subseteq T
  <2> HIDE DEF T, S
  <2> QED BY <1>2, <1>3, MeasuredInduction
<1> QED BY <1>3, <1>4, HoldsIsHeld DEF V

\* A load's value answers it,
LEMMA LoadAnswered ==
  ASSUME NEW gr, Linked(gr), NEW a \in Nat, NEW l \in Loads(gr, a), NEW v, v = ValueFor(gr, a, l)
  PROVE  /\ v # NoNode /\ v # l /\ v \in Int /\ Avoids(gr, v)
         /\ v < l \/ IsValue(gr, v) \/ (v = Len(gr) + 1 /\ HasPhi(gr))
         /\ l \in DOMAIN gr /\ gr[l].op = "Load"
<1> DEFINE m == gr[l].mem
<1>1. l \in DOMAIN gr /\ gr[l].op = "Load"
  BY DEF Loads
<1>2. /\ DOMAIN gr = 1 .. Len(gr) /\ Len(gr) \in Nat /\ l \in Nat \ {0} /\ LinkedAt(gr, l)
  BY <1>1, LinkedNodes
<1>3. m \in 0 .. l - 1 /\ IsVersion(gr, m) /\ v = Holds(gr, a)[m]
  BY <1>1, <1>2 DEF LinkedAt, ValueFor
<1> HIDE DEF m
<1>4. Sourced(gr, m, v) /\ Avoids(gr, v)
  BY <1>3, HeldSourced
<1>5. /\ v \in Int /\ v # 0
      /\ (v = Len(gr) + 1 /\ HasPhi(gr)) \/ v < m \/ IsValue(gr, v)
  BY <1>4 DEF Sourced
<1>6. v # l
  BY <1>1, <1>2, <1>3, <1>5 DEF IsValue
<1>7. v < l \/ IsValue(gr, v) \/ (v = Len(gr) + 1 /\ HasPhi(gr))
  BY <1>2, <1>3, <1>5
<1> QED BY <1>1, <1>4, <1>5, <1>6, <1>7 DEF NoNode

\* and so do the inputs of the value phi.
LEMMA InputsAnswered ==
  ASSUME NEW gr, Linked(gr), NEW a \in Nat, MeetsPhi(gr, a)
  PROVE  /\ Merging(gr) \in DOMAIN gr /\ DOMAIN PhiInputs(gr, a) = DOMAIN gr[Merging(gr)].ins
         /\ \A k \in DOMAIN PhiInputs(gr, a) :
              PhiInputs(gr, a)[k] \in Int \ {NoNode} /\ Avoids(gr, PhiInputs(gr, a)[k])
<1> DEFINE i == Merging(gr)
<1>1. PICK l \in Loads(gr, a) : ValueFor(gr, a, l) = Len(gr) + 1
  BY DEF MeetsPhi
<1>2. DOMAIN gr = 1 .. Len(gr) /\ Len(gr) \in Nat
  BY LinkedNodes
<1>3. l \in 1 .. Len(gr) /\ ~IsValue(gr, Len(gr) + 1)
  BY <1>2 DEF Loads, IsValue
<1>4. HasPhi(gr)
  BY <1>1, <1>2, <1>3, LoadAnswered
<1>5. i \in Live(gr) /\ gr[i].op = "Phi"
  BY <1>4 DEF HasPhi, Merging
<1>6. i \in DOMAIN gr /\ gr[i].op # "Dead"
  BY <1>5 DEF Live
<1>7. LinkedAt(gr, i)
  BY <1>6, LinkedNodes
<1>8. PhiInputs(gr, a) = [k \in DOMAIN gr[i].ins |-> Holds(gr, a)[gr[i].ins[k]]]
  BY DEF PhiInputs
<1> HIDE DEF i
<1>9. ASSUME NEW k \in DOMAIN gr[i].ins
      PROVE  /\ Holds(gr, a)[gr[i].ins[k]] \in Int \ {NoNode}
             /\ Avoids(gr, Holds(gr, a)[gr[i].ins[k]])
  <2>1. IsVersion(gr, gr[i].ins[k])
    BY <1>5, <1>6, <1>7 DEF LinkedAt
  <2>2. Sourced(gr, gr[i].ins[k], Holds(gr, a)[gr[i].ins[k]])
        /\ Avoids(gr, Holds(gr, a)[gr[i].ins[k]])
    BY <2>1, HeldSourced
  <2> QED BY <2>2 DEF Sourced, NoNode
<1> QED BY <1>6, <1>8, <1>9 DEF i

\* No promotion is given up.
LEMMA AlwaysResolvable ==
  ASSUME NEW gr, Linked(gr), NEW a \in Nat
  PROVE  Resolvable(gr, a)
<1>1. \A l \in Loads(gr, a) : ValueFor(gr, a, l) \notin {NoNode, l}
  BY LoadAnswered
<1>2. MeetsPhi(gr, a) => \A k \in DOMAIN PhiInputs(gr, a) : PhiInputs(gr, a)[k] # NoNode
  BY InputsAnswered
<1> QED BY <1>1, <1>2 DEF Resolvable

-----------------------------------------------------------------------------
(* One promotion.                                                          *)

\* The value phi.
LEMMA ValuePhi ==
  ASSUME NEW b \in 0 .. 3, NEW I \in Seq(Int), NEW n, n = [Node("Value", b) EXCEPT !.ins = I]
  PROVE  n \in NodeType /\ n.op = "Value" /\ n.mem = 0 /\ n.val = 0 /\ n.ins = I
<1> DEFINE e == <<>>
           u == [op |-> "Value", blk |-> b, mem |-> 0, addr |-> 0, added |-> FALSE,
                 off |-> 0, val |-> 0, ins |-> e]
<1>1. e \in Seq(Int)
  OBVIOUS
<1>2. u = Node("Value", b)
  BY DEF Node
<1> HIDE DEF e
<1>3. u \in NodeType /\ u.op = "Value" /\ u.mem = 0 /\ u.val = 0
  BY <1>1 DEF NodeType
<1> HIDE DEF u
<1>4. n = [u EXCEPT !.ins = I]
  BY <1>2
<1> QED BY <1>3, <1>4 DEF NodeType

\* The other slots that are guarded.
Others(gr, a) == {s \in Slots : s # a /\ Guarded(gr, s)}

\* The graph with the value phi in it, if there is to be one.
LEMMA WithPhiLinked ==
  ASSUME NEW gr, Linked(gr), NEW a \in Nat, NEW w, w = WithPhi(gr, a)
  PROVE  /\ Linked(w) /\ DOMAIN gr \subseteq DOMAIN w
         /\ \A i \in DOMAIN gr : w[i] = gr[i]
         /\ MeetsPhi(gr, a) => IsValue(w, Len(gr) + 1)
         /\ \A s \in Others(gr, a) : Guarded(w, s)
<1>1. /\ gr \in Seq(NodeType) /\ DOMAIN gr = 1 .. Len(gr) /\ Len(gr) \in Nat
      /\ \A i \in DOMAIN gr : gr[i] \in NodeType /\ LinkedAt(gr, i)
  BY LinkedNodes
<1>2. CASE ~MeetsPhi(gr, a)
  <2>1. w = gr
    BY <1>2 DEF WithPhi
  <2> QED BY <1>2, <2>1 DEF Others
<1>3. CASE MeetsPhi(gr, a)
  <2> DEFINE j == Merging(gr)
             I == PhiInputs(gr, a)
             n == [Node("Value", gr[j].blk) EXCEPT !.ins = I]
             c == Len(gr) + 1
  <2>1. /\ j \in DOMAIN gr /\ DOMAIN I = DOMAIN gr[j].ins
        /\ \A k \in DOMAIN I : I[k] \in Int /\ Avoids(gr, I[k])
    BY <1>3, InputsAnswered
  <2>2. w = Append(gr, n)
    BY <1>3 DEF WithPhi
  <2>f. I = [k \in DOMAIN I |-> I[k]]
    BY DEF PhiInputs
  <2> HIDE DEF j, I
  <2>3. gr[j].blk \in 0 .. 3 /\ gr[j].ins \in Seq(Int)
    BY <1>1, <2>1 DEF NodeType
  <2>4. I \in Seq(Int)
    <3>1. DOMAIN I = 1 .. Len(gr[j].ins) /\ Len(gr[j].ins) \in Nat
      BY <2>1, <2>3
    <3>2. I \in [1 .. Len(gr[j].ins) -> Int]
      BY <2>1, <2>f, <3>1
    <3> QED BY <3>1, <3>2, SequenceOf
  <2>5. n \in NodeType /\ n.op = "Value" /\ n.mem = 0 /\ n.val = 0 /\ n.ins = I
    BY <2>3, <2>4, ValuePhi
  <2> HIDE DEF n
  <2>6. /\ w \in Seq(NodeType) /\ DOMAIN w = 1 .. c /\ w[c] = n
        /\ \A i \in DOMAIN gr : w[i] = gr[i]
    BY <1>1, <2>2, <2>5
  <2>7. DOMAIN gr \subseteq DOMAIN w /\ c \in DOMAIN w /\ c \notin DOMAIN gr /\ c \in Nat \ {0}
        /\ \A i \in DOMAIN w : i \in DOMAIN gr \/ i = c
    BY <1>1, <2>6
  <2> HIDE DEF c
  <2>8. IsValue(w, c)
    BY <2>5, <2>6, <2>7 DEF IsValue
  <2>9. LinkedAt(w, c)
    BY <2>5, <2>6, <2>7 DEF LinkedAt, IsVersion
  <2>10. ASSUME NEW i \in DOMAIN gr PROVE LinkedAt(w, i)
    <3>1. w[i] = gr[i] /\ LinkedAt(gr, i)
      BY <1>1, <2>6
    <3>2. \A m : IsVersion(gr, m) => IsVersion(w, m)
      BY <2>6, <2>7 DEF IsVersion
    <3>3. \A v : IsValue(gr, v) => IsValue(w, v)
      BY <2>6, <2>7 DEF IsValue
    <3>4. gr[i].mem # 0 => w[gr[i].mem].op \in MemOps \cup {"Dead"}
      <4>1. gr[i].mem # 0 => gr[i].mem \in DOMAIN gr
        BY <1>1, <3>1 DEF LinkedAt
      <4> QED BY <2>6, <3>1, <4>1 DEF LinkedAt
    <3> QED BY <3>1, <3>2, <3>3, <3>4 DEF LinkedAt
  <2>11. Linked(w)
    BY <2>6, <2>7, <2>9, <2>10 DEF Linked
  <2>12. ASSUME NEW s \in Others(gr, a) PROVE Guarded(w, s)
    <3>1. s \in Slots /\ Guarded(gr, s) /\ s # 0
      BY SlotValues DEF Others
    <3>2. /\ s \in DOMAIN w /\ s + 1 \in DOMAIN w
          /\ w[s].op = "Alloc" /\ w[s + 1].op = "Store" /\ w[s + 1].addr = s
      BY <2>6, <2>7, <3>1 DEF Guarded
    <3>3. \A i \in DOMAIN w : w[i].val # s
      BY <2>5, <2>6, <2>7, <3>1 DEF Guarded
    <3>4. \A i \in DOMAIN w : i > s + 1 /\ w[i].op # "Value" => w[i].mem > s
      BY <2>5, <2>6, <2>7, <3>1 DEF Guarded
    <3>5. ASSUME NEW i \in DOMAIN w, w[i].op = "Value", NEW k \in DOMAIN w[i].ins PROVE w[i].ins[k] # s
      <4>1. CASE i \in DOMAIN gr
        <5>1. w[i] = gr[i]
          BY <2>6, <4>1
        <5> QED BY <3>1, <3>5, <4>1, <5>1 DEF Guarded
      <4>2. CASE i = c
        <5>1. w[i].ins = I
          BY <2>5, <2>6, <4>2
        <5> QED BY <2>1, <3>1, <3>5, <5>1 DEF Avoids
      <4> QED BY <2>7, <4>1, <4>2
    <3> QED BY <3>2, <3>3, <3>4, <3>5 DEF Guarded
  <2> QED BY <2>6, <2>7, <2>8, <2>11, <2>12 DEF c
<1> QED BY <1>2, <1>3

\* What the rewrites of a promotion make of a graph w: they kill operations of some
\* kinds, and leave the slots in G guarded.
Reduced(h, w, G, ops) ==
  /\ Linked(h) /\ DOMAIN h = DOMAIN w
  /\ \A i \in DOMAIN w : h[i].op = w[i].op \/ (w[i].op \in ops /\ h[i].op = "Dead")
  /\ \A s \in G : Guarded(h, s)

\* What promotion does at one load, and at one store.
LoadStep(gr, a, h, k) ==
  IF k \in Loads(gr, a) THEN Kill(ReplaceAllUses(h, k, ValueFor(gr, a, k)), k) ELSE h
LoadSteps(gr, a) ==
  CHOOSE A : A = [k \in 0 .. Len(gr) |-> IF k = 0 THEN WithPhi(gr, a) ELSE LoadStep(gr, a, A[k - 1], k)]
StoreStep(gr, a, h, k) == IF k \in Stores(gr, a) THEN Bypass(h, k) ELSE h
StoreSteps(gr, a) ==
  CHOOSE A : A = [k \in 0 .. Len(gr) |-> IF k = 0 THEN LoadsReplaced(gr, a)
                                         ELSE StoreStep(gr, a, A[k - 1], k)]

\* Promotion takes the loads in order, then the stores, then the allocation.
LEMMA PromotedIsSteps ==
  ASSUME NEW gr, NEW a
  PROVE  /\ LoadsReplaced(gr, a) = LoadSteps(gr, a)[Len(gr)]
         /\ Promoted(gr, a) = Bypass(StoreSteps(gr, a)[Len(gr)], a)
<1>1. LoadsReplaced(gr, a) = LoadSteps(gr, a)[Len(gr)]
  BY DEF LoadsReplaced, LoadSteps, LoadStep
<1>2. Promoted(gr, a) = Bypass(StoreSteps(gr, a)[Len(gr)], a)
  BY DEF Promoted, StoreSteps, StoreStep
<1> QED BY <1>1, <1>2

\* A load is replaced by its value.
LoadsGone(h, gr, a) ==
  /\ Reduced(h, WithPhi(gr, a), Others(gr, a), {"Load"})
  /\ \A i \in DOMAIN h : h[i].mem = WithPhi(gr, a)[i].mem

\* One load less: the graph stays linked and the other variables guarded.
LEMMA LoadStepKeeps ==
  ASSUME NEW gr, Linked(gr), NEW a \in Nat, NEW h, LoadsGone(h, gr, a), NEW k
  PROVE  LoadsGone(LoadStep(gr, a, h, k), gr, a)
<1> DEFINE w == WithPhi(gr, a)
           v == ValueFor(gr, a, k)
           y == Kill(ReplaceAllUses(h, k, v), k)
<1>1. /\ Linked(w) /\ DOMAIN gr \subseteq DOMAIN w /\ \A i \in DOMAIN gr : w[i] = gr[i]
      /\ MeetsPhi(gr, a) => IsValue(w, Len(gr) + 1)
  BY WithPhiLinked
<1> HIDE DEF w
<1>2. /\ Linked(h) /\ DOMAIN h = DOMAIN w /\ \A s \in Others(gr, a) : Guarded(h, s)
      /\ \A i \in DOMAIN w : h[i].op = w[i].op \/ (w[i].op = "Load" /\ h[i].op = "Dead")
      /\ \A i \in DOMAIN w : h[i].mem = w[i].mem
  BY DEF LoadsGone, Reduced, w
<1>3. CASE k \notin Loads(gr, a)
  BY <1>3 DEF LoadStep
<1>4. CASE k \in Loads(gr, a)
  <2>1. /\ v # NoNode /\ v # k /\ v \in Int /\ Avoids(gr, v)
        /\ v < k \/ IsValue(gr, v) \/ v = Len(gr) + 1
        /\ k \in DOMAIN gr /\ gr[k].op = "Load"
    BY <1>4, LoadAnswered
  <2>2. v = Len(gr) + 1 => MeetsPhi(gr, a)
    BY <1>4 DEF MeetsPhi
  <2>3. LoadStep(gr, a, h, k) = y
    BY <1>4 DEF LoadStep
  <2>4. y = Kill(ReplaceAllUses(h, k, v), k)
    OBVIOUS
  <2> HIDE DEF v, y
  <2>5. k \in DOMAIN w /\ k \in DOMAIN h /\ w[k].op = "Load" /\ h[k].op \in {"Load", "Dead"}
    BY <1>1, <1>2, <2>1
  <2>6. Answers(h, k, v)
    <3>1. IsValue(gr, v) => IsValue(w, v)
      BY <1>1 DEF IsValue
    <3>2. IsValue(w, v) => IsValue(h, v)
      BY <1>2 DEF IsValue
    <3> QED BY <1>1, <2>1, <2>2, <3>1, <3>2 DEF Answers, NoNode
  <2>7. ASSUME NEW i \in DOMAIN h PROVE h[i].mem # k
    <3>1. LinkedAt(w, i) /\ h[i].mem = w[i].mem /\ k # 0
      BY <1>1, <1>2, <2>5, LinkedNodes
    <3> QED BY <2>5, <3>1 DEF LinkedAt, MemOps
  <2>8. Linked(y) /\ Replaced(y, h, k, v) /\ \A i \in DOMAIN h : y[i].mem = h[i].mem
    BY <1>2, <2>4, <2>5, <2>6, <2>7, ReplacedLinked
  <2>9. ASSUME NEW s \in Others(gr, a) PROVE Guarded(y, s)
    <3>1. s \in Slots /\ Guarded(h, s) /\ v # s
      BY <1>2, <2>1 DEF Others, Avoids
    <3> QED BY <2>5, <2>8, <3>1, ReplacedGuarded
  <2>10. DOMAIN y = DOMAIN w /\ \A i \in DOMAIN w : y[i].op = IF i = k THEN "Dead" ELSE h[i].op
    BY <1>2, <2>8 DEF Replaced
  <2>11. \A i \in DOMAIN w : y[i].op = w[i].op \/ (w[i].op = "Load" /\ y[i].op = "Dead")
    BY <1>2, <2>5, <2>10
  <2>12. \A i \in DOMAIN y : y[i].mem = w[i].mem
    BY <1>2, <2>8, <2>10
  <2> QED BY <2>3, <2>8, <2>9, <2>10, <2>11, <2>12 DEF LoadsGone, Reduced, w
<1> QED BY <1>3, <1>4

\* A store is taken out of the chain.
LEMMA StoreStepKeeps ==
  ASSUME NEW gr, Linked(gr), NEW a \in Nat, NEW x, NEW h, Reduced(h, x, Others(gr, a), {"Store"}),
         \A i \in Stores(gr, a) : i \in DOMAIN x /\ x[i].op = "Store", NEW k
  PROVE  Reduced(StoreStep(gr, a, h, k), x, Others(gr, a), {"Store"})
<1> DEFINE y == Bypass(h, k)
<1>1. /\ Linked(h) /\ DOMAIN h = DOMAIN x /\ \A s \in Others(gr, a) : Guarded(h, s)
      /\ \A i \in DOMAIN x : h[i].op = x[i].op \/ (x[i].op = "Store" /\ h[i].op = "Dead")
  BY DEF Reduced
<1>2. CASE k \notin Stores(gr, a)
  BY <1>2 DEF StoreStep
<1>3. CASE k \in Stores(gr, a)
  <2>1. k \in DOMAIN h /\ x[k].op = "Store" /\ h[k].op \in {"Store", "Alloc", "Dead"}
    BY <1>1, <1>3
  <2>2. StoreStep(gr, a, h, k) = y /\ y = Bypass(h, k)
    BY <1>3 DEF StoreStep
  <2> HIDE DEF y
  <2>3. Linked(y) /\ Bypassed(y, h, k, h[k].mem)
    BY <1>1, <2>1, <2>2, BypassedLinked
  <2>4. ASSUME NEW s \in Others(gr, a) PROVE Guarded(y, s)
    <3>1. s \in Slots /\ Guarded(h, s) /\ s # a /\ Guarded(gr, s)
      BY <1>1 DEF Others
    <3>2. k # s /\ k # s + 1
      BY <1>3, <2>1, <3>1 DEF Guarded, Stores
    <3> QED BY <1>1, <2>1, <2>3, <3>1, <3>2, BypassedGuarded
  <2>5. DOMAIN y = DOMAIN x /\ \A i \in DOMAIN x : y[i].op = IF i = k THEN "Dead" ELSE h[i].op
    BY <1>1, <2>3 DEF Bypassed
  <2>6. \A i \in DOMAIN x : y[i].op = x[i].op \/ (x[i].op = "Store" /\ y[i].op = "Dead")
    BY <1>1, <2>1, <2>5
  <2> QED BY <2>2, <2>3, <2>4, <2>5, <2>6 DEF Reduced
<1> QED BY <1>2, <1>3

\* All the loads,
LEMMA LoadsAllGone ==
  ASSUME NEW gr, Linked(gr), NEW a \in Nat
  PROVE  LoadsGone(LoadsReplaced(gr, a), gr, a)
<1> DEFINE n == Len(gr)
           w == WithPhi(gr, a)
           D == {y \in Seq(NodeType) : LoadsGone(y, gr, a)}
           F == [y \in D \X (1 .. n) |-> LoadStep(gr, a, y[1], y[2])]
           A == LoadSteps(gr, a)
<1>0. n \in Nat /\ Linked(w) /\ \A s \in Others(gr, a) : Guarded(w, s)
  BY LinkedNodes, WithPhiLinked
<1> HIDE DEF w
<1>1. w \in D
  BY <1>0 DEF LoadsGone, Reduced, w, Linked
<1>2. ASSUME NEW d \in D, NEW k \in 1 .. n PROVE LoadStep(gr, a, d, k) \in D
  <2> DEFINE y == LoadStep(gr, a, d, k)
  <2>1. LoadsGone(y, gr, a)
    BY LoadStepKeeps
  <2> HIDE DEF y
  <2>2. y \in Seq(NodeType)
    BY <2>1 DEF LoadsGone, Reduced, Linked
  <2> QED BY <2>1, <2>2 DEF y
<1> HIDE DEF D
<1>3. ASSUME NEW d \in D, NEW i \in 1 .. n
      PROVE  F[<<d, i>>] = LoadStep(gr, a, d, i) /\ F[<<d, i>>] \in D
  BY <1>2
<1> HIDE DEF F
<1>4. Advances(F, n, D)
  BY <1>3 DEF Advances
<1>5. PICK f \in [0 .. n -> D] : f[0] = w /\ \A i \in 1 .. n : f[i] = F[<<f[i - 1], i>>]
  <2> HIDE DEF n
  <2> QED BY <1>0, <1>1, <1>4, PrefixRecursion
<1>6. ASSUME NEW i \in 1 .. n PROVE f[i] = LoadStep(gr, a, f[i - 1], i)
  <2>1. f[i - 1] \in D
    BY <1>0, <1>5
  <2> QED BY <2>1, <1>3, <1>5
<1>7. f = [k \in 0 .. n |-> IF k = 0 THEN w ELSE LoadStep(gr, a, f[k - 1], k)]
  <2>1. \A k \in 0 .. n : f[k] = IF k = 0 THEN w ELSE LoadStep(gr, a, f[k - 1], k)
    BY <1>0, <1>5, <1>6
  <2> QED BY <2>1, <1>5
<1>8. A = [k \in 0 .. n |-> IF k = 0 THEN w ELSE LoadStep(gr, a, A[k - 1], k)]
  <2>1. \E B : B = [k \in 0 .. n |-> IF k = 0 THEN w ELSE LoadStep(gr, a, B[k - 1], k)]
    BY <1>7, Zenon
  <2> QED BY <2>1, Zenon DEF LoadSteps, w
<1> HIDE DEF A
<1> DEFINE T == {k \in Nat : k <= n => A[k] \in D}
<1>9. 0 \in T
  BY <1>0, <1>1, <1>8
<1>10. ASSUME NEW k \in Nat, k \in T PROVE k + 1 \in T
  <2> SUFFICES ASSUME k + 1 <= n PROVE A[k + 1] \in D
    OBVIOUS
  <2>1. k + 1 \in 1 .. n /\ A[k] \in D /\ (k + 1) - 1 = k
    BY <1>0, <1>10
  <2>2. A[k + 1] = LoadStep(gr, a, A[k], k + 1)
    BY <2>1, <1>8
  <2> QED BY <2>1, <2>2, <1>2
<1> HIDE DEF T
<1>11. n \in T
  BY <1>0, <1>9, <1>10, NatSetInduction
<1>12. A[n] \in D
  BY <1>0, <1>11 DEF T
<1> QED BY <1>12, PromotedIsSteps DEF D, A

\* all the stores,
LEMMA StoresAllGone ==
  ASSUME NEW gr, Linked(gr), NEW a \in Nat, NEW x, Reduced(x, x, Others(gr, a), {"Store"}),
         \A i \in Stores(gr, a) : i \in DOMAIN x /\ x[i].op = "Store", x = LoadsReplaced(gr, a)
  PROVE  Reduced(StoreSteps(gr, a)[Len(gr)], x, Others(gr, a), {"Store"})
<1> DEFINE n == Len(gr)
           D == {y \in Seq(NodeType) : Reduced(y, x, Others(gr, a), {"Store"})}
           F == [y \in D \X (1 .. n) |-> StoreStep(gr, a, y[1], y[2])]
           A == StoreSteps(gr, a)
<1>0. n \in Nat
  BY LinkedNodes
<1>1. x \in D
  BY DEF Reduced, Linked
<1>2. ASSUME NEW d \in D, NEW k \in 1 .. n PROVE StoreStep(gr, a, d, k) \in D
  <2> DEFINE y == StoreStep(gr, a, d, k)
  <2>1. Reduced(y, x, Others(gr, a), {"Store"})
    BY StoreStepKeeps
  <2> HIDE DEF y
  <2>2. y \in Seq(NodeType)
    BY <2>1 DEF Reduced, Linked
  <2> QED BY <2>1, <2>2 DEF y
<1> HIDE DEF D
<1>3. ASSUME NEW d \in D, NEW i \in 1 .. n
      PROVE  F[<<d, i>>] = StoreStep(gr, a, d, i) /\ F[<<d, i>>] \in D
  BY <1>2
<1> HIDE DEF F
<1>4. Advances(F, n, D)
  BY <1>3 DEF Advances
<1>5. PICK f \in [0 .. n -> D] : f[0] = x /\ \A i \in 1 .. n : f[i] = F[<<f[i - 1], i>>]
  <2> HIDE DEF n
  <2> QED BY <1>0, <1>1, <1>4, PrefixRecursion
<1>6. ASSUME NEW i \in 1 .. n PROVE f[i] = StoreStep(gr, a, f[i - 1], i)
  <2>1. f[i - 1] \in D
    BY <1>0, <1>5
  <2> QED BY <2>1, <1>3, <1>5
<1>7. f = [k \in 0 .. n |-> IF k = 0 THEN x ELSE StoreStep(gr, a, f[k - 1], k)]
  <2>1. \A k \in 0 .. n : f[k] = IF k = 0 THEN x ELSE StoreStep(gr, a, f[k - 1], k)
    BY <1>0, <1>5, <1>6
  <2> QED BY <2>1, <1>5
<1>8. A = [k \in 0 .. n |-> IF k = 0 THEN x ELSE StoreStep(gr, a, A[k - 1], k)]
  <2>1. \E B : B = [k \in 0 .. n |-> IF k = 0 THEN x ELSE StoreStep(gr, a, B[k - 1], k)]
    BY <1>7, Zenon
  <2> QED BY <2>1, Zenon DEF StoreSteps
<1> HIDE DEF A
<1> DEFINE T == {k \in Nat : k <= n => A[k] \in D}
<1>9. 0 \in T
  BY <1>0, <1>1, <1>8
<1>10. ASSUME NEW k \in Nat, k \in T PROVE k + 1 \in T
  <2> SUFFICES ASSUME k + 1 <= n PROVE A[k + 1] \in D
    OBVIOUS
  <2>1. k + 1 \in 1 .. n /\ A[k] \in D /\ (k + 1) - 1 = k
    BY <1>0, <1>10
  <2>2. A[k + 1] = StoreStep(gr, a, A[k], k + 1)
    BY <2>1, <1>8
  <2> QED BY <2>1, <2>2, <1>2
<1> HIDE DEF T
<1>11. n \in T
  BY <1>0, <1>9, <1>10, NatSetInduction
<1>12. A[n] \in D
  BY <1>0, <1>11 DEF T
<1> QED BY <1>12 DEF D, A

\* and the allocation: it is gone, what was gone stays gone, other slots stay guarded.
LEMMA PromotedKeeps ==
  ASSUME NEW gr, Linked(gr), NEW a \in Allocs(gr), NEW z, z = Promoted(gr, a)
  PROVE  /\ Linked(z) /\ DOMAIN gr \subseteq DOMAIN z /\ z[a].op = "Dead"
         /\ \A i \in DOMAIN gr : gr[i].op = "Dead" => z[i].op = "Dead"
         /\ \A s \in Others(gr, a) : Guarded(z, s)
<1> DEFINE w == WithPhi(gr, a)
           x == LoadsReplaced(gr, a)
           y == StoreSteps(gr, a)[Len(gr)]
           G == Others(gr, a)
<1>0. a \in DOMAIN gr /\ gr[a].op = "Alloc" /\ a \in Nat
  <2>1. a \in DOMAIN gr /\ gr[a].op = "Alloc"
    BY DEF Allocs
  <2> QED BY <2>1, LinkedNodes
<1>1. DOMAIN gr \subseteq DOMAIN w /\ \A i \in DOMAIN gr : w[i] = gr[i]
  BY <1>0, WithPhiLinked
<1>2. LoadsGone(x, gr, a)
  BY <1>0, LoadsAllGone
<1>3. x = LoadsReplaced(gr, a) /\ z = Bypass(y, a)
  BY PromotedIsSteps
<1> HIDE DEF w, x
<1>4. /\ Linked(x) /\ DOMAIN x = DOMAIN w /\ \A s \in G : Guarded(x, s)
      /\ \A i \in DOMAIN w : x[i].op = w[i].op \/ (w[i].op = "Load" /\ x[i].op = "Dead")
  BY <1>2 DEF LoadsGone, Reduced, w
<1>5. \A i \in Stores(gr, a) : i \in DOMAIN x /\ x[i].op = "Store"
  BY <1>1, <1>4 DEF Stores
<1>6. Reduced(x, x, G, {"Store"})
  BY <1>4 DEF Reduced
<1>7. Reduced(y, x, G, {"Store"})
  BY <1>0, <1>3, <1>5, <1>6, StoresAllGone
<1> HIDE DEF y
<1>8. /\ Linked(y) /\ DOMAIN y = DOMAIN w /\ \A s \in G : Guarded(y, s)
      /\ \A i \in DOMAIN w : y[i].op = x[i].op \/ (x[i].op = "Store" /\ y[i].op = "Dead")
  BY <1>4, <1>7 DEF Reduced
<1>9. a \in DOMAIN y /\ y[a].op = "Alloc"
  BY <1>0, <1>1, <1>4, <1>8
<1>10. y[a].op \in {"Store", "Alloc", "Dead"}
  BY <1>9
<1>11. Linked(z) /\ Bypassed(z, y, a, y[a].mem)
  BY <1>3, <1>8, <1>9, <1>10, BypassedLinked
<1>12. DOMAIN z = DOMAIN y /\ \A i \in DOMAIN y : z[i].op = IF i = a THEN "Dead" ELSE y[i].op
  BY <1>11 DEF Bypassed
<1>13. ASSUME NEW s \in G PROVE Guarded(z, s)
  <2>1. s \in Slots /\ Guarded(y, s) /\ a # s
    BY <1>8 DEF Others
  <2>2. a # s + 1
    BY <1>9, <2>1 DEF Guarded
  <2> QED BY <1>8, <1>9, <1>10, <1>11, <2>1, <2>2, BypassedGuarded
<1>14. ASSUME NEW i \in DOMAIN gr, gr[i].op = "Dead" PROVE z[i].op = "Dead"
  BY <1>1, <1>4, <1>8, <1>12, <1>14
<1> QED BY <1>1, <1>8, <1>9, <1>11, <1>12, <1>13, <1>14

-----------------------------------------------------------------------------
(* Every step.                                                             *)

\* A guarded slot can be promoted.
LEMMA GuardedPromotable ==
  ASSUME NEW gr, Linked(gr), NEW s \in Slots, Guarded(gr, s)
  PROVE  s \in Allocs(gr) /\ Promotable(gr, s)
<1>1. s \in DOMAIN gr /\ s + 1 \in DOMAIN gr /\ gr[s].op = "Alloc" /\ gr[s + 1].op = "Store"
  BY DEF Guarded
<1>2. ASSUME NEW u \in Live(gr)
      PROVE  /\ gr[u].val # s
             /\ gr[u].op \in {"Use", "Return", "Inc"} => gr[u].mem # s
             /\ gr[u].op = "Value" => s \notin ToSet(gr[u].ins)
  <2>1. u \in DOMAIN gr /\ u \in Nat \ {0} /\ s \in Nat
    BY <1>1, LinkedNodes DEF Live
  <2>2. gr[u].mem \in 0 .. u - 1
    BY <2>1, LinkedNodes DEF LinkedAt
  <2>3. gr[u].val # s
    BY <2>1 DEF Guarded
  <2>4. ASSUME gr[u].op \in {"Use", "Return", "Inc"} PROVE gr[u].mem # s
    <3>1. CASE u > s + 1
      <4>1. gr[u].mem > s
        BY <2>1, <2>4, <3>1 DEF Guarded
      <4> QED BY <2>1, <2>2, <4>1
    <3>2. CASE u <= s
      BY <2>1, <2>2, <3>2
    <3>3. CASE u = s + 1
      BY <1>1, <2>4, <3>3
    <3> QED BY <2>1, <3>1, <3>2, <3>3
  <2>5. ASSUME gr[u].op = "Value" PROVE s \notin ToSet(gr[u].ins)
    BY <2>1, <2>5 DEF Guarded, ToSet
  <2> QED BY <2>3, <2>4, <2>5
<1>3. Promotable(gr, s)
  BY <1>2 DEF Promotable
<1> QED BY <1>1, <1>3 DEF Allocs

\* All slots are guarded until forwarding is done; then those the cursor has passed are
\* gone and the others still guarded; and what is gone stays gone.
Gone(gr, s) == s \in DOMAIN gr /\ gr[s].op = "Dead"
HasOps(gr) == \A i \in DOMAIN gr : "op" \in DOMAIN gr[i]
IInv ==
  /\ stage \in {"forward", "promote", "simplify", "linear"}
  /\ stage = "forward" => at = 1 /\ Carried(prog.shape, g)
  /\ stage = "promote" => /\ at \in Nat /\ Linked(g)
                          /\ \A s \in Slots : IF s < at THEN Gone(g, s) ELSE Guarded(g, s)
  /\ stage \in {"simplify", "linear"} => HasOps(g) /\ \A s \in Slots : Gone(g, s)

\* The builder establishes the invariant,
LEMMA InitInv ==
  ASSUME Init
  PROVE  IInv
<1>1. prog \in Programs /\ g = Build(prog) /\ stage = "forward" /\ at = 1
  BY DEF Init
<1> QED BY <1>1, BuildCarried DEF IInv

\* forwarding keeps it,
LEMMA ForwardInv ==
  ASSUME IInv, Forward
  PROVE  IInv'
<1>1. stage = "forward" /\ stage' = "promote" /\ g' = Forwarded(g) /\ at' = at
  BY DEF Forward
<1>2. at = 1 /\ Carried(prog.shape, g)
  BY <1>1 DEF IInv
<1>3. Carried(prog.shape, g')
  BY <1>1, <1>2, ForwardedCarried
<1>4. Linked(g') /\ \A s \in Slots : Guarded(g', s)
  BY <1>3, CarriedLinked DEF Carried
<1>5. at' \in Nat /\ \A s \in Slots : ~(s < at')
  BY <1>1, <1>2, SlotValues
<1> QED BY <1>1, <1>4, <1>5 DEF IInv

\* The least of the candidates is one,
LEMMA LeastCandidate ==
  ASSUME NEW S \in SUBSET Nat, S # {}
  PROVE  Least(S) \in S /\ \A i \in S : Least(S) <= i
<1>1. \E m \in S : \A k \in S : m <= k
  BY LeastExists
<1> QED BY <1>1 DEF Least

\* and the slots that are left are among them.
LEMMA SlotsAreCandidates ==
  ASSUME IInv, stage = "promote", NEW s \in Slots, ~(s < at)
  PROVE  s \in Candidates /\ Guarded(g, s)
<1>1. Linked(g) /\ at \in Nat /\ Guarded(g, s)
  BY DEF IInv
<1>2. s \in Allocs(g) /\ Promotable(g, s)
  BY <1>1, GuardedPromotable
<1>3. s >= at
  BY <1>1, SlotValues
<1> QED BY <1>1, <1>2, <1>3 DEF Candidates

\* and one promotion keeps it: the candidate has a value for every load, and if it was a
\* variable, it is gone now.
LEMMA PromoteInv ==
  ASSUME IInv, Promote
  PROVE  IInv' /\ Resolvable(g, Least(Candidates))
<1> DEFINE a == Least(Candidates)
<1>1. stage = "promote" /\ Candidates # {} /\ stage' = stage /\ at' = a + 1
      /\ g' = IF Resolvable(g, a) THEN Promoted(g, a) ELSE g
  BY DEF Promote
<1>2. Linked(g) /\ at \in Nat /\ \A s \in Slots : IF s < at THEN Gone(g, s) ELSE Guarded(g, s)
  BY <1>1 DEF IInv
<1>3. Candidates \in SUBSET Nat
  BY <1>2, LinkedNodes DEF Candidates, Allocs
<1>4. a \in Candidates /\ \A i \in Candidates : a <= i
  BY <1>1, <1>3, LeastCandidate
<1> HIDE DEF a
<1>5. a \in Allocs(g) /\ a >= at /\ a \in Nat
  BY <1>3, <1>4 DEF Candidates
<1>6. Resolvable(g, a)
  BY <1>2, <1>5, AlwaysResolvable
<1>7. g' = Promoted(g, a)
  BY <1>1, <1>6
<1>8. /\ Linked(g') /\ DOMAIN g \subseteq DOMAIN g' /\ g'[a].op = "Dead"
      /\ \A i \in DOMAIN g : g[i].op = "Dead" => g'[i].op = "Dead"
      /\ \A s \in Others(g, a) : Guarded(g', s)
  BY <1>2, <1>5, <1>7, PromotedKeeps
<1>9. ASSUME NEW s \in Slots PROVE IF s < at' THEN Gone(g', s) ELSE Guarded(g', s)
  <2>0. s \in Nat /\ at' = a + 1 /\ a \in DOMAIN g
    BY <1>1, <1>5, SlotValues DEF Allocs
  <2>1. CASE s < at
    <3>1. Gone(g, s) /\ s < at'
      BY <1>2, <1>5, <2>0, <2>1
    <3> QED BY <1>8, <3>1 DEF Gone
  <2>2. CASE ~(s < at)
    <3>1. a <= s /\ Guarded(g, s)
      BY <1>1, <1>4, <2>2, SlotsAreCandidates
    <3>2. CASE s = a
      <4>1. s < at' /\ Gone(g', s)
        BY <1>5, <1>8, <2>0, <3>2 DEF Gone
      <4> QED BY <4>1
    <3>3. CASE s # a
      <4>1. ~(s < at')
        BY <1>5, <2>0, <3>1, <3>3
      <4>2. Guarded(g', s)
        BY <1>8, <3>1, <3>3 DEF Others
      <4> QED BY <4>1, <4>2
    <3> QED BY <3>2, <3>3
  <2> QED BY <2>1, <2>2
<1>10. at' \in Nat
  BY <1>1, <1>5
<1> QED BY <1>1, <1>6, <1>8, <1>9, <1>10 DEF IInv, a

\* When no candidate is left, every slot is gone.
LEMMA EndInv ==
  ASSUME IInv, EndPromotion
  PROVE  IInv'
<1>1. stage = "promote" /\ Candidates = {} /\ stage' = "simplify" /\ g' = g
  BY DEF EndPromotion
<1>2. Linked(g) /\ \A s \in Slots : IF s < at THEN Gone(g, s) ELSE Guarded(g, s)
  BY <1>1 DEF IInv
<1>3. \A s \in Slots : Gone(g, s)
  BY <1>1, <1>2, SlotsAreCandidates
<1>4. HasOps(g)
  <2>1. \A i \in DOMAIN g : g[i] \in NodeType
    BY <1>2, LinkedNodes
  <2> QED BY <2>1 DEF HasOps, NodeType
<1> QED BY <1>1, <1>3, <1>4 DEF IInv

\* Collapsing phis brings nothing back.
LEMMA SimplifyInv ==
  ASSUME IInv, Simplify
  PROVE  IInv'
<1> DEFINE i == Least(Trivial(g))
           v == CHOOSE u \in Inputs(g, i) : TRUE
           r == ReplaceAllUses(g, i, v)
<1>1. stage = "simplify" /\ stage' = stage /\ g' = Kill(r, i)
  BY DEF Simplify
<1>2. HasOps(g) /\ \A s \in Slots : Gone(g, s)
  BY <1>1 DEF IInv
<1> HIDE DEF i, v
<1>3. /\ DOMAIN r = DOMAIN g
      /\ \A j \in DOMAIN g : "op" \in DOMAIN r[j] /\ r[j].op = g[j].op
  BY <1>2 DEF ReplaceAllUses, HasOps
<1> HIDE DEF r
<1>4. /\ DOMAIN g' = DOMAIN g
      /\ \A j \in DOMAIN g : "op" \in DOMAIN g'[j] /\ (g'[j].op = "Dead" \/ g'[j].op = r[j].op)
  BY <1>1, <1>3 DEF Kill
<1>5. HasOps(g') /\ \A s \in Slots : Gone(g', s)
  BY <1>2, <1>3, <1>4 DEF HasOps, Gone
<1> QED BY <1>1, <1>5 DEF IInv

\* One case for each action.
LEMMA NextInv ==
  ASSUME IInv, [Next]_vars
  PROVE  IInv'
<1>1. CASE Forward
  BY <1>1, ForwardInv
<1>2. CASE Promote
  BY <1>2, PromoteInv
<1>3. CASE EndPromotion
  BY <1>3, EndInv
<1>4. CASE Simplify
  BY <1>4, SimplifyInv
<1>5. CASE Linearize
  BY <1>5 DEF Linearize, IInv
<1>6. CASE UNCHANGED vars
  BY <1>6 DEF vars, IInv
<1> QED BY <1>1, <1>2, <1>3, <1>4, <1>5, <1>6 DEF Next

\* The invariant holds in every state.
LEMMA AlwaysInv == Spec => []IInv
<1>1. Init => IInv
  BY InitInv
<1>2. IInv /\ [Next]_vars => IInv'
  BY NextInv
<1> QED BY <1>1, <1>2, PTL DEF Spec

\* Whatever the program, its variables have all left memory when scalar replacement is
\* done, and do not come back: neither forwarding nor the promotion of one variable
\* makes the address of another escape.
THEOREM SlotsLeaveMemory == Spec => []SlotsPromoted
<1>1. IInv => SlotsPromoted
  BY DEF IInv, SlotsPromoted, Gone
<1> QED BY <1>1, AlwaysInv, PTL

\* No promotion is given up for want of a value: the aborts of the pass are never taken.
THEOREM PromotionNeverAborts == Spec => [][Promote => Resolvable(g, Least(Candidates))]_vars
<1>1. IInv /\ [Next]_vars => [Promote => Resolvable(g, Least(Candidates))]_vars
  BY PromoteInv
<1> QED BY <1>1, AlwaysInv, PTL DEF Spec
=============================================================================
