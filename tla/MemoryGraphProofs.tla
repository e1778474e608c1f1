-------------------------- MODULE MemoryGraphProofs --------------------------
(***************************************************************************)
(* What the passes may rely on in a graph of memory operations, and that   *)
(* the rewrites and the builder's steps keep it.                           *)
(***************************************************************************)
EXTENDS MemoryGraph, Iteration

MemOps == {"Alloc", "Store", "Call", "Phi"}
ValueOps == {"Alloc", "Load", "Inc", "Value"}
NodeType ==
  [op : {"Alloc", "Load", "Store", "Call", "Phi", "Use", "Inc", "Value", "Return", "Dead"},
   blk : 0 .. 3, mem : Nat, addr : Int, added : BOOLEAN, off : Int, val : Int, ins : Seq(Int)]

\* A memory version made in block a is there in block b: the header of a loop is
\* above the loop and what follows it, too.
Above(sh, a, b) == a = b \/ a = 0 \/ (sh = "loop" /\ a = 1)

\* A merge of memory has its versions from live operations, the first of them an
\* earlier one, and what is above all of them is above it.
PhiIntact(sh, gr, i) ==
  /\ gr[i].ins # <<>> /\ gr[i].ins[1] < i
  /\ \A k \in DOMAIN gr[i].ins : gr[i].ins[k] \in DOMAIN gr /\ gr[gr[i].ins[k]].op \in MemOps
  /\ \A b \in 0 .. 3 :
       (\A k \in DOMAIN gr[i].ins : Above(sh, b, gr[gr[i].ins[k]].blk)) => Above(sh, b, gr[i].blk)

\* A killed node still names an earlier version; a live one names a live version
\* that is there, and values that are.
ChainIntact(sh, gr, i) ==
  /\ gr[i].mem \in 0 .. i - 1
  /\ i > 1 => gr[i].mem # 0
  /\ gr[i].mem # 0 => gr[gr[i].mem].op \in MemOps \cup {"Dead"}
VersionIntact(sh, gr, i) ==
  gr[i].mem # 0 => /\ gr[gr[i].mem].op # "Dead"
                   /\ gr[i].op # "Phi" => Above(sh, gr[gr[i].mem].blk, gr[i].blk)
ValueIntact(gr, i, v) ==
  v > 0 => v < i /\ gr[v].op \in ValueOps /\ Dominates(gr[v].blk, gr[i].blk)
LiveIntact(sh, gr, i) ==
  /\ VersionIntact(sh, gr, i)
  /\ gr[i].op = "Phi" => PhiIntact(sh, gr, i)
  /\ gr[i].op # "Phi" => gr[i].ins = <<>>
  /\ ValueIntact(gr, i, gr[i].addr) /\ ValueIntact(gr, i, gr[i].val)
  /\ sh = "loop" /\ gr[i].blk = 1 => gr[i].op = "Phi"

IsGraph(sh, gr) ==
  /\ gr \in Seq(NodeType) /\ gr # <<>> /\ gr[1].op = "Alloc"
  /\ \A i \in DOMAIN gr : ChainIntact(sh, gr, i) /\ (gr[i].op # "Dead" => LiveIntact(sh, gr, i))

-----------------------------------------------------------------------------
(* The rewrites.                                                           *)

\* Being there is transitive,
LEMMA AboveTransitive ==
  ASSUME NEW sh, NEW a, NEW b, NEW c, Above(sh, a, b), Above(sh, b, c)
  PROVE  Above(sh, a, c)
BY DEF Above

\* and so is being executed before.
LEMMA DominatesTransitive ==
  ASSUME NEW a, NEW b, NEW c, Dominates(a, b), Dominates(b, c)
  PROVE  Dominates(a, c)
BY DEF Dominates

\* What a graph is when the uses of node l have been given another name, and l is killed,
Replaced(h, gr, l, to) ==
  /\ DOMAIN h = DOMAIN gr /\ Len(h) = Len(gr)
  /\ \A i \in DOMAIN gr :
       /\ h[i].op = IF i = l THEN "Dead" ELSE gr[i].op
       /\ h[i].blk = gr[i].blk /\ h[i].added = gr[i].added /\ h[i].off = gr[i].off
       /\ h[i].mem = Swap(gr[i].mem, l, to) /\ h[i].addr = Swap(gr[i].addr, l, to)
       /\ h[i].val = Swap(gr[i].val, l, to)
       /\ h[i].ins = [k \in DOMAIN gr[i].ins |-> Swap(gr[i].ins[k], l, to)]

\* and when those that take it as a memory version have.
Bypassed(h, gr, s, to) ==
  /\ DOMAIN h = DOMAIN gr /\ Len(h) = Len(gr)
  /\ \A i \in DOMAIN gr :
       /\ h[i].op = IF i = s THEN "Dead" ELSE gr[i].op
       /\ h[i].blk = gr[i].blk /\ h[i].added = gr[i].added /\ h[i].off = gr[i].off
       /\ h[i].mem = Swap(gr[i].mem, s, to) /\ h[i].addr = gr[i].addr
       /\ h[i].val = gr[i].val
       /\ h[i].ins = [k \in DOMAIN gr[i].ins |-> Swap(gr[i].ins[k], s, to)]

\* The new graph, field by field, when the uses of a node are replaced and it is killed.
LEMMA ReplacedFields ==
  ASSUME NEW gr \in Seq(NodeType), NEW l \in DOMAIN gr, NEW to \in Int,
         NEW h, h = Kill(ReplaceAllUses(gr, l, to), l)
  PROVE  Replaced(h, gr, l, to)
<1> DEFINE r == ReplaceAllUses(gr, l, to)
<1>1. DOMAIN gr = 1 .. Len(gr) /\ Len(gr) \in Nat /\ \A i \in DOMAIN gr : gr[i] \in NodeType
  OBVIOUS
<1>2. r = [i \in 1 .. Len(gr) |-> r[i]]
  BY <1>1 DEF ReplaceAllUses
<1>3. ASSUME NEW i \in DOMAIN gr
      PROVE  /\ r[i].op = gr[i].op
             /\ r[i].blk = gr[i].blk /\ r[i].added = gr[i].added /\ r[i].off = gr[i].off
             /\ r[i].mem = Swap(gr[i].mem, l, to) /\ r[i].addr = Swap(gr[i].addr, l, to)
             /\ r[i].val = Swap(gr[i].val, l, to)
             /\ r[i].ins = [k \in DOMAIN gr[i].ins |-> Swap(gr[i].ins[k], l, to)]
             /\ DOMAIN r[i] = DOMAIN gr[i]
  BY <1>1 DEF ReplaceAllUses, NodeType
<1> HIDE DEF r
<1>4. h = [r EXCEPT ![l].op = "Dead"]
  BY DEF Kill, r
<1>5. DOMAIN h = DOMAIN gr /\ h = [i \in 1 .. Len(gr) |-> h[i]]
  BY <1>1, <1>2, <1>4
<1>6. Len(h) = Len(gr)
  BY <1>5, <1>1
<1>7. ASSUME NEW i \in DOMAIN gr, i # l PROVE h[i] = r[i]
  BY <1>2, <1>4, <1>7, <1>1
<1>8. h[l] = [r[l] EXCEPT !.op = "Dead"]
  BY <1>2, <1>4, <1>1
<1>9. DOMAIN r[l] = {"op", "blk", "mem", "addr", "added", "off", "val", "ins"}
  BY <1>1, <1>3 DEF NodeType
<1>10. h[l].op = "Dead"
  BY <1>8, <1>9
<1>11. \A f \in {"blk", "mem", "addr", "added", "off", "val", "ins"} : h[l][f] = r[l][f]
  BY <1>8, <1>9
<1>12. /\ h[l].blk = r[l].blk /\ h[l].added = r[l].added /\ h[l].off = r[l].off
       /\ h[l].mem = r[l].mem /\ h[l].addr = r[l].addr /\ h[l].val = r[l].val /\ h[l].ins = r[l].ins
  BY <1>11
<1> QED
  <2>1. ASSUME NEW i \in DOMAIN gr
        PROVE  /\ h[i].op = IF i = l THEN "Dead" ELSE gr[i].op
               /\ h[i].blk = r[i].blk /\ h[i].added = r[i].added /\ h[i].off = r[i].off
               /\ h[i].mem = r[i].mem /\ h[i].addr = r[i].addr
               /\ h[i].val = r[i].val /\ h[i].ins = r[i].ins
    <3>1. CASE i = l
      BY <3>1, <1>10, <1>12
    <3>2. CASE i # l
      BY <3>2, <1>3, <1>7
    <3> QED BY <3>1, <3>2
  <2>2. ASSUME NEW i \in DOMAIN gr
        PROVE  /\ h[i].op = IF i = l THEN "Dead" ELSE gr[i].op
               /\ h[i].blk = gr[i].blk /\ h[i].added = gr[i].added /\ h[i].off = gr[i].off
               /\ h[i].mem = Swap(gr[i].mem, l, to) /\ h[i].addr = Swap(gr[i].addr, l, to)
               /\ h[i].val = Swap(gr[i].val, l, to)
               /\ h[i].ins = [k \in DOMAIN gr[i].ins |-> Swap(gr[i].ins[k], l, to)]
    BY <2>1, <1>3, Zenon
  <2> QED BY <2>2, <1>5, <1>6, Zenon DEF Replaced

\* A function on 1 .. n is a sequence of length n.
LEMMA SequenceOf ==
  ASSUME NEW S, NEW n \in Nat, NEW f \in [1 .. n -> S]
  PROVE  f \in Seq(S) /\ Len(f) = n /\ DOMAIN f = 1 .. n
OBVIOUS

\* Renaming in a sequence of inputs keeps it one, of the same length.
LEMMA SwappedSequence ==
  ASSUME NEW s \in Seq(Int), NEW l \in Int, NEW to \in Int
  PROVE  /\ [k \in DOMAIN s |-> Swap(s[k], l, to)] \in Seq(Int)
         /\ Len([k \in DOMAIN s |-> Swap(s[k], l, to)]) = Len(s)
<1>1. Len(s) \in Nat /\ DOMAIN s = 1 .. Len(s) /\ \A k \in 1 .. Len(s) : s[k] \in Int
  OBVIOUS
<1>2. [k \in DOMAIN s |-> Swap(s[k], l, to)] \in [1 .. Len(s) -> Int]
  BY <1>1 DEF Swap
<1> QED BY <1>1, <1>2, SequenceOf

\* Replacing the uses of a node keeps the type of the graph.
LEMMA ReplacedType ==
  ASSUME NEW gr \in Seq(NodeType), NEW l \in DOMAIN gr, NEW to \in Int,
         \A i \in DOMAIN gr : Swap(gr[i].mem, l, to) \in Nat
  PROVE  Kill(ReplaceAllUses(gr, l, to), l) \in Seq(NodeType)
<1> DEFINE r == ReplaceAllUses(gr, l, to)
<1>1. DOMAIN gr = 1 .. Len(gr) /\ Len(gr) \in Nat /\ \A i \in DOMAIN gr : gr[i] \in NodeType
  OBVIOUS
<1>2. r = [i \in 1 .. Len(gr) |-> r[i]]
  BY <1>1 DEF ReplaceAllUses
<1>3. ASSUME NEW i \in DOMAIN gr PROVE r[i] \in NodeType
  <2> DEFINE q == [k \in DOMAIN gr[i].ins |-> Swap(gr[i].ins[k], l, to)]
  <2>1. gr[i].ins \in Seq(Int) /\ gr[i].addr \in Int /\ gr[i].val \in Int /\ gr[i] \in NodeType
    BY <1>1 DEF NodeType
  <2>2. q \in Seq(Int)
    BY <2>1, <1>1, SwappedSequence
  <2>3. Swap(gr[i].addr, l, to) \in Int /\ Swap(gr[i].val, l, to) \in Int
    BY <2>1 DEF Swap
  <2>4. r[i] = [gr[i] EXCEPT !.mem = Swap(gr[i].mem, l, to), !.addr = Swap(gr[i].addr, l, to),
                             !.val = Swap(gr[i].val, l, to), !.ins = q]
    BY <1>1 DEF ReplaceAllUses
  <2> HIDE DEF q
  <2> QED BY <2>1, <2>2, <2>3, <2>4 DEF NodeType
<1> HIDE DEF r
<1>4. r[l] \in NodeType
  BY <1>3
<1>5. [r[l] EXCEPT !.op = "Dead"] \in NodeType
  BY <1>4 DEF NodeType
<1>6. Kill(r, l) = [i \in 1 .. Len(gr) |-> IF i = l THEN [r[l] EXCEPT !.op = "Dead"] ELSE r[i]]
  BY <1>2, <1>1 DEF Kill
<1> QED BY <1>1, <1>3, <1>5, <1>6 DEF r

\* The same for a store that is taken out of the chain.
LEMMA BypassedFields ==
  ASSUME NEW gr \in Seq(NodeType), NEW s \in DOMAIN gr, NEW to \in Nat,
         NEW h, h = Kill(ReplaceUsesAsMemory(gr, s, to), s)
  PROVE  Bypassed(h, gr, s, to) /\ h \in Seq(NodeType)
<1> DEFINE r == ReplaceUsesAsMemory(gr, s, to)
<1>1. DOMAIN gr = 1 .. Len(gr) /\ Len(gr) \in Nat /\ \A i \in DOMAIN gr : gr[i] \in NodeType
  OBVIOUS
<1>2. r = [i \in 1 .. Len(gr) |-> r[i]]
  BY <1>1 DEF ReplaceUsesAsMemory
<1>3. ASSUME NEW i \in DOMAIN gr
      PROVE  /\ r[i].op = gr[i].op
             /\ r[i].blk = gr[i].blk /\ r[i].added = gr[i].added /\ r[i].off = gr[i].off
             /\ r[i].mem = Swap(gr[i].mem, s, to) /\ r[i].addr = gr[i].addr
             /\ r[i].val = gr[i].val
             /\ r[i].ins = [k \in DOMAIN gr[i].ins |-> Swap(gr[i].ins[k], s, to)]
             /\ r[i] \in NodeType
  <2> DEFINE q == [k \in DOMAIN gr[i].ins |-> Swap(gr[i].ins[k], s, to)]
  <2>1. gr[i].ins \in Seq(Int) /\ gr[i].mem \in Nat /\ gr[i] \in NodeType
    BY <1>1 DEF NodeType
  <2>2. q \in Seq(Int)
    BY <2>1, <1>1, SwappedSequence
  <2>3. Swap(gr[i].mem, s, to) \in Nat
    BY <2>1 DEF Swap
  <2>4. r[i] = [gr[i] EXCEPT !.mem = Swap(gr[i].mem, s, to), !.ins = q]
    BY <1>1 DEF ReplaceUsesAsMemory
  <2> HIDE DEF q
  <2>5. r[i] \in NodeType
    BY <2>1, <2>2, <2>3, <2>4 DEF NodeType
  <2>6. /\ r[i].op = gr[i].op
        /\ r[i].blk = gr[i].blk /\ r[i].added = gr[i].added /\ r[i].off = gr[i].off
        /\ r[i].mem = Swap(gr[i].mem, s, to) /\ r[i].addr = gr[i].addr
        /\ r[i].val = gr[i].val /\ r[i].ins = q
    BY <2>1, <2>4 DEF NodeType
  <2> QED BY <2>5, <2>6 DEF q
<1> HIDE DEF r
<1>4. h = [i \in 1 .. Len(gr) |-> IF i = s THEN [r[s] EXCEPT !.op = "Dead"] ELSE r[i]]
  BY <1>2, <1>1 DEF Kill, r
<1>5. r[s] \in NodeType
  BY <1>3
<1> DEFINE z == [r[s] EXCEPT !.op = "Dead"]
<1>6. /\ z \in NodeType /\ z.op = "Dead" /\ z.blk = r[s].blk /\ z.mem = r[s].mem
      /\ z.addr = r[s].addr /\ z.added = r[s].added /\ z.off = r[s].off
      /\ z.val = r[s].val /\ z.ins = r[s].ins
  BY <1>5 DEF NodeType
<1>7. h = [i \in 1 .. Len(gr) |-> IF i = s THEN z ELSE r[i]]
  BY <1>4
<1> HIDE DEF z
<1>8. DOMAIN h = DOMAIN gr /\ Len(h) = Len(gr) /\ h \in Seq(NodeType)
  <2>1. h \in [1 .. Len(gr) -> NodeType]
    BY <1>1, <1>3, <1>6, <1>7
  <2> QED BY <1>1, <2>1, SequenceOf
<1>9. ASSUME NEW i \in DOMAIN gr
      PROVE  /\ h[i].op = IF i = s THEN "Dead" ELSE gr[i].op
             /\ h[i].blk = r[i].blk /\ h[i].added = r[i].added /\ h[i].off = r[i].off
             /\ h[i].mem = r[i].mem /\ h[i].addr = r[i].addr
             /\ h[i].val = r[i].val /\ h[i].ins = r[i].ins
  <2>1. CASE i = s
    BY <2>1, <1>6, <1>7, <1>1
  <2>2. CASE i # s
    BY <2>2, <1>3, <1>7, <1>1
  <2> QED BY <2>1, <2>2
<1>10. ASSUME NEW i \in DOMAIN gr
       PROVE  /\ h[i].op = IF i = s THEN "Dead" ELSE gr[i].op
              /\ h[i].blk = gr[i].blk /\ h[i].added = gr[i].added /\ h[i].off = gr[i].off
              /\ h[i].mem = Swap(gr[i].mem, s, to) /\ h[i].addr = gr[i].addr
              /\ h[i].val = gr[i].val
              /\ h[i].ins = [k \in DOMAIN gr[i].ins |-> Swap(gr[i].ins[k], s, to)]
  BY <1>9, <1>3, Zenon
<1> QED BY <1>8, <1>10, Zenon DEF Bypassed

\* Killing a load whose uses get a value that is there wherever the load was.
LEMMA LoadReplaced ==
  ASSUME NEW sh, NEW gr, IsGraph(sh, gr), NEW l \in DOMAIN gr, gr[l].op = "Load",
         NEW to \in Int, ValueIntact(gr, l, to)
  PROVE  IsGraph(sh, Kill(ReplaceAllUses(gr, l, to), l))
<1> DEFINE h == Kill(ReplaceAllUses(gr, l, to), l)
<1>1. /\ gr \in Seq(NodeType) /\ DOMAIN gr = 1 .. Len(gr) /\ Len(gr) \in Nat /\ l \in Nat
      /\ \A i \in DOMAIN gr : gr[i] \in NodeType
  BY DEF IsGraph
<1>2. \A i \in DOMAIN gr : ChainIntact(sh, gr, i) /\ (gr[i].op # "Dead" => LiveIntact(sh, gr, i))
  BY DEF IsGraph
<1>3. ASSUME NEW i \in DOMAIN gr
      PROVE  /\ gr[i].mem # l /\ gr[i].mem \in Nat
             /\ gr[i].mem # 0 => gr[i].mem \in DOMAIN gr
             /\ Swap(gr[i].mem, l, to) = gr[i].mem
  <2>1. gr[i].mem # l
    BY <1>1, <1>2 DEF ChainIntact, MemOps
  <2>2. gr[i].mem \in Nat /\ (gr[i].mem # 0 => gr[i].mem \in DOMAIN gr)
    BY <1>1, <1>2 DEF ChainIntact
  <2> QED BY <2>1, <2>2 DEF Swap
<1>4. h \in Seq(NodeType)
  BY <1>1, <1>3, ReplacedType
<1>r. Replaced(h, gr, l, to)
  <2> HIDE DEF h
  <2>1. h = Kill(ReplaceAllUses(gr, l, to), l)
    BY DEF h
  <2> QED BY <1>1, <2>1, ReplacedFields, Zenon
<1> HIDE DEF h
<1>5. /\ DOMAIN h = DOMAIN gr /\ Len(h) = Len(gr)
      /\ \A i \in DOMAIN gr :
           /\ h[i].op = IF i = l THEN "Dead" ELSE gr[i].op
           /\ h[i].blk = gr[i].blk
           /\ h[i].mem = Swap(gr[i].mem, l, to) /\ h[i].addr = Swap(gr[i].addr, l, to)
           /\ h[i].val = Swap(gr[i].val, l, to)
           /\ h[i].ins = [k \in DOMAIN gr[i].ins |-> Swap(gr[i].ins[k], l, to)]
  BY <1>r, Zenon DEF Replaced
<1>6. \A i \in DOMAIN gr : h[i].mem = gr[i].mem /\ h[i].blk = gr[i].blk
                           /\ h[i].op = IF i = l THEN "Dead" ELSE gr[i].op
  BY <1>3, <1>5
<1>7. h # <<>> /\ h[1].op = "Alloc"
  <2>1. 1 \in DOMAIN gr /\ gr[1].op = "Alloc"
    BY <1>1 DEF IsGraph
  <2> QED BY <2>1, <1>5, <1>6, <1>1
<1>8. ASSUME NEW i \in DOMAIN gr PROVE ChainIntact(sh, h, i)
  <2>1. ChainIntact(sh, gr, i)
    BY <1>2
  <2> QED BY <2>1, <1>6, <1>3, <1>1 DEF ChainIntact
<1>9. ASSUME NEW i \in DOMAIN gr, h[i].op # "Dead" PROVE LiveIntact(sh, h, i)
  <2>0. i # l /\ h[i].op = gr[i].op /\ LiveIntact(sh, gr, i) /\ ChainIntact(sh, gr, i) /\ i \in Nat
    BY <1>9, <1>6, <1>2, <1>1
  <2>1. VersionIntact(sh, h, i)
    <3>1. VersionIntact(sh, gr, i)
      BY <2>0 DEF LiveIntact
    <3>2. gr[i].mem # 0 => gr[i].mem \in DOMAIN gr /\ gr[i].mem # l
      BY <1>3
    <3> QED BY <3>1, <3>2, <1>6, <2>0 DEF VersionIntact
  <2>2. gr[i].op = "Phi" => PhiIntact(sh, h, i)
    <3> SUFFICES ASSUME gr[i].op = "Phi" PROVE PhiIntact(sh, h, i)
      OBVIOUS
    <3>1. PhiIntact(sh, gr, i)
      BY <2>0 DEF LiveIntact
    <3>2. \A k \in DOMAIN gr[i].ins : gr[i].ins[k] # l /\ Swap(gr[i].ins[k], l, to) = gr[i].ins[k]
      BY <3>1 DEF PhiIntact, MemOps, Swap
    <3>3. gr[i].ins \in Seq(Int)
      BY <1>1 DEF NodeType
    <3>4. h[i].ins = gr[i].ins
      BY <3>2, <3>3, <1>5
    <3>5. \A k \in DOMAIN gr[i].ins : /\ gr[i].ins[k] \in DOMAIN gr /\ gr[i].ins[k] # l
                                      /\ gr[gr[i].ins[k]].op \in MemOps
      BY <3>1, <3>2 DEF PhiIntact
    <3>6. \A k \in DOMAIN gr[i].ins : /\ h[gr[i].ins[k]].op \in MemOps
                                      /\ h[gr[i].ins[k]].blk = gr[gr[i].ins[k]].blk
      BY <3>5, <1>6
    <3> QED BY <3>1, <3>4, <3>5, <3>6, <1>5, <1>6 DEF PhiIntact
  <2>3. ASSUME NEW v \in Int, ValueIntact(gr, i, v) PROVE ValueIntact(h, i, Swap(v, l, to))
    <3> DEFINE w == Swap(v, l, to)
    <3> SUFFICES ASSUME w > 0
                 PROVE  w < i /\ h[w].op \in ValueOps /\ Dominates(h[w].blk, h[i].blk)
      BY DEF ValueIntact
    <3>1. CASE v # l
      <4>1. w = v
        BY <3>1 DEF Swap
      <4>2. v < i /\ gr[v].op \in ValueOps /\ Dominates(gr[v].blk, gr[i].blk)
        BY <2>3, <4>1 DEF ValueIntact
      <4>3. v \in DOMAIN gr
        BY <4>1, <4>2, <1>1
      <4> QED BY <3>1, <4>1, <4>2, <4>3, <1>6
    <3>2. CASE v = l
      <4>1. w = to
        BY <3>2 DEF Swap
      <4>2. l < i /\ Dominates(gr[l].blk, gr[i].blk)
        BY <2>3, <3>2, <1>1 DEF ValueIntact
      <4>3. to < l /\ gr[to].op \in ValueOps /\ Dominates(gr[to].blk, gr[l].blk)
        BY <4>1 DEF ValueIntact
      <4>4. to \in DOMAIN gr /\ to # l
        BY <4>1, <4>2, <4>3, <1>1
      <4>5. Dominates(gr[to].blk, gr[i].blk)
        BY <4>2, <4>3, DominatesTransitive
      <4> QED BY <4>1, <4>2, <4>3, <4>4, <4>5, <1>6, <1>1
    <3> QED BY <3>1, <3>2
  <2>4. ValueIntact(h, i, h[i].addr) /\ ValueIntact(h, i, h[i].val)
    <3>1. gr[i].addr \in Int /\ gr[i].val \in Int
      BY <1>1 DEF NodeType
    <3>2. ValueIntact(gr, i, gr[i].addr) /\ ValueIntact(gr, i, gr[i].val)
      BY <2>0 DEF LiveIntact
    <3>3. h[i].addr = Swap(gr[i].addr, l, to) /\ h[i].val = Swap(gr[i].val, l, to)
      BY <1>5, Zenon
    <3> QED BY <3>1, <3>2, <3>3, <2>3
  <2>5. sh = "loop" /\ h[i].blk = 1 => h[i].op = "Phi"
    BY <2>0, <1>6 DEF LiveIntact
  <2>6. gr[i].op # "Phi" => h[i].ins = <<>>
    <3> SUFFICES ASSUME gr[i].op # "Phi" PROVE h[i].ins = <<>>
      OBVIOUS
    <3>1. gr[i].ins = <<>>
      BY <2>0 DEF LiveIntact
    <3>2. h[i].ins = [k \in DOMAIN gr[i].ins |-> Swap(gr[i].ins[k], l, to)]
      BY <1>5, Zenon
    <3> QED BY <3>1, <3>2
  <2> QED BY <2>0, <2>1, <2>2, <2>4, <2>5, <2>6 DEF LiveIntact
<1> QED BY <1>4, <1>5, <1>7, <1>8, <1>9 DEF IsGraph, h

\* Taking a store out of the chain.
LEMMA StoreBypassed ==
  ASSUME NEW sh, NEW gr, IsGraph(sh, gr), NEW s \in DOMAIN gr, gr[s].op = "Store"
  PROVE  IsGraph(sh, Kill(ReplaceUsesAsMemory(gr, s, gr[s].mem), s))
<1> DEFINE m == gr[s].mem
           h == Kill(ReplaceUsesAsMemory(gr, s, m), s)
<1>1. /\ gr \in Seq(NodeType) /\ DOMAIN gr = 1 .. Len(gr) /\ Len(gr) \in Nat /\ s \in Nat
      /\ \A i \in DOMAIN gr : gr[i] \in NodeType /\ i \in Nat
  BY DEF IsGraph
<1>2. \A i \in DOMAIN gr : ChainIntact(sh, gr, i) /\ (gr[i].op # "Dead" => LiveIntact(sh, gr, i))
  BY DEF IsGraph
<1>3. /\ m \in DOMAIN gr /\ m \in Nat /\ m < s /\ m # s /\ gr[m].op \in MemOps
      /\ Above(sh, gr[m].blk, gr[s].blk)
  <2>1. s # 1 /\ ChainIntact(sh, gr, s) /\ VersionIntact(sh, gr, s) /\ gr[s].op # "Phi"
    BY <1>2 DEF IsGraph, LiveIntact
  <2>2. m # 0 /\ m \in 0 .. s - 1
    BY <2>1, <1>1 DEF ChainIntact
  <2> QED BY <2>1, <2>2, <1>1 DEF ChainIntact, VersionIntact
<1>r. Bypassed(h, gr, s, m) /\ h \in Seq(NodeType)
  <2>1. h = Kill(ReplaceUsesAsMemory(gr, s, m), s)
    OBVIOUS
  <2> HIDE DEF m, h
  <2> QED BY <1>1, <1>3, <2>1, BypassedFields, Zenon
<1> HIDE DEF h, m
<1>5. /\ DOMAIN h = DOMAIN gr /\ Len(h) = Len(gr) /\ h \in Seq(NodeType)
      /\ \A i \in DOMAIN gr :
           /\ h[i].op = IF i = s THEN "Dead" ELSE gr[i].op
           /\ h[i].blk = gr[i].blk
           /\ h[i].mem = Swap(gr[i].mem, s, m) /\ h[i].addr = gr[i].addr
           /\ h[i].val = gr[i].val
           /\ h[i].ins = [k \in DOMAIN gr[i].ins |-> Swap(gr[i].ins[k], s, m)]
  BY <1>r, Zenon DEF Bypassed
<1>6. \A i \in DOMAIN gr : h[i].mem = Swap(gr[i].mem, s, m) /\ h[i].blk = gr[i].blk
                           /\ h[i].op = IF i = s THEN "Dead" ELSE gr[i].op
  BY <1>5
<1>7. h # <<>> /\ h[1].op = "Alloc"
  <2>1. 1 \in DOMAIN gr /\ gr[1].op = "Alloc"
    BY <1>1 DEF IsGraph
  <2> QED BY <2>1, <1>5, <1>6, <1>1
<1>8. ASSUME NEW i \in DOMAIN gr PROVE ChainIntact(sh, h, i)
  <2>1. ChainIntact(sh, gr, i) /\ h[i].mem = Swap(gr[i].mem, s, m)
    BY <1>2, <1>6
  <2>2. CASE gr[i].mem = s
    <3>1. h[i].mem = m /\ m < i - 1 /\ m # 0
      BY <2>1, <2>2, <1>1, <1>3 DEF Swap, ChainIntact
    <3>2. h[m].op \in MemOps
      BY <1>3, <1>6
    <3> QED BY <3>1, <3>2, <1>1, <1>3 DEF ChainIntact
  <2>3. CASE gr[i].mem # s
    <3>1. h[i].mem = gr[i].mem
      BY <2>1, <2>3 DEF Swap
    <3>2. gr[i].mem # 0 => gr[i].mem \in DOMAIN gr /\ h[gr[i].mem].op = gr[gr[i].mem].op
      BY <2>1, <2>3, <1>1, <1>6 DEF ChainIntact
    <3> QED BY <2>1, <3>1, <3>2 DEF ChainIntact
  <2> QED BY <2>2, <2>3
<1>9. ASSUME NEW i \in DOMAIN gr, h[i].op # "Dead" PROVE LiveIntact(sh, h, i)
  <2>0. i # s /\ h[i].op = gr[i].op /\ LiveIntact(sh, gr, i) /\ ChainIntact(sh, gr, i) /\ i \in Nat
    BY <1>9, <1>6, <1>2, <1>1
  <2>1. VersionIntact(sh, h, i)
    <3>1. VersionIntact(sh, gr, i) /\ h[i].mem = Swap(gr[i].mem, s, m) /\ h[i].blk = gr[i].blk
      BY <2>0, <1>6 DEF LiveIntact
    <3>2. CASE gr[i].mem = s
      <4>1. h[i].mem = m /\ h[m].op = gr[m].op /\ gr[m].op # "Dead" /\ h[m].blk = gr[m].blk
        BY <3>1, <3>2, <1>3, <1>6 DEF Swap, MemOps
      <4>2. gr[i].op # "Phi" => Above(sh, gr[s].blk, gr[i].blk)
        BY <3>1, <3>2, <1>3 DEF VersionIntact
      <4>3. gr[i].op # "Phi" => Above(sh, gr[m].blk, gr[i].blk)
        BY <4>2, <1>3, AboveTransitive
      <4> QED BY <4>1, <4>3, <3>1, <2>0 DEF VersionIntact
    <3>3. CASE gr[i].mem # s
      <4>1. h[i].mem = gr[i].mem
        BY <3>1, <3>3 DEF Swap
      <4>2. gr[i].mem # 0 => /\ gr[i].mem \in DOMAIN gr /\ h[gr[i].mem].op = gr[gr[i].mem].op
                             /\ h[gr[i].mem].blk = gr[gr[i].mem].blk
        BY <2>0, <3>3, <1>1, <1>6 DEF ChainIntact
      <4> QED BY <4>1, <4>2, <3>1, <2>0 DEF VersionIntact
    <3> QED BY <3>2, <3>3
  <2>2. gr[i].op = "Phi" => PhiIntact(sh, h, i)
    <3> SUFFICES ASSUME gr[i].op = "Phi" PROVE PhiIntact(sh, h, i)
      OBVIOUS
    <3>1. PhiIntact(sh, gr, i)
      BY <2>0 DEF LiveIntact
    <3>2. gr[i].ins \in Seq(Int) /\ 1 \in DOMAIN gr[i].ins
      <4>1. gr[i].ins \in Seq(Int) /\ gr[i].ins # <<>>
        BY <1>1, <3>1 DEF NodeType, PhiIntact
      <4> QED BY <4>1
    <3>3. /\ DOMAIN h[i].ins = DOMAIN gr[i].ins
          /\ \A k \in DOMAIN gr[i].ins : h[i].ins[k] = Swap(gr[i].ins[k], s, m)
      BY <1>5
    <3>4. h[i].ins # <<>>
      BY <3>2, <3>3
    <3>5. h[i].ins[1] < i
      <4>1. gr[i].ins[1] < i /\ h[i].ins[1] = Swap(gr[i].ins[1], s, m)
        BY <3>1, <3>2, <3>3 DEF PhiIntact
      <4> QED BY <4>1, <1>3, <1>1, <2>0 DEF Swap
    <3>6. ASSUME NEW k \in DOMAIN gr[i].ins
          PROVE  /\ h[i].ins[k] \in DOMAIN gr /\ h[h[i].ins[k]].op \in MemOps
                 /\ h[h[i].ins[k]].blk = gr[h[i].ins[k]].blk
                 /\ Above(sh, h[h[i].ins[k]].blk, gr[gr[i].ins[k]].blk)
      <4>1. gr[i].ins[k] \in DOMAIN gr /\ gr[gr[i].ins[k]].op \in MemOps
        BY <3>1 DEF PhiIntact
      <4>2. CASE gr[i].ins[k] = s
        BY <4>2, <3>3, <1>3, <1>6 DEF Swap
      <4>3. CASE gr[i].ins[k] # s
        BY <4>1, <4>3, <3>3, <1>6 DEF Swap, Above
      <4> QED BY <4>2, <4>3
    <3>7. ASSUME NEW b \in 0 .. 3, \A k \in DOMAIN h[i].ins : Above(sh, b, h[h[i].ins[k]].blk)
          PROVE  Above(sh, b, h[i].blk)
      <4>1. \A k \in DOMAIN gr[i].ins : Above(sh, b, gr[gr[i].ins[k]].blk)
        BY <3>3, <3>6, <3>7, AboveTransitive
      <4> QED BY <4>1, <3>1, <1>6 DEF PhiIntact
    <3> QED BY <3>3, <3>4, <3>5, <3>6, <3>7, <1>5 DEF PhiIntact
  <2>3. ASSUME NEW v \in Int, ValueIntact(gr, i, v) PROVE ValueIntact(h, i, v)
    <3> SUFFICES ASSUME v > 0
                 PROVE  v < i /\ h[v].op \in ValueOps /\ Dominates(h[v].blk, h[i].blk)
      BY DEF ValueIntact
    <3>1. v < i /\ gr[v].op \in ValueOps /\ Dominates(gr[v].blk, gr[i].blk)
      BY <2>3 DEF ValueIntact
    <3>2. v \in DOMAIN gr /\ v # s
      BY <3>1, <1>1 DEF ValueOps
    <3> QED BY <3>1, <3>2, <1>6
  <2>4. ValueIntact(h, i, h[i].addr) /\ ValueIntact(h, i, h[i].val)
    <3>1. gr[i].addr \in Int /\ gr[i].val \in Int
      BY <1>1 DEF NodeType
    <3>2. ValueIntact(gr, i, gr[i].addr) /\ ValueIntact(gr, i, gr[i].val)
      BY <2>0 DEF LiveIntact
    <3>3. h[i].addr = gr[i].addr /\ h[i].val = gr[i].val
      BY <1>5, Zenon
    <3> QED BY <3>1, <3>2, <3>3, <2>3
  <2>5. sh = "loop" /\ h[i].blk = 1 => h[i].op = "Phi"
    BY <2>0, <1>6 DEF LiveIntact
  <2>6. gr[i].op # "Phi" => h[i].ins = <<>>
    <3> SUFFICES ASSUME gr[i].op # "Phi" PROVE h[i].ins = <<>>
      OBVIOUS
    <3>1. gr[i].ins = <<>>
      BY <2>0 DEF LiveIntact
    <3>2. h[i].ins = [k \in DOMAIN gr[i].ins |-> Swap(gr[i].ins[k], s, m)]
      BY <1>5, Zenon
    <3> QED BY <3>1, <3>2
  <2> QED BY <2>0, <2>1, <2>2, <2>4, <2>5, <2>6 DEF LiveIntact
<1> QED BY <1>5, <1>7, <1>8, <1>9 DEF IsGraph, h, m

-----------------------------------------------------------------------------
(* The walk up the memory chain.                                           *)

Places(gr) == (0 .. Len(gr)) \X SUBSET DOMAIN gr
UpRule(gr, l, Up, w) ==
  LET m == w[1]
      visiting == w[2]
  IN  IF m = 0 THEN 0
      ELSE CASE gr[m].op = "Store" -> IF SameBase(gr, gr[m], gr[l]) THEN m
                                      ELSE Up[<<gr[m].mem, visiting>>]
             [] gr[m].op = "Alloc" -> Up[<<gr[m].mem, visiting>>]
             [] gr[m].op = "Phi" ->
                  LET found == {IF i \in visiting THEN 0 ELSE Up[<<i, visiting \cup {i}>>] :
                                  i \in ToSet(gr[m].ins)}
                  IN  IF \E d \in found : found = {d} THEN CHOOSE d \in found : TRUE ELSE 0
             [] OTHER -> 0
Ups(gr, l) == CHOOSE Up : Up = [w \in Places(gr) |-> UpRule(gr, l, Up, w)]

\* The reaching store is where the walk up the chain from the load's version ends.
LEMMA ReachingIsUp ==
  ASSUME NEW gr, NEW l
  PROVE  ReachingStore(gr, l) = Ups(gr, l)[<<gr[l].mem, {}>>]
BY DEF ReachingStore, Ups, UpRule, Places

\* Places not yet visited count for more than any node.
Effort(gr) == [w \in Places(gr) |-> Cardinality(DOMAIN gr \ w[2]) * (Len(gr) + 1) + w[1]]

\* The walk gets shorter with every step: down the chain, or into a merge not yet visited.
LEMMA EffortShrinks ==
  ASSUME NEW gr, DOMAIN gr = 1 .. Len(gr), Len(gr) \in Nat, NEW w \in Places(gr)
  PROVE  /\ Effort(gr)[w] \in Nat
         /\ \A k \in 0 .. Len(gr) : k < w[1] =>
              <<k, w[2]>> \in Places(gr) /\ Effort(gr)[<<k, w[2]>>] < Effort(gr)[w]
         /\ \A i \in DOMAIN gr : i \notin w[2] =>
              /\ <<i, w[2] \cup {i}>> \in Places(gr)
              /\ Effort(gr)[<<i, w[2] \cup {i}>>] < Effort(gr)[w]
<1> DEFINE n == Len(gr)
           N == DOMAIN gr
           c == Cardinality(N \ w[2])
<1>1. IsFiniteSet(N) /\ w[1] \in 0 .. n /\ w[2] \in SUBSET N /\ w = <<w[1], w[2]>>
  BY FS_Interval DEF Places
<1>2. IsFiniteSet(N \ w[2])
  BY <1>1, FS_Subset
<1>3. c \in Nat
  BY <1>2, FS_CardinalityType
<1>4. \A a, b \in Nat : a * (b + 1) \in Nat
  OBVIOUS
<1>5. Effort(gr)[w] = c * (n + 1) + w[1] /\ c * (n + 1) \in Nat
  BY <1>3, <1>4 DEF Effort
<1>6. ASSUME NEW k \in 0 .. n, k < w[1]
      PROVE  <<k, w[2]>> \in Places(gr) /\ Effort(gr)[<<k, w[2]>>] < Effort(gr)[w]
  <2>1. <<k, w[2]>> \in Places(gr)
    BY <1>1 DEF Places
  <2>2. Effort(gr)[<<k, w[2]>>] = c * (n + 1) + k
    BY <2>1 DEF Effort
  <2> QED BY <2>1, <2>2, <1>1, <1>5, <1>6
<1>7. ASSUME NEW i \in N, i \notin w[2]
      PROVE  /\ <<i, w[2] \cup {i}>> \in Places(gr)
             /\ Effort(gr)[<<i, w[2] \cup {i}>>] < Effort(gr)[w]
  <2> DEFINE v == w[2] \cup {i}
             d == Cardinality(N \ v)
  <2>1. <<i, v>> \in Places(gr)
    BY <1>1 DEF Places
  <2>2. Effort(gr)[<<i, v>>] = d * (n + 1) + i
    BY <2>1 DEF Effort
  <2>3. N \ v = (N \ w[2]) \ {i} /\ i \in N \ w[2]
    BY <1>7
  <2>4. d = c - 1 /\ c # 0
    <3> DEFINE T == N \ w[2]
    <3>1. IsFiniteSet(T) /\ i \in T /\ N \ v = T \ {i}
      BY <2>3, <1>2
    <3> HIDE DEF T
    <3>2. Cardinality(T \ {i}) = Cardinality(T) - 1 /\ IsFiniteSet(T \ {i})
      BY <3>1, FS_RemoveElement
    <3>3. Cardinality(T \ {i}) \in Nat
      BY <3>2, FS_CardinalityType
    <3>4. d = Cardinality(T \ {i}) /\ c = Cardinality(T)
      BY <3>1 DEF T
    <3> QED BY <3>2, <3>3, <3>4, <1>3
  <2>5. \A a, b \in Nat : (a - 1) * (b + 1) = a * (b + 1) - (b + 1)
    OBVIOUS
  <2>6. d * (n + 1) = c * (n + 1) - (n + 1)
    BY <2>4, <2>5, <1>3
  <2>7. i \in 1 .. n
    OBVIOUS
  <2> HIDE DEF v, d, c
  <2>8. ASSUME NEW x \in Nat, NEW y \in Int, y = x - (n + 1) PROVE y + i < x + w[1]
    BY <2>7, <2>8, <1>1
  <2>9. d * (n + 1) + i < c * (n + 1) + w[1]
    BY <2>6, <2>8, <1>5
  <2> QED BY <2>1, <2>2, <2>9, <1>5 DEF v
<1>8. Effort(gr)[w] \in Nat
  <2>1. w[1] \in Nat /\ \A a, b \in Nat : a + b \in Nat
    BY <1>1
  <2> HIDE DEF c
  <2> QED BY <2>1, <1>5
<1> QED BY <1>8, <1>6, <1>7

\* The walk's equation has a solution, and the walk is one.
LEMMA UpsExist ==
  ASSUME NEW sh, NEW gr, IsGraph(sh, gr), NEW l
  PROVE  \A w \in Places(gr) : Ups(gr, l)[w] = UpRule(gr, l, Ups(gr, l), w)
<1> DEFINE S == Places(gr)
           D == 0 .. Len(gr)
           R == [p \in [S -> D] \X S |-> UpRule(gr, l, p[1], p[2])]
           mu == Effort(gr)
<1>1. DOMAIN gr = 1 .. Len(gr) /\ Len(gr) \in Nat
  BY DEF IsGraph
<1>2. ASSUME NEW f \in [S -> D], NEW w \in S
      PROVE  /\ UpRule(gr, l, f, w) \in D
             /\ \A h \in [S -> D] : (\A y \in S : mu[y] < mu[w] => f[y] = h[y])
                                       => UpRule(gr, l, f, w) = UpRule(gr, l, h, w)
  <2>1. w[1] \in D /\ w[2] \in SUBSET DOMAIN gr
    BY DEF Places
  <2>2. CASE w[1] = 0
    BY <2>2, <1>1 DEF UpRule
  <2>3. CASE w[1] # 0
    <3> DEFINE m == w[1]
    <3>1. m \in DOMAIN gr /\ m \in D
      BY <2>1, <2>3, <1>1
    <3>2. gr[m].mem \in D /\ gr[m].mem < m
      <4>1. ChainIntact(sh, gr, m)
        BY <3>1 DEF IsGraph
      <4> QED BY <4>1, <3>1, <1>1 DEF ChainIntact
    <3> DEFINE u == <<gr[m].mem, w[2]>>
    <3>3. u \in S /\ mu[u] < mu[w]
      BY <3>2, <1>1, EffortShrinks
    <3>4. f[u] \in D
      BY <3>3
    <3>5. CASE gr[m].op # "Phi"
      BY <3>1, <3>3, <3>4, <3>5, <2>3, <1>1 DEF UpRule
    <3>6. CASE gr[m].op = "Phi"
      <4> DEFINE I == ToSet(gr[m].ins)
                 Got(F, i) == IF i \in w[2] THEN 0 ELSE F[<<i, w[2] \cup {i}>>]
                 Found(F) == {Got(F, i) : i \in I}
      <4>1. I \subseteq DOMAIN gr
        <5>1. LiveIntact(sh, gr, m)
          BY <3>1, <3>6 DEF IsGraph
        <5> QED BY <5>1, <3>6 DEF LiveIntact, PhiIntact, ToSet
      <4>2. \A F : UpRule(gr, l, F, w) =
              IF \E d \in Found(F) : Found(F) = {d} THEN CHOOSE d \in Found(F) : TRUE ELSE 0
        BY <3>6, <2>3 DEF UpRule
      <4>3. ASSUME NEW i \in I
            PROVE  /\ Got(f, i) \in D
                   /\ \A h \in [S -> D] : (\A y \in S : mu[y] < mu[w] => f[y] = h[y])
                                             => Got(f, i) = Got(h, i)
        <5>1. CASE i \in w[2]
          BY <5>1, <1>1
        <5>2. CASE i \notin w[2]
          <6>1. <<i, w[2] \cup {i}>> \in S /\ mu[<<i, w[2] \cup {i}>>] < mu[w]
            BY <4>1, <5>2, <1>1, EffortShrinks
          <6> QED BY <6>1, <5>2
        <5> QED BY <5>1, <5>2
      <4>4. Found(f) \subseteq D
        BY <4>3
      <4>5. UpRule(gr, l, f, w) \in D
        <5> HIDE DEF Found
        <5> QED BY <4>2, <4>4, <1>1
      <4>6. ASSUME NEW h \in [S -> D], \A y \in S : mu[y] < mu[w] => f[y] = h[y]
            PROVE  UpRule(gr, l, f, w) = UpRule(gr, l, h, w)
        <5>1. \A i \in I : Got(f, i) = Got(h, i)
          BY <4>3, <4>6
        <5> HIDE DEF Got, I
        <5>2. Found(f) = Found(h)
          BY <5>1
        <5> HIDE DEF Found
        <5> QED BY <5>2, <4>2
      <4> QED BY <4>5, <4>6
    <3> QED BY <3>5, <3>6
  <2> QED BY <2>2, <2>3
<1>3. Local(R, S, D, mu)
  <2>1. mu \in [S -> Nat]
    <3>1. \A w \in S : mu[w] \in Nat
      BY <1>1, EffortShrinks
    <3>2. mu = [w \in S |-> mu[w]]
      BY DEF Effort
    <3> QED BY <3>1, <3>2
  <2>2. \A f \in [S -> D], w \in S : R[<<f, w>>] = UpRule(gr, l, f, w)
    OBVIOUS
  <2> HIDE DEF R, S, D, mu
  <2> QED BY <1>2, <2>1, <2>2 DEF Local
<1>4. 0 \in D
  BY <1>1
<1>5. \A f \in [S -> D], w \in S : R[<<f, w>>] = UpRule(gr, l, f, w)
  OBVIOUS
<1>6. \E f \in [S -> D] : \A w \in S : f[w] = R[<<f, w>>]
  <2> HIDE DEF R, S, D, mu
  <2> QED BY <1>3, <1>4, MeasuredRecursion
<1>7. PICK f \in [S -> D] : \A w \in S : f[w] = UpRule(gr, l, f, w)
  <2> HIDE DEF R, S, D
  <2> QED BY <1>5, <1>6
<1>8. f = [w \in S |-> UpRule(gr, l, f, w)]
  BY <1>7
<1>9. Ups(gr, l) = [w \in S |-> UpRule(gr, l, Ups(gr, l), w)]
  BY <1>8 DEF Ups
<1> QED BY <1>9

\* Whatever store the walk from a version finds is an earlier one, above that version:
\* a merge is passed only if all its ways lead to the same store.
UpIntact(sh, gr, m, d) ==
  d # 0 => /\ m \in DOMAIN gr /\ d \in DOMAIN gr /\ d <= m /\ gr[d].op = "Store"
           /\ Above(sh, gr[d].blk, gr[m].blk)

\* Where the walk ends, it ends at a store to the load's slot that is there, and executed before.
LEMMA UpsIntact ==
  ASSUME NEW sh, NEW gr, IsGraph(sh, gr), NEW l
  PROVE  \A w \in Places(gr) : UpIntact(sh, gr, w[1], Ups(gr, l)[w])
<1> DEFINE S == Places(gr)
           mu == Effort(gr)
           T == {w \in S : UpIntact(sh, gr, w[1], Ups(gr, l)[w])}
<1>1. DOMAIN gr = 1 .. Len(gr) /\ Len(gr) \in Nat /\ \A i \in DOMAIN gr : gr[i] \in NodeType
  BY DEF IsGraph
<1>2. mu \in [S -> Nat]
  <2>1. \A w \in S : mu[w] \in Nat
    BY <1>1, EffortShrinks
  <2>2. mu = [w \in S |-> mu[w]]
    BY DEF Effort
  <2> QED BY <2>1, <2>2
<1>3. ASSUME NEW w \in S, \A y \in S : mu[y] < mu[w] => y \in T PROVE w \in T
  <2> DEFINE m == w[1]
             d == Ups(gr, l)[w]
  <2> SUFFICES ASSUME d # 0 PROVE UpIntact(sh, gr, m, d)
    BY DEF UpIntact
  <2>1. m \in 0 .. Len(gr) /\ w[2] \in SUBSET DOMAIN gr
    BY DEF Places
  <2>2. d = UpRule(gr, l, Ups(gr, l), w)
    BY UpsExist
  <2>3. m # 0 /\ m \in DOMAIN gr
    BY <2>1, <2>2, <1>1 DEF UpRule
  <2>4. gr[m].op \in {"Store", "Alloc", "Phi"}
    BY <2>2, <2>3 DEF UpRule
  <2>5. ChainIntact(sh, gr, m) /\ LiveIntact(sh, gr, m)
    BY <2>3, <2>4 DEF IsGraph
  <2>6. CASE gr[m].op = "Store" /\ SameBase(gr, gr[m], gr[l])
    BY <2>2, <2>3, <2>6, <1>1 DEF UpRule, UpIntact, Above
  <2>7. CASE gr[m].op \in {"Store", "Alloc"} /\ d = Ups(gr, l)[<<gr[m].mem, w[2]>>]
    <3> DEFINE u == <<gr[m].mem, w[2]>>
    <3>1. gr[m].mem \in 0 .. Len(gr) /\ gr[m].mem < m
      BY <2>3, <2>5, <1>1 DEF ChainIntact
    <3>2. u \in S /\ mu[u] < mu[w]
      BY <3>1, <1>1, EffortShrinks
    <3>3. UpIntact(sh, gr, gr[m].mem, d)
      BY <3>2, <2>7, <1>3
    <3>4. Above(sh, gr[gr[m].mem].blk, gr[m].blk)
      BY <3>3, <2>5, <2>7, <1>1 DEF UpIntact, LiveIntact, VersionIntact
    <3>5. Above(sh, gr[d].blk, gr[m].blk)
      BY <3>3, <3>4, AboveTransitive DEF UpIntact
    <3> QED BY <3>1, <3>3, <3>5, <2>3, <1>1 DEF UpIntact
  <2>8. CASE gr[m].op = "Phi"
    <3> DEFINE I == ToSet(gr[m].ins)
               Got(i) == IF i \in w[2] THEN 0 ELSE Ups(gr, l)[<<i, w[2] \cup {i}>>]
               Found == {Got(i) : i \in I}
    <3>1. PhiIntact(sh, gr, m)
      BY <2>5, <2>8 DEF LiveIntact
    <3>2. d = IF \E e \in Found : Found = {e} THEN CHOOSE e \in Found : TRUE ELSE 0
      BY <2>2, <2>3, <2>8 DEF UpRule
    <3>3. Found = {d}
      <4> HIDE DEF Found
      <4> QED BY <3>2
    <3>4. ASSUME NEW i \in I PROVE UpIntact(sh, gr, i, d)
      <4>1. Got(i) = d
        BY <3>3
      <4>2. i \notin w[2] /\ d = Ups(gr, l)[<<i, w[2] \cup {i}>>]
        BY <4>1
      <4>3. i \in DOMAIN gr
        BY <3>1 DEF PhiIntact, ToSet
      <4>4. <<i, w[2] \cup {i}>> \in S /\ mu[<<i, w[2] \cup {i}>>] < mu[w]
        BY <4>2, <4>3, <1>1, EffortShrinks
      <4>5. <<i, w[2] \cup {i}>> \in T
        BY <4>4, <1>3
      <4> QED BY <4>2, <4>5
    <3>5. gr[m].ins \in Seq(Int) /\ gr[m].ins # <<>>
      BY <2>3, <3>1, <1>1 DEF PhiIntact, NodeType
    <3>6. 1 \in DOMAIN gr[m].ins /\ gr[m].ins[1] \in I /\ gr[m].ins[1] < m
      BY <3>1, <3>5 DEF PhiIntact, ToSet
    <3>7. d \in DOMAIN gr /\ d <= m /\ gr[d].op = "Store"
      <4>1. UpIntact(sh, gr, gr[m].ins[1], d) /\ d # 0
        BY <3>4, <3>6
      <4>2. /\ d \in DOMAIN gr /\ gr[m].ins[1] \in DOMAIN gr
            /\ d <= gr[m].ins[1] /\ gr[d].op = "Store"
        BY <4>1 DEF UpIntact
      <4> HIDE DEF d
      <4> QED BY <4>2, <3>6, <2>3, <1>1
    <3>8. gr[d].blk \in 0 .. 3
      BY <3>7, <1>1 DEF NodeType
    <3>9. \A k \in DOMAIN gr[m].ins : Above(sh, gr[d].blk, gr[gr[m].ins[k]].blk)
      BY <3>4 DEF UpIntact, ToSet
    <3>10. Above(sh, gr[d].blk, gr[m].blk)
      BY <3>1, <3>8, <3>9 DEF PhiIntact
    <3> QED BY <3>7, <3>10, <2>3 DEF UpIntact
  <2>9. gr[m].op = "Phi" \/ (gr[m].op = "Store" /\ SameBase(gr, gr[m], gr[l]))
        \/ (gr[m].op \in {"Store", "Alloc"} /\ d = Ups(gr, l)[<<gr[m].mem, w[2]>>])
    BY <2>2, <2>3, <2>4 DEF UpRule
  <2> QED BY <2>6, <2>7, <2>8, <2>9
<1>4. S \subseteq T
  <2> HIDE DEF S, mu, T
  <2> QED BY <1>2, <1>3, MeasuredInduction
<1> QED BY <1>4

\* The store a load reads dominates it, and so does the value it stored.
LEMMA ReachingIntact ==
  ASSUME NEW sh, NEW gr, IsGraph(sh, gr), NEW l \in DOMAIN gr, gr[l].op = "Load",
         ReachingStore(gr, l) # 0
  PROVE  LET d == ReachingStore(gr, l)
         IN  /\ d \in DOMAIN gr /\ d < l /\ gr[d].op = "Store" /\ Dominates(gr[d].blk, gr[l].blk)
             /\ gr[d].val \in Int /\ ValueIntact(gr, l, gr[d].val)
<1> DEFINE d == ReachingStore(gr, l)
           m == gr[l].mem
<1>1. DOMAIN gr = 1 .. Len(gr) /\ Len(gr) \in Nat /\ \A i \in DOMAIN gr : gr[i] \in NodeType
  BY DEF IsGraph
<1>2. ChainIntact(sh, gr, l) /\ LiveIntact(sh, gr, l)
  BY DEF IsGraph
<1>3. m \in 0 .. Len(gr) /\ m < l
  BY <1>1, <1>2 DEF ChainIntact
<1>4. <<m, {}>> \in Places(gr)
  BY <1>3 DEF Places
<1>5. UpIntact(sh, gr, m, d)
  BY <1>4, UpsIntact, ReachingIsUp
<1>6. d \in DOMAIN gr /\ d < l /\ gr[d].op = "Store" /\ m # 0 /\ Above(sh, gr[d].blk, gr[m].blk)
  BY <1>5, <1>3, <1>1 DEF UpIntact
<1>7. Above(sh, gr[d].blk, gr[l].blk)
  <2>1. Above(sh, gr[m].blk, gr[l].blk)
    BY <1>2, <1>6 DEF LiveIntact, VersionIntact
  <2> QED BY <2>1, <1>6, AboveTransitive
<1>8. LiveIntact(sh, gr, d)
  BY <1>6 DEF IsGraph
<1>9. Dominates(gr[d].blk, gr[l].blk)
  <2>1. ~(sh = "loop" /\ gr[d].blk = 1)
    BY <1>6, <1>8 DEF LiveIntact
  <2> QED BY <2>1, <1>7 DEF Above, Dominates
<1>10. gr[d].val \in Int /\ ValueIntact(gr, d, gr[d].val)
  BY <1>1, <1>6, <1>8 DEF NodeType, LiveIntact
<1>11. ValueIntact(gr, l, gr[d].val)
  <2> SUFFICES ASSUME gr[d].val > 0
               PROVE  /\ gr[d].val < l /\ gr[gr[d].val].op \in ValueOps
                      /\ Dominates(gr[gr[d].val].blk, gr[l].blk)
    BY DEF ValueIntact
  <2>1. /\ gr[d].val < d /\ gr[gr[d].val].op \in ValueOps
        /\ Dominates(gr[gr[d].val].blk, gr[d].blk)
    BY <1>10 DEF ValueIntact
  <2> QED BY <2>1, <1>6, <1>9, <1>10, <1>1, DominatesTransitive
<1> QED BY <1>6, <1>9, <1>10, <1>11
-----------------------------------------------------------------------------
(* The builder.                                                            *)

\* A new node that is intact among the old ones leaves the graph intact.
LEMMA AppendIntact ==
  ASSUME NEW sh, NEW gr, IsGraph(sh, gr), NEW n \in NodeType, NEW h, h = Append(gr, n),
         ChainIntact(sh, h, Len(gr) + 1), n.op # "Dead", LiveIntact(sh, h, Len(gr) + 1)
  PROVE  IsGraph(sh, h)
<1>1. gr \in Seq(NodeType) /\ DOMAIN gr = 1 .. Len(gr) /\ Len(gr) \in Nat /\ Len(gr) # 0
  BY DEF IsGraph
<1>2. /\ h \in Seq(NodeType) /\ DOMAIN h = 1 .. Len(gr) + 1 /\ h # <<>>
      /\ \A i \in DOMAIN gr : h[i] = gr[i] /\ i \in DOMAIN h
      /\ h[Len(gr) + 1] = n
  BY <1>1
<1>3. h[1].op = "Alloc"
  BY <1>1, <1>2 DEF IsGraph
<1>4. ASSUME NEW i \in DOMAIN gr
      PROVE  ChainIntact(sh, h, i) /\ (h[i].op # "Dead" => LiveIntact(sh, h, i))
  <2>1. ChainIntact(sh, gr, i) /\ (gr[i].op # "Dead" => LiveIntact(sh, gr, i)) /\ h[i] = gr[i]
    BY <1>2 DEF IsGraph
  <2>2. gr[i].mem # 0 => gr[i].mem \in DOMAIN gr
    BY <2>1, <1>1 DEF ChainIntact
  <2>3. ChainIntact(sh, h, i)
    BY <2>1, <2>2, <1>2 DEF ChainIntact
  <2>4. ASSUME gr[i].op # "Dead" PROVE LiveIntact(sh, h, i)
    <3>1. VersionIntact(sh, h, i)
      BY <2>1, <2>2, <2>4, <1>2 DEF LiveIntact, VersionIntact
    <3>2. gr[i].op = "Phi" => PhiIntact(sh, h, i)
      <4> SUFFICES ASSUME gr[i].op = "Phi" PROVE PhiIntact(sh, h, i)
        OBVIOUS
      <4>1. PhiIntact(sh, gr, i)
        BY <2>1 DEF LiveIntact
      <4>2. \A k \in DOMAIN gr[i].ins : /\ gr[i].ins[k] \in DOMAIN gr
                                        /\ h[gr[i].ins[k]] = gr[gr[i].ins[k]]
        BY <4>1, <1>2 DEF PhiIntact
      <4> QED BY <4>1, <4>2, <2>1, <1>1, <1>2 DEF PhiIntact
    <3>3. ASSUME NEW v \in Int, ValueIntact(gr, i, v) PROVE ValueIntact(h, i, v)
      BY <3>3, <2>1, <1>1, <1>2 DEF ValueIntact
    <3>4. gr[i].addr \in Int /\ gr[i].val \in Int
      <4>1. gr[i] \in NodeType
        BY <1>1
      <4> QED BY <4>1 DEF NodeType
    <3>5. LiveIntact(sh, gr, i) /\ h[i].addr = gr[i].addr /\ h[i].val = gr[i].val
          /\ h[i].op = gr[i].op /\ h[i].blk = gr[i].blk
      BY <2>1, <2>4
    <3>6. ValueIntact(h, i, h[i].addr) /\ ValueIntact(h, i, h[i].val)
      BY <3>3, <3>4, <3>5 DEF LiveIntact
    <3>7. sh = "loop" /\ h[i].blk = 1 => h[i].op = "Phi"
      BY <3>5 DEF LiveIntact
    <3>8. h[i].op # "Phi" => h[i].ins = <<>>
      BY <2>1, <3>5 DEF LiveIntact
    <3> QED BY <3>1, <3>2, <3>5, <3>6, <3>7, <3>8, Zenon DEF LiveIntact
  <2> QED BY <2>1, <2>3, <2>4
<1>5. \A i \in DOMAIN h : i \in DOMAIN gr \/ i = Len(gr) + 1
  BY <1>1, <1>2
<1> QED BY <1>2, <1>3, <1>4, <1>5 DEF IsGraph

\* The state between two statements: the current version is live and there.
IsState(s) == s \in [g : Seq(NodeType), mem : Nat, blk : 0 .. 3]
Built(sh, s) ==
  /\ IsState(s) /\ IsGraph(sh, s.g)
  /\ s.mem \in DOMAIN s.g /\ s.g[s.mem].op \in MemOps /\ Above(sh, s.g[s.mem].blk, s.blk)
  /\ ~(sh = "loop" /\ s.blk = 1)

\* A value the next statement may use.
Usable(s, v) == v \in DOMAIN s.g /\ s.g[v].op \in ValueOps /\ Dominates(s.g[v].blk, s.blk)

\* Statements add nodes to their block, none of them a merge, and change none.
Grown(s, t) == /\ DOMAIN s.g \subseteq DOMAIN t.g /\ t.blk = s.blk
               /\ \A i \in DOMAIN s.g : t.g[i] = s.g[i]
               /\ \A i \in DOMAIN t.g : i \notin DOMAIN s.g => /\ t.g[i].blk = s.blk
                                                            /\ t.g[i].op # "Phi"

\* Statements in a row only add.
LEMMA GrownTransitive ==
  ASSUME NEW s, NEW t, NEW u, Grown(s, t), Grown(t, u)
  PROVE  Grown(s, u)
BY DEF Grown

\* A value stays usable while statements are added.
LEMMA StaysUsable ==
  ASSUME NEW s, NEW t, NEW v, Grown(s, t), Usable(s, v)
  PROVE  Usable(t, v)
BY DEF Grown, Usable

\* What Emit makes of a node for a statement.
Simple == {"Alloc", "Load", "Store", "Call", "Use", "Inc", "Return"}
Emits(sh, s, n, t) ==
  /\ IsState(t) /\ IsGraph(sh, t.g) /\ Grown(s, t) /\ t.mem = s.mem /\ Built(sh, t)
  /\ Len(t.g) = Len(s.g) + 1 /\ Len(s.g) \in Nat /\ DOMAIN t.g = 1 .. Len(t.g)
  /\ t.g[Len(t.g)].op = n.op /\ t.g[Len(t.g)].blk = s.blk
MayEmit(sh, s, n) ==
  /\ Built(sh, s) /\ n \in NodeType /\ n.op \in Simple /\ n.ins = <<>>
  /\ n.addr > 0 => Usable(s, n.addr)
  /\ n.val > 0 => Usable(s, n.val)

\* Emitting a node without an effect on memory.
LEMMA Emitted ==
  ASSUME NEW sh, NEW s, NEW n, MayEmit(sh, s, n), NEW t, t = Emit(s, n)
  PROVE  Emits(sh, s, n, t)
<1>0. /\ Built(sh, s) /\ n \in NodeType /\ n.op \in Simple /\ n.ins = <<>>
      /\ n.addr > 0 => Usable(s, n.addr)
      /\ n.val > 0 => Usable(s, n.val)
  BY DEF MayEmit
<1> DEFINE m == [n EXCEPT !.mem = s.mem, !.blk = s.blk]
           i == Len(s.g) + 1
<1>1. /\ s \in [g : Seq(NodeType), mem : Nat, blk : 0 .. 3]
      /\ DOMAIN s.g = 1 .. Len(s.g) /\ Len(s.g) \in Nat /\ s.g \in Seq(NodeType)
      /\ s.mem \in Nat /\ s.blk \in 0 .. 3
  BY <1>0 DEF Built, IsState
<1>2. /\ m \in NodeType /\ m.op = n.op /\ m.mem = s.mem /\ m.blk = s.blk
      /\ m.addr = n.addr /\ m.val = n.val /\ m.ins = <<>> /\ n.addr \in Int /\ n.val \in Int
  BY <1>0, <1>1 DEF NodeType
<1> HIDE DEF m
<1>3. t = [s EXCEPT !.g = Append(s.g, m)]
  BY DEF Emit, m
<1>4. t.g = Append(s.g, m) /\ t.mem = s.mem /\ t.blk = s.blk /\ IsState(t)
  <2> DEFINE G == Append(s.g, m)
  <2>1. G \in Seq(NodeType)
    BY <1>1, <1>2
  <2> HIDE DEF G
  <2>2. t = [s EXCEPT !.g = G]
    BY <1>3 DEF G
  <2>3. t.g = G /\ t.mem = s.mem /\ t.blk = s.blk /\ IsState(t)
    <3> HIDE DEF NodeType
    <3> QED BY <2>1, <2>2, <1>1 DEF IsState
  <2> QED BY <2>3 DEF G
<1>5. /\ DOMAIN t.g = 1 .. i /\ Len(t.g) = i /\ t.g[i] = m
      /\ \A j \in DOMAIN s.g : t.g[j] = s.g[j] /\ j \in DOMAIN t.g
  BY <1>1, <1>2, <1>4
<1>6. ChainIntact(sh, t.g, i)
  BY <1>0, <1>1, <1>2, <1>5 DEF ChainIntact, Built
<1>7. LiveIntact(sh, t.g, i)
  <2>1. VersionIntact(sh, t.g, i)
    BY <1>0, <1>1, <1>2, <1>5 DEF VersionIntact, Built, MemOps
  <2>2. ASSUME NEW v \in Int, v > 0 => Usable(s, v) PROVE ValueIntact(t.g, i, v)
    BY <2>2, <1>1, <1>2, <1>5 DEF ValueIntact, Usable
  <2>3. t.g[i].addr = n.addr /\ t.g[i].val = n.val /\ t.g[i].op # "Phi"
    BY <1>0, <1>2, <1>5 DEF Simple
  <2>4. ~(sh = "loop" /\ t.g[i].blk = 1)
    BY <1>0, <1>2, <1>5 DEF Built
  <2>5. t.g[i].ins = <<>>
    BY <1>2, <1>5
  <2> QED BY <2>1, <2>2, <2>3, <2>4, <2>5, <1>0, <1>2 DEF LiveIntact
<1>8. IsGraph(sh, t.g)
  <2>1. IsGraph(sh, s.g) /\ m.op # "Dead"
    BY <1>0, <1>2 DEF Built, Simple
  <2> QED BY <2>1, <1>2, <1>4, <1>6, <1>7, AppendIntact
<1>9. Grown(s, t)
  <2>1. \A j \in DOMAIN t.g : j \notin DOMAIN s.g => j = i
    BY <1>5, <1>1
  <2>2. t.g[i].blk = s.blk /\ t.g[i].op # "Phi"
    BY <1>0, <1>2, <1>5 DEF Simple
  <2> QED BY <1>4, <1>5, <2>1, <2>2 DEF Grown
<1>10. Built(sh, t)
  <2>1. /\ s.mem \in DOMAIN s.g /\ s.g[s.mem].op \in MemOps /\ Above(sh, s.g[s.mem].blk, s.blk)
        /\ ~(sh = "loop" /\ s.blk = 1)
    BY <1>0 DEF Built
  <2> QED BY <2>1, <1>4, <1>5, <1>8 DEF Built
<1> QED BY <1>1, <1>2, <1>4, <1>5, <1>8, <1>9, <1>10 DEF Emits

Affects(sh, s, n, t) ==
  /\ Built(sh, t) /\ Grown(s, t)
  /\ Len(s.g) \in Nat /\ Len(t.g) = Len(s.g) + 1 /\ DOMAIN t.g = 1 .. Len(t.g)
  /\ t.mem = Len(t.g) /\ t.g[Len(t.g)].op = n.op /\ t.g[Len(t.g)].blk = s.blk

\* Emitting one with an effect: it is the current version from then on.
LEMMA EffectEmitted ==
  ASSUME NEW sh, NEW s, NEW n, MayEmit(sh, s, n), n.op \in MemOps, NEW t, t = EmitEffect(s, n)
  PROVE  Affects(sh, s, n, t)
<1> DEFINE u == Emit(s, n)
<1>0. u = Emit(s, n) /\ t = [u EXCEPT !.mem = Len(s.g) + 1]
  BY DEF EmitEffect
<1> HIDE DEF u
<1>e. Emits(sh, s, n, u)
  BY <1>0, Emitted, Zenon
<1>1. /\ IsState(u) /\ IsGraph(sh, u.g) /\ Grown(s, u) /\ Built(sh, u)
      /\ Len(u.g) = Len(s.g) + 1 /\ Len(s.g) \in Nat /\ u.g[Len(u.g)].op = n.op
      /\ u.g[Len(u.g)].blk = s.blk /\ DOMAIN u.g = 1 .. Len(u.g)
  BY <1>e DEF Emits
<1>3. t.g = u.g /\ t.mem = Len(s.g) + 1 /\ t.blk = u.blk /\ IsState(t)
  <2> HIDE DEF NodeType
  <2> QED BY <1>0, <1>1 DEF IsState
<1>4. t.blk = s.blk /\ Grown(s, t) /\ ~(sh = "loop" /\ s.blk = 1)
  BY <1>1, <1>3 DEF Grown, Built
<1>5. t.mem \in DOMAIN t.g /\ t.g[t.mem].op = n.op /\ t.g[t.mem].blk = t.blk
  BY <1>1, <1>3, <1>4
<1>6. Built(sh, t)
  BY <1>1, <1>3, <1>4, <1>5 DEF Built, Above
<1> QED BY <1>1, <1>3, <1>4, <1>6 DEF Affects

\* A statement leaves the graph intact and the builder at a live version.
Steps(sh, s, t) == Built(sh, t) /\ Grown(s, t)

\* Two statements in a row.
LEMMA StepsTransitive ==
  ASSUME NEW sh, NEW s, NEW t, NEW u, Steps(sh, s, t), Steps(sh, t, u)
  PROVE  Steps(sh, s, u)
BY GrownTransitive DEF Steps

\* The node just made is a value the next statement may use.
LEMMA LastUsable ==
  ASSUME NEW t, DOMAIN t.g = 1 .. Len(t.g), Len(t.g) \in Nat \ {0},
         t.g[Len(t.g)].op \in ValueOps, t.g[Len(t.g)].blk = t.blk
  PROVE  Usable(t, Len(t.g))
<1>1. Len(t.g) \in DOMAIN t.g
  OBVIOUS
<1> QED BY <1>1 DEF Usable, Dominates

\* A new node has the type, and no inputs yet.
LEMMA NodeTyped ==
  ASSUME NEW op \in Simple \cup MemOps, NEW n, n = Node(op, 0)
  PROVE  n \in NodeType /\ n.op = op /\ n.mem = 0 /\ n.addr = 0 /\ n.val = 0 /\ n.blk = 0 /\ n.ins = <<>>
<1>1. <<>> \in Seq(Int)
  OBVIOUS
<1> DEFINE e == <<>>
<1>2. e \in Seq(Int) /\ n = [op |-> op, blk |-> 0, mem |-> 0, addr |-> 0, added |-> FALSE,
                              off |-> 0, val |-> 0, ins |-> e]
  BY <1>1 DEF Node
<1> HIDE DEF e
<1>3. /\ op \in {"Alloc", "Load", "Store", "Call", "Phi", "Use", "Inc", "Value", "Return", "Dead"}
      /\ 0 \in 0 .. 3 /\ 0 \in Nat /\ 0 \in Int /\ FALSE \in BOOLEAN
  BY DEF Simple, MemOps
<1>4. n.op = op /\ n.mem = 0 /\ n.addr = 0 /\ n.val = 0 /\ n.blk = 0 /\ n.ins = <<>>
  BY <1>2 DEF e
<1>5. n \in NodeType
  <2> DEFINE no == FALSE
             Truths == BOOLEAN
             Inputs == Seq(Int)
  <2>1. NodeType = [op : {"Alloc", "Load", "Store", "Call", "Phi", "Use", "Inc", "Value", "Return",
                          "Dead"},
                    blk : 0 .. 3, mem : Nat, addr : Int, added : Truths, off : Int, val : Int,
                    ins : Inputs]
    BY DEF NodeType
  <2>2. no \in Truths /\ e \in Inputs
    BY <1>2
  <2>3. n = [op |-> op, blk |-> 0, mem |-> 0, addr |-> 0, added |-> no, off |-> 0, val |-> 0,
             ins |-> e]
    BY <1>2
  <2> HIDE DEF no, Truths, Inputs
  <2> QED BY <2>1, <2>2, <2>3, <1>3
<1> QED BY <1>4, <1>5

\* A load of an address.
LEMMA LoadEmitted ==
  ASSUME NEW sh, NEW s, Built(sh, s), NEW a \in Int, a > 0 => Usable(s, a),
         NEW added \in BOOLEAN, NEW off \in Int, NEW t, t = EmitLoad(s, a, added, off)
  PROVE  Steps(sh, s, t) /\ Usable(t, Len(t.g))
<1> DEFINE n == [Node("Load", 0) EXCEPT !.addr = a, !.added = added, !.off = off]
<1>1. n \in NodeType /\ n.op = "Load" /\ n.addr = a /\ n.val = 0 /\ n.ins = <<>>
  <2> DEFINE e == Node("Load", 0)
  <2>1. e \in NodeType /\ e.op = "Load" /\ e.val = 0 /\ e.ins = <<>>
    BY NodeTyped DEF Simple
  <2> HIDE DEF e
  <2>2. [e EXCEPT !.addr = a, !.added = added, !.off = off] \in NodeType
    BY <2>1 DEF NodeType
  <2> QED BY <2>1, <2>2 DEF NodeType, e
<1>2. t = Emit(s, n)
  BY DEF EmitLoad
<1> HIDE DEF n
<1>3. MayEmit(sh, s, n)
  BY <1>1 DEF MayEmit, Simple
<1>4. Emits(sh, s, n, t)
  BY <1>2, <1>3, Emitted, Zenon
<1>5. /\ Built(sh, t) /\ Grown(s, t) /\ DOMAIN t.g = 1 .. Len(t.g) /\ Len(t.g) \in Nat \ {0}
      /\ t.g[Len(t.g)].op = "Load" /\ t.g[Len(t.g)].blk = s.blk /\ t.blk = s.blk
  BY <1>1, <1>4 DEF Emits, Grown
<1> QED BY <1>5, LastUsable DEF Steps, ValueOps

\* A store to an address.
LEMMA StoreEmitted ==
  ASSUME NEW sh, NEW s, Built(sh, s), NEW a \in Int, a > 0 => Usable(s, a),
         NEW added \in BOOLEAN, NEW off \in Int, NEW v \in Int, v > 0 => Usable(s, v),
         NEW t, t = EmitStore(s, a, added, off, v)
  PROVE  Steps(sh, s, t) /\ t.mem = Len(t.g) /\ Len(t.g) = Len(s.g) + 1
<1> DEFINE w == IF v = 0 THEN -(Len(s.g) + 1) ELSE v
           n == [Node("Store", 0) EXCEPT !.addr = a, !.added = added, !.off = off, !.val = w]
<1>0. Len(s.g) \in Nat
  BY DEF Built, IsState
<1>1. w \in Int /\ (w > 0 => w = v)
  BY <1>0
<1>2. t = EmitEffect(s, n)
  BY DEF EmitStore
<1> HIDE DEF w
<1>3. n \in NodeType /\ n.op = "Store" /\ n.addr = a /\ n.val = w /\ n.ins = <<>>
  <2> DEFINE e == Node("Store", 0)
  <2>1. e \in NodeType /\ e.op = "Store" /\ e.ins = <<>>
    BY NodeTyped DEF Simple
  <2> HIDE DEF e
  <2>2. [e EXCEPT !.addr = a, !.added = added, !.off = off, !.val = w] \in NodeType
    BY <1>1, <2>1 DEF NodeType
  <2> QED BY <2>1, <2>2 DEF NodeType, e
<1> HIDE DEF n
<1>4. MayEmit(sh, s, n)
  BY <1>1, <1>3 DEF MayEmit, Simple
<1>5. Affects(sh, s, n, t)
  BY <1>2, <1>3, <1>4, EffectEmitted DEF MemOps
<1> QED BY <1>5 DEF Affects, Steps

\* The same for the addresses of the variables.
LEMMA PlainLoad ==
  ASSUME NEW sh, NEW s, Built(sh, s), NEW a \in Int, a > 0 => Usable(s, a),
         NEW t, t = EmitLoad(s, a, FALSE, 0)
  PROVE  Steps(sh, s, t) /\ Usable(t, Len(t.g))
<1> DEFINE no == FALSE
<1>1. no \in BOOLEAN /\ 0 \in Int /\ t = EmitLoad(s, a, no, 0)
  OBVIOUS
<1> HIDE DEF no
<1> QED BY <1>1, LoadEmitted

Writes(s, t, a, v) == t = EmitStore(s, a, FALSE, 0, v)

\* A store to a variable's own address.
LEMMA PlainStore ==
  ASSUME NEW sh, NEW s, Built(sh, s), NEW a \in Int, a > 0 => Usable(s, a),
         NEW v \in Int, v > 0 => Usable(s, v), NEW t, Writes(s, t, a, v)
  PROVE  Steps(sh, s, t) /\ t.mem = Len(t.g) /\ Len(t.g) = Len(s.g) + 1
<1>1. ASSUME NEW added \in BOOLEAN, NEW off \in Int, NEW u, u = EmitStore(s, a, added, off, v)
      PROVE  Steps(sh, s, u) /\ u.mem = Len(u.g) /\ Len(u.g) = Len(s.g) + 1
  BY <1>1, StoreEmitted
<1>2. FALSE \in BOOLEAN /\ 0 \in Int /\ t = EmitStore(s, a, FALSE, 0, v)
  BY DEF Writes
<1> QED BY <1>1, <1>2, Zenon

\* An allocation.
LEMMA AllocEmitted ==
  ASSUME NEW sh, NEW s, Built(sh, s), NEW t, t = EmitAlloc(s)
  PROVE  /\ Steps(sh, s, t) /\ t.mem = Len(t.g) /\ Usable(t, t.mem)
         /\ Len(t.g) = Len(s.g) + 1 /\ t.g[t.mem].op = "Alloc" /\ t.g[t.mem].blk = s.blk
<1> DEFINE n == Node("Alloc", 0)
<1>1. n \in NodeType /\ n.op = "Alloc" /\ n.addr = 0 /\ n.val = 0 /\ n.ins = <<>>
  BY NodeTyped DEF Simple
<1>2. t = EmitEffect(s, n)
  BY DEF EmitAlloc
<1> HIDE DEF n
<1>3. MayEmit(sh, s, n)
  BY <1>1 DEF MayEmit, Simple
<1>4. Affects(sh, s, n, t)
  BY <1>1, <1>2, <1>3, EffectEmitted DEF MemOps
<1>5. /\ Built(sh, t) /\ Grown(s, t) /\ t.mem = Len(t.g) /\ Len(t.g) = Len(s.g) + 1
      /\ Len(s.g) \in Nat /\ DOMAIN t.g = 1 .. Len(t.g)
      /\ t.g[Len(t.g)].op = "Alloc" /\ t.g[Len(t.g)].blk = s.blk /\ t.blk = s.blk
  BY <1>1, <1>4 DEF Affects, Grown
<1> QED BY <1>5, LastUsable DEF Steps, ValueOps

Calls(s, t, v) == t = EmitEffect(s, [Node("Call", 0) EXCEPT !.val = v])
Returns(s, t, v) == t = EmitEffect(s, [Node("Return", 0) EXCEPT !.val = v])

\* A call.
LEMMA CallEmitted ==
  ASSUME NEW sh, NEW s, Built(sh, s), NEW v \in Int, v > 0 => Usable(s, v),
         NEW t, Calls(s, t, v)
  PROVE  Steps(sh, s, t)
<1> DEFINE n == [Node("Call", 0) EXCEPT !.val = v]
<1>1. n \in NodeType /\ n.op = "Call" /\ n.addr = 0 /\ n.val = v /\ n.ins = <<>>
  <2> DEFINE e == Node("Call", 0)
  <2>1. e \in NodeType /\ e.op = "Call" /\ e.addr = 0 /\ e.ins = <<>>
    BY NodeTyped DEF Simple
  <2> HIDE DEF e
  <2>2. [e EXCEPT !.val = v] \in NodeType
    BY <2>1 DEF NodeType
  <2> QED BY <2>1, <2>2 DEF NodeType, e
<1>2. t = EmitEffect(s, n)
  BY DEF Calls
<1> HIDE DEF n
<1>3. MayEmit(sh, s, n)
  BY <1>1 DEF MayEmit, Simple
<1>4. Affects(sh, s, n, t)
  BY <1>1, <1>2, <1>3, EffectEmitted DEF MemOps
<1> QED BY <1>4 DEF Affects, Steps

\* A use of the value just made.
LEMMA UseEmitted ==
  ASSUME NEW sh, NEW s, Built(sh, s), Usable(s, Len(s.g)), NEW t, t = EmitUse(s)
  PROVE  Steps(sh, s, t)
<1> DEFINE n == [Node("Use", 0) EXCEPT !.val = Len(s.g)]
<1>0. Len(s.g) \in Nat
  BY DEF Built, IsState
<1>1. n \in NodeType /\ n.op = "Use" /\ n.addr = 0 /\ n.val = Len(s.g) /\ n.ins = <<>>
  <2> DEFINE e == Node("Use", 0)
  <2>1. e \in NodeType /\ e.op = "Use" /\ e.addr = 0 /\ e.ins = <<>>
    BY NodeTyped DEF Simple
  <2> HIDE DEF e
  <2>2. [e EXCEPT !.val = Len(s.g)] \in NodeType
    BY <1>0, <2>1 DEF NodeType
  <2> QED BY <2>1, <2>2 DEF NodeType, e
<1>2. t = Emit(s, n)
  BY DEF EmitUse
<1> HIDE DEF n
<1>3. MayEmit(sh, s, n)
  BY <1>1 DEF MayEmit, Simple
<1>4. Emits(sh, s, n, t)
  BY <1>2, <1>3, Emitted, Zenon
<1> QED BY <1>4 DEF Emits, Steps

\* The return, the last node.
LEMMA ReturnEmitted ==
  ASSUME NEW sh, NEW s, Built(sh, s), NEW v \in Int, v > 0 => Usable(s, v),
         NEW t, Returns(s, t, v)
  PROVE  IsGraph(sh, t.g)
<1> DEFINE n == [Node("Return", 0) EXCEPT !.val = v]
           u == Emit(s, n)
<1>1. n \in NodeType /\ n.op = "Return" /\ n.addr = 0 /\ n.val = v /\ n.ins = <<>>
  <2> DEFINE e == Node("Return", 0)
  <2>1. e \in NodeType /\ e.op = "Return" /\ e.addr = 0 /\ e.ins = <<>>
    BY NodeTyped DEF Simple
  <2> HIDE DEF e
  <2>2. [e EXCEPT !.val = v] \in NodeType
    BY <2>1 DEF NodeType
  <2> QED BY <2>1, <2>2 DEF NodeType, e
<1>2. u = Emit(s, n) /\ t = [u EXCEPT !.mem = Len(s.g) + 1]
  BY DEF Returns, EmitEffect
<1> HIDE DEF n, u
<1>3. MayEmit(sh, s, n)
  BY <1>1 DEF MayEmit, Simple
<1>4. Emits(sh, s, n, u)
  BY <1>2, <1>3, Emitted, Zenon
<1>5. IsGraph(sh, u.g) /\ IsState(u)
  BY <1>4 DEF Emits
<1>6. t.g = u.g
  BY <1>2, <1>5 DEF IsState
<1> QED BY <1>5, <1>6

-----------------------------------------------------------------------------
(* The shapes of control.                                                  *)

\* The allocations that stand for the variables are made at the entry.
Rooted(S, s) ==
  \A v \in S : v \in DOMAIN s.g /\ s.g[v].op = "Alloc" /\ s.g[v].blk = 0
Ready(sh, S, s) == Built(sh, s) /\ Rooted(S, s)

\* What a block may begin from.
MayBegin(sh, S, s, b, m) ==
  /\ IsState(s) /\ IsGraph(sh, s.g) /\ Rooted(S, s)
  /\ b \in 0 .. 3 /\ ~(sh = "loop" /\ b = 1)
  /\ m \in DOMAIN s.g /\ s.g[m].op \in MemOps /\ Above(sh, s.g[m].blk, b)

\* Everything so far stands in the entry, and nothing merges.
AtEntry(s) == s.blk = 0 /\ \A i \in DOMAIN s.g : s.g[i].blk = 0 /\ s.g[i].op # "Phi"

\* What stands in the entry may be used anywhere.
LEMMA RootsUsable ==
  ASSUME NEW S, NEW s, NEW v \in S, Rooted(S, s)
  PROVE  Usable(s, v)
BY DEF Rooted, Usable, ValueOps, Dominates

\* A statement leaves the builder ready for another,
LEMMA StepsReady ==
  ASSUME NEW sh, NEW S, NEW s, NEW t, Ready(sh, S, s), Steps(sh, s, t)
  PROVE  Ready(sh, S, t)
BY DEF Ready, Steps, Grown, Rooted

\* and at the entry when it was.
LEMMA EntryStays ==
  ASSUME NEW sh, NEW s, NEW t, AtEntry(s), Steps(sh, s, t)
  PROVE  AtEntry(t)
BY DEF AtEntry, Steps, Grown

\* The steps of the builder, by name.
Moves(s, t, b, m) == t = [s EXCEPT !.blk = b, !.mem = m]
Extends(s, t, n, b, m) == t = [[[s EXCEPT !.blk = b] EXCEPT !.g = Append(s.g, n)] EXCEPT !.mem = m]
IsPhi(n, m1, m2, b, m) == n = [[Node("Phi", 0) EXCEPT !.ins = <<m1, m2>>] EXCEPT !.mem = m, !.blk = b]
Joins(s, t, b, m1, m2) ==
  t = EmitEffect([s EXCEPT !.blk = b], [Node("Phi", 0) EXCEPT !.ins = <<m1, m2>>])

\* The builder goes on in another block.
LEMMA MovedState ==
  ASSUME NEW s, IsState(s), NEW b \in 0 .. 3, NEW m \in Nat, NEW t, Moves(s, t, b, m)
  PROVE  IsState(t) /\ t.g = s.g /\ t.blk = b /\ t.mem = m
<1> DEFINE N == Seq(NodeType)
<1>1. s \in [g : N, mem : Nat, blk : 0 .. 3] /\ t = [s EXCEPT !.blk = b, !.mem = m]
  BY DEF IsState, Moves
<1> HIDE DEF N
<1>2. t \in [g : N, mem : Nat, blk : 0 .. 3] /\ t.g = s.g /\ t.blk = b /\ t.mem = m
  BY <1>1
<1> QED BY <1>2 DEF IsState, N

\* A block begins ready.
LEMMA BlockBegins ==
  ASSUME NEW sh, NEW S, NEW s, NEW b, NEW m, MayBegin(sh, S, s, b, m),
         NEW t, Moves(s, t, b, m)
  PROVE  Ready(sh, S, t) /\ t.g = s.g /\ t.blk = b /\ t.mem = m
<1>0. m \in Nat
  <2>1. IsState(s) /\ m \in DOMAIN s.g
    BY DEF MayBegin
  <2> QED BY <2>1 DEF IsState
<1>1. IsState(t) /\ t.g = s.g /\ t.blk = b /\ t.mem = m
  <2>1. IsState(s) /\ b \in 0 .. 3
    BY DEF MayBegin
  <2> QED BY <2>1, <1>0, MovedState
<1> QED BY <1>1 DEF MayBegin, Ready, Built, Rooted

\* A merge of the versions two ways end in, in the block they join in.
MayMerge(sh, S, s, b, m1, m2) ==
  /\ sh # "loop" /\ b \in 1 .. 3 /\ IsState(s) /\ IsGraph(sh, s.g) /\ Rooted(S, s)
  /\ s.mem \in DOMAIN s.g /\ s.g[s.mem].op \in MemOps
  /\ m1 \in DOMAIN s.g /\ s.g[m1].op \in MemOps /\ m2 \in DOMAIN s.g /\ s.g[m2].op \in MemOps
  /\ s.g[m1].blk = s.g[m2].blk => s.g[m1].blk = 0
  /\ s.g[m1].blk # b /\ s.g[m2].blk # b

\* A merge has the type of a node.
LEMMA PhiTyped ==
  ASSUME NEW m1 \in Nat, NEW m2 \in Nat, NEW m \in Nat, NEW b \in 0 .. 3,
         NEW n, IsPhi(n, m1, m2, b, m)
  PROVE  /\ n \in NodeType /\ n.op = "Phi" /\ n.mem = m /\ n.blk = b /\ n.addr = 0 /\ n.val = 0
         /\ n.ins = <<m1, m2>>
<1> DEFINE e == Node("Phi", 0)
           I == <<m1, m2>>
<1>1. e \in NodeType /\ e.op = "Phi" /\ e.addr = 0 /\ e.val = 0
  BY NodeTyped DEF MemOps
<1>2. I \in Seq(Int)
  OBVIOUS
<1> HIDE DEF e, I
<1>3. n = [e EXCEPT !.ins = I, !.mem = m, !.blk = b]
  <2>1. n = [[e EXCEPT !.ins = I] EXCEPT !.mem = m, !.blk = b]
    BY DEF e, I, IsPhi
  <2> QED BY <1>1, <2>1 DEF NodeType
<1>4. n \in NodeType /\ n.op = e.op /\ n.mem = m /\ n.blk = b /\ n.addr = e.addr /\ n.val = e.val /\ n.ins = I
  BY <1>1, <1>2, <1>3 DEF NodeType
<1> QED BY <1>1, <1>4 DEF I

\* The state when a node is appended, field by field.
LEMMA StateExtended ==
  ASSUME NEW s, IsState(s), NEW n \in NodeType, NEW m \in Nat, NEW b \in 0 .. 3,
         NEW t, Extends(s, t, n, b, m)
  PROVE  /\ IsState(t) /\ t.g = Append(s.g, n) /\ t.mem = m /\ t.blk = b
         /\ Len(s.g) \in Nat /\ DOMAIN s.g = 1 .. Len(s.g) /\ DOMAIN t.g = 1 .. Len(s.g) + 1
         /\ t.g[Len(s.g) + 1] = n /\ \A i \in DOMAIN s.g : t.g[i] = s.g[i]
<1> DEFINE N == Seq(NodeType)
           G == Append(s.g, n)
<1>1. s \in [g : N, mem : Nat, blk : 0 .. 3] /\ G \in N
  BY DEF IsState
<1>2. /\ Len(s.g) \in Nat /\ DOMAIN s.g = 1 .. Len(s.g) /\ DOMAIN G = 1 .. Len(s.g) + 1
      /\ G[Len(s.g) + 1] = n /\ \A i \in DOMAIN s.g : G[i] = s.g[i]
  BY <1>1
<1> HIDE DEF N, G
<1>3. t = [[[s EXCEPT !.blk = b] EXCEPT !.g = G] EXCEPT !.mem = m]
  BY DEF G, Extends
<1>4. t \in [g : N, mem : Nat, blk : 0 .. 3] /\ t.g = G /\ t.blk = b /\ t.mem = m
  BY <1>1, <1>3
<1> QED BY <1>2, <1>4 DEF IsState, N, G

\* A merge is appended: what the new state is,
Joined(s, t, b, m1, m2) ==
  /\ IsState(t) /\ t.blk = b /\ t.mem = Len(s.g) + 1 /\ Len(s.g) \in Nat
  /\ DOMAIN t.g = 1 .. Len(s.g) + 1 /\ DOMAIN s.g = 1 .. Len(s.g)
  /\ \A i \in DOMAIN s.g : t.g[i] = s.g[i]
  /\ t.g[t.mem].op = "Phi" /\ t.g[t.mem].blk = b /\ t.g[t.mem].ins = <<m1, m2>>
  /\ t.g[t.mem].mem = s.mem

\* and that its graph is intact when the merge is.
LEMMA PhiAppended ==
  ASSUME NEW sh, NEW S, NEW s, NEW b \in 1 .. 3, NEW m1, NEW m2,
         IsState(s), IsGraph(sh, s.g), Rooted(S, s),
         s.mem \in DOMAIN s.g, s.g[s.mem].op \in MemOps, m1 \in DOMAIN s.g, m2 \in Nat,
         NEW t, Joins(s, t, b, m1, m2)
  PROVE  /\ Joined(s, t, b, m1, m2)
         /\ PhiIntact(sh, t.g, Len(s.g) + 1) => IsGraph(sh, t.g) /\ Rooted(S, t)
<1> DEFINE e == [Node("Phi", 0) EXCEPT !.ins = <<m1, m2>>]
           n == [e EXCEPT !.mem = s.mem, !.blk = b]
           i == Len(s.g) + 1
<1>1. Len(s.g) \in Nat /\ DOMAIN s.g = 1 .. Len(s.g) /\ s.mem \in Nat /\ m1 \in Nat /\ b \in 0 .. 3
      /\ i \in Nat
  BY DEF IsState
<1>2. /\ n \in NodeType /\ n.op = "Phi" /\ n.mem = s.mem /\ n.blk = b /\ n.addr = 0 /\ n.val = 0
      /\ n.ins = <<m1, m2>>
  <2>1. IsPhi(n, m1, m2, b, s.mem)
    BY DEF IsPhi
  <2>2. m1 \in Nat /\ m2 \in Nat /\ s.mem \in Nat /\ b \in 0 .. 3
    BY <1>1
  <2> HIDE DEF n, e, i
  <2> QED BY <2>1, <2>2, PhiTyped, SMTT(30)
<1>3. Extends(s, t, n, b, i)
  <2> HIDE DEF e
  <2>1. s \in [g : Seq(NodeType), mem : Nat, blk : 0 .. 3]
    BY DEF IsState
  <2>2. [s EXCEPT !.blk = b].g = s.g /\ [s EXCEPT !.blk = b].mem = s.mem /\ [s EXCEPT !.blk = b].blk = b
    BY <2>1
  <2> QED BY <2>2 DEF Joins, Extends, EmitEffect, Emit, e
<1> HIDE DEF n
<1>4. /\ IsState(t) /\ t.g = Append(s.g, n) /\ t.mem = i /\ t.blk = b
      /\ DOMAIN t.g = 1 .. i /\ t.g[i] = n /\ \A j \in DOMAIN s.g : t.g[j] = s.g[j]
  <2> HIDE DEF i
  <2>1. /\ IsState(t) /\ t.g = Append(s.g, n) /\ t.mem = i /\ t.blk = b
        /\ DOMAIN t.g = 1 .. Len(s.g) + 1 /\ t.g[Len(s.g) + 1] = n
        /\ \A j \in DOMAIN s.g : t.g[j] = s.g[j]
    BY <1>1, <1>2, <1>3, StateExtended
  <2> QED BY <2>1 DEF i
<1>5. ChainIntact(sh, t.g, i)
  BY <1>1, <1>2, <1>4 DEF ChainIntact
<1>6. Joined(s, t, b, m1, m2)
  BY <1>1, <1>2, <1>4 DEF Joined
<1> SUFFICES ASSUME PhiIntact(sh, t.g, i) PROVE IsGraph(sh, t.g) /\ Rooted(S, t)
  BY <1>6
<1>7. LiveIntact(sh, t.g, i)
  <2>1. VersionIntact(sh, t.g, i)
    BY <1>1, <1>2, <1>4 DEF VersionIntact, MemOps
  <2>2. ValueIntact(t.g, i, t.g[i].addr) /\ ValueIntact(t.g, i, t.g[i].val)
    BY <1>2, <1>4 DEF ValueIntact
  <2> QED BY <2>1, <2>2, <1>2, <1>4 DEF LiveIntact
<1>8. IsGraph(sh, t.g)
  <2>1. n.op # "Dead"
    BY <1>2
  <2> QED BY <2>1, <1>2, <1>4, <1>5, <1>7, AppendIntact
<1>9. Rooted(S, t)
  <2>1. \A j \in DOMAIN s.g : t.g[j] = s.g[j] /\ j \in DOMAIN t.g
    BY <1>1, <1>4
  <2> QED BY <2>1, Zenon DEF Rooted
<1> QED BY <1>8, <1>9

\* A join of two ways leaves the builder ready, with or without a merge.
LEMMA MergeReady ==
  ASSUME NEW sh, NEW S, NEW s, NEW b, NEW m1, NEW m2, MayMerge(sh, S, s, b, m1, m2),
         NEW t, t = Merge(s, b, m1, m2)
  PROVE  Ready(sh, S, t) /\ t.blk = b
<1>1. /\ sh # "loop" /\ b \in 1 .. 3 /\ IsState(s) /\ IsGraph(sh, s.g) /\ Rooted(S, s)
      /\ s.mem \in DOMAIN s.g /\ s.g[s.mem].op \in MemOps
      /\ m1 \in DOMAIN s.g /\ s.g[m1].op \in MemOps /\ m2 \in DOMAIN s.g /\ s.g[m2].op \in MemOps
      /\ s.g[m1].blk = s.g[m2].blk => s.g[m1].blk = 0
      /\ s.g[m1].blk # b /\ s.g[m2].blk # b
  BY DEF MayMerge
<1>2. b \in 0 .. 3 /\ Len(s.g) \in Nat /\ DOMAIN s.g = 1 .. Len(s.g) /\ m1 \in Nat /\ m2 \in Nat
  BY <1>1 DEF IsState
<1>3. CASE m1 = m2
  <2>1. MayBegin(sh, S, s, b, m1)
    BY <1>1, <1>2, <1>3 DEF MayBegin, Above
  <2>2. Moves(s, t, b, m1)
    BY <1>3 DEF Merge, Moves
  <2> QED BY <2>1, <2>2, BlockBegins
<1>4. CASE m1 # m2
  <2> DEFINE i == Len(s.g) + 1
  <2>1. Joins(s, t, b, m1, m2)
    BY <1>4 DEF Merge, Joins
  <2>2. /\ Joined(s, t, b, m1, m2)
        /\ PhiIntact(sh, t.g, Len(s.g) + 1) => IsGraph(sh, t.g) /\ Rooted(S, t)
    BY <1>1, <1>2, <2>1, PhiAppended
  <2>3. /\ IsState(t) /\ t.blk = b /\ t.mem = i /\ DOMAIN t.g = 1 .. i
        /\ \A j \in DOMAIN s.g : t.g[j] = s.g[j]
        /\ t.g[i].op = "Phi" /\ t.g[i].blk = b /\ t.g[i].ins = <<m1, m2>>
    BY <2>2, Zenon DEF Joined
  <2>4. PhiIntact(sh, t.g, i)
    <3> DEFINE I == t.g[i].ins
    <3>1. I # <<>> /\ DOMAIN I = {1, 2} /\ I[1] = m1 /\ I[2] = m2
      BY <2>3
    <3>2. m1 < i /\ m1 \in DOMAIN t.g /\ m2 \in DOMAIN t.g /\ t.g[m1] = s.g[m1] /\ t.g[m2] = s.g[m2]
      BY <1>1, <1>2, <2>3
    <3>3. ASSUME NEW c \in 0 .. 3, \A k \in DOMAIN I : Above(sh, c, t.g[I[k]].blk)
          PROVE  Above(sh, c, t.g[i].blk)
      <4>1. Above(sh, c, s.g[m1].blk) /\ Above(sh, c, s.g[m2].blk)
        BY <3>1, <3>2, <3>3
      <4> QED BY <4>1, <1>1 DEF Above
    <3>4. \A k \in DOMAIN I : I[k] \in DOMAIN t.g /\ t.g[I[k]].op \in MemOps
      BY <3>1, <3>2, <1>1
    <3> HIDE DEF I
    <3>5. I # <<>> /\ I[1] < i
      BY <3>1, <3>2
    <3> QED BY <3>3, <3>4, <3>5 DEF PhiIntact, I
  <2>5. IsGraph(sh, t.g) /\ Rooted(S, t)
    BY <2>2, <2>4
  <2>6. Built(sh, t)
    BY <2>3, <2>5, <1>1, <1>2 DEF Built, MemOps, Above
  <2> QED BY <2>3, <2>5, <2>6 DEF Ready
<1> QED BY <1>3, <1>4

\* The header of a loop: the body begins behind a merge of the entry with itself.
LEMMA LoopOpened ==
  ASSUME NEW S, NEW s, Ready("loop", S, s), AtEntry(s), NEW h, h = Len(s.g) + 1,
         NEW t, Joins(s, t, 1, s.mem, h)
  PROVE  /\ Joined(s, t, 1, s.mem, h) /\ MayBegin("loop", S, t, 2, h)
         /\ s.mem \in DOMAIN s.g /\ t.g[s.mem].blk = 0 /\ t.g[s.mem].op \in MemOps
<1>1. /\ IsState(s) /\ IsGraph("loop", s.g) /\ Rooted(S, s)
      /\ s.mem \in DOMAIN s.g /\ s.g[s.mem].op \in MemOps /\ s.g[s.mem].blk = 0
  BY DEF Ready, Built, AtEntry
<1>2. Len(s.g) \in Nat /\ DOMAIN s.g = 1 .. Len(s.g) /\ s.mem \in Nat /\ h \in Nat /\ 1 \in 1 .. 3
  BY <1>1 DEF IsState
<1>3. /\ Joined(s, t, 1, s.mem, h)
      /\ PhiIntact("loop", t.g, Len(s.g) + 1) => IsGraph("loop", t.g) /\ Rooted(S, t)
  BY <1>1, <1>2, PhiAppended
<1>4. /\ IsState(t) /\ t.blk = 1 /\ t.mem = h /\ DOMAIN t.g = 1 .. h
      /\ \A j \in DOMAIN s.g : t.g[j] = s.g[j]
      /\ t.g[h].op = "Phi" /\ t.g[h].blk = 1 /\ t.g[h].ins = <<s.mem, h>>
  BY <1>3, Zenon DEF Joined
<1>5. s.mem < h /\ s.mem \in DOMAIN t.g /\ h \in DOMAIN t.g /\ t.g[s.mem] = s.g[s.mem]
  BY <1>1, <1>2, <1>4
<1>6. PhiIntact("loop", t.g, h)
  <2> DEFINE I == t.g[h].ins
  <2>1. I # <<>> /\ DOMAIN I = {1, 2} /\ I[1] = s.mem /\ I[2] = h
    BY <1>4
  <2>2. \A k \in DOMAIN I : I[k] \in DOMAIN t.g /\ t.g[I[k]].op \in MemOps
    BY <2>1, <1>1, <1>4, <1>5 DEF MemOps
  <2>3. \A b \in 0 .. 3 : (\A k \in DOMAIN I : Above("loop", b, t.g[I[k]].blk)) => Above("loop", b, t.g[h].blk)
    BY <2>1
  <2> HIDE DEF I
  <2>4. I # <<>> /\ I[1] < h
    BY <2>1, <1>5
  <2> QED BY <2>2, <2>3, <2>4 DEF PhiIntact, I
<1>7. IsGraph("loop", t.g) /\ Rooted(S, t)
  BY <1>3, <1>6
<1> QED BY <1>1, <1>3, <1>4, <1>5, <1>7 DEF MayBegin, Above, MemOps

\* The one merge of a loop, and the version at the entry that it starts from.
Header(s, h, m) ==
  /\ h \in DOMAIN s.g /\ s.g[h].op = "Phi" /\ s.g[h].blk = 1 /\ s.g[h].mem = m
  /\ m \in DOMAIN s.g /\ m < h /\ s.g[m].op \in MemOps /\ s.g[m].blk = 0
  /\ \A i \in DOMAIN s.g : s.g[i].op = "Phi" => i = h

\* It gets the version the body ends in,
Closes(s, t, h, m) == t = [s EXCEPT !.g[h].ins = <<m, s.mem>>]
\* or goes, when the body has made none.
Drops(s, t, h, m) ==
  t = [s EXCEPT !.mem = IF @ = h THEN m ELSE @,
                !.g = [i \in DOMAIN s.g |->
                         IF i = h THEN [s.g[i] EXCEPT !.op = "Dead"]
                         ELSE IF s.g[i].mem = h THEN [s.g[i] EXCEPT !.mem = m]
                         ELSE s.g[i]]]

\* The statements of the body leave the header as it is.
LEMMA HeaderStays ==
  ASSUME NEW sh, NEW s, NEW t, NEW h, NEW m, Header(s, h, m), Steps(sh, s, t)
  PROVE  Header(t, h, m)
<1>1. /\ DOMAIN s.g \subseteq DOMAIN t.g
      /\ \A i \in DOMAIN s.g : t.g[i] = s.g[i]
      /\ \A i \in DOMAIN t.g : i \notin DOMAIN s.g => t.g[i].op # "Phi"
  BY DEF Steps, Grown
<1> QED BY <1>1 DEF Header

\* The state when the header is closed, field by field.
LEMMA ClosedFields ==
  ASSUME NEW s, IsState(s), NEW h \in DOMAIN s.g, NEW m \in Nat, NEW t, Closes(s, t, h, m)
  PROVE  /\ IsState(t) /\ DOMAIN t.g = DOMAIN s.g /\ t.mem = s.mem /\ t.blk = s.blk
         /\ \A i \in DOMAIN s.g : i # h => t.g[i] = s.g[i]
         /\ t.g[h].op = s.g[h].op /\ t.g[h].blk = s.g[h].blk /\ t.g[h].mem = s.g[h].mem
         /\ t.g[h].addr = s.g[h].addr /\ t.g[h].val = s.g[h].val
         /\ t.g[h].ins = <<m, s.mem>>
<1> DEFINE I == <<m, s.mem>>
           N == Seq(NodeType)
           z == [s.g[h] EXCEPT !.ins = I]
           G == [s.g EXCEPT ![h] = z]
<1>1. s \in [g : N, mem : Nat, blk : 0 .. 3]
  BY DEF IsState
<1>2. DOMAIN s.g = 1 .. Len(s.g) /\ Len(s.g) \in Nat /\ s.g[h] \in NodeType /\ I \in Seq(Int)
      /\ s.g = [i \in 1 .. Len(s.g) |-> s.g[i]] /\ \A i \in DOMAIN s.g : s.g[i] \in NodeType
  BY <1>1
<1>3. t = [s EXCEPT !.g = G]
  <2>1. [s EXCEPT !.g[h].ins = I] = [s EXCEPT !.g = [s.g EXCEPT ![h] = [s.g[h] EXCEPT !.ins = I]]]
    BY <1>1, <1>2
  <2> QED BY <2>1 DEF Closes
<1> HIDE DEF I
<1>4. /\ z \in NodeType /\ z.op = s.g[h].op /\ z.blk = s.g[h].blk /\ z.mem = s.g[h].mem
      /\ z.addr = s.g[h].addr /\ z.val = s.g[h].val /\ z.ins = I
  BY <1>2 DEF NodeType
<1> HIDE DEF z
<1>5. /\ G \in N /\ DOMAIN G = DOMAIN s.g /\ G[h] = z
      /\ \A i \in DOMAIN s.g : i # h => G[i] = s.g[i]
  <2>1. G \in [1 .. Len(s.g) -> NodeType]
    BY <1>2, <1>4
  <2>2. G \in N
    <3> HIDE DEF G
    <3> QED BY <2>1, <1>2, SequenceOf
  <2> QED BY <2>2, <1>2
<1> HIDE DEF G, N
<1>6. t \in [g : N, mem : Nat, blk : 0 .. 3] /\ t.g = G /\ t.mem = s.mem /\ t.blk = s.blk
  BY <1>1, <1>3, <1>5
<1> QED BY <1>4, <1>5, <1>6 DEF IsState, N, I

\* After a loop whose body made a version, the code behind it begins ready.
LEMMA LoopClosed ==
  ASSUME NEW S, NEW s, NEW h, NEW m, Ready("loop", S, s), Header(s, h, m),
         NEW t, Closes(s, t, h, m)
  PROVE  MayBegin("loop", S, t, 3, h) /\ Header(t, h, m)
<1>1. /\ IsState(s) /\ IsGraph("loop", s.g) /\ Rooted(S, s)
      /\ s.mem \in DOMAIN s.g /\ s.g[s.mem].op \in MemOps
  BY DEF Ready, Built
<1>2. /\ h \in DOMAIN s.g /\ s.g[h].op = "Phi" /\ s.g[h].blk = 1 /\ s.g[h].mem = m
      /\ m \in DOMAIN s.g /\ m < h /\ s.g[m].op \in MemOps /\ s.g[m].blk = 0
      /\ \A i \in DOMAIN s.g : s.g[i].op = "Phi" => i = h
  BY DEF Header
<1>3. m \in Nat /\ h \in Nat /\ DOMAIN s.g = 1 .. Len(s.g) /\ Len(s.g) \in Nat
  BY <1>1, <1>2 DEF IsState
<1>4. /\ IsState(t) /\ DOMAIN t.g = DOMAIN s.g /\ t.mem = s.mem /\ t.blk = s.blk
      /\ \A i \in DOMAIN s.g : i # h => t.g[i] = s.g[i]
      /\ t.g[h].op = s.g[h].op /\ t.g[h].blk = s.g[h].blk /\ t.g[h].mem = s.g[h].mem
      /\ t.g[h].addr = s.g[h].addr /\ t.g[h].val = s.g[h].val
      /\ t.g[h].ins = <<m, s.mem>>
  BY <1>1, <1>2, <1>3, ClosedFields
<1>5. \A i \in DOMAIN s.g : /\ t.g[i].op = s.g[i].op /\ t.g[i].blk = s.g[i].blk
                            /\ t.g[i].mem = s.g[i].mem /\ t.g[i].addr = s.g[i].addr
                            /\ t.g[i].val = s.g[i].val
  BY <1>4
<1>6. PhiIntact("loop", t.g, h)
  <2> DEFINE I == t.g[h].ins
  <2>1. I # <<>> /\ DOMAIN I = {1, 2} /\ I[1] = m /\ I[2] = s.mem
    BY <1>4
  <2>2. \A k \in DOMAIN I : I[k] \in DOMAIN t.g /\ t.g[I[k]].op \in MemOps
    BY <2>1, <1>1, <1>2, <1>4, <1>5
  <2>3. ASSUME NEW b \in 0 .. 3, \A k \in DOMAIN I : Above("loop", b, t.g[I[k]].blk)
        PROVE  Above("loop", b, t.g[h].blk)
    <3>1. Above("loop", b, 0)
      BY <2>1, <2>3, <1>2, <1>5
    <3>2. t.g[h].blk = 1
      BY <1>2, <1>5
    <3> QED BY <3>1, <3>2 DEF Above
  <2> HIDE DEF I
  <2>4. I # <<>> /\ I[1] < h
    BY <2>1, <1>2
  <2> QED BY <2>2, <2>3, <2>4 DEF PhiIntact, I
<1>7. ASSUME NEW i \in DOMAIN t.g
      PROVE  ChainIntact("loop", t.g, i) /\ (t.g[i].op # "Dead" => LiveIntact("loop", t.g, i))
  <2>1. /\ i \in DOMAIN s.g /\ i \in Nat
        /\ ChainIntact("loop", s.g, i) /\ (s.g[i].op # "Dead" => LiveIntact("loop", s.g, i))
    BY <1>1, <1>3, <1>4 DEF IsGraph
  <2>2. s.g[i].mem # 0 => s.g[i].mem \in DOMAIN s.g
    BY <2>1, <1>3 DEF ChainIntact
  <2>3. ChainIntact("loop", t.g, i)
    BY <2>1, <2>2, <1>5 DEF ChainIntact
  <2>4. ASSUME s.g[i].op # "Dead" PROVE LiveIntact("loop", t.g, i)
    <3>1. VersionIntact("loop", t.g, i)
      BY <2>1, <2>2, <2>4, <1>5 DEF LiveIntact, VersionIntact
    <3>2. t.g[i].op = "Phi" => PhiIntact("loop", t.g, i)
      BY <2>1, <1>2, <1>5, <1>6
    <3>3. ASSUME NEW v \in Int, ValueIntact(s.g, i, v) PROVE ValueIntact(t.g, i, v)
      <4>1. v > 0 /\ v < i => v \in DOMAIN s.g
        BY <2>1, <1>3
      <4> QED BY <3>3, <4>1, <2>1, <1>5 DEF ValueIntact
    <3>4. s.g[i].addr \in Int /\ s.g[i].val \in Int
      <4>1. s.g[i] \in NodeType
        BY <1>1, <2>1 DEF IsGraph
      <4> QED BY <4>1 DEF NodeType
    <3>5. ValueIntact(t.g, i, t.g[i].addr) /\ ValueIntact(t.g, i, t.g[i].val)
      <4>1. ValueIntact(s.g, i, s.g[i].addr) /\ ValueIntact(s.g, i, s.g[i].val)
        BY <2>1, <2>4 DEF LiveIntact
      <4>2. t.g[i].addr = s.g[i].addr /\ t.g[i].val = s.g[i].val
        BY <2>1, <1>5
      <4> QED BY <4>1, <4>2, <3>3, <3>4
    <3>6. t.g[i].blk = 1 => t.g[i].op = "Phi"
      BY <2>1, <2>4, <1>5 DEF LiveIntact
    <3>7. t.g[i].op # "Phi" => t.g[i].ins = <<>>
      BY <2>1, <2>4, <1>2, <1>4, <1>5 DEF LiveIntact
    <3> QED BY <3>1, <3>2, <3>5, <3>6, <3>7 DEF LiveIntact
  <2> QED BY <2>1, <2>3, <2>4, <1>5
<1>8. IsGraph("loop", t.g)
  <2>1. 1 \in DOMAIN s.g /\ s.g[1].op = "Alloc" /\ t.g \in Seq(NodeType)
    <3>1. s.g # <<>> /\ s.g[1].op = "Alloc" /\ s.g \in Seq(NodeType)
      BY <1>1 DEF IsGraph
    <3> QED BY <3>1, <1>4 DEF IsState
  <2>2. t.g # <<>> /\ t.g[1].op = "Alloc"
    BY <2>1, <1>4, <1>5
  <2> QED BY <2>1, <2>2, <1>7 DEF IsGraph
<1>9. Rooted(S, t)
  <2>1. \A j \in DOMAIN s.g : t.g[j].op = s.g[j].op /\ t.g[j].blk = s.g[j].blk /\ j \in DOMAIN t.g
    BY <1>4, <1>5
  <2> QED BY <2>1, <1>1, Zenon DEF Rooted
<1>10. h \in DOMAIN t.g /\ t.g[h].op \in MemOps /\ Above("loop", t.g[h].blk, 3)
  BY <1>2, <1>4, <1>5 DEF MemOps, Above
<1>11. Header(t, h, m)
  BY <1>2, <1>4, <1>5 DEF Header
<1> QED BY <1>4, <1>8, <1>9, <1>10, <1>11 DEF MayBegin

\* A dropped merge, field by field.
Dropped(s, t, h, m) ==
  /\ IsState(t) /\ DOMAIN t.g = DOMAIN s.g /\ t.blk = s.blk
  /\ t.mem = IF s.mem = h THEN m ELSE s.mem
  /\ \A i \in DOMAIN s.g :
       /\ t.g[i].op = IF i = h THEN "Dead" ELSE s.g[i].op
       /\ t.g[i].blk = s.g[i].blk /\ t.g[i].addr = s.g[i].addr /\ t.g[i].val = s.g[i].val
       /\ t.g[i].ins = s.g[i].ins
       /\ t.g[i].mem = IF i # h /\ s.g[i].mem = h THEN m ELSE s.g[i].mem

\* The state when the header is dropped, field by field.
LEMMA DroppedFields ==
  ASSUME NEW s, IsState(s), NEW h \in DOMAIN s.g, NEW m \in Nat, NEW t, Drops(s, t, h, m)
  PROVE  Dropped(s, t, h, m)
<1> DEFINE N == Seq(NodeType)
           w == IF s.mem = h THEN m ELSE s.mem
           z(i) == IF i = h THEN [s.g[i] EXCEPT !.op = "Dead"]
                   ELSE IF s.g[i].mem = h THEN [s.g[i] EXCEPT !.mem = m]
                   ELSE s.g[i]
           G == [i \in DOMAIN s.g |-> z(i)]
<1>1. s \in [g : N, mem : Nat, blk : 0 .. 3] /\ w \in Nat
  BY DEF IsState
<1>2. DOMAIN s.g = 1 .. Len(s.g) /\ Len(s.g) \in Nat /\ \A i \in DOMAIN s.g : s.g[i] \in NodeType
  BY <1>1
<1>3. t = [s EXCEPT !.mem = w, !.g = G]
  BY <1>1 DEF Drops
<1>4. ASSUME NEW i \in DOMAIN s.g
      PROVE  /\ z(i) \in NodeType
             /\ z(i).op = IF i = h THEN "Dead" ELSE s.g[i].op
             /\ z(i).blk = s.g[i].blk /\ z(i).addr = s.g[i].addr /\ z(i).val = s.g[i].val
             /\ z(i).ins = s.g[i].ins
             /\ z(i).mem = IF i # h /\ s.g[i].mem = h THEN m ELSE s.g[i].mem
  <2>0. s.g[i] \in NodeType
    BY <1>2
  <2>1. CASE i = h
    BY <2>0, <2>1 DEF NodeType
  <2>2. CASE i # h /\ s.g[i].mem = h
    BY <2>0, <2>2 DEF NodeType
  <2>3. CASE i # h /\ s.g[i].mem # h
    BY <2>0, <2>3
  <2> QED BY <2>1, <2>2, <2>3
<1> HIDE DEF z
<1>5. /\ G \in N /\ DOMAIN G = DOMAIN s.g /\ \A i \in DOMAIN s.g : G[i] = z(i)
  <2>1. G \in [1 .. Len(s.g) -> NodeType]
    BY <1>2, <1>4
  <2>2. G \in N
    <3> HIDE DEF G
    <3> QED BY <2>1, <1>2, SequenceOf
  <2> QED BY <2>2, <1>2
<1> HIDE DEF G, N, w
<1>6. t \in [g : N, mem : Nat, blk : 0 .. 3] /\ t.g = G /\ t.mem = w /\ t.blk = s.blk
  BY <1>1, <1>3, <1>5
<1>7. IsState(t) /\ DOMAIN t.g = DOMAIN s.g /\ t.blk = s.blk /\ t.mem = IF s.mem = h THEN m ELSE s.mem
  BY <1>5, <1>6 DEF IsState, N, w
<1>8. \A i \in DOMAIN s.g : t.g[i] = z(i)
  BY <1>5, <1>6
<1>9. ASSUME NEW i \in DOMAIN s.g
      PROVE  /\ t.g[i].op = IF i = h THEN "Dead" ELSE s.g[i].op
             /\ t.g[i].blk = s.g[i].blk /\ t.g[i].addr = s.g[i].addr /\ t.g[i].val = s.g[i].val
             /\ t.g[i].ins = s.g[i].ins
             /\ t.g[i].mem = IF i # h /\ s.g[i].mem = h THEN m ELSE s.g[i].mem
  <2>1. t.g[i] = z(i)
    BY <1>8
  <2> QED BY <2>1, <1>4
<1> QED BY <1>7, <1>9, Zenon DEF Dropped

\* After a loop whose body made no version, the header is gone and the builder ready.
LEMMA LoopDropped ==
  ASSUME NEW S, NEW s, NEW h, NEW m, Ready("loop", S, s), Header(s, h, m),
         NEW t, Drops(s, t, h, m)
  PROVE  Ready("loop", S, t)
<1>1. /\ IsState(s) /\ IsGraph("loop", s.g) /\ Rooted(S, s)
      /\ s.mem \in DOMAIN s.g /\ s.g[s.mem].op \in MemOps /\ Above("loop", s.g[s.mem].blk, s.blk)
      /\ s.blk # 1
  BY DEF Ready, Built
<1>2. /\ h \in DOMAIN s.g /\ s.g[h].op = "Phi" /\ s.g[h].blk = 1 /\ s.g[h].mem = m
      /\ m \in DOMAIN s.g /\ m < h /\ s.g[m].op \in MemOps /\ s.g[m].blk = 0
      /\ \A i \in DOMAIN s.g : s.g[i].op = "Phi" => i = h
  BY DEF Header
<1>3. m \in Nat /\ h \in Nat /\ DOMAIN s.g = 1 .. Len(s.g) /\ Len(s.g) \in Nat
  BY <1>1, <1>2 DEF IsState
<1>d. Dropped(s, t, h, m)
  BY <1>1, <1>2, <1>3, DroppedFields
<1>4. IsState(t) /\ DOMAIN t.g = DOMAIN s.g /\ t.blk = s.blk /\ t.mem = IF s.mem = h THEN m ELSE s.mem
  BY <1>d DEF Dropped
<1>5. \A i \in DOMAIN s.g :
        /\ t.g[i].op = IF i = h THEN "Dead" ELSE s.g[i].op
        /\ t.g[i].blk = s.g[i].blk /\ t.g[i].addr = s.g[i].addr /\ t.g[i].val = s.g[i].val
        /\ t.g[i].mem = IF i # h /\ s.g[i].mem = h THEN m ELSE s.g[i].mem
        /\ t.g[i].ins = s.g[i].ins
  BY <1>d DEF Dropped
<1>6. t.g[m].op \in MemOps /\ t.g[m].blk = 0 /\ m # 0 /\ m # h
  BY <1>2, <1>3, <1>5
<1>7. ASSUME NEW i \in DOMAIN t.g
      PROVE  ChainIntact("loop", t.g, i) /\ (t.g[i].op # "Dead" => LiveIntact("loop", t.g, i))
  <2>1. /\ i \in DOMAIN s.g /\ i \in Nat /\ i > 0
        /\ ChainIntact("loop", s.g, i) /\ (s.g[i].op # "Dead" => LiveIntact("loop", s.g, i))
    BY <1>1, <1>3, <1>4 DEF IsGraph
  <2>2. s.g[i].mem \in 0 .. i - 1 /\ (s.g[i].mem # 0 => s.g[i].mem \in DOMAIN s.g)
        /\ (i > 1 => s.g[i].mem # 0)
        /\ (s.g[i].mem # 0 => s.g[s.g[i].mem].op \in MemOps \cup {"Dead"})
    BY <2>1, <1>3 DEF ChainIntact
  <2>3. ChainIntact("loop", t.g, i)
    <3>1. CASE i # h /\ s.g[i].mem = h
      <4>1. t.g[i].mem = m
        BY <3>1, <2>1, <1>5
      <4> QED BY <4>1, <3>1, <2>1, <2>2, <1>2, <1>3, <1>6 DEF ChainIntact
    <3>2. CASE ~(i # h /\ s.g[i].mem = h)
      <4>1. t.g[i].mem = s.g[i].mem
        BY <3>2, <2>1, <1>5
      <4>2. s.g[i].mem # 0 => t.g[s.g[i].mem].op \in MemOps \cup {"Dead"}
        BY <2>2, <1>5
      <4> QED BY <4>1, <4>2, <2>2 DEF ChainIntact
    <3> QED BY <3>1, <3>2
  <2>4. ASSUME t.g[i].op # "Dead" PROVE LiveIntact("loop", t.g, i)
    <3>0. i # h /\ t.g[i].op = s.g[i].op /\ LiveIntact("loop", s.g, i) /\ s.g[i].op # "Phi"
      BY <2>1, <2>4, <1>2, <1>5
    <3>1. VersionIntact("loop", t.g, i)
      <4>1. CASE s.g[i].mem = h
        <5>1. t.g[i].mem = m
          BY <3>0, <4>1, <2>1, <1>5
        <5> QED BY <5>1, <1>6 DEF VersionIntact, Above, MemOps
      <4>2. CASE s.g[i].mem # h
        <5>1. t.g[i].mem = s.g[i].mem
          BY <3>0, <4>2, <2>1, <1>5
        <5>2. VersionIntact("loop", s.g, i)
          BY <3>0 DEF LiveIntact
        <5>3. s.g[i].mem # 0 => /\ t.g[s.g[i].mem].op = s.g[s.g[i].mem].op
                                /\ t.g[s.g[i].mem].blk = s.g[s.g[i].mem].blk
          BY <2>2, <4>2, <1>5
        <5> QED BY <5>1, <5>2, <5>3, <3>0, <2>1, <1>5 DEF VersionIntact
      <4> QED BY <4>1, <4>2
    <3>3. ASSUME NEW v \in Int, ValueIntact(s.g, i, v) PROVE ValueIntact(t.g, i, v)
      <4> SUFFICES ASSUME v > 0
                   PROVE  v < i /\ t.g[v].op \in ValueOps /\ Dominates(t.g[v].blk, t.g[i].blk)
        BY DEF ValueIntact
      <4>1. v < i /\ s.g[v].op \in ValueOps /\ Dominates(s.g[v].blk, s.g[i].blk)
        BY <3>3 DEF ValueIntact
      <4>2. v \in DOMAIN s.g /\ v # h
        BY <4>1, <2>1, <1>2, <1>3 DEF ValueOps
      <4> QED BY <4>1, <4>2, <2>1, <1>5
    <3>4. s.g[i].addr \in Int /\ s.g[i].val \in Int
      <4>1. s.g[i] \in NodeType
        BY <1>1, <2>1 DEF IsGraph
      <4> QED BY <4>1 DEF NodeType
    <3>5. ValueIntact(t.g, i, t.g[i].addr) /\ ValueIntact(t.g, i, t.g[i].val)
      <4>1. ValueIntact(s.g, i, s.g[i].addr) /\ ValueIntact(s.g, i, s.g[i].val)
        BY <3>0 DEF LiveIntact
      <4>2. t.g[i].addr = s.g[i].addr /\ t.g[i].val = s.g[i].val
        BY <2>1, <1>5
      <4> QED BY <4>1, <4>2, <3>3, <3>4
    <3>6. t.g[i].blk = 1 => t.g[i].op = "Phi"
      <4>1. s.g[i].blk # 1
        BY <3>0 DEF LiveIntact
      <4> QED BY <4>1, <2>1, <1>5
    <3>7. t.g[i].ins = <<>>
      BY <3>0, <2>1, <1>5 DEF LiveIntact
    <3> QED BY <3>0, <3>1, <3>5, <3>6, <3>7 DEF LiveIntact
  <2> QED BY <2>3, <2>4
<1>8. IsGraph("loop", t.g)
  <2>1. 1 \in DOMAIN s.g /\ s.g[1].op = "Alloc" /\ t.g \in Seq(NodeType)
    <3>1. s.g # <<>> /\ s.g[1].op = "Alloc" /\ s.g \in Seq(NodeType)
      BY <1>1 DEF IsGraph
    <3> QED BY <3>1, <1>4 DEF IsState
  <2>2. t.g # <<>> /\ t.g[1].op = "Alloc"
    <3>1. t.g[1].op = "Alloc"
      BY <2>1, <1>2, <1>5
    <3> QED BY <2>1, <3>1, <1>4
  <2> QED BY <2>1, <2>2, <1>7 DEF IsGraph
<1>9. Rooted(S, t)
  <2>1. \A j \in DOMAIN s.g : s.g[j].op = "Alloc" => /\ t.g[j].op = "Alloc" /\ j \in DOMAIN t.g
                                                    /\ t.g[j].blk = s.g[j].blk
    BY <1>2, <1>4, <1>5
  <2> QED BY <2>1, <1>1, Zenon DEF Rooted
<1>10. t.mem \in DOMAIN t.g /\ t.g[t.mem].op \in MemOps /\ Above("loop", t.g[t.mem].blk, t.blk)
  <2>1. CASE s.mem = h
    BY <2>1, <1>2, <1>4, <1>6 DEF Above
  <2>2. CASE s.mem # h
    BY <2>2, <1>1, <1>4, <1>5
  <2> QED BY <2>1, <2>2
<1> QED BY <1>1, <1>4, <1>8, <1>9, <1>10 DEF Ready, Built

-----------------------------------------------------------------------------
(* The variables' slots, at the entry.                                     *)

Entry(sh, S, s, n) == Ready(sh, S, s) /\ AtEntry(s) /\ Len(s.g) = n /\ n \in Nat

\* The first allocation, on which the chain begins;
LEMMA FirstAlloc ==
  ASSUME NEW sh, NEW t, t = EmitAlloc([g |-> <<>>, mem |-> 0, blk |-> 0])
  PROVE  Entry(sh, {1}, t, 1)
<1> DEFINE s == [g |-> <<>>, mem |-> 0, blk |-> 0]
           e == Node("Alloc", 0)
           n == [e EXCEPT !.mem = 0, !.blk = 0]
           N == Seq(NodeType)
           G == <<n>>
<1>1. e \in NodeType /\ e.op = "Alloc" /\ e.mem = 0 /\ e.addr = 0 /\ e.val = 0 /\ e.blk = 0
      /\ e.ins = <<>>
  BY NodeTyped DEF Simple
<1> HIDE DEF e
<1>2. n \in NodeType /\ n.op = "Alloc" /\ n.mem = 0 /\ n.addr = 0 /\ n.val = 0 /\ n.blk = 0
      /\ n.ins = <<>>
  BY <1>1 DEF NodeType
<1>3. t = [g |-> <<n>>, mem |-> 1, blk |-> 0]
  <2>1. Len(s.g) + 1 = 1 /\ s.g = <<>> /\ s.mem = 0 /\ s.blk = 0
    OBVIOUS
  <2>2. Emit(s, e) = [g |-> <<n>>, mem |-> 0, blk |-> 0]
    <3>1. Emit(s, e) = [s EXCEPT !.g = Append(<<>>, n)]
      BY <2>1 DEF Emit
    <3> HIDE DEF n
    <3>2. Append(<<>>, n) = <<n>>
      OBVIOUS
    <3> QED BY <3>1, <3>2
  <2>3. t = [Emit(s, e) EXCEPT !.mem = 1]
    BY <2>1 DEF EmitAlloc, EmitEffect, e
  <2> QED BY <2>2, <2>3
<1> HIDE DEF n
<1>4. G \in N /\ Len(G) = 1 /\ DOMAIN G = {1} /\ G[1] = n /\ G # <<>>
  BY <1>2
<1> HIDE DEF G, N
<1>5. t.g = G /\ t.mem = 1 /\ t.blk = 0 /\ t \in [g : N, mem : Nat, blk : 0 .. 3]
  BY <1>3, <1>4 DEF G
<1>6. IsState(t)
  BY <1>5 DEF IsState, N
<1>7. IsGraph(sh, t.g)
  <2>1. ChainIntact(sh, t.g, 1)
    BY <1>2, <1>4, <1>5 DEF ChainIntact
  <2>2. LiveIntact(sh, t.g, 1)
    BY <1>2, <1>4, <1>5 DEF LiveIntact, VersionIntact, ValueIntact
  <2> QED BY <2>1, <2>2, <1>2, <1>4, <1>5 DEF IsGraph, N
<1>8. Built(sh, t) /\ Rooted({1}, t) /\ AtEntry(t)
  BY <1>2, <1>4, <1>5, <1>6, <1>7 DEF Built, Rooted, AtEntry, MemOps, Above
<1> QED BY <1>4, <1>5, <1>8 DEF Entry, Ready

\* another one;
LEMMA RootAdded ==
  ASSUME NEW sh, NEW S, NEW s, NEW n, Entry(sh, S, s, n), NEW t, t = EmitAlloc(s)
  PROVE  Entry(sh, S \cup {n + 1}, t, n + 1) /\ t.mem = n + 1
<1>1. Ready(sh, S, s) /\ Built(sh, s) /\ AtEntry(s) /\ Len(s.g) = n /\ n \in Nat /\ s.blk = 0
  BY DEF Entry, Ready, AtEntry
<1>2. /\ Steps(sh, s, t) /\ t.mem = Len(t.g) /\ Usable(t, t.mem)
      /\ Len(t.g) = n + 1 /\ t.g[t.mem].op = "Alloc" /\ t.g[t.mem].blk = 0
  BY <1>1, AllocEmitted
<1>3. Ready(sh, S, t) /\ AtEntry(t)
  BY <1>1, <1>2, StepsReady, EntryStays
<1>4. Rooted(S \cup {n + 1}, t)
  BY <1>2, <1>3 DEF Ready, Rooted, Usable
<1> QED BY <1>1, <1>2, <1>3, <1>4 DEF Entry, Ready

\* and the store that initialises one.
LEMMA EntryStored ==
  ASSUME NEW sh, NEW S, NEW s, NEW n, Entry(sh, S, s, n), NEW a \in S, NEW v \in Int,
         v > 0 => v \in S, NEW t, Writes(s, t, a, v)
  PROVE  Entry(sh, S, t, n + 1)
<1>1. Ready(sh, S, s) /\ Built(sh, s) /\ AtEntry(s) /\ Len(s.g) = n /\ n \in Nat /\ Rooted(S, s)
      /\ IsState(s)
  BY DEF Entry, Ready, AtEntry, Built
<1>2. a \in Int
  <2>1. a \in DOMAIN s.g
    BY <1>1 DEF Rooted
  <2> QED BY <2>1, <1>1 DEF IsState
<1>3. Usable(s, a) /\ (v > 0 => Usable(s, v))
  BY <1>1, RootsUsable
<1>4. Steps(sh, s, t) /\ Len(t.g) = Len(s.g) + 1
  BY <1>1, <1>2, <1>3, PlainStore
<1>5. Ready(sh, S, t) /\ AtEntry(t) /\ Len(t.g) = n + 1 /\ n + 1 \in Nat
  BY <1>1, <1>4, StepsReady, EntryStays
<1> QED BY <1>5 DEF Entry

-----------------------------------------------------------------------------
(* A walk down the chain past what is dead.                                *)

FollowRule(gr, f, k) == IF k # 0 /\ gr[k].op = "Dead" THEN f[gr[k].mem] ELSE k
Followed(gr) == CHOOSE F : F = [k \in 0 .. Len(gr) |-> FollowRule(gr, F, k)]

\* The walk ends, whatever is dead: it has one result from every node.
LEMMA FollowedExists ==
  ASSUME NEW sh, NEW gr, IsGraph(sh, gr)
  PROVE  Followed(gr) = [k \in 0 .. Len(gr) |-> FollowRule(gr, Followed(gr), k)]
<1> DEFINE S == 0 .. Len(gr)
           D == 0 .. Len(gr)
           R == [z \in [S -> D] \X S |-> FollowRule(gr, z[1], z[2])]
           mu == [k \in S |-> k]
<1>1. Len(gr) \in Nat /\ DOMAIN gr = 1 .. Len(gr)
  BY DEF IsGraph
<1>2. \A k \in S : k # 0 => gr[k].mem \in 0 .. k - 1 /\ gr[k].mem \in S
  BY <1>1 DEF IsGraph, ChainIntact
<1>3. \A f \in [S -> D], x \in S : R[<<f, x>>] = FollowRule(gr, f, x)
  OBVIOUS
<1>4. \A f \in [S -> D], x \in S : R[<<f, x>>] \in D
  BY <1>2, <1>3 DEF FollowRule
<1>5. mu \in [S -> Nat]
  BY <1>1
<1>6. ASSUME NEW f \in [S -> D], NEW h \in [S -> D], NEW x \in S,
             \A y \in S : mu[y] < mu[x] => f[y] = h[y]
      PROVE  R[<<f, x>>] = R[<<h, x>>]
  <2>1. x # 0 => f[gr[x].mem] = h[gr[x].mem]
    <3> SUFFICES ASSUME x # 0 PROVE f[gr[x].mem] = h[gr[x].mem]
      OBVIOUS
    <3>1. gr[x].mem \in S /\ gr[x].mem < x
      BY <1>1, <1>2
    <3>2. mu[gr[x].mem] < mu[x]
      BY <3>1
    <3> QED BY <3>1, <3>2, <1>6
  <2>2. FollowRule(gr, f, x) = FollowRule(gr, h, x)
    BY <2>1 DEF FollowRule
  <2> QED BY <2>2, <1>3
<1>7. Local(R, S, D, mu)
  <2> HIDE DEF R, S, D, mu
  <2> QED BY <1>4, <1>5, <1>6 DEF Local
<1>8. 0 \in D
  BY <1>1
<1>9. \E f \in [S -> D] : \A x \in S : f[x] = R[<<f, x>>]
  <2> HIDE DEF R, S, D, mu
  <2> QED BY <1>7, <1>8, MeasuredRecursion
<1>10. PICK f \in [S -> D] : \A x \in S : f[x] = FollowRule(gr, f, x)
  <2> HIDE DEF R, S, D
  <2> QED BY <1>3, <1>9
<1>11. f = [k \in S |-> FollowRule(gr, f, k)]
  BY <1>10
<1> QED BY <1>11 DEF Followed

=============================================================================
