---------------------------- MODULE MemoryGraph ----------------------------
(***************************************************************************)
(* The sea-of-nodes graph of one function as its memory passes see it: the *)
(* nodes the builder emits for statements over memory slots, what they do  *)
(* when they are executed, the search for the store a load reads, and the  *)
(* rewrites the passes make.                                               *)
(*                                                                         *)
(* A node is named by its place in the graph, as in the code; 0 is Start,  *)
(* and -n is the constant that node n stores.  A graph is executed in node *)
(* order inside a block: the order CFGLinearization's memory rule keeps.   *)
(***************************************************************************)
EXTENDS Integers, Sequences, SequencesExt

Node(op, b) == [op |-> op, blk |-> b, mem |-> 0, addr |-> 0, added |-> FALSE,
                off |-> 0, val |-> 0, ins |-> <<>>]

Emit(s, n) == [s EXCEPT !.g = Append(@, [n EXCEPT !.mem = s.mem, !.blk = s.blk])]
EmitEffect(s, n) == [Emit(s, n) EXCEPT !.mem = Len(s.g) + 1]

EmitLoad(s, a, added, off) ==
  Emit(s, [Node("Load", 0) EXCEPT !.addr = a, !.added = added, !.off = off])
EmitStore(s, a, added, off, v) ==
  EmitEffect(s, [Node("Store", 0) EXCEPT !.addr = a, !.added = added, !.off = off,
                   !.val = IF v = 0 THEN -(Len(s.g) + 1) ELSE v])
EmitAlloc(s) == EmitEffect(s, Node("Alloc", 0))
EmitUse(s) == Emit(s, [Node("Use", 0) EXCEPT !.val = Len(s.g)])

\* A merge of equal versions is no merge (pass 7 runs before pass 21).
Merge(s, b, m1, m2) ==
  IF m1 = m2 THEN [s EXCEPT !.blk = b, !.mem = m1]
  ELSE EmitEffect([s EXCEPT !.blk = b], [Node("Phi", 0) EXCEPT !.ins = <<m1, m2>>])

\* The three shapes of control: blocks in node order, each a sequence of statements
\* that Do(s, statement) emits into the state s of the builder.
Block(Do(_, _), s, b, mem, stmts) ==
  LET After[k \in 0 .. Len(stmts)] ==
        IF k = 0 THEN [s EXCEPT !.blk = b, !.mem = mem] ELSE Do(After[k - 1], stmts[k])
  IN  After[Len(stmts)]

Line(Do(_, _), s, body) == Block(Do, s, 0, s.mem, body[1])

Diamond(Do(_, _), s, body) ==
  LET s0 == Line(Do, s, body)
      s1 == Block(Do, s0, 1, s0.mem, body[2])
      s2 == Block(Do, s1, 2, s0.mem, body[3])
      s3 == Merge(s2, 3, s1.mem, s2.mem)
  IN  Block(Do, s3, 3, s3.mem, body[4])

\* The header's phi stands before the body; a body that stores nothing leaves none.
Loop(Do(_, _), s, body) ==
  LET s0 == Line(Do, s, body)
      h  == Len(s0.g) + 1
      s1 == EmitEffect([s0 EXCEPT !.blk = 1], [Node("Phi", 0) EXCEPT !.ins = <<s0.mem, h>>])
      s2 == Block(Do, s1, 2, h, body[2])
      s3 == Block(Do, [s2 EXCEPT !.g[h].ins = <<s0.mem, s2.mem>>], 3, h, body[4])
      keep == s2.mem # h
  IN  IF keep THEN s3
      ELSE [s3 EXCEPT !.mem = IF @ = h THEN s0.mem ELSE @,
                      !.g = [i \in DOMAIN s3.g |->
                               IF i = h THEN [s3.g[i] EXCEPT !.op = "Dead"]
                               ELSE IF s3.g[i].mem = h THEN [s3.g[i] EXCEPT !.mem = s0.mem]
                               ELSE s3.g[i]]]

Shape(Do(_, _), s, sh, body) ==
  CASE sh = "line" -> Line(Do, s, body)
    [] sh = "diamond" -> Diamond(Do, s, body)
    [] sh = "loop" -> Loop(Do, s, body)

\* The ways through them; block 1 of a loop is its header.
Paths(sh) == CASE sh = "line" -> {<<0>>}
               [] sh = "diamond" -> {<<0, 1, 3>>, <<0, 2, 3>>}
               [] sh = "loop" -> {<<0, 1, 3>>, <<0, 1, 2, 1, 3>>, <<0, 1, 2, 1, 2, 1, 3>>}

\* Block 0 is the entry; no other block of a diamond dominates another, and a
\* loop's body does not dominate its exit.
Dominates(a, b) == a = b \/ a = 0

-----------------------------------------------------------------------------
(* What the nodes do.                                                      *)

Allocs(gr) == {i \in DOMAIN gr : gr[i].op = "Alloc"}
Resolves(gr, n) == ~n.added /\ n.addr \in Allocs(gr)

ValueOf(e, v) == IF v > 0 THEN e.env[v] ELSE v
Read(e, c) == IF c \in DOMAIN e.mem THEN e.mem[c] ELSE 0
Reachable(e, a) == <<Read(e, <<a, 0>>), Read(e, <<a, 1>>)>>

Execute(gr, e, i) ==
  LET n == gr[i]
      a == ValueOf(e, n.addr)
      c == <<a, n.off>>
      v == ValueOf(e, n.val)
      met == IF Resolves(gr, n) THEN [e EXCEPT !.direct = @ \cup {c}]
             ELSE [e EXCEPT !.through = @ \cup {c}]
  IN CASE n.op = "Alloc" -> [e EXCEPT !.env[i] = i,
                               !.mem = [d \in {x \in DOMAIN e.mem : x[1] # i} |-> e.mem[d]]]
       [] n.op = "Load" -> [met EXCEPT !.env[i] = Read(e, c),
                                       !.bad = @ \/ a <= 0 \/ Read(e, c) = 0]
       [] n.op = "Store" -> [met EXCEPT !.mem = (c :> v) @@ @, !.bad = @ \/ a <= 0]
       [] n.op = "Call" -> [e EXCEPT !.seen = Append(@, <<i, Reachable(e, v)>>),
                                     !.mem = (<<v, 0>> :> -i) @@ @, !.bad = @ \/ v <= 0]
       [] n.op = "Inc" -> [e EXCEPT !.env[i] = v - 50]
       [] n.op = "Use" -> [e EXCEPT !.seen = Append(@, <<i, v>>)]
       [] n.op = "Return" /\ v # 0 -> [e EXCEPT !.seen = Append(@, <<i, Reachable(e, v)>>)]
       [] OTHER -> e

\* The live nodes along a path, in the order they are executed.
Order(gr, path) ==
  FoldLeft(LAMBDA acc, b : acc \o SelectSeq([i \in 1 .. Len(gr) |-> i],
                                           LAMBDA i : gr[i].blk = b /\ gr[i].op \notin {"Dead", "Phi", "Value"}),
           <<>>, path)

-----------------------------------------------------------------------------
(* The search up the memory chain.                                         *)

\* The allocation an address leads back to: itself, through casts; an addition
\* or a loaded pointer leads nowhere.
BaseOf(gr, n) == IF Resolves(gr, n) THEN n.addr ELSE 0

SameBase(gr, n, m) == BaseOf(gr, n) # 0 /\ BaseOf(gr, n) = BaseOf(gr, m)

\* The store of the same base that a walk up the memory chain finds first, the
\* same one along every input of a phi; 0 when there is none to be sure of.
ReachingStore(gr, l) ==
  LET Up[w \in (0 .. Len(gr)) \X SUBSET DOMAIN gr] ==
        LET m == w[1]
            visiting == w[2]
        IN  IF m = 0 THEN 0
            ELSE CASE gr[m].op = "Store" -> IF SameBase(gr, gr[m], gr[l]) THEN m
                                            ELSE Up[<<gr[m].mem, visiting>>]
                   [] gr[m].op = "Alloc" -> Up[<<gr[m].mem, visiting>>]
                   [] gr[m].op = "Phi" ->
                        LET found == {IF i \in visiting THEN 0 ELSE Up[<<i, visiting \cup {i}>>] :
                                        i \in ToSet(gr[m].ins)}
                        IN  IF \E d \in found : found = {d} THEN CHOOSE d \in found : TRUE ELSE 0
                   [] OTHER -> 0
  IN  Up[<<gr[l].mem, {}>>]

-----------------------------------------------------------------------------
(* Rewriting.  A killed node keeps its inputs.                             *)

Swap(v, from, to) == IF v = from THEN to ELSE v

ReplaceAllUses(gr, from, to) ==
  [i \in DOMAIN gr |-> [gr[i] EXCEPT !.mem = Swap(@, from, to), !.addr = Swap(@, from, to),
                          !.val = Swap(@, from, to),
                          !.ins = [k \in DOMAIN gr[i].ins |-> Swap(gr[i].ins[k], from, to)]]]

Relink_NotPhis(gr, from, to) ==
  [i \in DOMAIN gr |-> [gr[i] EXCEPT !.mem = Swap(@, from, to)]]
ReplaceUsesAsMemory(gr, from, to) ==
  [i \in DOMAIN gr |-> [gr[i] EXCEPT !.mem = Swap(@, from, to),
                          !.ins = [k \in DOMAIN gr[i].ins |-> Swap(gr[i].ins[k], from, to)]]]

Kill(gr, n) == [gr EXCEPT ![n].op = "Dead"]
=============================================================================
