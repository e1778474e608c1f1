-------------------------------- MODULE Isel --------------------------------
(* The planner of instruction selection (targets/x86_64/x64_dp_isel.cpp and  *)
(* x64_ilp_isel.cpp): which nodes of a block are roots emitted from a cell,   *)
(* which are suppressed because a root computes them inline, and with what    *)
(* machine form. A cell is the form chosen for one node; a reference says     *)
(* whether the form reads a node's slot (Leaf), computes it in place (Chain)   *)
(* or takes an immediate.                                                     *)
(*                                                                           *)
(* First the function as linearization hands it over (core/codegen/linear.h, *)
(* core/son/node.h): numbered nodes, and blocks that schedule them. And what *)
(* it means: the trace and the result of a run, which the machine code of    *)
(* Mir has to show as well.                                                  *)
(*                                                                           *)
(* A node has an operation, a type, a sub-operation (or comparison), inputs  *)
(* and a value (constants: the constant; parameters: the position). A block  *)
(* has its kind of head, its scheduled nodes, its phis, how it ends, and the *)
(* node the end reads (0: none). Input k of a phi comes from predecessor k.  *)
EXTENDS Mir

-----------------------------------------------------------------------------
(* The function.                                                             *)


Node(op, ty, sub, in, val) == [op |-> op, ty |-> ty, sub |-> sub, in |-> in, val |-> val]
Const(ty, v) == Node("Const", ty, "", <<>>, v)
Param(ty, k) == Node("Param", ty, "", <<>>, k)
Phi(ty, in) == Node("Phi", ty, "", in, 0)
BinOf(ty, sub, a, b) == Node("Bin", ty, sub, <<a, b>>, 0)
CmpOf(sub, a, b) == Node("Cmp", "i1", sub, <<a, b>>, 0)

SizeOf(ty) == IF ty \in {"i32", "u32"} THEN 4 ELSE 8
IsSigned(ty) == ty \in {"i64", "i32"}
IsFp(ty) == ty = "f64"

\* A function (params: their types) with what the passes ask of it: how often a node is read, by
\* which nodes, and the block that schedules it (0: none).
Reads(node, blocks, n) ==
  Cardinality({r \in UNION {{<<u, k>> : k \in DOMAIN node[u].in} : u \in DOMAIN node} : node[r[1]].in[r[2]] = n})
  + Cardinality({b \in DOMAIN blocks : blocks[b].arg = n})
Function(params, node, blocks) ==
  [params |-> params, node |-> node, blocks |-> blocks,
   reads |-> [n \in DOMAIN node |-> Reads(node, blocks, n)],
   users |-> [n \in DOMAIN node |-> {u \in DOMAIN node : n \in ToSet(node[u].in)}],
   home |-> [n \in DOMAIN node |->
               IF \E b \in DOMAIN blocks : n \in ToSet(blocks[b].nodes)
               THEN CHOOSE b \in DOMAIN blocks : n \in ToSet(blocks[b].nodes) ELSE 0]]
Block(head, nodes, phis, arg, succs, preds) ==
  [head |-> head, nodes |-> nodes, phis |-> phis, arg |-> arg, succs |-> succs, preds |-> preds]

\* The copies at the end of block p: what each phi of its successors takes.
Position(seq, x) == CHOOSE k \in DOMAIN seq : seq[k] = x
CopiesInto(f, p, s) ==
  LET b == f.blocks[s] IN
  [k \in DOMAIN b.phis |-> <<f.node[b.phis[k]].in[Position(b.preds, p)], b.phis[k]>>]
Copies(f, p) == FlattenSeq([k \in DOMAIN f.blocks[p].succs |-> CopiesInto(f, p, f.blocks[p].succs[k])])

(***************************************************************************)
(* A run of the function.                                                  *)
(***************************************************************************)
Relation(rel, x, y) ==
  CASE rel = "Eq" -> x = y [] rel = "Ne" -> x # y [] rel = "Lt" -> x < y
    [] rel = "Le" -> x <= y [] rel = "Gt" -> x > y [] rel = "Ge" -> x >= y
Truth(p) == IF p THEN 1 ELSE 0
Number(ty, x) == IF IsSigned(ty) THEN Signed(x, SizeOf(ty)) ELSE x

IntBin(ty, sub, x, y) ==
  LET p == Number(ty, x) q == Number(ty, y) IN
  IF sub = "Div" THEN Truncated(p, q)
  ELSE IF sub = "Mod" THEN p - q * Truncated(p, q)
  ELSE IF sub \in {"Shl", "Shr"} THEN ShiftValue(sub, IsSigned(ty), x, y, SizeOf(ty))
  ELSE BinValue(sub, x, y)

FpRelation(rel, x, y) ==
  IF x = NaN \/ y = NaN THEN rel = "Ne" ELSE Relation(rel, IntOf(x), IntOf(y))

CastValue(sub, from, x, ty) ==
  CASE sub = "SExt" -> Signed(x, SizeOf(from)) [] sub = "SiToFp" -> FpOf(Number(from, x))
    [] sub = "FpToSi" -> IntOf(x) [] OTHER -> x

\* The value of a node without effects, of its inputs' values x.
PureValue(f, n, x) ==
  LET d == f.node[n] ty == f.node[d.in[1]].ty IN
  IF IsFp(d.ty) /\ d.op = "Bin" THEN
       IF d.sub = "Max" THEN FpValue("Max", x[2], x[1]) ELSE FpValue(d.sub, x[1], x[2])
  ELSE Cut(CASE d.op = "Bin" -> IntBin(d.ty, d.sub, x[1], x[2])
             [] d.op = "Cmp" -> Truth(IF IsFp(ty) THEN FpRelation(d.sub, x[1], x[2])
                                      ELSE Relation(d.sub, Number(ty, x[1]), Number(ty, x[2])))
             [] d.op = "Un" -> IF IsFp(d.ty) THEN FpNegated(x[1])
                               ELSE IF d.sub = "Neg" THEN -x[1]
                               ELSE IF d.sub = "Not" THEN 1 - x[1] ELSE Word - 1 - x[1]
             [] d.op = "Cast" -> CastValue(d.sub, ty, x[1], d.ty)
             [] d.op = "Select" -> IF x[1] = 1 THEN x[2] ELSE x[3]
             [] d.op = "Load" -> Memory(x[1], SizeOf(d.ty)), SizeOf(d.ty))

\* e holds the values so far, the trace and the number of calls.
\* A division by zero faults, and one whose quotient no word holds.
Faults(d, x) ==
  /\ d.op = "Bin" /\ d.sub \in {"Div", "Mod"}
  /\ x[2] = 0 \/ (d.ty = "i64" /\ x[1] = Word \div 2 /\ x[2] = Word - 1)
Evaluated(f, e, n) ==
  LET d == f.node[n]
      x == [k \in DOMAIN d.in |-> e.v[d.in[k]]]
      size(k) == SizeOf(f.node[d.in[k]].ty)
  IN IF e.stop THEN e
     ELSE IF d.op = "Store" THEN [e EXCEPT !.t = Append(@, <<"store", x[1], x[2], size(2)>>)]
     ELSE IF d.op = "Call" THEN
       [e EXCEPT !.t = Append(@, <<"call", x[1]>>), !.calls = @ + 1,
                 !.v[n] = Cut(Result(e.calls), SizeOf(d.ty))]
     ELSE IF Faults(d, x) THEN [e EXCEPT !.t = Append(@, <<"fault", 0>>), !.stop = TRUE]
     ELSE [e EXCEPT !.v[n] = PureValue(f, n, x)]

RECURSIVE Flow(_, _, _, _)
Flow(f, e, b, fuel) ==
  LET block == f.blocks[b]
      after == FoldLeft(LAMBDA s, n : Evaluated(f, s, n), e, block.nodes)
      copies == Copies(f, b)
      moved == [n \in DOMAIN f.node |->
                  IF \E k \in DOMAIN copies : copies[k][2] = n
                  THEN after.v[copies[CHOOSE k \in DOMAIN copies : copies[k][2] = n][1]]
                  ELSE after.v[n]]
      next == IF Len(block.succs) = 1 THEN block.succs[1]
              ELSE CHOOSE s \in ToSet(block.succs) :
                     f.blocks[s].head = IF after.v[block.arg] = 1 THEN "IfTrue" ELSE "IfFalse"
  IN IF after.stop THEN [trace |-> after.t, value |-> 0]
     ELSE IF block.succs = <<>> THEN
       [trace |-> after.t, value |-> IF block.arg = 0 THEN 0 ELSE after.v[block.arg]]
     ELSE IF fuel = 0 THEN [trace |-> after.t, value |-> 0]
     ELSE Flow(f, [after EXCEPT !.v = moved], next, fuel - 1)

Initial(f, args) ==
  [n \in DOMAIN f.node |->
     CASE f.node[n].op = "Param" -> Cut(args[f.node[n].val], SizeOf(f.node[n].ty))
       [] f.node[n].op = "Const" -> Cut(f.node[n].val, SizeOf(f.node[n].ty))
       [] OTHER -> 0]
Meaning(f, args) ==
  Flow(f, [v |-> Initial(f, args), t |-> <<>>, calls |-> 0, stop |-> FALSE], 1, 30)

-----------------------------------------------------------------------------
(* The planner.                                                              *)


Total(S, g(_)) == MapThenSumSet(g, S)
Largest(S) == CHOOSE x \in S : \A y \in S : y <= x

CLd == 3
CSt == 1
CImm == 1
COp == 1
CMul == 3
CDiv == 30
Inf == 1000000

IsConst(f, n) == f.node[n].op = "Const"
IsBin(f, n, subs) == f.node[n].op = "Bin" /\ f.node[n].sub \in subs
IntScalar(ty) == ty # "f64"
LeaWidth(ty) == ty \in {"i64", "u64"}
ChainSubs == {"Add", "Sub", "Mul", "And", "Or", "Xor"}
Commuting == {"Add", "And", "Or", "Xor", "Mul"}
Divisions == {"Div", "Mod"}
Scales == {1, 2, 4, 8}
OpCost(sub) == IF sub = "Mul" THEN CMul ELSE IF sub \in Divisions THEN CDiv ELSE COp
LeafCost(f, n) == IF IsConst(f, n) THEN CImm ELSE CLd

\* t as an index of a SIB address: a node and a scale, node 0 if it is none.
Term(n, scale) == [n |-> n, scale |-> scale]
IndexTerm(f, t) ==
  LET a == f.node[t].in[1] b == f.node[t].in[2] IN
  IF IsBin(f, t, {"Mul"}) /\ LeaWidth(f.node[t].ty) THEN
       IF IsConst(f, a) /\ f.node[a].val \in Scales THEN Term(b, f.node[a].val)
       ELSE IF IsConst(f, b) /\ f.node[b].val \in Scales THEN Term(a, f.node[b].val)
       ELSE Term(0, 1)
  ELSE IF IsBin(f, t, {"Shl"}) /\ LeaWidth(f.node[t].ty) /\ IsConst(f, b) /\ f.node[b].val \in 0 .. 3
       THEN Term(a, 2 ^ f.node[b].val)
  ELSE Term(0, 1)

\* The multiplier and shift of a division by d, and whether the multiplier
\* needs one bit more than a word (the increment form).
NoMagic == [m |-> 0, s |-> 0, inc |-> FALSE]
MagicOf(d) ==
  LET pow(s) == Word * 2 ^ s
      num(s) == (pow(s) + d - 1) \div d
      ends == {s \in 0 .. 2 * Half - 1 : num(s) >= Word \/ num(s) * d - pow(s) <= 2 ^ s}
      s == CHOOSE x \in ends : \A y \in ends : x <= y
  IN IF d < 3 \/ d \in {2 ^ k : k \in 0 .. 2 * Half} \/ ends = {} THEN NoMagic
     ELSE IF num(s) < Word THEN [m |-> num(s), s |-> s, inc |-> FALSE]
     ELSE [m |-> num(s) - Word, s |-> s, inc |-> TRUE]

(***************************************************************************)
(* Cells.                                                                  *)
(***************************************************************************)
Ref(k, n, imm) == [k |-> k, n |-> n, imm |-> imm]
NoRef == Ref("none", 0, 0)
Cell(form, a, b, base, idx, size) ==
  [form |-> form, a |-> a, b |-> b, base |-> base, idx |-> idx, size |-> size, scale |-> 1,
   disp |-> 0, absorb |-> {}, bin |-> "Add", big |-> FALSE, magic |-> NoMagic, cost |-> 0]
\* What the rules offer: cost, instructions and rank decide, in this order.
Offer(cell, cost, instrs, rank) == [cell |-> [cell EXCEPT !.cost = cost], instrs |-> instrs, rank |-> rank]
Cheaper(x, y) ==
  \/ x.cell.cost < y.cell.cost
  \/ x.cell.cost = y.cell.cost /\ x.instrs < y.instrs
  \/ x.cell.cost = y.cell.cost /\ x.instrs = y.instrs /\ x.rank < y.rank

\* p is the plan of block b: act of each node, the cells, and the nodes the
\* fused branch suppressed.
Chainable(f, p, b, n) ==
  /\ n \notin p.fused /\ f.home[n] = b
  /\ f.node[n].op = "Bin" /\ IntScalar(f.node[n].ty)
  /\ \/ f.node[n].sub \in ChainSubs
     \/ f.node[n].sub = "Shl" /\ IsConst(f, f.node[n].in[2])
OnlyUser(f, n, u) == f.reads[n] = 1 /\ f.users[n] = {u}
Consume(f, p, b, n, u) ==
  IF Chainable(f, p, b, n) /\ OnlyUser(f, n, u) THEN Ref("Chain", n, 0) ELSE Ref("Leaf", n, 0)
RefCost(f, p, r) ==
  IF r.k = "Leaf" THEN LeafCost(f, r.n)
  ELSE IF r.k = "Chain" THEN IF r.n \in DOMAIN p.cell THEN p.cell[r.n].cost ELSE Inf
  ELSE 0
Loads(r) == IF r.k = "Chain" THEN 0 ELSE 1

ShlOffers(f, p, b, n) ==
  LET d == f.node[n] l == d.in[1] r == d.in[2]
      of(x, k) == LET src == Consume(f, p, b, x, n) IN
        {Offer([Cell("ShlImm", src, NoRef, NoRef, NoRef, SizeOf(d.ty)) EXCEPT !.disp = k],
               RefCost(f, p, src) + COp, Loads(src) + 1, 0)}
      shift(v) == CHOOSE k \in 0 .. 3 : 2 ^ k = v
  IN IF d.sub = "Mul" /\ IsConst(f, l) /\ f.node[l].val \in Scales THEN of(r, shift(f.node[l].val))
     ELSE IF d.sub = "Mul" /\ IsConst(f, r) /\ f.node[r].val \in Scales THEN of(l, shift(f.node[r].val))
     ELSE IF d.sub = "Shl" /\ IsConst(f, r) /\ f.node[r].val \in 0 .. 2 * Half - 1 THEN of(l, f.node[r].val)
     ELSE {}

\* An address: base 0 means none, ok whether the shape matched.
Address(ok, base, idx, scale, disp, absorb) ==
  [ok |-> ok, base |-> base, idx |-> idx, scale |-> scale, disp |-> disp, absorb |-> absorb]
NoAddress == Address(FALSE, 0, 0, 1, 0, {})
Single(f, x, u) == IF OnlyUser(f, x, u) THEN {x} ELSE {}

\* x + disp, where x was reached through the addends in inner; n is the root.
SumWithDisp(f, x, left, right, disp, outer) ==
  LET d == f.node[x] IN
  IF right.n # 0 THEN Address(TRUE, d.in[1], right.n, right.scale, disp, outer \cup Single(f, d.in[2], x))
  ELSE IF left.n # 0 THEN Address(TRUE, d.in[2], left.n, left.scale, disp, outer \cup Single(f, d.in[1], x))
  ELSE IF disp # 0 THEN Address(TRUE, d.in[1], d.in[2], 1, disp, outer)
  ELSE NoAddress
TermWithDisp(term, disp, outer) ==
  IF term.n # 0 THEN Address(TRUE, 0, term.n, term.scale, disp, outer) ELSE NoAddress
WithDisp(f, x, disp, outer) ==
  LET d == f.node[x] IN
  IF IsBin(f, x, {"Add"}) /\ LeaWidth(d.ty)
  THEN SumWithDisp(f, x, IndexTerm(f, d.in[1]), IndexTerm(f, d.in[2]), disp, outer)
  ELSE TermWithDisp(IndexTerm(f, x), disp, outer)
Through(f, n, x, disp, inner) == WithDisp(f, x, disp, IF OnlyUser(f, x, n) THEN {x} ELSE inner)

\* The address n adds up: two addends, or an addend x and a constant c, which
\* x may be the sum of another addend and constant of.
ScaledSum(f, n, lt, rt) ==
  LET l == f.node[n].in[1] r == f.node[n].in[2] IN
  IF rt.n # 0 THEN Address(TRUE, l, rt.n, rt.scale, 0, Single(f, r, n))
  ELSE IF lt.n # 0 THEN Address(TRUE, r, lt.n, lt.scale, 0, Single(f, l, n))
  ELSE NoAddress
Displaced(f, n, x, c) ==
  LET d == f.node[x] IN
  IF IsBin(f, x, {"Add"}) /\ LeaWidth(d.ty) /\ (IsConst(f, d.in[1]) \/ IsConst(f, d.in[2]))
  THEN LET k == IF IsConst(f, d.in[2]) THEN 2 ELSE 1 IN
       Through(f, n, d.in[3 - k], f.node[c].val + f.node[d.in[k]].val, Single(f, x, n))
  ELSE Through(f, n, x, f.node[c].val, {})
AddAddress(f, n) ==
  LET l == f.node[n].in[1] r == f.node[n].in[2] IN
  IF IsConst(f, r) THEN Displaced(f, n, l, r)
  ELSE IF IsConst(f, l) THEN Displaced(f, n, r, l)
  ELSE ScaledSum(f, n, IndexTerm(f, l), IndexTerm(f, r))

\* A multiplication by 3, 5 or 9 is x + x * scale.
OddAddress(f, n) ==
  LET l == f.node[n].in[1] r == f.node[n].in[2]
      odd(c) == IsConst(f, c) /\ f.node[c].val \in {3, 5, 9}
      of(x, c) == Address(TRUE, x, x, f.node[c].val - 1, 0, {})
  IN IF odd(l) /\ ~IsConst(f, r) THEN of(r, l)
     ELSE IF odd(r) /\ ~IsConst(f, l) THEN of(l, r) ELSE NoAddress

\* Casts between pointers and words of values that always have a slot.
Uncast(f, n) ==
  IF n # 0 /\ f.node[n].op = "Cast" /\ f.node[n].sub = "Ptr"
     /\ f.node[f.node[n].in[1]].op \in {"Param", "Const"}
  THEN f.node[n].in[1] ELSE n

LeaCell(form, a, rb, ri) ==
  [Cell(form, NoRef, NoRef, rb, ri, 8) EXCEPT !.scale = a.scale, !.disp = a.disp, !.absorb = a.absorb]
LeaOffer(f, p, a, rb, ri) ==
  IF a.base = 0 THEN {Offer(LeaCell("LeaRR", a, NoRef, ri), RefCost(f, p, ri) + COp, 1 + Loads(ri), 2)}
  ELSE {Offer(LeaCell("Lea2", a, rb, ri), RefCost(f, p, rb) + RefCost(f, p, ri) + COp, 1 + Loads(rb) + Loads(ri), 3)}
LeaAt(f, p, b, n, a) ==
  LET base == Consume(f, p, b, Uncast(f, a.base), n) IN
  IF ~a.ok \/ (a.base = 0 /\ a.disp = 0) \/ ~FitsImm(a.disp) THEN {}
  ELSE IF a.base # 0 /\ base.k = "Chain" THEN LeaOffer(f, p, a, base, Ref("Leaf", Uncast(f, a.idx), 0))
  ELSE LeaOffer(f, p, a, base, Consume(f, p, b, Uncast(f, a.idx), n))
LeaOffers(f, p, b, n) ==
  LET d == f.node[n] IN
  IF ~LeaWidth(d.ty) THEN {}
  ELSE IF d.sub = "Add" THEN LeaAt(f, p, b, n, AddAddress(f, n))
  ELSE IF d.sub = "Mul" THEN LeaAt(f, p, b, n, OddAddress(f, n)) ELSE {}

MagicSteps(d, c, m) ==
  LET sgn == IsSigned(d.ty) IN
  (IF sgn /\ SizeOf(d.ty) = 4 THEN 1 ELSE 0) + (IF sgn THEN 8 ELSE 0) + 1
  + (IF m.inc THEN 3 ELSE IF m.s > 0 THEN 1 ELSE 0) + (IF sgn /\ c < 0 THEN 1 ELSE 0)
MagicOffer(f, n, c, m, steps) ==
  LET d == f.node[n] mod == d.sub = "Mod" IN
  IF m = NoMagic THEN {}
  ELSE {Offer([Cell("Magic", Ref("Leaf", d.in[1], 0), NoRef, NoRef, NoRef, SizeOf(d.ty))
                 EXCEPT !.disp = c, !.magic = m, !.bin = d.sub, !.big = IsSigned(d.ty)],
              LeafCost(f, d.in[1]) + steps * COp + CImm + CMul + (IF mod THEN CImm + CMul + CLd + 2 * COp ELSE 0),
              3 + steps + (IF mod THEN 5 ELSE 0), 4)}
MagicBy(f, n, c, m) == MagicOffer(f, n, c, m, MagicSteps(f.node[n], c, m))
MagicOffers(f, n) ==
  LET d == f.node[n] c == f.node[d.in[2]].val IN
  IF d.sub \in Divisions /\ IsConst(f, d.in[2]) /\ c # 0
  THEN MagicBy(f, n, c, MagicOf(IF IsSigned(d.ty) THEN Magnitude(c) ELSE Cut(c, 8))) ELSE {}

ArithOffer(f, d, p, x, rb, big) ==
  {Offer([Cell("Arith", Ref("Leaf", x, 0), rb, NoRef, NoRef, SizeOf(d.ty)) EXCEPT !.bin = d.sub, !.big = big],
         LeafCost(f, x) + (IF big THEN CImm ELSE RefCost(f, p, rb)) + OpCost(d.sub),
         2 + (IF big \/ rb.k = "Leaf" THEN 1 ELSE 0), 1)}
ArithOf(f, p, b, n, x, y) ==
  LET d == f.node[n] v == f.node[y].val IN
  IF IsConst(f, y) /\ ~(v = 0 /\ d.sub \in {"Add", "Sub"})
  THEN ArithOffer(f, d, p, x, Ref("Imm", 0, v), ~FitsImm(v))
  ELSE ArithOffer(f, d, p, x, Consume(f, p, b, y, n), FALSE)
ArithOffers(f, p, b, n) ==
  LET d == f.node[n] l == d.in[1] r == d.in[2] IN
  IF d.sub \in Divisions \cup {"Shl"} THEN {}
  ELSE IF Chainable(f, p, b, l) /\ OnlyUser(f, l, n) /\ d.sub \in Commuting THEN ArithOf(f, p, b, n, r, l)
  ELSE ArithOf(f, p, b, n, l, r)

\* try_commit: the cheapest offer becomes the cell of n, unless each waits
\* for a chain that has no cell.
Best(p, n, offers) ==
  IF offers = {} THEN p
  ELSE [p EXCEPT !.cell = (n :> (CHOOSE o \in offers : \A q \in offers : ~Cheaper(q, o)).cell) @@ @]
Committed(f, p, b, n) ==
  IF n \in DOMAIN p.cell THEN p
  ELSE Best(p, n, {o \in ShlOffers(f, p, b, n) \cup LeaOffers(f, p, b, n) \cup MagicOffers(f, n)
                          \cup ArithOffers(f, p, b, n) : o.cell.cost < Inf})

\* What the hand emitter pays for n, with the store.
FallbackCost(f, n) ==
  LET d == f.node[n]
      opnd(k) == LeafCost(f, d.in[k])
      c == f.node[d.in[2]]
  IN CSt + opnd(1) +
     (IF d.sub \in Divisions THEN CImm + COp + CDiv + (IF d.sub = "Mod" THEN COp ELSE 0)
      ELSE IF d.sub \in {"Shl", "Shr"} THEN COp + (IF c.op = "Const" THEN 0 ELSE CLd)
      ELSE IF c.op # "Const" THEN opnd(2) + OpCost(d.sub)
      ELSE IF c.val = 0 /\ d.sub \in {"Add", "Sub"} THEN 0
      ELSE IF FitsImm(c.val) THEN OpCost(d.sub)
      ELSE CImm + COp)

(***************************************************************************)
(* The plan of a block.                                                    *)
(***************************************************************************)
Chained(c) == {r.n : r \in {x \in {c.base, c.idx, c.b} : x.k = "Chain"}} \cup c.absorb
Consumed(p, n) == IF n \in DOMAIN p.cell THEN Chained(p.cell[n]) ELSE {}

\* mark_consumed: suppress these and what they consume; a root stays a root.
RECURSIVE Suppressed(_, _)
Suppressed(p, todo) ==
  LET new == {n \in todo : p.act[n] = "None"} IN
  IF new = {} THEN p
  ELSE Suppressed([p EXCEPT !.act = [n \in DOMAIN @ |-> IF n \in new THEN "Suppressed" ELSE @[n]]],
                  UNION {Consumed(p, n) : n \in new})
Claimed(p, n) == [p EXCEPT !.act[n] = "Root"]

\* The address of a load or store: through one cast that only it reads.
CastOf(f, n) ==
  LET a == f.node[n].in[1] IN
  IF f.node[a].op = "Cast" /\ f.node[a].sub = "Ptr" /\ OnlyUser(f, a, n) THEN a ELSE 0
ClaimAddress(q, n, addr, cast) ==
  IF addr \notin DOMAIN q.cell THEN q
  ELSE Suppressed([Claimed(q, n) EXCEPT !.act = [m \in DOMAIN @ |-> IF m = cast THEN "Suppressed" ELSE @[m]]], {addr})
AddressOf(f, b, p, n, addr, user, cast) ==
  IF Chainable(f, p, b, addr) /\ LeaWidth(f.node[addr].ty) /\ OnlyUser(f, addr, user)
  THEN ClaimAddress(Committed(f, p, b, addr), n, addr, cast) ELSE p
AddressRoot(f, b, p, n) ==
  LET cast == CastOf(f, n) IN
  IF n \in p.fused \/ f.node[n].op \notin {"Load", "Store"} THEN p
  ELSE IF cast = 0 THEN AddressOf(f, b, p, n, f.node[n].in[1], n, 0)
  ELSE AddressOf(f, b, p, n, f.node[cast].in[1], cast, cast)

ClaimBin(f, q, n) ==
  IF n \in DOMAIN q.cell /\ q.cell[n].cost + CSt < FallbackCost(f, n)
  THEN Suppressed(Claimed(q, n), Chained(q.cell[n])) ELSE q
BinRoot(f, b, p, n) ==
  LET d == f.node[n]
      const == IsConst(f, d.in[2]) /\ f.node[d.in[2]].val # 0
      fits == /\ n \notin p.fused /\ p.act[n] = "None" /\ d.op = "Bin" /\ IntScalar(d.ty)
              /\ \/ d.sub \in ChainSubs
                 \/ d.sub = "Shl" /\ IsConst(f, d.in[2])
                 \/ d.sub \in Divisions /\ const
  IN IF fits THEN ClaimBin(f, Committed(f, p, b, n), n) ELSE p

DpPlan(f, b, fused) ==
  LET nodes == f.blocks[b].nodes
      empty == [act |-> [n \in DOMAIN f.node |-> "None"], cell |-> <<>>, fused |-> fused]
      addresses == FoldLeft(LAMBDA p, n : AddressRoot(f, b, p, n), empty, nodes)
  IN FoldLeft(LAMBDA p, n : BinRoot(f, b, p, n), addresses, nodes)

(***************************************************************************)
(* The second tier, for the blocks of a loop.                              *)
(***************************************************************************)
Budget == 50
MaxFlips == 10
Lambda == 1

RECURSIVE Reached(_, _, _, _)
Reached(f, seen, avoid, back) ==
  LET next == {c \in DOMAIN f.blocks : \E b \in seen \ avoid :
                 IF back THEN b \in ToSet(f.blocks[c].succs) ELSE c \in ToSet(f.blocks[b].succs)}
  IN IF next \subseteq seen THEN seen ELSE Reached(f, seen \cup next, avoid, back)
Dominated(f, h, b) == b \notin Reached(f, {1}, {h}, FALSE) \/ b = h
InLoop(f, b) ==
  \E l \in Reached(f, {1}, {}, FALSE) : \E h \in ToSet(f.blocks[l].succs) :
     Dominated(f, h, l) /\ b \in Reached(f, {h, l}, {h}, TRUE)

\* A reader of the index term x: whether it can do without x, and the base
\* of the address it becomes (0: it already is one).
Reader(ok, base) == [ok |-> ok, base |-> base]
ReaderOf(f, p, b, x, u) ==
  LET c == p.cell[u]
      isX(r) == r.k = "Leaf" /\ r.n = x
      other == IF isX(c.a) THEN c.b ELSE c.a
  IN IF f.home[u] # b \/ p.act[u] = "None" \/ u \notin DOMAIN p.cell THEN Reader(FALSE, 0)
     ELSE IF c.form \in {"Lea2", "LeaRR"} THEN Reader(x \notin {c.base.n, c.idx.n} \cup c.absorb, 0)
     ELSE IF /\ IsBin(f, u, {"Add"}) /\ LeaWidth(f.node[u].ty) /\ c.form = "Arith"
             /\ isX(c.a) \/ isX(c.b)
             /\ other.k = "Leaf"
     THEN Reader(TRUE, Uncast(f, other.n))
     ELSE Reader(FALSE, 0)

\* A death group: every reader takes the index itself and x goes away, when
\* that is strictly cheaper together.
GroupCost(f, reader, term, u) == LeafCost(f, reader[u].base) + LeafCost(f, term.n) + COp
OwnCost(f, p, x) == IF p.act[x] = "Root" /\ x \in DOMAIN p.cell THEN p.cell[x].cost + CSt ELSE FallbackCost(f, x)
Dies(f, p, x, term, reader, rewritten) ==
  LET users == f.users[x] IN
  IF /\ \A u \in users : reader[u].ok
     /\ Total(rewritten, LAMBDA u : GroupCost(f, reader, term, u)) < Total(users, LAMBDA u : p.cell[u].cost) + OwnCost(f, p, x)
  THEN [p EXCEPT !.act[x] = "Suppressed",
                 !.cell = [u \in rewritten |->
                             [Cell("Lea2", NoRef, NoRef, Ref("Leaf", reader[u].base, 0), Ref("Leaf", term.n, 0), 8)
                                EXCEPT !.scale = term.scale, !.absorb = {x}, !.cost = GroupCost(f, reader, term, u)]] @@ @]
  ELSE p
ReadersDo(f, p, x, term, reader) == Dies(f, p, x, term, reader, {u \in DOMAIN reader : reader[u].base # 0})
DeathGroupOf(f, b, p, x, term) ==
  LET users == f.users[x] IN
  IF /\ x \notin p.fused /\ p.act[x] # "Suppressed"
     /\ term.n # 0 /\ f.reads[x] >= 2 /\ f.reads[x] = Cardinality(users)
  THEN ReadersDo(f, p, x, term, [u \in users |-> ReaderOf(f, p, b, x, u)]) ELSE p
DeathGroup(f, b, p, x) == DeathGroupOf(f, b, p, x, IndexTerm(f, x))

\* The root that computes each node in place.
ChainRefs(c) == {r.n : r \in {x \in {c.base, c.idx, c.a, c.b} : x.k = "Chain"}}
RECURSIVE Tree(_, _, _)
Tree(p, seen, absorbed) ==
  LET next == UNION {ChainRefs(p.cell[n]) \cup (IF absorbed THEN p.cell[n].absorb ELSE {}) :
                       n \in seen \cap DOMAIN p.cell}
  IN IF next \subseteq seen THEN seen ELSE Tree(p, seen \cup next, absorbed)
Owners(f, b, p) ==
  LET nodes == f.blocks[b].nodes
      roots == SelectSeq(nodes, LAMBDA n : p.act[n] = "Root" /\ n \in DOMAIN p.cell)
  IN FoldLeft(LAMBDA o, r : o @@ [n \in Tree(p, ChainRefs(p.cell[r]), FALSE) |-> r], <<>>, roots)

\* Materializing y costs a load and what has to be emitted with it.
Below(p, y) == Tree(p, {y}, TRUE) \ {y}
FlipCost(f, p, y) == CLd - p.cell[y].cost + Total(Below(p, y), LAMBDA n : FallbackCost(f, n))

\* The most values alive at once in the block when flipped are materialized.
PeakLive(f, b, p, owner, flipped) ==
  LET nodes == f.blocks[b].nodes
      at == [n \in ToSet(nodes) |-> Position(nodes, n)]
      out == flipped \cup UNION {Below(p, y) : y \in flipped}
      emitted(n) == p.act[n] # "Suppressed" \/ n \in out
      reads(n) == IF ~emitted(n) /\ n \in DOMAIN owner THEN at[owner[n]] ELSE at[n]
      alive(n, k) == /\ at[n] <= k
                     /\ \/ k = at[n]
                        \/ ~(f.users[n] \subseteq ToSet(nodes)) \/ \E c \in DOMAIN f.blocks : f.blocks[c].arg = n
                        \/ \E u \in f.users[n] : k <= reads(u)
      live == {n \in ToSet(nodes) : f.node[n].op # "Const" /\ emitted(n)}
  IN Largest({Cardinality({n \in live : alive(n, k)}) : k \in DOMAIN nodes})

\* A flip: y gets its own emission and its root reads the slot.
Flipped(p, y, root) ==
  LET leaf(r) == IF r.k = "Chain" /\ r.n = y THEN [r EXCEPT !.k = "Leaf"] ELSE r IN
  [p EXCEPT !.act = [n \in DOMAIN @ |-> IF n \in Below(p, y) \cup {y} THEN "None" ELSE @[n]],
            !.cell[root] = [@ EXCEPT !.base = leaf(@), !.idx = leaf(@), !.a = leaf(@), !.b = leaf(@),
                                     !.cost = @ + CLd - p.cell[y].cost]]

\* The cheapest MaxFlips nodes are candidates; of all sets of them the one of least cost and pressure
\* flips, the lowest mask if several are.
Rank(dcost, y) == Cardinality({z \in DOMAIN dcost : dcost[z] < dcost[y] \/ (dcost[z] = dcost[y] /\ z < y)})
FlipMask(cands, S) == Total(S, LAMBDA y : 2 ^ Cardinality({z \in cands : z < y}))
BestFlips(cands, value) ==
  CHOOSE S \in SUBSET cands : \A T \in SUBSET cands :
    value[S] < value[T] \/ (value[S] = value[T] /\ FlipMask(cands, S) <= FlipMask(cands, T))
FlipBest(f, b, p, owner, dcost, cands) ==
  FoldLeft(LAMBDA q, y : Flipped(q, y, owner[y]), p,
           Ascending(BestFlips(cands, [S \in SUBSET cands |->
                                         Total(S, LAMBDA y : dcost[y]) + Lambda * PeakLive(f, b, p, owner, S)])))
FlipCheapest(f, b, p, owner, dcost) ==
  FlipBest(f, b, p, owner, dcost, {y \in DOMAIN dcost : Rank(dcost, y) < MaxFlips})
FlipAmong(f, b, p, owner) ==
  IF DOMAIN owner \cap DOMAIN p.cell = {} THEN p
  ELSE FlipCheapest(f, b, p, owner, [y \in DOMAIN owner \cap DOMAIN p.cell |-> FlipCost(f, p, y)])
Flips(f, b, p) == FlipAmong(f, b, p, Owners(f, b, p))

\* What the code says of every candidate: a flip costs latency.
FlipsCost(f, b, p) == \A y \in DOMAIN Owners(f, b, p) \cap DOMAIN p.cell : FlipCost(f, p, y) > 0

Refined(f, b, p) ==
  IF Len(f.blocks[b].nodes) >= Budget \/ ~InLoop(f, b) THEN p
  ELSE Flips(f, b, FoldLeft(LAMBDA q, x : DeathGroup(f, b, q, x), p, f.blocks[b].nodes))

Plan(f, b, fused) == Refined(f, b, DpPlan(f, b, fused))
=============================================================================
