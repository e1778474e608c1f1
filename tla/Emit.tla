-------------------------------- MODULE Emit --------------------------------
(* Emission (targets/x86_64/x64_emit.cpp, struct Emitter): the machine code   *)
(* of a function, every value in a slot of its own between nodes. Slots have   *)
(* the numbers of their nodes; block b starts at label b.                     *)
(*                                                                           *)
(* A float constant is kept in a register of the pool, from where a later use *)
(* reads it if the block that put it there dominates the use. The state of    *)
(* emission e is the code so far, the pool, the number of pool registers      *)
(* taken, the next local label and the current block.                         *)
EXTENDS Isel

FpArgRegs == <<"xmm0", "xmm1">>
PoolRegs == <<"xmm15", "xmm14">>
Epilogue == 1000

Put(e, insts) == [e EXCEPT !.code = @ \o insts]
MovRR(a, b) == Inst("MovRR", Reg(a), Reg(b))
MovImm(r, v) == Inst("MovRImm", Reg(r), Imm(v))
StoreResult(n, size) == Sized("MovRS", Reg("rax"), Slot(n), size)
StoreFp(n) == Inst("MovFpS", Reg("xmm0"), Slot(n))
Shift(bin, sar, r, k, size) == [Bin("ShiftImm", bin, Reg(r), Imm(k), size) EXCEPT !.sar = sar]
ArithRR(bin, a, b, size) == Bin("ArithRR", bin, Reg(a), Reg(b), size)
ArithImm(bin, a, v, size) == Bin("ArithRImm", bin, Reg(a), Imm(v), size)

\* The k-th parameter: its place among those of its class.
RegisterOf(params, k) ==
  LET before == Cardinality({j \in 1 .. k : IsFp(params[j]) = IsFp(params[k])}) IN
  IF IsFp(params[k]) THEN FpArgRegs[before] ELSE ArgRegs[before]

LoadValue(f, n, r, size) ==
  IF IsConst(f, n) THEN MovImm(r, f.node[n].val) ELSE Sized("MovSR", Reg(r), Slot(n), size)

\* fp_const_reg: the register of the pool that holds v here, and the code
\* that puts it there unless it is known to be there.
PoolEntry_Undominated(f, e, v) ==
  IF v \in DOMAIN e.pool THEN [reg |-> e.pool[v].reg, fresh |-> FALSE, e |-> e]
  ELSE IF e.taken = Len(PoolRegs) THEN [reg |-> "xmm1", fresh |-> TRUE, e |-> e]
  ELSE [reg |-> PoolRegs[e.taken + 1], fresh |-> TRUE,
        e |-> [e EXCEPT !.taken = @ + 1,
                        !.pool = (v :> [reg |-> PoolRegs[e.taken + 1], block |-> e.cur]) @@ @]]
PoolEntry(f, e, v) ==
  IF v \in DOMAIN e.pool
  THEN [reg |-> e.pool[v].reg, fresh |-> ~Dominated(f, e.pool[v].block, e.cur), e |-> e]
  ELSE IF e.taken = Len(PoolRegs) THEN [reg |-> "xmm1", fresh |-> TRUE, e |-> e]
  ELSE [reg |-> PoolRegs[e.taken + 1], fresh |-> TRUE,
        e |-> [e EXCEPT !.taken = @ + 1,
                        !.pool = (v :> [reg |-> PoolRegs[e.taken + 1], block |-> e.cur]) @@ @]]
Materialize(v, reg) == <<MovImm("rax", v), Inst("MovFpFromGpr", Reg(reg), Reg("rax"))>>
LoadPooled(entry, v, r) ==
  Put(entry.e, (IF entry.fresh THEN Materialize(v, entry.reg) ELSE <<>>)
               \o (IF entry.reg = r THEN <<>> ELSE <<Inst("MovFpFp", Reg(r), Reg(entry.reg))>>))
LoadFp(f, e, n, r) ==
  LET v == f.node[n].val IN
  IF ~IsConst(f, n) THEN Put(e, <<Inst("MovFpR", Reg(r), Slot(n))>>)
  ELSE IF v = 0 THEN Put(e, <<Inst("FpZero", Reg(r), None)>>)
  ELSE LoadPooled(PoolEntry(f, e, v), v, r)
\* A call takes every register of the pool.
Invalidated(e) == [e EXCEPT !.pool = <<>>, !.taken = 0]

(***************************************************************************)
(* Nodes.                                                                  *)
(***************************************************************************)
In(f, n, k) == f.node[n].in[k]
TypeOf(f, n) == f.node[n].ty

\* SExt32 extends rax whatever register the operand is in.
LoadDivOperand(f, n, r) ==
  IF IsConst(f, n) THEN <<MovImm(r, f.node[n].val)>>
  ELSE <<LoadValue(f, n, r, SizeOf(TypeOf(f, n)))>>
       \o (IF TypeOf(f, n) = "i32" THEN <<Inst("SExt32", None, None)>> ELSE <<>>)
EmitDivision(f, n) ==
  LET d == f.node[n] IN
  LoadDivOperand(f, d.in[1], "rax") \o LoadDivOperand(f, d.in[2], "rcx")
  \o (IF IsSigned(d.ty) THEN <<Inst("Cqo", None, None), Inst("IDiv", Reg("rcx"), None)>>
      ELSE <<ArithImm("Xor", "rdx", 0, 8), Inst("UDiv", Reg("rcx"), None)>>)
  \o (IF d.sub = "Mod" THEN <<MovRR("rax", "rdx")>> ELSE <<>>)

EmitShift(f, n) ==
  LET d == f.node[n] size == SizeOf(d.ty) sar == d.sub = "Shr" /\ IsSigned(d.ty) IN
  <<LoadValue(f, d.in[1], "rax", size)>>
  \o (IF IsConst(f, d.in[2]) THEN <<Shift(d.sub, sar, "rax", f.node[d.in[2]].val, size)>>
      ELSE <<LoadValue(f, d.in[2], "rcx", size),
             [Bin("ShiftCl", d.sub, Reg("rax"), None, size) EXCEPT !.sar = sar]>>)

EmitArith(f, n) ==
  LET d == f.node[n] size == SizeOf(d.ty) c == f.node[d.in[2]] IN
  <<LoadValue(f, d.in[1], "rax", size)>>
  \o (IF c.op # "Const" THEN <<LoadValue(f, d.in[2], "rcx", size), ArithRR(d.sub, "rax", "rcx", size)>>
      ELSE IF c.val = 0 /\ d.sub \in {"Add", "Sub"} THEN <<>>
      ELSE IF FitsImm(c.val) THEN <<ArithImm(d.sub, "rax", c.val, size)>>
      ELSE <<MovImm("rcx", c.val), ArithRR(d.sub, "rax", "rcx", size)>>)

EmitIntBin(f, e, n) ==
  LET sub == f.node[n].sub IN
  Put(e, (IF sub \in Divisions THEN EmitDivision(f, n)
          ELSE IF sub \in {"Shl", "Shr"} THEN EmitShift(f, n) ELSE EmitArith(f, n))
         \o <<StoreResult(n, SizeOf(TypeOf(f, n)))>>)

\* Max takes its operands the other way round, for NaN.
EmitFpBin(f, e, n) ==
  LET d == f.node[n]
      dst == IF d.sub = "Max" THEN d.in[2] ELSE d.in[1]
      src == IF d.sub = "Max" THEN d.in[1] ELSE d.in[2]
  IN Put(LoadFp(f, LoadFp(f, e, dst, "xmm0"), src, "xmm1"),
         <<Bin("FpBin", d.sub, Reg("xmm0"), Reg("xmm1"), 8), StoreFp(n)>>)

\* A comparison for its flags: the code, and the condition that means true.
CmpCond(rel, sgn) ==
  CASE rel = "Eq" -> "E" [] rel = "Ne" -> "NE" [] rel = "Lt" -> IF sgn THEN "L" ELSE "B"
    [] rel = "Le" -> IF sgn THEN "LE" ELSE "BE" [] rel = "Gt" -> IF sgn THEN "G" ELSE "A"
    [] rel = "Ge" -> IF sgn THEN "GE" ELSE "AE"
MirrorCond(c) ==
  CASE c = "L" -> "G" [] c = "G" -> "L" [] c = "LE" -> "GE" [] c = "GE" -> "LE"
    [] c = "B" -> "A" [] c = "A" -> "B" [] c = "BE" -> "AE" [] c = "AE" -> "BE" [] OTHER -> c
FpCond(rel) == CmpCond(CASE rel = "Lt" -> "Gt" [] rel = "Le" -> "Ge" [] OTHER -> rel, FALSE)
IsFpCmp(f, n) == IsFp(TypeOf(f, In(f, n, 1)))
ImmFirst(f, n) == IsConst(f, In(f, n, 1)) /\ ~IsConst(f, In(f, n, 2)) 
ImmOk(f, n, size) == size = 4 \/ FitsImm(f.node[n].val)
FlagsCond(f, n) ==
  LET d == f.node[n] ty == TypeOf(f, d.in[1]) c == CmpCond(d.sub, IsSigned(ty)) IN
  IF IsFp(ty) THEN FpCond(d.sub)
  ELSE IF ImmFirst(f, n) /\ ImmOk(f, d.in[1], SizeOf(ty)) THEN MirrorCond(c) ELSE c
EmitFlags(f, e, n) ==
  LET d == f.node[n]
      l == d.in[1]
      r == d.in[2]
      size == SizeOf(TypeOf(f, l))
      swap == d.sub \in {"Lt", "Le"}
      immediate(x) == Sized("CmpRImm", Reg("rax"), Imm(f.node[x].val), size)
  IN IF IsFp(TypeOf(f, l))
     THEN Put(LoadFp(f, LoadFp(f, e, IF swap THEN r ELSE l, "xmm0"), IF swap THEN l ELSE r, "xmm1"),
              <<Inst("FpCmp", Reg("xmm0"), Reg("xmm1"))>>)
     ELSE IF ImmFirst(f, n) /\ ImmOk(f, l, size)
     THEN Put(e, <<LoadValue(f, r, "rax", size), immediate(l)>>)
     ELSE Put(e, <<LoadValue(f, l, "rax", size)>>
                 \o (IF IsConst(f, r) /\ ImmOk(f, r, size) THEN <<immediate(r)>>
                     ELSE <<LoadValue(f, r, "rcx", size), Sized("CmpRR", Reg("rax"), Reg("rcx"), size)>>))

Setcc(c, r) == [Sized("Setcc", Reg(r), None, 1) EXCEPT !.cond = c]
ZeroExtend == Inst("MovZX", Reg("rax"), None)
\* An unordered comparison sets z: equality of floats needs the parity too.
EmitCmp(f, e, n) ==
  LET rel == f.node[n].sub IN
  IF IsFpCmp(f, n) /\ rel \in {"Eq", "Ne"}
  THEN Put(EmitFlags(f, e, n),
           <<Setcc(FlagsCond(f, n), "rax"), Setcc(IF rel = "Eq" THEN "NP" ELSE "P", "rcx"),
             ArithRR(IF rel = "Eq" THEN "And" ELSE "Or", "rax", "rcx", 1), ZeroExtend, StoreResult(n, 8)>>)
  ELSE Put(EmitFlags(f, e, n), <<Setcc(FlagsCond(f, n), "rax"), ZeroExtend, StoreResult(n, 8)>>)

EmitUn(f, e, n) ==
  LET d == f.node[n] IN
  IF IsFp(d.ty) THEN Put(LoadFp(f, e, d.in[1], "xmm0"), <<Inst("FpNeg", Reg("xmm0"), None), StoreFp(n)>>)
  ELSE Put(e, <<LoadValue(f, d.in[1], "rax", 8),
                CASE d.sub = "Neg" -> Inst("Neg", Reg("rax"), None)
                  [] d.sub = "Not" -> ArithImm("Xor", "rax", 1, 8)
                  [] d.sub = "BNot" -> Inst("Not", Reg("rax"), None),
                StoreResult(n, 8)>>)

EmitCast(f, e, n) ==
  LET d == f.node[n]
      x == d.in[1]
      c == f.node[x].val
      from == SizeOf(TypeOf(f, x))
      size == SizeOf(d.ty)
      half == <<LoadValue(f, x, "rax", from)>>
  IN CASE d.sub = "ZExt" -> Put(e, (IF IsConst(f, x) THEN <<MovImm("rax", Cut(c, 4))>> ELSE half)
                                   \o <<StoreResult(n, 8)>>)
       [] d.sub = "SExt" -> Put(e, (IF from = 4 /\ IsConst(f, x) THEN <<MovImm("rax", Signed(Cut(c, 4), 4))>>
                                    ELSE IF from = 4 THEN half \o <<Inst("SExt32", None, None)>>
                                    ELSE half) \o <<StoreResult(n, 8)>>)
       [] d.sub = "Trunc" -> Put(e, <<LoadValue(f, x, "rax", size), StoreResult(n, size)>>)
       [] d.sub = "SiToFp" -> Put(e, half \o <<Sized("CvtToFp", None, None, size), StoreFp(n)>>)
       [] d.sub = "FpToSi" -> Put(LoadFp(f, e, x, "xmm0"), <<Sized("CvtToInt", None, None, size), StoreResult(n, size)>>)
       [] d.sub = "Ptr" -> Put(e, <<LoadValue(f, x, "rax", 8), StoreResult(n, 8)>>)

\* A float is chosen by a branch, and a constant of either arm may be put in
\* the pool on the way.
EmitSelect(f, e, n) ==
  LET d == f.node[n]
      test == <<LoadValue(f, d.in[1], "rdx", 8), Inst("Test", Reg("rdx"), None)>>
      size == SizeOf(d.ty)
      yes == e.label
      end == e.label + 1
      no == LoadFp(f, Put([e EXCEPT !.label = @ + 2], Append(test, Jcc("NE", yes))), d.in[3], "xmm0")
  IN IF IsFp(d.ty)
     THEN Put(LoadFp(f, Put(no, <<Jmp(end), Label(yes)>>), d.in[2], "xmm0"), <<Label(end), StoreFp(n)>>)
     ELSE Put(e, test \o <<LoadValue(f, d.in[3], "rax", size), LoadValue(f, d.in[2], "rcx", size),
                           [Sized("Cmov", Reg("rax"), Reg("rcx"), size) EXCEPT !.cond = "NE"],
                           StoreResult(n, size)>>)

\* The load and the store behind their address, in rax and in rcx.
EmitLoad(f, n) ==
  <<Sized("LoadMem", Reg("rax"), Reg("rax"), SizeOf(TypeOf(f, n))), StoreResult(n, SizeOf(TypeOf(f, n)))>>
\* The value of a store: a constant that fits is an immediate.
EmitPayload(f, e, n) ==
  LET v == In(f, n, 2)
      size == SizeOf(TypeOf(f, v))
      store(b) == <<Sized("StoreMem", Reg("rcx"), b, size)>>
      bits == IF IsFp(TypeOf(f, v)) THEN Signed(f.node[v].val, 8) ELSE f.node[v].val
  IN IF IsConst(f, v) /\ (size < 8 \/ FitsImm(bits)) THEN Put(e, store(Imm(bits)))
     ELSE IF IsFp(TypeOf(f, v)) THEN Put(LoadFp(f, e, v, "xmm0"), store(Reg("xmm0")))
     ELSE Put(e, <<LoadValue(f, v, "rdx", size)>> \o store(Reg("rdx")))

\* The observed argument is the register of the first one; a print's is the
\* second.
EmitCall(f, e, n) ==
  LET d == f.node[n]
      x == d.in[1]
      fp == IsFp(TypeOf(f, x))
      size == SizeOf(TypeOf(f, x))
      k == IF fp THEN 0 ELSE IF d.sub = "print" THEN 2 ELSE 1
      call == Sized(IF d.sub = "print" THEN "CallSym" ELSE "CallFn", Operand("label", "rax", k), None, size)
      args == IF fp THEN LoadFp(f, Invalidated(e), x, "xmm0")
              ELSE Put(Invalidated(e), <<LoadValue(f, x, ArgRegs[k], size)>>)
      varargs == IF d.sub # "print" THEN <<>> ELSE IF fp THEN <<MovImm("rax", 1)>> ELSE <<Inst("XorEax", None, None)>>
  IN Put(args, varargs \o <<call>> \o (IF d.sub = "print" THEN <<>> ELSE IF IsFp(d.ty) THEN <<StoreFp(n)>>
                                       ELSE <<StoreResult(n, 8)>>))
(***************************************************************************)
(* Planned nodes.                                                          *)
(***************************************************************************)
\* A quotient by a constant: the high word of the dividend's magnitude times
\* the multiplier, then the sign. A remainder is what is left of it.
Dividend(f, c) ==
  <<LoadValue(f, c.a.n, "rax", c.size)>> \o (IF c.big /\ c.size = 4 THEN <<Inst("SExt32", None, None)>> ELSE <<>>)
SignOf(r) == Shift("Shr", TRUE, r, 2 * Half - 1, 8)
ShiftRight(r, k) == Shift("Shr", FALSE, r, k, 8)
MulBy(m) == <<MovImm("rdx", m), Inst("MulHi", Reg("rdx"), None)>>
Conditional(r, s) == <<ArithRR("Xor", r, s, 8), ArithRR("Sub", r, s, 8)>>
HighIncrement(c) ==
  <<MovRR("rcx", "rax")>> \o MulBy(c.magic.m)
  \o <<ArithRR("Sub", "rcx", "rdx", 8), ShiftRight("rcx", 1), ArithRR("Add", "rdx", "rcx", 8),
       ShiftRight("rdx", c.magic.s - 1)>>
HighPlain(c) ==
  MulBy(c.magic.m) \o <<MovRR("rax", "rdx")>> \o (IF c.magic.s > 0 THEN <<ShiftRight("rax", c.magic.s)>> ELSE <<>>)
Quotient(f, c) ==
  IF c.big
  THEN <<MovRR("rcx", "rax"), SignOf("rcx")>> \o Conditional("rax", "rcx")
       \o (IF c.magic.inc
           THEN HighIncrement(c) \o Dividend(f, c) \o <<SignOf("rax")>> \o Conditional("rdx", "rax")
                \o <<MovRR("rax", "rdx")>>
           ELSE HighPlain(c) \o Conditional("rax", "rcx"))
       \o (IF c.disp < 0 THEN <<Inst("Neg", Reg("rax"), None)>> ELSE <<>>)
  ELSE IF c.magic.inc THEN HighIncrement(c) \o <<MovRR("rax", "rdx")>> ELSE HighPlain(c)
Remainder(f, c) ==
  <<MovRR("rcx", "rax")>> \o Dividend(f, c)
  \o (IF FitsImm(c.disp) THEN <<ArithImm("Mul", "rcx", c.disp, 8)>>
      ELSE <<MovImm("rdx", c.disp), ArithRR("Mul", "rcx", "rdx", 8)>>)
  \o <<ArithRR("Sub", "rax", "rcx", 8)>>
EmitMagic(f, c) ==
  Dividend(f, c) \o Quotient(f, c) \o (IF c.bin = "Mod" THEN Remainder(f, c) ELSE <<>>)

\* The value of n in dst, by its cell: chains first, for they use both
\* scratch registers, then what is read from slots.
RECURSIVE DpVal(_, _, _, _)
DpVal(f, p, n, dst) ==
  LET c == p.cell[n]
      other == IF dst = "rax" THEN "rcx" ELSE "rax"
      chain(r, to) == IF r.k = "Chain" THEN DpVal(f, p, r.n, to) ELSE <<>>
      leaf(r, to, size) == IF r.k = "Leaf" THEN <<LoadValue(f, r.n, to, size)>> ELSE <<>>
      one == c.idx.n = c.base.n
      mem == Operand("reg", dst, c.disp)
  IN IF n \notin DOMAIN p.cell THEN <<LoadValue(f, n, dst, SizeOf(TypeOf(f, n)))>>
     ELSE CASE c.form = "Lea2" ->
            chain(c.base, dst) \o (IF one THEN <<>> ELSE chain(c.idx, other))
            \o leaf(c.base, dst, 8) \o (IF one THEN <<>> ELSE leaf(c.idx, other, 8))
            \o <<[Sized("Lea2", Reg(dst), mem, c.scale) EXCEPT !.x = IF one THEN dst ELSE other]>>
       [] c.form = "LeaRR" ->
            chain(c.idx, dst) \o leaf(c.idx, dst, 8) \o <<Sized("LeaRR", Reg(dst), mem, c.scale)>>
       [] c.form = "ShlImm" ->
            chain(c.a, dst) \o leaf(c.a, dst, c.size) \o <<Shift("Shl", FALSE, dst, c.disp, c.size)>>
       [] c.form = "Arith" ->
            chain(c.b, other) \o leaf(c.b, other, c.size)
            \o (IF c.b.k = "Imm" /\ c.big THEN <<MovImm(other, c.b.imm)>> ELSE <<>>)
            \o <<LoadValue(f, c.a.n, dst, c.size),
                 IF c.b.k = "Imm" /\ ~c.big THEN ArithImm(c.bin, dst, c.b.imm, c.size)
                 ELSE ArithRR(c.bin, dst, other, c.size)>>
       [] c.form = "Magic" -> EmitMagic(f, c)

Unwrapped(f, a) == IF f.node[a].op = "Cast" /\ f.node[a].sub = "Ptr" THEN f.node[a].in[1] ELSE a
EmitDpRoot(f, p, e, n) ==
  LET d == f.node[n] IN
  CASE d.op = "Load" -> Put(e, DpVal(f, p, Unwrapped(f, d.in[1]), "rax") \o EmitLoad(f, n))
    [] d.op = "Store" -> EmitPayload(f, Put(e, DpVal(f, p, Unwrapped(f, d.in[1]), "rcx")), n)
    [] d.op = "Bin" -> Put(e, Append(DpVal(f, p, n, "rax"), StoreResult(n, SizeOf(d.ty))))

EmitNode(f, p, e, n) ==
  LET d == f.node[n] IN
  IF n \in p.fused \/ p.act[n] = "Suppressed" THEN e
  ELSE IF p.act[n] = "Root" THEN EmitDpRoot(f, p, e, n)
  ELSE CASE d.op = "Bin" /\ IsFp(d.ty) -> EmitFpBin(f, e, n)
         [] d.op = "Bin" /\ ~IsFp(d.ty) -> EmitIntBin(f, e, n)
         [] d.op = "Cmp" -> EmitCmp(f, e, n)
         [] d.op = "Un" -> EmitUn(f, e, n)
         [] d.op = "Cast" -> EmitCast(f, e, n)
         [] d.op = "Select" -> EmitSelect(f, e, n)
         [] d.op = "Load" -> Put(e, <<LoadValue(f, d.in[1], "rax", 8)>> \o EmitLoad(f, n))
         [] d.op = "Store" -> EmitPayload(f, Put(e, <<LoadValue(f, d.in[1], "rcx", 8)>>), n)
         [] d.op = "Call" -> EmitCall(f, e, n)

(***************************************************************************)
(* Ends of blocks.                                                         *)
(***************************************************************************)
EmitPhiCopy(f, e, src, dst) ==
  LET size == SizeOf(TypeOf(f, dst)) IN
  IF IsFp(TypeOf(f, dst)) THEN Put(LoadFp(f, e, src, "xmm0"), <<StoreFp(dst)>>)
  ELSE IF IsConst(f, src) THEN Put(e, <<Inst("MovSImm", Slot(dst), Imm(f.node[src].val))>>)
  ELSE Put(e, <<Sized("MovSR", Reg("rax"), Slot(src), size), StoreResult(dst, size)>>)

\* A condition that is all And, or all Or, over comparisons of this block
\* nobody else reads becomes a compare and a branch per comparison.
BoolBin(f, n) == IsBin(f, n, {"And", "Or"}) /\ TypeOf(f, n) = "i1"
RECURSIVE Conjuncts(_, _, _)
Conjuncts(f, n, sub) ==
  IF BoolBin(f, n) /\ f.node[n].sub = sub
  THEN Conjuncts(f, In(f, n, 1), sub) \o Conjuncts(f, In(f, n, 2), sub) ELSE <<n>>
RECURSIVE Connectives(_, _, _)
Connectives(f, n, sub) ==
  IF BoolBin(f, n) /\ f.node[n].sub = sub
  THEN {n} \cup Connectives(f, In(f, n, 1), sub) \cup Connectives(f, In(f, n, 2), sub) ELSE {}
FusesFlags(f, b, n) ==
  IF f.node[n].op = "Cmp"
  THEN f.reads[n] = 1 /\ f.home[n] = b /\ ~(IsFpCmp(f, n) /\ f.node[n].sub \in {"Eq", "Ne"})
  ELSE ~BoolBin(f, n) /\ TypeOf(f, n) = "i1"
IsCmp(f, n) == f.node[n].op = "Cmp"

\* sc_begin_block: the leaves, none unless it applies; and what it suppresses.
ShortCircuit(f, b) ==
  LET n == f.blocks[b].arg
      leaves == Conjuncts(f, n, f.node[n].sub)
  IN IF /\ Len(f.blocks[b].succs) = 2
        /\ BoolBin(f, n)
        /\ \A c \in Connectives(f, n, f.node[n].sub) : f.reads[c] = 1
        /\ \A k \in DOMAIN leaves : FusesFlags(f, b, leaves[k])
        /\ \E k \in DOMAIN leaves : IsCmp(f, leaves[k])
     THEN leaves ELSE <<>>
Fused(f, b, leaves) ==
  IF leaves = <<>> THEN {}
  ELSE {n \in ToSet(leaves) : IsCmp(f, n)} \cup Connectives(f, f.blocks[b].arg, f.node[f.blocks[b].arg].sub)

Side(f, b, head) == CHOOSE s \in ToSet(f.blocks[b].succs) : f.blocks[s].head = head
\* A leaf leaves early for the side it decides; the last one may leave for
\* the other side and fall through.
ScLeaf(f, b, leaves, e, k) ==
  LET n == leaves[k]
      and == f.node[f.blocks[b].arg].sub = "And"
      yes == Side(f, b, "IfTrue")
      no == Side(f, b, "IfFalse")
      tested == IF IsCmp(f, n) THEN EmitFlags(f, e, n)
                ELSE Put(e, <<LoadValue(f, n, "rax", 8), Inst("Test", Reg("rax"), None)>>)
      pass == IF IsCmp(f, n) THEN FlagsCond(f, n) ELSE "NE"
      last == k = Len(leaves)
  IN Put(tested, <<IF and THEN IF last /\ no = b + 1 THEN Jcc(pass, yes) ELSE Jcc(InvCond(pass), no)
                   ELSE IF last /\ yes = b + 1 THEN Jcc(InvCond(pass), no) ELSE Jcc(pass, yes)>>)
EmitScBranch(f, b, leaves, e) ==
  LET yes == Side(f, b, "IfTrue")
      no == Side(f, b, "IfFalse")
      all == FoldLeft(LAMBDA s, k : ScLeaf(f, b, leaves, s, k), e, [k \in DOMAIN leaves |-> k])
  IN IF b + 1 \in {yes, no} THEN all
     ELSE Put(all, <<Jmp(IF f.node[f.blocks[b].arg].sub = "And" THEN yes ELSE no)>>)

EmitBranch(f, b, e) ==
  LET yes == Side(f, b, "IfTrue")
      no == Side(f, b, "IfFalse")
  IN Put(e, <<LoadValue(f, f.blocks[b].arg, "rax", 8), Inst("Test", Reg("rax"), None)>>
            \o (IF yes = b + 1 THEN <<Jcc("E", no)>> ELSE IF no = b + 1 THEN <<Jcc("NE", yes)>>
                ELSE <<Jcc("NE", yes), Jmp(no)>>))
EmitReturn(f, e, n) ==
  LET value == IF n = 0 THEN e ELSE IF IsFp(TypeOf(f, n)) THEN LoadFp(f, e, n, "xmm0")
               ELSE Put(e, <<LoadValue(f, n, "rax", SizeOf(TypeOf(f, n)))>>)
  IN Put(value, <<Jmp(Epilogue)>>)
EmitTerminator(f, b, leaves, e) ==
  LET succs == f.blocks[b].succs IN
  IF succs = <<>> THEN EmitReturn(f, e, f.blocks[b].arg)
  ELSE IF Len(succs) = 2 THEN IF leaves # <<>> THEN EmitScBranch(f, b, leaves, e) ELSE EmitBranch(f, b, e)
  ELSE IF succs[1] = b + 1 THEN e ELSE Put(e, <<Jmp(succs[1])>>)

(***************************************************************************)
(* A function.                                                             *)
(***************************************************************************)
Parameters(f) ==
  LET bound == SelectSeq([n \in DOMAIN f.node |-> n], LAMBDA n : f.node[n].op = "Param")
      store(n) == LET r == RegisterOf(f.params, f.node[n].val) IN
                  IF IsFp(TypeOf(f, n)) THEN Inst("MovFpS", Reg(r), Slot(n)) ELSE Inst("MovRS", Reg(r), Slot(n))
  IN [k \in DOMAIN bound |-> store(bound[k])]

EmitBody(f, b, leaves, p, e) ==
  LET body == FoldLeft(LAMBDA s, n : EmitNode(f, p, s, n), Put([e EXCEPT !.cur = b], <<Label(b)>>), f.blocks[b].nodes)
      copied == FoldLeft(LAMBDA s, c : EmitPhiCopy(f, s, c[1], c[2]), body, Copies(f, b))
  IN EmitTerminator(f, b, leaves, copied)
EmitBlock(f, b, e) ==
  LET leaves == ShortCircuit(f, b) IN EmitBody(f, b, leaves, Plan(f, b, Fused(f, b, leaves)), e)
Emitted(f) ==
  LET start == [code |-> Parameters(f), pool |-> <<>>, taken |-> 0, label |-> 500, cur |-> 1]
      e == FoldLeft(LAMBDA s, b : EmitBlock(f, b, s), start, [b \in DOMAIN f.blocks |-> b])
  IN Put(e, <<Label(Epilogue), Inst("Ret", None, None)>>).code
=============================================================================
