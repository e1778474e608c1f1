------------------------------ MODULE Peephole ------------------------------
(* The machine passes after register allocation (targets/x86_64/x64_emit.cpp): *)
(* the clean-up of pass 86, and the branch fusion and peepholes of pass 87.   *)
(* Each rule goes through the code from the front and rewrites what it        *)
(* matches; an instruction that goes becomes a Nop until the next sweep. Then *)
(* pass 88, the layout of loops.                                              *)
EXTENDS Rewrite

(***************************************************************************)
(* Pass 86: a store and the load behind it become one move.                *)
(***************************************************************************)
MovesBack(cur, next) ==
  /\ <<cur.op, next.op>> \in {<<"MovRS", "MovSR">>, <<"MovFpS", "MovFpR">>, <<"MovSImm", "MovSR">>}
  /\ next.b.n = DefSlot(cur)
MergedMove(cur, next) ==
  CASE cur.op = "MovRS" -> <<Inst("MovRR", next.a, cur.a)>>
    [] cur.op = "MovSImm" -> <<Inst("MovRImm", next.a, cur.b)>>
    [] OTHER -> IF next.a = cur.a THEN <<>> ELSE <<Sized("MovFpFp", next.a, cur.a, cur.size)>>
CleanUpAt(code, out, i) ==
  IF out.skip THEN [out EXCEPT !.skip = FALSE]
  ELSE IF /\ i < Len(code) /\ MovesBack(code[i], code[i + 1])
          /\ ~LoadedFrom(code, i + 2, DefSlot(code[i]))
       THEN [code |-> out.code \o MergedMove(code[i], code[i + 1]), skip |-> TRUE]
       ELSE [out EXCEPT !.code = Append(@, code[i])]
CleanedUp(code) ==
  FoldLeft(LAMBDA out, i : Only({CleanUpAt(code, o, i) : o \in {out}}), [code |-> <<>>, skip |-> FALSE],
           [i \in DOMAIN code |-> i]).code

(***************************************************************************)
(* Pass 87: a comparison whose truth value only steers a jump.             *)
(***************************************************************************)
KeepsFlags_Sums == {"MovRR", "MovRS", "MovSR", "MovRImm", "MovSImm", "LeaRR", "Lea2", "ArithRR", "Nop"}
KeepsFlags == {"MovRR", "MovRS", "MovSR", "MovRImm", "MovSImm", "MovFpS", "MovFpR", "MovFpFp", "LeaRR", "Lea2", "Nop"}
Compares == {"CmpRR", "CmpRImm", "FpCmp"}
Steers(i) == i.op = "Jcc" /\ i.cond \in {"E", "NE"}

\* The jump at j on the condition c of the comparison, the instructions in gone dropped.
JumpOn(code, j, c, gone) ==
  [i \in DOMAIN code |-> IF i \in gone THEN Nop
                         ELSE IF i = j THEN [code[j] EXCEPT !.cond = IF @ = "NE" THEN c ELSE InvCond(c)]
                         ELSE code[i]]

\* The comparison, setcc and movzx that end at m.
TruthValueAt(code, m) ==
  m > 2 /\ code[m].op = "MovZX" /\ code[m - 1].op = "Setcc" /\ code[m - 2].op \in Compares

\* Whether the instruction at p, and no other, stores the truth value that the load at q brings
\* back: in a slot, or in a register that is moved from and to rax only there.
Moves(code, a, b) == {i \in DOMAIN code : code[i].op = "MovRR" /\ code[i].a = Reg(a) /\ code[i].b = Reg(b)}
StoresTruth(before, code, p, q) ==
  IF code[q].op = "MovSR"
  THEN LET s == code[q].b.n IN
       /\ code[p].op = "MovRS" /\ code[p].a = Reg("rax") /\ code[p].b.n = s
       /\ Cardinality(DefsOf(before, s)) = 1 /\ Cardinality(UsesOf(before, s)) = 1
  ELSE /\ Moves(code, code[q].b.r, "rax") = {p}
       /\ Cardinality(Moves(code, "rax", code[q].b.r)) = 1
LoadsTruth(i) ==
  /\ IsReg(i.a) /\ i.a.r = "rax"
  /\ i.op = "MovSR" \/ (i.op = "MovRR" /\ i.b.r # "rax")

FuseBranchAt(before, code, t) ==
  LET near == {m \in 1 .. t - 1 : code[m].op # "Nop"}
      m == Highest(near)
      chain == {p \in 4 .. t - 2 : /\ \A k \in p .. t - 2 : code[k].op \in KeepsFlags
                                   /\ StoresTruth(before, code, p, t - 1)
                                   /\ TruthValueAt(code, p - 1)}
      p == Highest(chain)
  IN IF ~(t > 1 /\ code[t].op = "Test" /\ code[t].a = Reg("rax") /\ Steers(code[t + 1])) THEN code
     ELSE IF near # {} /\ TruthValueAt(code, m)
          THEN JumpOn(code, t + 1, code[m - 1].cond, {m, m - 1, t})
     ELSE IF LoadsTruth(code[t - 1]) /\ chain # {}
          THEN JumpOn(code, t + 1, code[p - 2].cond, {p, p - 1, p - 2, t - 1, t})
     ELSE code

(***************************************************************************)
(* Pass 87: round trips through rax and copies.                            *)
(***************************************************************************)
FoldTestAt(code, t) ==
  LET mov == code[t - 1] IN
  IF t = 1 \/ code[t].op # "Test" THEN code
  ELSE IF RegMove(mov, "MovRR") /\ mov.a.r = "rax" /\ mov.b.r # "rax"
       THEN [code EXCEPT ![t].a = mov.b, ![t - 1] = Nop]
  ELSE IF mov.op = "MovSR" /\ mov.a.r = "rax" /\ t < Len(code) /\ Steers(code[t + 1])
       THEN [code EXCEPT ![t] = Inst("CmpRImm", mov.b, Imm(0)), ![t - 1] = Nop]
  ELSE code

FoldAccumulatorAt(code, i) ==
  LET out == code[i] op == code[i + 1] back == code[i + 2] IN
  IF /\ RegMove(out, "MovRR") /\ out.a.r = "rax" /\ out.b.r # "rax"
     /\ Computes(op, FALSE)
     /\ RegMove(back, "MovRR") /\ back.a = out.b /\ back.b = out.a
  THEN [code EXCEPT ![i] = Nop, ![i + 1].a = out.b, ![i + 2] = Nop]
  ELSE code

IsCopy(i) == RegMove(i, "MovRR") \/ RegMove(i, "MovFpFp")
FoldSwapAt(code, i) ==
  LET m == code[i] n == code[i + 1] IN
  IF IsCopy(m) /\ m.op = n.op /\ m.a # m.b /\ n.a = m.b /\ n.b = m.a
  THEN [code EXCEPT ![i + 1] = Nop] ELSE code

\* What instruction i reads and writes, as the copy rule and as the later peepholes see it.
ReadsForCopy(i, r) ==
  \/ ReadsReg(i, r)
  \/ i.op \in {"FpBin", "FpNeg", "MovRS", "MovFpS", "StoreMem"} /\ i.a.r = r
WritesForCopy(i, r) ==
  /\ i.op \in {"MovRR", "MovFpFp", "ArithRR", "ArithRImm", "FpBin", "MovFpR", "FpNeg", "MovFpFromGpr", "Neg",
               "Not", "MovRImm", "ShiftImm", "ShiftCl"}
  /\ i.a.r = r
ReadsForPeephole(i, r) == ReadsForCopy(i, r) \/ (i.op = "FpCmp" /\ i.a.r = r) \/ (i.op = "Lea2" /\ i.x = r)
WritesForPeephole(i, r) ==
  \/ i.op \in {"MovRR", "MovFpFp", "ArithRR", "ArithRImm", "FpBin", "FpNeg", "MovRImm", "ShiftImm", "ShiftCl", "Neg",
               "Not", "MovFpR", "MovFpFromGpr", "MovSR", "MovZX", "Cmov", "Setcc"} /\ i.a.r = r
  \/ i.op \in {"Setcc", "CvtToInt", "XorEax"} /\ r = "rax"
  \/ i.op = "CvtToFp" /\ r = "xmm0"
  \/ i.op \in {"IDiv", "UDiv", "MulHi", "Cqo"} /\ r \in {"rax", "rdx"}
Leaving(i) == Boundary(i) \/ i.op \in Leaves

\* Register r is written from position from on before it is read, within the block.
OverwrittenForCopy(code, from, r) ==
  LET events == {j \in from .. Len(code) : Leaving(code[j]) \/ ReadsForCopy(code[j], r) \/ WritesForCopy(code[j], r)}
      k == Lowest(events)
  IN events # {} /\ ~Leaving(code[k]) /\ ~ReadsForCopy(code[k], r)
Overwritten(code, from, r) ==
  LET events == {j \in from .. Len(code) :
                   Leaving(code[j]) \/ ReadsForPeephole(code[j], r) \/ WritesForPeephole(code[j], r)}
      k == Lowest(events)
  IN events # {} /\ ~Leaving(code[k]) /\ ~ReadsForPeephole(code[k], r)

Scratch == {"rax", "xmm0", "xmm1"}
FoldCopyAt(code, i) ==
  LET m == code[i] n == code[i + 1] IN
  IF /\ IsCopy(m) /\ m.op = n.op /\ m.a.r \in Scratch
     /\ n.b = m.a /\ m.b # m.a /\ n.a # m.a
     /\ OverwrittenForCopy(code, i + 2, m.a.r)
  THEN [code EXCEPT ![i] = Nop, ![i + 1].b = m.b] ELSE code

\* A copy that is added to or shifted is an address computation.
FormLeaAt(code, i) ==
  LET m == code[i]
      u == NextLive(code, i + 1)
      op == code[u]
      Disp == IF op.bin = "Add" THEN op.b.n ELSE -op.b.n
      Lea(disp, scale) == [code EXCEPT ![i] = Nop, ![u] = Sized("LeaRR", m.a, [m.b EXCEPT !.n = disp], scale)]
  IN IF ~(RegMove(m, "MovRR") /\ m.a # m.b /\ m.size = 8 /\ u <= Len(code)) THEN code
     ELSE IF op.op = "ArithRImm" /\ op.bin \in {"Add", "Sub"} /\ op.a = m.a /\ FitsImm(Disp)
          THEN Lea(Disp, 1)
     ELSE IF op.op = "ShiftImm" /\ op.bin = "Shl" /\ op.a = m.a /\ op.b.n \in 0 .. 3
          THEN Lea(0, 2 ^ op.b.n)
     ELSE code

BranchesFused(code) ==
  LET stored == DeadStoresGone(code, code)
      fused == Sweep(LAMBDA c, t : FuseBranchAt(stored, c, t), stored, 1)
      folded == Only({Sweep(FoldAccumulatorAt, c, 2) : c \in {Sweep(FoldTestAt, d, 0) : d \in {fused}}})
      copied == Only({Sweep(FoldCopyAt, c, 1) : c \in {Sweep(FoldSwapAt, d, 1) : d \in {folded}}})
  IN Swept(Only({Sweep(FormLeaAt, c, 1) : c \in {copied}}))

(***************************************************************************)
(* Pass 87: the peepholes. Whether a register is read later is asked of    *)
(* the liveness of the code before the first of them.                      *)
(***************************************************************************)
OnlyWritten == {"MovRR", "MovFpFp", "MovSR", "MovFpR", "MovRImm", "Setcc", "LeaRR", "Lea2", "LoadMem"}
KillsLive == OnlyWritten \cup {"ArithRR", "ArithRImm", "FpBin", "FpNeg", "Neg", "Not", "Cmov", "MovZX", "ShiftImm",
                              "ShiftCl", "CvtToFp", "CvtToInt", "MovFpFromGpr"}
UsesLive(i, r) ==
  \/ IsReg(i.b) /\ i.b.r = r
  \/ i.op = "Lea2" /\ i.x = r
  \/ IsReg(i.a) /\ i.a.r = r /\ i.op \notin OnlyWritten
  \/ i.op \in {"IDiv", "UDiv", "Cqo"} /\ r \in {"rax", "rdx"}
  \/ i.op = "MulHi" /\ r = "rax"
  \/ i.op = "ShiftCl" /\ r = "rcx"
EndsLive(i, r) ==
  \/ i.op \in KillsLive /\ IsReg(i.a) /\ i.a.r = r
  \/ i.op \in {"IDiv", "UDiv", "MulHi"} /\ r \in {"rax", "rdx"}
  \/ i.op = "Cqo" /\ r = "rdx"
EndsBlock(code, i) ==
  \/ i = Len(code) \/ code[i].op \in Leaves \cup {"Jmp", "Jcc"}
  \/ code[i + 1].op = "Label"

RECURSIVE Downstream(_, _)
Downstream(next, S) ==
  LET more == UNION {next[i] : i \in S} \ S IN IF more = {} THEN S ELSE Downstream(next, S \cup more)

\* Register r is read in the block of i from position i on before it is written.
BlockOf(code, i) == i .. Lowest({j \in i .. Len(code) : EndsBlock(code, j)})
Exposed(code, i, r) ==
  \E j \in BlockOf(code, i) : UsesLive(code[j], r) /\ \A k \in i .. j - 1 : ~EndsLive(code[k], r)
\* Alive after i: read later in the block, or at the head of any block reached from its end. A write
\* in a block on the way there does not help.
AliveAfter(code, i, r) ==
  LET at == LabelAt(code)
      next == [j \in DOMAIN code |-> NextOf(code, at, j)]
      end == Highest(BlockOf(code, i))
      heads == {j \in Downstream(next, next[end]) : j = 1 \/ EndsBlock(code, j - 1)}
  IN \/ i # end /\ Exposed(code, i + 1, r)
     \/ /\ \A k \in i + 1 .. end : ~EndsLive(code[k], r)
        /\ \E j \in heads : Exposed(code, j, r)

RetargetMovZXAt(code, i) ==
  LET m == NextLive(code, i + 1) mov == code[m] IN
  IF /\ code[i].op = "MovZX" /\ m <= Len(code)
     /\ RegMove(mov, "MovRR") /\ mov.b.r = "rax" /\ mov.a.r # "rax"
     /\ Overwritten(code, m + 1, "rax")
  THEN [code EXCEPT ![i].a = mov.a, ![m] = Nop] ELSE code

DropOperandCopyAt(before, code, i) ==
  LET mov == code[i]
      u == NextLive(code, i + 1)
      op == code[u]
      readers == IF mov.op = "MovFpFp" THEN {"FpBin", "FpCmp"} ELSE {"ArithRR", "CmpRR"}
  IN IF /\ IsCopy(mov) /\ mov.a # mov.b /\ u <= Len(code)
        /\ op.op \in readers /\ op.b = mov.a /\ IsReg(op.a) /\ op.a.r \notin {mov.a.r, mov.b.r}
        /\ ~AliveAfter(before, u, mov.a.r)
     THEN [code EXCEPT ![u].b = mov.b, ![i] = Nop] ELSE code

\* As Overwritten, but a call writes rax.
DeadFrom(code, from, r) ==
  LET events == {j \in from .. Len(code) :
                   Leaving(code[j]) \/ ReadsForPeephole(code[j], r) \/ WritesForPeephole(code[j], r)}
      k == Lowest(events)
  IN events # {} /\ (IF code[k].op \in Calls THEN r = "rax"
                     ELSE ~Leaving(code[k]) /\ ~ReadsForPeephole(code[k], r))
RetargetProducerAt(code, i) ==
  LET p == code[i] m == NextLive(code, i + 1) mov == code[m] IN
  IF /\ p.op \in {"LeaRR", "MovRImm"} /\ m <= Len(code)
     /\ RegMove(mov, "MovRR") /\ mov.b.r = p.a.r /\ mov.a.r # p.a.r
     /\ IF p.op = "MovRImm" THEN p.size = mov.size ELSE p.b.r # mov.a.r
     /\ DeadFrom(code, m + 1, p.a.r)
  THEN [code EXCEPT ![i].a = mov.a, ![m] = Nop] ELSE code

\* Every path from i writes r before it reads it. The search gives up after 1500 steps, half of what
\* is left to each side of a branch.
KilledAt(i, r) ==
  IF i.op \in Calls THEN r = "rax"
  ELSE IF i.op \in {"Ret", "RetNaked"} THEN r # "rax"
  ELSE i.op \notin Leaves /\ ~ReadsForPeephole(i, r) /\ WritesForPeephole(i, r)
Passes(i, r) == i.op \notin Leaves \cup Calls /\ ~ReadsForPeephole(i, r) /\ ~WritesForPeephole(i, r)
RECURSIVE Killed(_, _, _, _)
Killed(code, next, r, S) ==
  LET more == {i \in DOMAIN code \ S : /\ Passes(code[i], r) /\ next[i] # {} /\ next[i] \subseteq S} IN
  IF more = {} THEN S ELSE Killed(code, next, r, S \cup more)
DeadOnAllPaths(code, i, r) ==
  LET at == LabelAt(code) next == [j \in DOMAIN code |-> NextOf(code, at, j)] IN
  i \in Killed(code, next, r, {j \in DOMAIN code : KilledAt(code[j], r)})

FuseBackedgeAt(code, i) ==
  LET op == code[i] m == NextLive(code, i + 1) mov == code[m] IN
  IF /\ op.op = "ArithRR" /\ op.bin \in {"Add", "And", "Or", "Xor", "Mul"} /\ m <= Len(code)
     /\ RegMove(mov, "MovRR") /\ mov.b = op.a /\ mov.a = op.b /\ op.a # op.b /\ mov.size = op.size
     /\ DeadOnAllPaths(code, m + 1, op.a.r)
  THEN [code EXCEPT ![i].a = op.b, ![i].b = op.a, ![m] = Nop] ELSE code

\* The flags of the operation are those of the test behind it.
DropTestAt(code, i) ==
  LET t == NextLive(code, i + 1) j == NextLive(code, t + 1) IN
  IF /\ code[i].op \in {"ArithRR", "ArithRImm"} /\ j <= Len(code)
     /\ code[t].op = "Test" /\ code[t].a = code[i].a /\ Steers(code[j])
  THEN [code EXCEPT ![t] = Nop] ELSE code

Simplified(i) ==
  IF i.op = "CmpRImm" /\ IsReg(i.a) /\ i.b.n = 0 THEN [i EXCEPT !.op = "Test", !.b = None]
  ELSE IF RegMove(i, "MovRR") /\ i.a = i.b THEN Nop
  ELSE i

Peepholed(code) ==
  LET direct == Only({Sweep(LAMBDA e, i : DropOperandCopyAt(code, e, i), c, 1) : c \in {Sweep(RetargetMovZXAt, code, 1)}})
      fused == Only({Sweep(FuseBackedgeAt, c, 1) : c \in {Sweep(RetargetProducerAt, d, 1) : d \in {direct}}})
      tested == Only({Sweep(DropTestAt, c, 1) : c \in {fused}})
  IN Swept([i \in DOMAIN code |-> Simplified(tested[i])])

-----------------------------------------------------------------------------
(* Pass 88 (targets/x86_64/x64_emit.cpp): the layout of loops. The guard of a *)
(* loop moves behind its body, float constants move in front of loops, and    *)
(* the guard's cluster moves up to the jump that enters the loop. Jumps name  *)
(* labels, so code moves freely; what falls through from one instruction to   *)
(* the next has to stay next to it, or get a jump.                            *)

FullEnd(i) == i.op \in Leaves \cup {"Jmp"}
Span(code, from, to) == SubSeq(code, from, to)
Lowered(S) == CHOOSE x \in S : \A y \in S : x.size <= y.size

(***************************************************************************)
(* Rotation.                                                               *)
(***************************************************************************)
\* The loop closed by the jump at p: its head at l, the last conditional jump of the block there,
\* and where the body starts. Form A jumps into the body, form B out of the loop.
LoopAt(code, at, p) ==
  LET l == at[code[p].a.n]
      breaks == {j \in l + 1 .. p - 1 : code[j].op \in {"Label", "Jmp"}}
      stop == IF breaks = {} THEN p ELSE Lowest(breaks)
      jumps == {j \in l + 1 .. stop - 1 : code[j].op = "Jcc"}
      g == Highest(jumps)
      t == at[code[g].a.n]
      exit == {j \in g + 1 .. t - 1 : code[j].op # "Nop"}
      formA == t > g /\ t < p
      okA == exit # {} /\ FullEnd(code[Highest(exit)])
      okB == ~(t >= l /\ t < p) /\ g + 1 < p /\ code[g + 1].op = "Label"
  IN IF jumps # {} /\ (IF formA THEN okA ELSE okB)
     THEN {[size |-> p - l, head |-> l, guard |-> g, body |-> IF formA THEN t ELSE g + 1, latch |-> p, out |-> ~formA]}
     ELSE {}
Rotatable(code) ==
  LET at == LabelAt(code) IN
  UNION {LoopAt(code, at, p) : p \in {q \in DOMAIN code : code[q].op = "Jmp" /\ at[code[q].a.n] < q}}

FreshLabel(code) == Highest({code[i].a.n : i \in {j \in DOMAIN code : code[j].op = "Label"}}) + 1
RotateLoop(code, loop, check) ==
  LET guard == code[loop.guard]
      back == [guard EXCEPT !.cond = InvCond(@), !.a = code[loop.body].a]
      follows == loop.latch < Len(code) /\ code[loop.latch + 1] = Label(guard.a.n)
  IN Append(Span(code, 1, loop.head), Jmp(check))
     \o Span(code, loop.body, loop.latch - 1)
     \o <<Label(check)>>
     \o (IF ~loop.out THEN Span(code, loop.head + 1, loop.body - 1)
         ELSE Append(Span(code, loop.head + 1, loop.guard - 1), back) \o (IF follows THEN <<>> ELSE <<Jmp(guard.a.n)>>))
     \o Span(code, loop.latch + 1, Len(code))

\* The tightest loop first, at most 256 of them.
RECURSIVE RotateAll(_, _)
RotateAll(code, rounds) ==
  LET loops == Rotatable(code) IN
  IF loops = {} \/ rounds = 0 THEN code ELSE RotateAll(RotateLoop(code, Lowered(loops), FreshLabel(code)), rounds - 1)
Rotated(code) == RotateAll(code, 256)

(***************************************************************************)
(* Constants out of loops.                                                 *)
(***************************************************************************)
Pool == {"xmm14", "xmm15"}
Makes(code, i) ==
  /\ i < Len(code) /\ code[i].op = "MovRImm" /\ code[i].a = Reg("rax")
  /\ code[i + 1].op = "MovFpFromGpr" /\ code[i + 1].a.r \in Pool /\ code[i + 1].b = Reg("rax")
Loops(code) == {[top |-> e[1], end |-> e[2], size |-> e[2] - e[1]] : e \in Backedges(code)}
Writes(i, r) == i.op \in {"MovFpFp", "FpBin", "MovFpR", "FpNeg", "MovFpFromGpr"} /\ i.a.r = r
HoistsOver_PastCalls(code, i, loop) ==
  i > loop.top /\ i < loop.end /\ \A k \in loop.top .. loop.end \ {i, i + 1} : ~Writes(code[k], code[i + 1].a.r)
HoistsOver(code, i, loop) ==
  /\ i > loop.top /\ i < loop.end
  /\ \A k \in loop.top .. loop.end : /\ code[k].op \notin Calls \cup {"TailCallFn"}
                                     /\ k \notin {i, i + 1} => ~Writes(code[k], code[i + 1].a.r)
\* In front of the top of the outermost loop that allows it, or of the jump
\* into the loop that rotation has put there.
HoistedTo(code, i) ==
  LET at == LabelAt(code)
      loops == {l \in Loops(code) : HoistsOver(code, i, l)}
      outer == CHOOSE l \in loops : \A m \in loops : m.size <= l.size
      shim == outer.top > 1 /\ code[outer.top - 1].op = "Jmp" /\ at[code[outer.top - 1].a.n] \in outer.top + 1 .. outer.end
  IN IF loops = {} THEN 0 ELSE IF shim THEN outer.top - 1 ELSE outer.top
ConstantsHoisted(code) ==
  LET goes == [i \in {j \in DOMAIN code : Makes(code, j) /\ HoistedTo(code, j) # 0} |-> HoistedTo(code, i)]
      at(k) == Ascending({i \in DOMAIN goes : goes[i] = k})
      pairs(k) == FlattenSeq([n \in DOMAIN at(k) |-> Span(code, at(k)[n], at(k)[n] + 1)])
      stays(k) == k \notin DOMAIN goes /\ k - 1 \notin DOMAIN goes
  IN IF DOMAIN goes = {} THEN code
     ELSE FlattenSeq([k \in DOMAIN code |-> pairs(k) \o (IF stays(k) THEN <<code[k]>> ELSE <<>>)])

(***************************************************************************)
(* Loop entries.                                                           *)
(***************************************************************************)
\* A cluster ends with the first instruction that leaves, but for a jump to
\* the label right behind it.
Elides(code, i) ==
  LET j == NextLive(code, i + 1) IN code[i].op = "Jmp" /\ j <= Len(code) /\ code[j] = Label(code[i].a.n)
ClusterEnd(code, t) ==
  LET ends == {u \in t .. Len(code) : FullEnd(code[u]) /\ ~Elides(code, u)} IN
  IF ends = {} THEN 0 ELSE Lowest(ends)
Enters(code, at, i) ==
  LET t == at[code[i].a.n] end == ClusterEnd(code, t) IN
  /\ i < Len(code) /\ code[i].op = "Jmp" /\ t > i + 1 /\ code[i + 1].op = "Label"
  /\ end # 0
  /\ \E k \in t .. end : code[k].op = "Jcc"
MoveCluster(code, i, t, end) ==
  Span(code, 1, i - 1) \o Span(code, t, end) \o Span(code, i + 1, t - 1) \o <<Jmp(code[i].a.n)>>
  \o Span(code, end + 1, Len(code))
RECURSIVE EnterAll(_, _)
EnterAll(code, rounds) ==
  LET at == LabelAt(code)
      jumps == {i \in DOMAIN code : code[i].op = "Jmp" /\ Enters(code, at, i)}
      i == Lowest(jumps)
      t == at[code[i].a.n]
  IN IF jumps = {} \/ rounds = 0 THEN code
     ELSE EnterAll(MoveCluster(code, i, t, ClusterEnd(code, t)), rounds - 1)
EntriesFallThrough(code) ==
  LET moved == EnterAll(code, 64) IN
  [i \in DOMAIN moved |-> IF Elides(moved, i) THEN Nop ELSE moved[i]]

LaidOut(code) ==
  Only({EntriesFallThrough(c) : c \in {ConstantsHoisted(d) : d \in {Rotated(code)}}})
=============================================================================
