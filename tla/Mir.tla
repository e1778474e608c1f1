-------------------------------- MODULE Mir --------------------------------
(* The machine code the target's passes work on (core/codegen/linear.h) and *)
(* what it does when it runs: registers of a word, a half and a byte, slots, *)
(* flags, labels. A half is Half bits wide, a word two halves; the byte      *)
(* holds truth values only.                                                  *)
(*                                                                           *)
(* Loads read a memory that stores do not change, because no machine pass    *)
(* moves or drops either; stores and calls go to the trace in order. What    *)
(* the hardware leaves undefined is junk, and every run is made with two     *)
(* kinds of it.                                                              *)
EXTENDS Integers, Sequences, FiniteSets, SequencesExt, Bitwise

CONSTANTS Half,      \* bits of a 32-bit operand
          ArgRegs,   \* the registers a call takes its arguments in, in order
          CalleeRegs \* the registers a call keeps

ASSUME WidthAssumption == Half \in Nat \ {0}

Bits(size) == IF size = 8 THEN 2 * Half ELSE IF size = 4 THEN Half ELSE 1
Cut(v, size) == v % 2 ^ Bits(size)
Signed(v, size) == IF v < 2 ^ (Bits(size) - 1) THEN v ELSE v - 2 ^ Bits(size)
\* An immediate is as wide as a half.
FitsImm(v) == v \in -(2 ^ (Half - 1)) .. 2 ^ (Half - 1) - 1

Fixed == {"rax", "rcx", "rdx"}
Floats == {"xmm0", "xmm1", "xmm2", "xmm3", "xmm14", "xmm15"}
Registers == Fixed \cup ToSet(ArgRegs) \cup CalleeRegs \cup Floats \cup {"r10"}

(***************************************************************************)
(* Instructions.                                                           *)
(***************************************************************************)
Operand(k, r, n) == [k |-> k, r |-> r, n |-> n]
None == Operand("none", "rax", 0)
Reg(r) == Operand("reg", r, 0)
Slot(s) == Operand("slot", "rax", s)
Imm(v) == Operand("imm", "rax", v)
Lab(l) == Operand("label", "rax", l)

\* x is the index register of Lea2.
Inst(op, a, b) == [op |-> op, a |-> a, b |-> b, size |-> 8, cond |-> "E",
                   bin |-> "Add", sar |-> FALSE, x |-> "rax"]
Sized(op, a, b, size) == [Inst(op, a, b) EXCEPT !.size = size]
Bin(op, bin, a, b, size) == [Sized(op, a, b, size) EXCEPT !.bin = bin]
Nop == Inst("Nop", None, None)
Label(l) == Inst("Label", Lab(l), None)
Jmp(l) == Inst("Jmp", Lab(l), None)
Jcc(c, l) == [Inst("Jcc", Lab(l), None) EXCEPT !.cond = c]

InvCond(c) ==
  CASE c = "E" -> "NE" [] c = "NE" -> "E" [] c = "L" -> "GE" [] c = "GE" -> "L"
    [] c = "LE" -> "G" [] c = "G" -> "LE" [] c = "B" -> "AE" [] c = "AE" -> "B"
    [] c = "BE" -> "A" [] c = "A" -> "BE" [] c = "P" -> "NP" [] c = "NP" -> "P"

IsReg(o) == o.k = "reg"
IsSlot(o) == o.k = "slot"
Calls == {"CallFn", "CallSym"}
Leaves == {"Ret", "RetNaked", "TailCallFn", "TailCallNaked"}

\* Where the labels are.
LabelAt(code) ==
  [l \in {code[i].a.n : i \in {j \in DOMAIN code : code[j].op = "Label"}} |->
     CHOOSE i \in DOMAIN code : code[i].op = "Label" /\ code[i].a.n = l]
Backedges(code) ==
  LET at == LabelAt(code) IN
  {<<at[code[i].a.n], i>> : i \in {j \in DOMAIN code : /\ code[j].op \in {"Jcc", "Jmp"}
                                                       /\ code[j].a.n \in DOMAIN at
                                                       /\ at[code[j].a.n] < j}}

\* The next instruction that is not a Nop, or one past the end.
NextLive(code, i) ==
  LET ahead == {j \in i .. Len(code) : code[j].op # "Nop"} IN
  IF ahead = {} THEN Len(code) + 1 ELSE CHOOSE j \in ahead : \A k \in ahead : j <= k

\* The members of a set of numbers, in order.
Ascending(S) == SelectSeq([k \in 1 .. Max(S \cup {0}) |-> k], LAMBDA k : k \in S)

\* The member of a set of one. {g(d) : d \in {c}} is g(c) with c computed first, which keeps a
\* sequence of passes from piling up as one expression.
Only(S) == CHOOSE x \in S : TRUE

\* A rule applied to the code at each position from the front, but for the last n.
Sweep(Rule(_, _), code, n) ==
  FoldLeft(LAMBDA c, i : Only({Rule(d, i) : d \in {c}}), code, [i \in 1 .. Len(code) - n |-> i])

Swept(code) == SelectSeq(code, LAMBDA i : i.op # "Nop")

(***************************************************************************)
(* Values.                                                                 *)
(***************************************************************************)
Word == 2 ^ (2 * Half)

BinValue(bin, x, y) ==
  CASE bin = "Add" -> x + y [] bin = "Sub" -> x - y [] bin = "Mul" -> x * y
    [] bin = "And" -> x & y [] bin = "Or" -> x | y [] bin = "Xor" -> x ^^ y

\* Shifts count modulo the width, and shift zeros or copies of the sign in.
ShiftValue(bin, sar, v, count, size) ==
  LET k == count % Bits(size) IN
  IF bin = "Shl" THEN v * 2 ^ k
  ELSE IF sar THEN Signed(v, size) \div 2 ^ k ELSE v \div 2 ^ k

Magnitude(x) == IF x < 0 THEN -x ELSE x
Truncated(x, y) == LET q == Magnitude(x) \div Magnitude(y) IN IF (x < 0) = (y < 0) THEN q ELSE -q

\* A float is a word: an integer that wraps at Word - 1, or NaN.
NaN == Word - 1
FpOf(x) == x % (Word - 1)
IntOf(x) == IF x = NaN THEN -(Word \div 2) ELSE IF x < Word \div 2 THEN x ELSE x - (Word - 1)
FpLess(x, y) == x # NaN /\ y # NaN /\ IntOf(x) < IntOf(y)
FpNegated(x) == IF x = NaN THEN NaN ELSE FpOf(-x)

\* minsd and maxsd give their source unless the comparison holds.
FpValue(bin, dst, src) ==
  IF bin = "Min" THEN IF FpLess(dst, src) THEN dst ELSE src
  ELSE IF bin = "Max" THEN IF FpLess(src, dst) THEN dst ELSE src
  ELSE IF dst = NaN \/ src = NaN THEN NaN ELSE FpOf(BinValue(bin, dst, src))

\* What a comparison leaves in the flags: an unordered one sets z, b and p.
Compared(x, y, size) ==
  [z |-> x = y, l |-> Signed(x, size) < Signed(y, size), b |-> x < y, p |-> FALSE]
FpCompared(x, y) ==
  LET unordered == x = NaN \/ y = NaN IN
  [z |-> unordered \/ x = y, l |-> FALSE, b |-> unordered \/ FpLess(x, y), p |-> unordered]
Holds(c, f) ==
  CASE c = "E" -> f.z [] c = "NE" -> ~f.z
    [] c = "L" -> f.l [] c = "GE" -> ~f.l [] c = "LE" -> f.l \/ f.z [] c = "G" -> ~(f.l \/ f.z)
    [] c = "B" -> f.b [] c = "AE" -> ~f.b [] c = "BE" -> f.b \/ f.z [] c = "A" -> ~(f.b \/ f.z)
    [] c = "P" -> f.p [] c = "NP" -> ~f.p

(***************************************************************************)
(* A run.                                                                  *)
(***************************************************************************)
JunkWord(junk) == IF junk THEN Word - 3 ELSE 2 ^ Half + 2
Memory(a, size) == Cut(5 * a + 3, size)
Result(calls) == Cut(7 * calls + 11, 8)
Fuel == 8

\* A partial write of a word: a half clears the rest, a byte keeps it.
Into(old, v, size) == IF size = 1 THEN old - (old % 2) + (v % 2) ELSE Cut(v, size)
\* A slot keeps what a narrow store does not reach.
OntoSlot(old, v, size) == old - Cut(old, size) + Cut(v, size)

To(s, r, v) == [s EXCEPT !.r[r] = Cut(v, 8), !.pc = @ + 1]
\* Arithmetic sets the flags: all of them where the result is exact, none
\* that can be relied on after a multiplication.
ArithFlags(s, bin, x, y, size) ==
  CASE bin = "Sub" -> Compared(x, y, size)
    [] bin = "Add" -> [z |-> Cut(x + y, size) = 0, l |-> Signed(x, size) + Signed(y, size) < 0,
                       b |-> x + y >= 2 ^ Bits(size), p |-> FALSE]
    [] bin = "Mul" -> [z |-> s.junk, l |-> s.junk, b |-> s.junk, p |-> s.junk]
    [] OTHER -> Compared(Cut(BinValue(bin, x, y), size), 0, size)
Flagged(s, z) == [s EXCEPT !.f = [z |-> z, l |-> s.junk, b |-> s.junk, p |-> s.junk]]
ValueAt(s, o, size) == Cut(IF IsReg(o) THEN s.r[o.r] ELSE IF IsSlot(o) THEN s.m[o.n] ELSE o.n, size)

\* A call shows one argument, of the register a.n or of xmm0; every register
\* it does not keep is junk afterwards but for the result.
Called(s, i) ==
  [s EXCEPT !.t = Append(@, <<"call", IF i.a.n = 0 THEN s.r["xmm0"] ELSE Cut(s.r[ArgRegs[i.a.n]], i.size)>>),
            !.pc = @ + 1, !.calls = @ + 1,
            !.r = [r \in Registers |-> IF r \in CalleeRegs THEN @[r]
                                       ELSE IF r \in {"rax", "xmm0"} THEN Result(s.calls) ELSE JunkWord(s.junk)]]

Divided(s, i) ==
  LET d == s.r[i.a.r]
      high == s.r["rdx"]
      x == IF i.op = "IDiv" THEN Signed(high, 8) * Word + s.r["rax"] ELSE high * Word + s.r["rax"]
      y == IF i.op = "IDiv" THEN Signed(d, 8) ELSE d
      q == IF y = 0 THEN 0 ELSE Truncated(x, y)
      fits == IF i.op = "IDiv" THEN q \in -(Word \div 2) .. Word \div 2 - 1 ELSE q \in 0 .. Word - 1
  IN IF y = 0 \/ ~fits THEN [s EXCEPT !.pc = 0, !.t = Append(@, <<"fault", 0>>), !.r = [r \in Registers |-> 0]]
     ELSE [s EXCEPT !.r["rax"] = Cut(q, 8), !.r["rdx"] = Cut(x - q * y, 8), !.pc = @ + 1,
                    !.f = [z |-> s.junk, l |-> s.junk, b |-> s.junk, p |-> s.junk]]

\* One instruction; the state it leaves. pc 0 is the end.
Step(s, i, at) ==
  LET dst == i.a.r
      size == i.size
      src == ValueAt(s, i.b, size)
      own == Cut(s.r[dst], size)
      count == IF i.op = "ShiftCl" THEN s.r["rcx"] ELSE i.b.n
  IN
  CASE i.op \in {"Nop", "Label"} -> [s EXCEPT !.pc = @ + 1]
    [] i.op \in {"MovRR", "MovFpFp", "MovFpFromGpr", "MovSR", "MovFpR"} -> To(s, dst, Into(s.r[dst], src, size))
    [] i.op \in {"MovRS", "MovFpS"} -> [s EXCEPT !.m[i.b.n] = OntoSlot(@, own, size), !.pc = @ + 1]
    [] i.op = "MovRImm" -> To(s, dst, i.b.n)
    [] i.op = "MovSImm" -> [s EXCEPT !.m[i.a.n] = Cut(i.b.n, 8), !.pc = @ + 1]
    [] i.op = "MovZX" -> To(s, dst, s.r["rax"] % 2)
    [] i.op = "LoadMem" -> To(s, dst, Memory(s.r[i.b.r], size))
    [] i.op = "StoreMem" -> [s EXCEPT !.t = Append(@, <<"store", s.r[dst], src, size>>), !.pc = @ + 1]
    [] i.op \in {"ArithRR", "ArithRImm"} ->
         [To(s, dst, Into(s.r[dst], BinValue(i.bin, own, src), size))
            EXCEPT !.f = ArithFlags(s, i.bin, own, src, size)]
    [] i.op = "FpBin" -> To(s, dst, FpValue(i.bin, s.r[dst], s.r[i.b.r]))
    [] i.op = "FpCmp" -> [s EXCEPT !.f = FpCompared(s.r[dst], s.r[i.b.r]), !.pc = @ + 1]
    [] i.op = "FpNeg" -> To(s, dst, FpNegated(s.r[dst]))
    [] i.op = "FpZero" -> To(s, dst, 0)
    [] i.op = "CvtToFp" -> To(s, "xmm0", FpOf(Signed(s.r["rax"], 8)))
    [] i.op = "CvtToInt" -> To(s, "rax", Cut(IntOf(s.r["xmm0"]), size))
    [] i.op = "XorEax" -> [To(s, "rax", 0) EXCEPT !.f = Compared(0, 0, 8)]
    [] i.op \in {"ShiftImm", "ShiftCl"} ->
         LET v == Cut(ShiftValue(i.bin, i.sar, own, count, size), size) IN
         IF count % Bits(size) = 0 THEN To(s, dst, Into(s.r[dst], v, size))
         ELSE Flagged(To(s, dst, Into(s.r[dst], v, size)), v = 0)
    [] i.op = "Neg" -> [To(s, dst, -s.r[dst]) EXCEPT !.f = Compared(0, s.r[dst], 8)]
    [] i.op = "Not" -> To(s, dst, Word - 1 - s.r[dst])
    [] i.op = "SExt32" -> To(s, "rax", Signed(Cut(s.r["rax"], 4), 4))
    [] i.op = "Cqo" -> To(s, "rdx", IF Signed(s.r["rax"], 8) < 0 THEN -1 ELSE 0)
    [] i.op \in {"IDiv", "UDiv"} -> Divided(s, i)
    [] i.op = "MulHi" -> LET p == s.r["rax"] * s.r[dst] IN
                         Flagged([To(s, "rax", p) EXCEPT !.r["rdx"] = p \div Word], s.junk)
    [] i.op = "LeaRR" -> To(s, dst, s.r[i.b.r] * size + i.b.n)
    [] i.op = "Lea2" -> To(s, dst, s.r[i.b.r] + s.r[i.x] * size + i.b.n)
    [] i.op \in {"CmpRR", "CmpRImm"} ->
         [s EXCEPT !.f = Compared(ValueAt(s, i.a, size), src, size), !.pc = @ + 1]
    [] i.op = "Test" -> [s EXCEPT !.f = Compared(own, 0, size), !.pc = @ + 1]
    [] i.op = "Setcc" -> To(s, dst, Into(s.r[dst], IF Holds(i.cond, s.f) THEN 1 ELSE 0, 1))
    [] i.op = "Cmov" -> To(s, dst, Into(s.r[dst], IF Holds(i.cond, s.f) THEN src ELSE own, size))
    [] i.op = "Jcc" -> [s EXCEPT !.pc = IF Holds(i.cond, s.f) THEN at[i.a.n] ELSE @ + 1]
    [] i.op = "Jmp" -> [s EXCEPT !.pc = at[i.a.n]]
    [] i.op \in Calls -> Called(s, i)
    [] i.op \in Leaves -> [s EXCEPT !.pc = 0]

\* At most 2 ^ k steps.
RECURSIVE Continue(_, _, _, _)
Continue(s, code, at, k) ==
  IF s.pc = 0 THEN s
  ELSE IF k > 0 THEN Continue(Continue(s, code, at, k - 1), code, at, k - 1)
  ELSE IF s.pc > Len(code) THEN [s EXCEPT !.pc = 0, !.t = Append(@, <<"lost", 0>>)]
  ELSE Step(s, code[s.pc], at)

\* What a run shows that starts with these values in registers: its trace and
\* the value it returns. A run that does not end shows its trace so far.
Shown(s, fp, size) ==
  [trace |-> s.t, value |-> IF s.pc # 0 \/ size = 0 THEN 0 ELSE Cut(s.r[IF fp THEN "xmm0" ELSE "rax"], size)]
Run(code, slots, args, junk, fp, size) ==
  LET start == [pc |-> 1, m |-> [k \in 1 .. slots |-> JunkWord(junk)], t |-> <<>>, junk |-> junk,
                calls |-> 0, f |-> [z |-> junk, l |-> junk, b |-> junk, p |-> junk],
                r |-> args @@ [r \in Registers |-> JunkWord(junk)]]
  IN Shown(Continue(start, code, LabelAt(code), Fuel), fp, size)
=============================================================================
