------------------------------ MODULE Rewrite ------------------------------
(* What the register allocator does to the code around its assignment        *)
(* (targets/x86_64/x64_ra.cpp): folding of stores into the loads that follow, *)
(* recognition of accumulator chains, and, given the registers of the         *)
(* promoted slots, the rewriting of the stream. Which slots get which         *)
(* registers is the business of Ralloc; here any assignment will do that      *)
(* keeps slots apart that are alive together.                                *)
EXTENDS Mir

(***************************************************************************)
(* Slots.                                                                  *)
(***************************************************************************)
Stores == {"MovRS", "MovFpS"}
SlotLoads == {"MovSR", "MovFpR"}
DefSlot(i) == IF i.op \in Stores THEN i.b.n ELSE IF i.op = "MovSImm" THEN i.a.n ELSE 0
UseSlot(i) == IF i.op \in SlotLoads THEN i.b.n
              ELSE IF i.op = "CmpRImm" /\ IsSlot(i.a) THEN i.a.n ELSE 0
DefsOf(code, s) == {j \in DOMAIN code : DefSlot(code[j]) = s}
UsesOf(code, s) == {j \in DOMAIN code : UseSlot(code[j]) = s}
SlotsIn(code) == UNION {{DefSlot(code[j]), UseSlot(code[j])} : j \in DOMAIN code} \ {0}
LoadedFrom(code, from, s) ==
  \E j \in from .. Len(code) : code[j].op \in SlotLoads /\ code[j].b.n = s

(***************************************************************************)
(* Folding of a store and the load behind it.                              *)
(***************************************************************************)
\* From before a loop into it.
Straddles(backedges, from, to) == \E e \in backedges : from < e[1] /\ to > e[1]

\* What a value in register x may stay alive across.
GapOk(i, s, x) ==
  \/ i.op = "CmpRImm" /\ ~(IsSlot(i.a) /\ i.a.n = s)
  \/ i.op \in {"Nop", "CmpRR", "Test", "FpCmp", "Jcc"}
  \/ i.op \in SlotLoads /\ i.a.r # x /\ i.b.n # s
  \/ i.op \in {"MovRImm", "MovRR", "MovFpFp"} /\ i.a.r # x

ReloadOf_ReadAgain(code, i) ==
  LET s == code[i].b.n
      x == code[i].a.r
      stops == {j \in i + 1 .. Len(code) : ~GapOk(code[j], s, x)}
      k == CHOOSE j \in stops : \A l \in stops : j <= l
  IN IF /\ stops # {}
        /\ code[k].op \in SlotLoads /\ code[k].a.r = x /\ code[k].b.n = s
     THEN k ELSE 0
\* The load that brings the stored value back into the same register.
ReloadOf(code, i) ==
  LET s == code[i].b.n
      x == code[i].a.r
      stops == {j \in i + 1 .. Len(code) : ~GapOk(code[j], s, x)}
      k == CHOOSE j \in stops : \A l \in stops : j <= l
  IN IF /\ stops # {}
        /\ code[k].op \in SlotLoads /\ code[k].a.r = x /\ code[k].b.n = s
        /\ ~LoadedFrom(code, k + 1, s)
     THEN k ELSE 0

Reloads(code, i, op, s) == code[i].op = op /\ code[i].b.n = s
FoldAt(backedges, code, i) ==
  LET cur == code[i]
      next == code[i + 1]
      s == DefSlot(cur)
      k == ReloadOf(code, i)
      last == ~LoadedFrom(code, i + 2, s) /\ ~Straddles(backedges, i, i + 1)
      mov == IF cur.op = "MovRS" THEN Inst("MovRR", next.a, cur.a) ELSE Sized("MovFpFp", next.a, cur.a, cur.size)
  IN IF cur.op \in Stores /\ k # 0 /\ ~Straddles(backedges, i, k)
     THEN [code EXCEPT ![i] = Nop, ![k] = Nop]
     ELSE IF cur.op \in Stores /\ last /\ Reloads(code, i + 1, IF cur.op = "MovRS" THEN "MovSR" ELSE "MovFpR", s)
     THEN [code EXCEPT ![i] = IF next.a = cur.a THEN Nop ELSE mov, ![i + 1] = Nop]
     ELSE IF cur.op = "MovSImm" /\ last /\ Reloads(code, i + 1, "MovSR", s)
     THEN [code EXCEPT ![i] = Inst("MovRImm", next.a, cur.b), ![i + 1] = Nop]
     ELSE code
PairFold(code) ==
  LET backedges == Backedges(code) IN
  Sweep(LAMBDA c, i : FoldAt(backedges, c, i), code, 1)

(***************************************************************************)
(* Accumulator chains.                                                     *)
(***************************************************************************)
Accumulator(fp) == IF fp THEN "xmm0" ELSE "rax"
Computes(i, fp) ==
  IsReg(i.a) /\ i.a.r = Accumulator(fp)
  /\ i.op \in (IF fp THEN {"FpBin", "FpNeg"} ELSE {"ArithRR", "ArithRImm", "ShiftImm", "ShiftCl", "Neg", "Not"})
Snapshot(i, fp) == i.op = (IF fp THEN "MovFpS" ELSE "MovRS") /\ i.a.r = Accumulator(fp)
IsGap(i, fp) ==
  \/ i.op = "Nop"
  \/ /\ i.op \in {"MovRR", "MovSR", "MovFpFp", "MovFpR", "MovRImm", "MovFpFromGpr", "FpZero"}
     /\ i.a.r # Accumulator(fp)
     /\ ~(IsReg(i.b) /\ i.b.r = Accumulator(fp))

\* The instructions a chain that starts with the load at i runs through.
ChainOf(code, i) ==
  LET fp == code[i].op = "MovFpR"
      stops == {j \in i + 1 .. Len(code) :
                  ~(Computes(code[j], fp) \/ Snapshot(code[j], fp) \/ IsGap(code[j], fp))}
  IN i + 1 .. (IF stops = {} THEN Len(code) ELSE (CHOOSE j \in stops : \A k \in stops : j <= k) - 1)

\* The generation of slot s that position i is in ends at its last use before the next definition.
LastOfGeneration(code, s, i) ==
  LET later == {d \in DefsOf(code, s) : d > i}
      bound == IF later = {} THEN Len(code) + 1 ELSE CHOOSE d \in later : \A c \in later : d <= c
  IN \A u \in UsesOf(code, s) : ~(i < u /\ u < bound)

Highest(S) == CHOOSE x \in S : \A y \in S : y <= x
Lowest(S) == CHOOSE x \in S : \A y \in S : x <= y
FuseAt(code, i) ==
  LET fp == code[i].op = "MovFpR"
      chain == ChainOf(code, i)
      stores == {j \in chain : Snapshot(code[j], fp)}
      t == Highest(stores)
      ops == {j \in chain : Computes(code[j], fp)}
      first == IF ops = {} THEN Len(code) + 1 ELSE Lowest(ops)
      gaps == {j \in chain : code[j].op \in SlotLoads /\ j < t}
      a == code[i].b.n
      z == code[t].b.n
      own == {j \in gaps : code[j].b.n = z}
  IN IF stores # {} /\ (\A j \in own : j < first) /\ (z = a \/ own = {})
     THEN {[load |-> i, store |-> t, a |-> a, z |-> z, fp |-> fp, ops |-> ops # {}, first |-> first,
            gaps |-> {<<code[j].b.n, j>> : j \in gaps}, last |-> LastOfGeneration(code, a, i)]}
     ELSE {}
Fuses(code) ==
  UNION {FuseAt(code, i) : i \in {j \in DOMAIN code : /\ code[j].op \in SlotLoads
                                                      /\ code[j].a.r = Accumulator(code[j].op = "MovFpR")}}

(***************************************************************************)
(* Assignments.                                                            *)
(***************************************************************************)
NextOf(code, at, i) ==
  IF code[i].op \in Leaves THEN {}
  ELSE IF code[i].op = "Jmp" THEN {at[code[i].a.n]}
  ELSE (IF code[i].op = "Jcc" THEN {at[code[i].a.n]} ELSE {}) \cup (IF i < Len(code) THEN {i + 1} ELSE {})

RECURSIVE LiveInto(_, _, _, _)
LiveInto(next, uses, defs, S) ==
  LET more == {i \in DOMAIN next \ (S \cup defs) : next[i] \cap S # {}} IN
  IF more = {} THEN S ELSE LiveInto(next, uses, defs, S \cup more)

\* Where slot s needs its register: where it is alive afterwards, where it is
\* written, and from the load of a chain that computes it.
Occupied(code, next, fuses, s) ==
  LET live == LiveInto(next, UsesOf(code, s), DefsOf(code, s), UsesOf(code, s)) IN
  {i \in DOMAIN code : next[i] \cap live # {}} \cup DefsOf(code, s)
  \cup UNION {f.load .. f.store - 1 : f \in {g \in fuses : g.z = s /\ g.a # s}}

GprBank == <<"r10", "rbx", "r12">>
XmmBank == <<"xmm2", "xmm3">>
Promotable(code, s) ==
  LET ops == {code[j].op : j \in DefsOf(code, s) \cup UsesOf(code, s)} IN
  /\ DefsOf(code, s) # {} /\ UsesOf(code, s) # {}
  /\ ops \subseteq {"MovRS", "MovSR", "MovSImm"} \/ ops \subseteq {"MovFpS", "MovFpR"}
BankOf(code, s, occupied) ==
  LET fp == \E j \in UsesOf(code, s) : code[j].op = "MovFpR"
      crosses == \E i \in occupied \ DefsOf(code, s) : code[i].op \in Calls
  IN IF fp THEN IF crosses THEN <<>> ELSE XmmBank
     ELSE SelectSeq(GprBank, LAMBDA r : ~crosses \/ r \in CalleeRegs)

\* The slots take the first register that is free where they need one, in
\* the order given; some stay in memory.
Seated(code, occupied, home, s) ==
  LET taken == {home[t] : t \in {u \in DOMAIN home : occupied[u] \cap occupied[s] # {}}}
      free == SelectSeq(BankOf(code, s, occupied[s]), LAMBDA r : r \notin taken)
  IN IF free = <<>> \/ ~Promotable(code, s) THEN home ELSE (s :> free[1]) @@ home
Assignments(code) ==
  LET at == LabelAt(code)
      next == [i \in DOMAIN code |-> NextOf(code, at, i)]
      fuses == Fuses(code)
      slots == SlotsIn(code)
      up == Ascending(slots)
      Greedy(occupied, order) == FoldLeft(LAMBDA h, s : Seated(code, occupied, h, s), <<>>, order)
  IN UNION {{<<>>, Greedy(o, up), Greedy(o, Reverse(up))} :
              o \in {[s \in slots |-> Occupied(code, next, fuses, s)]}}

(***************************************************************************)
(* Rewriting.                                                              *)
(***************************************************************************)
\* A promoted slot's stores and loads become moves of its register.
Promoted(i, home) ==
  LET s == IF DefSlot(i) # 0 THEN DefSlot(i) ELSE UseSlot(i) IN
  IF s \notin DOMAIN home THEN i
  ELSE CASE i.op = "MovRS" -> [i EXCEPT !.op = "MovRR", !.a = Reg(home[s]), !.b = i.a]
         [] i.op = "MovFpS" -> [i EXCEPT !.op = "MovFpFp", !.a = Reg(home[s]), !.b = i.a]
         [] i.op = "MovSImm" -> [i EXCEPT !.op = "MovRImm", !.a = Reg(home[s])]
         [] i.op = "MovSR" -> [i EXCEPT !.op = "MovRR", !.b = Reg(home[s])]
         [] i.op = "MovFpR" -> [i EXCEPT !.op = "MovFpFp", !.b = Reg(home[s])]
PromoteAll(code, home) == [i \in DOMAIN code |-> Promoted(code[i], home)]

RegMove(i, op) == i.op = op /\ IsReg(i.a) /\ IsReg(i.b)
\* A consumer reads the source of the move before it instead: as its source,
\* or as its destination if it only compares.
SourceTaken(code, i, u) == 
  IsReg(code[u].b) /\ code[u].b.r = code[i].a.r /\ code[i].b.r # code[u].a.r
DestTaken(code, i, u) ==
  IsReg(code[u].a) /\ code[u].a.r = code[i].a.r /\ ~(IsReg(code[u].b) /\ code[u].b.r = code[i].b.r)
TakeSource(code, i, u) == [code EXCEPT ![u].b = code[i].b, ![i] = Nop]
TakeDest(code, i, u) == [code EXCEPT ![u].a = code[i].b, ![i] = Nop]

FpFoldAt(code, i) ==
  LET u == NextLive(code, i + 1) IN
  IF ~RegMove(code[i], "MovFpFp") \/ u > Len(code) THEN code
  ELSE IF code[u].op \in {"FpBin", "FpCmp"} /\ SourceTaken(code, i, u) THEN TakeSource(code, i, u)
  ELSE IF code[u].op = "FpCmp" /\ DestTaken(code, i, u) THEN TakeDest(code, i, u)
  ELSE code

\* Whether register r is read from position from on, but at except, before
\* it gets a new value.
ReadsReg(i, r) ==
  \/ IsReg(i.b) /\ i.b.r = r
  \/ /\ i.op \in {"ArithRR", "ArithRImm", "CmpRR", "CmpRImm", "Cmov", "ShiftImm", "ShiftCl", "Neg", "Not", "Test"}
     /\ IsReg(i.a) /\ i.a.r = r
  \/ i.op \in {"IDiv", "UDiv", "MulHi"} /\ r \in {"rax", "rdx", i.a.r}
  \/ i.op \in {"Cqo", "SExt32", "MovZX", "CvtToFp"} /\ r = "rax"
Boundary(i) == i.op \in {"Label", "Jcc", "Jmp", "Ret", "RetNaked"} \cup Calls
Redefines(i, r) ==
  /\ i.op \in {"MovRR", "MovRImm", "MovSR", "MovZX", "LoadMem", "LeaRR", "Lea2", "Setcc", "MovFpFromGpr"}
  /\ i.a.r = r
OtherReader(code, from, r, except) ==
  LET events == {k \in from .. Len(code) \ {except} :
                   Boundary(code[k]) \/ ReadsReg(code[k], r) \/ Redefines(code[k], r)}
      k == Lowest(events)
  IN events # {} /\ (Boundary(code[k]) \/ ReadsReg(code[k], r))

GpFoldAt(code, i) ==
  LET u == NextLive(code, i + 1) IN
  IF \/ ~RegMove(code[i], "MovRR") \/ u > Len(code)
     \/ code[i].a.r \notin {"rax", "rcx"}
     \/ OtherReader(code, i + 1, code[i].a.r, u)
  THEN code
  ELSE IF code[u].op \in {"ArithRR", "CmpRR"} /\ SourceTaken(code, i, u) THEN TakeSource(code, i, u)
  ELSE IF code[u].op \in {"CmpRR", "Test", "CmpRImm"} /\ DestTaken(code, i, u) THEN TakeDest(code, i, u)
  ELSE code

FpFold(code) == FoldLeft(LAMBDA c, round : Only({Sweep(FpFoldAt, d, 1) : d \in {c}}), code, <<1, 2, 3, 4>>)
GpFold(code) == FoldLeft(LAMBDA c, round : Only({Sweep(GpFoldAt, d, 1) : d \in {c}}), code, <<1, 2, 3, 4>>)

\* The one consumer of a promoted slot reads the register its value came
\* from, and the store goes. before is the code with its slots.
RefersTo(i, r) == (IsReg(i.a) /\ i.a.r = r) \/ (IsReg(i.b) /\ i.b.r = r) \/ (i.op = "Lea2" /\ i.x = r)
ForwardAt(before, code, d) ==
  LET s == DefSlot(before[d])
      u == Lowest(UsesOf(before, s))
      mov == code[d]
      user == code[u + 1]
      onB == user.op \in {"FpBin", "ArithRR", "Cmov", "CmpRR", "FpCmp"} /\ IsReg(user.b) /\ user.b.r = mov.a.r
      onA == user.op \in {"CmpRR", "FpCmp", "Test"} /\ IsReg(user.a) /\ user.a.r = mov.a.r
      H == mov.a.r
      S == mov.b.r
  IN IF /\ RegMove(mov, "MovFpFp") \/ RegMove(mov, "MovRR")
        /\ H # S
        /\ Cardinality(UsesOf(before, s)) = 1 /\ Cardinality(DefsOf(before, s)) = 1
        /\ u > d /\ u < Len(code) /\ code[u].op = "Nop"
        /\ onA \/ onB
        /\ ~(IsReg(user.a) /\ user.a.r = S)
        /\ ~Straddles(Backedges(before), d, u + 1)
        /\ \A k \in d + 1 .. u - 1 : code[k].op # "Nop" => ~RefersTo(code[k], H) /\ ~RefersTo(code[k], S)
     THEN IF onB THEN [code EXCEPT ![u + 1].b = Reg(S), ![d] = Nop] ELSE [code EXCEPT ![u + 1].a = Reg(S), ![d] = Nop]
     ELSE code
Forwarded(before, code, home) ==
  LET homes == Ascending({d \in DOMAIN before : before[d].op \in Stores /\ before[d].b.n \in DOMAIN home})
  IN FoldLeft(LAMBDA c, d : ForwardAt(before, c, d), code, homes)

\* A chain computes in the register of its result, in place if that is the
\* register it starts from.
Retargeted(i, acc, z) ==
  IF i.op # "Nop" /\ IsReg(i.a) /\ i.a.r = acc THEN [i EXCEPT !.a = Reg(z)]
  ELSE IF i.op \in {"MovFpFp", "MovRR"} /\ IsReg(i.b) /\ i.b.r = acc THEN [i EXCEPT !.b = Reg(z)]
  ELSE i
FuseInto(home, code, f) ==
  LET load == code[f.load]
      z == home[f.z]
      acc == Accumulator(f.fp)
      inReg == RegMove(load, IF f.fp THEN "MovFpFp" ELSE "MovRR") /\ load.a.r = acc
      same == inReg /\ load.b.r = z
      operandOnZ == \E g \in f.gaps : /\ g[1] \in DOMAIN home /\ home[g[1]] = z
                                      /\ ~(same /\ g[2] < f.first)
  IN IF \/ load.op = "Nop" \/ code[f.store].op = "Nop"
        \/ f.z \notin DOMAIN home \/ operandOnZ
        \/ same /\ f.ops /\ ~f.last
     THEN code
     ELSE [i \in DOMAIN code |->
             IF i = f.store THEN Nop
             ELSE IF i = f.load THEN IF same THEN Nop ELSE [load EXCEPT !.a = Reg(z)]
             ELSE IF i \in f.load + 1 .. f.store - 1 THEN Retargeted(code[i], acc, z)
             ELSE code[i]]
ChainsFused(code, fuses, home) ==
  FoldLeft(LAMBDA c, i : FuseInto(home, c, CHOOSE f \in fuses : f.load = i), code, Ascending({f.load : f \in fuses}))

\* A store nothing reads goes.
Read(before, s) == UsesOf(before, s) # {}
DeadStoresGone(before, code) ==
  [i \in DOMAIN code |-> IF DefSlot(code[i]) # 0 /\ ~Read(before, DefSlot(code[i])) THEN Nop ELSE code[i]]

Rewritten(code, home) ==
  LET folded == Only({GpFold(c) : c \in {FpFold(PromoteAll(code, home))}})
      forwarded == Only({Forwarded(code, c, home) : c \in {folded}})
  IN DeadStoresGone(code, Only({ChainsFused(c, Fuses(code), home) : c \in {forwarded}}))

(***************************************************************************)
(* The frame.                                                              *)
(***************************************************************************)
\* finalize: the slots that stay in memory take the first place in the frame
\* whose last slot has ended before they start.
Hull(code, s) ==
  LET at == LabelAt(code)
      next == [i \in DOMAIN code |-> NextOf(code, at, i)]
      used == Occupied(code, next, {}, s) \cup UsesOf(code, s)
  IN [slot |-> s, first |-> Lowest(used), last |-> Highest(used)]
PlaceFor(places, h) ==
  LET free == {k \in DOMAIN places.ends : places.ends[k] < h.first}
      k == IF free = {} THEN Len(places.ends) + 1 ELSE Lowest(free)
  IN [at |-> (h.slot :> k) @@ places.at,
      ends |-> IF free = {} THEN Append(places.ends, h.last) ELSE [places.ends EXCEPT ![k] = h.last]]
Colored(before, after, home) ==
  FoldLeft(LAMBDA places, s : PlaceFor(places, Hull(before, s)), [at |-> <<>>, ends |-> <<>>],
           Ascending(SlotsIn(after) \ DOMAIN home)).at
=============================================================================
