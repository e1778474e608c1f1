--------------------------- MODULE AllocationProofs ---------------------------
(***************************************************************************)
(* For every program that IsProgram describes, every bank of registers and *)
(* every block graph: the block dataflow of the x86-64 target settles on   *)
(* the liveness that the paths define, loops included; the ranges found    *)
(* from it keep interfering slots apart, mark exactly the slots a call     *)
(* clobbers, and honour the core's contract; and so, with the proofs of    *)
(* the core (RallocProofs), the registers chosen for them are safe across  *)
(* calls, and safe to share until coalescing, and after it for slots that  *)
(* are written once.                                                       *)
(*                                                                         *)
(* The argument: the sweeps' sets only grow, hold only what is live, and   *)
(* only what may be read before it is written (FlowInv); a sweep without a *)
(* change leaves a fixpoint; over a fixpoint, the walk marks for every     *)
(* position it has seen exactly what is wanted there (WalkInv); what is    *)
(* wanted at a position is what LiveAfter defines by iteration             *)
(* (LiveIsWanted), and a hull begins at a write because nothing is live    *)
(* into a block where it may be unwritten (FirstIsDef).                    *)
(***************************************************************************)
EXTENDS Allocation, Iteration

\* The proofs about the core, for the problems that are posed to it here.
RP == INSTANCE RallocProofs WITH pc <- rpc, Problems <- {}

-----------------------------------------------------------------------------
(* Liveness as a closure.                                                  *)

\* What LiveAfter(s) is: the least set that holds every position from which
\* control may go to a read of s, or to a position of the set that does not
\* write s.
Live(s, X) == {i \in Positions : NextOf(i) \cap (Uses(s) \cup (X \ Defs(s))) # {}}

\* LiveAfter, an iteration, is the least set closed under going one step back.
LEMMA LiveAfterIsLeast ==
  ASSUME IsFiniteSet(Positions), NEW s
  PROVE  /\ LiveAfter(s) \in SUBSET Positions
         /\ Live(s, LiveAfter(s)) = LiveAfter(s)
         /\ \A X \in SUBSET Positions : Live(s, X) \subseteq X => LiveAfter(s) \subseteq X
<1> DEFINE next == After
           Grown(Y) == {i \in Positions : next[i] \cap (Uses(s) \cup (Y \ Defs(s))) # {}}
           F == [X \in SUBSET Positions |-> Grown(X)]
           L == CHOOSE L : L = [k \in Nat |-> IF k = 0 THEN {} ELSE Grown(L[k - 1])]
<1>1. LiveAfter(s) = L[Cardinality(Positions)]
  BY DEF LiveAfter
<1>2. \A X : Grown(X) = Live(s, X)
  BY DEF After, Live
<1>3. F \in [SUBSET Positions -> SUBSET Positions]
  OBVIOUS
<1>4. \A X, Y \in SUBSET Positions : X \subseteq Y => F[X] \subseteq F[Y]
  OBVIOUS
<1> HIDE DEF F
<1>5. PICK f \in [Nat -> SUBSET Positions] : f[0] = {} /\ \A n \in Nat : f[n + 1] = F[f[n]]
  <2>1. {} \in SUBSET Positions
    OBVIOUS
  <2> DEFINE D == SUBSET Positions
  <2>2. {} \in D /\ F \in [D -> D]
    BY <2>1, <1>3
  <2> HIDE DEF D
  <2>3. \E f \in [Nat -> D] : f[0] = {} /\ \A n \in Nat : f[n + 1] = F[f[n]]
    BY <2>2, Iterates
  <2> QED BY <2>3 DEF D
<1>6. f = [k \in Nat |-> IF k = 0 THEN {} ELSE Grown(f[k - 1])]
  <2>1. ASSUME NEW k \in Nat PROVE f[k] = IF k = 0 THEN {} ELSE Grown(f[k - 1])
    <3>1. CASE k = 0
      BY <3>1, <1>5
    <3>2. CASE k # 0
      <4>1. k - 1 \in Nat /\ (k - 1) + 1 = k
        BY <3>2
      <4>2. f[k] = F[f[k - 1]] /\ f[k - 1] \in SUBSET Positions
        BY <4>1, <1>5
      <4> QED BY <3>2, <4>2 DEF F
    <3> QED BY <3>1, <3>2
  <2> HIDE DEF Grown
  <2> QED BY <2>1
<1> HIDE DEF Grown
<1>7. L = [k \in Nat |-> IF k = 0 THEN {} ELSE Grown(L[k - 1])]
  BY <1>6, Zenon
<1> HIDE DEF L
<1>8. L \in [Nat -> SUBSET Positions] /\ L[0] = {} /\ \A n \in Nat : L[n + 1] = F[L[n]]
  <2>0. \A X : Grown(X) \in SUBSET Positions
    BY DEF Grown
  <2>1. \A k \in Nat : L[k] = IF k = 0 THEN {} ELSE Grown(L[k - 1])
    BY <1>7
  <2>2. \A k \in Nat : L[k] \in SUBSET Positions
    BY <2>0, <2>1
  <2>3. \A n \in Nat : L[n + 1] = Grown(L[n])
    BY <2>1
  <2>4. L = [k \in Nat |-> L[k]]
    BY <1>7
  <2> QED BY <2>1, <2>2, <2>3, <2>4 DEF F
<1>9. /\ F[L[Cardinality(Positions)]] = L[Cardinality(Positions)]
      /\ \A X \in SUBSET Positions : F[X] \subseteq X => L[Cardinality(Positions)] \subseteq X
  BY <1>3, <1>4, <1>8, ClosureReached
<1>10. \A X \in SUBSET Positions : F[X] = Live(s, X)
  BY <1>2 DEF F
<1>11. LiveAfter(s) \in SUBSET Positions
  BY <1>1, <1>8, FS_CardinalityType
<1> QED BY <1>1, <1>9, <1>10, <1>11

-----------------------------------------------------------------------------
(* The layout of a program: blocks in order, each from its label on.       *)

N == Cardinality(Positions)

\* What IsProgram says, in the terms of the specification.
LEMMA ProgramShape ==
  ASSUME prog \in Programs
  PROVE  /\ prog.slots \in SUBSET Nat /\ IsFiniteSet(prog.slots)
         /\ N \in Nat /\ Positions = 0 .. (N - 1) /\ IsFiniteSet(Positions)
         /\ Cardinality(Blocks) \in Nat \ {0} /\ Blocks = 1 .. Cardinality(Blocks)
         /\ IsFiniteSet(Blocks) /\ Entry = Cardinality(Blocks) + 1
         /\ \A i \in Positions : (IsDef(i) \/ IsUse(i)) => Code[i].slot \in prog.slots
         /\ \A i \in Positions : ~(IsDef(i) /\ IsUse(i))
         /\ \A i \in Positions : StartsBlock(i) => ~IsDef(i) /\ ~IsUse(i)
         /\ \A b \in Blocks : \E i \in Positions : StartsBlock(i) /\ Code[i].slot = b
         /\ \A i \in Positions : StartsBlock(i) => Code[i].slot \in Blocks
         /\ \A i, j \in Positions :
              (StartsBlock(i) /\ StartsBlock(j) /\ i < j) => Code[i].slot < Code[j].slot
<1>1. IsProgram(prog)
  BY ProgramsAssumption
<1>2. N \in Nat /\ Cardinality(Blocks) \in Nat
  BY <1>1, FS_CardinalityType DEF IsProgram, N, Positions, Code, Blocks
<1>3. Cardinality(Blocks) # 0
  BY <1>1, FS_EmptySet DEF IsProgram, Blocks
<1>4. LaidOut(prog)
  BY <1>1 DEF IsProgram
<1>5. /\ \A b \in Blocks : \E i \in Positions : StartsBlock(i) /\ Code[i].slot = b
      /\ \A i, j \in Positions :
            (StartsBlock(i) /\ StartsBlock(j) /\ i < j) => Code[i].slot < Code[j].slot
  BY <1>4 DEF LaidOut, Positions, Code, Blocks, StartsBlock
<1>6. \A i \in Positions : /\ (IsDef(i) \/ IsUse(i)) => Code[i].slot \in prog.slots
                           /\ ~(IsDef(i) /\ IsUse(i))
                           /\ StartsBlock(i) => ~IsDef(i) /\ ~IsUse(i) /\ Code[i].slot \in Blocks
  BY <1>1 DEF IsProgram, Positions, Code, IsDef, IsUse, Reading, Writing, StartsBlock, LabelAt,
              Blocks
<1> QED BY <1>1, <1>2, <1>3, <1>5, <1>6
        DEF IsProgram, N, Positions, Code, Blocks, Entry, EntryOf

\* The block of a position is that of the last label up to it.
LEMMA LastLabel ==
  ASSUME prog \in Programs, NEW i \in Positions
  PROVE  \/ BlockAt(i) = Entry /\ \A j \in 0 .. i : ~StartsBlock(j)
         \/ \E h \in 0 .. i : /\ StartsBlock(h) /\ BlockAt(i) = Code[h].slot
                              /\ \A j \in 0 .. i : StartsBlock(j) => j <= h
<1> DEFINE labels == {j \in 0 .. i : LabelAt(prog, j)}
<1>1. i \in Nat
  BY ProgramShape
<1>2. CASE labels = {}
  BY <1>2 DEF BlockAt, BlockOf, StartsBlock, Entry
<1>3. CASE labels # {}
  <2> DEFINE h == CHOOSE j \in labels : \A k \in labels : k <= j
  <2>1. \E j \in labels : \A k \in labels : k <= j
    BY <1>1, <1>3, GreatestExists
  <2>2. h \in labels /\ \A k \in labels : k <= h
    BY <2>1
  <2>3. BlockAt(i) = Code[h].slot
    BY <1>3 DEF BlockAt, BlockOf, Code
  <2> QED BY <2>2, <2>3 DEF StartsBlock
<1> QED BY <1>2, <1>3

Laid == prog \in Programs /\ at = [i \in Positions |-> BlockAt(i)]

\* Every position has a block, and a label begins its own.
LEMMA LaidFacts ==
  ASSUME Laid
  PROVE  /\ \A i \in Positions : at[i] = BlockAt(i) /\ at[i] \in Blocks \cup {Entry} /\ at[i] \in Nat
         /\ \A b : Insts(b) \subseteq Positions
         /\ \A i \in Positions : i \in Nat
         /\ \A i \in Positions : StartsBlock(i) => at[i] = Code[i].slot
         /\ \A i \in Positions : i # 0 => i - 1 \in Positions
<1>1. \A i \in Positions : at[i] = BlockAt(i)
  BY DEF Laid
<1>2. ASSUME NEW i \in Positions PROVE at[i] \in Blocks \cup {Entry} /\ at[i] \in Nat
  <2>1. \A j \in 0 .. i : j \in Positions
    BY ProgramShape DEF Laid
  <2> QED BY <1>1, <2>1, LastLabel, ProgramShape DEF Laid
<1>3. ASSUME NEW i \in Positions, StartsBlock(i) PROVE at[i] = Code[i].slot
  <2>1. i \in 0 .. i /\ i \in Nat
    BY ProgramShape DEF Laid
  <2>2. \A h \in 0 .. i : i <= h => h = i
    BY <2>1
  <2> QED BY <1>1, <1>3, <2>1, <2>2, LastLabel DEF Laid
<1> QED BY <1>1, <1>2, <1>3, ProgramShape DEF Laid, Insts

\* Blocks come in order, the prologue first.
LEMMA BlocksInOrder ==
  ASSUME Laid, NEW i \in Positions, NEW j \in Positions, i <= j
  PROVE  at[i] = Entry \/ (at[j] \in Blocks /\ at[i] <= at[j])
<1> SUFFICES ASSUME at[i] # Entry PROVE at[j] \in Blocks /\ at[i] <= at[j]
  OBVIOUS
<1>0. prog \in Programs /\ i \in Nat /\ j \in Nat /\ 0 .. j \subseteq Positions /\ 0 .. i \subseteq 0 .. j
  BY ProgramShape DEF Laid
<1>1. PICK h \in 0 .. i : /\ StartsBlock(h) /\ at[i] = Code[h].slot
                          /\ \A k \in 0 .. i : StartsBlock(k) => k <= h
  BY <1>0, LastLabel, LaidFacts
<1>2. PICK g \in 0 .. j : /\ StartsBlock(g) /\ at[j] = Code[g].slot
                          /\ \A k \in 0 .. j : StartsBlock(k) => k <= g
  BY <1>0, <1>1, LastLabel, LaidFacts
<1>3. h <= g /\ h \in Positions /\ g \in Positions
  BY <1>0, <1>1, <1>2
<1>4. h = g \/ h < g
  BY <1>3, <1>0
<1>5. Code[h].slot \in Blocks /\ Code[g].slot \in Blocks /\ Code[h].slot \in Nat
  BY <1>0, <1>1, <1>2, <1>3, ProgramShape
<1> QED BY <1>0, <1>1, <1>2, <1>3, <1>4, <1>5, ProgramShape

\* What lies between two positions of a block is in the block.
LEMMA Contiguous ==
  ASSUME Laid, NEW i \in Positions, NEW j \in Positions, at[i] = at[j],
         NEW k \in Positions, i <= k, k <= j
  PROVE  at[k] = at[i]
<1>1. at[i] \in Nat /\ at[j] \in Nat /\ at[k] \in Nat /\ Entry \in Nat /\ Entry \notin Blocks
  BY LaidFacts, ProgramShape DEF Laid
<1>2. at[i] = Entry \/ (at[k] \in Blocks /\ at[i] <= at[k])
  BY BlocksInOrder
<1>3. at[k] = Entry \/ (at[j] \in Blocks /\ at[k] <= at[j])
  BY BlocksInOrder
<1> QED BY <1>1, <1>2, <1>3

\* A position begins a block exactly if its predecessor is in another one.
LEMMA BlockBegins ==
  ASSUME Laid, NEW i \in Positions, i + 1 \in Positions
  PROVE  at[i + 1] = at[i] <=> ~StartsBlock(i + 1)
<1>0. /\ prog \in Programs /\ i \in Nat /\ 0 .. (i + 1) \subseteq Positions
      /\ 0 .. i \subseteq 0 .. (i + 1) /\ i + 1 \in 0 .. (i + 1) /\ 0 .. (i + 1) = (0 .. i) \cup {i + 1}
  BY ProgramShape DEF Laid
<1>1. CASE StartsBlock(i + 1)
  <2>1. at[i + 1] = Code[i + 1].slot /\ at[i + 1] \in Blocks /\ at[i + 1] \in Nat
    BY <1>0, <1>1, LaidFacts, ProgramShape
  <2>2. at[i] = Entry \/ \E h \in 0 .. i : StartsBlock(h) /\ at[i] = Code[h].slot
    BY <1>0, LastLabel, LaidFacts
  <2>3. Entry \notin Blocks
    BY <1>0, ProgramShape
  <2>4. \A h \in 0 .. i : StartsBlock(h) => Code[h].slot < Code[i + 1].slot /\ Code[h].slot \in Nat
    BY <1>0, <1>1, ProgramShape
  <2> QED BY <1>1, <2>1, <2>2, <2>3, <2>4
<1>2. CASE ~StartsBlock(i + 1)
  <2> DEFINE labels(k) == {j \in 0 .. k : LabelAt(prog, j)}
  <2>1. labels(i + 1) = labels(i)
    BY <1>0, <1>2 DEF StartsBlock
  <2>2. \A k : BlockAt(k) = IF labels(k) = {} THEN Entry
                             ELSE Code[CHOOSE j \in labels(k) : \A l \in labels(k) : l <= j].slot
    BY DEF BlockAt, BlockOf, Code, Entry
  <2>3. BlockAt(i + 1) = BlockAt(i)
    <3> HIDE DEF labels
    <3> QED BY <2>1, <2>2
  <2> QED BY <1>2, <2>3, LaidFacts
<1> QED BY <1>1, <1>2

\* The label of a block.
HeadOf(b) == CHOOSE h \in Positions : StartsBlock(h) /\ Code[h].slot = b

\* A block has one label, its first position.
LEMMA HeadFacts ==
  ASSUME Laid, NEW b \in Blocks
  PROVE  /\ HeadOf(b) \in Insts(b) /\ StartsBlock(HeadOf(b)) /\ Code[HeadOf(b)].slot = b
         /\ \A i \in Insts(b) : HeadOf(b) <= i
         /\ \A i \in Positions : (StartsBlock(i) /\ Code[i].slot = b) => i = HeadOf(b)
<1>0. prog \in Programs
  BY DEF Laid
<1>1. \E h \in Positions : StartsBlock(h) /\ Code[h].slot = b
  BY <1>0, ProgramShape
<1>2. HeadOf(b) \in Positions /\ StartsBlock(HeadOf(b)) /\ Code[HeadOf(b)].slot = b
  BY <1>1 DEF HeadOf
<1>3. HeadOf(b) \in Insts(b)
  BY <1>2, LaidFacts DEF Insts
<1>4. ASSUME NEW i \in Insts(b) PROVE HeadOf(b) <= i
  <2> SUFFICES ASSUME ~(HeadOf(b) <= i) PROVE FALSE
    OBVIOUS
  <2>1. i \in Positions /\ at[i] = b /\ i \in Nat /\ HeadOf(b) \in Nat /\ b # Entry /\ 0 .. i \subseteq Positions
    BY <1>0, <1>2, LaidFacts, ProgramShape DEF Insts
  <2>2. PICK h \in 0 .. i : StartsBlock(h) /\ b = Code[h].slot
    BY <1>0, <2>1, LastLabel, LaidFacts
  <2>3. h \in Positions /\ h < HeadOf(b)
    BY <2>1, <2>2
  <2>4. Code[h].slot < Code[HeadOf(b)].slot
    BY <1>0, <1>2, <2>2, <2>3, ProgramShape
  <2> QED BY <1>2, <2>1, <2>2, <2>4, <1>0, ProgramShape
<1>5. ASSUME NEW i \in Positions, StartsBlock(i), Code[i].slot = b PROVE i = HeadOf(b)
  <2>1. i \in Nat /\ HeadOf(b) \in Nat /\ b \in Nat
    BY <1>0, <1>2, ProgramShape
  <2>2. ~(i < HeadOf(b)) /\ ~(HeadOf(b) < i)
    BY <1>0, <1>2, <1>5, <2>1, ProgramShape
  <2> QED BY <2>1, <2>2
<1> QED BY <1>2, <1>3, <1>4, <1>5

\* A block that has a position has a last one.
LEMMA LastOfFacts ==
  ASSUME Laid, NEW b, Insts(b) # {}
  PROVE  LastOf(b) \in Insts(b) /\ \A j \in Insts(b) : j <= LastOf(b)
<1>1. prog \in Programs
  BY DEF Laid
<1>2. CASE N = 0
  BY <1>1, <1>2, ProgramShape, LaidFacts
<1>3. CASE N # 0
  <2>1. Insts(b) \in SUBSET (0 .. (N - 1)) /\ N - 1 \in Nat
    BY <1>1, <1>3, ProgramShape, LaidFacts
  <2>2. \E i \in Insts(b) : \A j \in Insts(b) : j <= i
    BY <2>1, GreatestExists
  <2> QED BY <2>2 DEF LastOf
<1> QED BY <1>2, <1>3

\* Inside a block control falls to the next position ...
LEMMA NextInside ==
  ASSUME Laid, NEW i \in Positions, i # LastOf(at[i])
  PROVE  /\ NextOf(i) = {i + 1} /\ i + 1 \in Positions /\ at[i + 1] = at[i] /\ i < LastOf(at[i])
         /\ ~StartsBlock(i + 1)
<1>1. i \in Insts(at[i])
  BY DEF Insts
<1>2. /\ LastOf(at[i]) \in Insts(at[i]) /\ i <= LastOf(at[i])
      /\ i \in Nat /\ LastOf(at[i]) \in Positions /\ LastOf(at[i]) \in Nat /\ at[LastOf(at[i])] = at[i]
  BY <1>1, LastOfFacts, LaidFacts DEF Insts
<1>3. i + 1 <= LastOf(at[i])
  BY <1>2
<1>4. i + 1 \in Positions
  BY <1>2, <1>3, ProgramShape DEF Laid
<1>5. at[i + 1] = at[i]
  BY <1>2, <1>3, <1>4, Contiguous
<1> QED BY <1>2, <1>3, <1>4, <1>5, BlockBegins DEF NextOf, Insts

\* ... and from its last position to the head of a successor.
LEMMA NextAcross ==
  ASSUME Laid, NEW i \in Positions, i = LastOf(at[i])
  PROVE  /\ NextOf(i) = {HeadOf(c) : c \in Succs(at[i])}
         /\ Succs(at[i]) \subseteq Blocks
<1>1. i \in Insts(at[i]) /\ \A j \in Insts(at[i]) : j <= i
  BY LastOfFacts DEF Insts
<1>2. i + 1 \notin Insts(at[i])
  BY <1>1, LaidFacts
<1>3. NextOf(i) = {j \in Positions : StartsBlock(j) /\ Code[j].slot \in Succs(at[i])}
  BY <1>2 DEF NextOf
<1>4. Succs(at[i]) \subseteq Blocks
  BY ProgramShape DEF Succs, SuccsOf, Blocks, Laid, Entry
<1>5. ASSUME NEW j \in Positions, StartsBlock(j), Code[j].slot \in Succs(at[i])
      PROVE  j = HeadOf(Code[j].slot)
  BY <1>4, <1>5, HeadFacts
<1>6. ASSUME NEW c \in Succs(at[i])
      PROVE  HeadOf(c) \in Positions /\ StartsBlock(HeadOf(c)) /\ Code[HeadOf(c)].slot = c
  BY <1>4, HeadFacts, LaidFacts
<1> QED BY <1>3, <1>4, <1>5, <1>6

-----------------------------------------------------------------------------
(* What the backward walk finds live.                                      *)

\* The slots whose value is wanted where the positions I begin, the last ones
\* of block b: read in I before any write, or wanted after the block.
Wanted(b, I) ==
  {s \in prog.slots :
     \/ \E u \in I \cap Uses(s) : \A d \in I \cap Defs(s) : u < d
     \/ s \in liveOut[b] /\ I \cap Defs(s) = {}}

From(i) == {j \in Insts(at[i]) : i <= j}
Past(i) == {j \in Insts(at[i]) : i < j}
WantedAt(i) == Wanted(at[i], From(i))
WantedAfter(i) == Wanted(at[i], Past(i))

\* One instruction further back (the body of the walk's loop).
LEMMA StepBack ==
  ASSUME prog \in Programs, NEW b, NEW I \in SUBSET Positions, NEW i \in Positions, \A j \in I : i < j
  PROVE  Wanted(b, I \cup {i}) =
           IF IsDef(i) THEN Wanted(b, I) \ {Code[i].slot}
           ELSE IF IsUse(i) THEN Wanted(b, I) \cup {Code[i].slot} ELSE Wanted(b, I)
<1>0. /\ \A j \in Positions : j \in Nat
      /\ (IsDef(i) \/ IsUse(i)) => Code[i].slot \in prog.slots
      /\ ~(IsDef(i) /\ IsUse(i))
  BY ProgramShape
<1>1. \A s : i \in Defs(s) <=> IsDef(i) /\ Code[i].slot = s
  BY DEF Defs
<1>2. \A s : i \in Uses(s) <=> IsUse(i) /\ Code[i].slot = s
  BY DEF Uses
<1>3. ASSUME NEW s \in prog.slots, i \in Defs(s) PROVE s \notin Wanted(b, I \cup {i})
  <2>1. i \in (I \cup {i}) \cap Defs(s) /\ i \notin Uses(s)
    BY <1>0, <1>1, <1>2, <1>3
  <2>2. ASSUME NEW u \in (I \cup {i}) \cap Uses(s) PROVE ~(u < i)
    <3>1. u \in I /\ i < u /\ u \in Nat /\ i \in Nat
      BY <2>1, <1>0
    <3> QED BY <3>1
  <2> QED BY <2>1, <2>2 DEF Wanted
<1>4. ASSUME NEW s \in prog.slots, i \in Uses(s) PROVE s \in Wanted(b, I \cup {i})
  <2>1. i \notin Defs(s)
    BY <1>0, <1>1, <1>2, <1>4
  <2>2. \A d \in (I \cup {i}) \cap Defs(s) : i < d
    BY <2>1
  <2> QED BY <1>4, <2>2 DEF Wanted
<1>5. ASSUME NEW s \in prog.slots, i \notin Uses(s), i \notin Defs(s)
      PROVE  s \in Wanted(b, I \cup {i}) <=> s \in Wanted(b, I)
  <2>1. (I \cup {i}) \cap Defs(s) = I \cap Defs(s) /\ (I \cup {i}) \cap Uses(s) = I \cap Uses(s)
    BY <1>5
  <2> QED BY <2>1 DEF Wanted
<1>6. Wanted(b, I) \subseteq prog.slots /\ Wanted(b, I \cup {i}) \subseteq prog.slots
  BY DEF Wanted
<1>7. CASE IsDef(i)
  <2>1. Code[i].slot \in prog.slots /\ i \in Defs(Code[i].slot) /\ \A s : i \notin Uses(s)
    BY <1>0, <1>1, <1>2, <1>7
  <2>2. Code[i].slot \notin Wanted(b, I \cup {i})
    BY <2>1, <1>3
  <2>3. \A s \in prog.slots \ {Code[i].slot} : s \in Wanted(b, I \cup {i}) <=> s \in Wanted(b, I)
    BY <2>1, <1>1, <1>5
  <2>4. Wanted(b, I \cup {i}) = Wanted(b, I) \ {Code[i].slot}
    BY <2>2, <2>3, <1>6
  <2> QED BY <2>4, <1>7
<1>8. CASE IsUse(i)
  <2>1. Code[i].slot \in prog.slots /\ i \in Uses(Code[i].slot) /\ \A s : i \notin Defs(s)
    BY <1>0, <1>1, <1>2, <1>8
  <2>2. Code[i].slot \in Wanted(b, I \cup {i})
    BY <2>1, <1>4
  <2>3. \A s \in prog.slots \ {Code[i].slot} : s \in Wanted(b, I \cup {i}) <=> s \in Wanted(b, I)
    BY <2>1, <1>2, <1>5
  <2>4. Wanted(b, I \cup {i}) = Wanted(b, I) \cup {Code[i].slot}
    BY <2>1, <2>2, <2>3, <1>6
  <2> QED BY <2>4, <1>0, <1>8
<1>9. CASE ~IsDef(i) /\ ~IsUse(i)
  <2>1. Wanted(b, I \cup {i}) = Wanted(b, I)
    BY <1>1, <1>2, <1>5, <1>6, <1>9
  <2> QED BY <2>1, <1>9
<1> QED BY <1>0, <1>7, <1>8, <1>9

-----------------------------------------------------------------------------
(* The dataflow: sound, exact, and settled when the sweeps end.            *)

Indexed == /\ Laid
           /\ bUse = [b \in 1 .. Entry |-> SlotsAt(Exposed(Insts(b)))]
           /\ bDef = [b \in 1 .. Entry |-> SlotsAt({i \in Insts(b) : IsDef(i)})]

\* bUse holds what a block reads before writing it, bDef what it writes
\* (analyze: the block summaries).
LEMMA SummaryFacts ==
  ASSUME Indexed, NEW b \in 1 .. Entry
  PROVE  /\ \A s : s \in bUse[b] <=> \E u \in Insts(b) \cap Uses(s) : \A d \in Insts(b) \cap Defs(s) : u < d
         /\ \A s : s \in bDef[b] <=> Insts(b) \cap Defs(s) # {}
         /\ bUse[b] \subseteq prog.slots
<1>0. /\ prog \in Programs /\ Insts(b) \subseteq Positions /\ \A i \in Positions : i \in Nat
      /\ \A i \in Positions : (IsDef(i) \/ IsUse(i)) => Code[i].slot \in prog.slots
      /\ \A i \in Positions : ~(IsDef(i) /\ IsUse(i))
  BY ProgramShape, LaidFacts DEF Indexed, Laid
<1>1. bUse[b] = {Code[i].slot : i \in Exposed(Insts(b))}
  BY DEF Indexed, SlotsAt
<1>2. bDef[b] = {Code[i].slot : i \in {i \in Insts(b) : IsDef(i)}}
  BY DEF Indexed, SlotsAt
<1>3. ASSUME NEW s
      PROVE  s \in bUse[b] <=> \E u \in Insts(b) \cap Uses(s) : \A d \in Insts(b) \cap Defs(s) : u < d
  <2>1. ASSUME NEW u \in Insts(b), NEW d \in Insts(b), u \in Uses(s), d \in Defs(s)
        PROVE  u <= d <=> u < d
    BY <2>1, <1>0 DEF Uses, Defs
  <2>2. s \in bUse[b] <=> \E u \in Insts(b) : /\ IsUse(u) /\ Code[u].slot = s
                                              /\ \A d \in Defs(s) \cap Insts(b) : u <= d
    BY <1>1 DEF Exposed
  <2>3. \A u \in Insts(b) : u \in Uses(s) <=> IsUse(u) /\ Code[u].slot = s
    BY <1>0 DEF Uses
  <2> QED BY <2>1, <2>2, <2>3
<1>4. \A s : s \in bDef[b] <=> Insts(b) \cap Defs(s) # {}
  BY <1>0, <1>2 DEF Defs
<1>5. bUse[b] \subseteq prog.slots
  BY <1>0, <1>1 DEF Exposed
<1> QED BY <1>3, <1>4, <1>5

Settled(b) == /\ liveOut[b] = Out(b)
              /\ liveIn[b] = bUse[b] \cup (Out(b) \ bDef[b])

\* In a settled block, live_in is what is wanted at its start.
LEMMA WantedOfBlock ==
  ASSUME Indexed, NEW b \in 1 .. Entry, Settled(b), liveOut[b] \subseteq prog.slots
  PROVE  Wanted(b, Insts(b)) = liveIn[b]
<1>1. \A s : s \in liveIn[b] <=> s \in bUse[b] \/ (s \in liveOut[b] /\ s \notin bDef[b])
  BY DEF Settled
<1>2. \A s \in prog.slots : s \in Wanted(b, Insts(b)) <=> s \in liveIn[b]
  BY <1>1, SummaryFacts DEF Wanted
<1>3. liveIn[b] \subseteq prog.slots
  BY <1>1, SummaryFacts
<1> QED BY <1>2, <1>3 DEF Wanted

\* X holds every position from which control may come to a wanted value of s.
Closed(s, X) == X \in SUBSET Positions /\ Live(s, X) \subseteq X

\* A value wanted at a later position of the block, and not written in
\* between, is wanted.
LEMMA ReachesBack ==
  ASSUME Laid, NEW s, NEW X, Closed(s, X),
         NEW i \in Positions, NEW k \in Positions, at[i] = at[k], i < k,
         \A d \in Defs(s) : ~(i < d /\ d < k),
         k \in Uses(s) \cup (X \ Defs(s))
  PROVE  i \in X
<1> SUFFICES ASSUME i \notin X PROVE FALSE
  OBVIOUS
<1>0. /\ prog \in Programs /\ i \in Nat /\ k \in Nat /\ N \in Nat /\ Positions = 0 .. (N - 1)
  BY ProgramShape DEF Laid
<1> DEFINE T == {j \in i .. (k - 1) : j \notin X}
<1>1. i \in T /\ T \subseteq 0 .. k
  BY <1>0
<1>2. PICK j \in T : \A t \in T : t <= j
  BY <1>0, <1>1, GreatestExists
<1>3. j \in Positions /\ j + 1 \in Positions /\ i <= j /\ j < k /\ j + 1 <= k /\ j \notin X
  BY <1>0, <1>2
<1>4. at[j] = at[i]
  BY <1>0, <1>3, Contiguous
<1>5. k \in Insts(at[j]) /\ k # j
  BY <1>0, <1>3, <1>4 DEF Insts
<1>6. j # LastOf(at[j])
  BY <1>0, <1>3, <1>5, LastOfFacts
<1>7. NextOf(j) = {j + 1}
  BY <1>3, <1>6, NextInside
<1>8. j + 1 \in Uses(s) \cup (X \ Defs(s))
  <2>1. CASE j + 1 = k
    BY <2>1
  <2>2. CASE j + 1 # k
    <3>1. j + 1 \in i .. (k - 1) /\ ~(j + 1 <= j)
      BY <1>0, <1>3, <2>2
    <3>2. j + 1 \in X
      BY <3>1, <1>2
    <3>3. i < j + 1 /\ j + 1 < k
      BY <1>0, <1>3, <2>2
    <3> QED BY <3>2, <3>3
  <2> QED BY <2>1, <2>2
<1>9. j \in Live(s, X)
  BY <1>3, <1>7, <1>8 DEF Live
<1> QED BY <1>3, <1>9 DEF Closed

Growing == \A b \in 1 .. Entry : /\ liveOut[b] \subseteq Out(b)
                                 /\ liveIn[b] \subseteq bUse[b] \cup (Out(b) \ bDef[b])

\* No slot is live into a block where it may not have been written.
Certified == \A s \in prog.slots, W \in SUBSET Blocks :
  Certifies(prog, s, W) => \A b \in 1 .. Entry : s \in liveIn[b] => b \in W

\* What the sweeps call live is live.
Truthful ==
  \A s, X : Closed(s, X) =>
    /\ \A b \in 1 .. Entry : s \in liveOut[b] =>
         \A i \in Insts(b) : (\A j \in Insts(b) : j <= i) => i \in X
    /\ \A b \in Blocks : s \in liveIn[b] =>
         \A i \in Positions : (StartsBlock(i) /\ Code[i].slot = b) => i \in X

FlowInv ==
  /\ prog \in Programs
  /\ pc \in {"index", "flow", "walk", "fuse", "done", "posed"}
  /\ liveIn \in [1 .. Entry -> SUBSET prog.slots]
  /\ liveOut \in [1 .. Entry -> SUBSET prog.slots]
  /\ bi \in 0 .. Entry /\ changed \in BOOLEAN
  /\ pc = "index" => /\ bi = Entry /\ \A b \in 1 .. Entry : liveIn[b] = {} /\ liveOut[b] = {}
  /\ pc # "index" => Indexed
  /\ Growing /\ Certified /\ Truthful
  /\ (pc = "flow" /\ ~changed) => \A b \in 1 .. Entry : b > bi => Settled(b)
  /\ pc \in {"walk", "fuse", "done", "posed"} => \A b \in 1 .. Entry : Settled(b)

\* Control goes to blocks only.
LEMMA SuccsAreBlocks ==
  ASSUME prog \in Programs
  PROVE  /\ \A b : Succs(b) \subseteq Blocks
         /\ Blocks \subseteq 1 .. Entry /\ Entry \in 1 .. Entry
         /\ Blocks \subseteq Nat /\ Entry \in Nat /\ Entry \notin Blocks
         /\ 1 .. Entry = Blocks \cup {Entry}
BY ProgramShape DEF Succs, SuccsOf, Blocks, Entry

\* What is live into some successor.
LEMMA OutFacts ==
  ASSUME prog \in Programs, liveIn \in [1 .. Entry -> SUBSET prog.slots], NEW b
  PROVE  /\ Out(b) \subseteq prog.slots
         /\ \A s : s \in Out(b) <=> \E c \in Succs(b) : s \in liveIn[c]
<1>1. \A s : s \in Out(b) <=> \E c \in Succs(b) : s \in liveIn[c]
  BY DEF Out
<1> QED BY <1>1, SuccsAreBlocks

\* Nothing is called live at first.
LEMMA InitFlow == Init => FlowInv
<1> SUFFICES ASSUME Init PROVE FlowInv
  OBVIOUS
<1>1. prog \in Programs /\ pc = "index" /\ bi = Entry
  BY DEF Init
<1>2. \A b \in 1 .. Entry : liveIn[b] = {} /\ liveOut[b] = {}
  BY DEF Init
<1>3. /\ liveIn \in [1 .. Entry -> SUBSET prog.slots] /\ liveOut \in [1 .. Entry -> SUBSET prog.slots]
      /\ changed = FALSE
  BY DEF Init
<1>4. Growing /\ Certified /\ Truthful
  BY <1>1, <1>2, SuccsAreBlocks DEF Growing, Certified, Truthful
<1>5. bi \in 0 .. Entry
  BY <1>1, SuccsAreBlocks
<1> QED BY <1>1, <1>2, <1>3, <1>4, <1>5 DEF FlowInv

\* What the summaries of a block stand for is unchanged while it is.
FlowVars == <<prog, at, bUse, bDef, liveIn, liveOut>>

\* A step outside the sweeps keeps what they have found.
LEMMA FlowKept ==
  ASSUME FlowInv, UNCHANGED FlowVars,
         pc' \in {"flow", "walk", "fuse", "done", "posed"}, pc # "index",
         bi' \in 0 .. Entry, changed' \in BOOLEAN,
         (pc' = "flow" /\ ~changed') => \A b \in 1 .. Entry : b > bi' => Settled(b),
         pc' # "flow" => \A b \in 1 .. Entry : Settled(b)
  PROVE  FlowInv'
<1>0. Entry' = Entry /\ Blocks' = Blocks /\ Positions' = Positions /\ Code' = Code
  BY DEF FlowVars, Entry, Blocks, Positions, Code
<1>1. /\ \A b : Insts(b)' = Insts(b) /\ Succs(b)' = Succs(b) /\ Out(b)' = Out(b)
      /\ \A s : Defs(s)' = Defs(s) /\ Uses(s)' = Uses(s)
      /\ \A i : /\ StartsBlock(i)' = StartsBlock(i) /\ IsDef(i)' = IsDef(i) /\ IsUse(i)' = IsUse(i)
                /\ BlockAt(i)' = BlockAt(i) /\ NextOf(i)' = NextOf(i)
  BY <1>0 DEF FlowVars, Insts, Succs, Out, Defs, Uses, StartsBlock, IsDef, IsUse, BlockAt, NextOf
<1>2. /\ \A I : Exposed(I)' = Exposed(I) /\ SlotsAt(I)' = SlotsAt(I)
      /\ \A b : Settled(b)' <=> Settled(b)
      /\ \A s, X : Closed(s, X)' <=> Closed(s, X)
  BY <1>0, <1>1 DEF FlowVars, Exposed, SlotsAt, Settled, Closed, Live
<1>3. Growing' /\ Certified' /\ Truthful'
  <2>1. Growing'
    BY <1>0, <1>1 DEF FlowVars, FlowInv, Growing
  <2>2. Certified'
    BY <1>0 DEF FlowVars, FlowInv, Certified
  <2>3. Truthful'
    BY <1>0, <1>1, <1>2 DEF FlowVars, FlowInv, Truthful
  <2> QED BY <2>1, <2>2, <2>3
<1>4. Indexed'
  BY <1>0, <1>1, <1>2 DEF FlowVars, FlowInv, Indexed, Laid
<1> QED BY <1>0, <1>2, <1>3, <1>4 DEF FlowVars, FlowInv

\* Indexing the blocks starts the sweeps.
LEMMA IndexFlow == ASSUME FlowInv, IndexBlocks PROVE FlowInv'
<1>0. Entry' = Entry /\ Blocks' = Blocks /\ Positions' = Positions /\ Code' = Code
  BY DEF IndexBlocks, Entry, Blocks, Positions, Code
<1>1. /\ pc = "index" /\ pc' = "flow" /\ at' = [i \in Positions |-> BlockAt(i)]
      /\ prog' = prog /\ liveIn' = liveIn /\ liveOut' = liveOut /\ bi' = bi /\ changed' = changed
      /\ bUse' = [b \in 1 .. Entry |-> SlotsAt(Exposed({i \in Positions : at'[i] = b}))]
      /\ bDef' = [b \in 1 .. Entry |-> SlotsAt({i \in {j \in Positions : at'[j] = b} : IsDef(i)})]
  BY DEF IndexBlocks
<1>2. /\ \A b : Insts(b)' = {i \in Positions : at'[i] = b}
      /\ \A s : Defs(s)' = Defs(s)
      /\ \A i : IsDef(i)' = IsDef(i) /\ IsUse(i)' = IsUse(i) /\ BlockAt(i)' = BlockAt(i)
      /\ \A I : Exposed(I)' = Exposed(I) /\ SlotsAt(I)' = SlotsAt(I)
  BY <1>0, <1>1 DEF Insts, Defs, IsDef, IsUse, BlockAt, Exposed, SlotsAt
<1>3. Indexed'
  BY <1>0, <1>1, <1>2 DEF Indexed, Laid, FlowInv
<1>4. \A b \in 1 .. Entry : liveIn[b] = {} /\ liveOut[b] = {}
  BY <1>1 DEF FlowInv
<1>5. Growing' /\ Certified' /\ Truthful'
  BY <1>0, <1>1, <1>4, SuccsAreBlocks DEF Growing, Certified, Truthful, FlowInv
<1>6. bi = Entry /\ \A b \in 1 .. Entry : ~(b > bi)
  BY <1>1, SuccsAreBlocks DEF FlowInv
<1> QED BY <1>0, <1>1, <1>3, <1>5, <1>6 DEF FlowInv

\* A visit keeps the sets growing, truthful and certified; a visit that changes no
\* set leaves its block, and those it has passed, settled.
LEMMA VisitFlow == ASSUME FlowInv, VisitBlock PROVE FlowInv'
<1> DEFINE out == Out(bi)
           in == bUse[bi] \cup (out \ bDef[bi])
<1>0. Entry' = Entry /\ Blocks' = Blocks /\ Positions' = Positions /\ Code' = Code
  BY DEF VisitBlock, Entry, Blocks, Positions, Code
<1>1. /\ pc = "flow" /\ bi > 0 /\ bi' = bi - 1 /\ pc' = pc
      /\ prog' = prog /\ at' = at /\ bUse' = bUse /\ bDef' = bDef
      /\ liveOut' = [liveOut EXCEPT ![bi] = out]
      /\ liveIn' = [liveIn EXCEPT ![bi] = in]
      /\ changed' = (\/ changed
                     \/ Cardinality(out) # Cardinality(liveOut[bi])
                     \/ Cardinality(in) # Cardinality(liveIn[bi]))
  BY DEF VisitBlock
<1>2. /\ prog \in Programs /\ Indexed /\ Laid /\ bi \in 1 .. Entry /\ Entry \in Nat
      /\ IsFiniteSet(prog.slots)
      /\ liveIn \in [1 .. Entry -> SUBSET prog.slots] /\ liveOut \in [1 .. Entry -> SUBSET prog.slots]
      /\ Growing /\ Certified /\ Truthful
  <2>1. prog \in Programs /\ Indexed /\ Laid
    BY <1>1 DEF FlowInv, Indexed
  <2>2. Entry \in Nat /\ bi \in 1 .. Entry
    BY <1>1, <2>1, SuccsAreBlocks DEF FlowInv
  <2>3. IsFiniteSet(prog.slots)
    BY <2>1, ProgramShape
  <2> QED BY <2>1, <2>2, <2>3 DEF FlowInv
<1>3. out \subseteq prog.slots /\ in \subseteq prog.slots
  BY <1>2, OutFacts, SummaryFacts
<1>4. /\ \A b : Insts(b)' = Insts(b) /\ Succs(b)' = Succs(b)
      /\ \A s : Defs(s)' = Defs(s) /\ Uses(s)' = Uses(s)
      /\ \A i : /\ StartsBlock(i)' = StartsBlock(i) /\ IsDef(i)' = IsDef(i) /\ IsUse(i)' = IsUse(i)
                /\ BlockAt(i)' = BlockAt(i) /\ NextOf(i)' = NextOf(i)
  BY <1>0, <1>1 DEF Insts, Succs, Defs, Uses, StartsBlock, IsDef, IsUse, BlockAt, NextOf
<1>5. /\ \A I : Exposed(I)' = Exposed(I) /\ SlotsAt(I)' = SlotsAt(I)
      /\ \A s, X : Closed(s, X)' <=> Closed(s, X)
  BY <1>0, <1>1, <1>4 DEF Exposed, SlotsAt, Closed, Live
<1>6. /\ liveIn' \in [1 .. Entry -> SUBSET prog.slots] /\ liveOut' \in [1 .. Entry -> SUBSET prog.slots]
      /\ liveIn'[bi] = in /\ liveOut'[bi] = out
      /\ \A b \in 1 .. Entry : b # bi => liveIn'[b] = liveIn[b] /\ liveOut'[b] = liveOut[b]
  BY <1>1, <1>2, <1>3
<1>7. liveOut[bi] \subseteq out /\ liveIn[bi] \subseteq in
  BY <1>2 DEF Growing
<1>8. \A b \in 1 .. Entry : liveIn[b] \subseteq liveIn'[b]
  BY <1>6, <1>7
<1>9. \A b : Out(b) \subseteq Out(b)'
  <2>1. \A b : Out(b)' = UNION {liveIn'[s] : s \in Succs(b)}
    BY <1>4 DEF Out
  <2>2. \A b : Out(b) = UNION {liveIn[s] : s \in Succs(b)}
    BY DEF Out
  <2>3. \A b : Succs(b) \subseteq 1 .. Entry
    BY <1>2, SuccsAreBlocks
  <2> QED BY <2>1, <2>2, <2>3, <1>8
<1>10. Growing'
  <2> SUFFICES ASSUME NEW b \in 1 .. Entry
               PROVE  /\ liveOut'[b] \subseteq Out(b)'
                      /\ liveIn'[b] \subseteq bUse[b] \cup (Out(b)' \ bDef[b])
    BY <1>0, <1>1 DEF Growing
  <2>1. CASE b = bi
    BY <2>1, <1>6, <1>9
  <2>2. CASE b # bi
    BY <2>2, <1>2, <1>6, <1>9 DEF Growing
  <2> QED BY <2>1, <2>2
<1>11. Certified'
  <2> SUFFICES ASSUME NEW s \in prog.slots, NEW W \in SUBSET Blocks, Certifies(prog, s, W),
                      NEW b \in 1 .. Entry, s \in liveIn'[b]
               PROVE  b \in W
    BY <1>0, <1>1 DEF Certified
  <2>0. /\ \A u \in Uses(s) : at[u] \in W \/ \E d \in Defs(s) : at[d] = at[u] /\ d < u
        /\ \A h \in W, c \in Blocks \cup {Entry} :
             h \in Succs(c) => c \in W \/ \E d \in Defs(s) : at[d] = c
    <3>1. at = [i \in DOMAIN prog.code |-> BlockOf(prog, i)]
      BY <1>2 DEF Laid, BlockAt, Positions, Code
    <3>2. Uses(s) = {i \in DOMAIN prog.code : prog.code[i].op \in Reading /\ prog.code[i].slot = s}
      BY DEF Uses, IsUse, Positions, Code
    <3>3. Defs(s) = {i \in DOMAIN prog.code : prog.code[i].op \in Writing /\ prog.code[i].slot = s}
      BY DEF Defs, IsDef, Positions, Code
    <3>4. Certifies(prog, s, W) =
            (/\ \A u \in Uses(s) : at[u] \in W \/ \E d \in Defs(s) : at[d] = at[u] /\ d < u
             /\ \A h \in W, c \in BlocksOf(prog) \cup {EntryOf(prog)} :
                  h \in SuccsOf(prog, c) => c \in W \/ \E d \in Defs(s) : at[d] = c)
      BY <3>1, <3>2, <3>3 DEF Certifies
    <3> QED BY <3>4 DEF Blocks, Entry, Succs
  <2>1. CASE b # bi
    BY <2>1, <1>2, <1>6 DEF Certified
  <2>2. CASE b = bi /\ s \in bUse[bi]
    <3>1. PICK u \in Insts(bi) \cap Uses(s) : \A d \in Insts(bi) \cap Defs(s) : u < d
      BY <2>2, <1>2, SummaryFacts
    <3>2. at[u] = bi /\ u \in Nat /\ \A d \in Defs(s) : d \in Nat /\ d \in Positions
      BY <3>1, <1>2, LaidFacts DEF Insts, Defs
    <3>3. ASSUME NEW d \in Defs(s), at[d] = at[u] PROVE ~(d < u)
      <4>1. d \in Insts(bi)
        BY <3>2, <3>3 DEF Insts
      <4> QED BY <3>1, <3>2, <4>1
    <3> QED BY <2>0, <2>2, <3>1, <3>2, <3>3
  <2>3. CASE b = bi /\ s \in out \ bDef[bi]
    <3>1. PICK c \in Succs(bi) : s \in liveIn[c]
      BY <2>3, <1>2, OutFacts
    <3>2. c \in W
      BY <3>1, <1>2, SuccsAreBlocks DEF Certified
    <3>3. ASSUME NEW d \in Defs(s), at[d] = bi PROVE FALSE
      <4>1. d \in Insts(bi) \cap Defs(s)
        BY <3>3 DEF Insts, Defs
      <4> QED BY <4>1, <2>3, <1>2, SummaryFacts
    <3>4. bi \in Blocks \cup {Entry}
      BY <1>2, SuccsAreBlocks
    <3> QED BY <2>0, <2>3, <3>1, <3>2, <3>3, <3>4
  <2> QED BY <2>1, <2>2, <2>3, <1>6
<1>12. Truthful'
  <2> SUFFICES ASSUME NEW s, NEW X, Closed(s, X)
               PROVE  /\ \A b \in 1 .. Entry : s \in liveOut'[b] =>
                           \A i \in Insts(b) : (\A j \in Insts(b) : j <= i) => i \in X
                      /\ \A b \in Blocks : s \in liveIn'[b] =>
                           \A i \in Positions : (StartsBlock(i) /\ Code[i].slot = b) => i \in X
    BY <1>0, <1>4, <1>5 DEF Truthful
  <2>0. X \in SUBSET Positions /\ Live(s, X) \subseteq X
    BY DEF Closed
  <2>1. ASSUME s \in out, NEW i \in Insts(bi), \A j \in Insts(bi) : j <= i PROVE i \in X
    <3>1. PICK c \in Succs(bi) : s \in liveIn[c]
      BY <2>1, <1>2, OutFacts
    <3>2. i \in Positions /\ at[i] = bi /\ i \in Nat
      BY <1>2, LaidFacts DEF Insts
    <3>3. i = LastOf(at[i])
      <4>1. LastOf(bi) \in Insts(bi) /\ i <= LastOf(bi) /\ LastOf(bi) <= i
        BY <1>2, <2>1, LastOfFacts
      <4>2. LastOf(bi) \in Nat
        BY <4>1, <1>2, LaidFacts
      <4> QED BY <3>2, <4>1, <4>2
    <3>4. c \in Blocks /\ HeadOf(c) \in NextOf(i)
      BY <3>1, <3>2, <3>3, <1>2, NextAcross
    <3>5. HeadOf(c) \in Positions /\ StartsBlock(HeadOf(c)) /\ Code[HeadOf(c)].slot = c
      BY <3>4, <1>2, HeadFacts, LaidFacts
    <3>6. HeadOf(c) \in X
      BY <3>1, <3>4, <3>5, <1>2 DEF Truthful
    <3>7. HeadOf(c) \notin Defs(s)
      BY <3>5, <1>2, ProgramShape DEF Defs
    <3>8. i \in Live(s, X)
      BY <3>2, <3>4, <3>6, <3>7 DEF Live
    <3> QED BY <3>8, <2>0
  <2>2. ASSUME s \in in, bi \in Blocks, NEW i \in Positions, StartsBlock(i), Code[i].slot = bi PROVE i \in X
    <3>1. i = HeadOf(bi) /\ at[i] = bi /\ \A j \in Insts(bi) : i <= j
      BY <2>2, <1>2, HeadFacts DEF Insts
    <3>2. i \in Nat /\ i \notin Uses(s) /\ i \notin Defs(s) /\ i \in Insts(bi)
      BY <2>2, <3>1, <1>2, ProgramShape DEF Uses, Defs, Insts
    <3>3. \A j \in Insts(bi) : j \in Positions /\ j \in Nat /\ at[j] = bi
      BY <1>2, LaidFacts DEF Insts
    <3>4. ASSUME NEW k \in Insts(bi), NEW d \in Defs(s), i < d, d < k PROVE d \in Insts(bi)
      <4>1. d \in Positions /\ d \in Nat /\ k \in Nat /\ i <= d /\ d <= k /\ at[k] = at[i] /\ k \in Positions
        BY <3>1, <3>2, <3>3, <3>4, <1>2, LaidFacts DEF Defs
      <4> QED BY <4>1, <3>1, <1>2, Contiguous DEF Insts
    <3>5. CASE s \in bUse[bi]
      <4>1. PICK u \in Insts(bi) \cap Uses(s) : \A d \in Insts(bi) \cap Defs(s) : u < d
        BY <3>5, <1>2, SummaryFacts
      <4>2. i < u
        BY <4>1, <3>1, <3>2, <3>3
      <4>3. \A d \in Defs(s) : ~(i < d /\ d < u)
        <5> SUFFICES ASSUME NEW d \in Defs(s), i < d, d < u PROVE FALSE
          OBVIOUS
        <5>1. d \in Insts(bi)
          BY <3>4, <4>1
        <5> QED BY <5>1, <4>1, <3>3
      <4> QED BY <4>1, <4>2, <4>3, <3>1, <3>3, <1>2, <2>2, ReachesBack
    <3>6. CASE s \in out \ bDef[bi]
      <4>1. Insts(bi) \cap Defs(s) = {}
        BY <3>6, <1>2, SummaryFacts
      <4>2. LastOf(bi) \in Insts(bi) /\ \A j \in Insts(bi) : j <= LastOf(bi)
        BY <3>2, <1>2, LastOfFacts
      <4>3. LastOf(bi) \in X
        BY <3>6, <4>2, <2>1
      <4>4. CASE i = LastOf(bi)
        BY <4>3, <4>4
      <4>5. CASE i # LastOf(bi)
        <5>0. LastOf(bi) \in Nat /\ i <= LastOf(bi)
          BY <4>2, <3>2, <3>3
        <5>1. i < LastOf(bi)
          BY <5>0, <4>5, <3>2
        <5>2. \A d \in Defs(s) : ~(i < d /\ d < LastOf(bi))
          BY <3>4, <4>1, <4>2
        <5>3. LastOf(bi) \in X \ Defs(s)
          BY <4>1, <4>2, <4>3
        <5> QED BY <5>1, <5>2, <5>3, <4>2, <3>1, <3>3, <1>2, <2>2, ReachesBack
      <4> QED BY <4>4, <4>5
    <3> QED BY <2>2, <3>5, <3>6
  <2>3. ASSUME NEW b \in 1 .. Entry, s \in liveOut'[b], NEW i \in Insts(b), \A j \in Insts(b) : j <= i
        PROVE  i \in X
    <3>1. CASE b = bi
      BY <2>1, <2>3, <3>1, <1>6
    <3>2. CASE b # bi
      BY <2>3, <3>2, <1>2, <1>6 DEF Truthful
    <3> QED BY <3>1, <3>2
  <2>4. ASSUME NEW b \in Blocks, s \in liveIn'[b], NEW i \in Positions, StartsBlock(i), Code[i].slot = b
        PROVE  i \in X
    <3>1. CASE b = bi
      BY <2>2, <2>4, <3>1, <1>6
    <3>2. CASE b # bi
      <4>1. b \in 1 .. Entry
        BY <1>2, SuccsAreBlocks
      <4> QED BY <2>4, <3>2, <4>1, <1>2, <1>6 DEF Truthful
    <3> QED BY <3>1, <3>2
  <2> QED BY <2>3, <2>4
<1>13. ASSUME ~changed', NEW b \in 1 .. Entry, b > bi' PROVE Settled(b)'
  <2>1. /\ ~changed /\ Cardinality(out) = Cardinality(liveOut[bi])
        /\ Cardinality(in) = Cardinality(liveIn[bi])
    BY <1>1, <1>13
  <2>2. IsFiniteSet(out) /\ IsFiniteSet(in)
    BY <1>2, <1>3, FS_Subset
  <2>3. out = liveOut[bi] /\ in = liveIn[bi]
    BY <2>1, <2>2, <1>7, FS_Subset
  <2>4. liveOut' = liveOut /\ liveIn' = liveIn
    BY <2>3, <1>1, <1>2
  <2>5. Settled(b)
    <3>1. CASE b = bi
      BY <3>1, <2>3 DEF Settled
    <3>2. CASE b # bi
      <4>1. b > bi
        BY <3>2, <1>1, <1>2, <1>13
      <4> QED BY <4>1, <2>1, <1>1, <1>13 DEF FlowInv
    <3> QED BY <3>1, <3>2
  <2>6. Out(b)' = Out(b)
    BY <2>4, <1>4 DEF Out
  <2> QED BY <2>4, <2>5, <2>6, <1>1 DEF Settled
<1>14. Indexed'
  BY <1>0, <1>1, <1>2, <1>4, <1>5 DEF Indexed, Laid
<1>15. bi' \in 0 .. Entry /\ changed' \in BOOLEAN
  BY <1>1, <1>2 DEF FlowInv
<1> QED BY <1>0, <1>1, <1>2, <1>6, <1>10, <1>11, <1>12, <1>13, <1>14, <1>15 DEF FlowInv

\* Every step of the analysis keeps the dataflow invariant.
LEMMA FlowStep == ASSUME FlowInv, [Next]_vars PROVE FlowInv'
<1>0. /\ Entry \in 0 .. Entry /\ Entry \in Nat /\ FALSE \in BOOLEAN
      /\ \A b \in 1 .. Entry : ~(b > Entry)
  BY SuccsAreBlocks DEF FlowInv
<1>1. CASE IndexBlocks
  BY <1>1, IndexFlow
<1>2. CASE VisitBlock
  BY <1>2, VisitFlow
<1>3. CASE NextSweep
  <2>1. /\ UNCHANGED FlowVars /\ pc = "flow" /\ bi = 0 /\ bi' = Entry /\ changed' = FALSE
        /\ IF changed THEN pc' = pc ELSE pc' = "walk"
    BY <1>3 DEF NextSweep, FlowVars
  <2>2. ~changed => \A b \in 1 .. Entry : Settled(b)
    BY <2>1, <1>0 DEF FlowInv
  <2>3. pc' \in {"flow", "walk"} /\ (pc' # "flow" => ~changed)
    BY <2>1
  <2>4. \A b \in 1 .. Entry : ~(b > bi')
    BY <2>1, <1>0
  <2> QED BY <2>1, <2>2, <2>3, <2>4, <1>0, FlowKept
<1>4. CASE WalkInst
  <2>1. UNCHANGED FlowVars /\ UNCHANGED <<pc, bi, changed>> /\ pc = "walk"
    BY <1>4 DEF WalkInst, FlowVars
  <2> QED BY <2>1, FlowKept DEF FlowInv
<1>5. CASE WalkNext
  <2>1. UNCHANGED FlowVars /\ UNCHANGED <<pc, changed>> /\ pc = "walk" /\ bi' = bi - 1 /\ bi > 1
    BY <1>5 DEF WalkNext, FlowVars
  <2>2. bi' \in 0 .. Entry
    BY <2>1, <1>0 DEF FlowInv
  <2> QED BY <2>1, <2>2, FlowKept DEF FlowInv
<1>6. CASE Finish
  <2>1. UNCHANGED FlowVars /\ UNCHANGED <<bi, changed>> /\ pc = "walk" /\ pc' = "fuse"
    BY <1>6 DEF Finish, FlowVars
  <2> QED BY <2>1, FlowKept DEF FlowInv
<1>7. CASE FuseNext
  <2>1. UNCHANGED FlowVars /\ UNCHANGED <<pc, bi, changed>> /\ pc = "fuse"
    BY <1>7 DEF FuseNext, FlowVars
  <2> QED BY <2>1, FlowKept DEF FlowInv
<1>8. CASE EndFuses
  <2>1. UNCHANGED FlowVars /\ UNCHANGED <<bi, changed>> /\ pc = "fuse" /\ pc' = "done"
    BY <1>8 DEF EndFuses, FlowVars
  <2> QED BY <2>1, FlowKept DEF FlowInv
<1>9. CASE UNCHANGED vars
  <2>1. UNCHANGED FlowVars /\ UNCHANGED <<pc, bi, changed>>
    BY <1>9 DEF vars, FlowVars
  <2>2. CASE pc = "index"
    <3>1. Entry' = Entry /\ Blocks' = Blocks /\ Positions' = Positions /\ Code' = Code
      BY <2>1 DEF FlowVars, Entry, Blocks, Positions, Code
    <3>2. Growing' /\ Certified' /\ Truthful'
      <4>1. /\ prog \in Programs
            /\ \A b \in 1 .. Entry : liveIn[b] = {} /\ liveOut[b] = {}
        BY <2>2 DEF FlowInv
      <4> QED BY <4>1, <2>1, <3>1, SuccsAreBlocks DEF Growing, Certified, Truthful, FlowVars
    <3> QED BY <2>1, <2>2, <3>1, <3>2 DEF FlowInv, FlowVars
  <2>3. CASE pc # "index"
    BY <2>1, <2>3, FlowKept DEF FlowInv
  <2> QED BY <2>2, <2>3
<1> QED BY <1>1, <1>2, <1>3, <1>4, <1>5, <1>6, <1>7, <1>8, <1>9 DEF Next

-----------------------------------------------------------------------------
(* The walk: after it, the marks of every slot stand for what is wanted.   *)

\* What the walk has found out when it has been at the positions V.
Marked(V) ==
  /\ first \in [prog.slots -> Nat \cup {Never}] /\ last \in [prog.slots -> Nat]
  /\ crosses \subseteq prog.slots
  /\ \A s \in prog.slots, i \in V :
       (s \in WantedAt(i) \/ i \in Defs(s)) => first[s] \in Nat /\ first[s] <= i
  /\ \A s \in prog.slots, i \in V :
       (s \in WantedAfter(i) \/ i \in Defs(s) \cup Uses(s)) => i <= last[s]
  /\ \A s \in prog.slots : first[s] \in Nat =>
       first[s] \in V /\ (s \in WantedAt(first[s]) \/ first[s] \in Defs(s))
  /\ \A s \in prog.slots :
       s \in crosses <=> \E i \in V : Code[i].op = "call" /\ s \in WantedAfter(i)

Visited == {i \in Positions : at[i] > bi \/ (at[i] = bi /\ i \notin left)}

WalkInv ==
  /\ pc \in {"index", "flow"} => Marked({})
  /\ pc = "walk" =>
       /\ bi \in 1 .. Entry
       /\ left \in SUBSET Insts(bi) /\ \A i \in left, j \in Insts(bi) \ left : i < j
       /\ live = Wanted(bi, Insts(bi) \ left)
       /\ Marked(Visited)

\* What is wanted depends on the program and the block sets alone.
LEMMA WantedKept ==
  ASSUME UNCHANGED FlowVars
  PROVE  /\ Entry' = Entry /\ Positions' = Positions /\ Code' = Code
         /\ \A b : Insts(b)' = Insts(b)
         /\ \A s : Defs(s)' = Defs(s) /\ Uses(s)' = Uses(s)
         /\ \A b, I : Wanted(b, I)' = Wanted(b, I)
         /\ \A i : WantedAt(i)' = WantedAt(i) /\ WantedAfter(i)' = WantedAfter(i)
<1>1. /\ Entry' = Entry /\ Positions' = Positions /\ Code' = Code /\ prog' = prog
      /\ at' = at /\ liveOut' = liveOut
  BY DEF FlowVars, Entry, Positions, Code
<1>2. /\ \A b : Insts(b)' = Insts(b)
      /\ \A s : Defs(s)' = Defs(s) /\ Uses(s)' = Uses(s)
  BY <1>1 DEF Insts, Defs, Uses, IsDef, IsUse
<1>3. \A b, I : Wanted(b, I)' = Wanted(b, I)
  BY <1>1, <1>2 DEF Wanted
<1>4. \A i : From(i)' = From(i) /\ Past(i)' = Past(i)
  BY <1>1, <1>2 DEF From, Past
<1> QED BY <1>1, <1>2, <1>3, <1>4 DEF WantedAt, WantedAfter

\* So does what the walk has marked.
LEMMA MarkedKept ==
  ASSUME UNCHANGED FlowVars, UNCHANGED <<first, last, crosses>>, NEW V, Marked(V)
  PROVE  Marked(V)'
<1>1. V' = V
  OBVIOUS
<1> QED BY WantedKept DEF Marked, FlowVars

\* From a position on, and past it.
LEMMA FromPast ==
  ASSUME Laid, NEW i \in Positions
  PROVE  /\ From(i) = Past(i) \cup {i} /\ Past(i) \in SUBSET Positions /\ \A j \in Past(i) : i < j
         /\ WantedAt(i) = IF IsDef(i) THEN WantedAfter(i) \ {Code[i].slot}
                          ELSE IF IsUse(i) THEN WantedAfter(i) \cup {Code[i].slot}
                          ELSE WantedAfter(i)
<1>1. From(i) = Past(i) \cup {i} /\ Past(i) \in SUBSET Positions /\ \A j \in Past(i) : i < j
  BY LaidFacts DEF From, Past, Insts
<1>2. Wanted(at[i], Past(i) \cup {i}) =
        IF IsDef(i) THEN Wanted(at[i], Past(i)) \ {Code[i].slot}
        ELSE IF IsUse(i) THEN Wanted(at[i], Past(i)) \cup {Code[i].slot} ELSE Wanted(at[i], Past(i))
  BY <1>1, StepBack DEF Laid
<1>3. WantedAt(i) = Wanted(at[i], Past(i) \cup {i}) /\ WantedAfter(i) = Wanted(at[i], Past(i))
  BY <1>1 DEF WantedAt, WantedAfter
<1> QED BY <1>1, <1>2, <1>3

\* The walk marks one more position.
LEMMA WalkInstStep ==
  ASSUME FlowInv, WalkInv, WalkInst PROVE WalkInv'
<1>1. PICK i \in left :
        /\ \A j \in left : j <= i
        /\ crosses' = crosses \cup CalledOver(i)
        /\ last' = [s \in prog.slots |-> IF s \in Reached(i) THEN Latest(last[s], i) ELSE last[s]]
        /\ first' = [s \in prog.slots |-> IF s \in Extended(i) THEN Earliest(first[s], i) ELSE first[s]]
        /\ live' = LiveBefore(i)
        /\ left' = left \ {i}
  BY DEF WalkInst
<1>2. pc = "walk" /\ UNCHANGED <<pc, bi>> /\ UNCHANGED FlowVars
  BY DEF WalkInst, FlowVars
<1>3. /\ Laid /\ prog \in Programs /\ bi \in 1 .. Entry
      /\ left \in SUBSET Insts(bi) /\ \A k \in left, j \in Insts(bi) \ left : k < j
      /\ live = Wanted(bi, Insts(bi) \ left)
      /\ Marked(Visited)
  BY <1>2 DEF FlowInv, WalkInv, Indexed
<1>4. /\ i \in Positions /\ at[i] = bi /\ i \in Nat /\ \A j \in Insts(bi) : j \in Positions /\ j \in Nat /\ at[j] = bi
  BY <1>1, <1>3, LaidFacts DEF Insts
<1>5. Past(i) = Insts(bi) \ left
  <2>1. \A j \in Insts(bi) \ left : i < j
    BY <1>1, <1>3
  <2>2. \A j \in left : ~(i < j)
    BY <1>1, <1>3, <1>4
  <2> QED BY <2>1, <2>2, <1>4 DEF Past
<1>6. live = WantedAfter(i)
  BY <1>3, <1>4, <1>5 DEF WantedAfter
<1>7. LiveBefore(i) = WantedAt(i)
  BY <1>3, <1>4, <1>6, FromPast DEF LiveBefore
<1> PICK V : V = Visited \cup {i}
  OBVIOUS
<1>8. Visited' = V
  <2>1. Visited' = {j \in Positions : at[j] > bi \/ (at[j] = bi /\ j \notin left \ {i})}
    BY <1>1, <1>2, WantedKept DEF Visited, FlowVars
  <2> QED BY <2>1, <1>1, <1>4 DEF Visited
<1>9. /\ left' \in SUBSET Insts(bi) /\ \A k \in left', j \in Insts(bi) \ left' : k < j
  <2> SUFFICES ASSUME NEW k \in left', NEW j \in Insts(bi) \ left' PROVE k < j
    BY <1>1, <1>3
  <2>1. k \in left /\ k # i /\ k <= i /\ k \in Nat
    BY <1>1, <1>3, <1>4
  <2>2. CASE j = i
    BY <2>1, <2>2, <1>4
  <2>3. CASE j # i
    BY <2>1, <2>3, <1>1, <1>3
  <2> QED BY <2>2, <2>3
<1>10. live' = Wanted(bi, Insts(bi) \ left')
  <2>1. Insts(bi) \ left' = From(i)
    BY <1>1, <1>3, <1>4, <1>5, FromPast
  <2> QED BY <2>1, <1>1, <1>4, <1>7 DEF WantedAt
<1>11. Marked(V)'
  <2>0. /\ \A s \in prog.slots : i \in Defs(s) <=> IsDef(i) /\ Code[i].slot = s
        /\ \A s \in prog.slots : i \in Uses(s) <=> IsUse(i) /\ Code[i].slot = s
    BY <1>4 DEF Defs, Uses
  <2>1. \A s \in prog.slots : s \in Extended(i) <=> s \in WantedAt(i) \/ i \in Defs(s)
    BY <2>0, <1>7 DEF Extended
  <2>2. \A s \in prog.slots : s \in Reached(i) <=> s \in WantedAfter(i) \/ i \in Defs(s) \cup Uses(s)
    BY <2>0, <1>6 DEF Reached, Touched
  <2>3. \A s \in prog.slots : s \in CalledOver(i) <=> Code[i].op = "call" /\ s \in WantedAfter(i)
    BY <1>6 DEF CalledOver
  <2>4. /\ first \in [prog.slots -> Nat \cup {Never}] /\ last \in [prog.slots -> Nat]
        /\ crosses \subseteq prog.slots /\ Never \notin Nat
    BY <1>3, NeverAssumption DEF Marked
  <2>5. \A s \in prog.slots : /\ first'[s] = IF s \in Extended(i) THEN Earliest(first[s], i) ELSE first[s]
                              /\ last'[s] = IF s \in Reached(i) THEN Latest(last[s], i) ELSE last[s]
    BY <1>1
  <2>6. \A s \in prog.slots : /\ first'[s] \in Nat \cup {Never}
                              /\ s \in Extended(i) => first'[s] \in Nat /\ first'[s] <= i
                              /\ first[s] \in Nat => first'[s] \in Nat /\ first'[s] <= first[s]
                              /\ first'[s] # first[s] => first'[s] = i /\ s \in Extended(i)
    BY <2>4, <2>5, <1>4 DEF Earliest
  <2>7. \A s \in prog.slots : /\ last'[s] \in Nat /\ last[s] <= last'[s]
                              /\ s \in Reached(i) => i <= last'[s]
    BY <2>4, <2>5, <1>4 DEF Latest
  <2>8. /\ first' \in [prog.slots -> Nat \cup {Never}] /\ last' \in [prog.slots -> Nat]
        /\ crosses' \subseteq prog.slots
    <3>1. CalledOver(i) \subseteq prog.slots
      BY <1>6 DEF CalledOver, WantedAfter, Wanted
    <3> QED BY <1>1, <2>4, <2>6, <2>7, <3>1
  <2>9. Visited \subseteq Nat
    BY <1>3, LaidFacts DEF Visited
  <2>10. \A s \in prog.slots, j \in Visited \cup {i} :
          (s \in WantedAt(j) \/ j \in Defs(s)) => first'[s] \in Nat /\ first'[s] <= j
    <3> SUFFICES ASSUME NEW s \in prog.slots, NEW j \in Visited \cup {i}, s \in WantedAt(j) \/ j \in Defs(s)
                 PROVE  first'[s] \in Nat /\ first'[s] <= j
      OBVIOUS
    <3>1. CASE j = i
      BY <3>1, <2>1, <2>6
    <3>2. CASE j \in Visited
      <4>1. first[s] \in Nat /\ first[s] <= j
        BY <3>2, <1>3 DEF Marked
      <4>2. first'[s] \in Nat /\ first'[s] <= first[s] /\ j \in Nat
        BY <4>1, <2>6, <2>9, <3>2
      <4> QED BY <4>1, <4>2
    <3> QED BY <3>1, <3>2
  <2>11. \A s \in prog.slots, j \in Visited \cup {i} :
           (s \in WantedAfter(j) \/ j \in Defs(s) \cup Uses(s)) => j <= last'[s]
    <3> SUFFICES ASSUME NEW s \in prog.slots, NEW j \in Visited \cup {i},
                        s \in WantedAfter(j) \/ j \in Defs(s) \cup Uses(s)
                 PROVE  j <= last'[s]
      OBVIOUS
    <3>1. CASE j = i
      BY <3>1, <2>2, <2>7
    <3>2. CASE j \in Visited
      <4>1. j <= last[s] /\ j \in Nat /\ last[s] \in Nat
        BY <3>2, <1>3, <2>4, <2>9 DEF Marked
      <4>2. last[s] <= last'[s] /\ last'[s] \in Nat
        BY <2>7
      <4> QED BY <4>1, <4>2
    <3> QED BY <3>1, <3>2
  <2>12. \A s \in prog.slots : first'[s] \in Nat =>
           first'[s] \in Visited \cup {i} /\ (s \in WantedAt(first'[s]) \/ first'[s] \in Defs(s))
    <3> SUFFICES ASSUME NEW s \in prog.slots, first'[s] \in Nat
                 PROVE  first'[s] \in Visited \cup {i} /\ (s \in WantedAt(first'[s]) \/ first'[s] \in Defs(s))
      OBVIOUS
    <3>1. CASE first'[s] = first[s]
      BY <3>1, <1>3 DEF Marked
    <3>2. CASE first'[s] # first[s]
      BY <3>2, <2>1, <2>6
    <3> QED BY <3>1, <3>2
  <2>13. \A s \in prog.slots :
           s \in crosses' <=> \E j \in Visited \cup {i} : Code[j].op = "call" /\ s \in WantedAfter(j)
    BY <1>1, <1>3, <2>3 DEF Marked
  <2>14. prog' = prog
    BY <1>2 DEF FlowVars
  <2> QED BY <1>2, <2>8, <2>10, <2>11, <2>12, <2>13, <2>14, WantedKept DEF Marked
<1>12. Marked(Visited)'
  BY <1>8, <1>11 DEF Marked
<1> QED BY <1>2, <1>3, <1>9, <1>10, <1>12, WantedKept DEF WalkInv

\* Before the walk nothing is marked.
LEMMA NothingMarked ==
  ASSUME prog \in Programs, first = [s \in prog.slots |-> Never], last = [s \in prog.slots |-> 0], crosses = {}
  PROVE  Marked({})
<1>1. \A s \in prog.slots : first[s] \notin Nat
  BY NeverAssumption
<1> QED BY <1>1 DEF Marked

\* At the end of a block its live_out is wanted.
LEMMA NothingWanted ==
  ASSUME FlowInv, NEW b \in 1 .. Entry
  PROVE  Wanted(b, {}) = liveOut[b]
<1>1. liveOut[b] \subseteq prog.slots
  BY DEF FlowInv
<1> QED BY <1>1 DEF Wanted

\* Every step of the analysis keeps the walk's invariant.
LEMMA WalkStep ==
  ASSUME FlowInv, WalkInv, [Next]_vars PROVE WalkInv'
<1>0. Entry \in 1 .. Entry /\ Entry \in Nat /\ prog \in Programs
  BY SuccsAreBlocks DEF FlowInv
<1>1. CASE IndexBlocks \/ VisitBlock
  <2>1. /\ pc \in {"index", "flow"} /\ pc' = "flow"
        /\ prog' = prog /\ UNCHANGED <<first, last, crosses>>
    BY <1>1 DEF IndexBlocks, VisitBlock
  <2>2. Marked({})
    BY <2>1 DEF WalkInv
  <2>3. Marked({})'
    BY <2>1, <2>2 DEF Marked
  <2> QED BY <2>1, <2>3 DEF WalkInv
<1>2. CASE NextSweep
  <2>1. /\ pc = "flow" /\ bi = 0 /\ bi' = Entry /\ UNCHANGED FlowVars /\ UNCHANGED <<first, last, crosses>>
        /\ pc' = "flow" \/ (pc' = "walk" /\ ~changed /\ left' = Insts(Entry) /\ live' = liveOut[Entry])
    BY <1>2 DEF NextSweep, FlowVars
  <2>2. Marked({})'
    BY <2>1, MarkedKept DEF WalkInv
  <2>3. CASE pc' = "flow"
    BY <2>2, <2>3 DEF WalkInv
  <2>4. CASE pc' = "walk"
    <3>1. Indexed /\ Laid
      BY <2>1 DEF FlowInv, Indexed
    <3>2. left' = Insts(Entry) /\ live' = Wanted(Entry, {})
      BY <1>0, <2>1, <2>4, NothingWanted
    <3>3. Visited' = {i \in Positions : at[i] > Entry \/ (at[i] = Entry /\ i \notin Insts(Entry))}
      BY <2>1, <3>2, WantedKept DEF Visited, FlowVars
    <3>4. \A i \in Positions : ~(at[i] > Entry) /\ (at[i] = Entry => i \in Insts(Entry))
      <4>1. \A i \in Positions : at[i] \in 1 .. Entry
        BY <1>0, <3>1, LaidFacts, SuccsAreBlocks
      <4> QED BY <1>0, <4>1 DEF Insts
    <3>5. Visited' = {}
      BY <3>3, <3>4
    <3>6. Marked(Visited)'
      BY <2>2, <3>5 DEF Marked
    <3>7. /\ left' \in SUBSET Insts(bi)' /\ live' = Wanted(bi, Insts(bi) \ left)' /\ bi' \in 1 .. Entry'
          /\ \A i \in left', j \in (Insts(bi) \ left)' : i < j
      <4>1. Insts(bi)' = Insts(Entry) /\ Entry' = Entry
        BY <2>1, WantedKept DEF Insts, FlowVars
      <4>2. (Insts(bi) \ left)' = {}
        BY <4>1, <3>2
      <4>3. Wanted(bi, Insts(bi) \ left)' = Wanted(Entry, {})
        <5>1. liveOut' = liveOut /\ prog' = prog /\ bi' = Entry
          BY <2>1 DEF FlowVars
        <5>2. \A s : Defs(s)' = Defs(s) /\ Uses(s)' = Uses(s)
          BY <2>1, WantedKept
        <5> QED BY <4>2, <5>1, <5>2 DEF Wanted
      <4> QED BY <1>0, <2>1, <3>2, <4>1, <4>2, <4>3
    <3> QED BY <2>4, <3>6, <3>7 DEF WalkInv
  <2> QED BY <2>1, <2>3, <2>4
<1>3. CASE WalkInst
  BY <1>3, WalkInstStep
<1>4. CASE WalkNext
  <2>1. /\ pc = "walk" /\ pc' = pc /\ left = {} /\ bi > 1 /\ bi' = bi - 1
        /\ left' = Insts(bi - 1) /\ live' = liveOut[bi - 1]
        /\ UNCHANGED FlowVars /\ UNCHANGED <<first, last, crosses>>
    BY <1>4 DEF WalkNext, FlowVars
  <2>2. bi \in 1 .. Entry /\ bi - 1 \in 1 .. Entry /\ Marked(Visited) /\ Laid
    BY <1>0, <2>1 DEF WalkInv, FlowInv, Indexed
  <2>3. live' = Wanted(bi - 1, {})
    BY <2>1, <2>2, NothingWanted
  <2> PICK V : V = Visited
    OBVIOUS
  <2>4. Visited' = V
    <3>1. Visited' = {i \in Positions : at[i] > bi - 1 \/ (at[i] = bi - 1 /\ i \notin Insts(bi - 1))}
      BY <2>1, WantedKept DEF Visited, FlowVars
    <3>2. \A i \in Positions : at[i] \in Nat /\ (at[i] = bi - 1 => i \in Insts(bi - 1))
      BY <2>2, LaidFacts DEF Insts
    <3>3. Visited = {i \in Positions : at[i] > bi \/ at[i] = bi}
      BY <2>1 DEF Visited
    <3>4. \A i \in Positions : (at[i] > bi \/ at[i] = bi) <=>
            (at[i] > bi - 1 \/ (at[i] = bi - 1 /\ i \notin Insts(bi - 1)))
      BY <3>2, <2>2, <1>0
    <3> QED BY <3>1, <3>3, <3>4
  <2>5. Marked(V)'
    BY <2>1, <2>2, MarkedKept
  <2>6. Marked(Visited)'
    BY <2>4, <2>5 DEF Marked
  <2>7. /\ left' \in SUBSET Insts(bi)' /\ live' = Wanted(bi, Insts(bi) \ left)' /\ bi' \in 1 .. Entry'
        /\ \A i \in left', j \in (Insts(bi) \ left)' : i < j
    <3>1. Insts(bi)' = Insts(bi - 1) /\ Entry' = Entry
      BY <2>1, WantedKept DEF Insts, FlowVars
    <3>2. (Insts(bi) \ left)' = {}
      BY <3>1, <2>1
    <3>3. Wanted(bi, Insts(bi) \ left)' = Wanted(bi - 1, {})
      <4>1. liveOut' = liveOut /\ prog' = prog /\ bi' = bi - 1
        BY <2>1 DEF FlowVars
      <4>2. \A s : Defs(s)' = Defs(s) /\ Uses(s)' = Uses(s)
        BY <2>1, WantedKept
      <4> QED BY <3>2, <4>1, <4>2 DEF Wanted
    <3> QED BY <2>1, <2>2, <2>3, <3>1, <3>2, <3>3
  <2> QED BY <2>1, <2>6, <2>7 DEF WalkInv
<1>5. CASE Finish \/ FuseNext \/ EndFuses
  <2>1. pc' \notin {"index", "flow", "walk"}
    BY <1>5 DEF Finish, FuseNext, EndFuses
  <2> QED BY <2>1 DEF WalkInv
<1>6. CASE UNCHANGED vars
  <2>1. UNCHANGED FlowVars /\ UNCHANGED <<first, last, crosses>> /\ UNCHANGED <<pc, bi, left, live>>
    BY <1>6 DEF vars, FlowVars
  <2> PICK V : V = Visited
    OBVIOUS
  <2>2. Visited' = V /\ Insts(bi)' = Insts(bi) /\ Entry' = Entry
    BY <2>1, WantedKept DEF Visited, FlowVars, Insts
  <2>3. Marked(V) => Marked(V)'
    BY <2>1, MarkedKept
  <2>4. Marked({}) => Marked({})'
    BY <2>1, MarkedKept
  <2>5. Wanted(bi, Insts(bi) \ left)' = Wanted(bi, Insts(bi) \ left)
    <3>1. \A s : Defs(s)' = Defs(s) /\ Uses(s)' = Uses(s)
      BY <2>1, WantedKept
    <3>2. liveOut' = liveOut /\ prog' = prog
      BY <2>1 DEF FlowVars
    <3> QED BY <2>1, <2>2, <3>1, <3>2 DEF Wanted
  <2>6. CASE pc = "walk"
    <3>1. Marked(V)'
      BY <2>3, <2>6 DEF WalkInv
    <3>2. Marked(Visited)'
      BY <2>2, <3>1 DEF Marked
    <3> QED BY <2>1, <2>2, <2>5, <2>6, <3>2 DEF WalkInv
  <2>7. CASE pc # "walk"
    BY <2>1, <2>4, <2>7 DEF WalkInv
  <2> QED BY <2>6, <2>7
<1> QED BY <1>1, <1>2, <1>3, <1>4, <1>5, <1>6 DEF Next

-----------------------------------------------------------------------------
(* The ranges: hulls that begin at a definition.                           *)

\* What a finished walk says of every position, and what fuses keep of it.
HullsHold ==
  /\ first \in [prog.slots -> Nat] /\ last \in [prog.slots -> Nat]
  /\ \A s \in prog.slots : Defs(s) # {} =>
       /\ s \notin early => first[s] \in Defs(s)
       /\ \A i \in Positions : /\ s \in WantedAt(i) => first[s] < i
                               /\ i \in Defs(s) => first[s] <= i
  /\ \A s \in prog.slots, i \in Positions :
       (s \in WantedAfter(i) \/ i \in Defs(s) \cup Uses(s)) => i <= last[s]
  /\ crosses \subseteq prog.slots
  /\ \A s \in prog.slots :
       s \in crosses <=> \E i \in Positions : Code[i].op = "call" /\ s \in WantedAfter(i)

\* A value wanted where a block ends is wanted at or written by its last position.
LEMMA AtTheEnd ==
  ASSUME FlowInv, Indexed, NEW b \in 1 .. Entry, Insts(b) # {}, NEW s \in liveOut[b]
  PROVE  /\ LastOf(b) \in Insts(b) /\ LastOf(b) \in Positions
         /\ s \in WantedAfter(LastOf(b))
         /\ s \in WantedAt(LastOf(b)) \/ LastOf(b) \in Defs(s)
<1>1. Laid /\ LastOf(b) \in Insts(b) /\ \A j \in Insts(b) : j <= LastOf(b)
  BY LastOfFacts DEF Indexed
<1>2. LastOf(b) \in Positions /\ at[LastOf(b)] = b /\ LastOf(b) \in Nat /\ \A j \in Insts(b) : j \in Nat
  BY <1>1, LaidFacts DEF Insts
<1>3. Past(LastOf(b)) = {}
  BY <1>1, <1>2 DEF Past
<1>4. s \in WantedAfter(LastOf(b))
  BY <1>2, <1>3, NothingWanted DEF WantedAfter
<1>5. IsDef(LastOf(b)) /\ Code[LastOf(b)].slot = s => LastOf(b) \in Defs(s)
  BY <1>2 DEF Defs
<1> QED BY <1>1, <1>2, <1>4, <1>5, FromPast

\* A range begins at a definition: nothing is wanted before it is written.
LEMMA FirstIsDef ==
  ASSUME FlowInv, Indexed, \A b \in 1 .. Entry : Settled(b), Marked(Positions),
         NEW s \in prog.slots, Defs(s) # {}
  PROVE  first[s] \in Defs(s)
<1> SUFFICES ASSUME first[s] \notin Defs(s) PROVE FALSE
  OBVIOUS
<1> DEFINE f == first[s]
           b == at[f]
<1>0. prog \in Programs /\ Laid
  BY DEF FlowInv, Indexed
<1>1. f \in Nat /\ f \in Positions /\ s \in WantedAt(f)
  BY DEF Marked, Defs
<1>2. \A i \in Positions : (s \in WantedAt(i) \/ i \in Defs(s)) => i \in Nat /\ f <= i
  BY <1>0, LaidFacts DEF Marked
<1>3. b \in 1 .. Entry /\ f \in Insts(b) /\ \A j \in Insts(b) : j \in Positions /\ j \in Nat /\ at[j] = b
  BY <1>0, <1>1, LaidFacts, SuccsAreBlocks DEF Insts
<1>4. \A j \in Insts(b) : f <= j
  <2> SUFFICES ASSUME NEW j \in Insts(b), j < f PROVE FALSE
    BY <1>1, <1>3
  <2> DEFINE g == f - 1
  <2>1. g \in Positions /\ g \in Nat /\ j <= g /\ g <= f /\ g < f /\ g + 1 = f
    BY <1>0, <1>1, <1>3, LaidFacts
  <2>2. at[g] = b
    BY <2>1, <1>0, <1>1, <1>3, Contiguous
  <2>3. Past(g) = From(f)
    BY <2>1, <2>2, <1>1, <1>3 DEF Past, From
  <2>4. s \in WantedAfter(g)
    BY <2>2, <2>3, <1>1 DEF WantedAfter, WantedAt
  <2>5. IsDef(g) /\ Code[g].slot = s => g \in Defs(s)
    BY <2>1 DEF Defs
  <2>6. s \in WantedAt(g) \/ g \in Defs(s)
    BY <2>1, <2>4, <2>5, <1>0, FromPast
  <2> QED BY <2>1, <2>6, <1>1, <1>2
<1>5. s \in liveIn[b]
  <2>1. From(f) = Insts(b)
    BY <1>3, <1>4 DEF From
  <2>2. s \in Wanted(b, Insts(b))
    BY <2>1, <1>1 DEF WantedAt
  <2>3. Settled(b) /\ liveOut[b] \subseteq prog.slots
    BY <1>3 DEF FlowInv
  <2> QED BY <2>2, <2>3, <1>3, WantedOfBlock
<1>6. PICK W \in SUBSET Blocks : Certifies(prog, s, W)
  BY <1>0, ProgramsAssumption DEF IsProgram, WrittenFirst, Blocks
<1>7. b \in W
  BY <1>3, <1>5, <1>6 DEF FlowInv, Certified
<1>8. b \in Blocks /\ b \in Nat
  BY <1>0, <1>6, <1>7, SuccsAreBlocks
\* No block that is laid out before b leads into it ...
<1>9. ASSUME NEW c \in 1 .. Entry, b \in Succs(c), c = Entry \/ c < b, Insts(c) # {} PROVE FALSE
  <2>1. s \in liveOut[c]
    <3>1. s \in Out(c)
      BY <1>0, <1>5, <1>9, OutFacts DEF FlowInv
    <3> QED BY <3>1 DEF Settled
  <2>2. /\ LastOf(c) \in Positions /\ at[LastOf(c)] = c
        /\ s \in WantedAt(LastOf(c)) \/ LastOf(c) \in Defs(s)
    BY <2>1, <1>9, AtTheEnd DEF Insts
  <2>3. f <= LastOf(c)
    BY <2>2, <1>2
  <2>4. b = Entry \/ (c \in Blocks /\ b <= c)
    BY <2>2, <2>3, <1>0, <1>1, BlocksInOrder
  <2>5. Entry \notin Blocks /\ c \in Nat
    BY <1>0, <1>9, SuccsAreBlocks
  <2> QED BY <2>4, <2>5, <1>8, <1>9
\* ... but there is one.
<1>10. CASE b # 1
  <2>1. PICK c \in Blocks : c < b /\ b \in Succs(c)
    <3>1. Numbered(prog)
      BY <1>0, ProgramsAssumption DEF IsProgram
    <3> QED BY <3>1, <1>8, <1>10 DEF Numbered, Blocks, Succs
  <2>2. Insts(c) # {} /\ c \in 1 .. Entry
    BY <2>1, <1>0, HeadFacts, SuccsAreBlocks
  <2> QED BY <2>1, <2>2, <1>9
<1>11. CASE b = 1
  <2>1. b \in Succs(Entry) /\ Entry \in 1 .. Entry
    BY <1>0, <1>11, SuccsAreBlocks DEF Succs, SuccsOf, Entry
  <2>2. Insts(Entry) = {}
    BY <2>1, <1>9
  <2>3. \E d \in Positions : at[d] = Entry
    <3>1. Entry \notin W
      BY <1>0, <1>6, SuccsAreBlocks
    <3>2. at = [i \in DOMAIN prog.code |-> BlockOf(prog, i)]
      BY <1>0 DEF Laid, BlockAt, Positions, Code
    <3>3. Entry \in W \/ \E d \in DOMAIN prog.code : at[d] = Entry
      BY <1>6, <1>7, <2>1, <3>2 DEF Certifies, Entry, Succs
    <3> QED BY <3>1, <3>3 DEF Positions, Code
  <2> QED BY <2>2, <2>3 DEF Insts
<1> QED BY <1>10, <1>11

\* A finished walk has found every hull and every call crossing.
LEMMA HullsFound ==
  ASSUME FlowInv, WalkInv, Finish PROVE HullsHold'
<1>1. /\ pc = "walk" /\ left = {} /\ bi = 1 /\ UNCHANGED FlowVars /\ UNCHANGED <<last, crosses, early>>
      /\ first' = [s \in prog.slots |-> IF first[s] = Never THEN last[s] ELSE first[s]]
  BY DEF Finish, FlowVars
<1>2. /\ Indexed /\ Laid /\ (\A b \in 1 .. Entry : Settled(b)) /\ Marked(Visited) /\ prog \in Programs
  BY <1>1 DEF FlowInv, WalkInv, Indexed
<1>3. Visited = Positions
  <2>1. \A i \in Positions : at[i] \in 1 .. Entry
    BY <1>2, LaidFacts, SuccsAreBlocks
  <2>2. \A i \in Positions : at[i] > 1 \/ at[i] = 1
    BY <2>1, <1>2, SuccsAreBlocks
  <2> QED BY <1>1, <2>2 DEF Visited
<1>4. Marked(Positions)
  BY <1>2, <1>3
<1>5. first \in [prog.slots -> Nat \cup {Never}] /\ last \in [prog.slots -> Nat] /\ crosses \subseteq prog.slots
  BY <1>4 DEF Marked
<1>6. first' \in [prog.slots -> Nat] /\ \A s \in prog.slots : first[s] \in Nat => first'[s] = first[s]
  BY <1>1, <1>5, NeverAssumption
<1>7. ASSUME NEW s \in prog.slots, Defs(s) # {}
      PROVE  /\ first'[s] \in Defs(s)
             /\ \A i \in Positions : /\ s \in WantedAt(i) => first'[s] < i
                                     /\ i \in Defs(s) => first'[s] <= i
  <2>1. first[s] \in Defs(s)
    BY <1>2, <1>4, <1>7, FirstIsDef
  <2>2. first[s] \in Nat /\ first[s] \in Positions /\ first'[s] = first[s]
    BY <2>1, <1>2, <1>6, LaidFacts DEF Defs
  <2>3. s \notin WantedAt(first[s])
    BY <2>1, <2>2, <1>2, FromPast DEF Defs
  <2>4. \A i \in Positions : (s \in WantedAt(i) \/ i \in Defs(s)) => first[s] <= i /\ i \in Nat
    BY <1>2, <1>4, LaidFacts DEF Marked
  <2>5. \A i \in Positions : s \in WantedAt(i) => first[s] < i
    BY <2>2, <2>3, <2>4
  <2> QED BY <2>1, <2>2, <2>4, <2>5
<1>8. prog' = prog
  BY <1>1 DEF FlowVars
<1>9. /\ \A s \in prog.slots, i \in Positions :
           (s \in WantedAfter(i) \/ i \in Defs(s) \cup Uses(s)) => i <= last[s]
      /\ \A s \in prog.slots :
           s \in crosses <=> \E i \in Positions : Code[i].op = "call" /\ s \in WantedAfter(i)
  BY <1>4 DEF Marked
<1> QED BY <1>1, <1>5, <1>6, <1>7, <1>8, <1>9, WantedKept DEF HullsHold

RangeInv ==
  /\ hints \in Seq(Nat \X Nat)
  /\ pc \in {"fuse", "done", "posed"} => HullsHold /\ depth \in [Blocks -> Nat]
  /\ pc = "fuse" => left \subseteq {i \in Positions : Code[i].op = "use"}
  /\ pc \in {"done", "posed"} => gens = [s \in prog.slots |-> GensOfSlot(s, first[s])]

\* The last store of an accumulator chain is a store, of the chain's result.
LEMMA StoreFacts ==
  ASSUME prog \in Programs, NEW i \in Positions, StoresIn(i) # {}
  PROVE  /\ LastStore(i) \in StoresIn(i) /\ LastStore(i) \in Positions
         /\ Target(i) \in prog.slots /\ i < LastStore(i)
<1>1. StoresIn(i) \subseteq Positions /\ \A t \in StoresIn(i) : i < t /\ Code[t].op = "def"
  BY DEF StoresIn, Run
<1>2. N \in Nat /\ Positions = 0 .. (N - 1)
  BY ProgramShape
<1>3. N - 1 \in Nat
  BY <1>2
<1>4. \E t \in StoresIn(i) : \A k \in StoresIn(i) : k <= t
  BY <1>1, <1>2, <1>3, GreatestExists
<1>5. LastStore(i) \in StoresIn(i)
  BY <1>4 DEF LastStore
<1>6. IsDef(LastStore(i))
  BY <1>1, <1>5 DEF IsDef, Writing
<1> QED BY <1>1, <1>5, <1>6, ProgramShape DEF Target

\* A fuse moves a hull's start back only, and hints pairs of slots.
LEMMA FuseStep ==
  ASSUME FlowInv, RangeInv, FuseNext PROVE RangeInv'
<1>1. PICK i \in left :
        LET z == Target(i)
            a == Code[i].slot
            distinct == Fusible(i) /\ z # a
            extends == distinct /\ first[z] > i
        IN /\ left' = left \ {i}
           /\ hints' = IF distinct /\ Hinted(i) THEN Append(hints, <<z, a>>) ELSE hints
           /\ first' = IF extends THEN [first EXCEPT ![z] = i] ELSE first
           /\ early' = IF extends THEN early \cup {z} ELSE early
  BY DEF FuseNext
<1>2. /\ pc = "fuse" /\ pc' = pc /\ UNCHANGED FlowVars /\ UNCHANGED <<last, crosses, depth>>
  BY DEF FuseNext, FlowVars
<1>3. /\ prog \in Programs /\ HullsHold /\ depth \in [Blocks -> Nat]
      /\ left \subseteq {j \in Positions : Code[j].op = "use"} /\ hints \in Seq(Nat \X Nat)
  BY <1>2 DEF FlowInv, RangeInv
<1>4. i \in Positions /\ i \in Nat /\ Code[i].slot \in prog.slots
  <2>1. IsUse(i)
    BY <1>3 DEF IsUse, Reading
  <2> QED BY <2>1, <1>3, ProgramShape
<1>5. Fusible(i) => Target(i) \in prog.slots
  BY <1>3, <1>4, StoreFacts DEF Fusible
<1>6. prog.slots \in SUBSET Nat
  BY <1>3, ProgramShape
<1>7. hints' \in Seq(Nat \X Nat)
  <2>1. CASE Fusible(i)
    <3>1. <<Target(i), Code[i].slot>> \in Nat \X Nat
      BY <2>1, <1>4, <1>5, <1>6
    <3>2. Append(hints, <<Target(i), Code[i].slot>>) \in Seq(Nat \X Nat)
      BY <3>1, <1>3
    <3> QED BY <3>2, <1>1, <1>3
  <2>2. CASE ~Fusible(i)
    BY <2>2, <1>1, <1>3
  <2> QED BY <2>1, <2>2
<1>8. /\ first' \in [prog.slots -> Nat]
      /\ \A s \in prog.slots : first'[s] <= first[s] /\ (s \notin early' => s \notin early /\ first'[s] = first[s])
  <2>0. first \in [prog.slots -> Nat]
    BY <1>3 DEF HullsHold
  <2>1. CASE Fusible(i) /\ Target(i) # Code[i].slot /\ first[Target(i)] > i
    <3>1. first' = [first EXCEPT ![Target(i)] = i] /\ early' = early \cup {Target(i)}
      BY <2>1, <1>1
    <3> QED BY <3>1, <2>0, <2>1, <1>4, <1>5
  <2>2. CASE ~(Fusible(i) /\ Target(i) # Code[i].slot /\ first[Target(i)] > i)
    <3>1. first' = first /\ early' = early
      BY <2>2, <1>1
    <3> QED BY <3>1, <2>0
  <2> QED BY <2>1, <2>2
<1>9. prog' = prog /\ Blocks' = Blocks
  BY <1>2 DEF FlowVars, Blocks
<1>10. HullsHold'
  <2>1. \A s \in prog.slots : Defs(s) # {} =>
          /\ s \notin early' => first'[s] \in Defs(s)
          /\ \A j \in Positions : /\ s \in WantedAt(j) => first'[s] < j
                                  /\ j \in Defs(s) => first'[s] <= j
    <3> SUFFICES ASSUME NEW s \in prog.slots, Defs(s) # {}
                 PROVE  /\ s \notin early' => first'[s] \in Defs(s)
                        /\ \A j \in Positions : /\ s \in WantedAt(j) => first'[s] < j
                                                /\ j \in Defs(s) => first'[s] <= j
      OBVIOUS
    <3>1. first[s] \in Nat /\ first'[s] \in Nat /\ first'[s] <= first[s]
      BY <1>3, <1>8 DEF HullsHold
    <3>2. \A j \in Positions : j \in Nat
      BY <1>3, ProgramShape
    <3>3. \A j \in Positions : /\ s \in WantedAt(j) => first[s] < j
                               /\ j \in Defs(s) => first[s] <= j
      BY <1>3 DEF HullsHold
    <3>4. s \notin early' => first'[s] \in Defs(s)
      BY <1>3, <1>8 DEF HullsHold
    <3> QED BY <3>1, <3>2, <3>3, <3>4
  <2>2. /\ last \in [prog.slots -> Nat] /\ crosses \subseteq prog.slots
        /\ \A s \in prog.slots, j \in Positions :
             (s \in WantedAfter(j) \/ j \in Defs(s) \cup Uses(s)) => j <= last[s]
        /\ \A s \in prog.slots :
             s \in crosses <=> \E j \in Positions : Code[j].op = "call" /\ s \in WantedAfter(j)
    BY <1>3 DEF HullsHold
  <2> QED BY <1>2, <1>8, <1>9, <2>1, <2>2, WantedKept DEF HullsHold
<1>11. left' \subseteq {j \in Positions : Code[j].op = "use"}' /\ pc' # "done" /\ pc' # "posed"
  BY <1>1, <1>2, <1>3, WantedKept
<1> QED BY <1>2, <1>3, <1>7, <1>9, <1>10, <1>11 DEF RangeInv

\* The hulls stay as they are found.
LEMMA HullsKept ==
  ASSUME HullsHold, UNCHANGED FlowVars, UNCHANGED <<first, last, crosses, early>>
  PROVE  HullsHold'
<1>1. prog' = prog
  BY DEF FlowVars
<1> QED BY <1>1, WantedKept DEF HullsHold

\* The reads that the definition at d answers for.
ReadsOf(s, d) == {u \in Uses(s) : u > d /\ \A e \in Defs(s) : e > d => u < e}

\* A generation ends at the last read before the next write.
LEMMA GenFromReads ==
  ASSUME NEW s, NEW d
  PROVE  GenFrom(s, d) = [start |-> d, end |-> IF ReadsOf(s, d) = {} THEN d
                            ELSE CHOOSE u \in ReadsOf(s, d) : \A w \in ReadsOf(s, d) : w <= u]
<1> DEFINE later == {e \in Defs(s) : e > d}
           reads == {u \in Uses(s) : u > d /\ \A e \in later : u < e}
<1>1. reads = ReadsOf(s, d)
  BY DEF ReadsOf
<1>2. GenFrom(s, d) = [start |-> d, end |-> IF reads = {} THEN d
                            ELSE CHOOSE u \in reads : \A w \in reads : w <= u]
  BY DEF GenFrom
<1> HIDE DEF reads
<1> QED BY <1>1, <1>2

\* Generations depend on the program and the hull alone.
LEMMA GensKept ==
  ASSUME UNCHANGED FlowVars, UNCHANGED last, NEW s, NEW f
  PROVE  GensOfSlot(s, f)' = GensOfSlot(s, f)
<1>1. Defs(s)' = Defs(s) /\ Uses(s)' = Uses(s)
  BY WantedKept
<1>2. \A d : ReadsOf(s, d)' = ReadsOf(s, d)
  BY <1>1 DEF ReadsOf
<1>3. \A d : GenFrom(s, d) =
              [start |-> d, end |-> IF ReadsOf(s, d) = {} THEN d
                 ELSE CHOOSE u \in ReadsOf(s, d) : \A w \in ReadsOf(s, d) : w <= u]
  BY GenFromReads
<1>4. \A d : GenFrom(s, d)' =
              [start |-> d, end |-> IF ReadsOf(s, d)' = {} THEN d
                 ELSE CHOOSE u \in ReadsOf(s, d)' : \A w \in ReadsOf(s, d)' : w <= u]
  <2> SUFFICES ASSUME NEW d
               PROVE  GenFrom(s, d)' = [start |-> d, end |-> IF ReadsOf(s, d)' = {} THEN d
                        ELSE CHOOSE u \in ReadsOf(s, d)' : \A w \in ReadsOf(s, d)' : w <= u]
    OBVIOUS
  <2> DEFINE reads == {u \in Uses(s)' : u > d /\ \A e \in {e \in Defs(s)' : e > d} : u < e}
  <2>1. reads = ReadsOf(s, d)'
    BY DEF ReadsOf
  <2>2. GenFrom(s, d)' = [start |-> d, end |-> IF reads = {} THEN d
                            ELSE CHOOSE u \in reads : \A w \in reads : w <= u]
    BY DEF GenFrom
  <2> HIDE DEF reads
  <2> QED BY <2>1, <2>2
<1>5. \A d : GenFrom(s, d)' = GenFrom(s, d)
  BY <1>2, <1>3, <1>4
<1> QED BY <1>1, <1>5 DEF GensOfSlot

\* Every step of the analysis keeps the ranges' invariant.
LEMMA RangeStep ==
  ASSUME FlowInv, WalkInv, RangeInv, [Next]_vars PROVE RangeInv'
<1>1. CASE IndexBlocks \/ VisitBlock \/ NextSweep \/ WalkInst \/ WalkNext
  <2>1. hints' = hints /\ pc' \in {"flow", "walk"}
    BY <1>1 DEF IndexBlocks, VisitBlock, NextSweep, WalkInst, WalkNext
  <2> QED BY <2>1 DEF RangeInv
<1>2. CASE Finish
  <2>1. /\ hints' = hints /\ pc' = "fuse" /\ UNCHANGED FlowVars
        /\ left' = {i \in Positions : Code[i].op = "use"}
        /\ depth' = [b \in Blocks |-> Cardinality({e \in BackEdges : b \in NaturalLoop(e[1], e[2])})]
    BY <1>2 DEF Finish, FlowVars
  <2>2. depth' \in [Blocks -> Nat] /\ Blocks' = Blocks
    <3>1. IsFiniteSet(Blocks \X Blocks)
      BY FS_Product, ProgramShape DEF FlowInv
    <3>2. IsFiniteSet(BackEdges)
      BY <3>1, FS_Subset DEF BackEdges
    <3>3. \A b : Cardinality({e \in BackEdges : b \in NaturalLoop(e[1], e[2])}) \in Nat
      BY <3>2, FS_Subset, FS_CardinalityType
    <3> DEFINE Depth(b) == Cardinality({e \in BackEdges : b \in NaturalLoop(e[1], e[2])})
    <3>4. depth' = [b \in Blocks |-> Depth(b)] /\ \A b : Depth(b) \in Nat
      BY <2>1, <3>3
    <3> HIDE DEF Depth
    <3>5. depth' \in [Blocks -> Nat]
      BY <3>4
    <3> QED BY <2>1, <3>5 DEF FlowVars, Blocks
  <2> QED BY <2>1, <2>2, <1>2, HullsFound, WantedKept DEF RangeInv
<1>3. CASE FuseNext
  BY <1>3, FuseStep
<1>4. CASE EndFuses
  <2>1. /\ pc = "fuse" /\ pc' = "done" /\ UNCHANGED FlowVars
        /\ UNCHANGED <<first, last, crosses, early, hints, depth>>
        /\ gens' = [s \in prog.slots |-> GensOfSlot(s, first[s])]
    BY <1>4 DEF EndFuses, FlowVars
  <2>2. prog' = prog /\ Blocks' = Blocks
    BY <2>1 DEF FlowVars, Blocks
  <2>3. \A s, f : GensOfSlot(s, f)' = GensOfSlot(s, f)
    BY <2>1, GensKept
  <2> QED BY <2>1, <2>2, <2>3, HullsKept DEF RangeInv
<1>5. CASE UNCHANGED vars
  <2>1. UNCHANGED FlowVars /\ UNCHANGED <<pc, left, first, last, crosses, early, hints, depth, gens>>
    BY <1>5 DEF vars, FlowVars
  <2>2. prog' = prog /\ Blocks' = Blocks /\ Positions' = Positions /\ Code' = Code
    BY <2>1, WantedKept DEF FlowVars, Blocks
  <2>3. \A s, f : GensOfSlot(s, f)' = GensOfSlot(s, f)
    BY <2>1, GensKept
  <2> QED BY <2>1, <2>2, <2>3, HullsKept DEF RangeInv
<1> QED BY <1>1, <1>2, <1>3, <1>4, <1>5 DEF Next

-----------------------------------------------------------------------------
(* The contract with the allocator core.                                   *)

\* The weight of a use is a number.
LEMMA PowersOfTwo ==
  ASSUME NEW k \in Nat
  PROVE  2 ^ k \in Nat
<1>1. IsFiniteSet(1 .. k) /\ Cardinality(1 .. k) = k
  BY FS_Interval
<1>2. Cardinality(SUBSET (1 .. k)) = 2 ^ k /\ IsFiniteSet(SUBSET (1 .. k))
  BY <1>1, FS_SUBSET
<1> QED BY <1>2, FS_CardinalityType

\* Weights are natural numbers.
LEMMA WeightType ==
  ASSUME prog \in Programs, depth \in [Blocks -> Nat], NEW s
  PROVE  SpillWeight(s) \in Nat
<1> DEFINE sum == UNION {{i} \X (1 .. UseWeight(i)) : i \in Uses(s)}
           part == [i \in Uses(s) |-> {i} \X (1 .. UseWeight(i))]
<1>1. \A i : UseWeight(i) \in Nat
  <2> SUFFICES ASSUME NEW i PROVE UseWeight(i) \in Nat
    OBVIOUS
  <2>1. LoopDepth(i) \in Nat
    BY DEF LoopDepth
  <2> DEFINE k == IF LoopDepth(i) > 6 THEN 6 ELSE LoopDepth(i)
  <2>2. k \in Nat
    BY <2>1
  <2> HIDE DEF k
  <2>3. 2 ^ k \in Nat
    BY <2>2, PowersOfTwo
  <2>4. UseWeight(i) = 10 * 2 ^ k
    BY DEF UseWeight, k
  <2>5. PICK n \in Nat : n = 2 ^ k
    BY <2>3
  <2>6. UseWeight(i) = 10 * n
    BY <2>4, <2>5, Zenon
  <2> QED BY <2>6
<1>2. IsFiniteSet(Uses(s))
  BY ProgramShape, FS_Subset DEF Uses
<1>3. \A i : IsFiniteSet({i} \X (1 .. UseWeight(i)))
  <2> SUFFICES ASSUME NEW i PROVE IsFiniteSet({i} \X (1 .. UseWeight(i)))
    OBVIOUS
  <2>1. IsFiniteSet({i})
    BY FS_Singleton
  <2>2. IsFiniteSet(1 .. UseWeight(i))
    BY <1>1, FS_Interval
  <2> HIDE DEF sum, part
  <2> QED BY <2>1, <2>2, FS_Product
<1>4. part \in Surjection(Uses(s), {part[i] : i \in Uses(s)})
  BY DEF Surjection
<1> HIDE DEF part
<1>5. IsFiniteSet({part[i] : i \in Uses(s)})
  BY <1>2, <1>4, FS_Surjection
<1>6. \A T \in {part[i] : i \in Uses(s)} : IsFiniteSet(T)
  BY <1>3 DEF part
<1>7. IsFiniteSet(UNION {part[i] : i \in Uses(s)})
  BY <1>5, <1>6, FS_UNION
<1>8. sum = UNION {part[i] : i \in Uses(s)}
  BY DEF part
<1>9. Cardinality(sum) \in Nat
  BY <1>7, <1>8, FS_CardinalityType
<1> HIDE DEF sum
<1>10. SumOver(Uses(s)) \in Nat
  BY <1>9 DEF SumOver, sum
<1>11. (IF s \in carried THEN 16 ELSE 1) \in Nat
  OBVIOUS
<1>12. \A a, b \in Nat : a * b \in Nat
  OBVIOUS
<1> QED BY <1>10, <1>11, <1>12, Zenon DEF SpillWeight

\* A promotable slot's hull, and its generations in it.
LEMMA RangeFacts ==
  ASSUME FlowInv, RangeInv, pc \in {"done", "posed"}, NEW s \in prog.slots, Promotable(s)
  PROVE  /\ IsRange(RangeOf(s)) /\ StartsAtDef(s)
         /\ first[s] \in Nat /\ last[s] \in Nat /\ first[s] < last[s]
         /\ \A i \in Positions : /\ s \in WantedAt(i) => first[s] < i
                                 /\ i \in Defs(s) => first[s] <= i
                                 /\ (s \in WantedAfter(i) \/ i \in Defs(s) \cup Uses(s)) => i <= last[s]
<1>0. /\ prog \in Programs /\ HullsHold /\ depth \in [Blocks -> Nat] /\ Laid /\ Defs(s) # {}
      /\ gens = [t \in prog.slots |-> GensOfSlot(t, first[t])]
  BY DEF FlowInv, RangeInv, Indexed, Promotable
<1>1. first[s] \in Nat /\ last[s] \in Nat /\ first[s] < last[s]
  BY <1>0 DEF HullsHold, Promotable
<1>2. \A i \in Positions : /\ s \in WantedAt(i) => first[s] < i
                           /\ i \in Defs(s) => first[s] <= i
                           /\ (s \in WantedAfter(i) \/ i \in Defs(s) \cup Uses(s)) => i <= last[s]
  BY <1>0 DEF HullsHold
<1>3. StartsAtDef(s)
  BY <1>0 DEF StartsAtDef, HullsHold, Defs
<1>4. \A i \in Uses(s) \cup Defs(s) : i \in Positions /\ i \in Nat
  BY <1>0, LaidFacts DEF Uses, Defs
<1>5. ASSUME NEW g \in gens[s]
      PROVE  /\ g.start \in Nat /\ g.end \in Nat /\ first[s] <= g.start
             /\ g.start <= g.end /\ g.end <= last[s]
  <2>0. g \in GensOfSlot(s, first[s])
    BY <1>0, <1>5
  <2>1. CASE Cardinality(Defs(s)) <= 1
    BY <2>0, <2>1, <1>1 DEF GensOfSlot
  <2>2. CASE ~(Cardinality(Defs(s)) <= 1)
    <3>1. PICK d \in Defs(s) : g = GenFrom(s, d)
      BY <2>0, <2>2 DEF GensOfSlot
    <3>2. d \in Nat /\ first[s] <= d /\ d <= last[s]
      BY <1>2, <1>4
    <3> DEFINE m == CHOOSE u \in ReadsOf(s, d) : \A w \in ReadsOf(s, d) : w <= u
               e == IF ReadsOf(s, d) = {} THEN d ELSE m
    <3>3. g.start = d /\ g.end = e
      BY <3>1, GenFromReads
    <3>4. e \in Nat /\ d <= e /\ e <= last[s]
      <4>1. CASE ReadsOf(s, d) = {}
        BY <4>1, <3>2
      <4>2. CASE ReadsOf(s, d) # {}
        <5>1. ReadsOf(s, d) \in SUBSET (0 .. last[s])
          BY <1>2, <1>4 DEF ReadsOf
        <5>2. \E u \in ReadsOf(s, d) : \A w \in ReadsOf(s, d) : w <= u
          BY <5>1, <4>2, <1>1, GreatestExists
        <5>3. m \in ReadsOf(s, d)
          BY <5>2
        <5>4. m \in Nat /\ m > d /\ m <= last[s]
          BY <5>1, <5>3, <1>1, <3>2 DEF ReadsOf
        <5> HIDE DEF m
        <5> QED BY <4>2, <5>4, <3>2
      <4> QED BY <4>1, <4>2
    <3> HIDE DEF e, m
    <3> QED BY <3>2, <3>3, <3>4
  <2> QED BY <2>1, <2>2
<1>6. IsRange(RangeOf(s))
  <2>1. SpillWeight(s) \in Nat /\ StartsAtDef(s) \in BOOLEAN /\ (s \in crosses) \in BOOLEAN
    BY <1>0, WeightType DEF StartsAtDef
  <2> QED BY <2>1, <1>1, <1>5 DEF IsRange, RangeOf
<1> QED BY <1>1, <1>2, <1>3, <1>6

\* The ranges make a problem: the target keeps its side of the contract
\* (ralloc.h), with either preference for callee-saved registers.
LEMMA ContractHolds ==
  ASSUME FlowInv, RangeInv, pc \in {"done", "posed"}, NEW size \in BOOLEAN
  PROVE  IsProblem([Problem EXCEPT !.flip = size]) /\ IsProblem(Problem)
<1>0. prog \in Programs /\ prog.slots \in SUBSET Nat /\ IsFiniteSet(prog.slots) /\ hints \in Seq(Nat \X Nat)
  BY ProgramShape DEF FlowInv, RangeInv
<1> DEFINE D == {t \in prog.slots : Promotable(t)}
           vr == [s \in D |-> RangeOf(s)]
<1>1. D \subseteq Nat /\ IsFiniteSet(D)
  BY <1>0, FS_Subset
<1>2. \A s \in D : /\ IsRange(vr[s]) /\ vr[s].def = TRUE /\ vr[s].cls = 1
  <2>1. ASSUME NEW s \in D PROVE IsRange(vr[s]) /\ vr[s].def = TRUE /\ vr[s].cls = 1
    <3>1. IsRange(RangeOf(s)) /\ StartsAtDef(s)
      BY RangeFacts
    <3>2. RangeOf(s).def = StartsAtDef(s) /\ RangeOf(s).cls = 1
      BY DEF RangeOf
    <3>3. RangeOf(s).def = TRUE
      BY <3>1, <3>2, Zenon
    <3>4. vr[s] = RangeOf(s)
      OBVIOUS
    <3> QED BY <3>1, <3>2, <3>3, <3>4
  <2> QED BY <2>1
<1>3. /\ <<Bank>> \in Seq(Seq([reg : Nat, callee : BOOLEAN]))
      /\ DOMAIN <<Bank>> = {1} /\ <<Bank>>[1] = Bank
  BY BankAssumption
<1> HIDE DEF vr
<1>4. ASSUME NEW flip \in BOOLEAN,
             NEW q, q = [vreg |-> vr, class |-> <<Bank>>, moves |-> hints, flip |-> flip]
      PROVE  IsProblem(q)
  <2>1. q.vreg = vr /\ q.class = <<Bank>> /\ q.moves = hints /\ q.flip = flip
    BY <1>4
  <2>2. DOMAIN vr = D
    BY DEF vr
  <2>3. DistinctRegs(q)
    BY <2>1, <1>3, BankAssumption DEF DistinctRegs
  <2>4. UniformStarts(q)
    BY <2>1, <2>2, <1>2 DEF UniformStarts
  <2>5. EntryAtLabel(q)
    BY <2>1, <2>2, <1>2 DEF EntryAtLabel
  <2>6. \A v \in DOMAIN q.vreg : IsRange(q.vreg[v]) /\ q.vreg[v].cls \in DOMAIN q.class
    BY <2>1, <2>2, <1>2, <1>3
  <2> HIDE DEF D
  <2> QED BY <2>1, <2>2, <2>3, <2>4, <2>5, <2>6, <1>0, <1>1, <1>3 DEF IsProblem
<1>5. Problem = [vreg |-> vr, class |-> <<Bank>>, moves |-> hints, flip |-> FALSE]
  BY DEF Problem, vr
<1>6. [Problem EXCEPT !.flip = size] = [vreg |-> vr, class |-> <<Bank>>, moves |-> hints, flip |-> size]
  BY <1>5
<1> QED BY <1>4, <1>5, <1>6

-----------------------------------------------------------------------------
(* Liveness: what the walk wants is what LiveAfter defines.                *)

\* Every position where the walk wants a slot is one of a live value ...
LEMMA WantedIsLive ==
  ASSUME FlowInv, Indexed, NEW s \in prog.slots, NEW X, Closed(s, X),
         NEW i \in Positions, s \in WantedAfter(i)
  PROVE  i \in X
<1>0. Laid /\ prog \in Programs /\ Truthful /\ i \in Nat
  BY LaidFacts DEF FlowInv, Indexed
<1>1. i \in Insts(at[i]) /\ \A j \in Insts(at[i]) : j \in Positions /\ j \in Nat /\ at[j] = at[i]
  BY <1>0, LaidFacts DEF Insts
<1>2. \A d \in Defs(s) : \A k \in Insts(at[i]) : (i < d /\ d < k) => d \in Past(i)
  <2> SUFFICES ASSUME NEW d \in Defs(s), NEW k \in Insts(at[i]), i < d, d < k PROVE d \in Past(i)
    OBVIOUS
  <2>1. d \in Positions /\ d \in Nat /\ i <= d /\ d <= k
    BY <1>0, <1>1, LaidFacts DEF Defs
  <2>2. at[d] = at[i]
    BY <2>1, <1>0, <1>1, Contiguous
  <2> QED BY <2>1, <2>2 DEF Past, Insts
<1>3. CASE \E u \in Past(i) \cap Uses(s) : \A d \in Past(i) \cap Defs(s) : u < d
  <2>1. PICK u \in Past(i) \cap Uses(s) : \A d \in Past(i) \cap Defs(s) : u < d
    BY <1>3
  <2>2. u \in Insts(at[i]) /\ i < u
    BY <2>1 DEF Past
  <2>3. \A d \in Defs(s) : ~(i < d /\ d < u)
    <3> SUFFICES ASSUME NEW d \in Defs(s), i < d, d < u PROVE FALSE
      OBVIOUS
    <3>1. d \in Past(i) /\ d \in Nat /\ u \in Nat
      BY <1>0, <1>1, <1>2, <2>2, LaidFacts DEF Defs
    <3> QED BY <3>1, <2>1
  <2> QED BY <2>1, <2>2, <2>3, <1>0, <1>1, ReachesBack
<1>4. CASE s \in liveOut[at[i]] /\ Past(i) \cap Defs(s) = {}
  <2> DEFINE l == LastOf(at[i])
  <2>1. l \in Insts(at[i]) /\ \A j \in Insts(at[i]) : j <= l
    BY <1>0, <1>1, LastOfFacts
  <2>2. at[i] \in 1 .. Entry
    BY <1>0, LaidFacts, SuccsAreBlocks
  <2>3. l \in X
    BY <2>1, <2>2, <1>0, <1>4 DEF Truthful
  <2>4. CASE l = i
    BY <2>3, <2>4
  <2>5. CASE l # i
    <3>1. i < l
      BY <2>1, <2>5, <1>0, <1>1
    <3>2. \A d \in Defs(s) : ~(i < d /\ d < l)
      BY <1>2, <1>4, <2>1
    <3>3. l \notin Defs(s)
      BY <3>1, <2>1, <1>4 DEF Past
    <3> QED BY <3>1, <3>2, <3>3, <2>1, <2>3, <1>0, <1>1, ReachesBack
  <2> QED BY <2>4, <2>5
<1> QED BY <1>3, <1>4 DEF WantedAfter, Wanted

\* ... and a live value is wanted where it may go next.
LEMMA LiveGoesOn ==
  ASSUME FlowInv, Indexed, \A b \in 1 .. Entry : Settled(b),
         NEW s \in prog.slots, NEW i \in Positions, NEW j \in NextOf(i), s \in WantedAt(j)
  PROVE  s \in WantedAfter(i)
<1>0. Laid /\ prog \in Programs /\ i \in Nat /\ at[i] \in 1 .. Entry
  BY LaidFacts, SuccsAreBlocks DEF FlowInv, Indexed
<1>1. CASE i # LastOf(at[i])
  <2>1. j = i + 1 /\ j \in Positions /\ at[j] = at[i]
    BY <1>0, <1>1, NextInside
  <2>2. From(j) = Past(i)
    <3>1. \A k \in Insts(at[i]) : k \in Nat /\ (i + 1 <= k <=> i < k)
      <4>1. \A k \in Insts(at[i]) : k \in Nat
        BY <1>0, LaidFacts
      <4> QED BY <4>1, <1>0
    <3>2. \A k \in Insts(at[i]) : j <= k <=> i < k
      BY <2>1, <3>1
    <3> QED BY <2>1, <3>2, Zenon DEF From, Past
  <2> QED BY <2>1, <2>2 DEF WantedAt, WantedAfter
<1>2. CASE i = LastOf(at[i])
  <2>1. PICK c \in Succs(at[i]) : j = HeadOf(c) /\ c \in Blocks
    BY <1>0, <1>2, NextAcross
  <2>2. j \in Insts(c) /\ (\A k \in Insts(c) : j <= k) /\ at[j] = c /\ c \in 1 .. Entry
    BY <1>0, <2>1, HeadFacts, SuccsAreBlocks DEF Insts
  <2>3. From(j) = Insts(c)
    BY <2>2 DEF From
  <2>4. s \in Wanted(c, Insts(c))
    BY <2>2, <2>3 DEF WantedAt
  <2>5. s \in liveIn[c]
    BY <2>2, <2>4, WantedOfBlock DEF FlowInv
  <2>6. s \in Out(at[i])
    BY <2>1, <2>5, <1>0, OutFacts DEF FlowInv
  <2>7. s \in liveOut[at[i]]
    BY <2>6, <1>0 DEF Settled
  <2>8. i \in Insts(at[i])
    BY DEF Insts
  <2>9. \A k \in Insts(at[i]) : k <= i /\ k \in Nat
    BY <1>0, <1>2, <2>8, LastOfFacts, LaidFacts
  <2>10. Past(i) = {}
    BY <2>9, <1>0 DEF Past
  <2> QED BY <2>7, <2>10, <1>0, NothingWanted DEF WantedAfter
<1> QED BY <1>1, <1>2

\* So the walk is exact: liveness by paths is what it wants, position by position.
LEMMA LiveIsWanted ==
  ASSUME FlowInv, Indexed, \A b \in 1 .. Entry : Settled(b), NEW s \in prog.slots, NEW i \in Positions
  PROVE  i \in LiveAfter(s) <=> s \in WantedAfter(i)
<1>0. Laid /\ prog \in Programs /\ IsFiniteSet(Positions)
  BY ProgramShape DEF FlowInv, Indexed
<1> DEFINE X == {k \in Positions : s \in WantedAfter(k)}
<1>1. Live(s, X) \subseteq X
  <2> SUFFICES ASSUME NEW k \in Positions, NEW j \in NextOf(k), j \in Uses(s) \cup (X \ Defs(s))
               PROVE  s \in WantedAfter(k)
    BY DEF Live
  <2>1. j \in Positions
    BY DEF Uses
  <2>2. j \in Uses(s) => IsUse(j) /\ Code[j].slot = s /\ ~IsDef(j)
    BY <1>0, <2>1, ProgramShape DEF Uses
  <2>3. j \in X \ Defs(s) => s \in WantedAfter(j) /\ ~(IsDef(j) /\ Code[j].slot = s)
    BY <2>1 DEF Defs
  <2>4. s \in WantedAt(j)
    BY <1>0, <2>1, <2>2, <2>3, FromPast
  <2> QED BY <2>4, LiveGoesOn
<1>2. LiveAfter(s) \subseteq X
  BY <1>0, <1>1, LiveAfterIsLeast
<1>3. Closed(s, LiveAfter(s))
  BY <1>0, LiveAfterIsLeast DEF Closed
<1> QED BY <1>2, <1>3, WantedIsLive

-----------------------------------------------------------------------------
(* Hulls of interfering slots meet.                                        *)

\* A value wanted after an instruction that does not jump is wanted further on
\* in the stream.
LEMMA WantedFurther ==
  ASSUME FlowInv, Indexed, \A b \in 1 .. Entry : Settled(b),
         NEW t \in prog.slots, NEW i \in Positions, Code[i].op # "jmp", t \in WantedAfter(i)
  PROVE  \E j \in Positions : i < j /\ t \in WantedAt(j)
<1>0. Laid /\ prog \in Programs /\ i \in Nat /\ at[i] \in 1 .. Entry /\ at[i] = BlockAt(i)
  BY LaidFacts, SuccsAreBlocks DEF FlowInv, Indexed
<1>1. CASE i # LastOf(at[i])
  <2>1. i + 1 \in Positions /\ at[i + 1] = at[i]
    BY <1>0, <1>1, NextInside
  <2>2. From(i + 1) = Past(i)
    <3>1. \A k \in Insts(at[i]) : k \in Nat
      BY <1>0, LaidFacts
    <3>2. \A k \in Insts(at[i]) : i + 1 <= k <=> i < k
      BY <3>1, <1>0
    <3> QED BY <2>1, <3>2, Zenon DEF From, Past
  <2>3. t \in WantedAt(i + 1)
    BY <2>1, <2>2 DEF WantedAt, WantedAfter
  <2> QED BY <2>1, <2>3, <1>0
<1>2. CASE i = LastOf(at[i])
  <2>1. i \in Insts(at[i]) /\ \A k \in Insts(at[i]) : k <= i /\ k \in Nat
    BY <1>0, <1>2, LastOfFacts, LaidFacts DEF Insts
  <2>2. Past(i) = {}
    BY <2>1, <1>0 DEF Past
  <2>3. t \in liveOut[at[i]]
    BY <2>2, <1>0, NothingWanted DEF WantedAfter
  <2>4. PICK c \in Succs(at[i]) : t \in liveIn[c]
    BY <2>3, <1>0, OutFacts DEF Settled, FlowInv
  <2>5. c \in Blocks /\ c \in 1 .. Entry
    BY <1>0, <2>4, SuccsAreBlocks
  <2>6. i + 1 \in Positions => StartsBlock(i + 1)
    <3>1. i + 1 \notin Insts(at[i])
      BY <2>1, <1>0
    <3> QED BY <3>1, <1>0, BlockBegins DEF Insts
  <2>7. i + 1 \in Positions /\ Code[i + 1].slot = c
    <3>1. LaidOut(prog)
      BY <1>0, ProgramsAssumption DEF IsProgram
    <3>2. Succs(at[i]) \subseteq {b \in Blocks : i + 1 \in Positions /\ Code[i + 1].slot = b}
      BY <3>1, <2>6, <1>0 DEF LaidOut, Positions, Code, StartsBlock, Succs, BlockAt, Blocks
    <3> QED BY <3>2, <2>4
  <2>8. i + 1 = HeadOf(c)
    BY <2>5, <2>6, <2>7, <1>0, HeadFacts
  <2>9. From(i + 1) = Insts(c) /\ at[i + 1] = c
    BY <2>5, <2>8, <1>0, HeadFacts DEF From, Insts
  <2>10. t \in WantedAt(i + 1)
    BY <2>4, <2>5, <2>9, WantedOfBlock DEF WantedAt, FlowInv
  <2> QED BY <2>7, <2>10, <1>0
<1> QED BY <1>1, <1>2

\* What is wanted at a position is touched there or wanted after it.
LEMMA ReachesOn ==
  ASSUME FlowInv, RangeInv, pc \in {"done", "posed"}, NEW t \in prog.slots, Promotable(t),
         NEW i \in Positions, Code[i].op # "jmp", t \in WantedAfter(i)
  PROVE  i < last[t]
<1>0. Laid /\ Indexed /\ (\A b \in 1 .. Entry : Settled(b)) /\ i \in Nat
  BY LaidFacts DEF FlowInv, Indexed
<1>1. PICK j \in Positions : i < j /\ t \in WantedAt(j)
  BY <1>0, WantedFurther
<1>2. t \in WantedAfter(j) \/ j \in Uses(t)
  BY <1>0, <1>1, FromPast DEF Uses
<1>3. j <= last[t] /\ last[t] \in Nat
  BY <1>2, RangeFacts
<1>4. j \in Nat
  BY <1>0, LaidFacts
<1> QED BY <1>0, <1>1, <1>3, <1>4

\* The hull of a promotable slot begins at a write.
LEMMA HullIsSpan ==
  ASSUME FlowInv, RangeInv, pc \in {"done", "posed"}, NEW u \in prog.slots, Promotable(u)
  PROVE  /\ first[u] \in Nat /\ last[u] \in Nat /\ first[u] < last[u]
         /\ Span(RangeOf(u)) = first[u] .. (last[u] - 1)
<1>1. StartsAtDef(u) /\ first[u] \in Nat /\ last[u] \in Nat /\ first[u] < last[u]
  BY RangeFacts
<1>2. RangeOf(u).first = first[u] /\ RangeOf(u).last = last[u] /\ RangeOf(u).def = StartsAtDef(u)
  BY DEF RangeOf
<1>3. SpanStart(RangeOf(u)) = first[u]
  BY <1>1, <1>2 DEF SpanStart
<1>4. SpanEnd(RangeOf(u)) = last[u]
  BY <1>1, <1>2, <1>3 DEF SpanEnd
<1> QED BY <1>1, <1>3, <1>4 DEF Span

\* Two slots of which one is live where the other is live or written ...
LEMMA SpansMeet ==
  ASSUME FlowInv, RangeInv, pc \in {"done", "posed"},
         NEW s \in prog.slots, NEW t \in prog.slots, Promotable(s), Promotable(t), s # t,
         (LiveAfter(s) \cup Defs(s)) \cap LiveAfter(t) # {}
  PROVE  Span(RangeOf(s)) \cap Span(RangeOf(t)) # {}
<1>0. Laid /\ Indexed /\ (\A b \in 1 .. Entry : Settled(b)) /\ prog \in Programs
  BY DEF FlowInv, Indexed
<1>1. \A u \in {s, t} : /\ first[u] \in Nat /\ last[u] \in Nat /\ first[u] < last[u]
                        /\ \A i \in Positions :
                             /\ u \in WantedAt(i) => first[u] < i
                             /\ i \in Defs(u) => first[u] <= i
                             /\ (u \in WantedAfter(i) \/ i \in Defs(u)) => i <= last[u]
  BY RangeFacts
<1>2. \A u \in {s, t} : Span(RangeOf(u)) = first[u] .. (last[u] - 1)
  BY HullIsSpan
<1>3. PICK i \in LiveAfter(t) : i \in LiveAfter(s) \cup Defs(s)
  OBVIOUS
<1>4. i \in Positions /\ i \in Nat
  BY <1>0, LiveAfterIsLeast, ProgramShape, LaidFacts
<1>5. t \in WantedAfter(i) /\ (i \in Defs(s) \/ s \in WantedAfter(i))
  BY <1>0, <1>3, <1>4, LiveIsWanted
<1>6. i <= last[s] /\ i <= last[t]
  BY <1>1, <1>4, <1>5
<1>7. i - 1 \in Int /\ i \in Int
  BY <1>4
<1>8. \A u \in {s, t} : u \in WantedAfter(i) => i \in Defs(u) \/ first[u] < i
  <2> SUFFICES ASSUME NEW u \in {s, t}, u \in WantedAfter(i), i \notin Defs(u) PROVE first[u] < i
    OBVIOUS
  <2>1. u \in WantedAt(i)
    BY <1>0, <1>4, FromPast DEF Defs
  <2> QED BY <2>1, <1>1, <1>4
<1>9. CASE i \notin Defs(s) /\ i \notin Defs(t)
  <2>1. first[s] < i /\ first[t] < i
    BY <1>5, <1>8, <1>9
  <2>2. i - 1 \in first[s] .. (last[s] - 1) /\ i - 1 \in first[t] .. (last[t] - 1)
    BY <2>1, <1>1, <1>4, <1>6
  <2> QED BY <2>2, <1>2
<1>10. ASSUME NEW u \in {s, t}, NEW v \in {s, t}, u # v, i \in Defs(u), v \in WantedAfter(i)
       PROVE  (first[u] .. (last[u] - 1)) \cap (first[v] .. (last[v] - 1)) # {}
  <2>1. i \notin Defs(v) /\ Code[i].op # "jmp"
    BY <1>10 DEF Defs, IsDef, Writing
  <2>2. first[v] < i /\ first[u] <= i
    BY <2>1, <1>8, <1>10, <1>1, <1>4
  <2>3. i < last[v]
    BY <2>1, <1>10, <1>4, ReachesOn
  <2>4. CASE first[u] < i
    <3>1. i - 1 \in first[u] .. (last[u] - 1) /\ i - 1 \in first[v] .. (last[v] - 1)
      BY <2>2, <2>4, <1>1, <1>4, <1>6
    <3> QED BY <3>1
  <2>5. CASE first[u] = i
    <3>1. i \in first[u] .. (last[u] - 1) /\ i \in first[v] .. (last[v] - 1)
      BY <2>2, <2>3, <2>5, <1>1, <1>4
    <3> QED BY <3>1
  <2>6. first[u] \in Nat
    BY <1>1
  <2> QED BY <2>2, <2>4, <2>5, <2>6, <1>4
<1>11. CASE i \in Defs(s)
  BY <1>2, <1>5, <1>10, <1>11
<1>12. CASE i \in Defs(t) /\ i \notin Defs(s)
  <2>1. s \in WantedAfter(i)
    BY <1>5, <1>12
  <2> QED BY <1>2, <1>10, <1>12, <2>1
<1> QED BY <1>9, <1>11, <1>12

\* ... have hulls that meet.
LEMMA Separate ==
  ASSUME FlowInv, RangeInv, pc = "done" PROVE HullsSeparate
<1>1. Problem.vreg = [s \in {u \in prog.slots : Promotable(u)} |-> RangeOf(s)]
  BY DEF Problem
<1> QED BY <1>1, SpansMeet DEF HullsSeparate

-----------------------------------------------------------------------------
(* The theorems about the ranges.                                          *)

AnalysisInv == FlowInv /\ WalkInv /\ RangeInv

\* analyze() begins with nothing found.
LEMMA InitAnalysis == Init => AnalysisInv
<1> SUFFICES ASSUME Init PROVE AnalysisInv
  OBVIOUS
<1>1. FlowInv
  BY InitFlow
<1>2. /\ pc = "index" /\ hints = << >> /\ prog \in Programs /\ crosses = {}
      /\ first = [s \in prog.slots |-> Never] /\ last = [s \in prog.slots |-> 0]
  BY DEF Init
<1>3. Marked({})
  BY <1>2, NothingMarked
<1> QED BY <1>1, <1>2, <1>3 DEF AnalysisInv, WalkInv, RangeInv

\* The three invariants are inductive together.
LEMMA AnalysisStep == ASSUME AnalysisInv, [Next]_vars PROVE AnalysisInv'
BY FlowStep, WalkStep, RangeStep DEF AnalysisInv

\* Posing the problem changes no range.
LEMMA PoseAnalysis == ASSUME AnalysisInv, Pose PROVE AnalysisInv'
<1>1. /\ pc = "done" /\ pc' = "posed" /\ UNCHANGED FlowVars /\ UNCHANGED <<bi, changed>>
      /\ UNCHANGED <<first, last, crosses, early, gens, depth, hints>>
  BY DEF Pose, FlowVars
<1>2. FlowInv'
  <2>1. (\A b \in 1 .. Entry : Settled(b)) /\ bi' \in 0 .. Entry /\ changed' \in BOOLEAN
    BY <1>1 DEF AnalysisInv, FlowInv
  <2> QED BY <1>1, <2>1, FlowKept DEF AnalysisInv
<1>3. WalkInv'
  BY <1>1 DEF WalkInv
<1>4. RangeInv'
  <2>1. HullsHold' /\ depth' \in [Blocks' -> Nat] /\ hints' \in Seq(Nat \X Nat)
    BY <1>1, HullsKept DEF AnalysisInv, RangeInv, FlowVars, Blocks
  <2>2. gens' = [s \in prog'.slots |-> GensOfSlot(s, first[s])']
    <3>1. gens = [s \in prog.slots |-> GensOfSlot(s, first[s])] /\ prog' = prog
      BY <1>1 DEF AnalysisInv, RangeInv, FlowVars
    <3>2. \A s, f : GensOfSlot(s, f)' = GensOfSlot(s, f)
      BY <1>1, GensKept
    <3>3. \A s : GensOfSlot(s, first[s])' = GensOfSlot(s, first[s])
      <4> SUFFICES ASSUME NEW s PROVE GensOfSlot(s, first[s])' = GensOfSlot(s, first[s])
        OBVIOUS
      <4>1. PICK f : f = first[s]
        OBVIOUS
      <4>2. first[s]' = first[s]
        BY <1>1
      <4> QED BY <4>1, <4>2, <3>2, <1>1 DEF GensOfSlot, GenFrom
    <3> QED BY <3>1, <3>3, <1>1
  <2> QED BY <1>1, <2>1, <2>2 DEF RangeInv
<1> QED BY <1>2, <1>3, <1>4 DEF AnalysisInv

\* Nothing after the analysis changes its results.
LEMMA AllocAnalysis == ASSUME AnalysisInv, [AllocNext]_allVars PROVE AnalysisInv'
<1>1. CASE Analyze
  BY <1>1, AnalysisStep DEF Analyze
<1>2. CASE Pose
  BY <1>2, PoseAnalysis
<1>3. CASE Solve \/ Rewrite \/ Execute \/ Stopped \/ UNCHANGED allVars
  <2>1. UNCHANGED vars
    BY <1>3 DEF Solve, Rewrite, Execute, Load, Compute, Store, StoreConstant, Call, PassOver,
                Goto, Stopped, allVars
  <2> QED BY <2>1, AnalysisStep
<1> QED BY <1>1, <1>2, <1>3 DEF AllocNext

\* At every step of Allocator::run the dataflow is sound, the walk marks what it has
\* seen, and the finished ranges hold every place where their slot is wanted.
THEOREM AnalysisInvariant == AllocSpec => []AnalysisInv
<1>1. AllocInit => AnalysisInv
  BY InitAnalysis DEF AllocInit
<1>2. AnalysisInv /\ [AllocNext]_allVars => AnalysisInv'
  BY AllocAnalysis
<1> QED BY <1>1, <1>2, PTL DEF AllocSpec

\* The ranges handed to the core meet its contract.
THEOREM ContractMet == AllocSpec => []ContractKept
<1>1. AnalysisInv => ContractKept
  <2> SUFFICES ASSUME AnalysisInv, pc = "done" PROVE IsProblem(Problem)
    BY DEF ContractKept
  <2>1. IsProblem([Problem EXCEPT !.flip = FALSE]) /\ IsProblem(Problem)
    BY ContractHolds DEF AnalysisInv
  <2> QED BY <2>1
<1> QED BY <1>1, AnalysisInvariant, PTL

\* The dataflow fixpoint is exact.
THEOREM FixpointExact == AllocSpec => []DataflowExact
<1>1. AnalysisInv => DataflowExact
  <2> SUFFICES ASSUME AnalysisInv, pc = "done", NEW b \in Blocks, NEW s \in prog.slots
               PROVE  s \in liveOut[b] <=> LastOf(b) \in LiveAfter(s)
    BY DEF DataflowExact
  <2>1. /\ FlowInv /\ Indexed /\ Laid /\ prog \in Programs /\ b \in 1 .. Entry
        /\ \A c \in 1 .. Entry : Settled(c)
    BY SuccsAreBlocks DEF AnalysisInv, FlowInv, Indexed
  <2> DEFINE l == LastOf(b)
  <2>2. Insts(b) # {}
    BY <2>1, HeadFacts
  <2>3. l \in Insts(b) /\ \A j \in Insts(b) : j <= l
    BY <2>1, <2>2, LastOfFacts
  <2>4. l \in Positions /\ at[l] = b /\ l \in Nat /\ \A j \in Insts(b) : j \in Nat
    BY <2>1, <2>3, LaidFacts DEF Insts
  <2>5. Past(l) = {}
    BY <2>3, <2>4 DEF Past
  <2>6. WantedAfter(l) = liveOut[b]
    BY <2>1, <2>4, <2>5, NothingWanted DEF WantedAfter
  <2> QED BY <2>1, <2>4, <2>6, LiveIsWanted
<1> QED BY <1>1, AnalysisInvariant, PTL

\* Hulls keep interfering slots apart, and calls are marked exactly.
THEOREM HullsExact == AllocSpec => []RangesExact
<1>1. AnalysisInv => RangesExact
  <2> SUFFICES ASSUME AnalysisInv PROVE RangesExact
    OBVIOUS
  <2>1. HullsSeparate
    <3>1. pc # "done" => HullsSeparate
      BY DEF HullsSeparate
    <3> QED BY <3>1, Separate DEF AnalysisInv
  <2>2. ASSUME pc = "done", NEW s \in prog.slots
        PROVE  s \in crosses <=> \E i \in LiveAfter(s) : Code[i].op = "call"
    <3>1. /\ FlowInv /\ Indexed /\ prog \in Programs /\ HullsHold
          /\ \A c \in 1 .. Entry : Settled(c)
      BY <2>2 DEF AnalysisInv, FlowInv, RangeInv
    <3>2. LiveAfter(s) \subseteq Positions
      BY <3>1, LiveAfterIsLeast, ProgramShape
    <3>3. s \in crosses <=> \E i \in Positions : Code[i].op = "call" /\ s \in WantedAfter(i)
      BY <3>1 DEF HullsHold
    <3>4. \A i \in Positions : i \in LiveAfter(s) <=> s \in WantedAfter(i)
      BY <3>1, LiveIsWanted
    <3> QED BY <3>2, <3>3, <3>4
  <2> QED BY <2>1, <2>2 DEF RangesExact, CrossesExact
<1> QED BY <1>1, AnalysisInvariant, PTL

-----------------------------------------------------------------------------
(* The core solves the problem that the analysis poses.                    *)

\* Finite sets are the same in every instance.
LEMMA SameSize ==
  \A S : /\ R!Cardinality(S) = RP!Cardinality(S) /\ RP!Cardinality(S) = Cardinality(S)
         /\ RP!IsFiniteSet(S) <=> IsFiniteSet(S)
BY DEF R!Cardinality, RP!Cardinality, Cardinality, R!IsFiniteSet, RP!IsFiniteSet, IsFiniteSet

\* Steps and properties of the core are those that RallocProofs is about.
LEMMA SameProblem ==
  /\ \A r : /\ RP!SpanStart(r) = SpanStart(r) /\ RP!SpanEnd(r) = SpanEnd(r) /\ RP!Span(r) = Span(r)
            /\ R!SpanStart(r) = SpanStart(r) /\ R!SpanEnd(r) = SpanEnd(r) /\ R!Span(r) = Span(r)
            /\ RP!GensOf(r) = GensOf(r) /\ R!GensOf(r) = GensOf(r)
            /\ RP!LiveSegs(r) = LiveSegs(r) /\ (RP!IsRange(r) <=> IsRange(r))
  /\ \A spans, caps : R!BestSelections(spans, caps) = RP!BestSelections(spans, caps)
  /\ \A q : RP!IsProblem(q) <=> IsProblem(q)
<1>1. ASSUME NEW r
      PROVE  /\ RP!SpanStart(r) = SpanStart(r) /\ RP!SpanEnd(r) = SpanEnd(r) /\ RP!Span(r) = Span(r)
             /\ R!SpanStart(r) = SpanStart(r) /\ R!SpanEnd(r) = SpanEnd(r) /\ R!Span(r) = Span(r)
             /\ RP!GensOf(r) = GensOf(r) /\ R!GensOf(r) = GensOf(r)
             /\ RP!LiveSegs(r) = LiveSegs(r) /\ (RP!IsRange(r) <=> IsRange(r))
  BY DEF RP!SpanStart, SpanStart, RP!SpanEnd, SpanEnd, RP!Span, Span, RP!GensOf, GensOf,
         R!SpanStart, R!SpanEnd, R!Span, R!GensOf,
         RP!LiveSegs, LiveSegs, RP!IsRange, IsRange
<1>2. \A spans, caps : R!BestSelections(spans, caps) = RP!BestSelections(spans, caps)
  <2>1. \A spans, S, s : R!OccupancyOf(spans, S, s) = RP!OccupancyOf(spans, S, s)
    BY SameSize DEF R!OccupancyOf, RP!OccupancyOf, R!Segments, RP!Segments
  <2>2. \A spans, caps, S : R!Feasible(spans, caps, S) <=> RP!Feasible(spans, caps, S)
    BY <2>1 DEF R!Feasible, RP!Feasible
  <2>3. \A spans, S : R!WeightOf(spans, S) = RP!WeightOf(spans, S)
    BY SameSize DEF R!WeightOf, RP!WeightOf
  <2> QED BY <2>2, <2>3 DEF R!BestSelections, RP!BestSelections
<1>3. \A q : RP!IsProblem(q) <=> IsProblem(q)
  BY SameSize
     DEF RP!IsProblem, IsProblem, RP!IsRange, IsRange, RP!DistinctRegs, DistinctRegs,
         RP!UniformStarts, UniformStarts, RP!EntryAtLabel, EntryAtLabel, RP!GensOf, GensOf
<1> QED BY <1>1, <1>2, <1>3

\* The steps of the core in Allocation are those that RallocProofs is about.
LEMMA SameStep == R!Next => RP!Next
<1>1. /\ R!Vregs = RP!Vregs /\ \A v : R!V(v) = RP!V(v)
  BY DEF R!Vregs, RP!Vregs, R!V, RP!V
<1>2. R!Slots = RP!Slots
  BY DEF R!Slots, RP!Slots
<1>3. /\ R!OfClass = RP!OfClass /\ R!Total = RP!Total /\ R!Callee = RP!Callee
  BY <1>1, <1>2, SameSize DEF R!OfClass, RP!OfClass, R!Total, RP!Total, R!Callee, RP!Callee
<1>4. R!Crossing = RP!Crossing /\ R!FreeGoing = RP!FreeGoing
  BY <1>1, <1>3 DEF R!Crossing, RP!Crossing, R!FreeGoing, RP!FreeGoing
<1>5. \A S, s : R!Occupancy(S, s) = RP!Occupancy(S, s)
  BY <1>1, SameProblem, SameSize DEF R!Occupancy, RP!Occupancy
<1>6. R!AllSegs = RP!AllSegs
  BY <1>1, <1>3, SameProblem DEF R!AllSegs, RP!AllSegs
<1>7. \A C, cap : R!Selections(C, cap) = RP!Selections(C, cap)
  BY <1>1, SameProblem DEF R!Selections, RP!Selections
<1>8. CASE R!SkipClass
  BY <1>8, <1>3, <1>4 DEF R!SkipClass, RP!SkipClass, RP!Next
<1>9. CASE R!SelectCrossing
  BY <1>9, <1>3, <1>4, <1>6, <1>7 DEF R!SelectCrossing, RP!SelectCrossing, RP!Next
<1>10. CASE R!SelectFree
  <2>1. \A s : R!Residual(s) = RP!Residual(s)
    BY <1>3, <1>5 DEF R!Residual, RP!Residual
  <2>2. [s \in R!AllSegs |-> R!Residual(s)] = [s \in RP!AllSegs |-> RP!Residual(s)]
    BY <2>1, <1>6
  <2>3. selB' \in RP!Selections(RP!FreeGoing, [s \in RP!AllSegs |-> RP!Residual(s)])
    BY <2>2, <1>4, <1>7, <1>10 DEF R!SelectFree
  <2> QED BY <2>3, <1>4, <1>10 DEF R!SelectFree, RP!SelectFree, RP!Next
<1>11. CASE R!Repair
  <2>1. \A v : R!HasRoom(v) <=> RP!HasRoom(v)
    BY <1>1, <1>3, <1>5, SameProblem DEF R!HasRoom, RP!HasRoom
  <2>2. \A v, w : R!HeavierFirst(v, w) <=> RP!HeavierFirst(v, w)
    BY <1>1 DEF R!HeavierFirst, RP!HeavierFirst
  <2> QED BY <1>11, <2>1, <2>2 DEF R!Repair, RP!Repair, RP!Next
<1>12. CASE R!BeginSweep
  BY <1>12, <1>3 DEF R!BeginSweep, RP!BeginSweep, R!Idle, RP!Idle, RP!Next
<1>13. CASE R!Place
  <2>1. \A r : R!Expire(r) = RP!Expire(r)
    BY DEF R!Expire, RP!Expire, R!Expired, RP!Expired
  <2>2. \A v, w : R!Earlier(v, w) <=> RP!Earlier(v, w)
    BY <1>1 DEF R!Earlier, RP!Earlier
  <2>3. \A r : R!Eligible(r) = RP!Eligible(r)
    BY <1>2 DEF R!Eligible, RP!Eligible
  <2>4. \A r, i, j : R!Preferred(r, i, j) <=> RP!Preferred(r, i, j)
    BY <1>2 DEF R!Preferred, RP!Preferred
  <2>5. RP!Place
    BY <1>13, <1>1, <1>2, <2>1, <2>2, <2>3, <2>4 DEF R!Place, RP!Place
  <2> QED BY <2>5 DEF RP!Next
<1>14. CASE R!NextClass
  BY <1>14 DEF R!NextClass, RP!NextClass, RP!Next
<1>15. CASE R!BeginCoalescing
  BY <1>15 DEF R!BeginCoalescing, RP!BeginCoalescing, RP!Next
<1>16. /\ \A m, o : R!MayJoin(m, o) <=> RP!MayJoin(m, o)
       /\ \A m, o : R!Movable(m, o) <=> RP!Movable(m, o)
  <2>1. \A m, o : R!Movable(m, o) <=> RP!Movable(m, o)
    BY <1>1 DEF R!Movable, RP!Movable
  <2>2. \A r, s : R!GensCompatible(r, s) <=> RP!GensCompatible(r, s)
    BY SameProblem DEF R!GensCompatible, RP!GensCompatible
  <2>3. \A r, s : R!HullsOverlap(r, s) <=> RP!HullsOverlap(r, s)
    BY DEF R!HullsOverlap, RP!HullsOverlap
  <2>4. \A c, g : R!CalleeSaved(c, g) <=> RP!CalleeSaved(c, g)
    BY DEF R!CalleeSaved, RP!CalleeSaved
  <2>5. \A m, o : R!MayJoin(m, o) <=> RP!MayJoin(m, o)
    BY <1>1, <2>2, <2>3, <2>4 DEF R!MayJoin, RP!MayJoin
  <2> QED BY <2>1, <2>5
<1>17. R!Mover = RP!Mover /\ R!Other = RP!Other /\ (R!InRound <=> RP!InRound)
  BY DEF R!Mover, RP!Mover, R!Other, RP!Other, R!InRound, RP!InRound
<1>18. CASE R!JoinOther
  BY <1>18, <1>16, <1>17 DEF R!JoinOther, RP!JoinOther, RP!Next
<1>19. CASE R!JoinMover
  BY <1>19, <1>16, <1>17 DEF R!JoinMover, RP!JoinMover, RP!Next
<1>20. CASE R!LeaveApart
  BY <1>20, <1>16, <1>17 DEF R!LeaveApart, RP!LeaveApart, RP!Next
<1>21. CASE R!EndRound
  BY <1>21 DEF R!EndRound, RP!EndRound, RP!Next
<1>22. CASE R!Done
  BY <1>22 DEF R!Done, RP!Done, R!vars, RP!vars, RP!Next
<1> QED BY <1>8, <1>9, <1>10, <1>11, <1>12, <1>13, <1>14, <1>15, <1>18, <1>19, <1>20, <1>21, <1>22
        DEF R!Next

-----------------------------------------------------------------------------
(* The invariant of the whole allocation.                                  *)

\* The stages of ralloc_hybrid.
Solving == rpc \notin {"idle", "run"}

\* The problem is the one the analysis posed; while it is being solved the core's
\* invariants hold, and what they say of the registers holds ever after.
CoreInv ==
  /\ rpc = "idle" => /\ ci = 1 /\ selA = {} /\ selB = {} /\ rej = {} /\ todo = {}
                     /\ slot = << >> /\ round = 0 /\ mi = 1 /\ any = FALSE
  /\ rpc # "idle" => pc = "posed" /\ p.vreg = Problem.vreg /\ p.class = <<Bank>>
  /\ Solving => RP!Fresh \/ (RP!IInv /\ RP!QualityInv /\ RP!SweptApart)
  /\ rpc = "run" => /\ asg \in [DOMAIN p.vreg -> Nat \cup {NoReg}]
                    /\ RP!NoClobber /\ RP!CrossingSafe

\* The problem is a matter of the analysis' results alone.
LEMMA ProblemKept ==
  ASSUME UNCHANGED <<prog, at, liveIn, liveOut, bUse, bDef, first, last, crosses,
                     gens, carried, depth, hints, early>>
  PROVE  Problem' = Problem
<1>1. UNCHANGED FlowVars
  BY DEF FlowVars
<1>2. /\ Code' = Code /\ Positions' = Positions /\ Blocks' = Blocks
      /\ \A s : Defs(s)' = Defs(s) /\ Uses(s)' = Uses(s)
  BY <1>1, WantedKept DEF Blocks
<1>3. \A s : Promotable(s)' <=> Promotable(s)
  BY <1>2 DEF Promotable
<1>4. \A i : UseWeight(i)' = UseWeight(i)
  BY <1>2 DEF UseWeight, LoopDepth
<1>5. \A s : SpillWeight(s)' = SpillWeight(s)
  <2> SUFFICES ASSUME NEW s PROVE SpillWeight(s)' = SpillWeight(s)
    OBVIOUS
  <2>1. SumOver(Uses(s))' = SumOver(Uses(s))
    BY <1>2, <1>4 DEF SumOver
  <2> QED BY <2>1 DEF SpillWeight
<1>6. \A s : StartsAtDef(s)' <=> StartsAtDef(s)
  BY <1>2 DEF StartsAtDef, IsDef
<1>7. \A s : RangeOf(s)' = RangeOf(s)
  <2>1. \A s : StartsAtDef(s)' = StartsAtDef(s)
    BY <1>6 DEF StartsAtDef
  <2> QED BY <1>5, <2>1 DEF RangeOf
<1>8. {t \in prog.slots : Promotable(t)}' = {t \in prog.slots : Promotable(t)}
  BY <1>3
<1>9. [s \in {t \in prog.slots : Promotable(t)} |-> RangeOf(s)]'
        = [s \in {t \in prog.slots : Promotable(t)} |-> RangeOf(s)]
  BY <1>7, <1>8
<1> QED BY <1>9 DEF Problem

\* The core is idle at first.
LEMMA InitCore == AllocInit => CoreInv
BY DEF AllocInit, CoreInv, Solving

\* A step of the core, or none, keeps the core's invariants.
LEMMA SolvingStep ==
  ASSUME CoreInv, Solving, [RP!Next]_(RP!vars)
  PROVE  RP!IInv' /\ RP!QualityInv' /\ RP!SweptApart'
<1>1. RP!IInv /\ RP!QualityInv /\ RP!SweptApart
  BY NoRegAssumption, MaxRoundsAssumption, RP!FreshIInv, RP!FreshQuality, RP!FreshSwept
     DEF CoreInv
<1>2. RP!IInv'
  BY <1>1, NoRegAssumption, MaxRoundsAssumption, RP!InvarianceStep
<1>3. RP!QualityInv'
  BY <1>1, NoRegAssumption, MaxRoundsAssumption, RP!QualityStep
<1>4. RP!SweptApart'
  BY <1>1, NoRegAssumption, MaxRoundsAssumption, RP!SweptStep
<1> QED BY <1>2, <1>3, <1>4

\* build_problem hands ralloc_hybrid a problem that honours its contract.
LEMMA PoseCore == ASSUME AnalysisInv, CoreInv, Pose PROVE CoreInv'
<1>1. PICK size \in BOOLEAN : p' = [Problem EXCEPT !.flip = size]
  BY DEF Pose
<1>2. /\ pc = "done" /\ rpc = "idle" /\ pc' = "posed" /\ rpc' = "selectA"
      /\ asg' = [v \in DOMAIN p'.vreg |-> NoReg]
      /\ UNCHANGED <<ci, selA, selB, rej, todo, slot, round, mi, any>>
      /\ Problem' = Problem
  BY ProblemKept DEF Pose
<1>3. p'.vreg = Problem.vreg /\ p'.class = <<Bank>>
  BY <1>1 DEF Problem
<1>4. RP!IsProblem(p)'
  <2>1. IsProblem(p')
    BY <1>1, <1>2, ContractHolds DEF AnalysisInv
  <2> QED BY <2>1, SameProblem
<1>5. RP!Fresh'
  BY <1>2, <1>4 DEF CoreInv, RP!Fresh, RP!Vregs
<1> QED BY <1>2, <1>3, <1>5 DEF CoreInv, Solving

\* A step of the core keeps its invariants.
LEMMA SolveCore == ASSUME CoreInv, Solve PROVE CoreInv'
<1>1. RP!Next /\ UNCHANGED vars
  BY SameStep DEF Solve
<1>2. Solving
  BY <1>1 DEF RP!Next, RP!SkipClass, RP!SelectCrossing, RP!SelectFree, RP!Repair, RP!BeginSweep,
       RP!Place, RP!NextClass, RP!BeginCoalescing, RP!JoinOther, RP!JoinMover, RP!LeaveApart,
       RP!EndRound, RP!Done, RP!InRound, Solving
<1>3. RP!IInv' /\ RP!QualityInv' /\ RP!SweptApart'
  BY <1>1, <1>2, SolvingStep
<1>4. p' = p
  BY <1>1 DEF RP!Next, RP!SkipClass, RP!SelectCrossing, RP!SelectFree, RP!Repair, RP!BeginSweep,
       RP!Place, RP!NextClass, RP!BeginCoalescing, RP!JoinOther, RP!JoinMover, RP!LeaveApart,
       RP!EndRound, RP!Done, RP!vars
<1>5. rpc' \notin {"idle", "run"}
  BY <1>3 DEF RP!IInv, RP!TypeOK
<1>6. Problem' = Problem /\ pc' = pc
  BY <1>1, ProblemKept DEF vars
<1> QED BY <1>2, <1>3, <1>4, <1>5, <1>6 DEF CoreInv, Solving

\* What the invariants say of the registers depends on the problem and the assignment.
LEMMA RegistersKept ==
  ASSUME UNCHANGED <<p, asg>>
  PROVE  (RP!NoClobber' <=> RP!NoClobber) /\ (RP!CrossingSafe' <=> RP!CrossingSafe)
<1>1. /\ RP!Promoted' = RP!Promoted /\ \A v : RP!V(v)' = RP!V(v)
      /\ \A c, g : RP!CalleeSaved(c, g)' <=> RP!CalleeSaved(c, g)
  BY DEF RP!Promoted, RP!Vregs, RP!V, RP!CalleeSaved
<1> QED BY <1>1 DEF RP!NoClobber, RP!CrossingSafe

\* Rewriting and executing the function change no register.
LEMMA OtherCore ==
  ASSUME CoreInv, UNCHANGED vars, UNCHANGED <<p, ci, selA, selB, rej, todo, slot, asg, round, mi, any>>,
         rpc' = rpc \/ (rpc = "done" /\ rpc' = "run")
  PROVE  CoreInv'
<1>1. Problem' = Problem /\ pc' = pc
  BY ProblemKept DEF vars
<1>2. CASE rpc' = rpc
  <2>1. UNCHANGED RP!vars
    BY <1>2 DEF RP!vars
  <2>2. Solving => RP!IInv' /\ RP!QualityInv' /\ RP!SweptApart'
    BY <2>1, SolvingStep
  <2> QED BY <1>1, <1>2, <2>2, RegistersKept DEF CoreInv, Solving
<1>3. CASE rpc = "done" /\ rpc' = "run"
  <2>1. RP!IInv
    BY <1>3, NoRegAssumption, MaxRoundsAssumption, RP!FreshIInv DEF CoreInv, Solving
  <2>2. asg \in [DOMAIN p.vreg -> Nat \cup {NoReg}] /\ RP!NoClobber /\ RP!CrossingSafe
    BY <2>1 DEF RP!IInv, RP!TypeOK, RP!Vregs
  <2> QED BY <1>1, <1>3, <2>2, RegistersKept DEF CoreInv, Solving
<1> QED BY <1>2, <1>3

\* Every step of the allocation keeps the core's part of the invariant.
LEMMA AllocCore == ASSUME AnalysisInv, CoreInv, [AllocNext]_allVars PROVE CoreInv'
<1>1. CASE Analyze
  <2>1. pc # "posed" /\ UNCHANGED solver
    BY <1>1 DEF Analyze, Next, IndexBlocks, VisitBlock, NextSweep, WalkInst, WalkNext, Finish,
                FuseNext, EndFuses
  <2> QED BY <2>1 DEF CoreInv, Solving, solver
<1>2. CASE Pose
  BY <1>2, PoseCore
<1>3. CASE Solve
  BY <1>3, SolveCore
<1>4. CASE Rewrite \/ Execute \/ Stopped \/ UNCHANGED allVars
  <2>1. /\ UNCHANGED vars /\ UNCHANGED <<p, ci, selA, selB, rej, todo, slot, asg, round, mi, any>>
        /\ rpc' = rpc \/ (rpc = "done" /\ rpc' = "run")
    BY <1>4 DEF Rewrite, Execute, Load, Compute, Store, StoreConstant, Call, PassOver, Goto,
                Stopped, allVars, solver
  <2> QED BY <2>1, OtherCore
<1> QED BY <1>1, <1>2, <1>3, <1>4 DEF AllocNext

\* The ranges and the registers, at every step of Allocator::run and of the function
\* it has rewritten.
THEOREM AllocationInvariant == AllocSpec => [](AnalysisInv /\ CoreInv)
<1>1. AllocInit => CoreInv
  BY InitCore
<1>2. AnalysisInv /\ CoreInv /\ [AllocNext]_allVars => CoreInv'
  BY AllocCore
<1> QED BY <1>1, <1>2, AnalysisInvariant, PTL DEF AllocSpec

-----------------------------------------------------------------------------
(* From the paths of the block graph to the registers.                     *)

\* s and t are in one register.
Share(s, t) == s # t /\ Promoted(s) /\ Promoted(t) /\ asg[s] = asg[t]

\* One is live where the other is live or written.
Interfere(s, t) == (LiveAfter(s) \cup Defs(s)) \cap LiveAfter(t) # {}

CallsKept ==
  rpc # "idle" => \A s \in DOMAIN asg :
    (Promoted(s) /\ \E i \in LiveAfter(s) : Code[i].op = "call") => asg[s] \notin CallerSaved

SweepSeparates ==
  rpc \in {"selectA", "selectB", "repair", "sweep"} =>
    \A s, t \in DOMAIN asg : Share(s, t) => ~Interfere(s, t)

OnceWrittenSeparate ==
  rpc # "idle" => \A s, t \in DOMAIN asg :
    (Share(s, t) /\ Cardinality(Defs(s)) = 1 /\ Cardinality(Defs(t)) = 1) => ~Interfere(s, t)

\* What the invariants say of a slot that has a register.
LEMMA AllocatedFacts ==
  ASSUME AnalysisInv, CoreInv, rpc # "idle"
  PROVE  /\ FlowInv /\ RangeInv /\ pc = "posed" /\ RP!NoClobber /\ RP!CrossingSafe
         /\ p.class = <<Bank>>
         /\ \A s \in DOMAIN asg : /\ s \in prog.slots /\ Promotable(s) /\ s \in DOMAIN p.vreg
                                  /\ p.vreg[s] = RangeOf(s)
                                  /\ Promoted(s) => s \in RP!Promoted
<1>1. pc = "posed" /\ p.vreg = Problem.vreg /\ p.class = <<Bank>>
  BY DEF CoreInv
<1>2. asg \in [DOMAIN p.vreg -> Nat \cup {NoReg}] /\ RP!NoClobber /\ RP!CrossingSafe
  <2>1. CASE rpc = "run"
    BY <2>1 DEF CoreInv
  <2>2. CASE rpc # "run"
    <3>1. RP!IInv
      BY <2>2, NoRegAssumption, MaxRoundsAssumption, RP!FreshIInv DEF CoreInv, Solving
    <3> QED BY <3>1 DEF RP!IInv, RP!TypeOK, RP!Vregs
  <2> QED BY <2>1, <2>2
<1>3. Problem.vreg = [s \in {t \in prog.slots : Promotable(t)} |-> RangeOf(s)]
  BY DEF Problem
<1>4. DOMAIN asg = {t \in prog.slots : Promotable(t)} /\ DOMAIN p.vreg = DOMAIN asg
  BY <1>1, <1>2, <1>3
<1> QED BY <1>1, <1>2, <1>3, <1>4 DEF AnalysisInv, Promoted, RP!Promoted, RP!Vregs

\* A range's class, hull and call mark.
LEMMA RangeFields ==
  ASSUME NEW s
  PROVE  /\ RangeOf(s).cls = 1 /\ RangeOf(s).crosses = (s \in crosses) /\ RangeOf(s).gens = gens[s]
         /\ RangeOf(s).first = first[s] /\ RangeOf(s).last = last[s] /\ RangeOf(s).def = StartsAtDef(s)
BY DEF RangeOf

\* A value that a call returns into is never in a register the callee may overwrite.
THEOREM CallsKeepValues == AllocSpec => []CallsKept
<1>1. AnalysisInv /\ CoreInv => CallsKept
  <2> SUFFICES ASSUME AnalysisInv, CoreInv, rpc # "idle", NEW s \in DOMAIN asg, Promoted(s),
                      NEW i \in LiveAfter(s), Code[i].op = "call"
               PROVE  asg[s] \notin CallerSaved
    BY DEF CallsKept
  <2>1. /\ FlowInv /\ Indexed /\ prog \in Programs /\ HullsHold /\ s \in prog.slots
        /\ (\A b \in 1 .. Entry : Settled(b)) /\ s \in RP!Promoted
        /\ p.vreg[s] = RangeOf(s) /\ p.class = <<Bank>> /\ RP!CrossingSafe
    BY AllocatedFacts DEF FlowInv, RangeInv
  <2>2. i \in Positions /\ s \in WantedAfter(i)
    BY <2>1, LiveAfterIsLeast, ProgramShape, LiveIsWanted
  <2>3. s \in crosses
    BY <2>1, <2>2 DEF HullsHold
  <2>4. RP!V(s).crosses /\ RP!V(s).cls = 1
    BY <2>1, <2>3, RangeFields DEF RP!V
  <2>5. RP!CalleeSaved(1, asg[s])
    BY <2>1, <2>4 DEF RP!CrossingSafe
  <2>6. \E j \in DOMAIN Bank : Bank[j].reg = asg[s] /\ Bank[j].callee
    BY <2>1, <2>5 DEF RP!CalleeSaved
  <2> QED BY <2>6, BankAssumption DEF CallerSaved
<1> QED BY <1>1, AllocationInvariant, PTL

\* Hulls of which one has expired for the other are apart.
LEMMA ExpiredSpans ==
  ASSUME FlowInv, RangeInv, pc \in {"done", "posed"},
         NEW s \in prog.slots, NEW t \in prog.slots, Promotable(s), Promotable(t),
         RP!Expired(RangeOf(s), RangeOf(t))
  PROVE  Span(RangeOf(s)) \cap Span(RangeOf(t)) = {}
<1>1. \A u \in {s, t} : /\ first[u] \in Nat /\ last[u] \in Nat /\ first[u] < last[u]
                        /\ Span(RangeOf(u)) = first[u] .. (last[u] - 1)
  BY HullIsSpan
<1>2. last[s] <= first[t]
  BY <1>1, RangeFields DEF RP!Expired
<1> QED BY <1>1, <1>2

\* Until coalescing, slots that interfere on some path have different registers.
THEOREM SweepKeepsApart == AllocSpec => []SweepSeparates
<1>1. AnalysisInv /\ CoreInv => SweepSeparates
  <2> SUFFICES ASSUME AnalysisInv, CoreInv, rpc \in {"selectA", "selectB", "repair", "sweep"},
                      NEW s \in DOMAIN asg, NEW t \in DOMAIN asg, Share(s, t), Interfere(s, t)
               PROVE  FALSE
    BY DEF SweepSeparates
  <2>1. /\ FlowInv /\ RangeInv /\ pc = "posed" /\ s \in prog.slots /\ t \in prog.slots /\ s # t
        /\ Promotable(s) /\ Promotable(t) /\ s \in RP!Promoted /\ t \in RP!Promoted /\ asg[s] = asg[t]
        /\ p.vreg[s] = RangeOf(s) /\ p.vreg[t] = RangeOf(t)
    BY AllocatedFacts DEF Share
  <2>2. Span(RangeOf(s)) \cap Span(RangeOf(t)) # {}
    BY <2>1, SpansMeet DEF Interfere
  <2>3. RP!SweptApart
    BY NoRegAssumption, MaxRoundsAssumption, RP!FreshSwept DEF CoreInv, Solving
  <2>4. RP!V(s) = RangeOf(s) /\ RP!V(t) = RangeOf(t) /\ RP!V(s).cls = RP!V(t).cls
    BY <2>1, RangeFields DEF RP!V
  <2>5. RP!Expired(RangeOf(s), RangeOf(t)) \/ RP!Expired(RangeOf(t), RangeOf(s))
    BY <2>1, <2>3, <2>4 DEF RP!SweptApart
  <2> QED BY <2>1, <2>2, <2>5, ExpiredSpans
<1> QED BY <1>1, AllocationInvariant, PTL

\* Coalescing can err only on a slot that is written more than once.
THEOREM OnceWrittenKeptApart == AllocSpec => []OnceWrittenSeparate
<1>1. AnalysisInv /\ CoreInv => OnceWrittenSeparate
  <2> SUFFICES ASSUME AnalysisInv, CoreInv, rpc # "idle",
                      NEW s \in DOMAIN asg, NEW t \in DOMAIN asg, Share(s, t), Interfere(s, t),
                      Cardinality(Defs(s)) = 1, Cardinality(Defs(t)) = 1
               PROVE  FALSE
    BY DEF OnceWrittenSeparate
  <2>1. /\ FlowInv /\ RangeInv /\ pc = "posed" /\ s \in prog.slots /\ t \in prog.slots /\ s # t
        /\ Promotable(s) /\ Promotable(t) /\ s \in RP!Promoted /\ t \in RP!Promoted /\ asg[s] = asg[t]
        /\ p.vreg[s] = RangeOf(s) /\ p.vreg[t] = RangeOf(t) /\ RP!NoClobber
    BY AllocatedFacts DEF Share
  <2>2. Span(RangeOf(s)) \cap Span(RangeOf(t)) # {}
    BY <2>1, SpansMeet DEF Interfere
  <2>3. ASSUME NEW u \in {s, t} PROVE LiveSegs(RangeOf(u)) = Span(RangeOf(u))
    <3>1. gens[u] = {[start |-> first[u], end |-> last[u]]}
      <4>1. gens[u] = GensOfSlot(u, first[u])
        BY <2>1 DEF RangeInv
      <4> QED BY <4>1 DEF GensOfSlot
    <3>2. GensOf(RangeOf(u)) = {[start |-> first[u], end |-> last[u]]}
      BY <3>1, RangeFields DEF GensOf
    <3>3. StartsAtDef(u) /\ RangeOf(u).def = StartsAtDef(u)
      BY <2>1, RangeFacts, RangeFields
    <3>4. RangeOf(u).def
      BY <3>3, Zenon
    <3>5. LiveSegs(RangeOf(u)) = first[u] .. (last[u] - 1)
      BY <3>2, <3>4 DEF LiveSegs
    <3> QED BY <3>5, <2>1, HullIsSpan
  <2>4. RP!V(s) = RangeOf(s) /\ RP!V(t) = RangeOf(t) /\ RP!V(s).cls = RP!V(t).cls
    BY <2>1, RangeFields DEF RP!V
  <2>5. RP!LiveSegs(RangeOf(s)) \cap RP!LiveSegs(RangeOf(t)) = {}
    BY <2>1, <2>4 DEF RP!NoClobber
  <2>6. LiveSegs(RangeOf(s)) \cap LiveSegs(RangeOf(t)) = {}
    BY <2>5, SameProblem
  <2> QED BY <2>2, <2>3, <2>6
<1> QED BY <1>1, AllocationInvariant, PTL
=============================================================================
