---------------------------- MODULE SlotLiveness ----------------------------
(***************************************************************************)
(* Slot liveness and live ranges in the x86-64 target,                     *)
(* jules/src/targets/x86_64/x64_ra.cpp: Allocator::analyze, compute_gens,  *)
(* extract_fuses and the range part of build_problem.  From the emitted    *)
(* stream and its block graph it derives the live ranges that the          *)
(* allocator core is given (module RallocProblem): a backward dataflow     *)
(* fixpoint over the blocks, a backward walk over every block's            *)
(* instructions, the ranges' hulls, generations, call-crossing and loop    *)
(* facts, and from the accumulator chains the coalescing hints.            *)
(*                                                                         *)
(* A program is [code, succs, slots]: code maps the positions 0 .. n-1 to  *)
(* [op, slot]; succs maps the blocks 1 .. nb to their successors.  The     *)
(* instructions before the first label form the prologue, the pseudo-block *)
(* after the last block.  The operations, where the accumulator is rax:    *)
(*    "label"  the head of block `slot`     "jmp", "call"                  *)
(*    "use"    the slot is loaded into the accumulator                     *)
(*    "gap"    the slot is loaded into a scratch register, as an operand   *)
(*    "op"     the accumulator is computed on                              *)
(*    "def"    the accumulator is stored into the slot                     *)
(*    "set"    a constant is stored into the slot                          *)
(*    "addr"   the address of the slot is taken                            *)
(***************************************************************************)
EXTENDS RallocProblem

CONSTANTS Programs, Never,
          Bank       \* the registers of the one class, callers first

-----------------------------------------------------------------------------
(* What the stages before promise of a program (x64_ra.cpp reads the block *)
(* graph of p83_cfg_linearization.cpp and the code emitted from it).       *)

Operations == {"label", "jmp", "call", "use", "gap", "op", "def", "set", "addr"}
Reading == {"use", "gap", "addr"}
Writing == {"def", "set"}

\* The blocks and their successors; the prologue falls into block 1.
BlocksOf(q) == DOMAIN q.succs
EntryOf(q) == Cardinality(BlocksOf(q)) + 1
SuccsOf(q, b) == IF b = EntryOf(q) THEN {1} ELSE q.succs[b] \cap BlocksOf(q)
LabelAt(q, i) == q.code[i].op = "label" /\ q.code[i].slot \in BlocksOf(q)

\* The block of a position is that of the last label up to it.
BlockOf(q, i) ==
  LET labels == {j \in 0 .. i : LabelAt(q, j)}
  IN  IF labels = {} THEN EntryOf(q)
      ELSE q.code[CHOOSE j \in labels : \A k \in labels : k <= j].slot

\* Every block is laid out once, in the order of their numbers, and is left
\* other than by falling into the next one only from a jump.
LaidOut(q) ==
  /\ \A b \in BlocksOf(q) : \E i \in DOMAIN q.code : LabelAt(q, i) /\ q.code[i].slot = b
  /\ \A i, j \in DOMAIN q.code :
       (LabelAt(q, i) /\ LabelAt(q, j) /\ i < j) => q.code[i].slot < q.code[j].slot
  /\ \A i \in DOMAIN q.code :
       (q.code[i].op # "jmp" /\ (i + 1 \in DOMAIN q.code => LabelAt(q, i + 1)))
         => SuccsOf(q, BlockOf(q, i)) \subseteq {b \in BlocksOf(q) :
              i + 1 \in DOMAIN q.code /\ q.code[i + 1].slot = b}

\* Blocks are numbered in reverse postorder: each is entered from an earlier one.
Numbered(q) == \A b \in BlocksOf(q) \ {1} : \E c \in BlocksOf(q) : c < b /\ b \in SuccsOf(q, c)

\* On entry to the blocks of `written`, slot s has been written on every path;
\* so it has wherever a block reads it before writing it.
Certifies(q, s, written) ==
  LET at == [i \in DOMAIN q.code |-> BlockOf(q, i)]
      writes == {i \in DOMAIN q.code : q.code[i].op \in Writing /\ q.code[i].slot = s}
      reads == {i \in DOMAIN q.code : q.code[i].op \in Reading /\ q.code[i].slot = s}
  IN /\ \A u \in reads : at[u] \in written \/ \E d \in writes : at[d] = at[u] /\ d < u
     /\ \A b \in written, c \in BlocksOf(q) \cup {EntryOf(q)} :
          b \in SuccsOf(q, c) => c \in written \/ \E d \in writes : at[d] = c

\* No path reads a slot before writing it.
WrittenFirst(q) ==
  \A s \in q.slots : \E written \in SUBSET BlocksOf(q) : Certifies(q, s, written)

IsProgram(q) ==
  /\ q.slots \subseteq Nat /\ IsFiniteSet(q.slots)
  /\ IsFiniteSet(DOMAIN q.code) /\ DOMAIN q.code = 0 .. (Cardinality(DOMAIN q.code) - 1)
  /\ IsFiniteSet(BlocksOf(q)) /\ BlocksOf(q) = 1 .. Cardinality(BlocksOf(q)) /\ BlocksOf(q) # {}
  /\ \A i \in DOMAIN q.code :
       /\ q.code[i].op \in Operations
       /\ q.code[i].op \in Reading \cup Writing => q.code[i].slot \in q.slots
  /\ LaidOut(q) /\ Numbered(q) /\ WrittenFirst(q)

ASSUME ProgramsAssumption == \A q \in Programs : IsProgram(q)
ASSUME NeverAssumption == Never \notin Nat
ASSUME BankAssumption ==
  /\ Bank \in Seq([reg : Nat, callee : BOOLEAN])
  /\ \A i, j \in DOMAIN Bank : Bank[i].reg = Bank[j].reg => i = j

-----------------------------------------------------------------------------

VARIABLES prog, pc,
          at, bUse, bDef,             \* block of a position; block summaries
          liveIn, liveOut, changed,   \* the block dataflow
          bi, left, live,             \* the block under work, its positions
                                      \* still to walk, the live slots there
          first, last, crosses,       \* LiveRange fields, per slot
          gens, carried, depth,       \* generations; loop facts
          fuses, hints,               \* accumulator chains [load, store, a, z,
                                      \* inplace]; coalescing hints <<z, a>>
          early                       \* slots whose range a fuse extends

vars == <<prog, pc, at, bUse, bDef, liveIn, liveOut, changed, bi, left, live,
          first, last, crosses, gens, carried, depth, fuses, hints, early>>

Code == prog.code
Blocks == BlocksOf(prog)
Entry == EntryOf(prog)
Positions == DOMAIN Code

IsDef(i) == Code[i].op \in Writing
IsUse(i) == Code[i].op \in Reading
Defs(s) == {i \in Positions : IsDef(i) /\ Code[i].slot = s}
Uses(s) == {i \in Positions : IsUse(i) /\ Code[i].slot = s}
StartsBlock(i) == LabelAt(prog, i)

Insts(b) == {i \in Positions : at[i] = b}
Succs(b) == SuccsOf(prog, b)

\* Where control may go after position i.
NextOf(i) == IF i + 1 \in Insts(at[i]) THEN {i + 1}
             ELSE {j \in Positions : StartsBlock(j) /\ Code[j].slot \in Succs(at[i])}

Init == /\ prog \in Programs
        /\ pc = "index" /\ bi = Entry
        /\ at = [i \in Positions |-> Entry]
        /\ bUse = [b \in 1 .. Entry |-> {}] /\ bDef = [b \in 1 .. Entry |-> {}] /\ changed = FALSE
        /\ liveIn = [b \in 1 .. Entry |-> {}] /\ liveOut = [b \in 1 .. Entry |-> {}]
        /\ left = {} /\ live = {}
        /\ first = [s \in prog.slots |-> Never] /\ last = [s \in prog.slots |-> 0]
        /\ crosses = {} /\ gens = [s \in prog.slots |-> {}]
        /\ carried = {} /\ depth = [b \in Blocks |-> 0]
        /\ fuses = {} /\ hints = << >> /\ early = {}

-----------------------------------------------------------------------------
(* The block of every position is that of the last label before it; a      *)
(* block reads what it uses before defining it, and writes what it defines.*)

BlockAt(i) == BlockOf(prog, i)

Exposed(I) == {i \in I : IsUse(i) /\ \A k \in Defs(Code[i].slot) \cap I : i <= k}
SlotsAt(I) == {Code[i].slot : i \in I}

IndexBlocks ==
  /\ pc = "index" /\ pc' = "flow"
  /\ at' = [i \in Positions |-> BlockAt(i)]
  /\ LET In(b) == {i \in Positions : at'[i] = b}
     IN /\ bUse' = [b \in 1 .. Entry |-> SlotsAt(Exposed(In(b)))]
        /\ bDef' = [b \in 1 .. Entry |-> SlotsAt({i \in In(b) : IsDef(i)})]
  /\ UNCHANGED <<prog, liveIn, liveOut, changed, bi, left, live, first, last,
                 crosses, gens, carried, depth, fuses, hints, early>>

-----------------------------------------------------------------------------
(* The block dataflow: sweeps over the blocks from last to first, until a  *)
(* whole sweep changes the size of no set.                                 *)

Out(b) == UNION {liveIn[s] : s \in Succs(b)}

VisitBlock ==
  /\ pc = "flow" /\ bi > 0
  /\ LET out == Out(bi)
         in == bUse[bi] \cup (out \ bDef[bi])
     IN /\ changed' = (\/ changed
                       \/ Cardinality(out) # Cardinality(liveOut[bi])
                       \/ Cardinality(in) # Cardinality(liveIn[bi]))
        /\ liveOut' = [liveOut EXCEPT ![bi] = out]
        /\ liveIn' = [liveIn EXCEPT ![bi] = in]
  /\ bi' = bi - 1
  /\ UNCHANGED <<prog, pc, at, bUse, bDef, left, live, first, last, crosses,
                 gens, carried, depth, fuses, hints, early>>

NextSweep_Never == /\ pc = "flow" /\ bi = 0
                   /\ bi' = Entry /\ changed' = FALSE
                   /\ pc' = "walk"
                   /\ left' = Insts(Entry) /\ live' = liveOut[Entry]
                   /\ UNCHANGED <<prog, at, bUse, bDef, liveIn, liveOut, first, last, crosses,
                                  gens, carried, depth, fuses, hints, early>>
NextSweep == /\ pc = "flow" /\ bi = 0
             /\ bi' = Entry /\ changed' = FALSE
             /\ IF changed
                THEN UNCHANGED <<pc, left, live>>
                ELSE /\ pc' = "walk"
                     /\ left' = Insts(Entry) /\ live' = liveOut[Entry]
             /\ UNCHANGED <<prog, at, bUse, bDef, liveIn, liveOut, first, last, crosses,
                            gens, carried, depth, fuses, hints, early>>

-----------------------------------------------------------------------------
(* The walk: every block's instructions, last to first.                    *)

Earliest(f, i) == IF f = Never \/ i < f THEN i ELSE f
Latest(l, i) == IF l < i THEN i ELSE l

LiveBefore_KeepsDef(i) == live \cup (IF IsUse(i) THEN {Code[i].slot} ELSE {})
LiveBefore(i) == IF IsDef(i) THEN live \ {Code[i].slot}
                 ELSE IF IsUse(i) THEN live \cup {Code[i].slot} ELSE live

Touched(i) == IF IsDef(i) \/ IsUse(i) THEN {Code[i].slot} ELSE {}

Reached_Touched(i) == Touched(i)
\* The slots whose hull reaches forward to position i.
Reached(i) == live \cup Touched(i)

\* The slots whose hull reaches back to position i.
Extended(i) == LiveBefore(i) \cup (IF IsDef(i) THEN {Code[i].slot} ELSE {})

\* The slots that are live after a call at position i.
CalledOver(i) == IF Code[i].op = "call" THEN live ELSE {}

WalkInst ==
  /\ pc = "walk" /\ left # {}
  /\ \E i \in left :
       /\ \A j \in left : j <= i
       /\ crosses' = crosses \cup CalledOver(i)
       /\ last' = [s \in prog.slots |-> IF s \in Reached(i)
                                        THEN Latest(last[s], i) ELSE last[s]]
       /\ first' = [s \in prog.slots |-> IF s \in Extended(i)
                                         THEN Earliest(first[s], i) ELSE first[s]]
       /\ live' = LiveBefore(i)
       /\ left' = left \ {i}
  /\ UNCHANGED <<prog, pc, at, bUse, bDef, liveIn, liveOut, changed, bi, gens,
                 carried, depth, fuses, hints, early>>

WalkNext ==
  /\ pc = "walk" /\ left = {} /\ bi > 1
  /\ bi' = bi - 1
  /\ left' = Insts(bi - 1) /\ live' = liveOut[bi - 1]
  /\ UNCHANGED <<prog, pc, at, bUse, bDef, liveIn, liveOut, changed, first, last,
                 crosses, gens, carried, depth, fuses, hints, early>>

-----------------------------------------------------------------------------
(* Generations, and loop facts.                                            *)

\* compute_gens: with several definitions, one generation per definition, to
\* the last use before the next definition in stream order.
GenFrom(s, d) ==
  LET later == {e \in Defs(s) : e > d}
      reads == {u \in Uses(s) : u > d /\ \A e \in later : u < e}
  IN  [start |-> d, end |-> IF reads = {} THEN d
                            ELSE CHOOSE u \in reads : \A w \in reads : w <= u]
GensOfSlot(s, from) == IF Cardinality(Defs(s)) <= 1
                       THEN {[start |-> from, end |-> last[s]]}
                       ELSE {GenFrom(s, d) : d \in Defs(s)}

\* Blocks are emitted in index order: a successor that is not later closes a loop.
BackEdges == {e \in Blocks \X Blocks : e[2] \in Succs(e[1]) /\ e[2] <= e[1]}
\* The natural loop of a back edge: what reaches the latch without the header.
NaturalLoop(b, h) ==
  LET Grown(R) == R \cup {x \in Blocks : \E y \in R \ {h} : y \in Succs(x)}
      Back[k \in Nat] == IF k = 0 THEN {b} ELSE Grown(Back[k - 1])
  IN  Back[Cardinality(Blocks)] \cup {h}

Finish ==
  /\ pc = "walk" /\ left = {} /\ bi = 1
  /\ first' = [s \in prog.slots |-> IF first[s] = Never THEN last[s] ELSE first[s]]
  /\ gens' = [s \in prog.slots |-> GensOfSlot(s, first'[s])]
  /\ depth' = [b \in Blocks |-> Cardinality({e \in BackEdges : b \in NaturalLoop(e[1], e[2])})]
  /\ carried' = UNION {liveOut[e[1]] : e \in BackEdges}
  /\ left' = {i \in Positions : Code[i].op = "use"}
  /\ pc' = "fuse"
  /\ UNCHANGED <<prog, at, bUse, bDef, liveIn, liveOut, changed, bi, live, last, crosses,
                 fuses, hints, early>>

-----------------------------------------------------------------------------
(* Fuses: a load of slot a into the accumulator, a run of operations,      *)
(* operand loads and stores, up to the run's last store, into slot z.      *)

InRun(k) == Code[k].op \in {"op", "gap", "def"}
Run(i) == {j \in Positions : j > i /\ \A k \in (i + 1) .. j : InRun(k)}

OpsIn(i) == {k \in Run(i) : Code[k].op = "op"}
StoresIn(i) == {k \in Run(i) : Code[k].op = "def"}
LastStore(i) == CHOOSE t \in StoresIn(i) : \A k \in StoresIn(i) : k <= t
Target(i) == Code[LastStore(i)].slot

\* Operand loads of the result slot before the last store; they spoil the
\* fuse, except, when the chain updates its own slot, before any operation.
OwnReads(i) == {k \in Run(i) : k < LastStore(i) /\ Code[k].op = "gap" /\ Code[k].slot = Target(i)}
Fusible(i) ==
  /\ StoresIn(i) # {}
  /\ \A k \in OwnReads(i) : /\ Target(i) = Code[i].slot
                             /\ \A o \in OpsIn(i) : k < o

\* The result wants the register of the chain's source: always for a plain
\* copy, and for a computation if the source is not live over a back edge.
Hinted(i) == \/ OpsIn(i) = {}
             \/ Code[i].slot \notin carried

FuseAt(i) ==
  [load |-> i, store |-> LastStore(i), a |-> Code[i].slot, z |-> Target(i),
   inplace |-> \E g \in gens[Code[i].slot] : g.end = i]

FuseNext ==
  /\ pc = "fuse" /\ left # {}
  /\ \E i \in left :
       LET z == Target(i)
           a == Code[i].slot
           distinct == Fusible(i) /\ z # a
           extends == distinct /\ first[z] > i
       IN /\ \A j \in left : i <= j
          /\ left' = left \ {i}
          /\ fuses' = IF Fusible(i) THEN fuses \cup {FuseAt(i)} ELSE fuses
          /\ hints' = IF distinct /\ Hinted(i) THEN Append(hints, <<z, a>>) ELSE hints
          /\ first' = IF extends THEN [first EXCEPT ![z] = i] ELSE first
          /\ early' = IF extends THEN early \cup {z} ELSE early
  /\ UNCHANGED <<prog, pc, at, bUse, bDef, liveIn, liveOut, changed, bi, live, last, crosses,
                 gens, carried, depth>>

\* The extended ranges get their generations anew.
EndFuses ==
  /\ pc = "fuse" /\ left = {}
  /\ gens' = [s \in prog.slots |-> GensOfSlot(s, first[s])]
  /\ pc' = "done"
  /\ UNCHANGED <<prog, at, bUse, bDef, liveIn, liveOut, changed, bi, left, live, first, last,
                 crosses, carried, depth, fuses, hints, early>>

Next == \/ IndexBlocks \/ VisitBlock \/ NextSweep \/ WalkInst \/ WalkNext \/ Finish
        \/ FuseNext \/ EndFuses

Spec == Init /\ [][Next]_vars

-----------------------------------------------------------------------------
(* The ranges handed to the core.                                          *)

Promotable(s) == /\ Defs(s) # {}
                 /\ \A i \in Uses(s) : Code[i].op # "addr"
                 /\ last[s] > first[s]

\* The instruction at `first` defines some slot, or a fuse moved the range there.
StartsAtDef(s) == \/ s \in early
                  \/ Defs(s) # {} /\ first[s] \in Positions /\ IsDef(first[s])

LoopDepth(i) == IF at[i] \in Blocks THEN depth[at[i]] ELSE 0
UseWeight(i) == 10 * 2 ^ (IF LoopDepth(i) > 6 THEN 6 ELSE LoopDepth(i))
SumOver(I) == Cardinality(UNION {{i} \X (1 .. UseWeight(i)) : i \in I})
SpillWeight(s) == (IF s \in carried THEN 16 ELSE 1) * SumOver(Uses(s))

RangeOf(s) ==
  [cls |-> 1, weight |-> SpillWeight(s), crosses |-> s \in crosses,
   first |-> first[s], last |-> last[s], def |-> StartsAtDef(s), gens |-> gens[s]]

Problem == [vreg |-> [s \in {t \in prog.slots : Promotable(t)} |-> RangeOf(s)],
            class |-> <<Bank>>, moves |-> hints, flip |-> FALSE]

-----------------------------------------------------------------------------
(* Properties.  What is really live is a matter of paths: a slot is live    *)
(* after position i if some path from i reads it before writing it.        *)

After == [i \in Positions |-> NextOf(i)]

LiveAfter(s) ==
  LET next == After
      uses == Uses(s)
      defs == Defs(s)
      Grown(R) == {i \in Positions : next[i] \cap (uses \cup (R \ defs)) # {}}
      L[k \in Nat] == IF k = 0 THEN {} ELSE Grown(L[k - 1])
  IN  L[Cardinality(Positions)]

LastOf(b) == CHOOSE i \in Insts(b) : \A j \in Insts(b) : j <= i

\* The fixpoint is the truth: a slot is in live_out of a block exactly if some
\* path from the block's end reads it before writing it, loops included.
DataflowExact ==
  pc = "done" => \A b \in Blocks, s \in prog.slots :
                    s \in liveOut[b] <=> LastOf(b) \in LiveAfter(s)

\* Two values that are live together somewhere, or of which one is written
\* where the other is live, have hulls that occupy a common segment, so the
\* selection and the sweep never give them one register.
HullsSeparate ==
  pc = "done" => LET ranges == Problem.vreg IN
    \A s, t \in DOMAIN ranges :
      (s # t /\ (LiveAfter(s) \cup Defs(s)) \cap LiveAfter(t) # {})
        => Span(ranges[s]) \cap Span(ranges[t]) # {}

\* A slot is marked as crossing a call exactly if a call returns into its life.
CrossesExact ==
  pc = "done" => \A s \in prog.slots :
    s \in crosses <=> \E i \in LiveAfter(s) : Code[i].op = "call"

\* The ranges handed on: hulls that keep interfering slots apart, and exact marks
\* of the ranges a call clobbers.
RangesExact == HullsSeparate /\ CrossesExact

\* What the allocator core assumes of a problem holds of the ranges analyze()
\* produces: starts_at_def depends on the position alone, generations lie in
\* the hull and none ends at a label where another range begins.
ContractKept == pc = "done" => IsProblem(Problem)

\* ralloc.h:78 "exact disjoint sub-intervals" and x64_ra.cpp:65-70 ("exact
\* liveness ... two slots may share a register iff their gens never
\* overlap"): wherever a slot is live, one of its generations covers it.
\* (Does not hold: README, "Disagreements".)
GensExact ==
  pc = "done" => \A s \in DOMAIN Problem.vreg : \A i \in LiveAfter(s) :
    \E g \in gens[s] : g.start <= i /\ i <= g.end

\* x64_ra.cpp:983-984 "loop-carried = live across a real backedge".
\* (Does not hold: README, "Disagreements".)
LoopCarriedExact ==
  pc = "done" => \A s \in carried : \E e \in BackEdges : s \in liveIn[e[2]]
=============================================================================
