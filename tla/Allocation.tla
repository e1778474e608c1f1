----------------------------- MODULE Allocation -----------------------------
(***************************************************************************)
(* The whole of Allocator::run for one function of the x86-64 target,      *)
(* jules/src/targets/x86_64/x64_ra.cpp, after its pair folding: the ranges *)
(* and hints that SlotLiveness finds are the problem that Ralloc solves;   *)
(* every slot that keeps a register has its memory operands replaced by it *)
(* and the accumulator chains move into their results' registers (solve    *)
(* and rewrite); and the function then executes over the block graph.      *)
(*                                                                         *)
(* The execution follows values, not bit patterns: a register or a stack   *)
(* slot holds the set of slots whose present value it contains.  The other *)
(* peepholes of rewrite and the frame layout are left out.                 *)
(***************************************************************************)
EXTENDS SlotLiveness

CONSTANTS NoReg, MaxRounds

ASSUME NoRegAssumption == NoReg \notin Nat
ASSUME MaxRoundsAssumption == MaxRounds \in Nat \ {0}

VARIABLES p, rpc, ci, selA, selB, rej, todo, slot, asg, round, mi, any,  \* Ralloc
          fused,   \* the fuses that were applied
          ip,      \* the instruction to execute, or Halt
          holds    \* per register and stack slot: the slots it has the value of

R == INSTANCE Ralloc WITH pc <- rpc, Problems <- {}

solver == <<p, rpc, ci, selA, selB, rej, todo, slot, asg, round, mi, any>>
machine == <<fused, ip, holds>>
allVars == <<vars, solver, machine>>

Halt == -1
Registers == {Bank[i].reg : i \in DOMAIN Bank}
CallerSaved == {Bank[i].reg : i \in {j \in DOMAIN Bank : ~Bank[j].callee}}
Acc == 0
\* The stack slot of s, in the frame below the registers' numbers.
Stack(s) == -s

AllocInit ==
  /\ Init
  /\ p = [vreg |-> << >>, class |-> << >>, moves |-> << >>, flip |-> FALSE]
  /\ rpc = "idle" /\ ci = 1
  /\ selA = {} /\ selB = {} /\ rej = {} /\ todo = {}
  /\ slot = << >> /\ asg = << >> /\ round = 0 /\ mi = 1 /\ any = FALSE
  /\ fused = {} /\ ip = 0
  /\ holds = [l \in Registers \cup {Acc} \cup {Stack(s) : s \in prog.slots} |-> {}]

Analyze == Next /\ UNCHANGED <<solver, machine>>

\* build_problem: with or without a preference for callee-saved registers.
Pose ==
  /\ pc = "done" /\ rpc = "idle"
  /\ \E size \in BOOLEAN : p' = [Problem EXCEPT !.flip = size]
  /\ asg' = [v \in DOMAIN p'.vreg |-> NoReg]
  /\ rpc' = "selectA" /\ pc' = "posed"
  /\ UNCHANGED <<prog, at, bUse, bDef, liveIn, liveOut, changed, bi, left, live, first, last,
                 crosses, gens, carried, depth, fuses, hints, early>>
  /\ UNCHANGED <<ci, selA, selB, rej, todo, slot, round, mi, any, machine>>

Solve == rpc # "done" /\ R!Next /\ UNCHANGED <<vars, machine>>

-----------------------------------------------------------------------------
(* rewrite: a promoted slot's loads and stores name its register, and a    *)
(* fuse whose result is promoted computes in the result's register.        *)

Promoted(s) == s \in DOMAIN asg /\ asg[s] # NoReg
Home(s) == IF Promoted(s) THEN asg[s] ELSE Stack(s)

SameHome(f) == Promoted(f.a) /\ asg[f.a] = asg[f.z]
Window(f) == (f.load + 1) .. (f.store - 1)

\* An operand of the chain may sit in the result's register only if the chain
\* works in place and reads it before it first computes.
OperandsClear(f) ==
  \A k \in Window(f) :
    (Code[k].op = "gap" /\ Promoted(Code[k].slot) /\ asg[Code[k].slot] = asg[f.z])
      => SameHome(f) /\ \A o \in Window(f) : Code[o].op = "op" => k < o

Applies(f) ==
  /\ Promoted(f.z)
  /\ OperandsClear(f)
  /\ (SameHome(f) /\ \E o \in Window(f) : Code[o].op = "op") => f.inplace

Rewrite == /\ rpc = "done" /\ rpc' = "run"
           /\ fused' = {f \in fuses : Applies(f)}
           /\ UNCHANGED <<vars, p, ci, selA, selB, rej, todo, slot, asg, round, mi, any, ip, holds>>

-----------------------------------------------------------------------------
(* Execution of the rewritten function.                                    *)

\* Where the chain that instruction i belongs to computes.
Seat(i) == IF \E f \in fused : f.load <= i /\ i <= f.store
           THEN asg[(CHOOSE f \in fused : f.load <= i /\ i <= f.store).z]
           ELSE Acc

Running(op) == rpc = "run" /\ ip # Halt /\ Code[ip].op = op
Here == Code[ip].slot

\* Any path of the block graph may be taken.
Goto == /\ IF NextOf(ip) = {} THEN ip' = Halt ELSE ip' \in NextOf(ip)
        /\ UNCHANGED <<vars, solver, fused>>

Load == /\ Running("use") /\ Goto
        /\ holds' = [holds EXCEPT ![Seat(ip)] = holds[Home(Here)]]

Compute == /\ Running("op") /\ Goto
           /\ holds' = [holds EXCEPT ![Seat(ip)] = {}]

\* All places that have the value have the value of the slot from now on.
Store == /\ Running("def") /\ Goto
         /\ LET value == holds[Seat(ip)]
                Same(l) == l \in {Seat(ip), Home(Here)} \/ (value # {} /\ holds[l] = value)
            IN holds' = [l \in DOMAIN holds |->
                           IF Same(l) THEN value \cup {Here} ELSE holds[l] \ {Here}]

StoreConstant ==
  /\ Running("set") /\ Goto
  /\ holds' = [l \in DOMAIN holds |-> IF l = Home(Here) THEN {Here} ELSE holds[l] \ {Here}]

Call == /\ Running("call") /\ Goto
        /\ holds' = [l \in DOMAIN holds |-> IF l \in CallerSaved \cup {Acc} THEN {} ELSE holds[l]]

PassOver == /\ Running("gap") \/ Running("addr") \/ Running("label") \/ Running("jmp")
            /\ Goto
            /\ UNCHANGED holds

Stopped == rpc = "run" /\ ip = Halt /\ UNCHANGED allVars

Execute == Load \/ Compute \/ Store \/ StoreConstant \/ Call \/ PassOver

AllocNext == Analyze \/ Pose \/ Solve \/ Rewrite \/ Execute \/ Stopped

AllocSpec == AllocInit /\ [][AllocNext]_allVars

-----------------------------------------------------------------------------
(* Properties.                                                             *)

\* The next instruction finds in the place of the slot it reads what was last
\* written to the slot.
ReadsItsOwn ==
  (rpc = "run" /\ ip # Halt /\ IsUse(ip) /\ Code[ip].op # "addr")
     => Here \in holds[Home(Here)]

\* Where a slot is live but in none of its generations.
Gaps(s) == {i \in LiveAfter(s) : \A g \in p.vreg[s].gens : i < g.start \/ g.end < i}

\* Two slots share a register, and one of them is live or written in a gap of the
\* other.
SharedOverGap ==
  \E v, w \in DOMAIN asg : /\ v # w /\ Promoted(v) /\ asg[v] = Home(w)
                          /\ Gaps(v) \cap (LiveAfter(w) \cup Defs(w)) # {}

\* Allocation preserves the function: whatever ranges, hints and registers are
\* chosen, over every path, calls included, each read of a slot finds its value,
\* unless a generation has a gap that the sharing of a register falls into.
ReadsKept == ReadsItsOwn \/ SharedOverGap

\* x64_ra.cpp:65-70 "two slots may share a register iff their gens never
\* overlap", and :617-620 "sharing A's register is dynamically sound even for
\* loop-carried A": so every read of a slot finds its value.
SharingIsSound == ReadsItsOwn
=============================================================================
