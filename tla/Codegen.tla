------------------------------ MODULE Codegen -------------------------------
(* Code generation for x86-64, pass by pass: selection and emission, the      *)
(* register allocator, the clean-up behind it (pass 86), branch fusion and    *)
(* peepholes (pass 87), loop layout (pass 88). Every pass may rewrite the     *)
(* code in any way that leaves its runs alone, so the one question is the     *)
(* same after each of them: does the code still show, for every input, what   *)
(* the function shows?                                                        *)
EXTENDS Emit, Peephole

CONSTANTS Functions, \* the functions to compile
          Inputs     \* the words tried as arguments

VARIABLES f,     \* the function
          stage, \* the pass that ran last
          code,  \* what it left
          frame  \* the place in the frame of each slot in memory

vars == <<f, stage, code, frame>>

Init ==
  /\ f \in Functions
  /\ stage = "linear" /\ code = <<>> /\ frame = <<>>

Pass(from, to) == stage = from /\ stage' = to /\ UNCHANGED f

\* Passes 83 to 85: every slot has a place of its own until the allocator runs.
Select ==
  /\ Pass("linear", "selected")
  /\ code' = Emitted(f)
  /\ frame' = [n \in DOMAIN f.node |-> n]
Allocate ==
  /\ Pass("selected", "allocated")
  /\ \E folded \in {PairFold(code)} : \E home \in Assignments(folded) :
       /\ code' = Rewritten(folded, home)
       /\ frame' = Colored(folded, code', home)
CleanUp == Pass("allocated", "cleaned") /\ code' = CleanedUp(code) /\ UNCHANGED frame
Peephole ==
  /\ Pass("cleaned", "peepholed")
  /\ \E fused \in {BranchesFused(code)} : code' = Peepholed(fused)
  /\ UNCHANGED frame
LayOut == Pass("peepholed", "laid out") /\ code' = LaidOut(code) /\ UNCHANGED frame
Done == stage = "laid out" /\ UNCHANGED vars

Next == Select \/ Allocate \/ CleanUp \/ Peephole \/ LayOut \/ Done
Spec == Init /\ [][Next]_vars

(***************************************************************************)
(* Properties.                                                             *)
(***************************************************************************)
\* What is returned, and the registers the arguments arrive in.
Returned(g) == g.blocks[CHOOSE b \in DOMAIN g.blocks : g.blocks[b].succs = <<>>].arg
Arriving(g, args) ==
  [r \in {RegisterOf(g.params, k) : k \in DOMAIN g.params} |->
     Cut(args[CHOOSE k \in DOMAIN g.params : RegisterOf(g.params, k) = r], 8)]
Shows(g, c, args, junk) ==
  LET n == Returned(g) size == IF n = 0 THEN 0 ELSE SizeOf(TypeOf(g, n)) IN
  Run(c, Cardinality(DOMAIN g.node), Arriving(g, args), junk, n # 0 /\ IsFp(TypeOf(g, n)), size)
SameRuns(g, c) ==
  \A args \in [DOMAIN g.params -> Inputs] :
    \E meant \in {Meaning(g, args)} : \A junk \in BOOLEAN : Shows(g, c, args, junk) = meant

\* The code as it runs: a slot is its place in the frame.
InFrame(o) == IF IsSlot(o) THEN [o EXCEPT !.n = frame[o.n]] ELSE o
Framed == [i \in DOMAIN code |-> [code[i] EXCEPT !.a = InFrame(@), !.b = InFrame(@)]]
Exact == SameRuns(f, Framed)

\* The emitted code stores, calls and returns what the function does, faults
\* where it does, whatever junk the machine starts with: the plan of the
\* selector, the scratch registers, the constants pooled across blocks (with no
\* call behind their load: README, "Disagreements") and the fused branches never
\* lose or mix up a value.
SelectionExact == stage = "selected" => Exact
\* So does the code the allocator leaves, for each assignment of registers:
\* folding, forwarding and chains read no value before it is there, and
\* slots that share a register or a place are never alive together.
AllocationExact == stage = "allocated" => Exact
\* And after the passes that clean up and shorten it: every move, test and
\* truth value they drop was read by nobody on any path.
PeepholesExact == stage \in {"cleaned", "peepholed"} => Exact
\* And after its loops are laid out: every path still runs through the guard,
\* the body and the exit in the same order.
LayoutExact == stage = "laid out" => Exact
=============================================================================
