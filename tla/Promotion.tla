----------------------------- MODULE Promotion -----------------------------
(***************************************************************************)
(* From memory slots to values and back to slots: store-to-load forwarding *)
(* (pass 22), scalar replacement (26), which replaces the loads of an      *)
(* allocation that does not escape by values and value phis, the collapse  *)
(* of trivial phis (7, in the cleanup sweep), and the linearizer (83),     *)
(* which turns each value phi into one copy at the end of each predecessor *)
(* block, to be executed one after another.                                *)
(***************************************************************************)
EXTENDS MemoryGraph

CONSTANTS
  Programs     \* the programs: [shape, body], see Build

VARIABLES
  prog,        \* the source program
  g,           \* its graph
  stage,       \* "forward", "promote", "simplify", "linear"
  at,          \* the cursor of the running pass
  copies,      \* per block, its phi copies in the order they are emitted
  want,        \* what the program makes visible, per path
  chained      \* was a load replaced by a load that had just been killed

vars == <<prog, g, stage, at, copies, want, chained>>

-----------------------------------------------------------------------------
(* Three integers, declared in this order, and a pointer to an allocation. *)

Slot == [u |-> 1, v |-> 3, w |-> 5]
Heap == 7
P == 8
Slots == {Slot.u, Slot.v, Slot.w, P}

Declared ==
  LET s0 == [g |-> <<>>, mem |-> 0, blk |-> 0]
      Integer(s) == LET a == EmitAlloc(s) IN EmitStore(a, a.mem, FALSE, 0, 0)
      heap == EmitAlloc(EmitAlloc(Integer(Integer(Integer(s0)))))
  IN  EmitStore(heap, P, FALSE, 0, Heap)

\* A statement is <<kind>> on the pointer or <<kind, variable, ...>>.
Names == DOMAIN Slot   \* the integers
Kinds ==
  ({"set", "inc", "use"} \X Names)
    \cup {<<"copy", z[1], z[2]>> : z \in Names \X Names}
    \cup {<<"*p=c">>, <<"use *p">>, <<"p=new">>, <<"f(p)">>}

ASSUME ProgramsAssumption ==
  \A p \in Programs : /\ p.shape \in {"line", "diamond", "loop"}
                      /\ p.body \in [1 .. 4 -> Seq(Kinds)]

Statement(s, k) ==
  LET lp == EmitLoad(s, P, FALSE, 0)
      ptr == Len(lp.g)
      Read1(x) == EmitLoad(s, Slot[x], FALSE, 0)
  IN CASE k[1] = "set"  -> EmitStore(s, Slot[k[2]], FALSE, 0, 0)
       [] k[1] = "copy" -> LET l == Read1(k[3]) IN EmitStore(l, Slot[k[2]], FALSE, 0, Len(l.g))
       [] k[1] = "inc"  -> LET l == Read1(k[2])
                               i == Emit(l, [Node("Inc", 0) EXCEPT !.val = Len(l.g)])
                           IN  EmitStore(i, Slot[k[2]], FALSE, 0, Len(i.g))
       [] k[1] = "use"  -> EmitUse(Read1(k[2]))
       [] k[1] = "*p=c" -> EmitStore(lp, ptr, FALSE, 0, 0)
       [] k[1] = "use *p" -> EmitUse(EmitLoad(lp, ptr, FALSE, 0))
       [] k[1] = "p=new" -> LET a == EmitAlloc(s) IN EmitStore(a, P, FALSE, 0, a.mem)
       [] k[1] = "f(p)" -> EmitEffect(lp, [Node("Call", 0) EXCEPT !.val = ptr])

Build(p) == EmitEffect(Shape(Statement, Declared, p.shape, p.body), Node("Return", 0)).g

-----------------------------------------------------------------------------
(* What a graph does, with its phis taken at once on the way into a block, *)
(* or by copies made one after another at the end of the block before.     *)

Values(gr) == SelectSeq([i \in DOMAIN gr |-> i], LAMBDA i : gr[i].op = "Value")

\* The predecessors of the one region that has two: a loop's header, an if's end.
Preds(sh) == IF sh = "loop" THEN <<0, 2>> ELSE <<1, 2>>

JoinsFrom(sh, b) == sh # "line" /\ b \in ToSet(Preds(sh))
Place(sh, b) == CHOOSE j \in 1 .. 2 : Preds(sh)[j] = b

AtOnce(gr, sh, e, b) ==
  IF ~JoinsFrom(sh, b) THEN e
  ELSE [e EXCEPT !.env = [i \in DOMAIN gr |-> IF gr[i].op = "Value" THEN ValueOf(e, gr[i].ins[Place(sh, b)])
                                             ELSE @[i]]]

RunWith(Leave(_, _), gr, path) ==
  LET e0 == [env |-> [i \in DOMAIN gr |-> 0], mem |-> << >>, seen |-> <<>>,
             bad |-> FALSE, direct |-> {}, through |-> {}]
      Body(e, b) == FoldLeft(LAMBDA acc, i : Execute(gr, acc, i), e, Order(gr, <<b>>))
      After[k \in 0 .. Len(path)] == IF k = 0 THEN e0 ELSE Leave(Body(After[k - 1], path[k]), path[k])
  IN  After[Len(path)]

Runs(gr, p) ==
  LET Leave(e, b) == AtOnce(gr, p.shape, e, b) IN [w \in Paths(p.shape) |-> RunWith(Leave, gr, w)]

Visible(runs) == [w \in DOMAIN runs |-> runs[w].seen]
Meaningful(runs) == \A w \in DOMAIN runs : ~runs[w].bad

-----------------------------------------------------------------------------
(* Pass 22, whole.                                                         *)

Forwarded(gr) ==
  LET Visit(h, l) ==
        IF h[l].op # "Load" THEN h
        ELSE LET def == ReachingStore(h, l) IN
             IF def = 0 \/ h[def].val = l THEN h ELSE Kill(ReplaceAllUses(h, l, h[def].val), l)
      After[k \in 0 .. Len(gr)] == IF k = 0 THEN gr ELSE Visit(After[k - 1], k)
  IN  After[Len(gr)]

-----------------------------------------------------------------------------
(* Pass 26, for one allocation.                                            *)

Zero == -1000          \* what an allocation holds before it is written
NoNode == 0            \* what a version that is no version of memory holds
Live(gr) == {i \in DOMAIN gr : gr[i].op # "Dead"}
Loads(gr, a) == {i \in DOMAIN gr : gr[i].op = "Load" /\ gr[i].addr = a}
Stores(gr, a) == {i \in DOMAIN gr : gr[i].op = "Store" /\ gr[i].addr = a}

Promotable_AnyArgument(gr, a) ==
  \A u \in Live(gr) :
     LET n == gr[u] IN
       /\ n.op \in {"Load", "Store"} /\ n.val = a => n.mem = a \/ n.addr = a
       /\ n.op \in {"Use", "Return", "Inc"} => n.val # a /\ n.mem # a
       /\ n.op = "Value" => a \notin ToSet(n.ins)

\* A load or a store may take the allocation as its address or as its memory
\* version, whatever it stores; a call, a phi or an allocation only as its version.
Promotable(gr, a) ==
  \A u \in Live(gr) :
     LET n == gr[u] IN
       /\ n.op \in {"Load", "Store"} /\ n.val = a => n.mem = a \/ n.addr = a
       /\ n.op = "Call" => n.val # a
       /\ n.op \in {"Use", "Return", "Inc"} => n.val # a /\ n.mem # a
       /\ n.op = "Value" => a \notin ToSet(n.ins)

\* What each memory version holds for the allocation; a memory phi holds a value
\* phi of its own, the next node of the graph (these graphs have one memory phi).
Holds(gr, a) ==
  LET V[m \in 0 .. Len(gr)] ==
        IF m = 0 \/ m = a THEN Zero
        ELSE IF gr[m].op = "Store" /\ gr[m].addr = a THEN gr[m].val
        ELSE CASE gr[m].op = "Phi" -> Len(gr) + 1
               [] gr[m].op \in {"Alloc", "Store", "Call"} -> V[gr[m].mem]
               [] OTHER -> NoNode
  IN  V

ValueFor(gr, a, l) == Holds(gr, a)[gr[l].mem]

\* The value phi is made when the first load's walk meets the memory phi.
MeetsPhi(gr, a) == \E l \in Loads(gr, a) : ValueFor(gr, a, l) = Len(gr) + 1
Merging(gr) == CHOOSE i \in Live(gr) : gr[i].op = "Phi"
PhiInputs(gr, a) == [k \in DOMAIN gr[Merging(gr)].ins |-> Holds(gr, a)[gr[Merging(gr)].ins[k]]]
WithPhi(gr, a) ==
  IF MeetsPhi(gr, a) THEN Append(gr, [Node("Value", gr[Merging(gr)].blk) EXCEPT !.ins = PhiInputs(gr, a)])
  ELSE gr

\* Every load has a value, and not itself; else the allocation stays.
Resolvable(gr, a) ==
  /\ \A l \in Loads(gr, a) : ValueFor(gr, a, l) \notin {NoNode, l}
  /\ MeetsPhi(gr, a) => \A k \in DOMAIN PhiInputs(gr, a) : PhiInputs(gr, a)[k] # NoNode

\* The loads become their values, in the order of the uses; then the stores and the
\* allocation itself leave the memory chain.
LoadsReplaced(gr, a) ==
  LET After[k \in 0 .. Len(gr)] ==
        IF k = 0 THEN WithPhi(gr, a)
        ELSE IF k \in Loads(gr, a) THEN Kill(ReplaceAllUses(After[k - 1], k, ValueFor(gr, a, k)), k)
        ELSE After[k - 1]
  IN  After[Len(gr)]

Bypass(h, i) == Kill(ReplaceUsesAsMemory(h, i, h[i].mem), i)

Promoted(gr, a) ==
  LET After[k \in 0 .. Len(gr)] ==
        IF k = 0 THEN LoadsReplaced(gr, a)
        ELSE IF k \in Stores(gr, a) THEN Bypass(After[k - 1], k)
        ELSE After[k - 1]
  IN  Bypass(After[Len(gr)], a)

\* Does a replacement name a load that an earlier one has killed.
NamesKilled(gr, a) == \E j, k \in Loads(gr, a) : j < k /\ ValueFor(gr, a, k) = j

-----------------------------------------------------------------------------
(* Phi simplification.                                                     *)

Inputs(gr, i) == ToSet(gr[i].ins) \ {i}
Trivial(gr) == {i \in Live(gr) : gr[i].op \in {"Phi", "Value"} /\ \E v \in Inputs(gr, i) : Inputs(gr, i) = {v}}

-----------------------------------------------------------------------------
Init ==
  /\ prog \in Programs
  /\ g = Build(prog)
  /\ \E runs \in {Runs(g, prog)} : Meaningful(runs) /\ want = Visible(runs)
  /\ stage = "forward" /\ at = 1 /\ chained = FALSE
  /\ copies = << >>

Forward ==
  /\ stage = "forward" /\ stage' = "promote"
  /\ g' = Forwarded(g)
  /\ UNCHANGED <<prog, at, copies, want, chained>>

Candidates_PastCursor == {a \in Allocs(g) : a > at /\ Promotable(g, a)}
Candidates == {a \in Allocs(g) : a >= at /\ Promotable(g, a)}
Least(S) == CHOOSE i \in S : \A j \in S : i <= j

\* The pass visits the allocations in order, those that an earlier promotion made
\* promotable included. That it never has to give one up is proved (PromotionProofs).
Promote ==
  /\ stage = "promote" /\ Candidates # {}
  /\ LET a == Least(Candidates) IN
       /\ g' = IF Resolvable(g, a) THEN Promoted(g, a) ELSE g
       /\ chained' = (chained \/ (Resolvable(g, a) /\ NamesKilled(g, a)))
       /\ at' = a + 1
  /\ UNCHANGED <<prog, stage, copies, want>>

EndPromotion ==
  /\ stage = "promote" /\ Candidates = {}
  /\ stage' = "simplify"
  /\ UNCHANGED <<prog, g, at, copies, want, chained>>

Simplify ==
  /\ stage = "simplify" /\ Trivial(g) # {}
  /\ LET i == Least(Trivial(g)) IN
       g' = Kill(ReplaceAllUses(g, i, CHOOSE v \in Inputs(g, i) : TRUE), i)
  /\ UNCHANGED <<prog, stage, at, copies, want, chained>>

\* One copy per value phi at the end of every predecessor of its region, in the order
\* of the region's uses.
CopiesOf(gr, sh, b) ==
  LET vs == Values(gr)
  IN  IF ~JoinsFrom(sh, b) THEN <<>>
      ELSE [i \in 1 .. Len(vs) |-> [dst |-> vs[i], src |-> gr[vs[i]].ins[Place(sh, b)]]]

Linearize ==
  /\ stage = "simplify" /\ Trivial(g) = {}
  /\ stage' = "linear"
  /\ copies' = [b \in 0 .. 3 |-> CopiesOf(g, prog.shape, b)]
  /\ UNCHANGED <<prog, g, at, want, chained>>

Next == Forward \/ Promote \/ EndPromotion \/ Simplify \/ Linearize

Spec == Init /\ [][Next]_vars

-----------------------------------------------------------------------------
(* Promotion is invisible: with phis taken at once, the graph shows what   *)
(* the program showed, whatever has been forwarded, promoted and collapsed. *)
(* (Where a load was replaced by a load killed just before, it is not.)    *)
PromotionExact == ~chained => Visible(Runs(g, prog)) = want

(* Every variable of the program leaves memory: nothing the earlier        *)
(* passes or the earlier promotions do makes a slot's pointer escape.      *)
SlotsPromoted == stage \in {"simplify", "linear"} => \A a \in Slots : g[a].op = "Dead"

(* The linearizer's comment: the copies of one edge never form a cycle.    *)
NoSwapCycles ==
  \A b \in DOMAIN copies : \A c, d \in ToSet(copies[b]) :
     ~(c # d /\ c.src = d.dst /\ d.src = c.dst)

(* The pass table's promise for scalar replacement, and the verifier's: a  *)
(* live node never takes its value from a killed one. (Does not hold:      *)
(* README, "Disagreements".)                                               *)
NoDeadValues ==
  \A i \in Live(g) : \A v \in {g[i].val} \cup Inputs(g, i) : v > 0 => g[v].op # "Dead"
=============================================================================
