----------------------------- MODULE SonMemory -----------------------------
(***************************************************************************)
(* The memory optimisations of one function's sea-of-nodes graph: the      *)
(* allocation-site alias analysis, the memory-chain walks, redundant load  *)
(* elimination (pass 21), store-to-load forwarding (22), dead store        *)
(* elimination (23) and the chain repair (30), in the main run and in the  *)
(* cleanup sweeps after it, on the graph the builder makes of a program.   *)
(***************************************************************************)
EXTENDS MemoryGraph

CONSTANTS
  Programs,    \* the programs: [shape, body, ret], see Build
  MaxDepth,    \* depth of the phi recursion of pass 21 (64 in the code)
  MaxRounds,   \* rounds of dead store elimination (8 in the code)
  MaxSweeps    \* rounds of the cleanup sweep (at most 3 in the code)

Kinds == {"x=c", "use x", "*p=c", "p[i]=c", "p[1]=c", "use *p", "use p[i]", "use p[1]", "use *q",
          "p=q", "p=new", "f(p)"}

ASSUME BoundsAssumption == MaxSweeps \in Nat /\ {MaxDepth, MaxRounds} \subseteq Nat \ {0}
ASSUME ProgramsAssumption ==
  \A p \in Programs : /\ p.shape \in {"line", "diamond", "loop"}
                      /\ p.body \in [1 .. 4 -> Seq(Kinds)]
                      /\ p.ret \in BOOLEAN

VARIABLES
  prog,        \* the source program
  g,           \* its graph
  locals,      \* the allocations the cached alias analysis holds to be local
  run, at, round,   \* the run of a pass that goes on, its cursor and its round
  dirty,       \* has this round of pass 23 removed a store
  want,        \* what the program the builder was given makes visible, per path
  apart        \* no cell was ever met by a resolved and by an unresolved address

vars == <<prog, g, locals, run, at, round, dirty, want, apart>>

Ids == 1 .. Len(g)

-----------------------------------------------------------------------------
(* The builder.  Variables live in memory slots; an expression through a   *)
(* pointer variable loads the slot first.                                  *)

P == 2    \* the slot of the pointer p, which starts out at the allocation 1
Q == 5    \* the slot of the pointer q, which starts out at the allocation 4
X == 7    \* the slot of the integer x

\* A literal index folds into the address when it is 0; any other index adds.
Statement(s, k) ==
  LET lp == EmitLoad(s, P, FALSE, 0) IN
  LET ptr == Len(lp.g) IN
  CASE k = "x=c"     -> EmitStore(s, X, FALSE, 0, 0)
    [] k = "use x"   -> EmitUse(EmitLoad(s, X, FALSE, 0))
    [] k = "*p=c"    -> EmitStore(lp, ptr, FALSE, 0, 0)
    [] k = "p[i]=c"  -> EmitStore(lp, ptr, TRUE, 0, 0)
    [] k = "p[1]=c"  -> EmitStore(lp, ptr, TRUE, 1, 0)
    [] k = "use *p"  -> EmitUse(EmitLoad(lp, ptr, FALSE, 0))
    [] k = "use p[i]" -> EmitUse(EmitLoad(lp, ptr, TRUE, 0))
    [] k = "use p[1]" -> EmitUse(EmitLoad(lp, ptr, TRUE, 1))
    [] k = "use *q"  -> LET lq == EmitLoad(s, Q, FALSE, 0) IN
                        EmitUse(EmitLoad(lq, Len(lq.g), FALSE, 0))
    [] k = "p=q"     -> LET lq == EmitLoad(s, Q, FALSE, 0) IN
                        EmitStore(lq, P, FALSE, 0, Len(lq.g))
    [] k = "p=new"   -> LET a == EmitAlloc(s) IN EmitStore(a, P, FALSE, 0, a.mem)
    [] k = "f(p)"    -> EmitEffect(lp, [Node("Call", 0) EXCEPT !.val = ptr])

Prefix ==
  LET s0 == [g |-> <<>>, mem |-> 0, blk |-> 0]
      sp == EmitAlloc(EmitAlloc(s0))
      sq == EmitAlloc(EmitAlloc(EmitStore(sp, P, FALSE, 0, 1)))
  IN  EmitAlloc(EmitStore(sq, Q, FALSE, 0, 4))

\* The function returns the pointer p, or nothing.
Build(p) ==
  LET s == Shape(Statement, Prefix, p.shape, p.body)
      r == IF p.ret THEN EmitLoad(s, P, FALSE, 0) ELSE s
  IN  EmitEffect(r, [Node("Return", 0) EXCEPT !.val = IF p.ret THEN Len(r.g) ELSE 0]).g

-----------------------------------------------------------------------------
(* What a graph does: memory and node values along a path, and what a user *)
(* of the program sees (uses, calls, what the returned pointer leads to).  *)

Run(gr, path) ==
  LET order == Order(gr, path)
      After[k \in 0 .. Len(order)] ==
        IF k = 0 THEN [env |-> [i \in DOMAIN gr |-> 0], mem |-> << >>, seen |-> <<>>,
                       bad |-> FALSE, direct |-> {}, through |-> {}]
        ELSE Execute(gr, After[k - 1], order[k])
  IN  After[Len(order)]
Runs(gr) == [w \in Paths(prog.shape) |-> Run(gr, w)]

\* Programs that read what nothing wrote, or follow what is no pointer, mean nothing.
Meaningful(runs) == \A w \in DOMAIN runs : ~runs[w].bad
Apart(runs) == \A w \in DOMAIN runs : runs[w].direct \cap runs[w].through = {}
Visible(runs) == [w \in DOMAIN runs |-> runs[w].seen]

-----------------------------------------------------------------------------
(* The analyses.                                                           *)

\* Is every use of the pointer an address or a memory version.  A node that takes
\* it as its memory version passes, whatever else it takes it as.
AddressOnly(gr, a) ==
  \A u \in {i \in DOMAIN gr : gr[i].op # "Dead"} :
     LET n == gr[u] IN
       /\ n.val = a => /\ n.op \in {"Store", "Call"}
                       /\ n.mem = a \/ (n.op = "Store" /\ n.addr = a /\ ~n.added)
       /\ n.mem = a => n.op # "Return"

Locals(gr) == {a \in Allocs(gr) : AddressOnly(gr, a)}

\* Is the way from a version back to another one free of stores to the base and of calls.
ChainClear(gr, from, target, base) ==
  LET Clear[m \in 0 .. Len(gr), depth \in 0 .. MaxDepth + 1] ==
        \/ m = target /\ depth <= MaxDepth
        \/ /\ m # 0 /\ depth <= MaxDepth
           /\ CASE gr[m].op = "Store" -> BaseOf(gr, gr[m]) # base /\ Clear[gr[m].mem, depth]
                [] gr[m].op = "Alloc" -> Clear[gr[m].mem, depth]
                [] gr[m].op = "Phi" -> \A i \in ToSet(gr[m].ins) : Clear[i, depth + 1]
                [] OTHER -> FALSE
  IN  Clear[from, 0]

DominatingLoads(gr, l) ==
  {o \in 1 .. l - 1 : /\ gr[o].op = "Load"
                      /\ BaseOf(gr, gr[l]) # 0 /\ SameBase(gr, gr[o], gr[l])
                      /\ Dominates(gr[o].blk, gr[l].blk)
                      /\ ChainClear(gr, gr[l].mem, gr[o].mem, BaseOf(gr, gr[l]))}

TakesMemory(n, m) == IF n.op = "Phi" THEN m \in ToSet(n.ins)
                     ELSE n.mem = m /\ n.op \in {"Load", "Store", "Call", "Alloc", "Return"}

\* What the walk down from a store meets: the nodes that take its version, or one
\* that allocations and stores to other bases have made of it.
Downstream(gr, s) ==
  LET Passes(i) == gr[i].op = "Alloc" \/ (gr[i].op = "Store" /\ ~SameBase(gr, gr[i], gr[s]))
      Versions[k \in s .. Len(gr)] ==
        IF k = s THEN {s}
        ELSE LET before == Versions[k - 1] IN
             IF gr[k].mem \in before /\ Passes(k) THEN before \cup {k} ELSE before
      all == Versions[Len(gr)]
  IN  {i \in DOMAIN gr : \E m \in all : TakesMemory(gr[i], m)}

Overwritten_PastReturn(gr, s) ==
  \A u \in Downstream(gr, s) : /\ gr[u].op \notin {"Call", "Phi"}
                               /\ gr[u].op = "Load" => ~SameBase(gr, gr[u], gr[s])
Overwritten(gr, s) ==
  \A u \in Downstream(gr, s) : /\ gr[u].op \notin {"Call", "Return", "Phi"}
                               /\ gr[u].op = "Load" => ~SameBase(gr, gr[u], gr[s])

DeadStore(gr, loc, s) ==
  /\ BaseOf(gr, gr[s]) # 0
  /\ \/ /\ BaseOf(gr, gr[s]) \in loc
        /\ \A q \in DOMAIN gr : gr[q].op = "Load" => ~SameBase(gr, gr[q], gr[s])
     \/ Overwritten(gr, s)

-----------------------------------------------------------------------------
(* The chain repair.                                                       *)

LiveAncestor(gr, m) ==
  LET Follow[k \in 0 .. Len(gr)] == IF k # 0 /\ gr[k].op = "Dead" THEN Follow[gr[k].mem] ELSE k
  IN  Follow[m]

Repaired(gr) ==
  [i \in DOMAIN gr |->
     IF gr[i].op = "Dead" THEN gr[i]
     ELSE [gr[i] EXCEPT !.mem = LiveAncestor(gr, @),
                        !.ins = [k \in DOMAIN gr[i].ins |-> LiveAncestor(gr, gr[i].ins[k])]]]

-----------------------------------------------------------------------------
(* The passes.                                                             *)

\* Of these passes the cleanup sweep runs 30, then 23.
MainRun == <<21, 22, 23, 30>>
Schedule == MainRun \o [k \in 1 .. 2 * MaxSweeps |-> IF k % 2 = 1 THEN 30 ELSE 23]
Pass == Schedule[run]

Init ==
  /\ prog \in Programs
  /\ g = Build(prog)
  /\ locals = Locals(g)              \* pass 19 warms the analysis
  /\ run = 1 /\ at = 1 /\ round = 1 /\ dirty = FALSE
  /\ \E runs \in {Runs(g)} : /\ Meaningful(runs)
                            /\ want = Visible(runs)
                            /\ apart = Apart(runs)

Keep == UNCHANGED <<prog, want>>

Rewrite(h) == g' = h /\ apart' = (apart /\ Apart(Runs(h)))

\* The nodes from the cursor on that the running pass rewrites; it visits nodes in
\* order and leaves the others as they are.
Forwards(i) == LET def == ReachingStore(g, i) IN def # 0 /\ g[def].val # i
Hits ==
  {i \in at .. Len(g) :
     \/ Pass = 21 /\ g[i].op = "Load" /\ DominatingLoads(g, i) # {}
     \/ Pass = 22 /\ g[i].op = "Load" /\ Forwards(i)
     \/ Pass = 23 /\ g[i].op = "Store" /\ DeadStore(g, locals, i)}
Least(S) == CHOOSE i \in S : \A j \in S : i <= j

\* Pass 21: a load becomes the first earlier one that has read the same.
RedundantLoad ==
  /\ Pass = 21 /\ Hits # {}
  /\ LET l == Least(Hits) IN
       /\ Rewrite(Kill(ReplaceAllUses(g, l, Least(DominatingLoads(g, l))), l))
       /\ at' = l + 1
  /\ UNCHANGED <<locals, run, round, dirty>> /\ Keep

\* Pass 22: a load becomes the value stored.
ForwardStore ==
  /\ Pass = 22 /\ Hits # {}
  /\ LET l == Least(Hits) IN
       /\ Rewrite(Kill(ReplaceAllUses(g, l, g[ReachingStore(g, l)].val), l))
       /\ at' = l + 1
  /\ UNCHANGED <<locals, run, round, dirty>> /\ Keep

\* Pass 23: a dead store is taken out of the chain.
EliminateStore ==
  /\ Pass = 23 /\ Hits # {}
  /\ LET s == Least(Hits) IN
       /\ Rewrite(Kill(ReplaceUsesAsMemory(g, s, g[s].mem), s))
       /\ at' = s + 1
  /\ dirty' = TRUE
  /\ UNCHANGED <<locals, run, round>> /\ Keep

\* Pass 30, whole.
Repair ==
  /\ Pass = 30 /\ at = 1
  /\ Rewrite(Repaired(g))
  /\ at' = Len(g) + 1
  /\ UNCHANGED <<locals, run, round, dirty>> /\ Keep

NextStoreRound ==
  /\ Pass = 23 /\ Hits = {} /\ dirty /\ round < MaxRounds
  /\ round' = round + 1 /\ at' = 1 /\ dirty' = FALSE
  /\ UNCHANGED <<g, locals, run, apart>> /\ Keep

\* Pass 23 drops the alias analysis, so the next one that asks computes it anew.
NextPass ==
  /\ run < Len(Schedule)
  /\ IF Pass = 30 THEN at > Len(g) ELSE Hits = {}
  /\ ~(Pass = 23 /\ dirty /\ round < MaxRounds)
  /\ run' = run + 1 /\ at' = 1 /\ round' = 1 /\ dirty' = FALSE
  /\ locals' = IF Pass = 23 THEN Locals(g) ELSE locals
  /\ UNCHANGED <<g, apart>> /\ Keep

Next == RedundantLoad \/ ForwardStore \/ EliminateStore \/ Repair \/ NextStoreRound \/ NextPass

Spec == Init /\ [][Next]_vars

-----------------------------------------------------------------------------
SameResults == Visible(Runs(g)) = want

(* As long as no cell is met both through an address the analysis resolves *)
(* and through one it does not, the four passes never change a value that  *)
(* is used, passed to a call or left behind a returned pointer.            *)
ResultsKept == apart => SameResults

(* No live node ever takes its memory from a dead one, so the repair pass  *)
(* has nothing left to do: dead stores are bypassed for phis as well.      *)
ChainStaysLive ==
  \A i \in Ids : g[i].op # "Dead" =>
     \A m \in {g[i].mem} \cup ToSet(g[i].ins) : m # 0 => g[m].op # "Dead"

(* A value is used only where its definition has been executed: whatever a *)
(* pass forwards, its definition dominates the place it is forwarded to.   *)
DefinedBeforeUse ==
  \A i \in Ids : g[i].op # "Dead" =>
     \A v \in {g[i].addr, g[i].val} : v > 0 =>
        v < i /\ g[v].op # "Dead" /\ Dominates(g[v].blk, g[i].blk)

(* What the four passes leave behind is a graph the next pass may walk.    *)
GraphIntact == ChainStaysLive /\ DefinedBeforeUse

(* What the passes' comments and the pass table say of every program: an   *)
(* access whose address is unresolved may alias any allocation.            *)
UnresolvedMayAlias == SameResults

(* What the alias analysis says of a local allocation: its pointer is never *)
(* stored as a value, so no call ever reaches its cells. (Does not hold:   *)
(* README, "Disagreements".)                                               *)
LocalsNeverPassed ==
  \A i \in Ids : g[i].op = "Call" => g[i].val \notin locals
=============================================================================
