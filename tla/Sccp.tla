-------------------------------- MODULE Sccp --------------------------------
(***************************************************************************)
(* Pass 8, sparse conditional constant propagation: two stacks of work     *)
(* drained one entry per step, the safety net for conditions that stayed   *)
(* unknown, and the five rewrites that follow.                             *)
(***************************************************************************)
EXTENDS Rewrites, FiniteSetsExt

CONSTANTS
  Top, Bottom, \* the lattice's ends
  StepLimit    \* drain steps before it gives up

VARIABLES
  g,           \* the graph
  lat,         \* the lattice value of each node
  exec,        \* the executable block heads
  work, execWork,      \* the stacks, top last
  steps,       \* drain steps taken
  dropped,     \* control nodes the rewrite has killed
  netted,      \* the safety net has made something executable
  stage        \* "idle", "drain", "net", "fold", "trim", "prune", "collapse", "cascade"

passVars == <<lat, exec, work, execWork, steps, dropped, netted, stage>>

-----------------------------------------------------------------------------
(* The lattice.                                                            *)

\* A NaN does not agree with itself.
Agree(a, b) == a = b /\ a # NaN

Meet_FirstWins(a, b) == IF a = Top THEN b ELSE a
Meet(a, b) ==
  CASE a = Top -> b
    [] b = Top -> a
    [] a # Top /\ b # Top -> IF Agree(a, b) THEN a ELSE Bottom

IsConst(a) == a \notin {Top, Bottom}

\* The inputs of a phi that an executable predecessor brings.
Arriving(ex, n) ==
  LET in == g[n].ins
      taken == SelectSeq([i \in 1 .. Len(in) - 1 |-> i], LAMBDA i : g[in[1]].ins[i] \in ex)
  IN  [i \in DOMAIN taken |-> in[taken[i] + 1]]

\* An operation waits for its operands, and is unknown when one of them is or when the
\* evaluation refuses.
Applied(n, operands) ==
  CASE Top \in ToSet(operands) -> Top
    [] Top \notin ToSet(operands) /\ Bottom \in ToSet(operands) -> Bottom
    [] OTHER -> LET r == Evaluated(g, n, operands) IN IF r = {} THEN Bottom ELSE CHOOSE v \in r : TRUE

\* What processing node n finds for it, or Top when it has nothing to say.
Transfer(l, ex, n) ==
  LET in == g[n].ins
  IN CASE Op(g, n) = "Const" -> g[n].k
       [] Op(g, n) \in {"Param", "Call"} -> Bottom
       [] Op(g, n) \in {"Bin", "Cmp", "Un", "Cast"} ->
            Applied(n, [i \in 1 .. Len(in) - 1 |-> l[in[i + 1]]])
       [] Op(g, n) = "Select" ->
            (CASE l[in[2]] = Top -> Top
               [] l[in[2]] = Bottom -> Meet(l[in[3]], l[in[4]])
               [] OTHER -> IF l[in[2]] # 0 THEN l[in[3]] ELSE l[in[4]])
       [] Op(g, n) = "Phi" -> FoldLeft(LAMBDA acc, i : Meet(acc, l[i]), Top, Arriving(ex, n))
       [] OTHER -> Top

\* The projections an If makes executable, given its condition.
Resolved(c) ==
  CASE c = Top -> {}
    [] c = Bottom -> Projections
    [] IsConst(c) -> {IF c # 0 THEN "IfTrue" ELSE "IfFalse"}
Taken(l, ex, n) ==
  IF Pin(g, n) \in ex THEN UsersWith(g, n, Resolved(l[g[n].ins[2]])) ELSE <<>>

-----------------------------------------------------------------------------
(* One step of the drain.  Marking never marks a head twice.               *)

Fresh(heads) ==
  FoldLeft(LAMBDA acc, h : IF h \in exec \/ h \in ToSet(acc) \/ ~IsHead(g, h) THEN acc ELSE Append(acc, h),
           <<>>, heads)
Mark(heads) == /\ exec' = exec \cup ToSet(Fresh(heads))
               /\ execWork' = Fresh(heads)

\* What becoming executable puts on the work stack: what is pinned to the block,
\* and the phis of each region it leads to.
Awakened_PinnedOnly(b) == SelectSeq(UsesOf(g, b), LAMBDA u : Pin(g, u) = b)
Awakened(b) ==
  SelectSeq(UsesOf(g, b), LAMBDA u : Pin(g, u) = b)
    \o FlattenSeq([i \in DOMAIN UsersWith(g, b, {"Region"}) |->
                     UsersWith(g, UsersWith(g, b, {"Region"})[i], {"Phi"})])

Ahead(b) ==
  SelectSeq(UsesOf(g, b), LAMBDA u : Op(g, u) = "Region" \/ (Op(g, u) = "Jump" /\ Pin(g, u) = b))

Draining == stage = "drain" /\ steps < StepLimit /\ steps' = steps + 1

BlockExec ==
  /\ Draining /\ execWork # <<>>
  /\ LET b == Last(execWork) IN
     /\ work' = work \o Awakened(b)
     /\ exec' = exec \cup ToSet(Fresh(Ahead(b)))
     /\ execWork' = Front(execWork) \o Fresh(Ahead(b))
  /\ UNCHANGED <<g, lat, dropped, netted, stage>>

Process ==
  /\ Draining /\ execWork = <<>> /\ work # <<>>
  /\ LET n == Last(work)
         v == Transfer(lat, exec, n) IN
     /\ IF v = Top \/ lat[n] = Bottom \/ Agree(v, lat[n])
        THEN lat' = lat /\ work' = Front(work)
        ELSE lat' = [lat EXCEPT ![n] = v] /\ work' = Front(work) \o UsesOf(g, n)
     /\ IF Op(g, n) = "If" THEN Mark(Taken(lat, exec, n)) ELSE UNCHANGED <<exec, execWork>>
  /\ UNCHANGED <<g, dropped, netted, stage>>

Drained ==
  /\ stage = "drain" /\ (steps = StepLimit \/ (work = <<>> /\ execWork = <<>>))
  /\ stage' = "net"
  /\ UNCHANGED <<g, lat, exec, work, execWork, steps, dropped, netted>>

\* An If whose condition stayed unknown gets both projections, wherever it stands;
\* what that makes executable behind them is not looked at again.
Unresolved == {n \in NodesOf(g, "If") : lat[g[n].ins[2]] = Top}
Net ==
  /\ stage = "net"
  /\ LET marked == {p \in DOMAIN g : Op(g, p) \in Projections /\ Pin(g, p) \in Unresolved}
     IN  /\ exec' = exec \cup marked
         /\ netted' = (netted \/ ~(marked \subseteq exec))
  /\ stage' = "fold"
  /\ UNCHANGED <<g, lat, work, execWork, steps, dropped>>

-----------------------------------------------------------------------------
(* The rewrites.                                                           *)

InOrder(gr, S) == SelectSeq([n \in DOMAIN gr |-> n], LAMBDA n : n \in S)

\* 1. A pure node or a phi with a constant value becomes that constant.
Foldable == {n \in DOMAIN g : /\ Op(g, n) \in Computing \cup {"Param", "Phi"}
                              /\ IsConst(lat[n]) /\ (Pin(g, n) \in exec \/ ~IsHead(g, Pin(g, n)))}
Fold ==
  /\ stage = "fold"
  /\ LET folds == InOrder(g, Foldable)
         NameOf(n) == IF n \in Foldable THEN Len(g) + SelectInSeq(folds, LAMBDA m : m = n) ELSE n
         WithNames(n) == [g[n] EXCEPT !.ins = [i \in DOMAIN @ |-> NameOf(@[i])]]
     IN  g' = [n \in 1 .. Len(g) + Len(folds) |->
                 IF n > Len(g) THEN LET m == folds[n - Len(g)] IN Constant(Pin(g, m), g[m].ty, lat[m])
                 ELSE IF n \in Foldable THEN [WithNames(n) EXCEPT !.op = "Dead"]
                 ELSE WithNames(n)]
  /\ stage' = "trim"
  /\ UNCHANGED <<lat, exec, work, execWork, steps, dropped, netted>>

\* 2. Predecessors that are not executable leave their regions, and the phis with them.
Kept(r) == SelectSeq([i \in DOMAIN g[r].ins |-> i], LAMBDA i : g[r].ins[i] \in exec)
Compact(s, places) == [i \in DOMAIN places |-> s[places[i]]]
Trimmed(n) ==
  CASE Op(g, n) = "Region" ->
         IF Kept(n) = <<>> THEN Kill(g, n)[n] ELSE [g[n] EXCEPT !.ins = Compact(@, Kept(n))]
    [] Op(g, n) = "Phi" /\ Op(g, Pin(g, n)) = "Region" ->
         IF Kept(Pin(g, n)) = <<>> THEN Kill(g, n)[n]
         ELSE [g[n] EXCEPT !.ins = <<@[1]>> \o Compact(Tail(@), Kept(Pin(g, n)))]
    [] OTHER -> g[n]
Trim ==
  /\ stage = "trim"
  /\ g' = [n \in DOMAIN g |-> Trimmed(n)]
  /\ dropped' = dropped \cup {r \in NodesOf(g, "Region") : Kept(r) = <<>>}
  /\ stage' = "prune"
  /\ UNCHANGED <<lat, exec, work, execWork, steps, netted>>

\* 3. A branch on a constant loses the projection it does not take.  A condition
\* that the first rewrite has made a constant has no lattice value.
Found(n) == IF n \in DOMAIN lat THEN lat[n] ELSE Top
Prune ==
  /\ stage = "prune"
  /\ LET cond(p) == Found(g[Pin(g, p)].ins[2])
         lost == {p \in DOMAIN g \ exec : /\ Op(g, p) \in Projections /\ ~Dead(g, Pin(g, p))
                                          /\ IsConst(cond(p))
                                          /\ Op(g, p) \notin Resolved(cond(p))}
     IN  /\ g' = [n \in DOMAIN g |-> IF n \in lost THEN Kill(g, n)[n] ELSE g[n]]
         /\ dropped' = dropped \cup lost
  /\ stage' = "collapse"
  /\ UNCHANGED <<lat, exec, work, execWork, steps, netted>>

\* 4. A phi with one value becomes that value.
Collapse ==
  /\ stage = "collapse"
  /\ LET One(h, n) == IF Op(h, n) # "Phi" \/ Len(h[n].ins) # 2 THEN h
                      ELSE Kill(ReplaceAllUses(h, n, h[n].ins[2]), n)
     IN  g' = FoldLeft(One, g, [n \in DOMAIN g |-> n])
  /\ stage' = "cascade"
  /\ UNCHANGED <<lat, exec, work, execWork, steps, dropped, netted>>

\* 5. What is pinned to killed control dies with it, an If takes its projections
\* along, and killed returns leave Stop.
PinnedUnder(gr, heads) ==
  {n \in DOMAIN gr : Op(gr, n) \notin {"Dead", "Stop"} /\ gr[n].ins # <<>> /\ gr[n].ins[1] \in heads}
Fallen_PinnedOnly(gr, heads) == PinnedUnder(gr, heads)
Fallen(gr, heads) ==
  LET ns == PinnedUnder(gr, heads)
  IN  ns \cup {p \in DOMAIN gr : Op(gr, p) \in Projections /\ Pin(gr, p) \in ns}
Cascade ==
  /\ stage = "cascade"
  /\ LET Doomed[heads \in SUBSET DOMAIN g] ==
           LET more == heads \cup {n \in Fallen(g, heads) : IsHead(g, n)}
           IN  IF more = heads THEN Fallen(g, heads) ELSE Doomed[more]
         swept == [n \in DOMAIN g |-> IF n \in Doomed[dropped] THEN Kill(g, n)[n] ELSE g[n]]
     IN  g' = IF dropped = {} THEN g
              ELSE [n \in DOMAIN g |->
                      IF Op(swept, n) = "Stop"
                      THEN [swept[n] EXCEPT !.ins = SelectSeq(@, LAMBDA r : ~Dead(swept, r))]
                      ELSE swept[n]]
  /\ stage' = "idle"
  /\ lat' = <<>> /\ exec' = {} /\ work' = <<>> /\ execWork' = <<>> /\ steps' = 0 /\ dropped' = {}
  /\ UNCHANGED netted

-----------------------------------------------------------------------------
\* Constants are seeded, wherever they are pinned, and Start is executable.
Consts(gr) == InOrder(gr, NodesOf(gr, "Const"))
Seeded(gr) == [n \in DOMAIN gr |-> IF Op(gr, n) = "Const" THEN gr[n].k ELSE Top]
Pushed(gr) == FlattenSeq([i \in DOMAIN Consts(gr) |-> UsesOf(gr, Consts(gr)[i])])

Idle == /\ lat = <<>> /\ work = <<>> /\ execWork = <<>> /\ exec = {} /\ steps = 0 /\ dropped = {}
        /\ netted = FALSE /\ stage = "idle"

Enters ==
  /\ stage = "idle" /\ stage' = "drain"
  /\ lat' = Seeded(g) /\ work' = Pushed(g) /\ execWork' = <<Start>> /\ exec' = {Start}
  /\ steps' = 0 /\ dropped' = {}
  /\ UNCHANGED <<g, netted>>

Propagates == BlockExec \/ Process \/ Drained \/ Net \/ Fold \/ Trim \/ Prune \/ Collapse \/ Cascade

-----------------------------------------------------------------------------
(* What the drain has to find: the largest assignment of lattice values    *)
(* and the smallest set of executable blocks that agree with each other,   *)
(* reached by sweeping over the whole graph.                               *)

Solution ==
  LET Sweep(s) ==
        [lat |-> [n \in DOMAIN g |-> IF g[n].ins # <<>> /\ Pin(g, n) \in s.exec
                                     THEN Transfer(s.lat, s.exec, n) ELSE s.lat[n]],
         exec |-> s.exec \cup UNION {ToSet(Ahead(b)) : b \in s.exec}
                         \cup UNION {ToSet(Taken(s.lat, s.exec, n)) : n \in NodesOf(g, "If")}]
      From[s \in [lat : [DOMAIN g -> Int \cup {Top, Bottom}], exec : SUBSET DOMAIN g]] ==
        LET next == Sweep(s) IN IF next = s THEN s ELSE From[next]
  IN  From[[lat |-> Seeded(g), exec |-> {Start}]]

\* The order in which two stacks are worked off, with nothing pushed twice on the
\* control stack and values pushed on by every change, does not show in the result:
\* no step misses a phi whose new predecessor arrived after its inputs, and no block
\* is called executable that is not (on_block_exec, set, process).
DrainExact ==
  stage = "net" /\ steps < StepLimit =>
    \E s \in {Solution} :
      /\ exec = s.exec
      /\ \A n \in DOMAIN g : g[n].ins # <<>> /\ Pin(g, n) \in exec => lat[n] = s.lat[n]

\* What the drain found is true of the runs on the given inputs: a block that is
\* entered is executable, and a node called constant has that value every time it is
\* computed.
FactsTrue(inputs) ==
  \A i \in inputs :
    \E r \in {Run(g, i)} :
      /\ ToSet(r.path) \subseteq exec
      /\ \A f \in UNION ToSet(r.facts) : lat[f[1]] = Bottom \/ Canonical(g[f[1]].ty, lat[f[1]]) = f[2]
=============================================================================
