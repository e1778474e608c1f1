------------------------------- MODULE Scalar -------------------------------
(***************************************************************************)
(* The scalar passes in their order on one function.  A function whose     *)
(* variables were never in memory enters at the first pass; one whose      *)
(* variables the memory passes have just turned into phis enters behind    *)
(* them, at the loop and branch passes; the cleanup rounds end both.       *)
(*                                                                         *)
(* A step is a round of a pass over the graph, and for constant            *)
(* propagation a step of its own.                                          *)
(*                                                                         *)
(* First the counted loops, and the copies of their bodies that passes 42  *)
(* and 44 put into the graph: after the latch, so that one test covers     *)
(* several iterations, or in front of the loop, so that what is left of it *)
(* divides into such groups.  A loop comes with the blocks the pass has    *)
(* taken for its body, in an order in which each follows its predecessors. *)
(***************************************************************************)
EXTENDS Sccp

CONSTANTS
  UnrollFactor,        \* iterations under one test
  Sources,     \* what is compiled: a graph, the passes it meets, and inputs for its runs
  CleanupRounds,       \* how often the cleanup order runs
  Blank        \* no dominators kept

VARIABLES
  source,      \* what the function that came in shows on each input
  agenda,      \* the passes still to run
  round,       \* the round of the first of them
  doms         \* the dominators or the loops a pass took when it began

vars == <<g, lat, exec, work, execWork, steps, dropped, netted, stage, source, agenda, round, doms>>

\* A loop worth it, and what the copies may come to.
MinTrip == 6
MinResidual == 4
MaxBody == 60
MaxCopied == 240

-----------------------------------------------------------------------------
(* Which loops are counted.                                                *)

BodyOf(l) == SelectSeq(l.order, LAMBDA b : b # l.header)

\* The place of the back edge among the header's two.
Latches(h, l) == {i \in DOMAIN h[l.header].ins : h[l.header].ins[i] \in l.blocks}
Looped(h, l) == Cardinality(l.blocks) > 1 /\ Op(h, l.header) = "Region" /\ Len(h[l.header].ins) = 2
                /\ Cardinality(Latches(h, l)) = 1

\* The header's test has an arm in the loop and an arm out of it, no other test has one out.
Tests(h, l) == UsersWith(h, l.header, {"If"})
Arms(h, n) == ToSet(UsersWith(h, n, Projections))
Guarded(h, l) ==
  /\ Len(Tests(h, l)) = 1 /\ Op(h, h[Tests(h, l)[1]].ins[2]) = "Cmp"
  /\ \E p, q \in Arms(h, Tests(h, l)[1]) : Arms(h, Tests(h, l)[1]) = {p, q} /\ p \in l.blocks /\ q \notin l.blocks
Closed(h, l) ==
  \A b \in l.blocks \ {l.header} : \A n \in Pinned(h, b) : Op(h, n) = "If" => Arms(h, n) \subseteq l.blocks

PhiAt(h, n, hd) == Op(h, n) = "Phi" /\ Pin(h, n) = hd
\* The step of an update of the counter iv, if it has one.
Steps(h, n, iv) ==
  {h[h[n].ins[5 - i]].k : i \in {i \in {2, 3} : IsBin(h, n, "Add") /\ h[n].ins[i] = iv /\ IsConstant(h, h[n].ins[5 - i])}}

\* What a comparison counts: the phi of the header among its operands, the first if both
\* are, and the other operand.
Counter(h, cmp, hd) ==
  LET at == {i \in {2, 3} : PhiAt(h, h[cmp].ins[i], hd)} IN
  {[iv |-> h[cmp].ins[i], bound |-> h[cmp].ins[5 - i]] : i \in {i \in at : \A j \in at : i <= j}}

\* How often the test lets the body run, taken from the distance that is left at the start.
Inclusive == {"Le", "Ge"}
Span(rel, from, to, step) == Payload((to - from) + (IF rel \in Inclusive THEN step ELSE 0))
Trip(span, step) == IF span < 0 THEN 0 ELSE span \div step
TripsOf(rel, from, to, step) ==
  LET span == Span(rel, from, to, step) IN
  IF rel \notin {"Lt", "Gt", "Le", "Ge"} \/ step <= 0 \/ (span > 0 /\ span % step # 0) THEN {} ELSE {Trip(span, step)}
Trips(h, l) ==
  LET cmp == h[Tests(h, l)[1]].ins[2]
      latch == CHOOSE i \in Latches(h, l) : TRUE
      Of(c, step) == TripsOf(h[cmp].sub, h[h[c.iv].ins[4 - latch]].k, h[c.bound].k, step)
  IN  UNION {UNION {Of(c, step) : step \in Steps(h, h[c.iv].ins[latch + 1], c.iv)} :
               c \in {c \in Counter(h, cmp, l.header) : IsConstant(h, c.bound) /\ IsConstant(h, h[c.iv].ins[4 - latch])}}

\* What is pinned to block b, and what a copy of the body consists of: of each block the
\* head, but for the first, whose copies begin with a jump, and its content.
Content(h, b) == SelectSeq(UsesOf(h, b), LAMBDA n : Pin(h, n) = b /\ ~IsHead(h, n))
Copied(h, order, first) ==
  FlattenSeq([i \in DOMAIN order |-> (IF order[i] = first THEN <<>> ELSE <<order[i]>>) \o Content(h, order[i])])

\* A loop with its count, if it is a counted one.
Described(h, l, trip, body) ==
  [trip |-> trip, header |-> l.header, latch |-> CHOOSE i \in Latches(h, l) : TRUE, body |-> body,
   phis |-> UsersWith(h, l.header, {"Phi"}), nodes |-> Copied(h, BodyOf(l), body),
   size |-> Cardinality({n \in UNION {Pinned(h, b) : b \in ToSet(BodyOf(l))} : Op(h, n) \notin ControlOps})]
Counted(h, l) ==
  IF ~Looped(h, l) THEN {}
  ELSE IF ~Guarded(h, l) \/ ~Closed(h, l) THEN {}
  ELSE {Described(h, l, t, CHOOSE p \in Arms(h, Tests(h, l)[1]) : p \in l.blocks) : t \in Trips(h, l)}

-----------------------------------------------------------------------------
(* Copies.                                                                 *)

\* What stands for each node of the graph in the next copy: the values it starts with for
\* the loop's phis, its own nodes for the body's, and any other for itself.
Standing(h, c, s) ==
  LET grown == Len(s.g) + 1
      Place(n) == SelectInSeq(c.nodes, LAMBDA m : m = n)
      Phi(n) == SelectInSeq(c.phis, LAMBDA m : m = n)
  IN  [n \in DOMAIN h |-> CASE Phi(n) # 0 -> s.seed[Phi(n)]
                            [] n = c.body -> grown
                            [] Place(n) # 0 -> grown + Place(n)
                            [] OTHER -> n]

\* One more copy behind s.from; the phis of the next one start with what this one leaves.
Grown(h, c, s, m) ==
  [g |-> s.g \o <<Control("Jump", <<s.from>>)>>
           \o [i \in DOMAIN c.nodes |-> [h[c.nodes[i]] EXCEPT !.ins = [j \in DOMAIN @ |-> m[@[j]]]]],
   from |-> m[h[c.header].ins[c.latch]],
   seed |-> [i \in DOMAIN c.phis |-> m[h[c.phis[i]].ins[c.latch + 1]]]]
Chained(h, c, place, extra) ==
  LET s0 == [g |-> h, from |-> h[c.header].ins[place], seed |-> [i \in DOMAIN c.phis |-> h[c.phis[i]].ins[place + 1]]]
      Another(s, k) == CHOOSE t \in {Grown(h, c, s, m) : m \in {Standing(h, c, s)}} : TRUE
  IN  FoldLeft(Another, s0, [k \in 1 .. extra |-> k])

\* The header is entered from the last copy at that place, and its phis with what it leaves.
Attached(c, s, place) ==
  [n \in DOMAIN s.g |->
     CASE n = c.header -> [s.g[n] EXCEPT !.ins[place] = s.from]
       [] n \in ToSet(c.phis) -> [s.g[n] EXCEPT !.ins[place + 1] = s.seed[SelectInSeq(c.phis, LAMBDA m : m = n)]]
       [] OTHER -> s.g[n]]
Duplicated(h, c, place, extra) == Attached(c, Chained(h, c, place, extra), place)

-----------------------------------------------------------------------------
(* Who does it.                                                            *)

Rest(c) == c.trip % UnrollFactor
Worthwhile(c) == c.trip >= MinTrip /\ c.size <= MaxBody
Peels(c) == Rest(c) # 0 /\ c.trip - Rest(c) >= MinResidual /\ c.size * (Rest(c) + 1) <= MaxCopied
Unrolls(c) == Rest(c) = 0 /\ c.trip \div UnrollFactor >= 2 /\ c.size * UnrollFactor <= MaxCopied
Innermost(l, loops) == \A i \in DOMAIN loops : loops[i].header = l.header \/ loops[i].header \notin l.blocks

Peeled(h, c) == Duplicated(h, c, 3 - c.latch, Rest(c))
Unrolled(h, c) == Duplicated(h, c, c.latch, UnrollFactor - 1)

\* Pass 42 takes the loops without another in them, peels what does not divide and unrolls
\* what does; pass 44 peels any.
Takes(p, c, l, loops) ==
  /\ Worthwhile(c)
  /\ IF p = 42 THEN Innermost(l, loops) /\ (Peels(c) \/ Unrolls(c)) ELSE Peels(c)
Fitting(p, h, l, loops) == {c \in Counted(h, l) : Takes(p, c, l, loops)}

\* A round changes the first loop that fits.
DuplicatedOnce(p, h, loops) ==
  LET i == SelectInSeq(loops, LAMBDA l : Fitting(p, h, l, loops) # {})
      c == CHOOSE c \in Counted(h, loops[i]) : TRUE
  IN  IF i = 0 THEN h ELSE IF Rest(c) = 0 THEN Unrolled(h, c) ELSE Peeled(h, c)

-----------------------------------------------------------------------------
(* The run.                                                                *)

Running(p) == agenda # <<>> /\ agenda[1] = p
Done == agenda' = Tail(agenda) /\ round' = 1

-----------------------------------------------------------------------------
(* Passes that visit node after node, the ones added on the way included.  *)

Visiting == {2, 3, 4, 7, 10, 11, 12, 13, 14, 15, 16, 65}

Visited(p, h, n) ==
  CASE p = 2 -> Collapsed(h, n)
    [] p = 3 -> Folded(h, n)
    [] p = 4 -> Retyped(h, n)
    [] p = 7 -> PhiSimplified(h, n)
    [] p = 10 -> PhiEliminated(h, n)
    [] p = 11 -> CopyGone(h, n)
    [] p = 12 -> Simplified(h, n)
    [] p = 13 -> Ordered(h, n)
    [] p = 14 -> Unextended(h, n)
    [] p = 15 -> Narrowed(h, n)
    [] p = 16 -> BitsSimplified(h, n)
    [] p = 65 -> MinMax(h, n)

MaxRounds(p) ==
  CASE p \in {2, 3, 7, 10, 42, 44, 48} -> 8
    [] p \in {4, 11, 12, 14, 16, 40} -> 6
    [] p \in {13, 15, 49} -> 4
    [] p = 65 -> 1

RECURSIVE Swept(_, _, _)
Swept(p, h, n) == IF n > Len(h) THEN h ELSE Swept(p, Visited(p, h, n), n + 1)

\* A pass starts over while it changes a node that was there, up to its bound.
Changes(h) == \E n \in DOMAIN g : h[n] # g[n]
EndRound(p, h) == IF Changes(h) /\ round < MaxRounds(p) THEN round' = round + 1 /\ agenda' = agenda ELSE Done

Visit(p) ==
  /\ stage = "idle" /\ Running(p)
  /\ \E h \in {Swept(p, g, 1)} : g' = h /\ EndRound(p, h)
  /\ UNCHANGED <<source, doms, passVars>>

-----------------------------------------------------------------------------
(* Pass 1: what neither Stop nor a call in a reached block needs goes.     *)

Needed(h) ==
  LET reached == Reached(Edges(h), 0)
      roots == NodesOf(h, "Stop") \cup {c \in NodesOf(h, "Call") : Pin(h, c) \in reached}
      From[live \in SUBSET DOMAIN h] ==
        LET more == live \cup {m \in UNION {ToSet(h[n].ins) : n \in live} : ~Dead(h, m)}
        IN  IF more = live THEN live ELSE From[more]
  IN  From[roots]

EliminateDead ==
  /\ stage = "idle" /\ Running(1)
  /\ \E live \in {Needed(g)} : g' = [n \in DOMAIN g |-> IF n \in live THEN g[n] ELSE Kill(g, n)[n]]
  /\ Done
  /\ UNCHANGED <<source, doms, passVars>>

-----------------------------------------------------------------------------
(* Pass 5: every pure node that has a constant value, from the leaves up,  *)
(* becomes a new constant; constants do as well.                           *)

Known(h) ==
  LET All(V, ms) == \A i \in DOMAIN ms : V[ms[i]] # {}
      The(S) == CHOOSE v \in S : TRUE
      V[n \in DOMAIN h] ==
        LET in == h[n].ins  operands == Tail(in)
        IN CASE Op(h, n) = "Const" -> {h[n].k}
             [] Op(h, n) = "Select" -> IF V[in[2]] = {} THEN {} ELSE V[IF The(V[in[2]]) # 0 THEN in[3] ELSE in[4]]
             [] Op(h, n) \in Computing \ {"Select"} ->
                  IF All(V, operands) THEN Evaluated(h, n, [i \in DOMAIN operands |-> The(V[operands[i]])]) ELSE {}
             [] OTHER -> {}
  IN  V

FoldResidue ==
  /\ stage = "idle" /\ Running(5)
  /\ LET known == Known(g)
         Refolded(h, n) == IF known[n] = {} THEN h ELSE ToConst(h, n, CHOOSE v \in known[n] : TRUE)
     IN  \E h \in {FoldLeft(LAMBDA t, n : Refolded(t, n), g, [n \in DOMAIN g |-> n])} : g' = h
  /\ Done
  /\ UNCHANGED <<source, doms, passVars>>

-----------------------------------------------------------------------------
(* Pass 9: a node computed before, in a block that dominates, stands for   *)
(* the later one.  Nodes are found under what they were when they were     *)
(* visited, and compared as they are now.                                  *)

Key(h, n) == [h[n] EXCEPT !.ins = IF Op(h, n) = "Phi" THEN @ ELSE Tail(@)]
Same(h, m, n) == Key(h, m) = Key(h, n) /\ (IsConstant(h, n) /\ IsFloat(h[n].ty) => h[n].k # NaN)

Numbered(d, s, n) ==
  LET h == s.g
      hits == SelectSeq(s.seen, LAMBDA c : /\ c.key = Key(h, n) /\ ~Dead(h, c.node) /\ Same(h, c.node, n)
                                           /\ (Op(h, n) = "Phi" \/ Dominates(d, Pin(h, c.node), Pin(h, n))))
  IN CASE Op(h, n) \notin PureOps \cup {"Phi"} -> s
       [] Op(h, n) \in PureOps \cup {"Phi"} /\ hits # <<>> -> [s EXCEPT !.g = Replace(h, n, hits[1].node)]
       [] OTHER -> [s EXCEPT !.seen = Append(@, [node |-> n, key |-> Key(h, n)])]

NumberValues ==
  /\ stage = "idle" /\ Running(9)
  /\ \E d \in {DomsOf(g)}, blocks \in {Order(Edges(g), 0)} :
       LET Block(s, b) == FoldLeft(LAMBDA t, n : Numbered(d, t, n), s, InOrder(s.g, Pinned(s.g, b)))
       IN  \E s \in {FoldLeft(LAMBDA t, b : Block(t, b), [g |-> g, seen |-> <<>>], blocks)} : g' = s.g
  /\ Done
  /\ UNCHANGED <<source, doms, passVars>>

-----------------------------------------------------------------------------
(* Pass 40: what a loop computes from outside values moves in front of it, *)
(* the inner loops first.  (The code takes a loop block by block; in which *)
(* order only decides how many rounds it takes.)                           *)

Invariant(h, n, l) ==
  \A i \in 2 .. Len(h[n].ins) : LET m == h[n].ins[i] IN Dead(h, m) \/ Pin(h, m) \notin l.blocks

Hoisted(h, next, l) ==
  LET entry == CHOOSE p \in Entries(next, l) : TRUE
      inside == {n \in DOMAIN h : Op(h, n) \in PureOps /\ Pin(h, n) \in l.blocks}
      Out(t, n) == IF Invariant(t, n, l) THEN [t EXCEPT ![n].ins[1] = entry] ELSE t
  IN  IF Cardinality(Entries(next, l)) # 1 THEN h ELSE FoldLeft(Out, h, InOrder(h, inside))

HoistInvariants ==
  /\ stage = "idle" /\ Running(40)
  /\ \E next \in {Edges(g)} : \E loops \in {InnerFirst(Bodies(next, DomsOf(g)))} :
       \E h \in {FoldLeft(LAMBDA t, l : Hoisted(t, next, l), g, loops)} : g' = h /\ EndRound(40, h)
  /\ UNCHANGED <<source, doms, passVars>>

-----------------------------------------------------------------------------
(* Passes 42 and 44: counted loops are peeled and unrolled.  The loops are *)
(* those of the pass's beginning, whatever it has done since: it asks for  *)
(* them again, but is given what was kept.                                 *)

LoopsOf(h) ==
  LET next == Edges(h)  order == Order(next, 0)  loops == InnerFirst(Bodies(next, DomsOf(h)))
  IN  [i \in DOMAIN loops |-> [header |-> loops[i].header, blocks |-> loops[i].blocks,
                               order |-> SelectSeq(order, LAMBDA b : b \in loops[i].blocks)]]

Duplicate(p) ==
  /\ stage = "idle" /\ Running(p)
  /\ \E loops \in {IF doms = Blank THEN LoopsOf(g) ELSE doms} :
       \E h \in {DuplicatedOnce(p, g, loops)} :
         /\ g' = h /\ EndRound(p, h)
         /\ doms' = IF round' = 1 THEN Blank ELSE loops
  /\ UNCHANGED <<source, passVars>>

-----------------------------------------------------------------------------
(* Passes 48 and 49: branches that only compute become computations.  The  *)
(* dominators are those of the pass's beginning.                           *)

Side(h, n, op) == UsersWith(h, n, {op})
Met(h, arm) == UsersWith(h, arm, {"Region"})
MetBy(h, n, op) == Met(h, Last(Side(h, n, op)))

\* Both projections lead to one region and nowhere else, and nothing else leads there.
Diamond(h, n) ==
  /\ Op(h, n) = "If" /\ Side(h, n, "IfTrue") # <<>> /\ Side(h, n, "IfFalse") # <<>>
  /\ Len(MetBy(h, n, "IfTrue")) = 1 /\ MetBy(h, n, "IfTrue") = MetBy(h, n, "IfFalse")
  /\ Len(h[MetBy(h, n, "IfTrue")[1]].ins) = 2

\* What hung on the merge hangs on the branching block.
Merged(h, n, merge, arms) ==
  LET b == Pin(h, n)
      Moved(u) == IF Op(h, u) = "Region" THEN Renamed(h, u, merge, b)[u] ELSE Repinned(h, u, merge, b)[u]
      users == ToSet(UsesOf(h, merge))
  IN  [u \in DOMAIN h |-> IF u \in arms \cup {n, merge} THEN Kill(h, u)[u]
                          ELSE IF u \in users THEN Moved(u) ELSE h[u]]

-----------------------------------------------------------------------------
(* Pass 48: "and" and "or" whose second operand only computes are computed *)
(* in front of the branch.                                                 *)

\* What has to move for v to be computed in block b: pure nodes, as far as values that
\* are there already; anything else on the way forbids it.
Slice(h, d, v, b) ==
  LET There(m) == Dominates(d, Pin(h, m), b)
      Inputs(m) == IF Op(h, m) \in PureOps /\ ~There(m) THEN {i \in ToSet(Tail(h[m].ins)) : ~Dead(h, i) /\ ~IsHead(h, i)} ELSE {}
      From[S \in SUBSET DOMAIN h] == LET more == S \cup UNION {Inputs(m) : m \in S} IN IF more = S THEN S ELSE From[more]
      reached == From[{v}]
      fine == \A m \in reached : Op(h, m) \in PureOps \cup {"Phi"} /\ ~Dead(h, Pin(h, m)) /\ (Op(h, m) = "Phi" => There(m))
  IN  [fine |-> fine, nodes |-> {m \in reached : ~There(m)}]

\* The place of the constant, 0 on the false arm or 1 on the true one, among the phi's
\* two values; the last one that is 0 or 1 counts.
ConstantPlaces(h, phi) == {k \in {1, 2} : IsConstant(h, h[phi].ins[k + 1]) /\ h[h[phi].ins[k + 1]].k \in {0, 1}}
Known01(h, phi, k) == h[h[phi].ins[k + 1]].k

Flat(h, n, phi, slice, rhs, sub) ==
  LET b == Pin(h, n)
      moved == [m \in DOMAIN h |-> IF m \in slice THEN [h[m] EXCEPT !.ins[1] = b] ELSE h[m]]
  IN  Replace(Make(moved, Operation("Bin", sub, "i1", <<b, h[n].ins[2], rhs>>)), phi, Len(h) + 1)
Emptied(h, n, arms) == [u \in DOMAIN h |-> IF h[u].ins # <<>> /\ Pin(h, u) \in arms THEN [h[u] EXCEPT !.ins[1] = Pin(h, n)] ELSE h[u]]
WithoutMemory(h, memory) == FoldLeft(LAMBDA t, p : Replace(t, p, t[p].ins[2]), h, memory)

FlattenedAt(h, d, n, merge, phi, k, memory) ==
  LET t == Last(Side(h, n, "IfTrue"))  f == Last(Side(h, n, "IfFalse"))
      b == Pin(h, n)
      known == Known01(h, phi, k)
      rhs == h[phi].ins[4 - k]
      twice == \E u \in ToSet(Met(h, merge)) : b \in ToSet(h[u].ins)
  IN  IF \/ h[merge].ins[k] # (IF known = 0 THEN f ELSE t) \/ twice
         \/ \E i \in DOMAIN memory : h[memory[i]].ins[2] # h[memory[i]].ins[3]
      THEN h
      ELSE LET s == Slice(h, d, rhs, b)
           IN  IF ~s.fine THEN h
               ELSE Merged(Emptied(WithoutMemory(Flat(h, n, phi, s.nodes, rhs, IF known = 0 THEN "And" ELSE "Or"), memory),
                                   n, {t, f}),
                           n, merge, {t, f})

FlattenedFor(h, d, n, merge, phis) ==
  LET memory == SelectSeq(phis, LAMBDA p : h[p].ty = "mem")
      values == SelectSeq(phis, LAMBDA p : h[p].ty # "mem")
  IN  IF \/ Len(memory) > 1 \/ Len(values) # 1 \/ h[values[1]].ty # "i1" \/ ConstantPlaces(h, values[1]) = {} THEN h
      ELSE FlattenedAt(h, d, n, merge, values[1], IF 2 \in ConstantPlaces(h, values[1]) THEN 2 ELSE 1, memory)
Flattened(h, d, n) ==
  IF ~Diamond(h, n) \/ Dead(h, Pin(h, n)) THEN h
  ELSE FlattenedFor(h, d, n, MetBy(h, n, "IfTrue")[1], UsersWith(h, MetBy(h, n, "IfTrue")[1], {"Phi"}))

-----------------------------------------------------------------------------
(* Pass 49: a choice between the values of two arms.  A refusal half way   *)
(* leaves what was done so far.                                            *)

Effects == {"Region", "Jump", "Call", "Return"}
Clean(h, arm, merge) == \A u \in Pinned(h, arm) : u = merge \/ Op(h, u) \notin Effects

\* An arm's own value has to be pure, of operands that reach the branch, and moves there.
Movable_PureOnly(h, d, v, b) == Op(h, v) \in PureOps
Movable(h, d, v, b) ==
  /\ Op(h, v) \in PureOps
  /\ \A i \in 2 .. Len(h[v].ins) : LET m == h[v].ins[i] IN Dead(h, m) \/ Dominates(d, Pin(h, m), b)
ValueOk(h, d, v, arm, b) ==
  /\ ~Dead(h, v) /\ Op(h, v) \notin ControlOps
  /\ IF Pin(h, v) = arm THEN Movable(h, d, v, b) ELSE Dominates(d, Pin(h, v), b)
MovedUp(h, v, arm, b) == IF Pin(h, v) = arm THEN [h EXCEPT ![v].ins[1] = b] ELSE h

\* The phi's value on the true arm and on the false arm, looked at in this order.
Chosen(s, d, n, phi) ==
  LET b == Pin(s.g, n)  v == s.g[phi].ins[s.true + 1]  w == s.g[phi].ins[s.false + 1]
      up == MovedUp(s.g, v, s.trueArm, b)
      both == MovedUp(up, w, s.falseArm, b)
  IN CASE ~s.ok -> s
       [] s.ok /\ ~ValueOk(s.g, d, v, s.trueArm, b) -> [s EXCEPT !.ok = FALSE]
       [] s.ok /\ ValueOk(s.g, d, v, s.trueArm, b) /\ ~ValueOk(up, d, w, s.falseArm, b) -> [s EXCEPT !.ok = FALSE, !.g = up]
       [] OTHER -> [s EXCEPT !.g = IF v = w THEN Replace(both, phi, v)
                                   ELSE ToNode(both, phi, Operation("Select", "", both[phi].ty, <<b, both[n].ins[2], v, w>>))]

\* The memory phi of the merge goes if the arms left memory alone.
Forwarded(s, phi) ==
  IF ~s.ok THEN s
  ELSE IF s.g[phi].ins[2] = s.g[phi].ins[3] THEN [s EXCEPT !.g = Replace(s.g, phi, s.g[phi].ins[2])]
  ELSE [s EXCEPT !.ok = FALSE]

ConvertedAt(h, d, n, t, f, merge) ==
  LET phis == UsersWith(h, merge, {"Phi"})
      values == SelectSeq(phis, LAMBDA p : h[p].ty # "mem")
      Place(arm) == SelectLastInSeq(h[merge].ins, LAMBDA p : p = arm)
      s0 == [g |-> h, ok |-> TRUE, trueArm |-> t, falseArm |-> f, true |-> Place(t), false |-> Place(f)]
      chosen == FoldLeft(LAMBDA s, p : Chosen(s, d, n, p), s0, values)
      s1 == FoldLeft(LAMBDA s, p : Forwarded(s, p), chosen, SelectSeq(phis, LAMBDA p : h[p].ty = "mem"))
  IN  IF ~Clean(h, t, merge) \/ ~Clean(h, f, merge) \/ values = <<>> THEN h
      ELSE IF s1.ok THEN Merged(s1.g, n, merge, {t, f}) ELSE s1.g
Converted(h, d, n) ==
  IF ~Diamond(h, n) THEN h
  ELSE ConvertedAt(h, d, n, Last(Side(h, n, "IfTrue")), Last(Side(h, n, "IfFalse")), MetBy(h, n, "IfTrue")[1])

RECURSIVE BranchesFrom(_, _, _, _)
BranchesFrom(p, h, d, n) ==
  IF n > Len(h) THEN h ELSE BranchesFrom(p, IF p = 48 THEN Flattened(h, d, n) ELSE Converted(h, d, n), d, n + 1)

MergeBranches(p) ==
  /\ stage = "idle" /\ Running(p)
  /\ \E d \in {IF doms = Blank THEN DomsOf(g) ELSE doms} :
       \E h \in {BranchesFrom(p, g, d, 1)} :
         /\ g' = h /\ EndRound(p, h)
         /\ doms' = IF round' = 1 THEN Blank ELSE d
  /\ UNCHANGED <<source, passVars>>

-----------------------------------------------------------------------------
(* The order.                                                              *)

MainOrder == <<1, 2, 3, 4, 5, 7, 8, 9, 10, 11, 12, 13, 14, 15, 16, 40, 42, 44, 48, 49, 65>>
CleanupOrder == <<1, 2, 3, 7, 8, 9>>
AgendaFrom(p) ==
  SelectSeq(MainOrder, LAMBDA q : q >= p) \o FlattenSeq([r \in 1 .. CleanupRounds |-> CleanupOrder])

Shown(r) == [result |-> r.result, seen |-> r.seen, trap |-> r.trap]

Init ==
  /\ \E s \in Sources :
       /\ g = s.g /\ agenda = AgendaFrom(s.entry)
       /\ source = [i \in s.inputs |-> Shown(Run(s.g, i))]
  /\ round = 1 /\ doms = Blank
  /\ Idle

\* Pass 8 takes its own steps, and gives way when the last rewrite is done.
EnterPropagation == Running(8) /\ Enters /\ UNCHANGED <<source, agenda, round, doms>>
Propagate ==
  /\ Propagates
  /\ IF stage' = "idle" THEN Done ELSE UNCHANGED <<agenda, round>>
  /\ UNCHANGED <<source, doms>>

Next ==
  \/ \E p \in Visiting : Visit(p)
  \/ EliminateDead \/ FoldResidue \/ NumberValues \/ HoistInvariants
  \/ (\E p \in {42, 44} : Duplicate(p)) \/ (\E p \in {48, 49} : MergeBranches(p))
  \/ EnterPropagation \/ Propagate

Spec == Init /\ [][Next]_vars

-----------------------------------------------------------------------------
(* What has to hold whenever no pass is running, while the safety net of   *)
(* pass 8 has had nothing to do.                                           *)

Between == stage = "idle" /\ round = 1 /\ ~netted

\* What the drain of pass 8 found is true of every run on the source's inputs.
FactsHold == stage = "net" /\ steps < StepLimit => FactsTrue(DOMAIN source)

\* No pass, and no order of them, changes what the function shows: the calls it makes
\* with their arguments, and the value it returns.
PassesExact ==
  Between => \A i \in DOMAIN source : Shows(Run(g, i), source[i])

\* Every rewrite leaves a graph that the verifier takes: no use of a killed node, phis
\* in step with their region, control where control belongs (verify_graph).
GraphStaysWhole == Between => Verifies(g)

\* The blocks that need each value.
Needs ==
  UNION {{<<g[n].ins[i], IF Op(g, n) = "Phi" THEN g[Pin(g, n)].ins[i - 1] ELSE Pin(g, n)>> : i \in 2 .. Len(g[n].ins)} :
           n \in {n \in DOMAIN g : Op(g, n) \in Computing \cup {"Phi", "Call", "If", "Return"}}}

\* Values are moved, shared and taken over across blocks by four passes: each is still
\* computed on every path before it is used.
ValuesReach ==
  Between =>
    \E away \in {{need \in Needs : ~IsHead(g, need[1]) /\ Pin(g, need[1]) # need[2]}}, next \in {Edges(g)} :
      \A a \in {Pin(g, need[1]) : need \in away} \ {Start} :
        \E past \in {Reached(next, a)} : \A need \in away : Pin(g, need[1]) = a => need[2] \notin past
=============================================================================
