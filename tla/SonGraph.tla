------------------------------ MODULE SonGraph ------------------------------
(***************************************************************************)
(* The sea-of-nodes graph of one function: nodes named by their place, the *)
(* first input the block a node is pinned to, uses in the order the graph  *)
(* lists them, the rewrites every pass makes, what the verifier asks of a  *)
(* graph, what a graph does when it is run, and what the passes know of    *)
(* its control flow: the order of its blocks, their dominators, the loops. *)
(***************************************************************************)
EXTENDS Words, Sequences, SequencesExt, FiniteSets, TLC

\* sub tells the operations of a kind apart; k is the payload of a constant, the
\* place of a parameter, or the place in the source that a call stands for.
Node(op, sub, ty, ins, k) == [op |-> op, sub |-> sub, ty |-> ty, ins |-> ins, k |-> k]
Control(op, ins) == Node(op, "", "ctrl", ins, 0)
Constant(pin, ty, k) == Node("Const", "", ty, <<pin>>, k)
Operation(op, sub, ty, ins) == Node(op, sub, ty, ins, 0)

\* The sequence itself; TLC computes its elements here and not at each use.
Strict(seq) == seq \o <<>>

HeadOps == {"Start", "Region", "IfTrue", "IfFalse", "Jump"}
Computing == {"Bin", "Cmp", "Un", "Cast", "Select"}
PureOps == Computing \cup {"Const", "Param"}
ControlOps == HeadOps \cup {"If", "Return", "Stop"}
Projections == {"IfTrue", "IfFalse"}

Op(g, n) == g[n].op
Is(g, n, op, sub) == g[n].op = op /\ g[n].sub = sub
IsHead(g, n) == Op(g, n) \in HeadOps
NodesOf(g, op) == {n \in DOMAIN g : g[n].op = op}
Pin(g, n) == g[n].ins[1]
Pinned(g, b) == {n \in DOMAIN g : g[n].ins # <<>> /\ g[n].ins[1] = b}
IsMemoryPhi(g, n) == g[n].op = "Phi" /\ g[n].ty = "mem"

\* The users of n in node order; a killed node keeps its inputs and is still listed.
\* (The graph lists a node that uses n twice twice: it is only looked at again.)
UsesOf(g, n) == SelectSeq([u \in DOMAIN g |-> u], LAMBDA u : \E i \in DOMAIN g[u].ins : g[u].ins[i] = n)

UsersWith(g, n, ops) == SelectSeq(UsesOf(g, n), LAMBDA u : g[u].op \in ops)

\* Creation, replacement, killing.  A killed node keeps its inputs.
Make(g, node) == Append(g, node)
ReplaceAllUses(g, from, to) ==
  Strict([n \in DOMAIN g |->
            IF from \notin ToSet(g[n].ins) THEN g[n]
            ELSE [g[n] EXCEPT !.ins = [i \in DOMAIN @ |-> IF @[i] = from THEN to ELSE @[i]]]])
Kill(g, n) == [g EXCEPT ![n].op = "Dead"]
Dead(g, n) == g[n].op = "Dead"

-----------------------------------------------------------------------------
(* The verifier.                                                           *)

UsesNoDead(g) ==
  \A n \in DOMAIN g : Dead(g, n) \/ \A i \in DOMAIN g[n].ins : g[n].ins[i] = n \/ ~Dead(g, g[n].ins[i])

IsMemory(g, n) == Op(g, n) \in {"Start", "Call"} \/ IsMemoryPhi(g, n)

NodeOk(g, n) ==
  LET in == g[n].ins  ty == g[n].ty IN
  CASE Op(g, n) = "Region" -> in # <<>> /\ \A i \in DOMAIN in : IsHead(g, in[i])
    [] Op(g, n) = "Phi"    -> Op(g, in[1]) = "Region" /\ Len(in) = Len(g[in[1]].ins) + 1
    [] Op(g, n) = "If"     -> Len(in) = 2 /\ IsHead(g, in[1]) /\ g[in[2]].ty = "i1"
    [] Op(g, n) \in Projections -> Len(in) = 1 /\ Op(g, in[1]) = "If"
    [] Op(g, n) = "Jump"   -> Len(in) = 1 /\ IsHead(g, in[1])
    [] Op(g, n) \in {"Return", "Call"} -> IsHead(g, in[1]) /\ IsMemory(g, in[2])
    [] Op(g, n) = "Stop"   -> \A i \in DOMAIN in : Op(g, in[i]) = "Return"
    [] Op(g, n) = "Param"  -> Len(in) = 1 /\ Op(g, in[1]) = "Start"
    [] Op(g, n) = "Bin"    -> Len(in) = 3 /\ g[in[2]].ty = ty /\ g[in[3]].ty = ty
    [] Op(g, n) = "Cmp"    -> Len(in) = 3 /\ ty = "i1"
    [] Op(g, n) \in {"Un", "Cast"} -> Len(in) = 2
    [] Op(g, n) = "Select" -> Len(in) = 4
    [] OTHER -> TRUE

Verifies(g) == UsesNoDead(g) /\ \A n \in DOMAIN g : NodeOk(g, n)

-----------------------------------------------------------------------------
(* Running a graph: block by block, the phis of a region taken at once on  *)
(* the way in, then the calls pinned to the block in node order and what   *)
(* is computed there, each after what it needs.  A call answers with the   *)
(* next of the given answers and is seen from outside with its arguments.  *)

Start == 1

Value(g, env, n) == IF Op(g, n) = "Const" THEN Canonical(g[n].ty, g[n].k) ELSE env[n]

\* What a computing node makes of the values At its operands.
Computed(g, n, At(_)) ==
  LET in == g[n].ins  sub == g[n].sub  ty == g[n].ty
  IN CASE Op(g, n) = "Bin"  -> RunBin(sub, ty, At(in[2]), At(in[3]))
       [] Op(g, n) = "Cmp"  -> EvalCmp(sub, g[in[2]].ty, At(in[2]), At(in[3]))
       [] Op(g, n) = "Un"   -> RunUn(sub, ty, At(in[2]))
       [] Op(g, n) = "Cast" -> RunCast(sub, g[in[2]].ty, ty, At(in[2]))
       [] Op(g, n) = "Select" -> IF At(in[2]) # 0 THEN At(in[3]) ELSE At(in[4])

Stops(g, env, n) ==
  Op(g, n) = "Bin" /\ Traps(g[n].sub, g[n].ty, Value(g, env, g[n].ins[2]), Value(g, env, g[n].ins[3]))

Values(g, env, here) ==
  LET V[n \in DOMAIN g] == IF n \in here THEN Computed(g, n, LAMBDA m : V[m]) ELSE Value(g, env, n)
  IN  Strict([n \in DOMAIN g |-> V[n]])
Noted(g, r, here, env) ==
  [r EXCEPT !.env = env, !.facts = Append(@, {<<n, env[n]>> : n \in here}),
            !.trap = @ \/ \E n \in here : Stops(g, env, n)]
Settled(g, r, b) ==
  LET here == {n \in Pinned(g, b) : Op(g, n) \in Computing}
  IN  IF here = {} THEN r ELSE Noted(g, r, here, Values(g, r.env, here))

Answered(g, s, c, v) ==
  [s EXCEPT !.env[c] = v, !.facts = Append(@, {<<c, v>>}),
            !.seen = Append(@, <<g[c].k, [i \in 1 .. Len(g[c].ins) - 2 |-> Value(g, s.env, g[c].ins[i + 2])]>>),
            !.answers = IF @ = <<>> THEN @ ELSE Tail(@)]
Called(g, s, c) == Answered(g, s, c, IF s.answers = <<>> THEN 0 ELSE s.answers[1])

TakePhis(g, r, b, from) ==
  IF Op(g, b) # "Region" THEN r
  ELSE LET i == SelectInSeq(g[b].ins, LAMBDA p : p = from)
           Phis == {n \in Pinned(g, b) : Op(g, n) = "Phi" /\ ~IsMemoryPhi(g, n)}
           Taken(n) == Value(g, r.env, g[n].ins[i + 1])
       IN  [r EXCEPT !.env = Strict([n \in DOMAIN g |-> IF n \in Phis THEN Taken(n) ELSE @[n]]),
                     !.facts = Append(@, {<<n, Taken(n)>> : n \in Phis})]

\* Where control leaves block b: the projection its If picks, a region or a jump
\* that names b, or nowhere, after a return.
Successors(g, r, b) ==
  LET ifs == {n \in Pinned(g, b) : Op(g, n) = "If"}
      Picks(n) == {p \in Pinned(g, n) :
                     Op(g, p) = IF Value(g, r.env, g[n].ins[2]) # 0 THEN "IfTrue" ELSE "IfFalse"}
  IN  UNION {Picks(n) : n \in ifs}
        \cup {n \in DOMAIN g : Op(g, n) = "Region" /\ b \in ToSet(g[n].ins)}
        \cup {n \in Pinned(g, b) : Op(g, n) = "Jump"}

Through(g, r, b) ==
  LET calls == SelectSeq([n \in DOMAIN g |-> n], LAMBDA n : Op(g, n) = "Call" /\ Pin(g, n) = b)
  IN  Settled(g, FoldLeft(LAMBDA s, c : Called(g, Settled(g, s, b), c), r, calls), b)
Leaving(g, ran, b) ==
  [ran EXCEPT !.path = Append(@, b),
              !.result = {Value(g, ran.env, g[n].ins[3]) : n \in {n \in Pinned(g, b) : Op(g, n) = "Return"}}]
Enter(g, r, b, from) == Leaving(g, Through(g, TakePhis(g, r, b, from), b), b)

Go(g, r, next) ==
  IF r.result # {} \/ Cardinality(next) # 1 THEN r ELSE Enter(g, r, CHOOSE s \in next : TRUE, Last(r.path))
Step(g, r) == Go(g, r, Successors(g, r, Last(r.path)))

\* A run goes in stretches of some blocks, each ended before the next one begins.
Stretch == 16
Along(g, r) ==
  LET At[k \in 0 .. Stretch] == IF k = 0 THEN r ELSE Step(g, At[k - 1]) IN IF r.result # {} THEN r ELSE At[Stretch]

\* A run on given arguments, with given answers to its calls, cut off after some stretches.
Run(g, input) ==
  LET First(n) == IF Op(g, n) = "Param" THEN input.args[g[n].k] ELSE 0
      r0 == [env |-> Strict([n \in DOMAIN g |-> First(n)]), answers |-> input.answers, seen |-> <<>>,
             path |-> <<>>, result |-> {}, facts |-> <<>>, trap |-> FALSE]
      Behind[k \in 0 .. input.fuel] == IF k = 0 THEN Enter(g, r0, Start, Start) ELSE Along(g, Behind[k - 1])
  IN  Behind[input.fuel]

\* Run t shows what run s shows: the calls with their arguments and the value returned.
\* A run that traps promises nothing, and of one that is cut off only the beginning counts.
Shows(t, s) ==
  \/ s.trap
  \/ s.result = {} /\ IsPrefix(s.seen, t.seen)
  \/ s.result # {} /\ ~t.trap /\ t.result = s.result /\ t.seen = s.seen

-----------------------------------------------------------------------------
(* What the passes know of the control flow of a graph.                    *)

\* The blocks control may go to, in the order the edges are met.
After(h, b) ==
  LET To(n) == CASE Op(h, n) = "If" /\ Pin(h, n) = b -> UsersWith(h, n, Projections)
                 [] Op(h, n) = "Jump" /\ Pin(h, n) = b -> <<n>>
                 [] Op(h, n) = "Region" /\ b \in ToSet(h[n].ins) -> <<n>>
                 [] OTHER -> <<>>
  IN  FlattenSeq([n \in DOMAIN h |-> To(n)])

\* Depth first from the entry: the blocks in the order they are left, past the block gone.
RECURSIVE LeftFrom(_, _, _)
LeftFrom(next, b, met) ==
  IF b \in met.seen THEN met
  ELSE LET behind == FoldLeft(LAMBDA m, s : LeftFrom(next, s, m), [met EXCEPT !.seen = @ \cup {b}], next[b])
       IN  [behind EXCEPT !.post = Append(@, b)]
Order(next, gone) == Reverse(LeftFrom(next, Start, [seen |-> {gone}, post |-> <<>>]).post)
Edges(h) == Strict([b \in DOMAIN h |-> IF IsHead(h, b) THEN After(h, b) ELSE <<>>])

\* The blocks control reaches when it avoids one of them, or 0.
Reached(next, avoided) ==
  LET From[S \in SUBSET DOMAIN next] ==
        LET more == S \cup (UNION {ToSet(next[b]) : b \in S} \ {avoided}) IN IF more = S THEN S ELSE From[more]
  IN  IF avoided = Start THEN {} ELSE From[{Start}]

\* The dominators of each block that is reached: what no path to it avoids.
DomsFrom(next, reached) ==
  LET without == Strict([b \in DOMAIN next |-> IF b \in reached THEN Reached(next, b) ELSE {}])
  IN  Strict([b \in DOMAIN next |-> IF b \in reached THEN {a \in reached : b \notin without[a]} ELSE {}])
Doms(next) == DomsFrom(next, Reached(next, 0))
DomsOf(h) == Doms(Edges(h))
Dominates(d, a, b) == a = b \/ a \in d[b]

-----------------------------------------------------------------------------
(* Loops, a header with the blocks that come back to it.                   *)

Bodies(next, d) ==
  LET latches(hd) == {b \in DOMAIN next : hd \in ToSet(next[b]) /\ hd \in d[b]}
      Back(hd) == LET From[S \in SUBSET DOMAIN next] ==
                        LET more == S \cup {p \in DOMAIN next : \E s \in S \ {hd} : s \in ToSet(next[p])}
                        IN  IF more = S THEN S ELSE From[more]
                  IN  From[{hd} \cup latches(hd)]
  IN  {[header |-> hd, blocks |-> Back(hd)] : hd \in {b \in DOMAIN next : latches(b) # {}}}
InnerFirst(loops) == SortSeq(SetToSeq(loops), LAMBDA l, m : Cardinality(l.blocks) < Cardinality(m.blocks))

Entries(next, l) == {p \in DOMAIN next \ l.blocks : l.header \in ToSet(next[p])}
=============================================================================
