------------------------------ MODULE SsaBuild ------------------------------
(***************************************************************************)
(* From a structured function to the graph the passes see once its         *)
(* variables have left memory: the builder's control and memory for if,    *)
(* while, break, continue and return, and a value phi for each variable at *)
(* each region whose predecessors disagree about it.                       *)
(*                                                                         *)
(* The builder's state: the graph, the block and the memory version it     *)
(* writes under, the value of each variable, the innermost loop and the    *)
(* edges collected for it; blk = 0 stands behind a return or a break,      *)
(* where nothing is kept.                                                  *)
(***************************************************************************)
EXTENDS SonGraph, Functions

CONSTANT Vars

Add(s, node) == [s EXCEPT !.g = Make(@, node)]
New(s) == Len(s.g) + 1
Alive(s) == s.blk # 0
TypeOf(s, n) == s.g[n].ty

Call(s, args, ty) ==
  [Add(s, Node("Call", "", ty, <<s.blk, s.mem>> \o args, New(s))) EXCEPT !.mem = New(s)]

\* What reaches a region: per predecessor its block, memory and variables.
Edge(s) == [blk |-> s.blk, mem |-> s.mem, var |-> s.var]

Each(edges, F(_)) == [i \in DOMAIN edges |-> F(edges[i])]
Extend(g, n, more) == [g EXCEPT ![n].ins = @ \o more]

\* A region and its memory phi, entered along the edges.
Region(s, edges) ==
  Add(Add(s, Control("Region", Each(edges, LAMBDA e : e.blk))),
      Operation("Phi", "", "mem", <<New(s)>> \o Each(edges, LAMBDA e : e.mem)))

\* The If on the condition just emitted, and its two projections.
Split(c) ==
  Add(Add(Add(c, Control("If", <<c.blk, c.val>>)), Control("IfTrue", <<New(c)>>)), Control("IfFalse", <<New(c)>>))
TrueArm(s) == [s EXCEPT !.blk = Len(s.g) - 1]
FalseArm(s) == [s EXCEPT !.blk = Len(s.g)]

\* Of "and" and "or", the arm that looks at the second operand, and the one that knows.
Asking(op, b) == IF op = "and" THEN TrueArm(b) ELSE FalseArm(b)
Knowing(op, b) == IF op = "and" THEN FalseArm(b) ELSE TrueArm(b)

\* The two meet: b is the state behind the split, r the one behind the second operand.
Merging(c, r, value, known) ==
  LET t == Region(c, <<Edge(r), Edge(known)>>)
  IN  [Add(t, Operation("Phi", "", "i1", <<New(c), value, New(r)>>)) EXCEPT !.blk = New(c), !.mem = New(c) + 1, !.val = New(t)]
Short(op, b, r) ==
  Merging(Add(r, Constant(Knowing(op, b).blk, "i1", Truth(op = "or"))), r, r.val, Knowing(op, b))

\* An expression leaves its value in val: a literal, a variable, or an operation on
\* expressions, which are emitted first and from the left, the second of "and" and "or"
\* in a block of its own.
RECURSIVE Expression(_, _)
Expression(s, e) ==
  LET Emitted(t, node) == [Add(t, node) EXCEPT !.val = New(t)]
      Both(op, ty) ==
        LET l == Expression(s, e[3])
            r == Expression(l, e[4])
            of == IF ty = "" THEN TypeOf(l, l.val) ELSE ty
        IN  Emitted(r, Operation(op, e[2], of, <<r.blk, l.val, r.val>>))
      Of(op, ty) ==
        LET x == Expression(s, e[3])
        IN  Emitted(x, Operation(op, e[2], IF ty = "" THEN TypeOf(x, x.val) ELSE ty, <<x.blk, x.val>>))
      Decided(b) == Short(e[1], b, Expression(Asking(e[1], b), e[3]))
  IN CASE e[1] = "lit" -> Emitted(s, Constant(s.blk, e[2], e[3]))
       [] e[1] = "var" -> [s EXCEPT !.val = s.var[e[2]]]
       [] e[1] = "arg" -> [s EXCEPT !.val = s.args[e[2]]]
       [] e[1] = "bin" -> Both("Bin", "")
       [] e[1] = "cmp" -> Both("Cmp", "i1")
       [] e[1] = "un"  -> Of("Un", "")
       [] e[1] = "cast" -> Of("Cast", e[4])
       [] e[1] \in {"and", "or"} -> Decided(Split(Expression(s, e[2])))
       [] e[1] = "any" -> [Call(s, <<>>, e[2]) EXCEPT !.val = New(s)]

Expressions(s, es) ==
  LET Next(t, e) == LET u == Expression(t, e) IN [u EXCEPT !.vals = Append(t.vals, u.val)]
  IN  FoldLeft(Next, [s EXCEPT !.vals = <<>>], es)

ValuePhi(s, r, values) == Operation("Phi", "", TypeOf(s, values[1]), <<r>> \o values)

\* Behind region r: a value phi for each variable the edges disagree about.
Behind(s, r, edges) ==
  LET Phi(x, t) ==
        IF \A i \in DOMAIN edges : edges[i].var[x] = edges[1].var[x]
        THEN [t EXCEPT !.var[x] = edges[1].var[x]]
        ELSE [Add(t, ValuePhi(t, r, Each(edges, LAMBDA e : e.var[x]))) EXCEPT !.var[x] = New(t)]
  IN  FoldSet(Phi, [s EXCEPT !.blk = r, !.mem = r + 1], Vars)

Branch(s, cond) == Split(Expression(s, cond))

Assigned(stmts) ==
  LET RECURSIVE In(_)
      In(ss) == UNION {CASE ss[i][1] \in {"set", "call"} -> {ss[i][2]}
                         [] ss[i][1] = "if" -> In(ss[i][3]) \cup In(ss[i][4])
                         [] ss[i][1] = "while" -> In(ss[i][3])
                         [] ss[i][1] = "for" -> {ss[i][2]} \cup In(ss[i][4])
                         [] OTHER -> {} : i \in DOMAIN ss}
  IN  In(stmts)

-----------------------------------------------------------------------------
(* Loops.  The regions of the header and the exit, and of a for loop's     *)
(* step, stand before the body and get their other inputs after it: the    *)
(* context of the loop remembers them, and collects the edges.             *)

Nothing == "-"      \* what a while loop counts

Header(s, carried, counter) ==
  LET Phi(t, x) == [Add(t, ValuePhi(t, t.blk, <<t.var[x]>>)) EXCEPT !.var[x] = New(t)]
      loop == [header |-> New(s), exit |-> 0, carried |-> carried, counter |-> counter]
  IN  FoldLeft(Phi, [Region(s, <<Edge(s)>>) EXCEPT !.blk = New(s), !.mem = New(s) + 1,
                                                   !.loop = loop, !.continues = <<>>], carried)

\* The exit is first reached by the condition's false arm.
Exit(s) == [Region(s, <<>>) EXCEPT !.loop.exit = New(s), !.breaks = <<Edge(FalseArm(s))>>,
                                   !.blk = Len(s.g) - 1]

StepOf(s) == s.loop.exit + 2
Stepped(s) == IF s.loop.counter = Nothing THEN s ELSE Add(Region(s, <<>>), Control("Jump", <<New(s)>>))

\* What the body ends with: the continues it collected, and its own end.
Ends(s) == s.continues \o (IF Alive(s) THEN <<Edge(s)>> ELSE <<>>)

Closed(g, r, edges) ==
  Extend(Extend(g, r, Each(edges, LAMBDA e : e.blk)), r + 1, Each(edges, LAMBDA e : e.mem))
Met(s, r, edges) == Behind([s EXCEPT !.g = Closed(@, r, edges)], r, edges)

\* In a for loop the ends of the body meet in the step's region, and behind the jump that
\* follows it the counter is bumped.  A body that never gets there leaves them to pass 1.
Set(s, x, e) == LET t == Expression(s, e) IN [t EXCEPT !.var[x] = t.val]
Bumped(s, x) == Set([s EXCEPT !.continues = <<>>], x, <<"bin", "Add", <<"var", x>>, <<"lit", TypeOf(s, s.var[x]), 1>>>>)
Counted(s) ==
  IF s.loop.counter = Nothing THEN s
  ELSE IF Ends(s) = <<>>
       THEN [s EXCEPT !.g = [n \in DOMAIN @ |-> IF n \in StepOf(s) .. StepOf(s) + 2 THEN Kill(@, n)[n] ELSE @[n]]]
       ELSE Bumped([Met(s, StepOf(s), Ends(s)) EXCEPT !.blk = StepOf(s) + 2], s.loop.counter)

Backedges(s) ==
  LET Carry(g, i) ==
        Extend(g, s.loop.header + 1 + i, Each(Ends(s), LAMBDA e : e.var[s.loop.carried[i]]))
  IN  [s EXCEPT !.g = FoldLeft(Carry, Closed(@, s.loop.header, Ends(s)), [i \in DOMAIN s.loop.carried |-> i])]

Outside(s, t) == [t EXCEPT !.loop = s.loop, !.breaks = s.breaks, !.continues = s.continues]
Left(t) == Met(t, t.loop.exit, t.breaks)

RECURSIVE Statement(_, _), Statements(_, _)

Loop(s, cond, body, counter) ==
  LET carried == SetToSeq(Assigned(body) \cup ({counter} \ {Nothing}))
  IN  Outside(s, Left(Backedges(Counted(Statements(Stepped(Exit(Branch(Header(s, carried, counter), cond))), body)))))

-----------------------------------------------------------------------------
Merged(s1, s2) ==
  CASE Alive(s1) /\ Alive(s2) -> Behind(Region(s2, <<Edge(s1), Edge(s2)>>), New(s2), <<Edge(s1), Edge(s2)>>)
    [] Alive(s1) /\ ~Alive(s2) -> [s2 EXCEPT !.blk = s1.blk, !.mem = s1.mem, !.var = s1.var]
    [] OTHER -> s2
ElseArm(s, s1, else) ==
  Merged(s1, Statements([s1 EXCEPT !.blk = Len(s.g), !.mem = s.mem, !.var = s.var], else))
Arms(s, then, else) == ElseArm(s, Statements(TrueArm(s), then), else)
Conditional(s, cond, then, else) == Arms(Branch(s, cond), then, else)

Statement(s, t) ==
  IF ~Alive(s) THEN s
  ELSE CASE t[1] = "set"  -> Set(s, t[2], t[3])
         [] t[1] = "call" -> LET u == Expressions(s, t[3]) IN [Call(u, u.vals, "i64") EXCEPT !.var[t[2]] = New(u)]
         [] t[1] = "show" -> LET u == Expressions(s, t[2]) IN Call(u, u.vals, "i64")
         [] t[1] = "if"   -> Conditional(s, t[2], t[3], t[4])
         [] t[1] = "while" -> Loop(s, t[2], t[3], Nothing)
         [] t[1] = "for"  -> Loop(Set(s, t[2], <<"lit", "i64", 0>>),
                                  <<"cmp", "Lt", <<"var", t[2]>>, <<"lit", "i64", t[3]>>>>, t[4], t[2])
         [] t[1] = "break" -> [s EXCEPT !.breaks = Append(@, Edge(s)), !.blk = 0]
         [] t[1] = "continue" -> [s EXCEPT !.continues = Append(@, Edge(s)), !.blk = 0]
         [] t[1] = "return" -> LET u == Expression(s, t[2])
                             IN  [Add(u, Control("Return", <<u.blk, u.mem, u.val>>)) EXCEPT !.blk = 0]

Statements(s, ts) == IF ts = <<>> THEN s ELSE Statements(Statement(s, Head(ts)), Tail(ts))

\* The whole function of parameters of the given types: Start, Stop, the parameters, a
\* first value for each variable, the statements, a return, and Stop's list of returns.
Build(types, stmts, result) ==
  LET params == [i \in DOMAIN types |-> Node("Param", "", types[i], <<1>>, i)]
      zero == 3 + Len(types)
      s0 == [g |-> <<Control("Start", <<>>), Control("Stop", <<>>)>> \o params \o <<Constant(1, "i64", 0)>>,
             blk |-> 1, mem |-> 1, var |-> [x \in Vars |-> zero], args |-> [i \in DOMAIN types |-> 2 + i],
             val |-> 0, vals |-> <<>>, breaks |-> <<>>, continues |-> <<>>,
             loop |-> [header |-> 0, exit |-> 0, carried |-> <<>>, counter |-> Nothing]]
      s1 == Statement(Statements(s0, stmts), <<"return", result>>)
  IN  [s1.g EXCEPT ![2].ins = SetToSortSeq(NodesOf(s1.g, "Return"), <)]
=============================================================================
