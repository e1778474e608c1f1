------------------------------ MODULE MCScalar ------------------------------
(***************************************************************************)
(* Functions for the scalar passes: families of small sources, each with   *)
(* the inputs it is run on.  Arithmetic enters at the first pass; branches *)
(* and loops over variables enter behind the memory passes, the            *)
(* comparisons in the form pass 12 has left them in.                       *)
(***************************************************************************)
EXTENDS Scalar, TLC

CONSTANTS
  Vars,
  Fuel, LongFuel,      \* the stretches of a run, through loops that are decided as they run or counted
  Families     \* the families that are compiled

B == INSTANCE SsaBuild

One(S) == {<<s>> : s \in S}
Bin(op, x, y) == <<"bin", op, x, y>>
Cmp(op, x, y) == <<"cmp", op, x, y>>
Un(op, x) == <<"un", op, x>>
L(ty, k) == <<"lit", ty, k>>
P == <<"arg", 1>>
Q == <<"arg", 2>>
X == <<"var", "x">>
Y == <<"var", "y">>

\* The builder's choice of a conversion (pick_cast).
Cast(x, from, to) ==
  <<"cast", CASE IsFloat(from) -> "FpToSi"
              [] IsFloat(to) -> "SiToFp"
              [] OTHER -> IF Bits(from) >= Bits(to) THEN "Trunc" ELSE IF IsSigned(from) THEN "SExt" ELSE "ZExt",
    x, to>>

-----------------------------------------------------------------------------
(* Arithmetic over two parameters, shown in calls.                         *)

Samples(ty) ==
  CASE ty = "i32" -> {-8, -1, 0, 3, 6}
    [] ty = "u32" -> {0, 3, 9, 15}
    [] ty = "f64" -> {-3, 0, 1, NaN}
    [] OTHER -> {-128, -1, 0, 3, 100}
Given(v, w, answers) == [args |-> <<v, w>>, answers |-> answers, fuel |-> Fuel]
Args(ty) == {Given(v, w, <<>>) : v \in Samples(ty), w \in Samples(ty)}

\* A function of two parameters that shows some terms.
Showing(ty, terms) ==
  [types |-> <<ty, ty>>, stmts |-> <<<<"show", terms>>>>, result |-> P, entry |-> 1, inputs |-> Args(ty)]

Ints == {"i32", "u32", "i64", "u64"}
IntOps == {"Add", "Sub", "Mul", "Div", "Mod", "And", "Or", "Xor", "Shl", "Shr"}

\* Every operation, with every operand that some pass knows.
Telling(ty) == {L(ty, 0), L(ty, 1), L(ty, 2), L(ty, 3), Un("BNot", L(ty, 0))}
OneOperation ==
  UNION {{Showing(ty, <<Bin(op, P, k), Bin(op, k, Q)>>) : op \in IntOps, k \in Telling(ty)} : ty \in Ints}
  \cup {Showing("u64", <<Bin(op, P, L("u64", -1)), Bin(op, L("u64", -1), Q)>>) : op \in IntOps}
  \cup {Showing(ty, <<Bin(op, P, Q), Bin(op, Q, Q)>>) : ty \in Ints, op \in IntOps}
  \cup {Showing("f64", <<Bin(op, P, Q), Bin(op, P, L("f64", 0)), Un("Neg", Un("Neg", Q))>>) :
          op \in {"Add", "Sub", "Mul", "Div"}}

\* What pass 12 and pass 16 look through.
Terms(ty) ==
  LET sum == Bin("Add", P, Q)  not == Un("BNot", P)
  IN  <<Bin("Sub", sum, Q), Bin("Sub", sum, P), Bin("Add", Bin("Sub", P, Q), Q),
        Bin("And", P, not), Bin("Or", not, P), Bin("Xor", P, not), Un("BNot", not), Un("Neg", Un("Neg", Q)),
        Bin("And", P, Bin("Or", P, Q)), Bin("Or", Bin("And", Q, P), P),
        Bin("Shr", Bin("Shl", P, L(ty, 2)), L(ty, 2)), Bin("Mul", sum, L(ty, 4)), Bin("Add", Q, P), Bin("Mul", Q, P),
        Bin("And", Bin("Or", P, L(ty, 3)), L(ty, 3))>>
TwoTerms ==
  {LET t == Terms(ty)[i]  u == Terms(ty)[((i + d) % 15) + 1] IN Showing(ty, <<t, Bin("Add", t, u)>>) :
     ty \in Ints, i \in 1 .. 15, d \in {3}}

Relations == {"Eq", "Ne", "Lt", "Le", "Gt", "Ge"}
OneComparison ==
  {Showing(ty, <<Cmp(r, P, Q), Un("Not", Un("Not", Cmp(r, Q, P))), Cmp(r, P, P)>>) : ty \in Ints \cup {"f64"}, r \in Relations}
  \cup {Showing(ty, <<Cmp(r, P, L(ty, 2)), Cmp(r, L(ty, 1), Q), Cmp(r, L(ty, 1), L(ty, 2))>>) : ty \in Ints \cup {"f64"}, r \in Relations}

\* Conversions there and back, and operations that pass 15 makes narrow.
Wide(ty) == IF ty = "i32" THEN "i64" ELSE "u64"
Back(x, ty) == Cast(x, Wide(ty), ty)
Forth(x, ty) == Cast(x, ty, Wide(ty))
OneConversion ==
  {Showing(from, <<Cast(P, from, to)>>) : from \in Ints, to \in Ints \cup {"f64"}}
  \cup {Showing("f64", <<Cast(P, "f64", to)>>) : to \in Ints}
  \cup {Showing(ty, <<Back(Forth(P, ty), ty), Back(Bin(op, Forth(P, ty), Forth(Q, ty)), ty)>>) :
          ty \in {"i32", "u32"}, op \in IntOps}
  \cup {Showing(ty, <<Back(Bin(op, Forth(P, ty), L(Wide(ty), k)), ty)>>) :
          ty \in {"i32", "u32"}, op \in IntOps, k \in {2, 100}}
  \cup {Showing(ty, <<Cast(Cast(P, ty, to), to, ty)>>) : ty \in {"i64", "u64"}, to \in {"i64", "u64"}}
  \cup {Showing(Wide(ty), <<Forth(Back(P, ty), ty), Back(Forth(Back(Q, ty), ty), ty)>>) : ty \in {"i32", "u32"}}

-----------------------------------------------------------------------------
(* Decisions on parameters.                                                *)

Flow(ty, entry, stmts, result) ==
  [types |-> <<ty, ty>>, stmts |-> stmts, result |-> result, entry |-> entry,
   inputs |-> {Given(v, w, a) : v \in Samples(ty), w \in Samples(ty), a \in {<<1>>, <<0>>}}]

Show(e) == <<"show", <<e>>>>
Shared(ty) == {Bin("Add", P, Q), Bin("Add", Q, P), Bin("Mul", Bin("Add", P, Q), L(ty, 4))}
Deciding ==
  {Flow("i64", 1, <<<<"if", c, <<Show(d)>>, <<Show(e)>>>>, Show(f)>>, Q) :
     c \in {Cmp("Lt", P, Q), Cmp("Eq", L("i64", 1), L("i64", 1))},
     d \in Shared("i64"), e \in Shared("i64"), f \in Shared("i64")}
  \cup {Flow("i64", 1, <<<<"while", <<"any", "i1">>, <<Show(d)>>>>, Show(f)>>, Q) : d \in Shared("i64"), f \in Shared("i64")}

\* One or two variables, each with a value per arm.
Arm(ty) == {P, Q, Bin("Add", P, Q), Bin("Mul", Bin("Add", P, Q), P)}
Choosing ==
  UNION {{Flow(ty, 40, <<<<"set", "x", P>>, <<"if", c, <<<<"set", "x", d>>>>, <<<<"set", "x", e>>>>>>, Show(X)>>, X) :
            c \in {Cmp("Gt", P, Q), Cmp("Ge", Q, P), Cmp("Eq", P, Q)}, d \in Arm(ty), e \in Arm(ty)} : ty \in {"i64", "f64"}}
  \cup {Flow("i64", 40, <<<<"if", Cmp("Gt", P, Q), <<<<"set", "x", d>>, <<"set", "y", e>>>>, <<f>>>>, Show(Y)>>, X) :
          d \in Arm("i64"), e \in Arm("i64"), f \in {<<"set", "y", P>>, <<"call", "x", <<Q>>>>}}
  \cup {Flow("f64", 40, <<<<"set", "x", Bin("Mul", P, Q)>>, <<"set", "y", Bin("Mul", P, Q)>>,
                          <<"if", Cmp(r, X, Y), <<>>, <<<<"set", "x", Y>>>>>>>>, X) : r \in {"Gt", "Ge"}}

-----------------------------------------------------------------------------
(* Branches and loops over variables.                                      *)

Lit(k) == L("i64", k)
Is64(v, k) == Cmp("Eq", v, Lit(k))
Unknown == <<"any", "i1">>
Conds == {L("i1", 0), L("i1", 1), Is64(X, 0), Is64(X, 1), Unknown}
Inc(x) == <<"set", x, Bin("Add", <<"var", x>>, Lit(1))>>
IncX == Inc("x")
SetX == <<"set", "x", Lit(1)>>
CallX == <<"call", "x", <<>>>>
CopyY == <<"set", "x", Y>>
First == {SetX, CallX}
Exits == {<<"break">>, <<"continue">>, <<"return", X>>}

Ifs(C, S, T) == {<<"if", c, s, t>> : c \in C, s \in S, t \in T}
Whiles(C, S) == {<<"while", c, s>> : c \in C, s \in S}

Answering == {[args |-> <<>>, answers |-> <<a, b, 1>>, fuel |-> Fuel] : a \in {0, 1}, b \in {0, 1}}
Over(programs) == {[types |-> <<>>, stmts |-> p, result |-> X, entry |-> 40, inputs |-> Answering] : p \in programs}

\* Two decisions in a row, the second on what the first left.
Branching ==
  {<<s, i, j>> : s \in First,
                 i \in Ifs(Conds, One({CopyY, IncX, <<"return", X>>}), {<<>>, <<CallX>>}),
                 j \in Ifs({Is64(X, 0), Is64(X, 1)}, One({IncX, Inc("y")}), {<<>>})}

\* A loop that decides something and goes on, leaves, or starts over.
Looping ==
  {<<s, w>> : s \in First,
              w \in Whiles(Conds, {<<i, t>> : i \in Ifs(Conds, One(Exits \cup {IncX}), {<<>>}), t \in {IncX, SetX}})}

\* A decision inside a decision inside a loop, and a loop inside a loop.
Nested ==
  {<<w>> : w \in Whiles({Unknown, Is64(X, 0)},
                        One(Ifs(Conds, One(Ifs(Conds, One({<<"break">>, IncX}), {<<>>})), {<<IncX>>})))}
LoopInLoop ==
  {<<w, IncX>> :
     w \in Whiles(Conds, {<<v, t>> : v \in Whiles(Conds, One({IncX, <<"break">>, <<"call", "y", <<>>>>})),
                                    t \in {Inc("y"), <<"break">>, CopyY}})}

\* A counted loop, left, continued or run to its end.
CountedLoops ==
  {<<f, s>> : f \in {<<"for", "y", k, b>> : k \in {0, 2}, b \in {<<i, t>> : i \in Ifs(Conds, One(Exits \cup {IncX}), {<<>>}),
                                                            t \in {IncX, SetX, <<"break">>}}},
              s \in {IncX, CopyY}}

\* "and" and "or", shown, decided on, looped on and nested on either side.
Firsts == {Cmp("Lt", P, Q), Cmp("Eq", Bin("Add", P, Q), Lit(0)), Unknown}
Short(C) == {<<op, c, d>> : op \in {"and", "or"}, c \in C, d \in C}
Third == Cmp("Ne", P, Lit(0))
Inner == Short({Cmp("Lt", P, Q), Unknown})
Twice == UNION {{<<op, s, Third>>, <<op, Third, s>>} : op \in {"and", "or"}, s \in Inner}
Signs(f) == [f EXCEPT !.inputs = {Given(v, w, a) : v \in {-3, 0, 3}, w \in {-3, 0, 3}, a \in {<<1>>, <<0>>}}]
Shortcut ==
  {Signs(Flow("i64", 1, <<Show(s), <<"if", s, <<Show(P)>>, <<Show(Q)>>>>>>, Q)) : s \in Short(Firsts)}
  \cup {Signs(Flow("i64", 1, <<<<"if", s, <<Show(P)>>, <<>>>>>>, Q)) : s \in Twice}
  \cup Over({<<<<"while", s, <<IncX>>>>, Inc("y")>> : s \in Short({Cmp("Lt", X, Lit(2)), Cmp("Ne", X, Y), Unknown})})

-----------------------------------------------------------------------------
(* Loops with a count that can be told: up to a bound, by steps of one or  *)
(* two, the operands either way round, with calls, decisions and loops in  *)
(* their bodies.                                                           *)

From(k) == <<"set", "x", Lit(k)>>
By(k) == <<"set", "x", Bin("Add", X, Lit(k))>>
SumY == <<"set", "y", Bin("Add", Y, X)>>
Counting(from, cond, body, step) == <<From(from), <<"while", cond, Append(body, By(step))>>, Show(Y)>>
Tested(entry, programs) ==
  {[types |-> <<>>, stmts |-> p, result |-> X, entry |-> entry,
    inputs |-> {[args |-> <<>>, answers |-> a, fuel |-> LongFuel] : a \in {<<>>, <<1, 0, 1, 1>>}}] : p \in programs}

Contents == {<<Show(X), SumY>>, <<<<"call", "y", <<Y>>>>>>, <<<<"if", Unknown, <<SumY>>, <<>>>>>>,
           <<<<"while", Unknown, <<Inc("y")>>>>, Show(Y)>>, <<<<"if", Unknown, <<<<"break">>>>, <<>>>>>>}
Bounded ==
  {Counting(0, Cmp("Lt", X, Lit(k)), b, 1) : k \in 5 .. 9, b \in Contents}
  \cup {Counting(from, c, <<Show(X), SumY>>, step) :
          from \in {0, 1}, step \in {1, 2}, c \in {Cmp("Le", X, Lit(8)), Cmp("Gt", Lit(17), X), Cmp("Ge", Lit(9), X), Cmp("Ne", X, Lit(9))}}
  \cup {<<From(0), <<"while", Cmp("Lt", X, Lit(6)), <<<<"for", "y", k, <<Show(X)>>>>, IncX>>>>>> : k \in {2, 7}}

-----------------------------------------------------------------------------
(* Functions that a pass breaks.                                           *)

Checked(division) == <<"if", Cmp("Ne", Q, Lit(0)), <<<<"set", "x", division>>>>, <<>>>>
Nine(x, body) == <<<<"set", x, Lit(0)>>, <<"while", Cmp("Lt", <<"var", x>>, Lit(9)), Append(body, Inc(x))>>>>
Broken ==
  [never |-> Tested(40, {Counting(0, Cmp("Gt", X, Lit(9)), <<SumY>>, 1)}),
   reread |-> Tested(9, {Counting(0, Cmp("Lt", X, Lit(9)), <<<<"if", Cmp("Lt", X, Lit(9)), <<Show(X)>>, <<>>>>>>, 1)}),
   peeled |-> Tested(40, {Nine("x", Nine("y", <<<<"while", Unknown, <<>>>>, Show(Y)>>))}),
   shortcut |-> {Flow("i64", 1, <<Show(<<"and", Cmp("Ne", Q, Lit(0)), Cmp("Gt", Bin("Div", P, Q), Lit(1))>>)>>, P)},
   difference |-> {Showing("i64", <<Bin("Add", Bin("Sub", P, Q), P)>>)},
   scaled |-> {Showing("u64", <<Bin("Div", Bin("Mul", P, L("u64", 3)), L("u64", 3))>>)},
   division |-> {Flow("i64", 40, <<Checked(Bin("Div", P, Q))>>, X)},
   payload |-> {Showing("i32", <<Cmp("Gt", Bin("Add", L("i32", 7), L("i32", 1)), L("i32", 0))>>)},
   conversion |-> {Showing("i32", <<Cast(Cast(P, "i32", "i64"), "i64", "u32")>>)},
   region |-> {Flow("i64", 1, <<<<"if", Cmp("Lt", P, Q), <<Show(P)>>,
                                  <<<<"if", Cmp("Eq", Lit(1), Lit(1)), <<Show(Q)>>, <<>>>>>>>>, Show(P)>>, P)}]

Sourced ==
  UNION {CASE f = "operations" -> OneOperation
           [] f = "terms" -> TwoTerms
           [] f = "comparisons" -> OneComparison
           [] f = "conversions" -> OneConversion
           [] f = "decisions" -> Deciding
           [] f = "choices" -> Choosing
           [] f = "branches" -> Over(Branching)
           [] f = "loops" -> Over(Looping)
           [] f = "nested" -> Over(Nested)
           [] f = "loops in loops" -> Over(LoopInLoop)
           [] f = "counted" -> Over(CountedLoops)
           [] f = "shortcuts" -> Shortcut
           [] f = "repeated" -> Tested(40, Bounded)
           [] f \in DOMAIN Broken -> Broken[f] : f \in Families}
MCSources == {[g |-> B!Build(f.types, f.stmts, f.result), entry |-> f.entry, inputs |-> f.inputs] : f \in Sourced}
=============================================================================
