------------------------------- MODULE Parser -------------------------------
(***************************************************************************)
(* The recursive-descent parser, jules/src/core/parser/parser.cpp, on any  *)
(* token stream: declarations, statements and expressions, the recovery    *)
(* after an error, and the syntax tree that is left.                       *)
(*                                                                         *)
(* A parser state is [i, err, bad, lost, stuck]: the position, errored_,   *)
(* whether a diagnostic was given, whether something that was read is not  *)
(* in the tree, and whether a loop came round without moving.  A parsing   *)
(* operator returns [p, t], the state and the tree (or [p, ts, ..], a      *)
(* list).  The limit on the nesting depth is left out, and so are the      *)
(* limits on the numbers of arguments and type slots.                      *)
(***************************************************************************)
EXTENDS Integers, Sequences, FiniteSets, SequencesExt, TLC

CONSTANTS Names,     \* the texts of identifier tokens
          Numbers,   \* the texts of integer literals
          Templates  \* [slots, legal]: what the input is made of, slot by slot,
                     \* and whether every choice is a program of the language

VARIABLES input,  \* the template's slots that are still to be chosen
          legal,
          toks,   \* the token stream
          ps,     \* the parser's state
          decls   \* the declarations parsed

vars == <<input, legal, toks, ps, decls>>

Begin == [i |-> 1, err |-> FALSE, bad |-> FALSE, lost |-> FALSE, stuck |-> FALSE]

(***************************************************************************)
(* Tokens.                                                                 *)
(***************************************************************************)
KindAt(i) == LET t == toks[i] IN IF t \in Names THEN "id" ELSE IF t \in Numbers THEN "int" ELSE t
Cur(p) == toks[p.i]
At(p, k) == KindAt(p.i) = k
AtAny(p, ks) == KindAt(p.i) \in ks
Advance(p) == IF p.i < Len(toks) THEN [p EXCEPT !.i = @ + 1] ELSE p
Accept(p, k) == IF At(p, k) THEN Advance(p) ELSE p
Fail(p) == [p EXCEPT !.err = TRUE, !.bad = TRUE]
\* A missing token is reported and the one in its place is skipped.
Expect(p, k) == IF At(p, k) THEN Advance(p) ELSE Advance(Fail(p))
Lose(p, if) == IF if THEN [p EXCEPT !.lost = TRUE] ELSE p

RECURSIVE SkipTo(_, _)
SkipTo(p, ks) == IF AtAny(p, ks \cup {"eof"}) THEN p ELSE SkipTo(Advance(p), ks)

(***************************************************************************)
(* Trees.                                                                  *)
(***************************************************************************)
Null == [k |-> "null", op |-> "", kids |-> << >>, ty |-> << >>, par |-> 0, trail |-> FALSE]
Node(k, op, kids) == [Null EXCEPT !.k = k, !.op = op, !.kids = kids]
R(p, t) == [p |-> p, t |-> t]

\* The name an expression carries, which is all that a call keeps of its callee.
NameOf(e) == IF e.k \in {"atom", "lit", "field", "method", "call"} /\ e.op # "true" THEN e.op ELSE ""
Callee(e) == IF e.k = "atom" THEN e ELSE Node("atom", NameOf(e), << >>)

(***************************************************************************)
(* Types.                                                                  *)
(***************************************************************************)
RECURSIVE ParseType(_)
ParseType(p) ==
  IF At(p, "*")
  THEN LET q == Advance(p)
           r == IF At(q, "const") \/ Cur(q) = "mut" THEN Advance(q) ELSE Fail(q)
           to == ParseType(r)
       IN  IF At(r, "*") THEN [p |-> Fail(r), ty |-> << >>]
           ELSE [to EXCEPT !.ty = <<"*", Cur(q)>> \o @]
  ELSE IF At(p, "id") THEN [p |-> Advance(p), ty |-> <<Cur(p)>>] ELSE [p |-> Fail(p), ty |-> << >>]

(***************************************************************************)
(* Expressions.                                                            *)
(***************************************************************************)
\* Every rule calls the others through Parse (min is an expression's).
RECURSIVE Parse(_, _, _)

Prec(k) ==
  CASE k = "||" -> 1 [] k = "&&" -> 2 [] k = "==" -> 3 [] k = "<" -> 4 [] k = "|" -> 5 [] k = "^" -> 6
    [] k = "&" -> 7 [] k = "<<" -> 8 [] k \in {"+", "-"} -> 9 [] k \in {"*", "/"} -> 10 [] OTHER -> 0

\* One item of a list with commas, or none where the code breaks out of its loop.
Item(p, kind) ==
  LET name == At(p, "id")
      n == Advance(p)
      value == IF At(n, "=") THEN Parse("expr", Advance(n), 0) ELSE R(n, Null)
      colon == Expect(n, ":")
  IN  CASE kind = "arg" -> Parse("expr", p, 0) @@ [ok |-> TRUE]
        [] kind # "arg" /\ ~name -> [p |-> Fail(p), t |-> Null, ok |-> FALSE]
        [] kind = "init" /\ name ->
             LET r == Parse("expr", colon, 0) IN [p |-> r.p, t |-> Node("init", Cur(p), <<r.t>>), ok |-> TRUE]
        [] kind = "typed" /\ name ->
             LET r == ParseType(colon) IN [p |-> r.p, t |-> [Node("typed", Cur(p), << >>) EXCEPT !.ty = r.ty], ok |-> TRUE]
        [] kind = "variant" /\ name ->
             [p |-> value.p, t |-> Node("variant", Cur(p), IF At(n, "=") THEN <<value.t>> ELSE << >>), ok |-> TRUE]
        [] kind = "segment" /\ name ->
             IF ~At(colon, "int") THEN [p |-> Fail(colon), t |-> Null, ok |-> FALSE]
             ELSE [p |-> Advance(IF Cur(colon) = "0" THEN Fail(colon) ELSE colon),
                   t |-> [Node("typed", Cur(p), << >>) EXCEPT !.ty = <<Cur(colon)>>], ok |-> TRUE]

RECURSIVE Items(_, _, _, _)
Items(p, kind, close, ts) ==
  IF AtAny(p, {close, "eof"}) THEN [p |-> p, ts |-> ts, trail |-> ts # << >>]
  ELSE LET r == Item(p, kind)
       IN  IF r.ok /\ At(r.p, ",") THEN Items(Advance(r.p), kind, close, Append(ts, r.t))
           ELSE [p |-> r.p, ts |-> IF r.ok THEN Append(ts, r.t) ELSE ts, trail |-> FALSE]

\* The list and the token that closes it.
Listed(p, kind, close, node) ==
  LET l == Items(p, kind, close, << >>)
  IN  R(Expect(l.p, close), [node EXCEPT !.kids = @ \o l.ts, !.trail = l.trail])

\* A name is a struct literal if '{ name :' follows it.
OpensLiteral_AnyName(p) == At(p, "{") /\ KindAt(p.i + 1) = "id"
OpensLiteral(p) == At(p, "{") /\ KindAt(p.i + 1) = "id" /\ KindAt(p.i + 2) = ":"

ParsePrimary(p) ==
  CASE AtAny(p, {"int", "true"}) -> R(Advance(p), Node("atom", Cur(p), << >>))
    [] At(p, "id") ->
         IF OpensLiteral(Advance(p)) THEN Listed(Advance(Advance(p)), "init", "}", Node("lit", Cur(p), << >>))
         ELSE R(Advance(p), Node("atom", Cur(p), << >>))
    [] At(p, "(") ->
         LET r == Parse("expr", Advance(p), 0) IN R(Expect(r.p, ")"), [r.t EXCEPT !.par = @ + 1])
    [] OTHER -> R(Advance(Fail(p)), Null)

RECURSIVE Postfixes(_, _)
Postfixes(p, e) ==
  LET q == Advance(p) IN
  CASE At(p, "as") ->
         LET r == ParseType(q) IN Postfixes(r.p, [Node("cast", "as", <<e>>) EXCEPT !.ty = r.ty])
    [] At(p, "[") ->
         LET r == Parse("expr", q, 0) IN Postfixes(Expect(r.p, "]"), Node("index", "", <<e, r.t>>))
    [] At(p, ".") /\ ~At(q, "id") -> R(Fail(q), e)
    [] At(p, ".") /\ At(q, "id") ->
         IF At(Advance(q), "(")
         THEN LET r == Listed(Advance(Advance(q)), "arg", ")", Node("method", Cur(q), <<e>>)) IN Postfixes(r.p, r.t)
         ELSE Postfixes(Advance(q), Node("field", Cur(q), <<e>>))
    [] At(p, "(") ->
         LET r == Listed(q, "arg", ")", Node("call", NameOf(e), <<Callee(e)>>))
         IN  Postfixes(Lose(r.p, e.k # "atom" \/ e.op = "true"), r.t)
    [] OTHER -> R(p, e)

ParsePostfix(p) ==
  IF At(p, "*") THEN LET r == Parse("postfix", Advance(p), 0) IN R(r.p, Node("deref", "*", <<r.t>>))
  ELSE LET r == ParsePrimary(p) IN IF r.p.err THEN r ELSE Postfixes(r.p, r.t)

ParseUnary(p) ==
  LET q == Advance(p) IN
  CASE At(p, "comptime") /\ At(q, "{") -> LET r == Parse("block", q, 0) IN R(r.p, Node("run", "comptime", <<r.t>>))
    [] At(p, "comptime") /\ ~At(q, "{") ->
         LET r == Parse("postfix", q, 0)
         IN  R(IF r.t.k = "call" THEN r.p ELSE Fail(r.p), Node("run", "comptime", <<r.t>>))
    [] AtAny(p, {"-", "!", "&"}) -> LET r == Parse("unary", q, 0) IN R(r.p, Node("unary", Cur(p), <<r.t>>))
    [] OTHER -> ParsePostfix(p)

\* Whether an operator that begins after an operand of precedence min is its own.
Binds_Right(k, min) == Prec(k) # 0 /\ Prec(k) >= min - 1
Binds(k, min) == Prec(k) # 0 /\ Prec(k) >= min

RECURSIVE Operators(_, _, _)
Operators(p, l, min) ==
  IF ~Binds(KindAt(p.i), min) THEN R(p, l)
  ELSE LET r == Parse("expr", Advance(p), Prec(Cur(p)) + 1)
           e == Node("binary", Cur(p), <<l, r.t>>)
       IN  IF r.p.err THEN R(r.p, e) ELSE Operators(r.p, e, min)

ParseExpr(p, min) ==
  IF p.err THEN R(p, Null)
  ELSE LET l == Parse("unary", p, 0) IN IF l.p.err THEN l ELSE Operators(l.p, l.t, min)

(***************************************************************************)
(* Statements.                                                             *)
(***************************************************************************)
Terminated(r) == [r EXCEPT !.p = Expect(@, ";")]

\* After an error the rest of the statement is skipped.
Recovered(p) == IF p.err THEN [Accept(SkipTo(p, {";", "}"}), ";") EXCEPT !.err = FALSE] ELSE p

RECURSIVE Statements(_, _)
Statements(p, ts) ==
  IF AtAny(p, {"}", "eof"}) THEN R(p, Node("block", "", ts))
  ELSE LET r == Parse("stmt", p, 0)
           q == Recovered(r.p)
       IN  IF q = p THEN R([p EXCEPT !.stuck = TRUE], Null) ELSE Statements(q, Append(ts, r.t))

ParseBlock(p) ==
  IF ~At(p, "{") THEN R(Expect(p, "{"), Node("block", "", << >>))
  ELSE LET r == Statements(Advance(p), << >>) IN R(Expect(r.p, "}"), r.t)

ParseLet(p) ==
  LET n == Advance(p)
      ty == IF At(Advance(n), ":") THEN ParseType(Advance(Advance(n))) ELSE [p |-> Advance(n), ty |-> << >>]
      v == IF At(ty.p, "=") THEN Parse("expr", Advance(ty.p), 0)
           ELSE R(IF At(p, "let") THEN Fail(ty.p) ELSE ty.p, Null)
      t == [Node(Cur(p), Cur(n), IF At(ty.p, "=") THEN <<v.t>> ELSE << >>) EXCEPT !.ty = ty.ty]
  IN  IF At(n, "id") THEN Terminated(R(v.p, t)) ELSE R(Fail(n), Null)

ParseReturn(p) ==
  LET q == Advance(p)
      r == Parse("expr", q, 0)
  IN  IF At(q, ";") THEN R(Advance(q), Node("return", "", << >>))
      ELSE Terminated(R(r.p, Node("return", "", <<r.t>>)))

ParseIf(p) ==
  LET c == Parse("expr", Advance(p), 0)
      b == Parse("block", c.p, 0)
      e == IF At(Advance(b.p), "if") THEN Parse("if", Advance(b.p), 0) ELSE Parse("block", Advance(b.p), 0)
  IN  IF At(b.p, "else") THEN R(e.p, Node("if", "if", <<c.t, b.t, e.t>>)) ELSE R(b.p, Node("if", "if", <<c.t, b.t>>))

ParseWhile(p) ==
  LET c == Parse("expr", Advance(p), 0)
      b == Parse("block", c.p, 0)
  IN  R(b.p, Node("if", "while", <<c.t, b.t>>))

ParseFor(p) ==
  LET n == Advance(p)
      from == Parse("expr", Expect(Advance(n), "in"), 0)
      to == Parse("expr", Expect(from.p, ".."), 0)
      b == Parse("block", to.p, 0)
  IN  IF At(n, "id") THEN R(b.p, Node("for", Cur(n), <<from.t, to.t, b.t>>)) ELSE R(Fail(n), Null)

ParseDefer(p) ==
  LET r == IF At(Advance(p), "{") THEN Parse("block", Advance(p), 0) ELSE Parse("stmt", Advance(p), 0)
  IN  R(r.p, Node("defer", "", <<r.t>>))

\* '*' expr '=' stores through a pointer; a name, a field and an element are
\* assigned to; anything else is an expression.
ParseExprOrAssign(p) ==
  LET named == At(p, "id") /\ KindAt(p.i + 1) = "="
      l == IF named THEN R(Advance(p), Node("atom", Cur(p), << >>)) ELSE Parse("expr", p, 0)
      places == IF named THEN {"atom"} ELSE IF At(p, "*") THEN {"deref"} ELSE {"field", "index"}
      q == IF l.t.k \in places THEN l.p ELSE Fail(l.p)
      v == Parse("expr", Advance(q), 0)
  IN  IF ~At(l.p, "=") THEN Terminated(R(l.p, Node("expr", "", <<l.t>>)))
      ELSE IF l.t.k \notin places /\ ~At(p, "*") THEN Terminated(R(Advance(q), Null))
      ELSE Terminated(R(v.p, Node("assign", "", <<l.t, v.t>>)))

ParseStmt(p) ==
  CASE AtAny(p, {"let", "var"}) -> ParseLet(p)
    [] At(p, "return") -> ParseReturn(p)
    [] At(p, "if") -> ParseIf(p)
    [] At(p, "while") -> ParseWhile(p)
    [] At(p, "for") -> ParseFor(p)
    [] AtAny(p, {"break", "continue"}) -> Terminated(R(Advance(p), Node("jump", Cur(p), << >>)))
    [] At(p, "{") -> ParseBlock(p)
    [] At(p, "defer") -> ParseDefer(p)
    [] OTHER -> ParseExprOrAssign(p)


(***************************************************************************)
(* Declarations.                                                           *)
(***************************************************************************)
AttrArgument(q) ==
  IF ~At(q, "(") THEN q
  ELSE IF At(Advance(q), "id") THEN Expect(Advance(Advance(q)), ")")
  ELSE Expect([Advance(q) EXCEPT !.bad = TRUE], ")")

\* deprecated, and inline unless it says always, are only warned about.
Attr(name, arg) ==
  [kept |-> name = "no_inline" \/ (name = "inline" /\ arg = <<"(", "always", ")">>),
   t |-> [Node("attr", name, << >>) EXCEPT !.ty = arg]]
Noted(p, name, a) == Lose(IF name \in {"inline", "no_inline", "deprecated"} THEN p ELSE Fail(p), ~a.kept)

RECURSIVE Attrs(_, _)
Attrs(p, ts) ==
  LET n == Advance(p)
      q == Advance(n)
      a == Attr(Cur(n), IF At(q, "(") THEN <<"(", Cur(Advance(q)), ")">> ELSE << >>)
  IN  IF ~At(p, "#[") THEN [p |-> p, ts |-> ts]
      ELSE IF ~At(n, "id") THEN [p |-> Fail(n), ts |-> ts]
      ELSE Attrs(Noted(Expect(AttrArgument(q), "]"), Cur(n), a), Append(ts, a.t))

\* "module a :: b ;": what stands where the second colon of the path should
\* stand is not looked at, and the path is not kept.
RECURSIVE ModulePath(_)
ModulePath(p) ==
  LET q == Lose(Advance(Advance(p)), TRUE)
  IN  IF ~At(p, ":") THEN p ELSE IF At(q, "id") THEN ModulePath(Advance(q)) ELSE q

ParseModuleDecl(p) ==
  LET n == Advance(p)
  IN  IF ~At(p, "module") THEN [p |-> p, ts |-> << >>]
      ELSE IF ~At(n, "id") THEN [p |-> Fail(n), ts |-> << >>]
      ELSE [p |-> Expect(ModulePath(Advance(n)), ";"), ts |-> <<Node("module", Cur(n), << >>)>>]

\* 'self', '&self' or '&mut self' at p: the tokens, none if it is not one.
Receiver(p) ==
  CASE Cur(p) = "self" -> <<"self">>
    [] At(p, "&") /\ Cur(Advance(p)) = "self" -> <<"&", "self">>
    [] At(p, "&") /\ Cur(Advance(p)) = "mut" /\ Cur(Advance(Advance(p))) = "self" -> <<"&", "mut", "self">>
    [] OTHER -> << >>
NoReceiver(p) == Fail(IF Cur(Advance(p)) = "mut" THEN Advance(Advance(p)) ELSE Advance(p))

Named(t, l) == [p |-> l.p, ts |-> IF l.ok THEN Append(t, l.t) ELSE t, trail |-> FALSE, ok |-> l.ok]
Param(p, ts, self) ==
  IF self # << >>
  THEN [p |-> [p EXCEPT !.i = @ + Len(self)], ts |-> Append(ts, [Node("self", "", << >>) EXCEPT !.ty = self]), ok |-> TRUE]
  ELSE IF At(p, "&") THEN [p |-> NoReceiver(p), ts |-> ts, trail |-> FALSE, ok |-> FALSE]
  ELSE Named(ts, Item(p, "typed"))

RECURSIVE Params(_)
Params(l) ==
  LET p == IF l.ts = << >> THEN l.p ELSE Advance(l.p)
  IN  IF ~l.ok THEN l
      ELSE IF At(l.p, ")") THEN [p |-> l.p, ts |-> l.ts, trail |-> FALSE]
      ELSE IF l.ts # << >> /\ (~At(l.p, ",") \/ At(p, ")"))
           THEN [p |-> Expect(l.p, ","), ts |-> l.ts, trail |-> At(l.p, ",")]
      ELSE Params(Param(p, l.ts, Receiver(p)))

\* A result type after a parameter list.
WithType(t, ty) == R(ty.p, [t EXCEPT !.ty = ty.ty])
Result(r) == IF At(r.p, "->") THEN WithType(r.t, ParseType(Advance(r.p))) ELSE r

Header(name, l) == Result(R(Expect(l.p, ")"), [Node("fn", name, l.ts) EXCEPT !.trail = l.trail]))
FnHeader(p) ==
  LET n == Advance(p)
  IN  IF ~At(n, "id") THEN R(Fail(n), Null)
      ELSE Header(Cur(n), Params([p |-> Expect(Advance(n), "("), ts |-> << >>, ok |-> TRUE]))

WithBody(t, b) == R(b.p, Node("body", "", <<t, b.t>>))
Bodied(h) == IF h.t = Null THEN h ELSE WithBody(h.t, Parse("block", h.p, 0))
ParseMethod(p) == Bodied(FnHeader(p))

Signed(h) == IF h.t = Null THEN h ELSE R(Expect(h.p, ";"), Node("sig", "", <<h.t>>))
ParseSignature(p) == Signed(FnHeader(p))

Added(l, m) == IF m.t = Null THEN [p |-> m.p, ts |-> l.ts, ok |-> FALSE] ELSE [p |-> m.p, ts |-> Append(l.ts, m.t), ok |-> TRUE]
RECURSIVE Methods(_, _)
Methods(l, bodies) ==
  IF ~l.ok \/ AtAny(l.p, {"}", "eof"}) THEN l
  ELSE IF ~At(l.p, "fn") THEN Methods([l EXCEPT !.p = Advance(Fail(@))], bodies)
  ELSE Methods(Added(l, IF bodies THEN ParseMethod(l.p) ELSE ParseSignature(l.p)), bodies)

None(p) == [p |-> p, ts |-> << >>]
One(r) == [p |-> r.p, ts |-> <<r.t>>]
\* The ';' after a '}' is optional.
Closed(r) == [p |-> Accept(r.p, ";"), ts |-> <<[r.t EXCEPT !.ty = IF At(r.p, ";") THEN @ \o <<";">> ELSE @]>>]

FnOf(m, prefix) == IF m.t = Null THEN None(m.p) ELSE One([m EXCEPT !.t.kids = prefix \o @])
ParseFn(p, prefix) == FnOf(ParseMethod(p), prefix)

ParseExtern(p) ==
  LET f == Expect(Advance(p), "fn")
      n == Advance(f)
      r == Result(Listed(Expect(n, "("), "typed", ")", Node("fn", Cur(f), << >>)))
  IN  IF ~At(Advance(p), "fn") THEN None(f)
      ELSE IF ~At(f, "id") THEN None(Fail(f))
      ELSE One(R(Expect(r.p, ";"), Node("extern", "", <<r.t>>)))

ParseConst(p) ==
  LET n == Advance(p)
      ty == IF At(Advance(n), ":") THEN ParseType(Advance(Advance(n))) ELSE [p |-> Advance(n), ty |-> << >>]
      v == Parse("expr", Expect(ty.p, "="), 0)
  IN  IF At(n, "id") THEN One(R(Expect(v.p, ";"), [Node("const", Cur(n), <<v.t>>) EXCEPT !.ty = ty.ty])) ELSE None(Fail(n))

ParseAlias(p) ==
  LET n == Advance(p)
      ty == ParseType(Expect(Advance(n), "="))
  IN  IF At(n, "id") THEN One(R(Expect(ty.p, ";"), [Node("alias", Cur(n), << >>) EXCEPT !.ty = ty.ty])) ELSE None(Fail(n))

\* struct, enum, bitmask and bitfield: a name, for some a backing type, a list.
Backed(k, q) ==
  CASE k = "enum" /\ At(q, ":") ->
         IF ~At(Advance(q), "id") THEN [p |-> Fail(Advance(q)), ty |-> << >>]
         ELSE [p |-> LET r == Advance(Advance(q))
                     IN IF Cur(Advance(q)) \in {"i32", "i64", "u32", "u64"} THEN r ELSE Fail(r),
               ty |-> <<":", Cur(Advance(q))>>]
    [] k = "bitfield" ->
         LET o == Expect(q, "(")
         IN  [p |-> Expect(IF Cur(o) = "u64" THEN Advance(o) ELSE Fail(o), ")"), ty |-> <<"(", "u64", ")">>]
    [] OTHER -> [p |-> q, ty |-> << >>]

Aggregate(k, item, name, b) ==
  IF At(b.p, "{")
  THEN Closed(Listed(Advance(b.p), item, "}", Node(k, "", <<[Null EXCEPT !.k = "name", !.ty = <<name>> \o b.ty]>>)))
  ELSE None(Expect(b.p, "{"))

ParseAggregate(p) ==
  LET n == Advance(p)
      item == CASE Cur(p) = "struct" -> "typed" [] Cur(p) = "bitfield" -> "segment" [] OTHER -> "variant"
  IN  IF ~At(n, "id") THEN None(Fail(n))
      ELSE IF Cur(p) = "bitfield" /\ ~At(Advance(n), "(") THEN None(Expect(Advance(n), "("))
      ELSE Aggregate(Cur(p), item, Cur(n), Backed(Cur(p), Advance(n)))

Block(k, name, l) ==
  Closed(R(Expect(l.p, "}"), Node(k, "", <<[Null EXCEPT !.k = "name", !.ty = name]>> \o l.ts)))
MethodsOf(k, name, q) ==
  IF At(q, "{") THEN Block(k, name, Methods([p |-> Advance(q), ts |-> << >>, ok |-> TRUE], k = "impl"))
  ELSE None(Expect(q, "{"))

ParseMethods(p) ==
  LET n == Advance(p)
      o == Advance(Advance(n))
  IN  IF ~At(n, "id") THEN None(Fail(n))
      ELSE IF At(p, "trait") \/ ~At(Advance(n), "for") THEN MethodsOf(Cur(p), <<Cur(n)>>, Advance(n))
      ELSE IF ~At(o, "id") THEN None(Fail(o))
      ELSE MethodsOf(Cur(p), <<Cur(n), "for", Cur(o)>>, Advance(o))

\* Nothing but the built-in units can be imported, so a path is an error.
ParseImport(p) ==
  LET n == Advance(p)
      q == Advance(n)
      path == IF At(q, ":") THEN Lose(Advance(Advance(q)), TRUE) ELSE q
  IN  IF ~At(n, "id") THEN None(Accept(SkipTo(Fail(n), {";"}), ";"))
      ELSE IF At(q, ":") /\ At(path, "id") THEN None(Accept(SkipTo(Fail(path), {";"}), ";"))
      ELSE One(R(Expect(path, ";"), Node("import", Cur(n), << >>)))

\* Attributes and 'comptime' are kept for a function only.
AnyDeclaration(q, prefix, other) ==
  CASE At(q, "fn") -> ParseFn(q, prefix)
    [] At(q, "extern") -> ParseExtern(other)
    [] AtAny(q, {"struct", "enum", "bitmask", "bitfield"}) -> ParseAggregate(other)
    [] At(q, "alias") -> ParseAlias(other)
    [] AtAny(q, {"trait", "impl"}) -> ParseMethods(other)
    [] At(q, "class") -> None(Accept(SkipTo(Fail(q), {"}"}), "}"))
    [] OTHER -> None(Advance(Fail(q)))

Prefixed(q, prefix) == AnyDeclaration(q, prefix, Lose(q, prefix # << >>))

\* A stray '}' is reported and left where it is.
Attributed_InPlace(p, attrs) == IF At(p, "}") THEN None(Fail(p)) ELSE Prefixed(p, attrs)
Attributed(p, attrs) ==
  IF At(p, "const") THEN ParseConst(Lose(p, attrs # << >>))
  ELSE IF At(p, "comptime") THEN Prefixed(Advance(p), Append(attrs, Node("comptime", "", << >>)))
  ELSE Prefixed(p, attrs)

Declaration(p) ==
  CASE At(p, "use") -> None(Accept(SkipTo(Fail(p), {";"}), ";"))
    [] At(p, "import") -> ParseImport(p)
    [] OTHER -> LET a == Attrs(p, << >>) IN Attributed(a.p, a.ts)

Parse(rule, p, min) ==
  CASE rule = "expr" -> ParseExpr(p, min)
    [] rule = "unary" -> ParseUnary(p)
    [] rule = "postfix" -> ParsePostfix(p)
    [] rule = "block" -> ParseBlock(p)
    [] rule = "stmt" -> ParseStmt(p)
    [] rule = "if" -> ParseIf(p)
    [] rule = "decl" -> Declaration(p)

(***************************************************************************)
(* The input is chosen slot by slot, then the declarations are parsed.     *)
(***************************************************************************)
Init ==
  /\ \E t \in Templates : input = t.slots /\ legal = t.legal
  /\ toks = << >> /\ ps = Begin /\ decls = << >>

Read ==
  /\ input # << >>
  /\ \E phrase \in Head(input) : toks' = toks \o phrase
  /\ input' = Tail(input) /\ UNCHANGED <<legal, ps, decls>>

Parsing == input = << >> /\ ~ps.stuck

Start ==
  /\ Parsing /\ ps.i = 1 /\ decls = << >> /\ At(ps, "module")
  /\ \E r \in {ParseModuleDecl(ps)} : ps' = r.p /\ decls' = r.ts
  /\ UNCHANGED <<input, legal, toks>>

TopLevel ==
  /\ Parsing /\ ~At(ps, "eof") /\ (ps.i > 1 \/ ~At(ps, "module"))
  /\ \E r \in {Parse("decl", ps, 0)} :
       /\ ps' = [r.p EXCEPT !.stuck = @ \/ r.p.i = ps.i]
       /\ decls' = decls \o r.ts
  /\ UNCHANGED <<input, legal, toks>>

Next == Read \/ Start \/ TopLevel
Spec == Init /\ [][Next]_vars

Ended == input = << >> /\ At(ps, "eof")
Accepted == Ended /\ ~ps.bad

(***************************************************************************)
(* What a tree says: its tokens in order, and how its operators group.     *)
(***************************************************************************)
RECURSIVE Yield(_)
Yields(ts) == FlattenSeq([i \in DOMAIN ts |-> Yield(ts[i])])
Commas(ts, trail) ==
  FlattenSeq([i \in DOMAIN ts |-> Yield(ts[i]) \o IF i < Len(ts) \/ trail THEN <<",">> ELSE << >>])
Typed(e, sep) == IF e.ty = << >> THEN << >> ELSE <<sep>> \o e.ty
Valued(e) == IF e.kids = << >> THEN << >> ELSE <<"=">> \o Yield(e.kids[1])
Listing(e, ts, open, close) == <<open>> \o Commas(ts, e.trail) \o <<close>>

YieldExpr(e) ==
  LET kid(i) == Yield(e.kids[i]) IN
  CASE e.k = "atom" -> <<e.op>>
    [] e.k = "lit" -> <<e.op>> \o Listing(e, e.kids, "{", "}")
    [] e.k = "init" -> <<e.op, ":">> \o kid(1)
    [] e.k = "cast" -> kid(1) \o <<"as">> \o e.ty
    [] e.k = "index" -> kid(1) \o <<"[">> \o kid(2) \o <<"]">>
    [] e.k = "field" -> kid(1) \o <<".", e.op>>
    [] e.k = "method" -> kid(1) \o <<".", e.op>> \o Listing(e, Tail(e.kids), "(", ")")
    [] e.k = "call" -> kid(1) \o Listing(e, Tail(e.kids), "(", ")")
    [] e.k \in {"deref", "unary", "run"} -> <<e.op>> \o kid(1)
    [] e.k = "binary" -> kid(1) \o <<e.op>> \o kid(2)

YieldStmt(e) ==
  LET kid(i) == Yield(e.kids[i]) IN
  CASE e.k = "block" -> <<"{">> \o Yields(e.kids) \o <<"}">>
    [] e.k \in {"let", "var"} -> <<e.k, e.op>> \o Typed(e, ":") \o Valued(e) \o <<";">>
    [] e.k = "return" -> <<"return">> \o Yields(e.kids) \o <<";">>
    [] e.k = "if" -> <<e.op>> \o kid(1) \o kid(2) \o IF Len(e.kids) = 3 THEN <<"else">> \o kid(3) ELSE << >>
    [] e.k = "for" -> <<"for", e.op, "in">> \o kid(1) \o <<"..">> \o kid(2) \o kid(3)
    [] e.k = "jump" -> <<e.op, ";">>
    [] e.k = "defer" -> <<"defer">> \o kid(1)
    [] e.k = "expr" -> kid(1) \o <<";">>
    [] e.k = "assign" -> kid(1) \o <<"=">> \o kid(2) \o <<";">>

YieldDecl(e) ==
  LET kid(i) == Yield(e.kids[i]) IN
  CASE e.k = "module" -> <<"module", e.op, ";">>
    [] e.k = "attr" -> <<"#[", e.op>> \o e.ty \o <<"]">>
    [] e.k = "comptime" -> <<"comptime">>
    [] e.k \in {"self", "name"} -> e.ty
    [] e.k = "typed" -> <<e.op, ":">> \o e.ty
    [] e.k = "variant" -> <<e.op>> \o Valued(e)
    [] e.k = "fn" -> <<"fn", e.op>> \o Listing(e, e.kids, "(", ")") \o Typed(e, "->")
    [] e.k = "body" -> Yields(e.kids)
    [] e.k = "sig" -> kid(1) \o <<";">>
    [] e.k = "extern" -> <<"extern">> \o kid(1) \o <<";">>
    [] e.k = "const" -> <<"const", e.op>> \o Typed(e, ":") \o Valued(e) \o <<";">>
    [] e.k = "alias" -> <<"alias", e.op>> \o Typed(e, "=") \o <<";">>
    [] e.k = "import" -> <<"import", e.op, ";">>
    [] e.k \in {"struct", "enum", "bitmask", "bitfield"} -> <<e.k>> \o kid(1) \o Listing(e, Tail(e.kids), "{", "}") \o e.ty
    [] e.k \in {"trait", "impl"} -> <<e.k>> \o kid(1) \o <<"{">> \o Yields(Tail(e.kids)) \o <<"}">> \o e.ty

Expressions == {"atom", "lit", "init", "cast", "index", "field", "method", "call", "deref", "unary", "run", "binary"}
Stmts == {"block", "let", "var", "return", "if", "for", "jump", "defer", "expr", "assign"}
Yield(e) ==
  [i \in 1..e.par |-> "("] \o
  (IF e.k = "null" THEN <<"nothing">> ELSE IF e.k \in Expressions THEN YieldExpr(e)
   ELSE IF e.k \in Stmts THEN YieldStmt(e) ELSE YieldDecl(e)) \o [i \in 1..e.par |-> ")"]

\* An operator's operands bind tighter than it does, on the left at least as
\* tight; prefix operators take a postfix expression whole, and no operator
\* is inside what a postfix is applied to.
RECURSIVE Grouped(_)
Grouped(e) ==
  LET binds(x, min) == x.k = "binary" /\ x.par = 0 => Prec(x.op) >= min
      tight(x, loose) == x.par > 0 \/ x.k \notin loose
  IN  /\ e.k = "binary" => binds(e.kids[1], Prec(e.op)) /\ binds(e.kids[2], Prec(e.op) + 1)
      /\ e.k \in {"unary", "deref"} => tight(e.kids[1], {"binary"})
      /\ e.k \in {"cast", "index", "field", "method", "call"} => tight(e.kids[1], {"binary", "unary", "deref"})
      /\ \A i \in DOMAIN e.kids : Grouped(e.kids[i])

(***************************************************************************)
(* Properties.                                                             *)
(***************************************************************************)
TypeOK == /\ legal \in BOOLEAN /\ ps.i \in 1..Len(toks) + 1
          /\ {ps.err, ps.bad, ps.lost, ps.stuck} \subseteq BOOLEAN

\* The tree of a program that is accepted without a diagnostic is the program:
\* read in order it gives back every token, with the operators grouped as
\* prec_of ranks them - except where the parser drops what it has read: the
\* callee of a call that is not a name, a module path, attributes and
\* 'comptime' before a declaration that is not a function.
AcceptedIsKept == Accepted /\ ~ps.lost => /\ Append(Yields(decls), "eof") = toks
                                           /\ \A i \in DOMAIN decls : Grouped(decls[i])

\* Every program of the language is accepted: the looks ahead for a struct
\* literal, an assignment and an else-if never choose the wrong reading.
LegalAccepted == legal /\ Ended => ~ps.bad

\* On any token stream the parser comes to the end: neither a declaration nor
\* a statement is tried again at the place where it failed.
NeverStuck == ~ps.stuck

\* Does not hold: an accepted program may have lost something.
NothingLost == Accepted => ~ps.lost
=============================================================================
