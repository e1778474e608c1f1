------------------------------ MODULE Rewrites ------------------------------
(***************************************************************************)
(* What the scalar passes do to one node: each operator takes the graph    *)
(* and the node its pass looks at, and gives the graph it leaves behind.   *)
(* A pass visits the nodes in order, the ones it adds included, and starts *)
(* over while anything changes.  Where guards of a CASE overlap, the first *)
(* one counts, as the code returns from it.                                *)
(***************************************************************************)
EXTENDS SonGraph

CONSTANT
  Full         \* the sizes at which the graph's node vector has to move to grow

IsConstant(h, m) == Op(h, m) = "Const"
IntConst(h, m, k) == IsConstant(h, m) /\ ~IsFloat(h[m].ty) /\ h[m].k = k
IsBin(h, m, sub) == Is(h, m, "Bin", sub)
Uses(h, n, m) == m \in ToSet(Tail(h[n].ins))

Replace(h, from, to) == IF from = to THEN h ELSE Kill(ReplaceAllUses(h, from, to), from)
ToNode(h, n, node) == Replace(Make(h, node), n, Len(h) + 1)
ToConst(h, n, k) == ToNode(h, n, Constant(Pin(h, n), h[n].ty, k))

\* The evaluation goes by the type of the first operand.
Evaluated(h, n, a) ==
  LET in == h[n].ins  sub == h[n].sub  of == h[in[2]].ty
  IN CASE Op(h, n) = "Bin"  -> EvalBin(sub, of, a[1], a[2])
       [] Op(h, n) = "Cmp"  -> {EvalCmp(sub, of, a[1], a[2])}
       [] Op(h, n) = "Un"   -> EvalUn(sub, of, a[1])
       [] Op(h, n) = "Cast" -> EvalCast(sub, of, h[n].ty, a[1])

-----------------------------------------------------------------------------
(* Pass 2: identities, without any evaluation.                             *)

CollapsedBin(h, n) ==
  LET op == h[n].sub  pin == Pin(h, n)  a == h[n].ins[2]  b == h[n].ins[3]
      L(k) == IntConst(h, a, k)
      R(k) == IntConst(h, b, k)
  IN CASE op \in {"Min", "Max"} -> IF a = b THEN Replace(h, n, a) ELSE h
       [] op \in {"Add", "Sub", "Or", "Xor", "Shl", "Shr"} /\ R(0) -> Replace(h, n, a)
       [] op \in {"Add", "Or", "Xor"} /\ L(0) -> Replace(h, n, b)
       [] op \in {"Mul", "Div"} /\ R(1) -> Replace(h, n, a)
       [] op = "Mul" /\ L(1) -> Replace(h, n, b)
       [] op = "And" /\ R(-1) -> Replace(h, n, a)
       [] op = "And" /\ L(-1) -> Replace(h, n, b)
       [] op \in {"Mul", "And"} /\ (R(0) \/ L(0)) -> ToConst(h, n, 0)
       [] op = "Mod" /\ R(1) -> ToConst(h, n, 0)
       [] op = "Or" /\ R(-1) -> Replace(h, n, b)
       [] op = "Or" /\ L(-1) -> Replace(h, n, a)
       [] op = "Xor" /\ R(-1) -> ToNode(h, n, Operation("Un", "BNot", h[n].ty, <<pin, a>>))
       [] OTHER -> h

Collapsed(h, n) ==
  LET in == h[n].ins IN
  CASE Op(h, n) = "Bin" -> CollapsedBin(h, n)
    [] Op(h, n) = "Cast" /\ h[in[2]].ty = h[n].ty -> Replace(h, n, in[2])
    [] Op(h, n) = "Select" /\ in[3] = in[4] -> Replace(h, n, in[3])
    [] Op(h, n) = "Un" /\ Is(h, in[2], "Un", h[n].sub) -> Replace(h, n, h[in[2]].ins[2])
    [] OTHER -> h

-----------------------------------------------------------------------------
(* Pass 3: operations on constants.                                        *)

Folded(h, n) ==
  LET in == h[n].ins
      values == [i \in 1 .. Len(in) - 1 |-> h[in[i + 1]].k]
  IN CASE Op(h, n) = "Select" /\ IsConstant(h, in[2]) -> Replace(h, n, IF h[in[2]].k # 0 THEN in[3] ELSE in[4])
       [] Op(h, n) \in Computing \ {"Select"} /\ (\A i \in 2 .. Len(in) : IsConstant(h, in[i])) ->
            LET r == Evaluated(h, n, values) IN IF r = {} THEN h ELSE ToConst(h, n, CHOOSE v \in r : TRUE)
       [] OTHER -> h

-----------------------------------------------------------------------------
(* Passes 4 and 14: casts of casts.  Pass 4 goes by the widths, pass 14 by *)
(* the kinds.                                                              *)

Retyped(h, n) ==
  LET inner == h[n].ins[2]
      x == h[inner].ins[2]
      tx == h[x].ty  t1 == h[inner].ty  t2 == h[n].ty
  IN CASE Op(h, n) # "Cast" -> h
       [] Op(h, n) = "Cast" /\ t1 = t2 -> Replace(h, n, inner)
       [] Op(h, n) = "Cast" /\ t1 # t2 /\ Op(h, inner) # "Cast" -> h
       [] OTHER ->
            CASE tx = t2 /\ Bits(t1) = Bits(t2) -> Replace(h, n, x)
              [] Bits(t1) > Bits(tx) /\ Bits(t2) = Bits(tx) -> Replace(h, n, x)
              [] Bits(t1) <= Bits(tx) /\ Bits(t2) <= Bits(t1) ->
                   ToNode(h, n, Operation("Cast", h[n].sub, t2, <<Pin(h, n), x>>))
              [] OTHER -> h

Extending == {"SExt", "ZExt"}
Unextended(h, n) ==
  LET x == h[n].ins[2]
      base == h[x].ins[2]
      kind == h[n].sub  inner == h[x].sub
  IN CASE Op(h, n) # "Cast" \/ kind \notin Extending \cup {"Trunc"} -> h
       [] Op(h, n) = "Cast" /\ kind \in Extending /\ h[x].ty = h[n].ty -> Replace(h, n, x)
       [] OTHER ->
            CASE Op(h, x) # "Cast" \/ Dead(h, base) -> h
              [] Op(h, x) = "Cast" /\ kind = "Trunc" /\ inner \in Extending /\ Bits(h[base].ty) = Bits(h[n].ty) ->
                   Replace(h, n, base)
              [] Op(h, x) = "Cast" /\ kind \in Extending /\ inner \in Extending ->
                   ToNode(h, n, Operation("Cast", kind, h[n].ty, <<Pin(h, n), base>>))
              [] Op(h, x) = "Cast" /\ kind = "Trunc" /\ inner = "Trunc" -> Replace(h, n, x)
              [] OTHER -> h

-----------------------------------------------------------------------------
(* Passes 7, 10 and 11: phis that stand for one value, and regions with    *)
(* one predecessor, whose contents move there.                             *)

\* What a phi merges, itself aside.
Merges(h, n) == ToSet(Tail(h[n].ins)) \ {n}
PassedThrough(h, n) ==
  IF Cardinality(Merges(h, n)) # 1 THEN h ELSE Replace(h, n, CHOOSE v \in Merges(h, n) : TRUE)

\* Pass 7 splices the region out of every place of a successor's predecessors, pass 10
\* out of the first.
Renamed(h, u, r, pred) == [h EXCEPT ![u].ins = [i \in DOMAIN @ |-> IF @[i] = r THEN pred ELSE @[i]]]
Repinned(h, u, r, pred) == IF Pin(h, u) = r THEN [h EXCEPT ![u].ins[1] = pred] ELSE h
UserMoved(h, u, r, pred, everyPlace) ==
  CASE Op(h, u) = "Phi" /\ Pin(h, u) = r -> Kill(ReplaceAllUses(h, u, h[u].ins[2]), u)
    [] Op(h, u) = "Region" /\ everyPlace -> Renamed(h, u, r, pred)
    [] OTHER -> Repinned(h, u, r, pred)
Dissolved(h, r, everyPlace) ==
  LET pred == Pin(h, r) IN
  IF Len(h[r].ins) # 1 \/ pred = r \/ Dead(h, pred) THEN h
  ELSE Kill(FoldLeft(LAMBDA t, u : UserMoved(t, u, r, pred, everyPlace), h, UsesOf(h, r)), r)

PhiSimplified(h, n) ==
  CASE Op(h, n) = "Phi" /\ ~Dead(h, Pin(h, n)) -> PassedThrough(h, n)
    [] Op(h, n) = "Region" -> Dissolved(h, n, TRUE)
    [] OTHER -> h
PhiEliminated(h, n) ==
  CASE Op(h, n) = "Phi" -> PassedThrough(h, n)
    [] Op(h, n) = "Region" -> Dissolved(h, n, FALSE)
    [] OTHER -> h

CopyGone(h, n) ==
  LET x == h[n].ins[2] IN
  CASE Op(h, n) = "Cast" /\ h[n].sub \in {"Ptr", "Trunc"} /\ ~Dead(h, x) /\ h[x].ty = h[n].ty -> Replace(h, n, x)
    [] Op(h, n) = "Phi" -> PassedThrough(h, n)
    [] OTHER -> h

-----------------------------------------------------------------------------
(* Pass 12.  Its rewrites of an operation in place hold on to the node     *)
(* while they add others: when the vector moves, the new operands are      *)
(* written and the new kind is not.                                        *)

Turned == [Lt |-> "Gt", Le |-> "Ge", Gt |-> "Lt", Ge |-> "Le"]
ComparesGreater(h, n) ==
  LET a == h[n].ins[2]  b == h[n].ins[3] IN
  IF h[n].sub \in DOMAIN Turned /\ (h[n].sub \in {"Lt", "Le"} \/ (IsConstant(h, a) /\ ~IsConstant(h, b)))
  THEN [h EXCEPT ![n].sub = Turned[@], ![n].ins = <<@[1], b, a>>]
  ELSE h

Moves(from, to) == \E s \in Full : Len(from) <= s /\ s < Len(to)
Become(h, grown, n, sub, ins) ==
  IF Moves(h, grown) THEN [grown EXCEPT ![n].ins = ins]
  ELSE [grown EXCEPT ![n].ins = ins, ![n].sub = sub]

\* The largest count of a multiplication that becomes a shift, below either width.
MaxCount == 3
Log(v, max) == {k \in 1 .. max : v = 2 ^ k}

Multiplied(h, n, k) ==
  Become(h, Make(h, Constant(Pin(h, n), h[n].ty, k)), n, "Shl", <<Pin(h, n), h[n].ins[2], Len(h) + 1>>)

DividedUnsigned(h, n, k) ==
  LET div == h[n].sub = "Div"
  IN  Become(h, Make(h, Constant(Pin(h, n), h[n].ty, IF div THEN k ELSE 2 ^ k - 1)), n,
             IF div THEN "Shr" ELSE "And", <<Pin(h, n), h[n].ins[2], Len(h) + 1>>)

\* (x + ((x >> bits - 1) & (2^k - 1))) >> k, and for the remainder x less that << k.
DividedSigned(h, n, k) ==
  LET pin == Pin(h, n)  ty == h[n].ty  x == h[n].ins[2]  N == Len(h)
      C(v) == Constant(pin, ty, v)
      B(op, l, r) == Operation("Bin", op, ty, <<pin, l, r>>)
      biased == h \o <<C(Bits(ty) - 1), B("Shr", x, N + 1), C(2 ^ k - 1), B("And", N + 2, N + 3),
                       B("Add", x, N + 4), C(k)>>
      rest == <<B("Shr", N + 5, N + 6), C(k), B("Shl", N + 7, N + 8), B("Sub", x, N + 9)>>
  IN  IF h[n].sub = "Div" THEN Become(h, biased, n, "Shr", <<pin, N + 5, N + 6>>)
      ELSE Replace(biased \o rest, n, N + 10)

\* What x + y leaves when one of its operands is taken off again.
Remaining_Left(h, m, b) == h[m].ins[2]
Remaining(h, m, b) == IF h[m].ins[2] = b THEN h[m].ins[3] ELSE h[m].ins[2]

Scaled(h, a, b) == {x \in {2, 3} : IsConstant(h, h[a].ins[x]) /\ h[h[a].ins[x]].k = h[b].k}

SimplifiedBin(h, n) ==
  LET op == h[n].sub  ty == h[n].ty  a == h[n].ins[2]  b == h[n].ins[3]
      k == IF IsConstant(h, b) THEN h[b].k ELSE 0
      largest == IF IsSigned(ty) THEN Bits(ty) - 2 ELSE Bits(ty) - 1
  IN CASE a = b /\ op \in {"Sub", "Xor", "Mod"} -> ToConst(h, n, 0)
       [] a = b /\ op \in {"And", "Or"} -> Replace(h, n, a)
       [] op = "Sub" /\ IsBin(h, a, "Add") /\ Uses(h, a, b) -> Replace(h, n, Remaining(h, a, b))
       \* The operand added back is looked for on the left: (x - y) + x becomes y.
       [] op = "Add" /\ IsBin(h, a, "Sub") /\ h[a].ins[2] = b -> Replace(h, n, h[a].ins[3])
       [] op = "Div" /\ ~IsSigned(ty) /\ k # 0 /\ IsBin(h, a, "Mul") /\ Scaled(h, a, b) # {} ->
            Replace(h, n, h[a].ins[IF 3 \in Scaled(h, a, b) THEN 2 ELSE 3])
       [] op = "Mul" /\ k > 0 /\ Log(k, MaxCount) # {} -> Multiplied(h, n, CHOOSE c \in Log(k, MaxCount) : TRUE)
       [] op \in {"Div", "Mod"} /\ k > 0 /\ Log(k, largest) # {} ->
            LET c == CHOOSE c \in Log(k, largest) : TRUE
            IN  IF IsSigned(ty) THEN DividedSigned(h, n, c) ELSE DividedUnsigned(h, n, c)
       [] OTHER -> h

Simplified(h, n) ==
  CASE Op(h, n) = "Cmp" -> ComparesGreater(h, n)
    [] Op(h, n) = "Bin" /\ ~IsFloat(h[n].ty) -> SimplifiedBin(h, n)
    [] OTHER -> h

-----------------------------------------------------------------------------
(* Pass 13: constants to the right, otherwise the lower node to the left.  *)

Commuting == {"Add", "Mul", "And", "Or", "Xor"}
Ordered(h, n) ==
  LET a == h[n].ins[2]  b == h[n].ins[3]
      swap == IF IsConstant(h, a) \/ IsConstant(h, b) THEN IsConstant(h, a) /\ ~IsConstant(h, b) ELSE a > b
  IN  IF Op(h, n) = "Bin" /\ ~IsFloat(h[n].ty) /\ h[n].sub \in Commuting /\ swap
      THEN [h EXCEPT ![n].ins = <<@[1], b, a>>] ELSE h

-----------------------------------------------------------------------------
(* Pass 15: a wide operation whose users all truncate becomes narrow.      *)

\* The types the users truncate to, if they all do.
TruncatedTo(h, n) ==
  LET users == ToSet(UsesOf(h, n)) IN
  IF \A u \in users : Is(h, u, "Cast", "Trunc") /\ IsInt(h[u].ty) /\ Bits(h[u].ty) = Bits("i32")
  THEN {h[u].ty : u \in users} ELSE {}

Narrows(h, n) ==
  /\ Op(h, n) = "Bin" /\ IsInt(h[n].ty) /\ Bits(h[n].ty) = Bits("i64")
  /\ \/ h[n].sub \in {"Add", "Sub", "Mul", "And", "Or", "Xor"}
     \/ h[n].sub = "Shl" /\ IsConstant(h, h[n].ins[3]) /\ h[h[n].ins[3]].k % Bits("i64") < Bits("i32")
  /\ Cardinality(TruncatedTo(h, n)) = 1

\* A narrow form of operand m, or 0: what it was extended from, or a constant of its own,
\* which stays in the graph when the other operand has no narrow form.
NarrowForm(h, m, ty) ==
  CASE Op(h, m) = "Cast" /\ h[m].sub \in Extending /\ h[h[m].ins[2]].ty = ty -> [g |-> h, val |-> h[m].ins[2]]
    [] IsConstant(h, m) -> [g |-> Make(h, Constant(Pin(h, m), ty, Canonical(ty, h[m].k))), val |-> Len(h) + 1]
    [] OTHER -> [g |-> h, val |-> 0]

NarrowTo(h, n, ty) ==
  LET l == NarrowForm(h, h[n].ins[2], ty)
      r == NarrowForm(l.g, h[n].ins[3], ty)
      users == UsesOf(h, n)
      wide == Make(r.g, Operation("Bin", h[n].sub, ty, <<Pin(h, n), l.val, r.val>>))
  IN CASE l.val = 0 -> h
       [] l.val # 0 /\ r.val = 0 -> l.g
       [] OTHER -> Kill(FoldLeft(LAMBDA t, u : Replace(t, u, Len(wide)), wide, users), n)
Narrowed(h, n) ==
  IF Narrows(h, n) THEN NarrowTo(h, n, CHOOSE ty \in TruncatedTo(h, n) : TRUE) ELSE h

-----------------------------------------------------------------------------
(* Pass 16: complements, absorption, and the extraction of a bit field,    *)
(* which asks for a shift of a number by itself.                           *)

Complement(h, m, of) == Is(h, m, "Un", "BNot") /\ h[m].ins[2] = of
Dual == [And |-> "Or", Or |-> "And"]
Absorbs(h, op, other, x) == op \in DOMAIN Dual /\ IsBin(h, other, Dual[op]) /\ Uses(h, other, x)

Bitwise(h, n) ==
  LET op == h[n].sub  ty == h[n].ty  a == h[n].ins[2]  b == h[n].ins[3]
      opposite == Complement(h, b, a) \/ Complement(h, a, b)
      shift == h[b].k % Bits("i64")
  IN CASE opposite /\ op = "And" -> ToConst(h, n, 0)
       [] opposite /\ op \in {"Or", "Xor"} -> ToConst(h, n, IF Bits(ty) = Bits("i32") THEN 2 ^ Bits("i32") - 1 ELSE -1)
       [] Absorbs(h, op, b, a) -> Replace(h, n, a)
       [] Absorbs(h, op, a, b) -> Replace(h, n, b)
       [] op = "Shr" /\ IsBin(h, a, "Shl") /\ IsConstant(h, b) /\ h[a].ins[2] = b /\ ~IsSigned(ty)
            /\ shift \in 1 .. Bits(ty) - 1 ->
            ToNode(Make(h, Constant(Pin(h, n), ty, 2 ^ (Bits(ty) - shift) - 1)), n,
                   Operation("Bin", "And", ty, <<Pin(h, n), b, Len(h) + 1>>))
       [] OTHER -> h
BitsSimplified(h, n) ==
  IF Op(h, n) = "Bin" /\ IsInt(h[n].ty) /\ h[n].ty # "i1" THEN Bitwise(h, n) ELSE h

-----------------------------------------------------------------------------
(* Pass 65: a choice between the operands of a comparison is a minimum or  *)
(* a maximum.  Which operand stays where decides what a NaN gives.         *)

MinMax(h, n) ==
  LET c == h[n].ins[2]  rel == h[c].sub
      turned == rel \in {"Gt", "Ge"}
      p == IF turned THEN h[c].ins[3] ELSE h[c].ins[2]
      q == IF turned THEN h[c].ins[2] ELSE h[c].ins[3]
      arms == <<h[n].ins[3], h[n].ins[4]>>
      As(sub) == [h EXCEPT ![n] = Operation("Bin", sub, h[n].ty, <<Pin(h, n), p, q>>)]
  IN  IF Op(h, n) # "Select" THEN h
      ELSE IF \/ ~IsFloat(h[n].ty) \/ Op(h, c) # "Cmp" \/ rel \notin DOMAIN Turned \/ p = q
              \/ ~IsFloat(h[p].ty) \/ ~IsFloat(h[q].ty)
           THEN h
           ELSE CASE arms = <<p, q>> -> As("Min")
                  [] arms = <<q, p>> -> As("Max")
                  [] OTHER -> h
=============================================================================
