-------------------------------- MODULE Words --------------------------------
(***************************************************************************)
(* The types of values, and the arithmetic the passes do on constants      *)
(* beside the arithmetic the machine does on the same operands.  A         *)
(* constant keeps its payload in 64 bits whatever its type, the machine    *)
(* keeps a 32-bit value in 32 bits: an operation on payloads leads out of  *)
(* a narrow type, the machine's never does.                                *)
(*                                                                         *)
(* A 64-bit word has 8 bits here and a 32-bit word 4; a truth value's byte *)
(* is narrower than both.  A float is counted in halves and has no bound;  *)
(* NaN is a number of its own.                                             *)
(***************************************************************************)
EXTENDS Integers, Bitwise

Bits(ty) == CASE ty = "i1" -> 2 [] ty \in {"i32", "u32"} -> 4 [] OTHER -> 8
IsFloat(ty) == ty = "f64"
IsInt(ty) == ty \in {"i1", "i32", "i64", "u32", "u64"}
IsSigned(ty) == ty \in {"i1", "i32", "i64"}

NaN == 1000

Low(v, n) == v % 2 ^ n
SignedLow(v, n) == LET u == Low(v, n) IN IF u < 2 ^ (n - 1) THEN u ELSE u - 2 ^ n
Payload(v) == SignedLow(v, 8)
Unsigned(v) == Low(v, 8)
Truth(b) == IF b THEN 1 ELSE 0

\* What the machine holds of a payload: unsigned 64-bit words keep the signed reading.
Canonical(ty, v) ==
  CASE ty = "i1" -> Truth(v # 0)
    [] ty = "u32" -> Low(v, 4)
    [] ty = "i32" -> SignedLow(v, 4)
    [] IsFloat(ty) -> v
    [] OTHER -> Payload(v)

\* Towards zero.
Quotient(x, y) == LET Abs(v) == IF v < 0 THEN -v ELSE v
                      q == Abs(x) \div Abs(y)
                  IN  IF (x < 0) = (y < 0) THEN q ELSE -q
Remainder(x, y) == x - y * Quotient(x, y)

-----------------------------------------------------------------------------
(* Evaluation of constants.  No result means that the operation stays in   *)
(* the program.                                                            *)

FloatLess(x, y) == x # NaN /\ y # NaN /\ x < y
FloatBin(op, x, y) ==
  CASE op = "Min" -> {IF FloatLess(x, y) THEN x ELSE y}
    [] op = "Max" -> {IF FloatLess(x, y) THEN y ELSE x}
    [] op = "Div" /\ y = 0 -> {}
    [] op \in {"Add", "Sub", "Mul", "Div"} /\ NaN \in {x, y} -> {NaN}
    [] op = "Add" -> {x + y}
    [] op = "Sub" -> {x - y}
    [] op = "Mul" -> {(x * y) \div 2}
    [] op = "Div" -> {Quotient(2 * x, y)}
    [] OTHER -> {}

\* The order of payloads as the type reads them.
Reading(ty, v) == IF IsSigned(ty) THEN v ELSE Unsigned(v)
Less(ty, x, y) == IF IsFloat(ty) THEN FloatLess(x, y) ELSE Reading(ty, x) < Reading(ty, y)

IntBin(op, ty, x, y) ==
  LET a == Reading(ty, x)  b == Reading(ty, y)
      shift == y % Bits("i64")
  IN CASE op = "Add" -> {Payload(x + y)}
       [] op = "Sub" -> {Payload(x - y)}
       [] op = "Mul" -> {Payload(x * y)}
       [] op \in {"Div", "Mod"} /\ y = 0 -> {}
       [] op = "Div" -> {Payload(Quotient(a, b))}
       [] op = "Mod" -> {Payload(Remainder(a, b))}
       [] op = "And" -> {Payload(Unsigned(x) & Unsigned(y))}
       [] op = "Or"  -> {Payload(Unsigned(x) | Unsigned(y))}
       [] op = "Xor" -> {Payload(Unsigned(x) ^^ Unsigned(y))}
       [] op = "Shl" -> {Payload(x * 2 ^ shift)}
       [] op = "Shr" -> {Payload(a \div 2 ^ shift)}
       [] op = "Min" -> {IF a < b THEN x ELSE y}
       [] op = "Max" -> {IF a < b THEN y ELSE x}

EvalBin(op, ty, x, y) == IF IsFloat(ty) THEN FloatBin(op, x, y) ELSE IntBin(op, ty, x, y)

EvalCmp(op, ty, x, y) ==
  Truth(CASE op = "Eq" -> x = y /\ x # NaN
          [] op = "Ne" -> x # y \/ x = NaN
          [] op = "Lt" -> Less(ty, x, y)
          [] op = "Gt" -> Less(ty, y, x)
          [] op = "Le" -> IF IsFloat(ty) THEN Less(ty, x, y) \/ (x = y /\ x # NaN) ELSE ~Less(ty, y, x)
          [] op = "Ge" -> IF IsFloat(ty) THEN Less(ty, y, x) \/ (x = y /\ x # NaN) ELSE ~Less(ty, x, y))

EvalUn(op, ty, x) ==
  CASE op = "Neg" -> IF IsFloat(ty) THEN {IF x = NaN THEN x ELSE -x} ELSE {Payload(-x)}
    [] op = "Not" -> IF ty = "i1" THEN {Truth(x = 0)} ELSE {}
    [] op = "BNot" -> IF IsFloat(ty) THEN {} ELSE {-x - 1}

\* Extensions read the bits of the type they start from; what is no 32-bit word is a
\* byte.  A truncation leaves the sign-extended low bits, of an unsigned type as well.
EvalCast(kind, from, to, x) ==
  LET narrow == IF Bits(from) = Bits("i32") THEN Bits("i32") ELSE Bits("i1")
  IN CASE kind = "ZExt" -> {Low(x, narrow)}
       [] kind = "SExt" -> {SignedLow(x, narrow)}
       [] kind = "Trunc" -> {IF Bits(to) < 8 THEN SignedLow(x, Bits(to)) ELSE x}
       [] kind = "SiToFp" -> {2 * x}
       [] kind = "FpToSi" -> {IF x = NaN THEN -128 ELSE Payload(Quotient(x, 2))}
       [] kind = "Ptr" -> {x}

-----------------------------------------------------------------------------
(* The machine's results, from operands it holds.  It masks the count of a *)
(* shift to the width it shifts, and stops at a division it cannot do.     *)

Result(ty, r) == IF r = {} THEN 0 ELSE Canonical(ty, CHOOSE v \in r : TRUE)

Traps(op, ty, x, y) ==
  /\ op \in {"Div", "Mod"} /\ ~IsFloat(ty)
  /\ y = 0 \/ (IsSigned(ty) /\ y = -1 /\ x = -(2 ^ (Bits(ty) - 1)))

RunBin(op, ty, x, y) ==
  IF Traps(op, ty, x, y) THEN 0
  ELSE Result(ty, EvalBin(op, ty, x, IF op \in {"Shl", "Shr"} THEN y % Bits(ty) ELSE y))
RunUn(op, ty, x) == Result(ty, EvalUn(op, ty, x))
RunCast(kind, from, to, x) == Result(to, EvalCast(kind, from, to, x))
=============================================================================
