----------------------------- MODULE MCCodegen -----------------------------
(* Small functions for Codegen, by family. The families of "sound" together   *)
(* use every operation and every rule; of the others the README says what     *)
(* goes wrong with them. Words have 8 bits, halves 4, there are three         *)
(* registers for slots (two that calls keep), one for floats and two for      *)
(* pooled constants.                                                          *)
EXTENDS Codegen

CONSTANT Families

Scheduled(nodes) ==
  SelectSeq([k \in DOMAIN nodes |-> k], LAMBDA k : nodes[k].op \notin {"Param", "Const", "Phi"})
Straight(nodes, ret) ==
  LET params == SelectSeq(nodes, LAMBDA n : n.op = "Param") IN
  Function([k \in DOMAIN params |-> params[k].ty], nodes,
           <<Block("Entry", Scheduled(nodes), <<>>, ret, <<>>, <<>>)>>)
Two(ty) == <<Param(ty, 1), Param(ty, 2)>>
I(v) == Const("i64", v)
Add(a, b) == BinOf("i64", "Add", a, b)
Store(a, v) == Node("Store", "void", "", <<a, v>>, 0)
Load(a) == Node("Load", "i64", "", <<a>>, 0)
Cast(ty, sub, a) == Node("Cast", ty, sub, <<a>>, 0)
Un(ty, sub, a) == Node("Un", ty, sub, <<a>>, 0)
Select3(ty, c, a, b) == Node("Select", ty, "", <<c, a, b>>, 0)
Call(ty, sub, a) == Node("Call", ty, sub, <<a>>, 0)
Relations == {"Eq", "Ne", "Lt", "Le", "Gt", "Ge"}

(***************************************************************************)
(* Straight code.                                                          *)
(***************************************************************************)
Trees ==
  {Straight(Two("i64") \o <<I(c), BinOf("i64", s, 1, 3), BinOf("i64", t, b[1], b[2])>>, 5) :
     c \in {3, 4, 0, 50}, s \in {"Add", "Mul"}, t \in {"Add", "Sub", "Mul"}, b \in {<<4, 2>>, <<2, 4>>, <<4, 4>>}}
Addresses ==
  {Straight(Two("i64") \o <<I(c), I(4), BinOf("i64", s, 2, IF s = "Shl" THEN 9 ELSE 4), Add(a[1], a[2]), Add(b[1], b[2]),
                            IF st THEN Store(7, 2) ELSE Load(7), I(2)>>, IF st THEN 0 ELSE 8) :
     c \in {3, 4}, s \in {"Mul", "Shl", "Sub"}, a \in {<<1, 5>>, <<5, 3>>}, b \in {<<6, 3>>, <<3, 6>>, <<1, 6>>, <<6, 5>>},
     st \in BOOLEAN}
Quotients ==
  {Straight(Two(ty) \o <<Const(ty, c), BinOf(ty, s, 1, 3), BinOf(ty, "Add", 4, 2)>>, 5) :
     ty \in {"i64", "i32", "u64", "u32"}, s \in Divisions, c \in {3, 5, 7}}
  \cup {Straight(Two("i64") \o <<I(c), BinOf("i64", s, 1, 3), Add(4, 2)>>, 5) : s \in Divisions, c \in {-5, -3, 100, -1}}
  \cup {Straight(Two("i64") \o <<BinOf("i64", s, 1, 2)>>, 3) : s \in Divisions}
Shifts ==
  {Straight(Two(ty) \o <<Const(ty, 2), BinOf(ty, s, 1, x)>>, 4) :
     ty \in {"u64", "u32", "i32", "i64"}, s \in {"Shl", "Shr"}, x \in {2, 3}}
Truths ==
  {Straight(Two(ty) \o <<Const(ty, 2), CmpOf(s, x[1], x[2])>>, 4) :
     ty \in {"u64", "i32", "i64", "f64"}, s \in Relations, x \in {<<1, 2>>, <<1, 3>>, <<3, 1>>}}
  \cup {Straight(Two("i64") \o <<I(0), CmpOf(s, 1, 3)>>, 4) : s \in {"Eq", "Lt"}}
Chosen ==
  {Straight(Two("i64") \o <<Const(ty, 2), Const(ty, 0), CmpOf(s, 1, 2), Select3(ty, 5, 3, 4)>>, 6) :
     s \in {"Lt", "Eq"}, ty \in {"i64", "i32", "f64"}}
Floating ==
  {Straight(Two("f64") \o <<Const("f64", 2), BinOf("f64", s, 1, 3), BinOf("f64", t, 3, 4), Un("f64", "Neg", 5)>>, 6) :
     s \in {"Add", "Mul", "Min", "Max"}, t \in {"Sub", "Min", "Max"}}
Converted ==
  {Straight(<<Param(t[1], 1), Param("i64", 2), Cast(t[3], t[2], 1), BinOf(t[3], "Add", 3, 3)>>, 4) :
     t \in {<<"i32", "SExt", "i64">>, <<"i64", "Trunc", "i32">>, <<"i64", "SiToFp", "f64">>, <<"f64", "FpToSi", "i64">>,
            <<"f64", "FpToSi", "i32">>}}
  \cup {Straight(Two("i64") \o <<Const("i32", -3), Cast("i64", "SExt", 3), BinOf("i64", s, 1, 2), BinOf("i64", "Sub", 5, 4),
                                 Add(6, 4)>>, 7) : s \in {"Mul", "Add"}}
  \cup {Straight(Two(ty) \o <<Un(ty, s, 1), BinOf(ty, "Add", 2, 3)>>, 4) : ty \in {"i64", "i32"}, s \in {"Neg", "BNot"}}

\* Values alive across a call, one of them a float.
Calling ==
  {Straight(Two("i64") \o <<Add(1, 2), Call("i64", s, a), BinOf("i64", t, 3, IF s = "print" THEN 1 ELSE 4), Add(5, 2)>>, 6) :
     s \in {"", "print"}, a \in {1, 3}, t \in {"Add", "Sub"}}
  \cup {Straight(Two("f64") \o <<BinOf("f64", "Add", 1, 2), Const("f64", 2), BinOf("f64", "Mul", 3, 4), Call("f64", s, 5),
                                 BinOf("f64", "Sub", 3, 4)>>, 7) : s \in {"", "print"}}
  \cup {Straight(Two("i64") \o <<Call("i64", "", 1), Call("i64", "", 2), BinOf("i64", s, 3, 4), Add(5, 1)>>, 6) :
          s \in {"Sub", "Mul"}}

(***************************************************************************)
(* Branches.                                                               *)
(***************************************************************************)
\* entry; if (cond) then 5 else 6; node 7 is the phi, 8 is returned.
DiamondOn(nodes, entry, cond, swap) ==
  Function([k \in 1 .. 2 |-> nodes[k].ty], nodes, <<
    Block("Entry", entry, <<>>, cond, <<2, 3>>, <<>>),
    Block(IF swap THEN "IfFalse" ELSE "IfTrue", <<5>>, <<>>, 0, <<4>>, <<1>>),
    Block(IF swap THEN "IfTrue" ELSE "IfFalse", <<6>>, <<>>, 0, <<4>>, <<1>>),
    Block("Region", <<8>>, <<7>>, 8, <<>>, <<2, 3>>)>>)
Diamond(nodes, swap) == DiamondOn(nodes, [k \in 1 .. Len(nodes) - 8 |-> 8 + k], Len(nodes), swap)
Arms(ty, c) == Two(ty) \o <<Const(ty, 1), Const(ty, c), BinOf(ty, "Add", 1, 3), BinOf(ty, "Mul", 2, 4), Phi(ty, <<5, 6>>),
                            BinOf(ty, "Add", 7, 1)>>
Branching ==
  {Diamond(Arms(ty, 4) \o <<CmpOf(r, 1, x)>>, swap) :
     ty \in {"i64", "f64"}, r \in {"Lt", "Eq", "Ge"}, x \in {2, 4}, swap \in BOOLEAN}
  \cup {Diamond(Arms("i64", 4) \o <<CmpOf(r, 1, 2), CmpOf("Gt", x, 4), BinOf("i1", s, 9, 10)>>, swap) :
          r \in {"Lt", "Eq"}, s \in {"And", "Or", "Xor"}, x \in {1, 2}, swap \in BOOLEAN}
  \cup {Diamond(Arms("i64", 4) \o <<CmpOf("Lt", 1, 2), CmpOf("Gt", 1, 4), CmpOf("Ne", 2, 4), BinOf("i1", s, 9, 10),
                                    BinOf("i1", t, 12, 11)>>, FALSE) : s \in {"And", "Or"}, t \in {"And", "Or"}}
  \cup {Diamond(Arms("i64", 4) \o <<CmpOf("Lt", 1, 2), Un("i1", "Not", 9)>>, swap) : swap \in BOOLEAN}
  \* The condition is computed first: a node later, which is read by the arms.
  \cup {DiamondOn([Arms("i64", 4) EXCEPT ![8] = Add(7, 10)] \o <<CmpOf(r, 1, 2), x>>, <<9, 10>>, 9, swap) :
          r \in {"Lt", "Eq"}, x \in {Add(1, 2), BinOf("i64", "Mul", 1, 2), Cast("i64", "Ptr", 2)}, swap \in BOOLEAN}

\* Both arms use the constant.
Shared ==
  {Diamond([Arms("f64", 4) EXCEPT ![5] = BinOf("f64", "Add", 1, 4)] \o <<CmpOf(r, 1, 2)>>, FALSE) : r \in {"Lt", "Eq"}}

(***************************************************************************)
(* Loops.                                                                  *)
(***************************************************************************)
\* while (the last node of cond) body: i (5) and acc (6) are phis, 7 is the
\* guard, 8 is i + 1. exitFirst puts the exit before the body.
While(nodes, cond, body, ret, exitFirst) ==
  LET b == IF exitFirst THEN 4 ELSE 3
      x == IF exitFirst THEN 3 ELSE 4
      inside == Block("IfTrue", body, <<>>, 0, <<2>>, <<2>>)
      outside == Block("IfFalse", <<>>, <<>>, ret, <<>>, <<2>>)
  IN Function([k \in 1 .. 2 |-> nodes[k].ty], nodes, <<
       Block("Entry", <<>>, <<>>, 0, <<2>>, <<>>),
       Block("Loop", cond, SelectSeq(<<5, 6>>, LAMBDA n : nodes[n].op = "Phi"), cond[Len(cond)], <<b, x>>, <<1, b>>),
       IF exitFirst THEN outside ELSE inside, IF exitFirst THEN inside ELSE outside>>)
Counting(acc) == Two("i64") \o <<I(0), I(1), Phi("i64", <<3, 8>>), Phi("i64", <<1, acc>>), CmpOf("Lt", 5, 2), Add(5, 4)>>
\* The accumulator is a float.
Summing(acc) == <<Param("f64", 1), Param("i64", 2), I(0), I(1), Phi("i64", <<3, 8>>), Phi("f64", <<1, acc>>),
                  CmpOf("Lt", 5, 2), Add(5, 4)>>
Looping ==
  {While(Counting(9) \o <<BinOf("i64", s, x[1], x[2])>>, <<7>>, y, 6, first) :
     s \in {"Add", "Mul", "Sub"}, x \in {<<6, 5>>, <<5, 6>>}, y \in {<<8, 9>>, <<9, 8>>}, first \in BOOLEAN}
  \cup {While(Counting(9) \o <<Add(6, 5), CmpOf("Ne", 6, 4), BinOf("i1", s, 7, 10)>>, <<7, 10, 11>>, <<8, 9>>, 6, first) :
          s \in {"And", "Or"}, first \in BOOLEAN}
  \cup {While(Counting(10) \o <<Call("i64", s, 6), Add(6, IF s = "print" THEN 5 ELSE 9)>>, <<7>>, <<9, 10, 8>>, 6, first) :
          s \in {"", "print"}, first \in BOOLEAN}
  \cup {While(Summing(10) \o <<Const("f64", c), BinOf("f64", s, 6, 9)>>, <<7>>, <<10, 8>>, 6, first) :
          s \in {"Add", "Mul"}, c \in {0, 2}, first \in BOOLEAN}
  \cup {While(Counting(11) \o <<BinOf("i64", "Mul", 5, 14), Add(1, 9), BinOf("i64", s, 6, 10), Add(2, 9), Store(12, 11), I(c)>>,
              <<7>>, <<9, 10, 12, 11, 13, 8>>, 6, FALSE) : s \in {"Add", "Sub"}, c \in {4, 3, 8}}
  \cup {While(Counting(11) \o <<BinOf("i64", "Mul", 5, 15), Add(1, 9), BinOf("i64", s, 6, 5), Add(9, 2), Store(12, 11),
                                 Store(10, 6), I(c)>>,
              <<7>>, <<9, 10, 12, 11, 13, 14, 8>>, 6, FALSE) : s \in {"Add", "Sub"}, c \in {4, 3}}
  \cup {While(Counting(10) \o <<BinOf("i64", s, 6, 4), BinOf("i64", "Mul", 9, 11), I(c)>>, <<7>>, y, 6, FALSE) :
          s \in {"Add", "Sub"}, c \in {4, 2}, y \in {<<9, 10, 8>>, <<8, 9, 10>>}}
\* A constant that only the loop uses, behind its call; and a loop that is one arm of an if.
Enclosed ==
  {While(Summing(11) \o <<Const("f64", 2), Call("f64", "", 6), BinOf("f64", s, 10, 9)>>, <<7>>, <<10, 11, 8>>, 6, first) :
     s \in {"Add", "Mul"}, first \in BOOLEAN}
  \cup {Function(<<"i64", "i64">>, Counting(9) \o <<Add(6, 5), CmpOf(r, 1, 2), Add(1, 2), Phi("i64", <<11, 6>>)>>, <<
     Block("Entry", <<10>>, <<>>, 10, <<2, 5>>, <<>>),
     Block("IfTrue", <<>>, <<>>, 0, <<3>>, <<1>>),
     Block("Loop", <<7>>, <<5, 6>>, 7, <<4, 6>>, <<2, 4>>),
     Block("IfTrue", <<8, 9>>, <<>>, 0, <<3>>, <<3>>),
     Block("IfFalse", <<11>>, <<>>, 0, <<7>>, <<1>>),
     Block("IfFalse", <<>>, <<>>, 0, <<7>>, <<3>>),
     Block("Region", <<>>, <<12>>, 12, <<>>, <<5, 6>>)>>) : r \in {"Lt", "Ge"}}
\* The accumulator (5) is the first phi and takes the last value computed.
Folding ==
  {Function(<<"i64", "i64">>, Two("i64") \o <<I(0), I(1), Phi("i64", <<1, 9>>), Phi("i64", <<3, 8>>), CmpOf("Lt", 6, 2), Add(6, 4),
                                              BinOf("i64", s, x[1], x[2])>>, <<
     Block("Entry", <<>>, <<>>, 0, <<2>>, <<>>),
     Block("Loop", <<7>>, <<5, 6>>, 7, <<3, 4>>, <<1, 3>>),
     Block("IfTrue", <<8, 9>>, <<>>, 0, <<2>>, <<2>>),
     Block("IfFalse", <<>>, <<>>, 5, <<>>, <<2>>)>>) : s \in {"Add", "Mul", "Sub"}, x \in {<<5, 6>>, <<6, 5>>}}
\* The loop with an if in its body: acc is 11, one of 9 and 10.
LoopingBranches ==
  {Function(<<"i64", "i64">>, Counting(11) \o <<Add(6, 5), BinOf("i64", s, 6, 4), Phi("i64", <<9, 10>>), CmpOf(r, 5, 1)>>, <<
     Block("Entry", <<>>, <<>>, 0, <<2>>, <<>>),
     Block("Loop", <<7>>, <<5, 6>>, 7, <<3, 7>>, <<1, 6>>),
     Block("IfTrue", <<12>>, <<>>, 12, <<4, 5>>, <<2>>),
     Block("IfTrue", <<9>>, <<>>, 0, <<6>>, <<3>>),
     Block("IfFalse", <<10>>, <<>>, 0, <<6>>, <<3>>),
     Block("Region", <<8>>, <<11>>, 0, <<2>>, <<4, 5>>),
     Block("IfFalse", <<>>, <<>>, 6, <<>>, <<2>>)>>) : s \in {"Sub", "Add"}, r \in {"Eq", "Lt"}}

(***************************************************************************)
(* What goes wrong.                                                        *)
(***************************************************************************)
\* A loop that swaps two variables, 5 and 6.
Swaps ==
  {Function(<<"i64", "i64">>, Two("i64") \o <<I(0), I(1), Phi("i64", <<1, 6>>), Phi("i64", <<2, 5>>), CmpOf("Lt", 9, 4),
                                              Add(9, 4), Phi("i64", <<3, 8>>)>>, <<
     Block("Entry", <<>>, <<>>, 0, <<2>>, <<>>),
     Block("Loop", <<7>>, <<5, 6, 9>>, 7, <<3, 4>>, <<1, 3>>),
     Block("IfTrue", <<8>>, <<>>, 0, <<2>>, <<2>>),
     Block("IfFalse", <<>>, <<>>, 6, <<>>, <<2>>)>>)}
\* An arm that reads the condition again, in a select.
Rereads ==
  {DiamondOn([Arms("i64", 4) EXCEPT ![6] = Select3("i64", 9, 1, 4), ![8] = Add(7, 10)]
             \o <<CmpOf("Lt", 1, 2), Cast("i64", "Ptr", 2)>>, <<9, 10>>, 9, swap) : swap \in BOOLEAN}
\* A constant that is used before a loop and in it, around a call.
Pooled ==
  {Function(<<"f64", "i64">>, Summing(11) \o <<Const("f64", 2), Call("f64", "", 13), BinOf("f64", "Add", 10, 13),
                                               BinOf("f64", "Mul", 1, 9), BinOf("f64", "Mul", 6, 9)>>, <<
     Block("Entry", <<12>>, <<>>, 0, <<2>>, <<>>),
     Block("Loop", <<13, 7>>, <<5, 6>>, 7, <<3, 4>>, <<1, 3>>),
     Block("IfTrue", <<10, 11, 8>>, <<>>, 0, <<2>>, <<2>>),
     Block("IfFalse", <<>>, <<>>, 13, <<>>, <<2>>)>>)}

Sound == Trees \cup Addresses \cup Quotients \cup Shifts \cup Truths \cup Chosen \cup Floating \cup Converted \cup Calling
         \cup Branching \cup Shared \cup Enclosed \cup Folding \cup Looping \cup LoopingBranches
Family(name) ==
  CASE name = "sound" -> Sound
    [] name = "swap" -> Swaps
    [] name = "truth read twice" -> Rereads
    [] name = "narrow division" -> {Straight(Two("i32") \o <<BinOf("i32", s, 1, 2)>>, 3) : s \in Divisions}
    [] name = "unsigned division" -> {Straight(Two("u64") \o <<BinOf("u64", s, 1, 2)>>, 3) : s \in Divisions}
    [] name = "narrow to float" -> {Straight(<<Param("i32", 1), Cast("f64", "SiToFp", 1)>>, 2)}
    [] name = "narrowed" -> {Straight(Two("i64") \o <<Cast("u32", "Trunc", 1), Cast("u64", "ZExt", 3), Add(2, 2), Add(5, 4)>>, 6)}
    [] name = "pool" -> Pooled
MCFunctions == UNION {Family(n) : n \in Families}
MCArgRegs == <<"rdi", "rsi">>
MCCalleeRegs == {"rbx", "r12"}
MCInputs == {0, 3, 255, 131}
=============================================================================
