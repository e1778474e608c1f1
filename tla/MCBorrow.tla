------------------------------ MODULE MCBorrow ------------------------------
(***************************************************************************)
(* Functions over a parameter p and three variables: a straight line, an   *)
(* if with two branches, loops that may be left or continued from a        *)
(* branch, and blocks with defers, behind a prologue that owns one         *)
(* allocation, or two and a view of the second.                            *)
(***************************************************************************)
EXTENDS Borrow

CONSTANT Kinds

Variables == {"p", "q", "r", "s", "t"}
Parameters == <<"p">>

S(op, x, form, y) == [op |-> op, x |-> x, form |-> form, y |-> y]
B(op) == S(op, "", "", "")
Hole(menu) == S("hole", "", menu, "")
If == B("if")
Otherwise == B("else")
While == B("while")
Block == B("block")
Fi == B("end")
Take(x, form, y) == S("set", x, form, y)

\* id returns its parameter, made a new allocation, and pass what id returns.
Declared == <<[name |-> "id", body |-> "param"], [name |-> "make", body |-> "alloc"],
              [name |-> "pass", body |-> "id"]>>

Touches == {S(o, x, "", "") : o \in {"free", "read", "write"}, x \in Variables}
Moves == {Take(x, f, y) : x \in Variables, f \in {"move", "view", "id"}, y \in Variables}
Allocs == {Take(x, "alloc", "") : x \in Variables}
Calls == {Take("s", f, y) : f \in {"make", "pass"}, y \in Variables}
Lets == {S("let", "t", f, y) : f \in {"move", "view", "id"}, y \in Variables}
        \cup {S("let", "t", "alloc", "")}
Defers == {S("defer", x, f, "") : x \in Variables, f \in {"free", "read"}}

Statements == [any |-> Touches \cup Moves \cup Lets \cup Calls,
            change |-> Moves \cup Allocs \cup {S("free", x, "", "") : x \in Variables} \cup {B("skip")},
            body |-> Moves \cup Allocs \cup Calls \cup Lets \cup {S("free", x, "", "") : x \in Variables},
            few |-> {m \in Moves : {m.x, m.y} \subseteq {"q", "r", "s"}},
            touch |-> Touches,
            free |-> {S("free", x, "", "") : x \in Variables},
            jump |-> {B("break"), B("continue"), B("return")} ,
            defer |-> Defers,
            return |-> {S("return", "", "move", y) : y \in Variables} \cup {B("return")}]

Two == <<S("let", "q", "alloc", ""), S("let", "r", "alloc", ""), S("let", "s", "view", "r")>>

Shape ==
  [line   |-> <<Hole("any"), Hole("any"), Hole("touch")>>,
   branch |-> <<If, Hole("change"), Otherwise, Hole("change"), Fi, Hole("free"), Hole("touch")>>,
   loop   |-> <<While, Hole("body"), Hole("body"), Fi, Hole("touch")>>,
   exits  |-> <<While, Hole("few"), If, Hole("jump"), B("skip"), Otherwise, Fi, Hole("change"), Fi, Hole("touch")>>,
   defers |-> <<Block, Hole("defer"), If, Hole("any"), Otherwise, Fi, Fi, Hole("return")>>]

Samples == {Two \o Shape[k] : k \in Kinds}
=============================================================================
