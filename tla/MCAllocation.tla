---------------------------- MODULE MCAllocation ----------------------------
(***************************************************************************)
(* Functions of two slots over a handful of block graphs: a loop with a    *)
(* header and a latch, a rotated loop whose latch leaves it, a diamond,    *)
(* nested loops, and a loop whose body may skip its latch.  No path reads  *)
(* a slot before writing it: the prologue writes slot 1; slot 2 is written *)
(* before the blocks that read it.  Two registers, one saved by the callee.*)
(***************************************************************************)
EXTENDS Allocation, TLC

CONSTANT Shapes

Pair == 1 .. 2

TwoRegisters == <<[reg |-> 10, callee |-> FALSE], [reg |-> 3, callee |-> TRUE]>>

I(o, s) == [op |-> o, slot |-> s]
Jmp == I("jmp", 0)
Set(s) == <<I("set", s)>>
Read(s) == <<I("use", s)>>
Copy(a, z) == <<I("use", a), I("def", z)>>
Computed(a, b, z) == <<I("use", a), I("gap", b), I("op", 0), I("def", z)>>
Called == <<I("call", 0), I("def", 1)>>
None == << >>

Graph == ("while" :> <<{2, 3}, {1}, {}>>) @@ ("rotated" :> <<{2}, {2, 3}, {}>>)
         @@ ("diamond" :> <<{2, 3}, {3}, {}>>) @@ ("nested" :> <<{2}, {2, 3}, {1, 4}, {}>>)
         @@ ("skip" :> <<{2, 4}, {1, 3}, {1}, {}>>)

\* Stream layout: the prologue, then each block's label, body and jump.
Stream(pro, body, g) ==
  LET Lay[b \in 0 .. Len(g)] ==
        IF b = 0 THEN pro
        ELSE Lay[b - 1] \o <<I("label", b)>> \o body[b] \o
             (IF g[b] = {} THEN << >> ELSE <<Jmp>>)
      seq == Lay[Len(g)]
  IN  [i \in 0 .. (Len(seq) - 1) |-> seq[i + 1]]

\* What a statement may be, when both slots have been written.
Statement == {Set(s) : s \in Pair} \cup {Read(s) : s \in Pair}
               \cup {Copy(1, 2), Copy(2, 1), Called, <<I("addr", 2)>>}
               \cup {Computed(a, b, z) : a, b, z \in Pair}

Bodies(n, firsts, seconds, more, thirds, fourths) ==
  {[b \in 1 .. n |-> CASE b = 1 -> x [] b = 2 -> y \o z [] b = 3 -> w [] OTHER -> q] :
     x \in firsts, y \in seconds, z \in more, w \in thirds, q \in fourths}

\* Slot 2 is first written in the prologue, in block 1, or in block 2 for
\* itself and block 3.
Streams(g) ==
  LET n == Len(g)
      ends == {None, Read(1)}
      small == {None, Read(1), Copy(2, 1), Called}
  IN {Stream(Set(1) \o Set(2), body, g) :
        body \in Bodies(n, {None, Read(1)}, Statement, small, small, ends)}
     \cup {Stream(Set(1), body, g) :
             body \in Bodies(n, {Set(2), Computed(1, 1, 2)}, Statement, {None}, small, ends)}
     \cup (IF g[3] # {} /\ g[1] # {2}
           THEN {Stream(Set(1), body, g) :
                   body \in Bodies(n, {None, Read(1)}, {Set(2), Computed(1, 1, 2)}, small,
                                   {None, Read(1), Read(2), Copy(2, 1)}, ends)}
           ELSE {})

\* Three slots for two registers: two statements in the body of a loop.
Crowded ==
  LET busy == {Copy(a, z) : a, z \in 1 .. 3} \cup {Computed(a, b, z) : a, b, z \in 1 .. 3}
      g == Graph["while"]
  IN {[code |-> Stream(Set(1) \o Set(2) \o Set(3), <<Read(1), x \o y, Read(2)>>, g),
       succs |-> g, slots |-> 1 .. 3] : x, y \in busy}

Functions == Crowded \cup UNION {{[code |-> c, succs |-> Graph[n], slots |-> Pair] :
                        c \in Streams(Graph[n])} : n \in Shapes}
=============================================================================
