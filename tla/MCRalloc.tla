------------------------------ MODULE MCRalloc ------------------------------
(***************************************************************************)
(* Small instances of Ralloc: every choice of a few ranges over a short    *)
(* instruction stream whose position Label begins a block.                 *)
(***************************************************************************)
EXTENDS Ralloc

CONSTANTS MaxPos, Label

\* A caller-saved bank of one register before a callee-saved one.
TwoBanks == << <<[reg |-> 10, callee |-> FALSE], [reg |-> 3, callee |-> TRUE]>> >>
\* Two caller-saved registers and a callee-saved one; a second class of one.
TwoClasses == << <<[reg |-> 10, callee |-> FALSE], [reg |-> 11, callee |-> FALSE],
                   [reg |-> 3, callee |-> TRUE]>>,
                 <<[reg |-> 40, callee |-> FALSE]>> >>

Hulls == {h \in (0 .. MaxPos) \X (0 .. MaxPos) : h[1] < h[2] /\ h[2] # Label}

MkRange(h, gs, x, w, c) ==
  [cls |-> c, weight |-> w, crosses |-> x, first |-> h[1], last |-> h[2],
   def |-> h[1] # Label, gens |-> gs]

\* The hull alone, or two generations of a value that is written twice.
Gens(h) ==
  {{}} \cup
  {{[start |-> h[1], end |-> m], [start |-> n, end |-> h[2]]} :
     m \in (h[1] .. h[2]) \ {Label}, n \in (h[1] .. h[2]) \ {Label}}

OrderedGens(h) == {gs \in Gens(h) : \A x, y \in gs : x = y \/ x.end < y.start \/ y.end < x.start}

\* Selection and sweep: three hulls, each free to cross a call.
SweepProblems ==
  {[vreg |-> [i \in 1 .. 3 |-> MkRange(hs[i], {}, i \in X, <<0, 3, 2>>[i], 1)],
    class |-> TwoBanks, moves |-> << >>, flip |-> f] :
     hs \in [1 .. 3 -> Hulls], X \in SUBSET (1 .. 3), f \in BOOLEAN}

\* Coalescing: generations of the first two ranges, three moves in a cycle;
\* range 1 may cross a call; range 3, the whole stream, a stretch over the label or
\* its end, may be of the other class.
CoalesceProblems ==
  {[vreg |-> [i \in 1 .. 3 |->
                 MkRange(r[i][1], r[i][2], x /\ i = 1, i, IF i = 3 THEN c ELSE 1)],
    class |-> TwoClasses, moves |-> << <<1, 2>>, <<2, 3>>, <<3, 1>> >>, flip |-> FALSE] :
     r \in {f \in [1 .. 3 -> UNION {{<<h, gs>> : gs \in OrderedGens(h)} : h \in Hulls}] :
              f[3] \in {<<h, {}>> : h \in {<<0, MaxPos>>, <<1, 3>>, <<3, MaxPos>>}}},
     x \in BOOLEAN, c \in 1 .. 2}

AllProblems == SweepProblems \cup CoalesceProblems
=============================================================================
