---------------------------- MODULE MCDominators ----------------------------
(* Every control graph of N blocks, whose blocks have at most two           *)
(* successors in any order and whose entry has no predecessor.              *)
EXTENDS Dominators

CONSTANT N

MCBlocks == 1 .. N
Others == 2 .. N
Targets == {<<>>} \cup {<<s>> : s \in Others}
           \cup {e \in Others \X Others : e[1] # e[2]}
MCGraphs == [MCBlocks -> Targets]
=============================================================================
