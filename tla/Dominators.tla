----------------------------- MODULE Dominators -----------------------------
(***************************************************************************)
(* Dominators and natural loops of the control graph of one function: the  *)
(* depth-first search that numbers the blocks in reverse postorder, the    *)
(* sweeps that climb to the immediate dominators, block by block, and the  *)
(* loops, their nesting and their preheaders as the loop passes ask for    *)
(* them.  Blocks that the search does not reach stay in the graph.         *)
(***************************************************************************)
EXTENDS Integers, Sequences, SequencesExt

CONSTANTS
  Blocks,      \* block heads
  Start,       \* the entry block
  NoNode,      \* the absence of a block
  Unset,       \* no dominator found yet
  Graphs       \* the control graphs: the successors of each block, in order

ASSUME BlocksAssumption == /\ IsFiniteSet(Blocks) /\ Start \in Blocks
                           /\ NoNode \notin Blocks /\ Unset \notin Blocks \cup {NoNode}
\* Control leads to the arms of branches, to regions and to jumps, never to the entry.
ASSUME GraphsAssumption == \A g \in Graphs : /\ g \in [Blocks -> Seq(Blocks)]
                                             /\ \A b \in Blocks : Start \notin ToSet(g[b])

VARIABLES
  succs,       \* the graph
  phase,       \* "search", "sweep", "done"
  stack, seen, post,   \* the depth-first search
  idom,        \* the immediate dominators found so far
  cur,         \* the place of the running sweep in the order
  changed      \* has this sweep changed anything

vars == <<succs, phase, stack, seen, post, idom, cur, changed>>

Preds(b) == {p \in Blocks : b \in ToSet(succs[p])}
\* The orders some predecessors may be met in, which is that of a region's inputs (one
\* met twice adds nothing).
Listings(S) == {ps \in [1 .. Cardinality(S) -> S] : ToSet(ps) = S}

Rpo == Reverse(post)
Number(b) == CHOOSE i \in DOMAIN Rpo : Rpo[i] = b
Reached == ToSet(post)

-----------------------------------------------------------------------------
Init ==
  /\ succs \in Graphs
  /\ phase = "search"
  /\ stack = <<Start>> /\ seen = {Start} /\ post = <<>>
  /\ idom = [b \in Blocks |-> Unset]
  /\ cur = 1 /\ changed = FALSE

Unseen(b) == {i \in DOMAIN succs[b] : succs[b][i] \notin seen}

Advance ==
  /\ phase = "search" /\ stack # <<>>
  /\ \E i \in Unseen(Last(stack)) :
       /\ \A j \in Unseen(Last(stack)) : i <= j
       /\ seen' = seen \cup {succs[Last(stack)][i]}
       /\ stack' = Append(stack, succs[Last(stack)][i])
  /\ UNCHANGED <<succs, phase, post, idom, cur, changed>>

Retreat ==
  /\ phase = "search" /\ stack # <<>>
  /\ Unseen(Last(stack)) = {}
  /\ post' = Append(post, Last(stack)) /\ stack' = Front(stack)
  /\ UNCHANGED <<succs, phase, seen, idom, cur, changed>>

BeginSweeps ==
  /\ phase = "search" /\ stack = <<>>
  /\ phase' = "sweep" /\ cur' = 1 /\ changed' = FALSE
  /\ idom' = [idom EXCEPT ![Start] = NoNode]
  /\ UNCHANGED <<succs, stack, seen, post>>

\* The blocks that the search has reached and the sweeps have given a dominator.
Placed == {b \in Reached : idom[b] # Unset}

\* Two fingers climb towards the entry until they meet.
Intersect(a, b) ==
  LET Meet[e \in Placed \X Placed] ==
        IF e[1] = e[2] THEN e[1]
        ELSE IF Number(e[1]) > Number(e[2]) THEN Meet[<<idom[e[1]], e[2]>>]
        ELSE Meet[<<e[1], idom[e[2]]>>]
  IN  Meet[<<a, b>>]

\* What the predecessors ps have in common, met in turn.
NewIdom(ps) ==
  LET Met[i \in 0 .. Len(ps)] ==
        IF i = 0 THEN NoNode
        ELSE IF ps[i] \notin Placed THEN Met[i - 1]
        ELSE IF Met[i - 1] = NoNode THEN ps[i] ELSE Intersect(ps[i], Met[i - 1])
  IN  Met[Len(ps)]

Climb ==
  /\ phase = "sweep" /\ cur <= Len(Rpo)
  /\ LET b == Rpo[cur] IN
       IF b = Start THEN UNCHANGED <<idom, changed>>
       ELSE \E new \in {NewIdom(ps) : ps \in Listings(Preds(b))} :
              /\ idom' = [idom EXCEPT ![b] = new]
              /\ changed' = (changed \/ idom[b] # new)
  /\ cur' = cur + 1
  /\ UNCHANGED <<succs, phase, stack, seen, post>>

SweepAgain_Never == FALSE
SweepAgain_Always == phase = "sweep" /\ cur > Len(Rpo)
SweepAgain == phase = "sweep" /\ cur > Len(Rpo) /\ changed

NextSweep ==
  /\ SweepAgain
  /\ cur' = 1 /\ changed' = FALSE
  /\ UNCHANGED <<succs, phase, stack, seen, post, idom>>

Finish ==
  /\ phase = "sweep" /\ cur > Len(Rpo) /\ ~SweepAgain
  /\ phase' = "done"
  /\ UNCHANGED <<succs, stack, seen, post, idom, cur, changed>>

Next == Advance \/ Retreat \/ BeginSweeps \/ Climb \/ NextSweep \/ Finish

Spec == Init /\ [][Next]_vars /\ WF_vars(Next)

-----------------------------------------------------------------------------
(* What the passes ask of a finished tree.                                 *)

\* The blocks a walk up the tree meets.
Chain(b) ==
  LET Up[x \in Blocks] == {x} \cup (IF idom[x] \in Blocks THEN Up[idom[x]] ELSE {})
  IN  Up[b]
Dominates(a, b) == a = b \/ (a \in Reached /\ b \in Reached /\ a \in Chain(b))

BackEdges == {e \in Reached \X Reached : e[2] \in ToSet(succs[e[1]]) /\ Dominates(e[2], e[1])}

\* Backwards from the latch, and no further than the header; unreached blocks
\* that lead into the loop are collected with it.
Body_ThroughHeader(u, h) ==
  LET Back[k \in 0 .. Cardinality(Blocks)] ==
        IF k = 0 THEN {u} ELSE Back[k - 1] \cup UNION {Preds(n) : n \in Back[k - 1]}
  IN  Back[Cardinality(Blocks)] \cup {h}
Body(u, h) ==
  LET Back[k \in 0 .. Cardinality(Blocks)] ==
        IF k = 0 THEN {u} ELSE Back[k - 1] \cup UNION {Preds(n) : n \in Back[k - 1] \ {h}}
  IN  Back[Cardinality(Blocks)] \cup {h}

\* The loops of one header are one loop.
Headers == {e[2] : e \in BackEdges}
LoopOf(h) == UNION {Body(e[1], h) : e \in {x \in BackEdges : x[2] = h}}

Containing(h) == {o \in Headers : /\ Cardinality(LoopOf(o)) > Cardinality(LoopOf(h))
                                  /\ LoopOf(h) \subseteq LoopOf(o)}
Smallest(S) == CHOOSE h \in S : \A o \in S : Cardinality(LoopOf(h)) <= Cardinality(LoopOf(o))
Parent(h) == IF Containing(h) = {} THEN NoNode ELSE Smallest(Containing(h))
Depth(h) ==
  LET Count[x \in Blocks] == 1 + (IF Parent(x) = NoNode THEN 0 ELSE Count[Parent(x)])
  IN  Count[h]

Innermost(b) ==
  LET around == {h \in Headers : b \in LoopOf(h)}
  IN  IF around = {} THEN NoNode ELSE Smallest(around)

Preheader(h) ==
  LET outside == Preds(h) \ LoopOf(h)
  IN  IF \E p \in outside : outside = {p} THEN CHOOSE p \in outside : TRUE ELSE NoNode

-----------------------------------------------------------------------------
(* The definitions the answers are held against.                           *)

\* The blocks reachable from some without entering another.
From(S, avoid) ==
  LET Grow[k \in 0 .. Cardinality(Blocks)] ==
        IF k = 0 THEN S \ {avoid}
        ELSE Grow[k - 1] \cup ((UNION {ToSet(succs[b]) : b \in Grow[k - 1]}) \ {avoid})
  IN  Grow[Cardinality(Blocks)]

Reachable == From({Start}, NoNode)
TrulyDominates(a, b) == b \notin From({Start}, a)
Dominators(b) == {a \in Reachable \ {b} : TrulyDominates(a, b)}

OnCycle(b) == b \in From(ToSet(succs[b]), NoNode)

\* The edges that do not lead back to a dominator, and what they lead to.
Forward(b) == {s \in ToSet(succs[b]) : ~TrulyDominates(s, b)}
Ahead(b) ==
  LET Grow[k \in 0 .. Cardinality(Blocks)] ==
        IF k = 0 THEN Forward(b)
        ELSE Grow[k - 1] \cup UNION {Forward(x) : x \in Grow[k - 1]}
  IN  Grow[Cardinality(Blocks)]

\* Without its back edges, the reachable graph has no cycle.
Reducible == \A b \in Reachable : b \notin Ahead(b)

Done == phase = "done"

(* The tree holds, for every reachable block, the dominator that all its   *)
(* other dominators dominate, and the blocks numbered are the reachable    *)
(* ones.                                                                   *)
IdomExact ==
  Done => /\ Reached = Reachable
          /\ \A b \in Reachable \ {Start} :
               /\ idom[b] \in Dominators(b)
               /\ \A a \in Dominators(b) : a = idom[b] \/ TrulyDominates(a, idom[b])

(* In a reducible graph, the blocks inside loops are those on cycles.      *)
CyclesFound ==
  Done /\ Reducible => \A b \in Reachable : OnCycle(b) <=> Innermost(b) # NoNode

(* Two loops share no reachable block or one holds the other, the parent   *)
(* lies one level further out, and the header of the innermost loop around *)
(* a block dominates it.                                                   *)
LoopsNest ==
  Done /\ Reached = Blocks =>
     /\ \A h, o \in Headers : \/ LoopOf(h) \cap LoopOf(o) = {}
                              \/ LoopOf(h) \subseteq LoopOf(o) \/ LoopOf(o) \subseteq LoopOf(h)
     /\ \A h \in Headers : Parent(h) # NoNode => Depth(h) = Depth(Parent(h)) + 1
     /\ \A b \in Blocks : Innermost(b) # NoNode => Dominates(Innermost(b), b)

(* A preheader is the immediate dominator of the header: what is moved     *)
(* into it runs before the loop whichever way the loop is entered.         *)
PreheaderDominates ==
  Done => \A h \in Headers : Preheader(h) # NoNode => Preheader(h) = idom[h]

(* The loop analysis: loops are the cycles, they nest, and preheaders      *)
(* dominate.                                                               *)
LoopsExact == CyclesFound /\ LoopsNest /\ PreheaderDominates

(* The sweeps come to an end.                                              *)
Terminates == <>Done
=============================================================================
