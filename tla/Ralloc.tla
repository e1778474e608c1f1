------------------------------- MODULE Ralloc -------------------------------
(***************************************************************************)
(* The target-neutral register allocator core,                             *)
(* jules/src/core/codegen/ralloc.cpp: one call of ralloc_hybrid on a       *)
(* problem p.  Per register class it selects the ranges that keep a        *)
(* register (two flow stages and a greedy repair), sweeps the selected     *)
(* ranges by left endpoint over the banks, and after the last class        *)
(* coalesces move pairs for a bounded number of rounds.                    *)
(*                                                                         *)
(* Problems and ranges are those of module RallocProblem.                  *)
(* ralloc_flow_select is modelled here by what it                          *)
(* promises (any best selection of module Spans); RallocFlow models how it *)
(* finds one.                                                              *)
(***************************************************************************)
EXTENDS RallocProblem

CONSTANTS Problems,    \* the problems the targets may pose
          NoReg,       \* "not promoted": the range keeps its memory operands
          MaxRounds    \* coalescing rounds (6 in the code)

ASSUME ProblemsAssumption == \A q \in Problems : IsProblem(q)
ASSUME NoRegAssumption == NoReg \notin Nat
ASSUME MaxRoundsAssumption == MaxRounds \in Nat \ {0}

-----------------------------------------------------------------------------
VARIABLES p,        \* the problem being solved
          pc,       \* the stage of ralloc_hybrid
          ci,       \* the class under work
          selA,     \* selected call-crossing ranges (sel_a_v)
          selB,     \* selected non-crossing ranges (sel_b_v)
          rej,      \* crossing ranges the repair has still to look at
          todo,     \* selected ranges the sweep has still to place
          slot,     \* RegUse of each slot of the class: [active, last]
          asg,      \* RaAssign: the register of each range, or NoReg
          round, mi, any   \* coalescing: round, next move, "some move fired"

vars == <<p, pc, ci, selA, selB, rej, todo, slot, asg, round, mi, any>>

Vregs == DOMAIN p.vreg
V(v) == p.vreg[v]
\* (A name with a suffix, here and below, is a faulty variant of the operator
\* that follows it; the properties are checked to refute it.)
Slots_FirstClass == p.class[1]
Slots == p.class[ci]

OfClass  == {v \in Vregs : V(v).cls = ci}
Total    == Len(Slots)
Callee   == Cardinality({i \in DOMAIN Slots : Slots[i].callee})
Crossing == {v \in OfClass : V(v).crosses /\ Callee > 0}
FreeGoing == {v \in OfClass : ~V(v).crosses}

\* Occupancy profile of a set of selected ranges.
Occupancy(S, s) == Cardinality({v \in S : s \in Span(V(v))})

AllSegs == UNION {Span(V(v)) : v \in OfClass}

\* What ralloc_flow_select is asked for the ranges C, with a capacity per
\* segment, and what it may answer.
Selections(C, cap) ==
  BestSelections([v \in C |-> [start |-> SpanStart(V(v)), end |-> SpanEnd(V(v)),
                              weight |-> V(v).weight]],
                 [s \in UNION {Span(V(v)) : v \in C} |-> cap[s]])

-----------------------------------------------------------------------------
Idle(n) == [i \in 1..n |-> [active |-> FALSE, last |-> 0]]

Init == /\ p \in Problems
        /\ pc = "selectA" /\ ci = 1
        /\ selA = {} /\ selB = {} /\ rej = {} /\ todo = {}
        /\ slot = << >>
        /\ asg = [v \in Vregs |-> NoReg]
        /\ round = 0 /\ mi = 1 /\ any = FALSE

\* A class with no register, or with no candidate range, is left alone.
SkipClass ==
  /\ pc = "selectA" /\ ci <= Len(p.class)
  /\ Total = 0 \/ Crossing \cup FreeGoing = {}
  /\ ci' = ci + 1
  /\ UNCHANGED <<p, pc, selA, selB, rej, todo, slot, asg, round, mi, any>>

\* Stage A: crossing ranges against the callee-saved capacity.
SelectCrossing ==
  /\ pc = "selectA" /\ ci <= Len(p.class)
  /\ Total > 0 /\ Crossing \cup FreeGoing # {}
  /\ selA' \in Selections(Crossing, [s \in AllSegs |-> Callee])
  /\ pc' = "selectB"
  /\ UNCHANGED <<p, ci, selB, rej, todo, slot, asg, round, mi, any>>

\* Stage B: the others against what stage A leaves of the whole class.
Residual_Full(s) == Total
Residual(s) == LET x == Occupancy(selA, s) IN IF x > Total THEN 0 ELSE Total - x

SelectFree ==
  /\ pc = "selectB"
  /\ selB' \in Selections(FreeGoing, [s \in AllSegs |-> Residual(s)])
  /\ rej' = Crossing \ selA
  /\ pc' = "repair"
  /\ UNCHANGED <<p, ci, selA, todo, slot, asg, round, mi, any>>

\* Repair: by descending weight, a rejected crossing range comes back when
\* both the callee-saved bank and the class have room along its span.
HeavierFirst(v, w) == \/ V(v).weight > V(w).weight
                      \/ V(v).weight = V(w).weight /\ v < w

HasRoom_CalleeOnly(v) == \A s \in Span(V(v)) : Occupancy(selA, s) < Callee
HasRoom(v) == \A s \in Span(V(v)) :
                 /\ Occupancy(selA, s) < Callee
                 /\ Occupancy(selA, s) + Occupancy(selB, s) < Total

Repair ==
  /\ pc = "repair" /\ rej # {}
  /\ \E v \in rej :
       /\ \A w \in rej \ {v} : HeavierFirst(v, w)
       /\ selA' = IF HasRoom(v) THEN selA \cup {v} ELSE selA
       /\ rej' = rej \ {v}
  /\ UNCHANGED <<p, pc, ci, selB, todo, slot, asg, round, mi, any>>

BeginSweep ==
  /\ pc = "repair" /\ rej = {}
  /\ todo' = selA \cup selB
  /\ slot' = Idle(Total)
  /\ pc' = "sweep"
  /\ UNCHANGED <<p, ci, selA, selB, rej, asg, round, mi, any>>

-----------------------------------------------------------------------------
(* The sweep: by left endpoint, then by id.                                *)

Earlier(v, w) == \/ V(v).first < V(w).first
                 \/ V(v).first = V(w).first /\ v < w

\* A holder that ended before v begins, or ends exactly where v is defined
\* (the two-operand handover), gives its register up.
Expired(u, r) == u.last < r.first \/ (u.last = r.first /\ r.def)

Expire(r) == [i \in DOMAIN slot |->
                IF slot[i].active /\ Expired(slot[i], r)
                THEN [slot[i] EXCEPT !.active = FALSE] ELSE slot[i]]

\* Bank order: callee-saved banks first for non-crossing ranges under -Os.
Preferred(r, i, j) ==
  IF p.flip /\ ~r.crosses /\ Slots[i].callee # Slots[j].callee
  THEN Slots[i].callee ELSE i < j

Eligible_AnyBank(r) == DOMAIN Slots
Eligible(r) == {i \in DOMAIN Slots : r.crosses => Slots[i].callee}

Place ==
  /\ pc = "sweep" /\ todo # {}
  /\ \E v \in todo :
       /\ \A w \in todo \ {v} : Earlier(v, w)
       /\ todo' = todo \ {v}
       /\ LET after == Expire(V(v))
              open == {i \in Eligible(V(v)) : ~after[i].active}
          IN \/ \E i \in open :
                  /\ \A j \in open \ {i} : Preferred(V(v), i, j)
                  /\ slot' = [after EXCEPT ![i] = [active |-> TRUE, last |-> V(v).last]]
                  /\ asg' = [asg EXCEPT ![v] = Slots[i].reg]
             \/ \* the demote valve
                /\ open = {}
                /\ slot' = after
                /\ UNCHANGED asg
  /\ UNCHANGED <<p, pc, ci, selA, selB, rej, round, mi, any>>

NextClass ==
  /\ pc = "sweep" /\ todo = {}
  /\ ci' = ci + 1 /\ pc' = "selectA"
  /\ selA' = {} /\ selB' = {} /\ slot' = << >>
  /\ UNCHANGED <<p, rej, todo, asg, round, mi, any>>

-----------------------------------------------------------------------------
(* Iterated coalescing.                                                    *)

BeginCoalescing ==
  /\ pc = "selectA" /\ ci > Len(p.class)
  /\ pc' = "coalesce" /\ mi' = 1 /\ any' = FALSE
  /\ UNCHANGED <<p, ci, selA, selB, rej, todo, slot, asg, round>>

GensCompatible_Nested(r, s) ==
  \A x \in GensOf(r), y \in GensOf(s) :
     (x.start < y.start /\ y.start < x.end) => x.end = y.start \/ y.end = x.start

\* The sub-intervals of two ranges never overlap, or only hand over.
GensCompatible(r, s) ==
  \A x \in GensOf(r), y \in GensOf(s) :
     (x.start <= y.end /\ y.start <= x.end) => x.end = y.start \/ y.end = x.start

HullsOverlap(r, s) == r.first <= s.last /\ s.first <= r.last

CalleeSaved(c, reg) == \E i \in DOMAIN p.class[c] :
                          p.class[c][i].reg = reg /\ p.class[c][i].callee

\* attempt(): may range m move to the register of range o?
MayJoin(m, o) ==
  /\ V(m).crosses => CalleeSaved(V(m).cls, asg[o])
  /\ GensCompatible(V(m), V(o))
  /\ \A u \in Vregs \ {m, o} :
        (V(u).cls = V(m).cls /\ asg[u] = asg[o]) => ~HullsOverlap(V(u), V(m))

Movable(a, b) == /\ a \in Vregs /\ b \in Vregs
                 /\ V(a).cls = V(b).cls
                 /\ asg[a] # NoReg /\ asg[b] # NoReg
                 /\ asg[a] # asg[b]

Mover == p.moves[mi][1]
Other == p.moves[mi][2]

InRound == pc = "coalesce" /\ mi <= Len(p.moves)

JoinOther == /\ InRound /\ Movable(Mover, Other) /\ MayJoin(Mover, Other)
             /\ asg' = [asg EXCEPT ![Mover] = asg[Other]]
             /\ any' = TRUE /\ mi' = mi + 1
             /\ UNCHANGED <<p, pc, ci, selA, selB, rej, todo, slot, round>>

JoinMover_ForgetsAny == /\ InRound /\ Movable(Mover, Other)
                        /\ ~MayJoin(Mover, Other) /\ MayJoin(Other, Mover)
                        /\ asg' = [asg EXCEPT ![Other] = asg[Mover]]
                        /\ mi' = mi + 1
                        /\ UNCHANGED <<p, pc, ci, selA, selB, rej, todo, slot, round, any>>
JoinMover == /\ InRound /\ Movable(Mover, Other)
             /\ ~MayJoin(Mover, Other) /\ MayJoin(Other, Mover)
             /\ asg' = [asg EXCEPT ![Other] = asg[Mover]]
             /\ any' = TRUE /\ mi' = mi + 1
             /\ UNCHANGED <<p, pc, ci, selA, selB, rej, todo, slot, round>>

LeaveApart == /\ InRound
              /\ Movable(Mover, Other) =>
                   ~MayJoin(Mover, Other) /\ ~MayJoin(Other, Mover)
              /\ mi' = mi + 1
              /\ UNCHANGED <<p, pc, ci, selA, selB, rej, todo, slot, asg, round, any>>

EndRound == /\ pc = "coalesce" /\ mi > Len(p.moves)
            /\ round' = round + 1
            /\ IF any /\ round + 1 < MaxRounds
               THEN mi' = 1 /\ any' = FALSE /\ UNCHANGED pc
               ELSE pc' = "done" /\ UNCHANGED <<mi, any>>
            /\ UNCHANGED <<p, ci, selA, selB, rej, todo, slot, asg>>

Done == pc = "done" /\ UNCHANGED vars

Next == \/ SkipClass \/ SelectCrossing \/ SelectFree \/ Repair \/ BeginSweep
        \/ Place \/ NextClass \/ BeginCoalescing
        \/ JoinOther \/ JoinMover \/ LeaveApart \/ EndRound \/ Done

Spec == Init /\ [][Next]_vars
-----------------------------------------------------------------------------
(* Properties.                                                             *)

Promoted == {v \in Vregs : asg[v] # NoReg}
Regs(c) == {p.class[c][i].reg : i \in DOMAIN p.class[c]}

\* The stages of ralloc_hybrid and the ranges of its working sets.
TypeOK ==
  /\ IsProblem(p)
  /\ pc \in {"selectA", "selectB", "repair", "sweep", "coalesce", "done"}
  /\ ci \in 1 .. (Len(p.class) + 1)
  /\ selA \subseteq Vregs /\ selB \subseteq Vregs
  /\ rej \subseteq Vregs /\ todo \subseteq Vregs
  /\ asg \in [Vregs -> Nat \cup {NoReg}]
  /\ \A v \in Promoted : asg[v] \in Regs(V(v).cls)
  /\ round \in Nat /\ mi \in Nat \ {0} /\ any \in BOOLEAN

\* Two promoted ranges of a class share a register only if their values are
\* never live in the same segment: the sweep's handover rule and the
\* coalescer's sub-interval test (ralloc.cpp:234-318) never let one value
\* overwrite another that is still to be read.
NoClobber ==
  \A v, w \in Promoted :
     (v # w /\ V(v).cls = V(w).cls /\ asg[v] = asg[w])
        => LiveSegs(V(v)) \cap LiveSegs(V(w)) = {}

\* A value that is live across a call is never in a register the callee may
\* overwrite, neither by the sweep nor after a coalescing move.
CrossingSafe ==
  \A v \in Promoted : V(v).crosses => CalleeSaved(V(v).cls, asg[v])

\* Both stages and the repair together keep the crossing ranges within the
\* callee-saved bank and all ranges within the class at every segment.
SelectionFits ==
  pc \in {"repair", "sweep"} =>
    \A v \in selA \cup selB : \A s \in Span(V(v)) :
       /\ Occupancy(selA, s) <= Callee
       /\ Occupancy(selA \cup selB, s) <= Total

\* The demote valve opens only for a crossing range, and only because a
\* range that could live anywhere sits in the callee-saved bank where the
\* crossing one begins.
DemotionOnlyByIntruder ==
  pc = "sweep" =>
    \A v \in (selA \cup selB) \ todo : asg[v] = NoReg =>
       /\ V(v).crosses
       /\ \E w \in selB : /\ asg[w] # NoReg /\ CalleeSaved(ci, asg[w])
                          /\ V(w).first <= V(v).first /\ V(v).first <= V(w).last

\* If coalescing stops before its last round, no move is left that it could
\* still have deleted.
CoalescedToFixpoint ==
  (pc = "done" /\ round < MaxRounds) =>
    \A k \in DOMAIN p.moves :
      LET a == p.moves[k][1]  b == p.moves[k][2]
      IN  Movable(a, b) => ~MayJoin(a, b) /\ ~MayJoin(b, a)

\* ralloc.h:20-23 and ralloc.cpp:17-21: the selected set is "guaranteed
\* colorable", the assignment "never needs to invent a new spill".
\* (Does not hold: README, "Disagreements".)
AssignmentInventsNoSpill ==
  pc = "sweep" => \A v \in (selA \cup selB) \ todo : asg[v] # NoReg

=============================================================================
