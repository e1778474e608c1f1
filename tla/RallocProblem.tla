---------------------------- MODULE RallocProblem ----------------------------
(***************************************************************************)
(* The contract between the target and the register allocator core,        *)
(* jules/src/core/codegen/ralloc.h: what a problem is and what the target  *)
(* promises about it.                                                      *)
(*                                                                         *)
(* A range is a record                                                     *)
(*    [cls, weight, crosses, first, last, def, gens]                       *)
(* whose fields are RaVReg's; gens is a set of [start, end] pairs.  The    *)
(* banks of a class are flattened, in bank order, into one sequence of     *)
(* slots [reg, callee].                                                    *)
(***************************************************************************)
EXTENDS Spans, Sequences

-----------------------------------------------------------------------------
(* Ranges, and the target's side of the soundness contract.                *)

\* The segments a range occupies as a whole: segment s lies between
\* positions s and s + 1; a range that starts at a use is live on entry.
SpanStart(r) == IF r.def THEN r.first ELSE IF r.first > 0 THEN r.first - 1 ELSE 0
SpanEnd(r)   == IF r.last > SpanStart(r) THEN r.last ELSE SpanStart(r) + 1
Span(r)      == SpanStart(r) .. (SpanEnd(r) - 1)

\* The exact sub-intervals; a range the target did not refine is its hull.
GensOf(r) == IF r.gens = {} THEN {[start |-> r.first, end |-> r.last]} ELSE r.gens

\* The segments in which the value is really live, by its generations.
LiveSegs(r) == (UNION {g.start .. (g.end - 1) : g \in GensOf(r)})
                 \cup (IF r.def \/ r.first = 0 THEN {} ELSE {r.first - 1})

IsRange(r) == /\ r.first \in Nat /\ r.last \in Nat /\ r.first < r.last
              /\ r.def \in BOOLEAN /\ r.crosses \in BOOLEAN /\ r.weight \in Nat
              /\ \A g \in r.gens : /\ g.start \in Nat /\ g.end \in Nat
                                   /\ r.first <= g.start /\ g.start <= g.end
                                   /\ g.end <= r.last

\* Registers are named once per class.
DistinctRegs(q) == \A c \in DOMAIN q.class : \A i, j \in DOMAIN q.class[c] :
                      q.class[c][i].reg = q.class[c][j].reg => i = j

\* starts_at_def is a fact about the instruction at `first`.
UniformStarts(q) == \A v, w \in DOMAIN q.vreg :
  q.vreg[v].first = q.vreg[w].first => q.vreg[v].def = q.vreg[w].def

\* A range that does not start at a def is live on entry to a block: it has a
\* generation from that label on, and no generation ends at a label.
EntryAtLabel(q) == \A v \in DOMAIN q.vreg : ~q.vreg[v].def =>
  /\ \E g \in GensOf(q.vreg[v]) : g.start = q.vreg[v].first
  /\ \A w \in DOMAIN q.vreg : \A g \in GensOf(q.vreg[w]) :
        g.end # q.vreg[v].first

\* What the target promises about a problem.
IsProblem(q) ==
  /\ DOMAIN q.vreg \subseteq Nat /\ IsFiniteSet(DOMAIN q.vreg)
  /\ q.flip \in BOOLEAN
  /\ q.class \in Seq(Seq([reg : Nat, callee : BOOLEAN]))
  /\ q.moves \in Seq(Nat \X Nat)
  /\ \A v \in DOMAIN q.vreg : /\ IsRange(q.vreg[v])
                              /\ q.vreg[v].cls \in DOMAIN q.class
  /\ DistinctRegs(q) /\ UniformStarts(q) /\ EntryAtLabel(q)
=============================================================================
