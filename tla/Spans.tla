-------------------------------- MODULE Spans --------------------------------
(***************************************************************************)
(* Weighted spans on a chain of segments, and the selections of spans the  *)
(* register allocator wants: feasible for a capacity per segment and of    *)
(* maximum weight (jules/src/core/codegen/ralloc.h:136-157; the reference  *)
(* definition is the exhaustive search of scripts/ra_flow_selftest.cpp).   *)
(*                                                                         *)
(* spans is a function from ids to [start, end, weight]; a span occupies   *)
(* the segments start .. end - 1.  caps maps each segment to a capacity.   *)
(***************************************************************************)
EXTENDS Integers, FiniteSets

Segments(sp) == sp.start .. (sp.end - 1)

\* How many of the spans in S occupy segment s.
OccupancyOf(spans, S, s) == Cardinality({i \in S : s \in Segments(spans[i])})

Feasible(spans, caps, S) ==
  \A s \in DOMAIN caps : OccupancyOf(spans, S, s) <= caps[s]

\* The sum of the weights of the spans in S.
WeightOf(spans, S) == Cardinality(UNION {{i} \X (1 .. spans[i].weight) : i \in S})

\* The optimal selections.
BestSelections(spans, caps) ==
  LET feasible == {S \in SUBSET DOMAIN spans : Feasible(spans, caps, S)}
  IN  {S \in feasible : \A T \in feasible : WeightOf(spans, T) <= WeightOf(spans, S)}
=============================================================================
