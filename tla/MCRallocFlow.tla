---------------------------- MODULE MCRallocFlow ----------------------------
(***************************************************************************)
(* Every call with a few spans on a short chain, as the random cases of    *)
(* scripts/ra_flow_selftest.cpp draw them, and its three hand-made cases.  *)
(***************************************************************************)
EXTENDS RallocFlow

CONSTANTS MaxSegs, MaxCap, MaxSpans, Weights

Chains == UNION {[0 .. (n - 1) -> 0 .. MaxCap] : n \in 1 .. MaxSegs}
SpansOn(n) == {sp \in [start : 0 .. (n - 1), end : 1 .. n, weight : Weights] : sp.start < sp.end}

Sp(a, b, w) == [start |-> a, end |-> b, weight |-> w]
HandCases ==
  {[caps |-> [s \in 0 .. 1 |-> 1], spans |-> <<Sp(0, 1, 5), Sp(1, 2, 5), Sp(0, 2, 9)>>],
   [caps |-> [s \in 0 .. 2 |-> 1],
    spans |-> <<Sp(0, 2, 10), Sp(0, 1, 6), Sp(1, 2, 6), Sp(2, 3, 6)>>],
   [caps |-> [s \in 0 .. 1 |-> IF s = 0 THEN 0 ELSE 2],
    spans |-> <<Sp(0, 2, 100), Sp(1, 2, 1)>>]}

\* Spans are given in no particular order: one representative of each set, and
\* of each pair of equal spans.
Below(a, b) == \/ a.start < b.start
               \/ a.start = b.start /\ a.end < b.end
               \/ a.start = b.start /\ a.end = b.end /\ a.weight < b.weight

SmallCases ==
  UNION {{[caps |-> c, spans |-> ss] :
            ss \in {t \in [1 .. n -> SpansOn(Cardinality(DOMAIN c))] :
                      \A i \in 1 .. (n - 1) : Below(t[i], t[i + 1]) \/ (n = 2 /\ t[1] = t[2])}} :
         c \in Chains, n \in 0 .. MaxSpans}

Calls == SmallCases \cup HandCases
=============================================================================
