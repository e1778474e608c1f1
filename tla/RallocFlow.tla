----------------------------- MODULE RallocFlow -----------------------------
(***************************************************************************)
(* Exact live-range selection by min-cost flow,                            *)
(* jules/src/core/codegen/ralloc_flow.cpp: one call of ralloc_flow_select. *)
(* The segment chain is compressed to its boundaries, the network is       *)
(* built, and successive shortest augmenting paths, each found by a        *)
(* queue-driven label-correcting search (spfa_path), are pushed until the  *)
(* sink is unreachable.  One Relax step is one iteration of the search's   *)
(* loop; one Augment step is one iteration of the outer loop.              *)
(*                                                                         *)
(* A node is the boundary it stands for.  The arcs added by add_arc are    *)
(* numbered 1, 2, ...; k names the forward arc and -k its reverse.         *)
(***************************************************************************)
EXTENDS Spans, Sequences

CONSTANTS Instances,  \* calls: [spans |-> id -> span, caps |-> 0..S-1 -> Nat]
          NoAnswer, Inf

VARIABLES spans, caps,  \* the arguments
          net,          \* the forward arcs, in the order they are added
          res,          \* residual capacity of every arc, by its number
          dist, parent, queue,   \* spfa_path's labels, tree and queue
          pc, answer

vars == <<spans, caps, net, res, dist, parent, queue, pc, answer>>
args == <<spans, caps>>
labels == <<dist, parent, queue>>

-----------------------------------------------------------------------------
(* The network.                                                            *)

\* S segments; a span ending beyond the chain is cut to it.
S == Cardinality(DOMAIN caps)
EndOf(sp) == IF sp.end > S THEN S ELSE sp.end

\* Degenerate spans, and spans outside the chain, have no arc.
Kept == {i \in DOMAIN spans : spans[i].start < spans[i].end /\ spans[i].start < S}

CapBefore(q) == IF q = 0 THEN 0 ELSE caps[q - 1]

Bounds_SpansOnly == {0, S} \cup {spans[i].start : i \in Kept}
                           \cup {EndOf(spans[i]) : i \in Kept}
\* Span endpoints and capacity changes.
Bounds == {0, S} \cup {spans[i].start : i \in Kept}
                 \cup {EndOf(spans[i]) : i \in Kept}
                 \cup {q \in DOMAIN caps : caps[q] # CapBefore(q)}

Src == S + 1
Snk == S + 2
Nodes == Bounds \cup {Src, Snk}

\* The members of a finite set in ascending order of a key that tells them apart.
SortBy(T, Key(_)) ==
  [k \in 1 .. Cardinality(T) |->
     CHOOSE x \in T : Cardinality({y \in T : Key(y) <= Key(x)}) = k]
Ascending(T) == SortBy(T, LAMBDA x : x)

\* Slack arcs: a register idle from one boundary to the next.
SlackArc(b) == LET prev == CHOOSE a \in Bounds : a < b /\ \A c \in Bounds : c < b => c <= a
                   cap == CHOOSE m \in {caps[q] : q \in prev .. (b - 1)} :
                             \A q \in prev .. (b - 1) : m <= caps[q]
               IN  [from |-> b, to |-> prev, cap |-> cap, cost |-> 0]
SlackArcs == LET bs == Ascending(Bounds \ {0}) IN [k \in DOMAIN bs |-> SlackArc(bs[k])]

\* Span arcs: a register busy, with the span's weight as profit.
SpanArc(i) == [from |-> EndOf(spans[i]), to |-> spans[i].start, cap |-> 1,
               cost |-> 0 - spans[i].weight]
SpanArcs == LET ks == Ascending(Kept) IN [k \in DOMAIN ks |-> SpanArc(ks[k])]

\* A node absorbs flow where capacity grows to its right.
Supply(q) == IF q = 0 THEN 0 - caps[0]
             ELSE IF q = S THEN caps[S - 1]
             ELSE caps[q - 1] - caps[q]

SupplyArc(q) == IF Supply(q) > 0
                THEN [from |-> Src, to |-> q, cap |-> Supply(q), cost |-> 0]
                ELSE [from |-> q, to |-> Snk, cap |-> 0 - Supply(q), cost |-> 0]
SupplyArcs == LET qs == Ascending({q \in Bounds : Supply(q) # 0})
              IN  [k \in DOMAIN qs |-> SupplyArc(qs[k])]

\* The order of add_arc's calls.
Network == SlackArcs \o SpanArcs \o SupplyArcs

-----------------------------------------------------------------------------
(* Residual arcs, by number.                                               *)

Arcs == {k \in (0 - Len(net)) .. Len(net) : k # 0}
Index(k) == IF k > 0 THEN k ELSE 0 - k
ToOf(k) == IF k > 0 THEN net[k].to ELSE net[0 - k].from
FromOf(k) == IF k > 0 THEN net[k].from ELSE net[0 - k].to
Cost(k) == IF k > 0 THEN net[k].cost ELSE 0 - net[0 - k].cost

FreshLabels == /\ dist' = [n \in Nodes |-> IF n = Src THEN 0 ELSE Inf]
               /\ parent' = [n \in Nodes |-> 0]
               /\ queue' = <<Src>>

Init == /\ \E in \in Instances : spans = in.spans /\ caps = in.caps
        /\ net = << >> /\ res = << >>
        /\ dist = << >> /\ parent = << >> /\ queue = << >>
        /\ pc = "build" /\ answer = NoAnswer

\* Nothing to select from.
Trivial == /\ pc = "build" /\ (DOMAIN spans = {} \/ DOMAIN caps = {})
           /\ answer' = {} /\ pc' = "done"
           /\ UNCHANGED <<args, net, res, labels>>

Build == /\ pc = "build" /\ DOMAIN spans # {} /\ DOMAIN caps # {}
         /\ net' = Network
         /\ res' = [k \in {j \in (0 - Len(net')) .. Len(net') : j # 0} |->
                      IF k > 0 THEN net'[k].cap ELSE 0]
         /\ FreshLabels
         /\ pc' = "search"
         /\ UNCHANGED <<args, answer>>

\* One iteration of spfa_path's loop: the arcs of node u are relaxed in the
\* order they were added, a node is queued when first improved.
Relax ==
  /\ pc = "search" /\ queue # << >>
  /\ LET u == queue[1]
         rest == SubSeq(queue, 2, Len(queue))
         better == {k \in Arcs : /\ FromOf(k) = u /\ res[k] > 0
                                 /\ dist[u] + Cost(k) < dist[ToOf(k)]}
         Into(v) == {k \in better : ToOf(k) = v}
         Choice(v) == CHOOSE k \in Into(v) : \A j \in Into(v) :
                         \/ Cost(k) < Cost(j)
                         \/ Cost(k) = Cost(j) /\ Index(k) <= Index(j)
         improved == {ToOf(k) : k \in better}
         FirstBetter(v) == CHOOSE m \in {Index(k) : k \in Into(v)} :
                              \A k \in Into(v) : m <= Index(k)
         fresh == {v \in improved : v \notin {rest[i] : i \in DOMAIN rest}}
     IN /\ dist' = [v \in Nodes |-> IF v \in improved
                                    THEN dist[u] + Cost(Choice(v)) ELSE dist[v]]
        /\ parent' = [v \in Nodes |-> IF v \in improved THEN Choice(v) ELSE parent[v]]
        /\ queue' = rest \o SortBy(fresh, FirstBetter)
  /\ UNCHANGED <<args, net, res, pc, answer>>

\* The arcs of the path found, walking the tree back from the sink.
PathTo[k \in Nat, v \in Nat] ==
  IF v = Src \/ k = 0 THEN {}
  ELSE {parent[v]} \cup PathTo[k - 1, FromOf(parent[v])]
Path == PathTo[Cardinality(Nodes), Snk]

Bottleneck_Reverse(P) == CHOOSE m \in {res[0 - k] : k \in P} : \A k \in P : m <= res[0 - k]
\* The least residual capacity along the path.
Bottleneck(P) == CHOOSE m \in {res[k] : k \in P} : \A k \in P : m <= res[k]

\* Push the bottleneck along the path and search again.
Augment ==
  /\ pc = "search" /\ queue = << >> /\ parent[Snk] # 0
  /\ res' = [k \in Arcs |-> IF k \in Path THEN res[k] - Bottleneck(Path)
                            ELSE IF (0 - k) \in Path THEN res[k] + Bottleneck(Path)
                            ELSE res[k]]
  /\ FreshLabels
  /\ UNCHANGED <<args, net, pc, answer>>

\* Forward arc k carries flow iff its reverse has residual capacity.
Carries(k) == res[0 - k] > 0

\* The sink is out of reach: a span is selected iff its arc carries flow.
Extract ==
  /\ pc = "search" /\ queue = << >> /\ parent[Snk] = 0
  /\ LET ks == Ascending(Kept)
     IN answer' = {ks[j] : j \in {j \in DOMAIN ks : Carries(Len(SlackArcs) + j)}}
  /\ pc' = "done"
  /\ UNCHANGED <<args, net, res, labels>>

Done == pc = "done" /\ UNCHANGED vars

Next == Trivial \/ Build \/ Relax \/ Augment \/ Extract \/ Done

Spec == Init /\ [][Next]_vars /\ WF_vars(Next)

-----------------------------------------------------------------------------
(* Properties.                                                             *)

\* The flow finds what the allocator relies on: its answer is one of the
\* maximum-weight feasible selections.
Promise == INSTANCE SpanSelect
Optimal == Promise!Spec

\* The loops of spfa_path and of the augmentation come to an end.
Answers == <>(pc = "done")
=============================================================================
