----------------------------- MODULE SpanSelect -----------------------------
(***************************************************************************)
(* What ralloc_flow_select promises (ralloc.h:152-157): asked once, it     *)
(* answers with some maximum-weight selection that respects every          *)
(* segment's capacity.                                                     *)
(***************************************************************************)
EXTENDS Spans

CONSTANT NoAnswer
VARIABLES spans, caps, answer

Init == answer = NoAnswer

Answer == /\ answer = NoAnswer
          /\ answer' # NoAnswer
          /\ answer' \in BestSelections(spans, caps)
          /\ UNCHANGED <<spans, caps>>

Spec == Init /\ [][Answer]_<<spans, caps, answer>>
=============================================================================
