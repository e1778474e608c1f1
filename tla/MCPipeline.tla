------------------------------ MODULE MCPipeline ------------------------------
(***************************************************************************)
(* The pipeline over the whole catalog, at every level and in every mode.  *)
(***************************************************************************)
EXTENDS Pipeline

Opt(mode, level, budget, off, only, verify, lto) ==
  [mode |-> mode, requested |-> level, budget |-> budget, off |-> off, only |-> only,
   verify |-> verify, lto |-> lto]

\* Dead store elimination and SROA, which drop both memory analyses, killed or
\* not; verification; a capped JIT budget; no link-time visibility.
Everyday ==
  {Opt(m, l, "peak", off, {}, FALSE, "full") : m \in Modes, l \in Levels, off \in SUBSET {23, 26}}
  \cup {Opt(m, l, "peak", {}, {}, TRUE, "full") : m \in {"aot"}, l \in Levels}
  \cup {Opt("jit-baseline", l, b, {}, {}, FALSE, "none") : l \in Levels, b \in Budgets}

Plain == {Opt("aot", l, "peak", {}, {}, FALSE, "full") : l \in Levels}
Capped == {Opt("jit-optimizing", l, "balanced", {}, {}, FALSE, "full") : l \in Levels}
=============================================================================
