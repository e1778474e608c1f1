------------------------------- MODULE Pipeline -------------------------------
(***************************************************************************)
(* The pass scheduler and the analysis cache: PassManager::run and run_one *)
(* (jules/src/core/son/passes/pass_manager.cpp) with AnalysisManager       *)
(* (core/son/analysis/analysis_manager.cpp), over the catalog of all 92    *)
(* passes.  What a pass does to the graph is abstracted to whether it      *)
(* changed the control graph; every analysis is cached for one function.   *)
(*                                                                         *)
(* The first part is the catalog and its availability matrix: the facts    *)
(* about the passes that the scheduler reads (pass.h, opt_levels.cpp, and  *)
(* the name/order/stage/modes/invalidated overrides of every p*.cpp), and  *)
(* the two facts about them that no contract states but the analyses       *)
(* depend on: which passes query which analysis, and which of them change  *)
(* the control graph.                                                      *)
(*                                                                         *)
(* opts is what the driver parsed: mode, requested level, JIT budget, the  *)
(* killed passes, the --only list (empty: no list), --verify and --lto.    *)
(***************************************************************************)
EXTENDS Naturals, Sequences, FiniteSets

-----------------------------------------------------------------------------
(* The catalog.                                                            *)

Orders == 1 .. 92
Levels == {"O0", "Og", "O1", "O2", "O3", "Os", "Oz"}
Modes == {"aot", "jit-baseline", "jit-optimizing"}
Budgets == {"fast", "balanced", "peak"}
Kinds == {"dom", "loop", "alias", "memdep", "prob"}

\* Passes of Stage::Linear work on the machine stream, the others on graphs.
LinearStage == {28, 35, 71, 92} \cup (83 .. 89)

RunsInMode(o, mode) ==
  CASE o \in {5, 43} -> mode = "aot"
    [] o \in {69, 70} -> mode # "aot"
    [] o \in {72, 73, 91} -> mode # "jit-baseline"
    [] OTHER -> TRUE

-----------------------------------------------------------------------------
(* The availability matrix, as the set of levels at which a row is Off.    *)

NotO0 == {"O0"}
ScalarE == {"O0", "Og"}
LoopD == {"O0", "Og", "Oz"}
Vec == {"O0", "Og", "O1", "Oz"}
InlineC == {"O0", "Oz"}
PeakOnly == Levels \ {"O3"}

OffAt(o) ==
  CASE o \in {2, 3} -> NotO0
    [] o \in {4, 5, 7, 27, 30, 60, 61, 64, 76, 77, 82, 83, 84, 85} -> {}
    [] o \in {13, 14, 15, 28, 31, 32, 40, 41, 44, 46, 52, 88} \cup ((19 .. 29) \ {25, 27}) -> ScalarE
    [] o \in {25, 42, 48, 49} -> LoopD
    [] o \in {33, 54, 55, 56, 57, 62, 66, 69, 71, 72, 73, 74, 75, 90, 91} -> Vec
    [] o \in {78, 80} -> InlineC
    [] o = 92 -> PeakOnly
    [] OTHER -> NotO0

LevelRuns(o, level) == level \notin OffAt(o)

CleanupRounds(level) == CASE level \in {"O0", "Og"} -> 0
                          [] level = "O2" -> 2
                          [] level = "O3" -> 3
                          [] OTHER -> 1

\* The enumeration order of the levels is the order the cap compares.
Rank(level) == CASE level = "O0" -> 0 [] level = "Og" -> 1 [] level = "O1" -> 2
                 [] level = "O2" -> 3 [] level = "O3" -> 4 [] level = "Os" -> 5
                 [] level = "Oz" -> 6

\* cap_level_for_jit: a ceiling by rank.
CapLevel(budget, requested) ==
  CASE budget = "fast" /\ Rank(requested) >= Rank("O1") -> "O1"
    [] budget = "balanced" /\ Rank(requested) >= Rank("O2") -> "O2"
    [] OTHER -> requested

\* The driver applies the cap in the JIT modes only.
EffectiveLevel(mode, budget, requested) ==
  IF mode = "aot" THEN requested ELSE CapLevel(budget, requested)

-----------------------------------------------------------------------------
(* What passes ask the analysis manager for, and what they declare that    *)
(* they invalidate.                                                        *)

Queries(o) ==
  {k \in Kinds :
     \/ k = "dom" /\ o \in {9, 21, 25, 33, 42, 44, 45, 46, 47, 48, 49, 53, 57, 72, 74, 83}
     \/ k = "loop" /\ o \in {25, 37, 38, 39, 40, 41, 43, 47, 52, 56, 59, 64}
     \/ k = "alias" /\ o \in {19, 21, 23, 25, 36, 41, 46, 47, 53, 54, 58}
     \/ k = "memdep" /\ o \in {20, 22, 23}
     \/ k = "prob" /\ o \in {51, 52}}

WholeGraph == {63, 72, 73, 77, 78, 80, 90, 91}

ControlMask_NotPeeling == {1, 7, 8, 10, 42, 43, 53, 57} \cup (45 .. 49) \cup WholeGraph
ControlMask == {1, 7, 8, 10, 53, 57} \cup (42 .. 49) \cup WholeGraph
AliasMask == {23, 25, 26, 29, 33, 41, 43, 46, 47, 53, 54, 58} \cup WholeGraph
MemDepMask_NotDse == {25, 26, 29, 33, 34, 41, 43, 45, 46, 47, 53, 56, 57} \cup WholeGraph
MemDepMask == {23, 25, 26, 29, 33, 34, 41, 43, 45, 46, 47, 53, 56, 57} \cup WholeGraph

\* No pass declares BranchProb.
Invalidates(o) == {k \in Kinds : \/ k = "dom" /\ o \in ControlMask
                                 \/ k = "loop" /\ o \in ControlMask \cup {40}
                                 \/ k = "alias" /\ o \in AliasMask
                                 \/ k = "memdep" /\ o \in MemDepMask}

\* Passes that add, remove or rewire control nodes.
Reshapes(o) == o \in {1, 7, 8, 10, 50, 53, 56, 57, 72, 73, 77, 78, 80, 90, 91}
                       \cup (42 .. 49)

\* Passes that start over after a rewrite, and then ask for the dominator tree again.
Rescans(o) == o \in {42, 44, 57, 72}

-----------------------------------------------------------------------------
(* The scheduler.                                                          *)

CONSTANT Options

VARIABLES opts,
          pc,        \* "next" | "query" | "transform" | "rescan" | "settle" | "done"
          at,        \* the pass under way, its place in the plan in the main run
          sweep,     \* 0 in the main run, else the cleanup round
          ci, any,   \* place in the cleanup list; anything changed this round
          swept,     \* the cleanup sweep is behind us
          changed,   \* the pass under way changed the control graph
          cache,     \* per analysis: "none" | "fresh" | "stale"
          severed,   \* cached analyses whose inputs' object is gone
          seen,      \* what the pass under way was served
          ran, errors, result

vars == <<opts, pc, at, sweep, ci, any, swept, changed, cache, severed, seen,
          ran, errors, result>>

Level == EffectiveLevel(opts.mode, opts.budget, opts.requested)

-----------------------------------------------------------------------------
(* The plan: SoN passes before linear passes, by execution slot.           *)

ExecKey(o) == CASE o = 71 -> 835 [] o = 35 -> 836 [] o = 28 -> 885
                [] o = 72 -> 915 [] o = 73 -> 916 [] OTHER -> 10 * o

Before(o, u) == IF (o \in LinearStage) # (u \in LinearStage) THEN u \in LinearStage
                ELSE ExecKey(o) < ExecKey(u)

Plan == LET rank == [o \in Orders |-> 1 + Cardinality({u \in Orders : Before(u, o)})]
        IN  [i \in Orders |-> CHOOSE o \in Orders : rank[o] = i]
SonEnd == Cardinality(Orders \ LinearStage)

CleanupOrders == <<26, 30, 23, 24, 74, 1, 2, 3, 7, 8, 9, 44, 42, 54, 58>>

\* should_skip: --only, kill switches, mode, level, LTO visibility.
ShouldSkip(o) == \/ opts.only # {} /\ o \notin opts.only /\ o \notin LinearStage
                 \/ o \in opts.off
                 \/ ~RunsInMode(o, opts.mode)
                 \/ ~LevelRuns(o, Level)
                 \/ o = 82 /\ opts.lto = "none"

Init == /\ opts \in Options
        /\ pc = "next" /\ at = 0 /\ sweep = 0 /\ ci = 0 /\ any = FALSE /\ swept = FALSE
        /\ changed = FALSE /\ cache = [k \in Kinds |-> "none"] /\ severed = {} /\ seen = {}
        /\ ran = {} /\ errors = FALSE /\ result = TRUE

-----------------------------------------------------------------------------
(* Choosing the next pass.                                                 *)

Pass == IF sweep = 0 THEN Plan[at] ELSE CleanupOrders[ci]

\* The main loop reaches the next pass of the plan, or the sweep boundary.
MainNext ==
  /\ pc = "next" /\ sweep = 0 /\ at < Cardinality(Orders)
  /\ (at = SonEnd => swept)
  /\ at' = at + 1
  /\ pc' = IF ShouldSkip(Plan[at + 1]) THEN "next" ELSE "query"
  /\ UNCHANGED <<opts, sweep, ci, any, swept, changed, cache, severed, seen,
                 ran, errors, result>>

StartSweep ==
  /\ pc = "next" /\ sweep = 0 /\ at = SonEnd /\ ~swept
  /\ swept' = TRUE
  /\ sweep' = IF CleanupRounds(Level) = 0 THEN 0 ELSE 1
  /\ ci' = 0 /\ any' = FALSE
  /\ UNCHANGED <<opts, pc, at, changed, cache, severed, seen, ran, errors, result>>

SweepSkips_OnlyMode(o) == ~RunsInMode(o, opts.mode)
SweepSkips(o) == ShouldSkip(o)

SweepNext ==
  /\ pc = "next" /\ sweep > 0 /\ ci < Len(CleanupOrders)
  /\ ci' = ci + 1
  /\ pc' = IF SweepSkips(CleanupOrders[ci + 1]) THEN "next" ELSE "query"
  /\ UNCHANGED <<opts, at, sweep, any, swept, changed, cache, severed, seen, ran,
                 errors, result>>

NextRound_Restart == /\ pc = "next" /\ sweep > 0 /\ ci >= Len(CleanupOrders)
                     /\ sweep' = IF any THEN 1 ELSE 0
                     /\ ci' = 0 /\ any' = FALSE
                     /\ UNCHANGED <<opts, pc, at, swept, changed, cache, severed, seen,
                                    ran, errors, result>>
\* A round that changed nothing is the last, the level's budget permitting.
NextRound == /\ pc = "next" /\ sweep > 0 /\ ci >= Len(CleanupOrders)
             /\ sweep' = IF any /\ sweep < CleanupRounds(Level) THEN sweep + 1 ELSE 0
             /\ ci' = 0 /\ any' = FALSE
             /\ UNCHANGED <<opts, pc, at, swept, changed, cache, severed, seen,
                            ran, errors, result>>

-----------------------------------------------------------------------------
(* Running a pass (run_one).                                               *)

\* What computing an analysis computes and caches first.
Needs(k) == CASE k = "loop" -> {"dom"}
              [] k = "memdep" -> {"alias"}
              [] k = "prob" -> {"loop", "dom"}
              [] OTHER -> {}
Wanted(K) == K \cup UNION {Needs(k) : k \in {j \in K : cache[j] = "none"}}

\* Lazy computation: what is cached is served as it is; what is not is
\* computed, out of what is cached of its inputs.
Served(K) == [k \in Kinds |->
  IF k \notin Wanted(K) \/ cache[k] # "none" THEN cache[k]
  ELSE IF \E j \in Needs(k) : cache[j] = "stale" THEN "stale" ELSE "fresh"]

Serve(K) == /\ cache' = Served(K)
            /\ seen' = {Served(K)[k] : k \in K} \cup (IF K \cap severed # {} THEN {"severed"} ELSE {})

Query == /\ pc = "query" /\ pc' = "transform"
         /\ Serve(Queries(Pass))
         /\ UNCHANGED <<opts, at, sweep, ci, any, swept, changed, severed, ran, errors, result>>

Aged(c) == IF c = "fresh" THEN "stale" ELSE c

\* The pass rewrites the graph, or not; BranchProb, LoopInfo and the
\* dominator tree describe the control graph of the time they were computed.
Transform ==
  /\ pc = "transform"
  /\ changed' \in (IF Reshapes(Pass) THEN BOOLEAN ELSE {FALSE})
  /\ cache' = [k \in Kinds |-> IF changed' /\ k \in {"dom", "loop", "prob"}
                               THEN Aged(cache[k]) ELSE cache[k]]
  /\ pc' = IF changed' /\ Rescans(Pass) THEN "rescan" ELSE "settle"
  /\ UNCHANGED <<opts, at, sweep, ci, any, swept, severed, seen, ran, errors, result>>

Rescan == /\ pc = "rescan" /\ pc' = "settle"
          /\ Serve({"dom"})
          /\ UNCHANGED <<opts, at, sweep, ci, any, swept, changed, severed, ran, errors, result>>

\* LoopInfo keeps a pointer to its dominator tree, MemDep to its AliasInfo.
Holds == {<<"loop", "dom">>, <<"memdep", "alias">>}

\* Invalidation by the pass's mask, then verification of every graph.  A
\* failure ends the main run; in the sweep it ends the round.
Settle ==
  /\ pc = "settle"
  /\ LET gone == Invalidates(Pass)
     IN /\ cache' = [k \in Kinds |-> IF k \in gone THEN "none" ELSE cache[k]]
        /\ severed' = (severed \cup {h[1] : h \in {x \in Holds : x[2] \in gone /\ cache[x[1]] # "none"}})
                        \ gone
  /\ ran' = ran \cup {Pass}
  /\ seen' = {} /\ changed' = FALSE
  /\ \E broken \in (IF opts.verify THEN BOOLEAN ELSE {FALSE}), touched \in BOOLEAN :
       /\ (changed => touched)
       /\ errors' = (errors \/ broken)
       /\ any' = (any \/ (sweep > 0 /\ ~broken /\ touched))
       /\ IF broken /\ sweep = 0
          THEN pc' = "done" /\ result' = FALSE /\ UNCHANGED ci
          ELSE pc' = "next" /\ UNCHANGED result /\ ci' = IF broken THEN Len(CleanupOrders) ELSE ci
  /\ UNCHANGED <<opts, at, sweep, swept>>

Finish_Ok == /\ pc = "next" /\ sweep = 0 /\ at = Cardinality(Orders)
             /\ pc' = "done" /\ result' = TRUE
             /\ UNCHANGED <<opts, at, sweep, ci, any, swept, changed, cache, severed, seen,
                            ran, errors>>
Finish == /\ pc = "next" /\ sweep = 0 /\ at = Cardinality(Orders)
          /\ pc' = "done" /\ result' = ~errors
          /\ UNCHANGED <<opts, at, sweep, ci, any, swept, changed, cache, severed, seen,
                         ran, errors>>

Done == pc = "done" /\ UNCHANGED vars

Next == \/ MainNext \/ StartSweep \/ SweepNext \/ NextRound
        \/ Query \/ Transform \/ Rescan \/ Settle \/ Finish \/ Done

Spec == Init /\ [][Next]_vars /\ WF_vars(Next)

-----------------------------------------------------------------------------
(* Properties.                                                             *)

\* A pass that the user killed, or that the mode or the level forbids, never
\* runs anywhere in the pipeline, the cleanup sweep included: the kill-switch
\* bypass of docs/pass_status.md is gone.
GatesHoldEverywhere == \A o \in ran : ~ShouldSkip(o)

\* No pass is served an analysis holding a pointer to another analysis that
\* was dropped, although masks are declared pass by pass and no mask is closed
\* under these dependences.
NoSeveredAnalysis == "severed" \notin seen

\* Unless a pass is killed that drops the control analyses, the linearizer lays blocks out by a dominator tree of the graph
\* it linearizes.
LoweringSeesFreshTree == pc = "transform" /\ Pass = 83 => "stale" \notin seen

\* A verification failure anywhere is the pipeline's verdict.
FailureReported == pc = "done" /\ errors => ~result

\* The pipeline ends: cleanup rounds are bounded whatever keeps changing.
Terminates == <>(pc = "done")

\* analysis.h:1 "lazily computed, cached per function, invalidated by pass
\* contracts": no pass works from control analyses of an older graph.
\* (Does not hold: README, "Disagreements".)
AnalysesAreCurrent == "stale" \notin seen

\* opt_levels_spec.md:1165 "The user-visible optimization level still applies.
\* JIT budgets only constrain how much work the runtime compiler is allowed to
\* spend": no pass runs that the requested level leaves out.
\* (Does not hold: README, "Disagreements".)
BudgetOnlyConstrains == \A o \in ran : LevelRuns(o, opts.requested)

\* opt_levels.cpp:156-158 quotes the specification's rows for two passes that
\* have no row of their own: they run at no level at which the row is Off.
\* (Does not hold: README, "Disagreements".)
CommentedOff(o) == CASE o = 45 -> {"O0", "Og", "O1", "Oz"}
                     [] o = 47 -> {"O0", "Og", "O1", "Os", "Oz"}
                     [] OTHER -> {}
RunsWhereCommented == \A o \in ran : Level \notin CommentedOff(o)
=============================================================================
